----------------------- MODULE LeaseCoordinator_proofs -----------------------
(***************************************************************************)
(* Proofs about the lease coordinators, for any workers, leases and bounds, *)
(* in five parts:                                                          *)
(*                                                                         *)
(*   1. type correctness;                                                  *)
(*   2. at most one worker's copy of a lease is current (FencingInv), and   *)
(*      with that the coordinators implement LeaseFencing;                 *)
(*   3. no lease is taken early;                                           *)
(*   4. every write of an item is counted, and every change of its owner;   *)
(*   5. initialize() is owed an answer until it has called back.           *)
(*                                                                         *)
(* Parts 3 to 5 rest on parts 1 and 2, and not on each other.               *)
(***************************************************************************)
EXTENDS LeaseCoordinator, TLAPS

------------------------------------------------------------------------------
(* 1. Type correctness: the lemmas about the operators on leases and maps,  *)
(* one lemma for each component's actions, and the theorem.                 *)

(* Operators on leases.                                                    *)

\* An item read from the table is a lease.
LEMMA FromDynamoDictType ==
  ASSUME NEW k \in Key, NEW item \in Item
  PROVE  FromDynamoDict(k, item) \in LeaseState
BY DEF FromDynamoDict, Item, LeaseState

\* A listing of the table consists of leases.
LEMMA ListLeasesType ==
  ASSUME TableTypeOK
  PROVE  ListLeases(table) \in SUBSET LeaseState
<1> SUFFICES ASSUME NEW k \in ScannedKeys(table)
             PROVE  FromDynamoDict(k, table[k]) \in LeaseState
  BY DEF ListLeases
<1>1. k \in Key /\ table[k] \in Item
  BY DEF ScannedKeys, TableTypeOK
<1> QED BY <1>1, FromDynamoDictType

\* The renewed copy of a lease is a lease.
LEMMA RenewResultType ==
  ASSUME NEW l \in LeaseState
  PROVE  RenewResult(l) \in LeaseState
BY DEF RenewResult, IncrementedCounter, LeaseState

\* What an update writes is an item.
LEMMA ValuesType ==
  ASSUME NEW item \in Item, NEW l \in LeaseState, NEW w \in Worker
  PROVE  /\ RenewValues(item, l) \in Item
         /\ TakeValues(item, l, w) \in Item
<1>1. l.counter + 1 \in Nat /\ l.switches + 1 \in Nat /\ w \in Owner
  BY DEF LeaseState, Owner
<1>2. RenewValues(item, l) \in Item
  BY <1>1 DEF RenewValues, Item
<1>3. [item EXCEPT !.owner = w, !.switches = l.switches + 1, !.counter = l.counter + 1] \in Item
  BY <1>1 DEF Item
<1> QED BY <1>2, <1>3 DEF TakeValues

\* Handing taken leases to the renewer keeps ownedLeases a map of leases.
LEMMA AddLeasesType ==
  ASSUME NEW map \in LeaseMap, NEW S \in SUBSET LeaseState
  PROVE  AddLeasesToRenew(map, S) \in LeaseMap
<1> SUFFICES ASSUME NEW k \in Key
             PROVE  AddLeasesToRenew(map, S)[k] \in LeaseState \cup {NoLease}
  BY DEF AddLeasesToRenew, LeaseMap
<1>1. CASE map[k] = NoLease /\ \E l \in S : l.key = k /\ l.inc # NoTime
  <2>1. PICK l \in S : l.key = k /\ l.inc # NoTime
    BY <1>1
  <2>2. (CHOOSE x \in S : x.key = k /\ x.inc # NoTime) \in S
    BY <2>1
  <2> QED BY <1>1, <2>2 DEF AddLeasesToRenew
<1>2. CASE ~(map[k] = NoLease /\ \E l \in S : l.key = k /\ l.inc # NoTime)
  BY <1>2 DEF AddLeasesToRenew, LeaseMap
<1> QED BY <1>1, <1>2

\* Remembering a listing keeps allLeases a map of leases.
LEMMA UpdateAllLeasesType ==
  ASSUME NEW map \in LeaseMap, NEW page \in SUBSET LeaseState, NEW t \in Nat
  PROVE  UpdateAllLeases(map, page, t) \in LeaseMap
<1> SUFFICES ASSUME NEW k \in Key
             PROVE  UpdateAllLeases(map, page, t)[k] \in LeaseState \cup {NoLease}
  BY DEF UpdateAllLeases, LeaseMap
<1>1. CASE \E l \in page : l.key = k
  <2> DEFINE lease == CHOOSE l \in page : l.key = k
  <2>1. lease \in LeaseState
    BY <1>1
  <2>2. StampOf(map[k], lease, t) \in Nat \cup {NoTime}
    BY <2>1 DEF StampOf, LeaseMap, LeaseState
  <2>3. [lease EXCEPT !.inc = StampOf(map[k], lease, t)] \in LeaseState
    BY <2>1, <2>2 DEF LeaseState
  <2> QED BY <1>1, <2>3 DEF UpdateAllLeases
<1>2. CASE ~\E l \in page : l.key = k
  BY <1>2 DEF UpdateAllLeases
<1> QED BY <1>1, <1>2

------------------------------------------------------------------------------
(* The table.                                                              *)

\* An applied update leaves the table well typed.
LEMMA ApplyType ==
  ASSUME TableTypeOK, NEW l \in LeaseState, NEW w \in Worker,
         ApplyRenew(l) \/ ApplyTake(l, w)
  PROVE  (now \in Nat /\ table \in [Key -> Item \cup {NoItem}] /\ lastWrite \in [Key -> Nat])'
<1>1. l.key \in Key /\ table[l.key] \in Item
  BY DEF ApplyRenew, ApplyTake, Applicable, CASHolds, TableTypeOK, LeaseState
<1>2. RenewValues(table[l.key], l) \in Item /\ TakeValues(table[l.key], l, w) \in Item
  BY <1>1, ValuesType
<1> QED BY <1>1, <1>2 DEF ApplyRenew, ApplyTake, Write, TableTypeOK

\* A renewal needs no new owner.
LEMMA ApplyRenewType ==
  ASSUME TableTypeOK, NEW l \in LeaseState, ApplyRenew(l)
  PROVE  (now \in Nat /\ table \in [Key -> Item \cup {NoItem}] /\ lastWrite \in [Key -> Nat])'
<1>1. l.key \in Key /\ table[l.key] \in Item
  BY DEF ApplyRenew, Applicable, CASHolds, TableTypeOK, LeaseState
<1>2. l.counter + 1 \in Nat
  BY DEF LeaseState
<1>3. RenewValues(table[l.key], l) \in Item
  BY <1>1, <1>2 DEF RenewValues, Item
<1> QED BY <1>1, <1>3 DEF ApplyRenew, Write, TableTypeOK

\* The steps of the table itself keep it well typed.
LEMMA TableNextType == TableTypeOK /\ TableNext => TableTypeOK'
<1> SUFFICES ASSUME TableTypeOK, TableNext
             PROVE  TableTypeOK'
  OBVIOUS
<1>1. CASE Tick
  BY <1>1 DEF Tick, TableTypeOK
<1>2. CASE ClockSetBack
  BY <1>2 DEF ClockSetBack, TableTypeOK
<1>3. ASSUME NEW req \in orphans, OrphanApplied(req)
      PROVE  TableTypeOK'
  <2>1. req.lease \in LeaseState /\ req.newOwner \in Owner
    BY DEF TableTypeOK, Request
  <2>2. orphans' \in SUBSET Request
    BY <1>3 DEF OrphanApplied, TableTypeOK
  <2>3. CASE req.newOwner = NoOwner
    BY <1>3, <2>1, <2>2, <2>3, ApplyRenewType DEF OrphanApplied, TableTypeOK
  <2>4. CASE req.newOwner # NoOwner
    <3>1. req.newOwner \in Worker
      BY <2>1, <2>4 DEF Owner
    <3> QED BY <1>3, <2>1, <2>2, <2>4, <3>1, ApplyType DEF OrphanApplied, TableTypeOK
  <2> QED BY <2>3, <2>4
<1>4. ASSUME NEW req \in orphans, OrphanLost(req)
      PROVE  TableTypeOK'
  BY <1>4 DEF OrphanLost, TableTypeOK
<1>5. ASSUME NEW k \in Key, NEW owner \in Owner, NEW stamp \in {NoTime, now},
             CreateLeaseIfNotExists(k, owner, stamp)
      PROVE  TableTypeOK'
  <2>1. ToDynamoDict(owner, NoCounter, stamp) \in Item
    BY DEF ToDynamoDict, Item, TableTypeOK
  <2> QED BY <1>5, <2>1 DEF CreateLeaseIfNotExists, Write, TableTypeOK
<1> QED BY <1>1, <1>2, <1>3, <1>4, <1>5 DEF TableNext

------------------------------------------------------------------------------
(* The renewer.                                                            *)

\* A queued renewal occupies a free slot with a well-typed record.
LEMMA QueueRenewalsType ==
  ASSUME RenewerTypeOK, NEW w \in Worker, NEW S \in SUBSET LeaseState,
         NEW force \in BOOLEAN, QueueRenewals(w, S, force)
  PROVE  renewals' \in [Worker -> [Key -> [RenewSlot -> Renewal \cup {NoCall}]]]
<1> DEFINE slot(k) == CHOOSE s \in FreeSlots(w, k) : TRUE
           lease(k) == CHOOSE l \in S : l.key = k
           call(k) == [st |-> "queued", lease |-> lease(k), force |-> force]
           new(k) == IF \E l \in S : l.key = k
                     THEN [renewals[w][k] EXCEPT ![slot(k)] = call(k)]
                     ELSE renewals[w][k]
<1>1. ASSUME NEW k \in Key
      PROVE  new(k) \in [RenewSlot -> Renewal \cup {NoCall}]
  <2>1. renewals[w][k] \in [RenewSlot -> Renewal \cup {NoCall}]
    BY DEF RenewerTypeOK
  <2>2. CASE \E l \in S : l.key = k
    <3>1. lease(k) \in LeaseState
      BY <2>2
    <3>2. call(k) \in Renewal
      BY <3>1 DEF Renewal
    <3> QED BY <2>1, <2>2, <3>2
  <2> QED BY <2>1, <2>2
<1>2. renewals' = [renewals EXCEPT ![w] = [k \in Key |-> new(k)]]
  BY DEF QueueRenewals
<1>3. [k \in Key |-> new(k)] \in [Key -> [RenewSlot -> Renewal \cup {NoCall}]]
  BY <1>1
<1> HIDE DEF new
<1> QED BY <1>2, <1>3 DEF RenewerTypeOK

\* A call in flight has a well-typed record.
LEMMA InCallType ==
  ASSUME RenewerTypeOK, NEW w \in Worker, NEW k \in Key, NEW s \in RenewSlot,
         NEW st, InCall(w, k, s, st)
  PROVE  /\ renewals[w][k][s] \in Renewal
         /\ renewals[w][k][s].lease \in LeaseState
         /\ renewals[w][k][s].lease.key \in Key
<1>1. renewals[w][k][s] \in Renewal
  BY DEF RenewerTypeOK, InCall
<1> QED BY <1>1 DEF Renewal, LeaseState

\* Moving a call on, or ending it.
LEMMA SetRenewalType ==
  ASSUME RenewerTypeOK, NEW w \in Worker, NEW k \in Key, NEW s \in RenewSlot,
         NEW c \in Renewal \cup {NoCall}
  PROVE  [renewals EXCEPT ![w][k][s] = c]
           \in [Worker -> [Key -> [RenewSlot -> Renewal \cup {NoCall}]]]
BY DEF RenewerTypeOK

\* The same for a change of its status only.
LEMMA SetRenewalStType ==
  ASSUME RenewerTypeOK, NEW w \in Worker, NEW k \in Key, NEW s \in RenewSlot,
         NEW st \in {"queued", "sent", "ok", "failed"}, NEW st0, InCall(w, k, s, st0),
         SetRenewal(w, k, s, st)
  PROVE  renewals' \in [Worker -> [Key -> [RenewSlot -> Renewal \cup {NoCall}]]]
<1> DEFINE c == [renewals[w][k][s] EXCEPT !.st = st]
<1>1. c \in Renewal
  BY InCallType DEF Renewal
<1>2. renewals' = [renewals EXCEPT ![w][k][s] = c]
  BY DEF SetRenewal
<1> QED BY <1>1, <1>2, SetRenewalType

\* Filing a lease, or dropping it.
LEMMA SetOwnedType ==
  ASSUME RenewerTypeOK, NEW w \in Worker, NEW k \in Key, NEW l \in LeaseState \cup {NoLease}
  PROVE  [owned EXCEPT ![w][k] = l] \in [Worker -> LeaseMap]
<1>1. owned \in [Worker -> [Key -> LeaseState \cup {NoLease}]]
  BY DEF RenewerTypeOK, LeaseMap
<1>2. [owned EXCEPT ![w][k] = l] \in [Worker -> [Key -> LeaseState \cup {NoLease}]]
  BY <1>1
<1> QED BY <1>2 DEF LeaseMap

\* The steps of one renewal keep the table and the renewer well typed.
LEMMA RenewalActionType ==
  ASSUME TableTypeOK, RenewerTypeOK, NEW w \in Worker, NEW k \in Key, NEW s \in RenewSlot,
         \/ RenewLease(w, k, s)
         \/ RenewApplied(w, k, s)
         \/ RenewFailed(w, k, s)
         \/ RenewDone(w, k, s)
  PROVE  TableTypeOK' /\ RenewerTypeOK'
<1> DEFINE call == renewals[w][k][s]
<1>1. CASE RenewLease(w, k, s)
  <2>1. call.lease.key \in Key
    BY <1>1, InCallType DEF RenewLease
  <2>2. renewals' \in [Worker -> [Key -> [RenewSlot -> Renewal \cup {NoCall}]]]
    BY <1>1, SetRenewalStType, SetRenewalType DEF RenewLease, EndRenewal
  <2>3. owned' \in [Worker -> LeaseMap]
    <3>1. CASE owned' = [owned EXCEPT ![w][call.lease.key] = NoLease]
      BY <2>1, <3>1, SetOwnedType
    <3>2. CASE owned' = owned
      BY <3>2 DEF RenewerTypeOK
    <3> QED BY <1>1, <3>1, <3>2 DEF RenewLease, DropLease
  <2> QED BY <1>1, <2>2, <2>3 DEF RenewLease, RenewerTypeOK, TableTypeOK, tableVars
<1>2. CASE RenewApplied(w, k, s)
  <2>1. call.lease \in LeaseState
    BY <1>2, InCallType DEF RenewApplied
  <2>2. renewals' \in [Worker -> [Key -> [RenewSlot -> Renewal \cup {NoCall}]]]
    BY <1>2, SetRenewalStType DEF RenewApplied
  <2>3. TableTypeOK'
    BY <1>2, <2>1, ApplyRenewType DEF RenewApplied, TableTypeOK
  <2> QED BY <1>2, <2>2, <2>3 DEF RenewApplied, RenewerTypeOK
<1>3. CASE RenewFailed(w, k, s)
  <2>1. renewals' \in [Worker -> [Key -> [RenewSlot -> Renewal \cup {NoCall}]]]
    BY <1>3, SetRenewalStType DEF RenewFailed
  <2>2. RenewRequest(w, k, s) \in Request
    BY <1>3, InCallType DEF RenewFailed, RenewRequest, Request, Owner
  <2>3. orphans' \in SUBSET Request
    BY <1>3, <2>2 DEF RenewFailed, GiveUpOn, TableTypeOK
  <2> QED BY <1>3, <2>1, <2>3 DEF RenewFailed, RenewerTypeOK, TableTypeOK
<1>4. CASE RenewDone(w, k, s)
  <2>1. call.lease \in LeaseState /\ call.lease.key \in Key
    BY <1>4, InCallType DEF RenewDone
  <2>2. RenewResult(call.lease) \in LeaseState /\ RenewResult(call.lease).key \in Key
    BY <2>1, RenewResultType DEF LeaseState
  <2>3. renewals' \in [Worker -> [Key -> [RenewSlot -> Renewal \cup {NoCall}]]]
    BY <1>4, SetRenewalType DEF RenewDone, EndRenewal
  <2>4. owned' \in [Worker -> LeaseMap]
    <3>1. CASE owned' = [owned EXCEPT ![w][call.lease.key] = NoLease]
      BY <2>1, <3>1, SetOwnedType
    <3>2. CASE owned' = [owned EXCEPT ![w][RenewResult(call.lease).key] = RenewResult(call.lease)]
      BY <2>2, <3>2, SetOwnedType
    <3> QED BY <1>4, <3>1, <3>2 DEF RenewDone, DropLease, ReplaceRenewedLease
  <2>5. init' \in [Worker -> [phase : InitPhase, page : SUBSET LeaseState]]
    BY <1>4 DEF RenewDone, RenewerTypeOK, InitPhase
  <2> QED BY <1>4, <2>3, <2>4, <2>5 DEF RenewDone, RenewerTypeOK, TableTypeOK, tableVars
<1> QED BY <1>1, <1>2, <1>3, <1>4

\* So do the steps of initialize() and of renewLeases().
LEMMA InitActionType ==
  ASSUME TableTypeOK, RenewerTypeOK, NEW w \in Worker,
         \/ InitScanned(w)
         \/ InitScanFailed(w)
         \/ InitListed(w)
         \/ RenewLeases(w)
  PROVE  TableTypeOK' /\ RenewerTypeOK'
<1>0. TableTypeOK'
  BY DEF InitScanned, InitScanFailed, InitListed, RenewLeases, TableTypeOK, tableVars
<1>1. CASE InitScanned(w)
  <2>1. ListLeases(table) \in SUBSET LeaseState
    BY ListLeasesType
  <2>2. [phase |-> "listed", page |-> ListLeases(table)]
          \in [phase : InitPhase, page : SUBSET LeaseState]
    BY <2>1 DEF InitPhase
  <2>3. init' \in [Worker -> [phase : InitPhase, page : SUBSET LeaseState]]
    <3>1. CASE init' = [init EXCEPT ![w] = [phase |-> "listed", page |-> ListLeases(table)]]
      BY <2>2, <3>1 DEF RenewerTypeOK
    <3>2. CASE init' = [init EXCEPT ![w].phase = "scanfailed"]
      BY <3>2 DEF RenewerTypeOK, InitPhase
    <3> QED BY <1>1, <3>1, <3>2 DEF InitScanned
  <2> QED BY <1>0, <1>1, <2>3 DEF InitScanned, RenewerTypeOK
<1>2. CASE InitScanFailed(w)
  BY <1>0, <1>2 DEF InitScanFailed, RenewerTypeOK, InitPhase
<1>3. CASE InitListed(w)
  <2>1. init[w].page \in SUBSET LeaseState
    BY DEF RenewerTypeOK
  <2>2. renewals' \in [Worker -> [Key -> [RenewSlot -> Renewal \cup {NoCall}]]]
    BY <1>3, <2>1, QueueRenewalsType DEF InitListed
  <2> QED BY <1>0, <1>3, <2>2 DEF InitListed, RenewerTypeOK, InitPhase
<1>4. CASE RenewLeases(w)
  <2>1. Leases(owned[w]) \in SUBSET LeaseState
    BY DEF RenewerTypeOK, LeaseMap, Leases
  <2>2. renewals' \in [Worker -> [Key -> [RenewSlot -> Renewal \cup {NoCall}]]]
    BY <1>4, <2>1, QueueRenewalsType DEF RenewLeases
  <2> QED BY <1>0, <1>4, <2>2 DEF RenewLeases, RenewerTypeOK
<1> QED BY <1>1, <1>2, <1>3, <1>4

------------------------------------------------------------------------------
(* The taker.                                                              *)

\* An idle round is a round.
LEMMA IdleRoundType == IdleRound \in TakerRound
BY DEF IdleRound, NoTakes, TakerRound, RoundPhase

\* A take in flight has a well-typed record.
LEMMA InTakeType ==
  ASSUME TakerTypeOK, NEW w \in Worker, NEW r \in Round, NEW k \in Key,
         NEW st, InTake(w, r, k, st)
  PROVE  /\ rounds[w][r].takes[k] \in Take
         /\ rounds[w][r].takes[k].lease \in LeaseState
<1>1. rounds[w][r] \in TakerRound
  BY DEF TakerTypeOK
<1>2. rounds[w][r].takes[k] \in Take
  BY <1>1 DEF TakerRound, InTake
<1> QED BY <1>2 DEF Take

\* Moving a take on.
LEMMA SetTakeType ==
  ASSUME TakerTypeOK, NEW w \in Worker, NEW r \in Round, NEW k \in Key,
         NEW st \in {"sent", "ok", "failed", "taken", "missed"}, NEW st0,
         InTake(w, r, k, st0), SetTake(w, r, k, st)
  PROVE  rounds' \in [Worker -> [Round -> TakerRound]]
<1> DEFINE t == [rounds[w][r].takes[k] EXCEPT !.st = st]
           ts == [rounds[w][r].takes EXCEPT ![k] = t]
           new == [rounds[w][r] EXCEPT !.takes = ts]
<1>1. t \in Take
  BY InTakeType DEF Take
<1>2. rounds[w][r] \in TakerRound
  BY DEF TakerTypeOK
<1>3. ts \in [Key -> Take \cup {NoTake}]
  BY <1>1, <1>2 DEF TakerRound
<1>4. new \in TakerRound
  BY <1>2, <1>3 DEF TakerRound
<1>5. rounds' = [rounds EXCEPT ![w][r] = new]
  BY DEF SetTake
<1> QED BY <1>4, <1>5 DEF TakerTypeOK

\* The taker takes only leases it remembers.
LEMMA ComputeLeasesType ==
  ASSUME NEW map \in LeaseMap, NEW w \in Worker, NEW t \in Nat,
         NEW S \in ComputeLeasesToTake(map, w, t)
  PROVE  S \subseteq LeaseState
<1>1. Leases(map) \subseteq LeaseState
  BY DEF Leases, LeaseMap
<1>2. ASSUME NEW T, NEW n, S \in AnyOf(T, n)
      PROVE  S \subseteq T
  BY <1>2 DEF AnyOf
<1>3. CASE S = {}
  BY <1>3
<1>4. ASSUME NEW n, S \in AnyOf(GetExpiredLeases(map, t), n)
      PROVE  S \subseteq Leases(map)
  <2>1. S \subseteq GetExpiredLeases(map, t)
    BY <1>2, <1>4
  <2> QED BY <2>1 DEF GetExpiredLeases
<1>5. ASSUME NEW target, NEW needed, S \in ChooseLeasesToSteal(map, w, target, needed)
      PROVE  S \subseteq Leases(map)
  <2>1. PICK o, n : S \in AnyOf({l \in Leases(map) : l.owner = o}, n)
    BY <1>5 DEF ChooseLeasesToSteal
  <2>2. S \subseteq {l \in Leases(map) : l.owner = o}
    BY <1>2, <2>1
  <2> QED BY <2>2
<1> QED BY <1>1, <1>3, <1>4, <1>5 DEF ComputeLeasesToTake

\* The steps of a round of the taker keep the table and the taker well typed.
LEMMA RoundActionType ==
  ASSUME TableTypeOK, TakerTypeOK, NEW w \in Worker, NEW r \in Round,
         \/ TakeLeases(w, r)
         \/ RoundScanned(w, r)
         \/ RoundListed(w, r)
  PROVE  TableTypeOK' /\ TakerTypeOK'
<1>0. TableTypeOK'
  BY DEF TakeLeases, RoundScanned, RoundListed, TableTypeOK, tableVars
<1>r. rounds[w][r] \in TakerRound
  BY DEF TakerTypeOK
<1>1. CASE TakeLeases(w, r)
  <2>1. [rounds[w][r] EXCEPT !.phase = "scanning"] \in TakerRound
    BY <1>r DEF TakerRound, RoundPhase
  <2> QED BY <1>0, <1>1, <2>1 DEF TakeLeases, TakerTypeOK
<1>2. CASE RoundScanned(w, r)
  <2>1. [rounds[w][r] EXCEPT !.phase = "listed", !.page = ListLeases(table)] \in TakerRound
    BY <1>r, ListLeasesType DEF TakerRound, RoundPhase
  <2>2. [rounds[w][r] EXCEPT !.phase = "scanfailed"] \in TakerRound
    BY <1>r DEF TakerRound, RoundPhase
  <2>3. ASSUME NEW new \in TakerRound, rounds' = [rounds EXCEPT ![w][r] = new]
        PROVE  rounds' \in [Worker -> [Round -> TakerRound]]
    BY <2>3 DEF TakerTypeOK
  <2>4. ASSUME rounds' = [rounds EXCEPT ![w][r].phase = "listed", ![w][r].page = ListLeases(table)]
        PROVE  rounds' \in [Worker -> [Round -> TakerRound]]
    <3> DEFINE new == [rounds[w][r] EXCEPT !.phase = "listed", !.page = ListLeases(table)]
    <3>1. rounds' = [rounds EXCEPT ![w][r] = new]
      BY <2>4 DEF TakerTypeOK
    <3> HIDE DEF new
    <3> QED BY <2>1, <2>3, <3>1 DEF new
  <2>5. ASSUME rounds' = [rounds EXCEPT ![w][r].phase = "scanfailed"]
        PROVE  rounds' \in [Worker -> [Round -> TakerRound]]
    <3> DEFINE new == [rounds[w][r] EXCEPT !.phase = "scanfailed"]
    <3>1. rounds' = [rounds EXCEPT ![w][r] = new]
      BY <2>5 DEF TakerTypeOK
    <3> HIDE DEF new
    <3> QED BY <2>2, <2>3, <3>1 DEF new
  <2>6. rounds' \in [Worker -> [Round -> TakerRound]]
    BY <1>2, <2>4, <2>5 DEF RoundScanned
  <2>7. seen' = seen
    BY <1>2 DEF RoundScanned
  <2> QED BY <1>0, <2>6, <2>7 DEF TakerTypeOK
<1>3. CASE RoundListed(w, r)
  <2> DEFINE map == UpdateAllLeases(seen[w], rounds[w][r].page, now)
             expired == GetExpiredLeases(map, now)
             takes(toTake) ==
               [k \in Key |-> IF map[k] \in toTake
                              THEN [st |-> "sent", lease |-> map[k],
                                    expired |-> map[k] \in expired]
                              ELSE NoTake]
             new(toTake) == IF toTake = {} THEN IdleRound
                            ELSE [phase |-> "taking", page |-> {}, takes |-> takes(toTake)]
  <2>1. map \in LeaseMap
    BY <1>r, UpdateAllLeasesType DEF TakerTypeOK, TakerRound, TableTypeOK
  <2>2. PICK toTake \in ComputeLeasesToTake(map, w, now) :
          rounds' = [rounds EXCEPT ![w][r] = new(toTake)]
    BY <1>3 DEF RoundListed, TakingRound
  <2>3. toTake \subseteq LeaseState => new(toTake) \in TakerRound
    <3> SUFFICES ASSUME toTake \subseteq LeaseState PROVE new(toTake) \in TakerRound
      OBVIOUS
    <3>1. ASSUME NEW k \in Key PROVE takes(toTake)[k] \in Take \cup {NoTake}
      BY DEF Take
    <3>2. takes(toTake) \in [Key -> Take \cup {NoTake}]
      BY <3>1
    <3> HIDE DEF takes
    <3>3. [phase |-> "taking", page |-> {}, takes |-> takes(toTake)] \in TakerRound
      BY <3>2 DEF TakerRound, RoundPhase
    <3> QED BY <3>3, IdleRoundType
  <2>4. toTake \subseteq LeaseState
    BY <2>1, <2>2, ComputeLeasesType DEF TableTypeOK
  <2>5. rounds' \in [Worker -> [Round -> TakerRound]]
    <3> HIDE DEF new
    <3> QED BY <2>2, <2>3, <2>4 DEF TakerTypeOK
  <2>6. seen' \in [Worker -> LeaseMap]
    BY <1>3, <2>1 DEF RoundListed, TakerTypeOK
  <2> QED BY <1>0, <2>5, <2>6 DEF TakerTypeOK
<1> QED BY <1>1, <1>2, <1>3

\* The steps of one take keep the table and the taker well typed.
LEMMA TakeActionType ==
  ASSUME TableTypeOK, TakerTypeOK, NEW w \in Worker, NEW r \in Round, NEW k \in Key,
         \/ TakeApplied(w, r, k)
         \/ TakeFailed(w, r, k)
         \/ TakeDone(w, r, k)
  PROVE  TableTypeOK' /\ TakerTypeOK'
<1>1. CASE TakeApplied(w, r, k)
  <2>1. rounds[w][r].takes[k].lease \in LeaseState
    BY <1>1, InTakeType DEF TakeApplied
  <2>2. rounds' \in [Worker -> [Round -> TakerRound]]
    BY <1>1, SetTakeType DEF TakeApplied
  <2>3. TableTypeOK'
    BY <1>1, <2>1, ApplyType DEF TakeApplied, TableTypeOK
  <2> QED BY <1>1, <2>2, <2>3 DEF TakeApplied, TakerTypeOK
<1>2. CASE TakeFailed(w, r, k)
  <2>1. rounds' \in [Worker -> [Round -> TakerRound]]
    BY <1>2, SetTakeType DEF TakeFailed
  <2>2. TakeRequest(w, r, k) \in Request
    BY <1>2, InTakeType DEF TakeFailed, TakeRequest, Request, Owner
  <2>3. orphans' \in SUBSET Request
    BY <1>2, <2>2 DEF TakeFailed, GiveUpOn, TableTypeOK
  <2> QED BY <1>2, <2>1, <2>3 DEF TakeFailed, TakerTypeOK, TableTypeOK
<1>3. CASE TakeDone(w, r, k)
  <2>1. CASE LastTake(w, r, k)
    <3>1. rounds' = [rounds EXCEPT ![w][r] = IdleRound]
      BY <1>3, <2>1 DEF TakeDone
    <3>2. rounds' \in [Worker -> [Round -> TakerRound]]
      BY <3>1, IdleRoundType DEF TakerTypeOK
    <3> QED BY <1>3, <3>2 DEF TakeDone, TakerTypeOK, TableTypeOK, tableVars
  <2>2. CASE ~LastTake(w, r, k)
    <3>1. rounds' \in [Worker -> [Round -> TakerRound]]
      <4>1. CASE InTake(w, r, k, "ok")
        BY <1>3, <2>2, <4>1, SetTakeType DEF TakeDone
      <4>2. CASE ~InTake(w, r, k, "ok")
        <5>1. InTake(w, r, k, "failed") /\ SetTake(w, r, k, "missed")
          BY <1>3, <2>2, <4>2 DEF TakeDone, TakeAnswered
        <5> QED BY <5>1, SetTakeType
      <4> QED BY <4>1, <4>2
    <3> QED BY <1>3, <3>1 DEF TakeDone, TakerTypeOK, TableTypeOK, tableVars
  <2> QED BY <2>1, <2>2
<1> QED BY <1>1, <1>2, <1>3

------------------------------------------------------------------------------
(* The coordinator.                                                        *)

ControlTypeOK ==
  /\ running \in [Worker -> BOOLEAN]
  /\ timers \in [Worker -> {"none", "armed", "deleted"}]
  /\ stopping \in [Worker -> BOOLEAN]
  /\ renewQueued \in [Worker -> BOOLEAN]

\* The death of a process resets it and leaves its requests behind.
LEMMA DiesType ==
  ASSUME TypeOK, NEW w \in Worker, Dies(w)
  PROVE  TypeOK'
<1>1. NoRenewals \in [Key -> [RenewSlot -> Renewal \cup {NoCall}]]
  BY DEF NoRenewals
<1>2. NotInitialized \in [phase : InitPhase, page : SUBSET LeaseState]
  BY DEF NotInitialized, InitPhase
<1>3. EmptyMap \in LeaseMap
  BY DEF EmptyMap, LeaseMap
<1>4. RenewerTypeOK'
  BY <1>1, <1>2, <1>3 DEF Dies, RenewerDies, TypeOK, RenewerTypeOK
<1>5. TakerTypeOK'
  BY <1>3, IdleRoundType DEF Dies, TakerDies, TypeOK, TakerTypeOK
<1>6. RenewRequests(w) \subseteq Request
  <2> SUFFICES ASSUME NEW k \in Key, NEW s \in RenewSlot, InCall(w, k, s, "sent")
               PROVE  [lease |-> renewals[w][k][s].lease, newOwner |-> NoOwner] \in Request
    BY DEF RenewRequests, RenewRequest
  <2>1. renewals[w][k][s].lease \in LeaseState
    BY InCallType DEF TypeOK
  <2> QED BY <2>1 DEF Request, Owner
<1>7. TakeRequests(w) \subseteq Request
  <2> SUFFICES ASSUME NEW r \in Round, NEW k \in Key, InTake(w, r, k, "sent")
               PROVE  [lease |-> rounds[w][r].takes[k].lease, newOwner |-> w] \in Request
    BY DEF TakeRequests, TakeRequest
  <2>1. rounds[w][r].takes[k].lease \in LeaseState
    BY InTakeType DEF TypeOK
  <2> QED BY <2>1 DEF Request, Owner
<1>8. TableTypeOK'
  BY <1>6, <1>7 DEF Dies, TypeOK, TableTypeOK
<1>9. ControlTypeOK'
  BY DEF Dies, TypeOK, ControlTypeOK
<1> QED BY <1>4, <1>5, <1>8, <1>9 DEF TypeOK, ControlTypeOK

\* The taken leases a round hands over are leases.
LEMMA TakenLeasesType ==
  ASSUME TakerTypeOK, NEW w \in Worker, NEW r \in Round, NEW k \in Key
  PROVE  TakenLeases(w, r, k) \in SUBSET LeaseState
BY InTakeType DEF TakenLeases, TakeResult

\* Every step keeps the state well typed.
LEMMA TypeStep == TypeOK /\ [Next]_vars => TypeOK'
<1> SUFFICES ASSUME TypeOK, [Next]_vars
             PROVE  TypeOK'
  OBVIOUS
<1>1. CASE TableNext /\ UNCHANGED <<renewerVars, takerVars, controlVars>>
  BY <1>1, TableNextType
     DEF renewerVars, takerVars, controlVars, RenewerTypeOK, TakerTypeOK, TypeOK
<1>2. ASSUME NEW w \in Worker, ControlStep(w)
      PROVE  TypeOK'
  <2>1. CASE Start(w)
    <3>1. init' \in [Worker -> [phase : InitPhase, page : SUBSET LeaseState]]
      BY <2>1 DEF Start, Initialize, TypeOK, RenewerTypeOK, InitPhase
    <3> QED BY <2>1, <3>1
            DEF Start, TypeOK, tableVars, takerVars, TableTypeOK, RenewerTypeOK, TakerTypeOK
  <2>2. CASE Stop(w)
    BY <2>2 DEF Stop, TypeOK, tableVars, renewerVars, takerVars, TableTypeOK, RenewerTypeOK,
                TakerTypeOK
  <2>3. CASE StopTimers(w)
    BY <2>3 DEF StopTimers, TypeOK, tableVars, renewerVars, takerVars, TableTypeOK,
                RenewerTypeOK, TakerTypeOK
  <2>4. CASE StopAborts(w) \/ Crash(w) \/ (\E k \in Key : SetCheckpoint(w, k))
    BY <2>4, DiesType DEF StopAborts, Crash, SetCheckpoint
  <2>5. CASE RunRenewer(w)
    BY <2>5 DEF RunRenewer, TypeOK, tableVars, renewerVars, takerVars, TableTypeOK,
                RenewerTypeOK, TakerTypeOK
  <2>6. CASE RunRenewLeases(w)
    BY <2>6, InitActionType DEF RunRenewLeases, TypeOK, takerVars, TakerTypeOK
  <2> QED BY <1>2, <2>1, <2>2, <2>3, <2>4, <2>5, <2>6 DEF ControlStep
<1>3. ASSUME NEW w \in Worker, InitStep(w)
      PROVE  TypeOK'
  <2>1. TableTypeOK' /\ RenewerTypeOK'
    BY <1>3, InitActionType DEF InitStep, TypeOK
  <2>2. TakerTypeOK'
    BY <1>3 DEF InitStep, TypeOK, takerVars, TakerTypeOK
  <2>3. ControlTypeOK'
    BY <1>3 DEF InitStep, StartCompletes, TypeOK, controlVars, ControlTypeOK
  <2> QED BY <2>1, <2>2, <2>3 DEF TypeOK, ControlTypeOK
<1>4. ASSUME NEW w \in Worker, NEW k \in Key, NEW s \in RenewSlot, RenewalStep(w, k, s)
      PROVE  TypeOK'
  <2>1. TableTypeOK' /\ RenewerTypeOK'
    BY <1>4, RenewalActionType DEF RenewalStep, TypeOK
  <2>2. TakerTypeOK'
    BY <1>4 DEF RenewalStep, TypeOK, takerVars, TakerTypeOK
  <2>3. ControlTypeOK'
    BY <1>4 DEF RenewalStep, StartCompletes, TypeOK, controlVars, ControlTypeOK
  <2> QED BY <2>1, <2>2, <2>3 DEF TypeOK, ControlTypeOK
<1>5. ASSUME NEW w \in Worker, NEW r \in Round, RoundStep(w, r)
      PROVE  TypeOK'
  <2>1. CASE RunTaker(w, r)
    BY <2>1, RoundActionType DEF RunTaker, TypeOK, renewerVars, controlVars, RenewerTypeOK
  <2>2. CASE TakerAborts(w, r)
    BY <2>2, DiesType DEF TakerAborts
  <2>3. CASE /\ RoundScanned(w, r) \/ RoundListed(w, r)
             /\ UNCHANGED <<renewerVars, controlVars>>
    BY <2>3, RoundActionType DEF TypeOK, renewerVars, controlVars, RenewerTypeOK
  <2> QED BY <1>5, <2>1, <2>2, <2>3 DEF RoundStep, RoundAnswered
<1>6. ASSUME NEW w \in Worker, NEW r \in Round, NEW k \in Key, TakeStep(w, r, k)
      PROVE  TypeOK'
  <2>1. TableTypeOK' /\ TakerTypeOK'
    BY <1>6, TakeActionType DEF TakeStep, TakerDone, TypeOK
  <2>2. CASE UNCHANGED <<renewerVars, controlVars>>
    BY <2>1, <2>2 DEF TypeOK, renewerVars, controlVars, RenewerTypeOK
  <2>3. CASE TakerDone(w, r, k)
    <3>1. AddLeasesToRenew(owned[w], TakenLeases(w, r, k)) \in LeaseMap
      BY TakenLeasesType, AddLeasesType DEF TypeOK, RenewerTypeOK
    <3>2. owned' \in [Worker -> LeaseMap]
      BY <2>3, <3>1 DEF TakerDone, TypeOK, RenewerTypeOK
    <3> QED BY <2>1, <2>3, <3>2 DEF TakerDone, TypeOK, controlVars, RenewerTypeOK
  <2> QED BY <1>6, <2>2, <2>3 DEF TakeStep
<1>7. CASE UNCHANGED vars
  BY <1>7 DEF vars, tableVars, renewerVars, takerVars, controlVars, TypeOK, TableTypeOK,
              RenewerTypeOK, TakerTypeOK
<1> QED BY <1>1, <1>2, <1>3, <1>4, <1>5, <1>6, <1>7 DEF Next

\* The initial state is well typed.
LEMMA TypeInit == Init => TypeOK
<1> SUFFICES ASSUME Init
             PROVE  TypeOK
  OBVIOUS
<1>1. TableTypeOK
  BY DEF Init, TableInit, TableTypeOK
<1>2. RenewerTypeOK
  BY DEF Init, RenewerInit, RenewerTypeOK, EmptyMap, LeaseMap, NoRenewals, NotInitialized, InitPhase
<1>3. TakerTypeOK
  BY IdleRoundType DEF Init, TakerInit, TakerTypeOK, EmptyMap, LeaseMap
<1> QED BY <1>1, <1>2, <1>3 DEF Init, TypeOK

\* In every reachable state of any number of coordinators every lease held,
\* remembered, listed or on the wire is a lease, and the table holds items.
THEOREM TypeCorrect == Spec => []TypeOK
<1>1. Init => TypeOK
  BY TypeInit
<1>2. TypeOK /\ [Next]_vars => TypeOK'
  BY TypeStep
<1> QED BY <1>1, <1>2, PTL DEF Spec

------------------------------------------------------------------------------
(* 2. At most one worker's copy of a lease is current.  The proof looks at  *)
(* a step from the side of what it changes: first where each new value of   *)
(* the table, of ownedLeases, of the renewals, of the taker's listings and  *)
(* of its takes comes from, then why each part of FencingInv survives.      *)

(* What a step does to the table.                                          *)

Created(k)   == table[k] = NoItem /\ table'[k] \in Item

Updated(k) ==
  /\ table[k] \in Item
  /\ table'[k] \in Item
  /\ table'[k].counter = table[k].counter + 1

TableGrows == \A k \in Key : table'[k] = table[k] \/ Created(k) \/ Updated(k)

\* An applied update moves the counter of one item by one.
LEMMA ApplyGrows ==
  ASSUME TypeOK, NEW l \in LeaseState, NEW w \in Worker,
         ApplyRenew(l) \/ ApplyTake(l, w)
  PROVE  TableGrows /\ Updated(l.key)
<1>1. l.key \in Key /\ table[l.key] \in Item /\ CASHolds(table[l.key], l)
  BY DEF ApplyRenew, ApplyTake, Applicable, CASHolds, TypeOK, TableTypeOK, LeaseState
<1>2. l.counter = table[l.key].counter /\ l.counter \in Nat
  BY <1>1 DEF CASHolds, LeaseState
<1> DEFINE item == table'[l.key]
<1>3. item = RenewValues(table[l.key], l) \/ item = TakeValues(table[l.key], l, w)
  BY <1>1 DEF ApplyRenew, ApplyTake, Write, TypeOK, TableTypeOK
<1>4. item \in Item
  BY <1>1, <1>3, ValuesType
<1>5. item.counter = l.counter + 1
  BY <1>1, <1>3 DEF RenewValues, TakeValues, Item
<1>6. \A k \in Key : k # l.key => table'[k] = table[k]
  BY <1>1 DEF ApplyRenew, ApplyTake, Write, TypeOK, TableTypeOK
<1> QED BY <1>1, <1>2, <1>4, <1>5, <1>6 DEF TableGrows, Updated

\* The same of a renewal, which needs no new owner.
LEMMA ApplyRenewGrows ==
  ASSUME TypeOK, NEW l \in LeaseState, ApplyRenew(l)
  PROVE  TableGrows /\ Updated(l.key)
<1>1. l.key \in Key /\ table[l.key] \in Item /\ CASHolds(table[l.key], l)
  BY DEF ApplyRenew, Applicable, CASHolds, TypeOK, TableTypeOK, LeaseState
<1>2. l.counter = table[l.key].counter /\ l.counter \in Nat /\ l.counter + 1 \in Nat
  BY <1>1 DEF CASHolds, LeaseState
<1>3. table'[l.key] = RenewValues(table[l.key], l)
  BY <1>1 DEF ApplyRenew, Write, TypeOK, TableTypeOK
<1>4. table'[l.key] \in Item /\ table'[l.key].counter = l.counter + 1
  BY <1>1, <1>2, <1>3 DEF RenewValues, Item
<1>5. \A k \in Key : k # l.key => table'[k] = table[k]
  BY <1>1 DEF ApplyRenew, Write, TypeOK, TableTypeOK
<1> QED BY <1>1, <1>2, <1>4, <1>5 DEF TableGrows, Updated

\* The steps that write the table are those of the table itself and the
\* application of a renewal or of a take.
LEMMA TableStep ==
  ASSUME TypeOK, [Next]_vars
  PROVE  TableGrows
<1>1. ASSUME table' = table PROVE TableGrows
  BY <1>1 DEF TableGrows
<1>2. CASE TableNext
  <2>1. CASE Tick \/ ClockSetBack
    BY <1>1, <2>1 DEF Tick, ClockSetBack
  <2>2. ASSUME NEW req \in orphans, OrphanApplied(req)
        PROVE  TableGrows
    <3>1. req.lease \in LeaseState /\ req.newOwner \in Owner
      BY DEF TypeOK, TableTypeOK, Request
    <3>2. CASE req.newOwner = NoOwner
      BY <2>2, <3>1, <3>2, ApplyRenewGrows DEF OrphanApplied
    <3>3. CASE req.newOwner # NoOwner
      <4>1. req.newOwner \in Worker
        BY <3>1, <3>3 DEF Owner
      <4> QED BY <2>2, <3>1, <3>3, <4>1, ApplyGrows DEF OrphanApplied
    <3> QED BY <3>2, <3>3
  <2>3. ASSUME NEW req \in orphans, OrphanLost(req)
        PROVE  TableGrows
    BY <1>1, <2>3 DEF OrphanLost
  <2>4. ASSUME NEW k \in Key, NEW owner \in Owner, NEW stamp \in {NoTime, now},
               CreateLeaseIfNotExists(k, owner, stamp)
        PROVE  TableGrows
    <3>1. ToDynamoDict(owner, NoCounter, stamp) \in Item
      BY DEF ToDynamoDict, Item, TypeOK, TableTypeOK
    <3> QED BY <2>4, <3>1 DEF CreateLeaseIfNotExists, Write, TableGrows, Created, TypeOK, TableTypeOK
  <2> QED BY <1>2, <2>1, <2>2, <2>3, <2>4 DEF TableNext
<1>3. ASSUME NEW w \in Worker, ControlStep(w)
      PROVE  TableGrows
  BY <1>1, <1>3 DEF ControlStep, Start, Stop, StopTimers, StopAborts, RunRenewer, RunRenewLeases,
                    RenewLeases, Crash, SetCheckpoint, Dies, tableVars
<1>4. ASSUME NEW w \in Worker, InitStep(w)
      PROVE  TableGrows
  BY <1>1, <1>4 DEF InitStep, InitScanned, InitScanFailed, InitListed, tableVars
<1>5. ASSUME NEW w \in Worker, NEW k \in Key, NEW s \in RenewSlot, RenewalStep(w, k, s)
      PROVE  TableGrows
  <2>1. CASE RenewApplied(w, k, s)
    BY <2>1, InCallType, ApplyRenewGrows DEF RenewApplied, TypeOK
  <2>2. CASE ~RenewApplied(w, k, s)
    BY <1>1, <1>5, <2>2 DEF RenewalStep, RenewLease, RenewFailed, RenewDone, tableVars
  <2> QED BY <2>1, <2>2
<1>6. ASSUME NEW w \in Worker, NEW r \in Round, RoundStep(w, r)
      PROVE  TableGrows
  BY <1>1, <1>6 DEF RoundStep, RoundAnswered, RunTaker, TakeLeases, TakerAborts, Dies, RoundScanned, RoundListed,
                    tableVars
<1>7. ASSUME NEW w \in Worker, NEW r \in Round, NEW k \in Key, TakeStep(w, r, k)
      PROVE  TableGrows
  <2>1. CASE TakeApplied(w, r, k)
    BY <2>1, InTakeType, ApplyGrows DEF TakeApplied, TypeOK
  <2>2. CASE ~TakeApplied(w, r, k)
    BY <1>1, <1>7, <2>2 DEF TakeStep, TakeFailed, TakerDone, TakeDone, tableVars
  <2> QED BY <2>1, <2>2
<1>8. CASE UNCHANGED vars
  BY <1>1, <1>8 DEF vars, tableVars
<1> QED BY <1>2, <1>3, <1>4, <1>5, <1>6, <1>7, <1>8 DEF Next

\* A copy that was reached stays so, and is overtaken if its item is written.
LEMMA ReachedStable ==
  ASSUME TypeOK, TableGrows, NEW l \in LeaseState, Reached(l)
  PROVE  /\ Reached(l)'
         /\ table'[l.key] # table[l.key] => Overtaken(l)'
<1>1. l.key \in Key /\ l.counter \in Nat /\ table[l.key] \in Item /\ table[l.key] # NoItem
  BY DEF Reached, LeaseState, TypeOK, TableTypeOK
<1>2. table[l.key].counter \in Nat
  BY <1>1 DEF Item
<1>3. CASE table'[l.key] = table[l.key]
  BY <1>1, <1>3 DEF Reached
<1>4. CASE Updated(l.key)
  <2>1. table'[l.key] # NoItem
    BY <1>4, SentinelAssumption DEF Updated
  <2> QED BY <1>1, <1>2, <1>4, <2>1 DEF Updated, Reached, Overtaken
<1> QED BY <1>1, <1>3, <1>4 DEF TableGrows, Created

\* A copy that was overtaken stays so.
LEMMA OvertakenStable ==
  ASSUME TypeOK, TableGrows, NEW l \in LeaseState, Overtaken(l)
  PROVE  Overtaken(l)'
<1>1. l.key \in Key /\ l.counter \in Nat /\ table[l.key] \in Item /\ table[l.key] # NoItem
  BY DEF Overtaken, LeaseState, TypeOK, TableTypeOK
<1>2. table[l.key].counter \in Nat
  BY <1>1 DEF Item
<1>3. CASE table'[l.key] = table[l.key]
  BY <1>1, <1>3 DEF Overtaken
<1>4. CASE Updated(l.key)
  <2>1. table'[l.key] # NoItem
    BY <1>4, SentinelAssumption DEF Updated
  <2> QED BY <1>1, <1>2, <1>4, <2>1 DEF Updated, Overtaken
<1> QED BY <1>1, <1>3, <1>4 DEF TableGrows, Created

\* The update of a lease that is applied replaces that lease.
Written(l) ==
  /\ l.key \in Key
  /\ table[l.key] \in Item
  /\ l.counter = table[l.key].counter
  /\ l.owner = table[l.key].owner
  /\ table'[l.key] # NoItem
  /\ table'[l.key].counter = l.counter + 1

\* An applied update was built from the version it replaces.
LEMMA ApplyWrites ==
  ASSUME TypeOK, NEW l \in LeaseState, NEW w \in Worker, ApplyRenew(l) \/ ApplyTake(l, w)
  PROVE  Written(l)
<1>1. l.key \in Key /\ CASHolds(table[l.key], l)
  BY DEF ApplyRenew, ApplyTake, Applicable, LeaseState
<1>2. Updated(l.key)
  BY ApplyGrows
<1> QED BY <1>1, <1>2, SentinelAssumption DEF Updated, CASHolds, Written

\* A renewal leaves the owner as it was.
LEMMA RenewalKeepsOwner ==
  ASSUME TypeOK, NEW l \in LeaseState, ApplyRenew(l)
  PROVE  table'[l.key].owner = l.owner
<1>1. l.key \in Key /\ CASHolds(table[l.key], l) /\ table[l.key] \in Item
  BY DEF ApplyRenew, Applicable, CASHolds, LeaseState, TypeOK, TableTypeOK
<1>2. table'[l.key] = RenewValues(table[l.key], l)
  BY <1>1 DEF ApplyRenew, Write, TypeOK, TableTypeOK
<1> QED BY <1>1, <1>2 DEF RenewValues, CASHolds, Item

------------------------------------------------------------------------------
(* Where a step's new values come from.                                    *)

\* An entry of ownedLeases: kept, dropped, renewed or taken.
OwnedFrom(v, k) ==
  \/ owned'[v][k] = owned[v][k]
  \/ owned'[v][k] = NoLease
  \/ /\ table' = table
     /\ \E j \in Key, s \in RenewSlot :
          /\ InCall(v, j, s, "ok")
          /\ renewals'[v][j][s] = NoCall
          /\ k = renewals[v][j][s].lease.key
          /\ owned'[v][k] = RenewResult(renewals[v][j][s].lease)
  \/ /\ table' = table
     /\ \E r \in Round, j \in Key :
          /\ InTake(v, r, j, "taken") \/ InTake(v, r, j, "ok")
          /\ k = rounds[v][r].takes[j].lease.key
          /\ owned'[v][k] = rounds[v][r].takes[j].lease

\* Handing over taken leases keeps an entry or files one of them.
LEMMA AddLeasesFrom ==
  ASSUME NEW map \in LeaseMap, NEW S \in SUBSET LeaseState, NEW k \in Key
  PROVE  \/ AddLeasesToRenew(map, S)[k] = map[k]
         \/ \E l \in S : l.key = k /\ AddLeasesToRenew(map, S)[k] = l
<1>1. CASE map[k] = NoLease /\ \E l \in S : l.key = k /\ l.inc # NoTime
  <2> DEFINE l == CHOOSE x \in S : x.key = k /\ x.inc # NoTime
  <2>1. l \in S /\ l.key = k
    BY <1>1
  <2>2. AddLeasesToRenew(map, S)[k] = l
    BY <1>1 DEF AddLeasesToRenew
  <2> QED BY <2>1, <2>2
<1>2. CASE ~(map[k] = NoLease /\ \E l \in S : l.key = k /\ l.inc # NoTime)
  BY <1>2 DEF AddLeasesToRenew
<1> QED BY <1>1, <1>2

\* Every entry of ownedLeases was there, or was renewed or taken.
LEMMA OwnedStep ==
  ASSUME TypeOK, [Next]_vars, NEW v \in Worker, NEW k \in Key
  PROVE  OwnedFrom(v, k)
<1>1. ASSUME owned' = owned PROVE OwnedFrom(v, k)
  BY <1>1 DEF OwnedFrom
<1>2. ASSUME NEW w \in Worker, Dies(w) PROVE OwnedFrom(v, k)
  BY <1>2 DEF Dies, RenewerDies, EmptyMap, OwnedFrom, TypeOK, RenewerTypeOK
<1>3. ASSUME NEW w \in Worker, NEW l \in LeaseState, DropLease(w, l)
      PROVE  OwnedFrom(v, k)
  BY <1>3 DEF DropLease, OwnedFrom, TypeOK, RenewerTypeOK, LeaseMap, LeaseState
<1>4. CASE TableNext /\ UNCHANGED <<renewerVars, takerVars, controlVars>>
  BY <1>1, <1>4 DEF renewerVars
<1>5. ASSUME NEW w \in Worker, ControlStep(w)
      PROVE  OwnedFrom(v, k)
  BY <1>1, <1>2, <1>5 DEF ControlStep, Start, Stop, StopTimers, StopAborts, RunRenewer,
                          RunRenewLeases, RenewLeases, Crash, SetCheckpoint, renewerVars
<1>6. ASSUME NEW w \in Worker, InitStep(w)
      PROVE  OwnedFrom(v, k)
  BY <1>1, <1>6 DEF InitStep, InitScanned, InitScanFailed, InitListed
<1>7. ASSUME NEW w \in Worker, NEW j \in Key, NEW s \in RenewSlot, RenewalStep(w, j, s)
      PROVE  OwnedFrom(v, k)
  <2> DEFINE l == renewals[w][j][s].lease
  <2>1. CASE RenewLease(w, j, s)
    <3>1. l \in LeaseState
      BY <2>1, InCallType DEF RenewLease, TypeOK
    <3> QED BY <2>1, <3>1, <1>1, <1>3 DEF RenewLease
  <2>2. CASE RenewApplied(w, j, s) \/ RenewFailed(w, j, s)
    BY <2>2, <1>1 DEF RenewApplied, RenewFailed
  <2>3. CASE RenewDone(w, j, s)
    <3>1. l \in LeaseState /\ l.key \in Key
      BY <2>3, InCallType DEF RenewDone, TypeOK
    <3>2. CASE DropLease(w, l)
      BY <3>1, <3>2, <1>3
    <3>3. CASE InCall(w, j, s, "ok") /\ ReplaceRenewedLease(w, RenewResult(l))
      <4>1. RenewResult(l) \in LeaseState /\ RenewResult(l).key = l.key
        BY <3>1, RenewResultType DEF RenewResult, IncrementedCounter, LeaseState
      <4>2. owned' = [owned EXCEPT ![w][l.key] = RenewResult(l)]
        BY <3>3, <4>1 DEF ReplaceRenewedLease
      <4>3. renewals'[w][j][s] = NoCall /\ table' = table
        BY <2>3 DEF RenewDone, EndRenewal, tableVars, TypeOK, RenewerTypeOK
      <4>4. CASE v = w /\ k = l.key
        <5>1. owned'[v][k] = RenewResult(l)
          BY <4>2, <4>4 DEF TypeOK, RenewerTypeOK, LeaseMap
        <5> QED BY <3>3, <4>3, <4>4, <5>1 DEF OwnedFrom
      <4>5. CASE ~(v = w /\ k = l.key)
        <5>1. owned'[v][k] = owned[v][k]
          BY <4>2, <4>5, <3>1 DEF TypeOK, RenewerTypeOK, LeaseMap
        <5> QED BY <5>1 DEF OwnedFrom
      <4> QED BY <4>4, <4>5
    <3> QED BY <2>3, <3>2, <3>3 DEF RenewDone
  <2> QED BY <1>7, <2>1, <2>2, <2>3 DEF RenewalStep
<1>8. ASSUME NEW w \in Worker, NEW r \in Round, RoundStep(w, r)
      PROVE  OwnedFrom(v, k)
  BY <1>1, <1>2, <1>8 DEF RoundStep, RoundAnswered, RunTaker, TakerAborts, renewerVars
<1>9. ASSUME NEW w \in Worker, NEW r \in Round, NEW j \in Key, TakeStep(w, r, j)
      PROVE  OwnedFrom(v, k)
  <2>1. CASE owned' = owned
    BY <2>1, <1>1
  <2>2. CASE TakerDone(w, r, j) /\ owned' # owned
    <3> DEFINE S == TakenLeases(w, r, j)
    <3>1. owned' = [owned EXCEPT ![w] = AddLeasesToRenew(owned[w], S)]
      BY <2>2 DEF TakerDone
    <3>2. S \in SUBSET LeaseState /\ owned[w] \in LeaseMap
      BY TakenLeasesType DEF TypeOK, RenewerTypeOK
    <3>3. CASE v # w \/ AddLeasesToRenew(owned[w], S)[k] = owned[w][k]
      BY <3>1, <3>3 DEF OwnedFrom, TypeOK, RenewerTypeOK
    <3>4. ASSUME v = w, NEW l \in S, l.key = k, AddLeasesToRenew(owned[w], S)[k] = l
          PROVE  OwnedFrom(v, k)
      <4>1. owned'[v][k] = l
        BY <3>1, <3>4 DEF TypeOK, RenewerTypeOK
      <4>2. PICK i \in Key : /\ InTake(w, r, i, "taken") \/ InTake(w, r, i, "ok")
                             /\ l = rounds[w][r].takes[i].lease
        BY DEF TakenLeases, TakeResult
      <4>3. table' = table
        BY <2>2 DEF TakerDone, TakeDone, tableVars
      <4> QED BY <3>4, <4>1, <4>2, <4>3 DEF OwnedFrom
    <3> QED BY <3>2, <3>3, <3>4, AddLeasesFrom
  <2> QED BY <1>9, <2>1, <2>2 DEF TakeStep, renewerVars
<1>10. CASE UNCHANGED vars
  BY <1>1, <1>10 DEF vars, renewerVars
<1> QED BY <1>4, <1>5, <1>6, <1>7, <1>8, <1>9, <1>10 DEF Next
\* A renewal in flight: kept, ended, queued for a held or listed lease, sent,
\* or answered.
RenewalFrom(v, k, s) ==
  \/ renewals'[v][k][s] = renewals[v][k][s]
  \/ renewals'[v][k][s] = NoCall
  \/ /\ renewals'[v][k][s].st = "queued"
     /\ renewals'[v][k][s].lease.key = k
     /\ renewals'[v][k][s].lease \in Leases(owned[v]) \cup init[v].page
  \/ /\ InCall(v, k, s, "queued") \/ InCall(v, k, s, "sent")
     /\ renewals'[v][k][s].st \in {"sent", "failed"}
     /\ renewals'[v][k][s].lease = renewals[v][k][s].lease
  \/ /\ InCall(v, k, s, "sent")
     /\ ApplyRenew(renewals[v][k][s].lease)
     /\ renewals'[v][k][s].st = "ok"
     /\ renewals'[v][k][s].lease = renewals[v][k][s].lease
     /\ \A u \in Worker, j \in Key, t \in RenewSlot :
          <<u, j, t>> # <<v, k, s>> => renewals'[u][j][t] = renewals[u][j][t]

\* Queueing renewals touches one free slot of each lease that is queued.
LEMMA QueueFrom ==
  ASSUME TypeOK, NEW w \in Worker, NEW S \in SUBSET LeaseState, NEW force \in BOOLEAN,
         QueueRenewals(w, S, force),
         S \subseteq Leases(owned[w]) \cup init[w].page,
         NEW v \in Worker, NEW k \in Key, NEW s \in RenewSlot
  PROVE  RenewalFrom(v, k, s)
<1> DEFINE slot == CHOOSE t \in FreeSlots(w, k) : TRUE
           lease == CHOOSE l \in S : l.key = k
           call == [st |-> "queued", lease |-> lease, force |-> force]
<1>1. CASE v = w /\ \E l \in S : l.key = k
  <2>1. renewals'[v][k] = [renewals[w][k] EXCEPT ![slot] = call]
    BY <1>1 DEF QueueRenewals, TypeOK, RenewerTypeOK
  <2>2. lease \in S /\ lease.key = k
    BY <1>1
  <2>3. renewals'[v][k][s] = IF s = slot THEN call ELSE renewals[w][k][s]
    BY <2>1 DEF TypeOK, RenewerTypeOK
  <2>4. CASE s = slot
    <3>1. renewals'[v][k][s].st = "queued" /\ renewals'[v][k][s].lease = lease
      BY <2>3, <2>4
    <3> QED BY <1>1, <2>2, <3>1 DEF RenewalFrom
  <2>5. CASE s # slot
    BY <1>1, <2>3, <2>5 DEF RenewalFrom
  <2> QED BY <2>4, <2>5
<1>2. CASE ~(v = w /\ \E l \in S : l.key = k)
  <2>1. renewals'[v][k] = renewals[v][k]
    BY <1>2 DEF QueueRenewals, TypeOK, RenewerTypeOK
  <2> QED BY <2>1 DEF RenewalFrom
<1> QED BY <1>1, <1>2

\* Moving one renewal on touches no other.
LEMMA SetRenewalFrom ==
  ASSUME TypeOK, NEW w \in Worker, NEW j \in Key, NEW t \in RenewSlot,
         NEW st \in {"sent", "ok", "failed"}, SetRenewal(w, j, t, st),
         InCall(w, j, t, "queued") \/ InCall(w, j, t, "sent")
  PROVE  /\ renewals'[w][j][t].st = st
         /\ renewals'[w][j][t].lease = renewals[w][j][t].lease
         /\ \A u \in Worker, i \in Key, x \in RenewSlot :
              <<u, i, x>> # <<w, j, t>> => renewals'[u][i][x] = renewals[u][i][x]
<1> DEFINE c == [renewals[w][j][t] EXCEPT !.st = st]
<1>1. renewals[w][j][t] \in Renewal
  BY InCallType DEF TypeOK
<1>2. renewals' = [renewals EXCEPT ![w][j][t] = c]
  BY DEF SetRenewal
<1>3. c.st = st /\ c.lease = renewals[w][j][t].lease
  BY <1>1 DEF Renewal
<1> HIDE DEF c
<1>4. renewals'[w][j][t] = c
  BY <1>2 DEF TypeOK, RenewerTypeOK
<1>5. \A u \in Worker, i \in Key, x \in RenewSlot :
        <<u, i, x>> # <<w, j, t>> => renewals'[u][i][x] = renewals[u][i][x]
  BY <1>2 DEF TypeOK, RenewerTypeOK
<1> QED BY <1>3, <1>4, <1>5

\* Every renewal was there or was queued for a held or listed lease.
LEMMA RenewalStepFrom ==
  ASSUME TypeOK, [Next]_vars, NEW v \in Worker, NEW k \in Key, NEW s \in RenewSlot
  PROVE  RenewalFrom(v, k, s)
<1>1. ASSUME renewals' = renewals PROVE RenewalFrom(v, k, s)
  BY <1>1 DEF RenewalFrom
<1>2. ASSUME NEW w \in Worker, Dies(w) PROVE RenewalFrom(v, k, s)
  BY <1>2 DEF Dies, RenewerDies, NoRenewals, RenewalFrom, TypeOK, RenewerTypeOK
<1>4. CASE TableNext /\ UNCHANGED <<renewerVars, takerVars, controlVars>>
  BY <1>1, <1>4 DEF renewerVars
<1>5. ASSUME NEW w \in Worker, ControlStep(w)
      PROVE  RenewalFrom(v, k, s)
  <2>1. CASE RunRenewLeases(w)
    <3>1. Leases(owned[w]) \in SUBSET LeaseState
      BY DEF Leases, LeaseMap, TypeOK, RenewerTypeOK
    <3>2. QueueRenewals(w, Leases(owned[w]), FALSE)
      BY <2>1 DEF RunRenewLeases, RenewLeases
    <3> QED BY <3>1, <3>2, QueueFrom
  <2>2. CASE ~RunRenewLeases(w)
    BY <1>1, <1>2, <1>5, <2>2 DEF ControlStep, Start, Stop, StopTimers, StopAborts, RunRenewer,
                                  Crash, SetCheckpoint, renewerVars
  <2> QED BY <2>1, <2>2
<1>6. ASSUME NEW w \in Worker, InitStep(w)
      PROVE  RenewalFrom(v, k, s)
  <2>1. CASE InitListed(w)
    <3>1. init[w].page \in SUBSET LeaseState
      BY DEF TypeOK, RenewerTypeOK
    <3>2. QueueRenewals(w, init[w].page, TRUE)
      BY <2>1 DEF InitListed
    <3> QED BY <3>1, <3>2, QueueFrom
  <2>2. CASE ~InitListed(w)
    BY <1>1, <1>6, <2>2 DEF InitStep, InitScanned, InitScanFailed
  <2> QED BY <2>1, <2>2
<1>7. ASSUME NEW w \in Worker, NEW j \in Key, NEW t \in RenewSlot, RenewalStep(w, j, t)
      PROVE  RenewalFrom(v, k, s)
  <2>1. ASSUME EndRenewal(w, j, t) PROVE RenewalFrom(v, k, s)
    BY <2>1 DEF EndRenewal, RenewalFrom, TypeOK, RenewerTypeOK
  <2>2. ASSUME NEW st \in {"sent", "failed"}, SetRenewal(w, j, t, st),
               InCall(w, j, t, "queued") \/ InCall(w, j, t, "sent")
        PROVE  RenewalFrom(v, k, s)
    <3>1. CASE <<v, k, s>> = <<w, j, t>>
      BY <2>2, <3>1, SetRenewalFrom DEF RenewalFrom
    <3>2. CASE <<v, k, s>> # <<w, j, t>>
      <4>1. renewals'[v][k][s] = renewals[v][k][s]
        BY <2>2, <3>2, SetRenewalFrom
      <4> QED BY <4>1 DEF RenewalFrom
    <3> QED BY <3>1, <3>2
  <2>3. ASSUME SetRenewal(w, j, t, "ok"), RenewApplied(w, j, t)
        PROVE  RenewalFrom(v, k, s)
    <3>0. InCall(w, j, t, "sent") /\ ApplyRenew(renewals[w][j][t].lease)
      BY <2>3 DEF RenewApplied
    <3>1. CASE <<v, k, s>> = <<w, j, t>>
      BY <2>3, <3>0, <3>1, SetRenewalFrom DEF RenewalFrom
    <3>2. CASE <<v, k, s>> # <<w, j, t>>
      <4>1. renewals'[v][k][s] = renewals[v][k][s]
        BY <2>3, <3>0, <3>2, SetRenewalFrom
      <4> QED BY <4>1 DEF RenewalFrom
    <3> QED BY <3>1, <3>2
  <2> QED BY <1>7, <2>1, <2>2, <2>3 DEF RenewalStep, RenewLease, RenewApplied, RenewFailed, RenewDone
<1>8. ASSUME NEW w \in Worker, NEW r \in Round, RoundStep(w, r)
      PROVE  RenewalFrom(v, k, s)
  BY <1>1, <1>2, <1>8 DEF RoundStep, RoundAnswered, RunTaker, TakerAborts, renewerVars
<1>9. ASSUME NEW w \in Worker, NEW r \in Round, NEW j \in Key, TakeStep(w, r, j)
      PROVE  RenewalFrom(v, k, s)
  BY <1>1, <1>9 DEF TakeStep, TakerDone, renewerVars
<1>10. CASE UNCHANGED vars
  BY <1>1, <1>10 DEF vars, renewerVars
<1> QED BY <1>4, <1>5, <1>6, <1>7, <1>8, <1>9, <1>10 DEF Next
\* A page: kept, dropped, or a listing of the table of now.
PageFrom(old, new) ==
  \/ new = old
  \/ new = {}
  \/ new = ListLeases(table) /\ table' = table

\* new is a listed lease with the stamp it gets now.
ListedFrom(map, page, k, new) ==
  \E l \in page : l.key = k /\ new = [l EXCEPT !.inc = StampOf(map[k], l, now)]

\* What the taker remembers: kept, forgotten, or a listed lease with a stamp.
SeenFrom(v, k) ==
  \/ seen'[v][k] = seen[v][k]
  \/ seen'[v][k] = NoLease
  \/ /\ tableVars' = tableVars
     /\ \E r \in Round : ListedFrom(seen[v], rounds[v][r].page, k, seen'[v][k])

\* A take of a round: kept, ended, chosen from the listing, answered or called
\* back.
TakeFrom(v, r, k) ==
  LET old == rounds[v][r].takes[k]
      new == rounds'[v][r].takes[k]
  IN  \/ new = old
      \/ new = NoTake /\ table' = table
      \/ /\ seen'[v][k] # NoLease
         /\ tableVars' = tableVars
         /\ new.st = "sent"
         /\ new.lease = seen'[v][k]
         /\ new.expired <=> IsExpired(seen'[v][k], now)
      \/ /\ old # NoTake
         /\ new.lease = old.lease
         /\ new.st \in {"failed", "missed"}
         /\ table' = table \/ ApplyTake(old.lease, v)
      \/ /\ new.lease = old.lease
         /\ InTake(v, r, k, "sent")
         /\ ApplyTake(old.lease, v)
         /\ new.st = "ok"
      \/ /\ new.lease = old.lease
         /\ InTake(v, r, k, "ok")
         /\ new.st = "taken"

\* Every lease the taker remembers was there or was just listed.
LEMMA UpdateFrom ==
  ASSUME NEW map \in LeaseMap, NEW page \in SUBSET LeaseState, NEW k \in Key,
         UpdateAllLeases(map, page, now)[k] # NoLease
  PROVE  ListedFrom(map, page, k, UpdateAllLeases(map, page, now)[k])
<1> DEFINE lease == CHOOSE l \in page : l.key = k
<1>1. \E l \in page : l.key = k
  BY DEF UpdateAllLeases
<1>2. lease \in page /\ lease.key = k
  BY <1>1
<1>3. UpdateAllLeases(map, page, now)[k] = [lease EXCEPT !.inc = StampOf(map[k], lease, now)]
  BY <1>1 DEF UpdateAllLeases
<1> QED BY <1>2, <1>3 DEF ListedFrom

\* Every page of initialize() was there or was just listed.
LEMMA InitPageStep ==
  ASSUME TypeOK, [Next]_vars, NEW v \in Worker
  PROVE  PageFrom(init[v].page, init'[v].page)
<1>1. ASSUME init' = init PROVE PageFrom(init[v].page, init'[v].page)
  BY <1>1 DEF PageFrom
<1>2. ASSUME NEW w \in Worker, Dies(w) PROVE PageFrom(init[v].page, init'[v].page)
  BY <1>2 DEF Dies, RenewerDies, NotInitialized, PageFrom, TypeOK, RenewerTypeOK
<1>4. CASE TableNext /\ UNCHANGED <<renewerVars, takerVars, controlVars>>
  BY <1>1, <1>4 DEF renewerVars
<1>5. ASSUME NEW w \in Worker, ControlStep(w)
      PROVE  PageFrom(init[v].page, init'[v].page)
  <2>1. CASE Start(w)
    BY <2>1 DEF Start, Initialize, PageFrom, TypeOK, RenewerTypeOK
  <2>2. CASE ~Start(w)
    BY <1>1, <1>2, <1>5, <2>2 DEF ControlStep, Stop, StopTimers, StopAborts, RunRenewer,
                                  RunRenewLeases, RenewLeases, Crash, SetCheckpoint, renewerVars
  <2> QED BY <2>1, <2>2
<1>6. ASSUME NEW w \in Worker, InitStep(w)
      PROVE  PageFrom(init[v].page, init'[v].page)
  <2>1. CASE InitScanned(w)
    <3>1. CASE init' = [init EXCEPT ![w] = [phase |-> "listed", page |-> ListLeases(table)]]
      <4>1. table' = table
        BY <2>1 DEF InitScanned, tableVars
      <4>2. init'[v].page = IF v = w THEN ListLeases(table) ELSE init[v].page
        BY <3>1 DEF TypeOK, RenewerTypeOK
      <4> QED BY <4>1, <4>2 DEF PageFrom
    <3>2. CASE init' = [init EXCEPT ![w].phase = "scanfailed"]
      BY <3>2 DEF PageFrom, TypeOK, RenewerTypeOK
    <3> QED BY <2>1, <3>1, <3>2 DEF InitScanned
  <2>2. CASE InitScanFailed(w)
    BY <2>2 DEF InitScanFailed, PageFrom, TypeOK, RenewerTypeOK
  <2>3. CASE InitListed(w)
    <3>1. PICK p : init' = [init EXCEPT ![w] = [phase |-> p, page |-> {}]]
      BY <2>3 DEF InitListed
    <3> QED BY <3>1 DEF PageFrom, TypeOK, RenewerTypeOK
  <2> QED BY <1>6, <2>1, <2>2, <2>3 DEF InitStep
<1>7. ASSUME NEW w \in Worker, NEW j \in Key, NEW t \in RenewSlot, RenewalStep(w, j, t)
      PROVE  PageFrom(init[v].page, init'[v].page)
  <2>1. CASE RenewDone(w, j, t)
    BY <2>1 DEF RenewDone, PageFrom, TypeOK, RenewerTypeOK
  <2>2. CASE ~RenewDone(w, j, t)
    BY <1>1, <1>7, <2>2 DEF RenewalStep, RenewLease, RenewApplied, RenewFailed
  <2> QED BY <2>1, <2>2
<1>8. ASSUME NEW w \in Worker, NEW r \in Round, RoundStep(w, r)
      PROVE  PageFrom(init[v].page, init'[v].page)
  BY <1>1, <1>2, <1>8 DEF RoundStep, RoundAnswered, RunTaker, TakerAborts, renewerVars
<1>9. ASSUME NEW w \in Worker, NEW r \in Round, NEW j \in Key, TakeStep(w, r, j)
      PROVE  PageFrom(init[v].page, init'[v].page)
  BY <1>1, <1>9 DEF TakeStep, TakerDone, renewerVars
<1>10. CASE UNCHANGED vars
  BY <1>1, <1>10 DEF vars, renewerVars
<1> QED BY <1>4, <1>5, <1>6, <1>7, <1>8, <1>9, <1>10 DEF Next

\* A round that ends holds nothing.
LEMMA IdleTakes ==
  /\ IdleRound.page = {}
  /\ \A k \in Key : IdleRound.takes[k] = NoTake
BY DEF IdleRound, NoTakes

\* Moving one take on touches no other.
LEMMA SetTakeFrom ==
  ASSUME TypeOK, NEW w \in Worker, NEW q \in Round, NEW j \in Key,
         NEW st, SetTake(w, q, j, st), NEW st0, InTake(w, q, j, st0)
  PROVE  /\ rounds'[w][q].takes[j].st = st
         /\ rounds'[w][q].takes[j].lease = rounds[w][q].takes[j].lease
         /\ \A v \in Worker, r \in Round : rounds'[v][r].page = rounds[v][r].page
         /\ \A v \in Worker, r \in Round, k \in Key :
              <<v, r, k>> # <<w, q, j>> => rounds'[v][r].takes[k] = rounds[v][r].takes[k]
<1> DEFINE old == rounds[w][q]
           t == [old.takes[j] EXCEPT !.st = st]
           ts == [old.takes EXCEPT ![j] = t]
           new == [old EXCEPT !.takes = ts]
<1>1. old \in TakerRound /\ old.takes \in [Key -> Take \cup {NoTake}] /\ old.takes[j] \in Take
  BY InTakeType DEF TypeOK, TakerTypeOK, TakerRound
<1>2. t.st = st /\ t.lease = old.takes[j].lease
  BY <1>1 DEF Take
<1>3. rounds' = [rounds EXCEPT ![w][q] = new]
  BY DEF SetTake
<1> HIDE DEF t
<1>4. ts[j] = t /\ \A k \in Key \ {j} : ts[k] = old.takes[k]
  BY <1>1
<1>5. new.takes = ts /\ new.page = old.page
  BY <1>1 DEF TakerRound
<1> HIDE DEF new
<1>6. rounds'[w][q] = new
  BY <1>3 DEF TypeOK, TakerTypeOK
<1>7. \A v \in Worker, r \in Round : <<v, r>> # <<w, q>> => rounds'[v][r] = rounds[v][r]
  BY <1>3 DEF TypeOK, TakerTypeOK
<1> HIDE DEF ts
<1>8. \A v \in Worker, r \in Round : rounds'[v][r].page = rounds[v][r].page
  BY <1>5, <1>6, <1>7
<1>9. \A v \in Worker, r \in Round, k \in Key :
        <<v, r, k>> # <<w, q, j>> => rounds'[v][r].takes[k] = rounds[v][r].takes[k]
  BY <1>4, <1>5, <1>6, <1>7
<1> QED BY <1>2, <1>4, <1>5, <1>6, <1>8, <1>9
\* Every page of a round was there or was just listed, whatever the takes do.
LEMMA RoundPageStep ==
  ASSUME TypeOK, [Next]_vars, NEW v \in Worker, NEW r \in Round
  PROVE  PageFrom(rounds[v][r].page, rounds'[v][r].page)
<1>1. ASSUME rounds' = rounds PROVE  PageFrom(rounds[v][r].page, rounds'[v][r].page)
  BY <1>1 DEF PageFrom
<1>2. ASSUME NEW w \in Worker, Dies(w) PROVE  PageFrom(rounds[v][r].page, rounds'[v][r].page)
  BY <1>2, IdleTakes DEF Dies, TakerDies, PageFrom, TypeOK, TakerTypeOK
<1>4. CASE TableNext /\ UNCHANGED <<renewerVars, takerVars, controlVars>>
  BY <1>1, <1>4 DEF takerVars
<1>5. ASSUME NEW w \in Worker, ControlStep(w) PROVE  PageFrom(rounds[v][r].page, rounds'[v][r].page)
  BY <1>1, <1>2, <1>5 DEF ControlStep, Start, Stop, StopTimers, StopAborts, RunRenewer,
                          RunRenewLeases, RenewLeases, Crash, SetCheckpoint, takerVars
<1>6. ASSUME NEW w \in Worker, InitStep(w) PROVE  PageFrom(rounds[v][r].page, rounds'[v][r].page)
  BY <1>1, <1>6 DEF InitStep, takerVars
<1>7. ASSUME NEW w \in Worker, NEW j \in Key, NEW t \in RenewSlot, RenewalStep(w, j, t) PROVE  PageFrom(rounds[v][r].page, rounds'[v][r].page)
  BY <1>1, <1>7 DEF RenewalStep, takerVars
<1>8. ASSUME NEW w \in Worker, NEW q \in Round, RoundStep(w, q) PROVE  PageFrom(rounds[v][r].page, rounds'[v][r].page)
  <2>0. rounds[w][q] \in TakerRound
    BY DEF TypeOK, TakerTypeOK
  <2>t. ASSUME NEW new, rounds' = [rounds EXCEPT ![w][q] = new],
               PageFrom(rounds[w][q].page, new.page)
        PROVE  PageFrom(rounds[v][r].page, rounds'[v][r].page)
    BY <2>t DEF PageFrom, TypeOK, TakerTypeOK
  <2>1. CASE RunTaker(w, q)
    <3> DEFINE new == [rounds[w][q] EXCEPT !.phase = "scanning"]
    <3>1. rounds' = [rounds EXCEPT ![w][q] = new]
      BY <2>1 DEF RunTaker, TakeLeases
    <3>2. new.page = rounds[w][q].page
      BY <2>0 DEF TakerRound
    <3> HIDE DEF new
    <3> QED BY <2>t, <3>1, <3>2 DEF PageFrom
  <2>2. CASE TakerAborts(w, q)
    BY <1>2, <2>2 DEF TakerAborts
  <2>3. CASE RoundScanned(w, q)
    <3>1. CASE rounds' = [rounds EXCEPT ![w][q].phase = "scanfailed"]
      <4> DEFINE new == [rounds[w][q] EXCEPT !.phase = "scanfailed"]
      <4>1. rounds' = [rounds EXCEPT ![w][q] = new]
        BY <3>1
      <4>2. new.page = rounds[w][q].page
        BY <2>0 DEF TakerRound
      <4> HIDE DEF new
      <4> QED BY <2>t, <4>1, <4>2 DEF PageFrom
    <3>2. CASE rounds' = [rounds EXCEPT ![w][q].phase = "listed",
                                        ![w][q].page = ListLeases(table)]
      <4> DEFINE new == [rounds[w][q] EXCEPT !.phase = "listed", !.page = ListLeases(table)]
      <4>1. rounds' = [rounds EXCEPT ![w][q] = new]
        BY <3>2 DEF TypeOK, TakerTypeOK
      <4>2. new.page = ListLeases(table)
        BY <2>0 DEF TakerRound
      <4>3. table' = table
        BY <2>3 DEF RoundScanned, tableVars
      <4> HIDE DEF new
      <4> QED BY <2>t, <4>1, <4>2, <4>3 DEF PageFrom
    <3> QED BY <2>3, <3>1, <3>2 DEF RoundScanned
  <2>4. CASE RoundListed(w, q)
    <3>1. PICK map, toTake, expired :
                 rounds' = [rounds EXCEPT ![w][q] = TakingRound(map, toTake, expired)]
      BY <2>4 DEF RoundListed
    <3>2. TakingRound(map, toTake, expired).page = {}
      BY IdleTakes DEF TakingRound
    <3> QED BY <2>t, <3>1, <3>2 DEF PageFrom
  <2> QED BY <1>8, <2>1, <2>2, <2>3, <2>4 DEF RoundStep, RoundAnswered
<1>9. ASSUME NEW w \in Worker, NEW q \in Round, NEW j \in Key, TakeStep(w, q, j) PROVE  PageFrom(rounds[v][r].page, rounds'[v][r].page)
  <2>1. ASSUME NEW st, SetTake(w, q, j, st), NEW st0, InTake(w, q, j, st0) PROVE  PageFrom(rounds[v][r].page, rounds'[v][r].page)
    BY <2>1, SetTakeFrom DEF PageFrom
  <2>2. CASE rounds' = [rounds EXCEPT ![w][q] = IdleRound]
    BY <2>2, IdleTakes DEF PageFrom, TypeOK, TakerTypeOK
  <2> QED BY <1>9, <2>1, <2>2 DEF TakeStep, TakeApplied, TakeFailed, TakerDone, TakeDone, TakeAnswered
<1>10. CASE UNCHANGED vars
  BY <1>1, <1>10 DEF vars, takerVars
<1> QED BY <1>4, <1>5, <1>6, <1>7, <1>8, <1>9, <1>10 DEF Next

\* Every lease the taker remembers was there or was just listed.
LEMMA SeenStep ==
  ASSUME TypeOK, [Next]_vars, NEW v \in Worker, NEW k \in Key
  PROVE  SeenFrom(v, k)
<1>1. ASSUME seen' = seen PROVE SeenFrom(v, k)
  BY <1>1 DEF SeenFrom
<1>2. ASSUME NEW w \in Worker, Dies(w) PROVE SeenFrom(v, k)
  BY <1>2 DEF Dies, TakerDies, EmptyMap, SeenFrom, TypeOK, TakerTypeOK
<1>4. CASE TableNext /\ UNCHANGED <<renewerVars, takerVars, controlVars>>
  BY <1>1, <1>4 DEF takerVars
<1>5. ASSUME NEW w \in Worker, ControlStep(w) PROVE SeenFrom(v, k)
  BY <1>1, <1>2, <1>5 DEF ControlStep, Start, Stop, StopTimers, StopAborts, RunRenewer,
                          RunRenewLeases, RenewLeases, Crash, SetCheckpoint, takerVars
<1>6. ASSUME NEW w \in Worker, InitStep(w) PROVE SeenFrom(v, k)
  BY <1>1, <1>6 DEF InitStep, takerVars
<1>7. ASSUME NEW w \in Worker, NEW j \in Key, NEW t \in RenewSlot, RenewalStep(w, j, t)
      PROVE  SeenFrom(v, k)
  BY <1>1, <1>7 DEF RenewalStep, takerVars
<1>8. ASSUME NEW w \in Worker, NEW q \in Round, RoundStep(w, q) PROVE SeenFrom(v, k)
  <2>1. CASE RoundListed(w, q)
    <3> DEFINE page == rounds[w][q].page
               map == UpdateAllLeases(seen[w], page, now)
    <3>1. seen' = [seen EXCEPT ![w] = map] /\ tableVars' = tableVars
      BY <2>1 DEF RoundListed
    <3>2. page \in SUBSET LeaseState /\ seen[w] \in LeaseMap /\ now \in Nat
      BY DEF TypeOK, TableTypeOK, TakerTypeOK, TakerRound
    <3>3. CASE v # w \/ map[k] = NoLease
      BY <3>1, <3>3 DEF SeenFrom, TypeOK, TakerTypeOK
    <3>4. CASE v = w /\ map[k] # NoLease
      <4>1. seen'[v][k] = map[k]
        BY <3>1, <3>4 DEF TypeOK, TakerTypeOK
      <4>2. ListedFrom(seen[w], page, k, map[k])
        BY <3>2, <3>4, UpdateFrom
      <4> QED BY <3>1, <3>4, <4>1, <4>2 DEF SeenFrom
    <3> QED BY <3>3, <3>4
  <2>2. CASE ~RoundListed(w, q)
    BY <1>1, <1>2, <1>8, <2>2 DEF RoundStep, RoundAnswered, RunTaker, TakeLeases, TakerAborts, RoundScanned
  <2> QED BY <2>1, <2>2
<1>9. ASSUME NEW w \in Worker, NEW q \in Round, NEW j \in Key, TakeStep(w, q, j)
      PROVE  SeenFrom(v, k)
  BY <1>1, <1>9 DEF TakeStep, TakeApplied, TakeFailed, TakerDone, TakeDone
<1>10. CASE UNCHANGED vars
  BY <1>1, <1>10 DEF vars, takerVars
<1> QED BY <1>4, <1>5, <1>6, <1>7, <1>8, <1>9, <1>10 DEF Next
\* Every take was there, was chosen from a listing, or was answered.
LEMMA TakeStepFrom ==
  ASSUME TypeOK, [Next]_vars, NEW v \in Worker, NEW r \in Round, NEW k \in Key
  PROVE  TakeFrom(v, r, k)
<1>1. ASSUME rounds'[v][r].takes[k] = rounds[v][r].takes[k] PROVE TakeFrom(v, r, k)
  BY <1>1 DEF TakeFrom
<1>2. ASSUME rounds'[v][r] = IdleRound, table' = table PROVE TakeFrom(v, r, k)
  BY <1>2, IdleTakes DEF TakeFrom
<1>3. ASSUME NEW w \in Worker, Dies(w) PROVE TakeFrom(v, r, k)
  <2>1. (rounds'[v][r] = rounds[v][r] \/ rounds'[v][r] = IdleRound) /\ table' = table
    BY <1>3 DEF Dies, TakerDies, TypeOK, TakerTypeOK
  <2> QED BY <2>1, <1>1, <1>2
<1>4. CASE TableNext /\ UNCHANGED <<renewerVars, takerVars, controlVars>>
  BY <1>1, <1>4 DEF takerVars
<1>5. ASSUME NEW w \in Worker, ControlStep(w) PROVE TakeFrom(v, r, k)
  BY <1>1, <1>3, <1>5 DEF ControlStep, Start, Stop, StopTimers, StopAborts, RunRenewer,
                          RunRenewLeases, RenewLeases, Crash, SetCheckpoint, takerVars
<1>6. ASSUME NEW w \in Worker, InitStep(w) PROVE TakeFrom(v, r, k)
  BY <1>1, <1>6 DEF InitStep, takerVars
<1>7. ASSUME NEW w \in Worker, NEW j \in Key, NEW t \in RenewSlot, RenewalStep(w, j, t)
      PROVE  TakeFrom(v, r, k)
  BY <1>1, <1>7 DEF RenewalStep, takerVars
<1>8. ASSUME NEW w \in Worker, NEW q \in Round, RoundStep(w, q) PROVE TakeFrom(v, r, k)
  <2>0. rounds[w][q] \in TakerRound
    BY DEF TypeOK, TakerTypeOK
  <2>t. ASSUME NEW new, rounds' = [rounds EXCEPT ![w][q] = new], new.takes = rounds[w][q].takes
        PROVE  TakeFrom(v, r, k)
    <3>1. rounds'[v][r].takes = rounds[v][r].takes
      BY <2>t DEF TypeOK, TakerTypeOK
    <3> QED BY <3>1, <1>1
  <2>1. CASE RunTaker(w, q)
    <3> DEFINE new == [rounds[w][q] EXCEPT !.phase = "scanning"]
    <3>1. rounds' = [rounds EXCEPT ![w][q] = new]
      BY <2>1 DEF RunTaker, TakeLeases
    <3>2. new.takes = rounds[w][q].takes
      BY <2>0 DEF TakerRound
    <3> HIDE DEF new
    <3> QED BY <2>t, <3>1, <3>2
  <2>2. CASE TakerAborts(w, q)
    BY <1>3, <2>2 DEF TakerAborts
  <2>3. CASE RoundScanned(w, q)
    <3>1. CASE rounds' = [rounds EXCEPT ![w][q].phase = "scanfailed"]
      <4> DEFINE new == [rounds[w][q] EXCEPT !.phase = "scanfailed"]
      <4>1. rounds' = [rounds EXCEPT ![w][q] = new]
        BY <3>1
      <4>2. new.takes = rounds[w][q].takes
        BY <2>0 DEF TakerRound
      <4> HIDE DEF new
      <4> QED BY <2>t, <4>1, <4>2
    <3>2. CASE rounds' = [rounds EXCEPT ![w][q].phase = "listed",
                                        ![w][q].page = ListLeases(table)]
      <4> DEFINE new == [rounds[w][q] EXCEPT !.phase = "listed", !.page = ListLeases(table)]
      <4>1. rounds' = [rounds EXCEPT ![w][q] = new]
        BY <3>2 DEF TypeOK, TakerTypeOK
      <4>2. new.takes = rounds[w][q].takes
        BY <2>0 DEF TakerRound
      <4> HIDE DEF new
      <4> QED BY <2>t, <4>1, <4>2
    <3> QED BY <2>3, <3>1, <3>2 DEF RoundScanned
  <2>4. CASE RoundListed(w, q)
    <3> DEFINE map == UpdateAllLeases(seen[w], rounds[w][q].page, now)
               expired == GetExpiredLeases(map, now)
    <3>1. seen' = [seen EXCEPT ![w] = map] /\ tableVars' = tableVars
      BY <2>4 DEF RoundListed
    <3>2. map \in LeaseMap
      BY <2>0, UpdateAllLeasesType DEF TypeOK, TakerTypeOK, TakerRound, TableTypeOK
    <3>3. PICK toTake \in ComputeLeasesToTake(map, w, now) :
                 rounds' = [rounds EXCEPT ![w][q] = TakingRound(map, toTake, expired)]
      BY <2>4 DEF RoundListed
    <3>4. toTake \subseteq LeaseState
      BY <3>2, <3>3, ComputeLeasesType DEF TypeOK, TableTypeOK
    <3> HIDE DEF map
    <3>5. CASE <<v, r>> # <<w, q>>
      <4>1. rounds'[v][r] = rounds[v][r]
        BY <3>3, <3>5 DEF TypeOK, TakerTypeOK
      <4> QED BY <4>1, <1>1
    <3>6. CASE <<v, r>> = <<w, q>>
      <4>1. rounds'[v][r] = TakingRound(map, toTake, expired)
        BY <3>3, <3>6 DEF TypeOK, TakerTypeOK
      <4>2. CASE toTake = {}
        BY <1>2, <3>1, <4>1, <4>2 DEF TakingRound, tableVars
      <4>3. CASE toTake # {} /\ map[k] \notin toTake
        <5>1. rounds'[v][r].takes[k] = NoTake
          BY <4>1, <4>3 DEF TakingRound
        <5> QED BY <3>1, <5>1 DEF TakeFrom, tableVars
      <4>4. CASE toTake # {} /\ map[k] \in toTake
        <5> DEFINE ex == map[k] \in expired
        <5>1. rounds'[v][r].takes[k] = [st |-> "sent", lease |-> map[k], expired |-> ex]
          BY <4>1, <4>4 DEF TakingRound
        <5>2. seen'[v][k] = map[k]
          BY <3>1, <3>6 DEF TypeOK, TakerTypeOK
        <5>3. map[k] # NoLease
          BY <3>4, <4>4, SentinelAssumption
        <5>4. map[k] \in expired <=> IsExpired(map[k], now)
          <6>1. map[k] \in Leases(map)
            BY <5>3 DEF Leases
          <6> QED BY <6>1 DEF GetExpiredLeases
        <5>5. rounds'[v][r].takes[k].expired = ex
          <6> HIDE DEF ex
          <6> QED BY <5>1
        <5>6. rounds'[v][r].takes[k].st = "sent" /\ rounds'[v][r].takes[k].lease = map[k]
          BY <5>1
        <5> QED BY <3>1, <5>2, <5>3, <5>4, <5>5, <5>6 DEF TakeFrom
      <4> QED BY <4>2, <4>3, <4>4
    <3> QED BY <3>5, <3>6
  <2> QED BY <1>8, <2>1, <2>2, <2>3, <2>4 DEF RoundStep, RoundAnswered
<1>9. ASSUME NEW w \in Worker, NEW q \in Round, NEW j \in Key, TakeStep(w, q, j)
      PROVE  TakeFrom(v, r, k)
  <2>1. ASSUME <<v, r, k>> # <<w, q, j>>,
               NEW st, SetTake(w, q, j, st), NEW st0, InTake(w, q, j, st0)
        PROVE  TakeFrom(v, r, k)
    <3>1. rounds'[v][r].takes[k] = rounds[v][r].takes[k]
      BY <2>1, SetTakeFrom
    <3> QED BY <3>1, <1>1
  <2>2. CASE rounds' = [rounds EXCEPT ![w][q] = IdleRound] /\ table' = table
    <3>1. rounds'[v][r] = rounds[v][r] \/ rounds'[v][r] = IdleRound
      BY <2>2 DEF TypeOK, TakerTypeOK
    <3> QED BY <2>2, <3>1, <1>1, <1>2
  <2>3. CASE <<v, r, k>> = <<w, q, j>> /\ TakeApplied(w, q, j)
    <3>1. PICK st \in {"ok", "failed"} : SetTake(w, q, j, st)
      BY <2>3 DEF TakeApplied
    <3> QED BY <2>3, <3>1, SetTakeFrom DEF TakeApplied, InTake, TakeFrom
  <2>4. CASE <<v, r, k>> = <<w, q, j>> /\ TakeFailed(w, q, j)
    BY <2>4, SetTakeFrom DEF TakeFailed, InTake, TakeFrom, tableVars
  <2>5. CASE <<v, r, k>> = <<w, q, j>> /\ TakeDone(w, q, j) /\ ~LastTake(w, q, j)
    <3>1. CASE InTake(w, q, j, "ok")
      BY <2>5, <3>1, SetTakeFrom DEF TakeDone, TakeFrom
    <3>2. CASE ~InTake(w, q, j, "ok")
      <4>1. InTake(w, q, j, "failed") /\ SetTake(w, q, j, "missed") /\ table' = table
        BY <2>5, <3>2 DEF TakeDone, TakeAnswered, tableVars
      <4>2. rounds'[w][q].takes[j].st = "missed"
        BY <4>1, SetTakeFrom
      <4>3. rounds'[w][q].takes[j].lease = rounds[w][q].takes[j].lease
        BY <4>1, SetTakeFrom
      <4> QED BY <2>5, <4>1, <4>2, <4>3 DEF InTake, TakeFrom
    <3> QED BY <3>1, <3>2
  <2> QED BY <1>9, <2>1, <2>2, <2>3, <2>4, <2>5
          DEF TakeStep, TakeApplied, TakeFailed, TakerDone, TakeDone, TakeAnswered, tableVars
<1>10. CASE UNCHANGED vars
  BY <1>1, <1>10 DEF vars, takerVars
<1> QED BY <1>4, <1>5, <1>6, <1>7, <1>8, <1>9, <1>10 DEF Next
------------------------------------------------------------------------------
(* Every part of FencingInv survives every step.                           *)

\* The leases of a listing are leases the table has reached.
LEMMA ListedReached ==
  ASSUME TypeOK, NEW l \in ListLeases(table)
  PROVE  l \in LeaseState /\ Reached(l)
<1>1. PICK k \in ScannedKeys(table) : l = FromDynamoDict(k, table[k])
  BY DEF ListLeases
<1>2. k \in Key /\ table[k] \in Item /\ table[k] # NoItem
  BY DEF ScannedKeys, TypeOK, TableTypeOK
<1>3. l \in LeaseState /\ l.key = k /\ l.counter = table[k].counter
  BY <1>1, <1>2, FromDynamoDictType DEF FromDynamoDict
<1>4. table[k].counter \in Nat
  BY <1>2 DEF Item
<1> QED BY <1>2, <1>3, <1>4 DEF Reached

\* What is in memory is a lease.
LEMMA CopyTypes ==
  ASSUME TypeOK
  PROVE  /\ \A w \in Worker, k \in Key : owned[w][k] # NoLease => owned[w][k] \in LeaseState
         /\ \A w \in Worker, k \in Key : seen[w][k] # NoLease => seen[w][k] \in LeaseState
         /\ \A w \in Worker : init[w].page \subseteq LeaseState
         /\ \A w \in Worker, r \in Round : rounds[w][r].page \subseteq LeaseState
         /\ \A w \in Worker, k \in Key, s \in RenewSlot :
              renewals[w][k][s] # NoCall =>
                renewals[w][k][s] \in Renewal /\ renewals[w][k][s].lease \in LeaseState
         /\ \A w \in Worker, r \in Round, k \in Key :
              rounds[w][r].takes[k] # NoTake =>
                rounds[w][r].takes[k] \in Take /\ rounds[w][r].takes[k].lease \in LeaseState
<1>1. \A w \in Worker, r \in Round : rounds[w][r] \in TakerRound
  BY DEF TypeOK, TakerTypeOK
<1>2. \A w \in Worker, k \in Key, s \in RenewSlot :
        renewals[w][k][s] # NoCall => renewals[w][k][s] \in Renewal
  BY DEF TypeOK, RenewerTypeOK
<1>3. \A w \in Worker, k \in Key : owned[w][k] # NoLease => owned[w][k] \in LeaseState
  BY DEF TypeOK, RenewerTypeOK, LeaseMap
<1>4. \A w \in Worker, k \in Key : seen[w][k] # NoLease => seen[w][k] \in LeaseState
  BY DEF TypeOK, TakerTypeOK, LeaseMap
<1>5. \A w \in Worker : init[w].page \subseteq LeaseState
  BY DEF TypeOK, RenewerTypeOK
<1>6. \A w \in Worker, r \in Round, k \in Key :
        rounds[w][r].takes[k] # NoTake => rounds[w][r].takes[k] \in Take
  BY <1>1 DEF TakerRound
<1> QED BY <1>1, <1>2, <1>3, <1>4, <1>5, <1>6 DEF TakerRound, Renewal, Take

\* Renewing a copy leaves its key and owner and moves its counter by one.
LEMMA RenewResultIs ==
  ASSUME NEW l \in LeaseState
  PROVE  /\ RenewResult(l).key = l.key
         /\ RenewResult(l).owner = l.owner
         /\ RenewResult(l).counter = l.counter + 1
BY DEF RenewResult, IncrementedCounter, LeaseState

\* A copy that the table has left behind is not current.
LEMMA OvertakenIsReached ==
  ASSUME TypeOK, NEW l \in LeaseState, Overtaken(l)
  PROVE  Reached(l) /\ ~Current(l)
<1>1. l.key \in Key /\ l.counter \in Nat
  BY DEF LeaseState
<1>2. table[l.key] \in Item
  BY <1>1 DEF Overtaken, TypeOK, TableTypeOK
<1>3. table[l.key].counter \in Nat
  BY <1>2 DEF Item
<1> QED BY <1>1, <1>3 DEF Overtaken, Reached, Current

\* No step files a copy under another lease's key.
LEMMA KeyedStep ==
  ASSUME TypeOK, CopiesKeyed, [Next]_vars
  PROVE  CopiesKeyed'
<1>1. ASSUME NEW v \in Worker, NEW k \in Key, owned'[v][k] # NoLease
      PROVE  owned'[v][k].key = k
  <2>1. OwnedFrom(v, k)
    BY OwnedStep
  <2>2. ASSUME NEW j \in Key, NEW s \in RenewSlot, InCall(v, j, s, "ok"),
               k = renewals[v][j][s].lease.key,
               owned'[v][k] = RenewResult(renewals[v][j][s].lease)
        PROVE  owned'[v][k].key = k
    BY <2>2, CopyTypes, RenewResultIs DEF InCall
  <2> QED BY <1>1, <2>1, <2>2 DEF OwnedFrom, CopiesKeyed
<1>2. ASSUME NEW v \in Worker, NEW k \in Key, seen'[v][k] # NoLease
      PROVE  seen'[v][k].key = k
  <2>1. SeenFrom(v, k)
    BY SeenStep
  <2>2. ASSUME NEW r \in Round, ListedFrom(seen[v], rounds[v][r].page, k, seen'[v][k])
        PROVE  seen'[v][k].key = k
    <3>1. rounds[v][r].page \subseteq LeaseState
      BY CopyTypes
    <3> QED BY <2>2, <3>1 DEF ListedFrom, LeaseState
  <2> QED BY <1>2, <2>1, <2>2 DEF SeenFrom, CopiesKeyed
<1>3. ASSUME NEW v \in Worker, NEW k \in Key, NEW s \in RenewSlot, renewals'[v][k][s] # NoCall
      PROVE  renewals'[v][k][s].lease.key = k
  <2>1. RenewalFrom(v, k, s)
    BY RenewalStepFrom
  <2> QED BY <1>3, <2>1 DEF RenewalFrom, CopiesKeyed, InCall
<1>4. ASSUME NEW v \in Worker, NEW r \in Round, NEW k \in Key, rounds'[v][r].takes[k] # NoTake
      PROVE  rounds'[v][r].takes[k].lease.key = k
  <2>1. TakeFrom(v, r, k)
    BY TakeStepFrom
  <2>2. CASE seen'[v][k] # NoLease /\ rounds'[v][r].takes[k].lease = seen'[v][k]
    BY <1>2, <2>2
  <2>3. CASE /\ rounds[v][r].takes[k] # NoTake
             /\ rounds'[v][r].takes[k].lease = rounds[v][r].takes[k].lease
    BY <2>3 DEF CopiesKeyed
  <2> QED BY <1>4, <2>1, <2>2, <2>3 DEF TakeFrom, InTake
<1> QED BY <1>1, <1>2, <1>3, <1>4 DEF CopiesKeyed

\* The counters only grow, so what was reached stays reached.
LEMMA ReachedStep ==
  ASSUME TypeOK, CopiesKeyed, OwnedReached, RenewalsReached, PagesReached, SeenReached,
         TakesReached, [Next]_vars
  PROVE  OwnedReached' /\ RenewalsReached' /\ PagesReached' /\ SeenReached' /\ TakesReached'
<1>0. TableGrows
  BY TableStep
<1>r. ASSUME NEW l \in LeaseState, Reached(l) PROVE Reached(l)'
  BY <1>0, <1>r, ReachedStable
<1>p. ASSUME NEW old \in SUBSET LeaseState, NEW new, \A l \in old : Reached(l), PageFrom(old, new)
      PROVE  \A l \in new : Reached(l)'
  BY <1>p, <1>r, ListedReached DEF PageFrom
<1>1. ASSUME NEW v \in Worker, NEW k \in Key, owned'[v][k] # NoLease
      PROVE  Reached(owned[v][k])'
  <2>1. OwnedFrom(v, k)
    BY OwnedStep
  <2>2. ASSUME NEW l \in LeaseState, Reached(l), owned'[v][k] = l
        PROVE  Reached(owned[v][k])'
    <3>1. Reached(l)'
      BY <1>r, <2>2
    <3> QED BY <2>2, <3>1 DEF Reached
  <2>3. CASE owned'[v][k] = owned[v][k]
    BY <1>1, <2>2, <2>3, CopyTypes DEF OwnedReached
  <2>4. ASSUME NEW j \in Key, NEW s \in RenewSlot, InCall(v, j, s, "ok"),
               owned'[v][k] = RenewResult(renewals[v][j][s].lease)
        PROVE  Reached(owned[v][k])'
    <3>1. RenewResult(renewals[v][j][s].lease) \in LeaseState
      BY <2>4, CopyTypes, RenewResultType DEF InCall
    <3> QED BY <2>2, <2>4, <3>1 DEF RenewalsReached
  <2>5. ASSUME NEW r \in Round, NEW j \in Key,
               InTake(v, r, j, "taken") \/ InTake(v, r, j, "ok"),
               owned'[v][k] = rounds[v][r].takes[j].lease
        PROVE  Reached(owned[v][k])'
    <3>1. rounds[v][r].takes[j].lease \in LeaseState
      BY <2>5, CopyTypes DEF InTake
    <3>2. Overtaken(rounds[v][r].takes[j].lease)
      BY <2>5 DEF TakesReached
    <3>3. Reached(rounds[v][r].takes[j].lease)
      BY <3>1, <3>2, OvertakenIsReached
    <3> QED BY <2>2, <2>5, <3>1, <3>3
  <2> QED BY <1>1, <2>1, <2>3, <2>4, <2>5 DEF OwnedFrom
<1>2. ASSUME NEW v \in Worker, NEW k \in Key, seen'[v][k] # NoLease
      PROVE  Reached(seen[v][k])'
  <2>1. SeenFrom(v, k)
    BY SeenStep
  <2>2. CASE seen'[v][k] = seen[v][k]
    <3>1. Reached(seen[v][k]) /\ seen[v][k] \in LeaseState
      BY <1>2, <2>2, CopyTypes DEF SeenReached
    <3> QED BY <1>0, <2>2, <3>1, ReachedStable DEF Reached
  <2>3. ASSUME NEW r \in Round, ListedFrom(seen[v], rounds[v][r].page, k, seen'[v][k])
        PROVE  Reached(seen[v][k])'
    <3>1. PICK l \in rounds[v][r].page : seen'[v][k] = [l EXCEPT !.inc = StampOf(seen[v][k], l, now)]
      BY <2>3 DEF ListedFrom
    <3>2. l \in LeaseState /\ Reached(l)
      BY CopyTypes DEF PagesReached
    <3>3. Reached(l)'
      BY <1>r, <3>2
    <3>4. seen'[v][k].key = l.key /\ seen'[v][k].counter = l.counter
      BY <3>1, <3>2 DEF LeaseState
    <3> QED BY <3>3, <3>4 DEF Reached
  <2> QED BY <1>2, <2>1, <2>2, <2>3 DEF SeenFrom
<1>3. ASSUME NEW v \in Worker PROVE \A l \in init'[v].page : Reached(l)'
  BY <1>p, InitPageStep, CopyTypes DEF PagesReached
<1>4. ASSUME NEW v \in Worker, NEW r \in Round PROVE \A l \in rounds'[v][r].page : Reached(l)'
  BY <1>p, RoundPageStep, CopyTypes DEF PagesReached
<1>5. ASSUME NEW v \in Worker, NEW k \in Key, NEW s \in RenewSlot,
             InCall(v, k, s, "queued")' \/ InCall(v, k, s, "sent")'
      PROVE  Reached(renewals[v][k][s].lease)'
  <2> DEFINE l == renewals'[v][k][s].lease
  <2>1. RenewalFrom(v, k, s)
    BY RenewalStepFrom
  <2>2. ASSUME l \in LeaseState, Reached(l) PROVE Reached(renewals[v][k][s].lease)'
    <3>1. PICK m \in LeaseState : m = l /\ Reached(m)
      BY <2>2 DEF Reached
    <3>2. Reached(m)'
      BY <1>r, <3>1
    <3> QED BY <3>1, <3>2 DEF Reached
  <2>3. CASE renewals'[v][k][s] = renewals[v][k][s]
    BY <1>5, <2>2, <2>3, CopyTypes DEF InCall, RenewalsReached
  <2>4. CASE l \in Leases(owned[v]) \cup init[v].page
    BY <2>2, <2>4, CopyTypes DEF Leases, OwnedReached, PagesReached
  <2>5. CASE l = renewals[v][k][s].lease /\ (InCall(v, k, s, "queued") \/ InCall(v, k, s, "sent"))
    BY <2>2, <2>5, CopyTypes DEF InCall, RenewalsReached
  <2> QED BY <1>5, <2>1, <2>3, <2>4, <2>5 DEF RenewalFrom, InCall
<1>6. ASSUME NEW v \in Worker, NEW k \in Key, NEW s \in RenewSlot, InCall(v, k, s, "ok")'
      PROVE  Reached(RenewResult(renewals[v][k][s].lease))'
  <2>1. RenewalFrom(v, k, s)
    BY RenewalStepFrom
  <2>2. CASE renewals'[v][k][s] = renewals[v][k][s]
    <3> DEFINE l == renewals[v][k][s].lease
    <3>1. InCall(v, k, s, "ok") /\ l \in LeaseState
      BY <1>6, <2>2, CopyTypes DEF InCall
    <3>2. PICK m \in LeaseState : m = RenewResult(l) /\ Reached(m)
      BY <3>1, RenewResultType DEF RenewalsReached
    <3>3. Reached(m)'
      BY <1>r, <3>2
    <3> QED BY <2>2, <3>2, <3>3 DEF Reached
  <2>3. CASE /\ InCall(v, k, s, "sent")
             /\ ApplyRenew(renewals[v][k][s].lease)
             /\ renewals'[v][k][s].lease = renewals[v][k][s].lease
    <3> DEFINE l == renewals[v][k][s].lease
    <3>1. l \in LeaseState
      BY <2>3, CopyTypes DEF InCall
    <3>2. Written(l)
      BY <2>3, <3>1, ApplyWrites
    <3> DEFINE m == RenewResult(l)
    <3>3. m.key = l.key /\ m.counter = l.counter + 1
      BY <3>1, RenewResultIs
    <3> HIDE DEF m
    <3>4. table'[l.key] # NoItem /\ table'[l.key].counter = l.counter + 1
      BY <3>2 DEF Written
    <3>5. l.counter + 1 \in Nat
      BY <3>1 DEF LeaseState
    <3>6. Reached(m)'
      BY <2>3, <3>3, <3>4, <3>5 DEF Reached, m
    <3> QED BY <2>3, <3>6 DEF m
  <2> QED BY <1>6, <2>1, <2>2, <2>3 DEF RenewalFrom, InCall
<1>7. ASSUME NEW v \in Worker, NEW r \in Round, NEW k \in Key, InTake(v, r, k, "sent")'
      PROVE  Reached(rounds[v][r].takes[k].lease)'
  <2> DEFINE l == rounds'[v][r].takes[k].lease
  <2>1. TakeFrom(v, r, k)
    BY TakeStepFrom
  <2>2. CASE rounds'[v][r].takes[k] = rounds[v][r].takes[k]
    <3>1. InTake(v, r, k, "sent") /\ l \in LeaseState /\ l = rounds[v][r].takes[k].lease
      BY <1>7, <2>2, CopyTypes DEF InTake
    <3>2. PICK m \in LeaseState : m = l /\ Reached(m)
      BY <3>1 DEF TakesReached
    <3>3. Reached(m)'
      BY <1>r, <3>2
    <3> QED BY <3>2, <3>3 DEF Reached
  <2>3. CASE seen'[v][k] # NoLease /\ l = seen'[v][k]
    <3>1. Reached(seen[v][k])'
      BY <1>2, <2>3
    <3> QED BY <2>3, <3>1 DEF Reached
  <2> QED BY <1>7, <2>1, <2>2, <2>3 DEF TakeFrom, InTake
<1>8. ASSUME NEW v \in Worker, NEW r \in Round, NEW k \in Key,
             InTake(v, r, k, "ok")' \/ InTake(v, r, k, "taken")'
      PROVE  Overtaken(rounds[v][r].takes[k].lease)'
  <2>1. TakeFrom(v, r, k)
    BY TakeStepFrom
  <2>2. CASE /\ InTake(v, r, k, "ok") \/ InTake(v, r, k, "taken")
             /\ rounds'[v][r].takes[k].lease = rounds[v][r].takes[k].lease
    <3>1. PICK m \in LeaseState : m = rounds[v][r].takes[k].lease /\ Overtaken(m)
      BY <2>2, CopyTypes DEF InTake, TakesReached
    <3>2. Overtaken(m)'
      BY <1>0, <3>1, OvertakenStable
    <3> QED BY <2>2, <3>1, <3>2 DEF Overtaken
  <2>3. CASE /\ InTake(v, r, k, "sent")
             /\ ApplyTake(rounds[v][r].takes[k].lease, v)
             /\ rounds'[v][r].takes[k].lease = rounds[v][r].takes[k].lease
    <3>1. PICK m \in LeaseState : m = rounds[v][r].takes[k].lease
      BY <2>3, CopyTypes DEF InTake
    <3>2. Written(m)
      BY <2>3, <3>1, ApplyWrites
    <3>3. Overtaken(m)'
      BY <3>2 DEF Written, Overtaken, LeaseState
    <3> QED BY <2>3, <3>1, <3>3 DEF Overtaken
  <2> QED BY <1>8, <2>1, <2>2, <2>3 DEF TakeFrom, InTake
<1>9. OwnedReached' /\ SeenReached'
  BY <1>1, <1>2 DEF OwnedReached, SeenReached
<1>10. PagesReached'
  BY <1>3, <1>4 DEF PagesReached
<1>11. RenewalsReached'
  BY <1>5, <1>6 DEF RenewalsReached
<1>12. TakesReached'
  BY <1>7, <1>8 DEF TakesReached
<1> QED BY <1>9, <1>10, <1>11, <1>12
\* A copy that is current after a step was current before it, of an item that
\* was not written, or is what the answer of the sole claim has just filed.
LEMMA HolderFrom ==
  ASSUME TypeOK, FencingInv, [Next]_vars, NEW v \in Worker, NEW k \in Key,
         Current(owned[v][k])'
  PROVE  /\ table'[k] = table[k]
         /\ \/ owned'[v][k] = owned[v][k] /\ Current(owned[v][k])
            \/ \E s \in RenewSlot :
                 /\ Claim(v, k, s)
                 /\ renewals'[v][k][s] = NoCall
                 /\ owned'[v][k].owner = renewals[v][k][s].lease.owner
<1>0. OwnedFrom(v, k) /\ TableGrows
  BY OwnedStep, TableStep
<1>1. owned'[v][k] # NoLease
  BY DEF Current
<1>2. CASE owned'[v][k] = owned[v][k]
  <2>1. PICK l \in LeaseState : l = owned[v][k] /\ l.key = k /\ Reached(l)
    BY <1>1, <1>2, CopyTypes DEF FencingInv, CopiesKeyed, OwnedReached
  <2>2. l.counter = table'[k].counter /\ l.counter \in Nat /\ l # NoLease
    BY <1>2, <2>1, <1>1 DEF Current, LeaseState
  <2>3. table'[k] = table[k]
    <3>1. ~Overtaken(l)'
      BY <2>1, <2>2 DEF Overtaken
    <3> QED BY <1>0, <2>1, <3>1, ReachedStable
  <2>4. Current(owned[v][k])
    BY <2>1, <2>2, <2>3 DEF Current, Reached
  <2> QED BY <1>2, <2>3, <2>4
<1>3. ASSUME NEW j \in Key, NEW s \in RenewSlot, table' = table, InCall(v, j, s, "ok"),
             renewals'[v][j][s] = NoCall, k = renewals[v][j][s].lease.key,
             owned'[v][k] = RenewResult(renewals[v][j][s].lease)
      PROVE  /\ Claim(v, k, s)
             /\ renewals'[v][k][s] = NoCall
             /\ owned'[v][k].owner = renewals[v][k][s].lease.owner
  <2>1. PICK l \in LeaseState : l = renewals[v][j][s].lease
    BY <1>3, CopyTypes DEF InCall
  <2>2. j = k
    BY <1>3 DEF FencingInv, CopiesKeyed, InCall
  <2>3. Current(RenewResult(l))
    BY <1>3, <2>1 DEF Current
  <2> QED BY <1>3, <2>1, <2>2, <2>3, RenewResultIs DEF Claim
<1>4. ASSUME NEW r \in Round, NEW j \in Key, table' = table,
             InTake(v, r, j, "taken") \/ InTake(v, r, j, "ok"),
             k = rounds[v][r].takes[j].lease.key,
             owned'[v][k] = rounds[v][r].takes[j].lease
      PROVE  FALSE
  <2>1. PICK l \in LeaseState : l = rounds[v][r].takes[j].lease /\ Overtaken(l)
    BY <1>4, CopyTypes DEF InTake, FencingInv, TakesReached
  <2>2. ~Current(l)
    BY <2>1, OvertakenIsReached
  <2> QED BY <1>4, <2>1, <2>2 DEF Current
<1> QED BY <1>0, <1>1, <1>2, <1>3, <1>4 DEF OwnedFrom

\* A claim after a step was one before it, of an item that was not written, or
\* the step applied its renewal and touched no other.
LEMMA ClaimFrom ==
  ASSUME TypeOK, FencingInv, [Next]_vars, NEW v \in Worker, NEW k \in Key, NEW s \in RenewSlot,
         Claim(v, k, s)'
  PROVE  \/ /\ Claim(v, k, s)
            /\ table'[k] = table[k]
            /\ renewals'[v][k][s] = renewals[v][k][s]
         \/ /\ table'[k] # table[k]
            /\ InCall(v, k, s, "sent")
            /\ table'[k].owner = renewals'[v][k][s].lease.owner
            /\ \A u \in Worker, j \in Key, t \in RenewSlot :
                 <<u, j, t>> # <<v, k, s>> => renewals'[u][j][t] = renewals[u][j][t]
<1>0. RenewalFrom(v, k, s) /\ TableGrows
  BY RenewalStepFrom, TableStep
<1>1. renewals'[v][k][s] # NoCall /\ renewals'[v][k][s].st = "ok"
  BY DEF Claim, InCall
<1>2. CASE renewals'[v][k][s] = renewals[v][k][s]
  <2>1. InCall(v, k, s, "ok")
    BY <1>1, <1>2 DEF InCall
  <2>2. PICK l \in LeaseState : l = renewals[v][k][s].lease /\ l.key = k
    BY <2>1, CopyTypes DEF InCall, FencingInv, CopiesKeyed
  <2>3. PICK m \in LeaseState : m = RenewResult(l) /\ m.key = k /\ Reached(m)
    BY <2>1, <2>2, RenewResultType, RenewResultIs DEF FencingInv, RenewalsReached
  <2>4. m.counter = table'[k].counter /\ m.counter \in Nat /\ m # NoLease
    BY <1>2, <2>2, <2>3 DEF Claim, Current, LeaseState
  <2>5. table'[k] = table[k]
    <3>1. ~Overtaken(m)'
      BY <2>3, <2>4 DEF Overtaken
    <3> QED BY <1>0, <2>3, <3>1, ReachedStable
  <2>6. Current(m)
    BY <2>3, <2>4, <2>5 DEF Current, Reached
  <2> QED BY <1>2, <2>1, <2>2, <2>3, <2>5, <2>6 DEF Claim
<1>3. CASE /\ InCall(v, k, s, "sent")
           /\ ApplyRenew(renewals[v][k][s].lease)
           /\ renewals'[v][k][s].lease = renewals[v][k][s].lease
           /\ \A u \in Worker, j \in Key, t \in RenewSlot :
                <<u, j, t>> # <<v, k, s>> => renewals'[u][j][t] = renewals[u][j][t]
  <2>1. PICK l \in LeaseState : l = renewals[v][k][s].lease /\ l.key = k
    BY <1>3, CopyTypes DEF InCall, FencingInv, CopiesKeyed
  <2>2. table'[k].owner = l.owner /\ Written(l)
    BY <1>3, <2>1, RenewalKeepsOwner, ApplyWrites
  <2>3. table'[k] # table[k]
    BY <2>1, <2>2 DEF Written, LeaseState
  <2> QED BY <1>3, <2>1, <2>2, <2>3
<1> QED BY <1>0, <1>1, <1>2, <1>3 DEF RenewalFrom

\* The claim stays the only one: nobody is current when it arises, and whoever
\* is current later has used it up.
LEMMA ClaimStep ==
  ASSUME TypeOK, FencingInv, [Next]_vars
  PROVE  ClaimUnique'
<1> SUFFICES ASSUME NEW k \in Key, NEW w \in Worker, NEW s \in RenewSlot, Claim(w, k, s)'
             PROVE  /\ renewals'[w][k][s].lease.owner = table'[k].owner
                    /\ \A v \in Worker : ~Current(owned[v][k])'
                    /\ \A v \in Worker, t \in RenewSlot : Claim(v, k, t)' => v = w /\ t = s
  BY DEF ClaimUnique
<1>1. CASE /\ Claim(w, k, s)
           /\ table'[k] = table[k]
           /\ renewals'[w][k][s] = renewals[w][k][s]
  <2>1. renewals'[w][k][s].lease.owner = table'[k].owner
    BY <1>1 DEF FencingInv, ClaimUnique
  <2>2. ASSUME NEW v \in Worker, Current(owned[v][k])' PROVE FALSE
    <3>1. ~Current(owned[v][k])
      BY <1>1 DEF FencingInv, ClaimUnique
    <3>2. PICK t \in RenewSlot : Claim(v, k, t) /\ renewals'[v][k][t] = NoCall
      BY <2>2, <3>1, HolderFrom
    <3>3. v = w /\ t = s
      BY <1>1, <3>2 DEF FencingInv, ClaimUnique
    <3> QED BY <3>2, <3>3 DEF Claim, InCall
  <2>3. ASSUME NEW v \in Worker, NEW t \in RenewSlot, Claim(v, k, t)' PROVE v = w /\ t = s
    <3>1. Claim(v, k, t)
      BY <1>1, <2>3, ClaimFrom
    <3> QED BY <1>1, <3>1 DEF FencingInv, ClaimUnique
  <2> QED BY <2>1, <2>2, <2>3
<1>2. CASE /\ table'[k] # table[k]
           /\ InCall(w, k, s, "sent")
           /\ table'[k].owner = renewals'[w][k][s].lease.owner
           /\ \A u \in Worker, j \in Key, t \in RenewSlot :
                <<u, j, t>> # <<w, k, s>> => renewals'[u][j][t] = renewals[u][j][t]
  <2>1. \A v \in Worker : ~Current(owned[v][k])'
    BY <1>2, HolderFrom
  <2>2. ASSUME NEW v \in Worker, NEW t \in RenewSlot, Claim(v, k, t)', <<v, t>> # <<w, s>>
        PROVE  FALSE
    <3>1. \A u \in Worker, j \in Key, x \in RenewSlot :
            <<u, j, x>> # <<v, k, t>> => renewals'[u][j][x] = renewals[u][j][x]
      BY <1>2, <2>2, ClaimFrom
    <3>2. renewals'[w][k][s] = renewals[w][k][s]
      BY <2>2, <3>1
    <3>3. renewals[w][k][s].st = "ok"
      BY <3>2 DEF Claim, InCall
    <3> QED BY <1>2, <3>3 DEF InCall
  <2> QED BY <1>2, <2>1, <2>2
<1> QED BY <1>1, <1>2, ClaimFrom
\* The holder stays the only one, and shows the item's owner.
LEMMA HolderStep ==
  ASSUME TypeOK, FencingInv, [Next]_vars
  PROVE  CurrentHolderUnique'
<1> SUFFICES ASSUME NEW k \in Key, NEW w \in Worker, Current(owned[w][k])'
             PROVE  /\ owned'[w][k].owner = table'[k].owner
                    /\ \A v \in Worker : Current(owned[v][k])' => v = w
  BY DEF CurrentHolderUnique
<1>0. table'[k] = table[k]
  BY HolderFrom
<1>1. CASE owned'[w][k] = owned[w][k] /\ Current(owned[w][k])
  <2>1. owned'[w][k].owner = table'[k].owner
    BY <1>0, <1>1 DEF FencingInv, CurrentHolderUnique
  <2>2. ASSUME NEW v \in Worker, Current(owned[v][k])' PROVE v = w
    <3>1. CASE Current(owned[v][k])
      BY <1>1, <3>1 DEF FencingInv, CurrentHolderUnique
    <3>2. ASSUME NEW t \in RenewSlot, Claim(v, k, t) PROVE FALSE
      BY <1>1, <3>2 DEF FencingInv, ClaimUnique
    <3> QED BY <2>2, <3>1, <3>2, HolderFrom
  <2> QED BY <2>1, <2>2
<1>2. ASSUME NEW s \in RenewSlot, Claim(w, k, s),
             owned'[w][k].owner = renewals[w][k][s].lease.owner
      PROVE  /\ owned'[w][k].owner = table'[k].owner
             /\ \A v \in Worker : Current(owned[v][k])' => v = w
  <2>1. owned'[w][k].owner = table'[k].owner
    BY <1>0, <1>2 DEF FencingInv, ClaimUnique
  <2>2. ASSUME NEW v \in Worker, Current(owned[v][k])' PROVE v = w
    <3>1. ~Current(owned[v][k])
      BY <1>2 DEF FencingInv, ClaimUnique
    <3>2. PICK t \in RenewSlot : Claim(v, k, t)
      BY <2>2, <3>1, HolderFrom
    <3> QED BY <1>2, <3>2 DEF FencingInv, ClaimUnique
  <2> QED BY <2>1, <2>2
<1> QED BY <1>1, <1>2, HolderFrom

------------------------------------------------------------------------------

\* Nothing is in memory at first.
LEMMA FencingInit == Init => FencingInv
<1> SUFFICES ASSUME Init PROVE FencingInv
  OBVIOUS
<1>1. \A w \in Worker, k \in Key : owned[w][k] = NoLease /\ seen[w][k] = NoLease
  BY DEF Init, RenewerInit, TakerInit, EmptyMap
<1>2. \A w \in Worker, k \in Key, s \in RenewSlot : renewals[w][k][s] = NoCall
  BY DEF Init, RenewerInit, NoRenewals
<1>3. \A w \in Worker : init[w].page = {}
  BY DEF Init, RenewerInit, NotInitialized
<1>4. \A w \in Worker, r \in Round : rounds[w][r] = IdleRound
  BY DEF Init, TakerInit
<1>5. \A w \in Worker, r \in Round, k \in Key :
        rounds[w][r].page = {} /\ rounds[w][r].takes[k] = NoTake
  BY <1>4, IdleTakes
<1>6. CopiesKeyed
  BY <1>1, <1>2, <1>5 DEF CopiesKeyed
<1>7. OwnedReached /\ SeenReached
  BY <1>1 DEF OwnedReached, SeenReached
<1>8. RenewalsReached /\ ClaimUnique
  BY <1>2 DEF RenewalsReached, ClaimUnique, Claim, InCall
<1>9. PagesReached
  BY <1>3, <1>4, IdleTakes DEF PagesReached
<1>10. TakesReached
  BY <1>5 DEF TakesReached, InTake
<1>11. CurrentHolderUnique
  BY <1>1 DEF CurrentHolderUnique, Current
<1> QED BY <1>6, <1>7, <1>8, <1>9, <1>10, <1>11 DEF FencingInv

\* The invariant of the fencing argument is inductive relative to the types.
LEMMA FencingStep ==
  ASSUME TypeOK, FencingInv, [Next]_vars
  PROVE  FencingInv'
<1>1. CopiesKeyed'
  BY KeyedStep DEF FencingInv
<1>2. OwnedReached' /\ RenewalsReached' /\ PagesReached' /\ SeenReached' /\ TakesReached'
  BY ReachedStep DEF FencingInv
<1> QED BY <1>1, <1>2, ClaimStep, HolderStep DEF FencingInv

\* Whatever answers are lost, late or out of order: every copy a worker keeps
\* or may come to keep has been reached by the table, and a claim is unique.
THEOREM FencingInvariant == Spec => []FencingInv
<1>1. TypeOK /\ FencingInv /\ [Next]_vars => FencingInv'
  BY FencingStep
<1> QED BY <1>1, FencingInit, TypeCorrect, PTL DEF Spec

\* For any number of workers and leases, at most one worker's copy of a lease
\* is current, and it shows the item's owner.
THEOREM CurrentHolderIsUnique == Spec => []CurrentHolderUnique
<1>1. FencingInv => CurrentHolderUnique
  BY DEF FencingInv
<1> QED BY <1>1, FencingInvariant, PTL

\* No worker keeps, or has the right to, a version the table has not reached.
THEOREM CopiesAreNeverAhead == Spec => []NoCopyAhead
<1>1. ASSUME TypeOK, FencingInv PROVE NoCopyAhead
  <2> SUFFICES ASSUME NEW w \in Worker, NEW k \in Key
               PROVE  /\ owned[w][k] # NoLease =>
                           table[k] # NoItem /\ owned[w][k].counter <= table[k].counter
                      /\ \A s \in RenewSlot : InCall(w, k, s, "ok") =>
                           /\ table[k] # NoItem
                           /\ RenewResult(renewals[w][k][s].lease).counter <= table[k].counter
    BY DEF NoCopyAhead
  <2>1. owned[w][k] # NoLease =>
          table[k] # NoItem /\ owned[w][k].counter <= table[k].counter
    BY <1>1 DEF FencingInv, CopiesKeyed, OwnedReached, Reached
  <2>2. ASSUME NEW s \in RenewSlot, InCall(w, k, s, "ok")
        PROVE  /\ table[k] # NoItem
               /\ RenewResult(renewals[w][k][s].lease).counter <= table[k].counter
    <3>1. PICK l \in LeaseState : l = renewals[w][k][s].lease /\ l.key = k
      BY <1>1, <2>2, CopyTypes DEF InCall, FencingInv, CopiesKeyed
    <3>2. Reached(RenewResult(l)) /\ RenewResult(l).key = k
      BY <1>1, <2>2, <3>1, RenewResultIs DEF FencingInv, RenewalsReached
    <3> QED BY <3>1, <3>2 DEF Reached
  <2> QED BY <2>1, <2>2
<1> QED BY <1>1, FencingInvariant, TypeCorrect, PTL

------------------------------------------------------------------------------
(* The coordinators implement LeaseFencing.  First what each of its actions *)
(* asks of the claims and holders read off the workers, then that every     *)
(* step is one of them: a step that writes an item starts a new version, a  *)
(* step that makes a holder is the answer of the renewal that had the       *)
(* claim, and every other step at most loses claims and holders.            *)

Claimant(k) == TheOne(ClaimsOf(k))
HolderOf(k) == TheOne(HoldersOf(k))

\* What is read off the workers are workers, and at most one of each.
LEMMA OneOfEach ==
  ASSUME TypeOK, FencingInv, NEW k \in Key
  PROVE  /\ ClaimsOf(k) \subseteq Worker /\ HoldersOf(k) \subseteq Worker
         /\ \A v, w \in ClaimsOf(k) : v = w
         /\ \A v, w \in HoldersOf(k) : v = w
<1>1. \A w \in Worker : w \in ClaimsOf(k) <=> \E s \in RenewSlot : Claim(w, k, s)
  BY DEF ClaimsOf, Claim
<1>2. \A v, w \in ClaimsOf(k) : v = w
  <2> SUFFICES ASSUME NEW v \in ClaimsOf(k), NEW w \in ClaimsOf(k) PROVE v = w
    OBVIOUS
  <2>1. v \in Worker /\ w \in Worker
    BY DEF ClaimsOf
  <2>2. PICK s \in RenewSlot : Claim(v, k, s)
    BY <1>1, <2>1
  <2>3. PICK t \in RenewSlot : Claim(w, k, t)
    BY <1>1, <2>1
  <2> QED BY <2>1, <2>2, <2>3 DEF FencingInv, ClaimUnique
<1>3. \A v, w \in HoldersOf(k) : v = w
  BY DEF HoldersOf, FencingInv, CurrentHolderUnique
<1> QED BY <1>2, <1>3 DEF ClaimsOf, HoldersOf

\* The one element of a set of workers.
LEMMA TheOneIs ==
  ASSUME NEW S \in SUBSET Worker, \A v, w \in S : v = w
  PROVE  /\ S = {} => TheOne(S) = NoOwner
         /\ \A w \in S : TheOne(S) = w
         /\ TheOne(S) = NoOwner => S = {}
         /\ TheOne(S) \in Worker \cup {NoOwner}
<1>1. NoOwner \notin Worker
  BY LeaseAssumption
<1> QED BY <1>1 DEF TheOne

\* A set that shrinks keeps its one element or has none.
LEMMA TheOneShrinks ==
  ASSUME NEW S \in SUBSET Worker, NEW T \in SUBSET Worker, \A v, w \in S : v = w, T \subseteq S
  PROVE  TheOne(T) \in {TheOne(S), NoOwner}
<1>1. CASE T = {}
  BY <1>1, TheOneIs
<1>2. CASE T # {}
  BY <1>2
<1> QED BY <1>1, <1>2

\* Only losses: Forget.
LEMMA ForgetMaps ==
  ASSUME \A k \in Key : VersionOf(k)' = VersionOf(k),
         \A k \in Key : Claimant(k)' \in {Claimant(k), NoOwner},
         \A k \in Key : HolderOf(k)' \in {HolderOf(k), NoOwner}
  PROVE  Fencing!FencingNext
<1> DEFINE lostClaims == {k \in Key : Claimant(k)' = NoOwner}
           lostHolders == {k \in Key : HolderOf(k)' = NoOwner}
<1>1. [k \in Key |-> Claimant(k)'] =
        [k \in Key |-> IF k \in lostClaims THEN NoOwner ELSE [j \in Key |-> Claimant(j)][k]]
  OBVIOUS
<1>2. [k \in Key |-> HolderOf(k)'] =
        [k \in Key |-> IF k \in lostHolders THEN NoOwner ELSE [j \in Key |-> HolderOf(j)][k]]
  OBVIOUS
<1>3. [k \in Key |-> VersionOf(k)'] = [k \in Key |-> VersionOf(k)]
  OBVIOUS
<1>4. Fencing!Forget
  BY <1>1, <1>2, <1>3 DEF Fencing!Forget, Claimant, HolderOf
<1> QED BY <1>4 DEF Fencing!FencingNext

\* One claim becomes a holder: Acquire.
LEMMA AcquireMaps ==
  ASSUME NEW c \in Key,
         \A k \in Key : VersionOf(k)' = VersionOf(k),
         \A k \in Key \ {c} : Claimant(k)' = Claimant(k) /\ HolderOf(k)' = HolderOf(k),
         Claimant(c) # NoOwner, Claimant(c)' = NoOwner, HolderOf(c)' = Claimant(c)
  PROVE  Fencing!FencingNext
<1>1. [k \in Key |-> Claimant(k)'] = [[k \in Key |-> Claimant(k)] EXCEPT ![c] = NoOwner]
  OBVIOUS
<1>2. [k \in Key |-> HolderOf(k)'] =
        [[k \in Key |-> HolderOf(k)] EXCEPT ![c] = [k \in Key |-> Claimant(k)][c]]
  OBVIOUS
<1>3. [k \in Key |-> VersionOf(k)'] = [k \in Key |-> VersionOf(k)]
  OBVIOUS
<1>4. Fencing!Acquire(c)
  BY <1>1, <1>2, <1>3 DEF Fencing!Acquire, Claimant, HolderOf
<1> QED BY <1>4 DEF Fencing!FencingNext

\* One item is written: NewVersion.
LEMMA NewVersionMaps ==
  ASSUME NEW c \in Key,
         \A k \in Key \ {c} : /\ VersionOf(k)' = VersionOf(k)
                              /\ Claimant(k)' = Claimant(k)
                              /\ HolderOf(k)' = HolderOf(k),
         VersionOf(c)' = VersionOf(c) + 1,
         Claimant(c)' \in Worker \cup {NoOwner}, HolderOf(c)' = NoOwner
  PROVE  Fencing!FencingNext
<1>1. [k \in Key |-> Claimant(k)'] = [[k \in Key |-> Claimant(k)] EXCEPT ![c] = Claimant(c)']
  OBVIOUS
<1>2. [k \in Key |-> HolderOf(k)'] = [[k \in Key |-> HolderOf(k)] EXCEPT ![c] = NoOwner]
  OBVIOUS
<1>3. [k \in Key |-> VersionOf(k)'] = [[k \in Key |-> VersionOf(k)] EXCEPT ![c] = @ + 1]
  OBVIOUS
<1>4. Fencing!NewVersion(c, Claimant(c)')
  BY <1>1, <1>2, <1>3 DEF Fencing!NewVersion, Claimant, HolderOf
<1> QED BY <1>4 DEF Fencing!FencingNext

\* What a step that writes the item c does, and what it leaves alone.
Writes(c) ==
  /\ \A k \in Key \ {c} : table'[k] = table[k]
  /\ VersionOf(c)' = VersionOf(c) + 1
  /\ owned' = owned
  /\ \A v \in Worker, k \in Key \ {c}, s \in RenewSlot : renewals'[v][k][s] = renewals[v][k][s]

\* The item of an applied update gets its next version.
LEMMA UpdateWrites ==
  ASSUME TypeOK, NEW l \in LeaseState, TableGrows, Updated(l.key),
         NEW item, Write(l.key, item), NEW c \in Key, table'[c] # table[c]
  PROVE  /\ c = l.key
         /\ \A k \in Key \ {c} : table'[k] = table[k]
         /\ VersionOf(c)' = VersionOf(c) + 1
<1>1. l.key \in Key /\ table' = [table EXCEPT ![l.key] = item]
  BY DEF Write, LeaseState
<1>2. c = l.key /\ \A k \in Key \ {c} : table'[k] = table[k]
  BY <1>1 DEF TypeOK, TableTypeOK
<1>3. table[c] # NoItem /\ table'[c] # NoItem
  BY <1>2, SentinelAssumption DEF Updated
<1> QED BY <1>2, <1>3 DEF Updated, VersionOf, Item

\* Every step that writes an item.
LEMMA WriteStep ==
  ASSUME TypeOK, FencingInv, [Next]_vars, NEW c \in Key, table'[c] # table[c]
  PROVE  Writes(c)
<1>0. TableGrows
  BY TableStep
<1>1. ASSUME table' = table PROVE FALSE
  BY <1>1
<1>2. CASE TableNext /\ UNCHANGED <<renewerVars, takerVars, controlVars>>
  <2>0. owned' = owned /\ renewals' = renewals
    BY <1>2 DEF renewerVars
  <2>1. CASE Tick \/ ClockSetBack
    BY <1>1, <2>1 DEF Tick, ClockSetBack
  <2>2. ASSUME NEW req \in orphans, OrphanApplied(req)
        PROVE  Writes(c)
    <3>1. req.lease \in LeaseState /\ req.newOwner \in Owner
      BY DEF TypeOK, TableTypeOK, Request
    <3>2. CASE req.newOwner = NoOwner
      <4>1. ApplyRenew(req.lease)
        BY <2>2, <3>2 DEF OrphanApplied
      <4>2. Updated(req.lease.key)
        BY <3>1, <4>1, ApplyRenewGrows
      <4> QED BY <1>0, <2>0, <3>1, <4>1, <4>2, UpdateWrites DEF ApplyRenew, Writes
    <3>3. CASE req.newOwner # NoOwner
      <4>1. req.newOwner \in Worker /\ ApplyTake(req.lease, req.newOwner)
        BY <2>2, <3>1, <3>3 DEF Owner, OrphanApplied
      <4>2. Updated(req.lease.key)
        BY <3>1, <4>1, ApplyGrows
      <4> QED BY <1>0, <2>0, <3>1, <4>1, <4>2, UpdateWrites DEF ApplyTake, Writes
    <3> QED BY <3>2, <3>3
  <2>3. ASSUME NEW req \in orphans, OrphanLost(req)
        PROVE  FALSE
    BY <1>1, <2>3 DEF OrphanLost
  <2>4. ASSUME NEW k \in Key, NEW owner \in Owner, NEW stamp \in {NoTime, now},
               CreateLeaseIfNotExists(k, owner, stamp)
        PROVE  Writes(c)
    <3> DEFINE item == ToDynamoDict(owner, NoCounter, stamp)
    <3>1. item \in Item /\ item.counter = 0
      BY DEF ToDynamoDict, Item, TypeOK, TableTypeOK
    <3>2. table[k] = NoItem /\ table' = [table EXCEPT ![k] = item]
      BY <2>4 DEF CreateLeaseIfNotExists, Write
    <3>3. c = k /\ \A j \in Key \ {c} : table'[j] = table[j]
      BY <3>2 DEF TypeOK, TableTypeOK
    <3>4. table'[c] = item
      BY <3>2, <3>3 DEF TypeOK, TableTypeOK
    <3>5. table'[c] # NoItem
      BY <3>1, <3>4, SentinelAssumption
    <3>6. VersionOf(c)' = VersionOf(c) + 1
      BY <3>1, <3>2, <3>3, <3>4, <3>5 DEF VersionOf
    <3> QED BY <2>0, <3>3, <3>6 DEF Writes
  <2> QED BY <1>2, <2>1, <2>2, <2>3, <2>4 DEF TableNext
<1>3. ASSUME NEW w \in Worker, ControlStep(w)
      PROVE  FALSE
  BY <1>1, <1>3 DEF ControlStep, Start, Stop, StopTimers, StopAborts, RunRenewer, RunRenewLeases,
                    RenewLeases, Crash, SetCheckpoint, Dies, tableVars
<1>4. ASSUME NEW w \in Worker, InitStep(w)
      PROVE  FALSE
  BY <1>1, <1>4 DEF InitStep, InitScanned, InitScanFailed, InitListed, tableVars
<1>5. ASSUME NEW w \in Worker, NEW k \in Key, NEW s \in RenewSlot, RenewalStep(w, k, s)
      PROVE  Writes(c)
  <2>1. RenewApplied(w, k, s)
    BY <1>1, <1>5 DEF RenewalStep, RenewLease, RenewFailed, RenewDone, tableVars
  <2> DEFINE l == renewals[w][k][s].lease
  <2>2. l \in LeaseState /\ l.key = k /\ ApplyRenew(l)
    BY <2>1, CopyTypes DEF RenewApplied, InCall, FencingInv, CopiesKeyed
  <2>3. Updated(l.key)
    BY <2>2, ApplyRenewGrows
  <2>4. c = k /\ (\A j \in Key \ {c} : table'[j] = table[j]) /\ VersionOf(c)' = VersionOf(c) + 1
    BY <1>0, <2>2, <2>3, UpdateWrites DEF ApplyRenew
  <2>5. owned' = owned /\ \E st \in {"ok", "failed"} : SetRenewal(w, k, s, st)
    BY <2>1 DEF RenewApplied
  <2>6. \A v \in Worker, j \in Key \ {c}, t \in RenewSlot : renewals'[v][j][t] = renewals[v][j][t]
    BY <2>4, <2>5 DEF SetRenewal, TypeOK, RenewerTypeOK
  <2> QED BY <2>4, <2>5, <2>6 DEF Writes
<1>6. ASSUME NEW w \in Worker, NEW r \in Round, RoundStep(w, r)
      PROVE  FALSE
  BY <1>1, <1>6 DEF RoundStep, RoundAnswered, RunTaker, TakeLeases, TakerAborts, Dies, RoundScanned,
                    RoundListed, tableVars
<1>7. ASSUME NEW w \in Worker, NEW r \in Round, NEW k \in Key, TakeStep(w, r, k)
      PROVE  Writes(c)
  <2>1. TakeApplied(w, r, k) /\ owned' = owned /\ renewals' = renewals
    BY <1>1, <1>7 DEF TakeStep, TakeFailed, TakerDone, TakeDone, tableVars, renewerVars
  <2> DEFINE l == rounds[w][r].takes[k].lease
  <2>2. l \in LeaseState /\ ApplyTake(l, w)
    BY <2>1, InTakeType DEF TakeApplied, TypeOK
  <2>3. Updated(l.key)
    BY <2>2, ApplyGrows
  <2>4. PICK item : Write(l.key, item)
    BY <2>2 DEF ApplyTake
  <2>5. (\A j \in Key \ {c} : table'[j] = table[j]) /\ VersionOf(c)' = VersionOf(c) + 1
    BY <1>0, <2>2, <2>3, <2>4, UpdateWrites
  <2> QED BY <2>1, <2>5 DEF Writes
<1>8. CASE UNCHANGED vars
  BY <1>1, <1>8 DEF vars, tableVars
<1> QED BY <1>2, <1>3, <1>4, <1>5, <1>6, <1>7, <1>8 DEF Next

\* What the answer to the renewal of c that had the claim does.
Acquires(w, c, s) ==
  /\ Claim(w, c, s)
  /\ renewals' = [renewals EXCEPT ![w][c][s] = NoCall]
  /\ owned' = [owned EXCEPT ![w][c] = RenewResult(renewals[w][c][s].lease)]

\* A new holder comes of the answer to its renewal.
LEMMA AcquireStep ==
  ASSUME TypeOK, FencingInv, [Next]_vars, NEW w \in Worker, NEW c \in Key,
         Current(owned[w][c])', ~Current(owned[w][c])
  PROVE  \E s \in RenewSlot : Acquires(w, c, s)
<1>1. PICK s \in RenewSlot : Claim(w, c, s) /\ renewals'[w][c][s] = NoCall
  BY HolderFrom
<1>2. renewals[w][c][s] # NoCall
  BY <1>1 DEF Claim, InCall
<1>3. ASSUME renewals' = renewals PROVE FALSE
  BY <1>1, <1>2, <1>3
<1>4. ASSUME owned' = owned PROVE FALSE
  <2>1. table'[c] = table[c] /\ owned[w][c] # NoLease /\ owned[w][c].key = c
    BY <1>4, HolderFrom DEF Current, FencingInv, CopiesKeyed
  <2> QED BY <1>4, <2>1 DEF Current
<1>5. owned'[w][c] # NoLease
  BY DEF Current
<1>6. ASSUME NEW v \in Worker, Dies(v) PROVE FALSE
  <2>1. owned'[w][c] = owned[w][c]
    BY <1>5, <1>6 DEF Dies, RenewerDies, EmptyMap, TypeOK, RenewerTypeOK
  <2>2. table' = table
    BY <1>6 DEF Dies
  <2> QED BY <2>1, <2>2 DEF Current
<1>7. ~(TableNext /\ UNCHANGED <<renewerVars, takerVars, controlVars>>)
  BY <1>4 DEF renewerVars
<1>8. ASSUME NEW v \in Worker, ControlStep(v)
      PROVE  FALSE
  BY <1>4, <1>6, <1>8 DEF ControlStep, Start, Stop, StopTimers, StopAborts, RunRenewer,
                          RunRenewLeases, RenewLeases, Crash, SetCheckpoint, renewerVars
<1>9. ASSUME NEW v \in Worker, InitStep(v)
      PROVE  FALSE
  BY <1>4, <1>9 DEF InitStep, InitScanned, InitScanFailed, InitListed
<1>10. ASSUME NEW v \in Worker, NEW r \in Round, RoundStep(v, r)
      PROVE  FALSE
  BY <1>4, <1>6, <1>10 DEF RoundStep, RoundAnswered, RunTaker, TakerAborts, renewerVars
<1>11. ASSUME NEW v \in Worker, NEW r \in Round, NEW k \in Key, TakeStep(v, r, k)
      PROVE  FALSE
  BY <1>3, <1>11 DEF TakeStep, TakerDone, renewerVars
<1>12. ASSUME NEW v \in Worker, NEW k \in Key, NEW t \in RenewSlot, RenewalStep(v, k, t)
      PROVE  Acquires(w, c, s)
  <2>1. CASE RenewApplied(v, k, t) \/ RenewFailed(v, k, t)
    BY <1>4, <2>1 DEF RenewApplied, RenewFailed
  <2>2. ASSUME EndRenewal(v, k, t) PROVE w = v /\ c = k /\ s = t
    BY <1>1, <1>2, <2>2 DEF EndRenewal, TypeOK, RenewerTypeOK
  <2>3. CASE RenewLease(v, k, t)
    <3>1. EndRenewal(v, k, t) /\ InCall(v, k, t, "queued")
      BY <1>4, <2>3 DEF RenewLease
    <3> QED BY <1>1, <2>2, <3>1 DEF Claim, InCall
  <2>4. CASE RenewDone(v, k, t)
    <3> DEFINE l == renewals[v][k][t].lease
    <3>1. EndRenewal(v, k, t) /\ w = v /\ c = k /\ s = t
      BY <2>2, <2>4 DEF RenewDone
    <3>2. InCall(v, k, t, "ok") /\ ~InCall(v, k, t, "failed")
      BY <1>1, <3>1 DEF Claim, InCall
    <3>3. ReplaceRenewedLease(v, RenewResult(l))
      BY <2>4, <3>2 DEF RenewDone
    <3>4. l \in LeaseState /\ l.key = k
      BY <3>2, CopyTypes DEF InCall, FencingInv, CopiesKeyed
    <3>5. RenewResult(l).key = k
      BY <3>4, RenewResultIs
    <3> QED BY <1>1, <3>1, <3>3, <3>5 DEF Acquires, EndRenewal, ReplaceRenewedLease
  <2> QED BY <1>12, <2>1, <2>3, <2>4 DEF RenewalStep
<1>13. ~UNCHANGED vars
  BY <1>4 DEF vars, renewerVars
<1> QED BY <1>7, <1>8, <1>9, <1>10, <1>11, <1>12, <1>13 DEF Next

\* A lease whose item, copies and renewals a step leaves alone.
LEMMA Untouched ==
  ASSUME TypeOK, FencingInv, NEW k \in Key, table'[k] = table[k],
         \A v \in Worker : owned'[v][k] = owned[v][k],
         \A v \in Worker, s \in RenewSlot : renewals'[v][k][s] = renewals[v][k][s]
  PROVE  /\ VersionOf(k)' = VersionOf(k)
         /\ Claimant(k)' = Claimant(k)
         /\ HolderOf(k)' = HolderOf(k)
<1>1. VersionOf(k)' = VersionOf(k)
  BY DEF VersionOf
<1>2. \A v \in Worker : Current(owned[v][k])' <=> Current(owned[v][k])
  BY DEF Current, FencingInv, CopiesKeyed
<1>3. \A v \in Worker, s \in RenewSlot : Claim(v, k, s)' <=> Claim(v, k, s)
  <2> SUFFICES ASSUME NEW v \in Worker, NEW s \in RenewSlot
               PROVE  Claim(v, k, s)' <=> Claim(v, k, s)
    OBVIOUS
  <2> DEFINE l == renewals[v][k][s].lease
  <2>1. InCall(v, k, s, "ok")' <=> InCall(v, k, s, "ok")
    BY DEF InCall
  <2>2. ASSUME renewals[v][k][s] # NoCall
        PROVE  Current(RenewResult(l))' <=> Current(RenewResult(l))
    <3>1. l' = l /\ RenewResult(l).key = k
      BY <2>2, CopyTypes, RenewResultIs DEF FencingInv, CopiesKeyed
    <3>2. RenewResult(l)' = RenewResult(l)
      BY <3>1 DEF RenewResult, IncrementedCounter
    <3> QED BY <3>1, <3>2 DEF Current
  <2> QED BY <2>1, <2>2 DEF Claim, InCall
<1>4. HoldersOf(k)' = HoldersOf(k)
  BY <1>2 DEF HoldersOf
<1>5. ClaimsOf(k)' = ClaimsOf(k)
  BY <1>3 DEF ClaimsOf, Claim
<1> QED BY <1>1, <1>4, <1>5 DEF Claimant, HolderOf, TheOne

\* A step that writes an item starts a new version of that lease.
LEMMA WriteMaps ==
  ASSUME TypeOK, FencingInv, [Next]_vars, NEW c \in Key, table'[c] # table[c]
  PROVE  Fencing!FencingNext
<1>1. Writes(c)
  BY WriteStep
<1>2. \A k \in Key \ {c} : /\ VersionOf(k)' = VersionOf(k)
                           /\ Claimant(k)' = Claimant(k)
                           /\ HolderOf(k)' = HolderOf(k)
  BY <1>1, Untouched DEF Writes
<1>3. HolderOf(c)' = NoOwner
  <2>1. \A v \in Worker : ~Current(owned[v][c])'
    BY HolderFrom
  <2> QED BY <2>1 DEF HolderOf, HoldersOf, TheOne
<1>4. Claimant(c)' \in Worker \cup {NoOwner}
  BY DEF Claimant, ClaimsOf, TheOne
<1> QED BY <1>1, <1>2, <1>3, <1>4, NewVersionMaps DEF Writes

\* The answer to a renewal makes its claimant the holder, of that lease alone.
LEMMA AnswerMaps ==
  ASSUME TypeOK, FencingInv, [Next]_vars, \A k \in Key : table'[k] = table[k],
         NEW w \in Worker, NEW c \in Key, Current(owned[w][c])', ~Current(owned[w][c])
  PROVE  Fencing!FencingNext
<1>1. PICK s \in RenewSlot : Acquires(w, c, s)
  BY AcquireStep
<1>2. \A k \in Key : VersionOf(k)' = VersionOf(k)
  BY DEF VersionOf
<1>3. \A k \in Key \ {c} : Claimant(k)' = Claimant(k) /\ HolderOf(k)' = HolderOf(k)
  <2> SUFFICES ASSUME NEW k \in Key \ {c}
               PROVE  Claimant(k)' = Claimant(k) /\ HolderOf(k)' = HolderOf(k)
    OBVIOUS
  <2>1. \A v \in Worker : owned'[v][k] = owned[v][k]
    BY <1>1 DEF Acquires, TypeOK, RenewerTypeOK, LeaseMap
  <2>2. \A v \in Worker, t \in RenewSlot : renewals'[v][k][t] = renewals[v][k][t]
    BY <1>1 DEF Acquires, TypeOK, RenewerTypeOK
  <2> QED BY <2>1, <2>2, Untouched
<1>4. Claimant(c) = w
  <2>1. w \in ClaimsOf(c)
    BY <1>1 DEF Acquires, ClaimsOf, Claim
  <2> QED BY <2>1, OneOfEach, TheOneIs DEF Claimant
<1>5. Claimant(c)' = NoOwner
  <2>1. ASSUME NEW v \in Worker, NEW t \in RenewSlot, Claim(v, c, t)' PROVE FALSE
    <3>1. Claim(v, c, t)
      BY <2>1, ClaimFrom
    <3>2. v = w /\ t = s
      BY <1>1, <3>1 DEF Acquires, FencingInv, ClaimUnique
    <3>3. renewals'[w][c][s] = NoCall
      BY <1>1 DEF Acquires, TypeOK, RenewerTypeOK
    <3> QED BY <2>1, <3>2, <3>3 DEF Claim, InCall
  <2>2. ClaimsOf(c)' = {}
    BY <2>1 DEF ClaimsOf, Claim
  <2> QED BY <2>2 DEF Claimant, TheOne
<1>6. HolderOf(c)' = w
  <2>1. ASSUME NEW v \in Worker, Current(owned[v][c])' PROVE v = w
    <3>1. ~Current(owned[v][c])
      BY <1>1 DEF Acquires, FencingInv, ClaimUnique
    <3>2. PICK t \in RenewSlot : Claim(v, c, t)
      BY <2>1, <3>1, HolderFrom
    <3> QED BY <1>1, <3>2 DEF Acquires, FencingInv, ClaimUnique
  <2>2. HoldersOf(c)' = {w}
    BY <2>1 DEF HoldersOf
  <2> QED BY <2>2 DEF HolderOf, TheOne
<1>7. w # NoOwner
  BY LeaseAssumption
<1> QED BY <1>2, <1>3, <1>4, <1>5, <1>6, <1>7, AcquireMaps

\* A step that neither writes nor makes a holder loses claims and holders.
LEMMA LossMaps ==
  ASSUME TypeOK, FencingInv, [Next]_vars, \A k \in Key : table'[k] = table[k],
         \A w \in Worker, k \in Key : Current(owned[w][k])' => Current(owned[w][k])
  PROVE  Fencing!FencingNext
<1>1. \A k \in Key : VersionOf(k)' = VersionOf(k)
  BY DEF VersionOf
<1>2. ASSUME NEW k \in Key
      PROVE  Claimant(k)' \in {Claimant(k), NoOwner} /\ HolderOf(k)' \in {HolderOf(k), NoOwner}
  <2>1. \A w \in Worker, s \in RenewSlot : Claim(w, k, s)' => Claim(w, k, s)
    BY ClaimFrom
  <2>2. ClaimsOf(k)' \subseteq ClaimsOf(k) /\ HoldersOf(k)' \subseteq HoldersOf(k)
    BY <2>1 DEF ClaimsOf, Claim, HoldersOf
  <2>3. /\ ClaimsOf(k) \subseteq Worker /\ HoldersOf(k) \subseteq Worker
        /\ \A v, w \in ClaimsOf(k) : v = w
        /\ \A v, w \in HoldersOf(k) : v = w
    BY OneOfEach
  <2>4. TheOne(ClaimsOf(k)') \in {TheOne(ClaimsOf(k)), NoOwner}
    BY <2>2, <2>3, TheOneShrinks
  <2>5. TheOne(HoldersOf(k)') \in {TheOne(HoldersOf(k)), NoOwner}
    BY <2>2, <2>3, TheOneShrinks
  <2> QED BY <2>4, <2>5 DEF Claimant, HolderOf, TheOne
<1> QED BY <1>1, <1>2, ForgetMaps

\* In the initial states nothing is written, claimed or held.
LEMMA InitMaps == Init => Fencing!FencingInit
<1> SUFFICES ASSUME Init PROVE Fencing!FencingInit
  OBVIOUS
<1>1. ASSUME NEW k \in Key PROVE VersionOf(k) = 0 /\ Claimant(k) = NoOwner /\ HolderOf(k) = NoOwner
  <2>1. table[k] = NoItem
    BY DEF Init, TableInit
  <2>2. \A w \in Worker : owned[w][k] = NoLease
    BY DEF Init, RenewerInit, EmptyMap
  <2>3. \A w \in Worker, s \in RenewSlot : renewals[w][k][s] = NoCall
    BY DEF Init, RenewerInit, NoRenewals
  <2>4. ClaimsOf(k) = {} /\ HoldersOf(k) = {}
    BY <2>2, <2>3 DEF ClaimsOf, HoldersOf, InCall, Current
  <2> QED BY <2>1, <2>4 DEF VersionOf, Claimant, HolderOf, TheOne
<1> QED BY <1>1 DEF Fencing!FencingInit, Claimant, HolderOf

\* Every step maps to a step of LeaseFencing.
LEMMA StepMaps ==
  ASSUME TypeOK, FencingInv, [Next]_vars
  PROVE  Fencing!FencingNext
<1>1. CASE \E c \in Key : table'[c] # table[c]
  BY <1>1, WriteMaps
<1>2. CASE \A k \in Key : table'[k] = table[k]
  <2>1. CASE \E w \in Worker, c \in Key : Current(owned[w][c])' /\ ~Current(owned[w][c])
    BY <1>2, <2>1, AnswerMaps
  <2>2. CASE \A w \in Worker, c \in Key : Current(owned[w][c])' => Current(owned[w][c])
    BY <1>2, <2>2, LossMaps
  <2> QED BY <2>1, <2>2
<1> QED BY <1>1, <1>2

\* Any number of coordinators, with all their crashes and late requests, keep
\* the promise of LeaseFencing.
THEOREM CoordinatorsImplementFencing == Spec => FencingHolds
<1>1. TypeOK /\ FencingInv /\ [Next]_vars => [Fencing!FencingNext]_(Fencing!fencingVars)
  BY StepMaps
<1> QED BY <1>1, InitMaps, TypeCorrect, FencingInvariant, PTL
        DEF Spec, FencingHolds, Fencing!FencingSpec

------------------------------------------------------------------------------
(* 3. No lease is taken early: a taker that takes a lease because it        *)
(* expired does so more than LeaseDuration after the last write of its      *)
(* item, as long as the clock is not set back.  The stamp a taker gives a   *)
(* listed lease lies between that write and now, however old the listing.   *)

\* The clock advances, and a write of an item is dated by it.
Dated(k) ==
  \/ lastWrite'[k] = lastWrite[k]
  \/ lastWrite'[k] = now /\ now' = now /\ table'[k] # table[k]

\* A write by an applied update is dated, and changes the item.
LEMMA ApplyDated ==
  ASSUME TypeOK, NEW l \in LeaseState, NEW w \in Worker,
         ApplyRenew(l) \/ ApplyTake(l, w), NEW k \in Key
  PROVE  now' = now /\ Dated(k)
<1>1. Written(l)
  BY ApplyWrites
<1>2. table'[l.key] # table[l.key]
  BY <1>1 DEF Written, LeaseState
<1>3. now' = now /\ lastWrite' = [lastWrite EXCEPT ![l.key] = now]
  BY DEF ApplyRenew, ApplyTake, Write
<1> QED BY <1>2, <1>3 DEF Dated, TypeOK, TableTypeOK

\* A renewal is an update whatever the other worker would be.
LEMMA ApplyRenewDated ==
  ASSUME TypeOK, NEW l \in LeaseState, ApplyRenew(l), NEW k \in Key
  PROVE  now' = now /\ Dated(k)
<1>1. Updated(l.key) /\ l.key \in Key
  BY ApplyRenewGrows DEF LeaseState
<1>2. table'[l.key] # table[l.key]
  BY <1>1 DEF Updated, Item
<1>3. now' = now /\ lastWrite' = [lastWrite EXCEPT ![l.key] = now]
  BY DEF ApplyRenew, Write
<1> QED BY <1>2, <1>3 DEF Dated, TypeOK, TableTypeOK

\* No step moves the clock back or a write's date off the clock.
LEMMA ClockStep ==
  ASSUME ~ClockMayStepBack, TypeOK, [Next]_vars, NEW k \in Key
  PROVE  now' >= now /\ Dated(k)
<1>0. now \in Nat
  BY DEF TypeOK, TableTypeOK
<1>1. ASSUME now' = now, lastWrite' = lastWrite PROVE now' >= now /\ Dated(k)
  BY <1>0, <1>1 DEF Dated
<1>2. CASE TableNext
  <2>1. CASE Tick
    BY <1>0, <2>1 DEF Tick, Dated
  <2>2. CASE ClockSetBack
    BY <2>2 DEF ClockSetBack
  <2>3. ASSUME NEW req \in orphans, OrphanApplied(req)
        PROVE  now' >= now /\ Dated(k)
    <3>1. req.lease \in LeaseState /\ req.newOwner \in Owner
      BY DEF TypeOK, TableTypeOK, Request
    <3>2. CASE req.newOwner = NoOwner
      BY <1>0, <2>3, <3>1, <3>2, ApplyRenewDated DEF OrphanApplied
    <3>3. CASE req.newOwner # NoOwner
      <4>1. req.newOwner \in Worker
        BY <3>1, <3>3 DEF Owner
      <4> QED BY <1>0, <2>3, <3>1, <3>3, <4>1, ApplyDated DEF OrphanApplied
    <3> QED BY <3>2, <3>3
  <2>4. ASSUME NEW req \in orphans, OrphanLost(req)
        PROVE  now' >= now /\ Dated(k)
    BY <1>1, <2>4 DEF OrphanLost
  <2>5. ASSUME NEW j \in Key, NEW owner \in Owner, NEW stamp \in {NoTime, now},
               CreateLeaseIfNotExists(j, owner, stamp)
        PROVE  now' >= now /\ Dated(k)
    <3>1. ToDynamoDict(owner, NoCounter, stamp) \in Item
      BY DEF ToDynamoDict, Item, TypeOK, TableTypeOK
    <3>2. table'[j] # table[j] /\ now' = now /\ lastWrite' = [lastWrite EXCEPT ![j] = now]
      BY <2>5, <3>1, SentinelAssumption DEF CreateLeaseIfNotExists, Write, TypeOK, TableTypeOK
    <3> QED BY <1>0, <3>2 DEF Dated, TypeOK, TableTypeOK
  <2> QED BY <1>2, <2>1, <2>2, <2>3, <2>4, <2>5 DEF TableNext
<1>3. ASSUME NEW w \in Worker, ControlStep(w)
      PROVE  now' >= now /\ Dated(k)
  BY <1>1, <1>3 DEF ControlStep, Start, Stop, StopTimers, StopAborts, RunRenewer, RunRenewLeases,
                    RenewLeases, Crash, SetCheckpoint, Dies, tableVars
<1>4. ASSUME NEW w \in Worker, InitStep(w)
      PROVE  now' >= now /\ Dated(k)
  BY <1>1, <1>4 DEF InitStep, InitScanned, InitScanFailed, InitListed, tableVars
<1>5. ASSUME NEW w \in Worker, NEW j \in Key, NEW s \in RenewSlot, RenewalStep(w, j, s)
      PROVE  now' >= now /\ Dated(k)
  <2>1. CASE RenewApplied(w, j, s)
    BY <1>0, <2>1, InCallType, ApplyRenewDated DEF RenewApplied, TypeOK
  <2>2. CASE ~RenewApplied(w, j, s)
    BY <1>1, <1>5, <2>2 DEF RenewalStep, RenewLease, RenewFailed, RenewDone, tableVars
  <2> QED BY <2>1, <2>2
<1>6. ASSUME NEW w \in Worker, NEW r \in Round, RoundStep(w, r)
      PROVE  now' >= now /\ Dated(k)
  BY <1>1, <1>6 DEF RoundStep, RoundAnswered, RunTaker, TakeLeases, TakerAborts, Dies, RoundScanned, RoundListed,
                    tableVars
<1>7. ASSUME NEW w \in Worker, NEW r \in Round, NEW j \in Key, TakeStep(w, r, j)
      PROVE  now' >= now /\ Dated(k)
  <2>1. CASE TakeApplied(w, r, j)
    BY <1>0, <2>1, InTakeType, ApplyDated DEF TakeApplied, TypeOK
  <2>2. CASE ~TakeApplied(w, r, j)
    BY <1>1, <1>7, <2>2 DEF TakeStep, TakeFailed, TakerDone, TakeDone, tableVars
  <2> QED BY <2>1, <2>2
<1>8. CASE UNCHANGED vars
  BY <1>1, <1>8 DEF vars, tableVars
<1> QED BY <1>2, <1>3, <1>4, <1>5, <1>6, <1>7, <1>8 DEF Next

\* A reached copy that is current after a step is of an item not written by it.
LEMMA CurrentKept ==
  ASSUME TypeOK, TableGrows, NEW l \in LeaseState, Reached(l), Current(l)'
  PROVE  table'[l.key] = table[l.key] /\ Current(l)
<1>1. l.key \in Key /\ l.counter \in Nat /\ l # NoLease
  BY SentinelAssumption DEF LeaseState
<1>2. ~Overtaken(l)'
  BY <1>1 DEF Overtaken, Current
<1>3. table'[l.key] = table[l.key]
  BY <1>2, ReachedStable
<1> QED BY <1>1, <1>3 DEF Current

\* A listing holds no lease without an owner.
LEMMA ListedOwned ==
  ASSUME TypeOK, NEW l \in ListLeases(table)
  PROVE  l.owner # NoOwner
BY DEF ListLeases, FromDynamoDict, Deserializes

\* An expired lease whose stamp is not in the future is older than its
\* duration.
LEMMA ExpiredAge ==
  ASSUME LeaseDuration <= MaxLeaseAge, NEW t \in Nat, NEW l \in LeaseState,
         l.inc # NoTime, l.inc <= t, IsExpired(l, t)
  PROVE  l.inc + LeaseDuration < t
<1>1. l.inc \in Nat /\ Age(l.inc, t) = t - l.inc
  BY DEF LeaseState, Age
<1>2. t - l.inc > LeaseDuration
  BY <1>1, LeaseAssumption DEF IsExpired
<1> QED BY <1>1, <1>2, LeaseAssumption

------------------------------------------------------------------------------

\* A stamp stays sound: it is kept, or set when a new version is first listed.
LEMMA StampStep ==
  ASSUME ~ClockMayStepBack, TypeOK, FencingInv, StampsSound, [Next]_vars,
         NEW v \in Worker, NEW k \in Key, seen'[v][k] # NoLease
  PROVE  /\ seen'[v][k].inc # NoTime
         /\ seen'[v][k].inc <= now'
         /\ Current(seen[v][k])' => lastWrite'[k] <= seen'[v][k].inc
<1>0. SeenFrom(v, k) /\ TableGrows /\ now' >= now /\ Dated(k)
  BY SeenStep, TableStep, ClockStep
<1>t. now \in Nat /\ now' \in Nat /\ lastWrite[k] \in Nat /\ lastWrite[k] <= now
  BY TypeStep DEF TypeOK, TableTypeOK, StampsSound
<1>1. CASE seen'[v][k] = seen[v][k]
  <2>1. PICK l \in LeaseState : l = seen[v][k] /\ l.key = k /\ Reached(l)
    BY <1>1, CopyTypes DEF FencingInv, CopiesKeyed, SeenReached
  <2>2. l.inc # NoTime /\ l.inc <= now /\ (Current(l) => lastWrite[k] <= l.inc) /\ l.inc \in Nat
    BY <1>1, <2>1 DEF StampsSound, LeaseState
  <2>3. ASSUME Current(seen[v][k])' PROVE lastWrite'[k] <= l.inc
    <3>1. Current(l)'
      BY <1>1, <2>1, <2>3 DEF Current
    <3>2. table'[k] = table[k] /\ Current(l)
      BY <1>0, <2>1, <3>1, CurrentKept
    <3> QED BY <1>0, <2>2, <3>2 DEF Dated
  <2> QED BY <1>0, <1>1, <1>t, <2>1, <2>2, <2>3
<1>2. ASSUME NEW r \in Round, tableVars' = tableVars,
             ListedFrom(seen[v], rounds[v][r].page, k, seen'[v][k])
      PROVE  /\ seen'[v][k].inc # NoTime
             /\ seen'[v][k].inc <= now'
             /\ Current(seen[v][k])' => lastWrite'[k] <= seen'[v][k].inc
  <2>1. PICK l \in LeaseState :
          /\ l.key = k
          /\ l.owner # NoOwner
          /\ seen'[v][k] = [l EXCEPT !.inc = StampOf(seen[v][k], l, now)]
    BY <1>2, CopyTypes DEF ListedFrom, StampsSound
  <2> DEFINE old == seen[v][k]
  <2>2. /\ seen'[v][k].inc = StampOf(old, l, now)
        /\ seen'[v][k].key = k
        /\ seen'[v][k].counter = l.counter
    BY <2>1 DEF LeaseState
  <2>3. now' = now /\ table' = table /\ lastWrite' = lastWrite
    BY <1>2 DEF tableVars
  <2>4. CASE old = NoLease \/ old.counter # l.counter
    <3>1. StampOf(old, l, now) = now
      BY <2>1, <2>4 DEF StampOf
    <3> QED BY <1>t, <2>2, <2>3, <3>1, LeaseAssumption
  <2>5. CASE old # NoLease /\ old.counter = l.counter
    <3>1. StampOf(old, l, now) = old.inc
      BY <2>5 DEF StampOf
    <3>2. old.inc # NoTime /\ old.inc <= now /\ (Current(old) => lastWrite[k] <= old.inc)
      BY <2>5 DEF StampsSound
    <3>3. Current(seen[v][k])' => Current(old)
      BY <2>2, <2>3, <2>5 DEF Current, FencingInv, CopiesKeyed
    <3> QED BY <2>2, <2>3, <3>1, <3>2, <3>3
  <2> QED BY <2>4, <2>5
<1> QED BY <1>0, <1>1, <1>2 DEF SeenFrom

\* The invariant of the expiry argument is inductive relative to the others.
LEMMA StampsStep ==
  ASSUME ~ClockMayStepBack, LeaseDuration <= MaxLeaseAge,
         TypeOK, FencingInv, StampsSound, [Next]_vars
  PROVE  StampsSound'
<1>0. TableGrows /\ \A k \in Key : now' >= now /\ Dated(k)
  BY TableStep, ClockStep
<1>t. TypeOK /\ TypeOK' /\ now \in Nat /\ now' \in Nat
  BY TypeStep DEF TypeOK, TableTypeOK
<1>1. ASSUME NEW k \in Key PROVE lastWrite'[k] <= now'
  BY <1>0, <1>t DEF Dated, StampsSound, TypeOK, TableTypeOK
<1>2. ASSUME NEW v \in Worker, NEW r \in Round, NEW l \in rounds'[v][r].page
      PROVE  l.owner # NoOwner
  BY RoundPageStep, ListedOwned DEF PageFrom, StampsSound
<1>3. ASSUME NEW v \in Worker, NEW k \in Key, seen'[v][k] # NoLease
      PROVE  /\ seen'[v][k].inc # NoTime
             /\ seen'[v][k].inc <= now'
             /\ Current(seen[v][k])' => lastWrite'[k] <= seen'[v][k].inc
  BY <1>3, StampStep
<1>4. ASSUME NEW v \in Worker, NEW r \in Round, NEW k \in Key,
             InTake(v, r, k, "sent")', rounds'[v][r].takes[k].expired,
             Current(rounds[v][r].takes[k].lease)'
      PROVE  lastWrite'[k] + LeaseDuration < now'
  <2>1. TakeFrom(v, r, k)
    BY TakeStepFrom
  <2>2. CASE rounds'[v][r].takes[k] = rounds[v][r].takes[k]
    <3>0. InTake(v, r, k, "sent") /\ rounds[v][r].takes[k] # NoTake
      BY <1>4, <2>2 DEF InTake
    <3>a. rounds[v][r].takes[k].lease \in LeaseState
      BY <3>0, CopyTypes
    <3>b. rounds[v][r].takes[k].lease.key = k
      BY <3>0 DEF FencingInv, CopiesKeyed
    <3>c. Reached(rounds[v][r].takes[k].lease)
      BY <3>0 DEF FencingInv, TakesReached
    <3>1. PICK l \in LeaseState : l = rounds[v][r].takes[k].lease /\ l.key = k /\ Reached(l)
      BY <3>a, <3>b, <3>c
    <3>2. Current(l)'
      BY <1>4, <2>2, <3>1 DEF Current
    <3>3. table'[k] = table[k] /\ Current(l)
      BY <1>0, <3>1, <3>2, CurrentKept
    <3>4. lastWrite[k] + LeaseDuration < now
      BY <1>4, <2>2, <3>1, <3>3 DEF InTake, StampsSound
    <3>5. lastWrite'[k] = lastWrite[k] /\ lastWrite[k] \in Nat
      BY <1>0, <3>3 DEF Dated, TypeOK, TableTypeOK
    <3> QED BY <1>0, <1>t, <3>4, <3>5, LeaseAssumption
  <2>3. CASE /\ seen'[v][k] # NoLease
             /\ tableVars' = tableVars
             /\ rounds'[v][r].takes[k].lease = seen'[v][k]
             /\ IsExpired(seen'[v][k], now)
    <3>1. PICK l \in LeaseState : l = seen'[v][k]
      BY <1>t, <2>3 DEF TypeOK, TakerTypeOK, LeaseMap
    <3>2. now' = now /\ lastWrite'[k] \in Nat
      BY <1>t, <2>3 DEF tableVars, TypeOK, TableTypeOK
    <3>3. l.inc # NoTime /\ l.inc <= now /\ lastWrite'[k] <= l.inc
      BY <1>3, <1>4, <2>3, <3>1, <3>2 DEF Current
    <3>4. l.inc + LeaseDuration < now
      BY <1>t, <2>3, <3>1, <3>3, ExpiredAge
    <3> QED BY <1>t, <3>2, <3>3, <3>4, LeaseAssumption DEF LeaseState
  <2> QED BY <1>4, <2>1, <2>2, <2>3 DEF TakeFrom, InTake
<1> QED BY <1>1, <1>2, <1>3, <1>4 DEF StampsSound

\* Nothing is stamped at first.
LEMMA StampsInit == Init => StampsSound
<1> SUFFICES ASSUME Init PROVE StampsSound
  OBVIOUS
<1>1. \A k \in Key : lastWrite[k] <= now
  BY DEF Init, TableInit
<1>2. \A w \in Worker, k \in Key : seen[w][k] = NoLease
  BY DEF Init, TakerInit, EmptyMap
<1>3. \A w \in Worker, r \in Round : rounds[w][r] = IdleRound
  BY DEF Init, TakerInit
<1>4. \A w \in Worker, r \in Round, k \in Key :
        rounds[w][r].page = {} /\ rounds[w][r].takes[k] = NoTake
  BY <1>3, IdleTakes
<1>5. \A w \in Worker, r \in Round : rounds[w][r].page = {}
  BY <1>3, IdleTakes
<1> QED BY <1>1, <1>2, <1>4, <1>5 DEF StampsSound, InTake

\* As long as the clock is not set back, every stamp a taker keeps lies between
\* the last write of the version it saw and now.
THEOREM StampsAreSound ==
  ASSUME ~ClockMayStepBack, LeaseDuration <= MaxLeaseAge
  PROVE  Spec => []StampsSound
<1>1. TypeOK /\ FencingInv /\ StampsSound /\ [Next]_vars => StampsSound'
  BY StampsStep
<1> QED BY <1>1, StampsInit, TypeCorrect, FencingInvariant, PTL DEF Spec

\* A lease taken because it expired was not written by anyone for longer than
\* LeaseDuration, however late the taker's listings came.
THEOREM NoTakeIsEarly ==
  ASSUME ~ClockMayStepBack, LeaseDuration <= MaxLeaseAge
  PROVE  Spec => NoEarlyTake
<1> DEFINE Early(w, r, k) ==
             /\ InTake(w, r, k, "sent")
             /\ rounds[w][r].takes[k].expired
             /\ rounds'[w][r].takes[k] # rounds[w][r].takes[k]
             /\ table'[k] # table[k]
<1>1. ASSUME TypeOK, FencingInv, StampsSound, [Next]_vars,
             NEW w \in Worker, NEW r \in Round, NEW k \in Key, Early(w, r, k)
      PROVE  now > lastWrite[k] + LeaseDuration
  <2>1. TakeFrom(w, r, k)
    BY <1>1, TakeStepFrom
  <2>2. PICK l \in LeaseState : l = rounds[w][r].takes[k].lease /\ l.key = k
    BY <1>1, CopyTypes DEF InTake, FencingInv, CopiesKeyed
  <2>3. ApplyTake(l, w)
    BY <1>1, <2>1, <2>2 DEF TakeFrom, tableVars, InTake
  <2>4. Written(l)
    BY <1>1, <2>3, ApplyWrites
  <2>5. Current(l)
    BY <2>2, <2>4, SentinelAssumption DEF Written, Current
  <2>6. lastWrite[k] + LeaseDuration < now
    BY <1>1, <2>2, <2>5 DEF StampsSound
  <2> QED BY <1>1, <2>6, LeaseAssumption DEF TypeOK, TableTypeOK
<1>2. TypeOK /\ FencingInv /\ StampsSound /\ [Next]_vars =>
        [\A w \in Worker, r \in Round, k \in Key :
           Early(w, r, k) => now > lastWrite[k] + LeaseDuration]_vars
  BY <1>1
<1> QED BY <1>2, TypeCorrect, FencingInvariant, StampsAreSound, PTL DEF Spec, NoEarlyTake

------------------------------------------------------------------------------
(* 4. Every write of an item is counted, and every change of its owner: a   *)
(* copy that agrees with the table in its counter agrees in its number of   *)
(* switches, so that the write that gives the lease to another worker       *)
(* raises the number that the table holds.                                  *)

\* A copy that agrees with the table goes on doing so.
LEMMA CountedStable ==
  ASSUME TypeOK, TableGrows, NEW l \in LeaseState, Reached(l), Counted(l)
  PROVE  Reached(l)' /\ Counted(l)'
<1>1. Reached(l)'
  BY ReachedStable
<1>2. ASSUME Current(l)' PROVE l.switches = table'[l.key].switches
  BY <1>2, CurrentKept DEF Counted
<1> QED
  BY <1>1, <1>2 DEF Counted

\* What an applied update writes, when the copy it was built from agrees.
LEMMA ApplyCounted ==
  ASSUME TypeOK, NEW l \in LeaseState, Counted(l), NEW w,
         ApplyRenew(l) \/ ApplyTake(l, w), NEW k \in Key, table'[k] # table[k]
  PROVE  /\ k = l.key
         /\ table'[k].counter = table[k].counter + 1
         /\ table'[k].switches =
              table[k].switches + (IF table'[k].owner = table[k].owner THEN 0 ELSE 1)
         /\ ApplyRenew(l) => table'[k].switches = l.switches
<1> DEFINE item == table[l.key]
<1>1. l.key \in Key /\ item \in Item /\ CASHolds(item, l) /\ l # NoLease
  BY SentinelAssumption
     DEF ApplyRenew, ApplyTake, Applicable, CASHolds, TypeOK, TableTypeOK, LeaseState
<1>2. item.owner = l.owner /\ item.counter = l.counter /\ item.switches = l.switches
  BY <1>1 DEF CASHolds, Counted, Current
<1>3. item.switches \in Nat /\ item.counter \in Nat
  BY <1>1 DEF Item
<1>4. k = l.key
  BY <1>1 DEF ApplyRenew, ApplyTake, Write, TypeOK, TableTypeOK
<1>5. CASE ApplyRenew(l)
  <2>1. table'[k] = RenewValues(item, l)
    BY <1>1, <1>4, <1>5 DEF ApplyRenew, Write, TypeOK, TableTypeOK
  <2>2. /\ table'[k].counter = l.counter + 1
        /\ table'[k].switches = item.switches
        /\ table'[k].owner = item.owner
    BY <1>1, <2>1 DEF RenewValues, Item
  <2> QED
    BY <1>2, <1>3, <1>4, <2>2
<1>6. CASE ApplyTake(l, w) /\ ~ApplyRenew(l)
  <2>1. table'[k] = TakeValues(item, l, w)
    BY <1>1, <1>4, <1>6 DEF ApplyTake, Write, TypeOK, TableTypeOK
  <2>2. CASE l.owner = w
    <3>1. /\ table'[k].counter = l.counter + 1
          /\ table'[k].switches = item.switches
          /\ table'[k].owner = item.owner
      BY <1>1, <2>1, <2>2 DEF TakeValues, RenewValues, Item
    <3> QED
      BY <1>2, <1>3, <1>4, <1>6, <3>1
  <2>3. CASE l.owner # w
    <3>1. /\ table'[k].counter = l.counter + 1
          /\ table'[k].switches = l.switches + 1
          /\ table'[k].owner = w
      BY <1>1, <2>1, <2>3 DEF TakeValues, Item
    <3> QED
      BY <1>2, <1>3, <1>4, <1>6, <2>3, <3>1
  <2> QED
    BY <2>2, <2>3
<1> QED
  BY <1>5, <1>6

\* A request on the wire was there, or its call has just been given up.
LEMMA OrphanStep ==
  ASSUME TypeOK, [Next]_vars, NEW req \in orphans'
  PROVE  \/ req \in orphans
         \/ \E v \in Worker, k \in Key, s \in RenewSlot :
              InCall(v, k, s, "sent") /\ req.lease = renewals[v][k][s].lease
         \/ \E v \in Worker, r \in Round, k \in Key :
              InTake(v, r, k, "sent") /\ req.lease = rounds[v][r].takes[k].lease
<1> SUFFICES ASSUME req \notin orphans
             PROVE  \/ \E v \in Worker, k \in Key, s \in RenewSlot :
                         InCall(v, k, s, "sent") /\ req.lease = renewals[v][k][s].lease
                    \/ \E v \in Worker, r \in Round, k \in Key :
                         InTake(v, r, k, "sent") /\ req.lease = rounds[v][r].takes[k].lease
  OBVIOUS
<1>1. orphans' # orphans
  OBVIOUS
<1>2. ASSUME NEW w \in Worker, Dies(w)
      PROVE  \/ \E v \in Worker, k \in Key, s \in RenewSlot :
                  InCall(v, k, s, "sent") /\ req.lease = renewals[v][k][s].lease
             \/ \E v \in Worker, r \in Round, k \in Key :
                  InTake(v, r, k, "sent") /\ req.lease = rounds[v][r].takes[k].lease
  <2>1. CASE req \in RenewRequests(w)
    <3>1. PICK k \in Key, s \in RenewSlot : InCall(w, k, s, "sent") /\ req = RenewRequest(w, k, s)
      BY <2>1 DEF RenewRequests
    <3>2. req.lease = renewals[w][k][s].lease
      BY <3>1 DEF RenewRequest
    <3> QED
      BY <3>1, <3>2
  <2>2. CASE req \in TakeRequests(w)
    <3>1. PICK r \in Round, k \in Key : InTake(w, r, k, "sent") /\ req = TakeRequest(w, r, k)
      BY <2>2 DEF TakeRequests
    <3>2. req.lease = rounds[w][r].takes[k].lease
      BY <3>1 DEF TakeRequest
    <3> QED
      BY <3>1, <3>2
  <2> QED
    BY <1>2, <2>1, <2>2 DEF Dies
<1>3. ~(TableNext /\ UNCHANGED <<renewerVars, takerVars, controlVars>>)
  BY <1>1 DEF TableNext, Tick, ClockSetBack, OrphanApplied, OrphanLost, CreateLeaseIfNotExists
<1>4. ASSUME NEW w \in Worker, ControlStep(w) PROVE Dies(w)
  BY <1>1, <1>4 DEF ControlStep, Start, Stop, StopTimers, StopAborts, RunRenewer, RunRenewLeases,
                    RenewLeases, Crash, SetCheckpoint, tableVars
<1>5. ASSUME NEW w \in Worker, InitStep(w) PROVE FALSE
  BY <1>1, <1>5 DEF InitStep, InitScanned, InitScanFailed, InitListed, tableVars
<1>6. ASSUME NEW w \in Worker, NEW k \in Key, NEW s \in RenewSlot, RenewalStep(w, k, s)
      PROVE  InCall(w, k, s, "sent") /\ req.lease = renewals[w][k][s].lease
  <2>1. RenewFailed(w, k, s)
    BY <1>1, <1>6 DEF RenewalStep, RenewLease, RenewApplied, RenewDone, tableVars
  <2> QED
    BY <2>1 DEF RenewFailed, GiveUpOn, RenewRequest
<1>7. ASSUME NEW w \in Worker, NEW r \in Round, RoundStep(w, r) PROVE Dies(w)
  BY <1>1, <1>7 DEF RoundStep, RoundAnswered, RunTaker, TakeLeases, TakerAborts, RoundScanned,
                    RoundListed, tableVars
<1>8. ASSUME NEW w \in Worker, NEW r \in Round, NEW k \in Key, TakeStep(w, r, k)
      PROVE  InTake(w, r, k, "sent") /\ req.lease = rounds[w][r].takes[k].lease
  <2>1. TakeFailed(w, r, k)
    BY <1>1, <1>8 DEF TakeStep, TakeApplied, TakerDone, TakeDone, tableVars
  <2> QED
    BY <2>1 DEF TakeFailed, GiveUpOn, TakeRequest
<1>9. ~UNCHANGED vars
  BY <1>1 DEF vars, tableVars
<1> QED
  BY <1>2, <1>3, <1>4, <1>5, <1>6, <1>7, <1>8, <1>9 DEF Next

\* A listing agrees with the table it lists.
LEMMA ListedCounted ==
  ASSUME TypeOK, NEW l \in ListLeases(table)
  PROVE  Counted(l)
<1>1. PICK k \in ScannedKeys(table) : l = FromDynamoDict(k, table[k])
  BY DEF ListLeases
<1> QED
  BY <1>1 DEF FromDynamoDict, Counted

\* No step lets a copy of the item's version disagree with the item.
LEMMA CountedStep ==
  ASSUME TypeOK, FencingInv, SwitchesCounted, [Next]_vars
  PROVE  SwitchesCounted'
<1>0. TableGrows
  BY TableStep
<1>c. ASSUME NEW l \in LeaseState, Reached(l), Counted(l) PROVE Reached(l)' /\ Counted(l)'
  BY <1>0, <1>c, CountedStable
<1>p. ASSUME NEW old \in SUBSET LeaseState, NEW new, \A l \in old : Reached(l) /\ Counted(l),
             PageFrom(old, new)
      PROVE  \A l \in new : Counted(l)'
  BY <1>p, <1>c, ListedReached, ListedCounted DEF PageFrom
<1>1. ASSUME NEW v \in Worker, NEW k \in Key PROVE Counted(owned[v][k])'
  <2>0. OwnedFrom(v, k)
    BY OwnedStep
  <2>1. ASSUME NEW l \in LeaseState, Reached(l), Counted(l), owned'[v][k] = l
        PROVE  Counted(owned[v][k])'
    <3>1. Counted(l)'
      BY <1>c, <2>1
    <3> QED
      BY <2>1, <3>1 DEF Counted, Current
  <2>2. CASE owned'[v][k] = NoLease
    BY <2>2 DEF Counted, Current
  <2>3. CASE owned'[v][k] = owned[v][k] /\ owned[v][k] # NoLease
    <3>1. Reached(owned[v][k]) /\ Counted(owned[v][k]) /\ owned[v][k] \in LeaseState
      BY <2>3, CopyTypes DEF FencingInv, OwnedReached, SwitchesCounted
    <3> QED
      BY <2>1, <2>3, <3>1
  <2>4. ASSUME NEW j \in Key, NEW s \in RenewSlot, InCall(v, j, s, "ok"),
               owned'[v][k] = RenewResult(renewals[v][j][s].lease)
        PROVE  Counted(owned[v][k])'
    <3>1. RenewResult(renewals[v][j][s].lease) \in LeaseState
      BY <2>4, CopyTypes, RenewResultType DEF InCall
    <3>2. /\ Reached(RenewResult(renewals[v][j][s].lease))
          /\ Counted(RenewResult(renewals[v][j][s].lease))
      BY <2>4 DEF FencingInv, RenewalsReached, SwitchesCounted
    <3> QED
      BY <2>1, <2>4, <3>1, <3>2
  <2>5. ASSUME NEW r \in Round, NEW j \in Key,
               InTake(v, r, j, "taken") \/ InTake(v, r, j, "ok"),
               owned'[v][k] = rounds[v][r].takes[j].lease
        PROVE  Counted(owned[v][k])'
    <3>1. rounds[v][r].takes[j].lease \in LeaseState
      BY <2>5, CopyTypes DEF InTake
    <3>2. Overtaken(rounds[v][r].takes[j].lease)
      BY <2>5 DEF FencingInv, TakesReached
    <3>3. Reached(rounds[v][r].takes[j].lease) /\ Counted(rounds[v][r].takes[j].lease)
      BY <3>1, <3>2, OvertakenIsReached DEF Counted
    <3> QED
      BY <2>1, <2>5, <3>1, <3>3
  <2> QED
    BY <2>0, <2>2, <2>3, <2>4, <2>5 DEF OwnedFrom
<1>2. ASSUME NEW v \in Worker, NEW k \in Key PROVE Counted(seen[v][k])'
  <2>0. SeenFrom(v, k)
    BY SeenStep
  <2>2. CASE seen'[v][k] = NoLease
    BY <2>2 DEF Counted, Current
  <2>3. CASE seen'[v][k] = seen[v][k] /\ seen[v][k] # NoLease
    <3>1. PICK l \in LeaseState : l = seen[v][k] /\ Reached(l) /\ Counted(l)
      BY <2>3, CopyTypes DEF FencingInv, SeenReached, SwitchesCounted
    <3>2. Counted(l)'
      BY <1>c, <3>1
    <3> QED
      BY <2>3, <3>1, <3>2 DEF Counted, Current
  <2>4. ASSUME NEW r \in Round, ListedFrom(seen[v], rounds[v][r].page, k, seen'[v][k])
        PROVE  Counted(seen[v][k])'
    <3>1. PICK l \in rounds[v][r].page : seen'[v][k] = [l EXCEPT !.inc = StampOf(seen[v][k], l, now)]
      BY <2>4 DEF ListedFrom
    <3>2. l \in LeaseState /\ Reached(l) /\ Counted(l)
      BY CopyTypes DEF FencingInv, PagesReached, SwitchesCounted
    <3>3. Counted(l)' /\ l # NoLease
      BY <1>c, <3>2, SentinelAssumption
    <3>4. /\ seen'[v][k].key = l.key
          /\ seen'[v][k].counter = l.counter
          /\ seen'[v][k].switches = l.switches
      BY <3>1, <3>2 DEF LeaseState
    <3> QED
      BY <3>3, <3>4 DEF Counted, Current
  <2> QED
    BY <2>0, <2>2, <2>3, <2>4 DEF SeenFrom
<1>3. ASSUME NEW v \in Worker PROVE \A l \in init'[v].page : Counted(l)'
  BY <1>p, InitPageStep, CopyTypes DEF FencingInv, PagesReached, SwitchesCounted
<1>4. ASSUME NEW v \in Worker, NEW r \in Round PROVE \A l \in rounds'[v][r].page : Counted(l)'
  BY <1>p, RoundPageStep, CopyTypes DEF FencingInv, PagesReached, SwitchesCounted
<1>5. ASSUME NEW v \in Worker, NEW k \in Key, NEW s \in RenewSlot,
             InCall(v, k, s, "queued")' \/ InCall(v, k, s, "sent")'
      PROVE  Counted(renewals[v][k][s].lease)'
  <2> DEFINE l == renewals'[v][k][s].lease
  <2>1. RenewalFrom(v, k, s)
    BY RenewalStepFrom
  <2>2. ASSUME l \in LeaseState, Reached(l), Counted(l) PROVE Counted(renewals[v][k][s].lease)'
    <3>1. PICK m \in LeaseState : m = l /\ Reached(m) /\ Counted(m)
      BY <2>2 DEF Reached, Counted, Current
    <3>2. Counted(m)'
      BY <1>c, <3>1
    <3> QED
      BY <3>1, <3>2 DEF Counted, Current
  <2>3. CASE /\ l = renewals[v][k][s].lease
             /\ InCall(v, k, s, "queued") \/ InCall(v, k, s, "sent")
    BY <2>2, <2>3, CopyTypes DEF InCall, FencingInv, RenewalsReached, SwitchesCounted
  <2>4. CASE l \in Leases(owned[v])
    BY <2>2, <2>4, CopyTypes DEF Leases, FencingInv, OwnedReached, SwitchesCounted
  <2>5. CASE l \in init[v].page
    BY <2>2, <2>5, CopyTypes DEF FencingInv, PagesReached, SwitchesCounted
  <2>6. CASE renewals'[v][k][s] = renewals[v][k][s]
    BY <1>5, <2>3, <2>6 DEF InCall
  <2> QED
    BY <1>5, <2>1, <2>3, <2>4, <2>5, <2>6 DEF RenewalFrom, InCall
<1>6. ASSUME NEW v \in Worker, NEW k \in Key, NEW s \in RenewSlot, InCall(v, k, s, "ok")'
      PROVE  Counted(RenewResult(renewals[v][k][s].lease))'
  <2> DEFINE l == renewals[v][k][s].lease
  <2>1. RenewalFrom(v, k, s)
    BY RenewalStepFrom
  <2>2. CASE renewals'[v][k][s] = renewals[v][k][s]
    <3>1. InCall(v, k, s, "ok") /\ l \in LeaseState
      BY <1>6, <2>2, CopyTypes DEF InCall
    <3>2. PICK m \in LeaseState : m = RenewResult(l) /\ Reached(m) /\ Counted(m)
      BY <3>1, RenewResultType DEF FencingInv, RenewalsReached, SwitchesCounted
    <3>3. Counted(m)'
      BY <1>c, <3>2
    <3> QED
      BY <2>2, <3>2, <3>3 DEF Counted, Current
  <2>3. CASE /\ InCall(v, k, s, "sent")
             /\ ApplyRenew(l)
             /\ renewals'[v][k][s].lease = l
    <3>1. l \in LeaseState /\ Counted(l)
      BY <2>3, CopyTypes DEF InCall, SwitchesCounted
    <3>2. Written(l)
      <4>1. Updated(l.key)
        BY <2>3, <3>1, ApplyRenewGrows
      <4>2. l.key \in Key /\ CASHolds(table[l.key], l)
        BY <2>3, <3>1 DEF ApplyRenew, Applicable, LeaseState
      <4> QED
        BY <4>1, <4>2, SentinelAssumption DEF Updated, CASHolds, Written
    <3>3. table'[l.key] # table[l.key]
      <4>1. l.counter \in Int
        BY <3>1 DEF LeaseState
      <4>2. table'[l.key].counter = l.counter + 1 /\ table[l.key].counter = l.counter
        BY <3>2 DEF Written
      <4> QED
        BY <4>1, <4>2
    <3>4. table'[l.key].switches = l.switches
      BY <2>3, <3>1, <3>2, <3>3, ApplyCounted DEF Written
    <3> DEFINE m == RenewResult(l)
    <3>5. m.key = l.key /\ m.switches = l.switches
      BY <3>1 DEF RenewResult, IncrementedCounter, LeaseState
    <3> HIDE DEF m
    <3>6. Counted(m)'
      BY <2>3, <3>4, <3>5 DEF Counted, m
    <3> QED
      BY <2>3, <3>6 DEF m
  <2> QED
    BY <1>6, <2>1, <2>2, <2>3 DEF RenewalFrom, InCall
<1>7. ASSUME NEW v \in Worker, NEW r \in Round, NEW k \in Key, InTake(v, r, k, "sent")'
      PROVE  Counted(rounds[v][r].takes[k].lease)'
  <2> DEFINE l == rounds'[v][r].takes[k].lease
  <2>1. TakeFrom(v, r, k)
    BY TakeStepFrom
  <2>2. CASE rounds'[v][r].takes[k] = rounds[v][r].takes[k]
    <3>1. InTake(v, r, k, "sent") /\ l \in LeaseState /\ l = rounds[v][r].takes[k].lease
      BY <1>7, <2>2, CopyTypes DEF InTake
    <3>2. PICK m \in LeaseState : m = l /\ Reached(m) /\ Counted(m)
      BY <3>1 DEF FencingInv, TakesReached, SwitchesCounted
    <3>3. Counted(m)'
      BY <1>c, <3>2
    <3> QED
      BY <3>2, <3>3 DEF Counted, Current
  <2>3. CASE seen'[v][k] # NoLease /\ l = seen'[v][k]
    <3>1. Counted(seen[v][k])'
      BY <1>2
    <3> QED
      BY <2>3, <3>1 DEF Counted, Current
  <2> QED
    BY <1>7, <2>1, <2>2, <2>3 DEF TakeFrom, InTake
<1>8. ASSUME NEW req \in orphans' PROVE Reached(req.lease)' /\ Counted(req.lease)'
  <2>1. CASE req \in orphans
    <3>1. req.lease \in LeaseState
      BY <2>1 DEF TypeOK, TableTypeOK, Request
    <3> QED
      BY <1>c, <2>1, <3>1 DEF SwitchesCounted
  <2>2. ASSUME NEW v \in Worker, NEW k \in Key, NEW s \in RenewSlot,
               InCall(v, k, s, "sent"), req.lease = renewals[v][k][s].lease
        PROVE  Reached(req.lease)' /\ Counted(req.lease)'
    <3>1. req.lease \in LeaseState /\ Reached(req.lease) /\ Counted(req.lease)
      BY <2>2, CopyTypes DEF InCall, FencingInv, RenewalsReached, SwitchesCounted
    <3> QED
      BY <1>c, <3>1
  <2>3. ASSUME NEW v \in Worker, NEW r \in Round, NEW k \in Key,
               InTake(v, r, k, "sent"), req.lease = rounds[v][r].takes[k].lease
        PROVE  Reached(req.lease)' /\ Counted(req.lease)'
    <3>1. req.lease \in LeaseState /\ Reached(req.lease) /\ Counted(req.lease)
      BY <2>3, CopyTypes DEF InTake, FencingInv, TakesReached, SwitchesCounted
    <3> QED
      BY <1>c, <3>1
  <2> QED
    BY <2>1, <2>2, <2>3, OrphanStep
<1> QED
  BY <1>1, <1>2, <1>3, <1>4, <1>5, <1>6, <1>7, <1>8 DEF SwitchesCounted

\* Nothing is held, listed or sent at first.
LEMMA CountedInit == Init => SwitchesCounted
<1> SUFFICES ASSUME Init PROVE SwitchesCounted
  OBVIOUS
<1>1. \A w \in Worker, k \in Key : owned[w][k] = NoLease /\ seen[w][k] = NoLease
  BY DEF Init, RenewerInit, TakerInit, EmptyMap
<1>2. \A w \in Worker : init[w].page = {}
  BY DEF Init, RenewerInit, NotInitialized
<1>3. \A w \in Worker, r \in Round : rounds[w][r] = IdleRound
  BY DEF Init, TakerInit
<1>4. \A w \in Worker, k \in Key, s \in RenewSlot : renewals[w][k][s] = NoCall
  BY DEF Init, RenewerInit, NoRenewals
<1>5. orphans = {}
  BY DEF Init, TableInit
<1>6. \A w \in Worker, r \in Round, k \in Key :
        rounds[w][r].page = {} /\ rounds[w][r].takes[k] = NoTake
  BY <1>3, IdleTakes
<1>7. \A w \in Worker, r \in Round : rounds[w][r].page = {}
  BY <1>3, IdleTakes
<1>8. \A w \in Worker, k \in Key : Counted(owned[w][k]) /\ Counted(seen[w][k])
  BY <1>1 DEF Counted, Current
<1>9. \A w \in Worker, k \in Key, s \in RenewSlot, st \in {"queued", "sent", "ok"} :
        ~InCall(w, k, s, st)
  BY <1>4 DEF InCall
<1>10. \A w \in Worker, r \in Round, k \in Key : ~InTake(w, r, k, "sent")
  BY <1>6 DEF InTake
<1> QED
  BY <1>2, <1>5, <1>7, <1>8, <1>9, <1>10 DEF SwitchesCounted

CountsOneWrite(k) ==
  /\ table'[k].counter = table[k].counter + 1
  /\ table'[k].switches =
       table[k].switches + (IF table'[k].owner = table[k].owner THEN 0 ELSE 1)

\* An item is written by a renewal or a take, from a copy that agrees with it.
LEMMA WriteCounted ==
  ASSUME TypeOK, SwitchesCounted, [Next]_vars, NEW k \in Key,
         table[k] # NoItem, table'[k] # table[k]
  PROVE  CountsOneWrite(k)
<1>a. ASSUME NEW l \in LeaseState, Counted(l), NEW w, ApplyRenew(l) \/ ApplyTake(l, w)
      PROVE  CountsOneWrite(k)
  BY <1>a, ApplyCounted DEF CountsOneWrite
<1>1. table' # table
  OBVIOUS
<1>2. CASE TableNext
  <2>1. ~Tick /\ ~ClockSetBack
    BY <1>1 DEF Tick, ClockSetBack
  <2>2. ASSUME NEW req \in orphans, OrphanApplied(req) PROVE CountsOneWrite(k)
    <3>1. req.lease \in LeaseState /\ Counted(req.lease)
      BY DEF TypeOK, TableTypeOK, Request, SwitchesCounted
    <3> QED
      BY <1>a, <2>2, <3>1 DEF OrphanApplied
  <2>3. ASSUME NEW req \in orphans, OrphanLost(req) PROVE CountsOneWrite(k)
    BY <1>1, <2>3 DEF OrphanLost
  <2>4. ASSUME NEW j \in Key, NEW owner \in Owner, NEW stamp \in {NoTime, now},
               CreateLeaseIfNotExists(j, owner, stamp)
        PROVE  CountsOneWrite(k)
    BY <2>4 DEF CreateLeaseIfNotExists, Write, TypeOK, TableTypeOK
  <2> QED
    BY <1>2, <2>1, <2>2, <2>3, <2>4 DEF TableNext
<1>3. ASSUME NEW w \in Worker, ControlStep(w) PROVE CountsOneWrite(k)
  BY <1>1, <1>3 DEF ControlStep, Start, Stop, StopTimers, StopAborts, RunRenewer, RunRenewLeases,
                    RenewLeases, Crash, SetCheckpoint, Dies, tableVars
<1>4. ASSUME NEW w \in Worker, InitStep(w) PROVE CountsOneWrite(k)
  BY <1>1, <1>4 DEF InitStep, InitScanned, InitScanFailed, InitListed, tableVars
<1>5. ASSUME NEW w \in Worker, NEW j \in Key, NEW s \in RenewSlot, RenewalStep(w, j, s)
      PROVE  CountsOneWrite(k)
  <2>1. RenewApplied(w, j, s)
    BY <1>1, <1>5 DEF RenewalStep, RenewLease, RenewFailed, RenewDone, tableVars
  <2>2. InCall(w, j, s, "sent") /\ ApplyRenew(renewals[w][j][s].lease)
    BY <2>1 DEF RenewApplied
  <2>3. renewals[w][j][s].lease \in LeaseState /\ Counted(renewals[w][j][s].lease)
    BY <2>2, CopyTypes DEF InCall, SwitchesCounted
  <2> QED
    BY <1>a, <2>2, <2>3
<1>6. ASSUME NEW w \in Worker, NEW r \in Round, RoundStep(w, r) PROVE CountsOneWrite(k)
  BY <1>1, <1>6 DEF RoundStep, RoundAnswered, RunTaker, TakeLeases, TakerAborts, Dies,
                    RoundScanned, RoundListed, tableVars
<1>7. ASSUME NEW w \in Worker, NEW r \in Round, NEW j \in Key, TakeStep(w, r, j) PROVE CountsOneWrite(k)
  <2>1. TakeApplied(w, r, j)
    BY <1>1, <1>7 DEF TakeStep, TakeFailed, TakerDone, TakeDone, tableVars
  <2>2. InTake(w, r, j, "sent") /\ ApplyTake(rounds[w][r].takes[j].lease, w)
    BY <2>1 DEF TakeApplied
  <2>3. rounds[w][r].takes[j].lease \in LeaseState /\ Counted(rounds[w][r].takes[j].lease)
    BY <2>2, CopyTypes DEF InTake, SwitchesCounted
  <2> QED
    BY <1>a, <2>2, <2>3
<1>8. ~UNCHANGED vars
  BY <1>1 DEF vars, tableVars
<1> QED
  BY <1>2, <1>3, <1>4, <1>5, <1>6, <1>7, <1>8 DEF Next

\* However late a request is applied, a write moves the counter by one, and
\* counts the change of owner if it makes one.
THEOREM EveryWriteIsCounted == Spec => WritesAreCounted
<1>1. TypeOK /\ FencingInv /\ SwitchesCounted /\ [Next]_vars => SwitchesCounted'
  BY CountedStep
<1>2. Spec => []SwitchesCounted
  BY <1>1, CountedInit, TypeCorrect, FencingInvariant, PTL DEF Spec
<1>3. TypeOK /\ SwitchesCounted /\ [Next]_vars =>
        [\A k \in Key : table[k] # NoItem /\ table'[k] # table[k] =>
           /\ table'[k].counter = table[k].counter + 1
           /\ table'[k].switches =
                table[k].switches + (IF table'[k].owner = table[k].owner THEN 0 ELSE 1)]_vars
  BY WriteCounted DEF CountsOneWrite
<1> QED
  BY <1>2, <1>3, TypeCorrect, PTL DEF Spec, WritesAreCounted

------------------------------------------------------------------------------
(* 5. initialize() is owed an answer: as long as it has not called back,    *)
(* its scan or one of its renewals is in flight, or the answer is queued.   *)

Forced(w, k, s) == renewals[w][k][s] # NoCall /\ renewals[w][k][s].force

\* A renewal of initialize() is in flight if one of its slots is forced.
LEMMA ForcedIs ==
  ASSUME NEW w \in Worker
  PROVE  ForcedInFlight(w) # {} <=> \E k \in Key, s \in RenewSlot : Forced(w, k, s)
<1>1. \A k \in Key, s \in RenewSlot : Forced(w, k, s) <=> <<k, s>> \in ForcedInFlight(w)
  BY DEF ForcedInFlight, Forced
<1>2. ASSUME NEW ks \in ForcedInFlight(w) PROVE \E k \in Key, s \in RenewSlot : Forced(w, k, s)
  <2>1. PICK k \in Key, s \in RenewSlot : ks = <<k, s>>
    BY DEF ForcedInFlight
  <2> QED
    BY <1>1, <2>1
<1> QED
  BY <1>1, <1>2

\* Queueing renewals takes free slots only.
LEMMA QueueKeeps ==
  ASSUME TypeOK, NEW w \in Worker, NEW S \in SUBSET LeaseState, NEW force \in BOOLEAN,
         QueueRenewals(w, S, force),
         NEW v \in Worker, NEW k \in Key, NEW s \in RenewSlot, renewals[v][k][s] # NoCall
  PROVE  renewals'[v][k][s] = renewals[v][k][s]
<1>1. CASE v = w /\ \E l \in S : l.key = k
  <2> DEFINE slot == CHOOSE t \in FreeSlots(w, k) : TRUE
             call == [st |-> "queued", lease |-> CHOOSE l \in S : l.key = k, force |-> force]
  <2>1. slot \in FreeSlots(w, k)
    BY <1>1 DEF QueueRenewals
  <2>2. s # slot
    BY <1>1, <2>1 DEF FreeSlots
  <2>3. renewals'[v][k] = [renewals[w][k] EXCEPT ![slot] = call]
    BY <1>1 DEF QueueRenewals, TypeOK, RenewerTypeOK
  <2> HIDE DEF slot, call
  <2> QED
    BY <1>1, <2>2, <2>3 DEF TypeOK, RenewerTypeOK
<1>2. CASE ~(v = w /\ \E l \in S : l.key = k)
  BY <1>2 DEF QueueRenewals, TypeOK, RenewerTypeOK
<1> QED
  BY <1>1, <1>2

\* Queueing the renewal of a listed lease forces one.
LEMMA QueueForces ==
  ASSUME TypeOK, NEW w \in Worker, NEW S \in SUBSET LeaseState,
         QueueRenewals(w, S, TRUE), S # {}
  PROVE  \E k \in Key, s \in RenewSlot : Forced(w, k, s)'
<1>1. PICK k \in Key : \E l \in S : l.key = k
  BY DEF LeaseState
<1> DEFINE slot == CHOOSE t \in FreeSlots(w, k) : TRUE
           lease == CHOOSE l \in S : l.key = k
           call == [st |-> "queued", lease |-> lease, force |-> TRUE]
<1>2. slot \in FreeSlots(w, k)
  BY <1>1 DEF QueueRenewals
<1>3. slot \in RenewSlot
  BY <1>2 DEF FreeSlots
<1>4. lease \in S
  BY <1>1
<1>5. call \in Renewal
  BY <1>4 DEF Renewal
<1>6. renewals'[w][k] = [renewals[w][k] EXCEPT ![slot] = call]
  BY <1>1 DEF QueueRenewals, TypeOK, RenewerTypeOK
<1>7. call.force
  OBVIOUS
<1> HIDE DEF slot, call
<1>8. renewals'[w][k][slot] = call
  BY <1>3, <1>6 DEF TypeOK, RenewerTypeOK
<1>9. renewals'[w][k][slot] # NoCall /\ renewals'[w][k][slot].force
  BY <1>5, <1>7, <1>8, RenewerAssumption
<1> QED
  BY <1>3, <1>9 DEF Forced

\* Moving a renewal on leaves it forced or not.
LEMMA SetKeepsForced ==
  ASSUME TypeOK, NEW w \in Worker, NEW j \in Key, NEW t \in RenewSlot, NEW st \in {"sent", "ok", "failed"},
         SetRenewal(w, j, t, st), renewals[w][j][t] # NoCall,
         NEW v \in Worker, NEW k \in Key, NEW s \in RenewSlot, Forced(v, k, s)
  PROVE  Forced(v, k, s)'
<1> DEFINE c == [renewals[w][j][t] EXCEPT !.st = st]
<1>1. renewals[w][j][t] \in Renewal
  BY CopyTypes
<1>2. renewals' = [renewals EXCEPT ![w][j][t] = c]
  BY DEF SetRenewal
<1>3. c \in Renewal /\ c.force = renewals[w][j][t].force
  BY <1>1 DEF Renewal
<1> HIDE DEF c
<1>4. renewals'[w][j][t] = c
  BY <1>2 DEF TypeOK, RenewerTypeOK
<1>5. <<v, k, s>> # <<w, j, t>> => renewals'[v][k][s] = renewals[v][k][s]
  BY <1>2 DEF TypeOK, RenewerTypeOK
<1> QED
  BY <1>3, <1>4, <1>5, RenewerAssumption DEF Forced

\* Ending a renewal ends no other.
LEMMA EndKeepsForced ==
  ASSUME TypeOK, NEW w \in Worker, NEW j \in Key, NEW t \in RenewSlot, EndRenewal(w, j, t),
         NEW v \in Worker, NEW k \in Key, NEW s \in RenewSlot, Forced(v, k, s),
         <<v, k, s>> # <<w, j, t>>
  PROVE  Forced(v, k, s)'
<1>1. renewals'[v][k][s] = renewals[v][k][s]
  BY DEF EndRenewal, TypeOK, RenewerTypeOK
<1> QED
  BY <1>1 DEF Forced

\* As long as initialize() renews, one of its renewals is still to call back.
LEMMA InitAnswerStep ==
  ASSUME TypeOK, [Next]_vars, NEW v \in Worker,
         init[v].phase = "renewing" => \E k \in Key, s \in RenewSlot : Forced(v, k, s),
         init'[v].phase = "renewing"
  PROVE  \E k \in Key, s \in RenewSlot : Forced(v, k, s)'
<1>i. init \in [Worker -> [phase : InitPhase, page : SUBSET LeaseState]]
  BY DEF TypeOK, RenewerTypeOK
<1>1. ASSUME init[v].phase = "renewing", renewals'[v] = renewals[v]
      PROVE  \E k \in Key, s \in RenewSlot : Forced(v, k, s)'
  BY <1>1 DEF Forced
<1>2. ASSUME NEW w \in Worker, NEW S \in SUBSET LeaseState, NEW force \in BOOLEAN,
             QueueRenewals(w, S, force), init[v].phase = "renewing"
      PROVE  \E k \in Key, s \in RenewSlot : Forced(v, k, s)'
  <2>1. PICK k \in Key, s \in RenewSlot : Forced(v, k, s)
    BY <1>2
  <2>2. renewals'[v][k][s] = renewals[v][k][s]
    BY <1>2, <2>1, QueueKeeps DEF Forced
  <2> QED
    BY <2>1, <2>2 DEF Forced
<1>3. ASSUME NEW w \in Worker, Dies(w)
      PROVE  \E k \in Key, s \in RenewSlot : Forced(v, k, s)'
  <2>1. init' = [init EXCEPT ![w] = NotInitialized] /\ renewals' = [renewals EXCEPT ![w] = NoRenewals]
    BY <1>3 DEF Dies, RenewerDies
  <2>2. v # w
    BY <1>i, <2>1 DEF NotInitialized
  <2>3. init[v].phase = "renewing" /\ renewals'[v] = renewals[v]
    BY <1>i, <2>1, <2>2 DEF TypeOK, RenewerTypeOK
  <2> QED
    BY <1>1, <2>3
<1>4. CASE TableNext /\ UNCHANGED <<renewerVars, takerVars, controlVars>>
  BY <1>1, <1>4 DEF renewerVars
<1>5. ASSUME NEW w \in Worker, ControlStep(w)
      PROVE  \E k \in Key, s \in RenewSlot : Forced(v, k, s)'
  <2>1. CASE Start(w)
    <3>1. init' = [init EXCEPT ![w] = [phase |-> "scanning", page |-> {}]] /\ renewals' = renewals
      BY <2>1 DEF Start, Initialize
    <3>2. init[v].phase = "renewing"
      BY <1>i, <3>1
    <3> QED
      BY <1>1, <3>1, <3>2
  <2>2. CASE RunRenewLeases(w)
    <3>1. Leases(owned[w]) \in SUBSET LeaseState
      BY DEF Leases, LeaseMap, TypeOK, RenewerTypeOK
    <3>2. QueueRenewals(w, Leases(owned[w]), FALSE) /\ init' = init
      BY <2>2 DEF RunRenewLeases, RenewLeases
    <3> QED
      BY <1>2, <3>1, <3>2
  <2>3. CASE ~Start(w) /\ ~RunRenewLeases(w)
    BY <1>1, <1>3, <1>5, <2>3 DEF ControlStep, Stop, StopTimers, StopAborts, RunRenewer,
                                  Crash, SetCheckpoint, renewerVars
  <2> QED
    BY <2>1, <2>2, <2>3
<1>6. ASSUME NEW w \in Worker, InitStep(w)
      PROVE  \E k \in Key, s \in RenewSlot : Forced(v, k, s)'
  <2>1. CASE InitScanned(w) \/ InitScanFailed(w)
    <3>1. PICK new : init' = [init EXCEPT ![w] = new] /\ new.phase # "renewing"
      <4>1. CASE init' = [init EXCEPT ![w] = [phase |-> "listed", page |-> ListLeases(table)]]
        <5> DEFINE new == [phase |-> "listed", page |-> ListLeases(table)]
        <5>1. init' = [init EXCEPT ![w] = new]
          BY <4>1
        <5>2. new.phase = "listed"
          OBVIOUS
        <5> HIDE DEF new
        <5> QED
          BY <5>1, <5>2
      <4>2. ASSUME NEW p \in {"scanfailed", "failed"}, init' = [init EXCEPT ![w].phase = p]
            PROVE  \E new : init' = [init EXCEPT ![w] = new] /\ new.phase # "renewing"
        <5> DEFINE new == [init[w] EXCEPT !.phase = p]
        <5>1. init' = [init EXCEPT ![w] = new]
          BY <4>2
        <5>2. new.phase = p
          BY <1>i
        <5> HIDE DEF new
        <5> QED
          BY <5>1, <5>2
      <4> QED
        BY <2>1, <4>1, <4>2 DEF InitScanned, InitScanFailed
    <3>2. init[v].phase = "renewing" /\ renewals' = renewals
      BY <1>i, <2>1, <3>1 DEF InitScanned, InitScanFailed
    <3> QED
      BY <1>1, <3>2
  <2>2. CASE InitListed(w)
    <3>1. init[w].page \in SUBSET LeaseState /\ QueueRenewals(w, init[w].page, TRUE)
      BY <1>i, <2>2 DEF InitListed
    <3>2. CASE v # w
      <4>1. init'[v] = init[v]
        BY <1>i, <2>2, <3>2 DEF InitListed
      <4> QED
        BY <1>2, <3>1, <4>1
    <3>3. CASE v = w
      <4>1. init[w].page # {}
        BY <1>i, <2>2, <3>3 DEF InitListed
      <4> QED
        BY <3>1, <3>3, <4>1, QueueForces
    <3> QED
      BY <3>2, <3>3
  <2> QED
    BY <1>6, <2>1, <2>2 DEF InitStep
<1>7. ASSUME NEW w \in Worker, NEW j \in Key, NEW t \in RenewSlot, RenewalStep(w, j, t)
      PROVE  \E k \in Key, s \in RenewSlot : Forced(v, k, s)'
  <2>0. renewals[w][j][t] # NoCall
    BY <1>7 DEF RenewalStep, RenewLease, RenewApplied, RenewFailed, RenewDone, InCall
  <2>1. CASE RenewDone(w, j, t)
    <3>1. EndRenewal(w, j, t)
      BY <2>1 DEF RenewDone
    <3>2. CASE v # w
      <4>1. init'[v] = init[v]
        BY <1>i, <2>1, <3>2 DEF RenewDone
      <4>2. renewals'[v] = renewals[v]
        BY <3>1, <3>2 DEF EndRenewal, TypeOK, RenewerTypeOK
      <4> QED
        BY <1>1, <4>1, <4>2
    <3>3. CASE v = w
      <4>1. ForcedInFlight(w) # {<<j, t>>} /\ init'[v] = init[v]
        BY <1>i, <2>1, <3>3 DEF RenewDone
      <4>2. ForcedInFlight(w) # {}
        BY <3>3, <4>1, ForcedIs
      <4>3. PICK ks \in ForcedInFlight(w) : ks # <<j, t>>
        BY <4>1, <4>2
      <4>4. PICK k \in Key, s \in RenewSlot : ks = <<k, s>> /\ Forced(w, k, s)
        BY <4>3 DEF ForcedInFlight, Forced
      <4>5. Forced(w, k, s)'
        BY <3>1, <4>3, <4>4, EndKeepsForced
      <4> QED
        BY <3>3, <4>5
    <3> QED
      BY <3>2, <3>3
  <2>2. CASE ~RenewDone(w, j, t)
    <3>1. init' = init
      BY <1>7, <2>2 DEF RenewalStep, RenewLease, RenewApplied, RenewFailed
    <3>2. PICK k \in Key, s \in RenewSlot : Forced(v, k, s)
      BY <3>1
    <3>3. CASE \E st \in {"sent", "ok", "failed"} : SetRenewal(w, j, t, st)
      BY <2>0, <3>2, <3>3, SetKeepsForced
    <3>4. CASE EndRenewal(w, j, t) /\ ~renewals[w][j][t].force
      <4>1. <<v, k, s>> # <<w, j, t>>
        BY <3>2, <3>4 DEF Forced
      <4> QED
        BY <3>2, <3>4, <4>1, EndKeepsForced
    <3> QED
      BY <1>7, <2>2, <3>3, <3>4 DEF RenewalStep, RenewLease, RenewApplied, RenewFailed
  <2> QED
    BY <2>1, <2>2
<1>8. ASSUME NEW w \in Worker, NEW r \in Round, RoundStep(w, r)
      PROVE  \E k \in Key, s \in RenewSlot : Forced(v, k, s)'
  BY <1>1, <1>3, <1>8 DEF RoundStep, RoundAnswered, RunTaker, TakerAborts, renewerVars
<1>9. ASSUME NEW w \in Worker, NEW r \in Round, NEW j \in Key, TakeStep(w, r, j)
      PROVE  \E k \in Key, s \in RenewSlot : Forced(v, k, s)'
  BY <1>1, <1>9 DEF TakeStep, TakerDone, renewerVars
<1>10. CASE UNCHANGED vars
  BY <1>1, <1>10 DEF vars, renewerVars
<1> QED
  BY <1>4, <1>5, <1>6, <1>7, <1>8, <1>9, <1>10 DEF Next

------------------------------------------------------------------------------

\* The taker takes only leases it remembers.
LEMMA ComputeRemembered ==
  ASSUME NEW map, NEW w, NEW t, NEW S \in ComputeLeasesToTake(map, w, t)
  PROVE  S \subseteq Leases(map)
<1>2. ASSUME NEW T, NEW n, S \in AnyOf(T, n)
      PROVE  S \subseteq T
  BY <1>2 DEF AnyOf
<1>3. CASE S = {}
  BY <1>3
<1>4. ASSUME NEW n, S \in AnyOf(GetExpiredLeases(map, t), n)
      PROVE  S \subseteq Leases(map)
  <2>1. S \subseteq GetExpiredLeases(map, t)
    BY <1>2, <1>4
  <2> QED
    BY <2>1 DEF GetExpiredLeases
<1>5. ASSUME NEW target, NEW needed, S \in ChooseLeasesToSteal(map, w, target, needed)
      PROVE  S \subseteq Leases(map)
  <2>1. PICK o, n : S \in AnyOf({l \in Leases(map) : l.owner = o}, n)
    BY <1>5 DEF ChooseLeasesToSteal
  <2>2. S \subseteq {l \in Leases(map) : l.owner = o}
    BY <1>2, <2>1
  <2> QED
    BY <2>2
<1> QED
  BY <1>3, <1>4, <1>5 DEF ComputeLeasesToTake

\* A round that takes leases waits for one of them.
LEMMA TakingWaits ==
  ASSUME NEW map \in LeaseMap, NEW toTake, toTake \subseteq Leases(map), NEW expired,
         TakingRound(map, toTake, expired).phase = "taking"
  PROVE  \E k \in Key : /\ TakingRound(map, toTake, expired).takes[k] \in Take
                        /\ TakingRound(map, toTake, expired).takes[k].st = "sent"
<1>1. toTake # {}
  BY DEF TakingRound, IdleRound
<1>2. PICK k \in Key : map[k] \in toTake /\ map[k] # NoLease
  BY <1>1 DEF Leases
<1> DEFINE ex == map[k] \in expired
           take == [st |-> "sent", lease |-> map[k], expired |-> ex]
<1>3. ex \in BOOLEAN /\ map[k] \in LeaseState
  BY <1>2 DEF LeaseMap
<1>4. TakingRound(map, toTake, expired).takes[k] = take
  BY <1>1, <1>2 DEF TakingRound
<1> HIDE DEF ex
<1>5. take \in Take /\ take.st = "sent"
  BY <1>3 DEF Take
<1> QED
  BY <1>4, <1>5

\* Moving a take on leaves the phase of its round, and it is still a take.
LEMMA SetTakeKeeps ==
  ASSUME TypeOK, NEW w \in Worker, NEW q \in Round, NEW j \in Key,
         NEW st \in {"ok", "failed", "taken", "missed"}, SetTake(w, q, j, st),
         NEW st0, InTake(w, q, j, st0)
  PROVE  /\ \A v \in Worker, r \in Round : rounds'[v][r].phase = rounds[v][r].phase
         /\ rounds'[w][q].takes[j] \in Take
<1> DEFINE old == rounds[w][q]
           t == [old.takes[j] EXCEPT !.st = st]
           ts == [old.takes EXCEPT ![j] = t]
           new == [old EXCEPT !.takes = ts]
<1>1. old \in TakerRound /\ old.takes \in [Key -> Take \cup {NoTake}] /\ old.takes[j] \in Take
  BY InTakeType DEF TypeOK, TakerTypeOK, TakerRound
<1>2. t \in Take
  BY <1>1 DEF Take
<1>3. rounds' = [rounds EXCEPT ![w][q] = new]
  BY DEF SetTake
<1> HIDE DEF t
<1>4. ts[j] = t
  BY <1>1
<1>5. new.takes = ts /\ new.phase = old.phase
  BY <1>1 DEF TakerRound
<1> HIDE DEF new
<1>6. rounds'[w][q] = new
  BY <1>3 DEF TypeOK, TakerTypeOK
<1>7. \A v \in Worker, r \in Round : <<v, r>> # <<w, q>> => rounds'[v][r] = rounds[v][r]
  BY <1>3 DEF TypeOK, TakerTypeOK
<1> HIDE DEF ts
<1> QED
  BY <1>2, <1>4, <1>5, <1>6, <1>7

Unanswered(w, r) == \E k \in Key : ~CalledBack(w, r, k)

\* As long as a round takes, one of its takes is still to call back.
LEMMA RoundAnswerStep ==
  ASSUME TypeOK, [Next]_vars, NEW v \in Worker, NEW r \in Round,
         rounds[v][r].phase = "taking" => Unanswered(v, r),
         rounds'[v][r].phase = "taking"
  PROVE  Unanswered(v, r)'
<1>1. ASSUME rounds'[v][r] = rounds[v][r] PROVE Unanswered(v, r)'
  BY <1>1 DEF Unanswered, CalledBack
<1>2. ASSUME NEW w \in Worker, NEW q \in Round, NEW new,
             rounds' = [rounds EXCEPT ![w][q] = new],
             new.phase = "taking" => \E k \in Key : new.takes[k] \in Take /\ new.takes[k].st = "sent"
      PROVE  Unanswered(v, r)'
  <2>1. CASE <<v, r>> = <<w, q>>
    <3>1. rounds'[v][r] = new
      BY <1>2, <2>1 DEF TypeOK, TakerTypeOK
    <3>2. PICK k \in Key : new.takes[k] \in Take /\ new.takes[k].st = "sent"
      BY <1>2, <3>1
    <3> QED
      BY <3>1, <3>2, TakerAssumption DEF Unanswered, CalledBack
  <2>2. CASE <<v, r>> # <<w, q>>
    <3>1. rounds'[v][r] = rounds[v][r]
      BY <1>2, <2>2 DEF TypeOK, TakerTypeOK
    <3> QED
      BY <1>1, <3>1
  <2> QED
    BY <2>1, <2>2
<1>3. IdleRound.phase # "taking"
  BY DEF IdleRound
<1>4. ASSUME NEW w \in Worker, Dies(w) PROVE Unanswered(v, r)'
  <2>1. rounds'[v][r] = rounds[v][r] \/ rounds'[v][r] = IdleRound
    BY <1>4 DEF Dies, TakerDies, TypeOK, TakerTypeOK
  <2> QED
    BY <2>1, <1>1, <1>3
<1>5. CASE TableNext /\ UNCHANGED <<renewerVars, takerVars, controlVars>>
  BY <1>1, <1>5 DEF takerVars
<1>6. ASSUME NEW w \in Worker, ControlStep(w) PROVE Unanswered(v, r)'
  BY <1>1, <1>4, <1>6 DEF ControlStep, Start, Stop, StopTimers, StopAborts, RunRenewer,
                          RunRenewLeases, RenewLeases, Crash, SetCheckpoint, takerVars
<1>7. ASSUME NEW w \in Worker, InitStep(w) PROVE Unanswered(v, r)'
  BY <1>1, <1>7 DEF InitStep, takerVars
<1>8. ASSUME NEW w \in Worker, NEW j \in Key, NEW t \in RenewSlot, RenewalStep(w, j, t)
      PROVE  Unanswered(v, r)'
  BY <1>1, <1>8 DEF RenewalStep, takerVars
<1>9. ASSUME NEW w \in Worker, NEW q \in Round, RoundStep(w, q) PROVE Unanswered(v, r)'
  <2>0. rounds[w][q] \in TakerRound
    BY DEF TypeOK, TakerTypeOK
  <2>1. CASE TakerAborts(w, q)
    BY <1>4, <2>1 DEF TakerAborts
  <2>2. CASE RunTaker(w, q)
    <3> DEFINE new == [rounds[w][q] EXCEPT !.phase = "scanning"]
    <3>1. rounds' = [rounds EXCEPT ![w][q] = new]
      BY <2>2 DEF RunTaker, TakeLeases
    <3>2. new.phase = "scanning"
      BY <2>0 DEF TakerRound
    <3> HIDE DEF new
    <3> QED
      BY <1>2, <3>1, <3>2
  <2>3. CASE RoundScanned(w, q)
    <3>1. CASE rounds' = [rounds EXCEPT ![w][q].phase = "scanfailed"]
      <4> DEFINE new == [rounds[w][q] EXCEPT !.phase = "scanfailed"]
      <4>1. rounds' = [rounds EXCEPT ![w][q] = new]
        BY <3>1
      <4>2. new.phase = "scanfailed"
        BY <2>0 DEF TakerRound
      <4> HIDE DEF new
      <4> QED
        BY <1>2, <4>1, <4>2
    <3>2. CASE rounds' = [rounds EXCEPT ![w][q].phase = "listed",
                                        ![w][q].page = ListLeases(table)]
      <4> DEFINE new == [rounds[w][q] EXCEPT !.phase = "listed", !.page = ListLeases(table)]
      <4>1. rounds' = [rounds EXCEPT ![w][q] = new]
        BY <3>2 DEF TypeOK, TakerTypeOK
      <4>2. new.phase = "listed"
        BY <2>0 DEF TakerRound
      <4> HIDE DEF new
      <4> QED
        BY <1>2, <4>1, <4>2
    <3> QED
      BY <2>3, <3>1, <3>2 DEF RoundScanned
  <2>4. CASE RoundListed(w, q)
    <3> DEFINE map == UpdateAllLeases(seen[w], rounds[w][q].page, now)
               expired == GetExpiredLeases(map, now)
    <3>1. map \in LeaseMap
      BY <2>0, UpdateAllLeasesType DEF TypeOK, TakerTypeOK, TakerRound, TableTypeOK
    <3>2. PICK toTake \in ComputeLeasesToTake(map, w, now) :
                 rounds' = [rounds EXCEPT ![w][q] = TakingRound(map, toTake, expired)]
      BY <2>4 DEF RoundListed
    <3> HIDE DEF map, expired
    <3>3. toTake \subseteq Leases(map)
      BY <3>2, ComputeRemembered
    <3> DEFINE new == TakingRound(map, toTake, expired)
    <3>4. new.phase = "taking" => \E k \in Key : new.takes[k] \in Take /\ new.takes[k].st = "sent"
      BY <3>1, <3>3, TakingWaits
    <3> HIDE DEF new
    <3>5. rounds' = [rounds EXCEPT ![w][q] = new]
      BY <3>2 DEF new
    <3> QED
      BY <1>2, <3>4, <3>5
  <2> QED
    BY <1>9, <2>1, <2>2, <2>3, <2>4 DEF RoundStep, RoundAnswered
<1>10. ASSUME NEW w \in Worker, NEW q \in Round, NEW j \in Key, TakeStep(w, q, j)
       PROVE  Unanswered(v, r)'
  <2>1. ASSUME NEW st \in {"ok", "failed", "taken", "missed"}, SetTake(w, q, j, st),
               NEW st0, InTake(w, q, j, st0),
               \/ st \in {"ok", "failed"}
               \/ \E i \in Key \ {j} : ~CalledBack(w, q, i)
        PROVE  Unanswered(v, r)'
    <3>1. /\ rounds[v][r].phase = "taking"
          /\ rounds'[w][q].takes[j] \in Take /\ rounds'[w][q].takes[j].st = st
      BY <2>1, SetTakeKeeps, SetTakeFrom
    <3>2. \A i \in Key : <<v, r, i>> # <<w, q, j>> =>
            rounds'[v][r].takes[i] = rounds[v][r].takes[i]
      BY <2>1, SetTakeFrom
    <3>3. CASE <<v, r>> # <<w, q>>
      <4>1. PICK i \in Key : ~CalledBack(v, r, i)
        BY <3>1 DEF Unanswered
      <4> QED
        BY <3>2, <3>3, <4>1 DEF Unanswered, CalledBack
    <3>4. CASE <<v, r>> = <<w, q>> /\ st \in {"ok", "failed"}
      BY <3>1, <3>4, TakerAssumption DEF Unanswered, CalledBack
    <3>5. CASE <<v, r>> = <<w, q>> /\ \E i \in Key \ {j} : ~CalledBack(w, q, i)
      <4>1. PICK i \in Key \ {j} : ~CalledBack(w, q, i)
        BY <3>5
      <4>2. rounds'[v][r].takes[i] = rounds[v][r].takes[i]
        BY <3>2, <4>1
      <4> QED
        BY <3>5, <4>1, <4>2 DEF Unanswered, CalledBack
    <3> QED
      BY <2>1, <3>3, <3>4, <3>5
  <2>2. CASE TakeApplied(w, q, j)
    <3>1. InTake(w, q, j, "sent") /\ \E st \in {"ok", "failed"} : SetTake(w, q, j, st)
      BY <2>2 DEF TakeApplied
    <3> QED
      BY <2>1, <3>1
  <2>3. CASE TakeFailed(w, q, j)
    <3>1. InTake(w, q, j, "sent") /\ SetTake(w, q, j, "failed")
      BY <2>3 DEF TakeFailed
    <3> QED
      BY <2>1, <3>1
  <2>4. CASE TakeDone(w, q, j)
    <3>1. CASE LastTake(w, q, j)
      <4>1. rounds' = [rounds EXCEPT ![w][q] = IdleRound]
        BY <2>4, <3>1 DEF TakeDone
      <4> QED
        BY <1>2, <1>3, <4>1
    <3>2. CASE ~LastTake(w, q, j)
      <4>1. \E i \in Key \ {j} : ~CalledBack(w, q, i)
        BY <3>2 DEF LastTake
      <4>2. PICK st \in {"taken", "missed"} : SetTake(w, q, j, st)
        BY <2>4, <3>2 DEF TakeDone
      <4>3. InTake(w, q, j, "ok") \/ InTake(w, q, j, "failed")
        BY <2>4 DEF TakeDone, TakeAnswered
      <4> QED
        BY <2>1, <4>1, <4>2, <4>3
    <3> QED
      BY <3>1, <3>2
  <2> QED
    BY <1>10, <2>2, <2>3, <2>4 DEF TakeStep, TakerDone
<1>11. CASE UNCHANGED vars
  BY <1>1, <1>11 DEF vars, takerVars
<1> QED
  BY <1>4, <1>5, <1>6, <1>7, <1>8, <1>9, <1>10, <1>11 DEF Next

\* Whoever waits for the last answer of initialize() or of a round is owed one,
\* in every reachable state of any number of coordinators.
THEOREM AnswersAreOwed == Spec => []LastAnswerPending
<1>1. Init => LastAnswerPending
  <2> SUFFICES ASSUME Init PROVE LastAnswerPending
    OBVIOUS
  <2>1. \A w \in Worker : init[w].phase = "none"
    BY DEF Init, RenewerInit, NotInitialized
  <2>2. \A w \in Worker, r \in Round : rounds[w][r].phase = "idle"
    BY DEF Init, TakerInit, IdleRound
  <2> QED
    BY <2>1, <2>2 DEF LastAnswerPending
<1>2. TypeOK /\ LastAnswerPending /\ [Next]_vars => LastAnswerPending'
  <2> SUFFICES ASSUME TypeOK, LastAnswerPending, [Next]_vars PROVE LastAnswerPending'
    OBVIOUS
  <2>1. ASSUME NEW w \in Worker, init'[w].phase = "renewing" PROVE ForcedInFlight(w)' # {}
    <3>1. init[w].phase = "renewing" => \E k \in Key, s \in RenewSlot : Forced(w, k, s)
      BY ForcedIs DEF LastAnswerPending
    <3>2. \E k \in Key, s \in RenewSlot : Forced(w, k, s)'
      BY <2>1, <3>1, InitAnswerStep
    <3>3. \A k \in Key, s \in RenewSlot : Forced(w, k, s)' => <<k, s>> \in ForcedInFlight(w)'
      BY DEF Forced, ForcedInFlight
    <3> QED
      BY <3>2, <3>3
  <2>2. ASSUME NEW w \in Worker, NEW r \in Round, rounds'[w][r].phase = "taking"
        PROVE  \E k \in Key : ~CalledBack(w, r, k)'
    <3>1. rounds[w][r].phase = "taking" => Unanswered(w, r)
      BY DEF LastAnswerPending, Unanswered
    <3>2. Unanswered(w, r)'
      BY <2>2, <3>1, RoundAnswerStep
    <3> QED
      BY <3>2 DEF Unanswered
  <2> QED
    BY <2>1, <2>2 DEF LastAnswerPending
<1> QED
  BY <1>1, <1>2, TypeCorrect, PTL DEF Spec
==============================================================================

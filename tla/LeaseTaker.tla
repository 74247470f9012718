----------------------------- MODULE LeaseTaker -----------------------------
(***************************************************************************)
(* LeaseTaker: what a worker last saw of the table, and its rounds of taking*)
(* leases.  A round lists the table, decides from the listing which leases  *)
(* to take and sends a conditional update for each; it ends when the last   *)
(* update has called back.  The taker's timer does not wait for a round to  *)
(* end, so rounds of one worker may overlap.                                *)
(***************************************************************************)
EXTENDS LeaseTable, FiniteSetsExt

CONSTANTS
  Round,                \* bound: rounds of one worker at the same time
  NoTake,               \* the round takes no lease under this key
  MaxLeasesToStealAtOnce

VARIABLES
  seen,   \* per worker, state_->allLeases
  rounds  \* per worker, its takeLeases calls

takerVars == <<seen, rounds>>

\* st: sent; ok or failed (the answer waits for the event loop); taken or
\* missed (called back).  "expired" records that the lease was in
\* getExpiredLeases() when it was chosen.
Take == [st : {"sent", "ok", "failed", "taken", "missed"}, lease : LeaseState,
         expired : BOOLEAN]

RoundPhase == {"idle", "scanning", "listed", "scanfailed", "taking"}

TakerRound == [phase : RoundPhase, page : SUBSET LeaseState,
               takes : [Key -> Take \cup {NoTake}]]

ASSUME TakerAssumption ==
  /\ MaxLeasesToStealAtOnce \in Nat
  /\ NoTake \notin Take

NoTakes == [k \in Key |-> NoTake]

IdleRound == [phase |-> "idle", page |-> {}, takes |-> NoTakes]

TakerTypeOK ==
  /\ seen \in [Worker -> LeaseMap]
  /\ rounds \in [Worker -> [Round -> TakerRound]]

TakerInit ==
  /\ seen = [w \in Worker |-> EmptyMap]
  /\ rounds = [w \in Worker |-> [r \in Round |-> IdleRound]]

------------------------------------------------------------------------------
(* What the taker remembers of the table, and which leases it decides to    *)
(* take.  random shuffles make the choice nondeterministic.                 *)

\* Mutant: the stamp in the item is taken over.
StampOfItem(old, lease, scanTime) == lease.inc

\* The stamp of a listed lease: when this worker first saw its counter value.
StampOf(old, lease, scanTime) ==
  IF old = NoLease
  THEN IF lease.owner = NoOwner THEN NoTime ELSE scanTime
  ELSE IF old.counter = lease.counter THEN old.inc ELSE scanTime

UpdateAllLeases(map, page, scanTime) ==
  [k \in Key |->
     IF \E l \in page : l.key = k
     THEN LET lease == CHOOSE l \in page : l.key = k
          IN  [lease EXCEPT !.inc = StampOf(map[k], lease, scanTime)]
     ELSE NoLease]

GetExpiredLeases(map, asOf) == {l \in Leases(map) : IsExpired(l, asOf)}

\* The counts of leases that are not expired, and the owners that have any,
\* the worker itself among them.
LeaseCount(map, expired, owner) ==
  Cardinality({l \in Leases(map) \ expired : l.owner = owner})

CountedOwners(map, expired, w) ==
  {w} \cup {l.owner : l \in {m \in Leases(map) \ expired : m.owner # NoOwner}}

CeilDiv(n, d) == IF n % d = 0 THEN n \div d ELSE (n \div d) + 1

TargetNum(numLeases, numWorkers) ==
  IF numWorkers > numLeases
  THEN 1
  ELSE Min({MaxLeasesToStealAtOnce, CeilDiv(numLeases, numWorkers)})

NumToSteal(mostLoaded, target, needed) ==
  IF mostLoaded >= target /\ needed > 0
  THEN LET over == Min({needed, mostLoaded - target})
       IN  Min({IF needed > 1 /\ over = 0 THEN 1 ELSE over, MaxLeasesToStealAtOnce})
  ELSE 0

\* Any n leases of S, or all of them.
AnyOf(S, n) == {T \in SUBSET S : Cardinality(T) = Min({n, Cardinality(S)})}

\* The most loaded owner is the first in the order of names; the model keeps
\* every owner that ties.
ChooseLeasesToSteal(map, w, target, needed) ==
  LET owners == CountedOwners(map, {}, w)
      most == {o \in owners : \A p \in owners : LeaseCount(map, {}, p) <= LeaseCount(map, {}, o)}
  IN  UNION {AnyOf({l \in Leases(map) : l.owner = o},
                   NumToSteal(LeaseCount(map, {}, o), target, needed)) : o \in most}

ComputeLeasesToTake(map, w, asOf) ==
  LET expired == GetExpiredLeases(map, asOf)
      numLeases == Cardinality(Leases(map))
      target == TargetNum(numLeases, Cardinality(CountedOwners(map, expired, w)))
      self == LeaseCount(map, expired, w)
  IN  IF numLeases = 0 \/ self >= target THEN {{}}
      ELSE IF expired # {} THEN AnyOf(expired, target - self)
      ELSE ChooseLeasesToSteal(map, w, target, target - self)

------------------------------------------------------------------------------
(* takeLeases().                                                           *)

TakeLeases(w, r) ==
  /\ rounds[w][r].phase = "idle"
  /\ rounds' = [rounds EXCEPT ![w][r].phase = "scanning"]
  /\ UNCHANGED <<tableVars, seen>>

RoundScanned(w, r) ==
  /\ rounds[w][r].phase = "scanning"
  /\ \/ rounds' = [rounds EXCEPT ![w][r].phase = "listed",
                                 ![w][r].page = ListLeases(table)]
     \/ rounds' = [rounds EXCEPT ![w][r].phase = "scanfailed"]
  /\ UNCHANGED <<tableVars, seen>>

\* The round once the takes are sent.
TakingRound(map, toTake, expired) ==
  IF toTake = {}
  THEN IdleRound
  ELSE [phase |-> "taking", page |-> {},
        takes |-> [k \in Key |->
           IF map[k] \in toTake
           THEN [st |-> "sent", lease |-> map[k], expired |-> map[k] \in expired]
           ELSE NoTake]]

\* The callback of listLeases: remember the listing, choose, send the takes.
RoundListed(w, r) ==
  LET map == UpdateAllLeases(seen[w], rounds[w][r].page, now) IN
  /\ rounds[w][r].phase = "listed"
  /\ seen' = [seen EXCEPT ![w] = map]
  /\ \E toTake \in ComputeLeasesToTake(map, w, now) :
       rounds' = [rounds EXCEPT ![w][r] = TakingRound(map, toTake, GetExpiredLeases(map, now))]
  /\ UNCHANGED tableVars

InTake(w, r, k, st) ==
  /\ rounds[w][r].takes[k] # NoTake
  /\ rounds[w][r].takes[k].st = st

SetTake(w, r, k, st) == rounds' = [rounds EXCEPT ![w][r].takes[k].st = st]

TakeApplied(w, r, k) ==
  /\ InTake(w, r, k, "sent")
  /\ ApplyTake(rounds[w][r].takes[k].lease, w)
  /\ \E st \in {"ok", "failed"} : SetTake(w, r, k, st)
  /\ UNCHANGED <<orphans, seen>>

TakeRequest(w, r, k) == [lease |-> rounds[w][r].takes[k].lease, newOwner |-> w]

TakeFailed(w, r, k) ==
  /\ InTake(w, r, k, "sent")
  /\ SetTake(w, r, k, "failed")
  /\ GiveUpOn(TakeRequest(w, r, k))
  /\ UNCHANGED <<now, table, lastWrite, seen>>

CalledBack(w, r, k) ==
  \/ rounds[w][r].takes[k] = NoTake
  \/ rounds[w][r].takes[k].st \in {"taken", "missed"}

\* Mutant: a take that failed is waited for.
LastTakeAllTaken(w, r, k) ==
  \A j \in Key \ {k} : rounds[w][r].takes[j] = NoTake \/ rounds[w][r].takes[j].st = "taken"

LastTake(w, r, k) == \A j \in Key \ {k} : CalledBack(w, r, j)

\* The callback of manager->takeLease; asyncGroup lets the last one end the
\* round and hand over takenLeases.
TakeAnswered(w, r, k) == InTake(w, r, k, "ok") \/ InTake(w, r, k, "failed")

TakenLeases(w, r, k) ==
  {TakeResult(rounds[w][r].takes[j].lease) :
     j \in {i \in Key : InTake(w, r, i, "taken") \/ (i = k /\ InTake(w, r, i, "ok"))}}

TakeDone(w, r, k) ==
  /\ TakeAnswered(w, r, k)
  /\ IF LastTake(w, r, k)
     THEN rounds' = [rounds EXCEPT ![w][r] = IdleRound]
     ELSE SetTake(w, r, k, IF InTake(w, r, k, "ok") THEN "taken" ELSE "missed")
  /\ UNCHANGED <<tableVars, seen>>

TakeRequests(w) ==
  {TakeRequest(w, rk[1], rk[2]) :
     rk \in {p \in Round \X Key : InTake(w, p[1], p[2], "sent")}}

TakerDies(w) ==
  /\ seen' = [seen EXCEPT ![w] = EmptyMap]
  /\ rounds' = [rounds EXCEPT ![w] = [r \in Round |-> IdleRound]]
==============================================================================

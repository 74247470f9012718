------------------------- MODULE LeaseManager_proofs -------------------------
(***************************************************************************)
(* The clients of one lease table, for any clients, workers, keys and       *)
(* bounds: the types, what a step may do to an item and its history, the    *)
(* inductive invariant and the properties of the conditional calls.         *)
(***************************************************************************)
EXTENDS LeaseManager, TLAPS

(* Types.                                                                  *)

\* An item read from the table is a lease.
LEMMA ReadLeaseType ==
  ASSUME NEW k \in Key, NEW item \in Item
  PROVE  FromDynamoDict(k, item) \in ClientLease
BY DEF FromDynamoDict, Item, ClientLease, Counter

\* What a new lease is written as, whatever counter its caller gave it.
LEMMA NewItemType ==
  ASSUME NEW owner \in Owner, NEW counter \in Counter
  PROVE  ToDynamoDict(owner, counter, NoTime) \in Item
BY DEF ToDynamoDict, Item, Counter

\* What a creator gets back is the lease he made.
LEMMA CreatedType ==
  ASSUME NEW call \in Call
  PROVE  LeaseToCreate(call) \in ClientLease
BY DEF LeaseToCreate, ClientLease, Call

\* The table accepts only requests built from a lease with a counter.
LEMMA AcceptedIsCounted ==
  ASSUME NEW k \in Key, table[k] \in Item \cup {NoItem}, NEW lease,
         CASHolds(table[k], lease)
  PROVE  table[k] \in Item /\ lease.counter \in Nat /\ lease.counter # NoCounter
BY LeaseAssumption DEF CASHolds, Item

\* What an update writes is an item.
LEMMA UpdateValuesType ==
  ASSUME NEW call \in Call, call.copy \in Copy, table[call.key] \in Item,
         call.copy.lease.counter \in Nat, call.op \in {"renew", "take", "evict"}
  PROVE  UpdateValues(call) \in Item
<1> DEFINE item == table[call.key]
           lease == call.copy.lease
<1>1. /\ lease \in ClientLease /\ call.owner \in Owner /\ NoOwner \in Owner
  BY DEF Call, Copy, Owner
<1>2. lease.counter + 1 \in Nat /\ lease.switches + 1 \in Nat
  BY <1>1 DEF ClientLease
<1>3. RenewValues(item, lease) \in Item
  BY <1>2 DEF RenewValues, Item
<1>4. EvictValues(item, lease) \in Item
  BY <1>1, <1>2 DEF EvictValues, Item
<1>5. [item EXCEPT !.owner = call.owner, !.switches = lease.switches + 1,
                   !.counter = lease.counter + 1] \in Item
  BY <1>1, <1>2 DEF Item
<1>6. TakeValues(item, lease, call.owner) \in Item
  BY <1>3, <1>5 DEF TakeValues
<1> QED BY <1>3, <1>4, <1>6 DEF UpdateValues

\* What a successful update hands over are copies.
LEMMA UpdateResultType ==
  ASSUME NEW call \in Call, call.copy \in Copy, NEW ver \in Version,
         call.copy.lease.counter \in Nat, call.op \in {"renew", "take", "evict"}
  PROVE  UpdateResult(call, ver) \in SUBSET Copy
<1>1. RenewResult(call.copy.lease) \in ClientLease
  BY DEF RenewResult, IncrementedCounter, Copy, ClientLease, Counter
<1>2. [lease |-> RenewResult(call.copy.lease), version |-> ver] \in Copy
  BY <1>1 DEF Copy
<1>3. [call.copy EXCEPT !.lease = TakeResult(@)] \in Copy
  BY DEF TakeResult, Copy
<1> QED BY <1>2, <1>3 DEF UpdateResult

\* What a read hands over are copies.
LEMMA ReadItemType ==
  ASSUME TypeOK, NEW k \in Key
  PROVE  ReadItem(k) \in SUBSET Copy
<1>1. CASE table[k] # NoItem
  <2>1. table[k] \in Item /\ version[k] \in Version
    BY <1>1 DEF TypeOK
  <2>2. FromDynamoDict(k, table[k]) \in ClientLease
    BY <2>1, ReadLeaseType
  <2>3. [lease |-> FromDynamoDict(k, table[k]), version |-> version[k]] \in Copy
    BY <2>1, <2>2 DEF Copy
  <2> QED BY <2>3 DEF ReadItem
<1>2. CASE table[k] = NoItem
  BY <1>2 DEF ReadItem
<1> QED BY <1>1, <1>2

\* A call is sent, answered and forgotten as a call.
LEMMA SendType ==
  ASSUME TypeOK, NEW c \in Client, NEW op \in Operation, NEW k \in Key,
         NEW copy \in Copy \cup {NoCopy}, NEW owner \in Owner, NEW counter \in Counter,
         Send(c, op, k, copy, owner, counter)
  PROVE  TypeOK'
<1>1. [op |-> op, key |-> k, copy |-> copy, owner |-> owner, counter |-> counter,
       answer |-> "none", page |-> {}] \in Call
  BY DEF Call, Answer
<1> QED BY <1>1 DEF Send, TypeOK

LEMMA AnswerType ==
  ASSUME TypeOK, NEW c \in Client, calls[c] # NoCall,
         NEW answer \in Answer, NEW page \in SUBSET Copy, AnswerCall(c, answer, page)
  PROVE  calls' \in [Client -> Call \cup {NoCall}]
<1>1. calls[c] \in Call
  BY DEF TypeOK
<1>2. [calls[c] EXCEPT !.answer = answer, !.page = page] \in Call
  BY <1>1 DEF Call
<1> QED BY <1>2 DEF AnswerCall, TypeOK

\* A client's call.
LEMMA ClientStepType ==
  ASSUME TypeOK, NEW c \in Client, ClientStep(c)
  PROVE  TypeOK'
<1>0. PICK k \in Key :
        \/ \E owner \in Owner, counter \in FirstCounter \cup {NoCounter} :
             CreateLeaseIfNotExists(c, k, owner, counter)
        \/ GetLease(c, k) \/ ListLeasesCall(c, k) \/ IsLeaseTableEmpty(c, k)
        \/ RenewLease(c, k)
        \/ \E newOwner \in Worker : TakeLease(c, k, newOwner)
        \/ EvictLease(c, k) \/ UpdateLease(c, k) \/ DeleteLeaseCAS(c, k)
        \/ DeleteLeaseUnconditionally(c, k)
  BY DEF ClientStep
<1>1. PICK op \in Operation, copy \in Copy \cup {NoCopy}, owner \in Owner,
           counter \in Counter :
        Send(c, op, k, copy, owner, counter)
  <2>1. copies[c][k] \in Copy \cup {NoCopy}
    BY DEF TypeOK
  <2>2. ASSUME NEW op \in Operation, NEW owner \in Owner, OnCopy(c, op, k, owner)
        PROVE  Send(c, op, k, copies[c][k], owner, NoCounter)
    BY <2>2 DEF OnCopy
  <2>3. /\ NoOwner \in Owner /\ \A w \in Worker : w \in Owner
        /\ NoCounter \in Counter /\ FirstCounter \subseteq Counter
    BY ManagerAssumption DEF Owner, Counter
  <2>4. CASE \E owner \in Owner, counter \in FirstCounter \cup {NoCounter} :
               CreateLeaseIfNotExists(c, k, owner, counter)
    BY <2>3, <2>4 DEF CreateLeaseIfNotExists, Operation
  <2>5. CASE GetLease(c, k)
    BY <2>5, <2>3 DEF GetLease, Operation
  <2>6. CASE ListLeasesCall(c, k)
    BY <2>6, <2>3 DEF ListLeasesCall, Operation
  <2>7. CASE IsLeaseTableEmpty(c, k)
    BY <2>7, <2>3 DEF IsLeaseTableEmpty, Operation
  <2>8. CASE RenewLease(c, k)
    BY <2>8, <2>1, <2>2, <2>3 DEF RenewLease, Operation
  <2>9. CASE \E newOwner \in Worker : TakeLease(c, k, newOwner)
    BY <2>9, <2>1, <2>2, <2>3 DEF TakeLease, Operation
  <2>10. CASE EvictLease(c, k)
    BY <2>10, <2>1, <2>2, <2>3 DEF EvictLease, Operation
  <2>11. CASE UpdateLease(c, k)
    BY <2>11, <2>1, <2>2, <2>3 DEF UpdateLease, Operation
  <2>12. CASE DeleteLeaseCAS(c, k)
    BY <2>12, <2>1, <2>2, <2>3 DEF DeleteLeaseCAS, Operation
  <2>13. CASE DeleteLeaseUnconditionally(c, k)
    BY <2>13, <2>1, <2>2, <2>3 DEF DeleteLeaseUnconditionally, Operation
  <2> QED BY <1>0, <2>4, <2>5, <2>6, <2>7, <2>8, <2>9, <2>10, <2>11, <2>12, <2>13
<1> QED BY <1>1, SendType

\* A write of the table.
LEMMA WriteItemType ==
  ASSUME TypeOK, NEW k \in Key, NEW item \in Item \cup {NoItem}, NEW ver \in Version,
         WriteItem(k, item, ver)
  PROVE  table' \in [Key -> Item \cup {NoItem}] /\ version' \in [Key -> Version]
BY DEF WriteItem, TypeOK

\* The call a step of the table is about.
LEMMA PendingCall ==
  ASSUME TypeOK, NEW c \in Client, Pending(c)
  PROVE  /\ calls[c] # NoCall
         /\ calls[c] \in Call
         /\ calls[c].key \in Key
         /\ calls[c].copy \in Copy \cup {NoCopy}
         /\ version[calls[c].key] \in Version
         /\ table[calls[c].key] \in Item \cup {NoItem}
<1>1. calls[c] # NoCall /\ calls[c] \in Call
  BY DEF Pending, TypeOK
<1>2. calls[c].key \in Key /\ calls[c].copy \in Copy \cup {NoCopy}
  BY <1>1 DEF Call
<1> QED BY <1>1, <1>2 DEF TypeOK

\* The update a call asks for is built from a copy.
LEMMA UpdateCall ==
  ASSUME ManagerInv, NEW c \in Client, Pending(c),
         calls[c].op \in {"renew", "take", "evict", "deleteCAS"}
  PROVE  /\ calls[c].copy \in Copy
         /\ calls[c].copy.lease.key = calls[c].key
         /\ CopyTrue(calls[c].copy)
<1>1. calls[c] # NoCall /\ calls[c].copy \in Copy \cup {NoCopy}
  BY PendingCall DEF ManagerInv
<1>2. calls[c].copy # NoCopy
  BY <1>1 DEF ManagerInv, CallsTrue
<1> QED BY <1>1, <1>2 DEF ManagerInv, CallsTrue

\* A step of the table.
LEMMA TableStepType ==
  ASSUME ManagerInv, NEW c \in Client, TableStep(c)
  PROVE  TypeOK'
<1> DEFINE call == calls[c]
<1>0. TypeOK /\ Pending(c)
  BY DEF ManagerInv, TableStep, PutApplied, PutRefused, UpdateApplied, DeleteApplied,
         ReadApplied, CallFails
<1>1. /\ call # NoCall /\ call \in Call /\ call.key \in Key
      /\ version[call.key] \in Version /\ table[call.key] \in Item \cup {NoItem}
  BY <1>0, PendingCall
<1>2. CASE PutApplied(c)
  <2> DEFINE item == ToDynamoDict(call.owner, call.counter, NoTime)
             ver == [born |-> version[call.key].born + 1, first |-> item.counter,
                     writes |-> 0]
             created == [lease |-> LeaseToCreate(call), version |-> ver]
  <2>0. item \in Item
    BY <1>1, NewItemType DEF Call
  <2>1. item \in Item /\ ver \in Version
    <3>1. item.counter \in Nat
      BY <2>0 DEF Item
    <3> HIDE DEF item
    <3> QED BY <1>1, <2>0, <3>1 DEF Version
  <2>2. table' \in [Key -> Item \cup {NoItem}] /\ version' \in [Key -> Version]
    BY <1>0, <1>1, <1>2, <2>1, WriteItemType DEF PutApplied
  <2>3. created \in Copy
    <3>1. LeaseToCreate(call) \in ClientLease
      BY <1>1, CreatedType
    <3> HIDE DEF ver
    <3> QED BY <2>1, <3>1 DEF Copy
  <2>4. PICK answer \in {"ok", "exists", "error"} :
          AnswerCall(c, answer, IF answer = "ok" THEN {created} ELSE {})
    BY <1>2 DEF PutApplied
  <2>5. calls' \in [Client -> Call \cup {NoCall}]
    BY <1>0, <1>1, <2>3, <2>4, AnswerType DEF Answer
  <2> QED BY <1>0, <1>2, <2>2, <2>5 DEF TypeOK, PutApplied
<1>3. CASE UpdateApplied(c)
  <2> DEFINE ver == [version[call.key] EXCEPT !.writes = @ + 1]
  <2>1. ver \in Version
    BY <1>1 DEF Version
  <2>2. /\ call.copy \in Copy /\ table[call.key] \in Item
        /\ call.copy.lease.counter \in Nat
    BY <1>0, <1>1, <1>3, UpdateCall, AcceptedIsCounted DEF UpdateApplied
  <2>3. UpdateValues(call) \in Item /\ UpdateResult(call, ver) \in SUBSET Copy
    BY <1>1, <1>3, <2>1, <2>2, UpdateValuesType, UpdateResultType DEF UpdateApplied
  <2>4. table' \in [Key -> Item \cup {NoItem}] /\ version' \in [Key -> Version]
    BY <1>0, <1>1, <1>3, <2>1, <2>3, WriteItemType DEF UpdateApplied
  <2>5. calls' \in [Client -> Call \cup {NoCall}]
    BY <1>0, <1>1, <1>3, <2>3, AnswerType DEF UpdateApplied, Answer
  <2> QED BY <1>0, <1>3, <2>4, <2>5 DEF TypeOK, UpdateApplied
<1>4. CASE DeleteApplied(c)
  <2>1. table' \in [Key -> Item \cup {NoItem}] /\ version' \in [Key -> Version]
    BY <1>0, <1>1, <1>4, WriteItemType DEF DeleteApplied
  <2>2. calls' \in [Client -> Call \cup {NoCall}]
    BY <1>0, <1>1, <1>4, AnswerType DEF DeleteApplied, Answer
  <2> QED BY <1>0, <1>4, <2>1, <2>2 DEF TypeOK, DeleteApplied
<1>5. CASE ReadApplied(c)
  <2>1. ReadItem(call.key) \in SUBSET Copy
    BY <1>0, <1>1, ReadItemType
  <2>2. UNION {ReadItem(k) : k \in ScannedKeys(table)} \in SUBSET Copy
    BY <1>0, ReadItemType DEF ScannedKeys
  <2>3. calls' \in [Client -> Call \cup {NoCall}]
    BY <1>0, <1>1, <1>5, <2>1, <2>2, AnswerType DEF ReadApplied, Answer
  <2> QED BY <1>0, <1>5, <2>3 DEF TypeOK, ReadApplied
<1>6. CASE PutRefused(c) \/ CallFails(c)
  <2>1. calls' \in [Client -> Call \cup {NoCall}]
    BY <1>0, <1>1, <1>6, AnswerType DEF PutRefused, CallFails, Answer
  <2> QED BY <1>0, <1>6, <2>1 DEF TypeOK, PutRefused, CallFails
<1> QED BY <1>2, <1>3, <1>4, <1>5, <1>6 DEF TableStep

\* What a callback leaves with its client under a key: what it had, or a copy
\* of its page.
LEMMA CallbackCopy ==
  ASSUME TypeOK, NEW c \in Client, Callback(c), NEW k \in Key
  PROVE  \/ copies'[c][k] = copies[c][k]
         \/ copies'[c][k] \in calls[c].page /\ copies'[c][k].lease.key = k
<1>1. copies'[c][k] = IF \E p \in calls[c].page : p.lease.key = k
                      THEN CHOOSE p \in calls[c].page : p.lease.key = k
                      ELSE copies[c][k]
  BY DEF Callback, TypeOK
<1>2. CASE \E p \in calls[c].page : p.lease.key = k
  <2>1. PICK q \in calls[c].page : q = CHOOSE p \in calls[c].page : p.lease.key = k
    BY <1>2
  <2>2. q.lease.key = k
    BY <1>2, <2>1
  <2> QED BY <1>1, <1>2, <2>1, <2>2
<1> QED BY <1>1, <1>2

\* A callback.
LEMMA CallbackType ==
  ASSUME TypeOK, NEW c \in Client, Callback(c) \/ GetAborts(c)
  PROVE  TypeOK'
<1>1. calls' \in [Client -> Call \cup {NoCall}]
  BY DEF Callback, GetAborts, TypeOK
<1>2. CASE Callback(c)
  <2>1. calls[c].page \in SUBSET Copy
    BY <1>2 DEF Callback, Answered, TypeOK, Call
  <2>2. copies' \in [Client -> [Key -> Copy \cup {NoCopy}]]
    <3>1. \A k \in Key : copies'[c][k] \in Copy \cup {NoCopy}
      BY <1>2, <2>1, CallbackCopy DEF TypeOK
    <3> DEFINE g == [k \in Key |-> IF \E p \in calls[c].page : p.lease.key = k
                         THEN CHOOSE p \in calls[c].page : p.lease.key = k
                         ELSE copies[c][k]]
    <3>2. copies' = [copies EXCEPT ![c] = g] /\ g = [k \in Key |-> g[k]]
      BY <1>2 DEF Callback
    <3> HIDE DEF g
    <3>3. copies'[c] = g
      BY <3>2 DEF TypeOK
    <3>4. g \in [Key -> Copy \cup {NoCopy}]
      BY <3>1, <3>2, <3>3
    <3> QED BY <3>2, <3>4 DEF TypeOK
  <2> QED BY <1>1, <1>2, <2>2 DEF TypeOK, Callback
<1>3. CASE GetAborts(c)
  BY <1>1, <1>3 DEF TypeOK, GetAborts, NoCopies
<1> QED BY <1>2, <1>3

LEMMA TypeStep == ManagerInv /\ [Next]_vars => TypeOK'
<1> SUFFICES ASSUME ManagerInv, [Next]_vars
             PROVE  TypeOK'
  OBVIOUS
<1>0. TypeOK
  BY DEF ManagerInv
<1>1. CASE UNCHANGED vars
  BY <1>0, <1>1 DEF TypeOK, vars
<1>2. CASE Next
  BY <1>0, <1>2, ClientStepType, TableStepType, CallbackType DEF Next
<1> QED BY <1>1, <1>2

------------------------------------------------------------------------------
(* The table and its history.                                              *)

\* What a step does to an item: nothing, or it puts a new one where there was
\* none, updates the one there, or deletes it.
ItemPut(k) ==
  /\ table[k] = NoItem
  /\ table'[k] # NoItem
  /\ version'[k] = [born |-> version[k].born + 1, first |-> table'[k].counter,
                    writes |-> 0]
  /\ ~evicted'[k]

ItemUpdated(k) ==
  /\ table[k] # NoItem
  /\ table'[k] # NoItem /\ table'[k].counter = table[k].counter + 1
  /\ version'[k] = [version[k] EXCEPT !.writes = @ + 1]
  /\ evicted'[k] => table'[k].owner = NoOwner

ItemDeleted(k) ==
  table'[k] = NoItem /\ version'[k] = version[k] /\ evicted'[k] = evicted[k]

ItemKept(k) ==
  table'[k] = table[k] /\ version'[k] = version[k] /\ evicted'[k] = evicted[k]

ItemStep(k) == ItemKept(k) \/ ItemPut(k) \/ ItemUpdated(k) \/ ItemDeleted(k)

\* What an update does to the counter and, when it evicts, to the owner.
LEMMA UpdateCounts ==
  ASSUME NEW call \in Call, call.copy \in Copy, table[call.key] \in Item,
         call.op \in {"renew", "take", "evict"}
  PROVE  /\ UpdateValues(call).counter = call.copy.lease.counter + 1
         /\ call.op = "evict" => UpdateValues(call).owner = NoOwner
         /\ call.op = "renew" => UpdateValues(call).owner = table[call.key].owner
BY DEF UpdateValues, RenewValues, TakeValues, EvictValues, Item

\* Every step treats every item so.
LEMMA EveryItemSteps ==
  ASSUME ManagerInv, [Next]_vars, NEW k \in Key
  PROVE  ItemStep(k)
<1>0. TypeOK
  BY DEF ManagerInv
<1>1. CASE UNCHANGED <<table, version, evicted>>
  BY <1>1 DEF ItemStep, ItemKept
<1>2. ASSUME NEW c \in Client, TableStep(c)
      PROVE  ItemStep(k)
  <2> DEFINE call == calls[c]
  <2>0. Pending(c)
    BY <1>2 DEF TableStep, PutApplied, PutRefused, UpdateApplied, DeleteApplied,
           ReadApplied, CallFails
  <2>1. /\ call # NoCall /\ call \in Call /\ call.key \in Key
        /\ version[call.key] \in Version /\ table[call.key] \in Item \cup {NoItem}
    BY <1>0, <2>0, PendingCall
  <2>2. CASE PutApplied(c)
    <3> DEFINE item == ToDynamoDict(call.owner, call.counter, NoTime)
    <3>1. item \in Item /\ item # NoItem
      BY <2>1, NewItemType, SentinelAssumption DEF Call
    <3>2. /\ table[call.key] = NoItem
          /\ table' = [table EXCEPT ![call.key] = item]
          /\ version' = [version EXCEPT ![call.key] =
                           [born |-> version[call.key].born + 1, first |-> item.counter,
                            writes |-> 0]]
          /\ evicted' = [evicted EXCEPT ![call.key] = FALSE]
      BY <2>2 DEF PutApplied, WriteItem
    <3> HIDE DEF item
    <3>3. CASE k = call.key
      BY <1>0, <2>1, <3>1, <3>2, <3>3 DEF TypeOK, ItemStep, ItemPut
    <3>4. CASE k # call.key
      BY <1>0, <2>1, <3>2, <3>4 DEF TypeOK, ItemStep, ItemKept
    <3> QED BY <3>3, <3>4
  <2>3. CASE UpdateApplied(c)
    <3>1. /\ call.copy \in Copy /\ table[call.key] \in Item /\ table[call.key] # NoItem
          /\ call.copy.lease.counter \in Nat
      BY <2>0, <2>1, <2>3, UpdateCall, AcceptedIsCounted DEF UpdateApplied, CASHolds
    <3>2. PICK item : item = UpdateValues(call)
      OBVIOUS
    <3>3. /\ item \in Item /\ item # NoItem
          /\ item.counter = table[call.key].counter + 1
          /\ call.op = "evict" => item.owner = NoOwner
      BY <2>1, <2>3, <3>1, <3>2, UpdateValuesType, UpdateCounts, SentinelAssumption
         DEF UpdateApplied, CASHolds
    <3>4. /\ table' = [table EXCEPT ![call.key] = item]
          /\ version' = [version EXCEPT ![call.key] =
                           [version[call.key] EXCEPT !.writes = @ + 1]]
          /\ evicted' = [evicted EXCEPT ![call.key] = call.op = "evict"]
      BY <2>3, <3>2 DEF UpdateApplied, WriteItem
    <3>5. CASE k = call.key
      <4>1. table'[k] = item
        BY <1>0, <2>1, <3>4, <3>5 DEF TypeOK
      <4>2. version'[k] = [version[k] EXCEPT !.writes = @ + 1]
        BY <1>0, <2>1, <3>4, <3>5 DEF TypeOK
      <4>3. evicted'[k] => call.op = "evict"
        BY <1>0, <2>1, <3>4, <3>5 DEF TypeOK
      <4> QED BY <3>1, <3>3, <3>5, <4>1, <4>2, <4>3 DEF ItemStep, ItemUpdated
    <3>6. CASE k # call.key
      BY <1>0, <2>1, <3>4, <3>6 DEF TypeOK, ItemStep, ItemKept
    <3> QED BY <3>5, <3>6
  <2>4. CASE DeleteApplied(c)
    <3>1. /\ table' = [table EXCEPT ![call.key] = NoItem]
          /\ version' = [version EXCEPT ![call.key] = version[call.key]]
          /\ evicted' = evicted
      BY <2>4 DEF DeleteApplied, WriteItem
    <3> QED BY <1>0, <2>1, <3>1 DEF TypeOK, ItemStep, ItemDeleted, ItemKept
  <2>5. CASE PutRefused(c) \/ ReadApplied(c) \/ CallFails(c)
    BY <1>1, <2>5 DEF PutRefused, ReadApplied, CallFails
  <2> QED BY <1>2, <2>2, <2>3, <2>4, <2>5 DEF TableStep
<1>3. ASSUME NEW c \in Client, ClientStep(c)
      PROVE  UNCHANGED <<table, version, evicted>>
  BY <1>3 DEF ClientStep, CreateLeaseIfNotExists, GetLease, ListLeasesCall,
       IsLeaseTableEmpty, RenewLease, TakeLease, EvictLease, UpdateLease, DeleteLeaseCAS,
       DeleteLeaseUnconditionally, OnCopy, Send
<1>4. CASE UNCHANGED vars
  BY <1>1, <1>4 DEF vars
<1>5. CASE Next
  BY <1>1, <1>2, <1>3, <1>5 DEF Next, Callback, GetAborts
<1> QED BY <1>4, <1>5

\* A copy stays true: the counters of one item only grow, a new item is a new
\* version, and an update leaves the copies of the versions before it behind.
LEMMA CopyStable ==
  ASSUME TypeOK, TypeOK', NEW copy \in Copy, CopyTrue(copy), ItemStep(copy.lease.key)
  PROVE  CopyTrue(copy)'
<1> DEFINE k == copy.lease.key
<1>1. /\ k \in Key /\ copy.version \in Version /\ version[k] \in Version
      /\ copy.version.born \in Nat /\ copy.version.writes \in Nat
      /\ version[k].born \in Nat /\ version[k].writes \in Nat
  BY DEF Copy, ClientLease, TypeOK, Version
<1>2. CASE ItemKept(k)
  BY <1>2 DEF ItemKept, CopyTrue
<1>3. CASE ItemPut(k)
  <2>1. /\ version'[k].born = version[k].born + 1
        /\ version'[k].writes = 0
    BY <1>3 DEF ItemPut
  <2>2. copy.version.born < version'[k].born
    BY <1>1, <2>1 DEF CopyTrue
  <2> QED BY <1>1, <2>1, <2>2 DEF CopyTrue
<1>4. CASE ItemUpdated(k)
  <2>1. /\ version'[k].born = version[k].born
        /\ version'[k].first = version[k].first
        /\ version'[k].writes = version[k].writes + 1
    BY <1>1, <1>4 DEF ItemUpdated, Version
  <2>2. copy.version # version'[k]
    BY <1>1, <2>1 DEF CopyTrue
  <2> QED BY <1>1, <2>1, <2>2 DEF CopyTrue
<1>5. CASE ItemDeleted(k)
  BY <1>5 DEF ItemDeleted, CopyTrue
<1> QED BY <1>2, <1>3, <1>4, <1>5 DEF ItemStep

\* The items stay true.
LEMMA ItemsTrueStep == ManagerInv /\ [Next]_vars => ItemsTrue'
<1> SUFFICES ASSUME ManagerInv, [Next]_vars, NEW k \in Key, table'[k] # NoItem
             PROVE  /\ table'[k].counter = version'[k].first + version'[k].writes
                    /\ evicted'[k] => table'[k].owner = NoOwner
  BY DEF ItemsTrue
<1>1. version[k] \in Version
  BY DEF ManagerInv, TypeOK
<1>2. ItemStep(k)
  BY EveryItemSteps
<1>3. CASE ItemKept(k)
  BY <1>3 DEF ItemKept, ManagerInv, ItemsTrue
<1>4. CASE ItemPut(k)
  <2>1. version'[k].first = table'[k].counter /\ version'[k].writes = 0
    BY <1>4 DEF ItemPut
  <2>2. version'[k].first \in Nat
    BY TypeStep DEF TypeOK, Version
  <2> QED BY <1>4, <2>1, <2>2 DEF ItemPut
<1>5. CASE ItemUpdated(k)
  <2>1. /\ version'[k].first = version[k].first
        /\ version'[k].writes = version[k].writes + 1
    BY <1>1, <1>5 DEF ItemUpdated, Version
  <2>2. table[k].counter = version[k].first + version[k].writes
    BY <1>5 DEF ItemUpdated, ManagerInv, ItemsTrue
  <2>3. version[k].first \in Nat /\ version[k].writes \in Nat
    BY <1>1 DEF Version
  <2> QED BY <1>5, <2>1, <2>2, <2>3 DEF ItemUpdated
<1> QED BY <1>2, <1>3, <1>4, <1>5 DEF ItemStep, ItemDeleted

------------------------------------------------------------------------------
(* The copies that calls hand over.                                        *)

\* A read shows the present version as it is.
LEMMA ReadsTrue ==
  ASSUME ManagerInv, NEW k \in Key, NEW p \in ReadItem(k)
  PROVE  CopyTrue(p) /\ p.lease.key = k
<1>1. /\ table[k] # NoItem /\ table[k].owner # NoOwner
      /\ p = [lease |-> FromDynamoDict(k, table[k]), version |-> version[k]]
  BY DEF ReadItem, Deserializes
<1>2. /\ p.lease.key = k /\ p.lease.counter = table[k].counter
      /\ p.lease.owner = table[k].owner /\ p.version = version[k]
  BY <1>1 DEF FromDynamoDict
<1>3. table[k].counter = version[k].first + version[k].writes /\ ~evicted[k]
  BY <1>1 DEF ManagerInv, ItemsTrue
<1>4. version[k].born \in Nat /\ version[k].writes \in Nat
  BY DEF ManagerInv, TypeOK, Version
<1> QED BY <1>2, <1>3, <1>4 DEF CopyTrue

\* A put hands back the lease that was written, as its caller made it.
LEMMA PutTrue ==
  ASSUME ManagerInv, NEW c \in Client, PutApplied(c), NEW p \in calls'[c].page
  PROVE  CopyTrue(p)'
<1> DEFINE call == calls[c]
           k == call.key
           item == ToDynamoDict(call.owner, call.counter, NoTime)
           ver == [born |-> version[k].born + 1, first |-> item.counter, writes |-> 0]
           created == [lease |-> LeaseToCreate(call), version |-> ver]
<1>1. TypeOK /\ Pending(c) /\ k \in Key /\ calls[c] \in Call
  BY PendingCall DEF ManagerInv, PutApplied
<1>2. /\ table'[k] = item /\ version'[k] = ver /\ ~evicted'[k]
  BY <1>1 DEF PutApplied, WriteItem, TypeOK
<1>3. p = created
  <2>1. PICK answer \in {"ok", "exists", "error"} :
          AnswerCall(c, answer, IF answer = "ok" THEN {created} ELSE {})
    BY DEF PutApplied
  <2>2. calls'[c].page = IF answer = "ok" THEN {created} ELSE {}
    <3> HIDE DEF created
    <3> QED BY <1>1, <2>1 DEF AnswerCall, TypeOK, Call
  <2> QED BY <2>2
<1>4. /\ p.lease.key = k /\ p.lease.counter = call.counter
      /\ p.lease.owner = item.owner /\ p.version = ver
  BY <1>3 DEF LeaseToCreate, ToDynamoDict
<1>5. call.counter # NoCounter => item.counter = call.counter /\ call.counter \in Nat
  BY <1>1 DEF ToDynamoDict, Call, Counter
<1>6. ver.born \in Nat /\ ver.first = item.counter /\ ver.writes = 0
  BY <1>1 DEF TypeOK, Version
<1>7. p.lease.counter = ver.first + ver.writes \/ p.lease.counter = NoCounter
  BY <1>4, <1>5, <1>6
<1> HIDE DEF item, ver, created
<1> QED BY <1>2, <1>4, <1>6, <1>7 DEF CopyTrue, Uncounted

\* A renewal shows the item it wrote, a take the one it overwrote.
LEMMA UpdateTrue ==
  ASSUME ManagerInv, TypeOK', [Next]_vars, NEW c \in Client, UpdateApplied(c),
         NEW p \in calls'[c].page
  PROVE  CopyTrue(p)'
<1> DEFINE call == calls[c]
           k == call.key
           ver == [version[k] EXCEPT !.writes = @ + 1]
           item == UpdateValues(call)
<1>1. /\ TypeOK /\ Pending(c) /\ k \in Key /\ call \in Call
      /\ call.op \in {"renew", "take", "evict"} /\ CASHolds(table[k], call.copy.lease)
  BY PendingCall DEF ManagerInv, UpdateApplied
<1>2. call.copy \in Copy /\ call.copy.lease.key = k /\ CopyTrue(call.copy)
  BY <1>1, UpdateCall
<1>3. table[k] \in Item /\ table[k] # NoItem /\ call.copy.lease.counter \in Nat
  BY <1>1, AcceptedIsCounted DEF TypeOK, CASHolds
<1>4. p \in UpdateResult(call, ver)
  <2>1. AnswerCall(c, "ok", UpdateResult(call, ver)) \/ AnswerCall(c, "error", {})
    BY DEF UpdateApplied
  <2>2. calls'[c].page = UpdateResult(call, ver) \/ calls'[c].page = {}
    BY <1>1, <2>1 DEF AnswerCall, TypeOK, Call
  <2> QED BY <2>2
<1>5. CASE call.op = "renew"
  <2>1. p = [lease |-> RenewResult(call.copy.lease), version |-> ver]
    BY <1>4, <1>5 DEF UpdateResult
  <2>2. /\ p.lease.key = k /\ p.lease.owner = call.copy.lease.owner
        /\ p.lease.counter = call.copy.lease.counter + 1 /\ p.version = ver
    BY <1>2, <2>1 DEF RenewResult, IncrementedCounter, Copy, ClientLease
  <2>3. /\ item.counter = call.copy.lease.counter + 1
        /\ item.owner = table[k].owner
    BY <1>1, <1>2, <1>3, <1>5, UpdateCounts
  <2>4. table'[k] = item /\ version'[k] = ver /\ ~evicted'[k]
    <3> HIDE DEF item
    <3>1. table' = [table EXCEPT ![k] = item] /\ version' = [version EXCEPT ![k] = ver]
      BY DEF UpdateApplied, WriteItem, item
    <3>2. evicted' = [evicted EXCEPT ![k] = FALSE]
      BY <1>5 DEF UpdateApplied
    <3> QED BY <1>1, <3>1, <3>2 DEF TypeOK
  <2>5. /\ call.copy.lease.counter = version[k].first + version[k].writes
        /\ call.copy.lease.owner = table[k].owner
    BY <1>1, <1>3 DEF CASHolds, ManagerInv, ItemsTrue
  <2>6. /\ ver.writes = version[k].writes + 1 /\ ver.born = version[k].born
        /\ ver.first = version[k].first
        /\ version[k].writes \in Nat /\ ver.born \in Nat /\ ver.first \in Nat
    BY <1>1 DEF TypeOK, Version
  <2> HIDE DEF item, ver
  <2> QED BY <2>2, <2>3, <2>4, <2>5, <2>6 DEF CopyTrue
<1>6. CASE call.op = "take"
  <2>1. p = call.copy
    BY <1>2, <1>4, <1>6 DEF UpdateResult, TakeResult, Copy
  <2>2. PICK copy \in Copy : copy = call.copy
    BY <1>2
  <2>3. ItemStep(copy.lease.key)
    BY <1>1, <1>2, <2>2, EveryItemSteps
  <2>4. CopyTrue(copy)'
    BY <1>1, <1>2, <2>2, <2>3, CopyStable
  <2>5. PICK q : q = p
    OBVIOUS
  <2>6. q = copy
    BY <2>1, <2>2, <2>5
  <2> QED BY <2>4, <2>5, <2>6
<1>7. CASE call.op = "evict"
  BY <1>4, <1>7 DEF UpdateResult
<1> QED BY <1>1, <1>5, <1>6, <1>7

\* A copy that was true is true after a step.
LEMMA CopyStaysTrue ==
  ASSUME ManagerInv, TypeOK', [Next]_vars, NEW copy \in Copy, CopyTrue(copy)
  PROVE  CopyTrue(copy)'
<1>1. copy.lease.key \in Key
  BY DEF Copy, ClientLease
<1>2. ItemStep(copy.lease.key)
  BY <1>1, EveryItemSteps
<1> QED BY <1>2, CopyStable DEF ManagerInv

\* The page of an answer shows what the table holds.
LEMMA PageTrue ==
  ASSUME ManagerInv, TypeOK', [Next]_vars, NEW c \in Client, TableStep(c),
         NEW p \in calls'[c].page
  PROVE  CopyTrue(p)'
<1> DEFINE call == calls[c]
<1>1. TypeOK /\ Pending(c)
  BY DEF ManagerInv, TableStep, PutApplied, PutRefused, UpdateApplied, DeleteApplied,
         ReadApplied, CallFails
<1>2. call \in Call /\ call.key \in Key /\ calls \in [Client -> Call \cup {NoCall}]
  BY <1>1, PendingCall DEF TypeOK
<1>3. CASE PutApplied(c)
  BY <1>3, PutTrue
<1>4. CASE UpdateApplied(c)
  BY <1>4, UpdateTrue
<1>5. CASE ReadApplied(c)
  <2>1. calls'[c].page = IF call.op = "get" THEN ReadItem(call.key)
                         ELSE UNION {ReadItem(k) : k \in ScannedKeys(table)}
    BY <1>2, <1>5 DEF ReadApplied, AnswerCall, Call
  <2>2. PICK k \in Key : p \in ReadItem(k)
    <3>1. ScannedKeys(table) \in SUBSET Key
      BY DEF ScannedKeys
    <3>2. CASE call.op = "get"
      BY <1>2, <2>1, <3>2
    <3>3. CASE call.op # "get"
      BY <2>1, <3>1, <3>3
    <3> QED BY <3>2, <3>3
  <2>3. p \in Copy /\ CopyTrue(p)
    BY <1>1, <2>2, ReadItemType, ReadsTrue
  <2> QED BY <2>3, CopyStaysTrue
<1>6. CASE PutRefused(c) \/ DeleteApplied(c) \/ CallFails(c)
  <2>1. \E answer \in {"exists", "ok", "error"} : AnswerCall(c, answer, {})
    BY <1>6 DEF PutRefused, DeleteApplied, CallFails
  <2>2. calls'[c].page = {}
    BY <1>2, <2>1 DEF AnswerCall, Call
  <2> QED BY <2>2
<1> QED BY <1>3, <1>4, <1>5, <1>6 DEF TableStep

\* Only a client's own steps, and the table's answer to it, change its call.
LEMMA CallChanges ==
  ASSUME TypeOK, [Next]_vars, NEW c \in Client, calls'[c] # calls[c]
  PROVE  ClientStep(c) \/ TableStep(c) \/ Callback(c) \/ GetAborts(c)
<1>1. Next
  BY DEF vars
<1>2. PICK d \in Client : ClientStep(d) \/ TableStep(d) \/ Callback(d) \/ GetAborts(d)
  BY <1>1 DEF Next
<1>3. \E x : calls' = [calls EXCEPT ![d] = x]
  <2>1. CASE ClientStep(d)
    BY <2>1 DEF ClientStep, CreateLeaseIfNotExists, GetLease, ListLeasesCall,
       IsLeaseTableEmpty, RenewLease, TakeLease, EvictLease, UpdateLease, DeleteLeaseCAS,
       DeleteLeaseUnconditionally, OnCopy, Send
  <2>2. ASSUME NEW answer, NEW page, AnswerCall(d, answer, page)
        PROVE  \E x : calls' = [calls EXCEPT ![d] = x]
    <3>1. calls' = [calls EXCEPT ![d] = [calls[d] EXCEPT !.answer = answer, !.page = page]]
      BY <2>2 DEF AnswerCall, TypeOK
    <3> QED BY <3>1
  <2>3. CASE TableStep(d)
    BY <2>2, <2>3 DEF TableStep, PutApplied, PutRefused, UpdateApplied, DeleteApplied,
       ReadApplied, CallFails
  <2>4. CASE Callback(d) \/ GetAborts(d)
    BY <2>4 DEF Callback, GetAborts
  <2> QED BY <1>2, <2>1, <2>3, <2>4
<1>4. d = c
  BY <1>3 DEF TypeOK
<1> QED BY <1>2, <1>4

\* The request of a call stays as it was sent.
LEMMA RequestKept ==
  ASSUME TypeOK, NEW c \in Client, TableStep(c)
  PROVE  /\ Pending(c)
         /\ calls'[c].op = calls[c].op
         /\ calls'[c].key = calls[c].key
         /\ calls'[c].copy = calls[c].copy
<1>1. Pending(c) /\ \E answer, page : AnswerCall(c, answer, page)
  BY DEF TableStep, PutApplied, PutRefused, UpdateApplied, DeleteApplied, ReadApplied,
         CallFails
<1>2. calls[c] \in Call
  BY <1>1, PendingCall
<1> QED BY <1>1, <1>2 DEF AnswerCall, TypeOK, Call

\* A client sends no copy, or one it has.
LEMMA SentIs ==
  ASSUME TypeOK, NEW c \in Client, ClientStep(c)
  PROVE  /\ calls'[c].page = {}
         /\ \/ /\ calls'[c].copy = NoCopy
               /\ calls'[c].op \in {"create", "get", "list", "isEmpty"}
            \/ /\ calls'[c].copy = copies[c][calls'[c].key]
               /\ calls'[c].copy # NoCopy
               /\ calls'[c].key \in Key
<1>1. ASSUME NEW op, NEW k \in Key, NEW copy, NEW owner, NEW counter,
             Send(c, op, k, copy, owner, counter)
      PROVE  /\ calls'[c].page = {} /\ calls'[c].copy = copy /\ calls'[c].op = op
             /\ calls'[c].key = k
  BY <1>1 DEF Send, TypeOK
<1>2. ASSUME NEW k \in Key, NEW op, NEW owner, OnCopy(c, op, k, owner)
      PROVE  /\ calls'[c].page = {} /\ calls'[c].copy = copies[c][k]
             /\ calls'[c].copy # NoCopy /\ calls'[c].key = k
  BY <1>1, <1>2 DEF OnCopy
<1>3. PICK k \in Key :
        \/ \E owner \in Owner, counter \in FirstCounter \cup {NoCounter} :
             CreateLeaseIfNotExists(c, k, owner, counter)
        \/ GetLease(c, k) \/ ListLeasesCall(c, k) \/ IsLeaseTableEmpty(c, k)
        \/ RenewLease(c, k)
        \/ \E newOwner \in Worker : TakeLease(c, k, newOwner)
        \/ EvictLease(c, k) \/ UpdateLease(c, k) \/ DeleteLeaseCAS(c, k)
        \/ DeleteLeaseUnconditionally(c, k)
  BY DEF ClientStep
<1>4. CASE \E owner \in Owner, counter \in FirstCounter \cup {NoCounter} :
             CreateLeaseIfNotExists(c, k, owner, counter)
  BY <1>1, <1>4 DEF CreateLeaseIfNotExists
<1>5. CASE GetLease(c, k) \/ ListLeasesCall(c, k) \/ IsLeaseTableEmpty(c, k)
  BY <1>1, <1>5 DEF GetLease, ListLeasesCall, IsLeaseTableEmpty
<1>6. CASE \/ RenewLease(c, k)
           \/ \E newOwner \in Worker : TakeLease(c, k, newOwner)
           \/ EvictLease(c, k) \/ UpdateLease(c, k) \/ DeleteLeaseCAS(c, k)
           \/ DeleteLeaseUnconditionally(c, k)
  <2>1. \E op, owner : OnCopy(c, op, k, owner)
    BY <1>6 DEF RenewLease, TakeLease, EvictLease, UpdateLease, DeleteLeaseCAS,
         DeleteLeaseUnconditionally
  <2> QED BY <1>2, <2>1
<1> QED BY <1>3, <1>4, <1>5, <1>6

\* Every call and its page stay true.
LEMMA CallsTrueStep == ManagerInv /\ [Next]_vars => CallsTrue'
<1> SUFFICES ASSUME ManagerInv, [Next]_vars, NEW c \in Client, calls'[c] # NoCall
             PROVE  (/\ \A p \in calls[c].page : CopyTrue(p)
                     /\ calls[c].copy # NoCopy =>
                          calls[c].copy.lease.key = calls[c].key /\ CopyTrue(calls[c].copy)
                     /\ calls[c].op \in {"renew", "take", "evict", "update", "deleteCAS", "delete"}
                          => calls[c].copy # NoCopy)'
  BY DEF CallsTrue
<1> DEFINE Writes == {"renew", "take", "evict", "update", "deleteCAS", "delete"}
<1>0. TypeOK /\ TypeOK' /\ calls'[c] \in Call
  BY TypeStep DEF ManagerInv, TypeOK
<1>1. calls'[c].page \in SUBSET Copy /\ calls'[c].copy \in Copy \cup {NoCopy}
  BY <1>0 DEF Call
<1>2. PICK copy : copy = calls'[c].copy
  OBVIOUS
<1>3. CASE calls'[c] = calls[c]
  <2>1. \A p \in calls'[c].page : CopyTrue(p)'
    BY <1>0, <1>1, <1>3, CopyStaysTrue DEF ManagerInv, CallsTrue
  <2>2. copy # NoCopy => copy.lease.key = calls'[c].key /\ CopyTrue(copy)
    BY <1>2, <1>3 DEF ManagerInv, CallsTrue
  <2>3. copy # NoCopy => CopyTrue(copy)'
    BY <1>0, <1>1, <1>2, <2>2, CopyStaysTrue
  <2>4. calls'[c].op \in Writes => copy # NoCopy
    BY <1>2, <1>3 DEF ManagerInv, CallsTrue
  <2> QED BY <1>2, <2>1, <2>2, <2>3, <2>4
<1>4. CASE ClientStep(c)
  <2>1. calls'[c].page = {}
    BY <1>0, <1>4, SentIs
  <2>2. copy # NoCopy => copy.lease.key = calls'[c].key /\ CopyTrue(copy)
    BY <1>0, <1>2, <1>4, SentIs DEF ManagerInv
  <2>3. copy # NoCopy => CopyTrue(copy)'
    BY <1>0, <1>1, <1>2, <2>2, CopyStaysTrue
  <2>4. calls'[c].op \in Writes => copy # NoCopy
    BY <1>0, <1>2, <1>4, SentIs
  <2> QED BY <1>2, <2>1, <2>2, <2>3, <2>4
<1>5. CASE TableStep(c)
  <2>1. \A p \in calls'[c].page : CopyTrue(p)'
    BY <1>0, <1>5, PageTrue
  <2>2. /\ calls[c] # NoCall /\ copy = calls[c].copy /\ calls'[c].key = calls[c].key
        /\ calls'[c].op = calls[c].op
    BY <1>0, <1>2, <1>5, RequestKept DEF Pending
  <2>3. copy # NoCopy => copy.lease.key = calls'[c].key /\ CopyTrue(copy)
    BY <2>2 DEF ManagerInv, CallsTrue
  <2>4. copy # NoCopy => CopyTrue(copy)'
    BY <1>0, <1>1, <1>2, <2>3, CopyStaysTrue
  <2>5. calls'[c].op \in Writes => copy # NoCopy
    BY <2>2 DEF ManagerInv, CallsTrue
  <2> QED BY <1>2, <2>1, <2>3, <2>4, <2>5
<1>6. CASE Callback(c) \/ GetAborts(c)
  BY <1>0, <1>6 DEF Callback, GetAborts, TypeOK
<1> QED BY <1>0, <1>3, <1>4, <1>5, <1>6, CallChanges

\* Every client's copies stay true.
LEMMA CopiesTrueStep ==
  ASSUME ManagerInv, [Next]_vars, NEW c \in Client, NEW k \in Key, copies'[c][k] # NoCopy
  PROVE  copies'[c][k].lease.key = k /\ CopyTrue(copies[c][k])'
<1>0. TypeOK /\ TypeOK' /\ copies'[c][k] \in Copy
  BY TypeStep DEF ManagerInv, TypeOK
<1>1. PICK copy : copy = copies'[c][k]
  OBVIOUS
<1>2. CASE copy = copies[c][k]
  <2>1. copy.lease.key = k /\ CopyTrue(copy)
    BY <1>1, <1>2 DEF ManagerInv
  <2>2. CopyTrue(copy)'
    BY <1>0, <1>1, <2>1, CopyStaysTrue
  <2> QED BY <1>1, <2>1, <2>2
<1>3. CASE copy # copies[c][k]
  <2>1. PICK d \in Client : Callback(d) \/ GetAborts(d)
    <3>1. Next
      BY <1>1, <1>3 DEF vars
    <3>2. ASSUME NEW d \in Client, ClientStep(d)
          PROVE  copies' = copies
      BY <3>2 DEF ClientStep, CreateLeaseIfNotExists, GetLease, ListLeasesCall,
       IsLeaseTableEmpty, RenewLease, TakeLease, EvictLease, UpdateLease, DeleteLeaseCAS,
       DeleteLeaseUnconditionally, OnCopy, Send
    <3>3. ASSUME NEW d \in Client, TableStep(d)
          PROVE  copies' = copies
      BY <3>3 DEF TableStep, PutApplied, PutRefused, UpdateApplied, DeleteApplied,
         ReadApplied, CallFails
    <3> QED BY <1>1, <1>3, <3>1, <3>2, <3>3 DEF Next
  <2>2. d = c
    BY <1>0, <1>1, <1>3, <2>1 DEF Callback, GetAborts, TypeOK
  <2>3. Callback(c)
    BY <1>0, <1>1, <2>1, <2>2 DEF GetAborts, NoCopies, TypeOK
  <2>4. copy \in calls[c].page /\ copy.lease.key = k
    BY <1>0, <1>1, <1>3, <2>3, CallbackCopy
  <2>5. CopyTrue(copy)
    BY <2>3, <2>4 DEF Callback, Answered, ManagerInv, CallsTrue
  <2>6. CopyTrue(copy)'
    BY <1>0, <1>1, <2>5, CopyStaysTrue
  <2> QED BY <1>1, <2>4, <2>6
<1> QED BY <1>2, <1>3

------------------------------------------------------------------------------
(* The invariant, and the properties it carries.                           *)

LEMMA ManagerInit == Init => ManagerInv
<1> SUFFICES ASSUME Init
             PROVE  ManagerInv
  OBVIOUS
<1>1. TypeOK
  BY DEF Init, TypeOK, Version, NoCopies
<1>2. ItemsTrue
  BY DEF Init, ItemsTrue
<1>3. CallsTrue
  BY DEF Init, CallsTrue
<1>4. \A c \in Client, k \in Key : copies[c][k] = NoCopy
  BY DEF Init, NoCopies
<1> QED BY <1>1, <1>2, <1>3, <1>4 DEF ManagerInv

LEMMA ManagerStep == ManagerInv /\ [Next]_vars => ManagerInv'
<1> SUFFICES ASSUME ManagerInv, [Next]_vars
             PROVE  ManagerInv'
  OBVIOUS
<1>1. TypeOK' /\ ItemsTrue' /\ CallsTrue'
  BY TypeStep, ItemsTrueStep, CallsTrueStep
<1>2. ASSUME NEW c \in Client, NEW k \in Key
      PROVE  (copies[c][k] # NoCopy => copies[c][k].lease.key = k /\ CopyTrue(copies[c][k]))'
  BY CopiesTrueStep
<1> QED BY <1>1, <1>2 DEF ManagerInv

\* The types, and what a copy's version says of the item (LeaseManager's calls
\* and callbacks).
THEOREM ManagerInvariant == Spec => []ManagerInv
<1>1. Init => ManagerInv
  BY ManagerInit
<1>2. ManagerInv /\ [Next]_vars => ManagerInv'
  BY ManagerStep
<1> QED BY <1>1, <1>2, PTL DEF Spec

\* A copy that names the present version shows the item's owner and counter,
\* whatever answers were lost (the callbacks of create, get, list, renew and
\* take); only the lease of a creator who gave it no counter still has none.
THEOREM CopiesAreTrue == Spec => []CopiesTrue
<1>1. ManagerInv => CopiesTrue
  <2> SUFFICES ASSUME ManagerInv, NEW c \in Client, NEW k \in Key,
                      copies[c][k] # NoCopy, copies[c][k].version = version[k],
                      table[k] # NoItem
               PROVE  /\ copies[c][k].lease.owner = table[k].owner
                      /\ \/ CASHolds(table[k], copies[c][k].lease)
                         \/ Uncounted(copies[c][k])
    BY DEF CopiesTrue
  <2>1. copies[c][k].lease.key = k /\ CopyTrue(copies[c][k])
    BY DEF ManagerInv
  <2>2. table[k].counter = version[k].first + version[k].writes
    BY DEF ManagerInv, ItemsTrue
  <2>3. copies[c][k].lease.owner = table[k].owner
    BY <2>1 DEF CopyTrue
  <2>4. copies[c][k].lease.counter = table[k].counter \/ Uncounted(copies[c][k])
    BY <2>1, <2>2 DEF CopyTrue
  <2> QED BY <2>3, <2>4 DEF CASHolds
<1> QED BY <1>1, ManagerInvariant, PTL

\* A conditional request that the table accepts was built from the version it
\* hits, unless the item was deleted and made anew since.
LEMMA AcceptedIsRead ==
  ASSUME ManagerInv, NEW c \in Client, Pending(c),
         calls[c].op \in {"renew", "take", "evict", "deleteCAS"},
         CASHolds(table[calls[c].key], calls[c].copy.lease),
         calls[c].copy.version.born = version[calls[c].key].born
  PROVE  calls[c].copy.version = version[calls[c].key]
<1> DEFINE k == calls[c].key
           copy == calls[c].copy
<1>1. copy \in Copy /\ CopyTrue(copy) /\ k \in Key /\ version[k] \in Version
  BY UpdateCall, PendingCall DEF ManagerInv
<1>2. copy.lease.counter = table[k].counter /\ table[k] # NoItem
  BY DEF CASHolds
<1>3. copy.version.first = version[k].first
  BY <1>1, UpdateCall DEF CopyTrue
<1>4. copy.lease.counter \in Nat /\ copy.lease.counter # NoCounter
  BY <1>1, AcceptedIsCounted DEF ManagerInv, TypeOK
<1>5. copy.version.first + copy.version.writes = version[k].first + version[k].writes
  BY <1>1, <1>2, <1>4 DEF CopyTrue, Uncounted, ManagerInv, ItemsTrue
<1>6. /\ copy.version.first \in Nat /\ copy.version.writes \in Nat
      /\ version[k].writes \in Nat
  BY <1>1 DEF Copy, Version
<1>7. copy.version.writes = version[k].writes
  BY <1>3, <1>5, <1>6
<1> QED BY <1>1, <1>3, <1>7 DEF Copy, Version

\* What a client's answered call may have done to the table.
LEMMA WriterIs ==
  ASSUME TypeOK, NEW c \in Client, TableStep(c), NEW k \in Key, table'[k] # table[k]
  PROVE  /\ k = calls[c].key
         /\ \/ table[k] = NoItem
            \/ table'[k] = NoItem /\ calls[c].op = "delete"
            \/ table'[k] = NoItem /\ calls[c].op = "deleteCAS"
                 /\ CASHolds(table[k], calls[c].copy.lease)
            \/ calls[c].op \in {"renew", "take", "evict"}
                 /\ CASHolds(table[k], calls[c].copy.lease)
<1> DEFINE call == calls[c]
<1>1. CASE PutApplied(c)
  <2>1. /\ table[call.key] = NoItem
        /\ \E item : table' = [table EXCEPT ![call.key] = item]
    BY <1>1 DEF PutApplied, WriteItem
  <2> QED BY <2>1 DEF TypeOK
<1>2. CASE UpdateApplied(c)
  <2>1. /\ call.op \in {"renew", "take", "evict"}
        /\ CASHolds(table[call.key], call.copy.lease)
        /\ \E item : table' = [table EXCEPT ![call.key] = item]
    BY <1>2 DEF UpdateApplied, WriteItem
  <2> QED BY <2>1 DEF TypeOK
<1>3. CASE DeleteApplied(c)
  <2>1. /\ \/ call.op = "delete"
           \/ call.op = "deleteCAS" /\ CASHolds(table[call.key], call.copy.lease)
        /\ table' = [table EXCEPT ![call.key] = NoItem]
    BY <1>3 DEF DeleteApplied, WriteItem
  <2> QED BY <2>1 DEF TypeOK
<1>4. CASE PutRefused(c) \/ ReadApplied(c) \/ CallFails(c)
  BY <1>4 DEF PutRefused, ReadApplied, CallFails
<1> QED BY <1>1, <1>2, <1>3, <1>4 DEF TableStep

\* Only the table's steps write it.
LEMMA WriterExists ==
  ASSUME [Next]_vars, NEW k \in Key, table'[k] # table[k]
  PROVE  Next /\ \E c \in Client : TableStep(c)
<1>1. Next
  BY DEF vars
<1>2. ASSUME NEW c \in Client, ClientStep(c)
      PROVE  table' = table
  BY <1>2 DEF ClientStep, CreateLeaseIfNotExists, GetLease, ListLeasesCall,
       IsLeaseTableEmpty, RenewLease, TakeLease, EvictLease, UpdateLease, DeleteLeaseCAS,
       DeleteLeaseUnconditionally, OnCopy, Send
<1> QED BY <1>1, <1>2 DEF Next, Callback, GetAborts

\* Renewals, takes, evictions and conditional deletions hit the version they
\* were built from, or the item was deleted and created again since
\* (internalUpdateLease, deleteLeaseCAS: the expectations they send).
THEOREM AcceptedCallsReadWhatTheyHit == Spec => CASHitsWhatWasRead
<1> DEFINE Hit(c) ==
      /\ Pending(c)
      /\ calls[c].op \in {"renew", "take", "evict", "deleteCAS"}
      /\ table'[calls[c].key] # table[calls[c].key]
      /\ calls'[c] # calls[c]
      /\ calls[c].copy.version.born = version[calls[c].key].born
      => calls[c].copy.version = version[calls[c].key]
<1>1. ASSUME ManagerInv, [Next]_vars, NEW c \in Client
      PROVE  Hit(c)
  <2> SUFFICES ASSUME Pending(c),
                      calls[c].op \in {"renew", "take", "evict", "deleteCAS"},
                      table'[calls[c].key] # table[calls[c].key],
                      calls'[c] # calls[c],
                      calls[c].copy.version.born = version[calls[c].key].born
               PROVE  calls[c].copy.version = version[calls[c].key]
    OBVIOUS
  <2>1. TypeOK /\ calls[c].key \in Key
    BY <1>1, PendingCall DEF ManagerInv
  <2>2. ~ClientStep(c) /\ ~Callback(c) /\ ~GetAborts(c)
    BY DEF ClientStep, CreateLeaseIfNotExists, GetLease, ListLeasesCall,
       IsLeaseTableEmpty, RenewLease, TakeLease, EvictLease, UpdateLease, DeleteLeaseCAS,
       DeleteLeaseUnconditionally, OnCopy, Send, Callback, GetAborts, Answered, Pending
  <2>3. TableStep(c)
    BY <1>1, <2>1, <2>2, CallChanges
  <2>4. CASHolds(table[calls[c].key], calls[c].copy.lease)
    <3>1. CASE table[calls[c].key] # NoItem
      BY <2>1, <2>3, <3>1, WriterIs
    <3>2. CASE table[calls[c].key] = NoItem
      BY <2>3, <3>2 DEF TableStep, PutApplied, PutRefused, UpdateApplied, DeleteApplied,
         ReadApplied, CallFails, CASHolds, WriteItem
    <3> QED BY <3>1, <3>2
  <2> QED BY <1>1, <2>4, AcceptedIsRead
<1>2. ManagerInv /\ [Next]_vars => [\A c \in Client : Hit(c)]_vars
  BY <1>1
<1>3. [][\A c \in Client : Hit(c)]_vars => CASHitsWhatWasRead
  BY DEF CASHitsWhatWasRead
<1> QED BY <1>2, <1>3, ManagerInvariant, PTL DEF Spec

\* What EvictedIsLost says of one key.
StaysLost(k) ==
  /\ evicted[k] /\ table[k] # NoItem /\ table'[k] # table[k]
  => \/ table'[k] = NoItem
     \/ \E c \in Client : /\ Pending(c)
                          /\ calls'[c] # calls[c]
                          /\ calls[c].copy # NoCopy
                          /\ calls[c].copy.version.born < version[k].born

\* An evicted lease stays as it is until it is deleted, but for copies of an
\* item that was under the key before (evictLease leaves no leaseOwner, and an
\* item without one does not deserialize).
THEOREM EvictedLeasesStayLost == Spec => EvictedIsLost
<1>1. ASSUME ManagerInv, [Next]_vars, NEW k \in Key
      PROVE  StaysLost(k)
  <2> SUFFICES ASSUME evicted[k], table[k] # NoItem, table'[k] # table[k], table'[k] # NoItem
               PROVE  \E c \in Client : /\ Pending(c)
                              /\ calls'[c] # calls[c]
                              /\ calls[c].copy # NoCopy
                              /\ calls[c].copy.version.born < version[k].born
    BY DEF StaysLost
  <2>1. PICK c \in Client : TableStep(c)
    BY <1>1, WriterExists
  <2>2. /\ TypeOK /\ Pending(c) /\ k = calls[c].key
        /\ calls[c].op \in {"renew", "take", "evict"}
        /\ CASHolds(table[k], calls[c].copy.lease)
    BY <1>1, <2>1, WriterIs, RequestKept DEF ManagerInv
  <2>3. /\ calls[c].copy \in Copy /\ calls[c].copy.lease.key = k
        /\ CopyTrue(calls[c].copy)
    BY <1>1, <2>2, UpdateCall
  <2>4. calls[c].copy # NoCopy
    BY <2>3, ManagerAssumption
  <2>5. calls[c].copy.version # version[k]
    BY <2>3 DEF CopyTrue
  <2>6. calls[c].copy.version.born # version[k].born
    BY <1>1, <2>2, <2>5, AcceptedIsRead
  <2>7. calls[c].copy.version.born < version[k].born
    <3>1. calls[c].copy.version.born \in Nat /\ version[k].born \in Nat
      BY <2>2, <2>3 DEF Copy, Version, TypeOK
    <3> QED BY <2>3, <2>6, <3>1 DEF CopyTrue
  <2>8. calls'[c] # calls[c]
    <3>1. calls'[c].answer # "none" /\ calls[c].answer = "none"
      BY <2>1, <2>2, PendingCall DEF TableStep, PutApplied, PutRefused, UpdateApplied,
         DeleteApplied, ReadApplied, CallFails, AnswerCall, TypeOK, Call, Pending
    <3> QED BY <3>1
  <2> QED BY <2>2, <2>4, <2>7, <2>8
<1>2. ManagerInv /\ [Next]_vars => [\A k \in Key : StaysLost(k)]_vars
  BY <1>1
<1>3. [][\A k \in Key : StaysLost(k)]_vars => EvictedIsLost
  BY DEF EvictedIsLost, StaysLost
<1> QED BY <1>2, <1>3, ManagerInvariant, PTL DEF Spec
==============================================================================

---------------------------- MODULE LeaseManager ----------------------------
(***************************************************************************)
(* LeaseManager: asynchronous calls of any number of clients on one lease   *)
(* table.  A call builds a request from the client's copy of a lease, the   *)
(* table answers it or does not, and the callback gives the client its new  *)
(* copy.  LeaseCoordinator models the calls of the renewer and the taker    *)
(* with their timing; here all the operations meet, deletions included.     *)
(***************************************************************************)
EXTENDS Lease

CONSTANTS
  Client,
  NoCopy,        \* the client has no copy of the lease
  NoCall,        \* the client has no call in flight
  MaxBorn,       \* bound: items created under one key, one after the other
  FirstCounter,  \* bound: the counters that callers give the leases they create
  MaxWrites      \* bound: writes of one item

VARIABLES
  table,    \* the lease table
  version,  \* history: which item under the key this is, the counter it was
            \* created with, and its writes since
  evicted,  \* history: the last write of the item evicted it
  copies,   \* per client, the last copy of each lease that a call gave it
  calls     \* per client, its call in flight

vars == <<table, version, evicted, copies, calls>>

Version == [born : Nat, first : Nat, writes : Nat]

\* The counter of a lease that a caller made himself.
Counter == Nat \cup {NoCounter}

\* A lease as a client holds it: read from the table, or made to be created.
ClientLease == [key : Key, owner : Owner, counter : Counter, switches : Nat,
                inc : Nat \cup {NoTime}]

Copy == [lease : ClientLease, version : Version]

Operation == {"create", "get", "list", "isEmpty", "renew", "take", "evict", "update",
              "deleteCAS", "delete"}

Answer == {"none", "ok", "exists", "error"}

\* copy: what the request is built from; owner and counter: those of a lease to
\* be created, or the new owner; page: the copies a success hands over.
Call == [op : Operation, key : Key, copy : Copy \cup {NoCopy}, owner : Owner,
         counter : Counter, answer : Answer, page : SUBSET Copy]

ASSUME ManagerAssumption ==
  /\ NoCopy \notin Copy
  /\ NoCall \notin Call
  /\ MaxBorn \in Nat
  /\ FirstCounter \subseteq Nat
  /\ MaxWrites \in Nat

TypeOK ==
  /\ table \in [Key -> Item \cup {NoItem}]
  /\ version \in [Key -> Version]
  /\ evicted \in [Key -> BOOLEAN]
  /\ copies \in [Client -> [Key -> Copy \cup {NoCopy}]]
  /\ calls \in [Client -> Call \cup {NoCall}]

NoCopies == [k \in Key |-> NoCopy]

Init ==
  /\ table = [k \in Key |-> NoItem]
  /\ version = [k \in Key |-> [born |-> 0, first |-> 0, writes |-> 0]]
  /\ evicted = [k \in Key |-> FALSE]
  /\ copies = [c \in Client |-> NoCopies]
  /\ calls = [c \in Client |-> NoCall]

------------------------------------------------------------------------------
(* A client calls an operation.                                            *)

Send(c, op, k, copy, owner, counter) ==
  /\ calls[c] = NoCall
  /\ calls' = [calls EXCEPT ![c] = [op |-> op, key |-> k, copy |-> copy, owner |-> owner,
                                    counter |-> counter, answer |-> "none", page |-> {}]]
  /\ UNCHANGED <<table, version, evicted, copies>>

CreateLeaseIfNotExists(c, k, owner, counter) == Send(c, "create", k, NoCopy, owner, counter)

GetLease(c, k) == Send(c, "get", k, NoCopy, NoOwner, NoCounter)

ListLeasesCall(c, k) == Send(c, "list", k, NoCopy, NoOwner, NoCounter)

IsLeaseTableEmpty(c, k) == Send(c, "isEmpty", k, NoCopy, NoOwner, NoCounter)

\* The operations on a lease the client has a copy of.
OnCopy(c, op, k, owner) ==
  copies[c][k] # NoCopy /\ Send(c, op, k, copies[c][k], owner, NoCounter)

RenewLease(c, k) == OnCopy(c, "renew", k, NoOwner)

TakeLease(c, k, newOwner) == OnCopy(c, "take", k, newOwner)

EvictLease(c, k) == OnCopy(c, "evict", k, NoOwner)

UpdateLease(c, k) == OnCopy(c, "update", k, NoOwner)

DeleteLeaseCAS(c, k) == OnCopy(c, "deleteCAS", k, NoOwner)

DeleteLeaseUnconditionally(c, k) == OnCopy(c, "delete", k, NoOwner)

------------------------------------------------------------------------------
(* The table applies a request, answers it, or neither.                    *)

Pending(c) == calls[c] # NoCall /\ calls[c].answer = "none"

AnswerCall(c, answer, page) ==
  calls' = [calls EXCEPT ![c].answer = answer, ![c].page = page]

WriteItem(k, item, ver) ==
  /\ table' = [table EXCEPT ![k] = item]
  /\ version' = [version EXCEPT ![k] = ver]

\* The lease that a call is to create, as its caller made it.
LeaseToCreate(call) ==
  [key |-> call.key, owner |-> call.owner, counter |-> call.counter, switches |-> 0,
   inc |-> NoTime]

\* The item is not there.  The caller gets back his own lease and not the item
\* that was written.  The answer of a put that was applied may be lost, and its
\* automatic retry finds the item.
PutApplied(c) ==
  LET call == calls[c]
      item == ToDynamoDict(call.owner, call.counter, NoTime)
      ver == [born |-> version[call.key].born + 1, first |-> item.counter, writes |-> 0]
  IN
  /\ Pending(c) /\ call.op = "create"
  /\ table[call.key] = NoItem
  /\ version[call.key].born < MaxBorn
  /\ WriteItem(call.key, item, ver)
  /\ evicted' = [evicted EXCEPT ![call.key] = FALSE]
  /\ \E answer \in {"ok", "exists", "error"} :
       AnswerCall(c, answer,
         IF answer = "ok" THEN {[lease |-> LeaseToCreate(call), version |-> ver]} ELSE {})
  /\ UNCHANGED copies

PutRefused(c) ==
  /\ Pending(c) /\ calls[c].op = "create"
  /\ table[calls[c].key] # NoItem
  /\ AnswerCall(c, "exists", {})
  /\ UNCHANGED <<table, version, evicted, copies>>

\* What internalUpdateLease writes, and the copy its caller hands over.
UpdateValues(call) ==
  LET item == table[call.key]
      lease == call.copy.lease
  IN  CASE call.op = "renew" -> RenewValues(item, lease)
        [] call.op = "take"  -> TakeValues(item, lease, call.owner)
        [] call.op = "evict" -> EvictValues(item, lease)

UpdateResult(call, ver) ==
  CASE call.op = "renew" -> {[lease |-> RenewResult(call.copy.lease), version |-> ver]}
    [] call.op = "take"  -> {[call.copy EXCEPT !.lease = TakeResult(@)]}
    [] call.op = "evict" -> {}

UpdateApplied(c) ==
  LET call == calls[c]
      ver == [version[call.key] EXCEPT !.writes = @ + 1]
  IN
  /\ Pending(c) /\ call.op \in {"renew", "take", "evict"}
  /\ CASHolds(table[call.key], call.copy.lease)
  /\ version[call.key].writes < MaxWrites
  /\ WriteItem(call.key, UpdateValues(call), ver)
  /\ evicted' = [evicted EXCEPT ![call.key] = call.op = "evict"]
  /\ \/ AnswerCall(c, "ok", UpdateResult(call, ver))
     \/ AnswerCall(c, "error", {})
  /\ UNCHANGED copies

\* Deleting an item that is not there succeeds too.
DeleteApplied(c) ==
  LET call == calls[c] IN
  /\ Pending(c)
  /\ \/ call.op = "delete"
     \/ call.op = "deleteCAS" /\ CASHolds(table[call.key], call.copy.lease)
  /\ WriteItem(call.key, NoItem, version[call.key])
  /\ \E answer \in {"ok", "error"} : AnswerCall(c, answer, {})
  /\ UNCHANGED <<evicted, copies>>

ReadItem(k) ==
  IF table[k] # NoItem /\ Deserializes(table[k])
  THEN {[lease |-> FromDynamoDict(k, table[k]), version |-> version[k]]}
  ELSE {}

ReadApplied(c) ==
  LET call == calls[c] IN
  /\ Pending(c) /\ call.op \in {"get", "list", "isEmpty"}
  /\ AnswerCall(c, "ok", IF call.op = "get" THEN ReadItem(call.key)
                         ELSE UNION {ReadItem(k) : k \in ScannedKeys(table)})
  /\ UNCHANGED <<table, version, evicted, copies>>

\* A call that does not reach the table, or whose expectation does not hold.
\* updateLease always ends so: its request names no table.
CallFails(c) ==
  /\ Pending(c)
  /\ AnswerCall(c, "error", {})
  /\ UNCHANGED <<table, version, evicted, copies>>

------------------------------------------------------------------------------
(* The callback.                                                           *)

Answered(c) == calls[c] # NoCall /\ calls[c].answer # "none"

GetFails(c) == calls[c].op = "get" /\ calls[c].answer = "ok" /\ calls[c].page = {}

Callback(c) ==
  /\ Answered(c)
  /\ ~GetFails(c)
  /\ copies' =
       [copies EXCEPT ![c] =
          [k \in Key |-> IF \E p \in calls[c].page : p.lease.key = k
                         THEN CHOOSE p \in calls[c].page : p.lease.key = k
                         ELSE copies[c][k]]]
  /\ calls' = [calls EXCEPT ![c] = NoCall]
  /\ UNCHANGED <<table, version, evicted>>

\* getLease: CHECK(parsedLease.IsSuccess()) ends the process.
GetAborts(c) ==
  /\ Answered(c)
  /\ GetFails(c)
  /\ copies' = [copies EXCEPT ![c] = NoCopies]
  /\ calls' = [calls EXCEPT ![c] = NoCall]
  /\ UNCHANGED <<table, version, evicted>>

ClientStep(c) ==
  \E k \in Key :
    \/ \E owner \in Owner, counter \in FirstCounter \cup {NoCounter} :
         CreateLeaseIfNotExists(c, k, owner, counter)
    \/ GetLease(c, k)
    \/ ListLeasesCall(c, k)
    \/ IsLeaseTableEmpty(c, k)
    \/ RenewLease(c, k)
    \/ \E newOwner \in Worker : TakeLease(c, k, newOwner)
    \/ EvictLease(c, k)
    \/ UpdateLease(c, k)
    \/ DeleteLeaseCAS(c, k)
    \/ DeleteLeaseUnconditionally(c, k)

TableStep(c) ==
  \/ PutApplied(c)
  \/ PutRefused(c)
  \/ UpdateApplied(c)
  \/ DeleteApplied(c)
  \/ ReadApplied(c)
  \/ CallFails(c)

Next == \E c \in Client : ClientStep(c) \/ TableStep(c) \/ Callback(c) \/ GetAborts(c)

Spec == Init /\ [][Next]_vars

------------------------------------------------------------------------------
(* Properties.                                                             *)

\* Conditional updates and deletions hit the version they were built from, or
\* the item was deleted and created again since: the counters then repeat.
CASHitsWhatWasRead ==
  [][\A c \in Client :
       LET call == calls[c] IN
       /\ Pending(c)
       /\ call.op \in {"renew", "take", "evict", "deleteCAS"}
       /\ table'[call.key] # table[call.key]
       /\ calls'[c] # calls[c]
       /\ call.copy.version.born = version[call.key].born
       => call.copy.version = version[call.key]]_vars

\* A lease that was made without a counter, for an item nobody has written since.
Uncounted(copy) == copy.lease.counter = NoCounter /\ copy.version.writes = 0

\* A copy that names the present version shows the item's owner and its counter
\* (so that the next update built from it goes through), whatever became of the
\* answers of other calls; a take's copy never names it.  The one exception is
\* the creator's own lease, which has no counter if he gave it none.
CopiesTrue ==
  \A c \in Client, k \in Key :
    /\ copies[c][k] # NoCopy
    /\ copies[c][k].version = version[k]
    /\ table[k] # NoItem
    => /\ copies[c][k].lease.owner = table[k].owner
       /\ CASHolds(table[k], copies[c][k].lease) \/ Uncounted(copies[c][k])

\* An evicted lease is lost to everybody: no listing shows it and no copy
\* matches it, until it is deleted (or a copy of an item deleted before
\* happens to match).
EvictedIsLost ==
  [][\A k \in Key :
       /\ evicted[k] /\ table[k] # NoItem /\ table'[k] # table[k]
       => \/ table'[k] = NoItem
          \/ \E c \in Client : /\ Pending(c)
                               /\ calls'[c] # calls[c]
                               /\ calls[c].copy # NoCopy
                               /\ calls[c].copy.version.born < version[k].born]_vars

------------------------------------------------------------------------------
(* The inductive invariant behind them.                                    *)

\* A copy knows its version by the counter, if it has one, names no version
\* still to come, and when it names the present one, has the owner.
CopyTrue(copy) ==
  LET k == copy.lease.key IN
  /\ \/ copy.lease.counter = copy.version.first + copy.version.writes
     \/ Uncounted(copy)
  /\ copy.version.born <= version[k].born
  /\ copy.version.born = version[k].born =>
       /\ copy.version.first = version[k].first
       /\ copy.version.writes <= version[k].writes
  /\ copy.version = version[k] /\ table[k] # NoItem =>
       copy.lease.owner = table[k].owner /\ ~evicted[k]

ItemsTrue ==
  \A k \in Key : table[k] # NoItem =>
    /\ table[k].counter = version[k].first + version[k].writes
    /\ evicted[k] => table[k].owner = NoOwner

CallsTrue ==
  \A c \in Client : calls[c] # NoCall =>
    /\ \A p \in calls[c].page : CopyTrue(p)
    /\ calls[c].copy # NoCopy =>
         calls[c].copy.lease.key = calls[c].key /\ CopyTrue(calls[c].copy)
    /\ calls[c].op \in {"renew", "take", "evict", "update", "deleteCAS", "delete"} =>
         calls[c].copy # NoCopy

ManagerInv ==
  /\ TypeOK
  /\ ItemsTrue
  /\ CallsTrue
  /\ \A c \in Client, k \in Key : copies[c][k] # NoCopy =>
       copies[c][k].lease.key = k /\ CopyTrue(copies[c][k])
==============================================================================

----------------------------- MODULE LeaseTable -----------------------------
(***************************************************************************)
(* The DynamoDB lease table as the LeaseManager uses it, the wall clock the *)
(* workers read, and the update requests still on the wire when the process *)
(* that sent them died or stopped waiting.  The table is a service outside   *)
(* the repository: an update is applied atomically when its expectation      *)
(* holds.                                                                   *)
(***************************************************************************)
EXTENDS Lease

CONSTANTS
  MaxTime,          \* bound: the clock stops here
  MaxCounter,       \* bound: no update is applied to an item at this counter
  MaxLate,          \* bound: requests at a time that outlive their call
  ClockMayStepBack  \* whether the wall clock may be set back

ASSUME TableAssumption ==
  /\ MaxTime \in Nat
  /\ MaxCounter \in Nat
  /\ MaxLate \in Nat
  /\ ClockMayStepBack \in BOOLEAN

VARIABLES
  now,        \* the clock
  table,      \* the lease table
  lastWrite,  \* history: when each item was last written
  orphans     \* update requests whose sender died or gave up on the answer

tableVars == <<now, table, lastWrite, orphans>>

\* newOwner is NoOwner in a renewal.
Request == [lease : LeaseState, newOwner : Owner]

TableTypeOK ==
  /\ now \in Nat
  /\ table \in [Key -> Item \cup {NoItem}]
  /\ lastWrite \in [Key -> Nat]
  /\ orphans \in SUBSET Request

TableInit ==
  /\ now = 0
  /\ table = [k \in Key |-> NoItem]
  /\ lastWrite = [k \in Key |-> 0]
  /\ orphans = {}

------------------------------------------------------------------------------

Write(k, item) ==
  /\ table' = [table EXCEPT ![k] = item]
  /\ lastWrite' = [lastWrite EXCEPT ![k] = now]
  /\ UNCHANGED now

Applicable(lease) ==
  /\ CASHolds(table[lease.key], lease)
  /\ table[lease.key].counter < MaxCounter

ApplyRenew(lease) ==
  /\ Applicable(lease)
  /\ Write(lease.key, RenewValues(table[lease.key], lease))

ApplyTake(lease, newOwner) ==
  /\ Applicable(lease)
  /\ Write(lease.key, TakeValues(table[lease.key], lease, newOwner))

\* A call that fails by a timeout may leave its request on the wire.
GiveUpOn(req) ==
  \/ UNCHANGED orphans
  \/ Cardinality(orphans) < MaxLate /\ orphans' = orphans \cup {req}

\* A request nobody waits for is applied, or never is.
OrphanApplied(req) ==
  /\ IF req.newOwner = NoOwner
     THEN ApplyRenew(req.lease)
     ELSE ApplyTake(req.lease, req.newOwner)
  /\ orphans' = orphans \ {req}

OrphanLost(req) ==
  /\ orphans' = orphans \ {req}
  /\ UNCHANGED <<now, table, lastWrite>>

\* createLeaseIfNotExists, called from outside the coordinator.  The lease has
\* no counter yet: another one to start at would shift all counters of the item.
CreateLeaseIfNotExists(k, owner, stamp) ==
  /\ table[k] = NoItem
  /\ Write(k, ToDynamoDict(owner, NoCounter, stamp))
  /\ UNCHANGED orphans

Tick ==
  /\ now < MaxTime
  /\ now' = now + 1
  /\ UNCHANGED <<table, lastWrite, orphans>>

ClockSetBack ==
  /\ ClockMayStepBack
  /\ now > 0
  /\ now' = now - 1
  /\ UNCHANGED <<table, lastWrite, orphans>>

TableNext ==
  \/ Tick
  \/ ClockSetBack
  \/ \E req \in orphans : OrphanApplied(req) \/ OrphanLost(req)
  \/ \E k \in Key, owner \in Owner, stamp \in {NoTime, now} :
       CreateLeaseIfNotExists(k, owner, stamp)
==============================================================================

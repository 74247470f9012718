-------------------------------- MODULE Lease --------------------------------
(***************************************************************************)
(* The lease record of kclpp::leases and the pure functions on it: expiry,  *)
(* reading an item of the lease table, the compare-and-swap expectation of  *)
(* a conditional update and the values the update writes.                   *)
(*                                                                         *)
(* A lease table item and a lease in memory differ in two fields: the memory*)
(* copy of lastCounterIncrementNanoseconds (here "inc") may be unset, and   *)
(* so may the counter of a lease that was not read from the table, but made *)
(* to be created there (LeaseManager).  Every item has a counter, since     *)
(* toDynamoDict always writes it.  Checkpoints and parent shards play no    *)
(* part in the lease protocol and are left out.                             *)
(***************************************************************************)
EXTENDS Integers, FiniteSets

CONSTANTS
  Worker,          \* worker ids: the values of LeaseOwner
  Key,             \* lease keys, one per shard
  NoOwner,         \* the leaseOwner attribute is absent
  NoTime,          \* lastCounterIncrementNanoseconds is unset
  NoCounter,       \* leaseCounter is unset
  NoItem,          \* the table has no item under this key
  NoLease,         \* a lease map has no entry under this key
  LeaseDuration,   \* params.leaseDuration
  MaxLeaseAge,     \* getMaxLeaseAge(): 365 days in the code
  ClockModulus,    \* 2^w of the unsigned duration type
  ScanLimit,       \* items evaluated by one Scan request: 100 in the code
  ScanRank         \* the order in which Scan evaluates keys (by their hash)

ASSUME LeaseAssumption ==
  /\ LeaseDuration \in Nat
  /\ MaxLeaseAge \in Nat
  /\ ClockModulus \in Nat
  /\ ScanLimit \in Nat \ {0}
  /\ ScanRank \in [Key -> Nat]
  /\ NoOwner \notin Worker
  /\ NoTime \notin Nat
  /\ NoCounter \notin Nat

Owner == Worker \cup {NoOwner}

Item == [owner : Owner, counter : Nat, switches : Nat, inc : Nat]

\* A lease that was read from the table.
LeaseState == [key : Key, owner : Owner, counter : Nat, switches : Nat,
               inc : Nat \cup {NoTime}]

ASSUME SentinelAssumption ==
  /\ NoItem \notin Item
  /\ NoLease \notin LeaseState

LeaseMap == [Key -> LeaseState \cup {NoLease}]

EmptyMap == [k \in Key |-> NoLease]

Leases(map) == {map[k] : k \in {j \in Key : map[j] # NoLease}}

------------------------------------------------------------------------------

\* asOf - lastCounterIncrement in the unsigned type: a stamp in the future
\* wraps around to a huge age.
Age(stamp, asOf) ==
  IF stamp <= asOf THEN asOf - stamp ELSE asOf - stamp + ClockModulus

\* Mutant: a lease expires one nanosecond early.
IsExpiredEarly(lease, asOf) ==
  \/ lease.inc = NoTime
  \/ Age(lease.inc, asOf) > MaxLeaseAge
  \/ Age(lease.inc, asOf) >= LeaseDuration

IsExpired(lease, asOf) ==
  \/ lease.inc = NoTime
  \/ Age(lease.inc, asOf) > MaxLeaseAge
  \/ Age(lease.inc, asOf) > LeaseDuration

IncrementedCounter(lease) == [lease EXCEPT !.counter = @ + 1]

\* An item without a leaseOwner attribute does not deserialize.
Deserializes(item) == item.owner # NoOwner

FromDynamoDict(k, item) ==
  [key |-> k, owner |-> item.owner, counter |-> item.counter,
   switches |-> item.switches, inc |-> item.inc]

\* Mutant: an unset stamp is written as it is.
ToDynamoDictUnset(owner, counter, stamp) ==
  [owner |-> owner, counter |-> IF counter = NoCounter THEN 0 ELSE counter,
   switches |-> 0, inc |-> stamp]

\* What is unset is written as 0; a lease to be created has no switches.
ToDynamoDict(owner, counter, stamp) ==
  [owner |-> owner, counter |-> IF counter = NoCounter THEN 0 ELSE counter,
   switches |-> 0, inc |-> IF stamp = NoTime THEN 0 ELSE stamp]

\* What one Scan evaluates: one page, with no continuation.
ScannedKeys(table) ==
  LET present == {k \in Key : table[k] # NoItem}
  IN  {k \in present : Cardinality({j \in present : ScanRank[j] < ScanRank[k]}) < ScanLimit}

ListLeases(table) ==
  {FromDynamoDict(k, table[k]) : k \in {j \in ScannedKeys(table) : Deserializes(table[j])}}

------------------------------------------------------------------------------

\* Mutant: the value of the counter is not part of the expectation.
CASHoldsOwner(item, lease) ==
  item # NoItem /\ item.owner = lease.owner /\ lease.counter # NoCounter

\* Conditional updates: the expectation, then what each kind of update writes.
\* A lease without a counter expects an item without one, and there is none.
CASHolds(item, lease) ==
  /\ item # NoItem
  /\ item.owner = lease.owner
  /\ item.counter = lease.counter

\* Mutant: a renewal does not move the counter.
RenewValuesUncounted(item, lease) == item

RenewValues(item, lease) == [item EXCEPT !.counter = lease.counter + 1]

\* Mutant: an eviction leaves the owner.
EvictValuesOwned(item, lease) == [item EXCEPT !.counter = lease.counter + 1]

EvictValues(item, lease) ==
  [item EXCEPT !.owner = NoOwner, !.counter = lease.counter + 1]

\* Mutant: a take does not count the change of owner.
TakeValuesUncounted(item, lease, newOwner) ==
  [item EXCEPT !.owner = newOwner, !.counter = lease.counter + 1]

TakeValues(item, lease, newOwner) ==
  IF lease.owner = newOwner
  THEN RenewValues(item, lease)
  ELSE [item EXCEPT !.owner = newOwner,
                    !.switches = lease.switches + 1,
                    !.counter = lease.counter + 1]

\* Mutant: the callback of a renewal gets the lease as it was.
RenewResultKept(lease) == lease

\* The lease a successful call hands to its callback.
RenewResult(lease) == IncrementedCounter(lease)

\* Mutant: the callback of a take gets the lease with the new counter.
TakeResultIncremented(lease) == IncrementedCounter(lease)

TakeResult(lease)  == lease
==============================================================================

---------------------------- MODULE LeaseFencing ----------------------------
(***************************************************************************)
(* What the lease counters promise, with nothing of how workers keep it:    *)
(* every write of an item starts a new version of the lease and voids what  *)
(* was held of the old one; the writer of a version, and nobody else, may   *)
(* come to hold it, at most once; and anything held may be lost.            *)
(***************************************************************************)
EXTENDS Naturals

CONSTANTS Worker, Key, Nobody

VARIABLES
  version,  \* per lease, how many times its item was written
  claim,    \* per lease, the worker entitled to hold this version
  holder    \* per lease, the worker that holds it

fencingVars == <<version, claim, holder>>

FencingInit ==
  /\ version = [k \in Key |-> 0]
  /\ claim = [k \in Key |-> Nobody]
  /\ holder = [k \in Key |-> Nobody]

NewVersion(k, c) ==
  /\ version' = [version EXCEPT ![k] = @ + 1]
  /\ claim' = [claim EXCEPT ![k] = c]
  /\ holder' = [holder EXCEPT ![k] = Nobody]

Acquire(k) ==
  /\ claim[k] # Nobody
  /\ holder' = [holder EXCEPT ![k] = claim[k]]
  /\ claim' = [claim EXCEPT ![k] = Nobody]
  /\ UNCHANGED version

\* A dying worker forgets all it had.
Forget ==
  /\ \E lost \in SUBSET Key : claim' = [k \in Key |-> IF k \in lost THEN Nobody ELSE claim[k]]
  /\ \E lost \in SUBSET Key : holder' = [k \in Key |-> IF k \in lost THEN Nobody ELSE holder[k]]
  /\ UNCHANGED version

FencingNext ==
  \/ \E k \in Key, c \in Worker \cup {Nobody} : NewVersion(k, c)
  \/ \E k \in Key : Acquire(k)
  \/ Forget

FencingSpec == FencingInit /\ [][FencingNext]_fencingVars
==============================================================================

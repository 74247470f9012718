-------------------------- MODULE LeaseCoordinator --------------------------
(***************************************************************************)
(* LeaseCoordinator, the composition of a worker's renewer and taker, for    *)
(* any number of worker processes that share one lease table.  start()      *)
(* initializes the renewer and then arms two persistent timers; the timers  *)
(* run the renewer and the taker; stop() deletes them.  A process may die    *)
(* and be started again; a failed CHECK or DCHECK is a death too.            *)
(***************************************************************************)
EXTENDS LeaseRenewer, LeaseTaker

CONSTANTS
  MayStart,      \* bound: the workers that are started
  MayCrash,      \* bound: the workers whose process may die of its own
  MayStop,       \* bound: the workers on which stop() is called
  MayCheckpoint  \* bound: the workers on which setCheckpoint() is called

VARIABLES
  running,      \* per worker, state_->running
  timers,       \* per worker, takerTimer and renewerTimer (always both)
  stopping,     \* per worker, stop()'s lambda waits in the control channel
  renewQueued   \* per worker, renewLeases()' lambda waits there

controlVars == <<running, timers, stopping, renewQueued>>

vars == <<tableVars, renewerVars, takerVars, controlVars>>

TypeOK ==
  /\ TableTypeOK
  /\ RenewerTypeOK
  /\ TakerTypeOK
  /\ running \in [Worker -> BOOLEAN]
  /\ timers \in [Worker -> {"none", "armed", "deleted"}]
  /\ stopping \in [Worker -> BOOLEAN]
  /\ renewQueued \in [Worker -> BOOLEAN]

Init ==
  /\ TableInit
  /\ RenewerInit
  /\ TakerInit
  /\ running = [w \in Worker |-> FALSE]
  /\ timers = [w \in Worker |-> "none"]
  /\ stopping = [w \in Worker |-> FALSE]
  /\ renewQueued = [w \in Worker |-> FALSE]

------------------------------------------------------------------------------

\* The process of w exits: its memory is gone, and what it had sent to the
\* table is still on the way.
Dies(w) ==
  /\ orphans' = orphans \cup RenewRequests(w) \cup TakeRequests(w)
  /\ RenewerDies(w)
  /\ TakerDies(w)
  /\ running' = [running EXCEPT ![w] = FALSE]
  /\ timers' = [timers EXCEPT ![w] = "none"]
  /\ stopping' = [stopping EXCEPT ![w] = FALSE]
  /\ renewQueued' = [renewQueued EXCEPT ![w] = FALSE]
  /\ UNCHANGED <<now, table, lastWrite>>

Crash(w) == w \in MayCrash /\ running[w] /\ Dies(w)

\* Bound: one initialize() of a worker at a time.
Start(w) ==
  /\ w \in MayStart
  /\ ~running[w]
  /\ ~stopping[w]
  /\ init[w].phase \in {"none", "failed", "done"}
  /\ running' = [running EXCEPT ![w] = TRUE]
  /\ Initialize(w)
  /\ UNCHANGED <<tableVars, owned, renewals, takerVars, timers, stopping, renewQueued>>

\* start()'s callback of initialize creates both timers; assigning them
\* destroys the ones of an earlier start.
StartCompletes(w) ==
  timers' = IF InitCompletes(w) THEN [timers EXCEPT ![w] = "armed"] ELSE timers

Stop(w) ==
  /\ w \in MayStop
  /\ running[w]
  /\ ~stopping[w]
  /\ running' = [running EXCEPT ![w] = FALSE]
  /\ stopping' = [stopping EXCEPT ![w] = TRUE]
  /\ UNCHANGED <<tableVars, renewerVars, takerVars, timers, renewQueued>>

\* stop()'s lambda checks that there are timers to delete.
StopTimers(w) ==
  /\ stopping[w]
  /\ timers[w] # "none"
  /\ timers' = [timers EXCEPT ![w] = "deleted"]
  /\ stopping' = [stopping EXCEPT ![w] = FALSE]
  /\ UNCHANGED <<tableVars, renewerVars, takerVars, running, renewQueued>>

StopAborts(w) == stopping[w] /\ timers[w] = "none" /\ Dies(w)

\* setCheckpoint of a lease that is held: updateLease asserts that the copy
\* has a concurrency token, and no copy is ever given one.  (Of a lease that
\* is not held, setCheckpoint calls back that it did not succeed.)
SetCheckpoint(w, k) == w \in MayCheckpoint /\ HeldLease(w, k) /\ Dies(w)

\* The renewer's timer: renewLeases queues a lambda (bound: one at a time).
RunRenewer(w) ==
  /\ timers[w] = "armed"
  /\ ~renewQueued[w]
  /\ renewQueued' = [renewQueued EXCEPT ![w] = TRUE]
  /\ UNCHANGED <<tableVars, renewerVars, takerVars, running, timers, stopping>>

RunRenewLeases(w) ==
  /\ renewQueued[w]
  /\ RenewLeases(w)
  /\ renewQueued' = [renewQueued EXCEPT ![w] = FALSE]
  /\ UNCHANGED <<takerVars, running, timers, stopping>>

RunTaker(w, r) ==
  /\ timers[w] = "armed"
  /\ TakeLeases(w, r)
  /\ UNCHANGED <<renewerVars, controlVars>>

\* runTaker's callback: CHECK(takeOutcome.IsSuccess()).
TakerAborts(w, r) == rounds[w][r].phase = "scanfailed" /\ Dies(w)

\* runTaker's callback: the taken leases go to the renewer if it still runs.
TakerDone(w, r, k) ==
  /\ TakeDone(w, r, k)
  /\ owned' = IF LastTake(w, r, k) /\ running[w]
              THEN [owned EXCEPT ![w] =
                      AddLeasesToRenew(owned[w], TakenLeases(w, r, k))]
              ELSE owned
  /\ UNCHANGED <<renewals, init, controlVars>>

RenewalStep(w, k, s) ==
  \/ /\ \/ RenewLease(w, k, s)
        \/ RenewApplied(w, k, s)
        \/ RenewFailed(w, k, s)
     /\ UNCHANGED <<takerVars, controlVars>>
  \/ /\ RenewDone(w, k, s)
     /\ StartCompletes(w)
     /\ UNCHANGED <<takerVars, running, stopping, renewQueued>>

InitStep(w) ==
  \/ /\ InitScanned(w) \/ InitScanFailed(w)
     /\ UNCHANGED <<takerVars, controlVars>>
  \/ /\ InitListed(w)
     /\ StartCompletes(w)
     /\ UNCHANGED <<takerVars, running, stopping, renewQueued>>

TakeStep(w, r, k) ==
  \/ /\ TakeApplied(w, r, k) \/ TakeFailed(w, r, k)
     /\ UNCHANGED <<renewerVars, controlVars>>
  \/ TakerDone(w, r, k)

RoundAnswered(w, r) ==
  /\ RoundScanned(w, r) \/ RoundListed(w, r)
  /\ UNCHANGED <<renewerVars, controlVars>>

RoundStep(w, r) ==
  \/ RunTaker(w, r)
  \/ TakerAborts(w, r)
  \/ RoundAnswered(w, r)

ControlStep(w) ==
  \/ Start(w)
  \/ Stop(w)
  \/ StopTimers(w)
  \/ StopAborts(w)
  \/ RunRenewer(w)
  \/ RunRenewLeases(w)
  \/ Crash(w)
  \/ \E k \in Key : SetCheckpoint(w, k)

Next ==
  \/ TableNext /\ UNCHANGED <<renewerVars, takerVars, controlVars>>
  \/ \E w \in Worker :
       \/ ControlStep(w)
       \/ InitStep(w)
       \/ \E k \in Key, s \in RenewSlot : RenewalStep(w, k, s)
       \/ \E r \in Round : RoundStep(w, r)
       \/ \E r \in Round, k \in Key : TakeStep(w, r, k)

Spec == Init /\ [][Next]_vars

\* The event loop runs what is queued, the persistent renewer timer fires, and
\* every request to the table is answered, if only by a timeout.
Fairness ==
  \A w \in MayStart :
    /\ WF_vars(RunRenewer(w))
    /\ WF_vars(RunRenewLeases(w))
    /\ WF_vars(InitStep(w))
    /\ WF_vars(StopTimers(w) \/ StopAborts(w))
    /\ \A k \in Key, s \in RenewSlot : WF_vars(RenewalStep(w, k, s))
    /\ \A r \in Round : WF_vars(RoundAnswered(w, r) \/ TakerAborts(w, r))
    /\ \A r \in Round : WF_vars(\E k \in Key : TakeStep(w, r, k))

FairSpec == Spec /\ Fairness

------------------------------------------------------------------------------
(* Properties.                                                             *)

\* A copy of a lease is current when nothing was written to its item since.
Current(lease) ==
  lease # NoLease /\ table[lease.key] # NoItem /\ lease.counter = table[lease.key].counter

\* Of all the workers' copies of a lease in ownedLeases, at most one is
\* current, and it shows the item's owner: no two workers can both renew a
\* lease, whatever answers are lost, late or out of order.
CurrentHolderUnique ==
  \A k \in Key : \A w \in Worker :
    Current(owned[w][k]) =>
      /\ owned[w][k].owner = table[k].owner
      /\ \A v \in Worker : Current(owned[v][k]) => v = w

\* No worker has a copy, or the right to make one, with a counter the table
\* has not reached: it would become current by other workers' writes.
NoCopyAhead ==
  \A w \in Worker, k \in Key :
    /\ owned[w][k] # NoLease =>
         table[k] # NoItem /\ owned[w][k].counter <= table[k].counter
    /\ \A s \in RenewSlot : InCall(w, k, s, "ok") =>
         table[k] # NoItem /\ RenewResult(renewals[w][k][s].lease).counter <= table[k].counter

\* A take that succeeds because the lease looked expired comes more than
\* LeaseDuration after the item was last written by anyone, although the taker
\* knows only its own listings, however late each of them arrived.
NoEarlyTake ==
  [][\A w \in Worker, r \in Round, k \in Key :
       /\ InTake(w, r, k, "sent")
       /\ rounds[w][r].takes[k].expired
       /\ rounds'[w][r].takes[k] # rounds[w][r].takes[k]
       /\ table'[k] # table[k]
       => now > lastWrite[k] + LeaseDuration]_vars

\* Nothing but a take gives a lease another owner, and each such change is
\* counted; a write moves the counter by exactly one.
WritesAreCounted ==
  [][\A k \in Key : table[k] # NoItem /\ table'[k] # table[k] =>
       /\ table'[k].counter = table[k].counter + 1
       /\ table'[k].switches =
            table[k].switches + (IF table'[k].owner = table[k].owner THEN 0 ELSE 1)]_vars

\* Whoever waits for the last answer is owed one: initialize() and a round of
\* takes end with the last callback, so one of them must still be to come.
LastAnswerPending ==
  /\ \A w \in Worker : init[w].phase = "renewing" => ForcedInFlight(w) # {}
  /\ \A w \in Worker, r \in Round :
       rounds[w][r].phase = "taking" => \E k \in Key : ~CalledBack(w, r, k)

\* LeaseFencing, read off the workers' memories.
ClaimsOf(k) ==
  {w \in Worker : \E s \in RenewSlot :
     InCall(w, k, s, "ok") /\ Current(RenewResult(renewals[w][k][s].lease))}

HoldersOf(k) == {w \in Worker : Current(owned[w][k])}

VersionOf(k) == IF table[k] = NoItem THEN 0 ELSE table[k].counter + 1

TheOne(S) == IF S = {} THEN NoOwner ELSE CHOOSE w \in S : TRUE

Fencing == INSTANCE LeaseFencing WITH
  Nobody <- NoOwner,
  version <- [k \in Key |-> VersionOf(k)],
  claim <- [k \in Key |-> TheOne(ClaimsOf(k))],
  holder <- [k \in Key |-> TheOne(HoldersOf(k))]

\* The coordinators keep the promise of LeaseFencing.
FencingHolds == Fencing!FencingSpec

\* A worker whose copy of a lease was overtaken by a write notices: the copy
\* is renewed, refreshed or dropped as long as the worker's timers stay armed.
Stale(w, k) == owned[w][k] # NoLease /\ ~Current(owned[w][k])

StaleCopyResolved ==
  \A w \in MayStart, k \in Key :
    (Stale(w, k) /\ timers[w] = "armed") ~> (~Stale(w, k) \/ timers[w] # "armed")

\* start() always calls back: initialize() ends however its renewals end.
InitializeEnds ==
  \A w \in MayStart :
    init[w].phase = "scanning" ~> init[w].phase \in {"none", "failed", "done"}

\* Every round of the taker ends, so that the next timer finds it idle.
RoundEnds ==
  \A w \in MayStart, r \in Round :
    rounds[w][r].phase = "scanning" ~> rounds[w][r].phase = "idle"

------------------------------------------------------------------------------
(* The inductive invariants behind CurrentHolderUnique and NoEarlyTake.     *)

\* Every copy is filed under its own key.
CopiesKeyed ==
  /\ \A w \in Worker, k \in Key : owned[w][k] # NoLease => owned[w][k].key = k
  /\ \A w \in Worker, k \in Key : seen[w][k] # NoLease => seen[w][k].key = k
  /\ \A w \in Worker, k \in Key, s \in RenewSlot :
       renewals[w][k][s] # NoCall => renewals[w][k][s].lease.key = k
  /\ \A w \in Worker, r \in Round, k \in Key :
       rounds[w][r].takes[k] # NoTake => rounds[w][r].takes[k].lease.key = k

\* A copy the table has reached, and one it has left behind.
Reached(lease) ==
  table[lease.key] # NoItem /\ lease.counter <= table[lease.key].counter

Overtaken(lease) ==
  table[lease.key] # NoItem /\ lease.counter < table[lease.key].counter

\* Every copy was read from the table or written to it.
OwnedReached ==
  \A w \in Worker, k \in Key : owned[w][k] # NoLease => Reached(owned[w][k])

RenewalsReached ==
  \A w \in Worker, k \in Key, s \in RenewSlot :
    /\ InCall(w, k, s, "queued") \/ InCall(w, k, s, "sent") =>
         Reached(renewals[w][k][s].lease)
    /\ InCall(w, k, s, "ok") => Reached(RenewResult(renewals[w][k][s].lease))

PagesReached ==
  /\ \A w \in Worker : \A l \in init[w].page : Reached(l)
  /\ \A w \in Worker, r \in Round : \A l \in rounds[w][r].page : Reached(l)

SeenReached ==
  \A w \in Worker, k \in Key : seen[w][k] # NoLease => Reached(seen[w][k])

\* What a take hands back is what it replaced.
TakesReached ==
  \A w \in Worker, r \in Round, k \in Key :
    /\ InTake(w, r, k, "sent") => Reached(rounds[w][r].takes[k].lease)
    /\ InTake(w, r, k, "ok") \/ InTake(w, r, k, "taken") =>
         Overtaken(rounds[w][r].takes[k].lease)

\* A successful renewal whose answer waits is the only claim to its version.
Claim(w, k, s) == InCall(w, k, s, "ok") /\ Current(RenewResult(renewals[w][k][s].lease))

ClaimUnique ==
  \A k \in Key, w \in Worker, s \in RenewSlot : Claim(w, k, s) =>
    /\ renewals[w][k][s].lease.owner = table[k].owner
    /\ \A v \in Worker : ~Current(owned[v][k])
    /\ \A v \in Worker, t \in RenewSlot : Claim(v, k, t) => v = w /\ t = s

FencingInv ==
  /\ CopiesKeyed
  /\ OwnedReached
  /\ RenewalsReached
  /\ PagesReached
  /\ SeenReached
  /\ TakesReached
  /\ ClaimUnique
  /\ CurrentHolderUnique

\* As long as the clock is never set back: the stamp of a lease this worker
\* has seen lies between the last write of that version and now.
StampsSound ==
  /\ \A k \in Key : lastWrite[k] <= now
  /\ \A w \in Worker, r \in Round : \A l \in rounds[w][r].page : l.owner # NoOwner
  /\ \A w \in Worker, k \in Key : seen[w][k] # NoLease =>
       /\ seen[w][k].inc # NoTime
       /\ seen[w][k].inc <= now
       /\ Current(seen[w][k]) => lastWrite[k] <= seen[w][k].inc
  /\ \A w \in Worker, r \in Round, k \in Key :
       /\ InTake(w, r, k, "sent")
       /\ rounds[w][r].takes[k].expired
       /\ Current(rounds[w][r].takes[k].lease)
       => lastWrite[k] + LeaseDuration < now

\* Behind WritesAreCounted: a copy of the item's version agrees with it on the
\* number of changes of owner, in memory and on the wire.
Counted(lease) == Current(lease) => lease.switches = table[lease.key].switches

SwitchesCounted ==
  /\ \A w \in Worker, k \in Key : Counted(owned[w][k]) /\ Counted(seen[w][k])
  /\ \A w \in Worker : \A l \in init[w].page : Counted(l)
  /\ \A w \in Worker, r \in Round : \A l \in rounds[w][r].page : Counted(l)
  /\ \A w \in Worker, k \in Key, s \in RenewSlot :
       /\ InCall(w, k, s, "queued") \/ InCall(w, k, s, "sent") =>
            Counted(renewals[w][k][s].lease)
       /\ InCall(w, k, s, "ok") => Counted(RenewResult(renewals[w][k][s].lease))
  /\ \A w \in Worker, r \in Round, k \in Key :
       InTake(w, r, k, "sent") => Counted(rounds[w][r].takes[k].lease)
  /\ \A req \in orphans : Reached(req.lease) /\ Counted(req.lease)
==============================================================================

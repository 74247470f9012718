---------------------------- MODULE LeaseRenewer ----------------------------
(***************************************************************************)
(* LeaseRenewer: the leases a worker believes it owns, the renewals it has  *)
(* in flight and its initialization.  Every action of a worker is one       *)
(* callback of that worker's event loop; the table answers in between.      *)
(*                                                                         *)
(* A renewal of a lease goes through                                        *)
(*    queued   renewLease's lambda waits in the control channel             *)
(*    sent     the conditional update was built and is on its way           *)
(*    ok, failed   the answer waits for the event loop                      *)
(***************************************************************************)
EXTENDS LeaseTable

CONSTANTS
  RenewSlots,  \* bound: renewals of one lease by one worker at the same time
  NoCall       \* no call occupies the slot

VARIABLES
  owned,     \* per worker, state_.ownedLeases
  renewals,  \* per worker and key, the renewals in flight
  init       \* per worker, the progress of initialize()

renewerVars == <<owned, renewals, init>>

RenewSlot == 1 .. RenewSlots

Renewal == [st : {"queued", "sent", "ok", "failed"}, lease : LeaseState,
            force : BOOLEAN]

InitPhase == {"none", "scanning", "listed", "scanfailed", "renewing", "failed", "done"}

ASSUME RenewerAssumption ==
  /\ RenewSlots \in Nat \ {0}
  /\ NoCall \notin Renewal

RenewerTypeOK ==
  /\ owned \in [Worker -> LeaseMap]
  /\ renewals \in [Worker -> [Key -> [RenewSlot -> Renewal \cup {NoCall}]]]
  /\ init \in [Worker -> [phase : InitPhase, page : SUBSET LeaseState]]

NoRenewals == [k \in Key |-> [s \in RenewSlot |-> NoCall]]
NotInitialized == [phase |-> "none", page |-> {}]

RenewerInit ==
  /\ owned = [w \in Worker |-> EmptyMap]
  /\ renewals = [w \in Worker |-> NoRenewals]
  /\ init = [w \in Worker |-> NotInitialized]

------------------------------------------------------------------------------
(* The operations on ownedLeases.                                          *)

\* map::insert: an entry already there stays.
AddLeasesToRenew(map, leases) ==
  [k \in Key |->
     IF map[k] = NoLease /\ \E l \in leases : l.key = k /\ l.inc # NoTime
     THEN CHOOSE l \in leases : l.key = k /\ l.inc # NoTime
     ELSE map[k]]

\* Mutant: the lease is not erased.
DropNoLease(w, lease) == owned' = owned

DropLease(w, lease) == owned' = [owned EXCEPT ![w][lease.key] = NoLease]

ReplaceRenewedLease(w, lease) == owned' = [owned EXCEPT ![w][lease.key] = lease]

\* getCurrentlyHeldLease finds one.
HeldLease(w, k) == owned[w][k] # NoLease /\ ~IsExpired(owned[w][k], now)

------------------------------------------------------------------------------
(* Renewals.                                                               *)

FreeSlots(w, k) == {s \in RenewSlot : renewals[w][k][s] = NoCall}

\* renewLease for each of the leases (at most one per key): queue its lambda.
QueueRenewals(w, leases, force) ==
  /\ \A l \in leases : FreeSlots(w, l.key) # {}
  /\ renewals' =
       [renewals EXCEPT ![w] =
          [k \in Key |->
             IF \E l \in leases : l.key = k
             THEN [renewals[w][k] EXCEPT ![CHOOSE s \in FreeSlots(w, k) : TRUE] =
                     [st |-> "queued",
                      lease |-> CHOOSE l \in leases : l.key = k,
                      force |-> force]]
             ELSE renewals[w][k]]]

RenewLeases(w) ==
  /\ QueueRenewals(w, Leases(owned[w]), FALSE)
  /\ UNCHANGED <<tableVars, owned, init>>

InCall(w, k, s, st) == renewals[w][k][s] # NoCall /\ renewals[w][k][s].st = st

SetRenewal(w, k, s, st) == renewals' = [renewals EXCEPT ![w][k][s].st = st]

EndRenewal(w, k, s) == renewals' = [renewals EXCEPT ![w][k][s] = NoCall]

\* The lambda of renewLease.
RenewLease(w, k, s) ==
  LET call == renewals[w][k][s] IN
  /\ InCall(w, k, s, "queued")
  /\ \/ /\ call.force \/ ~IsExpired(call.lease, now)
        /\ SetRenewal(w, k, s, "sent")
        /\ UNCHANGED owned
     \/ /\ ~call.force /\ IsExpired(call.lease, now)
        /\ DropLease(w, call.lease)
        /\ EndRenewal(w, k, s)
  /\ UNCHANGED <<tableVars, init>>

\* The table applies the update; the answer may be lost on its way, or an
\* automatic retry of the request finds its own update and fails.
RenewApplied(w, k, s) ==
  /\ InCall(w, k, s, "sent")
  /\ ApplyRenew(renewals[w][k][s].lease)
  /\ \E st \in {"ok", "failed"} : SetRenewal(w, k, s, st)
  /\ UNCHANGED <<orphans, owned, init>>

RenewRequest(w, k, s) == [lease |-> renewals[w][k][s].lease, newOwner |-> NoOwner]

\* The expectation does not hold, or no answer came in time.
RenewFailed(w, k, s) ==
  /\ InCall(w, k, s, "sent")
  /\ SetRenewal(w, k, s, "failed")
  /\ GiveUpOn(RenewRequest(w, k, s))
  /\ UNCHANGED <<now, table, lastWrite, owned, init>>

ForcedInFlight(w) ==
  {ks \in Key \X RenewSlot :
     /\ renewals[w][ks[1]][ks[2]] # NoCall
     /\ renewals[w][ks[1]][ks[2]].force}

\* The callback of manager->renewLease and the one renewLease was given: the
\* last renewal of initialize() completes it.  (initialize's safeInsertLease
\* and its addLeasesToRenew of ownedLeases into itself change nothing more.)
RenewDone(w, k, s) ==
  LET call == renewals[w][k][s] IN
  /\ \/ /\ InCall(w, k, s, "ok")
        /\ ReplaceRenewedLease(w, RenewResult(call.lease))
     \/ /\ InCall(w, k, s, "failed")
        /\ DropLease(w, call.lease)
  /\ EndRenewal(w, k, s)
  /\ init' = IF ForcedInFlight(w) = {<<k, s>>}
             THEN [init EXCEPT ![w].phase = "done"]
             ELSE init
  /\ UNCHANGED tableVars

------------------------------------------------------------------------------
(* initialize().                                                           *)

Initialize(w) == init' = [init EXCEPT ![w] = [phase |-> "scanning", page |-> {}]]

InitScanned(w) ==
  /\ init[w].phase = "scanning"
  /\ \/ init' = [init EXCEPT ![w] = [phase |-> "listed", page |-> ListLeases(table)]]
     \/ init' = [init EXCEPT ![w].phase = "scanfailed"]
  /\ UNCHANGED <<tableVars, owned, renewals>>

\* Mutant: the callback is forgotten when the scan fails.
InitScanForgotten(w) ==
  init[w].phase = "scanfailed" /\ UNCHANGED <<tableVars, owned, renewals, init>>

InitScanFailed(w) ==
  /\ init[w].phase = "scanfailed"
  /\ init' = [init EXCEPT ![w].phase = "failed"]
  /\ UNCHANGED <<tableVars, owned, renewals>>

\* Mutant: an empty listing is waited for.
InitListedEmpty(w) ==
  /\ init[w].phase = "listed"
  /\ QueueRenewals(w, init[w].page, TRUE)
  /\ init' = [init EXCEPT ![w] = [phase |-> "renewing", page |-> {}]]
  /\ UNCHANGED <<tableVars, owned>>

\* Every listed lease is renewed, whoever owns it.
InitListed(w) ==
  /\ init[w].phase = "listed"
  /\ QueueRenewals(w, init[w].page, TRUE)
  /\ init' = [init EXCEPT ![w] =
                [phase |-> IF init[w].page = {} THEN "done" ELSE "renewing",
                 page |-> {}]]
  /\ UNCHANGED <<tableVars, owned>>

InitCompletes(w) == init'[w].phase = "done" /\ init[w].phase # "done"

\* What is left of the renewer's calls when its process dies.
RenewRequests(w) ==
  {RenewRequest(w, ks[1], ks[2]) :
     ks \in {p \in Key \X RenewSlot : InCall(w, p[1], p[2], "sent")}}

RenewerDies(w) ==
  /\ owned' = [owned EXCEPT ![w] = EmptyMap]
  /\ renewals' = [renewals EXCEPT ![w] = NoRenewals]
  /\ init' = [init EXCEPT ![w] = NotInitialized]
==============================================================================

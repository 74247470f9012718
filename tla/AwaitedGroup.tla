---------------------------- MODULE AwaitedGroup ----------------------------
(***************************************************************************)
(* A thread that waits for a group: the callback of LeaseTaker::takeLeases  *)
(* and of LeaseRenewer::initialize, which the group's leader calls, posts   *)
(* the ThreadBaton on which the caller waits.                               *)
(***************************************************************************)
EXTENDS AsyncGroup, ThreadBaton

ASSUME AwaitedAssumption == Poster = Task

awaitedVars == <<vars, batonVars>>

AwaitedInit == Init /\ BatonInit

\* The leader's callback.
LeaderPosts(t) == pc[t] = "leader" /\ PostStep(t) /\ UNCHANGED vars

AwaitedNext ==
  \/ Next /\ UNCHANGED batonVars
  \/ \E t \in Task : LeaderPosts(t)
  \/ \E w \in Waiter : (WaitStep(w) \/ WakeSpuriously(w)) /\ UNCHANGED vars

AwaitedSpec == AwaitedInit /\ [][AwaitedNext]_awaitedVars

\* Every thread is scheduled.  Each mutex is contended by one post() and the
\* waiters, all of which release it, so a thread that wants it gets it again
\* and again: strong fairness.  Nobody relies on a spurious wakeup.
AwaitedFairSpec ==
  /\ AwaitedSpec
  /\ \A t \in Task :
       WF_awaitedVars(Step(t) /\ UNCHANGED batonVars) /\ SF_awaitedVars(LeaderPosts(t))
  /\ \A w \in Waiter : SF_awaitedVars(WaitStep(w) /\ UNCHANGED vars)

------------------------------------------------------------------------------

\* wait() returns to nobody before every subtask of the group has posted,
\* whatever wakes the thread, and post() never finds the baton posted.
ReturnsAfterAll ==
  /\ \A w \in Waiter : at[w] = "returned" => Posted = Task
  /\ \A t \in Task : at[t] # "threw"

\* The thread that waits for the group gets to go on: no wakeup is lost
\* between its check and its sleep, and some leader emerges to post.  (For
\* one waiter: post() notifies one.)
WaiterReturns == \A w \in Waiter : <>(at[w] = "returned")

\* The inductive invariant behind ReturnsAfterAll: who is in post() leads the
\* group, the baton is posted by then and not before, and what a waiting thread
\* returns upon is the posted baton.
BatonInv ==
  /\ BatonTypeOK
  /\ posted => leaderChosen /\ Posted = Task
  /\ \A t \in Task : at[t] # "idle" => pc[t] = "leader"
  /\ \A t \in Task : pc[t] = "leader" /\ at[t] \in {"idle", "locked"} => ~posted
  /\ \A t \in Task : at[t] # "threw"
  /\ \A w \in Waiter : at[w] = "returned" => posted
==============================================================================

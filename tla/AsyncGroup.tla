----------------------------- MODULE AsyncGroup -----------------------------
(***************************************************************************)
(* AsyncGroup: a number of subtasks, on any threads, of which exactly one   *)
(* continues with what comes after all of them.  Each subtask calls         *)
(*     post();  if (isDone() && becomeLeader()) ...                         *)
(* once, as LeaseRenewer and LeaseTaker do; every access to an atomic is a   *)
(* step of its own.                                                         *)
(***************************************************************************)
EXTENDS Naturals, FiniteSets

CONSTANT Task  \* the subtasks

ASSUME TaskAssumption == IsFiniteSet(Task) /\ Task # {}

VARIABLES
  counter,       \* counter_
  leaderChosen,  \* leaderChosen_
  pc             \* where each subtask is

vars == <<counter, leaderChosen, pc>>

target == Cardinality(Task)

Place == {"working", "posted", "electing", "swapping", "leader", "finished"}

TypeOK ==
  /\ counter \in Nat
  /\ leaderChosen \in BOOLEAN
  /\ pc \in [Task -> Place]

Init ==
  /\ counter = 0
  /\ leaderChosen = FALSE
  /\ pc = [t \in Task |-> "working"]

Goto(t, place) == pc' = [pc EXCEPT ![t] = place]

\* Mutant: the subtask looks at the counter before it counts itself.
PostUncounted(t) ==
  /\ pc[t] = "working"
  /\ Goto(t, "posted")
  /\ UNCHANGED <<counter, leaderChosen>>

Post(t) ==
  /\ pc[t] = "working"
  /\ counter' = counter + 1
  /\ Goto(t, "posted")
  /\ UNCHANGED leaderChosen

\* Mutant: one subtask may still be at work.
IsDoneEarly(t) ==
  /\ pc[t] = "posted"
  /\ Goto(t, IF counter + 1 >= target THEN "electing" ELSE "finished")
  /\ UNCHANGED <<counter, leaderChosen>>

IsDone(t) ==
  /\ pc[t] = "posted"
  /\ Goto(t, IF counter = target THEN "electing" ELSE "finished")
  /\ UNCHANGED <<counter, leaderChosen>>

\* becomeLeader: the load at the head of the loop ...
LoadLeaderChosen(t) ==
  /\ pc[t] = "electing"
  /\ Goto(t, IF leaderChosen THEN "finished" ELSE "swapping")
  /\ UNCHANGED <<counter, leaderChosen>>

\* Mutant: a plain store.
StoreLeaderChosen(t) ==
  /\ pc[t] = "swapping"
  /\ leaderChosen' = TRUE
  /\ Goto(t, "leader")
  /\ UNCHANGED counter

\* ... and its compare-and-swap; a failure goes round the loop.
SwapLeaderChosen(t) ==
  /\ pc[t] = "swapping"
  /\ leaderChosen' = TRUE
  /\ Goto(t, IF leaderChosen THEN "electing" ELSE "leader")
  /\ UNCHANGED counter

Step(t) == Post(t) \/ IsDone(t) \/ LoadLeaderChosen(t) \/ SwapLeaderChosen(t)

Next == \E t \in Task : Step(t)

Spec == Init /\ [][Next]_vars

\* The subtasks are callbacks and thread functions that run to their end.
FairSpec == Spec /\ \A t \in Task : WF_vars(Step(t))

------------------------------------------------------------------------------

Posted == {t \in Task : pc[t] # "working"}

Leaders == {t \in Task : pc[t] = "leader"}

\* Two subtasks never both continue.
OneLeader == \A t, u \in Leaders : t = u

\* Whoever continues does so after every subtask has posted.
LeaderIsLast == Leaders # {} => Posted = Task

\* When all have finished, one of them continued: the group is never left
\* without anybody to call back.
SomebodyLeads == (\A t \in Task : pc[t] \in {"leader", "finished"}) => Leaders # {}

\* The inductive invariant: the counter counts the posts, the flag is the
\* leader's, and as long as nobody leads a complete group somebody still may.
GroupInv ==
  /\ TypeOK
  /\ counter = Cardinality(Posted)
  /\ leaderChosen <=> Leaders # {}
  /\ OneLeader
  /\ \A t \in Task : pc[t] \in {"electing", "swapping", "leader"} => Posted = Task
  /\ Posted = Task /\ ~leaderChosen =>
       \E t \in Task : pc[t] \in {"posted", "electing", "swapping"}
==============================================================================

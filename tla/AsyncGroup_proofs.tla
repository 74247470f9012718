-------------------------- MODULE AsyncGroup_proofs --------------------------
(***************************************************************************)
(* Proofs about AsyncGroup for any finite number of subtasks, and about      *)
(* AwaitedGroup for any number of threads that wait.                        *)
(***************************************************************************)
EXTENDS AwaitedGroup, FiniteSetTheorems, TLAPS

\* The subtasks that have posted are finitely many, and all of them are as
\* many as there are subtasks only when each has posted.
LEMMA PostedCount ==
  /\ IsFiniteSet(Posted)
  /\ Cardinality(Posted) \in Nat
  /\ target \in Nat
  /\ Cardinality(Posted) = target => Posted = Task
<1>1. Posted \subseteq Task
  BY DEF Posted
<1> QED
  BY <1>1, TaskAssumption, FS_Subset, FS_CardinalityType DEF target

\* A post adds one subtask to those that have posted, and one to the counter.
LEMMA PostKeeps ==
  ASSUME GroupInv, NEW t \in Task, Post(t)
  PROVE  GroupInv'
<1> USE DEF GroupInv, Post, Goto, Leaders, Posted
<1>1. TypeOK'
  BY DEF TypeOK, Place
<1>2. Posted' = Posted \cup {t} /\ t \notin Posted
  BY DEF TypeOK
<1>3. counter' = Cardinality(Posted')
  BY <1>2, PostedCount, FS_AddElement
<1>4. Leaders' = Leaders
  BY DEF TypeOK
<1>5. \A u \in Task : pc'[u] \in {"electing", "swapping", "leader"} => Posted' = Task
  BY <1>2 DEF TypeOK
<1>6. Posted' = Task /\ ~leaderChosen' =>
        \E u \in Task : pc'[u] \in {"posted", "electing", "swapping"}
  BY DEF TypeOK
<1>7. (leaderChosen <=> Leaders # {})' /\ OneLeader'
  BY <1>4 DEF OneLeader
<1> QED
  BY <1>1, <1>3, <1>5, <1>6, <1>7

\* Looking at the counter, the caller learns that the group is complete, or
\* leaves it to those that have not posted yet.
LEMMA IsDoneStep ==
  ASSUME GroupInv, NEW t \in Task, IsDone(t)
  PROVE  GroupInv'
<1> USE DEF GroupInv, IsDone, Goto, Leaders, Posted
<1>1. TypeOK'
  BY DEF TypeOK, Place
<1>2. Posted' = Posted /\ Leaders' = Leaders
  BY DEF TypeOK
<1>3. pc'[t] = "electing" => Posted = Task
  BY PostedCount DEF TypeOK
<1>4. Posted = Task => pc'[t] = "electing"
  BY DEF target, TypeOK
<1>5. \A u \in Task : pc'[u] \in {"electing", "swapping", "leader"} => Posted' = Task
  BY <1>2, <1>3 DEF TypeOK
<1>6. Posted' = Task /\ ~leaderChosen' =>
        \E u \in Task : pc'[u] \in {"posted", "electing", "swapping"}
  BY <1>2, <1>4
<1>7. (leaderChosen <=> Leaders # {})' /\ OneLeader'
  BY <1>2 DEF OneLeader
<1> QED
  BY <1>1, <1>2, <1>5, <1>6, <1>7

\* The load of leaderChosen_ sends the caller away only when there is a leader.
LEMMA LoadStep ==
  ASSUME GroupInv, NEW t \in Task, LoadLeaderChosen(t)
  PROVE  GroupInv'
<1> USE DEF GroupInv, LoadLeaderChosen, Goto, Leaders, Posted
<1>1. TypeOK'
  BY DEF TypeOK, Place
<1>2. Posted' = Posted /\ Leaders' = Leaders
  BY DEF TypeOK
<1>3. \A u \in Task : pc'[u] \in {"electing", "swapping", "leader"} => Posted' = Task
  BY <1>2 DEF TypeOK
<1>4. ~leaderChosen' => pc'[t] = "swapping"
  BY DEF TypeOK
<1>5. (leaderChosen <=> Leaders # {})' /\ OneLeader'
  BY <1>2 DEF OneLeader
<1> QED
  BY <1>1, <1>2, <1>3, <1>4, <1>5

\* The compare-and-swap makes the caller the leader, or finds one.
LEMMA SwapStep ==
  ASSUME GroupInv, NEW t \in Task, SwapLeaderChosen(t)
  PROVE  GroupInv'
<1> USE DEF GroupInv, SwapLeaderChosen, Goto, Leaders, Posted
<1>1. TypeOK'
  BY DEF TypeOK, Place
<1>2. Posted' = Posted
  BY DEF TypeOK
<1>3. Leaders' = IF leaderChosen THEN Leaders ELSE {t}
  BY DEF TypeOK
<1>4. \A u \in Task : pc'[u] \in {"electing", "swapping", "leader"} => Posted' = Task
  BY <1>2 DEF TypeOK
<1>5. (leaderChosen <=> Leaders # {})' /\ OneLeader'
  BY <1>3 DEF OneLeader
<1> QED
  BY <1>1, <1>2, <1>4, <1>5

\* No subtask has posted yet when the group begins.
LEMMA GroupStart == Init => GroupInv
<1> SUFFICES ASSUME Init PROVE GroupInv
  OBVIOUS
<1>1. Posted = {} /\ Leaders = {}
  BY DEF Init, Posted, Leaders
<1>2. Posted # Task
  BY <1>1, TaskAssumption
<1>3. counter = Cardinality(Posted)
  BY <1>1, FS_EmptySet DEF Init
<1>4. TypeOK
  BY DEF Init, TypeOK, Place
<1>5. \A t \in Task : pc[t] = "working"
  BY DEF Init
<1>6. leaderChosen <=> Leaders # {}
  BY <1>1 DEF Init
<1>7. OneLeader
  BY <1>1 DEF OneLeader
<1> QED
  BY <1>2, <1>3, <1>4, <1>5, <1>6, <1>7 DEF GroupInv

\* Every step of a subtask keeps the invariant, and so does every other step.
LEMMA GroupStep == GroupInv /\ [Next]_vars => GroupInv'
<1> SUFFICES ASSUME GroupInv, [Next]_vars PROVE GroupInv'
  OBVIOUS
<1>1. CASE UNCHANGED vars
  BY <1>1 DEF GroupInv, TypeOK, Posted, Leaders, OneLeader, vars
<1>2. ASSUME NEW t \in Task, Step(t) PROVE GroupInv'
  BY <1>2, PostKeeps, IsDoneStep, LoadStep, SwapStep DEF Step
<1> QED
  BY <1>1, <1>2 DEF Next

\* The invariant of the group holds for any number of subtasks.
THEOREM GroupInvariant == Spec => []GroupInv
<1>1. Init => GroupInv
  BY GroupStart
<1>2. GroupInv /\ [Next]_vars => GroupInv'
  BY GroupStep
<1> QED
  BY <1>1, <1>2, PTL DEF Spec

\* At most one subtask becomes the leader, however their steps interleave.
THEOREM AtMostOneLeader == Spec => []OneLeader
<1>1. GroupInv => OneLeader
  BY DEF GroupInv
<1> QED
  BY <1>1, GroupInvariant, PTL

\* The leader continues after every subtask has posted.
THEOREM LeaderAfterAll == Spec => []LeaderIsLast
<1>1. GroupInv => LeaderIsLast
  BY DEF GroupInv, LeaderIsLast, Leaders
<1> QED
  BY <1>1, GroupInvariant, PTL

\* A group whose subtasks have all finished has had its leader.
THEOREM GroupIsLed == Spec => []SomebodyLeads
<1>1. GroupInv => SomebodyLeads
  <2> SUFFICES ASSUME GroupInv, \A t \in Task : pc[t] \in {"leader", "finished"},
                      Leaders = {}
               PROVE  FALSE
    BY DEF SomebodyLeads
  <2>1. Posted = Task
    BY DEF Posted
  <2>2. ~leaderChosen
    BY DEF GroupInv
  <2> QED
    BY <2>1, <2>2 DEF GroupInv
<1> QED
  BY <1>1, GroupInvariant, PTL

------------------------------------------------------------------------------
(* The thread that waits for the group.                                    *)

\* Nobody but the leader posts the baton, once: it finds it unposted.
LEMMA AwaitedStep ==
  GroupInv /\ BatonInv /\ [AwaitedNext]_awaitedVars => BatonInv'
<1> SUFFICES ASSUME GroupInv, BatonInv, [AwaitedNext]_awaitedVars PROVE BatonInv'
  OBVIOUS
<1>0. /\ Task \cap Waiter = {}
      /\ at \in [Task \cup Waiter -> PosterPlace \cup WaiterPlace]
      /\ posted \in BOOLEAN
      /\ mutex \in Task \cup Waiter \cup {NoThread}
      /\ pc \in [Task -> Place]
  BY BatonAssumption, AwaitedAssumption
     DEF BatonInv, BatonTypeOK, GroupInv, TypeOK
<1>1. CASE UNCHANGED awaitedVars
  BY <1>1 DEF BatonInv, BatonTypeOK, Posted, awaitedVars, batonVars, vars
<1>2. ASSUME NEW t \in Task, Step(t), UNCHANGED batonVars PROVE BatonInv'
  <2>1. /\ \A u \in Task : pc[u] # "working" => pc'[u] # "working"
        /\ \A u \in Task : pc[u] = "leader" => pc'[u] = "leader"
    BY <1>0, <1>2 DEF Step, Post, IsDone, LoadLeaderChosen, SwapLeaderChosen, Goto
  <2>2. Posted = Task => Posted' = Task
    BY <2>1 DEF Posted
  <2>3. \A u \in Task : pc'[u] = "leader" /\ pc[u] # "leader" => ~leaderChosen
    BY <1>0, <1>2 DEF Step, Post, IsDone, LoadLeaderChosen, SwapLeaderChosen, Goto
  <2>4. leaderChosen => leaderChosen'
    BY <1>0, <1>2 DEF Step, Post, IsDone, LoadLeaderChosen, SwapLeaderChosen, Goto
  <2>5. posted' = posted /\ at' = at /\ BatonTypeOK'
    BY <1>2 DEF BatonInv, BatonTypeOK, batonVars
  <2>6. posted' => leaderChosen' /\ Posted' = Task
    BY <2>2, <2>4, <2>5 DEF BatonInv
  <2>7. \A u \in Task : pc'[u] = "leader" /\ at'[u] \in {"idle", "locked"} => ~posted'
    BY <2>3, <2>5 DEF BatonInv
  <2> QED
    BY <2>1, <2>5, <2>6, <2>7 DEF BatonInv
<1>3. ASSUME NEW t \in Task, LeaderPosts(t) PROVE BatonInv'
  <2>1. /\ pc' = pc /\ pc[t] = "leader" /\ Posted' = Posted
        /\ Posted = Task /\ t \in Leaders
        /\ \A u \in Leaders : u = t
    BY <1>3 DEF LeaderPosts, GroupInv, OneLeader, Leaders, Posted, vars
  <2>2. \A u \in Task : pc[u] = "leader" => u = t
    BY <2>1 DEF Leaders
  <2>3. leaderChosen' = leaderChosen /\ leaderChosen
    BY <1>3, <2>1 DEF LeaderPosts, vars, GroupInv
  <2>4. \A u \in Task : u # t => at[u] = "idle"
    BY <2>2 DEF BatonInv
  <2>5. ~posted => \A w \in Waiter : at[w] # "returned"
    BY DEF BatonInv
  <2>6. at[t] \in {"idle", "locked"} => ~posted
    BY <2>1 DEF BatonInv
  <2>7. /\ posted' \in BOOLEAN
        /\ mutex' \in Task \cup Waiter \cup {NoThread}
        /\ at' \in [Task \cup Waiter -> PosterPlace \cup WaiterPlace]
    BY <1>0, <1>3 DEF LeaderPosts, PostStep, LockToPost, DoPost, UnlockPosted, NotifyOne,
                      Moves, Lock, Unlock, Asleep, PosterPlace, WaiterPlace
  <2>8. /\ at'[t] \in {"locked", "unlocking", "notifying", "posted"}
        /\ at'[t] = "locked" => ~posted'
        /\ posted => posted'
    BY <1>0, <1>3, <2>6 DEF LeaderPosts, PostStep, LockToPost, DoPost, UnlockPosted,
                            NotifyOne, Moves, Lock, Unlock, Asleep
  <2>9. \A u \in Task : u # t => at'[u] = at[u]
    BY <1>0, <1>3 DEF LeaderPosts, PostStep, LockToPost, DoPost, UnlockPosted,
                      NotifyOne, Moves, Asleep
  <2>10. \A w \in Waiter : at'[w] = "returned" => at[w] = "returned"
    BY <1>0, <1>3 DEF LeaderPosts, PostStep, LockToPost, DoPost, UnlockPosted,
                      NotifyOne, Moves, Asleep
  <2>11. BatonTypeOK'
    BY <2>7, AwaitedAssumption DEF BatonTypeOK
  <2> QED
    BY <2>1, <2>2, <2>3, <2>4, <2>5, <2>8, <2>9, <2>10, <2>11 DEF BatonInv
<1>4. ASSUME NEW w \in Waiter, WaitStep(w) \/ WakeSpuriously(w), UNCHANGED vars
      PROVE  BatonInv'
  <2>1. pc' = pc /\ Posted' = Posted /\ posted' = posted /\ Leaders' = Leaders
    BY <1>4 DEF vars, Posted, Leaders, WaitStep, CheckFast, LockToWait, CheckLocked, Sleep,
                LockWoken, WakeSpuriously
  <2>2. PICK place \in WaiterPlace :
          /\ at' = [at EXCEPT ![w] = place]
          /\ place = "returned" => posted
    BY <1>4 DEF WaitStep, CheckFast, LockToWait, CheckLocked, Sleep, LockWoken,
                WakeSpuriously, Moves, WaiterPlace
  <2>3. mutex' \in Task \cup Waiter \cup {NoThread}
    BY <1>0, <1>4 DEF WaitStep, CheckFast, LockToWait, CheckLocked, Sleep, LockWoken,
                      WakeSpuriously, Lock, Unlock
  <2>4. /\ at' \in [Task \cup Waiter -> PosterPlace \cup WaiterPlace]
        /\ \A u \in Task : at'[u] = at[u]
        /\ \A v \in Waiter : at'[v] = "returned" => at[v] = "returned" \/ posted
    BY <1>0, <2>2
  <2>5. BatonTypeOK'
    BY <1>0, <2>1, <2>3, <2>4, AwaitedAssumption DEF BatonTypeOK
  <2>6. leaderChosen' = leaderChosen
    BY <1>4 DEF vars
  <2> QED
    BY <2>1, <2>4, <2>5, <2>6 DEF BatonInv
<1> QED
  BY <1>1, <1>2, <1>3, <1>4 DEF AwaitedNext, Next

\* However many threads wait, none returns before every subtask has posted,
\* and the leader's post() never throws.
THEOREM NobodyReturnsEarly == AwaitedSpec => []ReturnsAfterAll
<1>1. AwaitedInit => GroupInv /\ BatonInv
  <2> SUFFICES ASSUME AwaitedInit PROVE GroupInv /\ BatonInv
    OBVIOUS
  <2>1. BatonInv
    BY BatonAssumption, AwaitedAssumption
       DEF AwaitedInit, BatonInit, BatonInv, BatonTypeOK, PosterPlace, WaiterPlace
  <2> QED
    BY <2>1, GroupStart DEF AwaitedInit
<1>2. GroupInv /\ BatonInv /\ [AwaitedNext]_awaitedVars => GroupInv' /\ BatonInv'
  <2>1. [AwaitedNext]_awaitedVars => [Next]_vars
    BY DEF AwaitedNext, LeaderPosts, awaitedVars
  <2> QED
    BY <2>1, GroupStep, AwaitedStep
<1>3. BatonInv => ReturnsAfterAll
  BY DEF BatonInv, ReturnsAfterAll
<1> QED
  BY <1>1, <1>2, <1>3, PTL DEF AwaitedSpec
==============================================================================

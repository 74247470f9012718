----------------------------- MODULE ThreadBaton -----------------------------
(***************************************************************************)
(* ThreadBaton: threads that wait() until another thread has called post(). *)
(* Every access to posted_ and every lock, unlock and notification is a step *)
(* of its own; only going to sleep on the condition and releasing the mutex *)
(* are one step, which is what a condition variable is for.                 *)
(***************************************************************************)
CONSTANTS
  Poster,   \* the threads that may call post()
  Waiter,   \* the threads that call wait(), once
  NoThread  \* the mutex is free

ASSUME BatonAssumption ==
  /\ Poster \cap Waiter = {}
  /\ NoThread \notin Poster \cup Waiter

VARIABLES
  posted,  \* posted_
  mutex,   \* the thread that holds mutex_
  at       \* where each thread is in post() or wait()

batonVars == <<posted, mutex, at>>

PosterPlace == {"idle", "locked", "unlocking", "notifying", "posted", "threw"}

WaiterPlace == {"arriving", "locking", "checking", "sleeping", "asleep", "woken", "returned"}

BatonTypeOK ==
  /\ posted \in BOOLEAN
  /\ mutex \in Poster \cup Waiter \cup {NoThread}
  /\ at \in [Poster \cup Waiter -> PosterPlace \cup WaiterPlace]

BatonInit ==
  /\ posted = FALSE
  /\ mutex = NoThread
  /\ at = [t \in Poster \cup Waiter |-> IF t \in Poster THEN "idle" ELSE "arriving"]

Moves(t, from, to) == at[t] = from /\ at' = [at EXCEPT ![t] = to]

Lock(t) == mutex = NoThread /\ mutex' = t

Unlock(t) == mutex = t /\ mutex' = NoThread

------------------------------------------------------------------------------
(* post().                                                                 *)

LockToPost(p) == Moves(p, "idle", "locked") /\ Lock(p) /\ UNCHANGED posted

\* doPost; AlreadyPosted releases the mutex on its way out.
DoPost(p) ==
  \/ /\ ~posted
     /\ Moves(p, "locked", "unlocking")
     /\ posted' = TRUE
     /\ UNCHANGED mutex
  \/ /\ posted
     /\ Moves(p, "locked", "threw")
     /\ Unlock(p)
     /\ UNCHANGED posted

UnlockPosted(p) == Moves(p, "unlocking", "notifying") /\ Unlock(p) /\ UNCHANGED posted

Asleep == {w \in Waiter : at[w] = "asleep"}

NotifyOne(p) ==
  /\ at[p] = "notifying"
  /\ \/ Asleep = {} /\ at' = [at EXCEPT ![p] = "posted"]
     \/ \E w \in Asleep : at' = [at EXCEPT ![p] = "posted", ![w] = "woken"]
  /\ UNCHANGED <<posted, mutex>>

\* Mutant: post() takes no mutex.
PostStepUnlocked(p) ==
  \/ Moves(p, "idle", "notifying") /\ posted' = TRUE /\ UNCHANGED mutex
  \/ NotifyOne(p)

PostStep(p) == LockToPost(p) \/ DoPost(p) \/ UnlockPosted(p) \/ NotifyOne(p)

------------------------------------------------------------------------------
(* wait().                                                                 *)

\* The fast path; a relaxed load may still find the old value.
CheckFast(w) ==
  /\ \/ posted /\ Moves(w, "arriving", "returned")
     \/ Moves(w, "arriving", "locking")
  /\ UNCHANGED <<posted, mutex>>

LockToWait(w) == Moves(w, "locking", "checking") /\ Lock(w) /\ UNCHANGED posted

\* The check under the lock, and the predicate of condition_.wait.  (The loop
\* after it finds posted_ set.)
CheckLocked(w) ==
  /\ \/ posted /\ Moves(w, "checking", "returned") /\ Unlock(w)
     \/ ~posted /\ Moves(w, "checking", "sleeping") /\ UNCHANGED mutex
  /\ UNCHANGED posted

Sleep(w) == Moves(w, "sleeping", "asleep") /\ Unlock(w) /\ UNCHANGED posted

\* A condition variable may wake a thread that nobody notified.
WakeSpuriously(w) == Moves(w, "asleep", "woken") /\ UNCHANGED <<posted, mutex>>

\* Mutant: condition_.wait has no predicate.
ReturnWoken(w) == Moves(w, "woken", "returned") /\ UNCHANGED <<posted, mutex>>

\* condition_.wait locks the mutex and evaluates its predicate again.
LockWoken(w) == Moves(w, "woken", "checking") /\ Lock(w) /\ UNCHANGED posted

WaitStep(w) ==
  \/ CheckFast(w)
  \/ LockToWait(w)
  \/ CheckLocked(w)
  \/ Sleep(w)
  \/ LockWoken(w)
==============================================================================

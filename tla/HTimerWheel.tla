----------------------------- MODULE HTimerWheel -----------------------------
(***************************************************************************)
(* HTimerWheel, the timers of an EventContext: levels of slots, each level   *)
(* with a persistent libevent timer that fires once per slot.  A tick        *)
(* empties the current slot of its level and of every level below: the lowest *)
(* level's entries are run, an upper level's are filed anew, further down.    *)
(* Time is counted in the unit of the settings.                              *)
(*                                                                         *)
(* The wheel runs in the event loop's thread.  A tick is nevertheless a       *)
(* sequence of steps, the agenda, because the callbacks it runs may add       *)
(* timers to a wheel whose tick is half done.                                *)
(***************************************************************************)
EXTENDS Naturals, Sequences, FiniteSets

CONSTANTS
  Timer,       \* what is added, by add, addRepeating or addOneShot
  Resolution,  \* per level, the time of a slot
  Slots,       \* per level, the number of slots
  Interval,    \* the delays asked for
  NoTime,      \* a timer not asked for yet
  MaxAdd,      \* bound: nothing is added later than this
  MaxTime,     \* bound: the clock stops here
  MaxLag       \* how far the event loop may fall behind a due tick

Level == DOMAIN Resolution
Top == Len(Resolution)

\* Bucket::timeCapacity
TimeCapacity(i) == Resolution[i] * Slots[i]

ASSUME WheelAssumption ==
  /\ Resolution \in Seq(Nat \ {0})
  /\ Slots \in Seq(Nat \ {0, 1})
  /\ Top > 0
  /\ Len(Slots) = Top
  /\ \A i \in 1 .. Top - 1 : Resolution[i + 1] = TimeCapacity(i)
  /\ Interval \subseteq 0 .. TimeCapacity(Top) - 1
  /\ {MaxAdd, MaxTime, MaxLag} \subseteq Nat
  /\ NoTime \notin Nat

VARIABLES
  now,          \* the steady clock
  cachedNow,    \* cachedNow_, the clock as the wheel saw it last
  due,          \* per level, when its libevent timer fires next
  tickCounter,  \* per level
  cursor,       \* per level, the index of its current slot
  buckets,      \* per level and slot, the entries in it
  agenda,       \* what is left to do of a tick
  pending,      \* entriesToExecute_
  subs,         \* subEntriesToAdd_
  repeats,      \* repeatingEntriesToAdd_
  asked,        \* history: when a timer was last asked for or armed again
  nested,       \* history: the timers last asked for by a callback
  finished      \* history: the one-shot timers that ran

clockVars == <<now, cachedNow, due, tickCounter>>
entryVars == <<buckets, pending, subs, repeats>>
historyVars == <<asked, nested, finished>>
vars == <<clockVars, cursor, agenda, entryVars, historyVars>>

Index(i) == 0 .. Slots[i] - 1

Entry == [timer : Timer, interval : Interval, added : Nat, repeating : BOOLEAN]

Task == [op : {"process", "execute", "advance", "refile"}, level : Level]

TypeOK ==
  /\ {now, cachedNow} \subseteq Nat
  /\ due \in [Level -> Nat]
  /\ tickCounter \in [Level -> Nat]
  /\ DOMAIN cursor = Level /\ \A i \in Level : cursor[i] \in Index(i)
  /\ DOMAIN buckets = Level
  /\ \A i \in Level : DOMAIN buckets[i] = Index(i)
  /\ agenda \in Seq(Task)
  /\ \A S \in {pending, subs, repeats} : S \subseteq Entry
  /\ \A i \in Level : \A x \in Index(i) : buckets[i][x] \subseteq Entry
  /\ asked \in [Timer -> Nat \cup {NoTime}]
  /\ nested \subseteq Timer
  /\ finished \subseteq Timer

\* createNew and start, as EventContext::createNew calls them.
Init ==
  /\ now = 0
  /\ cachedNow = 0
  /\ due = Resolution
  /\ tickCounter = [i \in Level |-> 0]
  /\ cursor = [i \in Level |-> 0]
  /\ buckets = [i \in Level |-> [x \in Index(i) |-> {}]]
  /\ agenda = <<>>
  /\ pending = {}
  /\ subs = {}
  /\ repeats = {}
  /\ asked = [t \in Timer |-> NoTime]
  /\ nested = {}
  /\ finished = {}

------------------------------------------------------------------------------
(* Filing an entry.                                                        *)

\* Entry::getRemainingTime
RemainingTime(e, at) ==
  IF e.added + e.interval <= at THEN 0 ELSE e.added + e.interval - at

\* Bucket::getSlotIdx.  initLevels leaves its idx at 0, so that every bucket
\* takes itself for the bottom one and rounds the first slot.
GetSlotIdx(i, delay) ==
  LET overflow == delay % Resolution[i]
      slot == delay \div Resolution[i]
      idx == IF slot > 0 /\ overflow > 0 THEN slot - 1 ELSE slot
  IN  IF idx = 0 /\ Resolution[i] - overflow < overflow THEN 1 ELSE idx

\* The lowest level whose capacity the delay does not reach.
LevelFor(delay) ==
  CHOOSE i \in Level :
    /\ delay < TimeCapacity(i)
    /\ \A j \in 1 .. i - 1 : delay >= TimeCapacity(j)

SlotAt(i, idx) == (cursor[i] + idx) % Slots[i]

\* addEntry, of all the entries es at the time at.
InSlot(e, at, i, x) ==
  LET remaining == RemainingTime(e, at) IN
  /\ i = LevelFor(remaining)
  /\ x = SlotAt(i, GetSlotIdx(i, remaining))

AddEntries(es, at) ==
  [i \in Level |-> [x \in Index(i) |->
    buckets[i][x] \cup {e \in es : InSlot(e, at, i, x)}]]

\* The entries a caller may add at this moment: none or one.
NewEntries ==
  {{}} \cup
  IF now > MaxAdd THEN {}
  ELSE {{e} : e \in [timer : {t \in Timer : asked[t] = NoTime}, interval : Interval,
                     added : {cachedNow}, repeating : BOOLEAN]}

TimersOf(es) == {e.timer : e \in es}

Ask(es) == asked' = [t \in Timer |-> IF t \in TimersOf(es) THEN now ELSE asked[t]]

------------------------------------------------------------------------------

\* The clock moves on.  libevent runs a due timer promptly, or up to MaxLag late.
PassTime ==
  /\ agenda = <<>>
  /\ now < MaxTime
  /\ \A i \in Level : now < due[i] + MaxLag
  /\ now' = now + 1
  /\ UNCHANGED <<cachedNow, due, tickCounter, cursor, agenda, entryVars, historyVars>>

\* add between two ticks: the entry's time is the cached one.
Add ==
  /\ agenda = <<>>
  /\ \E es \in NewEntries \ {{}} :
       /\ buckets' = AddEntries(es, cachedNow)
       /\ Ask(es)
  /\ UNCHANGED <<clockVars, cursor, agenda, pending, subs, repeats, nested, finished>>

\* A persistent libevent timer fires and is armed again, relative to the time
\* it was due, unless that is past already.
Fire(i) ==
  /\ agenda = <<>>
  /\ due[i] <= now
  /\ \A j \in Level : due[i] <= due[j]
  /\ LET again == due[i] + Resolution[i] IN
     due' = [due EXCEPT ![i] = IF again < now THEN now + Resolution[i] ELSE again]

SkipTick(i) == Resolution[i + 1] \div Resolution[i]

\* Mutant: the counter is not reset.
SkipOn(i) ==
  /\ i # Top
  /\ tickCounter[i] + 1 = SkipTick(i)
  /\ Fire(i)
  /\ tickCounter' = [tickCounter EXCEPT ![i] = @ + 1]
  /\ UNCHANGED <<now, cachedNow, cursor, agenda, entryVars, historyVars>>

\* onLevelTick of a level below the top does nothing when the level above ticks.
Skip(i) ==
  /\ i # Top
  /\ tickCounter[i] + 1 = SkipTick(i)
  /\ Fire(i)
  /\ tickCounter' = [tickCounter EXCEPT ![i] = 0]
  /\ UNCHANGED <<now, cachedNow, cursor, agenda, entryVars, historyVars>>

\* Mutant: the levels below are left to themselves.
TickTasksOne(i) ==
  [n \in 1 .. 6 |->
    [op |-> <<"process", "execute", "advance", "execute", "refile", "execute">>[n], level |-> i]]

\* onLevelTickImpl for i and the levels below, advanceBuckets, onAfterTick
TickTasks(i) ==
  [n \in 1 .. 2 * i |-> [op |-> IF n % 2 = 1 THEN "process" ELSE "execute",
                         level |-> i - (n - 1) \div 2]]
    \o [n \in 1 .. 4 |-> [op |-> <<"advance", "execute", "refile", "execute">>[n],
                          level |-> i]]

OnLevelTick(i) ==
  /\ i # Top => tickCounter[i] + 1 # SkipTick(i)
  /\ Fire(i)
  /\ tickCounter' = IF i = Top THEN tickCounter
                    ELSE [tickCounter EXCEPT ![i] = @ + 1]
  /\ agenda' = TickTasks(i)
  /\ UNCHANGED <<now, cachedNow, cursor, entryVars, historyVars>>

------------------------------------------------------------------------------
(* The steps of a tick.                                                    *)

Does(op) == agenda # <<>> /\ Head(agenda).op = op
Done == agenda' = Tail(agenda)

\* processUpperBucketSlots: an entry that is due within half a slot of the
\* lowest level is run now, the others are filed again after the tick.
Soon(e) == 2 * RemainingTime(e, now) < Resolution[1]

\* Mutant: the slot is not cleared.
ProcessKept ==
  /\ Does("process")
  /\ LET i == Head(agenda).level
         current == buckets[i][SlotAt(i, 0)]
         toRun == IF i = 1 THEN current ELSE {e \in current : Soon(e)}
     IN /\ pending' = pending \cup toRun
        /\ subs' = subs \cup (current \ toRun)
  /\ cachedNow' = now
  /\ Done
  /\ UNCHANGED <<now, due, tickCounter, cursor, buckets, repeats, historyVars>>

\* processBucket1, processBucketN; onLevelTickImpl reads the clock first.
Process ==
  /\ Does("process")
  /\ LET i == Head(agenda).level
         current == buckets[i][SlotAt(i, 0)]
         toRun == IF i = 1 THEN current ELSE {e \in current : Soon(e)}
     IN /\ pending' = pending \cup toRun
        /\ subs' = subs \cup (current \ toRun)
        /\ buckets' = [buckets EXCEPT ![i][SlotAt(i, 0)] = {}]
  /\ cachedNow' = now
  /\ Done
  /\ UNCHANGED <<now, due, tickCounter, cursor, repeats, historyVars>>

\* executePendingEntries: one callback, which may add a timer.
Execute(e) ==
  /\ Does("execute")
  /\ e \in pending
  /\ pending' = pending \ {e}
  /\ repeats' = IF e.repeating THEN repeats \cup {e} ELSE repeats
  /\ finished' = IF e.repeating THEN finished ELSE finished \cup {e.timer}
  /\ \E es \in NewEntries :
       /\ buckets' = AddEntries(es, cachedNow)
       /\ Ask(es)
       /\ nested' = nested \cup TimersOf(es)
  /\ UNCHANGED <<clockVars, cursor, agenda, subs>>

ExecutedAll ==
  /\ Does("execute")
  /\ pending = {}
  /\ Done
  /\ UNCHANGED <<clockVars, cursor, entryVars, historyVars>>

\* Mutant: the cursor does not wrap.
AdvanceOn ==
  /\ Does("advance")
  /\ cursor' = [i \in Level |-> IF i <= Head(agenda).level THEN cursor[i] + 1 ELSE cursor[i]]
  /\ Done
  /\ UNCHANGED <<clockVars, entryVars, historyVars>>

\* advanceBuckets: the level's bucket turns by one slot, and all below it.
Advance ==
  /\ Does("advance")
  /\ cursor' = [i \in Level |-> IF i <= Head(agenda).level
                                THEN (cursor[i] + 1) % Slots[i] ELSE cursor[i]]
  /\ Done
  /\ UNCHANGED <<clockVars, entryVars, historyVars>>

\* onAfterTick: addSubEntries, and reAddRepeatingEntries from now on.
Refile ==
  /\ Does("refile")
  /\ buckets' = AddEntries(subs \cup {[e EXCEPT !.added = now] : e \in repeats}, now)
  /\ subs' = {}
  /\ repeats' = {}
  /\ Ask(repeats)
  /\ nested' = nested \ TimersOf(repeats)
  /\ cachedNow' = now
  /\ Done
  /\ UNCHANGED <<now, due, tickCounter, cursor, pending, finished>>

TickStep ==
  \/ Process
  \/ \E e \in pending : Execute(e)
  \/ ExecutedAll
  \/ Advance
  \/ Refile

Next ==
  \/ PassTime
  \/ Add
  \/ \E i \in Level : Skip(i) \/ OnLevelTick(i)
  \/ TickStep

Spec == Init /\ [][Next]_vars

------------------------------------------------------------------------------
(* Properties.                                                             *)

\* Where the entries of a timer lie: the lists a tick works on, the slots.
Lists == <<pending, subs, repeats>>

Places(t) ==
  {<<0, l>> : l \in {l \in DOMAIN Lists : t \in TimersOf(Lists[l])}}
    \cup UNION {{<<i, x>> : x \in {x \in Index(i) : t \in TimersOf(buckets[i][x])}} :
                  i \in Level}

\* Over ticks, cascades from level to level and callbacks that add timers, a
\* timer's entry is in one place from the moment it is asked for, a repeating one
\* forever and a one-shot until it has run: none is lost, and none runs twice.
EntryKept ==
  \A t \in Timer :
    Cardinality(Places(t)) = IF asked[t] = NoTime \/ t \in finished THEN 0 ELSE 1

\* No callback runs two slots of the lowest level or more before its time: one
\* for a cached clock that is as old as the last tick, one for rounding.
NotTooEarly ==
  \A e \in pending : now + 2 * Resolution[1] + 2 * MaxLag > asked[e.timer] + e.interval

\* How late a timer may run: by a slot of the level it is filed at, and one of
\* the lowest.  One that a callback asks for may be filed into the slot that is
\* just being emptied, and waits until the whole level has turned.
Lateness(e) ==
  LET i == LevelFor(e.interval) IN
  Resolution[1] + IF e.timer \in nested THEN TimeCapacity(i) ELSE Resolution[i]

\* Every timer that is asked for has run soon after its time, while the event
\* loop keeps up with the ticks.
NotTooLate ==
  \A i \in Level : \A x \in Index(i) : \A e \in buckets[i][x] :
    now <= asked[e.timer] + e.interval + Lateness(e) + 2 * MaxLag
==============================================================================

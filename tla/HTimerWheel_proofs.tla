------------------------- MODULE HTimerWheel_proofs -------------------------
(***************************************************************************)
(* HTimerWheel, for any timers, levels, slots and delays: the types, that no *)
(* entry is lost or doubled, and that none runs much too early or too late.  *)
(***************************************************************************)
EXTENDS HTimerWheel, FiniteSetTheorems, WellFoundedInduction, TLAPS

(* The levels, and where an entry is filed.                                *)

LEMMA LevelFacts ==
  /\ Top \in Nat /\ Top \in Level /\ Level = 1 .. Top
  /\ \A i \in Level : Resolution[i] \in Nat \ {0} /\ Slots[i] \in Nat \ {0, 1}
<1>1. Top \in Nat /\ Level = 1 .. Top /\ Top > 0
  BY WheelAssumption DEF Top, Level
<1>2. ASSUME NEW i \in Level
      PROVE  Resolution[i] \in Nat \ {0} /\ Slots[i] \in Nat \ {0, 1}
  BY <1>1, WheelAssumption DEF Top, Level
<1> QED BY <1>1, <1>2

LEMMA CapacityType ==
  ASSUME NEW i \in Level
  PROVE  TimeCapacity(i) \in Nat
<1>1. PICK r \in Nat, s \in Nat : r = Resolution[i] /\ s = Slots[i]
  BY LevelFacts
<1>2. r * s \in Nat
  OBVIOUS
<1> QED BY <1>1, <1>2 DEF TimeCapacity

\* There is a lowest level for every delay the top level can hold.
LEMMA LevelForIs ==
  ASSUME NEW delay \in Nat, delay < TimeCapacity(Top)
  PROVE  /\ LevelFor(delay) \in Level
         /\ delay < TimeCapacity(LevelFor(delay))
         /\ \A j \in 1 .. LevelFor(delay) - 1 : delay >= TimeCapacity(j)
<1> DEFINE fits == {i \in Level : delay < TimeCapacity(i)}
<1>1. Top \in fits /\ fits \subseteq Nat
  BY LevelFacts
<1>2. \E x \in fits : \A y \in fits : ~(<<y, x>> \in OpToRel(<, Nat))
  <2> HIDE DEF fits
  <2> QED BY <1>1, NatLessThanWellFounded, WFMin
<1>3. PICK x \in fits : \A y \in fits : ~(<<y, x>> \in OpToRel(<, Nat))
  BY <1>2
<1>4. \A y \in fits : ~(y < x)
  BY <1>1, <1>3 DEF OpToRel
<1>5. \A j \in 1 .. x - 1 : delay >= TimeCapacity(j)
  <2> SUFFICES ASSUME NEW j \in 1 .. x - 1
               PROVE  delay >= TimeCapacity(j)
    OBVIOUS
  <2>1. j \in Level /\ j < x
    BY LevelFacts
  <2>2. j \notin fits
    BY <1>4, <2>1
  <2> QED BY <2>1, <2>2, CapacityType
<1> QED BY <1>5 DEF LevelFor

\* An index of a level's bucket.
LEMMA SlotAtType ==
  ASSUME NEW i \in Level, cursor[i] \in Nat, NEW idx \in Nat
  PROVE  SlotAt(i, idx) \in Index(i)
<1>1. PICK n \in Nat \ {0} : n = Slots[i]
  BY LevelFacts
<1>2. PICK m \in Nat : m = cursor[i] + idx
  OBVIOUS
<1>3. m % n \in 0 .. n - 1
  OBVIOUS
<1> QED BY <1>1, <1>2, <1>3 DEF SlotAt, Index

LEMMA CurrentSlot ==
  ASSUME TypeOK, NEW i \in Level
  PROVE  SlotAt(i, 0) \in Index(i)
<1>1. cursor[i] \in Nat
  BY LevelFacts DEF TypeOK, Index
<1> QED BY <1>1, SlotAtType

LEMMA GetSlotIdxType ==
  ASSUME NEW i \in Level, NEW delay \in Nat
  PROVE  GetSlotIdx(i, delay) \in Nat
<1>1. PICK r \in Nat \ {0} : r = Resolution[i]
  BY LevelFacts
<1>2. delay \div r \in Nat
  OBVIOUS
<1>3. PICK slot \in Nat : slot = delay \div Resolution[i]
  BY <1>1, <1>2
<1>4. slot > 0 => slot - 1 \in Nat
  OBVIOUS
<1> QED BY <1>3, <1>4 DEF GetSlotIdx

\* Where addEntry files an entry.
HomeLevel(e, at) == LevelFor(RemainingTime(e, at))
HomeSlot(e, at) == SlotAt(HomeLevel(e, at), GetSlotIdx(HomeLevel(e, at), RemainingTime(e, at)))

\* The slots of the wheel.
Slot == UNION {{i} \X Index(i) : i \in Level}

LEMMA RemainingType ==
  ASSUME NEW e \in Entry, NEW at \in Nat, e.added <= at
  PROVE  RemainingTime(e, at) \in Nat /\ RemainingTime(e, at) < TimeCapacity(Top)
<1>0. PICK c \in Nat : c = TimeCapacity(Top)
  BY LevelFacts, CapacityType
<1>1. e.added \in Nat /\ e.interval \in 0 .. c - 1
  BY <1>0, WheelAssumption DEF Entry
<1>2. PICK d \in 0 .. c - 1, a \in Nat : d = e.interval /\ a = e.added
  BY <1>1
<1>3. /\ a + d > at => (a + d) - at \in Nat /\ (a + d) - at <= d
      /\ a <= at /\ d \in Nat /\ d < c
  BY <1>2
<1> QED BY <1>0, <1>2, <1>3 DEF RemainingTime

LEMMA HomeType ==
  ASSUME TypeOK, NEW e \in Entry, NEW at \in Nat, e.added <= at
  PROVE  HomeLevel(e, at) \in Level /\ HomeSlot(e, at) \in Index(HomeLevel(e, at))
<1>1. HomeLevel(e, at) \in Level
  BY RemainingType, LevelForIs DEF HomeLevel
<1>2. PICK i \in Level : i = HomeLevel(e, at)
  BY <1>1
<1>3. GetSlotIdx(i, RemainingTime(e, at)) \in Nat
  BY RemainingType, GetSlotIdxType
<1>4. cursor[i] \in Nat
  BY LevelFacts DEF TypeOK, Index
<1>5. SlotAt(i, GetSlotIdx(i, RemainingTime(e, at))) \in Index(i)
  BY <1>3, <1>4, SlotAtType
<1> QED BY <1>1, <1>2, <1>5 DEF HomeSlot

\* Every entry that is added has one home, and the slots keep what they had.
LEMMA EntriesAdded ==
  ASSUME TypeOK, NEW es \in SUBSET Entry, NEW at \in Nat, \A e \in es : e.added <= at,
         buckets' = AddEntries(es, at)
  PROVE  \E home \in [es -> Slot] :
           \A i \in Level : \A x \in Index(i) :
             buckets'[i][x] = buckets[i][x] \cup {e \in es : home[e] = <<i, x>>}
<1>1. PICK home : home = [e \in es |-> <<HomeLevel(e, at), HomeSlot(e, at)>>]
  OBVIOUS
<1>2. home \in [es -> Slot]
  <2>1. ASSUME NEW e \in es
        PROVE  <<HomeLevel(e, at), HomeSlot(e, at)>> \in Slot
    BY HomeType DEF Slot
  <2> QED BY <1>1, <2>1
<1>3. ASSUME NEW i \in Level, NEW x \in Index(i)
      PROVE  buckets'[i][x] = buckets[i][x] \cup {e \in es : home[e] = <<i, x>>}
  <2>1. buckets'[i][x] = buckets[i][x] \cup {e \in es : InSlot(e, at, i, x)}
    BY DEF AddEntries
  <2>2. ASSUME NEW e \in es
        PROVE  InSlot(e, at, i, x) <=> home[e] = <<i, x>>
    BY <1>1 DEF InSlot, HomeLevel, HomeSlot
  <2> QED BY <2>1, <2>2
<1> QED BY <1>2, <1>3

\* The slots as TypeOK has them.
SlotsOK ==
  /\ DOMAIN buckets = Level
  /\ \A i \in Level : DOMAIN buckets[i] = Index(i)
  /\ \A i \in Level : \A x \in Index(i) : buckets[i][x] \subseteq Entry

LEMMA AddedType ==
  ASSUME TypeOK, NEW es \in SUBSET Entry, NEW at \in Nat, buckets' = AddEntries(es, at)
  PROVE  SlotsOK'
BY DEF AddEntries, TypeOK, SlotsOK

LEMMA NewEntryIs ==
  ASSUME TypeOK, NEW es \in NewEntries
  PROVE  /\ es \subseteq Entry
         /\ \A e \in es : e.added = cachedNow /\ asked[e.timer] = NoTime /\ es = {e}
BY DEF NewEntries, Entry, TypeOK

------------------------------------------------------------------------------
(* Types.                                                                  *)

LEMMA TickTasksType ==
  ASSUME NEW i \in Level
  PROVE  TickTasks(i) \in Seq(Task)
<1>1. i \in Nat /\ i > 0 /\ i <= Top /\ Top \in Nat /\ Level = 1 .. Top
  BY LevelFacts
<1>2. [n \in 1 .. 2 * i |-> [op |-> IF n % 2 = 1 THEN "process" ELSE "execute",
                             level |-> i - (n - 1) \div 2]] \in Seq(Task)
  <2>1. ASSUME NEW n \in 1 .. 2 * i
        PROVE  [op |-> IF n % 2 = 1 THEN "process" ELSE "execute",
                level |-> i - (n - 1) \div 2] \in Task
    <3>1. (n - 1) \div 2 \in 0 .. i - 1
      BY <1>1
    <3>2. i - (n - 1) \div 2 \in Level
      BY <1>1, <3>1
    <3> QED BY <3>2 DEF Task
  <2>2. 2 * i \in Nat
    BY <1>1
  <2> QED BY <2>1, <2>2
<1>3. [n \in 1 .. 4 |-> [op |-> <<"advance", "execute", "refile", "execute">>[n],
                         level |-> i]] \in Seq(Task)
  <2>1. ASSUME NEW n \in 1 .. 4
        PROVE  [op |-> <<"advance", "execute", "refile", "execute">>[n], level |-> i] \in Task
    <3>1. n = 1 \/ n = 2 \/ n = 3 \/ n = 4
      OBVIOUS
    <3> QED BY <3>1 DEF Task
  <2> QED BY <2>1
<1>4. \A s, t \in Seq(Task) : s \o t \in Seq(Task)
  OBVIOUS
<1> QED BY <1>2, <1>3, <1>4 DEF TickTasks

LEMMA FireType ==
  ASSUME TypeOK, NEW i \in Level, Fire(i)
  PROVE  due' \in [Level -> Nat] /\ tickCounter[i] + 1 \in Nat
<1>1. PICK r \in Nat, d \in Nat, n \in Nat, c \in Nat :
        r = Resolution[i] /\ d = due[i] /\ n = now /\ c = tickCounter[i]
  <2>1. Resolution[i] \in Nat
    BY LevelFacts
  <2> QED BY <2>1 DEF TypeOK
<1>2. d + r \in Nat /\ n + r \in Nat /\ c + 1 \in Nat
  BY <1>1
<1>3. due[i] + Resolution[i] \in Nat /\ now + Resolution[i] \in Nat
  BY <1>1, <1>2
<1>4. due' \in [Level -> Nat]
  BY <1>3 DEF Fire, TypeOK
<1> QED BY <1>1, <1>2, <1>4

LEMMA HeadType ==
  ASSUME TypeOK, agenda # <<>>
  PROVE  /\ Head(agenda).level \in Level
         /\ Tail(agenda) \in Seq(Task)
<1>1. Head(agenda) \in Task /\ Tail(agenda) \in Seq(Task)
  BY DEF TypeOK
<1> QED BY <1>1 DEF Task

\* The levels' timers.
LEMMA TimerType ==
  ASSUME TypeOK, PassTime \/ \E i \in Level : Skip(i) \/ OnLevelTick(i)
  PROVE  TypeOK'
<1>1. CASE PassTime
  BY <1>1 DEF TypeOK, PassTime, entryVars, historyVars
<1>2. ASSUME NEW i \in Level, Skip(i)
      PROVE  TypeOK'
  <2>1. due' \in [Level -> Nat]
    BY <1>2, FireType DEF Skip
  <2>2. tickCounter' \in [Level -> Nat]
    BY <1>2 DEF Skip, TypeOK
  <2>3. UNCHANGED <<now, cachedNow, cursor, agenda, entryVars, historyVars>>
    BY <1>2 DEF Skip
  <2> QED BY <2>1, <2>2, <2>3 DEF TypeOK, entryVars, historyVars
<1>3. ASSUME NEW i \in Level, OnLevelTick(i)
      PROVE  TypeOK'
  <2>1. due' \in [Level -> Nat] /\ tickCounter[i] + 1 \in Nat
    BY <1>3, FireType DEF OnLevelTick
  <2>2. tickCounter' \in [Level -> Nat]
    BY <1>3, <2>1 DEF OnLevelTick, TypeOK
  <2>3. agenda' \in Seq(Task)
    BY <1>3, TickTasksType DEF OnLevelTick
  <2>4. UNCHANGED <<now, cachedNow, cursor, entryVars, historyVars>>
    BY <1>3 DEF OnLevelTick
  <2> QED BY <2>1, <2>2, <2>3, <2>4 DEF TypeOK, entryVars, historyVars
<1> QED BY <1>1, <1>2, <1>3

\* What is asked for.
LEMMA AskType ==
  ASSUME TypeOK, NEW es, Ask(es)
  PROVE  asked' \in [Timer -> Nat \cup {NoTime}]
BY DEF Ask, TypeOK

LEMMA AddTypes ==
  ASSUME TypeOK, Add
  PROVE  TypeOK'
<1>1. PICK es \in NewEntries : buckets' = AddEntries(es, cachedNow) /\ Ask(es)
  BY DEF Add
<1>2. SlotsOK'
  BY <1>1, AddedType, NewEntryIs DEF TypeOK
<1>3. asked' \in [Timer -> Nat \cup {NoTime}]
  BY <1>1, AskType
<1>4. UNCHANGED <<clockVars, cursor, agenda, pending, subs, repeats, nested, finished>>
  BY DEF Add
<1> QED BY <1>2, <1>3, <1>4 DEF TypeOK, SlotsOK, clockVars

LEMMA ProcessType ==
  ASSUME TypeOK, Process
  PROVE  TypeOK'
<1>1. PICK i \in Level : i = Head(agenda).level
  BY HeadType DEF Process, Does
<1>2. SlotAt(i, 0) \in Index(i)
  BY CurrentSlot
<1>3. PICK x \in Index(i) : x = SlotAt(i, 0)
  BY <1>2
<1>4. PICK toRun : /\ toRun \subseteq buckets[i][x]
                   /\ pending' = pending \cup toRun
                   /\ subs' = subs \cup (buckets[i][x] \ toRun)
                   /\ buckets' = [buckets EXCEPT ![i][x] = {}]
  BY <1>1, <1>3 DEF Process
<1>5. buckets[i][x] \subseteq Entry
  BY DEF TypeOK
<1>6. SlotsOK'
  BY <1>4 DEF TypeOK, SlotsOK
<1>7. pending' \subseteq Entry /\ subs' \subseteq Entry
  BY <1>4, <1>5 DEF TypeOK
<1>8. agenda' \in Seq(Task)
  BY HeadType DEF Process, Does, Done
<1>9. UNCHANGED <<now, due, tickCounter, cursor, repeats, historyVars>> /\ cachedNow' = now
  BY DEF Process
<1> QED BY <1>6, <1>7, <1>8, <1>9 DEF TypeOK, SlotsOK, historyVars

LEMMA ExecuteType ==
  ASSUME TypeOK, NEW e \in pending, Execute(e)
  PROVE  TypeOK'
<1>1. PICK es \in NewEntries :
        /\ buckets' = AddEntries(es, cachedNow) /\ Ask(es)
        /\ nested' = nested \cup TimersOf(es)
  BY DEF Execute
<1>2. SlotsOK'
  BY <1>1, AddedType, NewEntryIs DEF TypeOK
<1>3. asked' \in [Timer -> Nat \cup {NoTime}]
  BY <1>1, AskType
<1>4. e \in Entry /\ e.timer \in Timer
  BY DEF TypeOK, Entry
<1>5. nested' \subseteq Timer
  BY <1>1, NewEntryIs DEF TypeOK, TimersOf, Entry
<1>6. /\ pending' \subseteq Entry /\ repeats' \subseteq Entry /\ finished' \subseteq Timer
  BY <1>4 DEF Execute, TypeOK
<1>7. UNCHANGED <<clockVars, cursor, agenda, subs>>
  BY DEF Execute
<1> QED BY <1>2, <1>3, <1>5, <1>6, <1>7 DEF TypeOK, SlotsOK, clockVars

LEMMA ExecutedAllType ==
  ASSUME TypeOK, ExecutedAll
  PROVE  TypeOK'
<1>1. agenda' \in Seq(Task)
  BY HeadType DEF ExecutedAll, Does, Done
<1> QED BY <1>1 DEF TypeOK, ExecutedAll, clockVars, entryVars, historyVars

LEMMA AdvanceType ==
  ASSUME TypeOK, Advance
  PROVE  TypeOK'
<1>1. agenda' \in Seq(Task)
  BY HeadType DEF Advance, Does, Done
<1>2. ASSUME NEW i \in Level
      PROVE  cursor'[i] \in Index(i)
  <2>1. PICK n \in Nat \ {0}, c \in Nat : n = Slots[i] /\ c = cursor[i]
    BY LevelFacts DEF TypeOK, Index
  <2>2. (c + 1) % n \in 0 .. n - 1
    BY <2>1
  <2>3. cursor'[i] = (cursor[i] + 1) % Slots[i] \/ cursor'[i] = cursor[i]
    BY DEF Advance
  <2> QED BY <2>1, <2>2, <2>3 DEF TypeOK, Index
<1>3. DOMAIN cursor' = Level
  BY DEF Advance
<1> QED BY <1>1, <1>2, <1>3 DEF TypeOK, Advance, clockVars, entryVars, historyVars

LEMMA RefileType ==
  ASSUME TypeOK, Refile
  PROVE  TypeOK'
<1>1. agenda' \in Seq(Task)
  BY HeadType DEF Refile, Does, Done
<1>2. PICK es : es = subs \cup {[e EXCEPT !.added = now] : e \in repeats}
  OBVIOUS
<1>3. es \subseteq Entry
  <2>1. ASSUME NEW e \in repeats
        PROVE  [e EXCEPT !.added = now] \in Entry
    BY DEF TypeOK, Entry
  <2> QED BY <1>2, <2>1 DEF TypeOK
<1>4. SlotsOK'
  BY <1>2, <1>3, AddedType DEF Refile, TypeOK
<1>5. asked' \in [Timer -> Nat \cup {NoTime}]
  BY AskType DEF Refile
<1>6. subs' = {} /\ repeats' = {} /\ cachedNow' = now /\ nested' \subseteq nested
  BY DEF Refile
<1>7. UNCHANGED <<now, due, tickCounter, cursor, pending, finished>>
  BY DEF Refile
<1> QED BY <1>1, <1>4, <1>5, <1>6, <1>7 DEF TypeOK, SlotsOK

LEMMA TypeStep == TypeOK /\ [Next]_vars => TypeOK'
<1> SUFFICES ASSUME TypeOK, [Next]_vars
             PROVE  TypeOK'
  OBVIOUS
<1>1. CASE UNCHANGED vars
  BY <1>1 DEF TypeOK, vars, clockVars, entryVars, historyVars
<1>2. CASE Next
  BY <1>2, TimerType, AddTypes, ProcessType, ExecuteType, ExecutedAllType, AdvanceType,
     RefileType DEF Next, TickStep
<1> QED BY <1>1, <1>2

LEMMA TypeInit == Init => TypeOK
<1> SUFFICES ASSUME Init
             PROVE  TypeOK
  OBVIOUS
<1>1. due \in [Level -> Nat]
  BY WheelAssumption, LevelFacts DEF Init, Level
<1>2. \A i \in Level : cursor[i] \in Index(i)
  BY LevelFacts DEF Init, Index
<1> QED BY <1>1, <1>2 DEF Init, TypeOK

\* Type correctness, for any wheel.
THEOREM TypeCorrect == Spec => []TypeOK
<1> QED BY TypeInit, TypeStep, PTL DEF Spec

------------------------------------------------------------------------------
(* No entry is lost or doubled.                                            *)

\* An entry and where it lies: in a slot, or in a list a tick works on.
InSlots(e, p) == \E i \in Level : \E x \in Index(i) : p = <<i, x>> /\ e \in buckets[i][x]

InLists(e, p) ==
  \/ p = <<0, 1>> /\ e \in pending
  \/ p = <<0, 2>> /\ e \in subs
  \/ p = <<0, 3>> /\ e \in repeats

Lies(e, p) == InSlots(e, p) \/ InLists(e, p)

\* A timer has one entry, in one place ...
OneEntry ==
  \A e, p, f, q : Lies(e, p) /\ Lies(f, q) /\ e.timer = f.timer => e = f /\ p = q

\* ... while it is asked for and has not finished ...
Present(t) == \E e, p : Lies(e, p) /\ e.timer = t

AskedIsPresent ==
  \A t \in Timer :
    /\ Present(t) <=> asked[t] # NoTime /\ t \notin finished
    /\ t \in finished => asked[t] # NoTime

\* ... and no entry comes from the future, so that the top level can hold it.
EntriesPast ==
  /\ cachedNow <= now
  /\ \A e, p : Lies(e, p) => e.added <= cachedNow

KeptInv == OneEntry /\ AskedIsPresent /\ EntriesPast

LEMMA SlotPlaces ==
  ASSUME NEW p \in Slot
  PROVE  p # <<0, 1>> /\ p # <<0, 2>> /\ p # <<0, 3>>
<1>1. PICK i \in Level : p \in {i} \X Index(i)
  BY DEF Slot
<1>2. i # 0
  BY LevelFacts
<1> QED BY <1>1, <1>2

LEMMA InSlotsPlace ==
  ASSUME NEW e, NEW p, InSlots(e, p)
  PROVE  p \in Slot
BY DEF InSlots, Slot

LEMMA LiesType ==
  ASSUME TypeOK, NEW e, NEW p, Lies(e, p)
  PROVE  e \in Entry /\ e.timer \in Timer
<1>1. e \in Entry
  BY DEF Lies, InSlots, InLists, TypeOK
<1> QED BY <1>1 DEF Entry

\* What lies in the slots when entries are added.
LEMMA AddedLie ==
  ASSUME TypeOK, NEW es \in SUBSET Entry, NEW at \in Nat, \A e \in es : e.added <= at,
         buckets' = AddEntries(es, at)
  PROVE  \E home \in [es -> Slot] :
           \A e, p : InSlots(e, p)' <=> InSlots(e, p) \/ (e \in es /\ p = home[e])
<1>1. PICK home \in [es -> Slot] :
        \A i \in Level : \A x \in Index(i) :
          buckets'[i][x] = buckets[i][x] \cup {e \in es : home[e] = <<i, x>>}
  BY EntriesAdded
<1>2. ASSUME NEW e, NEW p
      PROVE  InSlots(e, p)' <=> InSlots(e, p) \/ (e \in es /\ p = home[e])
  <2>1. InSlots(e, p)' =>
          InSlots(e, p) \/ (e \in es /\ p = home[e])
    BY <1>1 DEF InSlots
  <2>2. InSlots(e, p) => InSlots(e, p)'
    BY <1>1 DEF InSlots
  <2>3. ASSUME e \in es, p = home[e]
        PROVE  InSlots(e, p)'
    <3>0. PICK i \in Level : home[e] \in {i} \X Index(i)
      BY <2>3 DEF Slot
    <3>1. PICK x \in Index(i) : home[e] = <<i, x>>
      BY <3>0
    <3>2. e \in buckets'[i][x]
      BY <1>1, <2>3, <3>1
    <3> QED BY <2>3, <3>1, <3>2 DEF InSlots
  <2> QED BY <2>1, <2>2, <2>3
<1> QED BY <1>2

\* Steps that leave every entry where it lies.
LEMMA NothingMoves ==
  ASSUME TypeOK, KeptInv, UNCHANGED <<buckets, pending, subs, repeats, asked, finished>>,
         cachedNow <= cachedNow', cachedNow' <= now', {now', cachedNow'} \subseteq Nat
  PROVE  KeptInv'
<1>1. \A e, p : Lies(e, p)' <=> Lies(e, p)
  BY DEF Lies, InSlots, InLists
<1>2. OneEntry'
  BY <1>1 DEF KeptInv, OneEntry
<1>3. AskedIsPresent'
  BY <1>1 DEF KeptInv, AskedIsPresent, Present
<1>4. EntriesPast'
  <2> SUFFICES ASSUME NEW e, NEW p, Lies(e, p)
               PROVE  e.added <= cachedNow'
    BY <1>1 DEF EntriesPast
  <2>1. e.added \in Nat
    BY LiesType DEF Entry
  <2>2. e.added <= cachedNow /\ cachedNow \in Nat
    BY DEF KeptInv, EntriesPast, TypeOK
  <2> QED BY <2>1, <2>2
<1> QED BY <1>2, <1>3, <1>4 DEF KeptInv

\* The entry that a caller adds is its timer's first.
LEMMA NewIsAbsent ==
  ASSUME TypeOK, KeptInv, NEW es \in NewEntries, NEW n \in es, NEW e, NEW p, Lies(e, p)
  PROVE  e.timer # n.timer /\ n.timer \notin finished
<1>1. asked[n.timer] = NoTime /\ n.timer \in Timer
  BY NewEntryIs DEF Entry
<1>2. ~Present(n.timer) /\ n.timer \notin finished
  BY <1>1 DEF KeptInv, AskedIsPresent
<1> QED BY <1>2 DEF Present

\* What a timer that was just asked for says of AskedIsPresent.
LEMMA AskedThen ==
  ASSUME TypeOK, NEW es, Ask(es), NEW t \in Timer
  PROVE  asked'[t] # NoTime <=> t \in TimersOf(es) \/ asked[t] # NoTime
<1>1. now # NoTime
  BY WheelAssumption DEF TypeOK
<1> QED BY <1>1 DEF Ask, TypeOK

\* A timer is added between two ticks.
LEMMA AddKeeps ==
  ASSUME TypeOK, KeptInv, Add
  PROVE  KeptInv'
<1>1. PICK es \in NewEntries : buckets' = AddEntries(es, cachedNow) /\ Ask(es)
  BY DEF Add
<1>2. /\ es \subseteq Entry /\ cachedNow \in Nat
      /\ \A e \in es : e.added = cachedNow /\ asked[e.timer] = NoTime /\ es = {e}
  BY NewEntryIs DEF TypeOK
<1>3. PICK home \in [es -> Slot] :
        \A e, p : InSlots(e, p)' <=> InSlots(e, p) \/ (e \in es /\ p = home[e])
  BY <1>1, <1>2, AddedLie
<1>4. \A e, p : Lies(e, p)' <=> Lies(e, p) \/ (e \in es /\ p = home[e])
  BY <1>3 DEF Lies, InLists, Add
<1>5. \A n \in es : \A e, p : Lies(e, p) => e.timer # n.timer /\ n.timer \notin finished
  BY NewIsAbsent
<1>6. OneEntry'
  <2> SUFFICES ASSUME NEW e, NEW p, NEW f, NEW q, Lies(e, p)', Lies(f, q)', e.timer = f.timer
               PROVE  e = f /\ p = q
    BY DEF OneEntry
  <2>1. CASE Lies(e, p) /\ Lies(f, q)
    BY <2>1 DEF KeptInv, OneEntry
  <2>2. CASE e \in es /\ p = home[e] /\ f \in es /\ q = home[f]
    BY <1>2, <2>2
  <2> QED BY <1>4, <1>5, <2>1, <2>2
<1>7. AskedIsPresent'
  <2> SUFFICES ASSUME NEW t \in Timer
               PROVE  /\ Present(t)' <=> asked'[t] # NoTime /\ t \notin finished
                      /\ t \in finished => asked'[t] # NoTime
    BY DEF AskedIsPresent, Add
  <2>1. Present(t)' <=> Present(t) \/ t \in TimersOf(es)
    BY <1>4 DEF Present, TimersOf
  <2>2. asked'[t] # NoTime <=> t \in TimersOf(es) \/ asked[t] # NoTime
    BY <1>1, AskedThen
  <2>3. t \in TimersOf(es) => asked[t] = NoTime
    BY <1>2 DEF TimersOf
  <2> QED BY <2>1, <2>2, <2>3 DEF KeptInv, AskedIsPresent
<1>8. EntriesPast'
  BY <1>2, <1>4 DEF KeptInv, EntriesPast, Add, clockVars
<1> QED BY <1>6, <1>7, <1>8 DEF KeptInv

\* A slot is emptied, into the entries to run and those to file again.
LEMMA ProcessKeeps ==
  ASSUME TypeOK, TypeOK', KeptInv, Process
  PROVE  KeptInv'
<1>1. PICK i \in Level : i = Head(agenda).level
  BY HeadType DEF Process, Does
<1>2. PICK x \in Index(i) : x = SlotAt(i, 0)
  BY CurrentSlot
<1>3. PICK toRun : /\ toRun \subseteq buckets[i][x]
                   /\ pending' = pending \cup toRun
                   /\ subs' = subs \cup (buckets[i][x] \ toRun)
                   /\ buckets' = [buckets EXCEPT ![i][x] = {}]
  BY <1>1, <1>2 DEF Process
<1>4. UNCHANGED <<now, repeats, asked, finished>> /\ cachedNow' = now
  BY DEF Process, historyVars
<1>5. ASSUME NEW e, NEW p, Lies(e, p)'
      PROVE  \/ Lies(e, p) /\ p # <<i, x>>
             \/ Lies(e, <<i, x>>) /\ p = IF e \in toRun THEN <<0, 1>> ELSE <<0, 2>>
  <2>1. CASE InSlots(e, p)'
    <3>1. PICK j \in Level : \E y \in Index(j) : p = <<j, y>> /\ e \in buckets'[j][y]
      BY <2>1 DEF InSlots
    <3>2. PICK y \in Index(j) : p = <<j, y>> /\ e \in buckets'[j][y]
      BY <3>1
    <3>3. ~(j = i /\ y = x) /\ e \in buckets[j][y]
      BY <1>3, <3>2 DEF TypeOK
    <3> QED BY <3>2, <3>3 DEF Lies, InSlots
  <2>2. e \in buckets[i][x] => Lies(e, <<i, x>>)
    BY DEF Lies, InSlots
  <2>3. i # 0
    BY LevelFacts
  <2>4. CASE InLists(e, p)'
    BY <1>3, <1>4, <2>2, <2>3, <2>4 DEF InLists, Lies
  <2> QED BY <1>5, <2>1, <2>4 DEF Lies
<1>6. ASSUME NEW e, NEW p, Lies(e, p)
      PROVE  \E q : Lies(e, q)'
  <2>1. CASE InSlots(e, p)
    <3>1. PICK j \in Level : \E y \in Index(j) : p = <<j, y>> /\ e \in buckets[j][y]
      BY <2>1 DEF InSlots
    <3>2. PICK y \in Index(j) : p = <<j, y>> /\ e \in buckets[j][y]
      BY <3>1
    <3>3. CASE j = i /\ y = x
      <4>1. e \in pending' \/ e \in subs'
        BY <1>3, <3>2, <3>3
      <4>2. InLists(e, <<0, 1>>)' \/ InLists(e, <<0, 2>>)'
        BY <4>1 DEF InLists
      <4> QED BY <4>2 DEF Lies
    <3>4. CASE ~(j = i /\ y = x)
      <4>1. e \in buckets'[j][y]
        BY <1>3, <3>2, <3>4 DEF TypeOK
      <4>2. InSlots(e, <<j, y>>)'
        BY <4>1 DEF InSlots
      <4> QED BY <4>2 DEF Lies
    <3> QED BY <3>3, <3>4
  <2>2. CASE InLists(e, p)
    <3>1. InLists(e, p)'
      BY <1>3, <1>4, <2>2 DEF InLists
    <3> QED BY <3>1 DEF Lies
  <2> QED BY <1>6, <2>1, <2>2 DEF Lies
<1>7. OneEntry'
  <2> SUFFICES ASSUME NEW e, NEW p, NEW f, NEW q, Lies(e, p)', Lies(f, q)', e.timer = f.timer
               PROVE  e = f /\ p = q
    BY DEF OneEntry
  <2>1. CASE Lies(e, p) /\ p # <<i, x>> /\ Lies(f, q) /\ q # <<i, x>>
    BY <2>1 DEF KeptInv, OneEntry
  <2>2. CASE Lies(e, <<i, x>>) /\ Lies(f, <<i, x>>)
    <3>1. e = f
      BY <2>2 DEF KeptInv, OneEntry
    <3> QED BY <1>5, <2>2, <3>1 DEF KeptInv, OneEntry
  <2>3. CASE Lies(e, p) /\ p # <<i, x>> /\ Lies(f, <<i, x>>)
    BY <2>3 DEF KeptInv, OneEntry
  <2>4. CASE Lies(e, <<i, x>>) /\ Lies(f, q) /\ q # <<i, x>>
    BY <2>4 DEF KeptInv, OneEntry
  <2> QED BY <1>5, <2>1, <2>2, <2>3, <2>4
<1>8. AskedIsPresent'
  <2>1. \A t : Present(t)' <=> Present(t)
    BY <1>5, <1>6 DEF Present
  <2> QED BY <1>4, <2>1 DEF KeptInv, AskedIsPresent
<1>9. EntriesPast'
  <2>1. now \in Nat /\ cachedNow \in Nat /\ cachedNow <= now
    BY DEF TypeOK, KeptInv, EntriesPast
  <2>2. ASSUME NEW e, NEW p, Lies(e, p)
        PROVE  e.added <= now
    <3>1. e.added \in Nat /\ e.added <= cachedNow
      BY <2>2, LiesType DEF KeptInv, EntriesPast, Entry
    <3> QED BY <2>1, <3>1
  <2> QED BY <1>4, <1>5, <2>1, <2>2 DEF EntriesPast
<1> QED BY <1>7, <1>8, <1>9 DEF KeptInv

\* A callback runs, and may add a timer.
LEMMA ExecuteKeeps ==
  ASSUME TypeOK, KeptInv, NEW e0 \in pending, Execute(e0)
  PROVE  KeptInv'
<1>1. PICK es \in NewEntries : buckets' = AddEntries(es, cachedNow) /\ Ask(es)
  BY DEF Execute
<1>2. /\ es \subseteq Entry /\ cachedNow \in Nat
      /\ \A e \in es : e.added = cachedNow /\ asked[e.timer] = NoTime /\ es = {e}
  BY NewEntryIs DEF TypeOK
<1>3. PICK home \in [es -> Slot] :
        \A e, p : InSlots(e, p)' <=> InSlots(e, p) \/ (e \in es /\ p = home[e])
  BY <1>1, <1>2, AddedLie
<1>4. /\ pending' = pending \ {e0} /\ subs' = subs
      /\ repeats' = IF e0.repeating THEN repeats \cup {e0} ELSE repeats
      /\ finished' = IF e0.repeating THEN finished ELSE finished \cup {e0.timer}
      /\ UNCHANGED <<now, cachedNow>>
  BY DEF Execute, clockVars
<1>5. \A n \in es : \A e, p : Lies(e, p) => e.timer # n.timer /\ n.timer \notin finished
  BY NewIsAbsent
<1>6. Lies(e0, <<0, 1>>)
  BY DEF Lies, InLists
<1>7. e0.timer \in Timer /\ asked[e0.timer] # NoTime /\ e0.timer \notin finished
  <2>1. e0.timer \in Timer
    BY <1>6, LiesType
  <2>2. Present(e0.timer)
    BY <1>6 DEF Present
  <2> QED BY <2>1, <2>2 DEF KeptInv, AskedIsPresent
<1>8. \A e, p : Lies(e, p) /\ e.timer = e0.timer => e = e0 /\ p = <<0, 1>>
  BY <1>6 DEF KeptInv, OneEntry
<1>9. ASSUME NEW e, NEW p
      PROVE  Lies(e, p)' <=> \/ Lies(e, p) /\ e.timer # e0.timer
                             \/ e = e0 /\ p = <<0, 3>> /\ e0.repeating
                             \/ e \in es /\ p = home[e]
  <2>1. InLists(e, p)' <=> \/ InLists(e, p) /\ ~(e = e0 /\ p = <<0, 1>>)
                           \/ e = e0 /\ p = <<0, 3>> /\ e0.repeating
    BY <1>4 DEF InLists
  <2>2. InSlots(e, p) => ~(e = e0 /\ p = <<0, 1>>)
    BY InSlotsPlace, SlotPlaces
  <2>3. Lies(e, p)' <=> \/ Lies(e, p) /\ ~(e = e0 /\ p = <<0, 1>>)
                        \/ e = e0 /\ p = <<0, 3>> /\ e0.repeating
                        \/ e \in es /\ p = home[e]
    BY <1>3, <2>1, <2>2 DEF Lies
  <2> QED BY <1>8, <2>3
<1>10. OneEntry'
  <2> SUFFICES ASSUME NEW e, NEW p, NEW f, NEW q, Lies(e, p)', Lies(f, q)', e.timer = f.timer
               PROVE  e = f /\ p = q
    BY DEF OneEntry
  <2>1. CASE Lies(e, p) /\ e.timer # e0.timer
    BY <1>5, <1>9, <2>1 DEF KeptInv, OneEntry
  <2>2. CASE e = e0 /\ p = <<0, 3>>
    BY <1>5, <1>6, <1>9, <2>2
  <2>3. CASE e \in es /\ p = home[e]
    <3>1. f \in es /\ q = home[f]
      BY <1>5, <1>6, <1>9, <2>3
    <3> QED BY <1>2, <2>3, <3>1
  <2> QED BY <1>9, <2>1, <2>2, <2>3
<1>11. AskedIsPresent'
  <2> SUFFICES ASSUME NEW t \in Timer
               PROVE  /\ Present(t)' <=> asked'[t] # NoTime /\ t \notin finished'
                      /\ t \in finished' => asked'[t] # NoTime
    BY DEF AskedIsPresent
  <2>1. Present(t)' <=> \/ Present(t) /\ t # e0.timer
                        \/ t = e0.timer /\ e0.repeating
                        \/ t \in TimersOf(es)
    BY <1>9 DEF Present, TimersOf
  <2>2. asked'[t] # NoTime <=> t \in TimersOf(es) \/ asked[t] # NoTime
    BY <1>1, AskedThen
  <2>3. t \in TimersOf(es) => asked[t] = NoTime /\ t # e0.timer
    BY <1>2, <1>5, <1>6 DEF TimersOf
  <2>4. t \in finished' <=> t \in finished \/ (t = e0.timer /\ ~e0.repeating)
    BY <1>4
  <2> QED BY <1>7, <2>1, <2>2, <2>3, <2>4 DEF KeptInv, AskedIsPresent
<1>12. EntriesPast'
  <2>1. ASSUME NEW e, NEW p, Lies(e, p)'
        PROVE  e.added <= cachedNow
    BY <1>2, <1>6, <1>9, <2>1 DEF KeptInv, EntriesPast
  <2> QED BY <1>4, <2>1 DEF KeptInv, EntriesPast
<1> QED BY <1>10, <1>11, <1>12 DEF KeptInv

\* What the tick has emptied its slots into is filed anew.
LEMMA RefileKeeps ==
  ASSUME TypeOK, TypeOK', KeptInv, Refile
  PROVE  KeptInv'
<1>0. now \in Nat /\ cachedNow \in Nat /\ cachedNow <= now
  BY DEF TypeOK, KeptInv, EntriesPast
<1>1. PICK es : es = subs \cup {[e EXCEPT !.added = now] : e \in repeats}
  OBVIOUS
<1>2. ASSUME NEW e \in es
      PROVE  /\ e \in Entry /\ e.added <= now
             /\ \/ Lies(e, <<0, 2>>)
                \/ \E g \in repeats : /\ Lies(g, <<0, 3>>) /\ g.timer = e.timer
                                      /\ e = [g EXCEPT !.added = now]
  <2>1. CASE e \in subs
    <3>1. Lies(e, <<0, 2>>) /\ e \in Entry
      BY <2>1 DEF Lies, InLists, TypeOK
    <3>2. e.added \in Nat /\ e.added <= cachedNow
      BY <3>1 DEF KeptInv, EntriesPast, Entry
    <3> QED BY <1>0, <3>1, <3>2
  <2>2. CASE e \notin subs
    <3>1. PICK g \in repeats : e = [g EXCEPT !.added = now]
      BY <1>1, <2>2
    <3>2. g \in Entry /\ Lies(g, <<0, 3>>)
      BY DEF Lies, InLists, TypeOK
    <3>3. e \in Entry /\ e.timer = g.timer /\ e.added = now
      BY <1>0, <3>1, <3>2 DEF Entry
    <3>4. e.added <= now
      BY <1>0, <3>3
    <3>5. Lies(g, <<0, 3>>) /\ g.timer = e.timer /\ e = [g EXCEPT !.added = now]
      BY <3>1, <3>2, <3>3
    <3> QED BY <3>3, <3>4, <3>5
  <2> QED BY <2>1, <2>2
<1>3. PICK home \in [es -> Slot] :
        \A e, p : InSlots(e, p)' <=> InSlots(e, p) \/ (e \in es /\ p = home[e])
  <2>1. buckets' = AddEntries(es, now)
    BY <1>1 DEF Refile
  <2> QED BY <1>0, <1>2, <2>1, AddedLie
<1>4. /\ UNCHANGED <<now, pending, finished>> /\ subs' = {} /\ repeats' = {}
      /\ cachedNow' = now /\ Ask(repeats)
  BY DEF Refile
<1>5. ASSUME NEW e, NEW p
      PROVE  Lies(e, p)' <=> \/ Lies(e, p) /\ p # <<0, 2>> /\ p # <<0, 3>>
                             \/ e \in es /\ p = home[e]
  <2>1. InLists(e, p)' <=> InLists(e, p) /\ p # <<0, 2>> /\ p # <<0, 3>>
    BY <1>4 DEF InLists
  <2>2. InSlots(e, p) => p # <<0, 2>> /\ p # <<0, 3>>
    BY InSlotsPlace, SlotPlaces
  <2> QED BY <1>3, <2>1, <2>2 DEF Lies
<1>6. ASSUME NEW e \in es
      PROVE  \E g, r : /\ Lies(g, r) /\ g.timer = e.timer /\ r \in {<<0, 2>>, <<0, 3>>}
                       /\ e = IF r = <<0, 2>> THEN g ELSE [g EXCEPT !.added = now]
  <2>1. CASE Lies(e, <<0, 2>>)
    BY <2>1
  <2>2. CASE ~Lies(e, <<0, 2>>)
    <3>1. PICK g \in repeats : /\ Lies(g, <<0, 3>>) /\ g.timer = e.timer
                               /\ e = [g EXCEPT !.added = now]
      BY <1>2, <2>2
    <3> QED BY <3>1
  <2> QED BY <2>1, <2>2
<1>7. OneEntry'
  <2> SUFFICES ASSUME NEW e, NEW p, NEW f, NEW q, Lies(e, p)', Lies(f, q)', e.timer = f.timer
               PROVE  e = f /\ p = q
    BY DEF OneEntry
  <2>1. CASE /\ Lies(e, p) /\ p # <<0, 2>> /\ p # <<0, 3>>
             /\ Lies(f, q) /\ q # <<0, 2>> /\ q # <<0, 3>>
    BY <2>1 DEF KeptInv, OneEntry
  <2>2. CASE e \in es /\ p = home[e] /\ f \in es /\ q = home[f]
    <3>1. PICK g, r : /\ Lies(g, r) /\ g.timer = e.timer
                      /\ e = IF r = <<0, 2>> THEN g ELSE [g EXCEPT !.added = now]
      BY <1>6, <2>2
    <3>2. PICK h, s : /\ Lies(h, s) /\ h.timer = f.timer
                      /\ f = IF s = <<0, 2>> THEN h ELSE [h EXCEPT !.added = now]
      BY <1>6, <2>2
    <3>3. g = h /\ r = s
      BY <3>1, <3>2 DEF KeptInv, OneEntry
    <3> QED BY <2>2, <3>1, <3>2, <3>3
  <2>3. CASE Lies(e, p) /\ p # <<0, 2>> /\ p # <<0, 3>> /\ f \in es
    <3>1. PICK g, r : Lies(g, r) /\ g.timer = f.timer /\ r \in {<<0, 2>>, <<0, 3>>}
      BY <1>6, <2>3
    <3> QED BY <2>3, <3>1 DEF KeptInv, OneEntry
  <2>4. CASE Lies(f, q) /\ q # <<0, 2>> /\ q # <<0, 3>> /\ e \in es
    <3>1. PICK g, r : Lies(g, r) /\ g.timer = e.timer /\ r \in {<<0, 2>>, <<0, 3>>}
      BY <1>6, <2>4
    <3> QED BY <2>4, <3>1 DEF KeptInv, OneEntry
  <2> QED BY <1>5, <2>1, <2>2, <2>3, <2>4
<1>8. AskedIsPresent'
  <2> SUFFICES ASSUME NEW t \in Timer
               PROVE  /\ Present(t)' <=> asked'[t] # NoTime /\ t \notin finished
                      /\ t \in finished => asked'[t] # NoTime
    BY <1>4 DEF AskedIsPresent
  <2>1. Present(t)' => Present(t)
    <3> SUFFICES ASSUME NEW e, NEW p, Lies(e, p)', e.timer = t
                 PROVE  Present(t)
      BY DEF Present
    <3>1. CASE Lies(e, p)
      BY <3>1 DEF Present
    <3>2. CASE e \in es
      BY <1>6, <3>2 DEF Present
    <3> QED BY <1>5, <3>1, <3>2
  <2>2. Present(t) => Present(t)'
    <3> SUFFICES ASSUME NEW e, NEW p, Lies(e, p), e.timer = t
                 PROVE  Present(t)'
      BY DEF Present
    <3>1. CASE p # <<0, 2>> /\ p # <<0, 3>>
      <4>1. Lies(e, p)'
        BY <1>5, <3>1
      <4> QED BY <4>1 DEF Present
    <3>2. CASE p = <<0, 2>> \/ p = <<0, 3>>
      <4>1. e \in subs \/ e \in repeats
        <5>1. ~InSlots(e, p)
          BY <3>2, InSlotsPlace, SlotPlaces
        <5> QED BY <3>2, <5>1 DEF Lies, InLists
      <4>2. PICK f \in es : f.timer = t
        <5>1. CASE e \in subs
          BY <1>1, <5>1
        <5>2. CASE e \in repeats
          <6>1. [e EXCEPT !.added = now] \in es
            BY <1>1, <5>2
          <6>2. [e EXCEPT !.added = now].timer = t
            BY LiesType DEF Entry
          <6> QED BY <6>1, <6>2
        <5> QED BY <4>1, <5>1, <5>2
      <4>3. Lies(f, home[f])'
        BY <1>5, <4>2
      <4> QED BY <4>2, <4>3 DEF Present
    <3> QED BY <3>1, <3>2
  <2>3. t \in TimersOf(repeats) => Present(t)
    BY DEF TimersOf, Present, Lies, InLists
  <2>4. asked'[t] # NoTime <=> t \in TimersOf(repeats) \/ asked[t] # NoTime
    BY <1>4, AskedThen
  <2> QED BY <2>1, <2>2, <2>3, <2>4 DEF KeptInv, AskedIsPresent
<1>9. EntriesPast'
  <2>1. ASSUME NEW e, NEW p, Lies(e, p)'
        PROVE  e.added <= now
    <3>1. CASE Lies(e, p)
      <4>1. e.added \in Nat /\ e.added <= cachedNow
        BY <3>1, LiesType DEF KeptInv, EntriesPast, Entry
      <4> QED BY <1>0, <4>1
    <3>2. CASE e \in es
      BY <1>2, <3>2
    <3> QED BY <1>5, <2>1, <3>1, <3>2
  <2> QED BY <1>0, <1>4, <2>1 DEF EntriesPast
<1> QED BY <1>7, <1>8, <1>9 DEF KeptInv

LEMMA KeptStep == TypeOK /\ KeptInv /\ [Next]_vars => KeptInv'
<1> SUFFICES ASSUME TypeOK, KeptInv, [Next]_vars
             PROVE  KeptInv'
  OBVIOUS
<1>0. TypeOK' /\ cachedNow <= now
  BY TypeStep DEF KeptInv, EntriesPast
<1>1. CASE Add
  BY <1>1, AddKeeps
<1>2. CASE Process
  BY <1>0, <1>2, ProcessKeeps
<1>3. CASE \E e \in pending : Execute(e)
  BY <1>3, ExecuteKeeps
<1>4. CASE Refile
  BY <1>0, <1>4, RefileKeeps
<1>5. CASE \/ PassTime \/ (\E i \in Level : Skip(i) \/ OnLevelTick(i))
           \/ ExecutedAll \/ Advance \/ UNCHANGED vars
  <2>1. UNCHANGED <<buckets, pending, subs, repeats, asked, finished, cachedNow>>
    BY <1>5 DEF PassTime, Skip, OnLevelTick, ExecutedAll, Advance, vars, clockVars,
         entryVars, historyVars
  <2>2. now' = now \/ now' = now + 1
    BY <1>5 DEF PassTime, Skip, OnLevelTick, ExecutedAll, Advance, vars, clockVars
  <2>3. /\ cachedNow <= cachedNow' /\ cachedNow' <= now'
        /\ {now', cachedNow'} \subseteq Nat
    BY <1>0, <2>1, <2>2 DEF TypeOK
  <2> QED BY <2>1, <2>3, NothingMoves
<1> QED BY <1>1, <1>2, <1>3, <1>4, <1>5 DEF Next, TickStep

LEMMA KeptInit == Init => KeptInv
<1> SUFFICES ASSUME Init
             PROVE  KeptInv
  OBVIOUS
<1>1. \A e, p : ~Lies(e, p)
  BY DEF Init, Lies, InSlots, InLists
<1>2. \A t \in Timer : asked[t] = NoTime /\ t \notin finished
  BY DEF Init
<1> QED BY <1>1, <1>2 DEF Init, KeptInv, OneEntry, AskedIsPresent, Present, EntriesPast

\* The places EntryKept counts.
LEMMA PlacesAre ==
  ASSUME NEW t, NEW p
  PROVE  p \in Places(t) <=> \E e : Lies(e, p) /\ e.timer = t
<1>1. DOMAIN Lists = 1 .. 3 /\ Lists[1] = pending /\ Lists[2] = subs /\ Lists[3] = repeats
  BY DEF Lists
<1>2. p \in {<<0, l>> : l \in {l \in DOMAIN Lists : t \in TimersOf(Lists[l])}} <=>
        \E e : InLists(e, p) /\ e.timer = t
  BY <1>1 DEF InLists, TimersOf
<1>3. p \in UNION {{<<i, x>> : x \in {x \in Index(i) : t \in TimersOf(buckets[i][x])}} :
                     i \in Level} <=>
        \E e : InSlots(e, p) /\ e.timer = t
  BY DEF InSlots, TimersOf
<1> QED BY <1>2, <1>3 DEF Places, Lies

\* Over ticks, cascades from level to level and callbacks that add timers, no
\* entry is lost and none is in two places (addEntry, processBucket1,
\* processBucketN, executePendingEntries, onAfterTick).
THEOREM EntriesAreKept == Spec => []EntryKept
<1>1. KeptInv => EntryKept
  <2> SUFFICES ASSUME KeptInv, NEW t \in Timer
               PROVE  Cardinality(Places(t)) =
                        IF asked[t] = NoTime \/ t \in finished THEN 0 ELSE 1
    BY DEF EntryKept
  <2>1. CASE asked[t] = NoTime \/ t \in finished
    <3>1. Places(t) = {}
      BY <2>1, PlacesAre DEF KeptInv, AskedIsPresent, Present
    <3> QED BY <2>1, <3>1, FS_EmptySet
  <2>2. CASE ~(asked[t] = NoTime \/ t \in finished)
    <3>1. PICK e, p : Lies(e, p) /\ e.timer = t
      BY <2>2 DEF KeptInv, AskedIsPresent, Present
    <3>2. Places(t) = {p}
      BY <3>1, PlacesAre DEF KeptInv, OneEntry
    <3> QED BY <2>2, <3>2, FS_Singleton
  <2> QED BY <2>1, <2>2
<1> QED BY <1>1, KeptInit, KeptStep, TypeCorrect, PTL DEF Spec

------------------------------------------------------------------------------
(* When the levels tick.                                                   *)

\* Arithmetic.
LEMMA TimesRises ==
  ASSUME NEW a \in Nat, NEW b \in Nat, NEW r \in Nat, a <= b
  PROVE  a * r \in Nat /\ b * r \in Nat /\ a * r <= b * r
<1>1. PICK c \in Nat : b = a + c
  <2>1. b - a \in Nat /\ b = a + (b - a)
    OBVIOUS
  <2> QED BY <2>1
<1>2. a * r \in Nat /\ c * r \in Nat /\ b * r = a * r + c * r
  BY <1>1
<1>3. PICK u \in Nat, v \in Nat : u = a * r /\ v = c * r
  BY <1>2
<1> QED BY <1>2, <1>3

LEMMA TimesOneMore ==
  ASSUME NEW a \in Nat, NEW r \in Nat
  PROVE  (a + 1) * r = a * r + r
OBVIOUS

LEMMA DivTimes ==
  ASSUME NEW r \in Nat, r > 0, NEW s \in Nat
  PROVE  (r * s) \div r = s
BY Z3

LEMMA DivMod ==
  ASSUME NEW r \in Nat, r > 0, NEW n \in Nat
  PROVE  n = r * (n \div r) + (n % r)
BY Z3

LEMMA LevelTimes ==
  ASSUME NEW i \in Level
  PROVE  /\ i \in Nat /\ 1 \in Level /\ 1 <= i /\ i <= Top
         /\ Resolution[i] \in Nat /\ Resolution[i] > 0
         /\ Slots[i] \in Nat /\ Slots[i] >= 2
         /\ i # Top => /\ i + 1 \in Level
                       /\ Resolution[i + 1] = Resolution[i] * Slots[i]
                       /\ SkipTick(i) = Slots[i]
<1>1. /\ i \in Nat /\ 1 \in Level /\ 1 <= i /\ i <= Top
      /\ Resolution[i] \in Nat \ {0} /\ Slots[i] \in Nat \ {0, 1}
      /\ i # Top => i + 1 \in Level /\ i \in 1 .. Top - 1
  BY LevelFacts
<1>2. ASSUME i # Top
      PROVE  Resolution[i + 1] = Resolution[i] * Slots[i]
  BY <1>1, <1>2, WheelAssumption DEF TimeCapacity
<1>3. ASSUME i # Top
      PROVE  SkipTick(i) = Slots[i]
  BY <1>1, <1>2, <1>3, DivTimes DEF SkipTick
<1>4. \A s \in Nat \ {0, 1} : s >= 2
  OBVIOUS
<1> QED BY <1>1, <1>2, <1>3, <1>4

\* The times at which a level's timer fires.
Multiple(i, n) == \E q \in Nat : n = q * Resolution[i]

LEMMA MultipleGap ==
  ASSUME NEW i \in Level, NEW a \in Nat, NEW b \in Nat, Multiple(i, a), Multiple(i, b), a < b
  PROVE  a + Resolution[i] <= b
<1>1. PICK r \in Nat : r = Resolution[i]
  BY LevelTimes
<1>2. PICK p \in Nat, q \in Nat : a = p * r /\ b = q * r
  BY <1>1 DEF Multiple
<1>3. ~(q <= p)
  <2> SUFFICES ASSUME q <= p PROVE FALSE
    OBVIOUS
  <2>1. q * r <= p * r
    BY TimesRises
  <2> QED BY <1>2, <2>1
<1>4. (p + 1) * r <= q * r
  BY <1>3, TimesRises
<1> QED BY <1>1, <1>2, <1>4, TimesOneMore

LEMMA MultipleNext ==
  ASSUME NEW i \in Level, NEW a \in Nat, Multiple(i, a)
  PROVE  Multiple(i, a + Resolution[i])
<1>1. PICK r \in Nat : r = Resolution[i]
  BY LevelTimes
<1>2. PICK p \in Nat : a = p * r
  BY <1>1 DEF Multiple
<1>3. a + r = (p + 1) * r
  BY <1>2, TimesOneMore
<1> QED BY <1>1, <1>3 DEF Multiple

LEMMA MultipleSelf ==
  ASSUME NEW i \in Level
  PROVE  Multiple(i, 0) /\ Multiple(i, Resolution[i])
<1>1. PICK r \in Nat : r = Resolution[i]
  BY LevelTimes
<1>2. 0 = 0 * r /\ r = 1 * r
  OBVIOUS
<1> QED BY <1>1, <1>2 DEF Multiple

LEMMA MultipleDown ==
  ASSUME NEW i \in Level, i # Top, NEW n \in Nat, Multiple(i + 1, n)
  PROVE  Multiple(i, n)
<1>1. PICK r \in Nat, s \in Nat : r = Resolution[i] /\ s = Slots[i] /\ Resolution[i + 1] = r * s
  BY LevelTimes
<1>2. PICK q \in Nat : n = q * (r * s)
  BY <1>1 DEF Multiple
<1>3. n = (q * s) * r /\ q * s \in Nat
  BY <1>2
<1> QED BY <1>1, <1>3 DEF Multiple

\* A level's times are among those of every level below.
LEMMA MultipleBelow ==
  ASSUME NEW i \in Level, NEW j \in Level, i <= j, NEW n \in Nat, Multiple(j, n)
  PROVE  Multiple(i, n)
<1> DEFINE Not == {k \in Nat : j - k \in Level /\ ~Multiple(j - k, n)}
<1>0. i \in Nat /\ j \in Nat /\ Level = 1 .. Top /\ Top \in Nat
  BY LevelFacts, LevelTimes
<1>1. Not = {}
  <2> SUFFICES ASSUME Not # {}
               PROVE  FALSE
    OBVIOUS
  <2>1. Not \subseteq Nat
    OBVIOUS
  <2>2. \E x \in Not : \A y \in Not : ~(<<y, x>> \in OpToRel(<, Nat))
    <3> HIDE DEF Not
    <3> QED BY <2>1, NatLessThanWellFounded, WFMin
  <2>3. PICK x \in Not : \A y \in Not : ~(<<y, x>> \in OpToRel(<, Nat))
    BY <2>2
  <2>4. x # 0
    BY <1>0
  <2>5. x - 1 \in Nat /\ x \in Nat /\ x - 1 < x
    BY <2>4
  <2>6. x - 1 \notin Not
    BY <2>3, <2>5 DEF OpToRel
  <2>7. j - (x - 1) \in Level /\ j - x \in Level /\ j - x # Top /\ j - (x - 1) = (j - x) + 1
    BY <1>0, <2>5
  <2>8. Multiple(j - (x - 1), n)
    BY <2>5, <2>6, <2>7
  <2>9. PICK k \in Level : k = j - x
    BY <2>7
  <2>10. Multiple(k + 1, n) /\ k # Top
    BY <2>7, <2>8, <2>9
  <2>11. Multiple(k, n)
    BY <2>10, MultipleDown
  <2> QED BY <2>9, <2>11
<1>2. j - i \in Nat /\ j - (j - i) = i
  BY <1>0
<1>3. j - i \notin Not
  BY <1>1
<1> QED BY <1>2, <1>3

LEMMA ResolutionRises ==
  ASSUME NEW i \in Level, NEW j \in Level, i < j
  PROVE  2 * Resolution[i] <= Resolution[j]
<1>1. i # Top /\ i + 1 <= j
  BY LevelTimes
<1>2. i + 1 \in Level /\ Resolution[i + 1] = Resolution[i] * Slots[i]
  BY <1>1, LevelTimes
<1>3. Multiple(i + 1, Resolution[j]) /\ Multiple(i + 1, 0)
  BY <1>1, <1>2, MultipleSelf, MultipleBelow, LevelTimes
<1>4. 0 + Resolution[i + 1] <= Resolution[j]
  BY <1>2, <1>3, MultipleGap, LevelTimes
<1>5. PICK r \in Nat, s \in Nat, t \in Nat :
        r = Resolution[i] /\ s = Slots[i] /\ s >= 2 /\ t = Resolution[j]
  BY LevelTimes
<1>6. 2 * r <= s * r
  BY <1>5, TimesRises
<1> QED BY <1>2, <1>4, <1>5, <1>6

\* The topmost level that has a time among its own.
LEMMA TopmostIs ==
  ASSUME NEW i \in Level, NEW n \in Nat, Multiple(i, n)
  PROVE  \E k \in Level : /\ i <= k /\ Multiple(k, n)
                          /\ k # Top => ~Multiple(k + 1, n)
<1> DEFINE Off == {x \in Nat : Top - x \in Level /\ i <= Top - x /\ Multiple(Top - x, n)}
<1>0. i \in Nat /\ Level = 1 .. Top /\ Top \in Nat /\ i <= Top
  BY LevelFacts, LevelTimes
<1>1. Top - i \in Off
  <2>1. Top - i \in Nat /\ Top - (Top - i) = i
    BY <1>0
  <2> QED BY <1>0, <2>1
<1>2. \E x \in Off : \A y \in Off : ~(<<y, x>> \in OpToRel(<, Nat))
  <2>1. Off \subseteq Nat
    OBVIOUS
  <2> HIDE DEF Off
  <2> QED BY <1>1, <2>1, NatLessThanWellFounded, WFMin
<1>3. PICK x \in Off : \A y \in Off : ~(<<y, x>> \in OpToRel(<, Nat))
  BY <1>2
<1>4. PICK k \in Level : k = Top - x
  OBVIOUS
<1>5. ASSUME k # Top, Multiple(k + 1, n)
      PROVE  FALSE
  <2>1. x - 1 \in Nat /\ x - 1 < x /\ x \in Nat /\ Top - (x - 1) = k + 1 /\ i <= k
    BY <1>0, <1>4, <1>5
  <2>2. k + 1 \in Level
    BY <1>5, LevelTimes
  <2>3. x - 1 \in Off
    BY <1>0, <1>5, <2>1, <2>2
  <2> QED BY <1>3, <2>1, <2>3 DEF OpToRel
<1> QED BY <1>4, <1>5

\* The levels' timers are in step: each fires at its own times, its counter tells
\* how many slots of the level above have passed, and none is a slot ahead of
\* another.
CounterTells(i, d, n) ==
  \E q \in Nat : \E c \in 1 .. Slots[i] :
    c = n + 1 /\ d = q * Resolution[i + 1] + c * Resolution[i]

InStep ==
  /\ \A i \in Level : Multiple(i, due[i])
  /\ \A i \in Level : i # Top => CounterTells(i, due[i], tickCounter[i])
  /\ \A i \in Level : \A j \in Level : due[i] <= due[j] + Resolution[i]
  /\ \A i \in Level : now <= due[i] + MaxLag

\* A level leaves to the one above the times that they share.
LEMMA SkipIs ==
  ASSUME NEW i \in Level, i # Top, NEW d \in Nat, NEW n, CounterTells(i, d, n)
  PROVE  n + 1 = SkipTick(i) <=> Multiple(i + 1, d)
<1>1. PICK r \in Nat, s \in Nat :
        /\ r = Resolution[i] /\ r > 0 /\ s = Slots[i] /\ s >= 2
        /\ Resolution[i + 1] = r * s /\ SkipTick(i) = s /\ i + 1 \in Level
  BY LevelTimes
<1>2. PICK q \in Nat : \E c \in 1 .. s : c = n + 1 /\ d = q * (r * s) + c * r
  BY <1>1 DEF CounterTells
<1>3. PICK c \in 1 .. s : c = n + 1 /\ d = q * (r * s) + c * r
  BY <1>2
<1>4. CASE c = s
  <2>1. q * (r * s) + s * r = (q + 1) * (r * s)
    OBVIOUS
  <2>2. Multiple(i + 1, d)
    BY <1>1, <1>3, <1>4, <2>1 DEF Multiple
  <2> QED BY <1>1, <1>3, <1>4, <2>2
<1>5. CASE c # s
  <2>1. PICK a \in Nat, b \in Nat, t \in Nat : a = q * (r * s) /\ b = c * r /\ t = r * s
    OBVIOUS
  <2>2. r <= b /\ b + r <= t
    <3>1. 1 * r <= c * r /\ (c + 1) * r <= s * r
      BY <1>5, TimesRises
    <3> QED BY <2>1, <3>1
  <2>3. d = a + b
    BY <1>3, <2>1
  <2>4. Multiple(i + 1, a)
    BY <1>1, <2>1 DEF Multiple
  <2>5. ~Multiple(i + 1, d)
    <3> SUFFICES ASSUME Multiple(i + 1, d) PROVE FALSE
      OBVIOUS
    <3>1. a < d
      BY <1>1, <2>2, <2>3
    <3>2. a + t <= d
      BY <1>1, <2>1, <2>3, <2>4, <3>1, MultipleGap
    <3> QED BY <1>1, <2>2, <2>3, <3>2
  <2> QED BY <1>1, <1>3, <1>5, <2>5
<1> QED BY <1>4, <1>5

\* When a level ticks next: at a time that the levels above do not have.
TurnAt(i, d, n) ==
  IF i # Top /\ n + 1 = SkipTick(i) THEN d + Resolution[i] ELSE d

TickDue(i) == TurnAt(i, due[i], tickCounter[i])

LEMMA TurnAtIs ==
  ASSUME NEW i \in Level, NEW d \in Nat, NEW n, Multiple(i, d),
         i # Top => CounterTells(i, d, n)
  PROVE  /\ TurnAt(i, d, n) \in Nat
         /\ d <= TurnAt(i, d, n) /\ TurnAt(i, d, n) <= d + Resolution[i]
         /\ Multiple(i, TurnAt(i, d, n))
         /\ i # Top => ~Multiple(i + 1, TurnAt(i, d, n))
<1>1. PICK r \in Nat : r = Resolution[i] /\ r > 0
  BY LevelTimes
<1>2. Multiple(i, d) /\ Multiple(i, d + r)
  BY <1>1, MultipleNext
<1>3. CASE i # Top /\ n + 1 = SkipTick(i)
  <2>1. TurnAt(i, d, n) = d + r
    BY <1>1, <1>3 DEF TurnAt
  <2>2. Multiple(i + 1, d) /\ i + 1 \in Level
    BY <1>3, SkipIs, LevelTimes
  <2>3. 2 * r <= Resolution[i + 1] /\ Resolution[i + 1] \in Nat
    BY <1>1, <2>2, ResolutionRises, LevelTimes
  <2>4. ~Multiple(i + 1, d + r)
    <3> SUFFICES ASSUME Multiple(i + 1, d + r) PROVE FALSE
      OBVIOUS
    <3>1. d < d + r /\ d + r \in Nat
      BY <1>1
    <3>2. d + Resolution[i + 1] <= d + r
      BY <2>2, <3>1, MultipleGap
    <3> QED BY <1>1, <2>3, <3>2
  <2>5. d + r \in Nat /\ d <= d + r
    OBVIOUS
  <2> QED BY <1>1, <1>2, <2>1, <2>4, <2>5
<1>4. CASE ~(i # Top /\ n + 1 = SkipTick(i))
  <2>1. TurnAt(i, d, n) = d
    BY <1>4 DEF TurnAt
  <2>2. i # Top => ~Multiple(i + 1, d)
    BY <1>4, SkipIs
  <2>3. d <= d + r
    OBVIOUS
  <2> QED BY <1>1, <1>2, <2>1, <2>2, <2>3
<1> QED BY <1>3, <1>4

LEMMA TickDueIs ==
  ASSUME TypeOK, InStep, NEW i \in Level
  PROVE  /\ TickDue(i) \in Nat
         /\ due[i] <= TickDue(i) /\ TickDue(i) <= due[i] + Resolution[i]
         /\ Multiple(i, TickDue(i))
         /\ i # Top => ~Multiple(i + 1, TickDue(i))
<1>1. due[i] \in Nat
  BY DEF TypeOK
<1> QED BY <1>1, TurnAtIs DEF TickDue, InStep

LEMMA TickDuesDiffer ==
  ASSUME TypeOK, InStep, NEW i \in Level, NEW j \in Level, i # j
  PROVE  TickDue(i) # TickDue(j)
<1>1. ASSUME NEW k \in Level, NEW l \in Level, k < l
      PROVE  TickDue(k) # TickDue(l)
  <2>1. k # Top /\ k + 1 \in Level /\ k + 1 <= l
    BY <1>1, LevelTimes
  <2>2. TickDue(l) \in Nat /\ Multiple(l, TickDue(l)) /\ ~Multiple(k + 1, TickDue(k))
    BY <2>1, TickDueIs
  <2>3. Multiple(k + 1, TickDue(l))
    BY <2>1, <2>2, MultipleBelow
  <2> QED BY <2>2, <2>3
<1>2. i < j \/ j < i
  BY LevelTimes
<1> QED BY <1>1, <1>2

\* A loop that lags by no more than a slot of the lowest level loses no tick.
KeepsUp == MaxLag <= Resolution[1]

LEMMA FireIs ==
  ASSUME TypeOK, InStep, KeepsUp, NEW i \in Level, Fire(i)
  PROVE  /\ due' = [due EXCEPT ![i] = due[i] + Resolution[i]]
         /\ due[i] <= now /\ now <= due[i] + MaxLag
         /\ \A j \in Level : due[i] <= due[j]
<1>1. /\ Resolution[i] \in Nat /\ Resolution[1] \in Nat /\ MaxLag \in Nat
      /\ due[i] \in Nat /\ now \in Nat
  <2>1. Resolution[i] \in Nat /\ 1 \in Level
    BY LevelTimes
  <2>2. Resolution[1] \in Nat /\ MaxLag \in Nat
    BY <2>1, LevelTimes, WheelAssumption
  <2> QED BY <2>1, <2>2 DEF TypeOK
<1>2. Resolution[1] <= Resolution[i]
  <2>1. (i = 1 \/ 1 < i) /\ 1 \in Level
    BY LevelTimes
  <2>2. 1 < i => 2 * Resolution[1] <= Resolution[i]
    BY <2>1, ResolutionRises
  <2> QED BY <1>1, <2>1, <2>2
<1>3. now <= due[i] + MaxLag /\ MaxLag <= Resolution[1]
  BY DEF InStep, KeepsUp
<1>4. ~(due[i] + Resolution[i] < now)
  BY <1>1, <1>2, <1>3
<1> QED BY <1>3, <1>4 DEF Fire

LEMMA FireKeeps ==
  ASSUME TypeOK, InStep, NEW i \in Level,
         due' = [due EXCEPT ![i] = due[i] + Resolution[i]], now' = now,
         \A j \in Level : due[i] <= due[j],
         \A j \in Level : j # i => tickCounter'[j] = tickCounter[j],
         i # Top => CounterTells(i, due'[i], tickCounter'[i])
  PROVE  InStep'
<1>1. ASSUME NEW j \in Level
      PROVE  /\ due[j] \in Nat /\ Resolution[j] \in Nat
             /\ due'[j] = IF j = i THEN due[i] + Resolution[i] ELSE due[j]
  BY LevelTimes DEF TypeOK
<1>2. ASSUME NEW j \in Level
      PROVE  Multiple(j, due'[j])
  BY <1>1, MultipleNext DEF InStep
<1>3. ASSUME NEW j \in Level, j # Top
      PROVE  CounterTells(j, due'[j], tickCounter'[j])
  <2>1. CASE j # i
    <3>1. CounterTells(j, due[j], tickCounter[j])
      BY <1>3 DEF InStep
    <3> QED BY <1>1, <2>1, <3>1
  <2> QED BY <1>3, <2>1
<1>4. ASSUME NEW j \in Level, NEW k \in Level
      PROVE  due'[j] <= due'[k] + Resolution[j]
  <2>1. due[j] <= due[k] + Resolution[j] /\ due[i] <= due[k]
    BY DEF InStep
  <2> QED BY <1>1, <2>1
<1>5. ASSUME NEW j \in Level
      PROVE  now <= due'[j] + MaxLag
  <2>1. now <= due[j] + MaxLag /\ now \in Nat /\ MaxLag \in Nat
    BY WheelAssumption DEF InStep, TypeOK
  <2> QED BY <1>1, <2>1
<1> QED BY <1>2, <1>3, <1>4, <1>5 DEF InStep

LEMMA SkipKeeps ==
  ASSUME TypeOK, InStep, KeepsUp, NEW i \in Level, Skip(i)
  PROVE  InStep' /\ \A j \in Level : TickDue(j)' = TickDue(j)
<1>1. /\ i # Top /\ tickCounter[i] + 1 = SkipTick(i)
      /\ tickCounter' = [tickCounter EXCEPT ![i] = 0] /\ now' = now
  BY DEF Skip
<1>2. due' = [due EXCEPT ![i] = due[i] + Resolution[i]] /\ \A j \in Level : due[i] <= due[j]
  BY FireIs DEF Skip
<1>3. tickCounter'[i] = 0 /\ \A j \in Level : j # i => tickCounter'[j] = tickCounter[j]
  BY <1>1 DEF TypeOK
<1>4. PICK r \in Nat, s \in Nat :
        /\ r = Resolution[i] /\ r > 0 /\ s = Slots[i] /\ s >= 2
        /\ Resolution[i + 1] = r * s /\ SkipTick(i) = s
  BY <1>1, LevelTimes
<1>5. CounterTells(i, due'[i], tickCounter'[i])
  <2>1. PICK q \in Nat : due[i] = q * (r * s)
    <3>1. due[i] \in Nat /\ CounterTells(i, due[i], tickCounter[i])
      BY <1>1 DEF TypeOK, InStep
    <3> QED BY <1>1, <1>4, <3>1, SkipIs DEF Multiple
  <2>2. due'[i] = q * (r * s) + 1 * r
    BY <1>2, <1>4, <2>1 DEF TypeOK
  <2>3. 1 \in 1 .. s /\ 1 = tickCounter'[i] + 1
    BY <1>3, <1>4
  <2> QED BY <1>4, <2>2, <2>3 DEF CounterTells
<1>6. InStep'
  BY <1>1, <1>2, <1>3, <1>5, FireKeeps
<1>7. ASSUME NEW j \in Level
      PROVE  TickDue(j)' = TickDue(j)
  <2>1. CASE j = i
    <3>1. TickDue(i) = due[i] + Resolution[i]
      BY <1>1 DEF TickDue, TurnAt
    <3>2. tickCounter'[i] + 1 # SkipTick(i)
      BY <1>3, <1>4
    <3>3. TickDue(i)' = due'[i]
      BY <3>2 DEF TickDue, TurnAt
    <3> QED BY <1>2, <2>1, <3>1, <3>3 DEF TypeOK
  <2>2. CASE j # i
    BY <1>2, <1>3, <2>2 DEF TickDue, TurnAt, TypeOK
  <2> QED BY <2>1, <2>2
<1> QED BY <1>6, <1>7

\* A tick.  Its level was the first to be due; no level ticks again before a slot of
\* the lowest level has passed, and one of each level's, or of those above it, when
\* a slot of its own has.
LEMMA TickTurns ==
  ASSUME TypeOK, TypeOK', InStep, KeepsUp, NEW t \in Level, OnLevelTick(t)
  PROVE  /\ InStep'
         /\ due[t] <= now /\ now <= due[t] + MaxLag
         /\ \A j \in Level : due[t] <= TickDue(j)
         /\ \A j \in Level : TickDue(j)' \in Nat /\ due[t] + Resolution[1] <= TickDue(j)'
         /\ \A j \in Level : j # t => TickDue(j)' = TickDue(j)
         /\ \A i \in Level : i <= t => \E j \in Level :
              i <= j /\ TickDue(j)' <= due[t] + Resolution[i]
<1>0. /\ due' = [due EXCEPT ![t] = due[t] + Resolution[t]]
      /\ due[t] <= now /\ now <= due[t] + MaxLag
      /\ \A j \in Level : due[t] <= due[j]
      /\ now' = now
  BY FireIs DEF OnLevelTick
<1>1. /\ t # Top => tickCounter[t] + 1 # SkipTick(t)
      /\ tickCounter' = IF t = Top THEN tickCounter ELSE [tickCounter EXCEPT ![t] = @ + 1]
  BY DEF OnLevelTick
<1>2. \A j \in Level : j # t => tickCounter'[j] = tickCounter[j] /\ due'[j] = due[j]
  BY <1>0, <1>1 DEF TypeOK
<1>3. ASSUME t # Top
      PROVE  CounterTells(t, due'[t], tickCounter'[t])
  <2>1. PICK r \in Nat, s \in Nat :
          /\ r = Resolution[t] /\ r > 0 /\ s = Slots[t] /\ s >= 2
          /\ Resolution[t + 1] = r * s /\ SkipTick(t) = s
    BY <1>3, LevelTimes
  <2>2. PICK q \in Nat : \E c \in 1 .. s :
          c = tickCounter[t] + 1 /\ due[t] = q * (r * s) + c * r
    BY <1>3, <2>1 DEF InStep, CounterTells
  <2>3. PICK c \in 1 .. s : c = tickCounter[t] + 1 /\ due[t] = q * (r * s) + c * r
    BY <2>2
  <2>4. c + 1 \in 1 .. s
    BY <1>1, <1>3, <2>1, <2>3
  <2>5. tickCounter'[t] = tickCounter[t] + 1
    BY <1>1, <1>3 DEF TypeOK
  <2>6. due'[t] = q * (r * s) + (c + 1) * r
    <3>1. due'[t] = due[t] + r
      BY <1>0, <2>1 DEF TypeOK
    <3>2. PICK a \in Nat, b \in Nat : a = q * (r * s) /\ b = c * r
      OBVIOUS
    <3>3. (c + 1) * r = b + r
      BY <3>2, TimesOneMore
    <3> QED BY <2>3, <3>1, <3>2, <3>3
  <2> QED BY <2>1, <2>3, <2>4, <2>5, <2>6 DEF CounterTells
<1>4. InStep'
  BY <1>0, <1>2, <1>3, FireKeeps
<1>5. PICK n \in Nat : n = due[t]
  BY DEF TypeOK
<1>6. TickDue(t) = n
  BY <1>1, <1>5 DEF TickDue, TurnAt
<1>7. ASSUME NEW j \in Level
      PROVE  n <= TickDue(j) /\ TickDue(j) \in Nat
  <2>1. due[j] <= TickDue(j) /\ n <= due[j] /\ due[j] \in Nat /\ TickDue(j) \in Nat
    BY <1>0, <1>5, TickDueIs DEF TypeOK
  <2> QED BY <2>1
<1>8. ASSUME NEW j \in Level, j # t
      PROVE  TickDue(j)' = TickDue(j)
  BY <1>2, <1>8 DEF TickDue, TurnAt
<1>9. ASSUME NEW j \in Level
      PROVE  TickDue(j)' \in Nat /\ due'[j] <= TickDue(j)'
  <2>1. /\ due'[j] \in Nat /\ Multiple(j, due'[j])
        /\ j # Top => CounterTells(j, due'[j], tickCounter'[j])
    BY <1>4 DEF TypeOK, InStep
  <2> QED BY <2>1, TurnAtIs DEF TickDue
<1>10. ASSUME NEW j \in Level
       PROVE  n + Resolution[1] <= TickDue(j)'
  <2>1. PICK r1 \in Nat, r \in Nat : r1 = Resolution[1] /\ r = Resolution[t] /\ r1 <= r
    <3>1. 1 \in Level /\ 1 <= t /\ t \in Nat /\ Resolution[t] \in Nat
      BY LevelTimes
    <3>2. Resolution[1] \in Nat
      BY <3>1, LevelTimes
    <3>3. 1 < t => 2 * Resolution[1] <= Resolution[t]
      BY <3>1, ResolutionRises
    <3> QED BY <3>1, <3>2, <3>3
  <2>2. CASE j = t
    <3>1. due'[t] = n + r
      BY <1>0, <1>5, <2>1 DEF TypeOK
    <3>2. n + r <= TickDue(t)' /\ TickDue(t)' \in Nat
      BY <1>9, <3>1
    <3> QED BY <2>1, <2>2, <3>2
  <2>3. CASE j # t
    <3>1. n < TickDue(j) /\ TickDue(j) \in Nat
      BY <1>6, <1>7, <2>3, TickDuesDiffer
    <3>2. Multiple(j, TickDue(j)) /\ Multiple(t, n)
      BY <1>5, TickDueIs DEF InStep
    <3>3. Multiple(1, TickDue(j)) /\ Multiple(1, n)
      BY <1>7, <3>2, LevelTimes, MultipleBelow
    <3>4. n + r1 <= TickDue(j)
      BY <2>1, <3>1, <3>3, LevelTimes, MultipleGap
    <3> QED BY <1>8, <2>1, <2>3, <3>4
  <2> QED BY <2>2, <2>3
<1>11. ASSUME NEW i \in Level, i <= t
       PROVE  \E j \in Level : i <= j /\ TickDue(j)' <= n + Resolution[i]
  <2>1. PICK r \in Nat : r = Resolution[i] /\ r > 0
    BY LevelTimes
  <2>2. Multiple(t, n) /\ Multiple(i, n)
    BY <1>5, <1>11, MultipleBelow DEF InStep
  <2>3. Multiple(i, n + r) /\ n + r \in Nat
    BY <2>1, <2>2, MultipleNext
  <2>4. PICK k \in Level : i <= k /\ Multiple(k, n + r) /\ (k # Top => ~Multiple(k + 1, n + r))
    BY <2>3, TopmostIs
  <2>5. PICK d \in Nat, rk \in Nat : d = due[k] /\ rk = Resolution[k]
    BY LevelTimes DEF TypeOK
  <2>6. n <= d /\ d <= n + rk /\ Multiple(k, d)
    BY <1>0, <1>5, <2>5 DEF InStep
  <2>7. due'[k] = n + r => TickDue(k)' = n + r
    <3>1. ASSUME due'[k] = n + r, k # Top
          PROVE  tickCounter'[k] + 1 # SkipTick(k)
      <4>1. due'[k] \in Nat /\ CounterTells(k, due'[k], tickCounter'[k])
        BY <1>4, <3>1 DEF TypeOK, InStep
      <4> QED BY <2>4, <3>1, <4>1, SkipIs
    <3> QED BY <3>1 DEF TickDue, TurnAt
  <2>8. CASE k = i /\ i = t
    <3>1. due'[k] = n + r
      BY <1>0, <1>5, <2>1, <2>8 DEF TypeOK
    <3> QED BY <2>1, <2>4, <2>7, <3>1
  <2>9. CASE k = i /\ i # t
    <3>1. CASE d = n
      <4>1. TickDue(i) = n \/ TickDue(i) = n + r
        BY <2>1, <2>5, <2>9, <3>1 DEF TickDue, TurnAt
      <4>2. TickDue(i) # n
        BY <1>6, <2>9, TickDuesDiffer
      <4>3. TickDue(i)' = n + r
        BY <1>8, <2>9, <4>1, <4>2
      <4> QED BY <2>1, <2>4, <2>9, <4>3
    <3>2. CASE d # n
      <4>1. n + rk <= d
        BY <2>2, <2>5, <2>6, <2>9, <3>2, MultipleGap
      <4>2. due'[k] = n + r
        BY <1>2, <2>1, <2>5, <2>6, <2>9, <4>1
      <4> QED BY <2>1, <2>4, <2>7, <4>2
    <3> QED BY <3>1, <3>2
  <2>10. CASE k # i
    <3>1. 2 * r <= rk
      BY <2>1, <2>4, <2>5, <2>10, ResolutionRises, LevelTimes
    <3>2. ~Multiple(k, n)
      <4> SUFFICES ASSUME Multiple(k, n) PROVE FALSE
        OBVIOUS
      <4>1. n + rk <= n + r
        BY <2>1, <2>3, <2>4, <2>5, MultipleGap
      <4> QED BY <2>1, <3>1, <4>1
    <3>3. k # t /\ d # n
      BY <2>2, <2>5, <2>6, <3>2
    <3>4. ~(d < n + r)
      <4> SUFFICES ASSUME d < n + r PROVE FALSE
        OBVIOUS
      <4>1. d + rk <= n + r
        BY <2>3, <2>4, <2>5, <2>6, MultipleGap
      <4> QED BY <2>6, <3>1, <3>3, <4>1
    <3>5. ~(n + r < d)
      <4> SUFFICES ASSUME n + r < d PROVE FALSE
        OBVIOUS
      <4>1. n + r + rk <= d
        BY <2>3, <2>4, <2>5, <2>6, MultipleGap
      <4> QED BY <2>1, <2>6, <4>1
    <3>6. due'[k] = n + r
      BY <1>2, <2>5, <3>3, <3>4, <3>5
    <3> QED BY <2>1, <2>4, <2>7, <3>6
  <2> QED BY <2>8, <2>9, <2>10
<1> QED BY <1>0, <1>4, <1>5, <1>7, <1>8, <1>9, <1>10, <1>11

------------------------------------------------------------------------------
(* The steps of a tick, by how many are left.                              *)

Left == Len(agenda)

\* The tick has not turned its levels yet.
Turning == Left >= 4

TickLevel == agenda[Left - 3].level

StepIs(task, left) ==
  /\ task.op = "process" => left = 2 * task.level + 4
  /\ task.op = "execute" => left % 2 = 1
  /\ task.op = "advance" => left = 4
  /\ task.op = "refile" => left = 2

TickInv ==
  /\ \A n \in 1 .. Left : StepIs(agenda[n], Left + 1 - n)
  /\ Turning => Left <= 2 * TickLevel + 4
  /\ agenda # <<>> => \/ cachedNow = now
                      \/ Turning /\ Left = 2 * TickLevel + 4

LEMMA HeadIs ==
  ASSUME TypeOK, TickInv, agenda # <<>>
  PROVE  /\ Left \in Nat /\ Left > 0 /\ Len(Tail(agenda)) = Left - 1
         /\ Does("process") => Turning /\ Left = 2 * Head(agenda).level + 4
         /\ Does("execute") => Left % 2 = 1 /\ cachedNow = now
         /\ Does("advance") => /\ Turning /\ Left = 4
                               /\ Head(agenda).level = TickLevel /\ cachedNow = now
         /\ Does("refile") => Left = 2 /\ cachedNow = now
         /\ Turning => TickLevel \in Level
<1>1. /\ agenda \in Seq(Task) /\ Left \in Nat /\ Left > 0
      /\ Len(Tail(agenda)) = Left - 1 /\ Head(agenda) = agenda[1]
  BY DEF TypeOK, Left
<1>2. StepIs(Head(agenda), Left)
  BY <1>1 DEF TickInv
<1>3. ASSUME NEW n \in 1 .. Left
      PROVE  agenda[n] \in Task /\ agenda[n].level \in Level
  <2>1. agenda[n] \in Task
    BY <1>1 DEF Left
  <2> QED BY <2>1 DEF Task
<1>4. Turning => TickLevel \in Level
  BY <1>1, <1>3 DEF Turning, TickLevel
<1>5. Head(agenda).level \in Level
  BY <1>1, <1>3
<1>6. Level \subseteq Nat \ {0}
  BY LevelFacts
<1>7. Does("process") => Turning /\ Left = 2 * Head(agenda).level + 4
  <2>1. PICK h \in Nat \ {0} : h = Head(agenda).level
    BY <1>5, <1>6
  <2>2. Does("process") => Left = 2 * h + 4
    BY <1>2, <2>1 DEF Does, StepIs
  <2> QED BY <2>1, <2>2 DEF Turning
<1>8. Does("advance") => Turning /\ Left = 4 /\ Head(agenda).level = TickLevel
  BY <1>1, <1>2 DEF Does, StepIs, Turning, TickLevel
<1>9. (Does("execute") => Left % 2 = 1) /\ (Does("refile") => Left = 2)
  BY <1>2 DEF Does, StepIs
<1>10. ASSUME Does("execute") \/ Does("advance") \/ Does("refile")
       PROVE  cachedNow = now
  <2> SUFFICES ASSUME Turning, Left = 2 * TickLevel + 4
               PROVE  FALSE
    BY DEF TickInv
  <2>1. PICK t \in Nat \ {0} : t = TickLevel
    BY <1>4, <1>6
  <2> QED BY <1>8, <1>9, <1>10, <2>1
<1> QED BY <1>1, <1>4, <1>7, <1>8, <1>9, <1>10

LEMMA TasksTogether ==
  ASSUME NEW s \in Seq(Task), NEW t \in Seq(Task)
  PROVE  /\ Len(s \o t) = Len(s) + Len(t)
         /\ \A n \in 1 .. Len(s) : (s \o t)[n] = s[n]
         /\ \A n \in 1 .. Len(t) : (s \o t)[Len(s) + n] = t[n]
OBVIOUS

LEMMA TasksAre ==
  ASSUME NEW i \in Level
  PROVE  /\ Len(TickTasks(i)) = 2 * i + 4
         /\ \A n \in 1 .. 2 * i + 4 : StepIs(TickTasks(i)[n], 2 * i + 5 - n)
         /\ TickTasks(i)[2 * i + 1].level = i
<1> DEFINE first == [n \in 1 .. 2 * i |-> [op |-> IF n % 2 = 1 THEN "process" ELSE "execute",
                                           level |-> i - (n - 1) \div 2]]
           last == [n \in 1 .. 4 |-> [op |-> <<"advance", "execute", "refile", "execute">>[n],
                                      level |-> i]]
<1>1. i \in Nat /\ i > 0 /\ 2 * i \in Nat
  BY LevelFacts
<1>2. first \in Seq(Task) /\ Len(first) = 2 * i
  <2>1. ASSUME NEW n \in 1 .. 2 * i
        PROVE  first[n] \in Task
    <3>1. (n - 1) \div 2 \in 0 .. i - 1
      BY <1>1
    <3>2. i - (n - 1) \div 2 \in Level
      BY <1>1, <3>1, LevelFacts
    <3> QED BY <3>2 DEF Task
  <2> QED BY <1>1, <2>1
<1>3. last \in Seq(Task) /\ Len(last) = 4
  <2>1. ASSUME NEW n \in 1 .. 4
        PROVE  last[n] \in Task
    <3>1. n = 1 \/ n = 2 \/ n = 3 \/ n = 4
      OBVIOUS
    <3> QED BY <3>1 DEF Task
  <2> QED BY <2>1
<1>4. TickTasks(i) = first \o last
  BY DEF TickTasks
<1>5. /\ Len(TickTasks(i)) = 2 * i + 4
      /\ \A n \in 1 .. 2 * i : TickTasks(i)[n] = first[n]
      /\ \A n \in 1 .. 4 : TickTasks(i)[2 * i + n] = last[n]
  <2> HIDE DEF first, last
  <2>1. PICK f \in Seq(Task), l \in Seq(Task) : f = first /\ l = last
    BY <1>2, <1>3
  <2>2. Len(f) = 2 * i /\ Len(l) = 4 /\ TickTasks(i) = f \o l
    BY <1>2, <1>3, <1>4, <2>1
  <2>3. /\ Len(f \o l) = Len(f) + Len(l)
        /\ \A m \in 1 .. Len(f) : (f \o l)[m] = f[m]
        /\ \A m \in 1 .. Len(l) : (f \o l)[Len(f) + m] = l[m]
    BY TasksTogether
  <2> QED BY <1>1, <2>1, <2>2, <2>3
<1>6. ASSUME NEW n \in 1 .. 2 * i
      PROVE  StepIs(TickTasks(i)[n], 2 * i + 5 - n)
  <2>1. /\ TickTasks(i)[n].op = IF n % 2 = 1 THEN "process" ELSE "execute"
        /\ TickTasks(i)[n].level = i - (n - 1) \div 2
    <3>1. TickTasks(i)[n] = [op |-> IF n % 2 = 1 THEN "process" ELSE "execute",
                             level |-> i - (n - 1) \div 2]
      BY <1>5
    <3> QED BY <3>1
  <2>2. n % 2 = 1 => 2 * i + 5 - n = 2 * (i - (n - 1) \div 2) + 4
    BY <1>1, Z3
  <2>3. n % 2 # 1 => (2 * i + 5 - n) % 2 = 1
    BY <1>1, Z3
  <2> QED BY <2>1, <2>2, <2>3 DEF StepIs
<1>7. ASSUME NEW n \in 1 .. 4
      PROVE  StepIs(TickTasks(i)[2 * i + n], 5 - n) /\ TickTasks(i)[2 * i + n].level = i
  <2>1. TickTasks(i)[2 * i + n] = last[n]
    BY <1>5
  <2>2. n = 1 \/ n = 2 \/ n = 3 \/ n = 4
    OBVIOUS
  <2>3. last[n].op = <<"advance", "execute", "refile", "execute">>[n] /\ last[n].level = i
    OBVIOUS
  <2> HIDE DEF last
  <2> QED BY <2>1, <2>2, <2>3 DEF StepIs
<1>8. ASSUME NEW n \in 1 .. 2 * i + 4
       PROVE  StepIs(TickTasks(i)[n], 2 * i + 5 - n)
  <2>1. CASE n <= 2 * i
    BY <1>1, <1>6, <2>1
  <2>2. CASE ~(n <= 2 * i)
    <3>1. PICK m \in 1 .. 4 : m = n - 2 * i
      BY <1>1, <2>2
    <3>2. n = 2 * i + m /\ 2 * i + 5 - n = 5 - m
      BY <1>1, <3>1
    <3> QED BY <1>7, <3>2
  <2> QED BY <2>1, <2>2
<1> QED BY <1>5, <1>7, <1>8

\* A tick's steps are done one after the other.
LEMMA DoneIs ==
  ASSUME TypeOK, TickInv, agenda # <<>>, Done, cachedNow' = now, now' = now
  PROVE  /\ TickInv' /\ Left' = Left - 1
         /\ Turning' <=> Turning /\ Left # 4
         /\ Turning' => TickLevel' = TickLevel
<1>1. /\ agenda \in Seq(Task) /\ Left \in Nat /\ Left > 0 /\ agenda' = Tail(agenda)
      /\ Left' = Left - 1
  BY DEF TypeOK, Left, Done
<1>2. ASSUME NEW n \in 1 .. Left - 1
      PROVE  agenda'[n] = agenda[n + 1]
  BY <1>1 DEF Left
<1>3. \A n \in 1 .. Left' : StepIs(agenda'[n], Left' + 1 - n)
  <2> SUFFICES ASSUME NEW n \in 1 .. Left'
               PROVE  StepIs(agenda'[n], Left' + 1 - n)
    OBVIOUS
  <2>0. n \in 1 .. Left - 1 /\ Left' + 1 - n = Left - n
    BY <1>1
  <2>1. n + 1 \in 1 .. Left /\ Left + 1 - (n + 1) = Left - n
    BY <1>1
  <2> QED BY <1>2, <2>0, <2>1 DEF TickInv
<1>4. Turning' <=> Turning /\ Left # 4
  BY <1>1 DEF Turning
<1>5. ASSUME Turning'
      PROVE  TickLevel' = TickLevel
  <2>1. Left - 4 \in 1 .. Left - 1 /\ (Left - 4) + 1 = Left - 3 /\ Left' - 3 = Left - 4
    BY <1>1, <1>4, <1>5 DEF Turning
  <2> QED BY <1>2, <2>1 DEF TickLevel
<1>6. Turning' => Left' <= 2 * TickLevel' + 4
  <2> SUFFICES ASSUME Turning'
               PROVE  Left - 1 <= 2 * TickLevel + 4
    BY <1>1, <1>5
  <2>1. Left <= 2 * TickLevel + 4 /\ TickLevel \in Level
    BY <1>4, HeadIs DEF TickInv
  <2> QED BY <1>1, <2>1, LevelFacts
<1> QED BY <1>1, <1>3, <1>4, <1>5, <1>6 DEF TickInv

LEMMA TickStepDoes ==
  ASSUME TypeOK, TickInv, TickStep
  PROVE  /\ TickInv' /\ UNCHANGED <<now, due, tickCounter>>
         /\ agenda # <<>>
         /\ (agenda' = agenda /\ cachedNow' = cachedNow) \/ (Done /\ cachedNow' = now)
<1>1. /\ UNCHANGED <<now, due, tickCounter>> /\ agenda # <<>>
      /\ (agenda' = agenda /\ cachedNow' = cachedNow) \/ (Done /\ cachedNow' = now)
  <2>1. CASE Process
    <3>1. Does("process") /\ cachedNow' = now /\ Done /\ UNCHANGED <<now, due, tickCounter>>
      BY <2>1 DEF Process
    <3> QED BY <3>1 DEF Does
  <2>2. CASE \E e \in pending : Execute(e)
    BY <2>2 DEF Execute, Does, clockVars
  <2>3. CASE ExecutedAll
    BY <2>3, HeadIs DEF ExecutedAll, Does, clockVars
  <2>4. CASE Advance
    BY <2>4, HeadIs DEF Advance, Does, clockVars
  <2>5. CASE Refile
    BY <2>5 DEF Refile, Does
  <2> QED BY <2>1, <2>2, <2>3, <2>4, <2>5 DEF TickStep
<1>2. CASE agenda' = agenda /\ cachedNow' = cachedNow
  <2>1. TickInv'
    BY <1>1, <1>2 DEF TickInv, Turning, TickLevel, Left
  <2> QED BY <1>1, <2>1
<1>3. CASE Done /\ cachedNow' = now
  BY <1>1, <1>3, DoneIs
<1> QED BY <1>1, <1>2, <1>3

LEMMA TickBegins ==
  ASSUME NEW t \in Level, OnLevelTick(t)
  PROVE  TickInv' /\ Turning' /\ TickLevel' = t /\ Left' = 2 * t + 4 /\ agenda' # <<>>
<1>1. agenda' = TickTasks(t)
  BY DEF OnLevelTick
<1>2. t \in Nat /\ t > 0
  BY LevelFacts
<1>3. Left' = 2 * t + 4
  BY <1>1, TasksAre DEF Left
<1>4. Turning' /\ TickLevel' = t
  <2>1. Left' - 3 = 2 * t + 1
    BY <1>2, <1>3
  <2> QED BY <1>1, <1>2, <1>3, <2>1, TasksAre DEF Turning, TickLevel
<1>5. agenda' # <<>>
  BY <1>2, <1>3 DEF Left
<1>6. \A n \in 1 .. Left' : StepIs(agenda'[n], Left' + 1 - n)
  <2> SUFFICES ASSUME NEW n \in 1 .. 2 * t + 4
               PROVE  StepIs(TickTasks(t)[n], 2 * t + 4 + 1 - n)
    BY <1>1, <1>3
  <2>1. 2 * t + 4 + 1 - n = 2 * t + 5 - n
    BY <1>2
  <2> QED BY <2>1, TasksAre
<1> QED BY <1>2, <1>3, <1>4, <1>5, <1>6 DEF TickInv

LEMMA TickStepKeeps == TypeOK /\ TickInv /\ [Next]_vars => TickInv'
<1> SUFFICES ASSUME TypeOK, TickInv, [Next]_vars
             PROVE  TickInv'
  OBVIOUS
<1>1. CASE PassTime \/ Add \/ (\E i \in Level : Skip(i))
  <2>1. agenda = <<>> /\ agenda' = <<>>
    BY <1>1 DEF PassTime, Add, Skip, Fire
  <2> QED BY <2>1 DEF TickInv, Turning, Left
<1>2. CASE \E i \in Level : OnLevelTick(i)
  BY <1>2, TickBegins
<1>3. CASE TickStep
  BY <1>3, TickStepDoes
<1>4. CASE UNCHANGED vars
  BY <1>4 DEF vars, clockVars, TickInv, Turning, TickLevel, Left
<1> QED BY <1>1, <1>2, <1>3, <1>4 DEF Next

------------------------------------------------------------------------------
(* The pace of the ticks.                                                  *)

\* The clock that the next entry is filed by.
WheelClock == IF agenda = <<>> THEN cachedNow ELSE now

\* Some level that turns this one ticks within a slot of it; during a tick, the next
\* is a slot of the lowest level away.
Paced ==
  /\ \A i \in Level : \E j \in Level : i <= j /\ TickDue(j) <= WheelClock + Resolution[i]
  /\ agenda # <<>> => \A j \in Level : now + Resolution[1] <= TickDue(j) + MaxLag

ClockInv == InStep /\ TickInv /\ Paced

LEMMA ClockTypes ==
  ASSUME TypeOK, NEW i \in Level
  PROVE  /\ Resolution[i] \in Nat /\ Resolution[1] \in Nat /\ MaxLag \in Nat
         /\ Resolution[1] > 0 /\ Resolution[1] <= Resolution[i]
         /\ now \in Nat /\ cachedNow \in Nat /\ WheelClock \in Nat
         /\ due[i] \in Nat /\ 1 \in Level
<1>1. 1 \in Level /\ i \in Nat /\ 1 <= i /\ Resolution[i] \in Nat
  BY LevelTimes
<1>2. Resolution[1] \in Nat /\ Resolution[1] > 0 /\ MaxLag \in Nat
  BY <1>1, LevelTimes, WheelAssumption
<1>3. 1 < i => 2 * Resolution[1] <= Resolution[i]
  BY <1>1, ResolutionRises
<1> QED BY <1>1, <1>2, <1>3 DEF TypeOK, WheelClock

LEMMA PassTimePaces ==
  ASSUME TypeOK, KeptInv, ClockInv, PassTime
  PROVE  ClockInv'
<1>1. agenda = <<>> /\ now' = now + 1 /\ UNCHANGED <<cachedNow, due, tickCounter, agenda>>
  BY DEF PassTime
<1>2. InStep'
  <2>1. ASSUME NEW i \in Level
        PROVE  now + 1 <= due[i] + MaxLag
    <3>1. now < due[i] + MaxLag
      BY DEF PassTime
    <3> QED BY <3>1, ClockTypes
  <2> QED BY <1>1, <2>1 DEF ClockInv, InStep
<1>3. TickInv'
  BY <1>1 DEF TickInv, Turning, Left
<1>4. Paced'
  BY <1>1 DEF ClockInv, Paced, WheelClock, TickDue
<1> QED BY <1>2, <1>3, <1>4 DEF ClockInv

LEMMA TickPaces ==
  ASSUME TypeOK, TypeOK', KeptInv, KeepsUp, ClockInv, NEW t \in Level, OnLevelTick(t)
  PROVE  ClockInv'
<1>1. /\ InStep' /\ due[t] <= now /\ now <= due[t] + MaxLag
      /\ \A j \in Level : TickDue(j)' \in Nat /\ due[t] + Resolution[1] <= TickDue(j)'
      /\ \A j \in Level : j # t => TickDue(j)' = TickDue(j)
      /\ \A i \in Level : i <= t => \E j \in Level :
           i <= j /\ TickDue(j)' <= due[t] + Resolution[i]
  BY TickTurns DEF ClockInv
<1>2. TickInv' /\ agenda' # <<>> /\ now' = now /\ cachedNow <= now /\ agenda = <<>>
  BY TickBegins DEF OnLevelTick, KeptInv, EntriesPast, Fire
<1>3. ASSUME NEW i \in Level
      PROVE  \E j \in Level : i <= j /\ TickDue(j)' <= now + Resolution[i]
  <2>1. CASE i <= t
    <3>1. PICK j \in Level : i <= j /\ TickDue(j)' <= due[t] + Resolution[i]
      BY <1>1, <2>1
    <3>2. due[t] \in Nat /\ TickDue(j)' \in Nat /\ Resolution[i] \in Nat /\ now \in Nat
      BY <1>1, ClockTypes
    <3> QED BY <1>1, <3>1, <3>2
  <2>2. CASE ~(i <= t)
    <3>1. PICK j \in Level : i <= j /\ TickDue(j) <= cachedNow + Resolution[i]
      BY <1>2 DEF ClockInv, Paced, WheelClock
    <3>2. j # t
      BY <2>2, <3>1
    <3>3. TickDue(j)' = TickDue(j) /\ TickDue(j)' \in Nat
      BY <1>1, <3>2
    <3>4. Resolution[i] \in Nat /\ now \in Nat /\ cachedNow \in Nat
      BY ClockTypes
    <3> QED BY <1>2, <3>1, <3>3, <3>4
  <2> QED BY <2>1, <2>2
<1>4. ASSUME NEW j \in Level
      PROVE  now + Resolution[1] <= TickDue(j)' + MaxLag
  <2>1. /\ due[t] \in Nat /\ now \in Nat /\ Resolution[1] \in Nat /\ MaxLag \in Nat
        /\ TickDue(j)' \in Nat /\ due[t] + Resolution[1] <= TickDue(j)'
    BY <1>1, ClockTypes
  <2> QED BY <1>1, <2>1
<1>5. Paced'
  BY <1>2, <1>3, <1>4 DEF Paced, WheelClock
<1> QED BY <1>1, <1>2, <1>5 DEF ClockInv

LEMMA ClockStep ==
  ASSUME TypeOK, KeptInv, KeepsUp, ClockInv, [Next]_vars
  PROVE  ClockInv'
<1>0. TypeOK' /\ TickInv'
  BY TypeStep, TickStepKeeps DEF ClockInv
<1>1. CASE PassTime
  BY <1>1, PassTimePaces
<1>2. CASE \E i \in Level : OnLevelTick(i)
  BY <1>0, <1>2, TickPaces
<1>3. ASSUME NEW i \in Level, Skip(i)
      PROVE  ClockInv'
  <2>1. InStep' /\ \A j \in Level : TickDue(j)' = TickDue(j)
    BY <1>3, SkipKeeps DEF ClockInv
  <2>2. UNCHANGED <<now, cachedNow, agenda>>
    BY <1>3 DEF Skip
  <2>3. Paced'
    BY <2>1, <2>2 DEF ClockInv, Paced, WheelClock
  <2> QED BY <1>0, <2>1, <2>3 DEF ClockInv
<1>4. CASE Add \/ UNCHANGED vars
  <2>1. UNCHANGED <<now, cachedNow, due, tickCounter, agenda>>
    BY <1>4 DEF Add, vars, clockVars
  <2>2. InStep' /\ Paced'
    BY <2>1 DEF ClockInv, InStep, Paced, TickDue, WheelClock
  <2> QED BY <1>0, <2>2 DEF ClockInv
<1>5. CASE TickStep
  <2>1. /\ UNCHANGED <<now, due, tickCounter>> /\ agenda # <<>>
        /\ (agenda' = agenda /\ cachedNow' = cachedNow) \/ (Done /\ cachedNow' = now)
    BY <1>5, TickStepDoes DEF ClockInv
  <2>2. WheelClock = now /\ WheelClock' = now
    BY <2>1 DEF WheelClock
  <2>3. InStep' /\ Paced'
    BY <2>1, <2>2 DEF ClockInv, InStep, Paced, TickDue
  <2> QED BY <1>0, <2>3 DEF ClockInv
<1> QED BY <1>1, <1>2, <1>3, <1>4, <1>5 DEF Next

LEMMA ClockInit == Init => ClockInv
<1> SUFFICES ASSUME Init
             PROVE  ClockInv
  OBVIOUS
<1>1. /\ now = 0 /\ cachedNow = 0 /\ due = Resolution /\ agenda = <<>>
      /\ \A i \in Level : tickCounter[i] = 0
  BY DEF Init
<1>2. ASSUME NEW i \in Level, i # Top
      PROVE  CounterTells(i, due[i], tickCounter[i]) /\ tickCounter[i] + 1 # SkipTick(i)
  <2>1. PICK r \in Nat, s \in Nat :
          /\ r = Resolution[i] /\ s = Slots[i] /\ s >= 2
          /\ Resolution[i + 1] = r * s /\ SkipTick(i) = s
    BY <1>2, LevelTimes
  <2>2. /\ due[i] = 0 * Resolution[i + 1] + 1 * Resolution[i]
        /\ 1 \in 1 .. Slots[i] /\ 1 = tickCounter[i] + 1
    <3>1. r = 0 * (r * s) + 1 * r
      OBVIOUS
    <3> QED BY <1>1, <2>1, <3>1
  <2>3. CounterTells(i, due[i], tickCounter[i])
    BY <2>2 DEF CounterTells
  <2> QED BY <1>1, <2>1, <2>3
<1>3. ASSUME NEW i \in Level
      PROVE  TickDue(i) = Resolution[i]
  BY <1>1, <1>2 DEF TickDue, TurnAt
<1>4. InStep
  <2>1. ASSUME NEW i \in Level, NEW j \in Level
        PROVE  due[i] <= due[j] + Resolution[i] /\ now <= due[i] + MaxLag
    BY <1>1, TypeInit, ClockTypes
  <2> QED BY <1>1, <1>2, <2>1, MultipleSelf DEF InStep
<1>5. Paced
  <2> SUFFICES ASSUME NEW i \in Level
               PROVE  i <= i /\ TickDue(i) <= 0 + Resolution[i]
    BY <1>1 DEF Paced, WheelClock
  <2> QED BY <1>3, LevelTimes
<1>6. TickInv
  BY <1>1 DEF TickInv, Turning, Left
<1> QED BY <1>4, <1>5, <1>6 DEF ClockInv

------------------------------------------------------------------------------
(* The slot that an entry is filed into.                                   *)

LEMMA ModOnce ==
  ASSUME NEW n \in Nat, n > 0, NEW m \in Nat, m < 2 * n
  PROVE  m % n = IF m < n THEN m ELSE m - n
BY Z3

\* Counted from the current slot, every slot of a level is at one distance.
LEMMA SlotAtIs ==
  ASSUME TypeOK, NEW i \in Level
  PROVE  /\ \A d, f \in Index(i) : SlotAt(i, d) = SlotAt(i, f) => d = f
         /\ \A x \in Index(i) : \E d \in Index(i) : x = SlotAt(i, d)
<1>1. PICK n \in Nat, c \in Nat : n = Slots[i] /\ c = cursor[i] /\ c < n /\ n > 0
  <2>1. cursor[i] \in Index(i) /\ Slots[i] \in Nat /\ Slots[i] >= 2
    BY LevelTimes DEF TypeOK
  <2> QED BY <2>1 DEF Index
<1>2. Index(i) = 0 .. n - 1
  BY <1>1 DEF Index
<1>3. ASSUME NEW d \in Index(i)
      PROVE  d \in Nat /\ d < n /\ SlotAt(i, d) = IF c + d < n THEN c + d ELSE (c + d) - n
  <2>1. d \in Nat /\ d < n /\ c + d \in Nat /\ c + d < 2 * n
    BY <1>1, <1>2
  <2> QED BY <1>1, <2>1, ModOnce DEF SlotAt
<1>4. ASSUME NEW d \in Index(i), NEW f \in Index(i), SlotAt(i, d) = SlotAt(i, f)
      PROVE  d = f
  BY <1>1, <1>3, <1>4
<1>5. ASSUME NEW x \in Index(i)
      PROVE  \E d \in Index(i) : x = SlotAt(i, d)
  <2>1. CASE x >= c
    <3>1. x - c \in Index(i) /\ c + (x - c) = x /\ x < n
      BY <1>1, <1>2, <2>1
    <3> QED BY <1>3, <3>1
  <2>2. CASE ~(x >= c)
    <3>1. PICK d \in Index(i) : d = (x + n) - c
      BY <1>1, <1>2, <2>2
    <3>2. c + d = x + n /\ ~(c + d < n) /\ (c + d) - n = x
      BY <1>1, <1>2, <3>1
    <3> QED BY <1>3, <3>2
  <2> QED BY <2>1, <2>2
<1> QED BY <1>4, <1>5

\* Bucket::getSlotIdx rounds down by less than two slots, and up from nothing to one.
LEMMA GetSlotIdxIs ==
  ASSUME NEW i \in Level, NEW delay \in Nat, delay < TimeCapacity(i)
  PROVE  \E idx \in Index(i) :
           /\ idx = GetSlotIdx(i, delay)
           /\ idx * Resolution[i] \in Nat
           /\ delay < idx * Resolution[i] + 2 * Resolution[i]
           /\ idx * Resolution[i] <= delay \/ idx = 1
<1>1. PICK r \in Nat, n \in Nat :
        r = Resolution[i] /\ r > 0 /\ n = Slots[i] /\ n >= 2 /\ TimeCapacity(i) = r * n
  BY LevelTimes DEF TimeCapacity
<1>2. PICK slot \in Nat, over \in Nat :
        /\ slot = delay \div r /\ over = delay % r
        /\ delay = r * slot + over /\ over < r
  <2>1. delay \div r \in Nat /\ delay % r \in Nat /\ delay % r < r
    BY <1>1
  <2> QED BY <1>1, <2>1, DivMod
<1>3. PICK p \in Nat : p = slot * r /\ delay = p + over
  BY <1>2
<1>4. slot < n
  <2> SUFFICES ASSUME n <= slot
               PROVE  FALSE
    BY <1>1
  <2>1. n * r <= slot * r
    BY <1>1, TimesRises
  <2>2. n * r = r * n
    BY <1>1
  <2> QED BY <1>1, <1>3, <2>1, <2>2
<1>5. slot > 0 => slot - 1 \in Nat /\ (slot - 1) * r = p - r /\ r <= p
  <2> SUFFICES ASSUME slot > 0
               PROVE  slot - 1 \in Nat /\ (slot - 1) * r = p - r /\ r <= p
    OBVIOUS
  <2>1. PICK m \in Nat : m = slot - 1 /\ slot = m + 1
    OBVIOUS
  <2>2. m * r + r = p /\ m * r \in Nat
    BY <1>1, <1>3, <2>1, TimesOneMore
  <2> QED BY <1>1, <2>1, <2>2
<1>6. PICK idx \in Nat : idx = IF slot > 0 /\ over > 0 THEN slot - 1 ELSE slot
  BY <1>5
<1>7. PICK q \in Nat : q = idx * r
  OBVIOUS
<1>8. q <= delay /\ delay < q + 2 * r /\ idx < n
  <2>0. delay = p + over /\ over < r /\ r > 0
    BY <1>1, <1>2, <1>3
  <2>1. CASE slot > 0 /\ over > 0
    <3>1. q = p - r /\ idx < n
      BY <1>1, <1>4, <1>5, <1>6, <1>7, <2>1
    <3>2. r <= p /\ over > 0
      BY <1>5, <2>1
    <3> QED BY <2>0, <3>1, <3>2
  <2>2. CASE ~(slot > 0 /\ over > 0)
    <3>1. q = p /\ idx < n
      BY <1>3, <1>4, <1>6, <1>7, <2>2
    <3> QED BY <2>0, <3>1
  <2> QED BY <2>1, <2>2
<1>9. GetSlotIdx(i, delay) = IF idx = 0 /\ r - over < over THEN 1 ELSE idx
  BY <1>1, <1>2, <1>6 DEF GetSlotIdx
<1>10. CASE idx = 0 /\ r - over < over
  <2>1. 1 \in Index(i) /\ 1 * r = r
    BY <1>1 DEF Index
  <2>2. idx * r = 0
    BY <1>1, <1>10
  <2>3. delay < r + 2 * r
    BY <1>1, <1>7, <1>8, <2>2
  <2> QED BY <1>1, <1>9, <1>10, <2>1, <2>3
<1>11. CASE ~(idx = 0 /\ r - over < over)
  <2>1. idx \in Index(i)
    BY <1>1, <1>8 DEF Index
  <2> QED BY <1>1, <1>7, <1>8, <1>9, <1>11, <2>1
<1> QED BY <1>10, <1>11

LEMMA LevelForRises ==
  ASSUME NEW a \in Nat, NEW b \in Nat, a <= b, b < TimeCapacity(Top)
  PROVE  /\ LevelFor(a) \in Level /\ LevelFor(b) \in Level /\ LevelFor(a) <= LevelFor(b)
         /\ Resolution[LevelFor(a)] \in Nat /\ Resolution[LevelFor(b)] \in Nat
         /\ Resolution[LevelFor(a)] <= Resolution[LevelFor(b)]
<1>0. TimeCapacity(Top) \in Nat /\ a < TimeCapacity(Top)
  <2>1. TimeCapacity(Top) \in Nat
    BY LevelFacts, CapacityType
  <2> QED BY <2>1
<1>1. PICK i \in Level, j \in Level : i = LevelFor(a) /\ j = LevelFor(b)
  BY <1>0, LevelForIs
<1>2. b < TimeCapacity(j) /\ \A k \in 1 .. i - 1 : a >= TimeCapacity(k)
  BY <1>0, <1>1, LevelForIs
<1>3. i \in Nat /\ j \in Nat /\ j > 0 /\ TimeCapacity(j) \in Nat
  BY LevelTimes, CapacityType
<1>4. i <= j
  BY <1>2, <1>3
<1>5. Resolution[i] \in Nat /\ Resolution[j] \in Nat
  BY LevelTimes
<1>6. i < j => 2 * Resolution[i] <= Resolution[j]
  BY ResolutionRises
<1> QED BY <1>1, <1>3, <1>4, <1>5, <1>6

\* What the place of an entry says of the time it has left.
LEMMA Filed ==
  ASSUME TypeOK, NEW e \in Entry, NEW at \in Nat, e.added <= at,
         NEW i \in Level, NEW d \in Index(i), InSlot(e, at, i, SlotAt(i, d))
  PROVE  \E left \in Nat :
           /\ i = LevelFor(left) /\ left <= e.interval
           /\ LevelFor(e.interval) \in Level /\ i <= LevelFor(e.interval)
           /\ Resolution[LevelFor(e.interval)] \in Nat
           /\ Resolution[i] <= Resolution[LevelFor(e.interval)]
           /\ d * Resolution[i] \in Nat
           /\ left < d * Resolution[i] + 2 * Resolution[i]
           /\ d * Resolution[i] <= left + Resolution[1]
           /\ e.added + e.interval <= at + left
           /\ e.added + e.interval >= at => e.added + e.interval = at + left
<1>1. PICK left \in Nat : left = RemainingTime(e, at) /\ left < TimeCapacity(Top)
  BY RemainingType
<1>2. i = LevelFor(left) /\ SlotAt(i, d) = SlotAt(i, GetSlotIdx(i, left))
  BY <1>1 DEF InSlot
<1>3. left < TimeCapacity(i) /\ \A j \in 1 .. i - 1 : left >= TimeCapacity(j)
  BY <1>1, <1>2, LevelForIs
<1>4. /\ d = GetSlotIdx(i, left) /\ d * Resolution[i] \in Nat
      /\ left < d * Resolution[i] + 2 * Resolution[i]
      /\ d * Resolution[i] <= left \/ d = 1
  <2>1. PICK idx \in Index(i) :
          /\ idx = GetSlotIdx(i, left)
          /\ idx * Resolution[i] \in Nat
          /\ left < idx * Resolution[i] + 2 * Resolution[i]
          /\ idx * Resolution[i] <= left \/ idx = 1
    BY <1>3, GetSlotIdxIs
  <2>2. d = idx
    BY <1>2, <2>1, SlotAtIs
  <2> QED BY <2>1, <2>2
<1>5. d * Resolution[i] <= left + Resolution[1]
  <2>1. i \in Nat /\ 1 <= i /\ Resolution[i] \in Nat /\ Resolution[1] \in Nat
    BY LevelTimes, ClockTypes
  <2>2. CASE d * Resolution[i] <= left
    BY <1>4, <2>1, <2>2
  <2>3. CASE d = 1 /\ i = 1
    BY <1>4, <2>1, <2>3
  <2>4. CASE d = 1 /\ i # 1
    <3>1. PICK k \in Nat : k = i - 1 /\ k \in 1 .. i - 1 /\ k + 1 = i
      BY <2>1, <2>4
    <3>2. k \in Level /\ k # Top
      BY <3>1, LevelFacts, LevelTimes
    <3>3. Resolution[i] = TimeCapacity(k)
      BY <3>1, <3>2, LevelTimes DEF TimeCapacity
    <3>4. Resolution[i] <= left
      BY <1>3, <2>1, <3>1, <3>3
    <3> QED BY <2>1, <2>4, <3>4
  <2> QED BY <1>4, <2>2, <2>3, <2>4
<1>6. /\ left <= e.interval /\ e.interval \in Nat /\ e.interval < TimeCapacity(Top)
      /\ e.added + e.interval <= at + left
      /\ e.added + e.interval >= at => e.added + e.interval = at + left
  <2>1. PICK c \in Nat : c = TimeCapacity(Top)
    BY LevelFacts, CapacityType
  <2>2. e.added \in Nat /\ e.interval \in 0 .. c - 1
    BY <2>1, WheelAssumption DEF Entry
  <2>3. PICK a \in Nat, v \in Nat : a = e.added /\ v = e.interval /\ v < c /\ a <= at
    BY <2>1, <2>2
  <2>4. left = IF a + v <= at THEN 0 ELSE (a + v) - at
    BY <1>1, <2>3 DEF RemainingTime
  <2> QED BY <2>1, <2>3, <2>4
<1> QED BY <1>2, <1>4, <1>5, <1>6, LevelForRises

------------------------------------------------------------------------------
(* No callback runs early.                                                 *)

\* What is known of an entry.
LEMMA LiesFacts ==
  ASSUME TypeOK, KeptInv, NEW e, NEW p, Lies(e, p)
  PROVE  /\ e \in Entry /\ e.timer \in Timer /\ asked[e.timer] \in Nat
         /\ e.interval \in Nat /\ e.interval < TimeCapacity(Top) /\ TimeCapacity(Top) \in Nat
         /\ e.added \in Nat /\ e.added <= cachedNow /\ e.added <= now
<1>1. e \in Entry /\ e.timer \in Timer
  BY LiesType
<1>2. asked[e.timer] \in Nat
  BY <1>1 DEF KeptInv, AskedIsPresent, Present, TypeOK
<1>3. PICK c \in Nat : c = TimeCapacity(Top)
  BY LevelFacts, CapacityType
<1>4. e.added \in Nat /\ e.interval \in 0 .. c - 1
  BY <1>1, <1>3, WheelAssumption DEF Entry
<1>5. e.added <= cachedNow /\ cachedNow <= now /\ cachedNow \in Nat /\ now \in Nat
  BY DEF KeptInv, EntriesPast, TypeOK
<1> QED BY <1>1, <1>2, <1>3, <1>4, <1>5

LEMMA SlotLies ==
  ASSUME TypeOK, NEW i \in Level, NEW d \in Index(i)
  PROVE  /\ SlotAt(i, d) \in Index(i) /\ d \in Nat
         /\ \A e \in buckets[i][SlotAt(i, d)] :
              LET p == <<i, SlotAt(i, d)>> IN InSlots(e, p) /\ Lies(e, p)
<1>1. d \in Nat /\ cursor[i] \in Nat
  BY LevelTimes DEF TypeOK, Index
<1>2. SlotAt(i, d) \in Index(i)
  BY <1>1, SlotAtType
<1> QED BY <1>1, <1>2 DEF Lies, InSlots

\* A new timer leaves the others alone.
LEMMA NewLeaves ==
  ASSUME TypeOK, KeptInv, NEW es \in NewEntries, Ask(es)
  PROVE  /\ \A e, p : Lies(e, p) => asked'[e.timer] = asked[e.timer] /\ e.timer \notin TimersOf(es)
         /\ \A n \in es : /\ n \in Entry /\ n.timer \in Timer /\ n.added = cachedNow
                          /\ asked'[n.timer] = now
<1>1. ASSUME NEW e, NEW p, Lies(e, p)
      PROVE  asked'[e.timer] = asked[e.timer] /\ e.timer \notin TimersOf(es)
  <2>1. e.timer \in Timer
    BY <1>1, LiesType
  <2>2. e.timer \notin TimersOf(es)
    BY <1>1, NewIsAbsent DEF TimersOf
  <2> QED BY <2>1, <2>2 DEF Ask
<1>2. ASSUME NEW n \in es
      PROVE  n \in Entry /\ n.timer \in Timer /\ n.added = cachedNow /\ asked'[n.timer] = now
  <2>1. n \in Entry /\ n.added = cachedNow
    BY NewEntryIs
  <2>2. n.timer \in Timer /\ n.timer \in TimersOf(es)
    BY <2>1 DEF Entry, TimersOf
  <2> QED BY <2>1, <2>2 DEF Ask
<1> QED BY <1>1, <1>2

\* What a slot has when entries are added.
LEMMA AddedAre ==
  ASSUME NEW es, NEW at, buckets' = AddEntries(es, at), NEW i \in Level, NEW x \in Index(i), NEW e
  PROVE  e \in buckets'[i][x] <=> e \in buckets[i][x] \/ (e \in es /\ InSlot(e, at, i, x))
<1>1. buckets'[i][x] = buckets[i][x] \cup {f \in es : InSlot(f, at, i, x)}
  BY DEF AddEntries
<1> QED BY <1>1

\* The clock does not run ahead of the ticks.
LEMMA NowIs ==
  ASSUME TypeOK, ClockInv
  PROVE  /\ \A j \in Level : TickDue(j) \in Nat /\ now <= TickDue(j) + MaxLag
         /\ agenda # <<>> => \A j \in Level : now + Resolution[1] <= TickDue(j) + MaxLag
         /\ now <= WheelClock + Resolution[1] + MaxLag
<1>1. ASSUME NEW j \in Level
      PROVE  TickDue(j) \in Nat /\ now <= TickDue(j) + MaxLag
  <2>1. due[j] <= TickDue(j) /\ TickDue(j) \in Nat /\ now <= due[j] + MaxLag
    BY TickDueIs DEF ClockInv, InStep
  <2> QED BY <2>1, ClockTypes
<1>2. now <= WheelClock + Resolution[1] + MaxLag
  <2>1. 1 \in Level
    BY LevelFacts, LevelTimes
  <2>2. PICK j \in Level : TickDue(j) <= WheelClock + Resolution[1]
    BY <2>1 DEF ClockInv, Paced
  <2> QED BY <1>1, <2>2, ClockTypes
<1> QED BY <1>1, <1>2 DEF ClockInv, Paced

\* An entry in a slot of the lowest level is not due long before the slot is emptied ...
EarlySlots ==
  \A d \in Index(1) : \A e \in buckets[1][SlotAt(1, d)] : \A j \in Level :
    asked[e.timer] + e.interval + (IF Turning THEN Resolution[1] ELSE 0)
      < TickDue(j) + d * Resolution[1] + 2 * Resolution[1] + 2 * MaxLag

\* ... and a cached clock is at most a tick old.
AskedSoon ==
  \A e, p : InSlots(e, p) \/ e \in subs =>
    asked[e.timer] <= e.added + Resolution[1] + MaxLag

EarlyInv == EarlySlots /\ AskedSoon /\ NotTooEarly

LEMMA EarlyInit == Init => EarlyInv
<1> SUFFICES ASSUME Init
             PROVE  EarlyInv
  OBVIOUS
<1>1. TypeOK /\ 1 \in Level
  BY TypeInit, LevelFacts, LevelTimes
<1>2. \A d \in Index(1) : buckets[1][SlotAt(1, d)] = {}
  BY <1>1, SlotLies DEF Init
<1>3. \A e, p : ~InSlots(e, p)
  BY DEF Init, InSlots
<1> QED BY <1>2, <1>3 DEF Init, EarlyInv, EarlySlots, AskedSoon, NotTooEarly

\* A timer that is added.
LEMMA NewEarly ==
  ASSUME TypeOK, KeptInv, ClockInv, EarlyInv,
         NEW es \in NewEntries, buckets' = AddEntries(es, cachedNow), Ask(es),
         UNCHANGED <<clockVars, cursor, agenda, subs>>, pending' \subseteq pending,
         agenda # <<>> => cachedNow = now
  PROVE  EarlyInv'
<1>0. PICK r \in Nat, l \in Nat : r = Resolution[1] /\ l = MaxLag /\ 1 \in Level
  BY LevelFacts, ClockTypes
<1>1. /\ \A e, p : Lies(e, p) => asked'[e.timer] = asked[e.timer]
      /\ \A n \in es : /\ n \in Entry /\ n.timer \in Timer /\ n.added = cachedNow
                       /\ asked'[n.timer] = now
  BY NewLeaves
<1>2. /\ now \in Nat /\ cachedNow \in Nat /\ cachedNow <= now
      /\ now <= cachedNow + r + l
  <2>1. now <= WheelClock + r + l /\ (WheelClock = cachedNow \/ WheelClock = now)
    BY <1>0, NowIs DEF WheelClock
  <2>2. WheelClock = cachedNow
    BY DEF WheelClock
  <2> QED BY <2>1, <2>2 DEF TypeOK, KeptInv, EntriesPast
<1>3. ASSUME NEW j \in Level
      PROVE  /\ TickDue(j) \in Nat
             /\ now + (IF Turning THEN r ELSE 0) <= TickDue(j) + l
  <2>1. Turning => agenda # <<>>
    BY DEF Turning, Left
  <2> QED BY <1>0, <1>2, <2>1, NowIs
<1>4. (Turning' <=> Turning) /\ \A j \in Level : TickDue(j)' = TickDue(j)
  BY DEF Turning, Left, TickDue, clockVars
<1>5. EarlySlots'
  <2> SUFFICES ASSUME NEW d \in Index(1), NEW e \in buckets'[1][SlotAt(1, d)], NEW j \in Level
               PROVE  asked'[e.timer] + e.interval + (IF Turning THEN r ELSE 0)
                        < TickDue(j) + d * r + 2 * r + 2 * l
    BY <1>0, <1>4 DEF EarlySlots, SlotAt
  <2>1. SlotAt(1, d) \in Index(1)
    BY <1>0, SlotLies
  <2>2. CASE e \in buckets[1][SlotAt(1, d)]
    <3>1. Lies(e, <<1, SlotAt(1, d)>>)
      BY <1>0, <2>2, SlotLies
    <3> QED BY <1>0, <1>1, <2>2, <3>1 DEF EarlyInv, EarlySlots
  <2>3. CASE e \in es /\ InSlot(e, cachedNow, 1, SlotAt(1, d))
    <3>0. e \in Entry /\ e.added = cachedNow /\ e.added <= cachedNow
      BY <1>1, <1>2, <2>3
    <3>1. PICK left \in Nat :
            /\ d * Resolution[1] \in Nat /\ left < d * Resolution[1] + 2 * Resolution[1]
            /\ e.added + e.interval <= cachedNow + left
      BY <1>0, <1>2, <2>3, <3>0, Filed
    <3>4. PICK k \in Nat : k = d * r /\ left < k + 2 * r
      BY <1>0, <3>1
    <3>2. e.interval \in Nat /\ e.interval <= left
      <4>1. e.interval \in Nat
        <5>1. TimeCapacity(Top) \in Nat
          BY LevelFacts, CapacityType
        <5> QED BY <1>1, <2>3, <5>1, WheelAssumption DEF Entry
      <4> QED BY <1>1, <1>2, <2>3, <3>1, <4>1
    <3>3. asked'[e.timer] = now
      BY <1>1, <2>3
    <3>5. PICK x \in Nat, t \in Nat :
            x = (IF Turning THEN r ELSE 0) /\ t = TickDue(j) /\ now + x <= t + l
      BY <1>3
    <3>6. PICK v \in Nat : v = e.interval /\ v < k + 2 * r
      BY <3>2, <3>4
    <3>7. now \in Nat /\ now + x <= t + l
      BY <1>2, <3>5
    <3>8. now + v + x < t + k + 2 * r + 2 * l
      <4>1. PICK m \in Nat : m = k + 2 * r /\ v < m
        BY <3>6
      <4>2. PICK n \in Nat : n = now + x /\ n <= t + l
        BY <3>7
      <4>3. n + v < t + l + m
        BY <4>1, <4>2
      <4>4. n + v < t + m + 2 * l
        BY <4>3
      <4>5. n + v = now + v + x
        BY <4>2, <3>7
      <4> QED BY <4>1, <4>4, <4>5
    <3> QED BY <3>3, <3>4, <3>5, <3>6, <3>8
  <2>4. e \in buckets[1][SlotAt(1, d)] \/ (e \in es /\ InSlot(e, cachedNow, 1, SlotAt(1, d)))
    BY <1>0, <2>1, AddedAre
  <2> QED BY <2>2, <2>3, <2>4
<1>6. AskedSoon'
  <2> SUFFICES ASSUME NEW e, NEW p, InSlots(e, p)' \/ e \in subs
               PROVE  asked'[e.timer] <= e.added + r + l
    BY <1>0 DEF AskedSoon
  <2>1. CASE e \in es
    BY <1>1, <1>2, <2>1
  <2>2. CASE InSlots(e, p) \/ e \in subs
    <3>1. \E q : Lies(e, q)
      BY <2>2 DEF Lies, InLists
    <3> QED BY <1>0, <1>1, <2>2, <3>1 DEF EarlyInv, AskedSoon
  <2>3. InSlots(e, p)' => InSlots(e, p) \/ e \in es
    BY DEF AddEntries, InSlots
  <2> QED BY <2>1, <2>2, <2>3
<1>7. NotTooEarly'
  <2>1. \A e \in pending : asked'[e.timer] = asked[e.timer]
    BY <1>1 DEF Lies, InLists
  <2> QED BY <2>1 DEF EarlyInv, NotTooEarly, clockVars
<1> QED BY <1>5, <1>6, <1>7 DEF EarlyInv

\* Steps that move no entry and no level.
LEMMA StillEarly ==
  ASSUME TypeOK, KeptInv, EarlyInv, UNCHANGED <<cursor, buckets, pending, subs, asked>>,
         {now, now'} \subseteq Nat, now <= now',
         Turning' <=> Turning, \A j \in Level : TickDue(j)' = TickDue(j)
  PROVE  EarlyInv'
<1>1. EarlySlots'
  BY LevelFacts DEF EarlyInv, EarlySlots, SlotAt
<1>2. AskedSoon'
  BY DEF EarlyInv, AskedSoon, InSlots
<1>3. NotTooEarly'
  <2> SUFFICES ASSUME NEW e \in pending
               PROVE  now' + 2 * Resolution[1] + 2 * MaxLag > asked[e.timer] + e.interval
    BY DEF NotTooEarly
  <2>1. now + 2 * Resolution[1] + 2 * MaxLag > asked[e.timer] + e.interval
    BY DEF EarlyInv, NotTooEarly
  <2>2. Lies(e, <<0, 1>>)
    BY DEF Lies, InLists
  <2>3. PICK a \in Nat : a = asked[e.timer] + e.interval
    BY <2>2, LiesFacts
  <2>4. PICK r \in Nat, l \in Nat : r = Resolution[1] /\ l = MaxLag
    BY LevelFacts, ClockTypes
  <2> QED BY <2>1, <2>3, <2>4
<1> QED BY <1>1, <1>2, <1>3 DEF EarlyInv

\* A tick begins: the level that is due has counted its slots right.
LEMMA TickEarly ==
  ASSUME TypeOK, TypeOK', KeptInv, KeepsUp, ClockInv, EarlyInv, NEW t \in Level, OnLevelTick(t)
  PROVE  EarlyInv'
<1>0. PICK r \in Nat, l \in Nat : r = Resolution[1] /\ l = MaxLag /\ 1 \in Level
  BY LevelFacts, ClockTypes
<1>1. /\ \A j \in Level : TickDue(j)' \in Nat /\ due[t] + r <= TickDue(j)'
      /\ due[t] \in Nat
  BY <1>0, TickTurns, ClockTypes DEF ClockInv
<1>2. TickDue(t) = due[t]
  BY DEF OnLevelTick, TickDue, TurnAt
<1>3. /\ UNCHANGED <<now, cursor, buckets, pending, subs, asked>>
      /\ ~Turning /\ Turning'
  <2>1. Turning'
    BY TickBegins
  <2>2. agenda = <<>> /\ UNCHANGED <<now, cursor, buckets, pending, subs, asked>>
    BY DEF OnLevelTick, Fire, entryVars, historyVars
  <2>3. ~Turning
    BY <2>2 DEF Turning, Left
  <2> QED BY <2>1, <2>2, <2>3
<1>4. EarlySlots'
  <2> SUFFICES ASSUME NEW d \in Index(1), NEW e \in buckets[1][SlotAt(1, d)], NEW j \in Level
               PROVE  asked[e.timer] + e.interval + r
                        < TickDue(j)' + d * r + 2 * r + 2 * l
    BY <1>0, <1>3 DEF EarlySlots, SlotAt
  <2>1. Lies(e, <<1, SlotAt(1, d)>>) /\ d \in Nat
    BY <1>0, SlotLies
  <2>2. PICK a \in Nat, k \in Nat : a = asked[e.timer] + e.interval /\ k = d * r
    BY <2>1, LiesFacts
  <2>3. a + 0 < due[t] + d * r + 2 * r + 2 * l
    BY <1>0, <1>2, <1>3, <2>2 DEF EarlyInv, EarlySlots
  <2>4. a < due[t] + k + 2 * r + 2 * l
    BY <2>2, <2>3
  <2>5. PICK n \in Nat, m \in Nat : n = due[t] /\ m = TickDue(j)' /\ n + r <= m
    BY <1>1
  <2>6. a + r < m + k + 2 * r + 2 * l
    BY <2>4, <2>5
  <2> QED BY <2>2, <2>5, <2>6
<1>5. AskedSoon'
  BY <1>3 DEF EarlyInv, AskedSoon, InSlots
<1>6. NotTooEarly'
  BY <1>3 DEF EarlyInv, NotTooEarly
<1> QED BY <1>4, <1>5, <1>6 DEF EarlyInv

\* A slot of the lowest level is emptied on time, and what an upper level runs is due.
LEMMA ProcessEarly ==
  ASSUME TypeOK, TypeOK', KeptInv, ClockInv, EarlyInv, Process
  PROVE  EarlyInv'
<1>0. PICK r \in Nat, l \in Nat : r = Resolution[1] /\ l = MaxLag /\ 1 \in Level /\ r > 0
  BY LevelFacts, ClockTypes
<1>1. /\ agenda # <<>> /\ Does("process") /\ Done
      /\ UNCHANGED <<now, due, tickCounter, cursor, asked>> /\ cachedNow' = now
  BY DEF Process, Does, historyVars
<1>2. PICK i \in Level : i = Head(agenda).level
  BY <1>1, HeadType
<1>3. Turning /\ Left = 2 * i + 4 /\ Left # 4
  <2>1. Turning /\ Left = 2 * i + 4
    BY <1>1, <1>2, HeadIs DEF ClockInv
  <2>2. i \in Nat /\ i > 0
    BY LevelTimes
  <2> QED BY <2>1, <2>2
<1>4. Turning' /\ \A j \in Level : TickDue(j)' = TickDue(j)
  BY <1>1, <1>3, DoneIs DEF ClockInv, TickDue
<1>5. PICK x \in Index(i) : x = SlotAt(i, 0)
  BY CurrentSlot
<1>6. PICK toRun :
        /\ toRun = IF i = 1 THEN buckets[i][x] ELSE {e \in buckets[i][x] : Soon(e)}
        /\ pending' = pending \cup toRun
        /\ subs' = subs \cup (buckets[i][x] \ toRun)
        /\ buckets' = [buckets EXCEPT ![i][x] = {}]
  BY <1>2, <1>5 DEF Process
<1>7. \A k \in Level : \A y \in Index(k) : buckets'[k][y] \subseteq buckets[k][y]
  BY <1>6 DEF TypeOK
<1>8. EarlySlots'
  <2> SUFFICES ASSUME NEW d \in Index(1), NEW e \in buckets'[1][SlotAt(1, d)], NEW j \in Level
               PROVE  asked[e.timer] + e.interval + Resolution[1]
                        < TickDue(j) + d * Resolution[1] + 2 * Resolution[1] + 2 * MaxLag
    BY <1>0, <1>1, <1>4 DEF EarlySlots, SlotAt
  <2>1. e \in buckets[1][SlotAt(1, d)]
    BY <1>0, <1>7, SlotLies
  <2> QED BY <1>3, <2>1 DEF EarlyInv, EarlySlots
<1>9. AskedSoon'
  <2> SUFFICES ASSUME NEW e, NEW p, InSlots(e, p)' \/ e \in subs'
               PROVE  asked[e.timer] <= e.added + Resolution[1] + MaxLag
    BY <1>1 DEF AskedSoon
  <2>1. InSlots(e, p)' => InSlots(e, p)
    BY <1>7 DEF InSlots
  <2>2. e \in subs' => e \in subs \/ InSlots(e, <<i, x>>)
    BY <1>6 DEF InSlots
  <2> QED BY <2>1, <2>2 DEF EarlyInv, AskedSoon
<1>10. NotTooEarly'
  <2> SUFFICES ASSUME NEW e \in toRun
               PROVE  now + 2 * r + 2 * l > asked[e.timer] + e.interval
    BY <1>0, <1>1, <1>6 DEF EarlyInv, NotTooEarly
  <2>1. e \in buckets[i][x] /\ InSlots(e, <<i, x>>)
    BY <1>6 DEF InSlots
  <2>2. PICK a \in Nat, v \in Nat, n \in Nat, b \in Nat :
          a = asked[e.timer] /\ v = e.interval /\ n = now /\ b = e.added
    BY <2>1, LiesFacts DEF Lies, TypeOK
  <2>3. CASE i = 1
    <3>1. PICK j \in Level : TickDue(j) <= n + r
      BY <1>0, <1>1, <2>2 DEF ClockInv, Paced, WheelClock
    <3>2. PICK m \in Nat : m = TickDue(j)
      BY NowIs
    <3>3. 0 \in Index(1)
      BY <1>0, LevelTimes DEF Index
    <3>4. a + v + r < m + 0 * r + 2 * r + 2 * l
      BY <1>0, <1>3, <1>5, <2>1, <2>2, <2>3, <3>2, <3>3 DEF EarlyInv, EarlySlots
    <3>5. a + v + r < m + 2 * r + 2 * l /\ m <= n + r
      BY <3>1, <3>2, <3>4
    <3>6. n + 2 * r + 2 * l > a + v
      BY <3>5
    <3> QED BY <2>2, <3>6
  <2>4. CASE i # 1
    <3>1. 2 * RemainingTime(e, now) < r
      BY <1>0, <1>6, <2>4 DEF Soon
    <3>2. b + v < n + r
      BY <1>0, <2>2, <3>1 DEF RemainingTime
    <3>3. a <= b + r + l
      BY <1>0, <2>1, <2>2 DEF EarlyInv, AskedSoon
    <3>4. n + 2 * r + 2 * l > a + v
      BY <3>2, <3>3
    <3> QED BY <2>2, <3>4
  <2> QED BY <2>3, <2>4
<1> QED BY <1>8, <1>9, <1>10 DEF EarlyInv

\* A level that turns brings every slot one nearer, and the current one to the end.
LEMMA Turned ==
  ASSUME TypeOK, ClockInv, Advance
  PROVE  /\ Turning /\ Left = 4 /\ ~Turning' /\ agenda # <<>> /\ agenda' # <<>>
         /\ UNCHANGED <<now, cachedNow, entryVars, historyVars>>
         /\ \A j \in Level : TickDue(j)' = TickDue(j)
         /\ TickLevel \in Level
         /\ \A i \in Level : \A d \in Index(i) :
              SlotAt(i, d)' = IF i <= TickLevel
                              THEN SlotAt(i, IF d + 1 < Slots[i] THEN d + 1 ELSE 0)
                              ELSE SlotAt(i, d)
<1>1. /\ Does("advance") /\ agenda # <<>> /\ Done
      /\ UNCHANGED <<now, cachedNow, due, tickCounter, entryVars, historyVars>>
  BY DEF Advance, Does, clockVars
<1>2. /\ Turning /\ Left = 4 /\ Head(agenda).level = TickLevel /\ cachedNow = now
      /\ TickLevel \in Level
  BY <1>1, HeadIs DEF ClockInv
<1>3. ~Turning' /\ Left' = 3
  BY <1>1, <1>2, DoneIs DEF ClockInv
<1>4. agenda' # <<>>
  BY <1>3 DEF Left
<1>5. \A j \in Level : TickDue(j)' = TickDue(j)
  BY <1>1 DEF TickDue
<1>6. ASSUME NEW i \in Level, NEW d \in Index(i)
      PROVE  SlotAt(i, d)' = IF i <= TickLevel
                             THEN SlotAt(i, IF d + 1 < Slots[i] THEN d + 1 ELSE 0)
                             ELSE SlotAt(i, d)
  <2>1. PICK n \in Nat, c \in Nat : n = Slots[i] /\ c = cursor[i] /\ c < n /\ n > 0
    <3>1. cursor[i] \in Index(i) /\ Slots[i] \in Nat /\ Slots[i] >= 2
      BY LevelTimes DEF TypeOK
    <3> QED BY <3>1 DEF Index
  <2>2. d \in Nat /\ d < n
    BY <2>1 DEF Index
  <2>3. SlotAt(i, d)' = (cursor'[i] + d) % n
    BY <2>1 DEF SlotAt
  <2>4. cursor'[i] = IF i <= TickLevel THEN (c + 1) % n ELSE c
    BY <1>2, <2>1 DEF Advance
  <2>5. CASE i <= TickLevel /\ d + 1 < n
    <3>1. SlotAt(i, d + 1) = (c + (d + 1)) % n
      BY <2>1 DEF SlotAt
    <3>2. (((c + 1) % n) + d) % n = (c + (d + 1)) % n
      <4>1. (c + 1) % n = IF c + 1 < n THEN c + 1 ELSE (c + 1) - n
        BY <2>1, ModOnce
      <4>2. CASE c + 1 < n
        <5>1. (c + 1) % n = c + 1
          BY <4>1, <4>2
        <5>2. (c + 1) + d = c + (d + 1)
          BY <2>1, <2>2
        <5> QED BY <5>1, <5>2
      <4>3. CASE ~(c + 1 < n)
        <5>1. ((c + 1) % n) + d = d /\ c + (d + 1) = n + d
          BY <2>1, <2>2, <4>1, <4>3
        <5>2. d % n = d /\ (n + d) % n = d
          BY <2>1, <2>2, ModOnce
        <5> QED BY <5>1, <5>2
      <4> QED BY <4>2, <4>3
    <3> QED BY <2>1, <2>3, <2>4, <2>5, <3>1, <3>2
  <2>6. CASE i <= TickLevel /\ ~(d + 1 < n)
    <3>1. SlotAt(i, 0) = (c + 0) % n /\ c + 0 = c
      BY <2>1 DEF SlotAt
    <3>2. (((c + 1) % n) + d) % n = c % n
      <4>1. (c + 1) % n = IF c + 1 < n THEN c + 1 ELSE (c + 1) - n
        BY <2>1, ModOnce
      <4>2. CASE c + 1 < n
        <5>1. ((c + 1) % n) + d = n + c
          BY <2>1, <2>2, <2>6, <4>1, <4>2
        <5>2. c % n = c /\ (n + c) % n = c
          BY <2>1, <2>2, ModOnce
        <5> QED BY <5>1, <5>2
      <4>3. CASE ~(c + 1 < n)
        <5>1. (c + 1) % n = 0 /\ 0 + d = c
          BY <2>1, <2>2, <2>6, <4>1, <4>3
        <5> QED BY <5>1
      <4> QED BY <4>2, <4>3
    <3> QED BY <2>1, <2>3, <2>4, <2>6, <3>1, <3>2
  <2>7. CASE ~(i <= TickLevel)
    BY <2>1, <2>3, <2>4, <2>7 DEF SlotAt
  <2> QED BY <2>1, <2>5, <2>6, <2>7
<1> QED BY <1>1, <1>2, <1>3, <1>4, <1>5, <1>6

LEMMA AdvanceEarly ==
  ASSUME TypeOK, KeptInv, ClockInv, EarlyInv, Advance
  PROVE  EarlyInv'
<1>0. PICK r \in Nat, l \in Nat, n \in Nat :
        r = Resolution[1] /\ l = MaxLag /\ 1 \in Level /\ n = Slots[1] /\ n >= 2
  BY LevelFacts, LevelTimes, ClockTypes
<1>1. /\ Turning /\ ~Turning' /\ UNCHANGED <<now, entryVars, historyVars>>
      /\ \A j \in Level : TickDue(j)' = TickDue(j)
      /\ TickLevel \in Level /\ 1 <= TickLevel
  BY Turned, LevelTimes
<1>2. EarlySlots'
  <2> SUFFICES ASSUME NEW d \in Index(1), NEW e \in buckets[1][SlotAt(1, d)'], NEW j \in Level
               PROVE  asked[e.timer] + e.interval + 0 < TickDue(j) + d * r + 2 * r + 2 * l
    BY <1>0, <1>1 DEF EarlySlots, entryVars, historyVars
  <2>1. PICK f \in Nat : /\ f = IF d + 1 < n THEN d + 1 ELSE 0
                         /\ f \in Index(1) /\ d \in Nat
                         /\ SlotAt(1, d)' = SlotAt(1, f)
    <3>1. d \in Nat
      BY <1>0 DEF Index
    <3>2. (IF d + 1 < n THEN d + 1 ELSE 0) \in Index(1) \cap Nat
      BY <1>0, <3>1 DEF Index
    <3> QED BY <1>0, <1>1, <3>1, <3>2, Turned
  <2>2. Lies(e, <<1, SlotAt(1, f)>>)
    BY <1>0, <2>1, SlotLies
  <2>3. PICK a \in Nat, k \in Nat, g \in Nat, m \in Nat :
          a = asked[e.timer] + e.interval /\ k = d * r /\ g = f * r /\ m = TickDue(j)
    <3>1. asked[e.timer] + e.interval \in Nat
      BY <2>2, LiesFacts
    <3>2. TickDue(j) \in Nat
      BY NowIs
    <3>3. d * r \in Nat /\ f * r \in Nat
      BY <2>1
    <3> QED BY <3>1, <3>2, <3>3
  <2>4. a + r < m + g + 2 * r + 2 * l
    <3>1. asked[e.timer] + e.interval + r < TickDue(j) + f * r + 2 * r + 2 * l
      BY <1>0, <1>1, <2>1 DEF EarlyInv, EarlySlots
    <3> QED BY <2>3, <3>1
  <2>5. g <= k + r
    <3>1. CASE f = d + 1
      BY <2>1, <2>3, <3>1, TimesOneMore
    <3>2. CASE f = 0
      <4>1. g = 0
        BY <2>3, <3>2
      <4> QED BY <4>1
    <3> QED BY <2>1, <3>1, <3>2
  <2>6. a + 0 < m + k + 2 * r + 2 * l
    BY <2>4, <2>5
  <2> QED BY <2>3, <2>6
<1>3. AskedSoon'
  BY <1>1 DEF EarlyInv, AskedSoon, InSlots, entryVars, historyVars
<1>4. NotTooEarly'
  BY <1>1 DEF EarlyInv, NotTooEarly, entryVars, historyVars
<1> QED BY <1>2, <1>3, <1>4 DEF EarlyInv

\* What is filed anew at the end of a tick: from an upper level, or armed again.
Refiled == subs \cup {[e EXCEPT !.added = now] : e \in repeats}

LEMMA RefiledIs ==
  ASSUME TypeOK, KeptInv, ClockInv, Refile
  PROVE  /\ ~Turning /\ ~Turning' /\ agenda # <<>>
         /\ cachedNow = now /\ cachedNow' = now /\ subs' = {}
         /\ UNCHANGED <<now, cursor, pending>>
         /\ \A j \in Level : TickDue(j)' = TickDue(j)
         /\ buckets' = AddEntries(Refiled, now)
         /\ \A e, p : Lies(e, p) /\ p # <<0, 3>> =>
              asked'[e.timer] = asked[e.timer] /\ (e.timer \in nested' <=> e.timer \in nested)
         /\ \A e \in Refiled :
              /\ e \in Entry /\ e.timer \in Timer /\ e.added \in Nat /\ e.interval \in Nat
              /\ e.added <= now
              /\ \/ e \in subs /\ Lies(e, <<0, 2>>)
                 \/ e.added = now /\ asked'[e.timer] = now
<1>1. /\ Does("refile") /\ agenda # <<>> /\ Done
      /\ UNCHANGED <<now, due, tickCounter, cursor, pending>>
      /\ cachedNow' = now /\ subs' = {} /\ buckets' = AddEntries(Refiled, now)
      /\ Ask(repeats) /\ nested' = nested \ TimersOf(repeats)
  BY DEF Refile, Does, Refiled
<1>2. Left = 2 /\ cachedNow = now
  BY <1>1, HeadIs DEF ClockInv
<1>3. ~Turning /\ ~Turning'
  <2>1. ~Turning
    BY <1>2 DEF Turning
  <2> QED BY <1>1, <2>1, DoneIs DEF ClockInv
<1>4. \A j \in Level : TickDue(j)' = TickDue(j)
  BY <1>1 DEF TickDue
<1>5. ASSUME NEW e, NEW p, Lies(e, p), p # <<0, 3>>
      PROVE  asked'[e.timer] = asked[e.timer] /\ (e.timer \in nested' <=> e.timer \in nested)
  <2>1. e.timer \notin TimersOf(repeats)
    <3> SUFFICES ASSUME NEW f \in repeats, f.timer = e.timer
                 PROVE  FALSE
      BY DEF TimersOf
    <3>1. Lies(f, <<0, 3>>)
      BY DEF Lies, InLists
    <3> QED BY <1>5, <3>1 DEF KeptInv, OneEntry
  <2>2. e.timer \in Timer
    BY <1>5, LiesType
  <2> QED BY <1>1, <2>1, <2>2 DEF Ask
<1>6. ASSUME NEW e \in Refiled
      PROVE  /\ e \in Entry /\ e.timer \in Timer /\ e.added \in Nat /\ e.interval \in Nat
             /\ e.added <= now
             /\ \/ e \in subs /\ Lies(e, <<0, 2>>)
                \/ e.added = now /\ asked'[e.timer] = now
  <2>1. CASE e \in subs
    <3>1. Lies(e, <<0, 2>>)
      BY <2>1 DEF Lies, InLists
    <3> QED BY <2>1, <3>1, LiesFacts
  <2>2. CASE e \notin subs
    <3>1. PICK f \in repeats : e = [f EXCEPT !.added = now]
      BY <2>2 DEF Refiled
    <3>2. Lies(f, <<0, 3>>) /\ now \in Nat
      BY DEF Lies, InLists, TypeOK
    <3>3. f \in Entry /\ f.timer \in Timer /\ f.interval \in Nat
      BY <3>2, LiesFacts
    <3>4. e \in Entry /\ e.timer = f.timer /\ e.interval = f.interval /\ e.added = now
      BY <3>1, <3>2, <3>3 DEF Entry
    <3>5. asked'[e.timer] = now
      BY <1>1, <3>3, <3>4 DEF Ask, TimersOf
    <3>6. now <= now
      BY <3>2
    <3> QED BY <3>2, <3>3, <3>4, <3>5, <3>6
  <2> QED BY <2>1, <2>2
<1> QED BY <1>1, <1>2, <1>3, <1>4, <1>5, <1>6

LEMMA RefileEarly ==
  ASSUME TypeOK, KeptInv, ClockInv, EarlyInv, Refile
  PROVE  EarlyInv'
<1>0. PICK r \in Nat, l \in Nat : r = Resolution[1] /\ l = MaxLag /\ 1 \in Level
  BY LevelFacts, ClockTypes
<1>1. /\ ~Turning' /\ ~Turning /\ agenda # <<>> /\ subs' = {}
      /\ UNCHANGED <<now, cursor, pending>> /\ now \in Nat
      /\ \A j \in Level : TickDue(j)' = TickDue(j)
      /\ buckets' = AddEntries(Refiled, now)
      /\ \A e, p : Lies(e, p) /\ p # <<0, 3>> => asked'[e.timer] = asked[e.timer]
  BY RefiledIs DEF TypeOK
<1>2. ASSUME NEW e \in Refiled
      PROVE  /\ e \in Entry /\ e.added \in Nat /\ e.added <= now /\ e.interval \in Nat
             /\ asked'[e.timer] \in Nat /\ asked'[e.timer] <= e.added + r + l
  <2>1. /\ e \in Entry /\ e.timer \in Timer /\ e.added \in Nat /\ e.interval \in Nat
        /\ e.added <= now
        /\ \/ e \in subs /\ Lies(e, <<0, 2>>)
           \/ e.added = now /\ asked'[e.timer] = now
    BY RefiledIs
  <2>2. CASE e \in subs /\ Lies(e, <<0, 2>>)
    <3>1. asked'[e.timer] = asked[e.timer] /\ asked[e.timer] \in Nat
      BY <1>1, <2>2, LiesFacts
    <3>2. asked[e.timer] <= e.added + r + l
      BY <1>0, <2>2 DEF EarlyInv, AskedSoon
    <3> QED BY <2>1, <3>1, <3>2
  <2>3. CASE e.added = now /\ asked'[e.timer] = now
    <3>1. now <= now + r + l
      BY <1>1
    <3> QED BY <1>1, <2>1, <2>3, <3>1
  <2> QED BY <2>1, <2>2, <2>3
<1>3. ASSUME NEW e, NEW i \in Level, NEW x \in Index(i), e \in buckets[i][x]
      PROVE  asked'[e.timer] = asked[e.timer]
  <2>1. <<i, x>> # <<0, 3>>
    BY LevelTimes
  <2>2. Lies(e, <<i, x>>)
    BY <1>3 DEF Lies, InSlots
  <2> QED BY <1>1, <2>1, <2>2
<1>4. EarlySlots'
  <2> SUFFICES ASSUME NEW d \in Index(1), NEW e \in buckets'[1][SlotAt(1, d)], NEW j \in Level
               PROVE  asked'[e.timer] + e.interval + 0
                        < TickDue(j) + d * Resolution[1] + 2 * Resolution[1] + 2 * MaxLag
    BY <1>0, <1>1 DEF EarlySlots, SlotAt
  <2>1. SlotAt(1, d) \in Index(1)
    BY <1>0, SlotLies
  <2>2. CASE e \in buckets[1][SlotAt(1, d)]
    <3>1. asked'[e.timer] = asked[e.timer]
      BY <1>0, <1>3, <2>1, <2>2
    <3> QED BY <1>1, <2>2, <3>1 DEF EarlyInv, EarlySlots
  <2>3. CASE e \in Refiled /\ InSlot(e, now, 1, SlotAt(1, d))
    <3>1. PICK left \in Nat :
            /\ d * Resolution[1] \in Nat /\ left < d * Resolution[1] + 2 * Resolution[1]
            /\ e.added + e.interval <= now + left
      BY <1>0, <1>1, <1>2, <2>3, Filed
    <3>2. PICK k \in Nat : k = d * Resolution[1] /\ left < k + 2 * r
      BY <1>0, <3>1
    <3>3. PICK n \in Nat, m \in Nat : n = now /\ m = TickDue(j) /\ n + r <= m + l
      BY <1>0, <1>1, NowIs
    <3>4. PICK a \in Nat, b \in Nat, v \in Nat :
            /\ a = asked'[e.timer] /\ b = e.added /\ v = e.interval
            /\ a <= b + r + l /\ b + v <= n + left
      BY <1>2, <2>3, <3>1, <3>3
    <3>5. a + v < m + k + 2 * r + 2 * l
      BY <3>2, <3>3, <3>4
    <3>6. a + v + 0 < m + k + 2 * r + 2 * l
      BY <3>5
    <3> QED BY <1>0, <3>2, <3>3, <3>4, <3>6
  <2>4. e \in buckets[1][SlotAt(1, d)] \/ (e \in Refiled /\ InSlot(e, now, 1, SlotAt(1, d)))
    BY <1>0, <1>1, <2>1, AddedAre
  <2> QED BY <2>2, <2>3, <2>4
<1>5. AskedSoon'
  <2> SUFFICES ASSUME NEW e, NEW i \in Level, NEW x \in Index(i), e \in buckets'[i][x]
               PROVE  asked'[e.timer] <= e.added + r + l
    BY <1>0, <1>1 DEF AskedSoon, InSlots
  <2>1. CASE e \in buckets[i][x]
    <3>1. InSlots(e, <<i, x>>)
      BY <2>1 DEF InSlots
    <3> QED BY <1>0, <1>3, <2>1, <3>1 DEF EarlyInv, AskedSoon
  <2>2. CASE e \in Refiled
    BY <1>2, <2>2
  <2> QED BY <1>1, <2>1, <2>2, AddedAre
<1>6. NotTooEarly'
  <2>1. \A e \in pending : asked'[e.timer] = asked[e.timer]
    <3>1. <<0, 1>> # <<0, 3>>
      OBVIOUS
    <3> QED BY <1>1, <3>1 DEF Lies, InLists
  <2> QED BY <1>1, <2>1 DEF EarlyInv, NotTooEarly
<1> QED BY <1>4, <1>5, <1>6 DEF EarlyInv

LEMMA EarlyStep ==
  ASSUME TypeOK, KeptInv, KeepsUp, ClockInv, EarlyInv, [Next]_vars
  PROVE  EarlyInv'
<1>0. TypeOK' /\ now \in Nat
  BY TypeStep DEF TypeOK
<1>1. CASE PassTime
  <2>1. /\ UNCHANGED <<cursor, buckets, pending, subs, asked, due, tickCounter, agenda>>
        /\ now' = now + 1
    BY <1>1 DEF PassTime, entryVars, historyVars
  <2>2. now' \in Nat /\ now <= now'
    BY <1>0, <2>1
  <2>3. (Turning' <=> Turning) /\ \A j \in Level : TickDue(j)' = TickDue(j)
    BY <2>1 DEF Turning, Left, TickDue
  <2> QED BY <1>0, <2>1, <2>2, <2>3, StillEarly
<1>2. ASSUME NEW i \in Level, Skip(i)
      PROVE  EarlyInv'
  <2>1. UNCHANGED <<cursor, buckets, pending, subs, asked, agenda, now>>
    BY <1>2 DEF Skip, entryVars, historyVars
  <2>2. \A j \in Level : TickDue(j)' = TickDue(j)
    BY <1>2, SkipKeeps DEF ClockInv
  <2>3. (Turning' <=> Turning) /\ now <= now
    BY <1>0, <2>1 DEF Turning, Left
  <2> QED BY <1>0, <2>1, <2>2, <2>3, StillEarly
<1>3. CASE UNCHANGED vars
  <2>1. UNCHANGED <<cursor, buckets, pending, subs, asked, agenda, now, due, tickCounter>>
    BY <1>3 DEF vars, clockVars, entryVars, historyVars
  <2>2. (Turning' <=> Turning) /\ \A j \in Level : TickDue(j)' = TickDue(j)
    BY <2>1 DEF Turning, Left, TickDue
  <2>3. now <= now
    BY <1>0
  <2> QED BY <1>0, <2>1, <2>2, <2>3, StillEarly
<1>4. CASE ExecutedAll
  <2>1. /\ UNCHANGED <<cursor, buckets, pending, subs, asked, now, cachedNow, due, tickCounter>>
        /\ agenda # <<>> /\ Done /\ Does("execute")
    BY <1>4 DEF ExecutedAll, Does, clockVars, entryVars, historyVars
  <2>2. Left % 2 = 1 /\ cachedNow = now
    BY <2>1, HeadIs DEF ClockInv
  <2>3. Left # 4
    BY <2>2
  <2>4. Turning' <=> Turning
    BY <2>1, <2>2, <2>3, DoneIs DEF ClockInv
  <2>5. now <= now /\ \A j \in Level : TickDue(j)' = TickDue(j)
    BY <1>0, <2>1 DEF TickDue
  <2> QED BY <1>0, <2>1, <2>4, <2>5, StillEarly
<1>5. CASE Add
  <2>1. PICK es \in NewEntries : buckets' = AddEntries(es, cachedNow) /\ Ask(es)
    BY <1>5 DEF Add
  <2>2. /\ UNCHANGED <<clockVars, cursor, agenda, subs>> /\ pending' \subseteq pending
        /\ agenda = <<>>
    BY <1>5 DEF Add
  <2> QED BY <2>1, <2>2, NewEarly
<1>6. ASSUME NEW e \in pending, Execute(e)
      PROVE  EarlyInv'
  <2>1. PICK es \in NewEntries : buckets' = AddEntries(es, cachedNow) /\ Ask(es)
    BY <1>6 DEF Execute
  <2>2. /\ UNCHANGED <<clockVars, cursor, agenda, subs>> /\ pending' \subseteq pending
        /\ Does("execute") /\ agenda # <<>>
    BY <1>6 DEF Execute, Does
  <2>3. cachedNow = now
    BY <2>2, HeadIs DEF ClockInv
  <2> QED BY <2>1, <2>2, <2>3, NewEarly
<1>7. CASE \E i \in Level : OnLevelTick(i)
  BY <1>0, <1>7, TickEarly
<1>8. CASE Process
  BY <1>0, <1>8, ProcessEarly
<1>9. CASE Advance
  BY <1>9, AdvanceEarly
<1>10. CASE Refile
  BY <1>10, RefileEarly
<1> QED BY <1>1, <1>2, <1>3, <1>4, <1>5, <1>6, <1>7, <1>8, <1>9, <1>10 DEF Next, TickStep

\* While the loop lags by no more than a slot of the lowest level, no callback runs
\* two slots of it or more before its time (getSlotIdx, processBucket1, processBucketN,
\* addSubEntries, reAddRepeatingEntries).
THEOREM NothingRunsEarly == ASSUME KeepsUp PROVE Spec => []NotTooEarly
<1>1. EarlyInv => NotTooEarly
  BY DEF EarlyInv
<1>2. Init => TypeOK /\ KeptInv /\ ClockInv /\ EarlyInv
  BY TypeInit, KeptInit, ClockInit, EarlyInit
<1>3. TypeOK /\ KeptInv /\ ClockInv /\ EarlyInv /\ [Next]_vars
        => (TypeOK /\ KeptInv /\ ClockInv /\ EarlyInv)'
  BY TypeStep, KeptStep, ClockStep, EarlyStep
<1> QED BY <1>1, <1>2, <1>3, PTL DEF Spec

------------------------------------------------------------------------------
(* No timer is forgotten.                                                  *)

\* The level that the current tick turns, a slot of it that this tick empties still,
\* and the ticks that a slot waits for.
Turns(i) == Turning /\ i <= TickLevel
Emptying(i, d) == Turns(i) /\ d = 0 /\ Left >= 2 * i + 4
Waits(i, d) == IF Turns(i) THEN (IF d = 0 THEN Slots[i] ELSE d) - 1 ELSE d

\* When its slot is emptied, an entry is not too late yet.
OnTime(i, d, e) ==
  LET latest == asked[e.timer] + e.interval + Lateness(e) IN
  IF Emptying(i, d)
  THEN now <= latest + 2 * MaxLag
  ELSE \E j \in Level : i <= j /\ TickDue(j) + Waits(i, d) * Resolution[i] <= latest

LateSlots ==
  \A i \in Level : \A d \in Index(i) : \A e \in buckets[i][SlotAt(i, d)] : OnTime(i, d, e)

AskedAfter == \A e, p : InSlots(e, p) \/ e \in subs => e.added <= asked[e.timer]

\* What is filed anew is not due yet, and does not outlast the tick.
SubsDue ==
  /\ \A e \in subs : e.added + e.interval > now
  /\ subs # {} => Left >= 2

LateInv == LateSlots /\ AskedAfter /\ SubsDue

LEMMA LatenessIs ==
  ASSUME NEW e, e.interval \in Nat, e.interval < TimeCapacity(Top)
  PROVE  \E i \in Level, r1 \in Nat, r \in Nat, c \in Nat :
           /\ i = LevelFor(e.interval) /\ r1 = Resolution[1] /\ r = Resolution[i]
           /\ c = TimeCapacity(i) /\ r <= c
           /\ Lateness(e) = r1 + (IF e.timer \in nested THEN c ELSE r)
           /\ Lateness(e)' = r1 + (IF e.timer \in nested' THEN c ELSE r)
<1>1. PICK i \in Level : i = LevelFor(e.interval)
  BY LevelForIs
<1>2. PICK r1 \in Nat, r \in Nat, s \in Nat :
        r1 = Resolution[1] /\ r = Resolution[i] /\ s = Slots[i] /\ s >= 2
  BY LevelTimes
<1>3. PICK c \in Nat : c = TimeCapacity(i) /\ r <= c
  <2>1. 1 * r <= s * r /\ 1 * r = r /\ s * r = r * s /\ r * s \in Nat
    BY <1>2, TimesRises
  <2> QED BY <1>2, <2>1 DEF TimeCapacity
<1> QED BY <1>1, <1>2, <1>3 DEF Lateness

LEMMA WaitsIs ==
  ASSUME NEW i \in Level, NEW d \in Index(i)
  PROVE  \E k \in Nat, n \in Nat, r \in Nat :
           /\ k = Waits(i, d) * Resolution[i] /\ n = d * Resolution[i] /\ r = Resolution[i]
           /\ ~Turns(i) => k = n
           /\ Turns(i) /\ d # 0 => k + r = n
           /\ Turns(i) /\ d = 0 => k + r = TimeCapacity(i)
<1>1. PICK r \in Nat, s \in Nat : r = Resolution[i] /\ s = Slots[i] /\ s >= 2 /\ d \in Nat
  BY LevelTimes DEF Index
<1>2. PICK w \in Nat : /\ w = Waits(i, d)
                       /\ ~Turns(i) => w = d
                       /\ Turns(i) /\ d # 0 => w + 1 = d
                       /\ Turns(i) /\ d = 0 => w + 1 = s
  BY <1>1 DEF Waits
<1>3. PICK k \in Nat, n \in Nat : k = w * r /\ n = d * r
  BY <1>1
<1>4. (w + 1) * r = k + r
  BY <1>3, TimesOneMore
<1>5. TimeCapacity(i) = s * r
  BY <1>1 DEF TimeCapacity
<1>6. /\ ~Turns(i) => k = n
      /\ Turns(i) /\ d # 0 => k + r = n
      /\ Turns(i) /\ d = 0 => k + r = TimeCapacity(i)
  BY <1>2, <1>3, <1>4, <1>5
<1> QED BY <1>1, <1>2, <1>3, <1>6

\* The property, from the ticks to come.
LEMMA LateIs ==
  ASSUME TypeOK, KeptInv, ClockInv, LateInv
  PROVE  NotTooLate
<1> SUFFICES ASSUME NEW i \in Level, NEW x \in Index(i), NEW e \in buckets[i][x]
             PROVE  now <= asked[e.timer] + e.interval + Lateness(e) + 2 * MaxLag
  BY DEF NotTooLate
<1>1. PICK d \in Index(i) : x = SlotAt(i, d)
  BY SlotAtIs
<1>2. OnTime(i, d, e)
  BY <1>1 DEF LateInv, LateSlots
<1>3. CASE Emptying(i, d)
  BY <1>2, <1>3 DEF OnTime
<1>4. CASE ~Emptying(i, d)
  <2>1. PICK j \in Level :
          TickDue(j) + Waits(i, d) * Resolution[i] <= asked[e.timer] + e.interval + Lateness(e)
    BY <1>2, <1>4 DEF OnTime
  <2>2. PICK k \in Nat : k = Waits(i, d) * Resolution[i]
    BY WaitsIs
  <2>3. PICK m \in Nat, n \in Nat, l \in Nat : m = TickDue(j) /\ n = now /\ l = MaxLag /\ n <= m + l
    BY NowIs, ClockTypes
  <2>4. PICK a \in Nat : a = asked[e.timer] + e.interval + Lateness(e)
    <3>1. Lies(e, <<i, x>>)
      BY DEF Lies, InSlots
    <3>2. asked[e.timer] \in Nat /\ e.interval \in Nat /\ e.interval < TimeCapacity(Top)
      BY <3>1, LiesFacts
    <3>3. Lateness(e) \in Nat
      BY <3>2, LatenessIs
    <3> QED BY <3>2, <3>3
  <2>5. n <= a + 2 * l
    BY <2>1, <2>2, <2>3, <2>4
  <2> QED BY <2>3, <2>4, <2>5
<1> QED BY <1>3, <1>4

LEMMA LateInit == Init => LateInv
<1> SUFFICES ASSUME Init
             PROVE  LateInv
  OBVIOUS
<1>1. ASSUME NEW i \in Level, NEW d \in Index(i)
      PROVE  buckets[i][SlotAt(i, d)] = {}
  BY TypeInit, SlotLies DEF Init
<1>2. \A e, p : ~InSlots(e, p)
  BY DEF Init, InSlots
<1> QED BY <1>1, <1>2 DEF Init, LateInv, LateSlots, AskedAfter, SubsDue

\* An entry that stays where it is, on its way as far as before.
LEMMA StaysOnTime ==
  ASSUME NEW i, NEW d, NEW e, OnTime(i, d, e),
         Emptying(i, d)' <=> Emptying(i, d), ~Emptying(i, d) => Waits(i, d)' = Waits(i, d),
         \A j \in Level : TickDue(j)' = TickDue(j), now' = now,
         asked'[e.timer] = asked[e.timer], e.timer \in nested' <=> e.timer \in nested
  PROVE  OnTime(i, d, e)'
<1>1. Lateness(e)' = Lateness(e)
  BY DEF Lateness
<1>2. CASE Emptying(i, d)
  BY <1>1, <1>2 DEF OnTime
<1>3. CASE ~Emptying(i, d)
  BY <1>1, <1>3 DEF OnTime
<1> QED BY <1>2, <1>3

\* A timer that is added: by a callback, perhaps into the slot that this tick has
\* emptied already.
LEMMA NewOnTime ==
  ASSUME TypeOK, KeptInv, ClockInv,
         NEW e \in Entry, e.added = cachedNow, asked'[e.timer] = now, now' = now,
         NEW i \in Level, NEW d \in Index(i), InSlot(e, cachedNow, i, SlotAt(i, d)),
         Turning => e.timer \in nested',
         Emptying(i, d)' <=> Emptying(i, d), Waits(i, d)' = Waits(i, d),
         \A j \in Level : TickDue(j)' = TickDue(j)
  PROVE  OnTime(i, d, e)'
<1>1. /\ now \in Nat /\ cachedNow \in Nat /\ cachedNow <= now
      /\ WheelClock <= now /\ WheelClock \in Nat
  <2>1. now \in Nat /\ cachedNow \in Nat /\ cachedNow <= now
    BY DEF TypeOK, KeptInv, EntriesPast
  <2> QED BY <2>1 DEF WheelClock
<1>2. e.interval \in Nat /\ e.interval < TimeCapacity(Top)
  <2>1. PICK c \in Nat : c = TimeCapacity(Top)
    BY LevelFacts, CapacityType
  <2>2. e.interval \in 0 .. c - 1
    BY <2>1, WheelAssumption DEF Entry
  <2> QED BY <2>1, <2>2
<1>3. PICK v \in Nat, n \in Nat, l \in Nat : v = e.interval /\ n = now /\ l = MaxLag
  BY <1>1, <1>2, ClockTypes
<1>4. PICK left \in Nat, h \in Level :
        /\ i = LevelFor(left) /\ h = LevelFor(e.interval)
        /\ Resolution[h] \in Nat /\ Resolution[i] <= Resolution[h]
        /\ d * Resolution[i] <= left + Resolution[1]
        /\ e.added + e.interval >= cachedNow => e.added + e.interval = cachedNow + left
  <2>1. e.added <= cachedNow
    BY <1>1
  <2> QED BY <1>1, <2>1, Filed
<1>5. left = v /\ h = i
  <2>1. cachedNow + v >= cachedNow
    BY <1>1
  <2>2. cachedNow + v = cachedNow + left
    BY <1>3, <1>4, <2>1
  <2>3. left = v
    BY <1>1, <2>2
  <2> QED BY <1>3, <1>4, <2>3
<1>6. PICK r1 \in Nat, r \in Nat, c \in Nat :
        /\ r1 = Resolution[1] /\ r = Resolution[i] /\ c = TimeCapacity(i) /\ r <= c
        /\ Lateness(e)' = r1 + (IF e.timer \in nested' THEN c ELSE r)
  <2>1. PICK g \in Level, r1 \in Nat, r \in Nat, c \in Nat :
          /\ g = LevelFor(e.interval) /\ r1 = Resolution[1] /\ r = Resolution[g]
          /\ c = TimeCapacity(g) /\ r <= c
          /\ Lateness(e)' = r1 + (IF e.timer \in nested' THEN c ELSE r)
    BY <1>2, LatenessIs
  <2>2. g = i
    BY <1>4, <1>5, <2>1
  <2> QED BY <2>1, <2>2
<1>7. PICK z \in Nat : z = Lateness(e)' /\ z >= r1 + r /\ (Turning => z = r1 + c)
  BY <1>6
<1>8. CASE Emptying(i, d)
  <2>1. n <= n + v + z + 2 * l
    OBVIOUS
  <2> QED BY <1>3, <1>7, <1>8, <2>1 DEF OnTime
<1>9. CASE ~Emptying(i, d)
  <2>1. PICK j \in Level : i <= j /\ TickDue(j) <= WheelClock + r
    BY <1>6 DEF ClockInv, Paced
  <2>2. PICK m \in Nat : m = TickDue(j) /\ m <= n + r
    <3>1. TickDue(j) \in Nat
      BY NowIs
    <3> QED BY <1>1, <1>3, <2>1, <3>1
  <2>3. PICK k \in Nat, q \in Nat :
          /\ k = Waits(i, d) * Resolution[i] /\ q = d * Resolution[i]
          /\ ~Turns(i) => k = q
          /\ Turns(i) /\ d # 0 => k + r = q
          /\ Turns(i) /\ d = 0 => k + r = c
    <3>1. PICK k \in Nat, q \in Nat, s \in Nat :
            /\ k = Waits(i, d) * Resolution[i] /\ q = d * Resolution[i] /\ s = Resolution[i]
            /\ ~Turns(i) => k = q
            /\ Turns(i) /\ d # 0 => k + s = q
            /\ Turns(i) /\ d = 0 => k + s = TimeCapacity(i)
      BY WaitsIs
    <3>2. s = r /\ c = TimeCapacity(i)
      BY <1>6, <3>1
    <3> QED BY <3>1, <3>2
  <2>4. q <= v + r1
    BY <1>4, <1>5, <1>6, <2>3
  <2>5. m + k <= n + v + z
    <3>1. CASE Turns(i) /\ d = 0
      <4>1. k + r = c /\ z = r1 + c
        BY <1>7, <2>3, <3>1 DEF Turns
      <4> QED BY <2>2, <4>1
    <3>2. CASE ~(Turns(i) /\ d = 0)
      <4>1. k <= q
        BY <1>6, <2>3, <3>2
      <4> QED BY <1>7, <2>2, <2>4, <4>1
    <3> QED BY <3>1, <3>2
  <2>6. i <= j /\ TickDue(j) + Waits(i, d) * Resolution[i] <= now + e.interval + Lateness(e)'
    BY <1>3, <1>7, <2>1, <2>2, <2>3, <2>5
  <2> QED BY <1>9, <2>6 DEF OnTime
<1> QED BY <1>8, <1>9

LEMMA NewLate ==
  ASSUME TypeOK, KeptInv, ClockInv, LateInv,
         NEW es \in NewEntries, buckets' = AddEntries(es, cachedNow), Ask(es),
         UNCHANGED <<clockVars, cursor, agenda, subs>>,
         nested' = nested \/ nested' = nested \cup TimersOf(es),
         agenda # <<>> => cachedNow = now /\ nested' = nested \cup TimersOf(es)
  PROVE  LateInv'
<1>1. /\ \A e, p : Lies(e, p) => asked'[e.timer] = asked[e.timer] /\ e.timer \notin TimersOf(es)
      /\ \A n \in es : /\ n \in Entry /\ n.timer \in Timer /\ n.added = cachedNow
                       /\ asked'[n.timer] = now
  BY NewLeaves
<1>2. /\ now \in Nat /\ cachedNow \in Nat /\ cachedNow <= now /\ now' = now
  BY DEF TypeOK, KeptInv, EntriesPast, clockVars
<1>3. \A j \in Level : TickDue(j)' = TickDue(j)
  BY DEF TickDue, clockVars
<1>4. \A i, d : (Emptying(i, d)' <=> Emptying(i, d)) /\ Waits(i, d)' = Waits(i, d)
  BY DEF Emptying, Waits, Turns, Turning, TickLevel, Left
<1>5. LateSlots'
  <2> SUFFICES ASSUME NEW i \in Level, NEW d \in Index(i), NEW e \in buckets'[i][SlotAt(i, d)]
               PROVE  OnTime(i, d, e)'
    BY DEF LateSlots, SlotAt
  <2>1. SlotAt(i, d) \in Index(i)
    BY SlotLies
  <2>2. CASE e \in buckets[i][SlotAt(i, d)]
    <3>1. Lies(e, <<i, SlotAt(i, d)>>)
      BY <2>2, SlotLies
    <3>2. asked'[e.timer] = asked[e.timer] /\ (e.timer \in nested' <=> e.timer \in nested)
      BY <1>1, <3>1
    <3>3. OnTime(i, d, e)
      BY <2>2 DEF LateInv, LateSlots
    <3> QED BY <1>2, <1>3, <1>4, <3>2, <3>3, StaysOnTime
  <2>3. CASE e \in es /\ InSlot(e, cachedNow, i, SlotAt(i, d))
    <3>1. e \in Entry /\ e.added = cachedNow /\ asked'[e.timer] = now
      BY <1>1, <2>3
    <3>2. Turning => e.timer \in nested'
      BY <2>3 DEF Turning, Left, TimersOf
    <3> QED BY <1>2, <1>3, <1>4, <2>3, <3>1, <3>2, NewOnTime
  <2> QED BY <2>1, <2>2, <2>3, AddedAre
<1>6. AskedAfter'
  <2> SUFFICES ASSUME NEW e, NEW p, InSlots(e, p)' \/ e \in subs
               PROVE  e.added <= asked'[e.timer]
    BY DEF AskedAfter
  <2>1. CASE e \in es
    BY <1>1, <1>2, <2>1
  <2>2. CASE InSlots(e, p) \/ e \in subs
    <3>1. \E q : Lies(e, q)
      BY <2>2 DEF Lies, InLists
    <3> QED BY <1>1, <2>2, <3>1 DEF LateInv, AskedAfter
  <2>3. InSlots(e, p)' => InSlots(e, p) \/ e \in es
    BY DEF AddEntries, InSlots
  <2> QED BY <2>1, <2>2, <2>3
<1>7. SubsDue'
  BY <1>2 DEF LateInv, SubsDue, Left
<1> QED BY <1>5, <1>6, <1>7 DEF LateInv

\* A tick begins: its levels' slots are one nearer, the current ones about to be emptied.
LEMMA TickLate ==
  ASSUME TypeOK, TypeOK', KeptInv, KeepsUp, ClockInv, LateInv, NEW t \in Level, OnLevelTick(t)
  PROVE  LateInv'
<1>1. /\ due[t] \in Nat
      /\ \A j \in Level : due[t] <= TickDue(j)
      /\ \A j \in Level : TickDue(j)' \in Nat
      /\ \A j \in Level : j # t => TickDue(j)' = TickDue(j)
      /\ \A i \in Level : i <= t => \E j \in Level :
           i <= j /\ TickDue(j)' <= due[t] + Resolution[i]
  BY TickTurns, ClockTypes DEF ClockInv
<1>2. /\ UNCHANGED <<now, cursor, buckets, pending, subs, asked, nested>> /\ ~Turning
  <2>1. agenda = <<>> /\ UNCHANGED <<now, cursor, buckets, pending, subs, asked, nested>>
    BY DEF OnLevelTick, Fire, entryVars, historyVars
  <2>2. ~Turning
    BY <2>1 DEF Turning, Left
  <2> QED BY <2>1, <2>2
<1>3. Turning' /\ TickLevel' = t /\ Left' = 2 * t + 4
  BY TickBegins
<1>4. ASSUME NEW i \in Level, NEW d \in Index(i), NEW e \in buckets[i][SlotAt(i, d)]
      PROVE  OnTime(i, d, e)'
  <2>0. Lies(e, <<i, SlotAt(i, d)>>) /\ SlotAt(i, d) \in Index(i) /\ d \in Nat
    BY SlotLies
  <2>1. PICK a \in Nat : /\ a = asked[e.timer] + e.interval + Lateness(e)
                         /\ asked'[e.timer] + e.interval + Lateness(e)' = a
    <3>1. asked[e.timer] \in Nat /\ e.interval \in Nat /\ e.interval < TimeCapacity(Top)
      BY <2>0, LiesFacts
    <3>2. Lateness(e) \in Nat
      BY <3>1, LatenessIs
    <3>3. Lateness(e)' = Lateness(e)
      BY <1>2 DEF Lateness
    <3> QED BY <1>2, <3>1, <3>2, <3>3
  <2>2. now <= a + 2 * MaxLag
    BY <2>0, <2>1, LateIs DEF NotTooLate
  <2>3. ~Emptying(i, d) /\ ~Turns(i) /\ OnTime(i, d, e)
    BY <1>2 DEF Emptying, Turns, LateInv, LateSlots
  <2>4. PICK k \in Nat, n \in Nat, r \in Nat :
          k = Waits(i, d) * Resolution[i] /\ n = d * Resolution[i] /\ r = Resolution[i] /\ k = n
    BY <2>3, WaitsIs
  <2>5. PICK j \in Level, m \in Nat : i <= j /\ m = TickDue(j) /\ m + n <= a
    <3>1. PICK j \in Level : i <= j /\ TickDue(j) + k <= a
      BY <2>1, <2>3, <2>4 DEF OnTime
    <3>2. TickDue(j) \in Nat
      BY NowIs
    <3> QED BY <2>4, <3>1, <3>2
  <2>6. CASE i <= t /\ d = 0
    <3>1. 2 * t + 4 >= 2 * i + 4
      <4>1. i \in Nat /\ t \in Nat
        BY LevelTimes
      <4> QED BY <2>6, <4>1
    <3>2. Emptying(i, d)'
      BY <1>3, <2>6, <3>1 DEF Emptying, Turns
    <3> QED BY <1>2, <2>1, <2>2, <3>2 DEF OnTime
  <2>7. CASE i <= t /\ d # 0
    <3>1. ~Emptying(i, d)' /\ Waits(i, d)' = d - 1
      BY <1>3, <2>7 DEF Emptying, Turns, Waits
    <3>2. PICK f \in Nat : f = d - 1 /\ d = f + 1
      BY <2>0, <2>7
    <3>3. f * r + r = n /\ f * r \in Nat
      BY <2>4, <3>2, TimesOneMore
    <3>4. PICK g \in Level : i <= g /\ TickDue(g)' <= due[t] + r
      BY <1>1, <2>4, <2>7
    <3>5. PICK u \in Nat, b \in Nat : u = TickDue(g)' /\ b = due[t] /\ u <= b + r /\ b <= m
      BY <1>1, <2>5, <3>4
    <3>6. PICK q \in Nat : q = f * r /\ q + r = n
      BY <3>3
    <3>7. u + q <= a
      BY <2>5, <3>5, <3>6
    <3>8. TickDue(g)' + Waits(i, d)' * Resolution[i] <= a
      BY <2>4, <3>1, <3>2, <3>5, <3>6, <3>7
    <3> QED BY <2>1, <3>1, <3>4, <3>8 DEF OnTime
  <2>8. CASE ~(i <= t)
    <3>1. ~Emptying(i, d)' /\ Waits(i, d)' = d
      BY <1>3, <2>8 DEF Emptying, Turns, Waits
    <3>2. j # t
      BY <2>5, <2>8
    <3>3. TickDue(j)' + Waits(i, d)' * Resolution[i] <= a
      BY <1>1, <2>4, <2>5, <3>1, <3>2
    <3> QED BY <2>1, <2>5, <3>1, <3>3 DEF OnTime
  <2> QED BY <2>6, <2>7, <2>8
<1>5. LateSlots'
  BY <1>2, <1>4 DEF LateSlots, SlotAt
<1>6. AskedAfter'
  BY <1>2 DEF LateInv, AskedAfter, InSlots
<1>7. SubsDue'
  <2>1. 2 * t + 4 >= 2
    BY LevelTimes
  <2> QED BY <1>2, <1>3, <2>1 DEF LateInv, SubsDue
<1> QED BY <1>5, <1>6, <1>7 DEF LateInv

LEMMA ProcessLate ==
  ASSUME TypeOK, KeptInv, ClockInv, LateInv, Process
  PROVE  LateInv'
<1>0. PICK r \in Nat : r = Resolution[1] /\ 1 \in Level /\ r > 0
  BY LevelFacts, ClockTypes
<1>1. /\ agenda # <<>> /\ Does("process") /\ Done
      /\ UNCHANGED <<now, due, tickCounter, cursor, asked, nested>> /\ cachedNow' = now
  BY DEF Process, Does, historyVars
<1>2. PICK i \in Level : i = Head(agenda).level
  BY <1>1, HeadType
<1>3. Turning /\ Left = 2 * i + 4 /\ Left # 4 /\ i \in Nat
  <2>1. Turning /\ Left = 2 * i + 4
    BY <1>1, <1>2, HeadIs DEF ClockInv
  <2>2. i \in Nat /\ i > 0
    BY LevelTimes
  <2> QED BY <2>1, <2>2
<1>4. Turning' /\ TickLevel' = TickLevel /\ Left' = Left - 1
  BY <1>1, <1>3, DoneIs DEF ClockInv
<1>5. \A j \in Level : TickDue(j)' = TickDue(j)
  BY <1>1 DEF TickDue
<1>6. PICK x \in Index(i) : x = SlotAt(i, 0)
  BY CurrentSlot
<1>7. PICK toRun :
        /\ toRun = IF i = 1 THEN buckets[i][x] ELSE {e \in buckets[i][x] : Soon(e)}
        /\ subs' = subs \cup (buckets[i][x] \ toRun)
        /\ buckets' = [buckets EXCEPT ![i][x] = {}]
  BY <1>2, <1>6 DEF Process
<1>8. /\ \A k \in Level : \A y \in Index(k) : buckets'[k][y] \subseteq buckets[k][y]
      /\ buckets'[i][x] = {}
  BY <1>7 DEF TypeOK
<1>9. LateSlots'
  <2> SUFFICES ASSUME NEW k \in Level, NEW d \in Index(k), NEW e \in buckets'[k][SlotAt(k, d)]
               PROVE  OnTime(k, d, e)'
    BY <1>1 DEF LateSlots, SlotAt
  <2>1. ~(k = i /\ d = 0)
    BY <1>6, <1>8
  <2>2. e \in buckets[k][SlotAt(k, d)] /\ OnTime(k, d, e)
    <3>1. e \in buckets[k][SlotAt(k, d)]
      BY <1>8, SlotLies
    <3> QED BY <3>1 DEF LateInv, LateSlots
  <2>3. d = 0 => (Left - 1 >= 2 * k + 4 <=> Left >= 2 * k + 4)
    <3>1. k \in Nat
      BY LevelTimes
    <3>2. CASE k = i
      BY <2>1, <3>2
    <3>3. CASE k < i
      BY <1>3, <3>1, <3>3
    <3>4. CASE k > i
      BY <1>3, <3>1, <3>4
    <3> QED BY <1>3, <3>1, <3>2, <3>3, <3>4
  <2>4. (Emptying(k, d)' <=> Emptying(k, d)) /\ Waits(k, d)' = Waits(k, d)
    BY <1>3, <1>4, <2>3 DEF Emptying, Waits, Turns
  <2> QED BY <1>1, <1>5, <2>2, <2>4, StaysOnTime
<1>10. ASSUME NEW e \in buckets[i][x] \ toRun
       PROVE  /\ InSlots(e, <<i, x>>) /\ e.added + e.interval > now
  <2>1. InSlots(e, <<i, x>>)
    BY DEF InSlots
  <2>2. i # 1 /\ ~(2 * RemainingTime(e, now) < r)
    BY <1>0, <1>7 DEF Soon
  <2>3. PICK a \in Nat, n \in Nat : a = e.added + e.interval /\ n = now
    <3>1. Lies(e, <<i, x>>)
      BY <2>1 DEF Lies
    <3>2. e.added \in Nat /\ e.interval \in Nat
      BY <3>1, LiesFacts
    <3>3. e.added + e.interval \in Nat /\ now \in Nat
      BY <3>2 DEF TypeOK
    <3> QED BY <3>3
  <2>4. ~(a <= n)
    BY <1>0, <2>2, <2>3 DEF RemainingTime
  <2> QED BY <2>1, <2>3, <2>4
<1>11. AskedAfter'
  <2> SUFFICES ASSUME NEW e, NEW p, InSlots(e, p)' \/ e \in subs'
               PROVE  e.added <= asked[e.timer]
    BY <1>1 DEF AskedAfter
  <2>1. InSlots(e, p)' => InSlots(e, p)
    BY <1>8 DEF InSlots
  <2>2. e \in subs' => e \in subs \/ InSlots(e, <<i, x>>)
    BY <1>7, <1>10
  <2> QED BY <2>1, <2>2 DEF LateInv, AskedAfter
<1>12. SubsDue'
  <2>1. Left' >= 2
    BY <1>3, <1>4
  <2> QED BY <1>1, <1>7, <1>10, <2>1 DEF LateInv, SubsDue
<1> QED BY <1>9, <1>11, <1>12 DEF LateInv

\* Steps that move no entry and no level.
LEMMA StillLate ==
  ASSUME TypeOK, LateInv, UNCHANGED <<now, cursor, buckets, subs, asked, nested>>,
         \A i \in Level : \A d : Emptying(i, d)' <=> Emptying(i, d),
         \A i, d : Waits(i, d)' = Waits(i, d),
         \A j \in Level : TickDue(j)' = TickDue(j), Left >= 2 => Left' >= 2
  PROVE  LateInv'
<1>1. LateSlots'
  <2> SUFFICES ASSUME NEW i \in Level, NEW d \in Index(i), NEW e \in buckets[i][SlotAt(i, d)]
               PROVE  OnTime(i, d, e)'
    BY DEF LateSlots, SlotAt
  <2>1. OnTime(i, d, e)
    BY DEF LateInv, LateSlots
  <2> QED BY <2>1, StaysOnTime
<1>2. AskedAfter' /\ SubsDue'
  BY DEF LateInv, AskedAfter, SubsDue, InSlots
<1> QED BY <1>1, <1>2 DEF LateInv

LEMMA PassTimeLate ==
  ASSUME TypeOK, KeptInv, ClockInv, LateInv, PassTime
  PROVE  LateInv'
<1>1. /\ agenda = <<>> /\ subs' = subs
      /\ UNCHANGED <<agenda, cursor, buckets, asked, nested, due, tickCounter>>
  BY DEF PassTime, entryVars, historyVars
<1>2. subs = {}
  <2>1. ~(Left >= 2)
    BY <1>1 DEF Left
  <2> QED BY <2>1 DEF LateInv, SubsDue
<1>3. ~Turning /\ ~Turning'
  BY <1>1 DEF Turning, Left
<1>4. ASSUME NEW i \in Level, NEW d \in Index(i), NEW e \in buckets[i][SlotAt(i, d)]
      PROVE  OnTime(i, d, e)'
  <2>1. OnTime(i, d, e)
    BY DEF LateInv, LateSlots
  <2>2. ~Emptying(i, d) /\ ~Emptying(i, d)' /\ Waits(i, d)' = Waits(i, d)
    BY <1>3 DEF Emptying, Waits, Turns
  <2>3. /\ \A j \in Level : TickDue(j)' = TickDue(j)
        /\ Lateness(e)' = Lateness(e)
    BY <1>1 DEF TickDue, Lateness
  <2> QED BY <1>1, <2>1, <2>2, <2>3 DEF OnTime
<1>5. LateSlots'
  BY <1>1, <1>4 DEF LateSlots, SlotAt
<1>6. AskedAfter' /\ SubsDue'
  BY <1>1, <1>2 DEF LateInv, AskedAfter, SubsDue, InSlots
<1> QED BY <1>5, <1>6 DEF LateInv

LEMMA AdvanceLate ==
  ASSUME TypeOK, KeptInv, ClockInv, LateInv, Advance
  PROVE  LateInv'
<1>1. /\ Turning /\ Left = 4 /\ ~Turning' /\ UNCHANGED <<now, buckets, subs, asked, nested>>
      /\ \A j \in Level : TickDue(j)' = TickDue(j)
      /\ \A i \in Level : \A d \in Index(i) :
           SlotAt(i, d)' = IF i <= TickLevel
                           THEN SlotAt(i, IF d + 1 < Slots[i] THEN d + 1 ELSE 0)
                           ELSE SlotAt(i, d)
  BY Turned DEF entryVars, historyVars
<1>2. Left' = 3
  <2>1. agenda # <<>> /\ Done /\ cachedNow' = now /\ now' = now
    <3>1. Does("advance") /\ Done /\ cachedNow' = cachedNow /\ now' = now /\ agenda # <<>>
      BY DEF Advance, Does, clockVars
    <3> QED BY <3>1, HeadIs DEF ClockInv
  <2> QED BY <1>1, <2>1, DoneIs DEF ClockInv
<1>3. ASSUME NEW i \in Level, NEW d \in Index(i), NEW e \in buckets[i][SlotAt(i, d)']
      PROVE  OnTime(i, d, e)'
  <2>1. PICK n \in Nat : n = Slots[i] /\ n >= 2 /\ d \in Nat /\ d < n /\ i \in Nat /\ i >= 1
    BY LevelTimes DEF Index
  <2>2. PICK f \in Index(i) :
          /\ SlotAt(i, d)' = SlotAt(i, f)
          /\ f = IF i <= TickLevel THEN (IF d + 1 < n THEN d + 1 ELSE 0) ELSE d
    <3>1. (IF i <= TickLevel THEN (IF d + 1 < n THEN d + 1 ELSE 0) ELSE d) \in Index(i)
      BY <2>1 DEF Index
    <3> QED BY <1>1, <2>1, <3>1
  <2>3. Waits(i, f) = d
    BY <1>1, <2>1, <2>2 DEF Waits, Turns
  <2>4. ~Emptying(i, f)
    BY <1>1, <2>1 DEF Emptying
  <2>5. ~Emptying(i, d)' /\ Waits(i, d)' = d
    BY <1>1 DEF Emptying, Waits, Turns
  <2>6. OnTime(i, f, e)
    BY <2>2 DEF LateInv, LateSlots
  <2>7. Lateness(e)' = Lateness(e)
    BY <1>1 DEF Lateness
  <2> QED BY <1>1, <2>3, <2>4, <2>5, <2>6, <2>7 DEF OnTime
<1>4. LateSlots'
  BY <1>1, <1>3 DEF LateSlots
<1>5. AskedAfter' /\ SubsDue'
  BY <1>1, <1>2 DEF LateInv, AskedAfter, SubsDue, InSlots
<1> QED BY <1>4, <1>5 DEF LateInv

LEMMA RefileLate ==
  ASSUME TypeOK, KeptInv, ClockInv, LateInv, Refile
  PROVE  LateInv'
<1>1. /\ ~Turning' /\ ~Turning /\ agenda # <<>> /\ subs' = {}
      /\ UNCHANGED <<now, cursor>> /\ now \in Nat
      /\ \A j \in Level : TickDue(j)' = TickDue(j)
      /\ buckets' = AddEntries(Refiled, now)
      /\ \A e, p : Lies(e, p) /\ p # <<0, 3>> =>
           asked'[e.timer] = asked[e.timer] /\ (e.timer \in nested' <=> e.timer \in nested)
  BY RefiledIs DEF TypeOK
<1>2. \A i, d : ~Emptying(i, d) /\ ~Emptying(i, d)' /\ Waits(i, d) = d /\ Waits(i, d)' = d
  BY <1>1 DEF Emptying, Waits, Turns
<1>3. ASSUME NEW e \in Refiled
      PROVE  /\ e \in Entry /\ e.added \in Nat /\ e.added <= now /\ e.interval \in Nat
             /\ asked'[e.timer] \in Nat /\ e.added <= asked'[e.timer]
             /\ e.added + e.interval >= now
  <2>1. /\ e \in Entry /\ e.timer \in Timer /\ e.added \in Nat /\ e.interval \in Nat
        /\ e.added <= now
        /\ \/ e \in subs /\ Lies(e, <<0, 2>>)
           \/ e.added = now /\ asked'[e.timer] = now
    BY RefiledIs
  <2>2. CASE e \in subs /\ Lies(e, <<0, 2>>)
    <3>1. asked'[e.timer] = asked[e.timer] /\ asked[e.timer] \in Nat
      BY <1>1, <2>2, LiesFacts
    <3>2. e.added <= asked[e.timer]
      BY <2>2 DEF LateInv, AskedAfter
    <3>3. e.added + e.interval > now
      BY <2>2 DEF LateInv, SubsDue
    <3>4. e.added + e.interval \in Nat
      BY <2>1
    <3> QED BY <1>1, <2>1, <3>1, <3>2, <3>3, <3>4
  <2>3. CASE e.added = now /\ asked'[e.timer] = now
    <3>1. now <= now /\ now + e.interval >= now
      BY <1>1, <2>1
    <3> QED BY <1>1, <2>1, <2>3, <3>1
  <2> QED BY <2>1, <2>2, <2>3
<1>4. ASSUME NEW e, NEW i \in Level, NEW x \in Index(i), e \in buckets[i][x]
      PROVE  asked'[e.timer] = asked[e.timer] /\ (e.timer \in nested' <=> e.timer \in nested)
  <2>1. <<i, x>> # <<0, 3>>
    BY LevelTimes
  <2>2. Lies(e, <<i, x>>)
    BY <1>4 DEF Lies, InSlots
  <2> QED BY <1>1, <2>1, <2>2
<1>5. LateSlots'
  <2> SUFFICES ASSUME NEW i \in Level, NEW d \in Index(i), NEW e \in buckets'[i][SlotAt(i, d)]
               PROVE  OnTime(i, d, e)'
    BY <1>1 DEF LateSlots, SlotAt
  <2>1. SlotAt(i, d) \in Index(i)
    BY SlotLies
  <2>2. CASE e \in buckets[i][SlotAt(i, d)]
    <3>1. OnTime(i, d, e)
      BY <2>2 DEF LateInv, LateSlots
    <3>2. asked'[e.timer] = asked[e.timer] /\ (e.timer \in nested' <=> e.timer \in nested)
      BY <1>4, <2>1, <2>2
    <3> QED BY <1>1, <1>2, <3>1, <3>2, StaysOnTime
  <2>3. CASE e \in Refiled /\ InSlot(e, now, i, SlotAt(i, d))
    <3>1. PICK left \in Nat, h \in Level :
            /\ h = LevelFor(e.interval)
            /\ Resolution[h] \in Nat /\ Resolution[i] <= Resolution[h]
            /\ d * Resolution[i] \in Nat /\ d * Resolution[i] <= left + Resolution[1]
            /\ e.added + e.interval >= now => e.added + e.interval = now + left
      BY <1>1, <1>3, <2>3, Filed
    <3>2. PICK r1 \in Nat, r \in Nat, q \in Nat, s \in Nat, n \in Nat :
            /\ r1 = Resolution[1] /\ r = Resolution[i] /\ q = d * Resolution[i]
            /\ s = Resolution[h] /\ n = now
            /\ r <= s /\ q <= left + r1
      BY <1>1, <3>1, ClockTypes
    <3>3. PICK a \in Nat, b \in Nat, v \in Nat :
            /\ a = asked'[e.timer] /\ b = e.added /\ v = e.interval
            /\ b <= a /\ b + v = n + left
      BY <1>3, <2>3, <3>1, <3>2
    <3>4. PICK z \in Nat : z = Lateness(e)' /\ z >= r1 + s
      <4>1. e.interval < TimeCapacity(Top)
        <5>1. PICK c \in Nat : c = TimeCapacity(Top)
          BY LevelFacts, CapacityType
        <5>2. e.interval \in 0 .. c - 1
          BY <1>3, <2>3, <5>1, WheelAssumption DEF Entry
        <5> QED BY <5>1, <5>2
      <4>2. PICK g \in Level, u1 \in Nat, u \in Nat, c \in Nat :
              /\ g = LevelFor(e.interval) /\ u1 = Resolution[1] /\ u = Resolution[g]
              /\ c = TimeCapacity(g) /\ u <= c
              /\ Lateness(e)' = u1 + (IF e.timer \in nested' THEN c ELSE u)
        BY <3>3, <4>1, LatenessIs
      <4>3. u = s /\ u1 = r1
        BY <3>1, <3>2, <4>2
      <4> QED BY <4>2, <4>3
    <3>5. PICK j \in Level, m \in Nat : i <= j /\ m = TickDue(j) /\ m <= n + r
      <4>1. PICK j \in Level : i <= j /\ TickDue(j) <= now + Resolution[i]
        BY <1>1 DEF ClockInv, Paced, WheelClock
      <4>2. TickDue(j) \in Nat
        BY NowIs
      <4> QED BY <3>2, <4>1, <4>2
    <3>6. m + q <= a + v + z
      BY <3>2, <3>3, <3>4, <3>5
    <3>7. TickDue(j)' + Waits(i, d)' * Resolution[i]
            <= asked'[e.timer] + e.interval + Lateness(e)'
      BY <1>1, <1>2, <3>2, <3>3, <3>4, <3>5, <3>6
    <3> QED BY <1>2, <3>5, <3>7 DEF OnTime
  <2>4. e \in buckets[i][SlotAt(i, d)] \/ (e \in Refiled /\ InSlot(e, now, i, SlotAt(i, d)))
    BY <1>1, <2>1, AddedAre
  <2> QED BY <2>2, <2>3, <2>4
<1>6. AskedAfter'
  <2> SUFFICES ASSUME NEW e, NEW i \in Level, NEW x \in Index(i), e \in buckets'[i][x]
               PROVE  e.added <= asked'[e.timer]
    BY <1>1 DEF AskedAfter, InSlots
  <2>1. CASE e \in buckets[i][x]
    <3>1. InSlots(e, <<i, x>>)
      BY <2>1 DEF InSlots
    <3> QED BY <1>4, <2>1, <3>1 DEF LateInv, AskedAfter
  <2>2. CASE e \in Refiled
    BY <1>3, <2>2
  <2> QED BY <1>1, <2>1, <2>2, AddedAre
<1>7. SubsDue'
  BY <1>1 DEF SubsDue
<1> QED BY <1>5, <1>6, <1>7 DEF LateInv

LEMMA LateStep ==
  ASSUME TypeOK, KeptInv, KeepsUp, ClockInv, LateInv, [Next]_vars
  PROVE  LateInv'
<1>0. TypeOK'
  BY TypeStep
<1>1. CASE PassTime
  BY <1>1, PassTimeLate
<1>2. ASSUME NEW i \in Level, Skip(i)
      PROVE  LateInv'
  <2>1. UNCHANGED <<cursor, buckets, subs, asked, nested, agenda, now>>
    BY <1>2 DEF Skip, entryVars, historyVars
  <2>2. \A j \in Level : TickDue(j)' = TickDue(j)
    BY <1>2, SkipKeeps DEF ClockInv
  <2> QED BY <2>1, <2>2, StillLate DEF Emptying, Waits, Turns, Turning, TickLevel, Left
<1>3. CASE UNCHANGED vars
  <2>1. UNCHANGED <<cursor, buckets, subs, asked, nested, agenda, now, due, tickCounter>>
    BY <1>3 DEF vars, clockVars, entryVars, historyVars
  <2>2. \A j \in Level : TickDue(j)' = TickDue(j)
    BY <2>1 DEF TickDue
  <2> QED BY <2>1, <2>2, StillLate DEF Emptying, Waits, Turns, Turning, TickLevel, Left
<1>4. CASE ExecutedAll
  <2>1. /\ UNCHANGED <<cursor, buckets, subs, asked, nested, now, cachedNow, due, tickCounter>>
        /\ agenda # <<>> /\ Done /\ Does("execute")
    BY <1>4 DEF ExecutedAll, Does, clockVars, entryVars, historyVars
  <2>2. Left \in Nat /\ Left % 2 = 1 /\ cachedNow = now
    BY <2>1, HeadIs DEF ClockInv
  <2>3. Left # 4 /\ (Left >= 2 => Left - 1 >= 2)
    BY <2>2
  <2>4. Left' = Left - 1 /\ (Turning' <=> Turning) /\ (Turning' => TickLevel' = TickLevel)
    BY <2>1, <2>2, <2>3, DoneIs DEF ClockInv
  <2>5. \A j \in Level : TickDue(j)' = TickDue(j)
    BY <2>1 DEF TickDue
  <2>6. \A i : Turns(i)' <=> Turns(i)
    BY <2>4 DEF Turns
  <2>7. \A i \in Level : Left - 1 >= 2 * i + 4 <=> Left >= 2 * i + 4
    <3> SUFFICES ASSUME NEW i \in Level
                 PROVE  Left # 2 * i + 4 /\ i \in Nat
      BY <2>2
    <3>1. PICK k \in Nat : k = i
      BY LevelTimes
    <3> QED BY <2>2, <3>1
  <2>8. /\ \A i \in Level : \A d : Emptying(i, d)' <=> Emptying(i, d)
        /\ \A i, d : Waits(i, d)' = Waits(i, d)
    BY <2>4, <2>6, <2>7 DEF Emptying, Waits
  <2> QED BY <2>1, <2>3, <2>4, <2>5, <2>8, StillLate
<1>5. CASE Add
  <2>1. PICK es \in NewEntries : buckets' = AddEntries(es, cachedNow) /\ Ask(es)
    BY <1>5 DEF Add
  <2>2. /\ UNCHANGED <<clockVars, cursor, agenda, subs>> /\ nested' = nested
        /\ agenda = <<>>
    BY <1>5 DEF Add
  <2> QED BY <2>1, <2>2, NewLate
<1>6. ASSUME NEW e \in pending, Execute(e)
      PROVE  LateInv'
  <2>1. PICK es \in NewEntries : /\ buckets' = AddEntries(es, cachedNow) /\ Ask(es)
                                 /\ nested' = nested \cup TimersOf(es)
    BY <1>6 DEF Execute
  <2>2. /\ UNCHANGED <<clockVars, cursor, agenda, subs>>
        /\ Does("execute") /\ agenda # <<>>
    BY <1>6 DEF Execute, Does
  <2>3. cachedNow = now
    BY <2>2, HeadIs DEF ClockInv
  <2> QED BY <2>1, <2>2, <2>3, NewLate
<1>7. CASE \E i \in Level : OnLevelTick(i)
  BY <1>0, <1>7, TickLate
<1>8. CASE Process
  BY <1>8, ProcessLate
<1>9. CASE Advance
  BY <1>9, AdvanceLate
<1>10. CASE Refile
  BY <1>10, RefileLate
<1> QED BY <1>1, <1>2, <1>3, <1>4, <1>5, <1>6, <1>7, <1>8, <1>9, <1>10 DEF Next, TickStep

\* While the loop lags by no more than a slot of the lowest level, every timer runs
\* soon after its time: by a slot of its level and one of the lowest, or by the level's
\* whole turn if a callback asked for it (addEntry, getSlotIdx, onLevelTick,
\* processBucketN, advanceBuckets, addSubEntries).
THEOREM NothingRunsLate == ASSUME KeepsUp PROVE Spec => []NotTooLate
<1>1. TypeOK /\ KeptInv /\ ClockInv /\ LateInv => NotTooLate
  BY LateIs
<1>2. Init => TypeOK /\ KeptInv /\ ClockInv /\ LateInv
  BY TypeInit, KeptInit, ClockInit, LateInit
<1>3. TypeOK /\ KeptInv /\ ClockInv /\ LateInv /\ [Next]_vars
        => (TypeOK /\ KeptInv /\ ClockInv /\ LateInv)'
  BY TypeStep, KeptStep, ClockStep, LateStep
<1> QED BY <1>1, <1>2, <1>3, PTL DEF Spec
==============================================================================

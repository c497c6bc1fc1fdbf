--------------------------- MODULE ScheduleProofs ---------------------------
(* Proofs about CaptureSchedule, for any agents, times and bounds.          *)
EXTENDS CaptureSchedule, TLAPS

\* Sleep leaves the thread with nothing to start.
LEMMA TypeSleep ==
    ASSUME ScheduleTypeOK, NEW rest \in Int, Sleep(rest)
    PROVE  /\ thread' = "sleeping" /\ wake' \in Nat /\ now' = 0 /\ due' = {} /\ toStart' = {}
           /\ Time \subseteq Nat /\ clock \in Nat
BY ScheduleAssumption DEF ScheduleTypeOK, Sleep, Time

\* A restart and a failed tick are counted.
LEMMA TypeFault ==
    ASSUME ScheduleTypeOK, Interruption
    PROVE  interruptions' \in 0..MaxInterruptions /\ interruptions' # 0
BY ScheduleAssumption DEF ScheduleTypeOK, Interruption

\* Every step keeps the types.
LEMMA TypeStep ==
    ASSUME ScheduleTypeOK, [ScheduleNext]_scheduler
    PROVE  ScheduleTypeOK'
<1>0. Time \subseteq Nat /\ 0 \in Time /\ clock \in Nat
  BY ScheduleAssumption DEF ScheduleTypeOK, Time
<1>1. CASE UNCHANGED scheduler
  BY <1>1 DEF ScheduleTypeOK, scheduler, tickVars
<1>2. CASE TickIdle
  BY <1>0, <1>2, TypeSleep, ScheduleAssumption DEF TickIdle, ScheduleTypeOK
<1>3. ASSUME NEW online \in SUBSET Agents, TickDue(online)
      PROVE  ScheduleTypeOK'
  BY <1>0, <1>3 DEF TickDue, ScheduleTypeOK, DueSlots
<1>4. ASSUME NEW a \in Agents, StartAgent(a)
      PROVE  ScheduleTypeOK'
  <2>1. starts' \in [Time -> [Agents -> Nat]]
    <3>1. \A slot \in Time : [starts[slot] EXCEPT ![a] = starts[slot][a] + 1] \in [Agents -> Nat]
      BY DEF ScheduleTypeOK
    <3> QED
      BY <1>4, <3>1 DEF StartAgent, ScheduleTypeOK
  <2> QED
    BY <1>4, <2>1 DEF StartAgent, ScheduleTypeOK
<1>5. CASE TickDone
  <2>1. now + MaxWork - clock \in Int
    BY <1>0, ScheduleAssumption DEF ScheduleTypeOK
  <2> QED
    BY <1>0, <1>5, <2>1, TypeSleep DEF TickDone, ScheduleTypeOK
<1>6. CASE TickFails
  BY <1>0, <1>6, TypeSleep, TypeFault DEF TickFails, ScheduleTypeOK
<1>7. CASE AppRestarts
  <2>1. wake' \in Nat /\ calm' \in Nat
    BY <1>0, <1>7, ScheduleAssumption DEF AppRestarts
  <2> QED
    BY <1>0, <1>7, <2>1, TypeFault DEF AppRestarts, ScheduleTypeOK
<1>8. CASE TimePasses
  <2>1. clock' \in Time
    BY <1>0, <1>8, ScheduleAssumption DEF TimePasses, Time
  <2>2. now' \in Time /\ now' <= clock'
    BY <1>0, <1>8 DEF TimePasses, ScheduleTypeOK, tickVars
  <2> QED
    BY <1>8, <2>1, <2>2 DEF TimePasses, ScheduleTypeOK, tickVars
<1>9. ASSUME NEW new \in SUBSET TimesOfDay, SetSchedule(new)
      PROVE  ScheduleTypeOK'
  <2>1. edits' \in 0..MaxEdits
    BY <1>9, ScheduleAssumption DEF SetSchedule, ScheduleTypeOK
  <2> QED
    BY <1>0, <1>9, <2>1 DEF SetSchedule, ScheduleTypeOK, tickVars
<1> QED
  BY <1>1, <1>2, <1>3, <1>4, <1>5, <1>6, <1>7, <1>8, <1>9 DEF ScheduleNext

\* The application starts before any tick.
LEMMA TypeInit == ScheduleInit => ScheduleTypeOK
BY ScheduleAssumption DEF ScheduleInit, ScheduleTypeOK, Time

\* The clock, the schedule and the thread stay what the program can make them.
THEOREM ScheduleTypes == ScheduleSpec => []ScheduleTypeOK
BY TypeInit, TypeStep, PTL DEF ScheduleSpec

-----------------------------------------------------------------------------
\* What a tick has started is due in it and no longer to do, and everything
\* started before lies in the past of the last trigger; what is due now lies
\* after it.
Past(slot) == slot <= last
StartedOnce ==
    interruptions = 0 =>
        /\ \A slot \in Time, a \in Agents :
            /\ starts[slot][a] <= 1
            /\ starts[slot][a] = 0 \/ Past(slot) \/ (slot \in due /\ a \notin toStart)
        /\ \A slot \in due : last < slot /\ slot <= now

\* Every step keeps it: only a tick that fails or is interrupted forgets what it
\* has started, and those are counted.
LEMMA StartedOnceStep ==
    ASSUME ScheduleTypeOK, StartedOnce, [ScheduleNext]_scheduler
    PROVE  StartedOnce'
<1> USE DEF StartedOnce, Past
<1>0. Time \subseteq Int /\ last \in Int /\ now \in Int /\ due \subseteq Time
  BY DEF ScheduleTypeOK, Time, Never
<1>1. CASE UNCHANGED scheduler \/ TimePasses \/ \E new \in SUBSET TimesOfDay : SetSchedule(new)
  BY <1>1 DEF scheduler, tickVars, TimePasses, SetSchedule
<1>2. CASE TickIdle
  BY <1>2 DEF TickIdle, Sleep, ScheduleTypeOK
<1>3. ASSUME NEW online \in SUBSET Agents, TickDue(online)
      PROVE  StartedOnce'
  <2>1. due = {} /\ due' = DueSlots(clock) /\ UNCHANGED <<starts, last, interruptions>>
    BY <1>3 DEF TickDue, ScheduleTypeOK
  <2>2. \A slot \in due' : last' < slot /\ slot <= now'
    BY <1>3 DEF TickDue, DueSlots
  <2> QED
    BY <2>1, <2>2
<1>4. ASSUME NEW a \in Agents, StartAgent(a)
      PROVE  StartedOnce'
  <2>1. /\ a \in toStart /\ toStart' = toStart \ {a}
        /\ UNCHANGED <<due, last, now, interruptions>>
    BY <1>4 DEF StartAgent
  <2>2. ASSUME NEW slot \in Time, NEW b \in Agents
        PROVE  starts'[slot][b] = IF slot \in due /\ b = a THEN starts[slot][b] + 1 ELSE starts[slot][b]
    <3>1. starts[slot] \in [Agents -> Nat]
      BY DEF ScheduleTypeOK
    <3>2. starts'[slot] = IF slot \in due THEN [starts[slot] EXCEPT ![a] = starts[slot][a] + 1]
                          ELSE starts[slot]
      BY <1>4 DEF StartAgent
    <3> QED
      BY <3>1, <3>2
  <2>3. ASSUME interruptions = 0, NEW slot \in due, starts[slot][a] # 0
        PROVE  FALSE
    <3>1. slot \in Time /\ ~Past(slot)
      BY <1>0, <2>3
    <3> QED
      BY <2>1, <2>3, <3>1
  <2>4. \A slot \in Time, b \in Agents : starts[slot][b] \in Nat
    BY DEF ScheduleTypeOK
  <2> QED
    BY <2>1, <2>2, <2>3, <2>4
<1>5. CASE TickDone
  <2>1. due' = {} /\ last' = now /\ UNCHANGED <<starts, interruptions>>
    BY <1>5 DEF TickDone, Sleep
  <2>2. PICK slot \in due : TRUE
    BY <1>5 DEF TickDone, ScheduleTypeOK
  <2>3. interruptions = 0 => last <= now
    BY <1>0, <2>2
  <2> QED
    BY <1>0, <2>1, <2>3
<1>6. CASE TickFails \/ AppRestarts
  BY <1>6, TypeFault DEF TickFails, AppRestarts
<1> QED
  BY <1>1, <1>2, <1>3, <1>4, <1>5, <1>6 DEF ScheduleNext

\* Unless a tick failed or was interrupted, _run_due_schedules starts an agent
\* at most once for a slot, however the ticks, the grace period and the edits of
\* the schedule lie.
THEOREM StartedOncePerSlot == ScheduleSpec => []OncePerSlot
<1>1. ScheduleInit => StartedOnce
  BY DEF ScheduleInit, StartedOnce
<1>2. ScheduleTypeOK /\ StartedOnce /\ [ScheduleNext]_scheduler => ScheduleTypeOK' /\ StartedOnce'
  BY TypeStep, StartedOnceStep
<1>3. StartedOnce => OncePerSlot
  BY DEF StartedOnce, OncePerSlot
<1> QED
  BY <1>1, <1>2, <1>3, TypeInit, PTL DEF ScheduleSpec

-----------------------------------------------------------------------------
(* No slot is missed. *)

\* The slots SlotFires is about that no completed tick has handled yet.
Waiting(slot) ==
    /\ (slot % DayLength) \in times
    /\ (slot % DayLength) + Poll + MaxWork < DayLength
    /\ slot > calm /\ slot \notin handled

\* The thread's clocks: a sleep ends at most a poll interval after the tick or
\* after the application came back, and a tick takes at most MaxWork.
ThreadClock ==
    /\ last <= clock
    /\ thread = "sleeping" => clock <= wake /\ (wake <= clock + Poll + MaxWork \/ wake <= calm + Poll)
    /\ thread = "starting" => clock <= now + MaxWork

\* The tick that handles a waiting slot is still to come, soon enough, or it is
\* at work.
Caught(slot) ==
    /\ last < slot
    /\ thread = "sleeping" => wake <= slot + Poll + MaxWork
    /\ thread = "starting" => now <= slot + Poll + MaxWork /\ (now < slot \/ slot \in due)

SlotInv == ThreadClock /\ (Punctual => \A slot \in Time : Waiting(slot) => Caught(slot))

\* A number is its quotient's multiple and its remainder.
LEMMA Division ==
    ASSUME NEW a \in Nat, NEW d \in Nat \ {0}
    PROVE  /\ a \div d \in Nat /\ a % d \in 0..(d - 1)
           /\ a = d * (a \div d) + (a % d)
OBVIOUS

\* Quotient and remainder are determined.
LEMMA DivisionUnique ==
    ASSUME NEW d \in Nat \ {0}, NEW q \in Int, NEW p \in Int, NEW r \in 0..(d - 1), NEW u \in 0..(d - 1),
           d * q + r = d * p + u
    PROVE  q = p /\ r = u
<1>1. d * (q - p) = u - r
  BY Z3
<1>2. q - p \in Int
  OBVIOUS
<1>3. q - p >= 1 => d * (q - p) >= d
  BY <1>2, Z3
<1>4. q - p <= -1 => d * (q - p) <= -d
  BY <1>2, Z3
<1> QED
  BY <1>1, <1>2, <1>3, <1>4

\* A time that is not a day's length after another is later on the same day.
LEMMA SameDay ==
    ASSUME NEW d \in Nat \ {0}, NEW a \in Nat, NEW b \in Nat, a <= b, (a % d) + (b - a) < d
    PROVE  b % d = (a % d) + (b - a)
<1>1. a = d * (a \div d) + (a % d) /\ a % d \in 0..(d - 1) /\ a \div d \in Nat
  BY Division
<1>2. b = d * (b \div d) + (b % d) /\ b % d \in 0..(d - 1) /\ b \div d \in Nat
  BY Division
<1>3. (a % d) + (b - a) \in 0..(d - 1)
  BY <1>1
<1>4. d * (b \div d) + (b % d) = d * (a \div d) + ((a % d) + (b - a))
  <2>1. d * (a \div d) \in Int
    BY <1>1
  <2> QED
    BY <1>1, <1>2, <2>1
<1> QED
  BY <1>1, <1>2, <1>3, <1>4, DivisionUnique

\* A tick in time finds a waiting slot due: its day has not ended.
LEMMA WaitingIsDue ==
    ASSUME ScheduleTypeOK, Punctual, NEW slot \in Time, Waiting(slot), last < slot,
           slot <= clock, clock <= slot + Poll + MaxWork
    PROVE  slot \in DueSlots(clock)
<1>1. /\ slot \in Nat /\ clock \in Nat /\ Poll \in Nat /\ MaxWork \in Nat /\ Grace \in Nat
      /\ DayLength \in Nat \ {0} /\ Poll + MaxWork <= Grace
  BY ScheduleAssumption DEF ScheduleTypeOK, Time, Punctual
<1>2. slot % DayLength \in 0..(DayLength - 1)
  BY <1>1, Division
<1>3. clock % DayLength = (slot % DayLength) + (clock - slot)
  <2>1. (slot % DayLength) + (clock - slot) < DayLength
    BY <1>1, <1>2 DEF Waiting
  <2> QED
    BY ONLY <1>1, <2>1, slot <= clock, SameDay
<1>4. slot - Midnight(clock) = slot % DayLength
  BY <1>1, <1>2, <1>3 DEF Midnight
<1>5. clock - slot <= Grace
  BY <1>1
<1> QED
  BY <1>4, <1>5 DEF DueSlots, Waiting

\* Times are numbers.
LEMMA Numbers ==
    ASSUME ScheduleTypeOK
    PROVE  /\ Time \subseteq Nat /\ clock \in Nat /\ last \in Int /\ wake \in Nat /\ now \in Nat
           /\ now <= clock /\ calm \in Nat /\ Poll \in Nat /\ MaxWork \in Nat /\ Grace \in Nat
BY ScheduleAssumption DEF ScheduleTypeOK, Time, Never

\* The thread's steps and the passing of time keep its clocks.
LEMMA ClockStep ==
    ASSUME ScheduleTypeOK, ThreadClock, [ScheduleNext]_scheduler
    PROVE  ThreadClock'
<1> USE Numbers DEF ThreadClock
<1>1. CASE TickIdle
  BY <1>1 DEF TickIdle, Sleep
<1>2. CASE TickDone
  BY <1>2 DEF TickDone, Sleep
<1>3. CASE TickFails
  BY <1>3 DEF TickFails, Sleep
<1>4. ASSUME NEW online \in SUBSET Agents, TickDue(online)
      PROVE  ThreadClock'
  BY <1>4 DEF TickDue
<1>5. ASSUME NEW a \in Agents, StartAgent(a)
      PROVE  ThreadClock'
  BY <1>5 DEF StartAgent
<1>6. CASE AppRestarts
  BY <1>6 DEF AppRestarts
<1>7. ASSUME NEW new \in SUBSET TimesOfDay, SetSchedule(new)
      PROVE  ThreadClock'
  BY <1>7 DEF SetSchedule, tickVars
<1>8. CASE TimePasses
  BY <1>8 DEF TimePasses, tickVars, ScheduleTypeOK
<1>9. CASE UNCHANGED scheduler
  BY <1>9 DEF scheduler, tickVars
<1> QED
  BY <1>1, <1>2, <1>3, <1>4, <1>5, <1>6, <1>7, <1>8, <1>9 DEF ScheduleNext

\* A waiting slot stays caught.
LEMMA CaughtStep ==
    ASSUME ScheduleTypeOK, Punctual, SlotInv, [ScheduleNext]_scheduler, NEW slot \in Time, Waiting(slot)'
    PROVE  Caught(slot)'
<1>0. slot \in Nat /\ ThreadClock /\ (Waiting(slot) => Caught(slot))
  BY Numbers DEF SlotInv
<1>1. CASE TickIdle
  <2>1. Waiting(slot) /\ Caught(slot) /\ clock = wake /\ thread = "sleeping" /\ last' = last
        /\ thread' = "sleeping" /\ wake' <= clock + Poll + MaxWork /\ wake' \in Int
    BY <1>0, <1>1, Numbers DEF TickIdle, Sleep, Waiting
  <2>2. slot > clock
    BY <1>0, <1>1, <2>1, WaitingIsDue, Numbers DEF TickIdle, Caught
  <2> QED
    BY <1>0, <2>1, <2>2, Numbers DEF Caught
<1>2. ASSUME NEW online \in SUBSET Agents, TickDue(online)
      PROVE  Caught(slot)'
  <2>1. Waiting(slot) /\ Caught(slot) /\ clock = wake /\ thread = "sleeping" /\ last' = last
        /\ thread' = "starting" /\ now' = clock /\ due' = DueSlots(clock)
    BY <1>0, <1>2 DEF TickDue, Waiting
  <2>2. slot > clock \/ slot \in DueSlots(clock)
    BY <1>0, <2>1, WaitingIsDue, Numbers DEF Caught
  <2> QED
    BY <1>0, <2>1, <2>2, Numbers DEF Caught
<1>3. ASSUME NEW a \in Agents, StartAgent(a)
      PROVE  Caught(slot)'
  BY <1>0, <1>3 DEF StartAgent, Waiting, Caught
<1>4. CASE TickDone
  <2>1. Waiting(slot) /\ Caught(slot) /\ slot \notin due /\ thread = "starting" /\ last' = now
        /\ thread' = "sleeping" /\ wake' <= now + MaxWork + Poll /\ wake' \in Int
    BY <1>0, <1>4, Numbers DEF TickDone, Sleep, Waiting, ScheduleTypeOK
  <2> QED
    BY <1>0, <2>1, Numbers DEF Caught, ThreadClock
<1>5. CASE TickFails
  <2>1. calm' = clock /\ slot > calm' /\ last' = last /\ wake' = clock + Poll
        /\ thread' = "sleeping"
    BY <1>5, Numbers DEF TickFails, Sleep, Waiting
  <2> QED
    BY <1>0, <2>1, Numbers DEF Caught, ThreadClock
<1>6. CASE AppRestarts
  <2>1. \E up \in clock..(clock + Grace + 1) : wake' = up /\ calm' = up
    BY <1>6 DEF AppRestarts
  <2>2. slot > calm' /\ last' = last /\ thread' = "sleeping"
    BY <1>6 DEF AppRestarts, Waiting
  <2> QED
    BY <1>0, <2>1, <2>2, Numbers DEF Caught, ThreadClock
<1>7. ASSUME NEW new \in SUBSET TimesOfDay, SetSchedule(new)
      PROVE  Caught(slot)'
  <2>1. calm <= clock /\ slot > clock /\ UNCHANGED <<clock, last, thread, wake, now, due>>
    BY <1>7 DEF SetSchedule, tickVars, Waiting
  <2> QED
    BY <1>0, <2>1, Numbers DEF Caught, ThreadClock
<1>8. CASE TimePasses \/ UNCHANGED scheduler
  BY <1>0, <1>8 DEF TimePasses, scheduler, tickVars, Waiting, Caught
<1> QED
  BY <1>1, <1>2, <1>3, <1>4, <1>5, <1>6, <1>7, <1>8 DEF ScheduleNext

\* A scheduler that goes on polling misses no slot, but those a day ends too soon
\* after: SlotFires, whose hypothesis is that the grace period covers a poll and
\* the longest tick (scheduler.py:36-42).  The code bounds no tick.
THEOREM NoSlotMissed == ScheduleSpec => []SlotFires
<1>1. ScheduleInit => SlotInv
  BY ScheduleAssumption DEF ScheduleInit, SlotInv, ThreadClock, Waiting, Caught, Time, Never
<1>2. ScheduleTypeOK /\ SlotInv /\ [ScheduleNext]_scheduler => ScheduleTypeOK' /\ SlotInv'
  BY TypeStep, ClockStep, CaughtStep DEF SlotInv
<1>3. ScheduleTypeOK /\ SlotInv => SlotFires
  <2> SUFFICES ASSUME ScheduleTypeOK, SlotInv, Punctual, NEW slot \in Time, Waiting(slot),
                      clock > slot + Poll + 2 * MaxWork
               PROVE  FALSE
    BY DEF SlotFires, Fires, Waiting
  <2>1. ThreadClock /\ Caught(slot) /\ slot \in Nat
    BY Numbers DEF SlotInv
  <2>2. thread = "sleeping" \/ thread = "starting"
    BY DEF ScheduleTypeOK
  <2> QED
    BY <2>1, <2>2, Numbers DEF ThreadClock, Caught
<1> QED
  BY <1>1, <1>2, <1>3, TypeInit, PTL DEF ScheduleSpec

=============================================================================

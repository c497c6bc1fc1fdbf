-------------------------- MODULE CaptureSchedule --------------------------
(***************************************************************************)
(* The scheduler thread that starts a capture on every online agent of a   *)
(* project at its configured times of day (scheduler.py), the schedule an  *)
(* owner edits meanwhile (fleet/api.py), and an application that stops and *)
(* starts again.  The times of a tick are those of the code: one reading   *)
(* of the clock when it begins, a sleep of Poll when it has ended.         *)
(***************************************************************************)
EXTENDS Integers, FiniteSets

CONSTANTS
    Agents,     \* the project's agents
    DayLength,  \* the units of time in a day
    TimesOfDay, \* the times an owner may configure
    Poll,       \* _POLL_INTERVAL_S
    Grace,      \* _SLOT_GRACE_S
    MaxWork,    \* how long a tick may take: the agents of all projects are started
                \* one after the other, and each start may wait 15 s for its gateway
    MaxTime,    \* bound on the clock
    MaxInterruptions, \* bound on failed ticks and restarts
    MaxEdits    \* bound on the edits of the schedule

ASSUME ScheduleAssumption ==
    /\ DayLength \in Nat \ {0}
    /\ MaxTime \in Nat /\ MaxInterruptions \in Nat /\ MaxEdits \in Nat
    /\ TimesOfDay \subseteq 0..(DayLength - 1)
    /\ Poll \in Nat \ {0} /\ MaxWork \in Nat /\ Grace \in Nat

Time == 0..MaxTime
Never == -1     \* capture_schedule_last_triggered_at is NULL

VARIABLES
    clock,      \* the time
    times,      \* times_utc of an enabled schedule, {} when disabled or absent
    last,       \* capture_schedule_last_triggered_at
    thread,     \* the scheduler thread
    wake,       \* when its sleep ends
    now,        \* the clock as the tick has read it
    due,        \* the slots due in this tick
    toStart,    \* the online agents the tick has still to start
    starts,     \* how often a capture was started on an agent for a slot
    handled,    \* the slots of the ticks that completed
    calm,       \* since when no edit, failure or restart came in between
    interruptions, \* how many ticks have failed or may have been interrupted
    edits

tickVars == <<thread, wake, now, due, toStart>>
scheduler == <<clock, times, last, tickVars, starts, handled, calm, interruptions, edits>>

ScheduleTypeOK ==
    /\ clock \in Time
    /\ times \subseteq TimesOfDay
    /\ last \in Time \cup {Never}
    /\ thread \in {"sleeping", "starting"}
    /\ wake \in Nat /\ now \in Time /\ now <= clock
    /\ due \subseteq Time /\ (thread = "starting" <=> due # {})
    /\ toStart \subseteq Agents
    /\ starts \in [Time -> [Agents -> Nat]]
    /\ handled \subseteq Time
    /\ calm \in Nat
    /\ interruptions \in 0..MaxInterruptions /\ edits \in 0..MaxEdits

\* The application starts at some time of the first day.
ScheduleInit ==
    /\ clock \in Time /\ clock < DayLength
    /\ times \in SUBSET TimesOfDay
    /\ last = Never
    /\ thread = "sleeping" /\ wake = clock
    /\ now = 0 /\ due = {} /\ toStart = {}
    /\ starts = [slot \in Time |-> [a \in Agents |-> 0]]
    /\ handled = {} /\ calm = clock /\ interruptions = 0 /\ edits = 0

Interruption == interruptions < MaxInterruptions /\ interruptions' = interruptions + 1

Midnight(t) == t - (t % DayLength)

\* Bug: a slot is due until the grace period has passed.
DueSlotsAgain(t) ==
    {slot \in Time : slot - Midnight(t) \in times /\ slot <= t /\ t - slot <= Grace}

\* Bug: a slot is due only if the tick comes within one poll interval of it.
DueSlotsInTime(t) ==
    {slot \in Time : /\ slot - Midnight(t) \in times
                    /\ slot <= t /\ t - slot < Poll /\ last < slot}

\* _due_slot_today, for every entry of the schedule: today's slot has come, is
\* not older than the grace period, and was not triggered yet.
DueSlots(t) ==
    {slot \in Time : /\ slot - Midnight(t) \in times
                    /\ slot <= t /\ t - slot <= Grace /\ last < slot}

\* The tick may have other projects to serve still; _loop sleeps when it has ended.
Sleep(rest) ==
    /\ thread' = "sleeping"
    /\ wake' \in (clock + Poll)..(clock + Poll + rest)
    /\ now' = 0 /\ due' = {} /\ toStart' = {}

\* A tick with nothing due for the project.
TickIdle ==
    /\ thread = "sleeping" /\ clock = wake /\ DueSlots(clock) = {}
    /\ Sleep(MaxWork)
    /\ UNCHANGED <<clock, times, last, starts, handled, calm, interruptions, edits>>

\* A slot is due: the agents that are online now will be started.
TickDue(online) ==
    /\ thread = "sleeping" /\ clock = wake /\ DueSlots(clock) # {}
    /\ thread' = "starting" /\ now' = clock
    /\ due' = DueSlots(clock) /\ toStart' = online
    /\ UNCHANGED <<clock, times, last, wake, starts, handled, calm, interruptions, edits>>

\* _start_capture_session on an agent, whatever it answers.
StartAgent(a) ==
    /\ thread = "starting" /\ a \in toStart
    /\ toStart' = toStart \ {a}
    /\ starts' = [slot \in Time |->
                    IF slot \in due THEN [starts[slot] EXCEPT ![a] = @ + 1] ELSE starts[slot]]
    /\ UNCHANGED <<clock, times, last, thread, wake, now, due, handled, calm, interruptions, edits>>

\* Marked as fired, with the time the tick began at, even without any agent.
TickDone ==
    /\ thread = "starting" /\ toStart = {}
    /\ last' = now
    /\ handled' = handled \cup due
    /\ Sleep(now + MaxWork - clock)
    /\ UNCHANGED <<clock, times, starts, calm, interruptions, edits>>

\* An exception ends the tick before the commit; _loop logs it and goes on.
TickFails ==
    /\ thread = "starting"
    /\ Sleep(0)
    /\ Interruption /\ calm' = clock
    /\ UNCHANGED <<clock, times, last, starts, handled, edits>>

\* The application stops; its thread begins with a tick when it starts again.
AppRestarts ==
    /\ Interruption
    /\ \E up \in clock..(clock + Grace + 1) : wake' = up /\ calm' = up
    /\ thread' = "sleeping" /\ now' = 0 /\ due' = {} /\ toStart' = {}
    /\ UNCHANGED <<clock, times, last, starts, handled, edits>>

\* set_capture_schedule of the same application; the last trigger stays.
SetSchedule(new) ==
    /\ calm <= clock /\ new # times
    /\ edits < MaxEdits /\ edits' = edits + 1
    /\ times' = new /\ calm' = clock
    /\ UNCHANGED <<clock, last, tickVars, starts, handled, interruptions>>

\* Time passes while the thread sleeps or waits for the answers of agents.
TimePasses ==
    /\ clock < MaxTime
    /\ thread = "sleeping" => clock < wake
    /\ thread = "starting" => clock - now < MaxWork
    /\ clock' = clock + 1
    /\ UNCHANGED <<times, last, tickVars, starts, handled, calm, interruptions, edits>>

ScheduleNext ==
    \/ TickIdle \/ \E online \in SUBSET Agents : TickDue(online)
    \/ \E a \in Agents : StartAgent(a)
    \/ TickDone \/ TickFails \/ AppRestarts \/ TimePasses
    \/ \E new \in SUBSET TimesOfDay : SetSchedule(new)

ScheduleSpec == ScheduleInit /\ [][ScheduleNext]_scheduler

-----------------------------------------------------------------------------
(* Properties *)

\* Unless a tick failed or was interrupted, an agent is started once for a
\* slot, although the slot stays due for several ticks, slots lie close
\* together and the schedule is edited between them (scheduler.py:70).
OncePerSlot ==
    interruptions = 0 => \A slot \in Time, a \in Agents : starts[slot][a] <= 1

\* A slot is not missed by a scheduler that goes on polling, if the grace period
\* covers a poll and a tick: the last chance of a slot is Grace after it, a tick
\* comes every Poll + MaxWork at least.  Nothing in the code sees to that: with a
\* poll of 60 s and a grace of 180 s it is so while at most eight agents do not
\* answer in time (scheduler.py:87-107).  The slots of the last such period of a
\* day are excepted (scheduler.py:63).
Punctual == Poll + MaxWork <= Grace
Fires(slot) ==
    slot > calm /\ clock > slot + Poll + 2 * MaxWork => slot \in handled

SlotFires ==
    Punctual => \A slot \in Time :
        /\ (slot % DayLength) \in times
        /\ (slot % DayLength) + Poll + MaxWork < DayLength
        => Fires(slot)

\* Without the exception: a slot whose tick is late "by this thread's own 60s
\* poll granularity plus any ordinary scheduling jitter" (scheduler.py:39).
EverySlotFires == \A slot \in Time : (slot % DayLength) \in times => Fires(slot)

=============================================================================

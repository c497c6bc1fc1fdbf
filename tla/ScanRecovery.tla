---------------------------- MODULE ScanRecovery ----------------------------
(***************************************************************************)
(* The life of a scan: the web workers that launch it, the engine          *)
(* subprocess that does the work, the scan_history row that outlives both, *)
(* and the boot-time reaper that reconciles rows whose worker died.        *)
(*                                                                         *)
(* marlinspike/app.py (reservation, api_scan_start, _reader,               *)
(* _chunked_reader, _finalize_run, api_run_stop), marlinspike/run_store.py *)
(* and marlinspike/recovery.py.                                            *)
(*                                                                         *)
(* What is abstracted: a run is its row, its current child process and the *)
(* thread that serves it.  The in-memory registry entry of a run is not a  *)
(* variable: its status is a function of where that thread is (Working).   *)
(* A command line is the set of the paths on it (Argv), a report is        *)
(* whether its last stage was written (complete), the clock is the one bit *)
(* per run the code asks of it (overdue).                                  *)
(***************************************************************************)
EXTENDS Naturals, FiniteSets

CONSTANTS
    Workers,      \* web worker processes, each runs create_app() at boot
    Runs,         \* run ids (uuid4, so never reused)
    Pids,         \* process ids of the host
    Nobody,       \* no worker / no run
    NoPid,        \* engine_pid IS NULL
    Kinds,        \* subset of {"chain", "chunked", "stage"}: what a run may be
    Children,     \* subprocesses of a chunked run: editcap, dissect..., chain
    Limit,        \* MAX_CONCURRENT_SCANS
    RunStore,     \* MARLINSPIKE_RUN_STORE: "memory" or "db"
    Rolling,      \* TRUE: a worker may restart while its peers serve
    Argv,         \* of a run: the paths on its command line
    PidReuse,     \* TRUE: unrelated processes come and go on the same pids
    StoreMayFail, \* TRUE: a commit may raise
    MaxCrashes    \* bound on the number of worker crashes

ASSUME ConstantsAssumption ==
    /\ Nobody \notin Workers \cup Runs
    /\ NoPid \notin Pids
    /\ Kinds \subseteq {"chain", "chunked", "stage"}
    /\ Children \in Nat \ {0} /\ Limit \in Nat /\ MaxCrashes \in Nat
    /\ RunStore \in {"memory", "db"}
    /\ \A r \in Runs : Argv[r] # {}     \* -o and the report, at least
    /\ {Rolling, PidReuse, StoreMayFail} \subseteq BOOLEAN

VARIABLES
    \* durable
    row,        \* scan_history: status, recovery_state, engine_pid, degraded
    complete,   \* the report file records the last stage of the run's command
    enriched,   \* the plugin sidecars: "no", "ok" or "partial"
    delivered,  \* webhook.deliver_for_scan calls made for the run
    \* operating system
    child,      \* the run's current subprocess: state, pid, how many so far
    strangers,  \* pids held by processes that are not ours
    overdue,    \* timeout_at is in the past
    \* worker memory
    kind,       \* what the request asked for
    phase,      \* of a worker: "down", "boot" or "serve"
    home,       \* the worker whose thread serves the run
    thread,     \* where that thread is
    stop,       \* stop_requested of the run's registry entry
    todo,       \* rows reap_orphan_runs has still to look at
    late,       \* rows that were past their deadline when the loop began
    cur,        \* the row the loop is working on
    job,        \* where a worker's reaper or watcher is with a run
    watched,    \* the pid a watcher polls
    crashes     \* worker crashes so far

durable  == <<row, complete, enriched, delivered>>
os       == <<child, strangers, overdue>>
serving  == <<kind, home, thread, stop>>
reaping  == <<todo, late, cur, job, watched>>
vars     == <<durable, os, serving, reaping, phase, crashes>>

Terminal == {"completed", "failed", "stopped"}

ThreadPC ==
    {"none", "launch", "register", "record", "read", "between", "popen",
     "adopt", "spawned", "rcOk", "rcErr", "enrich", "saveCompleted",
     "saveFailed", "saveStopped", "deliver", "done", "rejected", "lost", "dead"}

JobPC ==
    {"none", "reclaim", "probe", "judge", "rejudge", "poll", "gone",
     "failReaped", "failAbandoned", "failReattached",
     "enrich", "finish", "deliver"}

Row == [status   : {"absent", "running"} \cup Terminal,
        recovery : {"null", "claimed", "finalizing", "reattached",
                    "reaped_completed", "reaped_failed", "reaped_abandoned"},
        pid      : Pids \cup {NoPid},
        degraded : BOOLEAN]

Child == [st : {"none", "live", "ok", "err"}, pid : Pids \cup {NoPid}, n : Nat]

TypeOK ==
    /\ row \in [Runs -> Row]
    /\ complete \in [Runs -> BOOLEAN]
    /\ enriched \in [Runs -> {"no", "ok", "partial"}]
    /\ delivered \in [Runs -> Nat]
    /\ child \in [Runs -> Child]
    /\ strangers \subseteq Pids
    /\ overdue \in [Runs -> BOOLEAN]
    /\ kind \in [Runs -> Kinds]
    /\ phase \in [Workers -> {"down", "boot", "serve"}]
    /\ home \in [Runs -> Workers \cup {Nobody}]
    /\ thread \in [Runs -> ThreadPC]
    /\ stop \in [Runs -> {"no", "flagged", "acked", "missed"}]
    /\ todo \in [Workers -> SUBSET Runs]
    /\ late \in [Workers -> SUBSET Runs]
    /\ cur \in [Workers -> Runs \cup {Nobody}]
    /\ job \in [Workers -> [Runs -> JobPC]]
    /\ watched \in [Workers -> [Runs -> Pids \cup {NoPid}]]
    /\ crashes \in 0..MaxCrashes

Init ==
    /\ row = [r \in Runs |-> [status |-> "absent", recovery |-> "null",
                              pid |-> NoPid, degraded |-> FALSE]]
    /\ complete = [r \in Runs |-> FALSE]
    /\ enriched = [r \in Runs |-> "no"]
    /\ delivered = [r \in Runs |-> 0]
    /\ child = [r \in Runs |-> [st |-> "none", pid |-> NoPid, n |-> 0]]
    /\ strangers = {}
    /\ overdue = [r \in Runs |-> FALSE]
    /\ kind \in [Runs -> Kinds]
    /\ phase = [w \in Workers |-> "serve"]
    /\ home = [r \in Runs |-> Nobody]
    /\ thread = [r \in Runs |-> "none"]
    /\ stop = [r \in Runs |-> "no"]
    /\ todo = [w \in Workers |-> {}]
    /\ late = [w \in Workers |-> {}]
    /\ cur = [w \in Workers |-> Nobody]
    /\ job = [w \in Workers |-> [r \in Runs |-> "none"]]
    /\ watched = [w \in Workers |-> [r \in Runs |-> NoPid]]
    /\ crashes = 0

-----------------------------------------------------------------------------
(* The process table. *)

Live(r) == child[r].st = "live"

\* an engine that has exited keeps its pid until its Popen is waited for: by
\* the reader, by a stop request, or by init once the worker is gone
Zombie(r) ==
    /\ child[r].st \in {"ok", "err"}
    /\ \/ thread[r] = "register"
       \/ thread[r] \in {"record", "adopt", "spawned", "read", "lost"} /\ stop[r] # "acked"

\* os.kill(pid, 0): somebody, whoever it is, holds this pid
PidAlive(p) ==
    p \in strangers \/ \E r \in Runs : (Live(r) \/ Zombie(r)) /\ child[r].pid = p

\* pid_argv_matches: any one path of run r is on the holder's command line.  The
\* report's path (-o) is r's own; that of the capture (--pcap) is that of every
\* scan of the same upload, and that of --dpi-binary of every scan at all.  (The
\* children of a chunked run are not told apart by their paths.)
ArgvMatches(p, r) ==
    \E q \in Runs : Live(q) /\ child[q].pid = p /\ Argv[q] \cap Argv[r] # {}

FreePids == {p \in Pids : ~PidAlive(p)}

LastChild(r) == kind[r] # "chunked" \/ child[r].n = Children

\* Bug: a report that can be read passes for a complete one.
ReportReadable(r) == kind[r] # "stage"

\* recovery.report_complete: "Risk Surface Report" is a stage of the chain
\* commands only, the single-stage ones (ingest, dissect...) never record it
ReportComplete(r) == complete[r] /\ kind[r] # "stage"

(* The registry: what _get_active_runs sees. *)

\* run["status"] in ("pending", "running")
Working(r) ==
    thread[r] \in {"launch", "register", "record", "read", "between", "popen",
                   "adopt", "spawned", "rcOk", "rcErr", "enrich", "lost"}

Running(r) == row[r].status = "running"

\* Bug: the placeholder of a reservation is not counted.
ActiveRunsRegistered(w) ==
    {r \in Runs : home[r] = w /\ Working(r) /\ thread[r] \notin {"launch", "register"}}

ActiveRuns(w) ==
    IF RunStore = "db" THEN {r \in Runs : Running(r)}
                       ELSE {r \in Runs : home[r] = w /\ Working(r)}

\* Requests reach a worker that has finished create_app(); without rolling
\* restarts they are let in once every worker has.
Admits(w) == phase[w] = "serve" /\ (Rolling \/ \A v \in Workers : phase[v] = "serve")

Goto(r, pc) == thread' = [thread EXCEPT ![r] = pc]
SetRow(r, new) == row' = [row EXCEPT ![r] = new]

-----------------------------------------------------------------------------
(* api_scan_start: the request thread of worker w. *)

\* _reserve_scan_slot: count and insert the "pending" placeholder under
\* _runs_lock.  At the limit the request is answered 409 and nothing changes.
ReserveScanSlot(w, r) ==
    /\ Admits(w)
    /\ thread[r] = "none"
    /\ Cardinality(ActiveRuns(w)) < Limit
    /\ home' = [home EXCEPT ![r] = w]
    /\ Goto(r, "launch")
    /\ UNCHANGED <<durable, os, reaping, phase, crashes, kind, stop>>

\* subprocess.Popen: the child gets any pid that is free
Spawn(r) ==
    \E p \in FreePids :
        child' = [child EXCEPT ![r] = [st |-> "live", pid |-> p, n |-> @.n + 1]]

\* Popen of the engine; a chunked run launches its children later.
LaunchEngine(r) ==
    /\ thread[r] = "launch"
    /\ IF kind[r] = "chunked" THEN UNCHANGED child ELSE Spawn(r)
    /\ Goto(r, "register")
    /\ UNCHANGED <<durable, strangers, overdue, reaping, phase, crashes, kind, home, stop>>

\* Popen raised: _release_scan_slot drops the placeholder, answer 500.
LaunchFails(r) ==
    /\ thread[r] = "launch"
    /\ kind[r] # "chunked"
    /\ Goto(r, "rejected")
    /\ UNCHANGED <<durable, os, reaping, phase, crashes, kind, home, stop>>

\* _run_registry[run_id] = run_state: a fresh dictionary, so a stop request
\* that reached the placeholder is forgotten.
Register(r) ==
    /\ thread[r] = "register"
    /\ stop' = [stop EXCEPT ![r] = "no"]
    /\ Goto(r, "record")
    /\ UNCHANGED <<durable, os, reaping, phase, crashes, kind, home>>

\* run_store.record_start, then the reader thread starts.
RecordStart(r) ==
    /\ thread[r] = "record"
    /\ SetRow(r, [row[r] EXCEPT !.status = "running", !.recovery = "null",
                                !.pid = IF kind[r] = "chunked" THEN NoPid ELSE child[r].pid])
    /\ Goto(r, IF kind[r] = "chunked" THEN "between" ELSE "read")
    /\ UNCHANGED <<complete, enriched, delivered, os, reaping, phase, crashes, kind, home, stop>>

\* record_start raised out of the handler: nobody reads the engine, and the
\* registry entry says "running".
RecordStartFails(r) ==
    /\ StoreMayFail
    /\ thread[r] = "record"
    /\ Goto(r, "lost")
    /\ UNCHANGED <<durable, os, reaping, phase, crashes, kind, home, stop>>

-----------------------------------------------------------------------------
(* The reader thread. *)

\* _chunked_reader: on to the next child, unless a stop was asked for.
NextChild(r) ==
    /\ thread[r] = "between"
    /\ stop[r] = "no" /\ child[r].n < Children
    /\ Goto(r, "popen")
    /\ UNCHANGED <<durable, os, reaping, phase, crashes, kind, home, stop>>

\* _run_child: Popen.  A stop that was asked for meanwhile is not looked at.
SpawnChild(r) ==
    /\ thread[r] = "popen"
    /\ Spawn(r)
    /\ Goto(r, "adopt")
    /\ UNCHANGED <<durable, strangers, overdue, reaping, phase, crashes, kind, home, stop>>

\* run_state["process"] = child: from here on a stop request finds it.
AdoptChild(r) ==
    /\ thread[r] = "adopt"
    /\ Goto(r, "spawned")
    /\ UNCHANGED <<durable, os, reaping, phase, crashes, kind, home, stop>>

\* stop_requested between two children (return code -15), a tool that is not
\* installed (127), no chunk file or a failed merge (1): no further child.
ChunkingEnds(r) ==
    /\ thread[r] \in {"between", "popen"}
    /\ Goto(r, "rcErr")
    /\ UNCHANGED <<durable, os, reaping, phase, crashes, kind, home, stop>>

\* run_store.update_pid, best effort
UpdatePid(r) ==
    /\ thread[r] = "spawned"
    /\ \/ SetRow(r, [row[r] EXCEPT !.pid = child[r].pid])
       \/ StoreMayFail /\ UNCHANGED row
    /\ Goto(r, "read")
    /\ UNCHANGED <<complete, enriched, delivered, os, reaping, phase, crashes, kind, home, stop>>

\* Bug: the reader returns on an error without _finalize_run.
ChildExitedUnfinalized(r) ==
    /\ thread[r] = "read"
    /\ \/ child[r].st = "ok" /\ Goto(r, IF LastChild(r) THEN "rcOk" ELSE "between")
       \/ child[r].st = "err" /\ Goto(r, "lost")
    /\ UNCHANGED <<durable, os, reaping, phase, crashes, kind, home, stop>>

\* End of the child's output, wait(): _reader takes the return code, and so
\* does _chunked_reader of its last child; after another child it goes on.
ChildExited(r) ==
    /\ thread[r] = "read"
    /\ \/ child[r].st = "ok" /\ LastChild(r) /\ Goto(r, "rcOk")
       \/ child[r].st = "ok" /\ ~LastChild(r) /\ stop[r] = "no" /\ Goto(r, "between")
       \/ child[r].st = "ok" /\ ~LastChild(r) /\ stop[r] # "no" /\ Goto(r, "rcErr")
       \/ child[r].st = "err" /\ Goto(r, "rcErr")
    /\ UNCHANGED <<durable, os, reaping, phase, crashes, kind, home, stop>>

\* Bug: an engine that failed is logged and its row is left alone.
FinalizeRunUnlessFailed(r) ==
    /\ thread[r] \in {"rcOk", "rcErr"}
    /\ Goto(r, IF stop[r] # "no" THEN "saveStopped"
               ELSE IF thread[r] = "rcOk" THEN "enrich" ELSE "done")
    /\ UNCHANGED <<durable, os, reaping, phase, crashes, kind, home, stop>>

\* _finalize_run: the verdict, and mark_finalizing (rows still running only)
\* when enrichment follows.
FinalizeRun(r) ==
    /\ thread[r] \in {"rcOk", "rcErr"}
    /\ \/ /\ stop[r] # "no"
          /\ Goto(r, "saveStopped")
          /\ UNCHANGED row
       \/ /\ stop[r] = "no" /\ thread[r] = "rcOk"
          /\ Goto(r, "enrich")
          /\ \/ SetRow(r, IF Running(r) THEN [row[r] EXCEPT !.recovery = "finalizing"]
                                        ELSE row[r])
             \/ StoreMayFail /\ UNCHANGED row
       \/ /\ stop[r] = "no" /\ thread[r] = "rcErr"
          /\ Goto(r, "saveFailed")
          /\ UNCHANGED row
    /\ UNCHANGED <<complete, enriched, delivered, os, reaping, phase, crashes, kind, home, stop>>

\* The MITRE, ARP, APT and CISA plugins, of the chain command only; a plugin
\* that fails leaves its sidecar out.
PluginsRun(r) ==
    \E e \in IF kind[r] = "stage" THEN {"no"} ELSE {"ok", "partial"} :
        enriched' = [enriched EXCEPT ![r] = e]

EnrichRun(r) ==
    /\ thread[r] = "enrich"
    /\ PluginsRun(r)
    /\ Goto(r, "saveCompleted")
    /\ UNCHANGED <<row, complete, delivered, os, reaping, phase, crashes, kind, home, stop>>

\* _finalize_scan_history: the row takes the verdict whatever it says now,
\* and "finalizing" is taken back.
FinalizedRow(r) ==
    [row[r] EXCEPT
        !.status = IF thread[r] = "saveCompleted" THEN "completed"
                   ELSE IF thread[r] = "saveFailed" THEN "failed" ELSE "stopped",
        !.recovery = IF @ = "finalizing" THEN "null" ELSE @,
        !.degraded = IF thread[r] = "saveCompleted" /\ enriched[r] = "partial"
                     THEN TRUE ELSE @,
        !.pid = NoPid]

FinalizeScanHistory(r) ==
    /\ thread[r] \in {"saveCompleted", "saveFailed", "saveStopped"}
    /\ \/ /\ SetRow(r, FinalizedRow(r))
          /\ Goto(r, IF thread[r] = "saveCompleted" THEN "deliver" ELSE "done")
       \/ /\ StoreMayFail        \* logged, never raised
          /\ Goto(r, "done")
          /\ UNCHANGED row
    /\ UNCHANGED <<complete, enriched, delivered, os, reaping, phase, crashes, kind, home, stop>>

\* webhook.deliver_for_scan, after the commit
Deliver(r) ==
    /\ thread[r] = "deliver"
    /\ delivered' = [delivered EXCEPT ![r] = @ + 1]
    /\ Goto(r, "done")
    /\ UNCHANGED <<row, complete, enriched, os, reaping, phase, crashes, kind, home, stop>>

-----------------------------------------------------------------------------
(* api_run_stop: another request thread of the worker that has the run. *)

RequestStop(r) ==
    /\ Working(r)
    /\ stop[r] \in {"no", "missed"}
    /\ stop' = [stop EXCEPT ![r] = "flagged"]
    /\ UNCHANGED <<durable, os, reaping, phase, crashes, kind, home, thread>>

\* run.get("process"): the child the thread is with.  The placeholder has no
\* process, and a chunked run has none between two children.
HasProcess(r) ==
    \/ kind[r] # "chunked" /\ thread[r] \in {"record", "read", "lost"}
    \/ kind[r] = "chunked" /\ thread[r] \in {"spawned", "read"}

\* terminate, wait 8 s, kill.  On SIGTERM the engine saves what it has and may
\* exit with 0.  A request that finds no process has left the flag only.
TerminateProcess(r) ==
    /\ stop[r] = "flagged"
    /\ IF HasProcess(r) /\ Live(r)
       THEN \E st \in {"ok", "err"} : child' = [child EXCEPT ![r].st = st]
       ELSE UNCHANGED child
    /\ stop' = [stop EXCEPT ![r] = IF HasProcess(r) THEN "acked" ELSE "missed"]
    /\ UNCHANGED <<durable, strangers, overdue, reaping, phase, crashes, kind, home, thread>>

-----------------------------------------------------------------------------
(* What the code does not control. *)

\* engine.py: the last stage is recorded and the report saved
EngineSaves(r) ==
    /\ Live(r) /\ LastChild(r) /\ ~complete[r]
    /\ complete' = [complete EXCEPT ![r] = TRUE]
    /\ UNCHANGED <<row, enriched, delivered, os, serving, reaping, phase, crashes>>

\* exit 0 after the work is done, or any other exit at any time (an error, the
\* OOM killer, the closed stdout pipe of a dead worker)
EngineExits(r) ==
    /\ Live(r)
    /\ \/ (LastChild(r) => complete[r]) /\ child' = [child EXCEPT ![r].st = "ok"]
       \/ child' = [child EXCEPT ![r].st = "err"]
    /\ UNCHANGED <<durable, strangers, overdue, serving, reaping, phase, crashes>>

\* Bound: time is let pass only while a boot may come that asks for it.
DeadlinePasses(r) ==
    /\ Running(r) /\ ~overdue[r]
    /\ crashes < MaxCrashes \/ \E w \in Workers : phase[w] = "down"
    /\ overdue' = [overdue EXCEPT ![r] = TRUE]
    /\ UNCHANGED <<durable, child, strangers, serving, reaping, phase, crashes>>

StrangerComes(p) ==
    /\ PidReuse
    /\ p \in FreePids
    /\ strangers' = strangers \cup {p}
    /\ UNCHANGED <<durable, child, overdue, serving, reaping, phase, crashes>>

StrangerLeaves(p) ==
    /\ p \in strangers
    /\ strangers' = strangers \ {p}
    /\ UNCHANGED <<durable, child, overdue, serving, reaping, phase, crashes>>

\* The workers in W die: their registries, readers, watchers and reaper loops
\* are gone, rows, reports and engines stay.
Crash(W) ==
    /\ crashes < MaxCrashes
    /\ crashes' = crashes + 1
    /\ phase' = [w \in Workers |-> IF w \in W THEN "down" ELSE phase[w]]
    /\ thread' = [r \in Runs |-> IF home[r] \in W /\ thread[r] # "none"
                                 THEN "dead" ELSE thread[r]]
    /\ stop' = [r \in Runs |-> IF home[r] \in W THEN "no" ELSE stop[r]]
    /\ todo' = [w \in Workers |-> IF w \in W THEN {} ELSE todo[w]]
    /\ late' = [w \in Workers |-> IF w \in W THEN {} ELSE late[w]]
    /\ cur' = [w \in Workers |-> IF w \in W THEN Nobody ELSE cur[w]]
    /\ job' = [w \in Workers |-> IF w \in W THEN [r \in Runs |-> "none"] ELSE job[w]]
    /\ watched' = [w \in Workers |-> IF w \in W THEN [r \in Runs |-> NoPid] ELSE watched[w]]
    /\ UNCHANGED <<durable, os, kind, home>>

\* A service restart takes every worker down; a rolling one, or the recycling
\* of a worker, takes one.
Restart ==
    \/ (\E w \in Workers : phase[w] # "down") /\ Crash(Workers)
    \/ Rolling /\ \E w \in Workers : phase[w] # "down" /\ Crash({w})

-----------------------------------------------------------------------------
(* recovery.reap_orphan_runs, called by create_app() at every boot. *)

SetJob(w, r, pc) == job' = [job EXCEPT ![w][r] = pc]

\* The loop is done with a row; a watcher that ends was not in the loop.
EndJob(w, r) ==
    /\ SetJob(w, r, "none")
    /\ cur' = [cur EXCEPT ![w] = IF @ = r THEN Nobody ELSE @]

\* get_active_for_recovery and now = datetime.now()
Boot(w) ==
    /\ phase[w] = "down"
    /\ phase' = [phase EXCEPT ![w] = "boot"]
    /\ todo' = [todo EXCEPT ![w] = {r \in Runs : Running(r)}]
    /\ late' = [late EXCEPT ![w] = {r \in Runs : Running(r) /\ overdue[r]}]
    /\ UNCHANGED <<durable, os, serving, cur, job, watched, crashes>>

Booted(w) ==
    /\ phase[w] = "boot"
    /\ todo[w] = {} /\ cur[w] = Nobody
    /\ phase' = [phase EXCEPT ![w] = "serve"]
    /\ UNCHANGED <<durable, os, serving, reaping, crashes>>

\* The conditional UPDATE of claim_for_recovery and reclaim_finalizing: it
\* matches a running row whose recovery_state is the one asked for.
Claimable(r, recovery) == Running(r) /\ row[r].recovery = recovery

ClaimForRecovery(w, r) ==
    /\ phase[w] = "boot" /\ cur[w] = Nobody
    /\ r \in todo[w]
    /\ todo' = [todo EXCEPT ![w] = @ \ {r}]
    /\ \/ /\ Claimable(r, "null")
          /\ SetRow(r, [row[r] EXCEPT !.recovery = "claimed"])
          /\ SetJob(w, r, "probe")
          /\ cur' = [cur EXCEPT ![w] = r]
       \/ /\ ~Claimable(r, "null") \/ StoreMayFail
          /\ r \in late[w]
          /\ SetJob(w, r, "reclaim")
          /\ cur' = [cur EXCEPT ![w] = r]
          /\ UNCHANGED row
       \/ /\ ~Claimable(r, "null") \/ StoreMayFail
          /\ r \notin late[w]
          /\ UNCHANGED <<row, job, cur>>
    /\ UNCHANGED <<complete, enriched, delivered, os, serving, phase, crashes, late, watched>>

ReclaimFinalizing(w, r) ==
    /\ job[w][r] = "reclaim"
    /\ \/ /\ Claimable(r, "finalizing")
          /\ SetRow(r, [row[r] EXCEPT !.recovery = "claimed"])
          /\ SetJob(w, r, "rejudge")
          /\ UNCHANGED cur
       \/ /\ ~Claimable(r, "finalizing") \/ StoreMayFail
          /\ EndJob(w, r)
          /\ UNCHANGED row
    /\ UNCHANGED <<complete, enriched, delivered, os, serving, phase, crashes, todo, late, watched>>

\* Bug: a run past its deadline is not asked for its engine (Finding #22).
EngineAliveInTime(r) ==
    ~overdue[r] /\ PidAlive(row[r].pid) /\ ArgvMatches(row[r].pid, r)

\* Bug: any process on the pid passes for the engine.
EngineAliveByPid(r) == PidAlive(row[r].pid)

\* alive == pid_alive(engine_pid) and pid_argv_matches(engine_pid, argv)
EngineAlive(r) == PidAlive(row[r].pid) /\ ArgvMatches(row[r].pid, r)

\* Bug: a live engine is counted and nobody watches it.
ProbeWithoutWatcher(w, r) ==
    /\ job[w][r] = "probe"
    /\ IF EngineAlive(r) THEN EndJob(w, r) ELSE SetJob(w, r, "judge") /\ UNCHANGED cur
    /\ UNCHANGED <<durable, os, serving, phase, crashes, todo, late, watched>>

ProbeEngine(w, r) ==
    /\ job[w][r] = "probe"
    /\ \/ /\ EngineAlive(r)                  \* _spawn_watcher
          /\ SetJob(w, r, "poll")
          /\ watched' = [watched EXCEPT ![w][r] = row[r].pid]
          /\ cur' = [cur EXCEPT ![w] = Nobody]
       \/ /\ ~EngineAlive(r)
          /\ SetJob(w, r, "judge")
          /\ UNCHANGED <<watched, cur>>
    /\ UNCHANGED <<durable, os, serving, phase, crashes, todo, late>>

\* _watch_loop: every 2 s, pid_alive only
PollEngine(w, r) ==
    /\ job[w][r] = "poll"
    /\ ~PidAlive(watched[w][r])
    /\ SetJob(w, r, "gone")
    /\ UNCHANGED <<durable, os, serving, phase, crashes, todo, late, cur, watched>>

\* Bug: the deadline goes before the report (Finding #22).
JudgeDeadline(w, r) ==
    /\ job[w][r] \in {"judge", "rejudge", "gone"}
    /\ SetJob(w, r, IF r \in late[w] THEN "failAbandoned"
                    ELSE IF ReportComplete(r) THEN "enrich" ELSE "failReaped")
    /\ UNCHANGED <<durable, os, serving, phase, crashes, todo, late, cur, watched>>

\* The engine is taken for dead: is there a complete report?
JudgeReport(w, r) ==
    /\ \/ /\ job[w][r] \in {"judge", "rejudge", "gone"}
          /\ ReportComplete(r)
          /\ SetJob(w, r, "enrich")
       \/ /\ job[w][r] = "judge"
          /\ ~ReportComplete(r)
          /\ SetJob(w, r, IF r \in late[w] THEN "failAbandoned" ELSE "failReaped")
       \/ /\ job[w][r] = "rejudge"
          /\ ~ReportComplete(r)
          /\ SetJob(w, r, "failReaped")
       \/ /\ job[w][r] = "gone"
          /\ ~ReportComplete(r)
          /\ SetJob(w, r, "failReattached")
    /\ UNCHANGED <<durable, os, serving, phase, crashes, todo, late, cur, watched>>

\* _ingest_completed_report, first half: enrich.run_all, which logs the
\* plugins that fail and never raises
EnrichReport(w, r) ==
    /\ job[w][r] = "enrich"
    /\ PluginsRun(r)
    /\ SetJob(w, r, "finish")
    /\ UNCHANGED <<row, complete, delivered, os, serving, phase, crashes, todo, late, cur, watched>>

\* Bug: the webhook is told although the commit raised.
RecordFinishTellingAnyway(w, r, status, recovery, then) ==
    /\ \/ SetRow(r, [row[r] EXCEPT !.status = status, !.recovery = recovery, !.pid = NoPid])
       \/ StoreMayFail /\ UNCHANGED row
    /\ IF then = "deliver" THEN SetJob(w, r, "deliver") /\ UNCHANGED cur ELSE EndJob(w, r)
    /\ UNCHANGED <<complete, enriched, delivered, os, serving, phase, crashes, todo, late, watched>>

\* run_store.record_finish: the row takes the status whatever it says now; an
\* error is logged and swallowed.
RecordFinish(w, r, status, recovery, then) ==
    /\ \/ /\ SetRow(r, [row[r] EXCEPT !.status = status, !.recovery = recovery, !.pid = NoPid])
          /\ IF then = "deliver" THEN SetJob(w, r, "deliver") /\ UNCHANGED cur ELSE EndJob(w, r)
       \/ StoreMayFail /\ EndJob(w, r) /\ UNCHANGED row
    /\ UNCHANGED <<complete, enriched, delivered, os, serving, phase, crashes, todo, late, watched>>

FinishCompleted(w, r) ==
    job[w][r] = "finish" /\ RecordFinish(w, r, "completed", "reaped_completed", "deliver")

\* Bug: failed runs are told too.
FinishFailedTelling(w, r) ==
    \/ job[w][r] = "failReaped" /\ RecordFinish(w, r, "failed", "reaped_failed", "deliver")
    \/ job[w][r] = "failAbandoned" /\ RecordFinish(w, r, "failed", "reaped_abandoned", "deliver")
    \/ job[w][r] = "failReattached" /\ RecordFinish(w, r, "failed", "reattached", "deliver")

FinishFailed(w, r) ==
    \/ job[w][r] = "failReaped" /\ RecordFinish(w, r, "failed", "reaped_failed", "none")
    \/ job[w][r] = "failAbandoned" /\ RecordFinish(w, r, "failed", "reaped_abandoned", "none")
    \/ job[w][r] = "failReattached" /\ RecordFinish(w, r, "failed", "reattached", "none")

\* the delivery at the end of record_finish
DeliverFinished(w, r) ==
    /\ job[w][r] = "deliver"
    /\ delivered' = [delivered EXCEPT ![r] = @ + 1]
    /\ EndJob(w, r)
    /\ UNCHANGED <<row, complete, enriched, os, serving, phase, crashes, todo, late, watched>>

-----------------------------------------------------------------------------
StartStep(r) ==
    \/ LaunchEngine(r) \/ LaunchFails(r) \/ Register(r)
    \/ RecordStart(r) \/ RecordStartFails(r)

ReaderStep(r) ==
    \/ NextChild(r) \/ SpawnChild(r) \/ AdoptChild(r) \/ ChunkingEnds(r)
    \/ UpdatePid(r) \/ ChildExited(r)
    \/ FinalizeRun(r) \/ EnrichRun(r) \/ FinalizeScanHistory(r) \/ Deliver(r)

StopStep(r) == RequestStop(r) \/ TerminateProcess(r)

JobStep(w, r) ==
    \/ ClaimForRecovery(w, r) \/ ReclaimFinalizing(w, r) \/ ProbeEngine(w, r)
    \/ PollEngine(w, r) \/ JudgeReport(w, r) \/ EnrichReport(w, r)
    \/ FinishCompleted(w, r) \/ FinishFailed(w, r) \/ DeliverFinished(w, r)

BootStep(w) == Boot(w) \/ Booted(w)

EngineStep(r) == EngineSaves(r) \/ EngineExits(r)

Environment ==
    \/ \E r \in Runs : DeadlinePasses(r)
    \/ \E p \in Pids : StrangerComes(p) \/ StrangerLeaves(p)
    \/ Restart

Next ==
    \/ \E w \in Workers, r \in Runs : ReserveScanSlot(w, r) \/ JobStep(w, r)
    \/ \E r \in Runs : StartStep(r) \/ ReaderStep(r) \/ StopStep(r) \/ EngineStep(r)
    \/ \E w \in Workers : BootStep(w)
    \/ Environment

Spec == Init /\ [][Next]_vars

\* Threads get the CPU, engines end, a worker that is down is restarted
\* (docker-compose.yml: restart: unless-stopped).  Nothing makes a user start
\* or stop a scan, a worker crash, a clock advance or a stranger leave.
Fairness ==
    /\ \A r \in Runs : WF_vars(StartStep(r)) /\ WF_vars(ReaderStep(r))
                       /\ WF_vars(TerminateProcess(r)) /\ WF_vars(EngineExits(r))
    /\ \A w \in Workers : WF_vars(BootStep(w)) /\ \A r \in Runs : WF_vars(JobStep(w, r))

FairSpec == Spec /\ Fairness

-----------------------------------------------------------------------------
(* Safety. *)

\* recovery.py, "we never spawn duplicate watchers or double-finalize": of the
\* workers that boot at the same time at most one reconciles a run.
Reconciling(w, r) == job[w][r] \notin {"none", "reclaim"}

OneReconciler ==
    \A r \in Runs : \A v, w \in Workers :
        Reconciling(v, r) /\ Reconciling(w, r) => v = w

\* The history a user reads does not change its mind: whoever writes a verdict
\* (the reader, the reaper, a watcher), nobody writes another one after it.
VerdictIsFinal ==
    [][\A r \in Runs : row[r].status \in Terminal
                       => row'[r].status = row[r].status]_vars

\* The receiver of the webhook is told of a run at most once, and only of runs
\* whose row then says completed.
DeliveredOnce ==
    \A r \in Runs : /\ delivered[r] <= 1
                    /\ delivered[r] = 1 => row[r].status = "completed"

\* "completed" promises the last stage: neither a report that SIGTERM cut short
\* nor the one a dead engine left behind passes for a finished one.
CompletedHasReport ==
    \A r \in Runs : row[r].status = "completed" => complete[r]

\* recovery.py, "a good report is never discarded": a run whose engine did all
\* its work and exited with 0 is not recorded as failed.
GoodReportKept ==
    \A r \in Runs : ~(row[r].status = "failed" /\ child[r].st = "ok" /\ complete[r])

\* No verdict while the engine is still at work on the run.
NoVerdictOverLiveEngine ==
    \A r \in Runs : row[r].status \in Terminal => ~Live(r)

\* MAX_CONCURRENT_SCANS bounds the engines, not only the bookkeeping.
EnginesWithinLimit == Cardinality({r \in Runs : Live(r)}) <= Limit

\* The PID-reuse defense: a run is re-attached to its own engine, not to
\* whoever has got its pid since.
AttachesToOwnEngine ==
    [][\A w \in Workers, r \in Runs :
          job[w][r] = "probe" /\ job'[w][r] = "poll" => Live(r)]_vars

(* Liveness. *)

\* A recorded scan gets a verdict.
RunsSettle == \A r \in Runs : Running(r) ~> row[r].status \in Terminal

\* A scan whose worker died before anybody marked the row gets its verdict
\* from the next boot.
OrphansSettle ==
    \A r \in Runs : Running(r) /\ thread[r] = "dead" /\ row[r].recovery = "null"
                    ~> row[r].status \in Terminal

\* Every slot that is taken is given back.
SlotsReturn == \A r \in Runs : Working(r) ~> ~Working(r)

-----------------------------------------------------------------------------
(* The abstract specification, seen through the history. *)

History == INSTANCE RunLifecycle WITH
    verdict <- [r \in Runs |-> row[r].status],
    ready <- complete,
    notices <- delivered

\* Every behaviour of the workers is one of the history the user is promised.
ImplementsHistory == History!Spec

-----------------------------------------------------------------------------
(* Why it is safe to restart the workers together.  Only two parties ever     *)
(* write a verdict: the thread that serves the run and the one job that       *)
(* claimed it.  A thread exists only while all its peers serve, and a job     *)
(* only for a run whose thread died with the workers.                         *)

Serving(r) == thread[r] \notin {"none", "done", "rejected", "lost", "dead"}

\* threads that have not written the row yet, and have written no verdict
BeforeRow == {"none", "launch", "register", "record", "rejected", "lost"}
BeforeVerdict ==
    {"read", "between", "popen", "adopt", "spawned", "rcOk", "rcErr", "enrich",
     "saveCompleted", "saveFailed", "saveStopped"}

\* A served run is served by a worker that is up, like all others, and is in
\* nobody's reaper loop or watcher.
ServedAlone ==
    \A r \in Runs : Serving(r) =>
        \A w \in Workers : phase[w] = "serve" /\ job[w][r] = "none"

\* A thread belongs to a worker, and dies with it.
ThreadHasHome ==
    \A r \in Runs : thread[r] # "none" => home[r] \in Workers

\* The row follows the thread as long as that thread lives.
RowFollowsThread ==
    \A r \in Runs :
        /\ thread[r] \in BeforeRow => row[r].status = "absent"
        /\ thread[r] \in BeforeVerdict => row[r].status = "running"
        /\ thread[r] = "deliver" => row[r].status = "completed"
        /\ row[r].status = "absent" => delivered[r] = 0

\* A job past its claim holds a running row in the state "claimed", which no
\* other claim matches, until it has written the verdict.
JobHoldsClaim ==
    \A w \in Workers : \A r \in Runs :
        /\ job[w][r] \notin {"none", "reclaim", "deliver"}
           => row[r].status = "running" /\ row[r].recovery = "claimed"
        /\ job[w][r] = "deliver" => row[r].status = "completed"

\* Rows a loop has taken up, or has still to take up, were recorded.
LoopSeesRecorded ==
    \A w \in Workers :
        /\ \A r \in todo[w] : row[r].status # "absent"
        /\ \A r \in Runs : job[w][r] # "none" => row[r].status # "absent"

\* Nobody has delivered before the verdict, and only the one who wrote it will.
DeliveryPending ==
    \A r \in Runs :
        /\ row[r].status # "completed" => delivered[r] = 0
        /\ (thread[r] = "deliver" \/ \E w \in Workers : job[w][r] = "deliver")
           => delivered[r] = 0
        /\ delivered[r] <= 1

\* Run ids are new: no child before the run is launched.
NotYetLaunched ==
    \A r \in Runs : thread[r] \in {"none", "launch"} => child[r].st = "none"

\* Whoever is about to write "completed" has seen a finished report; an exit
\* with 0 means one unless the engine was told to stop, which the thread knows.
SeenComplete ==
    \A r \in Runs :
        /\ thread[r] = "rcOk" /\ stop[r] = "no" => complete[r]
        /\ thread[r] \in {"enrich", "saveCompleted"} => complete[r]
        /\ \A w \in Workers : job[w][r] \in {"enrich", "finish"} => complete[r]
        /\ Serving(r) /\ child[r].st = "ok" /\ LastChild(r)
           /\ (stop[r] = "no" \/ thread[r] \in {"launch", "register"}) => complete[r]

\* Inductive in every deployment.
ReportInv == NotYetLaunched /\ SeenComplete /\ CompletedHasReport

\* The inductive invariant behind VerdictIsFinal, DeliveredOnce and
\* OneReconciler when the workers restart together.
RestartInv ==
    /\ ServedAlone
    /\ ThreadHasHome
    /\ RowFollowsThread
    /\ JobHoldsClaim
    /\ LoopSeesRecorded
    /\ OneReconciler
    /\ DeliveryPending
    /\ ReportInv

=============================================================================

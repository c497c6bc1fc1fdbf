# net-discover: TLA+ models of its scans, captures, fleet and reports

net-discover ships MarlinSpike, a passive OT network analyser: a Flask web
application that launches an analysis engine on captured traffic, a privileged
daemon (`marlinspike-capd`) that captures on the host's interfaces, and a fleet
of agents that capture elsewhere and forward files to a gateway. What is hard to get right is the control around the analysis:
processes that outlive the thread that started them, rows that outlive both,
several workers that boot at once, stop requests that meet expiry, files that
cross links that drop; and, in the analysis, merges whose result must not depend
on how a capture was cut or in which order reports are read, rules that rest on
what the merges keep, plugins that run several times over files written in place,
and requests that read a directory while scans write into it. This directory
models these parts, checks them with TLC and proves some of them with TLAPS.

## 1. Inventory

| Component | State it keeps | Operations | Hard behaviour | What makes it correct |
|---|---|---|---|---|
| Scan launch, registry, readers (`marlinspike/app.py`) | `_run_registry`, one reader thread per run, slots | reserve, launch, register, record, read, finalize, stop | two requests at the limit; a stop between two children; a failing commit after `Popen` | the limit bounds engines, every run gets a verdict, every slot returns |
| Run store (`run_store.py`, `models.ScanHistory`) | `status`, `recovery_state`, `engine_pid`, `enrichment_degraded` | `record_start`, `update_pid`, `mark_finalizing`, `claim_for_recovery`, `reclaim_finalizing`, `record_finish` | several writers of one row, no lock held across them | one verdict, never taken back |
| Recovery (`recovery.py`) | a watcher per re-attached engine, claims in the row | `reap_orphan_runs` at every boot, `_watch_loop` | workers boot together or one at a time; pids are reused; crash between claim and verdict | one reconciler, no verdict over a live engine, no good report discarded |
| Engine process, chunk tools (`engine.py`) | a report file | one subprocess per run, or editcap and one per chunk | saves what it has on SIGTERM and may exit with 0 | "completed" means that the last stage was written |
| Enrichment (`enrich.py`, `plugins/`) | a sidecar per plugin, the extensions in the report | run all, run one, merge, view | engine, web process, reaper and viewers run the same plugins over files written in place | a finished run shows what each plugin found, once |
| Webhook (`webhook.py`) | ticket table | `deliver_for_scan` | called by reader, reaper and watcher | told at most once, only of completed runs |
| capd (`marlinspike-capd/capd/server.py`, `supervisor.py`) | `_sessions`, one dumpcap and one rotation account per session | start, stop, stats stream, status, reap | polls run in executors beside stops; dumpcap evicts files | one dumpcap per NIC, none forgotten, every file listed once or counted as lost |
| Live capture (`marlinspike/capture/`) | `capture_sessions` row, interface locks, `StatsHub` per session | start, stop, hub thread, finalizer, scan of closed files | stop and expiry settle the same row; capd dies; the web process restarts | the row tells the truth about the network, the last file is scanned, locks return |
| Fleet gateway (`marlinspike/fleet/gateway/`) | connection per agent, transfers per connection, lock per capture session | auth, events, pcap chunks, publication, scan, pushed commands | an event is a task; reconnects overlap old connections; timeouts | each rotation is published and scanned once |
| Fleet agent (`marlinspike-agent/`) | link, spool, stats reporters | relay commands, ship files, flush the spool | the link drops in the middle of a file; nothing is acknowledged | a captured file is not lost without a trace |
| Fleet API (`fleet/api.py`) | tokens, credentials, agents | issue, enroll, revoke, rotate, delete | two redemptions of a token; revocation of a connected agent | a one-time token mints one credential |
| Scheduler (`scheduler.py`) | `capture_schedule_last_triggered_at` | a tick per minute | the grace window, midnight, a failing agent | one trigger per slot |
| Chunk merge, topology (`app.py`, `engine.py`) | the conversations of each chunk, the graph | dissect, merge, build | a conversation cut in two; first-wins and last-wins steps | a cut capture gives the totals and the topology of the whole |
| Risk surface (`engine.py`, `ics_cve.py`) | roles and vendors of devices, findings | score | rules look up nodes that the topology has re-keyed, and read what a chunk merge may drop | a cut capture gets the findings of the whole, and they name devices on the map |
| Plugin rules (`plugins/marlinspike_*`) | an artifact each | run | packs that override each other; tables folded from conversations | what they find is in the frames |
| Aggregation, baselines (`aggregate.py`, `baselines.py`) | none: reports are read on every request | roll-up, asset history | directory order, the scan's start against the file's time | the answers do not depend on the listing and agree with each other |
| Tickets (`webhook.py`, `models.WebhookTicket`) | the dedup table | deliver to Zammad or Jira | a cap per delivery, two deliveries at once, timeouts | bounded tickets, no finding starves |
| Accounts (`auth.py`, `csrf.py`, `audit.py`) | lockout counter, reset tokens, session version | login, reset | concurrent requests | see section 7 |
| Exports (`marlinspike/emit/`, their routes) | files beside a report | render one report, merge those of a project, download | reports come and go while they are read; identifiers collide | nothing that stands is left out |
| IOC lists and hunts (`iocs.py`) | lists and entries | create, replace, import, delete, hunt | two caps; an import beside a replacement | a hunt that is not cut short has missed nothing |
| Project audit (`project_audit.py`) | none: reports are read on every request | life of each vulnerability | reports overlap in time; what is fixed comes back | a status is that of the newest report |
| Projects, uploads, setup, LLM, translations | rows and files | request handlers and pure functions | little | see section 7 |

How they interact. The web process starts engines with `Popen` and reads their
output in a thread; it never waits for them elsewhere. The row in
`scan_history` is all that a restarted worker knows. `create_app()` calls the
reaper before the worker serves. Live capture talks to capd over a unix socket:
one RPC connection per request and one long connection for the stats stream,
which the `StatsHub` thread reads; each frame lists the files that were closed,
and the hub enqueues a scan for each. Agents hold a TLS connection to the
gateway; the gateway pushes the same start and stop commands, receives files
and launches its own engine runs in the same table.

The full list of components, with the status of each, and of hazards, with
their lines and the properties that watch them, is in `PROJECT.json`.

## 2. Modules

    RunLifecycle          what the scan history promises
        ^ implemented by
    ScanRecovery          workers, readers, engines, rows, reaper
        ^                 ^
    MCScanRecovery    ScanRecoveryProofs

    CaptureDaemon         capd and its dumpcaps, under arbitrary clients
        ^ extended by
    LiveCapture           the web process as capd's client
        ^                 ^
    MCLiveCapture     CaptureProofs

    PcapTransfer          agent, gateway and scans of shipped files
        ^                 ^
    MCPcapTransfer    TransferProofs

    AgentEnrollment       tokens, credentials, connections, operators
        ^
    EnrollmentProofs

    CaptureSchedule       the scheduler thread
        ^                 ^
    MCServices        ScheduleProofs

    ScanPipeline          packets, conversations, chunks, topology
        ^
    RiskSurface           vendors, roles, risk, malware, advisories
        ^
    PluginRules           what the plugins find in a report
    ProjectReports        roll-up and asset history of a project
    Enrichment            report and sidecar files of one run
        ^ the last three extended by
    MCAnalysis            (ReportProofs extends Enrichment and ProjectReports)

    ReportExports         what exports make of reports
        ^                 ^
    IocHunt           ProjectAudit      lists and hunts; vulnerabilities
        ^                 ^
    ReportLibrary         the reports directory in use
    TicketDelivery        findings, cap, dedup table, tracker
        ^ both extended by
    MCServices            with CaptureSchedule (LibraryProofs extends
                          ReportLibrary, TicketProofs TicketDelivery)

### RunLifecycle

The abstract specification: a run is absent, running, or has one verdict;
`completed` needs a finished report; the receiver is told at most once and only
of a completed run. `ScanRecovery` implements it under the mapping `verdict <-
row.status`, `ready <- complete`, `notices <- delivered` (`ImplementsHistory`).

### ScanRecovery

| Model | Code |
|---|---|
| `row[r]` (status, recovery, pid, degraded) | the `scan_history` row |
| `complete`, `enriched` | the report file has its last stage; the plugin sidecars |
| `delivered` | calls of `webhook.deliver_for_scan` |
| `child[r]` (st, pid, n) | the run's current subprocess and how many there were |
| `strangers`, `overdue` | unrelated holders of a pid; `timeout_at` has passed |
| `home`, `thread`, `stop` | which worker serves the run, where its thread is, `stop_requested` |
| `todo`, `late`, `cur`, `job`, `watched` | the reaper's list, its `now`, its row, the state of its work on a row, the pid a watcher polls |
| `phase`, `crashes` | a worker is down, booting or serving; the bound on crashes |

The registry is no variable. Its entry for a run is a function of where the
thread is (`Working`); `Zombie` says when an engine that has exited still holds
its pid because nobody has waited for it. `Argv[r]` are the paths on
the command line of a run, of which the recovery wants to see any one again
(`ArgvMatches`), so two scans may share some. A report is whether its last stage
is there, the clock is one bit per run.

Steps follow the commit points of the code. The request thread: `ReserveScanSlot`,
`LaunchEngine` or `LaunchFails`, `Register`, `RecordStart` or
`RecordStartFails`. The reader: `ChildExited`, for chunked runs also `NextChild` (it
looks whether it was told to stop), `SpawnChild`, `AdoptChild` (the child is
registered), `UpdatePid`, `ChunkingEnds`; then `FinalizeRun` (verdict and `mark_finalizing`),
`EnrichRun`, `FinalizeScanHistory`, `Deliver`. The stop request: `RequestStop`,
`TerminateProcess`. The reaper: `Boot`, then per row `ClaimForRecovery`,
`ReclaimFinalizing`, `ProbeEngine`, `PollEngine`, `JudgeReport`, `EnrichReport`,
`FinishCompleted`, `FinishFailed`, `DeliverFinished`, and `Booted`. The
environment: engines save and exit, deadlines pass, strangers take pids,
workers crash together (`Rolling` FALSE) or one at a time (`Rolling` TRUE).

`Kinds` tells apart what the code treats differently: `chain` runs (one engine),
`chunked` runs (`Children` subprocesses, each recorded by `update_pid`), and
`stage` runs, whose report never has the stage that `report_complete` asks for.
`StoreMayFail` lets every commit raise, where the code catches it or not.

### CaptureDaemon and LiveCapture

`CaptureDaemon` is capd for any client: `StartSession`, `StopSession`,
`FinishStop`, `OpenStream`, the poll of the stats loop in two halves
(`PollLook` reads the process and the directory without a lock, `PollReport`
accounts for it under the lock), `SendFrame` (which reaps a session that has
ended), `RotateFile` and `DumpcapExits` for dumpcap, `CapdCrash` and
`CapdRestart`. A file is its number in the ring; numbers never wrap, so a
directory listing is the number of the newest file (`written`), and what is on
disk are the last `RingFiles` (`OnDisk`). `sup` is the account of
`CaptureSupervisor`: closed, active, highest seen, lost.

`LiveCapture` extends it with the web process. Start: `CountSessions`,
`AcquireInterface` (lock, then row) or `InterfaceInUse`, `CapdStarts` or
`CapdRefuses`, then `StartSucceeds` and `HubStarts`, or `StartFails`. Stop:
`RequestStop`, `StopReachesCapd`, then `StopSucceeds`, or `StopIsRefused` and
`StopFails`. The hub thread: `HubConnects`, `HubReads`, `HubQuits`,
`HubLosesCapd`, `CapdDies` (the crash, and the end of file it means to a hub that
waits for a reply), `HubEnds` (the finalizer). `WebRestart` forgets threads, hubs
and locks and keeps the rows. An RPC in flight is a value of `starter` or
`stopper`, so that anything may happen between request and answer.

Abstractions: the last commit of a stop and of the finalizer is one step with
the locks and hubs given back right after it; one stop request at a time per
session; one stats stream per session; RPC timeouts, sizes, rates and packet
totals, SSE subscribers, the policy gates and captures on agents are left out.

### PcapTransfer

The way of a rotated file from an agent to its scan.

| Model | Code |
|---|---|
| `file[f]`, `next[f]` | where the agent is with a file: open, closed, listed by a poll or by the stop, being shipped, spooled, shipped; the next frame |
| `link`, `opened`, `reporter`, `stopping`, `flush` | `_current_writer`, connections so far, `_stats_reporter` per session, `_cmd_stop`, `_flush_spool` |
| `wire[c]`, `gw[c]` | frames sent and not yet handled, the gateway's side of a connection |
| `creating`, `xfer`, `content`, `partial`, `final`, `finishing` | `begin_pcap_upload` under `pcap_create_lock`, `pcap_transfers`, the upload files by inode, their two names, `finish_pcap_upload` |
| `queue`, `scan`, `report`, `row`, `judged` | `launch_scan` before and under the session's lock, the engine's report, the session's `scan_history` row |

The executor calls of the gateway are two steps, so that a connection may close
in between. Upload files are inodes: a `.partial` that one connection deletes or
renames may still be open in another. Faults (a link that drops, an agent or a
gateway that stops, a database call that fails, a file the ring takes back) are
counted, so that a property can ask what holds without any.

### AgentEnrollment

`status`, `cred`, `token` are the rows of `Agent`, `AgentCredential` and
`AgentEnrollmentToken`; `conn` is the handler of a connection, `current` is
`GatewayServer._connections`, `request` the operators' requests. Every function
of `db.py` and `fleet/api.py` that reads a row and commits later is two steps;
`Written` is what the ORM does with a column whose value has not changed since
it was read. A connection goes `Authenticate`, `AuthenticateCommits` or
`EnrollReads` (locking the token's row), `EnrollCommits` or `EnrollFails`; then
`Register` or `ReplyFails`, `Heartbeat`, `HeartbeatCommits`, `ConnectionEnds`,
`CleanUp`, `MarkOfflineReads`, `MarkOfflineCommits`. Requests mint, revoke,
rotate, delete and cut (`ForceDisconnect`). `record_heartbeat` is throttled in
the code; here any frame may write.

### CaptureSchedule

The scheduler thread with the code's times: a tick reads the clock once
(`TickDue`), starts an agent at a time (`StartAgent`), commits `now`
(`TickDone`) and sleeps `Poll`; a tick in which nothing is due, and any other, may
take up to `MaxWork`, for it also starts the agents of the other projects
(`Sleep`). `starts` counts the starts of an agent for a
slot, `handled` has the slots of completed ticks, `calm` says since when nothing
disturbed the schedule. Days are shortened to `DayLength` units.

### ScanPipeline

Stages 2 and 3 of the engine and the merge between them, as operators over a
capture (a sequence of packet records; the time of a packet is its position):
`Tshark` and `Bronze` make conversations, `Merge` joins those of the chunks,
`BuildGraph`, `MergeL2Nodes` and `Levels` make the topology. `Readings` are the
choices the code leaves to the iteration order of a set. Four actions run the
pipeline over every cutting of a capture.

### RiskSurface

Stage 4, over the topology and the conversations of `ScanPipeline`. `Devices` and
`MacTable` are the end of `TopologyBuilder.build` (vendors, roles, the MAC
table), `Surface` is `RiskSurface.score` with an operator per group of rules
(`ZoneRules`, `WriteRules`, `PlcRules`, `Beacons`, `Queries`, ...), `Malware` the
IOC stage, `Vulnerabilities` is `correlate_ics_vulnerabilities`. A finding is a
category and its nodes. `AssessWhole` is what `run_chain` does, `Assess` what
`run_chain_from_conversations` does with a merged capture, which has fewer
stages. The one new action, `Score`, sets `risk`. Thresholds, port classes, the
OUI table and the catalog are constants; the instance lowers the thresholds so
that four packets reach them.

### PluginRules

The rules of the four plugins as operators over a scored scan: `Apt` (fan-outs,
lateral movement, OT reconnaissance, new protocols, regular calls), `Arp`
(claims, conflicts, scans, storms, unasked replies, moved addresses), `Advised`
(CISA) and `Techniques` (MITRE: conditions over categories, nested), with
`Override` for rule packs that replace each other's settings. `Frames` are the
ARP observations a report carries (none when it was chunked). `ScoreAndEnrich`
is `Score` followed by the plugins and sets `extras`.

### Enrichment

Who runs the plugins and what becomes of their files. `report` is the report
file (nothing, part, whole or torn; the extensions and the plugin findings
merged into it), `sidecar` the file of each plugin, `plugins` the processes,
`queue` what the engine and the web process still have to run. A plugin has one
finding, and `report.listed` says how often it is among the report's risk
findings: `LoadReport` drops those of every plugin before it adds them again. The
engine's saves are `OpenReport` and `CloseReport`, for `open(path, "w")` empties the file
first; `FinalSave`, `MergeReport` (`write_enriched`, an `os.replace`) and
`EngineKilled` end a chain. The web process: `Finalize`, `WorkerKilled`,
`Recover`, `Complete`. Anybody else: `EnrichCommand`, `ViewReport` (MITRE, when
its sidecar is missing). A plugin is `StartPlugin`, `OpenSidecar`,
`CloseSidecar` or `PluginFails`.

### ProjectReports

`Rollup` (`aggregate_reports`) over a listing in any order and `Baseline`
(`compute_asset_baseline`) over the newest reports, with the actions that save a
report and ask for either. Report names are unrelated to the order in which
reports are written. Both are loops in the code and recursive functions here:
`Rollups(listing)` is what has been rolled up after each report (`AddReport`),
`Appearances` the entry of one peer or finding after each report that shows the
asset (`Stretched`). Reports and nodes are named by their places: `Loaded` are
the newest reports, and `ByTime` puts some of them in the order of their times. That
time, `capture_info.timestamp_start`, is when the scan began (`engine.py:6088`),
not when the traffic was captured; the route calls it the capture time.

### TicketDelivery

`Report` is the list of dedup keys of a project's findings; `at` and `todo` are
the deliveries under way (`todo` the places in the report of the findings a
delivery took up and has not left, in report order), `ledger` is `webhook_tickets`, `tickets` the tracker.
`lost` counts tickets whose record was never written.

### ReportExports, IocHunt, ProjectAudit

What requests compute from reports, as operators. `Bundle`, `OcsfRecords`,
`SigmaRules` and `Layer` are the exports of a report, `MergedBundle`,
`MergedRules`, `ProjectLayer`, `AllNodes` and `AllViolations` those of a project;
an object is its identifier and what it watches. A report is a record whose tables
are sequences, and what an export says is a set over the places of those tables,
so that the first row of a kind is the row at the least place. `Matches` are the
places (table, row, column) at which an indicator is found, `Scan` one more
indicator against a report, `Scans` all of a list, and `Hunt` one turn of the
loop of `scan_ioc_list_against_reports`, with `PerReport` and `Total` for its
caps; `AssetsOf` the viewer's matches. `CreateList`, `ReplaceList`, `DeleteList`,
`BeginImport` and `CommitImport` are the requests that edit a list; an import is
two steps, because it looks for every entry before it commits. `Audit` is the
last of `Trackers`, which apply `Track` to the reports in the order of their times.

### ReportLibrary

`files` says of each report, and of the OCSF file beside it, whether it is
absent, partly written or whole; `engine` is the scan that writes (the report
`Saves` times, then the export: `OpenFile`, `CloseFile`, `KillEngine`),
`DeleteReport` is `api_report_delete`, and `reading` is a request that has listed
the directory (`Ask`, `AskOne`) and takes one report at a time: `Load`, or `Look`
(the export is there) and `Serve` or `ServeFails`. A hunt searches each report
as it is loaded, and `reading.found` is what it has found so far. Four exports are written
beside a report; one stands for them. `MCServices` puts this,
`TicketDelivery` and `CaptureSchedule` in one run; a behaviour is one of one of
them.

## 3. Runs

Every bound is a CONSTANT of the cfg. States are distinct states.

| Run | Instance | What it asks |
|---|---|---|
| `drained` | 2 workers, 1 chain run, 2 pids, strangers on pids, failing commits, 2 crashes of all workers; 43 thousand states | `DeliveredOnce`, `GoodReportKept`, `CompletedHasReport`, refinement of `RunLifecycle` (`ImplementsHistory`) |
| `reattach` | 1 worker, 2 chain runs of one upload, 2 pids, 1 crash | `AttachesToOwnEngine`, violated: section 5 |
| `rolling` | 2 workers that crash one at a time, chain or stage run; 215 thousand states | `NoVerdictOverLiveEngine`, which is left without a common restart |
| `restart` | 1 worker, chain or chunked run, 1 crash, fairness; 3.5 thousand states | `OrphansSettle` |
| `settle` | 1 worker, 2 chunked runs for 1 slot, no crash, fairness; 92 thousand states | `EnginesWithinLimit`, `RunsSettle`, `SlotsReturn` |
| `capture` | 2 sessions on a NIC and `any`, a crash of capd, a web restart, no rotation; 1.4 million states | `OneCapturePerInterface`, `LiveIsKnown`, `StoppedHasStopped` |
| `rotation` | 1 session, a ring of 2, 4 files, a crash, a restart, fairness; 103 thousand states | `HandedOnce`, `FilesAccounted`, `ExpiredIsScanned`, `CaptureSettles` |
| `transfer` | up to 2 files of a session, 2 chunks and a completion each, 3 connections; 2 faults when one file is written, none with two; fairness | `WholeOverTwoLinks`, `RowKeepsItsFile`, `LostOnlyByFault`, `ShippedIsScanned` |
| `enrollment` | 1 agent, 2 connections, 2 requests at a time, 3 credentials, 1 standing and 1 one-time token; 749 thousand states; fairness | `OpenIsCurrent`, `OneCredentialPerRotation`, `ConnectedIsOnline`, `RevokedIsCutOff` |
| `revived` | the same, without fairness | `RevokedStaysRevoked`, violated: section 5 |
| `analysis` | captures of up to 4 packets of one of 8 scenes (3 to 5 kinds of packet each: LLDP and web servers, a probe, control and identity, random names, an answer from outside, reads, ARP, file shares), both dissectors, every cutting; up to 3 of 6 report contents, every name and listing order; 3 plugins, 2 faults and one viewer or command over the files of one run; 475 thousand states | `TotalsSurviveCuts`, `CutsKeepAnalysis`, `NoDeviceTwice`, `FindingsAreOnTheMap`, `ClaimsAreFound`, `RollupIgnoresListing`, `NewsIsOfTheLastScan`, `FinishedShowsAll` |
| `services` | 2 deliveries at a time, 4 findings of which two share a key and one is refused, a cap of 2, 3 faults, fairness; or 3 scans of 2 saves and one export each, deletions, one request at a time, 2 pastes for a list, 2 nodes a pattern, 3 matches a report, 2 hits in all; or a day of 7 units, slots at 1 and 5, poll 2, a tick of up to 1, grace 4, one failure or restart, one edit, 13 units of time; 1.5 million states | `TicketsAreBounded`, `TicketsDrain`; `ExportsCarryEveryReport`, `HuntMissesOnlyAtTheCap`, `AuditFollowsTheNewestReport`; `OncePerSlot`, `SlotFires` |

Why the bounds are enough. The races over a row need two parties that write it:
two workers, a thread and a reaper, two handlers, a handler and a request; more
of them repeat the same steps. Two pids let a pid be reused while another is
held. Two crashes let a row be recovered by a boot that itself dies. Two children
of a chunked run give one intermediate and one last. Two sessions are what a
conflict takes. A ring of two with four files evicts a file that was seen and
one that was not. Two chunks and a completion are a first chunk (which opens the
upload), a later one and the end; the third connection is where published files
stop being whole. Two files of one session contend for its lock and its row;
links that drop there are left to the run with one file, because uploads of two
files meet only in that lock. Three credentials let an agent enroll, rotate and
enroll again. A slot at 5 of 7 units has its grace period cut by midnight, those
at 1 and 5 are within one grace period of each other, and 13 units reach the last
slot of the second day. Four packets give a conversation with both directions, its LLDP
frames and a probe, cut anywhere, and with the thresholds lowered each rule
that a scene is about fires with and without its exceptions; the scenes are apart
because packets of different scenes meet in no rule. A viewer and two faults make
two processes meet at a sidecar and a killed one leave it torn. Three scans leave
one report before, one under and one after a request's listing, and their times
are not in the order of their names; caps of two and three are reached by the
contents with something left over. Lists are edited before the first scan only: a
request has read its list before it opens a report. Three project reports with a limit of two let a report
fall out of the history. One malware finding of the
reports has an identifier of its own; the others share the one the code falls back
to, and the merge keeps one of them. The invariants that are proved (section 6) do not
depend on any of this.

Symmetry is used in `drained`, `rolling` and `capture`, which check no liveness.
Deadlock is not checked: when every run, session, file, slot or finding is
settled and the faults are used up, the modelled system has nothing left to do. The parts of `analysis`, and those of
`services`, share no variable; each moves while the others rest in their initial
states, which loses no behaviour of either.

`settle` and `restart` are separate because `RunsSettle` fails across a crash
(section 5, `stuck_finalizing`), and `OrphansSettle` is what remains true.

## 4. Fairness

`ScanRecovery!FairSpec`: threads of a live process run (weak fairness of
the request, reader and reaper steps), engines end (the
analysis of a finite file terminates; nothing in the web process enforces a
timeout on it, `timeout_at` being read only by the reaper at boot), and a worker that is down comes back
(`docker-compose.yml` says `restart: unless-stopped`; gunicorn respawns). Nobody
owes a request, a stop, a crash, the passing of a deadline, or that a stranger
gives up a pid.

`LiveCapture!FairSpec`: the threads of the web process and capd's event loop
run, and a dumpcap ends, because a capture that expires was given
`-a duration:N`; a capture without duration ends only on request, and for it
`CaptureSettles` says something about stops and crashes only. Starts, stop
requests, crashes and restarts are not fair. `CaptureSettles` exempts a web
process that restarted (`hub = "off"`): after a restart nothing looks at
`capture_sessions`.

`PcapTransfer!FairSpec`: asyncio runs its tasks, executor calls and engines end,
the agent reconnects for ever (`run_forever`). Rotations, polls, stops and faults
are not fair.

`AgentEnrollment!FairSpec`: handlers and database calls go on, a connected agent
sends heartbeats (`_heartbeat_loop` on the agent, a read timeout on the gateway).
Nobody has to connect, to disconnect or to ask for anything.

`TicketDelivery!FairSpec`, which `ServicesSpec` keeps for its part: the
thread of a delivery runs to its end, and scans of
the project keep completing with the same findings: without another scan the code
promises nothing to a finding above the cap ("the rest will be retried next
scan", `webhook.py:418`).

`CaptureSchedule`, the analysis and the reports directory need none: `SlotFires` is stated
with the clock, as an invariant.

## 5. Disagreements

Two runs end in a counterexample. `revived`: `authenticate_agent` reads an agent
that is not revoked, a request revokes it and commits, and the commit of the
authentication writes `online` over it (`fleet/gateway/db.py:361`). All the
agent's credentials are revoked by then, yet its connection is registered, goes
on, and the agent may be commanded until it disconnects. The sentence it
contradicts is `docs/fleet-agents.md:145`. A heartbeat's commit (`db.py:409`) does
the same, and so does a rotation token that was issued before the revocation: it
stays live, and redeeming it revives the row (`db.py:280`).

`reattach`: two scans of one upload have the same `--pcap` (`app.py:5195`), and all
scans of an installation the same `--dpi-binary` (`app.py:5199`); any one path
that is seen again is enough for `_live_argv_matches` (`recovery.py:147-150`). After
a crash the pid of one scan's engine, which has exited, may belong to that of the
other: the reaper takes it for the former's and watches it. The sentence it
contradicts is `recovery.py:121-128`, "the per-run-unique pcap or report path",
"distinctive" against "an unrelated, concurrently-running scan that happens to have
reused this PID", and so `docs/run-store-and-recovery.md:50-66`. No
theorem of section 6 assumes that command lines differ.

Other sentences of the repository that a model contradicts. Each is reproduced by
the module and property named, with the constants of the run named and the changes
given; the run was left out, since only so many can be kept.

| Where | Reproduced by | What happens, against what is written |
|---|---|---|
| `recovery.py:307` | `MCScanRecovery`, `RunsSettle`; `settle` with chain runs and `MaxCrashes = 1` | A worker that dies while it enriches leaves `finalizing`; the next boot skips the row unless its deadline has passed, and rows are looked at only at boot. `README.md:67`: "Flask restarts no longer leave scans stuck in `running`" |
| `app.py:1248` | `DeliveredOnce`; `rolling` with chain runs | Between the engine's exit and `mark_finalizing` a booting peer claims the row; both complete it and both deliver. `webhook.py:5-6`: "a single signed HTTP POST per completed scan" |
| `app.py:899` | `EnginesWithinLimit`; `settle` with chain runs and `RunStore = "db"` | In db mode the check counts rows and the reservation is a registry entry. `app.py:966-967`: "a reservation counts against the very next check" |
| `recovery.py:165` | `GoodReportKept`; `rolling` with `Kinds = {"stage"}` | `report_complete` asks for a stage that `ingest`, `dissect` and `topology` runs never write: finished runs are reaped as failed. `recovery.py:15-16`: "ingest report, mark completed" |
| `app.py:5346` | `NoVerdictOverLiveEngine`; `restart` with `Kinds = {"chunked"}` | Between `Popen` and `update_pid` the row holds the previous child's pid. `docs/run-store-and-recovery.md:126-127`: "so recovery sees the currently-running child" |
| `capture/api.py:751` | `MCLiveCapture`, `StoppedIsScanned`; `rotation` | The file that an explicit stop closes is only counted. `docs/live-capture.md:237`: "For each closed PCAP, the web app starts a normal MarlinSpike scan" |
| `fleet/gateway/db.py:562` | `MCPcapTransfer`, `PublishedIsWhole`; `transfer` | With three overlapping connections a tardy task of the first writes to or publishes the upload of the third. "The file is already fully written and closed" |
| `agent/client.py:497`, `502` | `SentIsPublished`; `transfer` | What the gateway has not handled when the link drops is lost: the agent has removed it |
| `scheduler.py:39` | `CaptureSchedule`, `EverySlotFires`; `services` | A slot in the last minutes of a day is missed when its tick falls after midnight |
| `scheduler.py:87-107` | `CaptureSchedule`, `SlotFires` without `Punctual`; `services` with `DayLength = 9` and `MaxWork = 4` | Agents are started one after the other, those of all projects in one tick, and each may wait 15 s for its answer (`config.py:295`): with nine that do not answer, a tick and a poll of 60 s take longer than the grace of 180 s, and a slot between is missed. `scheduler.py:39-41`: the grace is "wide enough to tolerate this thread's own 60s poll granularity plus any ordinary scheduling jitter" |

Seen in the same models, without a sentence against them. Scans: a second crash
while the reaper holds its claim leaves the row `claimed` for ever
(`recovery.py:309`); a booting peer fails a chunked run that is alive between two
children; the watcher compares the command line once and then polls a bare pid
(`recovery.py:50-52`); `record_start` that raises loses the slot; with a crash, engines of dead workers
run beside those of the next, above the limit; runs recovered
without a plugin are not flagged, because `enrich.run_all` does not raise;
a
finalizer slower than the deadline is taken for dead (`run_store.py:237-238`).
Live capture: a stop that arrives after the expired session was reaped records
`failed` (`capture/api.py:735`); concurrent starts all pass
`LIVE_CAPTURE_MAX_CONCURRENT` (`:546`); a hub for a session capd does not know
waits until capd ends (`capture/client.py:121`); a start that succeeds after a stop
overwrites its verdict with `running`. Fleet: a stop while a poll is in flight
loses the files the poll was told of; after a reconnect no reporter runs for
captures that go on (`agent/client.py:278`); a completion that does not match its
upload discards the newer `.partial`; two concurrent mints leave two live standing
tokens (`fleet/api.py:82-87`); the deletion of an agent does not look whether it
was enrolled again meanwhile; an agent whose login answer cannot be sent, or whose
gateway restarts, stays `online`. Tickets: two scans at once, a failing record, a
timeout after the tracker's commit, or a report that names a key twice give
duplicates; as many refused findings as the cap admits starve the rest.

Read off the code while modelling the analysis (`TotalsSurviveCuts` and its
neighbours are worded so that these are outside): the merge keys a conversation by
MACs while Bronze events are keyed by addresses too (`app.py:1141`,
`engine.py:790`), so with that dissector flows behind a router are joined when a
capture is chunked; an LLDP management address that no traffic carries leaves a
device twice (`engine.py:3475`); broadcast nodes get a Purdue level
(`engine.py:3638-3675`); the text of `frame.time` is compared as text, across
months; of an address with two MACs the roll-up takes the one listed first;
`in_reports` counts findings, not reports (`baselines.py:422`); the scan profile
is looked up under the session's user, not the project's owner (`app.py:4283`).

The analysis of a chunked capture. `run_chain_from_conversations` says "Mirror
run_chain"; `CutsKeepFindings` and `CutsKeepPluginFindings` name what is not
mirrored (`OfSpans`, `OfOperations`, `OfAdvisories`, `Unsteady`):

* `_merge_chunk_conversations` lists the fields it unites (`app.py:1093`), and
  `operations_seen`, `protocol_attributes`, `protocol_object_refs` and
  `dns_entropy_ratio` are not among them: what rests on the operations of a later
  chunk is not found.
* Stage 4c (advisories) and the Bronze seed events of the malware stage are
  missing (`engine.py:6615-6740`), and so are `arp_observations` and
  `l2_anomalies`: a chunked report carries no advisories and no ARP findings.

Rules that look for something else than the engine produces (the operators say
the same, so no property of the runs depends on it):

* `_check_plc_integrity` (`engine.py:4775`) and `_check_baseline_deviations`
  (`:4752`, `:4763`) ask for roles `_assign_roles` does not give, though
  `FEATURES.md:126` and `tests/test_ot_security.py:36-56` promise their findings;
  `_check_polling_jitter` asks for "MODBUS", conversations say "Modbus TCP"; the
  same holds of `OT_PROTOCOLS`, `polling_source_roles` and
  `ROLE_PROTOCOL_EXPECTATIONS` of the APT plugin; `Conversation.notes`,
  `auth_observed` and `uncatalogged` are never set.
* `_check_rogue_and_dual_homed` looks nodes up by MAC, which are keyed by address;
  `correlate_ics_vulnerabilities` names a device without an address as `""`; a
  vendor that turns a device into network equipment sets its Purdue level after
  the levels were inferred; periodic LLDP frames count as beacons
  (`engine.py:5266`); the service ports of a node that `_merge_l2_nodes` absorbs
  are lost.
* `plugin_finding_to_risk_finding` reads neither `mac`, `claimed_ips`, `dst_ip`
  nor `dst_ips`: `ARP_MAC_CLAIMS_MANY_IPS` and `ARP_BROADCAST_STORM` name no
  device, others only one end. `_detect_scan_from_convs` compares a ratio that is
  at least 1 with 0.2 and finds nothing; `_detect_broadcast_storm` takes every
  capture for one minute. An ARP request puts the address it asks for on the map,
  with the broadcast MAC. The CISA plugin lets "siemens s7-300" stand for every
  word of the Siemens group (`_build_term_groups`).

Enrichment (`FinishedShowsAll` states the exceptions):

* The first MITRE run of a chain reads the raw report, later ones the merged one,
  so `--enrich` and a later `enrich` need not agree (`enrich.py:16-18` says they
  do). Sidecars are written in place: a plugin that is killed by its timeout
  leaves a torn one. A viewer (`app.py:5942`, `5987`, `6033`, `6230`, `6331`,
  `6358`) may run MITRE on a report of an earlier stage and write its sidecar
  late.
* The last `report.save` truncates a report that stage 4 had completed: an engine
  that is killed in between loses it. A SIGTERM during enrichment saves the raw
  report again, as interrupted. A recovered run whose engine died before
  `write_enriched` has sidecars only, and `webhook.deliver_for_scan` reads the
  raw report: its plugin findings are never delivered.

Exports, hunts and the audit:

* A report has neither `findings` nor `iocs` at its top (the engine writes
  `risk_findings`, and `purdue_violations` with `src` and `dst`). `/compliance`
  (`app.py:4549`, `4574`) therefore always gives full marks, the STIX download of
  a project is empty, Snort gets violations only, and the Ansible playbook, which
  asks for `src_ip`, always falls back to its example address.
* The project routes `/stix`, `/navigator` and `/ocsf` (`app.py:4725-4892`) read
  the raw report, without `_report_with_mitre_fields`, for which the routes of a
  single report were fixed (comment at `app.py:5975-5981`): they hold no ATT&CK
  data and `/navigator` always answers 404. The merge of layers drops the "seen
  in" notes of an entry that a higher score replaces (`app.py:4773-4776`: union).
* The Sigma rule for `MODBUS_WRITE_ANON` filters out the very nodes of its finding
  (`emit/sigma.py:280-297`). STIX bundles hold no `relationship` objects, which
  the module's docstring lists, and findings that share category and nodes repeat
  an identifier. Malware findings have no `finding_id` in the contract, so all get
  the identifier of "unknown" (`stix.py:272`): the merged bundle of a project keeps
  one of them, though `app.py:4849-4855` says "the same finding across reports
  appears once". `ExportsCarryEveryReport` speaks of the objects with an identifier
  of their own.
* What lies beside a report is preferred to rendering it, and is written in
  place after the report can be seen: a torn or empty one is served for good, and
  one that was written before a later enrichment hides it. The project OCSF
  stream (`app.py:4743`) opens it outside its `try`: if the report is deleted in
  between, the answer ends after its 200. Deleting a report under its chain
  leaves files behind or brings the report back; `-map.yaml` is never deleted.
* A hunt says that it was truncated at 1000 hits, and does not at 50 matches of a
  report (`docs/ioc-threat-hunting.md`, "Negative-result hunting"). The same page
  (`:163-170`) lists surfaces that `iocs.py:165-256` does not search: the domains of
  C2 indicators and the evidence of findings. It searches malware findings for
  `sha256` and `md5`, which those findings do not have: the contract
  (`docs/extensibility-contracts.md:126`) has `observable_field` and
  `observable_value`, and the engine copies a hash to `artifact_sha256`
  (`engine.py:5733`). A hunt for a hash is then negative below every cap.
  `HuntMissesOnlyAtTheCap` is about the listed surfaces that are searched. It looks
  for MACs in `src_mac` and `dst_mac` of C2 indicators, which the engine has in `src`
  and `dst` (`engine.py:5240-5260`). The page also
  says that inline comments are not supported and unrecognised values are
  skipped; the parser strips the former and stores the latter as `ip`. An import
  beside a replacement skips entries the replacement then removes.
* `run_chain` drops the ids of advisories (`engine.py:6242-6251`), so the audit
  counts every vulnerable device twice, under its CVE and under `CISA-ADVISORY`;
  several CVEs of a device are one there, and an entry that comes back stays
  remediated, because the branch for findings does not reopen
  (`project_audit.py:116-148`). `AuditFollowsTheNewestReport` is therefore about
  what is seen at devices. Devices without an address share the entry `unknown`.
* The report diff (`app.py:5829`) and `_finalize_run` (`app.py:1230`) read
  `topology`, which chain reports do not have (`recovery.py:180` says so).
* The history of an asset. `docs/asset-baselines.md:56-58` orders reports "by capture
  timestamp", and `:96-97`, `:108` call a peer new when no earlier report has it.
  The time in a report is that of its scan (`datetime.now()`, `engine.py:6088`,
  `6603`, `6628`), so the peers of an old capture that is scanned today are new.
  `:233` says "The default walks the entire project", and the route reads the newest
  30 reports (`app.py:4201-4204`): a peer known from older ones is new as well.
  `NewsIsOfTheLastScan` says what remains: an entry is new exactly if, of the
  reports that were read, only the one whose scan began last shows it.
* `api_projects_delete` removes the files before the row, and the foreign keys of
  tags, notes and IOC lists have no `ondelete` (`models.py:221`, `239`, `274`).

## 6. Proofs

TLAPS checks all leaves with Z3, Zenon and LS4, from the constants' assumptions
alone (`ConstantsAssumption`, `DaemonAssumption`, `CaptureAssumption`,
`TransferAssumption`, `EnrollmentAssumption`, `ScheduleAssumption`,
`TicketAssumption`, `EnrichmentAssumption`, `LibraryAssumption`,
`ProjectAssumption`) and the assumptions a theorem names. All but the last two say
which set a constant is from, and that a command line names at least one path. `ProjectAssumption` adds that the limit of a baseline
is at least 1 (the route clamps it), that a severity is one of the scale
(`_norm_severity`), and that every finding has a text: for one without, the
roll-up keeps the text of whichever report with a text it met before, and does
depend on the listing. `LibraryAssumption` also says what a directory of reports
looks like:

* no two reports of a directory have the same name, and a pasted indicator has one
  of the types of `VALID_IOC_TYPES` (`iocs.py`), which the routes check;
* a report has the tables that the exports read, with fields from the sets they
  are written from (`IsReport`), and is not one of the two values that stand for
  a file that cannot be read;
* two malware findings with an identifier of their own (`finding_id`), and the same
  one, show the same observable. Findings without one may differ: what the merge
  does to them is under section 5;
* no address in a report is spelled like the name of a capture, and no CVE like the
  audit's name for an advisory without one (`Advisory`). Both are only
  needed to tell an entry from a label.

`ScanRecoveryProofs`, for any number of workers, runs, pids and crashes:

* `TypeCorrect`, and `CompletedReports` (`CompletedHasReport`) in every
  deployment. The latter needs `ReportInv`: whoever is about to write
  `completed`, thread or job, has seen a finished report, and a report stays
  finished.
* Under `~Rolling`, that is when workers restart together: `RestartSafe`
  (`RestartInv`), `ReconciledByOne`, `NoDoubleDelivery`, `VerdictsFinal`,
  `HistoryImplemented`. The argument: a claim moves a row out of the state in
  which it can be claimed, so at most one job works on a row; a job exists only
  for a row whose thread died, because every worker booted before any served;
  hence there is never a second writer. `RestartInv` spells that out and is
  needed because none of the results is inductive alone: each speaks of what is
  written, not of who may still write. `JobEffect` and `ServeEffect` summarise
  what a job or thread step does to the row, so that each later proof splits on
  a few outcomes instead of on every action.
  `OneReconciler` and `VerdictIsFinal` are proved only: `DeliveredOnce` and
  `ImplementsHistory`, which `drained` checks, are what they are for.

Its second half is about the engine processes, with rolling restarts, reused pids
and commits that fail:

* `NoVerdictBeforeExit` (`NoVerdictOverLiveEngine`). `EngineInv` says, for each
  place at which a thread or a job can stand, whether the engine is still alive
  there: the row of a running run holds the pid of a live engine, a poller
  watches that very pid, and whoever is past "has it exited?" knows that it has.
  It assumes `"chunked" \notin Kinds`: between `Popen` and `update_pid` the row of a
  chunked run holds the pid of the previous child, a worker that dies there leaves
  the next child to a job that finds the old pid gone, and TLC shows the property
  violated (section 5; `rolling` has no chunked run for this reason).
* `GoodReportsKept` (`GoodReportKept`): `KeptInv` adds that whoever is about to
  write `failed` has an exit status, or has looked for a complete report where
  there will never be one. It assumes chain runs: `report_complete` knows the
  last stage of a chain only.
* `EnginesLimited`: each of any number of workers keeps its live engines within
  the limit; `OneWorkerWithinLimit` is `EnginesWithinLimit`, the case of one worker.
  `SlotsInv`: a live engine has a thread at a point where the registry counts
  the run. Both assume the in-memory registry and no crash, as the code does: a
  worker that comes back counts nothing it does not know, and workers do not
  count each other's runs.

`CaptureProofs`:

* `OneCapture`, `NeverForgotten`, `ListedOnce`, for capd under arbitrary
  clients. `KnownInv` adds what the coroutines remember across a wait: a poll
  or a frame that says "not running" is still right when it is used, since no
  session is started twice. Hence a session is dropped only when it has ended,
  every live dumpcap is in the table, and the conflict check of a start sees
  all of them. `ListedInv`: what was handed out is in the closed set.
* `UsesDaemon`: each step of `LiveCapture` is a step of `CaptureDaemon` or leaves
  it alone, so the three results hold of the composed system.
* `StoppedMeansStopped` (`StoppedHasStopped`), for any number of sessions,
  crashes and restarts. `EndedInv` adds that a remembered last frame, too, is
  evidence of an ended dumpcap.

and, about the files of a capture:

* `DaemonTypes`, `CaptureTypes`: the type invariants of capd and of the whole.
* `FilesAccountedFor` (`FilesAccounted`), for any ring, traffic and number of
  sessions. `FilesInv` says that the supervisor is behind the directory and
  never ahead of it (`Listing`), that below the newest file it has seen every
  file is listed or counted as lost (`Counted`), and that nobody learns of the
  end of a capture before the final snapshot (`Finished`). The count is a
  cardinality; `UnionBound` is what a poll needs of it.
* `ExpiryIsScanned` (`ExpiredIsScanned`). `ScansInv` follows a file from capd's
  closed set through the frame that is about to be sent to the hub's scan: what
  the hub has not scanned is in that frame, unless a stop listed it.

`TransferProofs`, for any files, sessions, chunks, connections and faults:

* `RowVerdictIsOfItsFile` (`RowKeepsItsFile`). `RowInv` adds that one scan of a
  session holds its lock and that the row names its file from `_record_start` to
  `_record_finish`: then the verdict that is written is that file's. A restart of
  the gateway judges the file the row names. This is the race the comment at
  `scan.py:80` is about.
* `TransferTypes`: the type invariant. It assumes finitely many files, since
  `_flush_spool` lists them.
* `PublishedIsWholeOverTwo` (`WholeOverTwoLinks`). `LinkInv`: frames of a file are
  in order on a connection, none twice, and those of the agent's own connection
  were sent by the ship task that is still at it. Hence a connection that has
  handled a file's `pcap_complete`, or was left, has no further frame of it
  (`NoMore`, and `NoMoreStays`: for good). `WholeInv`: an upload's chunks are in
  its inode, and that is the one at the `.partial` path unless a connection that
  is done with the file has taken it away; an upload that was found whole
  publishes a whole file or nothing. With three connections that fails, as the
  run's `opened <= 2` says: two older ones can be at the file's `.partial` at once.
* `RemovedIsUnderway` (`LostOnlyByFault`). `SafeInv`, while `faults = 0`: the
  first link stands, and every frame that was sent waits, is being handled, is
  in the open upload, or the file was found whole; since `pcap_complete` is the
  last frame, it finds the upload whole.

`EnrollmentProofs`:

* `EnrollmentTypes` (`TypeOK`), whose conjunct on handlers says that a token is
  held exactly while it is redeemed.
* `RotationGivesOneCredential` (`OneCredentialPerRotation`). `RotationInv` adds
  that a token is redeemed by one handler at a time, stays live meanwhile, and
  that a token that is live has given no credential: the row lock gives the
  first, and `Locked` in the mint and the delete the second.
* `OpenConnectionIsCurrent` (`OpenIsCurrent`), which is inductive as it stands:
  the step that replaces the current connection closes the one it replaces.

`ScheduleProofs`: `ScheduleTypes`, and `StartedOncePerSlot` (`OncePerSlot`) for
any poll interval, grace and number of agents. `StartedOnce` adds that a slot for
which an agent was started lies in the past of the last trigger, or is due in this
very tick with that agent done; what becomes due lies after the last trigger.
`NoSlotMissed` (`SlotFires`), for any length of a day, and a poll and a tick that
together fit into the grace period (`Punctual`, the hypothesis of the property;
no assumption of the module grants it, and section 5 says when it fails).
`SlotInv`: as long as a slot waits, the next tick comes before its grace period
is over, and the last trigger lies before the slot (`Caught`); `ThreadClock`
relates the thread's `wake` and `now` to the clock. It needs no induction over
the day: a slot and the tick that handles it lie in the same day.

`TicketProofs`: `TicketTypes`, and `RecordedTicketsAreBounded`
(`TicketsAreBounded`), for any report, cap, number of threads and faults.
`Counted` is the invariant: until a ticket for a key is recorded, the tickets
that are not lost are those a thread is about to record (`Held`); from then on
no delivery takes the key up, and what was recorded together with what running
deliveries may still create (`Pending`) is within the bound. Both are sets of
pairs of a thread and a place in the report, so that each step moves at most
one element; `TicketsFit` bounds the two together.

`ReportProofs`, what a reader is shown of the reports. Its first half is about one
run, for any plugins in any order, any number of faults, viewers and enrich
commands: `EnrichmentTypes`, and `ViewerShowsAll` (`FinishedShowsAll`).
`Waiting` says that a job waits for the plugin at the head of its queue, and that
only a viewer's MITRE can have read a part of a report; `Phases`, that plugins are
run by the engine or the web process only on a report nobody opens again. Hence
`Shown`: once the web process has run a plugin its sidecar is whole, or is open in
a process that will leave it whole, unless that plugin failed, was clashed with or
read too early. `Turns`: as long as no fault, viewer or command interferes none of
these excuses arises.

Its second half is about the reports of a project, any number of them, whose
scans begin and end in any order. `FilesOK`: names are distinct, and mtimes follow the
order of saving; `AnswersOK`: an answer is what the code makes of the files there
are. The rest follows from what the code computes:

* `NewsAreOfTheLastScan` (`NewsIsOfTheLastScan`). The property compares an answer
  with what the files say, without the code's loop: which scans began before which,
  and which reports show an entry. `SortedInOrder`: a finite set sorted by a
  strict total order is in order, because the ranks of its members are as many as
  the members; so the reports of an asset are in the order of their scans and names
  (`TimesAreOrdered`), and none is missing (`TimesCover`). `EntriesReach`: the entry
  of a peer or a finding reaches from the first to the last report that has it,
  whatever comparisons of times it was stretched by; so the scans at its ends are
  the first and the last to have begun (`EndsBegun`, `HistoryTells`).
* `RollupsIgnoreListing` (`RollupIgnoresListing`). `DocAgrees` says what has been
  rolled up after a set of reports, without an order; one more report keeps it
  (`OneMoreForFindings`, `OneMoreForCounts`, `OneMoreForAssets`), since the ends of
  a set move only past an end (`EndsMove`), and the worst of a worst and some more
  is the worst of all (`WorstOfBoth`). A listing meets every report once
  (`ListingIsWhole`). The key of an asset is its device wherever it was seen
  (`KeyIsDevice`), if no address belongs to two MACs: the code takes the first one
  it meets.

Both go along a listing of any length. `AllTheWay` does so without an induction
rule: a least place at which it fails, which exists because `<` is well-founded on
the naturals, would have a predecessor at which it holds. That a recursive function
has the value its definition gives (`RollupsUnfold`, `AppearancesUnfold`) is shown
in the same way.

`LibraryProofs`, for every directory of reports, every order of scans, deletions
and requests, and every value of the caps:

* `RequestsLoseNothing`: the invariant `LibraryInv`. `DirectoryOK` says that
  what has not been scanned is not there, and that the engine is at the last scan
  begun; `SettledOK`, that no scan writes, or will write, what a request counts on
  (`reading.settled`); `RequestOK`, that whatever a request has read is what a scan
  said there, complete or as it was before its enrichment, or is known to be
  unreadable; `NothingLost`, that each report that stands is still to be visited
  or has been read, or its export was cut short for good. None of them is a property of a run: `services` checks what follows.
* `ExportsCarryAll` (`ExportsCarryEveryReport`). `MergeCarries`: a merge keeps, of
  each identifier, the object of the first report that has it, so it has the
  identifiers of all of them; `BundlesAgree` and `RulesAgree`: two reports that
  give an object the same identifier of its own mean the same by it, so that the
  first one speaks for the others. `Unknown`, the code's fallback, is no such
  identifier.
* `AuditFollowsTheNewest` (`AuditFollowsTheNewestReport`). The place of a report in
  the order of their times is the number of reports before it (`Rank`); ranks
  are distinct, so every report is tracked once and the newest last
  (`TheNewestIsLast`), and `Track` lets what it says stand (`AuditOfTheLast`).
* `HuntsMissOnlyAtTheCap` (`HuntMissesOnlyAtTheCap`). What a report's cap leaves of
  an indicator's matches are those with fewer than so many before them
  (what a documented surface shows has a place, `SurfaceIsSearched`);
  if there are matches at all, and room for one, the least place is among them
  (`FirstOnes`, `ScanStep`). So a scan shows each indicator or is at its cap
  (`ScanShowsAll`), a turn of the hunt keeps what was found, in its order, and
  says so when it drops something (`HuntTurn`), and `HuntOK` carries that
  through the requests, together with `ListsOK` for the list they search for.
  That a scan of a list of any length keeps what its beginning found is `Climb`:
  by the least index at which it could fail, since no induction rule with an
  operator parameter can be used.

Model-checked only. Liveness (`RunsSettle`, `OrphansSettle`, `SlotsReturn`,
`CaptureSettles`, `ShippedIsScanned`, `ConnectedIsOnline`, `RevokedIsCutOff`,
`TicketsDrain`), which together with ENABLED is out of the prover's reach. Of the
properties of `analysis`, those that compare what folds, `SelectSeq` and
`SortSeq` make of sequences of any length: `TotalsSurviveCuts`, `CutsKeepAnalysis`,
`NoDeviceTwice`, `FindingsAreOnTheMap` and `ClaimsAreFound` (whose module
`PluginRules` is recursive besides). What such
an operator returns for every sequence is an induction over data; the way around it
taken in `ReportProofs` asks for definitions by places first. Of the state
machines every safety property that a run checks is proved, apart from the two
that are violated (`RevokedStaysRevoked`, `AttachesToOwnEngine`).

Every property has a mutant: a plausible bug in one mapped definition (they are
the operators with a `Bug:` comment) under which its run finds it violated.

## 7. Not modelled, and why

The map covers the code that keeps state, orders steps or merges results. Most of
the repository's lines are not of that kind, and a model of them would say of each
rule what the rule says:

* the engine's parsers, its device and vendor tables, the parsing of identities,
  rules over fields that no dissector sets (TLS, malformed frames, persistence)
  and the report's layout; of the plugins severities, guidance, workbench views
  and the CISA search without a vendor; compliance, taxonomy and CVE matching:
  tables that map data to data, without state or order;
* of the exports wording, severities, the selections of the Sigma rules and the
  Ansible playbook, which finds none of its inputs in a report;
* the several hundred request handlers of `app.py` that read or write one row in
  one transaction, and everything that renders pages;
* scripts, setup, migrations, translations, LLM calls;
* the pure-Python dissector, a fallback of `tshark` that keeps no times.

Left out although it has state: accounts. The lockout counter, the session version
and reset tokens are columns of one row that concurrent requests read and commit;
updates of the counter can be lost (`auth.py`), and no document promises otherwise.
A line of the engine's output that is not UTF-8 ends the reader's thread with an
exception (`app.py:5320`); lines are not modelled. The limit on live captures is
counted before any of two concurrent starts has a hub (`capture/api.py:546`).
Capture policy checks a request against constants. Project deletion while a scan
runs is not modelled: no row is deleted in `ScanRecovery`; a row deleted under the
reaper's walk (`recovery.py:286`) would end it with an exception. Captures on
agents as the web process sees them (`push_command`, a start that times out while
the agent captures, `server.py:819`) are not modelled either, nor an exception in
the scheduler after some agents were started, beyond `TickFails` (the next tick
then starts them again, `scheduler.py:102`). File names are unique in
`PcapTransfer`; captures that start in the same second on two agents of a project
could share one (`db.py:544`).

## 8. Plan

Done, in this order: `ScanRecovery` and `RunLifecycle`; `CaptureDaemon` and
`LiveCapture`; `PcapTransfer`; `AgentEnrollment`; `CaptureSchedule`;
`ScanPipeline`, `RiskSurface` and `PluginRules`; `ProjectReports`; `Enrichment`;
`TicketDelivery`; `ReportExports`, `IocHunt`, `ProjectAudit` and `ReportLibrary`.

What would come next: for `NoVerdictOverLiveEngine` an account of chunked runs (which
verdicts a reaper may give over a live child); the merge of chunks in the form of
places, like the reports of a project, so that it can be reasoned about; pushed
commands and the rows of captures on agents; deletion of a project under a scan; accounts.

## 9. Running it

    tlc -workers 2 -config drained.cfg MCScanRecovery
    tlc -workers 2 -config capture.cfg MCLiveCapture
    tlc -workers 2 -config transfer.cfg MCPcapTransfer
    tlc -workers 2 -config enrollment.cfg AgentEnrollment
    tlc -workers 2 -config analysis.cfg MCAnalysis
    tlc -workers 2 -config services.cfg MCServices
    tlapm ScanRecoveryProofs.tla
    tlapm LibraryProofs.tla

and so on; `drained`, `reattach`, `rolling`, `restart` and `settle` belong to
`MCScanRecovery`, `capture` and `rotation` to `MCLiveCapture`, `enrollment` and
`revived` to `AgentEnrollment`. `analysis`, `services`, `capture`,
`transfer` and `settle` take half a minute to a minute or two; the others take
seconds. Each proof module takes a few
minutes from nothing.

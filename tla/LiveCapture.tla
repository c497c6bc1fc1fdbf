---------------------------- MODULE LiveCapture ----------------------------
(***************************************************************************)
(* A local live capture: the request threads that start and stop it        *)
(* (capture/api.py), the StatsHub that reads capd's stats stream and the   *)
(* finalizer at its end (capture/sessions.py), the scans of closed files   *)
(* (capture/consumer.py), and the capture_sessions row, over CaptureDaemon.*)
(*                                                                         *)
(* Left out: captures on fleet agents, the SSE subscribers of a hub, the   *)
(* policy gates before the concurrency check.  The last commit of a stop   *)
(* and of the finalizer is one step with the locks and hubs it gives back. *)
(***************************************************************************)
EXTENDS CaptureDaemon

CONSTANTS
    MaxConcurrent,  \* LIVE_CAPTURE_MAX_CONCURRENT
    MaxRestarts,    \* bound on the restarts of the web process
    Nobody          \* no session

ASSUME CaptureAssumption ==
    Nobody \notin Sessions /\ MaxConcurrent \in Nat /\ MaxRestarts \in Nat

VARIABLES
    row,       \* CaptureSession.status
    starter,   \* where _start_capture_session is
    want,      \* the interface it was asked for
    stopper,   \* where stop_session is
    holder,    \* CaptureSessionManager._iface_locks
    listed,    \* the sessions whose hub is in CaptureSessionManager._hubs
    hub,       \* where the hub's thread is
    quit,      \* StatsHub._stop_event
    final,     \* StatsHub._final_frame is set
    scanned,   \* the closed files that were given to enqueue_scan
    restarts

wvars == <<row, starter, want, stopper, holder, listed, hub, quit, final, scanned, restarts>>
vars == <<dvars, wvars>>

TypeOK ==
    /\ DaemonTypeOK
    /\ row \in [Sessions -> {"absent", "pending", "running", "stopping", "stopped", "failed"}]
    /\ starter \in [Sessions -> {"none", "counted", "calling", "started", "refused",
                              "recorded", "done"}]
    /\ want \in [Sessions -> Interfaces \cup {NoNic}]
    /\ stopper \in [Sessions -> {"none", "calling", "waiting", "error"}]
    /\ holder \in [Interfaces -> Sessions \cup {Nobody}]
    /\ listed \subseteq Sessions
    /\ hub \in [Sessions -> {"off", "connect", "reading", "hung", "ending", "ended"}]
    /\ quit \subseteq Sessions
    /\ final \subseteq Sessions
    /\ scanned \in [Sessions -> SUBSET Files]
    /\ restarts \in 0..MaxRestarts

Init ==
    /\ DaemonInit
    /\ row = [s \in Sessions |-> "absent"]
    /\ starter = [s \in Sessions |-> "none"]
    /\ want = [s \in Sessions |-> NoNic]
    /\ stopper = [s \in Sessions |-> "none"]
    /\ holder = [i \in Interfaces |-> Nobody]
    /\ listed = {}
    /\ hub = [s \in Sessions |-> "off"]
    /\ quit = {}
    /\ final = {}
    /\ scanned = [s \in Sessions |-> {}]
    /\ restarts = 0

SetRow(s, status) == row' = [row EXCEPT ![s] = status]

-----------------------------------------------------------------------------
(* CaptureSessionManager *)

\* active_session_count: registered hubs whose thread runs
ActiveSessions == {s \in listed : hub[s] \in {"connect", "reading", "hung"}}

\* acquire_interface
InterfaceBusy(i) ==
    \/ holder[i] # Nobody
    \/ i = AnyNic /\ \E k \in Interfaces \ {AnyNic} : holder[k] # Nobody
    \/ i # AnyNic /\ holder[AnyNic] # Nobody

\* release_interface gives back the lock if the session still holds it.
Released(s) == [i \in Interfaces |-> IF holder[i] = s THEN Nobody ELSE holder[i]]

-----------------------------------------------------------------------------
(* _start_capture_session *)

\* the per-host concurrency cap, checked before anything is reserved
CountSessions(s) ==
    /\ starter[s] = "none"
    /\ Cardinality(ActiveSessions) < MaxConcurrent
    /\ starter' = [starter EXCEPT ![s] = "counted"]
    /\ UNCHANGED <<dvars, row, want, stopper, holder, listed, hub, quit, final, scanned, restarts>>

\* The lock, then the row, so that there is a record even if the RPC fails.
\* On a conflict the request is answered 409 and leaves no trace.
AcquireInterface(s, i) ==
    /\ starter[s] = "counted"
    /\ ~InterfaceBusy(i)
    /\ holder' = [holder EXCEPT ![i] = s]
    /\ want' = [want EXCEPT ![s] = i]
    /\ SetRow(s, "pending")
    /\ starter' = [starter EXCEPT ![s] = "calling"]
    /\ UNCHANGED <<dvars, stopper, listed, hub, quit, final, scanned, restarts>>

InterfaceInUse(s, i) ==
    /\ starter[s] = "counted"
    /\ InterfaceBusy(i)
    /\ starter' = [starter EXCEPT ![s] = "done"]
    /\ UNCHANGED <<dvars, row, want, stopper, holder, listed, hub, quit, final, scanned, restarts>>

CapdStarts(s) ==
    /\ starter[s] = "calling"
    /\ StartSession(s, want[s])
    /\ starter' = [starter EXCEPT ![s] = "started"]
    /\ UNCHANGED <<row, want, stopper, holder, listed, hub, quit, final, scanned, restarts>>

\* CapdUnavailable, or CapdError: a conflict, a filter that does not compile,
\* an interface that is gone, a dumpcap that ends at once
CapdRefuses(s) ==
    /\ starter[s] = "calling"
    /\ starter' = [starter EXCEPT ![s] = "refused"]
    /\ UNCHANGED <<dvars, row, want, stopper, holder, listed, hub, quit, final, scanned, restarts>>

\* The row says running, whatever it said meanwhile.
StartSucceeds(s) ==
    /\ starter[s] = "started"
    /\ SetRow(s, "running")
    /\ starter' = [starter EXCEPT ![s] = "recorded"]
    /\ UNCHANGED <<dvars, want, stopper, holder, listed, hub, quit, final, scanned, restarts>>

\* register_hub and StatsHub.start
HubStarts(s) ==
    /\ starter[s] = "recorded"
    /\ listed' = listed \cup {s}
    /\ hub' = [hub EXCEPT ![s] = "connect"]
    /\ starter' = [starter EXCEPT ![s] = "done"]
    /\ UNCHANGED <<dvars, row, want, stopper, holder, quit, final, scanned, restarts>>

StartFails(s) ==
    /\ starter[s] = "refused"
    /\ SetRow(s, "failed")
    /\ holder' = Released(s)
    /\ starter' = [starter EXCEPT ![s] = "done"]
    /\ UNCHANGED <<dvars, want, stopper, listed, hub, quit, final, scanned, restarts>>

-----------------------------------------------------------------------------
(* stop_session, one request at a time per session *)

RequestStop(s) ==
    /\ stopper[s] = "none"
    /\ row[s] \in {"running", "pending"}
    /\ SetRow(s, "stopping")
    /\ stopper' = [stopper EXCEPT ![s] = "calling"]
    /\ UNCHANGED <<dvars, starter, want, holder, listed, hub, quit, final, scanned, restarts>>

StopReachesCapd(s) ==
    /\ stopper[s] = "calling"
    /\ StopSession(s)
    /\ stopper' = [stopper EXCEPT ![s] = "waiting"]
    /\ UNCHANGED <<row, starter, want, holder, listed, hub, quit, final, scanned, restarts>>

\* CapdUnavailable, "unknown session", or capd dies before it answers
StopIsRefused(s) ==
    /\ \/ stopper[s] = "calling" /\ (~up \/ s \notin sessions)
       \/ stopper[s] = "waiting" /\ stopping[s] = "none"
    /\ stopper' = [stopper EXCEPT ![s] = "error"]
    /\ UNCHANGED <<dvars, row, starter, want, holder, listed, hub, quit, final, scanned, restarts>>

\* The answer's files_closed are counted only.  The hub is dropped and told to
\* end; the interface is free.
StopSucceeds(s) ==
    /\ stopper[s] = "waiting"
    /\ stopping[s] = "done"
    /\ SetRow(s, "stopped")
    /\ quit' = IF s \in listed THEN quit \cup {s} ELSE quit
    /\ listed' = listed \ {s}
    /\ holder' = Released(s)
    /\ stopper' = [stopper EXCEPT ![s] = "none"]
    /\ UNCHANGED <<dvars, starter, want, hub, final, scanned, restarts>>

\* The hub is dropped, but its thread is not told.
StopFails(s) ==
    /\ stopper[s] = "error"
    /\ SetRow(s, "failed")
    /\ listed' = listed \ {s}
    /\ holder' = Released(s)
    /\ stopper' = [stopper EXCEPT ![s] = "none"]
    /\ UNCHANGED <<dvars, starter, want, hub, quit, final, scanned, restarts>>

-----------------------------------------------------------------------------
(* StatsHub._run *)

\* The connection to capd.  For a session capd does not know, the answer is not
\* a frame: the hub takes it for one and waits for the next, as long as capd lives.
HubConnects(s) ==
    /\ hub[s] = "connect"
    /\ \/ /\ OpenStream(s)
          /\ hub' = [hub EXCEPT ![s] = "reading"]
       \/ /\ up /\ s \notin sessions
          /\ hub' = [hub EXCEPT ![s] = "hung"]
          /\ UNCHANGED dvars
       \/ /\ ~up
          /\ hub' = [hub EXCEPT ![s] = "ending"]
          /\ UNCHANGED dvars
    /\ UNCHANGED <<row, starter, want, stopper, holder, listed, quit, final, scanned, restarts>>

\* _handle_frame: a scan for each closed file that is still on disk; the frame
\* that says "not running" is the last.
HubReads(s) ==
    /\ hub[s] = "reading" /\ s \notin quit
    /\ SendFrame(s, TRUE)
    /\ scanned' = [scanned EXCEPT ![s] = @ \cup (frame[s].closed \cap OnDisk(written[s]))]
    /\ IF frame[s].running
       THEN UNCHANGED <<hub, final>>
       ELSE hub' = [hub EXCEPT ![s] = "ending"] /\ final' = final \cup {s}
    /\ UNCHANGED <<row, starter, want, stopper, holder, listed, quit, restarts>>

\* After shutdown() the next frame is dropped, whatever is in it.
HubQuits(s) ==
    /\ hub[s] = "reading" /\ s \in quit
    /\ SendFrame(s, TRUE)
    /\ hub' = [hub EXCEPT ![s] = "ending"]
    /\ UNCHANGED <<row, starter, want, stopper, holder, listed, quit, final, scanned, restarts>>

\* end of the stream without a last frame: capd died
HubLosesCapd(s) ==
    /\ hub[s] = "reading" /\ stream[s] = "off"
    /\ hub' = [hub EXCEPT ![s] = "ending"]
    /\ UNCHANGED <<dvars, row, starter, want, stopper, holder, listed, quit, final, scanned, restarts>>

\* capd writes to a socket that nobody reads any more
FrameUnread(s) ==
    /\ hub[s] # "reading"
    /\ SendFrame(s, FALSE)
    /\ UNCHANGED wvars

\* Bug: nobody listens to the end of a hub.
HubEndsUnheard(s) ==
    /\ hub[s] = "ending"
    /\ hub' = [hub EXCEPT ![s] = "ended"]
    /\ UNCHANGED <<dvars, row, starter, want, stopper, holder, listed, quit, final, scanned, restarts>>

\* _make_session_finalizer: only a row that is plainly running is settled
HubEnds(s) ==
    /\ hub[s] = "ending"
    /\ hub' = [hub EXCEPT ![s] = "ended"]
    /\ IF row[s] = "running"
       THEN /\ SetRow(s, IF s \in final THEN "stopped" ELSE "failed")
            /\ holder' = Released(s)
            /\ listed' = listed \ {s}
       ELSE UNCHANGED <<row, holder, listed>>
    /\ UNCHANGED <<dvars, starter, want, stopper, quit, final, scanned, restarts>>

-----------------------------------------------------------------------------
\* The web process restarts: its threads, hubs and locks are gone, its rows
\* stay as they are.
WebRestart ==
    /\ restarts < MaxRestarts
    /\ restarts' = restarts + 1
    /\ starter' = [s \in Sessions |-> IF starter[s] = "none" THEN "none" ELSE "done"]
    /\ stopper' = [s \in Sessions |-> "none"]
    /\ holder' = [i \in Interfaces |-> Nobody]
    /\ hub' = [s \in Sessions |-> "off"]
    /\ listed' = {} /\ quit' = {} /\ final' = {}
    /\ UNCHANGED <<dvars, row, want, scanned>>

StartStep(s) ==
    \/ CountSessions(s) \/ CapdStarts(s) \/ CapdRefuses(s)
    \/ StartSucceeds(s) \/ HubStarts(s) \/ StartFails(s)
    \/ \E i \in Interfaces : AcquireInterface(s, i) \/ InterfaceInUse(s, i)

StopStep(s) == StopReachesCapd(s) \/ StopIsRefused(s) \/ StopSucceeds(s) \/ StopFails(s)

HubStep(s) ==
    \/ HubConnects(s) \/ HubReads(s) \/ HubQuits(s) \/ HubLosesCapd(s)
    \/ FrameUnread(s) \/ HubEnds(s)

DaemonStep(s) == Internal(s) /\ UNCHANGED wvars

\* A hub that waits for a frame that never comes reads the end of the stream.
CapdDies ==
    /\ CapdCrash
    /\ hub' = [s \in Sessions |-> IF hub[s] = "hung" THEN "ending" ELSE hub[s]]
    /\ UNCHANGED <<row, starter, want, stopper, holder, listed, quit, final, scanned, restarts>>

Outage == CapdDies \/ (CapdRestart /\ UNCHANGED wvars)

Next ==
    \/ \E s \in Sessions : StartStep(s) \/ RequestStop(s) \/ StopStep(s) \/ HubStep(s) \/ DaemonStep(s)
    \/ Outage
    \/ WebRestart

Spec == Init /\ [][Next]_vars

\* Threads and the daemon's loop run; a capture was given a duration, so its
\* dumpcap ends.  No request, crash or restart is owed to anybody.
FairSpec ==
    /\ Spec
    /\ \A s \in Sessions :
          /\ WF_vars(StopStep(s)) /\ WF_vars(HubStep(s))
          /\ WF_vars(DumpcapExits(s) /\ UNCHANGED wvars)
          /\ WF_vars((FinishStop(s) \/ PollLook(s) \/ PollReport(s)) /\ UNCHANGED wvars)

-----------------------------------------------------------------------------
\* What the history calls stopped has stopped: no dumpcap of that session is
\* left on the network, whoever wrote the row and however stop, expiry, start
\* and crashes overlapped.
StoppedHasStopped == \A s \in Sessions : row[s] = "stopped" => ~Running(s)

\* supervisor.py, poll(): a capture that ended by itself, without a stop
\* request, has had every file that is on disk scanned, its last one included.
ExpiredIsScanned ==
    \A s \in Sessions :
        hub[s] = "ended" /\ s \in final /\ stopper[s] = "none" /\ row[s] = "stopped"
        /\ stopping[s] = "none"
        => OnDisk(written[s]) \subseteq scanned[s]

\* docs/live-capture.md, "For each closed PCAP, the web app starts a normal
\* MarlinSpike scan": also for those that an explicit stop closes.
StoppedIsScanned ==
    \A s \in Sessions :
        hub[s] = "ended" /\ row[s] = "stopped" /\ stopping[s] = "done"
        => OnDisk(written[s]) \subseteq scanned[s]

\* Once its stats stream is open a capture's row is settled and its interface
\* given back, be it by a stop, by its expiry or by the death of capd, as long
\* as this web process lives.
CaptureSettles ==
    \A s \in Sessions :
        hub[s] = "reading" ~>
            \/ hub[s] = "off"
            \/ row[s] \in {"stopped", "failed"} /\ \A i \in Interfaces : holder[i] # s

=============================================================================

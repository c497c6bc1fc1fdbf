--------------------------- MODULE CaptureDaemon ---------------------------
(***************************************************************************)
(* marlinspike-capd, the privileged capture daemon: its table of sessions  *)
(* (capd/server.py), one dumpcap per session, and the supervisor that      *)
(* names the rotation files nobody writes any more (capd/supervisor.py).   *)
(*                                                                         *)
(* Clients are arbitrary here; LiveCapture is the one there is.  A file is *)
(* its number in dumpcap's ring, which never wraps, so the listing of a    *)
(* session's directory is the number of its newest file.  Sizes, rates and *)
(* packet totals are left out.                                             *)
(***************************************************************************)
EXTENDS Naturals, FiniteSets

CONSTANTS
    Sessions,     \* session ids (uuid4, each started at most once)
    Interfaces,   \* interface names, AnyNic among them
    AnyNic,       \* the interface "any"
    NoNic,        \* no interface
    RingFiles,    \* dumpcap -b files:N
    MaxFiles,     \* bound on the files one capture writes
    MaxCrashes    \* bound on the crashes of capd

ASSUME DaemonAssumption ==
    /\ AnyNic \in Interfaces
    /\ NoNic \notin Interfaces
    /\ RingFiles \in Nat \ {0} /\ MaxFiles \in Nat /\ MaxCrashes \in Nat

VARIABLES
    up,        \* capd accepts connections
    sessions,  \* the keys of CapdServer._sessions
    nic,       \* the interface of a session's CaptureConfig
    dumpcap,   \* its dumpcap: none yet, live, exited, or killed with capd
    written,   \* number of the newest file in its directory
    sup,       \* the supervisor's rotation accounting
    handed,    \* how often each file was listed in a files_closed
    stopping,  \* CaptureSupervisor.stop(): none, signalled or done
    stream,    \* the stats loop: off, poll, report or send
    saw,       \* what poll() saw before it took the supervisor's lock
    frame,     \* the stats frame about to be sent
    crashes

dvars == <<up, sessions, nic, dumpcap, written, sup, handed, stopping,
           stream, saw, frame, crashes>>

Files == 1..MaxFiles

DaemonTypeOK ==
    /\ up \in BOOLEAN
    /\ sessions \subseteq Sessions
    /\ nic \in [Sessions -> Interfaces \cup {NoNic}]
    /\ dumpcap \in [Sessions -> {"none", "live", "exited", "killed"}]
    /\ written \in [Sessions -> 0..MaxFiles]
    /\ sup \in [Sessions -> [closed  : SUBSET Files,
                             active  : 0..MaxFiles,
                             highest : 0..MaxFiles,
                             lost    : Nat]]
    /\ handed \in [Sessions -> [Files -> Nat]]
    /\ stopping \in [Sessions -> {"none", "signalled", "done"}]
    /\ stream \in [Sessions -> {"off", "poll", "report", "send"}]
    /\ saw \in [Sessions -> [running : BOOLEAN, newest : 0..MaxFiles]]
    /\ frame \in [Sessions -> [running : BOOLEAN, closed : SUBSET Files]]
    /\ crashes \in 0..MaxCrashes

DaemonInit ==
    /\ up = TRUE
    /\ sessions = {}
    /\ nic = [s \in Sessions |-> NoNic]
    /\ dumpcap = [s \in Sessions |-> "none"]
    /\ written = [s \in Sessions |-> 0]
    /\ sup = [s \in Sessions |-> [closed |-> {}, active |-> 0, highest |-> 0, lost |-> 0]]
    /\ handed = [s \in Sessions |-> [k \in Files |-> 0]]
    /\ stopping = [s \in Sessions |-> "none"]
    /\ stream = [s \in Sessions |-> "off"]
    /\ saw = [s \in Sessions |-> [running |-> TRUE, newest |-> 0]]
    /\ frame = [s \in Sessions |-> [running |-> TRUE, closed |-> {}]]
    /\ crashes = 0

-----------------------------------------------------------------------------
(* dumpcap *)

Running(s) == dumpcap[s] = "live"

\* -b filesize:N: dumpcap opens the next file; -b files:N: it deletes the one
\* that falls out of the ring.
RotateFile(s) ==
    /\ Running(s)
    /\ written[s] < MaxFiles
    /\ written' = [written EXCEPT ![s] = @ + 1]
    /\ UNCHANGED <<up, sessions, nic, dumpcap, sup, handed, stopping, stream, saw, frame, crashes>>

OnDisk(newest) == {k \in 1..newest : k + RingFiles > newest}

\* -a duration:N elapses, dumpcap ends by itself, or it obeys SIGINT (or the
\* SIGKILL that follows five seconds later)
DumpcapExits(s) ==
    /\ Running(s)
    /\ dumpcap' = [dumpcap EXCEPT ![s] = "exited"]
    /\ UNCHANGED <<up, sessions, nic, written, sup, handed, stopping, stream, saw, frame, crashes>>

-----------------------------------------------------------------------------
(* CaptureSupervisor._snapshot, the part under the supervisor's lock: the    *)
(* directory was listed before, as of the file `newest`.                     *)

\* Bug: on finalize the active file is listed again.
NewlyClosedAgain(s, newest, finalize) ==
    {k \in {sup[s].active} \cup OnDisk(newest) :
        k # 0 /\ (k \notin sup[s].closed \/ (finalize /\ k = newest))
              /\ (k # newest \/ finalize)}

\* the previously active file and everything on disk, except the one dumpcap
\* still writes, unless it is listed already
NewlyClosed(s, newest, finalize) ==
    {k \in {sup[s].active} \cup OnDisk(newest) :
        k # 0 /\ k \notin sup[s].closed /\ (k # newest \/ finalize)}

\* Bug: one file missing between two polls goes unnoticed.
GapOffByOne(s, newest) ==
    Cardinality({k \in Files : k > sup[s].highest + 1 /\ k < newest /\ k \notin OnDisk(newest)})

\* files evicted from the ring before any poll saw them, _SEQ_RE
Gap(s, newest) ==
    Cardinality({k \in Files : k > sup[s].highest /\ k < newest /\ k \notin OnDisk(newest)})

Account(s, newest, finalize) ==
    LET closed == NewlyClosed(s, newest, finalize)
    IN  /\ sup' = [sup EXCEPT ![s] =
               [closed  |-> @.closed \cup closed,
                active  |-> newest,
                highest |-> IF newest > @.highest THEN newest ELSE @.highest,
                lost    |-> @.lost + Gap(s, newest)]]
        /\ handed' = [handed EXCEPT ![s] =
               [k \in Files |-> IF k \in closed THEN @[k] + 1 ELSE @[k]]]

-----------------------------------------------------------------------------
(* CapdServer *)

\* Bug: `any` conflicts with `any` only.
ConflictSameName(s, i) ==
    \E o \in sessions \ {s} : Running(o) /\ nic[o] = i

\* one running capture per NIC, and `any` is all of them (Finding #21)
Conflict(s, i) ==
    \E o \in sessions \ {s} : Running(o) /\ (i = AnyNic \/ nic[o] = AnyNic \/ nic[o] = i)

\* _start_session: everything from the check to the entry in _sessions runs
\* under _sessions_lock, and the 0.3 s in which dumpcap may die at once too.
StartSession(s, i) ==
    /\ up /\ dumpcap[s] = "none"
    /\ ~Conflict(s, i)
    /\ nic' = [nic EXCEPT ![s] = i]
    /\ dumpcap' = [dumpcap EXCEPT ![s] = "live"]
    /\ sessions' = sessions \cup {s}
    /\ UNCHANGED <<up, written, sup, handed, stopping, stream, saw, frame, crashes>>

\* _stop_session: the session is looked up, stop() starts in an executor
StopSession(s) ==
    /\ up /\ s \in sessions
    /\ stopping' = [stopping EXCEPT ![s] = "signalled"]
    /\ UNCHANGED <<up, sessions, nic, dumpcap, written, sup, handed, stream, saw, frame, crashes>>

\* Bug: stop() does not wait for dumpcap.
FinishStopAtOnce(s) ==
    /\ stopping[s] = "signalled"
    /\ Account(s, written[s], TRUE)
    /\ sessions' = sessions \ {s}
    /\ stopping' = [stopping EXCEPT ![s] = "done"]
    /\ UNCHANGED <<up, nic, dumpcap, written, stream, saw, frame, crashes>>

\* dumpcap has ended: the final snapshot, then _sessions.pop
FinishStop(s) ==
    /\ stopping[s] = "signalled"
    /\ ~Running(s)
    /\ Account(s, written[s], TRUE)
    /\ sessions' = sessions \ {s}
    /\ stopping' = [stopping EXCEPT ![s] = "done"]
    /\ UNCHANGED <<up, nic, dumpcap, written, stream, saw, frame, crashes>>

\* _stream_stats (or _session_status, a loop of one round) finds the supervisor
OpenStream(s) ==
    /\ up /\ s \in sessions
    /\ stream[s] = "off"
    /\ stream' = [stream EXCEPT ![s] = "poll"]
    /\ UNCHANGED <<up, sessions, nic, dumpcap, written, sup, handed, stopping, saw, frame, crashes>>

\* poll(): is_running(), then the directory is listed; no lock is held
PollLook(s) ==
    /\ stream[s] = "poll"
    /\ saw' = [saw EXCEPT ![s] = [running |-> Running(s), newest |-> written[s]]]
    /\ stream' = [stream EXCEPT ![s] = "report"]
    /\ UNCHANGED <<up, sessions, nic, dumpcap, written, sup, handed, stopping, frame, crashes>>

\* Bug: a capture that ends by itself never gets its last file closed.
PollReportUnfinished(s) ==
    /\ stream[s] = "report"
    /\ Account(s, saw[s].newest, FALSE)
    /\ frame' = [frame EXCEPT ![s] =
           [running |-> saw[s].running, closed |-> NewlyClosed(s, saw[s].newest, FALSE)]]
    /\ stream' = [stream EXCEPT ![s] = "send"]
    /\ UNCHANGED <<up, sessions, nic, dumpcap, written, stopping, saw, crashes>>

\* the rest of poll(), under the lock
PollReport(s) ==
    /\ stream[s] = "report"
    /\ Account(s, saw[s].newest, ~saw[s].running)
    /\ frame' = [frame EXCEPT ![s] =
           [running |-> saw[s].running,
            closed  |-> NewlyClosed(s, saw[s].newest, ~saw[s].running)]]
    /\ stream' = [stream EXCEPT ![s] = "send"]
    /\ UNCHANGED <<up, sessions, nic, dumpcap, written, stopping, saw, crashes>>

\* Bug: a client that went away takes the session along.
SendFrameForgetting(s, listened) ==
    /\ stream[s] = "send"
    /\ sessions' = IF listened /\ frame[s].running THEN sessions ELSE sessions \ {s}
    /\ stream' = [stream EXCEPT ![s] =
           IF listened /\ frame[s].running THEN "poll" ELSE "off"]
    /\ UNCHANGED <<up, nic, dumpcap, written, sup, handed, stopping, saw, frame, crashes>>

\* _reap_if_finished, then the frame is sent.  The loop goes on while dumpcap
\* runs and somebody listens.
SendFrame(s, listened) ==
    /\ stream[s] = "send"
    /\ sessions' = IF frame[s].running THEN sessions ELSE sessions \ {s}
    /\ stream' = [stream EXCEPT ![s] =
           IF listened /\ frame[s].running THEN "poll" ELSE "off"]
    /\ UNCHANGED <<up, nic, dumpcap, written, sup, handed, stopping, saw, frame, crashes>>

\* The daemon dies and takes its dumpcaps with it.
CapdCrash ==
    /\ up /\ crashes < MaxCrashes
    /\ up' = FALSE
    /\ crashes' = crashes + 1
    /\ sessions' = {}
    /\ dumpcap' = [s \in Sessions |-> IF s \in sessions THEN "killed" ELSE dumpcap[s]]
    /\ stopping' = [s \in Sessions |-> IF stopping[s] = "signalled" THEN "none" ELSE stopping[s]]
    /\ stream' = [s \in Sessions |-> "off"]
    /\ UNCHANGED <<nic, written, sup, handed, saw, frame>>

CapdRestart ==
    /\ ~up
    /\ up' = TRUE
    /\ UNCHANGED <<sessions, nic, dumpcap, written, sup, handed, stopping, stream, saw, frame, crashes>>

\* what happens in capd and its dumpcaps without a request
Internal(s) == RotateFile(s) \/ DumpcapExits(s) \/ FinishStop(s) \/ PollLook(s) \/ PollReport(s)

DaemonNext ==
    \/ \E s \in Sessions : Internal(s) \/ StopSession(s) \/ OpenStream(s)
    \/ \E s \in Sessions, i \in Interfaces : StartSession(s, i)
    \/ \E s \in Sessions, listened \in BOOLEAN : SendFrame(s, listened)
    \/ CapdCrash \/ CapdRestart

DaemonSpec == DaemonInit /\ [][DaemonNext]_dvars

-----------------------------------------------------------------------------
\* docs/live-capture.md, "only one capture actually runs": a NIC hosts one
\* dumpcap at a time, and `any` excludes every other, however starts, stops,
\* expiry and the reaping of finished sessions interleave.
OneCapturePerInterface ==
    \A s, t \in Sessions :
        s # t /\ Running(s) /\ Running(t)
        => nic[s] # nic[t] /\ nic[s] # AnyNic /\ nic[t] # AnyNic

\* supervisor.py, "double-processing one rotation": poll() in the stats loop
\* and stop() in an RPC never both list the same file.
HandedOnce == \A s \in Sessions : \A k \in Files : handed[s][k] <= 1

\* A file is listed as closed only when dumpcap has left it, although the
\* directory is listed before the lock is taken; and a capture that ended under
\* capd's eyes has no file that was neither listed nor counted in
\* files_lost_count.
FilesAccounted ==
    \A s \in Sessions :
        /\ Running(s) => \A k \in sup[s].closed : k < written[s]
        /\ dumpcap[s] = "exited" /\ s \notin sessions
           => Cardinality((1..written[s]) \ sup[s].closed) <= sup[s].lost

\* server.py, _reap_if_finished: a session is dropped from the table, which is
\* all that knows of its dumpcap, only after that dumpcap has ended.
LiveIsKnown == \A s \in Sessions : Running(s) => up /\ s \in sessions

=============================================================================

---------------------------- MODULE PcapTransfer ----------------------------
(***************************************************************************)
(* The way of a rotated capture file from a fleet agent to its scan:       *)
(* the agent's stats reporters, stop command, ship tasks and spool         *)
(* (agent/client.py), the gateway's event handlers and uploads             *)
(* (fleet/gateway/server.py, db.py) and the scan of each published file    *)
(* (fleet/gateway/scan.py), with links that drop, an agent and a gateway   *)
(* that stop, and database calls that fail.                                *)
(*                                                                         *)
(* asyncio starts the event tasks of one connection in the order in which  *)
(* their frames were read and pcap_create_lock is FIFO, so a connection    *)
(* handles its frames in order; what is concurrent is the executor calls,  *)
(* connections, uploads and scans.  wire[c] holds what is sent and not yet *)
(* handled, spawned tasks included.  File names are unique: dumpcap puts   *)
(* number and second in them.                                              *)
(***************************************************************************)
EXTENDS Naturals, Sequences, FiniteSets, SequencesExt

CONSTANTS
    Files,      \* rotation files
    Sessions,   \* capture sessions running on the agent
    SessionOf,  \* the session a file belongs to
    LastChunk,  \* a file is sent as chunks 0..LastChunk, then pcap_complete
    MaxConns,   \* bound on the connections the agent opens
    MaxInodes,  \* bound on the upload files open or on disk at a time
    MaxFaults   \* bound on the faults, by the set of files that dumpcap writes

ASSUME TransferAssumption ==
    /\ SessionOf \in [Files -> Sessions]
    /\ LastChunk \in Nat /\ MaxFaults \in [SUBSET Files -> Nat]
    /\ MaxConns \in Nat \ {0} /\ MaxInodes \in Nat \ {0}

Chunks == 0..LastChunk
Complete == LastChunk + 1       \* the index of the pcap_complete frame
Conns == 1..MaxConns
Inodes == 1..MaxInodes
None == 0                       \* no connection, no inode

VARIABLES
    \* the agent and its capd
    file,       \* how far the agent is with a file
    next,       \* the next frame of a file that is being sent
    reclaimed,  \* the files the ring has overwritten on the agent's disk
    link,       \* the connection _current_writer writes to, or None
    opened,     \* the connections opened so far
    reporter,   \* _stats_reporter of a session
    stopping,   \* the sessions whose _cmd_stop waits for capd
    flush,      \* the entries _flush_spool has still to go through
    \* the gateway
    wire,       \* the frames of a connection on their way or waiting for their task
    gw,         \* the gateway's side of a connection
    creating,   \* the chunk whose task holds pcap_create_lock in begin_pcap_upload
    xfer,       \* _AgentConnection.pcap_transfers
    content,    \* the chunks written to an upload file
    partial,    \* the inode at <name>.partial
    final,      \* the inode at the published name
    finishing,  \* the uploads in finish_pcap_upload
    \* the scans
    queue,      \* the files whose launch_scan waits for the session's lock
    scan,       \* the launch_scan of a file that holds the lock
    report,     \* the files with a complete report
    row,        \* the ScanHistory row of a session
    judged,     \* the files whose scan recorded a verdict
    faults

agentVars == <<file, next, reclaimed, link, opened, reporter, stopping, flush>>
uploadVars == <<creating, xfer, content, partial, final, finishing>>
scanVars == <<queue, scan, report, row, judged>>
vars == <<agentVars, wire, gw, uploadVars, scanVars, faults>>

NoXfer == [ino |-> None, got |-> {}]
NoFrame == <<>>
Frame == Files \X (0..Complete)

TypeOK ==
    /\ file \in [Files -> {"unused", "open", "closed", "polled", "handed", "shipping",
                           "spooled", "shipped", "dropped", "missed"}]
    /\ next \in [Files -> 0..(Complete + 1)]
    /\ reclaimed \subseteq Files
    /\ link \in Conns \cup {None}
    /\ opened \in Conns
    /\ reporter \in [Sessions -> {"idle", "polling", "none"}]
    /\ stopping \subseteq Sessions
    /\ flush \in Seq(Files)
    /\ wire \in [Conns -> Seq(Frame)]
    /\ gw \in [Conns -> {"new", "serving", "closed"}]
    /\ creating \in [Conns -> Frame \cup {NoFrame}]
    /\ xfer \in [Conns -> [Files -> [ino : Inodes \cup {None}, got : SUBSET Chunks]]]
    /\ content \in [Inodes -> SUBSET Chunks]
    /\ partial \in [Files -> Inodes \cup {None}]
    /\ final \in [Files -> Inodes \cup {None}]
    /\ finishing \subseteq Conns \X Files
    /\ queue \in [Sessions -> Seq(Files)]
    /\ scan \in [Files -> {"none", "spawned", "engine", "exited"}]
    /\ report \subseteq Files
    /\ \A s \in Sessions : row[s].status \in {"absent", "running", "completed", "failed"}
    /\ judged \subseteq Files
    /\ faults \in Nat

\* The agent is connected and every session has been started over this link;
\* the captures go on for some number of files.
Init ==
    /\ file \in [Files -> {"unused", "open"}]
    /\ next = [f \in Files |-> 0]
    /\ reclaimed = {}
    /\ link = 1 /\ opened = 1
    /\ reporter = [s \in Sessions |-> "idle"]
    /\ stopping = {}
    /\ flush = <<>>
    /\ wire = [c \in Conns |-> <<>>]
    /\ gw = [c \in Conns |-> IF c = 1 THEN "serving" ELSE "new"]
    /\ creating = [c \in Conns |-> NoFrame]
    /\ xfer = [c \in Conns |-> [f \in Files |-> NoXfer]]
    /\ content = [i \in Inodes |-> {}]
    /\ partial = [f \in Files |-> None]
    /\ final = [f \in Files |-> None]
    /\ finishing = {}
    /\ queue = [s \in Sessions |-> <<>>]
    /\ scan = [f \in Files |-> "none"]
    /\ report = {}
    /\ row = [s \in Sessions |-> [status |-> "absent", file |-> <<>>, result |-> <<>>]]
    /\ judged = {}
    /\ faults = 0

Written == {f \in Files : file[f] # "unused"}
Fault == faults < MaxFaults[Written] /\ faults' = faults + 1
NoFault == faults' = faults

FilesOf(s, states) == {f \in Files : SessionOf[f] = s /\ file[f] \in states}
Moved(fs, state) == [f \in Files |-> IF f \in fs THEN state ELSE file[f]]

-----------------------------------------------------------------------------
(* The agent: reporters and the stop command *)

\* dumpcap goes on to its next file.
Rotate(f) ==
    /\ file[f] = "open"
    /\ file' = [file EXCEPT ![f] = "closed"]
    /\ UNCHANGED <<next, reclaimed, link, opened, reporter, stopping, flush,
                   wire, gw, uploadVars, scanVars, faults>>

\* The ring overwrites a closed file.
Reclaim(f) ==
    /\ file[f] \in {"closed", "polled", "handed", "spooled"}
    /\ f \notin reclaimed
    /\ Fault
    /\ reclaimed' = reclaimed \cup {f}
    /\ UNCHANGED <<file, next, link, opened, reporter, stopping, flush,
                   wire, gw, uploadVars, scanVars>>

\* session_status in an executor: capd lists every closed file once.
Poll(s) ==
    /\ reporter[s] = "idle" /\ link # None
    /\ file' = Moved(FilesOf(s, {"closed"}), "polled")
    /\ reporter' = [reporter EXCEPT ![s] = "polling"]
    /\ UNCHANGED <<next, reclaimed, link, opened, stopping, flush,
                   wire, gw, uploadVars, scanVars, faults>>

\* _ship_pcap up to the stat: a file that is gone counts as sent.
Ship(fs, base) ==
    /\ file' = [f \in Files |-> IF f \notin fs THEN base[f]
                                ELSE IF f \in reclaimed THEN "dropped" ELSE "shipping"]
    /\ next' = [f \in Files |-> IF f \in fs THEN 0 ELSE next[f]]

PollAnswers(s) ==
    /\ reporter[s] = "polling"
    /\ Ship(FilesOf(s, {"polled"}), file)
    /\ reporter' = [reporter EXCEPT ![s] = "idle"]
    /\ UNCHANGED <<reclaimed, link, opened, stopping, flush,
                   wire, gw, uploadVars, scanVars, faults>>

\* _cmd_stop: capd ends dumpcap and lists what that closes.
Stop(s) ==
    /\ link # None /\ s \notin stopping
    /\ FilesOf(s, {"open"}) # {}
    /\ file' = Moved(FilesOf(s, {"open", "closed"}), "handed")
    /\ stopping' = stopping \cup {s}
    /\ UNCHANGED <<next, reclaimed, link, opened, reporter, flush,
                   wire, gw, uploadVars, scanVars, faults>>

\* The reporter is cancelled: what its own call was told is lost with it.
StopAnswers(s) ==
    /\ s \in stopping
    /\ Ship(FilesOf(s, {"handed"}), Moved(FilesOf(s, {"polled"}), "missed"))
    /\ reporter' = [reporter EXCEPT ![s] = "none"]
    /\ stopping' = stopping \ {s}
    /\ UNCHANGED <<reclaimed, link, opened, flush,
                   wire, gw, uploadVars, scanVars, faults>>

-----------------------------------------------------------------------------
(* The agent: sending and the spool *)

\* One frame of _send_pcap.  What is written to a connection that the gateway
\* has closed goes nowhere, and the agent notices later.
SendFrame(f) ==
    /\ file[f] = "shipping" /\ link # None /\ next[f] <= Complete
    /\ next' = [next EXCEPT ![f] = @ + 1]
    /\ wire' = IF gw[link] = "closed" THEN wire
               ELSE [wire EXCEPT ![link] = Append(@, <<f, next[f]>>)]
    /\ UNCHANGED <<file, reclaimed, link, opened, reporter, stopping, flush,
                   gw, uploadVars, scanVars, faults>>

AfterEntry(f) == IF flush # <<>> /\ Head(flush) = f THEN Tail(flush) ELSE flush

\* The last frame is written: the local file is removed.
ShipReturns(f) ==
    /\ file[f] = "shipping" /\ next[f] > Complete
    /\ file' = [file EXCEPT ![f] = "shipped"]
    /\ flush' = AfterEntry(f)
    /\ UNCHANGED <<next, reclaimed, link, opened, reporter, stopping,
                   wire, gw, uploadVars, scanVars, faults>>

\* The finally block of _run_once: tasks of this connection are cancelled.  A
\* ship task spools its file; an answer of capd that nobody awaits is lost, and
\* a new connection starts no reporter.
LeaveLink(shipping) ==
    /\ file' = [f \in Files |-> CASE file[f] = "shipping" -> shipping
                                  [] file[f] \in {"polled", "handed"} -> "missed"
                                  [] OTHER -> file[f]]
    /\ link' = None
    /\ reporter' = [s \in Sessions |-> "none"]
    /\ stopping' = {}
    /\ flush' = <<>>
    \* some of what was written still arrives
    /\ \E n \in 0..Len(wire[link]) : wire' = [wire EXCEPT ![link] = SubSeq(@, 1, n)]
    /\ UNCHANGED <<next, reclaimed, opened, gw, uploadVars, scanVars>>

LinkDrops ==
    /\ link # None
    /\ IF gw[link] = "closed" THEN NoFault ELSE Fault
    /\ LeaveLink("spooled")

\* The process ends, or the reference cannot be written to the spool.  The
\* spool entry of a file that is being sent is already removed.
AgentStops ==
    /\ link # None
    /\ Fault
    /\ LeaveLink("missed")

\* A new connection replaces the old one in _connections and closes it;
\* _flush_spool lists the spool.
Reconnect ==
    /\ link = None /\ opened < MaxConns
    /\ opened' = opened + 1
    /\ link' = opened + 1
    /\ gw' = [gw EXCEPT ![opened + 1] = "serving"]
    /\ flush' \in SetToSeqs({f \in Files : file[f] = "spooled"})
    /\ UNCHANGED <<file, next, reclaimed, reporter, stopping,
                   wire, uploadVars, scanVars, faults>>

\* The entry is removed, then the file is sent; a file that is gone is dropped.
FlushNext ==
    /\ flush # <<>>
    /\ LET f == Head(flush) IN
        /\ file[f] = "spooled"
        /\ Ship({f}, file)
        /\ flush' = IF f \in reclaimed THEN Tail(flush) ELSE flush
    /\ UNCHANGED <<reclaimed, link, opened, reporter, stopping,
                   wire, gw, uploadVars, scanVars, faults>>

-----------------------------------------------------------------------------
(* The gateway: event handlers and uploads *)

\* Bug: handlers do not wait for pcap_create_lock.
SentUnlocked(c) == wire[c] # <<>> /\ wire' = [wire EXCEPT ![c] = Tail(@)]

\* The next frame of a connection whose handler can go on.
Sent(c) == /\ wire[c] # <<>> /\ creating[c] = NoFrame
           /\ wire' = [wire EXCEPT ![c] = Tail(@)]

\* A chunk is written at its own offset of the upload that is open.
WriteChunk(c) ==
    /\ Sent(c)
    /\ LET f == Head(wire[c])[1]  i == Head(wire[c])[2]  x == xfer[c][f] IN
        /\ i # Complete /\ x # NoXfer
        /\ content' = [content EXCEPT ![x.ino] = @ \cup {i}]
        /\ xfer' = [xfer EXCEPT ![c][f].got = @ \cup {i}]
    /\ UNCHANGED <<agentVars, gw, creating, partial, final, finishing, scanVars, faults>>

\* The first chunk of a file: its task takes the lock and asks the database
\* where the upload belongs.
BeginUpload(c) ==
    /\ Sent(c)
    /\ LET f == Head(wire[c])[1]  i == Head(wire[c])[2] IN
        /\ i # Complete /\ xfer[c][f] = NoXfer
        /\ creating' = [creating EXCEPT ![c] = <<f, i>>]
    /\ UNCHANGED <<agentVars, gw, xfer, content, partial, final, finishing, scanVars, faults>>

\* An inode that no path and no open handle refers to
Unused(i) ==
    \A f \in Files : /\ partial[f] # i /\ final[f] # i
                     /\ \A c \in Conns : xfer[c][f].ino # i
NewInode(i) == Unused(i) /\ \A j \in 1..(i - 1) : ~Unused(j)

\* open(partial, "r+b") if it exists, else "w+b"; the chunk is written.
UploadBegun(c) ==
    /\ creating[c] # NoFrame
    /\ LET f == creating[c][1]  n == creating[c][2] IN
        \E i \in Inodes :
            /\ IF partial[f] = None THEN NewInode(i) ELSE i = partial[f]
            /\ partial' = [partial EXCEPT ![f] = i]
            /\ content' = [content EXCEPT ![i] = IF partial[f] = None THEN {n} ELSE @ \cup {n}]
            /\ xfer' = [xfer EXCEPT ![c][f] = [ino |-> i, got |-> {n}]]
    /\ creating' = [creating EXCEPT ![c] = NoFrame]
    /\ UNCHANGED <<agentVars, wire, gw, final, finishing, scanVars, faults>>

\* The lookup fails or rejects the upload, or the file cannot be opened: the
\* chunk is dropped.
UploadRejected(c) ==
    /\ creating[c] # NoFrame
    /\ Fault
    /\ creating' = [creating EXCEPT ![c] = NoFrame]
    /\ UNCHANGED <<agentVars, wire, gw, xfer, content, partial, final, finishing, scanVars>>

\* Bug: an upload with some of its chunks passes.
WholeIfAny(x) == x # NoXfer /\ x.got # {}

Whole(x) == x # NoXfer /\ x.got = Chunks

\* pcap_complete takes the upload out of the table; one that is not whole is
\* discarded with the .partial file, whoever writes to it.
CompleteUpload(c) ==
    /\ Sent(c)
    /\ LET f == Head(wire[c])[1]  x == xfer[c][f] IN
        /\ Head(wire[c])[2] = Complete
        /\ xfer' = [xfer EXCEPT ![c][f] = NoXfer]
        /\ finishing' = IF Whole(x) THEN finishing \cup {<<c, f>>} ELSE finishing
        /\ partial' = IF x # NoXfer /\ ~Whole(x) THEN [partial EXCEPT ![f] = None] ELSE partial
    /\ UNCHANGED <<agentVars, gw, creating, content, final, scanVars, faults>>

\* finish_pcap_upload: publish first, then look up the session and project.
\* A .partial that somebody else has renamed or removed is an error.
FinishUpload(c, f) ==
    /\ <<c, f>> \in finishing
    /\ finishing' = finishing \ {<<c, f>>}
    /\ IF partial[f] = None
       THEN UNCHANGED <<partial, final, queue, faults>>
       ELSE /\ final' = [final EXCEPT ![f] = partial[f]]
            /\ partial' = [partial EXCEPT ![f] = None]
            /\ \/ /\ NoFault
                  /\ queue' = [queue EXCEPT ![SessionOf[f]] = Append(@, f)]
               \/ Fault /\ UNCHANGED queue
    /\ UNCHANGED <<agentVars, wire, gw, creating, xfer, content, scan, report, row, judged>>

\* The read loop of a connection ends: the agent left, a newer connection
\* closed it, a heartbeat timed out, the agent was revoked.  Uploads are closed
\* and forgotten, their .partial stays; tasks already spawned go on.
ConnectionCloses(c) ==
    /\ gw[c] = "serving"
    /\ IF c = link THEN Fault ELSE NoFault
    /\ gw' = [gw EXCEPT ![c] = "closed"]
    /\ \E n \in 0..Len(wire[c]) : wire' = [wire EXCEPT ![c] = SubSeq(@, 1, n)]
    /\ xfer' = [xfer EXCEPT ![c] = [f \in Files |-> NoXfer]]
    /\ UNCHANGED <<agentVars, creating, content, partial, final, finishing, scanVars>>

-----------------------------------------------------------------------------
(* launch_scan *)

SetRow(s, status, f, res) ==
    row' = [row EXCEPT ![s] = [status |-> status, file |-> f, result |-> res]]

SetScan(f, pc) == scan' = [scan EXCEPT ![f] = pc]

\* Bug: nothing serialises the rotations of a session.
LockedByFile(s) == queue[s] # <<>> /\ scan[Head(queue[s])] # "none"

\* A launch_scan holds the lock of the session.
Locked(s) == \E f \in Files : SessionOf[f] = s /\ scan[f] # "none"

\* The lock is free: the engine is spawned, or that fails.
ScanSpawns(s) ==
    /\ ~Locked(s) /\ queue[s] # <<>>
    /\ queue' = [queue EXCEPT ![s] = Tail(@)]
    /\ \/ NoFault /\ SetScan(Head(queue[s]), "spawned")
       \/ Fault /\ UNCHANGED scan
    /\ UNCHANGED <<agentVars, wire, gw, uploadVars, report, row, judged>>

\* _record_start writes the row of the session over; if it fails nobody waits
\* for the engine.
ScanRecordsStart(f) ==
    /\ scan[f] = "spawned"
    /\ \/ NoFault /\ SetRow(SessionOf[f], "running", f, <<>>) /\ SetScan(f, "engine")
       \/ Fault /\ SetScan(f, "none") /\ UNCHANGED row
    /\ UNCHANGED <<agentVars, wire, gw, uploadVars, queue, report, judged>>

\* The engine writes its report over an older one, and may not get to the end.
EngineEnds(f) ==
    /\ scan[f] = "engine"
    /\ report' \in {report \cup {f}, report \ {f}}
    /\ SetScan(f, "exited")
    /\ UNCHANGED <<agentVars, wire, gw, uploadVars, queue, row, judged, faults>>

Verdict(f) == IF f \in report THEN "completed" ELSE "failed"

\* Bug: the lock is not given back.
ScanRecordsFinishHolding(f) ==
    /\ scan[f] = "exited"
    /\ NoFault
    /\ SetRow(SessionOf[f], Verdict(f), row[SessionOf[f]].file, f)
    /\ judged' = judged \cup {f}
    /\ UNCHANGED <<agentVars, wire, gw, uploadVars, queue, scan, report>>

\* _record_finish updates the status of whatever row the session has; its own
\* failure is logged.
ScanRecordsFinish(f) ==
    /\ scan[f] = "exited"
    /\ \/ /\ NoFault
          /\ SetRow(SessionOf[f], Verdict(f), row[SessionOf[f]].file, f)
          /\ judged' = judged \cup {f}
       \/ Fault /\ UNCHANGED <<row, judged>>
    /\ SetScan(f, "none")
    /\ UNCHANGED <<agentVars, wire, gw, uploadVars, queue, report>>

\* The gateway's container stops and starts: connections, tasks and engines
\* are gone, and reap_orphan_runs settles the rows left running.
GatewayRestarts ==
    /\ Fault
    /\ gw' = [c \in Conns |-> IF gw[c] = "serving" THEN "closed" ELSE gw[c]]
    /\ wire' = [c \in Conns |-> <<>>]
    /\ creating' = [c \in Conns |-> NoFrame]
    /\ xfer' = [c \in Conns |-> [f \in Files |-> NoXfer]]
    /\ finishing' = {}
    /\ queue' = [s \in Sessions |-> <<>>]
    /\ scan' = [f \in Files |-> "none"]
    /\ row' = [s \in Sessions |->
                IF row[s].status = "running"
                THEN [row[s] EXCEPT !.status = Verdict(row[s].file), !.result = row[s].file]
                ELSE row[s]]
    /\ UNCHANGED <<agentVars, content, partial, final, report, judged>>

-----------------------------------------------------------------------------
AgentNext ==
    \/ \E f \in Files : Rotate(f) \/ Reclaim(f) \/ SendFrame(f) \/ ShipReturns(f)
    \/ \E s \in Sessions : Poll(s) \/ PollAnswers(s) \/ Stop(s) \/ StopAnswers(s)
    \/ LinkDrops \/ AgentStops \/ Reconnect \/ FlushNext

GatewayNext ==
    \/ \E c \in Conns :
        \/ WriteChunk(c) \/ BeginUpload(c) \/ UploadBegun(c) \/ UploadRejected(c)
        \/ CompleteUpload(c) \/ ConnectionCloses(c)
        \/ \E f \in Files : FinishUpload(c, f)
    \/ \E s \in Sessions : ScanSpawns(s)
    \/ \E f \in Files : ScanRecordsStart(f) \/ EngineEnds(f) \/ ScanRecordsFinish(f)
    \/ GatewayRestarts

Next == AgentNext \/ GatewayNext

Spec == Init /\ [][Next]_vars

\* Tasks, executor calls and engines end; the agent reconnects for ever.
FairSpec ==
    /\ Spec
    /\ \A f \in Files : WF_vars(SendFrame(f)) /\ WF_vars(ShipReturns(f))
    /\ WF_vars(Reconnect) /\ WF_vars(FlushNext)
    /\ \A s \in Sessions : WF_vars(PollAnswers(s)) /\ WF_vars(StopAnswers(s))
    /\ \A c \in Conns :
        /\ WF_vars(WriteChunk(c)) /\ WF_vars(BeginUpload(c))
        /\ WF_vars(UploadBegun(c) \/ UploadRejected(c)) /\ WF_vars(CompleteUpload(c))
        /\ \A f \in Files : WF_vars(FinishUpload(c, f))
    /\ \A s \in Sessions : WF_vars(ScanSpawns(s))
    /\ \A f \in Files : /\ WF_vars(ScanRecordsStart(f)) /\ WF_vars(EngineEnds(f))
                         /\ WF_vars(ScanRecordsFinish(f))

-----------------------------------------------------------------------------
(* Properties *)

\* A published file has all its chunks: "by the time pcap_complete calls this,
\* the file is already fully written and closed" (db.py:562).
PublishedIsWhole == \A f \in Files : final[f] # None => content[final[f]] = Chunks

\* It has, as long as no more than two connections of the agent have uploaded,
\* whatever the older one's tasks still write, discard or publish.
WholeOverTwoLinks == opened <= 2 => PublishedIsWhole

\* The verdict in a session's row is the verdict of the file the row points
\* at, although the session's rotations share one row (scan.py:80).
RowKeepsItsFile ==
    \A s \in Sessions :
        row[s].status \in {"completed", "failed"} => row[s].result = row[s].file

\* Where a file is that a ship task has taken: nothing is between the agent's
\* copy and a published file but an upload that is being put together.
Underway(f) ==
    \/ file[f] \in {"shipping", "spooled"} \/ final[f] # None
    \/ \E c \in Conns : \/ <<c, f>> \in finishing \/ xfer[c][f] # NoXfer
                        \/ creating[c] # NoFrame /\ creating[c][1] = f
                        \/ \E n \in DOMAIN wire[c] : wire[c][n][1] = f

\* While no link drops, no process stops and no database call fails, a file
\* the agent has removed is on its way or published (client.py:502).
LostOnlyByFault ==
    faults = 0 => \A f \in Files : file[f] = "shipped" => Underway(f)

\* ... and its scan records a verdict (server.py:766, scan.py:112).
ShippedIsScanned ==
    \A f \in Files : file[f] = "shipped" ~> (f \in judged \/ faults > 0)

\* Every file that was sent is published in the end: what the docstring of
\* _send_pcap says (client.py:497, 502).
SentIsPublished ==
    \A f \in Files : file[f] = "shipped" ~> final[f] # None

=============================================================================

--------------------------- MODULE TransferProofs ---------------------------
(* Proofs about PcapTransfer, for any files, sessions, links and faults.    *)
EXTENDS PcapTransfer, FiniteSetTheorems, SequenceTheorems, TLAPS

-----------------------------------------------------------------------------
(* The rows of the scan history. *)

FilesIn(s) == {f \in Files : SessionOf[f] = s}
ScanRow == [status : {"absent", "running", "completed", "failed"},
            file : Files \cup {<<>>}, result : Files \cup {<<>>}]

\* The types of what launch_scan works on; the scans that wait are those of the
\* session.
ScanTypes ==
    /\ DOMAIN queue = Sessions /\ \A s \in Sessions : queue[s] \in Seq(FilesIn(s))
    /\ scan \in [Files -> {"none", "spawned", "engine", "exited"}]
    /\ row \in [Sessions -> ScanRow]

\* One scan of a session holds its lock, and the row points at its file from
\* _record_start to _record_finish.
OneScan ==
    /\ \A f, g \in Files :
        SessionOf[f] = SessionOf[g] /\ scan[f] # "none" /\ scan[g] # "none" => f = g
    /\ \A f \in Files : scan[f] \in {"engine", "exited"} => row[SessionOf[f]].file = f

RowInv == ScanTypes /\ OneScan /\ RowKeepsItsFile

\* No step of the agent or of the uploads touches a scan, apart from the file
\* that finish_pcap_upload hands over.
LEMMA RowOther ==
    ASSUME RowInv, scan' = scan, row' = row,
           \/ queue' = queue
           \/ \E f \in Files : queue' = [queue EXCEPT ![SessionOf[f]] = Append(queue[SessionOf[f]], f)]
    PROVE  RowInv'
<1>1. CASE queue' = queue
  BY <1>1 DEF RowInv, ScanTypes, OneScan, RowKeepsItsFile
<1>2. ASSUME NEW f \in Files, queue' = [queue EXCEPT ![SessionOf[f]] = Append(queue[SessionOf[f]], f)]
      PROVE  RowInv'
  <2> DEFINE s == SessionOf[f]
  <2>1. s \in Sessions /\ f \in FilesIn(s) /\ queue[s] \in Seq(FilesIn(s))
    BY TransferAssumption DEF FilesIn, RowInv, ScanTypes
  <2>2. Append(queue[s], f) \in Seq(FilesIn(s))
    BY <2>1, AppendProperties
  <2>3. ScanTypes'
    BY <1>2, <2>1, <2>2 DEF RowInv, ScanTypes
  <2> QED
    BY <2>3 DEF RowInv, OneScan, RowKeepsItsFile
<1> QED
  BY <1>1, <1>2

\* A scan takes the lock: it is the first that waits, and no other holds it.
LEMMA RowSpawns ==
    ASSUME RowInv, NEW s \in Sessions, ScanSpawns(s)
    PROVE  RowInv'
<1> DEFINE f == Head(queue[s])
<1>1. f \in Files /\ SessionOf[f] = s /\ Tail(queue[s]) \in Seq(FilesIn(s))
  <2>1. queue[s] \in Seq(FilesIn(s)) /\ queue[s] # <<>>
    BY DEF RowInv, ScanTypes, ScanSpawns
  <2>2. f \in FilesIn(s) /\ Tail(queue[s]) \in Seq(FilesIn(s))
    BY <2>1, HeadTailProperties
  <2> QED
    BY <2>2 DEF FilesIn
<1>2. row' = row /\ queue' = [queue EXCEPT ![s] = Tail(queue[s])]
  BY DEF ScanSpawns
<1>3. scan' = scan \/ scan' = [scan EXCEPT ![f] = "spawned"]
  BY DEF ScanSpawns, SetScan
<1>4. ScanTypes'
  BY <1>1, <1>2, <1>3 DEF RowInv, ScanTypes
<1>5. \A g \in Files : SessionOf[g] = s => scan[g] = "none"
  BY DEF ScanSpawns, Locked
<1>6. OneScan'
  BY <1>1, <1>2, <1>3, <1>5 DEF RowInv, ScanTypes, OneScan
<1> QED
  BY <1>2, <1>4, <1>6 DEF RowInv, RowKeepsItsFile

\* _record_start writes the session's row over with this file.
LEMMA RowStarts ==
    ASSUME RowInv, NEW f \in Files, ScanRecordsStart(f)
    PROVE  RowInv'
<1> DEFINE s == SessionOf[f]
<1>0. s \in Sessions /\ queue' = queue /\ scan[f] = "spawned"
  BY TransferAssumption DEF ScanRecordsStart
<1>1. CASE row' = row /\ scan' = [scan EXCEPT ![f] = "none"]
  <2>1. ScanTypes'
    BY <1>0, <1>1 DEF RowInv, ScanTypes
  <2>2. OneScan'
    BY <1>1 DEF RowInv, ScanTypes, OneScan
  <2> QED
    BY <1>1, <2>1, <2>2 DEF RowInv, RowKeepsItsFile
<1>2. CASE /\ row' = [row EXCEPT ![s] = [status |-> "running", file |-> f, result |-> <<>>]]
           /\ scan' = [scan EXCEPT ![f] = "engine"]
  <2>1. /\ row'[s].status = "running" /\ row'[s].file = f
        /\ \A t \in Sessions \ {s} : row'[t] = row[t]
    BY <1>0, <1>2 DEF RowInv, ScanTypes
  <2>2. ScanTypes'
    BY <1>0, <1>2 DEF RowInv, ScanTypes, ScanRow
  <2>3. OneScan'
    <3>1. \A g \in Files : SessionOf[g] \in Sessions
      BY TransferAssumption
    <3>2. \A g \in Files : SessionOf[g] = s /\ scan[g] # "none" => g = f
      BY <1>0 DEF RowInv, OneScan
    <3>3. \A g \in Files : scan'[g] = IF g = f THEN "engine" ELSE scan[g]
      BY <1>2 DEF RowInv, ScanTypes
    <3> QED
      BY <2>1, <3>1, <3>2, <3>3, <1>0 DEF RowInv, OneScan
  <2> QED
    BY <2>1, <2>2, <2>3 DEF RowInv, RowKeepsItsFile
<1> QED
  BY <1>1, <1>2 DEF ScanRecordsStart, SetRow, SetScan

\* _record_finish gives the verdict of the file that the row points at.
LEMMA RowFinishes ==
    ASSUME RowInv, NEW f \in Files, ScanRecordsFinish(f)
    PROVE  RowInv'
<1> DEFINE s == SessionOf[f]
<1>0. s \in Sessions /\ queue' = queue /\ scan' = [scan EXCEPT ![f] = "none"] /\ row[s].file = f
  BY TransferAssumption DEF ScanRecordsFinish, SetScan, RowInv, OneScan
<1>1. \/ row' = row
      \/ row' = [row EXCEPT ![s] = [status |-> Verdict(f), file |-> f, result |-> f]]
  BY <1>0 DEF ScanRecordsFinish, SetRow
<1>2. \A t \in Sessions : \/ row'[t] = row[t]
                          \/ row'[t].file = row[t].file /\ row'[t].result = row'[t].file
  BY <1>0, <1>1 DEF RowInv, ScanTypes
<1>3. ScanTypes'
  <2>1. [status |-> Verdict(f), file |-> f, result |-> f] \in ScanRow
    BY DEF ScanRow, Verdict
  <2>2. row' \in [Sessions -> ScanRow]
    BY <1>0, <1>1, <2>1 DEF RowInv, ScanTypes
  <2> QED
    BY <1>0, <2>2 DEF RowInv, ScanTypes
<1>4. OneScan'
  <2>1. \A g \in Files : SessionOf[g] \in Sessions
    BY TransferAssumption
  <2>2. \A g \in Files : scan'[g] # "none" => scan'[g] = scan[g]
    BY <1>0 DEF RowInv, ScanTypes
  <2> QED
    BY <1>2, <2>1, <2>2 DEF RowInv, OneScan
<1> QED
  BY <1>2, <1>3, <1>4 DEF RowInv, RowKeepsItsFile

\* After a restart no scan runs, and rows left running are judged by the file
\* they point at.
LEMMA RowRestarts ==
    ASSUME RowInv, GatewayRestarts
    PROVE  RowInv'
<1>1. \A s \in Sessions :
        row'[s] = IF row[s].status = "running"
                  THEN [row[s] EXCEPT !.status = Verdict(row[s].file), !.result = row[s].file]
                  ELSE row[s]
  BY DEF GatewayRestarts
<1>2. ASSUME NEW r \in ScanRow
      PROVE  LET q == [r EXCEPT !.status = Verdict(r.file), !.result = r.file] IN
             q \in ScanRow /\ q.result = q.file
  BY DEF ScanRow, Verdict
<1>3. \A s \in Sessions : row[s] \in ScanRow
  BY DEF RowInv, ScanTypes
<1>4. row' \in [Sessions -> ScanRow]
  <2>1. \A s \in Sessions : row'[s] \in ScanRow
    BY <1>1, <1>2, <1>3
  <2>2. row' = [s \in Sessions |-> row'[s]]
    BY <1>1 DEF GatewayRestarts
  <2> QED
    BY <2>1, <2>2
<1>5. ScanTypes'
  <2>1. \A s \in Sessions : <<>> \in Seq(FilesIn(s))
    OBVIOUS
  <2> QED
    BY <1>4, <2>1 DEF ScanTypes, GatewayRestarts
<1>6. OneScan'
  BY DEF OneScan, GatewayRestarts
<1>7. RowKeepsItsFile'
  BY <1>1, <1>2, <1>3 DEF RowInv, RowKeepsItsFile
<1> QED
  BY <1>5, <1>6, <1>7 DEF RowInv

\* Every step keeps the strengthening.
LEMMA RowStep ==
    ASSUME RowInv, [Next]_vars
    PROVE  RowInv'
<1>1. CASE UNCHANGED vars \/ AgentNext
  BY <1>1, RowOther
     DEF vars, scanVars, AgentNext, Rotate, Reclaim, SendFrame, ShipReturns, Poll, PollAnswers,
         Stop, StopAnswers, LinkDrops, AgentStops, LeaveLink, Reconnect, FlushNext
<1>2. ASSUME NEW c \in Conns,
             \/ WriteChunk(c) \/ BeginUpload(c) \/ UploadBegun(c) \/ UploadRejected(c)
             \/ CompleteUpload(c) \/ ConnectionCloses(c) \/ \E f \in Files : FinishUpload(c, f)
      PROVE  RowInv'
  BY <1>2, RowOther
     DEF scanVars, WriteChunk, BeginUpload, UploadBegun, UploadRejected, CompleteUpload,
         ConnectionCloses, FinishUpload
<1>3. ASSUME NEW f \in Files, EngineEnds(f)
      PROVE  RowInv'
  <2>1. scan' = [scan EXCEPT ![f] = "exited"] /\ scan[f] = "engine" /\ UNCHANGED <<queue, row>>
    BY <1>3 DEF EngineEnds, SetScan
  <2>2. ScanTypes'
    BY <2>1 DEF RowInv, ScanTypes
  <2>3. OneScan'
    BY <2>1 DEF RowInv, ScanTypes, OneScan
  <2> QED
    BY <2>1, <2>2, <2>3 DEF RowInv, RowKeepsItsFile
<1> QED
  BY <1>1, <1>2, <1>3, RowSpawns, RowStarts, RowFinishes, RowRestarts DEF Next, GatewayNext

\* At first no scan waits or runs, and no session has a row.
LEMMA RowInit == Init => RowInv
<1>1. \A s \in Sessions : <<>> \in Seq(FilesIn(s))
  OBVIOUS
<1>2. Init => ScanTypes
  BY <1>1 DEF Init, ScanTypes, ScanRow
<1> QED
  BY <1>2 DEF Init, RowInv, OneScan, RowKeepsItsFile

\* Although all rotations of a session share one ScanHistory row, the verdict of
\* launch_scan in it is that of the file the row points at, whatever the links,
\* uploads, restarts and failures are.
THEOREM RowVerdictIsOfItsFile == Spec => []RowKeepsItsFile
<1>1. Init => RowInv
  BY RowInit
<1>2. RowInv /\ [Next]_vars => RowInv'
  BY RowStep
<1>3. RowInv => RowKeepsItsFile
  BY DEF RowInv
<1> QED
  BY <1>1, <1>2, <1>3, PTL DEF Spec

-----------------------------------------------------------------------------
(* The frames of a connection. *)

\* The frames of a file are in the order in which they were sent, none twice.
InOrder(s) ==
    \A m, n \in 1..Len(s) : m < n /\ s[m][1] = s[n][1] => s[m][2] < s[n][2]

\* A cut-off tail takes frames away.
LEMMA PrefixInOrder ==
    ASSUME NEW s \in Seq(Frame), InOrder(s), NEW n \in 0..Len(s)
    PROVE  /\ SubSeq(s, 1, n) \in Seq(Frame) /\ InOrder(SubSeq(s, 1, n))
           /\ \A x : Contains(SubSeq(s, 1, n), x) => Contains(s, x)
           /\ s = <<>> => SubSeq(s, 1, n) = <<>>
<1> DEFINE t == SubSeq(s, 1, n)
<1>0. Len(s) \in Nat /\ n \in Nat /\ s \in [1..Len(s) -> Frame]
  BY LenProperties
<1>1. t \in Seq(Frame) /\ Len(t) = n /\ \A i \in 1..n : t[i] = s[i]
  BY <1>0, SubSeqProperties
<1>2. s = <<>> => t = <<>>
  BY <1>0, SubSeqEmpty
<1> HIDE DEF t
<1>3. InOrder(t)
  BY <1>0, <1>1 DEF InOrder
<1>4. \A x : Contains(t, x) => Contains(s, x)
  BY <1>0, <1>1 DEF Contains
<1> QED
  BY <1>1, <1>2, <1>3, <1>4 DEF t

\* The next frame is the first of its file.
LEMMA TailInOrder ==
    ASSUME NEW s \in Seq(Frame), InOrder(s), s # <<>>
    PROVE  /\ Head(s) \in Frame /\ Tail(s) \in Seq(Frame) /\ InOrder(Tail(s))
           /\ \A x : Contains(s, x) <=> x = Head(s) \/ Contains(Tail(s), x)
           /\ \A f, i : Contains(Tail(s), <<f, i>>) /\ Head(s)[1] = f => Head(s)[2] < i
<1> DEFINE t == Tail(s)
<1>0. Len(s) \in Nat \ {0} /\ Head(s) = s[1]
  BY EmptySeq
<1>1. Head(s) \in Frame /\ t \in Seq(Frame) /\ Len(t) = Len(s) - 1
      /\ \A i \in 1..Len(t) : t[i] = s[i + 1]
  BY HeadTailProperties
<1> HIDE DEF t
<1>2. \A i \in 1..Len(s) : i = 1 \/ (i - 1 \in 1..Len(t) /\ s[i] = t[i - 1])
  BY <1>0, <1>1
<1>3. InOrder(t)
  <2> SUFFICES ASSUME NEW m \in 1..Len(t), NEW n \in 1..Len(t), m < n, t[m][1] = t[n][1]
               PROVE  t[m][2] < t[n][2]
    BY DEF InOrder
  <2>1. m + 1 \in 1..Len(s) /\ n + 1 \in 1..Len(s) /\ m + 1 < n + 1
    BY <1>0, <1>1
  <2>2. t[m] = s[m + 1] /\ t[n] = s[n + 1]
    BY <1>1
  <2> QED
    BY <2>1, <2>2 DEF InOrder
<1>4. \A x : Contains(s, x) <=> x = Head(s) \/ Contains(t, x)
  <2>1. \A i \in 1..Len(t) : i + 1 \in 1..Len(s) /\ t[i] = s[i + 1]
    BY <1>0, <1>1
  <2>2. 1 \in 1..Len(s) /\ Head(s) = s[1]
    BY <1>0
  <2>3. ASSUME NEW x, Contains(s, x) PROVE x = Head(s) \/ Contains(t, x)
    BY <1>2, <2>2, <2>3 DEF Contains
  <2>4. ASSUME NEW x, x = Head(s) \/ Contains(t, x) PROVE Contains(s, x)
    BY <2>1, <2>2, <2>4 DEF Contains
  <2> QED
    BY <2>3, <2>4
<1>5. \A f, i : Contains(t, <<f, i>>) /\ Head(s)[1] = f => Head(s)[2] < i
  <2> SUFFICES ASSUME NEW f, NEW i, NEW n \in 1..Len(t), t[n] = <<f, i>>, Head(s)[1] = f
               PROVE  Head(s)[2] < i
    BY DEF Contains
  <2>1. 1 \in 1..Len(s) /\ n + 1 \in 1..Len(s) /\ 1 < n + 1
    BY <1>0, <1>1
  <2>2. Head(s) = s[1] /\ s[n + 1] = <<f, i>>
    BY <1>0, <1>1
  <2> QED
    BY <2>1, <2>2 DEF InOrder
<1> QED
  BY <1>1, <1>3, <1>4, <1>5 DEF t

\* A frame is sent after the frames before it.
LEMMA AppendInOrder ==
    ASSUME NEW s \in Seq(Frame), InOrder(s), NEW e \in Frame,
           \A f, i : Contains(s, <<f, i>>) /\ f = e[1] => i < e[2]
    PROVE  /\ Append(s, e) \in Seq(Frame) /\ InOrder(Append(s, e))
           /\ \A x : Contains(Append(s, e), x) <=> Contains(s, x) \/ x = e
<1> DEFINE t == Append(s, e)
<1>0. Len(s) \in Nat /\ s \in [1..Len(s) -> Frame]
  BY LenProperties
<1>1. t \in Seq(Frame) /\ Len(t) = Len(s) + 1 /\ t[Len(s) + 1] = e
      /\ \A i \in 1..Len(s) : t[i] = s[i]
  BY AppendProperties
<1>2. \A i \in 1..Len(s) : s[i] = <<s[i][1], s[i][2]>>
  BY <1>0 DEF Frame
<1>3. \A m \in 1..Len(s) : s[m][1] = e[1] => s[m][2] < e[2]
  BY <1>2 DEF Contains
<1> HIDE DEF t
<1>4. InOrder(t)
  <2> SUFFICES ASSUME NEW m \in 1..Len(t), NEW n \in 1..Len(t), m < n, t[m][1] = t[n][1]
               PROVE  t[m][2] < t[n][2]
    BY DEF InOrder
  <2>1. m \in 1..Len(s) /\ t[m] = s[m]
    BY <1>0, <1>1
  <2>2. CASE n \in 1..Len(s)
    BY <1>1, <2>1, <2>2 DEF InOrder
  <2>3. CASE n = Len(s) + 1
    BY <1>1, <1>3, <2>1, <2>3
  <2> QED
    BY <1>0, <1>1, <2>2, <2>3
<1>5. \A x : Contains(t, x) <=> Contains(s, x) \/ x = e
  BY <1>0, <1>1 DEF Contains
<1> QED
  BY <1>1, <1>4, <1>5 DEF t

\* Nothing is in an empty sequence.
LEMMA EmptyHasNothing == InOrder(<<>>) /\ \A x : ~Contains(<<>>, x)
BY DEF InOrder, Contains

-----------------------------------------------------------------------------
(* Types. *)

FileStates ==
    {"unused", "open", "closed", "polled", "handed", "shipping", "spooled", "shipped",
     "dropped", "missed"}
Xfer == {NoXfer} \cup [ino : Inodes, got : SUBSET Chunks]

\* The types of what an upload goes through.
UploadTypes ==
    /\ file \in [Files -> FileStates]
    /\ next \in [Files -> 0..(Complete + 1)]
    /\ link \in Conns \cup {None}
    /\ opened \in Conns
    /\ wire \in [Conns -> Seq(Frame)]
    /\ gw \in [Conns -> {"new", "serving", "closed"}]
    /\ creating \in [Conns -> (Files \X Chunks) \cup {NoFrame}]
    /\ xfer \in [Conns -> [Files -> Xfer]]
    /\ content \in [Inodes -> SUBSET Chunks]
    /\ partial \in [Files -> Inodes \cup {None}]
    /\ final \in [Files -> Inodes \cup {None}]
    /\ finishing \subseteq Conns \X Files
    /\ faults \in Nat

\* Indices are small numbers, and frames are no chunks of none.
LEMMA Indices ==
    /\ LastChunk \in Nat /\ Complete \in Nat /\ Complete \in 0..Complete /\ Complete \notin Chunks
    /\ Chunks \subseteq 0..Complete /\ 0 \in Chunks /\ Chunks \subseteq Nat
    /\ \A i \in 0..Complete : i = Complete \/ i \in Chunks
    /\ 1 \in Conns /\ Conns \subseteq Nat \ {0} /\ None \notin Conns /\ None \notin Inodes
BY TransferAssumption DEF Complete, Chunks, Conns, Inodes, None

\* An upload that is open has an inode.
LEMMA XferFields ==
    ASSUME UploadTypes, NEW c \in Conns, NEW f \in Files
    PROVE  /\ xfer[c][f] \in Xfer
           /\ xfer[c][f] # NoXfer => /\ xfer[c][f].ino \in Inodes /\ xfer[c][f].got \subseteq Chunks
                                     /\ \A i \in Chunks : [xfer[c][f] EXCEPT !.got = @ \cup {i}] \in Xfer \ {NoXfer}
<1>1. xfer[c][f] \in Xfer
  BY DEF UploadTypes
<1>2. ASSUME xfer[c][f] # NoXfer PROVE xfer[c][f] \in [ino : Inodes, got : SUBSET Chunks]
  BY <1>1, <1>2 DEF Xfer
<1>3. ASSUME NEW x \in [ino : Inodes, got : SUBSET Chunks], NEW i \in Chunks
      PROVE  [x EXCEPT !.got = @ \cup {i}] \in Xfer \ {NoXfer}
  <2>1. [x EXCEPT !.got = @ \cup {i}] \in [ino : Inodes, got : SUBSET Chunks]
    OBVIOUS
  <2>2. [x EXCEPT !.got = @ \cup {i}].ino # NoXfer.ino
    BY Indices DEF NoXfer
  <2> QED
    BY <2>1, <2>2 DEF Xfer
<1> QED
  BY <1>1, <1>2, <1>3

\* A fault is counted, and nothing else is.
LEMMA FaultTyped ==
    ASSUME UploadTypes, Fault \/ NoFault \/ UNCHANGED faults
    PROVE  faults' \in Nat /\ (faults' = 0 => faults = 0 /\ ~Fault)
BY DEF Fault, NoFault, UploadTypes

\* The steps of the agent keep the types.
LEMMA UploadTypesAgent == UploadTypes /\ AgentNext => UploadTypes'
<1> SUFFICES ASSUME UploadTypes, AgentNext PROVE UploadTypes'
  OBVIOUS
<1> USE DEF UploadTypes, uploadVars, FileStates
<1>1. ASSUME NEW fs \in SUBSET Files, NEW state \in FileStates
      PROVE  Moved(fs, state) \in [Files -> FileStates]
  BY <1>1 DEF Moved
<1>2. ASSUME NEW fs, NEW base \in [Files -> FileStates], Ship(fs, base)
      PROVE  file' \in [Files -> FileStates] /\ next' \in [Files -> 0..(Complete + 1)]
  <2>1. file' \in [Files -> FileStates]
    BY <1>2 DEF Ship
  <2>2. 0 \in 0..(Complete + 1)
    BY Indices
  <2>3. \A f \in Files : (IF f \in fs THEN 0 ELSE next[f]) \in 0..(Complete + 1)
    BY <2>2
  <2> QED
    BY <1>2, <2>1, <2>3 DEF Ship
<1>3. ASSUME NEW f \in Files, Rotate(f) \/ Reclaim(f) \/ ShipReturns(f) PROVE UploadTypes'
  <2>1. file' \in [Files -> FileStates]
    BY <1>3 DEF Rotate, Reclaim, ShipReturns
  <2>2. faults' \in Nat
    BY <1>3, FaultTyped DEF Rotate, Reclaim, ShipReturns
  <2> QED
    BY <1>3, <2>1, <2>2 DEF Rotate, Reclaim, ShipReturns
<1>4. ASSUME NEW f \in Files, SendFrame(f) PROVE UploadTypes'
  <2>1. next[f] \in 0..Complete /\ next[f] + 1 \in 0..(Complete + 1)
    BY <1>4, Indices DEF SendFrame
  <2>2. link \in Conns /\ wire[link] \in Seq(Frame) /\ <<f, next[f]>> \in Frame
    BY <1>4, <2>1 DEF SendFrame, Frame
  <2>3. Append(wire[link], <<f, next[f]>>) \in Seq(Frame)
    BY <2>2, AppendProperties
  <2>4. wire' \in [Conns -> Seq(Frame)]
    BY <1>4, <2>2, <2>3 DEF SendFrame
  <2>5. next' \in [Files -> 0..(Complete + 1)]
    BY <1>4, <2>1 DEF SendFrame
  <2> QED
    BY <1>4, <2>4, <2>5 DEF SendFrame
<1>5. ASSUME NEW s \in Sessions, Poll(s) \/ Stop(s) PROVE UploadTypes'
  <2>1. \A states : FilesOf(s, states) \in SUBSET Files
    BY DEF FilesOf
  <2>2. file' \in [Files -> FileStates]
    <3>1. \A states : Moved(FilesOf(s, states), "polled") \in [Files -> FileStates]
      BY <1>1, <2>1
    <3>2. \A states : Moved(FilesOf(s, states), "handed") \in [Files -> FileStates]
      BY <1>1, <2>1
    <3> QED
      BY <1>5, <3>1, <3>2 DEF Poll, Stop
  <2> QED
    BY <1>5, <2>2 DEF Poll, Stop
<1>6. ASSUME NEW s \in Sessions, PollAnswers(s) \/ StopAnswers(s) PROVE UploadTypes'
  <2>1. \A states : FilesOf(s, states) \in SUBSET Files
    BY DEF FilesOf
  <2>2. file' \in [Files -> FileStates] /\ next' \in [Files -> 0..(Complete + 1)]
    BY <1>1, <1>2, <1>6, <2>1 DEF PollAnswers, StopAnswers
  <2> QED
    BY <1>6, <2>2 DEF PollAnswers, StopAnswers
<1>7. CASE FlushNext
  <2>1. file' \in [Files -> FileStates] /\ next' \in [Files -> 0..(Complete + 1)]
    BY <1>2, <1>7 DEF FlushNext
  <2> QED
    BY <1>7, <2>1 DEF FlushNext
<1>8. ASSUME NEW shipping \in FileStates, LeaveLink(shipping), link # None,
             faults' \in Nat
      PROVE  UploadTypes'
  <2>1. PICK n \in 0..Len(wire[link]) : wire' = [wire EXCEPT ![link] = SubSeq(wire[link], 1, n)]
    BY <1>8 DEF LeaveLink
  <2>2. wire[link] \in Seq(Frame) /\ Len(wire[link]) \in Nat
    BY <1>8, LenProperties
  <2>3. SubSeq(wire[link], 1, n) \in Seq(Frame)
    BY <2>2, LenProperties, SubSeqProperties
  <2>4. wire' \in [Conns -> Seq(Frame)]
    BY <2>1, <2>3
  <2>5. file' \in [Files -> FileStates]
    BY <1>8 DEF LeaveLink
  <2> QED
    BY <1>8, <2>4, <2>5 DEF LeaveLink
<1>9. CASE LinkDrops \/ AgentStops
  BY <1>8, <1>9, FaultTyped DEF LinkDrops, AgentStops
<1>10. CASE Reconnect
  <2>1. opened + 1 \in Conns
    BY <1>10, TransferAssumption DEF Reconnect, Conns
  <2> QED
    BY <1>10, <2>1 DEF Reconnect
<1> QED
  BY <1>3, <1>4, <1>5, <1>6, <1>7, <1>9, <1>10 DEF AgentNext

\* The frame that a connection's next task handles.
LEMMA HandledTyped ==
    ASSUME UploadTypes, NEW c \in Conns, Sent(c)
    PROVE  /\ Head(wire[c])[1] \in Files /\ Head(wire[c])[2] \in 0..Complete
           /\ Head(wire[c]) = <<Head(wire[c])[1], Head(wire[c])[2]>>
           /\ wire' \in [Conns -> Seq(Frame)]
<1>1. wire[c] \in Seq(Frame) /\ wire[c] # <<>>
  BY DEF UploadTypes, Sent
<1>2. Head(wire[c]) \in Frame /\ Tail(wire[c]) \in Seq(Frame)
  BY <1>1, HeadTailProperties
<1>3. wire' \in [Conns -> Seq(Frame)]
  BY <1>2 DEF Sent, UploadTypes
<1> QED
  BY <1>2, <1>3 DEF Frame

\* The steps of an upload keep the types.
LEMMA UploadTypesGateway == UploadTypes /\ GatewayNext => UploadTypes'
<1> SUFFICES ASSUME UploadTypes, GatewayNext PROVE UploadTypes'
  OBVIOUS
<1> USE DEF UploadTypes, agentVars
<1>1. ASSUME NEW c \in Conns, WriteChunk(c) PROVE UploadTypes'
  <2> DEFINE f == Head(wire[c])[1]
             i == Head(wire[c])[2]
  <2>1. f \in Files /\ i \in Chunks /\ wire' \in [Conns -> Seq(Frame)]
    BY <1>1, HandledTyped, Indices DEF WriteChunk
  <2> HIDE DEF f, i
  <2>2. xfer[c][f].ino \in Inodes /\ [xfer[c][f] EXCEPT !.got = @ \cup {i}] \in Xfer
    BY <1>1, <2>1, XferFields DEF WriteChunk, f, i
  <2>3. /\ content' = [content EXCEPT ![xfer[c][f].ino] = @ \cup {i}]
        /\ xfer' = [xfer EXCEPT ![c][f] = [xfer[c][f] EXCEPT !.got = @ \cup {i}]]
    BY <1>1 DEF WriteChunk, f, i
  <2>4. content' \in [Inodes -> SUBSET Chunks] /\ xfer' \in [Conns -> [Files -> Xfer]]
    BY <2>1, <2>2, <2>3
  <2> QED
    BY <1>1, <2>1, <2>4 DEF WriteChunk
<1>2. ASSUME NEW c \in Conns, BeginUpload(c) PROVE UploadTypes'
  BY <1>2, HandledTyped, Indices DEF BeginUpload
<1>3. ASSUME NEW c \in Conns, UploadBegun(c) PROVE UploadTypes'
  <2> DEFINE f == creating[c][1]
             n == creating[c][2]
  <2>1. f \in Files /\ n \in Chunks
    BY <1>3 DEF UploadBegun
  <2> HIDE DEF f, n
  <2>2. PICK i \in Inodes :
           /\ partial' = [partial EXCEPT ![f] = i]
           /\ content' = [content EXCEPT ![i] = IF partial[f] = None THEN {n} ELSE @ \cup {n}]
           /\ xfer' = [xfer EXCEPT ![c][f] = [ino |-> i, got |-> {n}]]
    BY <1>3 DEF UploadBegun, f, n
  <2>3. [ino |-> i, got |-> {n}] \in Xfer
    BY <2>1 DEF Xfer
  <2>4. xfer' \in [Conns -> [Files -> Xfer]]
    BY <2>1, <2>2, <2>3
  <2>5. content' \in [Inodes -> SUBSET Chunks] /\ partial' \in [Files -> Inodes \cup {None}]
    BY <2>1, <2>2
  <2> QED
    BY <1>3, <2>4, <2>5 DEF UploadBegun
<1>4. ASSUME NEW c \in Conns, UploadRejected(c) PROVE UploadTypes'
  BY <1>4, FaultTyped DEF UploadRejected
<1>5. ASSUME NEW c \in Conns, CompleteUpload(c) PROVE UploadTypes'
  <2> DEFINE f == Head(wire[c])[1]
  <2>1. f \in Files /\ wire' \in [Conns -> Seq(Frame)]
    BY <1>5, HandledTyped DEF CompleteUpload
  <2> HIDE DEF f
  <2>2. /\ xfer' = [xfer EXCEPT ![c][f] = NoXfer]
        /\ finishing' \in {finishing, finishing \cup {<<c, f>>}}
        /\ partial' \in {partial, [partial EXCEPT ![f] = None]}
    BY <1>5 DEF CompleteUpload, f
  <2>3. xfer' \in [Conns -> [Files -> Xfer]]
    BY <2>1, <2>2 DEF Xfer
  <2>4. finishing' \subseteq Conns \X Files
    <3>1. <<c, f>> \in Conns \X Files
      BY <2>1
    <3>2. finishing \cup {<<c, f>>} \subseteq Conns \X Files
      BY <3>1
    <3> QED
      BY <2>2, <3>2
  <2>5. partial' \in [Files -> Inodes \cup {None}]
    <3>1. [partial EXCEPT ![f] = None] \in [Files -> Inodes \cup {None}]
      BY <2>1
    <3> QED
      BY <2>2, <3>1
  <2>6. UNCHANGED <<file, next, link, opened, gw, creating, content, final, faults>>
    BY <1>5 DEF CompleteUpload, agentVars
  <2> QED
    BY <2>1, <2>3, <2>4, <2>5, <2>6
<1>6. ASSUME NEW c \in Conns, NEW f \in Files, FinishUpload(c, f) PROVE UploadTypes'
  <2>1. finishing' \subseteq finishing /\ faults' \in Nat
    BY <1>6, FaultTyped DEF FinishUpload
  <2>2. \/ UNCHANGED <<partial, final>>
        \/ final' = [final EXCEPT ![f] = partial[f]] /\ partial' = [partial EXCEPT ![f] = None]
    BY <1>6 DEF FinishUpload
  <2> QED
    BY <1>6, <2>1, <2>2 DEF FinishUpload
<1>7. ASSUME NEW c \in Conns, ConnectionCloses(c) PROVE UploadTypes'
  <2>1. PICK n \in 0..Len(wire[c]) : wire' = [wire EXCEPT ![c] = SubSeq(wire[c], 1, n)]
    BY <1>7 DEF ConnectionCloses
  <2>2. wire[c] \in Seq(Frame) /\ Len(wire[c]) \in Nat
    BY LenProperties
  <2>3. SubSeq(wire[c], 1, n) \in Seq(Frame)
    BY <2>2, LenProperties, SubSeqProperties
  <2>4. wire' \in [Conns -> Seq(Frame)]
    BY <2>1, <2>3
  <2>5. xfer' \in [Conns -> [Files -> Xfer]]
    BY <1>7 DEF ConnectionCloses, Xfer
  <2>6. faults' \in Nat
    BY <1>7, FaultTyped DEF ConnectionCloses
  <2> QED
    BY <1>7, <2>4, <2>5, <2>6 DEF ConnectionCloses
<1>8. CASE GatewayRestarts
  <2>1. <<>> \in Seq(Frame) /\ NoXfer \in Xfer
    BY DEF Xfer
  <2>2. faults' \in Nat
    BY <1>8, FaultTyped DEF GatewayRestarts
  <2>3. wire' \in [Conns -> Seq(Frame)] /\ xfer' \in [Conns -> [Files -> Xfer]]
    BY <1>8, <2>1 DEF GatewayRestarts
  <2> QED
    BY <1>8, <2>2, <2>3 DEF GatewayRestarts
<1>9. ASSUME \/ \E s \in Sessions : ScanSpawns(s)
             \/ \E f \in Files : ScanRecordsStart(f) \/ EngineEnds(f) \/ ScanRecordsFinish(f)
      PROVE  UploadTypes'
  <2>1. UNCHANGED <<agentVars, wire, gw, uploadVars>> /\ faults' \in Nat
    BY <1>9, FaultTyped DEF ScanSpawns, ScanRecordsStart, EngineEnds, ScanRecordsFinish
  <2> QED
    BY <2>1 DEF uploadVars
<1> QED
  BY <1>1, <1>2, <1>3, <1>4, <1>5, <1>6, <1>7, <1>8, <1>9 DEF GatewayNext

\* Uploads keep their types.
LEMMA UploadTypesStep == UploadTypes /\ [Next]_vars => UploadTypes'
<1>1. UploadTypes /\ UNCHANGED vars => UploadTypes'
  BY DEF UploadTypes, vars, agentVars, uploadVars
<1> QED
  BY <1>1, UploadTypesAgent, UploadTypesGateway DEF Next

\* The agent starts with one link and no upload.
LEMMA UploadTypesInit == Init => UploadTypes
<1> SUFFICES ASSUME Init PROVE UploadTypes
  OBVIOUS
<1>1. <<>> \in Seq(Frame) /\ NoXfer \in Xfer /\ 0 \in 0..(Complete + 1) /\ 1 \in Conns
  BY Indices DEF Xfer
<1> QED
  BY <1>1 DEF Init, UploadTypes, FileStates

-----------------------------------------------------------------------------
(* What connections of one agent have to do with each other. *)

Sending == {"shipping", "shipped"}

\* The gateway knows nothing of a connection that was not opened.
Idle(c) ==
    /\ wire[c] = <<>> /\ creating[c] = NoFrame
    /\ \A f \in Files : xfer[c][f] = NoXfer /\ <<c, f>> \notin finishing

\* The link is the last connection that was opened; a file is sent over a
\* connection once, from its first frame to its last; the task that holds
\* pcap_create_lock finds no upload of its file.
LinkInv ==
    /\ link # None => link <= opened
    /\ \A c \in Conns : c > opened => Idle(c)
    /\ \A c \in Conns : InOrder(wire[c])
    /\ \A c \in Conns, f \in Files, i \in 0..Complete :
          link = c /\ Contains(wire[c], <<f, i>>) => file[f] \in Sending /\ i < next[f]
    /\ \A c \in Conns : creating[c] # NoFrame => xfer[c][creating[c][1]] = NoXfer

\* A step that only goes on with what there is, or loses it.
Calm ==
    /\ opened' = opened /\ link' \in {link, None}
    /\ \A f \in Files : link' = link /\ link # None /\ file[f] \in Sending
                           => file'[f] \in Sending /\ next'[f] = next[f]
    /\ \A c \in Conns :
        /\ InOrder(wire'[c])
        /\ wire[c] = <<>> => wire'[c] = <<>>
        /\ \A x : Contains(wire'[c], x) => Contains(wire[c], x)
        /\ creating'[c] \in {creating[c], NoFrame}
        /\ \A f \in Files : xfer'[c][f] \in {xfer[c][f], NoXfer}
    /\ finishing' \subseteq finishing
    /\ UNCHANGED <<content, partial, final>>

\* The steps that change neither a wire nor an upload.
LEMMA QuietIsCalm ==
    ASSUME LinkInv, UNCHANGED <<link, opened, wire, uploadVars>>,
           \A f \in Files : file[f] \in Sending => file'[f] \in Sending /\ next'[f] = next[f]
    PROVE  Calm
BY DEF LinkInv, Calm, uploadVars

\* A connection that ends loses the last frames it has.
LEMMA WireIsCut ==
    ASSUME UploadTypes, LinkInv, NEW c \in Conns,
           \E n \in 0..Len(wire[c]) : wire' = [wire EXCEPT ![c] = SubSeq(wire[c], 1, n)]
    PROVE  \A d \in Conns : /\ InOrder(wire'[d])
                            /\ wire[d] = <<>> => wire'[d] = <<>>
                            /\ \A x : Contains(wire'[d], x) => Contains(wire[d], x)
<1>1. PICK n \in 0..Len(wire[c]) : wire' = [wire EXCEPT ![c] = SubSeq(wire[c], 1, n)]
  OBVIOUS
<1>2. wire[c] \in Seq(Frame) /\ InOrder(wire[c])
  BY DEF UploadTypes, LinkInv
<1>3. /\ InOrder(SubSeq(wire[c], 1, n)) /\ (wire[c] = <<>> => SubSeq(wire[c], 1, n) = <<>>)
      /\ \A x : Contains(SubSeq(wire[c], 1, n), x) => Contains(wire[c], x)
  BY <1>2, PrefixInOrder
<1>4. \A d \in Conns : wire'[d] = IF d = c THEN SubSeq(wire[c], 1, n) ELSE wire[d]
  BY <1>1 DEF UploadTypes
<1> QED
  BY <1>3, <1>4 DEF LinkInv

\* The agent sends a frame, connects again, or goes on calmly.
LEMMA AgentIsCalm ==
    ASSUME UploadTypes, LinkInv, AgentNext
    PROVE  Calm \/ (\E f \in Files : SendFrame(f)) \/ Reconnect
<1>1. ASSUME NEW fs \in SUBSET Files, NEW base, Ship(fs, base),
             \A f \in Files : file[f] \in Sending => base[f] = file[f] /\ f \notin fs
      PROVE  \A f \in Files : file[f] \in Sending => file'[f] \in Sending /\ next'[f] = next[f]
  BY <1>1 DEF Ship
<1>2. ASSUME NEW f \in Files, Rotate(f) \/ Reclaim(f) \/ ShipReturns(f) PROVE Calm
  <2>1. \A g \in Files : file[g] \in Sending => file'[g] \in Sending /\ next'[g] = next[g]
    BY <1>2 DEF Rotate, Reclaim, ShipReturns, Sending, UploadTypes
  <2> QED
    BY <1>2, <2>1, QuietIsCalm DEF Rotate, Reclaim, ShipReturns
<1>3. ASSUME NEW s \in Sessions, Poll(s) \/ Stop(s) PROVE Calm
  <2>1. \A g \in Files : file[g] \in Sending => file'[g] \in Sending /\ next'[g] = next[g]
    BY <1>3 DEF Poll, Stop, Sending, Moved, FilesOf
  <2> QED
    BY <1>3, <2>1, QuietIsCalm DEF Poll, Stop
<1>4. ASSUME NEW s \in Sessions, PollAnswers(s) \/ StopAnswers(s) PROVE Calm
  <2>1. \A g \in Files : file[g] \in Sending => file'[g] \in Sending /\ next'[g] = next[g]
    BY <1>4 DEF PollAnswers, StopAnswers, Ship, Sending, Moved, FilesOf
  <2> QED
    BY <1>4, <2>1, QuietIsCalm DEF PollAnswers, StopAnswers
<1>5. CASE FlushNext
  <2>1. \A g \in Files : file[g] \in Sending => file'[g] \in Sending /\ next'[g] = next[g]
    BY <1>5 DEF FlushNext, Ship, Sending
  <2> QED
    BY <1>5, <2>1, QuietIsCalm DEF FlushNext
<1>6. ASSUME NEW shipping, LeaveLink(shipping), link # None PROVE Calm
  <2>1. link \in Conns
    BY <1>6 DEF UploadTypes
  <2>2. \A c \in Conns : /\ InOrder(wire'[c]) /\ (wire[c] = <<>> => wire'[c] = <<>>)
                         /\ \A x : Contains(wire'[c], x) => Contains(wire[c], x)
    BY <1>6, <2>1, WireIsCut DEF LeaveLink
  <2> QED
    BY <1>6, <2>2 DEF Calm, LeaveLink, uploadVars
<1>7. CASE LinkDrops \/ AgentStops
  BY <1>6, <1>7 DEF LinkDrops, AgentStops
<1> QED
  BY <1>2, <1>3, <1>4, <1>5, <1>7 DEF AgentNext

\* The gateway handles a frame or ends an upload, or goes on calmly.
LEMMA GatewayIsCalm ==
    ASSUME UploadTypes, LinkInv, GatewayNext
    PROVE  \/ Calm
           \/ \E c \in Conns : \/ WriteChunk(c) \/ BeginUpload(c) \/ UploadBegun(c)
                               \/ CompleteUpload(c) \/ \E f \in Files : FinishUpload(c, f)
<1>1. ASSUME NEW c \in Conns, UploadRejected(c) PROVE Calm
  BY <1>1 DEF UploadRejected, Calm, LinkInv, UploadTypes, agentVars
<1>2. ASSUME NEW c \in Conns, ConnectionCloses(c) PROVE Calm
  <2>4. \A d \in Conns : /\ InOrder(wire'[d]) /\ (wire[d] = <<>> => wire'[d] = <<>>)
                         /\ \A x : Contains(wire'[d], x) => Contains(wire[d], x)
    BY <1>2, WireIsCut DEF ConnectionCloses
  <2>5. \A d \in Conns, f \in Files : xfer'[d][f] \in {xfer[d][f], NoXfer}
    BY <1>2 DEF ConnectionCloses, UploadTypes
  <2> QED
    BY <1>2, <2>4, <2>5 DEF Calm, ConnectionCloses, agentVars
<1>3. CASE GatewayRestarts
  BY <1>3, EmptyHasNothing DEF GatewayRestarts, Calm, agentVars
<1>4. ASSUME \/ \E s \in Sessions : ScanSpawns(s)
             \/ \E f \in Files : ScanRecordsStart(f) \/ EngineEnds(f) \/ ScanRecordsFinish(f)
      PROVE  Calm
  BY <1>4, QuietIsCalm
     DEF ScanSpawns, ScanRecordsStart, EngineEnds, ScanRecordsFinish, agentVars
<1> QED
  BY <1>1, <1>2, <1>3, <1>4 DEF GatewayNext

\* The steps that are more than calm.
Busy ==
    \/ (\E f \in Files : SendFrame(f)) \/ Reconnect
    \/ \E c \in Conns : \/ WriteChunk(c) \/ BeginUpload(c) \/ UploadBegun(c)
                        \/ CompleteUpload(c) \/ \E f \in Files : FinishUpload(c, f)

\* These are all.
LEMMA CalmOrBusy == UploadTypes /\ LinkInv /\ [Next]_vars => Calm \/ Busy
<1>1. LinkInv /\ UNCHANGED vars => Calm
  BY QuietIsCalm DEF vars, agentVars
<1> QED
  BY <1>1, AgentIsCalm, GatewayIsCalm DEF Next, Busy

\* The frame a connection handles next.
FileOf(c) == Head(wire[c])[1]
IndexOf(c) == Head(wire[c])[2]

\* It came before the others of its file.
LEMMA Handled ==
    ASSUME UploadTypes, LinkInv, NEW c \in Conns, Sent(c)
    PROVE  /\ FileOf(c) \in Files /\ IndexOf(c) \in 0..Complete
           /\ c <= opened /\ creating[c] = NoFrame
           /\ \A x : Contains(wire[c], x) <=> x = <<FileOf(c), IndexOf(c)>> \/ Contains(wire'[c], x)
           /\ \A i : Contains(wire'[c], <<FileOf(c), i>>) => IndexOf(c) < i
           /\ \A d \in Conns : InOrder(wire'[d]) /\ (d # c => wire'[d] = wire[d])
<1>1. /\ FileOf(c) \in Files /\ IndexOf(c) \in 0..Complete
      /\ Head(wire[c]) = <<FileOf(c), IndexOf(c)>>
  BY HandledTyped DEF FileOf, IndexOf
<1>2. wire[c] # <<>> /\ creating[c] = NoFrame /\ wire[c] \in Seq(Frame) /\ InOrder(wire[c])
  BY DEF Sent, UploadTypes, LinkInv
<1>3. c <= opened
  BY <1>2, Indices DEF LinkInv, Idle, UploadTypes
<1>4. wire'[c] = Tail(wire[c]) /\ \A d \in Conns : d # c => wire'[d] = wire[d]
  BY DEF Sent, UploadTypes
<1>5. /\ InOrder(Tail(wire[c]))
      /\ \A x : Contains(wire[c], x) <=> x = Head(wire[c]) \/ Contains(Tail(wire[c]), x)
      /\ \A f, i : Contains(Tail(wire[c]), <<f, i>>) /\ Head(wire[c])[1] = f => Head(wire[c])[2] < i
  BY <1>2, TailInOrder
<1> QED
  BY <1>1, <1>2, <1>3, <1>4, <1>5 DEF LinkInv, FileOf, IndexOf

\* A frame goes after the frames of its file that were sent before.
LEMMA SentFrame ==
    ASSUME UploadTypes, LinkInv, NEW f \in Files, SendFrame(f)
    PROVE  /\ link \in Conns /\ link <= opened
           /\ next[f] \in 0..Complete /\ file[f] = "shipping"
           /\ \A c \in Conns : InOrder(wire'[c]) /\ (c # link => wire'[c] = wire[c])
           /\ \A x : Contains(wire'[link], x) => Contains(wire[link], x) \/ x = <<f, next[f]>>
           /\ \A x : Contains(wire[link], x) => Contains(wire'[link], x)
           /\ gw[link] # "closed" => Contains(wire'[link], <<f, next[f]>>)
<1>1. link \in Conns /\ link <= opened /\ next[f] \in 0..Complete /\ file[f] = "shipping"
  BY Indices DEF SendFrame, UploadTypes, LinkInv
<1>2. wire[link] \in Seq(Frame) /\ InOrder(wire[link]) /\ <<f, next[f]>> \in Frame
  BY <1>1 DEF UploadTypes, LinkInv, Frame
<1>3. \A i : Contains(wire[link], <<f, i>>) => i < next[f]
  <2> SUFFICES ASSUME NEW i, Contains(wire[link], <<f, i>>) PROVE i < next[f]
    OBVIOUS
  <2>1. <<f, i>> \in Frame
    BY <1>2, LenProperties DEF Contains
  <2>2. i \in 0..Complete
    BY <2>1 DEF Frame
  <2> QED
    BY <1>1, <2>2 DEF LinkInv
<1>4. \A g, i : Contains(wire[link], <<g, i>>) /\ g = <<f, next[f]>>[1] => i < <<f, next[f]>>[2]
  BY <1>3
<1>5. /\ InOrder(Append(wire[link], <<f, next[f]>>))
      /\ \A x : Contains(Append(wire[link], <<f, next[f]>>), x)
                <=> Contains(wire[link], x) \/ x = <<f, next[f]>>
  BY ONLY <1>2, <1>4, AppendInOrder
<1>6. CASE gw[link] = "closed"
  BY <1>1, <1>6 DEF SendFrame, LinkInv
<1>7. CASE gw[link] # "closed"
  <2>1. wire' = [wire EXCEPT ![link] = Append(wire[link], <<f, next[f]>>)]
    BY <1>7 DEF SendFrame
  <2>2. \A c \in Conns : wire'[c] = IF c = link THEN Append(wire[link], <<f, next[f]>>) ELSE wire[c]
    BY <1>1, <2>1 DEF UploadTypes
  <2> QED
    BY <1>1, <1>5, <2>2 DEF LinkInv
<1> QED
  BY <1>6, <1>7

\* A chunk is added to the upload and to its file.
LEMMA ChunkWritten ==
    ASSUME UploadTypes, LinkInv, NEW c \in Conns, WriteChunk(c)
    PROVE  /\ FileOf(c) \in Files /\ IndexOf(c) \in Chunks /\ xfer[c][FileOf(c)] # NoXfer
           /\ xfer'[c][FileOf(c)] # NoXfer
           /\ xfer'[c][FileOf(c)].ino = xfer[c][FileOf(c)].ino
           /\ xfer'[c][FileOf(c)].got = xfer[c][FileOf(c)].got \cup {IndexOf(c)}
           /\ \A d \in Conns, g \in Files : d # c \/ g # FileOf(c) => xfer'[d][g] = xfer[d][g]
           /\ content' = [content EXCEPT ![xfer[c][FileOf(c)].ino] = @ \cup {IndexOf(c)}]
<1> DEFINE f == FileOf(c)
           i == IndexOf(c)
<1>1. f \in Files /\ i \in Chunks
  <2>1. Sent(c) /\ i # Complete
    BY DEF WriteChunk, IndexOf
  <2> QED
    BY <2>1, Handled, Indices
<1>2. /\ xfer[c][f] # NoXfer
      /\ content' = [content EXCEPT ![xfer[c][f].ino] = @ \cup {i}]
      /\ xfer' = [xfer EXCEPT ![c][f] = [xfer[c][f] EXCEPT !.got = @ \cup {i}]]
  BY DEF WriteChunk, FileOf, IndexOf
<1> HIDE DEF f, i
<1>3. xfer[c][f] \in [ino : Inodes, got : SUBSET Chunks]
  BY <1>1, <1>2 DEF UploadTypes, Xfer
<1>4. [xfer[c][f] EXCEPT !.got = @ \cup {i}] # NoXfer
  BY <1>1, <1>2, XferFields
<1>5. \A d \in Conns, g \in Files :
         xfer'[d][g] = IF d = c /\ g = f THEN [xfer[c][f] EXCEPT !.got = @ \cup {i}] ELSE xfer[d][g]
  BY <1>1, <1>2 DEF UploadTypes
<1> QED
  BY <1>1, <1>2, <1>3, <1>4, <1>5 DEF f, i

\* What is known of the links stays so.
LEMMA LinkStep == UploadTypes /\ LinkInv /\ [Next]_vars => LinkInv'
<1> SUFFICES ASSUME UploadTypes, LinkInv, [Next]_vars PROVE LinkInv'
  OBVIOUS
<1>ty. /\ opened \in Conns /\ link \in Conns \cup {None} /\ next \in [Files -> 0..(Complete + 1)]
       /\ Conns \subseteq Nat \ {0} /\ None = 0 /\ Complete \in Nat
  BY Indices DEF UploadTypes, None
<1>1. CASE Calm
  <2>1. (link # None => link <= opened)' /\ \A c \in Conns : (c > opened => Idle(c))'
    BY <1>1, <1>ty DEF Calm, LinkInv, Idle
  <2>2. \A c \in Conns : creating'[c] # NoFrame /\ creating[c] # NoFrame
                         => xfer'[c][creating'[c][1]] = NoXfer
    BY <1>1 DEF Calm, LinkInv, UploadTypes
  <2> QED
    BY <1>1, <1>ty, <2>1, <2>2 DEF Calm, LinkInv
<1>2. ASSUME NEW f \in Files, SendFrame(f) PROVE LinkInv'
  <2>1. UNCHANGED <<file, link, opened, uploadVars>> /\ next' = [next EXCEPT ![f] = next[f] + 1]
    BY <1>2 DEF SendFrame
  <2>0. /\ link \in Conns /\ link <= opened /\ next[f] \in 0..Complete /\ file[f] = "shipping"
        /\ \A c \in Conns : InOrder(wire'[c]) /\ (c # link => wire'[c] = wire[c])
        /\ \A x : Contains(wire'[link], x) => Contains(wire[link], x) \/ x = <<f, next[f]>>
    BY <1>2, SentFrame
  <2>2. \A c \in Conns : c > opened => wire'[c] = wire[c]
    BY <1>ty, <2>0
  <2>3. \A c \in Conns : (c > opened => Idle(c))'
    BY <2>1, <2>2 DEF LinkInv, Idle, uploadVars
  <2>4. \A g \in Files : next'[g] = IF g = f THEN next[f] + 1 ELSE next[g]
    BY <2>1, <1>ty
  <2>5. ASSUME NEW g \in Files, NEW i \in 0..Complete, link # None, Contains(wire'[link], <<g, i>>)
        PROVE  file'[g] \in Sending /\ i < next'[g]
    <3>1. CASE Contains(wire[link], <<g, i>>)
      <4>1. file[g] \in Sending /\ i < next[g] /\ next[g] \in Nat
        BY <1>ty, <2>0, <2>5, <3>1 DEF LinkInv
      <4> QED
        BY <2>1, <2>4, <4>1
    <3>2. CASE g = f /\ i = next[f]
      BY <2>0, <2>1, <2>4, <3>2 DEF Sending
    <3> QED
      BY <2>0, <2>5, <3>1, <3>2
  <2> QED
    BY <1>2, <1>ty, <2>1, <2>3, <2>5, SentFrame DEF LinkInv, uploadVars
<1>3. CASE Reconnect
  <2>1. /\ link' = opened + 1 /\ opened' = opened + 1
        /\ UNCHANGED <<wire, uploadVars>> /\ opened + 1 \in Conns
    BY <1>3, TransferAssumption, <1>ty DEF Reconnect, Conns
  <2>2. wire[opened + 1] = <<>>
    BY <1>ty, <2>1 DEF LinkInv, Idle
  <2>3. \A c \in Conns : (c > opened => Idle(c))'
    BY <1>ty, <2>1 DEF LinkInv, Idle, uploadVars
  <2>4. \A x : ~Contains(wire[opened + 1], x)
    BY <2>2, EmptyHasNothing
  <2> QED
    BY <1>ty, <2>1, <2>3, <2>4 DEF LinkInv, uploadVars
<1>4. ASSUME NEW c \in Conns, Sent(c), UNCHANGED agentVars,
             \A d \in Conns : d # c => /\ creating'[d] = creating[d] /\ xfer'[d] = xfer[d]
                                       /\ \A f \in Files : <<d, f>> \in finishing' => <<d, f>> \in finishing,
             creating'[c] # NoFrame => xfer'[c][creating'[c][1]] = NoXfer
      PROVE  LinkInv'
  <2>1. /\ c <= opened
        /\ \A d \in Conns : InOrder(wire'[d]) /\ \A x : Contains(wire'[d], x) => Contains(wire[d], x)
        /\ \A d \in Conns : d # c => wire'[d] = wire[d]
    BY <1>4, Handled
  <2>2. UNCHANGED <<file, next, link, opened>>
    BY <1>4 DEF agentVars
  <2>3. \A d \in Conns : (d > opened => Idle(d))'
    BY <1>4, <1>ty, <2>1, <2>2 DEF LinkInv, Idle
  <2> QED
    BY <1>4, <2>1, <2>2, <2>3 DEF LinkInv
<1>5. ASSUME NEW c \in Conns, WriteChunk(c) PROVE LinkInv'
  <2>1. Sent(c) /\ creating' = creating /\ creating[c] = NoFrame /\ UNCHANGED <<agentVars, finishing>>
    BY <1>5 DEF WriteChunk, Sent
  <2>2. \A d \in Conns : d # c => xfer'[d] = xfer[d]
    BY <1>5 DEF WriteChunk, UploadTypes
  <2> QED
    BY <1>4, <2>1, <2>2
<1>6. ASSUME NEW c \in Conns, BeginUpload(c) PROVE LinkInv'
  <2>1. /\ Sent(c) /\ xfer[c][FileOf(c)] = NoXfer /\ UNCHANGED <<agentVars, xfer, finishing>>
        /\ creating' = [creating EXCEPT ![c] = <<FileOf(c), IndexOf(c)>>]
    BY <1>6 DEF BeginUpload, FileOf, IndexOf
  <2>2. creating'[c] = <<FileOf(c), IndexOf(c)>> /\ \A d \in Conns : d # c => creating'[d] = creating[d]
    BY <2>1 DEF UploadTypes
  <2> QED
    BY <1>4, <2>1, <2>2
<1>7. ASSUME NEW c \in Conns, CompleteUpload(c) PROVE LinkInv'
  <2>1. /\ Sent(c) /\ creating' = creating /\ creating[c] = NoFrame /\ UNCHANGED agentVars
        /\ finishing' \in {finishing, finishing \cup {<<c, FileOf(c)>>}}
    BY <1>7 DEF CompleteUpload, Sent, FileOf
  <2>2. \A d \in Conns : d # c => xfer'[d] = xfer[d]
    BY <1>7 DEF CompleteUpload, UploadTypes
  <2> QED
    BY <1>4, <2>1, <2>2
<1>8. ASSUME NEW c \in Conns, UploadBegun(c) PROVE LinkInv'
  <2>1. /\ UNCHANGED <<agentVars, wire, finishing>> /\ creating[c] # NoFrame
        /\ creating' = [creating EXCEPT ![c] = NoFrame]
    BY <1>8 DEF UploadBegun
  <2>2. c <= opened
    BY <1>ty, <2>1 DEF LinkInv, Idle
  <2>3. \A d \in Conns : d # c => xfer'[d] = xfer[d]
    BY <1>8 DEF UploadBegun, UploadTypes
  <2>4. \A d \in Conns : creating'[d] = IF d = c THEN NoFrame ELSE creating[d]
    BY <2>1 DEF UploadTypes
  <2>5. \A d \in Conns : (d > opened => Idle(d))'
    BY <1>ty, <2>1, <2>2, <2>3, <2>4 DEF LinkInv, Idle, agentVars
  <2> QED
    BY <2>1, <2>3, <2>4, <2>5 DEF LinkInv, agentVars
<1>9. ASSUME NEW c \in Conns, NEW f \in Files, FinishUpload(c, f) PROVE LinkInv'
  BY <1>9 DEF FinishUpload, LinkInv, Idle, agentVars
<1> QED
  BY <1>1, <1>2, <1>3, <1>5, <1>6, <1>7, <1>8, <1>9, CalmOrBusy DEF Busy

-----------------------------------------------------------------------------
(* A published file is whole. *)

\* A connection is done with a file: pcap_complete was handled, or nothing of
\* the file is left of it, and nothing will come.
NoMore(c, f) ==
    /\ c <= opened
    /\ \A i \in 0..Complete : ~Contains(wire[c], <<f, i>>)
    /\ creating[c] = NoFrame \/ creating[c][1] # f
    /\ xfer[c][f] = NoXfer
    /\ link = c => file[f] \in Sending /\ next[f] > Complete

\* That is for good.
LEMMA NoMoreStays ==
    ASSUME UploadTypes, LinkInv, [Next]_vars, NEW c \in Conns, NEW f \in Files, NoMore(c, f)
    PROVE  NoMore(c, f)'
<1>ty. /\ opened \in Conns /\ link \in Conns \cup {None} /\ next \in [Files -> 0..(Complete + 1)]
       /\ Conns \subseteq Nat \ {0} /\ None = 0 /\ Complete \in Nat
  BY Indices DEF UploadTypes, None
<1>1. CASE Calm
  <2>1. xfer'[c][f] = NoXfer /\ creating'[c] \in {creating[c], NoFrame} /\ opened' = opened
    BY <1>1 DEF Calm, NoMore
  <2>2. link' = c => file'[f] \in Sending /\ next'[f] > Complete
    BY <1>1, <1>ty DEF Calm, NoMore
  <2>3. \A i \in 0..Complete : ~Contains(wire'[c], <<f, i>>)
    BY <1>1 DEF Calm, NoMore
  <2> QED
    BY <2>1, <2>2, <2>3 DEF NoMore
<1>2. ASSUME NEW g \in Files, SendFrame(g) PROVE NoMore(c, f)'
  <2>0. /\ next[g] \in 0..Complete
        /\ \A d \in Conns : d # link => wire'[d] = wire[d]
        /\ \A x : Contains(wire'[link], x) => Contains(wire[link], x) \/ x = <<g, next[g]>>
    BY <1>2, SentFrame
  <2>1. UNCHANGED <<file, link, opened, uploadVars>> /\ next' = [next EXCEPT ![g] = next[g] + 1]
    BY <1>2 DEF SendFrame
  <2>2. link = c => g # f /\ next'[f] = next[f]
    BY <1>ty, <2>0, <2>1 DEF NoMore
  <2>3. \A i \in 0..Complete : ~Contains(wire'[c], <<f, i>>)
    BY <2>0, <2>2 DEF NoMore
  <2> QED
    BY <2>1, <2>2, <2>3 DEF NoMore, uploadVars
<1>3. CASE Reconnect
  <2>1. /\ link' = opened + 1 /\ opened' = opened + 1
        /\ UNCHANGED <<wire, uploadVars>>
    BY <1>3 DEF Reconnect
  <2> QED
    BY <1>ty, <2>1 DEF NoMore, uploadVars
<1>4. ASSUME NEW d \in Conns, Sent(d), UNCHANGED agentVars,
             creating'[c] \in {creating[c], <<FileOf(c), IndexOf(c)>>},
             creating'[c] # creating[c] => d = c,
             xfer'[c][f] # xfer[c][f] => d = c /\ f = FileOf(c)
      PROVE  NoMore(c, f)'
  <2>1. \A x : Contains(wire'[c], x) => Contains(wire[c], x)
    BY <1>4, Handled
  <2>2. d = c => FileOf(c) # f
    BY <1>4, Handled DEF NoMore
  <2> QED
    BY <1>4, <2>1, <2>2 DEF NoMore, agentVars
<1>5. ASSUME NEW d \in Conns, WriteChunk(d) \/ BeginUpload(d) \/ CompleteUpload(d)
      PROVE  NoMore(c, f)'
  <2>1. Sent(d) /\ UNCHANGED agentVars
    BY <1>5 DEF WriteChunk, BeginUpload, CompleteUpload
  <2>2. /\ creating'[c] \in {creating[c], <<FileOf(c), IndexOf(c)>>}
        /\ creating'[c] # creating[c] => d = c
    BY <1>5 DEF WriteChunk, BeginUpload, CompleteUpload, UploadTypes, FileOf, IndexOf
  <2>3. FileOf(d) \in Files
    BY <2>1, Handled
  <2>4. xfer'[c][f] # xfer[c][f] => d = c /\ f = FileOf(c)
    <3>1. CASE WriteChunk(d)
      BY <3>1, ChunkWritten
    <3>2. CASE BeginUpload(d) \/ CompleteUpload(d)
      <4>1. xfer' = xfer \/ xfer' = [xfer EXCEPT ![d][FileOf(d)] = NoXfer]
        BY <3>2 DEF BeginUpload, CompleteUpload, FileOf
      <4>2. xfer \in [Conns -> [Files -> Xfer]]
        BY DEF UploadTypes
      <4>3. xfer'[c][f] = IF xfer' # xfer /\ d = c /\ f = FileOf(d) THEN NoXfer ELSE xfer[c][f]
        BY ONLY <2>3, <4>1, <4>2, c \in Conns, d \in Conns, f \in Files
      <4> QED
        BY <4>3
    <3> QED
      BY <1>5, <3>1, <3>2
  <2> QED
    BY <1>4, <2>1, <2>2, <2>4
<1>6. ASSUME NEW d \in Conns, UploadBegun(d) PROVE NoMore(c, f)'
  <2>1. /\ UNCHANGED <<agentVars, wire>> /\ creating[d] # NoFrame
        /\ creating' = [creating EXCEPT ![d] = NoFrame]
        /\ \E i : xfer' = [xfer EXCEPT ![d][creating[d][1]] = i]
    BY <1>6 DEF UploadBegun
  <2>2. creating'[c] \in {creating[c], NoFrame} /\ xfer'[c][f] = xfer[c][f]
    BY <2>1 DEF UploadTypes, NoMore
  <2> QED
    BY <2>1, <2>2 DEF NoMore, agentVars
<1>7. ASSUME NEW d \in Conns, NEW g \in Files, FinishUpload(d, g) PROVE NoMore(c, f)'
  BY <1>7 DEF FinishUpload, NoMore, agentVars
<1> QED
  BY <1>1, <1>2, <1>3, <1>5, <1>6, <1>7, CalmOrBusy DEF Busy

\* Its .partial was renamed or removed by a connection that is done with it.
Withdrawn(c, f) == partial[f] = None /\ \E o \in Conns \ {c} : NoMore(o, f)

\* What was published is whole; an upload writes into the file at the .partial
\* path, or into one that will not be published; one that was found whole will
\* publish the whole file, or nothing.
WholeOf(f) ==
    /\ final[f] # None => content[final[f]] = Chunks
    /\ \A c \in Conns :
        /\ xfer[c][f] # NoXfer => /\ xfer[c][f].got \subseteq content[xfer[c][f].ino]
                                  /\ partial[f] = xfer[c][f].ino \/ Withdrawn(c, f)
        /\ <<c, f>> \in finishing
           => /\ NoMore(c, f)
              /\ (partial[f] # None /\ content[partial[f]] = Chunks) \/ Withdrawn(c, f)

WholeInv == opened <= 2 => \A f \in Files : WholeOf(f)

\* What a step leaves of a file's uploads, and of the files on disk.
SameUploads(f) ==
    /\ final'[f] = final[f] /\ partial'[f] = partial[f]
    /\ \A c \in Conns :
        /\ xfer'[c][f] \in {xfer[c][f], NoXfer}
        /\ <<c, f>> \in finishing' => <<c, f>> \in finishing

ContentKept == \A i \in Inodes : Unused(i) \/ content[i] \subseteq content'[i]

\* Nothing else matters to a file.
LEMMA WholeElsewhere ==
    ASSUME UploadTypes, UploadTypes', LinkInv, [Next]_vars, NEW f \in Files, WholeOf(f),
           SameUploads(f), ContentKept
    PROVE  WholeOf(f)'
<1>1. \A c \in Conns : NoMore(c, f) => NoMore(c, f)'
  BY NoMoreStays
<1>2. ASSUME NEW i \in Inodes, ~Unused(i) PROVE content[i] \subseteq content'[i]
  BY <1>2 DEF ContentKept
<1>3. final[f] # None => content'[final[f]] = Chunks
  <2> SUFFICES ASSUME final[f] # None PROVE content'[final[f]] = Chunks
    OBVIOUS
  <2>1. final[f] \in Inodes /\ ~Unused(final[f])
    BY DEF UploadTypes, Unused
  <2>2. content[final[f]] = Chunks /\ content'[final[f]] \subseteq Chunks
    BY <2>1 DEF UploadTypes, WholeOf
  <2> QED
    BY <1>2, <2>1, <2>2
<1>4. partial[f] # None /\ content[partial[f]] = Chunks => content'[partial[f]] = Chunks
  <2> SUFFICES ASSUME partial[f] # None, content[partial[f]] = Chunks
               PROVE  content'[partial[f]] = Chunks
    OBVIOUS
  <2>1. partial[f] \in Inodes /\ ~Unused(partial[f])
    BY DEF UploadTypes, Unused
  <2>2. content'[partial[f]] \subseteq Chunks
    BY <2>1 DEF UploadTypes
  <2> QED
    BY <1>2, <2>1, <2>2
<1>5. ASSUME NEW c \in Conns, xfer[c][f] # NoXfer
      PROVE  xfer[c][f].got \subseteq content'[xfer[c][f].ino]
  <2>1. xfer[c][f].ino \in Inodes /\ ~Unused(xfer[c][f].ino)
    BY <1>5, XferFields DEF Unused
  <2> QED
    BY <1>2, <1>5, <2>1 DEF WholeOf
<1>6. ASSUME NEW c \in Conns, Withdrawn(c, f) PROVE Withdrawn(c, f)'
  BY <1>1, <1>6 DEF Withdrawn, SameUploads
<1> QED
  BY <1>1, <1>3, <1>4, <1>5, <1>6 DEF WholeOf, SameUploads

\* A chunk that is written takes nothing away.
LEMMA WholeWrite ==
    ASSUME UploadTypes, UploadTypes', LinkInv, [Next]_vars, NEW c \in Conns, WriteChunk(c),
           NEW f \in Files, WholeOf(f)
    PROVE  WholeOf(f)'
<1> DEFINE g == FileOf(c)
           n == IndexOf(c)
<1>1. /\ g \in Files /\ n \in Chunks /\ xfer[c][g] # NoXfer
      /\ xfer'[c][g].ino = xfer[c][g].ino /\ xfer'[c][g].got = xfer[c][g].got \cup {n}
      /\ \A d \in Conns, h \in Files : d # c \/ h # g => xfer'[d][h] = xfer[d][h]
      /\ content' = [content EXCEPT ![xfer[c][g].ino] = @ \cup {n}]
  BY ChunkWritten
<1>2. UNCHANGED <<partial, final, finishing>>
  BY DEF WriteChunk
<1> HIDE DEF g, n
<1>3. xfer[c][g].ino \in Inodes
  BY <1>1, XferFields
<1>4. \A i \in Inodes : content[i] \subseteq content'[i]
  BY <1>1, <1>3 DEF UploadTypes
<1>5. CASE f # g
  <2>1. SameUploads(f) /\ ContentKept
    BY <1>1, <1>2, <1>4, <1>5 DEF SameUploads, ContentKept
  <2> QED
    BY <2>1, WholeElsewhere
<1>6. CASE f = g
  <2>1. n \in content'[xfer[c][g].ino] /\ content[xfer[c][g].ino] \subseteq content'[xfer[c][g].ino]
    BY <1>1, <1>3 DEF UploadTypes
  <2>2. xfer'[c][f].got \subseteq content'[xfer'[c][f].ino]
    BY <1>1, <1>6, <2>1 DEF WholeOf
  <2>3. \A d \in Conns : NoMore(d, f) => NoMore(d, f)'
    BY NoMoreStays
  <2>4. \A d \in Conns : Withdrawn(d, f) => Withdrawn(d, f)'
    BY <1>2, <2>3 DEF Withdrawn
  <2>5. ASSUME NEW i \in Inodes, content[i] = Chunks PROVE content'[i] = Chunks
    <3>1. content'[i] \subseteq Chunks
      BY DEF UploadTypes
    <3> QED
      BY <1>4, <2>5, <3>1
  <2>6. \A d \in Conns : xfer[d][f] # NoXfer => xfer[d][f].ino \in Inodes
    BY XferFields
  <2>7. \A d \in Conns : /\ xfer'[d][f] # NoXfer => xfer[d][f] # NoXfer
                         /\ xfer'[d][f].ino = xfer[d][f].ino
    BY <1>1, <1>6
  <2>8. \A d \in Conns : xfer'[d][f] # NoXfer => xfer'[d][f].got \subseteq content'[xfer'[d][f].ino]
    <3> SUFFICES ASSUME NEW d \in Conns, xfer'[d][f] # NoXfer, d # c
                 PROVE  xfer'[d][f].got \subseteq content'[xfer'[d][f].ino]
      BY <2>2
    <3>1. xfer'[d][f] = xfer[d][f] /\ xfer[d][f].ino \in Inodes
      BY <1>1, <2>6
    <3>2. xfer[d][f].got \subseteq content[xfer[d][f].ino]
      BY <3>1 DEF WholeOf
    <3> QED
      BY <1>4, <3>1, <3>2
  <2>9. final[f] \in Inodes \cup {None} /\ partial[f] \in Inodes \cup {None}
    BY DEF UploadTypes
  <2> QED
    BY <1>2, <2>3, <2>4, <2>5, <2>7, <2>8, <2>9 DEF WholeOf
<1> QED
  BY <1>5, <1>6

\* The first chunk goes into the file at the .partial path, or into a new one.
LEMMA UploadOpened ==
    ASSUME UploadTypes, LinkInv, NEW c \in Conns, UploadBegun(c)
    PROVE  /\ creating[c][1] \in Files /\ creating[c][2] \in Chunks
           /\ creating[c] # NoFrame /\ c <= opened /\ xfer[c][creating[c][1]] = NoXfer
           /\ UNCHANGED <<final, finishing>>
           /\ \A g \in Files \ {creating[c][1]} : partial'[g] = partial[g]
           /\ \A d \in Conns, g \in Files :
                 d # c \/ g # creating[c][1] => xfer'[d][g] = xfer[d][g]
           /\ partial'[creating[c][1]] \in Inodes
           /\ xfer'[c][creating[c][1]] = [ino |-> partial'[creating[c][1]], got |-> {creating[c][2]}]
           /\ creating[c][2] \in content'[partial'[creating[c][1]]]
           /\ partial[creating[c][1]] # None => partial' = partial
           /\ ContentKept
<1> DEFINE f == creating[c][1]
           n == creating[c][2]
<1>1. creating[c] # NoFrame /\ f \in Files /\ n \in Chunks /\ xfer[c][f] = NoXfer
  BY DEF UploadBegun, UploadTypes, LinkInv
<1>2. c <= opened
  BY <1>1, Indices DEF LinkInv, Idle, UploadTypes
<1>3. PICK i \in Inodes :
         /\ IF partial[f] = None THEN NewInode(i) ELSE i = partial[f]
         /\ partial' = [partial EXCEPT ![f] = i]
         /\ content' = [content EXCEPT ![i] = IF partial[f] = None THEN {n} ELSE @ \cup {n}]
         /\ xfer' = [xfer EXCEPT ![c][f] = [ino |-> i, got |-> {n}]]
  BY DEF UploadBegun
<1>4. UNCHANGED <<final, finishing>>
  BY DEF UploadBegun
<1> HIDE DEF f, n
<1>5. partial'[f] = i /\ \A g \in Files \ {f} : partial'[g] = partial[g]
  BY <1>1, <1>3 DEF UploadTypes
<1>6. /\ xfer'[c][f] = [ino |-> i, got |-> {n}]
      /\ \A d \in Conns, g \in Files : d # c \/ g # f => xfer'[d][g] = xfer[d][g]
  BY <1>1, <1>3 DEF UploadTypes
<1>7. n \in content'[i] /\ \A j \in Inodes : j # i => content'[j] = content[j]
  BY <1>1, <1>3 DEF UploadTypes
<1>8. partial[f] # None => partial' = partial /\ content[i] \subseteq content'[i]
  BY <1>1, <1>3 DEF UploadTypes
<1>9. ContentKept
  BY <1>3, <1>7, <1>8 DEF ContentKept, NewInode
<1> QED
  BY <1>1, <1>2, <1>4, <1>5, <1>6, <1>7, <1>8, <1>9 DEF f, n

\* No connection is done with a file whose upload is only beginning, and with
\* two connections there is no other to have withdrawn its .partial.
LEMMA WholeBegin ==
    ASSUME UploadTypes, UploadTypes', LinkInv, [Next]_vars, NEW c \in Conns, UploadBegun(c),
           NEW f \in Files, WholeOf(f), opened <= 2
    PROVE  WholeOf(f)'
<1> DEFINE g == creating[c][1]
           n == creating[c][2]
<1>1. /\ g \in Files /\ creating[c] # NoFrame /\ c <= opened /\ xfer[c][g] = NoXfer
      /\ UNCHANGED <<final, finishing>>
      /\ \A h \in Files \ {g} : partial'[h] = partial[h]
      /\ \A d \in Conns, h \in Files : d # c \/ h # g => xfer'[d][h] = xfer[d][h]
      /\ partial'[g] \in Inodes /\ xfer'[c][g] = [ino |-> partial'[g], got |-> {n}]
      /\ n \in content'[partial'[g]] /\ (partial[g] # None => partial' = partial)
      /\ ContentKept
  BY UploadOpened
<1>2. ~NoMore(c, g)
  BY <1>1 DEF NoMore
<1> HIDE DEF g, n
<1>3. CASE f # g
  <2>1. SameUploads(f)
    BY <1>1, <1>3 DEF SameUploads
  <2> QED
    BY <1>1, <2>1, WholeElsewhere
<1>4. CASE f = g
  <2>1. ASSUME NEW i \in Inodes, ~Unused(i) PROVE content[i] \subseteq content'[i]
    BY <1>1, <2>1 DEF ContentKept
  <2>2. ASSUME NEW i \in Inodes, ~Unused(i), content[i] = Chunks PROVE content'[i] = Chunks
    <3>1. content'[i] \subseteq Chunks
      BY DEF UploadTypes
    <3> QED
      BY <2>1, <2>2, <3>1
  <2>3. final[f] # None => content'[final[f]] = Chunks
    <3> SUFFICES ASSUME final[f] # None PROVE content'[final[f]] = Chunks
      OBVIOUS
    <3>1. final[f] \in Inodes /\ ~Unused(final[f]) /\ content[final[f]] = Chunks
      BY DEF UploadTypes, Unused, WholeOf
    <3> QED
      BY <2>2, <3>1
  <2>4. ASSUME NEW d \in Conns, d # c, d <= opened PROVE ~Withdrawn(d, f)
    <3> SUFFICES ASSUME NEW o \in Conns \ {d}, NoMore(o, f) PROVE FALSE
      BY DEF Withdrawn
    <3>1. o # c /\ o <= opened
      BY <1>2, <1>4 DEF NoMore
    <3>2. \A x \in Conns : x <= opened => x \in {1, 2}
      BY Indices DEF UploadTypes
    <3> QED
      BY <1>1, <2>4, <3>1, <3>2
  <2>5. ASSUME NEW d \in Conns, d # c, xfer[d][f] # NoXfer \/ <<d, f>> \in finishing
        PROVE  d <= opened
    BY <2>5, Indices DEF LinkInv, Idle, UploadTypes
  <2>6. ASSUME NEW d \in Conns, d # c, xfer'[d][f] # NoXfer
        PROVE  /\ xfer'[d][f].got \subseteq content'[xfer'[d][f].ino]
               /\ partial'[f] = xfer'[d][f].ino
    <3>1. xfer'[d][f] = xfer[d][f]
      BY <1>1, <2>6
    <3>2. /\ partial[f] = xfer[d][f].ino /\ xfer[d][f].ino \in Inodes
          /\ xfer[d][f].got \subseteq content[xfer[d][f].ino]
      BY <2>4, <2>5, <2>6, <3>1, XferFields DEF WholeOf
    <3>3. partial' = partial /\ ~Unused(partial[f])
      BY <1>1, <1>4, <3>2, Indices DEF Unused
    <3> QED
      BY <2>1, <3>1, <3>2, <3>3
  <2>7. ASSUME NEW d \in Conns, <<d, f>> \in finishing
        PROVE  NoMore(d, f)' /\ partial'[f] # None /\ content'[partial'[f]] = Chunks
    <3>1. NoMore(d, f) /\ d # c
      BY <1>2, <1>4, <2>7 DEF WholeOf
    <3>2. partial[f] \in Inodes /\ content[partial[f]] = Chunks
      BY <2>4, <2>5, <2>7, <3>1 DEF WholeOf, UploadTypes
    <3>3. partial' = partial /\ ~Unused(partial[f])
      BY <1>1, <1>4, <3>2, Indices DEF Unused
    <3> QED
      BY <2>2, <3>1, <3>2, <3>3, NoMoreStays, Indices
  <2>8. /\ xfer'[c][f].got \subseteq content'[xfer'[c][f].ino]
        /\ partial'[f] = xfer'[c][f].ino
    BY <1>1, <1>4
  <2> QED
    BY <1>1, <2>3, <2>6, <2>7, <2>8 DEF WholeOf
<1> QED
  BY <1>3, <1>4

\* A .partial that is removed is removed by a connection that is done.
LEMMA UploadCompleted ==
    ASSUME UploadTypes, LinkInv, NEW c \in Conns, CompleteUpload(c),
           NEW f \in Files, f = FileOf(c)
    PROVE  /\ NoMore(c, f)' /\ ~NoMore(c, f)
           /\ UNCHANGED <<content, final, agentVars>>
           /\ xfer'[c][f] = NoXfer
           /\ \A d \in Conns, g \in Files : d # c \/ g # f => xfer'[d][g] = xfer[d][g]
           /\ \A g \in Files \ {f} : partial'[g] = partial[g]
           /\ \/ /\ Whole(xfer[c][f]) /\ partial' = partial
                 /\ finishing' = finishing \cup {<<c, f>>}
              \/ /\ ~Whole(xfer[c][f]) /\ finishing' = finishing
                 /\ (xfer[c][f] = NoXfer /\ partial' = partial) \/ partial'[f] = None
<1>1. Sent(c) /\ IndexOf(c) = Complete /\ creating' = creating /\ UNCHANGED <<content, final, agentVars>>
  BY DEF CompleteUpload, IndexOf
<1>2. /\ f \in Files /\ c <= opened /\ creating[c] = NoFrame
      /\ Contains(wire[c], <<f, Complete>>)
      /\ \A i : Contains(wire'[c], <<f, i>>) => Complete < i
  BY <1>1, Handled
<1>3. /\ xfer' = [xfer EXCEPT ![c][f] = NoXfer]
      /\ finishing' = IF Whole(xfer[c][f]) THEN finishing \cup {<<c, f>>} ELSE finishing
      /\ partial' = IF xfer[c][f] # NoXfer /\ ~Whole(xfer[c][f])
                    THEN [partial EXCEPT ![f] = None] ELSE partial
  BY DEF CompleteUpload, FileOf
<1>4. xfer'[c][f] = NoXfer /\ \A d \in Conns, g \in Files : d # c \/ g # f => xfer'[d][g] = xfer[d][g]
  BY <1>2, <1>3 DEF UploadTypes
<1>5. \A i \in 0..Complete : ~Contains(wire'[c], <<f, i>>)
  BY <1>2, Indices
<1>6. link = c => file[f] \in Sending /\ next[f] > Complete
  BY <1>2, Indices DEF LinkInv, UploadTypes
<1>7. NoMore(c, f)' /\ ~NoMore(c, f)
  <2>1. ~NoMore(c, f)
    BY <1>2, Indices DEF NoMore
  <2>2. UNCHANGED <<file, next, link, opened>> /\ creating'[c] = NoFrame
    BY <1>1, <1>2 DEF agentVars
  <2> QED
    BY <1>2, <1>4, <1>5, <1>6, <2>1, <2>2 DEF NoMore
<1>8. /\ \A g \in Files \ {f} : partial'[g] = partial[g]
      /\ \/ Whole(xfer[c][f]) /\ partial' = partial /\ finishing' = finishing \cup {<<c, f>>}
         \/ /\ ~Whole(xfer[c][f]) /\ finishing' = finishing
            /\ (xfer[c][f] = NoXfer /\ partial' = partial) \/ partial'[f] = None
  BY <1>2, <1>3 DEF UploadTypes
<1> QED
  BY <1>1, <1>2, <1>4, <1>7, <1>8

\* An upload that has all chunks is of a whole file, at the .partial path or
\* withdrawn; one that has not takes the .partial away from the others.
LEMMA WholeComplete ==
    ASSUME UploadTypes, UploadTypes', LinkInv, [Next]_vars, NEW c \in Conns, CompleteUpload(c),
           NEW f \in Files, WholeOf(f)
    PROVE  WholeOf(f)'
<1>0. PICK g \in Files : g = FileOf(c)
  BY Handled DEF CompleteUpload
<1>1. /\ NoMore(c, g)' /\ ~NoMore(c, g) /\ UNCHANGED <<content, final>>
      /\ xfer'[c][g] = NoXfer
      /\ \A d \in Conns, h \in Files : d # c \/ h # g => xfer'[d][h] = xfer[d][h]
      /\ \A h \in Files \ {g} : partial'[h] = partial[h]
      /\ \/ Whole(xfer[c][g]) /\ partial' = partial /\ finishing' = finishing \cup {<<c, g>>}
         \/ /\ ~Whole(xfer[c][g]) /\ finishing' = finishing
            /\ (xfer[c][g] = NoXfer /\ partial' = partial) \/ partial'[g] = None
  BY <1>0, UploadCompleted
<1>2. \A d \in Conns : NoMore(d, f) => NoMore(d, f)'
  BY NoMoreStays
<1>3. CASE f # g
  <2>1. SameUploads(f) /\ ContentKept
    BY <1>1, <1>3 DEF SameUploads, ContentKept
  <2> QED
    BY <2>1, WholeElsewhere
<1>4. CASE f = g /\ partial' = partial
  <2>1. \A d \in Conns : Withdrawn(d, f) => Withdrawn(d, f)'
    BY <1>2, <1>4 DEF Withdrawn
  <2>2. ASSUME Whole(xfer[c][f])
        PROVE  (partial[f] # None /\ content[partial[f]] = Chunks) \/ Withdrawn(c, f)
    <3>1. /\ xfer[c][f] # NoXfer /\ xfer[c][f].got = Chunks
          /\ xfer[c][f].ino \in Inodes /\ xfer[c][f].got \subseteq content[xfer[c][f].ino]
      BY <2>2, XferFields DEF Whole, WholeOf
    <3>2. content[xfer[c][f].ino] \subseteq Chunks
      BY <3>1 DEF UploadTypes
    <3> QED
      BY <3>1, <3>2, Indices DEF WholeOf
  <2>3. \A d \in Conns : xfer'[d][f] \in {xfer[d][f], NoXfer}
    BY <1>1, <1>4
  <2>4. ASSUME NEW d \in Conns, <<d, f>> \in finishing'
        PROVE  /\ NoMore(d, f)'
               /\ (partial[f] # None /\ content[partial[f]] = Chunks) \/ Withdrawn(d, f)
    <3>1. CASE <<d, f>> \in finishing
      BY <1>2, <3>1 DEF WholeOf
    <3>2. CASE <<d, f>> \notin finishing
      <4>1. d = c /\ Whole(xfer[c][f])
        BY <1>1, <1>4, <2>4, <3>2
      <4> QED
        BY <1>1, <1>4, <2>2, <4>1 DEF NoMore
    <3> QED
      BY <3>1, <3>2
  <2> QED
    BY <1>1, <1>4, <2>1, <2>3, <2>4 DEF WholeOf
<1>5. CASE f = g /\ partial'[f] = None /\ finishing' = finishing
  <2>0. NoMore(c, f)'
    BY <1>1, <1>5 DEF NoMore
  <2>1. \A d \in Conns : d # c => Withdrawn(d, f)'
    BY <1>5, <2>0 DEF Withdrawn
  <2>2. <<c, f>> \notin finishing
    BY <1>1, <1>5 DEF WholeOf
  <2> QED
    BY <1>1, <1>2, <1>5, <2>1, <2>2 DEF WholeOf
<1> QED
  BY <1>1, <1>3, <1>4, <1>5

\* What is published was found whole, whoever put it there.
LEMMA WholeFinish ==
    ASSUME UploadTypes, UploadTypes', LinkInv, [Next]_vars, NEW c \in Conns, NEW g \in Files,
           FinishUpload(c, g), NEW f \in Files, WholeOf(f)
    PROVE  WholeOf(f)'
<1>1. /\ UNCHANGED <<content, xfer>> /\ <<c, g>> \in finishing
      /\ finishing' = finishing \ {<<c, g>>}
      /\ \/ partial[g] = None /\ UNCHANGED <<partial, final>>
         \/ /\ partial[g] # None /\ final' = [final EXCEPT ![g] = partial[g]]
            /\ partial' = [partial EXCEPT ![g] = None]
  BY DEF FinishUpload
<1>2. \A d \in Conns : NoMore(d, f) => NoMore(d, f)'
  BY NoMoreStays
<1>3. CASE f # g \/ partial[g] = None
  <2>1. final'[f] = final[f] /\ partial'[f] = partial[f]
    BY <1>1, <1>3 DEF UploadTypes
  <2>2. SameUploads(f) /\ ContentKept
    BY <1>1, <2>1 DEF SameUploads, ContentKept
  <2> QED
    BY <2>2, WholeElsewhere
<1>4. CASE f = g /\ partial[g] # None
  <2>1. final'[f] = partial[f] /\ partial'[f] = None
    BY <1>1, <1>4 DEF UploadTypes
  <2>2. NoMore(c, f) /\ content[partial[f]] = Chunks
    BY <1>1, <1>4 DEF WholeOf, Withdrawn
  <2>3. \A d \in Conns : d # c => Withdrawn(d, f)'
    BY <1>2, <2>1, <2>2 DEF Withdrawn
  <2>4. xfer[c][f] = NoXfer
    BY <2>2 DEF NoMore
  <2> QED
    BY <1>1, <1>2, <1>4, <2>1, <2>2, <2>3, <2>4 DEF WholeOf
<1> QED
  BY <1>3, <1>4

\* With two connections WholeInv is inductive, given what is known of links.
LEMMA WholeStep == UploadTypes /\ LinkInv /\ WholeInv /\ [Next]_vars => WholeInv'
<1> SUFFICES ASSUME UploadTypes, LinkInv, WholeInv, [Next]_vars, opened' <= 2, NEW f \in Files
             PROVE  WholeOf(f)'
  BY DEF WholeInv
<1>1. UploadTypes'
  BY UploadTypesStep
<1>2. opened <= 2
  <2>1. opened' = opened \/ (opened' = opened + 1 /\ opened \in Nat)
    BY CalmOrBusy, Indices
       DEF Calm, Busy, SendFrame, Reconnect, WriteChunk, BeginUpload, UploadBegun, CompleteUpload,
           FinishUpload, agentVars, UploadTypes
  <2> QED
    BY <2>1
<1>3. WholeOf(f)
  BY <1>2 DEF WholeInv
<1>4. ASSUME UNCHANGED <<content, partial, final>>, finishing' \subseteq finishing,
             \A c \in Conns : xfer'[c][f] \in {xfer[c][f], NoXfer}
      PROVE  WholeOf(f)'
  <2>1. SameUploads(f) /\ ContentKept
    BY <1>4 DEF SameUploads, ContentKept
  <2> QED
    BY <1>1, <1>3, <2>1, WholeElsewhere
<1>5. CASE Calm
  BY <1>4, <1>5 DEF Calm
<1>6. CASE (\E g \in Files : SendFrame(g)) \/ Reconnect \/ \E c \in Conns : BeginUpload(c)
  <2>1. UNCHANGED <<content, partial, final, finishing, xfer>>
    BY <1>6 DEF SendFrame, Reconnect, BeginUpload, uploadVars
  <2> QED
    BY <1>4, <2>1
<1> QED
  BY <1>1, <1>2, <1>3, <1>5, <1>6, CalmOrBusy, WholeWrite, WholeBegin, WholeComplete, WholeFinish
     DEF Busy

\* Links, uploads and files at the beginning.
LEMMA LinkInit == Init => LinkInv /\ WholeInv
<1> SUFFICES ASSUME Init PROVE LinkInv /\ WholeInv
  OBVIOUS
<1>1. LinkInv
  BY EmptyHasNothing DEF Init, LinkInv, Idle
<1>2. WholeInv
  BY DEF Init, WholeInv, WholeOf
<1> QED
  BY <1>1, <1>2

\* "By the time pcap_complete calls this, the file is already fully written and
\* closed": true of what is published as long as no more than two connections of
\* the agent have uploaded, whatever is dropped, rejected, restarted or still
\* written by tasks of the older one.
THEOREM PublishedIsWholeOverTwo == Spec => []WholeOverTwoLinks
<1>1. WholeInv => WholeOverTwoLinks
  BY DEF WholeInv, WholeOf, WholeOverTwoLinks, PublishedIsWhole
<1> QED
  BY <1>1, UploadTypesInit, UploadTypesStep, LinkInit, LinkStep, WholeStep, PTL DEF Spec

-----------------------------------------------------------------------------
(* Nothing is lost without a fault. *)

\* pcap_complete was handled and the upload was whole
Completed(f) == <<1, f>> \in finishing \/ final[f] # None

\* the files no ship task has been given yet
Early == {"unused", "open", "closed", "polled", "handed"}

\* Every frame that was sent waits, is being handled, was written, or the file
\* was found whole.
Accounted(f) ==
    \A i \in 0..Complete : i < next[f] =>
        \/ Contains(wire[1], <<f, i>>) \/ creating[1] = <<f, i>>
        \/ i \in xfer[1][f].got \/ Completed(f)

SafeOf(f) ==
    /\ Accounted(f)
    /\ Completed(f) => NoMore(1, f)
    /\ xfer[1][f] # NoXfer => partial[f] = xfer[1][f].ino
    /\ <<1, f>> \in finishing => partial[f] # None
    /\ file[f] \in Early => next[f] = 0
    /\ file[f] = "shipped" => next[f] > Complete
    /\ file[f] # "spooled"

\* The first link stands.
FirstLink ==
    /\ link = 1 /\ opened = 1 /\ reclaimed = {}
    /\ \A c \in Conns : gw[c] = IF c = 1 THEN "serving" ELSE "new"

SafeInv == faults = 0 => FirstLink /\ \A f \in Files : SafeOf(f)

\* Without a fault the link stands, and only the files' ways go on.
LEMMA FirstLinkStep ==
    ASSUME UploadTypes, LinkInv, [Next]_vars, faults' = 0, faults = 0, FirstLink,
           \A f \in Files : file[f] # "spooled"
    PROVE  /\ FirstLink'
           /\ ~LinkDrops /\ ~AgentStops /\ ~Reconnect /\ ~GatewayRestarts
           /\ \A f \in Files : ~Reclaim(f)
           /\ \A c \in Conns : ~UploadRejected(c) /\ ~ConnectionCloses(c)
<1>0. ~Fault
  BY DEF Fault
<1>1. /\ ~LinkDrops /\ ~AgentStops /\ ~Reconnect /\ ~GatewayRestarts
      /\ \A f \in Files : ~Reclaim(f)
      /\ \A c \in Conns : ~UploadRejected(c)
  BY <1>0, Indices
     DEF LinkDrops, AgentStops, Reconnect, GatewayRestarts, Reclaim, UploadRejected, FirstLink
<1>2. ASSUME NEW c \in Conns PROVE ~ConnectionCloses(c)
  BY <1>0 DEF ConnectionCloses, FirstLink
<1>3. UNCHANGED <<link, opened, gw, reclaimed>>
  BY <1>1, <1>2
     DEF Next, AgentNext, GatewayNext, vars, agentVars, uploadVars, Rotate, SendFrame, ShipReturns,
         Poll, PollAnswers, Stop, StopAnswers, FlushNext, WriteChunk, BeginUpload, UploadBegun,
         CompleteUpload, FinishUpload, ScanSpawns, ScanRecordsStart, EngineEnds, ScanRecordsFinish
<1> QED
  BY <1>1, <1>2, <1>3 DEF FirstLink

\* The agent: a file's frames are numbered from 0, and all are sent before the
\* file is removed.
LEMMA SafeAgent ==
    ASSUME UploadTypes, LinkInv, [Next]_vars, FirstLink, \A g \in Files : SafeOf(g),
           NEW f \in Files,
           \/ \E g \in Files : Rotate(g) \/ ShipReturns(g) \/ SendFrame(g)
           \/ \E s \in Sessions : Poll(s) \/ PollAnswers(s) \/ Stop(s) \/ StopAnswers(s)
           \/ FlushNext
    PROVE  SafeOf(f)'
<1>ty. /\ next \in [Files -> 0..(Complete + 1)] /\ file \in [Files -> FileStates]
       /\ next[f] \in Nat /\ Complete \in Nat /\ 1 \in Conns
  BY Indices DEF UploadTypes
<1>safe. SafeOf(f) /\ NoMore(1, f) => NoMore(1, f)'
  BY <1>ty, NoMoreStays
<1>1. ASSUME UNCHANGED <<wire, uploadVars>>, next'[f] = next[f],
             file'[f] \in Early => file[f] \in Early,
             file'[f] = "shipped" => next[f] > Complete, file'[f] # "spooled"
      PROVE  SafeOf(f)'
  <2>1. Accounted(f)'
    BY <1>1, <1>safe DEF SafeOf, Accounted, Completed, uploadVars
  <2>2. Completed(f)' => NoMore(1, f)'
    BY <1>1, NoMoreStays, <1>ty DEF SafeOf, Completed, uploadVars
  <2> QED
    BY <1>1, <2>1, <2>2 DEF SafeOf, uploadVars
<1>2. ASSUME NEW g \in Files, Rotate(g) \/ ShipReturns(g) PROVE SafeOf(f)'
  <2>1. UNCHANGED <<wire, uploadVars, next>>
    BY <1>2 DEF Rotate, ShipReturns
  <2>2. /\ file'[f] \in Early => file[f] \in Early
        /\ file'[f] = "shipped" => next[f] > Complete /\ file'[f] # "spooled"
        /\ file'[f] # "spooled"
    BY <1>2, <1>ty DEF Rotate, ShipReturns, Early, SafeOf
  <2> QED
    BY <1>1, <2>1, <2>2
<1>3. ASSUME NEW s \in Sessions, Poll(s) \/ Stop(s) PROVE SafeOf(f)'
  <2>1. UNCHANGED <<wire, uploadVars, next>>
    BY <1>3 DEF Poll, Stop
  <2>2. file'[f] = file[f] \/ (file'[f] \in Early /\ file[f] \in Early)
    BY <1>3 DEF Poll, Stop, Moved, FilesOf, Early
  <2> QED
    BY <1>1, <2>1, <2>2 DEF Early, SafeOf
<1>4. ASSUME NEW s \in Sessions, PollAnswers(s) \/ StopAnswers(s) PROVE SafeOf(f)'
  <2>1. UNCHANGED <<wire, uploadVars>>
    BY <1>4 DEF PollAnswers, StopAnswers
  <2>2. \/ file'[f] = file[f] /\ next'[f] = next[f]
        \/ file'[f] = "missed" /\ next'[f] = next[f]
        \/ file[f] \in Early /\ file'[f] = "shipping" /\ next'[f] = 0
    BY <1>4 DEF PollAnswers, StopAnswers, Ship, Moved, FilesOf, Early, FirstLink
  <2>3. next'[f] = next[f]
    BY <2>2 DEF SafeOf
  <2> QED
    BY <1>1, <2>1, <2>2, <2>3 DEF Early, SafeOf
<1>5. CASE FlushNext
  <2>1. UNCHANGED <<wire, uploadVars>>
    BY <1>5 DEF FlushNext
  <2>2. f # Head(flush)
    BY <1>5 DEF FlushNext, SafeOf
  <2>3. file'[f] = file[f] /\ next'[f] = next[f]
    BY <1>5, <2>2 DEF FlushNext, Ship
  <2> QED
    BY <1>1, <2>1, <2>3 DEF SafeOf
<1>6. ASSUME NEW g \in Files, SendFrame(g) PROVE SafeOf(f)'
  <2>0. /\ next[g] \in 0..Complete /\ file[g] = "shipping"
        /\ \A x : Contains(wire[1], x) => Contains(wire'[1], x)
        /\ Contains(wire'[1], <<g, next[g]>>)
    BY <1>6, <1>ty, SentFrame DEF FirstLink
  <2>1. UNCHANGED <<file, uploadVars>> /\ next' = [next EXCEPT ![g] = next[g] + 1]
    BY <1>6 DEF SendFrame
  <2>2. next'[f] = IF f = g THEN next[g] + 1 ELSE next[f]
    BY <1>ty, <2>1
  <2>3. Accounted(f)'
    <3> SUFFICES ASSUME NEW i \in 0..Complete, i < next'[f]
                 PROVE  \/ Contains(wire'[1], <<f, i>>) \/ creating'[1] = <<f, i>>
                        \/ i \in xfer'[1][f].got \/ Completed(f)'
      BY DEF Accounted
    <3>1. CASE i < next[f]
      BY <2>0, <2>1, <3>1 DEF SafeOf, Accounted, Completed, uploadVars
    <3>2. CASE f = g /\ i = next[g]
      BY <2>0, <3>2
    <3> QED
      BY <2>0, <2>2, <3>1, <3>2
  <2>4. Completed(f)' => NoMore(1, f)'
    BY <2>1, NoMoreStays, <1>ty DEF SafeOf, Completed, uploadVars
  <2>5. file[f] \in Early => f # g
    BY <2>0 DEF Early
  <2> QED
    BY <2>0, <2>1, <2>2, <2>3, <2>4, <2>5 DEF SafeOf, uploadVars
<1> QED
  BY <1>2, <1>3, <1>4, <1>5, <1>6

\* What a gateway step has to keep of a file.
LEMMA SafeGateway ==
    ASSUME UploadTypes, LinkInv, [Next]_vars, NEW f \in Files, SafeOf(f), UNCHANGED agentVars,
           Accounted(f)', Completed(f)' => Completed(f) \/ NoMore(1, f)',
           xfer'[1][f] # NoXfer => partial'[f] = xfer'[1][f].ino,
           <<1, f>> \in finishing' => partial'[f] # None
    PROVE  SafeOf(f)'
<1>1. Completed(f)' => NoMore(1, f)'
  BY NoMoreStays, Indices DEF SafeOf
<1> QED
  BY <1>1 DEF SafeOf, agentVars

\* A frame goes from the wire to its task or to the upload.
LEMMA SafeHandle ==
    ASSUME UploadTypes, LinkInv, [Next]_vars, FirstLink, NEW f \in Files, SafeOf(f),
           NEW c \in Conns, WriteChunk(c) \/ BeginUpload(c) \/ UploadBegun(c)
    PROVE  SafeOf(f)'
<1>ty. 1 \in Conns /\ \A d \in Conns : d <= opened => d = 1
  BY Indices DEF FirstLink
<1>1. CASE WriteChunk(c)
  <2>0. c = 1 /\ Sent(1) /\ UNCHANGED <<agentVars, creating, partial, final, finishing>>
    BY <1>1, <1>ty, Handled DEF WriteChunk
  <2>1. \A x : Contains(wire[1], x) => x = <<FileOf(1), IndexOf(1)>> \/ Contains(wire'[1], x)
    BY <2>0, <1>ty, Handled
  <2>2. /\ xfer[1][FileOf(1)] # NoXfer
        /\ xfer'[1][FileOf(1)].ino = xfer[1][FileOf(1)].ino
        /\ xfer'[1][FileOf(1)].got = xfer[1][FileOf(1)].got \cup {IndexOf(1)}
        /\ \A g \in Files : g # FileOf(1) => xfer'[1][g] = xfer[1][g]
    BY <1>1, <1>ty, <2>0, ChunkWritten
  <2>3. Accounted(f)'
    BY <2>0, <2>1, <2>2 DEF SafeOf, Accounted, Completed, agentVars
  <2>4. xfer'[1][f] # NoXfer => partial'[f] = xfer'[1][f].ino
    BY <2>0, <2>2 DEF SafeOf
  <2> QED
    BY <2>0, <2>3, <2>4, SafeGateway DEF SafeOf, Completed
<1>2. CASE BeginUpload(c)
  <2>0. c = 1 /\ Sent(1) /\ UNCHANGED <<agentVars, xfer, partial, final, finishing>>
    BY <1>2, <1>ty, Handled DEF BeginUpload
  <2>1. /\ \A x : Contains(wire[1], x) => x = <<FileOf(1), IndexOf(1)>> \/ Contains(wire'[1], x)
        /\ creating[1] = NoFrame
    BY <2>0, <1>ty, Handled
  <2>2. creating'[1] = <<FileOf(1), IndexOf(1)>>
    BY <1>2, <1>ty, <2>0 DEF BeginUpload, FileOf, IndexOf, UploadTypes
  <2>3. Accounted(f)'
    BY <2>0, <2>1, <2>2 DEF SafeOf, Accounted, Completed, agentVars, NoFrame
  <2> QED
    BY <2>0, <2>3, SafeGateway DEF SafeOf, Completed
<1>3. CASE UploadBegun(c)
  <2>0. /\ c = 1 /\ UNCHANGED <<agentVars, wire, final, finishing>>
        /\ creating' = [creating EXCEPT ![c] = NoFrame]
    BY <1>3, <1>ty, UploadOpened DEF UploadBegun
  <2>1. /\ creating[1][1] \in Files /\ creating[1] # NoFrame /\ xfer[1][creating[1][1]] = NoXfer
        /\ partial'[creating[1][1]] \in Inodes
        /\ xfer'[1][creating[1][1]] = [ino |-> partial'[creating[1][1]], got |-> {creating[1][2]}]
        /\ \A g \in Files \ {creating[1][1]} : partial'[g] = partial[g] /\ xfer'[1][g] = xfer[1][g]
    BY <1>3, <1>ty, <2>0, UploadOpened
  <2>2. Accounted(f)'
    <3> SUFFICES ASSUME NEW i \in 0..Complete, i < next[f]
                 PROVE  \/ Contains(wire[1], <<f, i>>) \/ i \in xfer'[1][f].got \/ Completed(f)
      BY <2>0 DEF Accounted, Completed, agentVars
    <3>1. \/ Contains(wire[1], <<f, i>>) \/ creating[1] = <<f, i>>
          \/ i \in xfer[1][f].got \/ Completed(f)
      BY DEF SafeOf, Accounted
    <3>2. CASE f = creating[1][1]
      <4>1. i \notin xfer[1][f].got
        BY <2>1, <3>2 DEF NoXfer
      <4> QED
        BY <2>1, <3>1, <3>2, <4>1
    <3>3. CASE f # creating[1][1]
      BY <2>1, <3>1, <3>3
    <3> QED
      BY <3>2, <3>3
  <2>3. /\ xfer'[1][f] # NoXfer => partial'[f] = xfer'[1][f].ino
        /\ <<1, f>> \in finishing' => partial'[f] # None
    BY <2>0, <2>1, Indices DEF SafeOf
  <2> QED
    BY <2>0, <2>2, <2>3, SafeGateway DEF Completed
<1> QED
  BY <1>1, <1>2, <1>3

\* pcap_complete is the last frame, so that all chunks were written before it.
LEMMA SafeComplete ==
    ASSUME UploadTypes, LinkInv, [Next]_vars, FirstLink, \A g \in Files : SafeOf(g),
           NEW f \in Files, NEW c \in Conns, CompleteUpload(c)
    PROVE  SafeOf(f)'
<1>ty. 1 \in Conns /\ \A d \in Conns : d <= opened => d = 1
  BY Indices DEF FirstLink
<1>0. c = 1 /\ Sent(1) /\ IndexOf(1) = Complete /\ UNCHANGED <<agentVars, creating, final>>
  BY <1>ty, Handled DEF CompleteUpload, IndexOf
<1>1. PICK g \in Files : g = FileOf(1)
  BY <1>0, <1>ty, Handled
<1>2. /\ creating[1] = NoFrame /\ Contains(wire[1], <<g, Complete>>)
      /\ \A x : Contains(wire[1], x) => x = <<g, Complete>> \/ Contains(wire'[1], x)
      /\ \A i : Contains(wire'[1], <<g, i>>) => Complete < i
  BY <1>0, <1>1, <1>ty, Handled
<1>3. /\ NoMore(1, g)' /\ ~NoMore(1, g) /\ xfer'[1][g] = NoXfer
      /\ \A h \in Files \ {g} : partial'[h] = partial[h] /\ xfer'[1][h] = xfer[1][h]
      /\ \/ Whole(xfer[1][g]) /\ partial' = partial /\ finishing' = finishing \cup {<<1, g>>}
         \/ ~Whole(xfer[1][g])
  BY <1>0, <1>1, <1>ty, UploadCompleted
<1>4. Whole(xfer[1][g])
  <2>1. Complete < next[g] /\ next[g] \in Nat
    BY <1>0, <1>2, <1>ty, Indices DEF LinkInv, FirstLink, UploadTypes
  <2>2. ASSUME NEW i \in Chunks PROVE i \in xfer[1][g].got
    <3>1. i \in 0..Complete /\ i # Complete /\ i < next[g] /\ i \in Nat /\ Complete \in Nat
      BY <2>1, <2>2, Indices
    <3>2. ~Contains(wire'[1], <<g, i>>)
      BY <1>2, <3>1
    <3>3. ~Contains(wire[1], <<g, i>>)
      BY <1>2, <3>1, <3>2
    <3>4. ~Completed(g)
      BY <1>3 DEF SafeOf
    <3>5. creating[1] # <<g, i>>
      BY <1>2 DEF NoFrame
    <3>6. Accounted(g)
      BY DEF SafeOf
    <3> QED
      BY <3>1, <3>3, <3>4, <3>5, <3>6 DEF Accounted
  <2>3. 0 \in xfer[1][g].got /\ 0 \notin NoXfer.got
    BY <2>2, Indices DEF NoXfer
  <2> QED
    BY <1>ty, <2>2, <2>3, XferFields DEF Whole
<1>5. partial' = partial /\ finishing' = finishing \cup {<<1, g>>}
  BY <1>3, <1>4
<1>6. Accounted(f)'
  <2> SUFFICES ASSUME NEW i \in 0..Complete, i < next[f], f # g
               PROVE  \/ Contains(wire'[1], <<f, i>>) \/ creating[1] = <<f, i>>
                      \/ i \in xfer'[1][f].got \/ Completed(f)'
    BY <1>0, <1>5 DEF Accounted, Completed, agentVars
  <2> QED
    BY <1>2, <1>3, <1>0, <1>5 DEF SafeOf, Accounted, Completed
<1>7. Completed(f)' => Completed(f) \/ NoMore(1, f)'
  <2>1. CASE f = g
    BY <1>3, <2>1 DEF NoMore
  <2>2. CASE f # g
    BY <1>0, <1>5, <2>2 DEF Completed
  <2> QED
    BY <2>1, <2>2
<1>8. xfer'[1][f] # NoXfer => partial'[f] = xfer'[1][f].ino
  BY <1>3, <1>5 DEF SafeOf
<1>9. <<1, f>> \in finishing' => partial'[f] # None
  <2>1. partial[g] # None
    <3>1. xfer[1][g] # NoXfer
      BY <1>4 DEF Whole
    <3>2. partial[g] = xfer[1][g].ino
      BY <3>1 DEF SafeOf
    <3> QED
      BY <3>1, <3>2, <1>ty, XferFields, Indices
  <2> QED
    BY <1>5, <2>1 DEF SafeOf
<1> QED
  BY <1>0, <1>6, <1>7, <1>8, <1>9, SafeGateway

\* A whole upload still has its .partial, and is published.
LEMMA SafeFinish ==
    ASSUME UploadTypes, LinkInv, [Next]_vars, FirstLink, \A g \in Files : SafeOf(g),
           NEW f \in Files, NEW c \in Conns, NEW g \in Files, FinishUpload(c, g)
    PROVE  SafeOf(f)'
<1>1. c = 1
  BY Indices DEF FinishUpload, FirstLink, LinkInv, Idle
<1>2. partial[g] # None
  BY <1>1 DEF FinishUpload, SafeOf
<1>3. /\ UNCHANGED <<agentVars, wire, creating, xfer>> /\ <<1, g>> \in finishing
      /\ finishing' = finishing \ {<<1, g>>}
      /\ final' = [final EXCEPT ![g] = partial[g]] /\ partial' = [partial EXCEPT ![g] = None]
  BY <1>1, <1>2 DEF FinishUpload
<1>4. /\ final'[f] = IF f = g THEN partial[g] ELSE final[f]
      /\ partial'[f] = IF f = g THEN None ELSE partial[f]
  BY <1>3 DEF UploadTypes
<1>5. Completed(f) <=> Completed(f)'
  BY <1>2, <1>3, <1>4 DEF Completed
<1>6. Accounted(f)'
  BY <1>3, <1>5 DEF SafeOf, Accounted, agentVars
<1>7. xfer'[1][f] # NoXfer => partial'[f] = xfer'[1][f].ino
  <2>1. NoMore(1, g)
    BY <1>3 DEF SafeOf, Completed
  <2> QED
    BY <1>3, <1>4, <2>1 DEF SafeOf, NoMore
<1>8. <<1, f>> \in finishing' => partial'[f] # None
  BY <1>3, <1>4 DEF SafeOf
<1> QED
  BY <1>3, <1>5, <1>6, <1>7, <1>8, SafeGateway

\* SafeInv is inductive, given what is known of links.
LEMMA SafeStep == UploadTypes /\ LinkInv /\ SafeInv /\ [Next]_vars => SafeInv'
<1> SUFFICES ASSUME UploadTypes, LinkInv, SafeInv, [Next]_vars, faults' = 0
             PROVE  FirstLink' /\ \A f \in Files : SafeOf(f)'
  BY DEF SafeInv
<1>1. faults = 0
  <2>1. faults \in Nat /\ (faults' = faults \/ faults' = faults + 1)
    BY DEF UploadTypes, Next, AgentNext, GatewayNext, vars, Fault, NoFault, Rotate, Reclaim,
           SendFrame, ShipReturns, Poll, PollAnswers, Stop, StopAnswers, LinkDrops, AgentStops,
           Reconnect, FlushNext, WriteChunk, BeginUpload, UploadBegun, UploadRejected,
           CompleteUpload, FinishUpload, ConnectionCloses, ScanSpawns, ScanRecordsStart,
           EngineEnds, ScanRecordsFinish, GatewayRestarts
  <2> QED
    BY <2>1
<1>2. FirstLink /\ \A f \in Files : SafeOf(f)
  BY <1>1 DEF SafeInv
<1>3. /\ FirstLink'
      /\ ~LinkDrops /\ ~AgentStops /\ ~Reconnect /\ ~GatewayRestarts
      /\ \A f \in Files : ~Reclaim(f)
      /\ \A c \in Conns : ~UploadRejected(c) /\ ~ConnectionCloses(c)
  BY <1>1, <1>2, FirstLinkStep DEF SafeOf
<1>4. SUFFICES ASSUME NEW f \in Files PROVE SafeOf(f)'
  BY <1>3
<1>5. CASE AgentNext
  BY <1>2, <1>3, <1>5, SafeAgent DEF AgentNext
<1>6. ASSUME UNCHANGED <<agentVars, wire, uploadVars>> PROVE SafeOf(f)'
  <2>1. Accounted(f)' /\ (Completed(f)' => Completed(f))
    BY <1>2, <1>6 DEF SafeOf, Accounted, Completed, agentVars, uploadVars
  <2> QED
    BY <1>2, <1>6, <2>1, SafeGateway DEF SafeOf, uploadVars
<1>7. ASSUME \/ UNCHANGED vars \/ \E s \in Sessions : ScanSpawns(s)
             \/ \E g \in Files : ScanRecordsStart(g) \/ EngineEnds(g) \/ ScanRecordsFinish(g)
      PROVE  SafeOf(f)'
  <2>1. UNCHANGED <<agentVars, wire, uploadVars>>
    BY <1>7 DEF vars, ScanSpawns, ScanRecordsStart, EngineEnds, ScanRecordsFinish
  <2> QED
    BY <1>6, <2>1
<1> QED
  BY <1>2, <1>3, <1>5, <1>7, SafeHandle, SafeComplete, SafeFinish DEF Next, GatewayNext

\* While no link drops, no process stops and no call fails, a file the agent has
\* removed after sending it is on its way or published: _ship_pcap removes it
\* when the last frame is written, long before the gateway has the file.
THEOREM RemovedIsUnderway == Spec => []LostOnlyByFault
<1>1. Init => SafeInv
  <2> SUFFICES ASSUME Init PROVE SafeInv
    OBVIOUS
  <2>1. FirstLink
    BY DEF Init, FirstLink
  <2>2. ASSUME NEW f \in Files PROVE SafeOf(f)
    <3>1. file[f] \in {"unused", "open"} /\ next[f] = 0 /\ ~Completed(f) /\ xfer[1][f] = NoXfer
      BY Indices DEF Init, Completed
    <3> QED
      BY <3>1 DEF SafeOf, Accounted, Completed
  <2> QED
    BY <2>1, <2>2 DEF SafeInv
<1>2. UploadTypes /\ SafeInv => LostOnlyByFault
  <2> SUFFICES ASSUME UploadTypes, SafeInv, faults = 0, NEW f \in Files, file[f] = "shipped"
               PROVE  Underway(f)
    BY DEF LostOnlyByFault
  <2>1. SafeOf(f) /\ next[f] > Complete /\ next[f] \in Nat /\ 1 \in Conns
    BY Indices DEF SafeInv, SafeOf, UploadTypes
  <2>2. \/ Contains(wire[1], <<f, Complete>>) \/ creating[1] = <<f, Complete>>
        \/ Complete \in xfer[1][f].got \/ Completed(f)
    BY <2>1, Indices DEF SafeOf, Accounted
  <2>3. Complete \in xfer[1][f].got => xfer[1][f] # NoXfer
    BY DEF NoXfer
  <2>4. Contains(wire[1], <<f, Complete>>) => \E n \in DOMAIN wire[1] : wire[1][n][1] = f
    <3>1. DOMAIN wire[1] = 1..Len(wire[1])
      BY <2>1, LenProperties DEF UploadTypes
    <3> QED
      BY <3>1 DEF Contains
  <2> QED
    BY <2>1, <2>2, <2>3, <2>4 DEF Underway, Completed, NoFrame
<1> QED
  BY <1>1, <1>2, UploadTypesInit, UploadTypesStep, LinkInit, LinkStep, SafeStep, PTL DEF Spec

-----------------------------------------------------------------------------
(* All types. *)

\* The types of what neither an upload nor the row of a scan needs.
OtherTypes ==
    /\ reclaimed \subseteq Files
    /\ reporter \in [Sessions -> {"idle", "polling", "none"}]
    /\ stopping \subseteq Sessions
    /\ flush \in Seq(Files) /\ queue \in [Sessions -> Seq(Files)]
    /\ report \subseteq Files /\ judged \subseteq Files

\* _flush_spool goes through files, and through no more of them than it listed.
LEMMA OtherTypesAgent ==
    ASSUME IsFiniteSet(Files), OtherTypes, AgentNext
    PROVE  OtherTypes'
<1>1. flush' \in Seq(Files)
  <2>1. flush # <<>> => Tail(flush) \in Seq(Files)
    BY HeadTailProperties DEF OtherTypes
  <2>2. <<>> \in Seq(Files)
    OBVIOUS
  <2>3. CASE Reconnect
    <3> DEFINE S == {f \in Files : file[f] = "spooled"}
    <3>1. IsFiniteSet(S)
      BY FS_Subset
    <3>2. Cardinality(S) \in Nat
      BY <3>1, FS_CardinalityType
    <3>3. flush' \in [1..Cardinality(S) -> S]
      BY <2>3 DEF Reconnect, SetToSeqs
    <3> HIDE DEF S
    <3>4. flush' \in Seq(S)
      BY <3>2, <3>3, SeqDef
    <3>5. S \subseteq Files
      BY DEF S
    <3>6. flush' \in [1..Cardinality(S) -> Files]
      BY <3>3, <3>5
    <3> QED
      BY <3>2, <3>6, SeqDef
  <2>4. CASE LinkDrops \/ AgentStops
    BY <2>2, <2>4 DEF LinkDrops, AgentStops, LeaveLink
  <2>5. CASE FlushNext
    BY <2>1, <2>5 DEF FlushNext, OtherTypes
  <2>6. ASSUME NEW f \in Files, Rotate(f) \/ Reclaim(f) \/ SendFrame(f) \/ ShipReturns(f)
        PROVE  flush' \in Seq(Files)
    BY <2>1, <2>6 DEF OtherTypes, Rotate, Reclaim, SendFrame, ShipReturns, AfterEntry
  <2>7. ASSUME NEW s \in Sessions, Poll(s) \/ PollAnswers(s) \/ Stop(s) \/ StopAnswers(s)
        PROVE  flush' \in Seq(Files)
    BY <2>7 DEF OtherTypes, Poll, PollAnswers, Stop, StopAnswers
  <2> QED
    BY <2>3, <2>4, <2>5, <2>6, <2>7 DEF AgentNext
<1>2. /\ reclaimed' \subseteq Files /\ stopping' \subseteq Sessions
      /\ reporter' \in [Sessions -> {"idle", "polling", "none"}]
  BY DEF OtherTypes, AgentNext, Rotate, Reclaim, SendFrame, ShipReturns, Poll, PollAnswers, Stop,
         StopAnswers, LinkDrops, AgentStops, LeaveLink, Reconnect, FlushNext
<1>3. report' = report /\ judged' = judged /\ queue' = queue
  BY DEF AgentNext, Rotate, Reclaim, SendFrame, ShipReturns, Poll, PollAnswers, Stop, StopAnswers,
         LinkDrops, AgentStops, LeaveLink, Reconnect, FlushNext, scanVars
<1> QED
  BY <1>1, <1>2, <1>3 DEF OtherTypes

\* The gateway only adds files to the reports and verdicts, or takes a report away.
LEMMA OtherTypesGateway ==
    ASSUME OtherTypes, GatewayNext \/ UNCHANGED vars
    PROVE  OtherTypes'
<1>1. UNCHANGED <<reclaimed, reporter, stopping, flush>>
  BY DEF vars, agentVars, GatewayNext, WriteChunk, BeginUpload, UploadBegun, UploadRejected,
         CompleteUpload, FinishUpload, ConnectionCloses, ScanSpawns, ScanRecordsStart, EngineEnds,
         ScanRecordsFinish, GatewayRestarts
<1>2. report' \subseteq Files /\ judged' \subseteq Files
  BY DEF OtherTypes, vars, scanVars, GatewayNext, WriteChunk, BeginUpload, UploadBegun,
         UploadRejected, CompleteUpload, FinishUpload, ConnectionCloses, ScanSpawns,
         ScanRecordsStart, EngineEnds, ScanRecordsFinish, GatewayRestarts
<1>3. queue' \in [Sessions -> Seq(Files)]
  <2>1. ASSUME NEW c \in Conns, NEW f \in Files, FinishUpload(c, f)
        PROVE  queue' \in [Sessions -> Seq(Files)]
    <3>1. SessionOf[f] \in Sessions /\ queue[SessionOf[f]] \in Seq(Files)
      BY TransferAssumption DEF OtherTypes
    <3>2. Append(queue[SessionOf[f]], f) \in Seq(Files)
      BY <3>1, AppendProperties
    <3>3. \/ queue' = queue
          \/ queue' = [queue EXCEPT ![SessionOf[f]] = Append(queue[SessionOf[f]], f)]
      BY <2>1 DEF FinishUpload
    <3> QED
      BY <3>1, <3>2, <3>3 DEF OtherTypes
  <2>2. ASSUME NEW s \in Sessions, ScanSpawns(s)
        PROVE  queue' \in [Sessions -> Seq(Files)]
    <3>1. queue[s] \in Seq(Files) /\ queue[s] # <<>>
      BY <2>2 DEF OtherTypes, ScanSpawns
    <3>2. Tail(queue[s]) \in Seq(Files)
      BY <3>1, HeadTailProperties
    <3>3. queue' = [queue EXCEPT ![s] = Tail(queue[s])]
      BY <2>2 DEF ScanSpawns
    <3> QED
      BY <3>2, <3>3 DEF OtherTypes
  <2>3. CASE GatewayRestarts
    <3>1. <<>> \in Seq(Files)
      OBVIOUS
    <3> QED
      BY <2>3, <3>1 DEF GatewayRestarts
  <2> QED
    BY <2>1, <2>2, <2>3
       DEF OtherTypes, vars, scanVars, GatewayNext, WriteChunk, BeginUpload, UploadBegun,
           UploadRejected, CompleteUpload, ConnectionCloses, ScanRecordsStart, EngineEnds,
           ScanRecordsFinish
<1> QED
  BY <1>1, <1>2, <1>3 DEF OtherTypes

\* Every variable of the agent, the gateway and the scans keeps its type, for
\* finitely many files (the spool is listed as a sequence).
THEOREM TransferTypes == IsFiniteSet(Files) => (Spec => []TypeOK)
<1> SUFFICES ASSUME IsFiniteSet(Files) PROVE Spec => []TypeOK
  OBVIOUS
<1>1. Init => OtherTypes
  <2>1. <<>> \in Seq(Files)
    OBVIOUS
  <2> QED
    BY <2>1 DEF Init, OtherTypes
<1>2. OtherTypes /\ [Next]_vars => OtherTypes'
  BY OtherTypesAgent, OtherTypesGateway DEF Next
<1>3. Init => RowInv
  BY RowInit
<1>4. RowInv /\ [Next]_vars => RowInv'
  BY RowStep
<1>5. UploadTypes /\ RowInv /\ OtherTypes => TypeOK
  <2> SUFFICES ASSUME UploadTypes, RowInv, OtherTypes PROVE TypeOK
    OBVIOUS
  <2>1. xfer \in [Conns -> [Files -> [ino : Inodes \cup {None}, got : SUBSET Chunks]]]
    <3>1. NoXfer \in [ino : Inodes \cup {None}, got : SUBSET Chunks]
      BY DEF NoXfer
    <3>2. ASSUME NEW x \in Xfer PROVE x \in [ino : Inodes \cup {None}, got : SUBSET Chunks]
      BY <3>1 DEF Xfer
    <3>3. \A c \in Conns : xfer[c] \in [Files -> [ino : Inodes \cup {None}, got : SUBSET Chunks]]
      <4> SUFFICES ASSUME NEW c \in Conns
                   PROVE  xfer[c] \in [Files -> [ino : Inodes \cup {None}, got : SUBSET Chunks]]
        OBVIOUS
      <4>1. xfer[c] = [f \in Files |-> xfer[c][f]] /\ \A f \in Files : xfer[c][f] \in Xfer
        BY DEF UploadTypes
      <4> QED
        BY <3>2, <4>1
    <3>4. xfer = [c \in Conns |-> xfer[c]]
      BY DEF UploadTypes
    <3> QED
      BY <3>3, <3>4
  <2>2. creating \in [Conns -> Frame \cup {NoFrame}]
    <3>1. (Files \X Chunks) \cup {NoFrame} \subseteq Frame \cup {NoFrame}
      BY Indices DEF Frame
    <3> QED
      BY <3>1 DEF UploadTypes
  <2>3. /\ scan \in [Files -> {"none", "spawned", "engine", "exited"}]
        /\ \A s \in Sessions : row[s].status \in {"absent", "running", "completed", "failed"}
    BY DEF RowInv, ScanTypes, ScanRow
  <2> QED
    BY <2>1, <2>2, <2>3 DEF UploadTypes, OtherTypes, TypeOK, FileStates
<1> QED
  BY <1>1, <1>2, <1>3, <1>4, <1>5, UploadTypesInit, UploadTypesStep, PTL DEF Spec

=============================================================================

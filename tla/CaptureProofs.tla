--------------------------- MODULE CaptureProofs ---------------------------
(* Proofs about CaptureDaemon, for arbitrary clients, and about LiveCapture. *)
EXTENDS LiveCapture, FiniteSetTheorems, TLAPS

(* capd forgets no running capture. *)

\* What capd's coroutines hold about a session while they wait: a session that
\* somebody polls or stops was started, and a poll that saw it ended was right.
Remembered ==
    \A s \in Sessions :
        /\ stream[s] # "off" \/ stopping[s] # "none" \/ s \in sessions => dumpcap[s] # "none"
        /\ stream[s] = "report" /\ ~saw[s].running => ~Running(s)
        /\ stream[s] = "send" /\ ~frame[s].running => ~Running(s)
        /\ stopping[s] = "done" => ~Running(s)

\* The tables have an entry per session; enough typing for the proofs below.
Tables ==
    /\ dumpcap \in [Sessions -> {"none", "live", "exited", "killed"}]
    /\ nic \in [Sessions -> Interfaces \cup {NoNic}]
    /\ stopping \in [Sessions -> {"none", "signalled", "done"}]
    /\ stream \in [Sessions -> {"off", "poll", "report", "send"}]
    /\ DOMAIN saw = Sessions /\ saw = [s \in Sessions |-> saw[s]]
    /\ DOMAIN frame = Sessions /\ frame = [s \in Sessions |-> frame[s]]
    /\ sessions \subseteq Sessions

KnownInv == Tables /\ Remembered /\ LiveIsKnown /\ OneCapturePerInterface

\* No session has been started.
LEMMA KnownInit == DaemonInit => KnownInv
BY DaemonAssumption
   DEF DaemonInit, KnownInv, Tables, Remembered, LiveIsKnown, OneCapturePerInterface, Running

\* A start is the only step that makes a dumpcap live, and it looks for
\* conflicts among all sessions capd knows, hence among all live ones.
LEMMA KnownStart ==
    ASSUME KnownInv, NEW s \in Sessions, NEW i \in Interfaces, StartSession(s, i)
    PROVE  KnownInv'
<1>1. Tables'
  BY DEF KnownInv, Tables, StartSession
<1>2. Remembered'
  BY DEF KnownInv, Tables, StartSession, Remembered, Running
<1>3. LiveIsKnown'
  BY DEF KnownInv, Tables, StartSession, LiveIsKnown, Running
<1>4. OneCapturePerInterface'
  BY DEF KnownInv, Tables, StartSession, Conflict, LiveIsKnown, OneCapturePerInterface, Running
<1> QED
  BY <1>1, <1>2, <1>3, <1>4 DEF KnownInv

\* A dumpcap that rotates or ends, and the polls of the stats loop.
LEMMA KnownInternal ==
    ASSUME KnownInv, NEW s \in Sessions, Internal(s) \/ StopSession(s) \/ OpenStream(s)
    PROVE  KnownInv'
<1> USE DEF KnownInv, Tables, Remembered, LiveIsKnown, OneCapturePerInterface, Running
<1>1. CASE RotateFile(s)
  BY <1>1 DEF RotateFile
<1>2. CASE DumpcapExits(s)
  BY <1>2 DEF DumpcapExits
<1>3. CASE FinishStop(s)
  BY <1>3 DEF FinishStop
<1>4. CASE PollLook(s)
  BY <1>4 DEF PollLook
<1>5. CASE PollReport(s)
  BY <1>5 DEF PollReport
<1>6. CASE StopSession(s)
  BY <1>6 DEF StopSession
<1>7. CASE OpenStream(s)
  BY <1>7 DEF OpenStream
<1> QED
  BY <1>1, <1>2, <1>3, <1>4, <1>5, <1>6, <1>7 DEF Internal

\* A session is reaped only after a frame that says it has ended.
LEMMA KnownSend ==
    ASSUME KnownInv, NEW s \in Sessions, NEW listened \in BOOLEAN, SendFrame(s, listened)
    PROVE  KnownInv'
BY DEF KnownInv, Tables, Remembered, LiveIsKnown, OneCapturePerInterface, Running, SendFrame

\* capd takes every dumpcap with it when it dies.
LEMMA KnownOutage ==
    ASSUME KnownInv, CapdCrash \/ CapdRestart
    PROVE  KnownInv'
BY DEF KnownInv, Tables, Remembered, LiveIsKnown, OneCapturePerInterface, Running,
       CapdCrash, CapdRestart

\* KnownInv is inductive for any client.
LEMMA KnownStep == KnownInv /\ [DaemonNext]_dvars => KnownInv'
<1> SUFFICES ASSUME KnownInv, [DaemonNext]_dvars PROVE KnownInv'
  OBVIOUS
<1>1. CASE DaemonNext
  BY <1>1, KnownStart, KnownInternal, KnownSend, KnownOutage DEF DaemonNext
<1>2. CASE UNCHANGED dvars
  BY <1>2 DEF dvars, KnownInv, Tables, Remembered, LiveIsKnown, OneCapturePerInterface, Running
<1> QED
  BY <1>1, <1>2

\* docs/live-capture.md: the start RPC is the authoritative refusal point.
THEOREM OneCapture == DaemonSpec => []OneCapturePerInterface
<1>1. KnownInv => OneCapturePerInterface
  BY DEF KnownInv
<1> QED
  BY <1>1, KnownInit, KnownStep, PTL DEF DaemonSpec

\* _reap_if_finished and _stop_session pop only sessions that have ended.
THEOREM NeverForgotten == DaemonSpec => []LiveIsKnown
<1>1. KnownInv => LiveIsKnown
  BY DEF KnownInv
<1> QED
  BY <1>1, KnownInit, KnownStep, PTL DEF DaemonSpec

-----------------------------------------------------------------------------
(* Every rotation file is listed at most once. *)

\* What was handed out is in the closed set, which NewlyClosed leaves out.
ListedInv ==
    /\ sup = [s \in Sessions |-> sup[s]]
    /\ handed \in [Sessions -> [Files -> Nat]]
    /\ \A s \in Sessions : \A k \in Files :
          handed[s][k] <= 1 /\ (k \notin sup[s].closed => handed[s][k] = 0)

\* The locked half of _snapshot, whoever runs it and with whatever listing.
LEMMA ListedAccount ==
    ASSUME ListedInv, NEW s \in Sessions, NEW newest, NEW finalize, Account(s, newest, finalize)
    PROVE  ListedInv'
<1> DEFINE new == NewlyClosed(s, newest, finalize)
<1>1. /\ handed' = [handed EXCEPT ![s] =
              [k \in Files |-> IF k \in new THEN @[k] + 1 ELSE @[k]]]
      /\ sup' = [q \in Sessions |-> sup'[q]]
      /\ sup'[s].closed = sup[s].closed \cup new
      /\ \A q \in Sessions : q # s => sup'[q] = sup[q]
  BY DEF Account, ListedInv
<1>2. \A k \in new : k \notin sup[s].closed
  BY DEF NewlyClosed
<1> HIDE DEF new
<1>3. handed' \in [Sessions -> [Files -> Nat]]
  BY <1>1 DEF ListedInv
<1>4. ASSUME NEW q \in Sessions, NEW k \in Files
      PROVE  handed'[q][k] <= 1 /\ (k \notin sup'[q].closed => handed'[q][k] = 0)
  <2>1. CASE q # s
    BY <1>1, <2>1 DEF ListedInv
  <2>2. CASE q = s
    <3>1. handed'[s][k] = IF k \in new THEN handed[s][k] + 1 ELSE handed[s][k]
      BY <1>1 DEF ListedInv
    <3>2. k \in new => handed[s][k] = 0
      BY <1>2 DEF ListedInv
    <3> QED
      BY <1>1, <3>1, <3>2, <2>2 DEF ListedInv
  <2> QED
    BY <2>1, <2>2
<1> QED
  BY <1>1, <1>3, <1>4 DEF ListedInv

\* The two callers of _snapshot, and the steps that do not call it.
LEMMA ListedStep == ListedInv /\ [DaemonNext]_dvars => ListedInv'
<1> SUFFICES ASSUME ListedInv, [DaemonNext]_dvars PROVE ListedInv'
  OBVIOUS
<1>1. ASSUME UNCHANGED <<sup, handed>> PROVE ListedInv'
  BY <1>1 DEF ListedInv
<1>2. ASSUME NEW s \in Sessions, FinishStop(s) \/ PollReport(s) PROVE ListedInv'
  BY <1>2, ListedAccount DEF FinishStop, PollReport
<1>3. ASSUME NEW s \in Sessions, Internal(s) \/ StopSession(s) \/ OpenStream(s)
      PROVE  FinishStop(s) \/ PollReport(s) \/ UNCHANGED <<sup, handed>>
  BY <1>3 DEF Internal, RotateFile, DumpcapExits, PollLook, StopSession, OpenStream
<1>4. ASSUME NEW s \in Sessions, NEW i \in Interfaces, StartSession(s, i)
      PROVE  UNCHANGED <<sup, handed>>
  BY <1>4 DEF StartSession
<1>5. ASSUME NEW s \in Sessions, NEW listened \in BOOLEAN, SendFrame(s, listened)
      PROVE  UNCHANGED <<sup, handed>>
  BY <1>5 DEF SendFrame
<1>6. ASSUME CapdCrash \/ CapdRestart \/ UNCHANGED dvars
      PROVE  UNCHANGED <<sup, handed>>
  BY <1>6 DEF CapdCrash, CapdRestart, dvars
<1> QED
  BY <1>1, <1>2, <1>3, <1>4, <1>5, <1>6 DEF DaemonNext

\* poll() and stop() never list the same file, whatever the sizes of the ring
\* and of the traffic.
THEOREM ListedOnce == DaemonSpec => []HandedOnce
<1>1. DaemonInit => ListedInv
  BY DEF DaemonInit, ListedInv, Files
<1>2. ListedInv => HandedOnce
  BY DEF ListedInv, HandedOnce
<1> QED
  BY <1>1, <1>2, ListedStep, PTL DEF DaemonSpec

-----------------------------------------------------------------------------
(* LiveCapture drives the daemon as its clients may. *)

\* A start RPC is for an interface: AcquireInterface has locked it.
WantInv ==
    /\ want = [s \in Sessions |-> want[s]] /\ starter = [s \in Sessions |-> starter[s]]
    /\ \A s \in Sessions : starter[s] = "calling" => want[s] \in Interfaces

\* Only AcquireInterface writes want, and no other step leads to a start RPC.
LEMMA WantStep == WantInv /\ [Next]_vars => WantInv'
<1> SUFFICES ASSUME WantInv, [Next]_vars PROVE WantInv'
  OBVIOUS
<1> USE DEF WantInv
<1>1. ASSUME NEW s \in Sessions, NEW i \in Interfaces, AcquireInterface(s, i) PROVE WantInv'
  BY <1>1 DEF AcquireInterface
<1>2. ASSUME NEW s \in Sessions, NEW pc, pc # "calling",
             starter' = [starter EXCEPT ![s] = pc], want' = want
      PROVE  WantInv'
  BY <1>2
<1>3. ASSUME NEW s \in Sessions, StartStep(s) PROVE WantInv'
  BY <1>1, <1>2, <1>3
     DEF StartStep, CountSessions, InterfaceInUse, CapdStarts, CapdRefuses, StartSucceeds,
         HubStarts, StartFails
<1>4. ASSUME UNCHANGED <<starter, want>> PROVE WantInv'
  BY <1>4
<1>5. ASSUME NEW s \in Sessions, StopStep(s) \/ RequestStop(s) \/ HubStep(s) \/ DaemonStep(s)
      PROVE  UNCHANGED <<starter, want>>
  BY <1>5
     DEF StopStep, RequestStop, StopReachesCapd, StopIsRefused, StopSucceeds, StopFails,
         HubStep, HubConnects, HubReads, HubQuits, HubLosesCapd, FrameUnread, HubEnds,
         DaemonStep, wvars
<1>6. ASSUME Outage \/ UNCHANGED vars PROVE UNCHANGED <<starter, want>>
  BY <1>6 DEF Outage, CapdDies, vars, wvars
<1>7. CASE WebRestart
  BY <1>7 DEF WebRestart
<1> QED
  BY <1>3, <1>4, <1>5, <1>6, <1>7 DEF Next

\* Each step of the web process makes at most one step of the daemon.
LEMMA DaemonSteps == WantInv /\ [Next]_vars => [DaemonNext]_dvars
<1> SUFFICES ASSUME WantInv, [Next]_vars PROVE [DaemonNext]_dvars
  OBVIOUS
<1>1. ASSUME NEW s \in Sessions, StartStep(s) PROVE [DaemonNext]_dvars
  <2>1. CASE CapdStarts(s)
    <3>1. StartSession(s, want[s]) /\ want[s] \in Interfaces
      BY <2>1 DEF CapdStarts, WantInv
    <3> QED
      BY <3>1 DEF DaemonNext
  <2> QED
    BY <1>1, <2>1
       DEF StartStep, CountSessions, CapdRefuses, StartSucceeds, HubStarts, StartFails,
           AcquireInterface, InterfaceInUse
<1>2. ASSUME NEW s \in Sessions, StopStep(s) \/ RequestStop(s) PROVE [DaemonNext]_dvars
  BY <1>2 DEF StopStep, RequestStop, StopReachesCapd, StopIsRefused, StopSucceeds, StopFails,
              DaemonNext
<1>3. ASSUME NEW s \in Sessions, HubStep(s) PROVE [DaemonNext]_dvars
  <2>1. ASSUME NEW listened \in BOOLEAN, SendFrame(s, listened) PROVE DaemonNext
    BY <2>1 DEF DaemonNext
  <2>2. OpenStream(s) => DaemonNext
    BY DEF DaemonNext
  <2> QED
    BY <1>3, <2>1, <2>2
       DEF HubStep, HubConnects, HubReads, HubQuits, HubLosesCapd, FrameUnread, HubEnds
<1>4. ASSUME NEW s \in Sessions, DaemonStep(s) PROVE [DaemonNext]_dvars
  BY <1>4 DEF DaemonStep, DaemonNext
<1>5. ASSUME Outage \/ WebRestart \/ UNCHANGED vars PROVE [DaemonNext]_dvars
  BY <1>5 DEF Outage, CapdDies, WebRestart, vars, DaemonNext
<1> QED
  BY <1>1, <1>2, <1>3, <1>4, <1>5 DEF Next

\* What is proved of capd for arbitrary clients holds under the web process.
THEOREM UsesDaemon == Spec => DaemonSpec
<1>1. Init => DaemonInit /\ WantInv
  BY DEF Init, WantInv
<1> QED
  BY <1>1, WantStep, DaemonSteps, PTL DEF Spec, DaemonSpec

-----------------------------------------------------------------------------
(* A row that says stopped. *)

Ended(s) == dumpcap[s] \in {"exited", "killed"}

\* A row is written stopped, and a last frame is remembered, only for a session
\* whose dumpcap has ended; a session is started once.
EndedInv ==
    /\ row = [s \in Sessions |-> row[s]]
    /\ \A s \in Sessions : row[s] = "stopped" \/ s \in final => Ended(s)

\* No step of capd revives a dumpcap.
LEMMA EndedForGood ==
    ASSUME KnownInv, [DaemonNext]_dvars, NEW q \in Sessions, Ended(q)
    PROVE  Ended(q)'
<1> USE DEF Ended, KnownInv, Tables
<1>1. ASSUME NEW s \in Sessions, NEW i \in Interfaces, StartSession(s, i) PROVE Ended(q)'
  BY <1>1 DEF StartSession
<1>2. ASSUME NEW s \in Sessions, DumpcapExits(s) PROVE Ended(q)'
  BY <1>2 DEF DumpcapExits
<1>3. ASSUME NEW s \in Sessions, Internal(s) \/ StopSession(s) \/ OpenStream(s)
      PROVE  DumpcapExits(s) \/ dumpcap' = dumpcap
  BY <1>3 DEF Internal, RotateFile, FinishStop, PollLook, PollReport, StopSession, OpenStream
<1>4. ASSUME NEW s \in Sessions, NEW listened \in BOOLEAN, SendFrame(s, listened)
      PROVE  dumpcap' = dumpcap
  BY <1>4 DEF SendFrame
<1>5. CASE CapdCrash
  BY <1>5 DEF CapdCrash
<1>6. CASE CapdRestart \/ UNCHANGED dvars
  BY <1>6 DEF CapdRestart, dvars
<1> QED
  BY <1>1, <1>2, <1>3, <1>4, <1>5, <1>6 DEF DaemonNext

\* What stop() and the last frame say, by KnownInv, of the dumpcap.
LEMMA EndedEvidence ==
    ASSUME KnownInv, NEW s \in Sessions,
           stopping[s] = "done" \/ (stream[s] = "send" /\ ~frame[s].running)
    PROVE  Ended(s)
BY DEF KnownInv, Tables, Remembered, Running, Ended

\* Two writers of the word: StopSucceeds has stop()'s answer, HubEnds the last
\* frame.  Every other step leaves both alone or writes another word.
LEMMA EndedStep == KnownInv /\ WantInv /\ EndedInv /\ [Next]_vars => EndedInv'
<1> SUFFICES ASSUME KnownInv, WantInv, EndedInv, [Next]_vars PROVE EndedInv'
  OBVIOUS
<1>0. \A q \in Sessions : Ended(q) => Ended(q)'
  BY DaemonSteps, EndedForGood
<1>1. ASSUME UNCHANGED <<row, final>> PROVE EndedInv'
  BY <1>0, <1>1 DEF EndedInv
<1>2. ASSUME NEW s \in Sessions, NEW status, SetRow(s, status),
             status = "stopped" => Ended(s), UNCHANGED final
      PROVE  EndedInv'
  BY <1>0, <1>2 DEF EndedInv, SetRow
<1>3. ASSUME NEW s \in Sessions, StartStep(s) \/ RequestStop(s) PROVE EndedInv'
  BY <1>1, <1>2, <1>3
     DEF StartStep, CountSessions, AcquireInterface, InterfaceInUse, CapdStarts, CapdRefuses,
         StartSucceeds, HubStarts, StartFails, RequestStop
<1>4. ASSUME NEW s \in Sessions, StopStep(s) PROVE EndedInv'
  <2>1. CASE StopSucceeds(s)
    BY <1>2, <2>1, EndedEvidence DEF StopSucceeds
  <2> QED
    BY <1>1, <1>2, <1>4, <2>1 DEF StopStep, StopReachesCapd, StopIsRefused, StopFails
<1>5. ASSUME NEW s \in Sessions, HubStep(s) PROVE EndedInv'
  <2>1. CASE HubReads(s)
    <3>1. stream[s] = "send" /\ row' = row
          /\ (final' = final \/ (~frame[s].running /\ final' = final \cup {s}))
      BY <2>1 DEF HubReads, SendFrame
    <3>2. ~frame[s].running => Ended(s)
      BY <3>1, EndedEvidence
    <3> QED
      BY <1>0, <3>1, <3>2 DEF EndedInv
  <2>2. CASE HubEnds(s)
    <3>1. s \in final => Ended(s)
      BY DEF EndedInv
    <3> QED
      BY <1>1, <1>2, <2>2, <3>1 DEF HubEnds
  <2> QED
    BY <1>1, <1>5, <2>1, <2>2
       DEF HubStep, HubConnects, HubQuits, HubLosesCapd, FrameUnread, wvars
<1>6. ASSUME NEW s \in Sessions, DaemonStep(s) PROVE EndedInv'
  BY <1>1, <1>6 DEF DaemonStep, wvars
<1>7. CASE Outage \/ UNCHANGED vars
  BY <1>1, <1>7 DEF Outage, CapdDies, vars, wvars
<1>8. CASE WebRestart
  BY <1>0, <1>8 DEF EndedInv, WebRestart
<1> QED
  BY <1>3, <1>4, <1>5, <1>6, <1>7, <1>8 DEF Next

\* The history never calls a capture stopped whose dumpcap is on the network,
\* however stops, expiry, starts, crashes of capd and web restarts overlap.
THEOREM StoppedMeansStopped == Spec => []StoppedHasStopped
<1>1. Init => DaemonInit /\ WantInv /\ EndedInv
  BY DEF Init, WantInv, EndedInv
<1>2. EndedInv => StoppedHasStopped
  BY DEF EndedInv, Ended, StoppedHasStopped, Running
<1> QED
  BY <1>1, <1>2, KnownInit, KnownStep, WantStep, DaemonSteps, EndedStep, PTL DEF Spec

-----------------------------------------------------------------------------
(* The rotation files of a capture: what capd's supervisor has listed or    *)
(* counted as lost, and what the web process has scanned.                  *)

\* Numbers of files are naturals, and every set of files is finite.
LEMMA FileNumbers ==
    /\ Files \subseteq Nat /\ 0..MaxFiles \subseteq Nat /\ Files \subseteq 0..MaxFiles
    /\ \A F \in SUBSET Files : IsFiniteSet(F) /\ Cardinality(F) \in Nat
<1>1. IsFiniteSet(Files)
  BY DaemonAssumption, FS_Interval DEF Files
<1>2. \A F \in SUBSET Files : IsFiniteSet(F) /\ Cardinality(F) \in Nat
  BY <1>1, FS_Subset, FS_CardinalityType
<1> QED
  BY <1>2, DaemonAssumption DEF Files

\* Two sets of files have together at most as many files as each on its own.
LEMMA UnionBound ==
    ASSUME NEW S \in SUBSET Files, NEW T \in SUBSET Files, NEW U \in SUBSET (S \cup T)
    PROVE  Cardinality(U) <= Cardinality(S) + Cardinality(T)
<1>1. /\ IsFiniteSet(S) /\ IsFiniteSet(T) /\ IsFiniteSet(S \cup T)
      /\ Cardinality(S) \in Nat /\ Cardinality(T) \in Nat /\ Cardinality(S \cup T) \in Nat
      /\ Cardinality(U) \in Nat /\ Cardinality(S \cap T) \in Nat
  <2>1. S \cup T \in SUBSET Files /\ U \in SUBSET Files /\ S \cap T \in SUBSET Files
    OBVIOUS
  <2> QED
    BY <2>1, FileNumbers
<1>2. Cardinality(S \cup T) = Cardinality(S) + Cardinality(T) - Cardinality(S \cap T)
  BY <1>1, FS_Union
<1>3. Cardinality(U) <= Cardinality(S \cup T)
  BY <1>1, FS_Subset
<1> QED
  BY <1>1, <1>2, <1>3

\* The supervisor's record of one capture.
Supervisor == [closed : SUBSET Files, active : 0..MaxFiles, highest : 0..MaxFiles, lost : Nat]

\* What a listing closes and misses are files and a number of files.
LEMMA ListingTyped ==
    ASSUME DaemonTypeOK, NEW s \in Sessions, NEW newest \in 0..MaxFiles, NEW finalize
    PROVE  /\ NewlyClosed(s, newest, finalize) \in SUBSET Files
           /\ OnDisk(newest) \in SUBSET Files
           /\ Gap(s, newest) \in Nat
<1>1. sup[s] \in Supervisor
  BY DEF DaemonTypeOK, Supervisor
<1>2. OnDisk(newest) \in SUBSET Files
  BY FileNumbers, DaemonAssumption DEF OnDisk, Files
<1>3. sup[s].active \in Files \cup {0}
  BY <1>1, DaemonAssumption DEF Supervisor, Files
<1>4. NewlyClosed(s, newest, finalize) \in SUBSET Files
  BY <1>2, <1>3 DEF NewlyClosed
<1>5. Gap(s, newest) \in Nat
  BY FileNumbers DEF Gap
<1> QED
  BY <1>2, <1>4, <1>5

\* What the locked half of _snapshot does to the record of its capture.
LEMMA AccountEffect ==
    ASSUME DaemonTypeOK, NEW s \in Sessions, NEW newest \in 0..MaxFiles, NEW finalize,
           Account(s, newest, finalize)
    PROVE  /\ sup' \in [Sessions -> Supervisor] /\ handed' \in [Sessions -> [Files -> Nat]]
           /\ sup'[s].closed = sup[s].closed \cup NewlyClosed(s, newest, finalize)
           /\ sup'[s].active = newest
           /\ sup'[s].highest = IF newest > sup[s].highest THEN newest ELSE sup[s].highest
           /\ sup'[s].lost = sup[s].lost + Gap(s, newest)
           /\ \A q \in Sessions \ {s} : sup'[q] = sup[q]
<1> DEFINE new == NewlyClosed(s, newest, finalize)
           lost == sup[s].lost + Gap(s, newest)
           entry == [closed |-> sup[s].closed \cup new, active |-> newest,
                     highest |-> IF newest > sup[s].highest THEN newest ELSE sup[s].highest,
                     lost |-> lost]
<1>1. sup \in [Sessions -> Supervisor] /\ sup[s] \in Supervisor
  BY DEF DaemonTypeOK, Supervisor
<1>2. new \in SUBSET Files /\ lost \in Nat
  BY <1>1, ListingTyped DEF Supervisor
<1>3. sup' = [sup EXCEPT ![s] = entry]
  BY DEF Account
<1>4. handed' = [handed EXCEPT ![s] = [k \in Files |-> IF k \in new THEN handed[s][k] + 1 ELSE handed[s][k]]]
  BY DEF Account
<1> HIDE DEF new, lost
<1>5. entry \in Supervisor
  BY <1>1, <1>2 DEF Supervisor
<1>6. handed' \in [Sessions -> [Files -> Nat]]
  BY <1>4 DEF DaemonTypeOK
<1> HIDE DEF entry
<1>7. sup' \in [Sessions -> Supervisor] /\ sup'[s] = entry
      /\ \A q \in Sessions \ {s} : sup'[q] = sup[q]
  BY <1>1, <1>3, <1>5
<1> QED
  BY <1>6, <1>7 DEF entry, new, lost

-----------------------------------------------------------------------------
(* Types. *)

\* Requests and the life of dumpcap leave the supervisor's record alone.
LEMMA TypeRequests ==
    ASSUME DaemonTypeOK, NEW s \in Sessions, NEW i \in Interfaces, NEW listened \in BOOLEAN,
           \/ StartSession(s, i) \/ StopSession(s) \/ OpenStream(s) \/ SendFrame(s, listened)
           \/ RotateFile(s) \/ DumpcapExits(s) \/ PollLook(s)
    PROVE  DaemonTypeOK'
<1> USE DEF DaemonTypeOK
<1>1. CASE StartSession(s, i)
  BY <1>1 DEF StartSession
<1>2. CASE StopSession(s)
  BY <1>2 DEF StopSession
<1>3. CASE OpenStream(s)
  BY <1>3 DEF OpenStream
<1>4. CASE SendFrame(s, listened)
  BY <1>4 DEF SendFrame
<1>5. CASE RotateFile(s)
  <2>1. written[s] + 1 \in 0..MaxFiles
    BY <1>5, DaemonAssumption DEF RotateFile
  <2> QED
    BY <1>5, <2>1 DEF RotateFile
<1>6. CASE DumpcapExits(s)
  BY <1>6 DEF DumpcapExits
<1>7. CASE PollLook(s)
  <2>1. [running |-> Running(s), newest |-> written[s]] \in [running : BOOLEAN, newest : 0..MaxFiles]
    BY DEF Running
  <2> QED
    BY <1>7, <2>1 DEF PollLook
<1> QED
  BY <1>1, <1>2, <1>3, <1>4, <1>5, <1>6, <1>7

\* The two callers of _snapshot.
LEMMA TypeAccounts ==
    ASSUME DaemonTypeOK, NEW s \in Sessions, FinishStop(s) \/ PollReport(s)
    PROVE  DaemonTypeOK'
<1>1. CASE FinishStop(s)
  <2>1. written[s] \in 0..MaxFiles
    BY DEF DaemonTypeOK
  <2>2. sup' \in [Sessions -> Supervisor] /\ handed' \in [Sessions -> [Files -> Nat]]
    BY <1>1, <2>1, AccountEffect DEF FinishStop
  <2> QED
    BY <1>1, <2>2 DEF FinishStop, DaemonTypeOK, Supervisor
<1>2. CASE PollReport(s)
  <2> DEFINE n == saw[s].newest
             new == NewlyClosed(s, n, ~saw[s].running)
  <2>1. n \in 0..MaxFiles /\ saw[s].running \in BOOLEAN
    BY DEF DaemonTypeOK
  <2>2. new \in SUBSET Files
    BY <2>1, ListingTyped
  <2>3. sup' \in [Sessions -> Supervisor] /\ handed' \in [Sessions -> [Files -> Nat]]
    BY <1>2, <2>1, AccountEffect DEF PollReport
  <2>4. frame' = [frame EXCEPT ![s] = [running |-> saw[s].running, closed |-> new]]
    BY <1>2 DEF PollReport
  <2> HIDE DEF new
  <2>5. frame' \in [Sessions -> [running : BOOLEAN, closed : SUBSET Files]]
    BY <2>1, <2>2, <2>4 DEF DaemonTypeOK
  <2> QED
    BY <1>2, <2>3, <2>5 DEF PollReport, DaemonTypeOK, Supervisor
<1> QED
  BY <1>1, <1>2

\* Every step of capd keeps the types.
LEMMA DaemonTypeStep == DaemonTypeOK /\ [DaemonNext]_dvars => DaemonTypeOK'
<1> SUFFICES ASSUME DaemonTypeOK, [DaemonNext]_dvars PROVE DaemonTypeOK'
  OBVIOUS
<1>1. CASE UNCHANGED dvars
  BY <1>1 DEF dvars, DaemonTypeOK
<1>2. CASE CapdCrash
  <2>1. crashes' \in 0..MaxCrashes
    BY <1>2, DaemonAssumption DEF CapdCrash, DaemonTypeOK
  <2>2. /\ dumpcap' \in [Sessions -> {"none", "live", "exited", "killed"}]
        /\ stopping' \in [Sessions -> {"none", "signalled", "done"}]
        /\ stream' \in [Sessions -> {"off", "poll", "report", "send"}]
    BY <1>2 DEF CapdCrash, DaemonTypeOK
  <2> QED
    BY <1>2, <2>1, <2>2 DEF CapdCrash, DaemonTypeOK
<1>3. CASE CapdRestart
  BY <1>3 DEF CapdRestart, DaemonTypeOK
<1>4. ASSUME NEW s \in Sessions, Internal(s) \/ StopSession(s) \/ OpenStream(s)
      PROVE  DaemonTypeOK'
  BY <1>4, TypeRequests, TypeAccounts, DaemonAssumption DEF Internal
<1>5. ASSUME NEW s \in Sessions, NEW i \in Interfaces, StartSession(s, i)
      PROVE  DaemonTypeOK'
  BY <1>5, TypeRequests
<1>6. ASSUME NEW s \in Sessions, NEW listened \in BOOLEAN, SendFrame(s, listened)
      PROVE  DaemonTypeOK'
  BY <1>6, TypeRequests, DaemonAssumption
<1> QED
  BY <1>1, <1>2, <1>3, <1>4, <1>5, <1>6 DEF DaemonNext

\* Empty tables have their types.
LEMMA DaemonTypeInit == DaemonInit => DaemonTypeOK
BY DaemonAssumption DEF DaemonInit, DaemonTypeOK

\* capd's tables keep their types, whatever its clients ask.
THEOREM DaemonTypes == DaemonSpec => []DaemonTypeOK
BY DaemonTypeInit, DaemonTypeStep, PTL DEF DaemonSpec

-----------------------------------------------------------------------------
(* Every file is listed or counted as lost. *)

\* The supervisor is behind the directory, never ahead of it: a poll's listing
\* is as old as the listing, a stop's is not, and dumpcap ends at its last file.
Listing(s) ==
    /\ stream[s] = "report" =>
        /\ saw[s].newest <= written[s]
        /\ Running(s) => sup[s].active <= saw[s].newest
        /\ ~saw[s].running => saw[s].newest = written[s]
    /\ Running(s) => \A k \in sup[s].closed : k < written[s]
    /\ sup[s].highest <= written[s] /\ sup[s].active <= written[s]
    /\ sup[s].closed \subseteq 1..written[s]
    /\ dumpcap[s] = "none" => written[s] = 0

\* Below the newest file seen so far every file is listed or counted; that file
\* itself is the active one or listed.
Counted(s) ==
    /\ Cardinality((1..(sup[s].highest - 1)) \ sup[s].closed) <= sup[s].lost
    /\ sup[s].highest \in sup[s].closed \cup {0, sup[s].active}

\* The supervisor has seen the last file and listed what is on disk.
Accounted(s) == sup[s].highest = written[s] /\ OnDisk(written[s]) \subseteq sup[s].closed

\* The final snapshot is taken before anybody learns that the capture ended.
Finished(s) ==
    (\/ stopping[s] = "done"
     \/ stream[s] = "send" /\ ~frame[s].running
     \/ dumpcap[s] = "exited" /\ s \notin sessions) => Accounted(s)

FilesInv ==
    /\ DaemonTypeOK /\ KnownInv
    /\ \A s \in Sessions : Listing(s) /\ Counted(s) /\ Finished(s)

\* A snapshot may come with an older listing than the one before it.
LEMMA CountedAccount ==
    ASSUME DaemonTypeOK, NEW s \in Sessions, NEW newest \in 0..MaxFiles, NEW finalize,
           Account(s, newest, finalize), Counted(s)
    PROVE  Counted(s)'
<1> DEFINE h == sup[s].highest
           new == NewlyClosed(s, newest, finalize)
           gap == {k \in Files : k > h /\ k < newest /\ k \notin OnDisk(newest)}
           missing == (1..(h - 1)) \ sup[s].closed
           after == (1..(sup'[s].highest - 1)) \ sup'[s].closed
<1>0. /\ sup[s].closed \in SUBSET Files /\ sup[s].active \in 0..MaxFiles /\ sup[s].lost \in Nat
      /\ h \in 0..MaxFiles /\ h \in Nat /\ newest \in Nat /\ MaxFiles \in Nat
      /\ Files = 1..MaxFiles
  BY FileNumbers, DaemonAssumption DEF DaemonTypeOK, Files
<1>1. /\ sup'[s].closed = sup[s].closed \cup new
      /\ sup'[s].active = newest
      /\ sup'[s].highest = IF newest > h THEN newest ELSE h
      /\ sup'[s].lost = sup[s].lost + Cardinality(gap)
  BY AccountEffect DEF Gap
<1>2. \A k \in {sup[s].active} \cup OnDisk(newest) :
        k # 0 /\ k # newest => k \in sup'[s].closed
  BY <1>1 DEF NewlyClosed
<1>3. h = newest \/ h \in sup'[s].closed \cup {0}
  BY <1>1, <1>2 DEF Counted
<1>4. after \subseteq missing \cup gap
  <2> SUFFICES ASSUME NEW k \in after, k \notin missing PROVE k \in gap
    OBVIOUS
  <2>1. k \in Nat \ {0} /\ k < sup'[s].highest /\ k \notin sup[s].closed /\ k \notin sup'[s].closed
    BY <1>0, <1>1
  <2>2. ~(k < h)
    BY <1>0, <2>1
  <2>3. k # h
    BY <1>0, <1>1, <1>3, <2>1
  <2>4. k > h /\ k < newest
    BY <1>0, <1>1, <2>1, <2>2, <2>3
  <2>5. k \notin OnDisk(newest)
    BY <1>0, <1>2, <2>1, <2>4
  <2> QED
    BY <1>0, <2>1, <2>4, <2>5
<1>5. missing \in SUBSET Files /\ gap \in SUBSET Files /\ after \in SUBSET (missing \cup gap)
  BY <1>0, <1>4
<1> HIDE DEF missing, gap, after
<1>6. Cardinality(missing) \in Nat /\ Cardinality(gap) \in Nat /\ Cardinality(after) \in Nat
  BY <1>5, FileNumbers
<1>7. Cardinality(after) <= Cardinality(missing) + Cardinality(gap)
  BY <1>5, UnionBound
<1>8. Cardinality(missing) <= sup[s].lost
  BY DEF Counted, missing
<1>9. Cardinality(after) <= sup'[s].lost
  BY <1>0, <1>1, <1>6, <1>7, <1>8
<1>10. sup'[s].highest \in sup'[s].closed \cup {0, sup'[s].active}
  BY <1>0, <1>1, <1>3
<1> QED
  BY <1>9, <1>10 DEF Counted, after

\* What a snapshot adds: a closed file was written before the listing, and all
\* of them when the capture has ended.
LEMMA SnapshotLists ==
    ASSUME DaemonTypeOK, NEW s \in Sessions, NEW newest \in 0..MaxFiles, NEW finalize \in BOOLEAN,
           Account(s, newest, finalize), Listing(s), newest <= written[s]
    PROVE  /\ sup'[s].highest <= written[s]
           /\ sup'[s].closed \subseteq sup[s].closed \cup (1..written[s])
           /\ ~finalize /\ sup[s].active <= newest
              => \A k \in sup'[s].closed \ sup[s].closed : k < newest
           /\ finalize /\ newest = written[s]
              => sup'[s].highest = written[s] /\ OnDisk(written[s]) \subseteq sup'[s].closed
           /\ Accounted(s)
              => sup'[s].highest = written[s] /\ OnDisk(written[s]) \subseteq sup'[s].closed
<1>0. /\ written[s] \in Nat /\ newest \in Nat /\ sup[s].highest \in Nat /\ sup[s].active \in Nat
      /\ sup[s].highest <= written[s] /\ sup[s].active <= written[s]
  BY FileNumbers DEF DaemonTypeOK, Listing
<1>1. /\ sup'[s].closed = sup[s].closed \cup NewlyClosed(s, newest, finalize)
      /\ sup'[s].highest = IF newest > sup[s].highest THEN newest ELSE sup[s].highest
  BY AccountEffect
<1>2. \A k \in NewlyClosed(s, newest, finalize) :
        k \in 1..written[s] /\ (~finalize /\ sup[s].active <= newest => k < newest)
  BY <1>0 DEF NewlyClosed, OnDisk
<1>3. finalize => OnDisk(newest) \subseteq sup[s].closed \cup NewlyClosed(s, newest, finalize)
  BY <1>0 DEF NewlyClosed, OnDisk
<1> QED
  BY <1>0, <1>1, <1>2, <1>3 DEF Accounted

\* What holds of each session.
FileInv(s) == Listing(s) /\ Counted(s) /\ Finished(s)

\* What a step of another session leaves alone.
SameFiles(q) ==
    /\ dumpcap'[q] = dumpcap[q] /\ written'[q] = written[q] /\ sup'[q] = sup[q]
    /\ saw'[q] = saw[q] /\ frame'[q] = frame[q] /\ stream'[q] = stream[q]
    /\ stopping'[q] = stopping[q] /\ (q \in sessions' <=> q \in sessions)

\* The invariant of a session reads nothing else.
LEMMA FilesElsewhere ==
    ASSUME NEW q \in Sessions, FileInv(q), SameFiles(q)
    PROVE  FileInv(q)'
BY DEF SameFiles, FileInv, Listing, Counted, Finished, Accounted, Running

\* A step of one session changes the entries of that session only.
LEMMA StepsElsewhere ==
    ASSUME DaemonTypeOK, NEW s \in Sessions, NEW q \in Sessions \ {s},
           \/ \E i \in Interfaces : StartSession(s, i)
           \/ \E listened \in BOOLEAN : SendFrame(s, listened)
           \/ StopSession(s) \/ OpenStream(s) \/ Internal(s)
    PROVE  SameFiles(q)
<1> USE DEF SameFiles, DaemonTypeOK
<1>1. CASE \E i \in Interfaces : StartSession(s, i)
  BY <1>1 DEF StartSession
<1>2. CASE \E listened \in BOOLEAN : SendFrame(s, listened)
  BY <1>2 DEF SendFrame
<1>3. CASE StopSession(s) \/ OpenStream(s) \/ RotateFile(s) \/ DumpcapExits(s) \/ PollLook(s)
  BY <1>3 DEF StopSession, OpenStream, RotateFile, DumpcapExits, PollLook
<1>4. CASE FinishStop(s)
  BY <1>4 DEF FinishStop, Account
<1>5. CASE PollReport(s)
  BY <1>5 DEF PollReport, Account
<1> QED
  BY <1>1, <1>2, <1>3, <1>4, <1>5 DEF Internal

\* Requests to capd, and the end of a round of the stats loop.
LEMMA FilesRequests ==
    ASSUME FilesInv, NEW s \in Sessions, NEW i \in Interfaces, NEW listened \in BOOLEAN,
           \/ StartSession(s, i) \/ StopSession(s) \/ OpenStream(s) \/ SendFrame(s, listened)
    PROVE  FileInv(s)'
<1>0. FileInv(s) /\ DaemonTypeOK
  BY DEF FilesInv, FileInv
<1> USE <1>0 DEF FileInv, Listing, Counted, Finished, Accounted, Running, DaemonTypeOK
<1>1. CASE StartSession(s, i)
  <2>1. /\ written[s] = 0 /\ stream[s] = "off" /\ stopping[s] = "none"
        /\ sup[s].closed = {} /\ sup[s].active <= 0
    BY <1>1, FileNumbers DEF StartSession, FilesInv, KnownInv, Remembered
  <2>2. /\ dumpcap'[s] = "live"
        /\ UNCHANGED <<written, sup, stream, saw, frame, stopping>>
    BY <1>1 DEF StartSession
  <2> QED
    BY <2>1, <2>2
<1>2. CASE StopSession(s)
  BY <1>2 DEF StopSession
<1>3. CASE OpenStream(s)
  BY <1>3 DEF OpenStream
<1>4. CASE SendFrame(s, listened)
  <2>1. /\ stream'[s] \in {"poll", "off"} /\ stream[s] = "send"
        /\ UNCHANGED <<dumpcap, written, sup, saw, frame, stopping>>
        /\ frame[s].running => sessions' = sessions
    BY <1>4 DEF SendFrame
  <2> QED
    BY <2>1
<1> QED
  BY <1>1, <1>2, <1>3, <1>4

\* dumpcap goes on or ends, and a poll looks.
LEMMA FilesInternal ==
    ASSUME FilesInv, NEW s \in Sessions,
           RotateFile(s) \/ DumpcapExits(s) \/ PollLook(s)
    PROVE  FileInv(s)'
<1>0. FileInv(s) /\ DaemonTypeOK
  BY DEF FilesInv, FileInv
<1>1. CASE RotateFile(s)
  <2>1. /\ Running(s) /\ Running(s)' /\ written'[s] = written[s] + 1 /\ written[s] \in Nat
        /\ UNCHANGED <<dumpcap, sup, stream, saw, frame, stopping, sessions>>
        /\ sup[s].highest \in Nat /\ sup[s].active \in Nat /\ saw[s].newest \in Nat
        /\ sup[s].closed \in SUBSET Nat
    BY <1>0, <1>1, FileNumbers DEF RotateFile, Running, DaemonTypeOK
  <2>2. stopping[s] # "done" /\ ~(stream[s] = "send" /\ ~frame[s].running)
        /\ (stream[s] = "report" => saw[s].running)
    BY <2>1 DEF FilesInv, KnownInv, Remembered
  <2>3. Listing(s)'
    BY <1>0, <2>1, <2>2 DEF FileInv, Listing, Running
  <2>4. Finished(s)'
    BY <2>1, <2>2 DEF Finished, Running
  <2> QED
    BY <1>0, <2>1, <2>3, <2>4 DEF FileInv, Counted
<1>2. CASE DumpcapExits(s)
  <2>1. /\ Running(s) /\ dumpcap'[s] = "exited" /\ s \in sessions
        /\ UNCHANGED <<written, sup, stream, saw, frame, stopping, sessions>>
    BY <1>0, <1>2 DEF DumpcapExits, FilesInv, KnownInv, LiveIsKnown, DaemonTypeOK
  <2>2. stream[s] = "report" => saw[s].newest <= written[s] /\ (~saw[s].running => ~Running(s))
    BY <1>0 DEF FileInv, Listing, FilesInv, KnownInv, Remembered
  <2> QED
    BY <1>0, <2>1, <2>2 DEF FileInv, Listing, Counted, Finished, Accounted, Running
<1>3. CASE PollLook(s)
  <2>1. /\ stream[s] = "poll" /\ stream'[s] = "report"
        /\ saw'[s].newest = written[s]
        /\ written[s] \in Nat
        /\ UNCHANGED <<written, sup, dumpcap, frame, stopping, sessions>>
    BY <1>0, <1>3, FileNumbers DEF PollLook, DaemonTypeOK
  <2> QED
    BY <1>0, <2>1 DEF FileInv, Listing, Counted, Finished, Accounted, Running
<1> QED
  BY <1>1, <1>2, <1>3

\* A final snapshot: the listing is the directory's, so everything is listed.
LEMMA FilesStopped ==
    ASSUME FilesInv, NEW s \in Sessions, FinishStop(s)
    PROVE  FileInv(s)'
<1>0. FileInv(s) /\ DaemonTypeOK /\ written[s] \in 0..MaxFiles /\ written[s] \in Nat
  BY FileNumbers DEF FilesInv, FileInv, DaemonTypeOK
<1>1. /\ Account(s, written[s], TRUE) /\ ~Running(s) /\ dumpcap[s] # "none"
      /\ UNCHANGED <<dumpcap, written, stream, saw, frame>>
  BY DEF FinishStop, FilesInv, KnownInv, Remembered
<1>2. sup'[s].highest = written[s] /\ OnDisk(written[s]) \subseteq sup'[s].closed
      /\ sup'[s].closed \subseteq sup[s].closed \cup (1..written[s])
  <2>1. written[s] <= written[s] /\ TRUE \in BOOLEAN /\ Listing(s)
    BY <1>0 DEF FileInv
  <2> QED
    BY ONLY <1>0, <1>1, <2>1, SnapshotLists
<1>3. sup'[s].active = written[s]
  BY <1>0, <1>1, AccountEffect
<1>4. Counted(s)'
  BY <1>0, <1>1, CountedAccount DEF FileInv
<1> HIDE DEF Account
<1>5. Listing(s)'
  BY <1>0, <1>1, <1>2, <1>3 DEF FileInv, Listing, Running
<1>6. Finished(s)'
  BY <1>1, <1>2 DEF Finished, Accounted
<1> QED
  BY <1>4, <1>5, <1>6 DEF FileInv

\* A poll reports the listing it took before the lock, which may be older than
\* the one of a stop in between; then the stop has accounted for everything.
LEMMA FilesReported ==
    ASSUME FilesInv, NEW s \in Sessions, PollReport(s)
    PROVE  FileInv(s)'
<1> DEFINE newest == saw[s].newest
<1>0. /\ FileInv(s) /\ DaemonTypeOK /\ newest \in 0..MaxFiles /\ newest \in Nat
      /\ written[s] \in Nat /\ saw[s].running \in BOOLEAN
      /\ sup[s].closed \in SUBSET Nat /\ sup[s].active \in Nat
  BY FileNumbers DEF FilesInv, FileInv, DaemonTypeOK
<1>1. /\ Account(s, newest, ~saw[s].running) /\ stream[s] = "report"
      /\ UNCHANGED <<dumpcap, written, saw, stopping, sessions>>
      /\ stream'[s] = "send" /\ frame'[s].running = saw[s].running
  BY <1>0 DEF PollReport, DaemonTypeOK
<1>2. /\ newest <= written[s] /\ (Running(s) => sup[s].active <= newest)
      /\ (~saw[s].running => newest = written[s])
      /\ (~saw[s].running => ~Running(s))
  BY <1>0, <1>1 DEF FileInv, Listing, FilesInv, KnownInv, Remembered
<1>3. /\ sup'[s].highest <= written[s]
      /\ sup'[s].closed \subseteq sup[s].closed \cup (1..written[s])
      /\ Running(s) => \A k \in sup'[s].closed \ sup[s].closed : k < newest
      /\ ~saw[s].running \/ Accounted(s)
         => sup'[s].highest = written[s] /\ OnDisk(written[s]) \subseteq sup'[s].closed
  BY <1>0, <1>1, <1>2, SnapshotLists DEF FileInv
<1>4. sup'[s].active = newest
  BY <1>0, <1>1, AccountEffect
<1>5. Counted(s)'
  BY <1>0, <1>1, CountedAccount DEF FileInv
<1>6. Listing(s)'
  <2>1. Running(s) => \A k \in sup'[s].closed : k < written[s]
    BY <1>0, <1>2, <1>3 DEF FileInv, Listing
  <2>2. dumpcap[s] # "none"
    BY <1>1 DEF FilesInv, KnownInv, Remembered
  <2> QED
    BY <1>0, <1>1, <1>2, <1>3, <1>4, <2>1, <2>2 DEF FileInv, Listing, Running
<1>7. Finished(s)'
  BY <1>0, <1>1, <1>3 DEF FileInv, Finished, Accounted
<1> QED
  BY <1>5, <1>6, <1>7 DEF FileInv

\* The daemon's death kills what it supervises; what has exited before stays
\* accounted for.
LEMMA FilesOutage ==
    ASSUME FilesInv, NEW s \in Sessions, CapdCrash \/ CapdRestart \/ UNCHANGED dvars
    PROVE  FileInv(s)'
<1>0. FileInv(s) /\ DaemonTypeOK
  BY DEF FilesInv, FileInv
<1>1. CASE CapdCrash
  <2>1. /\ dumpcap'[s] = (IF s \in sessions THEN "killed" ELSE dumpcap[s])
        /\ stopping'[s] # "done" \/ stopping[s] = "done"
        /\ stream'[s] = "off" /\ UNCHANGED <<written, sup, saw, frame>>
    BY <1>0, <1>1 DEF CapdCrash, DaemonTypeOK
  <2> QED
    BY <1>0, <2>1 DEF FileInv, Listing, Counted, Finished, Accounted, Running
<1>2. CASE CapdRestart \/ UNCHANGED dvars
  <2>1. SameFiles(s)
    BY <1>2 DEF CapdRestart, dvars, SameFiles
  <2> QED
    BY <1>0, <2>1, FilesElsewhere
<1> QED
  BY <1>1, <1>2

\* FilesInv is inductive for any client of capd.
LEMMA FilesStep == FilesInv /\ [DaemonNext]_dvars => FilesInv'
<1> SUFFICES ASSUME FilesInv, [DaemonNext]_dvars PROVE FilesInv'
  OBVIOUS
<1>0. DaemonTypeOK' /\ KnownInv' /\ DaemonTypeOK /\ \A q \in Sessions : FileInv(q)
  BY DaemonTypeStep, KnownStep DEF FilesInv, FileInv
<1>1. ASSUME NEW s \in Sessions,
             \/ \E i \in Interfaces : StartSession(s, i)
             \/ \E listened \in BOOLEAN : SendFrame(s, listened)
             \/ StopSession(s) \/ OpenStream(s) \/ Internal(s),
             NEW q \in Sessions
      PROVE  FileInv(q)'
  <2>1. CASE q # s
    BY <1>0, <1>1, <2>1, StepsElsewhere, FilesElsewhere
  <2>2. FileInv(s)'
    BY <1>1, FilesRequests, FilesInternal, FilesStopped, FilesReported, DaemonAssumption
       DEF Internal
  <2> QED
    BY <2>1, <2>2
<1>2. \A q \in Sessions : FileInv(q)'
  BY <1>1, FilesOutage DEF DaemonNext
<1> QED
  BY <1>0, <1>2 DEF FilesInv, FileInv

\* Nothing is listed and nothing written at first.
LEMMA FilesInitially == DaemonInit => FilesInv
<1> SUFFICES ASSUME DaemonInit, NEW s \in Sessions PROVE FileInv(s)
  BY DaemonTypeInit, KnownInit DEF FilesInv, FileInv
<1>1. /\ sup[s].closed = {} /\ sup[s].active = 0 /\ sup[s].highest = 0 /\ sup[s].lost = 0
      /\ written[s] = 0 /\ stream[s] = "off" /\ stopping[s] = "none" /\ dumpcap[s] = "none"
  BY DEF DaemonInit
<1>2. Cardinality((1..(sup[s].highest - 1)) \ sup[s].closed) = 0
  <2>1. (1..(sup[s].highest - 1)) \ sup[s].closed = {}
    BY <1>1
  <2> QED
    BY <2>1, FS_EmptySet
<1> QED
  BY <1>1, <1>2 DEF FileInv, Listing, Counted, Finished, Running

\* A file is listed only when dumpcap has left it, and when a capture has ended
\* under capd's eyes every file of it was listed or counted as lost, whatever
\* the sizes of the ring and of the traffic, and however polls and a stop
\* overlap.
THEOREM FilesAccountedFor == DaemonSpec => []FilesAccounted
<1>1. FilesInv => FilesAccounted
  <2> SUFFICES ASSUME FilesInv, NEW s \in Sessions, dumpcap[s] = "exited", s \notin sessions
               PROVE  Cardinality((1..written[s]) \ sup[s].closed) <= sup[s].lost
    BY DEF FilesAccounted, FilesInv, Listing
  <2>1. Accounted(s) /\ Counted(s) /\ written[s] \in Nat
    BY FileNumbers DEF FilesInv, Finished, DaemonTypeOK
  <2>2. written[s] > 0 => written[s] \in OnDisk(written[s])
    BY <2>1, DaemonAssumption DEF OnDisk
  <2>3. (1..written[s]) \ sup[s].closed = (1..(sup[s].highest - 1)) \ sup[s].closed
    BY <2>1, <2>2 DEF Accounted
  <2> QED
    BY <2>1, <2>3 DEF Counted
<1> QED
  BY <1>1, FilesInitially, FilesStep, PTL DEF DaemonSpec

-----------------------------------------------------------------------------
(* The web process: types, and what its hubs have scanned. *)

\* The requests that start and stop a capture keep the types.
LEMMA WebTypeRequests ==
    ASSUME TypeOK, DaemonTypeOK', NEW s \in Sessions, StartStep(s) \/ RequestStop(s) \/ StopStep(s)
    PROVE  TypeOK'
<1> USE DEF TypeOK, SetRow
<1>1. \A i \in Interfaces : Released(s)[i] \in Sessions \cup {Nobody}
  BY DEF Released
<1>2. Released(s) \in [Interfaces -> Sessions \cup {Nobody}]
  BY <1>1 DEF Released
<1>3. CASE CountSessions(s) \/ CapdStarts(s) \/ CapdRefuses(s) \/ StartSucceeds(s)
  BY <1>3 DEF CountSessions, CapdStarts, CapdRefuses, StartSucceeds
<1>4. CASE HubStarts(s) \/ StartFails(s)
  BY <1>2, <1>4 DEF HubStarts, StartFails
<1>5. ASSUME NEW i \in Interfaces, AcquireInterface(s, i) \/ InterfaceInUse(s, i)
      PROVE  TypeOK'
  BY <1>5 DEF AcquireInterface, InterfaceInUse
<1>6. CASE RequestStop(s) \/ StopReachesCapd(s) \/ StopIsRefused(s)
  BY <1>6 DEF RequestStop, StopReachesCapd, StopIsRefused
<1>7. CASE StopSucceeds(s) \/ StopFails(s)
  BY <1>2, <1>7 DEF StopSucceeds, StopFails
<1> QED
  BY <1>3, <1>4, <1>5, <1>6, <1>7 DEF StartStep, StopStep

\* So do the hub and its finalizer.
LEMMA WebTypeHub ==
    ASSUME TypeOK, DaemonTypeOK', NEW s \in Sessions, HubStep(s)
    PROVE  TypeOK'
<1> USE DEF TypeOK
<1>1. CASE HubConnects(s) \/ HubQuits(s) \/ HubLosesCapd(s) \/ FrameUnread(s)
  BY <1>1 DEF HubConnects, HubQuits, HubLosesCapd, FrameUnread, wvars
<1>2. CASE HubReads(s)
  <2>1. scanned[s] \cup (frame[s].closed \cap OnDisk(written[s])) \in SUBSET Files
    BY DEF DaemonTypeOK
  <2> QED
    BY <1>2, <2>1 DEF HubReads
<1>3. CASE HubEnds(s)
  <2>1. Released(s) \in [Interfaces -> Sessions \cup {Nobody}]
    BY DEF Released
  <2> QED
    BY <1>3, <2>1 DEF HubEnds, SetRow
<1> QED
  BY <1>1, <1>2, <1>3 DEF HubStep

\* Every step of the system keeps the types.
LEMMA TypeStep == TypeOK /\ WantInv /\ [Next]_vars => TypeOK'
<1> SUFFICES ASSUME TypeOK, WantInv, [Next]_vars PROVE TypeOK'
  OBVIOUS
<1>1. DaemonTypeOK'
  BY DaemonSteps, DaemonTypeStep DEF TypeOK
<1>2. ASSUME UNCHANGED wvars PROVE TypeOK'
  BY <1>1, <1>2 DEF wvars, TypeOK
<1>3. CASE WebRestart
  <2>1. restarts' \in 0..MaxRestarts
    BY <1>3, CaptureAssumption DEF WebRestart, TypeOK
  <2> QED
    BY <1>1, <1>3, <2>1 DEF WebRestart, TypeOK
<1>4. CASE CapdDies
  BY <1>1, <1>4 DEF CapdDies, TypeOK
<1> QED
  BY <1>1, <1>2, <1>3, <1>4, WebTypeRequests, WebTypeHub DEF Next, DaemonStep, Outage, vars

\* The web process and the daemon keep their types together.
THEOREM CaptureTypes == Spec => []TypeOK
<1>1. Init => TypeOK /\ WantInv
  BY DaemonTypeInit, CaptureAssumption DEF Init, TypeOK, WantInv
<1> QED
  BY <1>1, TypeStep, WantStep, PTL DEF Spec

\* A stopped session has left the table.  Until its hub has connected nobody
\* polls a session, so only a stop can list its files.  What a connected hub has
\* not scanned yet is in the frame that is about to be sent, unless a stop
\* listed it; and the frame that says a capture has ended is complete.
Scans(s) ==
    /\ stopping[s] = "done" => s \notin sessions
    /\ starter[s] # "done" => hub[s] = "off"
    /\ starter[s] # "done" \/ hub[s] = "connect" =>
           stream[s] = "off" /\ (stopping[s] # "done" => sup[s].closed = {})
    /\ s \in quit => stopping[s] = "done"
    /\ s \in final /\ stopping[s] # "done" => OnDisk(written[s]) \subseteq scanned[s]
    /\ hub[s] = "reading" /\ stopping[s] # "done" =>
           /\ stream[s] \in {"poll", "report"} =>
                  sup[s].closed \cap OnDisk(written[s]) \subseteq scanned[s]
           /\ stream[s] = "send" =>
                  sup[s].closed \cap OnDisk(written[s]) \subseteq scanned[s] \cup frame[s].closed

ScansInv == TypeOK /\ WantInv /\ FilesInv /\ EndedInv /\ \A s \in Sessions : Scans(s)

\* What a step of another session leaves alone in the web process.
SameHub(q) ==
    /\ starter'[q] = starter[q] /\ hub'[q] = hub[q] /\ scanned'[q] = scanned[q]
    /\ (q \in quit' <=> q \in quit) /\ (q \in final' <=> q \in final)

\* The invariant of a session reads nothing else.
LEMMA ScansElsewhere ==
    ASSUME NEW q \in Sessions, Scans(q), SameFiles(q), SameHub(q)
    PROVE  Scans(q)'
BY DEF Scans, SameFiles, SameHub, OnDisk

\* Requests and hubs of one session leave the others alone.
LEMMA HubsElsewhere ==
    ASSUME TypeOK, NEW s \in Sessions, NEW q \in Sessions \ {s},
           StartStep(s) \/ RequestStop(s) \/ StopStep(s) \/ HubStep(s) \/ DaemonStep(s)
    PROVE  SameHub(q)
<1> USE DEF SameHub, TypeOK
<1>1. CASE StartStep(s)
  BY <1>1 DEF StartStep, CountSessions, CapdStarts, CapdRefuses, StartSucceeds, HubStarts,
              StartFails, AcquireInterface, InterfaceInUse
<1>2. CASE RequestStop(s) \/ StopStep(s)
  BY <1>2 DEF RequestStop, StopStep, StopReachesCapd, StopIsRefused, StopSucceeds, StopFails
<1>3. CASE HubConnects(s) \/ HubQuits(s) \/ HubLosesCapd(s) \/ FrameUnread(s) \/ DaemonStep(s)
  BY <1>3 DEF HubConnects, HubQuits, HubLosesCapd, FrameUnread, DaemonStep, wvars
<1>4. CASE HubReads(s)
  BY <1>4 DEF HubReads
<1>5. CASE HubEnds(s)
  BY <1>5 DEF HubEnds
<1> QED
  BY <1>1, <1>2, <1>3, <1>4, <1>5 DEF HubStep

\* In the daemon they do what StepsElsewhere is about, or nothing.
LEMMA FilesOfOthers ==
    ASSUME TypeOK, WantInv, NEW s \in Sessions, NEW q \in Sessions \ {s},
           StartStep(s) \/ RequestStop(s) \/ StopStep(s) \/ HubStep(s) \/ DaemonStep(s)
    PROVE  SameFiles(q)
<1> DEFINE Own == \/ \E i \in Interfaces : StartSession(s, i)
                  \/ \E listened \in BOOLEAN : SendFrame(s, listened)
                  \/ StopSession(s) \/ OpenStream(s) \/ Internal(s)
<1>1. Own => SameFiles(q)
  BY StepsElsewhere DEF TypeOK
<1>2. UNCHANGED dvars => SameFiles(q)
  BY DEF dvars, SameFiles
<1>3. CASE StartStep(s)
  <2>1. CapdStarts(s) => \E i \in Interfaces : StartSession(s, i)
    BY DEF CapdStarts, WantInv
  <2> QED
    BY <1>1, <1>2, <1>3, <2>1
       DEF StartStep, CountSessions, CapdRefuses, StartSucceeds, HubStarts, StartFails,
           AcquireInterface, InterfaceInUse
<1>4. CASE RequestStop(s) \/ StopStep(s)
  BY <1>1, <1>2, <1>4
     DEF RequestStop, StopStep, StopReachesCapd, StopIsRefused, StopSucceeds, StopFails
<1>5. CASE HubStep(s)
  BY <1>1, <1>2, <1>5
     DEF HubStep, HubConnects, HubReads, HubQuits, HubLosesCapd, FrameUnread, HubEnds
<1>6. CASE DaemonStep(s)
  BY <1>1, <1>6 DEF DaemonStep
<1> QED
  BY <1>3, <1>4, <1>5, <1>6

\* A request to start a capture: its hub starts when the row is written.
LEMMA ScansStart ==
    ASSUME ScansInv, NEW s \in Sessions, StartStep(s)
    PROVE  Scans(s)'
<1>0. Scans(s) /\ TypeOK /\ DaemonTypeOK
  BY DEF ScansInv, TypeOK
<1> USE <1>0 DEF Scans, OnDisk, TypeOK
<1>1. CASE CapdStarts(s)
  <2>1. stopping[s] = "none"
    BY <1>1 DEF CapdStarts, StartSession, ScansInv, FilesInv, KnownInv, Remembered, DaemonTypeOK
  <2> QED
    BY <1>1, <2>1 DEF CapdStarts, StartSession
<1>2. CASE HubStarts(s)
  BY <1>2 DEF HubStarts, dvars
<1>3. CASE CountSessions(s) \/ CapdRefuses(s) \/ StartSucceeds(s) \/ StartFails(s)
           \/ \E i \in Interfaces : AcquireInterface(s, i) \/ InterfaceInUse(s, i)
  BY <1>3 DEF CountSessions, CapdRefuses, StartSucceeds, StartFails, AcquireInterface,
              InterfaceInUse, dvars
<1> QED
  BY <1>1, <1>2, <1>3 DEF StartStep

\* A request to stop one: the hub is told to end when capd has stopped.
LEMMA ScansStop ==
    ASSUME ScansInv, NEW s \in Sessions, RequestStop(s) \/ StopStep(s)
    PROVE  Scans(s)'
<1>0. Scans(s) /\ TypeOK /\ DaemonTypeOK
  BY DEF ScansInv, TypeOK
<1> USE <1>0 DEF Scans, OnDisk
<1>1. CASE RequestStop(s) \/ StopIsRefused(s) \/ StopFails(s)
  BY <1>1 DEF RequestStop, StopIsRefused, StopFails, dvars
<1>2. CASE StopReachesCapd(s)
  <2>1. stopping'[s] = "signalled" /\ stopping[s] # "done"
    BY <1>2 DEF StopReachesCapd, StopSession, DaemonTypeOK
  <2> QED
    BY <1>2, <2>1 DEF StopReachesCapd, StopSession
<1>3. CASE StopSucceeds(s)
  BY <1>3 DEF StopSucceeds, dvars
<1> QED
  BY <1>1, <1>2, <1>3 DEF StopStep

\* The hub: it connects while nothing has been listed, scans what a frame lists,
\* and the last frame completes what it has scanned.
LEMMA ScansHub ==
    ASSUME ScansInv, NEW s \in Sessions, HubStep(s)
    PROVE  Scans(s)'
<1>0. Scans(s) /\ TypeOK /\ DaemonTypeOK /\ FileInv(s)
  BY DEF ScansInv, TypeOK, FilesInv, FileInv
<1> USE <1>0
<1>1. CASE HubConnects(s)
  <2>1. CASE OpenStream(s) /\ hub' = [hub EXCEPT ![s] = "reading"]
    BY <1>1, <2>1 DEF HubConnects, OpenStream, Scans, OnDisk, TypeOK, DaemonTypeOK
  <2>2. CASE UNCHANGED dvars /\ hub'[s] \in {"hung", "ending"}
    BY <1>1, <2>2 DEF HubConnects, dvars, Scans, OnDisk
  <2> QED
    BY <1>1, <2>1, <2>2 DEF HubConnects, TypeOK
<1>2. CASE HubReads(s)
  <2>1. /\ hub[s] = "reading" /\ stream[s] = "send" /\ starter[s] = "done"
        /\ scanned'[s] = scanned[s] \cup (frame[s].closed \cap OnDisk(written[s]))
        /\ UNCHANGED <<written, sup, frame, stopping, starter, quit>>
        /\ sessions' \subseteq sessions
        /\ stream'[s] = IF frame[s].running THEN "poll" ELSE "off"
        /\ IF frame[s].running THEN UNCHANGED <<hub, final>>
           ELSE hub'[s] = "ending" /\ final' = final \cup {s}
    BY <1>2 DEF HubReads, SendFrame, Scans, TypeOK, DaemonTypeOK
  <2>2. stopping[s] # "done" => sup[s].closed \cap OnDisk(written[s]) \subseteq scanned'[s]
    BY <2>1 DEF Scans
  <2>3. ~frame[s].running => OnDisk(written[s]) \subseteq sup[s].closed
    BY <2>1 DEF FileInv, Finished, Accounted
  <2> QED
    BY <2>1, <2>2, <2>3 DEF Scans, OnDisk
<1>3. CASE HubQuits(s)
  <2>1. stopping[s] = "done" /\ hub[s] = "reading"
    BY <1>3 DEF HubQuits, Scans
  <2> QED
    BY <1>3, <2>1 DEF HubQuits, SendFrame, Scans, OnDisk, TypeOK, DaemonTypeOK
<1>4. CASE HubLosesCapd(s) \/ HubEnds(s)
  BY <1>4 DEF HubLosesCapd, HubEnds, dvars, Scans, OnDisk, TypeOK
<1>5. CASE FrameUnread(s)
  BY <1>5 DEF FrameUnread, SendFrame, wvars, Scans, OnDisk, TypeOK, DaemonTypeOK
<1> QED
  BY <1>1, <1>2, <1>3, <1>4, <1>5 DEF HubStep

\* A new file is not listed yet, and what a poll lists it puts into its frame.
LEMMA ScansDaemon ==
    ASSUME ScansInv, NEW s \in Sessions, DaemonStep(s)
    PROVE  Scans(s)'
<1>0. Scans(s) /\ TypeOK /\ DaemonTypeOK /\ FileInv(s) /\ UNCHANGED wvars
      /\ written[s] \in Nat /\ RingFiles \in Nat
      /\ UNCHANGED <<starter, hub, quit, final, scanned>>
  BY FileNumbers, DaemonAssumption
     DEF ScansInv, TypeOK, FilesInv, FileInv, DaemonStep, wvars, DaemonTypeOK
<1> USE <1>0
<1>1. CASE RotateFile(s)
  <2>1. /\ Running(s) /\ written'[s] = written[s] + 1
        /\ UNCHANGED <<sup, frame, stream, stopping, sessions>>
    BY <1>1 DEF RotateFile, DaemonTypeOK
  <2>2. s \notin final
    BY <2>1 DEF ScansInv, EndedInv, Ended, Running
  <2>3. OnDisk(written'[s]) \subseteq OnDisk(written[s]) \cup {written'[s]}
    BY <2>1 DEF OnDisk
  <2>4. written'[s] \notin sup[s].closed
    BY <2>1 DEF FileInv, Listing
  <2>5. sup[s].closed \cap OnDisk(written'[s]) \subseteq sup[s].closed \cap OnDisk(written[s])
    BY <2>3, <2>4
  <2> QED
    BY <2>1, <2>2, <2>5 DEF Scans
<1>2. CASE DumpcapExits(s)
  BY <1>2 DEF DumpcapExits, Scans, OnDisk
<1>3. CASE PollLook(s)
  BY <1>3 DEF PollLook, Scans, OnDisk, DaemonTypeOK
<1>4. CASE FinishStop(s)
  <2>1. stopping'[s] = "done" /\ s \notin sessions' /\ UNCHANGED <<stream, written>>
    BY <1>4 DEF FinishStop, DaemonTypeOK
  <2> QED
    BY <2>1 DEF Scans, OnDisk
<1>5. CASE PollReport(s)
  <2> DEFINE new == NewlyClosed(s, saw[s].newest, ~saw[s].running)
  <2>1. /\ stream[s] = "report" /\ stream'[s] = "send" /\ frame'[s].closed = new
        /\ UNCHANGED <<written, stopping, sessions>>
    BY <1>5 DEF PollReport, DaemonTypeOK
  <2>2. saw[s].newest \in 0..MaxFiles
    BY DEF DaemonTypeOK
  <2>3. sup'[s].closed = sup[s].closed \cup new
    BY <1>5, <2>2, AccountEffect DEF PollReport
  <2> HIDE DEF new
  <2> QED
    BY <2>1, <2>3 DEF Scans, OnDisk
<1> QED
  BY <1>1, <1>2, <1>3, <1>4, <1>5 DEF DaemonStep, Internal

\* capd's death ends its streams; the web's death forgets its hubs.
LEMMA ScansOutage ==
    ASSUME ScansInv, NEW s \in Sessions, Outage \/ WebRestart \/ UNCHANGED vars
    PROVE  Scans(s)'
<1>0. Scans(s) /\ TypeOK /\ DaemonTypeOK
  BY DEF ScansInv, TypeOK
<1> USE <1>0 DEF Scans, OnDisk, TypeOK, DaemonTypeOK
<1>1. CASE CapdDies
  <2>1. /\ stream'[s] = "off" /\ (stopping'[s] = "done" <=> stopping[s] = "done")
        /\ sessions' = {} /\ UNCHANGED <<written, sup, frame>>
    BY <1>1 DEF CapdCrash, CapdDies
  <2>2. hub'[s] = hub[s] \/ (hub[s] = "hung" /\ hub'[s] = "ending")
    BY <1>1 DEF CapdDies
  <2>3. UNCHANGED <<starter, scanned, quit, final>>
    BY <1>1 DEF CapdDies
  <2> QED
    BY <2>1, <2>2, <2>3
<1>2. CASE (CapdRestart /\ UNCHANGED wvars) \/ UNCHANGED vars
  BY <1>2 DEF CapdRestart, wvars, vars, dvars
<1>3. CASE WebRestart
  BY <1>3 DEF WebRestart, dvars
<1> QED
  BY <1>1, <1>2, <1>3 DEF Outage

\* ScansInv is inductive.
LEMMA ScansStep == ScansInv /\ [Next]_vars => ScansInv'
<1> SUFFICES ASSUME ScansInv, [Next]_vars PROVE ScansInv'
  OBVIOUS
<1>0. TypeOK /\ WantInv /\ [DaemonNext]_dvars /\ KnownInv /\ \A q \in Sessions : Scans(q)
  BY DaemonSteps DEF ScansInv, FilesInv
<1>1. TypeOK' /\ WantInv' /\ FilesInv' /\ EndedInv'
  BY <1>0, TypeStep, WantStep, FilesStep, EndedStep DEF ScansInv
<1>2. ASSUME NEW s \in Sessions, NEW q \in Sessions,
             StartStep(s) \/ RequestStop(s) \/ StopStep(s) \/ HubStep(s) \/ DaemonStep(s)
      PROVE  Scans(q)'
  <2>1. CASE q # s
    BY <1>0, <1>2, <2>1, FilesOfOthers, HubsElsewhere, ScansElsewhere
  <2>2. Scans(s)'
    BY <1>2, ScansStart, ScansStop, ScansHub, ScansDaemon
  <2> QED
    BY <2>1, <2>2
<1>3. \A q \in Sessions : Scans(q)'
  BY <1>2, ScansOutage DEF Next
<1> QED
  BY <1>1, <1>3 DEF ScansInv

\* A capture that ended by itself has had every file that is on disk scanned,
\* its last one included, whatever stops, crashes of capd and restarts of the
\* web process came before.
THEOREM ExpiryIsScanned == Spec => []ExpiredIsScanned
<1>1. Init => ScansInv
  <2> SUFFICES ASSUME Init PROVE ScansInv
    OBVIOUS
  <2>1. DaemonInit /\ TypeOK /\ WantInv /\ EndedInv
    BY DaemonTypeInit, CaptureAssumption DEF Init, TypeOK, WantInv, EndedInv
  <2>2. FilesInv
    BY <2>1, FilesInitially
  <2>3. \A s \in Sessions : Scans(s)
    BY DEF Init, DaemonInit, Scans
  <2> QED
    BY <2>1, <2>2, <2>3 DEF ScansInv
<1>2. ScansInv => ExpiredIsScanned
  BY DEF ScansInv, Scans, ExpiredIsScanned
<1> QED
  BY <1>1, <1>2, ScansStep, PTL DEF Spec

=============================================================================

------------------------- MODULE ScanRecoveryProofs -------------------------
(* Theorems about ScanRecovery, for every number of workers, runs and pids. *)
EXTENDS ScanRecovery, FiniteSetTheorems, TLAPS

\* The initial values are of their types.
LEMMA TypeInit == Init => TypeOK
BY ConstantsAssumption DEF Init, TypeOK, Row, Child, ThreadPC, JobPC, Terminal

\* Changing one entry of a function keeps its type.
LEMMA Updated ==
    ASSUME NEW S, NEW T, NEW f \in [S -> T], NEW x \in S, NEW y \in T
    PROVE  [f EXCEPT ![x] = y] \in [S -> T]
OBVIOUS

\* The same for a table of tables, such as job and watched.
LEMMA Updated2 ==
    ASSUME NEW S, NEW S2, NEW T, NEW f \in [S -> [S2 -> T]],
           NEW x \in S, NEW x2 \in S2, NEW y \in T
    PROVE  [f EXCEPT ![x][x2] = y] \in [S -> [S2 -> T]]
OBVIOUS

\* The records of the row and of the child stay records of their kind.
LEMMA ChildTyped ==
    ASSUME TypeOK, NEW r \in Runs
    PROVE  /\ child[r] \in Child
           /\ \A st \in {"live", "ok", "err"} : [child[r] EXCEPT !.st = st] \in Child
           /\ \A p \in Pids : [st |-> "live", pid |-> p, n |-> child[r].n + 1] \in Child
<1>1. child[r] \in Child
  BY DEF TypeOK
<1>2. child[r].n + 1 \in Nat
  BY <1>1 DEF Child
<1> QED
  BY <1>1, <1>2 DEF Child

\* A row stays a row whatever one writer changes in it: status, recovery
\* state, pid or the degraded flag.
LEMMA RowTyped ==
    ASSUME TypeOK, NEW r \in Runs,
           NEW recovery \in {"null", "claimed", "finalizing", "reattached",
                             "reaped_completed", "reaped_failed", "reaped_abandoned"},
           NEW status \in {"running"} \cup Terminal,
           NEW p \in Pids \cup {NoPid}
    PROVE  /\ row[r] \in Row /\ row[r].pid \in Pids \cup {NoPid} /\ row[r].degraded \in BOOLEAN
           /\ [row[r] EXCEPT !.recovery = recovery] \in Row
           /\ [row[r] EXCEPT !.pid = p] \in Row
           /\ [row[r] EXCEPT !.status = status, !.recovery = recovery, !.pid = p] \in Row
<1>1. row[r] \in Row
  BY DEF TypeOK
<1> QED
  BY <1>1 DEF Row

\* What _finalize_scan_history writes is a row.
LEMMA FinalizedRowTyped ==
    ASSUME TypeOK, NEW r \in Runs
    PROVE  FinalizedRow(r) \in Row
<1>1. row[r] \in Row
  BY DEF TypeOK
<1> QED
  BY <1>1 DEF FinalizedRow, Row, Terminal

\* A thread that goes to a place of the table stays in the table.
LEMMA ThreadTyped ==
    ASSUME TypeOK, NEW r \in Runs, NEW pc \in ThreadPC, Goto(r, pc)
    PROVE  thread' \in [Runs -> ThreadPC]
<1>1. thread \in [Runs -> ThreadPC]
  BY DEF TypeOK
<1> QED
  BY <1>1, Updated DEF Goto

\* A row that is replaced by a row, or left alone, leaves the table typed.
LEMMA TableTyped ==
    ASSUME TypeOK, NEW r \in Runs, NEW new \in Row,
           SetRow(r, new) \/ UNCHANGED row
    PROVE  row' \in [Runs -> Row]
<1>1. row \in [Runs -> Row]
  BY DEF TypeOK
<1> QED
  BY <1>1, Updated DEF SetRow

\* Launching a scan keeps the types.
LEMMA TypeStart ==
    ASSUME TypeOK, NEW r \in Runs,
           (\E w \in Workers : ReserveScanSlot(w, r)) \/ StartStep(r)
    PROVE  TypeOK'
<1> USE DEF Goto, SetRow, durable, os, serving, reaping
<1>1. ASSUME NEW w \in Workers, ReserveScanSlot(w, r) PROVE TypeOK'
  BY <1>1 DEF ReserveScanSlot, TypeOK, ThreadPC
<1>2. CASE LaunchEngine(r)
  <2>1. child' \in [Runs -> Child]
    <3>1. child \in [Runs -> Child]
      BY DEF TypeOK
    <3>2. CASE UNCHANGED child
      BY <3>1, <3>2
    <3>3. ASSUME NEW p \in Pids,
                 child' = [child EXCEPT ![r] = [st |-> "live", pid |-> p, n |-> @.n + 1]]
          PROVE  child' \in [Runs -> Child]
      BY <3>1, <3>3, ChildTyped, Updated
    <3> QED
      BY <1>2, <3>2, <3>3 DEF LaunchEngine, Spawn, FreePids
  <2>2. thread' \in [Runs -> ThreadPC]
    <3>1. \E pc \in ThreadPC : Goto(r, pc)
      BY <1>2 DEF LaunchEngine, ThreadPC
    <3> QED
      BY <3>1, ThreadTyped
  <2> QED
    BY <1>2, <2>1, <2>2 DEF LaunchEngine, TypeOK
<1>3. CASE LaunchFails(r)
  BY <1>3 DEF LaunchFails, TypeOK, ThreadPC
<1>4. CASE Register(r)
  BY <1>4 DEF Register, TypeOK, ThreadPC
<1>5. CASE RecordStart(r)
  <2>1. child[r].pid \in Pids \cup {NoPid}
    BY ChildTyped DEF Child
  <2>2. row' \in [Runs -> Row]
    <3>1. \A p \in Pids \cup {NoPid} :
             [row[r] EXCEPT !.status = "running", !.recovery = "null", !.pid = p] \in Row
      BY RowTyped
    <3>2. \E new \in Row : SetRow(r, new)
      BY <1>5, <2>1, <3>1 DEF RecordStart
    <3> QED
      BY <3>2, TableTyped
  <2>3. thread' \in [Runs -> ThreadPC]
    <3>1. \E pc \in ThreadPC : Goto(r, pc)
      BY <1>5 DEF RecordStart, ThreadPC
    <3> QED
      BY <3>1, ThreadTyped
  <2> QED
    BY <1>5, <2>2, <2>3 DEF RecordStart, TypeOK
<1>6. CASE RecordStartFails(r)
  BY <1>6 DEF RecordStartFails, TypeOK, ThreadPC
<1> QED
  BY <1>1, <1>2, <1>3, <1>4, <1>5, <1>6 DEF StartStep

\* So does the thread that serves it.
LEMMA TypeReader ==
    ASSUME TypeOK, NEW r \in Runs, ReaderStep(r)
    PROVE  TypeOK'
<1> USE DEF Goto, SetRow, durable, os, serving, reaping
<1>1. CASE SpawnChild(r)
  <2>1. child' \in [Runs -> Child]
    <3>1. child \in [Runs -> Child]
      BY DEF TypeOK
    <3>2. ASSUME NEW p \in Pids,
                 child' = [child EXCEPT ![r] = [st |-> "live", pid |-> p, n |-> @.n + 1]]
          PROVE  child' \in [Runs -> Child]
      BY <3>1, <3>2, ChildTyped, Updated
    <3> QED
      BY <1>1, <3>2 DEF SpawnChild, Spawn, FreePids
  <2> QED
    BY <1>1, <2>1 DEF SpawnChild, TypeOK, ThreadPC
<1>2. CASE NextChild(r) \/ AdoptChild(r) \/ ChunkingEnds(r)
  <2>1. \E pc \in ThreadPC : Goto(r, pc)
    BY <1>2 DEF NextChild, AdoptChild, ChunkingEnds, ThreadPC
  <2>2. thread' \in [Runs -> ThreadPC]
    BY <2>1, ThreadTyped
  <2> QED
    BY <1>2, <2>2 DEF NextChild, AdoptChild, ChunkingEnds, TypeOK
<1>3. CASE UpdatePid(r)
  <2>1. child[r].pid \in Pids \cup {NoPid}
    BY ChildTyped DEF Child
  <2>2. row' \in [Runs -> Row]
    <3>1. row \in [Runs -> Row]
      BY DEF TypeOK
    <3>2. [row[r] EXCEPT !.pid = child[r].pid] \in Row
      BY <2>1, <3>1 DEF Row
    <3> QED
      BY <1>3, <3>1, <3>2, Updated DEF UpdatePid
  <2> QED
    BY <1>3, <2>2 DEF UpdatePid, TypeOK, ThreadPC
<1>4. CASE ChildExited(r)
  BY <1>4 DEF ChildExited, TypeOK, ThreadPC
<1>5. CASE FinalizeRun(r)
  <2>1. row' \in [Runs -> Row]
    <3>1. \E new \in Row : SetRow(r, new) \/ UNCHANGED row
      BY <1>5, RowTyped DEF FinalizeRun
    <3> QED
      BY <3>1, TableTyped
  <2>2. thread' \in [Runs -> ThreadPC]
    <3>1. \E pc \in ThreadPC : Goto(r, pc)
      BY <1>5 DEF FinalizeRun, ThreadPC
    <3> QED
      BY <3>1, ThreadTyped
  <2> QED
    BY <1>5, <2>1, <2>2 DEF FinalizeRun, TypeOK
<1>6. CASE EnrichRun(r)
  BY <1>6 DEF EnrichRun, PluginsRun, TypeOK, ThreadPC
<1>7. CASE FinalizeScanHistory(r)
  <2>1. row' \in [Runs -> Row]
    <3>1. \E new \in Row : SetRow(r, new) \/ UNCHANGED row
      BY <1>7, FinalizedRowTyped DEF FinalizeScanHistory
    <3> QED
      BY <3>1, TableTyped
  <2>2. thread' \in [Runs -> ThreadPC]
    <3>1. \E pc \in ThreadPC : Goto(r, pc)
      BY <1>7 DEF FinalizeScanHistory, ThreadPC
    <3> QED
      BY <3>1, ThreadTyped
  <2> QED
    BY <1>7, <2>1, <2>2 DEF FinalizeScanHistory, TypeOK
<1>8. CASE Deliver(r)
  BY <1>8 DEF Deliver, TypeOK, ThreadPC
<1> QED
  BY <1>1, <1>2, <1>3, <1>4, <1>5, <1>6, <1>7, <1>8 DEF ReaderStep

\* So do stop requests, engines and the rest of the environment.
LEMMA TypeEnvironment ==
    ASSUME TypeOK,
           \/ \E r \in Runs : StopStep(r) \/ EngineStep(r)
           \/ Environment
    PROVE  TypeOK'
<1> USE DEF durable, os, serving, reaping
<1>1. ASSUME NEW r \in Runs, RequestStop(r) PROVE TypeOK'
  BY <1>1 DEF RequestStop, TypeOK
<1>2. ASSUME NEW r \in Runs, TerminateProcess(r) PROVE TypeOK'
  <2>1. child' \in [Runs -> Child]
    <3>1. child \in [Runs -> Child]
      BY DEF TypeOK
    <3>2. ASSUME NEW st \in {"ok", "err"}, child' = [child EXCEPT ![r].st = st]
          PROVE  child' \in [Runs -> Child]
      BY <3>1, <3>2, ChildTyped, Updated
    <3> QED
      BY <1>2, <3>1, <3>2 DEF TerminateProcess
  <2> QED
    BY <1>2, <2>1 DEF TerminateProcess, TypeOK
<1>3. ASSUME NEW r \in Runs, EngineStep(r) PROVE TypeOK'
  <2>1. child' \in [Runs -> Child]
    <3>1. child \in [Runs -> Child]
      BY DEF TypeOK
    <3>2. ASSUME NEW st \in {"ok", "err"}, child' = [child EXCEPT ![r].st = st]
          PROVE  child' \in [Runs -> Child]
      BY <3>1, <3>2, ChildTyped, Updated
    <3> QED
      BY <1>3, <3>1, <3>2 DEF EngineStep, EngineSaves, EngineExits
  <2> QED
    BY <1>3, <2>1 DEF EngineStep, EngineSaves, EngineExits, TypeOK
<1>4. ASSUME NEW r \in Runs, DeadlinePasses(r) PROVE TypeOK'
  BY <1>4 DEF DeadlinePasses, TypeOK
<1>5. ASSUME NEW p \in Pids, StrangerComes(p) \/ StrangerLeaves(p) PROVE TypeOK'
  BY <1>5 DEF StrangerComes, StrangerLeaves, TypeOK
<1>6. ASSUME NEW W \in SUBSET Workers, Crash(W) PROVE TypeOK'
  BY <1>6, ConstantsAssumption DEF Crash, TypeOK, ThreadPC, JobPC
<1> QED
  BY <1>1, <1>2, <1>3, <1>4, <1>5, <1>6 DEF StopStep, Environment, Restart

\* The reaper's place with a run is one of the table.
LEMMA JobTyped ==
    ASSUME TypeOK, NEW w \in Workers, NEW r \in Runs, NEW pc \in JobPC
    PROVE  [job EXCEPT ![w][r] = pc] \in [Workers -> [Runs -> JobPC]]
BY DEF TypeOK

\* So do the reaper and its watchers.
LEMMA TypeJob ==
    ASSUME TypeOK, NEW w \in Workers, NEW r \in Runs, JobStep(w, r)
    PROVE  TypeOK'
<1> USE DEF SetJob, EndJob, SetRow, durable, os, serving, reaping
<1>pc. \A pc \in JobPC : [job EXCEPT ![w][r] = pc] \in [Workers -> [Runs -> JobPC]]
  BY JobTyped
<1>row. \A recovery \in {"claimed", "reattached", "reaped_completed",
                          "reaped_failed", "reaped_abandoned"} :
          /\ [row[r] EXCEPT !.recovery = recovery] \in Row
          /\ \A status \in Terminal :
                [row[r] EXCEPT !.status = status, !.recovery = recovery, !.pid = NoPid] \in Row
  BY RowTyped DEF Terminal
<1>1. CASE ClaimForRecovery(w, r)
  <2>1. row' \in [Runs -> Row]
    <3>1. \E new \in Row : SetRow(r, new) \/ UNCHANGED row
      BY <1>1, <1>row DEF ClaimForRecovery
    <3> QED
      BY <3>1, TableTyped
  <2>2. job' \in [Workers -> [Runs -> JobPC]]
    <3>1. job \in [Workers -> [Runs -> JobPC]]
      BY DEF TypeOK
    <3>2. \/ \E pc \in JobPC : job' = [job EXCEPT ![w][r] = pc]
          \/ UNCHANGED job
      BY <1>1 DEF ClaimForRecovery, JobPC
    <3> QED
      BY <3>1, <3>2, <1>pc
  <2>3. todo' \in [Workers -> SUBSET Runs]
    <3>1. todo \in [Workers -> SUBSET Runs] /\ todo[w] \ {r} \in SUBSET Runs
      BY DEF TypeOK
    <3> QED
      BY <1>1, <3>1, Updated DEF ClaimForRecovery
  <2>4. cur' \in [Workers -> Runs \cup {Nobody}]
    BY <1>1 DEF ClaimForRecovery, TypeOK
  <2> QED
    BY <1>1, <2>1, <2>2, <2>3, <2>4 DEF ClaimForRecovery, TypeOK
<1>2. CASE ReclaimFinalizing(w, r)
  <2>1. row' \in [Runs -> Row]
    BY <1>2, <1>row DEF ReclaimFinalizing, TypeOK
  <2>2. job' \in [Workers -> [Runs -> JobPC]]
    BY <1>2, <1>pc DEF ReclaimFinalizing, JobPC
  <2>3. cur' \in [Workers -> Runs \cup {Nobody}]
    BY <1>2 DEF ReclaimFinalizing, TypeOK
  <2> QED
    BY <1>2, <2>1, <2>2, <2>3 DEF ReclaimFinalizing, TypeOK
<1>3. CASE ProbeEngine(w, r)
  <2>1. row[r].pid \in Pids \cup {NoPid}
    BY DEF TypeOK, Row
  <2>2. watched' \in [Workers -> [Runs -> Pids \cup {NoPid}]]
    <3>1. watched \in [Workers -> [Runs -> Pids \cup {NoPid}]]
      BY DEF TypeOK
    <3>2. [watched EXCEPT ![w][r] = row[r].pid] \in [Workers -> [Runs -> Pids \cup {NoPid}]]
      BY <2>1, <3>1, Updated2
    <3> QED
      BY <1>3, <3>1, <3>2 DEF ProbeEngine
  <2>3. job' \in [Workers -> [Runs -> JobPC]]
    BY <1>3, <1>pc DEF ProbeEngine, JobPC
  <2>4. cur' \in [Workers -> Runs \cup {Nobody}]
    BY <1>3 DEF ProbeEngine, TypeOK
  <2> QED
    BY <1>3, <2>2, <2>3, <2>4 DEF ProbeEngine, TypeOK
<1>4. CASE PollEngine(w, r)
  BY <1>4 DEF PollEngine, TypeOK, JobPC
<1>5. CASE JudgeReport(w, r)
  <2>1. job' \in [Workers -> [Runs -> JobPC]]
    BY <1>5, <1>pc DEF JudgeReport, JobPC
  <2> QED
    BY <1>5, <2>1 DEF JudgeReport, TypeOK
<1>6. CASE EnrichReport(w, r)
  BY <1>6 DEF EnrichReport, PluginsRun, TypeOK, JobPC
<1>f. ASSUME NEW status \in Terminal, NEW then \in {"deliver", "none"},
            NEW recovery \in {"reattached", "reaped_completed",
                              "reaped_failed", "reaped_abandoned"},
            RecordFinish(w, r, status, recovery, then)
      PROVE TypeOK'
  <2>1. row' \in [Runs -> Row]
    <3>1. row \in [Runs -> Row]
      BY DEF TypeOK
    <3>2. [row[r] EXCEPT !.status = status, !.recovery = recovery, !.pid = NoPid] \in Row
      BY <3>1 DEF Row, Terminal
    <3> QED
      BY <1>f, <3>1, <3>2, Updated DEF RecordFinish
  <2>2. job' \in [Workers -> [Runs -> JobPC]]
    BY <1>f, <1>pc DEF RecordFinish, JobPC
  <2>3. cur' \in [Workers -> Runs \cup {Nobody}]
    BY <1>f DEF RecordFinish, TypeOK
  <2> QED
    BY <1>f, <2>1, <2>2, <2>3 DEF RecordFinish, TypeOK
<1>7. CASE FinishCompleted(w, r)
  BY <1>7, <1>f DEF FinishCompleted, Terminal
<1>8. CASE FinishFailed(w, r)
  BY <1>8, <1>f DEF FinishFailed, Terminal
<1>9. CASE DeliverFinished(w, r)
  BY <1>9 DEF DeliverFinished, TypeOK, JobPC
<1> QED
  BY <1>1, <1>2, <1>3, <1>4, <1>5, <1>6, <1>7, <1>8, <1>9 DEF JobStep

\* So does a worker that walks through create_app().
LEMMA TypeBoot ==
    ASSUME TypeOK, NEW w \in Workers, BootStep(w)
    PROVE  TypeOK'
<1> USE DEF durable, os, serving, reaping
<1>1. CASE Boot(w)
  <2>1. /\ todo' \in [Workers -> SUBSET Runs]
        /\ late' \in [Workers -> SUBSET Runs]
        /\ phase' \in [Workers -> {"down", "boot", "serve"}]
    BY <1>1 DEF Boot, TypeOK
  <2> QED
    BY <1>1, <2>1 DEF Boot, TypeOK
<1>2. CASE Booted(w)
  BY <1>2 DEF Booted, TypeOK
<1> QED
  BY <1>1, <1>2 DEF BootStep

\* The type invariant is inductive: one case per kind of step.
LEMMA TypeStep == TypeOK /\ [Next]_vars => TypeOK'
<1> SUFFICES ASSUME TypeOK, [Next]_vars PROVE TypeOK'
  OBVIOUS
<1>1. CASE UNCHANGED vars
  BY <1>1 DEF TypeOK, vars, durable, os, serving, reaping
<1>2. CASE Next
  <2>1. ASSUME NEW w \in Workers, NEW r \in Runs, ReserveScanSlot(w, r) \/ JobStep(w, r)
        PROVE  TypeOK'
    BY <2>1, TypeStart, TypeJob
  <2>2. ASSUME NEW r \in Runs, StartStep(r)
        PROVE  TypeOK'
    BY <2>2, TypeStart
  <2>3. ASSUME NEW r \in Runs, ReaderStep(r)
        PROVE  TypeOK'
    BY <2>3, TypeReader
  <2>4. ASSUME NEW w \in Workers, BootStep(w)
        PROVE  TypeOK'
    BY <2>4, TypeBoot
  <2> QED
    BY <1>2, <2>1, <2>2, <2>3, <2>4, TypeEnvironment DEF Next
<1> QED
  BY <1>1, <1>2

\* Type correctness, in every deployment.
THEOREM TypeCorrect == Spec => []TypeOK
BY TypeInit, TypeStep, PTL DEF Spec

-----------------------------------------------------------------------------
(* A completed run has a finished report, in every deployment.              *)

\* No run has been launched, so none has a verdict without a report.
LEMMA ReportInit == Init => ReportInv
BY ConstantsAssumption
   DEF Init, ReportInv, NotYetLaunched, SeenComplete, CompletedHasReport, Serving, Terminal

\* api_scan_start launches a run whose id is new and writes no verdict.
LEMMA ReportStart ==
    ASSUME TypeOK, ReportInv, NEW r \in Runs,
           (\E w \in Workers : ReserveScanSlot(w, r)) \/ StartStep(r)
    PROVE  ReportInv'
<1> USE DEF Goto, SetRow, durable, os, serving, reaping,
            ReportInv, NotYetLaunched, SeenComplete, CompletedHasReport, Serving, LastChild
<1>1. ASSUME NEW w \in Workers, ReserveScanSlot(w, r) PROVE ReportInv'
  BY <1>1 DEF ReserveScanSlot, TypeOK
<1>2. CASE LaunchEngine(r)
  BY <1>2 DEF LaunchEngine, Spawn, TypeOK, Child
<1>3. CASE LaunchFails(r)
  BY <1>3 DEF LaunchFails, TypeOK
<1>4. CASE Register(r)
  BY <1>4 DEF Register, TypeOK
<1>5. CASE RecordStart(r)
  BY <1>5 DEF RecordStart, TypeOK, Row
<1>6. CASE RecordStartFails(r)
  BY <1>6 DEF RecordStartFails, TypeOK
<1> QED
  BY <1>1, <1>2, <1>3, <1>4, <1>5, <1>6 DEF StartStep

\* The reader writes "completed" only after an exit with 0 that no stop
\* request explains, and the engine exits with 0 only when its report is done.
LEMMA ReportReader ==
    ASSUME TypeOK, ReportInv, NEW r \in Runs, ReaderStep(r)
    PROVE  ReportInv'
<1> USE DEF Goto, SetRow, durable, os, serving, reaping,
            ReportInv, NotYetLaunched, SeenComplete, CompletedHasReport, Serving, LastChild
<1>1. CASE SpawnChild(r)
  <2>1. /\ thread[r] = "popen" /\ thread' = [thread EXCEPT ![r] = "adopt"]
        /\ \A q \in Runs \ {r} : child'[q] = child[q]
    BY <1>1 DEF SpawnChild, Spawn, TypeOK
  <2>2. UNCHANGED <<row, complete, kind, stop, job>>
    BY <1>1 DEF SpawnChild
  <2>3. child'[r].st = "live" /\ child'[r].n = child[r].n + 1
    BY <1>1 DEF SpawnChild, Spawn, TypeOK
  <2> QED
    BY <1>1, <2>1, <2>2, <2>3 DEF SpawnChild, TypeOK, Child
<1>2. CASE NextChild(r) \/ AdoptChild(r) \/ ChunkingEnds(r)
  <2>1. PICK pc \in {"popen", "spawned", "rcErr"} :
           /\ thread[r] \in {"between", "popen", "adopt"}
           /\ thread' = [thread EXCEPT ![r] = pc]
    BY <1>2 DEF NextChild, AdoptChild, ChunkingEnds
  <2>2. UNCHANGED <<row, complete, child, kind, stop, job>>
    BY <1>2 DEF NextChild, AdoptChild, ChunkingEnds
  <2>3. thread \in [Runs -> ThreadPC] /\ \A q \in Runs : q # r => thread'[q] = thread[q]
    BY <2>1 DEF TypeOK
  <2> QED
    BY <2>1, <2>2, <2>3
<1>3. CASE UpdatePid(r)
  <2>1. thread[r] = "spawned" /\ thread' = [thread EXCEPT ![r] = "read"]
    BY <1>3 DEF UpdatePid
  <2>2. UNCHANGED <<complete, child, kind, stop, job>>
    BY <1>3 DEF UpdatePid
  <2>3. \A q \in Runs : row'[q].status = row[q].status
    <3>1. row \in [Runs -> Row]
      BY DEF TypeOK
    <3>2. UNCHANGED row \/ row' = [row EXCEPT ![r] = [row[r] EXCEPT !.pid = child[r].pid]]
      BY <1>3 DEF UpdatePid
    <3> QED
      BY <3>1, <3>2 DEF Row
  <2>4. NotYetLaunched'
    BY <2>1, <2>2, <2>3 DEF TypeOK
  <2>5. SeenComplete'
    BY <2>1, <2>2 DEF TypeOK
  <2>6. CompletedHasReport'
    BY <2>2, <2>3
  <2> QED
    BY <2>4, <2>5, <2>6 DEF ReportInv
<1>4. CASE ChildExited(r)
  <2>1. PICK pc \in {"rcOk", "rcErr", "between"} :
           /\ thread[r] = "read" /\ thread' = [thread EXCEPT ![r] = pc]
           /\ pc = "rcOk" => child[r].st = "ok" /\ LastChild(r)
           /\ pc = "between" => ~LastChild(r)
    BY <1>4 DEF ChildExited
  <2>2. UNCHANGED <<row, complete, child, kind, stop, job>>
    BY <1>4 DEF ChildExited
  <2> QED
    BY <2>1, <2>2 DEF TypeOK
<1>5. CASE FinalizeRun(r)
  <2>1. PICK pc \in {"saveStopped", "enrich", "saveFailed"} :
           /\ thread[r] \in {"rcOk", "rcErr"} /\ thread' = [thread EXCEPT ![r] = pc]
           /\ pc = "enrich" => thread[r] = "rcOk" /\ stop[r] = "no"
    BY <1>5 DEF FinalizeRun
  <2>2. UNCHANGED <<complete, child, kind, stop, job>>
    BY <1>5 DEF FinalizeRun
  <2>3. \A q \in Runs : row'[q].status = row[q].status
    <3>1. row \in [Runs -> Row]
      BY DEF TypeOK
    <3>2. \/ UNCHANGED row
          \/ row' = [row EXCEPT ![r] = [row[r] EXCEPT !.recovery = "finalizing"]]
      <4>1. row[r] = row[r] /\ row = [row EXCEPT ![r] = row[r]]
        BY <3>1
      <4> QED
        BY <1>5, <4>1 DEF FinalizeRun
    <3>3. \A q \in Runs : row[q] \in Row
      BY <3>1
    <3>4. ASSUME NEW q \in Runs PROVE row'[q] = row[q] \/ row'[q] = [row[q] EXCEPT !.recovery = "finalizing"]
      BY <3>1, <3>2
    <3> QED
      BY <3>3, <3>4 DEF Row
  <2>4. NotYetLaunched'
    BY <2>1, <2>2, <2>3 DEF TypeOK
  <2>5. SeenComplete'
    BY <2>1, <2>2 DEF TypeOK
  <2>6. CompletedHasReport'
    BY <2>2, <2>3
  <2> QED
    BY <2>4, <2>5, <2>6 DEF ReportInv
<1>6. CASE EnrichRun(r)
  BY <1>6 DEF EnrichRun, PluginsRun, TypeOK
<1>7. CASE FinalizeScanHistory(r)
  <2>1. PICK pc \in {"deliver", "done"} :
           /\ thread[r] \in {"saveCompleted", "saveFailed", "saveStopped"}
           /\ thread' = [thread EXCEPT ![r] = pc]
    BY <1>7 DEF FinalizeScanHistory
  <2>2. UNCHANGED <<complete, child, kind, stop, job>>
    BY <1>7 DEF FinalizeScanHistory
  <2>3. \A q \in Runs : row'[q].status = "completed" => row[q].status = "completed" \/ complete[q]
    <3>1. \/ UNCHANGED row
          \/ row' = [row EXCEPT ![r] = FinalizedRow(r)]
      BY <1>7 DEF FinalizeScanHistory
    <3>2. FinalizedRow(r).status = "completed" => thread[r] = "saveCompleted"
      <4>1. row[r] \in Row
        BY DEF TypeOK
      <4> QED
        BY <4>1 DEF FinalizedRow, Row
    <3>3. thread[r] = "saveCompleted" => complete[r]
      OBVIOUS
    <3>4. row \in [Runs -> Row]
      BY DEF TypeOK
    <3> QED
      BY <3>1, <3>2, <3>3, <3>4
  <2> QED
    BY <2>1, <2>2, <2>3 DEF TypeOK
<1>8. CASE Deliver(r)
  BY <1>8 DEF Deliver, TypeOK
<1> QED
  BY <1>1, <1>2, <1>3, <1>4, <1>5, <1>6, <1>7, <1>8 DEF ReaderStep

\* Engines, stop requests, crashes and strangers write no verdict; a stop
\* request leaves a mark the reader will see.
LEMMA ReportEnvironment ==
    ASSUME TypeOK, ReportInv,
           \/ \E r \in Runs : StopStep(r) \/ EngineStep(r)
           \/ Environment
    PROVE  ReportInv'
<1> USE DEF durable, os, serving, reaping,
            ReportInv, NotYetLaunched, SeenComplete, CompletedHasReport, Serving, LastChild
<1>1. ASSUME NEW r \in Runs, RequestStop(r) PROVE ReportInv'
  BY <1>1 DEF RequestStop, Working, TypeOK
<1>2. ASSUME NEW r \in Runs, TerminateProcess(r) PROVE ReportInv'
  <2>1. /\ stop[r] = "flagged"
        /\ \E st \in {"acked", "missed"} : stop' = [stop EXCEPT ![r] = st]
        /\ UNCHANGED <<row, complete, kind, thread, job>>
    BY <1>2 DEF TerminateProcess
  <2>2. \A q \in Runs :
           /\ q # r => child'[q] = child[q]
           /\ thread[q] \in {"none", "launch", "register"} => child'[q] = child[q]
           /\ child'[q].n = child[q].n
    BY <1>2 DEF TerminateProcess, HasProcess, Live, TypeOK, Child
  <2> QED
    BY <2>1, <2>2 DEF TypeOK
<1>3. ASSUME NEW r \in Runs, EngineSaves(r) PROVE ReportInv'
  BY <1>3 DEF EngineSaves, TypeOK
<1>4. ASSUME NEW r \in Runs, EngineExits(r) PROVE ReportInv'
  <2>1. /\ child[r].st = "live"
        /\ UNCHANGED <<row, complete, kind, thread, stop, job>>
    BY <1>4 DEF EngineExits, Live
  <2>2. \A q \in Runs :
           /\ q # r => child'[q] = child[q]
           /\ child'[q].n = child[q].n
    BY <1>4 DEF EngineExits, TypeOK, Child
  <2>3. child'[r].st = "ok" /\ LastChild(r) => complete[r]
    BY <1>4 DEF EngineExits, TypeOK, Child
  <2>4. NotYetLaunched' /\ CompletedHasReport'
    BY <2>1, <2>2
  <2>5. SeenComplete'
    BY <2>1, <2>2, <2>3
  <2> QED
    BY <2>4, <2>5
<1>5. ASSUME NEW r \in Runs, DeadlinePasses(r) PROVE ReportInv'
  BY <1>5 DEF DeadlinePasses, TypeOK
<1>6. ASSUME NEW p \in Pids, StrangerComes(p) \/ StrangerLeaves(p) PROVE ReportInv'
  BY <1>6 DEF StrangerComes, StrangerLeaves, TypeOK
<1>7. ASSUME NEW W \in SUBSET Workers, Crash(W) PROVE ReportInv'
  BY <1>7 DEF Crash, TypeOK
<1> QED
  BY <1>1, <1>2, <1>3, <1>4, <1>5, <1>6, <1>7 DEF StopStep, EngineStep, Environment, Restart

\* What a step of w's reaper or watcher for r does to the row, the deliveries
\* and the jobs.
Judging == {"probe", "judge", "rejudge", "poll", "gone", "enrich"}
Judged == {"poll", "judge", "gone", "failReaped", "failAbandoned", "failReattached",
           "enrich", "finish"}
Failing == {"failReaped", "failAbandoned", "failReattached"}

GivesUp(w, r) ==
    /\ job[w][r] # "none" \/ (phase[w] = "boot" /\ r \in todo[w])
    /\ job'[w][r] \in {"none", "reclaim", job[w][r]}
    /\ UNCHANGED <<row, delivered>>

Claims(w, r) ==
    /\ Running(r) /\ row[r].recovery # "claimed"
    /\ job[w][r] = "reclaim" \/ (phase[w] = "boot" /\ r \in todo[w])
    /\ row'[r].status = "running" /\ row'[r].recovery = "claimed"
    /\ job'[w][r] \in {"probe", "rejudge"}
    /\ UNCHANGED delivered

Judges(w, r) ==
    /\ job[w][r] \in Judging /\ job'[w][r] \in Judged
    /\ job'[w][r] = "enrich" => complete[r]
    /\ job'[w][r] = "finish" => job[w][r] = "enrich"
    /\ UNCHANGED <<row, delivered>>

Writes(w, r) ==
    /\ job[w][r] \in {"finish"} \cup Failing
    /\ \/ job[w][r] = "finish" /\ row'[r].status = "completed" /\ job'[w][r] = "deliver"
       \/ job[w][r] \in Failing /\ row'[r].status = "failed" /\ job'[w][r] = "none"
    /\ UNCHANGED delivered

Delivers(w, r) ==
    /\ job[w][r] = "deliver" /\ job'[w][r] = "none"
    /\ delivered' = [delivered EXCEPT ![r] = @ + 1]
    /\ UNCHANGED row

JobEffect(w, r) ==
    /\ UNCHANGED <<complete, os, serving, phase>>
    /\ \A q \in Runs : q # r => row'[q] = row[q]
    /\ \A v \in Workers, q \in Runs : v # w \/ q # r => job'[v][q] = job[v][q]
    /\ \A v \in Workers : todo'[v] \subseteq todo[v]
    /\ GivesUp(w, r) \/ Claims(w, r) \/ Judges(w, r) \/ Writes(w, r) \/ Delivers(w, r)

\* Every step of the reaper or of a watcher has one of the effects above.
LEMMA JobOutcome ==
    ASSUME TypeOK, NEW w \in Workers, NEW r \in Runs, JobStep(w, r)
    PROVE  JobEffect(w, r)
<1> USE DEF SetJob, EndJob, SetRow, durable, os, serving, reaping, JobEffect
<1>ty. /\ row \in [Runs -> Row] /\ job \in [Workers -> [Runs -> JobPC]]
       /\ todo \in [Workers -> SUBSET Runs]
  BY DEF TypeOK
<1>1. CASE ClaimForRecovery(w, r)
  <2>1. /\ phase[w] = "boot" /\ r \in todo[w]
        /\ UNCHANGED <<delivered, complete, os, serving, phase>>
        /\ \A v \in Workers : todo'[v] \subseteq todo[v]
    BY <1>1, <1>ty DEF ClaimForRecovery
  <2>2. CASE Claimable(r, "null") /\ SetRow(r, [row[r] EXCEPT !.recovery = "claimed"])
             /\ SetJob(w, r, "probe")
    <3>1. Claims(w, r)
      BY <1>ty, <2>1, <2>2 DEF Claimable, Claims, Running, Row
    <3> QED
      BY <1>ty, <2>1, <2>2, <3>1
  <2>3. CASE SetJob(w, r, "reclaim") /\ UNCHANGED row
    <3>1. GivesUp(w, r)
      BY <1>ty, <2>1, <2>3 DEF GivesUp
    <3> QED
      BY <1>ty, <2>1, <2>3, <3>1
  <2>4. CASE UNCHANGED <<row, job, cur>>
    <3>1. GivesUp(w, r)
      BY <1>ty, <2>1, <2>4 DEF GivesUp
    <3> QED
      BY <1>ty, <2>1, <2>4, <3>1
  <2> QED
    BY <1>1, <2>2, <2>3, <2>4 DEF ClaimForRecovery
<1>2. CASE ReclaimFinalizing(w, r)
  <2>1. /\ job[w][r] = "reclaim"
        /\ UNCHANGED <<delivered, complete, os, serving, phase, todo>>
    BY <1>2 DEF ReclaimFinalizing
  <2>2. CASE Claimable(r, "finalizing") /\ SetRow(r, [row[r] EXCEPT !.recovery = "claimed"])
             /\ SetJob(w, r, "rejudge")
    <3>0. job'[w][r] = "rejudge" /\ row'[r] = [row[r] EXCEPT !.recovery = "claimed"]
      BY <1>ty, <2>2
    <3>2. row'[r].status = row[r].status /\ row'[r].recovery = "claimed"
      BY <1>ty, <3>0 DEF Row
    <3>1. Claims(w, r)
      BY <2>1, <2>2, <3>0, <3>2 DEF Claimable, Claims, Running
    <3> QED
      BY <1>ty, <2>1, <2>2, <3>1
  <2>3. CASE SetJob(w, r, "none") /\ UNCHANGED row
    <3>0. job'[w][r] = "none"
      BY <1>ty, <2>3
    <3>1. GivesUp(w, r)
      BY <3>0, <2>1, <2>3 DEF GivesUp
    <3> QED
      BY <1>ty, <2>1, <2>3, <3>1
  <2> QED
    BY <1>2, <2>2, <2>3 DEF ReclaimFinalizing
<1>m. ASSUME UNCHANGED <<row, delivered, complete, os, serving, phase, todo>>,
             NEW pc \in Judged, SetJob(w, r, pc),
             job[w][r] \in Judging,
             pc = "enrich" => complete[r],
             pc = "finish" => job[w][r] = "enrich"
      PROVE  JobEffect(w, r)
  <2>1. Judges(w, r)
    BY <1>ty, <1>m DEF Judges
  <2> QED
    BY <1>ty, <1>m, <2>1
<1>3. CASE ProbeEngine(w, r)
  BY <1>3, <1>m DEF ProbeEngine, Judged, Judging
<1>4. CASE PollEngine(w, r)
  BY <1>4, <1>m DEF PollEngine, Judged, Judging
<1>5. CASE JudgeReport(w, r)
  BY <1>5, <1>m DEF JudgeReport, ReportComplete, Judged, Judging
<1>6. CASE EnrichReport(w, r)
  BY <1>6, <1>m DEF EnrichReport, Judged, Judging
<1>f. ASSUME NEW status \in {"completed", "failed"}, NEW recovery, NEW then,
             RecordFinish(w, r, status, recovery, then),
             \/ status = "completed" /\ job[w][r] = "finish" /\ then = "deliver"
             \/ status = "failed" /\ job[w][r] \in Failing /\ then = "none"
      PROVE  JobEffect(w, r)
  <2>1. UNCHANGED <<delivered, complete, os, serving, phase, todo>>
    BY <1>f DEF RecordFinish
  <2>2. CASE SetRow(r, [row[r] EXCEPT !.status = status, !.recovery = recovery, !.pid = NoPid])
             /\ SetJob(w, r, then)
    <3>1. Writes(w, r)
      BY <1>ty, <1>f, <2>1, <2>2 DEF Writes, Row
    <3> QED
      BY <1>ty, <2>1, <2>2, <3>1
  <2>3. CASE SetJob(w, r, "none") /\ UNCHANGED row
    <3>0. job'[w][r] = "none"
      BY <1>ty, <2>3
    <3>1. GivesUp(w, r)
      BY <3>0, <1>f, <2>1, <2>3 DEF GivesUp, Failing
    <3> QED
      BY <1>ty, <2>1, <2>3, <3>1
  <2> QED
    BY <1>f, <2>2, <2>3 DEF RecordFinish
<1>7. CASE FinishCompleted(w, r)
  BY <1>7, <1>f DEF FinishCompleted
<1>8. CASE FinishFailed(w, r)
  BY <1>8, <1>f DEF FinishFailed, Failing
<1>9. CASE DeliverFinished(w, r)
  <2>1. Delivers(w, r)
    BY <1>ty, <1>9 DEF DeliverFinished, Delivers
  <2> QED
    BY <1>ty, <1>9, <2>1 DEF DeliverFinished
<1> QED
  BY <1>1, <1>2, <1>3, <1>4, <1>5, <1>6, <1>7, <1>8, <1>9 DEF JobStep

\* The reaper writes "completed" only where report_complete said so.
LEMMA ReportJob ==
    ASSUME TypeOK, ReportInv, NEW w \in Workers, NEW r \in Runs, JobStep(w, r)
    PROVE  ReportInv'
<1>1. JobEffect(w, r)
  BY JobOutcome
<1>2. UNCHANGED <<thread, child, stop, kind, complete>>
  BY <1>1 DEF JobEffect, os, serving
<1>3. \A q \in Runs : row'[q].status = "completed" => row[q].status = "completed" \/ complete[q]
  BY <1>1 DEF JobEffect, GivesUp, Claims, Judges, Writes, Delivers, ReportInv, SeenComplete, Failing
<1>4. \A v \in Workers, q \in Runs :
         job'[v][q] \in {"enrich", "finish"} => job[v][q] \in {"enrich", "finish"} \/ complete[q]
  BY <1>1 DEF JobEffect, GivesUp, Claims, Judges, Writes, Delivers
<1>5. NotYetLaunched' /\ SeenComplete' /\ CompletedHasReport'
  BY <1>2, <1>3, <1>4
     DEF ReportInv, NotYetLaunched, SeenComplete, CompletedHasReport, Serving, LastChild
<1> QED
  BY <1>5 DEF ReportInv

\* Booting writes no verdict.
LEMMA ReportBoot ==
    ASSUME TypeOK, ReportInv, NEW w \in Workers, BootStep(w)
    PROVE  ReportInv'
BY DEF BootStep, Boot, Booted, durable, os, serving, reaping,
       ReportInv, NotYetLaunched, SeenComplete, CompletedHasReport, Serving, LastChild

\* ReportInv is inductive, with or without rolling restarts.
LEMMA ReportStep == TypeOK /\ ReportInv /\ [Next]_vars => ReportInv'
<1> SUFFICES ASSUME TypeOK, ReportInv, [Next]_vars PROVE ReportInv'
  OBVIOUS
<1>1. CASE UNCHANGED vars
  BY <1>1 DEF vars, durable, os, serving, reaping,
       ReportInv, NotYetLaunched, SeenComplete, CompletedHasReport, Serving, LastChild
<1>2. CASE Next
  <2>1. ASSUME NEW w \in Workers, NEW r \in Runs, ReserveScanSlot(w, r) \/ JobStep(w, r)
        PROVE  ReportInv'
    BY <2>1, ReportStart, ReportJob
  <2>2. ASSUME NEW r \in Runs, StartStep(r)
        PROVE  ReportInv'
    BY <2>2, ReportStart
  <2>3. ASSUME NEW r \in Runs, ReaderStep(r)
        PROVE  ReportInv'
    BY <2>3, ReportReader
  <2>4. ASSUME NEW w \in Workers, BootStep(w)
        PROVE  ReportInv'
    BY <2>4, ReportBoot
  <2> QED
    BY <1>2, <2>1, <2>2, <2>3, <2>4, ReportEnvironment DEF Next
<1> QED
  BY <1>1, <1>2

\* Whoever writes "completed", the reader or a reaper, and however the workers
\* restart: the report of the run is finished.
THEOREM CompletedReports == Spec => []CompletedHasReport
<1>1. ReportInv => CompletedHasReport
  BY DEF ReportInv
<1> QED
  BY <1>1, TypeInit, TypeStep, ReportInit, ReportStep, PTL DEF Spec

-----------------------------------------------------------------------------
(* Workers that restart together.  ServedAlone and JobHoldsClaim keep the two *)
(* parties that write verdicts apart: RestartInv is the invariant, the        *)
(* effects below are what a step of either party does to the row.             *)

\* What a step of the thread that launches and serves r does to the row, the
\* deliveries and the threads.
Launches(r) ==
    /\ thread[r] \in {"launch", "register", "record"}
    /\ thread'[r] \in {"register", "record", "rejected", "lost"}
    /\ UNCHANGED <<row, delivered>>

Records(r) ==
    /\ thread[r] = "record" /\ thread'[r] \in {"read", "between"}
    /\ row'[r].status = "running"
    /\ UNCHANGED delivered

Serves(r) ==
    /\ thread[r] \in BeforeVerdict /\ thread'[r] \in BeforeVerdict
    /\ row'[r].status = row[r].status
    /\ UNCHANGED delivered

Finalizes(r) ==
    /\ thread[r] \in {"saveCompleted", "saveFailed", "saveStopped"}
    /\ \/ /\ row'[r].status = "completed" /\ thread'[r] = "deliver"
          /\ thread[r] = "saveCompleted"
       \/ row'[r].status \in {"failed", "stopped"} /\ thread'[r] = "done"
       \/ UNCHANGED row /\ thread'[r] = "done"
    /\ UNCHANGED delivered

Notifies(r) ==
    /\ thread[r] = "deliver" /\ thread'[r] = "done"
    /\ delivered' = [delivered EXCEPT ![r] = @ + 1]
    /\ UNCHANGED row

ServeEffect(r) ==
    /\ UNCHANGED <<complete, reaping, phase, home>>
    /\ \A q \in Runs : q # r => row'[q] = row[q] /\ thread'[q] = thread[q]
    /\ Launches(r) \/ Records(r) \/ Serves(r) \/ Finalizes(r) \/ Notifies(r)

\* Every step of the request and reader threads has one of the effects above.
LEMMA ServeOutcome ==
    ASSUME TypeOK, NEW r \in Runs, StartStep(r) \/ ReaderStep(r)
    PROVE  ServeEffect(r)
<1> USE DEF Goto, SetRow, durable, os, ServeEffect, BeforeVerdict
<1>ty. /\ row \in [Runs -> Row] /\ thread \in [Runs -> ThreadPC]
       /\ row[r] \in Row
  BY DEF TypeOK
<1>1. CASE LaunchEngine(r)
  BY <1>1, <1>ty DEF LaunchEngine, Launches
<1>2. CASE LaunchFails(r)
  BY <1>2, <1>ty DEF LaunchFails, Launches
<1>3. CASE Register(r)
  BY <1>3, <1>ty DEF Register, Launches
<1>4. CASE RecordStart(r)
  <2>1. row'[r].status = "running"
    BY <1>4, <1>ty DEF RecordStart, Row
  <2> QED
    BY <1>4, <1>ty, <2>1 DEF RecordStart, Records
<1>5. CASE RecordStartFails(r)
  BY <1>5, <1>ty DEF RecordStartFails, Launches
<1>6. CASE SpawnChild(r)
  BY <1>6, <1>ty DEF SpawnChild, Serves
<1>7. CASE NextChild(r) \/ AdoptChild(r) \/ ChunkingEnds(r)
  BY <1>7, <1>ty DEF NextChild, AdoptChild, ChunkingEnds, Serves
<1>8. CASE UpdatePid(r)
  <2>1. row'[r].status = row[r].status
    BY <1>8, <1>ty DEF UpdatePid, Row
  <2> QED
    BY <1>8, <1>ty, <2>1 DEF UpdatePid, Serves
<1>9. CASE ChildExited(r)
  <2>1. PICK pc \in {"rcOk", "rcErr", "between"} :
           thread[r] = "read" /\ thread' = [thread EXCEPT ![r] = pc]
    BY <1>9 DEF ChildExited
  <2>2. UNCHANGED <<row, complete, delivered, reaping, phase, home>>
    BY <1>9 DEF ChildExited
  <2> QED
    BY <1>ty, <2>1, <2>2 DEF Serves
<1>10. CASE FinalizeRun(r)
  <2>1. PICK pc \in {"saveStopped", "enrich", "saveFailed"} :
           thread[r] \in {"rcOk", "rcErr"} /\ thread' = [thread EXCEPT ![r] = pc]
    BY <1>10 DEF FinalizeRun
  <2>2. UNCHANGED <<complete, delivered, reaping, phase, home>>
    BY <1>10 DEF FinalizeRun
  <2>3. /\ \A q \in Runs : q # r => row'[q] = row[q]
        /\ row'[r].status = row[r].status
    BY <1>10, <1>ty DEF FinalizeRun, Row
  <2> QED
    BY <1>ty, <2>1, <2>2, <2>3 DEF Serves
<1>11. CASE EnrichRun(r)
  BY <1>11, <1>ty DEF EnrichRun, Serves
<1>12. CASE FinalizeScanHistory(r)
  <2>1. UNCHANGED <<complete, delivered, reaping, phase, home>>
    BY <1>12 DEF FinalizeScanHistory
  <2>2. /\ FinalizedRow(r).status \in {"completed", "failed", "stopped"}
        /\ FinalizedRow(r).status = "completed" <=> thread[r] = "saveCompleted"
    BY <1>12, <1>ty DEF FinalizedRow, Row, FinalizeScanHistory
  <2>3. CASE /\ row' = [row EXCEPT ![r] = FinalizedRow(r)]
             /\ thread' = [thread EXCEPT ![r] = IF thread[r] = "saveCompleted"
                                                THEN "deliver" ELSE "done"]
    <3>1. Finalizes(r)
      BY <1>12, <1>ty, <2>1, <2>2, <2>3 DEF Finalizes, FinalizeScanHistory
    <3> QED
      BY <1>ty, <2>1, <2>3, <3>1
  <2>4. CASE UNCHANGED row /\ thread' = [thread EXCEPT ![r] = "done"]
    BY <1>12, <1>ty, <2>1, <2>4 DEF Finalizes, FinalizeScanHistory
  <2> QED
    BY <1>12, <2>3, <2>4 DEF FinalizeScanHistory
<1>13. CASE Deliver(r)
  BY <1>13, <1>ty DEF Deliver, Notifies
<1> QED
  BY <1>1, <1>2, <1>3, <1>4, <1>5, <1>6, <1>7, <1>8, <1>9, <1>10, <1>11, <1>12, <1>13
     DEF StartStep, ReaderStep

\* The parts of RestartInv that say who may write.
WritersInv ==
    /\ ServedAlone
    /\ ThreadHasHome
    /\ RowFollowsThread
    /\ JobHoldsClaim
    /\ LoopSeesRecorded
    /\ OneReconciler
    /\ DeliveryPending

\* At first all workers serve and no run exists.
LEMMA WritersInit == Init => WritersInv
BY DEF Init, WritersInv, ServedAlone, ThreadHasHome, RowFollowsThread, JobHoldsClaim,
       LoopSeesRecorded, OneReconciler, DeliveryPending, Serving, Reconciling,
       BeforeRow, BeforeVerdict

\* A slot is reserved for a new run id, while no worker boots.
LEMMA WritersReserve ==
    ASSUME TypeOK, WritersInv, ~Rolling,
           NEW w \in Workers, NEW r \in Runs, ReserveScanSlot(w, r)
    PROVE  WritersInv'
<1> USE DEF WritersInv, ReserveScanSlot, Goto, durable, os, reaping
<1>1. /\ \A q \in Runs : q # r => thread'[q] = thread[q] /\ home'[q] = home[q]
      /\ thread[r] = "none" /\ thread'[r] = "launch" /\ home'[r] = w
      /\ UNCHANGED <<row, delivered, job, todo, phase>>
      /\ \A v \in Workers : phase[v] = "serve"
  BY DEF TypeOK, Admits
<1>2. row[r].status = "absent" /\ \A v \in Workers : job[v][r] = "none"
  BY <1>1 DEF RowFollowsThread, BeforeRow, LoopSeesRecorded
<1>3. ServedAlone'
  BY <1>1, <1>2 DEF ServedAlone, Serving
<1>4. ThreadHasHome'
  BY <1>1 DEF ThreadHasHome
<1>5. RowFollowsThread'
  BY <1>1, <1>2 DEF RowFollowsThread, BeforeRow, BeforeVerdict
<1>6. JobHoldsClaim' /\ LoopSeesRecorded' /\ OneReconciler'
  BY <1>1 DEF JobHoldsClaim, LoopSeesRecorded, OneReconciler, Reconciling
<1>7. DeliveryPending'
  BY <1>1 DEF DeliveryPending
<1> QED
  BY <1>3, <1>4, <1>5, <1>6, <1>7

\* The thread that serves a run is alone with it.
LEMMA WritersServe ==
    ASSUME TypeOK, WritersInv, NEW r \in Runs, ServeEffect(r)
    PROVE  WritersInv'
<1> USE DEF WritersInv
<1>1. /\ \A q \in Runs : q # r => row'[q] = row[q] /\ thread'[q] = thread[q]
      /\ \A q \in Runs : q # r => delivered'[q] = delivered[q]
      /\ UNCHANGED <<job, todo, phase, home>>
      /\ thread[r] # "none"
      /\ thread[r] \notin {"none", "done", "rejected", "lost", "dead"}
    BY DEF ServeEffect, reaping, Launches, Records, Serves, Finalizes, Notifies,
           BeforeVerdict, TypeOK
<1>2. Serving(r) /\ \A w \in Workers : phase[w] = "serve" /\ job[w][r] = "none"
  BY <1>1 DEF Serving, ServedAlone
<1>3. delivered \in [Runs -> Nat]
  BY DEF TypeOK
<1>4. ServedAlone'
  BY <1>1, <1>2 DEF ServedAlone, Serving
<1>5. ThreadHasHome'
  BY <1>1 DEF ThreadHasHome
<1>6. RowFollowsThread'
  <2>1. CASE Launches(r)
    BY <1>1, <2>1 DEF Launches, RowFollowsThread, BeforeRow, BeforeVerdict
  <2>2. CASE Records(r)
    BY <1>1, <2>2 DEF Records, RowFollowsThread, BeforeRow, BeforeVerdict
  <2>3. CASE Serves(r)
    BY <1>1, <2>3 DEF Serves, RowFollowsThread, BeforeRow, BeforeVerdict
  <2>4. CASE Finalizes(r)
    BY <1>1, <2>4 DEF Finalizes, RowFollowsThread, BeforeRow, BeforeVerdict
  <2>5. CASE Notifies(r)
    BY <1>1, <2>5 DEF Notifies, RowFollowsThread, BeforeRow, BeforeVerdict
  <2> QED
    BY <2>1, <2>2, <2>3, <2>4, <2>5 DEF ServeEffect
<1>7. JobHoldsClaim'
  BY <1>1, <1>2 DEF JobHoldsClaim
<1>8. LoopSeesRecorded'
  <2>1. row[r].status # "absent" => row'[r].status # "absent"
    BY DEF ServeEffect, Launches, Records, Serves, Finalizes, Notifies
  <2>2. \A w \in Workers : todo[w] \subseteq Runs
    BY DEF TypeOK
  <2> QED
    BY <1>1, <2>1, <2>2 DEF LoopSeesRecorded
<1>9. OneReconciler'
  BY <1>1 DEF OneReconciler, Reconciling
<1>10. DeliveryPending'
  <2>0. row[r].status # "completed" => delivered[r] = 0
    BY DEF DeliveryPending
  <2>1. CASE Launches(r)
    BY <1>1, <2>1 DEF Launches, DeliveryPending
  <2>2. CASE Records(r)
    BY <1>1, <1>2, <2>2, <2>0 DEF Records, RowFollowsThread, BeforeRow, DeliveryPending
  <2>3. CASE Serves(r)
    BY <1>1, <2>3 DEF Serves, DeliveryPending, BeforeVerdict
  <2>4. CASE Finalizes(r)
    BY <1>1, <1>2, <2>4, <2>0 DEF Finalizes, RowFollowsThread, BeforeVerdict, DeliveryPending
  <2>5. CASE Notifies(r)
    BY <1>1, <1>2, <1>3, <2>5 DEF Notifies, RowFollowsThread, DeliveryPending
  <2> QED
    BY <2>1, <2>2, <2>3, <2>4, <2>5 DEF ServeEffect
<1> QED
  BY <1>4, <1>5, <1>6, <1>7, <1>8, <1>9, <1>10

\* A job works on a run whose thread is gone, and once it holds the claim it is
\* the only one.
LEMMA WritersJob ==
    ASSUME TypeOK, WritersInv, NEW w \in Workers, NEW r \in Runs, JobEffect(w, r)
    PROVE  WritersInv'
<1> USE DEF WritersInv
<1>1. /\ \A q \in Runs : q # r => row'[q] = row[q] /\ delivered'[q] = delivered[q]
      /\ \A v \in Workers, q \in Runs : v # w \/ q # r => job'[v][q] = job[v][q]
      /\ \A v \in Workers : todo'[v] \subseteq todo[v]
      /\ UNCHANGED <<thread, home, phase>>
  BY DEF JobEffect, serving, GivesUp, Claims, Judges, Writes, Delivers, TypeOK
<1>2. (phase[w] = "boot" /\ r \in todo[w]) \/ job[w][r] # "none"
  BY DEF JobEffect, GivesUp, Claims, Judges, Writes, Delivers, Judging, Failing
<1>3. ~Serving(r) /\ row[r].status # "absent"
  BY <1>2 DEF ServedAlone, LoopSeesRecorded
<1>4. delivered \in [Runs -> Nat]
  BY DEF TypeOK
<1>5. Reconciling(w, r) => \A v \in Workers : Reconciling(v, r) => v = w
  BY DEF OneReconciler
<1>6. row'[r].status # "absent"
  BY <1>3 DEF JobEffect, GivesUp, Claims, Judges, Writes, Delivers
<1>7. ServedAlone'
  BY <1>1, <1>3 DEF ServedAlone, Serving
<1>8. ThreadHasHome'
  BY <1>1 DEF ThreadHasHome
<1>9. RowFollowsThread'
  <2>1. thread[r] \in {"done", "dead"}
    BY <1>3 DEF Serving, RowFollowsThread, BeforeRow
  <2> QED
    BY <1>1, <1>6, <2>1 DEF RowFollowsThread, BeforeRow, BeforeVerdict
<1>10. OneReconciler'
  <2>1. Reconciling(w, r)' => \A v \in Workers : Reconciling(v, r) => v = w
    <3>1. CASE GivesUp(w, r)
      BY <3>1, <1>5 DEF GivesUp, Reconciling
    <3>2. CASE Claims(w, r)
      BY <3>2 DEF Claims, Reconciling, JobHoldsClaim, Running
    <3>3. CASE Judges(w, r) \/ Writes(w, r) \/ Delivers(w, r)
      BY <3>3, <1>5 DEF Judges, Writes, Delivers, Reconciling, Judging, Failing
    <3> QED
      BY <3>1, <3>2, <3>3 DEF JobEffect
  <2> QED
    BY <1>1, <2>1 DEF OneReconciler, Reconciling
<1>11. LoopSeesRecorded'
  <2>1. \A v \in Workers : todo[v] \subseteq Runs
    BY DEF TypeOK
  <2> QED
    BY <1>1, <1>3, <1>6, <2>1 DEF LoopSeesRecorded
<1>12. JobHoldsClaim'
  <2>1. CASE GivesUp(w, r)
    BY <1>1, <2>1 DEF GivesUp, JobHoldsClaim
  <2>2. CASE Claims(w, r)
    BY <1>1, <2>2 DEF Claims, JobHoldsClaim, Running
  <2>3. CASE Judges(w, r)
    BY <1>1, <2>3 DEF Judges, JobHoldsClaim, Judging, Judged
  <2>4. CASE Writes(w, r)
    BY <1>1, <1>5, <2>4 DEF Writes, JobHoldsClaim, Reconciling, Failing
  <2>5. CASE Delivers(w, r)
    BY <1>1, <2>5 DEF Delivers, JobHoldsClaim
  <2> QED
    BY <2>1, <2>2, <2>3, <2>4, <2>5 DEF JobEffect
<1>13. DeliveryPending'
  <2>0. /\ row[r].status # "completed" => delivered[r] = 0
        /\ thread[r] # "deliver"
    BY <1>3 DEF DeliveryPending, Serving
  <2>1. CASE GivesUp(w, r)
    BY <1>1, <2>1 DEF GivesUp, DeliveryPending
  <2>2. CASE Claims(w, r)
    BY <1>1, <2>0, <2>2 DEF Claims, DeliveryPending, Running
  <2>3. CASE Judges(w, r)
    BY <1>1, <2>3 DEF Judges, DeliveryPending, Judged
  <2>4. CASE Writes(w, r)
    <3>1. row[r].status = "running"
      BY <2>4 DEF Writes, JobHoldsClaim, Failing
    <3> QED
      BY <1>1, <2>0, <2>4, <3>1 DEF Writes, DeliveryPending
  <2>5. CASE Delivers(w, r)
    <3>1. delivered[r] = 0 /\ delivered'[r] = 1
      BY <1>4, <2>5 DEF Delivers, DeliveryPending
    <3>2. row[r].status = "completed"
      BY <2>5 DEF Delivers, JobHoldsClaim
    <3>3. \A v \in Workers : job'[v][r] # "deliver"
      BY <1>1, <1>5, <2>5 DEF Delivers, Reconciling
    <3> QED
      BY <1>1, <2>0, <2>5, <3>1, <3>2, <3>3 DEF Delivers, DeliveryPending
  <2> QED
    BY <2>1, <2>2, <2>3, <2>4, <2>5 DEF JobEffect
<1> QED
  BY <1>7, <1>8, <1>9, <1>10, <1>11, <1>12, <1>13

\* A worker boots while no thread serves anything.
LEMMA WritersBoot ==
    ASSUME TypeOK, WritersInv, NEW w \in Workers, BootStep(w)
    PROVE  WritersInv'
<1> USE DEF WritersInv, durable, os, serving
<1>1. UNCHANGED <<row, delivered, thread, home, job>>
  BY DEF BootStep, Boot, Booted, reaping
<1>2. phase[w] # "serve"
  BY DEF BootStep, Boot, Booted
<1>3. \A v \in Workers : \A r \in todo'[v] : row[r].status # "absent"
  <2>1. CASE Boot(w)
    <3>1. \A v \in Workers : todo'[v] \in {todo[v], {r \in Runs : Running(r)}}
      BY <2>1 DEF Boot, TypeOK
    <3> QED
      BY <3>1 DEF LoopSeesRecorded, Running
  <2>2. CASE Booted(w)
    BY <2>2 DEF Booted, reaping, LoopSeesRecorded
  <2> QED
    BY <2>1, <2>2 DEF BootStep
<1>4. ServedAlone'
  BY <1>1, <1>2 DEF ServedAlone, Serving
<1>5. LoopSeesRecorded'
  BY <1>1, <1>3 DEF LoopSeesRecorded
<1>6. OneReconciler' /\ JobHoldsClaim' /\ DeliveryPending'
  BY <1>1 DEF OneReconciler, Reconciling, JobHoldsClaim, DeliveryPending
<1>7. ThreadHasHome' /\ RowFollowsThread'
  BY <1>1 DEF ThreadHasHome, RowFollowsThread
<1> QED
  BY <1>4, <1>5, <1>6, <1>7

\* All workers die together, and with them all threads and jobs.
LEMMA WritersRestart ==
    ASSUME TypeOK, WritersInv, ~Rolling, Restart
    PROVE  WritersInv'
<1> USE DEF WritersInv
<1>1. /\ UNCHANGED <<row, delivered, home>>
      /\ \A r \in Runs : thread'[r] = IF home[r] \in Workers /\ thread[r] # "none"
                                      THEN "dead" ELSE thread[r]
      /\ \A w \in Workers : todo'[w] = {} /\ \A r \in Runs : job'[w][r] = "none"
  BY DEF Restart, Crash, durable
<1>2. \A r \in Runs : thread'[r] \in {"none", "dead"} /\ (thread'[r] = "none" <=> thread[r] = "none")
  BY <1>1 DEF ThreadHasHome
<1>3. ServedAlone' /\ ThreadHasHome'
  BY <1>1, <1>2 DEF ServedAlone, Serving, ThreadHasHome
<1>4. RowFollowsThread'
  BY <1>1, <1>2 DEF RowFollowsThread, BeforeRow, BeforeVerdict
<1>5. JobHoldsClaim' /\ LoopSeesRecorded' /\ OneReconciler'
  BY <1>1 DEF JobHoldsClaim, LoopSeesRecorded, OneReconciler, Reconciling
<1>6. DeliveryPending'
  BY <1>1, <1>2 DEF DeliveryPending
<1> QED
  BY <1>3, <1>4, <1>5, <1>6

\* Everything else leaves the writers alone.
LEMMA WritersRest ==
    ASSUME TypeOK, WritersInv, UNCHANGED <<row, delivered, thread, home, job, todo, phase>>
    PROVE  WritersInv'
BY DEF WritersInv, ServedAlone, ThreadHasHome, RowFollowsThread, JobHoldsClaim,
       LoopSeesRecorded, OneReconciler, DeliveryPending, Serving, Reconciling

\* The steps that neither a thread nor a job takes.
LEMMA OtherSteps ==
    ASSUME \/ \E r \in Runs : StopStep(r) \/ EngineStep(r)
           \/ \E r \in Runs : DeadlinePasses(r)
           \/ \E p \in Pids : StrangerComes(p) \/ StrangerLeaves(p)
           \/ UNCHANGED vars
    PROVE  UNCHANGED <<row, delivered, thread, home, job, todo, phase>>
BY DEF StopStep, RequestStop, TerminateProcess, EngineStep, EngineSaves, EngineExits,
       DeadlinePasses, StrangerComes, StrangerLeaves, vars, durable, os, serving, reaping

\* The parts of RestartInv about the writers of a row are inductive when the
\* workers restart together.
LEMMA WritersStep == ~Rolling /\ TypeOK /\ WritersInv /\ [Next]_vars => WritersInv'
<1> SUFFICES ASSUME ~Rolling, TypeOK, WritersInv, [Next]_vars PROVE WritersInv'
  OBVIOUS
<1>1. ASSUME NEW w \in Workers, NEW r \in Runs, ReserveScanSlot(w, r)
      PROVE  WritersInv'
  BY <1>1, WritersReserve
<1>2. ASSUME NEW w \in Workers, NEW r \in Runs, JobStep(w, r)
      PROVE  WritersInv'
  BY <1>2, JobOutcome, WritersJob
<1>3. ASSUME NEW r \in Runs, StartStep(r) \/ ReaderStep(r)
      PROVE  WritersInv'
  BY <1>3, ServeOutcome, WritersServe
<1>4. ASSUME NEW w \in Workers, BootStep(w)
      PROVE  WritersInv'
  BY <1>4, WritersBoot
<1>5. CASE Restart
  BY <1>5, WritersRestart
<1>6. CASE \/ \E r \in Runs : StopStep(r) \/ EngineStep(r)
           \/ \E r \in Runs : DeadlinePasses(r)
           \/ \E p \in Pids : StrangerComes(p) \/ StrangerLeaves(p)
           \/ UNCHANGED vars
  BY <1>6, OtherSteps, WritersRest
<1> QED
  BY <1>1, <1>2, <1>3, <1>4, <1>5, <1>6 DEF Next, Environment

\* The parts of RestartInv together.
LEMMA RestartParts == RestartInv <=> WritersInv /\ ReportInv
BY DEF RestartInv, WritersInv

\* When the workers restart together, the reader and the reaper of a run never
\* meet: RestartInv holds whatever the number of workers and of crashes.
THEOREM RestartSafe ==
    ASSUME ~Rolling
    PROVE  Spec => []RestartInv
BY TypeInit, TypeStep, ReportInit, ReportStep, WritersInit, WritersStep, RestartParts, PTL DEF Spec

\* One worker at a time reconciles a run: claim_for_recovery works.
THEOREM ReconciledByOne ==
    ASSUME ~Rolling
    PROVE  Spec => []OneReconciler
<1>1. RestartInv => OneReconciler
  BY DEF RestartInv
<1> QED
  BY <1>1, RestartSafe, PTL

\* The webhook receiver hears of a run at most once, and only of completed ones.
THEOREM NoDoubleDelivery ==
    ASSUME ~Rolling
    PROVE  Spec => []DeliveredOnce
<1>1. TypeOK /\ RestartInv => DeliveredOnce
  BY DEF RestartInv, DeliveryPending, DeliveredOnce, TypeOK
<1> QED
  BY <1>1, RestartSafe, TypeCorrect, PTL

-----------------------------------------------------------------------------
(* The history is the promised one. *)

\* The empty table is the abstract history's first state.
LEMMA HistoryInit == Init => History!Init
BY DEF Init, History!Init

\* A step of the serving thread is a start, a verdict, a notice or nothing.
LEMMA HistoryServe ==
    ASSUME TypeOK, RestartInv, NEW r \in Runs, ServeEffect(r)
    PROVE  [History!Next]_History!vars
<1>1. /\ UNCHANGED complete
      /\ \A q \in Runs : q # r => row'[q] = row[q]
  BY DEF ServeEffect
<1>2. CASE Launches(r) \/ Serves(r)
  BY <1>1, <1>2 DEF Launches, Serves, History!vars
<1>3. CASE Records(r)
  <2>1. row[r].status = "absent"
    BY <1>3 DEF Records, RestartInv, RowFollowsThread, BeforeRow
  <2>2. History!Start(r)
    BY <1>1, <1>3, <2>1 DEF Records, History!Start
  <2> QED
    BY <2>2 DEF History!Next
<1>4. CASE Finalizes(r)
  <2>1. CASE UNCHANGED row
    BY <1>1, <1>4, <2>1 DEF Finalizes, History!vars
  <2>2. ASSUME NEW v \in History!Verdicts, row'[r].status = v
        PROVE  [History!Next]_History!vars
    <3>1. row[r].status = "running"
      BY <1>4 DEF Finalizes, RestartInv, RowFollowsThread, BeforeVerdict
    <3>2. CASE thread[r] = "saveCompleted"
      <4>1. complete[r]
        BY <3>2 DEF RestartInv, ReportInv, SeenComplete
      <4>2. History!Settle(r, v)
        BY <1>1, <1>4, <2>2, <3>1, <4>1 DEF Finalizes, History!Settle
      <4> QED
        BY <4>2 DEF History!Next
    <3>3. CASE thread[r] # "saveCompleted" /\ ~UNCHANGED row
      <4>1. row'[r].status # "completed"
        BY <1>4, <3>3 DEF Finalizes
      <4>2. History!Settle(r, v)
        BY <1>1, <1>4, <2>2, <3>1, <4>1 DEF Finalizes, History!Settle
      <4> QED
        BY <4>2 DEF History!Next
    <3> QED
      BY <2>1, <3>2, <3>3
  <2> QED
    BY <1>4, <2>1, <2>2 DEF Finalizes, History!Verdicts
<1>5. CASE Notifies(r)
  <2>1. row[r].status = "completed" /\ delivered[r] = 0
    BY <1>5 DEF Notifies, RestartInv, RowFollowsThread, DeliveryPending
  <2>2. delivered' = [delivered EXCEPT ![r] = 1]
    BY <1>5, <2>1 DEF Notifies
  <2>3. History!Notify(r)
    BY <1>1, <1>5, <2>1, <2>2 DEF Notifies, History!Notify
  <2> QED
    BY <2>3 DEF History!Next
<1> QED
  BY <1>2, <1>3, <1>4, <1>5 DEF ServeEffect

\* So is a step of a reaper or watcher.
LEMMA HistoryJob ==
    ASSUME TypeOK, RestartInv, NEW w \in Workers, NEW r \in Runs, JobEffect(w, r)
    PROVE  [History!Next]_History!vars
<1>1. /\ UNCHANGED complete
      /\ \A q \in Runs : q # r => row'[q] = row[q]
  BY DEF JobEffect
<1>2. CASE GivesUp(w, r) \/ Claims(w, r) \/ Judges(w, r)
  BY <1>1, <1>2 DEF GivesUp, Claims, Judges, Running, History!vars
<1>3. CASE Writes(w, r)
  <2>1. row[r].status = "running"
    BY <1>3 DEF Writes, Failing, RestartInv, JobHoldsClaim
  <2>2. row'[r].status = "completed" => complete[r]
    BY <1>3 DEF Writes, Failing, RestartInv, ReportInv, SeenComplete
  <2>3. PICK v \in History!Verdicts : row'[r].status = v
    BY <1>3 DEF Writes, History!Verdicts
  <2>4. History!Settle(r, v)
    BY <1>1, <1>3, <2>1, <2>2, <2>3 DEF Writes, History!Settle
  <2> QED
    BY <2>4 DEF History!Next
<1>4. CASE Delivers(w, r)
  <2>1. row[r].status = "completed" /\ delivered[r] = 0
    BY <1>4 DEF Delivers, RestartInv, JobHoldsClaim, DeliveryPending
  <2>2. delivered' = [delivered EXCEPT ![r] = 1]
    BY <1>4, <2>1 DEF Delivers
  <2>3. History!Notify(r)
    BY <1>1, <1>4, <2>1, <2>2 DEF Delivers, History!Notify
  <2> QED
    BY <2>3 DEF History!Next
<1> QED
  BY <1>2, <1>3, <1>4 DEF JobEffect

\* An engine finishes its report, everything else is not seen in the history.
LEMMA HistoryRest ==
    ASSUME TypeOK,
           \/ \E w \in Workers, r \in Runs : ReserveScanSlot(w, r)
           \/ \E w \in Workers : BootStep(w)
           \/ \E r \in Runs : StopStep(r) \/ EngineStep(r)
           \/ Environment
           \/ UNCHANGED vars
    PROVE  [History!Next]_History!vars
<1>1. ASSUME NEW r \in Runs, EngineSaves(r)
      PROVE  [History!Next]_History!vars
  <2>1. History!FinishReport(r)
    BY <1>1 DEF EngineSaves, History!FinishReport, TypeOK
  <2> QED
    BY <2>1 DEF History!Next
<1>2. CASE UNCHANGED <<row, complete, delivered>>
  BY <1>2 DEF History!vars
<1>3. ASSUME \/ \E w \in Workers, r \in Runs : ReserveScanSlot(w, r)
             \/ \E w \in Workers : BootStep(w)
             \/ \E r \in Runs : StopStep(r) \/ EngineExits(r)
             \/ Environment
             \/ UNCHANGED vars
      PROVE  UNCHANGED <<row, complete, delivered>>
  BY <1>3 DEF ReserveScanSlot, BootStep, Boot, Booted, StopStep, RequestStop,
              TerminateProcess, EngineExits, Environment, DeadlinePasses, StrangerComes,
              StrangerLeaves, Restart, Crash, vars, durable
<1> QED
  BY <1>1, <1>2, <1>3 DEF EngineStep

\* Every step is one of the abstract history, or is not seen in it.
LEMMA HistoryStep == TypeOK /\ RestartInv /\ [Next]_vars => [History!Next]_History!vars
<1> SUFFICES ASSUME TypeOK, RestartInv, [Next]_vars
             PROVE  [History!Next]_History!vars
  OBVIOUS
<1>1. ASSUME NEW w \in Workers, NEW r \in Runs, JobStep(w, r)
      PROVE  [History!Next]_History!vars
  BY <1>1, JobOutcome, HistoryJob
<1>2. ASSUME NEW r \in Runs, StartStep(r) \/ ReaderStep(r)
      PROVE  [History!Next]_History!vars
  BY <1>2, ServeOutcome, HistoryServe
<1> QED
  BY <1>1, <1>2, HistoryRest DEF Next

\* The workers, readers and reapers implement the history of RunLifecycle: one
\* verdict per run, "completed" only on a finished report, one notice.
THEOREM HistoryImplemented ==
    ASSUME ~Rolling
    PROVE  Spec => ImplementsHistory
BY HistoryInit, HistoryStep, RestartSafe, TypeCorrect, PTL
   DEF Spec, ImplementsHistory, History!Spec

\* A verdict that was written is never written over.
LEMMA VerdictStep ==
    TypeOK /\ RestartInv /\ [Next]_vars
    => \A r \in Runs : row[r].status \in Terminal => row'[r].status = row[r].status
<1> SUFFICES ASSUME TypeOK, RestartInv, [History!Next]_History!vars,
                    NEW r \in Runs, row[r].status \in Terminal
             PROVE  row'[r].status = row[r].status
  BY HistoryStep
<1>1. CASE UNCHANGED History!vars
  BY <1>1 DEF History!vars
<1>2. ASSUME NEW q \in Runs, History!Start(q) \/ History!FinishReport(q) \/ History!Notify(q)
      PROVE  row'[r].status = row[r].status
  BY <1>2 DEF History!Start, History!FinishReport, History!Notify, Terminal
<1>3. ASSUME NEW q \in Runs, NEW v \in History!Verdicts, History!Settle(q, v)
      PROVE  row'[r].status = row[r].status
  BY <1>3 DEF History!Settle, Terminal
<1> QED
  BY <1>1, <1>2, <1>3 DEF History!Next

\* VerdictIsFinal in every deployment that restarts its workers together: the
\* reader, the reaper and a watcher never overrule one another.
THEOREM VerdictsFinal ==
    ASSUME ~Rolling
    PROVE  Spec => VerdictIsFinal
<1>1. TypeOK /\ RestartInv /\ [Next]_vars
      => [\A r \in Runs : row[r].status \in Terminal => row'[r].status = row[r].status]_vars
  BY VerdictStep
<1> QED
  BY <1>1, RestartSafe, TypeCorrect, PTL DEF Spec, VerdictIsFinal

-----------------------------------------------------------------------------
(* Verdicts, reports and slots against the engine processes, with rolling  *)
(* restarts and reused pids.                                               *)

\* What the steps of another run leave alone.
SameRun(q) ==
    /\ row'[q] = row[q] /\ child'[q] = child[q] /\ thread'[q] = thread[q]
    /\ complete'[q] = complete[q] /\ kind'[q] = kind[q] /\ home'[q] = home[q]
    /\ \A w \in Workers :
        /\ job'[w][q] = job[w][q] /\ watched'[w][q] = watched[w][q]
        /\ q \in todo'[w] => q \in todo[w]

\* Only a probe that finds the engine alive starts to watch a pid.
LEMMA JobWatches ==
    ASSUME TypeOK, NEW w \in Workers, NEW r \in Runs, JobStep(w, r)
    PROVE  /\ \A v \in Workers, q \in Runs : v # w \/ q # r => watched'[v][q] = watched[v][q]
           /\ watched'[w][r] = watched[w][r] \/ job'[w][r] = "poll"
<1>1. watched \in [Workers -> [Runs -> Pids \cup {NoPid}]] /\ job \in [Workers -> [Runs -> JobPC]]
  BY DEF TypeOK
<1>2. \A status, recovery, then : RecordFinish(w, r, status, recovery, then) => UNCHANGED watched
  BY DEF RecordFinish
<1>3. UNCHANGED watched \/ ProbeEngine(w, r)
  BY <1>2 DEF JobStep, ClaimForRecovery, ReclaimFinalizing, PollEngine, JudgeReport,
              EnrichReport, FinishCompleted, FinishFailed, DeliverFinished, reaping
<1>4. CASE ProbeEngine(w, r)
  <2>1. \/ watched' = [watched EXCEPT ![w][r] = row[r].pid] /\ job' = [job EXCEPT ![w][r] = "poll"]
        \/ UNCHANGED watched
    BY <1>4 DEF ProbeEngine, SetJob
  <2> QED
    BY <1>1, <2>1
<1> QED
  BY <1>3, <1>4

\* The steps that are about one run.
StepOf(r) ==
    \/ \E w \in Workers : ReserveScanSlot(w, r) \/ JobStep(w, r)
    \/ StartStep(r) \/ ReaderStep(r) \/ StopStep(r) \/ EngineStep(r) \/ DeadlinePasses(r)

\* They are about that run only.
LEMMA RunsApart ==
    ASSUME TypeOK, NEW r \in Runs, NEW q \in Runs \ {r}, StepOf(r)
    PROVE  SameRun(q)
<1> USE DEF SameRun, durable, os, serving, reaping, Goto, SetRow, SetJob, EndJob
<1>ty. /\ row = [x \in Runs |-> row[x]] /\ child = [x \in Runs |-> child[x]]
       /\ thread = [x \in Runs |-> thread[x]] /\ complete = [x \in Runs |-> complete[x]]
       /\ home = [x \in Runs |-> home[x]]
       /\ job \in [Workers -> [Runs -> JobPC]]
       /\ watched \in [Workers -> [Runs -> Pids \cup {NoPid}]]
       /\ todo = [w \in Workers |-> todo[w]]
  BY DEF TypeOK
<1>1. ASSUME NEW w \in Workers, ReserveScanSlot(w, r) PROVE SameRun(q)
  BY <1>1, <1>ty DEF ReserveScanSlot
<1>2. CASE LaunchEngine(r) \/ LaunchFails(r) \/ Register(r)
  BY <1>2, <1>ty DEF LaunchEngine, LaunchFails, Register, Spawn
<1>3. CASE RecordStart(r) \/ RecordStartFails(r)
  BY <1>3, <1>ty DEF RecordStart, RecordStartFails
<1>4. CASE \/ NextChild(r) \/ SpawnChild(r) \/ AdoptChild(r)
           \/ ChunkingEnds(r) \/ UpdatePid(r) \/ ChildExited(r)
  BY <1>4, <1>ty DEF NextChild, SpawnChild, AdoptChild, ChunkingEnds, UpdatePid, ChildExited, Spawn
<1>5. CASE FinalizeRun(r) \/ EnrichRun(r) \/ Deliver(r)
  BY <1>5, <1>ty DEF FinalizeRun, EnrichRun, Deliver
<1>6. CASE FinalizeScanHistory(r)
  BY <1>6, <1>ty DEF FinalizeScanHistory
<1>7. CASE StopStep(r) \/ EngineStep(r) \/ DeadlinePasses(r)
  BY <1>7, <1>ty DEF StopStep, RequestStop, TerminateProcess, EngineStep, EngineSaves,
                     EngineExits, DeadlinePasses
<1>8. ASSUME NEW w \in Workers, JobStep(w, r) PROVE SameRun(q)
  BY <1>8, JobOutcome, JobWatches DEF JobEffect
<1> QED
  BY <1>1, <1>2, <1>3, <1>4, <1>5, <1>6, <1>7, <1>8 DEF StepOf, StartStep, ReaderStep

\* Every step is about one run, or a worker's, or nobody's.
LEMMA WhoseStep ==
    ASSUME [Next]_vars
    PROVE  \/ \E r \in Runs : StepOf(r)
           \/ \E w \in Workers : BootStep(w)
           \/ Restart
           \/ \E p \in Pids : StrangerComes(p) \/ StrangerLeaves(p)
           \/ UNCHANGED vars
BY DEF Next, Environment, StepOf

\* Strangers come and go without touching a run.
LEMMA StrangersApart ==
    ASSUME NEW q \in Runs,
           (\E p \in Pids : StrangerComes(p) \/ StrangerLeaves(p)) \/ UNCHANGED vars
    PROVE  SameRun(q)
BY DEF SameRun, StrangerComes, StrangerLeaves, vars, durable, os, serving, reaping

\* A request decides once what kind of run it asks for.
LEMMA KindKept == [Next]_vars => kind' = kind
<1> SUFFICES ASSUME [Next]_vars PROVE kind' = kind
  OBVIOUS
<1> USE DEF durable, os, serving, reaping
<1>1. ASSUME NEW r \in Runs, StartStep(r) \/ ReaderStep(r) PROVE kind' = kind
  BY <1>1 DEF StartStep, LaunchEngine, LaunchFails, Register, RecordStart, RecordStartFails,
              ReaderStep, NextChild, SpawnChild, AdoptChild, ChunkingEnds, UpdatePid,
              ChildExited, FinalizeRun,
              EnrichRun, FinalizeScanHistory, Deliver
<1>2. ASSUME NEW r \in Runs, StopStep(r) \/ EngineStep(r) PROVE kind' = kind
  BY <1>2 DEF StopStep, RequestStop, TerminateProcess, EngineStep, EngineSaves, EngineExits
<1>3. ASSUME NEW w \in Workers, NEW r \in Runs, ReserveScanSlot(w, r) \/ JobStep(w, r)
      PROVE  kind' = kind
  <2>1. \A status, recovery, then : RecordFinish(w, r, status, recovery, then) => kind' = kind
    BY DEF RecordFinish
  <2> QED
    BY <1>3, <2>1
       DEF ReserveScanSlot, JobStep, ClaimForRecovery, ReclaimFinalizing, ProbeEngine, PollEngine,
           JudgeReport, EnrichReport, FinishCompleted, FinishFailed, DeliverFinished
<1>4. ASSUME NEW w \in Workers, BootStep(w) PROVE kind' = kind
  BY <1>4 DEF BootStep, Boot, Booted
<1>5. CASE Environment \/ UNCHANGED vars
  BY <1>5 DEF Environment, DeadlinePasses, StrangerComes, StrangerLeaves, Restart, Crash, vars
<1> QED
  BY <1>1, <1>2, <1>3, <1>4, <1>5 DEF Next

-----------------------------------------------------------------------------
(* No verdict while the engine is at work, for runs of one process. *)

\* Of a run that is one process the engine's end is final: whoever is about to
\* write a verdict has seen it, whoever is not yet sure knows its pid.
Ending == {"rcOk", "rcErr", "enrich", "saveCompleted", "saveFailed", "saveStopped", "deliver"}
Concluded == {"judge", "rejudge", "gone", "enrich", "finish", "deliver"} \cup Failing
NotRecorded == {"none", "launch", "register", "record"}

EngineOf(r) ==
    /\ thread[r] \notin {"between", "popen", "adopt", "spawned"}
    /\ thread[r] \in {"none", "launch"} => child[r].st = "none"
    /\ thread[r] \in NotRecorded => row[r].status = "absent"
    /\ row[r].status = "absent" => \A w \in Workers : job[w][r] = "none" /\ r \notin todo[w]
    /\ Running(r) /\ Live(r) => row[r].pid = child[r].pid
    /\ row[r].status \in Terminal \/ Claimable(r, "finalizing") \/ thread[r] \in Ending => ~Live(r)
    /\ \A w \in Workers :
        /\ job[w][r] \in Concluded => ~Live(r)
        /\ job[w][r] = "poll" /\ Live(r) => watched[w][r] = child[r].pid

EngineInv == \A r \in Runs : kind[r] # "chunked" /\ EngineOf(r)

\* The invariant of a run reads nothing else.
LEMMA EngineApart ==
    ASSUME NEW q \in Runs, EngineOf(q), SameRun(q)
    PROVE  EngineOf(q)'
BY DEF EngineOf, SameRun, Live, Running, Claimable

\* A run's request and reader threads, in the order they take: no row, a row
\* with the engine's pid, the exit status, a verdict.
LEMMA EngineServe ==
    ASSUME TypeOK, NEW r \in Runs, kind[r] # "chunked", EngineOf(r), StartStep(r) \/ ReaderStep(r)
    PROVE  EngineOf(r)'
<1> USE DEF EngineOf, durable, os, serving, reaping, Goto, SetRow, Live, Running, Claimable
<1>ty. /\ row \in [Runs -> Row] /\ row[r] \in Row /\ child \in [Runs -> Child]
       /\ child[r] \in Child /\ thread \in [Runs -> ThreadPC]
  BY DEF TypeOK
<1>1. CASE LaunchEngine(r)
  <2>1. /\ thread[r] = "launch" /\ thread'[r] = "register"
        /\ UNCHANGED <<row, job, watched, todo>>
    BY <1>1, <1>ty DEF LaunchEngine
  <2> QED
    BY <2>1 DEF NotRecorded, Ending, Terminal, Concluded, Failing
<1>2. CASE LaunchFails(r) \/ Register(r) \/ RecordStartFails(r)
  BY <1>2, <1>ty DEF LaunchFails, Register, RecordStartFails, NotRecorded, Ending
<1>3. CASE RecordStart(r)
  <2>1. /\ row'[r].status = "running" /\ row'[r].recovery = "null" /\ row'[r].pid = child[r].pid
        /\ thread'[r] = "read" /\ row[r].status = "absent"
        /\ UNCHANGED <<child, job, watched, todo>>
    BY <1>3, <1>ty DEF RecordStart, Row, NotRecorded
  <2> QED
    BY <2>1 DEF NotRecorded, Ending, Terminal, Concluded
<1>4. CASE NextChild(r) \/ SpawnChild(r) \/ AdoptChild(r) \/ ChunkingEnds(r) \/ UpdatePid(r)
  BY <1>4 DEF NextChild, SpawnChild, AdoptChild, ChunkingEnds, UpdatePid
<1>5. CASE ChildExited(r)
  <2>1. /\ thread'[r] \in {"rcOk", "rcErr"} /\ ~Live(r)
        /\ UNCHANGED <<row, child, job, watched, todo>>
    BY <1>5, <1>ty DEF ChildExited, LastChild
  <2> QED
    BY <2>1 DEF NotRecorded
<1>6. CASE FinalizeRun(r)
  <2>1. /\ thread'[r] \in {"saveStopped", "enrich", "saveFailed"} /\ thread[r] \in Ending
        /\ row'[r].status = row[r].status /\ row'[r].pid = row[r].pid
        /\ UNCHANGED <<child, job, watched, todo>>
    BY <1>6, <1>ty DEF FinalizeRun, Row, Ending
  <2> QED
    BY <2>1 DEF NotRecorded, Ending
<1>7. CASE EnrichRun(r) \/ Deliver(r)
  BY <1>7, <1>ty DEF EnrichRun, Deliver, NotRecorded, Ending
<1>8. CASE FinalizeScanHistory(r)
  <2>0. FinalizedRow(r).status \in Terminal
    BY <1>ty DEF FinalizedRow, Row, Terminal
  <2> HIDE DEF FinalizedRow
  <2>1. /\ thread'[r] \in {"deliver", "done"} /\ thread[r] \in Ending
        /\ row'[r].status \in Terminal \/ row'[r] = row[r]
        /\ UNCHANGED <<child, job, watched, todo>>
    BY <1>8, <1>ty, <2>0 DEF FinalizeScanHistory, Ending
  <2> QED
    BY <2>1 DEF NotRecorded, Terminal
<1> QED
  BY <1>1, <1>2, <1>3, <1>4, <1>5, <1>6, <1>7, <1>8 DEF StartStep, ReaderStep

\* A slot is for a new run; requests to stop and the engine itself only end it.
LEMMA EngineEnds ==
    ASSUME TypeOK, NEW r \in Runs, kind[r] # "chunked", EngineOf(r),
           \/ \E w \in Workers : ReserveScanSlot(w, r)
           \/ StopStep(r) \/ EngineStep(r) \/ DeadlinePasses(r)
    PROVE  EngineOf(r)'
<1> USE DEF EngineOf, durable, os, serving, reaping, Goto, Live, Running, Claimable
<1>ty. child \in [Runs -> Child] /\ child[r] \in Child /\ thread \in [Runs -> ThreadPC]
  BY DEF TypeOK
<1>1. ASSUME NEW w \in Workers, ReserveScanSlot(w, r) PROVE EngineOf(r)'
  BY <1>1, <1>ty DEF ReserveScanSlot, NotRecorded, Ending
<1>2. CASE StopStep(r) \/ EngineStep(r)
  <2>1. UNCHANGED <<row, thread, job, watched, todo>>
    BY <1>2 DEF StopStep, RequestStop, TerminateProcess, EngineStep, EngineSaves, EngineExits
  <2>2. ASSUME NEW st \in {"ok", "err"}, child' = [child EXCEPT ![r].st = st]
        PROVE  child'[r].st \in {"ok", "err"}
    BY <1>ty, <2>2 DEF Child
  <2>3. child' = child \/ (Live(r) /\ child'[r].st \in {"ok", "err"})
    BY <1>2, <2>2 DEF StopStep, RequestStop, TerminateProcess, EngineStep, EngineSaves, EngineExits
  <2> HIDE DEF Live
  <2>4. child' = child \/ (Live(r) /\ ~Live(r)')
    BY <2>3 DEF Live
  <2> QED
    BY <2>1, <2>3, <2>4 DEF Live, NotRecorded
<1>3. CASE DeadlinePasses(r)
  BY <1>3 DEF DeadlinePasses
<1> QED
  BY <1>1, <1>2, <1>3

\* The reaper and its watchers: EngineAlive asks for the pid in the row, which
\* is the engine's, so a live one is watched under its own pid.
LEMMA EngineJob ==
    ASSUME TypeOK, NEW r \in Runs, kind[r] # "chunked", EngineOf(r),
           NEW w \in Workers, JobStep(w, r)
    PROVE  EngineOf(r)'
<1> USE DEF durable, os, serving, reaping, SetRow, SetJob, EndJob
<1>ty. /\ row \in [Runs -> Row] /\ row[r] \in Row
       /\ job \in [Workers -> [Runs -> JobPC]] /\ todo \in [Workers -> SUBSET Runs]
       /\ watched \in [Workers -> [Runs -> Pids \cup {NoPid}]]
  BY DEF TypeOK
<1>0. /\ UNCHANGED <<child, thread>> /\ row[r].status # "absent"
      /\ \A v \in Workers : todo'[v] \subseteq todo[v]
  <2>1. JobEffect(w, r)
    BY JobOutcome
  <2>2. job[w][r] # "none" \/ r \in todo[w]
    BY <2>1 DEF JobEffect, GivesUp, Claims, Judges, Writes, Delivers, Judging, Failing
  <2> QED
    BY <2>1, <2>2 DEF JobEffect, EngineOf
<1>1. /\ \A v \in Workers \ {w} : job'[v][r] = job[v][r] /\ watched'[v][r] = watched[v][r]
      /\ watched'[w][r] = watched[w][r] \/ job'[w][r] = "poll"
  BY JobOutcome, JobWatches DEF JobEffect
<1>2. ASSUME UNCHANGED row, job'[w][r] \in Concluded => ~Live(r),
             job'[w][r] = "poll" /\ Live(r) => watched'[w][r] = child[r].pid
      PROVE  EngineOf(r)'
  BY <1>0, <1>1, <1>2 DEF EngineOf, Live, Running, Claimable
<1>3. CASE ClaimForRecovery(w, r) \/ ReclaimFinalizing(w, r)
  <2>1. CASE UNCHANGED row
    <3>1. job'[w][r] \in {job[w][r], "none", "reclaim"} /\ UNCHANGED watched
      BY <1>3, <2>1, <1>ty DEF ClaimForRecovery, ReclaimFinalizing, Claimable, Row
    <3> QED
      BY <1>2, <2>1, <3>1 DEF EngineOf, Concluded, Failing
  <2>2. CASE row'[r] = [row[r] EXCEPT !.recovery = "claimed"] /\ Running(r)
             /\ (job'[w][r] = "probe" \/ (job'[w][r] = "rejudge" /\ row[r].recovery = "finalizing"))
    <3>1. row'[r].status = "running" /\ row'[r].recovery = "claimed" /\ row'[r].pid = row[r].pid
      BY <1>ty, <2>2 DEF Row, Running
    <3> QED
      BY <1>0, <1>1, <2>2, <3>1 DEF EngineOf, Live, Running, Claimable, Concluded, Failing, Terminal, NotRecorded
  <2>3. \/ UNCHANGED row
        \/ /\ row' = [row EXCEPT ![r] = [row[r] EXCEPT !.recovery = "claimed"]] /\ Running(r)
           /\ \/ job' = [job EXCEPT ![w][r] = "probe"]
              \/ job' = [job EXCEPT ![w][r] = "rejudge"] /\ row[r].recovery = "finalizing"
    <3>1. CASE ClaimForRecovery(w, r)
      BY <3>1 DEF ClaimForRecovery, Claimable
    <3>2. CASE ReclaimFinalizing(w, r)
      BY <3>2 DEF ReclaimFinalizing, Claimable
    <3> QED
      BY <1>3, <3>1, <3>2
  <2>4. UNCHANGED row \/ (Running(r) /\ row'[r] = [row[r] EXCEPT !.recovery = "claimed"])
    BY <1>ty, <2>3
  <2>5. \/ UNCHANGED row \/ job'[w][r] = "probe"
        \/ job'[w][r] = "rejudge" /\ row[r].recovery = "finalizing"
    BY <1>ty, <2>3
  <2> QED
    BY <2>1, <2>2, <2>4, <2>5
<1>4. CASE ProbeEngine(w, r)
  <2>1. Live(r) => row[r].pid = child[r].pid
    BY <1>0, <1>ty DEF EngineOf, Row, Running
  <2>2. Live(r) => EngineAlive(r)
    BY <2>1, ConstantsAssumption DEF EngineAlive, PidAlive, ArgvMatches
  <2>3. \/ job'[w][r] = "poll" /\ watched'[w][r] = row[r].pid
        \/ job'[w][r] = "judge" /\ ~EngineAlive(r)
    BY <1>4, <1>ty DEF ProbeEngine
  <2>4. UNCHANGED row
    BY <1>4 DEF ProbeEngine
  <2> QED
    BY <1>2, <2>1, <2>2, <2>3, <2>4 DEF Concluded, Failing
<1>5. CASE PollEngine(w, r)
  <2>1. Live(r) => PidAlive(child[r].pid)
    BY DEF PidAlive
  <2>2. ~Live(r)
    BY <1>5, <2>1 DEF PollEngine, EngineOf
  <2>3. job'[w][r] = "gone" /\ UNCHANGED row
    BY <1>5, <1>ty DEF PollEngine
  <2> QED
    BY <1>2, <2>2, <2>3
<1>6. CASE JudgeReport(w, r) \/ EnrichReport(w, r) \/ DeliverFinished(w, r)
  <2>1. job[w][r] \in Concluded /\ job'[w][r] # "poll" /\ UNCHANGED row
    BY <1>6, <1>ty DEF JudgeReport, EnrichReport, DeliverFinished, Concluded
  <2> QED
    BY <1>2, <2>1 DEF EngineOf
<1>7. CASE FinishCompleted(w, r) \/ FinishFailed(w, r)
  <2>1. ASSUME NEW status \in Terminal, NEW recovery, NEW then,
               RecordFinish(w, r, status, recovery, then)
        PROVE  row'[r].status \in Terminal \/ UNCHANGED row
    <3>1. \/ row' = [row EXCEPT ![r] = [row[r] EXCEPT !.status = status, !.recovery = recovery,
                                                    !.pid = NoPid]]
          \/ UNCHANGED row
      BY <2>1 DEF RecordFinish
    <3>2. [row[r] EXCEPT !.status = status, !.recovery = recovery, !.pid = NoPid].status = status
      BY <1>ty DEF Row
    <3> QED
      BY <1>ty, <2>1, <3>1, <3>2
  <2>2. row'[r].status \in Terminal \/ UNCHANGED row
    BY <1>7, <2>1 DEF FinishCompleted, FinishFailed, Terminal
  <2>3. job[w][r] \in Concluded
    BY <1>7 DEF FinishCompleted, FinishFailed, Concluded, Failing
  <2>4. job'[w][r] \in {"none", "deliver"}
    <3>1. \A status, recovery : \A then \in {"none", "deliver"} :
            RecordFinish(w, r, status, recovery, then) => job'[w][r] \in {"none", "deliver"}
      BY <1>ty DEF RecordFinish
    <3> QED
      BY <1>7, <3>1 DEF FinishCompleted, FinishFailed
  <2> QED
    BY <1>0, <1>1, <2>2, <2>3, <2>4 DEF EngineOf, Live, Running, Claimable, Terminal, NotRecorded
<1> QED
  BY <1>3, <1>4, <1>5, <1>6, <1>7 DEF JobStep

\* A boot takes up recorded rows; a restart forgets threads and jobs.
LEMMA EngineRestart ==
    ASSUME TypeOK, NEW r \in Runs, EngineOf(r), Restart \/ \E w \in Workers : BootStep(w)
    PROVE  EngineOf(r)'
<1> USE DEF durable, os, serving, reaping, Live, Running, Claimable
<1>1. ASSUME NEW w \in Workers, BootStep(w) PROVE EngineOf(r)'
  <2>1. /\ UNCHANGED <<row, child, thread, job, watched>>
        /\ \A v \in Workers : r \in todo'[v] => r \in todo[v] \/ Running(r)
    <3>1. todo = [v \in Workers |-> todo[v]]
      BY DEF TypeOK
    <3> QED
      BY <1>1, <3>1 DEF BootStep, Boot, Booted
  <2> QED
    BY <2>1 DEF EngineOf
<1>2. CASE Restart
  <2>0. PICK W \in SUBSET Workers : Crash(W)
    BY <1>2 DEF Restart
  <2>1. /\ UNCHANGED <<row, child>>
        /\ thread'[r] \in {thread[r], "dead"} /\ (thread[r] = "none" => thread'[r] = "none")
        /\ \A w \in Workers :
              job'[w][r] = "none" \/ (job'[w][r] = job[w][r] /\ watched'[w][r] = watched[w][r])
        /\ \A w \in Workers : r \in todo'[w] => r \in todo[w]
    <3>1. /\ UNCHANGED <<row, child>>
          /\ thread' = [q \in Runs |-> IF home[q] \in W /\ thread[q] # "none"
                                       THEN "dead" ELSE thread[q]]
      BY <2>0 DEF Crash
    <3>2. \A w \in Workers :
             /\ job'[w] = IF w \in W THEN [q \in Runs |-> "none"] ELSE job[w]
             /\ watched'[w] = IF w \in W THEN [q \in Runs |-> NoPid] ELSE watched[w]
             /\ todo'[w] = IF w \in W THEN {} ELSE todo[w]
      BY <2>0 DEF Crash
    <3>3. \A w \in Workers :
             job'[w][r] = "none" \/ (job'[w][r] = job[w][r] /\ watched'[w][r] = watched[w][r])
      BY <3>2
    <3>4. \A w \in Workers : r \in todo'[w] => r \in todo[w]
      BY <3>2
    <3>5. thread'[r] \in {thread[r], "dead"} /\ (thread[r] = "none" => thread'[r] = "none")
      BY <3>1
    <3> QED
      BY <3>1, <3>3, <3>4, <3>5
  <2> QED
    BY <2>1 DEF EngineOf, NotRecorded, Ending, Concluded, Failing
<1> QED
  BY <1>1, <1>2

\* EngineInv is inductive in every deployment without chunked runs.
LEMMA EngineStepKeeps == TypeOK /\ EngineInv /\ [Next]_vars => EngineInv'
<1> SUFFICES ASSUME TypeOK, EngineInv, [Next]_vars, NEW q \in Runs
             PROVE  kind'[q] # "chunked" /\ EngineOf(q)'
  BY DEF EngineInv
<1>0. \A r \in Runs : kind[r] # "chunked" /\ EngineOf(r)
  BY DEF EngineInv
<1>1. kind' = kind
  BY KindKept
<1>2. ASSUME NEW r \in Runs, StepOf(r) PROVE EngineOf(q)'
  <2>1. CASE q # r
    BY <1>0, <1>2, <2>1, RunsApart, EngineApart
  <2>2. EngineOf(r)'
    BY <1>0, <1>2, EngineServe, EngineEnds, EngineJob DEF StepOf
  <2> QED
    BY <2>1, <2>2
<1>3. EngineOf(q)'
  BY <1>0, <1>2, WhoseStep, StrangersApart, EngineApart, EngineRestart
<1> QED
  BY <1>0, <1>1, <1>3

\* The runs that are not chunked have one process and no run has begun.
LEMMA EngineInit == "chunked" \notin Kinds /\ Init => EngineInv
BY DEF Init, EngineInv, EngineOf, Running, Claimable, Live, Terminal, Ending, Concluded, Failing

\* A run of one process gets no verdict while its engine is at work, whoever
\* writes it, with rolling restarts, reused pids and failing commits.  A chunked
\* run does not have this property: its row names one of several children.
THEOREM NoVerdictBeforeExit ==
    ASSUME "chunked" \notin Kinds
    PROVE  Spec => []NoVerdictOverLiveEngine
<1>1. EngineInv => NoVerdictOverLiveEngine
  BY DEF EngineInv, EngineOf, NoVerdictOverLiveEngine
<1> QED
  BY <1>1, TypeInit, TypeStep, EngineInit, EngineStepKeeps, PTL DEF Spec

-----------------------------------------------------------------------------
(* A good report is kept. *)

\* Nobody gives up a complete report: a thread that will write "failed" has an
\* exit status, a job has found no complete report where there will never be one.
Lost(r) == ~complete[r] \/ child[r].st # "ok"
KeptOf(r) ==
    /\ thread[r] \in {"rcErr", "saveFailed"} => child[r].st = "err"
    /\ \A w \in Workers : job[w][r] \in Failing => ~complete[r]
    /\ row[r].status = "failed" => Lost(r)

KeptInv == EngineInv /\ \A r \in Runs : kind[r] = "chain" /\ KeptOf(r)

\* The invariant of a run reads nothing else.
LEMMA KeptApart ==
    ASSUME NEW q \in Runs, KeptOf(q), SameRun(q)
    PROVE  KeptOf(q)'
BY DEF KeptOf, Lost, SameRun

\* The thread writes "failed" only after an exit status that is not 0.
LEMMA KeptServe ==
    ASSUME TypeOK, NEW r \in Runs, kind[r] = "chain", EngineOf(r), KeptOf(r),
           StartStep(r) \/ ReaderStep(r)
    PROVE  KeptOf(r)'
<1>ty. /\ row \in [Runs -> Row] /\ row[r] \in Row /\ thread \in [Runs -> ThreadPC]
  BY DEF TypeOK
<1>0. UNCHANGED <<complete, job>>
  BY ServeOutcome DEF ServeEffect, reaping
<1> USE DEF Goto, SetRow
<1>1. CASE LaunchEngine(r)
  <2>1. thread'[r] = "register" /\ row[r].status = "absent" /\ row' = row
    BY <1>1, <1>ty DEF LaunchEngine, durable, EngineOf, NotRecorded
  <2> QED
    BY <1>0, <2>1 DEF KeptOf, EngineOf
<1>2. CASE LaunchFails(r) \/ Register(r) \/ RecordStartFails(r) \/ EnrichRun(r) \/ Deliver(r)
  <2>1. thread'[r] \notin {"rcErr", "saveFailed"} /\ UNCHANGED <<child, row>>
    BY <1>2, <1>ty
       DEF LaunchFails, Register, RecordStartFails, EnrichRun, Deliver, durable, os
  <2> QED
    BY <1>0, <2>1 DEF KeptOf, Lost
<1>3. CASE RecordStart(r)
  <2>1. row'[r].status = "running" /\ thread'[r] \in {"read", "between"} /\ child' = child
    BY <1>3, <1>ty DEF RecordStart, Row, os
  <2> QED
    BY <1>0, <2>1 DEF KeptOf
<1>4. CASE NextChild(r) \/ SpawnChild(r) \/ AdoptChild(r) \/ ChunkingEnds(r) \/ UpdatePid(r)
  BY <1>4 DEF NextChild, SpawnChild, AdoptChild, ChunkingEnds, UpdatePid, EngineOf
<1>5. CASE ChildExited(r)
  <2>1. UNCHANGED <<child, row>> /\ (child[r].st = "err" \/ thread'[r] = "rcOk")
    BY <1>5, <1>ty DEF ChildExited, LastChild, durable, os
  <2> QED
    BY <1>0, <2>1 DEF KeptOf, Lost
<1>6. CASE FinalizeRun(r)
  <2>1. /\ row'[r].status = row[r].status /\ child' = child
        /\ thread'[r] \in {"rcErr", "saveFailed"} => thread[r] = "rcErr"
    BY <1>6, <1>ty DEF FinalizeRun, Row, os
  <2> QED
    BY <1>0, <2>1 DEF KeptOf, Lost
<1>7. CASE FinalizeScanHistory(r)
  <2>0. FinalizedRow(r).status = "failed" => thread[r] = "saveFailed"
    BY <1>7, <1>ty DEF FinalizeScanHistory, FinalizedRow, Row
  <2>1. row'[r] = FinalizedRow(r) \/ row'[r] = row[r]
    BY <1>7, <1>ty DEF FinalizeScanHistory
  <2>2. child' = child /\ thread'[r] \in {"deliver", "done"}
    BY <1>7, <1>ty DEF FinalizeScanHistory, os
  <2> QED
    BY <1>0, <2>0, <2>1, <2>2 DEF KeptOf, Lost
<1> QED
  BY <1>1, <1>2, <1>3, <1>4, <1>5, <1>6, <1>7 DEF StartStep, ReaderStep

\* A report becomes complete and an exit status appears only while the engine
\* is live, and then nobody is about to write.
LEMMA KeptEnds ==
    ASSUME TypeOK, NEW r \in Runs, kind[r] = "chain", EngineOf(r), KeptOf(r),
           \/ \E w \in Workers : ReserveScanSlot(w, r)
           \/ StopStep(r) \/ EngineStep(r) \/ DeadlinePasses(r)
    PROVE  KeptOf(r)'
<1>1. ASSUME NEW w \in Workers, ReserveScanSlot(w, r) PROVE KeptOf(r)'
  BY <1>1 DEF ReserveScanSlot, Goto, durable, os, reaping, KeptOf, Lost, TypeOK
<1>2. CASE StopStep(r) \/ EngineStep(r) \/ DeadlinePasses(r)
  <2>1. UNCHANGED <<row, thread, job>> /\ (Live(r) \/ UNCHANGED <<child, complete>>)
    BY <1>2 DEF StopStep, RequestStop, TerminateProcess, EngineStep, EngineSaves, EngineExits,
                DeadlinePasses, durable, os, serving, reaping
  <2>2. Live(r) => /\ thread[r] \notin {"rcErr", "saveFailed"} /\ row[r].status # "failed"
                   /\ \A w \in Workers : job[w][r] \notin Failing
    BY DEF EngineOf, Ending, Terminal, Concluded
  <2> QED
    BY <2>1, <2>2 DEF KeptOf, Lost
<1> QED
  BY <1>1, <1>2

\* A job gives a run up after it has looked for a complete report.
LEMMA KeptJob ==
    ASSUME TypeOK, NEW r \in Runs, kind[r] = "chain", EngineOf(r), KeptOf(r),
           NEW w \in Workers, JobStep(w, r)
    PROVE  KeptOf(r)'
<1>1. JobEffect(w, r)
  BY JobOutcome
<1>2. UNCHANGED <<complete, child, thread>> /\ \A v \in Workers \ {w} : job'[v][r] = job[v][r]
  BY <1>1 DEF JobEffect, os, serving
<1>3. row'[r].status = "failed" => row[r].status = "failed" \/ job[w][r] \in Failing
  BY <1>1 DEF JobEffect, GivesUp, Claims, Judges, Writes, Delivers
<1>4. job'[w][r] \in Failing => job[w][r] \in Failing \/ ~complete[r]
  <2>1. job \in [Workers -> [Runs -> JobPC]]
    BY DEF TypeOK
  <2>2. CASE JudgeReport(w, r)
    BY <2>1, <2>2 DEF JudgeReport, ReportComplete, SetJob, Failing
  <2>3. CASE ProbeEngine(w, r) \/ PollEngine(w, r) \/ EnrichReport(w, r) \/ DeliverFinished(w, r)
    BY <2>1, <2>3 DEF ProbeEngine, PollEngine, EnrichReport, DeliverFinished, SetJob, EndJob,
                      Failing
  <2>4. CASE ClaimForRecovery(w, r) \/ ReclaimFinalizing(w, r)
    BY <2>1, <2>4 DEF ClaimForRecovery, ReclaimFinalizing, SetJob, EndJob, Failing
  <2>5. CASE FinishCompleted(w, r) \/ FinishFailed(w, r)
    <3>1. \A status, recovery : \A then \in {"none", "deliver"} :
            RecordFinish(w, r, status, recovery, then) => job'[w][r] \in {"none", "deliver"}
      BY <2>1 DEF RecordFinish, SetJob, EndJob
    <3> QED
      BY <2>5, <3>1 DEF FinishCompleted, FinishFailed, Failing
  <2> QED
    BY <2>2, <2>3, <2>4, <2>5 DEF JobStep
<1> QED
  BY <1>2, <1>3, <1>4 DEF KeptOf, Lost

\* A boot and a restart write nothing.
LEMMA KeptRestart ==
    ASSUME TypeOK, NEW r \in Runs, KeptOf(r), Restart \/ \E w \in Workers : BootStep(w)
    PROVE  KeptOf(r)'
<1>1. ASSUME NEW w \in Workers, BootStep(w) PROVE KeptOf(r)'
  BY <1>1 DEF BootStep, Boot, Booted, durable, os, serving, reaping, KeptOf, Lost
<1>2. CASE Restart
  <2>0. PICK W \in SUBSET Workers : Crash(W)
    BY <1>2 DEF Restart
  <2>1. UNCHANGED <<row, complete, child>>
    BY <2>0 DEF Crash, durable, os
  <2>2. thread' = [q \in Runs |-> IF home[q] \in W /\ thread[q] # "none"
                                  THEN "dead" ELSE thread[q]]
    BY <2>0 DEF Crash
  <2>3. \A w \in Workers : job'[w] = IF w \in W THEN [q \in Runs |-> "none"] ELSE job[w]
    BY <2>0 DEF Crash
  <2>4. \A w \in Workers : job'[w][r] = "none" \/ job'[w][r] = job[w][r]
    BY <2>3
  <2>5. thread'[r] \in {thread[r], "dead"}
    BY <2>2
  <2> QED
    BY <2>1, <2>4, <2>5 DEF KeptOf, Lost, Failing
<1> QED
  BY <1>1, <1>2

\* KeptInv is inductive when all runs are of the chain command.
LEMMA KeptStep == TypeOK /\ KeptInv /\ [Next]_vars => KeptInv'
<1> SUFFICES ASSUME TypeOK, KeptInv, [Next]_vars, NEW q \in Runs
             PROVE  kind'[q] = "chain" /\ KeptOf(q)'
  BY EngineStepKeeps DEF KeptInv
<1>0. \A r \in Runs : kind[r] = "chain" /\ EngineOf(r) /\ KeptOf(r)
  BY DEF KeptInv, EngineInv
<1>1. kind' = kind
  BY KindKept
<1>2. ASSUME NEW r \in Runs, StepOf(r) PROVE KeptOf(q)'
  <2>1. CASE q # r
    BY <1>0, <1>2, <2>1, RunsApart, KeptApart
  <2>2. KeptOf(r)'
    BY <1>0, <1>2, KeptServe, KeptEnds, KeptJob DEF StepOf
  <2> QED
    BY <2>1, <2>2
<1>3. KeptOf(q)'
  BY <1>0, <1>2, WhoseStep, StrangersApart, KeptApart, KeptRestart
<1> QED
  BY <1>0, <1>1, <1>3

\* A scan whose engine did all its work and exited with 0 is not recorded as
\* failed, whoever writes the verdict and however workers restart.  It is for
\* the chain command only: report_complete knows no other.
THEOREM GoodReportsKept ==
    ASSUME Kinds \subseteq {"chain"}
    PROVE  Spec => []GoodReportKept
<1>1. Init => KeptInv
  <2>1. Init => \A r \in Runs : kind[r] = "chain"
    BY DEF Init
  <2>2. Init => \A r \in Runs : KeptOf(r)
    BY DEF Init, KeptOf, Failing
  <2> QED
    BY <2>1, <2>2, EngineInit DEF KeptInv
<1>2. KeptInv => GoodReportKept
  BY DEF KeptInv, KeptOf, Lost, GoodReportKept
<1> QED
  BY <1>1, <1>2, TypeInit, TypeStep, KeptStep, PTL DEF Spec

-----------------------------------------------------------------------------
(* MAX_CONCURRENT_SCANS bounds the engines. *)

\* Without crashes every live engine has a thread of its worker, at a point
\* where the registry says the run is at work.
WithProcess(r) ==
    \/ thread[r] \in {"adopt", "spawned", "read"}
    \/ kind[r] # "chunked" /\ thread[r] \in {"register", "record", "lost"}

SlotOf(r) ==
    /\ Live(r) => WithProcess(r)
    /\ thread[r] # "none" => home[r] \in Workers

\* Each worker keeps to its limit: a placeholder holds the slot from the count
\* under _runs_lock until the thread ends.
SlotsInv ==
    /\ \A r \in Runs : SlotOf(r)
    /\ \A w \in Workers : IsFiniteSet(ActiveRuns(w)) /\ Cardinality(ActiveRuns(w)) <= Limit

\* A run that has a slot does not change its worker, and a run gets one by a
\* reservation only.
LEMMA SlotKept ==
    ASSUME TypeOK, NEW r \in Runs, SlotOf(r),
           StartStep(r) \/ ReaderStep(r) \/ StopStep(r) \/ EngineStep(r) \/ DeadlinePasses(r)
    PROVE  SlotOf(r)' /\ home' = home /\ (Working(r)' => Working(r))
<1> USE DEF durable, os, serving, reaping, Goto, SetRow
<1>ty. child \in [Runs -> Child] /\ child[r] \in Child /\ thread \in [Runs -> ThreadPC]
  BY DEF TypeOK
<1>1. CASE StopStep(r) \/ EngineStep(r) \/ DeadlinePasses(r)
  <2>1. UNCHANGED <<thread, home, kind>>
    BY <1>1 DEF StopStep, RequestStop, TerminateProcess, EngineStep, EngineSaves, EngineExits,
                DeadlinePasses
  <2>2. UNCHANGED child \/ Live(r)
    BY <1>1 DEF StopStep, RequestStop, TerminateProcess, EngineStep, EngineSaves, EngineExits,
                DeadlinePasses
  <2> QED
    BY <2>1, <2>2 DEF SlotOf, Live, WithProcess, Working
<1>2. CASE StartStep(r) \/ ReaderStep(r)
  <2>1. kind' = kind /\ home' = home
    BY <1>2 DEF StartStep, LaunchEngine, LaunchFails, Register, RecordStart, RecordStartFails,
                ReaderStep, NextChild, SpawnChild, AdoptChild, ChunkingEnds, UpdatePid,
                ChildExited, FinalizeRun,
                EnrichRun, FinalizeScanHistory, Deliver
  <2>2. thread[r] # "none" /\ (Working(r)' => Working(r))
    BY <1>2, <1>ty
       DEF StartStep, LaunchEngine, LaunchFails, Register, RecordStart, RecordStartFails,
           ReaderStep, NextChild, SpawnChild, AdoptChild, ChunkingEnds, UpdatePid,
           ChildExited, FinalizeRun,
           EnrichRun, FinalizeScanHistory, Deliver, Working
  <2>3. Live(r)' => WithProcess(r)'
    <3>1. CASE LaunchEngine(r)
      <4>1. thread'[r] = "register" /\ (child' = child \/ kind[r] # "chunked")
        BY <1>ty, <3>1 DEF LaunchEngine
      <4>2. thread[r] = "launch"
        BY <3>1 DEF LaunchEngine
      <4> QED
        BY <2>1, <4>1, <4>2 DEF SlotOf, Live, WithProcess
    <3>2. CASE SpawnChild(r)
      BY <1>ty, <3>2 DEF SpawnChild, WithProcess
    <3>3. CASE LaunchFails(r) \/ Register(r) \/ RecordStart(r) \/ RecordStartFails(r)
      BY <1>ty, <2>1, <3>3
         DEF LaunchFails, Register, RecordStart, RecordStartFails, SlotOf, Live, WithProcess
    <3>4. CASE NextChild(r) \/ AdoptChild(r) \/ ChunkingEnds(r) \/ UpdatePid(r) \/ ChildExited(r)
      BY <1>ty, <2>1, <3>4
         DEF NextChild, AdoptChild, ChunkingEnds, UpdatePid, ChildExited, SlotOf, Live, WithProcess
    <3>5. CASE FinalizeRun(r) \/ EnrichRun(r) \/ FinalizeScanHistory(r) \/ Deliver(r)
      BY <1>ty, <2>1, <3>5
         DEF FinalizeRun, EnrichRun, FinalizeScanHistory, Deliver, SlotOf, Live, WithProcess
    <3> QED
      BY <1>2, <3>1, <3>2, <3>3, <3>4, <3>5 DEF StartStep, ReaderStep
  <2> QED
    BY <2>1, <2>2, <2>3 DEF SlotOf
<1> QED
  BY <1>1, <1>2

\* The steps of the reaper, of a boot and of strangers take and free no slot.
LEMMA SlotsUntouched ==
    ASSUME TypeOK,
           \/ \E w \in Workers, r \in Runs : JobStep(w, r)
           \/ \E w \in Workers : BootStep(w)
           \/ \E p \in Pids : StrangerComes(p) \/ StrangerLeaves(p)
           \/ UNCHANGED vars
    PROVE  UNCHANGED <<child, serving>>
<1>1. ASSUME NEW w \in Workers, NEW r \in Runs, JobStep(w, r) PROVE UNCHANGED <<child, serving>>
  BY <1>1, JobOutcome DEF JobEffect, os
<1> QED
  BY <1>1 DEF BootStep, Boot, Booted, StrangerComes, StrangerLeaves, vars, os

\* SlotsInv is inductive with the in-memory registry and no crash.
LEMMA SlotsStep ==
    ASSUME RunStore = "memory", MaxCrashes = 0, TypeOK, SlotsInv, [Next]_vars
    PROVE  SlotsInv'
<1>ty. /\ child \in [Runs -> Child] /\ thread \in [Runs -> ThreadPC]
       /\ home \in [Runs -> Workers \cup {Nobody}] /\ Limit \in Nat /\ crashes = 0
  BY ConstantsAssumption DEF TypeOK
<1>inv. /\ \A r \in Runs : SlotOf(r)
        /\ \A w \in Workers : IsFiniteSet(ActiveRuns(w)) /\ Cardinality(ActiveRuns(w)) <= Limit
  BY DEF SlotsInv
<1>kind. kind' = kind
  BY KindKept
<1>apart. ASSUME NEW r \in Runs, StepOf(r), NEW q \in Runs \ {r}
          PROVE  SlotOf(q)' /\ (Working(q)' <=> Working(q)) /\ home'[q] = home[q]
  <2>1. SameRun(q)
    BY <1>apart, RunsApart
  <2> QED
    BY <1>inv, <2>1 DEF SameRun, SlotOf, Live, WithProcess, Working
<1>shrinks. ASSUME NEW w \in Workers, ActiveRuns(w)' \subseteq ActiveRuns(w)
            PROVE  IsFiniteSet(ActiveRuns(w))' /\ (Cardinality(ActiveRuns(w)) <= Limit)'
  BY <1>ty, <1>inv, <1>shrinks, FS_Subset, FS_CardinalityType
<1>1. ASSUME NEW v \in Workers, NEW r \in Runs, ReserveScanSlot(v, r)
      PROVE  SlotsInv'
  <2>1. /\ thread[r] = "none" /\ Cardinality(ActiveRuns(v)) < Limit
        /\ thread' = [thread EXCEPT ![r] = "launch"] /\ home' = [home EXCEPT ![r] = v]
        /\ child' = child
    BY <1>1 DEF ReserveScanSlot, Goto, os
  <2>2. \A q \in Runs : SlotOf(q)'
    BY <1>ty, <1>inv, <1>kind, <2>1 DEF SlotOf, Live, WithProcess
  <2>3. ASSUME NEW w \in Workers
        PROVE  ActiveRuns(w)' = IF w = v THEN ActiveRuns(v) \cup {r} ELSE ActiveRuns(w)
    BY <1>ty, <2>1 DEF ActiveRuns, Working
  <2>4. IsFiniteSet(ActiveRuns(v) \cup {r}) /\ Cardinality(ActiveRuns(v) \cup {r}) <= Limit
    <3> DEFINE A == ActiveRuns(v)
    <3>1. IsFiniteSet(A) /\ Cardinality(A) \in Nat /\ Cardinality(A) < Limit
      BY <1>inv, <2>1, FS_CardinalityType
    <3> HIDE DEF A
    <3>2. /\ IsFiniteSet(A \cup {r})
          /\ Cardinality(A \cup {r}) = IF r \in A THEN Cardinality(A) ELSE Cardinality(A) + 1
      BY ONLY <3>1, FS_AddElement
    <3> QED
      BY <1>ty, <3>1, <3>2 DEF A
  <2> QED
    BY <1>inv, <2>2, <2>3, <2>4 DEF SlotsInv
<1>2. ASSUME NEW r \in Runs,
             StartStep(r) \/ ReaderStep(r) \/ StopStep(r) \/ EngineStep(r) \/ DeadlinePasses(r)
      PROVE  SlotsInv'
  <2>1. SlotOf(r)' /\ home' = home /\ (Working(r)' => Working(r))
    BY <1>2, <1>inv, SlotKept
  <2>2. \A q \in Runs : SlotOf(q)' /\ home'[q] = home[q] /\ (Working(q)' => Working(q))
    BY <1>2, <1>apart, <2>1 DEF StepOf
  <2>3. \A w \in Workers : ActiveRuns(w)' \subseteq ActiveRuns(w)
    BY <2>2 DEF ActiveRuns
  <2> QED
    BY <1>shrinks, <2>2, <2>3 DEF SlotsInv
<1>3. CASE UNCHANGED <<child, serving>>
  BY <1>3, <1>inv DEF SlotsInv, SlotOf, Live, WithProcess, ActiveRuns, Working, serving
<1>4. ~Restart
  BY <1>ty DEF Restart, Crash
<1> QED
  BY <1>1, <1>2, <1>3, <1>4, SlotsUntouched, WhoseStep DEF StepOf

\* At first there is no thread, and no slot is taken.
LEMMA SlotsBegin == Init => SlotsInv
<1> SUFFICES ASSUME Init PROVE SlotsInv
  OBVIOUS
<1>1. \A r \in Runs : ~Live(r) /\ thread[r] = "none"
  BY DEF Init, Live
<1>2. \A v \in Workers : ActiveRuns(v) = {}
  <2> SUFFICES ASSUME RunStore = "db" PROVE \A r \in Runs : ~Running(r)
    BY <1>1 DEF ActiveRuns, Working
  <2> QED
    BY DEF Init, Running
<1>3. Limit \in Nat /\ IsFiniteSet({}) /\ Cardinality({}) = 0
  BY FS_EmptySet, ConstantsAssumption
<1> QED
  BY <1>1, <1>2, <1>3 DEF SlotsInv, SlotOf

\* MAX_CONCURRENT_SCANS bounds the engines, not only the bookkeeping, as the
\* placeholder of _reserve_scan_slot is meant to: true of each worker as long as
\* no worker dies, whatever is started, stopped, chunked or fails.
THEOREM EnginesLimited ==
    ASSUME RunStore = "memory", MaxCrashes = 0
    PROVE  Spec => [](\A w \in Workers : Cardinality({r \in Runs : home[r] = w /\ Live(r)}) <= Limit)
<1>1. SlotsInv => \A w \in Workers : Cardinality({r \in Runs : home[r] = w /\ Live(r)}) <= Limit
  <2> SUFFICES ASSUME SlotsInv, NEW w \in Workers
               PROVE  Cardinality({r \in Runs : home[r] = w /\ Live(r)}) <= Limit
    OBVIOUS
  <2>1. {r \in Runs : home[r] = w /\ Live(r)} \subseteq ActiveRuns(w)
    BY DEF SlotsInv, SlotOf, WithProcess, ActiveRuns, Working
  <2> QED
    BY <2>1, FS_Subset, FS_CardinalityType, ConstantsAssumption DEF SlotsInv
<1> QED
  BY <1>1, SlotsBegin, TypeInit, TypeStep, SlotsStep, PTL DEF Spec

\* With one worker that is all there is.
THEOREM OneWorkerWithinLimit ==
    ASSUME RunStore = "memory", MaxCrashes = 0, NEW w \in Workers, Workers = {w}
    PROVE  Spec => []EnginesWithinLimit
<1>1. SlotsInv => EnginesWithinLimit
  <2> SUFFICES ASSUME SlotsInv PROVE EnginesWithinLimit
    OBVIOUS
  <2>1. {r \in Runs : Live(r)} \subseteq ActiveRuns(w)
    BY DEF SlotsInv, SlotOf, WithProcess, ActiveRuns, Working
  <2> QED
    BY <2>1, FS_Subset, FS_CardinalityType, ConstantsAssumption DEF SlotsInv, EnginesWithinLimit
<1> QED
  BY <1>1, SlotsBegin, TypeInit, TypeStep, SlotsStep, PTL DEF Spec

=============================================================================

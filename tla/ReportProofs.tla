----------------------------- MODULE ReportProofs -----------------------------
(***************************************************************************)
(* What a reader is shown of the reports, in two parts that share nothing  *)
(* but this module.                                                        *)
(*   - Of one finished run (Enrichment): what the viewer shows, for any    *)
(*     plugins in any order, any number of faults, viewers and enrich      *)
(*     commands.                                                           *)
(*   - Of all the reports of a project (ProjectReports): the roll-up and   *)
(*     the history of an asset, for any reports, whose scans begin and end *)
(*     in any order, and any listing of the directory.                     *)
(***************************************************************************)
EXTENDS Enrichment, ProjectReports, FiniteSetTheorems, WellFoundedInduction, TLAPS

-----------------------------------------------------------------------------
(* The viewer of a finished run.                                           *)

Running == {"finalize", "recover"}
Over == {"completed", "recovered"}
Chains == {"run", "save", "final", "last", "enrich", "done", "killed"}
Verdicts == {"open", "lost", "failed"} \cup Running \cup Over
Processes == [by : {"engine", "web", "viewer", "nobody"}, plugin : Range(Plugins),
              read : Artifacts, open : BOOLEAN]
Shells == {"none", "torn"} \cup Artifacts

\* The values of the variables.  A plugin has read a part of the report, or all
\* of it: none is started on a report that cannot be read.
EnrichmentTypeOK ==
    /\ report \in [text : Shells, ext : [Range(Plugins) -> Shells],
                   listed : [Range(Plugins) -> Nat]]
    /\ sidecar \in [Range(Plugins) -> Shells]
    /\ plugins \subseteq Processes
    /\ queue \in [{"engine", "web"} -> Seq(Range(Plugins))]
    /\ chain \in Chains /\ verdict \in Verdicts
    /\ failed \subseteq Range(Plugins) /\ clashed \subseteq Range(Plugins)
    /\ peeked \in BOOLEAN /\ faults \in Nat /\ extra \in Nat

\* Who runs plugins when: the engine at the end of its chain, the web process
\* before its verdict, both on a report that is whole and that nobody opens again.
Phases ==
    /\ chain \in {"enrich", "done"} \/ verdict \in Running \cup Over => report.text = "whole"
    /\ verdict \in Running => chain \in {"done", "killed"}
    /\ verdict \in Over => chain \in {"done", "killed", "enrich"}
    /\ queue["engine"] # <<>> => chain = "enrich"
    /\ queue["web"] # <<>> => verdict \in Running

\* The engine, the web process and a viewer wait for the plugin they started,
\* which is the next one of the job.  Only a viewer's MITRE reads a part.
Waiting ==
    /\ \A pr \in plugins : pr.by \in {"engine", "web"} =>
            queue[pr.by] # <<>> /\ Head(queue[pr.by]) = pr.plugin
    /\ \A pr, qr \in plugins : pr.by = qr.by /\ pr.by # "nobody" => pr = qr
    /\ \A pr \in plugins : pr.read = "part" => pr.plugin = Mitre /\ peeked

\* The web process has run a plugin on the whole report.
Ran(p) == \/ verdict \in Over
          \/ verdict \in Running /\ p \notin Range(queue["web"])
Excused(p) == p \in failed \cup clashed \/ (p = Mitre /\ peeked)

\* From then on its sidecar is whole, or is being written by a process that will
\* leave it whole, or fail.
Shown == \A p \in Range(Plugins) : Ran(p) /\ ~Excused(p) => sidecar[p] = "whole" \/ Writing(p) # {}

\* Without a fault or a viewer the engine and the web process take turns.
Turns ==
    faults = 0 /\ extra = 0 =>
        /\ clashed = {}
        /\ \A pr \in plugins : pr.by \in {"engine", "web"}
        /\ chain # "killed" /\ verdict # "lost"
        /\ verdict # "open" => chain = "done"

EnrichmentInv == EnrichmentTypeOK /\ Phases /\ Waiting /\ Shown /\ Turns

-----------------------------------------------------------------------------
(* Queues.                                                                 *)

\* What is left of a queue when its head is taken: all but, possibly, the head.
LEMMA TailOf ==
    ASSUME NEW S, NEW q \in Seq(S), q # <<>>
    PROVE /\ Tail(q) \in Seq(S) /\ Head(q) \in S
          /\ Range(q) \subseteq {Head(q)} \cup Range(Tail(q))
          /\ Range(Tail(q)) \subseteq Range(q)
<1>1. Len(q) \in Nat \ {0} /\ Head(q) = q[1] /\ Len(Tail(q)) = Len(q) - 1
      /\ \A i \in 1 .. Len(q) - 1 : Tail(q)[i] = q[i + 1]
    OBVIOUS
<1>2. \A x \in Range(q) : x = Head(q) \/ x \in Range(Tail(q))
    <2> SUFFICES ASSUME NEW i \in 1 .. Len(q) PROVE q[i] = Head(q) \/ q[i] \in Range(Tail(q))
        BY DEF Range
    <2>1. CASE i = 1
        BY <2>1, <1>1
    <2>2. CASE i # 1
        <3>1. i - 1 \in 1 .. Len(Tail(q)) /\ Tail(q)[i - 1] = q[i]
            BY <2>2, <1>1
        <3>2. DOMAIN Tail(q) = 1 .. Len(Tail(q))
            OBVIOUS
        <3> QED
            BY <3>1, <3>2 DEF Range
    <2> QED
        BY <2>1, <2>2
<1>3. \A x \in Range(Tail(q)) : x \in Range(q)
    <2> SUFFICES ASSUME NEW i \in 1 .. Len(Tail(q)) PROVE Tail(q)[i] \in Range(q)
        BY DEF Range
    <2>1. i + 1 \in DOMAIN q /\ Tail(q)[i] = q[i + 1]
        BY <1>1
    <2> QED
        BY <2>1 DEF Range
<1> QED
    BY <1>1, <1>2, <1>3

-----------------------------------------------------------------------------
(* Types.                                                                  *)

\* The scan starts with its chain running and nothing written.
LEMMA EnrichmentStart == EnrichmentInit => EnrichmentInv
<1> SUFFICES ASSUME EnrichmentInit PROVE EnrichmentInv
    OBVIOUS
<1> USE EnrichmentAssumption DEF EnrichmentInit
<1>1. EnrichmentTypeOK
    <2>1. <<>> \in Seq(Range(Plugins)) /\ Nothing \in [Range(Plugins) -> Shells]
        BY DEF Nothing, Shells
    <2>2. [by \in {"engine", "web"} |-> <<>>] \in [{"engine", "web"} -> Seq(Range(Plugins))]
        BY <2>1
    <2>3. /\ [p \in Range(Plugins) |-> 0] \in [Range(Plugins) -> Nat]
          /\ "none" \in Shells
        BY DEF Shells
    <2>4. report \in [text : Shells, ext : [Range(Plugins) -> Shells],
                      listed : [Range(Plugins) -> Nat]]
        BY <2>1, <2>3
    <2> QED
        BY <2>1, <2>2, <2>4 DEF EnrichmentTypeOK, Chains, Verdicts
<1>2. Phases /\ Waiting /\ Shown /\ Turns
    BY DEF Phases, Waiting, Shown, Turns, Ran, Running, Over
<1> QED
    BY <1>1, <1>2 DEF EnrichmentInv

\* When a plugin ends, the queue of whoever waits for it stays a queue of plugins.
LEMMA AdvanceTypes ==
    ASSUME EnrichmentTypeOK, Waiting, NEW pr \in plugins, Advance(pr.by)
    PROVE queue' \in [{"engine", "web"} -> Seq(Range(Plugins))]
<1>1. queue \in [{"engine", "web"} -> Seq(Range(Plugins))] /\ pr \in Processes
    BY DEF EnrichmentTypeOK
<1>2. CASE pr.by \in {"engine", "web"}
    <2>1. queue[pr.by] # <<>> /\ queue[pr.by] \in Seq(Range(Plugins))
        BY <1>1, <1>2 DEF Waiting
    <2>2. Tail(queue[pr.by]) \in Seq(Range(Plugins))
        BY <2>1, TailOf
    <2>3. queue' = [queue EXCEPT ![pr.by] = Tail(@)]
        BY <1>1, <1>2 DEF Advance
    <2> QED
        BY <1>1, <1>2, <2>2, <2>3
<1>3. CASE pr.by \notin {"engine", "web"}
    BY <1>1, <1>3 DEF Advance
<1> QED
    BY <1>2, <1>3

\* LoadReport keeps the text, and the extensions and counts have their types.
LEMMA LoadedTypes ==
    ASSUME EnrichmentTypeOK
    PROVE /\ LoadReport(report) \in [text : Shells, ext : [Range(Plugins) -> Shells],
                                     listed : [Range(Plugins) -> Nat]]
          /\ LoadReport(report).text = report.text
<1>1. report.text \in Shells /\ report.ext \in [Range(Plugins) -> Shells]
    BY DEF EnrichmentTypeOK
<1>2. Extensions(report) \in [Range(Plugins) -> Shells]
    BY <1>1 DEF EnrichmentTypeOK, Extensions
<1>3. Collected(Extensions(report)) \in [Range(Plugins) -> Nat]
    BY DEF Collected
<1> QED
    BY <1>1, <1>2, <1>3 DEF LoadReport

\* Every step keeps the types.
LEMMA EnrichmentTypeStep ==
    ASSUME EnrichmentTypeOK, Phases, Waiting, EnrichmentNext
    PROVE EnrichmentTypeOK'
<1>r. report' \in [text : Shells, ext : [Range(Plugins) -> Shells], listed : [Range(Plugins) -> Nat]]
    <2>1. \A t \in Shells : [report EXCEPT !.text = t] \in
                [text : Shells, ext : [Range(Plugins) -> Shells], listed : [Range(Plugins) -> Nat]]
        BY DEF EnrichmentTypeOK
    <2>2. {"torn", "part", "whole"} \subseteq Shells
        BY DEF Shells, Artifacts
    <2>3. CASE OpenReport \/ CloseReport \/ FinalSave
        BY <2>1, <2>2, <2>3 DEF OpenReport, CloseReport, FinalSave
    <2>4. CASE MergeReport
        BY <2>4, LoadedTypes DEF MergeReport
    <2>5. CASE report' = report
        BY <2>5 DEF EnrichmentTypeOK
    <2> QED
        BY <2>3, <2>4, <2>5 DEF EnrichmentNext, StartPlugin, OpenSidecar, CloseSidecar, PluginFails,
            EngineKilled, EnrichCommand, Finalize, WorkerKilled, Recover, Complete, ViewReport
<1>s. sidecar' \in [Range(Plugins) -> Shells]
    <2>1. ASSUME NEW pr \in plugins, NEW t \in Shells
          PROVE [sidecar EXCEPT ![pr.plugin] = t] \in [Range(Plugins) -> Shells]
        BY DEF EnrichmentTypeOK
    <2>2. ASSUME NEW pr \in plugins, OpenSidecar(pr) \/ CloseSidecar(pr) PROVE sidecar' \in [Range(Plugins) -> Shells]
        <3>1. pr.read \in Shells /\ "torn" \in Shells
            BY DEF EnrichmentTypeOK, Processes, Shells
        <3> QED
            BY <2>1, <2>2, <3>1 DEF OpenSidecar, CloseSidecar
    <2>3. CASE sidecar' = sidecar
        BY <2>3 DEF EnrichmentTypeOK
    <2> QED
        BY <2>2, <2>3 DEF EnrichmentNext, StartPlugin, PluginFails, OpenReport, CloseReport,
            FinalSave, MergeReport, EngineKilled, EnrichCommand, Finalize, WorkerKilled, Recover,
            Complete, ViewReport
<1>p. plugins' \subseteq Processes
    <2>1. ASSUME NEW by \in DOMAIN queue, StartPlugin(by) PROVE plugins' \subseteq Processes
        <3>1. by \in {"engine", "web"} /\ queue[by] # <<>> /\ queue[by] \in Seq(Range(Plugins))
            BY <2>1 DEF EnrichmentTypeOK, StartPlugin
        <3>2. Head(queue[by]) \in Range(Plugins)
            BY <3>1, TailOf
        <3>3. report.text = "whole"
            BY <3>1 DEF Phases
        <3>4. Process(by, Head(queue[by])) \in Processes
            <4>1. by \in {"engine", "web", "viewer", "nobody"} /\ report.text \in Artifacts
                BY <3>1, <3>3 DEF Artifacts
            <4> HIDE <3>3
            <4> QED
                BY <3>2, <4>1 DEF Process, Processes
        <3> QED
            BY <2>1, <3>4 DEF StartPlugin, EnrichmentTypeOK
    <2>2. ASSUME NEW pr \in plugins, OpenSidecar(pr) \/ CloseSidecar(pr) \/ PluginFails(pr)
          PROVE plugins' \subseteq Processes
        <3>1. pr \in Processes /\ plugins \subseteq Processes
            BY DEF EnrichmentTypeOK
        <3>2. [pr EXCEPT !.open = TRUE] \in Processes
            BY <3>1 DEF Processes
        <3> QED
            BY <2>2, <3>1, <3>2 DEF OpenSidecar, CloseSidecar, PluginFails
    <2>3. ASSUME NEW by, plugins' = Orphans(by) PROVE plugins' \subseteq Processes
        <3>1. ASSUME NEW pr \in plugins
              PROVE  [pr EXCEPT !.by = IF @ = by THEN "nobody" ELSE @] \in Processes
            <4>1. pr \in Processes
                BY DEF EnrichmentTypeOK
            <4> QED
                BY <4>1 DEF Processes
        <3> QED
            BY <2>3, <3>1 DEF Orphans
    <2>4. CASE ViewReport
        <3>1. Process("viewer", Mitre) \in Processes
            BY <2>4, EnrichmentAssumption DEF ViewReport, Process, Processes
        <3> QED
            BY <2>4, <3>1 DEF ViewReport, EnrichmentTypeOK
    <2>5. CASE plugins' = plugins
        BY <2>5 DEF EnrichmentTypeOK
    <2> QED
        BY <2>1, <2>2, <2>3, <2>4, <2>5 DEF EnrichmentNext, OpenReport, CloseReport,
            FinalSave, MergeReport, EngineKilled, EnrichCommand, Finalize, WorkerKilled, Recover,
            Complete
<1>q. queue' \in [{"engine", "web"} -> Seq(Range(Plugins))]
    <2>1. ASSUME NEW by \in {"engine", "web"}, NEW q \in Seq(Range(Plugins))
          PROVE [queue EXCEPT ![by] = q] \in [{"engine", "web"} -> Seq(Range(Plugins))]
        BY DEF EnrichmentTypeOK
    <2>2. Plugins \in Seq(Range(Plugins)) /\ FinalPlugins \in Seq(Range(Plugins)) /\ <<>> \in Seq(Range(Plugins))
        BY EnrichmentAssumption DEF FinalPlugins
    <2>3. ASSUME NEW pr \in plugins, CloseSidecar(pr) \/ PluginFails(pr)
          PROVE queue' \in [{"engine", "web"} -> Seq(Range(Plugins))]
        BY <2>3, AdvanceTypes DEF CloseSidecar, PluginFails
    <2>4. CASE queue' = queue
        BY <2>4 DEF EnrichmentTypeOK
    <2>5. CASE CloseReport \/ EngineKilled \/ EnrichCommand \/ Finalize \/ WorkerKilled \/ Recover
        BY <2>1, <2>2, <2>4, <2>5 DEF CloseReport, EngineKilled, EnrichCommand, Finalize, WorkerKilled, Recover
    <2> QED
        BY <2>3, <2>4, <2>5 DEF EnrichmentNext, StartPlugin, OpenSidecar, OpenReport,
            FinalSave, MergeReport, Complete, ViewReport
<1>c. chain' \in Chains /\ verdict' \in Verdicts
    BY DEF EnrichmentTypeOK, Chains, Verdicts, Running, Over, EnrichmentNext, StartPlugin, OpenSidecar,
        CloseSidecar, PluginFails, OpenReport, CloseReport, FinalSave, MergeReport, EngineKilled,
        EnrichCommand, Finalize, WorkerKilled, Recover, Complete, ViewReport
<1>f. failed' \subseteq Range(Plugins) /\ clashed' \subseteq Range(Plugins)
    <2>1. \A pr \in plugins : pr.plugin \in Range(Plugins)
        BY DEF EnrichmentTypeOK, Processes
    <2>2. ASSUME NEW pr \in plugins, OpenSidecar(pr) \/ CloseSidecar(pr) \/ PluginFails(pr)
          PROVE failed' \subseteq Range(Plugins) /\ clashed' \subseteq Range(Plugins)
        BY <2>1, <2>2 DEF EnrichmentTypeOK, OpenSidecar, CloseSidecar, PluginFails, Failed
    <2>3. CASE UNCHANGED <<failed, clashed>>
        BY <2>3 DEF EnrichmentTypeOK
    <2> QED
        BY <2>2, <2>3 DEF EnrichmentNext, StartPlugin, OpenReport, CloseReport, FinalSave, MergeReport,
            EngineKilled, EnrichCommand, Finalize, WorkerKilled, Recover, Complete, ViewReport
<1>n. peeked' \in BOOLEAN /\ faults' \in Nat /\ extra' \in Nat
    <2>1. peeked \in BOOLEAN /\ faults \in Nat /\ extra \in Nat
        BY DEF EnrichmentTypeOK
    <2>2. CASE ViewReport
        BY <2>1, <2>2 DEF ViewReport
    <2>3. ASSUME NEW pr \in plugins, PluginFails(pr) PROVE faults' \in Nat
        BY <2>1, <2>3 DEF PluginFails
    <2>4. CASE EngineKilled \/ WorkerKilled \/ EnrichCommand
        BY <2>1, <2>4 DEF EngineKilled, WorkerKilled, EnrichCommand
    <2>5. CASE UNCHANGED <<peeked, faults, extra>>
        BY <2>1, <2>5
    <2>6. ASSUME NEW pr \in plugins, PluginFails(pr) PROVE UNCHANGED <<peeked, extra>>
        BY <2>6 DEF PluginFails
    <2> QED
        BY <2>1, <2>2, <2>3, <2>4, <2>5, <2>6 DEF EnrichmentNext, StartPlugin, OpenSidecar, CloseSidecar,
            OpenReport, CloseReport, FinalSave, MergeReport, Finalize, Recover, Complete
<1> QED
    BY <1>r, <1>s, <1>p, <1>q, <1>c, <1>f, <1>n DEF EnrichmentTypeOK

-----------------------------------------------------------------------------
(* The steps.                                                              *)

\* A job goes on: its queue loses its head, the other queue nothing.
LEMMA AdvanceEffect ==
    ASSUME EnrichmentTypeOK, Waiting, NEW pr \in plugins, Advance(pr.by),
           NEW by \in {"engine", "web"}
    PROVE /\ by # pr.by => queue'[by] = queue[by]
          /\ queue'[by] # <<>> => queue[by] # <<>>
          /\ Range(queue[by]) \subseteq Range(queue'[by]) \cup (IF by = pr.by THEN {pr.plugin} ELSE {})
<1>1. queue \in [{"engine", "web"} -> Seq(Range(Plugins))]
    BY DEF EnrichmentTypeOK
<1>2. CASE by = pr.by
    <2>1. queue[by] # <<>> /\ queue[by] \in Seq(Range(Plugins)) /\ Head(queue[by]) = pr.plugin
        BY <1>1, <1>2 DEF Waiting
    <2>2. queue'[by] = Tail(queue[by])
        BY <1>1, <1>2 DEF Advance
    <2>3. Range(queue[by]) \subseteq {Head(queue[by])} \cup Range(Tail(queue[by]))
        BY <2>1, TailOf
    <2> QED
        BY <1>2, <2>1, <2>2, <2>3
<1>3. CASE by # pr.by
    <2>1. queue'[by] = queue[by]
        BY <1>1, <1>3 DEF Advance
    <2> QED
        BY <1>3, <2>1
<1> QED
    BY <1>2, <1>3

\* Every step keeps to who runs plugins when.
LEMMA PhasesStep ==
    ASSUME EnrichmentTypeOK, Phases, Waiting, EnrichmentNext
    PROVE Phases'
<1> USE DEF Phases, Running, Over
<1>t. queue \in [{"engine", "web"} -> Seq(Range(Plugins))] /\ verdict \in Verdicts /\ chain \in Chains
    BY DEF EnrichmentTypeOK
<1>1. ASSUME NEW pr \in plugins, CloseSidecar(pr) \/ PluginFails(pr) PROVE Phases'
    <2>1. Advance(pr.by) /\ UNCHANGED <<report, chain, verdict>>
        BY <1>1 DEF CloseSidecar, PluginFails
    <2>2. /\ queue'["engine"] # <<>> => queue["engine"] # <<>>
          /\ queue'["web"] # <<>> => queue["web"] # <<>>
        BY <2>1, AdvanceEffect
    <2> QED
        BY <2>1, <2>2
<1>2. CASE OpenReport \/ CloseReport \/ FinalSave
    BY <1>2, <1>t DEF OpenReport, CloseReport, FinalSave, EnrichmentTypeOK
<1>3. CASE MergeReport
    BY <1>3, <1>t, LoadedTypes DEF MergeReport
<1>4. CASE EngineKilled \/ WorkerKilled
    BY <1>4, <1>t DEF EngineKilled, WorkerKilled
<1>5. CASE EnrichCommand \/ Finalize \/ Recover \/ Complete
    BY <1>5, <1>t DEF EnrichCommand, Finalize, Recover, Complete
<1>6. CASE UNCHANGED <<report, queue, chain, verdict>>
    BY <1>6
<1> QED
    BY <1>1, <1>2, <1>3, <1>4, <1>5, <1>6 DEF EnrichmentNext, StartPlugin, OpenSidecar, ViewReport

\* Whoever has started a plugin waits for it.
LEMMA WaitingStep ==
    ASSUME EnrichmentTypeOK, Phases, Waiting, EnrichmentNext
    PROVE Waiting'
<1>t. /\ queue \in [{"engine", "web"} -> Seq(Range(Plugins))] /\ plugins \subseteq Processes
      /\ verdict \in Verdicts /\ chain \in Chains
    BY DEF EnrichmentTypeOK
<1>1. ASSUME NEW by \in DOMAIN queue, StartPlugin(by) PROVE Waiting'
    <2>1. queue[by] # <<>> /\ by \in {"engine", "web"} /\ report.text = "whole"
        BY <1>1, <1>t DEF StartPlugin, Phases
    <2> DEFINE new == Process(by, Head(queue[by]))
    <2>2. new.by = by /\ new.plugin = Head(queue[by]) /\ new.read = "whole"
        BY <2>1 DEF Process
    <2>3. plugins' = plugins \cup {new} /\ UNCHANGED <<queue, peeked>> /\ \A pr \in plugins : pr.by # by
        BY <1>1 DEF StartPlugin
    <2> HIDE DEF new
    <2> QED
        BY <2>1, <2>2, <2>3 DEF Waiting
<1>2. ASSUME NEW pr \in plugins, OpenSidecar(pr) PROVE Waiting'
    <2> DEFINE new == [pr EXCEPT !.open = TRUE]
    <2>1. new.by = pr.by /\ new.plugin = pr.plugin /\ new.read = pr.read
        BY <1>t DEF Processes
    <2>2. plugins' = (plugins \ {pr}) \cup {new} /\ UNCHANGED <<queue, peeked>>
        BY <1>2 DEF OpenSidecar
    <2> HIDE DEF new
    <2> QED
        BY <2>1, <2>2 DEF Waiting
<1>3. ASSUME NEW pr \in plugins, CloseSidecar(pr) \/ PluginFails(pr) PROVE Waiting'
    <2>1. Advance(pr.by) /\ plugins' = plugins \ {pr} /\ UNCHANGED peeked
        BY <1>3 DEF CloseSidecar, PluginFails
    <2>2. \A qr \in plugins' : qr.by \in {"engine", "web"} => queue'[qr.by] = queue[qr.by]
        BY <2>1, AdvanceEffect DEF Waiting
    <2> QED
        BY <2>1, <2>2 DEF Waiting
<1>4. ASSUME NEW by \in {"engine", "web"}, plugins' = Orphans(by), UNCHANGED peeked,
             queue' = [queue EXCEPT ![by] = <<>>]
      PROVE Waiting'
    <2> DEFINE Left(pr) == [pr EXCEPT !.by = IF @ = by THEN "nobody" ELSE @]
    <2>1. \A pr \in plugins : /\ Left(pr).by = IF pr.by = by THEN "nobody" ELSE pr.by
                              /\ Left(pr).plugin = pr.plugin /\ Left(pr).read = pr.read
        BY <1>t DEF Processes
    <2>2. plugins' = {Left(pr) : pr \in plugins}
        BY <1>4 DEF Orphans
    <2>3. \A other \in {"engine", "web"} : other # by => queue'[other] = queue[other]
        BY <1>4, <1>t
    <2> HIDE DEF Left
    <2> QED
        BY <1>4, <2>1, <2>2, <2>3 DEF Waiting
<1>5. ASSUME NEW by \in {"engine", "web"}, queue[by] = <<>>, UNCHANGED <<plugins, peeked>>,
             \A other \in {"engine", "web"} : other # by => queue'[other] = queue[other]
      PROVE Waiting'
    BY <1>5 DEF Waiting
<1>6. CASE CloseReport \/ EnrichCommand
    <2>1. queue["engine"] = <<>> /\ UNCHANGED <<plugins, peeked>> /\ queue'["web"] = queue["web"]
        BY <1>6, <1>t DEF CloseReport, EnrichCommand, Phases
    <2> QED
        BY <2>1, <1>5
<1>7. CASE Finalize \/ Recover
    <2>1. queue["web"] = <<>> /\ UNCHANGED <<plugins, peeked>> /\ queue'["engine"] = queue["engine"]
        BY <1>7, <1>t DEF Finalize, Recover, Phases, Running
    <2> QED
        BY <2>1, <1>5
<1>8. CASE ViewReport
    <2> DEFINE new == Process("viewer", Mitre)
    <2>1. new.by = "viewer" /\ new.plugin = Mitre /\ (new.read = "part" => peeked')
        BY <1>8 DEF Process, ViewReport
    <2>2. /\ plugins' = plugins \cup {new} /\ UNCHANGED queue /\ (peeked => peeked')
          /\ \A pr \in plugins : pr.by # "viewer"
        BY <1>8 DEF ViewReport
    <2> HIDE DEF new
    <2> QED
        BY <2>1, <2>2 DEF Waiting
<1>9. CASE UNCHANGED <<plugins, queue, peeked>>
    BY <1>9 DEF Waiting
<1>10. CASE EngineKilled \/ WorkerKilled
    BY <1>10, <1>4 DEF EngineKilled, WorkerKilled
<1> QED
    BY <1>1, <1>2, <1>3, <1>6, <1>7, <1>8, <1>9, <1>10
    DEF EnrichmentNext, OpenReport, FinalSave, MergeReport, Complete

\* A process that writes all it has to leaves the whole, or else is excused.
LEMMA ClosedWhole ==
    ASSUME EnrichmentTypeOK, Waiting, NEW pr \in plugins, CloseSidecar(pr),
           ~Excused(pr.plugin)'
    PROVE sidecar'[pr.plugin] = "whole"
<1>1. pr \in Processes /\ sidecar \in [Range(Plugins) -> Shells]
    BY DEF EnrichmentTypeOK
<1>2. pr.read \in {"part", "whole"} /\ pr.plugin \in Range(Plugins)
    BY <1>1 DEF Processes, Artifacts
<1>3. pr.read # "part"
    BY DEF Waiting, Excused, CloseSidecar
<1>4. pr.plugin \notin clashed
    BY DEF Excused, CloseSidecar
<1> QED
    BY <1>1, <1>2, <1>3, <1>4 DEF CloseSidecar

\* A plugin that the web process has run stays shown: no later writer leaves its
\* sidecar torn without being a fault, a clash or a viewer.
LEMMA ShownStep ==
    ASSUME EnrichmentTypeOK, Phases, Waiting, Shown, EnrichmentNext
    PROVE Shown'
<1>t. /\ queue \in [{"engine", "web"} -> Seq(Range(Plugins))] /\ plugins \subseteq Processes
      /\ sidecar \in [Range(Plugins) -> Shells] /\ verdict \in Verdicts
    BY DEF EnrichmentTypeOK
<1>1. ASSUME NEW pr \in plugins, OpenSidecar(pr) PROVE Shown'
    <2> DEFINE new == [pr EXCEPT !.open = TRUE]
    <2>1. new.plugin = pr.plugin /\ new.open /\ ~pr.open /\ pr.plugin \in Range(Plugins)
        BY <1>1, <1>t DEF Processes, OpenSidecar
    <2>2. /\ plugins' = (plugins \ {pr}) \cup {new} /\ clashed \subseteq clashed'
          /\ \A p \in Range(Plugins) : p # pr.plugin => sidecar'[p] = sidecar[p]
          /\ UNCHANGED <<queue, verdict, failed, peeked>>
        BY <1>1, <1>t DEF OpenSidecar
    <2> HIDE DEF new
    <2>3. \A p \in Range(Plugins) : (Writing(p) # {} \/ p = pr.plugin) => Writing(p)' # {}
        BY <2>1, <2>2 DEF Writing
    <2> QED
        BY <2>2, <2>3 DEF Shown, Ran, Excused
<1>2. ASSUME NEW pr \in plugins, CloseSidecar(pr) \/ PluginFails(pr) PROVE Shown'
    <2>1. /\ Advance(pr.by) /\ plugins' = plugins \ {pr} /\ pr.plugin \in Range(Plugins)
          /\ UNCHANGED <<verdict, clashed, peeked>>
        BY <1>2, <1>t DEF CloseSidecar, PluginFails, Processes
    <2>2. \A p \in Range(Plugins) : p # pr.plugin => sidecar'[p] = sidecar[p]
        BY <1>2, <1>t DEF CloseSidecar, PluginFails
    <2>3. \A p \in Range(Plugins) : p # pr.plugin => Writing(p)' = Writing(p)
        BY <2>1 DEF Writing
    <2>4. \A p \in Range(Plugins) : Ran(p)' => Ran(p) \/ (p = pr.plugin /\ pr.by = "web")
        <3>1. Range(queue["web"]) \subseteq
                Range(queue'["web"]) \cup (IF "web" = pr.by THEN {pr.plugin} ELSE {})
            BY <2>1, AdvanceEffect
        <3> QED
            BY <2>1, <3>1 DEF Ran
    <2>5. ASSUME NEW p \in Range(Plugins), p # pr.plugin, Ran(p)', ~Excused(p)'
          PROVE sidecar'[p] = "whole" \/ Writing(p)' # {}
        <3>1. failed \ {pr.plugin} \subseteq failed'
            BY <1>2 DEF CloseSidecar, PluginFails, Failed
        <3>2. ~Excused(p)
            BY <2>1, <2>5, <3>1 DEF Excused
        <3> QED
            BY <2>2, <2>3, <2>4, <2>5, <3>2 DEF Shown
    <2>6. ASSUME Ran(pr.plugin)', ~Excused(pr.plugin)'
          PROVE sidecar'[pr.plugin] = "whole"
        <3>1. CASE CloseSidecar(pr)
            BY <2>6, <3>1, ClosedWhole
        <3>2. CASE PluginFails(pr)
            <4>1. verdict \in Running \cup Over
                BY <2>1, <2>6 DEF Ran
            <4>2. pr.plugin \in failed'
                BY <3>2, <4>1 DEF PluginFails, Failed, Running, Over
            <4> QED
                BY <2>6, <4>2 DEF Excused
        <3> QED
            BY <1>2, <3>1, <3>2
    <2> QED
        BY <2>5, <2>6 DEF Shown
<1>3. CASE Finalize \/ Recover
    <2>1. \A p \in Range(Plugins) : ~Ran(p)'
        BY <1>3, <1>t DEF Finalize, Recover, FinalPlugins, Ran, Running, Over
    <2> QED
        BY <2>1 DEF Shown
<1>4. CASE EngineKilled \/ WorkerKilled
    <2>1. \A p \in Range(Plugins) : ~Ran(p)'
        BY <1>4 DEF EngineKilled, WorkerKilled, Ran, Running, Over
    <2> QED
        BY <2>1 DEF Shown
<1>5. CASE Complete
    <2>1. \A p \in Range(Plugins) : Ran(p)
        BY <1>5 DEF Complete, Ran, Running, Range
    <2> QED
        BY <1>5, <2>1 DEF Complete, Shown, Excused, Writing
<1>6. CASE CloseReport \/ EnrichCommand
    <2>1. queue'["web"] = queue["web"] /\ UNCHANGED <<sidecar, plugins, verdict, failed, clashed, peeked>>
        BY <1>6, <1>t DEF CloseReport, EnrichCommand
    <2> QED
        BY <2>1 DEF Shown, Ran, Excused, Writing
<1>7. ASSUME UNCHANGED <<sidecar, queue, verdict, failed, clashed>>, plugins \subseteq plugins',
             peeked => peeked'
      PROVE Shown'
    <2>1. \A p \in Range(Plugins) : Writing(p) \subseteq Writing(p)'
        BY <1>7 DEF Writing
    <2>2. \A p \in Range(Plugins) : (Ran(p)' => Ran(p)) /\ (~Excused(p)' => ~Excused(p))
        BY <1>7 DEF Ran, Excused
    <2> QED
        BY <1>7, <2>1, <2>2 DEF Shown
<1>8. ASSUME NEW by \in DOMAIN queue, StartPlugin(by) PROVE Shown'
    <2>1. /\ UNCHANGED <<sidecar, queue, verdict, failed, clashed, peeked>>
          /\ plugins \subseteq plugins'
        BY <1>8 DEF StartPlugin
    <2> QED
        BY <1>7, <2>1
<1>10. CASE ViewReport
    <2>1. /\ UNCHANGED <<sidecar, queue, verdict, failed, clashed>>
          /\ plugins \subseteq plugins' /\ (peeked => peeked')
        BY <1>10 DEF ViewReport
    <2> QED
        BY <1>7, <2>1
<1>9. OpenReport \/ FinalSave \/ MergeReport => Shown'
    BY <1>7 DEF OpenReport, FinalSave, MergeReport
<1> QED
    BY <1>1, <1>2, <1>3, <1>4, <1>5, <1>6, <1>8, <1>9, <1>10 DEF EnrichmentNext

\* Without a fault or a viewer nobody starts a plugin out of turn.
LEMMA TurnsStep ==
    ASSUME EnrichmentTypeOK, Phases, Waiting, Turns, EnrichmentNext
    PROVE Turns'
<1>t. /\ queue \in [{"engine", "web"} -> Seq(Range(Plugins))] /\ plugins \subseteq Processes
      /\ faults \in Nat /\ extra \in Nat /\ verdict \in Verdicts
    BY DEF EnrichmentTypeOK
<1>0. SUFFICES ASSUME faults' = 0, extra' = 0
               PROVE /\ clashed' = {} /\ \A pr \in plugins' : pr.by \in {"engine", "web"}
                     /\ chain' # "killed" /\ verdict' # "lost"
                     /\ verdict' # "open" => chain' = "done"
    BY DEF Turns
<1>1. faults = 0 /\ extra = 0
    <2>1. UNCHANGED <<faults, extra>> \/ faults' = faults + 1 \/ extra' = extra + 1
        BY DEF EnrichmentNext, StartPlugin, OpenSidecar, CloseSidecar, PluginFails, OpenReport, CloseReport,
            FinalSave, MergeReport, EngineKilled, EnrichCommand, Finalize, WorkerKilled, Recover, Complete,
            ViewReport
    <2> QED
        BY <1>0, <1>t, <2>1
<1>2. /\ clashed = {} /\ \A pr \in plugins : pr.by \in {"engine", "web"}
      /\ chain # "killed" /\ verdict # "lost" /\ (verdict # "open" => chain = "done")
    BY <1>1 DEF Turns
<1>3. \A pr, qr \in plugins : pr = qr
    <2> SUFFICES ASSUME NEW pr \in plugins, NEW qr \in plugins, pr # qr PROVE FALSE
        OBVIOUS
    <2>1. pr.by # qr.by
        BY <1>2 DEF Waiting
    <2>2. queue["engine"] # <<>> /\ queue["web"] # <<>>
        BY <1>2, <2>1 DEF Waiting
    <2> QED
        BY <2>2 DEF Phases, Running
<1>4. ASSUME NEW by \in DOMAIN queue, StartPlugin(by)
      PROVE /\ clashed' = {} /\ \A pr \in plugins' : pr.by \in {"engine", "web"}
            /\ UNCHANGED <<chain, verdict>>
    BY <1>2, <1>4, <1>t DEF StartPlugin, Process
<1>5. ASSUME NEW pr \in plugins, OpenSidecar(pr)
      PROVE /\ clashed' = {} /\ \A qr \in plugins' : qr.by \in {"engine", "web"}
            /\ UNCHANGED <<chain, verdict>>
    <2>1. [pr EXCEPT !.open = TRUE].by = pr.by
        BY <1>t DEF Processes
    <2>2. Writing(pr.plugin) = {}
        BY <1>3, <1>5 DEF Writing, OpenSidecar
    <2> QED
        BY <1>2, <1>5, <2>1, <2>2 DEF OpenSidecar
<1>6. ASSUME NEW pr \in plugins, CloseSidecar(pr) \/ PluginFails(pr)
      PROVE /\ clashed' = {} /\ \A qr \in plugins' : qr.by \in {"engine", "web"}
            /\ UNCHANGED <<chain, verdict>>
    BY <1>2, <1>6 DEF CloseSidecar, PluginFails
<1>7. ~(EngineKilled \/ WorkerKilled \/ EnrichCommand \/ ViewReport)
    BY <1>0, <1>1 DEF EngineKilled, WorkerKilled, EnrichCommand, ViewReport
<1>8. CASE OpenReport \/ CloseReport \/ FinalSave \/ MergeReport \/ Finalize \/ Recover \/ Complete
    BY <1>2, <1>8 DEF OpenReport, CloseReport, FinalSave, MergeReport, Finalize, Recover, Complete
<1> QED
    BY <1>2, <1>4, <1>5, <1>6, <1>7, <1>8 DEF EnrichmentNext

\* The invariant is inductive.
LEMMA EnrichmentStep ==
    ASSUME EnrichmentInv, [EnrichmentNext]_enrichment
    PROVE EnrichmentInv'
<1>1. CASE EnrichmentNext
    BY <1>1, EnrichmentTypeStep, PhasesStep, WaitingStep, ShownStep, TurnsStep DEF EnrichmentInv
<1>2. CASE UNCHANGED enrichment
    <2>1. EnrichmentTypeOK'
        BY <1>2 DEF enrichment, EnrichmentInv, EnrichmentTypeOK
    <2>2. (Phases /\ Waiting /\ Turns)'
        BY <1>2 DEF enrichment, EnrichmentInv, Phases, Waiting, Turns
    <2>3. Shown'
        BY <1>2 DEF enrichment, EnrichmentInv, Shown, Ran, Excused, Writing
    <2> QED
        BY <2>1, <2>2, <2>3 DEF EnrichmentInv
<1> QED
    BY <1>1, <1>2

-----------------------------------------------------------------------------
(* Theorems.                                                               *)

\* The variables of a run's files keep their types, and no plugin is started
\* on a report that cannot be read (_run_spec after _save_intermediate).
THEOREM EnrichmentTypes == EnrichmentSpec => []EnrichmentTypeOK
<1>1. EnrichmentInv => EnrichmentTypeOK
    BY DEF EnrichmentInv
<1> QED
    BY <1>1, EnrichmentStart, EnrichmentStep, PTL DEF EnrichmentSpec

\* The viewer of a finished run shows the findings of every plugin, of the whole
\* report and once each, but for what failed, was written by two processes at
\* once, or, of MITRE, was asked for too early (load_report_with_extensions).
THEOREM ViewerShowsAll == EnrichmentSpec => []FinishedShowsAll
<1>1. ASSUME EnrichmentInv PROVE FinishedShowsAll
    <2> SUFFICES ASSUME Finished PROVE FinishedShowsAll
        BY DEF FinishedShowsAll
    <2> DEFINE shown == LoadReport(report)
    <2>1. \A p \in Range(Plugins) : shown.listed[p] = IF shown.ext[p] # "none" THEN 1 ELSE 0
        BY DEF LoadReport, Collected
    <2>2. ASSUME NEW p \in Range(Plugins) \ (failed \cup clashed), ~(p = Mitre /\ peeked)
          PROVE shown.ext[p] = "whole"
        <3>1. Ran(p) /\ ~Excused(p) /\ Writing(p) = {}
            BY <2>2 DEF Finished, Ran, Over, Excused, Writing
        <3>2. sidecar[p] = "whole"
            BY <3>1, <1>1 DEF EnrichmentInv, Shown
        <3> QED
            BY <3>2 DEF LoadReport, Extensions, Artifacts
    <2>3. clashed # {} => faults > 0 \/ extra > 0
        BY <1>1 DEF EnrichmentInv, Turns, EnrichmentTypeOK
    <2> HIDE DEF shown
    <2>4. /\ \A p \in Range(Plugins) \ (failed \cup clashed) :
                (p = Mitre /\ peeked) \/ (shown.ext[p] = "whole" /\ shown.listed[p] = 1)
          /\ \A p \in Range(Plugins) : shown.listed[p] <= 1
        BY <2>1, <2>2
    <2> QED
        BY <2>3, <2>4 DEF FinishedShowsAll, shown
<1> QED
    BY <1>1, EnrichmentStart, EnrichmentStep, PTL DEF EnrichmentSpec

-----------------------------------------------------------------------------
(* The reports of a project.  First, numbers and orders.                   *)

\* A set of natural numbers that is not empty has a first member.
LEMMA FirstIsThere ==
    ASSUME NEW S \in SUBSET Nat, S # {}
    PROVE  FirstOf(S) \in S /\ \A j \in S : FirstOf(S) <= j
<1> DEFINE R == OpToRel(<, Nat)
<1>1. IsWellFoundedOn(R, Nat)
    BY NatLessThanWellFounded, Zenon
<1>2. \A i, j \in Nat : i < j => <<i, j>> \in R
    BY Zenon DEF OpToRel
<1> HIDE DEF R
<1>3. PICK i \in S : \A j \in S : <<j, i>> \notin R
    BY <1>1, WFMin
<1>4. \A j \in S : ~(j < i)
    BY <1>2, <1>3
<1>5. \A j \in S : i <= j
    BY <1>4
<1> QED
    BY <1>5, Zenon DEF FirstOf

\* What holds at the start and after each of n steps holds all the way.
LEMMA AllTheWay ==
    ASSUME NEW n \in Nat, NEW S, 0 \in S, \A k \in 0 .. n : k # n /\ k \in S => k + 1 \in S
    PROVE  \A k \in 0 .. n : k \in S
<1> DEFINE Bad == {k \in 0 .. n : k \notin S}
<1>1. Bad \in SUBSET Nat
    OBVIOUS
<1> SUFFICES ASSUME Bad # {} PROVE FALSE
    OBVIOUS
<1>2. PICK k \in Bad : \A j \in Bad : k <= j
    BY <1>1, FirstIsThere
<1>3. k # 0 /\ k \in 1 .. n
    BY <1>2
<1>4. k - 1 \in 0 .. n /\ k - 1 # n /\ k - 1 \notin Bad /\ (k - 1) + 1 = k
    BY <1>2, <1>3
<1> QED
    BY <1>2, <1>4

\* Finitely many things under a strict total order: the n-th is the one that has
\* n - 1 before it.
Sorted(S, R) ==
    [n \in 1 .. Cardinality(S) |-> CHOOSE i \in S : Cardinality({j \in S : <<j, i>> \in R}) = n - 1]

\* Sorted has every place filled and is in order: the ranks are as many as the
\* things and no two are equal, so each rank is taken.
LEMMA SortedInOrder ==
    ASSUME NEW S, IsFiniteSet(S), NEW R,
           \A i \in S : <<i, i>> \notin R,
           \A i, j \in S : i # j => <<i, j>> \in R \/ <<j, i>> \in R,
           \A i, j, k \in S : <<i, j>> \in R /\ <<j, k>> \in R => <<i, k>> \in R
    PROVE  /\ Cardinality(S) \in Nat
           /\ \A n \in 1 .. Cardinality(S) : Sorted(S, R)[n] \in S
           /\ \A m, n \in 1 .. Cardinality(S) : m < n => <<Sorted(S, R)[m], Sorted(S, R)[n]>> \in R
<1> DEFINE N == Cardinality(S)
           Ahead(i) == {j \in S : <<j, i>> \in R}
           rank == [i \in S |-> Cardinality(Ahead(i))]
<1>1. N \in Nat
    BY FS_CardinalityType
<1>2. ASSUME NEW i \in S
      PROVE  IsFiniteSet(Ahead(i)) /\ Cardinality(Ahead(i)) \in 0 .. (N - 1)
    <2>1. /\ IsFiniteSet(Ahead(i)) /\ Cardinality(Ahead(i)) <= N
          /\ N = Cardinality(Ahead(i)) => S = Ahead(i)
        BY FS_Subset
    <2>2. Ahead(i) # S
        OBVIOUS
    <2>3. Cardinality(Ahead(i)) \in Nat
        BY <2>1, FS_CardinalityType
    <2> HIDE DEF Ahead, N
    <2> QED
        BY <1>1, <2>1, <2>2, <2>3
<1>3. ASSUME NEW i \in S, NEW j \in S, <<i, j>> \in R
      PROVE  rank[i] < rank[j]
    <2>1. Ahead(i) \in SUBSET Ahead(j) /\ i \in Ahead(j) /\ i \notin Ahead(i)
        BY <1>3
    <2>2. IsFiniteSet(Ahead(j)) /\ rank[i] = Cardinality(Ahead(i)) /\ rank[j] = Cardinality(Ahead(j))
        BY <1>2
    <2> HIDE DEF Ahead, rank
    <2>3. /\ Cardinality(Ahead(i)) <= Cardinality(Ahead(j))
          /\ Cardinality(Ahead(j)) = Cardinality(Ahead(i)) => Ahead(j) = Ahead(i)
        BY <2>1, <2>2, FS_Subset
    <2>4. Cardinality(Ahead(i)) \in Int /\ Cardinality(Ahead(j)) \in Int
        BY <1>2
    <2> QED
        BY <2>1, <2>2, <2>3, <2>4
<1>4. rank \in [S -> 0 .. (N - 1)]
    BY <1>2
<1>5. \A i, j \in S : rank[i] = rank[j] => i = j
    <2> SUFFICES ASSUME NEW i \in S, NEW j \in S, rank[i] = rank[j], i # j PROVE FALSE
        OBVIOUS
    <2>1. rank[i] < rank[j] \/ rank[j] < rank[i]
        BY <1>3
    <2>2. rank[i] \in Int /\ rank[j] \in Int
        BY <1>4
    <2> HIDE DEF rank
    <2> QED
        BY <2>1, <2>2
<1>6. rank \in Surjection(S, 0 .. (N - 1))
    <2>1. rank \in Injection(S, 0 .. (N - 1))
        BY <1>4, <1>5 DEF Injection, IsInjective
    <2>2. IsFiniteSet(0 .. (N - 1)) /\ Cardinality(0 .. (N - 1)) = N
        <3>1. 0 \in Int /\ N - 1 \in Int
            BY <1>1
        <3>2. IsFiniteSet(0 .. (N - 1)) /\ Cardinality(0 .. (N - 1)) = IF 0 > N - 1 THEN 0 ELSE (N - 1) - 0 + 1
            BY <3>1, FS_Interval
        <3> HIDE DEF N
        <3> QED
            BY <1>1, <3>2
    <2> HIDE DEF rank
    <2> QED
        BY <2>1, <2>2, FS_Injection
<1>7. ASSUME NEW n \in 1 .. N
      PROVE  Sorted(S, R)[n] \in S /\ rank[Sorted(S, R)[n]] = n - 1
    <2>1. n - 1 \in 0 .. (N - 1)
        BY <1>1, <1>7
    <2>2. \E i \in S : rank[i] = n - 1
        BY <1>6, <2>1 DEF Surjection
    <2>3. \E i \in S : Cardinality({j \in S : <<j, i>> \in R}) = n - 1
        BY <2>2
    <2>4. Sorted(S, R)[n] = CHOOSE i \in S : Cardinality({j \in S : <<j, i>> \in R}) = n - 1
        BY <1>7 DEF Sorted
    <2>5. Sorted(S, R)[n] \in S /\ Cardinality({j \in S : <<j, Sorted(S, R)[n]>> \in R}) = n - 1
        BY <2>3, <2>4, Zenon
    <2> QED
        BY <2>5
<1>8. ASSUME NEW m \in 1 .. N, NEW n \in 1 .. N, m < n
      PROVE  <<Sorted(S, R)[m], Sorted(S, R)[n]>> \in R
    <2>1. Sorted(S, R)[m] \in S /\ Sorted(S, R)[n] \in S
        BY <1>7
    <2>2. rank[Sorted(S, R)[m]] = m - 1 /\ rank[Sorted(S, R)[n]] = n - 1
        BY <1>7
    <2>3. m - 1 < n - 1 /\ m - 1 # n - 1 /\ ~(n - 1 < m - 1)
        <3> HIDE DEF N
        <3> QED
            BY <1>1, <1>8
    <2>4. <<Sorted(S, R)[n], Sorted(S, R)[m]>> \notin R
        <3> SUFFICES ASSUME <<Sorted(S, R)[n], Sorted(S, R)[m]>> \in R PROVE FALSE
            OBVIOUS
        <3>1. rank[Sorted(S, R)[n]] < rank[Sorted(S, R)[m]]
            BY <1>3, <2>1
        <3> HIDE DEF rank, N
        <3> QED
            BY <2>2, <2>3, <3>1
    <2> HIDE DEF rank
    <2>5. Sorted(S, R)[m] # Sorted(S, R)[n]
        BY <2>2, <2>3
    <2> QED
        BY <2>1, <2>4, <2>5
<1> QED
    BY <1>1, <1>7, <1>8

-----------------------------------------------------------------------------
(* The directory and the answers.                                          *)

\* A report as a scan saves it, and the reports of a project in the order of
\* their mtimes, no two of one name.
Saved == [says : Contents, ts : Times, name : 1 .. MaxFiles, modified : Nat]
FilesOK ==
    /\ files \in Seq(Saved)
    /\ \A i \in DOMAIN files : files[i].modified = i
    /\ \A i, j \in DOMAIN files : files[i].name = files[j].name => i = j

\* A listing of the directory, and what the answers were computed from.
Listing(order) == [i \in DOMAIN files |-> files[order[i]]]
AnswersOK ==
    /\ rollup = NoDoc
       \/ \E order \in Bijection(DOMAIN files, DOMAIN files) : rollup = Rollup(Listing(order))
    /\ baseline = NoDoc \/ \E asset \in Assets : baseline = Baseline(asset)

ProjectInv == FilesOK /\ AnswersOK

\* A new project has no reports and no answers.
LEMMA ProjectStart == ProjectInit => ProjectInv
    BY DEF ProjectInit, ProjectInv, FilesOK, AnswersOK

\* A scan saves its report under a new name and with the newest mtime; a request
\* reads the directory and writes nothing.
LEMMA FilesStep == FilesOK /\ [ProjectNext]_project => FilesOK'
<1> SUFFICES ASSUME FilesOK, [ProjectNext]_project PROVE FilesOK'
    OBVIOUS
<1>1. CASE UNCHANGED files
    BY <1>1 DEF FilesOK
<1>2. CASE ScanSaves
    <2>1. PICK says \in Contents, ts \in Times, name \in 1 .. MaxFiles \ {files[i].name : i \in DOMAIN files} :
            files' = Append(files, [says |-> says, ts |-> ts, name |-> name, modified |-> Len(files) + 1])
        BY <1>2 DEF ScanSaves
    <2> DEFINE new == [says |-> says, ts |-> ts, name |-> name, modified |-> Len(files) + 1]
    <2>2. Len(files) \in Nat /\ DOMAIN files = 1 .. Len(files)
        BY DEF FilesOK
    <2>3. new \in Saved
        BY <2>2 DEF Saved
    <2>4. files' \in Seq(Saved) /\ Len(files') = Len(files) + 1 /\ DOMAIN files' = 1 .. Len(files) + 1
        BY <2>1, <2>3 DEF FilesOK
    <2>5. \A i \in DOMAIN files : files'[i] = files[i]
        BY <2>1, <2>2, <2>3 DEF FilesOK
    <2>6. files'[Len(files) + 1] = new
        BY <2>1, <2>2, <2>3 DEF FilesOK
    <2>7. \A i \in DOMAIN files' : i \in DOMAIN files \/ i = Len(files) + 1
        BY <2>2, <2>4
    <2>8. new.modified = Len(files) + 1 /\ new.name = name /\ \A i \in DOMAIN files : files[i].name # name
        BY <2>1
    <2> HIDE DEF new
    <2>9. \A i \in DOMAIN files' : files'[i].modified = i
        BY <2>5, <2>6, <2>7, <2>8 DEF FilesOK
    <2>10. \A i, j \in DOMAIN files' : files'[i].name = files'[j].name => i = j
        BY <2>5, <2>6, <2>7, <2>8 DEF FilesOK
    <2> QED
        BY <2>4, <2>9, <2>10 DEF FilesOK
<1> QED
    BY <1>1, <1>2 DEF ProjectNext, project, Aggregate, AssetBaseline

\* An answer is computed from the files there are, and a new report voids it.
LEMMA AnswersStep == AnswersOK /\ [ProjectNext]_project => AnswersOK'
<1> SUFFICES ASSUME AnswersOK, [ProjectNext]_project PROVE AnswersOK'
    OBVIOUS
<1>1. CASE UNCHANGED project
    <2>1. files' = files /\ rollup' = rollup /\ baseline' = baseline
        BY <1>1 DEF project
    <2>2. \A order : Rollup(Listing(order))' = Rollup(Listing(order))
        BY <2>1 DEF Listing
    <2>3. \A asset : Baseline(asset)' = Baseline(asset)
        BY <2>1 DEF Baseline, Loaded, ByTime, Stamp
    <2> QED
        BY <2>1, <2>2, <2>3 DEF AnswersOK
<1>2. CASE ScanSaves
    BY <1>2 DEF ScanSaves, AnswersOK
<1>3. CASE Aggregate
    <2>1. files' = files /\ baseline' = NoDoc
        BY <1>3 DEF Aggregate
    <2>2. PICK order \in Bijection(DOMAIN files, DOMAIN files) : rollup' = Rollup(Listing(order))
        BY <1>3 DEF Aggregate, Listing
    <2>3. Rollup(Listing(order))' = Rollup(Listing(order))
        BY <2>1 DEF Listing
    <2> QED
        BY <2>1, <2>2 DEF AnswersOK, Listing
<1>4. CASE AssetBaseline
    <2>1. files' = files /\ rollup' = NoDoc
        BY <1>4 DEF AssetBaseline
    <2>2. PICK asset \in Assets : baseline' = Baseline(asset)
        BY <1>4 DEF AssetBaseline
    <2>3. Baseline(asset)' = Baseline(asset)
        BY <2>1 DEF Baseline, Loaded, ByTime, Stamp
    <2> QED
        BY <2>1, <2>2, <2>3 DEF AnswersOK
<1> QED
    BY <1>1, <1>2, <1>3, <1>4 DEF ProjectNext

\* The reports stay in order, and an answer is what the code makes of them.
LEMMA ProjectHolds == ProjectSpec => []ProjectInv
<1>1. ProjectInv /\ [ProjectNext]_project => ProjectInv'
    BY FilesStep, AnswersStep DEF ProjectInv
<1> QED
    BY <1>1, ProjectStart, PTL DEF ProjectSpec

\* Stamps are a time and a number.
LEMMA StampsAreNumbers == FilesOK => \A i \in DOMAIN files : files[i].ts \in Int /\ files[i].name \in Int
<1> SUFFICES ASSUME FilesOK, NEW i \in DOMAIN files PROVE files[i].ts \in Int /\ files[i].name \in Int
    OBVIOUS
<1>1. files[i] \in Saved
    BY DEF FilesOK
<1>2. files[i].ts \in Times /\ files[i].name \in 1 .. MaxFiles
    BY <1>1 DEF Saved
<1> QED
    BY <1>2, ProjectAssumption

\* The reports of a history are in the order of their stamps.
LEMMA TimesAreOrdered ==
    ASSUME FilesOK, NEW S \in SUBSET (DOMAIN files)
    PROVE  /\ Len(ByTime(S)) \in Nat /\ DOMAIN ByTime(S) = 1 .. Len(ByTime(S))
           /\ \A n \in 1 .. Len(ByTime(S)) : ByTime(S)[n] \in S
           /\ \A m, n \in 1 .. Len(ByTime(S)) :
                m < n => Before(Stamp(files[ByTime(S)[m]]), Stamp(files[ByTime(S)[n]]))
<1> DEFINE R == {p \in (DOMAIN files) \X (DOMAIN files) : Before(Stamp(files[p[1]]), Stamp(files[p[2]]))}
<1>1. IsFiniteSet(S)
    <2>1. IsFiniteSet(1 .. Len(files))
        BY FS_Interval DEF FilesOK
    <2>2. DOMAIN files = 1 .. Len(files)
        BY DEF FilesOK
    <2> QED
        BY <2>1, <2>2, FS_Subset
<1>2. \A i \in DOMAIN files : files[i].ts \in Int /\ files[i].name \in Int
    BY StampsAreNumbers
<1>3. \A i, j \in DOMAIN files : <<i, j>> \in R <=>
            \/ files[i].ts < files[j].ts
            \/ files[i].ts = files[j].ts /\ files[i].name < files[j].name
    BY DEF Before, Stamp
<1>4. \A i, j \in DOMAIN files : files[i].name = files[j].name => i = j
    BY DEF FilesOK
<1>5. /\ \A i \in S : <<i, i>> \notin R
      /\ \A i, j \in S : i # j => <<i, j>> \in R \/ <<j, i>> \in R
      /\ \A i, j, k \in S : <<i, j>> \in R /\ <<j, k>> \in R => <<i, k>> \in R
    <2> HIDE DEF R
    <2>1. \A i \in S : <<i, i>> \notin R
        BY <1>2, <1>3
    <2>2. \A i, j \in S : i # j => <<i, j>> \in R \/ <<j, i>> \in R
        BY <1>2, <1>3, <1>4
    <2>3. \A i, j, k \in S : <<i, j>> \in R /\ <<j, k>> \in R => <<i, k>> \in R
        BY <1>2, <1>3
    <2> QED
        BY <2>1, <2>2, <2>3
<1>6. ASSUME NEW n \in 1 .. Cardinality(S) PROVE ByTime(S)[n] = Sorted(S, R)[n]
    <2>1. \A i \in S : {j \in S : <<j, i>> \in R} = {j \in S : Before(Stamp(files[j]), Stamp(files[i]))}
        OBVIOUS
    <2>2. \A i \in S : Cardinality({j \in S : <<j, i>> \in R}) = n - 1
                        <=> Cardinality({j \in S : Before(Stamp(files[j]), Stamp(files[i]))}) = n - 1
        BY <2>1
    <2> HIDE DEF R
    <2>3. (CHOOSE i \in S : Cardinality({j \in S : <<j, i>> \in R}) = n - 1)
            = CHOOSE i \in S : Cardinality({j \in S : Before(Stamp(files[j]), Stamp(files[i]))}) = n - 1
        BY <2>2
    <2>4. Sorted(S, R)[n] = CHOOSE i \in S : Cardinality({j \in S : <<j, i>> \in R}) = n - 1
        BY DEF Sorted
    <2>5. ByTime(S)[n] = CHOOSE i \in S : Cardinality({j \in S : Before(Stamp(files[j]), Stamp(files[i]))}) = n - 1
        BY DEF ByTime
    <2> QED
        BY <2>3, <2>4, <2>5, Zenon
<1>7. /\ Cardinality(S) \in Nat
      /\ \A n \in 1 .. Cardinality(S) : Sorted(S, R)[n] \in S
      /\ \A m, n \in 1 .. Cardinality(S) : m < n => <<Sorted(S, R)[m], Sorted(S, R)[n]>> \in R
    <2> HIDE DEF R
    <2> QED
        BY <1>1, <1>5, SortedInOrder
<1>8. DOMAIN ByTime(S) = 1 .. Cardinality(S)
    BY DEF ByTime
<1>9. Len(ByTime(S)) = Cardinality(S)
    BY <1>7, <1>8
<1>10. \A m, n \in 1 .. Cardinality(S) : m < n => Before(Stamp(files[ByTime(S)[m]]), Stamp(files[ByTime(S)[n]]))
    BY <1>6, <1>7
<1> QED
    BY <1>6, <1>7, <1>8, <1>9, <1>10

-----------------------------------------------------------------------------
(* What a history tells of one thing.                                      *)

\* The recursion of a thing's appearances has a solution.
AppearancesOf(A, stamps, has, x, m) ==
    A = [k \in 0 .. m |->
            IF k = 0 THEN Unseen
            ELSE IF x \in has[k] THEN Stretched(A[k - 1], stamps[k]) ELSE A[k - 1]]

\* So the appearances unfold: each is the one before it and one more report.
LEMMA AppearancesUnfold ==
    ASSUME NEW stamps, Len(stamps) \in Nat, NEW has, NEW x
    PROVE  AppearancesOf(Appearances(stamps, has, x), stamps, has, x, Len(stamps))
<1> DEFINE N == Len(stamps)
           Next(seen, k) == IF x \in has[k] THEN Stretched(seen, stamps[k]) ELSE seen
           Good == {m \in 0 .. N : \E A : AppearancesOf(A, stamps, has, x, m)}
<1>1. 0 \in Good
    <2>1. AppearancesOf([k \in 0 .. 0 |-> Unseen], stamps, has, x, 0)
        BY DEF AppearancesOf
    <2> QED
        BY <2>1
<1>2. ASSUME NEW m \in 0 .. N, m # N, m \in Good PROVE m + 1 \in Good
    <2>1. PICK A : AppearancesOf(A, stamps, has, x, m)
        BY <1>2
    <2> DEFINE B == [k \in 0 .. m + 1 |-> IF k = m + 1 THEN Next(A[m], m + 1) ELSE A[k]]
    <2>2. B[0] = Unseen
        BY <2>1 DEF AppearancesOf
    <2>3. ASSUME NEW k \in 1 .. m + 1 PROVE B[k] = Next(B[k - 1], k)
        <3>1. B[k - 1] = A[k - 1]
            OBVIOUS
        <3>2. CASE k = m + 1
            BY <3>1, <3>2
        <3>3. CASE k # m + 1
            <4>1. k \in 0 .. m /\ k # 0 /\ B[k] = A[k]
                BY <3>3
            <4>2. A[k] = Next(A[k - 1], k)
                BY <2>1, <4>1 DEF AppearancesOf
            <4> QED
                BY <3>1, <4>1, <4>2
        <3> QED
            BY <3>2, <3>3
    <2>4. B = [k \in 0 .. m + 1 |-> B[k]]
        OBVIOUS
    <2> HIDE DEF B
    <2>5. \A k \in 0 .. m + 1 : B[k] = IF k = 0 THEN Unseen ELSE Next(B[k - 1], k)
        BY <2>2, <2>3
    <2>6. AppearancesOf(B, stamps, has, x, m + 1)
        BY <2>4, <2>5 DEF AppearancesOf
    <2>7. m + 1 \in 0 .. N
        <3>1. N \in Nat
            OBVIOUS
        <3> HIDE DEF N
        <3> QED
            BY <1>2, <3>1
    <2> QED
        BY <2>6, <2>7
<1>3. \E A : AppearancesOf(A, stamps, has, x, N)
    <2> HIDE DEF Good
    <2>1. \A k \in 0 .. N : k # N /\ k \in Good => k + 1 \in Good
        BY <1>2
    <2>2. \A k \in 0 .. N : k \in Good
        BY <1>1, <2>1, AllTheWay, Zenon
    <2>3. N \in Good
        BY <2>2
    <2> QED
        BY <2>3 DEF Good
<1>4. Appearances(stamps, has, x)
        = CHOOSE A : A = [k \in 0 .. N |->
                            IF k = 0 THEN Unseen
                            ELSE IF x \in has[k] THEN Stretched(A[k - 1], stamps[k]) ELSE A[k - 1]]
    BY Zenon DEF Appearances
<1> QED
    BY <1>3, <1>4, Zenon DEF AppearancesOf

\* Of two stamps one at most is before the other.
LEMMA NotBeforeAndAfter ==
    ASSUME NEW s \in Int \X Int, NEW t \in Int \X Int, Before(s, t)
    PROVE  ~Before(t, s)
<1>1. s[1] \in Int /\ s[2] \in Int /\ t[1] \in Int /\ t[2] \in Int
    OBVIOUS
<1> QED
    BY <1>1 DEF Before

\* After some reports, a thing has no entry if none of them has it, and else
\* its entry reaches from the first to the last of those that do.
Reaches(seen, stamps, has, x, k) ==
    \/ (\A j \in 1 .. k : x \notin has[j]) /\ seen = Unseen
    \/ \E lo, hi \in 1 .. k :
        /\ x \in has[lo] /\ x \in has[hi]
        /\ \A j \in 1 .. k : x \in has[j] => lo <= j /\ j <= hi
        /\ seen = [first |-> stamps[lo], last |-> stamps[hi]]

\* The entry of compute_asset_baseline's first_seen_report and last_seen_report,
\* made by the first report that has a thing and stretched by comparing times.
LEMMA EntriesReach ==
    ASSUME NEW stamps, Len(stamps) \in Nat, NEW has, NEW x,
           \A k \in 1 .. Len(stamps) : stamps[k] \in Int \X Int,
           \A j, k \in 1 .. Len(stamps) : j < k => Before(stamps[j], stamps[k])
    PROVE  Reaches(Appearances(stamps, has, x)[Len(stamps)], stamps, has, x, Len(stamps))
<1> DEFINE N == Len(stamps)
           A == Appearances(stamps, has, x)
           Good == {k \in 0 .. N : Reaches(A[k], stamps, has, x, k)}
<1>1. /\ A[0] = Unseen
      /\ \A k \in 1 .. N : A[k] = IF x \in has[k] THEN Stretched(A[k - 1], stamps[k]) ELSE A[k - 1]
    <2>1. AppearancesOf(A, stamps, has, x, N)
        BY AppearancesUnfold
    <2> HIDE DEF A, N
    <2> USE <2>1 DEF AppearancesOf
    <2>2. N \in Nat
        BY DEF N
    <2>3. \A k \in 0 .. N : A[k] = IF k = 0 THEN Unseen
                                  ELSE IF x \in has[k] THEN Stretched(A[k - 1], stamps[k]) ELSE A[k - 1]
        OBVIOUS
    <2> QED
        BY <2>2, <2>3
<1>2. 0 \in Good
    BY <1>1 DEF Reaches
<1>3. ASSUME NEW m \in 0 .. N, m # N, m \in Good PROVE m + 1 \in Good
    <2> DEFINE k == m + 1
    <2>1. /\ N \in Nat /\ m \in Nat /\ k \in 1 .. N /\ k - 1 = m
          /\ \A j \in 1 .. k : j \in 1 .. m \/ j = k
          /\ \A j \in 1 .. m : j \in 1 .. k /\ j \in 1 .. N /\ j < k
        <3>1. N \in Nat
            OBVIOUS
        <3> HIDE DEF N
        <3> QED
            BY <1>3, <3>1
    <2>2. Reaches(A[m], stamps, has, x, m)
        BY <1>3
    <2>3. A[k] = IF x \in has[k] THEN Stretched(A[m], stamps[k]) ELSE A[m]
        BY <1>1, <2>1
    <2>4. ASSUME NEW i \in 1 .. N, NEW j \in 1 .. N, i < j
          PROVE  Before(stamps[i], stamps[j]) /\ ~Before(stamps[j], stamps[i])
        <3>1. stamps[i] \in Int \X Int /\ stamps[j] \in Int \X Int
            OBVIOUS
        <3>2. Before(stamps[i], stamps[j])
            BY <2>4
        <3> QED
            BY <3>1, <3>2, NotBeforeAndAfter
    <2> HIDE DEF A, N, k
    <2>5. CASE x \notin has[k]
        <3>1. A[k] = A[m]
            BY <2>3, <2>5
        <3> QED
            BY <2>1, <2>2, <2>5, <3>1 DEF Reaches, Good, k
    <2>6. CASE x \in has[k] /\ \A j \in 1 .. m : x \notin has[j]
        <3>1. A[m] = Unseen
            BY <2>2, <2>6 DEF Reaches
        <3>2. A[k] = [first |-> stamps[k], last |-> stamps[k]]
            BY <2>3, <2>6, <3>1 DEF Stretched
        <3>3. k \in 1 .. k /\ k <= k
            BY <2>1
        <3>4. \A j \in 1 .. k : x \in has[j] => k <= j /\ j <= k
            BY <2>1, <2>6, <3>3
        <3>5. Reaches(A[k], stamps, has, x, k)
            BY <2>6, <3>2, <3>3, <3>4 DEF Reaches
        <3> QED
            BY <2>1, <3>5 DEF Good, k
    <2>7. CASE x \in has[k] /\ \E j \in 1 .. m : x \in has[j]
        <3>1. PICK lo \in 1 .. m, hi \in 1 .. m :
                /\ x \in has[lo] /\ x \in has[hi]
                /\ \A j \in 1 .. m : x \in has[j] => lo <= j /\ j <= hi
                /\ A[m] = [first |-> stamps[lo], last |-> stamps[hi]]
            BY <2>2, <2>7 DEF Reaches
        <3>2. A[m] # Unseen
            BY <3>1 DEF Unseen
        <3>3. ~Before(stamps[k], stamps[lo]) /\ Before(stamps[hi], stamps[k])
            BY <2>1, <2>4
        <3>4. A[k] = [first |-> stamps[lo], last |-> stamps[k]]
            BY <2>3, <2>7, <3>1, <3>2, <3>3 DEF Stretched
        <3>5. /\ lo \in 1 .. k /\ k \in 1 .. k /\ k <= k
              /\ \A j \in 1 .. k : x \in has[j] => lo <= j /\ j <= k
            BY <2>1, <3>1
        <3>6. Reaches(A[k], stamps, has, x, k)
            BY <2>7, <3>1, <3>4, <3>5 DEF Reaches
        <3> QED
            BY <2>1, <3>6 DEF Good, k
    <2> QED
        BY <2>5, <2>6, <2>7 DEF k
<1>4. N \in Good
    <2> HIDE DEF Good, A
    <2>1. \A k \in 0 .. N : k # N /\ k \in Good => k + 1 \in Good
        BY <1>3
    <2>2. \A k \in 0 .. N : k \in Good
        BY <1>2, <2>1, AllTheWay, Zenon
    <2> QED
        BY <2>2
<1> QED
    BY <1>4

\* A history has every one of its reports at some place.
LEMMA TimesCover ==
    ASSUME FilesOK, NEW S \in SUBSET (DOMAIN files)
    PROVE  \A i \in S : \E k \in 1 .. Len(ByTime(S)) : ByTime(S)[k] = i
<1> DEFINE at == ByTime(S)
           n == Len(at)
<1>1. /\ n \in Nat /\ DOMAIN at = 1 .. n
      /\ \A k \in 1 .. n : at[k] \in S
      /\ \A j, k \in 1 .. n : j < k => Before(Stamp(files[at[j]]), Stamp(files[at[k]]))
    BY TimesAreOrdered, Zenon
<1>2. IsFiniteSet(S) /\ Cardinality(S) \in Nat
    <2>1. IsFiniteSet(DOMAIN files)
        BY FS_Interval DEF FilesOK
    <2> QED
        BY <2>1, FS_Subset, FS_CardinalityType
<1>3. n = Cardinality(S) /\ at = [k \in 1 .. n |-> at[k]]
    <2>1. DOMAIN at = 1 .. Cardinality(S)
        BY DEF ByTime
    <2>2. n = Cardinality(S)
        BY <1>2, <2>1
    <2>3. at = [k \in DOMAIN at |-> at[k]]
        <3> DEFINE At(k) == CHOOSE i \in S :
                Cardinality({j \in S : Before(Stamp(files[j]), Stamp(files[i]))}) = k - 1
        <3>1. at = [k \in 1 .. Cardinality(S) |-> At(k)]
            BY Zenon DEF ByTime
        <3> HIDE DEF at, At
        <3> QED
            BY <3>1
    <2> HIDE DEF at, n
    <2> QED
        BY <1>1, <2>2, <2>3
<1> HIDE DEF at, n
<1>4. \A i \in DOMAIN files : Stamp(files[i]) \in Int \X Int
    BY StampsAreNumbers DEF Stamp
<1>5. ASSUME NEW j \in 1 .. n, NEW k \in 1 .. n, at[j] = at[k] PROVE j = k
    <2>1. Stamp(files[at[j]]) \in Int \X Int
        BY <1>1, <1>4
    <2>2. ~Before(Stamp(files[at[j]]), Stamp(files[at[j]]))
        BY <2>1, NotBeforeAndAfter
    <2>3. ~(j < k) /\ ~(k < j)
        BY <1>1, <1>5, <2>2
    <2> QED
        BY <1>1, <2>3
<1>6. at \in Injection(1 .. n, S)
    <2>1. at \in [1 .. n -> S]
        BY <1>1, <1>3
    <2> QED
        BY <1>5, <2>1 DEF Injection, IsInjective
<1>7. Cardinality(1 .. n) = Cardinality(S)
    <2>1. n \in Nat /\ n = Cardinality(S)
        BY <1>1, <1>3
    <2>2. Cardinality(1 .. n) = n
        <3>1. 1 \in Int /\ n \in Int
            BY <2>1
        <3>2. Cardinality(1 .. n) = IF 1 > n THEN 0 ELSE n - 1 + 1
            BY <3>1, FS_Interval
        <3> QED
            BY <2>1, <3>2
    <2> QED
        BY <2>1, <2>2
<1>8. at \in Surjection(1 .. n, S)
    BY <1>2, <1>6, <1>7, FS_Injection
<1> QED
    BY <1>8 DEF Surjection, at, n

\* The scan that began before all others of some, or after them, is the one there is.
LEMMA EndsBegun ==
    ASSUME FilesOK, NEW H \in SUBSET (DOMAIN files), NEW lo \in H, NEW hi \in H,
           \A j \in H : j # lo => BeganBefore(lo, j), \A j \in H : j # hi => BeganBefore(j, hi)
    PROVE  FirstBegun(H) = lo /\ LastBegun(H) = hi
<1>1. \A i, j \in DOMAIN files : BeganBefore(i, j) => ~BeganBefore(j, i)
    <2>1. \A i \in DOMAIN files : Stamp(files[i]) \in Int \X Int
        BY StampsAreNumbers DEF Stamp
    <2> QED
        BY <2>1, NotBeforeAndAfter DEF BeganBefore
<1>2. \A i \in H : (\A j \in H \ {i} : BeganBefore(i, j)) <=> i = lo
    BY <1>1
<1>3. \A i \in H : (\A j \in H \ {i} : BeganBefore(j, i)) <=> i = hi
    BY <1>1
<1>4. FirstBegun(H) = lo
    BY <1>2 DEF FirstBegun
<1>5. LastBegun(H) = hi
    BY <1>3 DEF LastBegun
<1> QED
    BY <1>4, <1>5

\* The stamps of reports in some order, and what each of them has.
StampsAt(at) == [k \in 1 .. Len(at) |-> Stamp(files[at[k]])]
AllAt(of, at) == [k \in 1 .. Len(at) |-> of[at[k]]]
\* The history of what some reports have, folded over them in the order in which
\* their scans began, tells what can be said of them without an order.
LEMMA HistoryTells ==
    ASSUME FilesOK, NEW S \in SUBSET (DOMAIN files), S # {}, NEW of
    PROVE  /\ files[FirstBegun(S)].name = StampsAt(ByTime(S))[1][2]
           /\ files[LastBegun(S)].name = StampsAt(ByTime(S))[Len(ByTime(S))][2]
           /\ TellsOf(History(StampsAt(ByTime(S)), AllAt(of, ByTime(S))), S, of)
<1> DEFINE at == ByTime(S)
           n == Len(at)
           stamps == StampsAt(at)
           has == AllAt(of, at)
<1>0. stamps = [k \in 1 .. n |-> Stamp(files[at[k]])] /\ has = [k \in 1 .. n |-> of[at[k]]]
    BY DEF StampsAt, AllAt
<1>1. /\ n \in Nat
      /\ \A k \in 1 .. n : at[k] \in S
      /\ \A j, k \in 1 .. n : j < k => Before(Stamp(files[at[j]]), Stamp(files[at[k]]))
    BY TimesAreOrdered
<1>2. \A i \in S : \E k \in 1 .. n : at[k] = i
    BY TimesCover
<1> HIDE DEF at, n, stamps, has
<1>3. n \in Nat \ {0} /\ 1 \in 1 .. n /\ n \in 1 .. n
    BY <1>1, <1>2
<1>4. \A i \in DOMAIN files : Stamp(files[i]) \in Int \X Int
    BY StampsAreNumbers DEF Stamp
<1>5. ASSUME NEW k \in 1 .. n
      PROVE  at[k] \in S /\ at[k] \in DOMAIN files /\ stamps[k] \in Int \X Int
             /\ stamps[k][2] = files[at[k]].name /\ has[k] = of[at[k]]
    <2>1. at[k] \in S /\ stamps[k] = Stamp(files[at[k]]) /\ has[k] = of[at[k]]
        BY <1>1, <1>0
    <2> QED
        BY <1>4, <2>1 DEF Stamp
<1>6. \A j, k \in 1 .. n : j < k => Before(stamps[j], stamps[k]) /\ BeganBefore(at[j], at[k])
    BY <1>1, <1>0 DEF BeganBefore
\* Of the reports at some places, the first and the last of those places have
\* the scans that began first and last.
<1>7. ASSUME NEW K \in SUBSET (1 .. n), NEW lo \in K, NEW hi \in K,
             \A k \in K : lo <= k /\ k <= hi
      PROVE  FirstBegun({at[k] : k \in K}) = at[lo] /\ LastBegun({at[k] : k \in K}) = at[hi]
    <2> DEFINE H == {at[k] : k \in K}
    <2>1. H \in SUBSET (DOMAIN files) /\ at[lo] \in H /\ at[hi] \in H
        BY <1>5
    <2>2. ASSUME NEW j \in H
          PROVE  (j # at[lo] => BeganBefore(at[lo], j)) /\ (j # at[hi] => BeganBefore(j, at[hi]))
        <3>1. PICK k \in K : j = at[k]
            OBVIOUS
        <3>2. (k # lo => lo < k) /\ (k # hi => k < hi)
            BY <1>1, <1>7
        <3> QED
            BY <1>6, <3>1, <3>2
    <2> HIDE DEF H
    <2>3. FirstBegun(H) = at[lo] /\ LastBegun(H) = at[hi]
        BY <2>1, <2>2, EndsBegun
    <2> QED
        BY <2>3 DEF H
<1>8. FirstBegun(S) = at[1] /\ LastBegun(S) = at[n]
    <2>1. S = {at[k] : k \in 1 .. n}
        BY <1>1, <1>2
    <2>2. \A k \in 1 .. n : 1 <= k /\ k <= n
        BY <1>1
    <2> DEFINE K == 1 .. n
    <2>3. K \in SUBSET (1 .. n) /\ 1 \in K /\ n \in K /\ \A k \in K : 1 <= k /\ k <= n
        BY <1>3, <2>2
    <2>4. S = {at[k] : k \in K}
        BY <2>1
    <2> HIDE DEF K
    <2>5. FirstBegun({at[k] : k \in K}) = at[1] /\ LastBegun({at[k] : k \in K}) = at[n]
        BY <1>7, <2>3
    <2> QED
        BY <2>4, <2>5
<1>9. files[FirstBegun(S)].name = stamps[1][2] /\ files[LastBegun(S)].name = stamps[n][2]
    BY <1>3, <1>5, <1>8
<1> DEFINE h == History(stamps, has)
           earlier == UNION {has[k] : k \in 1 .. n - 1}
           all == UNION {of[i] : i \in S}
           Ends(x) == Appearances(stamps, has, x)[n]
           Those(x) == {i \in S : x \in of[i]}
<1>10. Len(stamps) = n
    BY <1>1, <1>0
<1>11. /\ h.new = has[n] \ earlier /\ h.lost = earlier \ has[n]
       /\ h.added = IF n = 1 THEN has[n] ELSE has[n] \ has[n - 1]
       /\ h.entries = [x \in has[n] \cup earlier |->
                        [first |-> Ends(x).first[2], last |-> Ends(x).last[2], isNew |-> x \notin earlier]]
    <2> DEFINE m == Len(stamps)
               before == UNION {has[k] : k \in 1 .. m - 1}
               Reach(x) == Appearances(stamps, has, x)[m]
    <2>1. h = [entries |-> [x \in has[m] \cup before |->
                              [first |-> Reach(x).first[2], last |-> Reach(x).last[2],
                               isNew |-> x \notin before]],
               new |-> has[m] \ before, lost |-> before \ has[m],
               added |-> IF m = 1 THEN has[m] ELSE has[m] \ has[m - 1]]
        BY Zenon DEF History
    <2>2. m = n
        BY <1>10
    <2>3. before = earlier /\ \A x : Reach(x) = Ends(x)
        BY <2>2
    <2> HIDE DEF h, m, before, earlier, Reach, Ends
    <2> QED
        BY <2>1, <2>2, <2>3
<1>12. has[n] \cup earlier = all
    <2>1. \A x : x \in all <=> \E k \in 1 .. n : x \in has[k]
        BY <1>2, <1>5
    <2>2. \A k : k \in 1 .. n <=> k \in 1 .. n - 1 \/ k = n
        BY <1>3
    <2> HIDE DEF all
    <2> QED
        BY <2>1, <2>2
<1>13. ASSUME NEW x \in all
       PROVE  /\ Ends(x).first[2] = files[FirstBegun(Those(x))].name
              /\ Ends(x).last[2] = files[LastBegun(Those(x))].name
              /\ x \notin earlier <=> Those(x) = {at[n]}
              /\ x \notin has[n] <=> at[n] \notin Those(x)
    <2> DEFINE K == {k \in 1 .. n : x \in has[k]}
    <2>1. Those(x) = {at[k] : k \in K}
        <3>1. \A k \in K : at[k] \in Those(x)
            BY <1>5
        <3>2. \A i \in Those(x) : \E k \in K : i = at[k]
            BY <1>2, <1>5
        <3> HIDE DEF K, Those
        <3> QED
            BY <3>1, <3>2
    <2>2. K # {}
        <3>1. PICK i \in S : x \in of[i]
            OBVIOUS
        <3>2. PICK k \in 1 .. n : at[k] = i
            BY <1>2
        <3>3. k \in K
            BY <1>5, <3>1, <3>2
        <3> QED
            BY <3>3
    <2>3. Reaches(Ends(x), stamps, has, x, n)
        <3>1. /\ Len(stamps) \in Nat
              /\ \A k \in 1 .. Len(stamps) : stamps[k] \in Int \X Int
              /\ \A j, k \in 1 .. Len(stamps) : j < k => Before(stamps[j], stamps[k])
            BY <1>1, <1>5, <1>6, <1>10
        <3>2. Reaches(Appearances(stamps, has, x)[Len(stamps)], stamps, has, x, Len(stamps))
            BY <3>1, EntriesReach
        <3> QED
            BY <1>10, <3>2
    <2> HIDE DEF Ends
    <2>4. PICK lo \in 1 .. n, hi \in 1 .. n :
            /\ x \in has[lo] /\ x \in has[hi]
            /\ \A j \in 1 .. n : x \in has[j] => lo <= j /\ j <= hi
            /\ Ends(x) = [first |-> stamps[lo], last |-> stamps[hi]]
        BY <2>2, <2>3 DEF Reaches
    <2>5. K \in SUBSET (1 .. n) /\ lo \in K /\ hi \in K /\ \A k \in K : lo <= k /\ k <= hi
        BY <2>4
    <2>6. FirstBegun(Those(x)) = at[lo] /\ LastBegun(Those(x)) = at[hi]
        <3> HIDE DEF K, Those
        <3> QED
            BY <1>7, <2>1, <2>5
    <2>7. /\ Ends(x).first[2] = files[at[lo]].name
          /\ Ends(x).last[2] = files[at[hi]].name
        BY <1>5, <2>4
    <2>8. x \in has[n] <=> at[n] \in Those(x)
        BY <1>3, <1>5
    <2>9. x \notin earlier <=> K = {n}
        <3>1. \A k : k \in 1 .. n - 1 <=> k \in 1 .. n /\ k # n
            BY <1>3
        <3>2. x \in earlier <=> \E k \in K : k # n
            BY <3>1
        <3> HIDE DEF earlier
        <3> QED
            BY <2>2, <3>2
    <2>10. K = {n} <=> Those(x) = {at[n]}
        <3>1. \A k \in 1 .. n : at[k] = at[n] => k = n
            <4> SUFFICES ASSUME NEW k \in 1 .. n, at[k] = at[n], k # n PROVE FALSE
                OBVIOUS
            <4>1. k < n
                BY <1>1
            <4>2. BeganBefore(at[n], at[n])
                BY <1>3, <1>6, <4>1
            <4> QED
                BY <1>3, <1>4, <1>5, <4>2, NotBeforeAndAfter DEF BeganBefore
        <3>2. ASSUME Those(x) = {at[n]} PROVE K = {n}
            <4>1. \A k \in K : k = n
                BY <2>1, <3>1, <3>2
            <4> HIDE DEF K
            <4> QED
                BY <2>2, <4>1
        <3>3. ASSUME K = {n} PROVE Those(x) = {at[n]}
            <4> HIDE DEF K, Those
            <4> QED
                BY <2>1, <3>3
        <3> QED
            BY <3>2, <3>3
    <2> HIDE DEF K, Those, earlier
    <2> QED
        BY <2>6, <2>7, <2>8, <2>9, <2>10
<1>14. h.entries = [x \in all |-> [first |-> files[FirstBegun(Those(x))].name,
                                   last |-> files[LastBegun(Those(x))].name,
                                   isNew |-> Those(x) = {LastBegun(S)}]]
    <2> DEFINE Told(x) == [first |-> Ends(x).first[2], last |-> Ends(x).last[2],
                           isNew |-> x \notin earlier]
               Tell(x) == [first |-> files[FirstBegun(Those(x))].name,
                           last |-> files[LastBegun(Those(x))].name,
                           isNew |-> Those(x) = {LastBegun(S)}]
    <2>1. ASSUME NEW x \in all PROVE Told(x) = Tell(x)
        <3>1. (x \notin earlier) = (Those(x) = {LastBegun(S)})
            <4> HIDE DEF earlier, Those, all
            <4> QED
                BY <1>8, <1>13
        <3>2. Ends(x).first[2] = files[FirstBegun(Those(x))].name
              /\ Ends(x).last[2] = files[LastBegun(Those(x))].name
            BY <1>13
        <3> HIDE DEF earlier, all, Ends, Those
        <3> QED
            BY <3>1, <3>2
    <2>2. h.entries = [x \in all |-> Told(x)]
        <3> HIDE DEF h, earlier, all, Ends
        <3> QED
            BY <1>11, <1>12
    <2> HIDE DEF h, all, Told, Tell
    <2>3. h.entries = [x \in all |-> Tell(x)]
        BY <2>1, <2>2
    <2> QED
        BY <2>3 DEF Tell
<1>15. /\ h.new = {x \in all : Those(x) = {LastBegun(S)}}
       /\ h.lost = {x \in all : LastBegun(S) \notin Those(x)}
    <2>1. h.new = has[n] \ earlier /\ h.lost = earlier \ has[n] /\ has[n] \cup earlier = all
        <3> HIDE DEF h, earlier, all, Ends
        <3> QED
            BY <1>11, <1>12
    <2>2. \A x \in all : /\ x \notin earlier <=> Those(x) = {LastBegun(S)}
                         /\ x \notin has[n] <=> LastBegun(S) \notin Those(x)
        <3> HIDE DEF earlier, all, Those
        <3> QED
            BY <1>8, <1>13
    <2> HIDE DEF h, earlier, all, Those
    <2>3. \A x : x \in h.new <=> x \in all /\ Those(x) = {LastBegun(S)}
        BY <2>1, <2>2
    <2>4. \A x : x \in h.lost <=> x \in all /\ LastBegun(S) \notin Those(x)
        BY <2>1, <2>2
    <2> QED
        BY <2>3, <2>4, <2>1
<1>16. h.new \subseteq h.added
    <2>1. n # 1 => has[n - 1] \subseteq earlier
        <3>1. n # 1 => n - 1 \in 1 .. n - 1
            BY <1>3
        <3> QED
            BY <3>1
    <2> HIDE DEF h, earlier
    <2> QED
        BY <1>11, <2>1
<1>17. TellsOf(h, S, of)
    <2>1. DOMAIN h.entries = all
        <3> HIDE DEF h, all, Those
        <3> QED
            BY <1>14
    <2> HIDE DEF h
    <2> QED
        BY <1>14, <1>15, <1>16, <2>1 DEF TellsOf
<1> QED
    BY <1>9, <1>17 DEF at, n, stamps, has

\* compute_asset_baseline gets the reports of its asset sorted by the time of the
\* scan: its two histories tell what the reports have.
LEMMA BaselineTells ==
    ASSUME FilesOK, NEW asset, baseline = Baseline(asset)
    PROVE  NewsIsOfTheLastScan
<1> DEFINE S == {i \in Loaded : NodesOf(files[i], asset) # {}}
           at == ByTime(S)
           n == Len(at)
           stamps == [k \in 1 .. n |-> Stamp(files[at[k]])]
           peersOf == [i \in S |-> PeersOf(files[i], asset)]
           foundIn == [i \in S |-> FindingsOf(files[i], asset)]
           peers == [k \in 1 .. n |-> PeersOf(files[at[k]], asset)]
           found == [k \in 1 .. n |-> FindingsOf(files[at[k]], asset)]
<1>1. S \in SUBSET (DOMAIN files) /\ S = ShownIn(asset)
    <2>1. Len(files) \in Nat /\ DOMAIN files = 1 .. Len(files) /\ Limit \in Nat
        BY ProjectAssumption DEF FilesOK
    <2>2. \A i \in DOMAIN files : i > Len(files) - Limit <=> Len(files) - i < Limit
        BY <2>1
    <2> QED
        BY <2>2 DEF Loaded, ShownIn
<1>2. n \in Nat /\ \A k \in 1 .. n : at[k] \in S
    <2> HIDE DEF S
    <2> QED
        BY <1>1, TimesAreOrdered
<1>3. baseline = IF n = 0 THEN NoDoc
                 ELSE [asset |-> asset, first |-> stamps[1][2], last |-> stamps[n][2], reports |-> n,
                       peers |-> History(stamps, peers), findings |-> History(stamps, found)]
    BY DEF Baseline
<1>4. /\ at = ByTime(S) /\ n = Len(ByTime(S)) /\ stamps = StampsAt(ByTime(S))
      /\ peers = AllAt(peersOf, ByTime(S)) /\ found = AllAt(foundIn, ByTime(S))
    <2>1. stamps = StampsAt(at)
        BY DEF StampsAt
    <2>2. \A k \in 1 .. n : PeersOf(files[at[k]], asset) = peersOf[at[k]]
                           /\ FindingsOf(files[at[k]], asset) = foundIn[at[k]]
        <3> HIDE DEF S, at, n
        <3> QED
            BY <1>2
    <2>3. peers = AllAt(peersOf, at) /\ found = AllAt(foundIn, at)
        <3> HIDE DEF at, peersOf, foundIn
        <3> QED
            BY <2>2 DEF AllAt
    <2> QED
        BY <2>1, <2>3
<1> SUFFICES ASSUME baseline # NoDoc PROVE NewsIsOfTheLastScan
    BY DEF NewsIsOfTheLastScan
<1>5. n # 0 /\ S # {}
    <2>1. n # 0
        <3> HIDE DEF n, stamps, peers, found
        <3> QED
            BY <1>3
    <2> HIDE DEF S, at, n
    <2> QED
        BY <1>2, <2>1
<1>6. /\ baseline.asset = asset
      /\ baseline.first = stamps[1][2] /\ baseline.last = stamps[n][2]
      /\ baseline.peers = History(stamps, peers) /\ baseline.findings = History(stamps, found)
    <2> HIDE DEF n, stamps, peers, found
    <2> QED
        BY <1>3, <1>5
<1> HIDE DEF S, at, n, stamps, peers, peersOf, found, foundIn
<1>7. /\ files[FirstBegun(S)].name = stamps[1][2] /\ files[LastBegun(S)].name = stamps[n][2]
      /\ TellsOf(History(stamps, peers), S, peersOf)
    BY <1>1, <1>4, <1>5, HistoryTells, Zenon
<1>8. TellsOf(History(stamps, found), S, foundIn)
    BY <1>1, <1>4, <1>5, HistoryTells, Zenon
<1>9. /\ TellsOf(baseline.peers, ShownIn(asset), [i \in ShownIn(asset) |-> PeersOf(files[i], asset)])
      /\ TellsOf(baseline.findings, ShownIn(asset), [i \in ShownIn(asset) |-> FindingsOf(files[i], asset)])
    <2>1. peersOf = [i \in ShownIn(asset) |-> PeersOf(files[i], asset)]
          /\ foundIn = [i \in ShownIn(asset) |-> FindingsOf(files[i], asset)]
        BY <1>1 DEF peersOf, foundIn
    <2> QED
        BY <1>1, <1>6, <1>7, <1>8, <2>1
<1> QED
    BY <1>1, <1>6, <1>7, <1>9 DEF NewsIsOfTheLastScan

\* In the answer of api_asset_baseline a peer or a finding is new exactly if the
\* scan that began last has it alone, among the reports saved last that show the
\* asset, and first and last seen where the first and the last of the scans that
\* have it saw it: for any reports, begun and saved in any order, and any limit.
THEOREM NewsAreOfTheLastScan == ProjectSpec => []NewsIsOfTheLastScan
<1>1. ProjectInv => NewsIsOfTheLastScan
    <2>1. baseline = NoDoc => NewsIsOfTheLastScan
        BY DEF NewsIsOfTheLastScan
    <2> QED
        BY <2>1, BaselineTells DEF ProjectInv, AnswersOK
<1> QED
    BY <1>1, ProjectHolds, PTL

-----------------------------------------------------------------------------
(* The oldest and the newest of some reports.                              *)

\* There are finitely many reports.
LEMMA FilesAreFew ==
    ASSUME FilesOK
    PROVE  /\ Len(files) \in Nat /\ DOMAIN files = 1 .. Len(files)
           /\ \A H \in SUBSET (DOMAIN files) : IsFiniteSet(H) /\ Cardinality(H) \in Nat
<1>1. Len(files) \in Nat /\ DOMAIN files = 1 .. Len(files)
    BY DEF FilesOK
<1>2. IsFiniteSet(DOMAIN files)
    BY <1>1, FS_Interval
<1>3. ASSUME NEW H \in SUBSET (DOMAIN files)
      PROVE  IsFiniteSet(H) /\ Cardinality(H) \in Nat
    BY <1>2, FS_Subset, FS_CardinalityType
<1> QED
    BY <1>1, <1>3

\* Some reports, but not none, have an oldest and a newest.
LEMMA EndsAreThere ==
    ASSUME FilesOK, NEW H \in SUBSET (DOMAIN files), H # {}
    PROVE  /\ Oldest(H) \in H /\ \A j \in H : Oldest(H) <= j
           /\ Newest(H) \in H /\ \A j \in H : j <= Newest(H)
<1>1. Len(files) \in Nat /\ DOMAIN files = 1 .. Len(files)
    BY FilesAreFew
<1>2. H \in SUBSET Nat /\ \A j \in H : j \in Nat /\ j <= Len(files)
    BY <1>1
<1>3. Oldest(H) = FirstOf(H)
    BY DEF Oldest, FirstOf
<1>4. Oldest(H) \in H /\ \A j \in H : Oldest(H) <= j
    BY <1>2, <1>3, FirstIsThere
<1> DEFINE Slack == {Len(files) - j : j \in H}
<1>5. PICK s \in Slack : \A t \in Slack : s <= t
    <2>1. Slack \in SUBSET Nat /\ Slack # {}
        BY <1>1, <1>2
    <2> HIDE DEF Slack
    <2> QED
        BY <2>1, FirstIsThere
<1>6. PICK i \in H : s = Len(files) - i
    BY <1>5
<1>7. ASSUME NEW j \in H PROVE i >= j
    <2>1. s <= Len(files) - j
        BY <1>5
    <2> QED
        BY <1>1, <1>2, <1>6, <2>1
<1>8. Newest(H) \in H /\ \A j \in H : Newest(H) >= j
    BY <1>7, Zenon DEF Newest
<1>9. \A j \in H : j <= Newest(H)
    BY <1>2, <1>8
<1> QED
    BY <1>4, <1>8, <1>9

\* One more report moves an end if it lies beyond it.
LEMMA EndsMove ==
    ASSUME FilesOK, NEW H \in SUBSET (DOMAIN files), H # {}, NEW i \in DOMAIN files
    PROVE  /\ Oldest(H \cup {i}) = IF i < Oldest(H) THEN i ELSE Oldest(H)
           /\ Newest(H \cup {i}) = IF i > Newest(H) THEN i ELSE Newest(H)
<1> DEFINE G == H \cup {i}
<1>1. \A j \in DOMAIN files : j \in Nat
    BY FilesAreFew
<1>2. /\ Oldest(H) \in H /\ \A j \in H : Oldest(H) <= j
      /\ Newest(H) \in H /\ \A j \in H : j <= Newest(H)
    BY EndsAreThere
<1>3. /\ Oldest(G) \in G /\ \A j \in G : Oldest(G) <= j
      /\ Newest(G) \in G /\ \A j \in G : j <= Newest(G)
    <2>1. G \in SUBSET (DOMAIN files) /\ G # {}
        OBVIOUS
    <2> HIDE DEF G
    <2> QED
        BY <2>1, EndsAreThere
<1>4. Oldest(G) \in Nat /\ Newest(G) \in Nat /\ i \in Nat /\ Oldest(H) \in Nat /\ Newest(H) \in Nat
    BY <1>1, <1>2, <1>3
<1>5. /\ Oldest(G) = i \/ (Oldest(G) \in H /\ Oldest(H) <= Oldest(G))
      /\ Newest(G) = i \/ (Newest(G) \in H /\ Newest(G) <= Newest(H))
      /\ Oldest(G) <= i /\ Oldest(G) <= Oldest(H) /\ i <= Newest(G) /\ Newest(H) <= Newest(G)
    BY <1>2, <1>3
<1> QED
    BY <1>4, <1>5

\* What an entry tells of the reports it was seen in.
LEMMA SeenInOne ==
    ASSUME FilesOK, NEW i \in DOMAIN files
    PROVE  SeenIn(files[i]) = Entry({i})
<1>1. {i} \in SUBSET (DOMAIN files) /\ {i} # {}
    OBVIOUS
<1>2. Oldest({i}) = i /\ Newest({i}) = i
    BY <1>1, EndsAreThere
<1>3. Cardinality({i}) = 1
    BY FS_Singleton
<1> QED
    BY <1>2, <1>3 DEF SeenIn, Entry

\* A further report joins an entry: the counts and marks of aggregate_reports are
\* again those of all the reports together, whether it is older or newer.
LEMMA SeenInMore ==
    ASSUME FilesOK, NEW H \in SUBSET (DOMAIN files), H # {}, NEW i \in (DOMAIN files) \ H
    PROVE  SeenAgain(Entry(H), files[i]) = Entry(H \cup {i})
<1>1. Cardinality(H \cup {i}) = Cardinality(H) + 1
    <2>1. IsFiniteSet(H)
        BY FilesAreFew
    <2> QED
        BY <2>1, FS_AddElement
<1>2. \A j \in DOMAIN files : files[j].modified = j
    BY DEF FilesOK
<1>3. Oldest(H) \in DOMAIN files /\ Newest(H) \in DOMAIN files
    BY EndsAreThere
<1>4. Mark(files[Oldest(H)]).modified = Oldest(H) /\ Mark(files[Newest(H)]).modified = Newest(H)
    BY <1>2, <1>3 DEF Mark
<1>5. /\ Oldest(H \cup {i}) = IF i < Oldest(H) THEN i ELSE Oldest(H)
      /\ Newest(H \cup {i}) = IF i > Newest(H) THEN i ELSE Newest(H)
    BY EndsMove
<1>6. files[i].modified = i
    BY <1>2
<1> QED
    BY <1>1, <1>4, <1>5, <1>6 DEF SeenAgain, Entry

-----------------------------------------------------------------------------
(* The worst of some severities.                                           *)

\* Every severity has its rank.
LEMMA RanksOfSeverities ==
    \A s \in Range(Severities) : Rank(s) \in DOMAIN Severities /\ Severities[Rank(s)] = s
<1> SUFFICES ASSUME NEW s \in Range(Severities)
             PROVE  Rank(s) \in DOMAIN Severities /\ Severities[Rank(s)] = s
    OBVIOUS
<1>1. \E i \in DOMAIN Severities : Severities[i] = s
    BY DEF Range
<1> QED
    BY <1>1, Zenon DEF Rank

\* Some severities, but not none, have a worst among them.
LEMMA WorstIsThere ==
    ASSUME NEW S \in SUBSET Range(Severities), S # {}
    PROVE  Worst(S) \in S /\ \A t \in S : Rank(Worst(S)) >= Rank(t)
<1> DEFINE N == Len(Severities)
           Slack == {N - Rank(s) : s \in S}
<1>1. N \in Nat /\ DOMAIN Severities = 1 .. N
    BY ProjectAssumption
<1>2. \A s \in S : Rank(s) \in 1 .. N
    BY <1>1, RanksOfSeverities
<1> HIDE DEF N
<1>3. PICK x \in Slack : \A y \in Slack : x <= y
    <2>1. Slack \in SUBSET Nat /\ Slack # {}
        BY <1>1, <1>2
    <2> HIDE DEF Slack
    <2> QED
        BY <2>1, FirstIsThere
<1>4. PICK s \in S : x = N - Rank(s)
    BY <1>3
<1>5. ASSUME NEW t \in S PROVE Rank(s) >= Rank(t)
    <2>1. x <= N - Rank(t)
        BY <1>3
    <2>2. Rank(t) \in Nat /\ Rank(s) \in Nat
        BY <1>1, <1>2
    <2> QED
        BY <1>1, <1>4, <2>1, <2>2
<1> QED
    BY <1>5, Zenon DEF Worst

\* Promoting a severity that was the worst so far gives the worst of all.
LEMMA WorstOfBoth ==
    ASSUME NEW S \in SUBSET Range(Severities), S # {}, NEW T \in SUBSET Range(Severities)
    PROVE  Worst({Worst(S)} \cup T) = Worst(S \cup T)
<1> DEFINE a == Worst({Worst(S)} \cup T)
           b == Worst(S \cup T)
<1>1. Worst(S) \in S /\ \A t \in S : Rank(Worst(S)) >= Rank(t)
    BY WorstIsThere
<1>2. b \in S \cup T /\ \A t \in S \cup T : Rank(b) >= Rank(t)
    BY WorstIsThere
<1>3. {Worst(S)} \cup T \in SUBSET Range(Severities) /\ {Worst(S)} \cup T # {}
    BY <1>1
<1>4. a \in {Worst(S)} \cup T /\ \A t \in {Worst(S)} \cup T : Rank(a) >= Rank(t)
    BY <1>3, WorstIsThere
<1> HIDE DEF a, b
<1>5. \A s \in Range(Severities) : Rank(s) \in Nat /\ Severities[Rank(s)] = s
    BY RanksOfSeverities, ProjectAssumption
<1>6. Rank(a) >= Rank(b)
    <2>1. CASE b \in T
        BY <1>4, <2>1
    <2>2. CASE b \in S
        <3>1. Rank(a) >= Rank(Worst(S)) /\ Rank(Worst(S)) >= Rank(b)
            BY <1>1, <1>4, <2>2
        <3> QED
            BY <1>1, <1>3, <1>4, <1>5, <2>2, <3>1
    <2> QED
        BY <1>2, <2>1, <2>2
<1>7. Rank(b) >= Rank(a)
    BY <1>1, <1>2, <1>4
<1>8. Rank(a) = Rank(b) /\ a \in Range(Severities) /\ b \in Range(Severities)
    BY <1>2, <1>3, <1>4, <1>5, <1>6, <1>7
<1> QED
    BY <1>5, <1>8 DEF a, b

-----------------------------------------------------------------------------
(* One more report in a roll-up.                                           *)

\* What a report says of a finding.
LEMMA WhatFindingsSay ==
    ASSUME FilesOK, NEW i \in DOMAIN files
    PROVE  /\ IsFiniteSet(FindingKeys(files[i]))
           /\ \A k \in FindingKeys(files[i]) :
                /\ GradesIn(files[i], k) \in SUBSET Range(Severities) /\ GradesIn(files[i], k) # {}
                /\ FirstNaming(files[i], k).text # NoText
<1> DEFINE g == Findings(files[i])
<1>1. /\ g \in Seq(Range(g))
      /\ \A x \in Range(g) : x.severity \in Range(Severities) /\ x.text # NoText
    <2>1. files[i] \in Saved
        BY DEF FilesOK
    <2>2. files[i].says \in Contents
        BY <2>1 DEF Saved
    <2> QED
        BY <2>2, ProjectAssumption DEF Findings
<1> HIDE DEF g
<1>2. Len(g) \in Nat /\ DOMAIN g = 1 .. Len(g)
    BY <1>1
<1>3. IsFiniteSet(FindingKeys(files[i]))
    <2> DEFINE f == [n \in DOMAIN g |-> FindingKey(g[n])]
    <2>1. f \in Surjection(DOMAIN g, FindingKeys(files[i]))
        BY DEF Surjection, FindingKeys, Range, g
    <2>2. IsFiniteSet(DOMAIN g)
        BY <1>2, FS_Interval
    <2> HIDE DEF f
    <2> QED
        BY <2>1, <2>2, FS_Surjection
<1>4. ASSUME NEW k \in FindingKeys(files[i])
      PROVE  /\ GradesIn(files[i], k) \in SUBSET Range(Severities) /\ GradesIn(files[i], k) # {}
             /\ FirstNaming(files[i], k).text # NoText
    <2>1. Naming(files[i], k) \in SUBSET (DOMAIN g) /\ Naming(files[i], k) # {}
        BY DEF Naming, FindingKeys, Range, g
    <2>2. Naming(files[i], k) \in SUBSET Nat
        BY <1>2, <2>1
    <2>3. FirstOf(Naming(files[i], k)) \in DOMAIN g
        BY <2>1, <2>2, FirstIsThere
    <2>4. \A n \in DOMAIN g : g[n].severity \in Range(Severities) /\ g[n].text # NoText
        BY <1>1 DEF Range
    <2>5. FirstNaming(files[i], k).text # NoText
        BY <2>3, <2>4 DEF FirstNaming, g
    <2>6. GradesIn(files[i], k) \in SUBSET Range(Severities) /\ GradesIn(files[i], k) # {}
        BY <2>1, <2>4 DEF GradesIn, g
    <2> QED
        BY <2>5, <2>6
<1> QED
    BY <1>3, <1>4

\* The findings after some reports, P: what is said of each agrees with all the
\* reports of P that have it.
HavingIn(P, k) == {i \in P : k \in FindingKeys(files[i])}
FindingOf(H, k) ==
    [seen |-> Entry(H), severity |-> Worst(UNION {GradesIn(files[i], k) : i \in H}),
     text |-> FirstNaming(files[Newest(H)], k).text]
FindingsAgree(findings, P) ==
    /\ DOMAIN findings = UNION {FindingKeys(files[i]) : i \in P}
    /\ \A k \in DOMAIN findings : findings[k] = FindingOf(HavingIn(P, k), k)

\* aggregate_reports merges the findings of a further report into those so far:
\* promoted severity, newest text, seen once more.
LEMMA OneMoreForFindings ==
    ASSUME FilesOK, NEW P \in SUBSET (DOMAIN files), NEW i \in (DOMAIN files) \ P,
           NEW findings, FindingsAgree(findings, P)
    PROVE  FindingsAgree(AddFindings(findings, files[i]), P \cup {i})
<1> DEFINE f == files[i]
           new == AddFindings(findings, f)
           Q == P \cup {i}
<1>1. DOMAIN new = DOMAIN findings \cup FindingKeys(f)
    BY DEF AddFindings
<1>2. DOMAIN new = UNION {FindingKeys(files[j]) : j \in Q}
    BY <1>1 DEF FindingsAgree
<1>3. ASSUME NEW k \in DOMAIN new PROVE new[k] = FindingOf(HavingIn(Q, k), k)
    <2> DEFINE H == HavingIn(P, k)
    <2>1. H \in SUBSET (DOMAIN files) /\ i \notin H /\ (k \in DOMAIN findings <=> H # {})
        BY DEF HavingIn, FindingsAgree
    <2>2. CASE k \notin FindingKeys(f)
        <3>1. HavingIn(Q, k) = H
            BY <2>2 DEF HavingIn
        <3>2. k \in DOMAIN findings /\ new[k] = findings[k]
            BY <1>1, <1>3, <2>2 DEF AddFindings
        <3> QED
            BY <3>1, <3>2 DEF FindingsAgree
    <2>3. CASE k \in FindingKeys(f) /\ k \in DOMAIN findings
        <3>1. HavingIn(Q, k) = H \cup {i}
            BY <2>3 DEF HavingIn
        <3>2. new[k] = [seen |-> SeenAgain(findings[k].seen, f),
                        severity |-> Worst({findings[k].severity} \cup GradesIn(f, k)),
                        text |-> Retold(findings[k], f, k)]
            BY <2>3 DEF AddFindings
        <3>3. findings[k] = FindingOf(H, k)
            BY <2>3 DEF FindingsAgree
        <3> DEFINE old == UNION {GradesIn(files[j], k) : j \in H}
        <3>4. /\ findings[k].seen = Entry(H) /\ findings[k].severity = Worst(old)
              /\ findings[k].text = FirstNaming(files[Newest(H)], k).text
            BY <3>3 DEF FindingOf
        <3>5. SeenAgain(findings[k].seen, f) = Entry(H \cup {i})
            BY <2>1, <2>3, <3>4, SeenInMore
        <3>6. Worst({findings[k].severity} \cup GradesIn(f, k))
                = Worst(UNION {GradesIn(files[j], k) : j \in H \cup {i}})
            <4>1. \A j \in H : k \in FindingKeys(files[j]) /\ j \in DOMAIN files
                BY DEF HavingIn
            <4>2. \A j \in H : GradesIn(files[j], k) \in SUBSET Range(Severities)
                              /\ GradesIn(files[j], k) # {}
                BY <4>1, WhatFindingsSay
            <4>3. old \in SUBSET Range(Severities) /\ old # {}
                BY <2>1, <2>3, <4>2
            <4>4. GradesIn(f, k) \in SUBSET Range(Severities)
                BY <2>3, WhatFindingsSay
            <4>5. UNION {GradesIn(files[j], k) : j \in H \cup {i}} = old \cup GradesIn(f, k)
                OBVIOUS
            <4>6. findings[k].severity = Worst(old)
                BY <3>4
            <4> HIDE DEF old, H, f
            <4>7. Worst({Worst(old)} \cup GradesIn(f, k)) = Worst(old \cup GradesIn(f, k))
                BY <4>3, <4>4, WorstOfBoth
            <4> QED
                BY <4>5, <4>6, <4>7
        <3>7. Retold(findings[k], f, k) = FirstNaming(files[Newest(H \cup {i})], k).text
            <4>1. Newest(H) \in DOMAIN files
                BY <2>1, <2>3, EndsAreThere
            <4>2. findings[k].seen.last.modified = Newest(H)
                BY <3>4, <4>1 DEF Entry, Mark, FilesOK
            <4>3. f.modified = i
                BY DEF FilesOK
            <4>4. FirstNaming(f, k).text # NoText
                BY <2>3, WhatFindingsSay
            <4>5. Newest(H \cup {i}) = IF i > Newest(H) THEN i ELSE Newest(H)
                BY <2>1, <2>3, EndsMove
            <4> HIDE DEF H
            <4> QED
                BY <3>4, <4>2, <4>3, <4>4, <4>5 DEF Retold
        <3> HIDE DEF new, f, H
        <3> QED
            BY <3>1, <3>2, <3>5, <3>6, <3>7 DEF FindingOf
    <2>4. CASE k \in FindingKeys(f) /\ k \notin DOMAIN findings
        <3>1. HavingIn(Q, k) = {i}
            BY <2>1, <2>4 DEF HavingIn
        <3>2. new[k] = [seen |-> SeenIn(f), severity |-> Worst(GradesIn(f, k)),
                        text |-> FirstNaming(f, k).text]
            BY <2>4 DEF AddFindings
        <3>3. SeenIn(f) = Entry({i})
            BY SeenInOne
        <3>4. UNION {GradesIn(files[j], k) : j \in {i}} = GradesIn(f, k)
            OBVIOUS
        <3>5. Newest({i}) = i
            <4>1. {i} \in SUBSET (DOMAIN files) /\ {i} # {}
                OBVIOUS
            <4> QED
                BY <4>1, EndsAreThere
        <3> HIDE DEF new
        <3> QED
            BY <3>1, <3>2, <3>3, <3>4, <3>5 DEF FindingOf
    <2> QED
        BY <2>2, <2>3, <2>4
<1> QED
    BY <1>2, <1>3 DEF FindingsAgree

\* The severities counted after the reports of P.
Counted(P, s) == UNION {{i} \X Counting(files[i], s) : i \in P}
CountsAgree(counts, P) ==
    /\ DOMAIN counts = Range(Severities)
    /\ \A s \in Range(Severities) : IsFiniteSet(Counted(P, s)) /\ counts[s] = Cardinality(Counted(P, s))

\* aggregate_reports counts the findings of a further report, each once.
LEMMA OneMoreForCounts ==
    ASSUME FilesOK, NEW P \in SUBSET (DOMAIN files), NEW i \in (DOMAIN files) \ P,
           NEW counts, CountsAgree(counts, P)
    PROVE  CountsAgree(AddSeverities(counts, files[i]), P \cup {i})
<1> DEFINE new == AddSeverities(counts, files[i])
<1>1. DOMAIN new = Range(Severities)
    BY DEF AddSeverities, CountsAgree
<1>2. ASSUME NEW s \in Range(Severities)
      PROVE  IsFiniteSet(Counted(P \cup {i}, s)) /\ new[s] = Cardinality(Counted(P \cup {i}, s))
    <2> DEFINE C == Counting(files[i], s)
    <2>1. new[s] = counts[s] + Cardinality(C)
        BY <1>2 DEF AddSeverities, CountsAgree
    <2>2. IsFiniteSet(C) /\ Cardinality(C) \in Nat
        <3>1. C \in SUBSET FindingKeys(files[i])
            BY DEF Counting
        <3> HIDE DEF C
        <3> QED
            BY <3>1, WhatFindingsSay, FS_Subset, FS_CardinalityType
    <2>3. Counted(P \cup {i}, s) = Counted(P, s) \cup ({i} \X C)
        BY DEF Counted
    <2>4. Counted(P, s) \cap ({i} \X C) = {}
        BY DEF Counted
    <2> HIDE DEF C
    <2>5. IsFiniteSet({i} \X C) /\ Cardinality({i} \X C) = Cardinality(C)
        <3>1. IsFiniteSet({i}) /\ Cardinality({i}) = 1
            BY FS_Singleton
        <3>2. IsFiniteSet({i} \X C) /\ Cardinality({i} \X C) = 1 * Cardinality(C)
            BY <2>2, <3>1, FS_Product
        <3> QED
            BY <2>2, <3>2
    <2>6. IsFiniteSet(Counted(P, s)) /\ counts[s] = Cardinality(Counted(P, s))
        BY DEF CountsAgree
    <2>7. Cardinality(Counted(P, s)) \in Nat
        BY <2>6, FS_CardinalityType
    <2>8. /\ IsFiniteSet(Counted(P, s) \cup ({i} \X C))
          /\ Cardinality(Counted(P, s) \cup ({i} \X C)) =
                Cardinality(Counted(P, s)) + Cardinality({i} \X C) - Cardinality({})
        BY <2>4, <2>5, <2>6, FS_Union
    <2>9. Cardinality({}) = 0
        BY FS_EmptySet
    <2> HIDE DEF new
    <2>10. Cardinality(Counted(P, s) \cup ({i} \X C)) = counts[s] + Cardinality(C)
        BY <2>2, <2>5, <2>6, <2>7, <2>8, <2>9
    <2> QED
        BY <2>1, <2>3, <2>8, <2>10
<1> QED
    BY <1>1, <1>2 DEF CountsAgree

\* The assets after the reports of P of a listing.
HavingAsset(P, k, listing) == {i \in P : k \in AssetKeys(files[i], listing)}
AssetsAgree(assets, P, listing) ==
    /\ DOMAIN assets = UNION {AssetKeys(files[i], listing) : i \in P}
    /\ \A k \in DOMAIN assets : assets[k].seen = Entry(HavingAsset(P, k, listing))

\* aggregate_reports merges the assets of a further report into those so far.
LEMMA OneMoreForAssets ==
    ASSUME FilesOK, NEW P \in SUBSET (DOMAIN files), NEW i \in (DOMAIN files) \ P,
           NEW listing, NEW assets, AssetsAgree(assets, P, listing)
    PROVE  AssetsAgree(AddAssets(assets, files[i], listing), P \cup {i}, listing)
<1> DEFINE f == files[i]
           new == AddAssets(assets, f, listing)
           Q == P \cup {i}
           keys == AssetKeys(f, listing)
<1>1. DOMAIN new = DOMAIN assets \cup keys
    BY DEF AddAssets
<1>2. DOMAIN new = UNION {AssetKeys(files[j], listing) : j \in Q}
    BY <1>1 DEF AssetsAgree
<1>3. ASSUME NEW k \in DOMAIN new PROVE new[k].seen = Entry(HavingAsset(Q, k, listing))
    <2> DEFINE H == HavingAsset(P, k, listing)
    <2>1. H \in SUBSET (DOMAIN files) /\ i \notin H /\ (k \in DOMAIN assets <=> H # {})
        BY DEF HavingAsset, AssetsAgree
    <2>2. CASE k \notin keys
        <3>1. HavingAsset(Q, k, listing) = H
            BY <2>2 DEF HavingAsset
        <3>2. k \in DOMAIN assets /\ new[k] = assets[k]
            BY <1>1, <1>3, <2>2 DEF AddAssets
        <3> QED
            BY <3>1, <3>2 DEF AssetsAgree
    <2>3. CASE k \in keys /\ k \in DOMAIN assets
        <3>1. HavingAsset(Q, k, listing) = H \cup {i}
            BY <2>3 DEF HavingAsset
        <3>2. new[k].seen = SeenAgain(assets[k].seen, f)
            BY <2>3 DEF AddAssets
        <3>3. assets[k].seen = Entry(H)
            BY <2>3 DEF AssetsAgree
        <3> QED
            BY <2>1, <2>3, <3>1, <3>2, <3>3, SeenInMore
    <2>4. CASE k \in keys /\ k \notin DOMAIN assets
        <3>1. HavingAsset(Q, k, listing) = {i}
            BY <2>1, <2>4 DEF HavingAsset
        <3>2. new[k].seen = SeenIn(f)
            BY <2>4 DEF AddAssets
        <3> QED
            BY <3>1, <3>2, SeenInOne
    <2> QED
        BY <2>2, <2>3, <2>4
<1> QED
    BY <1>2, <1>3 DEF AssetsAgree

-----------------------------------------------------------------------------
(* The key of an asset.                                                    *)

\* A listing has each report once.
LEMMA ListingIsWhole ==
    ASSUME FilesOK, NEW order \in Bijection(DOMAIN files, DOMAIN files)
    PROVE  /\ DOMAIN Listing(order) = 1 .. Len(files) /\ Len(Listing(order)) = Len(files)
           /\ \A j \in DOMAIN files : order[j] \in DOMAIN files /\ Listing(order)[j] = files[order[j]]
           /\ \A j, k \in DOMAIN files : order[j] = order[k] => j = k
           /\ \A i \in DOMAIN files : \E j \in DOMAIN files : order[j] = i
<1>1. Len(files) \in Nat /\ DOMAIN files = 1 .. Len(files)
    BY FilesAreFew
<1>2. order \in [DOMAIN files -> DOMAIN files]
    BY DEF Bijection, Injection
<1>3. \A j, k \in DOMAIN files : order[j] = order[k] => j = k
    BY <1>2 DEF Bijection, Injection, IsInjective
<1>4. \A i \in DOMAIN files : \E j \in DOMAIN files : order[j] = i
    BY DEF Bijection, Surjection
<1>5. DOMAIN Listing(order) = 1 .. Len(files)
    BY <1>1 DEF Listing
<1>6. Len(Listing(order)) = Len(files)
    BY <1>1, <1>5
<1>7. \A j \in DOMAIN files : order[j] \in DOMAIN files /\ Listing(order)[j] = files[order[j]]
    BY <1>2 DEF Listing
<1> QED
    BY <1>3, <1>4, <1>5, <1>6, <1>7

\* The MAC that is found for an address is one of its owners, if it has any.
LEMMA MacIsAnOwner ==
    ASSUME FilesOK, NEW order \in Bijection(DOMAIN files, DOMAIN files), NEW ip
    PROVE  IF Owners(ip) = {} THEN MacOf(ip, Listing(order)) = NoText
           ELSE MacOf(ip, Listing(order)) \in Owners(ip)
<1> DEFINE L == Listing(order)
           Telling(j) == {n \in DOMAIN Nodes(L[j]) : Nodes(L[j])[n].ip = ip /\ Nodes(L[j])[n].mac # NoText}
           some == {j \in DOMAIN L : Telling(j) # {}}
<1>1. /\ Len(files) \in Nat /\ DOMAIN files = 1 .. Len(files) /\ DOMAIN L = DOMAIN files
      /\ \A j \in DOMAIN files : order[j] \in DOMAIN files /\ L[j] = files[order[j]]
      /\ \A i \in DOMAIN files : \E j \in DOMAIN files : order[j] = i
    BY FilesAreFew, ListingIsWhole
<1>2. MacOf(ip, L) = IF some = {} THEN NoText
                     ELSE Nodes(L[FirstOf(some)])[FirstOf(Telling(FirstOf(some)))].mac
    BY DEF MacOf
<1> HIDE DEF L
<1>3. ASSUME NEW i \in DOMAIN files
      PROVE  Nodes(files[i]) \in Seq(Range(Nodes(files[i])))
    <2>1. files[i] \in Saved
        BY DEF FilesOK
    <2>2. files[i].says \in Contents
        BY <2>1 DEF Saved
    <2> QED
        BY <2>2, ProjectAssumption DEF Nodes
<1>4. ASSUME NEW j \in DOMAIN L, NEW n \in Telling(j)
      PROVE  Nodes(L[j])[n].mac \in Owners(ip)
    <2>1. Nodes(L[j])[n] \in Range(Nodes(files[order[j]]))
        BY <1>1, <1>4 DEF Range
    <2>2. Nodes(L[j])[n] \in AllNodes
        BY <1>1, <1>4, <2>1 DEF AllNodes
    <2> QED
        BY <1>4, <2>2 DEF Owners
<1>5. Owners(ip) # {} => some # {}
    <2> SUFFICES ASSUME Owners(ip) # {} PROVE some # {}
        OBVIOUS
    <2>1. PICK m \in AllNodes : m.ip = ip /\ m.mac # NoText
        BY DEF Owners
    <2>2. PICK i \in DOMAIN files : m \in Range(Nodes(files[i]))
        BY <2>1 DEF AllNodes
    <2>3. PICK j \in DOMAIN files : order[j] = i
        BY <1>1
    <2>4. L[j] = files[i]
        BY <1>1, <2>3
    <2>5. PICK n \in DOMAIN Nodes(L[j]) : Nodes(L[j])[n] = m
        BY <2>2, <2>4 DEF Range
    <2> QED
        BY <1>1, <2>1, <2>5
<1>6. ASSUME some # {} PROVE MacOf(ip, L) \in Owners(ip)
    <2> DEFINE j == FirstOf(some)
    <2>1. some \in SUBSET Nat
        BY <1>1
    <2>2. j \in some
        <3> HIDE DEF some
        <3> QED
            BY <1>6, <2>1, FirstIsThere
    <2>3. j \in DOMAIN L /\ Telling(j) # {}
        <3> HIDE DEF j
        <3> QED
            BY <2>2
    <2> HIDE DEF j
    <2>4. Telling(j) \in SUBSET Nat
        <3>1. order[j] \in DOMAIN files /\ L[j] = files[order[j]]
            BY <1>1, <2>3
        <3>2. Nodes(L[j]) \in Seq(Range(Nodes(L[j])))
            BY <1>3, <3>1
        <3>3. DOMAIN Nodes(L[j]) \subseteq Nat
            BY <3>2
        <3> QED
            BY <3>3
    <2>5. FirstOf(Telling(j)) \in Telling(j)
        <3> HIDE DEF Telling
        <3> QED
            BY <2>3, <2>4, FirstIsThere
    <2>6. Nodes(L[j])[FirstOf(Telling(j))].mac \in Owners(ip)
        <3> HIDE DEF Telling
        <3> QED
            BY <1>4, <2>3, <2>5
    <2> HIDE DEF Telling, some
    <2> QED
        BY <1>2, <1>6, <2>6 DEF j
<1>7. some # {} => Owners(ip) # {}
    BY <1>6
<1> HIDE DEF some, Telling
<1> QED
    BY <1>2, <1>5, <1>6, <1>7 DEF L

\* As long as no address belongs to two MACs, a node is kept under its device.
LEMMA KeyIsDevice ==
    ASSUME FilesOK, NEW order \in Bijection(DOMAIN files, DOMAIN files), OneOwner, NEW n \in AllNodes
    PROVE  Device(n) = {AssetKey(n, Listing(order))} \ {NoText}
<1> DEFINE m == MacOf(n.ip, Listing(order))
<1>1. IF Owners(n.ip) = {} THEN m = NoText ELSE m \in Owners(n.ip)
    BY MacIsAnOwner
<1>2. NoText \notin Owners(n.ip)
    BY DEF Owners
<1>3. CASE n.mac # NoText
    BY <1>3 DEF Device, AssetKey
<1>4. CASE n.mac = NoText /\ n.ip = NoText
    BY <1>4 DEF Device, AssetKey
<1>5. CASE n.mac = NoText /\ n.ip # NoText
    <2>1. \A a, b \in Owners(n.ip) : a = b
        BY <1>5 DEF OneOwner
    <2>2. CASE Owners(n.ip) = {}
        BY <1>1, <1>5, <2>2 DEF Device, AssetKey
    <2>3. CASE Owners(n.ip) # {}
        <3>1. Owners(n.ip) = {m} /\ m # NoText
            BY <1>1, <1>2, <2>1, <2>3
        <3> HIDE DEF m
        <3>2. AssetKey(n, Listing(order)) = m
            BY <1>5, <3>1 DEF AssetKey, m
        <3>3. Device(n) = {m}
            BY <1>5, <3>1 DEF Device
        <3> QED
            BY <3>1, <3>2, <3>3
    <2> QED
        BY <2>2, <2>3
<1> QED
    BY <1>3, <1>4, <1>5

\* Hence the reports that show a device are those that have its asset.
LEMMA ShowingIsHaving ==
    ASSUME FilesOK, NEW order \in Bijection(DOMAIN files, DOMAIN files), OneOwner
    PROVE  /\ \A k : Showing(k) = HavingAsset(DOMAIN files, k, Listing(order))
           /\ UNION {Device(n) : n \in AllNodes}
                = UNION {AssetKeys(files[i], Listing(order)) : i \in DOMAIN files}
<1>1. ASSUME NEW i \in DOMAIN files, NEW k
      PROVE  k \in AssetKeys(files[i], Listing(order)) <=> \E n \in Range(Nodes(files[i])) : k \in Device(n)
    <2>1. \A n \in Range(Nodes(files[i])) : n \in AllNodes
        BY DEF AllNodes
    <2>2. \A n \in Range(Nodes(files[i])) : Device(n) = {AssetKey(n, Listing(order))} \ {NoText}
        BY <2>1, KeyIsDevice
    <2> QED
        BY <2>2 DEF AssetKeys
<1>2. \A k : Showing(k) = HavingAsset(DOMAIN files, k, Listing(order))
    BY <1>1 DEF Showing, HavingAsset
<1>3. \A k : k \in UNION {Device(n) : n \in AllNodes}
                <=> \E i \in DOMAIN files : \E n \in Range(Nodes(files[i])) : k \in Device(n)
    BY DEF AllNodes
<1>4. \A k : k \in UNION {Device(n) : n \in AllNodes}
                <=> k \in UNION {AssetKeys(files[i], Listing(order)) : i \in DOMAIN files}
    BY <1>1, <1>3
<1> QED
    BY <1>2, <1>4

-----------------------------------------------------------------------------
(* The roll-up of all reports.                                             *)

\* The recursion of a roll-up has a solution.
RollupsOf(R, listing, m) ==
    R = [k \in 0 .. m |-> IF k = 0 THEN NoReports ELSE AddReport(R[k - 1], listing[k], listing)]

\* So the roll-ups unfold: each is the one before it and one more report.
LEMMA RollupsUnfold ==
    ASSUME NEW listing, Len(listing) \in Nat
    PROVE  RollupsOf(Rollups(listing), listing, Len(listing))
<1> DEFINE N == Len(listing)
           Good == {m \in 0 .. N : \E R : RollupsOf(R, listing, m)}
<1>1. 0 \in Good
    <2>1. RollupsOf([k \in 0 .. 0 |-> NoReports], listing, 0)
        BY DEF RollupsOf
    <2> QED
        BY <2>1
<1>2. ASSUME NEW m \in 0 .. N, m # N, m \in Good PROVE m + 1 \in Good
    <2>1. PICK R : RollupsOf(R, listing, m)
        BY <1>2
    <2> DEFINE B == [k \in 0 .. m + 1 |-> IF k = m + 1 THEN AddReport(R[m], listing[m + 1], listing) ELSE R[k]]
    <2>2. B[0] = NoReports
        BY <2>1 DEF RollupsOf
    <2>3. ASSUME NEW k \in 1 .. m + 1 PROVE B[k] = AddReport(B[k - 1], listing[k], listing)
        <3>1. B[k - 1] = R[k - 1]
            OBVIOUS
        <3>2. CASE k = m + 1
            BY <3>1, <3>2
        <3>3. CASE k # m + 1
            <4>1. k \in 0 .. m /\ k # 0 /\ B[k] = R[k]
                BY <3>3
            <4>2. R[k] = AddReport(R[k - 1], listing[k], listing)
                BY <2>1, <4>1 DEF RollupsOf
            <4> QED
                BY <3>1, <4>1, <4>2
        <3> QED
            BY <3>2, <3>3
    <2>4. B = [k \in 0 .. m + 1 |-> B[k]]
        OBVIOUS
    <2> HIDE DEF B
    <2>5. \A k \in 0 .. m + 1 : B[k] = IF k = 0 THEN NoReports ELSE AddReport(B[k - 1], listing[k], listing)
        BY <2>2, <2>3
    <2>6. RollupsOf(B, listing, m + 1)
        BY <2>4, <2>5 DEF RollupsOf
    <2>7. m + 1 \in 0 .. N
        <3>1. N \in Nat
            OBVIOUS
        <3> HIDE DEF N
        <3> QED
            BY <1>2, <3>1
    <2> QED
        BY <2>6, <2>7
<1>3. \E R : RollupsOf(R, listing, N)
    <2> HIDE DEF Good
    <2>1. \A k \in 0 .. N : k # N /\ k \in Good => k + 1 \in Good
        BY <1>2
    <2>2. \A k \in 0 .. N : k \in Good
        BY <1>1, <2>1, AllTheWay, Zenon
    <2>3. N \in Good
        BY <2>2
    <2> QED
        BY <2>3 DEF Good
<1>4. Rollups(listing)
        = CHOOSE R : R = [k \in 0 .. N |->
                            IF k = 0 THEN NoReports ELSE AddReport(R[k - 1], listing[k], listing)]
    BY Zenon DEF Rollups
<1> QED
    BY <1>3, <1>4, Zenon DEF RollupsOf

\* In whatever order the reports are met, what has been rolled up agrees with
\* those that have been met.
Met(order, k) == {order[j] : j \in 1 .. k}
DocAgrees(doc, P, listing) ==
    /\ FindingsAgree(doc.findings, P)
    /\ CountsAgree(doc.severities, P)
    /\ AssetsAgree(doc.assets, P, listing)

\* The whole listing: aggregate_reports has met every report of the directory.
LEMMA RollupAgrees ==
    ASSUME FilesOK, NEW order \in Bijection(DOMAIN files, DOMAIN files)
    PROVE  DocAgrees(Rollup(Listing(order)), DOMAIN files, Listing(order))
<1> DEFINE N == Len(files)
           L == Listing(order)
           R == Rollups(L)
           Good == {k \in 0 .. N : DocAgrees(R[k], Met(order, k), L)}
<1>1. N \in Nat /\ DOMAIN files = 1 .. N
    BY FilesAreFew
<1>2. /\ Len(L) = N
      /\ \A j \in 1 .. N : order[j] \in DOMAIN files /\ L[j] = files[order[j]]
      /\ \A j, k \in 1 .. N : order[j] = order[k] => j = k
      /\ \A i \in DOMAIN files : \E j \in 1 .. N : order[j] = i
    <2>1. /\ Len(L) = N
          /\ \A j \in DOMAIN files : order[j] \in DOMAIN files /\ L[j] = files[order[j]]
          /\ \A j, k \in DOMAIN files : order[j] = order[k] => j = k
          /\ \A i \in DOMAIN files : \E j \in DOMAIN files : order[j] = i
        BY ListingIsWhole
    <2> HIDE DEF N, L
    <2> QED
        BY <1>1, <2>1
<1>3. R[0] = NoReports /\ \A k \in 1 .. N : R[k] = AddReport(R[k - 1], L[k], L)
    <2> HIDE DEF N, L
    <2>1. RollupsOf(R, L, N)
        BY <1>1, <1>2, RollupsUnfold
    <2> HIDE DEF R
    <2>2. \A k \in 0 .. N : R[k] = IF k = 0 THEN NoReports ELSE AddReport(R[k - 1], L[k], L)
        BY <2>1 DEF RollupsOf
    <2> QED
        BY <1>1, <2>2
<1> HIDE DEF R, L, N
<1>4. 0 \in Good
    <2>1. Met(order, 0) = {}
        BY DEF Met
    <2>2. FindingsAgree(Empty, {})
        BY DEF FindingsAgree, Empty
    <2>3. AssetsAgree(Empty, {}, L)
        BY DEF AssetsAgree, Empty
    <2>4. CountsAgree([s \in Range(Severities) |-> 0], {})
        <3>1. \A s : Counted({}, s) = {}
            BY DEF Counted
        <3> QED
            BY <3>1, FS_EmptySet DEF CountsAgree
    <2>5. R[0].findings = Empty /\ R[0].assets = Empty /\ R[0].severities = [s \in Range(Severities) |-> 0]
        BY <1>3 DEF NoReports
    <2> QED
        BY <1>1, <2>1, <2>2, <2>3, <2>4, <2>5 DEF DocAgrees
<1>5. ASSUME NEW m \in 0 .. N, m # N, m \in Good PROVE m + 1 \in Good
    <2> DEFINE k == m + 1
               P == Met(order, m)
               i == order[k]
    <2>1. /\ k \in 1 .. N /\ k - 1 = m /\ k \in 0 .. N
          /\ \A j : j \in 1 .. k <=> j \in 1 .. m \/ j = k
          /\ \A j \in 1 .. m : j \in 1 .. N /\ j # k
        BY <1>1, <1>5
    <2> HIDE DEF k
    <2>2. P \in SUBSET (DOMAIN files) /\ i \in (DOMAIN files) \ P /\ L[k] = files[i]
        <3>1. \A j \in 1 .. m : order[j] \in DOMAIN files /\ order[j] # i
            BY <1>2, <2>1
        <3>2. i \in DOMAIN files /\ L[k] = files[i]
            BY <1>2, <2>1
        <3> QED
            BY <3>1, <3>2 DEF Met
    <2>3. Met(order, k) = P \cup {i}
        BY <2>1 DEF Met
    <2>4. DocAgrees(R[m], P, L)
        BY <1>5
    <2>5. R[k] = AddReport(R[m], files[i], L)
        BY <1>3, <2>1, <2>2
    <2> HIDE DEF P, i
    <2>6. /\ R[k].findings = AddFindings(R[m].findings, files[i])
          /\ R[k].severities = AddSeverities(R[m].severities, files[i])
          /\ R[k].assets = AddAssets(R[m].assets, files[i], L)
        BY <2>5 DEF AddReport
    <2>7. FindingsAgree(R[k].findings, P \cup {i})
        BY <2>2, <2>4, <2>6, OneMoreForFindings DEF DocAgrees
    <2>8. CountsAgree(R[k].severities, P \cup {i})
        BY <2>2, <2>4, <2>6, OneMoreForCounts DEF DocAgrees
    <2>9. AssetsAgree(R[k].assets, P \cup {i}, L)
        BY <2>2, <2>4, <2>6, OneMoreForAssets DEF DocAgrees
    <2>10. DocAgrees(R[k], Met(order, k), L)
        BY <2>3, <2>7, <2>8, <2>9 DEF DocAgrees
    <2> QED
        BY <2>1, <2>10 DEF k
<1>6. N \in Good
    <2> HIDE DEF Good
    <2>1. \A k \in 0 .. N : k # N /\ k \in Good => k + 1 \in Good
        BY <1>5
    <2>2. \A k \in 0 .. N : k \in Good
        BY <1>1, <1>4, <2>1, AllTheWay, Zenon
    <2> QED
        BY <1>1, <2>2
<1>7. Met(order, N) = DOMAIN files
    <2>1. Met(order, N) = {order[j] : j \in 1 .. N}
        BY DEF Met
    <2>2. \A i \in Met(order, N) : i \in DOMAIN files
        BY <1>2, <2>1
    <2>3. \A i \in DOMAIN files : i \in Met(order, N)
        BY <1>2, <2>1
    <2> QED
        BY <2>2, <2>3
<1>8. Rollup(Listing(order)) = R[N]
    BY <1>2 DEF Rollup, R, L
<1> QED
    BY <1>6, <1>7, <1>8 DEF L

\* What agrees with the reports, in whatever order they were met, is what
\* RollupIgnoresListing says of a roll-up.
LEMMA RollupTells ==
    ASSUME FilesOK, NEW order \in Bijection(DOMAIN files, DOMAIN files), rollup = Rollup(Listing(order))
    PROVE  RollupIgnoresListing
<1> DEFINE L == Listing(order)
<1>1. /\ FindingsAgree(rollup.findings, DOMAIN files)
      /\ CountsAgree(rollup.severities, DOMAIN files)
      /\ AssetsAgree(rollup.assets, DOMAIN files, L)
    BY RollupAgrees DEF DocAgrees
<1>2. DOMAIN rollup.findings = UNION {FindingKeys(files[i]) : i \in DOMAIN files}
    BY <1>1 DEF FindingsAgree
<1>3. \A k \in DOMAIN rollup.findings :
        rollup.findings[k] = [seen |-> Entry(Having(k)),
                              severity |-> Worst(UNION {GradesIn(files[i], k) : i \in Having(k)}),
                              text |-> FirstNaming(files[Newest(Having(k))], k).text]
    <2>1. \A k : HavingIn(DOMAIN files, k) = Having(k)
        BY DEF HavingIn, Having
    <2> QED
        BY <1>1, <2>1 DEF FindingsAgree, FindingOf
<1>4. \A s \in Range(Severities) :
        rollup.severities[s] = Cardinality(UNION {{i} \X Counting(files[i], s) : i \in DOMAIN files})
    BY <1>1 DEF CountsAgree, Counted
<1>5. ASSUME OneOwner
      PROVE  /\ DOMAIN rollup.assets = UNION {Device(n) : n \in AllNodes}
             /\ \A k \in DOMAIN rollup.assets : rollup.assets[k].seen = Entry(Showing(k))
    BY <1>1, <1>5, ShowingIsHaving DEF AssetsAgree
<1> QED
    BY <1>2, <1>3, <1>4, <1>5 DEF RollupIgnoresListing

\* The roll-up of aggregate_reports does not depend on the order in which
\* os.listdir gives the reports: how many reports have a finding, the oldest and
\* the newest of them, its worst severity, its newest text and the severity counts
\* are those of the reports together; so are the assets, as long as no address
\* belongs to two MACs.
THEOREM RollupsIgnoreListing == ProjectSpec => []RollupIgnoresListing
<1>1. ProjectInv => RollupIgnoresListing
    <2>1. rollup = NoDoc => RollupIgnoresListing
        BY DEF RollupIgnoresListing
    <2> QED
        BY <2>1, RollupTells DEF ProjectInv, AnswersOK
<1> QED
    BY <1>1, ProjectHolds, PTL

===============================================================================

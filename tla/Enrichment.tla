------------------------------ MODULE Enrichment ------------------------------
(***************************************************************************)
(* The files of one chain run: the report the engine saves, the sidecars   *)
(* the enrichment plugins write beside it, and what the viewer merges of   *)
(* them (marlinspike/enrich.py).  The engine runs the plugins at the end   *)
(* of the chain, the web process runs them again before it gives its       *)
(* verdict, a worker that recovers the run does so in its place, a viewer  *)
(* runs MITRE if its sidecar is missing, and the enrich command runs all   *)
(* of them on a finished report.  Reports and sidecars are opened for      *)
(* writing in place; only the merged report replaces the old one at once.  *)
(*                                                                         *)
(* The verdict and its races are ScanRecovery's.  An artifact is what its  *)
(* plugin read: a part of the report or the whole.                         *)
(***************************************************************************)
EXTENDS Integers, Sequences, Functions

CONSTANTS
    Plugins,    \* the enabled plugins in the order of _SPECS
    Mitre,      \* the one that viewers ask for
    MaxFaults,  \* bound: plugins that fail, processes that are killed
    MaxExtra    \* bound: MITRE runs of viewers and enrich commands
ASSUME EnrichmentAssumption ==
    /\ Plugins \in Seq(Range(Plugins)) /\ Mitre \in Range(Plugins)
    /\ MaxFaults \in Nat /\ MaxExtra \in Nat

Artifacts == {"part", "whole"}
Nothing == [p \in Range(Plugins) |-> "none"]

VARIABLES
    report,     \* the report file: its text, its extensions, and how many findings of
                \* each plugin are among its risk findings
    sidecar,    \* of each plugin: "none", "torn" or an artifact
    plugins,    \* the plugin processes that run
    queue,      \* of the engine and of the web process: the plugins still to run
    chain,      \* the engine: "run", "save", "final", "last", "enrich", "done", "killed"
    verdict,    \* "open", "finalize", "lost", "recover", "completed", "recovered", "failed"
    failed,     \* plugins whose last run after the chain's has failed
    clashed,    \* plugins of which two processes had the sidecar open
    peeked,     \* a viewer's MITRE has read a part of the report
    faults, extra
enrichment == <<report, sidecar, plugins, queue, chain, verdict, failed, clashed, peeked,
                faults, extra>>

EnrichmentInit ==
    /\ report = [text |-> "none", ext |-> Nothing, listed |-> [p \in Range(Plugins) |-> 0]]
    /\ sidecar = Nothing /\ plugins = {}
    /\ queue = [by \in {"engine", "web"} |-> <<>>]
    /\ chain = "run" /\ verdict = "open"
    /\ failed = {} /\ clashed = {} /\ peeked = FALSE /\ faults = 0 /\ extra = 0

-----------------------------------------------------------------------------
(* What is read.                                                           *)

\* The extensions of the report; a sidecar that can be parsed replaces them.
Extensions(file) ==
    [p \in Range(Plugins) |-> IF sidecar[p] \in Artifacts THEN sidecar[p] ELSE file.ext[p]]

\* collect_plugin_risk_findings: those of every extension, here one of each.
Collected(ext) == [p \in Range(Plugins) |-> IF ext[p] # "none" THEN 1 ELSE 0]

\* load_report_with_extensions: the findings whose source is a plugin are
\* dropped before those of the extensions are added.
LoadReport(file) ==
    [text |-> file.text, ext |-> Extensions(file), listed |-> Collected(Extensions(file))]

-----------------------------------------------------------------------------
(* The plugins.                                                            *)

Process(by, p) == [by |-> by, plugin |-> p, read |-> report.text, open |-> FALSE]
Writing(p) == {pr \in plugins : pr.plugin = p /\ pr.open}

\* The job goes on with its next plugin, whether this one has failed or not.
Advance(by) ==
    queue' = IF by \in DOMAIN queue THEN [queue EXCEPT ![by] = Tail(@)] ELSE queue

\* _run_spec.
StartPlugin(by) ==
    /\ queue[by] # <<>> /\ ~\E pr \in plugins : pr.by = by
    /\ plugins' = plugins \cup {Process(by, Head(queue[by]))}
    /\ UNCHANGED <<report, sidecar, queue, chain, verdict, failed, clashed, peeked, faults, extra>>

\* The plugin has read the report and opens its output, which empties it.
OpenSidecar(pr) ==
    /\ pr \in plugins /\ ~pr.open /\ pr.read \in Artifacts
    /\ plugins' = (plugins \ {pr}) \cup {[pr EXCEPT !.open = TRUE]}
    /\ sidecar' = [sidecar EXCEPT ![pr.plugin] = "torn"]
    /\ clashed' = clashed \cup {p \in {pr.plugin} : Writing(p) # {}}
    /\ UNCHANGED <<report, queue, chain, verdict, failed, peeked, faults, extra>>

\* It has written all.  What two processes write at once may be a mixture.
CloseSidecar(pr) ==
    /\ pr \in plugins /\ pr.open
    /\ plugins' = plugins \ {pr}
    /\ \E text \in {pr.read} \cup (IF pr.plugin \in clashed THEN {"torn"} ELSE {}) :
            sidecar' = [sidecar EXCEPT ![pr.plugin] = text]
    /\ Advance(pr.by) /\ failed' = failed \ {pr.plugin}
    /\ UNCHANGED <<report, chain, verdict, clashed, peeked, faults, extra>>

\* What the chain runs is run again.
Failed(pr) == failed \cup IF pr.by = "engine" /\ verdict \in {"open", "lost"}
                            THEN {} ELSE {pr.plugin}

\* The plugin exits with an error or is killed after 120 s; what it has
\* written stays.  A run of the chain only logs it.
PluginFails(pr) ==
    /\ pr \in plugins
    /\ pr.read \in Artifacts => faults < MaxFaults
    /\ faults' = IF pr.read \in Artifacts THEN faults + 1 ELSE faults
    /\ plugins' = plugins \ {pr}
    /\ failed' = Failed(pr)
    /\ Advance(pr.by)
    /\ UNCHANGED <<report, sidecar, chain, verdict, clashed, peeked, extra>>

-----------------------------------------------------------------------------
(* The engine.                                                             *)

\* A stage is done (_save_intermediate): the report is opened for writing.
OpenReport ==
    /\ chain = "run"
    /\ report' = [report EXCEPT !.text = "torn"] /\ chain' = "save"
    /\ UNCHANGED <<sidecar, plugins, queue, verdict, failed, clashed, peeked, faults, extra>>

\* It has been saved.  The save after the last stage is followed by the final
\* one, which writes the same once more.
CloseReport ==
    /\ chain \in {"save", "last"}
    /\ \/ /\ chain = "save" /\ chain' = "run"
          /\ report' = [report EXCEPT !.text = "part"]
          /\ UNCHANGED queue
       \/ /\ chain = "save" /\ chain' = "final"
          /\ report' = [report EXCEPT !.text = "whole"]
          /\ UNCHANGED queue
       \/ /\ chain = "last" /\ chain' = "enrich"
          /\ report' = [report EXCEPT !.text = "whole"]
          /\ queue' = [queue EXCEPT !["engine"] = Plugins]
    /\ UNCHANGED <<sidecar, plugins, verdict, failed, clashed, peeked, faults, extra>>

FinalSave ==
    /\ chain = "final" /\ chain' = "last"
    /\ report' = [report EXCEPT !.text = "torn"]
    /\ UNCHANGED <<sidecar, plugins, queue, verdict, failed, clashed, peeked, faults, extra>>

\* write_enriched, once the plugins have run.
MergeReport ==
    /\ chain = "enrich" /\ queue["engine"] = <<>>
    /\ report' = LoadReport(report) /\ chain' = "done"
    /\ UNCHANGED <<sidecar, plugins, queue, verdict, failed, clashed, peeked, faults, extra>>

\* The engine is killed; its plugin goes on alone.
Orphans(by) == {[pr EXCEPT !.by = IF @ = by THEN "nobody" ELSE @] : pr \in plugins}
EngineKilled ==
    /\ chain \notin {"done", "killed"} /\ verdict \in {"open", "lost"}
    /\ faults < MaxFaults /\ faults' = faults + 1
    /\ chain' = "killed" /\ plugins' = Orphans("engine")
    /\ queue' = [queue EXCEPT !["engine"] = <<>>]
    /\ UNCHANGED <<report, sidecar, verdict, failed, clashed, peeked, extra>>

\* run_enrich: the enrich command on the report of a finished run.
EnrichCommand ==
    /\ verdict \in {"completed", "recovered"} /\ chain \in {"done", "killed"}
    /\ extra < MaxExtra /\ extra' = extra + 1
    /\ chain' = "enrich" /\ queue' = [queue EXCEPT !["engine"] = Plugins]
    /\ UNCHANGED <<report, sidecar, plugins, verdict, failed, clashed, peeked, faults>>

-----------------------------------------------------------------------------
(* The web process.                                                        *)

\* Bug: the finalizer relies on the plugins the chain has run.
FinalizeWithout == <<>>

\* The plugins _finalize_run runs, each of them enabled.
FinalPlugins == Plugins

\* _finalize_run of a chain run that was not stopped.
Finalize ==
    /\ verdict = "open" /\ chain \in {"done", "killed"}
    /\ \/ /\ chain = "done" /\ verdict' = "finalize"
          /\ queue' = [queue EXCEPT !["web"] = FinalPlugins]
       \/ /\ chain = "killed" /\ verdict' = "failed" /\ UNCHANGED queue
    /\ UNCHANGED <<report, sidecar, plugins, chain, failed, clashed, peeked, faults, extra>>

\* The worker is killed, and with it the reader thread; the plugin goes on.
WorkerKilled ==
    /\ verdict \in {"open", "finalize"}
    /\ faults < MaxFaults /\ faults' = faults + 1
    /\ verdict' = "lost" /\ plugins' = Orphans("web")
    /\ queue' = [queue EXCEPT !["web"] = <<>>]
    /\ UNCHANGED <<report, sidecar, chain, failed, clashed, peeked, extra>>

\* The next boot, or its watcher, once the engine is gone: report_complete,
\* then _ingest_completed_report.
Recover ==
    /\ verdict = "lost" /\ chain \in {"done", "killed"}
    /\ \/ /\ report.text = "whole" /\ verdict' = "recover"
          /\ queue' = [queue EXCEPT !["web"] = Plugins]
       \/ /\ report.text # "whole" /\ verdict' = "failed" /\ UNCHANGED queue
    /\ UNCHANGED <<report, sidecar, plugins, chain, failed, clashed, peeked, faults, extra>>

\* The plugins have run: the run is completed.
Complete ==
    /\ verdict \in {"finalize", "recover"} /\ queue["web"] = <<>>
    /\ verdict' = IF verdict = "finalize" THEN "completed" ELSE "recovered"
    /\ UNCHANGED <<report, sidecar, plugins, queue, chain, failed, clashed, peeked, faults, extra>>

\* A viewer opens a report that can be read and has no MITRE sidecar
\* (ensure_mitre), at any time, in a process that may wait.
ViewReport ==
    /\ report.text \in Artifacts /\ sidecar[Mitre] = "none"
    /\ ~\E pr \in plugins : pr.by = "viewer"
    /\ extra < MaxExtra /\ extra' = extra + 1
    /\ plugins' = plugins \cup {Process("viewer", Mitre)}
    /\ peeked' = (peeked \/ report.text = "part")
    /\ UNCHANGED <<report, sidecar, queue, chain, verdict, failed, clashed, faults>>

EnrichmentNext ==
    \/ \E by \in DOMAIN queue : StartPlugin(by)
    \/ \E pr \in plugins : OpenSidecar(pr) \/ CloseSidecar(pr) \/ PluginFails(pr)
    \/ OpenReport \/ CloseReport \/ FinalSave \/ MergeReport \/ EngineKilled \/ EnrichCommand
    \/ Finalize \/ WorkerKilled \/ Recover \/ Complete \/ ViewReport
EnrichmentSpec == EnrichmentInit /\ [][EnrichmentNext]_enrichment

-----------------------------------------------------------------------------
(* Properties.                                                             *)

Finished == verdict \in {"completed", "recovered"} /\ chain \in {"done", "killed"} /\ plugins = {}

\* The viewer of a finished run shows, once each, the findings every plugin
\* has made of the whole report.  The plugins run up to four times on files
\* written in place, so what it may miss is said here: a plugin that failed
\* when the web process (which flags the run as degraded) or a command ran it,
\* one whose sidecar was open in two processes, which takes a killed process
\* or a viewer, and MITRE after a viewer who did not wait for the scan.
FinishedShowsAll ==
    Finished =>
        LET shown == LoadReport(report)
        IN /\ \A p \in Range(Plugins) \ (failed \cup clashed) :
                (p = Mitre /\ peeked) \/ (shown.ext[p] = "whole" /\ shown.listed[p] = 1)
           /\ \A p \in Range(Plugins) : shown.listed[p] <= 1
           /\ clashed # {} => faults > 0 \/ extra > 0

=============================================================================

---------------------------- MODULE ReportLibrary ----------------------------
(***************************************************************************)
(* The reports directory of a project while it is in use: the engine of a  *)
(* running scan writes a report and then the files of its exports beside   *)
(* it, reports are deleted, and requests read their way through the        *)
(* directory: the exports of the project, hunts, the audit, and the        *)
(* exports of one report.                                                  *)
(*                                                                         *)
(* Nothing locks the directory.  A request lists the names first and then  *)
(* opens one file after the other.  The rewrite of a report by its         *)
(* enrichment replaces the file at once and is not shown.                  *)
(***************************************************************************)
EXTENDS IocHunt, ProjectAudit

CONSTANTS
    Names,          \* of reports, in the order of a listing and of the scans
    Assignments,    \* what the reports say: functions from names to reports
    Saves,          \* how often run_chain writes the report: after stage 4, and at the end
    Cut             \* what is served of an export that was cut short

\* Names are unique in a directory.  What the reports say: an identifier that a
\* malware finding has of its own is a hash of it (emit/stix.py:181), no address is
\* called like a capture, and the identifier the audit falls back to is that of no
\* vulnerability.  An
\* indicator that is pasted is of one of the types (VALID_IOC_TYPES).
ASSUME LibraryAssumption ==
    /\ PatternCap \in Nat /\ Saves \in Nat /\ PerReport \in Nat /\ Total \in Nat
    /\ \A pasted \in Pastes : /\ pasted \in Seq(Rows(pasted))
                              /\ \A ioc \in Rows(pasted) : ioc.type \in Types
    /\ Names \in Seq(Rows(Names))
    /\ \A i, j \in DOMAIN Names : Names[i] = Names[j] => i = j
    /\ \A a \in Assignments : \A n \in Rows(Names) :
          /\ IsReport(a[n])
          /\ {a[n], Raw(a[n])} \cap {Unreadable, Cut} = {}
          /\ \A d \in Rows(a[n].nodes) : Advisory \notin d.cves
          /\ \A m \in Rows(Names) :
                /\ \A v \in Rows(a[n].malware), w \in Rows(a[m].malware) :
                      v.id = w.id /\ v.id # NoText => v.value = w.value
                /\ ~Mentions(a[n], a[m].capture)

Format == "ocsf"    \* the export that is written beside a report
Kinds == {"report", Format}

VARIABLES
    says,       \* what the report of a name says once it is written
    files,      \* of each name and kind: "none", "partial" or "whole"
    engine,     \* the scan that is writing, [name, writes, open], or NoScan
    scanned,    \* how many scans have begun
    reading     \* a request, [kind, todo, looked, got, settled, entries], or NoReading
library == <<says, files, engine, scanned, reading, list, import>>
NoScan == [name |-> "none"]
NoReading == [kind |-> "none"]

LibraryInit ==
    /\ says \in Assignments
    /\ files = [n \in Rows(Names) |-> [k \in Kinds |-> "none"]]
    /\ engine = NoScan /\ scanned = 0 /\ reading = NoReading
    /\ ListsInit

-----------------------------------------------------------------------------
(* The engine.                                                             *)

StartScan ==
    /\ engine = NoScan /\ scanned < Len(Names)
    /\ scanned' = scanned + 1
    /\ engine' = [name |-> Names[scanned + 1], open |-> FALSE,
                  writes |-> [i \in 1 .. Saves |-> "report"] \o <<Format>>]
    /\ UNCHANGED <<says, files, reading, lists>>

\* open(path, "w") makes the file, or empties it.
OpenFile ==
    /\ engine # NoScan /\ ~engine.open
    /\ files' = [files EXCEPT ![engine.name][Head(engine.writes)] = "partial"]
    /\ engine' = [engine EXCEPT !.open = TRUE]
    /\ UNCHANGED <<says, scanned, reading, lists>>

\* The file is written, unless it has been deleted since.
CloseFile ==
    /\ engine # NoScan /\ engine.open
    /\ files' = [files EXCEPT ![engine.name][Head(engine.writes)] =
                    IF @ = "partial" THEN "whole" ELSE @]
    /\ engine' = IF Len(engine.writes) = 1 THEN NoScan
                 ELSE [engine EXCEPT !.open = FALSE, !.writes = Tail(@)]
    /\ UNCHANGED <<says, scanned, reading, lists>>

\* A chain that is killed leaves its files as they are.  (One that is asked to
\* stop saves its report once more, like any other of its writes.)
KillEngine ==
    /\ engine # NoScan
    /\ engine' = NoScan
    /\ UNCHANGED <<says, files, scanned, reading, lists>>

\* api_report_delete.
DeleteReport(n) ==
    /\ files[n]["report"] # "none"
    /\ files' = [files EXCEPT ![n] = [k \in Kinds |-> "none"]]
    /\ UNCHANGED <<says, engine, scanned, reading, lists>>

-----------------------------------------------------------------------------
(* Requests.                                                               *)

\* The reports a request finds: _project_report_paths, _load_project_report_files.
Listing == {n \in Rows(Names) : files[n]["report"] # "none"}

\* Of those, the ones that are written and stay as they are.
Settled == {n \in Listing : files[n]["report"] = "whole" /\ engine.name # n}

Request(kind, names, entries) ==
    [kind |-> kind, todo |-> names, looked |-> FALSE, got |-> <<>>,
     settled |-> Settled \cap names, entries |-> entries, found |-> NothingFound]

\* "files": a route that loads every report of the project: api_project_stix,
\* api_project_sigma, api_project_navigator, the downloads, the audit and, with
\* the entries of a list, api_ioc_list_scan.  "ocsf": api_project_ocsf.
\* "own": the exports of one report.  Without a report there is a 404.
Ask(kind) ==
    /\ reading = NoReading
    /\ kind \in {"files", "ocsf"} /\ Listing # {}
    /\ reading' = Request(kind, Listing, IF list = NoList THEN <<>> ELSE list)
    /\ UNCHANGED <<says, files, engine, scanned, lists>>
AskOne(n) ==
    /\ reading = NoReading /\ files[n]["report"] # "none"
    /\ reading' = Request("own", {n}, <<>>)
    /\ UNCHANGED <<says, files, engine, scanned, lists>>

\* sorted(os.listdir(...)): one file after the other, in the order of their names.
Busy == reading # NoReading /\ reading.todo # {}
Due == Names[CHOOSE i \in DOMAIN Names :
                /\ Names[i] \in reading.todo
                /\ \A j \in DOMAIN Names : Names[j] \in reading.todo => i <= j]
Got(what) ==
    /\ reading' = [reading EXCEPT !.todo = @ \ {Due}, !.looked = FALSE,
                                  !.got = Append(@, [name |-> Due, says |-> what]),
                                  !.found = IF reading.kind # "files" THEN @
                                            ELSE Hunt(@, [name |-> Due, says |-> what], reading.entries)]
    /\ UNCHANGED <<says, files, engine, scanned, lists>>

\* What json.load makes of the report: the per-report routes also attach the
\* MITRE fields.
Loaded(n) ==
    IF files[n]["report"] # "whole" THEN Unreadable
    ELSE IF reading.kind = "own" THEN says[n] ELSE Raw(says[n])

\* Bug: a report that cannot be read ends the loop.
LoadOrStop ==
    /\ Busy /\ ~reading.looked
    /\ reading.kind # "files" => files[Due][Format] = "none"
    /\ IF Loaded(Due) = Unreadable
         THEN reading' = [reading EXCEPT !.todo = {}] /\ UNCHANGED <<says, files, engine, scanned, lists>>
         ELSE Got(Loaded(Due))

\* The next report is loaded; what cannot be loaded is skipped.
Load ==
    /\ Busy /\ ~reading.looked
    /\ reading.kind # "files" => files[Due][Format] = "none"
    /\ Got(Loaded(Due))

\* os.path.isfile finds the export beside the report.
Look ==
    /\ Busy /\ ~reading.looked /\ reading.kind # "files"
    /\ files[Due][Format] # "none"
    /\ reading' = [reading EXCEPT !.looked = TRUE]
    /\ UNCHANGED <<says, files, engine, scanned, lists>>

\* It is sent as it is; the engine had rendered it with the MITRE fields.
Serve ==
    /\ Busy /\ reading.looked /\ files[Due][Format] # "none"
    /\ Got(IF files[Due][Format] = "whole" THEN says[Due] ELSE Cut)

\* It is gone: the error ends the stream (or the request).
ServeFails ==
    /\ Busy /\ reading.looked /\ files[Due][Format] = "none"
    /\ reading' = NoReading
    /\ UNCHANGED <<says, files, engine, scanned, lists>>

\* The answer is complete and the next request may come.
Answer ==
    /\ reading # NoReading /\ ~Busy
    /\ reading' = NoReading
    /\ UNCHANGED <<says, files, engine, scanned, lists>>

\* Bound: lists are edited before the first scan.  A request has read the entries
\* of its list before it opens a report, so a later edit shows it nothing new.
EditLists == scanned = 0 /\ ListsNext /\ UNCHANGED <<says, files, engine, scanned, reading>>

LibraryNext ==
    \/ StartScan \/ OpenFile \/ CloseFile \/ KillEngine
    \/ \E n \in Rows(Names) : DeleteReport(n) \/ AskOne(n)
    \/ \E kind \in {"files", "ocsf"} : Ask(kind)
    \/ Load \/ Look \/ Serve \/ ServeFails \/ Answer
    \/ EditLists
LibrarySpec == LibraryInit /\ [][LibraryNext]_library

-----------------------------------------------------------------------------
(* Properties.                                                             *)

Answers(kind) == reading.kind = kind /\ ~Busy
\* The reports that were there, whole, from the listing to the answer.
Standing == {n \in reading.settled : files[n]["report"] = "whole"}
Usable == {i \in DOMAIN reading.got : reading.got[i].says \notin {Unreadable, Cut}}
Reports == [i \in Usable |-> reading.got[i].says]

Objects(r) == Bundle(r) \cup {[id |-> s.id, watches |-> s.nodes] : s \in SigmaRules(r)}

\* An object is carried by one of its identifier that watches the same, up to the
\* nodes a pattern leaves out.  Of malware findings without an identifier only one
\* is: the merge takes all of them for the same (emit/stix.py:272).
Carried(o, objects) ==
    \E p \in objects : /\ p.id = o.id
                       /\ \/ p.watches = o.watches
                          \/ Cardinality(o.watches) >= PatternCap
                          \/ o.id = Unknown

\* While scans write and reports are deleted under it, a request that is
\* answered leaves no standing report out (api_project_stix: "Merge every
\* report's STIX bundle", api_project_ocsf: "Concatenate every report's OCSF"):
\* what cannot be read is passed over alone, and what two reports have in common
\* is left out once and not lost, with the exception of Carried.  The export beside a report counts for the
\* report, unless the engine was killed while it wrote it.
ExportsCarryEveryReport ==
    /\ Answers("files") =>
        LET merged == MergedBundle(Reports)
                      \cup {[id |-> s.id, watches |-> s.nodes] : s \in MergedRules(Reports)}
            nodes == AllNodes(Reports)
        IN \A n \in Standing :
            /\ \A o \in Objects(Raw(says[n])) : Carried(o, merged)
            /\ \A d \in Rows(says[n].nodes) :
                   {d.ip, d.mac} # {NoText} => DeviceKey(d) \in DOMAIN nodes
            /\ Denied(Rows(says[n].violations)) \subseteq Denied(AllViolations(Reports))
    /\ Answers("ocsf") \/ Answers("own") =>
        LET stream == UNION {Rows(OcsfRecords(Reports[i])) : i \in DOMAIN Reports}
            Full(n) == IF reading.kind = "own" THEN says[n] ELSE Raw(says[n])
        IN \A n \in Standing : files[n][Format] # "partial" =>
            Rows(OcsfRecords(Full(n))) \subseteq stream

\* The matches that are shown of a report.
Shown(hits, n) ==
    UNION {{<<i, p>> : p \in hits[i].matches} : i \in {j \in DOMAIN hits : hits[j].report = n}}

\* What a report shows of the surfaces that the documentation lists
\* (docs/ioc-threat-hunting.md:163-170), without those that the hunt does not have:
\* the domains of C2 indicators, the evidence of findings, and the hashes that
\* malware findings call their observable.
Surface(type, r) ==
    CASE type = "ip" -> {d.ip : d \in Rows(r.nodes)}
                        \cup {c.dst : c \in Rows(r.c2)}
                        \cup UNION {{c.sip, c.dip} : c \in Rows(r.convs)}
      [] type \in {"mac", "oui"} -> {d.mac : d \in Rows(r.nodes)}
                                    \cup UNION {{c.src, c.dst} : c \in Rows(r.convs)}
      [] type = "domain" -> UNION {Rows(c.asked) : c \in Rows(r.convs)}
      [] type = "sha256" -> {m.sha256 : m \in Rows(r.malware)}
      [] type = "md5" -> {m.md5 : m \in Rows(r.malware)}

\* A hunt that does not say it was truncated has found every indicator of the
\* list in every standing report that shows it on one of those surfaces
\* ("Negative-result hunting", docs/ioc-threat-hunting.md), unless that report had
\* already given as many matches as it may (iocs.py:163, 286).
HuntMissesOnlyAtTheCap ==
    Answers("files") =>
        LET hits == reading.found.hits
        IN \A n \in Standing : \A ioc \in Rows(reading.entries) :
            (\E value \in Surface(ioc.type, says[n]) : Fits(ioc, value)) =>
                \/ reading.found.truncated
                \/ \E h \in Rows(hits) : h.report = n /\ h.ioc = ioc
                \/ Cardinality(Shown(hits, n)) = PerReport

\* A vulnerability of a device is open in the audit exactly if the newest report
\* that could be read shows it, in whatever order the scans finished and
\* however often it came and went.
AuditFollowsTheNewestReport ==
    Answers("files") /\ Usable # {} =>
        LET tracker == Audit(Reports)
            Newest == CHOOSE i \in DOMAIN Reports : \A j \in DOMAIN Reports :
                        \/ Reports[j].time < Reports[i].time
                        \/ Reports[j].time = Reports[i].time /\ j <= i
        IN \A v \in UNION {AtDevices(Reports[i]) : i \in DOMAIN Reports} :
            tracker[v] = "active" <=> v \in AtDevices(Reports[Newest])

=============================================================================

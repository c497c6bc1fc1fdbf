---------------------------- MODULE ProjectAudit ----------------------------
(***************************************************************************)
(* The life of the vulnerabilities of a project, told from its reports     *)
(* (project_audit.py, shown by /audit-report).  It is computed anew on     *)
(* every request.                                                          *)
(*                                                                         *)
(* A vulnerability is a pair of an id and an address.  Events, snapshots   *)
(* and scores follow from the statuses and are left out.                   *)
(***************************************************************************)
EXTENDS ReportExports

\* What names an advisory of a finding: its id is lost when run_chain builds
\* the finding (engine.py:6242), and the audit falls back to this.
Advisory == "CISA-ADVISORY"
NoAddress == "unknown"

\* The vulnerabilities a report shows at its devices, and in its findings.
AtDevices(r) ==
    UNION {{<<cve, IF n.ip = NoText THEN NoAddress ELSE n.ip>> : cve \in n.cves} : n \in Rows(r.nodes)}
InFindings(r) ==
    UNION {{<<Advisory, key>> : key \in IF f.nodes = <<>> THEN {NoAddress} ELSE Rows(f.nodes)} :
            f \in {g \in Rows(r.findings) : g.category = "CISA_ICS_ADVISORY"}}

\* Bug: what was remediated stays so.
TrackForGood(tracker, r) ==
    LET seen == AtDevices(r) \cup InFindings(r)
    IN [v \in DOMAIN tracker \cup seen |->
            IF v \in seen /\ (v \in DOMAIN tracker => tracker[v] = "active") THEN "active"
            ELSE "remediated"]

\* One more report: what it shows is discovered, or reopened at a device; what
\* was active and is not shown is remediated.
Track(tracker, r) ==
    LET seen == AtDevices(r) \cup InFindings(r)
        Reopens(v) == v \in AtDevices(r)
    IN [v \in DOMAIN tracker \cup seen |->
            IF v \in seen /\ (v \in DOMAIN tracker => Reopens(v) \/ tracker[v] = "active")
              THEN "active" ELSE "remediated"]

\* generate_project_audit_report: by the time of the scan, and reports of one
\* time in the order of their names.  The n-th is the one that n - 1 are before.
Before(reports, i, j) ==
    \/ reports[i].time < reports[j].time
    \/ reports[i].time = reports[j].time /\ i < j
Nth(reports, n) ==
    CHOOSE i \in DOMAIN reports :
        Cardinality({j \in DOMAIN reports : Before(reports, j, i)}) = n - 1
\* The tracker after each of them.
Trackers(reports) ==
    LET T[n \in 0 .. Cardinality(DOMAIN reports)] ==
            IF n = 0 THEN [v \in {} |-> "active"]
            ELSE Track(T[n - 1], reports[Nth(reports, n)])
    IN T
Audit(reports) == Trackers(reports)[Cardinality(DOMAIN reports)]

=============================================================================

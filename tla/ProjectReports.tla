--------------------------- MODULE ProjectReports ---------------------------
(***************************************************************************)
(* What the web process makes of the reports of a project: the roll-up of  *)
(* all of them (aggregate_reports, shown by api_project_aggregate) and the *)
(* history of one asset (compute_asset_baseline, shown by                  *)
(* api_asset_baseline).  Both are computed anew on every request, from the *)
(* files in the project's directory, in the order os.listdir gives them.   *)
(*                                                                         *)
(* A content is what a report says: its nodes [ip, mac], its conversations *)
(* [sip, smac, dip, dmac] and its risk_findings [category, nodes,          *)
(* severity, text].  Vendors, roles and the like are left out: they are    *)
(* united as addresses are.  Every finding has a text, and no two reports  *)
(* have the same mtime.                                                    *)
(***************************************************************************)
EXTENDS Integers, Sequences, FiniteSets, Functions

CONSTANTS
    Contents,   \* what a report may say
    Times,      \* when a scan begins, the timestamp_start of its report
    MaxFiles,   \* bound: the reports of the project
    Limit,      \* limit_reports of the baseline request
    Assets,     \* the assets asked for, [mac, ip] with one of the two set
    Severities  \* from the least severe to the most
NoText == ""
NoDoc == <<>>
ASSUME ProjectAssumption ==
    /\ MaxFiles \in Nat /\ Limit \in Nat \ {0} /\ Times \subseteq Int
    /\ Severities \in Seq(Range(Severities)) /\ IsInjective(Severities)
    /\ \A says \in Contents :
          /\ says.nodes \in Seq(Range(says.nodes)) /\ says.findings \in Seq(Range(says.findings))
          /\ \A g \in Range(says.findings) : g.severity \in Range(Severities) /\ g.text # NoText

VARIABLES
    files,      \* the reports, in the order of their mtimes
    rollup,     \* the last roll-up, or NoDoc
    baseline    \* the last asset history, or NoDoc
project == <<files, rollup, baseline>>

FirstOf(places) == CHOOSE n \in places : \A m \in places : n <= m
Rank(sev) == CHOOSE i \in DOMAIN Severities : Severities[i] = sev
Worst(severities) == CHOOSE s \in severities : \A t \in severities : Rank(s) >= Rank(t)
Nodes(f) == f.says.nodes
Findings(f) == f.says.findings
Conversations(f) == f.says.convs

-----------------------------------------------------------------------------
(* aggregate_reports.  A listing is the files in some order.               *)

\* ip_to_mac: the first MAC met with an address.
MacOf(ip, listing) ==
    LET Telling(i) == {n \in DOMAIN Nodes(listing[i]) :
                        Nodes(listing[i])[n].ip = ip /\ Nodes(listing[i])[n].mac # NoText}
        some == {i \in DOMAIN listing : Telling(i) # {}}
    IN IF some = {} THEN NoText ELSE Nodes(listing[FirstOf(some)])[FirstOf(Telling(FirstOf(some)))].mac

\* _resolve_asset_key.
AssetKey(node, listing) ==
    IF node.mac # NoText \/ node.ip = NoText THEN node.mac
    ELSE IF MacOf(node.ip, listing) # NoText THEN MacOf(node.ip, listing) ELSE node.ip
AssetKeys(f, listing) == {AssetKey(node, listing) : node \in Range(Nodes(f))} \ {NoText}

\* One more report for an entry that says which reports it was seen in.
Mark(f) == [name |-> f.name, modified |-> f.modified]
SeenIn(f) == [reports |-> 1, first |-> Mark(f), last |-> Mark(f)]
SeenAgain(seen, f) ==
    [reports |-> seen.reports + 1,
     first |-> IF f.modified < seen.first.modified THEN Mark(f) ELSE seen.first,
     last |-> IF f.modified > seen.last.modified THEN Mark(f) ELSE seen.last]

AddAssets(assets, f, listing) ==
    LET keys == AssetKeys(f, listing)
        Ips(k) == {n.ip : n \in {m \in Range(Nodes(f)) : AssetKey(m, listing) = k}} \ {NoText}
    IN [k \in DOMAIN assets \cup keys |->
            IF k \notin keys THEN assets[k]
            ELSE IF k \in DOMAIN assets
                 THEN [seen |-> SeenAgain(assets[k].seen, f), ips |-> assets[k].ips \cup Ips(k)]
                 ELSE [seen |-> SeenIn(f), ips |-> Ips(k)]]

\* _finding_key; the edges of a finding are part of it as its nodes are.
FindingKey(finding) == <<finding.category, finding.nodes>>
FindingKeys(f) == {FindingKey(g) : g \in Range(Findings(f))}
Naming(f, key) == {n \in DOMAIN Findings(f) : FindingKey(Findings(f)[n]) = key}
FirstNaming(f, key) == Findings(f)[FirstOf(Naming(f, key))]
GradesIn(f, key) == {Findings(f)[n].severity : n \in Naming(f, key)}

\* Bug: the entry takes the text of the report met last.
RetoldByLast(old, f, key) == FirstNaming(f, key).text

\* The findings of a report join the entries of their keys: the severity is
\* promoted, the text is the newest report's if it has one.
Retold(old, f, key) ==
    LET text == FirstNaming(f, key).text
    IN IF f.modified > old.seen.last.modified /\ text # NoText THEN text ELSE old.text
AddFindings(findings, f) ==
    LET keys == FindingKeys(f)
    IN [k \in DOMAIN findings \cup keys |->
            IF k \notin keys THEN findings[k]
            ELSE IF k \in DOMAIN findings
                 THEN [seen |-> SeenAgain(findings[k].seen, f),
                       severity |-> Worst({findings[k].severity} \cup GradesIn(f, k)),
                       text |-> Retold(findings[k], f, k)]
                 ELSE [seen |-> SeenIn(f), severity |-> Worst(GradesIn(f, k)),
                       text |-> FirstNaming(f, k).text]]

\* severity_counts: a finding counts once per report, as it is first named there.
Counting(f, s) == {k \in FindingKeys(f) : FirstNaming(f, k).severity = s}
AddSeverities(counts, f) == [s \in DOMAIN counts |-> counts[s] + Cardinality(Counting(f, s))]

Empty == [x \in {} |-> NoDoc]
NoReports == [assets |-> Empty, findings |-> Empty,
              severities |-> [s \in Range(Severities) |-> 0]]
AddReport(doc, f, listing) ==
    [assets |-> AddAssets(doc.assets, f, listing),
     findings |-> AddFindings(doc.findings, f),
     severities |-> AddSeverities(doc.severities, f)]
\* The roll-up after each report of a listing.  (The code opens a report twice, for
\* ip_to_mac and for its entries, and leaves out what it cannot read; here all
\* of them can be read.)
Rollups(listing) ==
    LET R[k \in 0 .. Len(listing)] ==
            IF k = 0 THEN NoReports ELSE AddReport(R[k - 1], listing[k], listing)
    IN R
Rollup(listing) == Rollups(listing)[Len(listing)]

-----------------------------------------------------------------------------
(* compute_asset_baseline.                                                 *)

\* _find_node: the first node of the asset.
NodesOf(f, asset) ==
    {n \in DOMAIN Nodes(f) : IF asset.mac # NoText THEN Nodes(f)[n].mac = asset.mac
                                                   ELSE Nodes(f)[n].ip = asset.ip}
NodeOf(f, asset) == Nodes(f)[FirstOf(NodesOf(f, asset))]

\* The other end of a conversation: by the address the asset has in this
\* report, or else by its MAC.
PeerIn(c, node) ==
    LET byIp == IF node.ip = NoText THEN NoText
                ELSE IF c.sip = node.ip /\ c.dip # NoText THEN c.dip
                ELSE IF c.dip = node.ip THEN c.sip ELSE NoText
        byMac == IF node.mac = NoText THEN NoText
                 ELSE IF c.smac = node.mac /\ c.dip # NoText THEN c.dip
                 ELSE IF c.dmac = node.mac THEN c.sip ELSE NoText
    IN IF byIp # NoText THEN byIp ELSE byMac
PeersOf(f, asset) ==
    {PeerIn(c, NodeOf(f, asset)) : c \in Range(Conversations(f))} \ {NoText}
FindingsOf(f, asset) ==
    {g.category : g \in {h \in Range(Findings(f)) :
        h.nodes \cap ({NodeOf(f, asset).ip, NodeOf(f, asset).mac} \ {NoText}) # {}}}

\* _report_ts, which docs/asset-baselines.md takes for the time of the capture, is
\* the time the scan began; then the name.
Stamp(f) == <<f.ts, f.name>>
Before(s, t) == s[1] < t[1] \/ (s[1] = t[1] /\ s[2] < t[2])

\* Bug: the reports stay in the order of their mtimes.
ByMtime(places) ==
    [n \in 1 .. Cardinality(places) |->
        CHOOSE i \in places : Cardinality({j \in places : j < i}) = n - 1]

\* The newest reports by mtime, and some of them from oldest to newest.
Loaded == {i \in DOMAIN files : i > Len(files) - Limit}
ByTime(places) ==
    [n \in 1 .. Cardinality(places) |->
        CHOOSE i \in places :
            Cardinality({j \in places : Before(Stamp(files[j]), Stamp(files[i]))}) = n - 1]

\* In which report a thing was first and last seen, after each of the reports:
\* an entry is made by the first that has it, and stretched by the others.
Unseen == <<>>
Stretched(seen, stamp) ==
    IF seen = Unseen THEN [first |-> stamp, last |-> stamp]
    ELSE [first |-> IF Before(stamp, seen.first) THEN stamp ELSE seen.first,
          last |-> IF Before(seen.last, stamp) THEN stamp ELSE seen.last]
Appearances(stamps, has, x) ==
    LET A[k \in 0 .. Len(stamps)] ==
            IF k = 0 THEN Unseen
            ELSE IF x \in has[k] THEN Stretched(A[k - 1], stamps[k]) ELSE A[k - 1]
    IN A

\* The history of what the reports have for an asset, and whether only the
\* latest has it.
History(stamps, has) ==
    LET n == Len(stamps)
        earlier == UNION {has[k] : k \in 1 .. n - 1}
        Ends(x) == Appearances(stamps, has, x)[n]
    IN [entries |-> [x \in has[n] \cup earlier |->
                        [first |-> Ends(x).first[2], last |-> Ends(x).last[2],
                         isNew |-> x \notin earlier]],
        new |-> has[n] \ earlier, lost |-> earlier \ has[n],
        added |-> IF n = 1 THEN has[n] ELSE has[n] \ has[n - 1]]

Baseline(asset) ==
    LET at == ByTime({i \in Loaded : NodesOf(files[i], asset) # {}})
        n == Len(at)
        stamps == [k \in 1 .. n |-> Stamp(files[at[k]])]
    IN IF n = 0 THEN NoDoc
       ELSE [asset |-> asset, first |-> stamps[1][2], last |-> stamps[n][2], reports |-> n,
             peers |-> History(stamps, [k \in 1 .. n |-> PeersOf(files[at[k]], asset)]),
             findings |-> History(stamps, [k \in 1 .. n |-> FindingsOf(files[at[k]], asset)])]

-----------------------------------------------------------------------------
ProjectInit == files = <<>> /\ rollup = NoDoc /\ baseline = NoDoc

\* A scan saves its report; scans overlap, so one that saved before may have
\* begun later.
ScanSaves ==
    /\ Len(files) < MaxFiles
    /\ \E says \in Contents, ts \in Times,
          name \in 1..MaxFiles \ {files[i].name : i \in DOMAIN files} :
        files' = Append(files, [says |-> says, ts |-> ts, name |-> name,
                                modified |-> Len(files) + 1])
    /\ rollup' = NoDoc /\ baseline' = NoDoc

\* api_project_aggregate.
Aggregate ==
    /\ \E order \in Bijection(DOMAIN files, DOMAIN files) :
        rollup' = Rollup([i \in DOMAIN files |-> files[order[i]]])
    /\ baseline' = NoDoc /\ UNCHANGED files

\* api_asset_baseline.
AssetBaseline ==
    /\ \E asset \in Assets : baseline' = Baseline(asset)
    /\ rollup' = NoDoc /\ UNCHANGED files

ProjectNext == ScanSaves \/ Aggregate \/ AssetBaseline
ProjectSpec == ProjectInit /\ [][ProjectNext]_project

-----------------------------------------------------------------------------
(* Properties.                                                             *)

\* The nodes of the project, the MACs an address was seen with, the asset a node
\* belongs to, and what an entry tells of the reports that have it.
AllNodes == UNION {Range(Nodes(files[i])) : i \in DOMAIN files}
Owners(ip) == {n.mac : n \in {m \in AllNodes : m.ip = ip}} \ {NoText}
Device(node) == IF node.mac # NoText THEN {node.mac}
                ELSE IF node.ip = NoText THEN {}
                ELSE IF Owners(node.ip) # {} THEN Owners(node.ip) ELSE {node.ip}
Oldest(having) == CHOOSE i \in having : \A j \in having : i <= j
Newest(having) == CHOOSE i \in having : \A j \in having : i >= j
Entry(having) == [reports |-> Cardinality(having),
                  first |-> Mark(files[Oldest(having)]), last |-> Mark(files[Newest(having)])]
Having(k) == {i \in DOMAIN files : k \in FindingKeys(files[i])}
Showing(k) == {i \in DOMAIN files : \E n \in Range(Nodes(files[i])) : k \in Device(n)}

\* What the roll-up promises (the docstring of aggregate.py), stated without
\* an order: a device is one asset under its MAC wherever it was seen, and an
\* entry tells how many reports have it, the oldest and the newest of them,
\* its worst severity and its newest text.  A severity counts the reports that
\* name a finding, each finding by what the report first says of it.
\*
\* The order in which the directory lists the reports does not matter, as long
\* as no address belongs to two MACs: first-wins and newer-wins steps meet the
\* reports in any order and yet agree with what the reports say together.
OneOwner == \A n \in AllNodes : n.ip # NoText => \A m, o \in Owners(n.ip) : m = o
RollupIgnoresListing ==
    rollup # NoDoc =>
        /\ DOMAIN rollup.findings = UNION {FindingKeys(files[i]) : i \in DOMAIN files}
        /\ \A k \in DOMAIN rollup.findings :
              rollup.findings[k] =
                [seen |-> Entry(Having(k)),
                 severity |-> Worst(UNION {GradesIn(files[i], k) : i \in Having(k)}),
                 text |-> FirstNaming(files[Newest(Having(k))], k).text]
        /\ \A s \in Range(Severities) :
              rollup.severities[s] =
                Cardinality(UNION {{i} \X Counting(files[i], s) : i \in DOMAIN files})
        /\ OneOwner =>
              /\ DOMAIN rollup.assets = UNION {Device(n) : n \in AllNodes}
              /\ \A k \in DOMAIN rollup.assets : rollup.assets[k].seen = Entry(Showing(k))

\* The reports an asset's history is about: those that show the asset among the
\* Limit that were saved last.  And of some reports, the one whose scan began
\* first and the one whose scan began last.
ShownIn(asset) == {i \in DOMAIN files : Len(files) - i < Limit /\ NodesOf(files[i], asset) # {}}
BeganBefore(i, j) == Before(Stamp(files[i]), Stamp(files[j]))
FirstBegun(places) == CHOOSE i \in places : \A j \in places \ {i} : BeganBefore(i, j)
LastBegun(places) == CHOOSE i \in places : \A j \in places \ {i} : BeganBefore(j, i)

\* A history of what each of some reports has, stated without an order of them.
TellsOf(h, shown, has) ==
    LET Those(x) == {i \in shown : x \in has[i]}
    IN /\ h.entries = [x \in UNION {has[i] : i \in shown} |->
                        [first |-> files[FirstBegun(Those(x))].name,
                         last |-> files[LastBegun(Those(x))].name,
                         isNew |-> Those(x) = {LastBegun(shown)}]]
       /\ h.new = {x \in DOMAIN h.entries : Those(x) = {LastBegun(shown)}}
       /\ h.lost = {x \in DOMAIN h.entries : LastBegun(shown) \notin Those(x)}
       /\ h.new \subseteq h.added

\* In the answer of compute_asset_baseline a peer or a finding of the asset is new
\* exactly if, of the reports saved last that show the asset, the one whose scan
\* began last has it alone, and lost exactly if that one lacks it; it is said to be
\* first and last seen where the first and the last of those scans that have it
\* saw it, and what is new was added since the report before.  The reports are
\* picked by mtime, sorted by the time of the scan and compared by it once more.
\* This is not what docs/asset-baselines.md promises: an older report the limit
\* leaves out, and when a capture was taken, do not count.
NewsIsOfTheLastScan ==
    baseline # NoDoc =>
        LET asset == baseline.asset
            shown == ShownIn(asset)
        IN /\ baseline.first = files[FirstBegun(shown)].name
           /\ baseline.last = files[LastBegun(shown)].name
           /\ TellsOf(baseline.peers, shown, [i \in shown |-> PeersOf(files[i], asset)])
           /\ TellsOf(baseline.findings, shown, [i \in shown |-> FindingsOf(files[i], asset)])

=============================================================================

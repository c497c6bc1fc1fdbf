--------------------------- MODULE ReportExports ---------------------------
(***************************************************************************)
(* What the exports of marlinspike/emit make of a report: a STIX bundle,   *)
(* OCSF records, Sigma rules, ATT&CK Navigator layers, a bill of           *)
(* materials, switch and IDS rules; and how the exports of a project merge *)
(* those of its reports.  An object is what identifies it and what it      *)
(* watches; its wording is left out.                                       *)
(*                                                                         *)
(* A report is a record of sequences: nodes [ip, mac, cves], convs         *)
(* [sip, dip, src, dst, asked], findings [category, nodes, cve], c2        *)
(* [type, src, dst, port, smac, dmac], malware [id, value, sip, dip,       *)
(* sha256, md5], violations [src, dst], and the rows of the MITRE plugin,  *)
(* classified and coverage [domain, technique, score]; with its capture    *)
(* and its time.                                                           *)
(*                                                                         *)
(* Malware findings are those of an external program, stored as it gives   *)
(* them.  Its contract (docs/extensibility-contracts.md:126) has an        *)
(* observable_value, here value, and neither a finding_id nor a sha256 or  *)
(* md5; the emitters read the one and the hunt the others, if they are     *)
(* there.  No C2 indicator of the engine has the MACs the hunt reads.      *)
(***************************************************************************)
EXTENDS Integers, Sequences, FiniteSets, SequencesExt

CONSTANTS
    NoText,         \* a field that is not set
    PatternCap      \* nodes a STIX pattern names: 32

Rows(seq) == {seq[i] : i \in DOMAIN seq}
UpTo(n, seq) == SubSeq(seq, 1, IF Len(seq) < n THEN Len(seq) ELSE n)
Given(values) == {v \in values : v # NoText}

\* What the engine writes.  A finding names a node once, or it names few: the lists
\* are made of sets, or are the two ends of a conversation.
Lists == {"nodes", "convs", "findings", "c2", "malware", "violations", "classified", "coverage"}
IsReport(r) ==
    /\ DOMAIN r = Lists \cup {"capture", "time"}
    /\ \A field \in Lists : r[field] \in Seq(Rows(r[field]))
    /\ r.time \in Int
    /\ \A c \in Rows(r.convs) : c.asked \in Seq(Rows(c.asked))
    /\ \A f \in Rows(r.findings) :
          /\ f.nodes \in Seq(Rows(f.nodes))
          /\ \/ Len(f.nodes) <= PatternCap
             \/ \A i, j \in DOMAIN f.nodes : f.nodes[i] = f.nodes[j] => i = j
\* What was found names an address.
Mentions(r, name) ==
    \/ \E f \in Rows(r.findings) : name \in Rows(f.nodes)
    \/ \E c \in Rows(r.c2) : name \in {c.src, c.dst}
    \/ \E m \in Rows(r.malware) : name \in {m.sip, m.dip}

\* What a plain json.load of the file gives: the rows of the plugin are in the
\* extensions, and attach_mitre_fields has not lifted them.
Raw(r) == [r EXCEPT !.classified = <<>>, !.coverage = <<>>]

-----------------------------------------------------------------------------
(* STIX.  Identifiers are derived from what an object is about, so the same *)
(* finding has the same identifier in every bundle.                        *)

Indicator(id, watched) == [id |-> id, watches |-> watched]

\* _risk_finding_indicator with _indicator_pattern_for_finding: the pattern names
\* the first nodes that are given, up to its cap.
Named(nodes) == {i \in DOMAIN nodes : nodes[i] # NoText}
Pattern(nodes) ==
    {nodes[i] : i \in {k \in Named(nodes) :
                        Cardinality({j \in Named(nodes) : j < k}) < PatternCap}}
RiskIndicator(f) == Indicator(<<"risk", f.category, Rows(f.nodes)>>, Pattern(f.nodes))
C2Indicator(c) == Indicator(<<"c2", c.type, c.src, c.dst, c.port>>, Given({c.src, c.dst}))
\* All malware findings that have no identifier go by the same.
Unknown == <<"malware", "unknown">>
MalwareIndicator(m) ==
    Indicator(IF m.id = NoText THEN Unknown ELSE <<"malware", m.id>>, Given({m.value}))
AttackPattern(t) == Indicator(<<"attack-pattern", t.technique>>, {})
Sighting(t, capture) == Indicator(<<"sighting", t.technique, capture>>, {})

\* render_bundle.
Bundle(r) ==
    {Indicator(<<"identity">>, {})}
    \cup {RiskIndicator(f) : f \in Rows(r.findings)}
    \cup {C2Indicator(c) : c \in Rows(r.c2)}
    \cup {MalwareIndicator(m) : m \in Rows(r.malware)}
    \cup UNION {{AttackPattern(t), Sighting(t, r.capture)} : t \in Rows(r.classified)}

\* The reports of a project are a function of their places in the listing, from
\* which those that could not be read are missing.  Of each identifier one object
\* stays, of the first place that has brought it; if a report brings several, which
\* of them is left open.
Ids(objects) == {o.id : o \in objects}
Merged(objects) ==
    LET First(id) == CHOOSE i \in DOMAIN objects :
                        /\ id \in Ids(objects[i])
                        /\ \A j \in DOMAIN objects : j < i => id \notin Ids(objects[j])
        Kept(id) == CHOOSE o \in objects[First(id)] : o.id = id
    IN {Kept(id) : id \in UNION {Ids(objects[i]) : i \in DOMAIN objects}}

\* api_project_stix: the first object of an identifier stays.
MergedBundle(reports) == Merged([i \in DOMAIN reports |-> Bundle(reports[i])])

-----------------------------------------------------------------------------
(* OCSF: a record for each, none left out as a duplicate.  The stream of    *)
(* the wire that a DPI engine adds beside a report is left out.            *)

\* _signature_for_finding.
Signature(f) == <<f.category, Given(Rows(f.nodes))>>
RiskRecord(f) == [uid |-> Signature(f), resources |-> Given(Rows(f.nodes))]
C2Record(c) == [uid |-> <<"c2", c.type, c.src, c.dst, c.port>>, resources |-> Given({c.src, c.dst})]
MalwareRecord(m) == [uid |-> <<m.id>>, resources |-> Given({m.sip, m.dip})]
MitreRecord(t) == [uid |-> <<"mitre", t.technique, t.domain>>, resources |-> {}]

\* render_report.
OcsfRecords(r) ==
    [i \in DOMAIN r.findings |-> RiskRecord(r.findings[i])]
    \o [i \in DOMAIN r.c2 |-> C2Record(r.c2[i])]
    \o [i \in DOMAIN r.malware |-> MalwareRecord(r.malware[i])]
    \o [i \in DOMAIN r.classified |-> MitreRecord(r.classified[i])]

-----------------------------------------------------------------------------
(* Sigma: rules for the findings that a single log event can show.         *)

Emittable == {"CROSS_PURDUE", "ICS_EXTERNAL_COMMS", "CLEARTEXT_REMOTE_ACCESS", "CLEARTEXT_ENG",
              "MODBUS_WRITE_ANON", "C2_BEACONING", "MALWARE_IOC_MATCH"}

\* _base_rule: a rule without nodes is known by its capture.
Rule(category, nodes, capture) ==
    [id |-> <<category, IF nodes = {} THEN {capture} ELSE nodes>>,
     category |-> category, nodes |-> Given(nodes)]

\* render_rules; _rule_cross_purdue declines when there are no nodes.
FindingRules(r) ==
    {Rule(f.category, Rows(f.nodes), r.capture) :
        f \in {g \in Rows(r.findings) :
                 /\ g.category \in Emittable
                 /\ g.category = "CROSS_PURDUE" => Given(Rows(g.nodes)) # {}}}
SigmaRules(r) ==
    FindingRules(r)
    \cup {Rule("C2_BEACONING", {c.dst, c.src}, r.capture) : c \in Rows(r.c2)}
    \cup {Rule("MALWARE_IOC_MATCH", {m.sip, m.dip}, r.capture) : m \in Rows(r.malware)}

\* api_project_sigma: one rule of each id.
MergedRules(reports) == Merged([i \in DOMAIN reports |-> SigmaRules(reports[i])])

-----------------------------------------------------------------------------
(* Navigator: the score of each technique.                                 *)

\* _build_layer: the last row of a technique counts, and a classification
\* overrides the platform's coverage.
Score(rows, technique) == Last(SelectSeq(rows, LAMBDA t : t.technique = technique)).score
Layer(r, domain) ==
    LET rows == SelectSeq(r.coverage \o r.classified, LAMBDA t : t.domain = domain)
    IN [technique \in {t.technique : t \in Rows(rows)} |-> Score(rows, technique)]

\* api_project_navigator: the highest score wins.  The layers are those of the
\* raw reports, so there are none.
ProjectLayer(reports, domain) ==
    LET layers == {Layer(Raw(reports[i]), domain) : i \in DOMAIN reports}
        scored == UNION {{[technique |-> t, score |-> l[t]] : t \in DOMAIN l} : l \in layers}
    IN {s \in scored : \A o \in scored : o.technique = s.technique => o.score <= s.score}

-----------------------------------------------------------------------------
(* Inventories and rules for the network.                                  *)

\* The download routes: the last report that has a device tells it.
DeviceKey(n) == IF n.ip # NoText THEN n.ip ELSE n.mac
AllNodes(reports) ==
    LET Told(p) == reports[p[1]].nodes[p[2]]
        places == {p \in UNION {{i} \X DOMAIN reports[i].nodes : i \in DOMAIN reports} :
                    {Told(p).ip, Told(p).mac} # {NoText}}
        Before(p, q) == p[1] < q[1] \/ (p[1] = q[1] /\ p[2] < q[2])
    IN [key \in {DeviceKey(Told(p)) : p \in places} |->
            LET tellers == {p \in places : DeviceKey(Told(p)) = key}
            IN Told(CHOOSE p \in tellers : \A q \in tellers : ~Before(p, q))]
AllViolations(reports) == UNION {Rows(reports[i].violations) : i \in DOMAIN reports}

\* generate_cyclonedx_sbom, generate_switch_acl (the port of a device without a
\* MAC gets no address) and export_snort_rules, which looks for findings under
\* a key that reports do not have.
Components(nodes) == {[name |-> key, mac |-> nodes[key].mac] : key \in DOMAIN nodes}
SwitchPorts(nodes) == {key \in DOMAIN nodes : nodes[key].mac # NoText}
Denied(violations) == {<<v.src, v.dst>> : v \in violations}
Alerts(violations) == {<<v.src, v.dst>> : v \in violations}

=============================================================================

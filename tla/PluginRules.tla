------------------------------ MODULE PluginRules ------------------------------
(***************************************************************************)
(* What the enrichment plugins make of a finished report: lateral movement *)
(* and other habits of intruders (marlinspike_apt), conflicts of ARP       *)
(* (marlinspike_arp), the advisories that concern its devices              *)
(* (marlinspike_cisa) and the ATT&CK techniques its findings speak of      *)
(* (marlinspike_mitre).  Who runs them, and when, is Enrichment's.         *)
(*                                                                         *)
(* Findings are those the viewer shows (plugin_finding_to_risk_finding): a *)
(* category and the nodes it names.  Workbench views, severities, titles   *)
(* and guidance are left out.                                              *)
(***************************************************************************)
EXTENDS RiskSurface

CONSTANTS
    AptPacks, ArpPacks, \* their rule packs in order, [on, limits, sets, lists]
    Families,           \* of a fan-out category: its [ports, protocols]
    ExpectedOf,         \* ROLE_PROTOCOL_EXPECTATIONS
    BroadcastMac,
    ObsCap,             \* ARP_OBS_CAP
    AliasGroups,        \* the groups of words of the CISA rules
    Catalog,            \* the CISA advisories, [id, words]
    MitreRules          \* the enabled rules of all packs, [technique, kind, when]

VARIABLE extras         \* the artifacts of the plugins
ruleVars == <<riskVars, extras>>

-----------------------------------------------------------------------------
(* Settings.                                                               *)

SMB == "APT_LATERAL_MOVEMENT_SMB"
RDP == "APT_LATERAL_MOVEMENT_RDP"
WINRM == "APT_LATERAL_MOVEMENT_WINRM"
OTRECON == "APT_OT_RECONNAISSANCE"
NEWPROTO == "APT_NEW_HOST_PROTOCOL"
C2BEACON == "APT_C2_BEACON"
DUPLICATE == "ARP_DUPLICATE_IP_CLAIM"
GATEWAY == "ARP_GATEWAY_MAC_CHANGE"
MANYIPS == "ARP_MAC_CLAIMS_MANY_IPS"
SCAN == "ARP_SCAN_BEHAVIOR"
STORM == "ARP_BROADCAST_STORM"
GRATUITOUS == "ARP_GRATUITOUS_REPLY"

AptCategories == {SMB, RDP, WINRM, OTRECON, NEWPROTO, C2BEACON}
ArpCategories == {DUPLICATE, GATEWAY, MANYIPS, SCAN, STORM, GRATUITOUS}

AptDefaults ==
    [on |-> [c \in AptCategories \cup {"external_dst_only"} |-> TRUE],
     limits |-> SMB :> 5 @@ RDP :> 2 @@ WINRM :> 2 @@ OTRECON :> 5 @@ NEWPROTO :> 3 @@ C2BEACON :> 6,
     sets |-> [polling_source_roles |-> {"HMI", "Historian", "Engineering Workstation"},
               excluded_protocols |-> OTProtocols \cup {"ARP", "DNS", "NTP", "ICMP", "LLDP"}],
     lists |-> [jump_hosts |-> {}, ot_polling_source_allowlist |-> {}]]
\* The response ratio is a percentage here; router OUIs are whole MACs.
ArpDefaults ==
    [on |-> [c \in ArpCategories |-> TRUE],
     limits |-> MANYIPS :> 5 @@ SCAN :> 20 @@ STORM :> 100 @@ "response_ratio_max" :> 20,
     sets |-> [gateway_ip |-> {}],
     lists |-> [router_oui_allowlist |-> {}]]

\* _merge_packs: a later pack overrides an earlier one; some lists are united.
Override(settings, pack) ==
    [on |-> pack.on @@ settings.on, limits |-> pack.limits @@ settings.limits,
     sets |-> pack.sets @@ settings.sets,
     lists |-> [l \in DOMAIN settings.lists |->
        settings.lists[l] \cup UNION {pack.lists[m] : m \in {l} \cap DOMAIN pack.lists}]]
Apt == FoldLeft(Override, AptDefaults, AptPacks)
Arp == FoldLeft(Override, ArpDefaults, ArpPacks)

-----------------------------------------------------------------------------
(* marlinspike_apt.                                                        *)

Between(c) == c.sip # None /\ c.dip # None /\ c.sip # c.dip
Sources(convs) == {c.sip : c \in Items(convs)} \ {None}

\* _matches_family.
OfFamily(c, category) == \/ c.proto \in Families[category].protocols
                         \/ c.port \in Families[category].ports
Reached(src, category, convs) ==
    {c.dip : c \in {d \in Items(convs) : OfFamily(d, category) /\ Between(d) /\ d.sip = src}}

\* _detect_lateral_fanout: the findings name the source and its targets.
FanOut(category, exempt, convs) ==
    {Finding(category, {src} \cup Reached(src, category, convs)) :
        src \in {s \in Sources(convs) \ exempt :
            /\ Apt.on[category] /\ Reached(s, category, convs) # {}
            /\ Cardinality(Reached(s, category, convs)) >= Apt.limits[category]}}
LateralMovement(convs) ==
    FanOut(SMB, {}, convs) \cup FanOut(RDP, Apt.lists.jump_hosts, convs)
                           \cup FanOut(WINRM, Apt.lists.jump_hosts, convs)

\* _build_node_role_index: a node without an address has no role here.
RoleAt(ip, devices) == First(SetToSeq({devices[k].role : k \in {j \in DOMAIN devices :
                                                                    devices[j].ip = ip}}))
Pollers(devices) == {devices[k].ip : k \in {j \in DOMAIN devices :
                                                devices[j].role \in Apt.sets.polling_source_roles}}
OtReconnaissance(devices, convs) ==
    FanOut(OTRECON, Apt.lists.ot_polling_source_allowlist \cup Pollers(devices), convs)

\* _detect_new_host_protocol and _detect_c2_beacons name the source only.
NewProtocols(devices, convs) ==
    {Finding(NEWPROTO, {c.sip}) : c \in {d \in Items(convs) :
        /\ Apt.on[NEWPROTO] /\ d.sip # None /\ d.packets >= Apt.limits[NEWPROTO]
        /\ RoleAt(d.sip, devices) \in DOMAIN ExpectedOf
        /\ d.proto \notin ExpectedOf[RoleAt(d.sip, devices)]}}
RegularCalls(convs) ==
    {Finding(C2BEACON, {c.sip}) : c \in {d \in Items(convs) :
        /\ Apt.on[C2BEACON] /\ d.beacon /\ d.packets >= Apt.limits[C2BEACON]
        /\ d.proto \notin Apt.sets.excluded_protocols /\ Between(d)
        /\ Apt.on["external_dst_only"] => d.dip \in PublicIps}}

AptFindings(devices, convs) ==
    LateralMovement(convs) \cup OtReconnaissance(devices, convs)
    \cup NewProtocols(devices, convs) \cup RegularCalls(convs)

-----------------------------------------------------------------------------
(* marlinspike_arp.  A frame to all asks, another one answers; one that    *)
(* asks for, or tells, its own address is gratuitous.                      *)

IsArp(p) == p.proto = "ARP"

\* arp_observations: single frames, as far as the list goes.  The external
\* dissector gives none, and the reports of chunks are merged without them.
Frames(cut) ==
    LET arp == SelectSeq(capture, IsArp)
    IN IF engine = "tshark" /\ ~cut THEN SubSeq(arp, 1, Least(Len(arp), ObsCap)) ELSE <<>>

\* The events of the external dissector: an address has moved from the MAC
\* that had it to another one.  _build_l2_anomalies_from_bronze keeps them.
Moves(cut) ==
    LET arp == SelectSeq(capture, LAMBDA p : IsArp(p) /\ p.sip # None)
        Before(i, j) == i < j /\ arp[i].sip = arp[j].sip
    IN IF engine # "dpi" \/ cut THEN {}
       ELSE {<<arp[p[2]].sip, {arp[p[1]].src, arp[p[2]].src}>> :
                p \in {q \in (DOMAIN arp) \X (DOMAIN arp) :
                        /\ Before(q[1], q[2]) /\ arp[q[1]].src # arp[q[2]].src
                        /\ ~\E i \in DOMAIN arp : Before(q[1], i) /\ Before(i, q[2])}}

\* Bug: what single frames tell is left out of the table of claims.
ClaimsOfConversations(convs, frames) ==
    {<<c.sip, c.src>> : c \in {d \in Items(convs) : IsArp(d) /\ d.sip # None /\ d.src # None}}

\* _build_ip_mac_index.
Claims(convs, frames) ==
    {<<c.sip, c.src>> : c \in {d \in Items(convs) \cup Range(frames) :
                                    IsArp(d) /\ d.sip # None /\ d.src # None}}
Claimants(ip, claims) == {c[2] : c \in {d \in claims : d[1] = ip}}
Claimed(mac, claims) == {c[1] : c \in {d \in claims : d[2] = mac}}
Disputed(claims) == {ip \in {c[1] : c \in claims} : Cardinality(Claimants(ip, claims)) > 1}

Conflicts(claims) ==
    {Finding(DUPLICATE, {ip} \cup Claimants(ip, claims)) :
        ip \in {i \in Disputed(claims) : Arp.on[DUPLICATE]}}
    \cup {Finding(GATEWAY, {ip} \cup Claimants(ip, claims)) :
            ip \in {i \in Disputed(claims) \cap Arp.sets.gateway_ip : Arp.on[GATEWAY]}}

\* Findings whose only key is a MAC name no node.
Greedy(claims) ==
    {Finding(MANYIPS, {}) : mac \in {m \in {c[2] : c \in claims} \ Arp.lists.router_oui_allowlist :
        Arp.on[MANYIPS] /\ Cardinality(Claimed(m, claims)) > Arp.limits[MANYIPS]}}

\* _detect_scan_behavior: requests against replies, or else targets against
\* conversations.
Scan(targets, answers) ==
    IF /\ Arp.on[SCAN] /\ targets # {} /\ Cardinality(targets) >= Arp.limits[SCAN]
       /\ 100 * answers <= Arp.limits["response_ratio_max"] * Cardinality(targets)
    THEN {Finding(SCAN, targets)} ELSE {}
ScansInFrames(frames) ==
    UNION {Scan({p.dip : p \in {q \in Range(frames) : q.src = mac /\ q.dst = BroadcastMac}} \ {None},
                Len(SelectSeq(frames, LAMBDA p : p.dst = mac))) :
            mac \in {p.src : p \in Range(frames)}}
ScansInConversations(arp) ==
    UNION {LET sent == {c \in arp : c.src = mac}
           IN Scan({c.dip : c \in sent} \ {None}, Cardinality(sent)) : mac \in {c.src : c \in arp}}
Scans(convs, frames) ==
    IF frames # <<>> THEN ScansInFrames(frames)
    ELSE ScansInConversations({c \in Items(convs) : IsArp(c)})

\* _detect_broadcast_storm: its timestamps are no numbers, so every capture
\* is taken to last a minute.
Storms(convs) ==
    {Finding(STORM, {}) : mac \in {m \in {c.src : c \in Items(convs)} :
        /\ Arp.on[STORM]
        /\ FoldLeft(LAMBDA n, c : n + c.packets, 0,
                    SelectSeq(convs, LAMBDA c : IsArp(c) /\ c.src = m /\ c.dst = BroadcastMac))
           > Arp.limits[STORM]}}

Unasked(frames) ==
    {Finding(GRATUITOUS, {p.sip}) : p \in {q \in Range(frames) :
        Arp.on[GRATUITOUS] /\ q.sip # None /\ q.src # None /\ q.sip = q.dip}}

\* _detect_from_l2_anomalies: of the addresses that are not flagged yet.
Moved(moves, claims) ==
    {Finding(DUPLICATE, {ip} \cup UNION {m[2] : m \in {n \in moves : n[1] = ip}}) :
        ip \in {m[1] : m \in {n \in moves : Arp.on[DUPLICATE] /\ n[1] \notin Disputed(claims)}}}

ArpFindings(convs, cut, moves) ==
    LET frames == Frames(cut)
        claims == Claims(convs, frames)
    IN Conflicts(claims) \cup Greedy(claims) \cup Scans(convs, frames) \cup Storms(convs)
       \cup Unasked(frames) \cup Moved(moves, claims)

-----------------------------------------------------------------------------
(* marlinspike_cisa.                                                       *)

\* _extract_report_terms: one asset per vendor and product.
Products(devices) ==
    {<<devices[k].vendor, devices[k].product>> : k \in DOMAIN devices} \ {<<None, None>>}

\* _build_term_groups: every word stands for the words of its group.
Synonyms(word) == LET groups == {g \in AliasGroups : word \in g}
                  IN IF groups = {} THEN {word} ELSE UNION groups
\* _score_advisory: some synonym of every word is in the advisory.
Concerns(advisory, asset) ==
    \A word \in {asset[1], asset[2]} \ {None} : Synonyms(word) \cap advisory.words # {}

\* run_report: the advisories of each asset.
Advised(devices) ==
    [asset \in Products(devices) |-> {a.id : a \in {b \in Catalog : Concerns(b, asset)}}]

-----------------------------------------------------------------------------
(* marlinspike_mitre.  An indicator counts as the finding made with it.    *)

RECURSIVE Holds(_, _, _), Asked(_)

\* _conditions_match.
Holds(when, categories, g) ==
    /\ when.nodes <= Cardinality(DOMAIN g.nodes) /\ when.edges <= Cardinality(DOMAIN g.edges)
    /\ when.categories # {} => when.categories \cap categories # {}
    /\ \A i \in DOMAIN when.all : Holds(when.all[i], categories, g)
    /\ when.any # <<>> => \E i \in DOMAIN when.any : Holds(when.any[i], categories, g)

\* _extract_observation_filters.
Asked(when) == when.categories \cup UNION {Asked(when.all[i]) : i \in DOMAIN when.all}
                               \cup UNION {Asked(when.any[i]) : i \in DOMAIN when.any}

\* _classify: the rules of one technique are merged into one item
\* (_merge_item), with the evidence of all of them (_collect_rule_evidence).
Classified(kind, found, g) ==
    LET categories == {f.category : f \in found}
        rules == {r \in Range(MitreRules) : r.kind = kind /\ Holds(r.when, categories, g)}
        Evidence(t) == {f \in found : \E r \in rules : r.technique = t /\ f.category \in Asked(r.when)}
    IN [t \in {r.technique : r \in rules} |->
            [mapped_from |-> {f.category : f \in Evidence(t)},
             nodes |-> UNION {f.nodes : f \in Evidence(t)}]]

Techniques(found, g) ==
    LET classified == Classified("classification", found, g)
    IN [classified |-> classified, coverage |-> Classified("coverage", found, g),
        unmapped |-> {f.category : f \in found}
                     \ UNION {classified[t].mapped_from : t \in DOMAIN classified}]

-----------------------------------------------------------------------------
(* The scan.                                                               *)

\* The artifacts that stay.  MITRE is run first in the chain, and again by the
\* web process, when the report has the findings of ARP and APT.
ArtifactsOf(convs, found, cut, moves) ==
    LET devices == Devices(convs)
        apt == AptFindings(devices, convs)
        arp == ArpFindings(convs, cut, moves)
    IN [apt |-> apt, arp |-> arp, cisa |-> Advised(devices),
        mitre |-> Techniques(found \cup apt \cup arp, Topology(convs))]

RulesInit == RiskInit /\ extras = [apt |-> {}, arp |-> {}]

\* The report is scored and saved, and the plugins read it.  The external
\* dissector may know of no moves.
ScoreAndEnrich ==
    /\ Score
    /\ \E moves \in {Moves(chunked), {}} : extras' = ArtifactsOf(merged, risk', chunked, moves)
RulesNext == \/ Next /\ UNCHANGED <<risk, extras>>
             \/ ScoreAndEnrich
RulesSpec == RulesInit /\ [][RulesNext]_ruleVars

-----------------------------------------------------------------------------
(* Properties.                                                             *)

AnnouncedBy(ip) == {p.src : p \in {q \in Range(capture) : IsArp(q) /\ q.sip = ip}} \ {None}

\* Every address that two MACs have announced in a capture is reported with
\* all of them, whatever the conversations folded together ("at full
\* fidelity", _build_ip_mac_index), as long as frames are kept one by one;
\* and no conflict is reported that the frames do not bear out, by any
\* dissector, of any pieces.
ClaimsAreFound ==
    stage = "scored" =>
        LET conflicts == {f \in extras.arp : f.category = DUPLICATE}
        IN /\ \A f \in conflicts : \E ip \in f.nodes :
                Cardinality(f.nodes \ {ip}) > 1 /\ f.nodes \ {ip} \subseteq AnnouncedBy(ip)
           /\ Frames(chunked) = SelectSeq(capture, IsArp) =>
                \A ip \in {p.sip : p \in Range(capture)} \ {None} :
                    Cardinality(AnnouncedBy(ip)) > 1
                        => Finding(DUPLICATE, {ip} \cup AnnouncedBy(ip)) \in conflicts

\* The categories a cut may change.
Unsteady == OfSpans \cup OfOperations \cup OfAdvisories \cup ArpCategories \cup {C2BEACON}

\* A capture that is dissected chunk by chunk is enriched like one that is not
\* cut (its risk findings are CutsKeepFindings' matter): APT finds the same,
\* but for beacons, CISA the same advisories, MITRE the same of every
\* technique that rests on nothing unsteady; and ARP finds nothing that the
\* whole capture does not show.
CutsKeepPluginFindings ==
    stage = "scored" /\ chunked /\ Steady =>
        \A convs \in Dissections(1, Len(capture)) :
            LET whole == ArtifactsOf(convs, risk, FALSE, Moves(FALSE))
                Firm(mitre) ==
                    {<<t, mitre.classified[t]>> : t \in {u \in DOMAIN mitre.classified :
                        \A i \in DOMAIN MitreRules : MitreRules[i].technique = u
                            => Asked(MitreRules[i].when) \cap Unsteady = {}}}
                But(fs) == {f \in fs : f.category # C2BEACON}
            IN /\ But(extras.apt) = But(whole.apt) /\ extras.cisa = whole.cisa
               /\ Firm(extras.mitre) = Firm(whole.mitre) /\ extras.arp \subseteq whole.arp

\* "Mirror run_chain" (engine.py, run_chain_from_conversations), in all it makes
\* of the merged conversations: the topology, its findings and what the plugins
\* add to them.
CutsKeepAnalysis == CutsKeepTopology /\ CutsKeepFindings /\ CutsKeepPluginFindings

=============================================================================

------------------------------ MODULE RiskSurface ------------------------------
(***************************************************************************)
(* What stage 4 of the engine reports of a topology and its conversations: *)
(* vendors and roles of the devices, which TopologyBuilder settles first,  *)
(* the rules of RiskSurface, the malware rules and, in a scan that was not *)
(* cut, the advisories of ics_cve.  A finding is a category and the nodes  *)
(* it affects; its wording is left out.                                    *)
(***************************************************************************)
EXTENDS ScanPipeline

CONSTANTS
    Ports, Protocols, Fns,  \* the classes of ports, protocols and functions the rules name
    Limits,                 \* their thresholds
    VendorOf,               \* the OUI database: MAC to vendor
    IdentityOf,             \* what a function that carries an identity tells of a device
    HintsOf,                \* what its names tell of a MAC
    RoleOfPort,             \* the services that give a device its role
    NetworkVendors, EolProducts,
    SubnetOf,               \* the /24 of an address
    Advisories,             \* <<vendor, product>> pairs of CISA_ICS_CATALOG
    Indicators,             \* names, addresses and operations the malware rules match
    Fast                    \* --fast: no C2 and no malware rules

VARIABLE risk               \* the findings of the last scan
riskVars == <<vars, risk>>

From(c) == NodeKey(c.sip, c.src)
To(c) == NodeKey(c.dip, c.dst)
Items(convs) == {convs[i] : i \in DOMAIN convs}

-----------------------------------------------------------------------------
(* Devices: the end of TopologyBuilder.build.                              *)

\* The services of a node: what conversations that end at it call, where a
\* single call of an ephemeral port is no service.
Calls(k, port, convs) == {i \in DOMAIN convs : To(convs[i]) = k /\ convs[i].port = port}
Services(k, convs) ==
    {port \in {convs[i].port : i \in DOMAIN convs} \ {0} :
        Cardinality(Calls(k, port, convs)) > IF port >= EphemeralMin THEN 1 ELSE 0}

\* What conversations that end at a node tell of it: the last one wins.
Identity(k, g, convs) ==
    LET telling == {i \in DOMAIN convs : /\ g.at.dst[i] = k
                                         /\ convs[i].fns \cap DOMAIN IdentityOf # {}}
        last == CHOOSE i \in telling : \A j \in telling : j <= i
    IN IF telling = {} THEN [vendor |-> None, product |-> None, hints |-> {}]
       ELSE IdentityOf[CHOOSE fn \in convs[last].fns : fn \in DOMAIN IdentityOf]

\* What host names, system descriptions and capabilities tell besides.
Hints(n, told) == told.hints \cup (IF n.mac \in DOMAIN HintsOf THEN HintsOf[n.mac] ELSE {})

\* _fingerprint_vendors: an external host has the MAC of the gateway.
Vendor(n, level, told) ==
    First(<<told.vendor, IF level # 5 /\ n.mac \in DOMAIN VendorOf THEN VendorOf[n.mac]
                                                                   ELSE None>>)

\* _node_peer_count and _has_engineering_activity read the indexes that
\* _merge_l2_nodes keeps.
Peers(k, g, convs) ==
    ({To(convs[i]) : i \in {j \in DOMAIN convs : g.at.src[j] = k}}
     \cup {From(convs[i]) : i \in {j \in DOMAIN convs : g.at.dst[j] = k}}) \ {k}
Programs(c) == c.fns \cap Fns.program # {}
Engineers(k, g, convs) ==
    \E i \in DOMAIN convs : g.at.src[i] = k /\ (Programs(convs[i]) \/ convs[i].writes > Limits.writes)

\* _assign_roles, the roles of each Purdue level.  RTUs and the PLCs of all
\* protocols are "PLC" here.
FieldRole(n) == IF n.protocols \cap Protocols.controller # {} THEN "PLC" ELSE "Field Device"
SupervisoryRole(n, hints, engineers, services) ==
    IF engineers THEN "Engineering Workstation"
    ELSE IF "workstation" \in hints \/ ~n.responds THEN "HMI/SCADA"
    ELSE IF ~n.initiates \/ Cardinality(services) >= 3 \/ services \cap Ports.files # {}
      THEN "Supervisory Controller"
    ELSE "HMI/SCADA"
SiteRole(n, hints, engineers, services, peers) ==
    IF engineers THEN "Engineering Workstation"
    ELSE IF "workstation" \in hints \/ ~n.responds THEN "Operations Workstation"
    ELSE IF services \cap Ports.files # {} THEN "Data Server"
    ELSE IF services \cap Ports.servers # {} /\ Cardinality(peers) >= 3 THEN "Infrastructure Server"
    ELSE "Operations Host"
EnterpriseRole(n, hints, services, peers) ==
    IF \/ services \cap Ports.files # {}
       \/ services \cap Ports.servers # {} /\ Cardinality(peers) >= 3
      THEN "Enterprise Server"
    ELSE IF "workstation" \in hints \/ ~n.responds THEN "Enterprise Workstation"
    ELSE "Enterprise Host"

\* _assign_roles: what a device calls itself, its vendor, its native service,
\* then its level; an engineer is an engineering workstation unless it is a
\* controller.
Role(k, n, level, vendor, hints, g, convs) ==
    LET services == Services(k, convs)
        native == services \cap DOMAIN RoleOfPort
        engineers == Engineers(k, g, convs) \/ "engineering" \in hints
        byLevel == CASE level \in {0, 1} -> FieldRole(n)
                     [] level = 2 -> SupervisoryRole(n, hints, engineers, services)
                     [] level = 3 -> SiteRole(n, hints, engineers, services, Peers(k, g, convs))
                     [] level = 4 -> EnterpriseRole(n, hints, services, Peers(k, g, convs))
                     [] level = 5 -> "External Host"
                     [] OTHER -> "Unknown"
    IN IF k \in Broadcasts THEN "Broadcast/Multicast"
       ELSE IF "switch" \in hints THEN "Network Switch"
       ELSE IF vendor \in NetworkVendors THEN "Network Infrastructure"
       ELSE IF "controller" \in hints THEN "PLC"
       ELSE IF native # {} THEN RoleOfPort[CHOOSE port \in native : \A q \in native : port <= q]
       ELSE IF engineers /\ byLevel # "PLC" THEN "Engineering Workstation"
       ELSE byLevel

\* The nodes as RiskSurface gets them.  Network infrastructure is put on level
\* 1; the priority is that of _rank_targets, which never meets a node with
\* auth_observed.
Risky(k, g, levels, convs) ==
    LET n == g.nodes[k]
        told == Identity(k, g, convs)
        vendor == Vendor(n, levels[k], told)
        hints == Hints(n, told)
        role == Role(k, n, levels[k], vendor, hints, g, convs)
    IN [ip |-> n.ip, mac |-> n.mac, protocols |-> n.protocols, role |-> role,
        level |-> IF role = "Network Infrastructure" THEN 1 ELSE levels[k],
        vendor |-> vendor, product |-> told.product, services |-> Services(k, convs),
        internal |-> /\ k \notin Broadcasts /\ role # "Network Infrastructure"
                     /\ levels[k] \notin {-1, 5},
        priority |-> IF k \in Broadcasts THEN 0
                     ELSE 5 + (IF role = "PLC" THEN 10 ELSE 0)
                            + (IF vendor # None THEN 3 ELSE 0)
                            + (IF Cardinality(n.protocols) > 2 THEN 2 ELSE 0)]
Devices(convs) ==
    LET g == MergeL2Nodes(BuildGraph(convs), convs)
        levels == Levels(g, convs)
    IN [k \in DOMAIN g.nodes |-> Risky(k, g, levels, convs)]

\* _build_mac_table: the first address a MAC was seen with, or else that of
\* the node that has the MAC.
MacTable(devices, convs) ==
    LET ends == Ends(convs)
    IN [mac \in {ends[i].mac : i \in DOMAIN ends} |->
            First([i \in DOMAIN ends |-> IF ends[i].mac = mac THEN ends[i].ip ELSE None]
                  \o SetToSeq({devices[k].ip : k \in {j \in DOMAIN devices :
                                                        devices[j].mac = mac}}))]

-----------------------------------------------------------------------------
(* The rules.                                                              *)

Finding(category, nodes) == [category |-> category, nodes |-> nodes]
Ends2(c) == {From(c), To(c)}
\* One finding for all the conversations of a rule.
Together(category, convs) ==
    IF convs = {} THEN {} ELSE {Finding(category, UNION {Ends2(c) : c \in convs})}

\* RiskSurface.nodes: keyed by address or MAC, as the topology is.
SurfaceKey(n) == NodeKey(n.ip, n.mac)
SurfaceKeys(devices) == {SurfaceKey(devices[k]) : k \in DOMAIN devices}
Level(devices, key) ==
    LET of == {k \in DOMAIN devices : SurfaceKey(devices[k]) = key}
    IN IF of = {} THEN -1 ELSE devices[CHOOSE k \in of : TRUE].level

\* _check_external_comms.
ExternalComms(devices, convs) ==
    LET ot == {k \in SurfaceKeys(devices) :
                \E j \in DOMAIN devices : /\ SurfaceKey(devices[j]) = k
                                          /\ devices[j].protocols \cap OTProtocols # {}}
        abroad == {c \in Items(convs) : \/ From(c) \in ot /\ c.dip \in PublicIps
                                        \/ To(c) \in ot /\ c.sip \in PublicIps}
        Abroad(c) == IF From(c) \in ot /\ c.dip \in PublicIps THEN c.dip ELSE c.sip
        others == {k \in SurfaceKeys(devices) : Level(devices, k) = 5}
                    \ {Abroad(c) : c \in abroad}
    IN Together("ICS_EXTERNAL_COMMS", abroad)
       \cup IF others = {} THEN {} ELSE {Finding("EXTERNAL_IPS_OBSERVED", others)}

\* _check_cross_purdue and the conduit rule: edges between zones.
ZoneRules(devices, edges) ==
    LET Low(k) == Level(devices, k) \in {0, 1}
        High(k) == Level(devices, k) >= 3
        Gap(e) == LET a == Level(devices, e.src)
                      b == Level(devices, e.dst)
                  IN a >= 0 /\ b >= 0 /\ a - b \notin -1..1
        known == {e \in edges : {e.src, e.dst} \subseteq SurfaceKeys(devices)}
        crossing == {e \in known : \E ends \in {<<e.src, e.dst>>, <<e.dst, e.src>>} :
                                        Low(ends[1]) /\ High(ends[2])}
        gaps == {e \in known : Gap(e)}
        Over(category, es) ==
            IF es = {} THEN {} ELSE {Finding(category, UNION {{e.src, e.dst} : e \in es})}
    IN Over("CROSS_PURDUE", crossing) \cup Over("IEC62443_CONDUIT_VIOLATION", gaps)

\* The write audit, _check_cleartext_engineering, _check_write_sources.
WriteRules(convs) ==
    LET writing == {c \in Items(convs) : c.writes > 0}
        programming == {c \in Items(convs) : Programs(c)}
        sources == {From(c) : c \in writing}
    IN Together("CLEARTEXT_ENG", {c \in writing \cup programming : c.proto \in Protocols.engineering})
       \cup Together("MODBUS_WRITE_COIL", writing)
       \cup IF Cardinality(sources) > Limits.writers
              THEN {Finding("MODBUS_WRITE_ANON", sources)} ELSE {}

\* _check_opc_security, _check_program_access.
ProgramRules(convs) ==
    Together("S7_PROGRAM_ACCESS", {c \in Items(convs) : Programs(c)})
    \cup Together("OPC_NO_SECURITY", {c \in Items(convs) : c.fns \cap Fns.insecure # {}})

\* _check_no_auth.
NoAuth(devices) ==
    LET silent == {SurfaceKey(devices[k]) : k \in {j \in DOMAIN devices :
                    /\ devices[j].internal
                    /\ \/ devices[j].protocols \cap Protocols.auth # {}
                       \/ devices[j].services \cap Ports.auth # {}}}
    IN IF silent = {} THEN {} ELSE {Finding("NO_AUTH_OBSERVED", silent)}

\* _check_port_analysis: the services of each device.
PortRules(devices) ==
    UNION {LET d == devices[k]
               unknown == {p \in d.services : p \notin Ports.ot \cup Ports.it /\ p < EphemeralMin}
               high == {p \in unknown : p > Ports.high}
               scanned == \/ d.level \in 0..3 /\ Cardinality(unknown) > Limits.scan
                          \/ Cardinality(high) > Limits.scan
               Is(category, holds) ==
                    IF holds THEN {Finding(category, {SurfaceKey(d)})} ELSE {}
           IN Is("CLEARTEXT_REMOTE_ACCESS", d.services \cap Ports.cleartext # {})
              \cup Is("PORT_SCAN_TARGET", scanned)
              \cup Is("UNKNOWN_SERVICE_PORT", /\ d.level \in 0..3 /\ unknown # {}
                                              /\ Cardinality(unknown) <= Limits.scan)
              \cup Is("HIGH_PORT_SERVICE", high # {} /\ Cardinality(high) <= Limits.scan)
              \cup Is("IT_SERVICE_ON_OT_DEVICE",
                      d.level \in {0, 1} /\ (d.services \cap Ports.it) \ Ports.itAllowed # {})
           : k \in DOMAIN devices}

\* _check_baseline_deviations and _check_plc_integrity ask for roles by the
\* names of device types, which _assign_roles gives no device: neither finds
\* anything.  So the five categories of the second, one per protocol, and its
\* questions after serial number and revision are one finding here.
PlcRules(devices, convs) ==
    LET Of(role) == {devices[k].ip : k \in {j \in DOMAIN devices : devices[j].role = role}} \ {None}
        controllers == Of("Programmable Logic Controller")
        panels == Of("Human-Machine Interface")
        Changes(c) == c.ops \cap Fns.control # {} \/ c.writes > 0
    IN {Finding("PLC_CHANGE", {ip}) : ip \in {plc \in controllers :
            \E c \in Items(convs) : plc \in {c.sip, c.dip} /\ Changes(c)}}
       \cup {Finding("BASELINE_DEVIATION", Ends2(c)) : c \in {d \in Items(convs) :
            \/ From(d) \in panels /\ (Programs(d) \/ d.writes > 0)
            \/ From(d) \in controllers /\ To(d) \in panels}}

\* _check_advanced_protocols.
ControlRules(convs) ==
    {Finding("UNAUTH_CONTROL", Ends2(c)) : c \in {d \in Items(convs) :
        d.proto \in Protocols.control /\ d.ops \cap Fns.control # {}}}

\* _check_ot_threat_signatures.
ThreatRules(convs) ==
    {Finding("OT_THREAT_SIGNATURE", Ends2(c)) : c \in {d \in Items(convs) :
        d.fns \cap (Fns.stop \cup Fns.diagnose) # {} \/ d.port \in Ports.threat}}

\* _check_plc_state_shifts: a stop is looked for among the S7 functions and
\* among the operations of any protocol.
ModeShifts(convs) ==
    {Finding("PLC_MODE_SHIFT_DETECTED", Ends2(c)) : c \in {d \in Items(convs) :
        (d.fns \cup d.ops) \cap Fns.stop # {}}}

\* _check_eol_status.
EolRules(devices) ==
    {Finding("ASSET_EOL", {SurfaceKey(devices[k])}) :
        k \in {j \in DOMAIN devices : devices[j].product \in EolProducts}}

\* _check_rogue_and_dual_homed: a MAC that sends from several subnets.
DualHomed(convs) ==
    LET SubnetsOf(mac) == {SubnetOf[c.sip] : c \in {d \in Items(convs) :
                                d.src = mac /\ d.sip \in DOMAIN SubnetOf}}
    IN {Finding("DUAL_HOMED_ENDPOINT_SUSPECT", {mac}) :
            mac \in {m \in {c.src : c \in Items(convs)} : Cardinality(SubnetsOf(m)) > 1}}

\* _check_purdue_leak_and_lateral_movement, _check_polling_jitter_and_bursts.
TrafficRules(devices, convs) ==
    {Finding("LATERAL_MOVEMENT_SUSPECT", Ends2(c)) : c \in {d \in Items(convs) :
        d.port \in Ports.admin /\ Level(devices, To(d)) \in {0, 1}}}
    \cup {Finding("OT_POLLING_BURST_ANOMALY", Ends2(c)) : c \in {d \in Items(convs) :
        d.proto \in Protocols.burst /\ d.packets > Limits.burst}}

\* _check_c2_indicators.  Beacons: to the internet on any port that is not
\* periodic by design, inside on unknown ports only.
Unknown(port) == port \notin Ports.ot \cup Ports.it
Beacons(convs) ==
    {Finding("C2_BEACONING", Ends2(c)) : c \in {d \in Items(convs) :
        /\ d.beacon /\ d.port \notin Ports.periodic
        /\ d.dip \in PublicIps \/ Unknown(d.port)}}

\* Queries for names that look random; those of a sender that was reported for
\* many of them are not reported again.
Queries(convs) ==
    LET asked == {i \in DOMAIN convs : convs[i].proto = "DNS" /\ convs[i].entropy}
        many == {i \in asked : Cardinality(convs[i].fns) > Limits.names}
        tunnels == {i \in asked \ many : convs[i].packets > Limits.tunnel}
        quiet == {i \in asked : ~\E j \in many : j <= i /\ From(convs[j]) = From(convs[i])}
    IN {Finding("C2_DNS_EXFIL", Ends2(convs[i])) : i \in many}
       \cup {Finding("C2_DNS_TUNNEL_SUSPECT", Ends2(convs[i])) : i \in tunnels}
       \cup {Finding("C2_DNS_HIGH_ENTROPY", {From(convs[i])}) : i \in quiet}

\* Unknown channels of OT devices to the internet.
Channels(devices, convs) ==
    {Finding("C2_SUSPECT_CHANNEL", Ends2(c)) : c \in {d \in Items(convs) :
        /\ Level(devices, From(d)) \in 0..2 /\ d.dip \in PublicIps
        /\ Unknown(d.port) /\ d.port > 1024}}

\* Far more sent to the internet than received from it.
Sent(a, b, convs) ==
    FoldLeft(LAMBDA n, c : n + c.packets, 0,
             SelectSeq(convs, LAMBDA c : From(c) = a /\ To(c) = b))
Uploads(devices, convs) ==
    {Finding("C2_DATA_EXFIL", {way[1], way[2]}) :
        way \in {w \in UNION {{<<From(c), To(c)>>, <<To(c), From(c)>>} : c \in Items(convs)} :
            LET out == Sent(w[1], w[2], convs)
                in == Sent(w[2], w[1], convs)
            IN /\ in > 0 /\ w[2] \in PublicIps /\ Level(devices, w[1]) \in 0..2
               /\ out > Limits.ratio * in /\ out > Limits.upload}}

\* RiskSurface.score.
Surface(devices, edges, convs) ==
    ExternalComms(devices, convs) \cup ZoneRules(devices, edges) \cup WriteRules(convs)
    \cup NoAuth(devices) \cup ProgramRules(convs) \cup PortRules(devices)
    \cup PlcRules(devices, convs) \cup ControlRules(convs) \cup ThreatRules(convs)
    \cup ModeShifts(convs) \cup EolRules(devices) \cup DualHomed(convs)
    \cup TrafficRules(devices, convs)
    \cup IF Fast THEN {} ELSE Beacons(convs) \cup Queries(convs) \cup Channels(devices, convs)
                              \cup Uploads(devices, convs)

-----------------------------------------------------------------------------
(* What follows the rules.                                                 *)

\* _conversations_to_observed_events.
Observables(c) == {c.sip, c.dip, c.src, c.dst} \cup c.ops
                  \cup (IF c.proto = "DNS" THEN c.fns ELSE {})

\* _run_malware_stage: what the rules match; the findings name addresses only.
\* The external matcher may be missing, fail or time out: then there are none.
Malware(convs) ==
    {Finding("MALWARE_IOC_MATCH", {c.sip, c.dip} \ {None}) :
        c \in {d \in Items(convs) : ~Fast /\ Observables(d) \cap Indicators # {}}}

\* correlate_ics_vulnerabilities names the address of a node, which a node
\* known by its MAC does not have.
Vulnerabilities(devices) ==
    {Finding("CISA_ICS_ADVISORY", {devices[k].ip}) : k \in {j \in DOMAIN devices :
        <<devices[j].vendor, devices[j].product>> \in Advisories}}

\* Stage 4 of run_chain_from_conversations; run_chain goes on with the
\* advisories.
Assess(convs) == Surface(Devices(convs), Range(Topology(convs).edges), convs)
AssessWhole(convs) == Assess(convs) \cup Vulnerabilities(Devices(convs))

RiskInit == Init /\ risk = {}

Score == /\ stage = "built"
         /\ \E matches \in {Malware(merged), {}} :
                risk' = matches \cup IF chunked THEN Assess(merged) ELSE AssessWhole(merged)
         /\ stage' = "scored"
         /\ UNCHANGED <<capture, engine, chunked, todo, reports, merged, graph>>

RiskNext == \/ Next /\ UNCHANGED risk
            \/ Score
RiskSpec == RiskInit /\ [][RiskNext]_riskVars

-----------------------------------------------------------------------------
(* Properties.                                                             *)

\* What a cut may change: a chunk holds other spans of a conversation than the
\* capture does, for beacons and for the randomness of queries; the operations
\* of later chunks are dropped by the merge; and run_chain_from_conversations
\* asks no advisories.
OfSpans == {"C2_BEACONING", "C2_DNS_EXFIL", "C2_DNS_TUNNEL_SUSPECT", "C2_DNS_HIGH_ENTROPY"}
OfOperations == {"UNAUTH_CONTROL", "PLC_MODE_SHIFT_DETECTED", "MALWARE_IOC_MATCH"}
OfAdvisories == {"CISA_ICS_ADVISORY"}

\* A capture that is dissected chunk by chunk and merged gets the findings the
\* same capture gets in one piece (run_chain_from_conversations: "Mirror
\* run_chain"), but for those categories; and it gains no finding from
\* operations.
CutsKeepFindings ==
    stage = "scored" /\ chunked /\ Steady =>
        \A convs \in Dissections(1, Len(capture)) :
            LET whole == AssessWhole(convs) \cup Malware(convs)
                Kept(found) == {f \in found : f.category \notin OfSpans \cup OfOperations
                                                                  \cup OfAdvisories}
            IN /\ Kept(risk) = Kept(whole)
               /\ {f \in risk : f.category \in OfOperations} \subseteq whole

\* A device a finding names is on the map, or has left it for the node of an
\* address and can be found through the table of MACs (_merge_l2_nodes,
\* _build_mac_table): the rules name ends of conversations, some of which the
\* topology has re-keyed since.
FindingsAreOnTheMap ==
    stage = "scored" =>
        \A f \in {g \in risk : g.category # "CISA_ICS_ADVISORY"} :
            \A key \in f.nodes \ DOMAIN graph.nodes :
                LET table == MacTable(Devices(merged), merged)
                IN key \in DOMAIN table /\ table[key] \in DOMAIN graph.nodes

=============================================================================

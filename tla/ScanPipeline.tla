---------------------------- MODULE ScanPipeline ----------------------------
(***************************************************************************)
(* What a scan makes of a capture: stage 2 of the engine turns packets     *)
(* into conversations, the chunked pipeline of the web process merges the  *)
(* conversations of the chunks (_merge_chunk_conversations), and stage 3   *)
(* builds the topology from them (TopologyBuilder).  The processes that    *)
(* run these stages, and what happens when one fails, are ScanRecovery's.  *)
(*                                                                         *)
(* A packet is a record [src, dst, sip, dip, proto, sport, dport, fn,      *)
(* mgmt]; its time is its position in the capture, and it weighs one       *)
(* packet.  The text a field is parsed from is left out.                   *)
(***************************************************************************)
EXTENDS Integers, Sequences, FiniteSets, SequencesExt

CONSTANTS
    Scenes,         \* sets of packets; a capture is made of those of one scene
    MaxPackets,     \* bound: the length of a capture
    Dissectors,     \* "tshark" (built in, keyed by MACs), "dpi" (Bronze events)
    CollapseAt,     \* --collapse-threshold, 0 for off
    BeaconMin,      \* packets it takes to call a conversation regular
    ServicePorts,   \* RUST_PROTOCOL_SERVICE_PORTS
    EphemeralMin,   \* EPHEMERAL_PORT_MIN
    SkipEphemeral,  \* --skip-ephemeral
    OTProtocols, Writes,            \* protocols of OT devices, write functions
    Random,                         \* the queried names that look random
    Broadcasts, PublicIps, Subnets  \* addresses; Subnets maps an IP to a level

None == ""
Packets == UNION Scenes

VARIABLES
    capture,    \* the packets of the pcap, in order
    engine,     \* the dissector this host has
    chunked,    \* whether the web process splits the capture
    todo,       \* the chunks still to dissect, as <<first, last>> positions
    reports,    \* the conversations of each dissected chunk
    merged,     \* the merged conversations
    graph,      \* the topology
    stage       \* "idle", "dissect", "merged", "built"
vars == <<capture, engine, chunked, todo, reports, merged, graph, stage>>

-----------------------------------------------------------------------------
(* Conversations.                                                          *)

First(seq) == LET some == SelectSeq(seq, LAMBDA v : v # None)
              IN IF some = <<>> THEN None ELSE some[1]
Least(a, b) == IF a < b THEN a ELSE b
Most(a, b) == IF a > b THEN a ELSE b

\* The list of seq in which items of one key are joined into the first of
\* them: what a dict keyed by Key and listed in insertion order holds.
Gather(seq, Key(_), Join(_, _)) ==
    FoldLeft(LAMBDA list, item :
                LET at == {i \in DOMAIN list : Key(list[i]) = Key(item)}
                IN IF at = {} THEN Append(list, item)
                   ELSE [i \in DOMAIN list |-> IF i \in at THEN Join(list[i], item)
                                                          ELSE list[i]],
             <<>>, seq)

\* What the packet at position i adds to a conversation.
Seen(i) ==
    LET p == capture[i]
    IN [src |-> p.src, dst |-> p.dst, sips |-> {p.sip} \ {None}, dips |-> {p.dip} \ {None},
        proto |-> p.proto, port |-> p.dport, packets |-> 1, first |-> i, last |-> i,
        fns |-> {p.fn} \ {None}, writes |-> IF p.fn \in Writes THEN 1 ELSE 0,
        mgmt |-> p.mgmt, times |-> {i}, ops |-> {}]

\* Both dissectors add a packet to the conversation it belongs to; the
\* newest management address of an LLDP frame overwrites the one before.
AddPacket(c, p) ==
    [c EXCEPT !.packets = @ + p.packets, !.last = Most(@, p.last), !.first = Least(@, p.first),
              !.sips = @ \cup p.sips, !.dips = @ \cup p.dips, !.fns = @ \cup p.fns,
              !.times = @ \cup p.times, !.ops = @ \cup p.ops,
              !.writes = @ + p.writes, !.mgmt = First(<<p.mgmt, @>>)]

\* The inline port scan collapse: from the packet on with which a MAC pair
\* reaches the threshold of distinct ports, its packets go to one conversation.
PortsSoFar(lo, i) ==
    {capture[j].dport : j \in {k \in lo..i :
        capture[k].src = capture[i].src /\ capture[k].dst = capture[i].dst}} \ {0}
Collapsed(lo, i) == /\ CollapseAt > 0 /\ capture[i].dport > 0
                    /\ Cardinality(PortsSoFar(lo, i)) >= CollapseAt

MacKey(c) == <<c.src, c.dst, c.proto, c.port>>
Tshark(lo, hi) ==
    Gather([n \in 1 .. hi - lo + 1 |->
                LET i == lo + n - 1
                IN IF Collapsed(lo, i) THEN [Seen(i) EXCEPT !.proto = "Port Scan", !.port = 0]
                                       ELSE Seen(i)],
           MacKey, AddPacket)

\* _protocol_service_port and _normalize_bronze_flow: an event from the
\* service port is turned round, so that a flow runs from its initiator.
ServicePort(p) ==
    CASE p.dport \in ServicePorts -> p.dport
      [] p.dport \notin ServicePorts /\ p.sport \in ServicePorts -> p.sport
      [] OTHER -> IF p.dport \in 1 .. EphemeralMin - 1 THEN p.dport
                  ELSE IF p.sport \in 1 .. EphemeralMin - 1 THEN p.sport
                  ELSE IF p.dport # 0 THEN p.dport ELSE p.sport
Reversed(p) == ServicePort(p) # 0 /\ p.sport = ServicePort(p) /\ p.dport # ServicePort(p)
Flow(i) ==
    LET c == Seen(i)
        p == capture[i]
        flow == [c EXCEPT !.port = ServicePort(p), !.mgmt = None, !.ops = c.fns]
    IN IF Reversed(p) THEN [flow EXCEPT !.src = c.dst, !.dst = c.src,
                                        !.sips = c.dips, !.dips = c.sips]
                      ELSE flow
FlowKey(c) == <<c.sips, c.dips, c.src, c.dst, c.proto, c.port>>
Bronze(lo, hi) == Gather([n \in 1 .. hi - lo + 1 |-> Flow(lo + n - 1)], FlowKey, AddPacket)

\* _compute_beacon_score_from_timestamps: enough packets, evenly spaced.
Regular(times) ==
    /\ Cardinality(times) >= BeaconMin
    /\ \E gap \in 1..MaxPackets :
        LET first == CHOOSE t \in times : \A u \in times : t <= u
        IN times = {first + n * gap : n \in 0 .. Cardinality(times) - 1}

\* _compute_dns_entropy_from_queries, against its threshold: on average over
\* the names of the conversation.
LooksRandom(names) == 2 * Cardinality(names \cap Random) > Cardinality(names)

\* A conversation names one address per end: any of those seen, for the built
\* in dissector takes the first of a set (next(iter(...))).
OneOf(ips) == IF ips = {} THEN {None} ELSE ips
Named(c, sip, dip) ==
    [src |-> c.src, dst |-> c.dst, sip |-> sip, dip |-> dip, proto |-> c.proto,
     port |-> c.port, packets |-> c.packets, first |-> c.first, last |-> c.last,
     fns |-> c.fns, writes |-> c.writes, mgmt |-> c.mgmt, ops |-> c.ops,
     beacon |-> Regular(c.times), entropy |-> LooksRandom(c.fns)]
Readings(convs) ==
    LET ends == {f \in [DOMAIN convs -> UNION {OneOf(convs[i].sips) \X OneOf(convs[i].dips) :
                                                i \in DOMAIN convs}] :
                    \A i \in DOMAIN convs : f[i] \in OneOf(convs[i].sips) \X OneOf(convs[i].dips)}
    IN {[i \in DOMAIN convs |-> Named(convs[i], f[i][1], f[i][2])] : f \in ends}

\* _dissect_with_selected_engine.
Dissections(lo, hi) == Readings(IF engine = "dpi" THEN Bronze(lo, hi) ELSE Tshark(lo, hi))

\* Bug: the counters of a later chunk replace those of the chunks before.
CombineForgetting(old, new) ==
    [old EXCEPT !.packets = new.packets, !.writes = @ + new.writes,
                !.first = Least(@, new.first), !.last = Most(@, new.last),
                !.sip = First(<<@, new.sip>>), !.dip = First(<<@, new.dip>>),
                !.fns = @ \cup new.fns, !.mgmt = First(<<@, new.mgmt>>),
                !.beacon = @ \/ new.beacon, !.entropy = @ \/ new.entropy]

\* Bug: the functions of a later chunk are dropped.
CombineFirstFunctions(old, new) ==
    [old EXCEPT !.packets = @ + new.packets, !.writes = @ + new.writes,
                !.first = Least(@, new.first), !.last = Most(@, new.last),
                !.sip = First(<<@, new.sip>>), !.dip = First(<<@, new.dip>>),
                !.mgmt = First(<<@, new.mgmt>>),
                !.beacon = @ \/ new.beacon, !.entropy = @ \/ new.entropy]

\* _merge_chunk_conversations joins a conversation of a later chunk to the one
\* of its key; the operations of the later chunk (operations_seen) are in none
\* of its lists of fields.
Combine(old, new) ==
    [old EXCEPT !.packets = @ + new.packets, !.writes = @ + new.writes,
                !.first = Least(@, new.first), !.last = Most(@, new.last),
                !.sip = First(<<@, new.sip>>), !.dip = First(<<@, new.dip>>),
                !.fns = @ \cup new.fns, !.mgmt = First(<<@, new.mgmt>>),
                !.beacon = @ \/ new.beacon, !.entropy = @ \/ new.entropy]

\* The chunks in order, in one table keyed by MACs, protocol and port.
Merge(chunks) == Gather(FlattenSeq(chunks), MacKey, Combine)

-----------------------------------------------------------------------------
(* The topology.                                                           *)

NodeKey(ip, mac) == IF ip # None THEN ip ELSE mac

\* Both ends of every conversation, in the order _build_graph meets them.
Ends(convs) ==
    FlattenSeq([i \in DOMAIN convs |-> LET c == convs[i] IN
        << [conv |-> i, key |-> NodeKey(c.sip, c.src), ip |-> c.sip, mac |-> c.src,
            side |-> "src", proto |-> c.proto, mgmt |-> c.mgmt],
           [conv |-> i, key |-> NodeKey(c.dip, c.dst), ip |-> c.dip, mac |-> c.dst,
            side |-> "dst", proto |-> c.proto, mgmt |-> None] >>])

Node(ends) ==
    [ip |-> ends[1].ip, mac |-> First([i \in DOMAIN ends |-> ends[i].mac]),
     protocols |-> {ends[i].proto : i \in DOMAIN ends},
     initiates |-> \E i \in DOMAIN ends : ends[i].side = "src",
     responds |-> \E i \in DOMAIN ends : ends[i].side = "dst",
     mgmt |-> First([i \in DOMAIN ends |-> ends[i].mgmt])]

EdgeOf(c) == <<NodeKey(c.sip, c.src), NodeKey(c.dip, c.dst), c.proto, c.port>>
Edge(key, convs) ==
    LET of == {i \in DOMAIN convs : EdgeOf(convs[i]) = key}
    IN [src |-> key[1], dst |-> key[2], conversations |-> Cardinality(of),
        first |-> CHOOSE t \in {convs[i].first : i \in of} :
                    \A i \in of : t <= convs[i].first,
        last |-> CHOOSE t \in {convs[i].last : i \in of} :
                    \A i \in of : t >= convs[i].last,
        packets |-> FoldLeft(LAMBDA n, c : n + c.packets, 0,
                             SelectSeq(convs, LAMBDA c : EdgeOf(c) = key)),
        writes |-> \E i \in of : convs[i].writes > 0]

\* _build_graph; at[side][i] is the node conversation i is indexed under
\* (_conv_by_src and _conv_by_dst).
BuildGraph(convs) ==
    LET ends == Ends(convs)
        edged == {i \in DOMAIN convs : SkipEphemeral => convs[i].port < EphemeralMin}
    IN [nodes |-> [k \in {ends[i].key : i \in DOMAIN ends} |->
                        Node(SelectSeq(ends, LAMBDA e : e.key = k))],
        edges |-> [k \in {EdgeOf(convs[i]) : i \in edged} |-> Edge(k, convs)],
        at |-> [src |-> [i \in DOMAIN convs |-> NodeKey(convs[i].sip, convs[i].src)],
                dst |-> [i \in DOMAIN convs |-> NodeKey(convs[i].dip, convs[i].dst)]]]

\* Bug: only the senders of conversations tell which address a MAC has.
AddressOfSender(mac, ends) ==
    First(Reverse([i \in DOMAIN ends |-> IF ends[i].mac = mac /\ ends[i].side = "src"
                                          THEN ends[i].ip ELSE None]))

\* _merge_l2_nodes: mac_to_ip keeps the last address a MAC was seen with.
AddressOf(mac, ends) ==
    First(Reverse([i \in DOMAIN ends |-> IF ends[i].mac = mac THEN ends[i].ip ELSE None]))

Absorbed(ipNode, macNode) ==
    [ipNode EXCEPT !.protocols = @ \cup macNode.protocols,
                   !.initiates = @ \/ macNode.initiates, !.responds = @ \/ macNode.responds,
                   !.mgmt = First(<<@, macNode.mgmt>>), !.mac = First(<<@, macNode.mac>>)]

\* Bug: the node goes even if there is no node to take it in.
MergeL2NodeAnyway(g, mac, ends) ==
    LET target == First(<<g.nodes[mac].mgmt, AddressOf(mac, ends)>>)
    IN IF target = None THEN g
       ELSE [g EXCEPT !.nodes = [k \in DOMAIN @ \ {mac} |->
                                    IF k = target THEN Absorbed(@[k], @[mac]) ELSE @[k]]]

\* A MAC-keyed node joins the node of its management address, or else of the
\* address its traffic carries, if there is such a node.
MergeL2Node(g, mac, ends) ==
    LET target == First(<<g.nodes[mac].mgmt, AddressOf(mac, ends)>>)
        Rekey(k) == IF k = mac THEN target ELSE k
    IN IF target \notin DOMAIN g.nodes THEN g
       ELSE [nodes |-> [k \in DOMAIN g.nodes \ {mac} |->
                            IF k = target THEN Absorbed(g.nodes[k], g.nodes[mac])
                                          ELSE g.nodes[k]],
             edges |-> [e \in DOMAIN g.edges |->
                            [g.edges[e] EXCEPT !.src = Rekey(@), !.dst = Rekey(@)]],
             at |-> [side \in {"src", "dst"} |->
                        [i \in DOMAIN g.at[side] |-> Rekey(g.at[side][i])]]]

MergeL2Nodes(g, convs) ==
    LET ends == Ends(convs)
        macKeys == Gather(SelectSeq(ends, LAMBDA e : e.ip = None), LAMBDA e : e.key, LAMBDA a, b : a)
        joined == FoldLeft(LAMBDA h, e : MergeL2Node(h, e.key, ends), g, macKeys)
        OfIp(ip) == First([i \in DOMAIN ends |->
                            IF ends[i].ip # None /\ AddressOf(ends[i].mac, ends) = ip
                            THEN ends[i].mac ELSE None])
    IN [joined EXCEPT !.nodes = [k \in DOMAIN @ |->
            [@[k] EXCEPT !.mac = First(<<@, IF k = joined.nodes[k].ip THEN OfIp(k) ELSE None>>)]]]

\* _infer_purdue_levels: the subnet map, broadcast and public addresses, the
\* speakers of OT protocols, then the others by whether they talk to OT.
Mapped(k) == IF k \in DOMAIN Subnets /\ k \notin Broadcasts THEN Subnets[k]
             ELSE IF k \in PublicIps \ Broadcasts THEN 5 ELSE -1
OTLevel(k, n) ==
    IF Mapped(k) # -1 \/ n.protocols \cap OTProtocols = {} THEN Mapped(k)
    ELSE IF n.initiates THEN 2 ELSE IF n.responds THEN 1 ELSE -1
Levels(g, convs) ==
    LET ot == {k \in DOMAIN g.nodes : OTLevel(k, g.nodes[k]) \in 0..2}
        TalksToOT(k) ==
            \E i \in DOMAIN convs :
                \/ g.at.src[i] = k /\ NodeKey(convs[i].dip, convs[i].dst) \in ot
                \/ g.at.dst[i] = k /\ NodeKey(convs[i].sip, convs[i].src) \in ot
    IN [k \in DOMAIN g.nodes |->
            IF OTLevel(k, g.nodes[k]) # -1 THEN OTLevel(k, g.nodes[k])
            ELSE IF ~TalksToOT(k) THEN 4
            ELSE IF g.nodes[k].initiates THEN 3 ELSE 2]

Topology(convs) ==
    LET g == MergeL2Nodes(BuildGraph(convs), convs)
    IN [nodes |-> g.nodes, edges |-> g.edges, levels |-> Levels(g, convs)]

-----------------------------------------------------------------------------
(* The chunked pipeline.                                                   *)

\* editcap -c cuts the capture into chunks, here of any lengths.
Cuttings(n) ==
    LET Bounds(cuts) == SetToSortSeq(cuts \cup {n}, <)
        Chunks(b) == [i \in DOMAIN b |-> <<IF i = 1 THEN 1 ELSE b[i - 1] + 1, b[i]>>]
    IN {Chunks(Bounds(cuts)) : cuts \in SUBSET (1 .. n - 1)}

Init == /\ capture = <<>> /\ engine \in Dissectors /\ chunked = FALSE /\ todo = <<>>
        /\ reports = <<>> /\ merged = <<>> /\ graph = Topology(<<>>) /\ stage = "idle"

\* A scan of a capture starts; a large capture is split.
StartScan ==
    /\ stage = "idle"
    /\ \E scene \in Scenes : capture' \in UNION {[1..n -> scene] : n \in 1..MaxPackets}
    /\ chunked' \in BOOLEAN
    /\ todo' \in IF chunked' THEN Cuttings(Len(capture')) ELSE {<< <<1, Len(capture')>> >>}
    /\ stage' = "dissect"
    /\ UNCHANGED <<engine, reports, merged, graph>>

DissectChunk ==
    /\ stage = "dissect" /\ todo # <<>>
    /\ \E convs \in Dissections(todo[1][1], todo[1][2]) : reports' = Append(reports, convs)
    /\ todo' = Tail(todo)
    /\ UNCHANGED <<capture, engine, chunked, merged, graph, stage>>

MergeReports ==
    /\ stage = "dissect" /\ todo = <<>>
    /\ merged' = IF chunked THEN Merge(reports) ELSE reports[1]
    /\ stage' = "merged"
    /\ UNCHANGED <<capture, engine, chunked, todo, reports, graph>>

\* run_chain_from_conversations, as far as the topology.
BuildTopology ==
    /\ stage = "merged"
    /\ graph' = Topology(merged) /\ stage' = "built"
    /\ UNCHANGED <<capture, engine, chunked, todo, reports, merged>>

Next == StartScan \/ DissectChunk \/ MergeReports \/ BuildTopology
Spec == Init /\ [][Next]_vars

-----------------------------------------------------------------------------
(* Properties.                                                             *)

\* However a capture is cut, and whatever the collapse folds together, the
\* merged conversations of two hosts hold all their packets, the first and the
\* last of them, their functions and their writes: _merge_chunk_conversations
\* adds, widens and unites, and drops nothing it counted.
TotalsSurviveCuts ==
    stage = "merged" =>
        \A pair \in {{p.src, p.dst} : p \in Packets} :
            LET sent == {i \in DOMAIN capture : {capture[i].src, capture[i].dst} = pair}
                kept == SelectSeq(merged, LAMBDA c : {c.src, c.dst} = pair)
            IN /\ Cardinality(sent) = FoldLeft(LAMBDA n, c : n + c.packets, 0, kept)
               /\ Cardinality({i \in sent : capture[i].fn \in Writes})
                    = FoldLeft(LAMBDA n, c : n + c.writes, 0, kept)
               /\ {capture[i].fn : i \in sent} \ {None} = UNION {kept[i].fns : i \in DOMAIN kept}
               /\ \A i \in sent : \E k \in DOMAIN kept : i \in kept[k].first .. kept[k].last
               /\ \A k \in DOMAIN kept : {kept[k].first, kept[k].last} \subseteq sent

\* A capture in which a device keeps the addresses it has, and no pair of
\* hosts reaches the port scan threshold.
Addresses(mac, proto) ==
    {<<p.sip, p.mgmt>> : p \in {q \in Range(capture) : q.src = mac /\ q.proto = proto}}
    \cup {<<p.dip, None>> : p \in {q \in Range(capture) : q.dst = mac /\ q.proto = proto}}
Steady ==
    /\ \A mac \in {p.src : p \in Packets} \cup {p.dst : p \in Packets} :
        \A proto \in {p.proto : p \in Packets} :
            /\ Cardinality({a[1] : a \in Addresses(mac, proto)}) <= 1
            /\ Cardinality({a[2] : a \in Addresses(mac, proto)} \ {None}) <= 1
    /\ \A i \in DOMAIN capture : ~Collapsed(1, i)

\* A large capture, dissected chunk by chunk and merged, gives the topology
\* the same capture gives in one piece: nodes, edges, their counts, Purdue
\* levels (_merge_chunk_conversations, run_chain_from_conversations). Several
\* steps are first-wins or last-wins; the merge keeps the order in which
\* conversations were met, so they win alike.
CutsKeepTopology ==
    stage = "built" /\ Steady =>
        \A convs \in Dissections(1, Len(capture)) : graph = Topology(convs)

\* The addresses the traffic of a MAC carries.
Carried(mac) == {merged[i].sip : i \in {k \in DOMAIN merged : merged[k].src = mac}}
                \cup {merged[i].dip : i \in {k \in DOMAIN merged : merged[k].dst = mac}}

\* A device seen by its MAC alone does not stay beside the node of an address
\* its traffic carries (_merge_l2_nodes), unless its LLDP frames announce a
\* management address no traffic carries: that address is then preferred, and
\* the frames' node stays apart from the device's.
NoDeviceTwice ==
    stage = "built" =>
        \A mac \in DOMAIN graph.nodes :
            graph.nodes[mac].ip = None =>
                \/ Carried(mac) \cap DOMAIN graph.nodes = {}
                \/ graph.nodes[mac].mgmt \notin DOMAIN graph.nodes \cup {None}

=============================================================================

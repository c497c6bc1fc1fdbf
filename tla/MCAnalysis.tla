----------------------------- MODULE MCAnalysis -----------------------------
(***************************************************************************)
(* What a scan makes of a capture, what the plugins add to its report, and *)
(* what a project makes of the reports of its scans.  The parts share no   *)
(* variable, so the run explores each of them while the others rest.       *)
(***************************************************************************)
EXTENDS PluginRules, ProjectReports, Enrichment

Packet(src, dst, sip, dip, proto, sport, dport, fn, mgmt) ==
    [src |-> src, dst |-> dst, sip |-> sip, dip |-> dip, proto |-> proto,
     sport |-> sport, dport |-> dport, fn |-> fn, mgmt |-> mgmt]

\* The engineering station m1/i1 writes to the controller m2/i2.
Write == Packet("m1", "m2", "i1", "i2", "Modbus/TCP", 50000, 502, "write", None)
Stop == Packet("m1", "m2", "i1", "i2", "S7comm", 50000, 102, "stop", None)
\* The controller calls a port of server i4 behind the router m3.
Call == Packet("m2", "m3", "i2", "i4", "TCP", 50004, 14444, None, None)

\* LLDP frames of the controller, and two web servers behind m3.
MCTraffic ==
    { Write,
      Packet("m2", "lldp", None, None, "LLDP", 0, 0, None, "i2"),
      Packet("m2", "lldp", None, None, "LLDP", 0, 0, None, "i9"),
      Packet("m1", "m3", "i1", "i3", "TCP", 50001, 80, None, None),
      Packet("m1", "m3", "i1", "i4", "TCP", 50001, 80, None, None) }
\* A probe of ports.
MCProbes ==
    { Write,
      Packet("m1", "m2", "i1", "i2", "TCP", 50002, 81, None, None),
      Packet("m1", "m2", "i1", "i2", "TCP", 50002, 82, None, None),
      Packet("m1", "m3", "i1", "i3", "TCP", 50001, 80, None, None) }
\* The controller is stopped, is given a name by a frame without addresses,
\* tells its model and offers a shell.
MCControl ==
    { Stop,
      Packet("m2", "m1", None, None, "PROFINET", 0, 0, "set", None),
      Packet("m1", "m2", "i1", "i2", "CIP", 50001, 44818, "model", None),
      Packet("m3", "m2", "i3", "i2", "TCP", 50005, 22, None, None) }
\* It asks for random names.
MCCalls ==
    { Stop, Call,
      Packet("m2", "m3", "i2", "i4", "DNS", 50003, 53, "random1", None),
      Packet("m2", "m3", "i2", "i4", "DNS", 50003, 53, "random2", None) }
\* It is answered by i4.
MCAnswers == { Stop, Call, Packet("m3", "m2", "i4", "i2", "TCP", 14444, 50004, None, None) }
\* Reads come before or after what tells something.
MCReads ==
    { Stop,
      Packet("m1", "m2", "i1", "i2", "S7comm", 50000, 102, "read", None),
      Packet("m1", "m2", "i1", "i2", "CIP", 50001, 44818, "model", None),
      Packet("m1", "m2", "i1", "i2", "CIP", 50001, 44818, "read", None) }
\* ARP: m3 announces its own address, and that of m1 unasked.
MCArp ==
    { Packet("m1", "ff", "i1", "i2", "ARP", 0, 0, None, None),
      Packet("m3", "ff", "i3", "i2", "ARP", 0, 0, None, None),
      Packet("m3", "ff", "i1", "i1", "ARP", 0, 0, None, None),
      Packet("m2", "m1", "i2", "i1", "ARP", 0, 0, None, None) }
\* The engineering station opens shares, the controller a desktop.
MCShares ==
    { Write,
      Packet("m1", "m2", "i1", "i2", "SMB", 50001, 445, None, None),
      Packet("m1", "m3", "i1", "i3", "SMB", 50001, 445, None, None),
      Packet("m2", "m3", "i2", "i3", "TCP", 50006, 3389, None, None) }
MCScenes == {MCTraffic, MCProbes, MCControl, MCCalls, MCAnswers, MCReads, MCArp, MCShares}
MCSubnets == [ip \in {"i3"} |-> 4]

MCPorts ==
    [ot |-> {502, 102, 44818}, it |-> {80, 22, 53}, itAllowed |-> {53}, files |-> {},
     servers |-> {80, 53}, auth |-> {22, 80}, cleartext |-> {}, admin |-> {22},
     periodic |-> {53}, threat |-> {1502}, high |-> 10000]
MCProtocols ==
    [controller |-> {"Modbus/TCP", "S7comm", "CIP"}, control |-> {"PROFINET"},
     engineering |-> {"Modbus/TCP", "S7comm"},
     auth |-> {"Modbus/TCP", "S7comm", "CIP"}, burst |-> {"S7comm"}]
MCFns == [program |-> {}, stop |-> {"stop"}, diagnose |-> {}, control |-> {"set"}, insecure |-> {}]
MCLimits == [writers |-> 1, writes |-> 1, scan |-> 1, burst |-> 2, names |-> 1, tunnel |-> 2,
             ratio |-> 1, upload |-> 1]
MCVendorOf == [mac \in {"m3"} |-> "cisco"]
MCIdentityOf == [fn \in {"model"} |-> [vendor |-> "siemens", product |-> "s7-300", hints |-> {}]]
MCHintsOf == [mac \in {"m1"} |-> {"workstation"}]
MCRoleOfPort == [port \in {102} |-> "Supervisory Controller"]
MCSubnetOf == [ip \in {"i1", "i2", "i3", "i4"} |-> IF ip \in {"i1", "i2"} THEN "n1" ELSE ip]
MCAdvisories == {<<"siemens", "s7-300">>}

NoPack == [on |-> <<>>, limits |-> <<>>, sets |-> <<>>, lists |-> <<>>]
MCAptPacks ==
    << [NoPack EXCEPT !.limits = SMB :> 2 @@ RDP :> 1 @@ OTRECON :> 2 @@ NEWPROTO :> 2 @@ C2BEACON :> 3,
                      !.lists = [jump_hosts |-> {"i1"}]],
       [NoPack EXCEPT !.limits = OTRECON :> 1, !.on = WINRM :> FALSE,
                      !.lists = [jump_hosts |-> {"i4"}]] >>
MCArpPacks ==
    << [NoPack EXCEPT !.limits = MANYIPS :> 1 @@ SCAN :> 1 @@ STORM :> 2,
                      !.sets = [gateway_ip |-> {"i1"}]] >>
MCFamilies ==
    SMB :> [ports |-> {445}, protocols |-> {"SMB"}] @@ RDP :> [ports |-> {3389}, protocols |-> {}]
    @@ WINRM :> [ports |-> {5985}, protocols |-> {}]
    @@ OTRECON :> [ports |-> {502, 102, 44818}, protocols |-> {"PROFINET", "CIP"}]
MCExpectedOf ==
    "PLC" :> {"Modbus/TCP", "S7comm", "CIP", "PROFINET", "DNS", "ARP", "LLDP"}
    @@ "Engineering Workstation" :> {"Modbus/TCP", "S7comm", "CIP", "SMB", "DNS", "ARP"}
MCAliasGroups == {{"siemens", "simatic"}}
MCCatalog == {[id |-> "a1", words |-> {"simatic", "s7-300"}], [id |-> "a2", words |-> {"cisco"}]}
When(categories) == [categories |-> categories, nodes |-> 0, edges |-> 0, all |-> <<>>, any |-> <<>>]
MCMitreRules ==
    << [technique |-> "t1", kind |-> "coverage", when |-> [When({}) EXCEPT !.nodes = 2, !.edges = 1]],
       [technique |-> "t2", kind |-> "classification",
        when |-> [When({}) EXCEPT !.any = <<When({SMB}), When({OTRECON, DUPLICATE})>>]],
       [technique |-> "t3", kind |-> "classification",
        when |-> [When({}) EXCEPT !.all = <<When({SMB, "PORT_SCAN_TARGET"}), When({NEWPROTO, RDP})>>]],
       [technique |-> "t3", kind |-> "classification", when |-> When({"MODBUS_WRITE_ANON", OTRECON})] >>

-----------------------------------------------------------------------------
\* Reports of a project in which mA has two addresses and i1 two owners.
N(ip, mac) == [ip |-> ip, mac |-> mac]
C(sip, smac, dip, dmac) == [sip |-> sip, smac |-> smac, dip |-> dip, dmac |-> dmac]
G(category, nodes, severity, text) ==
    [category |-> category, nodes |-> nodes, severity |-> severity, text |-> text]
R(nodes, convs, findings) == [nodes |-> nodes, convs |-> convs, findings |-> findings]

MCContents ==
    { R(<<N("i1", "mA"), N("i2", "mB")>>, <<C("i1", "mA", "i2", "mB")>>,
        <<G("c", {"i1"}, "LOW", "x")>>),
      R(<<N("i1", NoText)>>, <<C("i1", "mR", "i3", "mR")>>,
        <<G("c", {"i1"}, "LOW", "y"), G("c", {"i1"}, "HIGH", "z")>>),
      R(<<N("i4", "mA"), N("i3", "mB")>>, <<C("i3", "mB", "i4", "mA")>>,
        <<G("d", {"mA"}, "HIGH", "w")>>),
      R(<<N("i2", NoText), N("i2", "mB"), N("i1", "mA")>>, <<C("i2", "mB", "i1", "mA")>>, <<>>),
      R(<<N(NoText, "mA")>>, <<C(NoText, "mA", "i3", "mB")>>,
        <<G("c", {"i1"}, "HIGH", "x")>>),
      R(<<N("i1", "mB")>>, <<>>, <<>>) }
MCAssets == {[mac |-> "mA", ip |-> NoText], [mac |-> NoText, ip |-> "i1"]}
MCSeverities == <<"LOW", "HIGH">>

-----------------------------------------------------------------------------
MCPlugins == <<"mitre", "arp", "apt">>

AnalysisInit == RulesInit /\ ProjectInit /\ EnrichmentInit
ScanRests == stage = "idle"
ProjectRests == ProjectInit
EnrichmentRests == EnrichmentInit
AnalysisNext ==
    \/ ProjectRests /\ EnrichmentRests /\ RulesNext /\ UNCHANGED <<project, enrichment>>
    \/ ScanRests /\ EnrichmentRests /\ ProjectNext /\ UNCHANGED <<ruleVars, enrichment>>
    \/ ScanRests /\ ProjectRests /\ EnrichmentNext /\ UNCHANGED <<ruleVars, project>>
AnalysisSpec == AnalysisInit /\ [][AnalysisNext]_<<ruleVars, project, enrichment>>
=============================================================================

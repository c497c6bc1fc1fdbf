----------------------------- MODULE MCServices -----------------------------
(***************************************************************************)
(* Three services of a project that share no state: the delivery of        *)
(* tickets, the reports directory and the schedule of captures.  A         *)
(* behaviour is one of one of them.                                        *)
(***************************************************************************)
EXTENDS TicketDelivery, ReportLibrary, CaptureSchedule

VARIABLE service
allVars == <<vars, library, scheduler, service>>

MCReport == <<"refused", "a", "b", "a">>

-----------------------------------------------------------------------------
Device(ip, mac, cves) == [ip |-> ip, mac |-> mac, cves |-> cves]
Conv(sip, dip, src, dst, asked) ==
    [sip |-> sip, dip |-> dip, src |-> src, dst |-> dst, asked |-> asked]
RiskFinding(category, nodes) == [category |-> category, nodes |-> nodes]
Technique(domain, technique, score) ==
    [domain |-> domain, technique |-> technique, score |-> score]
C2(type, src, dst) ==
    [type |-> type, src |-> src, dst |-> dst, port |-> 443, smac |-> NoText, dmac |-> NoText]
\* Findings as the contract has them, and one with all that is read of it.
Malware(value, sip) ==
    [id |-> NoText, value |-> value, sip |-> sip, dip |-> NoText, sha256 |-> NoText, md5 |-> NoText]
Identified(id, value, sip) == [Malware(value, sip) EXCEPT !.id = id, !.sha256 = value]
Ioc(type, value) == [type |-> type, value |-> value]

\* The controller m1/i1 with a vulnerability, an L2 device m2 with another, and
\* what was found about them.
Vulnerable(capture, time) ==
    [capture |-> capture, time |-> time,
     nodes |-> <<Device("i1", "m1", {"c1"}), Device(NoText, "m2", {"c2"})>>,
     convs |-> <<Conv("i1", "i2", "m1", "m3", <<"www.bad">>)>>,
     findings |-> <<RiskFinding("CROSS_PURDUE", <<"i1", "i2", "i3">>),
                    RiskFinding("CISA_ICS_ADVISORY", <<"i1">>),
                    RiskFinding("CLEARTEXT_ENG", <<>>)>>,
     c2 |-> <<C2("C2_BEACONING", "i1", "i9")>>,
     malware |-> <<Malware("h2", "i1"), Identified("w1", "h1", "i1"), Malware("h3", "i3")>>,
     violations |-> <<[src |-> "i1", dst |-> "i2"]>>,
     classified |-> <<Technique("ics", "t1", 90)>>, coverage |-> <<Technique("ics", "t1", 25)>>]
\* The controller was patched and has another address; the findings persist.
Patched(capture, time) ==
    [Vulnerable(capture, time) EXCEPT
        !.nodes = <<Device("i4", "m1", {}), Device(NoText, "m2", {"c2"})>>,
        !.findings = <<RiskFinding("CROSS_PURDUE", <<"i3", "i2", "i1">>)>>,
        !.c2 = <<>>, !.malware = <<Malware("h4", "i4")>>,
        !.convs = <<Conv("i4", "i2", "m1", "m3", <<>>)>>]
\* A capture with nothing in it.
Quiet(capture, time) ==
    [Vulnerable(capture, time) EXCEPT
        !.nodes = <<>>, !.findings = <<>>, !.c2 = <<>>, !.malware = <<>>, !.convs = <<>>,
        !.violations = <<>>, !.classified = <<>>, !.coverage = <<>>]

MCNames == <<"r1", "r2", "r3">>
Saying(a, b, c) == [n \in {"r1", "r2", "r3"} |-> IF n = "r1" THEN a ELSE IF n = "r2" THEN b ELSE c]
MCAssignments ==
    { Saying(Vulnerable("p1", 1), Patched("p2", 2), Vulnerable("p1", 3)),
      Saying(Patched("p1", 2), Vulnerable("p2", 2), Quiet("p3", 1)) }
MCOuiOf == [mac \in {"m1", "m2", "m3"} |-> IF mac = "m3" THEN "o2" ELSE "o1"]
MCNamesUnder == [name \in {"bad"} |-> {"www.bad"}]
MCPastes == { <<Ioc("oui", "o1"), Ioc("ip", "i9"), Ioc("domain", "bad")>>,
              <<Ioc("sha256", "h1"), Ioc("mac", "m3"), Ioc("sha256", "h1")>> }

-----------------------------------------------------------------------------
\* A service that is not the one of the behaviour starts in one state only.
ServicesInit ==
    /\ Init /\ LibraryInit /\ ScheduleInit
    /\ service \in {"tickets", "reports", "schedule"}
    /\ service # "reports" => says = CHOOSE a \in Assignments : TRUE
    /\ service # "schedule" => clock = 0 /\ times = {}

Tickets(step) == service = "tickets" /\ step /\ UNCHANGED <<library, scheduler, service>>
ServicesNext ==
    \/ service = "tickets" /\ Next /\ UNCHANGED <<library, scheduler, service>>
    \/ service = "reports" /\ LibraryNext /\ UNCHANGED <<vars, scheduler, service>>
    \/ service = "schedule" /\ ScheduleNext /\ UNCHANGED <<vars, library, service>>
ServicesSpec == ServicesInit /\ [][ServicesNext]_allVars
                /\ \A w \in Workers : /\ WF_allVars(Tickets(Work(w)))
                                      /\ WF_allVars(Tickets(Deliver(w)))
TicketsDrain == service = "tickets" => BacklogDrains
=============================================================================

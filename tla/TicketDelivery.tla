--------------------------- MODULE TicketDelivery ---------------------------
(***************************************************************************)
(* Tickets for the findings of a project (webhook.deliver_for_scan with    *)
(* platform zammad or jira).  Every completed scan delivers from a thread  *)
(* of its own: it reads the ledger (webhook_tickets), keeps the findings   *)
(* the ledger does not have, creates a ticket for each of the first of     *)
(* them over HTTP, and records each ticket once the tracker has answered.  *)
(*                                                                         *)
(* A finding is its dedup key.  Each scan of the project reports the same  *)
(* findings: those that persist.                                           *)
(***************************************************************************)
EXTENDS Integers, Sequences, FiniteSets, SequencesExt

CONSTANTS
    Report,     \* the qualifying findings of a scan, in report order
    Workers,    \* threads that may deliver at the same time
    Cap,        \* _MAX_TICKETS_PER_DELIVERY
    Rejected,   \* findings the tracker will not take
    MaxFaults   \* bound: lost answers, failed records, stops of the process

ASSUME TicketAssumption ==
    /\ Report \in Seq(Range(Report)) /\ IsFiniteSet(Workers)
    /\ Cap \in Nat /\ MaxFaults \in Nat

Keys == Range(Report)
Places == DOMAIN Report     \* of the findings in the report
Naming(k) == {i \in Places : Report[i] = k}

VARIABLES
    at,         \* of each worker: "idle", "create", "record"
    todo,       \* of each worker: the places of the findings it still has to ticket
    ledger,     \* webhook_tickets: the keys with a recorded ticket
    tickets,    \* the tracker: how many tickets each key has
    lost,       \* how many tickets of each key were never recorded
    faults
vars == <<at, todo, ledger, tickets, lost, faults>>

TypeOK ==
    /\ at \in [Workers -> {"idle", "create", "record"}]
    /\ todo \in [Workers -> SUBSET Places]
    /\ \A w \in Workers : todo[w] = {} <=> at[w] = "idle"
    /\ ledger \subseteq Keys
    /\ tickets \in [Keys -> Nat] /\ lost \in [Keys -> Nat]
    /\ faults \in 0..MaxFaults

Init == /\ at = [w \in Workers |-> "idle"] /\ todo = [w \in Workers |-> {}]
        /\ ledger = {} /\ tickets = [k \in Keys |-> 0] /\ lost = [k \in Keys |-> 0]
        /\ faults = 0

FirstOf(places, n) == {i \in places : Cardinality({j \in places : j < i}) < n}
Unticketed(places) == {i \in places : Report[i] \notin ledger}

\* Bug: the cap comes before the findings with a ticket are left out.
NewFindingsOfFirst == Unticketed(FirstOf(Places, Cap))

\* Bug: the ledger is not asked.
NewFindingsUnasked == FirstOf(Places, Cap)

\* What a delivery that starts now will ticket.
NewFindings == FirstOf(Unticketed(Places), Cap)

\* A scan has completed: deliver_to_zammad or deliver_to_jira reads the ledger.
Deliver(w) ==
    /\ at[w] = "idle" /\ NewFindings # {}
    /\ todo' = [todo EXCEPT ![w] = NewFindings]
    /\ at' = [at EXCEPT ![w] = "create"]
    /\ UNCHANGED <<ledger, tickets, lost, faults>>

\* The worker takes its findings in report order.
Current(w) == CHOOSE i \in todo[w] : \A j \in todo[w] : i <= j
KeyAt(w) == Report[Current(w)]

\* The worker leaves its finding.
Leave(w) ==
    /\ todo' = [todo EXCEPT ![w] = @ \ {Current(w)}]
    /\ at' = [at EXCEPT ![w] = IF todo[w] = {Current(w)} THEN "idle" ELSE "create"]

\* The tracker creates a ticket and says so.
CreateTicket(w) ==
    /\ at[w] = "create" /\ KeyAt(w) \notin Rejected
    /\ tickets' = [tickets EXCEPT ![KeyAt(w)] = @ + 1]
    /\ at' = [at EXCEPT ![w] = "record"]
    /\ UNCHANGED <<todo, ledger, lost, faults>>

\* The tracker refuses the ticket: it counts as failed, and nothing is recorded.
CreateRefused(w) ==
    /\ at[w] = "create" /\ KeyAt(w) \in Rejected
    /\ Leave(w) /\ UNCHANGED <<ledger, tickets, lost, faults>>

\* The request times out, before or after the tracker has created the ticket.
CreateTimesOut(w) ==
    /\ at[w] = "create" /\ faults < MaxFaults
    /\ faults' = faults + 1
    /\ \/ UNCHANGED <<tickets, lost>>
       \/ /\ KeyAt(w) \notin Rejected
          /\ tickets' = [tickets EXCEPT ![KeyAt(w)] = @ + 1]
          /\ lost' = [lost EXCEPT ![KeyAt(w)] = @ + 1]
    /\ Leave(w) /\ UNCHANGED ledger

\* _record_ticket; a key that is already there violates the unique constraint,
\* which is caught.
RecordTicket(w) ==
    /\ at[w] = "record"
    /\ ledger' = ledger \cup {KeyAt(w)}
    /\ Leave(w) /\ UNCHANGED <<tickets, lost, faults>>

\* _record_ticket fails: the row is rolled back and the loop goes on.
RecordFails(w) ==
    /\ at[w] = "record" /\ faults < MaxFaults
    /\ faults' = faults + 1
    /\ lost' = [lost EXCEPT ![KeyAt(w)] = @ + IF KeyAt(w) \in ledger THEN 0 ELSE 1]
    /\ Leave(w) /\ UNCHANGED <<ledger, tickets>>

\* The web process stops, and its threads with it.
Stop ==
    /\ faults < MaxFaults /\ \E w \in Workers : at[w] # "idle"
    /\ faults' = faults + 1
    /\ lost' = [k \in Keys |-> lost[k] +
                  Cardinality({w \in Workers : at[w] = "record" /\ KeyAt(w) = k})]
    /\ at' = [w \in Workers |-> "idle"] /\ todo' = [w \in Workers |-> {}]
    /\ UNCHANGED <<ledger, tickets>>

Work(w) == \/ CreateTicket(w) \/ CreateRefused(w) \/ CreateTimesOut(w)
           \/ RecordTicket(w) \/ RecordFails(w)
Next == Stop \/ \E w \in Workers : Deliver(w) \/ Work(w)
Spec == Init /\ [][Next]_vars

\* A thread runs until it is done, and scans of the project keep completing.
FairSpec == Spec /\ \A w \in Workers : WF_vars(Work(w)) /\ WF_vars(Deliver(w))

-----------------------------------------------------------------------------
(* Properties.                                                             *)

\* "A finding that persists across many scans must not spawn a new external
\* ticket on every single completion" (models.py:115): however many scans
\* complete, a finding gets at most one recorded ticket per delivery that can
\* run at the same time and per time one report names it, plus the tickets
\* whose record was lost.
TicketsAreBounded ==
    \A k \in Keys :
        tickets[k] - lost[k] <= Cardinality(Workers) * Cardinality(Naming(k))

\* The cap leaves the rest to the scans that follow (webhook.py:418).  They do
\* get to it as long as fewer findings are refused than the cap lets through:
\* what has a ticket, or comes later in the report, takes no one's place.
BacklogDrains ==
    Cardinality({i \in Places : Report[i] \in Rejected}) < Cap
        => \A k \in Keys \ Rejected : <>(k \in ledger)

=============================================================================

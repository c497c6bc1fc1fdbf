---------------------------- MODULE TicketProofs ----------------------------
(* Proofs about TicketDelivery, for any report, cap and number of threads.   *)
EXTENDS TicketDelivery, FiniteSetTheorems, WellFoundedInduction, TLAPS

-----------------------------------------------------------------------------
(* The finding a worker is at. *)

\* A set of numbers has a least one.
LEMMA HasLeast ==
    ASSUME NEW S \in SUBSET Nat, S # {}
    PROVE  \E i \in S : \A j \in S : i <= j
<1> DEFINE R == OpToRel(<, Nat)
<1>1. IsWellFoundedOn(R, Nat)
  BY NatLessThanWellFounded, Zenon
<1>2. \A i, j \in Nat : i < j => <<i, j>> \in R
  BY Zenon DEF OpToRel
<1> HIDE DEF R
<1>3. PICK i \in S : \A j \in S : <<j, i>> \notin R
  BY <1>1, WFMin
<1>4. \A j \in S : ~(j < i)
  BY <1>2, <1>3
<1> QED
  BY <1>4

\* The findings of a report are finitely many, each at a place of its own.
LEMMA PlacesAreFinite ==
    /\ Places \subseteq Nat /\ IsFiniteSet(Places) /\ \A i \in Places : Report[i] \in Keys
    /\ \A k \in Keys : IsFiniteSet(Naming(k)) /\ Cardinality(Naming(k)) \in Nat
    /\ IsFiniteSet(Workers) /\ Cardinality(Workers) \in Nat
<1>1. /\ Report \in [1..Len(Report) -> Range(Report)] /\ Len(Report) \in Nat
      /\ IsFiniteSet(Workers)
  BY TicketAssumption
<1>2. Places = 1..Len(Report)
  BY <1>1 DEF Places
<1>3. IsFiniteSet(Places)
  BY <1>1, <1>2, FS_Interval
<1>4. \A k \in Keys : Naming(k) \subseteq Places
  BY DEF Naming
<1>5. \A k \in Keys : IsFiniteSet(Naming(k)) /\ Cardinality(Naming(k)) \in Nat
  BY <1>3, <1>4, FS_Subset, FS_CardinalityType
<1> QED
  BY <1>1, <1>2, <1>3, <1>5, FS_CardinalityType DEF Keys

\* A worker that has findings left is at one of them.
LEMMA CurrentIsTodo ==
    ASSUME NEW w \in Workers, todo[w] \in SUBSET Places, todo[w] # {}
    PROVE  Current(w) \in todo[w] /\ KeyAt(w) \in Keys
<1>1. \E i \in todo[w] : \A j \in todo[w] : i <= j
  BY HasLeast, PlacesAreFinite
<1>2. Current(w) \in todo[w]
  BY <1>1 DEF Current
<1> QED
  BY <1>2, PlacesAreFinite DEF KeyAt

-----------------------------------------------------------------------------
(* Types. *)

\* A new delivery has places of the report.
LEMMA NewFindingsArePlaces ==
    NewFindings \subseteq Places /\ \A i \in NewFindings : Report[i] \notin ledger
BY DEF NewFindings, FirstOf, Unticketed

\* Every step keeps the types.
LEMMA TypeStep == TypeOK /\ [Next]_vars => TypeOK'
<1> SUFFICES ASSUME TypeOK, [Next]_vars PROVE TypeOK'
  OBVIOUS
<1> USE DEF TypeOK
<1>1. ASSUME NEW w \in Workers, at[w] # "idle"
      PROVE  /\ todo[w] \in SUBSET Places /\ Current(w) \in todo[w] /\ KeyAt(w) \in Keys
             /\ todo[w] \ {Current(w)} = {} <=> todo[w] = {Current(w)}
  BY <1>1, CurrentIsTodo
<1>2. ASSUME NEW w \in Workers, at[w] # "idle", Leave(w)
      PROVE  /\ at' \in [Workers -> {"idle", "create", "record"}]
             /\ todo' \in [Workers -> SUBSET Places]
             /\ \A v \in Workers : todo'[v] = {} <=> at'[v] = "idle"
  <2>1. /\ at' \in [Workers -> {"idle", "create", "record"}]
        /\ todo' \in [Workers -> SUBSET Places]
    BY <1>2 DEF Leave
  <2>2. ASSUME NEW v \in Workers PROVE todo'[v] = {} <=> at'[v] = "idle"
    <3>1. v = w => /\ todo'[v] = todo[v] \ {Current(w)}
                   /\ at'[v] = IF todo[w] = {Current(w)} THEN "idle" ELSE "create"
      BY <1>2 DEF Leave
    <3>2. v # w => todo'[v] = todo[v] /\ at'[v] = at[v]
      BY <1>2 DEF Leave
    <3> QED
      BY <1>1, <1>2, <3>1, <3>2
  <2> QED
    BY <2>1, <2>2
<1>3. ASSUME NEW w \in Workers, Deliver(w) PROVE TypeOK'
  BY <1>3, NewFindingsArePlaces DEF Deliver
<1>4. ASSUME NEW w \in Workers, CreateTicket(w) PROVE TypeOK'
  BY <1>1, <1>4 DEF CreateTicket
<1>5. ASSUME NEW w \in Workers, CreateRefused(w) PROVE TypeOK'
  BY <1>2, <1>5 DEF CreateRefused
<1>6. ASSUME NEW w \in Workers, CreateTimesOut(w) PROVE TypeOK'
  <2>1. KeyAt(w) \in Keys /\ faults' \in 0..MaxFaults
    BY <1>1, <1>6, TicketAssumption DEF CreateTimesOut
  <2>2. tickets' \in [Keys -> Nat] /\ lost' \in [Keys -> Nat]
    BY <1>6, <2>1 DEF CreateTimesOut
  <2> QED
    BY <1>2, <1>6, <2>1, <2>2 DEF CreateTimesOut
<1>7. ASSUME NEW w \in Workers, RecordTicket(w) PROVE TypeOK'
  BY <1>1, <1>2, <1>7 DEF RecordTicket
<1>8. ASSUME NEW w \in Workers, RecordFails(w) PROVE TypeOK'
  <2>1. KeyAt(w) \in Keys /\ faults' \in 0..MaxFaults
    BY <1>1, <1>8, TicketAssumption DEF RecordFails
  <2>2. lost' \in [Keys -> Nat]
    BY <1>8, <2>1 DEF RecordFails
  <2> QED
    BY <1>2, <1>8, <2>1, <2>2 DEF RecordFails
<1>9. CASE Stop
  <2>1. faults' \in 0..MaxFaults
    BY <1>9, TicketAssumption DEF Stop
  <2>2. \A k \in Keys : Cardinality({w \in Workers : at[w] = "record" /\ KeyAt(w) = k}) \in Nat
    BY TicketAssumption, FS_Subset, FS_CardinalityType
  <2>3. lost' \in [Keys -> Nat]
    BY <1>9, <2>2 DEF Stop
  <2> QED
    BY <1>9, <2>1, <2>3 DEF Stop
<1> QED
  BY <1>3, <1>4, <1>5, <1>6, <1>7, <1>8, <1>9 DEF Next, Work, vars

\* Threads, their findings and the tracker's counts keep their types; a thread
\* is idle exactly when it has no finding left.
THEOREM TicketTypes == Spec => []TypeOK
<1>1. Init => TypeOK
  BY TicketAssumption DEF Init, TypeOK
<1> QED
  BY <1>1, TypeStep, PTL DEF Spec

-----------------------------------------------------------------------------
(* Who is going to ticket a finding. *)

Pairs == Workers \X Places

\* The threads that have a ticket for k and have not recorded it.
Held(k) ==
    {p \in Pairs : at[p[1]] = "record" /\ p[2] = Current(p[1]) /\ Report[p[2]] = k}

\* The tickets for k that running deliveries may still create.
Pending(k) ==
    {p \in Pairs : /\ p[2] \in todo[p[1]] /\ Report[p[2]] = k
                   /\ ~(at[p[1]] = "record" /\ p[2] = Current(p[1]))}

\* Until a ticket is recorded, every ticket that is not lost is held by a thread;
\* from then on no delivery takes the finding up, and the tickets that are there
\* and those to come are within the bound.
CountedOf(k) ==
    IF k \in ledger
    THEN tickets[k] - lost[k] + Cardinality(Pending(k))
            <= Cardinality(Workers) * Cardinality(Naming(k))
    ELSE tickets[k] - lost[k] = Cardinality(Held(k))
Counted == \A k \in Keys : CountedOf(k)

\* What is held and what is pending are different tickets, at most one for each
\* thread and place.
LEMMA TicketsFit ==
    ASSUME NEW k \in Keys
    PROVE  /\ IsFiniteSet(Held(k)) /\ IsFiniteSet(Pending(k))
           /\ Cardinality(Held(k)) \in Nat /\ Cardinality(Pending(k)) \in Nat
           /\ Cardinality(Workers) * Cardinality(Naming(k)) \in Nat
           /\ Cardinality(Held(k)) + Cardinality(Pending(k))
                <= Cardinality(Workers) * Cardinality(Naming(k))
<1> DEFINE All == Workers \X Naming(k)
<1>1. /\ IsFiniteSet(All) /\ Cardinality(All) = Cardinality(Workers) * Cardinality(Naming(k))
      /\ Cardinality(All) \in Nat
  BY PlacesAreFinite, FS_Product, FS_CardinalityType
<1>2. /\ Held(k) \subseteq All /\ Pending(k) \subseteq All /\ Held(k) \cap Pending(k) = {}
      /\ Held(k) \cup Pending(k) \subseteq All
  BY DEF Held, Pending, Pairs, Naming
<1> HIDE DEF All
<1>3. /\ IsFiniteSet(Held(k)) /\ IsFiniteSet(Pending(k))
      /\ Cardinality(Held(k)) \in Nat /\ Cardinality(Pending(k)) \in Nat
  BY <1>1, <1>2, FS_Subset, FS_CardinalityType
<1>4. Cardinality(Held(k) \cup Pending(k)) = Cardinality(Held(k)) + Cardinality(Pending(k))
  <2>1. Cardinality(Held(k) \cup Pending(k))
          = Cardinality(Held(k)) + Cardinality(Pending(k)) - Cardinality(Held(k) \cap Pending(k))
    BY <1>3, FS_Union
  <2>2. Cardinality(Held(k) \cap Pending(k)) = 0
    BY <1>2, FS_EmptySet
  <2> QED
    BY <1>3, <2>1, <2>2
<1>5. Cardinality(Held(k) \cup Pending(k)) <= Cardinality(All)
  BY <1>1, <1>2, FS_Subset
<1> QED
  BY <1>1, <1>3, <1>4, <1>5

\* A step of one thread leaves the tickets of the others alone.
LEMMA OthersKeepTheirs ==
    ASSUME NEW k \in Keys, NEW w \in Workers, NEW p \in Pairs, p[1] # w,
           \A v \in Workers \ {w} : at'[v] = at[v] /\ todo'[v] = todo[v]
    PROVE  (p \in Held(k)' <=> p \in Held(k)) /\ (p \in Pending(k)' <=> p \in Pending(k))
<1>1. p[1] \in Workers \ {w}
  BY DEF Pairs
<1>2. PICK v \in Workers \ {w} : v = p[1]
  BY <1>1
<1>3. at'[v] = at[v] /\ todo'[v] = todo[v]
  BY <1>2
<1>4. Current(v)' = Current(v)
  BY <1>3 DEF Current
<1>5. p \in Held(k)' <=> at'[v] = "record" /\ p[2] = Current(v)' /\ Report[p[2]] = k
  BY <1>2 DEF Held, Pairs
<1>6. p \in Pending(k)' <=> /\ p[2] \in todo'[v] /\ Report[p[2]] = k
                            /\ ~(at'[v] = "record" /\ p[2] = Current(v)')
  BY <1>2 DEF Pending, Pairs
<1> QED
  BY <1>2, <1>3, <1>4, <1>5, <1>6 DEF Held, Pending

\* The tickets of one thread, by its findings.
LEMMA TicketsOf ==
    ASSUME NEW k \in Keys, NEW w \in Workers, NEW i \in Places
    PROVE  /\ <<w, i>> \in Held(k) <=> at[w] = "record" /\ i = Current(w) /\ Report[i] = k
           /\ <<w, i>> \in Pending(k) <=> /\ i \in todo[w] /\ Report[i] = k
                                          /\ ~(at[w] = "record" /\ i = Current(w))
BY DEF Held, Pending, Pairs

\* ... and after a step.
LEMMA TicketsOfNext ==
    ASSUME NEW k \in Keys, NEW w \in Workers, NEW i \in Places
    PROVE  /\ <<w, i>> \in Held(k)' <=> at'[w] = "record" /\ i = Current(w)' /\ Report[i] = k
           /\ <<w, i>> \in Pending(k)' <=> /\ i \in todo'[w] /\ Report[i] = k
                                           /\ ~(at'[w] = "record" /\ i = Current(w)')
BY DEF Held, Pending, Pairs

\* It is enough to compare the tickets of one thread.
LEMMA ByThread ==
    ASSUME NEW w \in Workers, NEW S \in SUBSET Pairs, NEW T \in SUBSET Pairs,
           \A p \in Pairs : p[1] # w => (p \in S <=> p \in T),
           \A i \in Places : <<w, i>> \in S <=> <<w, i>> \in T
    PROVE  S = T
<1>1. ASSUME NEW p \in Pairs PROVE p \in S <=> p \in T
  <2>1. p = <<p[1], p[2]>> /\ p[2] \in Places
    BY DEF Pairs
  <2> QED
    BY <2>1
<1> QED
  BY <1>1

\* The tickets after a step of thread w: the others keep theirs.
LEMMA HeldNext ==
    ASSUME NEW k \in Keys, NEW w \in Workers, NEW T \in SUBSET Pairs,
           \A v \in Workers \ {w} : at'[v] = at[v] /\ todo'[v] = todo[v],
           \A p \in Pairs : p[1] # w => (p \in Held(k) <=> p \in T),
           \A i \in Places : (at'[w] = "record" /\ i = Current(w)' /\ Report[i] = k) <=> <<w, i>> \in T
    PROVE  Held(k)' = T
<1>1. Held(k)' \in SUBSET Pairs
  BY DEF Held, Pairs
<1>2. \A p \in Pairs : p[1] # w => (p \in Held(k)' <=> p \in T)
  BY OthersKeepTheirs
<1>3. \A i \in Places : <<w, i>> \in Held(k)' <=> <<w, i>> \in T
  BY TicketsOfNext
<1> QED
  BY <1>1, <1>2, <1>3, ByThread

\* ... and the tickets it may still create.
LEMMA PendingNext ==
    ASSUME NEW k \in Keys, NEW w \in Workers, NEW T \in SUBSET Pairs,
           \A v \in Workers \ {w} : at'[v] = at[v] /\ todo'[v] = todo[v],
           \A p \in Pairs : p[1] # w => (p \in Pending(k) <=> p \in T),
           \A i \in Places : <<w, i>> \in T <=>
                /\ i \in todo'[w] /\ Report[i] = k
                /\ ~(at'[w] = "record" /\ i = Current(w)')
    PROVE  Pending(k)' = T
<1>1. Pending(k)' \in SUBSET Pairs
  BY DEF Pending, Pairs
<1>2. \A p \in Pairs : p[1] # w => (p \in Pending(k)' <=> p \in T)
  BY OthersKeepTheirs
<1>3. \A i \in Places : <<w, i>> \in Pending(k)' <=> <<w, i>> \in T
  BY TicketsOfNext
<1> QED
  BY <1>1, <1>2, <1>3, ByThread

\* A delivery takes up no finding that the table has.
LEMMA TicketsAtDelivery ==
    ASSUME TypeOK, NEW w \in Workers, Deliver(w), NEW k \in Keys
    PROVE  Held(k)' = Held(k) /\ (k \in ledger => Pending(k)' = Pending(k))
<1>1. /\ at[w] = "idle" /\ todo[w] = {} /\ at'[w] = "create" /\ todo'[w] = NewFindings
      /\ \A v \in Workers \ {w} : at'[v] = at[v] /\ todo'[v] = todo[v]
  BY DEF TypeOK, Deliver
<1>2. Held(k) \in SUBSET Pairs /\ Pending(k) \in SUBSET Pairs
  BY DEF Held, Pending
<1>3. Held(k)' = Held(k)
  BY <1>1, <1>2, HeldNext, TicketsOf
<1>4. ASSUME k \in ledger PROVE Pending(k)' = Pending(k)
  <2>1. \A i \in Places : i \in todo'[w] => Report[i] # k
    BY <1>1, <1>4, NewFindingsArePlaces
  <2>2. \A i \in Places : <<w, i>> \notin Pending(k)
    BY <1>1, TicketsOf
  <2>3. \A i \in Places : <<w, i>> \in Pending(k) <=>
            /\ i \in todo'[w] /\ Report[i] = k
            /\ ~(at'[w] = "record" /\ i = Current(w)')
    BY <2>1, <2>2
  <2>4. \A p \in Pairs : p[1] # w => (p \in Pending(k) <=> p \in Pending(k))
    OBVIOUS
  <2> QED
    BY <1>1, <1>2, <2>3, <2>4, PendingNext
<1> QED
  BY <1>3, <1>4

\* A ticket that is created is held, and no longer to come.
LEMMA TicketsAtCreation ==
    ASSUME TypeOK, NEW w \in Workers, CreateTicket(w), NEW k \in Keys,
           NEW c \in Places, c = Current(w)
    PROVE  /\ Report[c] # k => Held(k)' = Held(k) /\ Pending(k)' = Pending(k)
           /\ Report[c] = k => /\ <<w, c>> \notin Held(k) /\ <<w, c>> \in Pending(k)
                               /\ Held(k)' = Held(k) \cup {<<w, c>>}
                               /\ Pending(k)' = Pending(k) \ {<<w, c>>}
<1>1. /\ at[w] = "create" /\ todo[w] # {} /\ at'[w] = "record" /\ todo'[w] = todo[w]
      /\ \A v \in Workers \ {w} : at'[v] = at[v] /\ todo'[v] = todo[v]
  BY DEF TypeOK, CreateTicket
<1>2. Current(w)' = c /\ c \in todo[w]
  <2>1. Current(w)' = Current(w)
    BY <1>1 DEF Current
  <2> QED
    BY <1>1, <2>1, CurrentIsTodo DEF TypeOK
<1>3. Held(k) \in SUBSET Pairs /\ Pending(k) \in SUBSET Pairs /\ <<w, c>> \in Pairs
  BY DEF Held, Pending, Pairs
<1>4. \A p \in Pairs : p[1] # w => p # <<w, c>>
  OBVIOUS
<1>5. \A i \in Places : <<w, i>> = <<w, c>> <=> i = c
  OBVIOUS
<1>6. CASE Report[c] # k
  <2>1. Held(k)' = Held(k)
    BY <1>1, <1>2, <1>3, <1>6, HeldNext, TicketsOf
  <2>2. Pending(k)' = Pending(k)
    BY <1>1, <1>2, <1>3, <1>6, PendingNext, TicketsOf
  <2> QED
    BY <1>6, <2>1, <2>2
<1>7. CASE Report[c] = k
  <2>1. <<w, c>> \notin Held(k) /\ <<w, c>> \in Pending(k)
    BY <1>1, <1>2, <1>7, TicketsOf
  <2> DEFINE H == Held(k) \cup {<<w, c>>}
             P == Pending(k) \ {<<w, c>>}
  <2>2. /\ H \in SUBSET Pairs /\ P \in SUBSET Pairs
        /\ \A p \in Pairs : p[1] # w => (p \in Held(k) <=> p \in H)
        /\ \A p \in Pairs : p[1] # w => (p \in Pending(k) <=> p \in P)
    <3>1. H \in SUBSET Pairs /\ P \in SUBSET Pairs
      BY <1>3
    <3>2. \A p \in Pairs : p[1] # w => (p \in Held(k) <=> p \in H)
      BY <1>4
    <3>3. \A p \in Pairs : p[1] # w => (p \in Pending(k) <=> p \in P)
      BY <1>4
    <3> QED
      BY <3>1, <3>2, <3>3
  <2>3. \A i \in Places : <<w, i>> \in H <=> i = c
    BY <1>1, <1>5, TicketsOf
  <2>4. \A i \in Places : <<w, i>> \in P <=> i \in todo[w] /\ Report[i] = k /\ i # c
    BY <1>1, <1>5, TicketsOf
  <2> HIDE DEF H, P
  <2>5. Held(k)' = H
    BY <1>1, <1>2, <1>7, <2>2, <2>3, HeldNext
  <2>6. Pending(k)' = P
    <3>1. \A i \in Places : <<w, i>> \in P <=>
            /\ i \in todo'[w] /\ Report[i] = k
            /\ ~(at'[w] = "record" /\ i = Current(w)')
      BY <1>1, <1>2, <2>4
    <3> QED
      BY <1>1, <2>2, <3>1, PendingNext
  <2> QED
    BY <1>7, <2>1, <2>5, <2>6 DEF H, P
<1> QED
  BY <1>6, <1>7

\* A finding that is left without a ticket.
LEMMA TicketsAtFailure ==
    ASSUME TypeOK, NEW w \in Workers, Leave(w), at[w] = "create", NEW k \in Keys
    PROVE  Held(k)' = Held(k) /\ Pending(k)' \subseteq Pending(k)
<1>1. /\ todo[w] # {} /\ at'[w] # "record" /\ todo'[w] = todo[w] \ {Current(w)}
      /\ \A v \in Workers \ {w} : at'[v] = at[v] /\ todo'[v] = todo[v]
  BY DEF TypeOK, Leave
<1>2. Held(k) \in SUBSET Pairs /\ Pending(k)' \in SUBSET Pairs
  BY DEF Held, Pending, Pairs
<1>3. Held(k)' = Held(k)
  <2> DEFINE H == Held(k)
  <2>1. H \in SUBSET Pairs /\ \A p \in Pairs : p \in Held(k) <=> p \in H
    BY <1>2
  <2>2. \A i \in Places : <<w, i>> \notin H
    BY TicketsOf
  <2> HIDE DEF H
  <2>3. Held(k)' = H
    BY <1>1, <2>1, <2>2, HeldNext
  <2> QED
    BY <2>3 DEF H
<1>4. ASSUME NEW p \in Pairs, p \in Pending(k)' PROVE p \in Pending(k)
  <2>1. CASE p[1] # w
    BY <1>1, <1>4, <2>1, OthersKeepTheirs
  <2>2. CASE p[1] = w
    <3>1. p = <<w, p[2]>> /\ p[2] \in Places
      BY <2>2 DEF Pairs
    <3>2. p[2] \in todo'[w] /\ Report[p[2]] = k
      BY <1>4, <3>1, TicketsOfNext
    <3> QED
      BY <1>1, <3>1, <3>2, TicketsOf
  <2> QED
    BY <2>1, <2>2
<1> QED
  BY <1>2, <1>3, <1>4

\* A ticket is recorded, or its record fails: it is not held any more.
LEMMA TicketsAtRecord ==
    ASSUME TypeOK, NEW w \in Workers, Leave(w), at[w] = "record", NEW k \in Keys,
           NEW c \in Places, c = Current(w)
    PROVE  /\ Pending(k)' = Pending(k)
           /\ Report[c] # k => Held(k)' = Held(k)
           /\ Report[c] = k => <<w, c>> \in Held(k) /\ Held(k)' = Held(k) \ {<<w, c>>}
<1>1. /\ at'[w] # "record" /\ todo'[w] = todo[w] \ {c}
      /\ \A v \in Workers \ {w} : at'[v] = at[v] /\ todo'[v] = todo[v]
  BY DEF TypeOK, Leave
<1>2. Held(k) \in SUBSET Pairs /\ Pending(k) \in SUBSET Pairs
  BY DEF Held, Pending
<1>3. \A i \in Places : <<w, i>> = <<w, c>> <=> i = c
  OBVIOUS
<1>4. Pending(k)' = Pending(k)
  BY <1>1, <1>2, PendingNext, TicketsOf
<1>5. Report[c] # k => Held(k)' = Held(k)
  BY <1>1, <1>2, HeldNext, TicketsOf
<1>6. ASSUME Report[c] = k PROVE <<w, c>> \in Held(k) /\ Held(k)' = Held(k) \ {<<w, c>>}
  <2> DEFINE H == Held(k) \ {<<w, c>>}
  <2>1. <<w, c>> \in Held(k)
    BY <1>6, TicketsOf
  <2>2. H \in SUBSET Pairs /\ \A p \in Pairs : p[1] # w => (p \in Held(k) <=> p \in H)
    BY <1>2
  <2>3. \A i \in Places : <<w, i>> \notin H
    BY <1>3, TicketsOf
  <2> HIDE DEF H
  <2>4. Held(k)' = H
    BY <1>1, <2>2, <2>3, HeldNext
  <2> QED
    BY <2>1, <2>4 DEF H
<1> QED
  BY <1>4, <1>5, <1>6

-----------------------------------------------------------------------------
(* The bound. *)

\* The process stops: what was held is lost.
LEMMA CountedAtStop ==
    ASSUME TypeOK, Counted, Stop, NEW k \in Keys
    PROVE  CountedOf(k)'
<1> DEFINE W == {w \in Workers : at[w] = "record" /\ KeyAt(w) = k}
<1>1. Held(k)' = {} /\ Pending(k)' = {}
  BY DEF Stop, Held, Pending, Pairs
<1>2. Cardinality(W) = Cardinality(Held(k))
  <2> DEFINE f == [w \in W |-> <<w, Current(w)>>]
  <2>1. IsFiniteSet(W)
    BY PlacesAreFinite, FS_Subset
  <2>2. \A w \in W : <<w, Current(w)>> \in Held(k)
    <3> SUFFICES ASSUME NEW w \in Workers, at[w] = "record", KeyAt(w) = k
                 PROVE  <<w, Current(w)>> \in Held(k)
      OBVIOUS
    <3>1. Current(w) \in Places
      BY CurrentIsTodo DEF TypeOK
    <3> QED
      BY <3>1 DEF Held, Pairs, KeyAt
  <2>3. \A p \in Held(k) : p[1] \in W /\ p = <<p[1], Current(p[1])>>
    BY DEF Held, Pairs, KeyAt
  <2> HIDE DEF W
  <2>4. f \in Bijection(W, Held(k))
    <3>1. f \in [W -> Held(k)]
      BY <2>2
    <3>2. \A a, b \in W : f[a] = f[b] => a = b
      OBVIOUS
    <3>3. \A p \in Held(k) : \E a \in W : f[a] = p
      BY <2>3
    <3> QED
      BY <3>1, <3>2, <3>3 DEF Bijection, Injection, Surjection, IsInjective
  <2> QED
    BY <2>1, <2>4, FS_Bijection DEF ExistsBijection
<1>3. ledger' = ledger /\ tickets'[k] = tickets[k] /\ lost'[k] = lost[k] + Cardinality(W)
  BY DEF Stop
<1>4. Cardinality(Held(k)') = 0 /\ Cardinality(Pending(k)') = 0
  BY <1>1, FS_EmptySet
<1>5. /\ tickets[k] \in Nat /\ lost[k] \in Nat /\ Cardinality(Held(k)) \in Nat
      /\ Cardinality(Pending(k)) \in Nat /\ Cardinality(Workers) * Cardinality(Naming(k)) \in Nat
  BY TicketsFit DEF TypeOK
<1> HIDE DEF W
<1>6. CASE k \in ledger
  <2>1. tickets[k] - lost[k] + Cardinality(Pending(k)) <= Cardinality(Workers) * Cardinality(Naming(k))
    BY <1>6 DEF Counted, CountedOf
  <2>2. tickets'[k] - lost'[k] + Cardinality(Pending(k)') <= Cardinality(Workers) * Cardinality(Naming(k))
    BY <1>2, <1>3, <1>4, <1>5, <2>1
  <2> QED
    BY <1>3, <1>6, <2>2 DEF CountedOf
<1>7. CASE k \notin ledger
  <2>1. tickets[k] - lost[k] = Cardinality(Held(k))
    BY <1>7 DEF Counted, CountedOf
  <2>2. tickets'[k] - lost'[k] = Cardinality(Held(k)')
    BY <1>2, <1>3, <1>4, <1>5, <2>1
  <2> QED
    BY <1>3, <1>7, <2>2 DEF CountedOf
<1> QED
  BY <1>6, <1>7

\* A step that only drops findings, or loses no ticket it does not count.
LEMMA CountedByLess ==
    ASSUME TypeOK, Counted, NEW k \in Keys, ledger' = ledger,
           Held(k)' = Held(k), k \in ledger => Pending(k)' \subseteq Pending(k),
           tickets'[k] - lost'[k] = tickets[k] - lost[k], tickets'[k] \in Nat, lost'[k] \in Nat
    PROVE  CountedOf(k)'
<1>1. /\ tickets[k] \in Nat /\ lost[k] \in Nat /\ Cardinality(Pending(k)) \in Nat
      /\ Cardinality(Workers) * Cardinality(Naming(k)) \in Nat /\ IsFiniteSet(Pending(k))
  BY TicketsFit DEF TypeOK
<1>2. CASE k \notin ledger
  BY <1>2 DEF Counted, CountedOf
<1>3. CASE k \in ledger
  <2>1. PICK P \in SUBSET Pending(k) : P = Pending(k)'
    BY <1>3
  <2>2. Cardinality(P) <= Cardinality(Pending(k)) /\ Cardinality(P) \in Nat
    BY <1>1, FS_Subset, FS_CardinalityType
  <2>3. tickets[k] - lost[k] + Cardinality(Pending(k)) <= Cardinality(Workers) * Cardinality(Naming(k))
    BY <1>3 DEF Counted, CountedOf
  <2>4. tickets'[k] - lost'[k] + Cardinality(P) <= Cardinality(Workers) * Cardinality(Naming(k))
    BY <1>1, <2>2, <2>3
  <2> QED
    BY <1>3, <2>1, <2>4 DEF CountedOf
<1> QED
  BY <1>2, <1>3

\* The tracker creates a ticket.
LEMMA CountedAtCreation ==
    ASSUME TypeOK, Counted, NEW w \in Workers, CreateTicket(w), NEW k \in Keys
    PROVE  CountedOf(k)'
<1>1. PICK c \in Places : c = Current(w)
  BY CurrentIsTodo DEF TypeOK, CreateTicket
<1>2. /\ ledger' = ledger /\ lost' = lost
      /\ tickets' = [tickets EXCEPT ![Report[c]] = tickets[Report[c]] + 1]
  BY <1>1 DEF CreateTicket, KeyAt
<1>3. /\ tickets[k] \in Nat /\ lost[k] \in Nat /\ tickets \in [Keys -> Nat]
      /\ IsFiniteSet(Held(k)) /\ IsFiniteSet(Pending(k))
      /\ Cardinality(Held(k)) \in Nat /\ Cardinality(Pending(k)) \in Nat
      /\ Cardinality(Workers) * Cardinality(Naming(k)) \in Nat
  BY TicketsFit DEF TypeOK
<1>4. CASE Report[c] # k
  <2>1. Held(k)' = Held(k) /\ Pending(k)' = Pending(k)
    BY <1>1, <1>4, TicketsAtCreation
  <2>2. tickets'[k] = tickets[k] /\ lost'[k] = lost[k]
    BY <1>2, <1>3, <1>4
  <2> QED
    BY <1>2, <1>3, <2>1, <2>2, CountedByLess
<1>5. CASE Report[c] = k
  <2>1. /\ <<w, c>> \notin Held(k) /\ <<w, c>> \in Pending(k)
        /\ Held(k)' = Held(k) \cup {<<w, c>>} /\ Pending(k)' = Pending(k) \ {<<w, c>>}
    BY <1>1, <1>5, TicketsAtCreation
  <2>2. /\ Cardinality(Held(k)') = Cardinality(Held(k)) + 1
        /\ Cardinality(Pending(k)') = Cardinality(Pending(k)) - 1
    <3>1. Cardinality(Held(k) \cup {<<w, c>>}) = Cardinality(Held(k)) + 1
      BY <1>3, <2>1, FS_AddElement
    <3>2. Cardinality(Pending(k) \ {<<w, c>>}) = Cardinality(Pending(k)) - 1
      BY <1>3, <2>1, FS_RemoveElement
    <3> QED
      BY <2>1, <3>1, <3>2
  <2>3. tickets'[k] = tickets[k] + 1 /\ lost'[k] = lost[k]
    BY <1>2, <1>3, <1>5
  <2>4. CASE k \in ledger
    <3>1. tickets[k] - lost[k] + Cardinality(Pending(k)) <= Cardinality(Workers) * Cardinality(Naming(k))
      BY <2>4 DEF Counted, CountedOf
    <3>2. tickets'[k] - lost'[k] + Cardinality(Pending(k)') <= Cardinality(Workers) * Cardinality(Naming(k))
      BY <1>3, <2>2, <2>3, <3>1
    <3> QED
      BY <1>2, <2>4, <3>2 DEF CountedOf
  <2>5. CASE k \notin ledger
    <3>1. tickets[k] - lost[k] = Cardinality(Held(k))
      BY <2>5 DEF Counted, CountedOf
    <3>2. tickets'[k] - lost'[k] = Cardinality(Held(k)')
      BY <1>3, <2>2, <2>3, <3>1
    <3> QED
      BY <1>2, <2>5, <3>2 DEF CountedOf
  <2> QED
    BY <2>4, <2>5
<1> QED
  BY <1>4, <1>5

\* A ticket is recorded: with the first record of a finding, all tickets for it
\* that are held or may still come are within the bound.
LEMMA CountedAtRecord ==
    ASSUME TypeOK, Counted, NEW w \in Workers, RecordTicket(w), NEW k \in Keys
    PROVE  CountedOf(k)'
<1>1. PICK c \in Places : c = Current(w)
  BY CurrentIsTodo DEF TypeOK, RecordTicket
<1>2. /\ Leave(w) /\ at[w] = "record" /\ tickets' = tickets /\ lost' = lost
      /\ ledger' = ledger \cup {Report[c]}
  BY <1>1 DEF RecordTicket, KeyAt
<1>3. /\ Pending(k)' = Pending(k)
      /\ Report[c] # k => Held(k)' = Held(k)
  BY <1>1, <1>2, TicketsAtRecord
<1>4. /\ tickets[k] \in Nat /\ lost[k] \in Nat
      /\ Cardinality(Held(k)) \in Nat /\ Cardinality(Pending(k)) \in Nat
      /\ Cardinality(Workers) * Cardinality(Naming(k)) \in Nat
      /\ Cardinality(Held(k)) + Cardinality(Pending(k)) <= Cardinality(Workers) * Cardinality(Naming(k))
  BY TicketsFit DEF TypeOK
<1>5. CASE k \in ledger'
  <2>1. tickets[k] - lost[k] + Cardinality(Pending(k)) <= Cardinality(Workers) * Cardinality(Naming(k))
    <3>1. CASE k \in ledger
      BY <3>1 DEF Counted, CountedOf
    <3>2. CASE k \notin ledger
      <4>1. tickets[k] - lost[k] = Cardinality(Held(k))
        BY <3>2 DEF Counted, CountedOf
      <4> QED
        BY <1>4, <4>1
    <3> QED
      BY <3>1, <3>2
  <2> QED
    BY <1>2, <1>3, <1>5, <2>1 DEF CountedOf
<1>6. CASE k \notin ledger'
  <2>1. k \notin ledger /\ Report[c] # k
    BY <1>2, <1>6
  <2>2. tickets[k] - lost[k] = Cardinality(Held(k))
    BY <2>1 DEF Counted, CountedOf
  <2> QED
    BY <1>2, <1>3, <1>6, <2>1, <2>2 DEF CountedOf
<1> QED
  BY <1>5, <1>6

\* A record fails: without one in the table, the ticket is lost.
LEMMA CountedAtFailedRecord ==
    ASSUME TypeOK, Counted, NEW w \in Workers, RecordFails(w), NEW k \in Keys
    PROVE  CountedOf(k)'
<1>1. PICK c \in Places : c = Current(w)
  BY CurrentIsTodo DEF TypeOK, RecordFails
<1>2. /\ Leave(w) /\ at[w] = "record" /\ tickets' = tickets /\ ledger' = ledger
      /\ lost' = [lost EXCEPT ![Report[c]] = lost[Report[c]] + IF Report[c] \in ledger THEN 0 ELSE 1]
  BY <1>1 DEF RecordFails, KeyAt
<1>3. /\ Pending(k)' = Pending(k)
      /\ Report[c] # k => Held(k)' = Held(k)
      /\ Report[c] = k => <<w, c>> \in Held(k) /\ Held(k)' = Held(k) \ {<<w, c>>}
  BY <1>1, <1>2, TicketsAtRecord
<1>4. /\ tickets[k] \in Nat /\ lost[k] \in Nat /\ lost \in [Keys -> Nat]
      /\ IsFiniteSet(Held(k)) /\ Cardinality(Held(k)) \in Nat
  BY TicketsFit DEF TypeOK
<1>5. CASE Report[c] # k
  <2>1. lost'[k] = lost[k]
    BY <1>2, <1>4, <1>5
  <2> QED
    BY <1>2, <1>3, <1>4, <1>5, <2>1, CountedByLess
<1>6. CASE Report[c] = k /\ k \in ledger
  <2>1. lost'[k] = lost[k]
    BY <1>2, <1>4, <1>6
  <2>2. tickets[k] - lost[k] + Cardinality(Pending(k)) <= Cardinality(Workers) * Cardinality(Naming(k))
    BY <1>6 DEF Counted, CountedOf
  <2> QED
    BY <1>2, <1>3, <1>6, <2>1, <2>2 DEF CountedOf
<1>7. CASE Report[c] = k /\ k \notin ledger
  <2>1. lost'[k] = lost[k] + 1
    BY <1>2, <1>4, <1>7
  <2>2. Cardinality(Held(k)') = Cardinality(Held(k)) - 1
    BY <1>3, <1>4, <1>7, FS_RemoveElement
  <2>3. tickets[k] - lost[k] = Cardinality(Held(k))
    BY <1>7 DEF Counted, CountedOf
  <2>4. tickets'[k] - lost'[k] = Cardinality(Held(k)')
    BY <1>2, <1>4, <2>1, <2>2, <2>3
  <2> QED
    BY <1>2, <1>7, <2>4 DEF CountedOf
<1> QED
  BY <1>5, <1>6, <1>7

\* Every step keeps the count.
LEMMA CountedStep == TypeOK /\ Counted /\ [Next]_vars => Counted'
<1> SUFFICES ASSUME TypeOK, Counted, [Next]_vars, NEW k \in Keys PROVE CountedOf(k)'
  BY DEF Counted
<1>ty. TypeOK' /\ tickets'[k] \in Nat /\ lost'[k] \in Nat /\ tickets[k] \in Nat /\ lost[k] \in Nat
  BY TypeStep DEF TypeOK
<1>1. CASE UNCHANGED vars
  BY <1>1 DEF vars, Counted, CountedOf, Held, Pending, Current
<1>2. ASSUME NEW w \in Workers, Deliver(w) PROVE CountedOf(k)'
  <2>1. ledger' = ledger /\ tickets' = tickets /\ lost' = lost
    BY <1>2 DEF Deliver
  <2>2. Held(k)' = Held(k) /\ (k \in ledger => Pending(k)' \subseteq Pending(k))
    BY <1>2, TicketsAtDelivery
  <2> QED
    BY <1>ty, <2>1, <2>2, CountedByLess
<1>3. ASSUME NEW w \in Workers, CreateRefused(w) \/ CreateTimesOut(w) PROVE CountedOf(k)'
  <2>1. Leave(w) /\ at[w] = "create" /\ ledger' = ledger
    BY <1>3 DEF CreateRefused, CreateTimesOut
  <2>2. Held(k)' = Held(k) /\ Pending(k)' \subseteq Pending(k)
    BY <2>1, TicketsAtFailure
  <2>3. tickets'[k] - lost'[k] = tickets[k] - lost[k]
    <3>1. \/ tickets' = tickets /\ lost' = lost
          \/ /\ tickets' = [tickets EXCEPT ![KeyAt(w)] = tickets[KeyAt(w)] + 1]
             /\ lost' = [lost EXCEPT ![KeyAt(w)] = lost[KeyAt(w)] + 1]
      BY <1>3 DEF CreateRefused, CreateTimesOut
    <3> QED
      BY <1>ty, <3>1 DEF TypeOK
  <2> QED
    BY <1>ty, <2>1, <2>2, <2>3, CountedByLess
<1> QED
  BY <1>1, <1>2, <1>3, CountedAtStop, CountedAtCreation, CountedAtRecord, CountedAtFailedRecord
     DEF Next, Work

\* However many scans complete, deliver at the same time, fail or are stopped, a
\* finding gets no more recorded tickets than deliveries can run at the same
\* time, for each time a report names it.
THEOREM RecordedTicketsAreBounded == Spec => []TicketsAreBounded
<1>1. Init => TypeOK
  BY TicketAssumption DEF Init, TypeOK
<1>2. Init => Counted
  <2> SUFFICES ASSUME Init, NEW k \in Keys PROVE CountedOf(k)
    BY DEF Counted
  <2>1. Held(k) = {} /\ tickets[k] = 0 /\ lost[k] = 0 /\ ledger = {}
    BY DEF Init, Held, Pairs
  <2> QED
    BY <2>1, FS_EmptySet DEF CountedOf
<1>3. TypeOK /\ Counted => TicketsAreBounded
  <2> SUFFICES ASSUME TypeOK, Counted, NEW k \in Keys
               PROVE  tickets[k] - lost[k] <= Cardinality(Workers) * Cardinality(Naming(k))
    BY DEF TicketsAreBounded
  <2>1. /\ tickets[k] \in Nat /\ lost[k] \in Nat
        /\ Cardinality(Held(k)) \in Nat /\ Cardinality(Pending(k)) \in Nat
        /\ Cardinality(Workers) * Cardinality(Naming(k)) \in Nat
        /\ Cardinality(Held(k)) + Cardinality(Pending(k)) <= Cardinality(Workers) * Cardinality(Naming(k))
    BY TicketsFit DEF TypeOK
  <2>2. CountedOf(k)
    BY DEF Counted
  <2> QED
    BY <2>1, <2>2 DEF CountedOf
<1> QED
  BY <1>1, <1>2, <1>3, TypeStep, CountedStep, PTL DEF Spec

=============================================================================

---------------------------- MODULE LibraryProofs ----------------------------
(***************************************************************************)
(* What the requests on the reports directory of a project are promised,   *)
(* proved for every set of reports and of scans.                           *)
(***************************************************************************)
EXTENDS ReportLibrary, FiniteSetTheorems, NaturalsInduction, WellFoundedInduction, TLAPS

\* A set of natural numbers that is not empty has a least member.
LEMMA LeastOf ==
    ASSUME NEW S \in SUBSET Nat, S # {}
    PROVE  \E i \in S : \A j \in S : i <= j
<1> DEFINE R == OpToRel(<, Nat)
<1>1. IsWellFoundedOn(R, Nat)
  BY NatLessThanWellFounded, Zenon
<1>2. \A i, j \in Nat : i < j => <<i, j>> \in R
  BY Zenon DEF OpToRel
<1> HIDE DEF R
<1>3. PICK i \in S : \A j \in S : <<j, i>> \notin R
  BY <1>1, WFMin
<1>4. \A j \in S : ~(j < i)
  BY <1>2, <1>3
<1> QED
  BY <1>4

-----------------------------------------------------------------------------
(* What a merge carries. *)

\* api_project_stix, api_project_sigma: whatever a report has, the merge has
\* something of its identifier, from the first report that has it.
LEMMA MergeCarries ==
    ASSUME NEW objects, DOMAIN objects \subseteq Nat, NEW i \in DOMAIN objects, NEW o \in objects[i]
    PROVE  \E p \in Merged(objects) : p.id = o.id /\ \E k \in DOMAIN objects : p \in objects[k]
<1> DEFINE S == {k \in DOMAIN objects : \E p \in objects[k] : p.id = o.id}
<1>1. S \in SUBSET Nat /\ i \in S
  OBVIOUS
<1>2. PICK k \in S : \A j \in S : k <= j
  BY <1>1, LeastOf
<1>3. PICK p \in objects[k] : p.id = o.id
  BY <1>2
<1>4. \A j \in DOMAIN objects : j < k => o.id \notin Ids(objects[j])
  <2> SUFFICES ASSUME NEW j \in DOMAIN objects, j < k, o.id \in Ids(objects[j]) PROVE FALSE
    OBVIOUS
  <2>1. j \in S
    BY DEF Ids
  <2> QED
    BY <1>1, <1>2, <2>1
<1> DEFINE IsFirst(l, id) == /\ id \in Ids(objects[l])
                             /\ \A j \in DOMAIN objects : j < l => id \notin Ids(objects[j])
           First(id) == CHOOSE l \in DOMAIN objects : IsFirst(l, id)
           Kept(id) == CHOOSE q \in objects[First(id)] : q.id = id
<1>5. \E l \in DOMAIN objects : IsFirst(l, o.id)
  BY <1>2, <1>3, <1>4 DEF Ids
<1>6. First(o.id) \in DOMAIN objects /\ IsFirst(First(o.id), o.id)
  <2> HIDE DEF IsFirst
  <2> QED
    BY <1>5, Zenon
<1>7. \E q \in objects[First(o.id)] : q.id = o.id
  BY <1>6 DEF Ids
<1> HIDE DEF First
<1>8. Kept(o.id) \in objects[First(o.id)] /\ Kept(o.id).id = o.id
  BY <1>7, Zenon
<1>9. o.id \in UNION {Ids(objects[l]) : l \in DOMAIN objects}
  BY DEF Ids
<1>10. Merged(objects) = {Kept(id) : id \in UNION {Ids(objects[l]) : l \in DOMAIN objects}}
  BY Zenon DEF Merged, First
<1>11. Kept(o.id) \in Merged(objects)
  <2> HIDE DEF Kept
  <2> QED
    BY <1>9, <1>10, Zenon
<1> QED
  BY <1>6, <1>8, <1>11, Zenon

\* The values of finitely many places are finitely many, and as many as the places
\* when each place has a value of its own.
LEMMA ValuesAreFinite ==
    ASSUME NEW f, NEW S, IsFiniteSet(S)
    PROVE  /\ IsFiniteSet({f[i] : i \in S})
           /\ (\A i, j \in S : f[i] = f[j] => i = j) => Cardinality({f[i] : i \in S}) = Cardinality(S)
<1> DEFINE T == {f[i] : i \in S}
           g == [i \in S |-> f[i]]
<1>1. g \in Surjection(S, T)
  <2>1. g \in [S -> T] /\ \A t \in T : \E i \in S : g[i] = t
    OBVIOUS
  <2> QED
    BY <2>1, Zenon DEF Surjection
<1>2. IsFiniteSet(T)
  BY <1>1, FS_Surjection
<1>3. ASSUME \A i, j \in S : f[i] = f[j] => i = j PROVE Cardinality(T) = Cardinality(S)
  <2>1. g \in Injection(S, T)
    <3>1. g \in [S -> T] /\ \A i, j \in S : g[i] = g[j] => i = j
      BY <1>3
    <3> QED
      BY <3>1, Zenon DEF Injection, IsInjective
  <2>2. ExistsBijection(S, T)
    BY <1>1, <2>1, Zenon DEF ExistsBijection, Bijection
  <2> QED
    BY <2>2, FS_Bijection
<1> QED
  BY <1>2, <1>3

ValuesOf(f, S) == {f[i] : i \in S}
\* Things with values of their own have as many values.
LEMMA ValuesAreDistinct ==
    ASSUME NEW f, NEW S, IsFiniteSet(S), \A i, j \in S : f[i] = f[j] => i = j
    PROVE  Cardinality(ValuesOf(f, S)) = Cardinality(S)
<1>1. Cardinality({f[i] : i \in S}) = Cardinality(S)
  BY ValuesAreFinite
<1> QED
  BY <1>1 DEF ValuesOf

\* Nodes that are named once, or are few, are all in the pattern, or the pattern
\* is full.
LEMMA PatternIsWhole ==
    ASSUME NEW nodes, nodes \in Seq(Rows(nodes)), PatternCap \in Nat,
           \/ Len(nodes) <= PatternCap
           \/ \A i, j \in DOMAIN nodes : nodes[i] = nodes[j] => i = j
    PROVE  /\ Pattern(nodes) \subseteq Given(Rows(nodes))
           /\ IsFiniteSet(Given(Rows(nodes)))
           /\ Pattern(nodes) = Given(Rows(nodes)) \/ Cardinality(Pattern(nodes)) >= PatternCap
<1> DEFINE P == Named(nodes)
           Earlier(k) == {j \in P : j < k}
           W == {k \in P : Cardinality(Earlier(k)) < PatternCap}
<1>1. DOMAIN nodes = 1..Len(nodes) /\ Len(nodes) \in Nat
  OBVIOUS
<1>2. /\ P \subseteq 1..Len(nodes) /\ P \subseteq Nat /\ W \subseteq P
      /\ \A k \in P : Earlier(k) \subseteq P
  BY <1>1 DEF Named
<1>3. IsFiniteSet(P) /\ IsFiniteSet(W) /\ \A k \in P : IsFiniteSet(Earlier(k))
  <2>1. IsFiniteSet(1..Len(nodes))
    BY <1>1, FS_Interval
  <2>2. IsFiniteSet(P)
    BY <1>2, <2>1, FS_Subset
  <2>3. \A X \in SUBSET P : IsFiniteSet(X)
    BY <2>2, FS_Subset
  <2> QED
    BY <1>2, <2>2, <2>3
<1>4. Cardinality(W) \in Nat /\ \A k \in P : Cardinality(Earlier(k)) \in Nat
  BY <1>3, FS_CardinalityType
<1>5. Pattern(nodes) = {nodes[i] : i \in W} /\ Given(Rows(nodes)) = {nodes[i] : i \in P}
  BY <1>1, <1>2 DEF Pattern, Given, Rows, Named
<1>6. IsFiniteSet(Given(Rows(nodes))) /\ Pattern(nodes) \subseteq Given(Rows(nodes))
  <2>1. IsFiniteSet({nodes[i] : i \in P})
    BY <1>3, ValuesAreFinite
  <2> QED
    BY <1>2, <1>5, <2>1
<1>7. \A k \in P : k \in W <=> Cardinality(Earlier(k)) < PatternCap
  OBVIOUS
<1>8. \A k \in P : \A j \in Earlier(k) : j < k /\ j \in P
  OBVIOUS
<1> HIDE DEF P, W, Earlier
<1>9. ASSUME W # P
      PROVE  /\ Cardinality(W) >= PatternCap
             /\ Len(nodes) > PatternCap
  <2>1. PICK k \in P \ W : \A j \in P \ W : k <= j
    BY <1>2, <1>9, LeastOf
  <2>2. Earlier(k) \subseteq W
    <3> SUFFICES ASSUME NEW j \in Earlier(k), j \notin W PROVE FALSE
      OBVIOUS
    <3>1. j < k /\ j \in P /\ k \in Nat /\ j \in Nat
      BY <1>2, <1>8, <2>1, Zenon
    <3> QED
      BY <2>1, <3>1
  <2>3. Cardinality(Earlier(k)) >= PatternCap
    BY <1>4, <1>7, <2>1
  <2>4. Cardinality(Earlier(k)) <= Cardinality(W)
    BY <1>3, <2>2, FS_Subset
  <2>5. Earlier(k) \subseteq 1..(Len(nodes) - 1) /\ Len(nodes) >= 1
    <3>1. k \in 1..Len(nodes) /\ \A j \in Earlier(k) : j < k /\ j \in 1..Len(nodes)
      BY <1>2, <1>8, <2>1, Zenon
    <3> QED
      BY <1>1, <3>1
  <2>6. IsFiniteSet(1..(Len(nodes) - 1)) /\ Cardinality(1..(Len(nodes) - 1)) = Len(nodes) - 1
    <3>1. Len(nodes) - 1 \in Int /\ 1 \in Int
      BY <1>1
    <3>2. /\ IsFiniteSet(1..(Len(nodes) - 1))
          /\ Cardinality(1..(Len(nodes) - 1))
              = IF 1 > Len(nodes) - 1 THEN 0 ELSE (Len(nodes) - 1) - 1 + 1
      BY <3>1, FS_Interval
    <3> QED
      BY <1>1, <2>5, <3>2
  <2>7. Cardinality(Earlier(k)) <= Len(nodes) - 1
    BY <2>5, <2>6, FS_Subset
  <2> QED
    BY <1>1, <1>4, <2>1, <2>3, <2>4, <2>7
<1>10. ASSUME W # P PROVE Cardinality(Pattern(nodes)) >= PatternCap
  <2>1. \A i, j \in W : nodes[i] = nodes[j] => i = j
    BY <1>1, <1>2, <1>9, <1>10
  <2>2. Cardinality({nodes[i] : i \in W}) = Cardinality(W)
    <3>1. Cardinality(ValuesOf(nodes, W)) = Cardinality(W)
      BY <1>3, <2>1, ValuesAreDistinct
    <3> QED
      BY <3>1 DEF ValuesOf
  <2> QED
    BY <1>5, <1>9, <1>10, <2>2
<1> QED
  BY <1>5, <1>6, <1>10

-----------------------------------------------------------------------------
(* Reports. *)

\* What a plain json.load leaves of a report, and what it leaves out.
LEMMA RawIsReport ==
    ASSUME NEW r, IsReport(r)
    PROVE  /\ IsReport(Raw(r))
           /\ \A field \in DOMAIN r : field \notin {"classified", "coverage"} => Raw(r)[field] = r[field]
           /\ Raw(r).classified = <<>>
<1>1. /\ DOMAIN Raw(r) = DOMAIN r
      /\ \A field \in DOMAIN r : Raw(r)[field] = IF field \in {"classified", "coverage"} THEN <<>> ELSE r[field]
  BY DEF IsReport, Raw, Lists
<1>2. <<>> \in Seq(Rows(<<>>))
  BY DEF Rows
<1>3. {"classified", "coverage"} \subseteq DOMAIN r /\ {"time", "findings", "convs"} \subseteq DOMAIN r
  BY DEF IsReport, Lists
<1>4. /\ Raw(r).time = r.time /\ Raw(r).findings = r.findings /\ Raw(r).convs = r.convs
      /\ Raw(r).classified = <<>>
  BY <1>1, <1>3
<1>5. \A field \in Lists : Raw(r)[field] \in Seq(Rows(Raw(r)[field]))
  <2> SUFFICES ASSUME NEW field \in Lists PROVE Raw(r)[field] \in Seq(Rows(Raw(r)[field]))
    OBVIOUS
  <2>1. field \in DOMAIN r /\ r[field] \in Seq(Rows(r[field]))
    BY DEF IsReport
  <2>2. Raw(r)[field] = <<>> \/ Raw(r)[field] = r[field]
    BY <1>1, <2>1
  <2> QED
    BY <1>2, <2>1, <2>2
<1> QED
  BY <1>1, <1>4, <1>5 DEF IsReport

\* What an object of a bundle is known by, and what it watches.
LEMMA ObjectsOfBundle ==
    ASSUME NEW r, NEW o \in Bundle(r)
    PROVE  \/ o.id[1] = "identity" /\ o.watches = {}
           \/ /\ o.id[1] = "risk"
              /\ \E f \in Rows(r.findings) : /\ o.id = <<"risk", f.category, Rows(f.nodes)>>
                                             /\ o.watches = Pattern(f.nodes)
           \/ /\ o.id[1] = "c2"
              /\ \E c \in Rows(r.c2) : /\ o.id = <<"c2", c.type, c.src, c.dst, c.port>>
                                       /\ o.watches = Given({c.src, c.dst})
           \/ /\ o.id[1] = "malware"
              /\ \E m \in Rows(r.malware) :
                    /\ o.id = Unknown \/ (m.id # NoText /\ o.id = <<"malware", m.id>>)
                    /\ o.watches = Given({m.value})
           \/ o.id[1] \in {"attack-pattern", "sighting"} /\ o.watches = {}
<1>1. CASE o = Indicator(<<"identity">>, {})
  BY <1>1 DEF Indicator
<1>2. CASE o \in {RiskIndicator(f) : f \in Rows(r.findings)}
  BY <1>2 DEF Indicator, RiskIndicator
<1>3. CASE o \in {C2Indicator(c) : c \in Rows(r.c2)}
  <2>1. PICK c \in Rows(r.c2) : o = C2Indicator(c)
    BY <1>3
  <2>2. o.id = <<"c2", c.type, c.src, c.dst, c.port>> /\ o.watches = Given({c.src, c.dst})
    BY <2>1 DEF Indicator, C2Indicator
  <2>3. o.id[1] = "c2"
    BY <2>2
  <2> QED
    BY <2>2, <2>3, Zenon
<1>4. CASE o \in {MalwareIndicator(m) : m \in Rows(r.malware)}
  <2>1. PICK m \in Rows(r.malware) : o = MalwareIndicator(m)
    BY <1>4
  <2>2. /\ o.id = Unknown \/ (m.id # NoText /\ o.id = <<"malware", m.id>>)
        /\ o.watches = Given({m.value})
    BY <2>1 DEF Indicator, MalwareIndicator
  <2>3. o.id[1] = "malware"
    BY <2>2 DEF Unknown
  <2> QED
    BY <2>2, <2>3, Zenon
<1>5. CASE \E t \in Rows(r.classified) : o = AttackPattern(t) \/ o = Sighting(t, r.capture)
  BY <1>5 DEF Indicator, AttackPattern, Sighting
<1> QED
  BY <1>1, <1>2, <1>3, <1>4, <1>5 DEF Bundle

\* An identifier that malware findings have of their own is of one observable.
SameValue(r, s) ==
    \A v \in Rows(r.malware), w \in Rows(s.malware) :
        v.id = w.id /\ v.id # NoText => v.value = w.value

\* Two objects of one identifier watch the same, or the pattern is full, or the
\* identifier is none: identifiers are derived from what an object is about.
LEMMA BundlesAgree ==
    ASSUME NEW r, NEW s, IsReport(r), IsReport(s), PatternCap \in Nat, SameValue(r, s),
           NEW o \in Bundle(r), NEW p \in Bundle(s), p.id = o.id
    PROVE  p.watches = o.watches \/ Cardinality(o.watches) >= PatternCap \/ o.id = Unknown
<1>1. CASE o.id[1] \in {"identity", "attack-pattern", "sighting"}
  BY <1>1, ObjectsOfBundle, Zenon
<1>2. CASE o.id[1] = "risk"
  <2>1. PICK f \in Rows(r.findings) : /\ o.id = <<"risk", f.category, Rows(f.nodes)>>
                                      /\ o.watches = Pattern(f.nodes)
    BY <1>2, ObjectsOfBundle
  <2>2. PICK g \in Rows(s.findings) : /\ p.id = <<"risk", g.category, Rows(g.nodes)>>
                                      /\ p.watches = Pattern(g.nodes)
    BY <1>2, ObjectsOfBundle
  <2>3. Rows(f.nodes) = Rows(g.nodes)
    BY <2>1, <2>2
  <2>4. \A h \in {f, g} : /\ Pattern(h.nodes) \subseteq Given(Rows(h.nodes))
                          /\ IsFiniteSet(Given(Rows(h.nodes)))
                          /\ \/ Pattern(h.nodes) = Given(Rows(h.nodes))
                             \/ Cardinality(Pattern(h.nodes)) >= PatternCap
    BY PatternIsWhole DEF IsReport
  <2>5. CASE Cardinality(p.watches) >= PatternCap /\ o.watches = Given(Rows(f.nodes))
    <3>1. /\ p.watches \subseteq Given(Rows(f.nodes))
          /\ IsFiniteSet(Given(Rows(f.nodes)))
      BY <2>2, <2>3, <2>4
    <3>2. /\ IsFiniteSet(p.watches)
          /\ Cardinality(p.watches) <= Cardinality(Given(Rows(f.nodes)))
      BY <3>1, FS_Subset
    <3>3. Cardinality(p.watches) \in Nat /\ Cardinality(Given(Rows(f.nodes))) \in Nat
      BY <3>1, <3>2, FS_CardinalityType
    <3> QED
      BY <2>5, <3>2, <3>3
  <2> QED
    BY <2>1, <2>2, <2>3, <2>4, <2>5
<1>3. CASE o.id[1] = "c2"
  <2>1. PICK c \in Rows(r.c2) : /\ o.id = <<"c2", c.type, c.src, c.dst, c.port>>
                                /\ o.watches = Given({c.src, c.dst})
    BY <1>3, ObjectsOfBundle
  <2>2. PICK d \in Rows(s.c2) : /\ p.id = <<"c2", d.type, d.src, d.dst, d.port>>
                                /\ p.watches = Given({d.src, d.dst})
    BY <1>3, ObjectsOfBundle
  <2>3. c.src = d.src /\ c.dst = d.dst
    BY <2>1, <2>2
  <2> QED
    BY <2>1, <2>2, <2>3
<1>4. CASE o.id[1] = "malware"
  <2> SUFFICES ASSUME o.id # Unknown PROVE p.watches = o.watches
    OBVIOUS
  <2>1. PICK v \in Rows(r.malware) : /\ v.id # NoText /\ o.id = <<"malware", v.id>>
                                     /\ o.watches = Given({v.value})
    BY <1>4, ObjectsOfBundle
  <2>2. PICK w \in Rows(s.malware) : /\ w.id # NoText /\ p.id = <<"malware", w.id>>
                                     /\ p.watches = Given({w.value})
    BY <1>4, ObjectsOfBundle
  <2>3. v.id = w.id
    BY <2>1, <2>2
  <2>4. v.value = w.value
    BY <2>1, <2>3 DEF SameValue
  <2> QED
    BY <2>1, <2>2, <2>4
<1> QED
  BY <1>1, <1>2, <1>3, <1>4, ObjectsOfBundle

\* Two Sigma rules of one identifier watch the same.
LEMMA RulesAgree ==
    ASSUME NEW r, NEW s, NEW o \in SigmaRules(r), NEW p \in SigmaRules(s), p.id = o.id,
           ~Mentions(s, r.capture), ~Mentions(r, s.capture)
    PROVE  p.nodes = o.nodes
<1>1. \A c, n, k : /\ Rule(c, n, k).id = <<c, IF n = {} THEN {k} ELSE n>>
                   /\ Rule(c, n, k).nodes = Given(n)
  BY DEF Rule
<1>2. ASSUME NEW x, NEW q \in SigmaRules(x)
      PROVE  \E c, n : q = Rule(c, n, x.capture) /\ \A v \in n : Mentions(x, v)
  <2>1. CASE q \in FindingRules(x)
    BY <2>1 DEF FindingRules, Mentions
  <2>2. CASE \E c \in Rows(x.c2) : q = Rule("C2_BEACONING", {c.dst, c.src}, x.capture)
    <3>1. PICK c \in Rows(x.c2) : q = Rule("C2_BEACONING", {c.dst, c.src}, x.capture)
      BY <2>2
    <3>2. \A v \in {c.dst, c.src} : Mentions(x, v)
      BY DEF Mentions
    <3> WITNESS "C2_BEACONING", {c.dst, c.src}
    <3> QED
      BY <3>1, <3>2, Zenon
  <2>3. CASE \E m \in Rows(x.malware) : q = Rule("MALWARE_IOC_MATCH", {m.sip, m.dip}, x.capture)
    <3>1. PICK m \in Rows(x.malware) : q = Rule("MALWARE_IOC_MATCH", {m.sip, m.dip}, x.capture)
      BY <2>3
    <3>2. \A v \in {m.sip, m.dip} : Mentions(x, v)
      BY DEF Mentions
    <3> WITNESS "MALWARE_IOC_MATCH", {m.sip, m.dip}
    <3> QED
      BY <3>1, <3>2, Zenon
  <2> QED
    BY <1>2, <2>1, <2>2, <2>3 DEF SigmaRules
<1>3. PICK c, n : o = Rule(c, n, r.capture) /\ \A v \in n : Mentions(r, v)
  BY <1>2
<1>4. PICK d, m : p = Rule(d, m, s.capture) /\ \A v \in m : Mentions(s, v)
  BY <1>2
<1>5. (IF n = {} THEN {r.capture} ELSE n) = (IF m = {} THEN {s.capture} ELSE m)
  <2>1. /\ o.id = <<c, IF n = {} THEN {r.capture} ELSE n>>
        /\ p.id = <<d, IF m = {} THEN {s.capture} ELSE m>>
    BY <1>1, <1>3, <1>4, Zenon
  <2>2. o.id[2] = p.id[2]
    OBVIOUS
  <2> QED
    BY <2>1, <2>2
<1>6. n = m
  BY <1>3, <1>4, <1>5
<1> QED
  BY <1>1, <1>3, <1>4, <1>6

-----------------------------------------------------------------------------
(* The directory. *)

\* What can be read of a report.
Sayings == {says[n] : n \in Rows(Names)} \cup {Raw(says[n]) : n \in Rows(Names)}

\* The state of the engine and of the files.
DirectoryOK ==
    /\ says \in Assignments
    /\ files \in [Rows(Names) -> [Kinds -> {"none", "partial", "whole"}]]
    /\ scanned \in 0 .. Len(Names)
    /\ \A i \in DOMAIN Names : i > scanned => files[Names[i]]["report"] = "none"
    /\ engine \in {NoScan} \cup [name : Rows(Names), open : BOOLEAN, writes : Seq(Kinds) \ {<<>>}]
    /\ engine # NoScan => scanned > 0 /\ engine.name = Names[scanned]

\* What is settled has been scanned and is not written any more, so the next scan
\* does not touch it either.
SettledOK ==
    reading # NoReading =>
        /\ \A n \in reading.settled : \E i \in 1 .. scanned : n = Names[i]
        /\ engine # NoScan => engine.name \notin reading.settled

RequestOK ==
    reading # NoReading =>
        /\ DOMAIN reading = {"kind", "todo", "looked", "got", "settled", "entries", "found"}
        /\ reading.kind \in {"files", "ocsf", "own"}
        /\ reading.todo \subseteq Rows(Names)
        /\ reading.got \in Seq([name : Rows(Names), says : Sayings \cup {Unreadable, Cut}])
        /\ reading.looked \in BOOLEAN
        /\ reading.looked => reading.kind # "files"

\* What a request has made of a standing report: it has given it, or the export
\* beside it, which was cut short for good.
Delivered(n, what) ==
    \/ reading.kind # "own" /\ what = Raw(says[n])
    \/ reading.kind # "files" /\ what = says[n]
    \/ reading.kind # "files" /\ files[n][Format] = "partial"
Told(n) ==
    \E i \in DOMAIN reading.got :
        reading.got[i].name = n /\ Delivered(n, reading.got[i].says)
NothingLost ==
    reading # NoReading => \A n \in Standing : n \in reading.todo \/ Told(n)

LibraryInv == DirectoryOK /\ SettledOK /\ RequestOK /\ NothingLost

\* The directory starts empty.
LEMMA LibraryStart == LibraryInit => LibraryInv
<1> SUFFICES ASSUME LibraryInit PROVE LibraryInv
  OBVIOUS
<1>1. DirectoryOK
  <2>1. \A i \in DOMAIN Names : Names[i] \in Rows(Names)
    BY DEF Rows
  <2>2. Len(Names) \in Nat
    BY LibraryAssumption
  <2> QED
    BY <2>1, <2>2 DEF LibraryInit, DirectoryOK, Kinds, Format, NoScan
<1> QED
  BY <1>1 DEF LibraryInit, LibraryInv, SettledOK, RequestOK, NothingLost

\* The report that is due is one of those that are left.
LEMMA DueIsLeft ==
    ASSUME RequestOK, Busy
    PROVE  Due \in reading.todo /\ Due \in Rows(Names)
<1> DEFINE S == {i \in DOMAIN Names : Names[i] \in reading.todo}
<1>1. reading.todo \subseteq Rows(Names) /\ reading.todo # {}
  BY DEF RequestOK, Busy
<1>2. S \in SUBSET Nat /\ S # {}
  BY <1>1, LibraryAssumption DEF Rows
<1>3. \E i \in S : \A j \in S : i <= j
  BY <1>2, LeastOf
<1>4. \E i \in DOMAIN Names : /\ Names[i] \in reading.todo
                              /\ \A j \in DOMAIN Names : Names[j] \in reading.todo => i <= j
  BY <1>3
<1> QED
  BY <1>1, <1>4 DEF Due

\* The actions of the engine and of the user, and those of a request.
Writing == StartScan \/ OpenFile \/ CloseFile \/ KillEngine \/ \E n \in Rows(Names) : DeleteReport(n)
Asking == (\E kind \in {"files", "ocsf"} : Ask(kind)) \/ \E n \in Rows(Names) : AskOne(n)
Serving == Load \/ Look \/ Serve \/ ServeFails \/ Answer

\* Every step is of one of these kinds, and changes what its kind may change.
LEMMA KindsOfSteps ==
    ASSUME [LibraryNext]_library
    PROVE  /\ says' = says
           /\ \/ Writing /\ reading' = reading
              \/ (Asking \/ Serving) /\ UNCHANGED <<files, engine, scanned>>
              \/ UNCHANGED <<files, engine, scanned, reading>>
<1>1. CASE Writing
  BY <1>1 DEF Writing, StartScan, OpenFile, CloseFile, KillEngine, DeleteReport
<1>2. CASE Asking
  BY <1>2 DEF Asking, Ask, AskOne
<1>3. CASE Serving
  BY <1>3 DEF Serving, Load, Look, Serve, ServeFails, Answer, Got
<1>4. CASE EditLists \/ UNCHANGED library
  BY <1>4 DEF EditLists, library
<1> QED
  BY <1>1, <1>2, <1>3, <1>4 DEF LibraryNext, Writing, Asking, Serving

\* The directory stays in order.
LEMMA DirectoryStep == DirectoryOK /\ [LibraryNext]_library => DirectoryOK'
<1> SUFFICES ASSUME DirectoryOK, [LibraryNext]_library PROVE DirectoryOK'
  OBVIOUS
<1>1. /\ DOMAIN Names = 1..Len(Names) /\ Len(Names) \in Nat
      /\ \A i \in 1..Len(Names) : Names[i] \in Rows(Names)
      /\ \A i, j \in 1..Len(Names) : Names[i] = Names[j] => i = j
  BY LibraryAssumption DEF Rows
<1>2. says' = says
  BY KindsOfSteps
<1>3. CASE StartScan
  <2>1. [i \in 1 .. Saves |-> "report"] \o <<Format>> \in Seq(Kinds) \ {<<>>}
    BY LibraryAssumption DEF Kinds, Format
  <2>2. /\ engine'.name = Names[scanned + 1] /\ scanned + 1 \in 1..Len(Names)
        /\ engine' \in [name : Rows(Names), open : BOOLEAN, writes : Seq(Kinds) \ {<<>>}]
    BY <1>1, <1>3, <2>1 DEF StartScan, DirectoryOK
  <2> QED
    BY <1>1, <1>2, <1>3, <2>2 DEF StartScan, DirectoryOK
<1>4. CASE OpenFile \/ CloseFile
  <2>1. /\ engine \in [name : Rows(Names), open : BOOLEAN, writes : Seq(Kinds) \ {<<>>}]
        /\ scanned \in 1..Len(Names) /\ engine.name = Names[scanned]
    BY <1>1, <1>4 DEF OpenFile, CloseFile, DirectoryOK
  <2>2. Head(engine.writes) \in Kinds
    BY <2>1
  <2>3. engine' \in {NoScan} \cup [name : Rows(Names), open : BOOLEAN, writes : Seq(Kinds) \ {<<>>}]
    <3>1. CASE OpenFile
      BY <2>1, <3>1 DEF OpenFile
    <3>2. CASE CloseFile
      <4>1. Len(engine.writes) # 1 => Tail(engine.writes) \in Seq(Kinds) \ {<<>>}
        <5>1. ASSUME NEW w \in Seq(Kinds), w # <<>>, Len(w) # 1 PROVE Tail(w) \in Seq(Kinds) /\ Tail(w) # <<>>
          <6>1. Len(w) \in Nat /\ Len(w) # 0
            BY <5>1
          <6>2. Tail(w) \in Seq(Kinds) /\ Len(Tail(w)) = Len(w) - 1
            BY <5>1, <6>1
          <6> QED
            BY <5>1, <6>1, <6>2
        <5>2. engine.writes \in Seq(Kinds) /\ engine.writes # <<>>
          BY <2>1
        <5> QED
          BY <5>1, <5>2
      <4>2. engine' = IF Len(engine.writes) = 1 THEN NoScan
                      ELSE [engine EXCEPT !.open = FALSE, !.writes = Tail(engine.writes)]
        BY <3>2, <2>1 DEF CloseFile
      <4>3. CASE Len(engine.writes) = 1
        BY <4>2, <4>3
      <4>4. CASE Len(engine.writes) # 1
        BY <2>1, <4>1, <4>2, <4>4
      <4> QED
        BY <4>3, <4>4
    <3> QED
      BY <1>4, <3>1, <3>2
  <2>4. engine' # NoScan => engine'.name = engine.name
    BY <1>4, <2>1 DEF OpenFile, CloseFile
  <2>5. \E state \in {"none", "partial", "whole"} :
            files' = [files EXCEPT ![engine.name][Head(engine.writes)] = state]
    BY <1>4, <2>1, <2>2 DEF OpenFile, CloseFile, DirectoryOK
  <2>6. PICK state \in {"none", "partial", "whole"} :
            files' = [files EXCEPT ![engine.name][Head(engine.writes)] = state]
    BY <2>5
  <2>7. files' \in [Rows(Names) -> [Kinds -> {"none", "partial", "whole"}]]
    BY <2>1, <2>2, <2>6 DEF DirectoryOK
  <2>8. \A i \in DOMAIN Names : i > scanned => files'[Names[i]] = files[Names[i]]
    BY <1>1, <2>1, <2>6 DEF DirectoryOK
  <2>9. scanned' = scanned
    BY <1>4 DEF OpenFile, CloseFile
  <2> QED
    BY <1>1, <1>2, <2>1, <2>3, <2>4, <2>7, <2>8, <2>9 DEF DirectoryOK
<1>5. CASE KillEngine
  BY <1>2, <1>5 DEF KillEngine, DirectoryOK
<1>6. ASSUME NEW n \in Rows(Names), DeleteReport(n) PROVE DirectoryOK'
  <2>1. files' \in [Rows(Names) -> [Kinds -> {"none", "partial", "whole"}]]
    BY <1>6 DEF DeleteReport, DirectoryOK
  <2>2. \A m \in Rows(Names) : files'[m]["report"] \in {"none", files[m]["report"]}
    BY <1>6 DEF DeleteReport, DirectoryOK, Kinds
  <2> QED
    BY <1>1, <1>2, <1>6, <2>1, <2>2 DEF DeleteReport, DirectoryOK
<1>7. CASE UNCHANGED <<files, engine, scanned>>
  BY <1>2, <1>7 DEF DirectoryOK
<1> QED
  BY <1>3, <1>4, <1>5, <1>6, <1>7, KindsOfSteps DEF Writing

\* What a new request has settled, and what the steps of one keep.
LEMMA NewRequest ==
    ASSUME DirectoryOK, Asking
    PROVE  /\ DOMAIN reading' = {"kind", "todo", "looked", "got", "settled", "entries", "found"}
           /\ reading'.kind \in {"files", "ocsf", "own"} /\ reading'.looked = FALSE
           /\ reading'.got = <<>> /\ reading'.todo \subseteq Rows(Names)
           /\ reading'.settled = Settled \cap reading'.todo
<1>1. PICK kind \in {"files", "ocsf", "own"}, names \in SUBSET Rows(Names) :
            \E entries : reading' = Request(kind, names, entries)
  <2>1. ASSUME NEW kind \in {"files", "ocsf"}, Ask(kind)
        PROVE  reading' = Request(kind, Listing, IF list = NoList THEN <<>> ELSE list)
               /\ Listing \in SUBSET Rows(Names)
    BY <2>1 DEF Ask, Listing
  <2>2. ASSUME NEW n \in Rows(Names), AskOne(n)
        PROVE  reading' = Request("own", {n}, <<>>) /\ {n} \in SUBSET Rows(Names)
    BY <2>2 DEF AskOne
  <2> QED
    BY <2>1, <2>2 DEF Asking
<1> QED
  BY <1>1 DEF Request

\* What the steps of a request keep of it.
LEMMA OngoingRequest ==
    ASSUME Serving, reading' # NoReading, DOMAIN reading = {"kind", "todo", "looked", "got", "settled", "entries", "found"}
    PROVE  /\ reading # NoReading /\ DOMAIN reading' = DOMAIN reading
           /\ reading'.kind = reading.kind /\ reading'.settled = reading.settled
           /\ reading'.entries = reading.entries
<1>1. reading # NoReading
  BY DEF Serving, Load, Look, Serve, ServeFails, Answer, Busy
<1>2. CASE Look
  BY <1>1, <1>2 DEF Look
<1>3. ASSUME NEW what, Got(what)
      PROVE /\ DOMAIN reading' = DOMAIN reading
            /\ reading'.kind = reading.kind /\ reading'.settled = reading.settled
            /\ reading'.entries = reading.entries
  BY <1>3 DEF Got
<1> QED
  BY <1>1, <1>2, <1>3 DEF Serving, Load, Serve, ServeFails, Answer

\* What was settled is never written again.
LEMMA SettledStep ==
    DirectoryOK /\ RequestOK /\ SettledOK /\ [LibraryNext]_library => SettledOK'
<1> SUFFICES ASSUME DirectoryOK, RequestOK, SettledOK, [LibraryNext]_library, reading' # NoReading
             PROVE  /\ \A n \in reading'.settled : \E i \in 1 .. scanned' : n = Names[i]
                    /\ engine' # NoScan => engine'.name \notin reading'.settled
  BY DEF SettledOK
<1>1. /\ DOMAIN Names = 1..Len(Names) /\ Len(Names) \in Nat
      /\ \A i, j \in 1..Len(Names) : Names[i] = Names[j] => i = j
      /\ scanned \in 0 .. Len(Names)
  BY LibraryAssumption DEF DirectoryOK
<1>2. CASE Writing /\ reading' = reading
  <2>1. /\ \A n \in reading.settled : \E i \in 1 .. scanned : n = Names[i]
        /\ engine # NoScan => engine.name \notin reading.settled
    BY <1>2 DEF SettledOK
  <2>2. CASE StartScan
    <3>1. scanned' = scanned + 1 /\ engine'.name = Names[scanned + 1] /\ scanned + 1 <= Len(Names)
      BY <1>1, <2>2 DEF StartScan
    <3>2. \A i \in 1 .. scanned : Names[i] # Names[scanned + 1]
      BY <1>1, <3>1
    <3> QED
      BY <1>1, <1>2, <2>1, <3>1, <3>2
  <2>3. CASE ~StartScan
    <3>1. /\ scanned' = scanned
          /\ engine' # NoScan => engine # NoScan /\ engine'.name = engine.name
      <4>1. CASE OpenFile
        BY <4>1 DEF OpenFile, DirectoryOK
      <4>2. CASE CloseFile
        <5>1. engine \in [name : Rows(Names), open : BOOLEAN, writes : Seq(Kinds) \ {<<>>}]
          BY <4>2 DEF CloseFile, DirectoryOK
        <5> QED
          BY <4>2, <5>1 DEF CloseFile
      <4>3. CASE KillEngine
        BY <4>3 DEF KillEngine
      <4>4. ASSUME NEW n \in Rows(Names), DeleteReport(n) PROVE engine' = engine /\ scanned' = scanned
        BY <4>4 DEF DeleteReport
      <4> QED
        BY <1>2, <2>3, <4>1, <4>2, <4>3, <4>4 DEF Writing
    <3> QED
      BY <1>2, <2>1, <3>1
  <2> QED
    BY <2>2, <2>3
<1>3. CASE Asking /\ UNCHANGED <<files, engine, scanned>>
  <2>1. reading'.settled \subseteq Settled
    BY <1>3, NewRequest
  <2>2. ASSUME NEW n \in Settled PROVE \E i \in 1 .. scanned : n = Names[i]
    <3>1. PICK i \in DOMAIN Names : n = Names[i]
      BY DEF Settled, Listing, Rows
    <3>2. files[Names[i]]["report"] # "none"
      BY <3>1 DEF Settled
    <3> QED
      BY <1>1, <3>1, <3>2 DEF DirectoryOK
  <2>3. engine # NoScan => engine.name \notin Settled
    BY DEF Settled
  <2> QED
    BY <1>3, <2>1, <2>2, <2>3
<1>4. CASE Serving /\ UNCHANGED <<files, engine, scanned>>
  <2>1. reading # NoReading /\ reading'.settled = reading.settled
    <3>1. reading # NoReading
      BY <1>4 DEF Serving, Load, Look, Serve, ServeFails, Answer, Busy
    <3> QED
      BY <1>4, <3>1, OngoingRequest DEF RequestOK
  <2> QED
    BY <1>4, <2>1 DEF SettledOK
<1>5. CASE UNCHANGED <<files, engine, scanned, reading>>
  BY <1>5 DEF SettledOK
<1> QED
  BY <1>2, <1>3, <1>4, <1>5, KindsOfSteps

\* What is read is what a report says, or that it cannot be read.
LEMMA ReadIsSaying ==
    ASSUME DirectoryOK, NEW n \in Rows(Names)
    PROVE  Loaded(n) \in Sayings \cup {Unreadable} /\ says[n] \in Sayings
BY DEF Loaded, Sayings

\* A request keeps its form.
LEMMA RequestStep ==
    DirectoryOK /\ RequestOK /\ [LibraryNext]_library => RequestOK'
<1> SUFFICES ASSUME DirectoryOK, RequestOK, [LibraryNext]_library, reading' # NoReading
             PROVE  RequestOK'
  BY DEF RequestOK
<1> DEFINE Read == [name : Rows(Names), says : Sayings \cup {Unreadable, Cut}]
<1>1. Sayings' = Sayings
  BY KindsOfSteps DEF Sayings
<1>2. CASE reading' = reading
  BY <1>1, <1>2 DEF RequestOK
<1>3. CASE Asking
  <2>1. reading'.got \in Seq(Read)
    <3>1. reading'.got = <<>>
      BY <1>3, NewRequest
    <3> QED
      BY <3>1
  <2> QED
    BY <1>1, <1>3, <2>1, NewRequest DEF RequestOK
<1>4. CASE Serving
  <2>1. /\ reading # NoReading /\ DOMAIN reading' = DOMAIN reading
        /\ DOMAIN reading = {"kind", "todo", "looked", "got", "settled", "entries", "found"}
        /\ reading'.kind = reading.kind
    <3>1. reading # NoReading
      BY <1>4 DEF Serving, Load, Look, Serve, ServeFails, Answer, Busy
    <3> QED
      BY <1>4, <3>1, OngoingRequest DEF RequestOK
  <2>2. CASE Look
    BY <1>1, <2>1, <2>2 DEF Look, RequestOK
  <2>3. ASSUME NEW what \in Sayings \cup {Unreadable, Cut}, Got(what), Busy PROVE RequestOK'
    <3>1. Due \in Rows(Names)
      BY <2>3, DueIsLeft
    <3>2. reading'.got = Append(reading.got, [name |-> Due, says |-> what])
      BY <2>1, <2>3 DEF Got
    <3>3. reading.got \in Seq(Read) /\ [name |-> Due, says |-> what] \in Read
      BY <2>1, <3>1 DEF RequestOK
    <3>4. reading'.got \in Seq(Read)
      BY <3>2, <3>3
    <3>5. reading'.todo = reading.todo \ {Due} /\ reading'.looked = FALSE
      BY <2>1, <2>3 DEF Got
    <3> QED
      BY <1>1, <2>1, <3>4, <3>5 DEF RequestOK
  <2>4. CASE Load
    <3>1. Loaded(Due) \in Sayings \cup {Unreadable, Cut} /\ Got(Loaded(Due)) /\ Busy
      BY <2>4, DueIsLeft, ReadIsSaying DEF Load
    <3> QED
      BY <2>3, <3>1
  <2>5. CASE Serve
    <3>1. PICK what \in {says[Due], Cut} : Got(what) /\ Busy
      BY <2>5 DEF Serve
    <3>2. what \in Sayings \cup {Unreadable, Cut}
      BY <3>1, DueIsLeft, ReadIsSaying
    <3> QED
      BY <2>3, <3>1, <3>2
  <2> QED
    BY <1>4, <2>2, <2>4, <2>5 DEF Serving, ServeFails, Answer
<1> QED
  BY <1>2, <1>3, <1>4, KindsOfSteps

\* The files of a report that was settled stay as they are until it is deleted.
LEMMA SettledFilesStay ==
    ASSUME DirectoryOK, SettledOK, [LibraryNext]_library, reading # NoReading,
           NEW n \in reading.settled, n \in Rows(Names), files'[n]["report"] = "whole"
    PROVE  files'[n] = files[n]
<1>1. CASE OpenFile \/ CloseFile
  <2>1. engine # NoScan
    BY <1>1 DEF OpenFile, CloseFile
  <2>2. engine.name # n /\ engine.name \in Rows(Names)
    BY <2>1 DEF SettledOK, DirectoryOK
  <2>3. \E kind, state : files' = [files EXCEPT ![engine.name][kind] = state]
    BY <1>1, Zenon DEF OpenFile, CloseFile
  <2> QED
    BY <2>2, <2>3 DEF DirectoryOK
<1>2. ASSUME NEW m \in Rows(Names), DeleteReport(m) PROVE files'[n] = files[n]
  <2>1. files' = [files EXCEPT ![m] = [k \in Kinds |-> "none"]]
    BY <1>2 DEF DeleteReport
  <2>2. m # n
    BY <2>1 DEF DirectoryOK, Kinds
  <2> QED
    BY <2>1, <2>2 DEF DirectoryOK
<1>3. CASE StartScan \/ KillEngine
  BY <1>3 DEF StartScan, KillEngine
<1> QED
  BY <1>1, <1>2, <1>3, KindsOfSteps DEF Writing

\* No standing report is lost on the way.
LEMMA NothingLostStep ==
    LibraryInv /\ [LibraryNext]_library => NothingLost'
<1> SUFFICES ASSUME DirectoryOK, SettledOK, RequestOK, NothingLost, [LibraryNext]_library,
                    reading' # NoReading, NEW n \in Standing'
             PROVE  n \in reading'.todo \/ Told(n)'
  BY DEF LibraryInv, NothingLost
<1>1. says' = says /\ n \in reading'.settled /\ files'[n]["report"] = "whole"
  BY KindsOfSteps DEF Standing
<1>2. CASE Asking
  <2>1. reading'.settled = Settled \cap reading'.todo
    BY <1>2, NewRequest
  <2> QED
    BY <1>1, <2>1
<1>3. ASSUME reading # NoReading, reading.settled = reading'.settled
      PROVE  /\ n \in Standing /\ files'[n] = files[n] /\ n \in Rows(Names)
             /\ n \in reading.todo \/ Told(n)
             /\ \A what : Delivered(n, what) /\ reading'.kind = reading.kind => Delivered(n, what)'
  <2>1. n \in Rows(Names)
    <3>1. PICK i \in 1 .. scanned : n = Names[i]
      BY <1>1, <1>3 DEF SettledOK
    <3>2. i \in DOMAIN Names
      BY LibraryAssumption DEF DirectoryOK
    <3> QED
      BY <3>1, <3>2 DEF Rows
  <2>2. files'[n] = files[n]
    BY <1>1, <1>3, <2>1, SettledFilesStay
  <2>3. n \in Standing
    BY <1>1, <1>3, <2>2 DEF Standing
  <2>4. \A what : Delivered(n, what) /\ reading'.kind = reading.kind => Delivered(n, what)'
    BY <1>1, <2>2 DEF Delivered
  <2> QED
    BY <1>3, <2>1, <2>2, <2>3, <2>4 DEF NothingLost
<1>4. CASE reading' = reading
  <2>1. reading'.kind = reading.kind /\ reading'.got = reading.got /\ reading'.todo = reading.todo
    BY <1>4
  <2>2. ASSUME Told(n) PROVE Told(n)'
    BY <1>3, <1>4, <2>1, <2>2 DEF Told
  <2> QED
    BY <1>3, <1>4, <2>1, <2>2
<1>5. CASE Serving
  <2>1. /\ reading # NoReading /\ DOMAIN reading' = DOMAIN reading
        /\ DOMAIN reading = {"kind", "todo", "looked", "got", "settled", "entries", "found"}
        /\ reading'.kind = reading.kind /\ reading'.settled = reading.settled
    <3>1. reading # NoReading
      BY <1>5 DEF Serving, Load, Look, Serve, ServeFails, Answer, Busy
    <3> QED
      BY <1>5, <3>1, OngoingRequest DEF RequestOK
  <2>2. CASE Look
    <3>1. reading'.todo = reading.todo /\ reading'.got = reading.got
      BY <2>1, <2>2 DEF Look
    <3>2. ASSUME Told(n) PROVE Told(n)'
      BY <1>3, <2>1, <3>1, <3>2 DEF Told
    <3> QED
      BY <1>3, <2>1, <3>1, <3>2
  <2>3. ASSUME NEW what, Got(what), Busy, Due = n => Delivered(n, what)
        PROVE  n \in reading'.todo \/ Told(n)'
    <3>1. \A w : Delivered(n, w) => Delivered(n, w)'
      BY <1>3, <2>1
    <3>2. /\ reading'.todo = reading.todo \ {Due}
          /\ reading'.got = Append(reading.got, [name |-> Due, says |-> what])
      BY <2>1, <2>3 DEF Got
    <3>3. /\ DOMAIN reading.got = 1..Len(reading.got) /\ Len(reading.got) \in Nat
          /\ DOMAIN reading'.got = 1..(Len(reading.got) + 1)
          /\ \A i \in DOMAIN reading.got : reading'.got[i] = reading.got[i]
          /\ reading'.got[Len(reading.got) + 1] = [name |-> Due, says |-> what]
      BY <2>1, <3>2 DEF RequestOK
    <3>4. CASE n = Due
      <4>1. Len(reading.got) + 1 \in DOMAIN reading'.got
        BY <3>3
      <4>2. reading'.got[Len(reading.got) + 1].name = n /\ reading'.got[Len(reading.got) + 1].says = what
        BY <3>3, <3>4
      <4>3. Delivered(n, what)'
        BY <2>3, <3>1, <3>4
      <4> QED
        BY <4>1, <4>2, <4>3 DEF Told
    <3>5. CASE n # Due /\ n \in reading.todo
      BY <3>2, <3>5
    <3>6. CASE Told(n)
      <4>1. PICK i \in DOMAIN reading.got : reading.got[i].name = n /\ Delivered(n, reading.got[i].says)
        BY <3>6 DEF Told
      <4>2. i \in DOMAIN reading'.got /\ reading'.got[i] = reading.got[i]
        BY <3>3
      <4>3. Delivered(n, reading.got[i].says)'
        BY <1>3, <2>1, <4>1, <4>2
      <4> QED
        BY <4>1, <4>2, <4>3 DEF Told
    <3> QED
      BY <1>3, <2>1, <3>4, <3>5, <3>6
  <2>4. CASE Load
    <3>1. Due = n => Delivered(n, Loaded(Due))
      BY <1>1, <1>3, <2>1, <2>4 DEF Delivered, Loaded, Load, RequestOK
    <3> QED
      BY <2>3, <2>4, <3>1 DEF Load
  <2>5. CASE Serve
    <3>1. reading.kind # "files" /\ files[Due][Format] # "none"
      BY <2>1, <2>5 DEF Serve, Busy, RequestOK
    <3>2. Due = n => Delivered(n, IF files[Due][Format] = "whole" THEN says[Due] ELSE Cut)
      <4>1. files[Due][Format] \in {"none", "partial", "whole"}
        BY <2>5, DueIsLeft DEF Serve, DirectoryOK, Kinds
      <4> QED
        BY <3>1, <4>1 DEF Delivered
    <3> QED
      BY <2>3, <2>5, <3>2 DEF Serve
  <2> QED
    BY <1>5, <2>2, <2>4, <2>5 DEF Serving, ServeFails, Answer
<1> QED
  BY <1>2, <1>4, <1>5, KindsOfSteps

\* While the directory is in use, no standing report is lost by a request.
THEOREM RequestsLoseNothing == LibrarySpec => []LibraryInv
<1>1. LibraryInit => LibraryInv
  BY LibraryStart
<1>2. LibraryInv /\ [LibraryNext]_library => LibraryInv'
  BY DirectoryStep, SettledStep, RequestStep, NothingLostStep DEF LibraryInv
<1> QED
  BY <1>1, <1>2, PTL DEF LibrarySpec

-----------------------------------------------------------------------------
(* What the answers carry. *)

\* Whatever is read of the reports of a project agrees with all of them.
LEMMA SayingsAgree ==
    ASSUME DirectoryOK, NEW r \in Sayings, NEW s \in Sayings
    PROVE  /\ IsReport(r) /\ r \notin {Unreadable, Cut} /\ r.time \in Int
           /\ SameValue(r, s) /\ ~Mentions(r, s.capture)
           /\ \A d \in Rows(r.nodes) : Advisory \notin d.cves
<1>1. ASSUME NEW x \in Sayings
      PROVE  \E n \in Rows(Names) :
                /\ x \in {says[n], Raw(says[n])} /\ IsReport(x) /\ IsReport(says[n])
                /\ x.nodes = says[n].nodes /\ x.malware = says[n].malware
                /\ x.findings = says[n].findings /\ x.c2 = says[n].c2
                /\ x.capture = says[n].capture
  <2>1. PICK n \in Rows(Names) : x \in {says[n], Raw(says[n])}
    BY <1>1 DEF Sayings
  <2>2. IsReport(says[n])
    BY LibraryAssumption DEF DirectoryOK
  <2>3. {"nodes", "malware", "findings", "c2", "capture"} \subseteq DOMAIN says[n]
    BY <2>2 DEF IsReport, Lists
  <2> QED
    BY <2>1, <2>2, <2>3, RawIsReport
<1>2. PICK n \in Rows(Names) :
                /\ r \in {says[n], Raw(says[n])} /\ IsReport(r)
                /\ r.nodes = says[n].nodes /\ r.malware = says[n].malware
                /\ r.findings = says[n].findings /\ r.c2 = says[n].c2
  BY <1>1
<1>3. PICK m \in Rows(Names) : s.malware = says[m].malware /\ s.capture = says[m].capture
  BY <1>1
<1>4. /\ {says[n], Raw(says[n])} \cap {Unreadable, Cut} = {}
      /\ \A d \in Rows(says[n].nodes) : Advisory \notin d.cves
      /\ \A v \in Rows(says[n].malware), w \in Rows(says[m].malware) :
            v.id = w.id /\ v.id # NoText => v.value = w.value
      /\ ~Mentions(says[n], says[m].capture)
  BY LibraryAssumption DEF DirectoryOK
<1> QED
  BY <1>2, <1>3, <1>4 DEF SameValue, Mentions, IsReport

\* The devices that the downloads show.
LEMMA DevicesShown ==
    ASSUME NEW reports, NEW i \in DOMAIN reports, NEW d \in Rows(reports[i].nodes),
           {d.ip, d.mac} # {NoText}
    PROVE  DeviceKey(d) \in DOMAIN AllNodes(reports)
<1> DEFINE At(p) == reports[p[1]].nodes[p[2]]
           places == {p \in UNION {{k} \X DOMAIN reports[k].nodes : k \in DOMAIN reports} :
                        {At(p).ip, At(p).mac} # {NoText}}
<1>1. DOMAIN AllNodes(reports) = {DeviceKey(At(p)) : p \in places}
  BY DEF AllNodes
<1>2. PICK j \in DOMAIN reports[i].nodes : d = reports[i].nodes[j]
  BY DEF Rows
<1>3. <<i, j>> \in {i} \X DOMAIN reports[i].nodes /\ At(<<i, j>>) = d
  BY <1>2
<1>4. <<i, j>> \in places
  BY <1>3
<1> QED
  BY <1>1, <1>3, <1>4

\* Raw leaves out OCSF records and brings none.
LEMMA RawRecords ==
    ASSUME NEW r, IsReport(r)
    PROVE  Rows(OcsfRecords(Raw(r))) \subseteq Rows(OcsfRecords(r))
<1> DEFINE F == [i \in DOMAIN r.findings |-> RiskRecord(r.findings[i])]
           C == [i \in DOMAIN r.c2 |-> C2Record(r.c2[i])]
           M == [i \in DOMAIN r.malware |-> MalwareRecord(r.malware[i])]
           T == [i \in DOMAIN r.classified |-> MitreRecord(r.classified[i])]
<1>1. /\ r.findings \in Seq(Rows(r.findings)) /\ r.c2 \in Seq(Rows(r.c2))
      /\ r.malware \in Seq(Rows(r.malware)) /\ r.classified \in Seq(Rows(r.classified))
      /\ {"findings", "c2", "malware", "classified"} \subseteq DOMAIN r
  BY DEF IsReport, Lists
<1>2. /\ F \in Seq(Rows(F)) /\ C \in Seq(Rows(C)) /\ M \in Seq(Rows(M)) /\ T \in Seq(Rows(T))
  BY <1>1 DEF Rows
<1>3. /\ Raw(r).findings = r.findings /\ Raw(r).c2 = r.c2 /\ Raw(r).malware = r.malware
      /\ Raw(r).classified = <<>>
  BY <1>1, RawIsReport
<1>4. OcsfRecords(Raw(r)) = F \o C \o M \o <<>>
  BY <1>3 DEF OcsfRecords
<1>5. OcsfRecords(r) = F \o C \o M \o T
  BY DEF OcsfRecords
<1> HIDE DEF F, C, M, T
<1>6. \A i \in DOMAIN (F \o C \o M \o <<>>) :
        i \in DOMAIN (F \o C \o M \o T) /\ (F \o C \o M \o T)[i] = (F \o C \o M \o <<>>)[i]
  BY <1>2
<1> QED
  BY <1>4, <1>5, <1>6 DEF Rows

\* A request that is answered has given every standing report, among reports only.
LEMMA AnswerHasAll ==
    ASSUME LibraryInv, NEW kind \in {"files", "ocsf", "own"}, Answers(kind)
    PROVE  /\ DOMAIN Reports \subseteq Nat /\ \A i \in DOMAIN Reports : Reports[i] \in Sayings
           /\ IsFiniteSet(DOMAIN Reports)
           /\ \A n \in Standing :
                /\ n \in Rows(Names)
                /\ \/ \E i \in DOMAIN Reports :
                        \/ kind # "own" /\ Reports[i] = Raw(says[n])
                        \/ kind # "files" /\ Reports[i] = says[n]
                   \/ kind # "files" /\ files[n][Format] = "partial"
<1>1. reading # NoReading /\ reading.todo = {} /\ reading.kind = kind
  BY DEF Answers, Busy, NoReading
<1>2. reading.got \in Seq([name : Rows(Names), says : Sayings \cup {Unreadable, Cut}])
  BY <1>1 DEF LibraryInv, RequestOK
<1>3. /\ DOMAIN Reports = Usable /\ \A i \in Usable : Reports[i] = reading.got[i].says
      /\ Usable \subseteq 1..Len(reading.got) /\ Len(reading.got) \in Nat
      /\ \A i \in Usable : Reports[i] \in Sayings
  <2>1. DOMAIN reading.got = 1..Len(reading.got) /\ Len(reading.got) \in Nat
    BY <1>2
  <2>2. \A i \in DOMAIN reading.got : reading.got[i].says \in Sayings \cup {Unreadable, Cut}
    <3>1. \A i \in DOMAIN reading.got :
              reading.got[i] \in [name : Rows(Names), says : Sayings \cup {Unreadable, Cut}]
      <4>1. \A S : \A q \in Seq(S) : \A i \in DOMAIN q : q[i] \in S
        OBVIOUS
      <4> QED
        BY <1>2, <4>1, Zenon
    <3>2. \A g \in [name : Rows(Names), says : Sayings \cup {Unreadable, Cut}] :
              g.says \in Sayings \cup {Unreadable, Cut}
      OBVIOUS
    <3> QED
      BY <3>1, <3>2
  <2>3. DOMAIN Reports = Usable /\ \A i \in Usable : Reports[i] = reading.got[i].says
    BY Zenon DEF Reports
  <2>4. /\ Usable \subseteq DOMAIN reading.got
        /\ \A i \in Usable : reading.got[i].says \notin {Unreadable, Cut}
    BY DEF Usable
  <2> QED
    BY <2>1, <2>2, <2>3, <2>4
<1>4. IsFiniteSet(Usable)
  <2>1. IsFiniteSet(1..Len(reading.got))
    BY <1>3, FS_Interval
  <2> QED
    BY <1>3, <2>1, FS_Subset
<1>5. ASSUME NEW n \in Standing
      PROVE  /\ n \in Rows(Names)
             /\ \/ \E i \in DOMAIN Reports :
                     \/ kind # "own" /\ Reports[i] = Raw(says[n])
                     \/ kind # "files" /\ Reports[i] = says[n]
                \/ kind # "files" /\ files[n][Format] = "partial"
  <2>1. n \in Rows(Names)
    <3>1. PICK i \in 1 .. scanned : n = Names[i]
      BY <1>1, <1>5 DEF LibraryInv, SettledOK, Standing
    <3>2. i \in DOMAIN Names
      BY LibraryAssumption DEF LibraryInv, DirectoryOK
    <3> QED
      BY <3>1, <3>2 DEF Rows
  <2>2. PICK i \in DOMAIN reading.got : Delivered(n, reading.got[i].says)
    BY <1>1, <1>5 DEF LibraryInv, NothingLost, Told
  <2>3. {says[n], Raw(says[n])} \subseteq Sayings
    BY <2>1 DEF Sayings
  <2>4. reading.got[i].says \in Sayings => i \in Usable
    BY <2>2, SayingsAgree DEF Usable, LibraryInv
  <2> QED
    BY <1>1, <1>3, <2>1, <2>2, <2>3, <2>4 DEF Delivered
<1> QED
  BY <1>3, <1>4, <1>5

\* The merged exports of a project carry what each of its standing reports has.
LEMMA MergesCarry ==
    ASSUME LibraryInv, Answers("files"), NEW n \in Standing, NEW o \in Objects(Raw(says[n]))
    PROVE  Carried(o, MergedBundle(Reports)
                      \cup {[id |-> s.id, watches |-> s.nodes] : s \in MergedRules(Reports)})
<1>1. /\ DOMAIN Reports \subseteq Nat
      /\ \A k \in DOMAIN Reports : Reports[k] \in Sayings
  BY AnswerHasAll
<1>2. PICK i \in DOMAIN Reports : Reports[i] = Raw(says[n])
  BY AnswerHasAll
<1>3. CASE o \in Bundle(Raw(says[n]))
  <2> DEFINE objects == [k \in DOMAIN Reports |-> Bundle(Reports[k])]
  <2>1. PICK p \in Merged(objects), k \in DOMAIN Reports : p.id = o.id /\ p \in Bundle(Reports[k])
    <3>1. /\ DOMAIN objects \subseteq Nat /\ i \in DOMAIN objects /\ o \in objects[i]
          /\ \A k \in DOMAIN objects : k \in DOMAIN Reports /\ objects[k] = Bundle(Reports[k])
      BY <1>1, <1>2, <1>3
    <3> HIDE DEF objects
    <3>2. \E p \in Merged(objects) : p.id = o.id /\ \E k \in DOMAIN objects : p \in objects[k]
      BY <3>1, MergeCarries
    <3> QED
      BY <3>1, <3>2
  <2>2. p.watches = o.watches \/ Cardinality(o.watches) >= PatternCap \/ o.id = Unknown
    <3>1. Reports[i] \in Sayings /\ Reports[k] \in Sayings /\ o \in Bundle(Reports[i])
      BY <1>1, <1>2, <1>3
    <3>2. /\ IsReport(Reports[i]) /\ IsReport(Reports[k]) /\ SameValue(Reports[i], Reports[k])
      BY <3>1, SayingsAgree DEF LibraryInv
    <3> QED
      BY <2>1, <3>1, <3>2, BundlesAgree, LibraryAssumption
  <2>3. p \in MergedBundle(Reports)
    BY <2>1 DEF MergedBundle
  <2> QED
    BY <2>1, <2>2, <2>3 DEF Carried
<1>4. ASSUME NEW r \in SigmaRules(Raw(says[n])), o = [id |-> r.id, watches |-> r.nodes]
      PROVE  Carried(o, MergedBundle(Reports)
                        \cup {[id |-> s.id, watches |-> s.nodes] : s \in MergedRules(Reports)})
  <2> DEFINE objects == [k \in DOMAIN Reports |-> SigmaRules(Reports[k])]
  <2>1. PICK p \in Merged(objects), k \in DOMAIN Reports : p.id = r.id /\ p \in SigmaRules(Reports[k])
    <3>1. /\ DOMAIN objects \subseteq Nat /\ i \in DOMAIN objects /\ r \in objects[i]
          /\ \A k \in DOMAIN objects : k \in DOMAIN Reports /\ objects[k] = SigmaRules(Reports[k])
      BY <1>1, <1>2, <1>4
    <3> HIDE DEF objects
    <3>2. \E p \in Merged(objects) : p.id = r.id /\ \E k \in DOMAIN objects : p \in objects[k]
      BY <3>1, MergeCarries
    <3> QED
      BY <3>1, <3>2
  <2>2. p.nodes = r.nodes
    <3>1. Reports[i] \in Sayings /\ Reports[k] \in Sayings /\ r \in SigmaRules(Reports[i])
      BY <1>1, <1>2, <1>4
    <3>2. ~Mentions(Reports[i], Reports[k].capture) /\ ~Mentions(Reports[k], Reports[i].capture)
      BY <3>1, SayingsAgree DEF LibraryInv
    <3> QED
      BY <2>1, <3>1, <3>2, RulesAgree
  <2>3. p \in MergedRules(Reports)
    BY <2>1 DEF MergedRules
  <2>4. [id |-> p.id, watches |-> p.nodes] = o
    BY <1>4, <2>1, <2>2
  <2> QED
    BY <2>3, <2>4 DEF Carried
<1> QED
  BY <1>3, <1>4 DEF Objects

\* ExportsCarryEveryReport, of every directory and every interleaving of scans,
\* deletions and requests.
THEOREM ExportsCarryAll == LibrarySpec => []ExportsCarryEveryReport
<1>1. ASSUME LibraryInv, Answers("files"), NEW n \in Standing
      PROVE  /\ \A d \in Rows(says[n].nodes) :
                   {d.ip, d.mac} # {NoText} => DeviceKey(d) \in DOMAIN AllNodes(Reports)
             /\ Denied(Rows(says[n].violations)) \subseteq Denied(AllViolations(Reports))
  <2>1. PICK i \in DOMAIN Reports : n \in Rows(Names) /\ Reports[i] = Raw(says[n])
    BY <1>1, AnswerHasAll
  <2>2. IsReport(says[n])
    BY <1>1, <2>1, LibraryAssumption DEF LibraryInv, DirectoryOK
  <2>3. Reports[i].nodes = says[n].nodes /\ Reports[i].violations = says[n].violations
    <3>1. {"nodes", "violations"} \subseteq DOMAIN says[n]
      BY <2>2 DEF IsReport, Lists
    <3> QED
      BY <2>1, <2>2, <3>1, RawIsReport
  <2>4. Rows(says[n].violations) \subseteq AllViolations(Reports)
    <3>1. Rows(Reports[i].violations) \in {Rows(Reports[k].violations) : k \in DOMAIN Reports}
      BY <2>1
    <3>2. Rows(Reports[i].violations) \subseteq AllViolations(Reports)
      BY <3>1, Zenon DEF AllViolations
    <3> QED
      BY <2>3, <3>2
  <2> QED
    BY <2>3, <2>4, DevicesShown DEF Denied
<1>2. ASSUME LibraryInv, NEW kind \in {"ocsf", "own"}, Answers(kind), NEW n \in Standing,
             files[n][Format] # "partial"
      PROVE  Rows(OcsfRecords(IF kind = "own" THEN says[n] ELSE Raw(says[n])))
                \subseteq UNION {Rows(OcsfRecords(Reports[i])) : i \in DOMAIN Reports}
  <2>1. PICK i \in DOMAIN Reports :
            /\ n \in Rows(Names)
            /\ Reports[i] = says[n] \/ (kind # "own" /\ Reports[i] = Raw(says[n]))
    BY <1>2, AnswerHasAll
  <2>2. IsReport(says[n])
    BY <1>2, <2>1, LibraryAssumption DEF LibraryInv, DirectoryOK
  <2>3. Rows(OcsfRecords(IF kind = "own" THEN says[n] ELSE Raw(says[n])))
            \subseteq Rows(OcsfRecords(Reports[i]))
    BY <2>1, <2>2, RawRecords
  <2> QED
    BY <2>3
<1>3. LibraryInv => ExportsCarryEveryReport
  <2>1. Answers("ocsf") => reading.kind = "ocsf"
    BY DEF Answers
  <2>2. Answers("own") => reading.kind = "own"
    BY DEF Answers
  <2> QED
    BY <1>1, <1>2, <2>1, <2>2, MergesCarry DEF ExportsCarryEveryReport
<1> QED
  BY <1>3, RequestsLoseNothing, PTL

-----------------------------------------------------------------------------
(* The audit. *)

\* The tracker after a report is made from the one before it.
TrackersOf(T, reports, m) ==
    T = [n \in 0 .. m |-> IF n = 0 THEN [v \in {} |-> "active"]
                          ELSE Track(T[n - 1], reports[Nth(reports, n)])]
\* The recursion of the audit has a solution, so its tracker unfolds.
LEMMA TrackersUnfold ==
    ASSUME NEW reports, Cardinality(DOMAIN reports) \in Nat
    PROVE  TrackersOf(Trackers(reports), reports, Cardinality(DOMAIN reports))
<1> DEFINE N == Cardinality(DOMAIN reports)
           Bad == {m \in 0 .. N : ~ \E T : TrackersOf(T, reports, m)}
<1>1. Bad = {}
  <2> SUFFICES ASSUME Bad # {} PROVE FALSE
    OBVIOUS
  <2>1. PICK m \in Bad : \A k \in Bad : m <= k
    <3>1. Bad \in SUBSET Nat
      OBVIOUS
    <3> QED
      BY <3>1, LeastOf
  <2>2. CASE m = 0
    <3>1. TrackersOf([n \in 0 .. 0 |-> [v \in {} |-> "active"]], reports, 0)
      BY DEF TrackersOf
    <3> QED
      BY <2>1, <2>2, <3>1
  <2>3. CASE m # 0
    <3>1. m \in Nat /\ m - 1 \in 0 .. N /\ m - 1 \notin Bad
      BY <2>1, <2>3
    <3>2. PICK T : TrackersOf(T, reports, m - 1)
      BY <3>1
    <3> DEFINE U == [n \in 0 .. m |-> IF n = m THEN Track(T[m - 1], reports[Nth(reports, m)])
                                      ELSE T[n]]
    <3>3. TrackersOf(U, reports, m)
      <4>1. U[0] = [v \in {} |-> "active"]
        BY <2>3, <3>1, <3>2 DEF TrackersOf
      <4>2. \A n \in 1 .. m : U[n] = Track(U[n - 1], reports[Nth(reports, n)])
        <5> SUFFICES ASSUME NEW n \in 1 .. m PROVE U[n] = Track(U[n - 1], reports[Nth(reports, n)])
          OBVIOUS
        <5>1. U[n - 1] = T[n - 1]
          BY <3>1
        <5>2. CASE n = m
          BY <3>1, <5>1, <5>2
        <5>3. CASE n # m
          <6>1. n \in 0 .. m - 1 /\ n # 0 /\ U[n] = T[n]
            BY <3>1, <5>3
          <6>2. T[n] = Track(T[n - 1], reports[Nth(reports, n)])
            BY <3>2, <6>1 DEF TrackersOf
          <6> QED
            BY <5>1, <6>1, <6>2
        <5> QED
          BY <5>2, <5>3
      <4>3. U = [n \in 0 .. m |-> U[n]]
        OBVIOUS
      <4> HIDE DEF U
      <4>4. \A n \in 0 .. m : U[n] = IF n = 0 THEN [v \in {} |-> "active"]
                                     ELSE Track(U[n - 1], reports[Nth(reports, n)])
        BY <3>1, <4>1, <4>2
      <4> QED
        BY <4>3, <4>4 DEF TrackersOf
    <3> QED
      BY <2>1, <3>3
  <2> QED
    BY <2>2, <2>3
<1>2. \E T : TrackersOf(T, reports, N)
  BY <1>1
<1>3. Trackers(reports) = CHOOSE T : T = [n \in 0 .. N |-> IF n = 0 THEN [v \in {} |-> "active"]
                                          ELSE Track(T[n - 1], reports[Nth(reports, n)])]
  BY Zenon DEF Trackers
<1> QED
  BY <1>2, <1>3, Zenon DEF TrackersOf

\* The reports of an audit have an order: each has its rank, and the last one has
\* all others before it.
Rank(reports, i) == Cardinality({j \in DOMAIN reports : Before(reports, j, i)})
\* No two reports have the same rank, so each is the n-th for one n.
LEMMA RanksAreDistinct ==
    ASSUME NEW reports, DOMAIN reports \subseteq Nat, IsFiniteSet(DOMAIN reports),
           \A i \in DOMAIN reports : reports[i].time \in Int
    PROVE  /\ Cardinality(DOMAIN reports) \in Nat
           /\ \A i, j \in DOMAIN reports : Before(reports, i, j) => Rank(reports, i) < Rank(reports, j)
           /\ \A i \in DOMAIN reports : /\ Rank(reports, i) \in 0 .. (Cardinality(DOMAIN reports) - 1)
                                        /\ Nth(reports, Rank(reports, i) + 1) = i
<1> DEFINE D == DOMAIN reports
           Ahead(i) == {j \in D : Before(reports, j, i)}
<1>1. /\ \A i \in D : ~Before(reports, i, i)
      /\ \A i, j \in D : i # j => Before(reports, i, j) \/ Before(reports, j, i)
      /\ \A i, j, k \in D : Before(reports, i, j) /\ Before(reports, j, k) => Before(reports, i, k)
  BY DEF Before
<1>2. Cardinality(D) \in Nat
  BY FS_CardinalityType
<1>3. ASSUME NEW i \in D
      PROVE  /\ IsFiniteSet(Ahead(i)) /\ Cardinality(Ahead(i)) \in 0 .. (Cardinality(D) - 1)
  <2>1. /\ IsFiniteSet(Ahead(i)) /\ Cardinality(Ahead(i)) <= Cardinality(D)
        /\ Cardinality(D) = Cardinality(Ahead(i)) => D = Ahead(i)
    BY FS_Subset
  <2>2. Ahead(i) # D
    BY <1>1, <1>3
  <2>3. Cardinality(Ahead(i)) \in Nat
    BY <2>1, FS_CardinalityType
  <2> HIDE DEF Ahead, D
  <2> QED
    BY <1>2, <2>1, <2>2, <2>3
<1>4. ASSUME NEW i \in D, NEW j \in D, Before(reports, i, j)
      PROVE  Cardinality(Ahead(i)) < Cardinality(Ahead(j))
  <2>1. Ahead(i) \subseteq Ahead(j)
    BY <1>1, <1>4
  <2>2. i \in Ahead(j) /\ i \notin Ahead(i)
    BY <1>1, <1>4
  <2>3. /\ Cardinality(Ahead(i)) <= Cardinality(Ahead(j))
        /\ Cardinality(Ahead(j)) = Cardinality(Ahead(i)) => Ahead(j) = Ahead(i)
    BY <1>3, <2>1, FS_Subset
  <2> HIDE DEF D, Ahead
  <2>4. Cardinality(Ahead(i)) \in Nat /\ Cardinality(Ahead(j)) \in Nat
    BY <1>3, <1>4
  <2> QED
    BY <2>2, <2>3, <2>4
<1>5. \A i \in D : Rank(reports, i) = Cardinality(Ahead(i))
  BY DEF Rank
<1>6. ASSUME NEW i \in D PROVE Nth(reports, Rank(reports, i) + 1) = i
  <2>1. Nth(reports, Rank(reports, i) + 1)
            = CHOOSE k \in D : Rank(reports, k) = (Rank(reports, i) + 1) - 1
    BY DEF Nth, Rank
  <2>2. (Rank(reports, i) + 1) - 1 = Rank(reports, i)
    <3> HIDE DEF D, Ahead
    <3>1. Rank(reports, i) \in Nat
      BY <1>3, <1>5, <1>6
    <3> QED
      BY <3>1
  <2>3. \A k \in D : Rank(reports, k) = Rank(reports, i) => k = i
    <3> HIDE DEF D, Ahead
    <3> SUFFICES ASSUME NEW k \in D, Rank(reports, k) = Rank(reports, i), k # i PROVE FALSE
      OBVIOUS
    <3>1. Cardinality(Ahead(i)) \in Nat /\ Cardinality(Ahead(k)) \in Nat
      BY <1>3
    <3>2. Cardinality(Ahead(i)) # Cardinality(Ahead(k))
      BY <1>1, <1>4, <3>1
    <3> QED
      BY <1>5, <3>2
  <2> HIDE DEF D
  <2> QED
    BY <2>1, <2>2, <2>3
<1> QED
  BY <1>2, <1>3, <1>4, <1>5, <1>6

\* The report that all others are before is the last.
LEMMA TheNewestIsLast ==
    ASSUME NEW reports, DOMAIN reports \subseteq Nat, IsFiniteSet(DOMAIN reports),
           DOMAIN reports # {}, \A i \in DOMAIN reports : reports[i].time \in Int
    PROVE  LET Newest == CHOOSE i \in DOMAIN reports : \A j \in DOMAIN reports :
                            \/ reports[j].time < reports[i].time
                            \/ reports[j].time = reports[i].time /\ j <= i
           IN  /\ Newest \in DOMAIN reports /\ Cardinality(DOMAIN reports) \in Nat \ {0}
               /\ Nth(reports, Cardinality(DOMAIN reports)) = Newest
<1> DEFINE D == DOMAIN reports
           N == Cardinality(D)
           Top(i) == \A j \in D : \/ reports[j].time < reports[i].time
                                  \/ reports[j].time = reports[i].time /\ j <= i
           Slack == {N - Rank(reports, i) : i \in D}
<1>1. /\ N \in Nat
      /\ \A i, j \in D : Before(reports, i, j) => Rank(reports, i) < Rank(reports, j)
      /\ \A i \in D : Rank(reports, i) \in 0 .. (N - 1) /\ Nth(reports, Rank(reports, i) + 1) = i
  BY RanksAreDistinct
<1>2. PICK i \in D : \A j \in D : Rank(reports, j) <= Rank(reports, i)
  <2> HIDE DEF D, N
  <2>1. Slack \in SUBSET Nat /\ Slack # {}
    BY <1>1 DEF D
  <2>2. PICK x \in Slack : \A y \in Slack : x <= y
    BY <2>1, LeastOf
  <2>3. PICK i \in D : x = N - Rank(reports, i)
    BY <2>2
  <2>4. ASSUME NEW j \in D PROVE Rank(reports, j) <= Rank(reports, i)
    <3>1. x <= N - Rank(reports, j)
      BY <2>2
    <3>2. Rank(reports, i) \in Nat /\ Rank(reports, j) \in Nat
      BY <1>1
    <3> QED
      BY <1>1, <2>3, <3>1, <3>2
  <2> QED
    BY <2>4
<1>3. \A j \in D : j = i \/ Before(reports, j, i)
  <2> SUFFICES ASSUME NEW j \in D, j # i, ~Before(reports, j, i) PROVE FALSE
    OBVIOUS
  <2>1. Before(reports, i, j)
    BY DEF Before
  <2>2. Rank(reports, i) < Rank(reports, j) /\ Rank(reports, j) <= Rank(reports, i)
    BY <1>1, <1>2, <2>1
  <2>3. Rank(reports, i) \in Nat /\ Rank(reports, j) \in Nat
    BY <1>1
  <2> QED
    BY <2>2, <2>3
<1>4. Top(i)
  BY <1>3 DEF Before
<1>5. \A k \in D : Top(k) => k = i
  <2> SUFFICES ASSUME NEW k \in D, Top(k), k # i PROVE FALSE
    OBVIOUS
  <2>1. Before(reports, k, i)
    BY <1>3
  <2>2. \/ reports[i].time < reports[k].time
        \/ reports[i].time = reports[k].time /\ i <= k
    OBVIOUS
  <2> QED
    BY <2>1, <2>2 DEF Before
<1>6. (CHOOSE k \in D : Top(k)) = i
  <2> HIDE DEF D, Top
  <2> QED
    BY <1>4, <1>5
<1>7. Rank(reports, i) = N - 1
  <2>1. {j \in D : Before(reports, j, i)} = D \ {i}
    BY <1>3 DEF Before
  <2>2. Cardinality(D \ {i}) = N - 1
    BY FS_RemoveElement
  <2> QED
    BY <2>1, <2>2 DEF Rank
<1>8. Nth(reports, N) = i
  <2>1. (N - 1) + 1 = N
    BY <1>1
  <2> HIDE DEF N
  <2> QED
    BY <1>1, <1>7, <2>1
<1>9. N # 0
  BY FS_EmptySet
<1> QED
  BY <1>1, <1>6, <1>8, <1>9

\* What an audit says of a vulnerability is what its last report says.
LEMMA AuditOfTheLast ==
    ASSUME NEW reports, DOMAIN reports \subseteq Nat, IsFiniteSet(DOMAIN reports),
           Cardinality(DOMAIN reports) \in Nat \ {0},
           \A i \in DOMAIN reports : /\ reports[i].time \in Int
                                     /\ \A d \in Rows(reports[i].nodes) : Advisory \notin d.cves,
           NEW last, last = Nth(reports, Cardinality(DOMAIN reports)), last \in DOMAIN reports,
           NEW i \in DOMAIN reports, NEW v \in AtDevices(reports[i])
    PROVE  Audit(reports)[v] = "active" <=> v \in AtDevices(reports[last])
<1> DEFINE N == Cardinality(DOMAIN reports)
           T == Trackers(reports)
<1>1. TrackersOf(T, reports, N) /\ N \in Nat /\ N # 0
  BY TrackersUnfold
<1>2. \A n \in 1 .. N : T[n] = Track(T[n - 1], reports[Nth(reports, n)])
  <2> HIDE DEF N, T
  <2> QED
    BY <1>1 DEF TrackersOf
<1>3. \A t, r : DOMAIN Track(t, r) = DOMAIN t \cup AtDevices(r) \cup InFindings(r)
  BY DEF Track
<1>4. v \in DOMAIN T[N]
  <2> DEFINE k == Rank(reports, i) + 1
             Bad == {m \in k .. N : v \notin DOMAIN T[m]}
  <2> HIDE DEF N, T
  <2>1. k \in 1 .. N /\ Nth(reports, k) = i
    BY <1>1, RanksAreDistinct DEF N
  <2>2. T[k] = Track(T[k - 1], reports[i])
    BY <1>2, <2>1
  <2>3. v \in DOMAIN T[k]
    BY <1>3, <2>2
  <2> HIDE DEF k
  <2>4. Bad = {}
    <3> SUFFICES ASSUME Bad # {} PROVE FALSE
      OBVIOUS
    <3>1. Bad \in SUBSET Nat
      BY <1>1, <2>1
    <3>2. PICK m \in Bad : \A j \in Bad : m <= j
      BY <3>1, LeastOf
    <3>3. m \in 1 .. N /\ m - 1 \in k .. N /\ ~(m <= m - 1)
      BY <1>1, <2>1, <2>3, <3>2
    <3>4. v \in DOMAIN T[m - 1]
      BY <3>2, <3>3
    <3>5. T[m] = Track(T[m - 1], reports[Nth(reports, m)])
      BY <1>2, <3>3
    <3>6. v \in DOMAIN T[m]
      BY <1>3, <3>4, <3>5
    <3> QED
      BY <3>2, <3>6
  <2> QED
    BY <1>1, <2>1, <2>4
<1>5. \A r : \A w \in AtDevices(r) : \E d \in Rows(r.nodes) : w[1] \in d.cves
  <2> SUFFICES ASSUME NEW r, NEW w \in AtDevices(r) PROVE \E d \in Rows(r.nodes) : w[1] \in d.cves
    OBVIOUS
  <2>1. PICK d \in Rows(r.nodes) :
            w \in {<<cve, IF d.ip = NoText THEN NoAddress ELSE d.ip>> : cve \in d.cves}
    BY Zenon DEF AtDevices
  <2> QED
    BY <2>1
<1>6. \A r : \A w \in InFindings(r) : w[1] = Advisory
  <2> SUFFICES ASSUME NEW r, NEW w \in InFindings(r) PROVE w[1] = Advisory
    OBVIOUS
  <2>1. PICK f \in Rows(r.findings) :
            w \in {<<Advisory, key>> : key \in IF f.nodes = <<>> THEN {NoAddress} ELSE Rows(f.nodes)}
    BY Zenon DEF InFindings
  <2> QED
    BY <2>1
<1>7. v \notin InFindings(reports[last])
  BY <1>5, <1>6
<1>8. T[N] = Track(T[N - 1], reports[last])
  <2>1. N \in 1 .. N
    BY <1>1
  <2> HIDE DEF N, T
  <2> QED
    BY <1>2, <2>1 DEF N
<1>9. v \in DOMAIN Track(T[N - 1], reports[last])
  BY <1>4, <1>8
<1>10. Track(T[N - 1], reports[last])[v] = "active" <=> v \in AtDevices(reports[last])
  <2> HIDE DEF N, T
  <2> QED
    BY <1>7, <1>9 DEF Track
<1> QED
  BY <1>8, <1>10 DEF Audit

\* AuditFollowsTheNewestReport, however many reports there are and whenever they
\* were written.
THEOREM AuditFollowsTheNewest == LibrarySpec => []AuditFollowsTheNewestReport
<1>1. LibraryInv => AuditFollowsTheNewestReport
  <2> SUFFICES ASSUME LibraryInv, Answers("files"), Usable # {} PROVE AuditFollowsTheNewestReport
    BY DEF AuditFollowsTheNewestReport
  <2> DEFINE Newest == CHOOSE i \in DOMAIN Reports : \A j \in DOMAIN Reports :
                            \/ Reports[j].time < Reports[i].time
                            \/ Reports[j].time = Reports[i].time /\ j <= i
  <2>1. /\ DOMAIN Reports \subseteq Nat /\ IsFiniteSet(DOMAIN Reports)
        /\ \A i \in DOMAIN Reports : Reports[i] \in Sayings
    BY AnswerHasAll
  <2>2. DOMAIN Reports # {}
    BY DEF Reports
  <2>3. \A i \in DOMAIN Reports : /\ Reports[i].time \in Int
                                  /\ \A d \in Rows(Reports[i].nodes) : Advisory \notin d.cves
    BY <2>1, SayingsAgree DEF LibraryInv
  <2>4. /\ Newest \in DOMAIN Reports /\ Cardinality(DOMAIN Reports) \in Nat \ {0}
        /\ Nth(Reports, Cardinality(DOMAIN Reports)) = Newest
    BY <2>1, <2>2, <2>3, TheNewestIsLast
  <2> HIDE DEF Newest
  <2>5. ASSUME NEW v \in UNION {AtDevices(Reports[i]) : i \in DOMAIN Reports}
        PROVE  Audit(Reports)[v] = "active" <=> v \in AtDevices(Reports[Newest])
    <3>1. PICK i \in DOMAIN Reports : v \in AtDevices(Reports[i])
      BY <2>5
    <3> QED
      BY <2>1, <2>3, <2>4, <3>1, AuditOfTheLast
  <2> QED
    BY <2>5 DEF AuditFollowsTheNewestReport, Newest
<1> QED
  BY <1>1, RequestsLoseNothing, PTL

-----------------------------------------------------------------------------
(* Hunts. *)

\* What holds at the start and after each of n steps holds all the way.
LEMMA Climb ==
    ASSUME NEW n \in Nat, NEW S, 0 \in S, \A k \in 0 .. n : k # n /\ k \in S => k + 1 \in S
    PROVE  \A k \in 0 .. n : k \in S
<1> DEFINE Bad == {k \in 0 .. n : k \notin S}
<1>1. Bad \in SUBSET Nat
  OBVIOUS
<1> SUFFICES ASSUME Bad # {} PROVE FALSE
  OBVIOUS
<1>2. PICK k \in Bad : \A j \in Bad : k <= j
  BY <1>1, LeastOf
<1>3. k # 0 /\ k \in 1 .. n
  BY <1>2
<1>4. k - 1 \in 0 .. n /\ k - 1 # n /\ k - 1 \notin Bad /\ (k - 1) + 1 = k
  BY <1>2, <1>3
<1> QED
  BY <1>2, <1>4

\* A scan after each of its indicators is made from the one before it.
ScansOf(S, name, r, entries, m) ==
    S = [k \in 0 .. m |-> IF k = 0 THEN [hits |-> <<>>, count |-> 0]
                          ELSE Scan(S[k - 1], name, r, entries[k])]
\* The recursion of a scan has a solution.
LEMMA ScansUnfold ==
    ASSUME NEW name, NEW r, NEW entries, Len(entries) \in Nat
    PROVE  ScansOf(Scans(name, r, entries), name, r, entries, Len(entries))
<1> DEFINE Good == {m \in 0 .. Len(entries) : \E S : ScansOf(S, name, r, entries, m)}
<1>1. 0 \in Good
  <2>1. ScansOf([k \in 0 .. 0 |-> [hits |-> <<>>, count |-> 0]], name, r, entries, 0)
    BY DEF ScansOf
  <2> QED
    BY <2>1
<1>2. ASSUME NEW m \in 0 .. Len(entries), m # Len(entries), m \in Good PROVE m + 1 \in Good
  <2>1. PICK S : ScansOf(S, name, r, entries, m)
    BY <1>2
  <2> DEFINE U == [k \in 0 .. m + 1 |-> IF k = m + 1 THEN Scan(S[m], name, r, entries[m + 1])
                                        ELSE S[k]]
  <2>2. U[0] = [hits |-> <<>>, count |-> 0]
    BY <2>1 DEF ScansOf
  <2>3. \A k \in 1 .. m + 1 : U[k] = Scan(U[k - 1], name, r, entries[k])
    <3> SUFFICES ASSUME NEW k \in 1 .. m + 1 PROVE U[k] = Scan(U[k - 1], name, r, entries[k])
      OBVIOUS
    <3>1. U[k - 1] = S[k - 1]
      OBVIOUS
    <3>2. CASE k = m + 1
      BY <3>1, <3>2
    <3>3. CASE k # m + 1
      <4>1. k \in 0 .. m /\ k # 0 /\ U[k] = S[k]
        BY <3>3
      <4>2. S[k] = Scan(S[k - 1], name, r, entries[k])
        BY <2>1, <4>1 DEF ScansOf
      <4> QED
        BY <3>1, <4>1, <4>2
    <3> QED
      BY <3>2, <3>3
  <2>4. U = [k \in 0 .. m + 1 |-> U[k]]
    OBVIOUS
  <2> HIDE DEF U
  <2>5. \A k \in 0 .. m + 1 : U[k] = IF k = 0 THEN [hits |-> <<>>, count |-> 0]
                                     ELSE Scan(U[k - 1], name, r, entries[k])
    BY <2>2, <2>3
  <2>6. ScansOf(U, name, r, entries, m + 1)
    BY <2>4, <2>5 DEF ScansOf
  <2> QED
    BY <1>2, <2>6
<1>3. Len(entries) \in Good
  <2> HIDE DEF Good
  <2>1. \A k \in 0 .. Len(entries) : k # Len(entries) /\ k \in Good => k + 1 \in Good
    BY <1>2
  <2>2. \A k \in 0 .. Len(entries) : k \in Good
    BY <1>1, <2>1, Climb, Zenon
  <2> QED
    BY <2>2
<1>4. \E S : ScansOf(S, name, r, entries, Len(entries))
  BY <1>3
<1>5. Scans(name, r, entries)
        = CHOOSE S : S = [k \in 0 .. Len(entries) |->
                              IF k = 0 THEN [hits |-> <<>>, count |-> 0]
                              ELSE Scan(S[k - 1], name, r, entries[k])]
  BY Zenon DEF Scans
<1> QED
  BY <1>4, <1>5, Zenon DEF ScansOf

\* Places have an order, and finitely many of them a first.
Spots == [table : Nat, row : Nat, column : Nat]
\* Any two places are ordered.
LEMMA PlacesAreOrdered ==
    /\ \A p \in Spots : ~Precedes(p, p)
    /\ \A p, q \in Spots : p # q => Precedes(p, q) \/ Precedes(q, p)
    /\ \A p, q, s \in Spots : Precedes(p, q) /\ Precedes(q, s) => Precedes(p, s)
<1>1. \A p, q \in Spots : p.table = q.table /\ p.row = q.row /\ p.column = q.column => p = q
  BY DEF Spots
<1>2. \A p \in Spots : p.table \in Nat /\ p.row \in Nat /\ p.column \in Nat
  BY DEF Spots
<1> QED
  BY <1>1, <1>2 DEF Precedes

\* Some place has none before it: by its table, then its row, then its column.
LEMMA FirstPlace ==
    ASSUME NEW places \in SUBSET Spots, places # {}
    PROVE  \E p \in places : \A q \in places : ~Precedes(q, p)
<1> DEFINE T == {p.table : p \in places}
<1>1. \A p \in places : p.table \in Nat /\ p.row \in Nat /\ p.column \in Nat
  BY DEF Spots
<1>2. PICK t \in T : \A u \in T : t <= u
  <2>1. T \in SUBSET Nat /\ T # {}
    BY <1>1
  <2> QED
    BY <2>1, LeastOf
<1> DEFINE R == {p.row : p \in {q \in places : q.table = t}}
<1>3. PICK w \in R : \A u \in R : w <= u
  <2>1. R \in SUBSET Nat /\ R # {}
    BY <1>1, <1>2
  <2> QED
    BY <2>1, LeastOf
<1> DEFINE C == {p.column : p \in {q \in places : q.table = t /\ q.row = w}}
<1>4. PICK c \in C : \A u \in C : c <= u
  <2>1. C \in SUBSET Nat /\ C # {}
    BY <1>1, <1>3
  <2> QED
    BY <2>1, LeastOf
<1>5. PICK p \in places : p.table = t /\ p.row = w /\ p.column = c
  BY <1>4
<1>6. ASSUME NEW q \in places, Precedes(q, p) PROVE FALSE
  <2>1. t <= q.table /\ (q.table = t => w <= q.row) /\ (q.table = t /\ q.row = w => c <= q.column)
    BY <1>2, <1>3, <1>4
  <2>2. t \in Nat /\ w \in Nat /\ c \in Nat
    BY <1>1, <1>5
  <2> HIDE DEF T, R, C
  <2> QED
    BY <1>1, <1>5, <1>6, <2>1, <2>2 DEF Precedes
<1> QED
  BY <1>6

\* _record: of some matches, the first are taken: no more than there is room for,
\* and one if there is any.
LEMMA FirstOnes ==
    ASSUME NEW places \in SUBSET Spots, IsFiniteSet(places), NEW n \in Nat
    PROVE  /\ FirstPlaces(n, places) \subseteq places
           /\ IsFiniteSet(FirstPlaces(n, places))
           /\ Cardinality(FirstPlaces(n, places)) \in 0 .. n
           /\ FirstPlaces(n, places) = {} => places = {} \/ n = 0
<1> DEFINE F == FirstPlaces(n, places)
           Ahead(p) == {q \in places : Precedes(q, p)}
<1>1. F \subseteq places /\ F = {p \in places : Cardinality(Ahead(p)) < n}
  BY DEF FirstPlaces
<1>2. IsFiniteSet(F)
  BY <1>1, FS_Subset
<1>3. ASSUME NEW p \in places PROVE IsFiniteSet(Ahead(p)) /\ Cardinality(Ahead(p)) \in Nat
  <2>1. IsFiniteSet(Ahead(p))
    BY FS_Subset
  <2> QED
    BY <2>1, FS_CardinalityType
<1>4. ASSUME NEW p \in places, NEW q \in places, Precedes(p, q)
      PROVE  Cardinality(Ahead(p)) < Cardinality(Ahead(q))
  <2>1. p \in Spots /\ q \in Spots /\ places \subseteq Spots
    OBVIOUS
  <2>2. Ahead(p) \subseteq Ahead(q) /\ p \in Ahead(q) /\ p \notin Ahead(p)
    <3>1. \A s \in places : Precedes(s, p) => Precedes(s, q)
      BY <1>4, <2>1, PlacesAreOrdered
    <3>2. ~Precedes(p, p)
      BY <2>1, PlacesAreOrdered
    <3> QED
      BY <1>4, <3>1, <3>2
  <2>3. /\ Cardinality(Ahead(p)) <= Cardinality(Ahead(q))
        /\ Cardinality(Ahead(q)) = Cardinality(Ahead(p)) => Ahead(q) = Ahead(p)
    BY <1>3, <2>2, FS_Subset
  <2>4. Cardinality(Ahead(p)) \in Nat /\ Cardinality(Ahead(q)) \in Nat
    BY <1>3
  <2> HIDE DEF Ahead
  <2> QED
    BY <2>2, <2>3, <2>4
<1>5. Cardinality(F) \in Nat
  BY <1>2, FS_CardinalityType
<1>6. Cardinality(F) <= n
  <2> DEFINE g == [p \in F |-> Cardinality(Ahead(p))]
  <2>1. \A p \in F : g[p] \in 0 .. n - 1
    BY <1>1, <1>3
  <2>2. ASSUME NEW p \in F, NEW q \in F, g[p] = g[q] PROVE p = q
    <3>1. p \in places /\ q \in places /\ p \in Spots /\ q \in Spots
      BY <1>1
    <3>2. Precedes(p, q) \/ Precedes(q, p) \/ p = q
      BY <3>1, PlacesAreOrdered
    <3>3. Cardinality(Ahead(p)) = Cardinality(Ahead(q))
      BY <2>2
    <3>4. Cardinality(Ahead(p)) \in Nat /\ Cardinality(Ahead(q)) \in Nat
      BY <1>3, <3>1
    <3> HIDE DEF Ahead
    <3> QED
      BY <1>4, <3>1, <3>2, <3>3, <3>4
  <2>3. g \in Injection(F, 0 .. n - 1)
    <3>1. g \in [F -> 0 .. n - 1] /\ \A p, q \in F : g[p] = g[q] => p = q
      <4>1. g = [p \in F |-> g[p]]
        OBVIOUS
      <4> HIDE DEF g
      <4> QED
        BY <2>1, <2>2, <4>1
    <3> HIDE DEF g
    <3> QED
      BY <3>1, Zenon DEF Injection, IsInjective
  <2>4. IsFiniteSet(0 .. n - 1) /\ Cardinality(0 .. n - 1) = n
    <3>1. 0 \in Int /\ n - 1 \in Int
      OBVIOUS
    <3>2. IsFiniteSet(0 .. n - 1) /\ Cardinality(0 .. n - 1) = IF 0 > n - 1 THEN 0 ELSE (n - 1) - 0 + 1
      BY <3>1, FS_Interval, Zenon
    <3> QED
      BY <3>2
  <2> HIDE DEF F, g
  <2>5. Cardinality(F) <= Cardinality(0 .. n - 1)
    BY <1>2, <2>3, <2>4, FS_Injection
  <2> QED
    BY <2>4, <2>5
<1>7. ASSUME F = {}, places # {}, n # 0 PROVE FALSE
  <2>1. PICK p \in places : \A q \in places : ~Precedes(q, p)
    BY <1>7, FirstPlace
  <2>2. Ahead(p) = {}
    BY <2>1
  <2>3. Cardinality(Ahead(p)) = 0
    BY <2>2, FS_EmptySet
  <2> HIDE DEF Ahead
  <2> QED
    BY <1>1, <1>7, <2>1, <2>3
<1> QED
  BY <1>1, <1>2, <1>5, <1>6, <1>7

\* The tables in which a hunt looks have finitely many places.
Counts(f) == \E n \in Nat : DOMAIN f = 1 .. n
IsTable(table) == Counts(table) /\ \A i \in DOMAIN table : Counts(table[i])
\* All places of finitely many finite tables are finitely many.
LEMMA PlacesAreFew ==
    ASSUME NEW tables, Counts(tables), \A t \in DOMAIN tables : IsTable(tables[t])
    PROVE  PlacesIn(tables) \in SUBSET Spots /\ IsFiniteSet(PlacesIn(tables))
<1>1. ASSUME NEW f, Counts(f) PROVE IsFiniteSet(DOMAIN f) /\ DOMAIN f \subseteq Nat
  <2>1. PICK n \in Nat : DOMAIN f = 1 .. n
    BY <1>1 DEF Counts
  <2> QED
    BY <2>1, FS_Interval
<1>2. ASSUME NEW t \in DOMAIN tables, NEW i \in DOMAIN tables[t]
      PROVE  IsFiniteSet(Row(tables, t, i)) /\ Row(tables, t, i) \subseteq Spots
  <2> DEFINE D == DOMAIN tables[t][i]
             f == [j \in D |-> [table |-> t, row |-> i, column |-> j]]
  <2>1. IsFiniteSet(D) /\ D \subseteq Nat /\ t \in Nat /\ i \in Nat
    BY <1>1, <1>2 DEF IsTable
  <2>2. Row(tables, t, i) = {f[j] : j \in D}
    BY DEF Row
  <2>3. Row(tables, t, i) \subseteq Spots
    BY <2>1 DEF Row, Spots
  <2>4. IsFiniteSet({f[j] : j \in D})
    BY <2>1, ValuesAreFinite
  <2> QED
    BY <2>2, <2>3, <2>4
<1>3. ASSUME NEW t \in DOMAIN tables
      PROVE  IsFiniteSet(Table(tables, t)) /\ Table(tables, t) \subseteq Spots
  <2> DEFINE D == DOMAIN tables[t]
             f == [i \in D |-> Row(tables, t, i)]
             U == {f[i] : i \in D}
  <2>1. IsFiniteSet(D)
    BY <1>1, <1>3 DEF IsTable
  <2>2. IsFiniteSet(U)
    BY <2>1, ValuesAreFinite
  <2>3. \A S \in U : IsFiniteSet(S) /\ S \subseteq Spots
    BY <1>2, <1>3
  <2>4. Table(tables, t) = UNION U
    BY DEF Table
  <2>5. IsFiniteSet(UNION U)
    <3> HIDE DEF U
    <3> QED
      BY <2>2, <2>3, FS_UNION
  <2>6. UNION U \subseteq Spots
    <3> HIDE DEF U
    <3> QED
      BY <2>3
  <2> QED
    BY <2>4, <2>5, <2>6
<1> DEFINE f == [t \in DOMAIN tables |-> Table(tables, t)]
           U == {f[t] : t \in DOMAIN tables}
<1>4. IsFiniteSet(U)
  BY <1>1, ValuesAreFinite
<1>5. \A S \in U : IsFiniteSet(S) /\ S \subseteq Spots
  BY <1>3
<1>6. PlacesIn(tables) = UNION U
  BY DEF PlacesIn
<1> HIDE DEF U
<1>7. IsFiniteSet(UNION U)
  BY <1>4, <1>5, FS_UNION
<1>8. UNION U \subseteq Spots
  BY <1>5
<1> QED
  BY <1>6, <1>7, <1>8

\* Of a report, an indicator matches finitely many places, and the same of what a
\* plain json.load makes of it.
LEMMA MatchesAreFew ==
    ASSUME NEW r, IsReport(r), NEW ioc, ioc.type \in Types
    PROVE  /\ Matches(ioc, r) \in SUBSET Spots /\ IsFiniteSet(Matches(ioc, r))
           /\ Matches(ioc, Raw(r)) = Matches(ioc, r)
<1> DEFINE tables == Searched(ioc.type, r)
<1>1. \A S : \A q \in Seq(S) : \E n \in Nat : DOMAIN q = 1 .. n
  OBVIOUS
<1>2. \A S : \A q \in Seq(S) : Counts(q)
  BY <1>1 DEF Counts
<1>3. /\ Counts(r.nodes) /\ Counts(r.convs) /\ Counts(r.findings) /\ Counts(r.c2) /\ Counts(r.malware)
      /\ \A i \in DOMAIN r.convs : Counts(r.convs[i].asked)
      /\ \A i \in DOMAIN r.findings : Counts(r.findings[i].nodes)
  <2>1. \A field \in Lists : Counts(r[field])
    BY <1>2 DEF IsReport
  <2>2. /\ \A c \in Rows(r.convs) : Counts(c.asked)
        /\ \A f \in Rows(r.findings) : Counts(f.nodes)
    BY <1>2 DEF IsReport
  <2>3. {"nodes", "convs", "findings", "c2", "malware"} \subseteq Lists
    BY DEF Lists
  <2> QED
    BY <2>1, <2>2, <2>3 DEF Rows
<1>4. /\ Counts(<<"ip">>) /\ Counts(<<"sip", "dip">>) /\ Counts(<<"dst", "src">>) /\ Counts(<<"mac">>)
      /\ Counts(<<"src", "dst">>) /\ Counts(<<"dmac", "smac">>)
      /\ Counts(<<"sha256">>) /\ Counts(<<"md5">>)
  <2>1. \A a : DOMAIN <<a>> = 1 .. 1
    OBVIOUS
  <2>2. \A a, b : DOMAIN <<a, b>> = 1 .. 2
    OBVIOUS
  <2>3. 1 \in Nat /\ 2 \in Nat
    OBVIOUS
  <2>4. (\A a : Counts(<<a>>)) /\ \A a, b : Counts(<<a, b>>)
    BY <2>1, <2>2, <2>3, Zenon DEF Counts
  <2> QED
    BY <2>4, Zenon
<1>5. ASSUME NEW rows, NEW fields, Counts(rows), Counts(fields) PROVE IsTable(Fields(rows, fields))
  BY <1>5 DEF Fields, IsTable, Counts
<1>6. ASSUME NEW rows, NEW field, Counts(rows), \A i \in DOMAIN rows : Counts(rows[i][field])
      PROVE  IsTable(Listed(rows, field))
  BY <1>6 DEF Listed, IsTable, Counts
<1>7. Counts(tables) /\ \A t \in DOMAIN tables : IsTable(tables[t])
  <2>1. ASSUME NEW a, IsTable(a)
        PROVE  Counts(<<a>>) /\ \A t \in DOMAIN <<a>> : IsTable(<<a>>[t])
    <3>1. DOMAIN <<a>> = 1 .. 1 /\ 1 \in Nat
      OBVIOUS
    <3>2. Counts(<<a>>)
      BY <3>1, Zenon DEF Counts
    <3>3. \A t \in 1 .. 1 : <<a>>[t] \in {a}
      OBVIOUS
    <3>4. \A t \in DOMAIN <<a>> : IsTable(<<a>>[t])
      BY <2>1, <3>1, <3>3, Zenon
    <3> QED
      BY <3>2, <3>4
  <2>2. ASSUME NEW a, NEW b, IsTable(a), IsTable(b)
        PROVE  Counts(<<a, b>>) /\ \A t \in DOMAIN <<a, b>> : IsTable(<<a, b>>[t])
    <3>1. DOMAIN <<a, b>> = 1 .. 2 /\ 2 \in Nat
      OBVIOUS
    <3>2. Counts(<<a, b>>)
      BY <3>1, Zenon DEF Counts
    <3>3. \A t \in 1 .. 2 : <<a, b>>[t] \in {a, b}
      OBVIOUS
    <3>4. \A t \in DOMAIN <<a, b>> : IsTable(<<a, b>>[t])
      BY <2>2, <3>1, <3>3, Zenon
    <3> QED
      BY <3>2, <3>4
  <2>10. ASSUME NEW a, NEW b, NEW c, IsTable(a), IsTable(b), IsTable(c)
         PROVE  Counts(<<a, b, c>>) /\ \A t \in DOMAIN <<a, b, c>> : IsTable(<<a, b, c>>[t])
    <3>1. DOMAIN <<a, b, c>> = 1 .. 3 /\ 3 \in Nat
      OBVIOUS
    <3>2. Counts(<<a, b, c>>)
      BY <3>1, Zenon DEF Counts
    <3>3. \A t \in 1 .. 3 : <<a, b, c>>[t] \in {a, b, c}
      OBVIOUS
    <3>4. \A t \in DOMAIN <<a, b, c>> : IsTable(<<a, b, c>>[t])
      BY <2>10, <3>1, <3>3, Zenon
    <3> QED
      BY <3>2, <3>4
  <2>3. ASSUME NEW a, NEW b, NEW c, NEW d, IsTable(a), IsTable(b), IsTable(c), IsTable(d)
        PROVE  Counts(<<a, b, c, d>>) /\ \A t \in DOMAIN <<a, b, c, d>> : IsTable(<<a, b, c, d>>[t])
    <3>1. DOMAIN <<a, b, c, d>> = 1 .. 4 /\ 4 \in Nat
      OBVIOUS
    <3>2. Counts(<<a, b, c, d>>)
      BY <3>1, Zenon DEF Counts
    <3>3. \A t \in 1 .. 4 : <<a, b, c, d>>[t] \in {a, b, c, d}
      OBVIOUS
    <3>4. \A t \in DOMAIN <<a, b, c, d>> : IsTable(<<a, b, c, d>>[t])
      BY <2>3, <3>1, <3>3, Zenon
    <3> QED
      BY <3>2, <3>4
  <2>4. /\ IsTable(Fields(r.nodes, <<"ip">>)) /\ IsTable(Fields(r.convs, <<"sip", "dip">>))
        /\ IsTable(Fields(r.c2, <<"dst", "src">>)) /\ IsTable(Fields(r.nodes, <<"mac">>))
        /\ IsTable(Fields(r.convs, <<"src", "dst">>)) /\ IsTable(Fields(r.c2, <<"dmac", "smac">>))
        /\ IsTable(Fields(r.malware, <<"sha256">>)) /\ IsTable(Fields(r.malware, <<"md5">>))
    BY <1>3, <1>4, <1>5
  <2>5. IsTable(Listed(r.findings, "nodes")) /\ IsTable(Listed(r.convs, "asked"))
    BY <1>3, <1>6
  <2>6. CASE ioc.type = "ip"
    BY <2>3, <2>4, <2>5, <2>6 DEF Searched
  <2>11. CASE ioc.type = "mac"
    <3>1. tables = <<Fields(r.nodes, <<"mac">>), Fields(r.convs, <<"src", "dst">>),
                     Fields(r.c2, <<"dmac", "smac">>)>>
      BY <2>11 DEF Searched
    <3> QED
      BY <2>10, <2>4, <3>1
  <2>7. CASE ioc.type = "oui"
    <3>1. tables = <<Fields(r.nodes, <<"mac">>), Fields(r.convs, <<"src", "dst">>)>>
      BY <2>7 DEF Searched
    <3> QED
      BY <2>2, <2>4, <3>1
  <2>8. CASE ioc.type = "domain"
    <3>1. tables = <<Listed(r.convs, "asked")>>
      BY <2>8 DEF Searched
    <3> QED
      BY <2>1, <2>5, <3>1
  <2>9. CASE ioc.type \in {"sha256", "md5"}
    <3>1. tables \in {<<Fields(r.malware, <<"sha256">>)>>, <<Fields(r.malware, <<"md5">>)>>}
      BY <2>9 DEF Searched
    <3> QED
      BY <2>1, <2>4, <3>1
  <2> QED
    BY <2>6, <2>7, <2>8, <2>9, <2>11 DEF Types
<1>8. PlacesIn(tables) \in SUBSET Spots /\ IsFiniteSet(PlacesIn(tables))
  BY <1>7, PlacesAreFew
<1>9. Matches(ioc, r) = {p \in PlacesIn(tables) : Fits(ioc, Cell(tables, p).value)}
  BY DEF Matches
<1>10. Matches(ioc, r) \in SUBSET Spots /\ IsFiniteSet(Matches(ioc, r))
  BY <1>8, <1>9, FS_Subset
<1>11. Searched(ioc.type, Raw(r)) = Searched(ioc.type, r)
  <2>1. /\ Raw(r).nodes = r.nodes /\ Raw(r).convs = r.convs /\ Raw(r).c2 = r.c2
        /\ Raw(r).findings = r.findings /\ Raw(r).malware = r.malware
    BY RawIsReport DEF IsReport, Lists
  <2> QED
    BY <2>1, Zenon DEF Searched
<1>12. Matches(ioc, Raw(r)) = Matches(ioc, r)
  BY <1>11, Zenon DEF Matches
<1> QED
  BY <1>10, <1>12

\* A table has a value in one of its cells.
Has(table, value) == \E i \in DOMAIN table : \E j \in DOMAIN table[i] : table[i][j].value = value

\* What a field of a row says is in the table of the field.
LEMMA FieldIsThere ==
    ASSUME NEW rows, NEW row \in Rows(rows), NEW fields, NEW field \in Rows(fields)
    PROVE  Has(Fields(rows, fields), row[field])
<1>1. PICK i \in DOMAIN rows, j \in DOMAIN fields : row = rows[i] /\ field = fields[j]
  BY DEF Rows
<1>2. /\ i \in DOMAIN Fields(rows, fields) /\ j \in DOMAIN Fields(rows, fields)[i]
      /\ Fields(rows, fields)[i][j].value = rows[i][fields[j]]
  BY <1>1 DEF Fields
<1> QED
  BY <1>1, <1>2 DEF Has

\* So is what a field of a row lists.
LEMMA ListedIsThere ==
    ASSUME NEW rows, NEW row \in Rows(rows), NEW field, NEW value \in Rows(row[field])
    PROVE  Has(Listed(rows, field), value)
<1>1. PICK i \in DOMAIN rows : row = rows[i]
  BY DEF Rows
<1>2. PICK j \in DOMAIN rows[i][field] : value = rows[i][field][j]
  BY <1>1 DEF Rows
<1>3. /\ i \in DOMAIN Listed(rows, field) /\ j \in DOMAIN Listed(rows, field)[i]
      /\ Listed(rows, field)[i][j].value = value
  BY <1>1, <1>2 DEF Listed
<1> QED
  BY <1>3 DEF Has

\* What a report shows on a surface, _scan_report looks at.
LEMMA SurfaceIsSearched ==
    ASSUME NEW r, NEW type \in Types, NEW value \in Surface(type, r)
    PROVE  \E t \in DOMAIN Searched(type, r) : Has(Searched(type, r)[t], value)
<1>1. \A rows : \A row \in Rows(rows) :
        /\ Has(Fields(rows, <<"ip">>), row.ip) /\ Has(Fields(rows, <<"mac">>), row.mac)
        /\ Has(Fields(rows, <<"sha256">>), row.sha256) /\ Has(Fields(rows, <<"md5">>), row.md5)
        /\ Has(Fields(rows, <<"sip", "dip">>), row.sip) /\ Has(Fields(rows, <<"sip", "dip">>), row.dip)
        /\ Has(Fields(rows, <<"src", "dst">>), row.src) /\ Has(Fields(rows, <<"src", "dst">>), row.dst)
        /\ Has(Fields(rows, <<"dst", "src">>), row.dst)
  <2>1. \A a : a \in Rows(<<a>>)
    BY DEF Rows
  <2>2. \A a, b : a \in Rows(<<a, b>>) /\ b \in Rows(<<a, b>>)
    BY DEF Rows
  <2> QED
    BY <2>1, <2>2, FieldIsThere
<1>2. \A rows : \A row \in Rows(rows) : \A v \in Rows(row.asked) : Has(Listed(rows, "asked"), v)
  BY ListedIsThere
<1>3. ASSUME NEW a, Has(a, value) PROVE \E t \in DOMAIN <<a>> : Has(<<a>>[t], value)
  BY <1>3
<1>4. ASSUME NEW a, NEW b, Has(a, value) \/ Has(b, value)
      PROVE  \E t \in DOMAIN <<a, b>> : Has(<<a, b>>[t], value)
  BY <1>4
<1>5. ASSUME NEW a, NEW b, NEW c, Has(a, value) \/ Has(b, value)
      PROVE  \E t \in DOMAIN <<a, b, c>> : Has(<<a, b, c>>[t], value)
  BY <1>5
<1>6. ASSUME NEW a, NEW b, NEW c, NEW d, Has(a, value) \/ Has(b, value) \/ Has(c, value)
      PROVE  \E t \in DOMAIN <<a, b, c, d>> : Has(<<a, b, c, d>>[t], value)
  BY <1>6
<1>7. CASE type = "ip"
  <2>1. \/ Has(Fields(r.nodes, <<"ip">>), value) \/ Has(Fields(r.convs, <<"sip", "dip">>), value)
        \/ Has(Fields(r.c2, <<"dst", "src">>), value)
    <3>1. Surface(type, r) = {d.ip : d \in Rows(r.nodes)}
                             \cup {c.dst : c \in Rows(r.c2)}
                             \cup UNION {{c.sip, c.dip} : c \in Rows(r.convs)}
      BY <1>7 DEF Surface
    <3>2. CASE value \in {d.ip : d \in Rows(r.nodes)}
      BY <1>1, <3>2
    <3>3. CASE value \in UNION {{c.sip, c.dip} : c \in Rows(r.convs)}
      <4>1. PICK c \in Rows(r.convs) : value \in {c.sip, c.dip}
        BY <3>3
      <4> QED
        BY <1>1, <4>1
    <3>4. CASE value \in {c.dst : c \in Rows(r.c2)}
      <4>1. PICK c \in Rows(r.c2) : value = c.dst
        BY <3>4
      <4>2. Has(Fields(r.c2, <<"dst", "src">>), c.dst)
        BY <1>1, Zenon
      <4> QED
        BY <4>1, <4>2
    <3> QED
      BY <3>1, <3>2, <3>3, <3>4
  <2>2. Searched(type, r) = << Fields(r.nodes, <<"ip">>), Fields(r.convs, <<"sip", "dip">>),
                               Fields(r.c2, <<"dst", "src">>), Listed(r.findings, "nodes") >>
    BY <1>7 DEF Searched
  <2> QED
    BY <1>6, <2>1, <2>2, Zenon
<1>8. CASE type \in {"mac", "oui"}
  <2>1. Has(Fields(r.nodes, <<"mac">>), value) \/ Has(Fields(r.convs, <<"src", "dst">>), value)
    BY <1>1, <1>8 DEF Surface
  <2>2. CASE type = "mac"
    <3>1. Searched(type, r) = << Fields(r.nodes, <<"mac">>), Fields(r.convs, <<"src", "dst">>),
                                 Fields(r.c2, <<"dmac", "smac">>) >>
      BY <2>2 DEF Searched
    <3> QED
      BY <1>5, <2>1, <3>1, Zenon
  <2>3. CASE type = "oui"
    <3>1. Searched(type, r) = << Fields(r.nodes, <<"mac">>), Fields(r.convs, <<"src", "dst">>) >>
      BY <2>3 DEF Searched
    <3> QED
      BY <1>4, <2>1, <3>1, Zenon
  <2> QED
    BY <1>8, <2>2, <2>3
<1>9. CASE type = "domain"
  <2>1. Has(Listed(r.convs, "asked"), value) /\ Searched(type, r) = << Listed(r.convs, "asked") >>
    BY <1>2, <1>9 DEF Surface, Searched
  <2> QED
    BY <1>3, <2>1, Zenon
<1>10. CASE type = "sha256"
  <2>1. /\ Has(Fields(r.malware, <<"sha256">>), value)
        /\ Searched(type, r) = << Fields(r.malware, <<"sha256">>) >>
    BY <1>1, <1>10 DEF Surface, Searched
  <2> QED
    BY <1>3, <2>1, Zenon
<1>11. CASE type = "md5"
  <2>1. Has(Fields(r.malware, <<"md5">>), value) /\ Searched(type, r) = << Fields(r.malware, <<"md5">>) >>
    BY <1>1, <1>11 DEF Surface, Searched
  <2> QED
    BY <1>3, <2>1, Zenon
<1> QED
  BY <1>7, <1>8, <1>9, <1>10, <1>11 DEF Types

\* An indicator that a report shows on a surface has a match.
LEMMA SurfaceMatches ==
    ASSUME NEW r, NEW ioc, ioc.type \in Types, NEW value \in Surface(ioc.type, r), Fits(ioc, value)
    PROVE  Matches(ioc, r) # {}
<1> DEFINE tables == Searched(ioc.type, r)
<1>1. PICK t \in DOMAIN tables : Has(tables[t], value)
  BY SurfaceIsSearched
<1>2. PICK i \in DOMAIN tables[t] : \E j \in DOMAIN tables[t][i] : tables[t][i][j].value = value
  BY <1>1 DEF Has
<1>3. PICK j \in DOMAIN tables[t][i] : tables[t][i][j].value = value
  BY <1>2
<1> HIDE DEF tables
<1>4. [table |-> t, row |-> i, column |-> j] \in PlacesIn(tables)
  BY <1>1, <1>2, <1>3 DEF PlacesIn, Table, Row
<1>5. Cell(tables, [table |-> t, row |-> i, column |-> j]).value = value
  BY <1>3 DEF Cell
<1>6. [table |-> t, row |-> i, column |-> j] \in {p \in PlacesIn(tables) : Fits(ioc, Cell(tables, p).value)}
  BY <1>4, <1>5
<1> QED
  BY <1>6 DEF Matches, tables

\* Matches that are shown of a report are those of its hits.
LEMMA ShownOf ==
    ASSUME NEW hits, NEW n, NEW x
    PROVE  x \in Shown(hits, n) <=>
              \E i \in DOMAIN hits : hits[i].report = n /\ \E p \in hits[i].matches : x = <<i, p>>
<1> DEFINE D == {j \in DOMAIN hits : hits[j].report = n}
           T(i) == {<<i, p>> : p \in hits[i].matches}
<1>1. Shown(hits, n) = UNION {T(i) : i \in D}
  BY DEF Shown
<1>2. \A i : x \in T(i) <=> \E p \in hits[i].matches : x = <<i, p>>
  OBVIOUS
<1> HIDE DEF T
<1>3. x \in UNION {T(i) : i \in D} <=> \E i \in D : x \in T(i)
  BY Zenon
<1> QED
  BY <1>1, <1>2, <1>3

\* A report that is scanned: its hits are its own, and it has shown as many
\* matches as it counts.
HitsOf(name, iocs) == [report : {name}, ioc : iocs, matches : SUBSET Spots]
Counted(s, name, iocs) ==
    /\ s \in [hits : Seq(HitsOf(name, iocs)), count : 0 .. PerReport]
    /\ IsFiniteSet(Shown(s.hits, name))
    /\ s.count = Cardinality(Shown(s.hits, name))
Shows(s, ioc, r) ==
    Matches(ioc, r) # {} => (\E i \in DOMAIN s.hits : s.hits[i].ioc = ioc) \/ s.count = PerReport
\* _scan_report: one more indicator keeps the count, and is shown or at the cap.
LEMMA ScanStep ==
    ASSUME NEW name, NEW r, IsReport(r), NEW iocs, NEW ioc \in iocs, ioc.type \in Types,
           NEW s, Counted(s, name, iocs)
    PROVE  LET t == Scan(s, name, r, ioc)
           IN /\ Counted(t, name, iocs) /\ Shows(t, ioc, r)
              /\ \A other : Shows(s, other, r) => Shows(t, other, r)
<1> DEFINE found == FirstPlaces(PerReport - s.count, Matches(ioc, r))
           t == Scan(s, name, r, ioc)
           L == Len(s.hits)
           hit == Hit(name, ioc, found)
<1>1. /\ s \in [hits : Seq(HitsOf(name, iocs)), count : 0 .. PerReport]
      /\ PerReport \in Nat /\ PerReport - s.count \in Nat /\ s.count \in Nat
  BY LibraryAssumption DEF Counted
<1>2. /\ found \subseteq Matches(ioc, r) /\ IsFiniteSet(found)
      /\ Cardinality(found) \in 0 .. PerReport - s.count
      /\ found = {} => Matches(ioc, r) = {} \/ PerReport - s.count = 0
      /\ found \in SUBSET Spots
  <2>1. Matches(ioc, r) \in SUBSET Spots /\ IsFiniteSet(Matches(ioc, r))
    BY MatchesAreFew
  <2> QED
    BY <1>1, <2>1, FirstOnes
<1>3. t = IF found = {} THEN s
          ELSE [hits |-> Append(s.hits, hit), count |-> s.count + Cardinality(found)]
  BY DEF Scan
<1> HIDE DEF t, found
<1>4. CASE found = {}
  <2>1. t = s
    BY <1>3, <1>4
  <2>2. Matches(ioc, r) = {} \/ s.count = PerReport
    BY <1>1, <1>2, <1>4
  <2> QED
    BY <2>1, <2>2 DEF Shows, t
<1>5. CASE found # {}
  <2>1. t.hits = Append(s.hits, hit) /\ t.count = s.count + Cardinality(found) /\ DOMAIN t = {"hits", "count"}
        /\ t = [hits |-> t.hits, count |-> t.count]
    BY <1>3, <1>5
  <2>2. hit \in HitsOf(name, iocs) /\ hit.report = name /\ hit.ioc = ioc /\ hit.matches = found
    BY <1>2 DEF Hit, HitsOf
  <2> HIDE DEF hit
  <2>3. /\ L \in Nat /\ DOMAIN s.hits = 1 .. L /\ DOMAIN t.hits = 1 .. L + 1
        /\ \A i \in 1 .. L : t.hits[i] = s.hits[i] /\ s.hits[i] \in HitsOf(name, iocs)
        /\ t.hits[L + 1] = hit /\ t.hits \in Seq(HitsOf(name, iocs))
    BY <1>1, <2>1, <2>2
  <2>4. t.count \in 0 .. PerReport
    BY <1>1, <1>2, <2>1
  <2> DEFINE New == {<<L + 1, p>> : p \in found}
             Old == Shown(s.hits, name)
  <2>5. Shown(t.hits, name) = Old \cup New
    <3>1. ASSUME NEW x \in Shown(t.hits, name) PROVE x \in Old \cup New
      <4>1. PICK i \in 1 .. L + 1 : t.hits[i].report = name /\ \E p \in t.hits[i].matches : x = <<i, p>>
        BY <2>3, <3>1, ShownOf
      <4>2. CASE i = L + 1
        BY <2>2, <2>3, <4>1, <4>2
      <4>3. CASE i \in 1 .. L
        <5>1. i \in DOMAIN s.hits /\ s.hits[i] = t.hits[i]
          BY <2>3, <4>3
        <5>2. x \in Shown(s.hits, name)
          BY <4>1, <5>1, ShownOf
        <5> QED
          BY <5>2
      <4> QED
        BY <2>3, <4>2, <4>3
    <3>2. ASSUME NEW x \in Old PROVE x \in Shown(t.hits, name)
      <4>1. PICK i \in 1 .. L : s.hits[i].report = name /\ \E p \in s.hits[i].matches : x = <<i, p>>
        BY <2>3, <3>2, ShownOf
      <4>2. i \in DOMAIN t.hits /\ s.hits[i] = t.hits[i]
        BY <2>3
      <4> QED
        BY <4>1, <4>2, ShownOf
    <3>3. ASSUME NEW x \in New PROVE x \in Shown(t.hits, name)
      <4>1. L + 1 \in DOMAIN t.hits /\ t.hits[L + 1].report = name /\ t.hits[L + 1].matches = found
        BY <2>2, <2>3
      <4>2. PICK p \in found : x = <<L + 1, p>>
        BY <3>3
      <4> QED
        BY <4>1, <4>2, ShownOf, Zenon
    <3> QED
      BY <3>1, <3>2, <3>3
  <2>6. Old \cap New = {}
    <3> SUFFICES ASSUME NEW x \in Old, x \in New PROVE FALSE
      OBVIOUS
    <3>1. PICK i \in 1 .. L : \E p \in s.hits[i].matches : x = <<i, p>>
      BY <2>3, ShownOf
    <3>2. \E p \in found : x = <<L + 1, p>>
      OBVIOUS
    <3> QED
      BY <2>3, <3>1, <3>2
  <2>7. IsFiniteSet(New) /\ Cardinality(New) = Cardinality(found)
    <3> DEFINE f == [p \in found |-> <<L + 1, p>>]
    <3>1. New = {f[p] : p \in found} /\ \A p, q \in found : f[p] = f[q] => p = q
      OBVIOUS
    <3> HIDE DEF f, New
    <3>2. /\ IsFiniteSet({f[p] : p \in found})
          /\ Cardinality({f[p] : p \in found}) = Cardinality(found)
      BY <1>2, <3>1, ValuesAreFinite
    <3> QED
      BY <3>1, <3>2
  <2>8. IsFiniteSet(Old) /\ s.count = Cardinality(Old)
    BY DEF Counted
  <2>9. /\ IsFiniteSet(Old \cup New)
        /\ Cardinality(Old \cup New) = Cardinality(Old) + Cardinality(New) - Cardinality({})
    <3> HIDE DEF Old, New
    <3> QED
      BY <2>6, <2>7, <2>8, FS_Union
  <2>10. Cardinality({}) = 0
    BY FS_EmptySet
  <2> HIDE DEF Old, New
  <2>11. IsFiniteSet(Shown(t.hits, name)) /\ t.count = Cardinality(Shown(t.hits, name))
    BY <1>1, <1>2, <2>1, <2>5, <2>7, <2>8, <2>9, <2>10
  <2>12. Counted(t, name, iocs)
    BY <2>1, <2>3, <2>4, <2>11 DEF Counted
  <2>13. Shows(t, ioc, r)
    <3>1. L + 1 \in DOMAIN t.hits /\ t.hits[L + 1].ioc = ioc
      BY <2>2, <2>3
    <3> QED
      BY <3>1 DEF Shows
  <2>14. ASSUME NEW other, Shows(s, other, r) PROVE Shows(t, other, r)
    <3>1. ASSUME NEW i \in DOMAIN s.hits, s.hits[i].ioc = other
          PROVE  \E j \in DOMAIN t.hits : t.hits[j].ioc = other
      <4>1. i \in DOMAIN t.hits /\ t.hits[i].ioc = other
        BY <2>3, <3>1
      <4> QED
        BY <4>1
    <3>2. s.count = PerReport => t.count = PerReport
      BY <1>1, <1>2, <2>1, <2>4
    <3> QED
      BY <2>14, <3>1, <3>2 DEF Shows
  <2> QED
    BY <2>12, <2>13, <2>14 DEF t
<1> QED
  BY <1>4, <1>5

\* _scan_report: an indicator that a report shows has a hit in it, or the report
\* has given as many matches as it may.
LEMMA ScanShowsAll ==
    ASSUME NEW name, NEW r, IsReport(r), NEW iocs, NEW entries \in Seq(iocs),
           \A ioc \in iocs : ioc.type \in Types
    PROVE  LET hits == ScanReport(name, r, entries)
           IN /\ hits \in Seq(HitsOf(name, iocs)) /\ IsFiniteSet(Shown(hits, name))
              /\ \A j \in DOMAIN entries : Matches(entries[j], r) # {} =>
                    \/ \E i \in DOMAIN hits : hits[i].ioc = entries[j]
                    \/ Cardinality(Shown(hits, name)) = PerReport
<1> DEFINE S == Scans(name, r, entries)
           N == Len(entries)
           Good == {k \in 0 .. N : /\ Counted(S[k], name, iocs)
                                   /\ \A j \in 1 .. k : Shows(S[k], entries[j], r)}
<1>1. /\ N \in Nat /\ DOMAIN entries = 1 .. N
      /\ \A k \in 0 .. N : S[k] = IF k = 0 THEN [hits |-> <<>>, count |-> 0]
                                  ELSE Scan(S[k - 1], name, r, entries[k])
  <2>1. N \in Nat /\ DOMAIN entries = 1 .. N
    OBVIOUS
  <2> HIDE DEF S
  <2>2. ScansOf(S, name, r, entries, N)
    BY <2>1, ScansUnfold DEF S
  <2> QED
    BY <2>1, <2>2 DEF ScansOf
<1>2. ASSUME NEW k \in 1 .. N PROVE entries[k] \in iocs
  BY <1>1, <1>2
<1> HIDE DEF S
<1>3. 0 \in Good
  <2>1. S[0] = [hits |-> <<>>, count |-> 0]
    BY <1>1
  <2>2. Shown(<<>>, name) = {}
    <3>1. \A i : i \notin DOMAIN <<>>
      OBVIOUS
    <3>2. \A x : x \notin Shown(<<>>, name)
      BY <3>1, ShownOf, Zenon
    <3> QED
      BY <3>2
  <2>3. S[0].hits = <<>> /\ S[0].count = 0
    BY <2>1
  <2>4. IsFiniteSet(Shown(S[0].hits, name)) /\ Cardinality(Shown(S[0].hits, name)) = 0
    BY <2>2, <2>3, FS_EmptySet
  <2>5. S[0] \in [hits : Seq(HitsOf(name, iocs)), count : 0 .. PerReport]
    BY <2>1, LibraryAssumption
  <2>6. Counted(S[0], name, iocs)
    BY <2>3, <2>4, <2>5 DEF Counted
  <2> QED
    BY <1>1, <2>6
<1>4. ASSUME NEW k \in 0 .. N, k # N, k \in Good PROVE k + 1 \in Good
  <2>1. k + 1 \in 0 .. N /\ k + 1 \in 1 .. N /\ (k + 1) - 1 = k
    <3>1. N \in Nat /\ k # N
      BY <1>1, <1>4
    <3> HIDE DEF N, Good
    <3> QED
      BY <3>1
  <2>2. S[k + 1] = Scan(S[k], name, r, entries[k + 1])
    BY <1>1, <2>1
  <2>3. entries[k + 1] \in iocs /\ entries[k + 1].type \in Types
    BY <1>2, <2>1
  <2>4. Counted(S[k], name, iocs) /\ \A j \in 1 .. k : Shows(S[k], entries[j], r)
    BY <1>4
  <2>5. /\ Counted(S[k + 1], name, iocs) /\ Shows(S[k + 1], entries[k + 1], r)
        /\ \A other : Shows(S[k], other, r) => Shows(S[k + 1], other, r)
    BY <2>2, <2>3, <2>4, ScanStep
  <2>6. \A j \in 1 .. k + 1 : j \in 1 .. k \/ j = k + 1
    OBVIOUS
  <2>7. \A j \in 1 .. k + 1 : Shows(S[k + 1], entries[j], r)
    BY <2>4, <2>5, <2>6, Zenon
  <2> QED
    BY <2>1, <2>5, <2>7
<1>5. N \in Good
  <2> HIDE DEF Good
  <2>1. \A k \in 0 .. N : k # N /\ k \in Good => k + 1 \in Good
    BY <1>4
  <2>2. \A k \in 0 .. N : k \in Good
    BY <1>1, <1>3, <2>1, Climb, Zenon
  <2> QED
    BY <1>1, <2>2
<1>6. ScanReport(name, r, entries) = S[N].hits
  BY DEF ScanReport, S
<1> QED
  BY <1>1, <1>5, <1>6 DEF Counted, Shows

\* The hits of one more report come after those that were found before: what is
\* shown of another report stays, and all that it has is shown.
Follows(after, before, more, name, L, M) ==
    /\ L \in Nat /\ M \in Nat
    /\ DOMAIN before = 1 .. L /\ DOMAIN more = 1 .. M /\ DOMAIN after = 1 .. L + M
    /\ \A i \in 1 .. L : after[i] = before[i] /\ before[i].report # name
    /\ \A i \in 1 .. M : after[L + i] = more[i] /\ more[i].report = name
    /\ IsFiniteSet(Shown(more, name))
\* Shown matches move with their hits and do not change in number.
LEMMA HitsAfterHits ==
    ASSUME NEW after, NEW before, NEW more, NEW name, NEW L, NEW M,
           Follows(after, before, more, name, L, M)
    PROVE  /\ Cardinality(Shown(after, name)) = Cardinality(Shown(more, name))
           /\ \A n : n # name => Shown(after, n) = Shown(before, n)
<1> USE DEF Follows
<1>0. \A i \in 1 .. L + M : i \in 1 .. L \/ \E k \in 1 .. M : i = L + k
  <2> SUFFICES ASSUME NEW i \in 1 .. L + M, i \notin 1 .. L PROVE \E k \in 1 .. M : i = L + k
    OBVIOUS
  <2>1. i - L \in 1 .. M /\ i = L + (i - L)
    OBVIOUS
  <2> QED
    BY <2>1
<1>1. ASSUME NEW n, n # name, NEW x PROVE x \in Shown(after, n) <=> x \in Shown(before, n)
  <2>1. ASSUME x \in Shown(after, n) PROVE x \in Shown(before, n)
    <3>1. PICK i \in 1 .. L + M : after[i].report = n /\ \E p \in after[i].matches : x = <<i, p>>
      BY <2>1, ShownOf
    <3>2. i \in 1 .. L
      <4>1. \A j \in 1 .. M : after[L + j].report = name
        OBVIOUS
      <4> HIDE DEF Follows
      <4> QED
        BY <1>0, <1>1, <3>1, <4>1
    <3>3. i \in DOMAIN before /\ after[i] = before[i]
      BY <3>2
    <3> QED
      BY <3>1, <3>3, ShownOf
  <2>2. ASSUME x \in Shown(before, n) PROVE x \in Shown(after, n)
    <3>1. PICK i \in 1 .. L : before[i].report = n /\ \E p \in before[i].matches : x = <<i, p>>
      BY <2>2, ShownOf
    <3>2. i \in DOMAIN after /\ after[i] = before[i]
      OBVIOUS
    <3> QED
      BY <3>1, <3>2, ShownOf
  <2> QED
    BY <2>1, <2>2
<1> DEFINE New == Shown(more, name)
           f == [x \in New |-> <<x[1] + L, x[2]>>]
<1>2. ASSUME NEW x \in New PROVE \E k \in 1 .. M : \E p \in more[k].matches : x = <<k, p>> /\ f[x] = <<k + L, p>>
  <2>1. PICK k \in 1 .. M : \E p \in more[k].matches : x = <<k, p>>
    BY <1>2, ShownOf
  <2>2. PICK p \in more[k].matches : x = <<k, p>>
    BY <2>1
  <2>3. f[x] = <<x[1] + L, x[2]>> /\ x[1] = k /\ x[2] = p
    BY <2>2
  <2> HIDE DEF f
  <2> QED
    BY <2>2, <2>3
<1>3. ASSUME NEW k \in 1 .. M, NEW p \in more[k].matches PROVE <<k, p>> \in New /\ f[<<k, p>>] = <<k + L, p>>
  <2>1. <<k, p>> \in Shown(more, name)
    BY <1>3, ShownOf
  <2>2. f[<<k, p>>] = <<<<k, p>>[1] + L, <<k, p>>[2]>>
    BY <2>1
  <2> HIDE DEF f
  <2> QED
    BY <2>1, <2>2
<1> HIDE DEF f
<1>4. \A x, y \in New : f[x] = f[y] => x = y
  <2> SUFFICES ASSUME NEW x \in New, NEW y \in New, f[x] = f[y] PROVE x = y
    OBVIOUS
  <2> HIDE DEF New
  <2>1. PICK k \in 1 .. M : \E p \in more[k].matches : x = <<k, p>> /\ f[x] = <<k + L, p>>
    BY <1>2
  <2>2. PICK p \in more[k].matches : x = <<k, p>> /\ f[x] = <<k + L, p>>
    BY <2>1
  <2>3. PICK l \in 1 .. M : \E q \in more[l].matches : y = <<l, q>> /\ f[y] = <<l + L, q>>
    BY <1>2
  <2>4. PICK q \in more[l].matches : y = <<l, q>> /\ f[y] = <<l + L, q>>
    BY <2>3
  <2>5. <<k + L, p>> = <<l + L, q>>
    BY <2>2, <2>4
  <2>6. k + L = l + L /\ p = q
    BY <2>5
  <2>7. k = l
    BY <2>6
  <2> QED
    BY <2>2, <2>4, <2>6, <2>7
<1>5. Shown(after, name) = {f[x] : x \in New}
  <2>1. ASSUME NEW y \in Shown(after, name) PROVE \E x \in New : y = f[x]
    <3>1. PICK i \in 1 .. L + M : after[i].report = name /\ \E p \in after[i].matches : y = <<i, p>>
      BY <2>1, ShownOf
    <3>2. PICK k \in 1 .. M : i = L + k
      BY <1>0, <3>1
    <3>3. PICK p \in more[k].matches : y = <<i, p>>
      BY <3>1, <3>2
    <3>4. k + L = i
      BY <3>2
    <3> QED
      BY <1>3, <3>3, <3>4
  <2>2. ASSUME NEW x \in New PROVE f[x] \in Shown(after, name)
    <3>1. PICK k \in 1 .. M : \E p \in more[k].matches : x = <<k, p>> /\ f[x] = <<k + L, p>>
      BY <1>2, <2>2
    <3>2. L + k \in DOMAIN after /\ after[L + k] = more[k] /\ more[k].report = name /\ k + L = L + k
      OBVIOUS
    <3> QED
      BY <3>1, <3>2, ShownOf
  <2> QED
    BY <2>1, <2>2
<1>6. Cardinality({f[x] : x \in New}) = Cardinality(New)
  <2>1. IsFiniteSet(New)
    OBVIOUS
  <2> HIDE DEF New, Follows
  <2>2. /\ IsFiniteSet({f[x] : x \in New})
        /\ Cardinality({f[x] : x \in New}) = Cardinality(New)
    BY <1>4, <2>1, ValuesAreFinite
  <2> QED
    BY <2>2
<1> QED
  BY <1>1, <1>5, <1>6

\* Of a report that a hunt has been through, it has every indicator that the
\* report shows, unless it says otherwise or has reached the cap of the report.
Iocs == UNION {Rows(pasted) : pasted \in Pastes}
AllHits == [report : Rows(Names), ioc : Iocs, matches : SUBSET Spots]
IsResult(result) ==
    /\ result \in [hits : Seq(AllHits), truncated : BOOLEAN]
    /\ result.truncated => Len(result.hits) >= Total
Hunted(result, name, r, entries) ==
    \A j \in DOMAIN entries : Matches(entries[j], r) # {} =>
        \/ result.truncated
        \/ \E i \in DOMAIN result.hits : result.hits[i].report = name /\ result.hits[i].ioc = entries[j]
        \/ Cardinality(Shown(result.hits, name)) = PerReport

\* scan_ioc_list_against_reports: one turn of its loop keeps that.
LEMMA HuntTurn ==
    ASSUME NEW result, IsResult(result), NEW entries \in Seq(Iocs), NEW read,
           read.name \in Rows(Names), read.says = Unreadable \/ IsReport(read.says),
           \A i \in DOMAIN result.hits : result.hits[i].report # read.name
    PROVE  LET after == Hunt(result, read, entries)
           IN /\ IsResult(after)
              /\ read.says # Unreadable => Hunted(after, read.name, read.says, entries)
              /\ \A n, r : n # read.name /\ Hunted(result, n, r, entries) => Hunted(after, n, r, entries)
              /\ \A i \in DOMAIN after.hits :
                    \/ after.hits[i].report = read.name
                    \/ \E j \in DOMAIN result.hits : after.hits[i].report = result.hits[j].report
<1> DEFINE after == Hunt(result, read, entries)
           more == ScanReport(read.name, read.says, entries)
           L == Len(result.hits)
           M == Len(more)
           all == result.hits \o more
<1>1. /\ result \in [hits : Seq(AllHits), truncated : BOOLEAN] /\ L \in Nat /\ Total \in Nat
      /\ result.hits \in Seq(AllHits) /\ DOMAIN result.hits = 1 .. L
      /\ result.truncated => L >= Total
  BY LibraryAssumption DEF IsResult
<1>2. CASE L >= Total
  <2>1. after = [result EXCEPT !.truncated = TRUE]
    BY <1>2 DEF Hunt
  <2>2. after.hits = result.hits /\ after.truncated = TRUE /\ after \in [hits : Seq(AllHits), truncated : BOOLEAN]
    BY <1>1, <2>1
  <2> HIDE DEF after
  <2> QED
    BY <1>1, <1>2, <2>2 DEF IsResult, Hunted, after
<1>3. CASE ~(L >= Total) /\ read.says = Unreadable
  <2>1. after = result
    BY <1>3 DEF Hunt, Found
  <2> QED
    BY <1>3, <2>1
<1>4. CASE ~(L >= Total) /\ read.says # Unreadable
  <2>0. \A ioc \in Iocs : ioc.type \in Types
    BY LibraryAssumption DEF Iocs
  <2>1. /\ more \in Seq(HitsOf(read.name, Iocs)) /\ IsFiniteSet(Shown(more, read.name))
        /\ \A j \in DOMAIN entries : Matches(entries[j], read.says) # {} =>
              \/ \E i \in DOMAIN more : more[i].ioc = entries[j]
              \/ Cardinality(Shown(more, read.name)) = PerReport
    BY <1>4, <2>0, ScanShowsAll
  <2>2. after = [hits |-> UpTo(Total, all), truncated |-> L + M > Total]
    BY <1>4 DEF Hunt, Found
  <2>3. after.hits = UpTo(Total, all) /\ after.truncated = (L + M > Total)
    BY <2>2
  <2> HIDE DEF after, more
  <2>4. HitsOf(read.name, Iocs) \subseteq AllHits
    BY DEF HitsOf, AllHits
  <2>5. /\ M \in Nat /\ DOMAIN more = 1 .. M /\ more \in Seq(AllHits)
        /\ \A i \in 1 .. M : more[i].report = read.name /\ more[i] \in AllHits
    <3>1. M \in Nat /\ DOMAIN more = 1 .. M /\ \A i \in 1 .. M : more[i] \in HitsOf(read.name, Iocs)
      BY <2>1
    <3>2. \A i \in 1 .. M : more[i].report = read.name /\ more[i] \in AllHits
      BY <2>4, <3>1 DEF HitsOf
    <3>3. more \in Seq(AllHits)
      BY <2>1, <3>1, <3>2
    <3> QED
      BY <3>1, <3>2, <3>3
  <2>6. /\ all \in Seq(AllHits) /\ Len(all) = L + M /\ DOMAIN all = 1 .. L + M
        /\ \A i \in 1 .. L : all[i] = result.hits[i]
        /\ \A i \in 1 .. M : all[L + i] = more[i]
    BY <1>1, <2>5
  <2> HIDE DEF all
  <2> DEFINE K == IF L + M < Total THEN L + M ELSE Total
  <2>7. after.hits = SubSeq(all, 1, K) /\ K \in 0 .. L + M
    BY <1>1, <2>3, <2>5, <2>6 DEF UpTo
  <2>8. /\ after.hits \in Seq(AllHits) /\ Len(after.hits) = K /\ DOMAIN after.hits = 1 .. K
        /\ \A i \in 1 .. K : after.hits[i] = all[i]
    <3> HIDE DEF K, L, M
    <3> QED
      BY <1>1, <2>5, <2>6, <2>7
  <2>9. IsResult(after)
    <3>1. after \in [hits : Seq(AllHits), truncated : BOOLEAN]
      BY <2>2, <2>3, <2>8 DEF after
    <3>2. L + M > Total => K >= Total
      BY <1>1, <2>5
    <3> QED
      BY <2>3, <2>8, <3>1, <3>2 DEF IsResult
  <2>10. \A i \in DOMAIN after.hits :
                    \/ after.hits[i].report = read.name
                    \/ \E j \in DOMAIN result.hits : after.hits[i].report = result.hits[j].report
    <3> SUFFICES ASSUME NEW i \in 1 .. K, after.hits[i].report # read.name
                 PROVE  \E j \in 1 .. L : after.hits[i].report = result.hits[j].report
      BY <1>1, <2>8
    <3>1. i \in 1 .. L + M /\ after.hits[i] = all[i]
      BY <1>1, <2>5, <2>7, <2>8
    <3>2. i \in 1 .. L
      <4> SUFFICES ASSUME i \notin 1 .. L PROVE FALSE
        OBVIOUS
      <4>1. i - L \in 1 .. M /\ L + (i - L) = i
        <5>1. L \in Nat /\ M \in Nat
          BY <1>1, <2>5
        <5> HIDE DEF L, M
        <5> QED
          BY <3>1, <5>1
      <4>2. all[L + (i - L)] = more[i - L] /\ more[i - L].report = read.name
        <5> HIDE DEF L, M
        <5> QED
          BY <2>5, <2>6, <4>1
      <4> HIDE DEF L, M, K
      <4> QED
        BY <3>1, <4>1, <4>2
    <3> QED
      BY <2>6, <3>1, <3>2
  <2>11. CASE L + M > Total
    <3>1. after.truncated
      BY <2>3, <2>11
    <3>2. \A n, r : Hunted(after, n, r, entries)
      BY <3>1 DEF Hunted
    <3> QED
      BY <2>9, <2>10, <3>2 DEF after
  <2>12. CASE ~(L + M > Total)
    <3>1. K = L + M
      <4>1. L \in Nat /\ M \in Nat /\ Total \in Nat
        BY <1>1, <2>5
      <4> HIDE DEF L, M
      <4> QED
        BY <2>12, <4>1
    <3>2. /\ DOMAIN after.hits = 1 .. L + M
          /\ \A i \in 1 .. L : after.hits[i] = result.hits[i] /\ result.hits[i].report # read.name
          /\ \A i \in 1 .. M : after.hits[L + i] = more[i] /\ more[i].report = read.name
      <4>1. DOMAIN after.hits = 1 .. L + M /\ \A i \in 1 .. L + M : after.hits[i] = all[i]
        BY <2>8, <3>1
      <4>2. \A i \in 1 .. L : i \in 1 .. L + M
        BY <1>1, <2>5
      <4>3. \A i \in 1 .. M : L + i \in 1 .. L + M
        BY <1>1, <2>5
      <4> QED
        BY <1>1, <2>5, <2>6, <4>1, <4>2, <4>3
    <3>3. /\ Cardinality(Shown(after.hits, read.name)) = Cardinality(Shown(more, read.name))
          /\ \A n : n # read.name => Shown(after.hits, n) = Shown(result.hits, n)
      <4>1. /\ L \in Nat /\ M \in Nat /\ DOMAIN result.hits = 1 .. L /\ DOMAIN more = 1 .. M
            /\ IsFiniteSet(Shown(more, read.name))
        BY <1>1, <2>1, <2>5
      <4>2. Follows(after.hits, result.hits, more, read.name, L, M)
        BY <3>2, <4>1, Zenon DEF Follows
      <4> HIDE DEF L, M
      <4> QED
        BY <4>2, HitsAfterHits
    <3>4. Hunted(after, read.name, read.says, entries)
      <4> SUFFICES ASSUME NEW j \in DOMAIN entries, Matches(entries[j], read.says) # {},
                          Cardinality(Shown(more, read.name)) # PerReport
                   PROVE  \E i \in DOMAIN after.hits : /\ after.hits[i].report = read.name
                                                       /\ after.hits[i].ioc = entries[j]
        BY <3>3 DEF Hunted
      <4>1. PICK i \in 1 .. M : more[i].ioc = entries[j]
        BY <2>1, <2>5
      <4>2. L + i \in DOMAIN after.hits
        BY <1>1, <2>5, <3>2
      <4> QED
        BY <3>2, <4>1, <4>2
    <3>5. ASSUME NEW n, NEW r, n # read.name, Hunted(result, n, r, entries)
          PROVE  Hunted(after, n, r, entries)
      <4>1. ~result.truncated
        BY <1>1, <1>4
      <4>2. Shown(after.hits, n) = Shown(result.hits, n)
        BY <3>3, <3>5
      <4>3. \A i \in DOMAIN result.hits : i \in DOMAIN after.hits /\ after.hits[i] = result.hits[i]
        BY <1>1, <2>5, <3>2
      <4> HIDE DEF L, M
      <4> SUFFICES ASSUME NEW j \in DOMAIN entries, Matches(entries[j], r) # {},
                          Cardinality(Shown(result.hits, n)) # PerReport
                   PROVE  \E i \in DOMAIN after.hits : /\ after.hits[i].report = n
                                                       /\ after.hits[i].ioc = entries[j]
        BY <4>2 DEF Hunted
      <4>4. PICK i \in DOMAIN result.hits : result.hits[i].report = n /\ result.hits[i].ioc = entries[j]
        BY <3>5, <4>1 DEF Hunted
      <4> QED
        BY <4>3, <4>4
    <3> QED
      BY <2>9, <2>10, <3>4, <3>5 DEF after
  <2> QED
    BY <2>11, <2>12
<1> QED
  BY <1>2, <1>3, <1>4

\* api_ioc_list_import: the news of a paste after each of its lines.
NewsOf(T, pasted, m) == T = [k \in 0 .. m |-> IF k = 0 THEN <<>> ELSE Fresh(T[k - 1], pasted[k])]
\* What an import adds is of the indicators that were pasted.
LEMMA NewsAreIocs ==
    ASSUME NEW pasted \in Seq(Iocs)
    PROVE  News(pasted)[Len(pasted)] \in Seq(Iocs)
<1> DEFINE N == Len(pasted)
           Good == {m \in 0 .. N : \E T : NewsOf(T, pasted, m)}
<1>0. N \in Nat /\ \A k \in 1 .. N : pasted[k] \in Iocs
  OBVIOUS
<1>1. 0 \in Good
  <2>1. NewsOf([k \in 0 .. 0 |-> <<>>], pasted, 0)
    BY DEF NewsOf
  <2> QED
    BY <1>0, <2>1
<1>2. ASSUME NEW m \in 0 .. N, m # N, m \in Good PROVE m + 1 \in Good
  <2>1. PICK T : NewsOf(T, pasted, m)
    BY <1>2
  <2> DEFINE U == [k \in 0 .. m + 1 |-> IF k = m + 1 THEN Fresh(T[m], pasted[m + 1]) ELSE T[k]]
  <2>2. U[0] = <<>>
    BY <2>1 DEF NewsOf
  <2>3. \A k \in 1 .. m + 1 : U[k] = Fresh(U[k - 1], pasted[k])
    <3> SUFFICES ASSUME NEW k \in 1 .. m + 1 PROVE U[k] = Fresh(U[k - 1], pasted[k])
      OBVIOUS
    <3>1. U[k - 1] = T[k - 1]
      OBVIOUS
    <3>2. CASE k = m + 1
      BY <3>1, <3>2
    <3>3. CASE k # m + 1
      <4>1. k \in 0 .. m /\ k # 0 /\ U[k] = T[k]
        BY <3>3
      <4>2. T[k] = Fresh(T[k - 1], pasted[k])
        BY <2>1, <4>1 DEF NewsOf
      <4> QED
        BY <3>1, <4>1, <4>2
    <3> QED
      BY <3>2, <3>3
  <2>4. U = [k \in 0 .. m + 1 |-> U[k]]
    OBVIOUS
  <2> HIDE DEF U
  <2>5. \A k \in 0 .. m + 1 : U[k] = IF k = 0 THEN <<>> ELSE Fresh(U[k - 1], pasted[k])
    BY <2>2, <2>3
  <2>6. NewsOf(U, pasted, m + 1)
    BY <2>4, <2>5 DEF NewsOf
  <2> QED
    BY <1>0, <1>2, <2>6
<1>3. N \in Good
  <2> HIDE DEF Good, N
  <2>1. \A k \in 0 .. N : k # N /\ k \in Good => k + 1 \in Good
    BY <1>2
  <2>2. \A k \in 0 .. N : k \in Good
    BY <1>0, <1>1, <2>1, Climb, Zenon
  <2> QED
    BY <1>0, <2>2
<1>4. \E T : NewsOf(T, pasted, N)
  BY <1>3
<1>5. News(pasted)
        = CHOOSE T : T = [k \in 0 .. N |-> IF k = 0 THEN <<>> ELSE Fresh(T[k - 1], pasted[k])]
  BY Zenon DEF News
<1> DEFINE T == News(pasted)
<1>6. NewsOf(T, pasted, N)
  BY <1>4, <1>5, Zenon DEF NewsOf
<1> HIDE DEF T, N
<1>7. T[0] = <<>> /\ \A k \in 1 .. N : T[k] = Fresh(T[k - 1], pasted[k])
  <2>1. \A k \in 0 .. N : T[k] = IF k = 0 THEN <<>> ELSE Fresh(T[k - 1], pasted[k])
    BY <1>6 DEF NewsOf
  <2>2. N \in Nat
    BY <1>0
  <2>3. 0 \in 0 .. N /\ \A k \in 1 .. N : k \in 0 .. N /\ k # 0
    BY <2>2
  <2> QED
    BY <2>1, <2>3, Zenon
<1> DEFINE Typed == {k \in 0 .. N : T[k] \in Seq(Iocs)}
<1>8. 0 \in Typed
  <2>1. 0 \in 0 .. N
    BY <1>0
  <2>2. <<>> \in Seq(Iocs) /\ T[0] = <<>>
    BY <1>7
  <2> QED
    BY <2>1, <2>2
<1>9. ASSUME NEW k \in 0 .. N, k # N, k \in Typed PROVE k + 1 \in Typed
  <2>1. k + 1 \in 1 .. N /\ (k + 1) - 1 = k
    BY <1>0, <1>9
  <2>2. T[k + 1] = Fresh(T[k], pasted[k + 1]) /\ pasted[k + 1] \in Iocs /\ T[k] \in Seq(Iocs)
    BY <1>0, <1>7, <1>9, <2>1
  <2>3. T[k + 1] \in Seq(Iocs)
    BY <2>2 DEF Fresh
  <2> QED
    BY <2>1, <2>3
<1>10. N \in Typed
  <2> HIDE DEF Typed
  <2>1. \A k \in 0 .. N : k # N /\ k \in Typed => k + 1 \in Typed
    BY <1>9
  <2>2. \A k \in 0 .. N : k \in Typed
    BY <1>0, <1>8, <2>1, Climb, Zenon
  <2> QED
    BY <1>0, <2>2
<1> QED
  BY <1>10 DEF T, N

\* The lists of a project keep their form.
ListsOK == {list, import} \subseteq {NoList} \cup Seq(Iocs)
\* Every edit of a list keeps that.
LEMMA ListsStep == ListsOK /\ [LibraryNext]_library => ListsOK'
<1> SUFFICES ASSUME ListsOK, [LibraryNext]_library PROVE ListsOK'
  OBVIOUS
<1>1. \A pasted \in Pastes : pasted \in Seq(Iocs)
  <2> SUFFICES ASSUME NEW pasted \in Pastes PROVE pasted \in Seq(Iocs)
    OBVIOUS
  <2>1. pasted \in Seq(Rows(pasted)) /\ Rows(pasted) \subseteq Iocs
    BY LibraryAssumption DEF Iocs
  <2> QED
    BY <2>1
<1>2. CASE UNCHANGED lists
  BY <1>2 DEF lists, ListsOK
<1>3. ASSUME NEW sent \in Pastes, CreateList(sent) \/ ReplaceList(sent) PROVE ListsOK'
  BY <1>1, <1>3 DEF CreateList, ReplaceList, ListsOK
<1>4. CASE DeleteList
  BY <1>4 DEF DeleteList, ListsOK
<1>5. ASSUME NEW sent \in Pastes, BeginImport(sent) PROVE ListsOK'
  <2>1. import' \in Seq(Iocs) /\ list' = list
    BY <1>1, <1>5, NewsAreIocs DEF BeginImport
  <2> QED
    BY <2>1 DEF ListsOK
<1>6. CASE CommitImport
  <2>1. import \in Seq(Iocs) /\ list \in {NoList} \cup Seq(Iocs)
    BY <1>6 DEF CommitImport, ListsOK
  <2>2. list \in Seq(Iocs) => list \o import \in Seq(Iocs)
    BY <2>1
  <2>3. list' \in {list, list \o import} /\ (list = NoList => list' = list) /\ import' = NoList
    BY <1>6 DEF CommitImport
  <2>4. list' \in {NoList} \cup Seq(Iocs)
    BY <2>1, <2>2, <2>3
  <2> QED
    BY <2>3, <2>4 DEF ListsOK
<1> QED
  BY <1>2, <1>3, <1>4, <1>5, <1>6
  DEF LibraryNext, library, lists, ListsNext, EditLists, StartScan, OpenFile, CloseFile, KillEngine,
      DeleteReport, AskOne, Ask, Load, Look, Serve, ServeFails, Answer, Got

\* What a hunt has found while it reads on: it has no hit yet in what it has not
\* read, and of what it has read it has every indicator.
HuntOK ==
    reading # NoReading /\ reading.kind = "files" =>
        /\ reading.entries \in Seq(Iocs) /\ IsResult(reading.found)
        /\ \A i \in DOMAIN reading.found.hits : reading.found.hits[i].report \notin reading.todo
        /\ \A i \in DOMAIN reading.got :
              /\ reading.got[i].name \notin reading.todo
              /\ reading.got[i].says # Unreadable =>
                    Hunted(reading.found, reading.got[i].name, reading.got[i].says, reading.entries)

\* Every step of a request keeps that, the step that reads a report by HuntTurn.
LEMMA HuntStep ==
    LibraryInv /\ ListsOK /\ HuntOK /\ [LibraryNext]_library => HuntOK'
<1> SUFFICES ASSUME DirectoryOK, RequestOK, ListsOK, HuntOK, [LibraryNext]_library,
                    reading' # NoReading, reading'.kind = "files"
             PROVE  HuntOK'
  BY DEF LibraryInv, HuntOK
<1> DEFINE FoundOK(found, todo, got, entries) ==
        /\ entries \in Seq(Iocs) /\ IsResult(found)
        /\ \A i \in DOMAIN found.hits : found.hits[i].report \notin todo
        /\ \A i \in DOMAIN got :
              /\ got[i].name \notin todo
              /\ got[i].says # Unreadable => Hunted(found, got[i].name, got[i].says, entries)
<1>0. FoundOK(reading'.found, reading'.todo, reading'.got, reading'.entries) => HuntOK'
  <2>1. ASSUME NEW x, x = reading', FoundOK(x.found, x.todo, x.got, x.entries)
        PROVE  HuntOK'
    BY <2>1 DEF HuntOK, IsResult, Hunted
  <2> QED
    BY <2>1
<1>1. reading # NoReading /\ reading.kind = "files" =>
            FoundOK(reading.found, reading.todo, reading.got, reading.entries)
  BY DEF HuntOK
<1> HIDE DEF FoundOK
<1>2. CASE reading' = reading
  BY <1>0, <1>1, <1>2
<1>3. CASE Asking
  <2>1. /\ reading'.found = NothingFound /\ reading'.got = <<>>
        /\ reading'.entries \in Seq(Iocs)
    <3>1. ASSUME NEW kind, Ask(kind)
          PROVE  /\ reading'.found = NothingFound /\ reading'.got = <<>>
                 /\ reading'.entries = IF list = NoList THEN <<>> ELSE list
      BY <3>1 DEF Ask, Request
    <3>2. ASSUME NEW n, AskOne(n)
          PROVE  reading'.found = NothingFound /\ reading'.got = <<>> /\ reading'.entries = <<>>
      BY <3>2 DEF AskOne, Request
    <3>3. (IF list = NoList THEN <<>> ELSE list) \in Seq(Iocs) /\ <<>> \in Seq(Iocs)
      BY DEF ListsOK
    <3> QED
      BY <1>3, <3>1, <3>2, <3>3 DEF Asking
  <2>2. IsResult(NothingFound) /\ \A i : i \notin DOMAIN NothingFound.hits
    BY DEF NothingFound, IsResult
  <2>3. \A i : i \notin DOMAIN <<>>
    OBVIOUS
  <2>4. FoundOK(NothingFound, reading'.todo, <<>>, reading'.entries)
    BY <2>1, <2>2, <2>3 DEF FoundOK
  <2> QED
    BY <1>0, <2>1, <2>4
<1>4. CASE Serving
  <2>1. /\ reading # NoReading /\ DOMAIN reading' = DOMAIN reading
        /\ DOMAIN reading = {"kind", "todo", "looked", "got", "settled", "entries", "found"}
        /\ reading'.kind = reading.kind /\ reading.kind = "files" /\ reading'.entries = reading.entries
    <3>1. reading # NoReading
      BY <1>4 DEF Serving, Load, Look, Serve, ServeFails, Answer, Busy
    <3> QED
      BY <1>4, <3>1, OngoingRequest DEF RequestOK
  <2>2. ~reading.looked
    BY <2>1 DEF RequestOK
  <2>3. CASE Load
    <3> DEFINE read == [name |-> Due, says |-> Loaded(Due)]
               after == Hunt(reading.found, read, reading.entries)
    <3>1. /\ reading'.todo = reading.todo \ {Due}
          /\ reading'.got = Append(reading.got, read)
          /\ reading'.found = after
      BY <2>1, <2>3 DEF Load, Got
    <3>2. Due \in reading.todo /\ Due \in Rows(Names) /\ Busy
      BY <2>3, DueIsLeft DEF Load
    <3>3. read.name = Due /\ read.says = Loaded(Due)
      OBVIOUS
    <3>4. read.says = Unreadable \/ IsReport(read.says)
      <4>1. IsReport(Raw(says[Due])) /\ IsReport(says[Due])
        BY <3>2, RawIsReport, LibraryAssumption DEF DirectoryOK
      <4> QED
        BY <3>3, <4>1 DEF Loaded
    <3>5. FoundOK(reading.found, reading.todo, reading.got, reading.entries)
      BY <1>1, <2>1
    <3> HIDE DEF read
    <3>6. /\ IsResult(after)
          /\ read.says # Unreadable => Hunted(after, read.name, read.says, reading.entries)
          /\ \A n, r : n # read.name /\ Hunted(reading.found, n, r, reading.entries)
                            => Hunted(after, n, r, reading.entries)
          /\ \A i \in DOMAIN after.hits :
                \/ after.hits[i].report = read.name
                \/ \E j \in DOMAIN reading.found.hits :
                        after.hits[i].report = reading.found.hits[j].report
      <4>1. /\ IsResult(reading.found) /\ reading.entries \in Seq(Iocs)
            /\ \A i \in DOMAIN reading.found.hits : reading.found.hits[i].report # read.name
        BY <3>2, <3>3, <3>5 DEF FoundOK
      <4> QED
        BY <3>2, <3>3, <3>4, <4>1, HuntTurn
    <3> HIDE DEF after
    <3>7. /\ DOMAIN reading.got = 1 .. Len(reading.got) /\ Len(reading.got) \in Nat
          /\ DOMAIN reading'.got = 1 .. Len(reading.got) + 1
          /\ \A i \in DOMAIN reading.got : reading'.got[i] = reading.got[i]
          /\ reading'.got[Len(reading.got) + 1] = read
      BY <2>1, <3>1 DEF RequestOK
    <3>8. \A i \in DOMAIN after.hits : after.hits[i].report \notin reading'.todo
      BY <3>1, <3>3, <3>5, <3>6 DEF FoundOK
    <3>9. ASSUME NEW i \in DOMAIN reading'.got
          PROVE  /\ reading'.got[i].name \notin reading'.todo
                 /\ reading'.got[i].says # Unreadable =>
                       Hunted(after, reading'.got[i].name, reading'.got[i].says, reading.entries)
      <4>1. CASE i = Len(reading.got) + 1
        BY <3>1, <3>3, <3>6, <3>7, <4>1
      <4>2. CASE i # Len(reading.got) + 1
        <5>1. i \in DOMAIN reading.got /\ reading'.got[i] = reading.got[i]
          BY <3>7, <4>2
        <5>2. /\ reading.got[i].name \notin reading.todo
              /\ reading.got[i].says # Unreadable =>
                    Hunted(reading.found, reading.got[i].name, reading.got[i].says, reading.entries)
          BY <3>5, <5>1 DEF FoundOK
        <5> QED
          BY <3>1, <3>2, <3>3, <3>6, <5>1, <5>2
      <4> QED
        BY <4>1, <4>2
    <3>10. FoundOK(after, reading'.todo, reading'.got, reading.entries)
      BY <3>5, <3>6, <3>8, <3>9 DEF FoundOK
    <3> QED
      BY <1>0, <2>1, <3>1, <3>10
  <2> QED
    BY <1>4, <2>1, <2>2, <2>3 DEF Serving, Look, Serve, ServeFails, Answer
<1> QED
  BY <1>2, <1>3, <1>4, KindsOfSteps

\* api_ioc_list_scan: while scans write and reports are deleted under it, a hunt
\* that does not say it was truncated has missed an indicator of a standing report
\* only where that report had given as many matches as it may.
THEOREM HuntsMissOnlyAtTheCap == LibrarySpec => []HuntMissesOnlyAtTheCap
<1>1. LibraryInit => ListsOK /\ HuntOK
  BY DEF LibraryInit, ListsInit, ListsOK, HuntOK
<1>2. LibraryInv /\ ListsOK /\ HuntOK /\ [LibraryNext]_library => (ListsOK /\ HuntOK)'
  BY ListsStep, HuntStep
<1>3. LibraryInv /\ HuntOK => HuntMissesOnlyAtTheCap
  <2> SUFFICES ASSUME LibraryInv, HuntOK, Answers("files"), NEW n \in Standing,
                      NEW ioc \in Rows(reading.entries),
                      NEW value \in Surface(ioc.type, says[n]), Fits(ioc, value),
                      ~reading.found.truncated, Cardinality(Shown(reading.found.hits, n)) # PerReport
               PROVE  \E h \in Rows(reading.found.hits) : h.report = n /\ h.ioc = ioc
    BY DEF HuntMissesOnlyAtTheCap
  <2>1. reading # NoReading /\ reading.kind = "files" /\ reading.todo = {}
    BY DEF Answers, Busy, NoReading
  <2>2. Told(n)
    BY <2>1 DEF LibraryInv, NothingLost
  <2>3. PICK i \in DOMAIN reading.got : reading.got[i].name = n /\ reading.got[i].says = Raw(says[n])
    BY <2>1, <2>2 DEF Told, Delivered
  <2>4. n \in Rows(Names)
    <3>1. PICK k \in 1 .. scanned : n = Names[k]
      BY <2>1 DEF LibraryInv, SettledOK, Standing
    <3>2. k \in DOMAIN Names
      BY LibraryAssumption DEF LibraryInv, DirectoryOK
    <3> QED
      BY <3>1, <3>2 DEF Rows
  <2>5. IsReport(says[n]) /\ Raw(says[n]) # Unreadable
    BY <2>4, LibraryAssumption DEF LibraryInv, DirectoryOK
  <2>6. Hunted(reading.found, n, Raw(says[n]), reading.entries) /\ reading.entries \in Seq(Iocs)
    BY <2>1, <2>3, <2>5 DEF HuntOK
  <2>7. PICK j \in DOMAIN reading.entries : ioc = reading.entries[j]
    BY DEF Rows
  <2>8. ioc \in Iocs
    BY <2>6, <2>7
  <2>9. ioc.type \in Types
    BY <2>8, LibraryAssumption DEF Iocs
  <2>10. Matches(ioc, Raw(says[n])) # {}
    BY <2>5, <2>9, SurfaceMatches, MatchesAreFew
  <2>11. PICK k \in DOMAIN reading.found.hits : /\ reading.found.hits[k].report = n
                                                /\ reading.found.hits[k].ioc = ioc
    BY <2>6, <2>7, <2>10 DEF Hunted
  <2> QED
    BY <2>11 DEF Rows
<1> QED
  BY <1>1, <1>2, <1>3, RequestsLoseNothing, PTL DEF LibrarySpec

=============================================================================

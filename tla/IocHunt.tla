------------------------------ MODULE IocHunt ------------------------------
(***************************************************************************)
(* Indicators of compromise (iocs.py and the /iocs routes).  A project     *)
(* keeps lists of indicators; a hunt looks for those of a list in every    *)
(* report of the project, the viewer for those of all lists in one report. *)
(*                                                                         *)
(* An indicator has a type and a value, and values are taken as            *)
(* _norm_value leaves them.                                                *)
(***************************************************************************)
EXTENDS ReportExports

CONSTANTS
    OuiOf,          \* of a MAC: its first three octets
    NamesUnder,     \* of a domain: the names below it that were asked for
    PerReport,      \* _MAX_HITS_PER_REPORT
    Total,          \* _MAX_HITS_TOTAL
    Unreadable      \* what is read of a report that is not there or is cut short

Types == {"ip", "mac", "oui", "domain", "sha256", "md5"}

\* The cells of a table, row by row: some fields of each row, or what a field lists.
Fields(rows, fields) ==
    [i \in DOMAIN rows |-> [j \in DOMAIN fields |-> [field |-> fields[j], value |-> rows[i][fields[j]]]]]
Listed(rows, field) ==
    [i \in DOMAIN rows |-> [j \in DOMAIN rows[i][field] |->
                                [field |-> field, value |-> rows[i][field][j]]]]

\* _scan_report: the tables in which it looks for an indicator of a type.  Hashes are
\* looked for under the names sha256 and md5, and not among the observables.
Searched(type, r) ==
    CASE type = "ip" -> << Fields(r.nodes, <<"ip">>), Fields(r.convs, <<"sip", "dip">>),
                           Fields(r.c2, <<"dst", "src">>), Listed(r.findings, "nodes") >>
      [] type = "mac" -> << Fields(r.nodes, <<"mac">>), Fields(r.convs, <<"src", "dst">>),
                            Fields(r.c2, <<"dmac", "smac">>) >>
      [] type = "oui" -> << Fields(r.nodes, <<"mac">>), Fields(r.convs, <<"src", "dst">>) >>
      [] type = "domain" -> << Listed(r.convs, "asked") >>
      [] type = "sha256" -> << Fields(r.malware, <<"sha256">>) >>
      [] type = "md5" -> << Fields(r.malware, <<"md5">>) >>

\* The places of some tables, [table, row, column], in their order.
Row(tables, t, i) == {[table |-> t, row |-> i, column |-> j] : j \in DOMAIN tables[t][i]}
Table(tables, t) == UNION {Row(tables, t, i) : i \in DOMAIN tables[t]}
PlacesIn(tables) == UNION {Table(tables, t) : t \in DOMAIN tables}
Cell(tables, p) == tables[p.table][p.row][p.column]
Precedes(p, q) ==
    \/ p.table < q.table
    \/ p.table = q.table /\ p.row < q.row
    \/ p.table = q.table /\ p.row = q.row /\ p.column < q.column
FirstPlaces(n, places) ==
    {p \in places : Cardinality({q \in places : Precedes(q, p)}) < n}

Fits(ioc, value) ==
    CASE ioc.type = "oui" -> value \in DOMAIN OuiOf /\ OuiOf[value] = ioc.value
      [] ioc.type = "domain" -> value = ioc.value \/ value \in NamesUnder[ioc.value]
      [] OTHER -> value = ioc.value
Matches(ioc, r) ==
    LET tables == Searched(ioc.type, r)
    IN {p \in PlacesIn(tables) : Fits(ioc, Cell(tables, p).value)}

Hit(name, ioc, matches) == [report |-> name, ioc |-> ioc, matches |-> matches]

\* One more indicator against a report: as many of its matches as the report may
\* still give.
Scan(sofar, name, r, ioc) ==
    LET found == FirstPlaces(PerReport - sofar.count, Matches(ioc, r))
    IN IF found = {} THEN sofar
       ELSE [hits |-> Append(sofar.hits, Hit(name, ioc, found)),
             count |-> sofar.count + Cardinality(found)]
\* A report after each of the indicators of a list.
Scans(name, r, entries) ==
    LET S[k \in 0 .. Len(entries)] ==
            IF k = 0 THEN [hits |-> <<>>, count |-> 0] ELSE Scan(S[k - 1], name, r, entries[k])
    IN S
ScanReport(name, r, entries) == Scans(name, r, entries)[Len(entries)].hits

\* One more report.  What cannot be read is passed over.
Found(result, read, entries) ==
    IF read.says = Unreadable THEN result
    ELSE LET more == ScanReport(read.name, read.says, entries)
         IN [hits |-> UpTo(Total, result.hits \o more),
             truncated |-> Len(result.hits) + Len(more) > Total]
NothingFound == [hits |-> <<>>, truncated |-> FALSE]

\* Bug: the hunt ends at its cap without saying so.
HuntUnsaid(result, read, entries) ==
    IF Len(result.hits) >= Total THEN result ELSE Found(result, read, entries)

\* scan_ioc_list_against_reports: what has been found so far, and one more turn of
\* its loop.  At the cap the hunt ends: what is read after it changes nothing.
Hunt(result, read, entries) ==
    IF Len(result.hits) >= Total THEN [result EXCEPT !.truncated = TRUE]
    ELSE Found(result, read, entries)

\* _ioc_matches_for_report: the asset a match is shown at.  A MAC leads to the
\* address of the last node that has it; anything else is shown as it is.
AssetsOf(r, entries) ==
    LET hits == ScanReport("viewer", r, entries)
        cells == UNION {{Cell(Searched(h.ioc.type, r), p) : p \in h.matches} : h \in Rows(hits)}
        Owners(mac) == {i \in DOMAIN r.nodes : r.nodes[i].mac = mac /\ r.nodes[i].ip # NoText}
    IN {IF cell.field \in {"mac", "src", "dst", "smac", "dmac"} /\ cell.value \in DOMAIN OuiOf
          THEN (IF Owners(cell.value) = {} THEN NoText
                ELSE r.nodes[CHOOSE i \in Owners(cell.value) : \A j \in Owners(cell.value) : j <= i].ip)
          ELSE cell.value : cell \in cells}

-----------------------------------------------------------------------------
(* The lists.  An entry is a row of ioc_entries, unique in its list.       *)

CONSTANTS Pastes,   \* what is sent or pasted: sequences of indicators
          NoList
VARIABLES list,     \* the entries of a list in the order of their rows, or NoList
          import    \* the entries an import is about to add, or NoList
lists == <<list, import>>

ListsInit == list = NoList /\ import = NoList

Distinct(seq) == Cardinality(Rows(seq)) = Len(seq)

\* api_ioc_lists_create, api_ioc_list_replace: an entry that is there twice
\* breaks the unique constraint and the request with it.
CreateList(sent) == list = NoList /\ Distinct(sent) /\ list' = sent /\ UNCHANGED import
ReplaceList(sent) == list # NoList /\ Distinct(sent) /\ list' = sent /\ UNCHANGED import
DeleteList == list # NoList /\ list' = NoList /\ UNCHANGED import

\* api_ioc_list_import: what the list has is skipped, and so is what the paste
\* has brought before (the session flushes what was added before it asks).
Fresh(new, ioc) == IF ioc \in Rows(list) \cup Rows(new) THEN new ELSE Append(new, ioc)
News(pasted) ==
    LET New[k \in 0 .. Len(pasted)] == IF k = 0 THEN <<>> ELSE Fresh(New[k - 1], pasted[k])
    IN New
BeginImport(pasted) ==
    /\ list # NoList /\ import = NoList
    /\ import' = News(pasted)[Len(pasted)]
    /\ UNCHANGED list

\* The commit fails as a whole when another request has added an entry of it,
\* or has deleted the list.
CommitImport ==
    /\ import # NoList
    /\ import' = NoList
    /\ list' = IF list = NoList THEN list
               ELSE IF Rows(import) \cap Rows(list) # {} THEN list ELSE list \o import

ListsNext == \/ \E sent \in Pastes : CreateList(sent) \/ ReplaceList(sent) \/ BeginImport(sent)
             \/ DeleteList \/ CommitImport

=============================================================================

-------------------------------- MODULE Views --------------------------------
(***************************************************************************)
(* The RIB commands of the management interface (mgmt.rs): what each of    *)
(* them shows of the Loc-RIB it holds the read lock of.  Every command     *)
(* collects, sorts and words its rows by itself.  An answer is the         *)
(* sequence of its rows, without the layout and without the columns that   *)
(* no other command has.                                                   *)
(***************************************************************************)
EXTENDS Addresses, Option, SequencesExt

CONSTANTS
    Keys,       \* prefixes that the Loc-RIB may hold
    Routes,     \* attributes: [next_hop, origin, as_path, local_pref, med]
    NoRoute,    \* no entry in the Loc-RIB
    Asked,      \* AS numbers and next hops that are asked for
    Dash, Question, Empty   \* the words "-", "?" and "(empty)"

ASSUME ViewsAssumption ==
    /\ Keys \subseteq PrefixKey /\ IsFiniteSet(Keys)
    /\ NoRoute \notin Routes
    /\ \A route \in Routes : route.as_path \in Seq(Seq(Nat))
    /\ Dash \notin Seq(Nat) /\ Dash \notin Asked /\ None \notin Asked

VARIABLE table      \* the Loc-RIB

Installed == {k \in Keys : table[k] # NoRoute}

\* Order of pairs
Before(a, b) == a[1] < b[1] \/ (a[1] = b[1] /\ a[2] < b[2])

\* sort_by_key; keys come from a hash map, in any order.
SortByKey(keys, key) ==
    CHOOSE s \in [1..Cardinality(keys) -> keys] :
        /\ \A i, j \in 1..Cardinality(keys) : i # j => s[i] # s[j]
        /\ \A i, j \in 1..Cardinality(keys) : i < j => ~Before(key[s[j]], key[s[i]])

\* flat_map over the segments; AS_SETs are not marked.
AsNumbers(route) == FlattenSeq(route.as_path)

\* show bgp summary: the count.  The peers that this command and show bgp
\* neighbors list have no writer, so that there is none.
CmdBgpSummary == Cardinality(Installed)

\* show bgp rib
CmdBgpRib ==
    LET s == SortByKey(Installed, [k \in Installed |-> <<k.address, k.prefix_len>>])
        Line(k, route) ==
          [network    |-> k,
           local_pref |-> UnwrapOr(route.local_pref, 100),
           med        |-> UnwrapOr(route.med, 0),
           as_path    |-> IF AsNumbers(route) = <<>> THEN Dash ELSE AsNumbers(route),
           next_hop   |-> UnwrapOr(route.next_hop, Dash),
           origin     |-> UnwrapOr(route.origin, Question)]
    IN  [i \in 1..Cardinality(Installed) |-> Line(s[i], table[s[i]])]

\* show bgp rib prefix: the exact key, whose bits beyond the length count.
CmdBgpRibPrefix(k) ==
    IF k \notin Installed THEN None
    ELSE [next_hop   |-> UnwrapOr(table[k].next_hop, Dash),
          local_pref |-> UnwrapOr(table[k].local_pref, 100),
          med        |-> UnwrapOr(table[k].med, 0),
          origin     |-> UnwrapOr(table[k].origin, Question),
          as_path    |-> IF AsNumbers(table[k]) = <<>> THEN Empty ELSE AsNumbers(table[k])]

\* Mutant of CmdBgpRibAspath: only the first segment is searched.
CmdBgpRibAspathFirst(asn) ==
    LET matches == {k \in Installed :
                      /\ table[k].as_path # <<>>
                      /\ \E i \in DOMAIN table[k].as_path[1] : table[k].as_path[1][i] = asn}
        s == SortByKey(matches, [k \in matches |-> <<k.address, k.prefix_len>>])
        Line(k, route) ==
          [network  |-> k,
           next_hop |-> UnwrapOr(route.next_hop, Dash),
           as_path  |-> AsNumbers(route)]
    IN  [i \in 1..Cardinality(matches) |-> Line(s[i], table[s[i]])]

\* show bgp rib aspath: any segment that contains the AS number.
CmdBgpRibAspath(asn) ==
    LET matches == {k \in Installed :
                      \E g \in DOMAIN table[k].as_path :
                        \E i \in DOMAIN table[k].as_path[g] : table[k].as_path[g][i] = asn}
        s == SortByKey(matches, [k \in matches |-> <<k.address, k.prefix_len>>])
        Line(k, route) ==
          [network  |-> k,
           next_hop |-> UnwrapOr(route.next_hop, Dash),
           as_path  |-> AsNumbers(route)]
    IN  [i \in 1..Cardinality(matches) |-> Line(s[i], table[s[i]])]

\* show bgp rib nexthop: a route without next hop matches no address.
CmdBgpRibNexthop(target) ==
    LET matches == {k \in Installed : table[k].next_hop = target}
        s == SortByKey(matches, [k \in matches |-> <<k.address, k.prefix_len>>])
        Line(k, route) ==
          [network    |-> k,
           local_pref |-> UnwrapOr(route.local_pref, 100),
           as_path    |-> IF AsNumbers(route) = <<>> THEN Dash ELSE AsNumbers(route)]
    IN  [i \in 1..Cardinality(matches) |-> Line(s[i], table[s[i]])]

-----------------------------------------------------------------------------
(* Properties *)

\* The rows some are those of rows whose places are kept, in their order, as
\* far as the columns go.
Selected(some, rows, kept, columns) ==
    \E at \in [DOMAIN some -> kept] :
        /\ \A k \in kept : \E i \in DOMAIN some : at[i] = k
        /\ \A i, j \in DOMAIN some : i < j => at[i] < at[j]
        /\ \A i \in DOMAIN some, c \in columns : some[i][c] = rows[at[i]][c]

\* The commands show one and the same table, though each of them reads the
\* attributes, sorts and fills in defaults by itself: what a filter leaves are
\* the lines of the full table with that AS in the path shown, or with that
\* next hop, in its order and with the same entries, so that no line of the
\* aspath command has an empty path; a prefix is found exactly when the table
\* has a line for it, with the same entries but for the word for an empty
\* path; and the summary counts the lines.
ViewsAgree ==
    LET shown == CmdBgpRib
    IN  /\ \A asn \in Asked :
             Selected(CmdBgpRibAspath(asn), shown,
                      {i \in DOMAIN shown : shown[i].as_path # Dash /\ Contains(shown[i].as_path, asn)},
                      {"network", "next_hop", "as_path"})
        /\ \A target \in Asked :
             Selected(CmdBgpRibNexthop(target), shown,
                      {i \in DOMAIN shown : shown[i].next_hop = target},
                      {"network", "local_pref", "as_path"})
        /\ \A k \in PrefixKey :
             LET detail == CmdBgpRibPrefix(k)
                 found  == {i \in DOMAIN shown : shown[i].network = k}
             IN  /\ found = {} => detail = None
                 /\ \A i \in found :
                      /\ \A c \in {"next_hop", "local_pref", "med", "origin"} :
                           detail[c] = shown[i][c]
                      /\ detail.as_path =
                           IF shown[i].as_path = Dash THEN Empty ELSE shown[i].as_path
        /\ CmdBgpSummary = Len(shown)
=============================================================================

------------------------------- MODULE Policy -------------------------------
(***************************************************************************)
(* Prefix lists (policy.rs, PolicyEngine; config.rs, PolicyConfig): the    *)
(* lists as the configuration file spells them out, entry by entry, and    *)
(* the verdicts of the engine on them, compared with what an entry means   *)
(* as a set of prefixes.                                                   *)
(***************************************************************************)
EXTENDS Addresses, Option, FiniteSetsExt, Sequences

CONSTANTS
    Names,          \* names of prefix lists
    Bounds,         \* values of ge and le
    MaxEntries,     \* bound: entries of all lists
    MaxLists        \* bound: lists

ASSUME PolicyAssumption ==
    /\ Bounds \subseteq Nat
    /\ MaxEntries \in Nat
    /\ MaxLists \in Nat

\* The prefix of an entry is a string: None when parse_prefix rejects it.
PrefixListEntry ==
    [action : {"Permit", "Deny"}, prefix : PrefixKey \cup {None},
     ge : Bounds \cup {None}, le : Bounds \cup {None}]

VARIABLE prefix_lists   \* sequence of [name, entries]

-----------------------------------------------------------------------------
(* The engine *)

\* x & mask, for the mask that keeps the first len bits.
Masked(x, len) == x - (x % 2^(Width - len))

\* is_subnet
IsSubnet(k, net) ==
    /\ k.prefix_len >= net.prefix_len
    /\ \/ net.prefix_len = 0
       \/ Masked(net.address, net.prefix_len) = Masked(k.address, net.prefix_len)

\* matches_entry
MatchesEntry(e, k) ==
    /\ e.prefix # None
    /\ IsSubnet(k, e.prefix)
    /\ e.ge # None => k.prefix_len >= e.ge
    /\ e.le # None => k.prefix_len <= e.le
    /\ (e.ge = None /\ e.le = None) => k.prefix_len = e.prefix.prefix_len

\* Mutant of EvaluatePrefixList: the last matching entry decides.
EvaluateLast(entries, k) ==
    LET hits == {i \in DOMAIN entries : MatchesEntry(entries[i], k)}
    IN  hits # {} /\ entries[Max(hits)].action = "Permit"

\* evaluate_prefix_list: the first matching entry decides, none denies.
EvaluatePrefixList(entries, k) ==
    LET hits == {i \in DOMAIN entries : MatchesEntry(entries[i], k)}
    IN  hits # {} /\ entries[Min(hits)].action = "Permit"

\* apply: the first list of that name, or permit when there is none.
Apply(lists, name, k) ==
    LET named == {i \in DOMAIN lists : lists[i].name = name}
    IN  named # {} => EvaluatePrefixList(lists[Min(named)].entries, k)

-----------------------------------------------------------------------------
(* The configuration file *)

PolicyInit == prefix_lists = <<>>

\* [[policy.prefix_lists]]; names need not differ.
AddList(name) ==
    /\ Len(prefix_lists) < MaxLists
    /\ prefix_lists' = Append(prefix_lists, [name |-> name, entries |-> <<>>])

\* The next entry of the last list.
AddEntry(e) ==
    /\ prefix_lists # <<>>
    /\ MapThenSumSet(LAMBDA i : Len(prefix_lists[i].entries), DOMAIN prefix_lists)
         < MaxEntries
    /\ prefix_lists' = [prefix_lists EXCEPT
                          ![Len(prefix_lists)].entries = Append(@, e)]

PolicyNext ==
    \/ \E name \in Names : AddList(name)
    \/ \E e \in PrefixListEntry : AddEntry(e)

PolicySpec == PolicyInit /\ [][PolicyNext]_prefix_lists

-----------------------------------------------------------------------------
(* Properties *)

\* Reference: the prefixes that an entry stands for.  Without ge and le it is
\* the prefix itself; ge alone reaches down to single addresses, and le alone
\* starts at the length of the prefix.
Selected(e) ==
    IF e.prefix = None THEN {}
    ELSE LET len  == e.prefix.prefix_len
             low  == UnwrapOr(e.ge, len)
             high == UnwrapOr(e.le, IF e.ge = None THEN len ELSE Width)
         IN  {k \in PrefixKey :
                /\ Block(k.address, k.prefix_len) \subseteq Block(e.prefix.address, len)
                /\ low <= k.prefix_len /\ k.prefix_len <= high}

\* The verdict on a route is that of the first entry whose set of prefixes
\* has it, in the first list of that name; without a list it is permit: the masks,
\* the lengths, ge, le and the default route, in every combination, come out
\* as containment of address blocks, and nothing further down in the file
\* overrules what stands above.
VerdictIsFirstMatch ==
    \A name \in Names, k \in PrefixKey :
        LET Named(l) == prefix_lists[l].name = name
            Hits(l, j) == k \in Selected(prefix_lists[l].entries[j])
            first == {l \in DOMAIN prefix_lists :
                        Named(l) /\ \A i \in 1..(l - 1) : ~Named(i)}
        IN  Apply(prefix_lists, name, k)
              <=> \A l \in first :
                    \E j \in DOMAIN prefix_lists[l].entries :
                      /\ Hits(l, j)
                      /\ \A h \in 1..(j - 1) : ~Hits(l, h)
                      /\ prefix_lists[l].entries[j].action = "Permit"
=============================================================================

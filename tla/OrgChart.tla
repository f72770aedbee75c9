-------------------------------- MODULE OrgChart -------------------------------
(***************************************************************************)
(* The organisational chart: OrgChart in src/src/v2/grant.rs.  It is       *)
(* declared by the host, replaced at any time and may be malformed         *)
(* (cyclic): the checked queries then answer nothing.                      *)
(***************************************************************************)
EXTENDS AgentUrns, Naturals

CONSTANTS
    Charts, \* charts the host declares: parent_of, None for a root
    Later   \* bound: the charts that replace another one

ASSUME ChartConstants ==
    Charts \subseteq [Agents -> Agents \cup {None}] /\ Later \subseteq Charts

VARIABLE org    \* OrgChart.parent_of

\* The agent n levels above a; None above a root.
Above(a, n) ==
    LET up[k \in 0 .. n] ==
            IF k = 0 THEN a
            ELSE LET below == up[k - 1] IN IF below = None THEN None ELSE org[below]
    IN  up[n]

\* checked_chain succeeds: a root is reached before an agent repeats.
Rooted(a) == Above(a, Cardinality(Agents)) = None

\* validate: all declared chains are rooted.
ChartValid == \A a \in Agents : Rooted(a)

Levels == 1 .. Cardinality(Agents)

Supervisors(a) == {Above(a, n) : n \in Levels} \cap Agents

\* OrgChart::chain: nothing for a chain with a cycle.
ChainOf(a) == IF Rooted(a) THEN {a} \cup Supervisors(a) ELSE {}

\* mutant: the parties count as their own supervisors.
LcaOfChains(a, b) ==
    LET common == {n \in 0 .. Cardinality(Agents) : Above(a, n) \in ChainOf(b)}
    IN  IF Rooted(a) /\ Rooted(b) /\ common # {}
        THEN Above(a, CHOOSE n \in common : \A m \in common : n <= m)
        ELSE None

\* The first supervisor of a that also supervises b.
Lca(a, b) ==
    LET others == Supervisors(b)
        common == {n \in Levels : Above(a, n) \in others}
    IN  IF Rooted(a) /\ Rooted(b) /\ common # {}
        THEN Above(a, CHOOSE n \in common : \A m \in common : n <= m)
        ELSE None

Siblings(a, b) == a # b /\ org[a] # None /\ org[a] = org[b]

-----------------------------------------------------------------------------

ChartInit == org \in Charts

\* The host declares another chart.
Reorganise == org' \in Later

-----------------------------------------------------------------------------

\* The algorithm finds the lowest of the common supervisors, the same from both
\* ends, which admission relies on when the pair is given in the other order
\* (grant.rs:371, 589): what both have above them is it and what is above it.
LcaIsLowest ==
    \A a, b \in Agents : (Rooted(a) /\ Rooted(b)) =>
        LET common == Supervisors(a) \cap Supervisors(b)
            lca == Lca(a, b)
        IN  IF common = {} THEN lca = None
            ELSE lca \in common /\ common = {lca} \cup Supervisors(lca)
================================================================================

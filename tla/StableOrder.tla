---------------------------- MODULE StableOrder ----------------------------
(***************************************************************************)
(* Python's sorted() and list.sort() as operators: stable, by a strict     *)
(* order on keys, so positions break the ties; and what a comprehension    *)
(* with a condition keeps of a list.  The position of a member of a sorted *)
(* sequence is the number of the members before it.                        *)
(***************************************************************************)
EXTENDS Naturals, Sequences, FiniteSets

\* The members of S, a finite set that R orders, in that order.
Arranged(S, R) ==
    LET place == [i \in S |-> Cardinality({j \in S : <<j, i>> \in R})]
    IN  [k \in 1..Cardinality(S) |-> CHOOSE i \in S : place[i] = k - 1]

Ascending(S) == Arranged(S, {p \in S \X S : p[1] < p[2]})

\* The positions of s whose element passes Test, in order, and the elements.
Positions(s, Test(_)) == Ascending({i \in 1..Len(s) : Test(s[i])})
Those(s, Test(_)) ==
    LET at == Positions(s, Test)
    IN  [k \in 1..Len(at) |-> s[at[k]]]

\* i comes before j in s sorted by Less.
Sooner(s, Less(_, _)) ==
    {p \in (1..Len(s)) \X (1..Len(s)) :
        \/ Less(s[p[1]], s[p[2]])
        \/ ~Less(s[p[2]], s[p[1]]) /\ p[1] < p[2]}

StableSort(s, Less(_, _)) ==
    LET order == Arranged(1..Len(s), Sooner(s, Less))
    IN  [k \in 1..Len(s) |-> s[order[k]]]

\* Comparison of sequences of numbers position by position, as Python
\* compares lists, tuples and strings.
LexLess(s, t) ==
    \E k \in 1..Len(t) :
        /\ k - 1 =< Len(s)
        /\ \A i \in 1..(k - 1) : s[i] = t[i]
        /\ k - 1 = Len(s) \/ s[k] < t[k]
=============================================================================

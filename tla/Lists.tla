------------------------------- MODULE Lists -------------------------------
(***************************************************************************)
(* Python's lists, tuples and generators as the other modules need them: a  *)
(* comprehension with an `if` and a sum().  Both are defined by places and  *)
(* cardinalities, without recursion, so that facts about them need none.    *)
(***************************************************************************)
EXTENDS Naturals, Sequences, FiniteSets

\* A value that is a list, of whatever elements.
IsList(value) == value \in Seq({value[n] : n \in DOMAIN value})

\* The elements of a list at some of its places, in their order.
Sublist(list, places) ==
    [k \in 1..Cardinality(places) |->
        list[CHOOSE n \in places : Cardinality({m \in places : m < n}) = k - 1]]

\* The sum of what a function gives, as many things as there are in all.
Total(f) == Cardinality(UNION {{n} \X (1..f[n]) : n \in DOMAIN f})
=============================================================================

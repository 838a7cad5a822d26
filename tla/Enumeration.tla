------------------------------ MODULE Enumeration ------------------------------
(****************************************************************************)
(* What an iteration over a collection promises while the collection changes *)
(* under it: it gives out resources that were listed at some time, in their  *)
(* order, none of them twice and at most limit of them, and it is complete   *)
(* once it has given out limit, or all of those that were listed throughout. *)
(****************************************************************************)
EXTENDS Integers, Sequences, SequencesExt

CONSTANTS Resources, None

VARIABLES
    limit,    \* the most that may be given out, or None
    seen,     \* the resources that were listed at some time
    lasting,  \* those that were listed all the time
    given,    \* those given out
    outcome   \* "running", "complete" or "abandoned"

vars == <<limit, seen, lasting, given, outcome>>

WithinLimit(rs) == limit # None => Len(rs) <= limit

Increasing(rs) == \A i, j \in DOMAIN rs : i < j => rs[i] < rs[j]

Init ==
    /\ limit \in Nat \cup {None}
    /\ seen \subseteq Resources /\ lasting = seen
    /\ given = <<>>
    /\ outcome = "running"

Change ==
    /\ seen \subseteq seen' /\ seen' \subseteq Resources
    /\ lasting' \subseteq lasting
    /\ UNCHANGED <<limit, given, outcome>>

\* One resource, or all those of a page.
Give ==
    /\ outcome = "running"
    /\ IsStrictPrefix(given, given')
    /\ Increasing(given') /\ WithinLimit(given')
    /\ ToSet(given') \subseteq seen
    /\ UNCHANGED <<limit, seen, lasting, outcome>>

Complete ==
    /\ outcome = "running"
    /\ Len(given) = limit \/ lasting \subseteq ToSet(given)
    /\ outcome' = "complete"
    /\ UNCHANGED <<limit, seen, lasting, given>>

Abandon ==
    /\ outcome = "running"
    /\ outcome' = "abandoned"
    /\ UNCHANGED <<limit, seen, lasting, given>>

Next == Change \/ Give \/ Complete \/ Abandon

Spec == Init /\ [][Next]_vars

=============================================================================

------------------------------ MODULE BlockCopy -----------------------------
(***************************************************************************)
(* What a copy of a stream of blocks promises to its readers: the source   *)
(* grows by whole blocks at its end, the copy only grows, holds nothing    *)
(* that the source has not, and has everything that comes before the       *)
(* newest block it has anything of. How it gets there (pages, processes,   *)
(* failures) is nobody's business here.                                    *)
(***************************************************************************)
EXTENDS Integers

VARIABLES
    source,  \* what there is to copy, as pairs <<block, item>>
    copy     \* what has been copied

vars == <<source, copy>>

\* Every item of an earlier block than a copied one is copied.
Gapless(S, C) == \A f \in C : \A e \in S : e[1] < f[1] => e \in C

Init ==
    /\ source = {}
    /\ copy = {}

\* New items belong to a block after all the others.
Grow ==
    /\ source \subseteq source'
    /\ \A e \in source' \ source : \A f \in source : f[1] < e[1]
    /\ UNCHANGED copy

Extend ==
    /\ copy \subseteq copy'
    /\ copy' \subseteq source
    /\ Gapless(source, copy')
    /\ UNCHANGED source

Next == Grow \/ Extend

Spec == Init /\ [][Next]_vars

=============================================================================

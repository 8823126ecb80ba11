---------------------------- MODULE MCBidiChannel ----------------------------
(***************************************************************************)
(* Model-checking instance of BidiChannel: two key owners, two user ids,   *)
(* two parents and two labels, so that every field of a view can differ   *)
(* from the author's in isolation.                                         *)
(***************************************************************************)
EXTENDS BidiChannel, TLC

CONSTANTS u1, u2, i1, i2, p1, p2, l1, l2

MCUsers   == {u1, u2}
MCIds     == {i1, i2}
MCParents == {p1, p2}
MCLabels  == {l1, l2}

\* Renaming key owners, ids, parents or labels maps behaviours to behaviours.
Symmetry ==
    Permutations(MCUsers) \cup Permutations(MCIds)
    \cup Permutations(MCParents) \cup Permutations(MCLabels)
====

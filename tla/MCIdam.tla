-------------------------------- MODULE MCIdam --------------------------------
(***************************************************************************)
(* Model-checking instance of Idam: two users, each with a key store that  *)
(* holds its own encryption key, two group ids, and an AEAD overhead of    *)
(* two bytes standing for the tag, so that a ciphertext can be cut below,  *)
(* at and above the overhead.                                              *)
(***************************************************************************)
EXTENDS Idam

CONSTANTS a, b, g1, g2, p1, c1, c2, bad

MCUsers      == {a, b}
MCGroups     == {g1, g2}
MCParents    == {p1}
MCCommands   == {c1, c2}
MCPlaintexts == {[data |-> "m", len |-> 1]}
MCKeyStore   == [u \in MCUsers |-> {u}]
====

------------------------------ MODULE MCIdentity ------------------------------
(* Small instances of Identity for TLC. *)
EXTENDS Identity, TLC

CONSTANTS c1, c2, x, y, z

(* Clients are alike, and so are the addresses other than the bootstrap one. *)
Symmetric == Permutations(Clients) \cup Permutations(Emails \ {Bootstrap})
===============================================================================

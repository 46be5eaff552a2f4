------------------------------ MODULE MCSessions ------------------------------
(***************************************************************************)
(* Instances of Sessions for TLC.                                          *)
(***************************************************************************)
EXTENDS Sessions, TLC

Symmetry ==
  Permutations(Did) \cup Permutations(Key) \cup Permutations(Nonce)
    \cup Permutations(Token) \cup Permutations(Call)
=============================================================================

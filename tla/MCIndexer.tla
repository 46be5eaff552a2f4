------------------------------ MODULE MCIndexer ------------------------------
(***************************************************************************)
(* An instance of Indexer for TLC: a mint, which the totals count, and an  *)
(* un-revocation, which the feed leaves out.                               *)
(***************************************************************************)
EXTENDS Indexer

SomeEffects ==
  {[name |-> "AssetMinted", revoked |-> None],
   [name |-> "StatusChanged", revoked |-> FALSE]}
=============================================================================

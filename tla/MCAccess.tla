------------------------------ MODULE MCAccess ------------------------------
(***************************************************************************)
(* A small instance of Access for TLC: the owner's principal with the      *)
(* token of the environment and two ids auth-admin may give, two           *)
(* definitions, two addresses for tables of one entry.                     *)
(***************************************************************************)
EXTENDS Access, TLC

Alike == Permutations(Source) \cup Permutations(Credential \ {BootstrapId})

=============================================================================

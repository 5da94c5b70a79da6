------------------------------ MODULE MCOAuth ------------------------------
(***************************************************************************)
(* A small instance of OAuth for TLC: one principal, which auth-admin may  *)
(* disable and enable, one client, two codes, two refresh tokens.          *)
(***************************************************************************)
EXTENDS OAuth, TLC

\* AnyClient and AnyCode are fixed: the rest of each set is interchangeable.
Alike == Permutations(Refresh) \cup Permutations(Credential \ {BootstrapId})

=============================================================================

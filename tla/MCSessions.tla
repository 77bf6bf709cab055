----------------------------- MODULE MCSessions -----------------------------
(* Small instances of Sessions for TLC. *)
EXTENDS Sessions, TLC

\* Accounts, tokens and request slots are only ever compared.
Symmetry == Permutations(Users) \union Permutations(Tokens) \union Permutations(Requests)
=============================================================================

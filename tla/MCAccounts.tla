----------------------------- MODULE MCAccounts -----------------------------
(* Small instances of Accounts for TLC. *)
EXTENDS Accounts, TLC

\* Ids are only ever compared; so are request slots.  Names are not
\* symmetric: one of them is the admin's.
Symmetry == Permutations(Users) \union Permutations(Requests)
=============================================================================

------------------------------ MODULE MCSearch -------------------------------
(* Small instances of Search for TLC. *)
EXTENDS Search, TLC

\* Ids, texts and slots are only ever compared.
Symmetry == Permutations(Posts) \union Permutations(Texts) \union Permutations(Requests)
=============================================================================

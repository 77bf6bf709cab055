------------------------------- MODULE MCPosts -------------------------------
(* Small instances of Posts for TLC. *)
EXTENDS Posts, TLC

\* Ids, texts and slots are only ever compared.
Symmetry == Permutations(Posts) \union Permutations(Texts) \union Permutations(Requests)
=============================================================================

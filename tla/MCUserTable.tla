---------------------------- MODULE MCUserTable ----------------------------
(* Instances of UserTable.                                                 *)
EXTENDS UserTable, TLC

Interchangeable == Permutations(Addr \ Strays) \union Permutations(Name)
=============================================================================

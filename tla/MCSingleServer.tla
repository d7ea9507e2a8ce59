--------------------------- MODULE MCSingleServer ---------------------------
(* Instances of SingleServer.                                              *)
EXTENDS SingleServer, TLC

Interchangeable == Permutations(Conn) \union Permutations(Name)
=============================================================================

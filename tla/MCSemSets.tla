----------------------------- MODULE MCSemSets -----------------------------
(* Instances of SemSets.                                                   *)
EXTENDS SemSets, TLC

CONSTANTS s1, s2, c1, c2

Clients == Permutations(Client)

(* With two clients: the shells go on, of the receivers one is interrupted *)
(* at most, nobody takes call_system before he leaves, which opens, closes *)
(* and removes no set.                                                     *)
ShellsGoOn ==
  /\ \A c \in Client : pc[Shell(c)] \notin {"calling", "remove"}
  /\ Cardinality({c \in Client : pc[Recv(c)] = "remove"}) <= 1
=============================================================================

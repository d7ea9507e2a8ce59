---------------------------- MODULE MCBroadcast ----------------------------
(* Instances of Broadcast.                                                 *)
EXTENDS Broadcast, TLC

CONSTANTS c1, c2

Nobody == [c \in Client |-> 0]
TwiceC1 == [c \in Client |-> IF c = c1 THEN 2 ELSE 0]

(* c1 does all it can while it is alone; beside c2 it talks once, or asks  *)
(* once for a user pipe, whose answer c2's request may overwrite.          *)
OneOrTwo ==
  \/ pc[Shell(c2)] = "h_none"
  \/ cmds[c1] <= 1 /\ jobs[c1] = 0 /\ "eintr" \notin mishaps
=============================================================================

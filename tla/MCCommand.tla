----------------------------- MODULE MCCommand -----------------------------
(* Instances of Command: every line, whether it follows the rules or not.  *)
EXTENDS Command

AllLines == [prog \in Programs |-> [k \in 0..MaxTokens |-> [1..k -> Token]]]
=============================================================================

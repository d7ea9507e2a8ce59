---------------------------- MODULE MCLineShell ----------------------------
(* Instances of LineShell: the lines of up to three tokens that follow the *)
(* rules, with the operators that make a difference in each program.       *)
EXTENDS LineShell

W(w) == [is |-> w, n |-> 0]

PipeTokens == {W("ls"), W("cat")} \union [is : {"|"}, n : {0} \union Number]
BuiltinTokens == PipeTokens \union {W("printenv")} \union [is : {"!"}, n : Number]
UserTokens == {W("ls"), W("cat"), [is |-> "|", n |-> 0], [is |-> "|", n |-> 1]}
                \union [is : {"<", ">"}, n : {1}]

TokensFor(prog) == IF prog = "single" THEN UserTokens ELSE BuiltinTokens

ShortLines ==
  [prog \in Programs |->
    [k \in 0..MaxTokens |->
      IF k > 3 THEN {} ELSE {line \in [1..k -> TokensFor(prog)] : LegalIn(prog, line)}]]
=============================================================================

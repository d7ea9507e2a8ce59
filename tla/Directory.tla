----------------------------- MODULE Directory -----------------------------
(***************************************************************************)
(* What the servers promise their users about names and user pipes, with   *)
(* no slots, buffers or processes: who is present, under which name, and   *)
(* from whom to whom a user pipe is waiting to be received.                *)
(***************************************************************************)
CONSTANTS Addr, Name, NoName   (* NoName is no member of Name *)

VARIABLES present, nick, pipes

Init ==
  /\ present = {}
  /\ nick = [a \in Addr |-> NoName]
  /\ pipes = {}

Join(a) ==
  /\ a \notin present
  /\ present' = present \union {a}
  /\ UNCHANGED <<nick, pipes>>

(* A user who leaves takes along the name and all pipes from and to it.    *)
Leave(a) ==
  /\ a \in present
  /\ present' = present \ {a}
  /\ nick' = [nick EXCEPT ![a] = NoName]
  /\ pipes' = {p \in pipes : p[1] # a /\ p[2] # a}

Rename(a, n) ==
  /\ a \in present
  /\ \A b \in present : nick[b] # n
  /\ nick' = [nick EXCEPT ![a] = n]
  /\ UNCHANGED <<present, pipes>>

Send(a, b) ==
  /\ {a, b} \subseteq present
  /\ <<a, b>> \notin pipes
  /\ pipes' = pipes \union {<<a, b>>}
  /\ UNCHANGED <<present, nick>>

Receive(a, b) ==
  /\ <<a, b>> \in pipes
  /\ pipes' = pipes \ {<<a, b>>}
  /\ UNCHANGED <<present, nick>>

(* A user who has not entered yet does so with the first request.          *)
Next ==
  \E a \in Addr :
    \/ Join(a) \/ Leave(a)
    \/ \E n \in Name : Rename(a, n)
    \/ \E b \in Addr : Send(a, b) \/ Receive(a, b)

Spec == Init /\ [][Next]_<<present, nick, pipes>>
=============================================================================

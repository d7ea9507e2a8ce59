------------------------------ MODULE Bulletin ------------------------------
(***************************************************************************)
(* What the message bus of np_multi_proc promises while nobody leaves: one *)
(* request at a time; the news it makes is read by everybody who listens,  *)
(* once; and only then is the request answered.                            *)
(***************************************************************************)
CONSTANTS Client, Nobody

VARIABLES
  caller,     (* whose request is not answered yet                         *)
  phase,      (* how far the request is                                    *)
  audience,   (* who listens to the news of the last request               *)
  heard       (* who has read it                                           *)

vars == <<caller, phase, audience, heard>>

Init == caller = Nobody /\ phase = "idle" /\ audience = {} /\ heard = {}

Ask(c) ==
  /\ phase = "idle" /\ phase' = "asked" /\ caller' = c
  /\ UNCHANGED <<audience, heard>>

Announce ==
  /\ phase = "asked" /\ phase' = "announced"
  /\ audience' \in SUBSET Client /\ heard' = {}
  /\ UNCHANGED caller

Hear(c) ==
  /\ phase = "announced" /\ c \in audience \ heard
  /\ heard' = heard \union {c}
  /\ UNCHANGED <<caller, phase, audience>>

AllHeard ==
  /\ phase = "announced" /\ audience \subseteq heard /\ phase' = "done"
  /\ UNCHANGED <<caller, audience, heard>>

Answer ==
  /\ phase = "done" /\ phase' = "idle" /\ caller' = Nobody
  /\ UNCHANGED <<audience, heard>>

Next == Announce \/ AllHeard \/ Answer \/ \E c \in Client : Ask(c) \/ Hear(c)

Spec == Init /\ [][Next]_vars
=============================================================================

-------------------------- MODULE BroadcastProofs --------------------------
(***************************************************************************)
(* Proofs about Broadcast, for any number of clients.                      *)
(*                                                                         *)
(* First the tokens.  BaseInv: types, what kind of place each process is   *)
(* at, and who may be asleep where.  On it rest arguments of the same form *)
(* for the door (call_system), the baton (clienting) and clisem: there is  *)
(* at most one token, it is either on the semaphore or in the hands of one *)
(* process, and the kernel's adjustment for a process is 1 exactly while   *)
(* the process has it, so that its death brings the token back.  Counters  *)
(* does the same for semaphores [1] and [2] of every set, and Apart says   *)
(* that shells and receivers owe nothing to each other's sets.             *)
(*                                                                         *)
(* Then what the tokens are for.                                           *)
(*                                                                         *)
(*   RoundInv  an announcement goes round: the receivers still to read     *)
(*             are the audience less those who have heard it (AllRead),    *)
(*             and the system process is told once, when nobody is left    *)
(*             to read (OneServe);                                         *)
(*   Synced    the sync loop compares counts of the same receivers;        *)
(*   CallInv   one request goes round at a time, from a shell's bell to    *)
(*             its answer, and the buffer holds it or its reply.           *)
(***************************************************************************)
EXTENDS Broadcast, FiniteSetTheorems, TLAPS

-----------------------------------------------------------------------------
(* What the operations of SysVSem do to semaphore [0] of one set, stated   *)
(* value by value, and that they leave the other sets alone.  P and S are  *)
(* the processes and the sets of whatever module uses the semaphores.      *)

ValTypes(P, S) ==
  /\ val \in [S -> Nat]
  /\ undoVal \in [P -> [S -> Int]]
  /\ asleep \in [S -> SUBSET P]

CntTypes(P, S) ==
  /\ cnt \in [S -> Nat] /\ lock \in [S -> 0..1]
  /\ undoCnt \in [P -> [S -> 0..1]]
  /\ undoLock \in [P -> [S -> -1..0]]

(* Nobody sleeps while there is a token to take.                           *)
Prompt(S) == \A s \in S : val[s] > 0 => asleep[s] = {}

(* Semaphore [0] of set t is left alone.                                   *)
Same(P, t) ==
  /\ val'[t] = val[t] /\ asleep'[t] = asleep[t]
  /\ \A q \in P : undoVal'[q][t] = undoVal[q][t]

(* p takes a token of s; p falls asleep; p leaves a token; the token goes  *)
(* to q, who sleeps.                                                       *)
Takes(P, p, s) ==
  /\ val[s] > 0 /\ val'[s] = val[s] - 1 /\ asleep'[s] = asleep[s]
  /\ undoVal'[p][s] = undoVal[p][s] + 1
  /\ \A q \in P \ {p} : undoVal'[q][s] = undoVal[q][s]

Sleeps(P, p, s) ==
  /\ val[s] = 0 /\ val'[s] = 0 /\ asleep'[s] = asleep[s] \union {p}
  /\ \A q \in P : undoVal'[q][s] = undoVal[q][s]

Leaves(P, p, s) ==
  /\ val'[s] = val[s] + 1 /\ asleep[s] = {} /\ asleep'[s] = {}
  /\ undoVal'[p][s] = undoVal[p][s] - 1
  /\ \A q \in P \ {p} : undoVal'[q][s] = undoVal[q][s]

Hands(P, p, q, s) ==
  /\ val'[s] = val[s] /\ q \in asleep[s] /\ asleep'[s] = asleep[s] \ {q}
  /\ undoVal'[p][s] = undoVal[p][s] - 1
  /\ undoVal'[q][s] = undoVal[q][s] + 1
  /\ \A r \in P \ {p, q} : undoVal'[r][s] = undoVal[r][s]

LEMMA WaitEffect ==
  ASSUME NEW P, NEW S, ValTypes(P, S), Prompt(S), NEW p \in P, NEW s \in S, sem_wait(p, s)
  PROVE  /\ ValTypes(P, S)' /\ Prompt(S)'
         /\ \A t \in S \ {s} : Same(P, t)
         /\ Takes(P, p, s) \/ Sleeps(P, p, s)
         /\ UNCHANGED cntVars
<1>1. UNCHANGED cntVars
  BY DEF sem_wait
<1>2. CASE /\ val[s] > 0
           /\ val' = [val EXCEPT ![s] = @ - 1]
           /\ undoVal' = [undoVal EXCEPT ![p][s] = @ + 1]
           /\ UNCHANGED asleep
  <2>1. ValTypes(P, S)'
    BY <1>2 DEF ValTypes
  <2>2. \A t \in S \ {s} : Same(P, t)
    BY <1>2 DEF ValTypes, Same
  <2>3. Takes(P, p, s)
    BY <1>2 DEF ValTypes, Takes
  <2>4. Prompt(S)'
    BY <1>2 DEF ValTypes, Prompt
  <2>5. QED
    BY <1>1, <2>1, <2>2, <2>3, <2>4
<1>3. CASE /\ val[s] = 0
           /\ asleep' = [asleep EXCEPT ![s] = @ \union {p}]
           /\ UNCHANGED <<val, undoVal>>
  <2>1. ValTypes(P, S)'
    BY <1>3 DEF ValTypes
  <2>2. \A t \in S \ {s} : Same(P, t)
    BY <1>3 DEF ValTypes, Same
  <2>3. Sleeps(P, p, s)
    BY <1>3 DEF ValTypes, Sleeps
  <2>4. Prompt(S)'
    BY <1>3 DEF ValTypes, Prompt
  <2>5. QED
    BY <1>1, <2>1, <2>2, <2>3, <2>4
<1>4. QED
  BY <1>2, <1>3 DEF sem_wait

LEMMA SignalEffect ==
  ASSUME NEW P, NEW S, ValTypes(P, S), Prompt(S), NEW p \in P, NEW s \in S,
         p \notin asleep[s], sem_signal(p, s)
  PROVE  /\ ValTypes(P, S)' /\ Prompt(S)'
         /\ \A t \in S \ {s} : Same(P, t)
         /\ Leaves(P, p, s) \/ \E q \in asleep[s] : Hands(P, p, q, s)
         /\ UNCHANGED cntVars
<1>1. UNCHANGED cntVars
  BY DEF sem_signal
<1>2. CASE /\ asleep[s] = {}
           /\ val' = [val EXCEPT ![s] = @ + 1]
           /\ undoVal' = [undoVal EXCEPT ![p][s] = @ - 1]
           /\ UNCHANGED asleep
  <2>1. ValTypes(P, S)'
    BY <1>2 DEF ValTypes
  <2>2. \A t \in S \ {s} : Same(P, t)
    BY <1>2 DEF ValTypes, Same
  <2>3. Leaves(P, p, s)
    BY <1>2 DEF ValTypes, Leaves
  <2>4. Prompt(S)'
    BY <1>2 DEF ValTypes, Prompt
  <2>5. QED
    BY <1>1, <2>1, <2>2, <2>3, <2>4
<1>3. ASSUME NEW q \in asleep[s],
             asleep' = [asleep EXCEPT ![s] = @ \ {q}],
             undoVal' = [undoVal EXCEPT ![p][s] = @ - 1, ![q][s] = @ + 1],
             UNCHANGED val
      PROVE  /\ ValTypes(P, S)' /\ Prompt(S)'
             /\ \A t \in S \ {s} : Same(P, t)
             /\ Hands(P, p, q, s)
  <2>1. q \in P /\ q # p
    BY DEF ValTypes
  <2>2. \A r \in P, t \in S :
          undoVal'[r][t] = IF t = s /\ r = p THEN undoVal[r][t] - 1
                           ELSE IF t = s /\ r = q THEN undoVal[r][t] + 1
                           ELSE undoVal[r][t]
    BY <1>3, <2>1 DEF ValTypes
  <2>3. ValTypes(P, S)'
    <3> DEFINE U == [undoVal EXCEPT ![p][s] = @ - 1]
    <3>1. U \in [P -> [S -> Int]]
      BY DEF ValTypes
    <3>2. undoVal' = [U EXCEPT ![q][s] = @ + 1]
      BY <1>3
    <3> HIDE DEF U
    <3>3. undoVal' \in [P -> [S -> Int]]
      BY <3>1, <3>2, <2>1
    <3>4. QED
      BY <1>3, <3>3 DEF ValTypes
  <2>4. \A t \in S \ {s} : Same(P, t)
    BY <1>3, <2>2 DEF ValTypes, Same
  <2>5. Hands(P, p, q, s)
    BY <1>3, <2>1, <2>2 DEF ValTypes, Hands
  <2>6. Prompt(S)'
    BY <1>3 DEF ValTypes, Prompt
  <2>7. QED
    BY <2>3, <2>4, <2>5, <2>6
<1>4. QED
  BY <1>1, <1>2, <1>3 DEF sem_signal

(* The kernel undoes what p did to s.  The tokens that come of it are      *)
(* handed to sleepers first.                                               *)
LEMMA UndoEffect ==
  ASSUME NEW P, NEW S, ValTypes(P, S), Prompt(S), IsFiniteSet(P),
         NEW p \in P, NEW s \in S, \A t \in S : p \notin asleep[t],
         Undo(p, s)
  PROVE  /\ ValTypes(P, S)' /\ Prompt(S)'
         /\ \A t \in S \ {s} : Same(P, t)
         /\ undoVal'[p][s] = 0
         /\ undoVal[p][s] = 0 => Same(P, s)
         /\ undoVal[p][s] = 1 /\ val[s] = 0 =>
              \/ /\ val'[s] = 1 /\ asleep[s] = {} /\ asleep'[s] = {}
                 /\ \A q \in P \ {p} : undoVal'[q][s] = undoVal[q][s]
              \/ /\ val'[s] = 0
                 /\ \E q \in asleep[s] :
                      /\ asleep'[s] = asleep[s] \ {q}
                      /\ undoVal'[q][s] = undoVal[q][s] + 1
                      /\ \A r \in P \ {p, q} : undoVal'[r][s] = undoVal[r][s]
<1> DEFINE sum == val[s] + undoVal[p][s]
           n   == IF sum > 0 THEN sum ELSE 0
<1>1. PICK woken \in SUBSET asleep[s] :
        /\ Cardinality(woken) <= n
        /\ woken # asleep[s] => Cardinality(woken) = n
        /\ val' = [val EXCEPT ![s] = n - Cardinality(woken)]
        /\ asleep' = [asleep EXCEPT ![s] = @ \ woken]
        /\ undoVal' = [q \in DOMAIN undoVal |->
                         IF q = p THEN [undoVal[q] EXCEPT ![s] = 0]
                         ELSE IF q \in woken THEN [undoVal[q] EXCEPT ![s] = @ + 1]
                         ELSE undoVal[q]]
  BY DEF Undo
<1>2. n \in Nat /\ sum \in Int /\ asleep[s] \subseteq P
  BY DEF ValTypes
<1>3. IsFiniteSet(woken) /\ Cardinality(woken) \in Nat
  BY <1>2, FS_Subset, FS_CardinalityType
<1>4. /\ \A t \in S : val'[t] = IF t = s THEN n - Cardinality(woken) ELSE val[t]
      /\ \A t \in S : asleep'[t] = IF t = s THEN asleep[s] \ woken ELSE asleep[t]
      /\ \A q \in P, t \in S :
           undoVal'[q][t] = IF t = s /\ q = p THEN 0
                            ELSE IF t = s /\ q \in woken THEN undoVal[q][t] + 1
                            ELSE undoVal[q][t]
  BY <1>1 DEF ValTypes
<1>5. ValTypes(P, S)'
  <2>1. n - Cardinality(woken) \in Nat
    BY <1>1, <1>2, <1>3
  <2>2. val' \in [S -> Nat] /\ asleep' \in [S -> SUBSET P]
    BY <1>1, <2>1 DEF ValTypes
  <2>3. undoVal' \in [P -> [S -> Int]]
    BY <1>1 DEF ValTypes
  <2>4. QED
    BY <2>2, <2>3 DEF ValTypes
<1>6. \A t \in S \ {s} : Same(P, t)
  BY <1>4 DEF Same
<1>7. Prompt(S)'
  <2>1. val'[s] > 0 => asleep'[s] = {}
    BY <1>1, <1>2, <1>3, <1>4
  <2>2. QED
    BY <2>1, <1>4 DEF Prompt
<1>8. undoVal'[p][s] = 0
  BY <1>4
<1>9. CASE undoVal[p][s] = 0
  <2>1. n = val[s]
    BY <1>9 DEF ValTypes
  <2>2. woken = {}
    <3>1. CASE val[s] > 0
      BY <3>1 DEF Prompt
    <3>2. CASE val[s] = 0
      BY <3>2, <2>1, <1>1, <1>3, FS_EmptySet
    <3>3. QED
      BY <3>1, <3>2 DEF ValTypes
  <2>3. val'[s] = val[s]
    BY <1>4, <2>1, <2>2, FS_EmptySet DEF ValTypes
  <2>4. QED
    BY <1>4, <1>5, <1>6, <1>7, <1>8, <1>9, <2>2, <2>3 DEF Same
<1>10. CASE undoVal[p][s] = 1 /\ val[s] = 0
  <2>1. n = 1
    BY <1>10
  <2>2. CASE woken = {}
    <3>1. Cardinality(woken) = 0
      BY <2>2, FS_EmptySet
    <3>2. asleep[s] = {}
      BY <2>1, <2>2, <3>1, <1>1
    <3>3. QED
      BY <1>4, <1>5, <1>6, <1>7, <1>8, <1>10, <2>1, <2>2, <3>1, <3>2
  <2>3. CASE woken # {}
    <3>1. Cardinality(woken) = 1
      BY <2>1, <2>3, <1>1, <1>3, FS_EmptySet
    <3>2. PICK q : woken = {q}
      BY <3>1, <1>3, FS_Singleton
    <3>3. q \in asleep[s] /\ q # p
      BY <3>2, <1>1
    <3>4. val'[s] = 0
      BY <1>4, <2>1, <3>1
    <3>5. /\ asleep'[s] = asleep[s] \ {q}
          /\ undoVal'[q][s] = undoVal[q][s] + 1
          /\ \A r \in P \ {p, q} : undoVal'[r][s] = undoVal[r][s]
      BY <1>2, <1>4, <3>2, <3>3
    <3>6. QED
      BY <1>5, <1>6, <1>7, <1>8, <1>10, <3>3, <3>4, <3>5
  <2>4. QED
    BY <2>2, <2>3
<1>11. QED
  BY <1>5, <1>6, <1>7, <1>8, <1>9, <1>10

(* A process that dies, or whose semop is interrupted, no longer sleeps.   *)
LEMMA DequeueEffect ==
  ASSUME NEW P, NEW S, ValTypes(P, S), Prompt(S), NEW p, Dequeue(p)
  PROVE  /\ ValTypes(P, S)' /\ Prompt(S)'
         /\ UNCHANGED <<val, undoVal, cntVars>>
         /\ \A t \in S : asleep'[t] = asleep[t] \ {p}
<1>1. asleep' = [t \in S |-> asleep[t] \ {p}] /\ UNCHANGED <<val, undoVal, cntVars>>
  BY DEF Dequeue, ValTypes
<1>2. QED
  BY <1>1 DEF ValTypes, Prompt

(* An operation that leaves semaphore [0] of all sets alone.               *)
LEMMA NoEffect ==
  ASSUME NEW P, NEW S, ValTypes(P, S), Prompt(S), UNCHANGED valVars
  PROVE  ValTypes(P, S)' /\ Prompt(S)' /\ \A t \in S : Same(P, t)
BY DEF ValTypes, Prompt, Same, valVars

-----------------------------------------------------------------------------
(* The processes of Broadcast.                                             *)

Kind(p) ==
  IF p[1] = "system" THEN SysPC ELSE IF p[1] = "shell" THEN ShellPC ELSE RecvPC

(* Where a process that sleeps on s is.                                    *)
Bed(s) ==
  CASE s = "servsem"         -> {"s_poll"}
    [] s = "call_system"     -> {"h_write"}
    [] s = "call_system_end" -> {"s_poll", "h_poll", "h_unlock"}
    [] s = "clisem"          -> {"s_count", "r_sign"}
    [] s = "clienting"       -> {"s_unlock", "r_read"}
    [] s = "serving"         -> {"s_take"}

Places ==
  /\ pc \in [Proc -> SysPC \union RecvPC \union ShellPC]
  /\ \A p \in Proc : pc[p] \in Kind(p)

Sleepers == \A s \in Sem : \A p \in asleep[s] : pc[p] \in Bed(s)

BaseInv ==
  /\ ValTypes(Proc, Sem)
  /\ Prompt(Sem)
  /\ Places
  /\ Sleepers

-----------------------------------------------------------------------------
(* The processes.                                                          *)
LEMMA ProcFacts ==
  /\ Sys \in Proc /\ Kind(Sys) = SysPC
  /\ \A c \in Client : /\ Shell(c) \in Proc /\ Kind(Shell(c)) = ShellPC
                       /\ Recv(c) \in Proc /\ Kind(Recv(c)) = RecvPC
                       /\ Shell(c) # Sys /\ Recv(c) # Sys
  /\ \A c, d \in Client : /\ Shell(c) # Recv(d)
                          /\ Shell(c) = Shell(d) => c = d
                          /\ Recv(c) = Recv(d) => c = d
  /\ \A p \in Proc : p = Sys \/ \E c \in Client : p = Shell(c) \/ p = Recv(c)
BY DEF Sys, Shell, Recv, Proc, Kind

LEMMA ProcFinite == IsFiniteSet(Proc)
<1>1. IsFiniteSet({"shell", "receiver"})
  <2>1. IsFiniteSet({"shell"}) /\ {"shell", "receiver"} = {"shell"} \union {"receiver"}
    BY FS_Singleton
  <2>2. QED
    BY <2>1, FS_AddElement
<1>2. IsFiniteSet({"shell", "receiver"} \X Client)
  BY <1>1, FS_Product, BroadcastAssumption
<1>3. Proc = ({"shell", "receiver"} \X Client) \union {Sys}
  BY DEF Proc
<1>4. QED
  BY <1>2, <1>3, FS_AddElement

-----------------------------------------------------------------------------
(* BaseInv is inductive.  Its steps come in three forms.                   *)

LEMMA PlainBase ==
  ASSUME BaseInv, NEW p \in Proc, NEW m \in Kind(p), Awake(p),
         UNCHANGED valVars, pc' = [pc EXCEPT ![p] = m]
  PROVE  BaseInv' /\ \A t \in Sem : Same(Proc, t)
<1>1. ValTypes(Proc, Sem)' /\ Prompt(Sem)' /\ \A t \in Sem : Same(Proc, t)
  BY NoEffect DEF BaseInv
<1>2. \A s \in Sem : p \notin asleep[s]
  BY DEF Awake, BaseInv, ValTypes
<1>3. Places'
  BY DEF BaseInv, Places, Kind
<1>4. Sleepers'
  BY <1>2 DEF BaseInv, Sleepers, Places, ValTypes, valVars
<1>5. QED
  BY <1>1, <1>3, <1>4 DEF BaseInv

LEMMA WaitBase ==
  ASSUME BaseInv, NEW p \in Proc, NEW s \in Sem, NEW m \in Kind(p) \intersect Bed(s),
         Awake(p), sem_wait(p, s), pc' = [pc EXCEPT ![p] = m]
  PROVE  /\ BaseInv'
         /\ \A t \in Sem \ {s} : Same(Proc, t)
         /\ Takes(Proc, p, s) \/ Sleeps(Proc, p, s)
         /\ UNCHANGED cntVars
<1>1. /\ ValTypes(Proc, Sem)' /\ Prompt(Sem)'
      /\ \A t \in Sem \ {s} : Same(Proc, t)
      /\ Takes(Proc, p, s) \/ Sleeps(Proc, p, s)
      /\ UNCHANGED cntVars
  BY WaitEffect DEF BaseInv
<1>2. \A t \in Sem : p \notin asleep[t]
  BY DEF Awake, BaseInv, ValTypes
<1>3. Places'
  BY DEF BaseInv, Places, Kind
<1>4. \A t \in Sem : asleep'[t] \subseteq asleep[t] \union {p}
  BY <1>1 DEF Same, Takes, Sleeps
<1>5. \A t \in Sem \ {s} : asleep'[t] = asleep[t]
  BY <1>1 DEF Same
<1>6. Sleepers'
  BY <1>2, <1>4, <1>5 DEF BaseInv, Sleepers, Places, ValTypes
<1>7. QED
  BY <1>1, <1>3, <1>6 DEF BaseInv

LEMMA SignalBase ==
  ASSUME BaseInv, NEW p \in Proc, NEW s \in Sem, NEW m \in Kind(p),
         Awake(p), sem_signal(p, s), pc' = [pc EXCEPT ![p] = m]
  PROVE  /\ BaseInv'
         /\ \A t \in Sem \ {s} : Same(Proc, t)
         /\ Leaves(Proc, p, s) \/ \E q \in asleep[s] : Hands(Proc, p, q, s)
         /\ UNCHANGED cntVars
<1>1. \A t \in Sem : p \notin asleep[t]
  BY DEF Awake, BaseInv, ValTypes
<1>2. /\ ValTypes(Proc, Sem)' /\ Prompt(Sem)'
      /\ \A t \in Sem \ {s} : Same(Proc, t)
      /\ Leaves(Proc, p, s) \/ \E q \in asleep[s] : Hands(Proc, p, q, s)
      /\ UNCHANGED cntVars
  BY <1>1, SignalEffect DEF BaseInv
<1>3. Places'
  BY DEF BaseInv, Places, Kind
<1>4. \A t \in Sem : asleep'[t] \subseteq asleep[t]
  BY <1>2 DEF Same, Leaves, Hands
<1>5. Sleepers'
  BY <1>1, <1>4 DEF BaseInv, Sleepers, Places, ValTypes
<1>6. QED
  BY <1>2, <1>3, <1>5 DEF BaseInv

-----------------------------------------------------------------------------
(* The system process, action by action.                                   *)

(* The system process has laid out the baton and not taken it back.        *)
Round ==
  \/ pc[Sys] \in {"s_serving", "s_take"}
  \/ pc[Sys] = "s_unlock" /\ Sys \in asleep["clienting"]

(* Nobody but the system process has moved.                                *)
OnlySys ==
  /\ \A c \in Client : pc'[Shell(c)] = pc[Shell(c)] /\ pc'[Recv(c)] = pc[Recv(c)]
  /\ mishaps' = mishaps

LEMMA SysWaits ==
  ASSUME BaseInv, NEW l, NEW s \in Sem, NEW m \in SysPC \intersect Bed(s), Wait(Sys, l, s, m)
  PROVE  /\ BaseInv' /\ OnlySys
         /\ \A t \in Sem \ {s} : Same(Proc, t)
         /\ Takes(Proc, Sys, s) \/ Sleeps(Proc, Sys, s)
         /\ pc[Sys] = l /\ pc'[Sys] = m /\ Awake(Sys)
<1>1. OnlySys /\ pc[Sys] = l /\ pc'[Sys] = m /\ Awake(Sys)
  BY ProcFacts DEF Wait, At, Goto, OnlySys, history, BaseInv, Places
<1>2. QED
  BY <1>1, WaitBase, ProcFacts DEF Wait, Goto

LEMMA SysSignals ==
  ASSUME BaseInv, NEW l, NEW s \in Sem, NEW m \in SysPC, Signal(Sys, l, s, m)
  PROVE  /\ BaseInv' /\ OnlySys
         /\ \A t \in Sem \ {s} : Same(Proc, t)
         /\ Leaves(Proc, Sys, s) \/ \E q \in asleep[s] : Hands(Proc, Sys, q, s)
         /\ pc[Sys] = l /\ pc'[Sys] = m /\ Awake(Sys)
<1>1. OnlySys /\ pc[Sys] = l /\ pc'[Sys] = m /\ Awake(Sys)
  BY ProcFacts DEF Signal, At, Goto, OnlySys, history, BaseInv, Places
<1>2. QED
  BY <1>1, SignalBase, ProcFacts DEF Signal, Goto

LEMMA SysMoves ==
  ASSUME BaseInv, NEW l, NEW m \in SysPC, At(Sys, l), Goto(Sys, m),
         UNCHANGED semVars, UNCHANGED mishaps
  PROVE  /\ BaseInv' /\ OnlySys
         /\ \A t \in Sem : Same(Proc, t)
         /\ pc[Sys] = l /\ pc'[Sys] = m /\ Awake(Sys)
<1>1. OnlySys /\ pc[Sys] = l /\ pc'[Sys] = m /\ Awake(Sys)
  BY ProcFacts DEF At, Goto, OnlySys, BaseInv, Places
<1>2. QED
  BY <1>1, PlainBase, ProcFacts DEF Goto, semVars

(* Only SysStart and SysTake touch the baton, and nothing the system       *)
(* process does touches the door.                                          *)
LEMMA SysSteps ==
  ASSUME BaseInv, SysNext
  PROVE  /\ BaseInv' /\ OnlySys
         /\ Same(Proc, "call_system")
         /\ \/ SysStart \/ SysTake
            \/ Same(Proc, "clienting") /\ (Round' <=> Round)
<1>a. \A t \in Sem : Awake(Sys) => Sys \notin asleep[t]
  BY DEF BaseInv, ValTypes, Awake
<1>1. CASE SysAwaitCall
  BY <1>1, <1>a, SysWaits DEF SysAwaitCall, Sem, ShellSem, Bed, SysPC, Same, Round
<1>2. CASE SysPoll
  BY <1>2, <1>a, SysMoves DEF SysPoll, history, Sem, ShellSem, SysPC, Same, Round
<1>3. CASE SysDrain
  BY <1>3, <1>a, SysWaits DEF SysDrain, Sem, ShellSem, Bed, SysPC, Same, Round
<1>4. CASE SysRead
  BY <1>4, <1>a, SysMoves DEF SysRead, history, Sem, ShellSem, SysPC, Same, Round
<1>5. CASE SysWrite
  BY <1>5, <1>a, SysMoves DEF SysWrite, history, Sem, ShellSem, SysPC, Same, Round
<1>6. CASE SysLock
  BY <1>6, <1>a, SysWaits DEF SysLock, Sem, ShellSem, Bed, SysPC, Same, Round
<1>7. CASE SysCount
  BY <1>7, <1>a, SysMoves DEF SysCount, history, Sem, ShellSem, SysPC, Same, Round
<1>8. CASE SysStart
  BY <1>8, <1>a, SysSignals DEF SysStart, Sem, ShellSem, SysPC, Same, Round
<1>9. CASE SysServing
  BY <1>9, <1>a, SysWaits DEF SysServing, Sem, ShellSem, Bed, SysPC, Same, Round
<1>10. CASE SysTake
  BY <1>10, <1>a, SysWaits DEF SysTake, Sem, ShellSem, Bed, SysPC, Same, Round
<1>11. CASE SysUnlock
  BY <1>11, <1>a, SysSignals DEF SysUnlock, Sem, ShellSem, SysPC, Same, Round
<1>12. CASE SysSync
  BY <1>12, <1>a, SysMoves DEF SysSync, history, Sem, ShellSem, SysPC, Same, Round
<1>13. CASE SysCompare
  BY <1>13, <1>a, SysMoves DEF SysCompare, history, Sem, ShellSem, SysPC, Same, Round
<1>14. CASE SysReply
  BY <1>14, <1>a, SysSignals DEF SysReply, Sem, ShellSem, SysPC, Same, Round
<1>15. QED
  BY <1>1, <1>2, <1>3, <1>4, <1>5, <1>6, <1>7, <1>8, <1>9, <1>10, <1>11, <1>12, <1>13, <1>14
     DEF SysNext

-----------------------------------------------------------------------------
(* The kernel cleans up after a process that has ended.                    *)
LEMMA UndoBase ==
  ASSUME BaseInv, NEW p \in Proc, pc[p] \in {"r_exit", "h_exit"}, NEW s \in Sem,
         Undo(p, s), UNCHANGED pc
  PROVE  /\ BaseInv'
         /\ \A t \in Sem \ {s} : Same(Proc, t)
         /\ undoVal'[p][s] = 0
         /\ undoVal[p][s] = 0 => Same(Proc, s)
         /\ undoVal[p][s] = 1 /\ val[s] = 0 =>
              \/ /\ val'[s] = 1 /\ asleep[s] = {} /\ asleep'[s] = {}
                 /\ \A q \in Proc \ {p} : undoVal'[q][s] = undoVal[q][s]
              \/ /\ val'[s] = 0
                 /\ \E q \in asleep[s] :
                      /\ asleep'[s] = asleep[s] \ {q}
                      /\ undoVal'[q][s] = undoVal[q][s] + 1
                      /\ \A r \in Proc \ {p, q} : undoVal'[r][s] = undoVal[r][s]
<1>1. \A t \in Sem : p \notin asleep[t]
  BY DEF BaseInv, Sleepers, Bed, Sem, ShellSem
<1>2. ValTypes(Proc, Sem) /\ Prompt(Sem)
  BY DEF BaseInv
<1>3. /\ ValTypes(Proc, Sem)' /\ Prompt(Sem)'
      /\ \A t \in Sem \ {s} : Same(Proc, t)
      /\ undoVal'[p][s] = 0
      /\ undoVal[p][s] = 0 => Same(Proc, s)
      /\ undoVal[p][s] = 1 /\ val[s] = 0 =>
           \/ /\ val'[s] = 1 /\ asleep[s] = {} /\ asleep'[s] = {}
              /\ \A q \in Proc \ {p} : undoVal'[q][s] = undoVal[q][s]
           \/ /\ val'[s] = 0
              /\ \E q \in asleep[s] :
                   /\ asleep'[s] = asleep[s] \ {q}
                   /\ undoVal'[q][s] = undoVal[q][s] + 1
                   /\ \A r \in Proc \ {p, q} : undoVal'[r][s] = undoVal[r][s]
  BY <1>1, <1>2, ProcFinite, UndoEffect
<1>4. Places'
  BY DEF BaseInv, Places
<1>5. \A t \in Sem : asleep'[t] \subseteq asleep[t]
  <2>1. asleep'[s] \subseteq asleep[s]
    BY <1>2 DEF Undo, ValTypes
  <2>2. QED
    BY <2>1, <1>3 DEF Same
<1>6. Sleepers'
  BY <1>5 DEF BaseInv, Sleepers
<1>7. QED
  BY <1>3, <1>4, <1>6 DEF BaseInv

-----------------------------------------------------------------------------
(* The receivers, action by action.                                        *)

OnlyRecv(c) ==
  /\ pc'[Sys] = pc[Sys]
  /\ \A d \in Client : /\ pc'[Shell(d)] = pc[Shell(d)]
                       /\ d # c => pc'[Recv(d)] = pc[Recv(d)]
  /\ mishaps' = mishaps

LEMMA RecvWaits ==
  ASSUME BaseInv, NEW c \in Client, NEW l, NEW s \in Sem, NEW m \in RecvPC \intersect Bed(s),
         Wait(Recv(c), l, s, m)
  PROVE  /\ BaseInv' /\ OnlyRecv(c)
         /\ \A t \in Sem \ {s} : Same(Proc, t)
         /\ Takes(Proc, Recv(c), s) \/ Sleeps(Proc, Recv(c), s)
         /\ pc[Recv(c)] = l /\ pc'[Recv(c)] = m /\ Awake(Recv(c))
<1>1. OnlyRecv(c) /\ pc[Recv(c)] = l /\ pc'[Recv(c)] = m /\ Awake(Recv(c))
  BY ProcFacts DEF Wait, At, Goto, OnlyRecv, history, BaseInv, Places
<1>2. QED
  BY <1>1, WaitBase, ProcFacts DEF Wait, Goto

LEMMA RecvSignals ==
  ASSUME BaseInv, NEW c \in Client, NEW l, NEW s \in Sem, NEW m \in RecvPC,
         Signal(Recv(c), l, s, m)
  PROVE  /\ BaseInv' /\ OnlyRecv(c)
         /\ \A t \in Sem \ {s} : Same(Proc, t)
         /\ \/ Leaves(Proc, Recv(c), s)
            \/ \E q \in asleep[s] : Hands(Proc, Recv(c), q, s)
         /\ pc[Recv(c)] = l /\ pc'[Recv(c)] = m /\ Awake(Recv(c))
<1>1. OnlyRecv(c) /\ pc[Recv(c)] = l /\ pc'[Recv(c)] = m /\ Awake(Recv(c))
  BY ProcFacts DEF Signal, At, Goto, OnlyRecv, history, BaseInv, Places
<1>2. /\ Recv(c) \in Proc /\ m \in Kind(Recv(c))
      /\ sem_signal(Recv(c), s) /\ pc' = [pc EXCEPT ![Recv(c)] = m]
  BY ProcFacts DEF Signal, Goto
<1>3. /\ BaseInv'
      /\ \A t \in Sem \ {s} : Same(Proc, t)
      /\ \/ Leaves(Proc, Recv(c), s)
         \/ \E q \in asleep[s] : Hands(Proc, Recv(c), q, s)
  BY <1>1, <1>2, SignalBase
<1>4. QED
  BY <1>1, <1>3

LEMMA RecvMoves ==
  ASSUME BaseInv, NEW c \in Client, NEW l, NEW m \in RecvPC,
         At(Recv(c), l), Goto(Recv(c), m), UNCHANGED valVars, UNCHANGED mishaps
  PROVE  /\ BaseInv' /\ OnlyRecv(c)
         /\ \A t \in Sem : Same(Proc, t)
         /\ pc[Recv(c)] = l /\ pc'[Recv(c)] = m /\ Awake(Recv(c))
<1>1. OnlyRecv(c) /\ pc[Recv(c)] = l /\ pc'[Recv(c)] = m /\ Awake(Recv(c))
  BY ProcFacts DEF At, Goto, OnlyRecv, BaseInv, Places
<1>2. QED
  BY <1>1, PlainBase, ProcFacts DEF Goto

LEMMA RecvUndoes ==
  ASSUME BaseInv, NEW c \in Client, RecvUndo(c)
  PROVE  /\ BaseInv' /\ UNCHANGED <<pc, mishaps>> /\ pc[Recv(c)] = "r_exit"
         /\ \E s \in Sem : Undo(Recv(c), s)
<1>1. PICK s \in Sem : /\ pc[Recv(c)] = "r_exit" /\ Undo(Recv(c), s)
                       /\ UNCHANGED <<pc, mishaps>>
  BY DEF RecvUndo
<1>2. QED
  BY <1>1, UndoBase, ProcFacts

(* RecvWait takes the baton, RecvPass passes it on, and the death of a     *)
(* receiver brings it back.                                                *)
LEMMA RecvSteps ==
  ASSUME BaseInv, NEW c \in Client, RecvNext(c)
  PROVE  /\ BaseInv' /\ OnlyRecv(c)
         /\ pc[Recv(c)] # "r_none" /\ pc'[Recv(c)] # "r_none"
         /\ Same(Proc, "call_system") \/ RecvUndo(c)
         /\ \/ RecvWait(c) \/ RecvPass(c) \/ RecvUndo(c)
            \/ /\ Same(Proc, "clienting")
               /\ pc'[Recv(c)] \in Reading <=> pc[Recv(c)] \in Reading
               /\ pc[Recv(c)] # "r_exit" /\ pc'[Recv(c)] # "r_exit"
<1>1. CASE RecvOpen(c)
  BY <1>1, RecvMoves DEF RecvOpen, sem_open, history, Sem, ShellSem, RecvPC, Reading
<1>2. CASE RecvLock(c)
  BY <1>2, RecvWaits DEF RecvLock, Sem, ShellSem, RecvPC, Reading, Bed
<1>3. CASE RecvSign(c)
  BY <1>3, RecvMoves DEF RecvSign, sem_open, history, Sem, ShellSem, RecvPC, Reading
<1>4. CASE RecvUnlock(c)
  BY <1>4, RecvSignals DEF RecvUnlock, Sem, ShellSem, RecvPC, Reading
<1>5. CASE RecvWait(c)
  BY <1>5, RecvWaits DEF RecvWait, Sem, ShellSem, RecvPC, Reading, Bed
<1>6. CASE RecvRead(c)
  BY <1>6, RecvMoves DEF RecvRead, semVars, history, Sem, ShellSem, RecvPC, Reading
<1>7. CASE RecvClose(c)
  BY <1>7, RecvMoves DEF RecvClose, op_close, history, Sem, ShellSem, RecvPC, Reading
<1>8. CASE RecvLast(c)
  BY <1>8, RecvMoves DEF RecvLast, semVars, history, Sem, ShellSem, RecvPC, Reading
<1>9. CASE RecvServe(c)
  BY <1>9, RecvSignals DEF RecvServe, Sem, ShellSem, RecvPC, Reading
<1>10. CASE RecvFree(c)
  BY <1>10, RecvMoves DEF RecvFree, op_unlock, history, Sem, ShellSem, RecvPC, Reading
<1>11. CASE RecvPass(c)
  BY <1>11, RecvSignals DEF RecvPass, Sem, ShellSem, RecvPC, Reading
<1>12. CASE RecvUndo(c)
  BY <1>12, RecvUndoes, ProcFacts DEF OnlyRecv
<1>13. QED
  BY <1>1, <1>2, <1>3, <1>4, <1>5, <1>6, <1>7, <1>8, <1>9, <1>10, <1>11, <1>12 DEF RecvNext

-----------------------------------------------------------------------------
(* The shells, action by action.                                           *)

OnlyShell(c) ==
  /\ pc'[Sys] = pc[Sys]
  /\ \A d \in Client : /\ pc'[Recv(d)] = pc[Recv(d)]
                       /\ d # c => pc'[Shell(d)] = pc[Shell(d)]
  /\ mishaps \subseteq mishaps'

LEMMA ShellMoves ==
  ASSUME BaseInv, NEW c \in Client, NEW l, NEW m \in ShellPC,
         At(Shell(c), l), Goto(Shell(c), m), UNCHANGED valVars, mishaps \subseteq mishaps'
  PROVE  /\ BaseInv' /\ OnlyShell(c)
         /\ \A t \in Sem : Same(Proc, t)
         /\ pc[Shell(c)] = l /\ pc'[Shell(c)] = m /\ Awake(Shell(c))
<1>1. OnlyShell(c) /\ pc[Shell(c)] = l /\ pc'[Shell(c)] = m /\ Awake(Shell(c))
  BY ProcFacts DEF At, Goto, OnlyShell, BaseInv, Places
<1>2. Shell(c) \in Proc /\ m \in Kind(Shell(c)) /\ pc' = [pc EXCEPT ![Shell(c)] = m]
  BY ProcFacts DEF Goto
<1>3. BaseInv' /\ \A t \in Sem : Same(Proc, t)
  BY <1>1, <1>2, PlainBase
<1>4. QED
  BY <1>1, <1>3

LEMMA ShellWaits ==
  ASSUME BaseInv, NEW c \in Client, NEW l, NEW s \in Sem, NEW m \in ShellPC \intersect Bed(s),
         At(Shell(c), l), sem_wait(Shell(c), s), Goto(Shell(c), m), mishaps \subseteq mishaps'
  PROVE  /\ BaseInv' /\ OnlyShell(c)
         /\ \A t \in Sem \ {s} : Same(Proc, t)
         /\ Takes(Proc, Shell(c), s) \/ Sleeps(Proc, Shell(c), s)
         /\ pc[Shell(c)] = l /\ pc'[Shell(c)] = m /\ Awake(Shell(c))
<1>1. OnlyShell(c) /\ pc[Shell(c)] = l /\ pc'[Shell(c)] = m /\ Awake(Shell(c))
  BY ProcFacts DEF At, Goto, OnlyShell, BaseInv, Places
<1>2. /\ Shell(c) \in Proc /\ m \in Kind(Shell(c)) \intersect Bed(s)
      /\ pc' = [pc EXCEPT ![Shell(c)] = m]
  BY ProcFacts DEF Goto
<1>3. /\ BaseInv'
      /\ \A t \in Sem \ {s} : Same(Proc, t)
      /\ Takes(Proc, Shell(c), s) \/ Sleeps(Proc, Shell(c), s)
  BY <1>1, <1>2, WaitBase
<1>4. QED
  BY <1>1, <1>3

LEMMA ShellSignals ==
  ASSUME BaseInv, NEW c \in Client, NEW l, NEW s \in Sem, NEW m \in ShellPC,
         At(Shell(c), l), sem_signal(Shell(c), s), Goto(Shell(c), m), UNCHANGED mishaps
  PROVE  /\ BaseInv' /\ OnlyShell(c)
         /\ \A t \in Sem \ {s} : Same(Proc, t)
         /\ \/ Leaves(Proc, Shell(c), s)
            \/ \E q \in asleep[s] : Hands(Proc, Shell(c), q, s)
         /\ pc[Shell(c)] = l /\ pc'[Shell(c)] = m /\ Awake(Shell(c))
<1>1. OnlyShell(c) /\ pc[Shell(c)] = l /\ pc'[Shell(c)] = m /\ Awake(Shell(c))
  BY ProcFacts DEF At, Goto, OnlyShell, BaseInv, Places
<1>2. /\ Shell(c) \in Proc /\ m \in Kind(Shell(c)) /\ pc' = [pc EXCEPT ![Shell(c)] = m]
  BY ProcFacts DEF Goto
<1>3. /\ BaseInv'
      /\ \A t \in Sem \ {s} : Same(Proc, t)
      /\ \/ Leaves(Proc, Shell(c), s)
         \/ \E q \in asleep[s] : Hands(Proc, Shell(c), q, s)
  BY <1>1, <1>2, SignalBase
<1>4. QED
  BY <1>1, <1>3

LEMMA ShellUndoes ==
  ASSUME BaseInv, NEW c \in Client, ShellUndo(c)
  PROVE  /\ BaseInv' /\ UNCHANGED pc /\ mishaps \subseteq mishaps'
         /\ pc[Shell(c)] = "h_exit"
         /\ \E s \in Sem : Undo(Shell(c), s)
<1>1. PICK s \in Sem : /\ pc[Shell(c)] = "h_exit" /\ Undo(Shell(c), s)
                       /\ UNCHANGED pc /\ mishaps' = mishaps \union {"exit"}
  BY DEF ShellUndo
<1>2. BaseInv'
  BY <1>1, UndoBase, ProcFacts
<1>3. QED
  BY <1>1, <1>2

(* A process is taken out of the sets it sleeps on.                        *)
LEMMA DequeueBase ==
  ASSUME BaseInv, NEW p \in Proc, Dequeue(p), Places',
         \A q \in Proc \ {p} : pc'[q] = pc[q]
  PROVE  /\ BaseInv'
         /\ \A t \in Sem : p \notin asleep[t] => Same(Proc, t)
         /\ \A t \in Sem : /\ val'[t] = val[t] /\ asleep'[t] = asleep[t] \ {p}
                           /\ \A q \in Proc : undoVal'[q][t] = undoVal[q][t]
<1>1. /\ ValTypes(Proc, Sem)' /\ Prompt(Sem)'
      /\ UNCHANGED <<val, undoVal>>
      /\ \A t \in Sem : asleep'[t] = asleep[t] \ {p}
  BY DequeueEffect DEF BaseInv
<1>2. Sleepers'
  BY <1>1 DEF BaseInv, Sleepers, ValTypes
<1>3. QED
  BY <1>1, <1>2 DEF BaseInv, Same

LEMMA KillSteps ==
  ASSUME BaseInv, NEW c \in Client, KillReceiver(c)
  PROVE  /\ BaseInv'
         /\ pc[Shell(c)] = "h_kill" /\ pc'[Shell(c)] = "h_reap" /\ pc'[Recv(c)] = "r_exit"
         /\ pc'[Sys] = pc[Sys]
         /\ \A d \in Client \ {c} : /\ pc'[Shell(d)] = pc[Shell(d)]
                                    /\ pc'[Recv(d)] = pc[Recv(d)]
         /\ mishaps' = mishaps
         /\ \A t \in Sem : Recv(c) \notin asleep[t] => Same(Proc, t)
         /\ \A t \in Sem : /\ val'[t] = val[t] /\ asleep'[t] = asleep[t] \ {Recv(c)}
                           /\ \A q \in Proc : undoVal'[q][t] = undoVal[q][t]
<1>1. /\ pc[Shell(c)] = "h_kill" /\ Awake(Shell(c)) /\ Dequeue(Recv(c)) /\ mishaps' = mishaps
      /\ pc' = [pc EXCEPT ![Shell(c)] = "h_reap", ![Recv(c)] = "r_exit"]
  BY DEF KillReceiver, At
<1>2. /\ \A q \in Proc : pc'[q] = IF q = Shell(c) THEN "h_reap"
                                  ELSE IF q = Recv(c) THEN "r_exit" ELSE pc[q]
      /\ pc' \in [Proc -> SysPC \union RecvPC \union ShellPC]
  BY <1>1, ProcFacts DEF BaseInv, Places, RecvPC, ShellPC
<1>3. Places'
  BY <1>2, ProcFacts DEF BaseInv, Places, RecvPC, ShellPC
<1>4. \A t \in Sem : Shell(c) \notin asleep[t]
  BY <1>1 DEF Awake, BaseInv, ValTypes
<1>5. /\ ValTypes(Proc, Sem)' /\ Prompt(Sem)'
      /\ UNCHANGED <<val, undoVal>>
      /\ \A t \in Sem : asleep'[t] = asleep[t] \ {Recv(c)}
  BY <1>1, DequeueEffect DEF BaseInv
<1>6. Sleepers'
  BY <1>2, <1>4, <1>5 DEF BaseInv, Sleepers, ValTypes
<1>7. BaseInv'
  BY <1>3, <1>5, <1>6 DEF BaseInv
<1>8. \A t \in Sem : Recv(c) \notin asleep[t] => Same(Proc, t)
  BY <1>5 DEF Same
<1>9. QED
  BY <1>1, <1>2, <1>5, <1>7, <1>8, ProcFacts

Ops == op \in [Client -> Op]

CallPC == {"h_write", "h_ring", "h_wait", "h_unlock"}

(* The steps of a shell that move no other process and do not take it out  *)
(* of its sleep.                                                           *)
Ordinary(c) ==
  \/ ShellPoll(c) \/ ShellDrain(c) \/ ShellLock(c) \/ ShellWrite(c) \/ ShellRing(c)
  \/ ShellWait(c) \/ ShellUnlock(c) \/ ShellLook(c) \/ ReapReceiver(c) \/ ShellClose(c)
  \/ ReadLine(c) \/ Leave(c) \/ RunRequest(c) \/ RunJob(c)

(* Only ShellLock and ShellUnlock touch the door, and nothing an ordinary  *)
(* step does touches the baton.                                            *)
LEMMA ShellSteps ==
  ASSUME BaseInv, Ops, NEW c \in Client, Ordinary(c)
  PROVE  /\ BaseInv' /\ OnlyShell(c)
         /\ pc[Shell(c)] # "h_none" /\ pc'[Shell(c)] # "h_none"
         /\ Same(Proc, "clienting")
         /\ \/ ShellLock(c) \/ ShellUnlock(c)
            \/ /\ Same(Proc, "call_system")
               /\ pc'[Shell(c)] \in CallPC <=> pc[Shell(c)] \in CallPC
<1>1. CASE ShellPoll(c)
  BY <1>1, ShellMoves DEF ShellPoll, semVars, history, Sem, ShellSem, ShellPC, CallPC
<1>2. CASE ShellDrain(c)
  BY <1>2, ShellWaits DEF ShellDrain, Sem, ShellSem, ShellPC, CallPC, Bed
<1>3. CASE ShellLock(c)
  BY <1>3, ShellWaits DEF ShellLock, Wait, history, Sem, ShellSem, ShellPC, CallPC, Bed
<1>4. CASE ShellWrite(c)
  BY <1>4, ShellMoves DEF ShellWrite, semVars, history, Sem, ShellSem, ShellPC, CallPC
<1>5. CASE ShellRing(c)
  BY <1>5, ShellSignals DEF ShellRing, Signal, history, Sem, ShellSem, ShellPC, CallPC
<1>6. CASE ShellWait(c)
  BY <1>6, ShellWaits DEF ShellWait, Wait, history, Sem, ShellSem, ShellPC, CallPC, Bed
<1>7. CASE ShellUnlock(c)
  <2>1. AfterRequest(c) \in ShellPC \ {"h_none"}
    BY DEF Ops, Op, AfterRequest, ShellPC
  <2>2. /\ BaseInv' /\ OnlyShell(c)
        /\ Same(Proc, "clienting")
        /\ pc[Shell(c)] = "h_unlock" /\ pc'[Shell(c)] = AfterRequest(c)
    BY <1>7, <2>1, ShellSignals DEF ShellUnlock, history, Sem, ShellSem
  <2>3. QED
    BY <1>7, <2>1, <2>2
<1>8. CASE ShellLook(c)
  BY <1>8, ShellMoves DEF ShellLook, semVars, history, Sem, ShellSem, ShellPC, CallPC
<1>9. CASE ReapReceiver(c)
  BY <1>9, ShellMoves DEF ReapReceiver, semVars, history, Sem, ShellSem, ShellPC, CallPC
<1>10. CASE ShellClose(c)
  BY <1>10, ShellMoves DEF ShellClose, sem_close, history, Sem, ShellSem, ShellPC, CallPC
<1>11. CASE ReadLine(c)
  BY <1>11, ShellMoves DEF ReadLine, semVars, history, Sem, ShellSem, ShellPC, CallPC
<1>12. CASE Leave(c)
  BY <1>12, ShellMoves DEF Leave, semVars, history, Sem, ShellSem, ShellPC, CallPC
<1>13. CASE RunRequest(c)
  BY <1>13, ShellMoves DEF RunRequest, semVars, history, Sem, ShellSem, ShellPC, CallPC
<1>14. CASE RunJob(c)
  <2>1. Goto(Shell(c), "h_run")
    BY <1>14, ProcFacts DEF RunJob, Goto, At, BaseInv, Places
  <2>2. QED
    BY <1>14, <2>1, ShellMoves DEF RunJob, semVars, history, Sem, ShellSem, ShellPC, CallPC
<1>15. QED
  BY <1>1, <1>2, <1>3, <1>4, <1>5, <1>6, <1>7, <1>8, <1>9, <1>10, <1>11, <1>12, <1>13, <1>14
     DEF Ordinary

LEMMA AcceptSteps ==
  ASSUME BaseInv, NEW c \in Client, pc[Recv(c)] = "r_none", Accept(c)
  PROVE  /\ BaseInv'
         /\ pc[Shell(c)] = "h_none" /\ pc'[Shell(c)] = "h_poll" /\ pc'[Recv(c)] = "r_open"
         /\ pc'[Sys] = pc[Sys]
         /\ \A d \in Client \ {c} : /\ pc'[Shell(d)] = pc[Shell(d)]
                                    /\ pc'[Recv(d)] = pc[Recv(d)]
         /\ mishaps' = mishaps
         /\ \A t \in Sem : Same(Proc, t)
<1>1. /\ pc[Shell(c)] = "h_none" /\ UNCHANGED valVars /\ mishaps' = mishaps
      /\ pc' = [pc EXCEPT ![Shell(c)] = "h_poll", ![Recv(c)] = "r_open"]
  BY DEF Accept, sem_open, history
<1>2. /\ \A q \in Proc : pc'[q] = IF q = Shell(c) THEN "h_poll"
                                  ELSE IF q = Recv(c) THEN "r_open" ELSE pc[q]
      /\ pc' \in [Proc -> SysPC \union RecvPC \union ShellPC]
  BY <1>1, ProcFacts DEF BaseInv, Places, RecvPC, ShellPC
<1>3. Places'
  BY <1>2, ProcFacts DEF BaseInv, Places, RecvPC, ShellPC
<1>4. ValTypes(Proc, Sem)' /\ Prompt(Sem)' /\ \A t \in Sem : Same(Proc, t)
  BY <1>1, NoEffect DEF BaseInv
<1>5. \A t \in Sem : Shell(c) \notin asleep[t] /\ Recv(c) \notin asleep[t]
  BY <1>1 DEF BaseInv, Sleepers, Bed, Sem, ShellSem
<1>6. Sleepers'
  BY <1>2, <1>4, <1>5 DEF BaseInv, Sleepers, ValTypes, Same
<1>7. QED
  BY <1>1, <1>2, <1>3, <1>4, <1>6, ProcFacts DEF BaseInv

LEMMA JobSteps ==
  ASSUME BaseInv, NEW c \in Client, JobEnds(c)
  PROVE  /\ BaseInv' /\ UNCHANGED pc
         /\ Same(Proc, "clienting")
         /\ \/ Same(Proc, "call_system") /\ mishaps' = mishaps
            \/ "eintr" \in mishaps'
<1>1. CASE UNCHANGED <<semVars, mishaps>>
  <2>1. UNCHANGED pc /\ UNCHANGED valVars
    BY <1>1 DEF JobEnds, semVars
  <2>2. Places' /\ Sleepers'
    BY <2>1 DEF BaseInv, Places, Sleepers, valVars
  <2>3. QED
    BY <1>1, <2>1, <2>2, NoEffect DEF BaseInv, Sem, ShellSem
<1>2. CASE Dequeue(Shell(c)) /\ mishaps' = mishaps \union {"eintr"}
  <2>1. UNCHANGED pc
    BY DEF JobEnds
  <2>2. Places'
    BY <2>1 DEF BaseInv, Places
  <2>3. Shell(c) \notin asleep["clienting"]
    BY ProcFacts DEF BaseInv, Places, Sleepers, Bed, Sem, ShellSem, ShellPC
  <2>4. QED
    BY <1>2, <2>1, <2>2, <2>3, DequeueBase, ProcFacts DEF Sem
<1>3. QED
  BY <1>1, <1>2 DEF JobEnds

-----------------------------------------------------------------------------
(* Every step is one of these.                                             *)
LEMMA StepCases ==
  ASSUME [Next]_vars
  PROVE  \/ SysNext \/ UNCHANGED vars
         \/ \E c \in Client : \/ RecvNext(c) \/ Ordinary(c) \/ KillReceiver(c)
                              \/ ShellUndo(c) \/ Accept(c) \/ JobEnds(c)
BY DEF Next, ShellNext, UserNext, Ordinary

LEMMA OpsNext == Ops /\ [Next]_vars => Ops'
<1> SUFFICES ASSUME Ops, [Next]_vars PROVE Ops'
  OBVIOUS
<1>1. CASE SysNext
  BY <1>1 DEF Ops, SysNext, shellVars, SysAwaitCall, SysPoll, SysDrain, SysRead, SysWrite,
    SysLock, SysCount, SysStart, SysServing, SysTake, SysUnlock, SysSync, SysCompare,
    SysReply, Wait, Signal
<1>2. ASSUME NEW c \in Client, RecvNext(c) PROVE Ops'
  BY <1>2 DEF Ops, RecvNext, shellVars, RecvOpen, RecvLock, RecvSign, RecvUnlock, RecvWait,
    RecvRead, RecvClose, RecvLast, RecvServe, RecvFree, RecvPass, RecvUndo, Wait, Signal
<1>3. ASSUME NEW c \in Client, Ordinary(c) PROVE Ops'
  <2>1. \/ op' = op
        \/ \E o \in Op : op' = [op EXCEPT ![c] = o]
    <3>1. CASE ShellUnlock(c)
      BY <3>1 DEF Ops, Op, ShellUnlock
    <3>2. CASE RunRequest(c)
      BY <3>2, BroadcastAssumption DEF RunRequest, Op
    <3>3. CASE ReapReceiver(c)
      BY <3>3 DEF ReapReceiver, Op
    <3>4. CASE \/ ShellPoll(c) \/ ShellDrain(c) \/ ShellLock(c) \/ ShellWrite(c)
               \/ ShellRing(c) \/ ShellWait(c) \/ ShellLook(c) \/ ShellClose(c)
               \/ ReadLine(c) \/ Leave(c) \/ RunJob(c)
      BY <3>4 DEF shellVars, ShellPoll, ShellDrain, ShellLock, ShellWrite, ShellRing,
        ShellWait, ShellLook, ShellClose, ReadLine, Leave, RunJob, Wait, Signal
    <3>5. QED
      BY <1>3, <3>1, <3>2, <3>3, <3>4 DEF Ordinary
  <2>2. QED
    BY <2>1 DEF Ops
<1>4. ASSUME NEW c \in Client, KillReceiver(c) \/ ShellUndo(c) \/ Accept(c) \/ JobEnds(c)
      PROVE  Ops'
  BY <1>4 DEF Ops, shellVars, KillReceiver, ShellUndo, Accept, JobEnds
<1>5. CASE UNCHANGED vars
  BY <1>5 DEF Ops, vars, shellVars
<1>6. QED
  BY <1>1, <1>2, <1>3, <1>4, <1>5, StepCases

(* A client's receiver is born with its shell.                             *)
Born == \A c \in Client : pc[Shell(c)] = "h_none" <=> pc[Recv(c)] = "r_none"

Frame == BaseInv /\ Ops /\ Born

LEMMA FrameInit == Init => Frame
<1> SUFFICES ASSUME Init PROVE Frame
  OBVIOUS
<1>1. \A p \in Proc : /\ p = Sys => pc[p] = "s_idle"
                      /\ \A c \in Client : /\ p = Shell(c) => pc[p] = "h_none"
                                           /\ p = Recv(c) => pc[p] = "r_none"
  BY DEF Init, Proc, Sys, Shell, Recv
<1>2. ValTypes(Proc, Sem) /\ Prompt(Sem) /\ Sleepers
  BY DEF Init, Zero, ValTypes, Prompt, Sleepers
<1>3. Places
  <2>1. \A p \in Proc : pc[p] \in Kind(p)
    BY <1>1, ProcFacts DEF SysPC, ShellPC, RecvPC
  <2>2. pc \in [Proc -> SysPC \union RecvPC \union ShellPC]
    BY DEF Init, Proc, Sys, SysPC, ShellPC, RecvPC
  <2>3. QED
    BY <2>1, <2>2 DEF Places
<1>4. Born
  BY <1>1, ProcFacts DEF Born
<1>5. Ops
  BY DEF Init, Ops, Op
<1>6. QED
  BY <1>2, <1>3, <1>4, <1>5 DEF Frame, BaseInv

LEMMA FrameNext == Frame /\ [Next]_vars => Frame'
<1> SUFFICES ASSUME Frame, [Next]_vars PROVE BaseInv' /\ Born'
  BY OpsNext DEF Frame
<1>1. CASE SysNext
  BY <1>1, SysSteps DEF Frame, Born, OnlySys
<1>2. ASSUME NEW c \in Client, RecvNext(c) PROVE BaseInv' /\ Born'
  BY <1>2, RecvSteps DEF Frame, Born, OnlyRecv
<1>3. ASSUME NEW c \in Client, Ordinary(c) PROVE BaseInv' /\ Born'
  BY <1>3, ShellSteps DEF Frame, Born, OnlyShell
<1>4. ASSUME NEW c \in Client, KillReceiver(c) PROVE BaseInv' /\ Born'
  <2>1. BaseInv' /\ pc'[Shell(c)] = "h_reap" /\ pc'[Recv(c)] = "r_exit"
    BY <1>4, KillSteps DEF Frame
  <2>2. \A d \in Client \ {c} : pc'[Shell(d)] = pc[Shell(d)] /\ pc'[Recv(d)] = pc[Recv(d)]
    BY <1>4, KillSteps DEF Frame
  <2>3. QED
    BY <2>1, <2>2 DEF Frame, Born
<1>5. ASSUME NEW c \in Client, ShellUndo(c) PROVE BaseInv' /\ Born'
  BY <1>5, ShellUndoes DEF Frame, Born
<1>6. ASSUME NEW c \in Client, Accept(c) PROVE BaseInv' /\ Born'
  <2>1. pc[Recv(c)] = "r_none"
    BY <1>6 DEF Accept, Frame, Born
  <2>2. BaseInv' /\ pc'[Shell(c)] = "h_poll" /\ pc'[Recv(c)] = "r_open"
    BY <1>6, <2>1, AcceptSteps DEF Frame
  <2>3. \A d \in Client \ {c} : pc'[Shell(d)] = pc[Shell(d)] /\ pc'[Recv(d)] = pc[Recv(d)]
    BY <1>6, <2>1, AcceptSteps DEF Frame
  <2>4. QED
    BY <2>2, <2>3 DEF Frame, Born
<1>7. ASSUME NEW c \in Client, JobEnds(c) PROVE BaseInv' /\ Born'
  BY <1>7, JobSteps DEF Frame, Born
<1>8. CASE UNCHANGED vars
  BY <1>8 DEF vars, semVars, valVars, Frame, Born, BaseInv, ValTypes, Prompt, Places, Sleepers
<1>9. QED
  BY <1>1, <1>2, <1>3, <1>4, <1>5, <1>6, <1>7, <1>8, StepCases

-----------------------------------------------------------------------------
(* The door: semaphore call_system.                                        *)

In(c) == pc[Shell(c)] \in CallPC /\ Shell(c) \notin asleep["call_system"]

(* As long as no semop was interrupted: the token is on the semaphore or   *)
(* with the one shell that is in, and the kernel will give back for a      *)
(* shell that ends exactly what it has.                                    *)
Door ==
  /\ val["call_system"] \in 0..1
  /\ val["call_system"] = 1 => \A c \in Client : ~In(c)
  /\ val["call_system"] = 0 => \E c \in Client : In(c)
  /\ \A c, d \in Client : In(c) /\ In(d) => c = d
  /\ \A c \in Client : undoVal[Shell(c)]["call_system"] = IF In(c) THEN 1 ELSE 0
  /\ \A c \in Client : undoVal[Recv(c)]["call_system"] = 0

DoorInv == "eintr" \notin mishaps => Door

LEMMA DoorSame ==
  ASSUME Door, Same(Proc, "call_system"),
         \A c \in Client : pc'[Shell(c)] \in CallPC <=> pc[Shell(c)] \in CallPC
  PROVE  Door'
<1>1. \A c \in Client : In(c)' <=> In(c)
  BY DEF In, Same
<1>2. /\ val'["call_system"] = val["call_system"]
      /\ \A c \in Client :
           /\ undoVal'[Shell(c)]["call_system"] = undoVal[Shell(c)]["call_system"]
           /\ undoVal'[Recv(c)]["call_system"] = undoVal[Recv(c)]["call_system"]
  BY ProcFacts DEF Same
<1>3. QED
  BY <1>1, <1>2 DEF Door

LEMMA DoorLock ==
  ASSUME Frame, Door, NEW c \in Client, ShellLock(c)
  PROVE  Door'
<1> DEFINE s == "call_system"
<1>1. /\ Takes(Proc, Shell(c), s) \/ Sleeps(Proc, Shell(c), s)
      /\ OnlyShell(c)
      /\ pc[Shell(c)] = "h_lock" /\ pc'[Shell(c)] = "h_write" /\ Awake(Shell(c))
  BY ShellWaits DEF Frame, ShellLock, Wait, history, Sem, ShellSem, Bed, ShellPC
<1>2. ~In(c) /\ undoVal[Shell(c)][s] = 0 /\ asleep[s] \subseteq Proc
      /\ Shell(c) \notin asleep[s]
  BY <1>1 DEF In, CallPC, Door, Awake, Frame, BaseInv, ValTypes, Sem, ShellSem
<1>3. \A d \in Client \ {c} : Shell(d) # Shell(c) /\ pc'[Shell(d)] = pc[Shell(d)]
  BY <1>1, ProcFacts DEF OnlyShell
<1>4. CASE Takes(Proc, Shell(c), s)
  <2>1. val[s] = 1 /\ val'[s] = 0 /\ \A d \in Client : ~In(d)
    BY <1>4 DEF Takes, Door
  <2>2. \A d \in Client : In(d)' <=> d = c
    BY <1>1, <1>2, <1>3, <1>4, <2>1 DEF In, CallPC, Takes
  <2>3. \A d \in Client : undoVal'[Shell(d)][s] = (IF d = c THEN 1 ELSE 0)
                        /\ undoVal'[Recv(d)][s] = 0
    BY <1>2, <1>3, <1>4, <2>1, ProcFacts DEF Takes, Door
  <2>4. QED
    BY <2>1, <2>2, <2>3 DEF Door
<1>5. CASE Sleeps(Proc, Shell(c), s)
  <2>1. \A d \in Client : In(d)' <=> In(d)
    BY <1>1, <1>2, <1>3, <1>5 DEF In, CallPC, Sleeps
  <2>2. \A d \in Client : undoVal'[Shell(d)][s] = undoVal[Shell(d)][s]
                        /\ undoVal'[Recv(d)][s] = undoVal[Recv(d)][s]
    BY <1>5, ProcFacts DEF Sleeps
  <2>3. QED
    BY <1>5, <2>1, <2>2 DEF Sleeps, Door
<1>6. QED
  BY <1>1, <1>4, <1>5

LEMMA DoorUnlock ==
  ASSUME Frame, Door, NEW c \in Client, ShellUnlock(c)
  PROVE  Door'
<1> DEFINE s == "call_system"
<1>1. AfterRequest(c) \in ShellPC \ CallPC
  BY DEF Frame, Ops, Op, AfterRequest, ShellPC, CallPC
<1>2. /\ \/ Leaves(Proc, Shell(c), s)
         \/ \E q \in asleep[s] : Hands(Proc, Shell(c), q, s)
      /\ OnlyShell(c)
      /\ pc[Shell(c)] = "h_unlock" /\ pc'[Shell(c)] = AfterRequest(c) /\ Awake(Shell(c))
  BY <1>1, ShellSignals DEF Frame, ShellUnlock, history, Sem, ShellSem
<1>3. Shell(c) \notin asleep[s] /\ In(c) /\ undoVal[Shell(c)][s] = 1
  BY <1>2 DEF In, CallPC, Door, Awake, Frame, BaseInv, ValTypes, Sem, ShellSem
<1>4. \A d \in Client \ {c} : Shell(d) # Shell(c) /\ pc'[Shell(d)] = pc[Shell(d)]
                              /\ ~In(d) /\ undoVal[Shell(d)][s] = 0
  BY <1>2, <1>3, ProcFacts DEF OnlyShell, Door
<1>5. val[s] = 0
  BY <1>3 DEF Door
<1>6. CASE Leaves(Proc, Shell(c), s)
  <2>1. val'[s] = 1 /\ \A d \in Client : ~In(d)'
    BY <1>1, <1>2, <1>4, <1>5, <1>6 DEF In, Leaves
  <2>2. \A d \in Client : undoVal'[Shell(d)][s] = 0 /\ undoVal'[Recv(d)][s] = 0
    BY <1>3, <1>4, <1>6, ProcFacts DEF Leaves, Door
  <2>3. QED
    BY <2>1, <2>2 DEF Door
<1>7. CASE \E q \in asleep[s] : Hands(Proc, Shell(c), q, s)
  <2>1. PICK q \in asleep[s] : Hands(Proc, Shell(c), q, s)
    BY <1>7
  <2>2. q \in Proc /\ pc[q] = "h_write"
    BY DEF Frame, BaseInv, ValTypes, Sleepers, Bed, Sem, ShellSem
  <2>3. PICK e \in Client : q = Shell(e)
    BY <2>2, ProcFacts DEF Frame, BaseInv, Places, SysPC, RecvPC
  <2>4. e # c
    BY <1>3, <2>3
  <2>5. pc'[Shell(e)] = "h_write" /\ asleep'[s] = asleep[s] \ {Shell(e)}
    BY <1>4, <2>1, <2>2, <2>3, <2>4 DEF Hands
  <2>6. ASSUME NEW d \in Client
        PROVE  In(d)' <=> d = e
    <3>1. CASE d = e
      BY <2>5, <3>1 DEF In, CallPC
    <3>2. CASE d = c
      BY <1>1, <1>2, <2>4, <3>2 DEF In
    <3>3. CASE d # e /\ d # c
      BY <1>4, <2>5, <3>3, ProcFacts DEF In
    <3>4. QED
      BY <3>1, <3>2, <3>3
  <2>7. \A d \in Client : undoVal'[Shell(d)][s] = (IF d = e THEN 1 ELSE 0)
                        /\ undoVal'[Recv(d)][s] = 0
    BY <1>3, <1>4, <2>1, <2>3, <2>4, ProcFacts DEF Hands, Door
  <2>8. QED
    BY <1>5, <2>1, <2>6, <2>7 DEF Door, Hands
<1>8. QED
  BY <1>2, <1>6, <1>7

LEMMA DoorNext == Frame /\ DoorInv /\ [Next]_vars => DoorInv'
<1> SUFFICES ASSUME Frame, DoorInv, [Next]_vars, "eintr" \notin mishaps' PROVE Door'
  BY DEF DoorInv
<1>1. CASE SysNext
  BY <1>1, SysSteps, DoorSame DEF Frame, DoorInv, OnlySys
<1>2. ASSUME NEW c \in Client, RecvNext(c) PROVE Door'
  <2>1. Door /\ OnlyRecv(c)
    BY <1>2, RecvSteps DEF Frame, DoorInv, OnlyRecv
  <2>2. Same(Proc, "call_system")
    <3>1. CASE RecvUndo(c)
      <4>1. PICK t \in Sem : Undo(Recv(c), t) /\ pc[Recv(c)] = "r_exit" /\ UNCHANGED pc
        BY <3>1 DEF RecvUndo
      <4>2. undoVal[Recv(c)]["call_system"] = 0
        BY <2>1 DEF Door
      <4>3. QED
        BY <4>1, <4>2, UndoBase, ProcFacts DEF Frame, Sem, ShellSem
    <3>2. QED
      BY <1>2, <3>1, RecvSteps DEF Frame
  <2>3. QED
    BY <2>1, <2>2, DoorSame DEF OnlyRecv
<1>3. ASSUME NEW c \in Client, Ordinary(c) PROVE Door'
  <2>1. OnlyShell(c) /\ Door
    BY <1>3, ShellSteps DEF Frame, OnlyShell, DoorInv
  <2>2. CASE ShellLock(c) \/ ShellUnlock(c)
    BY <2>1, <2>2, DoorLock, DoorUnlock
  <2>3. CASE /\ Same(Proc, "call_system")
             /\ pc'[Shell(c)] \in CallPC <=> pc[Shell(c)] \in CallPC
    <3>1. \A d \in Client : pc'[Shell(d)] \in CallPC <=> pc[Shell(d)] \in CallPC
      BY <2>1, <2>3 DEF OnlyShell
    <3>2. QED
      BY <2>1, <2>3, <3>1, DoorSame
  <2>4. QED
    BY <1>3, <2>2, <2>3, ShellSteps DEF Frame
<1>4. ASSUME NEW c \in Client, KillReceiver(c) PROVE Door'
  <2>1. Recv(c) \notin asleep["call_system"]
    BY ProcFacts DEF Frame, BaseInv, Places, Sleepers, Bed, Sem, ShellSem, RecvPC
  <2>2. Door /\ Same(Proc, "call_system")
    BY <1>4, <2>1, KillSteps DEF Frame, DoorInv, Sem, ShellSem
  <2>3. \A d \in Client : pc'[Shell(d)] \in CallPC <=> pc[Shell(d)] \in CallPC
    BY <1>4, KillSteps DEF Frame, CallPC
  <2>4. QED
    BY <2>2, <2>3, DoorSame
<1>5. ASSUME NEW c \in Client, ShellUndo(c) PROVE Door'
  <2>1. Door
    BY <1>5, ShellUndoes DEF Frame, DoorInv
  <2>2. PICK t \in Sem : Undo(Shell(c), t) /\ pc[Shell(c)] = "h_exit" /\ UNCHANGED pc
    BY <1>5 DEF ShellUndo
  <2>3. undoVal[Shell(c)]["call_system"] = 0
    BY <2>1, <2>2 DEF Door, In, CallPC
  <2>4. Same(Proc, "call_system")
    BY <2>2, <2>3, UndoBase, ProcFacts DEF Frame, Sem, ShellSem
  <2>5. QED
    BY <2>1, <2>2, <2>4, DoorSame
<1>6. ASSUME NEW c \in Client, Accept(c) PROVE Door'
  <2>1. pc[Recv(c)] = "r_none"
    BY <1>6 DEF Accept, Frame, Born
  <2>2. Door /\ Same(Proc, "call_system")
    BY <1>6, <2>1, AcceptSteps DEF Frame, DoorInv, Sem, ShellSem
  <2>3. \A d \in Client : pc'[Shell(d)] \in CallPC <=> pc[Shell(d)] \in CallPC
    BY <1>6, <2>1, AcceptSteps DEF Frame, CallPC
  <2>4. QED
    BY <2>2, <2>3, DoorSame
<1>7. ASSUME NEW c \in Client, JobEnds(c) PROVE Door'
  BY <1>7, JobSteps, DoorSame DEF Frame, DoorInv
<1>8. CASE UNCHANGED vars
  BY <1>8, DoorSame, ProcFacts DEF vars, semVars, valVars, history, DoorInv, Same
<1>9. QED
  BY <1>1, <1>2, <1>3, <1>4, <1>5, <1>6, <1>7, <1>8, StepCases

-----------------------------------------------------------------------------
(* The baton: semaphore clienting.  It is there only during a round, on    *)
(* the semaphore or with one receiver, alive or dying.                     *)

Has(c) ==
  \/ pc[Recv(c)] \in Reading /\ Recv(c) \notin asleep["clienting"]
  \/ pc[Recv(c)] = "r_exit" /\ undoVal[Recv(c)]["clienting"] = 1

Baton ==
  /\ val["clienting"] \in 0..1
  /\ val["clienting"] = 1 => Round /\ \A c \in Client : ~Has(c)
  /\ \A c, d \in Client : Has(c) /\ Has(d) => c = d
  /\ (\E c \in Client : Has(c)) => Round
  /\ \A c \in Client : undoVal[Recv(c)]["clienting"] = IF Has(c) THEN 1 ELSE 0
  /\ \A c \in Client : undoVal[Shell(c)]["clienting"] = 0

LEMMA BatonSame ==
  ASSUME Baton, Same(Proc, "clienting"), Round' <=> Round,
         \A c \in Client : /\ pc'[Recv(c)] \in Reading <=> pc[Recv(c)] \in Reading
                           /\ pc'[Recv(c)] = "r_exit" <=> pc[Recv(c)] = "r_exit"
  PROVE  Baton'
<1>1. /\ val'["clienting"] = val["clienting"] /\ asleep'["clienting"] = asleep["clienting"]
      /\ \A c \in Client :
           /\ undoVal'[Shell(c)]["clienting"] = undoVal[Shell(c)]["clienting"]
           /\ undoVal'[Recv(c)]["clienting"] = undoVal[Recv(c)]["clienting"]
  BY ProcFacts DEF Same
<1>2. \A c \in Client : Has(c)' <=> Has(c)
  BY <1>1 DEF Has
<1>3. QED
  BY <1>1, <1>2 DEF Baton

(* Who may be waiting for the baton.                                       *)
LEMMA BatonSleepers ==
  ASSUME Frame, NEW q \in asleep["clienting"]
  PROVE  \/ q = Sys /\ pc[Sys] = "s_unlock"
         \/ \E e \in Client : q = Recv(e) /\ pc[Recv(e)] = "r_read"
<1>1. q \in Proc /\ pc[q] \in {"s_unlock", "r_read"} /\ pc[q] \in Kind(q)
  BY DEF Frame, BaseInv, ValTypes, Places, Sleepers, Bed, Sem, ShellSem
<1>2. QED
  BY <1>1, ProcFacts DEF SysPC, RecvPC, ShellPC

LEMMA BatonStart ==
  ASSUME Frame, Baton, SysStart
  PROVE  Baton'
<1> DEFINE s == "clienting"
<1>1. /\ OnlySys
      /\ Leaves(Proc, Sys, s) \/ \E q \in asleep[s] : Hands(Proc, Sys, q, s)
      /\ pc[Sys] = "s_start" /\ pc'[Sys] = "s_serving" /\ Awake(Sys)
  BY SysSignals DEF Frame, SysStart, Sem, SysPC
<1>2. ~Round /\ Round' /\ val[s] = 0 /\ \A c \in Client : ~Has(c)
  BY <1>1 DEF Round, Baton
<1>3. \A c \in Client : undoVal[Recv(c)][s] = 0 /\ undoVal[Shell(c)][s] = 0
  BY <1>2 DEF Baton
<1>4. CASE Leaves(Proc, Sys, s)
  <2>1. \A c \in Client : ~Has(c)' /\ undoVal'[Recv(c)][s] = 0 /\ undoVal'[Shell(c)][s] = 0
    BY <1>1, <1>2, <1>3, <1>4, ProcFacts DEF Has, Leaves, OnlySys
  <2>2. QED
    BY <1>2, <1>4, <2>1 DEF Baton, Leaves
<1>5. CASE \E q \in asleep[s] : Hands(Proc, Sys, q, s)
  <2>1. PICK q \in asleep[s] : Hands(Proc, Sys, q, s)
    BY <1>5
  <2>2. PICK e \in Client : q = Recv(e) /\ pc[Recv(e)] = "r_read"
    BY <1>1, BatonSleepers
  <2>3. \A c \in Client : Has(c)' <=> c = e
    <3>1. asleep'[s] = asleep[s] \ {Recv(e)} /\ undoVal'[Recv(e)][s] = 1
      BY <1>3, <2>1, <2>2 DEF Hands
    <3>2. \A c \in Client : pc'[Recv(c)] = pc[Recv(c)]
      BY <1>1 DEF OnlySys
    <3>3. \A c \in Client \ {e} : undoVal'[Recv(c)][s] = 0 /\ Recv(c) # Recv(e)
      BY <1>3, <2>1, <2>2, ProcFacts DEF Hands
    <3>4. QED
      BY <1>2, <2>2, <3>1, <3>2, <3>3 DEF Has, Reading
  <2>4. \A c \in Client : /\ undoVal'[Recv(c)][s] = (IF c = e THEN 1 ELSE 0)
                          /\ undoVal'[Shell(c)][s] = 0
    BY <1>3, <2>1, <2>2, ProcFacts DEF Hands
  <2>5. QED
    BY <1>2, <2>1, <2>3, <2>4 DEF Baton, Hands
<1>6. QED
  BY <1>1, <1>4, <1>5

LEMMA BatonTake ==
  ASSUME Frame, Baton, SysTake
  PROVE  Baton'
<1> DEFINE s == "clienting"
<1>1. /\ OnlySys
      /\ Takes(Proc, Sys, s) \/ Sleeps(Proc, Sys, s)
      /\ pc[Sys] = "s_take" /\ pc'[Sys] = "s_unlock" /\ Awake(Sys)
  BY SysWaits DEF Frame, SysTake, Sem, SysPC, Bed
<1>2. Round /\ Sys \notin asleep[s]
  BY <1>1 DEF Round, Awake, Frame, BaseInv, ValTypes, Sem
<1>3. \A c \in Client : /\ pc'[Recv(c)] = pc[Recv(c)]
                        /\ undoVal'[Recv(c)][s] = undoVal[Recv(c)][s]
                        /\ undoVal'[Shell(c)][s] = undoVal[Shell(c)][s]
                        /\ (Recv(c) \in asleep'[s]) <=> (Recv(c) \in asleep[s])
  BY <1>1, ProcFacts DEF OnlySys, Takes, Sleeps
<1>4. \A c \in Client : Has(c)' <=> Has(c)
  BY <1>3 DEF Has
<1>5. CASE Takes(Proc, Sys, s)
  <2>1. val'[s] = 0 /\ \A c \in Client : ~Has(c)
    BY <1>5 DEF Baton, Takes
  <2>2. \A c \in Client : ~Has(c)'
    BY <1>4, <2>1
  <2>3. \A c \in Client : undoVal'[Recv(c)][s] = 0 /\ undoVal'[Shell(c)][s] = 0
    BY <1>3, <2>1 DEF Baton
  <2>4. QED
    BY <2>1, <2>2, <2>3 DEF Baton
<1>6. CASE Sleeps(Proc, Sys, s)
  <2>1. Round' /\ val'[s] = 0
    BY <1>1, <1>6 DEF Round, Sleeps
  <2>2. \A c, d \in Client : Has(c)' /\ Has(d)' => c = d
    BY <1>4 DEF Baton
  <2>3. \A c \in Client : undoVal'[Recv(c)][s] = IF Has(c)' THEN 1 ELSE 0
    BY <1>3, <1>4 DEF Baton
  <2>4. \A c \in Client : undoVal'[Shell(c)][s] = 0
    BY <1>3 DEF Baton
  <2>5. QED
    BY <2>1, <2>2, <2>3, <2>4 DEF Baton
<1>7. QED
  BY <1>1, <1>5, <1>6

LEMMA BatonWait ==
  ASSUME Frame, Baton, NEW c \in Client, RecvWait(c)
  PROVE  Baton'
<1> DEFINE s == "clienting"
<1>1. /\ OnlyRecv(c)
      /\ Takes(Proc, Recv(c), s) \/ Sleeps(Proc, Recv(c), s)
      /\ pc[Recv(c)] = "r_wait" /\ pc'[Recv(c)] = "r_read" /\ Awake(Recv(c))
  BY RecvWaits DEF Frame, RecvWait, Sem, RecvPC, Bed
<1>2. ~Has(c) /\ undoVal[Recv(c)][s] = 0 /\ Recv(c) \notin asleep[s]
  BY <1>1 DEF Has, Reading, Baton, Awake, Frame, BaseInv, ValTypes, Sem
<1>3. \A d \in Client \ {c} : /\ pc'[Recv(d)] = pc[Recv(d)] /\ Recv(d) # Recv(c)
                              /\ undoVal'[Recv(d)][s] = undoVal[Recv(d)][s]
                              /\ (Recv(d) \in asleep'[s]) <=> (Recv(d) \in asleep[s])
  BY <1>1, ProcFacts DEF OnlyRecv, Takes, Sleeps
<1>4. \A d \in Client : undoVal'[Shell(d)][s] = 0
  BY <1>1, ProcFacts DEF Baton, Takes, Sleeps
<1>5. ASSUME NEW d \in Client \ {c} PROVE Has(d)' <=> Has(d)
  <2>1. /\ pc'[Recv(d)] = pc[Recv(d)] /\ undoVal'[Recv(d)][s] = undoVal[Recv(d)][s]
        /\ (Recv(d) \in asleep'[s]) <=> (Recv(d) \in asleep[s])
    BY <1>3
  <2>2. QED
    BY <2>1 DEF Has
<1>6. Round' <=> Round
  BY <1>1, ProcFacts DEF Round, OnlyRecv, Takes, Sleeps
<1>7. CASE Takes(Proc, Recv(c), s)
  <2>1. Has(c)' /\ undoVal'[Recv(c)][s] = 1
    BY <1>1, <1>2, <1>7 DEF Has, Reading, Takes
  <2>2. val[s] = 1 /\ val'[s] = 0 /\ Round /\ \A d \in Client : ~Has(d)
    BY <1>7 DEF Takes, Baton
  <2>3. \A d \in Client : Has(d)' <=> d = c
    BY <1>5, <2>1, <2>2
  <2>4. \A d \in Client : undoVal'[Recv(d)][s] = IF d = c THEN 1 ELSE 0
    BY <1>3, <2>1, <2>2 DEF Baton
  <2>5. QED
    BY <1>4, <1>6, <2>2, <2>3, <2>4 DEF Baton
<1>8. CASE Sleeps(Proc, Recv(c), s)
  <2>1. ~Has(c)' /\ undoVal'[Recv(c)][s] = 0
    BY <1>1, <1>2, <1>8, ProcFacts DEF Has, Sleeps
  <2>2. val'[s] = 0
    BY <1>8 DEF Sleeps
  <2>3. \A d \in Client : Has(d)' <=> Has(d)
    BY <1>2, <1>5, <2>1
  <2>4. \A d, e \in Client : Has(d)' /\ Has(e)' => d = e
    BY <2>3 DEF Baton
  <2>5. \A d \in Client : undoVal'[Recv(d)][s] = IF Has(d)' THEN 1 ELSE 0
    BY <1>2, <1>3, <2>1, <2>3 DEF Baton
  <2>6. (\E d \in Client : Has(d)') => Round'
    BY <1>6, <2>3 DEF Baton
  <2>7. QED
    BY <1>4, <2>2, <2>4, <2>5, <2>6 DEF Baton
<1>9. QED
  BY <1>1, <1>7, <1>8

(* The baton leaves the hands of the receiver of c, which keeps none: onto *)
(* the semaphore or to somebody who sleeps.                                *)
LEMMA BatonLetGo ==
  ASSUME Frame, Baton, NEW c \in Client, Has(c), pc'[Sys] = pc[Sys],
         \A d \in Client \ {c} : pc'[Recv(d)] = pc[Recv(d)],
         ~Has(c)', undoVal'[Recv(c)]["clienting"] = 0, Recv(c) \notin asleep["clienting"],
         \/ /\ val'["clienting"] = 1 /\ asleep["clienting"] = {} /\ asleep'["clienting"] = {}
            /\ \A q \in Proc \ {Recv(c)} : undoVal'[q]["clienting"] = undoVal[q]["clienting"]
         \/ /\ val'["clienting"] = 0
            /\ \E q \in asleep["clienting"] :
                 /\ asleep'["clienting"] = asleep["clienting"] \ {q}
                 /\ undoVal'[q]["clienting"] = undoVal[q]["clienting"] + 1
                 /\ \A r \in Proc \ {Recv(c), q} :
                      undoVal'[r]["clienting"] = undoVal[r]["clienting"]
  PROVE  Baton'
<1> DEFINE s == "clienting"
<1>1. Round /\ \A d \in Client \ {c} : /\ ~Has(d) /\ undoVal[Recv(d)][s] = 0
                                       /\ Recv(d) # Recv(c)
  BY ProcFacts DEF Baton
<1>2. \A d \in Client : undoVal[Shell(d)][s] = 0
  BY DEF Baton
<1>3. CASE /\ val'[s] = 1 /\ asleep[s] = {} /\ asleep'[s] = {}
           /\ \A q \in Proc \ {Recv(c)} : undoVal'[q][s] = undoVal[q][s]
  <2>1. \A d \in Client \ {c} : undoVal'[Recv(d)][s] = 0
    BY <1>1, <1>3, ProcFacts
  <2>2. \A d \in Client : ~Has(d)'
    BY <1>1, <1>3, <2>1 DEF Has
  <2>3. \A d \in Client : undoVal'[Shell(d)][s] = 0
    BY <1>2, <1>3, ProcFacts
  <2>4. Round'
    BY <1>1, <1>3 DEF Round
  <2>5. QED
    BY <1>3, <2>1, <2>2, <2>3, <2>4 DEF Baton
<1>4. ASSUME val'[s] = 0, NEW q \in asleep[s],
             asleep'[s] = asleep[s] \ {q},
             undoVal'[q][s] = undoVal[q][s] + 1,
             \A r \in Proc \ {Recv(c), q} : undoVal'[r][s] = undoVal[r][s]
      PROVE  Baton'
  <2>1. CASE q = Sys /\ pc[Sys] = "s_unlock"
    <3>1. \A d \in Client \ {c} : undoVal'[Recv(d)][s] = 0
      BY <1>1, <1>4, <2>1, ProcFacts
    <3>2. \A d \in Client : ~Has(d)'
      BY <1>1, <1>4, <2>1, <3>1, ProcFacts DEF Has
    <3>3. \A d \in Client : undoVal'[Shell(d)][s] = 0
      BY <1>2, <1>4, <2>1, ProcFacts
    <3>4. QED
      BY <1>4, <3>1, <3>2, <3>3 DEF Baton
  <2>2. ASSUME NEW e \in Client, q = Recv(e), pc[Recv(e)] = "r_read"
        PROVE  Baton'
    <3>1. e # c
      BY <2>2
    <3>2. \A d \in Client : undoVal'[Recv(d)][s] = IF d = e THEN 1 ELSE 0
      BY <1>1, <1>4, <2>2, <3>1, ProcFacts
    <3>3. \A d \in Client : Has(d)' <=> d = e
      <4>1. Has(e)'
        BY <1>4, <2>2, <3>1 DEF Has, Reading
      <4>2. \A d \in Client \ {c, e} : ~Has(d)'
        BY <1>1, <1>4, <2>2, <3>2, ProcFacts DEF Has
      <4>3. QED
        BY <3>1, <4>1, <4>2
    <3>4. \A d \in Client : undoVal'[Shell(d)][s] = 0
      BY <1>2, <1>4, <2>2, ProcFacts
    <3>5. Round'
      BY <1>1, <1>4, <2>2, ProcFacts DEF Round
    <3>6. QED
      BY <1>4, <3>2, <3>3, <3>4, <3>5 DEF Baton
  <2>3. QED
    BY <2>1, <2>2, BatonSleepers
<1>5. QED
  BY <1>3, <1>4

(* The baton is passed on, given back by the kernel for a killed receiver  *)
(* that had it, or left alone.                                             *)
LEMMA BatonRecv ==
  ASSUME Frame, Baton, NEW c \in Client, RecvNext(c)
  PROVE  Baton'
<1> DEFINE s == "clienting"
<1>1. OnlyRecv(c) /\ s \in Sem
  BY RecvSteps DEF Frame, Sem
<1>2. CASE RecvWait(c)
  BY <1>2, BatonWait
<1>3. CASE RecvPass(c)
  <2>1. /\ Leaves(Proc, Recv(c), s) \/ \E q \in asleep[s] : Hands(Proc, Recv(c), q, s)
        /\ pc[Recv(c)] = "r_pass" /\ pc'[Recv(c)] = "r_lock" /\ Awake(Recv(c))
    BY <1>1, <1>3, RecvSignals DEF Frame, RecvPass, RecvPC
  <2>2. Recv(c) \notin asleep[s]
    BY <1>1, <2>1 DEF Awake, Frame, BaseInv, ValTypes
  <2>3. Has(c) /\ val[s] = 0 /\ undoVal[Recv(c)][s] = 1
    BY <2>1, <2>2 DEF Has, Reading, Baton
  <2>4. ~Has(c)'
    BY <2>1 DEF Has, Reading
  <2>5. undoVal'[Recv(c)][s] = 0
    BY <2>1, <2>2, <2>3 DEF Leaves, Hands
  <2>6. CASE Leaves(Proc, Recv(c), s)
    BY <1>1, <2>2, <2>3, <2>4, <2>5, <2>6, BatonLetGo DEF Leaves, OnlyRecv
  <2>7. CASE \E q \in asleep[s] : Hands(Proc, Recv(c), q, s)
    BY <1>1, <2>2, <2>3, <2>4, <2>5, <2>7, BatonLetGo DEF Hands, OnlyRecv
  <2>8. QED
    BY <2>1, <2>6, <2>7
<1>4. CASE RecvUndo(c)
  <2>1. PICK t \in Sem : Undo(Recv(c), t) /\ pc[Recv(c)] = "r_exit" /\ UNCHANGED pc
    BY <1>4 DEF RecvUndo
  <2>2. undoVal[Recv(c)][s] = 0 \/ (undoVal[Recv(c)][s] = 1 /\ Has(c))
    BY DEF Baton
  <2>3. CASE t # s \/ undoVal[Recv(c)][s] = 0
    <3>1. Same(Proc, s)
      BY <1>1, <2>1, <2>3, UndoBase, ProcFacts DEF Frame
    <3>2. QED
      BY <2>1, <3>1, BatonSame, ProcFacts DEF Round, Same
  <2>4. CASE t = s /\ undoVal[Recv(c)][s] = 1
    <3>1. val[s] = 0 /\ Has(c)
      BY <2>2, <2>4 DEF Baton
    <3>2. Recv(c) \notin asleep[s]
      BY <1>1, <2>1, ProcFacts DEF Frame, BaseInv, Sleepers, Bed
    <3>3. /\ undoVal'[Recv(c)][s] = 0
          /\ \/ /\ val'[s] = 1 /\ asleep[s] = {} /\ asleep'[s] = {}
                /\ \A q \in Proc \ {Recv(c)} : undoVal'[q][s] = undoVal[q][s]
             \/ /\ val'[s] = 0
                /\ \E q \in asleep[s] :
                     /\ asleep'[s] = asleep[s] \ {q}
                     /\ undoVal'[q][s] = undoVal[q][s] + 1
                     /\ \A r \in Proc \ {Recv(c), q} : undoVal'[r][s] = undoVal[r][s]
      BY <1>1, <2>1, <2>4, <3>1, UndoBase, ProcFacts DEF Frame
    <3>4. ~Has(c)'
      BY <2>1, <3>3 DEF Has, Reading
    <3>5. QED
      BY <2>1, <3>1, <3>2, <3>3, <3>4, BatonLetGo
  <2>5. QED
    BY <2>2, <2>3, <2>4
<1>5. CASE /\ Same(Proc, s)
           /\ pc'[Recv(c)] \in Reading <=> pc[Recv(c)] \in Reading
           /\ pc[Recv(c)] # "r_exit" /\ pc'[Recv(c)] # "r_exit"
  <2>1. Round' <=> Round
    BY <1>1, <1>5 DEF Round, OnlyRecv, Same
  <2>2. \A d \in Client : /\ pc'[Recv(d)] \in Reading <=> pc[Recv(d)] \in Reading
                          /\ pc'[Recv(d)] = "r_exit" <=> pc[Recv(d)] = "r_exit"
    BY <1>1, <1>5 DEF OnlyRecv
  <2>3. QED
    BY <1>5, <2>1, <2>2, BatonSame
<1>6. QED
  BY <1>2, <1>3, <1>4, <1>5, RecvSteps DEF Frame

(* A receiver that is killed keeps the baton, if it has it, until the      *)
(* kernel gives it back.                                                   *)
LEMMA BatonKill ==
  ASSUME Frame, Baton, NEW c \in Client, KillReceiver(c)
  PROVE  Baton'
<1> DEFINE s == "clienting"
<1>1. /\ pc'[Recv(c)] = "r_exit" /\ pc'[Sys] = pc[Sys]
      /\ \A d \in Client \ {c} : pc'[Recv(d)] = pc[Recv(d)]
      /\ val'[s] = val[s] /\ asleep'[s] = asleep[s] \ {Recv(c)}
      /\ \A q \in Proc : undoVal'[q][s] = undoVal[q][s]
  BY KillSteps DEF Frame, Sem
<1>2. \A d \in Client : /\ undoVal'[Recv(d)][s] = undoVal[Recv(d)][s]
                        /\ undoVal'[Shell(d)][s] = undoVal[Shell(d)][s]
  BY <1>1, ProcFacts
<1>3. Has(c)' <=> Has(c)
  BY <1>1, <1>2 DEF Has, Baton, Reading
<1>4. \A d \in Client \ {c} : Has(d)' <=> Has(d)
  BY <1>1, <1>2, ProcFacts DEF Has
<1>5. Round' <=> Round
  BY <1>1, ProcFacts DEF Round
<1>6. QED
  BY <1>1, <1>2, <1>3, <1>4, <1>5 DEF Baton

LEMMA BatonInit == Init => Baton
<1> SUFFICES ASSUME Init PROVE Baton
  OBVIOUS
<1>1. /\ val["clienting"] = 0
      /\ \A p \in Proc : undoVal[p]["clienting"] = 0
  BY DEF Init, Zero, Sem
<1>2. \A c \in Client : ~Has(c)
  <2>1. \A c \in Client : pc[Recv(c)] = "r_none"
    BY ProcFacts DEF Init, Recv
  <2>2. QED
    BY <2>1 DEF Has, Reading
<1>3. QED
  BY <1>1, <1>2, ProcFacts DEF Baton

LEMMA BatonNext == Frame /\ Baton /\ [Next]_vars => Baton'
<1> SUFFICES ASSUME Frame, Baton, [Next]_vars PROVE Baton'
  OBVIOUS
<1>1. CASE SysNext
  <2>1. OnlySys /\ (SysStart \/ SysTake \/ (Same(Proc, "clienting") /\ (Round' <=> Round)))
    BY <1>1, SysSteps DEF Frame
  <2>2. QED
    BY <2>1, BatonStart, BatonTake, BatonSame DEF OnlySys
<1>2. ASSUME NEW c \in Client, RecvNext(c) PROVE Baton'
  BY <1>2, BatonRecv
<1>3. ASSUME NEW c \in Client, Ordinary(c) PROVE Baton'
  <2>1. OnlyShell(c) /\ Same(Proc, "clienting")
    BY <1>3, ShellSteps DEF Frame
  <2>2. QED
    BY <2>1, BatonSame DEF OnlyShell, Round, Same
<1>4. ASSUME NEW c \in Client, KillReceiver(c) PROVE Baton'
  BY <1>4, BatonKill
<1>5. ASSUME NEW c \in Client, ShellUndo(c) PROVE Baton'
  <2>1. PICK t \in Sem : Undo(Shell(c), t) /\ pc[Shell(c)] = "h_exit" /\ UNCHANGED pc
    BY <1>5 DEF ShellUndo
  <2>2. undoVal[Shell(c)]["clienting"] = 0
    BY DEF Baton
  <2>3. Same(Proc, "clienting")
    BY <2>1, <2>2, UndoBase, ProcFacts DEF Frame, Sem
  <2>4. QED
    BY <2>1, <2>3, BatonSame DEF Round, Same
<1>6. ASSUME NEW c \in Client, Accept(c) PROVE Baton'
  <2>1. pc[Recv(c)] = "r_none"
    BY <1>6 DEF Accept, Frame, Born
  <2>2. /\ Same(Proc, "clienting") /\ pc'[Sys] = pc[Sys] /\ pc'[Recv(c)] = "r_open"
        /\ \A d \in Client \ {c} : pc'[Recv(d)] = pc[Recv(d)]
    BY <1>6, <2>1, AcceptSteps DEF Frame, Sem
  <2>3. \A d \in Client : /\ pc'[Recv(d)] \in Reading <=> pc[Recv(d)] \in Reading
                          /\ pc'[Recv(d)] = "r_exit" <=> pc[Recv(d)] = "r_exit"
    BY <2>1, <2>2 DEF Reading
  <2>4. QED
    BY <2>2, <2>3, BatonSame DEF Round, Same
<1>7. ASSUME NEW c \in Client, JobEnds(c) PROVE Baton'
  BY <1>7, JobSteps, BatonSame DEF Frame, Round, Same
<1>8. CASE UNCHANGED vars
  BY <1>8, BatonSame DEF vars, semVars, valVars, Round, Same
<1>9. QED
  BY <1>1, <1>2, <1>3, <1>4, <1>5, <1>6, <1>7, <1>8, StepCases

LEMMA DoorInit == Init => DoorInv
<1> SUFFICES ASSUME Init PROVE Door
  BY DEF DoorInv
<1>1. /\ val["call_system"] = 1
      /\ \A p \in Proc : undoVal[p]["call_system"] = 0
  BY DEF Init, Zero, Sem, ShellSem
<1>2. \A c \in Client : ~In(c)
  <2>1. \A c \in Client : pc[Shell(c)] = "h_none"
    BY ProcFacts DEF Init, Shell
  <2>2. QED
    BY <2>1 DEF In, CallPC
<1>3. QED
  BY <1>1, <1>2, ProcFacts DEF Door

-----------------------------------------------------------------------------
(* Semaphores [1] and [2].                                                 *)

Holders(s) == {p \in Proc : undoCnt[p][s] = 1}

Counted == \A s \in Sem : cnt[s] = Base - Cardinality(Holders(s))

Exits == {"r_exit", "h_exit"}

(* The sets that a process which is at l has open, or had when it died.    *)
Opens(l) ==
  IF l \in SysPC \union {"h_none", "r_none", "r_open"} THEN {}
  ELSE IF l \in ShellPC THEN ShellSem
  ELSE IF l \in {"r_unlock", "r_wait", "r_read", "r_close", "r_exit"}
       THEN {"clisem", "serving", "clienting"}
       ELSE {"clisem", "serving"}

Opened ==
  \A p \in Proc : \A s \in Sem :
    /\ undoCnt[p][s] = 1 => s \in Opens(pc[p])
    /\ pc[p] \notin Exits /\ s \in Opens(pc[p]) => undoCnt[p][s] = 1

(* Receivers that keep clienting locked.                                   *)
Closing == {"r_last", "r_serve", "r_free"}

Locked ==
  /\ \A p \in Proc : \A s \in Sem : undoLock[p][s] = -1 =>
       s = "clienting" /\ pc[p] \in Closing \union Exits
  /\ \A p \in Proc : pc[p] \in Closing => undoLock[p]["clienting"] = -1
  /\ \A s \in Sem, p, q \in Proc : undoLock[p][s] = -1 /\ undoLock[q][s] = -1 => p = q
  /\ \A s \in Sem : lock[s] = 1 <=> \E p \in Proc : undoLock[p][s] = -1

Counters ==
  /\ CntTypes(Proc, Sem)
  /\ Counted
  /\ Opened
  /\ Locked

LEMMA HoldersFinite ==
  ASSUME NEW s
  PROVE  /\ IsFiniteSet(Holders(s)) /\ Cardinality(Holders(s)) \in Nat
BY ProcFinite, FS_Subset, FS_CardinalityType DEF Holders

LEMMA BaseNat == Base \in Nat
BY BigCountAssumption DEF Base

(* A process opens, or gives back, the sets of S.                          *)
LEMMA CountOpens ==
  ASSUME Counters, NEW p \in Proc, NEW S, S \subseteq Sem, sem_open(p, S),
         \A s \in S : undoCnt[p][s] = 0
  PROVE  /\ CntTypes(Proc, Sem)' /\ Counted'
         /\ \A q \in Proc : \A s \in Sem :
              undoCnt'[q][s] = IF q = p /\ s \in S THEN 1 ELSE undoCnt[q][s]
         /\ UNCHANGED <<lock, undoLock>>
<1>1. /\ \A s \in S : cnt[s] > 0
      /\ cnt' = [s \in DOMAIN cnt |-> IF s \in S THEN cnt[s] - 1 ELSE cnt[s]]
      /\ undoCnt' = [undoCnt EXCEPT ![p] =
                       [s \in DOMAIN @ |-> IF s \in S THEN @[s] + 1 ELSE @[s]]]
      /\ UNCHANGED <<lock, undoLock>>
  BY DEF sem_open
<1>2. CntTypes(Proc, Sem)
  BY DEF Counters
<1>3. \A q \in Proc : \A s \in Sem :
        undoCnt'[q][s] = IF q = p /\ s \in S THEN 1 ELSE undoCnt[q][s]
  BY <1>1, <1>2 DEF CntTypes
<1>4. CntTypes(Proc, Sem)'
  <2>1. undoCnt' \in [Proc -> [Sem -> 0..1]]
    <3>1. [s \in DOMAIN undoCnt[p] |-> IF s \in S THEN undoCnt[p][s] + 1 ELSE undoCnt[p][s]]
            \in [Sem -> 0..1]
      BY <1>2 DEF CntTypes
    <3>2. QED
      BY <1>1, <1>2, <3>1 DEF CntTypes
  <2>2. cnt' \in [Sem -> Nat]
    BY <1>1, <1>2 DEF CntTypes
  <2>3. QED
    BY <1>1, <1>2, <2>1, <2>2 DEF CntTypes
<1>5. ASSUME NEW s \in Sem
      PROVE  cnt'[s] = Base - Cardinality(Holders(s)')
  <2>1. cnt[s] = Base - Cardinality(Holders(s)) /\ cnt[s] \in Nat
    BY <1>2 DEF Counters, Counted, CntTypes
  <2>2. CASE s \in S
    <3>1. Holders(s)' = Holders(s) \union {p} /\ p \notin Holders(s)
      BY <1>3, <2>2 DEF Holders
    <3>2. Cardinality(Holders(s)') = Cardinality(Holders(s)) + 1
      BY <3>1, HoldersFinite, FS_AddElement
    <3>3. cnt'[s] = cnt[s] - 1
      BY <1>1, <1>2, <2>2 DEF CntTypes
    <3>4. QED
      BY <2>1, <3>2, <3>3, HoldersFinite, BaseNat
  <2>3. CASE s \notin S
    <3>1. Holders(s)' = Holders(s)
      BY <1>3, <2>3 DEF Holders
    <3>2. cnt'[s] = cnt[s]
      BY <1>1, <1>2, <2>3 DEF CntTypes
    <3>3. QED
      BY <2>1, <3>1, <3>2
  <2>4. QED
    BY <2>2, <2>3
<1>6. QED
  BY <1>1, <1>3, <1>4, <1>5 DEF Counted

Returns(p, S) ==
  /\ cnt' \in [Sem -> Int] /\ undoCnt' \in [Proc -> [Sem -> 0..1]]
  /\ \A s \in Sem : cnt'[s] = IF s \in S THEN cnt[s] + undoCnt[p][s] ELSE cnt[s]
  /\ \A q \in Proc : \A s \in Sem :
       undoCnt'[q][s] = IF q = p /\ s \in S THEN 0 ELSE undoCnt[q][s]

LEMMA CountGives ==
  ASSUME Counters, NEW p \in Proc, NEW S, Returns(p, S)
  PROVE  cnt' \in [Sem -> Nat] /\ Counted'
<1>1. ASSUME NEW s \in Sem
      PROVE  cnt'[s] = Base - Cardinality(Holders(s)') /\ cnt'[s] \in Nat
  <2>1. /\ cnt[s] = Base - Cardinality(Holders(s)) /\ cnt[s] \in Nat
        /\ undoCnt[p][s] \in 0..1
    BY DEF Counters, Counted, CntTypes
  <2>2. CASE s \in S /\ undoCnt[p][s] = 1
    <3>1. Holders(s)' = Holders(s) \ {p} /\ p \in Holders(s)
      BY <2>2 DEF Holders, Returns
    <3>2. Cardinality(Holders(s)') = Cardinality(Holders(s)) - 1
      BY <3>1, HoldersFinite, FS_RemoveElement
    <3>3. cnt'[s] = cnt[s] + 1
      BY <2>2 DEF Returns
    <3>4. QED
      BY <2>1, <3>2, <3>3, HoldersFinite, BaseNat
  <2>3. CASE s \notin S \/ undoCnt[p][s] = 0
    <3>1. Holders(s)' = Holders(s)
      BY <2>3 DEF Holders, Returns
    <3>2. cnt'[s] = cnt[s]
      BY <2>1, <2>3 DEF Returns
    <3>3. QED
      BY <2>1, <3>1, <3>2
  <2>4. QED
    BY <2>1, <2>2, <2>3
<1>2. QED
  BY <1>1 DEF Counted, Returns

(* A process may go from l to m without an operation on these semaphores.  *)
Alike(l, m) ==
  /\ Opens(l) \subseteq Opens(m)
  /\ m \notin Exits => l \notin Exits /\ Opens(m) = Opens(l)
  /\ m \in Closing => l \in Closing
  /\ l \in Closing \union Exits => m \in Closing \union Exits

LEMMA CountsSame ==
  ASSUME Counters, UNCHANGED cntVars, \A p \in Proc : Alike(pc[p], pc'[p])
  PROVE  Counters'
<1>1. cnt' = cnt /\ undoCnt' = undoCnt /\ lock' = lock /\ undoLock' = undoLock
  BY DEF cntVars
<1>2. CntTypes(Proc, Sem)' /\ Counted'
  BY <1>1 DEF Counters, CntTypes, Counted, Holders
<1>3. Opened'
  BY <1>1 DEF Counters, Opened, Alike
<1>4. Locked'
  BY <1>1 DEF Counters, Locked, Alike
<1>5. QED
  BY <1>2, <1>3, <1>4 DEF Counters

LEMMA AlikeKinds ==
  /\ \A l : Alike(l, l)
  /\ \A l, m \in SysPC : Alike(l, m)
  /\ \A l \in ShellPC \ {"h_none", "h_exit"}, m \in ShellPC \ {"h_none"} : Alike(l, m)
BY DEF Alike, Opens, Exits, Closing, SysPC, ShellPC

LEMMA SysCounts ==
  ASSUME BaseInv, Counters, SysNext
  PROVE  Counters'
<1>1. UNCHANGED cntVars
  BY DEF SysNext, SysAwaitCall, SysPoll, SysDrain, SysRead, SysWrite, SysLock, SysCount,
    SysStart, SysServing, SysTake, SysUnlock, SysSync, SysCompare, SysReply, Wait, Signal,
    sem_wait, sem_signal, semVars
<1>2. OnlySys /\ pc[Sys] \in SysPC /\ pc'[Sys] \in SysPC
  BY SysSteps, ProcFacts DEF BaseInv, Places
<1>3. \A p \in Proc : Alike(pc[p], pc'[p])
  BY <1>2, AlikeKinds, ProcFacts DEF OnlySys
<1>4. QED
  BY <1>1, <1>3, CountsSame

(* The steps of a receiver that do not touch these semaphores.             *)
LEMMA RecvAlike ==
  ASSUME BaseInv, NEW c \in Client,
         \/ RecvLock(c) \/ RecvUnlock(c) \/ RecvWait(c) \/ RecvRead(c) \/ RecvLast(c)
         \/ RecvServe(c) \/ RecvPass(c)
  PROVE  UNCHANGED cntVars /\ Alike(pc[Recv(c)], pc'[Recv(c)])
<1>1. UNCHANGED cntVars
  BY DEF RecvLock, RecvUnlock, RecvWait, RecvRead, RecvLast, RecvServe, RecvPass, Wait,
    Signal, sem_wait, sem_signal, semVars
<1>2. \E l, m \in RecvPC : /\ pc[Recv(c)] = l /\ pc'[Recv(c)] = m
                           /\ \/ l = "r_lock" /\ m = "r_sign"
                              \/ l = "r_unlock" /\ m = "r_wait"
                              \/ l = "r_wait" /\ m = "r_read"
                              \/ l = "r_read" /\ m = "r_close"
                              \/ l = "r_last" /\ m \in {"r_serve", "r_free"}
                              \/ l = "r_serve" /\ m = "r_free"
                              \/ l = "r_pass" /\ m = "r_lock"
  BY ProcFacts DEF RecvLock, RecvUnlock, RecvWait, RecvRead, RecvLast, RecvServe, RecvPass,
    Wait, Signal, At, Goto, BaseInv, Places, RecvPC
<1>3. QED
  BY <1>1, <1>2 DEF Alike, Opens, Exits, Closing, SysPC, ShellPC

LEMMA ShellAlike ==
  ASSUME BaseInv, Ops, NEW c \in Client, Ordinary(c), ~ShellClose(c)
  PROVE  UNCHANGED cntVars /\ Alike(pc[Shell(c)], pc'[Shell(c)])
<1>1. UNCHANGED cntVars /\ pc[Shell(c)] # "h_exit"
  BY DEF Ordinary, ShellPoll, ShellDrain, ShellLock, ShellWrite, ShellRing, ShellWait,
    ShellUnlock, ShellLook, ReapReceiver, ReadLine, Leave, RunRequest, RunJob, Wait, Signal,
    At, sem_wait, sem_signal, semVars
<1>2. /\ pc[Shell(c)] \in ShellPC \ {"h_none", "h_exit"}
      /\ pc'[Shell(c)] \in ShellPC \ {"h_none"}
  BY <1>1, ShellSteps, ProcFacts DEF BaseInv, Places
<1>3. QED
  BY <1>1, <1>2, AlikeKinds

(* A process opens S on its way from l to m.                               *)
LEMMA OpenCounts ==
  ASSUME BaseInv, Counters, NEW p \in Proc, NEW S, S \subseteq Sem, sem_open(p, S),
         \A q \in Proc \ {p} : Alike(pc[q], pc'[q]),
         pc[p] \notin Exits \union Closing, pc'[p] \notin Exits \union Closing,
         Opens(pc[p]) \intersect S = {}, Opens(pc'[p]) = Opens(pc[p]) \union S
  PROVE  Counters'
<1>1. \A s \in S : undoCnt[p][s] = 0
  BY DEF Counters, Opened, CntTypes
<1>2. /\ CntTypes(Proc, Sem)' /\ Counted'
      /\ \A q \in Proc : \A s \in Sem :
           undoCnt'[q][s] = IF q = p /\ s \in S THEN 1 ELSE undoCnt[q][s]
      /\ UNCHANGED <<lock, undoLock>>
  BY <1>1, CountOpens
<1>3. Opened'
  BY <1>2 DEF Counters, Opened, Alike
<1>4. Locked'
  BY <1>2 DEF Counters, Locked, Alike
<1>5. QED
  BY <1>2, <1>3, <1>4 DEF Counters

LEMMA RecvOpenCounts ==
  ASSUME BaseInv, Counters, NEW c \in Client, RecvOpen(c) \/ RecvSign(c)
  PROVE  Counters'
<1>1. /\ Recv(c) \in Proc /\ pc' = [pc EXCEPT ![Recv(c)] = pc'[Recv(c)]]
      /\ \/ /\ pc[Recv(c)] = "r_open" /\ pc'[Recv(c)] = "r_lock"
            /\ sem_open(Recv(c), {"clisem", "serving"})
         \/ /\ pc[Recv(c)] = "r_sign" /\ pc'[Recv(c)] = "r_unlock"
            /\ sem_open(Recv(c), {"clienting"})
  BY ProcFacts DEF RecvOpen, RecvSign, At, Goto, BaseInv, Places
<1>2. \A q \in Proc \ {Recv(c)} : Alike(pc[q], pc'[q])
  BY <1>1, AlikeKinds DEF BaseInv, Places
<1>3. CASE pc[Recv(c)] = "r_open"
  <2>1. /\ pc[Recv(c)] \notin Exits \union Closing /\ pc'[Recv(c)] \notin Exits \union Closing
        /\ Opens(pc[Recv(c)]) = {} /\ Opens(pc'[Recv(c)]) = {"clisem", "serving"}
    BY <1>1, <1>3 DEF Opens, Exits, Closing, SysPC, ShellPC
  <2>2. {"clisem", "serving"} \subseteq Sem
    BY DEF Sem
  <2>3. QED
    BY <1>1, <1>2, <1>3, <2>1, <2>2, OpenCounts
<1>4. CASE pc[Recv(c)] = "r_sign"
  <2>1. /\ pc[Recv(c)] \notin Exits \union Closing /\ pc'[Recv(c)] \notin Exits \union Closing
        /\ Opens(pc[Recv(c)]) = {"clisem", "serving"}
        /\ Opens(pc'[Recv(c)]) = {"clisem", "serving", "clienting"}
    BY <1>1, <1>4 DEF Opens, Exits, Closing, SysPC, ShellPC
  <2>2. /\ {"clienting"} \subseteq Sem
        /\ Opens(pc[Recv(c)]) \intersect {"clienting"} = {}
        /\ Opens(pc'[Recv(c)]) = Opens(pc[Recv(c)]) \union {"clienting"}
    BY <2>1 DEF Sem
  <2>3. QED
    BY <1>1, <1>2, <1>4, <2>1, <2>2, OpenCounts
<1>5. QED
  BY <1>1, <1>3, <1>4

LEMMA AcceptCounts ==
  ASSUME Frame, Counters, NEW c \in Client, Accept(c)
  PROVE  Counters'
<1>1. pc[Recv(c)] = "r_none"
  BY DEF Accept, Frame, Born
<1>2. /\ pc[Shell(c)] = "h_none" /\ pc'[Shell(c)] = "h_poll" /\ pc'[Recv(c)] = "r_open"
      /\ pc'[Sys] = pc[Sys]
      /\ \A d \in Client \ {c} : pc'[Shell(d)] = pc[Shell(d)] /\ pc'[Recv(d)] = pc[Recv(d)]
  BY <1>1, AcceptSteps DEF Frame
<1>3. sem_open(Shell(c), ShellSem) /\ Shell(c) \in Proc /\ ShellSem \subseteq Sem
  BY ProcFacts DEF Accept, Sem
<1>4. \A q \in Proc \ {Shell(c)} : Alike(pc[q], pc'[q])
  <2>1. Alike("r_none", "r_open")
    BY DEF Alike, Opens, Exits, Closing
  <2>2. QED
    BY <1>1, <1>2, <2>1, AlikeKinds, ProcFacts
<1>5. /\ pc[Shell(c)] \notin Exits \union Closing /\ pc'[Shell(c)] \notin Exits \union Closing
      /\ Opens(pc[Shell(c)]) = {} /\ Opens(pc'[Shell(c)]) = ShellSem
  BY <1>2 DEF Opens, Exits, Closing, SysPC, ShellPC
<1>6. QED
  BY <1>3, <1>4, <1>5, OpenCounts DEF Frame

(* A receiver gives clienting back and keeps it locked ...                 *)
LEMMA RecvCloseCounts ==
  ASSUME BaseInv, Counters, NEW c \in Client, RecvClose(c)
  PROVE  Counters'
<1> DEFINE p == Recv(c)
           s == "clienting"
<1>1. /\ p \in Proc /\ s \in Sem
      /\ pc[p] = "r_close" /\ pc' = [pc EXCEPT ![p] = "r_last"] /\ pc'[p] = "r_last"
      /\ lock[s] = 0 /\ lock' = [lock EXCEPT ![s] = 1]
      /\ undoLock' = [undoLock EXCEPT ![p][s] = @ - 1]
      /\ cnt' = [cnt EXCEPT ![s] = @ + 1]
      /\ undoCnt' = [undoCnt EXCEPT ![p][s] = @ - 1]
  BY ProcFacts DEF RecvClose, op_close, At, Goto, Sem, BaseInv, Places
<1>2. CntTypes(Proc, Sem) /\ undoCnt[p][s] = 1 /\ undoLock[p][s] = 0
  <2>1. s \in Opens("r_close") /\ "r_close" \notin Exits \union Closing
    BY DEF Opens, Exits, Closing, SysPC, ShellPC
  <2>2. undoCnt[p][s] = 1
    BY <1>1, <2>1 DEF Counters, Opened
  <2>3. undoLock[p][s] # -1 /\ undoLock[p][s] \in -1..0
    BY <1>1, <2>1 DEF Counters, Locked, CntTypes
  <2>4. QED
    BY <2>2, <2>3 DEF Counters
<1> HIDE DEF p, s
<1>3. /\ undoCnt' \in [Proc -> [Sem -> 0..1]]
      /\ undoLock' \in [Proc -> [Sem -> -1..0]]
      /\ lock' \in [Sem -> 0..1] /\ cnt' \in [Sem -> Int]
      /\ \A q \in Proc : \A t \in Sem :
           undoCnt'[q][t] = IF q = p /\ t \in {s} THEN 0 ELSE undoCnt[q][t]
      /\ \A q \in Proc : \A t \in Sem :
           undoLock'[q][t] = IF q = p /\ t = s THEN -1 ELSE undoLock[q][t]
      /\ \A t \in Sem : cnt'[t] = IF t \in {s} THEN cnt[t] + undoCnt[p][t] ELSE cnt[t]
      /\ \A t \in Sem : lock'[t] = IF t = s THEN 1 ELSE lock[t]
      /\ {s} \subseteq Sem
  BY <1>1, <1>2 DEF CntTypes
<1>4. cnt' \in [Sem -> Nat] /\ Counted'
  <2>1. Returns(p, {s})
    BY <1>3 DEF Returns
  <2>2. QED
    BY <1>1, <2>1, CountGives
<1>5. CntTypes(Proc, Sem)'
  BY <1>3, <1>4 DEF CntTypes
<1>6. \A q \in Proc \ {p} : pc'[q] = pc[q]
  BY <1>1 DEF BaseInv, Places
<1>7. Opened'
  <2>1. /\ Opens("r_close") = {"clisem", "serving", "clienting"}
        /\ Opens("r_last") = {"clisem", "serving"} /\ "r_close" \notin Exits
    BY DEF Opens, Exits, SysPC, ShellPC
  <2>2. QED
    BY <1>1, <1>3, <1>6, <2>1 DEF Counters, Opened, s
<1>8. Locked'
  <2>1. \A q \in Proc : undoLock[q][s] = 0
    BY <1>1, <1>2 DEF Counters, Locked, CntTypes
  <2>2. s = "clienting" /\ pc[p] \notin Closing /\ pc'[p] \in Closing
    BY <1>1 DEF s, Closing
  <2>3. QED
    BY <1>1, <1>3, <1>6, <2>1, <2>2 DEF Counters, Locked
<1>9. QED
  BY <1>4, <1>5, <1>7, <1>8 DEF Counters

(* ... until it unlocks it.                                                *)
LEMMA RecvFreeCounts ==
  ASSUME BaseInv, Counters, NEW c \in Client, RecvFree(c)
  PROVE  Counters'
<1> DEFINE p == Recv(c)
           s == "clienting"
<1>1. /\ p \in Proc /\ s \in Sem
      /\ pc[p] = "r_free" /\ pc' = [pc EXCEPT ![p] = "r_pass"] /\ pc'[p] = "r_pass"
      /\ lock' = [lock EXCEPT ![s] = @ - 1]
      /\ undoLock' = [undoLock EXCEPT ![p][s] = @ + 1]
      /\ UNCHANGED <<cnt, undoCnt>>
  BY ProcFacts DEF RecvFree, op_unlock, At, Goto, Sem, BaseInv, Places
<1>2. CntTypes(Proc, Sem) /\ undoLock[p][s] = -1 /\ lock[s] = 1
  BY <1>1 DEF Counters, Locked, Closing
<1>3. s = "clienting"
  OBVIOUS
<1> HIDE DEF p, s
<1>4. /\ undoLock' \in [Proc -> [Sem -> -1..0]] /\ lock' \in [Sem -> 0..1]
      /\ \A q \in Proc : \A t \in Sem :
           undoLock'[q][t] = IF q = p /\ t = s THEN 0 ELSE undoLock[q][t]
      /\ \A t \in Sem : lock'[t] = IF t = s THEN 0 ELSE lock[t]
  BY <1>1, <1>2 DEF CntTypes
<1>5. CntTypes(Proc, Sem)' /\ Counted'
  BY <1>1, <1>2, <1>4 DEF CntTypes, Counters, Counted, Holders
<1>6. \A q \in Proc \ {p} : pc'[q] = pc[q]
  BY <1>1 DEF BaseInv, Places
<1>7. Opened'
  <2>1. Opens("r_free") = Opens("r_pass") /\ "r_free" \notin Exits
    BY DEF Opens, Exits, SysPC, ShellPC
  <2>2. QED
    BY <1>1, <1>6, <2>1 DEF Counters, Opened
<1>8. Locked'
  <2>1. \A q \in Proc \ {p} : undoLock[q][s] # -1
    BY <1>1, <1>2 DEF Counters, Locked
  <2>2. \A q \in Proc : undoLock'[q][s] # -1
    BY <1>1, <1>4, <2>1
  <2>3. pc'[p] \notin Closing /\ \A q \in Proc \ {p} : pc[q] \notin Closing
    BY <1>1, <1>3, <2>1 DEF Counters, Locked, Closing
  <2>4. QED
    BY <1>1, <1>2, <1>3, <1>4, <1>6, <2>1, <2>2, <2>3 DEF Counters, Locked
<1>9. QED
  BY <1>5, <1>7, <1>8 DEF Counters

(* A shell gives its sets back on its way out.                             *)
LEMMA ShellCloseCounts ==
  ASSUME BaseInv, Counters, NEW c \in Client, ShellClose(c)
  PROVE  Counters'
<1> DEFINE p == Shell(c)
<1>1. /\ p \in Proc /\ ShellSem \subseteq Sem
      /\ pc[p] = "h_close" /\ pc' = [pc EXCEPT ![p] = "h_exit"] /\ pc'[p] = "h_exit"
      /\ cnt' = [t \in DOMAIN cnt |-> IF t \in ShellSem THEN cnt[t] + 1 ELSE cnt[t]]
      /\ undoCnt' = [undoCnt EXCEPT ![p] =
                       [t \in DOMAIN @ |-> IF t \in ShellSem THEN @[t] - 1 ELSE @[t]]]
      /\ UNCHANGED <<lock, undoLock>>
  BY ProcFacts DEF ShellClose, sem_close, At, Goto, Sem, BaseInv, Places
<1>2. /\ Opens("h_close") = ShellSem /\ Opens("h_exit") = ShellSem
      /\ "h_close" \notin Exits \union Closing
  BY DEF Opens, Exits, Closing, SysPC, ShellPC
<1>3. CntTypes(Proc, Sem) /\ \A t \in ShellSem : undoCnt[p][t] = 1
  BY <1>1, <1>2 DEF Counters, Opened
<1> HIDE DEF p
<1>4. Returns(p, ShellSem)
  <2>1. cnt' \in [Sem -> Int]
    BY <1>1, <1>3 DEF CntTypes
  <2>2. \A t \in Sem : cnt'[t] = IF t \in ShellSem THEN cnt[t] + undoCnt[p][t] ELSE cnt[t]
    BY <1>1, <1>3 DEF CntTypes
  <2>3. \A q \in Proc : \A t \in Sem :
          undoCnt'[q][t] = IF q = p /\ t \in ShellSem THEN 0 ELSE undoCnt[q][t]
    BY <1>1, <1>3 DEF CntTypes
  <2>4. undoCnt' \in [Proc -> [Sem -> 0..1]]
    <3>1. [t \in DOMAIN undoCnt[p] |->
             IF t \in ShellSem THEN undoCnt[p][t] - 1 ELSE undoCnt[p][t]] \in [Sem -> 0..1]
      BY <1>1, <1>3 DEF CntTypes
    <3>2. QED
      BY <1>1, <1>3, <3>1 DEF CntTypes
  <2>5. QED
    BY <2>1, <2>2, <2>3, <2>4 DEF Returns
<1>5. cnt' \in [Sem -> Nat] /\ Counted'
  BY <1>1, <1>4, CountGives
<1>6. CntTypes(Proc, Sem)'
  BY <1>1, <1>3, <1>4, <1>5 DEF CntTypes, Returns
<1>7. \A q \in Proc \ {p} : pc'[q] = pc[q]
  BY <1>1 DEF BaseInv, Places
<1>8. Opened'
  <2>1. "h_exit" \in Exits
    BY DEF Exits
  <2>2. ASSUME NEW q \in Proc, NEW t \in Sem
        PROVE  /\ undoCnt'[q][t] = 1 => t \in Opens(pc'[q])
               /\ pc'[q] \notin Exits /\ t \in Opens(pc'[q]) => undoCnt'[q][t] = 1
    <3>1. CASE q = p
      <4>1. undoCnt'[q][t] = 1 => undoCnt[q][t] = 1
        BY <1>4 DEF Returns
      <4>2. QED
        BY <1>1, <1>2, <2>1, <3>1, <4>1 DEF Counters, Opened
    <3>2. CASE q # p
      BY <1>4, <1>7, <3>2 DEF Counters, Opened, Returns
    <3>3. QED
      BY <3>1, <3>2
  <2>3. QED
    BY <2>2 DEF Opened
<1>9. Locked'
  <2>1. pc'[p] \notin Closing /\ pc[p] \notin Closing \union Exits
    BY <1>1, <1>2 DEF Closing
  <2>2. QED
    BY <1>1, <1>7, <2>1 DEF Counters, Locked
<1>10. QED
  BY <1>5, <1>6, <1>8, <1>9 DEF Counters

(* What the kernel gives back is what the dead process has.                *)
LEMMA UndoCounts ==
  ASSUME Counters, NEW p \in Proc, NEW s \in Sem, pc[p] \in Exits, Undo(p, s), pc' = pc
  PROVE  Counters'
<1>1. /\ cnt' = [cnt EXCEPT ![s] = @ + undoCnt[p][s]]
      /\ undoCnt' = [undoCnt EXCEPT ![p][s] = 0]
      /\ lock' = [lock EXCEPT ![s] = @ + undoLock[p][s]]
      /\ undoLock' = [undoLock EXCEPT ![p][s] = 0]
  BY DEF Undo
<1>2. CntTypes(Proc, Sem)
  BY DEF Counters
<1>3. Returns(p, {s})
  BY <1>1, <1>2 DEF CntTypes, Returns
<1>4. cnt' \in [Sem -> Nat] /\ Counted'
  BY <1>3, CountGives
<1>5. /\ undoLock' \in [Proc -> [Sem -> -1..0]]
      /\ \A q \in Proc : \A t \in Sem :
           undoLock'[q][t] = IF q = p /\ t = s THEN 0 ELSE undoLock[q][t]
  BY <1>1, <1>2 DEF CntTypes
<1>6. /\ lock' \in [Sem -> 0..1]
      /\ \A t \in Sem \ {s} : lock'[t] = lock[t]
      /\ lock'[s] = lock[s] + undoLock[p][s]
  <2>1. undoLock[p][s] = -1 => lock[s] = 1
    BY DEF Counters, Locked
  <2>2. lock[s] \in 0..1 /\ undoLock[p][s] \in -1..0
    BY <1>2 DEF CntTypes
  <2>3. lock[s] + undoLock[p][s] \in 0..1
    BY <2>1, <2>2
  <2>4. QED
    BY <1>1, <1>2, <2>3 DEF CntTypes
<1>7. CntTypes(Proc, Sem)'
  BY <1>3, <1>4, <1>5, <1>6 DEF CntTypes, Returns
<1>8. Opened'
  <2>1. \A q \in Proc \ {p} : \A t \in Sem : undoCnt'[q][t] = undoCnt[q][t]
    BY <1>3 DEF Returns
  <2>2. \A t \in Sem : undoCnt'[p][t] = 1 => undoCnt[p][t] = 1
    BY <1>3 DEF Returns
  <2>3. QED
    BY <2>1, <2>2 DEF Counters, Opened
<1>9. Locked'
  <2>1. \A q \in Proc : \A t \in Sem : undoLock'[q][t] = -1 => undoLock[q][t] = -1
    BY <1>5
  <2>2. pc[p] \notin Closing
    BY DEF Exits, Closing
  <2>3. \A q \in Proc : pc[q] \in Closing => undoLock'[q]["clienting"] = -1
    BY <1>5, <2>2 DEF Counters, Locked, Sem
  <2>4. ASSUME NEW t \in Sem
        PROVE  lock'[t] = 1 <=> \E q \in Proc : undoLock'[q][t] = -1
    <3>1. CASE t = s /\ undoLock[p][s] = -1
      <4>1. lock[s] = 1 /\ \A q \in Proc \ {p} : undoLock[q][s] # -1
        BY <3>1 DEF Counters, Locked
      <4>2. \A q \in Proc : undoLock'[q][s] # -1
        BY <1>5, <4>1
      <4>3. QED
        BY <1>6, <3>1, <4>1, <4>2
    <3>2. CASE t # s \/ undoLock[p][s] # -1
      <4>1. undoLock[p][s] \in -1..0 /\ lock[s] \in 0..1
        BY <1>2 DEF CntTypes
      <4>2. lock'[t] = lock[t]
        BY <1>6, <3>2, <4>1
      <4>3. \A q \in Proc : undoLock'[q][t] = undoLock[q][t]
        BY <1>5, <3>2, <4>1
      <4>4. QED
        BY <4>2, <4>3 DEF Counters, Locked
    <3>3. QED
      BY <3>1, <3>2
  <2>5. QED
    BY <2>1, <2>3, <2>4 DEF Counters, Locked
<1>10. QED
  BY <1>4, <1>7, <1>8, <1>9 DEF Counters

LEMMA KillCounts ==
  ASSUME Frame, Counters, NEW c \in Client, KillReceiver(c)
  PROVE  Counters'
<1>1. UNCHANGED cntVars /\ pc[Shell(c)] = "h_kill"
  BY DEF KillReceiver, Dequeue, At
<1>2. /\ pc'[Shell(c)] = "h_reap" /\ pc'[Recv(c)] = "r_exit" /\ pc'[Sys] = pc[Sys]
      /\ \A d \in Client \ {c} : pc'[Shell(d)] = pc[Shell(d)] /\ pc'[Recv(d)] = pc[Recv(d)]
  BY KillSteps DEF Frame
<1>3. Alike(pc[Shell(c)], pc'[Shell(c)])
  BY <1>1, <1>2, AlikeKinds DEF ShellPC
<1>4. Alike(pc[Recv(c)], pc'[Recv(c)])
  <2>1. pc[Recv(c)] \in RecvPC
    BY ProcFacts DEF Frame, BaseInv, Places
  <2>2. QED
    BY <1>2, <2>1 DEF RecvPC, Alike, Opens, Exits, Closing, SysPC, ShellPC
<1>5. \A p \in Proc : Alike(pc[p], pc'[p])
  BY <1>2, <1>3, <1>4, AlikeKinds, ProcFacts
<1>6. QED
  BY <1>1, <1>5, CountsSame

LEMMA RecvCounts ==
  ASSUME Frame, Counters, NEW c \in Client, RecvNext(c)
  PROVE  Counters'
<1>1. CASE \/ RecvLock(c) \/ RecvUnlock(c) \/ RecvWait(c) \/ RecvRead(c) \/ RecvLast(c)
           \/ RecvServe(c) \/ RecvPass(c)
  <2>1. UNCHANGED cntVars /\ Alike(pc[Recv(c)], pc'[Recv(c)])
    BY <1>1, RecvAlike DEF Frame
  <2>2. OnlyRecv(c)
    BY RecvSteps DEF Frame
  <2>3. \A p \in Proc : Alike(pc[p], pc'[p])
    BY <2>1, <2>2, AlikeKinds, ProcFacts DEF OnlyRecv
  <2>4. QED
    BY <2>1, <2>3, CountsSame
<1>2. CASE RecvOpen(c) \/ RecvSign(c)
  BY <1>2, RecvOpenCounts DEF Frame
<1>3. CASE RecvClose(c)
  BY <1>3, RecvCloseCounts DEF Frame
<1>4. CASE RecvFree(c)
  BY <1>4, RecvFreeCounts DEF Frame
<1>5. CASE RecvUndo(c)
  BY <1>5, UndoCounts, ProcFacts DEF RecvUndo, Exits
<1>6. QED
  BY <1>1, <1>2, <1>3, <1>4, <1>5 DEF RecvNext

LEMMA CountersInit == Init => Counters
<1> SUFFICES ASSUME Init PROVE Counters
  OBVIOUS
<1>1. CntTypes(Proc, Sem)
  BY BaseNat DEF Init, Zero, CntTypes
<1>2. \A p \in Proc : \A s \in Sem : undoCnt[p][s] = 0 /\ undoLock[p][s] = 0
  BY DEF Init, Zero
<1>3. Counted
  <2>1. ASSUME NEW s \in Sem PROVE cnt[s] = Base - Cardinality(Holders(s))
    <3>1. Holders(s) = {}
      BY <1>2 DEF Holders
    <3>2. Cardinality(Holders(s)) = 0
      BY <3>1, FS_EmptySet
    <3>3. QED
      BY <3>2, BaseNat DEF Init
  <2>2. QED
    BY <2>1 DEF Counted
<1>4. /\ pc[Sys] = "s_idle"
      /\ \A c \in Client : pc[Shell(c)] = "h_none" /\ pc[Recv(c)] = "r_none"
  BY ProcFacts DEF Init, Sys, Shell, Recv
<1>5. \A p \in Proc : Opens(pc[p]) = {} /\ pc[p] \notin Closing
  BY <1>4, ProcFacts DEF Opens, Closing, SysPC
<1>6. Opened
  BY <1>2, <1>5 DEF Opened
<1>7. Locked
  <2>1. "clienting" \in Sem /\ \A s \in Sem : lock[s] = 0
    BY DEF Init, Sem
  <2>2. QED
    BY <1>2, <1>5, <2>1 DEF Locked
<1>8. QED
  BY <1>1, <1>3, <1>6, <1>7 DEF Counters

LEMMA CountersNext == Frame /\ Counters /\ [Next]_vars => Counters'
<1> SUFFICES ASSUME Frame, Counters, [Next]_vars PROVE Counters'
  OBVIOUS
<1>1. CASE SysNext
  BY <1>1, SysCounts DEF Frame
<1>2. ASSUME NEW c \in Client, RecvNext(c) PROVE Counters'
  BY <1>2, RecvCounts
<1>3. ASSUME NEW c \in Client, Ordinary(c) PROVE Counters'
  <2>1. CASE ShellClose(c)
    BY <2>1, ShellCloseCounts DEF Frame
  <2>2. CASE ~ShellClose(c)
    <3>1. UNCHANGED cntVars /\ Alike(pc[Shell(c)], pc'[Shell(c)])
      BY <1>3, <2>2, ShellAlike DEF Frame
    <3>2. OnlyShell(c)
      BY <1>3, ShellSteps DEF Frame
    <3>3. \A p \in Proc : Alike(pc[p], pc'[p])
      BY <3>1, <3>2, AlikeKinds, ProcFacts DEF OnlyShell
    <3>4. QED
      BY <3>1, <3>3, CountsSame
  <2>3. QED
    BY <2>1, <2>2
<1>4. ASSUME NEW c \in Client, KillReceiver(c) PROVE Counters'
  BY <1>4, KillCounts
<1>5. ASSUME NEW c \in Client, ShellUndo(c) PROVE Counters'
  BY <1>5, UndoCounts, ProcFacts DEF ShellUndo, Exits
<1>6. ASSUME NEW c \in Client, Accept(c) PROVE Counters'
  BY <1>6, AcceptCounts
<1>7. ASSUME NEW c \in Client, JobEnds(c) PROVE Counters'
  <2>1. UNCHANGED cntVars /\ pc' = pc
    BY <1>7 DEF JobEnds, semVars, Dequeue
  <2>2. QED
    BY <2>1, CountsSame, AlikeKinds
<1>8. CASE UNCHANGED vars
  BY <1>8, CountsSame, AlikeKinds DEF vars, semVars
<1>9. QED
  BY <1>1, <1>2, <1>3, <1>4, <1>5, <1>6, <1>7, <1>8, StepCases

-----------------------------------------------------------------------------
(* What the counters come to once the kernel has cleaned up.               *)

LEMMA SameNumber ==
  ASSUME NEW C \in SUBSET Client
  PROVE  Cardinality({Recv(c) : c \in C}) = Cardinality(C)
<1> DEFINE T == {Recv(c) : c \in C}
           f == [c \in C |-> Recv(c)]
<1>1. IsFiniteSet(C)
  BY FS_Subset, BroadcastAssumption
<1>2. f \in Injection(C, T)
  BY ProcFacts DEF Injection, IsInjective
<1>3. f \in Surjection(C, T)
  BY DEF Surjection
<1>4. ExistsBijection(C, T)
  BY <1>2, <1>3 DEF ExistsBijection, Bijection
<1>5. QED
  BY <1>1, <1>4, FS_Bijection

LEMMA CountersTrack == Frame /\ Counters => CountersTrackProcesses
<1> SUFFICES ASSUME Frame, Counters,
                    \A c \in Client : pc[Recv(c)] = "r_exit" => Settled(Recv(c))
             PROVE  /\ cnt["clienting"] = Base - Cardinality(SignedUp)
                    /\ cnt["clisem"] = Base - Cardinality(Alive)
  BY DEF CountersTrackProcesses
<1>1. \A s \in {"clienting", "clisem"} : /\ s \in Sem \ ShellSem
                                         /\ cnt[s] = Base - Cardinality(Holders(s))
  BY DEF Sem, ShellSem, Counters, Counted
<1>2. \A c \in Client : pc[Recv(c)] = "r_exit" =>
        \A s \in Sem : undoCnt[Recv(c)][s] = 0
  BY DEF Settled, Owes, Frame, BaseInv, ValTypes
<1>3. ASSUME NEW p \in Proc, NEW s \in Sem \ ShellSem
      PROVE  undoCnt[p][s] = 1 <=>
               \E c \in Client : /\ p = Recv(c) /\ pc[Recv(c)] # "r_exit"
                                 /\ s \in Opens(pc[Recv(c)])
  <2>1. \A c \in Client : pc[Shell(c)] \in ShellPC /\ pc[Recv(c)] \in RecvPC
    BY ProcFacts DEF Frame, BaseInv, Places
  <2>2. pc[Sys] \in SysPC
    BY ProcFacts DEF Frame, BaseInv, Places
  <2>3. \A c \in Client : s \notin Opens(pc[Shell(c)])
    BY <2>1 DEF Opens, SysPC, ShellPC
  <2>4. s \notin Opens(pc[Sys])
    BY <2>2 DEF Opens
  <2>5. \A c \in Client : pc[Recv(c)] # "r_exit" => pc[Recv(c)] \notin Exits
    BY <2>1 DEF RecvPC, Exits
  <2>6. undoCnt[p][s] = 1 => \E c \in Client : /\ p = Recv(c) /\ pc[Recv(c)] # "r_exit"
                                               /\ s \in Opens(pc[Recv(c)])
    BY <1>2, <2>3, <2>4, ProcFacts DEF Counters, Opened
  <2>7. QED
    BY <2>5, <2>6 DEF Counters, Opened
<1>4. \A c \in Client :
        /\ c \in SignedUp <=> pc[Recv(c)] # "r_exit" /\ "clienting" \in Opens(pc[Recv(c)])
        /\ c \in Alive <=> pc[Recv(c)] # "r_exit" /\ "clisem" \in Opens(pc[Recv(c)])
  <2>1. \A l \in RecvPC :
          /\ l \in {"r_unlock", "r_wait", "r_read", "r_close"} <=>
               l # "r_exit" /\ "clienting" \in Opens(l)
          /\ l \notin {"r_none", "r_open", "r_exit"} <=> l # "r_exit" /\ "clisem" \in Opens(l)
    BY DEF RecvPC, Opens, SysPC, ShellPC
  <2>2. \A c \in Client : pc[Recv(c)] \in RecvPC
    BY ProcFacts DEF Frame, BaseInv, Places
  <2>3. QED
    BY <2>1, <2>2 DEF SignedUp, Alive
<1>5. Holders("clienting") = {Recv(c) : c \in SignedUp}
  BY <1>1, <1>3, <1>4, ProcFacts DEF Holders, SignedUp
<1>6. Holders("clisem") = {Recv(c) : c \in Alive}
  BY <1>1, <1>3, <1>4, ProcFacts DEF Holders, Alive
<1>7. SignedUp \subseteq Client /\ Alive \subseteq Client
  BY DEF SignedUp, Alive
<1>8. QED
  BY <1>1, <1>5, <1>6, <1>7, SameNumber

-----------------------------------------------------------------------------
(* Types.                                                                  *)

Data ==
  /\ shm \in Msg \union {NoMsg} /\ req \in Msg \union {NoMsg}
  /\ seen \in Nat
  /\ cmds \in [Client -> Nat] /\ jobs \in [Client -> Nat]
  /\ audience \subseteq Client /\ heard \subseteq Client
  /\ disturbed \in BOOLEAN /\ moved \in BOOLEAN
  /\ mishaps \subseteq Mishap

LEMMA DataNext == Frame /\ Counters /\ Data /\ [Next]_vars => Data'
<1> SUFFICES ASSUME Frame, Counters, Data, [Next]_vars PROVE Data'
  OBVIOUS
<1>1. CASE SysNext
  <2>1. CASE SysRead
    BY <2>1 DEF Data, SysRead, shellVars, history
  <2>2. CASE SysWrite
    <3>1. req.kind = "request" => [req EXCEPT !.kind = "reply"] \in Msg
      BY DEF Data, Msg, NoMsg
    <3>2. QED
      BY <2>2, <3>1 DEF Data, SysWrite, shellVars, history
  <2>3. CASE SysCount
    BY <2>3 DEF Data, SysCount, shellVars, SignedUp, Dying
  <2>4. CASE SysSync
    BY <2>4 DEF Data, SysSync, shellVars, Dying, Counters, CntTypes, Sem
  <2>5. CASE \/ SysAwaitCall \/ SysPoll \/ SysDrain \/ SysLock \/ SysStart \/ SysServing
             \/ SysTake \/ SysUnlock \/ SysCompare \/ SysReply
    BY <2>5 DEF Data, shellVars, history, SysAwaitCall, SysPoll, SysDrain, SysLock, SysStart,
      SysServing, SysTake, SysUnlock, SysCompare, SysReply, Wait, Signal
  <2>6. QED
    BY <1>1, <2>1, <2>2, <2>3, <2>4, <2>5 DEF SysNext
<1>2. ASSUME NEW c \in Client, RecvNext(c) PROVE Data'
  BY <1>2 DEF Data, RecvNext, shellVars, history, RecvOpen, RecvLock, RecvSign, RecvUnlock,
    RecvWait, RecvRead, RecvClose, RecvLast, RecvServe, RecvFree, RecvPass, RecvUndo, Wait,
    Signal
<1>3. ASSUME NEW c \in Client, Ordinary(c) PROVE Data'
  <2>1. CASE ShellWrite(c)
    <3>1. Request(c) \in Msg
      BY DEF Request, Msg, Data, Frame, Ops
    <3>2. QED
      BY <2>1, <3>1 DEF Data, ShellWrite, shellVars, history
  <2>2. CASE RunRequest(c) \/ RunJob(c)
    BY <2>2 DEF Data, RunRequest, RunJob, history
  <2>3. CASE ShellDrain(c)
    BY <2>3 DEF Data, ShellDrain, shellVars, Mishap
  <2>4. CASE ShellLook(c)
    BY <2>4 DEF Data, ShellLook, history
  <2>5. CASE \/ ShellPoll(c) \/ ShellLock(c) \/ ShellRing(c) \/ ShellWait(c)
             \/ ShellUnlock(c) \/ ReapReceiver(c) \/ ShellClose(c) \/ ReadLine(c) \/ Leave(c)
    BY <2>5 DEF Data, shellVars, history, ShellPoll, ShellLock, ShellRing, ShellWait,
      ShellUnlock, ReapReceiver, ShellClose, ReadLine, Leave, Wait, Signal
  <2>6. QED
    BY <1>3, <2>1, <2>2, <2>3, <2>4, <2>5 DEF Ordinary
<1>4. ASSUME NEW c \in Client, KillReceiver(c) PROVE Data'
  BY <1>4 DEF Data, KillReceiver, shellVars
<1>5. ASSUME NEW c \in Client, ShellUndo(c) PROVE Data'
  BY <1>5 DEF Data, ShellUndo, shellVars, Mishap
<1>6. ASSUME NEW c \in Client, Accept(c) PROVE Data'
  BY <1>6 DEF Data, Accept, shellVars, history
<1>7. ASSUME NEW c \in Client, JobEnds(c) PROVE Data'
  <2>1. jobs' \in [Client -> Nat]
    BY <1>7 DEF Data, JobEnds
  <2>2. QED
    BY <1>7, <2>1 DEF Data, JobEnds, Mishap
<1>8. CASE UNCHANGED vars
  BY <1>8 DEF Data, vars, shellVars, history
<1>9. QED
  BY <1>1, <1>2, <1>3, <1>4, <1>5, <1>6, <1>7, <1>8, StepCases

LEMMA DataInit == Init => Data
<1> SUFFICES ASSUME Init PROVE Data
  OBVIOUS
<1>1. /\ shm = NoMsg /\ req = NoMsg /\ seen = 0
      /\ cmds = [c \in Client |-> 0] /\ jobs = [c \in Client |-> 0]
      /\ audience = {} /\ heard = {} /\ mishaps = {}
  BY DEF Init
<1>2. disturbed = FALSE /\ moved = FALSE
  BY DEF Init
<1>3. QED
  BY <1>1, <1>2 DEF Data

LEMMA TypesHold == Frame /\ Baton /\ Counters /\ Data => TypeOK
BY DEF Frame, BaseInv, ValTypes, Places, Ops, Baton, Counters, CntTypes, Data, TypeOK

-----------------------------------------------------------------------------
(* Receivers keep off the shells' three sets, and shells off the           *)
(* receivers', so what one of them leaves undone when it ends never        *)
(* concerns the other side.                                                *)

Apart ==
  \A c \in Client :
    /\ \A s \in ShellSem : undoVal[Recv(c)][s] = 0
    /\ \A s \in Sem \ ShellSem : undoVal[Shell(c)][s] = 0

(* What a step of p does to semaphore [0] of the sets, if anything.        *)
Still == \A t \in Sem : Same(Proc, t)

Works(p, s) ==
  /\ \A t \in Sem \ {s} : Same(Proc, t)
  /\ \/ Takes(Proc, p, s) \/ Sleeps(Proc, p, s) \/ Leaves(Proc, p, s)
     \/ \E q \in asleep[s] : Hands(Proc, p, q, s)

(* Who sleeps on which sets.                                               *)
LEMMA SleeperKinds ==
  ASSUME BaseInv, NEW s \in Sem, NEW q \in asleep[s], NEW c \in Client
  PROVE  /\ q \in Proc /\ pc[q] \in Bed(s)
         /\ q = Recv(c) => s \notin ShellSem
         /\ q = Shell(c) => s \in ShellSem
<1>1. q \in Proc /\ pc[q] \in Bed(s)
  BY DEF BaseInv, ValTypes, Sleepers
<1>2. pc[Recv(c)] \in RecvPC /\ pc[Shell(c)] \in ShellPC
  BY ProcFacts DEF BaseInv, Places
<1>3. s \in ShellSem => Bed(s) \intersect RecvPC = {}
  BY DEF ShellSem, Bed, RecvPC
<1>4. s \notin ShellSem => Bed(s) \intersect ShellPC = {}
  BY DEF Sem, ShellSem, Bed, ShellPC
<1>5. QED
  BY <1>1, <1>2, <1>3, <1>4

LEMMA WorksApart ==
  ASSUME BaseInv, Apart, NEW p \in Proc, NEW s \in Sem, Works(p, s),
         \A c \in Client : /\ p = Recv(c) => s \notin ShellSem
                           /\ p = Shell(c) => s \in ShellSem
  PROVE  Apart'
<1> SUFFICES ASSUME NEW c \in Client
             PROVE  /\ \A t \in ShellSem : undoVal'[Recv(c)][t] = 0
                    /\ \A t \in Sem \ ShellSem : undoVal'[Shell(c)][t] = 0
  BY DEF Apart
<1>1. /\ Recv(c) \in Proc /\ Shell(c) \in Proc /\ ShellSem \subseteq Sem
      /\ \A t \in ShellSem : undoVal[Recv(c)][t] = 0
      /\ \A t \in Sem \ ShellSem : undoVal[Shell(c)][t] = 0
  BY ProcFacts DEF Apart, Sem
<1>2. \A t \in Sem \ {s} : /\ undoVal'[Recv(c)][t] = undoVal[Recv(c)][t]
                           /\ undoVal'[Shell(c)][t] = undoVal[Shell(c)][t]
  BY <1>1 DEF Works, Same
<1>3. s \in ShellSem => undoVal'[Recv(c)][s] = undoVal[Recv(c)][s]
  BY <1>1, SleeperKinds DEF Works, Takes, Sleeps, Leaves, Hands
<1>4. s \notin ShellSem => undoVal'[Shell(c)][s] = undoVal[Shell(c)][s]
  BY <1>1, SleeperKinds DEF Works, Takes, Sleeps, Leaves, Hands
<1>5. QED
  BY <1>1, <1>2, <1>3, <1>4

LEMMA SysWorks ==
  ASSUME BaseInv, SysNext
  PROVE  Still \/ \E s \in Sem : Works(Sys, s)
<1>1. CASE SysPoll \/ SysRead \/ SysWrite \/ SysCount \/ SysSync \/ SysCompare
  BY <1>1, NoEffect DEF SysPoll, SysRead, SysWrite, SysCount, SysSync, SysCompare, semVars,
    BaseInv, Still
<1>2. CASE SysAwaitCall
  BY <1>2, SysWaits DEF SysAwaitCall, Sem, ShellSem, Bed, SysPC, Works
<1>3. CASE SysDrain
  BY <1>3, SysWaits DEF SysDrain, Sem, ShellSem, Bed, SysPC, Works
<1>4. CASE SysLock
  BY <1>4, SysWaits DEF SysLock, Sem, Bed, SysPC, Works
<1>5. CASE SysServing
  BY <1>5, SysWaits DEF SysServing, Sem, Bed, SysPC, Works
<1>6. CASE SysTake
  BY <1>6, SysWaits DEF SysTake, Sem, Bed, SysPC, Works
<1>7. CASE SysStart
  BY <1>7, SysSignals DEF SysStart, Sem, SysPC, Works
<1>8. CASE SysUnlock
  BY <1>8, SysSignals DEF SysUnlock, Sem, SysPC, Works
<1>9. CASE SysReply
  BY <1>9, SysSignals DEF SysReply, Sem, ShellSem, SysPC, Works
<1>10. QED
  BY <1>1, <1>2, <1>3, <1>4, <1>5, <1>6, <1>7, <1>8, <1>9 DEF SysNext

LEMMA RecvWorks ==
  ASSUME BaseInv, NEW c \in Client, RecvNext(c), ~RecvUndo(c)
  PROVE  Still \/ \E s \in Sem \ ShellSem : Works(Recv(c), s)
<1>1. CASE \/ RecvOpen(c) \/ RecvSign(c) \/ RecvRead(c)
           \/ RecvClose(c) \/ RecvLast(c) \/ RecvFree(c)
  BY <1>1, NoEffect DEF RecvOpen, RecvSign, RecvRead, RecvClose, RecvLast, RecvFree, semVars,
    sem_open, op_close, op_unlock, BaseInv, Still
<1>2. CASE RecvLock(c)
  BY <1>2, RecvWaits DEF RecvLock, Sem, ShellSem, Bed, RecvPC, Works
<1>3. CASE RecvWait(c)
  BY <1>3, RecvWaits DEF RecvWait, Sem, ShellSem, Bed, RecvPC, Works
<1>4. CASE RecvUnlock(c)
  BY <1>4, RecvSignals DEF RecvUnlock, Sem, ShellSem, RecvPC, Works
<1>5. CASE RecvServe(c)
  BY <1>5, RecvSignals DEF RecvServe, Sem, ShellSem, RecvPC, Works
<1>6. CASE RecvPass(c)
  BY <1>6, RecvSignals DEF RecvPass, Sem, ShellSem, RecvPC, Works
<1>7. QED
  BY <1>1, <1>2, <1>3, <1>4, <1>5, <1>6 DEF RecvNext

LEMMA ShellWorks ==
  ASSUME BaseInv, Ops, NEW c \in Client, Ordinary(c)
  PROVE  Still \/ \E s \in ShellSem : Works(Shell(c), s)
<1>1. CASE \/ ShellPoll(c) \/ ShellWrite(c) \/ ShellLook(c) \/ ReapReceiver(c) \/ ShellClose(c)
           \/ ReadLine(c) \/ Leave(c) \/ RunRequest(c) \/ RunJob(c)
  BY <1>1, NoEffect DEF ShellPoll, ShellWrite, ShellLook, ReapReceiver, ShellClose, ReadLine,
    Leave, RunRequest, RunJob, semVars, sem_close, BaseInv, Still
<1>2. CASE ShellDrain(c)
  BY <1>2, ShellWaits DEF ShellDrain, Sem, ShellSem, Bed, ShellPC, Works
<1>3. CASE ShellLock(c)
  BY <1>3, ShellWaits DEF ShellLock, Wait, history, Sem, ShellSem, Bed, ShellPC, Works
<1>4. CASE ShellWait(c)
  BY <1>4, ShellWaits DEF ShellWait, Wait, history, Sem, ShellSem, Bed, ShellPC, Works
<1>5. CASE ShellRing(c)
  BY <1>5, ShellSignals DEF ShellRing, Signal, history, Sem, ShellSem, ShellPC, Works
<1>6. CASE ShellUnlock(c)
  <2>1. AfterRequest(c) \in ShellPC
    BY DEF Ops, Op, AfterRequest, ShellPC
  <2>2. QED
    BY <1>6, <2>1, ShellSignals DEF ShellUnlock, history, Sem, ShellSem, Works
<1>7. QED
  BY <1>1, <1>2, <1>3, <1>4, <1>5, <1>6 DEF Ordinary

(* The end of a process leaves alone the sets it owes nothing.             *)
LEMMA UndoApart ==
  ASSUME BaseInv, Apart, NEW c \in Client, RecvUndo(c) \/ ShellUndo(c)
  PROVE  /\ Apart'
         /\ RecvUndo(c) => \A t \in ShellSem : Same(Proc, t)
         /\ ShellUndo(c) => \A t \in Sem \ ShellSem : Same(Proc, t)
<1>1. ASSUME RecvUndo(c) PROVE Apart' /\ \A t \in ShellSem : Same(Proc, t)
  <2>1. PICK s \in Sem : Undo(Recv(c), s) /\ pc[Recv(c)] = "r_exit" /\ UNCHANGED pc
    BY <1>1 DEF RecvUndo
  <2>2. \A t \in Sem \ {s} : Same(Proc, t)
    BY <2>1, UndoBase, ProcFacts
  <2>3. s \in ShellSem => Same(Proc, s)
    BY <2>1, UndoBase, ProcFacts DEF Apart
  <2>4. QED
    <3>1. \A t \in ShellSem : t \in Sem /\ Same(Proc, t)
      BY <2>2, <2>3 DEF Sem
    <3>2. ASSUME NEW d \in Client, NEW t \in ShellSem PROVE undoVal'[Recv(d)][t] = 0
      BY <3>1, ProcFacts DEF Same, Apart
    <3>3. ASSUME NEW d \in Client, NEW t \in Sem \ ShellSem PROVE undoVal'[Shell(d)][t] = 0
      <4>1. undoVal[Shell(d)][t] = 0 /\ Shell(d) \in Proc /\ Shell(d) # Recv(c)
        BY ProcFacts DEF Apart
      <4>2. CASE t # s
        BY <2>2, <4>1, <4>2 DEF Same
      <4>3. CASE t = s
        <5>1. Shell(d) \notin asleep[s]
          BY <4>3, SleeperKinds
        <5>2. undoVal'[Shell(d)] = undoVal[Shell(d)]
          BY <2>1, <4>1, <5>1 DEF Undo, BaseInv, ValTypes
        <5>3. QED
          BY <4>1, <5>2
      <4>4. QED
        BY <4>2, <4>3
    <3>4. QED
      BY <3>1, <3>2, <3>3 DEF Apart
<1>2. ASSUME ShellUndo(c) PROVE Apart' /\ \A t \in Sem \ ShellSem : Same(Proc, t)
  <2>1. PICK s \in Sem : Undo(Shell(c), s) /\ pc[Shell(c)] = "h_exit" /\ UNCHANGED pc
    BY <1>2 DEF ShellUndo
  <2>2. \A t \in Sem \ {s} : Same(Proc, t)
    BY <2>1, UndoBase, ProcFacts
  <2>3. s \notin ShellSem => Same(Proc, s)
    BY <2>1, UndoBase, ProcFacts DEF Apart
  <2>4. QED
    <3>1. \A t \in Sem \ ShellSem : Same(Proc, t)
      BY <2>2, <2>3
    <3>2. ASSUME NEW d \in Client, NEW t \in Sem \ ShellSem PROVE undoVal'[Shell(d)][t] = 0
      BY <3>1, ProcFacts DEF Same, Apart
    <3>3. ASSUME NEW d \in Client, NEW t \in ShellSem PROVE undoVal'[Recv(d)][t] = 0
      <4>1. /\ undoVal[Recv(d)][t] = 0 /\ Recv(d) \in Proc /\ Recv(d) # Shell(c)
            /\ t \in Sem
        BY ProcFacts DEF Apart, Sem
      <4>2. CASE t # s
        BY <2>2, <4>1, <4>2 DEF Same
      <4>3. CASE t = s
        <5>1. Recv(d) \notin asleep[s]
          BY <4>3, SleeperKinds
        <5>2. undoVal'[Recv(d)] = undoVal[Recv(d)]
          BY <2>1, <4>1, <5>1 DEF Undo, BaseInv, ValTypes
        <5>3. QED
          BY <4>1, <5>2
      <4>4. QED
        BY <4>2, <4>3
    <3>4. QED
      BY <3>1, <3>2, <3>3 DEF Apart
<1>3. QED
  BY <1>1, <1>2

LEMMA StillApart ==
  ASSUME Apart, \A p \in Proc : \A t \in Sem : undoVal'[p][t] = undoVal[p][t]
  PROVE  Apart'
BY ProcFacts DEF Apart, Sem

LEMMA ApartNext == Frame /\ Apart /\ [Next]_vars => Apart'
<1> SUFFICES ASSUME Frame, Apart, [Next]_vars PROVE Apart'
  OBVIOUS
<1>a. Still => Apart'
  BY StillApart DEF Still, Same
<1>1. CASE SysNext
  BY <1>1, <1>a, SysWorks, WorksApart, ProcFacts DEF Frame
<1>2. ASSUME NEW c \in Client, RecvNext(c) PROVE Apart'
  <2>1. CASE RecvUndo(c)
    BY <2>1, UndoApart DEF Frame
  <2>2. ASSUME NEW s \in Sem \ ShellSem, Works(Recv(c), s) PROVE Apart'
    BY <2>2, WorksApart, ProcFacts DEF Frame
  <2>3. QED
    BY <1>2, <1>a, <2>1, <2>2, RecvWorks DEF Frame
<1>3. ASSUME NEW c \in Client, Ordinary(c) PROVE Apart'
  <2>1. ASSUME NEW s \in ShellSem, Works(Shell(c), s) PROVE Apart'
    BY <2>1, WorksApart, ProcFacts DEF Frame, Sem
  <2>2. QED
    BY <1>3, <1>a, <2>1, ShellWorks DEF Frame
<1>4. ASSUME NEW c \in Client, KillReceiver(c) PROVE Apart'
  BY <1>4, KillSteps, StillApart DEF Frame
<1>5. ASSUME NEW c \in Client, ShellUndo(c) PROVE Apart'
  BY <1>5, UndoApart DEF Frame
<1>6. ASSUME NEW c \in Client, Accept(c) PROVE Apart'
  <2>1. UNCHANGED undoVal
    BY <1>6 DEF Accept, sem_open, valVars
  <2>2. QED
    BY <2>1, StillApart
<1>7. ASSUME NEW c \in Client, JobEnds(c) PROVE Apart'
  <2>1. UNCHANGED undoVal
    BY <1>7 DEF JobEnds, Dequeue, semVars, valVars
  <2>2. QED
    BY <2>1, StillApart
<1>8. CASE UNCHANGED vars
  BY <1>8, StillApart DEF vars, semVars, valVars
<1>9. QED
  BY <1>1, <1>2, <1>3, <1>4, <1>5, <1>6, <1>7, <1>8, StepCases

LEMMA ApartInit == Init => Apart
BY ProcFacts DEF Init, Zero, Apart, Sem

-----------------------------------------------------------------------------
(* Semaphore clisem: its token is on the semaphore or with one process,    *)
(* the system process while it announces or a receiver that signs up.      *)

GuardPC == {"s_count", "s_start", "s_serving", "s_take", "s_unlock", "r_sign", "r_unlock"}

Holding(p) ==
  \/ pc[p] \in GuardPC /\ p \notin asleep["clisem"]
  \/ pc[p] = "r_exit" /\ undoVal[p]["clisem"] = 1

Guarded ==
  /\ val["clisem"] \in 0..1
  /\ val["clisem"] = 1 => \A p \in Proc : ~Holding(p)
  /\ \A p, q \in Proc : Holding(p) /\ Holding(q) => p = q
  /\ \A p \in Proc : undoVal[p]["clisem"] = IF Holding(p) THEN 1 ELSE 0

LEMMA GuardSame ==
  ASSUME Guarded, Same(Proc, "clisem"),
         \A p \in Proc : /\ pc'[p] \in GuardPC <=> pc[p] \in GuardPC
                         /\ pc'[p] = "r_exit" <=> pc[p] = "r_exit"
  PROVE  Guarded'
<1>1. \A p \in Proc : Holding(p)' <=> Holding(p)
  BY DEF Holding, Same
<1>2. QED
  BY <1>1 DEF Guarded, Same

LEMMA GuardTake ==
  ASSUME BaseInv, Guarded, NEW p \in Proc, Awake(p),
         Takes(Proc, p, "clisem") \/ Sleeps(Proc, p, "clisem"),
         pc[p] \notin GuardPC \union {"r_exit"}, pc'[p] \in GuardPC,
         \A q \in Proc \ {p} : pc'[q] = pc[q]
  PROVE  Guarded'
<1> DEFINE s == "clisem"
<1>1. ~Holding(p) /\ undoVal[p][s] = 0 /\ p \notin asleep[s]
  BY DEF Holding, Guarded, Awake, BaseInv, ValTypes, Sem
<1>2. ASSUME NEW q \in Proc \ {p} PROVE Holding(q)' <=> Holding(q)
  <2>1. /\ pc'[q] = pc[q] /\ undoVal'[q][s] = undoVal[q][s]
        /\ (q \in asleep'[s]) <=> (q \in asleep[s])
    BY DEF Takes, Sleeps
  <2>2. QED
    BY <2>1 DEF Holding
<1>3. CASE Takes(Proc, p, s)
  <2>1. val[s] = 1 /\ val'[s] = 0 /\ \A q \in Proc : ~Holding(q)
    BY <1>3 DEF Takes, Guarded
  <2>2. \A q \in Proc : Holding(q)' <=> q = p
    BY <1>1, <1>2, <1>3, <2>1 DEF Holding, Takes
  <2>3. \A q \in Proc : undoVal'[q][s] = IF q = p THEN 1 ELSE 0
    BY <1>1, <1>3, <2>1 DEF Takes, Guarded
  <2>4. QED
    BY <2>1, <2>2, <2>3 DEF Guarded
<1>4. CASE Sleeps(Proc, p, s)
  <2>1. "r_exit" \notin GuardPC
    BY DEF GuardPC
  <2>2. ~Holding(p)'
    BY <1>4, <2>1 DEF Holding, Sleeps
  <2>3. \A q \in Proc : Holding(q)' <=> Holding(q)
    BY <1>1, <1>2, <2>2
  <2>4. QED
    BY <1>4, <2>3 DEF Guarded, Sleeps
<1>5. QED
  BY <1>3, <1>4

(* p lets the token go: onto the semaphore or to somebody who sleeps.      *)
LEMMA GuardLetGo ==
  ASSUME BaseInv, Guarded, NEW p \in Proc, Holding(p), ~Holding(p)',
         \A q \in Proc \ {p} : pc'[q] = pc[q],
         undoVal'[p]["clisem"] = 0, p \notin asleep["clisem"],
         \/ /\ val'["clisem"] = 1 /\ asleep["clisem"] = {} /\ asleep'["clisem"] = {}
            /\ \A q \in Proc \ {p} : undoVal'[q]["clisem"] = undoVal[q]["clisem"]
         \/ /\ val'["clisem"] = 0
            /\ \E q \in asleep["clisem"] :
                 /\ asleep'["clisem"] = asleep["clisem"] \ {q}
                 /\ undoVal'[q]["clisem"] = undoVal[q]["clisem"] + 1
                 /\ \A r \in Proc \ {p, q} : undoVal'[r]["clisem"] = undoVal[r]["clisem"]
  PROVE  Guarded'
<1> DEFINE s == "clisem"
<1>1. \A q \in Proc \ {p} : ~Holding(q) /\ undoVal[q][s] = 0
  BY DEF Guarded
<1>2. CASE /\ val'[s] = 1 /\ asleep[s] = {} /\ asleep'[s] = {}
           /\ \A q \in Proc \ {p} : undoVal'[q][s] = undoVal[q][s]
  <2>1. \A q \in Proc : ~Holding(q)' /\ undoVal'[q][s] = 0
    BY <1>1, <1>2 DEF Holding
  <2>2. QED
    BY <1>2, <2>1 DEF Guarded
<1>3. ASSUME val'[s] = 0, NEW q \in asleep[s],
             asleep'[s] = asleep[s] \ {q},
             undoVal'[q][s] = undoVal[q][s] + 1,
             \A r \in Proc \ {p, q} : undoVal'[r][s] = undoVal[r][s]
      PROVE  Guarded'
  <2>1. q \in Proc /\ q # p /\ pc[q] \in GuardPC
    BY <1>3 DEF BaseInv, ValTypes, Sleepers, Bed, GuardPC, Sem, ShellSem
  <2>2. \A r \in Proc : undoVal'[r][s] = IF r = q THEN 1 ELSE 0
    BY <1>1, <1>3, <2>1
  <2>3. ASSUME NEW r \in Proc PROVE Holding(r)' <=> r = q
    <3>1. CASE r = q
      BY <1>3, <2>1, <3>1 DEF Holding
    <3>2. CASE r = p
      BY <2>1, <3>2
    <3>3. CASE r # q /\ r # p
      BY <1>1, <1>3, <2>2, <3>3 DEF Holding
    <3>4. QED
      BY <3>1, <3>2, <3>3
  <2>4. QED
    BY <1>3, <2>2, <2>3 DEF Guarded
<1>4. QED
  BY <1>2, <1>3

LEMMA GuardSignal ==
  ASSUME BaseInv, Guarded, NEW p \in Proc, Awake(p),
         Leaves(Proc, p, "clisem") \/ \E q \in asleep["clisem"] : Hands(Proc, p, q, "clisem"),
         pc[p] \in GuardPC, pc'[p] \notin GuardPC \union {"r_exit"},
         \A q \in Proc \ {p} : pc'[q] = pc[q]
  PROVE  Guarded'
<1> DEFINE s == "clisem"
<1>1. p \notin asleep[s] /\ Holding(p) /\ ~Holding(p)'
  BY DEF Holding, Awake, BaseInv, ValTypes, Sem
<1>2. val[s] = 0 /\ undoVal[p][s] = 1
  BY <1>1 DEF Guarded
<1>3. undoVal'[p][s] = 0
  BY <1>1, <1>2 DEF Leaves, Hands
<1>4. CASE Leaves(Proc, p, s)
  BY <1>1, <1>2, <1>3, <1>4, GuardLetGo DEF Leaves
<1>5. CASE \E q \in asleep[s] : Hands(Proc, p, q, s)
  BY <1>1, <1>2, <1>3, <1>5, GuardLetGo DEF Hands
<1>6. QED
  BY <1>4, <1>5

LEMMA GuardSys == BaseInv /\ Guarded /\ SysNext => Guarded'
<1> SUFFICES ASSUME BaseInv, Guarded, SysNext PROVE Guarded'
  OBVIOUS
<1>a. /\ Sys \in Proc /\ \A q \in Proc \ {Sys} : pc'[q] = pc[q]
      /\ pc'[Sys] \in SysPC /\ pc[Sys] \in SysPC
  BY SysSteps, ProcFacts DEF OnlySys, BaseInv, Places
<1>b. \A p \in Proc : p \in asleep["clisem"] => ~Awake(p)
  BY DEF Awake, BaseInv, ValTypes, Sem
<1>c. ASSUME Same(Proc, "clisem"), pc'[Sys] \in GuardPC <=> pc[Sys] \in GuardPC
      PROVE  Guarded'
  <2>1. \A p \in Proc : /\ pc'[p] \in GuardPC <=> pc[p] \in GuardPC
                        /\ pc'[p] = "r_exit" <=> pc[p] = "r_exit"
    BY <1>a, <1>c DEF SysPC
  <2>2. QED
    BY <1>c, <2>1, GuardSame
<1>1. CASE SysAwaitCall
  BY <1>1, <1>c, SysWaits DEF SysAwaitCall, Sem, ShellSem, Bed, SysPC, GuardPC
<1>2. CASE SysPoll
  BY <1>2, <1>c, SysMoves DEF SysPoll, history, Sem, SysPC, GuardPC
<1>3. CASE SysDrain
  BY <1>3, <1>c, SysWaits DEF SysDrain, Sem, ShellSem, Bed, SysPC, GuardPC
<1>4. CASE SysRead
  BY <1>4, <1>c, SysMoves DEF SysRead, history, Sem, SysPC, GuardPC
<1>5. CASE SysWrite
  BY <1>5, <1>c, SysMoves DEF SysWrite, history, Sem, SysPC, GuardPC
<1>6. CASE SysLock
  <2>1. /\ Takes(Proc, Sys, "clisem") \/ Sleeps(Proc, Sys, "clisem")
        /\ pc[Sys] = "s_lock" /\ pc'[Sys] = "s_count" /\ Awake(Sys)
    BY <1>6, SysWaits DEF SysLock, Sem, Bed, SysPC
  <2>2. pc[Sys] \notin GuardPC \union {"r_exit"} /\ pc'[Sys] \in GuardPC
    BY <2>1 DEF GuardPC
  <2>3. QED
    BY <1>a, <2>1, <2>2, GuardTake
<1>7. CASE SysCount
  BY <1>7, <1>c, SysMoves DEF SysCount, history, Sem, SysPC, GuardPC
<1>8. CASE SysStart
  BY <1>8, <1>c, SysSignals DEF SysStart, Sem, SysPC, GuardPC
<1>9. CASE SysServing
  BY <1>9, <1>c, SysWaits DEF SysServing, Sem, Bed, SysPC, GuardPC
<1>10. CASE SysTake
  BY <1>10, <1>c, SysWaits DEF SysTake, Sem, Bed, SysPC, GuardPC
<1>11. CASE SysUnlock
  <2>1. /\ \/ Leaves(Proc, Sys, "clisem")
           \/ \E q \in asleep["clisem"] : Hands(Proc, Sys, q, "clisem")
        /\ pc[Sys] = "s_unlock" /\ pc'[Sys] = "s_sync" /\ Awake(Sys)
    BY <1>11, SysSignals DEF SysUnlock, Sem, SysPC
  <2>2. pc[Sys] \in GuardPC /\ pc'[Sys] \notin GuardPC \union {"r_exit"}
    BY <2>1 DEF GuardPC
  <2>3. QED
    BY <1>a, <2>1, <2>2, GuardSignal
<1>12. CASE SysSync
  BY <1>12, <1>c, SysMoves DEF SysSync, history, Sem, SysPC, GuardPC
<1>13. CASE SysCompare
  BY <1>13, <1>c, SysMoves DEF SysCompare, history, Sem, SysPC, GuardPC
<1>14. CASE SysReply
  BY <1>14, <1>c, SysSignals DEF SysReply, Sem, ShellSem, SysPC, GuardPC
<1>15. QED
  BY <1>1, <1>2, <1>3, <1>4, <1>5, <1>6, <1>7, <1>8, <1>9, <1>10, <1>11, <1>12, <1>13, <1>14
  DEF SysNext

LEMMA GuardRecv ==
  ASSUME BaseInv, Guarded, NEW c \in Client, RecvNext(c)
  PROVE  Guarded'
<1> DEFINE r == Recv(c)
<1>a. r \in Proc /\ \A q \in Proc \ {r} : pc'[q] = pc[q]
  BY RecvSteps, ProcFacts DEF OnlyRecv
<1>c. ASSUME Same(Proc, "clisem"), pc'[r] \in GuardPC <=> pc[r] \in GuardPC,
             pc[r] # "r_exit", pc'[r] # "r_exit"
      PROVE  Guarded'
  <2>1. \A p \in Proc : /\ pc'[p] \in GuardPC <=> pc[p] \in GuardPC
                        /\ pc'[p] = "r_exit" <=> pc[p] = "r_exit"
    BY <1>a, <1>c
  <2>2. QED
    BY <1>c, <2>1, GuardSame
<1>1. CASE RecvOpen(c)
  BY <1>1, <1>c, RecvMoves DEF RecvOpen, sem_open, history, Sem, RecvPC, GuardPC
<1>2. CASE RecvLock(c)
  <2>1. /\ Takes(Proc, r, "clisem") \/ Sleeps(Proc, r, "clisem")
        /\ pc[r] = "r_lock" /\ pc'[r] = "r_sign" /\ Awake(r)
    <3>1. "clisem" \in Sem /\ "r_sign" \in RecvPC \intersect Bed("clisem")
      BY DEF Sem, Bed, RecvPC
    <3>2. QED
      BY <1>2, <3>1, RecvWaits DEF RecvLock
  <2>2. pc[r] \notin GuardPC \union {"r_exit"} /\ pc'[r] \in GuardPC
    BY <2>1 DEF GuardPC
  <2>3. QED
    BY <1>a, <2>1, <2>2, GuardTake
<1>3. CASE RecvSign(c)
  BY <1>3, <1>c, RecvMoves DEF RecvSign, sem_open, history, Sem, RecvPC, GuardPC
<1>4. CASE RecvUnlock(c)
  <2>1. /\ \/ Leaves(Proc, r, "clisem")
           \/ \E q \in asleep["clisem"] : Hands(Proc, r, q, "clisem")
        /\ pc[r] = "r_unlock" /\ pc'[r] = "r_wait" /\ Awake(r)
    BY <1>4, RecvSignals DEF RecvUnlock, Sem, RecvPC
  <2>2. pc[r] \in GuardPC /\ pc'[r] \notin GuardPC \union {"r_exit"}
    BY <2>1 DEF GuardPC
  <2>3. QED
    BY <1>a, <2>1, <2>2, GuardSignal
<1>5. CASE RecvWait(c)
  BY <1>5, <1>c, RecvWaits DEF RecvWait, Sem, RecvPC, GuardPC, Bed
<1>6. CASE RecvRead(c)
  BY <1>6, <1>c, RecvMoves DEF RecvRead, semVars, history, Sem, RecvPC, GuardPC
<1>7. CASE RecvClose(c)
  BY <1>7, <1>c, RecvMoves DEF RecvClose, op_close, history, Sem, RecvPC, GuardPC
<1>8. CASE RecvLast(c)
  BY <1>8, <1>c, RecvMoves DEF RecvLast, semVars, history, Sem, RecvPC, GuardPC
<1>9. CASE RecvServe(c)
  BY <1>9, <1>c, RecvSignals DEF RecvServe, Sem, RecvPC, GuardPC
<1>10. CASE RecvFree(c)
  BY <1>10, <1>c, RecvMoves DEF RecvFree, op_unlock, history, Sem, RecvPC, GuardPC
<1>11. CASE RecvPass(c)
  BY <1>11, <1>c, RecvSignals DEF RecvPass, Sem, RecvPC, GuardPC
<1>12. CASE RecvUndo(c)
  <2>1. PICK s \in Sem : Undo(r, s) /\ pc[r] = "r_exit" /\ UNCHANGED pc
    BY <1>12 DEF RecvUndo
  <2>2. CASE s # "clisem" \/ undoVal[r]["clisem"] = 0
    <3>1. Same(Proc, "clisem")
      BY <1>a, <2>1, <2>2, UndoBase DEF Sem
    <3>2. QED
      BY <2>1, <3>1, GuardSame
  <2>3. CASE s = "clisem" /\ undoVal[r]["clisem"] # 0
    <3>1. undoVal[r]["clisem"] = 1 /\ Holding(r) /\ val["clisem"] = 0
      BY <1>a, <2>3 DEF Guarded
    <3>2. r \notin asleep["clisem"]
      BY <1>a, <2>1 DEF BaseInv, Sleepers, Bed, Sem, ShellSem
    <3>3. /\ undoVal'[r][s] = 0
          /\ \/ /\ val'[s] = 1 /\ asleep[s] = {} /\ asleep'[s] = {}
                /\ \A q \in Proc \ {r} : undoVal'[q][s] = undoVal[q][s]
             \/ /\ val'[s] = 0
                /\ \E q \in asleep[s] :
                     /\ asleep'[s] = asleep[s] \ {q}
                     /\ undoVal'[q][s] = undoVal[q][s] + 1
                     /\ \A p \in Proc \ {r, q} : undoVal'[p][s] = undoVal[p][s]
      BY <1>a, <2>1, <2>3, <3>1, UndoBase
    <3>4. ~Holding(r)'
      BY <2>1, <2>3, <3>3 DEF Holding, GuardPC
    <3>5. QED
      BY <1>a, <2>3, <3>1, <3>2, <3>3, <3>4, GuardLetGo
  <2>4. QED
    BY <2>2, <2>3
<1>13. QED
  BY <1>1, <1>2, <1>3, <1>4, <1>5, <1>6, <1>7, <1>8, <1>9, <1>10, <1>11, <1>12 DEF RecvNext

LEMMA GuardKill ==
  ASSUME BaseInv, Guarded, NEW c \in Client, KillReceiver(c)
  PROVE  Guarded'
<1> DEFINE s == "clisem"
<1>1. /\ pc[Shell(c)] = "h_kill" /\ pc'[Shell(c)] = "h_reap" /\ pc'[Recv(c)] = "r_exit"
      /\ val'[s] = val[s] /\ asleep'[s] = asleep[s] \ {Recv(c)}
      /\ \A q \in Proc : undoVal'[q][s] = undoVal[q][s]
      /\ \A q \in Proc \ {Shell(c), Recv(c)} : pc'[q] = pc[q]
  BY KillSteps, ProcFacts DEF Sem
<1>2. \A q \in Proc \ {Shell(c), Recv(c)} : Holding(q)' <=> Holding(q)
  BY <1>1 DEF Holding
<1>3. ~Holding(Shell(c)) /\ ~Holding(Shell(c))'
  BY <1>1 DEF Holding, GuardPC
<1>4. Holding(Recv(c))' <=> Holding(Recv(c))
  BY <1>1, ProcFacts DEF Holding, Guarded, GuardPC
<1>5. \A q \in Proc : Holding(q)' <=> Holding(q)
  BY <1>2, <1>3, <1>4
<1>6. QED
  BY <1>1, <1>5 DEF Guarded

LEMMA GuardedNext == Frame /\ Apart /\ Guarded /\ [Next]_vars => Guarded'
<1> SUFFICES ASSUME Frame, Apart, Guarded, [Next]_vars PROVE Guarded'
  OBVIOUS
<1>a. /\ "clisem" \in Sem \ ShellSem /\ GuardPC \intersect ShellPC = {}
      /\ "r_exit" \notin ShellPC
  BY DEF Sem, ShellSem, GuardPC, ShellPC
<1>1. CASE SysNext
  BY <1>1, GuardSys DEF Frame
<1>2. ASSUME NEW c \in Client, RecvNext(c) PROVE Guarded'
  BY <1>2, GuardRecv DEF Frame
<1>3. ASSUME NEW c \in Client, Ordinary(c) PROVE Guarded'
  <2>1. Same(Proc, "clisem")
    BY <1>3, <1>a, ShellWorks DEF Frame, Still, Works
  <2>2. OnlyShell(c) /\ pc[Shell(c)] \in ShellPC /\ pc'[Shell(c)] \in ShellPC
    BY <1>3, ShellSteps, ProcFacts DEF Frame, BaseInv, Places
  <2>3. \A p \in Proc : /\ pc'[p] \in GuardPC <=> pc[p] \in GuardPC
                        /\ pc'[p] = "r_exit" <=> pc[p] = "r_exit"
    BY <1>a, <2>2, ProcFacts DEF OnlyShell
  <2>4. QED
    BY <2>1, <2>3, GuardSame
<1>4. ASSUME NEW c \in Client, KillReceiver(c) PROVE Guarded'
  BY <1>4, GuardKill DEF Frame
<1>5. ASSUME NEW c \in Client, ShellUndo(c) PROVE Guarded'
  <2>1. Same(Proc, "clisem") /\ UNCHANGED pc
    BY <1>5, <1>a, UndoApart, ShellUndoes DEF Frame
  <2>2. QED
    BY <2>1, GuardSame
<1>6. ASSUME NEW c \in Client, Accept(c) PROVE Guarded'
  <2>1. pc[Recv(c)] = "r_none"
    BY <1>6 DEF Accept, Frame, Born
  <2>2. /\ Same(Proc, "clisem") /\ pc[Shell(c)] = "h_none" /\ pc'[Shell(c)] = "h_poll"
        /\ pc'[Recv(c)] = "r_open" /\ pc'[Sys] = pc[Sys]
        /\ \A d \in Client \ {c} : pc'[Shell(d)] = pc[Shell(d)] /\ pc'[Recv(d)] = pc[Recv(d)]
    BY <1>6, <1>a, <2>1, AcceptSteps DEF Frame
  <2>3. \A p \in Proc : /\ pc'[p] \in GuardPC <=> pc[p] \in GuardPC
                        /\ pc'[p] = "r_exit" <=> pc[p] = "r_exit"
    BY <2>1, <2>2, ProcFacts DEF GuardPC
  <2>4. QED
    BY <2>2, <2>3, GuardSame
<1>7. ASSUME NEW c \in Client, JobEnds(c) PROVE Guarded'
  <2>1. Shell(c) \notin asleep["clisem"]
    BY <1>a, SleeperKinds DEF Frame
  <2>2. UNCHANGED pc /\ UNCHANGED <<val, undoVal>>
    BY <1>7 DEF JobEnds, Dequeue, semVars, valVars
  <2>3. asleep'["clisem"] = asleep["clisem"]
    <3>1. CASE UNCHANGED semVars
      BY <3>1 DEF semVars, valVars
    <3>2. CASE Dequeue(Shell(c))
      <4>1. asleep'["clisem"] = asleep["clisem"] \ {Shell(c)}
        BY <1>a, <3>2 DEF Dequeue, Frame, BaseInv, ValTypes
      <4>2. QED
        BY <2>1, <4>1
    <3>3. QED
      BY <1>7, <3>1, <3>2 DEF JobEnds
  <2>4. QED
    BY <2>2, <2>3, GuardSame DEF Same
<1>8. CASE UNCHANGED vars
  BY <1>8, GuardSame DEF vars, semVars, valVars, Same
<1>9. QED
  BY <1>1, <1>2, <1>3, <1>4, <1>5, <1>6, <1>7, <1>8, StepCases

LEMMA GuardedInit == Init => Guarded
<1> SUFFICES ASSUME Init PROVE Guarded
  OBVIOUS
<1>1. val["clisem"] = 1 /\ \A p \in Proc : undoVal[p]["clisem"] = 0
  BY DEF Init, Zero, Sem, ShellSem
<1>2. /\ pc[Sys] = "s_idle"
      /\ \A c \in Client : pc[Shell(c)] = "h_none" /\ pc[Recv(c)] = "r_none"
  BY ProcFacts DEF Init, Sys, Shell, Recv
<1>3. \A p \in Proc : ~Holding(p)
  BY <1>1, <1>2, ProcFacts DEF Holding, GuardPC
<1>4. QED
  BY <1>1, <1>3 DEF Guarded

-----------------------------------------------------------------------------
(* The theorems.                                                           *)

LEMMA CallingIsIn == ASSUME Frame, NEW c \in Client PROVE Calling(c) <=> In(c)
<1>1. Shell(c) \in asleep["call_system"] => pc[Shell(c)] = "h_write" /\ ~Awake(Shell(c))
  BY DEF Awake, Frame, BaseInv, ValTypes, Sleepers, Bed, Sem, ShellSem
<1>2. pc[Shell(c)] = "h_write" /\ ~Awake(Shell(c)) => Shell(c) \in asleep["call_system"]
  BY DEF Awake, Frame, BaseInv, ValTypes, Sleepers, Bed, Sem, ShellSem
<1>3. QED
  BY <1>1, <1>2 DEF In, Calling, CallPC

LEMMA OneCallerHolds == Frame /\ DoorInv => OneCaller
BY CallingIsIn DEF OneCaller, DoorInv, Door

LEMMA DoorReopensHolds == Frame /\ DoorInv => DoorReopens
<1> SUFFICES ASSUME Frame, Door PROVE val["call_system"] = IF \E c \in Client : Calling(c) THEN 0 ELSE 1
  BY DEF DoorInv, DoorReopens
<1>1. \A c \in Client : Calling(c) <=> In(c)
  BY CallingIsIn
<1>2. val["call_system"] \in 0..1
  BY DEF Door
<1>3. CASE val["call_system"] = 0
  BY <1>1, <1>3 DEF Door
<1>4. CASE val["call_system"] = 1
  BY <1>1, <1>4 DEF Door
<1>5. QED
  BY <1>2, <1>3, <1>4

LEMMA OneReaderHolds == Frame /\ Baton => OneReader
<1> SUFFICES ASSUME Frame, Baton PROVE OneReader
  OBVIOUS
<1>1. \A s \in Sem, p \in Proc : Awake(p) => p \notin asleep[s]
  BY DEF Awake, Frame, BaseInv, ValTypes
<1>2. \A c \in Client : pc[Recv(c)] \in Reading /\ Awake(Recv(c)) => Has(c)
  BY <1>1, ProcFacts DEF Has, Sem
<1>3. Round /\ pc[Sys] = "s_unlock" => ~Awake(Sys)
  BY <1>1, ProcFacts DEF Round, Sem
<1>4. QED
  BY <1>2, <1>3, ProcFacts DEF OneReader, Baton

Sound == Frame /\ DoorInv /\ Baton /\ Counters /\ Data /\ Apart /\ Guarded

LEMMA SoundInit == Init => Sound
BY FrameInit, DoorInit, BatonInit, CountersInit, DataInit, ApartInit, GuardedInit DEF Sound

LEMMA SoundNext == Sound /\ [Next]_vars => Sound'
<1> SUFFICES ASSUME Sound, [Next]_vars PROVE Sound'
  OBVIOUS
<1>1. Frame' /\ DoorInv' /\ Baton'
  BY FrameNext, DoorNext, BatonNext DEF Sound
<1>2. Counters' /\ Data' /\ Apart' /\ Guarded'
  BY CountersNext, DataNext, ApartNext, GuardedNext DEF Sound
<1>3. QED
  BY <1>1, <1>2 DEF Sound

LEMMA Soundness == Spec => []Sound
BY SoundInit, SoundNext, PTL DEF Spec

(* At most one shell is between sem_wait and sem_signal of call_system, as *)
(* long as no semop was interrupted (np_multi_proc.cpp:321-325, 362-403,   *)
(* 450-454, 474-478, 289-294).                                             *)
THEOREM CallsAreExclusive == Spec => []OneCaller
<1>1. Sound => OneCaller
  BY OneCallerHolds DEF Sound
<1>2. QED
  BY <1>1, Soundness, PTL

(* However shells end, and while the kernel undoes what they did,          *)
(* call_system is free, once, if and only if no shell has a request in     *)
(* progress, as long as no semop was interrupted (shm.h:46-52, SEM_UNDO in *)
(* op_op and op_wait; np_multi_proc.cpp:289-301, 461, 484).                *)
THEOREM DoorIsReopened == Spec => []DoorReopens
<1>1. Sound => DoorReopens
  BY DoorReopensHolds DEF Sound
<1>2. QED
  BY <1>1, Soundness, PTL

(* Whatever receivers are killed, shells exit or calls are interrupted, at *)
(* most one receiver is between sem_wait and sem_signal of clienting       *)
(* (np_multi_proc.cpp:212-246), and none is once the system process has    *)
(* taken the baton back (123-125).                                         *)
THEOREM ReadersAreExclusive == Spec => []OneReader
<1>1. Sound => OneReader
  BY OneReaderHolds DEF Sound
<1>2. QED
  BY <1>1, Soundness, PTL

(* Types, and the ranges of the semaphores: none ever goes below 0, a      *)
(* process holds each set at most once, at most one process locks a set,   *)
(* and the baton is never on its semaphore twice (shm.cpp:18-105,          *)
(* np_multi_proc.cpp:104-136, 205-246).                                    *)
THEOREM TypesAreSound == Spec => []TypeOK
<1>1. Sound => TypeOK
  BY TypesHold DEF Sound
<1>2. QED
  BY <1>1, Soundness, PTL

(* Semaphore [1] of clienting counts the receivers signed up and that of   *)
(* clisem the receivers alive, as soon as the kernel has cleaned up after  *)
(* the killed ones, wherever they were killed (shm.h:22-24).               *)
THEOREM CountersAreRight == Spec => []CountersTrackProcesses
<1>1. Sound => CountersTrackProcesses
  BY CountersTrack DEF Sound
<1>2. QED
  BY <1>1, Soundness, PTL

-----------------------------------------------------------------------------
(* An announcement goes round.                                             *)

Started == pc[Sys] = "s_start" \/ Round

(* Nobody has told the system process yet that everybody has read ...      *)
Listening == \/ pc[Sys] = "s_serving"
             \/ pc[Sys] = "s_take" /\ Sys \in asleep["serving"]

(* ... and somebody has, or is about to.                                   *)
Served == \/ val["serving"] = 1
          \/ pc[Sys] = "s_take" /\ Sys \notin asleep["serving"]
          \/ pc[Sys] = "s_unlock" /\ Sys \in asleep["clienting"]
          \/ \E c \in Client : pc[Recv(c)] = "r_serve"

ToRead == {c \in Client : pc[Recv(c)] \in {"r_wait", "r_read"}}

NoneDead == \A c \in Client : pc[Recv(c)] = "r_exit" => undoCnt[Recv(c)]["clienting"] = 0

OneServe ==
  /\ val["serving"] \in 0..1
  /\ \A c \in Client : undoVal[Recv(c)]["serving"] <= 0
  /\ val["serving"] = 1 =>
       pc[Sys] = "s_serving" /\ \A c \in Client : pc[Recv(c)] # "r_serve"
  /\ \A c \in Client : pc[Recv(c)] = "r_serve" => Listening
  /\ Served => \A c \in Client :
                 pc[Recv(c)] \notin {"r_unlock", "r_wait", "r_read", "r_close", "r_last"}

AllRead ==
  /\ Started => ToRead \subseteq audience \ heard
  /\ Started /\ ~disturbed => audience \ heard \subseteq ToRead /\ NoneDead
  /\ Round => \A c \in Client :
                pc[Recv(c)] \in {"r_close", "r_last", "r_serve"} => c \in audience
  /\ pc[Sys] = "s_start" /\ ~disturbed => ToRead # {}
  /\ Listening /\ ~disturbed /\ val["serving"] = 0 =>
       \E c \in Client :
         /\ c \in audience
         /\ pc[Recv(c)] \in {"r_wait", "r_read", "r_close", "r_last", "r_serve"}

RoundInv == OneServe /\ AllRead

Marked == {"r_unlock", "r_wait", "r_read", "r_close", "r_last", "r_serve"}

(* Steps in which the system process stays where it is and no receiver     *)
(* gets anywhere that counts.                                              *)
Aside ==
  /\ pc'[Sys] = pc[Sys]
  /\ (Sys \in asleep'["serving"]) <=> (Sys \in asleep["serving"])
  /\ Sys \in asleep'["clienting"] => Sys \in asleep["clienting"]
  /\ val'["serving"] \in {0, val["serving"]}
  /\ \A c \in Client : /\ undoVal'[Recv(c)]["serving"] <= 0
                       /\ pc'[Recv(c)] \in Marked => pc'[Recv(c)] = pc[Recv(c)]
  /\ audience' = audience /\ heard' = heard

Undisturbed ==
  /\ ~disturbed
  /\ val'["serving"] = val["serving"]
  /\ \A c \in Client :
       /\ pc[Recv(c)] \in Marked => pc'[Recv(c)] = pc[Recv(c)]
       /\ pc'[Recv(c)] = "r_exit" =>
            /\ pc[Recv(c)] = "r_exit"
            /\ undoCnt'[Recv(c)]["clienting"] = undoCnt[Recv(c)]["clienting"]

LEMMA RoundKept ==
  ASSUME RoundInv, Aside, ~disturbed' => Undisturbed
  PROVE  RoundInv'
<1>1. /\ Round' => Round
      /\ Listening' <=> Listening
      /\ Served' => Served
      /\ Started' => Started
  BY DEF Aside, Round, Listening, Served, Started, Marked, RoundInv, OneServe
<1>2. OneServe'
  BY <1>1 DEF RoundInv, OneServe, Aside, Marked
<1>3. ToRead' \subseteq ToRead
  BY DEF ToRead, Aside, Marked
<1>4. ~disturbed' => ToRead' = ToRead /\ (NoneDead => NoneDead')
  BY <1>3 DEF ToRead, NoneDead, Undisturbed, Marked
<1>5. AllRead'
  <2>1. /\ Started' => ToRead' \subseteq audience' \ heard'
        /\ Round' => \A c \in Client :
                pc'[Recv(c)] \in {"r_close", "r_last", "r_serve"} => c \in audience'
    BY <1>1, <1>3 DEF RoundInv, AllRead, Aside, Marked
  <2>2. ASSUME ~disturbed'
        PROVE  /\ Started' => audience' \ heard' \subseteq ToRead' /\ NoneDead'
               /\ pc'[Sys] = "s_start" => ToRead' # {}
               /\ Listening' /\ val'["serving"] = 0 =>
                    \E c \in Client :
                      /\ c \in audience'
                      /\ pc'[Recv(c)] \in {"r_wait", "r_read", "r_close", "r_last", "r_serve"}
    <3>1. Undisturbed /\ audience' = audience /\ heard' = heard /\ pc'[Sys] = pc[Sys]
      BY <2>2 DEF Aside
    <3>2. /\ Started' => audience' \ heard' \subseteq ToRead' /\ NoneDead'
          /\ pc'[Sys] = "s_start" => ToRead' # {}
      BY <1>1, <1>4, <2>2, <3>1 DEF RoundInv, AllRead, Undisturbed
    <3>3. ASSUME Listening', val'["serving"] = 0
          PROVE  \E c \in Client :
                   /\ c \in audience'
                   /\ pc'[Recv(c)] \in {"r_wait", "r_read", "r_close", "r_last", "r_serve"}
      <4>1. Listening /\ ~disturbed /\ val["serving"] = 0
        BY <1>1, <3>1, <3>3 DEF Undisturbed
      <4>2. PICK c \in Client :
              /\ c \in audience
              /\ pc[Recv(c)] \in {"r_wait", "r_read", "r_close", "r_last", "r_serve"}
        BY <4>1 DEF RoundInv, AllRead
      <4>3. pc'[Recv(c)] = pc[Recv(c)]
        BY <3>1, <4>2 DEF Undisturbed, Marked
      <4>4. QED
        BY <3>1, <4>2, <4>3
    <3>4. QED
      BY <3>2, <3>3
  <2>3. QED
    BY <2>1, <2>2 DEF AllRead
<1>6. QED
  BY <1>2, <1>5 DEF RoundInv

(* Who is where while the system process has clisem, and between rounds.   *)
LEMMA NobodySigns ==
  ASSUME Frame, Guarded, Awake(Sys) \/ Started, NEW c \in Client,
         pc[Sys] \in {"s_count", "s_start", "s_serving", "s_take", "s_unlock"}
  PROVE  /\ pc[Recv(c)] # "r_unlock"
         /\ pc[Recv(c)] = "r_sign" => ~Awake(Recv(c))
<1>1. Sys \notin asleep["clisem"]
  BY DEF Started, Round, Awake, Frame, BaseInv, ValTypes, Sleepers, Bed, Sem, ShellSem
<1>2. Holding(Sys)
  BY <1>1 DEF Holding, GuardPC
<1>3. ~Holding(Recv(c))
  BY <1>2, ProcFacts DEF Guarded
<1>4. pc[Recv(c)] = "r_unlock" => Recv(c) \notin asleep["clisem"]
  BY DEF Frame, BaseInv, Sleepers, Bed, Sem, ShellSem
<1>5. Awake(Recv(c)) => Recv(c) \notin asleep["clisem"]
  BY DEF Awake, Frame, BaseInv, ValTypes, Sem
<1>6. QED
  BY <1>3, <1>4, <1>5 DEF Holding, GuardPC

LEMMA ReadersInRound ==
  ASSUME Frame, Baton, NEW c \in Client,
         \/ pc[Recv(c)] \in {"r_close", "r_last", "r_serve", "r_free", "r_pass"}
         \/ pc[Recv(c)] = "r_read" /\ Awake(Recv(c))
  PROVE  Has(c) /\ Round
<1>1. Recv(c) \notin asleep["clienting"]
  BY DEF Awake, Frame, BaseInv, ValTypes, Sleepers, Bed, Sem, ShellSem
<1>2. Has(c)
  BY <1>1 DEF Has, Reading
<1>3. QED
  BY <1>2 DEF Baton

LEMMA RoundIdle ==
  ASSUME RoundInv, OnlySys, Same(Proc, "serving"), ~Started, ~Started'
  PROVE  RoundInv'
<1>1. /\ val'["serving"] = val["serving"]
      /\ \A c \in Client : /\ undoVal'[Recv(c)]["serving"] = undoVal[Recv(c)]["serving"]
                           /\ pc'[Recv(c)] = pc[Recv(c)]
  BY ProcFacts DEF OnlySys, Same
<1>2. val["serving"] = 0 /\ \A c \in Client : pc[Recv(c)] # "r_serve"
  BY DEF RoundInv, OneServe, Started, Round, Listening
<1>3. ~Served' /\ ~Listening' /\ ~Round' /\ pc'[Sys] # "s_start"
  BY <1>1, <1>2 DEF Served, Listening, Started, Round
<1>4. QED
  BY <1>1, <1>2, <1>3 DEF RoundInv, OneServe, AllRead, Started

(* The system process counts its audience ...                              *)
LEMMA RoundCount ==
  ASSUME Frame, Counters, Guarded, Baton, RoundInv, SysCount
  PROVE  RoundInv'
<1>1. /\ OnlySys /\ Same(Proc, "serving") /\ pc[Sys] = "s_count" /\ Awake(Sys)
      /\ \/ pc'[Sys] = "s_unlock" /\ cnt["clienting"] = Base
         \/ pc'[Sys] = "s_start" /\ cnt["clienting"] # Base
      /\ audience' = SignedUp /\ heard' = {} /\ disturbed' = Dying
      /\ UNCHANGED semVars
  BY SysMoves DEF SysCount, Frame, history, Sem, SysPC
<1>2. ~Started /\ \A t \in Sem : Sys \notin asleep[t]
  BY <1>1 DEF Started, Round, Awake, Frame, BaseInv, ValTypes
<1>3. CASE pc'[Sys] = "s_unlock"
  <2>1. ~Started'
    BY <1>1, <1>2, <1>3 DEF Started, Round, semVars, valVars, Sem
  <2>2. QED
    BY <1>1, <1>2, <2>1, RoundIdle
<1>4. CASE pc'[Sys] = "s_start"
  <2>1. /\ val'["serving"] = val["serving"]
        /\ \A c \in Client : /\ undoVal'[Recv(c)]["serving"] = undoVal[Recv(c)]["serving"]
                             /\ pc'[Recv(c)] = pc[Recv(c)]
    BY <1>1, ProcFacts DEF OnlySys, Same
  <2>2. val["serving"] = 0 /\ \A c \in Client : pc[Recv(c)] # "r_serve"
    BY <1>2 DEF RoundInv, OneServe, Started, Round, Listening
  <2>3. ~Served' /\ ~Listening' /\ ~Round'
    BY <1>4, <2>1, <2>2 DEF Served, Listening, Round
  <2>4. OneServe'
    BY <2>1, <2>2, <2>3 DEF RoundInv, OneServe
  <2>5. SignedUp = ToRead /\ ToRead' = ToRead
    <3>1. \A c \in Client : pc[Recv(c)] # "r_unlock" /\ pc[Recv(c)] # "r_close"
      BY <1>1, <1>2, NobodySigns, ReadersInRound DEF Started
    <3>2. QED
      BY <2>1, <3>1 DEF SignedUp, ToRead
  <2>6. ASSUME ~Dying, NEW c \in Client, pc[Recv(c)] = "r_exit"
        PROVE  undoCnt[Recv(c)]["clienting"] = 0
    BY <2>6 DEF Dying, Settled, Owes, Frame, BaseInv, ValTypes, Sem
  <2>7. ~Dying => NoneDead'
    BY <1>1, <2>1, <2>6 DEF NoneDead, semVars, cntVars
  <2>8. ~Dying => ToRead # {}
    <3>1. SUFFICES ASSUME ~Dying PROVE \E c \in Client : c \in SignedUp
      BY <2>5
    <3>2. Cardinality(Holders("clienting")) # 0
      BY <1>1, <1>4, BaseNat DEF Counters, Counted, Sem
    <3>3. PICK p \in Proc : undoCnt[p]["clienting"] = 1
      BY <3>2, FS_EmptySet DEF Holders
    <3>4. "clienting" \in Opens(pc[p])
      BY <3>3 DEF Counters, Opened, Sem
    <3>5. pc[p] \in {"r_unlock", "r_wait", "r_read", "r_close", "r_exit"}
      BY <3>4 DEF Opens, ShellSem
    <3>6. PICK c \in Client : p = Recv(c)
      BY <3>5, ProcFacts DEF Frame, BaseInv, Places, SysPC, ShellPC
    <3>7. pc[Recv(c)] # "r_exit"
      BY <2>6, <3>1, <3>3, <3>6
    <3>8. QED
      BY <3>5, <3>6, <3>7 DEF SignedUp
  <2>9. AllRead'
    BY <1>1, <2>3, <2>5, <2>7, <2>8 DEF AllRead, Started
  <2>10. QED
    BY <2>4, <2>9 DEF RoundInv
<1>5. QED
  BY <1>1, <1>3, <1>4

(* ... and lays out the baton.                                             *)
LEMMA RoundStart ==
  ASSUME Frame, Baton, RoundInv, SysStart
  PROVE  RoundInv'
<1>1. /\ OnlySys /\ Same(Proc, "serving") /\ pc[Sys] = "s_start" /\ pc'[Sys] = "s_serving"
      /\ UNCHANGED <<audience, heard, disturbed, undoCnt>>
  BY SysSignals DEF SysStart, Signal, sem_signal, cntVars, history, Frame, Sem, SysPC
<1>2. /\ val'["serving"] = val["serving"]
      /\ \A c \in Client : /\ undoVal'[Recv(c)]["serving"] = undoVal[Recv(c)]["serving"]
                           /\ pc'[Recv(c)] = pc[Recv(c)]
  BY <1>1, ProcFacts DEF OnlySys, Same
<1>3. ~Round /\ Started
  BY <1>1 DEF Round, Started
<1>4. val["serving"] = 0
  BY <1>1 DEF RoundInv, OneServe
<1>5. \A c \in Client : pc[Recv(c)] \notin {"r_close", "r_last", "r_serve"}
  BY <1>3, ReadersInRound
<1>6. ~Served' /\ Listening'
  BY <1>1, <1>2, <1>4, <1>5 DEF Served, Listening
<1>7. OneServe'
  BY <1>2, <1>4, <1>5, <1>6 DEF RoundInv, OneServe
<1>8. ToRead' = ToRead /\ NoneDead' = NoneDead
  BY <1>1, <1>2 DEF ToRead, NoneDead
<1>9. /\ ToRead \subseteq audience \ heard
      /\ ~disturbed => audience \ heard \subseteq ToRead /\ NoneDead /\ ToRead # {}
  BY <1>1, <1>3 DEF RoundInv, AllRead
<1>10. ~disturbed => \E c \in Client : c \in audience /\ pc[Recv(c)] \in {"r_wait", "r_read"}
  BY <1>9 DEF ToRead
<1>11. AllRead'
  BY <1>1, <1>2, <1>5, <1>8, <1>9, <1>10 DEF AllRead
<1>12. QED
  BY <1>7, <1>11 DEF RoundInv

LEMMA RoundServing ==
  ASSUME Frame, RoundInv, SysServing
  PROVE  RoundInv'
<1> DEFINE s == "serving"
<1>1. /\ OnlySys
      /\ Takes(Proc, Sys, s) \/ Sleeps(Proc, Sys, s)
      /\ pc[Sys] = "s_serving" /\ pc'[Sys] = "s_take" /\ Awake(Sys)
      /\ UNCHANGED <<audience, heard, disturbed, undoCnt>>
  BY SysWaits DEF SysServing, Wait, sem_wait, cntVars, history, Frame, Sem, SysPC, Bed
<1>2. /\ Sys \notin asleep[s]
      /\ \A c \in Client : /\ undoVal'[Recv(c)][s] = undoVal[Recv(c)][s]
                           /\ pc'[Recv(c)] = pc[Recv(c)]
  <2>1. Sys \notin asleep[s]
    BY <1>1 DEF Awake, Frame, BaseInv, ValTypes, Sem
  <2>2. QED
    BY <1>1, <2>1, ProcFacts DEF OnlySys, Takes, Sleeps
<1>3. Round /\ Round' /\ Listening
  BY <1>1 DEF Round, Listening
<1>4. ToRead' = ToRead /\ NoneDead' = NoneDead
  BY <1>1, <1>2 DEF ToRead, NoneDead
<1>5. CASE Takes(Proc, Sys, s)
  <2>1. /\ val[s] = 1 /\ val'[s] = 0 /\ Served
        /\ \A c \in Client : pc[Recv(c)] # "r_serve"
    BY <1>5 DEF RoundInv, OneServe, Takes, Served
  <2>2. ~Listening'
    BY <1>1, <1>2, <1>5 DEF Listening, Takes
  <2>3. OneServe'
    BY <1>2, <2>1 DEF RoundInv, OneServe
  <2>4. AllRead'
    BY <1>1, <1>2, <1>3, <1>4, <2>2 DEF RoundInv, AllRead, Started
  <2>5. QED
    BY <2>3, <2>4 DEF RoundInv
<1>6. CASE Sleeps(Proc, Sys, s)
  <2>1. val[s] = 0 /\ val'[s] = 0 /\ Sys \in asleep'[s]
    BY <1>6 DEF Sleeps
  <2>2. Listening' /\ (Served' => Served)
    BY <1>1, <1>2, <2>1 DEF Listening, Served
  <2>3. OneServe'
    BY <1>2, <2>1, <2>2 DEF RoundInv, OneServe
  <2>4. AllRead'
    BY <1>1, <1>2, <1>3, <1>4, <2>1 DEF RoundInv, AllRead, Started
  <2>5. QED
    BY <2>3, <2>4 DEF RoundInv
<1>7. QED
  BY <1>1, <1>5, <1>6

LEMMA RoundTake ==
  ASSUME Frame, RoundInv, SysTake
  PROVE  RoundInv'
<1>1. /\ OnlySys /\ Same(Proc, "serving")
      /\ pc[Sys] = "s_take" /\ pc'[Sys] = "s_unlock" /\ Awake(Sys)
      /\ UNCHANGED <<audience, heard, disturbed, undoCnt>>
  BY SysWaits DEF SysTake, Wait, sem_wait, cntVars, history, Frame, Sem, SysPC, Bed
<1>2. /\ Sys \notin asleep["serving"]
      /\ val'["serving"] = val["serving"]
      /\ \A c \in Client : /\ undoVal'[Recv(c)]["serving"] = undoVal[Recv(c)]["serving"]
                           /\ pc'[Recv(c)] = pc[Recv(c)]
  BY <1>1, ProcFacts DEF OnlySys, Same, Awake, Frame, BaseInv, ValTypes, Sem
<1>3. Round /\ Served /\ ~Listening /\ ~Listening'
  BY <1>1, <1>2 DEF Round, Served, Listening
<1>4. ToRead' = ToRead /\ NoneDead' = NoneDead
  BY <1>1, <1>2 DEF ToRead, NoneDead
<1>5. OneServe'
  BY <1>1, <1>2, <1>3 DEF RoundInv, OneServe
<1>6. AllRead'
  BY <1>1, <1>2, <1>3, <1>4 DEF RoundInv, AllRead, Started
<1>7. QED
  BY <1>5, <1>6 DEF RoundInv

LEMMA RoundSys ==
  ASSUME Frame, Counters, Guarded, Baton, RoundInv, SysNext
  PROVE  RoundInv'
<1>a. OnlySys /\ \A t \in Sem : Awake(Sys) => Sys \notin asleep[t]
  BY SysSteps DEF Frame, BaseInv, ValTypes, Awake
<1>1. CASE SysAwaitCall
  BY <1>1, <1>a, SysWaits, RoundIdle DEF SysAwaitCall, Frame, Sem, ShellSem, Bed, SysPC, Same,
    Started, Round
<1>2. CASE SysPoll
  BY <1>2, <1>a, SysMoves, RoundIdle
     DEF SysPoll, history, Frame, Sem, SysPC, Same, Started, Round
<1>3. CASE SysDrain
  BY <1>3, <1>a, SysWaits, RoundIdle DEF SysDrain, Frame, Sem, ShellSem, Bed, SysPC, Same,
    Started, Round
<1>4. CASE SysRead
  BY <1>4, <1>a, SysMoves, RoundIdle
     DEF SysRead, history, Frame, Sem, SysPC, Same, Started, Round
<1>5. CASE SysWrite
  BY <1>5, <1>a, SysMoves, RoundIdle
     DEF SysWrite, history, Frame, Sem, SysPC, Same, Started, Round
<1>6. CASE SysLock
  <2>1. "clisem" \in Sem /\ "s_count" \in SysPC \intersect Bed("clisem")
    BY DEF Sem, SysPC, Bed
  <2>2. /\ Same(Proc, "serving") /\ pc[Sys] = "s_lock" /\ pc'[Sys] = "s_count"
    BY <1>6, <2>1, SysWaits DEF SysLock, Frame, Sem
  <2>3. QED
    BY <1>a, <2>2, RoundIdle DEF Started, Round
<1>7. CASE SysCount
  BY <1>7, RoundCount
<1>8. CASE SysStart
  BY <1>8, RoundStart
<1>9. CASE SysServing
  BY <1>9, RoundServing
<1>10. CASE SysTake
  BY <1>10, RoundTake
<1>11. CASE SysUnlock
  BY <1>11, <1>a, SysSignals, RoundIdle DEF SysUnlock, Frame, Sem, SysPC, Same, Started, Round
<1>12. CASE SysSync
  BY <1>12, <1>a, SysMoves, RoundIdle
     DEF SysSync, history, Frame, Sem, SysPC, Same, Started, Round
<1>13. CASE SysCompare
  BY <1>13, <1>a, SysMoves, RoundIdle
     DEF SysCompare, history, Frame, Sem, SysPC, Same, Started, Round
<1>14. CASE SysReply
  BY <1>14, <1>a, SysSignals, RoundIdle
     DEF SysReply, Frame, Sem, ShellSem, SysPC, Same, Started, Round
<1>15. QED
  BY <1>1, <1>2, <1>3, <1>4, <1>5, <1>6, <1>7, <1>8, <1>9, <1>10, <1>11, <1>12, <1>13, <1>14
  DEF SysNext

(* The receiver of c goes from l to m and leaves serving alone.            *)
Row(c, l, m) ==
  /\ OnlyRecv(c) /\ pc[Recv(c)] = l /\ pc'[Recv(c)] = m
  /\ val'["serving"] = val["serving"]
  /\ (Sys \in asleep'["serving"]) <=> (Sys \in asleep["serving"])
  /\ (Sys \in asleep'["clienting"]) => (Sys \in asleep["clienting"])
  /\ \A d \in Client :
       /\ undoVal'[Recv(d)]["serving"] = undoVal[Recv(d)]["serving"]
       /\ d # c => undoCnt'[Recv(d)]["clienting"] = undoCnt[Recv(d)]["clienting"]
  /\ audience' = audience /\ disturbed' = disturbed

LEMMA RecvRows ==
  ASSUME BaseInv, Counters, NEW c \in Client
  PROVE  /\ RecvOpen(c) => Row(c, "r_open", "r_lock") /\ heard' = heard
         /\ RecvLock(c) => Row(c, "r_lock", "r_sign") /\ heard' = heard
         /\ RecvSign(c) => Row(c, "r_sign", "r_unlock") /\ heard' = heard
         /\ RecvUnlock(c) => Row(c, "r_unlock", "r_wait") /\ heard' = heard
         /\ RecvWait(c) => /\ Row(c, "r_wait", "r_read") /\ heard' = heard
                           /\ (Sys \in asleep'["clienting"]) <=> (Sys \in asleep["clienting"])
         /\ RecvRead(c) => /\ Row(c, "r_read", "r_close") /\ heard' = heard \union {c}
                           /\ asleep' = asleep
         /\ RecvClose(c) => Row(c, "r_close", "r_last") /\ heard' = heard /\ asleep' = asleep
         /\ RecvLast(c) => /\ \/ Row(c, "r_last", "r_serve") /\ LastToRead
                              \/ Row(c, "r_last", "r_free") /\ ~LastToRead
                           /\ heard' = heard /\ asleep' = asleep
         /\ RecvFree(c) => Row(c, "r_free", "r_pass") /\ heard' = heard
         /\ RecvPass(c) => Row(c, "r_pass", "r_lock") /\ heard' = heard
<1>a. \A d \in Client : Recv(d) \in Proc /\ Recv(d) # Sys /\ (d # c => Recv(d) # Recv(c))
  BY ProcFacts
<1>b. {"serving", "clienting", "clisem"} \subseteq Sem
  BY DEF Sem
<1>c. ASSUME \A t \in Sem \ {"clisem"} : Same(Proc, t)
      PROVE  /\ val'["serving"] = val["serving"] /\ asleep'["serving"] = asleep["serving"]
             /\ asleep'["clienting"] = asleep["clienting"]
             /\ \A d \in Client : undoVal'[Recv(d)]["serving"] = undoVal[Recv(d)]["serving"]
  BY <1>a, <1>b, <1>c DEF Same
<1>d. ASSUME Same(Proc, "serving")
      PROVE  /\ val'["serving"] = val["serving"] /\ asleep'["serving"] = asleep["serving"]
             /\ \A d \in Client : undoVal'[Recv(d)]["serving"] = undoVal[Recv(d)]["serving"]
  BY <1>a, <1>d DEF Same
<1>1. ASSUME RecvOpen(c) PROVE Row(c, "r_open", "r_lock") /\ heard' = heard
  <2>1. /\ OnlyRecv(c) /\ pc[Recv(c)] = "r_open" /\ pc'[Recv(c)] = "r_lock"
        /\ UNCHANGED <<valVars, audience, disturbed, heard>>
    BY <1>1, RecvMoves DEF RecvOpen, sem_open, RecvPC
  <2>2. \A d \in Client : d # c => undoCnt'[Recv(d)] = undoCnt[Recv(d)]
    BY <1>1, <1>a DEF RecvOpen, sem_open, Counters, CntTypes
  <2>3. QED
    BY <2>1, <2>2 DEF Row, valVars
<1>2. ASSUME RecvLock(c) PROVE Row(c, "r_lock", "r_sign") /\ heard' = heard
  <2>1. "clisem" \in Sem /\ "r_sign" \in RecvPC \intersect Bed("clisem")
    BY DEF Sem, RecvPC, Bed
  <2>2. /\ OnlyRecv(c) /\ pc[Recv(c)] = "r_lock" /\ pc'[Recv(c)] = "r_sign"
        /\ \A t \in Sem \ {"clisem"} : Same(Proc, t)
    BY <1>2, <2>1, RecvWaits DEF RecvLock
  <2>3. UNCHANGED <<undoCnt, audience, disturbed, heard>>
    BY <1>2 DEF RecvLock, Wait, sem_wait, cntVars, history
  <2>4. QED
    BY <1>c, <2>2, <2>3 DEF Row
<1>3. ASSUME RecvSign(c) PROVE Row(c, "r_sign", "r_unlock") /\ heard' = heard
  <2>1. /\ OnlyRecv(c) /\ pc[Recv(c)] = "r_sign" /\ pc'[Recv(c)] = "r_unlock"
        /\ UNCHANGED <<valVars, audience, disturbed, heard>>
    BY <1>3, RecvMoves DEF RecvSign, sem_open, history, RecvPC
  <2>2. \A d \in Client : d # c => undoCnt'[Recv(d)] = undoCnt[Recv(d)]
    BY <1>3, <1>a DEF RecvSign, sem_open, Counters, CntTypes
  <2>3. QED
    BY <2>1, <2>2 DEF Row, valVars
<1>4. ASSUME RecvUnlock(c) PROVE Row(c, "r_unlock", "r_wait") /\ heard' = heard
  <2>1. /\ OnlyRecv(c) /\ pc[Recv(c)] = "r_unlock" /\ pc'[Recv(c)] = "r_wait"
        /\ \A t \in Sem \ {"clisem"} : Same(Proc, t)
    BY <1>4, RecvSignals DEF RecvUnlock, Sem, RecvPC
  <2>2. UNCHANGED <<undoCnt, audience, disturbed, heard>>
    BY <1>4 DEF RecvUnlock, Signal, sem_signal, cntVars, history
  <2>3. QED
    BY <1>c, <2>1, <2>2 DEF Row
<1>5. ASSUME RecvWait(c)
      PROVE  /\ Row(c, "r_wait", "r_read") /\ heard' = heard
             /\ (Sys \in asleep'["clienting"]) <=> (Sys \in asleep["clienting"])
  <2>1. "clienting" \in Sem /\ "r_read" \in RecvPC \intersect Bed("clienting")
    BY DEF Sem, RecvPC, Bed
  <2>2. /\ OnlyRecv(c) /\ pc[Recv(c)] = "r_wait" /\ pc'[Recv(c)] = "r_read"
        /\ \A t \in Sem \ {"clienting"} : Same(Proc, t)
        /\ Takes(Proc, Recv(c), "clienting") \/ Sleeps(Proc, Recv(c), "clienting")
    BY <1>5, <2>1, RecvWaits DEF RecvWait
  <2>3. UNCHANGED <<undoCnt, audience, disturbed, heard>>
    BY <1>5 DEF RecvWait, Wait, sem_wait, cntVars, history
  <2>4. (Sys \in asleep'["clienting"]) <=> (Sys \in asleep["clienting"])
    BY <1>a, <2>2 DEF Takes, Sleeps
  <2>5. QED
    BY <1>b, <1>d, <2>2, <2>3, <2>4 DEF Row
<1>6. ASSUME RecvRead(c)
      PROVE  /\ Row(c, "r_read", "r_close") /\ heard' = heard \union {c}
             /\ asleep' = asleep
  <2>1. /\ OnlyRecv(c) /\ pc[Recv(c)] = "r_read" /\ pc'[Recv(c)] = "r_close"
        /\ UNCHANGED <<semVars, audience, disturbed>> /\ heard' = heard \union {c}
    BY <1>6, RecvMoves DEF RecvRead, semVars, RecvPC
  <2>2. QED
    BY <2>1 DEF Row, semVars, valVars, cntVars
<1>7. ASSUME RecvClose(c)
      PROVE  Row(c, "r_close", "r_last") /\ heard' = heard /\ asleep' = asleep
  <2>1. /\ OnlyRecv(c) /\ pc[Recv(c)] = "r_close" /\ pc'[Recv(c)] = "r_last"
        /\ UNCHANGED <<valVars, audience, disturbed, heard>>
    BY <1>7, RecvMoves DEF RecvClose, op_close, history, RecvPC
  <2>2. \A d \in Client : d # c => undoCnt'[Recv(d)] = undoCnt[Recv(d)]
    BY <1>7, <1>a DEF RecvClose, op_close, Counters, CntTypes
  <2>3. QED
    BY <2>1, <2>2 DEF Row, valVars
<1>8. ASSUME RecvLast(c)
      PROVE  /\ \/ Row(c, "r_last", "r_serve") /\ LastToRead
                \/ Row(c, "r_last", "r_free") /\ ~LastToRead
             /\ heard' = heard /\ asleep' = asleep
  <2>1. /\ OnlyRecv(c) /\ pc[Recv(c)] = "r_last"
        /\ \/ pc'[Recv(c)] = "r_serve" /\ LastToRead
           \/ pc'[Recv(c)] = "r_free" /\ ~LastToRead
        /\ UNCHANGED <<semVars, audience, disturbed, heard>>
    BY <1>8, RecvMoves DEF RecvLast, semVars, history, RecvPC
  <2>2. QED
    BY <2>1 DEF Row, semVars, valVars, cntVars
<1>9. ASSUME RecvFree(c) PROVE Row(c, "r_free", "r_pass") /\ heard' = heard
  <2>1. /\ OnlyRecv(c) /\ pc[Recv(c)] = "r_free" /\ pc'[Recv(c)] = "r_pass"
        /\ UNCHANGED <<valVars, undoCnt, audience, disturbed, heard>>
    BY <1>9, RecvMoves DEF RecvFree, op_unlock, history, RecvPC
  <2>2. QED
    BY <2>1 DEF Row, valVars
<1>10. ASSUME RecvPass(c) PROVE Row(c, "r_pass", "r_lock") /\ heard' = heard
  <2>1. /\ OnlyRecv(c) /\ pc[Recv(c)] = "r_pass" /\ pc'[Recv(c)] = "r_lock"
        /\ \A t \in Sem \ {"clienting"} : Same(Proc, t)
        /\ \/ Leaves(Proc, Recv(c), "clienting")
           \/ \E q \in asleep["clienting"] : Hands(Proc, Recv(c), q, "clienting")
    BY <1>10, RecvSignals DEF RecvPass, Sem, RecvPC
  <2>2. UNCHANGED <<undoCnt, audience, disturbed, heard>>
    BY <1>10 DEF RecvPass, Signal, sem_signal, cntVars, history
  <2>3. (Sys \in asleep'["clienting"]) => (Sys \in asleep["clienting"])
    BY <2>1 DEF Leaves, Hands
  <2>4. QED
    BY <1>b, <1>d, <2>1, <2>2, <2>3 DEF Row
<1>11. QED
  BY <1>1, <1>2, <1>3, <1>4, <1>5, <1>6, <1>7, <1>8, <1>9, <1>10

(* Before and after the announcements of others: signing up, letting go.   *)
LEMMA RowAside ==
  ASSUME RoundInv, NEW c \in Client, NEW l, NEW m, Row(c, l, m), heard' = heard,
         l \notin Marked \union {"r_exit"}, m \notin Marked \union {"r_exit"}
  PROVE  RoundInv'
<1>1. Aside
  BY DEF Aside, Row, OnlyRecv, RoundInv, OneServe
<1>2. ~disturbed' => Undisturbed
  BY DEF Undisturbed, Row, OnlyRecv
<1>3. QED
  BY <1>1, <1>2, RoundKept

LEMMA RowOff ==
  ASSUME RoundInv, NEW c \in Client, NEW l, NEW m, Row(c, l, m), ~Started, m # "r_serve"
  PROVE  RoundInv'
<1>1. val["serving"] = 0 /\ \A d \in Client : pc[Recv(d)] # "r_serve"
  BY DEF RoundInv, OneServe, Started, Round, Listening
<1>2. /\ val'["serving"] = 0 /\ pc'[Sys] = pc[Sys]
      /\ \A d \in Client : /\ undoVal'[Recv(d)]["serving"] <= 0
                           /\ pc'[Recv(d)] # "r_serve"
  BY <1>1 DEF Row, OnlyRecv, RoundInv, OneServe
<1>3. ~Started' /\ ~Served' /\ ~Listening' /\ ~Round' /\ pc'[Sys] # "s_start"
  BY <1>2 DEF Row, Started, Round, Served, Listening
<1>4. QED
  BY <1>2, <1>3 DEF RoundInv, OneServe, AllRead

LEMMA RoundSign ==
  ASSUME Frame, Counters, Guarded, RoundInv, NEW c \in Client, RecvSign(c) \/ RecvUnlock(c)
  PROVE  RoundInv'
<1>1. ~Started
  <2>1. Awake(Recv(c)) /\ pc[Recv(c)] \in {"r_sign", "r_unlock"}
    BY DEF RecvSign, RecvUnlock, Signal, At
  <2>2. Started => pc[Sys] \in {"s_count", "s_start", "s_serving", "s_take", "s_unlock"}
    BY DEF Started, Round
  <2>3. QED
    BY <2>1, <2>2, NobodySigns
<1>2. QED
  BY <1>1, RecvRows, RowOff DEF Frame

(* Waiting for the baton, reading, giving the place back.                  *)
LEMMA RowServe ==
  ASSUME RoundInv, NEW c \in Client, NEW l \in Marked \ {"r_serve"},
         NEW m \in Marked \ {"r_serve"}, Row(c, l, m)
  PROVE  /\ OneServe' /\ (Served' => Served)
         /\ Round' => Round
         /\ Started' => Started
         /\ Listening' <=> Listening
         /\ \A d \in Client \ {c} : pc'[Recv(d)] = pc[Recv(d)]
         /\ NoneDead => NoneDead'
<1>1. \A d \in Client \ {c} : pc'[Recv(d)] = pc[Recv(d)]
  BY DEF Row, OnlyRecv
<1>2. l \notin {"r_serve", "r_exit"} /\ m \notin {"r_serve", "r_exit"}
  BY DEF Marked
<1>3. /\ Round' => Round
      /\ Started' => Started
      /\ Listening' <=> Listening
      /\ Served' => Served
  BY <1>1, <1>2 DEF Row, OnlyRecv, Round, Started, Listening, Served
<1>4. NoneDead => NoneDead'
  BY <1>1, <1>2 DEF Row, NoneDead
<1>5. OneServe'
  <2>1. Served => pc[Recv(c)] \notin Marked \ {"r_serve"}
    BY DEF RoundInv, OneServe, Marked
  <2>2. ~Served'
    BY <1>3, <2>1 DEF Row
  <2>3. \A d \in Client : pc'[Recv(d)] = "r_serve" => pc[Recv(d)] = "r_serve"
    BY <1>1, <1>2 DEF Row
  <2>4. val'["serving"] = 1 =>
          pc'[Sys] = "s_serving" /\ \A d \in Client : pc'[Recv(d)] # "r_serve"
    BY <2>3 DEF RoundInv, OneServe, Row, OnlyRecv
  <2>5. QED
    BY <1>3, <2>2, <2>3, <2>4 DEF RoundInv, OneServe, Row
<1>6. QED
  BY <1>1, <1>3, <1>4, <1>5

LEMMA RoundWait ==
  ASSUME BaseInv, Counters, RoundInv, NEW c \in Client, RecvWait(c)
  PROVE  RoundInv'
<1>1. Row(c, "r_wait", "r_read") /\ heard' = heard
  BY RecvRows
<1>2. "r_wait" \in Marked \ {"r_serve"} /\ "r_read" \in Marked \ {"r_serve"}
  BY DEF Marked
<1>3. /\ OneServe' /\ (Served' => Served)
      /\ Round' => Round
      /\ Started' => Started
      /\ Listening' <=> Listening
      /\ \A d \in Client \ {c} : pc'[Recv(d)] = pc[Recv(d)]
      /\ NoneDead => NoneDead'
  BY <1>1, <1>2, RowServe
<1>4. ToRead' = ToRead
  BY <1>1, <1>3 DEF ToRead, Row
<1>5. /\ pc'[Sys] = pc[Sys] /\ audience' = audience /\ disturbed' = disturbed
      /\ val'["serving"] = val["serving"]
      /\ pc[Recv(c)] = "r_wait" /\ pc'[Recv(c)] = "r_read"
  BY <1>1 DEF Row, OnlyRecv
<1>6. AllRead'
  BY <1>1, <1>3, <1>4, <1>5 DEF RoundInv, AllRead
<1>7. QED
  BY <1>3, <1>6 DEF RoundInv

LEMMA RoundRead ==
  ASSUME Frame, Counters, Baton, RoundInv, NEW c \in Client, RecvRead(c)
  PROVE  RoundInv'
<1>1. Row(c, "r_read", "r_close") /\ heard' = heard \union {c} /\ asleep' = asleep
  BY RecvRows DEF Frame
<1>2. "r_read" \in Marked \ {"r_serve"} /\ "r_close" \in Marked \ {"r_serve"}
  BY DEF Marked
<1>3. /\ OneServe' /\ (Served' => Served)
      /\ Round' => Round
      /\ Started' => Started
      /\ Listening' <=> Listening
      /\ \A d \in Client \ {c} : pc'[Recv(d)] = pc[Recv(d)]
      /\ NoneDead => NoneDead'
  BY <1>1, <1>2, RowServe
<1>4. /\ pc'[Sys] = pc[Sys] /\ audience' = audience /\ disturbed' = disturbed
      /\ val'["serving"] = val["serving"]
      /\ pc[Recv(c)] = "r_read" /\ pc'[Recv(c)] = "r_close"
  BY <1>1 DEF Row, OnlyRecv
<1>5. ToRead' = ToRead \ {c} /\ c \in ToRead
  BY <1>3, <1>4 DEF ToRead
<1>6. Round /\ Started
  <2>1. Awake(Recv(c))
    BY DEF RecvRead, At
  <2>2. QED
    BY <1>4, <2>1, ReadersInRound DEF Started
<1>7. c \in audience
  BY <1>5, <1>6 DEF RoundInv, AllRead
<1>8. pc[Sys] # "s_start"
  BY <1>6 DEF Round
<1>9. AllRead'
  BY <1>1, <1>3, <1>4, <1>5, <1>6, <1>7, <1>8 DEF RoundInv, AllRead
<1>10. QED
  BY <1>3, <1>9 DEF RoundInv

LEMMA RoundClose ==
  ASSUME BaseInv, Counters, RoundInv, NEW c \in Client, RecvClose(c)
  PROVE  RoundInv'
<1>1. Row(c, "r_close", "r_last") /\ heard' = heard
  BY RecvRows
<1>2. "r_close" \in Marked \ {"r_serve"} /\ "r_last" \in Marked \ {"r_serve"}
  BY DEF Marked
<1>3. /\ OneServe' /\ (Served' => Served)
      /\ Round' => Round
      /\ Started' => Started
      /\ Listening' <=> Listening
      /\ \A d \in Client \ {c} : pc'[Recv(d)] = pc[Recv(d)]
      /\ NoneDead => NoneDead'
  BY <1>1, <1>2, RowServe
<1>4. ToRead' = ToRead
  BY <1>1, <1>3 DEF ToRead, Row
<1>5. /\ pc'[Sys] = pc[Sys] /\ audience' = audience /\ disturbed' = disturbed
      /\ val'["serving"] = val["serving"]
      /\ pc[Recv(c)] = "r_close" /\ pc'[Recv(c)] = "r_last"
  BY <1>1 DEF Row, OnlyRecv
<1>6. AllRead'
  BY <1>1, <1>3, <1>4, <1>5 DEF RoundInv, AllRead
<1>7. QED
  BY <1>3, <1>6 DEF RoundInv

(* The receiver that finds itself the last tells the system process, and   *)
(* one that does not leaves somebody behind to do it.                      *)
LEMMA RoundLast ==
  ASSUME Frame, Counters, Guarded, Baton, RoundInv, NEW c \in Client, RecvLast(c)
  PROVE  RoundInv'
<1>1. /\ OnlyRecv(c) /\ pc[Recv(c)] = "r_last" /\ heard' = heard /\ asleep' = asleep
      /\ audience' = audience /\ disturbed' = disturbed
      /\ val'["serving"] = val["serving"]
      /\ \/ pc'[Recv(c)] = "r_serve" /\ cnt["clienting"] = Base
         \/ pc'[Recv(c)] = "r_free" /\ cnt["clienting"] # Base
      /\ \A d \in Client : undoVal'[Recv(d)]["serving"] = undoVal[Recv(d)]["serving"]
  BY RecvRows DEF Frame, Row, LastToRead
<1>2. Has(c) /\ Round /\ Started
  BY <1>1, ReadersInRound DEF Started
<1>3. /\ pc'[Sys] = pc[Sys] /\ \A d \in Client \ {c} : pc'[Recv(d)] = pc[Recv(d)]
      /\ Round' = Round /\ Started' = Started /\ Listening' = Listening
  BY <1>1 DEF OnlyRecv, Round, Started, Listening
<1>4. ~Served /\ Listening /\ c \in audience
  BY <1>1, <1>2 DEF RoundInv, OneServe, AllRead, Served, Listening, Round
<1>5. \A d \in Client : pc[Recv(d)] # "r_unlock"
  BY <1>2, NobodySigns DEF Started, Round
<1>6. \A d \in Client \ {c} : pc[Recv(d)] \notin {"r_close", "r_last"}
  BY <1>2, ReadersInRound DEF Baton
<1>7. ToRead' = ToRead
  BY <1>1, <1>3 DEF ToRead
<1>8. NoneDead => NoneDead'
  <2>1. UNCHANGED undoCnt
    BY DEF RecvLast, semVars, cntVars
  <2>2. QED
    BY <1>1, <1>3, <2>1 DEF NoneDead
<1>9. \A d \in Client : pc'[Recv(d)] \in {"r_close", "r_last", "r_serve"} => d \in audience
  BY <1>1, <1>2, <1>3, <1>4 DEF RoundInv, AllRead
<1>10. pc[Sys] # "s_start"
  BY <1>2 DEF Round
<1>11. CASE pc'[Recv(c)] = "r_serve" /\ cnt["clienting"] = Base
  <2>1. \A d \in Client : pc[Recv(d)] \notin {"r_wait", "r_read"}
    <3>1. Holders("clienting") = {}
      <4>1. Cardinality(Holders("clienting")) = 0
        BY <1>11, HoldersFinite, BaseNat DEF Counters, Counted, Sem
      <4>2. QED
        BY <4>1, HoldersFinite, FS_EmptySet
    <3>2. SUFFICES ASSUME NEW d \in Client, pc[Recv(d)] \in {"r_wait", "r_read"}
                   PROVE  FALSE
      OBVIOUS
    <3>3. "clienting" \in Opens(pc[Recv(d)]) /\ pc[Recv(d)] \notin Exits
      BY <3>2 DEF Opens, Exits, SysPC, ShellPC
    <3>4. undoCnt[Recv(d)]["clienting"] = 1
      BY <3>3, ProcFacts DEF Counters, Opened, Sem
    <3>5. QED
      BY <3>1, <3>4, ProcFacts DEF Holders
  <2>2. \A d \in Client :
          pc'[Recv(d)] \notin {"r_unlock", "r_wait", "r_read", "r_close", "r_last"}
    BY <1>3, <1>5, <1>6, <1>11, <2>1
  <2>3. OneServe'
    BY <1>1, <1>3, <1>4, <2>2 DEF RoundInv, OneServe, Served
  <2>4. AllRead'
    BY <1>1, <1>3, <1>4, <1>7, <1>8, <1>9, <1>10, <1>11 DEF RoundInv, AllRead
  <2>5. QED
    BY <2>3, <2>4 DEF RoundInv
<1>12. CASE pc'[Recv(c)] = "r_free" /\ cnt["clienting"] # Base
  <2>1. Served' => Served
    BY <1>1, <1>3, <1>12 DEF Served
  <2>2. OneServe'
    BY <1>1, <1>3, <1>4, <1>12, <2>1 DEF RoundInv, OneServe
  <2>3. ASSUME ~disturbed
        PROVE  \E d \in Client : /\ d \in audience
                                 /\ pc'[Recv(d)] \in {"r_wait", "r_read", "r_close"}
    <3>1. Cardinality(Holders("clienting")) # 0
      BY <1>12, BaseNat DEF Counters, Counted, Sem
    <3>2. PICK p \in Proc : undoCnt[p]["clienting"] = 1
      BY <3>1, FS_EmptySet DEF Holders
    <3>3. "clienting" \in Opens(pc[p])
      BY <3>2 DEF Counters, Opened, Sem
    <3>4. pc[p] \in {"r_unlock", "r_wait", "r_read", "r_close", "r_exit"}
      BY <3>3 DEF Opens, ShellSem
    <3>5. PICK d \in Client : p = Recv(d)
      BY <3>4, ProcFacts DEF Frame, BaseInv, Places, SysPC, ShellPC
    <3>6. NoneDead
      BY <1>2, <2>3 DEF RoundInv, AllRead
    <3>7. pc[Recv(d)] \in {"r_wait", "r_read", "r_close"} /\ d # c
      BY <1>1, <1>5, <3>2, <3>4, <3>5, <3>6 DEF NoneDead
    <3>8. d \in audience
      BY <1>2, <3>7 DEF RoundInv, AllRead, ToRead
    <3>9. QED
      BY <1>3, <3>7, <3>8
  <2>4. AllRead'
    BY <1>1, <1>2, <1>3, <1>7, <1>8, <1>9, <1>10, <2>3 DEF RoundInv, AllRead
  <2>5. QED
    BY <2>2, <2>4 DEF RoundInv
<1>13. QED
  BY <1>1, <1>11, <1>12

LEMMA RoundServe ==
  ASSUME Frame, Baton, RoundInv, NEW c \in Client, RecvServe(c)
  PROVE  RoundInv'
<1> DEFINE s == "serving"
<1>1. /\ OnlyRecv(c)
      /\ \A t \in Sem \ {s} : Same(Proc, t)
      /\ Leaves(Proc, Recv(c), s) \/ \E q \in asleep[s] : Hands(Proc, Recv(c), q, s)
      /\ pc[Recv(c)] = "r_serve" /\ pc'[Recv(c)] = "r_free"
      /\ UNCHANGED <<audience, heard, disturbed, undoCnt>>
  BY RecvSignals DEF RecvServe, Signal, sem_signal, cntVars, history, Frame, Sem, RecvPC
<1>2. Has(c) /\ Round /\ Started
  BY <1>1, ReadersInRound DEF Started
<1>3. /\ pc'[Sys] = pc[Sys] /\ \A d \in Client \ {c} : pc'[Recv(d)] = pc[Recv(d)]
      /\ asleep'["clienting"] = asleep["clienting"]
      /\ Round' = Round /\ Started' = Started
  BY <1>1 DEF OnlyRecv, Same, Round, Started, Sem
<1>4. Listening /\ Served /\ val[s] = 0
  BY <1>1 DEF RoundInv, OneServe, Served
<1>5. \A d \in Client \ {c} : pc[Recv(d)] # "r_serve"
  BY <1>2, ReadersInRound DEF Baton
<1>6. \A d \in Client :
        /\ pc'[Recv(d)] # "r_serve"
        /\ pc'[Recv(d)] \notin {"r_unlock", "r_wait", "r_read", "r_close", "r_last"}
  BY <1>1, <1>3, <1>4, <1>5 DEF RoundInv, OneServe
<1>7. ToRead' = ToRead /\ (NoneDead => NoneDead')
  BY <1>1, <1>3 DEF ToRead, NoneDead
<1>8. CASE Leaves(Proc, Recv(c), s)
  <2>1. val'[s] = 1 /\ asleep[s] = {} /\ asleep'[s] = {}
    BY <1>4, <1>8 DEF Leaves
  <2>2. \A d \in Client : undoVal'[Recv(d)][s] <= 0
    BY <1>8, ProcFacts DEF Leaves, RoundInv, OneServe, Frame, BaseInv, ValTypes, Sem
  <2>3. pc[Sys] = "s_serving"
    BY <1>4, <2>1 DEF Listening
  <2>4. OneServe'
    BY <1>3, <1>6, <2>1, <2>2, <2>3 DEF OneServe
  <2>5. AllRead'
    BY <1>1, <1>2, <1>3, <1>6, <1>7, <2>1, <2>3 DEF RoundInv, AllRead
  <2>6. QED
    BY <2>4, <2>5 DEF RoundInv
<1>9. CASE \E q \in asleep[s] : Hands(Proc, Recv(c), q, s)
  <2>1. PICK q \in asleep[s] : Hands(Proc, Recv(c), q, s)
    BY <1>9
  <2>2. q \in Proc /\ pc[q] = "s_take"
    BY DEF Frame, BaseInv, ValTypes, Sleepers, Bed, Sem, ShellSem
  <2>3. q = Sys
    BY <2>2, ProcFacts DEF Frame, BaseInv, Places, ShellPC, RecvPC
  <2>4. val'[s] = 0 /\ Sys \notin asleep'[s] /\ pc[Sys] = "s_take"
    BY <1>4, <2>1, <2>2, <2>3 DEF Hands
  <2>5. \A d \in Client : undoVal'[Recv(d)][s] <= 0
    BY <2>1, <2>3, ProcFacts DEF Hands, RoundInv, OneServe, Frame, BaseInv, ValTypes, Sem
  <2>6. ~Listening'
    BY <1>3, <2>4 DEF Listening
  <2>7. OneServe'
    BY <1>3, <1>6, <2>4, <2>5 DEF OneServe
  <2>8. AllRead'
    BY <1>1, <1>2, <1>3, <1>6, <1>7, <2>4, <2>6 DEF RoundInv, AllRead
  <2>9. QED
    BY <2>7, <2>8 DEF RoundInv
<1>10. QED
  BY <1>1, <1>8, <1>9

(* The kernel cleans up: what a receiver owes serving is never positive.   *)
LEMMA RoundUndo ==
  ASSUME Frame, RoundInv, NEW c \in Client, RecvUndo(c)
  PROVE  RoundInv'
<1>1. PICK s \in Sem : /\ Undo(Recv(c), s) /\ pc[Recv(c)] = "r_exit" /\ UNCHANGED pc
                       /\ disturbed' = TRUE /\ UNCHANGED <<audience, heard>>
  BY DEF RecvUndo
<1>2. /\ \A t \in Sem \ {s} : Same(Proc, t)
      /\ undoVal'[Recv(c)][s] = 0
  BY <1>1, UndoBase, ProcFacts DEF Frame
<1>3. asleep'[s] \subseteq asleep[s]
  BY <1>1 DEF Undo, Frame, BaseInv, ValTypes
<1>4. Sys \in asleep'["clienting"] => Sys \in asleep["clienting"]
  BY <1>2, <1>3 DEF Same, Sem
<1>5. CASE s # "serving"
  <2>1. Same(Proc, "serving")
    BY <1>2, <1>5 DEF Sem
  <2>2. Aside
    BY <1>1, <1>4, <2>1, ProcFacts DEF Aside, Same, RoundInv, OneServe
  <2>3. QED
    BY <1>1, <2>2, RoundKept
<1>6. CASE s = "serving"
  <2>1. undoVal[Recv(c)][s] <= 0 /\ undoVal[Recv(c)][s] \in Int /\ val[s] \in 0..1
    BY <1>6, ProcFacts DEF RoundInv, OneServe, Frame, BaseInv, ValTypes
  <2> DEFINE sum == val[s] + undoVal[Recv(c)][s]
             n   == IF sum > 0 THEN sum ELSE 0
  <2>a. PICK woken \in SUBSET asleep[s] :
          /\ Cardinality(woken) <= n
          /\ val' = [val EXCEPT ![s] = n - Cardinality(woken)]
          /\ asleep' = [asleep EXCEPT ![s] = @ \ woken]
          /\ undoVal' = [q \in DOMAIN undoVal |->
                           IF q = Recv(c) THEN [undoVal[q] EXCEPT ![s] = 0]
                           ELSE IF q \in woken THEN [undoVal[q] EXCEPT ![s] = @ + 1]
                           ELSE undoVal[q]]
    BY <1>1 DEF Undo
  <2>2. n \in Nat /\ n <= val[s] /\ Cardinality(woken) <= n
    BY <2>1, <2>a
  <2> HIDE DEF n
  <2>3. woken = {}
    <3>1. CASE val[s] = 0
      <4>1. IsFiniteSet(woken)
        BY ProcFinite, FS_Subset DEF Frame, BaseInv, ValTypes
      <4>2. Cardinality(woken) = 0
        BY <2>2, <3>1, <4>1, FS_CardinalityType
      <4>3. QED
        BY <4>1, <4>2, FS_EmptySet
    <3>2. CASE val[s] = 1
      BY <3>2 DEF Frame, BaseInv, Prompt
    <3>3. QED
      BY <2>1, <3>1, <3>2
  <2>4. val'[s] = n /\ asleep'[s] = asleep[s]
    BY <2>2, <2>a, <2>3, FS_EmptySet DEF Frame, BaseInv, ValTypes
  <2>5. \A d \in Client : undoVal'[Recv(d)][s] <= 0
    BY <1>2, <1>6, <2>a, <2>3, ProcFacts DEF RoundInv, OneServe, Frame, BaseInv, ValTypes
  <2>6. val'[s] \in {0, val[s]}
    BY <2>1, <2>2, <2>4
  <2>7. Aside
    BY <1>1, <1>4, <1>6, <2>4, <2>5, <2>6 DEF Aside
  <2>8. QED
    BY <1>1, <2>7, RoundKept
<1>7. QED
  BY <1>5, <1>6

LEMMA RoundRecv ==
  ASSUME Frame, Counters, Guarded, Baton, RoundInv, NEW c \in Client, RecvNext(c)
  PROVE  RoundInv'
<1>1. CASE RecvOpen(c) \/ RecvLock(c) \/ RecvFree(c) \/ RecvPass(c)
  <2>1. \E l, m \in {"r_open", "r_lock", "r_sign", "r_free", "r_pass"} :
          Row(c, l, m) /\ heard' = heard
    BY <1>1, RecvRows DEF Frame
  <2>2. {"r_open", "r_lock", "r_sign", "r_free", "r_pass"} \intersect
          (Marked \union {"r_exit"}) = {}
    BY DEF Marked
  <2>3. QED
    BY <2>1, <2>2, RowAside
<1>2. CASE RecvSign(c) \/ RecvUnlock(c)
  BY <1>2, RoundSign
<1>3. CASE RecvWait(c) \/ RecvClose(c)
  BY <1>3, RoundWait, RoundClose DEF Frame
<1>4. CASE RecvRead(c) \/ RecvLast(c) \/ RecvServe(c) \/ RecvUndo(c)
  BY <1>4, RoundRead, RoundLast, RoundServe, RoundUndo
<1>5. QED
  BY <1>1, <1>2, <1>3, <1>4 DEF RecvNext

(* Steps of the shells and of the server.                                  *)
Elsewhere ==
  /\ pc'[Sys] = pc[Sys]
  /\ Same(Proc, "serving") /\ Same(Proc, "clienting")
  /\ \A c \in Client :
       /\ \/ pc'[Recv(c)] = pc[Recv(c)]
          \/ pc[Recv(c)] = "r_none" /\ pc'[Recv(c)] = "r_open"
       /\ undoCnt'[Recv(c)]["clienting"] = undoCnt[Recv(c)]["clienting"]
  /\ UNCHANGED <<audience, heard, disturbed>>

LEMMA RoundElsewhere ==
  ASSUME RoundInv, Elsewhere
  PROVE  RoundInv'
<1>1. \A c \in Client : undoVal'[Recv(c)]["serving"] <= 0
  BY ProcFacts DEF Elsewhere, Same, RoundInv, OneServe
<1>2. Aside
  BY <1>1 DEF Aside, Elsewhere, Same, Marked
<1>3. ~disturbed' => Undisturbed
  BY DEF Undisturbed, Elsewhere, Same, Marked
<1>4. QED
  BY <1>2, <1>3, RoundKept

LEMMA ShellsElsewhere ==
  ASSUME Frame, Counters, Apart, NEW c \in Client,
         Ordinary(c) \/ ShellUndo(c) \/ Accept(c) \/ JobEnds(c)
  PROVE  Elsewhere
<1>a. /\ "serving" \in Sem \ ShellSem /\ "clienting" \in Sem \ ShellSem
      /\ \A d \in Client : Recv(d) \in Proc /\ Recv(d) # Shell(c)
  BY ProcFacts DEF Sem, ShellSem
<1>1. UNCHANGED <<audience, heard, disturbed>>
  BY DEF Ordinary, history, ShellPoll, ShellDrain, ShellLock, ShellWrite, ShellRing,
    ShellWait, ShellUnlock, ShellLook, ReapReceiver, ShellClose, ReadLine, Leave, RunRequest,
    RunJob, ShellUndo, Accept, JobEnds, Wait, Signal
<1>2. CASE Ordinary(c)
  <2>1. Same(Proc, "serving") /\ Same(Proc, "clienting")
    BY <1>2, <1>a, ShellWorks DEF Frame, Still, Works
  <2>2. OnlyShell(c)
    BY <1>2, ShellSteps DEF Frame
  <2>3. \A d \in Client : undoCnt'[Recv(d)] = undoCnt[Recv(d)]
    <3>1. CASE ShellClose(c)
      BY <1>a, <3>1 DEF ShellClose, sem_close, Counters, CntTypes
    <3>2. CASE ~ShellClose(c)
      BY <1>2, <3>2, ShellAlike DEF Frame, cntVars
    <3>3. QED
      BY <3>1, <3>2
  <2>4. QED
    BY <1>1, <2>1, <2>2, <2>3 DEF Elsewhere, OnlyShell
<1>3. CASE ShellUndo(c)
  <2>1. Same(Proc, "serving") /\ Same(Proc, "clienting")
    BY <1>3, <1>a, UndoApart DEF Frame
  <2>2. UNCHANGED pc /\ \A d \in Client : undoCnt'[Recv(d)] = undoCnt[Recv(d)]
    BY <1>3, <1>a DEF ShellUndo, Undo, Counters, CntTypes
  <2>3. QED
    BY <1>1, <2>1, <2>2 DEF Elsewhere
<1>4. CASE Accept(c)
  <2>1. pc[Recv(c)] = "r_none"
    BY <1>4 DEF Accept, Frame, Born
  <2>2. /\ Same(Proc, "serving") /\ Same(Proc, "clienting")
        /\ pc'[Recv(c)] = "r_open" /\ pc'[Sys] = pc[Sys]
        /\ \A d \in Client \ {c} : pc'[Recv(d)] = pc[Recv(d)]
    BY <1>4, <1>a, <2>1, AcceptSteps DEF Frame
  <2>3. \A d \in Client : undoCnt'[Recv(d)] = undoCnt[Recv(d)]
    BY <1>4, <1>a DEF Accept, sem_open, Counters, CntTypes
  <2>4. QED
    BY <1>1, <2>1, <2>2, <2>3 DEF Elsewhere
<1>5. CASE JobEnds(c)
  <2>1. UNCHANGED <<pc, val, undoVal, undoCnt>>
    BY <1>5 DEF JobEnds, Dequeue, semVars, valVars, cntVars
  <2>2. ASSUME NEW s \in {"serving", "clienting"} PROVE asleep'[s] = asleep[s]
    <3>1. s \in Sem \ ShellSem /\ Shell(c) \notin asleep[s]
      BY <1>a, <2>2, SleeperKinds DEF Frame
    <3>2. CASE UNCHANGED semVars
      BY <3>2 DEF semVars, valVars
    <3>3. CASE Dequeue(Shell(c))
      <4>1. asleep'[s] = asleep[s] \ {Shell(c)}
        BY <3>1, <3>3 DEF Dequeue, Frame, BaseInv, ValTypes
      <4>2. QED
        BY <3>1, <4>1
    <3>4. QED
      BY <1>5, <3>2, <3>3 DEF JobEnds
  <2>3. QED
    BY <1>1, <2>1, <2>2 DEF Elsewhere, Same
<1>6. QED
  BY <1>2, <1>3, <1>4, <1>5

LEMMA RoundKill ==
  ASSUME Frame, RoundInv, NEW c \in Client, KillReceiver(c)
  PROVE  RoundInv'
<1>1. /\ pc'[Sys] = pc[Sys] /\ pc'[Recv(c)] = "r_exit"
      /\ \A d \in Client \ {c} : pc'[Recv(d)] = pc[Recv(d)]
      /\ \A t \in Sem : /\ val'[t] = val[t] /\ asleep'[t] = asleep[t] \ {Recv(c)}
                        /\ \A q \in Proc : undoVal'[q][t] = undoVal[q][t]
  BY KillSteps DEF Frame
<1>2. disturbed' = TRUE /\ UNCHANGED <<audience, heard>>
  BY DEF KillReceiver
<1>3. \A d \in Client : undoVal'[Recv(d)]["serving"] <= 0
  BY <1>1, ProcFacts DEF RoundInv, OneServe, Sem
<1>4. \A s \in {"serving", "clienting"} : (Sys \in asleep'[s]) <=> (Sys \in asleep[s])
  BY <1>1, ProcFacts DEF Sem
<1>5. Aside
  BY <1>1, <1>2, <1>3, <1>4 DEF Aside, Marked, Sem
<1>6. QED
  BY <1>2, <1>5, RoundKept

LEMMA RoundNext ==
  Frame /\ Counters /\ Apart /\ Guarded /\ Baton /\ RoundInv /\ [Next]_vars => RoundInv'
<1> SUFFICES ASSUME Frame, Counters, Apart, Guarded, Baton, RoundInv, [Next]_vars
             PROVE  RoundInv'
  OBVIOUS
<1>1. CASE SysNext
  BY <1>1, RoundSys
<1>2. ASSUME NEW c \in Client, RecvNext(c) PROVE RoundInv'
  BY <1>2, RoundRecv
<1>3. ASSUME NEW c \in Client, Ordinary(c) \/ ShellUndo(c) \/ Accept(c) \/ JobEnds(c)
      PROVE  RoundInv'
  BY <1>3, ShellsElsewhere, RoundElsewhere
<1>4. ASSUME NEW c \in Client, KillReceiver(c) PROVE RoundInv'
  BY <1>4, RoundKill
<1>5. CASE UNCHANGED vars
  BY <1>5, RoundElsewhere DEF vars, semVars, valVars, cntVars, history, Elsewhere, Same
<1>6. QED
  BY <1>1, <1>2, <1>3, <1>4, <1>5, StepCases

LEMMA RoundInit == Init => RoundInv
<1> SUFFICES ASSUME Init PROVE RoundInv
  OBVIOUS
<1>1. /\ val["serving"] = 0
      /\ \A c \in Client : undoVal[Recv(c)]["serving"] = 0
      /\ asleep["clienting"] = {}
  BY ProcFacts DEF Init, Zero, Sem, ShellSem
<1>2. pc[Sys] = "s_idle" /\ \A c \in Client : pc[Recv(c)] = "r_none"
  BY ProcFacts DEF Init, Sys, Recv
<1>3. ~Started /\ ~Listening /\ ~Served /\ ~Round
  BY <1>1, <1>2 DEF Started, Listening, Served, Round
<1>4. QED
  BY <1>1, <1>2, <1>3 DEF RoundInv, OneServe, AllRead

-----------------------------------------------------------------------------
(* What follows for the announcements.                                     *)

LEMMA AudienceHolds == Frame /\ Baton /\ RoundInv => AudienceOnce
<1> SUFFICES ASSUME Frame, Baton, RoundInv, NEW c \in Client,
                    pc[Recv(c)] = "r_read", Awake(Recv(c))
             PROVE  c \in audience \ heard
  BY DEF AudienceOnce
<1>1. Started
  BY ReadersInRound DEF Started
<1>2. QED
  BY <1>1 DEF RoundInv, AllRead, ToRead

LEMMA NobodyHolds == Frame /\ RoundInv => NobodySkipped
<1> SUFFICES ASSUME Frame, RoundInv, pc[Sys] = "s_take", Awake(Sys), ~disturbed
             PROVE  audience \subseteq heard
  BY DEF NobodySkipped
<1>1. Sys \notin asleep["serving"]
  BY DEF Awake, Frame, BaseInv, ValTypes, Sem
<1>2. Started /\ Served
  BY <1>1 DEF Started, Round, Served
<1>3. audience \ heard \subseteq ToRead /\ ToRead = {}
  BY <1>2 DEF RoundInv, AllRead, OneServe, ToRead
<1>4. QED
  BY <1>3

LEMMA WakeupHolds == Frame /\ RoundInv => WakeupOwed
<1> SUFFICES ASSUME Frame, RoundInv, Sys \in asleep["serving"], ~disturbed
             PROVE  \E c \in audience :
                      pc[Recv(c)] \in {"r_unlock", "r_wait", "r_read", "r_close", "r_last",
                                       "r_serve"}
  BY DEF WakeupOwed
<1>1. pc[Sys] = "s_take"
  BY DEF Frame, BaseInv, Sleepers, Bed, Sem, ShellSem
<1>2. val["serving"] = 0
  BY DEF Frame, BaseInv, ValTypes, Prompt, Sem
<1>3. PICK c \in Client :
        /\ c \in audience
        /\ pc[Recv(c)] \in {"r_wait", "r_read", "r_close", "r_last", "r_serve"}
  BY <1>1, <1>2 DEF Listening, RoundInv, AllRead
<1>4. QED
  BY <1>3

-----------------------------------------------------------------------------
(* The sync loop.                                                          *)

(* While the system process compares and no receiver comes or goes, the    *)
(* count it compares with stays what it was, and only receivers that are   *)
(* counted by it are signed up.                                            *)
Within ==
  \A c \in Client : undoCnt[Recv(c)]["clienting"] = 1 => undoCnt[Recv(c)]["clisem"] = 1

Synced ==
  /\ pc[Sys] \in {"s_compare", "s_reply"} /\ ~moved => Within
  /\ pc[Sys] = "s_compare" /\ ~moved => seen = cnt["clisem"]
  /\ EverybodyBack

LEMMA SyncOther == pc'[Sys] \notin {"s_compare", "s_reply"} => Synced'
BY DEF Synced, EverybodyBack

(* Nobody comes, goes or signs up.                                         *)
Quiet ==
  /\ cnt'["clisem"] = cnt["clisem"]
  /\ \A c \in Client : \A s \in {"clisem", "clienting"} :
       undoCnt'[Recv(c)][s] = undoCnt[Recv(c)][s]
  /\ moved' = moved

LEMMA SyncQuiet ==
  ASSUME Synced, pc'[Sys] = pc[Sys], seen' = seen, moved' = TRUE \/ Quiet
  PROVE  Synced'
BY DEF Synced, EverybodyBack, Within, Quiet

LEMMA SyncSys ==
  ASSUME Frame, Counters, Data, Synced, SysNext
  PROVE  Synced'
<1>a. /\ "clisem" \in Sem /\ "clienting" \in Sem
      /\ cnt["clisem"] = Base - Cardinality(Holders("clisem"))
      /\ cnt["clienting"] = Base - Cardinality(Holders("clienting"))
  BY DEF Sem, Counters, Counted
<1>1. CASE SysSync
  <2>1. /\ seen' = cnt["clisem"] /\ moved' = Dying /\ UNCHANGED <<cnt, undoCnt>>
        /\ pc'[Sys] = "s_compare"
    BY <1>1, ProcFacts DEF SysSync, Goto, semVars, cntVars, Frame, BaseInv, Places
  <2>2. ASSUME ~Dying, NEW c \in Client, undoCnt[Recv(c)]["clienting"] = 1
        PROVE  undoCnt[Recv(c)]["clisem"] = 1
    <3>1. pc[Recv(c)] # "r_exit"
      BY <1>a, <2>2 DEF Dying, Settled, Owes, Frame, BaseInv, ValTypes
    <3>2. "clienting" \in Opens(pc[Recv(c)]) /\ pc[Recv(c)] \in RecvPC
      BY <1>a, <2>2, ProcFacts DEF Counters, Opened, Frame, BaseInv, Places
    <3>3. "clisem" \in Opens(pc[Recv(c)])
      BY <3>2 DEF Opens, RecvPC, SysPC, ShellPC
    <3>4. pc[Recv(c)] \notin Exits
      BY <3>1, <3>2 DEF Exits, RecvPC
    <3>5. QED
      BY <1>a, <3>3, <3>4, ProcFacts DEF Counters, Opened
  <2>3. ~Dying => Within'
    BY <2>1, <2>2 DEF Within
  <2>4. QED
    BY <2>1, <2>3 DEF Synced, EverybodyBack
<1>2. CASE SysCompare
  <2>1. /\ pc[Sys] = "s_compare" /\ UNCHANGED <<cnt, undoCnt, seen, moved>>
        /\ \/ pc'[Sys] = "s_reply" /\ seen = cnt["clienting"]
           \/ pc'[Sys] = "s_sync"
    BY <1>2, ProcFacts DEF SysCompare, At, Goto, semVars, cntVars, history, Frame, BaseInv,
      Places
  <2>2. CASE pc'[Sys] = "s_sync"
    BY <2>2, SyncOther
  <2>3. CASE pc'[Sys] = "s_reply" /\ moved
    BY <2>1, <2>3 DEF Synced, EverybodyBack
  <2>4. CASE pc'[Sys] = "s_reply" /\ ~moved
    <3>1. Within /\ cnt["clisem"] = cnt["clienting"]
      BY <2>1, <2>4 DEF Synced
    <3>2. Holders("clienting") \subseteq Holders("clisem")
      <4>1. SUFFICES ASSUME NEW p \in Proc, undoCnt[p]["clienting"] = 1
                     PROVE  undoCnt[p]["clisem"] = 1
        BY DEF Holders
      <4>2. "clienting" \in Opens(pc[p])
        BY <1>a, <4>1 DEF Counters, Opened
      <4>3. pc[p] \in {"r_unlock", "r_wait", "r_read", "r_close", "r_exit"}
        BY <4>2 DEF Opens, ShellSem
      <4>4. PICK c \in Client : p = Recv(c)
        BY <4>3, ProcFacts DEF Frame, BaseInv, Places, SysPC, ShellPC
      <4>5. QED
        BY <3>1, <4>1, <4>4 DEF Within
    <3>3. Cardinality(Holders("clienting")) = Cardinality(Holders("clisem"))
      BY <1>a, <3>1, HoldersFinite, BaseNat
    <3>4. Holders("clienting") = Holders("clisem")
      BY <3>2, <3>3, HoldersFinite, FS_Subset
    <3>5. \A c \in Client : undoCnt[Recv(c)]["clisem"] = 1 => undoCnt[Recv(c)]["clienting"] = 1
      BY <3>4, ProcFacts DEF Holders
    <3>6. QED
      BY <2>1, <2>4, <3>1, <3>5 DEF Synced, EverybodyBack, Within
  <2>5. QED
    BY <2>1, <2>2, <2>3, <2>4
<1>3. CASE ~SysSync /\ ~SysCompare
  <2>1. pc'[Sys] \notin {"s_compare", "s_reply"}
    BY <1>3, ProcFacts DEF SysNext, SysAwaitCall, SysPoll, SysDrain, SysRead, SysWrite,
      SysLock, SysCount, SysStart, SysServing, SysTake, SysUnlock, SysReply, Wait, Signal,
      Goto, Frame, BaseInv, Places
  <2>2. QED
    BY <2>1, SyncOther
<1>4. QED
  BY <1>1, <1>2, <1>3

LEMMA SyncRecv ==
  ASSUME Frame, Counters, Baton, Synced, NEW c \in Client, RecvNext(c)
  PROVE  Synced'
<1>a. /\ pc'[Sys] = pc[Sys] /\ seen' = seen
      /\ "clisem" \in Sem /\ "clienting" \in Sem
      /\ \A d \in Client : Recv(d) \in Proc /\ (d # c => Recv(d) # Recv(c))
  <2>1. pc'[Sys] = pc[Sys]
    BY RecvSteps DEF Frame, OnlyRecv
  <2>2. seen' = seen
    BY DEF RecvNext, RecvOpen, RecvLock, RecvSign, RecvUnlock, RecvWait, RecvRead, RecvClose,
      RecvLast, RecvServe, RecvFree, RecvPass, RecvUndo, Wait, Signal
  <2>3. QED
    BY <2>1, <2>2, ProcFacts DEF Sem
<1>1. CASE RecvOpen(c) \/ RecvUndo(c)
  BY <1>1, <1>a, SyncQuiet DEF RecvOpen, RecvUndo
<1>2. CASE RecvSign(c)
  <2>1. /\ undoCnt'[Recv(c)]["clienting"] = 1
        /\ undoCnt'[Recv(c)]["clisem"] = undoCnt[Recv(c)]["clisem"]
        /\ cnt'["clisem"] = cnt["clisem"] /\ moved' = moved
        /\ \A d \in Client \ {c} : undoCnt'[Recv(d)] = undoCnt[Recv(d)]
    <3>1. undoCnt[Recv(c)]["clienting"] = 0
      <4>1. "clienting" \notin Opens("r_sign") /\ pc[Recv(c)] = "r_sign"
        BY <1>2 DEF RecvSign, At, Opens, SysPC, ShellPC
      <4>2. QED
        BY <1>a, <4>1 DEF Counters, Opened, CntTypes
    <3>2. QED
      BY <1>2, <1>a, <3>1 DEF RecvSign, sem_open, history, Counters, CntTypes
  <2>2. undoCnt[Recv(c)]["clisem"] = 1
    <3>1. "clisem" \in Opens("r_sign") /\ "r_sign" \notin Exits /\ pc[Recv(c)] = "r_sign"
      BY <1>2 DEF RecvSign, At, Opens, Exits, SysPC, ShellPC
    <3>2. QED
      BY <1>a, <3>1 DEF Counters, Opened
  <2>3. Within => Within'
    BY <2>1, <2>2 DEF Within
  <2>4. EverybodyBack'
    BY <1>a, <2>1 DEF Synced, EverybodyBack
  <2>5. QED
    BY <1>a, <2>1, <2>3, <2>4 DEF Synced
<1>3. CASE RecvClose(c)
  <2>1. Round
    BY <1>3, ReadersInRound DEF RecvClose, At
  <2>2. QED
    BY <1>a, <2>1, SyncOther DEF Round
<1>4. CASE RecvFree(c)
  <2>1. Quiet
    BY <1>4 DEF RecvFree, op_unlock, history, Quiet
  <2>2. QED
    BY <1>a, <2>1, SyncQuiet
<1>5. CASE \/ RecvLock(c) \/ RecvUnlock(c) \/ RecvWait(c) \/ RecvRead(c) \/ RecvLast(c)
           \/ RecvServe(c) \/ RecvPass(c)
  <2>1. UNCHANGED cntVars
    BY <1>5, RecvAlike DEF Frame
  <2>2. moved' = moved
    BY <1>5 DEF RecvLock, RecvUnlock, RecvWait, RecvRead, RecvLast, RecvServe, RecvPass, Wait,
      Signal, history
  <2>3. QED
    BY <1>a, <2>1, <2>2, SyncQuiet DEF Quiet, cntVars
<1>6. QED
  BY <1>1, <1>2, <1>3, <1>4, <1>5 DEF RecvNext

LEMMA SyncShell ==
  ASSUME Frame, Counters, Synced, NEW c \in Client,
         \/ Ordinary(c) \/ KillReceiver(c) \/ ShellUndo(c) \/ Accept(c) \/ JobEnds(c)
  PROVE  Synced'
<1>a. /\ "clisem" \in Sem \ ShellSem /\ "clienting" \in Sem \ ShellSem
      /\ Shell(c) \in Proc
      /\ \A d \in Client : Recv(d) \in Proc /\ Recv(d) # Shell(c)
  BY ProcFacts DEF Sem, ShellSem
<1>b. pc'[Sys] = pc[Sys]
  <2>1. Accept(c) => pc[Recv(c)] = "r_none"
    BY DEF Accept, Frame, Born
  <2>2. QED
    BY <2>1, ShellSteps, KillSteps, ShellUndoes, AcceptSteps, JobSteps
    DEF Frame, OnlyShell
<1>c. seen' = seen /\ moved' = moved
  BY DEF Ordinary, history, ShellPoll, ShellDrain, ShellLock, ShellWrite, ShellRing,
    ShellWait, ShellUnlock, ShellLook, ReapReceiver, ShellClose, ReadLine, Leave, RunRequest,
    RunJob, KillReceiver, ShellUndo, Accept, JobEnds, Wait, Signal
<1>1. CASE UNCHANGED cntVars
  BY <1>1, <1>b, <1>c, SyncQuiet DEF Quiet, cntVars
<1>2. CASE ShellClose(c) \/ Accept(c)
  <2>1. Quiet
    BY <1>2, <1>a, <1>c DEF ShellClose, Accept, sem_close, sem_open, Counters, CntTypes, Quiet
  <2>2. QED
    BY <1>b, <1>c, <2>1, SyncQuiet
<1>3. CASE ShellUndo(c)
  <2>1. PICK s \in Sem : Undo(Shell(c), s) /\ pc[Shell(c)] = "h_exit"
    BY <1>3 DEF ShellUndo
  <2>2. undoCnt[Shell(c)]["clisem"] = 0
    <3>1. "clisem" \notin Opens("h_exit")
      BY DEF Opens, SysPC, ShellPC, ShellSem
    <3>2. QED
      BY <1>a, <2>1, <3>1 DEF Counters, Opened, CntTypes
  <2>3. Quiet
    BY <1>a, <1>c, <2>1, <2>2 DEF Undo, Counters, CntTypes, Quiet
  <2>4. QED
    BY <1>b, <1>c, <2>3, SyncQuiet
<1>4. QED
  <2>1. Ordinary(c) => ShellClose(c) \/ UNCHANGED cntVars
    BY ShellAlike DEF Frame
  <2>2. KillReceiver(c) \/ JobEnds(c) => UNCHANGED cntVars
    BY DEF KillReceiver, JobEnds, Dequeue, semVars
  <2>3. QED
    BY <1>1, <1>2, <1>3, <2>1, <2>2

LEMMA SyncedNext ==
  Frame /\ Counters /\ Data /\ Baton /\ Synced /\ [Next]_vars => Synced'
<1> SUFFICES ASSUME Frame, Counters, Data, Baton, Synced, [Next]_vars PROVE Synced'
  OBVIOUS
<1>1. CASE UNCHANGED vars
  <2>1. Quiet /\ pc' = pc /\ seen' = seen
    BY <1>1 DEF vars, semVars, cntVars, history, Quiet
  <2>2. QED
    BY <2>1, SyncQuiet
<1>2. QED
  BY <1>1, SyncSys, SyncRecv, SyncShell, StepCases

LEMMA SyncedInit == Init => Synced
<1> SUFFICES ASSUME Init PROVE Synced
  OBVIOUS
<1>1. pc[Sys] = "s_idle"
  BY ProcFacts DEF Init, Sys
<1>2. QED
  BY <1>1 DEF Synced, EverybodyBack

-----------------------------------------------------------------------------
(* A request and its answer.                                               *)

(* c has rung for the system process and waits for its answer; it has it.  *)
Waits(c) == \/ pc[Shell(c)] = "h_wait"
            \/ pc[Shell(c)] = "h_unlock" /\ Shell(c) \in asleep["call_system_end"]
Got(c) == pc[Shell(c)] = "h_unlock" /\ Shell(c) \notin asleep["call_system_end"]

(* The bell has rung; the system process is about it; its answer is there. *)
Rung == val["servsem"] = 1
Busy == pc[Sys] # "s_idle" /\ Sys \notin asleep["servsem"]
There == val["call_system_end"] = 1

Written == Rung \/ (Busy /\ pc[Sys] \in {"s_poll", "s_read"})
Copied == Busy /\ pc[Sys] = "s_write"
Replied == Busy /\ pc[Sys] \notin {"s_poll", "s_read", "s_write"}

(* One request goes round at a time, from shm to req and back.             *)
Call ==
  /\ val["servsem"] \in 0..1 /\ val["call_system_end"] \in 0..1
  /\ ~(Rung /\ Busy) /\ ~(Rung /\ There) /\ ~(Busy /\ There)
  /\ Rung \/ Busy \/ There => \E c \in Client : Waits(c)
  /\ pc[Sys] # "s_drain" /\ Sys \notin asleep["call_system_end"]
  /\ \A c \in Client :
       /\ pc[Shell(c)] = "h_ring" \/ (Waits(c) /\ Written) => shm = Request(c)
       /\ Waits(c) /\ (Copied \/ Replied) => req = Request(c)
       /\ Got(c) \/ (Waits(c) /\ (Replied \/ There)) => shm = Reply(c)

CallInv == Clean => Call

CallBell == "servsem" \in Sem /\ "call_system_end" \in Sem

LEMMA BellFact == CallBell
BY DEF CallBell, Sem, ShellSem

Asking == {"h_ring", "h_wait", "h_unlock"}

(* Nobody else is in.                                                      *)
LEMMA Lone ==
  ASSUME Frame, Door, NEW c \in Client, NEW d \in Client,
         pc[Shell(d)] \in Asking, \/ pc[Shell(c)] \in Asking
                                  \/ pc[Shell(c)] = "h_write" /\ Awake(Shell(c))
  PROVE  c = d
<1>1. In(d)
  BY DEF In, Asking, CallPC, Frame, BaseInv, Sleepers, Bed, Sem, ShellSem
<1>2. In(c)
  BY DEF In, Asking, CallPC, Awake, Frame, BaseInv, ValTypes, Sleepers, Bed, Sem, ShellSem
<1>3. QED
  BY <1>1, <1>2 DEF Door

(* Steps that touch neither the bell, the answers nor the buffer.          *)
Unheard ==
  /\ pc'[Sys] = pc[Sys] /\ shm' = shm /\ req' = req
  /\ Same(Proc, "servsem") /\ Same(Proc, "call_system_end")
  /\ \A c \in Client :
       \/ pc'[Shell(c)] = pc[Shell(c)] /\ Request(c)' = Request(c)
       \/ pc'[Shell(c)] \notin Asking /\ ~Waits(c)

LEMMA CallUnheard ==
  ASSUME Call, Unheard
  PROVE  Call'
<1>1. /\ Rung' = Rung /\ Busy' = Busy /\ There' = There
      /\ Written' = Written /\ Copied' = Copied /\ Replied' = Replied
      /\ val'["servsem"] \in 0..1 /\ val'["call_system_end"] \in 0..1
      /\ pc'[Sys] # "s_drain" /\ Sys \notin asleep'["call_system_end"]
  BY DEF Unheard, Same, Rung, Busy, There, Written, Copied, Replied, Call
<1>2. ASSUME NEW c \in Client
      PROVE  /\ Waits(c)' <=> Waits(c)
             /\ Waits(c)' \/ Got(c)' \/ pc'[Shell(c)] = "h_ring" => Request(c)' = Request(c)
             /\ Got(c)' => Got(c)
             /\ pc'[Shell(c)] = "h_ring" => pc[Shell(c)] = "h_ring"
  BY DEF Unheard, Same, Waits, Got, Asking
<1>3. \A c \in Client : Waits(c)' \/ Got(c)' => Reply(c)' = Reply(c)
  BY <1>2 DEF Reply
<1>4. shm' = shm /\ req' = req
  BY DEF Unheard
<1>5. QED
  BY <1>1, <1>2, <1>3, <1>4 DEF Call

-----------------------------------------------------------------------------
(* The system process.  Its steps move no shell.                           *)

LEMMA SysShells ==
  ASSUME BaseInv, SysNext
  PROVE  \A c \in Client : /\ pc'[Shell(c)] = pc[Shell(c)]
                           /\ Request(c)' = Request(c) /\ Reply(c)' = Reply(c)
<1>1. OnlySys
  BY SysSteps
<1>2. UNCHANGED <<op, cmds>>
  BY DEF SysNext, shellVars, SysAwaitCall, SysPoll, SysDrain, SysRead, SysWrite, SysLock,
    SysCount, SysStart, SysServing, SysTake, SysUnlock, SysSync, SysCompare, SysReply, Wait,
    Signal
<1>3. QED
  BY <1>1, <1>2 DEF OnlySys, Request, Reply

(* It takes the bell's token, or waits for it.                             *)
LEMMA CallAwait ==
  ASSUME Frame, Call, SysAwaitCall
  PROVE  Call'
<1>1. /\ \A t \in Sem \ {"servsem"} : Same(Proc, t)
      /\ Takes(Proc, Sys, "servsem") \/ Sleeps(Proc, Sys, "servsem")
      /\ pc[Sys] = "s_idle" /\ pc'[Sys] = "s_poll" /\ Awake(Sys)
  BY SysWaits DEF SysAwaitCall, Frame, Sem, ShellSem, Bed, SysPC
<1>2. /\ Same(Proc, "call_system_end") /\ shm' = shm /\ req' = req
      /\ Sys \notin asleep["servsem"]
  BY <1>1 DEF SysAwaitCall, Wait, Awake, Sem, ShellSem, Frame, BaseInv, ValTypes
<1>3. \A c \in Client : /\ pc'[Shell(c)] = pc[Shell(c)]
                        /\ Request(c)' = Request(c) /\ Reply(c)' = Reply(c)
  BY SysShells DEF SysNext, Frame
<1>4. \A c \in Client : (Waits(c)' <=> Waits(c)) /\ (Got(c)' <=> Got(c))
  BY <1>2, <1>3 DEF Same, Waits, Got
<1>5. There' = There /\ ~Busy /\ ~Copied' /\ ~Replied'
  BY <1>1, <1>2 DEF Same, There, Busy, Copied, Replied
<1>6. CASE Takes(Proc, Sys, "servsem")
  <2>1. Rung /\ val'["servsem"] = 0 /\ ~Rung' /\ Busy' /\ Written'
    BY <1>1, <1>2, <1>6 DEF Takes, Rung, Busy, Written, Call
  <2>2. QED
    BY <1>1, <1>2, <1>3, <1>4, <1>5, <2>1 DEF Call, Same, Written
<1>7. CASE Sleeps(Proc, Sys, "servsem")
  <2>1. ~Rung' /\ ~Busy' /\ ~Written' /\ val'["servsem"] = 0
    BY <1>7 DEF Sleeps, Rung, Busy, Written
  <2>2. QED
    BY <1>1, <1>2, <1>3, <1>4, <1>5, <2>1 DEF Call, Same
<1>8. QED
  BY <1>1, <1>6, <1>7

(* It works on the request: nothing but its own place and the buffer       *)
(* changes.                                                                *)
LEMMA CallWorks ==
  ASSUME Frame, Door, Call, SysNext, pc[Sys] # "s_idle", pc'[Sys] \notin {"s_idle", "s_drain"},
         Awake(Sys), Same(Proc, "servsem"), Same(Proc, "call_system_end"),
         \A c \in Client : Waits(c) =>
           /\ Written' => shm' = Request(c)
           /\ Copied' \/ Replied' => req' = Request(c)
           /\ Replied' => shm' = Reply(c)
  PROVE  Call'
<1>1. \A c \in Client : /\ pc'[Shell(c)] = pc[Shell(c)]
                        /\ Request(c)' = Request(c) /\ Reply(c)' = Reply(c)
  BY SysShells DEF Frame
<1>2. \A c \in Client : (Waits(c)' <=> Waits(c)) /\ (Got(c)' <=> Got(c))
  BY <1>1 DEF Same, Waits, Got
<1>3. Busy /\ Busy' /\ Rung' = Rung /\ There' = There
  BY BellFact DEF CallBell, Busy, Rung, There, Same, Awake, Frame, BaseInv, ValTypes
<1>4. ~Rung' /\ ~There'
  BY <1>3 DEF Call
<1>5. PICK d \in Client : Waits(d)
  BY <1>3 DEF Call
<1>6. \A c \in Client : ~Got(c)' /\ pc'[Shell(c)] # "h_ring"
  <2>1. pc[Shell(d)] \in Asking /\ pc[Shell(d)] # "h_ring" /\ ~Got(d)
    BY <1>5 DEF Waits, Got, Asking
  <2>2. \A c \in Client : pc[Shell(c)] \in Asking => c = d
    BY <2>1, Lone
  <2>3. QED
    BY <1>1, <1>2, <2>1, <2>2 DEF Got, Asking
<1>7. /\ val'["servsem"] \in 0..1 /\ val'["call_system_end"] \in 0..1
      /\ Sys \notin asleep'["call_system_end"]
  BY DEF Same, Call
<1>8. QED
  BY <1>1, <1>2, <1>3, <1>4, <1>5, <1>6, <1>7 DEF Call

LEMMA CallSys ==
  ASSUME Frame, Door, Call, SysNext, ~SysReply
  PROVE  Call'
<1>a. \A t \in Sem : Awake(Sys) => Sys \notin asleep[t]
  BY DEF Frame, BaseInv, ValTypes, Awake
<1>b. pc[Sys] # "s_idle" /\ Awake(Sys) => Busy /\ ~There
  BY <1>a, BellFact DEF CallBell, Busy, Call
<1>c. \A c \in Client : Waits(c) =>
        /\ Written => shm = Request(c)
        /\ Copied \/ Replied => req = Request(c)
        /\ Replied => shm = Reply(c)
  BY DEF Call
<1>1. CASE SysAwaitCall
  BY <1>1, CallAwait
<1>2. CASE SysDrain
  BY <1>2 DEF SysDrain, Wait, At, Call
<1>3. CASE SysPoll
  <2>1. pc[Sys] = "s_poll" /\ Awake(Sys) /\ UNCHANGED <<semVars, shm, req>>
    BY <1>3 DEF SysPoll, At
  <2>2. val["call_system_end"] = 0
    BY <1>b, <2>1 DEF There, Call
  <2>3. pc'[Sys] = "s_read"
    BY <1>3, <2>2, ProcFacts DEF SysPoll, Goto, Frame, BaseInv, Places
  <2>4. Busy /\ Written
    BY <1>b, <2>1 DEF Written
  <2>5. ~Copied' /\ ~Replied'
    BY <2>3 DEF Copied, Replied
  <2>6. Same(Proc, "servsem") /\ Same(Proc, "call_system_end")
    BY <2>1 DEF semVars, valVars, Same
  <2>7. \A c \in Client : Waits(c) =>
          /\ Written' => shm' = Request(c)
          /\ Copied' \/ Replied' => req' = Request(c)
          /\ Replied' => shm' = Reply(c)
    BY <1>c, <2>1, <2>4, <2>5
  <2>8. QED
    BY <2>1, <2>3, <2>6, <2>7, CallWorks
<1>4. CASE SysRead
  <2>1. /\ pc[Sys] = "s_read" /\ Awake(Sys) /\ UNCHANGED <<semVars, shm>> /\ req' = shm
        /\ pc'[Sys] = "s_write"
    BY <1>4, ProcFacts DEF SysRead, At, Goto, Frame, BaseInv, Places
  <2>2. Busy /\ Written
    BY <1>b, <2>1 DEF Written
  <2>3. Same(Proc, "servsem") /\ Same(Proc, "call_system_end")
    BY <2>1 DEF semVars, valVars, Same
  <2>4. ~Rung'
    BY <2>2, <2>3 DEF Rung, Same, Call
  <2>5. ~Written' /\ ~Replied'
    BY <2>1, <2>4 DEF Written, Replied
  <2>6. \A c \in Client : Waits(c) =>
          /\ Written' => shm' = Request(c)
          /\ Copied' \/ Replied' => req' = Request(c)
          /\ Replied' => shm' = Reply(c)
    BY <1>c, <2>1, <2>2, <2>5
  <2>7. QED
    BY <2>1, <2>3, <2>6, CallWorks
<1>5. CASE SysWrite
  <2>1. /\ pc[Sys] = "s_write" /\ Awake(Sys) /\ UNCHANGED <<semVars, req>>
        /\ pc'[Sys] = "s_lock"
        /\ \/ req.kind = "request" /\ shm' = [req EXCEPT !.kind = "reply"]
           \/ req.kind # "request"
    BY <1>5, ProcFacts DEF SysWrite, At, Goto, Frame, BaseInv, Places
  <2>2. Busy /\ Copied
    BY <1>b, <2>1 DEF Copied
  <2>3. Same(Proc, "servsem") /\ Same(Proc, "call_system_end")
    BY <2>1 DEF semVars, valVars, Same
  <2>4. ~Rung'
    BY <2>2, <2>3 DEF Rung, Same, Call
  <2>5. ~Written' /\ ~Copied'
    BY <2>1, <2>4 DEF Written, Copied
  <2>6. ASSUME NEW c \in Client, Waits(c)
        PROVE  req' = Request(c) /\ shm' = Reply(c)
    <3>1. req = Request(c)
      BY <1>c, <2>2, <2>6
    <3>2. req.kind = "request"
      BY <3>1 DEF Request
    <3>3. QED
      BY <2>1, <3>1, <3>2 DEF Reply
  <2>7. \A c \in Client : Waits(c) =>
          /\ Written' => shm' = Request(c)
          /\ Copied' \/ Replied' => req' = Request(c)
          /\ Replied' => shm' = Reply(c)
    BY <2>5, <2>6
  <2>8. QED
    BY <2>1, <2>3, <2>7, CallWorks
<1>6. ASSUME \/ SysLock \/ SysCount \/ SysStart \/ SysServing \/ SysTake \/ SysUnlock
             \/ SysSync \/ SysCompare
      PROVE  Call'
  <2>1. /\ Awake(Sys) /\ UNCHANGED <<shm, req>>
        /\ pc[Sys] \notin {"s_idle", "s_poll", "s_read", "s_write"}
        /\ pc'[Sys] \notin {"s_idle", "s_drain", "s_poll", "s_read", "s_write"}
    BY <1>6, ProcFacts DEF SysLock, SysCount, SysStart, SysServing, SysTake, SysUnlock,
      SysSync, SysCompare, Wait, Signal, At, Goto, Frame, BaseInv, Places
  <2>2. Same(Proc, "servsem") /\ Same(Proc, "call_system_end")
    <3>1. CASE SysCount \/ SysSync \/ SysCompare
      BY <3>1 DEF SysCount, SysSync, SysCompare, semVars, valVars, Same
    <3>2. CASE SysLock \/ SysServing \/ SysTake
      <4>1. \A s \in {"clisem", "serving", "clienting"} :
              s \in Sem /\ s # "servsem" /\ s # "call_system_end"
        BY DEF Sem
      <4>2. /\ "s_count" \in SysPC \intersect Bed("clisem")
            /\ "s_take" \in SysPC \intersect Bed("serving")
            /\ "s_unlock" \in SysPC \intersect Bed("clienting")
        BY DEF SysPC, Bed
      <4>3. \E s \in {"clisem", "serving", "clienting"} : \A t \in Sem \ {s} : Same(Proc, t)
        BY <3>2, <4>1, <4>2, SysWaits DEF SysLock, SysServing, SysTake, Frame
      <4>4. QED
        BY <4>1, <4>3, BellFact DEF CallBell
    <3>3. CASE SysStart \/ SysUnlock
      <4>1. \A s \in {"clisem", "clienting"} :
              s \in Sem /\ s # "servsem" /\ s # "call_system_end"
        BY DEF Sem
      <4>2. \E s \in {"clisem", "clienting"} : \A t \in Sem \ {s} : Same(Proc, t)
        BY <3>3, <4>1, SysSignals DEF SysStart, SysUnlock, Frame, SysPC
      <4>3. QED
        BY <4>1, <4>2, BellFact DEF CallBell
    <3>4. QED
      BY <1>6, <3>1, <3>2, <3>3
  <2>3. Busy /\ Replied
    BY <1>b, <2>1 DEF Replied
  <2>4. ~Rung'
    BY <2>2, <2>3 DEF Rung, Same, Call
  <2>5. ~Written' /\ ~Copied'
    BY <2>1, <2>4 DEF Written, Copied
  <2>6. \A c \in Client : Waits(c) =>
          /\ Written' => shm' = Request(c)
          /\ Copied' \/ Replied' => req' = Request(c)
          /\ Replied' => shm' = Reply(c)
    BY <1>c, <2>1, <2>3, <2>5
  <2>7. QED
    BY <2>1, <2>2, <2>6, CallWorks
<1>7. QED
  BY <1>1, <1>2, <1>3, <1>4, <1>5, <1>6 DEF SysNext

(* It answers, to whoever takes the token.                                 *)
LEMMA CallReply ==
  ASSUME Frame, Door, Call, SysReply
  PROVE  Call'
<1> DEFINE s == "call_system_end"
<1>1. /\ \A t \in Sem \ {s} : Same(Proc, t)
      /\ Leaves(Proc, Sys, s) \/ \E q \in asleep[s] : Hands(Proc, Sys, q, s)
      /\ pc[Sys] = "s_reply" /\ pc'[Sys] = "s_idle" /\ Awake(Sys)
  BY SysSignals DEF SysReply, Frame, Sem, ShellSem, SysPC
<1>2. Same(Proc, "servsem") /\ UNCHANGED <<shm, req>>
  BY <1>1, BellFact DEF CallBell, SysReply, Signal
<1>3. \A c \in Client : /\ pc'[Shell(c)] = pc[Shell(c)]
                        /\ Request(c)' = Request(c) /\ Reply(c)' = Reply(c)
  BY SysShells DEF SysNext, Frame
<1>4. Busy /\ Replied /\ ~Busy' /\ ~Copied' /\ ~Replied'
  BY <1>1, BellFact
  DEF CallBell, Busy, Copied, Replied, Awake, Frame, BaseInv, ValTypes
<1>5. ~Rung' /\ ~Written' /\ val[s] = 0
  BY <1>2, <1>4 DEF Rung, Written, There, Same, Call
<1>6. \A c \in Client : Waits(c) => shm = Reply(c)
  BY <1>4 DEF Call
<1>7. CASE Leaves(Proc, Sys, s)
  <2>1. val'[s] = 1 /\ asleep'[s] = asleep[s] /\ Sys \notin asleep'[s]
    BY <1>5, <1>7 DEF Leaves
  <2>2. \A c \in Client : (Waits(c)' <=> Waits(c)) /\ (Got(c)' <=> Got(c))
    BY <1>3, <2>1 DEF Waits, Got
  <2>3. \E c \in Client : Waits(c)'
    BY <1>4, <2>2 DEF Call
  <2>4. \A c \in Client : (Got(c)' => shm' = Reply(c)')
                          /\ (pc'[Shell(c)] = "h_ring" => shm' = Request(c)')
    BY <1>2, <1>3, <2>2 DEF Call
  <2>5. QED
    BY <1>1, <1>2, <1>3, <1>4, <1>5, <1>6, <2>1, <2>2, <2>3, <2>4 DEF Call, Same
<1>8. CASE \E q \in asleep[s] : Hands(Proc, Sys, q, s)
  <2>1. val'[s] = 0 /\ asleep'[s] \subseteq asleep[s]
    BY <1>5, <1>8 DEF Hands
  <2>2. ~There'
    BY <2>1 DEF There
  <2>3. \A c \in Client : Got(c)' => Got(c) \/ Waits(c)
    BY <1>3 DEF Got, Waits
  <2>4. \A c \in Client : (Got(c)' => shm' = Reply(c)')
                          /\ (pc'[Shell(c)] = "h_ring" => shm' = Request(c)')
    BY <1>2, <1>3, <1>6, <2>3 DEF Call
  <2>5. QED
    BY <1>1, <1>2, <1>4, <1>5, <2>1, <2>2, <2>4 DEF Call, Same
<1>9. QED
  BY <1>1, <1>7, <1>8

-----------------------------------------------------------------------------
(* The shells.                                                             *)

(* A shell writes its request when nobody else has one ...                 *)
LEMMA CallWrite ==
  ASSUME Frame, Door, Call, NEW c \in Client, ShellWrite(c)
  PROVE  Call'
<1>1. /\ pc[Shell(c)] = "h_write" /\ Awake(Shell(c)) /\ UNCHANGED <<semVars, op, cmds>>
      /\ shm' = Request(c)
  BY DEF ShellWrite, At, shellVars
<1>2. /\ pc'[Sys] = pc[Sys] /\ pc'[Shell(c)] = "h_ring"
      /\ \A d \in Client \ {c} : pc'[Shell(d)] = pc[Shell(d)]
  BY ProcFacts DEF ShellWrite, Goto, Frame, BaseInv, Places
<1>3. \A d \in Client : pc[Shell(d)] \notin Asking
  <2>1. \A d \in Client : pc[Shell(d)] \in Asking => c = d
    BY <1>1, Lone
  <2>2. QED
    BY <1>1, <2>1 DEF Asking
<1>4. \A d \in Client : ~Waits(d)' /\ ~Got(d)' /\ ~Waits(d)
  BY <1>2, <1>3 DEF Asking, Waits, Got
<1>5. \A d \in Client : pc'[Shell(d)] = "h_ring" => d = c
  BY <1>2, <1>3 DEF Asking
<1>6. ~Rung /\ ~Busy /\ ~There
  BY <1>4 DEF Call
<1>7. ~Rung' /\ ~Busy' /\ ~There'
  BY <1>1, <1>2, <1>6 DEF Rung, Busy, There, semVars, valVars
<1>8. Request(c)' = Request(c)
  BY <1>1 DEF Request
<1>9. QED
  BY <1>1, <1>2, <1>4, <1>5, <1>7, <1>8 DEF Call, semVars, valVars

(* ... rings ...                                                           *)
LEMMA CallRing ==
  ASSUME Frame, Door, Call, NEW c \in Client, ShellRing(c)
  PROVE  Call'
<1> DEFINE s == "servsem"
<1>1. /\ OnlyShell(c)
      /\ \A t \in Sem \ {s} : Same(Proc, t)
      /\ Leaves(Proc, Shell(c), s) \/ \E q \in asleep[s] : Hands(Proc, Shell(c), q, s)
      /\ pc[Shell(c)] = "h_ring" /\ pc'[Shell(c)] = "h_wait"
  <2>1. /\ s \in Sem /\ "h_wait" \in ShellPC
        /\ At(Shell(c), "h_ring") /\ sem_signal(Shell(c), s) /\ Goto(Shell(c), "h_wait")
        /\ UNCHANGED mishaps
    BY BellFact DEF CallBell, ShellPC, ShellRing, Signal, history
  <2>2. QED
    BY <2>1, ShellSignals DEF Frame
<1>2. Same(Proc, "call_system_end") /\ UNCHANGED <<shm, req, op, cmds>>
  BY <1>1, BellFact DEF CallBell, ShellRing, Signal, shellVars
<1>3. /\ pc'[Sys] = pc[Sys]
      /\ \A d \in Client \ {c} : pc'[Shell(d)] = pc[Shell(d)]
      /\ \A d \in Client : Request(d)' = Request(d) /\ Reply(d)' = Reply(d)
  BY <1>1, <1>2 DEF OnlyShell, Request, Reply
<1>4. \A d \in Client : pc[Shell(d)] \in Asking => d = c
  BY <1>1, Lone DEF Asking
<1>5. \A d \in Client : ~Waits(d) /\ ~Got(d) /\ ~Got(d)' /\ pc'[Shell(d)] # "h_ring"
  BY <1>1, <1>2, <1>3, <1>4 DEF Waits, Got, Asking, Same
<1>6. \A d \in Client : Waits(d)' <=> d = c
  BY <1>1, <1>2, <1>3, <1>4 DEF Waits, Asking, Same
<1>7. ~Rung /\ ~Busy /\ ~There
  BY <1>5 DEF Call
<1>8. shm = Request(c) /\ ~There' /\ val[s] = 0
  BY <1>1, <1>2, <1>7 DEF Call, There, Same, Rung
<1>9. CASE Leaves(Proc, Shell(c), s)
  <2>1. val'[s] = 1 /\ ~Busy'
    BY <1>3, <1>7, <1>8, <1>9 DEF Leaves, Busy
  <2>2. QED
    BY <1>2, <1>3, <1>5, <1>6, <1>8, <2>1 DEF Call, Same, Copied, Replied
<1>10. CASE \E q \in asleep[s] : Hands(Proc, Shell(c), q, s)
  <2>1. PICK q \in asleep[s] : Hands(Proc, Shell(c), q, s)
    BY <1>10
  <2>2. q \in Proc /\ pc[q] = "s_poll"
    BY BellFact DEF CallBell, Frame, BaseInv, ValTypes, Sleepers, Bed
  <2>3. q = Sys
    BY <2>2, ProcFacts DEF Frame, BaseInv, Places, ShellPC, RecvPC
  <2>4. val'[s] = 0 /\ Sys \notin asleep'[s] /\ pc'[Sys] = "s_poll"
    BY <1>3, <1>8, <2>1, <2>2, <2>3 DEF Hands
  <2>5. ~Rung' /\ Busy' /\ ~Copied' /\ ~Replied'
    BY <2>4 DEF Rung, Busy, Copied, Replied
  <2>6. QED
    BY <1>2, <1>3, <1>5, <1>6, <1>8, <2>4, <2>5 DEF Call, Same
<1>11. QED
  BY <1>1, <1>9, <1>10

(* ... and takes the answer, or another shell that empties the semaphore   *)
(* does.                                                                   *)
LEMMA CallTake ==
  ASSUME Frame, Door, Call, NEW c \in Client, ShellWait(c) \/ ShellDrain(c)
  PROVE  Call'
<1> DEFINE s == "call_system_end"
<1>1. /\ OnlyShell(c)
      /\ \A t \in Sem \ {s} : Same(Proc, t)
      /\ Takes(Proc, Shell(c), s) \/ Sleeps(Proc, Shell(c), s)
      /\ Awake(Shell(c))
      /\ \/ pc[Shell(c)] = "h_wait" /\ pc'[Shell(c)] = "h_unlock"
         \/ pc[Shell(c)] = "h_drain" /\ pc'[Shell(c)] = "h_poll"
  <2>1. /\ s \in Sem
        /\ "h_unlock" \in ShellPC \intersect Bed(s) /\ "h_poll" \in ShellPC \intersect Bed(s)
    BY BellFact DEF CallBell, ShellPC, Bed
  <2>2. CASE ShellWait(c)
    <3>1. /\ At(Shell(c), "h_wait") /\ sem_wait(Shell(c), s) /\ Goto(Shell(c), "h_unlock")
          /\ mishaps \subseteq mishaps'
      BY <2>2 DEF ShellWait, Wait, history
    <3>2. QED
      BY <2>1, <3>1, ShellWaits DEF Frame
  <2>3. CASE ShellDrain(c)
    <3>1. /\ At(Shell(c), "h_drain") /\ sem_wait(Shell(c), s) /\ Goto(Shell(c), "h_poll")
          /\ mishaps \subseteq mishaps'
      BY <2>3 DEF ShellDrain
    <3>2. QED
      BY <2>1, <3>1, ShellWaits DEF Frame
  <2>4. QED
    BY <2>2, <2>3
<1>2. Same(Proc, "servsem") /\ UNCHANGED <<shm, req, op, cmds>>
  BY <1>1, BellFact DEF CallBell, ShellWait, ShellDrain, Wait, shellVars
<1>3. /\ pc'[Sys] = pc[Sys]
      /\ \A d \in Client \ {c} : pc'[Shell(d)] = pc[Shell(d)]
      /\ \A d \in Client : Request(d)' = Request(d) /\ Reply(d)' = Reply(d)
      /\ \A d \in Client \ {c} : (Shell(d) \in asleep'[s]) <=> (Shell(d) \in asleep[s])
      /\ (Sys \in asleep'[s]) <=> (Sys \in asleep[s])
  BY <1>1, <1>2, ProcFacts DEF OnlyShell, Request, Reply, Takes, Sleeps
<1>4. Rung' = Rung /\ Busy' = Busy
  BY <1>2, <1>3 DEF Rung, Busy, Same
<1>5. Written' = Written /\ Copied' = Copied /\ Replied' = Replied
  BY <1>3, <1>4 DEF Written, Copied, Replied
<1>6. \A d \in Client \ {c} : (Waits(d)' <=> Waits(d)) /\ (Got(d)' <=> Got(d))
  BY <1>3 DEF Waits, Got
<1>7. \A d \in Client : pc'[Shell(d)] = "h_ring" => pc[Shell(d)] = "h_ring"
  BY <1>1, <1>3
<1>8. CASE Takes(Proc, Shell(c), s)
  <2>1. There /\ val'[s] = 0
    BY <1>8 DEF Takes, There, Call
  <2>2. ~There' /\ ~Rung /\ ~Busy
    BY <2>1 DEF There, Call
  <2>3. Waits(c)' => Waits(c)
    BY <1>1, <1>8, BellFact
    DEF CallBell, Waits, Takes, Awake, Frame, BaseInv, ValTypes
  <2>4. Got(c)' => Waits(c)
    BY <1>1 DEF Got, Waits
  <2>5. \A d \in Client : Got(d)' => shm' = Reply(d)'
    BY <1>2, <1>3, <1>6, <2>1, <2>4 DEF Call
  <2>6. \A d \in Client : ~Written' /\ ~Copied' /\ ~Replied'
    BY <1>5, <2>2 DEF Written, Copied, Replied
  <2>7. QED
    BY <1>2, <1>3, <1>4, <1>7, <2>1, <2>2, <2>5, <2>6 DEF Call, Same
<1>9. CASE Sleeps(Proc, Shell(c), s)
  <2>1. val'[s] = 0 /\ ~There' /\ ~There /\ Shell(c) \in asleep'[s]
    BY <1>9 DEF Sleeps, There
  <2>2. (Waits(c)' <=> Waits(c)) /\ ~Got(c)'
    BY <1>1, <2>1 DEF Waits, Got
  <2>3. QED
    BY <1>2, <1>3, <1>4, <1>5, <1>6, <1>7, <2>1, <2>2 DEF Call, Same
<1>10. QED
  BY <1>1, <1>8, <1>9

(* The other steps of the shells touch neither bell nor answers.           *)
Louder(c) == ShellWait(c) \/ ShellDrain(c) \/ ShellWrite(c) \/ ShellRing(c)

LEMMA ShellUnheard ==
  ASSUME Frame, NEW c \in Client, Ordinary(c), ~Louder(c)
  PROVE  Unheard
<1>a. OnlyShell(c)
  BY ShellSteps DEF Frame
<1>b. \A s \in Sem : Awake(Shell(c)) => Shell(c) \notin asleep[s]
  BY DEF Awake, Frame, BaseInv, ValTypes
<1>c. \A d \in Client \ {c} : pc'[Shell(d)] = pc[Shell(d)] /\ Request(d)' = Request(d)
  <2>1. \A d \in Client \ {c} : op'[d] = op[d] /\ cmds'[d] = cmds[d]
    <3>1. CASE shellVars' = shellVars
      BY <3>1 DEF shellVars
    <3>2. CASE ShellUnlock(c) \/ ReapReceiver(c)
      <4>1. cmds' = cmds
        BY <3>2 DEF ShellUnlock, ReapReceiver
      <4>2. \E o : op' = [op EXCEPT ![c] = o]
        BY <3>2 DEF ShellUnlock, ReapReceiver
      <4>3. QED
        BY <4>1, <4>2
    <3>3. CASE ShellLook(c)
      BY <3>3 DEF ShellLook
    <3>4. CASE RunRequest(c)
      BY <3>4 DEF RunRequest
    <3>5. CASE RunJob(c)
      BY <3>5 DEF RunJob
    <3>6. CASE ShellLock(c) \/ ShellRing(c) \/ ShellWait(c)
      BY <3>1, <3>6 DEF ShellLock, ShellRing, ShellWait, Wait, Signal, shellVars
    <3>7. CASE \/ ShellPoll(c) \/ ShellDrain(c) \/ ShellWrite(c) \/ ShellClose(c)
               \/ ReadLine(c) \/ Leave(c)
      BY <3>1, <3>7 DEF ShellPoll, ShellDrain, ShellWrite, ShellClose, ReadLine, Leave,
        shellVars
    <3>8. QED
      BY <3>2, <3>3, <3>4, <3>5, <3>6, <3>7 DEF Ordinary
  <2>2. QED
    BY <1>a, <2>1 DEF OnlyShell, Request
<1>1. CASE ShellLock(c)
  <2>1. /\ "call_system" \in Sem /\ "h_write" \in ShellPC \intersect Bed("call_system")
        /\ At(Shell(c), "h_lock") /\ sem_wait(Shell(c), "call_system")
        /\ Goto(Shell(c), "h_write") /\ mishaps \subseteq mishaps'
    BY <1>1 DEF ShellLock, Wait, history, Sem, ShellSem, ShellPC, Bed
  <2>2. /\ \A t \in Sem \ {"call_system"} : Same(Proc, t)
        /\ pc'[Shell(c)] = "h_write" /\ pc[Shell(c)] = "h_lock"
    BY <2>1, ShellWaits DEF Frame
  <2>3. /\ Same(Proc, "servsem") /\ Same(Proc, "call_system_end")
        /\ UNCHANGED <<shm, req>>
    BY <1>1, <2>2, BellFact DEF CallBell, ShellLock, Wait
  <2>4. pc'[Shell(c)] \notin Asking /\ ~Waits(c)
    BY <2>2 DEF Asking, Waits
  <2>5. QED
    BY <1>a, <1>c, <2>3, <2>4 DEF Unheard, OnlyShell
<1>2. CASE ShellUnlock(c)
  <2>1. AfterRequest(c) \in ShellPC \ Asking
    BY DEF Frame, Ops, Op, AfterRequest, ShellPC, Asking
  <2>2. /\ "call_system" \in Sem
        /\ At(Shell(c), "h_unlock") /\ sem_signal(Shell(c), "call_system")
        /\ Goto(Shell(c), AfterRequest(c)) /\ UNCHANGED mishaps
    BY <1>2 DEF ShellUnlock, history, Sem, ShellSem
  <2>3. /\ \A t \in Sem \ {"call_system"} : Same(Proc, t)
        /\ pc'[Shell(c)] = AfterRequest(c) /\ Awake(Shell(c)) /\ pc[Shell(c)] = "h_unlock"
    BY <2>1, <2>2, ShellSignals DEF Frame
  <2>4. /\ Same(Proc, "servsem") /\ Same(Proc, "call_system_end")
        /\ UNCHANGED <<shm, req>>
    BY <1>2, <2>3, BellFact DEF CallBell, ShellUnlock
  <2>5. pc'[Shell(c)] \notin Asking /\ ~Waits(c)
    BY <1>b, <2>1, <2>3, BellFact DEF CallBell, Waits
  <2>6. QED
    BY <1>a, <1>c, <2>4, <2>5 DEF Unheard, OnlyShell
<1>3. ASSUME \/ ShellPoll(c) \/ ShellLook(c) \/ ReapReceiver(c) \/ ShellClose(c)
             \/ ReadLine(c) \/ Leave(c) \/ RunRequest(c) \/ RunJob(c)
      PROVE  Unheard
  <2>1. UNCHANGED valVars /\ UNCHANGED <<shm, req>>
    BY <1>3 DEF ShellPoll, ShellLook, ReapReceiver, ShellClose, ReadLine, Leave, RunRequest,
      RunJob, semVars, sem_close
  <2>2. Same(Proc, "servsem") /\ Same(Proc, "call_system_end")
    BY <2>1 DEF valVars, Same
  <2>3. pc[Shell(c)] \notin Asking
    BY <1>3 DEF ShellPoll, ShellLook, ReapReceiver, ShellClose, ReadLine, Leave, RunRequest,
      RunJob, At, Asking
  <2>4. pc'[Shell(c)] \notin Asking
    <3>1. CASE RunJob(c)
      BY <2>3, <3>1 DEF RunJob
    <3>2. CASE ~RunJob(c)
      BY <1>3, <3>2, ProcFacts DEF ShellPoll, ShellLook, ReapReceiver, ShellClose, ReadLine,
        Leave, RunRequest, Goto, Asking, Frame, BaseInv, Places
    <3>3. QED
      BY <3>1, <3>2
  <2>5. ~Waits(c)
    BY <2>3 DEF Waits, Asking
  <2>6. QED
    BY <1>a, <1>c, <2>1, <2>2, <2>4, <2>5 DEF Unheard, OnlyShell
<1>4. QED
  BY <1>1, <1>2, <1>3 DEF Ordinary, Louder

LEMMA CallShell ==
  ASSUME Frame, Door, Call, NEW c \in Client, Ordinary(c)
  PROVE  Call'
<1>1. CASE ShellWait(c) \/ ShellDrain(c)
  BY <1>1, CallTake
<1>2. CASE ShellWrite(c)
  BY <1>2, CallWrite
<1>3. CASE ShellRing(c)
  BY <1>3, CallRing
<1>4. CASE ~Louder(c)
  BY <1>4, ShellUnheard, CallUnheard
<1>5. QED
  BY <1>1, <1>2, <1>3, <1>4 DEF Louder

(* Receivers keep off all of it.                                           *)
LEMMA RecvUnheard ==
  ASSUME Frame, Apart, NEW c \in Client, RecvNext(c)
  PROVE  Unheard
<1>1. OnlyRecv(c)
  BY RecvSteps DEF Frame
<1>2. UNCHANGED <<shm, req, op, cmds>>
  BY DEF RecvNext, shellVars, RecvOpen, RecvLock, RecvSign, RecvUnlock, RecvWait, RecvRead,
    RecvClose, RecvLast, RecvServe, RecvFree, RecvPass, RecvUndo, Wait, Signal
<1>3. "servsem" \in ShellSem /\ "call_system_end" \in ShellSem /\ ShellSem \subseteq Sem
  BY DEF ShellSem, Sem
<1>4. Same(Proc, "servsem") /\ Same(Proc, "call_system_end")
  <2>1. CASE RecvUndo(c)
    BY <1>3, <2>1, UndoApart DEF Frame
  <2>2. CASE ~RecvUndo(c)
    BY <1>3, <2>2, RecvWorks DEF Frame, Still, Works
  <2>3. QED
    BY <2>1, <2>2
<1>5. QED
  BY <1>1, <1>2, <1>4 DEF Unheard, OnlyRecv, Request

LEMMA OtherUnheard ==
  ASSUME Frame, NEW c \in Client,
         KillReceiver(c) \/ Accept(c) \/ (JobEnds(c) /\ UNCHANGED semVars)
  PROVE  Unheard
<1>1. UNCHANGED <<shm, req, op, cmds>>
  BY DEF KillReceiver, Accept, JobEnds, shellVars
<1>2. CASE KillReceiver(c)
  <2>1. /\ pc[Shell(c)] = "h_kill" /\ pc'[Shell(c)] = "h_reap" /\ pc'[Sys] = pc[Sys]
        /\ \A d \in Client \ {c} : pc'[Shell(d)] = pc[Shell(d)]
        /\ \A t \in Sem : Recv(c) \notin asleep[t] => Same(Proc, t)
    BY <1>2, KillSteps DEF Frame
  <2>2. Same(Proc, "servsem") /\ Same(Proc, "call_system_end")
    <3>1. "servsem" \in ShellSem /\ "call_system_end" \in ShellSem
      BY DEF ShellSem
    <3>2. QED
      BY <2>1, <3>1, SleeperKinds, BellFact DEF CallBell, Frame
  <2>3. pc'[Shell(c)] \notin Asking /\ ~Waits(c)
    BY <2>1 DEF Asking, Waits
  <2>4. QED
    BY <1>1, <2>1, <2>2, <2>3 DEF Unheard, Request
<1>3. CASE Accept(c)
  <2>1. pc[Recv(c)] = "r_none"
    BY <1>3 DEF Accept, Frame, Born
  <2>2. /\ pc[Shell(c)] = "h_none" /\ pc'[Shell(c)] = "h_poll" /\ pc'[Sys] = pc[Sys]
        /\ \A d \in Client \ {c} : pc'[Shell(d)] = pc[Shell(d)]
        /\ Same(Proc, "servsem") /\ Same(Proc, "call_system_end")
    BY <1>3, <2>1, AcceptSteps, BellFact DEF CallBell, Frame
  <2>3. pc'[Shell(c)] \notin Asking /\ ~Waits(c)
    BY <2>2 DEF Asking, Waits
  <2>4. QED
    BY <1>1, <2>2, <2>3 DEF Unheard, Request
<1>4. CASE JobEnds(c) /\ UNCHANGED semVars
  <2>1. UNCHANGED pc /\ UNCHANGED valVars
    BY <1>4 DEF JobEnds, semVars
  <2>2. QED
    BY <1>1, <2>1 DEF Unheard, Request, Same, valVars
<1>5. QED
  BY <1>2, <1>3, <1>4

LEMMA CallNext == Frame /\ DoorInv /\ Apart /\ CallInv /\ [Next]_vars => CallInv'
<1> SUFFICES ASSUME Frame, DoorInv, Apart, CallInv, [Next]_vars, Clean' PROVE Call'
  BY DEF CallInv
<1>1. ASSUME mishaps \subseteq mishaps' PROVE Clean /\ Door /\ Call
  BY <1>1 DEF Clean, DoorInv, CallInv
<1>2. CASE SysNext
  BY <1>1, <1>2, CallSys, CallReply, SysSteps DEF Frame, OnlySys
<1>3. ASSUME NEW c \in Client, RecvNext(c) PROVE Call'
  BY <1>1, <1>3, RecvUnheard, CallUnheard, RecvSteps DEF Frame, OnlyRecv
<1>4. ASSUME NEW c \in Client, Ordinary(c) PROVE Call'
  BY <1>1, <1>4, CallShell, ShellSteps DEF Frame, OnlyShell
<1>5. ASSUME NEW c \in Client, KillReceiver(c) \/ Accept(c) PROVE Call'
  <2>1. mishaps' = mishaps
    BY <1>5 DEF KillReceiver, Accept, history
  <2>2. QED
    BY <1>1, <1>5, <2>1, OtherUnheard, CallUnheard
<1>6. ASSUME NEW c \in Client, ShellUndo(c) PROVE Call'
  <2>1. "exit" \in mishaps'
    BY <1>6 DEF ShellUndo
  <2>2. QED
    BY <2>1 DEF Clean
<1>7. ASSUME NEW c \in Client, JobEnds(c) PROVE Call'
  <2>1. CASE UNCHANGED <<semVars, mishaps>>
    BY <1>1, <1>7, <2>1, OtherUnheard, CallUnheard
  <2>2. CASE mishaps' = mishaps \union {"eintr"}
    BY <2>2 DEF Clean
  <2>3. QED
    BY <1>7, <2>1, <2>2 DEF JobEnds
<1>8. CASE UNCHANGED vars
  <2>1. Unheard /\ mishaps' = mishaps
    BY <1>8 DEF vars, semVars, valVars, shellVars, history, Unheard, Same, Request
  <2>2. QED
    BY <1>1, <2>1, CallUnheard
<1>9. QED
  BY <1>2, <1>3, <1>4, <1>5, <1>6, <1>7, <1>8, StepCases

LEMMA CallInit == Init => CallInv
<1> SUFFICES ASSUME Init PROVE Call
  BY DEF CallInv
<1>1. /\ val["servsem"] = 0 /\ val["call_system_end"] = 0
      /\ asleep["call_system_end"] = {}
  BY DEF Init, Sem, ShellSem
<1>2. pc[Sys] = "s_idle" /\ \A c \in Client : pc[Shell(c)] = "h_none"
  BY ProcFacts DEF Init, Sys, Shell
<1>3. \A c \in Client : ~Waits(c) /\ ~Got(c) /\ pc[Shell(c)] # "h_ring"
  BY <1>2 DEF Waits, Got
<1>4. ~Rung /\ ~Busy /\ ~There
  BY <1>1, <1>2 DEF Rung, Busy, There
<1>5. QED
  BY <1>1, <1>2, <1>3, <1>4 DEF Call

-----------------------------------------------------------------------------
(* What follows for the answers.                                           *)

LEMMA TokenHolds == Frame /\ CallInv => NoStrayToken
<1> SUFFICES ASSUME Frame, CallInv, mishaps = {}, val["call_system_end"] > 0
             PROVE  \E c \in Client : pc[Shell(c)] = "h_wait" /\ val["call_system_end"] = 1
  BY DEF NoStrayToken
<1>1. Call
  BY DEF CallInv, Clean
<1>2. There
  BY <1>1 DEF Call, There
<1>3. asleep["call_system_end"] = {}
  BY BellFact DEF CallBell, Frame, BaseInv, Prompt
<1>4. PICK c \in Client : Waits(c)
  BY <1>1, <1>2 DEF Call
<1>5. QED
  BY <1>2, <1>3, <1>4 DEF Waits, There

LEMMA AnswerHolds == Frame /\ CallInv => AnswerIsMine
<1> SUFFICES ASSUME Frame, Call, NEW c \in Client, pc[Shell(c)] = "h_unlock",
                    Awake(Shell(c))
             PROVE  shm = Reply(c)
  BY DEF AnswerIsMine, CallInv
<1>1. Got(c)
  BY BellFact DEF CallBell, Got, Awake, Frame, BaseInv, ValTypes
<1>2. QED
  BY <1>1 DEF Call

LEMMA ReadHolds == Frame /\ Baton /\ CallInv => ReadsTheAnnouncement
<1> SUFFICES ASSUME Frame, Baton, Call, NEW c \in Client, pc[Recv(c)] = "r_read",
                    Awake(Recv(c))
             PROVE  shm = [req EXCEPT !.kind = "reply"]
  BY DEF ReadsTheAnnouncement, CallInv
<1>1. pc[Sys] \in {"s_serving", "s_take", "s_unlock"}
  BY ReadersInRound DEF Round
<1>2. Sys \notin asleep["servsem"]
  BY <1>1, BellFact DEF CallBell, Frame, BaseInv, Sleepers, Bed
<1>3. Replied
  BY <1>1, <1>2 DEF Replied, Busy
<1>4. PICK d \in Client : Waits(d)
  BY <1>3 DEF Call, Replied
<1>5. req = Request(d) /\ shm = Reply(d)
  BY <1>3, <1>4 DEF Call
<1>6. QED
  BY <1>5 DEF Reply

-----------------------------------------------------------------------------
(* The bus implements Bulletin while nobody leaves and no semop is         *)
(* interrupted.  How far a request is can be seen from the places of the   *)
(* system process and from who waits; CallInv says that somebody does      *)
(* whenever the system process is about something.                         *)

Steady == Leavers = {} /\ Jobs = {} /\ "pipe" \notin Asks

Ending == {"h_kill", "h_reap", "h_look", "h_close", "h_exit"}

Staying ==
  /\ \A c \in Client : op[c] \in {"enter", "talk"} /\ jobs[c] = 0
  /\ \A c \in Client : pc[Shell(c)] \notin Ending /\ pc[Recv(c)] # "r_exit"
  /\ mishaps \subseteq {"drain"} /\ ~disturbed
  /\ pc[Sys] = "s_unlock" => audience \subseteq heard

(* What is left of the steps when nobody leaves.                           *)
LEMMA StayingSteps ==
  ASSUME Steady, Frame, Staying, NEW c \in Client
  PROVE  /\ ~KillReceiver(c) /\ ~ShellUndo(c) /\ ~JobEnds(c) /\ ~RecvUndo(c)
         /\ ~ShellLook(c) /\ ~ReapReceiver(c) /\ ~ShellClose(c) /\ ~Leave(c) /\ ~RunJob(c)
<1>1. jobs[c] = 0 /\ pc[Shell(c)] \notin Ending /\ pc[Recv(c)] # "r_exit"
  BY DEF Staying
<1>2. ~KillReceiver(c) /\ ~ShellUndo(c) /\ ~ShellLook(c) /\ ~ReapReceiver(c) /\ ~ShellClose(c)
  BY <1>1 DEF KillReceiver, ShellUndo, ShellLook, ReapReceiver, ShellClose, At, Ending
<1>3. ~JobEnds(c) /\ ~RecvUndo(c) /\ ~Leave(c) /\ ~RunJob(c)
  BY <1>1 DEF JobEnds, RecvUndo, Leave, RunJob, Steady
<1>4. QED
  BY <1>2, <1>3

(* SysCount finds nobody only if there is no audience.                     *)
LEMMA NobodyThere ==
  ASSUME Frame, Counters, Staying, cnt["clienting"] = Base
  PROVE  SignedUp = {}
<1>1. cnt["clienting"] = Base - Cardinality(SignedUp)
  BY CountersTrack DEF CountersTrackProcesses, Staying
<1>2. IsFiniteSet(SignedUp) /\ Cardinality(SignedUp) \in Nat
  BY FS_Subset, FS_CardinalityType, BroadcastAssumption DEF SignedUp
<1>3. Cardinality(SignedUp) = 0
  BY <1>1, <1>2, BaseNat
<1>4. QED
  BY <1>2, <1>3, FS_EmptySet

LEMMA StayingSys ==
  ASSUME Frame, Counters, RoundInv, Staying, SysNext
  PROVE  Staying'
<1>1. OnlySys
  BY SysSteps DEF Frame
<1>2. UNCHANGED <<op, jobs>>
  BY DEF SysNext, shellVars, SysAwaitCall, SysPoll, SysDrain, SysRead, SysWrite, SysLock,
    SysCount, SysStart, SysServing, SysTake, SysUnlock, SysSync, SysCompare, SysReply, Wait,
    Signal
<1>3. ~disturbed'
  <2>1. ~Dying
    BY DEF Dying, Staying
  <2>2. disturbed' \in {disturbed, Dying}
    BY DEF SysNext, history, SysAwaitCall, SysPoll, SysDrain, SysRead, SysWrite, SysLock,
      SysCount, SysStart, SysServing, SysTake, SysUnlock, SysSync, SysCompare, SysReply, Wait,
      Signal
  <2>3. QED
    BY <2>1, <2>2 DEF Staying
<1>4. ASSUME pc'[Sys] = "s_unlock" PROVE audience' \subseteq heard'
  <2>1. SysCount \/ SysTake
    BY <1>4, ProcFacts DEF SysNext, Goto, SysAwaitCall, SysPoll, SysDrain, SysRead, SysWrite,
      SysLock, SysStart, SysServing, SysUnlock, SysSync, SysCompare, SysReply, Wait, Signal,
      Frame, BaseInv, Places
  <2>2. CASE SysCount
    <3>1. cnt["clienting"] = Base
      BY <1>4, <2>2, ProcFacts DEF SysCount, Goto, Frame, BaseInv, Places
    <3>2. QED
      BY <2>2, <3>1, NobodyThere DEF SysCount
  <2>3. CASE SysTake
    BY <2>3, NobodyHolds DEF SysTake, Wait, At, NobodySkipped, history, Staying
  <2>4. QED
    BY <2>1, <2>2, <2>3
<1>5. QED
  BY <1>1, <1>2, <1>3, <1>4 DEF Staying, OnlySys

LEMMA StayingRecv ==
  ASSUME Steady, Frame, Staying, NEW c \in Client, RecvNext(c)
  PROVE  Staying'
<1>1. OnlyRecv(c) /\ ~RecvUndo(c)
  BY RecvSteps, StayingSteps DEF Frame
<1>2. UNCHANGED <<op, jobs, audience, disturbed>> /\ heard \subseteq heard'
  BY <1>1 DEF RecvNext, shellVars, history, RecvOpen, RecvLock, RecvSign, RecvUnlock,
    RecvWait, RecvRead, RecvClose, RecvLast, RecvServe, RecvFree, RecvPass, Wait, Signal
<1>3. pc'[Recv(c)] # "r_exit"
  BY <1>1, RecvSteps, ProcFacts DEF RecvWait, RecvPass, Wait, Signal, Goto, Frame, BaseInv,
    Places
<1>4. QED
  BY <1>1, <1>2, <1>3 DEF Staying, OnlyRecv

LEMMA StayingShell ==
  ASSUME Steady, Frame, Staying, NEW c \in Client, Ordinary(c)
  PROVE  Staying'
<1>1. /\ OnlyShell(c)
      /\ ~ShellLook(c) /\ ~ReapReceiver(c) /\ ~ShellClose(c) /\ ~Leave(c) /\ ~RunJob(c)
  BY ShellSteps, StayingSteps DEF Frame
<1>2. UNCHANGED <<jobs, audience, heard, disturbed>> /\ mishaps' \subseteq {"drain"}
  BY <1>1 DEF Ordinary, Staying, shellVars, history, ShellPoll, ShellDrain, ShellLock,
    ShellWrite, ShellRing, ShellWait, ShellUnlock, ReadLine, RunRequest, Wait, Signal
<1>3. \A d \in Client : op'[d] \in {"enter", "talk"}
  <2>1. op' = op \/ \E o \in {"enter", "talk"} : op' = [op EXCEPT ![c] = o]
    <3>1. CASE ShellUnlock(c)
      BY <3>1 DEF ShellUnlock, Staying
    <3>2. CASE RunRequest(c)
      BY <3>2, BroadcastAssumption DEF RunRequest, Steady
    <3>3. QED
      BY <1>1, <3>1, <3>2 DEF Ordinary, shellVars, ShellPoll, ShellDrain, ShellLock,
        ShellWrite, ShellRing, ShellWait, ReadLine, Wait, Signal
  <2>2. QED
    BY <2>1 DEF Staying, Frame, Ops
<1>4. pc'[Shell(c)] \notin Ending
  <2>1. AfterRequest(c) \notin Ending
    BY DEF AfterRequest, Staying, Ending
  <2>2. QED
    BY <1>1, <2>1, ProcFacts DEF Ordinary, Goto, ShellPoll, ShellDrain, ShellLock, ShellWrite,
      ShellRing, ShellWait, ShellUnlock, ReadLine, RunRequest, Wait, Signal, Frame, BaseInv,
      Places, Ending
<1>5. QED
  BY <1>1, <1>2, <1>3, <1>4 DEF Staying, OnlyShell

LEMMA StayingNext ==
  ASSUME Steady, Frame, Counters, RoundInv, Staying, [Next]_vars
  PROVE  Staying'
<1>1. ASSUME NEW c \in Client, Accept(c) PROVE Staying'
  <2>1. pc[Recv(c)] = "r_none"
    BY <1>1 DEF Accept, Frame, Born
  <2>2. /\ pc'[Shell(c)] = "h_poll" /\ pc'[Recv(c)] = "r_open" /\ pc'[Sys] = pc[Sys]
        /\ \A d \in Client \ {c} : /\ pc'[Shell(d)] = pc[Shell(d)]
                                   /\ pc'[Recv(d)] = pc[Recv(d)]
    BY <1>1, <2>1, AcceptSteps DEF Frame
  <2>3. QED
    BY <1>1, <2>2 DEF Accept, Staying, Ending, shellVars, history
<1>2. CASE UNCHANGED vars
  BY <1>2 DEF vars, shellVars, history, Staying
<1>3. QED
  BY <1>1, <1>2, StepCases, StayingSteps, StayingSys, StayingRecv, StayingShell

LEMMA StayingInit == Init => Staying
BY ProcFacts DEF Init, Staying, Ending, Proc, Sys, Shell, Recv

(* What Bulletin sees: who waits, and where the system process is.         *)
Asked == {c \in Client : Waits(c)}
Told == \/ pc[Sys] \in {"s_sync", "s_compare", "s_reply"}
        \/ pc[Sys] = "s_idle" /\ ~Rung
        \/ pc[Sys] = "s_poll" /\ Sys \in asleep["servsem"]
Telling == pc[Sys] \in {"s_start", "s_serving", "s_take", "s_unlock"}

Stage == IF Asked = {} THEN "idle" ELSE
         IF Told THEN "done" ELSE IF Telling THEN "announced" ELSE "asked"
View == /\ caller = IF Asked = {} THEN "nobody" ELSE CHOOSE c \in Asked : TRUE
        /\ phase = Stage

LEMMA Seen == Frame /\ Call => View
<1> SUFFICES ASSUME Frame, Call PROVE View
  OBVIOUS
<1>1. ASSUME NEW p, NEW s \in Sem
      PROVE  /\ pc[p] = "h_unlock" /\ p \in asleep[s] => s = "call_system_end"
             /\ pc[p] = "s_poll" /\ p \in asleep[s] => s \in {"servsem", "call_system_end"}
             /\ pc[p] = "s_idle" => p \notin asleep[s]
  <2>1. p \in asleep[s] => pc[p] \in Bed(s)
    BY DEF Frame, BaseInv, Sleepers
  <2>2. QED
    BY <2>1 DEF Bed, Sem, ShellSem
<1>2. DOMAIN asleep = Sem
  BY DEF Frame, BaseInv, ValTypes
<1>3. Unanswered = Asked
  BY <1>1, <1>2, BellFact DEF CallBell, Unanswered, Asked, Waits, Awake
<1>4. Answering <=> Told
  BY <1>1, <1>2, BellFact DEF CallBell, Answering, Told, Rung, Awake, Call
<1>5. QED
  BY <1>3, <1>4 DEF View, Stage, caller, phase, Told, Telling

(* Nobody hears of a step that changes none of it.                         *)
Hushed ==
  /\ Asked' = Asked
  /\ Asked = {} \/ ((Told' <=> Told) /\ (Telling' <=> Telling))
  /\ UNCHANGED <<audience, heard>>

LEMMA HushedSees ==
  ASSUME View, View', Hushed
  PROVE  UNCHANGED Bus!vars
<1>1. Stage' = Stage
  BY DEF Hushed, Stage
<1>2. caller' = caller /\ phase' = phase
  BY <1>1 DEF View, Hushed
<1>3. QED
  BY <1>2 DEF Bus!vars, Hushed

LEMMA UnheardHushed ==
  ASSUME Unheard, UNCHANGED <<audience, heard>>
  PROVE  Hushed
<1>1. \A c \in Client : Waits(c)' <=> Waits(c)
  BY DEF Unheard, Same, Waits, Asking
<1>2. (Told' <=> Told) /\ (Telling' <=> Telling)
  BY DEF Unheard, Same, Told, Telling, Rung
<1>3. QED
  BY <1>1, <1>2 DEF Hushed, Asked

(* The system process.                                                     *)
LEMMA SysKeeps ==
  ASSUME BaseInv, SysNext, ~SysDrain, ~SysReply
  PROVE  Same(Proc, "call_system_end") /\ (SysAwaitCall \/ Same(Proc, "servsem"))
<1>1. CASE SysAwaitCall
  BY <1>1, SysWaits DEF SysAwaitCall, Sem, ShellSem, Bed, SysPC
<1>2. CASE SysPoll \/ SysRead \/ SysWrite \/ SysCount \/ SysSync \/ SysCompare
  BY <1>2 DEF SysPoll, SysRead, SysWrite, SysCount, SysSync, SysCompare, semVars, valVars, Same
<1>3. CASE SysLock
  BY <1>3, SysWaits DEF SysLock, Sem, ShellSem, Bed, SysPC
<1>4. CASE SysStart
  BY <1>4, SysSignals DEF SysStart, Sem, ShellSem, SysPC
<1>5. CASE SysServing
  BY <1>5, SysWaits DEF SysServing, Sem, ShellSem, Bed, SysPC
<1>6. CASE SysTake
  BY <1>6, SysWaits DEF SysTake, Sem, ShellSem, Bed, SysPC
<1>7. CASE SysUnlock
  BY <1>7, SysSignals DEF SysUnlock, Sem, ShellSem, SysPC
<1>8. QED
  BY <1>1, <1>2, <1>3, <1>4, <1>5, <1>6, <1>7 DEF SysNext

LEMMA BusReply ==
  ASSUME Frame, Door, Call, View, View', SysReply
  PROVE  Bus!Answer \/ UNCHANGED Bus!vars
<1> DEFINE s == "call_system_end"
<1>1. /\ \A t \in Sem \ {s} : Same(Proc, t)
      /\ Leaves(Proc, Sys, s) \/ \E q \in asleep[s] : Hands(Proc, Sys, q, s)
      /\ pc[Sys] = "s_reply" /\ pc'[Sys] = "s_idle" /\ Awake(Sys)
      /\ \A c \in Client : pc'[Shell(c)] = pc[Shell(c)]
      /\ UNCHANGED <<audience, heard>>
  BY SysSignals DEF SysReply, Signal, history, OnlySys, Frame, Sem, ShellSem, SysPC
<1>2. Same(Proc, "servsem")
  BY <1>1, BellFact DEF CallBell
<1>3. Busy
  BY <1>1, BellFact DEF CallBell, Busy, Awake, Frame, BaseInv, ValTypes
<1>4. Told /\ Told' /\ ~Telling /\ ~Telling'
  BY <1>1, <1>2, <1>3 DEF Told, Telling, Call, Rung, Same
<1>5. Asked # {}
  BY <1>3 DEF Asked, Call
<1>6. CASE Leaves(Proc, Sys, s)
  <2>1. Hushed
    BY <1>1, <1>4, <1>6 DEF Hushed, Asked, Waits, Leaves
  <2>2. QED
    BY <2>1, HushedSees
<1>7. CASE \E q \in asleep[s] : Hands(Proc, Sys, q, s)
  <2>1. PICK q \in asleep[s] : asleep'[s] = asleep[s] \ {q}
    BY <1>7 DEF Hands
  <2>2. q \in Proc /\ pc[q] \in {"s_poll", "h_poll", "h_unlock"}
    BY <2>1, BellFact DEF CallBell, Frame, BaseInv, ValTypes, Sleepers, Bed
  <2>3. CASE \E c \in Client : q = Shell(c) /\ pc[q] = "h_unlock"
    <3>1. PICK c \in Client : q = Shell(c) /\ pc[q] = "h_unlock"
      BY <2>3
    <3>2. \A d \in Client : Waits(d) => d = c
      BY <3>1, Lone DEF Waits, Asking
    <3>3. Asked' = {}
      BY <1>1, <2>1, <3>1, <3>2 DEF Asked, Waits
    <3>4. Bus!Answer
      BY <1>1, <1>4, <1>5, <3>3 DEF Bus!Answer, View, Stage
    <3>5. QED
      BY <3>4
  <2>4. CASE ~\E c \in Client : q = Shell(c) /\ pc[q] = "h_unlock"
    <3>1. \A c \in Client : Waits(c)' <=> Waits(c)
      BY <1>1, <2>1, <2>4 DEF Waits
    <3>2. Hushed
      BY <1>1, <1>4, <3>1 DEF Hushed, Asked
    <3>3. QED
      BY <3>2, HushedSees
  <2>5. QED
    BY <2>3, <2>4
<1>8. QED
  BY <1>1, <1>6, <1>7

LEMMA BusSys ==
  ASSUME Frame, Door, Call, Staying, View, View', SysNext
  PROVE  [Bus!Next]_(Bus!vars)
<1>1. CASE SysReply
  BY <1>1, BusReply DEF Bus!Next
<1>2. CASE SysDrain
  BY <1>2 DEF SysDrain, Wait, At, Call
<1>3. CASE ~SysReply /\ ~SysDrain
  <2>1. /\ Same(Proc, "call_system_end")
        /\ SysAwaitCall \/ Same(Proc, "servsem")
        /\ \A c \in Client : pc'[Shell(c)] = pc[Shell(c)]
    BY <1>3, SysKeeps, SysSteps DEF Frame, OnlySys
  <2>2. Asked' = Asked
    BY <2>1 DEF Asked, Waits, Same
  <2>3. pc[Sys] # "s_idle" /\ Awake(Sys) => Busy /\ ~Rung /\ Asked # {}
    BY BellFact DEF CallBell, Busy, Awake, Frame, BaseInv, ValTypes, Call, Asked
  <2>4. CASE SysAwaitCall
    <3>1. /\ Takes(Proc, Sys, "servsem") \/ Sleeps(Proc, Sys, "servsem")
          /\ pc[Sys] = "s_idle" /\ pc'[Sys] = "s_poll" /\ Awake(Sys)
          /\ Sys \notin asleep["servsem"]
          /\ UNCHANGED <<audience, heard>>
      BY <2>4, SysWaits, BellFact
      DEF CallBell, SysAwaitCall, Wait, Awake, history, Frame, BaseInv, ValTypes, Bed, SysPC
    <3>2. Told' <=> Told
      BY <3>1 DEF Told, Rung, Takes, Sleeps, Call
    <3>3. Hushed
      BY <2>2, <3>1, <3>2 DEF Hushed, Telling
    <3>4. QED
      BY <3>3, HushedSees
  <2>5. CASE SysCount
    <3>1. /\ pc[Sys] = "s_count" /\ pc'[Sys] \in {"s_unlock", "s_start"} /\ Awake(Sys)
          /\ audience' \in SUBSET Client /\ heard' = {}
      BY <2>5, ProcFacts DEF SysCount, At, Goto, SignedUp, Frame, BaseInv, Places
    <3>2. Bus!Announce
      BY <2>2, <2>3, <3>1 DEF Bus!Announce, View, Stage, Told, Telling
    <3>3. QED
      BY <3>2 DEF Bus!Next
  <2>6. CASE SysUnlock
    <3>1. /\ pc[Sys] = "s_unlock" /\ pc'[Sys] = "s_sync" /\ Awake(Sys)
          /\ UNCHANGED <<audience, heard>> /\ audience \subseteq heard
      BY <2>6, ProcFacts
      DEF SysUnlock, Signal, At, Goto, history, Staying, Frame, BaseInv, Places
    <3>2. Bus!AllHeard
      BY <2>2, <2>3, <3>1 DEF Bus!AllHeard, View, Stage, Told, Telling
    <3>3. QED
      BY <3>2 DEF Bus!Next
  <2>7. CASE ~SysAwaitCall /\ ~SysCount /\ ~SysUnlock
    <3>1. /\ Awake(Sys) /\ UNCHANGED <<audience, heard>>
          /\ \/ /\ pc[Sys] \in {"s_poll", "s_read", "s_write", "s_lock"}
                /\ pc'[Sys] \in {"s_read", "s_write", "s_lock", "s_count", "s_drain"}
             \/ /\ pc[Sys] \in {"s_start", "s_serving", "s_take"}
                /\ pc'[Sys] \in {"s_serving", "s_take", "s_unlock"}
             \/ /\ pc[Sys] \in {"s_sync", "s_compare"}
                /\ pc'[Sys] \in {"s_sync", "s_compare", "s_reply"}
      BY <1>3, <2>7, ProcFacts DEF SysNext, SysPoll, SysRead, SysWrite, SysLock, SysStart,
        SysServing, SysTake, SysSync, SysCompare, Wait, Signal, At, Goto, history, Frame,
        BaseInv, Places
    <3>2. (Told' <=> Told) /\ (Telling' <=> Telling)
      BY <2>3, <3>1 DEF Told, Telling, Busy
    <3>3. Hushed
      BY <2>2, <3>1, <3>2 DEF Hushed
    <3>4. QED
      BY <3>3, HushedSees
  <2>8. QED
    BY <2>4, <2>5, <2>6, <2>7
<1>4. QED
  BY <1>1, <1>2, <1>3

(* The receivers.                                                          *)
LEMMA BusRecv ==
  ASSUME Steady, Frame, Apart, Baton, RoundInv, Call, Staying, View, View',
         NEW c \in Client, RecvNext(c)
  PROVE  [Bus!Next]_(Bus!vars)
<1>1. Unheard
  BY RecvUnheard
<1>2. CASE RecvRead(c)
  <2>1. pc[Recv(c)] = "r_read" /\ Awake(Recv(c)) /\ heard' = heard \union {c}
        /\ audience' = audience
    BY <1>2 DEF RecvRead, At
  <2>2. c \in audience \ heard
    BY <2>1, AudienceHolds DEF AudienceOnce
  <2>3. Telling /\ ~Told /\ pc[Sys] # "s_idle"
    BY <2>1, ReadersInRound DEF Round, Telling, Told
  <2>4. Busy
    BY <2>3, BellFact DEF CallBell, Telling, Busy, Frame, BaseInv, Sleepers, Bed
  <2>5. Asked # {} /\ Asked' = Asked /\ (Told' <=> Told) /\ (Telling' <=> Telling)
    <3>1. \A d \in Client : Waits(d)' <=> Waits(d)
      BY <1>1 DEF Unheard, Same, Waits, Asking
    <3>2. QED
      BY <1>1, <2>4, <3>1 DEF Unheard, Same, Told, Telling, Rung, Asked, Call
  <2>6. Bus!Hear(c)
    BY <2>1, <2>2, <2>3, <2>5 DEF Bus!Hear, View, Stage
  <2>7. QED
    BY <2>6 DEF Bus!Next
<1>3. CASE ~RecvRead(c)
  <2>1. UNCHANGED <<audience, heard>>
    BY <1>3, StayingSteps DEF RecvNext, history, RecvOpen, RecvLock, RecvSign, RecvUnlock,
      RecvWait, RecvClose, RecvLast, RecvServe, RecvFree, RecvPass, Wait, Signal
  <2>2. QED
    BY <1>1, <2>1, UnheardHushed, HushedSees
<1>4. QED
  BY <1>2, <1>3

(* The shells.                                                             *)
LEMMA BusRing ==
  ASSUME Frame, Door, Call, Call', View, View', NEW c \in Client, ShellRing(c)
  PROVE  Bus!Ask(c)
<1> DEFINE s == "servsem"
<1>1. /\ OnlyShell(c)
      /\ \A t \in Sem \ {s} : Same(Proc, t)
      /\ Leaves(Proc, Shell(c), s) \/ \E q \in asleep[s] : Hands(Proc, Shell(c), q, s)
      /\ pc[Shell(c)] = "h_ring" /\ pc'[Shell(c)] = "h_wait"
      /\ UNCHANGED <<audience, heard>>
  <2>1. /\ s \in Sem /\ "h_wait" \in ShellPC
        /\ At(Shell(c), "h_ring") /\ sem_signal(Shell(c), s) /\ Goto(Shell(c), "h_wait")
        /\ UNCHANGED <<audience, heard, mishaps>>
    BY BellFact DEF CallBell, ShellPC, ShellRing, Signal, history
  <2>2. QED
    BY <2>1, ShellSignals DEF Frame
<1>2. \A d \in Client : pc[Shell(d)] \in Asking => d = c
  BY <1>1, Lone DEF Asking
<1>3. Asked = {} /\ Asked' = {c}
  BY <1>1, <1>2 DEF Asked, Waits, Asking, OnlyShell
<1>4. ~Busy /\ pc'[Sys] = pc[Sys]
  BY <1>1, <1>3 DEF Call, Asked, OnlyShell
<1>5. pc[Sys] \in {"s_idle", "s_poll"}
  BY <1>4, BellFact DEF CallBell, Busy, Frame, BaseInv, Sleepers, Bed
<1>6. ~Told'
  <2>1. CASE Leaves(Proc, Shell(c), s)
    <3>1. val[s] = 0 /\ val'[s] = 1 /\ asleep[s] = {} /\ asleep'[s] = {}
      BY <2>1 DEF Leaves, Call
    <3>2. QED
      BY <1>4, <1>5, <3>1 DEF Told, Rung
  <2>2. CASE \E q \in asleep[s] : Hands(Proc, Shell(c), q, s)
    <3>1. PICK q \in asleep[s] : asleep'[s] = asleep[s] \ {q}
      BY <2>2 DEF Hands
    <3>2. q \in Proc /\ pc[q] = "s_poll"
      BY <3>1, BellFact DEF CallBell, Frame, BaseInv, ValTypes, Sleepers, Bed
    <3>3. q = Sys
      BY <3>2, ProcFacts DEF Frame, BaseInv, Places, ShellPC, RecvPC
    <3>4. QED
      BY <1>4, <3>1, <3>2, <3>3 DEF Told
  <2>3. QED
    BY <1>1, <2>1, <2>2
<1>7. ~Telling'
  BY <1>4, <1>5 DEF Telling
<1>8. (CHOOSE d \in {c} : TRUE) = c
  OBVIOUS
<1>9. phase = "idle" /\ phase' = "asked" /\ caller' = c
  BY <1>3, <1>6, <1>7, <1>8 DEF View, Stage
<1>10. QED
  BY <1>1, <1>9 DEF Bus!Ask

LEMMA BusTake ==
  ASSUME Frame, Door, Call, View, View', NEW c \in Client, ShellWait(c) \/ ShellDrain(c)
  PROVE  Bus!Answer \/ UNCHANGED Bus!vars
<1> DEFINE s == "call_system_end"
<1>1. /\ OnlyShell(c)
      /\ \A t \in Sem \ {s} : Same(Proc, t)
      /\ Takes(Proc, Shell(c), s) \/ Sleeps(Proc, Shell(c), s)
      /\ Awake(Shell(c))
      /\ UNCHANGED <<audience, heard>>
      /\ \/ pc[Shell(c)] = "h_wait" /\ pc'[Shell(c)] = "h_unlock"
         \/ pc[Shell(c)] = "h_drain" /\ pc'[Shell(c)] = "h_poll"
  <2>1. /\ s \in Sem
        /\ "h_unlock" \in ShellPC \intersect Bed(s) /\ "h_poll" \in ShellPC \intersect Bed(s)
    BY BellFact DEF CallBell, ShellPC, Bed
  <2>2. CASE ShellWait(c)
    <3>1. /\ At(Shell(c), "h_wait") /\ sem_wait(Shell(c), s) /\ Goto(Shell(c), "h_unlock")
          /\ mishaps \subseteq mishaps' /\ UNCHANGED <<audience, heard>>
      BY <2>2 DEF ShellWait, Wait, history
    <3>2. QED
      BY <2>1, <3>1, ShellWaits DEF Frame
  <2>3. CASE ShellDrain(c)
    <3>1. /\ At(Shell(c), "h_drain") /\ sem_wait(Shell(c), s) /\ Goto(Shell(c), "h_poll")
          /\ mishaps \subseteq mishaps' /\ UNCHANGED <<audience, heard>>
      BY <2>3 DEF ShellDrain
    <3>2. QED
      BY <2>1, <3>1, ShellWaits DEF Frame
  <2>4. QED
    BY <2>2, <2>3
<1>2. (Told' <=> Told) /\ (Telling' <=> Telling)
  BY <1>1, BellFact DEF CallBell, OnlyShell, Same, Told, Telling, Rung
<1>3. \A d \in Client \ {c} : Waits(d)' <=> Waits(d)
  BY <1>1, ProcFacts DEF OnlyShell, Takes, Sleeps, Waits
<1>4. CASE pc[Shell(c)] = "h_wait" /\ Takes(Proc, Shell(c), s)
  <2>1. There /\ ~Rung /\ ~Busy
    BY <1>4 DEF Takes, There, Call
  <2>2. Told
    BY <2>1, BellFact DEF CallBell, Told, Busy, Frame, BaseInv, Sleepers, Bed
  <2>3. \A d \in Client : Waits(d) => d = c
    BY <1>4, Lone DEF Waits, Asking
  <2>4. ~Waits(c)'
    BY <1>1, <1>4, BellFact DEF CallBell, Waits, Takes, Awake, Frame, BaseInv, ValTypes
  <2>5. Asked # {} /\ Asked' = {}
    BY <1>3, <1>4, <2>3, <2>4 DEF Asked, Waits
  <2>6. QED
    BY <1>1, <2>2, <2>5 DEF Bus!Answer, View, Stage
<1>5. CASE pc[Shell(c)] = "h_drain" \/ Sleeps(Proc, Shell(c), s)
  <2>1. Waits(c)' <=> Waits(c)
    BY <1>1, <1>5 DEF Waits, Sleeps
  <2>2. Hushed
    BY <1>1, <1>2, <1>3, <2>1 DEF Hushed, Asked
  <2>3. QED
    BY <2>2, HushedSees
<1>6. QED
  BY <1>1, <1>4, <1>5

LEMMA BusShell ==
  ASSUME Frame, Door, Call, Call', View, View', NEW c \in Client, Ordinary(c)
  PROVE  [Bus!Next]_(Bus!vars)
<1>1. CASE ShellRing(c)
  BY <1>1, BusRing DEF Bus!Next
<1>2. CASE ShellWait(c) \/ ShellDrain(c)
  BY <1>2, BusTake DEF Bus!Next
<1>3. CASE ShellWrite(c)
  <2>1. /\ UNCHANGED semVars /\ UNCHANGED <<audience, heard>>
        /\ pc[Shell(c)] = "h_write" /\ pc'[Shell(c)] = "h_ring" /\ pc'[Sys] = pc[Sys]
        /\ \A d \in Client \ {c} : pc'[Shell(d)] = pc[Shell(d)]
    BY <1>3, ProcFacts DEF ShellWrite, At, Goto, history, Frame, BaseInv, Places
  <2>2. \A d \in Client : Waits(d)' <=> Waits(d)
    BY <2>1 DEF semVars, valVars, Waits
  <2>3. Hushed
    BY <2>1, <2>2 DEF Hushed, Asked, Told, Telling, Rung, semVars, valVars
  <2>4. QED
    BY <2>3, HushedSees
<1>4. CASE ~Louder(c)
  <2>1. UNCHANGED <<audience, heard>>
    BY <1>4 DEF Louder, Ordinary, history, ShellPoll, ShellLock, ShellUnlock, ShellLook,
      ReapReceiver, ShellClose, ReadLine, Leave, RunRequest, RunJob, Wait
  <2>2. QED
    BY <1>4, <2>1, ShellUnheard, UnheardHushed, HushedSees
<1>5. QED
  BY <1>1, <1>2, <1>3, <1>4 DEF Louder

LEMMA BusInit == Init => Bus!Init
<1> SUFFICES ASSUME Init PROVE Bus!Init
  OBVIOUS
<1>1. \A c \in Client : pc[Shell(c)] = "h_none"
  BY ProcFacts DEF Init, Shell
<1>2. Unanswered = {}
  BY <1>1 DEF Unanswered
<1>3. QED
  BY <1>2 DEF Bus!Init, caller, phase, Init

LEMMA BusStep ==
  ASSUME Steady, Frame, Door, Baton, Apart, RoundInv, Call, Call', Staying, View, View',
         [Next]_vars
  PROVE  [Bus!Next]_(Bus!vars)
<1>1. ASSUME NEW c \in Client, Accept(c) PROVE UNCHANGED Bus!vars
  <2>1. UNCHANGED <<audience, heard>>
    BY <1>1 DEF Accept, history
  <2>2. QED
    BY <1>1, <2>1, OtherUnheard, UnheardHushed, HushedSees
<1>2. CASE UNCHANGED vars
  <2>1. Unheard /\ UNCHANGED <<audience, heard>>
    BY <1>2 DEF vars, semVars, valVars, shellVars, history, Unheard, Same, Request
  <2>2. QED
    BY <2>1, UnheardHushed, HushedSees
<1>3. QED
  BY <1>1, <1>2, StepCases, StayingSteps, BusSys, BusRecv, BusShell

-----------------------------------------------------------------------------
(* The theorems.                                                           *)

Whole == Sound /\ RoundInv /\ Synced /\ CallInv

LEMMA WholeHolds == Spec => []Whole
<1>1. Init => Whole
  BY SoundInit, RoundInit, SyncedInit, CallInit DEF Whole
<1>2. Whole /\ [Next]_vars => Whole'
  <2>1. SUFFICES ASSUME Whole, [Next]_vars PROVE Whole'
    OBVIOUS
  <2>2. Sound'
    BY <2>1, SoundNext DEF Whole
  <2>3. RoundInv' /\ Synced' /\ CallInv'
    BY <2>1, RoundNext, SyncedNext, CallNext DEF Whole, Sound
  <2>4. QED
    BY <2>2, <2>3 DEF Whole
<1>3. QED
  BY <1>1, <1>2, PTL DEF Spec

(* A receiver let through to the buffer belongs to the audience counted by *)
(* the system process and has not read yet (np_multi_proc.cpp:205-246):    *)
(* nobody prints an announcement twice or joins in the middle of it.       *)
THEOREM AudienceReadsOnce == Spec => []AudienceOnce
<1>1. Whole => AudienceOnce
  BY AudienceHolds DEF Whole, Sound
<1>2. QED
  BY <1>1, WholeHolds, PTL

(* When sem_wait(serving) returns (np_multi_proc.cpp:124) everybody in the *)
(* audience has read, unless a receiver was killed during the round.       *)
THEOREM NobodyIsSkipped == Spec => []NobodySkipped
<1>1. Whole => NobodySkipped
  BY NobodyHolds DEF Whole, Sound
<1>2. QED
  BY <1>1, WholeHolds, PTL

(* While no receiver is killed, the system process never sleeps on serving *)
(* without a receiver of the audience on its way to signal it: the count   *)
(* cannot reach BIGCOUNT - 1 unseen (np_multi_proc.cpp:239-241).           *)
THEOREM TheWakeupIsOwed == Spec => []WakeupOwed
<1>1. Whole => WakeupOwed
  BY WakeupHolds DEF Whole, Sound
<1>2. QED
  BY <1>1, WholeHolds, PTL

(* The sync loop compares two counters read at different times             *)
(* (np_multi_proc.cpp:130); when it ends and no receiver came or went      *)
(* meanwhile, every receiver has signed up again.                          *)
THEOREM EverybodyIsBack == Spec => []EverybodyBack
<1>1. Whole => EverybodyBack
  BY DEF Whole, Sound, Synced
<1>2. QED
  BY <1>1, WholeHolds, PTL

(* As long as nothing went wrong, the loops that empty call_system_end     *)
(* (np_multi_proc.cpp:112, 267, 329) find at most somebody's answer there, *)
(* never a token nobody waits for.                                         *)
THEOREM TokensAreAnswers == Spec => []NoStrayToken
<1>1. Whole => NoStrayToken
  BY TokenHolds DEF Whole, Sound
<1>2. QED
  BY <1>1, WholeHolds, PTL

(* Unless a semop was interrupted or a shell died with operations to undo, *)
(* a shell that sem_wait(call_system_end) lets go finds its own answer in  *)
(* shm until it gives call_system up (np_multi_proc.cpp:321-325, 362-403). *)
THEOREM AnswersArrive == Spec => []AnswerIsMine
<1>1. Whole => AnswerIsMine
  BY AnswerHolds DEF Whole, Sound
<1>2. QED
  BY <1>1, WholeHolds, PTL

(* Under the same condition, what a receiver prints (np_multi_proc.cpp:    *)
(* 213-237) is the answer to the request the system process works on.      *)
THEOREM ReadersReadTheNews == Spec => []ReadsTheAnnouncement
<1>1. Whole => ReadsTheAnnouncement
  BY ReadHolds DEF Whole, Sound
<1>2. QED
  BY <1>1, WholeHolds, PTL

(* As long as no client leaves and no request needs an answer for a pipe,  *)
(* the processes of the bus do what Bulletin promises, step by step: one   *)
(* request at a time, its news read once by everybody signed up, and the   *)
(* answer last (np_multi_proc.cpp:110-133, 205-246, 320-326).              *)
THEOREM BusImplementsBulletin ==
  ASSUME Steady
  PROVE  Spec => ImplementsBulletin
<1>1. Init => Staying /\ Bus!Init
  BY StayingInit, BusInit
<1>2. Whole /\ Staying /\ [Next]_vars => Staying'
  BY StayingNext DEF Whole, Sound
<1>3. Whole /\ Staying => Frame /\ Door /\ Baton /\ Apart /\ RoundInv /\ Call
  BY DEF Whole, Sound, Staying, DoorInv, CallInv, Clean
<1>4. Whole /\ Staying => View
  BY <1>3, Seen
<1>5. Whole /\ Staying /\ (Whole /\ Staying)' /\ [Next]_vars => [Bus!Next]_(Bus!vars)
  <2>1. (Whole /\ Staying)' => Call' /\ View'
    BY <1>3, <1>4, PTL
  <2>2. QED
    BY <1>3, <1>4, <2>1, BusStep
<1>6. QED
  BY <1>1, <1>2, <1>5, WholeHolds, PTL DEF Spec, ImplementsBulletin, Bus!Spec
=============================================================================

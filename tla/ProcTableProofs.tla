-------------------------- MODULE ProcTableProofs --------------------------
(***************************************************************************)
(* Proofs about ProcTable, for any fork limit and any number of children:  *)
(* its three invariants hold in every reachable state.                     *)
(*                                                                         *)
(* The count and the inputs are right because at most one child is waited  *)
(* for, the last one forked, and only while the shell is between its fork  *)
(* and its waitpid; whatever the handler takes from the shell is that one. *)
(***************************************************************************)
EXTENDS ProcTable, FiniteSetTheorems, TLAPS

Typed ==
  /\ pc \in {"prompt", "limit", "forked", "counted", "waiting", "reaped", "closing"}
  /\ fork_count \in Int
  /\ forks \in 0..MaxForks
  /\ kind \in [Child -> Kind]
  /\ reader \in [Child -> 0..MaxForks]
  /\ state \in [Child -> {"none", "runs", "zombie", "gone"}]
  /\ processes \subseteq Child /\ held \subseteq Child
  /\ sigchld \in BOOLEAN
  /\ stolen \subseteq Child /\ early \subseteq Child

(* The children are 1..forks, and all but a new one are recorded.          *)
Numbered ==
  /\ \A j \in Child : state[j] = "none" <=> forks < j
  /\ pc \notin {"prompt", "limit"} => forks \in Child
  /\ \A j \in Child :
       j \in processes <=> IF pc \in {"forked", "counted"} THEN j < forks ELSE j <= forks
  /\ \A j \in held : j <= forks

(* The shell waits for one child at a time.                                *)
OneWaited ==
  /\ pc \in {"waiting", "reaped", "closing"} => kind[forks] = "waited"
  /\ pc \in {"reaped", "closing"} => state[forks] = "gone"
  /\ \A j \in Unreaped :
       kind[j] = "waited" => j = forks /\ pc \in {"forked", "counted", "waiting"}

(* What the handler reaped before the shell came to it.                    *)
Overtaken ==
  /\ \A j \in stolen : kind[j] = "waited" /\ state[j] = "gone"
  /\ pc \in {"forked", "counted", "waiting"} /\ state[forks] = "gone" =>
       /\ kind[forks] = "waited" => forks \in stolen
       /\ pc # "waiting" => forks \in early

Limited ==
  /\ fork_count <= max_fork_num + 1
  /\ pc = "forked" => fork_count <= max_fork_num

(* The inductive invariant.                                                *)
IInv ==
  /\ Typed
  /\ Numbered
  /\ OneWaited
  /\ Overtaken
  /\ Limited
  /\ CountDrifts
  /\ InputsClosed

-----------------------------------------------------------------------------
(* Counting sets of children.                                              *)

LEMMA ChildSets ==
  ASSUME NEW S, S \subseteq Child
  PROVE  /\ IsFiniteSet(S) /\ Cardinality(S) \in 0..MaxForks
         /\ \A x \in Child : Cardinality(S \ {x}) <= MaxForks - 1
         /\ \A x \in S : Cardinality(S \ {x}) = Cardinality(S) - 1
         /\ \A x \in Child \ S : Cardinality(S \union {x}) = Cardinality(S) + 1
<1>1. MaxForks \in Nat
  BY ProcTableAssumption
<1>2. IsFiniteSet(Child) /\ Cardinality(Child) = MaxForks
  BY <1>1, FS_Interval DEF Child
<1>3. IsFiniteSet(S) /\ Cardinality(S) \in Nat /\ Cardinality(S) <= MaxForks
  BY <1>2, FS_Subset, FS_CardinalityType
<1>4. ASSUME NEW x \in Child
      PROVE  Cardinality(S \ {x}) <= MaxForks - 1
  <2>1. IsFiniteSet(Child \ {x}) /\ Cardinality(Child \ {x}) = MaxForks - 1
    BY <1>2, FS_RemoveElement
  <2>2. (S \ {x}) \in SUBSET (Child \ {x})
    OBVIOUS
  <2>3. QED
    BY <2>1, <2>2, FS_Subset
<1>5. QED
  BY <1>1, <1>3, <1>4, FS_RemoveElement, FS_AddElement

(* The children of T end their time among those of S.                      *)
LEMMA TakenAway ==
  ASSUME NEW S, S \subseteq Child, NEW T, T \subseteq S
  PROVE  Cardinality(S \ T) = Cardinality(S) - Cardinality(T)
<1>1. IsFiniteSet(S) /\ IsFiniteSet(T) /\ S \intersect T = T
  BY ChildSets, FS_Subset
<1>2. QED
  BY <1>1, FS_Difference

LEMMA InitInv == Init => IInv
<1> SUFFICES ASSUME Init PROVE IInv
  OBVIOUS
<1>1. Unreaped = {} /\ stolen \ Current = {} /\ Cardinality({}) = 0
  BY FS_EmptySet DEF Init, Unreaped
<1>2. Typed
  <2>1. fork_count \in Int /\ forks \in 0..MaxForks
    BY ProcTableAssumption DEF Init
  <2>2. kind \in [Child -> Kind] /\ state \in [Child -> {"none", "runs", "zombie", "gone"}]
    BY DEF Init, Kind
  <2>3. reader \in [Child -> 0..MaxForks]
    BY ProcTableAssumption DEF Init
  <2>4. QED
    BY <2>1, <2>2, <2>3 DEF Init, Typed
<1>3. Numbered /\ OneWaited /\ Overtaken
  BY <1>1 DEF Init, Numbered, OneWaited, Overtaken, Child
<1>4. Limited
  BY ProcTableAssumption DEF Init, Limited
<1>5. CountDrifts /\ InputsClosed
  BY <1>1 DEF Init, CountDrifts, InputsClosed
<1>6. QED
  BY <1>2, <1>3, <1>4, <1>5 DEF IInv

LEMMA CommandInv == IInv /\ Command => IInv'
<1> SUFFICES ASSUME IInv, Command PROVE IInv'
  OBVIOUS
<1>1. Unreaped' = Unreaped /\ Current = {} /\ Current' = {}
  BY DEF Command, Unreaped, Current, Between
<1>2. (Typed /\ Numbered /\ OneWaited /\ Overtaken /\ Limited)'
  BY <1>1 DEF IInv, Command, history, Typed, Numbered, OneWaited, Overtaken, Limited
<1>3. (CountDrifts /\ InputsClosed)'
  BY <1>1 DEF IInv, Command, history, CountDrifts, InputsClosed, Between
<1>4. QED
  BY <1>2, <1>3 DEF IInv

LEMMA ForkInv == IInv /\ Fork => IInv'
<1> SUFFICES ASSUME IInv, Fork PROVE IInv'
  OBVIOUS
<1> DEFINE f == forks + 1
<1>1. f \in Child /\ state[f] = "none" /\ f \notin stolen /\ Current = {}
  BY ProcTableAssumption
     DEF IInv, Fork, Typed, Numbered, Overtaken, Child, Current, Between
<1>2. PICK k \in Kind : kind' = [kind EXCEPT ![f] = k]
  BY DEF Fork
<1>3. /\ held' \subseteq held \union {f}
      /\ kind'[f] = k /\ \A j \in Child \ {f} : kind'[j] = kind[j]
      /\ state'[f] = "runs" /\ \A j \in Child \ {f} : state'[j] = state[j]
  BY <1>1, <1>2 DEF IInv, Fork, Typed
<1>4. Typed'
  <2>1. reader' \in [Child -> 0..MaxForks] /\ held' \subseteq held \union {f}
    BY <1>1 DEF IInv, Fork, Typed, Child
  <2>2. QED
    BY <1>1, <1>2, <2>1 DEF IInv, Fork, history, Typed, Child
<1>5. Numbered'
  BY <1>1, <1>3 DEF IInv, Fork, history, Typed, Numbered, Child
<1>6. Unreaped' = Unreaped \union {f} /\ f \notin Unreaped
  BY <1>1, <1>3 DEF Unreaped
<1>7. OneWaited'
  BY <1>3, <1>6 DEF IInv, Fork, OneWaited
<1>8. Overtaken'
  BY <1>1, <1>3 DEF IInv, Fork, history, Typed, Overtaken
<1>9. Limited'
  BY DEF IInv, Fork, BelowLimit, Limited
<1>10. CountDrifts'
  <2>1. (stolen \ Current)' = stolen \ Current
    BY <1>1 DEF Fork, history, Current, Between
  <2>2. Cardinality(Unreaped') = Cardinality(Unreaped) + 1 /\ Cardinality(Unreaped) \in Int
    BY <1>1, <1>6, ChildSets DEF Unreaped
  <2>3. Cardinality(stolen \ Current) \in Int
    BY ChildSets DEF IInv, Typed
  <2>4. Cardinality((stolen \ Current)') = Cardinality(stolen \ Current)
    BY <2>1
  <2>5. QED
    BY <2>2, <2>3, <2>4 DEF IInv, Typed, Fork, CountDrifts
<1>11. InputsClosed'
  BY <1>1, <1>3 DEF IInv, Fork, history, InputsClosed, Typed, Numbered, Between, Child
<1>12. QED
  BY <1>4, <1>5, <1>7, <1>8, <1>9, <1>10, <1>11 DEF IInv

LEMMA CountInv == IInv /\ Count => IInv'
<1> SUFFICES ASSUME IInv, Count PROVE IInv'
  OBVIOUS
<1>1. Unreaped' = Unreaped /\ Current' = Current
  BY DEF Count, Unreaped, Current, Between
<1>2. Typed'
  BY DEF IInv, Count, history, Typed
<1>3. (Numbered /\ OneWaited /\ Overtaken)'
  BY <1>1 DEF IInv, Count, history, Numbered, OneWaited, Overtaken
<1>4. Limited'
  BY ProcTableAssumption DEF IInv, Count, Typed, Limited
<1>5. CountDrifts'
  <2>1. Cardinality(Unreaped) \in Int /\ Cardinality(stolen \ Current) \in Int
    BY ChildSets DEF IInv, Typed, Unreaped
  <2>2. QED
    BY <1>1, <2>1 DEF IInv, Typed, Count, history, CountDrifts
<1>6. InputsClosed'
  BY DEF IInv, Count, history, InputsClosed, Between
<1>7. QED
  BY <1>2, <1>3, <1>4, <1>5, <1>6 DEF IInv

LEMMA InsertInv == IInv /\ insert_process => IInv'
<1> SUFFICES ASSUME IInv, insert_process PROVE IInv'
  OBVIOUS
<1>1. /\ forks \in Child /\ pc = "counted" /\ Current = {forks}
      /\ kind[forks] \in Kind
  BY DEF IInv, insert_process, Typed, Numbered, Current, Between
<1>2. /\ kind[forks] = "waited" => pc' = "waiting"
      /\ kind[forks] # "waited" => pc' \in {"prompt", "limit"}
  BY <1>1 DEF insert_process, Kind
<1>3. Unreaped' = Unreaped
  BY DEF insert_process, Unreaped
<1>4. Typed'
  BY <1>1, <1>2 DEF IInv, insert_process, history, Typed
<1>5. Numbered'
  <2>1. pc' \in {"waiting", "prompt", "limit"} /\ processes' = processes \union {forks}
    BY <1>1, <1>2 DEF insert_process
  <2>2. forks' = forks /\ state' = state /\ held' = held
    BY DEF insert_process
  <2>3. QED
    BY <1>1, <2>1, <2>2 DEF IInv, Numbered, Child
<1>6. OneWaited'
  BY <1>1, <1>2, <1>3 DEF IInv, insert_process, OneWaited
<1>7. Overtaken'
  BY <1>1, <1>2 DEF IInv, insert_process, history, Overtaken
<1>8. Limited'
  BY <1>1, <1>2 DEF IInv, insert_process, Limited
<1>9. (stolen \ Current)' = stolen \ Current
  <2>1. CASE kind[forks] = "waited"
    BY <1>1, <1>2, <2>1 DEF insert_process, history, Current, Between
  <2>2. CASE kind[forks] # "waited"
    <3>1. forks \notin stolen
      BY <2>2 DEF IInv, Overtaken
    <3>2. QED
      BY <1>1, <1>2, <2>2, <3>1 DEF insert_process, history, Current, Between
  <2>3. QED
    BY <2>1, <2>2
<1>10. CountDrifts'
  BY <1>1, <1>2, <1>3, <1>9 DEF IInv, insert_process, history, CountDrifts
<1>11. InputsClosed'
  BY <1>1, <1>2 DEF IInv, insert_process, history, InputsClosed, Overtaken, Between
<1>12. QED
  BY <1>4, <1>5, <1>6, <1>7, <1>8, <1>10, <1>11 DEF IInv

LEMMA WaitpidInv == IInv /\ Waitpid => IInv'
<1> SUFFICES ASSUME IInv, Waitpid PROVE IInv'
  OBVIOUS
<1>1. /\ forks \in Child /\ pc = "waiting" /\ pc' = "reaped" /\ kind[forks] = "waited"
      /\ Current = {forks} /\ Current' = {forks}
  BY DEF IInv, Waitpid, Numbered, OneWaited, Current, Between
<1>2. /\ state[forks] \in {"zombie", "gone"}
      /\ state'[forks] = "gone"
      /\ \A j \in Child \ {forks} : state'[j] = state[j]
  BY <1>1 DEF IInv, Waitpid, Typed
<1>3. Unreaped' = Unreaped \ {forks}
  BY <1>1, <1>2 DEF Unreaped
<1>4. Typed'
  BY <1>1 DEF IInv, Waitpid, history, Typed
<1>5. Numbered'
  BY <1>1, <1>2 DEF IInv, Waitpid, Numbered
<1>6. OneWaited'
  BY <1>1, <1>2, <1>3 DEF IInv, Waitpid, OneWaited
<1>7. Overtaken'
  BY <1>1, <1>2 DEF IInv, Waitpid, history, Typed, Overtaken
<1>8. Limited'
  BY <1>1 DEF IInv, Waitpid, Limited
<1>9. CountDrifts'
  <2>1. /\ Cardinality(Unreaped) \in Int /\ Cardinality(stolen \ Current) \in Int
        /\ forks \in Unreaped => Cardinality(Unreaped') = Cardinality(Unreaped) - 1
    BY <1>3, ChildSets DEF IInv, Typed, Unreaped
  <2>2. CASE state[forks] = "zombie"
    <3>1. forks \in Unreaped /\ forks \notin stolen
      BY <1>1, <2>2 DEF IInv, Unreaped, Overtaken
    <3>2. QED
      BY <1>1, <2>1, <3>1 DEF IInv, Typed, Waitpid, history, CountDrifts
  <2>3. CASE state[forks] = "gone"
    <3>1. Unreaped' = Unreaped /\ forks \in stolen
      BY <1>1, <1>3, <2>3 DEF IInv, Unreaped, Overtaken
    <3>2. QED
      BY <1>1, <2>1, <3>1 DEF IInv, Typed, Waitpid, history, CountDrifts
  <2>4. QED
    BY <1>2, <2>2, <2>3
<1>10. InputsClosed'
  BY <1>1, <1>2 DEF IInv, Waitpid, history, InputsClosed, Typed, Between
<1>11. QED
  BY <1>4, <1>5, <1>6, <1>7, <1>8, <1>9, <1>10 DEF IInv

LEMMA UncountInv == IInv /\ Uncount => IInv'
<1> SUFFICES ASSUME IInv, Uncount PROVE IInv'
  OBVIOUS
<1>1. /\ forks \in Child /\ pc = "reaped" /\ pc' = "closing"
      /\ Current = {forks} /\ Current' = {} /\ Unreaped' = Unreaped
  BY DEF IInv, Uncount, Numbered, Current, Between, Unreaped
<1>2. Typed'
  BY <1>1 DEF IInv, Uncount, history, Typed
<1>3. (Numbered /\ OneWaited /\ Overtaken)'
  BY <1>1 DEF IInv, Uncount, history, Numbered, OneWaited, Overtaken
<1>4. Limited'
  BY <1>1, ProcTableAssumption DEF IInv, Typed, Uncount, Limited
<1>5. CountDrifts'
  <2>1. Unreaped \subseteq Child /\ stolen \subseteq Child
    BY DEF IInv, Typed, Unreaped
  <2>2. /\ Cardinality(Unreaped) \in Int /\ Cardinality(stolen) \in Int
        /\ Cardinality(Unreaped') = Cardinality(Unreaped)
    BY <1>1, <2>1, ChildSets
  <2>3. stolen' = stolen /\ Cardinality((stolen \ Current)') = Cardinality(stolen)
    <3>1. stolen' \ Current' = stolen /\ stolen' = stolen
      BY <1>1 DEF Uncount, history
    <3>2. QED
      BY <3>1
  <2>4. CASE forks \in stolen
    <3>1. Cardinality(stolen \ Current) = Cardinality(stolen) - 1
      BY <1>1, <2>4, ChildSets DEF IInv, Typed
    <3>2. QED
      BY <1>1, <2>2, <2>4, <2>3, <3>1 DEF IInv, Typed, Uncount, CountDrifts
  <2>5. CASE forks \notin stolen
    <3>1. stolen \ Current = stolen
      BY <1>1, <2>5
    <3>2. Cardinality(stolen \ Current) = Cardinality(stolen)
      BY <3>1
    <3>3. QED
      BY <1>1, <2>2, <2>5, <2>3, <3>2 DEF IInv, Typed, Uncount, CountDrifts
  <2>6. QED
    BY <2>4, <2>5
<1>6. InputsClosed'
  BY <1>1 DEF IInv, Uncount, history, InputsClosed
<1>7. QED
  BY <1>2, <1>3, <1>4, <1>5, <1>6 DEF IInv

LEMMA CloseInv == IInv /\ Close => IInv'
<1> SUFFICES ASSUME IInv, Close PROVE IInv'
  OBVIOUS
<1>1. /\ forks \in Child /\ pc = "closing" /\ pc' = "prompt" /\ forks \in processes
      /\ Current = {} /\ Current' = {} /\ Unreaped' = Unreaped
  BY DEF IInv, Close, Numbered, Typed, Child, Current, Between, Unreaped
<1>2. held' = held \ {forks}
  BY <1>1 DEF Close, close_process
<1>3. Typed'
  BY <1>1, <1>2 DEF IInv, Close, history, Typed
<1>4. (Numbered /\ OneWaited /\ Overtaken /\ Limited)'
  BY <1>1, <1>2 DEF IInv, Close, history, Numbered, OneWaited, Overtaken, Limited
<1>5. CountDrifts'
  BY <1>1 DEF IInv, Close, history, CountDrifts
<1>6. InputsClosed'
  BY <1>1, <1>2 DEF IInv, Close, history, InputsClosed
<1>7. QED
  BY <1>3, <1>4, <1>5, <1>6 DEF IInv

LEMMA ChildEndsInv == ASSUME IInv, NEW c \in Child, ChildEnds(c) PROVE IInv'
<1>1. /\ state[c] = "runs" /\ state'[c] = "zombie"
      /\ \A j \in Child \ {c} : state'[j] = state[j]
  BY DEF IInv, ChildEnds, Typed
<1>2. Unreaped' = Unreaped /\ Current' = Current
  BY <1>1 DEF Unreaped, Current, Between, ChildEnds
<1>3. Typed'
  BY DEF IInv, ChildEnds, history, Typed
<1>4. Numbered'
  BY <1>1 DEF IInv, ChildEnds, Numbered
<1>5. OneWaited'
  BY <1>1, <1>2 DEF IInv, ChildEnds, Typed, Numbered, OneWaited
<1>6. (Overtaken /\ Limited)'
  BY <1>1 DEF IInv, ChildEnds, history, Typed, Numbered, Overtaken, Limited
<1>7. CountDrifts'
  BY <1>2 DEF IInv, ChildEnds, history, CountDrifts
<1>8. InputsClosed'
  BY <1>1 DEF IInv, ChildEnds, history, Typed, InputsClosed, Between
<1>9. QED
  BY <1>3, <1>4, <1>5, <1>6, <1>7, <1>8 DEF IInv

LEMMA HandlerInv == IInv /\ child_handler => IInv'
<1> SUFFICES ASSUME IInv, child_handler PROVE IInv'
  OBVIOUS
<1>1. /\ \A j \in Child : state'[j] = IF state[j] = "zombie" THEN "gone" ELSE state[j]
      /\ pc' = pc /\ forks' = forks /\ kind' = kind /\ processes' = processes
      /\ held' = held \ (Reaped \intersect processes)
  BY DEF child_handler, Reaped, close_process
<1>2. Reaped \subseteq Unreaped /\ Unreaped' = Unreaped \ Reaped /\ Current' = Current
  BY <1>1 DEF Unreaped, Reaped, Current, Between
<1>3. /\ Cardinality(Unreaped') = Cardinality(Unreaped) - Uncounted
      /\ Cardinality(Unreaped) \in Int /\ Uncounted \in Nat
      /\ Cardinality(stolen \ Current) \in Int
  BY <1>2, ChildSets, TakenAway DEF Uncounted, IInv, Typed, Unreaped, Reaped
<1>4. \A j \in Reaped : kind[j] = "waited" =>
        j = forks /\ pc \in {"forked", "counted", "waiting"}
  BY <1>2 DEF IInv, OneWaited
<1>5. Typed'
  <2>1. state' \in [Child -> {"none", "runs", "zombie", "gone"}]
    BY DEF IInv, child_handler, Typed
  <2>2. fork_count' \in Int
    BY <1>3 DEF IInv, child_handler, Typed
  <2>3. stolen' \subseteq Child /\ early' \subseteq Child
    BY DEF IInv, child_handler, Typed, Reaped
  <2>4. QED
    BY <1>1, <2>1, <2>2, <2>3 DEF IInv, child_handler, Typed
<1>6. Numbered'
  BY <1>1 DEF IInv, Typed, Numbered
<1>7. OneWaited'
  BY <1>1, <1>2 DEF IInv, Numbered, OneWaited
<1>8. Overtaken'
  <2>1. \A j \in stolen' : kind'[j] = "waited" /\ state'[j] = "gone"
    BY <1>1 DEF IInv, child_handler, Typed, Overtaken, Reaped
  <2>2. ASSUME pc' \in {"forked", "counted", "waiting"}, state'[forks'] = "gone"
        PROVE  /\ kind'[forks'] = "waited" => forks' \in stolen'
               /\ pc' # "waiting" => forks' \in early'
    <3>1. forks \in Child
      BY <1>1, <2>2 DEF IInv, Numbered
    <3>2. CASE state[forks] = "zombie"
      BY <1>1, <2>2, <3>1, <3>2 DEF IInv, child_handler, Numbered, Reaped, Child
    <3>3. CASE state[forks] = "gone"
      BY <1>1, <2>2, <3>3 DEF IInv, child_handler, Overtaken
    <3>4. QED
      BY <1>1, <2>2, <3>1, <3>2, <3>3
  <2>3. QED
    BY <2>1, <2>2 DEF Overtaken
<1>9. Limited'
  BY <1>1, <1>3, ProcTableAssumption DEF IInv, child_handler, Typed, Limited
<1>10. CountDrifts'
  <2>1. (stolen \ Current)' = stolen \ Current
    BY <1>2, <1>4 DEF child_handler, Current, Between
  <2>2. pc = "reaped" => (forks \in stolen' <=> forks \in stolen)
    BY <1>4 DEF child_handler
  <2>3. Cardinality((stolen \ Current)') = Cardinality(stolen \ Current)
    BY <2>1
  <2>4. QED
    BY <1>1, <1>3, <2>2, <2>3 DEF IInv, child_handler, Typed, CountDrifts
<1>11. InputsClosed'
  <2> SUFFICES ASSUME NEW j \in held', state'[j] = "gone"
               PROVE  (\/ j \in early /\ kind[j] # "waited"
                       \/ j = forks /\ (Between \/ pc = "closing"))'
    BY DEF InputsClosed
  <2>1. j \in Child /\ j \in held
    BY <1>1 DEF IInv, Typed
  <2>2. CASE j \in Reaped
    BY <1>1, <1>4, <2>1, <2>2 DEF child_handler, Between
  <2>3. CASE j \notin Reaped
    BY <1>1, <2>1, <2>3 DEF IInv, InputsClosed, child_handler, Between, Reaped
  <2>4. QED
    BY <2>2, <2>3
<1>12. QED
  BY <1>5, <1>6, <1>7, <1>8, <1>9, <1>10, <1>11 DEF IInv

LEMMA NextInv == IInv /\ [Next]_vars => IInv'
<1>1. IInv /\ UNCHANGED vars => IInv'
  BY DEF IInv, vars, history, Typed, Numbered, OneWaited, Overtaken, Limited, CountDrifts,
         InputsClosed, Unreaped, Current, Between
<1>2. QED
  BY <1>1, CommandInv, ForkInv, CountInv, InsertInv, WaitpidInv, UncountInv, CloseInv,
     ChildEndsInv, HandlerInv DEF Next, ShellNext

LEMMA Invariance == Spec => []IInv
BY InitInv, NextInv, PTL DEF Spec

-----------------------------------------------------------------------------
(* The properties of ProcTable.                                            *)

(* fork_count stays between the negated number of children and one above   *)
(* the limit: it never counts more children than the limit allows, however *)
(* often the handler and the shell both subtract one.                      *)
THEOREM Typing == Spec => []TypeOK
<1>1. IInv => TypeOK
  <2> SUFFICES ASSUME IInv PROVE TypeOK
    OBVIOUS
  <2>1. fork_count \in Int /\ fork_count <= max_fork_num + 1
    BY DEF IInv, Typed, Limited
  <2>2. Cardinality(Unreaped) \in Nat /\ Cardinality(stolen \ Current) \in 0..MaxForks
    BY ChildSets DEF IInv, Typed, Unreaped
  <2>3. pc = "forked" => Cardinality(stolen \ Current) <= MaxForks - 1
    BY ChildSets DEF IInv, Typed, Numbered, Current, Between
  <2>4. -MaxForks <= fork_count
    BY <2>1, <2>2, <2>3, ProcTableAssumption DEF IInv, CountDrifts
  <2>5. QED
    BY <2>1, <2>4, ProcTableAssumption DEF IInv, Typed, TypeOK
<1>2. QED
  BY <1>1, Invariance, PTL

(* fork_count is the number of unreaped children less one for every        *)
(* foreground command that the handler reaped first: it never exceeds the  *)
(* number of children the shell has.                                       *)
THEOREM TheCountDrifts == Spec => []CountDrifts
BY Invariance, PTL DEF IInv

(* The shell closes its copy of a command's input when the command has     *)
(* been reaped, by whomever, unless it was in the background and ended     *)
(* before it was recorded.                                                 *)
THEOREM InputsAreClosed == Spec => []InputsClosed
BY Invariance, PTL DEF IInv
=============================================================================

------------------------- MODULE SingleServerProofs -------------------------
(***************************************************************************)
(* Proofs about SingleServer, for any number of connections, slots, names, *)
(* descriptors and lines.                                                  *)
(*                                                                         *)
(* Two facts carry the others.  Found: of all the slots with the number of *)
(* an active descriptor, old ones included, the lowest is in use, whatever *)
(* has been closed by mistake.  And as long as nothing was (Seated,        *)
(* Wired), every number in the table stands for what it was stored for, so *)
(* that a close() of one number leaves all the others alone.               *)
(***************************************************************************)
EXTENDS SingleServer, WellFoundedInduction, FiniteSetTheorems, TLAPS

(* What the table is made of.  The numbers of a waiting pipe are           *)
(* descriptors.                                                            *)
Typed ==
  /\ desc \in [Fd -> What]
  /\ afds \subseteq Fd
  /\ user_data \in [Slot -> [valid : BOOLEAN, fd : 0..MaxFd, name : Name \union {NoName},
                             addr : Conn \union {NoName}, box : [Slot -> Pipe]]]
  /\ jobs \subseteq [fd : Fd, id : Nat] /\ pipes \in Nat
  /\ mixed \in BOOLEAN
  /\ \A i, j \in Slot : user_data[i].box[j].valid =>
       user_data[i].box[j].fd[1] \in Fd /\ user_data[i].box[j].fd[2] \in Fd

(* Slot i has the number f, and no slot below it has.                      *)
First(i, f) == user_data[i].fd = f /\ \A j \in Slot : user_data[j].fd = f => i <= j

Found == \A f \in afds : \E i \in Valid : First(i, f)

Seated ==
  ~mixed => \A i \in Valid :
    /\ user_data[i].fd \in afds
    /\ desc[user_data[i].fd] = Socket(user_data[i].addr)
    /\ \A j \in Valid : user_data[j].fd = user_data[i].fd => j = i

Piped == \A i, j \in Slot : user_data[i].box[j].valid => i \in Valid /\ j \in Valid

Wired ==
  ~mixed => \A i, j \in Slot : user_data[i].box[j].valid =>
    desc[user_data[i].box[j].fd[1]] = ReadEnd(user_data[i].box[j].id)

(* Every pipe has a number of its own.                                     *)
Numbered ==
  /\ \A i, j \in Slot : user_data[i].box[j].valid =>
       /\ user_data[i].box[j].id <= pipes
       /\ \A n \in jobs : n.id # user_data[i].box[j].id
       /\ \A k, l \in Slot :
            user_data[k].box[l].valid /\ user_data[k].box[l].id = user_data[i].box[j].id
            => k = i /\ l = j
  /\ \A n \in jobs : n.id <= pipes

(* The table.                                                              *)
Table == Typed /\ Found /\ Seated /\ NamesUnique /\ Piped /\ Wired /\ Numbered /\ NoneLost

(* The clients and the loop.                                               *)
Loop ==
  /\ rfds \subseteq afds /\ accepting \in BOOLEAN
  /\ cin \in {"good", "failed"} /\ stdin \in Seq(Conn)
  /\ client \in [Conn -> {"none", "knocks", "on", "off", "gone"}]
  /\ typed \in [Conn -> Nat] /\ unread \in [Conn -> Nat]
  /\ wrong \in BOOLEAN

(* Clients that wait for their prompt leave nothing in stdin's buffer.     *)
Patient == Ahead = 1 => stdin = <<>> /\ \A k \in Conn : unread[k] <= 1

IInv == Table /\ Loop /\ Patient /\ OwnLines

-----------------------------------------------------------------------------
(* Operators of the model.                                                 *)

(* A nonempty set of natural numbers has a minimum.                        *)
LEMMA MinIn ==
  ASSUME NEW S, S \subseteq Nat, S # {}
  PROVE  Min(S) \in S /\ \A x \in S : Min(S) <= x
<1>1. \E x \in S : \A y \in S : <<y, x>> \notin OpToRel(<, Nat)
  BY NatLessThanWellFounded, WFMin
<1>2. \E x \in S : \A y \in S : x <= y
  <2>1. PICK x \in S : \A y \in S : <<y, x>> \notin OpToRel(<, Nat)
    BY <1>1
  <2>2. \A y \in S : ~(y < x)
    BY <2>1 DEF OpToRel
  <2>3. QED
    BY <2>2
<1>3. QED
  BY <1>2 DEF Min

LEMMA SlotNat == Slot \subseteq Nat /\ Fd \subseteq Nat
BY SingleServerAssumption DEF Slot, Fd

(* find_user_id finds a user, the one at the first slot with the number.   *)
LEMMA UserBehind ==
  ASSUME Found, NEW f \in afds
  PROVE  find_user_id(f) \in Valid /\ First(find_user_id(f), f)
<1>1. PICK i \in Valid : First(i, f)
  BY DEF Found
<1> DEFINE S == {j \in Slot : user_data[j].fd = f}
<1>2. i \in S
  BY <1>1 DEF Valid, First
<1>3. Min(S) \in S /\ Min(S) <= i
  BY <1>2, MinIn, SlotNat
<1>4. i <= Min(S)
  BY <1>1, <1>3 DEF First
<1>5. i \in Nat /\ Min(S) \in Nat
  BY <1>2, <1>3, SlotNat
<1>6. Min(S) = i
  BY <1>3, <1>4, <1>5
<1>7. QED
  BY <1>1, <1>6 DEF find_user_id

LEMMA Kinds ==
  /\ \A k, n : Socket(k) # Free /\ Socket(k) # Leaked /\ Socket(k) # ReadEnd(n)
  /\ \A n : ReadEnd(n) # Free /\ ReadEnd(n) # Leaked /\ ReadEnd(n).is = "read"
  /\ \A k : Socket(k).is # "read"
  /\ \A m, n : /\ ReadEnd(m) = ReadEnd(n) => m = n
               /\ Socket(m) = Socket(n) => m = n
  /\ Free.is # "read" /\ Leaked.is # "read"
  /\ \A n \in Nat : ReadEnd(n) \in What
  /\ Free \in What /\ Leaked \in What
  /\ \A k \in Conn : Socket(k) \in What
<1>1. \A k, n : Socket(k) # ReadEnd(n)
  <2>1. \A k : Socket(k).is = "socket"
    BY DEF Socket
  <2>2. \A n : ReadEnd(n).is = "read"
    BY DEF ReadEnd
  <2>3. QED
    BY <2>1, <2>2
<1>2. \A k : /\ Socket(k) # Free /\ Socket(k) # Leaked
             /\ ReadEnd(k) # Free /\ ReadEnd(k) # Leaked
  <2>1. \A k : Socket(k).is = "socket" /\ ReadEnd(k).is = "read"
    BY DEF Socket, ReadEnd
  <2>2. Free.is = "free" /\ Leaked.is = "leaked"
    BY DEF Free, Leaked
  <2>3. QED
    BY <2>1, <2>2
<1>3. \A k : Socket(k).is = "socket" /\ ReadEnd(k).is = "read"
  BY DEF Socket, ReadEnd
<1>4. \A m : Socket(m).of = m /\ ReadEnd(m).of = m
  BY DEF Socket, ReadEnd
<1>5. \A m, n : /\ ReadEnd(m) = ReadEnd(n) => m = n
                /\ Socket(m) = Socket(n) => m = n
  BY <1>4
<1>6. Free.is # "read" /\ Leaked.is # "read"
  BY DEF Free, Leaked
<1>7. /\ \A n \in Nat : ReadEnd(n) \in What
      /\ Free \in What /\ Leaked \in What
      /\ \A k \in Conn : Socket(k) \in What
  BY DEF What, ReadEnd, Socket
<1>8. QED
  BY <1>1, <1>2, <1>3, <1>5, <1>6, <1>7

(* What is open as a read end has the number of its pipe.                  *)
LEMMA ReadEnds ==
  ASSUME Typed, NEW f \in Fd, desc[f].is = "read"
  PROVE  desc[f] = ReadEnd(desc[f].of)
<1>1. desc[f] \in What
  BY DEF Typed
<1>2. desc[f] \in [is : {"read"}, of : Nat]
  BY <1>1, Kinds DEF What
<1>3. QED
  BY <1>2 DEF ReadEnd

-----------------------------------------------------------------------------
(* The table, step by step.                                                *)

LEMMA AcceptTable ==
  ASSUME Table, Accept
  PROVE  Table'
<1>1. PICK k \in Knocking, f \in Fd :
        /\ Valid # Slot
        /\ Lowest(1, f)
        /\ desc' = [desc EXCEPT ![f] = Socket(k)]
        /\ FD_SET(f)
        /\ insert_user(f, k)
        /\ UNCHANGED <<jobs, pipes, mixed>>
  BY DEF Accept, history
<1>2. desc[f] = Free /\ desc'[f] = Socket(k) /\ \A g \in Fd \ {f} : desc'[g] = desc[g]
  BY <1>1 DEF Lowest, FreeFds, Table, Typed
<1>3. PICK m \in Slot \ Valid :
        /\ \A i \in Slot \ Valid : m <= i
        /\ user_data' = [user_data EXCEPT ![m] = build_user(f, k)]
  <2>1. Slot \ Valid # {} /\ Slot \ Valid \subseteq Nat
    BY <1>1, SlotNat DEF Valid
  <2>2. QED
    BY <1>1, <2>1, MinIn DEF insert_user
<1>4. user_data'[m] = build_user(f, k) /\ \A i \in Slot \ {m} : user_data'[i] = user_data[i]
  BY <1>3 DEF Table, Typed
<1>5. /\ user_data'[m].valid /\ user_data'[m].fd = f /\ user_data'[m].name = NoName
      /\ user_data'[m].addr = k
      /\ \A j \in Slot : user_data'[m].box[j].valid = FALSE
  BY <1>4 DEF build_user, NoPipe
<1>6. Valid' = Valid \union {m}
  BY <1>4, <1>5 DEF Valid
<1>7. \A i, j \in Slot : user_data'[i].box[j].valid =>
        i # m /\ user_data[i].box[j].valid /\ user_data'[i] = user_data[i]
  BY <1>4, <1>5
<1>8. Typed'
  <2>1. NoPipe \in Pipe
    BY SingleServerAssumption DEF NoPipe, Pipe
  <2>2. build_user(f, k) \in [valid : BOOLEAN, fd : 0..MaxFd, name : Name \union {NoName},
                              addr : Conn \union {NoName}, box : [Slot -> Pipe]]
    BY <1>1, <2>1, SingleServerAssumption DEF build_user, Knocking, Fd
  <2>3. desc' \in [Fd -> What]
    BY <1>1, Kinds DEF Table, Typed, Knocking
  <2>4. afds' \subseteq Fd
    BY <1>1 DEF FD_SET, Table, Typed
  <2>5. user_data' \in [Slot -> [valid : BOOLEAN, fd : 0..MaxFd, name : Name \union {NoName},
                                 addr : Conn \union {NoName}, box : [Slot -> Pipe]]]
    BY <1>3, <2>2 DEF Table, Typed
  <2>6. QED
    BY <1>1, <1>7, <2>3, <2>4, <2>5 DEF Table, Typed
<1>9. Found'
  <2>1. ASSUME NEW g \in afds', g # f PROVE \E i \in Valid' : First(i, g)'
    <3>1. PICK i \in Valid : First(i, g)
      BY <1>1, <2>1 DEF FD_SET, Table, Found
    <3>2. QED
      BY <1>3, <1>4, <1>5, <1>6, <2>1, <3>1 DEF First
  <2>2. \E i \in Valid' : First(i, f)'
    <3>1. CASE \E i \in Valid : user_data[i].fd = f /\ i <= m
      <4> DEFINE S == {i \in Valid : user_data[i].fd = f}
      <4>1. S # {} /\ S \subseteq Nat /\ S \subseteq Slot
        BY <3>1, SlotNat DEF Valid
      <4>2. PICK i \in S : \A j \in S : i <= j
        BY <4>1, MinIn
      <4>3. i <= m
        BY <1>3, <3>1, <4>1, <4>2, SlotNat
      <4>4. \A j \in Slot : user_data'[j].fd = f => i <= j
        BY <1>3, <1>4, <4>1, <4>2, <4>3, SlotNat DEF Valid
      <4>5. i \in Valid /\ i # m /\ user_data[i].fd = f /\ i \in Slot
        BY <1>3, <4>2 DEF Valid
      <4>6. QED
        BY <1>4, <1>6, <4>4, <4>5 DEF First
    <3>2. CASE ~\E i \in Valid : user_data[i].fd = f /\ i <= m
      <4>1. m \in Nat /\ Slot \subseteq Nat
        BY <1>3, SlotNat
      <4>2. \A j \in Slot : user_data'[j].fd = f => m <= j
        BY <1>3, <1>4, <3>2, <4>1 DEF Valid
      <4>3. QED
        BY <1>3, <1>5, <1>6, <4>2 DEF First
    <3>3. QED
      BY <3>1, <3>2
  <2>3. QED
    BY <2>1, <2>2 DEF Found
<1>10. Seated'
  <2>1. SUFFICES ASSUME ~mixed PROVE
          \A i \in Valid' :
            /\ user_data'[i].fd \in afds'
            /\ desc'[user_data'[i].fd] = Socket(user_data'[i].addr)
            /\ \A j \in Valid' : user_data'[j].fd = user_data'[i].fd => j = i
    BY <1>1 DEF Seated, Socket
  <2>2. \A i \in Valid : /\ user_data[i].fd \in afds /\ user_data[i].fd # f
                         /\ user_data[i].fd \in Fd
                         /\ desc[user_data[i].fd] = Socket(user_data[i].addr)
                         /\ \A j \in Valid : user_data[j].fd = user_data[i].fd => j = i
    BY <1>2, <2>1, Kinds DEF Table, Seated, Typed
  <2>3. \A i \in Valid : i # m /\ user_data'[i] = user_data[i]
    BY <1>3, <1>4 DEF Valid
  <2>4. afds' = afds \union {f}
    BY <1>1 DEF FD_SET
  <2>5. QED
    BY <1>2, <1>5, <1>6, <2>2, <2>3, <2>4
<1>11. NamesUnique'
  <2>1. \A i \in Valid : i # m /\ user_data'[i] = user_data[i]
    BY <1>3, <1>4 DEF Valid
  <2>2. QED
    BY <1>5, <1>6, <2>1 DEF Table, NamesUnique
<1>12. Piped'
  BY <1>6, <1>7 DEF Table, Piped
<1>13. Wired'
  <2>1. SUFFICES ASSUME ~mixed, NEW i \in Slot, NEW j \in Slot, user_data'[i].box[j].valid
                 PROVE  desc'[user_data'[i].box[j].fd[1]] = ReadEnd(user_data'[i].box[j].id)
    BY <1>1 DEF Wired, ReadEnd
  <2>2. /\ user_data'[i] = user_data[i]
        /\ desc[user_data[i].box[j].fd[1]] = ReadEnd(user_data[i].box[j].id)
        /\ user_data[i].box[j].fd[1] \in Fd
    BY <1>7, <2>1 DEF Table, Wired, Typed
  <2>3. QED
    BY <1>2, <2>2, Kinds
<1>14. Numbered'
  BY <1>1, <1>7 DEF Table, Numbered
<1>15. NoneLost'
  <2>1. SUFFICES ASSUME ~mixed, NEW g \in Fd, desc'[g].is = "read"
                 PROVE  \/ [fd |-> g, id |-> desc'[g].of] \in jobs
                        \/ \E i, j \in Slot : /\ user_data'[i].box[j].valid
                                              /\ user_data'[i].box[j].fd[1] = g
                                              /\ user_data'[i].box[j].id = desc'[g].of
    BY <1>1 DEF NoneLost
  <2>2. g # f /\ desc'[g] = desc[g]
    BY <1>2, <2>1, Kinds
  <2>3. \A i, j \in Slot : user_data[i].box[j].valid => user_data'[i] = user_data[i]
    BY <1>3, <1>4 DEF Table, Piped
  <2>4. QED
    BY <2>1, <2>2, <2>3 DEF Table, NoneLost
<1>16. QED
  BY <1>8, <1>9, <1>10, <1>11, <1>12, <1>13, <1>14, <1>15 DEF Table

(* Steps that leave every slot where it is, with its number.               *)
SameSeats ==
  /\ afds' = afds
  /\ \A i \in Slot : /\ user_data'[i].valid = user_data[i].valid
                     /\ user_data'[i].fd = user_data[i].fd
                     /\ user_data'[i].addr = user_data[i].addr

(* No socket becomes something else.                                       *)
SameSockets == \A g \in Fd : \A k : desc[g] = Socket(k) => desc'[g] = desc[g]

LEMMA SeatsKept ==
  ASSUME Table, SameSeats, ~mixed' => ~mixed /\ SameSockets
  PROVE  Found' /\ Seated' /\ Valid' = Valid
<1>1. Valid' = Valid
  BY DEF SameSeats, Valid
<1>2. Found'
  BY <1>1 DEF Table, Found, First, SameSeats, Valid
<1>3. Seated'
  <2>1. SUFFICES ASSUME ~mixed', NEW i \in Valid'
                 PROVE  /\ user_data'[i].fd \in afds'
                        /\ desc'[user_data'[i].fd] = Socket(user_data'[i].addr)
                        /\ \A j \in Valid' : user_data'[j].fd = user_data'[i].fd => j = i
    BY DEF Seated, Socket
  <2>2. /\ ~mixed /\ i \in Valid /\ i \in Slot
        /\ user_data'[i].fd = user_data[i].fd /\ user_data'[i].addr = user_data[i].addr
        /\ \A j \in Valid : user_data'[j].fd = user_data[j].fd
    BY <1>1, <2>1 DEF SameSeats, Valid
  <2>3. /\ user_data[i].fd \in afds /\ user_data[i].fd \in Fd
        /\ desc[user_data[i].fd] = Socket(user_data[i].addr)
        /\ \A j \in Valid : user_data[j].fd = user_data[i].fd => j = i
    BY <2>2 DEF Table, Seated, Typed
  <2>4. desc'[user_data[i].fd] = desc[user_data[i].fd]
    BY <2>1, <2>3 DEF SameSockets
  <2>5. QED
    BY <1>1, <2>2, <2>3, <2>4 DEF SameSeats
<1>4. QED
  BY <1>1, <1>2, <1>3

LEMMA NameTable ==
  ASSUME Table, NEW f \in afds, RunName(f)
  PROVE  Table'
<1> DEFINE id == find_user_id(f)
<1>1. id \in Slot /\ id \in Valid
  BY UserBehind DEF Table, Valid
<1>2. PICK n \in Name : user_data' = IF dup_name(id, n) THEN user_data
                                     ELSE [user_data EXCEPT ![id].name = n]
  BY DEF RunName
<1>3. UNCHANGED <<desc, afds, jobs, pipes, mixed>>
  BY DEF RunName
<1> HIDE DEF id
<1>4. CASE dup_name(id, n)
  BY <1>2, <1>3, <1>4 DEF Table, Typed, Found, First, Seated, NamesUnique, Piped, Wired,
    Numbered, NoneLost, Valid
<1>5. CASE ~dup_name(id, n)
  <2>1. user_data' = [user_data EXCEPT ![id].name = n]
    BY <1>2, <1>5
  <2>2. \A i \in Slot : /\ user_data'[i].valid = user_data[i].valid
                        /\ user_data'[i].fd = user_data[i].fd
                        /\ user_data'[i].addr = user_data[i].addr
                        /\ user_data'[i].box = user_data[i].box
                        /\ user_data'[i].name = IF i = id THEN n ELSE user_data[i].name
    BY <1>1, <2>1 DEF Table, Typed
  <2>3. SameSeats /\ SameSockets
    BY <1>3, <2>2 DEF SameSeats, SameSockets
  <2>4. Found' /\ Seated' /\ Valid' = Valid
    BY <1>3, <2>3, SeatsKept
  <2>5. Typed'
    <3>1. user_data' \in [Slot -> [valid : BOOLEAN, fd : 0..MaxFd, name : Name \union {NoName},
                                   addr : Conn \union {NoName}, box : [Slot -> Pipe]]]
      BY <1>1, <2>1 DEF Table, Typed
    <3>2. QED
      BY <1>3, <2>2, <3>1 DEF Table, Typed
  <2>6. NamesUnique'
    <3>1. \A i \in Slot : user_data[i].name # n
      BY <1>5 DEF dup_name
    <3>2. \A i \in Valid : i \in Slot
      BY DEF Valid
    <3>3. QED
      BY <2>2, <2>4, <3>1, <3>2 DEF Table, NamesUnique
  <2>7. Piped' /\ Numbered'
    BY <1>3, <2>2, <2>4 DEF Table, Piped, Numbered
  <2>8. Wired' /\ NoneLost'
    BY <1>3, <2>2 DEF Table, Wired, NoneLost, ReadEnd
  <2>9. QED
    BY <2>4, <2>5, <2>6, <2>7, <2>8 DEF Table
<1>6. QED
  BY <1>4, <1>5

(* A free descriptor becomes something that nobody owns.                   *)
LEMMA RefuseTable ==
  ASSUME Table, Refuse
  PROVE  Table'
<1>1. PICK r \in Fd, w \in Fd :
        /\ Lowest(1, r) /\ Lowest(2, w)
        /\ desc' = [desc EXCEPT ![r] = Leaked, ![w] = Leaked]
        /\ UNCHANGED <<afds, user_data, jobs, pipes, client, mixed>>
  BY DEF Refuse
<1>2. /\ desc[r] = Free /\ desc[w] = Free
      /\ \A g \in Fd : desc'[g] = IF g = r \/ g = w THEN Leaked ELSE desc[g]
  BY <1>1 DEF Lowest, FreeFds, Table, Typed
<1>3. SameSeats /\ SameSockets
  BY <1>1, <1>2, Kinds DEF SameSeats, SameSockets
<1>4. Found' /\ Seated' /\ Valid' = Valid
  BY <1>1, <1>3, SeatsKept
<1>5. Typed'
  BY <1>1, Kinds DEF Table, Typed
<1>6. NamesUnique' /\ Piped' /\ Numbered'
  BY <1>1, <1>4 DEF Table, NamesUnique, Piped, Numbered
<1>7. Wired'
  <2>1. SUFFICES ASSUME ~mixed, NEW i \in Slot, NEW j \in Slot, user_data[i].box[j].valid
                 PROVE  desc'[user_data[i].box[j].fd[1]] = ReadEnd(user_data[i].box[j].id)
    BY <1>1 DEF Wired, ReadEnd
  <2>2. /\ desc[user_data[i].box[j].fd[1]] = ReadEnd(user_data[i].box[j].id)
        /\ user_data[i].box[j].fd[1] \in Fd
    BY <2>1 DEF Table, Wired, Typed
  <2>3. QED
    BY <1>2, <2>2, Kinds
<1>8. NoneLost'
  <2>1. SUFFICES ASSUME ~mixed, NEW g \in Fd, desc'[g].is = "read"
                 PROVE  \/ [fd |-> g, id |-> desc'[g].of] \in jobs
                        \/ \E i, j \in Slot : /\ user_data[i].box[j].valid
                                              /\ user_data[i].box[j].fd[1] = g
                                              /\ user_data[i].box[j].id = desc'[g].of
    <3>1. jobs' = jobs /\ user_data' = user_data /\ mixed' = mixed
      BY <1>1
    <3>2. QED
      BY <3>1 DEF NoneLost
  <2>2. desc'[g] = desc[g]
    BY <1>2, <2>1, Kinds
  <2>3. QED
    BY <2>1, <2>2 DEF Table, NoneLost
<1>9. QED
  BY <1>4, <1>5, <1>6, <1>7, <1>8 DEF Table

(* A user pipe is made.  The write end's number stays in the slot, though  *)
(* it is closed.                                                           *)
LEMMA PipeToTable ==
  ASSUME Table, NEW f \in afds, RunPipeTo(f)
  PROVE  Table'
<1> DEFINE id == find_user_id(f)
<1>1. id \in Slot /\ id \in Valid
  BY UserBehind DEF Table, Valid
<1>2. PICK to \in Slot :
        \/ ~Alive(to, to) /\ Refuse
        \/ Alive(to, to) /\ PipeAlive(id, to) /\ Refuse
        \/ /\ Alive(to, to) /\ ~PipeAlive(id, to)
           /\ \E r, w \in Fd :
                /\ Lowest(1, r) /\ Lowest(2, w)
                /\ desc' = [desc EXCEPT ![r] = ReadEnd(pipes + 1)]
                /\ user_data' = [user_data EXCEPT ![id].box[to] =
                                   [valid |-> TRUE, fd |-> <<r, w>>, id |-> pipes + 1]]
           /\ pipes' = pipes + 1
           /\ UNCHANGED <<afds, jobs, client, mixed>>
  BY DEF RunPipeTo
<1> HIDE DEF id
<1>3. CASE Refuse
  BY <1>3, RefuseTable
<1>4. CASE /\ Alive(to, to) /\ ~PipeAlive(id, to)
           /\ \E r, w \in Fd :
                /\ Lowest(1, r) /\ Lowest(2, w)
                /\ desc' = [desc EXCEPT ![r] = ReadEnd(pipes + 1)]
                /\ user_data' = [user_data EXCEPT ![id].box[to] =
                                   [valid |-> TRUE, fd |-> <<r, w>>, id |-> pipes + 1]]
           /\ pipes' = pipes + 1
           /\ UNCHANGED <<afds, jobs, client, mixed>>
  <2>1. PICK r \in Fd, w \in Fd :
          /\ Lowest(1, r)
          /\ desc' = [desc EXCEPT ![r] = ReadEnd(pipes + 1)]
          /\ user_data' = [user_data EXCEPT ![id].box[to] =
                             [valid |-> TRUE, fd |-> <<r, w>>, id |-> pipes + 1]]
    BY <1>4
  <2>2. to \in Valid /\ ~user_data[id].box[to].valid
    BY <1>1, <1>4 DEF Alive, PipeAlive
  <2>3. pipes \in Nat /\ pipes' = pipes + 1 /\ UNCHANGED <<afds, jobs, mixed>>
    BY <1>4 DEF Table, Typed
  <2>4. /\ desc[r] = Free /\ desc'[r] = ReadEnd(pipes + 1)
        /\ \A g \in Fd \ {r} : desc'[g] = desc[g]
    BY <2>1 DEF Lowest, FreeFds, Table, Typed
  <2>5. \A i \in Slot : /\ user_data'[i].valid = user_data[i].valid
                        /\ user_data'[i].fd = user_data[i].fd
                        /\ user_data'[i].addr = user_data[i].addr
                        /\ user_data'[i].name = user_data[i].name
    BY <1>1, <2>1 DEF Table, Typed
  <2>6. /\ \A i, j \in Slot : i # id \/ j # to => user_data'[i].box[j] = user_data[i].box[j]
        /\ user_data'[id].box[to] = [valid |-> TRUE, fd |-> <<r, w>>, id |-> pipes + 1]
    BY <1>1, <2>1 DEF Table, Typed
  <2>7. /\ user_data'[id].box[to].valid /\ user_data'[id].box[to].id = pipes + 1
        /\ user_data'[id].box[to].fd[1] = r /\ user_data'[id].box[to].fd[2] = w
    BY <2>6
  <2>8. SameSeats /\ SameSockets
    BY <2>3, <2>4, <2>5, Kinds DEF SameSeats, SameSockets
  <2>9. Found' /\ Seated' /\ Valid' = Valid
    BY <2>3, <2>8, SeatsKept
  <2>10. Typed'
    <3>1. [valid |-> TRUE, fd |-> <<r, w>>, id |-> pipes + 1] \in Pipe
      BY <2>3, SingleServerAssumption DEF Pipe, Fd
    <3>2. user_data' \in [Slot -> [valid : BOOLEAN, fd : 0..MaxFd, name : Name \union {NoName},
                                   addr : Conn \union {NoName}, box : [Slot -> Pipe]]]
      <4>1. [user_data[id].box EXCEPT ![to] = [valid |-> TRUE, fd |-> <<r, w>>,
                                               id |-> pipes + 1]] \in [Slot -> Pipe]
        BY <1>1, <3>1 DEF Table, Typed
      <4>2. QED
        BY <1>1, <2>1, <4>1 DEF Table, Typed
    <3>3. desc' \in [Fd -> What]
      BY <2>1, <2>3, Kinds DEF Table, Typed
    <3>4. \A i, j \in Slot : user_data'[i].box[j].valid =>
            user_data'[i].box[j].fd[1] \in Fd /\ user_data'[i].box[j].fd[2] \in Fd
      BY <2>6, <2>7 DEF Table, Typed
    <3>5. QED
      BY <2>3, <3>2, <3>3, <3>4 DEF Table, Typed
  <2>11. NamesUnique'
    BY <2>5, <2>9 DEF Table, NamesUnique, Valid
  <2>12. Piped'
    BY <1>1, <2>2, <2>6, <2>9 DEF Table, Piped
  <2>13. Wired'
    <3>1. SUFFICES ASSUME ~mixed, NEW i \in Slot, NEW j \in Slot, user_data'[i].box[j].valid
                   PROVE  desc'[user_data'[i].box[j].fd[1]] = ReadEnd(user_data'[i].box[j].id)
      BY <2>3 DEF Wired, ReadEnd
    <3>2. CASE i = id /\ j = to
      BY <2>4, <2>7, <3>2
    <3>3. CASE i # id \/ j # to
      <4>1. /\ user_data'[i].box[j] = user_data[i].box[j]
            /\ desc[user_data[i].box[j].fd[1]] = ReadEnd(user_data[i].box[j].id)
            /\ user_data[i].box[j].fd[1] \in Fd
        BY <2>6, <3>1, <3>3 DEF Table, Wired, Typed
      <4>2. QED
        BY <2>4, <4>1, Kinds
    <3>4. QED
      BY <3>2, <3>3
  <2>14. Numbered'
    <3>1. \A i, j \in Slot : user_data[i].box[j].valid =>
            user_data[i].box[j].id <= pipes /\ user_data[i].box[j].id \in Nat
      BY DEF Table, Typed, Numbered, Pipe
    <3>2. \A n \in jobs : n.id <= pipes /\ n.id \in Nat
      BY DEF Table, Typed, Numbered
    <3>3. \A i, j \in Slot : user_data'[i].box[j].valid =>
            \/ i = id /\ j = to
            \/ user_data[i].box[j].valid /\ user_data'[i].box[j] = user_data[i].box[j]
      BY <2>6
    <3>4. ASSUME NEW i \in Slot, NEW j \in Slot, user_data'[i].box[j].valid
          PROVE  /\ user_data'[i].box[j].id <= pipes'
                 /\ \A n \in jobs' : n.id # user_data'[i].box[j].id
      <4>1. CASE i = id /\ j = to
        BY <2>3, <2>7, <3>2, <4>1
      <4>2. CASE user_data[i].box[j].valid /\ user_data'[i].box[j] = user_data[i].box[j]
        BY <2>3, <3>1, <4>2 DEF Table, Numbered
      <4>3. QED
        BY <3>3, <3>4, <4>1, <4>2
    <3>5. ASSUME NEW i \in Slot, NEW j \in Slot, user_data'[i].box[j].valid,
                 NEW k \in Slot, NEW l \in Slot, user_data'[k].box[l].valid,
                 user_data'[k].box[l].id = user_data'[i].box[j].id
          PROVE  k = i /\ l = j
      <4>1. \A m, n \in Slot :
              user_data[m].box[n].valid => user_data[m].box[n].id # pipes + 1
        BY <2>3, <3>1
      <4>2. QED
        BY <2>7, <3>3, <3>5, <4>1 DEF Table, Numbered
    <3>6. \A n \in jobs' : n.id <= pipes'
      BY <2>3, <3>2
    <3>7. QED
      BY <3>4, <3>5, <3>6 DEF Numbered
  <2>15. NoneLost'
    <3>1. SUFFICES ASSUME ~mixed, NEW g \in Fd, desc'[g].is = "read"
                   PROVE  \/ [fd |-> g, id |-> desc'[g].of] \in jobs
                          \/ \E i, j \in Slot : /\ user_data'[i].box[j].valid
                                                /\ user_data'[i].box[j].fd[1] = g
                                                /\ user_data'[i].box[j].id = desc'[g].of
      BY <2>3 DEF NoneLost
    <3>2. CASE g = r
      <4>1. desc'[g].of = pipes + 1
        BY <2>4, <3>2 DEF ReadEnd
      <4>2. QED
        BY <1>1, <2>7, <3>2, <4>1
    <3>3. CASE g # r
      <4>1. desc'[g] = desc[g]
        BY <2>4, <3>3
      <4>2. CASE [fd |-> g, id |-> desc[g].of] \in jobs
        BY <4>1, <4>2
      <4>3. CASE \E i, j \in Slot : /\ user_data[i].box[j].valid
                                    /\ user_data[i].box[j].fd[1] = g
                                    /\ user_data[i].box[j].id = desc[g].of
        BY <2>2, <2>6, <4>1, <4>3
      <4>4. QED
        BY <3>1, <4>1, <4>2, <4>3 DEF Table, NoneLost
    <3>4. QED
      BY <3>2, <3>3
  <2>16. QED
    BY <2>9, <2>10, <2>11, <2>12, <2>13, <2>14, <2>15 DEF Table
<1>5. QED
  BY <1>2, <1>3, <1>4

(* The read end d of pipe n, which no slot knows any more, is closed; or   *)
(* something else is, by mistake.                                          *)
Closes(d, n) ==
  /\ desc' = [desc EXCEPT ![d] = Free]
  /\ mixed' = (mixed \/ desc[d] # ReadEnd(n))

LEMMA CloseSockets ==
  ASSUME Table, NEW d \in Fd, NEW n, Closes(d, n)
  PROVE  /\ desc' \in [Fd -> What] /\ mixed' \in BOOLEAN
         /\ desc'[d] = Free /\ \A g \in Fd \ {d} : desc'[g] = desc[g]
         /\ ~mixed' => ~mixed /\ desc[d] = ReadEnd(n) /\ SameSockets
<1>1. desc' \in [Fd -> What] /\ mixed' \in BOOLEAN
  BY Kinds DEF Closes, Table, Typed
<1>2. desc'[d] = Free /\ \A g \in Fd \ {d} : desc'[g] = desc[g]
  BY DEF Closes, Table, Typed
<1>3. ~mixed' => ~mixed /\ desc[d] = ReadEnd(n)
  BY DEF Closes
<1>4. QED
  BY <1>1, <1>2, <1>3, Kinds DEF SameSockets

(* A child whose input was a user pipe ends, and the pipe's read end is    *)
(* closed for it.                                                          *)
LEMMA JobTable ==
  ASSUME Table, JobEnds
  PROVE  Table'
<1>1. PICK n \in jobs :
        /\ jobs' = jobs \ {n} /\ Closes(n.fd, n.id)
        /\ UNCHANGED <<afds, user_data, pipes>>
  BY DEF JobEnds, Closes
<1>2. n.fd \in Fd /\ n.id \in Nat
  BY <1>1 DEF Table, Typed
<1>3. /\ desc' \in [Fd -> What] /\ mixed' \in BOOLEAN
      /\ desc'[n.fd] = Free /\ \A g \in Fd \ {n.fd} : desc'[g] = desc[g]
      /\ ~mixed' => ~mixed /\ desc[n.fd] = ReadEnd(n.id) /\ SameSockets
  BY <1>1, <1>2, CloseSockets
<1>4. Found' /\ Seated' /\ Valid' = Valid
  BY <1>1, <1>3, SeatsKept DEF SameSeats
<1>5. Typed' /\ NamesUnique' /\ Piped' /\ Numbered'
  BY <1>1, <1>3, <1>4 DEF Table, Typed, NamesUnique, Piped, Numbered
<1>6. Wired'
  <2>1. SUFFICES ASSUME ~mixed', NEW i \in Slot, NEW j \in Slot, user_data[i].box[j].valid
                 PROVE  desc'[user_data[i].box[j].fd[1]] = ReadEnd(user_data[i].box[j].id)
    BY <1>1 DEF Wired, ReadEnd
  <2>2. /\ desc[user_data[i].box[j].fd[1]] = ReadEnd(user_data[i].box[j].id)
        /\ user_data[i].box[j].fd[1] \in Fd
        /\ n.id # user_data[i].box[j].id
    BY <1>1, <1>3, <2>1 DEF Table, Wired, Typed, Numbered
  <2>3. ReadEnd(user_data[i].box[j].id) # ReadEnd(n.id)
    BY <2>2, Kinds
  <2>4. user_data[i].box[j].fd[1] # n.fd
    BY <1>3, <2>1, <2>2, <2>3
  <2>5. QED
    BY <1>3, <2>2, <2>4
<1>7. NoneLost'
  <2>1. SUFFICES ASSUME ~mixed', NEW g \in Fd, desc'[g].is = "read"
                 PROVE  \/ [fd |-> g, id |-> desc'[g].of] \in jobs'
                        \/ \E i, j \in Slot : /\ user_data[i].box[j].valid
                                              /\ user_data[i].box[j].fd[1] = g
                                              /\ user_data[i].box[j].id = desc'[g].of
    BY <1>1 DEF NoneLost
  <2>2. g # n.fd /\ desc'[g] = desc[g]
    BY <1>3, <2>1, Kinds
  <2>3. [fd |-> g, id |-> desc'[g].of] # n
    BY <2>2
  <2>4. QED
    BY <1>1, <1>3, <2>1, <2>2, <2>3 DEF Table, NoneLost
<1>8. QED
  BY <1>4, <1>5, <1>6, <1>7 DEF Table

(* A user pipe is taken.  Its read end is closed at once or given to a     *)
(* child.                                                                  *)
LEMMA PipeFromTable ==
  ASSUME Table, NEW f \in afds, RunPipeFrom(f)
  PROVE  Table'
<1> DEFINE id == find_user_id(f)
<1>1. id \in Slot /\ id \in Valid
  BY UserBehind DEF Table, Valid
<1>2. PICK from \in Slot :
        \/ Refuse
        \/ /\ PipeAlive(from, id)
           /\ user_data' = [user_data EXCEPT ![from].box[id].valid = FALSE]
           /\ \/ /\ Closes(user_data[from].box[id].fd[1], user_data[from].box[id].id)
                 /\ UNCHANGED jobs
              \/ /\ jobs' = jobs \union {[fd |-> user_data[from].box[id].fd[1],
                                          id |-> user_data[from].box[id].id]}
                 /\ UNCHANGED <<desc, mixed>>
           /\ UNCHANGED <<afds, pipes>>
  BY DEF RunPipeFrom, Closes
<1> HIDE DEF id
<1>3. CASE Refuse
  BY <1>3, RefuseTable
<1>4. CASE /\ PipeAlive(from, id)
           /\ user_data' = [user_data EXCEPT ![from].box[id].valid = FALSE]
           /\ \/ /\ Closes(user_data[from].box[id].fd[1], user_data[from].box[id].id)
                 /\ UNCHANGED jobs
              \/ /\ jobs' = jobs \union {[fd |-> user_data[from].box[id].fd[1],
                                          id |-> user_data[from].box[id].id]}
                 /\ UNCHANGED <<desc, mixed>>
           /\ UNCHANGED <<afds, pipes>>
  <2>1. PICK d \in Fd, n \in Nat :
          /\ user_data[from].box[id].valid
          /\ d = user_data[from].box[id].fd[1] /\ n = user_data[from].box[id].id
    BY <1>1, <1>4 DEF PipeAlive, Table, Typed, Pipe
  <2>2. \/ Closes(d, n) /\ jobs' = jobs
        \/ jobs' = jobs \union {[fd |-> d, id |-> n]} /\ desc' = desc /\ mixed' = mixed
    BY <1>4, <2>1
  <2>3. afds' = afds /\ pipes' = pipes
    BY <1>4
  <2>4. \A i \in Slot : /\ user_data'[i].valid = user_data[i].valid
                        /\ user_data'[i].fd = user_data[i].fd
                        /\ user_data'[i].addr = user_data[i].addr
                        /\ user_data'[i].name = user_data[i].name
    BY <1>1, <1>4 DEF Table, Typed
  <2>5. \A i, j \in Slot :
          /\ i # from \/ j # id => user_data'[i].box[j] = user_data[i].box[j]
          /\ i = from /\ j = id => ~user_data'[i].box[j].valid
    BY <1>1, <1>4 DEF Table, Typed, Pipe
  <2>6. \A i, j \in Slot : user_data'[i].box[j].valid =>
          /\ i # from \/ j # id
          /\ user_data[i].box[j].valid /\ user_data'[i].box[j] = user_data[i].box[j]
          /\ user_data[i].box[j].id # n
    BY <1>1, <2>1, <2>5 DEF Table, Numbered
  <2>7. /\ desc' \in [Fd -> What] /\ mixed' \in BOOLEAN
        /\ jobs' \subseteq [fd : Fd, id : Nat]
        /\ \A m \in jobs' : m.id = n \/ m \in jobs
        /\ \A g \in Fd \ {d} : desc'[g] = desc[g]
        /\ ~mixed' => ~mixed /\ SameSockets
    <3>1. CASE Closes(d, n) /\ jobs' = jobs
      BY <3>1, CloseSockets DEF Table, Typed
    <3>2. CASE jobs' = jobs \union {[fd |-> d, id |-> n]} /\ desc' = desc /\ mixed' = mixed
      BY <3>2 DEF Table, Typed, SameSockets
    <3>3. QED
      BY <2>2, <3>1, <3>2
  <2>8. Found' /\ Seated' /\ Valid' = Valid
    BY <2>3, <2>4, <2>7, SeatsKept DEF SameSeats
  <2>9. Typed'
    <3>1. user_data' \in [Slot -> [valid : BOOLEAN, fd : 0..MaxFd, name : Name \union {NoName},
                                   addr : Conn \union {NoName}, box : [Slot -> Pipe]]]
      <4>1. user_data[from].box \in [Slot -> Pipe]
        BY DEF Table, Typed
      <4>2. [user_data[from].box[id] EXCEPT !.valid = FALSE] \in Pipe
        BY <1>1, <4>1 DEF Pipe
      <4>3. [user_data[from].box EXCEPT ![id].valid = FALSE] \in [Slot -> Pipe]
        BY <1>1, <4>1, <4>2
      <4>4. QED
        BY <1>1, <1>4, <4>3 DEF Table, Typed
    <3>2. \A i, j \in Slot : user_data'[i].box[j].valid =>
            user_data'[i].box[j].fd[1] \in Fd /\ user_data'[i].box[j].fd[2] \in Fd
      BY <2>6 DEF Table, Typed
    <3>3. QED
      BY <2>3, <2>7, <3>1, <3>2 DEF Table, Typed
  <2>10. NamesUnique'
    BY <2>4, <2>8 DEF Table, NamesUnique, Valid
  <2>11. Piped'
    BY <2>6, <2>8 DEF Table, Piped
  <2>12. Wired'
    <3>1. SUFFICES ASSUME ~mixed', NEW i \in Slot, NEW j \in Slot, user_data'[i].box[j].valid
                   PROVE  desc'[user_data'[i].box[j].fd[1]] = ReadEnd(user_data'[i].box[j].id)
      BY DEF Wired, ReadEnd
    <3>2. /\ user_data'[i].box[j] = user_data[i].box[j]
          /\ desc[user_data[i].box[j].fd[1]] = ReadEnd(user_data[i].box[j].id)
          /\ user_data[i].box[j].fd[1] \in Fd /\ user_data[i].box[j].id # n
          /\ desc[d] = ReadEnd(n)
      BY <1>1, <2>1, <2>6, <2>7, <3>1 DEF Table, Wired, Typed
    <3>3. user_data[i].box[j].fd[1] # d
      BY <3>2, Kinds
    <3>4. QED
      BY <2>7, <3>2, <3>3
  <2>13. Numbered'
    <3>1. n <= pipes
      BY <1>1, <2>1 DEF Table, Numbered
    <3>2. ASSUME NEW i \in Slot, NEW j \in Slot, user_data'[i].box[j].valid
          PROVE  /\ user_data'[i].box[j].id <= pipes'
                 /\ \A m \in jobs' : m.id # user_data'[i].box[j].id
                 /\ \A k, l \in Slot :
                      /\ user_data'[k].box[l].valid
                      /\ user_data'[k].box[l].id = user_data'[i].box[j].id
                      => k = i /\ l = j
      <4>1. /\ user_data[i].box[j].valid /\ user_data'[i].box[j] = user_data[i].box[j]
            /\ user_data[i].box[j].id # n
        BY <2>6, <3>2
      <4>2. user_data'[i].box[j].id <= pipes'
        BY <2>3, <4>1 DEF Table, Numbered
      <4>3. \A m \in jobs' : m.id # user_data'[i].box[j].id
        BY <2>7, <4>1 DEF Table, Numbered
      <4>4. \A k, l \in Slot :
              /\ user_data'[k].box[l].valid
              /\ user_data'[k].box[l].id = user_data'[i].box[j].id
              => k = i /\ l = j
        BY <2>6, <4>1 DEF Table, Numbered
      <4>5. QED
        BY <4>2, <4>3, <4>4
    <3>3. \A m \in jobs' : m.id <= pipes'
      BY <2>3, <2>7, <3>1 DEF Table, Numbered
    <3>4. QED
      BY <3>2, <3>3 DEF Numbered
  <2>14. NoneLost'
    <3>1. SUFFICES ASSUME ~mixed', NEW g \in Fd, desc'[g].is = "read"
                   PROVE  \/ [fd |-> g, id |-> desc'[g].of] \in jobs'
                          \/ \E i, j \in Slot : /\ user_data'[i].box[j].valid
                                                /\ user_data'[i].box[j].fd[1] = g
                                                /\ user_data'[i].box[j].id = desc'[g].of
      BY DEF NoneLost
    <3>2. CASE g = d
      <4>1. jobs' = jobs \union {[fd |-> d, id |-> n]} /\ desc' = desc /\ ~mixed
        BY <2>2, <3>1, <3>2, CloseSockets, Kinds
      <4>2. desc[d] = ReadEnd(n)
        BY <1>1, <2>1, <4>1 DEF Table, Wired
      <4>3. desc[d].of = n
        BY <4>2 DEF ReadEnd
      <4>4. QED
        BY <3>2, <4>1, <4>3
    <3>3. CASE g # d
      <4>1. desc'[g] = desc[g] /\ ~mixed /\ jobs \subseteq jobs'
        BY <2>2, <2>7, <3>1, <3>3
      <4>2. CASE [fd |-> g, id |-> desc[g].of] \in jobs
        BY <4>1, <4>2
      <4>3. CASE \E i, j \in Slot : /\ user_data[i].box[j].valid
                                    /\ user_data[i].box[j].fd[1] = g
                                    /\ user_data[i].box[j].id = desc[g].of
        BY <2>1, <2>5, <3>3, <4>1, <4>3
      <4>4. QED
        BY <3>1, <4>1, <4>2, <4>3 DEF Table, NoneLost
    <3>4. QED
      BY <3>2, <3>3
  <2>15. QED
    BY <2>8, <2>9, <2>10, <2>11, <2>12, <2>13, <2>14 DEF Table
<1>5. QED
  BY <1>2, <1>3, <1>4

(* exit.  All the pipes from and to the slot end, and of their descriptors *)
(* only read ends are open.                                                *)
LEMMA ExitTable ==
  ASSUME Table, NEW f \in afds, RunExit(f)
  PROVE  Table'
<1> DEFINE id == find_user_id(f)
           reads == FromMe(id) \union {user_data[i].box[id] : i \in ToMe(id)}
           stale == {p.fd[2] : p \in FromMe(id)}
           closed(g) == g = f \/ g \in stale \/ \E p \in reads : p.fd[1] = g
<1>1. id \in Slot /\ id \in Valid /\ First(id, f) /\ f \in Fd
  BY UserBehind DEF Table, Valid, Typed
<1>2. /\ \A g \in Fd : desc'[g] = IF closed(g) THEN Free ELSE desc[g]
      /\ desc' \in [Fd -> What]
  <2>1. desc' = [g \in Fd |-> IF closed(g) THEN Free ELSE desc[g]]
    BY DEF RunExit
  <2>2. QED
    BY <2>1, Kinds DEF Table, Typed
<1>3. /\ mixed' \in BOOLEAN
      /\ ~mixed' => /\ ~mixed
                    /\ \E k \in Conn : desc[f] = Socket(k)
                    /\ \A p \in reads : desc[p.fd[1]] = ReadEnd(p.id)
                    /\ \A g \in stale : desc[g] = Free
  BY DEF RunExit, Table, Typed
<1>4. afds' = afds \ {f} /\ UNCHANGED <<jobs, pipes>>
  BY DEF RunExit
<1>5. user_data' =
        [i \in Slot |-> [user_data[i] EXCEPT
           !.valid = remaining(id, i),
           !.box = [j \in Slot |->
              IF i = id \/ (i \in ToMe(id) /\ j = id)
              THEN [user_data[i].box[j] EXCEPT !.valid = FALSE] ELSE user_data[i].box[j]]]]
  BY DEF RunExit, Table, Typed
<1>6. /\ \A i, j \in Slot : user_data[i].box[j].valid /\ (i = id \/ j = id) =>
           user_data[i].box[j] \in reads
      /\ \A p \in reads : \E i, j \in Slot :
           p = user_data[i].box[j] /\ user_data[i].box[j].valid /\ (i = id \/ j = id)
  BY <1>1 DEF Table, Piped, FromMe, ToMe, Valid
<1> HIDE DEF id, reads, stale
<1>7. \A i \in Slot : /\ user_data'[i].valid = (user_data[i].valid /\ i # id)
                      /\ user_data'[i].fd = user_data[i].fd
                      /\ user_data'[i].addr = user_data[i].addr
                      /\ user_data'[i].name = user_data[i].name
  BY <1>5 DEF Table, Typed, remaining
<1>8. \A i, j \in Slot :
        user_data'[i].box[j] =
          IF i = id \/ (i \in ToMe(id) /\ j = id)
          THEN [user_data[i].box[j] EXCEPT !.valid = FALSE] ELSE user_data[i].box[j]
  BY <1>5 DEF Table, Typed
<1>9. \A i, j \in Slot :
        user_data'[i].box[j].valid =>
          /\ i # id /\ j # id /\ user_data[i].box[j].valid
          /\ user_data'[i].box[j] = user_data[i].box[j]
  <2>1. \A i, j \in Slot : user_data[i].box[j] \in Pipe
    BY DEF Table, Typed
  <2>2. \A i, j \in Slot : [user_data[i].box[j] EXCEPT !.valid = FALSE].valid = FALSE
    BY <2>1 DEF Pipe
  <2>3. \A i \in Slot : user_data[i].box[id].valid /\ i # id => i \in ToMe(id)
    BY <1>1 DEF ToMe, Table, Piped
  <2>4. SUFFICES ASSUME NEW i \in Slot, NEW j \in Slot, user_data'[i].box[j].valid
                 PROVE  /\ i # id /\ j # id /\ user_data[i].box[j].valid
                        /\ user_data'[i].box[j] = user_data[i].box[j]
    OBVIOUS
  <2>5. ~(i = id \/ (i \in ToMe(id) /\ j = id))
    <3>1. SUFFICES ASSUME i = id \/ (i \in ToMe(id) /\ j = id) PROVE FALSE
      OBVIOUS
    <3>2. user_data'[i].box[j] = [user_data[i].box[j] EXCEPT !.valid = FALSE]
      BY <1>8, <3>1
    <3>3. [user_data[i].box[j] EXCEPT !.valid = FALSE].valid = FALSE
      BY <2>2
    <3>4. QED
      BY <2>4, <3>2, <3>3
  <2>6. user_data'[i].box[j] = user_data[i].box[j]
    BY <1>8, <2>5
  <2>7. QED
    BY <2>3, <2>4, <2>5, <2>6
<1>10. \A i, j \in Slot :
         user_data[i].box[j].valid /\ i # id /\ j # id =>
           user_data'[i].box[j] = user_data[i].box[j]
  BY <1>8
<1>11. Valid' = Valid \ {id}
  BY <1>7 DEF Valid
<1>12. Typed'
  <2>1. \A i, j \in Slot : user_data'[i].box[j] \in Pipe
    <3>1. \A i, j \in Slot : user_data[i].box[j] \in Pipe
      BY DEF Table, Typed
    <3>2. \A i, j \in Slot : [user_data[i].box[j] EXCEPT !.valid = FALSE] \in Pipe
      BY <3>1 DEF Pipe
    <3>3. SUFFICES ASSUME NEW i \in Slot, NEW j \in Slot
                   PROVE  user_data'[i].box[j] \in Pipe
      OBVIOUS
    <3>4. \/ user_data'[i].box[j] = user_data[i].box[j]
          \/ user_data'[i].box[j] = [user_data[i].box[j] EXCEPT !.valid = FALSE]
      BY <1>8
    <3>5. QED
      BY <3>1, <3>2, <3>4
  <2>2. user_data' \in [Slot -> [valid : BOOLEAN, fd : 0..MaxFd, name : Name \union {NoName},
                                 addr : Conn \union {NoName}, box : [Slot -> Pipe]]]
    <3>1. \A i \in Slot : [j \in Slot |->
              IF i = id \/ (i \in ToMe(id) /\ j = id)
              THEN [user_data[i].box[j] EXCEPT !.valid = FALSE] ELSE user_data[i].box[j]]
            \in [Slot -> Pipe]
      BY <1>8, <2>1
    <3>2. \A i \in Slot : remaining(id, i) \in BOOLEAN
      BY DEF remaining
    <3>3. QED
      BY <1>5, <3>1, <3>2 DEF Table, Typed
  <2>3. \A i, j \in Slot : user_data'[i].box[j].valid =>
          user_data'[i].box[j].fd[1] \in Fd /\ user_data'[i].box[j].fd[2] \in Fd
    BY <1>9 DEF Table, Typed
  <2>4. QED
    BY <1>2, <1>3, <1>4, <2>2, <2>3 DEF Table, Typed
<1>13. Found'
  <2>1. SUFFICES ASSUME NEW g \in afds \ {f} PROVE \E i \in Valid' : First(i, g)'
    BY <1>4 DEF Found
  <2>2. PICK i \in Valid : First(i, g)
    BY <2>1 DEF Table, Found
  <2>3. i # id
    BY <1>1, <2>1, <2>2 DEF First
  <2>4. QED
    BY <1>7, <1>11, <2>2, <2>3 DEF First, Valid
<1>14. Seated'
  <2>1. SUFFICES ASSUME ~mixed', NEW i \in Valid \ {id}
                 PROVE  /\ user_data'[i].fd \in afds'
                        /\ desc'[user_data'[i].fd] = Socket(user_data'[i].addr)
                        /\ \A j \in Valid' : user_data'[j].fd = user_data'[i].fd => j = i
    BY <1>11 DEF Seated, Socket
  <2>2. /\ user_data[i].fd \in afds /\ user_data[i].fd \in Fd
        /\ desc[user_data[i].fd] = Socket(user_data[i].addr)
        /\ \A j \in Valid : user_data[j].fd = user_data[i].fd => j = i
    BY <1>3, <2>1 DEF Table, Seated, Typed
  <2>3. user_data[i].fd # f
    BY <1>1, <2>1, <2>2 DEF First
  <2>4. ~closed(user_data[i].fd)
    BY <1>3, <2>1, <2>2, <2>3, Kinds
  <2>5. user_data'[i].fd = user_data[i].fd /\ user_data'[i].addr = user_data[i].addr
    BY <1>7, <2>1 DEF Valid
  <2>6. QED
    BY <1>2, <1>4, <1>7, <1>11, <2>2, <2>3, <2>4, <2>5 DEF Valid
<1>15. NamesUnique' /\ Piped'
  BY <1>7, <1>9, <1>11 DEF Table, NamesUnique, Piped, Valid
<1>16. Wired'
  <2>1. SUFFICES ASSUME ~mixed', NEW i \in Slot, NEW j \in Slot, user_data'[i].box[j].valid
                 PROVE  desc'[user_data'[i].box[j].fd[1]] = ReadEnd(user_data'[i].box[j].id)
    BY DEF Wired, ReadEnd
  <2>2. PICK d \in Fd, n \in Nat :
          /\ user_data[i].box[j].valid /\ i # id /\ j # id
          /\ d = user_data[i].box[j].fd[1] /\ n = user_data[i].box[j].id
          /\ d = user_data'[i].box[j].fd[1] /\ n = user_data'[i].box[j].id
          /\ desc[d] = ReadEnd(n)
    BY <1>3, <1>9, <2>1 DEF Table, Wired, Typed, Pipe
  <2>3. d # f /\ d \notin stale
    BY <1>3, <2>1, <2>2, Kinds
  <2>4. ASSUME NEW p \in reads, p.fd[1] = d PROVE FALSE
    <3>1. PICK k \in Slot, l \in Slot : /\ p = user_data[k].box[l]
                                        /\ user_data[k].box[l].valid /\ (k = id \/ l = id)
      BY <1>6, <2>4
    <3>2. ReadEnd(p.id) = ReadEnd(n)
      BY <1>3, <2>1, <2>2, <2>4
    <3>3. p.id = n
      BY <3>2, Kinds
    <3>4. QED
      BY <2>2, <3>1, <3>3 DEF Table, Numbered
  <2>5. QED
    BY <1>2, <2>2, <2>3, <2>4
<1>17. Numbered'
  BY <1>4, <1>9 DEF Table, Numbered
<1>18. NoneLost'
  <2>1. SUFFICES ASSUME ~mixed', NEW g \in Fd, desc'[g].is = "read"
                 PROVE  \/ [fd |-> g, id |-> desc'[g].of] \in jobs
                        \/ \E i, j \in Slot : /\ user_data'[i].box[j].valid
                                              /\ user_data'[i].box[j].fd[1] = g
                                              /\ user_data'[i].box[j].id = desc'[g].of
    BY <1>4 DEF NoneLost
  <2>2. desc'[g] = desc[g] /\ ~closed(g) /\ ~mixed
    BY <1>2, <1>3, <2>1, Kinds
  <2>3. CASE [fd |-> g, id |-> desc[g].of] \in jobs
    BY <2>2, <2>3
  <2>4. CASE \E i, j \in Slot : /\ user_data[i].box[j].valid
                                /\ user_data[i].box[j].fd[1] = g
                                /\ user_data[i].box[j].id = desc[g].of
    BY <1>6, <1>10, <2>2, <2>4
  <2>5. QED
    BY <2>1, <2>2, <2>3, <2>4 DEF Table, NoneLost
<1>19. QED
  BY <1>12, <1>13, <1>14, <1>15, <1>16, <1>17, <1>18 DEF Table

-----------------------------------------------------------------------------
(* All of it.                                                              *)

LEMMA TableSame == ASSUME Table, UNCHANGED <<table, mixed>> PROVE Table'
BY DEF table, Table, Typed, Found, First, Seated, NamesUnique, Piped, Wired, Numbered,
  NoneLost, Valid, Socket, ReadEnd

LEMMA TableNext == ASSUME Table, Loop, [Next]_vars PROVE Table'
<1>1. CASE ServeLine
  <2>1. PICK f \in rfds :
          RunOther(f) \/ RunName(f) \/ RunPipeTo(f) \/ RunPipeFrom(f) \/ RunExit(f)
    BY <1>1 DEF ServeLine
  <2>2. f \in afds
    BY DEF Loop
  <2>3. CASE RunOther(f)
    BY <2>3, TableSame DEF RunOther
  <2>4. QED
    BY <2>1, <2>2, <2>3, NameTable, PipeToTable, PipeFromTable, ExitTable
<1>2. CASE JobEnds \/ Accept
  BY <1>2, JobTable, AcceptTable
<1>3. CASE Select \/ ServeNothing \/ ClientNext \/ UNCHANGED vars
  <2>1. UNCHANGED <<table, mixed>>
    BY <1>3 DEF Select, ServeNothing, ClientNext, Knock, Type, HangUp, vars, history
  <2>2. QED
    BY <2>1, TableSame
<1>4. QED
  BY <1>1, <1>2, <1>3 DEF Next, ServerNext

LEMMA LoopNext == ASSUME Table, Loop, [Next]_vars PROVE Loop'
<1>1. CASE Select
  BY <1>1 DEF Select, Loop, table, net, history
<1>2. CASE Accept
  BY <1>2 DEF Accept, FD_SET, Loop, Knocking, history
<1>3. CASE ServeNothing
  BY <1>3 DEF ServeNothing, Loop, table, net, history
<1>4. CASE ServeLine
  <2>1. PICK f \in rfds, k \in Conn :
          /\ GetLine(f, k)
          /\ RunOther(f) \/ RunName(f) \/ RunPipeTo(f) \/ RunPipeFrom(f) \/ RunExit(f)
    BY <1>4 DEF ServeLine
  <2>2. /\ afds \ {f} \subseteq afds'
        /\ client' \in [Conn -> {"none", "knocks", "on", "off", "gone"}]
    <3>1. CASE RunExit(f)
      BY <3>1 DEF RunExit, Loop
    <3>2. CASE RunOther(f) \/ RunName(f) \/ RunPipeTo(f) \/ RunPipeFrom(f)
      BY <3>2 DEF RunOther, RunName, RunPipeTo, RunPipeFrom, Refuse, table, Loop
    <3>3. QED
      BY <2>1, <3>1, <3>2
  <2>3. stdin' \in Seq(Conn) /\ unread' \in [Conn -> Nat]
    <3>1. CASE stdin # <<>> /\ stdin' = Tail(stdin) /\ UNCHANGED unread
      BY <3>1 DEF Loop
    <3>2. CASE /\ unread[k] > 0
               /\ stdin' = [n \in 1..unread[k] - 1 |-> k]
               /\ unread' = [unread EXCEPT ![k] = 0]
      <4>1. PICK m \in Nat : m = unread[k] - 1
        BY <3>2 DEF Loop
      <4>2. [n \in 1..m |-> k] \in Seq(Conn)
        OBVIOUS
      <4>3. QED
        BY <3>2, <4>1, <4>2 DEF Loop
    <3>3. QED
      BY <2>1, <3>1, <3>2 DEF GetLine
  <2>4. QED
    BY <2>1, <2>2, <2>3 DEF GetLine, Loop
<1>5. CASE JobEnds
  BY <1>5 DEF JobEnds, Loop, net
<1>6. CASE ClientNext
  <2>1. PICK k \in Conn : Knock(k) \/ Type(k) \/ HangUp(k)
    BY <1>6 DEF ClientNext
  <2>2. UNCHANGED <<table, rfds, accepting, cin, stdin, history>>
    BY <2>1 DEF Knock, Type, HangUp
  <2>3. /\ client' \in [Conn -> {"none", "knocks", "on", "off", "gone"}]
        /\ typed' \in [Conn -> Nat] /\ unread' \in [Conn -> Nat]
    <3>1. CASE Knock(k)
      BY <3>1 DEF Knock, Loop
    <3>2. CASE Type(k)
      <4>1. unread[k] + 1 \in Nat /\ typed[k] + 1 \in Nat
        BY DEF Loop
      <4>2. QED
        BY <3>2, <4>1 DEF Type, Loop
    <3>3. CASE HangUp(k)
      BY <3>3 DEF HangUp, Loop
    <3>4. QED
      BY <2>1, <3>1, <3>2, <3>3
  <2>4. QED
    BY <2>2, <2>3 DEF Loop, table, history
<1>7. CASE UNCHANGED vars
  BY <1>7 DEF vars, table, net, history, Loop
<1>8. QED
  BY <1>1, <1>2, <1>3, <1>4, <1>5, <1>6, <1>7 DEF Next, ServerNext

LEMMA PatientNext == ASSUME Loop, Patient, [Next]_vars PROVE Patient'
<1> SUFFICES ASSUME Ahead = 1, stdin = <<>>, \A k \in Conn : unread[k] <= 1
             PROVE  Patient'
  BY DEF Patient
<1>1. CASE ServeLine
  <2>1. PICK f \in rfds, k \in Conn : GetLine(f, k)
    BY <1>1 DEF ServeLine
  <2>2. /\ unread[k] = 1 /\ stdin' = [n \in 1..unread[k] - 1 |-> k]
        /\ unread' = [unread EXCEPT ![k] = 0]
    BY <2>1 DEF GetLine, Loop
  <2>3. stdin' = <<>>
    BY <2>2
  <2>4. QED
    BY <2>2, <2>3 DEF Loop, Patient
<1>2. CASE ClientNext
  <2>1. CASE \E k \in Conn : Type(k)
    <3>1. PICK k \in Conn : Pending(k) < 1 /\ unread' = [unread EXCEPT ![k] = @ + 1]
                            /\ stdin' = stdin
      BY <2>1 DEF Type
    <3>2. DOMAIN stdin = {} /\ {n \in DOMAIN stdin : stdin[n] = k} = {}
      OBVIOUS
    <3>3. Pending(k) = unread[k] + Cardinality({})
      BY <3>2 DEF Pending
    <3>4. Cardinality({}) = 0
      BY FS_EmptySet
    <3>5. unread[k] = 0
      BY <3>1, <3>3, <3>4 DEF Loop
    <3>6. QED
      BY <3>1, <3>5 DEF Patient, Loop
  <2>2. CASE \E k \in Conn : Knock(k) \/ HangUp(k)
    BY <2>2 DEF Knock, HangUp, Patient
  <2>3. QED
    BY <1>2, <2>1, <2>2 DEF ClientNext
<1>3. CASE Select \/ Accept \/ ServeNothing \/ JobEnds \/ UNCHANGED vars
  BY <1>3 DEF Select, Accept, ServeNothing, JobEnds, vars, net, Patient
<1>4. QED
  BY <1>1, <1>2, <1>3 DEF Next, ServerNext

LEMMA LinesNext == ASSUME IInv, [Next]_vars PROVE OwnLines'
<1>1. CASE ServeLine
  <2>1. PICK f \in rfds, k \in Conn :
          /\ GetLine(f, k)
          /\ RunOther(f) \/ RunName(f) \/ RunPipeTo(f) \/ RunPipeFrom(f) \/ RunExit(f)
    BY <1>1 DEF ServeLine
  <2>2. ~mixed' => ~mixed
    BY <2>1 DEF RunOther, RunName, RunPipeTo, RunPipeFrom, Refuse, RunExit
  <2>3. SUFFICES ASSUME Ahead = 1, ~mixed PROVE wrong' = wrong
    BY <2>2 DEF IInv, OwnLines
  <2>4. stdin = <<>> /\ Input(f) = Socket(k)
    BY <2>1, <2>3 DEF IInv, Patient, GetLine
  <2>5. find_user_id(f) \in Valid /\ user_data[find_user_id(f)].fd = f
    BY UserBehind DEF First, IInv, Table, Loop
  <2>6. Socket(user_data[find_user_id(f)].addr) = Socket(k)
    BY <2>3, <2>4, <2>5 DEF IInv, Table, Seated, Input
  <2>7. user_data[find_user_id(f)].addr = k
    BY <2>6, Kinds
  <2>8. QED
    BY <2>1, <2>7 DEF GetLine, IInv, Loop
<1>2. CASE Select \/ Accept \/ ServeNothing \/ ClientNext \/ JobEnds \/ UNCHANGED vars
  <2>1. CASE Select \/ Accept \/ ServeNothing \/ ClientNext \/ UNCHANGED vars
    <3>1. UNCHANGED history
      BY <2>1 DEF Select, Accept, ServeNothing, ClientNext, Knock, Type, HangUp, vars
    <3>2. QED
      BY <3>1 DEF history, IInv, OwnLines
  <2>2. CASE JobEnds
    <3>1. wrong' = wrong /\ (~mixed' => ~mixed)
      BY <2>2 DEF JobEnds
    <3>2. QED
      BY <3>1 DEF IInv, OwnLines
  <2>3. QED
    BY <1>2, <2>1, <2>2
<1>3. QED
  BY <1>1, <1>2 DEF Next, ServerNext

LEMMA IInvInit == Init => IInv
<1> SUFFICES ASSUME Init PROVE IInv
  OBVIOUS
<1>1. /\ desc = [f \in Fd |-> Free]
      /\ afds = {} /\ rfds = {} /\ accepting = FALSE
      /\ user_data = [i \in Slot |-> Blank]
      /\ cin = "good" /\ stdin = <<>>
      /\ client = [k \in Conn |-> "none"]
      /\ typed = [k \in Conn |-> 0] /\ unread = [k \in Conn |-> 0]
      /\ jobs = {} /\ pipes = 0
      /\ mixed = FALSE /\ wrong = FALSE
  BY DEF Init
<1>2. NoPipe \in Pipe
  BY SingleServerAssumption DEF NoPipe, Pipe
<1>3. /\ Blank \in [valid : BOOLEAN, fd : 0..MaxFd, name : Name \union {NoName},
                    addr : Conn \union {NoName}, box : [Slot -> Pipe]]
      /\ ~Blank.valid /\ \A j \in Slot : Blank.box[j].valid = FALSE
  BY <1>2, SingleServerAssumption DEF Blank, NoPipe
<1>4. \A i \in Slot : /\ ~user_data[i].valid
                      /\ \A j \in Slot : user_data[i].box[j].valid = FALSE
  BY <1>1, <1>3
<1>5. Valid = {}
  BY <1>4 DEF Valid
<1>6. Typed
  BY <1>1, <1>3, <1>4, Kinds DEF Typed
<1>7. Found /\ Seated /\ NamesUnique /\ Piped /\ Wired /\ Numbered
  BY <1>1, <1>4, <1>5 DEF Found, Seated, NamesUnique, Piped, Wired, Numbered
<1>8. NoneLost
  BY <1>1, Kinds DEF NoneLost
<1>9. Loop
  <2>1. stdin \in Seq(Conn)
    BY <1>1
  <2>2. rfds \subseteq afds
    BY <1>1
  <2>3. /\ client \in [Conn -> {"none", "knocks", "on", "off", "gone"}]
        /\ typed \in [Conn -> Nat] /\ unread \in [Conn -> Nat]
    BY <1>1
  <2>4. QED
    BY <1>1, <2>1, <2>2, <2>3 DEF Loop
<1>10. Patient /\ OwnLines
  <2>1. \A k \in Conn : unread[k] = 0
    BY <1>1
  <2>2. QED
    BY <1>1, <2>1 DEF Patient, OwnLines
<1>11. QED
  BY <1>6, <1>7, <1>8, <1>9, <1>10 DEF IInv, Table

LEMMA IInvNext == IInv /\ [Next]_vars => IInv'
BY TableNext, LoopNext, PatientNext, LinesNext DEF IInv

LEMMA Invariance == Spec => []IInv
BY IInvInit, IInvNext, PTL DEF Spec

-----------------------------------------------------------------------------
(* The theorems.                                                           *)

(* The table of users is right: every active descriptor belongs to the     *)
(* user find_user_id finds for it, old numbers in empty slots              *)
(* notwithstanding (np_single_proc.cpp:114-123, 138-144), names are        *)
(* unique, and a waiting pipe is between two users who are there.          *)
THEOREM TheTableIsSound == Spec => []TableSound
<1>1. IInv => TypeOK
  BY DEF IInv, Table, Typed, Loop, TypeOK
<1>2. IInv => UserFound
  <2>1. SUFFICES ASSUME IInv, ~mixed, NEW f \in afds
                 PROVE  /\ \E i \in Slot : user_data[i].fd = f
                        /\ find_user_id(f) \in Valid
                        /\ desc[f] = Socket(user_data[find_user_id(f)].addr)
    BY DEF UserFound
  <2>2. PICK i \in Valid : i = find_user_id(f) /\ user_data[i].fd = f
    BY <2>1, UserBehind DEF First, IInv, Table
  <2>3. desc[f] = Socket(user_data[i].addr)
    BY <2>1, <2>2 DEF IInv, Table, Seated
  <2>4. QED
    BY <2>2, <2>3 DEF Valid
<1>3. IInv => NamesUnique /\ PipeEndsAlive
  BY DEF IInv, Table, Piped, Wired, PipeEndsAlive
<1>4. QED
  BY <1>1, <1>2, <1>3, Invariance, PTL DEF TableSound

(* A client that waits for its prompt before it types the next line has    *)
(* its lines run under its own slot, unless a close() hit the wrong        *)
(* descriptor.                                                             *)
THEOREM LinesAreOnesOwn == Spec => []OwnLines
BY Invariance, PTL DEF IInv

(* Until then the server loses no read end of a user pipe: it is in the    *)
(* table or with a child that has not ended.                               *)
THEOREM NoReadEndIsLost == Spec => []NoneLost
BY Invariance, PTL DEF IInv, Table
=============================================================================

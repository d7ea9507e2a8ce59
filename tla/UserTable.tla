----------------------------- MODULE UserTable -----------------------------
(***************************************************************************)
(* The user table of np_multi_proc (system_broadcast.cpp): the data the    *)
(* system process keeps, and what system_display does with a request and   *)
(* answers.  Broadcast models how requests and answers travel; here every  *)
(* request is one step.                                                    *)
(*                                                                         *)
(* A user is known by the text "IP:port" of the connection.  The first     *)
(* request of a connection is "enter" and the last is "left", but a shell  *)
(* can also die without a word (Abort).  When the shells get in each       *)
(* other's way the system process reads a text that is no request, such as *)
(* its own last answer (Stray): see Broadcast.                             *)
(***************************************************************************)
EXTENDS Integers, FiniteSets, FiniteSetsExt

CONSTANTS
  Addr,        (* addresses of connections                                   *)
  Name,        (* names users give themselves                              *)
  NoName,      (* "(no name)"; a name is one word, so no user can pick it  *)
  Nobody,      (* the empty address of a slot that was never used          *)
  Strays,      (* first words of texts that are no requests: addresses, as *)
               (* in an answer for one user, or "all", which nobody has    *)
  MaxUserNum,  (* 30                                                       *)
  MaxPipes     (* bound: user pipes made in a run                          *)

ASSUME UserTableAssumption ==
  /\ IsFiniteSet(Addr) /\ Strays \subseteq Addr /\ Nobody \notin Addr
  /\ NoName \notin Name
  /\ MaxUserNum \in Nat \ {0}
  /\ MaxPipes \in Nat

VARIABLES
  user_data,        (* the slots 1..MaxUserNum                             *)
  user_pipe_count,
  online,           (* connections whose shell runs and has entered        *)
  made,             (* history: user pipes announced, <<number, from, to>>  *)
  taken             (* history: those received, <<number, from, to>>       *)

vars == <<user_data, user_pipe_count, online, made, taken>>

Slot == 1..MaxUserNum

NoPipe == [valid |-> FALSE, count |-> 0]
Blank == [valid |-> FALSE, name |-> Nobody, addr |-> Nobody, box |-> [j \in Slot |-> NoPipe]]

(* Mutant: the name is not set to "(no name)".                             *)
Not_build_user(a) ==
  [valid |-> TRUE, name |-> a, addr |-> a, box |-> [j \in Slot |-> NoPipe]]

build_user(a) == [valid |-> TRUE, name |-> NoName, addr |-> a, box |-> [j \in Slot |-> NoPipe]]

Valid == {i \in Slot : user_data[i].valid}

(* find_user: the first valid slot with this address, if there is one.     *)
Holders(a) == {i \in Valid : user_data[i].addr = a}

(* Mutant: every request gets a new slot.                                  *)
Not_Known(a) == FALSE

Known(a) == Holders(a) # {}

(* The slot system_display works on: the user's own, or the first free one *)
(* after insert_user.  Without a free slot the code goes on with slot -1,  *)
(* outside the table; the model does not follow it there.                  *)
HasRoom(a) == Known(a) \/ Valid # Slot

(* Mutant: insert_user does not look for a free slot.                      *)
Not_IdOf(a) == IF Known(a) THEN Min(Holders(a)) ELSE 1

IdOf(a) == IF Known(a) THEN Min(Holders(a)) ELSE Min(Slot \ Valid)

(* The table after find_user and, where needed, insert_user.               *)
Looked(a) ==
  IF Known(a) THEN user_data ELSE [user_data EXCEPT ![IdOf(a)] = build_user(a)]

(* Mutant: a name may be taken by two users.                               *)
Not_dup_name(a, n) == Looked(a)[IdOf(a)].name = n

dup_name(a, n) == \E i \in Slot : Looked(a)[i].valid /\ Looked(a)[i].name = n

-----------------------------------------------------------------------------
(* system_display, by command.                                             *)

Enter(a) ==
  /\ a \notin online
  /\ HasRoom(a)
  /\ user_data' = Looked(a)
  /\ online' = online \union {a}
  /\ UNCHANGED <<user_pipe_count, made, taken>>

(* Mutants: pipes to the user who left, or from it, stay.                  *)
Not_Cleared_to(id, i, j) == i = id
Not_Cleared_from(id, i, j) == j = id

(* The pipes that end when the user of slot id leaves.                     *)
Cleared(id, i, j) == i = id \/ j = id

Left(a) ==
  LET id == IdOf(a)
      Closed(i) == [j \in Slot |-> [Looked(a)[i].box[j] EXCEPT
                                      !.valid = @ /\ ~Cleared(id, i, j)]]
  IN  /\ a \in online
      /\ HasRoom(a)
      /\ user_data' = [i \in Slot |-> [Looked(a)[i] EXCEPT !.box = Closed(i),
                                                           !.valid = @ /\ i # id]]
      /\ online' = online \ {a}
      /\ UNCHANGED <<user_pipe_count, made, taken>>

SetName(a, n) ==
  /\ a \in online
  /\ HasRoom(a)
  /\ \/ /\ dup_name(a, n)
        /\ user_data' = Looked(a)
     \/ /\ ~dup_name(a, n)
        /\ user_data' = [Looked(a) EXCEPT ![IdOf(a)].name = n]
  /\ UNCHANGED <<user_pipe_count, online, made, taken>>

(* who, yell and tell only read the table.  (tell checks no bound: for a   *)
(* number above MaxUserNum the code reads past the table.)                 *)
Talk(a) ==
  /\ a \in online
  /\ HasRoom(a)
  /\ user_data' = Looked(a)
  /\ UNCHANGED <<user_pipe_count, online, made, taken>>

(* Mutant: a number given twice.                                           *)
Not_NewCount_same == user_pipe_count

(* ++user_pipe_count, an unsigned of 32 bits the bound keeps from wrapping.*)
NewCount == user_pipe_count + 1

(* The bound is checked for user pipes.                                    *)
Alive(a, r) == r \in Slot /\ Looked(a)[r].valid

(* >r: the user's next command writes into a new pipe to slot r.           *)
PipeTo(a, r) ==
  LET id == IdOf(a)
  IN  /\ a \in online
      /\ HasRoom(a)
      /\ \/ /\ ~Alive(a, r)
            /\ user_data' = Looked(a)
            /\ UNCHANGED <<user_pipe_count, made>>
         \/ /\ Alive(a, r) /\ Looked(a)[id].box[r].valid
            /\ user_data' = Looked(a)
            /\ UNCHANGED <<user_pipe_count, made>>
         \/ /\ Alive(a, r) /\ ~Looked(a)[id].box[r].valid
            /\ Cardinality(made) < MaxPipes
            /\ user_pipe_count' = NewCount
            /\ user_data' = [Looked(a) EXCEPT ![id].box[r] =
                               [valid |-> TRUE, count |-> NewCount]]
            /\ made' = made \union {<<NewCount, a, Looked(a)[r].addr>>}
      /\ UNCHANGED <<online, taken>>

(* <s: it reads from the pipe from slot s.                                 *)
PipeFrom(a, s) ==
  LET id == IdOf(a)
  IN  /\ a \in online
      /\ HasRoom(a)
      /\ \/ /\ ~Alive(a, s)
            /\ user_data' = Looked(a)
            /\ UNCHANGED taken
         \/ /\ Alive(a, s) /\ ~Looked(a)[s].box[id].valid
            /\ user_data' = Looked(a)
            /\ UNCHANGED taken
         \/ /\ Alive(a, s) /\ Looked(a)[s].box[id].valid
            /\ user_data' = [Looked(a) EXCEPT ![s].box[id].valid = FALSE]
            /\ taken' = taken \union
                          {<<Looked(a)[s].box[id].count, Looked(a)[s].addr, a>>}
      /\ UNCHANGED <<user_pipe_count, online, made>>

(* The shell of a dies and the table is not told.                          *)
Abort(a) ==
  /\ a \in online
  /\ online' = online \ {a}
  /\ UNCHANGED <<user_data, user_pipe_count, made, taken>>

(* A text that is no request: its first word is looked up all the same,    *)
(* and the answer is the empty string.                                     *)
Stray(a) ==
  /\ a \in Strays
  /\ HasRoom(a)
  /\ user_data' = Looked(a)
  /\ UNCHANGED <<user_pipe_count, online, made, taken>>

Init ==
  /\ user_data = [i \in Slot |-> Blank]
  /\ user_pipe_count = 1
  /\ online = {}
  /\ made = {} /\ taken = {}

Next ==
  \E a \in Addr :
    \/ Enter(a) \/ Left(a) \/ Talk(a) \/ Abort(a) \/ Stray(a)
    \/ \E n \in Name : SetName(a, n)
    \/ \E r \in 1..MaxUserNum + 1 : PipeTo(a, r) \/ PipeFrom(a, r)

Spec == Init /\ [][Next]_vars

-----------------------------------------------------------------------------
(* Properties.                                                             *)

Pipe == [valid : BOOLEAN, count : Nat]

TypeOK ==
  /\ user_data \in [Slot -> [valid : BOOLEAN, name : Name \union {NoName, Nobody},
                             addr : Addr \union {Nobody}, box : [Slot -> Pipe]]]
  /\ user_pipe_count \in Nat
  /\ online \subseteq Addr
  /\ made \subseteq Nat \X Addr \X Addr
  /\ taken \subseteq Nat \X Addr \X Addr

(* No user has two slots, through any sequence of entering, leaving, dying *)
(* and coming back (find_user before insert_user, system_broadcast.cpp:37- *)
(* 41).                                                                    *)
AddrUnique ==
  \A i, j \in Valid : user_data[i].addr = user_data[j].addr => i = j

(* No two users have the same name, except that new ones have none.        *)
NamesUnique ==
  \A i, j \in Valid :
    user_data[i].name = user_data[j].name => i = j \/ user_data[i].name = NoName

(* A slot is found by its address, and a user by the name he gave himself. *)
UsersUnique == AddrUnique /\ NamesUnique

Open(i, j) == user_data[i].box[j].valid

(* A waiting user pipe leads from a user who is there to a user who is     *)
(* there, and they are the ones it was made by and for: nobody inherits a  *)
(* pipe with the slot of a user who left (system_broadcast.cpp:50-53).     *)
PipeEndsAlive ==
  \A i, j \in Slot : Open(i, j) =>
    /\ {i, j} \subseteq Valid
    /\ <<user_data[i].box[j].count, user_data[i].addr, user_data[j].addr>> \in made

(* No two waiting pipes share a number, hence a FIFO file, and none has    *)
(* the number of a pipe that was received already and whose file may still *)
(* be read.                                                                *)
PipeFilesDistinct ==
  \A i, j \in Slot : Open(i, j) =>
    /\ \A k, l \in Slot : Open(k, l) /\ user_data[k].box[l].count = user_data[i].box[j].count
                            => k = i /\ l = j
    /\ \A t \in taken : t[1] # user_data[i].box[j].count

(* What a user receives was sent to that user by the user named.           *)
TakenAsMade == taken \subseteq made

(* A user who is connected keeps the slot, whatever the others do: numbers *)
(* seen in "who" stay right for tell and for user pipes.                   *)
SlotKept ==
  [][\A a \in online \intersect online' :
       \A i \in Slot : i \in Holders(a) => i \in Holders(a)']_vars

(* The table implements the directory.  Slots, numbers and answers are     *)
(* forgotten; a user who aborted stays present.                            *)
presentBar == {user_data[i].addr : i \in Valid}
nickBar == [a \in Addr |-> IF Known(a) THEN user_data[Min(Holders(a))].name ELSE NoName]
pipesBar == {<<user_data[p[1]].addr, user_data[p[2]].addr>> :
               p \in {q \in Slot \X Slot : Open(q[1], q[2])}}

D == INSTANCE Directory WITH present <- presentBar, nick <- nickBar, pipes <- pipesBar

ImplementsDirectory == D!Spec
=============================================================================

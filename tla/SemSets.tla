------------------------------ MODULE SemSets ------------------------------
(***************************************************************************)
(* The life of np_multi_proc's semaphore sets: sem_create, sem_open,       *)
(* sem_close and sem_rm of shm.cpp as the processes of the program call    *)
(* them, from the start of a server to the end of the last process that    *)
(* has its sets, whether it ends by Ctrl-C, by SIGKILL or by itself.       *)
(*                                                                         *)
(* What a set's three semaphores are is said in SysVSem.  Here a set also  *)
(* has an identity: id[k] is what semget(k) returns, 0 when there is no    *)
(* set of key k, and handle[p][k] is what p has in its variable.  Calls    *)
(* with a handle that is not id[k] fail.                                   *)
(*                                                                         *)
(* What shells and receivers tell each other through the sets is in        *)
(* Broadcast; here they open and close them, and hold the two that are     *)
(* locks, clisem and call_system.                                          *)
(***************************************************************************)
EXTENDS SysVSem

CONSTANTS
  Key,       (* the sets                                                   *)
  Server,    (* runs of the program                                        *)
  Client,    (* clients that may connect                                   *)
  Kills      (* the servers that may be killed                             *)

AllKeys == {"clisem", "servsem", "clienting", "serving", "call_system", "call_system_end"}

Program(s) == <<"server", s>>
Shell(c) == <<"shell", c>>
Recv(c) == <<"receiver", c>>
Proc == ({"server"} \X Server) \union ({"shell", "receiver"} \X Client)

ASSUME SemSetsAssumption == /\ Key \subseteq AllKeys
                            /\ {"clisem", "clienting", "call_system"} \subseteq Key
                            /\ Kills \subseteq Server
                            /\ IsFiniteSet(Proc)
                            /\ BIGCOUNT > Cardinality(Proc)

VARIABLES
  id,        (* the set of each key, 0 if there is none                    *)
  next,      (* the id the kernel gives out next                           *)
  pc, left,  (* where each process is, and the keys it has yet to handle   *)
  handle,    (* its variables clisem, servsem, ...                         *)
  of,        (* the server that accepted each client                       *)
  systems,   (* the servers whose system process is there                  *)
  (* history, read by no action: *)
  refs,      (* the processes that opened each set and did not close it    *)
  mishaps    (* what has gone wrong so far, see Mishap                     *)

progress == <<pc, left>>
sets == <<id, next>>
vars == <<semVars, sets, progress, handle, of, systems, refs, mishaps>>

(* What can go wrong, each of them something the code allows:              *)
(*   overlap    a server started while processes of another were there;    *)
(*   killed     a server was killed, or interrupted before it could tell;  *)
(*   bind       a server found its port taken;                             *)
(*   interrupt  INT_handler ran;                                           *)
(*   halfway    a receiver removed some sets only, as it had put clienting *)
(*              to 0 or was killed by its shell meanwhile;                 *)
(*   open       a set was opened while its last user was about to remove   *)
(*              it;                                                        *)
(*   closed     a shell that left was the last user of a set and removed   *)
(*              it, while INT_handler was removing the sets elsewhere.     *)
Mishap == {"overlap", "killed", "bind", "interrupt", "halfway", "open", "closed"}

(* The sets each process has, and the order in which it comes by them: as  *)
(* they are created, or as INT_handler removes them.                       *)
Mine(p) ==
  Key \intersect (CASE p[1] = "server" -> AllKeys
                    [] p[1] = "shell" -> {"servsem", "call_system", "call_system_end"}
                    [] OTHER -> {"clisem", "serving"})
CreateOrder == [clisem |-> 1, servsem |-> 2, clienting |-> 3, serving |-> 4,
                call_system |-> 5, call_system_end |-> 6]
RemoveOrder == [clisem |-> 1, clienting |-> 2, servsem |-> 3, call_system_end |-> 4,
                call_system |-> 5, serving |-> 6]
First(S, order) == CHOOSE k \in S : \A j \in S : order[k] <= order[j]
Turn(p) == First(left[p], IF pc[p] = "remove" THEN RemoveOrder ELSE CreateOrder)

Locks == Key \intersect {"clisem", "call_system"}
initval(k) == IF k \in {"clisem", "call_system"} THEN 1 ELSE 0

Alive(p) == pc[p] \notin {"none", "dead"}
Valid(p, k) == handle[p][k] # 0 /\ handle[p][k] = id[k]
Holds(p, k) == undoVal[p][k] = 1

Goto(p, l) == pc' = [pc EXCEPT ![p] = l]
Become(f, k, n) == [f EXCEPT ![k] = n]
Forget(f, k) == [p \in Proc |-> [f[p] EXCEPT ![k] = 0]]

(* p goes on with the next of its sets at l, or to m after the last.       *)
NextSet(p, l, m) ==
  \/ /\ left[p] # {Turn(p)} /\ Goto(p, l)
     /\ left' = [left EXCEPT ![p] = @ \ {Turn(p)}]
  \/ /\ left[p] = {Turn(p)} /\ Goto(p, m)
     /\ left' = [left EXCEPT ![p] = Mine(p)]

(* p calls exit, or is killed.  The kernel undoes what it did in Undone.   *)
Exits(p) == Goto(p, "dead") /\ left' = [left EXCEPT ![p] = Mine(p)]

Calm == UNCHANGED <<of, systems, mishaps>>

-----------------------------------------------------------------------------
(* sem_create, one call of semget, semop or semctl a step.                 *)

semget(p, k) ==
  /\ pc[p] = "get"
  /\ \/ /\ id[k] # 0
        /\ handle' = [handle EXCEPT ![p][k] = id[k]]
        /\ UNCHANGED sets
     \/ /\ id[k] = 0
        /\ id' = [id EXCEPT ![k] = next] /\ next' = next + 1
        /\ handle' = [handle EXCEPT ![p][k] = next]
  /\ Goto(p, "lock")
  /\ UNCHANGED <<semVars, left, refs>>

(* The lock may be with another sem_create or with sem_close.  A set that  *)
(* is gone before the call is EINVAL and tried again; one removed while    *)
(* the caller sleeps is EIDRM, and the server gives up.                    *)
op_lock(p, k) ==
  \/ /\ pc[p] \in {"lock", "asleep"} /\ Valid(p, k) /\ lock[k] = 0
     /\ lock' = [lock EXCEPT ![k] = 1]
     /\ undoLock' = [undoLock EXCEPT ![p][k] = @ - 1]
     /\ Goto(p, "getval")
     /\ UNCHANGED <<valVars, cnt, undoCnt, sets, left, handle, refs>>
  \/ /\ \/ pc[p] = "lock" /\ Valid(p, k) /\ lock[k] # 0 /\ Goto(p, "asleep")
        \/ pc[p] = "lock" /\ ~Valid(p, k) /\ Goto(p, "get")
        \/ pc[p] = "asleep" /\ ~Valid(p, k) /\ Goto(p, "dead")
     /\ UNCHANGED <<semVars, sets, left, handle, refs>>

(* Mutant of the code: sets found are initialised again.                   *)
Not_getval(p, k) ==
  /\ pc[p] = "getval"
  /\ \/ Valid(p, k) /\ Goto(p, "setval")
     \/ ~Valid(p, k) /\ Goto(p, "dead")
  /\ UNCHANGED <<semVars, sets, left, handle, refs>>

(* GETVAL of [1]: a set nobody counts references to is not initialised.    *)
getval(p, k) ==
  /\ pc[p] = "getval"
  /\ \/ Valid(p, k) /\ cnt[k] = 0 /\ Goto(p, "setval")
     \/ Valid(p, k) /\ cnt[k] # 0 /\ Goto(p, "endcreate")
     \/ ~Valid(p, k) /\ Goto(p, "dead")
  /\ UNCHANGED <<semVars, sets, left, handle, refs>>

(* SETVAL makes the kernel forget what all processes owe the semaphore.    *)
setval(p, k) ==
  \/ /\ pc[p] = "setval" /\ Valid(p, k) /\ Goto(p, "setcount")
     /\ val' = Become(val, k, initval(k)) /\ undoVal' = Forget(undoVal, k)
     /\ UNCHANGED <<asleep, cntVars, sets, left, handle, refs>>
  \/ /\ pc[p] = "setcount" /\ Valid(p, k) /\ Goto(p, "endcreate")
     /\ cnt' = Become(cnt, k, BIGCOUNT) /\ undoCnt' = Forget(undoCnt, k)
     /\ UNCHANGED <<valVars, lock, undoLock, sets, left, handle, refs>>
  \/ /\ pc[p] \in {"setval", "setcount"} /\ ~Valid(p, k) /\ Goto(p, "dead")
     /\ UNCHANGED <<semVars, sets, left, handle, refs>>

op_endcreate(p, k) ==
  /\ pc[p] = "endcreate"
  /\ \/ /\ Valid(p, k) /\ cnt[k] > 0 /\ lock[k] > 0
        /\ cnt' = [cnt EXCEPT ![k] = @ - 1]
        /\ undoCnt' = [undoCnt EXCEPT ![p][k] = @ + 1]
        /\ lock' = [lock EXCEPT ![k] = @ - 1]
        /\ undoLock' = [undoLock EXCEPT ![p][k] = @ + 1]
        /\ refs' = [refs EXCEPT ![k] = @ \union {p}]
        /\ NextSet(p, "get", "fork")
        /\ UNCHANGED valVars
     \/ /\ ~Valid(p, k) /\ Exits(p) /\ UNCHANGED <<semVars, refs>>
  /\ UNCHANGED <<sets, handle>>

sem_create(s) ==
  LET p == Program(s)
      k == Turn(p)
  IN  /\ \/ semget(p, k) \/ op_lock(p, k) \/ getval(p, k) \/ setval(p, k)
         \/ op_endcreate(p, k)
      /\ Calm

-----------------------------------------------------------------------------
(* sem_rm, and what its callers do.                                        *)

RemoveSet(k) ==
  /\ id' = [id EXCEPT ![k] = 0] /\ UNCHANGED next
  /\ val' = Become(val, k, 0) /\ undoVal' = Forget(undoVal, k)
  /\ cnt' = Become(cnt, k, 0) /\ undoCnt' = Forget(undoCnt, k)
  /\ lock' = Become(lock, k, 0) /\ undoLock' = Forget(undoLock, k)
  /\ asleep' = Become(asleep, k, {})
  /\ refs' = Become(refs, k, {})

(* sem_rm of a set, and on to the next; a set that is gone ends the        *)
(* caller.                                                                 *)
sem_rm(p, k, l) ==
  \/ Valid(p, k) /\ RemoveSet(k) /\ NextSet(p, l, "dead")
  \/ ~Valid(p, k) /\ Exits(p) /\ UNCHANGED <<semVars, sets, refs>>

(* Mutant of the code: the handler does not kill the system process.       *)
Not_Interrupt(p, s) ==
  /\ pc[p] \in {"bind", "up", "ready", "waiting"}
  /\ Goto(p, "remove") /\ left' = [left EXCEPT ![p] = Key]
  /\ mishaps' = mishaps \union {"interrupt"}
  /\ UNCHANGED <<semVars, sets, handle, of, systems, refs>>

(* SIGINT.  The handler kills the system process first; shells and         *)
(* receivers have inherited it from the server, which installs it after    *)
(* it has forked the system process.                                       *)
Interrupt(p, s) ==
  /\ Alive(p) /\ pc[p] \notin {"get", "lock", "asleep", "getval", "setval", "setcount",
                               "endcreate", "fork", "remove"}
  /\ systems' = systems \ {s}
  /\ Goto(p, "remove") /\ left' = [left EXCEPT ![p] = Key]
  /\ mishaps' = mishaps \union {"interrupt"}
  /\ UNCHANGED <<semVars, sets, handle, of, refs>>

(* Mutant of the code: the last set is forgotten.                          *)
Not_INT_handler(p) ==
  /\ pc[p] = "remove"
  /\ \/ left[p] # {Turn(p)} /\ sem_rm(p, Turn(p), "remove")
     \/ left[p] = {Turn(p)} /\ Exits(p) /\ UNCHANGED <<semVars, sets, refs>>
  /\ UNCHANGED <<handle, of, systems, mishaps>>

INT_handler(p) ==
  /\ pc[p] = "remove"
  /\ sem_rm(p, Turn(p), "remove")
  /\ mishaps' = mishaps \union
       (IF Valid(p, Turn(p)) /\ \E k \in Key : handle[p][k] = 0
        THEN {"halfway"} ELSE {})
  /\ UNCHANGED <<handle, of, systems>>

-----------------------------------------------------------------------------
(* The server.                                                             *)

Quiet == \A p \in Proc : ~Alive(p) /\ Settled(p)

Start(s) ==
  /\ pc[Program(s)] = "none"
  /\ Goto(Program(s), "get")
  /\ mishaps' = mishaps \union (IF Quiet THEN {} ELSE {"overlap"})
  /\ UNCHANGED <<semVars, sets, left, handle, of, systems, refs>>

(* fork of the system process, before the server knows that it has a port. *)
ForkSystem(s) ==
  /\ pc[Program(s)] = "fork"
  /\ Goto(Program(s), "bind")
  /\ systems' = systems \union {s}
  /\ UNCHANGED <<semVars, sets, left, handle, of, refs, mishaps>>

Bind(s) ==
  /\ pc[Program(s)] = "bind"
  /\ \/ Goto(Program(s), "up") /\ UNCHANGED mishaps
     \/ Goto(Program(s), "dead") /\ mishaps' = mishaps \union {"bind"}
  /\ UNCHANGED <<semVars, sets, left, handle, of, systems, refs>>

(* A shell and, from it, a receiver are forked with the server's handles.  *)
Accept(s, c) ==
  /\ pc[Program(s)] = "up" /\ pc[Shell(c)] = "none"
  /\ pc' = [pc EXCEPT ![Shell(c)] = "open", ![Recv(c)] = "open"]
  /\ handle' = [handle EXCEPT ![Shell(c)] = handle[Program(s)],
                              ![Recv(c)] = handle[Program(s)]]
  /\ of' = [of EXCEPT ![c] = s]
  /\ UNCHANGED <<semVars, sets, left, systems, refs, mishaps>>

(* SIGKILL, or SIGINT before the handler is there.                         *)
Kill(s) ==
  /\ Alive(Program(s)) /\ Exits(Program(s))
  /\ mishaps' = mishaps \union {"killed"}
  /\ UNCHANGED <<semVars, sets, handle, of, systems, refs>>

ServerNext(s) ==
  \/ Start(s) \/ sem_create(s) \/ ForkSystem(s) \/ Bind(s)
  \/ \E c \in Client : Accept(s, c)
  \/ Interrupt(Program(s), s) \/ INT_handler(Program(s))
  \/ s \in Kills /\ Kill(s)

-----------------------------------------------------------------------------
(* Shells and receivers.                                                   *)

(* p's reference to a set is the last one, and its owner is about to       *)
(* remove the set.                                                         *)
Closing(k) == \E p \in Proc : pc[p] = "close_rm" /\ Turn(p) = k

(* The set is looked up and its [1] decremented; when there is none the    *)
(* caller exits.                                                           *)
open(p, k) ==
  /\ id[k] # 0 /\ sem_open(p, {k})
  /\ handle' = [handle EXCEPT ![p][k] = id[k]]
  /\ refs' = [refs EXCEPT ![k] = @ \union {p}]
  /\ mishaps' = mishaps \union (IF Closing(k) THEN {"open"} ELSE {})

NoSet(p, k) ==
  /\ id[k] = 0 /\ Exits(p)
  /\ UNCHANGED <<semVars, handle, refs, mishaps>>

Opens(p) ==
  /\ pc[p] = "open"
  /\ \/ open(p, Turn(p)) /\ NextSet(p, "open", "ready")
     \/ NoSet(p, Turn(p))
  /\ UNCHANGED <<sets, of, systems>>

(* sem_wait and sem_signal on a lock.  They fail at once when the set is   *)
(* gone, and nobody looks.                                                 *)
Take(p, l, k, m) ==
  /\ pc[p] = l /\ Goto(p, m)
  /\ \/ Valid(p, k) /\ val[k] > 0 /\ sem_wait(p, k)
     \/ ~Valid(p, k) /\ UNCHANGED semVars
  /\ UNCHANGED <<sets, left, handle, refs>> /\ Calm

Give(p, l, k, m) ==
  /\ pc[p] = l /\ Goto(p, m)
  /\ \/ Valid(p, k) /\ sem_signal(p, k)
     \/ ~Valid(p, k) /\ UNCHANGED semVars
  /\ UNCHANGED <<sets, left, handle, refs>> /\ Calm

(* op_close.  A set that is gone ends the caller.                          *)
Close(p, l, k, m) ==
  /\ pc[p] = l
  /\ \/ /\ Valid(p, k) /\ lock[k] = 0
        /\ lock' = [lock EXCEPT ![k] = 1]
        /\ undoLock' = [undoLock EXCEPT ![p][k] = @ - 1]
        /\ cnt' = [cnt EXCEPT ![k] = @ + 1]
        /\ undoCnt' = [undoCnt EXCEPT ![p][k] = @ - 1]
        /\ refs' = [refs EXCEPT ![k] = @ \ {p}]
        /\ Goto(p, m) /\ UNCHANGED valVars
     \/ ~Valid(p, k) /\ Exits(p) /\ UNCHANGED <<semVars, refs>>
  /\ UNCHANGED <<sets, left, handle>> /\ Calm

(* Mutant of the code: a set is removed when the caller finds a user left. *)
Not_CloseRest(p) ==
  LET k == Turn(p)
  IN  /\ \/ /\ pc[p] = "close_get" /\ Valid(p, k)
            /\ \/ cnt[k] >= BIGCOUNT - 1 /\ Goto(p, "close_rm")
               \/ cnt[k] < BIGCOUNT - 1 /\ Goto(p, "close_unlock")
            /\ UNCHANGED <<semVars, sets, left, refs>>
         \/ pc[p] = "close_rm" /\ sem_rm(p, k, "close")
         \/ /\ pc[p] = "close_unlock" /\ Valid(p, k)
            /\ op_unlock(p, k) /\ NextSet(p, "close", "dead")
            /\ UNCHANGED <<sets, refs>>
      /\ UNCHANGED handle /\ Calm

(* The rest of sem_close: GETVAL, and sem_rm or op_unlock.                 *)
CloseRest(p) ==
  LET k == Turn(p)
  IN  /\ \/ /\ pc[p] = "close_get"
            /\ \/ Valid(p, k) /\ cnt[k] = BIGCOUNT /\ Goto(p, "close_rm")
               \/ Valid(p, k) /\ cnt[k] < BIGCOUNT /\ Goto(p, "close_unlock")
               \/ Valid(p, k) /\ cnt[k] > BIGCOUNT /\ Goto(p, "dead")
               \/ ~Valid(p, k) /\ Goto(p, "dead")
            /\ UNCHANGED <<semVars, sets, left, refs>>
         \/ pc[p] = "close_rm" /\ sem_rm(p, k, "close")
         \/ /\ pc[p] = "close_unlock"
            /\ \/ Valid(p, k) /\ op_unlock(p, k) /\ NextSet(p, "close", "dead")
               \/ ~Valid(p, k) /\ Exits(p) /\ UNCHANGED semVars
            /\ UNCHANGED <<sets, refs>>
      /\ mishaps' = mishaps \union
           (IF pc[p] = "close_rm" /\ Valid(p, k) /\ \E q \in Proc : pc[q] = "remove"
            THEN {"closed"} ELSE {})
      /\ UNCHANGED <<handle, of, systems>>

(* exit, hang-up or end of file: the shell kills its receiver, says        *)
(* goodbye and closes its sets.                                            *)
Leaves(c) ==
  /\ pc[Shell(c)] = "ready"
  /\ pc' = [pc EXCEPT ![Shell(c)] = "bye", ![Recv(c)] = "dead"]
  /\ mishaps' = mishaps \union (IF pc[Recv(c)] = "remove" THEN {"halfway"} ELSE {})
  /\ UNCHANGED <<semVars, sets, left, handle, refs, of, systems>>

ShellNext(c) ==
  LET p == Shell(c)
  IN  \/ Opens(p)
      \/ Take(p, "ready", "call_system", "calling") \/ Give(p, "calling", "call_system", "ready")
      \/ Leaves(c)
      \/ Take(p, "bye", "call_system", "said") \/ Give(p, "said", "call_system", "close")
      \/ Close(p, "close", Turn(p), "close_get") \/ CloseRest(p)
      \/ Interrupt(p, of[c]) \/ INT_handler(p)

(* The receiver's loop: sign up under clisem, wait, read, sign off.        *)
SignUp(p) ==
  /\ pc[p] = "sign"
  /\ \/ open(p, "clienting") /\ Goto(p, "signed") /\ UNCHANGED left
     \/ NoSet(p, "clienting")
  /\ UNCHANGED <<sets, of, systems>>

SignOff(p) ==
  /\ pc[p] = "unlock"
  /\ \/ /\ Valid(p, "clienting") /\ op_unlock(p, "clienting") /\ Goto(p, "ready")
        /\ handle' = [handle EXCEPT ![p]["clienting"] = 0]
     \/ ~Valid(p, "clienting") /\ Goto(p, "dead") /\ UNCHANGED <<semVars, handle>>
  /\ UNCHANGED <<sets, left, refs>> /\ Calm

RecvNext(c) ==
  LET p == Recv(c)
  IN  \/ Opens(p)
      \/ Take(p, "ready", "clisem", "sign")
      \/ SignUp(p)
      \/ Give(p, "signed", "clisem", "waiting")
      \/ Close(p, "waiting", "clienting", "unlock")
      \/ SignOff(p)
      \/ Interrupt(p, of[c]) \/ INT_handler(p)

-----------------------------------------------------------------------------
(* The kernel undoes a dead process's operations on one set.               *)
Undone(p, k) ==
  /\ pc[p] = "dead" /\ Owes(p, k)
  /\ Undo(p, k)
  /\ refs' = [refs EXCEPT ![k] = @ \ {p}]
  /\ UNCHANGED <<sets, progress, handle, of, systems, mishaps>>

Init ==
  /\ id = [k \in Key |-> 0] /\ next = 1
  /\ val = [k \in Key |-> 0] /\ cnt = val /\ lock = val
  /\ undoVal = [p \in Proc |-> [k \in Key |-> 0]]
  /\ undoCnt = undoVal /\ undoLock = undoVal /\ handle = undoVal
  /\ asleep = [k \in Key |-> {}] /\ refs = asleep
  /\ pc = [p \in Proc |-> "none"] /\ left = [p \in Proc |-> Mine(p)]
  /\ of = [c \in Client |-> CHOOSE s \in Server : TRUE]
  /\ systems = {} /\ mishaps = {}

Next ==
  \/ \E s \in Server : ServerNext(s)
  \/ \E c \in Client : ShellNext(c) \/ RecvNext(c)
  \/ \E p \in Proc, k \in Key : Undone(p, k)

Spec == Init /\ [][Next]_vars

-----------------------------------------------------------------------------
(* Every variable has its type.                                            *)
TypeOK ==
  /\ id \in [Key -> Nat] /\ next \in Nat /\ \A k \in Key : id[k] < next
  /\ handle \in [Proc -> [Key -> Nat]]
  /\ cnt \in [Key -> 0 .. BIGCOUNT]
  /\ lock \in [Key -> {0, 1}]
  /\ \A p \in Proc : left[p] \subseteq Key
  /\ systems \subseteq Server /\ refs \in [Key -> SUBSET Proc]
  /\ mishaps \subseteq Mishap

(* Semaphore [1] of a set that is initialised counts the processes that    *)
(* have it open, whoever creates, closes, is killed or removes it          *)
(* meanwhile (shm.cpp:11-40, 55-60, 67-84).                                *)
Counted ==
  \A k \in Key : \/ cnt[k] = BIGCOUNT - Cardinality(refs[k])
                 \/ cnt[k] = 0 /\ refs[k] = {}

(* A lock is given out to one process at a time: starting a server over    *)
(* the sets that another left behind, or has in use, does not make a       *)
(* second token (shm.cpp:22-34).                                           *)
LockKept ==
  \A k \in Locks : cnt[k] # 0 => val[k] + Cardinality({p \in Proc : Holds(p, k)}) = 1

(* What a set says of its users is so, in every state it can be found in.  *)
SetsSound == TypeOK /\ Counted /\ LockKept

(* Who has opened a set has the set that is there.  It is taken away from  *)
(* him by Ctrl-C only, or if he opened it after its last user had counted  *)
(* the references and before that one removed it (shm.cpp:55, 73-80).      *)
NotUnderAnyone ==
  mishaps \intersect {"interrupt", "open"} = {} =>
    /\ \A c \in Client, k \in Key :
         /\ pc[Shell(c)] \in {"ready", "calling", "bye", "said"}
         /\ k \in Mine(Shell(c))
         => Valid(Shell(c), k)
    /\ \A s \in Server : pc[Program(s)] \in {"fork", "bind", "up"} =>
                           \A k \in Key : Valid(Program(s), k)

(* After Ctrl-C nothing is left: whichever of the processes comes first    *)
(* removes all the sets and the others end at the first one they miss.     *)
(* Excepted are servers that were killed, that started over another one or *)
(* had no port, a receiver that comes first and stops, because it has no   *)
(* number for clienting or because its shell, which goes on, kills it, and *)
(* a set that whoever comes first does not find, because a shell that was  *)
(* leaving has removed it as its last user                                 *)
(* (np_multi_proc.cpp:38-53, 247, 281, shm.cpp:73-80).                     *)
NothingLeft ==
  /\ Quiet
  /\ "interrupt" \in mishaps
  /\ mishaps \intersect {"overlap", "killed", "bind", "halfway", "closed"} = {}
  => \A k \in Key : id[k] = 0

(* The system process does not outlive its server, unless that was killed  *)
(* or found its port taken, which is known only after the fork             *)
(* (np_multi_proc.cpp:40-41, 104, 156).                                    *)
NoOrphan ==
  mishaps \intersect {"killed", "bind"} = {} =>
    \A s \in systems : Alive(Program(s))

(* The end of a server: its sets and its system process go with it.        *)
CleanEnd == NothingLeft /\ NoOrphan
=============================================================================

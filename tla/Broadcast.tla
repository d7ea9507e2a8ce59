----------------------------- MODULE Broadcast -----------------------------
(***************************************************************************)
(* How the processes of np_multi_proc pass requests and messages.          *)
(*                                                                         *)
(* One system process (np_multi_proc.cpp:104-136) owns the user table.     *)
(* Every connected client has a shell process, which talks to it, and a    *)
(* receiver process, which prints what the system process announces.       *)
(* All of them share one text buffer, shm, and six semaphore sets:         *)
(*   call_system      held by the shell that has a request in progress;    *)
(*   servsem          a shell tells the system process of its request;     *)
(*   call_system_end  the system process tells the shell it is done;       *)
(*   clisem           held while receivers sign up, and by the system      *)
(*                    process while it announces;                          *)
(*   clienting        the baton: whoever takes it may read shm; its [1]    *)
(*                    counts the receivers signed up;                      *)
(*   serving          the last receiver tells the system process.          *)
(*                                                                         *)
(* What a request asks for and what the table answers is in UserTable; to  *)
(* this protocol a message is a request or a reply, its client and its     *)
(* number.                                                                 *)
(***************************************************************************)
EXTENDS SysVSem

CONSTANTS
  Client,    (* the clients that may connect                               *)
  Jobs,      (* the clients that run commands in the background            *)
  Leavers,   (* the clients that may type exit or hang up                  *)
  Asks,      (* what commands ask the system process for: talk, pipe       *)
  MaxCmds    (* bound: the commands of each client, background ones too    *)

ASSUME BroadcastAssumption == /\ IsFiniteSet(Client)
                              /\ Jobs \subseteq Client
                              /\ Leavers \subseteq Client
                              /\ Asks \subseteq {"talk", "pipe"}
                              /\ MaxCmds \in [Client -> Nat]

VARIABLES
  pc,         (* where each process is                                     *)
  shm,        (* the shared buffer                                         *)
  req,        (* the system process's copy of the request it handles       *)
  seen,       (* the first of the two counters it compares when it syncs   *)
  op,         (* what each shell is about to ask for                       *)
  cmds,       (* how many commands each client has given                   *)
  jobs,       (* background children of each shell that have not ended     *)
  (* history, read by no action: *)
  audience,   (* clients whose receivers were signed up for this message   *)
  heard,      (* clients whose receivers read it                           *)
  disturbed,  (* a killed receiver died, or was dying, during this round   *)
  moved,      (* a receiver came or went since the system began to compare *)
  mishaps     (* what has gone wrong so far, see Mishap                    *)

history == <<audience, heard, disturbed, moved, mishaps>>
shellVars == <<op, cmds, jobs>>
vars == <<semVars, pc, shm, req, seen, shellVars, history>>

Sys == <<"system", 0>>
Shell(c) == <<"shell", c>>
Recv(c) == <<"receiver", c>>
Proc == {Sys} \union ({"shell", "receiver"} \X Client)

ShellSem == {"servsem", "call_system", "call_system_end"}
Sem == ShellSem \union {"clisem", "clienting", "serving"}

SysPC == {"s_idle", "s_poll", "s_drain", "s_read", "s_write", "s_lock", "s_count",
          "s_start", "s_serving", "s_take", "s_unlock", "s_sync", "s_compare",
          "s_reply"}
RecvPC == {"r_none", "r_open", "r_lock", "r_sign", "r_unlock", "r_wait", "r_read",
           "r_close", "r_last", "r_serve", "r_free", "r_pass", "r_exit"}
ShellPC == {"h_none", "h_poll", "h_drain", "h_prompt", "h_run", "h_lock", "h_write",
             "h_ring", "h_wait", "h_unlock", "h_look", "h_kill", "h_reap", "h_close",
            "h_exit"}

Op == {"enter", "talk", "pipe", "left"}
Msg == [kind : {"request", "reply"}, from : Client, op : Op, n : Nat]
NoMsg == [kind |-> "empty"]

Request(c) == [kind |-> "request", from |-> c, op |-> op[c], n |-> cmds[c]]
Reply(c) == [Request(c) EXCEPT !.kind = "reply"]

(* What can go wrong, each of them something the code allows:              *)
(*   drain  a shell emptied call_system_end while it held a token;         *)
(*   eintr  a semop of a shell was interrupted;                            *)
(*   exit   a shell ended and the kernel undid its semaphore operations.   *)
Mishap == {"drain", "eintr", "exit"}

Goto(p, l) == pc' = [pc EXCEPT ![p] = l]

(* p is at l and runs.                                                     *)
At(p, l) == pc[p] = l /\ Awake(p)

(* Steps of p from l to m that do one semaphore operation and nothing      *)
(* else.  A process put to sleep by its wait is at m already.              *)
Wait(p, l, s, m) ==
  /\ At(p, l) /\ sem_wait(p, s) /\ Goto(p, m)
  /\ UNCHANGED <<shm, req, seen, shellVars, history>>

Signal(p, l, s, m) ==
  /\ At(p, l) /\ sem_signal(p, s) /\ Goto(p, m)
  /\ UNCHANGED <<shm, req, seen, shellVars, history>>

-----------------------------------------------------------------------------
(* The system process.                                                     *)

(* Mutants of the code, used by no action, are named Not_<definition>.     *)
(* This one does not wait for the doorbell.                                *)
Not_SysAwaitCall ==
  /\ At(Sys, "s_idle") /\ Goto(Sys, "s_poll")
  /\ UNCHANGED <<semVars, shm, req, seen, shellVars, history>>

SysAwaitCall == Wait(Sys, "s_idle", "servsem", "s_poll")

(* while(semctl(call_system_end, 0, GETVAL, 0)) sem_wait(call_system_end)  *)
SysPoll ==
  /\ At(Sys, "s_poll")
  /\ \/ val["call_system_end"] = 0 /\ Goto(Sys, "s_read")
     \/ val["call_system_end"] > 0 /\ Goto(Sys, "s_drain")
  /\ UNCHANGED <<semVars, shm, req, seen, shellVars, history>>

SysDrain == Wait(Sys, "s_drain", "call_system_end", "s_poll")

(* system_display copies the buffer first ...                              *)
SysRead ==
  /\ At(Sys, "s_read")
  /\ req' = shm
  /\ Goto(Sys, "s_write")
  /\ UNCHANGED <<semVars, shm, seen, shellVars, history>>

(* ... and prints its message over it last.  Text that is no request       *)
(* matches none of its commands and leaves the empty string.               *)
SysWrite ==
  /\ At(Sys, "s_write")
  /\ \/ req.kind = "request" /\ shm' = [req EXCEPT !.kind = "reply"]
     \/ req.kind # "request" /\ shm' = NoMsg
  /\ Goto(Sys, "s_lock")
  /\ UNCHANGED <<semVars, req, seen, shellVars, history>>

SysLock == Wait(Sys, "s_lock", "clisem", "s_count")

(* The receivers that have signed up and not given their place back.       *)
SignedUp == {c \in Client : pc[Recv(c)] \in {"r_unlock", "r_wait", "r_read", "r_close"}}

(* A killed receiver whose operations the kernel has not all undone yet.   *)
Dying == \E c \in Client : pc[Recv(c)] = "r_exit" /\ ~Settled(Recv(c))

SysCount ==
  /\ At(Sys, "s_count")
  /\ \/ cnt["clienting"] = Base /\ Goto(Sys, "s_unlock")
     \/ cnt["clienting"] # Base /\ Goto(Sys, "s_start")
  /\ audience' = SignedUp
  /\ heard' = {}
  /\ disturbed' = Dying
  /\ UNCHANGED <<semVars, shm, req, seen, shellVars, moved, mishaps>>

SysStart == Signal(Sys, "s_start", "clienting", "s_serving")

(* Mutant: the baton is not taken back after the round.                    *)
Not_SysServing == Wait(Sys, "s_serving", "serving", "s_unlock")

SysServing == Wait(Sys, "s_serving", "serving", "s_take")
SysTake == Wait(Sys, "s_take", "clienting", "s_unlock")

(* Mutant: clisem is not released.                                         *)
Not_SysUnlock ==
  /\ At(Sys, "s_unlock") /\ Goto(Sys, "s_sync")
  /\ UNCHANGED <<semVars, shm, req, seen, shellVars, history>>

SysUnlock == Signal(Sys, "s_unlock", "clisem", "s_sync")

(* The loop condition reads two counters, one after the other.             *)
SysSync ==
  /\ At(Sys, "s_sync")
  /\ seen' = cnt["clisem"]
  /\ Goto(Sys, "s_compare")
  /\ moved' = Dying
  /\ UNCHANGED <<semVars, shm, req, shellVars, audience, heard, disturbed, mishaps>>

(* Mutant: the system process does not wait for receivers to sign up.      *)
Not_SysCompare ==
  /\ At(Sys, "s_compare")
  /\ \/ seen <= cnt["clienting"] /\ Goto(Sys, "s_reply")
     \/ seen > cnt["clienting"] /\ Goto(Sys, "s_sync")
  /\ UNCHANGED <<semVars, shm, req, seen, shellVars, history>>

SysCompare ==
  /\ At(Sys, "s_compare")
  /\ \/ seen = cnt["clienting"] /\ Goto(Sys, "s_reply")
     \/ seen # cnt["clienting"] /\ Goto(Sys, "s_sync")
  /\ UNCHANGED <<semVars, shm, req, seen, shellVars, history>>

SysReply == Signal(Sys, "s_reply", "call_system_end", "s_idle")

SysNext ==
  \/ SysAwaitCall \/ SysPoll \/ SysDrain \/ SysRead \/ SysWrite \/ SysLock
  \/ SysCount \/ SysStart \/ SysServing \/ SysTake \/ SysUnlock \/ SysSync
  \/ SysCompare \/ SysReply

-----------------------------------------------------------------------------
(* The receiver of client c.                                               *)

(* Also opens serving, whose [1] nobody reads.                             *)
RecvOpen(c) ==
  /\ At(Recv(c), "r_open")
  /\ sem_open(Recv(c), {"clisem", "serving"})
  /\ Goto(Recv(c), "r_lock")
  /\ moved' = TRUE
  /\ UNCHANGED <<shm, req, seen, shellVars, audience, heard, disturbed, mishaps>>

RecvLock(c) == Wait(Recv(c), "r_lock", "clisem", "r_sign")

RecvSign(c) ==
  /\ At(Recv(c), "r_sign")
  /\ sem_open(Recv(c), {"clienting"})
  /\ Goto(Recv(c), "r_unlock")
  /\ UNCHANGED <<shm, req, seen, shellVars, history>>

RecvUnlock(c) == Signal(Recv(c), "r_unlock", "clisem", "r_wait")
RecvWait(c) == Wait(Recv(c), "r_wait", "clienting", "r_read")

(* Reads shm and prints it if it is addressed to everybody or to c.        *)
RecvRead(c) ==
  /\ At(Recv(c), "r_read")
  /\ heard' = heard \union {c}
  /\ Goto(Recv(c), "r_close")
  /\ UNCHANGED <<semVars, shm, req, seen, shellVars, audience, disturbed, moved, mishaps>>

RecvClose(c) ==
  /\ At(Recv(c), "r_close")
  /\ op_close(Recv(c), "clienting")
  /\ Goto(Recv(c), "r_last")
  /\ UNCHANGED <<shm, req, seen, shellVars, history>>

(* Mutants: off by one, either way.                                        *)
Not_LastToRead_early == cnt["clienting"] >= Base - 1
Not_LastToRead_late == cnt["clienting"] = BIGCOUNT

(* Nobody else is signed up: this receiver is the last to read.            *)
LastToRead == cnt["clienting"] = Base

RecvLast(c) ==
  /\ At(Recv(c), "r_last")
  /\ \/ LastToRead /\ Goto(Recv(c), "r_serve")
     \/ ~LastToRead /\ Goto(Recv(c), "r_free")
  /\ UNCHANGED <<semVars, shm, req, seen, shellVars, history>>

RecvServe(c) == Signal(Recv(c), "r_serve", "serving", "r_free")

RecvFree(c) ==
  /\ At(Recv(c), "r_free")
  /\ op_unlock(Recv(c), "clienting")
  /\ Goto(Recv(c), "r_pass")
  /\ UNCHANGED <<shm, req, seen, shellVars, history>>

(* Mutant: a receiver signs up again without waiting for clisem.           *)
Not_RecvPass(c) == Signal(Recv(c), "r_pass", "clienting", "r_sign")

RecvPass(c) == Signal(Recv(c), "r_pass", "clienting", "r_lock")

(* The kernel cleans up after a killed receiver, one set at a time.        *)
RecvUndo(c) ==
  \E s \in Sem :
    /\ pc[Recv(c)] = "r_exit"
    /\ Owes(Recv(c), s)
    /\ Undo(Recv(c), s)
    /\ disturbed' = TRUE
    /\ moved' = TRUE
    /\ UNCHANGED <<pc, shm, req, seen, shellVars, audience, heard, mishaps>>

RecvNext(c) ==
  \/ RecvOpen(c) \/ RecvLock(c) \/ RecvSign(c) \/ RecvUnlock(c) \/ RecvWait(c)
  \/ RecvRead(c) \/ RecvClose(c) \/ RecvLast(c) \/ RecvServe(c) \/ RecvFree(c)
  \/ RecvPass(c) \/ RecvUndo(c)

-----------------------------------------------------------------------------
(* The shell of client c.                                                  *)

(* The server accepts c and forks its shell, which forks its receiver and  *)
(* opens its sets.  Nobody reads [1] of these sets while they are open.    *)
Accept(c) ==
  /\ pc[Shell(c)] = "h_none"
  /\ sem_open(Shell(c), ShellSem)
  /\ pc' = [pc EXCEPT ![Shell(c)] = "h_poll", ![Recv(c)] = "r_open"]
  /\ UNCHANGED <<shm, req, seen, shellVars, history>>

(* The same loop as SysPoll, after connecting and after every line.  The   *)
(* request that follows is "enter" on the first pass.                      *)
ShellPoll(c) ==
  /\ At(Shell(c), "h_poll")
  /\ \/ /\ val["call_system_end"] > 0
        /\ Goto(Shell(c), "h_drain")
     \/ /\ val["call_system_end"] = 0 /\ op[c] = "enter"
        /\ Goto(Shell(c), "h_lock")
     \/ /\ val["call_system_end"] = 0 /\ op[c] # "enter"
        /\ Goto(Shell(c), "h_run")
  /\ UNCHANGED <<semVars, shm, req, seen, shellVars, history>>

ShellDrain(c) ==
  /\ At(Shell(c), "h_drain")
  /\ sem_wait(Shell(c), "call_system_end")
  /\ Goto(Shell(c), "h_poll")
  /\ mishaps' = mishaps \union {"drain"}
  /\ UNCHANGED <<shm, req, seen, shellVars, audience, heard, disturbed, moved>>

(* The line before, if any, is done and the next one arrives.              *)
ReadLine(c) ==
  /\ At(Shell(c), "h_prompt") \/ At(Shell(c), "h_run")
  /\ Goto(Shell(c), "h_poll")
  /\ UNCHANGED <<semVars, shm, req, seen, shellVars, history>>

(* The client hangs up, or the next command is exit.                       *)
Leave(c) ==
  /\ At(Shell(c), "h_prompt") \/ At(Shell(c), "h_run")
  /\ c \in Leavers
  /\ Goto(Shell(c), "h_kill")
  /\ UNCHANGED <<semVars, shm, req, seen, shellVars, history>>

(* The next command of the line asks the system process for something:     *)
(* who, name, tell and yell (talk), or a user pipe, whose answer the shell *)
(* needs.                                                                  *)
RunRequest(c) ==
  /\ At(Shell(c), "h_run")
  /\ cmds[c] < MaxCmds[c]
  /\ \E o \in Asks : op' = [op EXCEPT ![c] = o]
  /\ cmds' = [cmds EXCEPT ![c] = @ + 1]
  /\ Goto(Shell(c), "h_lock")
  /\ UNCHANGED <<semVars, shm, req, seen, jobs, history>>

(* It starts a child the shell does not wait for.                          *)
RunJob(c) ==
  /\ At(Shell(c), "h_run")
  /\ c \in Jobs
  /\ cmds[c] < MaxCmds[c]
  /\ cmds' = [cmds EXCEPT ![c] = @ + 1]
  /\ jobs' = [jobs EXCEPT ![c] = @ + 1]
  /\ UNCHANGED <<semVars, pc, shm, req, seen, op, history>>

(* Mutant: the shell does not wait for call_system.                        *)
Not_ShellLock(c) ==
  /\ At(Shell(c), "h_lock") /\ Goto(Shell(c), "h_write")
  /\ UNCHANGED <<semVars, shm, req, seen, shellVars, history>>

ShellLock(c) == Wait(Shell(c), "h_lock", "call_system", "h_write")

ShellWrite(c) ==
  /\ At(Shell(c), "h_write")
  /\ shm' = Request(c)
  /\ Goto(Shell(c), "h_ring")
  /\ UNCHANGED <<semVars, req, seen, shellVars, history>>

ShellRing(c) == Signal(Shell(c), "h_ring", "servsem", "h_wait")

(* Mutant: the shell does not wait for its answer.                         *)
Not_ShellWait(c) ==
  /\ At(Shell(c), "h_wait") /\ Goto(Shell(c), "h_unlock")
  /\ UNCHANGED <<semVars, shm, req, seen, shellVars, history>>

ShellWait(c) == Wait(Shell(c), "h_wait", "call_system_end", "h_unlock")

AfterRequest(c) ==
  CASE op[c] = "enter" -> "h_prompt"
    [] op[c] = "talk"  -> "h_run"
    [] op[c] = "pipe"  -> "h_look"
    [] op[c] = "left"  -> "h_close"

(* The first prompt appears after the enter request: from then on op is    *)
(* no longer "enter".                                                      *)
ShellUnlock(c) ==
  /\ At(Shell(c), "h_unlock")
  /\ sem_signal(Shell(c), "call_system")
  /\ Goto(Shell(c), AfterRequest(c))
  /\ op' = [op EXCEPT ![c] = IF @ = "enter" THEN "talk" ELSE @]
  /\ UNCHANGED <<shm, req, seen, cmds, jobs, history>>

(* A shell that asked for a user pipe reads the answer, after it gave up   *)
(* call_system.  stoi throws on anything but a reply and the shell aborts, *)
(* leaving its receiver behind.  After a reply the child that reads or     *)
(* writes the pipe may stay in the background.                             *)
ShellLook(c) ==
  /\ At(Shell(c), "h_look")
  /\ \/ /\ shm.kind = "reply"
        /\ Goto(Shell(c), "h_run")
        /\ \/ UNCHANGED jobs
           \/ c \in Jobs /\ jobs' = [jobs EXCEPT ![c] = @ + 1]
     \/ /\ shm.kind # "reply"
        /\ Goto(Shell(c), "h_exit")
        /\ UNCHANGED jobs
  /\ UNCHANGED <<semVars, shm, req, seen, op, cmds, history>>

(* A background child ends.  SIGCHLD finds the shell anywhere; if it was   *)
(* asleep in semop, that call fails, and the code does not look.  A shell  *)
(* that leaves ignores SIGCHLD.                                            *)
JobEnds(c) ==
  /\ jobs[c] > 0
  /\ jobs' = [jobs EXCEPT ![c] = @ - 1]
  /\ \/ /\ Awake(Shell(c)) \/ op[c] = "left"
        /\ UNCHANGED <<semVars, mishaps>>
     \/ /\ ~Awake(Shell(c)) /\ op[c] # "left"
        /\ Dequeue(Shell(c))
        /\ mishaps' = mishaps \union {"eintr"}
  /\ UNCHANGED <<pc, shm, req, seen, op, cmds, audience, heard, disturbed, moved>>

(* kill(broadcast_reiceiver_pid, SIGKILL), wherever the receiver is.       *)
KillReceiver(c) ==
  /\ At(Shell(c), "h_kill")
  /\ pc' = [pc EXCEPT ![Shell(c)] = "h_reap", ![Recv(c)] = "r_exit"]
  /\ Dequeue(Recv(c))
  /\ disturbed' = TRUE
  /\ UNCHANGED <<shm, req, seen, shellVars, audience, heard, moved, mishaps>>

(* waitpid returns when the kernel is done with the receiver.              *)
ReapReceiver(c) ==
  /\ At(Shell(c), "h_reap")
  /\ Settled(Recv(c))
  /\ op' = [op EXCEPT ![c] = "left"]
  /\ Goto(Shell(c), "h_lock")
  /\ UNCHANGED <<semVars, shm, req, seen, cmds, jobs, history>>

ShellClose(c) ==
  /\ At(Shell(c), "h_close")
  /\ sem_close(Shell(c), ShellSem)
  /\ Goto(Shell(c), "h_exit")
  /\ UNCHANGED <<shm, req, seen, shellVars, history>>

ShellUndo(c) ==
  \E s \in Sem :
    /\ pc[Shell(c)] = "h_exit"
    /\ Owes(Shell(c), s)
    /\ Undo(Shell(c), s)
    /\ mishaps' = mishaps \union {"exit"}
    /\ UNCHANGED <<pc, shm, req, seen, shellVars, audience, heard, disturbed, moved>>

ShellNext(c) ==
  \/ ShellPoll(c) \/ ShellDrain(c) \/ ShellLock(c) \/ ShellWrite(c) \/ ShellRing(c)
  \/ ShellWait(c) \/ ShellUnlock(c) \/ ShellLook(c)
  \/ KillReceiver(c) \/ ReapReceiver(c) \/ ShellClose(c) \/ ShellUndo(c)

(* What the users and the children decide.                                 *)
UserNext(c) ==
  \/ Accept(c) \/ ReadLine(c) \/ Leave(c) \/ RunRequest(c) \/ RunJob(c) \/ JobEnds(c)

-----------------------------------------------------------------------------
Zero == [p \in Proc |-> [s \in Sem |-> 0]]

Init ==
  /\ val = [s \in Sem |-> IF s \in {"clisem", "call_system"} THEN 1 ELSE 0]
  /\ cnt = [s \in Sem |-> Base]
  /\ lock = [s \in Sem |-> 0]
  /\ undoVal = Zero /\ undoCnt = Zero /\ undoLock = Zero
  /\ asleep = [s \in Sem |-> {}]
  /\ pc = [p \in Proc |-> CASE p[1] = "system"   -> "s_idle"
                            [] p[1] = "shell"    -> "h_none"
                            [] p[1] = "receiver" -> "r_none"]
  /\ shm = NoMsg /\ req = NoMsg /\ seen = 0
  /\ op = [c \in Client |-> "enter"]
  /\ cmds = [c \in Client |-> 0]
  /\ jobs = [c \in Client |-> 0]
  /\ audience = {} /\ heard = {} /\ disturbed = FALSE /\ moved = FALSE /\ mishaps = {}

Next == SysNext \/ \E c \in Client : RecvNext(c) \/ ShellNext(c) \/ UserNext(c)

Spec == Init /\ [][Next]_vars

(* The operating system runs every process that can run.  What the users   *)
(* do is theirs: a client may stay silent forever.                         *)
Fairness ==
  /\ WF_vars(SysNext)
  /\ \A c \in Client : WF_vars(RecvNext(c)) /\ WF_vars(ShellNext(c))

FairSpec == Spec /\ Fairness

-----------------------------------------------------------------------------
(* Properties.                                                             *)

(* Types, and the ranges of the semaphores: none goes below 0, a process    *)
(* has a set open at most once and one at a time locks it, and the baton,  *)
(* clienting, is never on its semaphore twice.                             *)
TypeOK ==
  /\ val \in [Sem -> Nat] /\ val["clienting"] \in 0..1
  /\ cnt \in [Sem -> Nat] /\ lock \in [Sem -> 0..1]
  /\ undoVal \in [Proc -> [Sem -> Int]]
  /\ undoCnt \in [Proc -> [Sem -> 0..1]]
  /\ undoLock \in [Proc -> [Sem -> -1..0]]
  /\ asleep \in [Sem -> SUBSET Proc]
  /\ pc \in [Proc -> SysPC \union RecvPC \union ShellPC]
  /\ shm \in Msg \union {NoMsg} /\ req \in Msg \union {NoMsg}
  /\ seen \in Nat
  /\ op \in [Client -> Op]
  /\ cmds \in [Client -> Nat]
  /\ jobs \in [Client -> Nat]
  /\ audience \subseteq Client /\ heard \subseteq Client
  /\ disturbed \in BOOLEAN /\ moved \in BOOLEAN
  /\ mishaps \subseteq Mishap

Reading == {"r_read", "r_close", "r_last", "r_serve", "r_free", "r_pass"}

(* Receivers read shm one at a time, whatever receivers are killed, shells *)
(* exit or semop calls are interrupted meanwhile: between a receiver's     *)
(* sem_wait(clienting) and its sem_signal(clienting) no other receiver is  *)
(* there, the baton is not on the semaphore for another one to take, and   *)
(* the system process has not taken it back (np_multi_proc.cpp:123-125,    *)
(* 212-246).                                                               *)
OneReader ==
  \A c \in Client :
    pc[Recv(c)] \in Reading /\ Awake(Recv(c)) =>
      /\ \A d \in Client : pc[Recv(d)] \in Reading /\ Awake(Recv(d)) => d = c
      /\ val["clienting"] = 0
      /\ pc[Sys] = "s_unlock" => ~Awake(Sys)

(* A receiver that is let through to shm is in the audience of the         *)
(* announcement and has not read it yet: nobody prints a message twice,    *)
(* and nobody signs up in the middle of a round.                           *)
AudienceOnce ==
  \A c \in Client :
    pc[Recv(c)] = "r_read" /\ Awake(Recv(c)) => c \in audience \ heard

(* When the system process is told that everybody has read, everybody has, *)
(* unless a receiver was killed during the round.                          *)
NobodySkipped ==
  pc[Sys] = "s_take" /\ Awake(Sys) /\ ~disturbed => audience \subseteq heard

(* While no receiver is killed, the system process never sleeps on serving *)
(* with nobody left to signal it (the last reader finds the count back at  *)
(* BIGCOUNT - 1, np_multi_proc.cpp:239).                                   *)
WakeupOwed ==
  Sys \in asleep["serving"] /\ ~disturbed =>
    \E c \in audience :
      pc[Recv(c)] \in {"r_unlock", "r_wait", "r_read", "r_close", "r_last", "r_serve"}

(* "UNDO to adjust proc counter if process exits before explicitly calling *)
(* sem_close()" (shm.h:22): once the kernel has cleaned up after the       *)
(* killed receivers, semaphore [1] of clienting counts exactly the         *)
(* receivers signed up, and that of clisem the receivers alive.  The last  *)
(* reader and the sync loop depend on both.                                *)
Alive == {c \in Client : pc[Recv(c)] \notin {"r_none", "r_open", "r_exit"}}

CountersTrackProcesses ==
  (\A c \in Client : pc[Recv(c)] = "r_exit" => Settled(Recv(c))) =>
    /\ cnt["clienting"] = Base - Cardinality(SignedUp)
    /\ cnt["clisem"] = Base - Cardinality(Alive)

(* The sync loop: when the system process is about to report that it is    *)
(* done and no receiver came or went since it began to compare, every      *)
(* receiver has signed up for the next announcement.                       *)
EverybodyBack ==
  pc[Sys] = "s_reply" /\ ~moved =>
    \A c \in Client : undoCnt[Recv(c)]["clisem"] = 1 => undoCnt[Recv(c)]["clienting"] = 1

(* Shell c is between sem_wait and sem_signal of call_system.              *)
Calling(c) ==
  /\ pc[Shell(c)] \in {"h_write", "h_ring", "h_wait", "h_unlock"}
  /\ ~(pc[Shell(c)] = "h_write" /\ ~Awake(Shell(c)))

(* One request at a time: two shells are never between sem_wait and        *)
(* sem_signal of call_system, though shells end with semaphore operations  *)
(* to be undone and though tokens of call_system_end get lost.  Only an    *)
(* interrupted semop breaks it.                                            *)
OneCaller ==
  "eintr" \notin mishaps =>
    \A c, d \in Client : Calling(c) /\ Calling(d) => c = d

Clean == mishaps \subseteq {"drain"}

(* A token of call_system_end is there only for the shell about to wait    *)
(* for it: as long as nothing goes wrong, the loops that empty             *)
(* call_system_end (np_multi_proc.cpp:112, 267, 329) have nothing else to  *)
(* take than somebody's answer.                                            *)
NoStrayToken ==
  mishaps = {} /\ val["call_system_end"] > 0 =>
    \E c \in Client : pc[Shell(c)] = "h_wait" /\ val["call_system_end"] = 1

(* call_system is free, once, whenever no shell has a request in progress, *)
(* and taken while one has: however shells end, after exit, a hang-up or   *)
(* the exception of a failed stoi on what another's request has left in    *)
(* shm, before, while and after the kernel undoes what they did, and       *)
(* whatever the other shells do meanwhile.                                 *)
DoorReopens ==
  "eintr" \notin mishaps =>
    val["call_system"] = IF \E c \in Client : Calling(c) THEN 0 ELSE 1

(* A shell that is told its request is done finds its own answer in shm    *)
(* as long as it holds call_system.                                        *)
AnswerIsMine ==
  Clean => \A c \in Client :
    pc[Shell(c)] = "h_unlock" /\ Awake(Shell(c)) => shm = Reply(c)

(* What a receiver reads is the answer to the request in progress: no      *)
(* shell writes into shm while an announcement is being read.              *)
ReadsTheAnnouncement ==
  Clean => \A c \in Client :
    pc[Recv(c)] = "r_read" /\ Awake(Recv(c)) => shm = [req EXCEPT !.kind = "reply"]

(* Unless a token of call_system_end was drained away, a shell that has    *)
(* rung for the system process is answered.                                *)
Answered ==
  \A c \in Client :
    pc[Shell(c)] = "h_ring" ~>
      \/ pc[Shell(c)] = "h_unlock" /\ Awake(Shell(c))
      \/ "drain" \in mishaps

(* The shells whose request the system process has and has not answered,   *)
(* and how far it is: this is Bulletin's view of the processes.            *)
Unanswered == {c \in Client : \/ pc[Shell(c)] = "h_wait"
                              \/ pc[Shell(c)] = "h_unlock" /\ ~Awake(Shell(c))}

caller == IF Unanswered = {} THEN "nobody" ELSE CHOOSE c \in Unanswered : TRUE

Answering == \/ pc[Sys] \in {"s_sync", "s_compare", "s_reply"}
             \/ pc[Sys] = "s_idle" /\ val["servsem"] = 0
             \/ pc[Sys] = "s_poll" /\ ~Awake(Sys)

phase ==
  CASE Unanswered = {}                                                  -> "idle"
    [] Unanswered # {} /\ Answering                                     -> "done"
    [] Unanswered # {} /\ pc[Sys] \in {"s_start", "s_serving", "s_take", "s_unlock"}
                                                                        -> "announced"
    [] OTHER                                                            -> "asked"

Bus == INSTANCE Bulletin WITH Nobody <- "nobody"

(* While nobody leaves, the processes do what Bulletin promises: every     *)
(* receiver signed up reads the news of a request once, and the request is *)
(* answered when they have (np_multi_proc.cpp:110-133, 205-246, 320-326).  *)
ImplementsBulletin == Bus!Spec
=============================================================================

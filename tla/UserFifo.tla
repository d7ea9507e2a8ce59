------------------------------ MODULE UserFifo ------------------------------
(***************************************************************************)
(* The user pipes of np_multi_proc on the file system.                     *)
(*                                                                         *)
(* A pipe from one user to another is a FIFO named after the number that   *)
(* the system process gave it.  Two children of two shells that know       *)
(* nothing of each other open it: the writer removes what has its name,    *)
(* makes it anew and opens it, the reader just opens it, and each open     *)
(* blocks until the other side is there.  The reader's shell removes the   *)
(* file when the reader has ended.                                         *)
(*                                                                         *)
(* Numbers start again with every server, so files of an earlier one may   *)
(* be in the way.  UserTable has the numbers, Broadcast the requests; both *)
(* requests of a command are one step here.                                *)
(***************************************************************************)
EXTENDS Naturals, FiniteSets, Sequences

CONSTANTS
  User,
  Sends,       (* pairs of users, of whom one may pipe to the other        *)
  Leavers,     (* users who may leave                                      *)
  Stale,       (* numbers whose file is left over from an earlier server   *)
  MaxPipes     (* bound: user pipes                                        *)

Number == 1..MaxPipes

ASSUME UserFifoAssumption ==
  /\ MaxPipes \in Nat
  /\ Sends \subseteq User \X User /\ Leavers \subseteq User /\ Stale \subseteq Number

VARIABLES
  pipes,       (* user pipes made                                          *)
  from, to,    (* the users of each                                        *)
  waiting,     (* those in the user table: not received, users present     *)
  file,        (* what has the name of each: nothing, an old FIFO, the new *)
  sh,          (* what each shell does: idle, fork, record, wait, leaving, *)
               (* off                                                      *)
  job,         (* the command it runs                                      *)
  procs,       (* the children                                             *)
  (* history, read by no action: *)
  early,       (* pipes whose reader opened before the writer had made it  *)
  killed,      (* pipes one of whose ends was killed                       *)
  missed       (* pipes whose reader was reaped before it was recorded     *)

table == <<pipes, from, to, waiting>>
history == <<early, killed, missed>>
vars == <<table, file, sh, job, procs, history>>

Child == DOMAIN procs
NoJob == [out |-> 0, in |-> 0, fg |-> FALSE]

Writers(n) == {c \in Child : procs[c].out = n}
Readers(n) == {c \in Child : procs[c].in = n}
Over(c) == procs[c].at \in {"ended", "gone"}

Step(c, place) == procs' = [procs EXCEPT ![c].at = place]

-----------------------------------------------------------------------------
(* A shell and its commands.                                               *)

NewNumber == pipes + 1

Received(n) == waiting \ {n}

(* The command may receive a pipe, send one, or both; it is waited for if  *)
(* its output goes nowhere else.                                           *)
Request(u) ==
  \E in \in {0} \union {n \in waiting : to[n] = u} :
  \E v \in User \union {"nobody"} :
    LET left == Received(in) IN
    /\ sh[u] = "idle"
    /\ in # 0 \/ v # "nobody"
    /\ IF v = "nobody"
       THEN /\ waiting' = left
            /\ \E fg \in BOOLEAN : job' = [job EXCEPT ![u] = [out |-> 0, in |-> in, fg |-> fg]]
            /\ UNCHANGED <<pipes, from, to>>
       ELSE /\ pipes < MaxPipes
            /\ <<u, v>> \in Sends /\ sh[v] # "off"
            /\ \A n \in left : ~(from[n] = u /\ to[n] = v)
            /\ pipes' = pipes + 1
            /\ from' = [from EXCEPT ![NewNumber] = u]
            /\ to' = [to EXCEPT ![NewNumber] = v]
            /\ waiting' = left \union {NewNumber}
            /\ job' = [job EXCEPT ![u] = [out |-> NewNumber, in |-> in, fg |-> FALSE]]
    /\ sh' = [sh EXCEPT ![u] = "fork"]
    /\ UNCHANGED <<file, procs, history>>

Fork(u) ==
  /\ sh[u] = "fork"
  /\ procs' = Append(procs,
       [user |-> u, out |-> job[u].out, in |-> job[u].in, recorded |-> FALSE,
        w |-> "none", r |-> "none",
        at |-> IF job[u].out # 0 THEN "unlink" ELSE "openr"])
  /\ sh' = [sh EXCEPT ![u] = "record"]
  /\ UNCHANGED <<table, file, job, history>>

Last(u) == CHOOSE c \in Child : /\ procs[c].user = u
                                /\ \A d \in Child : procs[d].user = u => d <= c

(* Mutant: the name is not needed any more once the reader is there.       *)
Not_insert_process(u) ==
  /\ sh[u] = "record"
  /\ procs' = [procs EXCEPT ![Last(u)].recorded = TRUE]
  /\ file' = [n \in Number |-> IF n = job[u].in THEN "none" ELSE file[n]]
  /\ sh' = [sh EXCEPT ![u] = IF job[u].fg THEN "wait" ELSE "idle"]
  /\ job' = [job EXCEPT ![u] = NoJob]
  /\ UNCHANGED <<table, history>>

insert_process(u) ==
  /\ sh[u] = "record"
  /\ procs' = [procs EXCEPT ![Last(u)].recorded = TRUE]
  /\ sh' = [sh EXCEPT ![u] = IF job[u].fg THEN "wait" ELSE "idle"]
  /\ job' = [job EXCEPT ![u] = NoJob]
  /\ UNCHANGED <<table, file, history>>

(* close_process removes the files that recorded children have read.       *)
(* Mutant: the file is left to whoever comes next.                         *)
Not_Unlinked(C) == file
Unlinked(C) ==
  [n \in Number |->
     IF \E c \in C : procs[c].recorded /\ procs[c].in = n THEN "none" ELSE file[n]]

Wait(u) ==
  /\ sh[u] = "wait"
  /\ Over(Last(u))
  /\ Step(Last(u), "gone")
  /\ file' = Unlinked({Last(u)})
  /\ sh' = [sh EXCEPT ![u] = "idle"]
  /\ UNCHANGED <<table, job, history>>

child_handler(u) ==
  LET Z == {c \in Child : procs[c].user = u /\ procs[c].at = "ended"} IN
  /\ sh[u] # "off"
  /\ Z # {}
  /\ procs' = [c \in Child |-> IF c \in Z THEN [procs[c] EXCEPT !.at = "gone"] ELSE procs[c]]
  /\ file' = Unlinked(Z)
  /\ missed' = missed \union {procs[c].in : c \in {d \in Z : ~procs[d].recorded}}
  /\ UNCHANGED <<table, sh, job, early, killed>>

(* exit: close_all_process kills what is recorded.                         *)
Exit(u) ==
  LET K == {c \in Child : procs[c].user = u} IN
  /\ u \in Leavers
  /\ sh[u] = "idle"
  /\ procs' = [c \in Child |-> IF c \in K THEN [procs[c] EXCEPT !.at = "gone"] ELSE procs[c]]
  /\ file' = Unlinked(K)
  /\ killed' = killed \union UNION {{procs[c].in, procs[c].out} : c \in {d \in K : ~Over(d)}}
  /\ sh' = [sh EXCEPT ![u] = "leaving"]
  /\ UNCHANGED <<table, job, early, missed>>

(* At the end of the client's input nobody is killed.                      *)
HangUp(u) ==
  /\ u \in Leavers
  /\ sh[u] = "idle"
  /\ sh' = [sh EXCEPT ![u] = "leaving"]
  /\ UNCHANGED <<table, file, job, procs, history>>

(* The system process hears "left" and clears the user's pipes.            *)
Left(u) ==
  /\ sh[u] = "leaving"
  /\ waiting' = {n \in waiting : u \notin {from[n], to[n]}}
  /\ sh' = [sh EXCEPT ![u] = "off"]
  /\ UNCHANGED <<pipes, from, to, file, job, procs, history>>

-----------------------------------------------------------------------------
(* A child, before it becomes the command.                                 *)

Unlink(c) ==
  /\ procs[c].at = "unlink"
  /\ file' = [file EXCEPT ![procs[c].out] = "none"]
  /\ Step(c, "mknod")
  /\ UNCHANGED <<table, sh, job, history>>

Mknod(c) ==
  /\ procs[c].at = "mknod"
  /\ file' = [file EXCEPT ![procs[c].out] = "new"]
  /\ Step(c, "openw")
  /\ UNCHANGED <<table, sh, job, history>>

AfterOut(c) == IF procs[c].in # 0 THEN "openr" ELSE "run"

(* FIFO_fd takes the -1 of a failed open for a descriptor: the command's   *)
(* output goes to the client, or its input comes from there.               *)
OpenOut(c) ==
  LET f == file[procs[c].out] IN
  /\ procs[c].at = "openw"
  /\ procs' = [procs EXCEPT ![c].w = IF f = "none" THEN "client" ELSE f,
                            ![c].at = IF f = "none" THEN AfterOut(c) ELSE "blockw"]
  /\ UNCHANGED <<table, file, sh, job, history>>

OpenIn(c) ==
  LET n == procs[c].in IN
  /\ procs[c].at = "openr"
  /\ procs' = [procs EXCEPT ![c].r = IF file[n] = "none" THEN "client" ELSE file[n],
                            ![c].at = IF file[n] = "none" THEN "run" ELSE "blockr"]
  /\ early' = IF \A d \in Writers(n) : procs[d].at \in {"unlink", "mknod"}
              THEN early \union {n} ELSE early
  /\ UNCHANGED <<table, file, sh, job, killed, missed>>

(* Both opens return when they are for the same FIFO.                      *)
Meet(c, d) ==
  /\ procs[c].at = "blockw" /\ procs[d].at = "blockr"
  /\ procs[c].out = procs[d].in /\ procs[c].w = procs[d].r
  /\ procs' = [procs EXCEPT ![c].at = AfterOut(c), ![d].at = "run"]
  /\ UNCHANGED <<table, file, sh, job, history>>

(* A command may end when it likes.                                        *)
Ends(c) ==
  /\ procs[c].at = "run"
  /\ Step(c, "ended")
  /\ UNCHANGED <<table, file, sh, job, history>>

-----------------------------------------------------------------------------
Init ==
  /\ pipes = 0 /\ waiting = {}
  /\ from = [n \in Number |-> "nobody"] /\ to = [n \in Number |-> "nobody"]
  /\ file = [n \in Number |-> IF n \in Stale THEN "old" ELSE "none"]
  /\ sh = [u \in User |-> "idle"] /\ job = [u \in User |-> NoJob]
  /\ procs = <<>>
  /\ early = {} /\ killed = {} /\ missed = {}

ShellNext(u) == Fork(u) \/ insert_process(u) \/ Wait(u) \/ Left(u)
UserNext(u) == Request(u) \/ Exit(u) \/ HangUp(u)
ChildNext(c) == Unlink(c) \/ Mknod(c) \/ OpenOut(c) \/ OpenIn(c) \/ \E d \in Child : Meet(c, d)

Next ==
  \/ \E u \in User : UserNext(u) \/ ShellNext(u) \/ child_handler(u)
  \/ \E c \in Child : ChildNext(c) \/ Ends(c)

Spec == Init /\ [][Next]_vars

-----------------------------------------------------------------------------
(* Properties.                                                             *)

TypeOK ==
  /\ waiting \subseteq 1..pipes
  /\ file \in [Number -> {"none", "old", "new"}]
  /\ sh \in [User -> {"idle", "fork", "record", "wait", "leaving", "off"}]
  /\ \A c \in Child : /\ procs[c].at \in {"unlink", "mknod", "openw", "blockw", "openr",
                                          "blockr", "run", "ended", "gone"}
                      /\ {procs[c].in, procs[c].out} \subseteq 0..pipes

(* Every pipe has at most one process at each end, and only the reader it  *)
(* was made for: what a user sent is read by one command of the receiver.  *)
OneAtEachEnd ==
  \A n \in 1..pipes :
    /\ \A c, d \in Writers(n) : c = d
    /\ \A c, d \in Readers(n) : c = d
    /\ \A c \in Readers(n) : procs[c].user = to[n]

(* The two sides wait for each other, and not one of them for nobody: a    *)
(* reader that is blocked in open has a writer that has the same FIFO open *)
(* or is about to open it.                                                 *)
ReaderHasWriter ==
  \A n \in (1..pipes) \ (early \union killed) :
    \A d \in Readers(n) : procs[d].at = "blockr" =>
      \E c \in Writers(n) : \/ procs[c].at = "openw" /\ file[n] = procs[d].r
                            \/ procs[c].at = "blockw" /\ procs[c].w = procs[d].r

(* What was meant for a user pipe neither goes to the client nor is read   *)
(* from it.                                                                *)
NoClientInstead ==
  \A c \in Child :
    /\ procs[c].w = "client" => procs[c].out \in early \union killed
    /\ procs[c].r = "client" => procs[c].in \in early \union killed

(* A pipe joins the two commands it was made for and nobody else, from     *)
(* the first open to the end (np_multi_proc.cpp:534-584, process.cpp:31).  *)
EndsMeet == TypeOK /\ OneAtEachEnd /\ ReaderHasWriter /\ NoClientInstead

(* The file of a pipe is there from when its two ends have met, and it is  *)
(* gone when the shell of the reader has reaped it (process.cpp:31), so    *)
(* that it is not in the way of the next server's pipe of that number.     *)
(* The file of a reader that outlives its shell stays: after the end of    *)
(* the client's input nobody reaps it (np_multi_proc.cpp:287, 328).        *)
(* Excepted are pipes with an early reader or a killed end, whose opens    *)
(* may be for two files or none, and readers reaped before they were       *)
(* recorded, whose file nobody knows of.                                   *)
FileRemoved ==
  \A n \in (1..pipes) \ (early \union killed \union missed) : \A d \in Readers(n) :
    /\ procs[d].at = "gone" => file[n] = "none"
    /\ procs[d].at \in {"run", "ended"} => file[n] = "new"
=============================================================================

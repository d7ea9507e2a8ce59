----------------------------- MODULE LineShell -----------------------------
(***************************************************************************)
(* How a shell runs a line: the pipes between its commands, the ring of    *)
(* numbered pipes, and who holds which end of what.                        *)
(*                                                                         *)
(* A command that reads sees the end of its input when no process has the  *)
(* write end any more, and a shell waits for the last command of an        *)
(* instruction: one forgotten descriptor, in the shell or in a child that  *)
(* inherited it, and the prompt never comes.                               *)
(*                                                                         *)
(* The three shells fetch cells as in Command.  Forking, counting and      *)
(* recording are one step here; ProcTable takes them apart.  A pipe holds  *)
(* all a command writes.  np_single_proc has one user here, who may pipe   *)
(* to himself; the pipes of np_multi_proc's users are in UserFifo.         *)
(***************************************************************************)
EXTENDS Command, Integers

CONSTANTS
  max_store_num,  (* 1500: entries in the ring of numbered pipes           *)
  Sources,        (* words that are commands which read nothing; the other *)
                  (* commands end when their input does                    *)
  MaxPipes        (* bound: pipes made                                     *)

ASSUME LineShellAssumption ==
  /\ max_store_num \in Nat \ {0}
  /\ Sources \subseteq Word
  /\ MaxPipes \in Nat

VARIABLES
  job,            (* what the loop does with a command: none (fetch it),   *)
                  (* receive, send (its user pipes), fork, wait            *)
  at,             (* the cell of the command                               *)
  instruction_count,
  fd_in, fd_out,  (* pipes, 0 for NULL                                     *)
  number,         (* is its output a numbered pipe                         *)
  in_operator, out_operator,
  box,            (* the pipe in each entry of the ring, 0 if not valid    *)
  user_pipe,      (* the user's pipe to himself, 0 if not valid            *)
  wr, rd,         (* who holds the two ends of each pipe                   *)
  pipes,          (* pipes made                                            *)
  procs,          (* the children, in the order they were forked           *)
  (* history, read by no action: *)
  mishaps,        (* what went wrong that the code allows                  *)
  lost            (* the pipes made for user pipes that were refused       *)

ends == <<wr, rd, pipes>>
tables == <<box, user_pipe>>
command == <<at, instruction_count, fd_in, fd_out, number, in_operator, out_operator>>
shellVars == <<job, command, tables, ends, procs, mishaps, lost>>
allVars == <<vars, shellVars>>

Shell == 0
Pipe == 1..MaxPipes
Slot == 0..(max_store_num - 1)
DevNull == -1

(* One process closes an end; closing NULL does nothing.                   *)
Closed(end, p, who) == IF p \in Pipe THEN [end EXCEPT ![p] = @ \ {who}] ELSE end

-----------------------------------------------------------------------------
(* pipe_box.                                                               *)

Entry(count, add) == ((count % max_store_num) + add) % max_store_num

Boxed == {box[s] : s \in Slot} \ {0}

get_new_fd ==
  /\ pipes < MaxPipes
  /\ pipes' = pipes + 1
  /\ wr' = [wr EXCEPT ![pipes + 1] = {Shell}]
  /\ rd' = [rd EXCEPT ![pipes + 1] = {Shell}]

(* What a child keeps of the write ends it inherits: nothing in the ring,  *)
(* its own entry excepted.                                                 *)
close_all_wr(keep) == {p \in Pipe : Shell \in wr[p]} \ (Boxed \ keep)

(* The pipe whose read end goes with fd_out: if the write end was replaced *)
(* by /dev/null, it is that of the pipe made for it, which is the last.    *)
ReadEnd == IF fd_out = DevNull THEN pipes ELSE fd_out

close_all_rd == {p \in Pipe : Shell \in rd[p]} \ (Boxed \union {user_pipe})

-----------------------------------------------------------------------------
(* The display loop.                                                       *)

ShellReads ==
  /\ ReadLine
  /\ fd_in' = 0 /\ fd_out' = 0
  /\ UNCHANGED <<job, at, instruction_count, number, in_operator, out_operator>>
  /\ UNCHANGED <<tables, ends, procs, mishaps, lost>>

ShellPrompts ==
  /\ job = "none"
  /\ LineDone
  /\ UNCHANGED shellVars

NoInstruction ==
  /\ job = "none"
  /\ FetchEvent
  /\ Fetched = <<>>
  /\ fd_in' = ReadEnd /\ fd_out' = 0
  /\ UNCHANGED <<job, at, instruction_count, number, in_operator, out_operator>>
  /\ UNCHANGED <<tables, ends, procs, mishaps, lost>>

(* A command reads what the last one wrote, or else what was sent to its   *)
(* instruction; the shell gives up the write end then.                     *)
GiveUp(p) == wr' = Closed(wr, p, Shell)

clean(s) == [box EXCEPT ![s] = 0]

GetEvent ==
  LET sent == box[Entry(instrusion_count, 0)] IN
  /\ job = "none"
  /\ FetchEvent
  /\ Fetched # <<>>
  /\ instruction_count' = instrusion_count
  /\ at' = cmd_now'
  /\ IF fd_out # 0
     THEN fd_in' = ReadEnd /\ UNCHANGED <<box, wr>>
     ELSE /\ fd_in' = sent
          /\ box' = clean(Entry(instrusion_count, 0))
          /\ GiveUp(sent)
  /\ fd_out' = 0 /\ number' = -1
  /\ in_operator' = FALSE /\ out_operator' = FALSE
  /\ mishaps' = mishaps \union IF builtin(Fetched) /\ fd_in' # 0 THEN {"unread"} ELSE {}
  /\ UNCHANGED <<job, user_pipe, rd, pipes, procs, lost>>

SkipRest ==
  /\ Skip
  /\ UNCHANGED shellVars

(* "!2" is a numbered pipe in np_simple only.                              *)
Numbered(t) == t.n > 0 /\ (t.is = "|" \/ (t.is = "!" /\ program = "simple"))

(* Mutant: every sender makes a pipe of its own.                           *)
Not_NumberedPipe(t) ==
  /\ number' = t.n
  /\ get_new_fd /\ fd_out' = pipes'
  /\ box' = [box EXCEPT ![Entry(instruction_count, t.n)] = pipes']
  /\ UNCHANGED <<in_operator, out_operator>>

NumberedPipe(t) ==
  LET s == Entry(instruction_count, t.n) IN
  /\ number' = t.n
  /\ IF box[s] # 0
     THEN fd_out' = box[s] /\ UNCHANGED <<box, ends>>
     ELSE get_new_fd /\ fd_out' = pipes' /\ box' = [box EXCEPT ![s] = pipes']
  /\ UNCHANGED <<in_operator, out_operator>>

PlainPipe ==
  /\ get_new_fd
  /\ fd_out' = pipes'
  /\ UNCHANGED <<number, in_operator, out_operator, box>>

UserPipe(t) ==
  /\ in_operator' = (in_operator \/ t.is = "<")
  /\ out_operator' = (out_operator \/ t.is = ">")
  /\ UNCHANGED <<fd_out, number, box, ends>>

NoPipe == UNCHANGED <<fd_out, number, in_operator, out_operator, box, ends>>

(* np_simple turns back here if it runs the command itself; a pipe it made *)
(* is then the next command's, with the write end open in the shell.       *)
GetOperator ==
  /\ FetchOperator
  /\ IF Fetched = <<>> THEN NoPipe
     ELSE LET t == Head(Fetched) IN
       CASE Numbered(t) -> NumberedPipe(t)
         [] t.is \in {"|", "!"} /\ ~Numbered(t) -> PlainPipe
         [] t.is \in {">", "<"} /\ t.n > 0 -> UserPipe(t)
         [] OTHER -> NoPipe
  /\ job' = IF ~LastOperator(Fetched) \/ builtin(cmds[at]) THEN "none"
            ELSE IF in_operator' THEN "receive" ELSE IF out_operator' THEN "send" ELSE "fork"
  /\ mishaps' = mishaps
       \union (IF builtin(cmds[at]) /\ fd_out' # 0 /\ number' = -1 THEN {"fed"} ELSE {})
       \union (IF Fetched # <<>> /\ Head(Fetched).is = "!" /\ ~Numbered(Head(Fetched))
               THEN {"unread"} ELSE {})
  /\ UNCHANGED <<at, instruction_count, fd_in, user_pipe, procs, lost>>

(* A user pipe takes the place of what the command read or wrote so far.   *)
(* If it is refused, a pipe is made all the same and /dev/null put in the  *)
(* place of the end in question; the two ends of the pipe stay open.       *)
Refuse == lost' = lost \union {pipes'}

ReceivePipe ==
  /\ job = "receive"
  /\ IF user_pipe # 0
     THEN fd_in' = user_pipe /\ user_pipe' = 0 /\ UNCHANGED <<ends, lost>>
     ELSE get_new_fd /\ fd_in' = DevNull /\ Refuse /\ UNCHANGED user_pipe
  /\ job' = IF out_operator THEN "send" ELSE "fork"
  /\ mishaps' = mishaps \union IF fd_in # 0 THEN {"both"} ELSE {}
  /\ UNCHANGED <<vars, at, instruction_count, fd_out, number, in_operator, out_operator>>
  /\ UNCHANGED <<box, procs>>

SendPipe ==
  /\ job = "send"
  /\ get_new_fd
  /\ IF user_pipe = 0
     THEN fd_out' = pipes' /\ user_pipe' = pipes' /\ UNCHANGED lost
     ELSE fd_out' = DevNull /\ Refuse /\ UNCHANGED user_pipe
  /\ job' = "fork"
  /\ mishaps' = mishaps \union IF fd_out # 0 THEN {"both"} ELSE {}
  /\ UNCHANGED <<vars, at, instruction_count, fd_in, number, in_operator, out_operator>>
  /\ UNCHANGED <<box, procs>>

(* Mutant: the parent keeps the write end of a plain pipe.                 *)
Not_ParentCloses == wr
ParentCloses == IF number = -1 THEN Closed(wr, fd_out, Shell) ELSE wr

Fork ==
  LET c == Len(procs) + 1
      W == close_all_wr(IF number = -1 THEN {} ELSE {box[Entry(instruction_count, number)]})
      R == close_all_rd \ {ReadEnd}
  IN  /\ job = "fork"
      /\ wr' = [p \in Pipe |-> ParentCloses[p] \union (IF p \in W THEN {c} ELSE {})]
      /\ rd' = [p \in Pipe |-> rd[p] \union (IF p \in R THEN {c} ELSE {})]
      /\ procs' = Append(procs,
           [at    |-> at,
            fd_in |-> fd_in,                             (* what is recorded   *)
            in    |-> IF fd_in \in R \union {DevNull} THEN fd_in ELSE 0,
            out   |-> IF fd_out \in W THEN fd_out ELSE 0,
            state |-> "runs"])
      /\ job' = IF fd_out = 0 THEN "wait" ELSE "none"
      /\ UNCHANGED <<vars, command, tables, pipes, mishaps, lost>>

(* The handler may have reaped the child; its input is closed again then.  *)
Wait ==
  LET c == Len(procs) IN
  /\ job = "wait"
  /\ procs[c].state # "runs"
  /\ procs' = [procs EXCEPT ![c].state = "gone"]
  /\ rd' = Closed(rd, procs[c].fd_in, Shell)
  /\ job' = "none"
  /\ UNCHANGED <<vars, command, tables, wr, pipes, mishaps, lost>>

ShellNext ==
  \/ ShellPrompts \/ NoInstruction \/ GetEvent \/ SkipRest \/ GetOperator
  \/ ReceivePipe \/ SendPipe \/ Fork \/ Wait

-----------------------------------------------------------------------------
(* The children, and the handler.                                          *)

Name(c) == Head(cmds[procs[c].at]).is

(* A command that got no pipe reads what the client types, but one whose   *)
(* name is an operator is unknown and only reads a pipe to its end.        *)
AsksClient(c) == procs[c].in = 0 /\ Name(c) \notin Sources \union Operator

CanEnd(c) ==
  \/ Name(c) \in Sources
  \/ procs[c].in = DevNull
  \/ procs[c].in \in Pipe /\ wr[procs[c].in] = {}
  \/ procs[c].in = 0 /\ ~AsksClient(c)

ChildEnds(c) ==
  /\ procs[c].state = "runs" /\ CanEnd(c)
  /\ procs' = [procs EXCEPT ![c].state = "zombie"]
  /\ wr' = [p \in Pipe |-> wr[p] \ {c}]
  /\ rd' = [p \in Pipe |-> rd[p] \ {c}]
  /\ UNCHANGED <<vars, job, command, tables, pipes, mishaps, lost>>

(* Mutant: the handler only waits for the children.                        *)
Not_InputsOf(Z) == {}
InputsOf(Z) == {procs[c].fd_in : c \in Z}

child_handler ==
  LET Z == {c \in DOMAIN procs : procs[c].state = "zombie"} IN
  /\ Z # {}
  /\ procs' = [c \in DOMAIN procs |->
                IF c \in Z THEN [procs[c] EXCEPT !.state = "gone"] ELSE procs[c]]
  /\ rd' = [p \in Pipe |-> IF p \in InputsOf(Z) THEN rd[p] \ {Shell} ELSE rd[p]]
  /\ UNCHANGED <<vars, job, command, tables, wr, pipes, mishaps, lost>>

-----------------------------------------------------------------------------
ShellInit ==
  /\ Init
  /\ job = "none"
  /\ at = 0 /\ instruction_count = 0 /\ fd_in = 0 /\ fd_out = 0 /\ number = -1
  /\ in_operator = FALSE /\ out_operator = FALSE
  /\ box = [s \in Slot |-> 0] /\ user_pipe = 0
  /\ wr = [p \in Pipe |-> {}] /\ rd = [p \in Pipe |-> {}] /\ pipes = 0
  /\ procs = <<>>
  /\ mishaps = {} /\ lost = {}

SystemNext == ShellReads \/ ShellNext \/ child_handler \/ \E c \in DOMAIN procs : ChildEnds(c)

ShellSpec == ShellInit /\ [][SystemNext]_allVars

(* The shell and the handler are scheduled; a command that can end does.   *)
Fairness ==
  /\ WF_allVars(ShellNext)
  /\ WF_allVars(child_handler)
  /\ \A c \in 1..(2 * MaxPipes) : WF_allVars(c \in DOMAIN procs /\ ChildEnds(c))

LiveSpec == ShellSpec /\ Fairness

-----------------------------------------------------------------------------
(* Properties.                                                             *)

ShellTypeOK ==
  /\ job \in {"none", "receive", "send", "fork", "wait"}
  /\ {fd_in, fd_out} \subseteq Pipe \union {0, DevNull}
  /\ box \in [Slot -> 0..pipes] /\ user_pipe \in 0..pipes
  /\ {wr, rd} \subseteq [Pipe -> SUBSET (0..Len(procs))]
  /\ \A c \in DOMAIN procs : procs[c].in \in {0, procs[c].fd_in}
  /\ \A p \in Pipe : p > pipes => wr[p] = {} /\ rd[p] = {}

(* What the users mean by a pipe: "|" leads to the next command of the     *)
(* line, "|2" to the first command of the second instruction from here.    *)
InstructionOf(i) == Cardinality({j \in 2..(i - 1) : cmds[j] = <<>> /\ cmds[j - 1] # <<>>})
FirstOne(i) == i = 1 \/ cmds[i - 1] = <<>>
PipeOf(i) ==
  LET ops == {j \in (i + 1)..Len(cmds) : cmds[j] = <<>> \/ Head(cmds[j]).is \in {"|", "!"}} IN
  CHOOSE j \in ops : \A k \in ops : j <= k
Feeds(i, j) ==
  LET op == cmds[PipeOf(i)] IN
  /\ op # <<>>
  /\ IF Head(op).n = 0
     THEN j = PipeOf(i) + 1
     ELSE FirstOne(j) /\ InstructionOf(j) = InstructionOf(i) + Head(op).n
ErrorPipe(i) == LET op == cmds[PipeOf(i)] IN op # <<>> /\ Head(op).is = "!"
UserPiped(i) == \E j \in i..PipeOf(i) : cmds[j] # <<>> /\ Head(cmds[j]).is \in {">", "<"}

JoinedBy(c, d) == procs[c].out # 0 /\ procs[c].out = procs[d].in

(* A number larger than the ring leads to an entry that is another's.      *)
TooFar(i) == LET op == cmds[PipeOf(i)] IN op # <<>> /\ Head(op).n > max_store_num

(* A command reads what another writes if and only if the line says so,    *)
(* through the whole ring of numbered pipes and its reuse.  User pipes are *)
(* left to SingleServer.  "!2" is of the kind NUMPIPE for the parser       *)
(* (command.cpp:12), but np_single_proc (255) and np_multi_proc (430) make *)
(* a pipe for it that has no number; only np_simple keeps the promise.     *)
Joined ==
  AsTyped =>
    \A c, d \in DOMAIN procs :
      LET i == procs[c].at j == procs[d].at IN
      (~UserPiped(i) /\ ~UserPiped(j) /\ (ErrorPipe(i) => program = "simple") /\ ~TooFar(i))
        => (JoinedBy(c, d) <=> Feeds(i, j))

(* The write end of a pipe that a command reads is held by commands that   *)
(* write to it and by nobody else: not by the shell, nor by the reader,    *)
(* nor by a bystander forked in between.  So the reader sees the end.      *)
EndInSight ==
  mishaps \intersect {"fed", "both"} = {} =>
    \A c \in DOMAIN procs : procs[c].state = "runs" /\ procs[c].in \in Pipe
      => wr[procs[c].in] \subseteq {d \in DOMAIN procs : procs[d].out = procs[c].in}

(* As long as commands run, one of them can end or waits for the client:   *)
(* through pipes, numbered pipes and the user's own pipe no command waits  *)
(* for itself by way of others.                                            *)
SomeoneEnds ==
  (mishaps \intersect {"fed", "both"} = {} /\ \E c \in DOMAIN procs : procs[c].state = "runs") =>
    \E c \in DOMAIN procs : procs[c].state = "runs" /\ (CanEnd(c) \/ AsksClient(c))

(* When all commands have ended the shell holds the ends of the pipes that *)
(* wait for a reader, both ends of every pipe made for a user pipe that    *)
(* was refused, which stay open for ever (np_single_proc.cpp:277, 299),    *)
(* and no others.                                                          *)
NothingKept ==
  (pc = "prompt" /\ mishaps = {} /\ \A c \in DOMAIN procs : procs[c].state = "gone") =>
    /\ {p \in Pipe : Shell \in wr[p]} = Boxed \union lost
    /\ {p \in Pipe : Shell \in rd[p]} = Boxed \union lost \union ({user_pipe} \ {0})

(* The ends of the pipes are where they have to be for every reader to see *)
(* the end of its input sooner or later, and nowhere else but for those of *)
(* refused user pipes.                                                     *)
EndsHeld == ShellTypeOK /\ EndInSight /\ SomeoneEnds /\ NothingKept

(* The prompt comes back, unless a command reads what the client types, or *)
(* a built-in command of np_simple fed a pipe, or a user pipe displaced    *)
(* another one.                                                            *)
ReadsClient ==
  \E c \in DOMAIN procs : procs[c].state = "runs" /\ AsksClient(c)

PromptReturns ==
  pc # "prompt" ~> \/ pc = "prompt"
                   \/ ReadsClient
                   \/ mishaps \intersect {"fed", "both"} # {}
=============================================================================

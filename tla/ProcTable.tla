----------------------------- MODULE ProcTable -----------------------------
(***************************************************************************)
(* The children of a shell: np_simple and np_multi_proc have one shell per *)
(* client, np_single_proc one for all, and the three run their commands in *)
(* the same way.                                                           *)
(*                                                                         *)
(* The shell forks a child for every command, counts it in fork_count,     *)
(* records it in its process table, and waits for it if the output goes to *)
(* the client.  A child that ends raises SIGCHLD, whose handler may run    *)
(* between any two steps of the shell, and the handler and the shell's own *)
(* waitpid compete for the child.                                          *)
(*                                                                         *)
(* Children are numbered in the order they are forked.  That the system    *)
(* gives a process number out again is not modelled.                       *)
(***************************************************************************)
EXTENDS Integers, FiniteSets

CONSTANTS
  max_fork_num,  (* 400                                                    *)
  MaxForks       (* bound: forks in a run                                  *)

ASSUME ProcTableAssumption == max_fork_num \in Nat /\ MaxForks \in Nat

VARIABLES
  pc,          (* where the shell is                                       *)
  fork_count,
  forks,       (* children forked so far: the last one is the current one  *)
  kind,        (* what each child is                                       *)
  reader,      (* the child that reads what a child writes, 0 for none yet *)
  state,       (* none, runs, zombie (ended, nobody has waited), gone      *)
  processes,   (* children recorded in the process table                   *)
  held,        (* children whose input, the read end of a pipe, the shell  *)
               (* has open as well                                         *)
  sigchld,     (* a SIGCHLD is pending                                     *)
  (* history, read by no action: *)
  stolen,      (* children the shell waits for that the handler reaped     *)
  early        (* children the handler reaped before they were recorded    *)

history == <<stolen, early>>
vars == <<pc, fork_count, forks, kind, reader, state, processes, held, sigchld, history>>

Child == 1..MaxForks

(* waited   its output goes to the client or to a file: the shell waits;   *)
(* brief    it writes into a pipe, as little as fits into it;              *)
(* long     it writes more than fits into its pipe, which the next command *)
(*          reads, or one of a later line (a numbered pipe), or nobody;    *)
(* outside  its end is up to others: it reads what the client types, or is *)
(*          blocked in the open of a FIFO until another user's command     *)
(*          opens it.                                                      *)
Kind == {"waited", "brief", "long", "outside"}

Running == {j \in Child : state[j] = "runs"}

Unreaped == {j \in Child : state[j] \in {"runs", "zombie"}}

(* A long child cannot end before its pipe is read: by nobody yet, or by a *)
(* reader that is stuck with its own pipe.                                 *)
Stuck(j) ==
  \E S \in SUBSET Running :
    j \in S /\ \A m \in S : kind[m] = "long" /\ reader[m] \in S \union {0}

(* Children that need nobody but each other: those that write to them will *)
(* end, and those they write to are there to read.  (Who writes on when    *)
(* its reader has ended may have to wait for ever: others may still have   *)
(* the read end open.)                                                     *)
Writers(m) == {w \in Running : reader[w] = m}

GetsOn(j) ==
  \E S \in SUBSET Running :
    /\ j \in S
    /\ \A m \in S : /\ kind[m] \in {"brief", "long"}
                    /\ kind[m] = "long" => reader[m] \in S
                    /\ Writers(m) \subseteq S

(* close_process finds what is recorded; it works on a copy of the entry,  *)
(* which stays valid.                                                      *)
close_process(J) == held' = held \ (J \intersect processes)

-----------------------------------------------------------------------------
(* The shell.                                                              *)

Command ==
  /\ pc = "prompt"
  /\ pc' = "limit"
  /\ UNCHANGED <<fork_count, forks, kind, reader, state, processes, held, sigchld, history>>

(* Mutants of the code, used by no action, are named Not_<definition>.     *)
(* This one is off by one.                                                 *)
Not_BelowLimit == fork_count <= max_fork_num + 1

BelowLimit == fork_count <= max_fork_num

(* What the new child reads: the pipe of the command before it, or the     *)
(* numbered pipe into which several have written.                          *)
Unread == {j \in Running : kind[j] # "waited" /\ reader[j] = 0}

Fork ==
  /\ pc = "limit"
  /\ BelowLimit
  /\ forks < MaxForks
  /\ forks' = forks + 1
  /\ state' = [state EXCEPT ![forks'] = "runs"]
  /\ \E k \in Kind : kind' = [kind EXCEPT ![forks'] = k]
  /\ \E R \in SUBSET Unread :
       /\ reader' = [j \in Child |-> IF j \in R THEN forks' ELSE reader[j]]
       /\ held' \in {held \union {forks'}} \union IF R = {} THEN {held} ELSE {}
  /\ pc' = "forked"
  /\ UNCHANGED <<fork_count, processes, sigchld, history>>

Count ==
  /\ pc = "forked"
  /\ fork_count' = fork_count + 1
  /\ pc' = "counted"
  /\ UNCHANGED <<forks, kind, reader, state, processes, held, sigchld, history>>

(* The shell waits, or goes on with the next command of the line, or with  *)
(* the next line.                                                          *)
insert_process ==
  /\ pc = "counted"
  /\ processes' = processes \union {forks}
  /\ pc' \in IF kind[forks] = "waited" THEN {"waiting"} ELSE {"prompt", "limit"}
  /\ UNCHANGED <<fork_count, forks, kind, reader, state, held, sigchld, history>>

(* waitpid reaps the child, or fails because the handler has done so.      *)
Waitpid ==
  /\ pc = "waiting"
  /\ \/ state[forks] = "zombie" /\ state' = [state EXCEPT ![forks] = "gone"]
     \/ state[forks] = "gone" /\ UNCHANGED state
  /\ pc' = "reaped"
  /\ UNCHANGED <<fork_count, forks, kind, reader, processes, held, sigchld, history>>

(* Its result is not looked at.                                            *)
Uncount ==
  /\ pc = "reaped"
  /\ fork_count' = fork_count - 1
  /\ pc' = "closing"
  /\ UNCHANGED <<forks, kind, reader, state, processes, held, sigchld, history>>

(* Mutant: the closing is left to the handler.                             *)
Not_Close ==
  /\ pc = "closing"
  /\ pc' = "prompt"
  /\ UNCHANGED <<fork_count, forks, kind, reader, state, processes, held, sigchld, history>>

Close ==
  /\ pc = "closing"
  /\ close_process({forks})
  /\ pc' = "prompt"
  /\ UNCHANGED <<fork_count, forks, kind, reader, state, processes, sigchld, history>>

ShellNext ==
  Fork \/ Count \/ insert_process \/ Waitpid \/ Uncount \/ Close

-----------------------------------------------------------------------------
(* The children and the handler.                                           *)

ChildEnds(j) ==
  /\ state[j] = "runs"
  /\ ~Stuck(j)
  /\ state' = [state EXCEPT ![j] = "zombie"]
  /\ sigchld' = TRUE
  /\ UNCHANGED <<pc, fork_count, forks, kind, reader, processes, held, history>>

(* Mutants: one call of waitpid per signal; no count.                      *)
Not_Reaped_one == {j \in Child : state[j] = "zombie" /\ \A i \in 1..j - 1 : state[i] # "zombie"}
Not_Uncounted == 0

(* The handler reaps whatever has ended, as several signals may come as    *)
(* one.                                                                    *)
Reaped == {j \in Child : state[j] = "zombie"}
Uncounted == Cardinality(Reaped)

child_handler ==
  /\ sigchld
  /\ sigchld' = FALSE
  /\ state' = [j \in Child |-> IF j \in Reaped THEN "gone" ELSE state[j]]
  /\ fork_count' = fork_count - Uncounted
  /\ close_process(Reaped)
  /\ stolen' = stolen \union {j \in Reaped : kind[j] = "waited"}
  /\ early' = early \union (Reaped \ processes)
  /\ UNCHANGED <<pc, forks, kind, reader, processes>>

Init ==
  /\ pc = "prompt"
  /\ fork_count = 0 /\ forks = 0
  /\ kind = [j \in Child |-> "brief"]
  /\ reader = [j \in Child |-> 0]
  /\ state = [j \in Child |-> "none"]
  /\ processes = {} /\ held = {}
  /\ sigchld = FALSE
  /\ stolen = {} /\ early = {}

Next == Command \/ ShellNext \/ child_handler \/ \E j \in Child : ChildEnds(j)

Spec == Init /\ [][Next]_vars

(* The shell runs, signals are delivered, and a command ends some day that *)
(* has all its input and whose output is read.  Nothing is assumed of the  *)
(* end of any other.                                                       *)
Fairness ==
  /\ WF_vars(ShellNext) /\ WF_vars(child_handler)
  /\ \A j \in Child : WF_vars(GetsOn(j) /\ ChildEnds(j))

FairSpec == Spec /\ Fairness

-----------------------------------------------------------------------------
(* Properties.                                                             *)

(* Types, and the range of fork_count: the test before fork keeps it at    *)
(* most one above the limit.                                               *)
TypeOK ==
  /\ pc \in {"prompt", "limit", "forked", "counted", "waiting", "reaped", "closing"}
  /\ fork_count \in -MaxForks..max_fork_num + 1
  /\ forks \in 0..MaxForks
  /\ kind \in [Child -> Kind]
  /\ reader \in [Child -> 0..MaxForks]
  /\ state \in [Child -> {"none", "runs", "zombie", "gone"}]
  /\ processes \subseteq Child /\ held \subseteq Child
  /\ sigchld \in BOOLEAN
  /\ stolen \subseteq Child /\ early \subseteq Child

(* What fork_count counts: the children not waited for yet, less one for   *)
(* every foreground command whose child the handler reaped before the      *)
(* shell's own waitpid, because both subtract it.  It is never above the   *)
(* number of children, so the shell waits for nobody who does not exist;   *)
(* but each such command raises the "limit of the fork number"             *)
(* (np_simple.cpp:134, np_single_proc.cpp:318, np_multi_proc.cpp:495).     *)
Between == pc \in {"forked", "counted", "waiting", "reaped"}
Current == IF Between THEN {forks} ELSE {}

CountDrifts ==
  LET reapedHere == pc = "reaped" /\ forks \notin stolen
  IN  fork_count = Cardinality(Unreaped) - Cardinality(stolen \ Current)
                     + (IF reapedHere THEN 1 ELSE 0) - (IF pc = "forked" THEN 1 ELSE 0)

(* The shell closes its copy of a command's input when the command has     *)
(* ended, whoever reaps it; only that of a background command that ended   *)
(* before it was recorded is lost.                                         *)
InputsClosed ==
  \A j \in held : state[j] = "gone" =>
    \/ j \in early /\ kind[j] # "waited"
    \/ j = forks /\ (Between \/ pc = "closing")

(* A shell that waits for the number of its children to fall goes on,      *)
(* unless those it still has are all blocked: by a pipe that no command    *)
(* reads and that none will, as the shell forks none, by a reader that     *)
(* ended before them, or by somebody outside.                              *)
AllBlocked == ~BelowLimit /\ \A j \in Unreaped : state[j] = "runs" /\ ~GetsOn(j)

GoesOn == pc = "limit" ~> pc # "limit" \/ AllBlocked \/ forks = MaxForks
=============================================================================

# TLA+ models of the npshell servers

This directory is a verification development for the three "network shells" of
this repository: `np_simple`, `np_single_proc` and `np_multi_proc`.  Each accepts
TCP clients and runs the command lines they type; the latter two also let their
users see each other (`who`, `name`), talk (`tell`, `yell`) and pipe the output of
a command to another user (`>2`, `<1`).

The modules are checked with TLC and, where a theorem is listed, proved with
TLAPS.  `PROJECT.json` lists the runs, the theorems, the hazards each property is
aimed at, the mutants of the code that break each property, and which lines of the
source each definition stands for.

Contents: 1 inventory, 2 modules, 3 runs, 4 fairness, 5 proofs, 6 what the models
showed, 7 what is not modelled, 8 plan.


## 1. Inventory

### The message bus of np_multi_proc (`np_multi_proc.cpp`, `shm.cpp`)

*Processes.*  One **system process** (`np_multi_proc.cpp:104-136`) owns the user
table.  For each client the server forks a **shell**, and the shell forks a
**receiver** that prints to the client what the system process announces
(178-250).

*State.*  One shared text buffer `shm`, and six System V semaphore sets.  A set has
three semaphores: [0] is the one that is waited for and signalled, [1] starts at
`BIGCOUNT` and goes down by one for every process that opened the set, [2] is a
lock around closing.  Every operation carries `SEM_UNDO`.

*Operations.*  A shell takes `call_system`, writes its request into `shm`, signals
`servsem`, waits for `call_system_end`, releases `call_system`.  The system process
reads the request, writes the answer over it, takes `clisem`, gives the baton
`clienting` to one of the receivers, waits for `serving`, takes the baton back,
releases `clisem`, waits until all receivers have signed up again, and signals
`call_system_end`.  A receiver signs up under `clisem` (`sem_open(clienting)`),
waits for the baton, reads `shm`, signs off, signals `serving` if [1] of
`clienting` says that it is the last one, and passes the baton on.

*Hard.*  Everything runs concurrently.  A receiver is ended with `SIGKILL`
wherever it is, and what it did is undone by the kernel one set at a time while the
others go on.  `SIGCHLD` interrupts a shell's `semop`, and no caller looks at the
result.  Shells and the system process empty `call_system_end` at several places.
A shell reads its answer after it released `call_system`.

*Correct means.*  One request at a time; one reader at a time; every receiver that
was signed up reads an announcement once, and what it reads is the announcement;
the system process is woken; the counters count the processes that are alive; a
request is answered; whatever ends how, the next client is served.

### The user table of np_multi_proc (`system_broadcast.cpp`)

*State.*  Thirty slots (address, name, valid, and for every other slot whether a
user pipe is waiting and its number), and a counter of user pipes.
*Operations.*  `system_display` looks the sender up by address, inserts it if it is
not there, and carries out `enter`, `left`, `name`, `who`, `tell`, `yell`, or the
two ends of a user pipe.  *Interaction.*  Only the system process touches it; its
callers are the requests on the bus.  *Hard.*  Slots and pipes outlive the users
they were made for; a shell may die without `left`; texts that are no requests get
in.  *Correct means.*  One slot per address, one user per name, slots that stay
while their user is connected, and user pipes that only ever join the two users
they were made for, each with a FIFO file of its own.

### np_single_proc (`np_single_proc.cpp`)

*State.*  One process: the set `afds` of descriptors, thirty slots (descriptor,
address, name, the two descriptors of each waiting user pipe), and `std::cin`,
onto whose descriptor the socket of the user being served is copied.  *Operations.*
`select`, accept, one line of one user, and the `SIGCHLD` handler.  *Hard.*
Descriptor numbers are reused by the kernel while old copies stay in slots, pipes
and the process table, and the handler closes descriptors between any two steps; the
stream's buffer and its failed state are shared by all users.  *Correct means.*  The
line of a client is run for that client; descriptors are closed once, and not
lost; user pipes have both users; the server goes on serving.

### Children of a shell (`process.cpp` and the fork loops of the three servers)

*State.*  `fork_count`, the vector of processes with the pipe each one reads.
*Operations.*  fork within a limit, record, `waitpid`, and the `SIGCHLD` handler.
*Hard.*  The handler runs between any two steps of the shell and competes with its
`waitpid`.  *Correct means.*  The count is that of the children, their inputs are
closed when they end, and a shell at its limit goes on.

### Semaphore sets, start and end of np_multi_proc (`shm.cpp`, `np_multi_proc.cpp:46-160`)

*State.*  Six sets in the kernel, each with an identity, and the variables of every
process that hold one.  [1] says whether a set was ever initialised, and how many have
it open.  *Operations.*  `sem_create` (semget, lock, GETVAL, two SETVAL, unlock),
`sem_open`, `sem_close`, `sem_rm`; the start of a server, the fork of the system
process before `bind`, `Ctrl-C` in all processes, and `SIGKILL`.  *Hard.*  A start finds
the sets of another server, dead or alive; every call may be followed by an end; all
processes run the same `INT_handler`.  *Correct means.*  [1] counts the processes, a
lock is never given twice, nobody loses a set he has open, and an end leaves nothing.

### User pipe files of np_multi_proc (`np_multi_proc.cpp:445-610`, `process.cpp:23-53`)

*State.*  A FIFO per number in `user_pipe/`, and two children that open it.
*Operations.*  The writer's unlink, mknod and open, the reader's open, the removal by
the reader's shell, and the end of the users.  *Hard.*  The children belong to shells
that do not wait for each other; `open` blocks; numbers begin again with every server.
*Correct means.*  Both open the same file, each end once, and the file is removed.

### Command parser (`command.cpp`)

*State.*  The cells of all lines so far, the cursor, the counter of instructions.
*Operations.*  `read_string` checks and splits a line, `get_next_cmd` hands out cells.
*Hard.*  The loops rely on the order of cells and ask for some of them without looking
whether there is one.  *Correct means.*  Every token is in one cell, every command is
run once, and instructions are counted as typed.

### The pipes of a line and numbered pipes (`pipe.cpp`, the three display loops)

*State.*  A ring of 1500 pipes, and the two ends of every pipe with the processes that
hold them.  *Operations.*  Each operator's pipe, fork with what a child closes, the
parent's closing, and the handler's.  *Hard.*  One copy of a write end too many and a
reader, and the shell that waits for it, never go on.  *Correct means.*  Commands are
joined as the line says, every reader sees the end of its input, no commands wait for each
other in a circle, nothing is left open.
np_simple is one such shell for every client, and shares nothing between them.

### Built-in commands (`build-in_command.cpp`)

Comparisons with fixed words decide how a line is run; that is in `Command`.  `setenv`
and `printenv` work on one process's environment and keep no other state.


## 2. Modules

| Module | Models | Builds on |
|---|---|---|
| `SysVSem` | the semaphore wrappers of `shm.cpp` on the kernel's semaphores | |
| `Broadcast` | the three kinds of processes of the bus | `SysVSem` |
| `UserTable` | `system_display` on the user table | |
| `Directory` | abstract: who is present, names, user pipes | |
| `Bulletin` | abstract: what the bus promises while nobody leaves | |
| `SemSets` | `sem_create` to `sem_rm`, start and end of servers | `SysVSem` |
| `UserFifo` | the FIFO files and the children that open them | |
| `SingleServer` | the select loop and the descriptors of np_single_proc | |
| `ProcTable` | children, fork limit and `SIGCHLD` of any shell | |
| `Command` | `read_string`, the cursor, and how the loops fetch cells | |
| `LineShell` | the pipes of lines in each of the three shells | `Command` |
| `MC...` | constants, lines and symmetry for TLC, one for each module with runs | |
| `BroadcastProofs` | theorems about the bus: semaphores, tokens and counters; then rounds and requests | `Broadcast` |
| `LineProofs` | theorems about lines, cells and the ends of pipes | `LineShell` |
| `RunProofs` | theorems about what the loops run, and which pipes join it | `LineProofs` |
| `UserTableProofs`, `ProcTableProofs`, `UserFifoProofs`, `SingleServerProofs`, `SemSetsProofs` | theorems | the module of that name |

Operators named `Not_x` are plausible bugs of the definition `x`.  No action uses
them; putting one in the place of `x` must break the property that
`PROJECT.json` names with it.

### SysVSem

`val`, `cnt` and `lock` are semaphores [0], [1] and [2] of each set; `undoVal`,
`undoCnt` and `undoLock` the kernel's adjustments of each process; `asleep` who
sleeps on [0].  A token that is signalled while somebody sleeps goes straight to a
sleeper, as in the kernel, so nobody sees it in between; which sleeper is open.
`Undo` applies the adjustments of an ended process to one set: a value that would
be negative becomes 0, as Linux does, and sleepers are served.  `Dequeue` is a
`semop` that ends without having done anything (`EINTR`, or a killed sleeper).
Here `sem_close` never gets to `sem_rm`, because in `Broadcast` the server keeps its own
reference; it takes lock [2] and returns it in one step, except where `Broadcast` needs
to see a receiver between the two (`op_close`, `op_unlock`).  `SemSets` has the general
case.

### Broadcast

`pc[p]` is where process p is; every `sem_wait`, `sem_signal`, `semctl` and every
access to the buffer is an action of its own, so that all orders of the calls are
there.  A process put to sleep is at the next place already and `Awake` holds it
there.  A message is a kind (request or reply), a client and a number.

| Actions | Code (`np_multi_proc.cpp`) |
|---|---|
| `SysAwaitCall` ... `SysReply` | the system process, 104-136; `SysRead` and `SysWrite` are the two ends of `system_display` |
| `RecvOpen` ... `RecvPass` | the receiver, 183-250, with the parts of `sem_close` spelled out |
| `Accept` | 162-183, 252-265: accept, the two forks, opening the sets |
| `ShellPoll`, `ShellDrain` | the loops that empty `call_system_end`, 267, 329 |
| `RunRequest`, `ShellLock` ... `ShellUnlock` | a request: `who`, `tell`, `yell`, `name`, `enter`, `left`, user pipes |
| `ShellLook` | `stoi` on the answer to a user pipe, 461 and 484 |
| `RunJob`, `JobEnds` | children that are not waited for, and `SIGCHLD` |
| `Leave`, `KillReceiver`, `ReapReceiver`, `ShellClose` | exit (356-361) and hang-up, then 281-301 |
| `RecvUndo`, `ShellUndo` | the kernel, after a process ended |

`mishaps` records which of the three things the code allows to go wrong have
happened: `drain` (a shell emptied `call_system_end` while a token was there),
`eintr` (a shell's `semop` was interrupted) and `exit` (adjustments of a shell were
applied).  Properties that hold only before one of these say so, and the note on
the hazard says what happens after.

`Bulletin` has a caller, the phase of its request, who listens and who has heard.
`Broadcast` implements it where nobody leaves: `caller` and `phase` are read off the
places of the processes, `audience` and `heard` are the history variables.

### SemSets

`id[k]` is what `semget` returns for key k, 0 when there is no set, and `handle[p][k]` is
what p has in its variable; a call with another handle fails, as in the kernel.
`sem_create` is one action per system call, with its two errors: a set that is gone
before `op_lock` is tried again (`EINVAL`), one that is removed while the caller sleeps
ends it (`EIDRM`).  `sem_open`'s semget and semop are one step.  Shells and receivers
open and close their sets and hold the two that are locks; what they say to each other
is in `Broadcast`.  A process that goes through several sets, to create, open, close or
remove them, takes one at a time, in the code's order: `left[p]` are those still to come
and `Turn(p)` the next one.  A handler that finds a set gone stops, as `sem_rm` calls
`exit`.  `kill_all` and `kill_handler` are installed for `SIGKILL`, which no
handler receives, so they are not in the model.  `refs` records who has a set open, and
`mishaps` what has happened of the things the code allows: a start while another server
is there (`overlap`), a server `killed` or without its port (`bind`), a handler that ran
(`interrupt`) or stopped on its way (`halfway`), a set opened while its last user was
about to remove it (`open`), and a shell that left and removed a set as its last user
while a handler was at work elsewhere (`closed`).

### UserFifo

`waiting` is what the user table knows, `file[n]` what has the name of pipe n in
the directory: nothing, an old FIFO or the new one.  `procs` are the children, with the
place each is at; `Meet` is the kernel letting both blocked opens return.  A failed open
gives -1, which the code takes for a descriptor: `"client"` says that the command then
writes to or reads from its client.  Three history variables record what the code allows
to go wrong: a reader that opened before its writer had made the file (`early`), an end
that `exit` killed (`killed`), and a reader that was reaped before it was recorded
(`missed`).  A reader that is still there when its user leaves goes on without a shell: it
ends like any other, and nobody reaps it or removes its file.

### UserTable and Directory

A request is one step.  `Looked(a)` is the table after `find_user` and
`insert_user`, where every command starts; `IdOf(a)` the slot it works on.  `Abort`
is a shell that dies without `left` (its address stays in the table), `Stray` a text
that is no request, whose first word is looked up all the same.  `made` and `taken`
record the user pipes for the properties.  `Directory` is what the servers promise:
users join, leave, take free names, send and receive pipes.  `UserTable` implements
it under `presentBar`, `nickBar`, `pipesBar`, which forget slots and numbers.

### SingleServer

`desc[f]` is what descriptor f of the server is: free, a client's socket, the read
end of a user pipe, or lost.  The kernel gives out the lowest free number.
Numbers in `user_data` are only numbers, as in the code, and `Input` and
`RunExit` look up what they now stand for.  `cin` and `stdin` are the shared stream:
its failed state and the lines in its buffer.  `ServeLine` is one line with one
command; `JobEnds` is the handler, which may come between any two of the loop's
steps.  `mixed` becomes TRUE when a `close` hits something it was not meant for, and
`wrong` when a line is run for a user who did not type it.

### ProcTable

`fork_count`, `processes`, `held` (inputs the shell has open too), the state of each
child, and one pending `SIGCHLD`.  The steps of the fork loop are separate actions
so that `child_handler` falls between any two.  Children are `waited` for, `brief`
(they write into a pipe what fits into it), `long` (they write more, into a pipe that the
next command reads, or the command of a later line, or nobody) or `outside` (they read what
the client types, or are blocked in `open` of a FIFO).  `reader[j]` is the child that reads
what j writes, 0 as long as none was forked.  A long child does not end before it is read
(`Stuck`), by a reader that is not stuck in turn; an outside child may end or may not.

### Command

A token is a word, or an operator with a number; `Class` is what the regular expressions
make of it.  `read_string` is a fold over the tokens (`Tokenize`), with what the code
keeps in local variables as the accumulator.  `cmds`, `cmd_now`, `cmd_count` and
`instrusion_count` are the members of the class.  `program` says whose loop fetches the
cells, np_simple's or one of the others'; it is chosen at the start and stays.  `ran`
records the commands run.

### LineShell

`job` and `at` say where the display loop is with a command; `box` is the ring, `wr[p]` and
`rd[p]` the processes that hold the ends of pipe p.  `GetEvent` and `GetOperator` are the
two halves of the loop, `ReceivePipe` and `SendPipe` the user pipes of np_single_proc,
`Fork` the fork with everything that parent and child close.  A command that is no `Sources`
word ends when its input does (`CanEnd`), so a write end that is kept shows as a shell that
waits forever.  One that got no pipe reads what the client types (`AsksClient`), unless its
name is an operator: `execvp` fails then, and the child reads a pipe to its end if it has
one.  Forking and recording is one step: `ProcTable` takes them apart.  `mishaps` records
what the code allows: a built-in command of np_simple that `fed` a pipe, a user pipe that
took the place of another pipe (`both`), and a pipe that nobody reads (`unread`: the input
of a built-in command, or `!n` in the servers with users).  A user pipe that is refused
makes a pipe all the same, one end of which `/dev/null` replaces (`np_single_proc.cpp:277`,
283, 299, 305); its two ends stay open in the shell and go to its children, and `lost` holds
these pipes.


## 3. Runs

All runs that stop are `CHECK_DEADLOCK FALSE`: clients have a bounded number of
commands, may leave for good, and may stay silent forever.  Only `table`, where
somebody can always act, is checked for deadlock.

| Run | Question | Bounds |
|---|---|---|
| `bus_steady` | nobody leaves: the processes implement `Bulletin`, and liveness (`Answered`) | two clients connect, in any order, and make their entering requests |
| `bus_leave` | a receiver is killed at any place while the other client is served; what is read and answered before: `TypeOK`, `OneReader`, `AudienceOnce`, `NobodySkipped`, `WakeupOwed`, `CountersTrackProcesses`, `EverybodyBack`, `OneCaller`, `AnswerIsMine`, `ReadsTheAnnouncement`, `NoStrayToken`; interrupted `semop`, failed `stoi`, exits: `DoorReopens` | two clients, one of whom may leave at any time.  Beside the other it talks once or asks once for a user pipe, whose answer the other's request may overwrite (it aborts then); while it is alone it gives two commands out of talk and pipe, with background children (`OneOrTwo`) |
| `table` | `TypeOK`, `UsersUnique`, `PipeEndsAlive`, `PipeFilesDistinct`, `TakenAsMade`, `SlotKept`, and `ImplementsDirectory` | three addresses for two slots, one of them also a stray word; one name; two user pipes |
| `single` | `TableSound`, `OwnLines`, `NoneLost` | three clients, two slots, four descriptors, two lines each, each waits for its prompt |
| `single_live` | `LineRead` | two clients that type ahead, six descriptors |
| `single_active` | `ActiveIsOpen`, violated | as `single` |
| `forks` | `TypeOK`, `CountDrifts`, `InputsClosed`, and liveness (`GoesOn`) | four forks of children of all kinds, limit 1 |
| `lines` | `CellsSound`, `CommandsRun` | np_simple and one server with users; any two lines of four tokens together out of two words and all operators, well-formed or not |
| `pipes` | `Joined`, `EndsHeld`, and liveness (`PromptReturns`) | each of the three shells; up to three well-formed lines of up to three tokens, five tokens together; three pipes; a ring of two |
| `fifo` | `EndsMeet`, `FileRemoved` | two users pipe to each other, two pipes, one file is left over, one user may leave |
| `sets` | `SetsSound`, `NotUnderAnyone`, `CleanEnd` | two servers, one of which may be killed, and one client; three of the six sets |
| `sets_two` | `CleanEnd` | one server and two clients, four of the six sets; no shell has a call in progress or handles `Ctrl-C` itself, and at most one receiver does (`ShellsGoOn`) |

Parts of one property that are only read together are conjuncts of it: `UsersUnique` is
`AddrUnique` and `NamesUnique`; `TableSound` is `TypeOK`, `UserFound`, `NamesUnique` and `PipeEndsAlive`; `CellsSound` is `TypeOK`,
`NeverPastEnd`, `NothingLost` and `CountsInstructions`; `EndsHeld` is `ShellTypeOK`,
`EndInSight`, `SomeoneEnds` and `NothingKept`; `EndsMeet` is `TypeOK`, `OneAtEachEnd`, `ReaderHasWriter`
and `NoClientInstead`; `SetsSound` is `TypeOK`, `Counted` and `LockKept`; `CleanEnd` is
`NothingLeft` and `NoOrphan`.

*Why these bounds are enough to see the interesting cases.*  Two clients give two
receivers, one of which can be last, killed, connecting or in front of the other at
every place, and two shells that meet on `call_system`; the entering requests alone
make two announcements, so that the sync loop and a second round are reached.
`BIGCOUNT` is 4 (9 in `sets`) instead of 200 only to keep numbers small: nothing compares
with it but through `Base`, and the processes of a run never reach 0.  In `table` two
slots are fewer than the addresses, so slots are reused and the table is full; two user
pipes suffice for two waiting at once and for a number after one was received.  One name
suffices to be taken twice.  In `single` four descriptors are two sockets and one
user pipe with both ends, so every number freed is reused at once, by a socket or by
a pipe; three clients for two slots make one come after another has left.  In
`forks` a limit of 1 lets two children run; four forks are enough for the count to drift,
for the limit to be passed, and for a long child to wait for a reader that is forked, that
is not, or that is itself stuck.

In `lines` four tokens hold every pair of operators with a command before, between or
behind them, and the second line starts at a cursor and a counter that the first has
moved.  In `pipes` a ring of two wraps at the third instruction, `|2` reaches across the
end of the ring, and three pipes are enough for a numbered pipe that waits while two
plain ones are made and inherited, or for a refused user pipe beside another pipe.  In `fifo` two pipes can be under way in opposite
directions, or one after the other with the old file in the way of the first.  In `sets`
two servers give a start over a running server, over one that was killed at any place of
its start, and over one whose shell is on its way out; the three sets are the two locks
and the one that receivers open again and again.  `sets_two` is there for what takes two
clients: a shell that leaves while the other's receiver handles `Ctrl-C`.  The fourth set,
`serving`, is the last one the handler removes, so it is what stays behind.

`SYMMETRY` is used only in runs without liveness: addresses that are no stray words,
connections and names are interchangeable because no definition orders or singles
them out.


## 4. Fairness

*Broadcast*: weak fairness of the system process and of every receiver and shell.
Each is a process the operating system schedules, and a step of it that stays enabled
is taken.  `UserNext` has none: connecting, typing, leaving and the end of
background commands are up to the users.  Within a process the choice of step is its
own code's, so weak fairness of the disjunction is what the scheduler gives.  Semaphores
need no strong fairness in `Answered`, because a sleeper is handed its token.

*SingleServer*: weak fairness of the server's steps; none of the clients' or of the
children.

*ProcTable*: weak fairness of the shell, of the delivery of the signal, and of the
end of every child that needs nobody but children that can end (`GetsOn`): whoever writes
its input ends, and what it writes is read, if it is more than the pipe holds.  That is an
assumption about commands, and the only one: nothing is assumed of a child that writes more
into a numbered pipe than it holds before the reader is there, that is blocked in `open` of
a FIFO, that reads what the client types, or whose reader has ended.  `Command` (the next
line) has no fairness.

*LineShell*: weak fairness of the shell, of the handler, and of the end of every command
that can end: one that reads nothing, or whose input has ended.  Reading a line has none.


## 5. Proofs

TLC looks at a few processes; the theorems hold for any number of clients, servers, slots,
descriptors, children and lines.  They assume what the models assume of their constants,
and nothing else:

| Assumption | What it says |
|---|---|
| `BigCountAssumption` | `BIGCOUNT` is a positive number |
| `BroadcastAssumption`, `UserTableAssumption` | finitely many clients or addresses; the other constants have their types |
| `ProcTableAssumption`, `UserFifoAssumption`, `SingleServerAssumption`, `LineShellAssumption` | types of the constants |
| `CommandAssumption`, `LinesAssumption` | types; no word is an operator, and lines are made of tokens |
| `SemSetsAssumption` | types, finitely many processes, and fewer of them than `BIGCOUNT` (200 in `shm.h`, with two processes for each of thirty users) |

An invariant is seldom inductive as it stands.  What follows names, for each module, the
strengthening that is, because it is the argument why the code works.  Every safety
property of the passing runs is a theorem, and `PROJECT.json` lists them; what is not
proved is named at the end of this section.

**BroadcastProofs**: tokens and counters.  It begins with what `sem_wait`, `sem_signal`,
`Undo`, `Dequeue` and no operation do to semaphore [0] of a set, value by value (a process
takes a token, falls asleep, leaves a token, hands it to a sleeper), and that other sets
are left alone.  `Prompt` (nobody sleeps while there is a token) comes out of that.

`OneReader` and `OneCaller` speak of places,
and what keeps two processes from the same place is a token that may also be on the
semaphore, on its way to a sleeper, or in the kernel's adjustments of a process that has
ended.  So the invariant has, beside types and kinds of places (`Frame`), one part for
each kind of token.

1. `DoorInv`, for `call_system`: the token is either on the semaphore or with exactly
   one shell, which is between its wait and its signal and does not sleep (`In`), and a
   shell's adjustment is 1 exactly while it is in.  A shell never ends while it is in,
   so what the kernel applies for it is 0.  The invariant is guarded by the absence of
   `eintr`, where the code does break it.  `DoorIsReopened` is read off it: the two
   conditions of `DoorReopens` are the two places of the token.
2. `Baton`, for `clienting`: outside a round no token is there; within it at most one
   is, on the semaphore or with one receiver.  A killed receiver still has it until
   the kernel has undone its adjustment, which is 1 exactly while it has the token.
   The system process's adjustment is not bounded, but it never ends.  No assumption
   on mishaps is needed: a receiver's `semop` is never interrupted, because a receiver
   has no children.
3. `Guarded`, for `clisem`, which both the system process and receivers hold; `Apart`
   says that shells and receivers owe nothing to each other's sets.
4. `Counters`: [1] of every set is `Base` less the processes whose adjustment is 1
   (`Counted`), a process that lives has the adjustments its place says (`Opened`), and a
   closing lock is with one process (`Locked`).  `CountersAreRight` and `TypesAreSound`
   come from there; the cardinality lemmas of the library do the counting.

The lemmas from `PlainBase` to `JobSteps` reduce every action to its effect on the sets,
and `StepCases` groups the actions, so that each part is proved over a few kinds of steps.

*In the second half of the module*: what the tokens are for.

1. `RoundInv`: within a round, the receivers that have yet to read are the audience less
   those who have heard (`AllRead`; equal while nobody was killed), and of the readers
   only one, the last, gets to signal `serving` (`OneServe`), which from then on is owed
   to the system process.  `AudienceReadsOnce`, `NobodyIsSkipped` and `TheWakeupIsOwed`
   follow.  It needs `Counted`: who is last is decided by [1] alone.
2. `Synced`: while the sync loop compares and nobody came or went, whoever is signed up to
   `clienting` has `clisem` open too, so equal counts are equal sets (`EverybodyIsBack`).
3. `CallInv`: a request is in one of four conditions (the bell has rung, the system process
   is at it, its answer is there, or there is none), exactly one shell waits for it, and
   `shm` and `req` hold its request or its reply accordingly.  `TokensAreAnswers`,
   `AnswersArrive` and `ReadersReadTheNews` follow.  It is guarded by `Clean`: a drained
   token leaves it intact, an interrupted `semop` or an undone exit does not.
4. `BusImplementsBulletin`: the processes implement `Bulletin`, for any number of clients.
   Its assumption `Steady` on the constants is what `Bulletin` is about: nobody leaves, no
   child runs in the background, and nobody asks for a user pipe (a shell whose `stoi` fails
   leaves too).  `Staying` says what that amounts to in a state, above all that when the
   system process gives `clisem` back the audience has heard.  `Seen` reads `caller` and
   `phase` off the places and `Call`; then `SysCount` is `Announce`, `SysUnlock` is
   `AllHeard`, `ShellRing` is `Ask`, `RecvRead` is `Hear`, and `Answer` is `SysReply` or
   `ShellWait`, whichever comes second.  Every other step changes nothing `Bulletin` sees
   (`Hushed`).

**UserTableProofs**.  The inductive invariant `IInv` is
`Good(user_data, user_pipe_count, made, taken)`, stated of a table rather than of the
variable because every command begins with `Looked(a)`.  It adds to the properties that
valid slots have the address of a connection, that every pipe ever made has a number not
above the counter (which is why a new one is distinct), and that what was taken was made.
`LookedGood` shows that looking a user up, with or without inserting, keeps `Good`; one
lemma per command goes on from there.  `SlotsAreKept` is the action property.
`TableImplementsDirectory` shows the refinement: the initial states map, and every command
is a step of `Directory` under `presentBar`, `nickBar` and `pipesBar`, or leaves them
alone.

**ProcTableProofs**.  The children are numbered in order and all but a new one are
recorded (`Numbered`); at most one is waited for, the last one forked, and only between
its fork and the shell's `waitpid` (`OneWaited`); what the handler reaps before the shell
comes to it is that one (`Overtaken`).  `CountDrifts` is then a matter of sets of children
that gain or lose one.

**UserFifoProofs**.  A number of a user pipe is at one place as an output and at one as an
input, be it the table, a request or a child (`Handed`); a shell that records or waits
knows which child is its last (`Shells`); and from what the writer has done follows how far
the reader can be, and the other way round (`Linked`).  `PipesMeet` is read off `Linked`.
`FilesAreRemoved` needs both: while the reader runs, the file is the one its writer made,
because no other child has the number, and the reader's shell, if it is there to reap it,
has the number in its process table unless the reader is `missed`.

**SingleServerProofs**.  `Found`: among all slots with the number of an active descriptor,
old ones included, the lowest is in use.  It holds even after a wrong `close`, because
`insert_user` takes the lowest free slot; it is why `find_user_id` may ignore `valid`.
`Seated` and `Wired` say that the numbers in the table stand for what they were stored for
as long as no `close` went wrong, `Numbered` that no two pipes share an identity; each
`close` then concerns one of them only.

**SemSetsProofs**.  `SetOk(k)` relates the three semaphores of a set to the kernel's
adjustments; `PairOk(p, k)` says for a process and a set what its place says (`Has`,
`Lacks`, `Locking`, `Holding`), for handles that are still valid.  A handle once stale stays
stale, because the kernel gives out no id twice (`Ids`).  That gives `TheSetsAreSound` for
any interleaving of starts, ends and kills.  `Kept` is what `NobodysSetsAreTaken` needs: who
is about to remove a set counted its references and they are still none.  `Era` carries
`ServersEndCleanly`: a run without the mishaps excepted there is a row of eras.  Nothing is
there (`Gone`); one server creates and nobody else is alive (`Making`); all sets and their
server are there (`Whole`); and one process removes them in the handler's order while the
others are stopped by `clisem`, the first set removed (`Leading`).  `StepKinds` sorts the
steps by what they do to that.  The mishap `closed` was found by this proof: `Leading`
was not inductive without it.

**LineProofs**, for lines of any length.  What the parser does to a line is a fold over its
tokens, and a fact about it an induction over the length.  The provers cannot use an
induction theorem that takes an operator, so it is done with a set: the least number
outside the set of those for which the fact has been shown would have to be 0 or the
successor of one inside (`Least`, `Inductive`, from the well-foundedness of the natural
numbers); `Recursion` gives the values of a fold, and `FlatConcat` what `FlattenSeq` does
to a concatenation.

1. `CellsOf` says what the cells are after part of a line: they and the open one hold its
   tokens, and empty cells are as many as numbered pipes.  `CellInv` carries that through
   the loops; `Cells` (`CellsSound`) follows.
2. `LineRules` says which cells may follow which (`PipeRule`: a cell with a numbered pipe
   is followed by an empty one, any other pipe by a command; `EndRule`: an instruction that
   is not sent away ends with its line).  `CutIsRuled` shows it of the parser, `CellRules`
   keeps it for what the cursor has before it.
3. `EndsAreHeld` (`EndsHeld`) rests on `LineInv`.  `Sight`: the shell holds a write end only of
   pipes in the ring, of the output of the command being started, and of the pipes of
   refused user pipes (`lost`), to which nothing is written; no reader, present or
   about to be forked, reads a pipe the shell can write to; and when the output of a
   command is a pipe of the ring no command of the instruction is left to take it for its
   input, which is `PipeRule`.  `Kept`: a read end in the shell belongs to the ring, to
   the user's pipe, to the next command (`Leads`, `Hand`), to a refused user pipe or to a
   child the shell has yet to reap; there is always a next command where `Leads` holds, which is `PipeRule` and
   `EndRule` again.  `ChainInv` shows `SomeoneEnds`, the part of `PromptReturns` that is
   safety: who can write to a pipe still runs and was forked before whoever reads it
   (`Downhill`: a new child gets a write end that the shell holds, and by `Sight` nobody
   reads such a pipe yet), so of the commands that run the oldest waits for none.  `Sight`
   and `Downhill` need that no built-in command fed a pipe and no user pipe
   displaced another (`Straight`), `Kept` that no mishap happened at all.
4. `ShellsFetchAsCommand`: the shells implement `Command`.

**RunProofs**, which goes on from there.  `Commands` says of a line what the users mean,
token by token (`told`); `Walk` follows the loops over the cells of the line, with the place
they are at (`Mode`) and what they have run.  `Reached` compares the two after every token:
where the parser has ended an instruction or a command the loops expect one, behind a
built-in command of the servers with users they skip, and behind the file of a `>` in
np_simple only the end of the instruction may come.  `ReachedStep` is the step of that
induction, with a case for each kind of token, `LegalRuns` and `IllegalRuns` what comes of a
whole line.  `RunInv` then says that the loops are where the walk over all cells leads, and
`CommandsAreRun` follows.  A walk that has gone `astray` stays so, so no line may be misread
(`AsTyped`).

`CommandsAreJoined` (`Joined`) is proved in the same module.  `Joined` speaks of two children
and what the line says of their cells; to be inductive it needs to know where an output is
before its reader is forked.  There are three places: an entry of the ring, for a numbered
pipe; `fd_out`, between the fork of the writer and the next command's cell; `fd_in`, from
that cell to the reader's fork.  `Sends` says for each child, of each of the three, that the
child's output is there if and only if the line says it has to be:

* `ToBox`: it is in entry `s` if and only if its command is followed by a number, the
  instruction the number means (`Target`) has yet to come (`Coming`), and it is `s` modulo
  the size of the ring.  A number that is not `TooFar` puts the target within one turn of the
  ring, so when an instruction comes its entry holds what was sent to it and nothing older
  (`RightEntry`); this is why the ring may be used again and again.
* `ToNext`: it is `fd_out` if and only if a plain pipe ends its command right before the
  cursor.
* `ToHand`: it is `fd_in` if and only if it feeds the command in hand.

The rest keeps these from going wrong.  `HandIs`: the command in hand is at cell `at`, the
cursor is between it and its pipe (`PipeOf`), at the pipe when it is forked, and its user
pipes are why `Joined` does not speak of it.  `OutputIs`: what the command in hand is about
to write agrees with the line.  `NextIs`: `fd_out` is free if and only if an instruction
begins.  `RingIs`: no two entries are the same pipe, the shell has the ends it hands on, and
nothing is written to the pipe of a refused user pipe, which is why a command that reads
such a pipe is joined to nobody. A child's input is never a pipe that is still on its way
(`~ComesTo(fd)` in `ChildIs`): so an old reader cannot have been given what a new writer
writes, and `Joint`, which is `Joined` of two children, holds when the second one is forked,
whichever is the reader.  That the cells of earlier lines keep their meaning when more lines
are typed is `SenseKept`.  The whole invariant (`JoinInv`) needs `RunInv` where np_simple
stops behind the file of a `>` (`FileEnds`).

*Not proved, checked by TLC only*: all liveness (`Answered`, `LineRead`, `GoesOn`,
`PromptReturns`), which is out of the prover's reach, as is `ENABLED`.


## 6. What the models showed

* **`single_active`** (`np_single_proc.cpp:152`): `remove_user` closes the write end of
  each waiting user pipe of the user who leaves, but the parent closed it right after
  fork.  By then the number may be another client's socket, which stays in `afds`;
  from then on `select` fails with `EBADF`.
* *The fork limit moves up.*  A foreground child reaped by the handler is subtracted
  twice (`np_simple.cpp:8` and 156, and the copies), so the "limit of the fork number"
  goes up by one each time.  `CountDrifts` says by exactly how much.
* *An operator run as a command.*  np_simple takes one operator per command
  (`np_simple.cpp:94`).  A command with a file has two cells when a pipe follows, and the
  second is fetched at line 80 and executed (`Misread`, excepted by `CommandsRun` and
  `Joined`).
* *Numbers above the ring.*  `|1501` has the entry of `|1` (`pipe.cpp:19`), and its output goes
  to whoever reads that (`TooFar`, excepted by `Joined`).
* *`!2` without a number.*  It is of the kind NUMPIPE to the parser (`command.cpp:12`) and
  np_simple sends output and errors to the second instruction from there.
  `np_multi_proc.cpp:430` and `np_single_proc.cpp:255` make a pipe without looking at the
  number, and nobody reads it (excepted by `Joined`).
* *`sem_open` without the lock.*  `shm.cpp:55` says no lock is needed.  A shell that opens
  a set between the last user's count of the references and the removal
  (`shm.cpp:73-80`) loses it; it takes a server that was killed and two of its shells, one
  on its way in and one on its way out (`open`, excepted by `NotUnderAnyone`).
* *`serving` stays behind.*  A shell that leaves may be the last user of a set and remove it
  while a receiver is in `INT_handler` (`np_multi_proc.cpp:46-51`); the handler's own
  `sem_rm` of that set fails and exits, and the sets it has not come to are never removed
  (`closed`, excepted by `NothingLeft`; found while proving it).
* Properties with an exception name a weakness the code has: an answer drained away by
  another shell (`Answered`, `NoStrayToken`), an answer read too late (`AnswerIsMine`
  stops at `ShellUnlock`), an interrupted `semop` (`OneCaller`), a killed receiver
  (`NobodySkipped`, `WakeupOwed`), a failed `std::cin` and typed-ahead lines
  (`LineRead`, `OwnLines`), a shell at its limit all of whose children are blocked
  (`GoesOn`: by a pipeline longer than the limit, by a numbered pipe that is full and whose
  reader is in a line the shell does not get to, in `open` of a FIFO, or by the client who
  does not type), a child that
  ends before it is recorded (`InputsClosed`, `FileRemoved`), a reader of a user pipe that
  outlives its shell, an early one, or a killed end (`FileRemoved`), the descriptors of
  refused user pipes (`NothingKept`), a built-in command of
  np_simple with a pipe behind it and a user pipe beside another pipe (`EndInSight`,
  `SomeoneEnds`, `PromptReturns`), a reader of a user pipe that comes before its writer has made the file
  (`EndsMeet`), a receiver that answers `Ctrl-C` first (`NothingLeft`), and a server that
  finds its port taken (`NoOrphan`).  These are not listed as findings: nothing in the
  repository promises otherwise, or the models describe them without a run of their own.


## 7. What is not modelled, and why

* **Outside the table.**  With thirty users `insert_user` returns -1 and the table is
  indexed with it; `tell` does not check its number.  What happens is undefined; the
  models stop there (`HasRoom`, `Valid # Slot`).  `stoi` of a word, which ends the
  process, is left out as well.
* **Text.**  Requests, answers and messages are who asks for what; the size of the
  buffer, formatting and printing are not modelled.
* **Limits of the kernel.**  `semadj` is a short and `semop` fails with `ERANGE` after
  32767 operations; process numbers are reused after a wrap.  Both are far beyond the
  bounds of a run.
* **Several users' pipelines in np_single_proc.**  `SingleServer` has the users and one
  command per line, `LineShell` whole lines of one user.  What the numbered pipes of a
  user become who leaves (`np_single_proc.cpp:118` overwrites them with the slot, and
  their descriptors stay open) is in neither.
* **Failures of the kernel.**  `pipe`, `mknod` and `fork` succeed; after a failed `fork` the shell
  exits (`np_simple.cpp:137`).
* **A second system process.**  When a server starts over another one, two system processes
  wait on the same `servsem`.  `SemSets` says when that happens, not what they answer.
* **References at the limit.**  [1] reaches 0 with 200 references, which a start takes for
  a set never initialised; the models assume fewer processes than `BIGCOUNT`.
* **That a blocked open of a FIFO returns.**  `EndsMeet` says that who is blocked has a
  counterpart for the same file; the liveness that follows from it with fair children is
  too large for TLC.  Two shells under two servers of `SemSets` are too many for TLC as
  well; there the theorems are all there is.
* **The race on the process vector** between the handler and `push_back`, and **`setenv`,
  `printenv` and `PATH`**, which no other process sees.


## 8. Plan

The components are modelled, and every safety property, the action properties and the two
refinements among them, is a theorem.  What is left:

1. *Several users' pipelines in np_single_proc* (section 7): a composition of `SingleServer`
   and `LineShell`, with one ring for each slot, in which the descriptors left behind by who
   leaves can be counted.
2. *Table*: the converse of the refinement's remark that `Directory` does not see slots:
   two tables with the same view answer `who` alike.

---------------------------- MODULE SingleServer ----------------------------
(***************************************************************************)
(* np_single_proc: one process serves all users.  It waits with select for *)
(* the descriptors in afds, takes one line from each that is ready, and    *)
(* runs it for the user whose slot has that descriptor.                    *)
(*                                                                         *)
(* Descriptors are the subject.  The kernel gives out the lowest free one, *)
(* so a number that was closed soon means something else, while old        *)
(* numbers stay in invalid slots, in user pipes and in the process table.  *)
(*                                                                         *)
(* A line is one command here: a name, an end of a user pipe, exit, or     *)
(* anything that leaves the server as it is.                               *)
(***************************************************************************)
EXTENDS Integers, FiniteSets, FiniteSetsExt, Sequences

CONSTANTS
  Conn,        (* connections clients make                                 *)
  Name,        (* names users give themselves                              *)
  NoName,      (* "(no name)", which no user can pick                      *)
  MaxUserNum,  (* 30                                                       *)
  MaxFd,       (* bound: descriptors, numbered from 1 after those the      *)
               (* server opened when it started                            *)
  MaxLines,    (* bound: lines a client types                              *)
  Ahead        (* lines a client types without waiting for its prompt      *)

ASSUME SingleServerAssumption ==
  /\ NoName \notin Name
  /\ MaxUserNum \in Nat \ {0}
  /\ MaxFd \in Nat /\ MaxLines \in Nat /\ Ahead \in Nat

VARIABLES
  desc,       (* what each descriptor number of the server is              *)
  afds,       (* the descriptors to wait for, the listening one apart      *)
  rfds,       (* those the last select found ready and not served yet      *)
  accepting,  (* and whether the listening one is among them               *)
  user_data,
  cin,        (* std::cin: good, or failed for good after an end of file   *)
  stdin,      (* who typed the lines in stdin's buffer                     *)
  client,     (* what each client does: none, knocks, on, off, gone        *)
  typed,      (* lines each client has typed                               *)
  unread,     (* and how many of them are in its socket                    *)
  jobs,       (* children that read a user pipe and have not ended         *)
  pipes,      (* user pipes made                                           *)
  (* history, read by no action: *)
  mixed,      (* a close() closed what it was not meant for                *)
  wrong       (* a line was run for a user who did not type it             *)

net == <<client, typed, unread>>
history == <<mixed, wrong>>
table == <<desc, afds, user_data, jobs, pipes>>
vars == <<table, rfds, accepting, cin, stdin, net, history>>

Slot == 1..MaxUserNum
Fd == 1..MaxFd

Free == [is |-> "free"]
Leaked == [is |-> "leaked"]              (* nobody knows this one any more *)
Socket(k) == [is |-> "socket", of |-> k]
ReadEnd(p) == [is |-> "read", of |-> p]

FreeFds == {f \in Fd : desc[f] = Free}
Lowest(n, f) == f \in FreeFds /\ Cardinality({g \in FreeFds : g < f}) = n - 1

NoPipe == [valid |-> FALSE, fd |-> <<0, 0>>, id |-> 0]

(* The slots are zeroed before their first use: descriptor 0.              *)
Blank == [valid |-> FALSE, fd |-> 0, name |-> NoName, addr |-> NoName,
          box |-> [j \in Slot |-> NoPipe]]

build_user(f, k) == [valid |-> TRUE, fd |-> f, name |-> NoName, addr |-> k,
                     box |-> [j \in Slot |-> NoPipe]]

Valid == {i \in Slot : user_data[i].valid}

(* Mutant: the last slot with this descriptor.                             *)
Not_find_user_id(f) == Max({i \in Slot : user_data[i].fd = f})

(* find_user_id does not look at valid.                                    *)
find_user_id(f) == Min({i \in Slot : user_data[i].fd = f})

-----------------------------------------------------------------------------
(* The clients.                                                            *)

Knock(k) ==
  /\ client[k] = "none"
  /\ client' = [client EXCEPT ![k] = "knocks"]
  /\ UNCHANGED <<table, rfds, accepting, cin, stdin, typed, unread, history>>

Pending(k) == unread[k] + Cardinality({n \in DOMAIN stdin : stdin[n] = k})

Type(k) ==
  /\ client[k] = "on"
  /\ typed[k] < MaxLines
  /\ Pending(k) < Ahead
  /\ typed' = [typed EXCEPT ![k] = @ + 1]
  /\ unread' = [unread EXCEPT ![k] = @ + 1]
  /\ UNCHANGED <<table, rfds, accepting, cin, stdin, client, history>>

HangUp(k) ==
  /\ client[k] = "on"
  /\ client' = [client EXCEPT ![k] = "off"]
  /\ UNCHANGED <<table, rfds, accepting, cin, stdin, typed, unread, history>>

-----------------------------------------------------------------------------
(* The main loop.                                                          *)

Knocking == {k \in Conn : client[k] = "knocks"}

Ready(f) == \E k \in Conn : desc[f] = Socket(k) /\ (unread[k] > 0 \/ client[k] = "off")

(* With a closed descriptor in afds select fails at once with EBADF and    *)
(* leaves the sets as they are: all of afds and the listening descriptor   *)
(* look ready.                                                             *)
Select ==
  /\ rfds = {} /\ ~accepting
  /\ \/ /\ \E f \in afds : desc[f] = Free
        /\ rfds' = afds
        /\ accepting' = TRUE
     \/ /\ \A f \in afds : desc[f] # Free
        /\ rfds' = {f \in afds : Ready(f)}
        /\ accepting' = (Knocking # {})
        /\ rfds' # {} \/ accepting'
  /\ UNCHANGED <<table, cin, stdin, net, history>>

insert_user(f, k) ==
  user_data' = [user_data EXCEPT ![Min(Slot \ Valid)] = build_user(f, k)]

(* Mutant: the new descriptor is not added to afds.                        *)
Not_FD_SET(f) == UNCHANGED afds

FD_SET(f) == afds' = afds \union {f}

(* With a full table insert_user returns -1 and the code goes on with slot *)
(* -1, outside the table; the model does not follow it there.              *)
Accept ==
  \E k \in Knocking, f \in Fd :
    /\ accepting
    /\ Valid # Slot
    /\ Lowest(1, f)
    /\ desc' = [desc EXCEPT ![f] = Socket(k)]
    /\ FD_SET(f)
    /\ insert_user(f, k)
    /\ client' = [client EXCEPT ![k] = "on"]
    /\ accepting' = FALSE
    /\ UNCHANGED <<rfds, cin, stdin, typed, unread, jobs, pipes, history>>

(* The descriptor the loop serves next.                                    *)
Serving(f) == ~accepting /\ rfds # {} /\ f = Min(rfds)

(* set_user_env makes the user's socket descriptor 0 before getline.  If   *)
(* the number is no socket any more the model does not follow the code.    *)
Input(f) == desc[user_data[find_user_id(f)].fd]

(* getline fails once cin has failed, and cin fails at an end of file.     *)
(* Nobody clears it.  The user whose client hung up keeps the slot.        *)
ServeNothing ==
  \E f \in rfds :
    /\ Serving(f)
    /\ \/ cin = "failed"
       \/ /\ cin = "good" /\ stdin = <<>>
          /\ \E k \in Conn : Input(f) = Socket(k) /\ unread[k] = 0 /\ client[k] = "off"
    /\ cin' = "failed"
    /\ rfds' = rfds \ {f}
    /\ UNCHANGED <<table, accepting, stdin, net, history>>

(* A line typed by k is there: left in stdin's buffer, or in the socket,   *)
(* in which case all that is in the socket goes into the buffer.           *)
GetLine(f, k) ==
  /\ Serving(f)
  /\ cin = "good"
  /\ \/ /\ stdin # <<>> /\ k = Head(stdin)
        /\ stdin' = Tail(stdin)
        /\ UNCHANGED unread
     \/ /\ stdin = <<>> /\ Input(f) = Socket(k) /\ unread[k] > 0
        /\ stdin' = [n \in 1..unread[k] - 1 |-> k]
        /\ unread' = [unread EXCEPT ![k] = 0]
  /\ rfds' = rfds \ {f}
  /\ wrong' = (wrong \/ user_data[find_user_id(f)].addr # k)
  /\ UNCHANGED <<accepting, cin, typed>>

(* Any command that leaves the descriptors and the table as they are.      *)
RunOther(f) ==
  UNCHANGED <<table, client, mixed>>

(* name does not look at valid either.                                     *)
dup_name(id, n) == \E i \in Slot : user_data[i].name = n

RunName(f) ==
  LET id == find_user_id(f)
  IN  /\ \E n \in Name :
           user_data' = IF dup_name(id, n) THEN user_data
                        ELSE [user_data EXCEPT ![id].name = n]
      /\ UNCHANGED <<desc, afds, jobs, pipes, client, mixed>>

(* An operator that is refused replaces one end of a new pipe by           *)
(* /dev/null; the two ends of the pipe itself stay open.  (For > the read  *)
(* end stays and the write end's number is overwritten, for < the other    *)
(* way round.  The descriptor of /dev/null is closed.)                     *)
Refuse ==
  \E r, w \in Fd :
    /\ Lowest(1, r) /\ Lowest(2, w)
    /\ desc' = [desc EXCEPT ![r] = Leaked, ![w] = Leaked]
    /\ UNCHANGED <<afds, user_data, jobs, pipes, client, mixed>>

Alive(s, r) == {s, r} \subseteq Valid
PipeAlive(s, r) == Alive(s, r) /\ user_data[s].box[r].valid

(* >to: the parent keeps the read end and closes the write end after fork. *)
(* Its number stays in the slot.                                           *)
RunPipeTo(f) ==
  LET id == find_user_id(f)
  IN  \E to \in Slot :
        \/ ~Alive(to, to) /\ Refuse
        \/ Alive(to, to) /\ PipeAlive(id, to) /\ Refuse
        \/ /\ Alive(to, to) /\ ~PipeAlive(id, to)
           /\ \E r, w \in Fd :
                /\ Lowest(1, r) /\ Lowest(2, w)
                /\ desc' = [desc EXCEPT ![r] = ReadEnd(pipes + 1)]
                /\ user_data' = [user_data EXCEPT ![id].box[to] =
                                   [valid |-> TRUE, fd |-> <<r, w>>, id |-> pipes + 1]]
           /\ pipes' = pipes + 1
           /\ UNCHANGED <<afds, jobs, client, mixed>>

(* <from: the child reads the pipe, and the parent closes the read end     *)
(* when it ends: now, or later if its output goes into a pipe.             *)
RunPipeFrom(f) ==
  LET id == find_user_id(f)
  IN  \E from \in Slot :
        LET pipe == user_data[from].box[id]
        IN  \/ ~Alive(from, from) /\ Refuse
            \/ Alive(from, from) /\ ~PipeAlive(from, id) /\ Refuse
            \/ /\ Alive(from, from) /\ PipeAlive(from, id)
               /\ user_data' = [user_data EXCEPT ![from].box[id].valid = FALSE]
               /\ \/ /\ desc' = [desc EXCEPT ![pipe.fd[1]] = Free]
                     /\ mixed' = (mixed \/ desc[pipe.fd[1]] # ReadEnd(pipe.id))
                     /\ UNCHANGED jobs
                  \/ /\ jobs' = jobs \union {[fd |-> pipe.fd[1], id |-> pipe.id]}
                     /\ UNCHANGED <<desc, mixed>>
               /\ UNCHANGED <<afds, pipes, client>>

(* Mutant: remove_user closes nothing.                                     *)
Not_FromMe(id) == {}

(* remove_user closes both numbers of every pipe from slot id, although    *)
(* the write end was closed when the pipe was made.                        *)
FromMe(id) == {user_data[id].box[i] : i \in {j \in Slot : user_data[id].box[j].valid}}

(* Mutant: close_related_user_pipe is not called.                          *)
Not_ToMe(id) == {}

(* close_related_user_pipe, called when slot id is no longer valid.        *)
ToMe(id) == {i \in Valid \ {id} : user_data[i].box[id].valid}

remaining(id, i) == user_data[i].valid /\ i # id

(* exit: close(fd), FD_CLR, remove_user, close_related_user_pipe.          *)
RunExit(f) ==
  LET id      == find_user_id(f)
      toMe    == {user_data[i].box[id] : i \in ToMe(id)}
      reads   == FromMe(id) \union toMe
      stale   == {p.fd[2] : p \in FromMe(id)}
  IN  /\ desc' = [g \in Fd |-> IF g = f \/ g \in stale \/ \E p \in reads : p.fd[1] = g
                               THEN Free ELSE desc[g]]
      /\ mixed' = \/ mixed
                  \/ \A k \in Conn : desc[f] # Socket(k) \/ user_data[id].addr # k
                  \/ \E p \in reads : desc[p.fd[1]] # ReadEnd(p.id)
                  \/ \E g \in stale : desc[g] # Free
      /\ afds' = afds \ {f}
      /\ user_data' =
           [i \in Slot |-> [user_data[i] EXCEPT
              !.valid = remaining(id, i),
              !.box = [j \in Slot |->
                 IF i = id \/ (i \in ToMe(id) /\ j = id)
                 THEN [@[j] EXCEPT !.valid = FALSE] ELSE @[j]]]]
      /\ client' = [k \in Conn |-> IF desc[f] = Socket(k) THEN "gone" ELSE client[k]]
      /\ UNCHANGED <<jobs, pipes>>

ServeLine ==
  \E f \in rfds, k \in Conn :
    /\ GetLine(f, k)
    /\ RunOther(f) \/ RunName(f) \/ RunPipeTo(f) \/ RunPipeFrom(f) \/ RunExit(f)

(* SIGCHLD: child_handler closes the read end the child was given.         *)
JobEnds ==
  \E j \in jobs :
    /\ jobs' = jobs \ {j}
    /\ desc' = [desc EXCEPT ![j.fd] = Free]
    /\ mixed' = (mixed \/ desc[j.fd] # ReadEnd(j.id))
    /\ UNCHANGED <<afds, user_data, pipes, rfds, accepting, cin, stdin, net, wrong>>

Init ==
  /\ desc = [f \in Fd |-> Free]
  /\ afds = {} /\ rfds = {} /\ accepting = FALSE
  /\ user_data = [i \in Slot |-> Blank]
  /\ cin = "good" /\ stdin = <<>>
  /\ client = [k \in Conn |-> "none"]
  /\ typed = [k \in Conn |-> 0] /\ unread = [k \in Conn |-> 0]
  /\ jobs = {} /\ pipes = 0
  /\ mixed = FALSE /\ wrong = FALSE

ServerNext == Select \/ Accept \/ ServeNothing \/ ServeLine
ClientNext == \E k \in Conn : Knock(k) \/ Type(k) \/ HangUp(k)

Next == ServerNext \/ ClientNext \/ JobEnds

Spec == Init /\ [][Next]_vars

-----------------------------------------------------------------------------
(* Properties.                                                             *)

What == {Free, Leaked} \union {Socket(k) : k \in Conn} \union [is : {"read"}, of : Nat]
Pipe == [valid : BOOLEAN, fd : (0..MaxFd) \X (0..MaxFd), id : Nat]

TypeOK ==
  /\ desc \in [Fd -> What]
  /\ afds \subseteq Fd /\ rfds \subseteq Fd /\ accepting \in BOOLEAN
  /\ user_data \in [Slot -> [valid : BOOLEAN, fd : 0..MaxFd, name : Name \union {NoName},
                             addr : Conn \union {NoName}, box : [Slot -> Pipe]]]
  /\ cin \in {"good", "failed"} /\ stdin \in Seq(Conn)
  /\ client \in [Conn -> {"none", "knocks", "on", "off", "gone"}]
  /\ typed \in [Conn -> Nat] /\ unread \in [Conn -> Nat]
  /\ jobs \subseteq [fd : Fd, id : Nat] /\ pipes \in Nat
  /\ mixed \in BOOLEAN /\ wrong \in BOOLEAN

(* find_user_id finds the user behind every active descriptor, although    *)
(* invalid slots keep the numbers of their last users and are not skipped: *)
(* insert_user takes the lowest free slot, so a slot with an old number is *)
(* never below the slot of the user who has that number now                *)
(* (np_single_proc.cpp:114-123, 138-144).                                  *)
UserFound ==
  ~mixed => \A f \in afds :
    /\ \E i \in Slot : user_data[i].fd = f
    /\ find_user_id(f) \in Valid
    /\ desc[f] = Socket(user_data[find_user_id(f)].addr)

(* "active file descriptor set" (np_single_proc.cpp:22): what is in afds   *)
(* is open.                                                                *)
ActiveIsOpen == \A f \in afds : desc[f] # Free

(* A client that waits for its prompt before it types the next line has    *)
(* its lines run under its own slot.                                       *)
OwnLines == Ahead = 1 /\ ~mixed => ~wrong

(* No two users have the same name.                                        *)
NamesUnique ==
  \A i, j \in Valid :
    user_data[i].name = user_data[j].name => i = j \/ user_data[i].name = NoName

(* A waiting user pipe is between two users who are there, and its read    *)
(* end is the one that is open under its number.                           *)
PipeEndsAlive ==
  \A i, j \in Slot : user_data[i].box[j].valid =>
    /\ {i, j} \subseteq Valid
    /\ mixed \/ desc[user_data[i].box[j].fd[1]] = ReadEnd(user_data[i].box[j].id)

(* The table of users is right: every socket has its user, every name one  *)
(* user, and every waiting pipe both its users and its descriptor.         *)
TableSound == TypeOK /\ UserFound /\ NamesUnique /\ PipeEndsAlive

(* The server does not lose descriptors: an open read end belongs to a     *)
(* user pipe that waits or to a child that has not ended.                  *)
NoneLost ==
  ~mixed => \A f \in Fd : desc[f].is = "read" =>
    \/ [fd |-> f, id |-> desc[f].of] \in jobs
    \/ \E i, j \in Slot : /\ user_data[i].box[j].valid
                          /\ user_data[i].box[j].fd[1] = f
                          /\ user_data[i].box[j].id = desc[f].of

(* The server never stops serving: a client's line is read, unless a       *)
(* hang-up has made std::cin fail, a close() hit the wrong descriptor, or  *)
(* somebody's exit was run for this client.                                *)
Fairness == WF_vars(Select) /\ WF_vars(Accept) /\ WF_vars(ServeNothing) /\ WF_vars(ServeLine)
FairSpec == Spec /\ Fairness

LineRead ==
  \A k \in Conn : unread[k] > 0 ~> unread[k] = 0 \/ cin = "failed" \/ mixed \/ wrong
=============================================================================

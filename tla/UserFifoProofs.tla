--------------------------- MODULE UserFifoProofs ---------------------------
(***************************************************************************)
(* Proofs about UserFifo, for any users, pipes and left-over files: a user *)
(* pipe joins the two commands it was made for, and its file goes when it  *)
(* has been read.                                                          *)
(*                                                                         *)
(* A number is given out once and received once (Handed); a shell that     *)
(* waits or records knows which child is its last (Shells); from there the *)
(* two ends of a pipe go through their opens in step (Linked).             *)
(***************************************************************************)
EXTENDS UserFifo, TLAPS

Place == {"unlink", "mknod", "openw", "blockw", "openr", "blockr", "run", "ended", "gone"}
Open == {"none", "client", "old", "new"}

Proc == [user : User, out : 0..MaxPipes, in : 0..MaxPipes, recorded : BOOLEAN,
         w : Open, r : Open, at : Place]

Typed ==
  /\ pipes \in 0..MaxPipes
  /\ from \in [Number -> User \union {"nobody"}]
  /\ to \in [Number -> User \union {"nobody"}]
  /\ waiting \subseteq 1..pipes
  /\ file \in [Number -> {"none", "old", "new"}]
  /\ sh \in [User -> {"idle", "fork", "record", "wait", "leaving", "off"}]
  /\ job \in [User -> [out : 0..MaxPipes, in : 0..MaxPipes, fg : BOOLEAN]]
  /\ procs \in Seq(Proc)

(* A number is at one place as an output, and at one as an input: in the   *)
(* table, in the request of a command that is not forked yet, or in the    *)
(* child.                                                                  *)
Pending == {u \in User : sh[u] = "fork"}

Handed ==
  /\ \A c \in Child : procs[c].out <= pipes /\ procs[c].in <= pipes
  /\ \A u \in Pending : /\ job[u].out <= pipes /\ job[u].in <= pipes
                        /\ job[u].out # 0 \/ job[u].in # 0
  /\ \A c, d \in Child : c # d =>
       /\ procs[c].out # 0 => procs[c].out # procs[d].out
       /\ procs[c].in # 0 => procs[c].in # procs[d].in
  /\ \A u, v \in Pending : u # v =>
       /\ job[u].out # 0 => job[u].out # job[v].out
       /\ job[u].in # 0 => job[u].in # job[v].in
  /\ \A u \in Pending, c \in Child :
       /\ job[u].out # 0 => job[u].out # procs[c].out
       /\ job[u].in # 0 => job[u].in # procs[c].in
  /\ \A n \in waiting : /\ \A u \in Pending : job[u].in # n
                        /\ \A c \in Child : procs[c].in # n
  /\ \A u \in Pending : job[u].in # 0 => to[job[u].in] = u
  /\ \A c \in Child : procs[c].in # 0 => to[procs[c].in] = procs[c].user

IsLast(u, c) == procs[c].user = u /\ \A d \in Child : procs[d].user = u => d <= c

Shells ==
  /\ \A u \in User : sh[u] \in {"record", "wait"} => \E c \in Child : IsLast(u, c)
  /\ \A c \in Child : ~procs[c].recorded =>
       sh[procs[c].user] = "record" /\ IsLast(procs[c].user, c)

(* How far the two ends of a pipe have come.                               *)
Making == {"unlink", "mknod"}
Opening == {"openw", "blockw"}
Reading == {"run", "ended", "gone"}

(* A child without an output or input has none.                            *)
Alone ==
  \A c \in Child :
    /\ procs[c].at \in Making \union Opening => procs[c].out # 0
    /\ procs[c].at \in {"openr", "blockr"} => procs[c].in # 0
    /\ procs[c].out = 0 => procs[c].w = "none"
    /\ procs[c].in = 0 => procs[c].r = "none"

Sound == Number \ (early \union killed)

WriterAt(n, c) ==
  /\ procs[c].at \in Making \union {"openw"} => procs[c].w = "none"
  /\ procs[c].at \notin Making \union {"openw"} => procs[c].w = "new"
  /\ procs[c].at \in Opening => file[n] = "new"
  /\ procs[c].at \notin Making \union Opening =>
       \E d \in Readers(n) : procs[d].at \in Reading

ReaderAt(n, d) ==
  /\ procs[d].at \in Reading \union {"blockr"} => procs[d].r = "new"
  /\ procs[d].at \notin Reading \union {"blockr"} => procs[d].r = "none"
  /\ procs[d].at = "blockr" => \E c \in Writers(n) : procs[c].at \in Opening
  /\ procs[d].at \in Reading => \E c \in Writers(n) : procs[c].at \notin Making \union Opening

Linked ==
  \A n \in Sound : /\ \A c \in Writers(n) : WriterAt(n, c)
                   /\ \A d \in Readers(n) : ReaderAt(n, d)

(* The inductive invariant.                                                *)
IInv ==
  /\ Typed
  /\ Handed
  /\ Shells
  /\ Alone
  /\ Linked
  /\ FileRemoved

-----------------------------------------------------------------------------
(* What an action does to the children, field by field.                    *)

LEMMA Children ==
  ASSUME Typed
  PROVE  /\ Len(procs) \in Nat /\ Child = 1..Len(procs)
         /\ procs \in [Child -> Proc]
         /\ \A c \in Child : procs[c] \in Proc /\ procs[c].user \in User
<1>1. /\ Len(procs) \in Nat /\ Child = 1..Len(procs)
      /\ procs \in [Child -> Proc]
  BY DEF Typed, Child
<1>2. QED
  BY <1>1 DEF Proc

LEMMA Updated ==
  ASSUME Typed, NEW f, f \in [Child -> Proc]
  PROVE  f \in Seq(Proc) /\ DOMAIN f = Child
<1>1. Child = 1..Len(procs) /\ Len(procs) \in Nat
  BY Children
<1>2. QED
  BY <1>1

(* Who c is for, which pipes it has, and whether it is recorded.           *)
SameRole(c) ==
  /\ procs'[c].user = procs[c].user /\ procs'[c].recorded = procs[c].recorded
  /\ procs'[c].out = procs[c].out /\ procs'[c].in = procs[c].in

SameEnds(c) ==
  /\ procs'[c].out = procs[c].out /\ procs'[c].in = procs[c].in
  /\ procs'[c].w = procs[c].w /\ procs'[c].r = procs[c].r

(* One child changes its place and perhaps its descriptors.                *)
OneMoves(c, w, r, place) ==
  /\ procs' \in Seq(Proc) /\ Child' = Child
  /\ \A d \in Child : SameRole(d)
  /\ \A d \in Child \ {c} : SameEnds(d) /\ procs'[d].at = procs[d].at
  /\ procs'[c].w = w /\ procs'[c].r = r /\ procs'[c].at = place

LEMMA Moved ==
  ASSUME Typed, NEW c \in Child, NEW w \in Open, NEW r \in Open, NEW p \in Place,
         procs' = [procs EXCEPT ![c] = [procs[c] EXCEPT !.w = w, !.r = r, !.at = p]]
  PROVE  OneMoves(c, w, r, p)
<1>1. procs[c] \in Proc /\ procs \in [Child -> Proc]
  BY Children
<1> DEFINE e == [procs[c] EXCEPT !.w = w, !.r = r, !.at = p]
<1>2. /\ e \in Proc
      /\ e.user = procs[c].user /\ e.recorded = procs[c].recorded
      /\ e.out = procs[c].out /\ e.in = procs[c].in
      /\ e.w = w /\ e.r = r /\ e.at = p
  BY <1>1 DEF Proc
<1> HIDE DEF e
<1>3. procs' = [procs EXCEPT ![c] = e]
  BY DEF e
<1>4. procs' \in [Child -> Proc]
  BY <1>1, <1>2, <1>3
<1>5. procs' \in Seq(Proc) /\ Child' = Child
  BY <1>4, Updated DEF Child
<1>6. QED
  BY <1>1, <1>2, <1>3, <1>5 DEF OneMoves, SameRole, SameEnds

LEMMA Stepped ==
  ASSUME Typed, NEW c \in Child, NEW p \in Place, Step(c, p)
  PROVE  OneMoves(c, procs[c].w, procs[c].r, p)
<1>1. procs[c] \in Proc
  BY Children
<1>2. [procs[c] EXCEPT !.w = procs[c].w, !.r = procs[c].r, !.at = p]
        = [procs[c] EXCEPT !.at = p]
  BY <1>1 DEF Proc
<1>3. procs' = [procs EXCEPT ![c] = [procs[c] EXCEPT !.at = p]]
  BY DEF Step
<1>4. procs[c].w \in Open /\ procs[c].r \in Open
  BY <1>1 DEF Proc
<1>5. QED
  BY <1>2, <1>3, <1>4, Moved

(* Last(u), where the shell has a last child.                              *)
LEMMA LastOne ==
  ASSUME Typed, NEW u, NEW c \in Child, IsLast(u, c)
  PROVE  Last(u) = c
<1>1. \A d \in Child : IsLast(u, d) => d = c
  BY Children DEF IsLast
<1>2. QED
  BY <1>1 DEF Last, IsLast

(* A pipe has one writer and one reader.                                   *)
LEMMA OneEach ==
  ASSUME Typed, Handed, NEW n \in Number
  PROVE  /\ \A c, d \in Writers(n) : c = d
         /\ \A c, d \in Readers(n) : c = d
BY UserFifoAssumption DEF Handed, Writers, Readers, Number

-----------------------------------------------------------------------------
(* The parts of the invariant, for the actions that leave them alone or    *)
(* disturb them in the same way.                                           *)

LEMMA HandedKept ==
  ASSUME Handed, Child' = Child, \A c \in Child : SameRole(c),
         pipes' = pipes, to' = to, waiting' \subseteq waiting,
         Pending' \subseteq Pending, \A u \in Pending' : job'[u] = job[u]
  PROVE  Handed'
BY DEF Handed, SameRole

LEMMA ShellsKept ==
  ASSUME Typed, Shells, Child' = Child, \A c \in Child : SameRole(c),
         \A u \in User : /\ sh'[u] \in {"record", "wait"} => sh[u] \in {"record", "wait"}
                         /\ sh[u] = "record" => sh'[u] = "record"
  PROVE  Shells'
<1>1. \A c \in Child : procs[c].user \in User
  BY Children
<1>2. QED
  BY <1>1 DEF Shells, IsLast, SameRole

LEMMA PlacesKept ==
  ASSUME Alone, Linked, FileRemoved, Handed, Typed, pipes \in Nat, Child' = Child,
         \A c \in Child : SameEnds(c) /\ procs'[c].at = procs[c].at,
         file' = file, early' = early, killed' = killed, missed' = missed
  PROVE  Alone' /\ Linked' /\ FileRemoved'
<1>1. \A n : Writers(n)' = Writers(n) /\ Readers(n)' = Readers(n)
  BY DEF Writers, Readers, SameEnds
<1>2. Alone'
  BY DEF Alone, SameEnds
<1>3. Linked'
  BY <1>1 DEF Linked, WriterAt, ReaderAt, Sound, SameEnds, Writers, Readers
<1>4. FileRemoved'
  BY DEF FileRemoved, Handed, Readers, SameEnds
<1>5. QED
  BY <1>2, <1>3, <1>4

(* The children of C are gone, reaped or killed, and close_process has     *)
(* removed the files that those recorded have read.                        *)
LEMMA Reap ==
  ASSUME Typed, Handed, Alone, Linked, FileRemoved, NEW C, C \subseteq Child,
         pipes' = pipes, Child' = Child,
         \A c \in Child : SameRole(c) /\ SameEnds(c),
         \A c \in Child : procs'[c].at = IF c \in C THEN "gone" ELSE procs[c].at,
         file' = Unlinked(C),
         early' = early, killed \subseteq killed', missed \subseteq missed',
         \A c \in C : Over(c) \/ (procs[c].in \in killed' /\ procs[c].out \in killed'),
         \A c \in C : procs[c].recorded \/ procs[c].in \in missed'
  PROVE  Alone' /\ Linked' /\ FileRemoved'
<1>1. \A n : Writers(n)' = Writers(n) /\ Readers(n)' = Readers(n)
  BY DEF Writers, Readers, SameEnds
<1>2. Alone'
  BY DEF Alone, SameEnds, Making, Opening
<1>3. Sound' \subseteq Sound /\ Sound \subseteq Number
  BY DEF Sound
<1>4. /\ \A n \in Number :
           \/ file'[n] = file[n]
           \/ file'[n] = "none" /\ \E c \in C : procs[c].recorded /\ procs[c].in = n
      /\ \A c \in C : procs[c].recorded /\ procs[c].in \in Number =>
           file'[procs[c].in] = "none"
  BY DEF Unlinked
<1>5. ASSUME NEW n \in Sound', NEW c \in Writers(n) \union Readers(n)
      PROVE  /\ procs'[c].w = procs[c].w /\ procs'[c].r = procs[c].r
             /\ \/ procs'[c].at = procs[c].at /\ c \notin C
                \/ procs'[c].at = "gone" /\ procs[c].at \in {"ended", "gone"}
  BY <1>5 DEF Sound, Writers, Readers, Over, SameEnds
<1>6. ASSUME NEW n \in Sound', NEW c \in Writers(n), procs[c].at \in Opening
      PROVE  file'[n] = "new"
  <2>1. file[n] = "new" /\ n \in Number
    BY <1>3, <1>6 DEF Linked, WriterAt
  <2>2. ASSUME NEW d \in C, procs[d].in = n
        PROVE  FALSE
    <3>1. d \in Readers(n) /\ procs[d].at \in Reading
      BY <1>5, <2>2 DEF Readers, Reading
    <3>2. \E e \in Writers(n) : procs[e].at \notin Making \union Opening
      BY <1>3, <3>1 DEF Linked, ReaderAt
    <3>3. QED
      BY <1>6, <2>1, <3>2, OneEach
  <2>3. QED
    BY <1>4, <2>1, <2>2
<1>7. ASSUME NEW n \in Sound', NEW c \in Writers(n)
      PROVE  WriterAt(n, c)'
  <2>1. WriterAt(n, c)
    BY <1>3 DEF Linked
  <2>2. QED
    BY <1>1, <1>5, <1>6, <2>1 DEF WriterAt, Making, Opening, Reading
<1>8. ASSUME NEW n \in Sound', NEW d \in Readers(n)
      PROVE  ReaderAt(n, d)'
  <2>1. ReaderAt(n, d)
    BY <1>3 DEF Linked
  <2>2. QED
    BY <1>1, <1>5, <2>1 DEF ReaderAt, Making, Opening, Reading
<1>9. Linked'
  BY <1>1, <1>7, <1>8 DEF Linked
<1>10. FileRemoved'
  <2> SUFFICES ASSUME NEW n \in ((1..pipes) \ (early \union killed \union missed))',
                      NEW d \in Readers(n)'
               PROVE  /\ procs'[d].at = "gone" => file'[n] = "none"
                      /\ procs'[d].at \in {"run", "ended"} => file'[n] = "new"
    BY DEF FileRemoved
  <2>1. /\ n \in (1..pipes) \ (early \union killed \union missed)
        /\ n \in Number /\ d \in Readers(n)
    BY <1>1, UserFifoAssumption DEF Typed, Number
  <2>2. CASE d \in C
    BY <1>4, <2>1, <2>2 DEF Readers
  <2>3. CASE d \notin C
    <3>1. procs'[d].at = procs[d].at
      BY <2>1, <2>3 DEF Readers
    <3>2. \A c \in C : procs[c].in # n
      BY <2>1, <2>3, OneEach DEF Readers
    <3>3. file'[n] = file[n]
      BY <1>4, <2>1, <3>2
    <3>4. QED
      BY <2>1, <3>1, <3>3 DEF FileRemoved
  <2>4. QED
    BY <2>2, <2>3
<1>11. QED
  BY <1>2, <1>9, <1>10

-----------------------------------------------------------------------------
(* The steps of the shells.                                                *)

LEMMA InitInv == Init => IInv
<1> SUFFICES ASSUME Init PROVE IInv
  OBVIOUS
<1>1. Child = {} /\ Pending = {} /\ \A n : Writers(n) = {} /\ Readers(n) = {}
  BY DEF Init, Child, Pending, Writers, Readers
<1>2. Typed
  BY UserFifoAssumption DEF Init, Typed, NoJob
<1>3. Handed /\ Shells /\ Alone
  BY <1>1 DEF Init, Handed, Shells, Alone
<1>4. Linked /\ FileRemoved
  BY <1>1 DEF Init, Linked, FileRemoved
<1>5. QED
  BY <1>2, <1>3, <1>4 DEF IInv

LEMMA RequestInv == ASSUME IInv, NEW u \in User, Request(u) PROVE IInv'
<1>1. PICK in \in {0} \union {n \in waiting : to[n] = u}, target \in User \union {"nobody"} :
        /\ sh[u] = "idle"
        /\ in # 0 \/ target # "nobody"
        /\ IF target = "nobody"
           THEN /\ waiting' = waiting \ {in}
                /\ \E fg \in BOOLEAN :
                     job' = [job EXCEPT ![u] = [out |-> 0, in |-> in, fg |-> fg]]
                /\ UNCHANGED <<pipes, from, to>>
           ELSE /\ pipes < MaxPipes
                /\ pipes' = pipes + 1
                /\ from' = [from EXCEPT ![NewNumber] = u]
                /\ to' = [to EXCEPT ![NewNumber] = target]
                /\ waiting' = (waiting \ {in}) \union {NewNumber}
                /\ job' = [job EXCEPT ![u] = [out |-> NewNumber, in |-> in, fg |-> FALSE]]
        /\ sh' = [sh EXCEPT ![u] = "fork"]
        /\ UNCHANGED <<file, procs, history>>
  BY DEF Request, Received
<1>2. /\ pipes \in Nat /\ MaxPipes \in Nat /\ u \notin Pending
      /\ sh[u] = "idle" /\ sh' = [sh EXCEPT ![u] = "fork"]
      /\ UNCHANGED <<file, procs, early, killed, missed>>
  BY <1>1, UserFifoAssumption DEF IInv, Typed, Pending, history
<1>3. /\ Pending' = Pending \union {u} /\ Child' = Child
      /\ \A c \in Child : SameRole(c) /\ SameEnds(c) /\ procs'[c].at = procs[c].at
  BY <1>2 DEF IInv, Typed, Pending, Child, SameRole, SameEnds
<1>4. /\ in \in 0..pipes
      /\ in # 0 => in \in waiting /\ to[in] = u
      /\ \A n \in waiting : n \in 1..pipes
  BY <1>1, <1>2 DEF IInv, Typed
<1>5. ASSUME /\ in # 0 /\ waiting' = waiting \ {in} /\ UNCHANGED <<pipes, from, to>>
             /\ \E fg \in BOOLEAN :
                  job' = [job EXCEPT ![u] = [out |-> 0, in |-> in, fg |-> fg]]
      PROVE  Typed' /\ Handed'
  <2>1. PICK fg \in BOOLEAN : job' = [job EXCEPT ![u] = [out |-> 0, in |-> in, fg |-> fg]]
    BY <1>5
  <2>2. /\ job'[u].out = 0 /\ job'[u].in = in
        /\ \A v \in User \ {u} : job'[v] = job[v]
    BY <2>1 DEF IInv, Typed
  <2>3. Typed'
    BY <1>2, <1>4, <1>5, <2>1 DEF IInv, Typed
  <2>4. Handed'
    BY <1>2, <1>3, <1>4, <1>5, <2>2 DEF IInv, Handed, SameRole, Pending
  <2>5. QED
    BY <2>3, <2>4
<1>6. ASSUME /\ pipes < MaxPipes /\ pipes' = pipes + 1
             /\ \E v \in User : to' = [to EXCEPT ![NewNumber] = v]
             /\ from' = [from EXCEPT ![NewNumber] = u]
             /\ waiting' = (waiting \ {in}) \union {NewNumber}
             /\ job' = [job EXCEPT ![u] = [out |-> NewNumber, in |-> in, fg |-> FALSE]]
      PROVE  Typed' /\ Handed'
  <2>1. NewNumber = pipes + 1 /\ NewNumber \in Number
    BY <1>2, <1>6 DEF NewNumber, Number
  <2>2. /\ job'[u].out = NewNumber /\ job'[u].in = in
        /\ \A v \in User \ {u} : job'[v] = job[v]
    BY <1>6 DEF IInv, Typed
  <2>3. \A n \in 1..pipes : to'[n] = to[n]
    BY <1>2, <1>6, <2>1 DEF IInv, Typed, Number
  <2>4. Typed'
    <3>1. /\ from' \in [Number -> User \union {"nobody"}]
          /\ to' \in [Number -> User \union {"nobody"}]
      BY <1>6 DEF IInv, Typed
    <3>2. waiting' \subseteq 1..pipes' /\ pipes' \in 0..MaxPipes
      BY <1>2, <1>6, <2>1 DEF IInv, Typed
    <3>3. job' \in [User -> [out : 0..MaxPipes, in : 0..MaxPipes, fg : BOOLEAN]]
      BY <1>2, <1>4, <1>6, <2>1 DEF IInv, Typed
    <3>4. QED
      BY <1>2, <3>1, <3>2, <3>3 DEF IInv, Typed
  <2>5. Handed'
    <3>1. /\ \A c \in Child : /\ procs[c].out \in 0..pipes /\ procs[c].in \in 0..pipes
                              /\ procs'[c] = procs[c]
          /\ \A v \in Pending : /\ job[v].out \in 0..pipes /\ job[v].in \in 0..pipes
                                /\ job'[v] = job[v]
      BY <1>2, <2>2, Children DEF IInv, Handed, Typed, Proc, Pending
    <3> HIDE DEF Pending
    <3>2. QED
      BY <1>2, <1>3, <1>4, <1>6, <2>1, <2>2, <2>3, <3>1 DEF IInv, Handed
  <2>6. QED
    BY <2>4, <2>5
<1>7. Typed' /\ Handed'
  <2>1. CASE target = "nobody"
    BY <1>1, <1>5, <2>1
  <2>2. CASE target # "nobody"
    BY <1>1, <1>6, <2>2
  <2>3. QED
    BY <2>1, <2>2
<1>8. Shells'
  <2>1. \A v \in User : /\ sh'[v] \in {"record", "wait"} => sh[v] \in {"record", "wait"}
                        /\ sh[v] = "record" => sh'[v] = "record"
    BY <1>2 DEF IInv, Typed
  <2>2. QED
    BY <1>3, <2>1, ShellsKept DEF IInv
<1>9. Alone' /\ Linked' /\ FileRemoved'
  BY <1>2, <1>3, PlacesKept DEF IInv
<1>10. QED
  BY <1>7, <1>8, <1>9 DEF IInv

LEMMA ForkInv == ASSUME IInv, NEW u \in User, Fork(u) PROVE IInv'
<1>1. PICK k \in Nat, e \in Proc :
        /\ procs' \in Seq(Proc) /\ Child' = Child \union {k} /\ k \notin Child
        /\ \A c \in Child : c \in Nat /\ c <= k /\ procs'[c] = procs[c]
        /\ procs'[k] = e
        /\ e.user = u /\ e.out = job[u].out /\ e.in = job[u].in /\ ~e.recorded
        /\ e.w = "none" /\ e.r = "none"
        /\ e.at = IF job[u].out # 0 THEN "unlink" ELSE "openr"
  <2> DEFINE k == Len(procs) + 1
             e == [user |-> u, out |-> job[u].out, in |-> job[u].in, recorded |-> FALSE,
                   w |-> "none", r |-> "none",
                   at |-> IF job[u].out # 0 THEN "unlink" ELSE "openr"]
  <2>1. /\ Child = 1..Len(procs) /\ Len(procs) \in Nat /\ procs \in Seq(Proc)
        /\ job[u] \in [out : 0..MaxPipes, in : 0..MaxPipes, fg : BOOLEAN]
        /\ procs' = Append(procs, e)
    BY Children DEF IInv, Typed, Fork
  <2>2. /\ e \in Proc
        /\ e.user = u /\ e.out = job[u].out /\ e.in = job[u].in /\ ~e.recorded
        /\ e.w = "none" /\ e.r = "none"
        /\ e.at = IF job[u].out # 0 THEN "unlink" ELSE "openr"
    BY <2>1 DEF Proc, Open, Place
  <2> HIDE DEF e
  <2>3. /\ procs' \in Seq(Proc) /\ Child' = Child \union {k} /\ k \notin Child /\ k \in Nat
        /\ \A c \in Child : c \in Nat /\ c <= k /\ procs'[c] = procs[c]
        /\ procs'[k] = e
    BY <2>1, <2>2 DEF Child
  <2> HIDE DEF k
  <2>4. QED
    BY <2>2, <2>3
<1>2. UNCHANGED <<pipes, from, to, waiting, file, job, early, killed, missed>>
  BY DEF Fork, table, history
<1>3. /\ Pending' = Pending \ {u} /\ u \in Pending
      /\ \A v \in User \ {u} : sh'[v] = sh[v]
      /\ sh[u] = "fork" /\ sh'[u] = "record"
  BY DEF IInv, Typed, Fork, Pending
<1>4. /\ job[u].out # 0 \/ job[u].in # 0
      /\ \A n \in waiting : job[u].in # n
      /\ \A v \in Pending \ {u} : /\ job[u].out # 0 => job[u].out # job[v].out
                                  /\ job[u].in # 0 => job[u].in # job[v].in
  BY <1>3 DEF IInv, Handed
<1>5. Typed'
  BY <1>1, <1>2 DEF IInv, Typed, Fork
<1>6. Handed'
  <2>1. \A c \in Child' : (c \in Child /\ procs'[c] = procs[c]) \/ (c = k /\ procs'[c] = e)
    BY <1>1
  <2>2. /\ e.out <= pipes /\ e.in <= pipes /\ (e.in # 0 => to[e.in] = u)
        /\ \A c \in Child : /\ e.out # 0 => e.out # procs[c].out
                            /\ e.in # 0 => e.in # procs[c].in
    BY <1>1, <1>3 DEF IInv, Handed
  <2>3. QED
    BY <1>1, <1>2, <1>3, <1>4, <2>1, <2>2 DEF IInv, Handed
<1>7. Shells'
  <2>1. \A c \in Child : procs[c].user \in User /\ (procs[c].user = u => procs[c].recorded)
    <3>1. \A c \in Child : procs[c].user \in User
      BY Children DEF IInv
    <3>2. QED
      BY <1>3, <3>1 DEF IInv, Shells
  <2>2. IsLast(u, k)'
    BY <1>1, <2>1 DEF IsLast
  <2>3. \A c \in Child, v \in User \ {u} : IsLast(v, c) => IsLast(v, c)'
    BY <1>1 DEF IsLast
  <2>4. QED
    BY <1>1, <1>3, <2>1, <2>2, <2>3 DEF IInv, Shells
<1>8. Alone'
  BY <1>1, <1>4 DEF IInv, Alone, Making, Opening
<1>9. Linked'
  <2>1. \A n \in Number : /\ Writers(n)' = Writers(n) \union {c \in {k} : e.out = n}
                          /\ Readers(n)' = Readers(n) \union {c \in {k} : e.in = n}
    BY <1>1 DEF Writers, Readers
  <2> SUFFICES ASSUME NEW n \in Sound
               PROVE  /\ \A c \in Writers(n)' : WriterAt(n, c)'
                      /\ \A d \in Readers(n)' : ReaderAt(n, d)'
    BY <1>2 DEF Linked, Sound
  <2>2. /\ n \in Number /\ n # 0
        /\ \A c \in Writers(n) \union Readers(n) : procs'[c] = procs[c]
    BY <1>1 DEF Sound, Number, Writers, Readers
  <2>3. \A c \in Writers(n) : WriterAt(n, c)'
    BY <1>2, <2>1, <2>2 DEF IInv, Linked, WriterAt
  <2>4. \A d \in Readers(n) : ReaderAt(n, d)'
    BY <2>1, <2>2 DEF IInv, Linked, ReaderAt
  <2>5. e.out = n => WriterAt(n, k)'
    BY <1>1, <2>2 DEF WriterAt, Making, Opening
  <2>6. e.in = n => ReaderAt(n, k)'
    BY <1>1, <2>2 DEF ReaderAt, Reading
  <2>7. QED
    BY <2>1, <2>2, <2>3, <2>4, <2>5, <2>6
<1>10. FileRemoved'
  BY <1>1, <1>2 DEF IInv, FileRemoved, Readers
<1>11. QED
  BY <1>5, <1>6, <1>7, <1>8, <1>9, <1>10 DEF IInv

LEMMA InsertInv == ASSUME IInv, NEW u \in User, insert_process(u) PROVE IInv'
<1>1. PICK c \in Child : IsLast(u, c)
  BY DEF IInv, Shells, insert_process
<1>2. Last(u) = c /\ procs[c] \in Proc /\ procs \in [Child -> Proc] /\ procs[c].user = u
  BY <1>1, LastOne, Children DEF IInv, IsLast
<1> DEFINE e == [procs[c] EXCEPT !.recorded = TRUE]
<1>3. /\ e \in Proc /\ e.recorded
      /\ e.user = u /\ e.out = procs[c].out /\ e.in = procs[c].in
      /\ e.w = procs[c].w /\ e.r = procs[c].r /\ e.at = procs[c].at
  BY <1>2 DEF Proc
<1>4. /\ procs' = [procs EXCEPT ![c] = e]
      /\ UNCHANGED <<pipes, from, to, waiting, file, early, killed, missed>>
  BY <1>2 DEF insert_process, table, history
<1> HIDE DEF e
<1>5. procs' \in [Child -> Proc]
  BY <1>2, <1>3, <1>4
<1>6. procs' \in Seq(Proc) /\ Child' = Child
  BY <1>5, Updated DEF IInv, Child
<1>7. /\ \A d \in Child \ {c} : procs'[d] = procs[d]
      /\ procs'[c] = e
      /\ \A d \in Child : /\ procs'[d].user = procs[d].user
                          /\ SameEnds(d) /\ procs'[d].at = procs[d].at
  BY <1>2, <1>3, <1>4 DEF SameEnds
<1>8. /\ Pending' = Pending /\ u \notin Pending
      /\ \A v \in User \ {u} : job'[v] = job[v] /\ sh'[v] = sh[v]
      /\ sh'[u] \in {"wait", "idle"}
  BY DEF IInv, Typed, insert_process, Pending
<1>9. Typed'
  BY <1>4, <1>6, UserFifoAssumption DEF IInv, Typed, insert_process, NoJob
<1>10. Handed'
  BY <1>4, <1>6, <1>7, <1>8 DEF IInv, Handed, SameEnds, Pending
<1>11. Shells'
  <2>1. \A v, d : d \in Child => (IsLast(v, d)' <=> IsLast(v, d))
    BY <1>6, <1>7 DEF IsLast
  <2>2. \A d \in Child : d # c /\ ~procs[d].recorded => procs[d].user # u
    BY <1>1, <1>2, Children DEF IInv, Shells, IsLast
  <2>3. \A d \in Child : procs[d].user \in User
    BY Children DEF IInv
  <2>4. QED
    BY <1>1, <1>2, <1>3, <1>6, <1>7, <1>8, <2>1, <2>2, <2>3 DEF IInv, Shells
<1>12. Alone' /\ Linked' /\ FileRemoved'
  BY <1>4, <1>6, <1>7, UserFifoAssumption, PlacesKept DEF IInv, Typed
<1>13. QED
  BY <1>9, <1>10, <1>11, <1>12 DEF IInv

LEMMA WaitInv == ASSUME IInv, NEW u \in User, Wait(u) PROVE IInv'
<1>1. PICK c \in Child : IsLast(u, c)
  BY DEF IInv, Shells, Wait
<1>2. Last(u) = c /\ procs[c] \in Proc
  BY <1>1, LastOne, Children DEF IInv
<1>3. OneMoves(c, procs[c].w, procs[c].r, "gone")
  BY <1>2, Stepped DEF IInv, Wait, Place
<1>4. Over(c) /\ procs[c].recorded
  BY <1>1, <1>2 DEF IInv, Shells, Wait, IsLast
<1>5. /\ file' = Unlinked({c}) /\ sh' = [sh EXCEPT ![u] = "idle"] /\ sh[u] = "wait"
      /\ UNCHANGED <<pipes, from, to, waiting, job, early, killed, missed>>
  BY <1>2 DEF Wait, table, history
<1>6. Typed'
  BY <1>3, <1>5 DEF IInv, Typed, OneMoves, Unlinked
<1>7. Handed'
  BY <1>3, <1>5, HandedKept DEF IInv, Typed, OneMoves, Pending
<1>8. Shells'
  BY <1>3, <1>5, ShellsKept DEF IInv, Typed, OneMoves
<1>9. Alone' /\ Linked' /\ FileRemoved'
  <2>1. \A d \in Child : /\ SameRole(d) /\ SameEnds(d)
                         /\ procs'[d].at = IF d \in {c} THEN "gone" ELSE procs[d].at
    BY <1>3 DEF OneMoves, SameRole, SameEnds
  <2>2. QED
    BY <1>3, <1>4, <1>5, <2>1, Reap DEF IInv, OneMoves
<1>10. QED
  BY <1>6, <1>7, <1>8, <1>9 DEF IInv

(* The children of C become gone in procs'.                                *)
LEMMA Buried ==
  ASSUME Typed, NEW C, C \subseteq Child,
         procs' = [c \in Child |-> IF c \in C THEN [procs[c] EXCEPT !.at = "gone"]
                                            ELSE procs[c]]
  PROVE  /\ procs' \in Seq(Proc) /\ Child' = Child
         /\ \A c \in Child : /\ SameRole(c) /\ SameEnds(c)
                             /\ procs'[c].at = IF c \in C THEN "gone" ELSE procs[c].at
<1>1. ASSUME NEW c \in Child
      PROVE  /\ procs'[c] \in Proc /\ SameRole(c) /\ SameEnds(c)
             /\ procs'[c].at = IF c \in C THEN "gone" ELSE procs[c].at
  BY Children DEF Proc, Place, SameRole, SameEnds
<1>2. procs' \in [Child -> Proc]
  BY <1>1
<1>3. QED
  BY <1>1, <1>2, Updated DEF Child

LEMMA HandlerInv == ASSUME IInv, NEW u \in User, child_handler(u) PROVE IInv'
<1> DEFINE Z == {c \in Child : procs[c].user = u /\ procs[c].at = "ended"}
<1>1. /\ Z \subseteq Child /\ \A c \in Z : Over(c)
      /\ procs' = [c \in Child |-> IF c \in Z THEN [procs[c] EXCEPT !.at = "gone"]
                                            ELSE procs[c]]
      /\ file' = Unlinked(Z)
      /\ missed' = missed \union {procs[c].in : c \in {d \in Z : ~procs[d].recorded}}
      /\ UNCHANGED <<pipes, from, to, waiting, sh, job, early, killed>>
  BY DEF child_handler, table, Over
<1> HIDE DEF Z
<1>2. /\ procs' \in Seq(Proc) /\ Child' = Child
      /\ \A c \in Child : /\ SameRole(c) /\ SameEnds(c)
                          /\ procs'[c].at = IF c \in Z THEN "gone" ELSE procs[c].at
  BY <1>1, Buried DEF IInv
<1>3. Typed'
  BY <1>1, <1>2 DEF IInv, Typed, Unlinked
<1>4. Handed'
  BY <1>1, <1>2, HandedKept DEF IInv, Pending
<1>5. Shells'
  BY <1>1, <1>2, ShellsKept DEF IInv
<1>6. Alone' /\ Linked' /\ FileRemoved'
  <2>1. missed \subseteq missed' /\ \A c \in Z : procs[c].recorded \/ procs[c].in \in missed'
    BY <1>1
  <2>2. QED
    BY <1>1, <1>2, <2>1, Reap DEF IInv
<1>7. QED
  BY <1>3, <1>4, <1>5, <1>6 DEF IInv

LEMMA ExitInv == ASSUME IInv, NEW u \in User, Exit(u) PROVE IInv'
<1> DEFINE K == {c \in Child : procs[c].user = u}
           L == UNION {{procs[c].in, procs[c].out} : c \in {d \in K : ~Over(d)}}
<1>1. /\ K \subseteq Child
      /\ procs' = [c \in Child |-> IF c \in K THEN [procs[c] EXCEPT !.at = "gone"]
                                            ELSE procs[c]]
      /\ file' = Unlinked(K)
      /\ killed' = killed \union L
      /\ sh[u] = "idle" /\ sh' = [sh EXCEPT ![u] = "leaving"]
      /\ UNCHANGED <<pipes, from, to, waiting, job, early, missed>>
  BY DEF Exit, table
<1>2. \A c \in K : Over(c) \/ (procs[c].in \in L /\ procs[c].out \in L)
  OBVIOUS
<1>3. \A c \in K : procs[c].recorded
  BY <1>1 DEF IInv, Shells
<1> HIDE DEF K, L
<1>4. /\ procs' \in Seq(Proc) /\ Child' = Child
      /\ \A c \in Child : /\ SameRole(c) /\ SameEnds(c)
                          /\ procs'[c].at = IF c \in K THEN "gone" ELSE procs[c].at
  BY <1>1, Buried DEF IInv
<1>5. Typed'
  BY <1>1, <1>4 DEF IInv, Typed, Unlinked
<1>6. Handed'
  BY <1>1, <1>4, HandedKept DEF IInv, Typed, Pending
<1>7. Shells'
  BY <1>1, <1>4, ShellsKept DEF IInv, Typed
<1>8. Alone' /\ Linked' /\ FileRemoved'
  BY <1>1, <1>2, <1>3, <1>4, Reap DEF IInv
<1>9. QED
  BY <1>5, <1>6, <1>7, <1>8 DEF IInv

(* exit without killing, and "left", change no process and no file.        *)
LEMMA LeavingInv == ASSUME IInv, NEW u \in User, HangUp(u) \/ Left(u) PROVE IInv'
<1>1. /\ sh[u] \in {"idle", "leaving"} /\ waiting' \subseteq waiting
      /\ sh' = [sh EXCEPT ![u] = "leaving"] \/ sh' = [sh EXCEPT ![u] = "off"]
      /\ UNCHANGED <<pipes, from, to, file, job, procs, early, killed, missed>>
  BY DEF HangUp, Left, table, history
<1>2. /\ Child' = Child
      /\ \A c \in Child : SameRole(c) /\ SameEnds(c) /\ procs'[c].at = procs[c].at
  BY <1>1 DEF Child, SameRole, SameEnds
<1>3. Typed'
  BY <1>1 DEF IInv, Typed
<1>4. Handed'
  BY <1>1, <1>2, HandedKept DEF IInv, Typed, Pending
<1>5. Shells'
  BY <1>1, <1>2, ShellsKept DEF IInv, Typed
<1>6. Alone' /\ Linked' /\ FileRemoved'
  BY <1>1, <1>2, UserFifoAssumption, PlacesKept DEF IInv, Typed
<1>7. QED
  BY <1>3, <1>4, <1>5, <1>6 DEF IInv

-----------------------------------------------------------------------------
(* The steps of the children.  Each moves one child, or two in Meet.       *)

(* What a step of the children M leaves to be shown: the pipes they are at *)
(* an end of.                                                              *)
OnlyMove(M) ==
  /\ Child' = Child
  /\ \A c \in Child : SameRole(c)
  /\ \A c \in Child \ M : SameEnds(c) /\ procs'[c].at = procs[c].at

(* What is to be shown for the pipe that c writes, and for that it reads.   *)
OutLinked(c, M) ==
  \A n \in Sound' : procs[c].out = n =>
    WriterAt(n, c)' /\ \A d \in Readers(n) \ M : ReaderAt(n, d)'
InLinked(c, M) ==
  \A n \in Sound' : procs[c].in = n =>
    ReaderAt(n, c)' /\ \A d \in Writers(n) \ M : WriterAt(n, d)'

LEMMA LinkedBy ==
  ASSUME IInv, NEW M, M \subseteq Child, OnlyMove(M),
         killed' = killed, early \subseteq early',
         \A n \in Number : file'[n] = file[n] \/ \E c \in M : n = procs[c].out,
         \A c \in M : OutLinked(c, M) /\ InLinked(c, M)
  PROVE  Linked'
<1>1. \A n : Writers(n)' = Writers(n) /\ Readers(n)' = Readers(n)
  BY DEF OnlyMove, SameRole, Writers, Readers
<1> SUFFICES ASSUME NEW n \in Sound'
             PROVE  /\ \A d \in Writers(n) : WriterAt(n, d)'
                    /\ \A d \in Readers(n) : ReaderAt(n, d)'
  BY <1>1 DEF Linked
<1>2. /\ n \in Sound /\ n \in Number
      /\ \A d \in Writers(n) : d \in Child /\ procs[d].out = n
      /\ \A d \in Readers(n) : d \in Child /\ procs[d].in = n
  BY DEF Sound, Writers, Readers
<1>3. \A d \in Child \ M : SameEnds(d) /\ procs'[d].at = procs[d].at
  BY DEF OnlyMove
<1>4. CASE \A c \in M : procs[c].out # n /\ procs[c].in # n
  <2>1. /\ file'[n] = file[n]
        /\ \A e \in Writers(n) : e \notin M /\ WriterAt(n, e)
        /\ \A e \in Readers(n) : e \notin M /\ ReaderAt(n, e)
    BY <1>2, <1>4 DEF IInv, Linked
  <2>2. ASSUME NEW d \in Writers(n)
        PROVE  WriterAt(n, d)'
    BY <1>1, <1>2, <1>3, <2>1 DEF WriterAt, SameEnds
  <2>3. ASSUME NEW d \in Readers(n)
        PROVE  ReaderAt(n, d)'
    BY <1>1, <1>2, <1>3, <2>1 DEF ReaderAt, SameEnds
  <2>4. QED
    BY <2>2, <2>3
<1>5. ASSUME NEW d \in Writers(n), NEW c \in M, procs[c].out = n \/ procs[c].in = n
      PROVE  WriterAt(n, d)'
  <2>1. CASE d \in M
    BY <1>2, <2>1 DEF OutLinked
  <2>2. CASE d \notin M
    <3>1. procs[c].out # n
      BY <1>2, <2>2, OneEach DEF IInv, Writers
    <3>2. QED
      BY <1>5, <2>2, <3>1 DEF InLinked
  <2>3. QED
    BY <2>1, <2>2
<1>6. ASSUME NEW d \in Readers(n), NEW c \in M, procs[c].out = n \/ procs[c].in = n
      PROVE  ReaderAt(n, d)'
  <2>1. CASE d \in M
    BY <1>2, <2>1 DEF InLinked
  <2>2. CASE d \notin M
    <3>1. procs[c].in # n
      BY <1>2, <2>2, OneEach DEF IInv, Readers
    <3>2. QED
      BY <1>6, <2>2, <3>1 DEF OutLinked
  <2>3. QED
    BY <2>1, <2>2
<1>7. QED
  BY <1>4, <1>5, <1>6

(* Nobody is reaped in a step of the children, no file appears behind a    *)
(* reader who has gone or goes under one who has the pipe open, and who    *)
(* gets it open finds the file there.                                      *)
LEMMA RemovedBy ==
  ASSUME IInv, NEW M, M \subseteq Child, OnlyMove(M), pipes' = pipes,
         killed' = killed, missed' = missed, early \subseteq early',
         \A c \in M :
           /\ procs'[c].at # "gone"
           /\ procs'[c].at \in {"run", "ended"} /\ procs[c].in \in Sound' =>
                procs[c].at \in {"run", "ended"} \/ file'[procs[c].in] = "new",
         \A n \in Number :
           \/ file'[n] = file[n]
           \/ \E c \in M : procs[c].out = n /\ procs[c].at \in Making
  PROVE  FileRemoved'
<1> SUFFICES ASSUME NEW n \in ((1..pipes) \ (early \union killed \union missed))',
                    NEW d \in Readers(n)'
             PROVE  /\ procs'[d].at = "gone" => file'[n] = "none"
                    /\ procs'[d].at \in {"run", "ended"} => file'[n] = "new"
  BY DEF FileRemoved
<1>1. /\ n \in (1..pipes) \ (early \union killed \union missed)
      /\ n \in Sound /\ n \in Sound' /\ n \in Number
      /\ d \in Readers(n) /\ d \in Child /\ procs[d].in = n
  BY UserFifoAssumption DEF IInv, Typed, Number, Sound, OnlyMove, SameRole, Readers
<1>2. CASE procs[d].at \notin Reading
  <2>1. d \in M \/ procs'[d].at = procs[d].at
    BY <1>1 DEF OnlyMove
  <2>2. QED
    BY <1>1, <1>2, <2>1 DEF Reading
<1>3. CASE procs[d].at \in Reading
  <2>1. ASSUME NEW c \in M, procs[c].out = n, procs[c].at \in Making
        PROVE  FALSE
    <3>1. c \in Writers(n)
      BY <2>1 DEF Writers
    <3>2. \E e \in Writers(n) : procs[e].at \notin Making
      BY <1>1, <1>3 DEF IInv, Linked, ReaderAt
    <3>3. QED
      BY <1>1, <2>1, <3>1, <3>2, OneEach DEF IInv
  <2>2. file'[n] = file[n]
    BY <1>1, <2>1
  <2>3. CASE procs'[d].at = "gone"
    <3>1. procs[d].at = "gone"
      BY <1>1, <2>3 DEF OnlyMove
    <3>2. QED
      BY <1>1, <2>2, <2>3, <3>1 DEF IInv, FileRemoved
  <2>4. CASE procs'[d].at \in {"run", "ended"}
    <3>1. \/ procs[d].at \in {"run", "ended"} \/ file'[n] = "new"
      BY <1>1, <2>4 DEF OnlyMove
    <3>2. QED
      BY <1>1, <2>2, <2>4, <3>1 DEF IInv, FileRemoved
  <2>5. QED
    BY <2>3, <2>4
<1>4. QED
  BY <1>2, <1>3

(* While c has not opened its input, the writer has not been let through.  *)
LEMMA InputWaits ==
  ASSUME IInv, NEW c \in Child, NEW M, M \subseteq Child, OnlyMove(M),
         procs[c].at \notin Reading \union {"blockr"},
         procs'[c].at \notin Reading \union {"blockr"}, procs'[c].r = procs[c].r,
         killed' = killed, early \subseteq early',
         \A n \in Number : file'[n] = file[n] \/ \E d \in M : n = procs[d].out
  PROVE  InLinked(c, M)
<1> SUFFICES ASSUME NEW n \in Sound', procs[c].in = n
             PROVE  ReaderAt(n, c)' /\ \A d \in Writers(n) \ M : WriterAt(n, d)'
  BY DEF InLinked
<1>1. c \in Readers(n) /\ n \in Number /\ n \in Sound /\ ReaderAt(n, c)
  BY DEF IInv, Linked, Readers, Sound
<1>2. ReaderAt(n, c)'
  BY <1>1 DEF ReaderAt
<1>3. ASSUME NEW d \in Writers(n) \ M
      PROVE  WriterAt(n, d)'
  <2>1. WriterAt(n, d) /\ d \in Child /\ procs[d].out = n
    BY <1>1 DEF IInv, Linked, Writers
  <2>2. procs[d].at \in Making \union Opening
    BY <1>1, <2>1, OneEach DEF IInv, WriterAt
  <2>3. file'[n] = file[n]
    BY <1>1, <2>1, OneEach DEF IInv, Writers
  <2>4. QED
    BY <2>1, <2>2, <2>3 DEF WriterAt, OnlyMove, SameEnds
<1>4. QED
  BY <1>2, <1>3

(* Once c has its output open, the reader has been let through.            *)
LEMMA OutputDone ==
  ASSUME IInv, NEW c \in Child, NEW M, M \subseteq Child, OnlyMove(M),
         procs[c].at \notin Making \union Opening,
         procs'[c].at \notin Making \union Opening, procs'[c].w = procs[c].w,
         \A d \in M : procs[d].at \in Reading => procs'[d].at \in Reading,
         killed' = killed, early \subseteq early', file' = file
  PROVE  OutLinked(c, M)
<1> SUFFICES ASSUME NEW n \in Sound', procs[c].out = n
             PROVE  WriterAt(n, c)' /\ \A d \in Readers(n) \ M : ReaderAt(n, d)'
  BY DEF OutLinked
<1>1. c \in Writers(n) /\ n \in Number /\ n \in Sound /\ WriterAt(n, c)
  BY DEF IInv, Linked, Writers, Sound
<1>2. WriterAt(n, c)'
  <2>1. PICK d \in Readers(n) : procs[d].at \in Reading
    BY <1>1 DEF WriterAt
  <2>2. d \in Readers(n)' /\ procs'[d].at \in Reading
    BY <2>1 DEF OnlyMove, SameRole, SameEnds, Readers
  <2>3. QED
    BY <1>1, <2>2 DEF WriterAt, Making, Opening
<1>3. ASSUME NEW d \in Readers(n) \ M
      PROVE  ReaderAt(n, d)'
  <2>1. ReaderAt(n, d) /\ d \in Child
    BY <1>1 DEF IInv, Linked, Readers
  <2>2. procs[d].at # "blockr"
    BY <1>1, <2>1, OneEach DEF IInv, ReaderAt
  <2>3. c \in Writers(n)'
    BY <1>1 DEF OnlyMove, SameRole, Writers
  <2>4. QED
    BY <2>1, <2>2, <2>3 DEF ReaderAt, OnlyMove, SameEnds
<1>4. QED
  BY <1>2, <1>3

LEMMA OneIsOnly ==
  ASSUME NEW c, NEW w, NEW r, NEW p, OneMoves(c, w, r, p)
  PROVE  OnlyMove({c})
BY DEF OneMoves, OnlyMove

(* What a step of one child has to show: the rest of the invariant follows.*)
LEMMA ChildMoves ==
  ASSUME IInv, NEW c \in Child, NEW w, NEW r, NEW p, OneMoves(c, w, r, p), p # "gone",
         UNCHANGED <<pipes, from, to, waiting, sh, job, killed, missed>>,
         early \subseteq early', file' \in [Number -> {"none", "old", "new"}],
         \A n \in Number : file'[n] = file[n] \/ n = procs[c].out,
         \A n \in Number : file'[n] = file[n] \/ procs[c].at \in Making,
         p \in {"run", "ended"} =>
           procs[c].at \in {"run", "ended"} \/ procs[c].in \notin Sound',
         p \in Making \union Opening => procs[c].out # 0,
         p \in {"openr", "blockr"} => procs[c].in # 0,
         procs[c].out = 0 => w = "none",
         procs[c].in = 0 => r = "none",
         OutLinked(c, {c}), InLinked(c, {c})
  PROVE  IInv'
<1>1. Typed'
  BY DEF IInv, Typed, OneMoves
<1>2. Handed' /\ Shells'
  BY HandedKept, ShellsKept DEF IInv, OneMoves, Pending
<1>3. Alone'
  BY DEF IInv, Alone, OneMoves, SameEnds, SameRole
<1>4. OnlyMove({c})
  BY OneIsOnly
<1>5. {c} \subseteq Child /\ \A d \in {c} : OutLinked(d, {c}) /\ InLinked(d, {c})
  OBVIOUS
<1>6. \A n \in Number : file'[n] = file[n] \/ \E d \in {c} : n = procs[d].out
  OBVIOUS
<1>7. Linked'
  BY <1>4, <1>5, <1>6, LinkedBy
<1>8. \A n \in Number :
        \/ file'[n] = file[n]
        \/ \E d \in {c} : procs[d].out = n /\ procs[d].at \in Making
  OBVIOUS
<1>9. \A d \in {c} :
        /\ procs'[d].at # "gone"
        /\ procs'[d].at \in {"run", "ended"} /\ procs[d].in \in Sound' =>
             procs[d].at \in {"run", "ended"}
  BY DEF OneMoves
<1>10. FileRemoved'
  BY <1>4, <1>5, <1>8, <1>9, RemovedBy
<1>11. QED
  BY <1>1, <1>2, <1>3, <1>7, <1>10 DEF IInv

LEMMA InputOf ==
  ASSUME IInv, NEW c \in Child, NEW w, NEW p, OneMoves(c, w, procs[c].r, p),
         procs[c].at \notin Reading \union {"blockr"}, p \notin Reading \union {"blockr"},
         killed' = killed, early \subseteq early',
         \A n \in Number : file'[n] = file[n] \/ n = procs[c].out
  PROVE  InLinked(c, {c})
<1>1. OnlyMove({c}) /\ {c} \subseteq Child
  BY OneIsOnly
<1>2. \A n \in Number : file'[n] = file[n] \/ \E d \in {c} : n = procs[d].out
  OBVIOUS
<1>3. procs'[c].at \notin Reading \union {"blockr"} /\ procs'[c].r = procs[c].r
  BY DEF OneMoves
<1>4. QED
  BY <1>1, <1>2, <1>3, InputWaits

LEMMA OutputOf ==
  ASSUME IInv, NEW c \in Child, NEW r, NEW p, OneMoves(c, procs[c].w, r, p),
         procs[c].at \notin Making \union Opening, p \notin Making \union Opening,
         procs[c].at \in Reading => p \in Reading,
         killed' = killed, early \subseteq early', file' = file
  PROVE  OutLinked(c, {c})
<1>1. OnlyMove({c}) /\ {c} \subseteq Child
  BY OneIsOnly
<1>2. /\ procs'[c].at \notin Making \union Opening /\ procs'[c].w = procs[c].w
      /\ \A d \in {c} : procs[d].at \in Reading => procs'[d].at \in Reading
  BY DEF OneMoves
<1>3. QED
  BY <1>1, <1>2, OutputDone

LEMMA UnlinkInv == ASSUME IInv, NEW c \in Child, Unlink(c) PROVE IInv'
<1>1. /\ procs[c] \in Proc /\ procs[c].at = "unlink" /\ procs[c].out \in Number
  BY Children, UserFifoAssumption DEF IInv, Unlink, Alone, Making, Proc, Number
<1>2. OneMoves(c, procs[c].w, procs[c].r, "mknod")
  BY Stepped DEF IInv, Unlink, Place
<1>3. /\ file' = [file EXCEPT ![procs[c].out] = "none"]
      /\ UNCHANGED <<pipes, from, to, waiting, sh, job, early, killed, missed>>
  BY DEF Unlink, table, history
<1>4. OutLinked(c, {c})
  <2> SUFFICES ASSUME NEW n \in Sound', procs[c].out = n
               PROVE  WriterAt(n, c)' /\ \A d \in Readers(n) \ {c} : ReaderAt(n, d)'
    BY DEF OutLinked
  <2>1. c \in Writers(n) /\ n \in Number /\ n \in Sound
    BY <1>3 DEF Writers, Sound
  <2>2. WriterAt(n, c)'
    BY <1>1, <1>2, <2>1 DEF IInv, Linked, WriterAt, OneMoves, Making, Opening
  <2>3. ASSUME NEW d \in Readers(n) \ {c}
        PROVE  ReaderAt(n, d)'
    <3>1. ReaderAt(n, d) /\ d \in Child
      BY <2>1 DEF IInv, Linked, Readers
    <3>2. procs[d].at \notin Reading \union {"blockr"}
      BY <1>1, <2>1, <3>1, OneEach DEF IInv, ReaderAt, Making, Opening, Reading
    <3>3. QED
      BY <1>2, <3>1, <3>2 DEF ReaderAt, OneMoves, SameEnds, Reading
  <2>4. QED
    BY <2>2, <2>3
<1>5. /\ file' \in [Number -> {"none", "old", "new"}]
      /\ \A n \in Number : file'[n] = file[n] \/ n = procs[c].out
      /\ procs[c].at \in Making
  BY <1>1, <1>3 DEF IInv, Typed, Making
<1>6. /\ procs[c].at \notin Reading \union {"blockr"}
      /\ "mknod" \notin Reading \union {"blockr"}
      /\ procs[c].out # 0
      /\ procs[c].in = 0 => procs[c].r = "none"
  BY <1>1, UserFifoAssumption DEF Reading, Number, IInv, Alone
<1>7. InLinked(c, {c})
  BY <1>2, <1>3, <1>5, <1>6, InputOf
<1>8. QED
  BY <1>2, <1>3, <1>4, <1>5, <1>6, <1>7, ChildMoves

LEMMA MknodInv == ASSUME IInv, NEW c \in Child, Mknod(c) PROVE IInv'
<1>1. /\ procs[c] \in Proc /\ procs[c].at = "mknod" /\ procs[c].out \in Number
  BY Children, UserFifoAssumption DEF IInv, Mknod, Alone, Making, Proc, Number
<1>2. OneMoves(c, procs[c].w, procs[c].r, "openw")
  BY Stepped DEF IInv, Mknod, Place
<1>3. /\ file' = [file EXCEPT ![procs[c].out] = "new"]
      /\ UNCHANGED <<pipes, from, to, waiting, sh, job, early, killed, missed>>
  BY DEF Mknod, table, history
<1>4. OutLinked(c, {c})
  <2> SUFFICES ASSUME NEW n \in Sound', procs[c].out = n
               PROVE  WriterAt(n, c)' /\ \A d \in Readers(n) \ {c} : ReaderAt(n, d)'
    BY DEF OutLinked
  <2>1. c \in Writers(n) /\ n \in Number /\ n \in Sound
    BY <1>3 DEF Writers, Sound
  <2>2. file'[n] = "new"
    BY <1>3, <2>1 DEF IInv, Typed
  <2>3. WriterAt(n, c)'
    BY <1>1, <1>2, <2>1, <2>2 DEF IInv, Linked, WriterAt, OneMoves, Making, Opening
  <2>4. ASSUME NEW d \in Readers(n) \ {c}
        PROVE  ReaderAt(n, d)'
    <3>1. ReaderAt(n, d) /\ d \in Child
      BY <2>1 DEF IInv, Linked, Readers
    <3>2. procs[d].at \notin Reading \union {"blockr"}
      BY <1>1, <2>1, <3>1, OneEach DEF IInv, ReaderAt, Making, Opening, Reading
    <3>3. QED
      BY <1>2, <3>1, <3>2 DEF ReaderAt, OneMoves, SameEnds, Reading
  <2>5. QED
    BY <2>3, <2>4
<1>5. /\ file' \in [Number -> {"none", "old", "new"}]
      /\ \A n \in Number : file'[n] = file[n] \/ n = procs[c].out
      /\ procs[c].at \in Making
  BY <1>1, <1>3 DEF IInv, Typed, Making
<1>6. /\ procs[c].at \notin Reading \union {"blockr"}
      /\ "openw" \notin Reading \union {"blockr"}
      /\ procs[c].out # 0
      /\ procs[c].in = 0 => procs[c].r = "none"
  BY <1>1, UserFifoAssumption DEF Reading, Number, IInv, Alone
<1>7. InLinked(c, {c})
  BY <1>2, <1>3, <1>5, <1>6, InputOf
<1>8. QED
  BY <1>2, <1>3, <1>4, <1>5, <1>6, <1>7, ChildMoves

LEMMA OpenOutInv == ASSUME IInv, NEW c \in Child, OpenOut(c) PROVE IInv'
<1>1. /\ procs[c] \in Proc /\ procs[c].at = "openw" /\ procs[c].out \in Number
  BY Children, UserFifoAssumption DEF IInv, OpenOut, Alone, Opening, Proc, Number
<1> DEFINE f == file[procs[c].out]
           w == IF f = "none" THEN "client" ELSE f
           p == IF f = "none" THEN AfterOut(c) ELSE "blockw"
<1>2. /\ procs' = [procs EXCEPT ![c].w = w, ![c].at = p]
      /\ UNCHANGED <<pipes, from, to, waiting, file, sh, job, early, killed, missed>>
  BY DEF OpenOut, table, history
<1>3. w \in Open /\ p \in {"openr", "run", "blockw"} /\ procs[c].r \in Open
  BY <1>1 DEF IInv, Typed, Open, AfterOut, Proc
<1>4. /\ p = "openr" => procs[c].in # 0
      /\ procs[c].out \in Sound => p = "blockw" /\ w = "new" /\ f = "new"
      /\ p = "run" \/ p = "openr" => procs[c].out \notin Sound
  BY <1>1 DEF IInv, Linked, WriterAt, Opening, AfterOut, Writers, Sound
<1> HIDE DEF w, p, f
<1>5. procs' = [procs EXCEPT ![c] = [procs[c] EXCEPT !.w = w, !.r = procs[c].r, !.at = p]]
  BY <1>1, <1>2, Children DEF IInv, Proc
<1>6. OneMoves(c, w, procs[c].r, p)
  BY <1>3, <1>5, Moved DEF IInv, Place
<1>7. OutLinked(c, {c})
  <2> SUFFICES ASSUME NEW n \in Sound', procs[c].out = n
               PROVE  WriterAt(n, c)' /\ \A d \in Readers(n) \ {c} : ReaderAt(n, d)'
    BY DEF OutLinked
  <2>1. c \in Writers(n) /\ n \in Number /\ n \in Sound
    BY <1>2 DEF Writers, Sound
  <2>2. WriterAt(n, c)'
    BY <1>2, <1>4, <1>6, <2>1 DEF WriterAt, OneMoves, Making, Opening, f
  <2>3. ASSUME NEW d \in Readers(n) \ {c}
        PROVE  ReaderAt(n, d)'
    <3>1. ReaderAt(n, d) /\ d \in Child
      BY <2>1 DEF IInv, Linked, Readers
    <3>2. procs[d].at \notin Reading
      BY <1>1, <2>1, <3>1, OneEach DEF IInv, ReaderAt, Making, Opening, Reading
    <3>3. c \in Writers(n)' /\ procs'[c].at \in Opening
      BY <1>4, <1>6, <2>1 DEF Writers, OneMoves, SameRole, Opening
    <3>4. QED
      BY <1>6, <3>1, <3>2, <3>3 DEF ReaderAt, OneMoves, SameEnds, Reading
  <2>4. QED
    BY <2>2, <2>3
<1>8. /\ file' \in [Number -> {"none", "old", "new"}] /\ file' = file
      /\ procs[c].at \notin Reading \union {"blockr"}
      /\ procs[c].out # 0
      /\ procs[c].in = 0 => procs[c].r = "none"
  BY <1>1, <1>2, UserFifoAssumption DEF Reading, Number, IInv, Typed, Alone
<1>9. InLinked(c, {c})
  <2>1. CASE p \in {"openr", "blockw"}
    <3>1. p \notin Reading \union {"blockr"}
      BY <2>1 DEF Reading
    <3>2. QED
      BY <1>2, <1>6, <1>8, <3>1, InputOf
  <2>2. CASE p = "run"
    <3>1. procs[c].in = 0
      BY <2>2 DEF p, AfterOut
    <3>2. QED
      BY <3>1, UserFifoAssumption DEF InLinked, Sound, Number
  <2>3. QED
    BY <1>3, <2>1, <2>2
<1>10. /\ p # "gone" /\ (p \in {"openr", "blockr"} => procs[c].in # 0)
       /\ p \in {"run", "ended"} => procs[c].in \notin Sound'
  <2>1. p = "run" => procs[c].in = 0
    BY DEF p, AfterOut
  <2>2. QED
    BY <1>3, <1>4, <2>1, UserFifoAssumption DEF Sound, Number
<1>11. QED
  BY <1>2, <1>6, <1>7, <1>8, <1>9, <1>10, ChildMoves

LEMMA OpenInInv == ASSUME IInv, NEW c \in Child, OpenIn(c) PROVE IInv'
<1>1. /\ procs[c] \in Proc /\ procs[c].at = "openr" /\ procs[c].in \in Number
  BY Children, UserFifoAssumption DEF IInv, OpenIn, Alone, Proc, Number
<1> DEFINE f == file[procs[c].in]
           r == IF f = "none" THEN "client" ELSE f
           p == IF f = "none" THEN "run" ELSE "blockr"
<1>2. /\ procs' = [procs EXCEPT ![c].r = r, ![c].at = p]
      /\ early \subseteq early'
      /\ \/ procs[c].in \in early'
         \/ \E d \in Writers(procs[c].in) : procs[d].at \notin Making
      /\ UNCHANGED <<pipes, from, to, waiting, file, sh, job, killed, missed>>
  BY DEF OpenIn, table, Making
<1>3. r \in Open /\ p \in {"run", "blockr"} /\ procs[c].w \in Open
  BY <1>1 DEF IInv, Typed, Open, Proc
<1>4. ASSUME NEW n \in Sound', procs[c].in = n
      PROVE  \A d \in Writers(n) : procs[d].at \in Opening /\ file[n] = "new"
  <2>1. n \in Sound /\ n \in Number /\ c \in Readers(n)
    BY <1>2, <1>4 DEF Sound, Readers
  <2>2. PICK d \in Writers(n) : procs[d].at \notin Making
    BY <1>2, <1>4 DEF Sound
  <2>3. WriterAt(n, d)
    BY <2>1 DEF IInv, Linked
  <2>4. procs[d].at \in Opening
    BY <1>1, <2>1, <2>2, <2>3, OneEach DEF IInv, WriterAt, Reading
  <2>5. QED
    BY <2>1, <2>3, <2>4, OneEach DEF IInv, WriterAt
<1>5. ASSUME NEW n \in Sound', procs[c].in = n
      PROVE  (\E d \in Writers(n) : procs[d].at \in Opening) /\ file[n] = "new"
  BY <1>2, <1>4, <1>5 DEF Sound
<1> HIDE DEF r, p, f
<1>6. procs' = [procs EXCEPT ![c] = [procs[c] EXCEPT !.w = procs[c].w, !.r = r, !.at = p]]
  BY <1>1, <1>2, Children DEF IInv, Proc
<1>7. OneMoves(c, procs[c].w, r, p)
  BY <1>3, <1>6, Moved DEF IInv, Place
<1>8. InLinked(c, {c})
  <2> SUFFICES ASSUME NEW n \in Sound', procs[c].in = n
               PROVE  ReaderAt(n, c)' /\ \A d \in Writers(n) \ {c} : WriterAt(n, d)'
    BY DEF InLinked
  <2>1. n \in Sound /\ p = "blockr" /\ r = "new"
    BY <1>2, <1>5 DEF Sound, p, r, f
  <2>2. PICK d \in Writers(n) : procs[d].at \in Opening
    BY <1>5
  <2>3. d # c /\ d \in Writers(n)' /\ procs'[d].at \in Opening
    BY <1>1, <1>7, <2>2 DEF OneMoves, SameRole, Writers, Opening
  <2>4. ReaderAt(n, c)'
    BY <1>7, <2>1, <2>3 DEF ReaderAt, OneMoves, Reading
  <2>5. ASSUME NEW e \in Writers(n) \ {c}
        PROVE  WriterAt(n, e)'
    <3>1. WriterAt(n, e) /\ e \in Child /\ procs[e].at \in Opening
      BY <1>4, <2>1 DEF IInv, Linked, Writers
    <3>2. QED
      BY <1>2, <1>7, <3>1 DEF WriterAt, OneMoves, SameEnds
  <2>6. QED
    BY <2>4, <2>5
<1>9. /\ file' \in [Number -> {"none", "old", "new"}] /\ file' = file
      /\ procs[c].at \notin Making \union Opening /\ p \notin Making \union Opening
      /\ procs[c].at \notin Reading /\ procs[c].in # 0 /\ p # "gone"
      /\ procs[c].out = 0 => procs[c].w = "none"
  BY <1>1, <1>2, <1>3, UserFifoAssumption
     DEF Reading, Number, Making, Opening, IInv, Typed, Alone
<1>10. OutLinked(c, {c})
  BY <1>2, <1>7, <1>9, OutputOf
<1>11. p \in {"run", "ended"} => procs[c].in \notin Sound'
  BY <1>3, <1>5 DEF p, f
<1>12. QED
  BY <1>2, <1>3, <1>7, <1>8, <1>9, <1>10, <1>11, ChildMoves

LEMMA EndsInv == ASSUME IInv, NEW c \in Child, Ends(c) PROVE IInv'
<1>1. procs[c] \in Proc /\ procs[c].at = "run"
  BY Children DEF IInv, Ends
<1>2. OneMoves(c, procs[c].w, procs[c].r, "ended")
  BY Stepped DEF IInv, Ends, Place
<1>3. UNCHANGED <<pipes, from, to, waiting, file, sh, job, early, killed, missed>>
  BY DEF Ends, table, history
<1>4. /\ file' \in [Number -> {"none", "old", "new"}] /\ file' = file
      /\ procs[c].at \notin Making \union Opening
      /\ "ended" \notin Making \union Opening /\ "ended" \in Reading
      /\ procs[c].out = 0 => procs[c].w = "none"
      /\ procs[c].in = 0 => procs[c].r = "none"
  BY <1>1, <1>3 DEF Reading, Making, Opening, IInv, Typed, Alone
<1>5. OutLinked(c, {c})
  BY <1>2, <1>3, <1>4, OutputOf
<1>6. InLinked(c, {c})
  <2> SUFFICES ASSUME NEW n \in Sound', procs[c].in = n
               PROVE  ReaderAt(n, c)' /\ \A d \in Writers(n) \ {c} : WriterAt(n, d)'
    BY DEF InLinked
  <2>1. /\ n \in Sound /\ c \in Readers(n) /\ c \in Readers(n)'
        /\ procs'[c].at = "ended" /\ procs'[c].r = procs[c].r
    BY <1>2, <1>3 DEF Sound, Readers, OneMoves, SameRole
  <2>2. PICK d \in Writers(n) : procs[d].at \notin Making \union Opening
    BY <1>1, <2>1 DEF IInv, Linked, ReaderAt, Reading
  <2>3. d \in Writers(n)' /\ procs'[d].at \notin Making \union Opening
    BY <1>2, <2>2 DEF OneMoves, SameRole, Writers, Making, Opening
  <2>4. ReaderAt(n, c)'
    BY <1>1, <2>1, <2>3 DEF IInv, Linked, ReaderAt, Reading
  <2>5. ASSUME NEW e \in Writers(n) \ {c}
        PROVE  WriterAt(n, e)'
    <3>1. WriterAt(n, e) /\ e \in Child
      BY <2>1 DEF IInv, Linked, Writers
    <3>2. QED
      BY <1>2, <1>3, <1>4, <2>1, <3>1 DEF WriterAt, OneMoves, SameEnds
  <2>6. QED
    BY <2>4, <2>5
<1>7. QED
  BY <1>1, <1>2, <1>3, <1>4, <1>5, <1>6, ChildMoves

LEMMA MeetInv == ASSUME IInv, NEW c \in Child, NEW d \in Child, Meet(c, d) PROVE IInv'
<1> DEFINE M == {c, d}
           p == AfterOut(c)
<1>0. PICK n : n = procs[c].out
  OBVIOUS
<1>1. /\ procs[c].at = "blockw" /\ procs[d].at = "blockr" /\ c # d
      /\ procs[c].out = n /\ procs[d].in = n /\ procs[c] \in Proc 
      /\ procs[d] \in Proc /\ n # 0
      /\ procs' = [procs EXCEPT ![c].at = p, ![d].at = "run"]
      /\ UNCHANGED <<pipes, from, to, waiting, file, sh, job, early, killed, missed>>
  BY <1>0, Children DEF IInv, Meet, Alone, Opening, table, history
<1>2. /\ p \in {"openr", "run"}
      /\ p = "openr" => procs[c].in # 0
      /\ p = "run" => procs[c].in = 0
  BY DEF AfterOut
<1> HIDE DEF p
<1>3. ASSUME NEW e \in Child
      PROVE  /\ procs'[e] \in Proc /\ SameRole(e) /\ SameEnds(e)
             /\ procs'[e].at = IF e = c THEN p ELSE IF e = d THEN "run" ELSE procs[e].at
  <2>1. procs[e] \in Proc /\ procs \in [Child -> Proc]
    BY Children DEF IInv
  <2>2. procs'[e] = [procs[e] EXCEPT !.at = IF e = c THEN p
                                            ELSE IF e = d THEN "run" ELSE procs[e].at]
    BY <1>1, <2>1 DEF Proc
  <2>3. QED
    BY <1>2, <2>1, <2>2 DEF Proc, Place, SameRole, SameEnds
<1>4. procs' \in Seq(Proc) /\ Child' = Child
  <2>1. procs' \in [Child -> Proc]
    BY <1>1, <1>3, Children DEF IInv
  <2>2. QED
    BY <2>1, Updated DEF IInv, Child
<1>5. Typed'
  BY <1>1, <1>4 DEF IInv, Typed
<1>6. Handed' /\ Shells'
  BY <1>1, <1>3, <1>4, HandedKept, ShellsKept DEF IInv, Pending
<1>7. Alone'
  <2>1. \A e \in Child : procs'[e].at \in Making \union Opening => e # c /\ e # d
    BY <1>2, <1>3 DEF Making, Opening
  <2>2. \A e \in Child : procs'[e].at \in {"openr", "blockr"} => procs[e].in # 0
    BY <1>2, <1>3 DEF IInv, Alone
  <2>3. QED
    BY <1>3, <1>4, <2>1, <2>2 DEF IInv, Alone, SameEnds
<1>8. OnlyMove(M) /\ M \subseteq Child
  BY <1>3, <1>4 DEF OnlyMove
<1>9. /\ procs'[c].at = p /\ procs'[d].at = "run"
      /\ \A e \in M : procs[e].at \notin Reading /\ procs'[e].at # "gone"
      /\ \A e \in M : SameRole(e) /\ SameEnds(e)
  <2>1. procs'[c].at = p /\ procs'[d].at = "run"
    BY <1>1, <1>3
  <2>2. \A e \in M : procs[e].at \notin Reading /\ procs'[e].at # "gone"
    BY <1>1, <1>2, <2>1 DEF Reading
  <2>3. QED
    BY <1>3, <2>1, <2>2
<1> HIDE DEF M
<1>10. c \in M /\ d \in M /\ \A e \in M : e = c \/ e = d
  BY DEF M
<1>11. OutLinked(d, M)
  <2>1. /\ procs[d].at \notin Making \union Opening
        /\ procs'[d].at \notin Making \union Opening /\ procs'[d].w = procs[d].w
    BY <1>1, <1>9, <1>10 DEF Making, Opening, SameEnds
  <2>2. QED
    BY <1>1, <1>8, <1>9, <2>1, OutputDone
<1>12. InLinked(c, M)
  <2>1. CASE p = "openr"
    <3>1. /\ procs[c].at \notin Reading \union {"blockr"}
          /\ procs'[c].at \notin Reading \union {"blockr"} /\ procs'[c].r = procs[c].r
      BY <1>1, <1>9, <1>10, <2>1 DEF Reading, SameEnds
    <3>2. QED
      BY <1>1, <1>8, <3>1, InputWaits
  <2>2. CASE p = "run"
    BY <1>2, <2>2, UserFifoAssumption DEF InLinked, Sound, Number
  <2>3. QED
    BY <1>2, <2>1, <2>2
<1>13. ASSUME n \in Sound'
       PROVE  WriterAt(n, c)' /\ ReaderAt(n, d)'
  <2>1. n \in Sound /\ c \in Writers(n) /\ d \in Readers(n)
    BY <1>1, <1>13 DEF Sound, Writers, Readers
  <2>2. /\ c \in Writers(n)' /\ d \in Readers(n)'
        /\ procs'[c].w = procs[c].w /\ procs'[d].r = procs[d].r
        /\ procs'[c].at \notin Making \union Opening /\ procs'[d].at \in Reading
    BY <1>1, <1>2, <1>4, <1>9, <1>10
       DEF SameRole, SameEnds, Writers, Readers, Reading, Making, Opening
  <2>3. procs[c].w = "new" /\ procs[d].r = "new"
    BY <1>1, <2>1 DEF IInv, Linked, WriterAt, ReaderAt, Making
  <2>4. WriterAt(n, c)'
    BY <2>2, <2>3 DEF WriterAt, Making, Opening
  <2>5. ReaderAt(n, d)'
    BY <2>2, <2>3 DEF ReaderAt, Reading
  <2>6. QED
    BY <2>4, <2>5
<1>14. OutLinked(c, M)
  BY <1>1, <1>10, <1>13, OneEach DEF OutLinked, IInv, Readers, Sound
<1>15. InLinked(d, M)
  BY <1>1, <1>10, <1>13, OneEach DEF InLinked, IInv, Writers, Sound
<1>16. Linked'
  BY <1>1, <1>8, <1>10, <1>11, <1>12, <1>14, <1>15, LinkedBy
<1>17. \A e \in M : procs[e].in \in Sound' /\ procs'[e].at \in {"run", "ended"} =>
                      file'[procs[e].in] = "new"
  <2>1. n \in Sound => file[n] = "new"
    BY <1>1 DEF IInv, Linked, WriterAt, Writers, Opening
  <2>2. n \in Sound' => file'[procs[d].in] = "new"
    BY <1>1, <2>1 DEF Sound
  <2>3. procs'[c].at \in {"run", "ended"} => procs[c].in \notin Sound'
    BY <1>2, <1>9, UserFifoAssumption DEF Sound, Number
  <2>4. QED
    BY <1>1, <1>10, <2>2, <2>3
<1>18. FileRemoved'
  BY <1>1, <1>8, <1>9, <1>17, RemovedBy
<1>19. QED
  BY <1>5, <1>6, <1>7, <1>16, <1>18 DEF IInv

-----------------------------------------------------------------------------
LEMMA NextInv == ASSUME IInv, [Next]_vars PROVE IInv'
<1>1. ASSUME NEW u \in User, UserNext(u) \/ ShellNext(u) \/ child_handler(u)
      PROVE  IInv'
  BY <1>1, RequestInv, ForkInv, InsertInv, WaitInv, HandlerInv, ExitInv, LeavingInv
     DEF UserNext, ShellNext
<1>2. ASSUME NEW c \in Child, ChildNext(c) \/ Ends(c)
      PROVE  IInv'
  BY <1>2, UnlinkInv, MknodInv, OpenOutInv, OpenInInv, MeetInv, EndsInv DEF ChildNext
<1>3. CASE UNCHANGED vars
  <2>1. UNCHANGED <<pipes, from, to, waiting, file, sh, job, procs, early, killed, missed>>
    BY <1>3 DEF vars, table, history
  <2>2. Typed' /\ Pending' = Pending /\ Child' = Child
    BY <2>1 DEF IInv, Typed, Pending, Child
  <2>3. Handed' /\ Shells'
    BY <2>1, <2>2 DEF IInv, Handed, Shells, IsLast
  <2>4. Alone' /\ Linked' /\ FileRemoved'
    BY <2>1, <2>2, UserFifoAssumption, PlacesKept DEF IInv, Typed, SameEnds
  <2>5. QED
    BY <2>2, <2>3, <2>4 DEF IInv
<1>4. QED
  BY <1>1, <1>2, <1>3 DEF Next

LEMMA Invariance == Spec => []IInv
BY InitInv, NextInv, PTL DEF Spec

(* A pipe has one process at each end and the reader it was made for, no   *)
(* reader is left in open without its writer, and neither side has the     *)
(* client in the place of the pipe.                                        *)
LEMMA Meeting == ASSUME IInv PROVE EndsMeet
<1>1. pipes \in Nat /\ \A n \in 1..pipes : n \in Number
  BY UserFifoAssumption DEF IInv, Typed, Number
<1>2. TypeOK
  <2>1. \A c \in Child : /\ procs[c].at \in Place
                         /\ {procs[c].in, procs[c].out} \subseteq 0..pipes
    BY <1>1, Children, UserFifoAssumption DEF IInv, Handed, Proc
  <2>2. QED
    BY <2>1 DEF IInv, Typed, TypeOK, Place
<1>3. OneAtEachEnd
  <2>1. \A n \in 1..pipes : \A c \in Readers(n) : procs[c].user = to[n]
    BY <1>1 DEF IInv, Handed, Readers
  <2>2. QED
    BY <1>1, <2>1, OneEach DEF IInv, OneAtEachEnd
<1>4. ReaderHasWriter
  <2> SUFFICES ASSUME NEW n \in (1..pipes) \ (early \union killed),
                      NEW d \in Readers(n), procs[d].at = "blockr"
               PROVE  \E c \in Writers(n) :
                        \/ procs[c].at = "openw" /\ file[n] = procs[d].r
                        \/ procs[c].at = "blockw" /\ procs[c].w = procs[d].r
    BY DEF ReaderHasWriter
  <2>1. n \in Sound /\ ReaderAt(n, d)
    BY <1>1 DEF Sound, IInv, Linked
  <2>2. PICK c \in Writers(n) : procs[c].at \in Opening
    BY <2>1 DEF ReaderAt
  <2>3. WriterAt(n, c)
    BY <2>1 DEF IInv, Linked
  <2>4. QED
    BY <2>1, <2>2, <2>3 DEF ReaderAt, WriterAt, Making, Opening
<1>5. NoClientInstead
  <2> SUFFICES ASSUME NEW c \in Child
               PROVE  /\ procs[c].w = "client" => procs[c].out \in early \union killed
                      /\ procs[c].r = "client" => procs[c].in \in early \union killed
    BY DEF NoClientInstead
  <2>1. procs[c].out \in 0..MaxPipes /\ procs[c].in \in 0..MaxPipes
    BY Children DEF IInv, Proc
  <2>2. procs[c].out \in Sound => procs[c].w # "client"
    BY DEF IInv, Linked, WriterAt, Writers
  <2>3. procs[c].in \in Sound => procs[c].r # "client"
    BY DEF IInv, Linked, ReaderAt, Readers
  <2>4. QED
    BY <2>1, <2>2, <2>3, UserFifoAssumption DEF IInv, Alone, Sound, Number
<1>6. QED
  BY <1>2, <1>3, <1>4, <1>5 DEF EndsMeet

(* Whatever users, pipes and left-over files there are, a pipe joins the   *)
(* two commands it was made for and nobody else.                           *)
THEOREM PipesMeet == Spec => []EndsMeet
BY Invariance, Meeting, PTL

(* From when the two ends of a pipe have met its file is there until the   *)
(* shell of the reader has reaped it, and then it is gone; so the file of  *)
(* a reader that outlives its shell stays.  Excepted are pipes with an     *)
(* early reader or a killed end and readers reaped before they were        *)
(* recorded.                                                               *)
THEOREM FilesAreRemoved == Spec => []FileRemoved
<1>1. IInv => FileRemoved
  BY DEF IInv
<1>2. QED
  BY <1>1, Invariance, PTL
=============================================================================

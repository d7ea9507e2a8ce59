--------------------------- MODULE SemSetsProofs ---------------------------
(***************************************************************************)
(* Proofs about SemSets: what a set says of its users is so, a set is not  *)
(* taken away from its users, and after Ctrl-C nothing is left.            *)
(*                                                                         *)
(* SetOk says of each set what its three semaphores and the kernel's       *)
(* adjustments have to do with each other, PairOk says of each process     *)
(* and each set what the place of the process has to do with them: which   *)
(* sets it has open, which closing lock it holds, which token it has.  Only *)
(* the handles that are still valid count, and those of a set that was     *)
(* removed never become valid again, because the kernel does not give out  *)
(* an id twice (Ids).                                                      *)
(*                                                                         *)
(* Era is what the end of a server rests on.  A run of the program whose   *)
(* mishaps are none of those NothingLeft excepts is a row of eras: nothing *)
(* is there (Gone), one server creates the sets and nobody else is alive   *)
(* (Making), all sets are there and so is their server (Whole), and one    *)
(* process removes them, the others being stopped by the first set that is *)
(* missing (Leading), until they are gone again.                           *)
(***************************************************************************)
EXTENDS SemSets, FiniteSetTheorems, TLAPS

(* Where the processes can be.                                             *)
Creating == {"get", "lock", "asleep", "getval", "setval", "setcount", "endcreate"}
Closer == {"close_get", "close_rm", "close_unlock"}
ServerPC == Creating \union {"none", "fork", "bind", "up", "remove", "dead"}
ShellPC == {"none", "open", "ready", "calling", "bye", "said", "close", "remove", "dead"}
             \union Closer
RecvPC == {"none", "open", "ready", "sign", "signed", "waiting", "unlock", "remove", "dead"}

(* Every variable has its type, and nobody sleeps in semaphore [0].        *)
Types ==
  /\ val \in [Key -> Nat] /\ cnt \in [Key -> Int] /\ lock \in [Key -> Int]
  /\ undoVal \in [Proc -> [Key -> Int]] /\ undoCnt \in [Proc -> [Key -> Int]]
  /\ undoLock \in [Proc -> [Key -> Int]]
  /\ asleep = [k \in Key |-> {}]
  /\ refs \in [Key -> SUBSET Proc]

Places ==
  /\ pc \in [Proc -> ServerPC \union ShellPC \union RecvPC]
  /\ \A s \in Server : pc[Program(s)] \in ServerPC
  /\ \A c \in Client : /\ pc[Shell(c)] \in ShellPC /\ pc[Recv(c)] \in RecvPC
                       /\ pc[Shell(c)] = "none" => pc[Recv(c)] = "none"
  /\ left \in [Proc -> SUBSET Key]
  /\ \A p \in Proc : /\ left[p] # {}
                     /\ pc[p] \notin {"remove", "dead"} => left[p] \subseteq Mine(p)
                     /\ pc[p] = "none" => left[p] = Mine(p)
  /\ systems \subseteq Server /\ mishaps \subseteq Mishap

(* No handle is one that the kernel will give out.                         *)
Ids ==
  /\ id \in [Key -> Nat] /\ next \in Nat \ {0} /\ handle \in [Proc -> [Key -> Nat]]
  /\ \A k \in Key : id[k] < next
  /\ \A p \in Proc, k \in Key : handle[p][k] < next

(* The three semaphores of a set.                                          *)
LockOk(k) ==
  /\ \A p \in Proc : undoLock[p][k] \in {-1, 0}
  /\ \A p, q \in Proc : undoLock[p][k] = -1 /\ undoLock[q][k] = -1 => p = q
  /\ \/ lock[k] = 0 /\ \A p \in Proc : undoLock[p][k] = 0
     \/ lock[k] = 1 /\ \E p \in Proc : undoLock[p][k] = -1

CntOk(k) ==
  /\ \A p \in Proc : undoCnt[p][k] = (IF p \in refs[k] THEN 1 ELSE 0)
  /\ \/ cnt[k] = BIGCOUNT - Cardinality(refs[k])
     \/ cnt[k] = 0 /\ refs[k] = {}

ValOk(k) ==
  /\ \A p \in Proc : undoVal[p][k] \in {0, 1}
  /\ \A p \in Proc : undoVal[p][k] = 1 => k \in Locks /\ cnt[k] # 0
  /\ \A p, q \in Proc : undoVal[p][k] = 1 /\ undoVal[q][k] = 1 => p = q
  /\ k \in Locks /\ cnt[k] # 0 =>
       \/ val[k] = 1 /\ \A p \in Proc : undoVal[p][k] = 0
       \/ val[k] = 0 /\ \E p \in Proc : undoVal[p][k] = 1

SetOk(k) ==
  /\ LockOk(k) /\ CntOk(k) /\ ValOk(k)
  /\ id[k] = 0 => cnt[k] = 0 /\ lock[k] = 0

(* What the place of p says: it has k open, it has not opened k, it holds  *)
(* the closing lock of k, it holds k.                                      *)
Has(p, k) ==
  \/ pc[p] \in Creating \union {"open"} /\ k \in Mine(p) \ left[p]
  \/ pc[p] \in {"fork", "bind", "up", "ready", "calling", "bye", "said", "sign", "signed",
                "waiting", "unlock"} /\ k \in Mine(p)
  \/ pc[p] \in {"signed", "waiting"} /\ k = "clienting"
  \/ pc[p] = "close" /\ k \in left[p]
  \/ pc[p] \in Closer /\ k \in left[p] \ {Turn(p)}

Lacks(p, k) ==
  \/ pc[p] = "none"
  \/ pc[p] \in Creating \union {"open"} /\ k \in left[p]
  \/ pc[p] \in {"open", "ready", "calling", "sign", "unlock"} /\ k = "clienting"

Locking(p, k) ==
  \/ pc[p] \in {"getval", "setval", "setcount", "endcreate"} \union Closer /\ k = Turn(p)
  \/ pc[p] = "unlock" /\ k = "clienting"

Holding(p, k) ==
  \/ pc[p] \in {"calling", "said"} /\ k = "call_system"
  \/ pc[p] \in {"sign", "signed"} /\ k = "clisem"

PairOk(p, k) ==
  /\ p \in refs[k] => Valid(p, k)
  /\ Lacks(p, k) => p \notin refs[k]
  /\ Has(p, k) /\ Valid(p, k) => p \in refs[k]
  /\ Locking(p, k) /\ Valid(p, k) => undoLock[p][k] = -1
  /\ Holding(p, k) /\ Valid(p, k) => undoVal[p][k] = 1
  /\ pc[p] \in {"setval", "setcount"} /\ k = Turn(p) /\ Valid(p, k) => cnt[k] = 0
  /\ pc[p] = "setcount" /\ k = Turn(p) /\ Valid(p, k) => val[k] = initval(k)

AllSets == \A k \in Key : SetOk(k)
AllPairs == \A p \in Proc, k \in Key : PairOk(p, k)

Sound == Types /\ Places /\ Ids /\ AllSets /\ AllPairs

(* Without Ctrl-C nobody removes the sets of others.                       *)
Respected ==
  /\ \A p \in Proc : pc[p] # "remove"
  /\ \A p \in Proc : pc[p] = "close_rm" /\ Valid(p, Turn(p)) => refs[Turn(p)] = {}
  /\ \A p \in Proc, k \in Key : Has(p, k) => Valid(p, k)

Kept == mishaps \intersect {"interrupt", "open"} = {} => Respected

(* Where a server with a system process can be.                            *)
Served ==
  mishaps \intersect {"killed", "bind"} = {} =>
    \A s \in systems : pc[Program(s)] \in {"bind", "up"}

(* The eras.                                                               *)
Clean == mishaps \intersect {"overlap", "killed", "bind", "halfway", "closed"} = {}
NobodyCreates == \A p \in Proc : pc[p] \notin Creating

Gone == NobodyCreates /\ \A k \in Key : id[k] = 0

Making(p) ==
  /\ pc[p] \in Creating
  /\ \A q \in Proc \ {p} : ~Alive(q)
  /\ \A k \in Key \ left[p] : Valid(p, k)
  /\ \A k \in left[p] \ {Turn(p)} : id[k] = 0
  /\ IF pc[p] = "get" THEN id[Turn(p)] = 0 ELSE Valid(p, Turn(p))

Whole(p) ==
  /\ NobodyCreates
  /\ pc[p] \in {"fork", "bind", "up", "remove"}
  /\ \A k \in Key : Valid(p, k)
  /\ \A q \in Proc, k \in Key : Alive(q) => handle[q][k] = 0 \/ Valid(q, k)
  /\ \A q \in Proc : pc[q] = "remove" => left[q] = Key
  /\ pc[p] # "remove" => \A q \in Proc : pc[q] = "close_rm" => ~Valid(q, Turn(q))

Leading(p) ==
  /\ NobodyCreates
  /\ pc[p] = "remove" /\ "clisem" \notin left[p]
  /\ \A k \in left[p] : Valid(p, k)
  /\ \A k \in Key \ left[p] : id[k] = 0
  /\ \A q \in Proc \ {p} : pc[q] = "remove" => left[q] = Key

AnEra == \/ Gone
         \/ \E s \in Server : Making(Program(s)) \/ Whole(Program(s))
         \/ \E p \in Proc : Leading(p)

Era == Clean => AnEra

-----------------------------------------------------------------------------
(* The processes and the sets they have.                                   *)

LEMMA Kinds ==
  /\ \A s \in Server : Program(s) \in Proc /\ Mine(Program(s)) = Key
  /\ \A c \in Client : /\ Shell(c) \in Proc /\ Recv(c) \in Proc
                       /\ Mine(Shell(c)) \subseteq Key /\ Mine(Recv(c)) \subseteq Key
                       /\ "call_system" \in Mine(Shell(c)) /\ "clisem" \in Mine(Recv(c))
                       /\ "clienting" \notin Mine(Shell(c))
                       /\ "clienting" \notin Mine(Recv(c))
<1>1. \A s \in Server : Program(s) \in Proc /\ Mine(Program(s)) = Key
  BY SemSetsAssumption DEF Program, Proc, Mine
<1>2. ASSUME NEW c \in Client
      PROVE  /\ Shell(c) \in Proc /\ Mine(Shell(c)) \subseteq Key
             /\ "call_system" \in Mine(Shell(c)) /\ "clienting" \notin Mine(Shell(c))
  <2>1. Shell(c)[1] = "shell" /\ Shell(c) \in Proc
    BY DEF Shell, Proc
  <2>2. Mine(Shell(c)) = Key \intersect {"servsem", "call_system", "call_system_end"}
    BY <2>1 DEF Mine
  <2>3. QED
    BY <2>1, <2>2, SemSetsAssumption
<1>3. ASSUME NEW c \in Client
      PROVE  /\ Recv(c) \in Proc /\ Mine(Recv(c)) \subseteq Key
             /\ "clisem" \in Mine(Recv(c)) /\ "clienting" \notin Mine(Recv(c))
  <2>1. Recv(c)[1] = "receiver" /\ Recv(c) \in Proc
    BY DEF Recv, Proc
  <2>2. Mine(Recv(c)) = Key \intersect {"clisem", "serving"}
    BY <2>1 DEF Mine
  <2>3. QED
    BY <2>1, <2>2, SemSetsAssumption
<1>4. QED
  BY <1>1, <1>2, <1>3

LEMMA Everybody ==
  ASSUME NEW p \in Proc
  PROVE  \/ \E s \in Server : p = Program(s)
         \/ \E c \in Client : p = Shell(c) \/ p = Recv(c)
BY DEF Proc, Program, Shell, Recv

LEMMA Different ==
  /\ \A s \in Server, c \in Client : Program(s) # Shell(c) /\ Program(s) # Recv(c)
  /\ \A c, d \in Client : Shell(c) # Recv(d)
  /\ \A s, t \in Server : Program(s) = Program(t) => s = t
  /\ \A c, d \in Client : Shell(c) = Shell(d) => c = d
  /\ \A c, d \in Client : Recv(c) = Recv(d) => c = d
BY DEF Program, Shell, Recv

(* There is a first of any sets, and it is one of them.                    *)
LEMMA Firsts ==
  ASSUME NEW S \in SUBSET Key, S # {}
  PROVE  First(S, CreateOrder) \in S /\ First(S, RemoveOrder) \in S
<1> DEFINE Lowest(order) == \E k \in S : \A j \in S : order[k] <= order[j]
<1>1. S \subseteq {"clisem", "servsem", "clienting", "serving", "call_system",
                   "call_system_end"}
  BY SemSetsAssumption DEF AllKeys
<1>2. Lowest(CreateOrder)
  <2>1. CASE "clisem" \in S
    BY <1>1, <2>1 DEF CreateOrder
  <2>2. CASE "clisem" \notin S /\ "servsem" \in S
    BY <1>1, <2>2 DEF CreateOrder
  <2>3. CASE "clisem" \notin S /\ "servsem" \notin S /\ "clienting" \in S
    BY <1>1, <2>3 DEF CreateOrder
  <2>4. CASE /\ "clisem" \notin S /\ "servsem" \notin S /\ "clienting" \notin S
             /\ "serving" \in S
    BY <1>1, <2>4 DEF CreateOrder
  <2>5. CASE S \subseteq {"call_system", "call_system_end"} /\ "call_system" \in S
    BY <1>1, <2>5 DEF CreateOrder
  <2>6. CASE S = {"call_system_end"}
    BY <1>1, <2>6 DEF CreateOrder
  <2>7. QED
    BY <1>1, <2>1, <2>2, <2>3, <2>4, <2>5, <2>6
<1>3. Lowest(RemoveOrder)
  <2>1. CASE "clisem" \in S
    BY <1>1, <2>1 DEF RemoveOrder
  <2>2. CASE "clisem" \notin S /\ "clienting" \in S
    BY <1>1, <2>2 DEF RemoveOrder
  <2>3. CASE "clisem" \notin S /\ "clienting" \notin S /\ "servsem" \in S
    BY <1>1, <2>3 DEF RemoveOrder
  <2>4. CASE /\ "clisem" \notin S /\ "clienting" \notin S /\ "servsem" \notin S
             /\ "call_system_end" \in S
    BY <1>1, <2>4 DEF RemoveOrder
  <2>5. CASE S \subseteq {"call_system", "serving"} /\ "call_system" \in S
    BY <1>1, <2>5 DEF RemoveOrder
  <2>6. CASE S = {"serving"}
    BY <1>1, <2>6 DEF RemoveOrder
  <2>7. QED
    BY <1>1, <2>1, <2>2, <2>3, <2>4, <2>5, <2>6
<1>4. QED
  BY <1>2, <1>3 DEF First

(* INT_handler begins with clisem.                                         *)
LEMMA ClisemFirst ==
  ASSUME NEW S \in SUBSET Key, "clisem" \in S
  PROVE  First(S, RemoveOrder) = "clisem"
<1>1. S \subseteq {"clisem", "servsem", "clienting", "serving", "call_system",
                   "call_system_end"}
  BY SemSetsAssumption DEF AllKeys
<1>2. \A k \in S : (\A j \in S : RemoveOrder[k] <= RemoveOrder[j]) <=> k = "clisem"
  BY <1>1 DEF RemoveOrder
<1>3. QED
  BY <1>2 DEF First

LEMMA TurnIn ==
  ASSUME Places, NEW p \in Proc
  PROVE  /\ Turn(p) \in left[p] /\ Turn(p) \in Key
         /\ pc[p] = "remove" /\ "clisem" \in left[p] => Turn(p) = "clisem"
<1>1. left[p] \in SUBSET Key /\ left[p] # {}
  BY DEF Places
<1>2. QED
  BY <1>1, Firsts, ClisemFirst DEF Turn

LEMMA TurnInNext ==
  ASSUME Places', NEW p \in Proc
  PROVE  Turn(p)' \in left'[p] /\ Turn(p)' \in Key
<1>1. left'[p] \in SUBSET Key /\ left'[p] # {}
  BY DEF Places
<1>2. QED
  BY <1>1, Firsts DEF Turn
-----------------------------------------------------------------------------
(* What an operation does to set k: to its values, its counts, its lock.   *)

SameVal(k) == val'[k] = val[k] /\ \A q \in Proc : undoVal'[q][k] = undoVal[q][k]
SameCnt(k) == /\ cnt'[k] = cnt[k] /\ refs'[k] = refs[k]
              /\ \A q \in Proc : undoCnt'[q][k] = undoCnt[q][k]
SameLock(k) == lock'[k] = lock[k] /\ \A q \in Proc : undoLock'[q][k] = undoLock[q][k]
SameSet(k) == id'[k] = id[k] /\ SameVal(k) /\ SameCnt(k) /\ SameLock(k)

Takes(p, k) ==
  /\ val[k] > 0 /\ val'[k] = val[k] - 1
  /\ \A q \in Proc : undoVal'[q][k] = (IF q = p THEN undoVal[q][k] + 1 ELSE undoVal[q][k])
Gives(p, k) ==
  /\ val'[k] = val[k] + 1
  /\ \A q \in Proc : undoVal'[q][k] = (IF q = p THEN undoVal[q][k] - 1 ELSE undoVal[q][k])
Refers(p, k) ==
  /\ cnt[k] > 0 /\ cnt'[k] = cnt[k] - 1 /\ refs'[k] = refs[k] \union {p}
  /\ \A q \in Proc : undoCnt'[q][k] = (IF q = p THEN undoCnt[q][k] + 1 ELSE undoCnt[q][k])
Unrefers(p, k) ==
  /\ cnt'[k] = cnt[k] + 1 /\ refs'[k] = refs[k] \ {p}
  /\ \A q \in Proc : undoCnt'[q][k] = (IF q = p THEN undoCnt[q][k] - 1 ELSE undoCnt[q][k])
Closes(p, k) ==
  /\ lock[k] = 0 /\ lock'[k] = 1
  /\ \A q \in Proc : undoLock'[q][k] = (IF q = p THEN undoLock[q][k] - 1 ELSE undoLock[q][k])
Reopens(p, k) ==
  /\ lock'[k] = lock[k] - 1
  /\ \A q \in Proc : undoLock'[q][k] = (IF q = p THEN undoLock[q][k] + 1 ELSE undoLock[q][k])
Wiped(k) ==
  /\ id'[k] = 0 /\ val'[k] = 0 /\ cnt'[k] = 0 /\ lock'[k] = 0 /\ refs'[k] = {}
  /\ \A q \in Proc : undoVal'[q][k] = 0 /\ undoCnt'[q][k] = 0 /\ undoLock'[q][k] = 0

LEMMA LockSame ==
  ASSUME NEW k, LockOk(k), SameLock(k)
  PROVE  LockOk(k)'
BY DEF LockOk, SameLock

LEMMA LockTaken ==
  ASSUME NEW k, NEW p \in Proc, LockOk(k), Closes(p, k)
  PROVE  LockOk(k)' /\ undoLock'[p][k] = -1
<1>1. \A q \in Proc : undoLock[q][k] = 0
  BY DEF LockOk, Closes
<1>2. /\ undoLock'[p][k] = -1 /\ lock'[k] = 1
      /\ \A q \in Proc : q # p => undoLock'[q][k] = 0
  BY <1>1 DEF Closes
<1>3. QED
  BY <1>2 DEF LockOk

LEMMA LockFreed ==
  ASSUME NEW k, NEW p \in Proc, LockOk(k), Reopens(p, k), undoLock[p][k] = -1
  PROVE  LockOk(k)'
<1>1. lock[k] = 1 /\ \A q \in Proc : q # p => undoLock[q][k] = 0
  BY DEF LockOk
<1>2. lock'[k] = 0 /\ \A q \in Proc : undoLock'[q][k] = 0
  BY <1>1 DEF Reopens
<1>3. QED
  BY <1>2 DEF LockOk

LEMMA CntSame ==
  ASSUME NEW k, CntOk(k), SameCnt(k)
  PROVE  CntOk(k)'
BY DEF CntOk, SameCnt

(* As there are fewer processes than BIGCOUNT, [1] of a set that is        *)
(* initialised is never 0.                                                 *)
LEMMA Room ==
  ASSUME NEW R \in SUBSET Proc
  PROVE  IsFiniteSet(R) /\ Cardinality(R) \in Nat /\ BIGCOUNT - Cardinality(R) > 0
<1>1. IsFiniteSet(R) /\ Cardinality(R) <= Cardinality(Proc)
  BY FS_Subset, SemSetsAssumption
<1>2. Cardinality(R) \in Nat /\ Cardinality(Proc) \in Nat
  BY <1>1, FS_CardinalityType, SemSetsAssumption
<1>3. QED
  BY <1>1, <1>2, SemSetsAssumption, BigCountAssumption

LEMMA CntTaken ==
  ASSUME NEW k, NEW p \in Proc, refs[k] \in SUBSET Proc, CntOk(k), Refers(p, k),
         p \notin refs[k]
  PROVE  CntOk(k)' /\ cnt'[k] # 0
<1>1. cnt[k] = BIGCOUNT - Cardinality(refs[k])
  BY DEF CntOk, Refers
<1>2. Cardinality(refs[k] \union {p}) = Cardinality(refs[k]) + 1
  BY Room, FS_AddElement
<1>3. cnt'[k] = BIGCOUNT - Cardinality(refs'[k])
  BY <1>1, <1>2, Room, BigCountAssumption DEF Refers
<1>4. cnt'[k] # 0
  <2>1. refs'[k] \in SUBSET Proc
    BY DEF Refers
  <2>2. QED
    BY <1>3, <2>1, Room
<1>5. \A q \in Proc : undoCnt'[q][k] = (IF q \in refs'[k] THEN 1 ELSE 0)
  BY DEF CntOk, Refers
<1>6. QED
  BY <1>3, <1>4, <1>5 DEF CntOk

LEMMA CntGiven ==
  ASSUME NEW k, NEW p \in Proc, refs[k] \in SUBSET Proc, CntOk(k), Unrefers(p, k),
         p \in refs[k]
  PROVE  CntOk(k)' /\ cnt'[k] # 0 /\ cnt[k] # 0
<1>1. cnt[k] = BIGCOUNT - Cardinality(refs[k])
  BY DEF CntOk
<1>2. Cardinality(refs[k] \ {p}) = Cardinality(refs[k]) - 1
  BY Room, FS_RemoveElement
<1>3. cnt'[k] = BIGCOUNT - Cardinality(refs'[k])
  BY <1>1, <1>2, Room, BigCountAssumption DEF Unrefers
<1>4. cnt'[k] # 0 /\ cnt[k] # 0
  <2>1. refs'[k] \in SUBSET Proc
    BY DEF Unrefers
  <2>2. QED
    BY <1>1, <1>3, <2>1, Room
<1>5. \A q \in Proc : undoCnt'[q][k] = (IF q \in refs'[k] THEN 1 ELSE 0)
  BY DEF CntOk, Unrefers
<1>6. QED
  BY <1>3, <1>4, <1>5 DEF CntOk

LEMMA ValSame ==
  ASSUME NEW k, ValOk(k), SameVal(k), cnt'[k] = 0 <=> cnt[k] = 0
  PROVE  ValOk(k)'
BY DEF ValOk, SameVal

LEMMA ValTaken ==
  ASSUME NEW k \in Locks, NEW p \in Proc, ValOk(k), Takes(p, k), cnt[k] # 0, cnt'[k] # 0
  PROVE  ValOk(k)' /\ undoVal'[p][k] = 1
<1>1. val[k] = 1 /\ \A q \in Proc : undoVal[q][k] = 0
  BY DEF ValOk, Takes
<1>2. /\ val'[k] = 0 /\ undoVal'[p][k] = 1
      /\ \A q \in Proc : q # p => undoVal'[q][k] = 0
  BY <1>1 DEF Takes
<1>3. QED
  BY <1>2 DEF ValOk

LEMMA ValGiven ==
  ASSUME NEW k, NEW p \in Proc, ValOk(k), Gives(p, k), undoVal[p][k] = 1, cnt'[k] # 0
  PROVE  ValOk(k)'
<1>1. k \in Locks /\ cnt[k] # 0
  BY DEF ValOk
<1>2. val[k] = 0 /\ \A q \in Proc : q # p => undoVal[q][k] = 0
  BY <1>1 DEF ValOk
<1>3. val'[k] = 1 /\ \A q \in Proc : undoVal'[q][k] = 0
  BY <1>2 DEF Gives
<1>4. QED
  BY <1>3 DEF ValOk

LEMMA SetSame ==
  ASSUME NEW k, SetOk(k), SameSet(k)
  PROVE  SetOk(k)'
BY LockSame, CntSame, ValSame DEF SetOk, SameSet, SameLock, SameCnt

LEMMA SetWiped ==
  ASSUME NEW k, Wiped(k)
  PROVE  SetOk(k)'
<1>1. LockOk(k)'
  BY DEF Wiped, LockOk
<1>2. CntOk(k)'
  BY DEF Wiped, CntOk
<1>3. ValOk(k)'
  BY DEF Wiped, ValOk
<1>4. QED
  BY <1>1, <1>2, <1>3 DEF SetOk, Wiped
-----------------------------------------------------------------------------
(* The sets and processes that a step of p on set k leaves as they are.    *)

Apart(k) == \A j \in Key \ {k} : SameSet(j)
SamePlace(q) == pc'[q] = pc[q] /\ left'[q] = left[q] /\ handle'[q] = handle[q]
Apart2(p, k) == Apart(k) /\ \A q \in Proc \ {p} : SamePlace(q)

(* What q has in k, or k is no longer what q has a handle of.              *)
Mild(q, k) ==
  /\ q \in refs'[k] => q \in refs[k] /\ id'[k] = id[k]
  /\ handle[q][k] # 0 /\ handle[q][k] = id'[k] =>
       /\ id'[k] = id[k] /\ (q \in refs[k] => q \in refs'[k])
       /\ undoLock'[q][k] = undoLock[q][k] /\ undoVal'[q][k] = undoVal[q][k]
       /\ Locking(q, k) /\ undoLock[q][k] = -1 /\ cnt[k] = 0
            => cnt'[k] = 0 /\ val'[k] = val[k]

(* p is no nearer to a set it does not work on.                            *)
Stays(p, j) ==
  /\ handle'[p][j] = handle[p][j] /\ (Lacks(p, j)' => Lacks(p, j))
  /\ Valid(p, j) =>
       /\ (Has(p, j)' => Has(p, j)) /\ (Locking(p, j)' => Locking(p, j))
       /\ (Holding(p, j)' => Holding(p, j))
       /\ pc'[p] \in {"setval", "setcount"} /\ j = Turn(p)'
            => pc'[p] = pc[p] /\ j = Turn(p)

LEMMA PlaceSame ==
  ASSUME NEW q, NEW k, SamePlace(q)
  PROVE  /\ Turn(q)' = Turn(q)
         /\ Has(q, k)' = Has(q, k) /\ Lacks(q, k)' = Lacks(q, k)
         /\ Locking(q, k)' = Locking(q, k) /\ Holding(q, k)' = Holding(q, k)
<1>1. Turn(q)' = Turn(q)
  BY DEF SamePlace, Turn
<1>2. QED
  BY <1>1 DEF SamePlace, Has, Lacks, Locking, Holding, Mine

LEMMA PairMild ==
  ASSUME NEW q \in Proc, NEW k, SamePlace(q), Mild(q, k), PairOk(q, k)
  PROVE  PairOk(q, k)'
<1>1. handle'[q] = handle[q] /\ pc'[q] = pc[q]
  BY DEF SamePlace
<1>2. /\ Valid(q, k)' => Valid(q, k)
      /\ Valid(q, k)' => handle[q][k] # 0 /\ handle[q][k] = id'[k]
  BY <1>1 DEF Valid, Mild
<1>3. (q \in refs[k] => Valid(q, k)) /\ (q \in refs'[k] => Valid(q, k)')
  BY <1>1 DEF PairOk, Valid, Mild
<1>4. Lacks(q, k)' => q \notin refs'[k]
  BY PlaceSame DEF PairOk, Mild
<1>5. ASSUME Valid(q, k)'
      PROVE  /\ Has(q, k)' => q \in refs'[k]
             /\ Locking(q, k)' => undoLock'[q][k] = -1
             /\ Holding(q, k)' => undoVal'[q][k] = 1
  BY <1>2, <1>5, PlaceSame DEF PairOk, Mild
<1>6. ASSUME Valid(q, k)', pc'[q] \in {"setval", "setcount"}, k = Turn(q)'
      PROVE  cnt'[k] = 0 /\ val'[k] = val[k] /\ cnt[k] = 0
  <2>1. pc[q] \in {"setval", "setcount"} /\ k = Turn(q) /\ Locking(q, k)
    BY <1>1, <1>6, PlaceSame DEF Locking
  <2>2. cnt[k] = 0 /\ undoLock[q][k] = -1
    BY <2>1, <1>2, <1>6 DEF PairOk
  <2>3. QED
    BY <2>1, <2>2, <1>2, <1>6 DEF Mild
<1>7. ASSUME Valid(q, k)', pc'[q] = "setcount", k = Turn(q)'
      PROVE  val'[k] = initval(k)
  <2>1. pc[q] = "setcount" /\ k = Turn(q) /\ val'[k] = val[k]
    BY <1>1, <1>6, <1>7, PlaceSame
  <2>2. QED
    BY <2>1, <1>2, <1>7 DEF PairOk
<1>8. QED
  BY <1>3, <1>4, <1>5, <1>6, <1>7 DEF PairOk, initval

LEMMA PairStays ==
  ASSUME NEW p \in Proc, NEW j, SameSet(j), Stays(p, j), PairOk(p, j)
  PROVE  PairOk(p, j)'
<1>1. Valid(p, j)' = Valid(p, j)
  BY DEF Valid, SameSet, Stays
<1>2. /\ refs'[j] = refs[j] /\ undoLock'[p][j] = undoLock[p][j]
      /\ undoVal'[p][j] = undoVal[p][j] /\ cnt'[j] = cnt[j] /\ val'[j] = val[j]
  BY DEF SameSet, SameVal, SameCnt, SameLock
<1>3. QED
  BY <1>1, <1>2 DEF PairOk, Stays, initval

LEMMA PlaceStays ==
  ASSUME NEW q, NEW k, SamePlace(q)
  PROVE  Stays(q, k)
BY PlaceSame DEF Stays, SamePlace

(* A step of p that works on set k.                                        *)
LEMMA StepOnSet ==
  ASSUME AllSets, AllPairs, NEW p \in Proc, NEW k \in Key,
         Apart2(p, k), SetOk(k)', PairOk(p, k)',
         \A q \in Proc \ {p} : Mild(q, k),
         \A j \in Key \ {k} : Stays(p, j)
  PROVE  AllSets' /\ AllPairs'
<1>1. ASSUME NEW j \in Key PROVE SetOk(j)'
  BY SetSame DEF AllSets, Apart2, Apart
<1>2. ASSUME NEW q \in Proc, NEW j \in Key PROVE PairOk(q, j)'
  <2>1. PairOk(q, j)
    BY DEF AllPairs
  <2>2. CASE j # k
    <3>1. SameSet(j) /\ Stays(q, j)
      BY <2>2, PlaceStays DEF Apart2, Apart
    <3>2. QED
      BY <2>1, <3>1, PairStays
  <2>3. CASE j = k /\ q # p
    BY <2>1, <2>3, PairMild DEF Apart2
  <2>4. QED
    BY <2>2, <2>3
<1>3. QED
  BY <1>1, <1>2 DEF AllSets, AllPairs

(* A step of p that works on none.                                         *)
LEMMA StepOnNone ==
  ASSUME AllSets, AllPairs, NEW p \in Proc,
         \A j \in Key : SameSet(j) /\ Stays(p, j),
         \A q \in Proc \ {p} : SamePlace(q)
  PROVE  AllSets' /\ AllPairs'
<1>1. ASSUME NEW j \in Key PROVE SetOk(j)'
  BY SetSame DEF AllSets
<1>2. ASSUME NEW q \in Proc, NEW j \in Key PROVE PairOk(q, j)'
  <2>1. PairOk(q, j) /\ SameSet(j) /\ Stays(q, j)
    BY PlaceStays DEF AllPairs
  <2>2. QED
    BY <2>1, PairStays
<1>3. QED
  BY <1>1, <1>2 DEF AllSets, AllPairs
-----------------------------------------------------------------------------
(* The operations, set by set.                                             *)

Typed == Types /\ id \in [Key -> Nat]

LEMMA IdleEffect ==
  ASSUME Types, UNCHANGED <<semVars, sets, refs>>
  PROVE  Types' /\ \A j \in Key : SameSet(j)
<1>1. /\ val' = val /\ cnt' = cnt /\ lock' = lock /\ undoVal' = undoVal
      /\ undoCnt' = undoCnt /\ undoLock' = undoLock /\ asleep' = asleep
      /\ refs' = refs /\ id' = id
  BY DEF semVars, valVars, cntVars, sets
<1>2. Types'
  BY <1>1 DEF Types
<1>3. QED
  BY <1>1, <1>2 DEF SameSet, SameVal, SameCnt, SameLock

LEMMA GetEffect ==
  ASSUME Typed, NEW k \in Key, id' = [id EXCEPT ![k] = next],
         UNCHANGED <<semVars, refs>>
  PROVE  /\ Types' /\ Apart(k)
         /\ id'[k] = next /\ SameVal(k) /\ SameCnt(k) /\ SameLock(k)
<1>1. /\ val' = val /\ cnt' = cnt /\ lock' = lock /\ undoVal' = undoVal
      /\ undoCnt' = undoCnt /\ undoLock' = undoLock /\ asleep' = asleep
      /\ refs' = refs
  BY DEF semVars, valVars, cntVars
<1>2. Types'
  BY <1>1 DEF Typed, Types
<1>3. id'[k] = next /\ \A j \in Key \ {k} : id'[j] = id[j]
  BY DEF Typed
<1>4. QED
  BY <1>1, <1>2, <1>3 DEF Apart, SameSet, SameVal, SameCnt, SameLock

LEMMA TakeEffect ==
  ASSUME Types, NEW p \in Proc, NEW k \in Key, val[k] > 0, sem_wait(p, k),
         UNCHANGED <<sets, refs>>
  PROVE  /\ Types' /\ Apart(k)
         /\ id'[k] = id[k] /\ Takes(p, k) /\ SameCnt(k) /\ SameLock(k)
<1>1. /\ val' = [val EXCEPT ![k] = @ - 1]
      /\ undoVal' = [undoVal EXCEPT ![p][k] = @ + 1]
      /\ asleep' = asleep /\ cnt' = cnt /\ lock' = lock /\ undoCnt' = undoCnt
      /\ undoLock' = undoLock /\ refs' = refs /\ id' = id
  BY DEF sem_wait, cntVars, sets, Types
<1>2. Types'
  BY <1>1 DEF Types
<1>3. /\ val'[k] = val[k] - 1 /\ undoVal'[p][k] = undoVal[p][k] + 1
      /\ \A q \in Proc, j \in Key : q # p \/ j # k => undoVal'[q][j] = undoVal[q][j]
      /\ \A j \in Key \ {k} : val'[j] = val[j]
  BY <1>1 DEF Types
<1>4. QED
  BY <1>1, <1>2, <1>3 DEF Apart, SameSet, SameVal, SameCnt, SameLock, Takes

LEMMA GiveEffect ==
  ASSUME Types, NEW p \in Proc, NEW k \in Key, sem_signal(p, k),
         UNCHANGED <<sets, refs>>
  PROVE  /\ Types' /\ Apart(k)
         /\ id'[k] = id[k] /\ Gives(p, k) /\ SameCnt(k) /\ SameLock(k)
<1>1. /\ val' = [val EXCEPT ![k] = @ + 1]
      /\ undoVal' = [undoVal EXCEPT ![p][k] = @ - 1]
      /\ asleep' = asleep /\ cnt' = cnt /\ lock' = lock /\ undoCnt' = undoCnt
      /\ undoLock' = undoLock /\ refs' = refs /\ id' = id
  BY DEF sem_signal, cntVars, sets, Types
<1>2. Types'
  BY <1>1 DEF Types
<1>3. /\ val'[k] = val[k] + 1 /\ undoVal'[p][k] = undoVal[p][k] - 1
      /\ \A q \in Proc, j \in Key : q # p \/ j # k => undoVal'[q][j] = undoVal[q][j]
      /\ \A j \in Key \ {k} : val'[j] = val[j]
  BY <1>1 DEF Types
<1>4. QED
  BY <1>1, <1>2, <1>3 DEF Apart, SameSet, SameVal, SameCnt, SameLock, Gives

LEMMA OpenEffect ==
  ASSUME Types, NEW p \in Proc, NEW k \in Key, sem_open(p, {k}),
         refs' = [refs EXCEPT ![k] = @ \union {p}], UNCHANGED sets
  PROVE  /\ Types' /\ Apart(k)
         /\ id'[k] = id[k] /\ Refers(p, k) /\ SameVal(k) /\ SameLock(k)
<1>1. /\ cnt[k] > 0 /\ cnt' = [j \in Key |-> IF j = k THEN cnt[j] - 1 ELSE cnt[j]]
      /\ undoCnt' = [undoCnt EXCEPT ![p] =
                       [j \in Key |-> IF j = k THEN @[j] + 1 ELSE @[j]]]
      /\ val' = val /\ undoVal' = undoVal /\ asleep' = asleep /\ lock' = lock
      /\ undoLock' = undoLock /\ id' = id
  BY DEF sem_open, valVars, sets, Types
<1>2. Types'
  <2>1. cnt' \in [Key -> Int]
    BY <1>1 DEF Types
  <2>2. undoCnt' \in [Proc -> [Key -> Int]]
    BY <1>1 DEF Types
  <2>3. refs' \in [Key -> SUBSET Proc]
    BY DEF Types
  <2>4. QED
    BY <1>1, <2>1, <2>2, <2>3 DEF Types
<1>3. /\ cnt'[k] = cnt[k] - 1 /\ undoCnt'[p][k] = undoCnt[p][k] + 1
      /\ \A j \in Key \ {k} : cnt'[j] = cnt[j]
  BY <1>1 DEF Types
<1>4. \A q \in Proc, j \in Key : q # p \/ j # k => undoCnt'[q][j] = undoCnt[q][j]
  BY <1>1 DEF Types
<1>5. refs'[k] = refs[k] \union {p} /\ \A j \in Key \ {k} : refs'[j] = refs[j]
  BY DEF Types
<1>6. QED
  BY <1>1, <1>2, <1>3, <1>4, <1>5 DEF Apart, SameSet, SameVal, SameCnt, SameLock, Refers

LEMMA LockEffect ==
  ASSUME Types, NEW p \in Proc, NEW k \in Key, lock[k] = 0,
         lock' = [lock EXCEPT ![k] = 1], undoLock' = [undoLock EXCEPT ![p][k] = @ - 1],
         UNCHANGED <<valVars, cnt, undoCnt, sets, refs>>
  PROVE  /\ Types' /\ Apart(k)
         /\ id'[k] = id[k] /\ Closes(p, k) /\ SameVal(k) /\ SameCnt(k)
<1>1. /\ val' = val /\ undoVal' = undoVal /\ asleep' = asleep /\ cnt' = cnt
      /\ undoCnt' = undoCnt /\ refs' = refs /\ id' = id
  BY DEF valVars, sets
<1>2. Types'
  BY <1>1 DEF Types
<1>3. /\ lock'[k] = 1 /\ undoLock'[p][k] = undoLock[p][k] - 1
      /\ \A q \in Proc, j \in Key : q # p \/ j # k => undoLock'[q][j] = undoLock[q][j]
      /\ \A j \in Key \ {k} : lock'[j] = lock[j]
  BY DEF Types
<1>4. QED
  BY <1>1, <1>2, <1>3 DEF Apart, SameSet, SameVal, SameCnt, SameLock, Closes

LEMMA UnlockEffect ==
  ASSUME Types, NEW p \in Proc, NEW k \in Key, op_unlock(p, k), UNCHANGED <<sets, refs>>
  PROVE  /\ Types' /\ Apart(k)
         /\ id'[k] = id[k] /\ Reopens(p, k) /\ SameVal(k) /\ SameCnt(k)
<1>1. /\ val' = val /\ undoVal' = undoVal /\ asleep' = asleep /\ cnt' = cnt
      /\ undoCnt' = undoCnt /\ refs' = refs /\ id' = id
      /\ lock' = [lock EXCEPT ![k] = @ - 1]
      /\ undoLock' = [undoLock EXCEPT ![p][k] = @ + 1]
  BY DEF op_unlock, valVars, sets
<1>2. Types'
  BY <1>1 DEF Types
<1>3. /\ lock'[k] = lock[k] - 1 /\ undoLock'[p][k] = undoLock[p][k] + 1
      /\ \A q \in Proc, j \in Key : q # p \/ j # k => undoLock'[q][j] = undoLock[q][j]
      /\ \A j \in Key \ {k} : lock'[j] = lock[j]
  BY <1>1 DEF Types
<1>4. QED
  BY <1>1, <1>2, <1>3 DEF Apart, SameSet, SameVal, SameCnt, SameLock, Reopens
LEMMA SetvalEffect ==
  ASSUME Types, NEW k \in Key, val' = Become(val, k, initval(k)),
         undoVal' = Forget(undoVal, k), UNCHANGED <<asleep, cntVars, sets, refs>>
  PROVE  /\ Types' /\ Apart(k)
         /\ id'[k] = id[k] /\ SameCnt(k) /\ SameLock(k)
         /\ val'[k] = initval(k) /\ \A q \in Proc : undoVal'[q][k] = 0
<1>1. /\ asleep' = asleep /\ cnt' = cnt /\ undoCnt' = undoCnt /\ lock' = lock
      /\ undoLock' = undoLock /\ refs' = refs /\ id' = id
  BY DEF cntVars, sets
<1>2. initval(k) \in Nat
  BY DEF initval
<1>3. /\ val' \in [Key -> Nat] /\ val'[k] = initval(k)
      /\ \A j \in Key \ {k} : val'[j] = val[j]
  BY <1>2 DEF Types, Become
<1>4. /\ undoVal' \in [Proc -> [Key -> Int]]
      /\ \A q \in Proc, j \in Key : undoVal'[q][j] = IF j = k THEN 0 ELSE undoVal[q][j]
  BY DEF Types, Forget
<1>5. Types'
  BY <1>1, <1>3, <1>4 DEF Types
<1>6. QED
  BY <1>1, <1>3, <1>4, <1>5 DEF Apart, SameSet, SameVal, SameCnt, SameLock

LEMMA SetcountEffect ==
  ASSUME Types, NEW k \in Key, cnt' = Become(cnt, k, BIGCOUNT),
         undoCnt' = Forget(undoCnt, k), UNCHANGED <<valVars, lock, undoLock, sets, refs>>
  PROVE  /\ Types' /\ Apart(k)
         /\ id'[k] = id[k] /\ SameVal(k) /\ SameLock(k) /\ refs'[k] = refs[k]
         /\ cnt'[k] = BIGCOUNT /\ \A q \in Proc : undoCnt'[q][k] = 0
<1>1. /\ asleep' = asleep /\ val' = val /\ undoVal' = undoVal /\ lock' = lock
      /\ undoLock' = undoLock /\ refs' = refs /\ id' = id
  BY DEF valVars, sets
<1>2. /\ cnt' \in [Key -> Int] /\ cnt'[k] = BIGCOUNT
      /\ \A j \in Key \ {k} : cnt'[j] = cnt[j]
  BY BigCountAssumption DEF Types, Become
<1>3. /\ undoCnt' \in [Proc -> [Key -> Int]]
      /\ \A q \in Proc, j \in Key : undoCnt'[q][j] = IF j = k THEN 0 ELSE undoCnt[q][j]
  BY DEF Types, Forget
<1>4. Types'
  BY <1>1, <1>2, <1>3 DEF Types
<1>5. QED
  BY <1>1, <1>2, <1>3, <1>4 DEF Apart, SameSet, SameVal, SameCnt, SameLock

LEMMA CreatedEffect ==
  ASSUME Types, NEW p \in Proc, NEW k \in Key, cnt[k] > 0,
         cnt' = [cnt EXCEPT ![k] = @ - 1], undoCnt' = [undoCnt EXCEPT ![p][k] = @ + 1],
         lock' = [lock EXCEPT ![k] = @ - 1], undoLock' = [undoLock EXCEPT ![p][k] = @ + 1],
         refs' = [refs EXCEPT ![k] = @ \union {p}], UNCHANGED <<valVars, sets>>
  PROVE  /\ Types' /\ Apart(k)
         /\ id'[k] = id[k] /\ Refers(p, k) /\ Reopens(p, k) /\ SameVal(k)
<1>1. val' = val /\ undoVal' = undoVal /\ asleep' = asleep /\ id' = id
  BY DEF valVars, sets
<1>2. cnt' \in [Key -> Int] /\ lock' \in [Key -> Int] /\ refs' \in [Key -> SUBSET Proc]
  BY DEF Types
<1>3. undoCnt' \in [Proc -> [Key -> Int]] /\ undoLock' \in [Proc -> [Key -> Int]]
  BY DEF Types
<1>4. Types'
  BY <1>1, <1>2, <1>3 DEF Types
<1>5. /\ cnt'[k] = cnt[k] - 1 /\ lock'[k] = lock[k] - 1 /\ refs'[k] = refs[k] \union {p}
      /\ \A j \in Key \ {k} : cnt'[j] = cnt[j] /\ lock'[j] = lock[j] /\ refs'[j] = refs[j]
  BY DEF Types
<1>6. /\ undoCnt'[p][k] = undoCnt[p][k] + 1
      /\ \A q \in Proc, j \in Key : q # p \/ j # k => undoCnt'[q][j] = undoCnt[q][j]
  BY DEF Types
<1>7. /\ undoLock'[p][k] = undoLock[p][k] + 1
      /\ \A q \in Proc, j \in Key : q # p \/ j # k => undoLock'[q][j] = undoLock[q][j]
  BY DEF Types
<1>8. QED
  BY <1>1, <1>4, <1>5, <1>6, <1>7
     DEF Apart, SameSet, SameVal, SameCnt, SameLock, Refers, Reopens

LEMMA CloseEffect ==
  ASSUME Types, NEW p \in Proc, NEW k \in Key, lock[k] = 0,
         lock' = [lock EXCEPT ![k] = 1], undoLock' = [undoLock EXCEPT ![p][k] = @ - 1],
         cnt' = [cnt EXCEPT ![k] = @ + 1], undoCnt' = [undoCnt EXCEPT ![p][k] = @ - 1],
         refs' = [refs EXCEPT ![k] = @ \ {p}], UNCHANGED <<valVars, sets>>
  PROVE  /\ Types' /\ Apart(k)
         /\ id'[k] = id[k] /\ Unrefers(p, k) /\ Closes(p, k) /\ SameVal(k)
<1>1. val' = val /\ undoVal' = undoVal /\ asleep' = asleep /\ id' = id
  BY DEF valVars, sets
<1>2. cnt' \in [Key -> Int] /\ lock' \in [Key -> Int] /\ refs' \in [Key -> SUBSET Proc]
  BY DEF Types
<1>3. undoCnt' \in [Proc -> [Key -> Int]] /\ undoLock' \in [Proc -> [Key -> Int]]
  BY DEF Types
<1>4. Types'
  BY <1>1, <1>2, <1>3 DEF Types
<1>5. /\ cnt'[k] = cnt[k] + 1 /\ lock'[k] = 1 /\ refs'[k] = refs[k] \ {p}
      /\ \A j \in Key \ {k} : cnt'[j] = cnt[j] /\ lock'[j] = lock[j] /\ refs'[j] = refs[j]
  BY DEF Types
<1>6. /\ undoCnt'[p][k] = undoCnt[p][k] - 1
      /\ \A q \in Proc, j \in Key : q # p \/ j # k => undoCnt'[q][j] = undoCnt[q][j]
  BY DEF Types
<1>7. /\ undoLock'[p][k] = undoLock[p][k] - 1
      /\ \A q \in Proc, j \in Key : q # p \/ j # k => undoLock'[q][j] = undoLock[q][j]
  BY DEF Types
<1>8. QED
  BY <1>1, <1>4, <1>5, <1>6, <1>7
     DEF Apart, SameSet, SameVal, SameCnt, SameLock, Unrefers, Closes

LEMMA RemoveEffect ==
  ASSUME Typed, NEW k \in Key, RemoveSet(k)
  PROVE  Types' /\ Apart(k) /\ Wiped(k) /\ id' \in [Key -> Nat] /\ next' = next
<1>1. /\ undoVal' = Forget(undoVal, k) /\ undoCnt' = Forget(undoCnt, k)
      /\ undoLock' = Forget(undoLock, k)
  BY DEF RemoveSet
<1>2. /\ undoVal' \in [Proc -> [Key -> Int]]
      /\ \A q \in Proc, j \in Key : undoVal'[q][j] = IF j = k THEN 0 ELSE undoVal[q][j]
  BY <1>1 DEF Typed, Types, Forget
<1>3. /\ undoCnt' \in [Proc -> [Key -> Int]]
      /\ \A q \in Proc, j \in Key : undoCnt'[q][j] = IF j = k THEN 0 ELSE undoCnt[q][j]
  BY <1>1 DEF Typed, Types, Forget
<1>4. /\ undoLock' \in [Proc -> [Key -> Int]]
      /\ \A q \in Proc, j \in Key : undoLock'[q][j] = IF j = k THEN 0 ELSE undoLock[q][j]
  BY <1>1 DEF Typed, Types, Forget
<1>5. /\ val' \in [Key -> Nat] /\ cnt' \in [Key -> Int] /\ lock' \in [Key -> Int]
      /\ id' \in [Key -> Nat]
      /\ val'[k] = 0 /\ cnt'[k] = 0 /\ lock'[k] = 0 /\ id'[k] = 0
      /\ \A j \in Key \ {k} : /\ val'[j] = val[j] /\ cnt'[j] = cnt[j]
                              /\ lock'[j] = lock[j] /\ id'[j] = id[j]
  BY DEF RemoveSet, Become, Typed, Types
<1>6. /\ refs' \in [Key -> SUBSET Proc] /\ refs'[k] = {}
      /\ \A j \in Key \ {k} : refs'[j] = refs[j]
  BY DEF RemoveSet, Become, Typed, Types
<1>7. asleep' = [j \in Key |-> {}]
  BY DEF RemoveSet, Become, Typed, Types
<1>8. Types'
  BY <1>2, <1>3, <1>4, <1>5, <1>6, <1>7 DEF Types
<1>9. next' = next
  BY DEF RemoveSet
<1>10. Wiped(k)
  BY <1>2, <1>3, <1>4, <1>5, <1>6 DEF Wiped
<1>11. Apart(k)
  BY <1>2, <1>3, <1>4, <1>5, <1>6 DEF Apart, SameSet, SameVal, SameCnt, SameLock
<1>12. QED
  BY <1>5, <1>8, <1>9, <1>10, <1>11

(* What the kernel does for a dead process.                                *)
LEMMA UndoneEffect ==
  ASSUME Types, NEW p \in Proc, NEW k \in Key, Undo(p, k), undoVal[p][k] >= 0,
         refs' = [refs EXCEPT ![k] = @ \ {p}], UNCHANGED sets
  PROVE  /\ Types' /\ Apart(k) /\ id'[k] = id[k]
         /\ val'[k] = val[k] + undoVal[p][k] /\ cnt'[k] = cnt[k] + undoCnt[p][k]
         /\ lock'[k] = lock[k] + undoLock[p][k] /\ refs'[k] = refs[k] \ {p}
         /\ undoVal'[p][k] = 0 /\ undoCnt'[p][k] = 0 /\ undoLock'[p][k] = 0
         /\ \A q \in Proc \ {p} : /\ undoVal'[q][k] = undoVal[q][k]
                                  /\ undoCnt'[q][k] = undoCnt[q][k]
                                  /\ undoLock'[q][k] = undoLock[q][k]
<1>1. asleep[k] = {} /\ id' = id
  BY DEF Types, sets
<1>2. val[k] \in Nat /\ undoVal[p][k] \in Nat
  BY DEF Types
<1>3. /\ val' = [val EXCEPT ![k] = val[k] + undoVal[p][k]]
      /\ asleep' = [asleep EXCEPT ![k] = {}]
      /\ undoVal' = [q \in Proc |-> IF q = p THEN [undoVal[q] EXCEPT ![k] = 0]
                                    ELSE undoVal[q]]
  <2>1. Cardinality({}) = 0
    BY FS_EmptySet
  <2>2. \A w \in SUBSET asleep[k] : w = {}
    BY <1>1
  <2>3. (IF val[k] + undoVal[p][k] > 0 THEN val[k] + undoVal[p][k] ELSE 0)
          = val[k] + undoVal[p][k]
    BY <1>2
  <2>4. PICK w \in SUBSET asleep[k] :
          /\ val' = [val EXCEPT ![k] = (IF val[k] + undoVal[p][k] > 0
                                         THEN val[k] + undoVal[p][k] ELSE 0) - Cardinality(w)]
          /\ asleep' = [asleep EXCEPT ![k] = @ \ w]
          /\ undoVal' = [q \in DOMAIN undoVal |->
                           IF q = p THEN [undoVal[q] EXCEPT ![k] = 0]
                           ELSE IF q \in w THEN [undoVal[q] EXCEPT ![k] = @ + 1]
                           ELSE undoVal[q]]
    BY DEF Undo
  <2>5. w = {}
    BY <2>2
  <2>6. val' = [val EXCEPT ![k] = val[k] + undoVal[p][k]]
    <3>1. (val[k] + undoVal[p][k]) - Cardinality(w) = val[k] + undoVal[p][k]
      BY <1>2, <2>1, <2>5
    <3>2. val' = [val EXCEPT ![k] = (val[k] + undoVal[p][k]) - Cardinality(w)]
      BY <2>3, <2>4, Zenon
    <3>3. QED
      BY <3>1, <3>2, Zenon
  <2>7. asleep' = [asleep EXCEPT ![k] = {}]
    BY <1>1, <2>4, <2>5
  <2>8. DOMAIN undoVal = Proc
    BY DEF Types
  <2>9. QED
    BY <2>4, <2>5, <2>6, <2>7, <2>8
<1>4. /\ cnt' = [cnt EXCEPT ![k] = @ + undoCnt[p][k]]
      /\ undoCnt' = [undoCnt EXCEPT ![p][k] = 0]
      /\ lock' = [lock EXCEPT ![k] = @ + undoLock[p][k]]
      /\ undoLock' = [undoLock EXCEPT ![p][k] = 0]
  BY DEF Undo
<1>5. /\ val' \in [Key -> Nat] /\ val'[k] = val[k] + undoVal[p][k]
      /\ \A j \in Key \ {k} : val'[j] = val[j]
  BY <1>2, <1>3 DEF Types
<1>6. /\ undoVal' \in [Proc -> [Key -> Int]] /\ undoVal'[p][k] = 0
      /\ \A q \in Proc, j \in Key : q # p \/ j # k => undoVal'[q][j] = undoVal[q][j]
  BY <1>3 DEF Types
<1>7. /\ cnt' \in [Key -> Int] /\ cnt'[k] = cnt[k] + undoCnt[p][k]
      /\ lock' \in [Key -> Int] /\ lock'[k] = lock[k] + undoLock[p][k]
      /\ refs' \in [Key -> SUBSET Proc] /\ refs'[k] = refs[k] \ {p}
      /\ \A j \in Key \ {k} : cnt'[j] = cnt[j] /\ lock'[j] = lock[j] /\ refs'[j] = refs[j]
  BY <1>4 DEF Types
<1>8. /\ undoCnt' \in [Proc -> [Key -> Int]] /\ undoCnt'[p][k] = 0
      /\ \A q \in Proc, j \in Key : q # p \/ j # k => undoCnt'[q][j] = undoCnt[q][j]
  BY <1>4 DEF Types
<1>9. /\ undoLock' \in [Proc -> [Key -> Int]] /\ undoLock'[p][k] = 0
      /\ \A q \in Proc, j \in Key : q # p \/ j # k => undoLock'[q][j] = undoLock[q][j]
  BY <1>4 DEF Types
<1>10. asleep' = [j \in Key |-> {}]
  BY <1>3 DEF Types
<1>11. Types'
  BY <1>5, <1>6, <1>7, <1>8, <1>9, <1>10 DEF Types
<1>12. Apart(k)
  BY <1>1, <1>5, <1>6, <1>7, <1>8, <1>9
     DEF Apart, SameSet, SameVal, SameCnt, SameLock
<1>13. QED
  BY <1>1, <1>5, <1>6, <1>7, <1>8, <1>9, <1>11, <1>12
-----------------------------------------------------------------------------
(* Where a step of p leads.                                                *)

Allowed(p, l) ==
  /\ l \in (ServerPC \union ShellPC \union RecvPC) \ {"none"}
  /\ pc[p] = "none" => \E s \in Server : p = Program(s)
  /\ \A s \in Server : p = Program(s) => l \in ServerPC
  /\ \A c \in Client : (p = Shell(c) => l \in ShellPC) /\ (p = Recv(c) => l \in RecvPC)

(* left of p is now S.                                                     *)
Leaving(p, l, S) ==
  /\ left' \in [Proc -> SUBSET Key] /\ \A q \in Proc \ {p} : left'[q] = left[q]
  /\ left'[p] = S /\ S # {}
  /\ l \notin {"remove", "dead"} => S \subseteq Mine(p)

Moves(p, l) ==
  pc'[p] = l /\ \A q \in Proc \ {p} : pc'[q] = pc[q] /\ left'[q] = left[q]

LEMMA PlaceStep ==
  ASSUME Places, NEW p \in Proc, NEW l, NEW S, Allowed(p, l), Goto(p, l), Leaving(p, l, S),
         systems' \subseteq Server, mishaps' \subseteq Mishap
  PROVE  Places' /\ Moves(p, l)
<1>1. /\ pc' \in [Proc -> ServerPC \union ShellPC \union RecvPC]
      /\ pc'[p] = l /\ \A q \in Proc : q # p => pc'[q] = pc[q]
  BY DEF Places, Goto, Allowed
<1>2. Moves(p, l)
  BY <1>1 DEF Moves, Leaving
<1>3. \A s \in Server : pc'[Program(s)] \in ServerPC
  BY <1>1, Kinds DEF Places, Allowed
<1>4. \A c \in Client : pc'[Shell(c)] \in ShellPC /\ pc'[Recv(c)] \in RecvPC
  BY <1>1, Kinds DEF Places, Allowed
<1>5. ASSUME NEW q \in Proc
      PROVE  /\ left'[q] # {}
             /\ pc'[q] \notin {"remove", "dead"} => left'[q] \subseteq Mine(q)
             /\ pc'[q] = "none" => left'[q] = Mine(q)
  <2>1. CASE q = p
    BY <1>1, <2>1 DEF Leaving, Allowed
  <2>2. CASE q # p
    BY <1>1, <2>2 DEF Leaving, Places
  <2>3. QED
    BY <2>1, <2>2
<1>6. \A c \in Client : pc'[Shell(c)] = "none" => pc'[Recv(c)] = "none"
  <2>1. \A c \in Client : pc[Shell(c)] = "none" => pc[Recv(c)] = "none"
    BY DEF Places
  <2>2. \A c \in Client : p = Recv(c) => pc[p] # "none"
    BY Different DEF Allowed
  <2>3. l # "none"
    BY DEF Allowed
  <2>4. QED
    BY <1>1, <2>1, <2>2, <2>3, Kinds
<1>7. Places'
  BY <1>1, <1>3, <1>4, <1>5, <1>6 DEF Places, Leaving, Mine
<1>8. QED
  BY <1>2, <1>7

(* left of p stays, or is filled again.                                    *)
LEMMA LeavingSame ==
  ASSUME Places, NEW p \in Proc, NEW l, UNCHANGED left, pc[p] \notin {"remove", "dead"}
  PROVE  Leaving(p, l, left[p])
BY DEF Leaving, Places

LEMMA MineNotEmpty ==
  ASSUME NEW p \in Proc
  PROVE  Mine(p) # {} /\ Mine(p) \subseteq Key
<1>1. Key # {}
  BY SemSetsAssumption
<1>2. QED
  BY <1>1, Everybody, Kinds

LEMMA LeavingFull ==
  ASSUME Places, NEW p \in Proc, NEW l, left' = [left EXCEPT ![p] = Mine(p)]
  PROVE  Leaving(p, l, Mine(p))
BY MineNotEmpty DEF Leaving, Places

LEMMA NextPlace ==
  ASSUME Places, NEW p \in Proc, NEW l, NEW m, NextSet(p, l, m),
         pc[p] \notin {"remove", "dead"}
  PROVE  \/ /\ left[p] # {Turn(p)} /\ Goto(p, l)
            /\ Leaving(p, l, left[p] \ {Turn(p)})
         \/ left[p] = {Turn(p)} /\ Goto(p, m) /\ Leaving(p, m, Mine(p))
<1>1. Turn(p) \in left[p] /\ left[p] \subseteq Mine(p)
  BY TurnIn DEF Places
<1>2. CASE /\ left[p] # {Turn(p)} /\ Goto(p, l)
           /\ left' = [left EXCEPT ![p] = @ \ {Turn(p)}]
  BY <1>1, <1>2 DEF Leaving, Places
<1>3. CASE left[p] = {Turn(p)} /\ Goto(p, m) /\ left' = [left EXCEPT ![p] = Mine(p)]
  BY <1>3, LeavingFull
<1>4. QED
  BY <1>2, <1>3 DEF NextSet

LEMMA IdsSame ==
  ASSUME Ids, UNCHANGED <<sets, handle>>
  PROVE  Ids' /\ (\A p, k : Valid(p, k)' = Valid(p, k))
BY DEF Ids, sets, Valid

(* A step of p that changes no set.                                        *)
LEMMA IdleStep ==
  ASSUME Sound, NEW p \in Proc, NEW l, NEW S, Allowed(p, l), Goto(p, l), Leaving(p, l, S),
         UNCHANGED <<semVars, sets, handle, refs>>, \A j \in Key : Stays(p, j),
         systems' \subseteq Server, mishaps' \subseteq Mishap
  PROVE  Sound'
<1>1. Types' /\ \A j \in Key : SameSet(j)
  BY IdleEffect DEF Sound
<1>2. Places' /\ Moves(p, l)
  BY PlaceStep DEF Sound
<1>3. Ids'
  BY IdsSame DEF Sound
<1>4. \A q \in Proc \ {p} : SamePlace(q)
  BY <1>2 DEF Moves, SamePlace
<1>5. AllSets' /\ AllPairs'
  BY <1>1, <1>4, StepOnNone DEF Sound
<1>6. QED
  BY <1>1, <1>2, <1>3, <1>5 DEF Sound

(* p dies, or runs INT_handler.                                            *)
LEMMA StopStays ==
  ASSUME NEW p \in Proc, UNCHANGED handle, pc'[p] \in {"dead", "remove"}, NEW j \in Key
  PROVE  Stays(p, j)
BY DEF Stays, Has, Lacks, Locking, Holding, Creating, Closer

(* p goes on at the same set, which it does not lock.                      *)
LEMMA DeathStep ==
  ASSUME Sound, NEW p \in Proc, Goto(p, "dead"), Allowed(p, "dead"),
         UNCHANGED <<semVars, sets, handle, refs>>,
         left' = left \/ left' = [left EXCEPT ![p] = Mine(p)],
         systems' \subseteq Server, mishaps' \subseteq Mishap
  PROVE  Sound'
<1>1. pc'[p] = "dead"
  BY DEF Sound, Places, Goto
<1>2. \A j \in Key : Stays(p, j)
  BY <1>1, StopStays
<1>3. Leaving(p, "dead", left[p]) \/ Leaving(p, "dead", Mine(p))
  <2>1. CASE left' = left
    BY <2>1 DEF Leaving, Sound, Places
  <2>2. CASE left' = [left EXCEPT ![p] = Mine(p)]
    BY <2>2, LeavingFull DEF Sound
  <2>3. QED
    BY <2>1, <2>2
<1>4. QED
  BY <1>2, <1>3, IdleStep

LEMMA AllowedEverywhere ==
  ASSUME NEW p \in Proc, pc[p] # "none"
  PROVE  Allowed(p, "dead") /\ Allowed(p, "remove")
BY DEF Allowed, ServerPC, ShellPC, RecvPC, Creating, Closer
-----------------------------------------------------------------------------
(* sem_create.                                                             *)

LEMMA SetEmpty ==
  ASSUME Types, NEW k \in Key, SetOk(k), cnt[k] = 0
  PROVE  refs[k] = {} /\ \A q \in Proc : undoVal[q][k] = 0
<1>1. refs[k] = {}
  BY Room, BigCountAssumption DEF SetOk, CntOk, Types
<1>2. QED
  BY <1>1 DEF SetOk, ValOk

LEMMA MildSame ==
  ASSUME NEW q \in Proc, NEW k, SameSet(k)
  PROVE  Mild(q, k)
BY DEF Mild, SameSet, SameVal, SameCnt, SameLock

LEMMA Others ==
  ASSUME NEW p \in Proc, NEW l, Moves(p, l), NEW q \in Proc \ {p}, handle'[q] = handle[q]
  PROVE  SamePlace(q)
BY DEF Moves, SamePlace

LEMMA CreatingAllowed ==
  ASSUME NEW s \in Server, NEW l \in Creating \union {"fork", "bind", "up"}
  PROVE  Allowed(Program(s), l)
BY Different DEF Allowed, ServerPC, Creating

LEMMA semgetSound ==
  ASSUME Sound, NEW s \in Server, NEW p \in Proc, p = Program(s), NEW k \in Key, k = Turn(p),
         semget(p, k), UNCHANGED <<systems, mishaps>>
  PROVE  Sound'
<1>1. /\ pc[p] = "get" /\ Goto(p, "lock") /\ UNCHANGED left
      /\ Allowed(p, "lock")
  BY CreatingAllowed DEF semget, Creating
<1>2. Places' /\ Moves(p, "lock") /\ left'[p] = left[p]
  <2>1. Leaving(p, "lock", left[p])
    BY <1>1, LeavingSame DEF Sound
  <2>2. systems' \subseteq Server /\ mishaps' \subseteq Mishap
    BY DEF Sound, Places
  <2>3. QED
    BY <1>1, <2>1, <2>2, PlaceStep DEF Sound, Leaving
<1>3. pc'[p] = "lock" /\ k \in left[p] /\ p \notin refs[k] /\ PairOk(p, k)
  <2>1. k \in left[p]
    BY TurnIn DEF Sound
  <2>2. Lacks(p, k) /\ PairOk(p, k)
    BY <1>1, <2>1 DEF Lacks, Creating, Sound, AllPairs
  <2>3. QED
    BY <1>2, <2>1, <2>2 DEF Moves, PairOk
<1>4. \A j \in Key \ {k} : handle'[p][j] = handle[p][j] => Stays(p, j)
  BY <1>1, <1>2, <1>3 DEF Stays, Has, Lacks, Locking, Holding, Creating, Closer, Mine, Moves
<1>5. refs'[k] = refs[k] /\ p \notin refs'[k] => PairOk(p, k)'
  <2>1. ~Has(p, k)' /\ ~Locking(p, k)' /\ ~Holding(p, k)' /\ pc'[p] = "lock"
    BY <1>2, <1>3 DEF Has, Locking, Holding, Creating, Closer, Mine
  <2>2. QED
    BY <2>1 DEF PairOk
<1>6. CASE /\ id[k] # 0 /\ handle' = [handle EXCEPT ![p][k] = id[k]] /\ UNCHANGED sets
  <2>1. Types' /\ \A j \in Key : SameSet(j)
    BY <1>6, IdleEffect DEF Sound, semget
  <2>2. Ids'
    BY <1>6 DEF Sound, Ids, sets
  <2>3. /\ \A q \in Proc \ {p} : handle'[q] = handle[q]
        /\ \A j \in Key \ {k} : handle'[p][j] = handle[p][j]
    BY <1>6 DEF Sound, Ids
  <2>4. Apart2(p, k) /\ \A q \in Proc \ {p} : Mild(q, k)
    BY <1>2, <2>1, <2>3, Others, MildSame DEF Apart2, Apart
  <2>5. SetOk(k)' /\ PairOk(p, k)'
    BY <1>3, <1>5, <2>1, SetSame DEF SameSet, SameCnt, Sound, AllSets
  <2>6. AllSets' /\ AllPairs'
    BY <1>4, <2>3, <2>4, <2>5, StepOnSet DEF Sound
  <2>7. QED
    BY <1>2, <2>1, <2>2, <2>6 DEF Sound
<1>7. CASE /\ id[k] = 0 /\ id' = [id EXCEPT ![k] = next] /\ next' = next + 1
           /\ handle' = [handle EXCEPT ![p][k] = next]
  <2>1. /\ Types' /\ Apart(k)
        /\ id'[k] = next /\ SameVal(k) /\ SameCnt(k) /\ SameLock(k)
    <3>1. Typed /\ UNCHANGED <<semVars, refs>>
      BY DEF semget, Sound, Typed, Ids
    <3>2. QED
      BY <1>7, <3>1, GetEffect
  <2>2. Ids'
    <3>1. id' \in [Key -> Nat] /\ next' \in Nat \ {0} /\ handle' \in [Proc -> [Key -> Nat]]
      BY <1>7 DEF Sound, Ids
    <3>2. \A j \in Key : id'[j] < next'
      BY <1>7 DEF Sound, Ids
    <3>3. \A q \in Proc, j \in Key : handle'[q][j] = handle[q][j] \/ handle'[q][j] = next
      BY <1>7 DEF Sound, Ids
    <3>4. \A q \in Proc, j \in Key : handle'[q][j] < next'
      <4>1. \A q \in Proc, j \in Key : handle[q][j] < next /\ handle[q][j] \in Nat
        BY DEF Sound, Ids
      <4>2. next' = next + 1 /\ next \in Nat
        BY <1>7 DEF Sound, Ids
      <4>3. QED
        BY <3>3, <4>1, <4>2
    <3>5. QED
      BY <3>1, <3>2, <3>4 DEF Ids
  <2>3. /\ \A q \in Proc \ {p} : handle'[q] = handle[q]
        /\ \A j \in Key \ {k} : handle'[p][j] = handle[p][j]
    BY <1>7 DEF Sound, Ids
  <2>4. refs[k] = {} /\ SetOk(k)
    BY <1>7, SetEmpty DEF Sound, AllSets, SetOk
  <2>5. \A q \in Proc \ {p} : Mild(q, k)
    <3>1. \A q \in Proc : handle[q][k] # next
      BY DEF Sound, Ids
    <3>2. QED
      BY <2>1, <2>4, <3>1 DEF Mild, SameCnt
  <2>6. Apart2(p, k)
    BY <1>2, <2>1, <2>3, Others DEF Apart2
  <2>7. SetOk(k)'
    <3>1. LockOk(k)' /\ CntOk(k)' /\ ValOk(k)'
      BY <2>1, <2>4, LockSame, CntSame, ValSame DEF SetOk, SameCnt
    <3>2. id'[k] # 0
      BY <2>1 DEF Sound, Ids
    <3>3. QED
      BY <3>1, <3>2 DEF SetOk
  <2>8. PairOk(p, k)'
    BY <1>3, <1>5, <2>1 DEF SameCnt
  <2>9. AllSets' /\ AllPairs'
    BY <1>4, <2>3, <2>5, <2>6, <2>7, <2>8, StepOnSet DEF Sound
  <2>10. QED
    BY <1>2, <2>1, <2>2, <2>9 DEF Sound
<1>8. QED
  BY <1>6, <1>7 DEF semget
(* A step of p that works on set k, put together.                          *)
LEMMA OpStep ==
  ASSUME Sound, NEW p \in Proc, NEW k \in Key, NEW l, Places', Ids', Types', Moves(p, l),
         Apart(k), \A q \in Proc \ {p} : handle'[q] = handle[q] /\ Mild(q, k),
         SetOk(k)', PairOk(p, k)', \A j \in Key \ {k} : Stays(p, j)
  PROVE  Sound'
<1>1. Apart2(p, k)
  BY Others DEF Apart2
<1>2. AllSets' /\ AllPairs'
  BY <1>1, StepOnSet DEF Sound
<1>3. QED
  BY <1>2 DEF Sound

(* An operation on k that only changes what p has in it.                   *)
LEMMA MildOp ==
  ASSUME NEW p \in Proc, NEW q \in Proc \ {p}, NEW k, id'[k] = id[k],
         SameVal(k) \/ Takes(p, k) \/ Gives(p, k),
         SameCnt(k) \/ Refers(p, k) \/ Unrefers(p, k),
         SameLock(k) \/ Closes(p, k) \/ Reopens(p, k),
         cnt[k] = 0 => SameVal(k) /\ SameCnt(k)
  PROVE  Mild(q, k)
<1>1. undoVal'[q][k] = undoVal[q][k]
  BY DEF SameVal, Takes, Gives
<1>2. q \in refs'[k] <=> q \in refs[k]
  BY DEF SameCnt, Refers, Unrefers
<1>3. undoLock'[q][k] = undoLock[q][k]
  BY DEF SameLock, Closes, Reopens
<1>4. QED
  BY <1>1, <1>2, <1>3 DEF Mild, SameVal, SameCnt

LEMMA CreatingPlace ==
  ASSUME Sound, NEW s \in Server, NEW p \in Proc, p = Program(s),
         pc[p] \in Creating \union {"none", "fork", "bind", "up"},
         NEW l \in Creating \union {"fork", "bind", "up"}, Goto(p, l), UNCHANGED left,
         systems' \subseteq Server, mishaps' \subseteq Mishap
  PROVE  Places' /\ Moves(p, l) /\ left'[p] = left[p] /\ pc'[p] = l /\ Turn(p)' = Turn(p)
<1>1. Leaving(p, l, left[p])
  BY LeavingSame DEF Sound, Creating
<1>2. Places' /\ Moves(p, l) /\ left'[p] = left[p]
  BY <1>1, CreatingAllowed, PlaceStep DEF Sound, Leaving
<1>3. Turn(p)' = Turn(p)
  BY <1>2 DEF Moves, Turn, Creating
<1>4. QED
  BY <1>2, <1>3 DEF Moves

(* A creating process stays at its set.                                    *)
LEMMA CreatingStays ==
  ASSUME NEW p \in Proc, NEW j, handle'[p] = handle[p],
         pc[p] \in Creating, pc'[p] \in Creating, left'[p] = left[p], Turn(p)' = Turn(p),
         j # Turn(p) \/ pc'[p] \in {"get", "lock", "asleep"}
  PROVE  Stays(p, j)
BY DEF Stays, Has, Lacks, Locking, Holding, Creating, Closer, Mine

LEMMA op_lockSound ==
  ASSUME Sound, NEW s \in Server, NEW p \in Proc, p = Program(s), NEW k \in Key, k = Turn(p),
         op_lock(p, k), UNCHANGED <<systems, mishaps>>
  PROVE  Sound'
<1>0. systems' \subseteq Server /\ mishaps' \subseteq Mishap
  BY DEF Sound, Places
<1>1. CASE /\ pc[p] \in {"lock", "asleep"} /\ Valid(p, k) /\ lock[k] = 0
           /\ lock' = [lock EXCEPT ![k] = 1]
           /\ undoLock' = [undoLock EXCEPT ![p][k] = @ - 1]
           /\ Goto(p, "getval")
           /\ UNCHANGED <<valVars, cnt, undoCnt, sets, left, handle, refs>>
  <2>1. /\ Places' /\ Moves(p, "getval") /\ left'[p] = left[p] /\ pc'[p] = "getval"
        /\ Turn(p)' = Turn(p)
    BY <1>0, <1>1, CreatingPlace DEF Creating
  <2>2. /\ Types' /\ Apart(k)
        /\ id'[k] = id[k] /\ Closes(p, k) /\ SameVal(k) /\ SameCnt(k)
    BY <1>1, LockEffect DEF Sound
  <2>3. SetOk(k) /\ PairOk(p, k) /\ k \in left[p]
    BY TurnIn DEF Sound, AllSets, AllPairs
  <2>4. SetOk(k)' /\ undoLock'[p][k] = -1
    <3>1. LockOk(k)' /\ CntOk(k)' /\ ValOk(k)' /\ undoLock'[p][k] = -1
      BY <2>2, <2>3, LockTaken, CntSame, ValSame DEF SetOk, SameCnt
    <3>2. id[k] # 0
      BY <1>1 DEF Valid
    <3>3. QED
      BY <2>2, <3>1, <3>2 DEF SetOk
  <2>5. Ids' /\ Valid(p, k)' = Valid(p, k)
    BY <1>1, IdsSame DEF Sound
  <2>6. PairOk(p, k)'
    <3>1. ~Has(p, k)' /\ ~Holding(p, k)' /\ Lacks(p, k)
      BY <1>1, <2>1, <2>3 DEF Has, Lacks, Holding, Creating, Closer, Mine
    <3>2. QED
      BY <2>1, <2>2, <2>3, <2>4, <2>5, <3>1 DEF PairOk, SameCnt
  <2>7. \A j \in Key \ {k} : Stays(p, j)
    BY <1>1, <2>1, CreatingStays DEF Creating
  <2>8. \A q \in Proc \ {p} : handle'[q] = handle[q] /\ Mild(q, k)
    BY <1>1, <2>2, MildOp
  <2>9. QED
    BY <2>1, <2>2, <2>4, <2>5, <2>6, <2>7, <2>8, OpStep
<1>2. CASE /\ \/ pc[p] = "lock" /\ Goto(p, "asleep")
              \/ pc[p] = "lock" /\ Goto(p, "get")
           /\ UNCHANGED <<semVars, sets, left, handle, refs>>
  <2>1. PICK l \in {"asleep", "get"} : Goto(p, l) /\ pc[p] = "lock"
    BY <1>2
  <2>2. left'[p] = left[p] /\ pc'[p] = l /\ Turn(p)' = Turn(p)
    BY <1>0, <1>2, <2>1, CreatingPlace DEF Creating
  <2>3. \A j \in Key : Stays(p, j)
    BY <1>2, <2>1, <2>2, CreatingStays DEF Creating
  <2>4. Leaving(p, l, left[p]) /\ Allowed(p, l)
    BY <1>2, <2>1, LeavingSame, CreatingAllowed DEF Sound, Creating
  <2>5. QED
    BY <1>0, <1>2, <2>1, <2>3, <2>4, IdleStep
<1>3. CASE /\ pc[p] = "asleep" /\ Goto(p, "dead")
           /\ UNCHANGED <<semVars, sets, left, handle, refs>>
  BY <1>0, <1>3, DeathStep, AllowedEverywhere
<1>4. QED
  BY <1>1, <1>2, <1>3 DEF op_lock

LEMMA getvalSound ==
  ASSUME Sound, NEW s \in Server, NEW p \in Proc, p = Program(s), NEW k \in Key, k = Turn(p),
         getval(p, k), UNCHANGED <<systems, mishaps>>
  PROVE  Sound'
<1>0. systems' \subseteq Server /\ mishaps' \subseteq Mishap
  BY DEF Sound, Places
<1>1. CASE Goto(p, "dead")
  BY <1>0, <1>1, DeathStep, AllowedEverywhere DEF getval
<1>2. ASSUME NEW l \in {"setval", "endcreate"}, Goto(p, l), l = "setval" => cnt[k] = 0
      PROVE  Sound'
  <2>1. /\ Places' /\ Moves(p, l) /\ left'[p] = left[p] /\ pc'[p] = l
        /\ Turn(p)' = Turn(p)
    BY <1>0, <1>2, CreatingPlace DEF Creating, getval
  <2>2. Types' /\ \A j \in Key : SameSet(j)
    BY IdleEffect DEF Sound, getval
  <2>3. Ids' /\ Valid(p, k)' = Valid(p, k)
    BY IdsSame DEF Sound, getval
  <2>4. PairOk(p, k)'
    <3>1. /\ Has(p, k)' = Has(p, k) /\ Lacks(p, k)' = Lacks(p, k)
          /\ Locking(p, k) /\ ~Holding(p, k)'
      BY <1>2, <2>1 DEF Has, Lacks, Locking, Holding, Creating, Closer, Mine, getval
    <3>2. /\ refs'[k] = refs[k] /\ undoLock'[p][k] = undoLock[p][k] /\ cnt'[k] = cnt[k]
          /\ PairOk(p, k)
      BY <2>2 DEF SameSet, SameCnt, SameLock, Sound, AllPairs
    <3>3. QED
      BY <1>2, <2>1, <2>3, <3>1, <3>2 DEF PairOk
  <2>5. \A j \in Key \ {k} : Stays(p, j)
    BY <1>2, <2>1, CreatingStays DEF Creating, getval
  <2>6. \A q \in Proc \ {p} : handle'[q] = handle[q] /\ Mild(q, k)
    BY <2>2, MildSame DEF getval
  <2>7. SetOk(k)' /\ Apart(k)
    BY <2>2, SetSame DEF Sound, AllSets, Apart
  <2>8. QED
    BY <2>1, <2>2, <2>3, <2>4, <2>5, <2>6, <2>7, OpStep
<1>3. QED
  BY <1>1, <1>2 DEF getval
(* Whoever holds the closing lock of a set is the only one who does.       *)
LEMMA OneLocks ==
  ASSUME Sound, NEW p \in Proc, NEW q \in Proc \ {p}, NEW k \in Key,
         Locking(p, k), Valid(p, k)
  PROVE  undoLock[p][k] = -1 /\ undoLock[q][k] # -1
BY DEF Sound, AllSets, SetOk, LockOk, AllPairs, PairOk

LEMMA setvalSound ==
  ASSUME Sound, NEW s \in Server, NEW p \in Proc, p = Program(s), NEW k \in Key, k = Turn(p),
         setval(p, k), UNCHANGED <<systems, mishaps>>
  PROVE  Sound'
<1>0. systems' \subseteq Server /\ mishaps' \subseteq Mishap
  BY DEF Sound, Places
<1>1. SetOk(k) /\ PairOk(p, k) /\ k \in left[p]
  BY TurnIn DEF Sound, AllSets, AllPairs
<1>2. CASE /\ pc[p] = "setval" /\ Valid(p, k) /\ Goto(p, "setcount")
           /\ val' = Become(val, k, initval(k)) /\ undoVal' = Forget(undoVal, k)
           /\ UNCHANGED <<asleep, cntVars, sets, left, handle, refs>>
  <2>1. /\ Places' /\ Moves(p, "setcount") /\ left'[p] = left[p] /\ pc'[p] = "setcount"
        /\ Turn(p)' = Turn(p)
    BY <1>0, <1>2, CreatingPlace DEF Creating
  <2>2. /\ Types' /\ Apart(k)
        /\ id'[k] = id[k] /\ SameCnt(k) /\ SameLock(k)
        /\ val'[k] = initval(k) /\ \A q \in Proc : undoVal'[q][k] = 0
    BY <1>2, SetvalEffect DEF Sound
  <2>3. Ids' /\ Valid(p, k)' = Valid(p, k)
    BY <1>2, IdsSame DEF Sound
  <2>4. Locking(p, k) /\ cnt[k] = 0
    BY <1>1, <1>2 DEF Locking, PairOk
  <2>5. SetOk(k)'
    <3>1. ValOk(k)'
      BY <2>2, <2>4 DEF ValOk, SameCnt
    <3>2. LockOk(k)' /\ CntOk(k)'
      BY <1>1, <2>2, LockSame, CntSame DEF SetOk
    <3>3. QED
      BY <1>1, <2>2, <3>1, <3>2 DEF SetOk, SameCnt, SameLock
  <2>6. PairOk(p, k)'
    <3>1. ~Has(p, k)' /\ ~Holding(p, k)' /\ Lacks(p, k)
      BY <1>1, <1>2, <2>1 DEF Has, Lacks, Holding, Creating, Closer, Mine
    <3>2. undoLock'[p][k] = -1 /\ cnt'[k] = 0 /\ refs'[k] = refs[k]
      BY <1>1, <1>2, <2>2, <2>4 DEF SameLock, SameCnt, PairOk
    <3>3. val'[k] = initval(k)'
      BY <2>2 DEF initval
    <3>4. QED
      BY <1>1, <2>1, <2>3, <3>1, <3>2, <3>3 DEF PairOk
  <2>7. \A j \in Key \ {k} : Stays(p, j)
    BY <1>2, <2>1, CreatingStays DEF Creating
  <2>8. ASSUME NEW q \in Proc \ {p} PROVE handle'[q] = handle[q] /\ Mild(q, k)
    <3>1. undoLock[q][k] # -1
      BY <1>2, <2>4, OneLocks
    <3>2. undoVal[q][k] = 0
      BY <1>1, <2>4, SetEmpty DEF Sound
    <3>3. QED
      BY <1>2, <2>2, <3>1, <3>2 DEF Mild, SameCnt, SameLock
  <2>9. QED
    BY <2>1, <2>2, <2>3, <2>5, <2>6, <2>7, <2>8, OpStep
<1>3. CASE /\ pc[p] = "setcount" /\ Valid(p, k) /\ Goto(p, "endcreate")
           /\ cnt' = Become(cnt, k, BIGCOUNT) /\ undoCnt' = Forget(undoCnt, k)
           /\ UNCHANGED <<valVars, lock, undoLock, sets, left, handle, refs>>
  <2>1. /\ Places' /\ Moves(p, "endcreate") /\ left'[p] = left[p] /\ pc'[p] = "endcreate"
        /\ Turn(p)' = Turn(p)
    BY <1>0, <1>3, CreatingPlace DEF Creating
  <2>2. /\ Types' /\ Apart(k)
        /\ id'[k] = id[k] /\ SameVal(k) /\ SameLock(k) /\ refs'[k] = refs[k]
        /\ cnt'[k] = BIGCOUNT /\ \A q \in Proc : undoCnt'[q][k] = 0
    BY <1>3, SetcountEffect DEF Sound
  <2>3. Ids' /\ Valid(p, k)' = Valid(p, k)
    BY <1>3, IdsSame DEF Sound
  <2>4. Locking(p, k) /\ cnt[k] = 0 /\ val[k] = initval(k)
    BY <1>1, <1>3 DEF Locking, PairOk
  <2>5. refs[k] = {} /\ \A q \in Proc : undoVal[q][k] = 0
    BY <1>1, <2>4, SetEmpty DEF Sound
  <2>6. SetOk(k)'
    <3>1. ValOk(k)'
      <4>1. \A q \in Proc : undoVal'[q][k] = 0
        BY <2>2, <2>5 DEF SameVal
      <4>2. k \in Locks => val'[k] = 1
        BY <2>2, <2>4 DEF SameVal, Locks, initval
      <4>3. QED
        BY <4>1, <4>2 DEF ValOk
    <3>2. CntOk(k)'
      BY <2>2, <2>5, FS_EmptySet, BigCountAssumption DEF CntOk
    <3>3. LockOk(k)' /\ id'[k] # 0
      BY <1>1, <1>3, <2>2, LockSame DEF SetOk, Valid
    <3>4. QED
      BY <3>1, <3>2, <3>3 DEF SetOk
  <2>7. PairOk(p, k)'
    <3>1. ~Has(p, k)' /\ ~Holding(p, k)' /\ Lacks(p, k)
      BY <1>1, <1>3, <2>1 DEF Has, Lacks, Holding, Creating, Closer, Mine
    <3>2. undoLock'[p][k] = -1 /\ refs'[k] = refs[k]
      BY <1>1, <1>3, <2>2, <2>4 DEF SameLock, PairOk
    <3>3. QED
      BY <1>1, <2>1, <2>3, <3>1, <3>2 DEF PairOk
  <2>8. \A j \in Key \ {k} : Stays(p, j)
    BY <1>3, <2>1, CreatingStays DEF Creating
  <2>9. ASSUME NEW q \in Proc \ {p} PROVE handle'[q] = handle[q] /\ Mild(q, k)
    <3>1. undoLock[q][k] # -1
      BY <1>3, <2>4, OneLocks
    <3>2. QED
      BY <1>3, <2>2, <3>1 DEF Mild, SameVal, SameLock
  <2>10. QED
    BY <2>1, <2>2, <2>3, <2>6, <2>7, <2>8, <2>9, OpStep
<1>4. CASE /\ pc[p] \in {"setval", "setcount"} /\ Goto(p, "dead")
           /\ UNCHANGED <<semVars, sets, left, handle, refs>>
  BY <1>0, <1>4, DeathStep, AllowedEverywhere
<1>5. QED
  BY <1>2, <1>3, <1>4 DEF setval

LEMMA op_endcreateSound ==
  ASSUME Sound, NEW s \in Server, NEW p \in Proc, p = Program(s), NEW k \in Key, k = Turn(p),
         op_endcreate(p, k), UNCHANGED <<systems, mishaps>>
  PROVE  Sound'
<1>0. systems' \subseteq Server /\ mishaps' \subseteq Mishap
  BY DEF Sound, Places
<1>1. SetOk(k) /\ PairOk(p, k) /\ k \in left[p] /\ pc[p] = "endcreate"
  BY TurnIn DEF Sound, AllSets, AllPairs, op_endcreate
<1>2. Ids' /\ (\A j \in Key : Valid(p, j)' = Valid(p, j)) /\ UNCHANGED handle
  BY IdsSame DEF Sound, op_endcreate
<1>3. CASE /\ Valid(p, k) /\ cnt[k] > 0 /\ lock[k] > 0
           /\ cnt' = [cnt EXCEPT ![k] = @ - 1]
           /\ undoCnt' = [undoCnt EXCEPT ![p][k] = @ + 1]
           /\ lock' = [lock EXCEPT ![k] = @ - 1]
           /\ undoLock' = [undoLock EXCEPT ![p][k] = @ + 1]
           /\ refs' = [refs EXCEPT ![k] = @ \union {p}]
           /\ NextSet(p, "get", "fork")
           /\ UNCHANGED valVars
  <2>1. /\ Types' /\ Apart(k)
        /\ id'[k] = id[k] /\ Refers(p, k) /\ Reopens(p, k) /\ SameVal(k)
    BY <1>3, CreatedEffect DEF Sound, op_endcreate
  <2>2. Locking(p, k) /\ Lacks(p, k) /\ undoLock[p][k] = -1 /\ p \notin refs[k]
    BY <1>1, <1>3 DEF Locking, Lacks, Creating, PairOk
  <2>3. SetOk(k)'
    <3>1. refs[k] \in SUBSET Proc
      BY DEF Sound, Types
    <3>2. LockOk(k)' /\ CntOk(k)' /\ cnt'[k] # 0
      BY <1>1, <2>1, <2>2, <3>1, LockFreed, CntTaken DEF SetOk
    <3>3. ValOk(k)'
      BY <1>1, <1>3, <2>1, <3>2, ValSame DEF SetOk
    <3>4. QED
      BY <1>3, <2>1, <3>2, <3>3 DEF SetOk, Valid
  <2>4. PICK l, S : /\ Goto(p, l) /\ Leaving(p, l, S)
                    /\ \/ l = "get" /\ S = left[p] \ {k}
                       \/ l = "fork" /\ S = Mine(p) /\ left[p] = {k}
    BY <1>1, <1>3, NextPlace DEF Sound
  <2>5. Places' /\ Moves(p, l) /\ left'[p] = S /\ pc'[p] = l
    <3>1. Allowed(p, l)
      BY <2>4, CreatingAllowed DEF Creating
    <3>2. QED
      BY <1>0, <2>4, <3>1, PlaceStep DEF Sound, Leaving, Moves
  <2>6. \A j \in Key \ {k} : Stays(p, j)
    <3>1. /\ (\A j \in Key \ {k} : Has(p, j)' => Has(p, j))
          /\ (\A j \in Key : Lacks(p, j)' => Lacks(p, j) /\ j # k)
      BY <1>1, <2>4, <2>5 DEF Has, Lacks, Creating, Closer, Mine
    <3>2. \A j \in Key : ~Locking(p, j)' /\ ~Holding(p, j)'
      BY <2>4, <2>5 DEF Locking, Holding, Closer
    <3>3. QED
      BY <1>2, <2>4, <2>5, <3>1, <3>2 DEF Stays
  <2>7. PairOk(p, k)'
    <3>1. ~Lacks(p, k)' /\ ~Locking(p, k)' /\ ~Holding(p, k)'
      BY <1>1, <2>4, <2>5 DEF Lacks, Locking, Holding, Creating, Closer
    <3>2. p \in refs'[k] /\ Valid(p, k)'
      BY <1>2, <1>3, <2>1 DEF Refers
    <3>3. QED
      BY <2>4, <2>5, <3>1, <3>2 DEF PairOk
  <2>8. \A q \in Proc \ {p} : handle'[q] = handle[q] /\ Mild(q, k)
    BY <1>2, <1>3, <2>1, MildOp
  <2>9. QED
    BY <1>2, <2>1, <2>3, <2>5, <2>6, <2>7, <2>8, OpStep
<1>4. CASE ~Valid(p, k) /\ Exits(p) /\ UNCHANGED <<semVars, refs>>
  BY <1>0, <1>1, <1>2, <1>4, DeathStep, AllowedEverywhere DEF Exits, op_endcreate
<1>5. QED
  BY <1>3, <1>4 DEF op_endcreate
-----------------------------------------------------------------------------
(* sem_rm, and the locks.                                                  *)

LEMMA RemoveSound ==
  ASSUME Sound, NEW p \in Proc, NEW k \in Key, NEW l, RemoveSet(k), Places', Moves(p, l),
         UNCHANGED handle, \A j \in Key \ {k} : Stays(p, j)
  PROVE  Sound'
<1>1. Types' /\ Apart(k) /\ Wiped(k) /\ id' \in [Key -> Nat] /\ next' = next
  BY RemoveEffect DEF Sound, Ids, Typed
<1>2. Ids'
  <2>1. \A j \in Key : id'[j] < next'
    BY <1>1 DEF Apart, SameSet, Wiped, Sound, Ids
  <2>2. QED
    BY <1>1, <2>1 DEF Sound, Ids
<1>3. SetOk(k)'
  BY <1>1, SetWiped
<1>4. \A q \in Proc : Mild(q, k)
  BY <1>1 DEF Wiped, Mild
<1>5. PairOk(p, k)'
  BY <1>1 DEF Wiped, PairOk, Valid
<1>6. QED
  BY <1>1, <1>2, <1>3, <1>4, <1>5, OpStep

LEMMA ShellAllowed ==
  ASSUME NEW c \in Client
  PROVE  /\ pc[Shell(c)] # "none" => \A l \in ShellPC \ {"none"} : Allowed(Shell(c), l)
         /\ pc[Recv(c)] # "none" => \A l \in RecvPC \ {"none"} : Allowed(Recv(c), l)
BY Different DEF Allowed

(* A process that is not among those that create or remove, and stays with *)
(* the same sets to handle.                                                *)
LEMMA UserPlace ==
  ASSUME Sound, NEW p \in Proc, pc[p] \notin {"remove", "dead"},
         NEW l, l # "remove", Allowed(p, l), Goto(p, l), UNCHANGED left,
         systems' \subseteq Server, mishaps' \subseteq Mishap
  PROVE  /\ Places' /\ Moves(p, l) /\ left'[p] = left[p] /\ pc'[p] = l
         /\ Turn(p)' = Turn(p) /\ Leaving(p, l, left[p]) /\ left[p] \subseteq Mine(p)
<1>1. Leaving(p, l, left[p]) /\ left[p] \subseteq Mine(p)
  BY LeavingSame DEF Sound, Places
<1>2. Places' /\ Moves(p, l) /\ left'[p] = left[p]
  BY <1>1, PlaceStep DEF Sound, Leaving
<1>3. pc'[p] = l
  BY <1>2 DEF Moves
<1>4. QED
  BY <1>1, <1>2, <1>3 DEF Turn

TakePlace(l, k, m) ==
  \/ l = "ready" /\ k = "call_system" /\ m = "calling"
  \/ l = "bye" /\ k = "call_system" /\ m = "said"
  \/ l = "ready" /\ k = "clisem" /\ m = "sign"

LEMMA TakeSound ==
  ASSUME Sound, NEW p \in Proc, NEW l, NEW k, NEW m, TakePlace(l, k, m), k \in Mine(p),
         Allowed(p, m), Take(p, l, k, m)
  PROVE  Sound'
<1>0. /\ systems' \subseteq Server /\ mishaps' \subseteq Mishap
      /\ k \in Locks /\ k \in Key
  BY SemSetsAssumption DEF Sound, Places, Take, Calm, TakePlace, Locks
<1>1. pc[p] = l /\ UNCHANGED <<sets, left, handle, refs>> /\ Goto(p, m)
  BY DEF Take
<1>2. /\ Places' /\ Moves(p, m) /\ left'[p] = left[p] /\ pc'[p] = m
      /\ Turn(p)' = Turn(p) /\ Leaving(p, m, left[p])
  BY <1>0, <1>1, UserPlace DEF TakePlace
<1>3. \A j \in Key : /\ (Has(p, j)' => Has(p, j)) /\ (Lacks(p, j)' => Lacks(p, j))
                     /\ ~Locking(p, j)' /\ (Holding(p, j)' => j = k)
  BY <1>1, <1>2 DEF Has, Lacks, Locking, Holding, Creating, Closer, TakePlace
<1>4. \A j \in Key : j # k \/ ~Valid(p, j) => Stays(p, j)
  BY <1>1, <1>2, <1>3 DEF Stays, TakePlace
<1>5. CASE ~Valid(p, k) /\ UNCHANGED semVars
  <2>1. \A j \in Key : Stays(p, j)
    BY <1>4, <1>5
  <2>2. QED
    BY <1>0, <1>1, <1>2, <1>5, <2>1, IdleStep
<1>6. CASE Valid(p, k) /\ val[k] > 0 /\ sem_wait(p, k)
  <2>1. /\ Types' /\ Apart(k)
        /\ id'[k] = id[k] /\ Takes(p, k) /\ SameCnt(k) /\ SameLock(k)
    BY <1>0, <1>1, <1>6, TakeEffect DEF Sound
  <2>2. Ids' /\ Valid(p, k)' = Valid(p, k)
    BY <1>1, IdsSame DEF Sound
  <2>3. SetOk(k) /\ PairOk(p, k)
    BY <1>0 DEF Sound, AllSets, AllPairs
  <2>4. p \in refs[k] /\ cnt[k] # 0
    <3>1. Has(p, k)
      BY <1>1 DEF Has, TakePlace
    <3>2. p \in refs[k]
      BY <1>6, <2>3, <3>1 DEF PairOk
    <3>3. QED
      BY <1>0, <2>3, <3>2, SetEmpty DEF Sound
  <2>5. SetOk(k)' /\ undoVal'[p][k] = 1
    <3>1. cnt'[k] # 0
      BY <2>1, <2>4 DEF SameCnt
    <3>2. ValOk(k)' /\ undoVal'[p][k] = 1
      BY <1>0, <2>1, <2>3, <2>4, <3>1, ValTaken DEF SetOk
    <3>3. LockOk(k)' /\ CntOk(k)' /\ id'[k] # 0
      BY <1>6, <2>1, <2>3, LockSame, CntSame DEF SetOk, Valid
    <3>4. QED
      BY <3>2, <3>3 DEF SetOk
  <2>6. PairOk(p, k)'
    BY <1>0, <1>2, <1>3, <2>1, <2>2, <2>3, <2>5 DEF PairOk, SameCnt, TakePlace
  <2>7. \A q \in Proc \ {p} : handle'[q] = handle[q] /\ Mild(q, k)
    BY <1>1, <2>1, <2>4, MildOp
  <2>8. QED
    BY <1>0, <1>2, <1>4, <2>1, <2>2, <2>5, <2>6, <2>7, OpStep
<1>7. QED
  BY <1>5, <1>6 DEF Take

GivePlace(l, k, m) ==
  \/ l = "calling" /\ k = "call_system" /\ m = "ready"
  \/ l = "said" /\ k = "call_system" /\ m = "close"
  \/ l = "signed" /\ k = "clisem" /\ m = "waiting"

LEMMA GiveSound ==
  ASSUME Sound, NEW p \in Proc, NEW l, NEW k, NEW m, GivePlace(l, k, m), k \in Mine(p),
         Allowed(p, m), Give(p, l, k, m)
  PROVE  Sound'
<1>0. /\ systems' \subseteq Server /\ mishaps' \subseteq Mishap
      /\ k \in Key
  BY SemSetsAssumption DEF Sound, Places, Give, Calm, GivePlace
<1>1. pc[p] = l /\ UNCHANGED <<sets, left, handle, refs>> /\ Goto(p, m)
  BY DEF Give
<1>2. /\ Places' /\ Moves(p, m) /\ left'[p] = left[p] /\ pc'[p] = m
      /\ Turn(p)' = Turn(p) /\ Leaving(p, m, left[p]) /\ left[p] \subseteq Mine(p)
  BY <1>0, <1>1, UserPlace DEF GivePlace
<1>3. \A j \in Key : /\ (Has(p, j)' => Has(p, j)) /\ (Lacks(p, j)' => Lacks(p, j))
                     /\ ~Locking(p, j)' /\ ~Holding(p, j)'
  BY <1>1, <1>2 DEF Has, Lacks, Locking, Holding, Creating, Closer, GivePlace, Mine
<1>4. \A j \in Key : Stays(p, j)
  BY <1>1, <1>2, <1>3 DEF Stays, GivePlace
<1>5. CASE ~Valid(p, k) /\ UNCHANGED semVars
  BY <1>0, <1>1, <1>2, <1>4, <1>5, IdleStep
<1>6. CASE Valid(p, k) /\ sem_signal(p, k)
  <2>1. /\ Types' /\ Apart(k)
        /\ id'[k] = id[k] /\ Gives(p, k) /\ SameCnt(k) /\ SameLock(k)
    BY <1>0, <1>1, <1>6, GiveEffect DEF Sound
  <2>2. Ids' /\ Valid(p, k)' = Valid(p, k)
    BY <1>1, IdsSame DEF Sound
  <2>3. SetOk(k) /\ PairOk(p, k)
    BY <1>0 DEF Sound, AllSets, AllPairs
  <2>4. undoVal[p][k] = 1 /\ cnt[k] # 0
    <3>1. Holding(p, k)
      BY <1>1 DEF Holding, GivePlace
    <3>2. QED
      BY <1>6, <2>3, <3>1 DEF PairOk, SetOk, ValOk
  <2>5. SetOk(k)'
    <3>1. cnt'[k] # 0
      BY <2>1, <2>4 DEF SameCnt
    <3>2. ValOk(k)'
      BY <2>1, <2>3, <2>4, <3>1, ValGiven DEF SetOk
    <3>3. LockOk(k)' /\ CntOk(k)' /\ id'[k] # 0
      BY <1>6, <2>1, <2>3, LockSame, CntSame DEF SetOk, Valid
    <3>4. QED
      BY <3>2, <3>3 DEF SetOk
  <2>6. PairOk(p, k)'
    BY <1>0, <1>2, <1>3, <2>1, <2>2, <2>3 DEF PairOk, SameCnt, GivePlace
  <2>7. \A q \in Proc \ {p} : handle'[q] = handle[q] /\ Mild(q, k)
    BY <1>1, <2>1, <2>4, MildOp
  <2>8. QED
    BY <1>0, <1>2, <1>4, <2>1, <2>2, <2>5, <2>6, <2>7, OpStep
<1>7. QED
  BY <1>5, <1>6 DEF Give
-----------------------------------------------------------------------------
(* sem_open and sem_close.                                                 *)

(* p opens a set it does not have.                                         *)
LEMMA OpenSound ==
  ASSUME Sound, NEW p \in Proc, NEW k \in Key, NEW l, open(p, k), UNCHANGED sets,
         Lacks(p, k), Places', Moves(p, l),
         ~Lacks(p, k)', ~Locking(p, k)', ~Holding(p, k)',
         pc'[p] \notin {"setval", "setcount"},
         \A j \in Key \ {k} : handle'[p][j] = handle[p][j] => Stays(p, j)
  PROVE  Sound'
<1>1. /\ id[k] # 0 /\ sem_open(p, {k})
      /\ handle' = [handle EXCEPT ![p][k] = id[k]]
      /\ refs' = [refs EXCEPT ![k] = @ \union {p}]
  BY DEF open
<1>2. /\ Types' /\ Apart(k)
      /\ id'[k] = id[k] /\ Refers(p, k) /\ SameVal(k) /\ SameLock(k)
  BY <1>1, OpenEffect DEF Sound
<1>3. /\ \A q \in Proc \ {p} : handle'[q] = handle[q]
      /\ \A j \in Key \ {k} : handle'[p][j] = handle[p][j]
      /\ handle'[p][k] = id[k] /\ id' = id /\ next' = next
  BY <1>1 DEF Sound, Ids, sets
<1>4. Ids'
  BY <1>1, <1>3 DEF Sound, Ids
<1>5. SetOk(k) /\ PairOk(p, k) /\ p \notin refs[k] /\ refs[k] \in SUBSET Proc
  BY DEF Sound, AllSets, AllPairs, PairOk, Types
<1>6. SetOk(k)'
  <2>1. LockOk(k)' /\ CntOk(k)' /\ cnt'[k] # 0
    BY <1>2, <1>5, LockSame, CntTaken DEF SetOk
  <2>2. ValOk(k)'
    <3>1. cnt[k] # 0
      BY <1>2 DEF Refers, Sound, Types
    <3>2. QED
      BY <1>2, <1>5, <2>1, <3>1, ValSame DEF SetOk
  <2>3. QED
    BY <1>1, <1>2, <2>1, <2>2 DEF SetOk
<1>7. PairOk(p, k)'
  <2>1. Valid(p, k)' /\ p \in refs'[k]
    BY <1>1, <1>2, <1>3 DEF Valid, Refers
  <2>2. QED
    BY <2>1 DEF PairOk
<1>8. \A q \in Proc \ {p} : handle'[q] = handle[q] /\ Mild(q, k)
  BY <1>2, <1>3, MildOp DEF Refers
<1>9. QED
  BY <1>2, <1>3, <1>4, <1>6, <1>7, <1>8, OpStep

LEMMA OpensSound ==
  ASSUME Sound, NEW p \in Proc, Allowed(p, "open"), Allowed(p, "ready"), Opens(p),
         "clienting" \notin Mine(p)
  PROVE  Sound'
<1> DEFINE k == Turn(p)
<1>1. /\ pc[p] = "open" /\ UNCHANGED <<sets, of, systems>>
      /\ k \in left[p] /\ k \in Key /\ left[p] \subseteq Mine(p)
  BY TurnIn DEF Opens, Sound, Places
<1>2. CASE open(p, k) /\ NextSet(p, "open", "ready")
  <2>0. systems' \subseteq Server /\ mishaps' \subseteq Mishap
    BY <1>1, <1>2 DEF Sound, Places, open, Mishap
  <2>1. PICK l, S : /\ Goto(p, l) /\ Leaving(p, l, S)
                    /\ \/ l = "open" /\ S = left[p] \ {k}
                       \/ l = "ready" /\ S = Mine(p) /\ left[p] = {k}
    BY <1>1, <1>2, NextPlace DEF Sound
  <2>2. Places' /\ Moves(p, l) /\ left'[p] = S /\ pc'[p] = l
    BY <2>0, <2>1, PlaceStep DEF Sound, Leaving, Moves
  <2>3. \A j \in Key : /\ (Has(p, j)' => Has(p, j) \/ j = k)
                       /\ (Lacks(p, j)' => Lacks(p, j) /\ j # k)
                       /\ ~Locking(p, j)' /\ ~Holding(p, j)'
    BY <1>1, <2>1, <2>2 DEF Has, Lacks, Locking, Holding, Creating, Closer, Mine
  <2>4. \A j \in Key \ {k} : handle'[p][j] = handle[p][j] => Stays(p, j)
    BY <2>1, <2>2, <2>3 DEF Stays
  <2>5. Lacks(p, k)
    BY <1>1 DEF Lacks
  <2>6. pc'[p] \notin {"setval", "setcount"}
    BY <2>1, <2>2
  <2> HIDE DEF k
  <2>7. QED
    BY <1>1, <1>2, <2>2, <2>3, <2>4, <2>5, <2>6, OpenSound
<1>3. CASE NoSet(p, k)
  <2>1. /\ Goto(p, "dead") /\ left' = [left EXCEPT ![p] = Mine(p)]
        /\ UNCHANGED <<semVars, sets, handle, refs>>
        /\ systems' \subseteq Server /\ mishaps' \subseteq Mishap
    BY <1>1, <1>3 DEF NoSet, Exits, Sound, Places
  <2>2. QED
    BY <1>1, <2>1, DeathStep, AllowedEverywhere
<1>4. QED
  BY <1>2, <1>3 DEF Opens

LEMMA SignUpSound ==
  ASSUME Sound, NEW p \in Proc, Allowed(p, "signed"), SignUp(p)
  PROVE  Sound'
<1> DEFINE k == "clienting"
<1>1. pc[p] = "sign" /\ UNCHANGED <<sets, of, systems>> /\ k \in Key
  BY SemSetsAssumption DEF SignUp
<1>2. CASE open(p, k) /\ Goto(p, "signed") /\ UNCHANGED left
  <2>0. systems' \subseteq Server /\ mishaps' \subseteq Mishap
    BY <1>1, <1>2 DEF Sound, Places, open, Mishap
  <2>1. Places' /\ Moves(p, "signed") /\ left'[p] = left[p] /\ pc'[p] = "signed"
    BY <1>1, <1>2, <2>0, UserPlace
  <2>2. \A j \in Key : /\ (Has(p, j)' => Has(p, j) \/ j = k) /\ ~Lacks(p, j)'
                       /\ ~Locking(p, j)' /\ (Holding(p, j)' => Holding(p, j) /\ j # k)
    BY <1>1, <2>1 DEF Has, Lacks, Locking, Holding, Creating, Closer, Mine
  <2>3. \A j \in Key \ {k} : handle'[p][j] = handle[p][j] => Stays(p, j)
    BY <2>1, <2>2 DEF Stays
  <2>4. Lacks(p, k) /\ ~Holding(p, k)'
    BY <1>1, <2>1 DEF Lacks, Holding
  <2>5. QED
    BY <1>1, <1>2, <2>1, <2>2, <2>3, <2>4, OpenSound
<1>3. CASE NoSet(p, k)
  <2>1. /\ Goto(p, "dead") /\ left' = [left EXCEPT ![p] = Mine(p)]
        /\ UNCHANGED <<semVars, sets, handle, refs>>
        /\ systems' \subseteq Server /\ mishaps' \subseteq Mishap
    BY <1>1, <1>3 DEF NoSet, Exits, Sound, Places
  <2>2. QED
    BY <1>1, <2>1, DeathStep, AllowedEverywhere
<1>4. QED
  BY <1>2, <1>3 DEF SignUp
LEMMA SignOffSound ==
  ASSUME Sound, NEW p \in Proc, Allowed(p, "ready"), SignOff(p), "clienting" \notin Mine(p)
  PROVE  Sound'
<1> DEFINE k == "clienting"
<1>1. /\ pc[p] = "unlock" /\ UNCHANGED <<sets, left, refs>> /\ k \in Key
      /\ systems' \subseteq Server /\ mishaps' \subseteq Mishap
  BY SemSetsAssumption DEF SignOff, Calm, Sound, Places
<1>2. SetOk(k) /\ PairOk(p, k)
  BY <1>1 DEF Sound, AllSets, AllPairs
<1>3. CASE /\ Valid(p, k) /\ op_unlock(p, k) /\ Goto(p, "ready")
           /\ handle' = [handle EXCEPT ![p][k] = 0]
  <2>1. /\ Places' /\ Moves(p, "ready") /\ left'[p] = left[p] /\ pc'[p] = "ready"
    BY <1>1, <1>3, UserPlace
  <2>2. /\ Types' /\ Apart(k)
        /\ id'[k] = id[k] /\ Reopens(p, k) /\ SameVal(k) /\ SameCnt(k)
    BY <1>1, <1>3, UnlockEffect DEF Sound
  <2>3. /\ \A q \in Proc \ {p} : handle'[q] = handle[q]
        /\ \A j \in Key \ {k} : handle'[p][j] = handle[p][j]
        /\ handle'[p][k] = 0 /\ id' = id /\ next' = next
    BY <1>1, <1>3 DEF Sound, Ids, sets
  <2>4. Ids'
    <3>1. handle' \in [Proc -> [Key -> Nat]]
      BY <1>1, <1>3 DEF Sound, Ids
    <3>2. \A q \in Proc, j \in Key : handle'[q][j] = handle[q][j] \/ handle'[q][j] = 0
      BY <2>3
    <3>3. \A q \in Proc, j \in Key : handle'[q][j] < next
      <4>1. /\ \A q \in Proc, j \in Key : handle[q][j] < next
            /\ 0 < next
        BY DEF Sound, Ids
      <4>2. QED
        BY <3>2, <4>1
    <3>4. QED
      BY <2>3, <3>1, <3>3 DEF Sound, Ids
  <2>5. undoLock[p][k] = -1 /\ p \notin refs[k]
    BY <1>1, <1>2, <1>3 DEF PairOk, Locking, Lacks
  <2>6. SetOk(k)'
    <3>1. LockOk(k)' /\ CntOk(k)' /\ ValOk(k)'
      BY <1>2, <2>2, <2>5, LockFreed, CntSame, ValSame DEF SetOk, SameCnt
    <3>2. QED
      BY <1>3, <2>2, <3>1 DEF SetOk, Valid
  <2>7. PairOk(p, k)'
    BY <2>2, <2>3, <2>5 DEF PairOk, Valid, SameCnt
  <2>8. \A j \in Key \ {k} : Stays(p, j)
    <3>1. \A j \in Key \ {k} : /\ (Has(p, j)' => Has(p, j)) /\ ~Lacks(p, j)'
                               /\ ~Locking(p, j)' /\ ~Holding(p, j)'
      BY <1>1, <2>1 DEF Has, Lacks, Locking, Holding, Creating, Closer, Mine
    <3>2. QED
      BY <2>1, <2>3, <3>1 DEF Stays
  <2>9. \A q \in Proc \ {p} : handle'[q] = handle[q] /\ Mild(q, k)
    <3>1. cnt[k] = 0 => SameVal(k) /\ SameCnt(k)
      BY <2>2
    <3>2. QED
      BY <2>2, <2>3, <3>1, MildOp
  <2>10. QED
    BY <1>1, <2>1, <2>2, <2>4, <2>6, <2>7, <2>8, <2>9, OpStep
<1>4. CASE ~Valid(p, k) /\ Goto(p, "dead") /\ UNCHANGED <<semVars, handle>>
  BY <1>1, <1>4, DeathStep, AllowedEverywhere
<1>5. QED
  BY <1>3, <1>4 DEF SignOff

(* op_close, by a shell at the set it is at or by a receiver at clienting. *)
LEMMA CloseSound ==
  ASSUME Sound, NEW p \in Proc, NEW l, NEW k, NEW m, Close(p, l, k, m), Allowed(p, m),
         \/ l = "close" /\ k = Turn(p) /\ m = "close_get"
         \/ l = "waiting" /\ k = "clienting" /\ m = "unlock" /\ k \notin Mine(p)
  PROVE  Sound'
<1>0. systems' \subseteq Server /\ mishaps' \subseteq Mishap
  BY DEF Sound, Places, Close, Calm
<1>1. /\ pc[p] = l /\ UNCHANGED <<sets, handle>>
      /\ k \in Key /\ (l = "close" => k \in left[p])
  BY TurnIn, SemSetsAssumption DEF Close, Sound
<1>2. SetOk(k) /\ PairOk(p, k)
  BY <1>1 DEF Sound, AllSets, AllPairs
<1>3. CASE /\ Valid(p, k) /\ lock[k] = 0
           /\ lock' = [lock EXCEPT ![k] = 1]
           /\ undoLock' = [undoLock EXCEPT ![p][k] = @ - 1]
           /\ cnt' = [cnt EXCEPT ![k] = @ + 1]
           /\ undoCnt' = [undoCnt EXCEPT ![p][k] = @ - 1]
           /\ refs' = [refs EXCEPT ![k] = @ \ {p}]
           /\ Goto(p, m) /\ UNCHANGED valVars /\ UNCHANGED left
  <2>1. /\ Places' /\ Moves(p, m) /\ left'[p] = left[p] /\ pc'[p] = m
        /\ Turn(p)' = Turn(p) /\ left[p] \subseteq Mine(p)
    BY <1>0, <1>1, <1>3, UserPlace
  <2>2. /\ Types' /\ Apart(k)
        /\ id'[k] = id[k] /\ Unrefers(p, k) /\ Closes(p, k) /\ SameVal(k)
    BY <1>1, <1>3, CloseEffect DEF Sound
  <2>3. Ids' /\ Valid(p, k)' = Valid(p, k)
    BY <1>1, IdsSame DEF Sound
  <2>4. p \in refs[k]
    <3>1. Has(p, k)
      BY <1>1 DEF Has
    <3>2. QED
      BY <1>2, <1>3, <3>1 DEF PairOk
  <2>5. SetOk(k)' /\ undoLock'[p][k] = -1 /\ cnt[k] # 0
    <3>1. refs[k] \in SUBSET Proc
      BY <1>1 DEF Sound, Types
    <3>2. CntOk(k)' /\ cnt'[k] # 0 /\ cnt[k] # 0
      BY <1>2, <2>2, <2>4, <3>1, CntGiven DEF SetOk
    <3>3. LockOk(k)' /\ ValOk(k)' /\ undoLock'[p][k] = -1
      BY <1>2, <2>2, <3>2, LockTaken, ValSame DEF SetOk
    <3>4. QED
      BY <1>3, <2>2, <3>2, <3>3 DEF SetOk, Valid
  <2>6. \A j \in Key : /\ (Has(p, j)' => Has(p, j) /\ j # k)
                       /\ (Lacks(p, j)' => j = k) /\ (Locking(p, j)' => j = k)
                       /\ ~Holding(p, j)'
    BY <1>1, <2>1 DEF Has, Lacks, Locking, Holding, Creating, Closer, Mine
  <2>7. PairOk(p, k)'
    <3>1. p \notin refs'[k]
      BY <2>2 DEF Unrefers
    <3>2. QED
      BY <1>1, <2>1, <2>5, <2>6, <3>1 DEF PairOk
  <2>8. \A j \in Key \ {k} : Stays(p, j)
    BY <1>1, <2>1, <2>6 DEF Stays
  <2>9. \A q \in Proc \ {p} : handle'[q] = handle[q] /\ Mild(q, k)
    BY <1>1, <2>2, <2>5, MildOp
  <2>10. QED
    BY <1>1, <2>1, <2>2, <2>3, <2>5, <2>7, <2>8, <2>9, OpStep
<1>4. CASE ~Valid(p, k) /\ Exits(p) /\ UNCHANGED <<semVars, refs>>
  <2>1. /\ left' = [left EXCEPT ![p] = Mine(p)] /\ Goto(p, "dead")
        /\ pc[p] # "none"
    BY <1>1, <1>4 DEF Exits
  <2>2. QED
    BY <1>0, <1>1, <1>4, <2>1, DeathStep, AllowedEverywhere
<1>5. QED
  BY <1>3, <1>4 DEF Close
(* On to the next set to close, or to the end.                             *)
LEMMA CloseNext ==
  ASSUME Sound, NEW p \in Proc, NEW k, k = Turn(p), pc[p] \in Closer,
         NextSet(p, "close", "dead"), Allowed(p, "close"), UNCHANGED handle,
         systems' \subseteq Server, mishaps' \subseteq Mishap
  PROVE  /\ Places' /\ (\E l \in {"close", "dead"} : Moves(p, l))
         /\ pc'[p] \in {"close", "dead"}
         /\ (\A j \in Key \ {k} : Stays(p, j))
         /\ ~Has(p, k)' /\ ~Lacks(p, k)' /\ ~Locking(p, k)' /\ ~Holding(p, k)'
<1>1. PICK l, S : /\ Goto(p, l) /\ Leaving(p, l, S)
                  /\ \/ l = "close" /\ S = left[p] \ {k}
                     \/ l = "dead" /\ S = Mine(p) /\ left[p] = {k}
  BY NextPlace DEF Sound, Closer
<1>2. Places' /\ Moves(p, l) /\ left'[p] = S /\ pc'[p] = l
  BY <1>1, AllowedEverywhere, PlaceStep DEF Sound, Leaving, Moves, Closer
<1>3. \A j : /\ (Has(p, j)' => Has(p, j) /\ j # k)
             /\ ~Lacks(p, j)' /\ ~Locking(p, j)' /\ ~Holding(p, j)'
  BY <1>1, <1>2 DEF Has, Lacks, Locking, Holding, Creating, Closer, Mine
<1>4. \A j \in Key \ {k} : Stays(p, j)
  BY <1>1, <1>2, <1>3 DEF Stays
<1>5. QED
  BY <1>1, <1>2, <1>3, <1>4

LEMMA CloseRestSound ==
  ASSUME Sound, NEW p \in Proc, CloseRest(p),
         \A l \in {"close", "close_rm", "close_unlock"} : Allowed(p, l)
  PROVE  Sound'
<1>a. PICK k \in Key : k = Turn(p)
  BY TurnIn DEF Sound
<1>0. systems' \subseteq Server /\ mishaps' \subseteq Mishap
  BY DEF Sound, Places, CloseRest, Mishap
<1>1. k \in Key /\ UNCHANGED handle /\ SetOk(k) /\ PairOk(p, k)
  BY DEF CloseRest, Sound, AllSets, AllPairs
<1>2. CASE /\ pc[p] = "close_get"
           /\ \E l \in {"close_rm", "close_unlock"} : Goto(p, l)
           /\ UNCHANGED <<semVars, sets, left, refs>>
  <2>1. PICK l \in {"close_rm", "close_unlock"} : Goto(p, l)
    BY <1>2
  <2>2. /\ left'[p] = left[p] /\ pc'[p] = l /\ Turn(p)' = Turn(p)
        /\ Leaving(p, l, left[p])
    BY <1>0, <1>2, <2>1, UserPlace
  <2>3. \A j \in Key : /\ (Has(p, j)' => Has(p, j)) /\ ~Lacks(p, j)'
                       /\ (Locking(p, j)' => Locking(p, j)) /\ ~Holding(p, j)'
    BY <1>2, <2>1, <2>2 DEF Has, Lacks, Locking, Holding, Creating, Closer, Mine
  <2>4. \A j \in Key : Stays(p, j)
    BY <1>1, <2>1, <2>2, <2>3 DEF Stays
  <2>5. QED
    BY <1>0, <1>1, <1>2, <2>1, <2>2, <2>4, IdleStep
<1>3. CASE /\ pc[p] = "close_get" /\ Goto(p, "dead")
           /\ UNCHANGED <<semVars, sets, left, refs>>
  BY <1>0, <1>1, <1>3, DeathStep, AllowedEverywhere
<1>4. CASE /\ pc[p] = "close_rm" /\ RemoveSet(k) /\ NextSet(p, "close", "dead")
  <2>1. /\ Places' /\ (\E l \in {"close", "dead"} : Moves(p, l))
        /\ \A j \in Key \ {k} : Stays(p, j)
    BY <1>a, <1>0, <1>1, <1>4, CloseNext DEF Closer
  <2>2. QED
    BY <1>1, <1>4, <2>1, RemoveSound
<1>5. CASE /\ pc[p] \in {"close_rm", "close_unlock"} /\ Exits(p)
           /\ UNCHANGED <<semVars, sets, refs>>
  BY <1>0, <1>1, <1>5, DeathStep, AllowedEverywhere DEF Exits
<1>6. CASE /\ pc[p] = "close_unlock" /\ Valid(p, k) /\ op_unlock(p, k)
           /\ NextSet(p, "close", "dead") /\ UNCHANGED <<sets, refs>>
  <2>1. /\ Places' /\ (\E l \in {"close", "dead"} : Moves(p, l))
        /\ pc'[p] \in {"close", "dead"}
        /\ (\A j \in Key \ {k} : Stays(p, j))
        /\ ~Has(p, k)' /\ ~Lacks(p, k)' /\ ~Locking(p, k)' /\ ~Holding(p, k)'
    BY <1>a, <1>0, <1>1, <1>6, CloseNext DEF Closer
  <2>2. /\ Types' /\ Apart(k)
        /\ id'[k] = id[k] /\ Reopens(p, k) /\ SameVal(k) /\ SameCnt(k)
    BY <1>1, <1>6, UnlockEffect DEF Sound
  <2>3. Ids' /\ Valid(p, k)' = Valid(p, k)
    BY <1>1, <1>6, IdsSame DEF Sound
  <2>4. undoLock[p][k] = -1
    BY <1>a, <1>1, <1>6 DEF Locking, Closer, PairOk
  <2>5. SetOk(k)'
    <3>1. LockOk(k)' /\ CntOk(k)' /\ ValOk(k)'
      BY <1>1, <2>2, <2>4, LockFreed, CntSame, ValSame DEF SetOk, SameCnt
    <3>2. QED
      BY <1>6, <2>2, <3>1 DEF SetOk, Valid
  <2>6. PairOk(p, k)'
    BY <1>1, <2>1, <2>2, <2>3 DEF PairOk, SameCnt
  <2>7. \A q \in Proc \ {p} : handle'[q] = handle[q] /\ Mild(q, k)
    BY <1>1, <2>2, MildOp
  <2>8. QED
    BY <1>1, <2>1, <2>2, <2>3, <2>5, <2>6, <2>7, OpStep
<1>7. QED
  BY <1>a, <1>2, <1>3, <1>4, <1>5, <1>6 DEF CloseRest, sem_rm

LEMMA INT_handlerSound ==
  ASSUME Sound, NEW p \in Proc, INT_handler(p)
  PROVE  Sound'
<1>a. PICK k \in Key : k = Turn(p)
  BY TurnIn DEF Sound
<1>0. systems' \subseteq Server /\ mishaps' \subseteq Mishap
  BY DEF Sound, Places, INT_handler, Mishap
<1>1. /\ k \in Key /\ k \in left[p] /\ UNCHANGED handle /\ pc[p] = "remove"
  BY <1>a, TurnIn DEF INT_handler, Sound
<1>2. CASE RemoveSet(k) /\ NextSet(p, "remove", "dead")
  <2>1. PICK l, S : Goto(p, l) /\ Leaving(p, l, S) /\ l \in {"remove", "dead"}
    <3>1. CASE /\ left[p] # {Turn(p)} /\ Goto(p, "remove")
               /\ left' = [left EXCEPT ![p] = @ \ {Turn(p)}]
      BY <1>1, <3>1 DEF Leaving, Sound, Places
    <3>2. CASE Goto(p, "dead") /\ left' = [left EXCEPT ![p] = Mine(p)]
      BY <3>2, LeavingFull DEF Sound
    <3>3. QED
      BY <1>2, <3>1, <3>2 DEF NextSet
  <2>2. Places' /\ Moves(p, l)
    BY <1>0, <1>1, <2>1, AllowedEverywhere, PlaceStep DEF Sound
  <2>3. \A j \in Key \ {k} : Stays(p, j)
    BY <1>1, <2>1, <2>2, StopStays DEF Moves
  <2>4. QED
    BY <1>1, <1>2, <2>2, <2>3, RemoveSound
<1>3. CASE Exits(p) /\ UNCHANGED <<semVars, sets, refs>>
  BY <1>0, <1>1, <1>3, DeathStep, AllowedEverywhere DEF Exits
<1>4. QED
  BY <1>a, <1>2, <1>3 DEF INT_handler, sem_rm
-----------------------------------------------------------------------------
(* The steps that touch no set, and the kernel's.                          *)

LEMMA InterruptSound ==
  ASSUME Sound, NEW p \in Proc, NEW s, Interrupt(p, s)
  PROVE  Sound'
<1>1. /\ Goto(p, "remove") /\ left' = [left EXCEPT ![p] = Key]
      /\ UNCHANGED <<semVars, sets, handle, refs>>
      /\ systems' \subseteq Server /\ mishaps' \subseteq Mishap /\ pc[p] # "none"
  BY DEF Interrupt, Sound, Places, Mishap, Alive
<1>2. Leaving(p, "remove", Key)
  BY <1>1, SemSetsAssumption DEF Leaving, Sound, Places
<1>3. \A j \in Key : Stays(p, j)
  <2>1. pc'[p] = "remove"
    BY <1>1 DEF Goto, Sound, Places
  <2>2. QED
    BY <1>1, <2>1, StopStays
<1>4. QED
  BY <1>1, <1>2, <1>3, IdleStep, AllowedEverywhere

LEMMA ServerStepsSound ==
  ASSUME Sound, NEW s \in Server, Start(s) \/ ForkSystem(s) \/ Bind(s) \/ Kill(s)
  PROVE  Sound'
<1>a. PICK p \in Proc : p = Program(s)
  BY Kinds
<1>0. systems' \subseteq Server /\ mishaps' \subseteq Mishap
  BY DEF Sound, Places, Start, ForkSystem, Bind, Kill, Mishap
<1>1. UNCHANGED <<semVars, sets, handle, refs>>
  BY DEF Start, ForkSystem, Bind, Kill
<1>2. ASSUME NEW l \in {"get", "bind", "up"}, Goto(p, l), UNCHANGED left,
             \/ pc[p] = "none" /\ l = "get"
             \/ pc[p] = "fork" /\ l = "bind"
             \/ pc[p] = "bind" /\ l = "up"
      PROVE  Sound'
  <2>1. /\ left'[p] = left[p] /\ pc'[p] = l /\ Turn(p)' = Turn(p)
        /\ pc[p] = "none" => left[p] = Mine(p)
    BY <1>a, <1>0, <1>2, CreatingPlace DEF Creating, Sound, Places
  <2>2. \A j \in Key : /\ (Has(p, j)' => Has(p, j)) /\ (Lacks(p, j)' => Lacks(p, j))
                       /\ ~Locking(p, j)' /\ ~Holding(p, j)'
    BY <1>2, <2>1 DEF Has, Lacks, Locking, Holding, Creating, Closer, Mine
  <2>3. \A j \in Key : Stays(p, j)
    BY <1>1, <1>2, <2>1, <2>2 DEF Stays
  <2>4. Leaving(p, l, left[p]) /\ Allowed(p, l)
    BY <1>a, <1>2, LeavingSame, CreatingAllowed DEF Sound, Creating
  <2>5. QED
    BY <1>0, <1>1, <1>2, <2>3, <2>4, IdleStep
<1>3. CASE /\ Goto(p, "dead") /\ pc[p] # "none"
           /\ UNCHANGED left \/ left' = [left EXCEPT ![p] = Mine(p)]
  BY <1>0, <1>1, <1>3, DeathStep, AllowedEverywhere
<1>4. CASE Start(s)
  BY <1>a, <1>2, <1>4 DEF Start
<1>5. CASE ForkSystem(s)
  BY <1>a, <1>2, <1>5 DEF ForkSystem
<1>6. CASE Bind(s)
  BY <1>a, <1>2, <1>3, <1>6 DEF Bind
<1>7. CASE Kill(s)
  BY <1>a, <1>3, <1>7 DEF Kill, Exits, Alive
<1>8. QED
  BY <1>4, <1>5, <1>6, <1>7

(* The two steps in which two processes change place.                      *)
LEMMA AcceptSound ==
  ASSUME Sound, NEW s \in Server, NEW c \in Client, Accept(s, c)
  PROVE  Sound'
<1> DEFINE New == {Shell(c), Recv(c)}
<1>1. /\ Shell(c) \in Proc /\ Recv(c) \in Proc /\ Program(s) \in Proc
      /\ \A t \in Server : Program(t) \notin New
      /\ Shell(c) # Recv(c)
  BY Kinds, Different
<1>2. Types' /\ \A j \in Key : SameSet(j)
  BY IdleEffect DEF Sound, Accept
<1>3. /\ pc' \in [Proc -> ServerPC \union ShellPC \union RecvPC]
      /\ \A q \in New : pc'[q] = "open"
      /\ \A q \in Proc \ New : pc'[q] = pc[q]
      /\ left' = left /\ pc[Shell(c)] = "none"
  BY <1>1 DEF Accept, Sound, Places, ShellPC
<1>4. /\ handle' \in [Proc -> [Key -> Nat]]
      /\ \A q \in New : handle'[q] = handle[Program(s)]
      /\ \A q \in Proc \ New : handle'[q] = handle[q]
      /\ id' = id /\ next' = next
  BY <1>1 DEF Accept, Sound, Ids, sets
<1>5. \A q \in New : pc[q] = "none" /\ q \in Proc
  BY <1>1, <1>3 DEF Sound, Places
<1>6. Places'
  <2>1. \A t \in Server : pc'[Program(t)] = pc[Program(t)]
    BY <1>1, <1>3, Kinds
  <2>2. \A d \in Client : /\ pc'[Shell(d)] = pc[Shell(d)] \/ pc'[Shell(d)] = "open"
                          /\ pc'[Recv(d)] = pc[Recv(d)] \/ pc'[Recv(d)] = "open"
                          /\ pc'[Recv(d)] # pc[Recv(d)] => d = c
    BY <1>3, Kinds, Different
  <2>3. \A d \in Client : /\ pc'[Shell(d)] \in ShellPC /\ pc'[Recv(d)] \in RecvPC
                          /\ pc'[Shell(d)] = "none" => pc'[Recv(d)] = "none"
    BY <1>3, <2>2 DEF Sound, Places, ShellPC, RecvPC
  <2>4. ASSUME NEW q \in Proc
        PROVE  /\ left'[q] # {}
               /\ pc'[q] \notin {"remove", "dead"} => left'[q] \subseteq Mine(q)
               /\ pc'[q] = "none" => left'[q] = Mine(q)
    BY <1>3, <1>5 DEF Sound, Places
  <2>5. /\ systems' \subseteq Server /\ mishaps' \subseteq Mishap
        /\ left' \in [Proc -> SUBSET Key]
    BY <1>3 DEF Accept, Sound, Places
  <2>6. \A t \in Server : pc'[Program(t)] \in ServerPC
    BY <2>1 DEF Sound, Places
  <2> HIDE DEF New
  <2>7. QED
    BY <1>3, <2>3, <2>4, <2>5, <2>6 DEF Places, Mine
<1>7. Ids'
  <2>1. \A q \in Proc, j \in Key : handle'[q][j] = handle[q][j]
                                   \/ handle'[q][j] = handle[Program(s)][j]
    BY <1>4
  <2>2. \A q \in Proc, j \in Key : handle'[q][j] < next
    BY <1>1, <2>1 DEF Sound, Ids
  <2>3. QED
    BY <1>4, <2>2 DEF Sound, Ids
<1>8. AllSets'
  BY <1>2, SetSame DEF Sound, AllSets
<1>9. ASSUME NEW q \in Proc, NEW j \in Key PROVE PairOk(q, j)'
  <2>1. PairOk(q, j) /\ refs'[j] = refs[j]
    BY <1>2 DEF Sound, AllPairs, SameSet, SameCnt
  <2>2. CASE q \in New
    <3>1. q \notin refs'[j] /\ pc'[q] = "open" /\ left'[q] = Mine(q)
      BY <1>3, <1>5, <2>1, <2>2 DEF PairOk, Lacks, Sound, Places
    <3>2. ~Has(q, j)' /\ ~Locking(q, j)' /\ ~Holding(q, j)'
      BY <3>1 DEF Has, Locking, Holding, Creating, Closer, Mine
    <3>3. QED
      BY <3>1, <3>2 DEF PairOk
  <2>3. CASE q \notin New
    <3>1. SamePlace(q)
      BY <1>3, <1>4, <2>3 DEF SamePlace
    <3>2. QED
      BY <1>2, <2>1, <3>1, PlaceStays, PairStays
  <2>4. QED
    BY <2>2, <2>3
<1>10. QED
  BY <1>2, <1>6, <1>7, <1>8, <1>9 DEF Sound, AllPairs

LEMMA LeavesSound ==
  ASSUME Sound, NEW c \in Client, Leaves(c)
  PROVE  Sound'
<1>1. /\ Shell(c) \in Proc /\ Recv(c) \in Proc /\ Shell(c) # Recv(c)
      /\ \A t \in Server : Program(t) # Shell(c) /\ Program(t) # Recv(c)
  BY Kinds, Different
<1>2. Types' /\ \A j \in Key : SameSet(j)
  BY IdleEffect DEF Sound, Leaves
<1>3. /\ pc' \in [Proc -> ServerPC \union ShellPC \union RecvPC]
      /\ pc[Shell(c)] = "ready" /\ pc'[Shell(c)] = "bye" /\ pc'[Recv(c)] = "dead"
      /\ \A q \in Proc \ {Shell(c), Recv(c)} : pc'[q] = pc[q]
      /\ left' = left /\ handle' = handle
  BY <1>1 DEF Leaves, Sound, Places, ShellPC, RecvPC
<1>4. Places'
  <2>1. \A t \in Server : pc'[Program(t)] \in ServerPC
    BY <1>1, <1>3, Kinds DEF Sound, Places
  <2>2. \A d \in Client : /\ pc'[Shell(d)] = pc[Shell(d)] \/ pc'[Shell(d)] = "bye"
                          /\ pc'[Recv(d)] = pc[Recv(d)] \/ pc'[Recv(d)] = "dead"
                          /\ pc'[Recv(d)] # pc[Recv(d)] => d = c
    BY <1>3, Kinds, Different
  <2>3. \A d \in Client : /\ pc'[Shell(d)] \in ShellPC /\ pc'[Recv(d)] \in RecvPC
                          /\ pc'[Shell(d)] = "none" => pc'[Recv(d)] = "none"
    BY <1>3, <2>2 DEF Sound, Places, ShellPC, RecvPC
  <2>4. ASSUME NEW q \in Proc
        PROVE  /\ left'[q] # {}
               /\ pc'[q] \notin {"remove", "dead"} => left'[q] \subseteq Mine(q)
               /\ pc'[q] = "none" => left'[q] = Mine(q)
    BY <1>3 DEF Sound, Places
  <2>5. /\ systems' \subseteq Server /\ mishaps' \subseteq Mishap
        /\ left' \in [Proc -> SUBSET Key]
    BY <1>3 DEF Leaves, Sound, Places, Mishap
  <2>6. QED
    BY <1>3, <2>1, <2>3, <2>4, <2>5 DEF Places, Mine
<1>5. Ids'
  BY IdsSame DEF Sound, Leaves
<1>6. AllSets'
  BY <1>2, SetSame DEF Sound, AllSets
<1>7. ASSUME NEW q \in Proc, NEW j \in Key PROVE PairOk(q, j)'
  <2>1. CASE q = Shell(c)
    <3>1. /\ (Has(q, j)' => Has(q, j)) /\ ~Lacks(q, j)'
          /\ ~Locking(q, j)' /\ ~Holding(q, j)'
      BY <1>3, <2>1 DEF Has, Lacks, Locking, Holding, Creating, Closer, Mine
    <3>2. Stays(q, j)
      BY <1>3, <2>1, <3>1 DEF Stays
    <3>3. QED
      BY <1>2, <3>2, PairStays DEF Sound, AllPairs
  <2>2. CASE q = Recv(c)
    <3>1. Stays(q, j)
      BY <1>3, <2>2, StopStays
    <3>2. QED
      BY <1>2, <3>1, PairStays DEF Sound, AllPairs
  <2>3. CASE q # Shell(c) /\ q # Recv(c)
    <3>1. SamePlace(q)
      BY <1>3, <2>3 DEF SamePlace
    <3>2. QED
      BY <1>2, <3>1, PlaceStays, PairStays DEF Sound, AllPairs
  <2>4. QED
    BY <2>1, <2>2, <2>3
<1>8. QED
  BY <1>2, <1>4, <1>5, <1>6, <1>7 DEF Sound, AllPairs

(* A dead process gives back what it owes.                                 *)
LEMMA UndoneSound ==
  ASSUME Sound, NEW p \in Proc, NEW k \in Key, Undone(p, k)
  PROVE  Sound'
<1>1. /\ pc[p] = "dead" /\ Undo(p, k) /\ refs' = [refs EXCEPT ![k] = @ \ {p}]
      /\ UNCHANGED <<sets, pc, left, handle, systems, mishaps>>
  BY DEF Undone, progress
<1>2. SetOk(k) /\ refs[k] \in SUBSET Proc
  BY DEF Sound, AllSets, Types
<1>3. /\ undoVal[p][k] \in {0, 1} /\ undoLock[p][k] \in {-1, 0}
      /\ undoCnt[p][k] = IF p \in refs[k] THEN 1 ELSE 0
  BY <1>2 DEF SetOk, ValOk, CntOk, LockOk
<1>4. /\ Types' /\ Apart(k) /\ id'[k] = id[k]
      /\ val'[k] = val[k] + undoVal[p][k] /\ cnt'[k] = cnt[k] + undoCnt[p][k]
      /\ lock'[k] = lock[k] + undoLock[p][k] /\ refs'[k] = refs[k] \ {p}
      /\ undoVal'[p][k] = 0 /\ undoCnt'[p][k] = 0 /\ undoLock'[p][k] = 0
      /\ \A q \in Proc \ {p} : /\ undoVal'[q][k] = undoVal[q][k]
                               /\ undoCnt'[q][k] = undoCnt[q][k]
                               /\ undoLock'[q][k] = undoLock[q][k]
  <2>1. undoVal[p][k] >= 0 /\ UNCHANGED sets
    BY <1>1, <1>3
  <2>2. QED
    BY <1>1, <2>1, UndoneEffect DEF Sound
<1>5. val[k] \in Nat /\ cnt[k] \in Int /\ lock[k] \in Int
  BY DEF Sound, Types
<1>6. LockOk(k)'
  <2>1. CASE undoLock[p][k] = 0
    <3>1. SameLock(k)
      BY <1>4, <1>5, <2>1 DEF SameLock
    <3>2. QED
      BY <1>2, <3>1, LockSame DEF SetOk
  <2>2. CASE undoLock[p][k] = -1
    <3>1. lock[k] = 1 /\ \A q \in Proc \ {p} : undoLock[q][k] = 0
      BY <1>2, <2>2 DEF SetOk, LockOk
    <3>2. lock'[k] = 0 /\ \A q \in Proc : undoLock'[q][k] = 0
      BY <1>4, <2>2, <3>1
    <3>3. QED
      BY <3>2 DEF LockOk
  <2>3. QED
    BY <1>3, <2>1, <2>2
<1>7. CntOk(k)' /\ (cnt'[k] = 0 <=> cnt[k] = 0)
  <2>1. CASE p \notin refs[k]
    <3>1. SameCnt(k)
      BY <1>3, <1>4, <1>5, <2>1 DEF SameCnt
    <3>2. QED
      BY <1>2, <3>1, CntSame DEF SetOk, SameCnt
  <2>2. CASE p \in refs[k]
    <3>1. Unrefers(p, k)
      <4>1. undoCnt[p][k] = 1
        BY <1>3, <2>2
      <4>2. QED
        BY <1>4, <4>1 DEF Unrefers
    <3>2. QED
      BY <1>2, <2>2, <3>1, CntGiven DEF SetOk
  <2>3. QED
    BY <2>1, <2>2
<1>8. ValOk(k)'
  <2>1. CASE undoVal[p][k] = 0
    <3>1. SameVal(k)
      BY <1>4, <1>5, <2>1 DEF SameVal
    <3>2. QED
      BY <1>2, <1>7, <3>1, ValSame DEF SetOk
  <2>2. CASE undoVal[p][k] = 1
    <3>1. k \in Locks /\ cnt[k] # 0 /\ val[k] = 0
          /\ \A q \in Proc \ {p} : undoVal[q][k] = 0
      BY <1>2, <2>2 DEF SetOk, ValOk
    <3>2. val'[k] = 1 /\ \A q \in Proc : undoVal'[q][k] = 0
      BY <1>4, <2>2, <3>1
    <3>3. QED
      BY <3>2 DEF ValOk
  <2>3. QED
    BY <1>3, <2>1, <2>2
<1>9. SetOk(k)'
  <2>1. id[k] = 0 => lock'[k] = 0
    BY <1>2, <1>3, <1>4 DEF SetOk, LockOk
  <2>2. QED
    BY <1>2, <1>4, <1>6, <1>7, <1>8, <2>1 DEF SetOk
<1>10. SamePlace(p) /\ \A q \in Proc \ {p} : SamePlace(q)
  BY <1>1 DEF SamePlace
<1>11. Places' /\ Ids' /\ Moves(p, "dead")
  BY <1>1, IdsSame DEF Sound, Places, Moves, Mine
<1>12. PairOk(p, k)'
  <2>1. /\ ~Has(p, k)' /\ ~Lacks(p, k)' /\ ~Locking(p, k)' /\ ~Holding(p, k)'
        /\ pc'[p] = "dead"
    BY <1>1 DEF Has, Lacks, Locking, Holding, Creating, Closer
  <2>2. QED
    BY <1>4, <2>1 DEF PairOk
<1>13. ASSUME NEW q \in Proc \ {p} PROVE handle'[q] = handle[q] /\ Mild(q, k)
  <2>1. cnt[k] = 0 => cnt'[k] = 0 /\ val'[k] = val[k]
    <3>1. cnt[k] = 0 => undoVal[p][k] = 0
      BY <1>2, SetEmpty DEF Sound
    <3>2. QED
      BY <1>4, <1>5, <1>7, <3>1
  <2>2. QED
    BY <1>1, <1>4, <2>1 DEF Mild
<1>14. \A j \in Key \ {k} : Stays(p, j)
  BY <1>10, PlaceStays
<1>15. QED
  BY <1>4, <1>9, <1>11, <1>12, <1>13, <1>14, OpStep
-----------------------------------------------------------------------------
(* What a set says of its users is so.                                     *)

LEMMA InitSound == Init => Sound
<1> SUFFICES ASSUME Init PROVE Sound
  OBVIOUS
<1>1. /\ \A k \in Key : /\ val[k] = 0 /\ cnt[k] = 0 /\ lock[k] = 0 /\ id[k] = 0
                        /\ refs[k] = {}
      /\ \A p \in Proc, k \in Key : /\ undoVal[p][k] = 0 /\ undoCnt[p][k] = 0
                                    /\ undoLock[p][k] = 0 /\ handle[p][k] = 0
      /\ \A p \in Proc : pc[p] = "none" /\ left[p] = Mine(p)
  BY DEF Init
<1>2. Types
  BY DEF Init, Types
<1>3. Places
  <2>1. pc \in [Proc -> ServerPC \union ShellPC \union RecvPC]
    BY DEF Init, ShellPC
  <2>2. left \in [Proc -> SUBSET Key]
    BY MineNotEmpty DEF Init
  <2>3. \A p \in Proc : left[p] # {} /\ left[p] = Mine(p)
    BY <1>1, MineNotEmpty
  <2>4. /\ \A s \in Server : pc[Program(s)] \in ServerPC
        /\ \A c \in Client : pc[Shell(c)] = "none" /\ pc[Recv(c)] = "none"
    BY <1>1, Kinds DEF ServerPC
  <2>5. systems \subseteq Server /\ mishaps \subseteq Mishap
    BY DEF Init
  <2>6. QED
    BY <2>1, <2>2, <2>3, <2>4, <2>5 DEF Places, ShellPC, RecvPC
<1>4. Ids
  <2>1. id \in [Key -> Nat] /\ handle \in [Proc -> [Key -> Nat]] /\ next = 1
    BY DEF Init
  <2>2. QED
    BY <1>1, <2>1 DEF Ids
<1>5. AllSets
  BY <1>1 DEF AllSets, SetOk, LockOk, CntOk, ValOk
<1>6. AllPairs
  BY <1>1 DEF AllPairs, PairOk, Has, Locking, Holding, Creating, Closer
<1>7. QED
  BY <1>2, <1>3, <1>4, <1>5, <1>6 DEF Sound

LEMMA CreateSound ==
  ASSUME Sound, NEW s \in Server, sem_create(s)
  PROVE  Sound'
<1>1. PICK p \in Proc : p = Program(s)
  BY Kinds
<1>2. PICK k \in Key : k = Turn(p)
  BY TurnIn DEF Sound
<1>3. /\ semget(p, k) \/ op_lock(p, k) \/ getval(p, k) \/ setval(p, k) \/ op_endcreate(p, k)
      /\ UNCHANGED <<systems, mishaps>>
  BY <1>1, <1>2 DEF sem_create, Calm
<1>4. QED
  BY <1>1, <1>2, <1>3, semgetSound, op_lockSound, getvalSound, setvalSound,
     op_endcreateSound

LEMMA ServerSound ==
  ASSUME Sound, NEW s \in Server, ServerNext(s)
  PROVE  Sound'
<1>1. Program(s) \in Proc
  BY Kinds
<1>2. CASE Start(s) \/ ForkSystem(s) \/ Bind(s) \/ Kill(s)
  BY <1>2, ServerStepsSound
<1>3. CASE sem_create(s)
  BY <1>3, CreateSound
<1>4. CASE \E c \in Client : Accept(s, c)
  BY <1>4, AcceptSound
<1>5. CASE Interrupt(Program(s), s)
  BY <1>1, <1>5, InterruptSound
<1>6. CASE INT_handler(Program(s))
  BY <1>1, <1>6, INT_handlerSound
<1>7. QED
  BY <1>2, <1>3, <1>4, <1>5, <1>6 DEF ServerNext

LEMMA ShellSound ==
  ASSUME Sound, NEW c \in Client, ShellNext(c)
  PROVE  Sound'
<1>1. PICK p \in Proc : p = Shell(c)
  BY Kinds
<1>2. /\ "call_system" \in Mine(p) /\ "clienting" \notin Mine(p)
      /\ pc[p] # "none" => \A l \in ShellPC \ {"none"} : Allowed(p, l)
  BY <1>1, Kinds, ShellAllowed
<1>3. CASE Opens(p)
  <2>1. Allowed(p, "open") /\ Allowed(p, "ready")
    BY <1>2, <1>3 DEF Opens, ShellPC
  <2>2. QED
    BY <1>2, <1>3, <2>1, OpensSound
<1>4. CASE Take(p, "ready", "call_system", "calling")
  <2>1. Allowed(p, "calling")
    BY <1>2, <1>4 DEF Take, ShellPC
  <2>2. QED
    BY <1>2, <1>4, <2>1, TakeSound DEF TakePlace
<1>5. CASE Give(p, "calling", "call_system", "ready")
  <2>1. Allowed(p, "ready")
    BY <1>2, <1>5 DEF Give, ShellPC
  <2>2. QED
    BY <1>2, <1>5, <2>1, GiveSound DEF GivePlace
<1>6. CASE Leaves(c)
  BY <1>6, LeavesSound
<1>7. CASE Take(p, "bye", "call_system", "said")
  <2>1. Allowed(p, "said")
    BY <1>2, <1>7 DEF Take, ShellPC
  <2>2. QED
    BY <1>2, <1>7, <2>1, TakeSound DEF TakePlace
<1>8. CASE Give(p, "said", "call_system", "close")
  <2>1. Allowed(p, "close")
    BY <1>2, <1>8 DEF Give, ShellPC
  <2>2. QED
    BY <1>2, <1>8, <2>1, GiveSound DEF GivePlace
<1>9. CASE Close(p, "close", Turn(p), "close_get")
  <2>1. Allowed(p, "close_get")
    BY <1>2, <1>9 DEF Close, ShellPC, Closer
  <2>2. QED
    BY <1>9, <2>1, CloseSound
<1>10. CASE CloseRest(p)
  <2>1. \A l \in {"close", "close_rm", "close_unlock"} : Allowed(p, l)
    BY <1>2, <1>10 DEF CloseRest, ShellPC, Closer
  <2>2. QED
    BY <1>10, <2>1, CloseRestSound
<1>11. CASE Interrupt(p, of[c])
  BY <1>11, InterruptSound
<1>12. CASE INT_handler(p)
  BY <1>12, INT_handlerSound
<1>13. QED
  BY <1>1, <1>3, <1>4, <1>5, <1>6, <1>7, <1>8, <1>9, <1>10, <1>11, <1>12 DEF ShellNext

LEMMA RecvSound ==
  ASSUME Sound, NEW c \in Client, RecvNext(c)
  PROVE  Sound'
<1>1. PICK p \in Proc : p = Recv(c)
  BY Kinds
<1>2. /\ "clisem" \in Mine(p) /\ "clienting" \notin Mine(p)
      /\ pc[p] # "none" => \A l \in RecvPC \ {"none"} : Allowed(p, l)
  BY <1>1, Kinds, ShellAllowed
<1>3. CASE Opens(p)
  <2>1. Allowed(p, "open") /\ Allowed(p, "ready")
    BY <1>2, <1>3 DEF Opens, RecvPC
  <2>2. QED
    BY <1>2, <1>3, <2>1, OpensSound
<1>4. CASE Take(p, "ready", "clisem", "sign")
  <2>1. Allowed(p, "sign")
    BY <1>2, <1>4 DEF Take, RecvPC
  <2>2. QED
    BY <1>2, <1>4, <2>1, TakeSound DEF TakePlace
<1>5. CASE SignUp(p)
  <2>1. Allowed(p, "signed")
    BY <1>2, <1>5 DEF SignUp, RecvPC
  <2>2. QED
    BY <1>5, <2>1, SignUpSound
<1>6. CASE Give(p, "signed", "clisem", "waiting")
  <2>1. Allowed(p, "waiting")
    BY <1>2, <1>6 DEF Give, RecvPC
  <2>2. QED
    BY <1>2, <1>6, <2>1, GiveSound DEF GivePlace
<1>7. CASE Close(p, "waiting", "clienting", "unlock")
  <2>1. Allowed(p, "unlock")
    BY <1>2, <1>7 DEF Close, RecvPC
  <2>2. QED
    BY <1>2, <1>7, <2>1, CloseSound
<1>8. CASE SignOff(p)
  <2>1. Allowed(p, "ready")
    BY <1>2, <1>8 DEF SignOff, RecvPC
  <2>2. QED
    BY <1>2, <1>8, <2>1, SignOffSound
<1>9. CASE Interrupt(p, of[c])
  BY <1>9, InterruptSound
<1>10. CASE INT_handler(p)
  BY <1>10, INT_handlerSound
<1>11. QED
  BY <1>1, <1>3, <1>4, <1>5, <1>6, <1>7, <1>8, <1>9, <1>10 DEF RecvNext

LEMMA SoundStep ==
  ASSUME Sound, [Next]_vars
  PROVE  Sound'
<1>1. CASE UNCHANGED vars
  <2>1. /\ UNCHANGED <<id, next, pc, left, handle, of, systems, refs, mishaps>>
        /\ UNCHANGED <<semVars, sets>>
    BY <1>1 DEF vars, progress, sets
  <2>2. Types' /\ \A j \in Key : SameSet(j)
    BY <2>1, IdleEffect DEF Sound
  <2>3. Ids' /\ Places'
    BY <2>1, IdsSame DEF Sound, Places, Mine
  <2>4. \A q \in Proc : SamePlace(q)
    BY <2>1 DEF SamePlace
  <2>5. AllSets'
    BY <2>2, SetSame DEF Sound, AllSets
  <2>6. AllPairs'
    BY <2>2, <2>4, PlaceStays, PairStays DEF Sound, AllPairs
  <2>7. QED
    BY <2>2, <2>3, <2>5, <2>6 DEF Sound
<1>2. CASE \E s \in Server : ServerNext(s)
  BY <1>2, ServerSound
<1>3. CASE \E c \in Client : ShellNext(c) \/ RecvNext(c)
  BY <1>3, ShellSound, RecvSound
<1>4. CASE \E p \in Proc, k \in Key : Undone(p, k)
  BY <1>4, UndoneSound
<1>5. QED
  BY <1>1, <1>2, <1>3, <1>4 DEF Next
LEMMA SoundIsSound == Sound => SetsSound
<1> SUFFICES ASSUME Sound PROVE SetsSound
  OBVIOUS
<1>1. TypeOK
  <2>1. ASSUME NEW k \in Key PROVE cnt[k] \in 0 .. BIGCOUNT /\ lock[k] \in {0, 1}
    <3>1. SetOk(k) /\ cnt[k] \in Int /\ refs[k] \in SUBSET Proc
      BY DEF Sound, AllSets, Types
    <3>2. Cardinality(refs[k]) \in Nat /\ BIGCOUNT - Cardinality(refs[k]) > 0
      BY <3>1, Room
    <3>3. QED
      BY <3>1, <3>2, BigCountAssumption DEF SetOk, CntOk, LockOk
  <2>2. cnt \in [Key -> 0 .. BIGCOUNT] /\ lock \in [Key -> {0, 1}]
    BY <2>1 DEF Sound, Types
  <2>3. \A p \in Proc : left[p] \subseteq Key
    BY DEF Sound, Places
  <2>4. QED
    BY <2>2, <2>3 DEF TypeOK, Sound, Types, Places, Ids
<1>2. Counted
  BY DEF Counted, Sound, AllSets, SetOk, CntOk
<1>3. LockKept
  <2> SUFFICES ASSUME NEW k \in Locks, cnt[k] # 0
               PROVE  val[k] + Cardinality({p \in Proc : Holds(p, k)}) = 1
    BY DEF LockKept
  <2>1. ValOk(k) /\ val[k] \in Nat
    BY DEF Sound, AllSets, SetOk, Types, Locks
  <2>2. CASE val[k] = 1 /\ \A p \in Proc : undoVal[p][k] = 0
    <3>1. {p \in Proc : Holds(p, k)} = {}
      BY <2>2 DEF Holds
    <3>2. Cardinality({p \in Proc : Holds(p, k)}) = 0
      BY <3>1, FS_EmptySet
    <3>3. QED
      BY <2>2, <3>2
  <2>3. CASE val[k] = 0 /\ \E p \in Proc : undoVal[p][k] = 1
    <3>1. PICK p \in Proc : undoVal[p][k] = 1
      BY <2>3
    <3>2. {q \in Proc : Holds(q, k)} = {p}
      BY <2>1, <3>1 DEF Holds, ValOk
    <3>3. Cardinality({q \in Proc : Holds(q, k)}) = 1
      BY <3>2, FS_Singleton
    <3>4. QED
      BY <2>3, <3>3
  <2>4. QED
    BY <2>1, <2>2, <2>3 DEF ValOk
<1>4. QED
  BY <1>1, <1>2, <1>3 DEF SetsSound

(* What the sets say of their users is so: semaphore [1] counts the        *)
(* processes that have the set open, and a lock is with one of them or     *)
(* free, whatever servers start, are killed and remove sets meanwhile      *)
(* (shm.cpp:11-40, 55-60, 67-84).                                          *)
THEOREM TheSetsAreSound == Spec => []SetsSound
<1>1. Init => Sound
  BY InitSound
<1>2. Sound /\ [Next]_vars => Sound'
  BY SoundStep
<1>3. QED
  BY <1>1, <1>2, SoundIsSound, PTL DEF Spec
-----------------------------------------------------------------------------
(* Servers and system processes.                                           *)

LEMMA MishapsStay ==
  ASSUME [Next]_vars
  PROVE  mishaps \subseteq mishaps'
<1>1. CASE UNCHANGED vars
  BY <1>1 DEF vars
<1>2. ASSUME NEW s \in Server, ServerNext(s) PROVE mishaps \subseteq mishaps'
  BY <1>2 DEF ServerNext, Start, sem_create, Calm, ForkSystem, Bind, Accept, Interrupt,
              INT_handler, Kill
<1>3. ASSUME NEW c \in Client, ShellNext(c) PROVE mishaps \subseteq mishaps'
  BY <1>3 DEF ShellNext, Opens, open, NoSet, Take, Give, Close, CloseRest, Leaves, Calm,
              Interrupt, INT_handler
<1>4. ASSUME NEW c \in Client, RecvNext(c) PROVE mishaps \subseteq mishaps'
  BY <1>4 DEF RecvNext, Opens, open, NoSet, Take, Give, SignUp, Close, SignOff, Calm,
              Interrupt, INT_handler
<1>5. ASSUME NEW p \in Proc, NEW k \in Key, Undone(p, k) PROVE mishaps \subseteq mishaps'
  BY <1>5 DEF Undone
<1>6. QED
  BY <1>1, <1>2, <1>3, <1>4, <1>5 DEF Next

(* Shells and receivers leave the servers where they are and fork no       *)
(* system process.                                                         *)
LEMMA UsersApart ==
  ASSUME Sound, NEW s \in Server, NEW c \in Client, ShellNext(c) \/ RecvNext(c)
  PROVE  pc'[Program(s)] = pc[Program(s)] /\ systems' \subseteq systems
<1> DEFINE Untouched == pc'[Program(s)] = pc[Program(s)]
<1>1. /\ DOMAIN pc = Proc /\ Program(s) \in Proc
      /\ Program(s) # Shell(c) /\ Program(s) # Recv(c)
  BY Kinds, Different DEF Sound, Places
<1>2. \A p \in {Shell(c), Recv(c)} : \A l : Goto(p, l) => Untouched
  BY <1>1 DEF Goto
<1>3. \A p \in {Shell(c), Recv(c)} : Exits(p) => Untouched
  BY <1>2 DEF Exits
<1>4. \A p \in {Shell(c), Recv(c)} : \A l, m : NextSet(p, l, m) => Untouched
  BY <1>2 DEF NextSet
<1> HIDE DEF Untouched
<1>5. ASSUME NEW p \in {Shell(c), Recv(c)},
             \/ Opens(p) \/ Interrupt(p, of[c]) \/ INT_handler(p) \/ CloseRest(p)
             \/ SignUp(p) \/ SignOff(p)
      PROVE  Untouched /\ systems' \subseteq systems
  BY <1>2, <1>3, <1>4, <1>5
     DEF Opens, NoSet, Interrupt, INT_handler, sem_rm, CloseRest, SignUp, SignOff, Calm
<1>6. ASSUME NEW p \in {Shell(c), Recv(c)}, NEW l, NEW k, NEW m,
             Take(p, l, k, m) \/ Give(p, l, k, m) \/ Close(p, l, k, m)
      PROVE  Untouched /\ systems' \subseteq systems
  BY <1>2, <1>3, <1>6 DEF Take, Give, Close, Calm
<1>7. CASE Leaves(c)
  BY <1>1, <1>7 DEF Leaves, Untouched
<1>8. QED
  BY <1>5, <1>6, <1>7 DEF ShellNext, RecvNext, Untouched

LEMMA ServersApart ==
  ASSUME Sound, NEW s \in Server, NEW t \in Server \ {s}, ServerNext(t)
  PROVE  pc'[Program(s)] = pc[Program(s)] /\ systems' \subseteq systems \union {t}
<1> DEFINE Untouched == pc'[Program(s)] = pc[Program(s)]
<1>1. DOMAIN pc = Proc /\ Program(s) \in Proc /\ Program(s) # Program(t)
  BY Kinds, Different DEF Sound, Places
<1>2. \A l : Goto(Program(t), l) => Untouched
  BY <1>1 DEF Goto
<1>3. Exits(Program(t)) => Untouched
  BY <1>2 DEF Exits
<1>4. \A l, m : NextSet(Program(t), l, m) => Untouched
  BY <1>2 DEF NextSet
<1>5. ASSUME NEW c \in Client, Accept(t, c) PROVE Untouched
  <2>1. Program(s) # Shell(c) /\ Program(s) # Recv(c)
    BY Different
  <2>2. QED
    BY <1>1, <1>5, <2>1 DEF Accept
<1> HIDE DEF Untouched
<1>6. CASE sem_create(t)
  <2>1. ASSUME NEW k, \/ semget(Program(t), k) \/ op_lock(Program(t), k)
                      \/ getval(Program(t), k) \/ setval(Program(t), k)
                      \/ op_endcreate(Program(t), k)
        PROVE  Untouched
    BY <1>2, <1>3, <1>4, <2>1 DEF semget, op_lock, getval, setval, op_endcreate
  <2>2. QED
    BY <1>6, <2>1 DEF sem_create, Calm, Untouched
<1>7. CASE Interrupt(Program(t), t) \/ INT_handler(Program(t))
  BY <1>2, <1>3, <1>4, <1>7 DEF Interrupt, INT_handler, sem_rm, Untouched
<1>8. CASE Start(t) \/ ForkSystem(t) \/ Bind(t) \/ Kill(t)
  BY <1>2, <1>3, <1>8 DEF Start, ForkSystem, Bind, Kill, Untouched
<1>9. QED
  BY <1>5, <1>6, <1>7, <1>8 DEF ServerNext, Accept, Untouched

LEMMA ServedStep ==
  ASSUME Sound, Served, [Next]_vars
  PROVE  Served'
<1> SUFFICES ASSUME mishaps' \intersect {"killed", "bind"} = {},
                    NEW s \in Server, s \in systems'
             PROVE  pc'[Program(s)] \in {"bind", "up"}
  <2>1. systems' \subseteq Server
    BY SoundStep DEF Sound, Places
  <2>2. QED
    BY <2>1 DEF Served
<1>1. s \in systems => pc[Program(s)] \in {"bind", "up"}
  BY MishapsStay DEF Served
<1>2. /\ Program(s) \in Proc
      /\ pc \in [Proc -> ServerPC \union ShellPC \union RecvPC]
  BY Kinds DEF Sound, Places
<1>3. CASE UNCHANGED vars
  BY <1>1, <1>3 DEF vars, progress
<1>4. CASE ServerNext(s)
  <2>1. CASE ForkSystem(s)
    BY <1>2, <2>1 DEF ForkSystem, Goto
  <2>2. CASE Bind(s)
    BY <1>2, <2>2 DEF Bind, Goto
  <2>3. CASE Kill(s)
    BY <2>3 DEF Kill
  <2>4. CASE Start(s) \/ sem_create(s) \/ INT_handler(Program(s))
    <3>1. systems' = systems
      BY <2>4 DEF Start, sem_create, Calm, INT_handler
    <3>2. pc[Program(s)] \in Creating \union {"none", "remove"}
      BY <2>4 DEF Start, sem_create, semget, op_lock, getval, setval, op_endcreate,
                  INT_handler, Creating
    <3>3. QED
      BY <1>1, <3>1, <3>2 DEF Creating
  <2>5. CASE Interrupt(Program(s), s)
    BY <2>5 DEF Interrupt
  <2>6. CASE \E c \in Client : Accept(s, c)
    <3>1. PICK c \in Client : Accept(s, c)
      BY <2>6
    <3>2. Program(s) # Shell(c) /\ Program(s) # Recv(c)
      BY Different
    <3>3. QED
      BY <1>1, <1>2, <3>1, <3>2 DEF Accept
  <2>7. QED
    BY <1>4, <2>1, <2>2, <2>3, <2>4, <2>5, <2>6 DEF ServerNext
<1>5. ASSUME NEW t \in Server \ {s}, ServerNext(t) PROVE pc'[Program(s)] \in {"bind", "up"}
  BY <1>1, <1>5, ServersApart
<1>6. ASSUME NEW c \in Client, ShellNext(c) \/ RecvNext(c)
      PROVE  pc'[Program(s)] \in {"bind", "up"}
  BY <1>1, <1>6, UsersApart
<1>7. ASSUME NEW p \in Proc, NEW k \in Key, Undone(p, k)
      PROVE  pc'[Program(s)] \in {"bind", "up"}
  BY <1>1, <1>7 DEF Undone, progress
<1>8. QED
  BY <1>3, <1>4, <1>5, <1>6, <1>7 DEF Next
-----------------------------------------------------------------------------
(* What a step does to a process and the sets when it neither creates nor  *)
(* removes any.                                                            *)

Quietly(q) ==
  /\ pc[q] \in Creating \/ pc'[q] \in Creating => SamePlace(q)
  /\ Alive(q)' => Alive(q) \/ \E s \in Server : pc[Program(s)] = "up"
  /\ pc[q] = "remove" => SamePlace(q) \/ "halfway" \in mishaps'
  /\ pc'[q] = "remove" => SamePlace(q) \/ (left'[q] = Key /\ "interrupt" \in mishaps')
  /\ pc'[q] = "close_rm" =>
       \/ SamePlace(q)
       \/ refs' = refs /\ \E k \in Key : k = Turn(q)' /\ refs[k] = {}
  /\ pc[q] \in {"fork", "bind", "up"} =>
       pc'[q] \in {"fork", "bind", "up", "remove"} \/ "bind" \in mishaps'
  /\ pc[q] \in {"fork", "bind", "up", "remove"} => handle'[q] = handle[q]
  /\ \A k \in Key :
       /\ \/ handle'[q][k] = handle[q][k] /\ (Alive(q)' => Alive(q))
          \/ handle'[q][k] \in {0, id[k]}
          \/ \E s \in Server : /\ pc[Program(s)] = "up"
                               /\ handle'[q][k] = handle[Program(s)][k]
       /\ Has(q, k)' => \/ Has(q, k) /\ handle'[q][k] = handle[q][k]
                        \/ Valid(q, k)'

Plain ==
  /\ id' = id
  /\ \A q \in Proc : Quietly(q)
  /\ \A k \in Key : refs'[k] \subseteq refs[k] \/ (Closing(k) => "open" \in mishaps')

LEMMA SameQuietly ==
  ASSUME NEW q \in Proc, SamePlace(q)
  PROVE  Quietly(q)
<1>1. \A k : Has(q, k)' = Has(q, k)
  BY PlaceSame
<1>2. Alive(q)' = Alive(q)
  BY DEF Alive, SamePlace
<1>3. QED
  BY <1>1, <1>2 DEF Quietly, SamePlace

LEMMA OthersSame ==
  ASSUME Sound, NEW p \in Proc, NEW l, Goto(p, l),
         \/ UNCHANGED left \/ \E S : left' = [left EXCEPT ![p] = S],
         \/ UNCHANGED handle \/ \E h : handle' = [handle EXCEPT ![p] = h]
  PROVE  pc'[p] = l /\ \A q \in Proc \ {p} : SamePlace(q)
<1>1. DOMAIN pc = Proc /\ DOMAIN left = Proc /\ DOMAIN handle = Proc
  BY DEF Sound, Places, Ids
<1>2. pc'[p] = l /\ \A q \in Proc \ {p} : pc'[q] = pc[q]
  BY <1>1 DEF Goto
<1>3. \A q \in Proc \ {p} : left'[q] = left[q]
  BY <1>1
<1>4. \A q \in Proc \ {p} : handle'[q] = handle[q]
  BY <1>1
<1>5. QED
  BY <1>2, <1>3, <1>4 DEF SamePlace

LEMMA PlainMove ==
  ASSUME NEW p \in Proc, Quietly(p), \A q \in Proc \ {p} : SamePlace(q), id' = id,
         \A k \in Key : refs'[k] \subseteq refs[k] \/ (Closing(k) => "open" \in mishaps')
  PROVE  Plain
<1>1. \A q \in Proc : Quietly(q)
  BY SameQuietly
<1>2. QED
  BY <1>1 DEF Plain

(* The two usual cases: p ends, or goes on with no set it did not have.    *)
Usual == {"close_get", "close_unlock", "close", "open", "ready", "calling", "bye", "said",
          "sign", "signed", "waiting", "unlock", "dead"}

LEMMA UsualMove ==
  ASSUME NEW p \in Proc, UNCHANGED handle, pc'[p] \in Usual,
         pc[p] \in Usual \union {"close_rm"}, pc[p] # "dead",
         pc'[p] # "dead" => \A k \in Key : Has(p, k)' => Has(p, k)
  PROVE  Quietly(p)
<1>1. pc'[p] = "dead" => \A k : ~Has(p, k)'
  BY DEF Has, Creating, Closer
<1>2. Alive(p)
  BY DEF Alive, Usual
<1>3. QED
  BY <1>1, <1>2 DEF Quietly, Usual, Creating

LEMMA TakePlain ==
  ASSUME Sound, NEW p \in Proc, NEW l, NEW k, NEW m,
         \/ TakePlace(l, k, m) /\ Take(p, l, k, m)
         \/ GivePlace(l, k, m) /\ Give(p, l, k, m)
  PROVE  Plain
<1>1. /\ pc[p] = l /\ Goto(p, m)
      /\ UNCHANGED <<sets, left, handle, refs>>
  BY DEF Take, Give
<1>2. pc'[p] = m /\ left' = left /\ \A q \in Proc \ {p} : SamePlace(q)
  BY <1>1, OthersSame
<1>3. /\ l \in Usual /\ m \in Usual /\ l # "dead" /\ m # "dead"
      /\ m = "close" => l = "said"
      /\ m # "close" => /\ m \in {"calling", "said", "sign", "ready", "waiting"}
                        /\ l \in {"ready", "bye", "calling", "said", "signed"}
                        /\ m = "waiting" => l = "signed"
  BY DEF TakePlace, GivePlace, Usual
<1>4. left[p] \subseteq Mine(p) /\ Mine(p)' = Mine(p)
  BY <1>1, <1>3 DEF Sound, Places, Usual, Mine
<1>5. \A j \in Key : Has(p, j)' => Has(p, j)
  <2>1. CASE m = "close"
    BY <1>1, <1>2, <1>3, <1>4, <2>1 DEF Has, Creating, Closer
  <2>2. CASE m # "close"
    BY <1>1, <1>2, <1>3, <1>4, <2>2 DEF Has, Creating, Closer
  <2>3. QED
    BY <2>1, <2>2
<1>6. Quietly(p)
  BY <1>1, <1>2, <1>3, <1>5, UsualMove
<1>7. QED
  BY <1>1, <1>2, <1>6, PlainMove DEF sets

LEMMA ClosePlain ==
  ASSUME Sound, NEW p \in Proc, NEW l, NEW k, NEW m, k \in Key, Close(p, l, k, m),
         \/ l = "close" /\ k = Turn(p) /\ m = "close_get"
         \/ l = "waiting" /\ k = "clienting" /\ m = "unlock"
  PROVE  Plain
<1>1. pc[p] = l /\ UNCHANGED <<sets, handle>> /\ id' = id
  BY DEF Close, sets
<1>2. CASE Goto(p, m) /\ UNCHANGED left /\ refs' = [refs EXCEPT ![k] = @ \ {p}]
  <2>1. pc'[p] = m /\ left' = left /\ \A q \in Proc \ {p} : SamePlace(q)
    BY <1>1, <1>2, OthersSame
  <2>2. \A j \in Key : refs'[j] \subseteq refs[j]
    BY <1>2 DEF Sound, Types
  <2>3. \A j \in Key : Has(p, j)' => Has(p, j)
    <3>1. CASE l = "close"
      BY <1>1, <2>1, <3>1 DEF Has, Creating, Closer
    <3>2. CASE l = "waiting"
      BY <1>1, <2>1, <3>2 DEF Has, Creating, Closer, Mine
    <3>3. QED
      BY <3>1, <3>2
  <2>4. Quietly(p)
    BY <1>1, <2>1, <2>3, UsualMove DEF Usual
  <2>5. QED
    BY <1>1, <2>1, <2>2, <2>4, PlainMove
<1>3. CASE Exits(p) /\ UNCHANGED refs
  <2>1. pc'[p] = "dead" /\ \A q \in Proc \ {p} : SamePlace(q)
    BY <1>1, <1>3, OthersSame DEF Exits
  <2>2. Quietly(p)
    BY <1>1, <2>1, UsualMove DEF Usual
  <2>3. QED
    BY <1>1, <1>3, <2>1, <2>2, PlainMove
<1>4. QED
  BY <1>2, <1>3 DEF Close
(* The rest of sem_close, unless it removes the set.                       *)
Removing(p) == pc[p] = "close_rm" /\ Valid(p, Turn(p))

LEMMA CloseRestPlain ==
  ASSUME Sound, NEW p \in Proc, CloseRest(p), ~Removing(p)
  PROVE  Plain
<1>1. PICK k \in Key : k = Turn(p)
  BY TurnIn DEF Sound
<1>2. pc[p] \in Closer /\ handle' = handle /\ k \in left[p]
  BY <1>1, TurnIn DEF CloseRest, Closer, Sound
<1>3. CASE pc[p] = "close_get"
  <2>1. UNCHANGED <<sets, left, refs>> /\ id' = id
    BY <1>3 DEF CloseRest, sets
  <2>2. PICK l \in {"close_rm", "close_unlock", "dead"} :
          Goto(p, l) /\ (l = "close_rm" => Valid(p, k) /\ cnt[k] = BIGCOUNT)
    BY <1>1, <1>3 DEF CloseRest
  <2>3. pc'[p] = l /\ \A q \in Proc \ {p} : SamePlace(q)
    BY <1>2, <2>1, <2>2, OthersSame
  <2>4. CASE l = "close_rm"
    <3>1. SetOk(k) /\ refs[k] \in SUBSET Proc /\ BIGCOUNT # 0
      BY BigCountAssumption DEF Sound, AllSets, Types
    <3>2. cnt[k] = BIGCOUNT - Cardinality(refs[k])
      BY <2>2, <2>4, <3>1 DEF SetOk, CntOk
    <3>3. Cardinality(refs[k]) = 0 /\ IsFiniteSet(refs[k])
      BY <2>2, <2>4, <3>1, <3>2, Room, BigCountAssumption
    <3>4. refs[k] = {}
      BY <3>3, FS_EmptySet
    <3>5. Turn(p)' = k
      BY <1>1, <1>3, <2>1, <2>3, <2>4 DEF Turn
    <3>6. \A j \in Key : Has(p, j)' => Has(p, j)
      BY <1>1, <1>3, <2>1, <2>3, <2>4, <3>5 DEF Has, Creating, Closer
    <3>7. Alive(p)
      BY <1>3 DEF Alive
    <3>8. Quietly(p)
      BY <1>2, <1>3, <2>1, <2>3, <2>4, <3>4, <3>5, <3>6, <3>7 DEF Quietly, Creating
    <3>9. QED
      BY <2>1, <2>3, <3>8, PlainMove
  <2>5. CASE l # "close_rm"
    <3>1. l # "dead" => \A j \in Key : Has(p, j)' => Has(p, j)
      <4>1. l # "dead" => Turn(p)' = Turn(p)
        BY <1>3, <2>1, <2>2, <2>3, <2>5 DEF Turn
      <4>2. QED
        BY <1>1, <1>3, <2>1, <2>2, <2>3, <2>5, <4>1 DEF Has, Creating, Closer
    <3>2. Quietly(p)
      BY <1>2, <1>3, <2>2, <2>3, <2>5, <3>1, UsualMove DEF Usual
    <3>3. QED
      BY <2>1, <2>3, <3>2, PlainMove
  <2>6. QED
    BY <2>4, <2>5
<1>4. CASE pc[p] # "close_get" /\ Exits(p) /\ UNCHANGED <<semVars, sets, refs>>
  <2>1. pc'[p] = "dead" /\ id' = id /\ \A q \in Proc \ {p} : SamePlace(q)
    BY <1>2, <1>4, OthersSame DEF Exits, sets
  <2>2. Quietly(p)
    BY <1>2, <1>4, <2>1, UsualMove DEF Usual, Closer
  <2>3. QED
    BY <1>4, <2>1, <2>2, PlainMove
<1>5. CASE /\ pc[p] = "close_unlock" /\ op_unlock(p, k) /\ NextSet(p, "close", "dead")
           /\ UNCHANGED <<sets, refs>>
  <2>1. PICK l \in {"close", "dead"} :
          Goto(p, l) /\ (l = "close" => left' = [left EXCEPT ![p] = @ \ {k}])
    BY <1>1, <1>5 DEF NextSet
  <2>2. \E S : left' = [left EXCEPT ![p] = S]
    BY <1>5 DEF NextSet
  <2>3. pc'[p] = l /\ id' = id /\ \A q \in Proc \ {p} : SamePlace(q)
    BY <1>2, <1>5, <2>1, <2>2, OthersSame DEF sets
  <2>4. l = "close" => left'[p] = left[p] \ {k}
    BY <2>1 DEF Sound, Places
  <2>5. l = "close" => \A j \in Key : Has(p, j)' => Has(p, j)
    BY <1>1, <1>5, <2>3, <2>4 DEF Has, Creating, Closer
  <2>6. Quietly(p)
    BY <1>2, <1>5, <2>3, <2>5, UsualMove DEF Usual
  <2>7. QED
    BY <1>5, <2>3, <2>6, PlainMove
<1>6. QED
  BY <1>1, <1>3, <1>4, <1>5 DEF CloseRest, sem_rm, Removing

(* A process that opens k has it afterwards.                               *)
LEMMA OpenPlain ==
  ASSUME Sound, NEW p \in Proc, NEW k \in Key, NEW l \in {"open", "ready", "signed"},
         open(p, k), UNCHANGED sets, Goto(p, l),
         UNCHANGED left \/ \E S : left' = [left EXCEPT ![p] = S],
         pc[p] \in {"open", "sign"},
         \A j \in Key \ {k} : pc'[p] = l => (Has(p, j)' => Has(p, j))
  PROVE  Plain
<1>1. /\ id' = id /\ id[k] # 0
      /\ handle' = [handle EXCEPT ![p][k] = id[k]]
      /\ refs' = [refs EXCEPT ![k] = @ \union {p}]
      /\ Closing(k) => "open" \in mishaps'
  BY DEF open, sets
<1>2. \E h : handle' = [handle EXCEPT ![p] = h]
  BY <1>1
<1>3. pc'[p] = l /\ \A q \in Proc \ {p} : SamePlace(q)
  BY <1>2, OthersSame
<1>4. handle'[p][k] = id[k] /\ \A j \in Key \ {k} : handle'[p][j] = handle[p][j]
  BY <1>1 DEF Sound, Ids
<1>5. Valid(p, k)'
  BY <1>1, <1>4 DEF Valid
<1>6. \A j \in Key \ {k} : refs'[j] \subseteq refs[j]
  BY <1>1 DEF Sound, Types
<1>7. Alive(p)
  BY DEF Alive
<1>8. Quietly(p)
  BY <1>3, <1>4, <1>5, <1>7 DEF Quietly, Creating
<1>9. QED
  BY <1>1, <1>3, <1>6, <1>8, PlainMove

LEMMA NoSetPlain ==
  ASSUME Sound, NEW p \in Proc, NEW k, NoSet(p, k), UNCHANGED sets,
         pc[p] \in {"open", "sign"}
  PROVE  Plain
<1>1. pc'[p] = "dead" /\ id' = id /\ \A q \in Proc \ {p} : SamePlace(q)
  BY OthersSame DEF NoSet, Exits, sets
<1>2. Quietly(p)
  BY <1>1, UsualMove DEF NoSet, Usual
<1>3. QED
  BY <1>1, <1>2, PlainMove DEF NoSet

LEMMA OpensPlain ==
  ASSUME Sound, NEW p \in Proc, Opens(p)
  PROVE  Plain
<1>1. PICK k \in Key : k = Turn(p)
  BY TurnIn DEF Sound
<1>2. /\ pc[p] = "open" /\ UNCHANGED sets
      /\ k \in left[p] /\ left[p] \subseteq Mine(p) /\ Mine(p)' = Mine(p)
  BY <1>1, TurnIn DEF Opens, Sound, Places, Mine
<1>3. CASE open(p, k) /\ NextSet(p, "open", "ready")
  <2>1. \E S : left' = [left EXCEPT ![p] = S]
    BY <1>3 DEF NextSet
  <2>2. CASE Goto(p, "open") /\ left' = [left EXCEPT ![p] = @ \ {k}]
    <3>1. left'[p] = left[p] \ {k}
      BY <2>2 DEF Sound, Places
    <3>2. \A j \in Key \ {k} : pc'[p] = "open" => (Has(p, j)' => Has(p, j))
      BY <1>2, <3>1 DEF Has, Creating, Closer
    <3>3. QED
      BY <1>2, <1>3, <2>1, <2>2, <3>2, OpenPlain
  <2>3. CASE left[p] = {k} /\ Goto(p, "ready")
    <3>1. \A j \in Key \ {k} : pc'[p] = "ready" => (Has(p, j)' => Has(p, j))
      BY <1>2, <2>3 DEF Has, Creating, Closer
    <3>2. QED
      BY <1>2, <1>3, <2>1, <2>3, <3>1, OpenPlain
  <2>4. QED
    BY <1>1, <1>3, <2>2, <2>3 DEF NextSet
<1>4. CASE NoSet(p, k)
  BY <1>2, <1>4, NoSetPlain
<1>5. QED
  BY <1>1, <1>3, <1>4 DEF Opens

LEMMA SignUpPlain ==
  ASSUME Sound, NEW p \in Proc, SignUp(p)
  PROVE  Plain
<1>1. pc[p] = "sign" /\ UNCHANGED sets /\ "clienting" \in Key
  BY SemSetsAssumption DEF SignUp
<1>2. CASE open(p, "clienting") /\ Goto(p, "signed") /\ UNCHANGED left
  <2>1. \A j \in Key \ {"clienting"} : pc'[p] = "signed" => (Has(p, j)' => Has(p, j))
    BY <1>1, <1>2 DEF Has, Creating, Closer, Mine
  <2>2. QED
    BY <1>1, <1>2, <2>1, OpenPlain
<1>3. CASE NoSet(p, "clienting")
  BY <1>1, <1>3, NoSetPlain
<1>4. QED
  BY <1>2, <1>3 DEF SignUp

LEMMA SignOffPlain ==
  ASSUME Sound, NEW p \in Proc, SignOff(p), "clienting" \notin Mine(p)
  PROVE  Plain
<1>1. pc[p] = "unlock" /\ UNCHANGED left /\ id' = id /\ UNCHANGED refs /\ Alive(p)
  BY DEF SignOff, sets, Alive
<1>2. CASE Goto(p, "ready") /\ handle' = [handle EXCEPT ![p]["clienting"] = 0]
  <2>1. \E h : handle' = [handle EXCEPT ![p] = h]
    BY <1>2
  <2>2. pc'[p] = "ready" /\ \A q \in Proc \ {p} : SamePlace(q)
    BY <1>1, <1>2, <2>1, OthersSame
  <2>3. \A j \in Key : /\ j = "clienting" => handle'[p][j] = 0
                       /\ j # "clienting" => handle'[p][j] = handle[p][j]
    BY <1>2 DEF Sound, Ids
  <2>4. \A j \in Key : Has(p, j)' => j # "clienting" /\ Has(p, j)
    BY <1>1, <2>2 DEF Has, Creating, Closer, Mine
  <2>5. Quietly(p)
    BY <1>1, <2>2, <2>3, <2>4 DEF Quietly, Creating
  <2>6. QED
    BY <1>1, <2>2, <2>5, PlainMove
<1>3. CASE Goto(p, "dead") /\ UNCHANGED handle
  <2>1. pc'[p] = "dead" /\ \A q \in Proc \ {p} : SamePlace(q)
    BY <1>1, <1>3, OthersSame
  <2>2. Quietly(p)
    BY <1>1, <1>3, <2>1, UsualMove DEF Usual
  <2>3. QED
    BY <1>1, <2>1, <2>2, PlainMove
<1>4. QED
  BY <1>2, <1>3 DEF SignOff
LEMMA ServerPlain ==
  ASSUME Sound, NEW s \in Server, ForkSystem(s) \/ Bind(s)
  PROVE  Plain
<1>1. PICK p \in Proc : p = Program(s)
  BY Kinds
<1>2. /\ UNCHANGED <<left, handle, refs>> /\ id' = id
      /\ pc[p] \in {"fork", "bind"} /\ Alive(p)
  BY <1>1 DEF ForkSystem, Bind, sets, Alive
<1>3. PICK l \in {"bind", "up", "dead"} : Goto(p, l) /\ (l = "dead" => "bind" \in mishaps')
  BY <1>1 DEF ForkSystem, Bind
<1>4. pc'[p] = l /\ \A q \in Proc \ {p} : SamePlace(q)
  BY <1>2, <1>3, OthersSame
<1>5. \A k \in Key : Has(p, k)' => Has(p, k)
  BY <1>2, <1>4 DEF Has, Creating, Closer, Mine
<1>6. Quietly(p)
  BY <1>2, <1>3, <1>4, <1>5 DEF Quietly, Creating
<1>7. QED
  BY <1>2, <1>4, <1>6, PlainMove

LEMMA InterruptPlain ==
  ASSUME Sound, NEW p \in Proc, NEW s, Interrupt(p, s)
  PROVE  Plain
<1>1. /\ UNCHANGED <<handle, refs>> /\ id' = id /\ Alive(p) /\ pc[p] # "remove"
      /\ Goto(p, "remove") /\ left' = [left EXCEPT ![p] = Key]
      /\ "interrupt" \in mishaps'
  BY DEF Interrupt, sets
<1>2. pc'[p] = "remove" /\ left'[p] = Key /\ \A q \in Proc \ {p} : SamePlace(q)
  BY <1>1, OthersSame DEF Sound, Places
<1>3. \A k \in Key : ~Has(p, k)'
  BY <1>2 DEF Has, Creating, Closer
<1>4. \A k \in Key : handle'[p][k] = handle[p][k] /\ (Alive(p)' => Alive(p))
  BY <1>1
<1>5. pc[p] \notin Creating /\ handle'[p] = handle[p]
  BY <1>1 DEF Interrupt, Creating
<1>6. Quietly(p)
  BY <1>1, <1>2, <1>3, <1>4, <1>5 DEF Quietly, Creating
<1>7. QED
  BY <1>1, <1>2, <1>6, PlainMove

LEMMA AcceptPlain ==
  ASSUME Sound, NEW s \in Server, NEW c \in Client, Accept(s, c)
  PROVE  Plain
<1> DEFINE New == {Shell(c), Recv(c)}
<1>1. New \subseteq Proc /\ Shell(c) # Recv(c)
  BY Kinds, Different
<1>2. /\ pc[Program(s)] = "up" /\ left' = left /\ id' = id /\ refs' = refs
      /\ \A q \in New : pc'[q] = "open" /\ handle'[q] = handle[Program(s)]
      /\ \A q \in Proc \ New : SamePlace(q)
  BY <1>1 DEF Accept, Sound, Places, Ids, sets, SamePlace
<1>3. \A q \in New : pc[q] = "none" /\ left[q] = Mine(q)
  BY <1>1 DEF Accept, Sound, Places
<1>4. ASSUME NEW q \in Proc PROVE Quietly(q)
  <2>1. CASE q \in New
    <3>1. \A k \in Key : ~Has(q, k)'
      BY <1>2, <1>3, <2>1 DEF Has, Creating, Closer, Mine
    <3>2. pc'[q] = "open" /\ pc[q] = "none" /\ handle'[q] = handle[Program(s)]
      BY <1>2, <1>3, <2>1
    <3>3. QED
      BY <1>2, <3>1, <3>2 DEF Quietly, Creating
  <2>2. CASE q \notin New
    BY <1>2, <2>2, SameQuietly
  <2>3. QED
    BY <2>1, <2>2
<1>5. QED
  BY <1>2, <1>4 DEF Plain

LEMMA LeavesPlain ==
  ASSUME Sound, NEW c \in Client, Leaves(c)
  PROVE  Plain
<1>1. Shell(c) \in Proc /\ Recv(c) \in Proc /\ Shell(c) # Recv(c)
  BY Kinds, Different
<1>2. /\ pc[Shell(c)] = "ready" /\ pc'[Shell(c)] = "bye" /\ pc'[Recv(c)] = "dead"
      /\ left' = left /\ handle' = handle /\ id' = id /\ refs' = refs
      /\ pc[Recv(c)] = "remove" => "halfway" \in mishaps'
  BY <1>1 DEF Leaves, Sound, Places, sets
<1>3. \A q \in Proc \ {Shell(c), Recv(c)} : SamePlace(q)
  BY <1>1 DEF Leaves, Sound, Places, SamePlace
<1>4. Quietly(Shell(c))
  <2>1. \A k \in Key : Has(Shell(c), k)' => Has(Shell(c), k)
    BY <1>2 DEF Has, Creating, Closer, Mine
  <2>2. QED
    BY <1>1, <1>2, <2>1, UsualMove DEF Usual
<1>5. Quietly(Recv(c))
  <2>1. pc[Recv(c)] \notin {"fork", "bind", "up"} \union Creating
    BY DEF Sound, Places, RecvPC, Creating
  <2>2. \A k \in Key : ~Has(Recv(c), k)'
    BY <1>2 DEF Has, Creating, Closer
  <2>3. ~Alive(Recv(c))'
    BY <1>2 DEF Alive
  <2>4. pc'[Recv(c)] = "dead" /\ handle'[Recv(c)] = handle[Recv(c)]
    BY <1>2
  <2>5. QED
    BY <1>2, <2>1, <2>2, <2>3, <2>4 DEF Quietly, Creating
<1>6. \A q \in Proc : Quietly(q)
  BY <1>3, <1>4, <1>5, SameQuietly
<1>7. QED
  BY <1>2, <1>6 DEF Plain

LEMMA UndonePlain ==
  ASSUME Sound, NEW p \in Proc, NEW k \in Key, Undone(p, k)
  PROVE  Plain
<1>1. \A q \in Proc : SamePlace(q)
  BY DEF Undone, progress, SamePlace
<1>2. \A j \in Key : refs'[j] \subseteq refs[j]
  BY DEF Undone, Sound, Types
<1>3. QED
  BY <1>1, <1>2, SameQuietly DEF Plain, Undone, sets

(* Every step is a plain one, or one of these.                             *)
LEMMA StepKinds ==
  ASSUME Sound, [Next]_vars
  PROVE  \/ Plain
         \/ \E s \in Server : Start(s) \/ sem_create(s) \/ Kill(s)
         \/ \E p \in Proc : INT_handler(p)
         \/ \E p \in Proc : CloseRest(p) /\ Removing(p)
<1> DEFINE Other == \/ Plain
                    \/ \E s \in Server : Start(s) \/ sem_create(s) \/ Kill(s)
                    \/ \E p \in Proc : INT_handler(p)
                    \/ \E p \in Proc : CloseRest(p) /\ Removing(p)
<1>1. CASE UNCHANGED vars
  <2>1. \A q \in Proc : SamePlace(q)
    BY <1>1 DEF vars, progress, SamePlace
  <2>2. QED
    BY <1>1, <2>1, SameQuietly DEF Plain, vars, sets
<1>2. ASSUME NEW s \in Server, ServerNext(s) PROVE Other
  <2>1. Program(s) \in Proc
    BY Kinds
  <2>2. QED
    BY <1>2, <2>1, ServerPlain, AcceptPlain, InterruptPlain DEF ServerNext
<1>3. ASSUME NEW c \in Client, ShellNext(c) PROVE Other
  <2>1. PICK p \in Proc : p = Shell(c)
    BY Kinds
  <2>2. \/ Opens(p) \/ Leaves(c) \/ Interrupt(p, of[c]) \/ INT_handler(p) \/ CloseRest(p)
        \/ Take(p, "ready", "call_system", "calling")
        \/ Give(p, "calling", "call_system", "ready")
        \/ Take(p, "bye", "call_system", "said")
        \/ Give(p, "said", "call_system", "close")
        \/ Close(p, "close", Turn(p), "close_get")
    BY <1>3, <2>1 DEF ShellNext
  <2>3. CASE Opens(p) \/ Leaves(c) \/ Interrupt(p, of[c]) \/ INT_handler(p) \/ CloseRest(p)
    BY <2>3, OpensPlain, LeavesPlain, InterruptPlain, CloseRestPlain
  <2>4. CASE \/ Take(p, "ready", "call_system", "calling")
             \/ Give(p, "calling", "call_system", "ready")
             \/ Take(p, "bye", "call_system", "said")
             \/ Give(p, "said", "call_system", "close")
    BY <2>4, TakePlain DEF TakePlace, GivePlace
  <2>5. CASE Close(p, "close", Turn(p), "close_get")
    BY <2>5, TurnIn, ClosePlain DEF Sound
  <2>6. QED
    BY <2>2, <2>3, <2>4, <2>5
<1>4. ASSUME NEW c \in Client, RecvNext(c) PROVE Other
  <2>1. PICK p \in Proc : p = Recv(c) /\ "clienting" \notin Mine(p)
    BY Kinds
  <2>2. \/ Opens(p) \/ SignUp(p) \/ SignOff(p) \/ Interrupt(p, of[c]) \/ INT_handler(p)
        \/ Take(p, "ready", "clisem", "sign")
        \/ Give(p, "signed", "clisem", "waiting")
        \/ Close(p, "waiting", "clienting", "unlock")
    BY <1>4, <2>1 DEF RecvNext
  <2>3. CASE Opens(p) \/ SignUp(p) \/ SignOff(p) \/ Interrupt(p, of[c]) \/ INT_handler(p)
    BY <2>1, <2>3, OpensPlain, SignUpPlain, SignOffPlain, InterruptPlain
  <2>4. CASE Take(p, "ready", "clisem", "sign") \/ Give(p, "signed", "clisem", "waiting")
    BY <2>4, TakePlain DEF TakePlace, GivePlace
  <2>5. CASE Close(p, "waiting", "clienting", "unlock")
    BY <2>5, SemSetsAssumption, ClosePlain
  <2>6. QED
    BY <2>2, <2>3, <2>4, <2>5
<1>5. ASSUME NEW p \in Proc, NEW k \in Key, Undone(p, k) PROVE Other
  BY <1>5, UndonePlain
<1>6. QED
  BY <1>1, <1>2, <1>3, <1>4, <1>5 DEF Next
-----------------------------------------------------------------------------
(* Nobody's sets are taken away without Ctrl-C.                            *)

LEMMA CreateMove ==
  ASSUME Sound, NEW s \in Server, sem_create(s), NEW p \in Proc, p = Program(s),
         NEW k \in Key, k = Turn(p)
  PROVE  /\ pc[p] \in Creating /\ pc'[p] \in Creating \union {"fork", "dead"}
         /\ \A q \in Proc \ {p} : SamePlace(q)
         /\ \A j \in Key : id'[j] = id[j] \/ (id[j] = 0 /\ id'[j] = next)
         /\ \A j \in Key : \/ refs'[j] = refs[j]
                           \/ j = k /\ pc[p] = "endcreate" /\ Valid(p, k)
         /\ \A j \in Key : Has(p, j)' => \/ Has(p, j) /\ handle'[p][j] = handle[p][j]
                                         \/ Valid(p, j)'
<1>1. semget(p, k) \/ op_lock(p, k) \/ getval(p, k) \/ setval(p, k) \/ op_endcreate(p, k)
  BY DEF sem_create
<1>2. k \in left[p]
  BY TurnIn DEF Sound
<1>3. CASE semget(p, k)
  <2>1. PICK n : handle' = [handle EXCEPT ![p][k] = n]
    BY <1>3 DEF semget
  <2>2. Goto(p, "lock") /\ UNCHANGED left /\ pc[p] = "get" /\ refs' = refs
    BY <1>3 DEF semget
  <2>3. \E h : handle' = [handle EXCEPT ![p] = h]
    BY <2>1
  <2>4. pc'[p] = "lock" /\ \A q \in Proc \ {p} : SamePlace(q)
    BY <2>2, <2>3, OthersSame
  <2>5. \A j \in Key \ {k} : handle'[p][j] = handle[p][j]
    BY <2>1 DEF Sound, Ids
  <2>6. \A j \in Key : Has(p, j)' => j # k /\ Has(p, j)
    BY <1>2, <2>2, <2>4 DEF Has, Creating, Closer, Mine
  <2>7. \A j \in Key : id'[j] = id[j] \/ (id[j] = 0 /\ id'[j] = next)
    BY <1>3 DEF semget, sets, Sound, Ids
  <2>8. QED
    BY <2>2, <2>4, <2>5, <2>6, <2>7 DEF Creating
<1>4. CASE op_lock(p, k) \/ getval(p, k) \/ setval(p, k)
  <2>1. UNCHANGED left /\ UNCHANGED handle /\ refs' = refs /\ id' = id
    BY <1>4 DEF op_lock, getval, setval, sets
  <2>2. PICK l \in Creating \union {"dead"} : Goto(p, l) /\ pc[p] \in Creating
    BY <1>4 DEF op_lock, getval, setval, Creating
  <2>3. pc'[p] = l /\ \A q \in Proc \ {p} : SamePlace(q)
    BY <2>1, <2>2, OthersSame
  <2>4. \A j \in Key : Has(p, j)' => Has(p, j)
    BY <2>1, <2>2, <2>3 DEF Has, Creating, Closer, Mine
  <2>5. QED
    BY <2>1, <2>2, <2>3, <2>4
<1>5. CASE op_endcreate(p, k)
  <2>1. UNCHANGED handle /\ id' = id /\ pc[p] = "endcreate"
    BY <1>5 DEF op_endcreate, sets
  <2>2. CASE Valid(p, k) /\ refs' = [refs EXCEPT ![k] = @ \union {p}]
             /\ NextSet(p, "get", "fork")
    <3>1. \A j \in Key : j # k => refs'[j] = refs[j]
      BY <2>2 DEF Sound, Types
    <3>2. PICK l \in {"get", "fork"} :
            /\ Goto(p, l)
            /\ l = "get" => left' = [left EXCEPT ![p] = @ \ {k}]
            /\ l = "fork" => left[p] = {k}
      BY <2>2 DEF NextSet
    <3>3. \E S : left' = [left EXCEPT ![p] = S]
      BY <2>2 DEF NextSet
    <3>4. pc'[p] = l /\ \A q \in Proc \ {p} : SamePlace(q)
      BY <2>1, <3>2, <3>3, OthersSame
    <3>5. l = "get" => left'[p] = left[p] \ {k}
      BY <3>2 DEF Sound, Places
    <3>6. \A j \in Key : Has(p, j)' => j = k \/ Has(p, j)
      BY <2>1, <3>2, <3>4, <3>5 DEF Has, Creating, Closer, Mine
    <3>7. Valid(p, k)'
      BY <2>1, <2>2 DEF Valid
    <3>8. QED
      BY <2>1, <2>2, <3>1, <3>4, <3>6, <3>7 DEF Creating
  <2>3. CASE Exits(p) /\ UNCHANGED refs
    <3>1. pc'[p] = "dead" /\ \A q \in Proc \ {p} : SamePlace(q)
      BY <2>1, <2>3, OthersSame DEF Exits
    <3>2. \A j \in Key : ~Has(p, j)'
      BY <3>1 DEF Has, Creating, Closer
    <3>3. QED
      BY <2>1, <2>3, <3>1, <3>2 DEF Creating
  <2>4. QED
    BY <1>5, <2>2, <2>3 DEF op_endcreate
<1>6. QED
  BY <1>1, <1>3, <1>4, <1>5

(* The steps that start a server and end one.                              *)
LEMMA StartKillMove ==
  ASSUME Sound, NEW s \in Server, Start(s) \/ Kill(s), NEW p \in Proc, p = Program(s)
  PROVE  /\ pc[p] # pc'[p] /\ pc'[p] \in {"get", "dead"} /\ \A j \in Key : ~Has(p, j)'
         /\ \A q \in Proc \ {p} : SamePlace(q)
         /\ id' = id /\ refs' = refs /\ handle' = handle
<1>1. id' = id /\ refs' = refs /\ handle' = handle
  BY DEF Start, Kill, sets
<1>2. CASE Start(s)
  <2>1. pc[p] = "none" /\ Goto(p, "get") /\ UNCHANGED left
    BY <1>2 DEF Start
  <2>2. pc'[p] = "get" /\ \A q \in Proc \ {p} : SamePlace(q)
    BY <1>1, <2>1, OthersSame
  <2>3. left'[p] = Mine(p)
    BY <2>1 DEF Sound, Places
  <2>4. \A j \in Key : ~Has(p, j)'
    BY <2>2, <2>3 DEF Has, Creating, Closer, Mine
  <2>5. QED
    BY <1>1, <2>1, <2>2, <2>4
<1>3. CASE Kill(s)
  <2>1. Exits(p) /\ pc[p] # "dead"
    BY <1>3 DEF Kill, Alive
  <2>2. pc'[p] = "dead" /\ \A q \in Proc \ {p} : SamePlace(q)
    BY <1>1, <2>1, OthersSame DEF Exits
  <2>3. \A j \in Key : ~Has(p, j)'
    BY <2>2 DEF Has, Creating, Closer
  <2>4. QED
    BY <1>1, <2>1, <2>2, <2>3
<1>4. QED
  BY <1>2, <1>3

(* A last user removes a set.                                              *)
LEMMA RemovingMove ==
  ASSUME Sound, NEW p \in Proc, CloseRest(p), Removing(p), NEW k \in Key, k = Turn(p)
  PROVE  /\ pc[p] = "close_rm" /\ Valid(p, k) /\ pc'[p] \in {"close", "dead"}
         /\ \A q \in Proc \ {p} : SamePlace(q)
         /\ id'[k] = 0 /\ (\A j \in Key \ {k} : id'[j] = id[j] /\ refs'[j] = refs[j])
         /\ handle' = handle /\ \A j \in Key : Has(p, j)' => j # k /\ Has(p, j)
<1>1. pc[p] = "close_rm" /\ Valid(p, k) /\ handle' = handle
  BY DEF CloseRest, Removing
<1>2. RemoveSet(k) /\ NextSet(p, "close", "dead")
  BY <1>1 DEF CloseRest, sem_rm
<1>3. id'[k] = 0 /\ \A j \in Key \ {k} : id'[j] = id[j] /\ refs'[j] = refs[j]
  BY <1>2 DEF RemoveSet, Become, Sound, Types, Ids
<1>4. PICK l \in {"close", "dead"} :
        Goto(p, l) /\ (l = "close" => left' = [left EXCEPT ![p] = @ \ {k}])
  BY <1>2 DEF NextSet
<1>5. \E S : left' = [left EXCEPT ![p] = S]
  BY <1>2 DEF NextSet
<1>6. pc'[p] = l /\ \A q \in Proc \ {p} : SamePlace(q)
  BY <1>1, <1>4, <1>5, OthersSame
<1>7. l = "close" => left'[p] = left[p] \ {k}
  BY <1>4 DEF Sound, Places
<1>8. \A j \in Key : Has(p, j)' => j # k /\ Has(p, j)
  BY <1>1, <1>6, <1>7 DEF Has, Creating, Closer
<1>9. QED
  BY <1>1, <1>3, <1>6, <1>8
(* A handle that p keeps is valid only if its set has stayed.              *)
LEMMA ValidStays ==
  ASSUME Sound, NEW q \in Proc, NEW k \in Key, handle'[q][k] = handle[q][k], Valid(q, k)',
         id'[k] \in {id[k], 0, next}
  PROVE  Valid(q, k) /\ id'[k] = id[k]
<1>1. handle[q][k] < next /\ handle[q][k] \in Nat /\ next \in Nat
  BY DEF Sound, Ids
<1>2. handle[q][k] # 0 /\ handle[q][k] = id'[k]
  BY DEF Valid
<1>3. QED
  BY <1>1, <1>2 DEF Valid

LEMMA RespectedPlain ==
  ASSUME Sound, Respected, Plain, mishaps' \intersect {"interrupt", "open"} = {}
  PROVE  Respected'
<1>1. \A q \in Proc : pc'[q] # "remove"
  BY DEF Respected, Plain, Quietly, SamePlace
<1>2. ASSUME NEW q \in Proc, pc'[q] = "close_rm", Valid(q, Turn(q))'
      PROVE  refs'[Turn(q)'] = {}
  <2>1. CASE SamePlace(q)
    <3>1. PICK k \in Key : k = Turn(q)
      BY TurnIn DEF Sound
    <3>2. Turn(q)' = k
      BY <2>1, <3>1, PlaceSame
    <3>3. Valid(q, k) /\ pc[q] = "close_rm"
      BY <1>2, <2>1, <3>2 DEF Valid, SamePlace, Plain
    <3>4. refs[k] = {} /\ Closing(k)
      BY <3>1, <3>3 DEF Respected, Closing
    <3>5. refs'[k] \subseteq refs[k]
      BY <3>4 DEF Plain
    <3>6. QED
      BY <3>2, <3>4, <3>5
  <2>2. CASE ~SamePlace(q)
    BY <1>2, <2>2 DEF Plain, Quietly
  <2>3. QED
    BY <2>1, <2>2
<1>3. ASSUME NEW q \in Proc, NEW k \in Key, Has(q, k)' PROVE Valid(q, k)'
  BY <1>3 DEF Plain, Quietly, Respected, Valid
<1>4. QED
  BY <1>1, <1>2, <1>3 DEF Respected

LEMMA RespectedCreate ==
  ASSUME Sound, Respected, NEW s \in Server, sem_create(s)
  PROVE  Respected'
<1>1. PICK p \in Proc : p = Program(s)
  BY Kinds
<1>2. PICK k \in Key : k = Turn(p)
  BY TurnIn DEF Sound
<1>3. /\ pc[p] \in Creating /\ pc'[p] \in Creating \union {"fork", "dead"}
      /\ \A q \in Proc \ {p} : SamePlace(q)
      /\ \A j \in Key : id'[j] \in {id[j], next} /\ (id'[j] # id[j] => id[j] = 0)
      /\ \A j \in Key : refs'[j] # refs[j] => j = k /\ pc[p] = "endcreate" /\ Valid(p, k)
      /\ \A j \in Key : Has(p, j)' => \/ Has(p, j) /\ handle'[p][j] = handle[p][j]
                                      \/ Valid(p, j)'
  BY <1>1, <1>2, CreateMove
<1>4. \A q \in Proc : pc'[q] # "remove"
  BY <1>3 DEF Respected, SamePlace, Creating
<1>5. ASSUME NEW q \in Proc, pc'[q] = "close_rm", Valid(q, Turn(q))'
      PROVE  refs'[Turn(q)'] = {}
  <2>1. q # p /\ SamePlace(q)
    BY <1>3, <1>5 DEF Creating
  <2>2. PICK j \in Key : j = Turn(q)
    BY TurnIn DEF Sound
  <2>3. Turn(q)' = j /\ pc[q] = "close_rm" /\ handle'[q] = handle[q]
    BY <1>5, <2>1, <2>2, PlaceSame DEF SamePlace
  <2>4. Valid(q, j)
    BY <1>3, <1>5, <2>3, ValidStays
  <2>5. refs[j] = {} /\ Locking(q, j)
    BY <2>2, <2>3, <2>4 DEF Respected, Locking, Closer
  <2>6. refs'[j] = refs[j]
    <3> SUFFICES ASSUME refs'[j] # refs[j] PROVE FALSE
      OBVIOUS
    <3>1. j = k /\ Locking(p, j) /\ Valid(p, j)
      BY <1>2, <1>3 DEF Locking
    <3>2. QED
      BY <2>1, <2>4, <2>5, <3>1, OneLocks
  <2>7. QED
    BY <2>3, <2>5, <2>6
<1>6. ASSUME NEW q \in Proc, NEW j \in Key, Has(q, j)' PROVE Valid(q, j)'
  <2>1. ASSUME Has(q, j), handle'[q][j] = handle[q][j] PROVE Valid(q, j)'
    <3>1. Valid(q, j)
      BY <2>1 DEF Respected
    <3>2. id'[j] = id[j]
      BY <1>3, <3>1 DEF Valid
    <3>3. QED
      BY <2>1, <3>1, <3>2 DEF Valid
  <2>2. CASE q = p
    BY <1>3, <1>6, <2>1, <2>2
  <2>3. CASE q # p
    <3>1. SamePlace(q) /\ Has(q, j)
      BY <1>3, <1>6, <2>3, PlaceSame
    <3>2. QED
      BY <2>1, <3>1 DEF SamePlace
  <2>4. QED
    BY <2>2, <2>3
<1>7. QED
  BY <1>4, <1>5, <1>6 DEF Respected

LEMMA RespectedStartKill ==
  ASSUME Sound, Respected, NEW s \in Server, Start(s) \/ Kill(s)
  PROVE  Respected'
<1>1. PICK p \in Proc : p = Program(s)
  BY Kinds
<1>2. /\ pc'[p] \in {"get", "dead"} /\ \A j \in Key : ~Has(p, j)'
      /\ \A q \in Proc \ {p} : SamePlace(q)
      /\ id' = id /\ refs' = refs /\ handle' = handle
  BY <1>1, StartKillMove
<1>3. \A q \in Proc : pc'[q] # "remove"
  BY <1>2 DEF Respected, SamePlace
<1>4. ASSUME NEW q \in Proc, pc'[q] = "close_rm", Valid(q, Turn(q))'
      PROVE  refs'[Turn(q)'] = {}
  <2>1. SamePlace(q) /\ Turn(q)' = Turn(q)
    BY <1>2, <1>4, PlaceSame
  <2>2. QED
    BY <1>2, <1>4, <2>1 DEF Respected, SamePlace, Valid
<1>5. ASSUME NEW q \in Proc, NEW j \in Key, Has(q, j)' PROVE Valid(q, j)'
  <2>1. SamePlace(q) /\ Has(q, j)
    BY <1>2, <1>5, PlaceSame
  <2>2. QED
    BY <1>2, <2>1 DEF Respected, Valid
<1>6. QED
  BY <1>3, <1>4, <1>5 DEF Respected

LEMMA RespectedRemoving ==
  ASSUME Sound, Respected, NEW p \in Proc, CloseRest(p), Removing(p)
  PROVE  Respected'
<1>1. PICK k \in Key : k = Turn(p)
  BY TurnIn DEF Sound
<1>2. /\ pc[p] = "close_rm" /\ Valid(p, k) /\ pc'[p] \in {"close", "dead"}
      /\ \A q \in Proc \ {p} : SamePlace(q)
      /\ id'[k] = 0 /\ (\A j \in Key \ {k} : id'[j] = id[j] /\ refs'[j] = refs[j])
      /\ handle' = handle /\ \A j \in Key : Has(p, j)' => j # k /\ Has(p, j)
  BY <1>1, RemovingMove
<1>3. refs[k] = {}
  BY <1>1, <1>2 DEF Respected
<1>4. \A q \in Proc : pc'[q] # "remove"
  BY <1>2 DEF Respected, SamePlace
<1>5. ASSUME NEW q \in Proc, pc'[q] = "close_rm", Valid(q, Turn(q))'
      PROVE  refs'[Turn(q)'] = {}
  <2>1. PICK j \in Key : j = Turn(q)
    BY TurnIn DEF Sound
  <2>2. SamePlace(q) /\ Turn(q)' = j /\ pc[q] = "close_rm"
    BY <1>2, <1>5, <2>1, PlaceSame DEF SamePlace
  <2>3. j # k /\ Valid(q, j)
    BY <1>2, <1>5, <2>2 DEF Valid
  <2>4. QED
    BY <1>2, <2>1, <2>2, <2>3 DEF Respected
<1>6. ASSUME NEW q \in Proc, NEW j \in Key, Has(q, j)' PROVE Valid(q, j)'
  <2>1. Has(q, j)
    <3>1. q # p => SamePlace(q)
      BY <1>2
    <3>2. QED
      BY <1>2, <1>6, <3>1, PlaceSame
  <2>2. Valid(q, j)
    BY <2>1 DEF Respected
  <2>3. j # k
    BY <1>3, <2>1, <2>2 DEF Sound, AllPairs, PairOk
  <2>4. QED
    BY <1>2, <2>2, <2>3 DEF Valid
<1>7. QED
  BY <1>4, <1>5, <1>6 DEF Respected

LEMMA KeptStep ==
  ASSUME Sound, Kept, [Next]_vars
  PROVE  Kept'
<1> SUFFICES ASSUME mishaps' \intersect {"interrupt", "open"} = {} PROVE Respected'
  BY DEF Kept
<1>1. Respected
  BY MishapsStay DEF Kept
<1>2. \A p \in Proc : ~INT_handler(p)
  BY <1>1 DEF Respected, INT_handler
<1>3. QED
  BY <1>1, <1>2, StepKinds, RespectedPlain, RespectedCreate, RespectedStartKill,
     RespectedRemoving

LEMMA KeptIsKept == Sound /\ Kept => NotUnderAnyone
<1> SUFFICES ASSUME Sound, Kept, mishaps \intersect {"interrupt", "open"} = {}
             PROVE  /\ \A c \in Client, k \in Key :
                         /\ pc[Shell(c)] \in {"ready", "calling", "bye", "said"}
                         /\ k \in Mine(Shell(c))
                         => Valid(Shell(c), k)
                    /\ \A s \in Server : pc[Program(s)] \in {"fork", "bind", "up"} =>
                                           \A k \in Key : Valid(Program(s), k)
  BY DEF NotUnderAnyone
<1>1. \A p \in Proc, k \in Key :
        pc[p] \in {"fork", "bind", "up", "ready", "calling", "bye", "said"} /\ k \in Mine(p)
          => Valid(p, k)
  BY DEF Kept, Respected, Has
<1>2. QED
  BY <1>1, Kinds

(* A set is not taken away from those who use it, unless somebody pressed  *)
(* Ctrl-C or came to it after its last user had looked (shm.cpp:55, 73-80).*)
THEOREM NobodysSetsAreTaken == Spec => []NotUnderAnyone
<1>1. Init => Sound /\ Kept
  <2>1. ASSUME Init PROVE Kept
    <3>1. \A p \in Proc : pc[p] = "none"
      BY <2>1 DEF Init
    <3>2. \A p \in Proc, k \in Key : ~Has(p, k)
      BY <3>1 DEF Has, Creating, Closer
    <3>3. QED
      BY <3>1, <3>2 DEF Kept, Respected
  <2>2. QED
    BY <2>1, InitSound
<1>2. Sound /\ Kept /\ [Next]_vars => (Sound /\ Kept)'
  BY SoundStep, KeptStep
<1>3. QED
  BY <1>1, <1>2, KeptIsKept, PTL DEF Spec
-----------------------------------------------------------------------------
(* The eras: what ends one and begins the next.                            *)

LEMMA HandlerMove ==
  ASSUME Sound, NEW p \in Proc, INT_handler(p), NEW k \in Key, k = Turn(p)
  PROVE  /\ pc[p] = "remove" /\ handle' = handle /\ \A q \in Proc \ {p} : SamePlace(q)
         /\ \/ /\ Valid(p, k) /\ id'[k] = 0 /\ \A j \in Key \ {k} : id'[j] = id[j]
               /\ \/ left[p] # {k} /\ pc'[p] = "remove" /\ left'[p] = left[p] \ {k}
                  \/ left[p] = {k} /\ pc'[p] = "dead"
               /\ (\E j \in Key : handle[p][j] = 0) => "halfway" \in mishaps'
            \/ ~Valid(p, k) /\ id' = id /\ pc'[p] = "dead"
<1>1. /\ pc[p] = "remove" /\ handle' = handle /\ sem_rm(p, k, "remove")
      /\ Valid(p, k) /\ (\E j \in Key : handle[p][j] = 0) => "halfway" \in mishaps'
  BY DEF INT_handler
<1>2. CASE Valid(p, k) /\ RemoveSet(k) /\ NextSet(p, "remove", "dead")
  <2>1. id'[k] = 0 /\ \A j \in Key \ {k} : id'[j] = id[j]
    BY <1>2 DEF RemoveSet, Sound, Ids
  <2>2. CASE left[p] # {k} /\ Goto(p, "remove") /\ left' = [left EXCEPT ![p] = @ \ {k}]
    <3>1. left'[p] = left[p] \ {k}
      BY <2>2 DEF Sound, Places
    <3>2. pc'[p] = "remove" /\ \A q \in Proc \ {p} : SamePlace(q)
      BY <1>1, <2>2, OthersSame
    <3>3. QED
      BY <1>1, <1>2, <2>1, <2>2, <3>1, <3>2
  <2>3. CASE left[p] = {k} /\ Goto(p, "dead") /\ left' = [left EXCEPT ![p] = Mine(p)]
    <3>1. pc'[p] = "dead" /\ \A q \in Proc \ {p} : SamePlace(q)
      BY <1>1, <2>3, OthersSame
    <3>2. QED
      BY <1>1, <1>2, <2>1, <2>3, <3>1
  <2>4. QED
    BY <1>2, <2>2, <2>3 DEF NextSet
<1>3. CASE ~Valid(p, k) /\ Exits(p) /\ UNCHANGED sets
  <2>1. pc'[p] = "dead" /\ \A q \in Proc \ {p} : SamePlace(q)
    BY <1>1, <1>3, OthersSame DEF Exits
  <2>2. QED
    BY <1>1, <1>3, <2>1 DEF sets
<1>4. QED
  BY <1>1, <1>2, <1>3 DEF sem_rm

(* A server does not start while somebody is there, nor is it killed.      *)
LEMMA NoStart ==
  ASSUME Clean', NEW q \in Proc, Alive(q), NEW s \in Server
  PROVE  ~Start(s) /\ ~Kill(s)
BY DEF Clean, Start, Kill, Quiet

LEMMA NoCreate ==
  ASSUME Sound, NobodyCreates, NEW s \in Server
  PROVE  ~sem_create(s)
<1>1. Program(s) \in Proc
  BY Kinds
<1>2. QED
  BY <1>1 DEF NobodyCreates, sem_create, semget, op_lock, getval, setval, op_endcreate,
              Creating

LEMMA GoneStep ==
  ASSUME Sound, Places', Gone, [Next]_vars, Clean'
  PROVE  Gone' \/ \E s \in Server : Making(Program(s))'
<1>1. CASE Plain
  BY <1>1 DEF Gone, NobodyCreates, Plain, Quietly, SamePlace
<1>2. ASSUME NEW s \in Server, Start(s) PROVE Making(Program(s))'
  <2>1. PICK p \in Proc : p = Program(s) /\ Mine(p) = Key
    BY Kinds
  <2>2. pc[p] = "none" /\ Goto(p, "get") /\ UNCHANGED left /\ UNCHANGED handle /\ id' = id
    BY <1>2, <2>1 DEF Start, sets
  <2>3. pc'[p] = "get" /\ \A q \in Proc \ {p} : SamePlace(q)
    BY <2>2, OthersSame
  <2>4. \A q \in Proc : ~Alive(q)
    BY <1>2 DEF Clean, Start, Quiet
  <2>5. \A q \in Proc \ {p} : ~Alive(q)'
    BY <2>3, <2>4 DEF Alive, SamePlace
  <2>6. left'[p] = Key
    BY <2>1, <2>2 DEF Sound, Places
  <2>7. PICK k \in Key : k = Turn(p)'
    BY TurnInNext
  <2>8. \A j \in Key : id'[j] = 0
    BY <2>2 DEF Gone
  <2>9. Making(p)'
    BY <2>3, <2>5, <2>6, <2>7, <2>8 DEF Making, Creating
  <2>10. QED
    BY <2>1, <2>9
<1>3. \A s \in Server : ~sem_create(s) /\ ~Kill(s)
  BY NoCreate DEF Gone, Clean, Kill
<1>4. ASSUME NEW p \in Proc, INT_handler(p) PROVE Gone'
  <2>1. PICK k \in Key : k = Turn(p)
    BY TurnIn DEF Sound
  <2>2. ~Valid(p, k)
    BY DEF Gone, Valid
  <2>3. id' = id /\ pc'[p] = "dead" /\ \A q \in Proc \ {p} : SamePlace(q)
    BY <1>4, <2>1, <2>2, HandlerMove
  <2>4. QED
    BY <2>3 DEF Gone, NobodyCreates, SamePlace, Creating
<1>5. ASSUME NEW p \in Proc PROVE ~Removing(p)
  BY TurnIn DEF Removing, Sound, Gone, Valid
<1>6. QED
  BY <1>1, <1>2, <1>3, <1>4, <1>5, StepKinds

(* sem_create goes on undisturbed: the sets it has not come to are not     *)
(* there, and nobody else is.                                              *)
LEMMA MakingCreate ==
  ASSUME Sound, Places', NEW s \in Server, NEW p \in Proc, p = Program(s), Making(p),
         sem_create(s)
  PROVE  Making(p)' \/ Whole(p)'
<1>1. PICK k \in Key : k = Turn(p) /\ k \in left[p]
  BY TurnIn DEF Sound
<1>2. /\ semget(p, k) \/ op_lock(p, k) \/ getval(p, k) \/ setval(p, k) \/ op_endcreate(p, k)
      /\ \A q \in Proc \ {p} : SamePlace(q)
  BY <1>1, CreateMove DEF sem_create
<1>3. \A q \in Proc \ {p} : ~Alive(q)'
  BY <1>2 DEF Making, Alive, SamePlace
<1>4. /\ \A j \in Key \ left[p] : Valid(p, j)
      /\ \A j \in left[p] \ {k} : id[j] = 0
      /\ pc[p] = "get" => id[k] = 0
      /\ pc[p] # "get" => Valid(p, k)
  BY <1>1 DEF Making
<1>5. CASE semget(p, k)
  <2>1. /\ id' = [id EXCEPT ![k] = next] /\ handle' = [handle EXCEPT ![p][k] = next]
        /\ Goto(p, "lock") /\ UNCHANGED left
    BY <1>4, <1>5 DEF semget
  <2>2. pc'[p] = "lock" /\ left'[p] = left[p]
    BY <2>1 DEF Goto, Sound, Places
  <2>3. Turn(p)' = k
    BY <1>1, <1>5, <2>2 DEF Turn, semget
  <2>4. id'[k] = next /\ \A j \in Key \ {k} : id'[j] = id[j]
    BY <2>1 DEF Sound, Ids
  <2>5. handle'[p][k] = next /\ \A j \in Key \ {k} : handle'[p][j] = handle[p][j]
    BY <2>1 DEF Sound, Ids
  <2>6. Valid(p, k)' /\ \A j \in Key \ left[p] : Valid(p, j)'
    <3>1. next # 0
      BY DEF Sound, Ids
    <3>2. QED
      BY <1>1, <1>4, <2>4, <2>5, <3>1 DEF Valid
  <2>7. \A j \in left[p] \ {k} : id'[j] = 0
    BY <1>4, <2>4 DEF Sound, Places
  <2>8. Making(p)'
    BY <1>3, <2>2, <2>3, <2>6, <2>7 DEF Making, Creating
  <2>9. QED
    BY <2>8
<1>6. CASE op_lock(p, k) \/ getval(p, k) \/ setval(p, k)
  <2>1. /\ pc[p] \in Creating \ {"get"} /\ UNCHANGED left /\ UNCHANGED handle /\ id' = id
        /\ Valid(p, k)
    BY <1>4, <1>6 DEF op_lock, getval, setval, sets, Creating
  <2>2. PICK l \in Creating \ {"get"} : Goto(p, l)
    BY <1>6, <2>1 DEF op_lock, getval, setval, Creating
  <2>3. pc'[p] = l /\ left'[p] = left[p]
    BY <2>1, <2>2 DEF Goto, Sound, Places
  <2>4. Turn(p)' = k
    BY <1>1, <2>1, <2>3 DEF Turn, Creating
  <2>5. \A j \in Key : Valid(p, j)' = Valid(p, j)
    BY <2>1 DEF Valid
  <2>6. Making(p)'
    BY <1>3, <1>4, <2>1, <2>3, <2>4, <2>5 DEF Making, Sound, Places
  <2>7. QED
    BY <2>6
<1>7. CASE op_endcreate(p, k)
  <2>1. UNCHANGED handle /\ id' = id /\ Valid(p, k) /\ NextSet(p, "get", "fork")
    BY <1>4, <1>7 DEF op_endcreate, sets
  <2>2. \A j \in Key : Valid(p, j)' = Valid(p, j)
    BY <2>1 DEF Valid
  <2>3. CASE Goto(p, "get") /\ left' = [left EXCEPT ![p] = @ \ {k}]
    <3>1. pc'[p] = "get" /\ left'[p] = left[p] \ {k}
      BY <2>3 DEF Goto, Sound, Places
    <3>2. PICK j \in Key : j = Turn(p)' /\ j \in left'[p]
      BY TurnInNext
    <3>3. \A i \in left'[p] : id'[i] = 0
      BY <1>4, <2>1, <3>1
    <3>4. \A i \in Key \ left'[p] : Valid(p, i)'
      BY <1>4, <2>1, <2>2, <3>1
    <3>5. Making(p)'
      BY <1>3, <3>1, <3>2, <3>3, <3>4 DEF Making, Creating
    <3>6. QED
      BY <3>5
  <2>4. CASE left[p] = {k} /\ Goto(p, "fork")
    <3>1. pc'[p] = "fork"
      BY <2>4 DEF Goto, Sound, Places
    <3>2. \A j \in Key : Valid(p, j)'
      BY <1>4, <2>1, <2>2, <2>4
    <3>3. \A q \in Proc : q # p => pc'[q] \in {"none", "dead"}
      BY <1>3 DEF Alive
    <3>4. Whole(p)'
      BY <1>3, <3>1, <3>2, <3>3 DEF Whole, NobodyCreates, Creating
    <3>5. QED
      BY <3>4
  <2>5. QED
    BY <1>1, <2>1, <2>3, <2>4 DEF NextSet
<1>8. QED
  BY <1>2, <1>5, <1>6, <1>7

LEMMA MakingStep ==
  ASSUME Sound, Places', NEW s \in Server, Making(Program(s)), [Next]_vars, Clean'
  PROVE  Making(Program(s))' \/ Whole(Program(s))'
<1>1. PICK p \in Proc : p = Program(s)
  BY Kinds
<1>2. Making(p) /\ Alive(p) /\ pc[p] \in Creating /\ \A q \in Proc \ {p} : ~Alive(q)
  BY <1>1 DEF Making, Alive, Creating
<1>3. CASE Plain
  <2>1. SamePlace(p) /\ Turn(p)' = Turn(p) /\ id' = id
    BY <1>2, <1>3, PlaceSame DEF Plain, Quietly
  <2>2. \A t \in Server : pc[Program(t)] # "up"
    BY <1>2, Kinds DEF Alive, Creating
  <2>3. \A q \in Proc \ {p} : ~Alive(q)'
    BY <1>2, <1>3, <2>2 DEF Plain, Quietly
  <2>4. \A j : Valid(p, j)' = Valid(p, j)
    BY <2>1 DEF Valid, SamePlace
  <2>5. Making(p)'
    BY <1>2, <2>1, <2>3, <2>4 DEF Making, SamePlace
  <2>6. QED
    BY <1>1, <2>5
<1>4. ASSUME NEW t \in Server, Start(t) \/ sem_create(t) \/ Kill(t)
      PROVE  Making(p)' \/ Whole(p)'
  <2>1. sem_create(t)
    BY <1>2, <1>4, NoStart
  <2>2. Program(t) \in Proc /\ pc[Program(t)] \in Creating
    BY <2>1, Kinds DEF sem_create, semget, op_lock, getval, setval, op_endcreate, Creating
  <2>3. Program(t) = p
    BY <1>2, <2>2 DEF Alive, Creating
  <2>4. QED
    BY <1>2, <2>1, <2>3, MakingCreate
<1>5. ASSUME NEW q \in Proc PROVE ~INT_handler(q) /\ ~Removing(q)
  BY <1>2 DEF INT_handler, Removing, Alive, Creating
<1>6. QED
  BY <1>1, <1>3, <1>4, <1>5, StepKinds
LEMMA RemoverAlone ==
  ASSUME Sound, NEW q \in Proc, CloseRest(q), Removing(q), Clean', NEW p \in Proc
  PROVE  pc[p] # "remove"
BY DEF CloseRest, Removing, Clean

(* All sets are there.  One of those who run INT_handler begins with       *)
(* clisem, or misses it.                                                   *)
LEMMA WholePlain ==
  ASSUME Sound, NEW p \in Proc, Mine(p) = Key, Whole(p), Plain, Clean'
  PROVE  Whole(p)'
<1>1. id' = id /\ handle'[p] = handle[p] /\ \A k \in Key : Valid(p, k)
  BY DEF Whole, Plain, Quietly
<1>2. pc[p] = "remove" => SamePlace(p)
  BY DEF Plain, Quietly, Clean
<1>3. pc'[p] \in {"fork", "bind", "up", "remove"}
  BY <1>2 DEF Whole, Plain, Quietly, Clean, SamePlace
<1>4. NobodyCreates'
  BY DEF Whole, Plain, Quietly, NobodyCreates, SamePlace
<1>5. ASSUME NEW q \in Proc, NEW k \in Key, Alive(q)'
      PROVE  handle'[q][k] = 0 \/ Valid(q, k)'
  <2>1. CASE handle'[q][k] = handle[q][k] /\ Alive(q)
    BY <1>1, <2>1 DEF Whole, Valid
  <2>2. CASE handle'[q][k] \in {0, id[k]}
    BY <1>1, <2>2 DEF Valid
  <2>3. ASSUME NEW s \in Server, pc[Program(s)] = "up",
               handle'[q][k] = handle[Program(s)][k]
        PROVE  handle'[q][k] = 0 \/ Valid(q, k)'
    <3>1. Program(s) \in Proc /\ Alive(Program(s))
      BY <2>3, Kinds DEF Alive
    <3>2. QED
      BY <1>1, <2>3, <3>1 DEF Whole, Valid
  <2>4. QED
    BY <1>5, <2>1, <2>2, <2>3 DEF Plain, Quietly
<1>6. \A q \in Proc : pc'[q] = "remove" => left'[q] = Key
  BY DEF Whole, Plain, Quietly, SamePlace
<1>7. ASSUME pc'[p] # "remove", NEW q \in Proc, pc'[q] = "close_rm"
      PROVE  ~Valid(q, Turn(q))'
  <2>1. pc[p] \in {"fork", "bind", "up"}
    BY <1>2, <1>7 DEF Whole, SamePlace
  <2>2. \A k \in Key : p \in refs[k]
    BY <1>1, <2>1 DEF Has, Sound, AllPairs, PairOk
  <2>3. SamePlace(q)
    BY <1>7, <2>2 DEF Plain, Quietly
  <2>4. pc[q] = "close_rm" /\ Turn(q)' = Turn(q) /\ handle'[q] = handle[q]
    BY <1>7, <2>3, PlaceSame DEF SamePlace
  <2>5. ~Valid(q, Turn(q))
    BY <2>1, <2>4 DEF Whole
  <2>6. QED
    BY <1>1, <2>4, <2>5 DEF Valid
<1>8. \A k \in Key : Valid(p, k)'
  BY <1>1 DEF Valid
<1>9. QED
  BY <1>3, <1>4, <1>5, <1>6, <1>7, <1>8 DEF Whole

LEMMA WholeHandler ==
  ASSUME Sound, NEW p \in Proc, Whole(p), NEW q \in Proc, INT_handler(q), Clean'
  PROVE  Whole(p)' \/ Leading(q)'
<1>1. "clisem" \in Key /\ "clienting" \in Key
  BY SemSetsAssumption
<1>2. pc[q] = "remove" /\ left[q] = Key /\ Alive(q)
  BY DEF INT_handler, Whole, Alive
<1>3. PICK k \in Key : k = Turn(q) /\ k = "clisem"
  BY <1>1, <1>2, TurnIn DEF Sound
<1>4. /\ handle' = handle /\ \A r \in Proc \ {q} : SamePlace(r)
      /\ \/ /\ Valid(q, k) /\ id'[k] = 0 /\ \A j \in Key \ {k} : id'[j] = id[j]
            /\ pc'[q] = "remove" /\ left'[q] = Key \ {k}
            /\ (\E j \in Key : handle[q][j] = 0) => "halfway" \in mishaps'
         \/ ~Valid(q, k) /\ id' = id /\ pc'[q] = "dead"
  <2>1. left[q] # {k} /\ k \in Key
    BY <1>1, <1>2, <1>3
  <2>2. /\ handle' = handle /\ \A r \in Proc \ {q} : SamePlace(r)
        /\ \/ /\ Valid(q, k) /\ id'[k] = 0 /\ \A j \in Key \ {k} : id'[j] = id[j]
              /\ \/ left[q] # {k} /\ pc'[q] = "remove" /\ left'[q] = left[q] \ {k}
                 \/ left[q] = {k} /\ pc'[q] = "dead"
              /\ (\E j \in Key : handle[q][j] = 0) => "halfway" \in mishaps'
           \/ ~Valid(q, k) /\ id' = id /\ pc'[q] = "dead"
    BY <1>3, <2>1, HandlerMove
  <2>3. left[q] \ {k} = Key \ {k}
    BY <1>2
  <2>4. QED
    BY <2>1, <2>2, <2>3, Zenon
<1>5. CASE Valid(q, k) /\ pc'[q] = "remove"
  <2>1. \A j \in Key : handle[q][j] # 0
    BY <1>4, <1>5 DEF Clean
  <2>2. \A j \in Key : Valid(q, j)
    BY <1>2, <2>1 DEF Whole
  <2>3. \A j \in Key \ {k} : Valid(q, j)'
    BY <1>4, <1>5, <2>2 DEF Valid
  <2>4. \A r \in Proc \ {q} : pc'[r] = "remove" => left'[r] = Key
    BY <1>4 DEF Whole, SamePlace
  <2>5. NobodyCreates'
    BY <1>4, <1>5 DEF Whole, NobodyCreates, SamePlace, Creating
  <2>6. /\ pc'[q] = "remove" /\ "clisem" \notin left'[q] /\ id'[k] = 0
        /\ left'[q] = Key \ {k}
    BY <1>3, <1>4, <1>5
  <2>7. (\A j \in left'[q] : Valid(q, j)') /\ \A j \in Key \ left'[q] : id'[j] = 0
    BY <2>3, <2>6
  <2>8. Leading(q)'
    BY <2>4, <2>5, <2>6, <2>7 DEF Leading
  <2>9. QED
    BY <2>8
<1>6. CASE ~Valid(q, k) /\ id' = id /\ pc'[q] = "dead"
  <2>1. q # p
    BY <1>6 DEF Whole
  <2>2. SamePlace(p) /\ \A j : \A r : Valid(r, j)' = Valid(r, j)
    BY <1>4, <1>6, <2>1 DEF Valid
  <2>3. ASSUME NEW r \in Proc, Alive(r)' PROVE Alive(r)
    BY <1>2, <1>4, <2>3 DEF Alive, SamePlace
  <2>4. ASSUME NEW r \in Proc, pc'[r] = "close_rm"
        PROVE  pc[r] = "close_rm" /\ Turn(r)' = Turn(r)
    BY <1>4, <1>6, <2>4, PlaceSame DEF SamePlace
  <2>5. NobodyCreates' /\ \A r \in Proc : pc'[r] = "remove" => left'[r] = Key
    BY <1>4, <1>6 DEF Whole, NobodyCreates, SamePlace, Creating
  <2>6. pc'[p] = pc[p] /\ \A r \in Proc, j \in Key : Alive(r)' => \/ handle'[r][j] = 0
                                                               \/ Valid(r, j)'
    BY <1>4, <2>2, <2>3 DEF Whole, SamePlace
  <2>7. \A j \in Key : Valid(p, j)'
    BY <2>2 DEF Whole
  <2>8. pc'[p] # "remove" => \A r \in Proc : pc'[r] = "close_rm" => ~Valid(r, Turn(r))'
    BY <2>2, <2>4, <2>6 DEF Whole
  <2>9. Whole(p)'
    BY <2>5, <2>6, <2>7, <2>8 DEF Whole
  <2>10. QED
    BY <2>9
<1>7. QED
  BY <1>4, <1>5, <1>6

LEMMA WholeStep ==
  ASSUME Sound, NEW s \in Server, Whole(Program(s)), [Next]_vars, Clean'
  PROVE  Whole(Program(s))' \/ \E p \in Proc : Leading(p)'
<1>1. PICK p \in Proc : p = Program(s) /\ Mine(p) = Key
  BY Kinds
<1>2. Whole(p) /\ Alive(p) /\ NobodyCreates
  BY <1>1 DEF Whole, Alive
<1>3. \A t \in Server : ~Start(t) /\ ~Kill(t) /\ ~sem_create(t)
  BY <1>2, NoStart, NoCreate
<1>4. ASSUME NEW q \in Proc, CloseRest(q), Removing(q) PROVE FALSE
  <2>1. pc[p] # "remove"
    BY <1>4, RemoverAlone
  <2>2. QED
    BY <1>2, <1>4, <2>1 DEF Whole, Removing
<1>5. Plain => Whole(p)'
  BY <1>1, <1>2, WholePlain
<1>6. \A q \in Proc : INT_handler(q) => Whole(p)' \/ Leading(q)'
  BY <1>2, WholeHandler
<1>7. QED
  BY <1>1, <1>3, <1>4, <1>5, <1>6, StepKinds

(* One process removes the sets, the others miss clisem.                   *)
LEMMA LeadingStep ==
  ASSUME Sound, NEW p \in Proc, Leading(p), [Next]_vars, Clean'
  PROVE  Leading(p)' \/ Gone'
<1>1. Alive(p) /\ NobodyCreates /\ pc[p] = "remove"
  BY DEF Leading, Alive
<1>2. \A t \in Server : ~Start(t) /\ ~Kill(t) /\ ~sem_create(t)
  BY <1>1, NoStart, NoCreate
<1>3. \A q \in Proc : ~(CloseRest(q) /\ Removing(q))
  BY <1>1, RemoverAlone
<1>4. CASE Plain
  <2>1. SamePlace(p) /\ id' = id
    BY <1>1, <1>4 DEF Plain, Quietly, Clean
  <2>2. \A q \in Proc \ {p} : pc'[q] = "remove" => left'[q] = Key
    BY <1>4 DEF Leading, Plain, Quietly, SamePlace
  <2>3. NobodyCreates'
    BY <1>1, <1>4 DEF Plain, Quietly, NobodyCreates, SamePlace
  <2>4. \A j : Valid(p, j)' = Valid(p, j)
    BY <2>1 DEF Valid, SamePlace
  <2>5. Leading(p)'
    BY <2>1, <2>2, <2>3, <2>4 DEF Leading, SamePlace
  <2>6. QED
    BY <2>5
<1>5. CASE INT_handler(p)
  <2>1. PICK k \in Key : k = Turn(p) /\ k \in left[p]
    BY TurnIn DEF Sound
  <2>2. Valid(p, k)
    BY <2>1 DEF Leading
  <2>3. /\ handle' = handle /\ \A q \in Proc \ {p} : SamePlace(q)
        /\ id'[k] = 0 /\ \A j \in Key \ {k} : id'[j] = id[j]
        /\ \/ pc'[p] = "remove" /\ left'[p] = left[p] \ {k}
           \/ left[p] = {k} /\ pc'[p] = "dead"
    BY <1>5, <2>1, <2>2, HandlerMove
  <2>4. NobodyCreates'
    BY <1>1, <2>3 DEF NobodyCreates, SamePlace, Creating
  <2>5. CASE pc'[p] = "remove" /\ left'[p] = left[p] \ {k}
    <3>1. \A q \in Proc \ {p} : pc'[q] = "remove" => left'[q] = Key
      BY <2>3 DEF Leading, SamePlace
    <3>2. \A j \in left'[p] : Valid(p, j)'
      BY <2>3, <2>5 DEF Leading, Valid, Sound, Places
    <3>3. \A j \in Key \ left'[p] : id'[j] = 0
      BY <2>3, <2>5 DEF Leading
    <3>4. Leading(p)'
      BY <2>4, <2>5, <3>1, <3>2, <3>3 DEF Leading
    <3>5. QED
      BY <3>4
  <2>6. CASE left[p] = {k} /\ pc'[p] = "dead"
    <3>1. \A j \in Key : id'[j] = 0
      BY <2>3, <2>6 DEF Leading
    <3>2. QED
      BY <2>4, <3>1 DEF Gone
  <2>7. QED
    BY <2>3, <2>5, <2>6
<1>6. ASSUME NEW q \in Proc \ {p}, INT_handler(q) PROVE Leading(p)'
  <2>1. "clisem" \in Key
    BY SemSetsAssumption
  <2>2. pc[q] = "remove" /\ left[q] = Key
    BY <1>6 DEF INT_handler, Leading
  <2>3. PICK k \in Key : k = Turn(q) /\ k = "clisem"
    BY <2>1, <2>2, TurnIn DEF Sound
  <2>4. ~Valid(q, k)
    BY <2>3 DEF Leading, Valid
  <2>5. /\ handle' = handle /\ id' = id /\ pc'[q] = "dead"
        /\ \A r \in Proc \ {q} : SamePlace(r)
    BY <1>6, <2>3, <2>4, HandlerMove
  <2>6. NobodyCreates' /\ \A r \in Proc \ {p} : pc'[r] = "remove" => left'[r] = Key
    BY <1>1, <2>5 DEF Leading, NobodyCreates, SamePlace, Creating
  <2>7. SamePlace(p) /\ \A j : Valid(p, j)' = Valid(p, j)
    BY <2>5 DEF Valid
  <2>8. QED
    BY <2>5, <2>6, <2>7 DEF Leading, SamePlace
<1>7. QED
  BY <1>2, <1>3, <1>4, <1>5, <1>6, StepKinds

LEMMA EraStep ==
  ASSUME Sound, Era, [Next]_vars
  PROVE  Era'
<1> SUFFICES ASSUME Clean' PROVE AnEra'
  BY DEF Era
<1>1. AnEra
  BY MishapsStay DEF Era, Clean
<1>2. Places'
  BY SoundStep DEF Sound
<1>3. CASE Gone
  BY <1>2, <1>3, GoneStep DEF AnEra
<1>4. ASSUME NEW s \in Server, Making(Program(s)) PROVE AnEra'
  BY <1>2, <1>4, MakingStep DEF AnEra
<1>5. ASSUME NEW s \in Server, Whole(Program(s)) PROVE AnEra'
  BY <1>5, WholeStep DEF AnEra
<1>6. ASSUME NEW p \in Proc, Leading(p) PROVE AnEra'
  BY <1>6, LeadingStep DEF AnEra
<1>7. QED
  BY <1>1, <1>3, <1>4, <1>5, <1>6 DEF AnEra

LEMMA TheEnd == Sound /\ Served /\ Era => CleanEnd
<1> SUFFICES ASSUME Sound, Served, Era PROVE CleanEnd
  OBVIOUS
<1>1. NothingLeft
  <2> SUFFICES ASSUME Quiet, Clean PROVE \A k \in Key : id[k] = 0
    BY DEF NothingLeft, Clean
  <2>1. AnEra
    BY DEF Era
  <2>2. \A s \in Server : ~Making(Program(s)) /\ ~Whole(Program(s))
    BY Kinds DEF Quiet, Alive, Making, Whole, Creating
  <2>3. \A p \in Proc : ~Leading(p)
    BY DEF Quiet, Alive, Leading
  <2>4. QED
    BY <2>1, <2>2, <2>3 DEF AnEra, Gone
<1>2. NoOrphan
  BY DEF NoOrphan, Served, Alive
<1>3. QED
  BY <1>1, <1>2 DEF CleanEnd

(* The end of a server: after Ctrl-C, whichever process handles it first   *)
(* and whatever the others are doing, its sets and its system process are  *)
(* gone (np_multi_proc.cpp:38-53, 104, 156, 247, 281, shm.cpp:73-80).      *)
THEOREM ServersEndCleanly == Spec => []CleanEnd
<1>1. Init => Sound /\ Served /\ Era
  <2>1. ASSUME Init PROVE Served /\ Gone
    BY <2>1 DEF Init, Served, Gone, NobodyCreates, Creating
  <2>2. QED
    BY <2>1, InitSound DEF Era, AnEra
<1>2. Sound /\ Served /\ Era /\ [Next]_vars => (Sound /\ Served /\ Era)'
  BY SoundStep, ServedStep, EraStep
<1>3. QED
  BY <1>1, <1>2, TheEnd, PTL DEF Spec
=============================================================================

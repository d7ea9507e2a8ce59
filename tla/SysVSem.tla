------------------------------ MODULE SysVSem ------------------------------
(***************************************************************************)
(* The System V semaphore sets that np_multi_proc synchronises on, as far  *)
(* as the wrappers of shm.cpp use them.  A set s has three semaphores:     *)
(*   val[s]   semaphore [0], the one sem_wait and sem_signal work on;      *)
(*   cnt[s]   semaphore [1], BIGCOUNT less the processes that opened s;    *)
(*   lock[s]  semaphore [2], the lock around closing s.                    *)
(*                                                                         *)
(* Every operation of the program carries SEM_UNDO, so the kernel keeps    *)
(* for each process the adjustment it will apply when the process ends:    *)
(* undoVal, undoCnt, undoLock, one number per set.                         *)
(*                                                                         *)
(* A sem_wait on a semaphore that is 0 puts its caller to sleep            *)
(* (asleep[s]).  The kernel completes the operation on the sleeper's       *)
(* behalf inside the call that makes the semaphore positive, so a value    *)
(* left for a sleeper is never visible to anybody else.  Which sleeper is  *)
(* served first is left open.                                              *)
(***************************************************************************)
EXTENDS Integers, FiniteSets

CONSTANT BIGCOUNT    (* what sem_create puts into semaphore [1] *)

ASSUME BigCountAssumption == BIGCOUNT \in Nat \ {0}

VARIABLES val, cnt, lock, undoVal, undoCnt, undoLock, asleep

valVars == <<val, undoVal, asleep>>
cntVars == <<cnt, undoCnt, lock, undoLock>>
semVars == <<valVars, cntVars>>

(* sem_create was called once for every set, by the server process, which  *)
(* keeps its reference: its own decrement of [1] stays in force.           *)
Base == BIGCOUNT - 1

Awake(p) == \A s \in DOMAIN asleep : p \notin asleep[s]

sem_wait(p, s) ==
  /\ \/ /\ val[s] > 0
        /\ val' = [val EXCEPT ![s] = @ - 1]
        /\ undoVal' = [undoVal EXCEPT ![p][s] = @ + 1]
        /\ UNCHANGED asleep
     \/ /\ val[s] = 0
        /\ asleep' = [asleep EXCEPT ![s] = @ \union {p}]
        /\ UNCHANGED <<val, undoVal>>
  /\ UNCHANGED cntVars

(* Mutants of the code, used by no action, are named Not_<definition>.     *)
(* This one has no SEM_UNDO in op_op.                                      *)
Not_sem_signal(p, s) ==
  /\ \/ /\ asleep[s] = {}
        /\ val' = [val EXCEPT ![s] = @ + 1]
        /\ UNCHANGED <<asleep, undoVal>>
     \/ \E q \in asleep[s] :
        /\ asleep' = [asleep EXCEPT ![s] = @ \ {q}]
        /\ undoVal' = [undoVal EXCEPT ![q][s] = @ + 1]
        /\ UNCHANGED val
  /\ UNCHANGED cntVars

sem_signal(p, s) ==
  /\ \/ /\ asleep[s] = {}
        /\ val' = [val EXCEPT ![s] = @ + 1]
        /\ undoVal' = [undoVal EXCEPT ![p][s] = @ - 1]
        /\ UNCHANGED asleep
     \/ \E q \in asleep[s] :
        /\ asleep' = [asleep EXCEPT ![s] = @ \ {q}]
        /\ undoVal' = [undoVal EXCEPT ![p][s] = @ - 1, ![q][s] = @ + 1]
        /\ UNCHANGED val
  /\ UNCHANGED cntVars

(* Mutant: no SEM_UNDO in op_open.                                         *)
Not_sem_open(p, S) ==
  /\ \A s \in S : cnt[s] > 0
  /\ cnt' = [s \in DOMAIN cnt |-> IF s \in S THEN cnt[s] - 1 ELSE cnt[s]]
  /\ UNCHANGED <<undoCnt, lock, undoLock, valVars>>

(* sem_open of every set in S.  It takes no lock.                          *)
sem_open(p, S) ==
  /\ \A s \in S : cnt[s] > 0
  /\ cnt' = [s \in DOMAIN cnt |-> IF s \in S THEN cnt[s] - 1 ELSE cnt[s]]
  /\ undoCnt' = [undoCnt EXCEPT ![p] =
                   [s \in DOMAIN @ |-> IF s \in S THEN @[s] + 1 ELSE @[s]]]
  /\ UNCHANGED <<lock, undoLock, valVars>>

(* The semop on op_close: wait for the lock, take it, give the reference   *)
(* back.                                                                   *)
op_close(p, s) ==
  /\ lock[s] = 0
  /\ lock' = [lock EXCEPT ![s] = 1]
  /\ undoLock' = [undoLock EXCEPT ![p][s] = @ - 1]
  /\ cnt' = [cnt EXCEPT ![s] = @ + 1]
  /\ undoCnt' = [undoCnt EXCEPT ![p][s] = @ - 1]
  /\ UNCHANGED valVars

(* Mutant: no SEM_UNDO in op_unlock.                                       *)
Not_op_unlock(p, s) ==
  /\ lock' = [lock EXCEPT ![s] = @ - 1]
  /\ UNCHANGED <<undoLock, cnt, undoCnt, valVars>>

(* The semop on op_unlock.                                                 *)
op_unlock(p, s) ==
  /\ lock' = [lock EXCEPT ![s] = @ - 1]
  /\ undoLock' = [undoLock EXCEPT ![p][s] = @ + 1]
  /\ UNCHANGED <<cnt, undoCnt, valVars>>

(* sem_close of every set in S, lock and unlock included.  The server      *)
(* keeps its own reference, so semaphore [1] stays below BIGCOUNT and the  *)
(* call unlocks the set; it never gets to sem_rm.                          *)
sem_close(p, S) ==
  /\ \A s \in S : lock[s] = 0
  /\ cnt' = [s \in DOMAIN cnt |-> IF s \in S THEN cnt[s] + 1 ELSE cnt[s]]
  /\ undoCnt' = [undoCnt EXCEPT ![p] =
                   [s \in DOMAIN @ |-> IF s \in S THEN @[s] - 1 ELSE @[s]]]
  /\ UNCHANGED <<lock, undoLock, valVars>>

(* p no longer sleeps and its operation is not done: p was killed, or a    *)
(* signal handler ran in it and semop returned EINTR.                      *)
Dequeue(p) ==
  /\ asleep' = [s \in DOMAIN asleep |-> asleep[s] \ {p}]
  /\ UNCHANGED <<val, undoVal, cntVars>>

Owes(p, s) == undoVal[p][s] # 0 \/ undoCnt[p][s] # 0 \/ undoLock[p][s] # 0

Settled(p) == \A s \in DOMAIN val : ~Owes(p, s)

(* The kernel applies the adjustments of the ended process p to set s.     *)
(* Semaphore [0] does not go below 0: what is missing is forgotten.  What  *)
(* is left after serving sleepers stays on the semaphore.                  *)
Undo(p, s) ==
  LET sum == val[s] + undoVal[p][s]
      n   == IF sum > 0 THEN sum ELSE 0
  IN  \E woken \in SUBSET asleep[s] :
      /\ Cardinality(woken) <= n
      /\ woken # asleep[s] => Cardinality(woken) = n
      /\ val' = [val EXCEPT ![s] = n - Cardinality(woken)]
      /\ asleep' = [asleep EXCEPT ![s] = @ \ woken]
      /\ undoVal' = [q \in DOMAIN undoVal |->
                       IF q = p THEN [undoVal[q] EXCEPT ![s] = 0]
                       ELSE IF q \in woken THEN [undoVal[q] EXCEPT ![s] = @ + 1]
                       ELSE undoVal[q]]
      /\ cnt' = [cnt EXCEPT ![s] = @ + undoCnt[p][s]]
      /\ undoCnt' = [undoCnt EXCEPT ![p][s] = 0]
      /\ lock' = [lock EXCEPT ![s] = @ + undoLock[p][s]]
      /\ undoLock' = [undoLock EXCEPT ![p][s] = 0]
=============================================================================

-------------------------- MODULE UserTableProofs --------------------------
(***************************************************************************)
(* Proofs about UserTable, for any number of clients, slots, names and     *)
(* pipes: its invariants hold in every reachable state, and it implements  *)
(* Directory.                                                              *)
(*                                                                         *)
(* Good collects the facts that carry each other.  It is a predicate of a  *)
(* table T, because every action works on the table that find_user and     *)
(* insert_user leave, Looked(a), and not on user_data itself: one lemma    *)
(* shows that Looked(a) is Good whenever user_data is, and the actions     *)
(* start from there.                                                       *)
(***************************************************************************)
EXTENDS UserTable, WellFoundedInduction, TLAPS

SlotType == [valid : BOOLEAN, name : Name \union {NoName, Nobody},
             addr : Addr \union {Nobody}, box : [Slot -> Pipe]]

(* n is the last number given to a user pipe, M the pipes made and K the   *)
(* pipes taken.                                                            *)
Typed(T, n, M, K) ==
  /\ T \in [Slot -> SlotType]
  /\ n \in Nat
  /\ M \subseteq Nat \X Addr \X Addr
  /\ K \subseteq M
  /\ \A m \in M : m[1] <= n

Addressed(T) == \A i \in Slot : T[i].valid => T[i].addr \in Addr

OneSlotEach(T) ==
  \A i, j \in Slot : T[i].valid /\ T[j].valid /\ T[i].addr = T[j].addr => i = j

OneNameEach(T) ==
  \A i, j \in Slot :
    T[i].valid /\ T[j].valid /\ T[i].name = T[j].name => i = j \/ T[i].name = NoName

Ends(T, M) ==
  \A i, j \in Slot : T[i].box[j].valid =>
    /\ T[i].valid /\ T[j].valid
    /\ <<T[i].box[j].count, T[i].addr, T[j].addr>> \in M

Numbers(T, K) ==
  /\ \A i, j, k, l \in Slot :
       /\ T[i].box[j].valid /\ T[k].box[l].valid
       /\ T[i].box[j].count = T[k].box[l].count
       => i = k /\ j = l
  /\ \A i, j \in Slot : T[i].box[j].valid => \A t \in K : t[1] # T[i].box[j].count

Good(T, n, M, K) ==
  /\ Typed(T, n, M, K)
  /\ Addressed(T)
  /\ OneSlotEach(T)
  /\ OneNameEach(T)
  /\ Ends(T, M)
  /\ Numbers(T, K)

(* The inductive invariant.                                                *)
IInv ==
  /\ Good(user_data, user_pipe_count, made, taken)
  /\ online \subseteq Addr

-----------------------------------------------------------------------------
(* A nonempty set of natural numbers has a minimum.                        *)
LEMMA MinIn ==
  ASSUME NEW S, S \subseteq Nat, S # {}
  PROVE  Min(S) \in S
<1>1. \E x \in S : \A y \in S : <<y, x>> \notin OpToRel(<, Nat)
  BY NatLessThanWellFounded, WFMin
<1>2. \E x \in S : \A y \in S : x <= y
  <2>1. PICK x \in S : \A y \in S : <<y, x>> \notin OpToRel(<, Nat)
    BY <1>1
  <2>2. \A y \in S : ~(y < x)
    BY <2>1 DEF OpToRel
  <2>3. QED
    BY <2>2
<1>3. QED
  BY <1>2 DEF Min

(* The slot a request works on: the user's own, or a free one.             *)
LEMMA IdOfFacts ==
  ASSUME NEW a \in Addr, HasRoom(a)
  PROVE  /\ IdOf(a) \in Slot
         /\ Known(a) => user_data[IdOf(a)].valid /\ user_data[IdOf(a)].addr = a
         /\ ~Known(a) => ~user_data[IdOf(a)].valid
<1>1. Slot \subseteq Nat /\ Valid \subseteq Slot /\ Holders(a) \subseteq Valid
  BY UserTableAssumption DEF Slot, Valid, Holders
<1>2. CASE Known(a)
  <2>1. Min(Holders(a)) \in Holders(a)
    BY <1>1, <1>2, MinIn DEF Known
  <2>2. QED
    BY <2>1, <1>1, <1>2 DEF IdOf, Holders, Valid
<1>3. CASE ~Known(a)
  <2>1. Min(Slot \ Valid) \in Slot \ Valid
    BY <1>1, <1>3, MinIn DEF HasRoom
  <2>2. QED
    BY <2>1, <1>3 DEF IdOf, Valid
<1>4. QED
  BY <1>2, <1>3

(* find_user and insert_user keep the table good and leave the user of a   *)
(* in slot IdOf(a).                                                        *)
LEMMA LookedGood ==
  ASSUME IInv, NEW a \in Addr, HasRoom(a)
  PROVE  /\ Good(Looked(a), user_pipe_count, made, taken)
         /\ Looked(a)[IdOf(a)].valid
         /\ Looked(a)[IdOf(a)].addr = a
<1> DEFINE id == IdOf(a)
<1>1. id \in Slot
  BY IdOfFacts
<1>2. CASE Known(a)
  BY <1>2, IdOfFacts DEF Looked, IInv
<1>3. CASE ~Known(a)
  <2> DEFINE T == Looked(a)
  <2>1. T = [user_data EXCEPT ![id] = build_user(a)] /\ user_data \in [Slot -> SlotType]
    BY <1>3 DEF Looked, IInv, Good, Typed
  <2>2. /\ \A i \in Slot \ {id} : T[i] = user_data[i]
        /\ T[id].valid = TRUE /\ T[id].name = NoName /\ T[id].addr = a
        /\ \A j \in Slot : T[id].box[j] = NoPipe
        /\ build_user(a) \in SlotType
    BY <2>1, <1>1 DEF build_user, NoPipe, SlotType, Pipe
  <2>3. ~user_data[id].valid
    BY <1>3, IdOfFacts
  <2>4. \A i \in Slot : user_data[i].valid => user_data[i].addr # a
    BY <1>3 DEF Known, Holders, Valid
  <2>5. Typed(T, user_pipe_count, made, taken)
    BY <2>1, <2>2, <1>1 DEF IInv, Good, Typed
  <2>6. Addressed(T)
    BY <2>2, <1>1 DEF IInv, Good, Addressed
  <2>7. OneSlotEach(T)
    BY <2>2, <2>4, <1>1 DEF IInv, Good, OneSlotEach
  <2>8. OneNameEach(T)
    BY <2>2, <1>1 DEF IInv, Good, OneNameEach
  <2>9. \A i, j \in Slot : T[i].box[j].valid =>
          /\ i # id /\ j # id
          /\ T[i] = user_data[i] /\ T[j] = user_data[j]
    <3> SUFFICES ASSUME NEW i \in Slot, NEW j \in Slot, T[i].box[j].valid
                 PROVE  i # id /\ j # id /\ T[i] = user_data[i] /\ T[j] = user_data[j]
      OBVIOUS
    <3>1. i # id
      BY <2>2 DEF NoPipe
    <3>2. user_data[i].box[j].valid
      BY <2>2, <3>1
    <3>3. j # id
      BY <2>3, <3>2, <1>1 DEF IInv, Good, Ends
    <3>4. QED
      BY <2>2, <3>1, <3>3
  <2>10. Ends(T, made)
    BY <2>9 DEF IInv, Good, Ends
  <2>11. Numbers(T, taken)
    BY <2>9 DEF IInv, Good, Numbers
  <2>12. QED
    BY <2>2, <2>5, <2>6, <2>7, <2>8, <2>10, <2>11 DEF Good
<1>4. QED
  BY <1>2, <1>3

-----------------------------------------------------------------------------
(* The changes the actions make to a good table keep it good.              *)

(* name: a name nobody has.                                                *)
LEMMA RenameGood ==
  ASSUME NEW T, NEW n, NEW M, NEW K, Good(T, n, M, K),
         NEW id \in Slot, NEW x \in Name,
         \A i \in Slot : T[i].valid => T[i].name # x
  PROVE  Good([T EXCEPT ![id].name = x], n, M, K)
<1> DEFINE U == [T EXCEPT ![id].name = x]
<1>1. T \in [Slot -> SlotType]
  BY DEF Good, Typed
<1>2. /\ U \in [Slot -> SlotType]
      /\ \A i \in Slot : /\ U[i].valid = T[i].valid /\ U[i].addr = T[i].addr
                         /\ U[i].box = T[i].box
                         /\ U[i].name = IF i = id THEN x ELSE T[i].name
  BY <1>1 DEF SlotType
<1>3. Typed(U, n, M, K) /\ Addressed(U) /\ OneSlotEach(U)
  BY <1>2 DEF Good, Typed, Addressed, OneSlotEach
<1>4. OneNameEach(U)
  BY <1>2 DEF Good, OneNameEach
<1>5. Ends(U, M)
  BY <1>2 DEF Good, Ends
<1>6. Numbers(U, K)
  BY <1>2 DEF Good, Numbers
<1>7. QED
  BY <1>3, <1>4, <1>5, <1>6 DEF Good

(* left: a slot becomes free and the pipes at it end.                      *)
LEMMA LeaveGood ==
  ASSUME NEW T, NEW U, NEW n, NEW M, NEW K, Good(T, n, M, K), NEW id \in Slot,
         U \in [Slot -> SlotType],
         \A i \in Slot : /\ U[i].valid <=> T[i].valid /\ i # id
                         /\ U[i].addr = T[i].addr /\ U[i].name = T[i].name,
         \A i, j \in Slot : /\ U[i].box[j].valid <=> T[i].box[j].valid /\ i # id /\ j # id
                            /\ U[i].box[j].count = T[i].box[j].count
  PROVE  Good(U, n, M, K)
<1>1. Typed(U, n, M, K) /\ Addressed(U) /\ OneSlotEach(U)
  BY DEF Good, Typed, Addressed, OneSlotEach
<1>2. OneNameEach(U)
  BY DEF Good, OneNameEach
<1>3. Ends(U, M)
  BY DEF Good, Ends
<1>4. Numbers(U, K)
  BY DEF Good, Numbers
<1>5. QED
  BY <1>1, <1>2, <1>3, <1>4 DEF Good

(* >r: a new pipe with a new number between two users.                     *)
LEMMA SendGood ==
  ASSUME NEW T, NEW n, NEW M, NEW K, Good(T, n, M, K),
         NEW id \in Slot, NEW r \in Slot, T[id].valid, T[r].valid
  PROVE  Good([T EXCEPT ![id].box[r] = [valid |-> TRUE, count |-> n + 1]], n + 1,
              M \union {<<n + 1, T[id].addr, T[r].addr>>}, K)
<1> DEFINE U == [T EXCEPT ![id].box[r] = [valid |-> TRUE, count |-> n + 1]]
           N == M \union {<<n + 1, T[id].addr, T[r].addr>>}
<1>1. T \in [Slot -> SlotType] /\ n \in Nat
  BY DEF Good, Typed
<1>2. /\ U \in [Slot -> SlotType]
      /\ \A i \in Slot : /\ U[i].valid = T[i].valid /\ U[i].addr = T[i].addr
                         /\ U[i].name = T[i].name
      /\ \A i, j \in Slot : U[i].box[j] = IF i = id /\ j = r
                                           THEN [valid |-> TRUE, count |-> n + 1]
                                           ELSE T[i].box[j]
  <2> DEFINE B == [T[id].box EXCEPT ![r] = [valid |-> TRUE, count |-> n + 1]]
             R == [T[id] EXCEPT !.box = B]
  <2>1. T[id] \in SlotType /\ T[id].box \in [Slot -> Pipe]
    BY <1>1 DEF SlotType
  <2>2. /\ B \in [Slot -> Pipe]
        /\ \A j \in Slot : B[j] = IF j = r THEN [valid |-> TRUE, count |-> n + 1]
                                            ELSE T[id].box[j]
    BY <2>1, <1>1 DEF Pipe
  <2>3. /\ R \in SlotType
        /\ R.valid = T[id].valid /\ R.addr = T[id].addr /\ R.name = T[id].name
        /\ R.box = B
    BY <2>1, <2>2 DEF SlotType
  <2>4. U = [T EXCEPT ![id] = R]
    OBVIOUS
  <2> HIDE DEF U, R, B
  <2>5. QED
    BY <1>1, <2>2, <2>3, <2>4
<1>3. T[id].addr \in Addr /\ T[r].addr \in Addr
  BY DEF Good, Addressed
<1>4. Typed(U, n + 1, N, K)
  <2>1. N \subseteq Nat \X Addr \X Addr /\ K \subseteq N
    BY <1>1, <1>3 DEF Good, Typed
  <2>2. \A m \in N : m[1] <= n + 1
    BY <1>1 DEF Good, Typed
  <2>3. QED
    BY <1>1, <1>2, <2>1, <2>2 DEF Typed
<1>5. Addressed(U) /\ OneSlotEach(U)
  BY <1>2 DEF Good, Addressed, OneSlotEach
<1>6. OneNameEach(U)
  BY <1>2 DEF Good, OneNameEach
<1>7. Ends(U, N)
  BY <1>2 DEF Good, Ends
<1>8. \A i, j \in Slot : T[i].box[j].valid => T[i].box[j].count <= n
  BY DEF Good, Ends, Typed
<1>9. \A t \in K : t[1] <= n
  BY DEF Good, Typed
<1>10. Numbers(U, K)
  <2>1. \A i, j, k, l \in Slot :
          /\ U[i].box[j].valid /\ U[k].box[l].valid
          /\ U[i].box[j].count = U[k].box[l].count
          => i = k /\ j = l
    BY <1>1, <1>2, <1>8 DEF Good, Numbers
  <2>2. ASSUME NEW i \in Slot, NEW j \in Slot, U[i].box[j].valid, NEW t \in K
        PROVE  t[1] # U[i].box[j].count
    BY <1>1, <1>2, <1>9, <2>2 DEF Good, Numbers
  <2>3. QED
    BY <2>1, <2>2 DEF Numbers
<1>11. QED
  BY <1>4, <1>5, <1>6, <1>7, <1>10 DEF Good

(* <s: a waiting pipe is taken.                                            *)
LEMMA ReceiveGood ==
  ASSUME NEW T, NEW n, NEW M, NEW K, Good(T, n, M, K),
         NEW s \in Slot, NEW id \in Slot, T[s].box[id].valid
  PROVE  Good([T EXCEPT ![s].box[id].valid = FALSE], n, M,
              K \union {<<T[s].box[id].count, T[s].addr, T[id].addr>>})
<1> DEFINE U == [T EXCEPT ![s].box[id].valid = FALSE]
           L == K \union {<<T[s].box[id].count, T[s].addr, T[id].addr>>}
<1>1. T \in [Slot -> SlotType]
  BY DEF Good, Typed
<1>2. /\ U \in [Slot -> SlotType]
      /\ \A i \in Slot : /\ U[i].valid = T[i].valid /\ U[i].addr = T[i].addr
                         /\ U[i].name = T[i].name
      /\ \A i, j \in Slot : /\ U[i].box[j].count = T[i].box[j].count
                            /\ U[i].box[j].valid <=> T[i].box[j].valid /\ ~(i = s /\ j = id)
  <2> DEFINE P == [T[s].box[id] EXCEPT !.valid = FALSE]
             B == [T[s].box EXCEPT ![id] = P]
             R == [T[s] EXCEPT !.box = B]
  <2>1. T[s] \in SlotType /\ T[s].box \in [Slot -> Pipe] /\ T[s].box[id] \in Pipe
    BY <1>1 DEF SlotType
  <2>2. P \in Pipe /\ P.valid = FALSE /\ P.count = T[s].box[id].count
    BY <2>1 DEF Pipe
  <2>3. B \in [Slot -> Pipe] /\ \A j \in Slot : B[j] = IF j = id THEN P ELSE T[s].box[j]
    BY <2>1, <2>2
  <2>4. /\ R \in SlotType
        /\ R.valid = T[s].valid /\ R.addr = T[s].addr /\ R.name = T[s].name
        /\ R.box = B
    BY <2>1, <2>3 DEF SlotType
  <2>5. U = [T EXCEPT ![s] = R]
    OBVIOUS
  <2> HIDE DEF U, R, B, P
  <2>6. QED
    BY <1>1, <2>2, <2>3, <2>4, <2>5
<1>3. Typed(U, n, M, L)
  BY <1>2 DEF Good, Typed, Ends
<1>4. Addressed(U) /\ OneSlotEach(U)
  BY <1>2 DEF Good, Addressed, OneSlotEach
<1>5. OneNameEach(U)
  BY <1>2 DEF Good, OneNameEach
<1>6. Ends(U, M)
  BY <1>2 DEF Good, Ends
<1>7. Numbers(U, L)
  BY <1>2 DEF Good, Numbers
<1>8. QED
  BY <1>3, <1>4, <1>5, <1>6, <1>7 DEF Good

-----------------------------------------------------------------------------
(* IInv is inductive.                                                      *)

LEMMA InitInv == Init => IInv
<1> SUFFICES ASSUME Init PROVE IInv
  OBVIOUS
<1>1. \A i \in Slot : /\ user_data[i] = Blank
                      /\ ~Blank.valid
                      /\ \A j \in Slot : ~Blank.box[j].valid
  BY DEF Init, Blank, NoPipe
<1>2. Blank \in SlotType
  BY DEF Blank, NoPipe, SlotType, Pipe
<1>3. Typed(user_data, user_pipe_count, made, taken)
  BY <1>2 DEF Init, Typed
<1>4. /\ Addressed(user_data) /\ OneSlotEach(user_data) /\ OneNameEach(user_data)
      /\ Ends(user_data, made) /\ Numbers(user_data, taken)
  BY <1>1 DEF Addressed, OneSlotEach, OneNameEach, Ends, Numbers
<1>5. QED
  BY <1>3, <1>4 DEF Init, IInv, Good

(* Requests that leave the table as find_user and insert_user left it.     *)
LEMMA OnlyLooked ==
  ASSUME IInv, NEW a \in Addr, HasRoom(a), user_data' = Looked(a),
         UNCHANGED <<user_pipe_count, made, taken>>, online' \subseteq Addr
  PROVE  IInv'
BY LookedGood DEF IInv

LEMMA LeftInv ==
  ASSUME IInv, NEW a \in Addr, Left(a)
  PROVE  IInv'
<1> DEFINE T == Looked(a)
           id == IdOf(a)
           Closed(i) == [j \in Slot |-> [T[i].box[j] EXCEPT
                                           !.valid = @ /\ ~Cleared(id, i, j)]]
           U == [i \in Slot |-> [T[i] EXCEPT !.box = Closed(i), !.valid = @ /\ i # id]]
<1>1. Good(T, user_pipe_count, made, taken) /\ id \in Slot
  BY LookedGood, IdOfFacts DEF Left
<1>2. user_data' = U
  BY DEF Left
<1>3. \A i, j \in Slot : T[i] \in SlotType /\ T[i].box[j] \in Pipe
  BY <1>1 DEF Good, Typed, SlotType
<1>4. \A i \in Slot :
        /\ Closed(i) \in [Slot -> Pipe]
        /\ \A j \in Slot : /\ Closed(i)[j].valid <=> T[i].box[j].valid /\ i # id /\ j # id
                           /\ Closed(i)[j].count = T[i].box[j].count
  BY <1>3 DEF Pipe, Cleared
<1>5. ASSUME NEW i \in Slot
      PROVE  /\ U[i] \in SlotType
             /\ U[i].valid <=> T[i].valid /\ i # id
             /\ U[i].addr = T[i].addr /\ U[i].name = T[i].name
             /\ U[i].box = Closed(i)
  <2> DEFINE C == Closed(i)
             R == T[i]
  <2>1. U[i] = [R EXCEPT !.box = C, !.valid = R.valid /\ i # id]
    OBVIOUS
  <2>2. R \in SlotType /\ C \in [Slot -> Pipe]
    BY <1>3, <1>4
  <2> HIDE DEF C, R, id, T
  <2>3. /\ [R EXCEPT !.box = C, !.valid = R.valid /\ i # id] \in SlotType
        /\ [R EXCEPT !.box = C, !.valid = R.valid /\ i # id].valid <=> R.valid /\ i # id
        /\ [R EXCEPT !.box = C, !.valid = R.valid /\ i # id].addr = R.addr
        /\ [R EXCEPT !.box = C, !.valid = R.valid /\ i # id].name = R.name
        /\ [R EXCEPT !.box = C, !.valid = R.valid /\ i # id].box = C
    BY <2>2 DEF SlotType
  <2> HIDE DEF U
  <2>4. QED
    BY <2>1, <2>3 DEF C, R
<1>6. Good(U, user_pipe_count, made, taken)
  <2>1. U \in [Slot -> SlotType]
    BY <1>5
  <2> HIDE DEF U, T, id, Closed
  <2>2. \A i \in Slot : /\ U[i].valid <=> T[i].valid /\ i # id
                        /\ U[i].addr = T[i].addr /\ U[i].name = T[i].name
    BY <1>5
  <2>3. \A i, j \in Slot :
          /\ U[i].box[j].valid <=> T[i].box[j].valid /\ i # id /\ j # id
          /\ U[i].box[j].count = T[i].box[j].count
    BY <1>4, <1>5
  <2>4. QED
    BY <1>1, <2>1, <2>2, <2>3, LeaveGood
<1>7. QED
  BY <1>2, <1>6 DEF Left, IInv

LEMMA SetNameInv ==
  ASSUME IInv, NEW a \in Addr, NEW x \in Name, SetName(a, x)
  PROVE  IInv'
<1>1. CASE user_data' = Looked(a)
  BY <1>1, OnlyLooked DEF SetName, IInv
<1>2. CASE /\ ~dup_name(a, x)
           /\ user_data' = [Looked(a) EXCEPT ![IdOf(a)].name = x]
  <2>1. Good(Looked(a), user_pipe_count, made, taken) /\ IdOf(a) \in Slot
    BY LookedGood, IdOfFacts DEF SetName
  <2>2. Good(user_data', user_pipe_count, made, taken)
    BY <1>2, <2>1, RenameGood DEF dup_name
  <2>3. QED
    BY <2>2 DEF SetName, IInv
<1>3. QED
  BY <1>1, <1>2 DEF SetName

LEMMA PipeToInv ==
  ASSUME IInv, NEW a \in Addr, NEW r, PipeTo(a, r)
  PROVE  IInv'
<1>1. CASE user_data' = Looked(a) /\ UNCHANGED <<user_pipe_count, made>>
  BY <1>1, OnlyLooked DEF PipeTo, IInv
<1>2. CASE /\ Alive(a, r)
           /\ user_pipe_count' = NewCount
           /\ user_data' = [Looked(a) EXCEPT ![IdOf(a)].box[r] =
                              [valid |-> TRUE, count |-> NewCount]]
           /\ made' = made \union {<<NewCount, a, Looked(a)[r].addr>>}
  <2>1. /\ Good(Looked(a), user_pipe_count, made, taken) /\ IdOf(a) \in Slot
        /\ Looked(a)[IdOf(a)].valid /\ Looked(a)[IdOf(a)].addr = a
    BY LookedGood, IdOfFacts DEF PipeTo
  <2>2. Good(user_data', user_pipe_count', made', taken)
    BY <1>2, <2>1, SendGood DEF Alive, NewCount
  <2>3. QED
    BY <2>2 DEF PipeTo, IInv
<1>3. QED
  BY <1>1, <1>2 DEF PipeTo

LEMMA PipeFromInv ==
  ASSUME IInv, NEW a \in Addr, NEW s, PipeFrom(a, s)
  PROVE  IInv'
<1>1. CASE user_data' = Looked(a) /\ UNCHANGED taken
  BY <1>1, OnlyLooked DEF PipeFrom, IInv
<1>2. CASE /\ Alive(a, s) /\ Looked(a)[s].box[IdOf(a)].valid
           /\ user_data' = [Looked(a) EXCEPT ![s].box[IdOf(a)].valid = FALSE]
           /\ taken' = taken \union
                {<<Looked(a)[s].box[IdOf(a)].count, Looked(a)[s].addr, a>>}
  <2>1. /\ Good(Looked(a), user_pipe_count, made, taken) /\ IdOf(a) \in Slot
        /\ Looked(a)[IdOf(a)].addr = a
    BY LookedGood, IdOfFacts DEF PipeFrom
  <2> DEFINE T == Looked(a)
             id == IdOf(a)
  <2>2. taken' = taken \union {<<T[s].box[id].count, T[s].addr, T[id].addr>>}
    BY <1>2, <2>1
  <2>3. s \in Slot /\ T[s].box[id].valid
    BY <1>2 DEF Alive
  <2>4. user_data' = [T EXCEPT ![s].box[id].valid = FALSE]
    BY <1>2
  <2> HIDE DEF T, id
  <2>5. Good(user_data', user_pipe_count, made, taken')
    BY <2>1, <2>2, <2>3, <2>4, ReceiveGood DEF T, id
  <2>6. QED
    BY <2>5 DEF PipeFrom, IInv
<1>3. QED
  BY <1>1, <1>2 DEF PipeFrom

LEMMA NextInv == IInv /\ [Next]_vars => IInv'
<1> SUFFICES ASSUME IInv, [Next]_vars PROVE IInv'
  OBVIOUS
<1>1. ASSUME NEW a \in Addr, Enter(a) PROVE IInv'
  BY <1>1, OnlyLooked DEF Enter, IInv
<1>2. ASSUME NEW a \in Addr, Left(a) PROVE IInv'
  BY <1>2, LeftInv
<1>3. ASSUME NEW a \in Addr, Talk(a) PROVE IInv'
  BY <1>3, OnlyLooked DEF Talk, IInv
<1>4. ASSUME NEW a \in Addr, Abort(a) PROVE IInv'
  BY <1>4 DEF Abort, IInv
<1>5. ASSUME NEW a \in Addr, Stray(a) PROVE IInv'
  BY <1>5, OnlyLooked DEF Stray, IInv
<1>6. ASSUME NEW a \in Addr, NEW n \in Name, SetName(a, n) PROVE IInv'
  BY <1>6, SetNameInv
<1>7. ASSUME NEW a \in Addr, NEW r, PipeTo(a, r) PROVE IInv'
  BY <1>7, PipeToInv
<1>8. ASSUME NEW a \in Addr, NEW s, PipeFrom(a, s) PROVE IInv'
  BY <1>8, PipeFromInv
<1>9. CASE UNCHANGED vars
  BY <1>9 DEF vars, IInv
<1>10. QED
  BY <1>1, <1>2, <1>3, <1>4, <1>5, <1>6, <1>7, <1>8, <1>9 DEF Next

LEMMA Invariance == Spec => []IInv
BY InitInv, NextInv, PTL DEF Spec

-----------------------------------------------------------------------------
(* The properties of UserTable.                                            *)

(* Types: no request stores a value of another kind in the table.          *)
THEOREM Typing == Spec => []TypeOK
<1>1. IInv => TypeOK
  BY DEF IInv, Good, Typed, SlotType, TypeOK
<1>2. QED
  BY <1>1, Invariance, PTL

(* No address is ever in two valid slots, so find_user finds the one slot  *)
(* of a user, and no name but the default one is with two users            *)
(* (system_broadcast.cpp:37-41, 158-166).                                  *)
THEOREM UsersAreUnique == Spec => []UsersUnique
<1>1. IInv => AddrUnique
  BY DEF IInv, Good, OneSlotEach, AddrUnique, Valid
<1>2. IInv => NamesUnique
  BY DEF IInv, Good, OneNameEach, NamesUnique, Valid
<1>3. IInv => UsersUnique
  BY <1>1, <1>2 DEF UsersUnique
<1>4. QED
  BY <1>3, Invariance, PTL

(* A waiting user pipe is between the two users it was made by and for,    *)
(* both present.                                                           *)
THEOREM PipesHaveTheirEnds == Spec => []PipeEndsAlive
<1>1. IInv => PipeEndsAlive
  BY DEF IInv, Good, Ends, PipeEndsAlive, Open, Valid
<1>2. QED
  BY <1>1, Invariance, PTL

(* Waiting pipes have FIFO files of their own.                             *)
THEOREM PipeFilesAreDistinct == Spec => []PipeFilesDistinct
<1>1. IInv => PipeFilesDistinct
  BY DEF IInv, Good, Numbers, PipeFilesDistinct, Open
<1>2. QED
  BY <1>1, Invariance, PTL

(* Users receive only what was sent to them.                               *)
THEOREM TakenWasMade == Spec => []TakenAsMade
<1>1. IInv => TakenAsMade
  BY DEF IInv, Good, Typed, TakenAsMade
<1>2. QED
  BY <1>1, Invariance, PTL

-----------------------------------------------------------------------------
(* The refinement of Directory.  Read says how presentBar, nickBar and     *)
(* pipesBar are read off a table in which every address has one slot; the  *)
(* steps are then compared through Read and Read', with the three state    *)
(* functions left unexpanded.                                              *)
HasSlot(b, i) == user_data[i].valid /\ user_data[i].addr = b

PresentRead == \A b : b \in presentBar <=> \E i \in Slot : HasSlot(b, i)

NickRead ==
  /\ nickBar = [b \in Addr |-> nickBar[b]]
  /\ \A b \in Addr : /\ \A i \in Slot : HasSlot(b, i) => nickBar[b] = user_data[i].name
                     /\ (\A i \in Slot : ~HasSlot(b, i)) => nickBar[b] = NoName

PipesRead ==
  \A x : x \in pipesBar <=>
    \E i, j \in Slot : Open(i, j) /\ x = <<user_data[i].addr, user_data[j].addr>>

Read == PresentRead /\ NickRead /\ PipesRead

LEMMA Reading == IInv => Read
<1> SUFFICES ASSUME IInv PROVE Read
  OBVIOUS
<1>1. PresentRead
  BY DEF PresentRead, presentBar, Valid, HasSlot
<1>2. PipesRead
  <2>1. ASSUME NEW x \in pipesBar
        PROVE  \E i, j \in Slot : Open(i, j) /\ x = <<user_data[i].addr, user_data[j].addr>>
    <3>1. PICK p \in Slot \X Slot :
            Open(p[1], p[2]) /\ x = <<user_data[p[1]].addr, user_data[p[2]].addr>>
      BY DEF pipesBar
    <3>2. QED
      BY <3>1
  <2>2. ASSUME NEW i \in Slot, NEW j \in Slot, Open(i, j)
        PROVE  <<user_data[i].addr, user_data[j].addr>> \in pipesBar
    <3> DEFINE p == <<i, j>>
    <3>1. p \in {q \in Slot \X Slot : Open(q[1], q[2])} /\ p[1] = i /\ p[2] = j
      BY <2>2
    <3> HIDE DEF p
    <3>2. <<user_data[p[1]].addr, user_data[p[2]].addr>> \in pipesBar
      BY <3>1 DEF pipesBar
    <3>3. QED
      BY <3>1, <3>2
  <2>3. QED
    BY <2>1, <2>2 DEF PipesRead
<1>3. ASSUME NEW b \in Addr, NEW i \in Slot, HasSlot(b, i)
      PROVE  nickBar[b] = user_data[i].name
  <2>1. i \in Holders(b) /\ Holders(b) \subseteq Nat
    BY <1>3, UserTableAssumption DEF Holders, HasSlot, Valid, Slot
  <2>2. Min(Holders(b)) \in Holders(b) /\ Known(b)
    BY <2>1, MinIn DEF Known
  <2>3. Min(Holders(b)) = i
    BY <2>1, <2>2 DEF Holders, Valid, IInv, Good, OneSlotEach
  <2>4. QED
    BY <2>2, <2>3 DEF nickBar
<1>4. ASSUME NEW b \in Addr, \A i \in Slot : ~HasSlot(b, i)
      PROVE  nickBar[b] = NoName
  BY <1>4 DEF nickBar, Known, Holders, Valid, HasSlot
<1>5. nickBar = [b \in Addr |-> nickBar[b]]
  BY DEF nickBar
<1>6. QED
  BY <1>1, <1>2, <1>3, <1>4, <1>5 DEF Read, NickRead

(* A user keeps the slot through every step but the one of leaving.        *)
LEMMA Kept ==
  ASSUME IInv, [Next]_vars, NEW b \in Addr, NEW i \in Slot, HasSlot(b, i)
  PROVE  HasSlot(b, i)' \/ (b \in online /\ b \notin online')
<1>1. ASSUME NEW a \in Addr, HasRoom(a)
      PROVE  /\ IdOf(a) \in Slot
             /\ Looked(a)[i].valid /\ Looked(a)[i].addr = b
             /\ i = IdOf(a) => a = b
             /\ Looked(a) \in [Slot -> SlotType]
  <2>1. /\ IdOf(a) \in Slot
        /\ Known(a) => user_data[IdOf(a)].addr = a
        /\ ~Known(a) => ~user_data[IdOf(a)].valid
    BY <1>1, IdOfFacts
  <2>2. Looked(a) \in [Slot -> SlotType] /\ user_data \in [Slot -> SlotType]
    BY <1>1, LookedGood DEF IInv, Good, Typed
  <2>3. QED
    BY <2>1, <2>2 DEF Looked, HasSlot
<1>2. CASE \E a \in Addr : HasRoom(a) /\ user_data' = Looked(a)
  BY <1>1, <1>2 DEF HasSlot
<1>3. CASE UNCHANGED user_data
  BY <1>3 DEF HasSlot
<1>4. ASSUME NEW a \in Addr, Left(a)
      PROVE  HasSlot(b, i)' \/ (b \in online /\ b \notin online')
  <2>1. user_data'[i].valid = (Looked(a)[i].valid /\ i # IdOf(a))
        /\ user_data'[i].addr = Looked(a)[i].addr
    BY <1>1, <1>4 DEF Left, SlotType
  <2>2. QED
    BY <2>1, <1>1, <1>4 DEF Left, HasSlot
<1>5. ASSUME NEW a \in Addr, NEW n \in Name, SetName(a, n)
      PROVE  HasSlot(b, i)'
  BY <1>1, <1>5 DEF SetName, HasSlot, SlotType
<1>6. ASSUME NEW a \in Addr, NEW r, PipeTo(a, r)
      PROVE  HasSlot(b, i)'
  <2> DEFINE T == Looked(a)
             id == IdOf(a)
  <2>1. CASE user_data' = Looked(a)
    BY <1>2, <1>6, <2>1 DEF PipeTo
  <2>2. CASE r \in Slot /\ user_data' = [T EXCEPT ![id].box[r] =
                                           [valid |-> TRUE, count |-> NewCount]]
    <3>1. T \in [Slot -> SlotType] /\ T[i].valid /\ T[i].addr = b /\ id \in Slot
      BY <1>1, <1>6 DEF PipeTo
    <3> HIDE DEF T, id
    <3>2. user_data'[i].valid = T[i].valid /\ user_data'[i].addr = T[i].addr
      BY <2>2, <3>1 DEF SlotType
    <3>3. QED
      BY <3>1, <3>2 DEF HasSlot
  <2>3. QED
    BY <1>6, <2>1, <2>2 DEF PipeTo, Alive
<1>7. ASSUME NEW a \in Addr, NEW r, PipeFrom(a, r)
      PROVE  HasSlot(b, i)'
  <2> DEFINE T == Looked(a)
             id == IdOf(a)
  <2>1. CASE user_data' = Looked(a)
    BY <1>2, <1>7, <2>1 DEF PipeFrom
  <2>2. CASE r \in Slot /\ user_data' = [T EXCEPT ![r].box[id].valid = FALSE]
    <3>1. T \in [Slot -> SlotType] /\ T[i].valid /\ T[i].addr = b /\ id \in Slot
      BY <1>1, <1>7 DEF PipeFrom
    <3> HIDE DEF T, id
    <3>2. user_data'[i].valid = T[i].valid /\ user_data'[i].addr = T[i].addr
      BY <2>2, <3>1 DEF SlotType
    <3>3. QED
      BY <3>1, <3>2 DEF HasSlot
  <2>3. QED
    BY <1>7, <2>1, <2>2 DEF PipeFrom, Alive
<1>8. QED
  BY <1>2, <1>3, <1>4, <1>5, <1>6, <1>7 DEF Next, vars, Enter, Talk, Abort, Stray

(* A user who stays connected keeps the slot, whatever the others ask for. *)
THEOREM SlotsAreKept == Spec => SlotKept
<1>1. IInv /\ [Next]_vars =>
        [\A a \in online \intersect online' :
           \A i \in Slot : i \in Holders(a) => i \in Holders(a)']_vars
  BY Kept DEF Holders, Valid, HasSlot, IInv
<1>2. QED
  BY <1>1, Invariance, PTL DEF Spec, SlotKept

-----------------------------------------------------------------------------
(* Who is connected has a slot, so requests after the first insert nobody. *)
OnlineKnown == \A b \in online : Known(b)

LEMMA OnlineKnownInit == Init => OnlineKnown
BY DEF Init, OnlineKnown

LEMMA OnlineKnownNext == IInv /\ OnlineKnown /\ [Next]_vars => OnlineKnown'
<1> SUFFICES ASSUME IInv, OnlineKnown, [Next]_vars, NEW b \in online'
             PROVE  Known(b)'
  BY DEF OnlineKnown
<1>1. CASE b \in online
  <2>1. PICK i \in Slot : HasSlot(b, i)
    BY <1>1 DEF OnlineKnown, Known, Holders, Valid, HasSlot
  <2>2. HasSlot(b, i)'
    BY <1>1, <2>1, Kept DEF IInv
  <2>3. QED
    BY <2>2 DEF Known, Holders, Valid, HasSlot
<1>2. CASE b \notin online
  <2>1. Enter(b) /\ b \in Addr
    BY <1>2 DEF Next, vars, Enter, Left, Talk, Abort, Stray, SetName, PipeTo, PipeFrom
  <2>2. \E i \in Slot : HasSlot(b, i)'
    BY <2>1, LookedGood, IdOfFacts DEF Enter, HasSlot
  <2>3. QED
    BY <2>2 DEF Known, Holders, Valid, HasSlot
<1>3. QED
  BY <1>1, <1>2

(* A request of a connected user works on the table as it is, at the one   *)
(* slot of that user.                                                      *)
LEMMA AtHome ==
  ASSUME IInv, OnlineKnown, NEW a \in online
  PROVE  /\ a \in Addr /\ a \in presentBar
         /\ Looked(a) = user_data
         /\ IdOf(a) \in Slot /\ HasSlot(a, IdOf(a))
         /\ \A i \in Slot : HasSlot(a, i) => i = IdOf(a)
<1>1. a \in Addr /\ Known(a) /\ HasRoom(a)
  BY DEF IInv, OnlineKnown, HasRoom
<1>2. IdOf(a) \in Slot /\ HasSlot(a, IdOf(a))
  BY <1>1, IdOfFacts DEF HasSlot
<1>3. \A i \in Slot : HasSlot(a, i) => i = IdOf(a)
  BY <1>2 DEF HasSlot, IInv, Good, OneSlotEach
<1>4. QED
  BY <1>1, <1>2, <1>3, Reading DEF Looked, Read, PresentRead

barVars == <<presentBar, nickBar, pipesBar>>

(* find_user and insert_user: the user joins, or nothing changes.          *)
LEMMA LookedStep ==
  ASSUME IInv, Read, Read', NEW a \in Addr, HasRoom(a), user_data' = Looked(a)
  PROVE  D!Join(a) \/ UNCHANGED barVars
<1>1. CASE Known(a)
  <2>1. user_data' = user_data
    BY <1>1 DEF Looked
  <2>2. QED
    BY <2>1 DEF barVars, presentBar, nickBar, pipesBar, Known, Holders, Valid, Open
<1>2. CASE ~Known(a)
  <2> DEFINE id == IdOf(a)
  <2>1. id \in Slot /\ ~user_data[id].valid
    BY <1>2, IdOfFacts
  <2>2. /\ user_data \in [Slot -> SlotType]
        /\ user_data' = [user_data EXCEPT ![id] = build_user(a)]
    BY <1>2 DEF Looked, IInv, Good, Typed
  <2> HIDE DEF id
  <2>3. /\ \A i \in Slot \ {id} : user_data'[i] = user_data[i]
        /\ user_data'[id] = build_user(a)
    BY <2>1, <2>2
  <2>4. /\ user_data'[id].valid /\ user_data'[id].addr = a /\ user_data'[id].name = NoName
        /\ \A j \in Slot : ~user_data'[id].box[j].valid
    BY <2>3 DEF build_user, NoPipe
  <2>5. \A b : \A i \in Slot : HasSlot(b, i)' <=> HasSlot(b, i) \/ (b = a /\ i = id)
    BY <2>1, <2>3, <2>4 DEF HasSlot
  <2>6. \A i \in Slot : ~HasSlot(a, i)
    BY <1>2 DEF Known, Holders, Valid, HasSlot
  <2>7. a \notin presentBar /\ presentBar' = presentBar \union {a}
    BY <2>1, <2>5, <2>6 DEF Read, PresentRead
  <2>8. \A b \in Addr : nickBar'[b] = nickBar[b]
    <3> SUFFICES ASSUME NEW b \in Addr PROVE nickBar'[b] = nickBar[b]
      OBVIOUS
    <3>1. CASE b = a
      BY <2>1, <2>4, <2>5, <2>6, <3>1 DEF Read, NickRead
    <3>2. CASE b # a /\ \A i \in Slot : ~HasSlot(b, i)
      BY <2>5, <3>2 DEF Read, NickRead
    <3>3. ASSUME b # a, NEW i \in Slot, HasSlot(b, i)
          PROVE  nickBar'[b] = nickBar[b]
      <4>1. i # id /\ HasSlot(b, i)'
        BY <2>1, <2>5, <3>3 DEF HasSlot
      <4>2. QED
        BY <2>3, <3>3, <4>1 DEF Read, NickRead
    <3>4. QED
      BY <3>1, <3>2, <3>3
  <2>9. nickBar' = nickBar
    BY <2>8 DEF Read, NickRead
  <2>10. \A i, j \in Slot : Open(i, j)' <=> Open(i, j)
    BY <2>1, <2>3, <2>4 DEF Open, IInv, Good, Ends
  <2>11. \A i, j \in Slot : Open(i, j) => /\ user_data'[i].addr = user_data[i].addr
                                          /\ user_data'[j].addr = user_data[j].addr
    BY <2>1, <2>3 DEF Open, IInv, Good, Ends
  <2>12. pipesBar' = pipesBar
    <3>1. \A x : x \in pipesBar' <=> x \in pipesBar
      BY <2>10, <2>11 DEF Read, PipesRead
    <3>2. QED
      BY <3>1
  <2>13. QED
    BY <2>7, <2>9, <2>12 DEF D!Join
<1>3. QED
  BY <1>1, <1>2

(* left is Leave: the name and the pipes go with the user.                 *)
LEMMA LeftStep ==
  ASSUME IInv, OnlineKnown, Read, Read', NEW a \in Addr, Left(a)
  PROVE  D!Leave(a)
<1> DEFINE id == IdOf(a)
           Closed(i) == [j \in Slot |-> [user_data[i].box[j] EXCEPT
                                           !.valid = @ /\ ~Cleared(id, i, j)]]
<1>1. /\ a \in presentBar /\ id \in Slot /\ HasSlot(a, id)
      /\ \A i \in Slot : HasSlot(a, i) => i = id
      /\ Looked(a) = user_data
  BY AtHome DEF Left
<1>2. user_data' = [i \in Slot |-> [user_data[i] EXCEPT !.box = Closed(i),
                                                       !.valid = @ /\ i # id]]
  BY <1>1 DEF Left
<1>3. \A i, j \in Slot : user_data[i] \in SlotType /\ user_data[i].box[j] \in Pipe
  BY DEF IInv, Good, Typed, SlotType
<1> HIDE DEF id
<1>4. \A i, j \in Slot : Closed(i)[j].valid <=> Open(i, j) /\ i # id /\ j # id
  BY <1>3 DEF Pipe, Cleared, Open
<1>5. ASSUME NEW i \in Slot
      PROVE  /\ user_data'[i].valid <=> user_data[i].valid /\ i # id
             /\ user_data'[i].addr = user_data[i].addr
             /\ user_data'[i].name = user_data[i].name
             /\ \A j \in Slot : Open(i, j)' <=> Open(i, j) /\ i # id /\ j # id
  <2> DEFINE C == Closed(i)
             R == user_data[i]
  <2>1. \A j \in Slot : C[j].valid <=> Open(i, j) /\ i # id /\ j # id
    BY <1>4
  <2>2. R \in SlotType /\ user_data'[i] = [R EXCEPT !.box = C, !.valid = R.valid /\ i # id]
    BY <1>2, <1>3
  <2> HIDE DEF C, R, Closed
  <2>3. /\ user_data'[i].valid <=> R.valid /\ i # id
        /\ user_data'[i].addr = R.addr /\ user_data'[i].name = R.name
        /\ user_data'[i].box = C
    BY <2>2 DEF SlotType
  <2>4. QED
    BY <2>1, <2>3 DEF R, Open
<1>6. \A b : \A i \in Slot : HasSlot(b, i)' <=> HasSlot(b, i) /\ b # a
  BY <1>1, <1>5 DEF HasSlot
<1>7. presentBar' = presentBar \ {a}
  BY <1>6 DEF Read, PresentRead
<1>8. \A b \in Addr : nickBar'[b] = IF b = a THEN NoName ELSE nickBar[b]
  <2> SUFFICES ASSUME NEW b \in Addr
               PROVE  nickBar'[b] = IF b = a THEN NoName ELSE nickBar[b]
    OBVIOUS
  <2>1. CASE b = a
    BY <1>6, <2>1 DEF Read, NickRead
  <2>2. CASE b # a /\ \A i \in Slot : ~HasSlot(b, i)
    BY <1>6, <2>2 DEF Read, NickRead
  <2>3. ASSUME b # a, NEW i \in Slot, HasSlot(b, i)
        PROVE  nickBar'[b] = nickBar[b]
    <3>1. HasSlot(b, i)'
      BY <1>6, <2>3
    <3>2. QED
      BY <1>5, <2>3, <3>1 DEF Read, NickRead
  <2>4. QED
    BY <2>1, <2>2, <2>3
<1>9. nickBar' = [nickBar EXCEPT ![a] = NoName]
  BY <1>8 DEF Read, NickRead
<1>10. pipesBar' = {p \in pipesBar : p[1] # a /\ p[2] # a}
  <2>1. \A i, j \in Slot : Open(i, j)' <=> Open(i, j) /\ i # id /\ j # id
    BY <1>5
  <2>2. \A i, j \in Slot : Open(i, j) => /\ user_data[i].addr = a <=> i = id
                                         /\ user_data[j].addr = a <=> j = id
    BY <1>1 DEF Open, IInv, Good, Ends, HasSlot
  <2>3. \A i \in Slot : user_data'[i].addr = user_data[i].addr
    BY <1>5
  <2>4. \A x : x \in pipesBar' <=> x \in pipesBar /\ x[1] # a /\ x[2] # a
    <3>1. ASSUME NEW x, x \in pipesBar'
          PROVE  x \in pipesBar /\ x[1] # a /\ x[2] # a
      <4>1. PICK i, j \in Slot : Open(i, j)' /\ x = <<user_data'[i].addr, user_data'[j].addr>>
        BY <3>1 DEF Read, PipesRead
      <4>2. /\ Open(i, j) /\ i # id /\ j # id
            /\ x = <<user_data[i].addr, user_data[j].addr>>
        BY <2>1, <2>3, <4>1
      <4>3. x \in pipesBar
        BY <4>2 DEF Read, PipesRead
      <4>4. QED
        BY <2>2, <4>2, <4>3
    <3>2. ASSUME NEW x, x \in pipesBar, x[1] # a, x[2] # a
          PROVE  x \in pipesBar'
      <4>1. PICK i, j \in Slot : Open(i, j) /\ x = <<user_data[i].addr, user_data[j].addr>>
        BY <3>2 DEF Read, PipesRead
      <4>2. Open(i, j)' /\ x = <<user_data'[i].addr, user_data'[j].addr>>
        BY <2>1, <2>2, <2>3, <3>2, <4>1
      <4>3. QED
        BY <4>2 DEF Read, PipesRead
    <3>3. QED
      BY <3>1, <3>2
  <2>5. QED
    BY <2>4
<1>11. QED
  BY <1>1, <1>7, <1>9, <1>10 DEF D!Leave

(* name is Rename, or refused.                                             *)
LEMMA SetNameStep ==
  ASSUME IInv, OnlineKnown, Read, Read', NEW a \in Addr, NEW n \in Name, SetName(a, n)
  PROVE  D!Rename(a, n) \/ UNCHANGED barVars
<1> DEFINE id == IdOf(a)
<1>1. /\ a \in presentBar /\ id \in Slot /\ HasSlot(a, id)
      /\ \A i \in Slot : HasSlot(a, i) => i = id
      /\ Looked(a) = user_data
  BY AtHome DEF SetName
<1>2. CASE user_data' = user_data
  BY <1>2 DEF barVars, presentBar, nickBar, pipesBar, Known, Holders, Valid, Open
<1>3. CASE ~dup_name(a, n) /\ user_data' = [user_data EXCEPT ![id].name = n]
  <2>1. user_data \in [Slot -> SlotType]
    BY DEF IInv, Good, Typed
  <2> HIDE DEF id
  <2>2. \A i \in Slot :
          /\ user_data'[i].valid = user_data[i].valid /\ user_data'[i].addr = user_data[i].addr
          /\ user_data'[i].box = user_data[i].box
          /\ user_data'[i].name = IF i = id THEN n ELSE user_data[i].name
    BY <1>1, <1>3, <2>1 DEF SlotType
  <2>3. \A b : \A i \in Slot : HasSlot(b, i)' <=> HasSlot(b, i)
    BY <2>2 DEF HasSlot
  <2>4. \A b \in Addr : nickBar'[b] = IF b = a THEN n ELSE nickBar[b]
    <3> SUFFICES ASSUME NEW b \in Addr
                 PROVE  nickBar'[b] = IF b = a THEN n ELSE nickBar[b]
      OBVIOUS
    <3>1. CASE \A i \in Slot : ~HasSlot(b, i)
      BY <1>1, <2>3, <3>1 DEF Read, NickRead
    <3>2. ASSUME NEW i \in Slot, HasSlot(b, i)
          PROVE  nickBar'[b] = IF b = a THEN n ELSE nickBar[b]
      <4>1. HasSlot(b, i)' /\ (i = id <=> b = a)
        BY <1>1, <2>3, <3>2 DEF HasSlot
      <4>2. QED
        BY <2>2, <3>2, <4>1 DEF Read, NickRead
    <3>3. QED
      BY <3>1, <3>2
  <2>5. nickBar' = [nickBar EXCEPT ![a] = n]
    BY <2>4 DEF Read, NickRead
  <2>6. presentBar' = presentBar
    BY <2>3 DEF Read, PresentRead
  <2>7. pipesBar' = pipesBar
    <3>1. \A i, j \in Slot : Open(i, j)' <=> Open(i, j)
      BY <2>2 DEF Open
    <3>2. \A x : x \in pipesBar' <=> x \in pipesBar
      BY <2>2, <3>1 DEF Read, PipesRead
    <3>3. QED
      BY <3>2
  <2>8. \A b \in presentBar : nickBar[b] # n
    <3> SUFFICES ASSUME NEW b \in presentBar PROVE nickBar[b] # n
      OBVIOUS
    <3>1. PICK i \in Slot : HasSlot(b, i)
      BY DEF Read, PresentRead
    <3>2. b \in Addr
      BY <3>1 DEF HasSlot, IInv, Good, Addressed
    <3>3. nickBar[b] = user_data[i].name /\ user_data[i].name # n
      BY <1>1, <1>3, <3>1, <3>2 DEF Read, NickRead, dup_name, HasSlot
    <3>4. QED
      BY <3>3
  <2>9. QED
    BY <1>1, <2>5, <2>6, <2>7, <2>8 DEF D!Rename
<1>4. QED
  BY <1>1, <1>2, <1>3 DEF SetName

(* Steps that change the boxes alone keep who is present and the names.    *)
LEMMA SamePeople ==
  ASSUME Read, Read',
         \A i \in Slot : /\ user_data'[i].valid = user_data[i].valid
                         /\ user_data'[i].addr = user_data[i].addr
                         /\ user_data'[i].name = user_data[i].name
  PROVE  presentBar' = presentBar /\ nickBar' = nickBar
<1>1. \A b : \A i \in Slot : HasSlot(b, i)' <=> HasSlot(b, i)
  BY DEF HasSlot
<1>2. presentBar' = presentBar
  BY <1>1 DEF Read, PresentRead
<1>3. \A b \in Addr : nickBar'[b] = nickBar[b]
  <2> SUFFICES ASSUME NEW b \in Addr PROVE nickBar'[b] = nickBar[b]
    OBVIOUS
  <2>1. CASE \A i \in Slot : ~HasSlot(b, i)
    BY <1>1, <2>1 DEF Read, NickRead
  <2>2. ASSUME NEW i \in Slot, HasSlot(b, i)
        PROVE  nickBar'[b] = nickBar[b]
    BY <1>1, <2>2 DEF Read, NickRead
  <2>3. QED
    BY <2>1, <2>2
<1>4. QED
  BY <1>2, <1>3 DEF Read, NickRead

(* >r is Send, or refused: the number names the one user in slot r.        *)
LEMMA PipeToStep ==
  ASSUME IInv, OnlineKnown, Read, Read', NEW a \in Addr, NEW r, PipeTo(a, r)
  PROVE  (\E b \in Addr : D!Send(a, b)) \/ UNCHANGED barVars
<1> DEFINE id == IdOf(a)
<1>1. /\ a \in presentBar /\ id \in Slot /\ HasSlot(a, id)
      /\ Looked(a) = user_data
  BY AtHome DEF PipeTo
<1>2. CASE user_data' = user_data
  BY <1>2 DEF barVars, presentBar, nickBar, pipesBar, Known, Holders, Valid, Open
<1>3. CASE /\ r \in Slot /\ user_data[r].valid /\ ~Open(id, r)
           /\ user_data' = [user_data EXCEPT ![id].box[r] =
                              [valid |-> TRUE, count |-> NewCount]]
  <2> DEFINE b == user_data[r].addr
  <2>1. /\ user_data \in [Slot -> SlotType] /\ user_pipe_count \in Nat
        /\ user_data[id].box \in [Slot -> Pipe]
    BY <1>1 DEF IInv, Good, Typed, SlotType
  <2> HIDE DEF id
  <2>2. /\ \A i \in Slot : /\ user_data'[i].valid = user_data[i].valid
                           /\ user_data'[i].addr = user_data[i].addr
                           /\ user_data'[i].name = user_data[i].name
        /\ \A i, j \in Slot : Open(i, j)' <=> Open(i, j) \/ (i = id /\ j = r)
    <3> DEFINE B == [user_data[id].box EXCEPT ![r] = [valid |-> TRUE, count |-> NewCount]]
               R == [user_data[id] EXCEPT !.box = B]
    <3>1. \A j \in Slot : B[j].valid <=> user_data[id].box[j].valid \/ j = r
      BY <1>3, <2>1
    <3>2. /\ R.valid = user_data[id].valid /\ R.addr = user_data[id].addr
          /\ R.name = user_data[id].name /\ R.box = B
      BY <1>1, <2>1 DEF SlotType
    <3>3. user_data' = [user_data EXCEPT ![id] = R]
      BY <1>3
    <3> HIDE DEF R, B
    <3>4. QED
      BY <1>1, <2>1, <3>1, <3>2, <3>3 DEF Open
  <2>3. presentBar' = presentBar /\ nickBar' = nickBar
    BY <2>2, SamePeople
  <2>4. b \in Addr /\ b \in presentBar
    BY <1>3 DEF IInv, Good, Addressed, Read, PresentRead, HasSlot
  <2>5. <<a, b>> \notin pipesBar
    <3>1. ASSUME <<a, b>> \in pipesBar
          PROVE  Open(id, r)
      <4>1. PICK i, j \in Slot :
              Open(i, j) /\ <<a, b>> = <<user_data[i].addr, user_data[j].addr>>
        BY <3>1 DEF Read, PipesRead
      <4>2. i = id /\ j = r
        BY <1>1, <1>3, <4>1 DEF IInv, Good, Ends, OneSlotEach, HasSlot, Open
      <4>3. QED
        BY <4>1, <4>2
    <3>2. QED
      BY <1>3, <3>1
  <2>6. pipesBar' = pipesBar \union {<<a, b>>}
    <3>1. \A x : x \in pipesBar' <=> x \in pipesBar \/ x = <<a, b>>
      BY <1>1, <1>3, <2>2 DEF Read, PipesRead, HasSlot
    <3>2. QED
      BY <3>1
  <2>7. D!Send(a, b)
    BY <1>1, <2>3, <2>4, <2>5, <2>6 DEF D!Send
  <2>8. QED
    BY <2>4, <2>7
<1>4. QED
  BY <1>1, <1>2, <1>3 DEF PipeTo, Alive, Open

(* <s is Receive, or refused.                                              *)
LEMMA PipeFromStep ==
  ASSUME IInv, OnlineKnown, Read, Read', NEW a \in Addr, NEW s, PipeFrom(a, s)
  PROVE  (\E b \in Addr : D!Receive(b, a)) \/ UNCHANGED barVars
<1> DEFINE id == IdOf(a)
<1>1. id \in Slot /\ HasSlot(a, id) /\ Looked(a) = user_data
  BY AtHome DEF PipeFrom
<1>2. CASE user_data' = user_data
  BY <1>2 DEF barVars, presentBar, nickBar, pipesBar, Known, Holders, Valid, Open
<1>3. CASE /\ s \in Slot /\ user_data[s].valid /\ Open(s, id)
           /\ user_data' = [user_data EXCEPT ![s].box[id].valid = FALSE]
  <2> DEFINE b == user_data[s].addr
  <2>1. user_data \in [Slot -> SlotType] /\ user_data[s].box \in [Slot -> Pipe]
    BY <1>3 DEF IInv, Good, Typed, SlotType
  <2> HIDE DEF id
  <2>2. /\ \A i \in Slot : /\ user_data'[i].valid = user_data[i].valid
                           /\ user_data'[i].addr = user_data[i].addr
                           /\ user_data'[i].name = user_data[i].name
        /\ \A i, j \in Slot : Open(i, j)' <=> Open(i, j) /\ ~(i = s /\ j = id)
    <3> DEFINE P == [user_data[s].box[id] EXCEPT !.valid = FALSE]
               B == [user_data[s].box EXCEPT ![id] = P]
               R == [user_data[s] EXCEPT !.box = B]
    <3>1. ~P.valid
      BY <1>1, <2>1 DEF Pipe
    <3>2. \A j \in Slot : B[j] = IF j = id THEN P ELSE user_data[s].box[j]
      BY <1>1, <2>1
    <3>3. /\ R.valid = user_data[s].valid /\ R.addr = user_data[s].addr
          /\ R.name = user_data[s].name /\ R.box = B
      BY <1>3, <2>1 DEF SlotType
    <3>4. user_data' = [user_data EXCEPT ![s] = R]
      BY <1>3
    <3> HIDE DEF R, B, P
    <3>5. QED
      BY <1>3, <2>1, <3>1, <3>2, <3>3, <3>4 DEF Open
  <2>3. presentBar' = presentBar /\ nickBar' = nickBar
    BY <2>2, SamePeople
  <2>4. b \in Addr /\ <<b, a>> \in pipesBar
    BY <1>1, <1>3 DEF IInv, Good, Addressed, Read, PipesRead, HasSlot
  <2>5. \A i, j \in Slot : Open(i, j) =>
          (<<user_data[i].addr, user_data[j].addr>> = <<b, a>> <=> i = s /\ j = id)
    BY <1>1, <1>3 DEF IInv, Good, Ends, OneSlotEach, HasSlot, Open
  <2>6. pipesBar' = pipesBar \ {<<b, a>>}
    <3>1. \A x : x \in pipesBar' <=> x \in pipesBar /\ x # <<b, a>>
      BY <2>2, <2>5 DEF Read, PipesRead
    <3>2. QED
      BY <3>1
  <2>7. D!Receive(b, a)
    BY <2>3, <2>4, <2>6 DEF D!Receive
  <2>8. QED
    BY <2>4, <2>7
<1>4. QED
  BY <1>1, <1>2, <1>3 DEF PipeFrom, Alive, Open

LEMMA DirectoryInit == Init /\ Read => D!Init
<1> SUFFICES ASSUME Init, Read PROVE D!Init
  OBVIOUS
<1>1. \A i, j \in Slot : ~user_data[i].valid /\ ~Open(i, j)
  BY DEF Init, Blank, NoPipe, Open
<1>2. presentBar = {} /\ pipesBar = {}
  BY <1>1 DEF Read, PresentRead, PipesRead, HasSlot
<1>3. nickBar = [a \in Addr |-> NoName]
  BY <1>1 DEF Read, NickRead, HasSlot
<1>4. QED
  BY <1>2, <1>3 DEF D!Init

LEMMA DirectoryStep ==
  IInv /\ OnlineKnown /\ Read /\ Read' /\ [Next]_vars => [D!Next]_barVars
<1> SUFFICES ASSUME IInv, OnlineKnown, Read, Read', [Next]_vars
             PROVE  D!Next \/ UNCHANGED barVars
  OBVIOUS
<1>1. ASSUME NEW a \in Addr, HasRoom(a), user_data' = Looked(a)
      PROVE  D!Next \/ UNCHANGED barVars
  BY <1>1, LookedStep DEF D!Next
<1>2. CASE UNCHANGED user_data
  BY <1>2 DEF barVars, presentBar, nickBar, pipesBar, Known, Holders, Valid, Open
<1>3. ASSUME NEW a \in Addr, Left(a)
      PROVE  D!Next
  BY <1>3, LeftStep DEF D!Next
<1>4. ASSUME NEW a \in Addr, NEW n \in Name, SetName(a, n)
      PROVE  D!Next \/ UNCHANGED barVars
  BY <1>4, SetNameStep DEF D!Next
<1>5. ASSUME NEW a \in Addr, NEW r, PipeTo(a, r)
      PROVE  D!Next \/ UNCHANGED barVars
  BY <1>5, PipeToStep DEF D!Next
<1>6. ASSUME NEW a \in Addr, NEW s, PipeFrom(a, s)
      PROVE  D!Next \/ UNCHANGED barVars
  BY <1>6, PipeFromStep DEF D!Next
<1>7. QED
  BY <1>1, <1>2, <1>3, <1>4, <1>5, <1>6 DEF Next, vars, Enter, Talk, Abort, Stray

(* system_display on its table of slots does what the directory promises:  *)
(* no step joins, renames, connects or parts users in another way.         *)
THEOREM TableImplementsDirectory == Spec => ImplementsDirectory
<1>1. Init => D!Init
  BY InitInv, Reading, DirectoryInit
<1>2. IInv /\ OnlineKnown /\ IInv' /\ [Next]_vars => [D!Next]_barVars
  <2>1. IInv' => Read'
    BY Reading, PTL
  <2>2. QED
    BY <2>1, Reading, DirectoryStep
<1>3. Spec => []OnlineKnown
  BY OnlineKnownInit, OnlineKnownNext, Invariance, PTL DEF Spec
<1>4. QED
  BY <1>1, <1>2, <1>3, Invariance, PTL DEF Spec, ImplementsDirectory, D!Spec, barVars
=============================================================================

----------------------------- MODULE LineProofs -----------------------------
(***************************************************************************)
(* Proofs about Command and LineShell, for any words, numbers, lines and   *)
(* sizes of the ring.                                                      *)
(*                                                                         *)
(* A line of any length is gone through token by token, so much here is an *)
(* induction over its length.  It is done with a set: the numbers for      *)
(* which a fact has been shown contain 0 and the successor of each of      *)
(* them, hence everything (Inductive).                                     *)
(*                                                                         *)
(* CellsOf says what the cells are after part of a line: they hold its     *)
(* tokens, the open one included, and Ended counts the empty ones.  CellInv*)
(* carries that through the loops.                                         *)
(*                                                                         *)
(* LineRules says which cells may follow which, and CellRules what is left *)
(* of that for the cursor.  On it rests LineInv: which ends the shell holds*)
(* between two steps, which end is for the command that comes next (Leads),*)
(* and that no reader can be handed a pipe the shell can still write to.   *)
(***************************************************************************)
EXTENDS LineShell, SequenceTheorems, FiniteSetTheorems, WellFoundedInduction, TLAPS

-----------------------------------------------------------------------------
(* Induction over an interval, stated with a set: the least number outside *)
(* of it would have to be 0 or the successor of one in it.                 *)

LEMMA Least ==
  ASSUME NEW T \in SUBSET Nat, T # {}
  PROVE  \E n \in T : \A m \in T : n <= m
<1>1. PICK n \in T : \A m \in T : ~(<<m, n>> \in OpToRel(<, Nat))
  BY WFMin, NatLessThanWellFounded
<1>2. \A m \in T : ~(m < n)
  BY <1>1 DEF OpToRel
<1>3. QED
  BY <1>2

LEMMA Inductive ==
  ASSUME NEW N \in Nat, NEW S, 0 \in S, \A n \in 0..(N - 1) : n \in S => n + 1 \in S
  PROVE  0..N \subseteq S
<1>1. SUFFICES ASSUME (0..N) \ S # {} PROVE FALSE
  OBVIOUS
<1>2. PICK n \in (0..N) \ S : \A m \in (0..N) \ S : n <= m
  <2>1. (0..N) \ S \in SUBSET Nat
    OBVIOUS
  <2>2. QED
    BY <1>1, <2>1, Least
<1>3. n # 0 /\ n - 1 \in 0..(N - 1) /\ n - 1 \in S
  BY <1>2
<1>4. QED
  BY <1>2, <1>3

(* A function defined by its first value and how it goes on is there.      *)
Grows(c, N, X, b, F) ==
  c \in [0..N -> X] /\ c[0] = b /\ \A i \in 0..(N - 1) : c[i + 1] = F[i + 1][c[i]]

LEMMA Recursion ==
  ASSUME NEW N \in Nat, NEW X, NEW b \in X, NEW F \in [1..N -> [X -> X]]
  PROVE  \E c : Grows(c, N, X, b, F)
<1> DEFINE S == {n \in 0..N : \E c : Grows(c, n, X, b, F)}
<1>1. 0 \in S
  <2> DEFINE d == [i \in 0..0 |-> b]
  <2>1. d \in [0..0 -> X] /\ d[0] = b
    OBVIOUS
  <2> HIDE DEF d
  <2>2. Grows(d, 0, X, b, F)
    BY <2>1 DEF Grows
  <2>3. QED
    BY <2>2
<1>2. ASSUME NEW n \in 0..(N - 1), n \in S PROVE n + 1 \in S
  <2>1. PICK c : Grows(c, n, X, b, F)
    BY <1>2
  <2> DEFINE d == [i \in 0..(n + 1) |-> IF i = n + 1 THEN F[n + 1][c[n]] ELSE c[i]]
  <2>2. F[n + 1][c[n]] \in X
    BY <2>1 DEF Grows
  <2>3. d \in [0..(n + 1) -> X] /\ d[0] = b
    BY <2>1, <2>2 DEF Grows
  <2>4. ASSUME NEW i \in 0..((n + 1) - 1) PROVE d[i + 1] = F[i + 1][d[i]]
    BY <2>1 DEF Grows
  <2>5. n + 1 \in 0..N
    OBVIOUS
  <2> HIDE DEF d
  <2>6. Grows(d, n + 1, X, b, F)
    BY <2>3, <2>4 DEF Grows
  <2>7. QED
    BY <2>5, <2>6
<1> HIDE DEF S
<1>3. 0..N \subseteq S
  BY <1>1, <1>2, Inductive
<1>4. N \in S
  BY <1>3
<1>5. QED
  BY <1>4 DEF S

-----------------------------------------------------------------------------
(* FlattenSeq.                                                             *)

flat(ss) == LET flatten[i \in 1..Len(ss)] == IF i = 1 THEN ss[i] ELSE flatten[i - 1] \o ss[i]
            IN  flatten

LEMMA FlatDef ==
  ASSUME NEW X, NEW ss \in Seq(Seq(X)), NEW N \in Nat, N = Len(ss)
  PROVE  /\ \A i \in 1..N : flat(ss)[i] \in Seq(X)
         /\ \A i \in 1..N : flat(ss)[i] = IF i = 1 THEN ss[i] ELSE flat(ss)[i - 1] \o ss[i]
<1> DEFINE E(f) == f = [i \in 1..N |-> IF i = 1 THEN ss[i] ELSE f[i - 1] \o ss[i]]
<1>1. \A i \in 1..N : ss[i] \in Seq(X)
  OBVIOUS
<1>2. <<>> \in Seq(X) /\ \A s \in Seq(X) : <<>> \o s = s
  BY ConcatEmptySeq
<1>3. PICK c : /\ c \in [0..N -> Seq(X)] /\ c[0] = <<>>
               /\ \A i \in 0..(N - 1) : c[i + 1] = c[i] \o ss[i + 1]
  <2> DEFINE F == [i \in 1..N |-> [s \in Seq(X) |-> s \o ss[i]]]
  <2>1. F \in [1..N -> [Seq(X) -> Seq(X)]]
    BY <1>1
  <2>2. \A i \in 1..N : \A s \in Seq(X) : F[i][s] = s \o ss[i]
    OBVIOUS
  <2> HIDE DEF F
  <2>3. <<>> \in Seq(X)
    BY <1>2
  <2>4. PICK c : Grows(c, N, Seq(X), <<>>, F)
    BY <2>1, <2>3, Recursion, Zenon
  <2>5. ASSUME NEW i \in 0..(N - 1) PROVE c[i + 1] = c[i] \o ss[i + 1]
    <3>1. i \in 0..N /\ i + 1 \in 1..N
      OBVIOUS
    <3>2. c[i] \in Seq(X) /\ c[i + 1] = F[i + 1][c[i]]
      BY <2>4, <3>1, Zenon DEF Grows
    <3>3. QED
      BY <2>2, <3>1, <3>2, Zenon
  <2>6. QED
    BY <2>4, <2>5 DEF Grows
<1> DEFINE d == [i \in 1..N |-> c[i]]
<1>4. \A i \in 1..N : c[i] = IF i = 1 THEN ss[i] ELSE c[i - 1] \o ss[i]
  <2>1. ASSUME NEW i \in 1..N PROVE c[i] = IF i = 1 THEN ss[i] ELSE c[i - 1] \o ss[i]
    <3>1. CASE i = 1
      <4>1. 0 \in 0..(N - 1) /\ 0 + 1 = 1 /\ 1 \in 1..N
        BY <3>1
      <4>2. c[1] = <<>> \o ss[1] /\ ss[1] \in Seq(X)
        BY <1>1, <1>3, <4>1, Zenon
      <4>3. QED
        BY <4>2, <1>2, <3>1, Zenon
    <3>2. CASE i # 1
      <4>1. i - 1 \in 0..(N - 1) /\ (i - 1) + 1 = i
        OBVIOUS
      <4>2. QED
        BY <1>3, <3>2, <4>1
    <3>3. QED
      BY <3>1, <3>2
  <2>2. QED
    BY <2>1
<1>5. E(d)
  <2>1. \A i \in 1..N : d[i] = IF i = 1 THEN ss[i] ELSE d[i - 1] \o ss[i]
    BY <1>4
  <2>2. d = [i \in 1..N |-> d[i]]
    OBVIOUS
  <2> HIDE DEF d
  <2>3. QED
    BY <2>1, <2>2
<1>6. E(flat(ss))
  <2> HIDE DEF d
  <2>1. QED
    BY <1>5 DEF flat
<1>7. \A i \in 1..N : flat(ss)[i] = IF i = 1 THEN ss[i] ELSE flat(ss)[i - 1] \o ss[i]
  BY <1>6
<1> DEFINE S == {n \in 0..N : n > 0 => flat(ss)[n] \in Seq(X)}
<1>8. 0 \in S
  OBVIOUS
<1>9. ASSUME NEW n \in 0..(N - 1), n \in S PROVE n + 1 \in S
  <2>1. n + 1 \in 1..N /\ n + 1 \in 0..N /\ ss[n + 1] \in Seq(X)
    BY <1>1
  <2>2. CASE n = 0
    BY <1>7, <2>1, <2>2
  <2>3. CASE n > 0
    <3>1. flat(ss)[n] \in Seq(X)
      BY <1>9, <2>3
    <3>2. flat(ss)[n + 1] = flat(ss)[n] \o ss[n + 1]
      <4>1. (n + 1) - 1 = n /\ n + 1 # 1
        BY <2>3
      <4>2. QED
        BY <1>7, <2>1, <4>1
    <3>3. flat(ss)[n + 1] \in Seq(X)
      BY <2>1, <3>1, <3>2, ConcatProperties
    <3>4. QED
      BY <2>1, <3>3
  <2>4. QED
    BY <2>2, <2>3
<1>10. 0..N \subseteq S
  <2> HIDE DEF S
  <2>1. QED
    BY <1>8, <1>9, Inductive
<1>11. \A i \in 1..N : i \in 0..N /\ i > 0
  OBVIOUS
<1>12. \A i \in 1..N : flat(ss)[i] \in Seq(X)
  BY <1>10, <1>11
<1>13. QED
  BY <1>7, <1>12

LEMMA FlatSeq ==
  ASSUME NEW X, NEW ss \in Seq(Seq(X))
  PROVE  FlattenSeq(ss) = IF Len(ss) = 0 THEN <<>> ELSE flat(ss)[Len(ss)]
BY DEF FlattenSeq, flat

LEMMA FlatEmpty == FlattenSeq(<<>>) = <<>>
BY EmptySeq, FlatSeq

LEMMA FlatType ==
  ASSUME NEW X, NEW ss \in Seq(Seq(X))
  PROVE  FlattenSeq(ss) \in Seq(X)
<1>1. Len(ss) \in Nat
  BY LenProperties
<1>2. CASE Len(ss) = 0
  BY <1>2, FlatSeq, EmptySeq
<1>3. CASE Len(ss) # 0
  <2>1. Len(ss) \in 1..Len(ss)
    BY <1>1, <1>3
  <2>2. QED
    BY <1>1, <1>3, <2>1, FlatSeq, FlatDef
<1>4. QED
  BY <1>2, <1>3

LEMMA FlatAppend ==
  ASSUME NEW X, NEW ss \in Seq(Seq(X)), NEW s \in Seq(X)
  PROVE  FlattenSeq(Append(ss, s)) = FlattenSeq(ss) \o s
<1> DEFINE N == Len(ss)
           tt == Append(ss, s)
<1>1. /\ N \in Nat /\ tt \in Seq(Seq(X)) /\ Len(tt) = N + 1
      /\ \A i \in 1..N : tt[i] = ss[i]
      /\ tt[N + 1] = s
  BY LenProperties, AppendProperties
<1> HIDE DEF N, tt
<1>2. /\ \A i \in 1..N : flat(ss)[i] \in Seq(X)
      /\ \A i \in 1..N : flat(ss)[i] = IF i = 1 THEN ss[i] ELSE flat(ss)[i - 1] \o ss[i]
  BY <1>1, FlatDef DEF N
<1>3. \A i \in 1..(N + 1) : flat(tt)[i] = IF i = 1 THEN tt[i] ELSE flat(tt)[i - 1] \o tt[i]
  <2>1. N + 1 \in Nat
    BY <1>1
  <2>2. QED
    BY <1>1, <2>1, FlatDef
<1> DEFINE S == {n \in 0..N : n > 0 => flat(tt)[n] = flat(ss)[n]}
<1>4. 0..N \subseteq S
  <2>1. 0 \in S
    BY <1>1
  <2>2. ASSUME NEW n \in 0..(N - 1), n \in S PROVE n + 1 \in S
    <3>1. n + 1 \in 1..N /\ n + 1 \in 1..(N + 1) /\ n + 1 \in 0..N /\ (n + 1) - 1 = n
      BY <1>1
    <3>2. CASE n = 0
      <4>1. 1 \in 1..N /\ 1 \in 1..(N + 1)
        BY <3>1, <3>2
      <4>2. flat(tt)[1] = tt[1] /\ flat(ss)[1] = ss[1] /\ tt[1] = ss[1]
        BY <1>1, <1>2, <1>3, <4>1
      <4>3. QED
        BY <3>1, <3>2, <4>2
    <3>3. CASE n > 0
      <4>1. flat(tt)[n] = flat(ss)[n]
        BY <2>2, <3>3
      <4>2. n + 1 # 1
        BY <3>3
      <4>3. /\ flat(tt)[n + 1] = flat(tt)[n] \o tt[n + 1]
            /\ flat(ss)[n + 1] = flat(ss)[n] \o ss[n + 1]
        BY <1>2, <1>3, <3>1, <4>2
      <4>4. tt[n + 1] = ss[n + 1]
        BY <1>1, <3>1
      <4>5. QED
        BY <3>1, <4>1, <4>3, <4>4
    <3>4. QED
      BY <3>2, <3>3
  <2> HIDE DEF S
  <2>3. QED
    BY <1>1, <2>1, <2>2, Inductive
<1>5. FlattenSeq(tt) = flat(tt)[N + 1]
  BY <1>1, FlatSeq
<1>6. CASE N = 0
  <2>1. flat(tt)[1] = s
    BY <1>1, <1>3, <1>6
  <2>2. FlattenSeq(ss) = <<>>
    BY <1>6, FlatSeq DEF N
  <2>3. QED
    BY <1>5, <1>6, <2>1, <2>2, ConcatEmptySeq DEF tt
<1>7. CASE N > 0
  <2>1. N \in 0..N /\ N + 1 \in 1..(N + 1) /\ (N + 1) - 1 = N /\ N + 1 # 1
    BY <1>1, <1>7
  <2>2. flat(tt)[N] = flat(ss)[N]
    BY <1>4, <1>7, <2>1
  <2>3. flat(tt)[N + 1] = flat(tt)[N] \o tt[N + 1]
    BY <1>3, <2>1
  <2>4. FlattenSeq(ss) = flat(ss)[N]
    BY <1>7, FlatSeq DEF N
  <2>5. QED
    BY <1>1, <1>5, <2>2, <2>3, <2>4 DEF tt
<1>8. QED
  BY <1>1, <1>6, <1>7

LEMMA ConcatStep ==
  ASSUME NEW X, NEW ss \in Seq(Seq(X)), NEW u \in Seq(Seq(X)), NEW x \in Seq(X),
         FlattenSeq(ss \o u) = FlattenSeq(ss) \o FlattenSeq(u)
  PROVE  FlattenSeq(ss \o Append(u, x)) = FlattenSeq(ss) \o FlattenSeq(Append(u, x))
<1>1. ss \o Append(u, x) = Append(ss \o u, x)
  <2>1. <<x>> \in Seq(Seq(X)) /\ ss \o u \in Seq(Seq(X))
    BY ConcatProperties
  <2>2. Append(u, x) = u \o <<x>> /\ Append(ss \o u, x) = (ss \o u) \o <<x>>
    BY <2>1, AppendIsConcat
  <2>3. (ss \o u) \o <<x>> = ss \o (u \o <<x>>)
    BY <2>1, ConcatAssociative
  <2>4. QED
    BY <2>2, <2>3
<1>2. ss \o u \in Seq(Seq(X))
  BY ConcatProperties
<1>3. FlattenSeq(ss) \in Seq(X) /\ FlattenSeq(u) \in Seq(X)
  BY FlatType
<1>4. (FlattenSeq(ss) \o FlattenSeq(u)) \o x = FlattenSeq(ss) \o (FlattenSeq(u) \o x)
  BY <1>3, ConcatAssociative
<1>5. FlattenSeq(Append(ss \o u, x)) = FlattenSeq(ss \o u) \o x
  BY <1>2, FlatAppend
<1>6. FlattenSeq(Append(u, x)) = FlattenSeq(u) \o x
  BY FlatAppend
<1>7. QED
  BY <1>1, <1>4, <1>5, <1>6

LEMMA FlatConcat ==
  ASSUME NEW X, NEW ss \in Seq(Seq(X)), NEW tt \in Seq(Seq(X))
  PROVE  FlattenSeq(ss \o tt) = FlattenSeq(ss) \o FlattenSeq(tt)
<1> DEFINE N == Len(tt)
           first(n) == SubSeq(tt, 1, n)
           S == {n \in 0..N : FlattenSeq(ss \o first(n))
                                   = FlattenSeq(ss) \o FlattenSeq(first(n))}
<1>1. N \in Nat /\ (\A i \in 1..N : tt[i] \in Seq(X)) /\ first(N) = tt /\ first(0) = <<>>
  BY LenProperties, ElementOfSeq, SubSeqFull, SubSeqEmpty
<1>2. \A n \in 0..N : first(n) \in Seq(Seq(X))
  <2>1. ASSUME NEW n \in 0..N PROVE first(n) \in Seq(Seq(X))
    <3>1. \A i \in 1..n : tt[i] \in Seq(X)
      BY <1>1
    <3>2. QED
      BY <3>1, SubSeqProperties
  <2>2. QED
    BY <2>1
<1>3. 0 \in S
  <2>1. ss \o <<>> = ss /\ FlattenSeq(ss) \o <<>> = FlattenSeq(ss)
    BY FlatType, ConcatEmptySeq
  <2>2. 0 \in 0..N
    BY <1>1
  <2>3. QED
    BY <1>1, <2>1, <2>2, FlatEmpty
<1>4. ASSUME NEW n \in 0..(N - 1), n \in S PROVE n + 1 \in S
  <2>1. n \in 0..N /\ n + 1 \in 1..N /\ n + 1 \in 0..N /\ 1 \in 1..N /\ (n + 1) - 1 = n
    BY <1>1
  <2>2. first(n) \in Seq(Seq(X)) /\ tt[n + 1] \in Seq(X)
    BY <1>1, <1>2, <2>1
  <2>3. first(n + 1) = Append(first(n), tt[n + 1])
    <3>1. first(n + 1) = first(n) \o <<tt[n + 1]>>
      BY <2>1, SubSeqRecursiveSecond
    <3>2. QED
      BY <2>2, <3>1, AppendIsConcat
  <2>4. FlattenSeq(ss \o first(n)) = FlattenSeq(ss) \o FlattenSeq(first(n))
    BY <1>4
  <2>5. FlattenSeq(ss \o first(n + 1)) = FlattenSeq(ss) \o FlattenSeq(first(n + 1))
    BY <2>2, <2>3, <2>4, ConcatStep
  <2>6. QED
    BY <2>1, <2>5
<1>5. 0..N \subseteq S
  <2> HIDE DEF S, N
  <2>1. QED
    BY <1>1, <1>3, <1>4, Inductive
<1>6. N \in 0..N
  BY <1>1
<1>7. N \in S
  BY <1>5, <1>6
<1>8. QED
  BY <1>1, <1>7

-----------------------------------------------------------------------------
(* The cells of a line.                                                    *)

CutState ==
  [cells : Seq(Seq(Token)), open : Seq(Token), at : {"first", "more", "file"},
   ends : 0..2, count : Nat]

LEMMA BeginType == Begin \in CutState
<1>1. <<>> \in Seq(Seq(Token)) /\ <<>> \in Seq(Token)
  BY EmptySeq
<1>2. QED
  BY <1>1 DEF Begin, CutState

LEMMA TokenizeType ==
  ASSUME NEW s \in CutState, NEW t \in Token
  PROVE  Tokenize(s, t) \in CutState
<1> DEFINE more == IF (IF t.n = 0 THEN 1 ELSE 2) = 2 THEN <<<<>>>> ELSE <<>>
<1>1. /\ s.cells \in Seq(Seq(Token)) /\ s.open \in Seq(Token)
      /\ s.ends \in 0..2 /\ s.count \in Nat /\ s.at \in {"first", "more", "file"}
  BY DEF CutState
<1>2. Append(s.open, t) \in Seq(Token) /\ <<t>> \in Seq(Token) /\ <<>> \in Seq(Token)
  BY <1>1, AppendProperties, EmptySeq
<1>3. Append(s.cells, s.open) \in Seq(Seq(Token))
  BY <1>1, AppendProperties
<1>4. s.cells \o <<s.open, <<t>>>> \o more \in Seq(Seq(Token))
  <2>1. <<s.open, <<t>>>> \in Seq(Seq(Token)) /\ more \in Seq(Seq(Token))
    BY <1>1, <1>2
  <2>2. s.cells \o <<s.open, <<t>>>> \in Seq(Seq(Token))
    BY <1>1, <2>1, ConcatProperties
  <2> HIDE DEF more
  <2>3. QED
    BY <2>1, <2>2, ConcatProperties
<1>5. Added(s, t) \in CutState
  BY <1>1, <1>2 DEF Added, CutState
<1>6. [Added(s, t) EXCEPT !.ends = 0, !.count = @ + 1] \in CutState
  <2> DEFINE r == Added(s, t)
  <2>1. /\ r.cells \in Seq(Seq(Token)) /\ r.open \in Seq(Token) /\ r.count \in Nat
        /\ r.at \in {"first", "more", "file"} /\ r \in CutState
    BY <1>5 DEF CutState
  <2>2. r.count + 1 \in Nat /\ 0 \in 0..2
    BY <2>1
  <2> HIDE DEF r
  <2>3. [r EXCEPT !.ends = 0, !.count = @ + 1] \in CutState
    BY <2>1, <2>2 DEF CutState
  <2>4. QED
    BY <2>3 DEF r
<1>7. Redirected(s, t) \in CutState
  <2> DEFINE cs == Append(s.cells, s.open)
             a == IF t.n = 0 THEN "file" ELSE "more"
             n == s.count + 1
  <2>1. cs \in Seq(Seq(Token)) /\ a \in {"first", "more", "file"} /\ n \in Nat
    BY <1>1, <1>3
  <2>2. Redirected(s, t) = [s EXCEPT !.cells = cs, !.open = <<t>>, !.at = a, !.count = n]
    BY DEF Redirected
  <2> HIDE DEF cs, a, n
  <2>3. QED
    BY <1>1, <1>2, <2>1, <2>2 DEF CutState
<1>8. Piped(s, t) \in CutState
  <2> DEFINE e == IF t.n = 0 THEN 1 ELSE 2
             cs == s.cells \o <<s.open, <<t>>>> \o more
             n == s.count + e
  <2>1. cs \in Seq(Seq(Token)) /\ e \in 0..2 /\ n \in Nat
    BY <1>1, <1>4
  <2>2. Piped(s, t) = [s EXCEPT !.cells = cs, !.open = <<>>, !.at = "first", !.ends = e,
                                !.count = n]
    BY DEF Piped
  <2> HIDE DEF cs, e, n
  <2>3. QED
    BY <1>1, <1>2, <2>1, <2>2 DEF CutState
<1>9. QED
  BY <1>5, <1>6, <1>7, <1>8 DEF Tokenize

LEMMA CutDef ==
  ASSUME NEW line \in Seq(Token), NEW N \in Nat, N = Len(line)
  PROVE  /\ \A i \in 0..N : Cut(line)[i] \in CutState
         /\ Cut(line)[0] = Begin
         /\ \A i \in 0..(N - 1) : Cut(line)[i + 1] = Tokenize(Cut(line)[i], line[i + 1])
<1> DEFINE E(f) == f = [i \in 0..N |-> IF i = 0 THEN Begin ELSE Tokenize(f[i - 1], line[i])]
<1>1. \A i \in 1..N : line[i] \in Token
  BY ElementOfSeq
<1>2. PICK c : /\ c \in [0..N -> CutState] /\ c[0] = Begin
               /\ \A i \in 0..(N - 1) : c[i + 1] = Tokenize(c[i], line[i + 1])
  <2> DEFINE F == [i \in 1..N |-> [s \in CutState |-> Tokenize(s, line[i])]]
  <2>1. F \in [1..N -> [CutState -> CutState]]
    BY <1>1, TokenizeType
  <2>2. \A i \in 1..N : \A s \in CutState : F[i][s] = Tokenize(s, line[i])
    OBVIOUS
  <2> HIDE DEF F
  <2>3. PICK c : Grows(c, N, CutState, Begin, F)
    BY <2>1, BeginType, Recursion, Zenon
  <2>4. ASSUME NEW i \in 0..(N - 1) PROVE c[i + 1] = Tokenize(c[i], line[i + 1])
    <3>1. i \in 0..N /\ i + 1 \in 1..N
      OBVIOUS
    <3>2. c[i] \in CutState /\ c[i + 1] = F[i + 1][c[i]]
      BY <2>3, <3>1, Zenon DEF Grows
    <3>3. QED
      BY <2>2, <3>1, <3>2, Zenon
  <2>5. QED
    BY <2>3, <2>4, Zenon DEF Grows
<1>3. \A i \in 0..N : c[i] = IF i = 0 THEN Begin ELSE Tokenize(c[i - 1], line[i])
  <2>1. ASSUME NEW i \in 0..N PROVE c[i] = IF i = 0 THEN Begin ELSE Tokenize(c[i - 1], line[i])
    <3>1. CASE i = 0
      BY <1>2, <3>1
    <3>2. CASE i # 0
      <4>1. i - 1 \in 0..(N - 1) /\ (i - 1) + 1 = i
        BY <3>2
      <4>2. c[(i - 1) + 1] = Tokenize(c[i - 1], line[(i - 1) + 1])
        BY <1>2, <4>1, Zenon
      <4>3. QED
        BY <3>2, <4>1, <4>2, Zenon
    <3>3. QED
      BY <3>1, <3>2
  <2>2. QED
    BY <2>1
<1>4. E(c)
  <2>1. c = [i \in 0..N |-> c[i]]
    BY <1>2
  <2>2. QED
    BY <1>3, <2>1, Zenon
<1>5. E(Cut(line))
  BY <1>4, Zenon DEF Cut
<1>6. \A i \in 0..N : Cut(line)[i] = IF i = 0 THEN Begin
                                     ELSE Tokenize(Cut(line)[i - 1], line[i])
  BY <1>5, Zenon
<1>7. Cut(line)[0] = Begin
  <2>1. 0 \in 0..N
    OBVIOUS
  <2>2. QED
    BY <1>6, <2>1, Zenon
<1>8. ASSUME NEW i \in 0..(N - 1) PROVE Cut(line)[i + 1] = Tokenize(Cut(line)[i], line[i + 1])
  <2>1. i + 1 \in 0..N /\ i + 1 # 0 /\ (i + 1) - 1 = i
    OBVIOUS
  <2>2. QED
    BY <1>6, <2>1, Zenon
<1> DEFINE S == {i \in 0..N : Cut(line)[i] \in CutState}
<1>9. 0 \in S
  BY <1>7, BeginType
<1>10. ASSUME NEW n \in 0..(N - 1), n \in S PROVE n + 1 \in S
  <2>1. n + 1 \in 0..N /\ n + 1 \in 1..N
    OBVIOUS
  <2>2. Cut(line)[n + 1] \in CutState
    BY <1>1, <1>8, <1>10, <2>1, TokenizeType
  <2>3. QED
    BY <2>1, <2>2
<1> HIDE DEF S
<1>11. 0..N \subseteq S
  BY <1>9, <1>10, Inductive
<1>12. \A i \in 0..N : Cut(line)[i] \in CutState
  BY <1>11 DEF S
<1>13. QED
  BY <1>7, <1>8, <1>12

-----------------------------------------------------------------------------
(* What the rules say of a token and the one before it.                    *)

LEMMA ClassOf ==
  ASSUME NEW t \in Token
  PROVE  /\ t.n \in Nat /\ t.is \in Word \union Operator
         /\ t.is \in Word => t.n = 0 /\ t.is \notin Operator
         /\ Class(t) = "STRING" <=> t.is \in Word
         /\ Class(t) = "NUMPIPE" <=> t.is \in {"|", "!"} /\ t.n > 0
         /\ Class(t) = "SYMBOL" <=> t.is \in {">", "|"} /\ t.n = 0
         /\ Class(t) = "none" <=> t.is = "!" /\ t.n = 0
<1>1. /\ t.n \in Nat /\ t.is \in Word \union Operator
      /\ t.is \in Word => t.n = 0 /\ t.is \notin Operator
  <2>1. CASE t \in [is : Word, n : {0}]
    BY <2>1, CommandAssumption
  <2>2. CASE t \in [is : Operator, n : {0} \union Number]
    <3>1. t.is \in Operator /\ t.is \notin Word /\ t.n \in {0} \union Number
      BY <2>2, CommandAssumption
    <3>2. QED
      BY <3>1, CommandAssumption, 0 \in Nat
  <2>3. QED
    BY <2>1, <2>2 DEF Token
<1>2. CASE t.is \in Word
  BY <1>1, <1>2 DEF Class, Operator
<1>3. CASE t.is \in Operator
  <2>1. t.is \notin Word
    BY <1>1, <1>3
  <2>2. CASE t.is = "|" /\ t.n = 0
    BY <1>1, <2>1, <2>2 DEF Class
  <2>3. CASE t.is = "|" /\ t.n > 0
    BY <1>1, <2>1, <2>3 DEF Class
  <2>4. CASE t.is = "!" /\ t.n = 0
    BY <1>1, <2>1, <2>4 DEF Class
  <2>5. CASE t.is = "!" /\ t.n > 0
    BY <1>1, <2>1, <2>5 DEF Class
  <2>6. CASE t.is = "<"
    BY <1>1, <2>1, <2>6 DEF Class
  <2>7. CASE t.is = ">" /\ t.n = 0
    BY <1>1, <2>1, <2>7 DEF Class
  <2>8. CASE t.is = ">" /\ t.n > 0
    BY <1>1, <2>1, <2>8 DEF Class
  <2>9. QED
    BY <1>1, <1>3, <2>2, <2>3, <2>4, <2>5, <2>6, <2>7, <2>8 DEF Operator
<1>4. QED
  BY <1>1, <1>2, <1>3

(* Where read_string is after token i of a line that follows the rules.    *)
Where(line, i) ==
  CASE i = 0                                      -> "first"
    [] i > 0 /\ line[i].is \in {"|", "!"}         -> "first"
    [] i > 0 /\ line[i].is = ">" /\ line[i].n = 0 -> "file"
    [] OTHER                                      -> "more"

LEMMA Follows ==
  ASSUME program \in Programs, NEW line \in Seq(Token), Legal(line), NEW i \in 1..Len(line)
  PROVE  /\ Where(line, i - 1) # "more" => line[i].is \in Word
         /\ line[i].is = "!" => line[i].n > 0
<1>1. /\ line[i] \in Token /\ (i > 1 => i - 1 \in 1..Len(line) /\ line[i - 1] \in Token)
      /\ i \in DOMAIN line
  BY ElementOfSeq, LenProperties
<1>2. CASE program = "simple"
  <2>1. \A j \in DOMAIN line : check(last_type(line, j), Class(line[j]))
    BY <1>2 DEF Legal, LegalIn
  <2>2. Class(line[i]) = "STRING" \/ (Class(line[i]) \in {"SYMBOL", "NUMPIPE"}
                                 /\ last_type(line, i) = "STRING")
    BY <1>1, <2>1 DEF check
  <2>3. Where(line, i - 1) # "more" => last_type(line, i) # "STRING"
    BY <1>1, ClassOf DEF Where, last_type, Operator
  <2>4. QED
    BY <1>1, <2>2, <2>3, ClassOf DEF Operator
<1>3. CASE program # "simple"
  <2>1. \A j \in DOMAIN line : check_network(last_type(line, j), Class(line[j]))
    BY <1>3 DEF Legal, LegalIn
  <2>2. /\ Class(line[i]) # "none"
        /\ Class(line[i]) # "STRING" => last_type(line, i) \notin {"SYMBOL", "start"}
    BY <1>1, <2>1 DEF check_network
  <2>3. i > 1 => Class(line[i - 1]) # "none"
    BY <1>1, <2>1, LenProperties DEF check_network
  <2>4. Where(line, i - 1) # "more" => last_type(line, i) \in {"SYMBOL", "start"}
    BY <1>1, <2>3, ClassOf DEF Where, last_type, Operator
  <2>5. QED
    BY <1>1, <2>2, <2>4, ClassOf DEF Operator
<1>4. QED
  BY <1>2, <1>3

-----------------------------------------------------------------------------
(* Counting.                                                               *)

Blank(cells) == {k \in 1..Len(cells) : cells[k] = <<>>}

NumAt(line, i) == {j \in 1..i : Class(line[j]) = "NUMPIPE"}

LEMMA BlankAppend ==
  ASSUME NEW cells \in Seq(Seq(Token)), NEW c \in Seq(Token)
  PROVE  /\ IsFiniteSet(Blank(cells)) /\ Cardinality(Blank(cells)) \in Nat
         /\ Cardinality(Blank(Append(cells, c))) =
              Cardinality(Blank(cells)) + (IF c = <<>> THEN 1 ELSE 0)
<1> DEFINE L == Len(cells)
<1>1. /\ L \in Nat /\ Len(Append(cells, c)) = L + 1
      /\ \A k \in 1..L : Append(cells, c)[k] = cells[k]
      /\ Append(cells, c)[L + 1] = c
  BY LenProperties, AppendProperties
<1>2. IsFiniteSet(Blank(cells)) /\ Cardinality(Blank(cells)) \in Nat
  <2>1. Blank(cells) \in SUBSET (1..L) /\ IsFiniteSet(1..L)
    BY <1>1, FS_Interval DEF Blank
  <2>2. IsFiniteSet(Blank(cells))
    BY <2>1, FS_Subset
  <2>3. QED
    BY <2>2, FS_CardinalityType
<1>3. Blank(Append(cells, c)) = Blank(cells) \union (IF c = <<>> THEN {L + 1} ELSE {})
  BY <1>1 DEF Blank
<1>4. L + 1 \notin Blank(cells)
  BY <1>1 DEF Blank
<1>5. CASE c = <<>>
  <2>1. Cardinality(Blank(cells) \union {L + 1}) = Cardinality(Blank(cells)) + 1
    BY <1>2, <1>4, FS_AddElement
  <2>2. QED
    BY <1>2, <1>3, <1>5, <2>1
<1>6. CASE c # <<>>
  BY <1>2, <1>3, <1>6
<1>7. QED
  BY <1>5, <1>6

LEMMA NumAtNext ==
  ASSUME NEW line, NEW i \in Nat
  PROVE  /\ IsFiniteSet(NumAt(line, i)) /\ Cardinality(NumAt(line, i)) \in Nat
         /\ Cardinality(NumAt(line, i + 1)) =
              Cardinality(NumAt(line, i)) + (IF Class(line[i + 1]) = "NUMPIPE" THEN 1 ELSE 0)
<1>1. IsFiniteSet(NumAt(line, i)) /\ Cardinality(NumAt(line, i)) \in Nat
  <2>1. NumAt(line, i) \in SUBSET (1..i) /\ IsFiniteSet(1..i)
    BY FS_Interval DEF NumAt
  <2>2. IsFiniteSet(NumAt(line, i))
    BY <2>1, FS_Subset
  <2>3. QED
    BY <2>2, FS_CardinalityType
<1>2. NumAt(line, i + 1) =
        NumAt(line, i) \union (IF Class(line[i + 1]) = "NUMPIPE" THEN {i + 1} ELSE {})
  BY DEF NumAt
<1>3. i + 1 \notin NumAt(line, i)
  BY DEF NumAt
<1>4. CASE Class(line[i + 1]) = "NUMPIPE"
  <2>1. Cardinality(NumAt(line, i) \union {i + 1}) = Cardinality(NumAt(line, i)) + 1
    BY <1>1, <1>3, FS_AddElement
  <2>2. QED
    BY <1>1, <1>2, <1>4, <2>1
<1>5. CASE Class(line[i + 1]) # "NUMPIPE"
  BY <1>1, <1>2, <1>5
<1>6. QED
  BY <1>4, <1>5

-----------------------------------------------------------------------------
(* The cells after i tokens of a line that follows the rules.              *)

CellsOf(s, line, i) ==
  /\ s.at = Where(line, i)
  /\ s.open = <<>> <=> s.at = "first"
  /\ s.count = Len(s.cells) + (IF s.at = "first" THEN 0 ELSE 1)
  /\ FlattenSeq(s.cells) \o s.open = SubSeq(line, 1, i)
  /\ s.ends = 2 <=> (i > 0 /\ Class(line[i]) = "NUMPIPE")
  /\ s.at = "first" => (s.ends = 2 <=> s.cells # <<>> /\ s.cells[Len(s.cells)] = <<>>)
  /\ \A k \in 1..Len(s.cells) : s.cells[k] = <<>> => k > 1 /\ s.cells[k - 1] # <<>>
  /\ Cardinality(Blank(s.cells)) = Cardinality(NumAt(line, i))

LEMMA TwoMore ==
  ASSUME NEW S, NEW s \in Seq(S), NEW a \in S, NEW b \in S
  PROVE  s \o <<a, b>> = Append(Append(s, a), b)
OBVIOUS

LEMMA JustTwo ==
  ASSUME NEW S, NEW a \in S, NEW b \in S
  PROVE  Append(Append(<<>>, a), b) = <<a, b>>
<1>1. \A s \in Seq(S) : s \o <<a, b>> = Append(Append(s, a), b)
  OBVIOUS
<1>2. <<>> \in Seq(S) /\ <<a, b>> \in Seq(S)
  OBVIOUS
<1>3. <<>> \o <<a, b>> = Append(Append(<<>>, a), b)
  BY <1>1, <1>2, Zenon
<1>4. <<>> \o <<a, b>> = <<a, b>>
  BY <1>2, ConcatEmptySeq
<1>5. QED
  BY <1>3, <1>4, Zenon

LEMMA PipedIs ==
  ASSUME NEW s \in CutState, NEW t \in Token
  PROVE  LET two == Append(Append(s.cells, s.open), <<t>>) IN
         Piped(s, t).cells = IF t.n = 0 THEN two ELSE Append(two, <<>>)
<1> DEFINE two == Append(Append(s.cells, s.open), <<t>>)
<1>1. /\ s.cells \in Seq(Seq(Token)) /\ s.open \in Seq(Token) /\ <<t>> \in Seq(Token)
      /\ <<>> \in Seq(Token)
  BY DEF CutState
<1>2. two \in Seq(Seq(Token)) /\ s.cells \o <<s.open, <<t>>>> = two
  BY <1>1, TwoMore, AppendProperties
<1>3. Piped(s, t).cells =
        (s.cells \o <<s.open, <<t>>>>) \o (IF t.n = 0 THEN <<>> ELSE <<<<>>>>)
  BY DEF Piped, CutState
<1> HIDE DEF two
<1>4. two \o <<>> = two /\ two \o <<<<>>>> = Append(two, <<>>)
  BY <1>1, <1>2, ConcatEmptySeq, AppendIsConcat
<1>5. QED
  BY <1>2, <1>3, <1>4 DEF two

LEMMA OneMore ==
  ASSUME NEW line \in Seq(Token), NEW i \in Nat, i < Len(line)
  PROVE  SubSeq(line, 1, i + 1) = SubSeq(line, 1, i) \o <<line[i + 1]>>
<1>1. 1 \in 1..Len(line) /\ i + 1 \in 1..Len(line) /\ (i + 1) - 1 = i
  BY LenProperties
<1>2. QED
  BY <1>1, SubSeqRecursiveSecond

LEMMA ConcatAppend ==
  ASSUME NEW X, NEW a \in Seq(X), NEW b \in Seq(X), NEW x \in X
  PROVE  a \o Append(b, x) = (a \o b) \o <<x>>
<1>1. <<x>> \in Seq(X) /\ Append(b, x) = b \o <<x>>
  BY AppendIsConcat
<1>2. (a \o b) \o <<x>> = a \o (b \o <<x>>)
  BY <1>1, ConcatAssociative
<1>3. QED
  BY <1>1, <1>2

(* Append, value by value.                                                 *)
LEMMA Longer ==
  ASSUME NEW X, NEW a \in Seq(X), NEW n \in Nat, Len(a) = n, NEW x \in X
  PROVE  /\ Append(a, x) \in Seq(X) /\ Len(Append(a, x)) = n + 1
         /\ Append(a, x)[n + 1] = x /\ \A k \in 1..n : Append(a, x)[k] = a[k]
BY AppendProperties

LEMMA CutStep ==
  ASSUME program \in Programs, NEW line \in Seq(Token), Legal(line), NEW i \in Nat,
         i < Len(line), NEW s \in CutState, CellsOf(s, line, i)
  PROVE  CellsOf(Tokenize(s, line[i + 1]), line, i + 1)
<1> DEFINE t == line[i + 1]
           r == Tokenize(s, t)
           cs == s.cells
           L == Len(cs)
           flat0 == FlattenSeq(cs)
<1>1. /\ t \in Token /\ i + 1 \in 1..Len(line) /\ (i + 1) - 1 = i
      /\ SubSeq(line, 1, i + 1) = SubSeq(line, 1, i) \o <<t>>
      /\ <<t>> \in Seq(Token) /\ <<t>> # <<>> /\ <<>> \in Seq(Token)
  BY LenProperties, ElementOfSeq, OneMore
<1>2. /\ cs \in Seq(Seq(Token)) /\ s.open \in Seq(Token) /\ L \in Nat
      /\ s.ends \in 0..2 /\ s.count \in Nat /\ s.at \in {"first", "more", "file"}
      /\ flat0 \in Seq(Token) /\ r \in CutState
  BY <1>1, LenProperties, FlatType, TokenizeType DEF CutState
<1>3. /\ s.at = Where(line, i)
      /\ s.open = <<>> <=> s.at = "first"
      /\ s.count = L + (IF s.at = "first" THEN 0 ELSE 1)
      /\ flat0 \o s.open = SubSeq(line, 1, i)
      /\ s.ends = 2 <=> (i > 0 /\ Class(line[i]) = "NUMPIPE")
      /\ s.at = "first" => (s.ends = 2 <=> cs # <<>> /\ cs[L] = <<>>)
      /\ \A k \in 1..L : cs[k] = <<>> => k > 1 /\ cs[k - 1] # <<>>
      /\ Cardinality(Blank(cs)) = Cardinality(NumAt(line, i))
  BY DEF CellsOf
<1>3a. \A k \in 1..L : cs[k] = <<>> => k > 1 /\ cs[k - 1] # <<>>
  BY <1>3
<1>4. /\ s.at # "more" => t.is \in Word
      /\ t.is = "!" => t.n > 0
  BY <1>1, <1>3, Follows
<1>5. /\ t.n \in Nat /\ t.is \in Word \union Operator
      /\ t.is \in Word => t.n = 0 /\ t.is \notin Operator
      /\ Class(t) = "NUMPIPE" <=> t.is \in {"|", "!"} /\ t.n > 0
  BY <1>1, ClassOf
<1>6. /\ Cardinality(NumAt(line, i)) \in Nat
      /\ Cardinality(NumAt(line, i + 1)) =
           Cardinality(NumAt(line, i)) + (IF Class(t) = "NUMPIPE" THEN 1 ELSE 0)
  BY NumAtNext
<1>7. s.at = "more" => s.ends # 2
  <2>1. i > 0 => line[i] \in Token
    BY ElementOfSeq, LenProperties
  <2>2. QED
    BY <1>3, <2>1, ClassOf DEF Where, Operator
<1>8. Where(line, i + 1) = IF t.is \in {"|", "!"} THEN "first"
                           ELSE IF t.is = ">" /\ t.n = 0 THEN "file" ELSE "more"
  BY DEF Where
<1> HIDE DEF t, L, flat0, cs
<1>9. ASSUME r.cells = cs, r.open = Append(s.open, t), r.at = "more", r.ends # 2,
             r.count = L + 1, t.is \notin {"|", "!"}, ~(t.is = ">" /\ t.n = 0)
      PROVE  CellsOf(r, line, i + 1)
  <2>1. r.open # <<>>
    <3>1. t \in Token /\ s.open \in Seq(Token)
      BY <1>1, <1>2
    <3>2. Append(s.open, t) # <<>>
      BY <3>1, AppendProperties
    <3>3. QED
      BY <1>9, <3>2
  <2>2. flat0 \o Append(s.open, t) = SubSeq(line, 1, i + 1)
    <3>1. flat0 \in Seq(Token) /\ s.open \in Seq(Token) /\ t \in Token
      BY <1>1, <1>2
    <3>2. flat0 \o Append(s.open, t) = (flat0 \o s.open) \o <<t>>
      BY <3>1, ConcatAppend
    <3>3. QED
      BY <1>1, <1>3, <3>2
  <2> HIDE DEF r
  <2>3. QED
    BY <1>3, <1>5, <1>6, <1>8, <1>9, <2>1, <2>2 DEF CellsOf, cs, L, flat0, t
<1> DEFINE cs1 == Append(cs, s.open)
           cs2 == Append(cs1, <<t>>)
<1>10. ASSUME s.at = "more"
       PROVE  /\ cs1 \in Seq(Seq(Token)) /\ Len(cs1) = L + 1 /\ cs1[L + 1] = s.open
              /\ \A k \in 1..L : cs1[k] = cs[k]
              /\ s.open # <<>>
              /\ FlattenSeq(cs1) = SubSeq(line, 1, i)
              /\ Cardinality(Blank(cs1)) = Cardinality(NumAt(line, i))
  <2>1. s.open # <<>>
    BY <1>3, <1>10
  <2>2. /\ cs1 \in Seq(Seq(Token)) /\ Len(cs1) = L + 1 /\ cs1[L + 1] = s.open
        /\ \A k \in 1..L : cs1[k] = cs[k]
    BY <1>2, AppendProperties DEF L
  <2>3. FlattenSeq(cs1) = SubSeq(line, 1, i)
    BY <1>2, <1>3, FlatAppend DEF flat0
  <2>4. Cardinality(Blank(cs1)) = Cardinality(Blank(cs))
    BY <1>2, <2>1, BlankAppend
  <2>5. QED
    BY <1>3, <2>1, <2>2, <2>3, <2>4
<1>11. ASSUME s.at = "more", r.cells = cs1, r.open = <<t>>,
              r.at = (IF t.n = 0 THEN "file" ELSE "more"), r.ends = s.ends,
              r.count = s.count + 1, t.is \in {">", "<"}, t.is = "<" => t.n > 0
       PROVE  CellsOf(r, line, i + 1)
  <2>1. \A k \in 1..(L + 1) : cs1[k] = <<>> => k > 1 /\ cs1[k - 1] # <<>>
    <3>1. ASSUME NEW k \in 1..(L + 1), cs1[k] = <<>> PROVE k > 1 /\ cs1[k - 1] # <<>>
      <4>1. k \in 1..L /\ cs[k] = <<>>
        BY <1>2, <1>10, <1>11, <3>1
      <4>2. k > 1 /\ cs[k - 1] # <<>> /\ k - 1 \in 1..L
        <5>1. L \in Nat
          BY <1>2
        <5>2. k > 1 /\ cs[k - 1] # <<>>
          BY <1>3a, <4>1
        <5>3. QED
          BY <4>1, <5>1, <5>2
      <4>3. QED
        BY <1>10, <1>11, <4>2
    <3>2. QED
      BY <3>1
  <2>2. r.at = Where(line, i + 1) /\ r.at # "first" /\ r.open # <<>> /\ r.ends # 2
    BY <1>1, <1>7, <1>8, <1>11
  <2>3. FlattenSeq(r.cells) \o r.open = SubSeq(line, 1, i + 1)
    BY <1>1, <1>10, <1>11
  <2>4. r.count = Len(r.cells) + 1
    BY <1>3, <1>10, <1>11, <1>2
  <2>5. Class(t) # "NUMPIPE"
    BY <1>5, <1>11
  <2>6. Cardinality(Blank(r.cells)) = Cardinality(NumAt(line, i + 1))
    BY <1>6, <1>10, <1>11, <2>5
  <2>7. Len(r.cells) = L + 1
    BY <1>10, <1>11
  <2> HIDE DEF r, cs1, cs2
  <2>8. QED
    BY <1>11, <2>1, <2>2, <2>3, <2>4, <2>5, <2>6, <2>7 DEF CellsOf, t
<1>12. ASSUME s.at = "more", t.is \in {"|", "!"},
              r.cells = (IF t.n = 0 THEN cs2 ELSE Append(cs2, <<>>)),
              r.open = <<>>, r.at = "first", r.ends = (IF t.n = 0 THEN 1 ELSE 2),
              r.count = s.count + (IF t.n = 0 THEN 1 ELSE 2)
       PROVE  CellsOf(r, line, i + 1)
  <2>0. L \in Nat /\ s.count = L + 1
    BY <1>2, <1>3, <1>12
  <2>1. /\ cs2 \in Seq(Seq(Token)) /\ Len(cs2) = L + 2 /\ cs2[L + 2] = <<t>>
        /\ \A k \in 1..(L + 1) : cs2[k] = cs1[k]
    <3>1. cs1 \in Seq(Seq(Token)) /\ Len(cs1) = L + 1
      BY <1>10, <1>12
    <3>2. L + 1 \in Nat /\ (L + 1) + 1 = L + 2 /\ <<t>> \in Seq(Token)
      BY <1>1, <2>0
    <3> HIDE DEF cs1
    <3>3. /\ cs2 \in Seq(Seq(Token)) /\ Len(cs2) = (L + 1) + 1 /\ cs2[(L + 1) + 1] = <<t>>
          /\ \A k \in 1..(L + 1) : cs2[k] = cs1[k]
      BY <3>1, <3>2, Longer
    <3>4. QED
      BY <3>2, <3>3
  <2>2. /\ FlattenSeq(cs2) = SubSeq(line, 1, i + 1)
        /\ Cardinality(Blank(cs2)) = Cardinality(NumAt(line, i))
    <3>1. /\ cs1 \in Seq(Seq(Token)) /\ FlattenSeq(cs1) = SubSeq(line, 1, i)
          /\ Cardinality(Blank(cs1)) = Cardinality(NumAt(line, i))
      BY <1>10, <1>12
    <3> HIDE DEF cs1
    <3>2. FlattenSeq(cs2) = FlattenSeq(cs1) \o <<t>>
      BY <1>1, <3>1, FlatAppend
    <3>3. Cardinality(Blank(cs2)) = Cardinality(Blank(cs1)) + 0
      BY <1>1, <3>1, BlankAppend
    <3>4. FlattenSeq(cs2) = SubSeq(line, 1, i + 1)
      BY <1>1, <3>1, <3>2
    <3>5. Cardinality(Blank(cs2)) = Cardinality(NumAt(line, i))
      BY <1>6, <3>1, <3>3
    <3>6. QED
      BY <3>4, <3>5
  <2>4. \A k \in 1..(L + 2) : cs2[k] = <<>> => k > 1 /\ cs2[k - 1] # <<>>
    <3>1. ASSUME NEW k \in 1..(L + 2), cs2[k] = <<>> PROVE k > 1 /\ cs2[k - 1] # <<>>
      <4>1. k \in 1..L /\ cs[k] = <<>>
        <5>1. k # L + 2
          BY <1>1, <2>1, <3>1
        <5>2. k # L + 1
          BY <1>2, <1>10, <1>12, <2>1, <3>1
        <5>3. k \in 1..L
          BY <1>2, <5>1, <5>2
        <5>4. QED
          BY <1>2, <1>10, <1>12, <2>1, <3>1, <5>3
      <4>2. k > 1 /\ cs[k - 1] # <<>> /\ k - 1 \in 1..L
        <5>1. L \in Nat
          BY <1>2
        <5>2. k > 1 /\ cs[k - 1] # <<>>
          BY <1>3a, <4>1
        <5>3. QED
          BY <4>1, <5>1, <5>2
      <4>3. cs2[k - 1] = cs[k - 1]
        BY <1>2, <1>10, <1>12, <2>1, <4>2
      <4>4. QED
        BY <4>2, <4>3
    <3>2. QED
      BY <3>1
  <2>5. r.at = Where(line, i + 1)
    BY <1>8, <1>12
  <2>6. Class(t) = "NUMPIPE" <=> t.n > 0
    BY <1>5, <1>12
  <2> HIDE DEF r, cs1
  <2>7. CASE t.n = 0
    <3>1. r.cells = cs2 /\ r.ends = 1 /\ r.count = L + 2
      BY <1>12, <2>0, <2>7
    <3>2. FlattenSeq(r.cells) \o r.open = SubSeq(line, 1, i + 1)
      <4>1. FlattenSeq(cs2) \in Seq(Token)
        BY <2>1, FlatType
      <4>2. QED
        BY <1>12, <2>2, <3>1, <4>1, ConcatEmptySeq
    <3>3. r.cells[Len(r.cells)] # <<>>
      BY <1>1, <2>1, <3>1
    <3> HIDE DEF cs2
    <3>4. Cardinality(Blank(r.cells)) = Cardinality(NumAt(line, i + 1))
      BY <1>6, <2>2, <2>6, <2>7, <3>1
    <3>5. r.count = Len(r.cells) + 0
      BY <2>0, <2>1, <3>1
    <3>6. \A k \in 1..Len(r.cells) : r.cells[k] = <<>> => k > 1 /\ r.cells[k - 1] # <<>>
      BY <2>1, <2>4, <3>1
    <3>7. Class(line[i + 1]) # "NUMPIPE"
      BY <2>6, <2>7 DEF t
    <3>8. /\ r.ends # 2 /\ r.open = <<>> /\ r.at = "first"
          /\ ~(r.cells # <<>> /\ r.cells[Len(r.cells)] = <<>>)
      BY <1>12, <3>1, <3>3
    <3>9. QED
      BY <2>5, <3>2, <3>4, <3>5, <3>6, <3>7, <3>8 DEF CellsOf
  <2>8. CASE t.n > 0
    <3> DEFINE cs3 == Append(cs2, <<>>)
    <3>1. /\ r.cells = cs3 /\ r.ends = 2 /\ r.count = L + 3
      BY <1>12, <2>0, <2>8
    <3> HIDE DEF cs2
    <3>2. /\ cs3 \in Seq(Seq(Token)) /\ Len(cs3) = L + 3 /\ cs3[L + 3] = <<>>
          /\ \A k \in 1..(L + 2) : cs3[k] = cs2[k]
      <4>1. L + 2 \in Nat /\ (L + 2) + 1 = L + 3
        BY <1>2
      <4>2. cs2 \in Seq(Seq(Token)) /\ Len(cs2) = L + 2 /\ <<>> \in Seq(Token)
        BY <1>1, <2>1
      <4>3. QED
        BY <4>1, <4>2, Longer
    <3>3. FlattenSeq(cs3) \o <<>> = SubSeq(line, 1, i + 1)
      <4>1. FlattenSeq(cs2) \in Seq(Token)
        BY <2>1, FlatType
      <4>2. FlattenSeq(cs3) = FlattenSeq(cs2) \o <<>>
        BY <1>1, <2>1, FlatAppend
      <4>3. QED
        BY <2>2, <4>1, <4>2, ConcatEmptySeq
    <3>4. Cardinality(Blank(cs3)) = Cardinality(NumAt(line, i)) + 1
      BY <1>1, <2>1, <2>2, BlankAppend
    <3>5. \A k \in 1..(L + 3) : cs3[k] = <<>> => k > 1 /\ cs3[k - 1] # <<>>
      <4>1. ASSUME NEW k \in 1..(L + 3), cs3[k] = <<>> PROVE k > 1 /\ cs3[k - 1] # <<>>
        <5>1. CASE k = L + 3
          <6>1. k - 1 = L + 2 /\ k > 1 /\ L + 2 \in 1..(L + 2)
            BY <1>2, <5>1
          <6>2. QED
            BY <1>1, <2>1, <3>2, <6>1
        <5>2. CASE k \in 1..(L + 2)
          <6>1. cs2[k] = <<>>
            BY <3>2, <4>1, <5>2
          <6>2. k > 1 /\ cs2[k - 1] # <<>> /\ k - 1 \in 1..(L + 2)
            BY <1>2, <2>4, <5>2, <6>1
          <6>3. QED
            BY <3>2, <6>2
        <5>3. L \in Nat
          BY <1>2
        <5>4. k = L + 3 \/ k \in 1..(L + 2)
          BY <5>3
        <5>5. QED
          BY <5>1, <5>2, <5>4
      <4>2. QED
        BY <4>1
    <3> HIDE DEF cs3
    <3>6. cs3 # <<>>
      BY <1>2, <3>2
    <3>7. Cardinality(Blank(r.cells)) = Cardinality(NumAt(line, i + 1))
      BY <1>6, <2>6, <2>8, <3>1, <3>4
    <3>8. r.count = Len(r.cells) + 0 /\ r.cells[Len(r.cells)] = <<>>
      BY <2>0, <3>1, <3>2
    <3>9. \A k \in 1..Len(r.cells) : r.cells[k] = <<>> => k > 1 /\ r.cells[k - 1] # <<>>
      BY <3>1, <3>2, <3>5
    <3>10. Class(line[i + 1]) = "NUMPIPE" /\ i + 1 > 0
      BY <2>6, <2>8 DEF t
    <3>11. FlattenSeq(r.cells) \o r.open = SubSeq(line, 1, i + 1)
      BY <1>12, <3>1, <3>3
    <3>12. QED
      BY <1>12, <2>5, <3>1, <3>6, <3>7, <3>8, <3>9, <3>10, <3>11 DEF CellsOf
  <2>9. QED
    BY <1>5, <2>7, <2>8
<1> HIDE DEF cs1, cs2
<1>13. CASE s.at = "first"
  <2>1. r = [Added(s, t) EXCEPT !.ends = 0, !.count = @ + 1]
    BY <1>13 DEF Tokenize
  <2>2. /\ r.cells = cs /\ r.open = Append(s.open, t) /\ r.at = "more" /\ r.ends # 2
        /\ r.count = L + 1
    BY <1>2, <1>3, <1>13, <2>1 DEF Added, CutState, cs
  <2>3. t.is \notin {"|", "!", ">"}
    BY <1>4, <1>5, <1>13 DEF Operator
  <2> HIDE DEF r
  <2>4. CellsOf(r, line, i + 1)
    BY <1>9, <2>2, <2>3
  <2>5. QED
    BY <2>4 DEF r, t
<1>14. CASE s.at = "more" /\ t.is \in {"|", "!"}
  <2>1. r = Piped(s, t)
    BY <1>14 DEF Tokenize
  <2>2. r.cells = IF t.n = 0 THEN cs2 ELSE Append(cs2, <<>>)
    BY <1>1, <2>1, PipedIs DEF cs, cs1, cs2
  <2>3. /\ r.open = <<>> /\ r.at = "first" /\ r.ends = (IF t.n = 0 THEN 1 ELSE 2)
        /\ r.count = s.count + (IF t.n = 0 THEN 1 ELSE 2)
    BY <2>1 DEF Piped, CutState
  <2> HIDE DEF r
  <2>4. CellsOf(r, line, i + 1)
    BY <1>12, <1>14, <2>2, <2>3
  <2>5. QED
    BY <2>4 DEF r, t
<1>15. CASE s.at = "more" /\ (t.is = ">" \/ (t.is = "<" /\ t.n > 0))
  <2>1. r = Redirected(s, t)
    BY <1>15 DEF Tokenize
  <2>2. /\ r.cells = cs1 /\ r.open = <<t>> /\ r.at = (IF t.n = 0 THEN "file" ELSE "more")
        /\ r.ends = s.ends /\ r.count = s.count + 1
    BY <2>1 DEF Redirected, CutState, cs1, cs
  <2> HIDE DEF r
  <2>3. CellsOf(r, line, i + 1)
    BY <1>11, <1>15, <2>2
  <2>4. QED
    BY <2>3 DEF r, t
<1>16. CASE /\ s.at # "first" /\ ~(s.at = "more" /\ t.is \in {"|", "!"})
            /\ ~(s.at = "more" /\ (t.is = ">" \/ (t.is = "<" /\ t.n > 0)))
  <2>1. r = Added(s, t)
    BY <1>16 DEF Tokenize
  <2>2. /\ r.cells = cs /\ r.open = Append(s.open, t) /\ r.at = "more" /\ r.ends = s.ends
        /\ r.count = L + 1
    BY <1>2, <1>3, <1>16, <2>1 DEF Added, CutState, cs
  <2>3. s.ends # 2
    <3>1. i > 0 => line[i] \in Token
      BY ElementOfSeq, LenProperties
    <3>2. QED
      BY <1>3, <1>16, <3>1, ClassOf DEF Where, Operator
  <2>4. t.is \notin {"|", "!", ">"}
    BY <1>2, <1>4, <1>5, <1>16 DEF Operator
  <2> HIDE DEF r
  <2>5. CellsOf(r, line, i + 1)
    BY <1>9, <2>2, <2>3, <2>4
  <2>6. QED
    BY <2>5 DEF r, t
<1>17. QED
  BY <1>13, <1>14, <1>15, <1>16 DEF t

LEMMA BeginCells == ASSUME NEW line PROVE CellsOf(Begin, line, 0)
<1>1. /\ Begin.cells = <<>> /\ Begin.open = <<>> /\ Begin.at = "first" /\ Begin.ends = 0
      /\ Begin.count = 0
  BY DEF Begin
<1>2. Len(<<>>) = 0 /\ Where(line, 0) = "first"
  BY DEF Where
<1>3. FlattenSeq(<<>>) \o <<>> = SubSeq(line, 1, 0)
  <2>1. <<>> \o <<>> = <<>>
    BY EmptySeq, ConcatEmptySeq
  <2>2. SubSeq(line, 1, 0) = <<>>
    BY SubSeqEmpty
  <2>3. QED
    BY <2>1, <2>2, FlatEmpty
<1>4. Cardinality(Blank(<<>>)) = Cardinality(NumAt(line, 0))
  <2>1. Blank(<<>>) = {} /\ NumAt(line, 0) = {}
    BY DEF Blank, NumAt
  <2>2. QED
    BY <2>1
<1>5. \A k \in 1..Len(<<>>) : FALSE
  BY <1>2
<1> HIDE DEF Begin
<1>6. QED
  BY <1>1, <1>2, <1>3, <1>4, <1>5 DEF CellsOf

LEMMA CutCells ==
  ASSUME program \in Programs, NEW line \in Seq(Token), Legal(line)
  PROVE  Cut(line)[Len(line)] \in CutState /\ CellsOf(Cut(line)[Len(line)], line, Len(line))
<1> DEFINE N == Len(line)
           S == {i \in 0..N : CellsOf(Cut(line)[i], line, i)}
<1>1. N \in Nat
  BY LenProperties
<1>2. /\ \A i \in 0..N : Cut(line)[i] \in CutState
      /\ Cut(line)[0] = Begin
      /\ \A i \in 0..(N - 1) : Cut(line)[i + 1] = Tokenize(Cut(line)[i], line[i + 1])
  BY <1>1, CutDef
<1>3. 0 \in S
  <2>1. CellsOf(Begin, line, 0)
    BY BeginCells
  <2>2. 0 \in 0..N
    BY <1>1
  <2>3. QED
    BY <1>2, <2>1, <2>2
<1>4. ASSUME NEW i \in 0..(N - 1), i \in S PROVE i + 1 \in S
  <2>1. /\ i \in Nat /\ i < N /\ i \in 0..N /\ i + 1 \in 0..N
        /\ Cut(line)[i] \in CutState /\ CellsOf(Cut(line)[i], line, i)
    BY <1>1, <1>2, <1>4
  <2>2. CellsOf(Tokenize(Cut(line)[i], line[i + 1]), line, i + 1)
    BY <2>1, CutStep
  <2>3. QED
    BY <1>2, <2>1, <2>2
<1> HIDE DEF S
<1>5. 0..N \subseteq S
  BY <1>1, <1>3, <1>4, Inductive
<1>6. N \in 0..N
  BY <1>1
<1>7. QED
  BY <1>2, <1>5, <1>6 DEF S

(* What read_string gives for a line.                                      *)
Ended(cells) == {k \in 2..Len(cells) : cells[k] = <<>> /\ cells[k - 1] # <<>>}

ReadOf(r, line) ==
  /\ r.cells \in Seq(Seq(Token)) /\ Len(r.cells) > 0
  /\ r.count = Len(r.cells)
  /\ r.cells[Len(r.cells)] = <<>>
  /\ \A k \in 2..Len(r.cells) : r.cells[k] = <<>> => r.cells[k - 1] # <<>>
  /\ FlattenSeq(r.cells) = line
  /\ IsFiniteSet(Ended(r.cells)) /\ Cardinality(Ended(r.cells)) = Instructions(program, line)

LEMMA ReadsLegal ==
  ASSUME program \in Programs, NEW line \in Seq(Token), Legal(line), line # <<>>
  PROVE  ReadOf(read_string(line), line)
<1> DEFINE N == Len(line)
           s == Cut(line)[N]
           cs == s.cells
           L == Len(cs)
           r == read_string(line)
<1>1. N \in Nat /\ N > 0 /\ line[N] \in Token /\ N \in 1..Len(line) /\ (N - 1) + 1 = N
  BY EmptySeq, LenProperties, ElementOfSeq
<1>2. s \in CutState /\ CellsOf(s, line, N)
  BY CutCells
<1>3. r = Finish(s)
  BY DEF read_string
<1>4. /\ cs \in Seq(Seq(Token)) /\ s.open \in Seq(Token) /\ L \in Nat
      /\ s.ends \in 0..2 /\ s.count \in Nat
  BY <1>2, LenProperties DEF CutState
<1>5. /\ s.at = Where(line, N)
      /\ s.open = <<>> <=> s.at = "first"
      /\ s.count = L + (IF s.at = "first" THEN 0 ELSE 1)
      /\ FlattenSeq(cs) \o s.open = line
      /\ s.ends = 2 <=> Class(line[N]) = "NUMPIPE"
      /\ s.at = "first" => (s.ends = 2 <=> cs # <<>> /\ cs[L] = <<>>)
      /\ \A k \in 1..L : cs[k] = <<>> => k > 1 /\ cs[k - 1] # <<>>
      /\ Cardinality(Blank(cs)) = Cardinality(NumAt(line, N))
  <2>1. SubSeq(line, 1, N) = line
    BY SubSeqFull
  <2>2. QED
    BY <1>1, <1>2, <2>1 DEF CellsOf
<1>6. Class(Last(line)) # "SYMBOL" /\ Last(line) = line[N]
  BY DEF Legal, LegalIn, Last
<1>7. /\ Instructions(program, line) = Cardinality(NumAt(line, N - 1)) + 1
      /\ Cardinality(NumAt(line, N - 1)) \in Nat
      /\ Cardinality(NumAt(line, N)) =
           Cardinality(NumAt(line, N - 1)) + (IF Class(line[N]) = "NUMPIPE" THEN 1 ELSE 0)
  <2>1. Instructions(program, line) = Cardinality(NumAt(line, N - 1)) + 1
    BY DEF Instructions, Instruction, NumAt, Legal
  <2>2. N - 1 \in Nat
    BY <1>1
  <2>3. QED
    BY <1>1, <2>1, <2>2, NumAtNext
<1>8. s.at = "first" <=> Class(line[N]) = "NUMPIPE"
  <2>1. s.at = "first" => line[N].is \in {"|", "!"}
    BY <1>1, <1>5 DEF Where
  <2>2. line[N].is = "!" => line[N].n > 0
    BY <1>1, Follows
  <2>3. QED
    BY <1>1, <1>5, <1>6, <2>1, <2>2, ClassOf DEF Where
<1> HIDE DEF s, N, cs, L
<1>9. \E cells :
        /\ r.cells = cells /\ cells \in Seq(Seq(Token)) /\ r.count = Len(cells)
        /\ Len(cells) > 0 /\ cells[Len(cells)] = <<>>
        /\ \A k \in 1..Len(cells) : cells[k] = <<>> => k > 1 /\ cells[k - 1] # <<>>
        /\ FlattenSeq(cells) = line
        /\ Cardinality(Blank(cells)) = Instructions(program, line)
  <2>1. CASE s.at = "first"
    <3>1. s.ends = 2 /\ s.open = <<>> /\ s.count = L /\ cs # <<>> /\ cs[L] = <<>>
      BY <1>4, <1>5, <1>8, <2>1
    <3>2. r = [cells |-> (cs \o <<>>) \o <<>>, count |-> L + Len(<<>>)]
      BY <1>3, <3>1 DEF Finish, cs
    <3>3. r.cells = cs /\ r.count = L
      BY <1>4, <3>2, ConcatEmptySeq
    <3>4. FlattenSeq(cs) = line
      <4>1. FlattenSeq(cs) \in Seq(Token)
        BY <1>4, FlatType
      <4>2. QED
        BY <1>5, <3>1, <4>1, ConcatEmptySeq
    <3>5. L > 0
      BY <1>4, <3>1, EmptySeq DEF L
    <3>6. Cardinality(Blank(cs)) = Instructions(program, line)
      BY <1>5, <1>7, <1>8, <2>1
    <3>7. QED
      BY <1>4, <1>5, <3>1, <3>3, <3>4, <3>5, <3>6 DEF L
  <2>2. CASE s.at # "first"
    <3> DEFINE cs1 == Append(cs, s.open)
               cs2 == Append(cs1, <<>>)
    <3>1. s.ends < 2 /\ s.open # <<>> /\ s.count = L + 1
      BY <1>4, <1>5, <1>8, <2>2
    <3>2. r = [cells |-> (cs \o <<s.open>>) \o <<<<>>>>, count |-> (L + 1) + Len(<<<<>>>>)]
      BY <1>3, <3>1 DEF Finish, cs
    <3>3. <<>> \in Seq(Token)
      BY EmptySeq
    <3>4. /\ cs1 \in Seq(Seq(Token)) /\ Len(cs1) = L + 1 /\ cs1[L + 1] = s.open
          /\ \A k \in 1..L : cs1[k] = cs[k]
          /\ cs1 = cs \o <<s.open>>
      BY <1>4, AppendProperties, AppendIsConcat DEF L
    <3>5. FlattenSeq(cs1) = line
      BY <1>4, <1>5, FlatAppend
    <3>6. Cardinality(Blank(cs1)) = Cardinality(Blank(cs)) + 0
      BY <1>4, <3>1, BlankAppend
    <3> HIDE DEF cs1
    <3>7. /\ cs2 \in Seq(Seq(Token)) /\ Len(cs2) = L + 2 /\ cs2[L + 2] = <<>>
          /\ \A k \in 1..(L + 1) : cs2[k] = cs1[k]
          /\ cs2 = cs1 \o <<<<>>>>
      <4>1. (L + 1) + 1 = L + 2
        BY <1>4
      <4>2. cs1 \in Seq(Seq(Token)) /\ Len(cs1) = L + 1
        BY <3>4
      <4>3. cs2 = cs1 \o <<<<>>>>
        BY <3>3, <4>2, AppendIsConcat
      <4>4. QED
        BY <3>3, <4>1, <4>2, <4>3, AppendProperties
    <3>8. FlattenSeq(cs2) = line
      <4>1. FlattenSeq(cs2) = FlattenSeq(cs1) \o <<>>
        BY <3>3, <3>4, FlatAppend
      <4>2. QED
        BY <3>5, <4>1, ConcatEmptySeq
    <3>9. Cardinality(Blank(cs2)) = Cardinality(Blank(cs1)) + 1
      BY <3>3, <3>4, BlankAppend
    <3>10. Cardinality(Blank(cs2)) = Instructions(program, line)
      BY <1>5, <1>7, <1>8, <2>2, <3>6, <3>9
    <3> HIDE DEF cs2
    <3>11. r.cells = cs2 /\ r.count = L + 2
      <4>1. Len(<<<<>>>>) = 1 /\ (L + 1) + 1 = L + 2
        BY <1>4
      <4>2. (cs \o <<s.open>>) \o <<<<>>>> = cs2
        BY <3>4, <3>7
      <4>3. QED
        BY <3>2, <4>1, <4>2
    <3>12. \A k \in 1..Len(cs2) : cs2[k] = <<>> => k > 1 /\ cs2[k - 1] # <<>>
      <4>1. ASSUME NEW k \in 1..(L + 2), cs2[k] = <<>> PROVE k > 1 /\ cs2[k - 1] # <<>>
        <5>0. L \in Nat
          BY <1>4
        <5>1. CASE k = L + 2
          <6>1. k - 1 = L + 1 /\ k > 1 /\ L + 1 \in 1..(L + 1)
            BY <5>0, <5>1
          <6>2. QED
            BY <3>1, <3>4, <3>7, <6>1
        <5>2. CASE k # L + 2
          <6>1. k \in 1..(L + 1)
            BY <5>0, <5>2
          <6>2. k # L + 1
            BY <3>1, <3>4, <3>7, <4>1, <6>1
          <6>3. k \in 1..L /\ cs[k] = <<>>
            BY <3>4, <3>7, <4>1, <5>0, <6>1, <6>2
          <6>4. k > 1 /\ cs[k - 1] # <<>> /\ k - 1 \in 1..L /\ k - 1 \in 1..(L + 1)
            BY <1>5, <5>0, <6>3
          <6>5. QED
            BY <3>4, <3>7, <6>4
        <5>3. QED
          BY <5>1, <5>2
      <4>2. QED
        BY <3>7, <4>1
    <3>13. L + 2 > 0
      BY <1>4
    <3>14. QED
      BY <3>7, <3>8, <3>10, <3>11, <3>12, <3>13
  <2>3. QED
    BY <2>1, <2>2
<1>10. PICK cells :
        /\ r.cells = cells /\ cells \in Seq(Seq(Token)) /\ r.count = Len(cells)
        /\ Len(cells) > 0 /\ cells[Len(cells)] = <<>>
        /\ \A k \in 1..Len(cells) : cells[k] = <<>> => k > 1 /\ cells[k - 1] # <<>>
        /\ FlattenSeq(cells) = line
        /\ Cardinality(Blank(cells)) = Instructions(program, line)
  BY <1>9
<1>11. Ended(cells) = Blank(cells)
  <2>1. Len(cells) \in Nat
    BY <1>10, LenProperties
  <2>2. \A k \in 1..Len(cells) : cells[k] = <<>> => k > 1 /\ cells[k - 1] # <<>>
    BY <1>10
  <2>3. \A k : k \in 2..Len(cells) <=> k \in 1..Len(cells) /\ k > 1
    BY <2>1
  <2>4. QED
    BY <2>2, <2>3 DEF Ended, Blank
<1>12. IsFiniteSet(Blank(cells))
  <2>1. <<>> \in Seq(Token)
    BY EmptySeq
  <2>2. QED
    BY <1>10, <2>1, BlankAppend
<1> HIDE DEF r
<1>13. \A k \in 2..Len(cells) : k \in 1..Len(cells)
  BY <1>10, LenProperties
<1>14. ReadOf(r, line)
  BY <1>10, <1>11, <1>12, <1>13 DEF ReadOf
<1>15. QED
  BY <1>14 DEF r

LEMMA ReadEmpty ==
  ASSUME NEW line, line = <<>>
  PROVE  /\ Legal(line)
         /\ read_string(line) = [cells |-> <<<<>>>>, count |-> 1]
<1>1. Legal(line)
  BY DEF Legal, LegalIn
<1>2. <<>> \in Seq(Token) /\ Len(<<>>) = 0 /\ 0 \in Nat
  BY EmptySeq
<1>3. Cut(line)[0] = Begin
  BY <1>2, CutDef
<1>4. read_string(line) = Finish(Begin)
  BY <1>1, <1>2, <1>3 DEF read_string
<1>5. Begin.cells = <<>> /\ Begin.open = <<>> /\ Begin.ends < 2 /\ Begin.count = 0
  BY DEF Begin
<1> HIDE DEF Begin
<1>6. read_string(line) = [cells |-> (<<>> \o <<>>) \o <<<<>>>>, count |-> 0 + Len(<<<<>>>>)]
  BY <1>4, <1>5 DEF Finish
<1>7. QED
  BY <1>1, <1>6

LEMMA Reads ==
  ASSUME program \in Programs, NEW line \in Seq(Token)
  PROVE  ReadOf(read_string(line), line)
<1>0. <<>> \in Seq(Token) /\ <<>> \in Seq(Seq(Token)) /\ Len(<<>>) = 0
  BY EmptySeq
<1>1. CASE Legal(line) /\ line # <<>>
  BY <1>1, ReadsLegal
<1>2. CASE line = <<>>
  <2>1. Legal(line) /\ read_string(line) = [cells |-> <<<<>>>>, count |-> 1]
    BY <1>2, ReadEmpty
  <2> DEFINE cells == Append(<<>>, <<>>)
  <2>4. /\ cells \in Seq(Seq(Token)) /\ Len(cells) = 1 /\ cells[1] = <<>>
        /\ cells = <<<<>>>>
    BY <1>0
  <2>5. FlattenSeq(cells) = line
    <3>1. FlattenSeq(cells) = FlattenSeq(<<>>) \o <<>>
      BY <1>0, FlatAppend
    <3>2. QED
      BY <1>0, <1>2, <3>1, FlatEmpty, ConcatEmptySeq
  <2> HIDE DEF cells
  <2>6. read_string(line).cells = cells /\ read_string(line).count = 1
    BY <2>1, <2>4
  <2>7. Ended(cells) = {} /\ Instructions(program, line) = 0
    <3>1. \A k \in 2..Len(cells) : FALSE
      BY <2>4
    <3>2. QED
      BY <1>2, <2>1, <3>1 DEF Ended, Instructions, Legal
  <2>8. \A k \in 2..Len(cells) : FALSE
    BY <2>4
  <2>9. IsFiniteSet(Ended(cells)) /\ Cardinality(Ended(cells)) = Instructions(program, line)
    BY <2>7, FS_EmptySet
  <2> DEFINE r == read_string(line)
  <2> HIDE DEF r
  <2>10. r.cells = cells /\ r.count = Len(cells) /\ Len(cells) > 0 /\ cells[Len(cells)] = <<>>
    BY <2>4, <2>6 DEF r
  <2>11. ReadOf(r, line)
    BY <2>4, <2>5, <2>8, <2>9, <2>10 DEF ReadOf
  <2>12. QED
    BY <2>11 DEF r
<1>3. CASE ~Legal(line)
  <2>1. line # <<>>
    BY <1>3 DEF Legal, LegalIn
  <2>2. read_string(line) = [cells |-> <<line, <<>>>>, count |-> 2]
    BY <1>3 DEF read_string
  <2> DEFINE one == Append(<<>>, line)
             cells == Append(one, <<>>)
  <2>3. /\ one \in Seq(Seq(Token)) /\ Len(one) = 1 /\ one[1] = line
        /\ one = <<>> \o <<line>>
    BY <1>0, AppendProperties, AppendIsConcat
  <2>4. FlattenSeq(one) = line
    <3>1. FlattenSeq(one) = FlattenSeq(<<>>) \o line
      BY <1>0, FlatAppend
    <3>2. QED
      BY <3>1, FlatEmpty, ConcatEmptySeq
  <2>5. cells = <<line, <<>>>>
    BY <1>0, JustTwo, Zenon
  <2> HIDE DEF one
  <2>6. FlattenSeq(cells) = line
    <3>1. FlattenSeq(cells) = FlattenSeq(one) \o <<>>
      BY <1>0, <2>3, FlatAppend
    <3>2. QED
      BY <2>4, <3>1, ConcatEmptySeq
  <2>11. /\ cells \in Seq(Seq(Token))
         /\ Len(cells) = 2 /\ cells[1] = line /\ cells[2] = <<>>
    BY <1>0, <2>3, AppendProperties
  <2> HIDE DEF cells
  <2>7. read_string(line).cells = cells /\ read_string(line).count = 2
    BY <2>2, <2>5
  <2>8. Ended(cells) = {2} /\ Instructions(program, line) = 1
    <3>1. Ended(cells) = {2}
      BY <2>1, <2>11 DEF Ended
    <3>2. Instructions(program, line) = 1
      BY <1>3, <2>1 DEF Instructions, Legal
    <3>3. QED
      BY <3>1, <3>2
  <2>9. \A k \in 2..Len(cells) : k = 2
    BY <2>11
  <2>10. IsFiniteSet(Ended(cells)) /\ Cardinality(Ended(cells)) = Instructions(program, line)
    BY <2>8, FS_Singleton
  <2> DEFINE r == read_string(line)
  <2> HIDE DEF r
  <2>12. r.cells = cells /\ r.count = Len(cells) /\ Len(cells) > 0 /\ cells[Len(cells)] = <<>>
    BY <2>7, <2>11 DEF r
  <2>13. \A k \in 2..Len(cells) : cells[k] = <<>> => cells[k - 1] # <<>>
    BY <2>1, <2>9, <2>11
  <2>14. ReadOf(r, line)
    BY <2>6, <2>10, <2>11, <2>12, <2>13 DEF ReadOf
  <2>15. QED
    BY <2>14 DEF r
<1>4. QED
  BY <1>1, <1>2, <1>3

-----------------------------------------------------------------------------
(* The instructions of all lines.                                          *)

LEMMA InstructionsType ==
  ASSUME program \in Programs, NEW line \in Seq(Token)
  PROVE  Instructions(program, line) \in Nat
<1>1. /\ IsFiniteSet(Ended(read_string(line).cells))
      /\ Cardinality(Ended(read_string(line).cells)) = Instructions(program, line)
  BY Reads DEF ReadOf
<1>2. QED
  BY <1>1, FS_CardinalityType

upto(prog, ls) ==
  LET f[l \in 0..Len(ls)] == IF l = 0 THEN 0 ELSE f[l - 1] + Instructions(prog, ls[l])
  IN  f

LEMMA TotalDef ==
  ASSUME program \in Programs, NEW ls \in Seq(Seq(Token)), NEW N \in Nat, N = Len(ls)
  PROVE  /\ \A i \in 0..N : upto(program, ls)[i] \in Nat
         /\ upto(program, ls)[0] = 0
         /\ \A i \in 0..(N - 1) :
              upto(program, ls)[i + 1] = upto(program, ls)[i]
                                + Instructions(program, ls[i + 1])
<1> DEFINE u == upto(program, ls)
           I(l) == Instructions(program, ls[l])
           E(f) == f = [l \in 0..N |-> IF l = 0 THEN 0 ELSE f[l - 1] + I(l)]
<1>1. \A i \in 1..N : I(i) \in Nat
  BY ElementOfSeq, InstructionsType
<1>2. E(u) <=> E(CHOOSE f : E(f))
  BY DEF upto
<1> HIDE DEF I
<1>3. PICK c : /\ c \in [0..N -> Nat] /\ c[0] = 0
               /\ \A i \in 0..(N - 1) : c[i + 1] = c[i] + I(i + 1)
  <2> DEFINE F == [i \in 1..N |-> [s \in Nat |-> s + I(i)]]
  <2>1. F \in [1..N -> [Nat -> Nat]]
    BY <1>1
  <2>2. \A i \in 1..N : \A s \in Nat : F[i][s] = s + I(i)
    OBVIOUS
  <2> HIDE DEF F
  <2>3. PICK c : Grows(c, N, Nat, 0, F)
    BY <2>1, Recursion, Zenon
  <2>4. ASSUME NEW i \in 0..(N - 1) PROVE c[i + 1] = c[i] + I(i + 1)
    <3>1. i \in 0..N /\ i + 1 \in 1..N
      OBVIOUS
    <3>2. c[i] \in Nat /\ c[i + 1] = F[i + 1][c[i]]
      BY <2>3, <3>1, Zenon DEF Grows
    <3>3. QED
      BY <2>2, <3>1, <3>2, Zenon
  <2>5. QED
    BY <2>3, <2>4, Zenon DEF Grows
<1>4. \A i \in 0..N : c[i] = IF i = 0 THEN 0 ELSE c[i - 1] + I(i)
  <2>1. ASSUME NEW i \in 0..N PROVE c[i] = IF i = 0 THEN 0 ELSE c[i - 1] + I(i)
    <3>1. CASE i = 0
      BY <1>3, <3>1
    <3>2. CASE i # 0
      <4>1. i - 1 \in 0..(N - 1) /\ (i - 1) + 1 = i
        BY <3>2
      <4>2. c[(i - 1) + 1] = c[i - 1] + I((i - 1) + 1)
        BY <1>3, <4>1, Zenon
      <4>3. QED
        BY <3>2, <4>1, <4>2, Zenon
    <3>3. QED
      BY <3>1, <3>2
  <2>2. QED
    BY <2>1
<1>5. E(c)
  <2>1. c = [i \in 0..N |-> c[i]]
    BY <1>3
  <2>2. QED
    BY <1>4, <2>1, Zenon
<1>6. E(u)
  BY <1>2, <1>5, Zenon
<1> HIDE DEF u
<1>7. \A i \in 0..N : u[i] = IF i = 0 THEN 0 ELSE u[i - 1] + I(i)
  BY <1>6, Zenon
<1>8. u[0] = 0
  <2>1. 0 \in 0..N
    OBVIOUS
  <2>2. QED
    BY <1>7, <2>1, Zenon
<1>9. ASSUME NEW i \in 0..(N - 1) PROVE u[i + 1] = u[i] + I(i + 1)
  <2>1. i + 1 \in 0..N /\ i + 1 # 0 /\ (i + 1) - 1 = i
    OBVIOUS
  <2>2. QED
    BY <1>7, <2>1, Zenon
<1> DEFINE S == {i \in 0..N : u[i] \in Nat}
<1>10. 0 \in S
  BY <1>8
<1>11. ASSUME NEW n \in 0..(N - 1), n \in S PROVE n + 1 \in S
  <2>1. n + 1 \in 0..N /\ n + 1 \in 1..N
    OBVIOUS
  <2>2. u[n + 1] \in Nat
    BY <1>1, <1>9, <1>11, <2>1
  <2>3. QED
    BY <2>1, <2>2
<1> HIDE DEF S
<1>12. 0..N \subseteq S
  BY <1>10, <1>11, Inductive
<1>13. \A i \in 0..N : u[i] \in Nat
  BY <1>12 DEF S
<1>14. QED
  BY <1>8, <1>9, <1>13 DEF u, I

LEMMA TotalIs == \A prog, ls : Total(prog, ls) = upto(prog, ls)[Len(ls)]
BY DEF Total, upto

LEMMA TotalEmpty == program \in Programs => Total(program, <<>>) = 0
<1>1. <<>> \in Seq(Seq(Token)) /\ Len(<<>>) = 0
  BY EmptySeq
<1>2. QED
  BY <1>1, TotalIs, TotalDef

LEMMA TotalAppend ==
  ASSUME program \in Programs, NEW ls \in Seq(Seq(Token)), NEW line \in Seq(Token)
  PROVE  /\ Total(program, ls) \in Nat
         /\ Total(program, Append(ls, line)) =
              Total(program, ls) + Instructions(program, line)
<1> DEFINE N == Len(ls)
           tt == Append(ls, line)
           S == {n \in 0..N : upto(program, tt)[n] = upto(program, ls)[n]}
<1>1. /\ N \in Nat /\ tt \in Seq(Seq(Token)) /\ Len(tt) = N + 1 /\ N + 1 \in Nat
      /\ \A i \in 1..N : tt[i] = ls[i]
      /\ tt[N + 1] = line
  BY LenProperties, AppendProperties
<1> HIDE DEF N, tt
<1>2. /\ \A i \in 0..N : upto(program, ls)[i] \in Nat
      /\ upto(program, ls)[0] = 0
      /\ \A i \in 0..(N - 1) :
           upto(program, ls)[i + 1] = upto(program, ls)[i] + Instructions(program, ls[i + 1])
  BY <1>1, TotalDef DEF N
<1>3. /\ upto(program, tt)[0] = 0
      /\ \A i \in 0..N :
           upto(program, tt)[i + 1] = upto(program, tt)[i] + Instructions(program, tt[i + 1])
  <2>1. (N + 1) - 1 = N
    BY <1>1
  <2>2. \A i \in 0..((N + 1) - 1) :
           upto(program, tt)[i + 1] = upto(program, tt)[i] + Instructions(program, tt[i + 1])
    BY <1>1, TotalDef
  <2>3. QED
    BY <1>1, <2>1, <2>2, TotalDef
<1>4. 0 \in S
  BY <1>1, <1>2, <1>3
<1>5. ASSUME NEW n \in 0..(N - 1), n \in S PROVE n + 1 \in S
  <2>1. n \in 0..N /\ n + 1 \in 0..N /\ n + 1 \in 1..N
    BY <1>1
  <2>2. upto(program, tt)[n + 1] = upto(program, tt)[n] + Instructions(program, tt[n + 1])
    BY <1>3, <2>1
  <2>3. upto(program, ls)[n + 1] = upto(program, ls)[n] + Instructions(program, ls[n + 1])
    BY <1>2
  <2>4. tt[n + 1] = ls[n + 1]
    BY <1>1, <2>1
  <2>5. upto(program, tt)[n] = upto(program, ls)[n]
    BY <1>5
  <2>6. upto(program, tt)[n + 1] = upto(program, ls)[n + 1]
    BY <2>2, <2>3, <2>4, <2>5
  <2>7. QED
    BY <2>1, <2>6
<1> HIDE DEF S
<1>6. 0..N \subseteq S
  BY <1>1, <1>4, <1>5, Inductive
<1>7. N \in 0..N
  BY <1>1
<1>8. upto(program, tt)[N] = upto(program, ls)[N]
  BY <1>6, <1>7 DEF S
<1>9. /\ Total(program, ls) = upto(program, ls)[N]
      /\ Total(program, tt) = upto(program, tt)[N + 1]
  BY <1>1, TotalIs DEF N
<1>10. QED
  BY <1>1, <1>2, <1>3, <1>7, <1>8, <1>9 DEF tt

-----------------------------------------------------------------------------
(* The cells of all lines, and the cursor.                                 *)

EndedIn(cells, m) == {k \in 2..m : cells[k] = <<>> /\ cells[k - 1] # <<>>}

LEMMA EndedConcat ==
  ASSUME NEW cs \in Seq(Seq(Token)), NEW ds \in Seq(Seq(Token)), Len(ds) > 0,
         cs # <<>> => cs[Len(cs)] = <<>>, IsFiniteSet(Ended(ds))
  PROVE  /\ EndedIn(cs \o ds, Len(cs) + 1) = Ended(cs)
         /\ Cardinality(Ended(cs \o ds)) = Cardinality(Ended(cs)) + Cardinality(Ended(ds))
<1> DEFINE L == Len(cs)
           M == Len(ds)
           es == cs \o ds
           B == {k + L : k \in Ended(ds)}
<1>1. /\ L \in Nat /\ M \in Nat /\ Len(es) = L + M
      /\ \A i \in 1..L : es[i] = cs[i]
      /\ \A i \in 1..M : es[i + L] = ds[i]
  <2>1. L \in Nat /\ M \in Nat
    BY LenProperties
  <2>2. /\ Len(es) = L + M
        /\ \A i \in 1..(L + M) : es[i] = IF i <= L THEN cs[i] ELSE ds[i - L]
    BY ConcatProperties
  <2>3. ASSUME NEW i \in 1..M PROVE es[i + L] = ds[i]
    <3>1. i + L \in 1..(L + M) /\ ~(i + L <= L) /\ (i + L) - L = i
      BY <2>1
    <3>2. QED
      BY <2>2, <3>1
  <2>4. ASSUME NEW i \in 1..L PROVE es[i] = cs[i]
    <3>1. i \in 1..(L + M) /\ i <= L
      BY <2>1
    <3>2. QED
      BY <2>2, <3>1
  <2>5. QED
    BY <2>1, <2>2, <2>3, <2>4
<1>2. L > 0 => cs[L] = <<>>
  BY EmptySeq
<1> HIDE DEF L, M, es
<1>3. ASSUME NEW k \in 2..(L + M)
      PROVE  k \in EndedIn(es, L + M) <=> k \in Ended(cs) \/ k \in B
  <2>1. CASE k <= L
    <3>1. k \in 1..L /\ k - 1 \in 1..L /\ k \in 2..L
      BY <1>1, <2>1
    <3>2. k \notin B
      BY <1>1, <2>1 DEF Ended
    <3>3. QED
      BY <1>1, <3>1, <3>2 DEF EndedIn, Ended, L
  <2>2. CASE k = L + 1
    <3>1. k - 1 \in 1..L /\ es[k - 1] = <<>>
      BY <1>1, <1>2, <2>2
    <3>2. k \notin Ended(cs)
      BY <1>1, <2>2 DEF Ended, L
    <3>3. k \notin B
      BY <1>1, <2>2 DEF Ended
    <3>4. QED
      BY <3>1, <3>2, <3>3 DEF EndedIn
  <2>3. CASE k > L + 1
    <3> DEFINE j == k - L
    <3>1. j \in 2..M /\ j \in 1..M /\ j - 1 \in 1..M /\ j + L = k /\ (j - 1) + L = k - 1
      BY <1>1, <2>3
    <3>2. es[k] = ds[j] /\ es[k - 1] = ds[j - 1]
      BY <1>1, <3>1
    <3>3. k \notin Ended(cs)
      BY <1>1, <2>3 DEF Ended, L
    <3>4. k \in B <=> j \in Ended(ds)
      BY <1>1, <3>1 DEF Ended
    <3> HIDE DEF j, B
    <3>5. QED
      BY <3>1, <3>2, <3>3, <3>4 DEF EndedIn, Ended, M
  <2>4. QED
    BY <1>1, <2>1, <2>2, <2>3
<1>4. Ended(es) = Ended(cs) \union B
  <2>1. Ended(es) = EndedIn(es, L + M)
    BY <1>1 DEF Ended, EndedIn
  <2>2. Ended(cs) \subseteq 2..(L + M)
    BY <1>1 DEF Ended, L
  <2>3. B \subseteq 2..(L + M)
    <3>1. ASSUME NEW k \in Ended(ds) PROVE k + L \in 2..(L + M)
      <4>1. k \in 2..M
        BY DEF Ended, M
      <4>2. QED
        BY <1>1, <4>1
    <3>2. QED
      BY <3>1
  <2>4. EndedIn(es, L + M) \subseteq 2..(L + M)
    BY DEF EndedIn
  <2> HIDE DEF B
  <2>5. QED
    BY <1>3, <2>1, <2>2, <2>3, <2>4
<1>5. EndedIn(es, L + 1) = Ended(cs)
  <2>1. ASSUME NEW k \in 2..(L + 1) PROVE k \in EndedIn(es, L + 1) <=> k \in Ended(cs)
    <3>1. CASE k \in 2..L
      <4>1. k \in 1..L /\ k - 1 \in 1..L
        BY <1>1, <3>1
      <4>2. QED
        BY <1>1, <3>1, <4>1 DEF EndedIn, Ended, L
    <3>2. CASE k = L + 1
      <4>1. k - 1 \in 1..L /\ es[k - 1] = <<>>
        BY <1>1, <1>2, <3>2
      <4>2. k \notin Ended(cs)
        BY <1>1, <3>2 DEF Ended, L
      <4>3. QED
        BY <4>1, <4>2 DEF EndedIn
    <3>3. QED
      BY <1>1, <3>1, <3>2
  <2>2. Ended(cs) \subseteq 2..(L + 1)
    BY <1>1 DEF Ended, L
  <2>3. EndedIn(es, L + 1) \subseteq 2..(L + 1)
    BY DEF EndedIn
  <2>4. QED
    BY <2>1, <2>2, <2>3
<1>6. IsFiniteSet(Ended(cs))
  <2>1. IsFiniteSet(2..L) /\ Ended(cs) \in SUBSET (2..L)
    BY <1>1, FS_Interval DEF Ended, L
  <2>2. QED
    BY <2>1, FS_Subset
<1>7. IsFiniteSet(B) /\ Cardinality(B) = Cardinality(Ended(ds))
  <2> DEFINE f == [k \in Ended(ds) |-> k + L]
  <2>1. \A k \in Ended(ds) : k \in Int
    BY DEF Ended
  <2>2. f \in Bijection(Ended(ds), B)
    BY <1>1, <2>1 DEF Bijection, Injection, Surjection, IsInjective
  <2>3. ExistsBijection(Ended(ds), B)
    BY <2>2 DEF ExistsBijection
  <2> HIDE DEF B
  <2>4. QED
    BY <2>3, FS_Bijection
<1>8. Ended(cs) \intersect B = {}
  BY <1>1 DEF Ended, L
<1> HIDE DEF B
<1>9. Cardinality(Ended(cs) \union B) = Cardinality(Ended(cs)) + Cardinality(B)
  <2>1. Cardinality(Ended(cs) \union B) =
          Cardinality(Ended(cs)) + Cardinality(B) - Cardinality(Ended(cs) \intersect B)
    BY <1>6, <1>7, FS_Union
  <2>2. Cardinality(Ended(cs)) \in Nat /\ Cardinality(B) \in Nat
    BY <1>6, <1>7, FS_CardinalityType
  <2>3. QED
    <3>1. Cardinality(Ended(cs) \intersect B) = 0
      BY <1>8, FS_EmptySet
    <3>2. QED
      BY <2>1, <2>2, <3>1
<1>10. QED
  BY <1>4, <1>5, <1>7, <1>9 DEF es, L

CellInv ==
  /\ program \in Programs
  /\ pc \in {"prompt", "event", "operator", "skip"}
  /\ cmds \in Seq(Seq(Token)) /\ lines \in Seq(Seq(Token))
  /\ cmd_count = Len(cmds) /\ cmd_now \in 0..cmd_count
  /\ cmds # <<>> => cmds[Len(cmds)] = <<>>
  /\ \A k \in (cmd_now + 2)..cmd_count : cmds[k] = <<>> => cmds[k - 1] # <<>>
  /\ pc = "prompt" => isempty
  /\ NeverPastEnd
  /\ FlattenSeq(cmds) = FlattenSeq(lines)
  /\ instrusion_count =
       Cardinality(EndedIn(cmds, IF isempty THEN cmd_count ELSE cmd_now + 1))
  /\ Cardinality(Ended(cmds)) = Total(program, lines)

LEMMA EndedNext ==
  ASSUME NEW cells, NEW m \in Nat, m > 0
  PROVE  /\ IsFiniteSet(EndedIn(cells, m)) /\ Cardinality(EndedIn(cells, m)) \in 0..(m - 1)
         /\ Cardinality(EndedIn(cells, m + 1)) =
              Cardinality(EndedIn(cells, m))
                + (IF cells[m + 1] = <<>> /\ cells[m] # <<>> THEN 1 ELSE 0)
<1>1. EndedIn(cells, m) \in SUBSET (2..m) /\ IsFiniteSet(2..m) /\ Cardinality(2..m) = m - 1
  BY FS_Interval DEF EndedIn
<1>2. /\ IsFiniteSet(EndedIn(cells, m)) /\ Cardinality(EndedIn(cells, m)) \in Nat
      /\ Cardinality(EndedIn(cells, m)) <= m - 1
      /\ Cardinality(EndedIn(cells, m)) \in 0..(m - 1)
  BY <1>1, FS_Subset, FS_CardinalityType
<1>3. EndedIn(cells, m + 1) =
        EndedIn(cells, m) \union (IF cells[m + 1] = <<>> /\ cells[m] # <<>> THEN {m + 1}
                             ELSE {})
  <2>1. (m + 1) - 1 = m
    OBVIOUS
  <2>2. QED
    BY <2>1 DEF EndedIn
<1>4. m + 1 \notin EndedIn(cells, m)
  BY DEF EndedIn
<1>5. CASE cells[m + 1] = <<>> /\ cells[m] # <<>>
  <2>1. Cardinality(EndedIn(cells, m) \union {m + 1}) = Cardinality(EndedIn(cells, m)) + 1
    BY <1>2, <1>4, FS_AddElement
  <2>2. QED
    BY <1>2, <1>3, <1>5, <2>1
<1>6. CASE ~(cells[m + 1] = <<>> /\ cells[m] # <<>>)
  <2>1. EndedIn(cells, m + 1) = EndedIn(cells, m)
    BY <1>3, <1>6, Zenon
  <2>2. Cardinality(EndedIn(cells, m + 1)) = Cardinality(EndedIn(cells, m)) + 0
    BY <1>2, <2>1
  <2>3. QED
    BY <1>2, <1>6, <2>2
<1>7. QED
  BY <1>5, <1>6

(* Initially, and after each line typed.                                   *)
LEMMA CellsAtInit == Init => CellInv
<1>1. SUFFICES ASSUME Init PROVE CellInv
  OBVIOUS
<1>2. <<>> \in Seq(Seq(Token)) /\ Len(<<>>) = 0
  BY EmptySeq
<1>3. EndedIn(<<>>, 0) = {} /\ Ended(<<>>) = {}
  BY <1>2 DEF EndedIn, Ended
<1>4. Total(program, <<>>) = 0
  BY <1>1, TotalEmpty DEF Init
<1>5. QED
  BY <1>1, <1>2, <1>3, <1>4, FS_EmptySet DEF Init, CellInv, isempty, NeverPastEnd

LEMMA LineTyped == ASSUME CellInv, ReadLine PROVE \E line \in Seq(Token) : Typed(line)
<1>1. PICK k \in 0..(MaxTokens - Len(FlattenSeq(lines))) :
          \E line \in Lines[program][k] : Typed(line)
  BY DEF ReadLine
<1>2. Len(FlattenSeq(lines)) \in Nat
  BY FlatType, LenProperties DEF CellInv
<1>3. k \in 0..MaxTokens
  BY <1>1, <1>2, CommandAssumption
<1>4. Lines[program][k] \subseteq Seq(Token)
  BY <1>3, LinesAssumption DEF CellInv
<1>5. QED
  BY <1>1, <1>4

LEMMA CellsAtLine == ASSUME CellInv, ReadLine PROVE CellInv'
<1>1. PICK line \in Seq(Token) : Typed(line)
  BY LineTyped
<1> DEFINE cells == read_string(line).cells
           L == Len(cmds)
           M == Len(cells)
<1>2. /\ cells \in Seq(Seq(Token)) /\ M > 0 /\ M \in Nat /\ L \in Nat
      /\ read_string(line).count = M
      /\ cells[M] = <<>>
      /\ \A k \in 2..M : cells[k] = <<>> => cells[k - 1] # <<>>
      /\ FlattenSeq(cells) = line
      /\ IsFiniteSet(Ended(cells)) /\ Cardinality(Ended(cells)) = Instructions(program, line)
  BY Reads, LenProperties DEF ReadOf, CellInv
<1>3. /\ program' = program /\ pc' = "event" /\ cmd_now = L /\ cmd_now' = L
      /\ instrusion_count' = instrusion_count
      /\ cmds' = cmds \o cells /\ lines' = Append(lines, line)
      /\ cmd_count' = L + M
  BY <1>1, <1>2 DEF Typed, CellInv, isempty
<1> HIDE DEF cells, L, M
<1>4. /\ cmds' \in Seq(Seq(Token)) /\ Len(cmds') = L + M /\ lines' \in Seq(Seq(Token))
      /\ \A i \in 1..(L + M) : cmds'[i] = IF i <= L THEN cmds[i] ELSE cells[i - L]
  BY <1>2, <1>3, ConcatProperties, AppendProperties DEF CellInv, L, M
<1>5. cmds'[L + M] = <<>>
  <2>1. L + M \in 1..(L + M) /\ ~(L + M <= L) /\ (L + M) - L = M
    BY <1>2
  <2>2. QED
    BY <1>2, <1>4, <2>1
<1>6. \A k \in (L + 2)..(L + M) : cmds'[k] = <<>> => cmds'[k - 1] # <<>>
  <2>1. ASSUME NEW k \in (L + 2)..(L + M) PROVE cmds'[k] = <<>> => cmds'[k - 1] # <<>>
    <3>1. /\ k \in 1..(L + M) /\ k - 1 \in 1..(L + M) /\ ~(k <= L) /\ ~(k - 1 <= L)
          /\ (k - 1) - L = (k - L) - 1 /\ k - L \in 2..M
      <4>1. L \in Nat /\ M \in Nat /\ k \in (L + 2)..(L + M)
        BY <1>2
      <4>2. QED
        BY <4>1
    <3>2. QED
      BY <1>2, <1>4, <3>1
  <2>2. QED
    BY <2>1
<1>7. FlattenSeq(cmds') = FlattenSeq(lines')
  <2>1. FlattenSeq(cmds \o cells) = FlattenSeq(cmds) \o line
    BY <1>2, FlatConcat DEF CellInv
  <2>2. FlattenSeq(Append(lines, line)) = FlattenSeq(lines) \o line
    BY FlatAppend DEF CellInv
  <2>3. QED
    BY <1>3, <2>1, <2>2 DEF CellInv
<1>8. /\ EndedIn(cmds', L + 1) = Ended(cmds)
      /\ Cardinality(Ended(cmds')) = Cardinality(Ended(cmds)) + Cardinality(Ended(cells))
  <2>1. /\ EndedIn(cmds \o cells, L + 1) = Ended(cmds)
        /\ Cardinality(Ended(cmds \o cells))
              = Cardinality(Ended(cmds)) + Cardinality(Ended(cells))
    BY <1>2, EndedConcat DEF CellInv, L, M
  <2>2. QED
    BY <1>3, <2>1
<1>9. Cardinality(Ended(cmds')) = Total(program', lines')
  BY <1>2, <1>3, <1>8, TotalAppend DEF CellInv
<1>10. instrusion_count' = Cardinality(EndedIn(cmds', L + 1))
  <2>1. Ended(cmds) = EndedIn(cmds, L)
    BY DEF Ended, EndedIn, L
  <2>2. QED
    BY <1>3, <1>8, <2>1 DEF CellInv, isempty, L
<1>11. ~isempty' /\ cmd_now' \in 0..cmd_count'
  <2>1. L \in Nat /\ M \in Nat /\ M > 0
    BY <1>2
  <2>2. cmd_now' = L /\ cmd_count' = L + M
    BY <1>3
  <2>3. QED
    BY <2>1, <2>2 DEF isempty
<1>12. NeverPastEnd'
  BY <1>3 DEF NeverPastEnd
<1>13. CellInv'
  BY <1>3, <1>4, <1>5, <1>6, <1>7, <1>9, <1>10, <1>11, <1>12 DEF CellInv
<1>14. QED
  BY <1>13

(* A cell is fetched.  The last one is empty.                              *)
LEMMA CellsAtFetch ==
  ASSUME CellInv, ~isempty, get_next_cmd, UNCHANGED lines,
         pc' \in {"event", "operator", "skip"}, Fetched = <<>> => pc' = "event"
  PROVE  CellInv'
<1>1. /\ program' = program /\ cmds' = cmds /\ cmd_count' = cmd_count /\ lines' = lines
      /\ cmd_now' = cmd_now + 1 /\ cmd_now \in 0..(cmd_count - 1) /\ cmd_count \in Nat
      /\ cmd_count = Len(cmds)
      /\ instrusion_count = Cardinality(EndedIn(cmds, cmd_now + 1))
  BY LenProperties DEF CellInv, get_next_cmd, isempty
<1>2. /\ cmd_now' \in 0..cmd_count
      /\ isempty' <=> cmd_now + 1 = cmd_count
      /\ \A k \in (cmd_now' + 2)..cmd_count : k \in (cmd_now + 2)..cmd_count
  BY <1>1 DEF isempty
<1>3. cmds[cmd_count] = <<>>
  BY <1>1, EmptySeq DEF CellInv
<1>4. NeverPastEnd'
  BY <1>1, <1>2, <1>3 DEF NeverPastEnd, Fetched
<1>5. instrusion_count' =
        Cardinality(EndedIn(cmds, IF isempty' THEN cmd_count ELSE cmd_now' + 1))
  <2>1. CASE cmd_now + 2 <= cmd_count
    <3>1. /\ cmd_now + 2 \in (cmd_now + 2)..cmd_count /\ (cmd_now + 2) - 1 = cmd_now + 1
          /\ (cmd_now + 1) + 1 = cmd_now + 2 /\ cmd_now + 1 \in Nat /\ cmd_now + 1 > 0
      BY <1>1, <2>1
    <3>2. cmds[cmd_now + 2] = <<>> => cmds[cmd_now + 1] # <<>>
      BY <3>1 DEF CellInv
    <3>3. Cardinality(EndedIn(cmds, cmd_now + 2)) =
            Cardinality(EndedIn(cmds, cmd_now + 1))
              + (IF cmds[cmd_now + 2] = <<>> THEN 1 ELSE 0)
      BY <3>1, <3>2, EndedNext
    <3>4. Cardinality(EndedIn(cmds, cmd_now + 1)) \in Nat
      BY <3>1, EndedNext
    <3>5. instrusion_count' =
            IF cmds[cmd_now + 2] = <<>> THEN instrusion_count + 1 ELSE instrusion_count
      BY <2>1 DEF get_next_cmd
    <3>6. ~isempty'
      BY <1>1, <1>2, <2>1
    <3>7. QED
      BY <1>1, <3>1, <3>3, <3>4, <3>5, <3>6
  <2>2. CASE ~(cmd_now + 2 <= cmd_count)
    <3>1. cmd_now + 1 = cmd_count
      BY <1>1, <2>2
    <3>2. instrusion_count' = instrusion_count
      BY <2>2 DEF get_next_cmd
    <3>3. QED
      BY <1>1, <1>2, <3>1, <3>2
  <2>3. QED
    BY <2>1, <2>2
<1>6. pc' \in {"prompt", "event", "operator", "skip"} /\ pc' # "prompt"
  OBVIOUS
<1>7. QED
  BY <1>1, <1>2, <1>4, <1>5, <1>6 DEF CellInv

LEMMA CellsAtStep == CellInv /\ [Next]_vars => CellInv'
<1>1. SUFFICES ASSUME CellInv, [Next]_vars PROVE CellInv'
  OBVIOUS
<1>2. CASE ReadLine
  BY <1>1, <1>2, CellsAtLine
<1>3. CASE LineDone
  BY <1>1, <1>3 DEF CellInv, LineDone, cursor, isempty, NeverPastEnd
<1>4. CASE FetchEvent
  <2>1. pc' \in {"event", "operator", "skip"} /\ (Fetched = <<>> => pc' = "event")
    BY <1>4 DEF FetchEvent, builtin
  <2>2. QED
    BY <1>1, <1>4, <2>1, CellsAtFetch DEF FetchEvent
<1>5. CASE Skip
  <2>1. ~isempty
    BY <1>1, <1>5 DEF Skip, CellInv, NeverPastEnd
  <2>2. QED
    BY <1>1, <1>5, <2>1, CellsAtFetch DEF Skip
<1>6. CASE FetchOperator
  <2>1. ~isempty
    BY <1>1, <1>6 DEF FetchOperator, CellInv, NeverPastEnd
  <2>2. Fetched = <<>> => pc' = "event"
    BY <1>6 DEF FetchOperator, LastOperator
  <2>3. QED
    BY <1>1, <1>6, <2>1, <2>2, CellsAtFetch DEF FetchOperator
<1>7. CASE UNCHANGED vars
  BY <1>1, <1>7 DEF CellInv, vars, cursor, isempty, NeverPastEnd
<1>8. QED
  BY <1>1, <1>2, <1>3, <1>4, <1>5, <1>6, <1>7 DEF Next

LEMMA CellsSoundly == CellInv => CellsSound
<1>1. SUFFICES ASSUME CellInv PROVE CellsSound
  OBVIOUS
<1> DEFINE m == IF isempty THEN cmd_count ELSE cmd_now + 1
<1>2. /\ cmd_count \in Nat /\ cmd_now \in 0..cmd_count /\ cmd_count = Len(cmds)
      /\ instrusion_count = Cardinality(EndedIn(cmds, m))
  BY <1>1, LenProperties DEF CellInv
<1>3. instrusion_count \in 0..cmd_now
  <2>1. CASE cmd_count = 0
    <3>1. EndedIn(cmds, m) = {} /\ cmd_now = 0
      BY <1>2, <2>1 DEF EndedIn, isempty
    <3>2. QED
      BY <1>2, <3>1, FS_EmptySet
  <2>2. CASE cmd_count > 0
    <3>1. m \in Nat /\ m > 0 /\ m - 1 <= cmd_now
      BY <1>2, <2>2 DEF isempty
    <3> HIDE DEF m
    <3>2. Cardinality(EndedIn(cmds, m)) \in 0..(m - 1)
      BY <3>1, EndedNext
    <3>3. QED
      BY <1>2, <3>1, <3>2
  <2>3. QED
    BY <1>2, <2>1, <2>2
<1>4. TypeOK
  BY <1>1, <1>2, <1>3 DEF CellInv, TypeOK
<1>5. CountsInstructions
  <2>1. pc = "prompt" => m = Len(cmds)
    BY <1>1, <1>2 DEF CellInv
  <2>2. Ended(cmds) = EndedIn(cmds, Len(cmds))
    BY DEF Ended, EndedIn
  <2>3. QED
    BY <1>1, <1>2, <2>1, <2>2 DEF CountsInstructions, CellInv
<1>6. QED
  BY <1>1, <1>4, <1>5 DEF CellsSound, CellInv, NothingLost

(* Whatever lines are typed, the cells hold their tokens, the loops find a *)
(* cell wherever they fetch one unasked, and the instruction counter is    *)
(* the number of instructions typed when the prompt comes                  *)
(* (command.cpp:122-203, CellsSound).                                      *)
THEOREM Cells == Spec => []CellsSound
<1>1. Spec => []CellInv
  BY CellsAtInit, CellsAtStep, PTL DEF Spec
<1>2. QED
  BY <1>1, CellsSoundly, PTL

-----------------------------------------------------------------------------
(* Where the ends of the pipes are.                                        *)

(* Cell k is a pipe of a line that follows the rules, and one with a       *)
(* number.                                                                 *)
Sign == {"|", "!"}

Piping(cells, k) == /\ k >= 2 /\ cells[k - 1] # <<>> /\ cells[k] # <<>>
                    /\ Head(cells[k]).is \in Sign

Sending(cells, k) == Piping(cells, k) /\ Head(cells[k]).n > 0

(* A numbered pipe ends an instruction, any other leads to a command.      *)
PipeRule(cells, k) ==
  Piping(cells, k) =>
    /\ k < Len(cells)
    /\ Head(cells[k]).n > 0 => cells[k + 1] = <<>>
    /\ ~(Head(cells[k]).n > 0) =>
         Head(cells[k]).is = "|" /\ cells[k + 1] # <<>> /\ Head(cells[k + 1]).is \notin Sign

(* np_simple has no user pipes.                                            *)
SimpleRule(cells, k) ==
  (k >= 2 /\ cells[k - 1] # <<>> /\ cells[k] # <<>> /\ program = "simple") =>
    ~(Head(cells[k]).is \in {">", "<"} /\ Head(cells[k]).n > 0)

(* An instruction that is not sent away ends with its line.                *)
EndRule(cells, k) == cells[k] = <<>> => k = Len(cells) \/ Sending(cells, k - 1)

LineRules(cells) ==
  \A k \in 1..Len(cells) : PipeRule(cells, k) /\ SimpleRule(cells, k) /\ EndRule(cells, k)

(* The same for the cells closed so far, of which the last may yet be      *)
(* followed by what the line does not end with.                            *)
Rules(cs) ==
  \A k \in 1..Len(cs) :
    /\ k < Len(cs) => PipeRule(cs, k)
    /\ Piping(cs, k) /\ ~(Head(cs[k]).n > 0) => Head(cs[k]).is = "|"
    /\ SimpleRule(cs, k)
    /\ cs[k] = <<>> => k > 1 /\ Sending(cs, k - 1)

(* What may be the next cell.                                              *)
Fits(cs, c) ==
  LET L == Len(cs) IN
  /\ Sending(cs, L) <=> c = <<>>
  /\ Piping(cs, L) /\ c # <<>> => Head(c).is \notin Sign
  /\ c # <<>> =>
       /\ Head(c).is \in Sign /\ ~(Head(c).n > 0) => Head(c).is = "|"
       /\ program = "simple" => ~(Head(c).is \in {">", "<"} /\ Head(c).n > 0)

LEMMA SameCells ==
  ASSUME NEW cs, NEW ds, NEW k \in Nat, \A j \in 1..k : ds[j] = cs[j]
  PROVE  /\ Piping(ds, k) <=> Piping(cs, k)
         /\ Sending(ds, k) <=> Sending(cs, k)
         /\ SimpleRule(ds, k) <=> SimpleRule(cs, k)
<1>1. k >= 2 => ds[k] = cs[k] /\ ds[k - 1] = cs[k - 1]
  <2>1. k >= 2 => k \in 1..k /\ k - 1 \in 1..k
    OBVIOUS
  <2>2. QED
    BY <2>1
<1>2. QED
  BY <1>1, Zenon DEF Piping, Sending, SimpleRule

LEMMA RulesAppend ==
  ASSUME NEW cs \in Seq(Seq(Token)), NEW c \in Seq(Token), Rules(cs), Fits(cs, c)
  PROVE  Rules(Append(cs, c))
<1> DEFINE L == Len(cs)
           ds == Append(cs, c)
<1>1. /\ L \in Nat /\ Len(ds) = L + 1 /\ ds[L + 1] = c
      /\ \A j \in 1..L : ds[j] = cs[j]
  BY LenProperties, AppendProperties
<1> HIDE DEF L, ds
<1>2. ASSUME NEW k \in 1..L
      PROVE  /\ Piping(ds, k) <=> Piping(cs, k)
             /\ Sending(ds, k) <=> Sending(cs, k)
             /\ SimpleRule(ds, k) <=> SimpleRule(cs, k)
             /\ ds[k] = cs[k] /\ k \in 1..Len(cs)
  <2>1. k \in Nat /\ \A j \in 1..k : ds[j] = cs[j]
    BY <1>1
  <2>2. QED
    BY <1>1, <2>1, SameCells DEF L
<1>3. ASSUME NEW k \in 1..(L + 1), k < L + 1 PROVE PipeRule(ds, k)
  <2>1. CASE k < L
    <3>1. k \in 1..L /\ k + 1 \in 1..L /\ k < L + 1
      BY <1>1, <1>3, <2>1
    <3>2. k \in 1..Len(cs) /\ k < Len(cs)
      BY <1>2, <2>1, <3>1 DEF L
    <3>3. PipeRule(cs, k) /\ ds[k] = cs[k] /\ ds[k + 1] = cs[k + 1]
      BY <1>1, <3>1, <3>2 DEF Rules
    <3>4. Piping(ds, k) <=> Piping(cs, k)
      BY <1>2, <3>1
    <3>5. QED
      BY <1>1, <3>1, <3>3, <3>4 DEF PipeRule
  <2>2. CASE k = L
    <3>1. /\ L \in 1..L /\ L < L + 1 /\ ds[L + 1] = c /\ ds[L] = cs[L] /\ L \in 1..Len(cs)
          /\ Piping(ds, L) <=> Piping(cs, L)
      BY <1>1, <1>2, <1>3, <2>2
    <3>2. Piping(cs, L) /\ ~(Head(cs[L]).n > 0) => Head(cs[L]).is = "|"
      BY <3>1 DEF Rules
    <3>3. /\ Sending(cs, L) <=> c = <<>>
          /\ Piping(cs, L) /\ c # <<>> => Head(c).is \notin Sign
      BY DEF Fits, L
    <3>4. PipeRule(ds, L)
      BY <1>1, <3>1, <3>2, <3>3 DEF PipeRule, Sending
    <3>5. QED
      BY <2>2, <3>4
  <2>3. QED
    BY <1>1, <1>3, <2>1, <2>2
<1>8. ASSUME NEW k \in 1..(L + 1), Piping(ds, k), ~(Head(ds[k]).n > 0)
      PROVE  Head(ds[k]).is = "|"
  <2>1. CASE k \in 1..L
    <3>1. k \in 1..Len(cs) /\ ds[k] = cs[k] /\ Piping(cs, k)
      BY <1>2, <1>8, <2>1
    <3>2. QED
      BY <1>8, <3>1 DEF Rules
  <2>2. CASE k = L + 1
    <3>1. ds[k] = c /\ c # <<>> /\ Head(c).is \in Sign
      BY <1>1, <1>8, <2>2 DEF Piping
    <3>2. QED
      BY <1>8, <3>1 DEF Fits
  <2>3. QED
    BY <1>1, <2>1, <2>2
<1>4. ASSUME NEW k \in 1..(L + 1) PROVE SimpleRule(ds, k)
  <2>1. CASE k \in 1..L
    BY <1>2, <2>1 DEF Rules
  <2>2. CASE k = L + 1
    <3>1. ds[k] = c
      BY <1>1, <2>2
    <3>2. QED
      BY <3>1 DEF Fits, SimpleRule
  <2>3. QED
    BY <1>1, <2>1, <2>2
<1>5. ASSUME NEW k \in 1..(L + 1), ds[k] = <<>> PROVE k > 1 /\ Sending(ds, k - 1)
  <2>1. CASE k \in 1..L
    <3>1. k > 1 /\ Sending(cs, k - 1)
      BY <1>2, <1>5, <2>1 DEF Rules
    <3>2. k - 1 \in 1..L
      BY <1>1, <2>1, <3>1
    <3>3. QED
      BY <1>2, <3>1, <3>2
  <2>2. CASE k = L + 1
    <3>1. Sending(cs, L) /\ k - 1 = L
      BY <1>1, <1>5, <2>2 DEF Fits, L
    <3>2. L \in 1..L
      BY <1>1, <3>1 DEF Sending, Piping
    <3>3. QED
      BY <1>1, <1>2, <2>2, <3>1, <3>2
  <2>3. QED
    BY <1>1, <2>1, <2>2
<1>6. Rules(ds)
  BY <1>1, <1>3, <1>4, <1>5, <1>8 DEF Rules
<1>7. QED
  BY <1>6 DEF ds


(* What the next cell is to the one before.                                *)
LEMMA PipingAppend ==
  ASSUME NEW cs \in Seq(Seq(Token)), NEW L \in Nat, Len(cs) = L, NEW c \in Seq(Token)
  PROVE  /\ Piping(Append(cs, c), L + 1) <=>
               L > 0 /\ cs[L] # <<>> /\ c # <<>> /\ Head(c).is \in Sign
         /\ Sending(Append(cs, c), L + 1) <=>
               Piping(Append(cs, c), L + 1) /\ Head(c).n > 0
<1>1. Append(cs, c)[L + 1] = c /\ \A j \in 1..L : Append(cs, c)[j] = cs[j]
  BY Longer
<1>2. (L + 1) - 1 = L /\ (L + 1 >= 2 <=> L > 0)
  OBVIOUS
<1>3. L > 0 => Append(cs, c)[L] = cs[L]
  BY <1>1
<1>4. QED
  BY <1>1, <1>2, <1>3 DEF Piping, Sending

LEMMA FollowsSimple ==
  ASSUME program = "simple", NEW line \in Seq(Token), Legal(line), NEW i \in 1..Len(line)
  PROVE  ~(line[i].is \in {">", "<"} /\ line[i].n > 0)
<1>1. line[i] \in Token /\ i \in DOMAIN line
  BY ElementOfSeq, LenProperties
<1>2. Class(line[i]) \in {"STRING", "SYMBOL", "NUMPIPE"}
  <2>1. check(last_type(line, i), Class(line[i]))
    BY <1>1 DEF Legal, LegalIn
  <2>2. QED
    BY <2>1 DEF check
<1>3. QED
  BY <1>1, <1>2, ClassOf DEF Operator

(* The rules hold of the cells after every token.                          *)
Plain(c) ==
  /\ Head(c).is \notin Sign
  /\ program = "simple" => ~(Head(c).is \in {">", "<"} /\ Head(c).n > 0)

CutRules(s) ==
  /\ Rules(s.cells) /\ ~Sending(s.cells, Len(s.cells))
  /\ s.open # <<>> => Plain(s.open)

LEMMA PlainFits ==
  ASSUME NEW cs \in Seq(Seq(Token)), NEW c \in Seq(Token), c # <<>>, Plain(c),
         Rules(cs), ~Sending(cs, Len(cs))
  PROVE  Rules(Append(cs, c)) /\ ~Piping(Append(cs, c), Len(cs) + 1)
<1>1. Fits(cs, c)
  BY DEF Fits, Plain
<1>2. QED
  BY <1>1, RulesAppend, PipingAppend, LenProperties DEF Plain

LEMMA CutRulesStep ==
  ASSUME program \in Programs, NEW line \in Seq(Token), Legal(line), NEW i \in Nat,
         i < Len(line), NEW s \in CutState, CellsOf(s, line, i), CutRules(s)
  PROVE  CutRules(Tokenize(s, line[i + 1]))
<1> DEFINE t == line[i + 1]
           r == Tokenize(s, t)
           cs == s.cells
           L == Len(cs)
<1>1. /\ t \in Token /\ i + 1 \in 1..Len(line) /\ (i + 1) - 1 = i
      /\ <<t>> \in Seq(Token) /\ <<t>> # <<>> /\ Head(<<t>>) = t /\ <<>> \in Seq(Token)
  BY LenProperties, ElementOfSeq
<1>2. /\ cs \in Seq(Seq(Token)) /\ s.open \in Seq(Token) /\ L \in Nat
      /\ s.at \in {"first", "more", "file"}
  BY LenProperties DEF CutState
<1>3. /\ s.at = Where(line, i)
      /\ s.open = <<>> <=> s.at = "first"
  BY DEF CellsOf
<1>4. /\ s.at # "more" => t.is \in Word
      /\ t.is = "!" => t.n > 0
  BY <1>1, <1>3, Follows
<1>5. t.n \in Nat /\ (t.is \in Word => t.is \notin Operator)
  BY <1>1, ClassOf
<1>6. program = "simple" => ~(t.is \in {">", "<"} /\ t.n > 0)
  BY <1>1, FollowsSimple
<1>7. /\ Rules(cs) /\ ~Sending(cs, L) /\ (s.open # <<>> => Plain(s.open))
  BY DEF CutRules
<1>8. t.is \notin Sign => Plain(<<t>>)
  BY <1>1, <1>6 DEF Plain
<1> HIDE DEF t, cs, L
<1>10. CASE s.at = "first"
  <2>1. r.cells = cs /\ r.open = <<t>>
    <3>1. s.open = <<>> /\ Append(<<>>, t) = <<t>>
      BY <1>3, <1>10
    <3>2. QED
      BY <1>10, <3>1 DEF Tokenize, Added, CutState, cs
  <2>2. Plain(<<t>>)
    BY <1>4, <1>5, <1>8, <1>10 DEF Sign, Operator
  <2>3. QED
    BY <1>7, <2>1, <2>2 DEF CutRules, L, t
<1>11. CASE s.at # "first" /\ r = Added(s, t)
  <2>1. r.cells = cs /\ r.open = Append(s.open, t)
    BY <1>11 DEF Added, CutState, cs
  <2>2. s.open # <<>> /\ Head(Append(s.open, t)) = Head(s.open)
    BY <1>1, <1>2, <1>3, <1>11, HeadTailAppend
  <2>3. QED
    BY <1>7, <2>1, <2>2 DEF CutRules, L, Plain, t
<1>12. CASE s.at = "more" /\ r = Redirected(s, t) /\ t.is \in {">", "<"}
  <2>1. r.cells = Append(cs, s.open) /\ r.open = <<t>>
    BY <1>12 DEF Redirected, CutState, cs
  <2>2. s.open # <<>>
    BY <1>3, <1>12
  <2>3. Rules(Append(cs, s.open)) /\ ~Piping(Append(cs, s.open), L + 1)
    BY <1>2, <1>7, <2>2, PlainFits DEF L
  <2>4. Len(Append(cs, s.open)) = L + 1
    BY <1>2, Longer DEF L
  <2>5. Plain(<<t>>)
    BY <1>8, <1>12 DEF Sign
  <2>6. QED
    BY <2>1, <2>3, <2>4, <2>5 DEF CutRules, Sending, t
<1>13. CASE s.at = "more" /\ r = Piped(s, t) /\ t.is \in Sign
  <2> DEFINE cs1 == Append(cs, s.open)
             cs2 == Append(cs1, <<t>>)
  <2>1. r.cells = (IF t.n = 0 THEN cs2 ELSE Append(cs2, <<>>)) /\ r.open = <<>>
    <3>1. r.open = <<>>
      BY <1>13 DEF Piped, CutState
    <3>2. QED
      BY <1>1, <1>13, <3>1, PipedIs DEF cs
  <2>2. s.open # <<>>
    BY <1>3, <1>13
  <2>3. Rules(cs1) /\ ~Piping(cs1, L + 1)
    BY <1>2, <1>7, <2>2, PlainFits DEF L
  <2>4. cs1 \in Seq(Seq(Token)) /\ Len(cs1) = L + 1 /\ L + 1 \in Nat /\ cs1[L + 1] = s.open
    BY <1>2, Longer DEF L
  <2> HIDE DEF cs1
  <2>5. /\ cs2 \in Seq(Seq(Token)) /\ Len(cs2) = L + 2 /\ L + 2 \in Nat /\ cs2[L + 2] = <<t>>
    <3>1. (L + 1) + 1 = L + 2
      BY <1>2
    <3>2. QED
      BY <1>1, <2>4, <3>1, Longer
  <2>6. Fits(cs1, <<t>>)
    BY <1>1, <1>4, <1>6, <1>13, <2>3, <2>4 DEF Fits, Sending, Sign
  <2>7. Rules(cs2)
    BY <1>1, <2>3, <2>4, <2>6, RulesAppend
  <2>8. Piping(cs2, L + 2) /\ (Sending(cs2, L + 2) <=> t.n > 0)
    <3>1. (L + 1) + 1 = L + 2 /\ L + 1 > 0
      BY <1>2
    <3>2. /\ Piping(cs2, (L + 1) + 1) <=>
               L + 1 > 0 /\ cs1[L + 1] # <<>> /\ <<t>> # <<>> /\ Head(<<t>>).is \in Sign
          /\ Sending(cs2, (L + 1) + 1) <=> Piping(cs2, (L + 1) + 1) /\ Head(<<t>>).n > 0
      BY <1>1, <2>4, PipingAppend
    <3> HIDE DEF cs2
    <3>3. QED
      BY <1>1, <1>13, <2>2, <2>4, <3>1, <3>2
  <2> HIDE DEF cs2
  <2>9. CASE t.n = 0
    <3>1. r.cells = cs2 /\ ~Sending(cs2, L + 2)
      BY <2>1, <2>8, <2>9
    <3>2. QED
      BY <2>1, <2>5, <2>7, <3>1 DEF CutRules, t
  <2>10. CASE t.n > 0
    <3> DEFINE cs3 == Append(cs2, <<>>)
    <3>1. r.cells = cs3
      BY <2>1, <2>10
    <3>2. Fits(cs2, <<>>)
      BY <2>5, <2>8, <2>10 DEF Fits
    <3>3. Rules(cs3)
      BY <1>1, <2>5, <2>7, <3>2, RulesAppend
    <3>4. Len(cs3) = (L + 2) + 1 /\ cs3[(L + 2) + 1] = <<>>
      BY <1>1, <2>5, Longer
    <3>5. ~Sending(cs3, (L + 2) + 1)
      BY <3>4 DEF Sending, Piping
    <3> HIDE DEF cs3
    <3>6. QED
      BY <2>1, <3>1, <3>3, <3>4, <3>5 DEF CutRules, t
  <2>11. QED
    BY <1>5, <2>9, <2>10
<1>14. QED
  <2>1. CASE s.at = "more" /\ t.is \in {"|", "!"}
    <3>1. r = Piped(s, t)
      BY <2>1 DEF Tokenize
    <3>2. QED
      BY <1>13, <2>1, <3>1 DEF Sign, t
  <2>2. CASE s.at = "more" /\ (t.is = ">" \/ (t.is = "<" /\ t.n > 0))
    <3>1. r = Redirected(s, t)
      BY <2>2 DEF Tokenize
    <3>2. QED
      BY <1>12, <2>2, <3>1 DEF t
  <2>3. CASE /\ s.at # "first" /\ ~(s.at = "more" /\ t.is \in {"|", "!"})
             /\ ~(s.at = "more" /\ (t.is = ">" \/ (t.is = "<" /\ t.n > 0)))
    <3>1. r = Added(s, t)
      BY <2>3 DEF Tokenize
    <3>2. QED
      BY <1>11, <2>3, <3>1 DEF t
  <2>4. QED
    BY <1>10, <2>1, <2>2, <2>3 DEF t

LEMMA CutIsRuled ==
  ASSUME program \in Programs, NEW line \in Seq(Token), Legal(line)
  PROVE  CutRules(Cut(line)[Len(line)])
<1> DEFINE N == Len(line)
           S == {i \in 0..N : CellsOf(Cut(line)[i], line, i) /\ CutRules(Cut(line)[i])}
<1>1. N \in Nat
  BY LenProperties
<1>2. /\ \A i \in 0..N : Cut(line)[i] \in CutState
      /\ Cut(line)[0] = Begin
      /\ \A i \in 0..(N - 1) : Cut(line)[i + 1] = Tokenize(Cut(line)[i], line[i + 1])
  BY <1>1, CutDef
<1>3. 0 \in S
  <2>1. CellsOf(Begin, line, 0)
    BY BeginCells
  <2>2. CutRules(Begin)
    <3>1. Begin.cells = <<>> /\ Begin.open = <<>> /\ Len(<<>>) = 0
      BY DEF Begin
    <3>2. \A k \in 1..Len(<<>>) : FALSE
      BY <3>1
    <3> HIDE DEF Begin
    <3>3. QED
      BY <3>1, <3>2 DEF CutRules, Rules, Sending, Piping
  <2>3. 0 \in 0..N
    BY <1>1
  <2>4. QED
    BY <1>2, <2>1, <2>2, <2>3
<1>4. ASSUME NEW i \in 0..(N - 1), i \in S PROVE i + 1 \in S
  <2>1. /\ i \in Nat /\ i < N /\ i \in 0..N /\ i + 1 \in 0..N
        /\ Cut(line)[i] \in CutState /\ CellsOf(Cut(line)[i], line, i) /\ CutRules(Cut(line)[i])
    BY <1>1, <1>2, <1>4
  <2>2. CellsOf(Tokenize(Cut(line)[i], line[i + 1]), line, i + 1)
    BY <2>1, CutStep
  <2>3. CutRules(Tokenize(Cut(line)[i], line[i + 1]))
    BY <2>1, CutRulesStep
  <2>4. QED
    BY <1>2, <2>1, <2>2, <2>3
<1> HIDE DEF S
<1>5. 0..N \subseteq S
  BY <1>1, <1>3, <1>4, Inductive
<1>6. N \in 0..N
  BY <1>1
<1>7. QED
  BY <1>5, <1>6 DEF S

(* The cells of a line.                                                    *)
LEMMA ClosedRules ==
  ASSUME NEW cs \in Seq(Seq(Token)), NEW L \in Nat, Len(cs) = L, Rules(cs), ~Piping(cs, L)
  PROVE  LineRules(cs) /\ LineRules(Append(cs, <<>>))
<1> DEFINE ds == Append(cs, <<>>)
<1>1. /\ ds \in Seq(Seq(Token)) /\ Len(ds) = L + 1 /\ ds[L + 1] = <<>>
      /\ \A k \in 1..L : ds[k] = cs[k]
  BY Longer, EmptySeq
<1> HIDE DEF ds
<1>2. ASSUME NEW k \in 1..L
      PROVE  PipeRule(cs, k) /\ SimpleRule(cs, k) /\ (cs[k] = <<>> => k > 1 /\ Sending(cs, k - 1))
  <2>1. k \in 1..Len(cs)
    OBVIOUS
  <2>2. k # L => k < Len(cs)
    OBVIOUS
  <2>3. k = L => PipeRule(cs, k)
    BY DEF PipeRule
  <2>4. QED
    BY <2>1, <2>2, <2>3 DEF Rules
<1>3. LineRules(cs)
  BY <1>2 DEF LineRules, EndRule
<1>4. ASSUME NEW k \in 1..L PROVE PipeRule(ds, k) /\ SimpleRule(ds, k) /\ EndRule(ds, k)
  <2>1. /\ Piping(ds, k) <=> Piping(cs, k)
        /\ Sending(ds, k) <=> Sending(cs, k)
        /\ SimpleRule(ds, k) <=> SimpleRule(cs, k)
    <3>1. k \in Nat /\ \A j \in 1..k : ds[j] = cs[j]
      BY <1>1
    <3>2. QED
      BY <3>1, SameCells
  <2>2. ds[k] = cs[k]
    BY <1>1
  <2>3. PipeRule(ds, k)
    <3>1. ASSUME Piping(cs, k)
          PROVE  k < L /\ k < L + 1 /\ k + 1 \in 1..L
      BY <3>1, <1>2 DEF PipeRule
    <3>2. QED
      BY <1>1, <1>2, <2>1, <2>2, <3>1 DEF PipeRule
  <2>4. EndRule(ds, k)
    <3>1. ASSUME cs[k] = <<>> PROVE Sending(ds, k - 1)
      <4>1. k - 1 \in Nat /\ \A j \in 1..(k - 1) : ds[j] = cs[j]
        BY <1>1
      <4>2. Sending(cs, k - 1)
        BY <1>2, <3>1
      <4>3. QED
        BY <4>1, <4>2, SameCells
    <3>2. QED
      BY <2>2, <3>1 DEF EndRule
  <2>5. QED
    BY <1>2, <2>1, <2>3, <2>4
<1>5. PipeRule(ds, L + 1) /\ SimpleRule(ds, L + 1) /\ EndRule(ds, L + 1)
  BY <1>1 DEF PipeRule, SimpleRule, EndRule, Piping
<1>6. LineRules(ds)
  <2>1. \A k \in 1..(L + 1) : k \in 1..L \/ k = L + 1
    OBVIOUS
  <2>2. QED
    BY <1>1, <1>4, <1>5, <2>1 DEF LineRules
<1>7. QED
  BY <1>3, <1>6 DEF ds

LEMMA ReadRulesLegal ==
  ASSUME program \in Programs, NEW line \in Seq(Token), Legal(line), line # <<>>
  PROVE  LineRules(read_string(line).cells)
<1> DEFINE N == Len(line)
           s == Cut(line)[N]
           cs == s.cells
           L == Len(cs)
<1>1. N \in Nat /\ N > 0 /\ line[N] \in Token /\ N \in 1..Len(line) /\ (N - 1) + 1 = N
  BY EmptySeq, LenProperties, ElementOfSeq
<1>2. s \in CutState /\ CellsOf(s, line, N) /\ CutRules(s)
  BY CutCells, CutIsRuled
<1>3. read_string(line).cells = (cs \o (IF s.open = <<>> THEN <<>> ELSE <<s.open>>))
                                  \o (IF s.ends < 2 THEN <<<<>>>> ELSE <<>>)
  BY DEF read_string, Finish
<1>4. cs \in Seq(Seq(Token)) /\ s.open \in Seq(Token) /\ L \in Nat /\ s.ends \in 0..2
  BY <1>2, LenProperties DEF CutState
<1>5. /\ s.at = Where(line, N)
      /\ s.open = <<>> <=> s.at = "first"
      /\ s.ends = 2 <=> Class(line[N]) = "NUMPIPE"
      /\ s.at = "first" => (s.ends = 2 <=> cs # <<>> /\ cs[L] = <<>>)
  BY <1>1, <1>2 DEF CellsOf
<1>6. Class(Last(line)) # "SYMBOL" /\ Last(line) = line[N]
  BY DEF Legal, LegalIn, Last
<1>7. s.at = "first" <=> Class(line[N]) = "NUMPIPE"
  <2>1. s.at = "first" => line[N].is \in {"|", "!"}
    BY <1>1, <1>5 DEF Where
  <2>2. line[N].is = "!" => line[N].n > 0
    BY <1>1, Follows
  <2>3. QED
    BY <1>1, <1>5, <1>6, <2>1, <2>2, ClassOf DEF Where
<1>8. Rules(cs) /\ ~Sending(cs, L) /\ (s.open # <<>> => Plain(s.open))
  BY <1>2 DEF CutRules
<1> HIDE DEF s, N, cs, L
<1>9. CASE s.open = <<>>
  <2>1. s.ends = 2 /\ cs[L] = <<>>
    BY <1>5, <1>7, <1>9
  <2>2. read_string(line).cells = (cs \o <<>>) \o <<>>
    BY <1>3, <1>9, <2>1
  <2>3. read_string(line).cells = cs
    BY <1>4, <2>2, ConcatEmptySeq
  <2>4. ~Piping(cs, L)
    BY <2>1 DEF Piping
  <2>5. LineRules(cs)
    BY <1>4, <1>8, <2>4, ClosedRules DEF L
  <2>6. QED
    BY <2>3, <2>5
<1>10. CASE s.open # <<>>
  <2> DEFINE cs1 == Append(cs, s.open)
  <2>1. s.ends < 2
    BY <1>4, <1>5, <1>7, <1>10
  <2>2. read_string(line).cells = (cs \o <<s.open>>) \o <<<<>>>>
    BY <1>3, <1>10, <2>1
  <2>3. /\ cs1 \in Seq(Seq(Token)) /\ Len(cs1) = L + 1 /\ L + 1 \in Nat
        /\ cs1 = cs \o <<s.open>>
    BY <1>4, Longer, AppendIsConcat DEF L
  <2>4. Rules(cs1) /\ ~Piping(cs1, L + 1)
    BY <1>4, <1>8, <1>10, PlainFits DEF L
  <2> HIDE DEF cs1
  <2>5. LineRules(Append(cs1, <<>>))
    BY <2>3, <2>4, ClosedRules
  <2>6. Append(cs1, <<>>) = cs1 \o <<<<>>>>
    <3>1. <<>> \in Seq(Token)
      BY EmptySeq
    <3>2. QED
      BY <2>3, <3>1, AppendIsConcat
  <2>7. QED
    BY <2>2, <2>3, <2>5, <2>6
<1>11. QED
  BY <1>9, <1>10

LEMMA ReadRules ==
  ASSUME program \in Programs, NEW line \in Seq(Token)
  PROVE  LineRules(read_string(line).cells)
<1>1. CASE Legal(line) /\ line # <<>>
  BY <1>1, ReadRulesLegal
<1>2. CASE line = <<>>
  <2> DEFINE cells == <<<<>>>>
  <2>1. read_string(line).cells = cells
    BY <1>2, ReadEmpty
  <2>2. Len(cells) = 1 /\ cells[1] = <<>> /\ \A k \in 1..1 : k = 1
    OBVIOUS
  <2> HIDE DEF cells
  <2>3. LineRules(cells)
    BY <2>2 DEF LineRules, PipeRule, SimpleRule, EndRule, Piping
  <2>4. QED
    BY <2>1, <2>3
<1>3. CASE ~Legal(line)
  <2> DEFINE cells == <<line, <<>>>>
  <2>1. read_string(line).cells = cells /\ line # <<>>
    BY <1>3 DEF read_string, Legal, LegalIn
  <2>2. /\ Len(cells) = 2 /\ cells[1] = line /\ cells[2] = <<>>
        /\ \A k \in 1..2 : k = 1 \/ k = 2
    OBVIOUS
  <2> HIDE DEF cells
  <2>3. LineRules(cells)
    BY <2>1, <2>2 DEF LineRules, PipeRule, SimpleRule, EndRule, Piping
  <2>4. QED
    BY <2>1, <2>3
<1>4. QED
  BY <1>1, <1>2, <1>3

(* The rules through the loops.                                            *)
CellRules ==
  /\ \A k \in 1..cmd_count : PipeRule(cmds, k) /\ SimpleRule(cmds, k)
  /\ \A k \in (cmd_now + 1)..cmd_count : EndRule(cmds, k)
  /\ pc = "operator" => /\ cmd_now > 0 /\ cmds[cmd_now] # <<>>
                        /\ program # "simple" => ~Sending(cmds, cmd_now)
  /\ pc \in {"prompt", "event"} /\ program # "simple" =>
       cmd_now = 0 \/ cmds[cmd_now] = <<>> \/ Piping(cmds, cmd_now)

LEMMA RulesAtInit == Init => CellRules
<1>1. SUFFICES ASSUME Init PROVE CellRules
  OBVIOUS
<1>2. \A k \in 1..0 : FALSE
  OBVIOUS
<1>3. QED
  BY <1>1, <1>2 DEF Init, CellRules

(* es is cs, which ends an instruction, followed by ds.                    *)
Joins(es, cs, ds, L, M) ==
  /\ L \in Nat /\ M \in Nat /\ (L > 0 => cs[L] = <<>>)
  /\ \A k \in 1..L : es[k] = cs[k]
  /\ \A j \in 1..M : es[L + j] = ds[j]

LEMMA RulesConcat ==
  ASSUME NEW cs, NEW ds, NEW es, NEW L, NEW M, Joins(es, cs, ds, L, M)
  PROVE  /\ \A k \in 1..L : Piping(es, k) <=> Piping(cs, k)
         /\ \A j \in 1..M : Piping(es, L + j) <=> Piping(ds, j)
<1>1. /\ L \in Nat /\ M \in Nat /\ (L > 0 => cs[L] = <<>>)
      /\ \A k \in 1..L : es[k] = cs[k]
      /\ \A j \in 1..M : es[L + j] = ds[j]
  BY DEF Joins
<1>2. ASSUME NEW k \in 1..L PROVE Piping(es, k) <=> Piping(cs, k)
  <2>1. k \in Nat /\ \A j \in 1..k : es[j] = cs[j]
    BY <1>1
  <2>2. QED
    BY <2>1, SameCells
<1>3. ASSUME NEW j \in 1..M PROVE Piping(es, L + j) <=> Piping(ds, j)
  <2>0. L \in Nat /\ M \in Nat
    BY <1>1
  <2>1. CASE j = 1
    <3>1. ~Piping(ds, j)
      BY <2>1 DEF Piping
    <3>2. L > 0 => L \in 1..L /\ (L + 1) - 1 = L
      BY <2>0
    <3>3. L > 0 => es[(L + 1) - 1] = <<>>
      BY <1>1, <3>2
    <3>4. L = 0 => ~(L + 1 >= 2)
      BY <2>0
    <3>5. ~Piping(es, L + 1)
      BY <2>0, <3>3, <3>4 DEF Piping
    <3>6. QED
      BY <2>1, <3>1, <3>5
  <2>2. CASE j # 1
    <3>1. j - 1 \in 1..M /\ j \in 1..M /\ L + (j - 1) = (L + j) - 1 /\ L + j >= 2 /\ j >= 2
      BY <2>0, <2>2
    <3>2. es[(L + j) - 1] = ds[j - 1] /\ es[L + j] = ds[j]
      BY <1>1, <3>1
    <3>3. QED
      BY <3>1, <3>2 DEF Piping
  <2>3. QED
    BY <2>1, <2>2
<1>4. QED
  BY <1>1, <1>2, <1>3

LEMMA RulesAtLine == ASSUME CellInv, CellRules, ReadLine PROVE CellRules'
<1>1. PICK line \in Seq(Token) : Typed(line)
  BY LineTyped
<1> DEFINE ds == read_string(line).cells
           es == cmds \o ds
           L == Len(cmds)
           M == Len(ds)
<1>2. /\ ds \in Seq(Seq(Token)) /\ M \in Nat /\ M > 0 /\ read_string(line).count = M
      /\ LineRules(ds)
  BY Reads, ReadRules, LenProperties DEF ReadOf, CellInv
<1>3. /\ program' = program /\ pc' = "event" /\ pc = "prompt" /\ cmd_now' = cmd_now
      /\ cmds' = es /\ cmd_count' = cmd_count + read_string(line).count
  BY <1>1 DEF Typed
<1>4. /\ cmds \in Seq(Seq(Token)) /\ L \in Nat /\ cmd_count = L /\ cmd_now = L
      /\ L > 0 => cmds[L] = <<>>
  BY <1>3, LenProperties, EmptySeq DEF CellInv, isempty
<1>5. /\ \A k \in 1..L : PipeRule(cmds, k) /\ SimpleRule(cmds, k)
      /\ program # "simple" => L = 0 \/ cmds[L] = <<>> \/ Piping(cmds, L)
  BY <1>3, <1>4 DEF CellRules
<1>6. /\ \A k \in 1..L : (Piping(es, k) <=> Piping(cmds, k)) /\ es[k] = cmds[k]
      /\ \A j \in 1..M : (Piping(es, L + j) <=> Piping(ds, j)) /\ es[L + j] = ds[j]
      /\ Len(es) = L + M
  <2>1. cmds \in Seq(Seq(Token)) /\ ds \in Seq(Seq(Token)) /\ L \in Nat /\ M \in Nat
    BY <1>2, <1>4
  <2>2. /\ Len(es) = L + M
        /\ \A k \in 1..(L + M) : es[k] = IF k <= L THEN cmds[k] ELSE ds[k - L]
    BY <2>1, ConcatProperties
  <2> HIDE DEF ds, es, L, M
  <2>3. \A k \in 1..L : es[k] = cmds[k]
    <3>1. \A k \in 1..L : k \in 1..(L + M) /\ k <= L
      BY <2>1
    <3>2. QED
      BY <2>2, <3>1
  <2>4. \A j \in 1..M : es[L + j] = ds[j]
    <3>1. \A j \in 1..M : L + j \in 1..(L + M) /\ ~(L + j <= L) /\ (L + j) - L = j
      BY <2>1
    <3>2. QED
      BY <2>2, <3>1
  <2>5. L > 0 => cmds[L] = <<>>
    BY <1>4
  <2>6. Joins(es, cmds, ds, L, M)
    BY <2>1, <2>3, <2>4, <2>5 DEF Joins
  <2>7. QED
    BY <2>2, <2>3, <2>4, <2>6, RulesConcat
<1> HIDE DEF ds, es, L, M
<1>7. ASSUME NEW k \in 1..L PROVE PipeRule(es, k) /\ SimpleRule(es, k)
  <2>1. PipeRule(es, k)
    <3>1. ASSUME Piping(es, k) PROVE k < L /\ k + 1 \in 1..L /\ k < L + M
      <4>1. Piping(cmds, k) /\ k < Len(cmds)
        BY <1>5, <1>6, <3>1 DEF PipeRule
      <4>2. k < L
        BY <4>1 DEF L
      <4>3. L \in Nat /\ M \in Nat /\ M > 0
        BY <1>2, <1>4
      <4>4. QED
        BY <4>2, <4>3
    <3>2. QED
      BY <1>5, <1>6, <3>1 DEF PipeRule
  <2>2. SimpleRule(es, k)
    <3>1. k >= 2 => k - 1 \in 1..L
      BY <1>4
    <3>2. QED
      BY <1>5, <1>6, <3>1 DEF SimpleRule
  <2>3. QED
    BY <2>1, <2>2
<1>8. ASSUME NEW j \in 1..M
      PROVE  PipeRule(es, L + j) /\ SimpleRule(es, L + j) /\ EndRule(es, L + j)
  <2>1. /\ PipeRule(ds, j) /\ SimpleRule(ds, j) /\ EndRule(ds, j)
        /\ j \in 1..M /\ (Piping(es, L + j) <=> Piping(ds, j)) /\ es[L + j] = ds[j]
    BY <1>2, <1>6 DEF LineRules, M
  <2>2. j >= 2 => j - 1 \in 1..M /\ L + (j - 1) = (L + j) - 1
    BY <1>2, <1>4
  <2>3. PipeRule(es, L + j)
    <3>1. ASSUME Piping(ds, j) PROVE j + 1 \in 1..M /\ L + (j + 1) = (L + j) + 1 /\ L + j < L + M
      <4>1. j < M
        BY <2>1, <3>1 DEF PipeRule, M
      <4>2. L \in Nat /\ M \in Nat
        BY <1>2, <1>4
      <4>3. QED
        BY <4>1, <4>2
    <3>2. QED
      BY <1>6, <2>1, <3>1 DEF PipeRule
  <2>4. SimpleRule(es, L + j)
    <3>1. CASE j = 1
      <4>0. L \in Nat
        BY <1>4
      <4>1. L + 1 >= 2 => L > 0 /\ L \in 1..L /\ (L + 1) - 1 = L
        BY <4>0
      <4>2. L + 1 >= 2 => es[(L + 1) - 1] = <<>>
        BY <1>4, <1>6, <4>1
      <4>3. QED
        BY <3>1, <4>2 DEF SimpleRule
    <3>2. CASE j # 1
      <4>1. j >= 2
        BY <1>2, <3>2
      <4>2. es[(L + j) - 1] = ds[j - 1]
        BY <1>6, <2>2, <4>1
      <4>3. QED
        BY <2>1, <4>1, <4>2 DEF SimpleRule
    <3>3. QED
      BY <3>1, <3>2
  <2>5. EndRule(es, L + j)
    <3>1. ASSUME Sending(ds, j - 1) PROVE Sending(es, (L + j) - 1)
      <4>1. j - 1 >= 2
        BY <3>1 DEF Sending, Piping
      <4>2. j - 1 \in 1..M /\ L + (j - 1) = (L + j) - 1
        BY <1>2, <1>4, <4>1
      <4>3. (Piping(es, L + (j - 1)) <=> Piping(ds, j - 1)) /\ es[L + (j - 1)] = ds[j - 1]
        BY <1>6, <4>2
      <4>4. QED
        BY <3>1, <4>2, <4>3 DEF Sending
    <3>2. j = Len(ds) => L + j = Len(es)
      BY <1>6 DEF M
    <3>3. QED
      BY <2>1, <3>1, <3>2 DEF EndRule
  <2>6. QED
    BY <2>3, <2>4, <2>5
<1>9. /\ \A k \in 1..(L + M) : PipeRule(es, k) /\ SimpleRule(es, k)
      /\ \A k \in (L + 1)..(L + M) : EndRule(es, k)
  <2>1. \A k \in 1..(L + M) : k \in 1..L \/ (k - L \in 1..M /\ L + (k - L) = k)
    BY <1>2, <1>4
  <2>2. \A k \in (L + 1)..(L + M) : k - L \in 1..M /\ L + (k - L) = k
    BY <1>2, <1>4
  <2>3. \A k \in 1..(L + M) : PipeRule(es, k) /\ SimpleRule(es, k)
    <3>1. ASSUME NEW k \in 1..(L + M) PROVE PipeRule(es, k) /\ SimpleRule(es, k)
      <4>1. CASE k \in 1..L
        BY <1>7, <4>1
      <4>2. CASE k - L \in 1..M /\ L + (k - L) = k
        BY <1>8, <4>2
      <4>3. QED
        BY <2>1, <4>1, <4>2
    <3>2. QED
      BY <3>1
  <2>4. ASSUME NEW k \in (L + 1)..(L + M) PROVE EndRule(es, k)
    BY <1>8, <2>2
  <2>5. QED
    BY <2>3, <2>4
<1>10. L = 0 \/ (L > 0 /\ es[L] = <<>>)
  <2>1. L > 0 => L \in 1..L
    BY <1>4
  <2>2. QED
    BY <1>4, <1>6, <2>1
<1>11. cmds' = es /\ cmd_count' = L + M /\ cmd_now' = L /\ pc' = "event" /\ program' = program
  BY <1>2, <1>3, <1>4
<1>12. QED
  BY <1>9, <1>10, <1>11 DEF CellRules, SimpleRule

(* A cell is fetched: what follows it is another cell or the end.          *)
LEMMA RulesAtFetch ==
  ASSUME CellInv, CellRules, ~isempty, get_next_cmd,
         pc' = "operator" => Fetched # <<>> /\ (program # "simple" => ~Sending(cmds, cmd_now + 1)),
         pc' # "prompt",
         pc' = "event" /\ program # "simple" => Fetched = <<>> \/ Piping(cmds, cmd_now + 1)
  PROVE  CellRules'
<1>1. /\ program' = program /\ cmds' = cmds /\ cmd_count' = cmd_count
      /\ cmd_now' = cmd_now + 1 /\ cmd_now \in Nat /\ cmd_count \in Nat
      /\ Fetched = cmds[cmd_now + 1]
  BY LenProperties DEF CellInv, get_next_cmd, Fetched
<1>2. /\ \A k \in 1..cmd_count : PipeRule(cmds, k) /\ SimpleRule(cmds, k)
      /\ \A k \in (cmd_now + 1)..cmd_count : EndRule(cmds, k)
  BY DEF CellRules
<1>3. \A k \in (cmd_now' + 1)..cmd_count : k \in (cmd_now + 1)..cmd_count
  BY <1>1
<1>4. cmd_now' > 0
  BY <1>1
<1>5. QED
  BY <1>1, <1>2, <1>3, <1>4 DEF CellRules, SimpleRule

LEMMA RulesAtStep == ASSUME CellInv, CellRules, [Next]_vars PROVE CellRules'
<1>0. /\ cmd_now \in Nat /\ cmd_count \in Nat /\ cmd_count = Len(cmds)
      /\ cmds \in Seq(Seq(Token)) /\ cmd_now \in 0..cmd_count
  BY LenProperties DEF CellInv
<1>1. CASE ReadLine
  BY <1>1, RulesAtLine
<1>2. CASE LineDone \/ UNCHANGED vars
  <2>1. /\ program' = program /\ cmds' = cmds /\ cmd_count' = cmd_count /\ cmd_now' = cmd_now
        /\ pc' = pc \/ (pc = "event" /\ pc' = "prompt")
    BY <1>2 DEF LineDone, vars, cursor
  <2>2. QED
    BY <2>1 DEF CellRules, SimpleRule
<1>3. CASE FetchEvent
  <2>1. ~isempty /\ get_next_cmd /\ pc = "event" /\ pc' \in {"event", "operator", "skip"}
    BY <1>3 DEF FetchEvent
  <2>2. /\ pc' = "operator" => Fetched # <<>>
        /\ pc' = "event" => Fetched = <<>>
    BY <1>3 DEF FetchEvent
  <2>3. ASSUME Fetched # <<>>, program # "simple" PROVE ~Sending(cmds, cmd_now + 1)
    <3>1. cmd_now = 0 \/ cmds[cmd_now] = <<>> \/ Piping(cmds, cmd_now)
      BY <2>1, <2>3 DEF CellRules
    <3>2. (cmd_now + 1) - 1 = cmd_now /\ (cmd_now + 1 >= 2 => cmd_now # 0)
      BY <1>0
    <3>3. CASE cmd_now = 0 \/ cmds[cmd_now] = <<>>
      BY <3>2, <3>3 DEF Sending, Piping
    <3>4. CASE Piping(cmds, cmd_now)
      <4>1. cmd_now \in 1..cmd_count
        BY <1>0, <3>4 DEF Piping
      <4>2. PipeRule(cmds, cmd_now)
        BY <4>1 DEF CellRules
      <4>3. Head(cmds[cmd_now + 1]).is \notin Sign
        BY <2>3, <3>4, <4>2 DEF PipeRule, Fetched
      <4>4. QED
        BY <4>3 DEF Sending, Piping
    <3>5. QED
      BY <3>1, <3>3, <3>4
  <2>4. QED
    BY <2>1, <2>2, <2>3, RulesAtFetch
<1>4. CASE Skip
  <2>1. ~isempty /\ get_next_cmd /\ pc' \in {"event", "skip"} /\ (pc' = "event" => Fetched = <<>>)
    BY <1>4 DEF Skip, CellInv, NeverPastEnd
  <2>2. QED
    BY <2>1, RulesAtFetch
<1>5. CASE FetchOperator
  <2>1. /\ ~isempty /\ get_next_cmd /\ pc = "operator" /\ pc' \in {"event", "operator"}
        /\ pc' = "event" <=> LastOperator(Fetched)
    BY <1>5 DEF FetchOperator, CellInv, NeverPastEnd
  <2>2. pc' = "operator" => Fetched # <<>> /\ ~Sending(cmds, cmd_now + 1)
    BY <2>1 DEF LastOperator, Fetched, Sending, Piping, Sign
  <2>3. ASSUME program # "simple", pc' = "event" PROVE Fetched = <<>> \/ Piping(cmds, cmd_now + 1)
    <3>1. Fetched = <<>> \/ Head(Fetched).is \in Sign
      BY <2>1, <2>3 DEF LastOperator, Sign
    <3>2. cmd_now > 0 /\ cmds[cmd_now] # <<>> /\ (cmd_now + 1) - 1 = cmd_now /\ cmd_now + 1 >= 2
      BY <1>0, <2>1 DEF CellRules
    <3>3. QED
      BY <3>1, <3>2 DEF Piping, Fetched
  <2>4. QED
    BY <2>1, <2>2, <2>3, RulesAtFetch
<1>6. QED
  BY <1>1, <1>2, <1>3, <1>4, <1>5 DEF Next

(* Types.                                                                  *)
Made == 0..pipes
Held == Made \union {DevNull}

Child == [at : Nat, fd_in : Pipe \union {0, DevNull}, in : Pipe \union {0, DevNull},
          out : Pipe \union {0, DevNull}, state : {"runs", "zombie", "gone"}]

Starting == job \in {"receive", "send", "fork"}
Pending == job \in {"receive", "send"}

ControlTypes ==
  /\ job \in {"none", "receive", "send", "fork", "wait"}
  /\ job # "none" => pc = "event"
  /\ (job = "receive" => in_operator) /\ (job = "send" => out_operator)
  /\ at \in Nat /\ instruction_count \in Nat /\ number \in Nat \union {-1}
  /\ in_operator \in BOOLEAN /\ out_operator \in BOOLEAN
  /\ program = "simple" => ~in_operator /\ ~out_operator
  /\ pc \in {"operator", "skip"} => fd_out = 0 /\ number = -1
  /\ job = "wait" => procs # <<>> /\ fd_out = 0

EndTypes ==
  /\ pipes \in Nat /\ pipes <= MaxPipes
  /\ wr \in [Pipe -> SUBSET (0..Len(procs))]
  /\ rd \in [Pipe -> SUBSET (0..Len(procs))]
  /\ \A p \in Pipe : p > pipes => wr[p] = {} /\ rd[p] = {}

TableTypes ==
  /\ fd_in \in Held /\ fd_out \in Held
  /\ box \in [Slot -> Made] /\ user_pipe \in Made

ChildTypes ==
  /\ procs \in Seq(Child)
  /\ \A c \in DOMAIN procs : procs[c].fd_in \in Held /\ procs[c].in \in {0, procs[c].fd_in}

(* Whose write end was replaced by /dev/null is the last pipe made.        *)
LostTypes ==
  /\ lost \subseteq 1..pipes
  /\ fd_out = DevNull => pipes \in lost /\ ~Pending

ShellTypes == ControlTypes /\ EndTypes /\ TableTypes /\ ChildTypes /\ LostTypes

(* No command reads what the last one wrote.                               *)
Ends == isempty \/ Fetched = <<>>

Sight ==
  /\ \A p \in Pipe \ lost : Shell \in wr[p] => p \in Boxed \/ (Starting /\ p = fd_out)
  /\ \A p \in lost : Shell \in wr[p] /\ p \notin Boxed /\ p # fd_out /\ p # user_pipe
  /\ Starting /\ number # -1 => fd_out # 0 /\ fd_out = box[Entry(instruction_count, number)]
  /\ Starting /\ number = -1 => fd_out \notin Boxed
  /\ \A c \in DOMAIN procs : \A p \in Pipe \ lost : c \in wr[p] => procs[c].out = p
  /\ \A c \in DOMAIN procs : procs[c].in \in Pipe => Shell \notin wr[procs[c].in]
  /\ (pc = "operator" \/ Starting) /\ fd_in \in Pipe => Shell \notin wr[fd_in]
  /\ pc = "event" /\ fd_out \in Boxed \union {DevNull} => Ends
  /\ user_pipe \notin Boxed
  /\ Pending /\ fd_out # 0 => fd_out # user_pipe
  /\ Pending /\ out_operator /\ fd_out = 0 => Ends

(* The pipe the next command is to read.                                   *)
Leads == fd_out \in Pipe /\ fd_out \notin Boxed /\ fd_out # user_pipe

(* The input of a command that has yet to be forked.                       *)
Hand == IF pc = "operator" \/ Starting THEN {fd_in} ELSE {}

Kept ==
  /\ \A s, t \in Slot : box[s] = box[t] /\ box[s] # 0 => s = t
  /\ user_pipe # 0 => Shell \in rd[user_pipe]
  /\ \A p \in Boxed : Shell \in wr[p] /\ Shell \in rd[p]
  /\ \A p \in lost : Shell \in rd[p]
  /\ \A p \in Pipe \ lost : Shell \in rd[p] =>
       \/ p \in Boxed \union {user_pipe, fd_out} \union Hand
       \/ \E c \in DOMAIN procs : procs[c].state # "gone" /\ procs[c].fd_in = p
  /\ \A c \in DOMAIN procs : procs[c].fd_in \in Pipe =>
       procs[c].fd_in \notin Boxed \union lost /\ procs[c].fd_in # user_pipe
  /\ \A p \in Hand : p \in Pipe => p \notin Boxed \union lost /\ p # user_pipe
  /\ pc = "event" /\ fd_out = user_pipe /\ fd_out # 0 => Ends
  /\ pc = "prompt" => ~Leads
  /\ pc = "event" /\ Leads => ~Ends
  /\ pc = "operator" /\ builtin(cmds[at]) => fd_in = 0

Straight == mishaps \intersect {"fed", "both"} = {}

LineInv == /\ CellRules /\ ShellTypes
           /\ Straight => Sight
           /\ mishaps = {} => Kept

LEMMA EntryType ==
  ASSUME NEW count \in Nat, NEW add \in Nat
  PROVE  Entry(count, add) \in Slot
BY LineShellAssumption DEF Entry, Slot

(* Making a pipe.                                                          *)
LEMMA NewPipe ==
  ASSUME EndTypes, get_new_fd, procs' = procs, Len(procs) \in Nat
  PROVE  /\ EndTypes' /\ pipes' = pipes + 1 /\ pipes' \in Pipe /\ pipes' \notin Made
         /\ pipes' # 0 /\ pipes' # DevNull
         /\ wr'[pipes'] = {Shell} /\ rd'[pipes'] = {Shell}
         /\ \A p \in Pipe \ {pipes'} : wr'[p] = wr[p] /\ rd'[p] = rd[p]
<1>1. pipes' = pipes + 1 /\ pipes' \in Pipe /\ pipes \in Nat /\ pipes' <= MaxPipes
  BY LineShellAssumption DEF get_new_fd, EndTypes, Pipe
<1>2. /\ wr' = [wr EXCEPT ![pipes'] = {Shell}] /\ rd' = [rd EXCEPT ![pipes'] = {Shell}]
  BY <1>1 DEF get_new_fd
<1>3. Shell \in 0..Len(procs)
  BY DEF Shell
<1>4. /\ wr' \in [Pipe -> SUBSET (0..Len(procs))] /\ rd' \in [Pipe -> SUBSET (0..Len(procs))]
      /\ wr'[pipes'] = {Shell} /\ rd'[pipes'] = {Shell}
      /\ \A p \in Pipe \ {pipes'} : wr'[p] = wr[p] /\ rd'[p] = rd[p]
  BY <1>1, <1>2, <1>3 DEF EndTypes
<1>5. ASSUME NEW p \in Pipe, p > pipes' PROVE wr'[p] = {} /\ rd'[p] = {}
  <2>1. p # pipes' /\ p > pipes
    BY <1>1, <1>5 DEF Pipe
  <2>2. QED
    BY <1>4, <2>1 DEF EndTypes
<1>6. EndTypes'
  BY <1>1, <1>4, <1>5 DEF EndTypes
<1>7. QED
  BY <1>1, <1>4, <1>6 DEF Made, Pipe, DevNull

-----------------------------------------------------------------------------
(* Types through the steps.                                                *)

LEMMA Numbers ==
  ASSUME CellInv, ShellTypes
  PROVE  /\ Len(procs) \in Nat /\ DOMAIN procs = 1..Len(procs)
         /\ cmd_now \in Nat /\ cmd_count \in Nat /\ instrusion_count \in Nat
         /\ cmds \in Seq(Seq(Token))
<1>1. CellsSound
  BY CellsSoundly
<1>2. procs \in Seq(Child) /\ cmds \in Seq(Seq(Token))
  BY DEF ShellTypes, ChildTypes, CellInv
<1>3. Len(cmds) \in Nat /\ Len(procs) \in Nat /\ DOMAIN procs = 1..Len(procs)
  BY <1>2, LenProperties
<1>4. cmd_now \in Nat /\ cmd_count \in Nat
  BY <1>3 DEF CellInv
<1>5. instrusion_count \in Nat
  BY <1>1, <1>4 DEF CellsSound, TypeOK
<1>6. QED
  BY <1>2, <1>3, <1>4, <1>5

(* What a shell makes of the cell it expects an operator in.               *)
Operation(t) ==
  \/ Fetched # <<>> /\ Numbered(t) /\ t.is \in Sign /\ NumberedPipe(t)
  \/ Fetched # <<>> /\ ~Numbered(t) /\ t.is \in Sign /\ PlainPipe
  \/ Fetched # <<>> /\ t.is \in {">", "<"} /\ program # "simple" /\ UserPipe(t)
  \/ NoPipe /\ (Fetched = <<>> \/ t.is \notin Sign)

LEMMA Operations ==
  ASSUME CellInv, CellRules, GetOperator
  PROVE  /\ Operation(Head(Fetched))
         /\ Fetched # <<>> => Head(Fetched) \in Token /\ Head(Fetched).n \in Nat
         /\ pc = "operator" /\ ~isempty /\ pc' \in {"event", "operator"}
         /\ pc' = "event" <=> LastOperator(Fetched)
         /\ cmd_now \in Nat /\ cmd_now + 1 \in 1..cmd_count /\ Fetched = cmds[cmd_now + 1]
         /\ cmd_now' = cmd_now + 1 /\ cmd_now > 0 /\ cmds[cmd_now] # <<>>
         /\ cmds' = cmds /\ program' = program /\ cmd_count' = cmd_count
<1> DEFINE t == Head(Fetched)
<1>1. /\ pc = "operator" /\ ~isempty /\ pc' \in {"event", "operator"}
      /\ pc' = "event" <=> LastOperator(Fetched)
      /\ get_next_cmd
  BY DEF GetOperator, FetchOperator, CellInv, NeverPastEnd
<1>2. /\ cmds \in Seq(Seq(Token)) /\ cmd_count = Len(cmds) /\ cmd_count \in Nat
      /\ cmd_now \in 0..cmd_count
  BY LenProperties DEF CellInv
<1>3. /\ cmd_now + 1 \in 1..cmd_count /\ Fetched = cmds[cmd_now + 1] /\ cmd_now \in Nat
      /\ cmd_now' = cmd_now + 1 /\ cmds' = cmds /\ program' = program /\ cmd_count' = cmd_count
  BY <1>1, <1>2 DEF Fetched, isempty, get_next_cmd
<1>4. Fetched \in Seq(Token)
  BY <1>2, <1>3, ElementOfSeq
<1>5. Fetched # <<>> => t \in Token /\ t.n \in Nat
  <2>1. Fetched # <<>> => t \in Token
    BY <1>4
  <2>2. QED
    BY <2>1, ClassOf
<1>6. cmd_now > 0 /\ cmds[cmd_now] # <<>> /\ SimpleRule(cmds, cmd_now + 1)
  BY <1>1, <1>3 DEF CellRules
<1>7. Fetched # <<>> /\ program = "simple" => ~(t.is \in {">", "<"} /\ t.n > 0)
  <2>1. (cmd_now + 1) - 1 = cmd_now /\ cmd_now + 1 >= 2
    BY <1>3, <1>6
  <2>2. QED
    BY <1>3, <1>6, <2>1 DEF SimpleRule
<1>8. Operation(t)
  <2>1. CASE Fetched = <<>>
    BY <2>1 DEF GetOperator, Operation
  <2>2. CASE Fetched # <<>> /\ Numbered(t)
    BY <2>2 DEF GetOperator, Operation, Numbered, Sign
  <2>3. CASE Fetched # <<>> /\ ~Numbered(t) /\ t.is \in {"|", "!"}
    BY <2>3 DEF GetOperator, Operation, Sign
  <2>4. CASE Fetched # <<>> /\ t.is \in {">", "<"} /\ t.n > 0
    <3>1. ~Numbered(t) /\ t.is \notin {"|", "!"}
      BY <2>4 DEF Numbered
    <3>2. UserPipe(t)
      BY <2>4, <3>1 DEF GetOperator
    <3>3. QED
      BY <1>7, <2>4, <3>2 DEF Operation
  <2>5. CASE Fetched # <<>> /\ t.is \notin {"|", "!"} /\ ~(t.is \in {">", "<"} /\ t.n > 0)
    <3>1. ~Numbered(t)
      BY <2>5 DEF Numbered
    <3>2. NoPipe
      BY <2>5, <3>1 DEF GetOperator
    <3>3. QED
      BY <2>5, <3>2 DEF Operation, Sign
  <2>6. QED
    BY <2>1, <2>2, <2>3, <2>4, <2>5
<1>9. QED
  BY <1>1, <1>3, <1>5, <1>6, <1>8

(* Nothing moves but the cursor.                                           *)
LEMMA TypesAtCells ==
  ASSUME CellInv, ShellTypes,
         ShellReads \/ ShellPrompts \/ NoInstruction \/ SkipRest \/ UNCHANGED allVars
  PROVE  ShellTypes'
<1>0. CellInv /\ ControlTypes /\ EndTypes /\ TableTypes /\ ChildTypes /\ LostTypes
  BY DEF ShellTypes
<1>1. /\ UNCHANGED <<job, at, instruction_count, number, in_operator, out_operator>>
      /\ UNCHANGED <<wr, rd, pipes, box, user_pipe, procs, program, lost>>
      /\ fd_in' \in {0, fd_in, fd_out, pipes} /\ fd_out' \in {0, fd_out}
      /\ job = "none" \/ pc' = pc
      /\ \/ pc' = pc
         \/ pc' \in {"event", "prompt"}
  <2>1. CASE ShellReads
    BY <1>0, <2>1 DEF ShellReads, ReadLine, Typed, tables, ends, ControlTypes
  <2>2. CASE ShellPrompts
    BY <2>2 DEF ShellPrompts, LineDone, shellVars, command, tables, ends
  <2>3. CASE NoInstruction
    BY <2>3 DEF NoInstruction, FetchEvent, builtin, get_next_cmd, tables, ends, ReadEnd
  <2>4. CASE SkipRest
    BY <1>0, <2>4 DEF SkipRest, Skip, get_next_cmd, shellVars, command, tables, ends, ControlTypes
  <2>5. CASE UNCHANGED allVars
    BY <2>5 DEF allVars, vars, shellVars, command, tables, ends
  <2>6. QED
    BY <2>1, <2>2, <2>3, <2>4, <2>5
<1>2. EndTypes'
  BY <1>0, <1>1 DEF EndTypes
<1>3. ChildTypes'
  BY <1>0, <1>1 DEF ChildTypes, Held, Made
<1>4. TableTypes'
  <2>1. 0 \in Made /\ pipes \in Made
    BY <1>0 DEF EndTypes, Made
  <2>2. QED
    BY <1>0, <1>1, <2>1 DEF TableTypes, Held, Made
<1>5. ControlTypes'
  BY <1>0, <1>1 DEF ControlTypes
<1>6. LostTypes'
  BY <1>0, <1>1 DEF LostTypes, Pending, DevNull
<1>7. QED
  BY <1>2, <1>3, <1>4, <1>5, <1>6 DEF ShellTypes

LEMMA TypesAtGetEvent ==
  ASSUME CellInv, ShellTypes, GetEvent
  PROVE  ShellTypes'
<1>0. ControlTypes /\ EndTypes /\ TableTypes /\ ChildTypes /\ LostTypes
  BY DEF ShellTypes
<1> DEFINE sent == box[Entry(instrusion_count, 0)]
<1>1. /\ UNCHANGED <<job, user_pipe, rd, pipes, procs, program, lost>> /\ job = "none"
      /\ instruction_count' = instrusion_count /\ at' = cmd_now + 1
      /\ fd_in' \in {fd_out, pipes, sent}
      /\ box' = box \/ box' = clean(Entry(instrusion_count, 0))
      /\ wr' = wr \/ wr' = Closed(wr, sent, Shell)
      /\ fd_out' = 0 /\ number' = -1
      /\ in_operator' = FALSE /\ out_operator' = FALSE
  BY DEF GetEvent, FetchEvent, get_next_cmd, GiveUp, ReadEnd
<1>2. instrusion_count \in Nat /\ cmd_now + 1 \in Nat /\ Len(procs) \in Nat
  BY Numbers
<1>3. Entry(instrusion_count, 0) \in Slot /\ sent \in Made /\ 0 \in Made /\ pipes \in Made
  <2>1. Entry(instrusion_count, 0) \in Slot
    BY <1>2, EntryType
  <2>2. box \in [Slot -> Made] /\ 0 \in Made /\ pipes \in Made
    BY <1>0 DEF TableTypes, EndTypes, Made
  <2>3. QED
    BY <2>1, <2>2
<1> HIDE DEF sent
<1>4. box' \in [Slot -> Made]
  BY <1>0, <1>1, <1>3 DEF clean, TableTypes
<1>5. EndTypes'
  BY <1>0, <1>1 DEF EndTypes, Closed
<1>6. ChildTypes'
  BY <1>0, <1>1 DEF ChildTypes, Held, Made
<1>7. TableTypes'
  BY <1>0, <1>1, <1>3, <1>4 DEF TableTypes, Held, Made
<1>8. ControlTypes'
  BY <1>0, <1>1, <1>2 DEF ControlTypes
<1>9. LostTypes'
  BY <1>0, <1>1 DEF LostTypes, DevNull
<1>10. QED
  BY <1>5, <1>6, <1>7, <1>8, <1>9 DEF ShellTypes

LEMMA TypesAtGetOperator ==
  ASSUME CellInv, CellRules, ShellTypes, GetOperator
  PROVE  ShellTypes'
<1>0. ControlTypes /\ EndTypes /\ TableTypes /\ ChildTypes /\ LostTypes
  BY DEF ShellTypes
<1> DEFINE t == Head(Fetched)
<1>1. /\ UNCHANGED <<at, instruction_count, fd_in, user_pipe, procs, lost>>
      /\ job' \in {"none", "receive", "send", "fork"}
      /\ (job' = "receive" => in_operator') /\ (job' = "send" => out_operator')
      /\ job' # "none" => LastOperator(Fetched)
  BY DEF GetOperator
<1>2. /\ Operation(t)
      /\ Fetched # <<>> => t.n \in Nat
      /\ pc = "operator" /\ pc' \in {"event", "operator"}
      /\ pc' = "event" <=> LastOperator(Fetched)
      /\ program' = program
  BY Operations
<1>3. /\ Len(procs) \in Nat /\ instruction_count \in Nat /\ fd_out = 0 /\ number = -1
      /\ pipes \in Nat
  BY <1>0, <1>2, Numbers DEF ControlTypes, EndTypes
<1>4. /\ number' \in Nat \union {-1} /\ in_operator' \in BOOLEAN /\ out_operator' \in BOOLEAN
      /\ program = "simple" => ~in_operator' /\ ~out_operator'
      /\ EndTypes' /\ pipes' >= pipes /\ pipes' \in Nat
      /\ fd_out' \in 0..pipes' /\ box' \in [Slot -> 0..pipes']
      /\ pc' = "operator" => fd_out' = 0 /\ number' = -1
  <2>1. CASE Fetched # <<>> /\ Numbered(t) /\ t.is \in Sign /\ NumberedPipe(t)
    <3> DEFINE s == Entry(instruction_count, t.n)
    <3>1. number' = t.n /\ UNCHANGED <<in_operator, out_operator>>
      BY <2>1 DEF NumberedPipe
    <3>2. s \in Slot
      BY <1>2, <1>3, <2>1, EntryType
    <3>3. LastOperator(Fetched)
      BY <2>1 DEF LastOperator, Sign
    <3>4. CASE box[s] # 0
      <4>1. fd_out' = box[s] /\ box' = box /\ UNCHANGED <<wr, rd, pipes>>
        BY <2>1, <3>4 DEF NumberedPipe, ends
      <4>2. EndTypes'
        BY <1>0, <1>1, <4>1 DEF EndTypes
      <4>3. QED
        BY <1>0, <1>2, <1>3, <2>1, <3>1, <3>2, <3>3, <4>1, <4>2 DEF TableTypes, Made, ControlTypes
    <3>5. CASE box[s] = 0
      <4>1. get_new_fd /\ fd_out' = pipes' /\ box' = [box EXCEPT ![s] = pipes']
        BY <2>1, <3>5 DEF NumberedPipe
      <4>2. EndTypes' /\ pipes' = pipes + 1
        BY <1>0, <1>1, <1>3, <4>1, NewPipe
      <4> HIDE DEF s
      <4>3. box' \in [Slot -> 0..pipes']
        BY <1>0, <1>3, <3>2, <4>1, <4>2 DEF TableTypes, Made
      <4>4. QED
        BY <1>0, <1>2, <1>3, <2>1, <3>1, <3>3, <4>1, <4>2, <4>3 DEF ControlTypes
    <3>6. QED
      BY <3>4, <3>5
  <2>2. CASE Fetched # <<>> /\ ~Numbered(t) /\ t.is \in Sign /\ PlainPipe
    <3>1. get_new_fd /\ fd_out' = pipes' /\ UNCHANGED <<number, in_operator, out_operator, box>>
      BY <2>2 DEF PlainPipe
    <3>2. EndTypes' /\ pipes' = pipes + 1
      BY <1>0, <1>1, <1>3, <3>1, NewPipe
    <3>3. LastOperator(Fetched)
      BY <2>2 DEF LastOperator, Sign
    <3>4. box' \in [Slot -> 0..pipes']
      BY <1>0, <1>3, <3>1, <3>2 DEF TableTypes, Made
    <3>5. QED
      BY <1>0, <1>2, <1>3, <3>1, <3>2, <3>3, <3>4 DEF ControlTypes
  <2>3. CASE \/ Fetched # <<>> /\ t.is \in {">", "<"} /\ program # "simple" /\ UserPipe(t)
             \/ NoPipe
    <3>1. UNCHANGED <<fd_out, number, box, wr, rd, pipes>>
      BY <2>3 DEF UserPipe, NoPipe, ends
    <3>2. /\ in_operator' \in BOOLEAN /\ out_operator' \in BOOLEAN
          /\ program = "simple" => ~in_operator' /\ ~out_operator'
      <4>1. CASE NoPipe
        BY <1>0, <4>1 DEF NoPipe, ControlTypes
      <4>2. CASE program # "simple" /\ UserPipe(t)
        BY <1>0, <4>2 DEF UserPipe, ControlTypes
      <4>3. QED
        BY <2>3, <4>1, <4>2
    <3>3. EndTypes'
      BY <1>0, <1>1, <3>1 DEF EndTypes
    <3>4. QED
      BY <1>0, <1>3, <3>1, <3>2, <3>3 DEF TableTypes, Made
  <2>4. QED
    BY <1>2, <2>1, <2>2, <2>3 DEF Operation
<1>5. ChildTypes'
  BY <1>0, <1>1, <1>3, <1>4 DEF ChildTypes, Held, Made
<1>6. TableTypes'
  BY <1>0, <1>1, <1>3, <1>4 DEF TableTypes, Held, Made
<1>7. ControlTypes'
  BY <1>0, <1>1, <1>2, <1>4 DEF ControlTypes
<1>8. LostTypes'
  <2>1. 1..pipes \subseteq 1..pipes' /\ fd_out' # DevNull
    BY <1>3, <1>4 DEF DevNull
  <2>2. QED
    BY <1>0, <1>1, <2>1 DEF LostTypes
<1>9. QED
  BY <1>4, <1>5, <1>6, <1>7, <1>8 DEF ShellTypes

(* A user pipe is received, sent or refused.                               *)
LEMMA TypesAtUserPipes ==
  ASSUME CellInv, ShellTypes, ReceivePipe \/ SendPipe
  PROVE  ShellTypes'
<1>0. /\ ControlTypes /\ EndTypes /\ TableTypes /\ ChildTypes /\ LostTypes
      /\ Len(procs) \in Nat
  BY Numbers DEF ShellTypes
<1>1. /\ UNCHANGED <<program, pc, at, instruction_count, number, in_operator, out_operator>>
      /\ UNCHANGED <<box, procs>> /\ Pending /\ job' \in {"send", "fork"}
      /\ job' = "send" => out_operator
      /\ fd_in' \in {fd_in, user_pipe, DevNull}
      /\ lost' = lost \/ lost' = lost \union {pipes'}
      /\ (UNCHANGED <<wr, rd, pipes>> /\ lost' = lost) \/ get_new_fd
  BY DEF ReceivePipe, SendPipe, Refuse, Pending, vars, ends
<1>2. /\ fd_out' \in {fd_out, pipes', DevNull} /\ user_pipe' \in {0, user_pipe, pipes'}
      /\ fd_out' # fd_out /\ fd_out' # pipes' => pipes' \in lost' /\ job' = "fork"
  BY DEF ReceivePipe, SendPipe, Refuse
<1>3. /\ EndTypes' /\ pipes' >= pipes /\ pipes \in Nat /\ pipes' \in Nat
      /\ pipes' = pipes \/ pipes' \in 1..pipes'
      /\ lost' # lost => pipes' \in 1..pipes'
  <2>1. pipes \in Nat
    BY <1>0 DEF EndTypes
  <2>2. CASE UNCHANGED <<wr, rd, pipes>> /\ lost' = lost
    <3>1. EndTypes'
      BY <1>0, <1>1, <2>2 DEF EndTypes
    <3>2. QED
      BY <2>1, <2>2, <3>1
  <2>3. CASE get_new_fd
    <3>1. EndTypes' /\ pipes' = pipes + 1
      BY <1>0, <1>1, <2>3, NewPipe
    <3>2. QED
      BY <2>1, <3>1
  <2>4. QED
    BY <1>1, <2>2, <2>3
<1>4. \A h : (h \in Made => h \in Made') /\ (h \in Held => h \in Held')
  BY <1>3 DEF Held, Made
<1>5. ChildTypes'
  BY <1>0, <1>1, <1>4 DEF ChildTypes
<1>6. TableTypes'
  <2>1. 0 \in Made' /\ pipes' \in Made' /\ DevNull \in Held' /\ (\A h : h \in Made' => h \in Held')
    BY <1>3 DEF Held, Made
  <2>2. fd_in' \in Held' /\ fd_out' \in Held' /\ user_pipe' \in Made'
    BY <1>0, <1>1, <1>2, <1>4, <2>1 DEF TableTypes
  <2>3. box' \in [Slot -> Made']
    BY <1>0, <1>1, <1>4 DEF TableTypes
  <2>4. QED
    BY <2>2, <2>3 DEF TableTypes
<1>7. ControlTypes'
  BY <1>0, <1>1 DEF ControlTypes, Pending
<1>8. LostTypes'
  <2>1. lost' \subseteq 1..pipes'
    <3>1. 1..pipes \subseteq 1..pipes'
      BY <1>3
    <3>2. lost \subseteq 1..pipes
      BY <1>0 DEF LostTypes
    <3>3. CASE lost' = lost
      BY <3>1, <3>2, <3>3
    <3>4. CASE lost' # lost
      BY <1>1, <1>3, <3>1, <3>2, <3>4
    <3>5. QED
      BY <3>3, <3>4
  <2>2. fd_out' = DevNull => fd_out' # pipes' /\ fd_out' # fd_out
    BY <1>0, <1>1, <1>3 DEF LostTypes, DevNull
  <2>3. QED
    BY <1>2, <2>1, <2>2 DEF LostTypes, Pending
<1>9. QED
  BY <1>3, <1>5, <1>6, <1>7, <1>8 DEF ShellTypes

(* A new child: what it is, and what it inherits.                          *)
LEMMA Forked ==
  ASSUME ShellTypes, Fork, Len(procs) \in Nat
  PROVE  LET c == Len(procs) + 1
             W == close_all_wr(IF number = -1 THEN {} ELSE {box[Entry(instruction_count, number)]})
             R == close_all_rd \ {ReadEnd}
         IN  /\ procs' \in Seq(Child) /\ Len(procs') = c
             /\ \A d \in 1..Len(procs) : procs'[d] = procs[d]
             /\ procs'[c].fd_in = fd_in /\ procs'[c].state = "runs"
             /\ procs'[c].in = (IF fd_in \in R \union {DevNull} THEN fd_in ELSE 0)
             /\ procs'[c].out = (IF fd_out \in W THEN fd_out ELSE 0)
             /\ \A p \in Pipe : /\ wr'[p] = ParentCloses[p] \union (IF p \in W THEN {c} ELSE {})
                                /\ rd'[p] = rd[p] \union (IF p \in R THEN {c} ELSE {})
             /\ wr' \in [Pipe -> SUBSET (0..c)] /\ rd' \in [Pipe -> SUBSET (0..c)]
<1> DEFINE c == Len(procs) + 1
           W == close_all_wr(IF number = -1 THEN {} ELSE {box[Entry(instruction_count, number)]})
           R == close_all_rd \ {ReadEnd}
           rec == [at    |-> at,
                   fd_in |-> fd_in,
                   in    |-> IF fd_in \in R \union {DevNull} THEN fd_in ELSE 0,
                   out   |-> IF fd_out \in W THEN fd_out ELSE 0,
                   state |-> "runs"]
<1>0. ControlTypes /\ EndTypes /\ TableTypes /\ ChildTypes
  BY DEF ShellTypes
<1>1. /\ procs' = Append(procs, rec)
      /\ wr' = [p \in Pipe |-> ParentCloses[p] \union (IF p \in W THEN {c} ELSE {})]
      /\ rd' = [p \in Pipe |-> rd[p] \union (IF p \in R THEN {c} ELSE {})]
  BY DEF Fork
<1> HIDE DEF W, R
<1>2. Held \subseteq Pipe \union {0, DevNull}
  BY <1>0, LineShellAssumption DEF EndTypes, Held, Made, Pipe
<1>3. rec \in Child
  BY <1>0, <1>2 DEF ControlTypes, TableTypes, Child
<1>4. /\ rec.fd_in = fd_in /\ rec.state = "runs"
      /\ rec.in = (IF fd_in \in R \union {DevNull} THEN fd_in ELSE 0)
      /\ rec.out = (IF fd_out \in W THEN fd_out ELSE 0)
  OBVIOUS
<1> HIDE DEF rec
<1>5. /\ procs' \in Seq(Child) /\ Len(procs') = c /\ procs'[c] = rec
      /\ \A d \in 1..Len(procs) : procs'[d] = procs[d]
  <2>1. procs \in Seq(Child)
    BY <1>0 DEF ChildTypes
  <2>2. QED
    BY <1>1, <1>3, <2>1, Longer
<1>6. wr \in [Pipe -> SUBSET (0..Len(procs))] /\ rd \in [Pipe -> SUBSET (0..Len(procs))]
  BY <1>0 DEF EndTypes
<1>7. ParentCloses \in [Pipe -> SUBSET (0..Len(procs))]
  BY <1>6 DEF ParentCloses, Closed
<1>8. c \in 0..c /\ 0..Len(procs) \subseteq 0..c
  OBVIOUS
<1> HIDE DEF c
<1>9. /\ wr' \in [Pipe -> SUBSET (0..c)] /\ rd' \in [Pipe -> SUBSET (0..c)]
      /\ \A p \in Pipe : /\ wr'[p] = ParentCloses[p] \union (IF p \in W THEN {c} ELSE {})
                         /\ rd'[p] = rd[p] \union (IF p \in R THEN {c} ELSE {})
  BY <1>1, <1>6, <1>7, <1>8
<1>10. QED
  BY <1>4, <1>5, <1>9 DEF c, W, R

LEMMA TypesAtFork ==
  ASSUME CellInv, ShellTypes, Fork
  PROVE  ShellTypes'
<1> DEFINE c == Len(procs) + 1
           W == close_all_wr(IF number = -1 THEN {} ELSE {box[Entry(instruction_count, number)]})
           R == close_all_rd \ {ReadEnd}
<1>0. /\ ControlTypes /\ EndTypes /\ TableTypes /\ ChildTypes /\ LostTypes
      /\ Len(procs) \in Nat /\ DOMAIN procs = 1..Len(procs)
  BY Numbers DEF ShellTypes
<1>1. /\ UNCHANGED <<program, pc, at, instruction_count, number, in_operator, out_operator>>
      /\ UNCHANGED <<fd_in, fd_out, box, user_pipe, pipes, lost>>
      /\ job = "fork" /\ job' = IF fd_out = 0 THEN "wait" ELSE "none"
  BY DEF Fork, vars, command, tables
<1>2. /\ procs' \in Seq(Child) /\ Len(procs') = c
      /\ \A d \in 1..Len(procs) : procs'[d] = procs[d]
      /\ procs'[c].fd_in = fd_in /\ procs'[c].in \in {0, fd_in}
      /\ \A p \in Pipe : /\ wr'[p] = ParentCloses[p] \union (IF p \in W THEN {c} ELSE {})
                         /\ rd'[p] = rd[p] \union (IF p \in R THEN {c} ELSE {})
      /\ wr' \in [Pipe -> SUBSET (0..c)] /\ rd' \in [Pipe -> SUBSET (0..c)]
  BY <1>0, Forked
<1>3. ASSUME NEW p \in Pipe, p > pipes PROVE wr'[p] = {} /\ rd'[p] = {}
  <2>1. wr[p] = {} /\ rd[p] = {}
    BY <1>0, <1>3 DEF EndTypes
  <2>2. p \notin W /\ p \notin R
    BY <2>1 DEF close_all_wr, close_all_rd
  <2>3. ParentCloses[p] = {}
    BY <1>0, <2>1 DEF ParentCloses, Closed, EndTypes
  <2>4. QED
    BY <1>2, <2>1, <2>2, <2>3
<1> HIDE DEF W, R
<1>4. EndTypes'
  <2>1. pipes' \in Nat /\ pipes' <= MaxPipes
    BY <1>0, <1>1 DEF EndTypes
  <2>2. \A p \in Pipe : p > pipes' => wr'[p] = {} /\ rd'[p] = {}
    BY <1>1, <1>3
  <2>3. QED
    BY <1>2, <2>1, <2>2 DEF EndTypes
<1>5. ChildTypes'
  <2>1. DOMAIN procs' = 1..c /\ \A d \in 1..c : d \in 1..Len(procs) \/ d = c
    BY <1>0, <1>2, LenProperties
  <2>2. \A d \in 1..Len(procs) : procs[d].fd_in \in Held /\ procs[d].in \in {0, procs[d].fd_in}
    BY <1>0 DEF ChildTypes
  <2>3. fd_in \in Held /\ Held' = Held
    BY <1>0, <1>1 DEF TableTypes, Held, Made
  <2> HIDE DEF c
  <2>4. ASSUME NEW d \in 1..c
        PROVE  procs'[d].fd_in \in Held' /\ procs'[d].in \in {0, procs'[d].fd_in}
    BY <1>2, <2>1, <2>2, <2>3
  <2>5. QED
    BY <1>2, <2>1, <2>4 DEF ChildTypes
<1>6. TableTypes'
  BY <1>0, <1>1 DEF TableTypes, Held, Made
<1>7. ControlTypes'
  <2>1. procs' # <<>>
    BY <1>0, <1>2
  <2>2. QED
    BY <1>0, <1>1, <2>1 DEF ControlTypes
<1>8. LostTypes'
  BY <1>0, <1>1 DEF LostTypes, Pending
<1>9. QED
  BY <1>4, <1>5, <1>6, <1>7, <1>8 DEF ShellTypes

(* A sequence is a function on an interval.                                *)
LEMMA FunctionIsSeq ==
  ASSUME NEW S, NEW n \in Nat, NEW f \in [1..n -> S]
  PROVE  f \in Seq(S) /\ Len(f) = n
<1>1. f \in Seq(S)
  BY SeqDef
<1>2. QED
  BY <1>1, LenProperties

(* What the end of a child and the wait for it change.                     *)
Reaping ==
  /\ UNCHANGED <<program, pc, cmds, cmd_now, cmd_count>>
  /\ UNCHANGED <<at, instruction_count, fd_in, fd_out, number, in_operator, out_operator>>
  /\ UNCHANGED <<box, user_pipe, pipes, mishaps, lost>>
  /\ job' = job \/ (job = "wait" /\ job' = "none")
  /\ procs' \in [1..Len(procs) -> Child]
  /\ wr' \in [Pipe -> SUBSET (0..Len(procs))] /\ rd' \in [Pipe -> SUBSET (0..Len(procs))]
  /\ \A c \in 1..Len(procs) :
       /\ procs'[c].fd_in = procs[c].fd_in /\ procs'[c].in = procs[c].in
       /\ procs'[c].out = procs[c].out
       /\ procs'[c].state = "runs" => procs[c].state = "runs"
  /\ \A p \in Pipe :
       /\ wr'[p] \subseteq wr[p] /\ rd'[p] \subseteq rd[p]
       /\ Shell \in wr[p] => Shell \in wr'[p]
       /\ Shell \in rd[p] /\ Shell \notin rd'[p] => \E c \in 1..Len(procs) : procs[c].fd_in = p
       /\ Shell \in rd'[p] =>
            \A c \in 1..Len(procs) :
              procs[c].fd_in = p /\ procs[c].state # "gone" => procs'[c].state # "gone"

LEMMA Reaps ==
  ASSUME CellInv, ShellTypes,
         Wait \/ child_handler \/ \E c \in DOMAIN procs : ChildEnds(c)
  PROVE  Reaping
<1> DEFINE n == Len(procs)
<1>1. n \in Nat /\ DOMAIN procs = 1..n /\ procs \in Seq(Child)
  BY Numbers DEF ShellTypes, ChildTypes
<1>2. procs \in [1..n -> Child]
  BY <1>1, ElementOfSeq
<1>3. /\ wr \in [Pipe -> SUBSET (0..n)] /\ rd \in [Pipe -> SUBSET (0..n)]
      /\ job = "wait" => procs # <<>>
  BY DEF ShellTypes, EndTypes, ControlTypes
<1>4. CASE Wait
  <2>1. /\ UNCHANGED <<program, pc, cmds, cmd_now, cmd_count, wr>>
        /\ UNCHANGED <<at, instruction_count, fd_in, fd_out, number, in_operator, out_operator>>
        /\ UNCHANGED <<box, user_pipe, pipes, mishaps, lost>>
        /\ job = "wait" /\ job' = "none"
        /\ procs' = [procs EXCEPT ![n].state = "gone"]
        /\ rd' = Closed(rd, procs[n].fd_in, Shell)
    BY <1>4 DEF Wait, vars, cursor, command, tables
  <2>2. n \in 1..n
    BY <1>1, <1>3, <2>1, EmptySeq
  <2> HIDE DEF n
  <2>3. /\ procs' \in [1..n -> Child]
        /\ \A c \in 1..n :
             /\ procs'[c].fd_in = procs[c].fd_in /\ procs'[c].in = procs[c].in
             /\ procs'[c].out = procs[c].out
             /\ procs'[c].state = IF c = n THEN "gone" ELSE procs[c].state
    BY <1>2, <2>1, <2>2 DEF Child
  <2>4. rd' \in [Pipe -> SUBSET (0..n)]
    BY <1>3, <2>1 DEF Closed
  <2>5. \A p \in Pipe : rd'[p] = IF p = procs[n].fd_in THEN rd[p] \ {Shell} ELSE rd[p]
    BY <1>3, <2>1 DEF Closed
  <2>6. ASSUME NEW p \in Pipe
        PROVE  /\ wr'[p] \subseteq wr[p] /\ rd'[p] \subseteq rd[p]
               /\ Shell \in wr[p] => Shell \in wr'[p]
               /\ Shell \in rd[p] /\ Shell \notin rd'[p] => \E c \in 1..n : procs[c].fd_in = p
               /\ Shell \in rd'[p] =>
                    \A c \in 1..n :
                      procs[c].fd_in = p /\ procs[c].state # "gone" => procs'[c].state # "gone"
    <3>1. wr'[p] = wr[p]
      BY <2>1
    <3>2. CASE p = procs[n].fd_in
      <4>1. rd'[p] = rd[p] \ {Shell}
        BY <2>5, <3>2
      <4>2. QED
        BY <2>2, <3>1, <3>2, <4>1
    <3>3. CASE p # procs[n].fd_in
      <4>1. rd'[p] = rd[p] /\ \A c \in 1..n : procs[c].fd_in = p => c # n
        BY <2>5, <3>3
      <4>2. \A c \in 1..n : c # n => procs'[c].state = procs[c].state
        BY <2>3
      <4>3. QED
        BY <3>1, <4>1, <4>2
    <3>4. QED
      BY <3>2, <3>3
  <2>7. QED
    BY <1>3, <2>1, <2>3, <2>4, <2>6 DEF Reaping, n
<1>5. CASE child_handler
  <2> DEFINE Z == {c \in DOMAIN procs : procs[c].state = "zombie"}
  <2>1. /\ UNCHANGED <<program, pc, cmds, cmd_now, cmd_count, wr, job>>
        /\ UNCHANGED <<at, instruction_count, fd_in, fd_out, number, in_operator, out_operator>>
        /\ UNCHANGED <<box, user_pipe, pipes, mishaps, lost>>
        /\ procs' = [c \in DOMAIN procs |->
                      IF c \in Z THEN [procs[c] EXCEPT !.state = "gone"] ELSE procs[c]]
        /\ rd' = [p \in Pipe |-> IF p \in InputsOf(Z) THEN rd[p] \ {Shell} ELSE rd[p]]
    BY <1>5 DEF child_handler, vars, cursor, command, tables
  <2>2. Z \subseteq 1..n
    BY <1>1
  <2> HIDE DEF n, Z
  <2>3. /\ procs' \in [1..n -> Child]
        /\ \A c \in 1..n :
             /\ procs'[c].fd_in = procs[c].fd_in /\ procs'[c].in = procs[c].in
             /\ procs'[c].out = procs[c].out
             /\ procs'[c].state = IF c \in Z THEN "gone" ELSE procs[c].state
    BY <1>1, <1>2, <2>1, <2>2 DEF Child, n
  <2>4. rd' \in [Pipe -> SUBSET (0..n)]
    BY <1>3, <2>1
  <2>5. \A p \in Pipe : rd'[p] = IF p \in InputsOf(Z) THEN rd[p] \ {Shell} ELSE rd[p]
    BY <2>1
  <2>6. \A p : p \in InputsOf(Z) <=> \E c \in Z : procs[c].fd_in = p
    BY DEF InputsOf
  <2>7. \A p \in Pipe :
          /\ wr'[p] \subseteq wr[p] /\ rd'[p] \subseteq rd[p]
          /\ Shell \in wr[p] => Shell \in wr'[p]
          /\ Shell \in rd[p] /\ Shell \notin rd'[p] => \E c \in 1..n : procs[c].fd_in = p
          /\ Shell \in rd'[p] =>
               \A c \in 1..n :
                 procs[c].fd_in = p /\ procs[c].state # "gone" => procs'[c].state # "gone"
    BY <2>1, <2>2, <2>3, <2>5, <2>6
  <2>8. QED
    BY <1>3, <2>1, <2>3, <2>4, <2>7 DEF Reaping, n
<1>6. ASSUME NEW c \in DOMAIN procs, ChildEnds(c) PROVE Reaping
  <2>1. /\ UNCHANGED <<program, pc, cmds, cmd_now, cmd_count, job>>
        /\ UNCHANGED <<at, instruction_count, fd_in, fd_out, number, in_operator, out_operator>>
        /\ UNCHANGED <<box, user_pipe, pipes, mishaps, lost>>
        /\ procs' = [procs EXCEPT ![c].state = "zombie"]
        /\ wr' = [p \in Pipe |-> wr[p] \ {c}]
        /\ rd' = [p \in Pipe |-> rd[p] \ {c}]
    BY <1>6 DEF ChildEnds, vars, cursor, command, tables
  <2>2. c \in 1..n /\ c # Shell
    BY <1>1 DEF Shell
  <2> HIDE DEF n
  <2>3. /\ procs' \in [1..n -> Child]
        /\ \A d \in 1..n :
             /\ procs'[d].fd_in = procs[d].fd_in /\ procs'[d].in = procs[d].in
             /\ procs'[d].out = procs[d].out
             /\ procs'[d].state = IF c = d THEN "zombie" ELSE procs[d].state
    BY <1>2, <2>1, <2>2 DEF Child
  <2>4. wr' \in [Pipe -> SUBSET (0..n)] /\ rd' \in [Pipe -> SUBSET (0..n)]
    BY <1>3, <2>1
  <2>5. \A p \in Pipe :
          /\ wr'[p] \subseteq wr[p] /\ rd'[p] \subseteq rd[p]
          /\ Shell \in wr[p] => Shell \in wr'[p]
          /\ Shell \in rd[p] => Shell \in rd'[p]
    BY <2>1, <2>2
  <2>6. QED
    BY <1>3, <2>1, <2>3, <2>4, <2>5 DEF Reaping, n
<1>7. QED
  BY <1>4, <1>5, <1>6

LEMMA TypesAtReaping ==
  ASSUME CellInv, ShellTypes, Reaping
  PROVE  ShellTypes'
<1> DEFINE n == Len(procs)
<1>0. /\ ControlTypes /\ EndTypes /\ TableTypes /\ ChildTypes /\ LostTypes
      /\ n \in Nat /\ DOMAIN procs = 1..n
  BY Numbers DEF ShellTypes
<1>1. /\ procs' \in [1..n -> Child]
      /\ \A c \in 1..n : procs'[c].fd_in = procs[c].fd_in /\ procs'[c].in = procs[c].in
      /\ \A p \in Pipe : wr'[p] \subseteq wr[p] /\ rd'[p] \subseteq rd[p]
      /\ wr' \in [Pipe -> SUBSET (0..n)] /\ rd' \in [Pipe -> SUBSET (0..n)]
      /\ UNCHANGED <<fd_in, fd_out, box, user_pipe, pipes>>
  BY DEF Reaping
<1>2. procs' \in Seq(Child) /\ Len(procs') = n /\ DOMAIN procs' = 1..n
  BY <1>0, <1>1, FunctionIsSeq
<1>3. EndTypes'
  <2>1. \A p \in Pipe : p > pipes => wr'[p] = {} /\ rd'[p] = {}
    BY <1>0, <1>1 DEF EndTypes
  <2>2. QED
    BY <1>0, <1>1, <1>2, <2>1 DEF EndTypes
<1>4. ChildTypes'
  BY <1>0, <1>1, <1>2 DEF ChildTypes, Held, Made
<1>5. TableTypes'
  BY <1>0, <1>1 DEF TableTypes, Held, Made
<1>6. ControlTypes'
  <2>1. procs # <<>> => procs' # <<>>
    BY <1>0, <1>2, EmptySeq DEF ChildTypes
  <2>2. QED
    BY <1>0, <2>1 DEF ControlTypes, Reaping
<1>7. LostTypes'
  BY <1>0 DEF LostTypes, Pending, Reaping
<1>8. QED
  BY <1>3, <1>4, <1>5, <1>6, <1>7 DEF ShellTypes

LEMMA TypesAtStep ==
  ASSUME CellInv, CellRules, ShellTypes, [SystemNext]_allVars
  PROVE  ShellTypes'
<1>1. \/ ShellReads \/ ShellPrompts \/ NoInstruction \/ SkipRest \/ UNCHANGED allVars
      \/ GetEvent \/ GetOperator \/ ReceivePipe \/ SendPipe \/ Fork
      \/ Wait \/ child_handler \/ \E c \in DOMAIN procs : ChildEnds(c)
  BY DEF SystemNext, ShellNext
<1>2. QED
  BY <1>1, TypesAtCells, TypesAtGetEvent, TypesAtGetOperator, TypesAtUserPipes, TypesAtFork,
     Reaps, TypesAtReaping

LEMMA Boxes ==
  ASSUME ShellTypes
  PROVE  /\ pipes \in Nat /\ Boxed \subseteq 1..pipes /\ 1..pipes \subseteq Pipe
         /\ 0 \notin Boxed /\ DevNull \notin Boxed
         /\ 0 \notin Pipe /\ DevNull \notin Pipe /\ DevNull # 0
         /\ \A s \in Slot : box[s] # 0 => box[s] \in Boxed
         /\ \A p \in Held : p \in Pipe => p \in 1..pipes
         /\ \A p \in Held : p = 0 \/ p = DevNull \/ p \in Pipe
         /\ lost \subseteq Pipe /\ lost \subseteq 1..pipes /\ 0 \notin lost /\ DevNull \notin lost
<1>1. pipes \in Nat /\ pipes <= MaxPipes /\ MaxPipes \in Nat /\ box \in [Slot -> Made]
  BY LineShellAssumption DEF ShellTypes, EndTypes, TableTypes
<1>2. Boxed \subseteq 1..pipes
  BY <1>1 DEF Boxed, Made
<1>3. \A s \in Slot : box[s] # 0 => box[s] \in Boxed
  BY DEF Boxed
<1>4. lost \subseteq 1..pipes
  BY DEF ShellTypes, LostTypes
<1>5. QED
  BY <1>1, <1>2, <1>3, <1>4 DEF Pipe, DevNull, Held, Made

-----------------------------------------------------------------------------
(* The write ends through the steps.                                       *)

LEMMA SightAtCells ==
  ASSUME CellInv, ShellTypes, Sight,
         ShellReads \/ ShellPrompts \/ NoInstruction \/ SkipRest \/ UNCHANGED allVars
  PROVE  Sight'
<1>0. /\ 0 \notin Boxed /\ 0 \notin lost /\ DevNull # 0 /\ (pc \in {"operator", "skip"} => fd_out = 0)
      /\ job # "none" => pc = "event"
  BY Boxes DEF ShellTypes, ControlTypes
<1>1. UNCHANGED <<job, box, user_pipe, procs, wr, number, instruction_count, lost, Boxed>>
  <2>1. UNCHANGED <<job, box, user_pipe, procs, wr, number, instruction_count, lost>>
    BY DEF ShellReads, ShellPrompts, NoInstruction, SkipRest, allVars, shellVars, command, tables,
           ends
  <2>2. QED
    BY <2>1 DEF Boxed
<1>2. CASE UNCHANGED allVars
  BY <1>1, <1>2 DEF Sight, allVars, shellVars, command, tables, ends, vars, cursor, Starting,
                    Pending, Ends, isempty, Fetched
<1>3. CASE ~UNCHANGED allVars
  <2>1. /\ job = "none" /\ pc' # "operator" /\ (pc' = "prompt" \/ fd_out' = 0)
        /\ fd_out' \in {0, fd_out}
    <3>1. CASE ShellReads
      BY <1>0, <3>1 DEF ShellReads, ReadLine, Typed
    <3>2. CASE ShellPrompts
      BY <3>2 DEF ShellPrompts, LineDone, shellVars, command
    <3>3. CASE NoInstruction
      BY <3>3 DEF NoInstruction, FetchEvent, builtin
    <3>4. CASE SkipRest
      BY <1>0, <3>4 DEF SkipRest, Skip, shellVars, command
    <3>5. QED
      BY <1>3, <3>1, <3>2, <3>3, <3>4
  <2>2. QED
    BY <1>0, <1>1, <2>1 DEF Sight, Starting, Pending
<1>4. QED
  BY <1>2, <1>3

LEMMA SightAtReaping ==
  ASSUME ShellTypes, CellInv, Sight, Reaping
  PROVE  Sight'
<1> DEFINE n == Len(procs)
<1>1. n \in Nat /\ DOMAIN procs = 1..n
  BY Numbers
<1>2. DOMAIN procs' = 1..n
  BY DEF Reaping
<1>3. /\ Boxed' = Boxed /\ Starting' = Starting /\ Ends' = Ends /\ Pending' = Pending
      /\ lost \subseteq Pipe
  BY Boxes DEF Reaping, Boxed, Starting, Pending, Ends, isempty, Fetched
<1>4. /\ \A p \in Pipe : wr'[p] \subseteq wr[p] /\ (Shell \in wr[p] => Shell \in wr'[p])
      /\ \A c \in 1..n : procs'[c].in = procs[c].in /\ procs'[c].out = procs[c].out
      /\ UNCHANGED <<fd_in, fd_out, number, instruction_count, box, user_pipe, pc, lost>>
      /\ out_operator' = out_operator
  BY DEF Reaping
<1> HIDE DEF n
<1>5. (\A c \in DOMAIN procs : \A p \in Pipe \ lost : c \in wr[p] => procs[c].out = p)'
  BY <1>1, <1>2, <1>4 DEF Sight
<1>6. (\A c \in DOMAIN procs : procs[c].in \in Pipe => Shell \notin wr[procs[c].in])'
  <2>1. \A c \in 1..n : procs[c].in \in Pipe => Shell \notin wr[procs[c].in]
    BY <1>1 DEF Sight
  <2>2. \A c \in 1..n : procs'[c].in \in Pipe => Shell \notin wr'[procs'[c].in]
    BY <1>4, <2>1
  <2>3. QED
    BY <1>2, <2>2
<1>7. QED
  BY <1>3, <1>4, <1>5, <1>6 DEF Sight

LEMMA SightAtGetEvent ==
  ASSUME CellInv, ShellTypes, Sight, GetEvent
  PROVE  Sight'
<1> DEFINE e == Entry(instrusion_count, 0)
           sent == box[e]
<1>1. /\ 0 \notin Boxed /\ Boxed \subseteq Pipe /\ e \in Slot /\ sent \in Pipe \union {0}
      /\ box \in [Slot -> Made] /\ wr \in [Pipe -> SUBSET (0..Len(procs))]
      /\ lost \subseteq Pipe /\ 0 \notin lost /\ DevNull # 0 /\ (sent # 0 => sent \in Boxed)
  <2>1. e \in Slot
    BY Numbers, EntryType
  <2>2. /\ 0 \notin Boxed /\ Boxed \subseteq Pipe /\ (sent # 0 => sent \in Boxed)
        /\ lost \subseteq Pipe /\ 0 \notin lost /\ DevNull # 0
    BY <2>1, Boxes
  <2>3. box \in [Slot -> Made] /\ wr \in [Pipe -> SUBSET (0..Len(procs))]
    BY DEF ShellTypes, TableTypes, EndTypes
  <2>4. QED
    BY <2>1, <2>2, <2>3
<1> HIDE DEF e
<1>2. /\ job = "none" /\ job' = "none" /\ UNCHANGED <<user_pipe, procs, lost>> /\ fd_out' = 0
      /\ pc = "event" /\ Fetched # <<>> /\ ~isempty
      /\ IF fd_out # 0 THEN fd_in' = fd_out /\ box' = box /\ wr' = wr
         ELSE fd_in' = sent /\ box' = [box EXCEPT ![e] = 0] /\ wr' = Closed(wr, sent, Shell)
  <2>1. /\ job = "none" /\ job' = "none" /\ UNCHANGED <<user_pipe, procs, lost>> /\ fd_out' = 0
        /\ pc = "event" /\ Fetched # <<>> /\ ~isempty
        /\ IF fd_out # 0 THEN fd_in' = ReadEnd /\ box' = box /\ wr' = wr
           ELSE fd_in' = sent /\ box' = [box EXCEPT ![e] = 0] /\ wr' = Closed(wr, sent, Shell)
    BY DEF GetEvent, FetchEvent, e, clean, GiveUp
  <2>2. ReadEnd = fd_out
    BY <2>1 DEF Sight, Ends, ReadEnd
  <2>3. QED
    BY <2>1, <2>2
<1>3. \A p \in Pipe \ lost : Shell \in wr[p] => p \in Boxed
  BY <1>2 DEF Sight, Starting
<1>4. /\ \A p \in Pipe : wr'[p] \subseteq wr[p]
      /\ Boxed' \subseteq Boxed
      /\ \A p \in Pipe \ lost : Shell \in wr'[p] => p \in Boxed'
      /\ \A p \in lost : Shell \in wr'[p]
      /\ fd_in' \in Pipe => Shell \notin wr'[fd_in']
  <2>1. CASE fd_out # 0
    <3>1. Boxed' = Boxed
      BY <1>2, <2>1 DEF Boxed
    <3>2. fd_out \notin Boxed /\ fd_out \notin lost /\ \A p \in lost : Shell \in wr[p]
      BY <1>2 DEF Sight, Ends
    <3>3. QED
      BY <1>2, <1>3, <2>1, <3>1, <3>2
  <2>2. CASE fd_out = 0
    <3>1. box' = [box EXCEPT ![e] = 0]
      BY <1>2, <2>2
    <3>2. \A s \in Slot : box'[s] = IF s = e THEN 0 ELSE box[s]
      BY <1>1, <3>1
    <3>3. Boxed' \subseteq Boxed /\ \A p \in Boxed : p # sent => p \in Boxed'
      BY <1>1, <3>2 DEF Boxed
    <3>4. \A p \in Pipe : wr'[p] = IF p = sent THEN wr[p] \ {Shell} ELSE wr[p]
      BY <1>1, <1>2, <2>2 DEF Closed
    <3>5. fd_in' = sent
      BY <1>2, <2>2
    <3>6. \A p \in lost : p # sent /\ p \in Pipe /\ Shell \in wr[p]
      BY <1>1 DEF Sight
    <3> HIDE DEF sent
    <3>7. QED
      BY <1>3, <3>3, <3>4, <3>5, <3>6
  <2>3. QED
    BY <2>1, <2>2
<1>5. ~Starting /\ ~Starting' /\ ~Pending'
  BY <1>2 DEF Starting, Pending
<1>6. /\ 0 \notin Boxed' /\ 0 # DevNull /\ 0 \notin lost
      /\ (\A p \in lost : Shell \in wr[p] /\ p \notin Boxed /\ p # fd_out /\ p # user_pipe)'
  BY <1>1, <1>2, <1>4 DEF Sight
<1>7. (\A c \in DOMAIN procs : procs[c].in \in Pipe => Shell \notin wr[procs[c].in])'
  BY <1>2, <1>4 DEF Sight
<1>8. (\A c \in DOMAIN procs : \A p \in Pipe \ lost : c \in wr[p] => procs[c].out = p)'
  BY <1>2, <1>4 DEF Sight
<1>9. (user_pipe \notin Boxed)'
  BY <1>2, <1>4 DEF Sight
<1>10. QED
  BY <1>2, <1>4, <1>5, <1>6, <1>7, <1>8, <1>9 DEF Sight

(* A new pipe is nobody's yet.                                             *)
LEMMA NewEnds ==
  ASSUME CellInv, ShellTypes, Sight, get_new_fd, procs' = procs, lost \subseteq lost'
  PROVE  /\ pipes' \in Pipe /\ pipes' # 0 /\ pipes' \notin Boxed /\ pipes' # user_pipe
         /\ pipes' # fd_in /\ pipes' # fd_out /\ pipes' # DevNull /\ pipes' \notin lost
         /\ \A c \in DOMAIN procs : pipes' # procs[c].in /\ pipes' # procs[c].fd_in
         /\ \A p \in Pipe : /\ wr'[p] = IF p = pipes' THEN {Shell} ELSE wr[p]
                            /\ rd'[p] = IF p = pipes' THEN {Shell} ELSE rd[p]
         /\ (\A c \in DOMAIN procs : \A p \in Pipe \ lost : c \in wr[p] => procs[c].out = p)'
         /\ (\A c \in DOMAIN procs : procs[c].in \in Pipe => Shell \notin wr[procs[c].in])'
<1>1. EndTypes /\ TableTypes /\ ChildTypes /\ Len(procs) \in Nat /\ DOMAIN procs = 1..Len(procs)
  BY Numbers DEF ShellTypes
<1>2. /\ pipes' \in Pipe /\ pipes' \notin Made /\ pipes' # 0 /\ pipes' # DevNull
      /\ wr'[pipes'] = {Shell} /\ rd'[pipes'] = {Shell}
      /\ \A p \in Pipe \ {pipes'} : wr'[p] = wr[p] /\ rd'[p] = rd[p]
  BY <1>1, NewPipe
<1>3. Boxed \subseteq Made /\ lost \subseteq Made /\ user_pipe \in Made /\ fd_in \in Held /\ fd_out \in Held
  BY <1>1, Boxes DEF Made, TableTypes
<1>4. \A c \in DOMAIN procs : procs[c].fd_in \in Held /\ procs[c].in \in {0, procs[c].fd_in}
  BY <1>1 DEF ChildTypes
<1>5. pipes' \notin Held
  BY <1>2 DEF Held
<1>6. \A c \in DOMAIN procs : pipes' # procs[c].in /\ pipes' # procs[c].fd_in
  BY <1>2, <1>4, <1>5
<1>7. Shell \notin DOMAIN procs
  BY <1>1 DEF Shell
<1>8. (\A c \in DOMAIN procs : \A p \in Pipe \ lost : c \in wr[p] => procs[c].out = p)'
  BY <1>2, <1>7 DEF Sight
<1>9. (\A c \in DOMAIN procs : procs[c].in \in Pipe => Shell \notin wr[procs[c].in])'
  BY <1>2, <1>6 DEF Sight
<1>10. QED
  BY <1>2, <1>3, <1>5, <1>6, <1>8, <1>9

LEMMA SightAtGetOperator ==
  ASSUME CellInv, CellRules, ShellTypes, Sight, GetOperator, Straight'
  PROVE  Sight'
<1> DEFINE t == Head(Fetched)
           Q == pipes'
<1>1. /\ pc = "operator" /\ job = "none" /\ fd_out = 0 /\ number = -1 /\ 0 \notin Boxed
      /\ 0 \notin lost /\ lost \subseteq Pipe /\ 0 # DevNull
      /\ \A s \in Slot : box[s] # 0 => box[s] \in Boxed
  BY Boxes DEF ShellTypes, ControlTypes, GetOperator, FetchOperator
<1>2. /\ UNCHANGED <<at, instruction_count, fd_in, user_pipe, procs, cmds, cmd_count, lost>>
      /\ Starting' <=> LastOperator(Fetched) /\ ~builtin(cmds[at])
      /\ Pending' => Starting' /\ (job' = "receive" => in_operator')
      /\ pc' = "event" <=> LastOperator(Fetched)
  BY DEF GetOperator, Starting, Pending, FetchOperator, get_next_cmd
<1>3. builtin(cmds[at]) => fd_out' = 0 \/ number' # -1
  <2>1. builtin(cmds[at]) /\ fd_out' # 0 /\ number' = -1 => "fed" \in mishaps'
    BY DEF GetOperator
  <2>2. QED
    BY <2>1 DEF Straight
<1>4. ~Starting
  BY <1>1 DEF Starting
<1>5. /\ \A p \in Pipe \ lost : Shell \in wr[p] => p \in Boxed
      /\ \A p \in lost : Shell \in wr[p] /\ p \notin Boxed /\ p # user_pipe
  BY <1>4 DEF Sight
<1>6. fd_in \in Pipe => Shell \notin wr[fd_in]
  BY <1>1 DEF Sight
<1>7. CASE Fetched # <<>> /\ Numbered(t) /\ t.is \in Sign /\ NumberedPipe(t)
  <2> DEFINE s == Entry(instruction_count, t.n)
  <2>1. /\ t.n \in Nat /\ cmd_now + 1 \in 1..cmd_count /\ Fetched = cmds[cmd_now + 1]
        /\ cmd_now' = cmd_now + 1 /\ cmd_now \in Nat /\ cmd_now > 0 /\ cmds[cmd_now] # <<>>
    BY <1>7, Operations
  <2>2. s \in Slot
    <3>1. instruction_count \in Nat
      BY DEF ShellTypes, ControlTypes
    <3>2. QED
      BY <2>1, <3>1, EntryType
  <2>3. number' = t.n /\ number' # -1 /\ t.n > 0
    BY <1>7, <2>1 DEF NumberedPipe, Numbered
  <2>4. Ends'
    <3>1. Piping(cmds, cmd_now + 1)
      <4>1. (cmd_now + 1) - 1 = cmd_now /\ cmd_now + 1 >= 2
        BY <2>1
      <4>2. QED
        BY <1>7, <2>1, <4>1 DEF Piping
    <3>2. PipeRule(cmds, cmd_now + 1)
      BY <2>1 DEF CellRules
    <3>3. cmds[(cmd_now + 1) + 1] = <<>>
      BY <2>1, <2>3, <3>1, <3>2 DEF PipeRule
    <3>4. QED
      BY <1>2, <2>1, <3>3 DEF Ends, Fetched
  <2>5. fd_out' # 0 /\ fd_out' = box'[s] /\ fd_out' # user_pipe /\ user_pipe \notin Boxed'
        /\ (\A p \in Pipe \ lost : Shell \in wr'[p] => p \in Boxed')
        /\ (\A p \in lost : Shell \in wr'[p] /\ p \notin Boxed' /\ p # fd_out')
        /\ (fd_in \in Pipe => Shell \notin wr'[fd_in])
        /\ (\A c \in DOMAIN procs : \A p \in Pipe \ lost : c \in wr[p] => procs[c].out = p)'
        /\ (\A c \in DOMAIN procs : procs[c].in \in Pipe => Shell \notin wr[procs[c].in])'
    <3>1. CASE box[s] # 0
      <4>1. fd_out' = box[s] /\ UNCHANGED <<box, wr>>
        BY <1>7, <3>1 DEF NumberedPipe, ends
      <4>2. Boxed' = Boxed
        BY <4>1 DEF Boxed
      <4>3. user_pipe \notin Boxed /\ box[s] \in Boxed
        BY <1>1, <2>2, <3>1 DEF Sight
      <4>4. QED
        BY <1>2, <1>5, <1>6, <3>1, <4>1, <4>2, <4>3 DEF Sight
    <3>2. CASE box[s] = 0
      <4>1. get_new_fd /\ fd_out' = Q /\ box' = [box EXCEPT ![s] = Q]
        BY <1>7, <3>2 DEF NumberedPipe
      <4>2. /\ Q \in Pipe /\ Q # 0 /\ Q \notin Boxed /\ Q # user_pipe /\ Q # fd_in
            /\ Q # DevNull /\ Q \notin lost
            /\ \A p \in Pipe : wr'[p] = IF p = Q THEN {Shell} ELSE wr[p]
            /\ (\A c \in DOMAIN procs : \A p \in Pipe \ lost : c \in wr[p] => procs[c].out = p)'
            /\ (\A c \in DOMAIN procs : procs[c].in \in Pipe => Shell \notin wr[procs[c].in])'
        BY <1>2, <4>1, NewEnds
      <4>3. Boxed' = Boxed \union {Q} /\ box'[s] = Q
        <5>1. box \in [Slot -> Made]
          BY DEF ShellTypes, TableTypes
        <5> HIDE DEF s, Q
        <5>2. \A r \in Slot : box'[r] = IF r = s THEN Q ELSE box[r]
          BY <4>1, <5>1
        <5>3. Boxed' = Boxed \union {Q}
          BY <2>2, <3>2, <4>2, <5>2 DEF Boxed
        <5>4. QED
          BY <2>2, <5>2, <5>3
      <4>4. user_pipe \notin Boxed
        BY DEF Sight
      <4> HIDE DEF Q, s, t
      <4>5. \A p \in lost : Shell \in wr'[p] /\ p \notin Boxed' /\ p # fd_out'
        BY <1>1, <1>5, <4>1, <4>2, <4>3
      <4>6. \A p \in Pipe \ lost : Shell \in wr'[p] => p \in Boxed'
        BY <1>5, <4>2, <4>3
      <4>7. QED
        BY <1>6, <4>1, <4>2, <4>3, <4>4, <4>5, <4>6
    <3>3. QED
      BY <3>1, <3>2
  <2> HIDE DEF t, Q
  <2>6. QED
    BY <1>1, <1>2, <1>5, <2>3, <2>4, <2>5 DEF Sight
<1>8. CASE Fetched # <<>> /\ ~Numbered(t) /\ t.is \in Sign /\ PlainPipe
  <2>1. get_new_fd /\ fd_out' = Q /\ number' = -1 /\ box' = box
    BY <1>1, <1>8 DEF PlainPipe
  <2>2. Boxed' = Boxed
    BY <2>1 DEF Boxed
  <2>3. /\ Q \in Pipe /\ Q # 0 /\ Q \notin Boxed /\ Q # user_pipe /\ Q # fd_in
        /\ Q # DevNull /\ Q \notin lost
        /\ \A p \in Pipe : wr'[p] = IF p = Q THEN {Shell} ELSE wr[p]
        /\ (\A c \in DOMAIN procs : \A p \in Pipe \ lost : c \in wr[p] => procs[c].out = p)'
        /\ (\A c \in DOMAIN procs : procs[c].in \in Pipe => Shell \notin wr[procs[c].in])'
    BY <1>2, <2>1, NewEnds
  <2>4. Starting'
    BY <1>2, <1>3, <1>8, <2>1, <2>3 DEF LastOperator, Sign
  <2>5. user_pipe \notin Boxed
    BY DEF Sight
  <2> HIDE DEF t, Q
  <2>6. /\ (\A p \in lost : Shell \in wr[p] /\ p \notin Boxed /\ p # fd_out /\ p # user_pipe)'
        /\ (\A p \in Pipe \ lost : Shell \in wr[p] => p \in Boxed \/ p = fd_out)'
        /\ (fd_in \in Pipe => Shell \notin wr[fd_in])'
    BY <1>1, <1>2, <1>5, <1>6, <2>1, <2>2, <2>3
  <2>7. QED
    BY <1>2, <2>1, <2>2, <2>3, <2>4, <2>5, <2>6 DEF Sight
<1>9. CASE \/ Fetched # <<>> /\ t.is \in {">", "<"} /\ program # "simple" /\ UserPipe(t)
           \/ NoPipe /\ (Fetched = <<>> \/ t.is \notin Sign)
  <2>1. UNCHANGED <<fd_out, number, box, wr>>
    BY <1>9 DEF UserPipe, NoPipe, ends
  <2>2. Boxed' = Boxed
    BY <2>1 DEF Boxed
  <2>3. Pending' /\ out_operator' => Ends'
    <3>1. SUFFICES ASSUME Pending', out_operator' PROVE Ends'
      OBVIOUS
    <3>2. program # "simple" /\ program' = program
      <4>1. (program = "simple" => ~out_operator)'
        BY TypesAtGetOperator DEF ShellTypes, ControlTypes
      <4>2. program' = program
        BY Operations
      <4>3. QED
        BY <3>1, <4>1, <4>2
    <3>3. Fetched = <<>>
      BY <1>2, <1>9, <3>1, <3>2 DEF LastOperator, Sign
    <3>4. /\ cmd_now + 1 \in 1..cmd_count /\ Fetched = cmds[cmd_now + 1]
          /\ cmd_now' = cmd_now + 1 /\ cmd_now \in Nat /\ cmd_now > 0 /\ cmds[cmd_now] # <<>>
          /\ (cmd_now + 1) - 1 = cmd_now /\ cmd_now + 1 >= 2 /\ cmd_count \in Nat
      BY Operations, Numbers
    <3>5. EndRule(cmds, cmd_now + 1) /\ ~Sending(cmds, cmd_now)
      <4>1. cmd_now + 1 \in (cmd_now + 1)..cmd_count
        BY <3>4
      <4>2. QED
        BY <1>1, <3>2, <4>1 DEF CellRules
    <3>6. cmd_now + 1 = Len(cmds)
      BY <3>3, <3>4, <3>5 DEF EndRule
    <3>7. QED
      BY <1>2, <3>4, <3>6 DEF Ends, isempty, CellInv
  <2> HIDE DEF t
  <2>4. QED
    BY <1>1, <1>2, <1>5, <1>6, <2>1, <2>2, <2>3 DEF Sight
<1>10. QED
  BY <1>7, <1>8, <1>9, Operations DEF Operation

LEMMA SightAtReceivePipe ==
  ASSUME CellInv, ShellTypes, Sight, ReceivePipe
  PROVE  Sight'
<1>1. /\ UNCHANGED <<pc, cmds, cmd_now, cmd_count, instruction_count, number, out_operator>>
      /\ UNCHANGED <<fd_out, box, procs>>
      /\ job' \in {"send", "fork"} /\ Boxed' = Boxed /\ Ends' = Ends
      /\ Pending /\ Starting /\ Starting'
  BY DEF ReceivePipe, vars, cursor, Boxed, Ends, isempty, Fetched, Pending, Starting
<1>2. /\ 0 \notin Boxed /\ DevNull \notin Boxed /\ DevNull \notin Pipe /\ 0 \notin Pipe
      /\ DevNull # 0 /\ lost \subseteq Pipe /\ 0 \notin lost
      /\ user_pipe \in Pipe \union {0}
  BY Boxes DEF ShellTypes, TableTypes, Made
<1>3. CASE user_pipe # 0
  <2>1. fd_in' = user_pipe /\ user_pipe' = 0 /\ wr' = wr /\ lost' = lost
    BY <1>3 DEF ReceivePipe, ends
  <2>2. Shell \notin wr[user_pipe]
    BY <1>1, <1>2, <1>3 DEF Sight
  <2>3. QED
    BY <1>1, <1>2, <2>1, <2>2 DEF Sight
<1>4. CASE user_pipe = 0
  <2> DEFINE Q == pipes'
  <2>1. get_new_fd /\ fd_in' = DevNull /\ lost' = lost \union {Q} /\ user_pipe' = user_pipe
    BY <1>4 DEF ReceivePipe, Refuse
  <2>2. /\ Q \in Pipe /\ Q # 0 /\ Q \notin Boxed /\ Q # user_pipe /\ Q # fd_out
        /\ \A p \in Pipe : wr'[p] = IF p = Q THEN {Shell} ELSE wr[p]
        /\ (\A c \in DOMAIN procs : \A p \in Pipe \ lost : c \in wr[p] => procs[c].out = p)'
        /\ (\A c \in DOMAIN procs : procs[c].in \in Pipe => Shell \notin wr[procs[c].in])'
    BY <1>1, <2>1, NewEnds
  <2> HIDE DEF Q
  <2>3. \A p \in Pipe \ lost' : Shell \in wr'[p] => p \in Boxed \/ p = fd_out
    BY <1>1, <2>1, <2>2 DEF Sight
  <2>4. \A p \in lost' : Shell \in wr'[p] /\ p \notin Boxed /\ p # fd_out /\ p # user_pipe
    BY <1>2, <2>1, <2>2 DEF Sight
  <2>5. QED
    BY <1>1, <1>2, <2>1, <2>2, <2>3, <2>4 DEF Sight
<1>5. QED
  BY <1>3, <1>4

LEMMA SightAtSendPipe ==
  ASSUME CellInv, ShellTypes, Sight, SendPipe, Straight'
  PROVE  Sight'
<1> DEFINE Q == pipes'
<1>1. /\ UNCHANGED <<pc, cmds, cmd_now, cmd_count, instruction_count, number, out_operator>>
      /\ UNCHANGED <<fd_in, box, procs>>
      /\ job' = "fork" /\ Boxed' = Boxed /\ Ends' = Ends /\ out_operator
      /\ Pending /\ ~Pending' /\ Starting /\ Starting' /\ get_new_fd
      /\ \/ fd_out' = Q /\ user_pipe' = Q /\ lost' = lost
         \/ fd_out' = DevNull /\ user_pipe' = user_pipe /\ lost' = lost \union {Q}
  BY DEF SendPipe, vars, cursor, Boxed, Ends, isempty, Fetched, Pending, Starting, Refuse,
         ShellTypes, ControlTypes
<1>2. fd_out = 0
  <2>1. fd_out # 0 => "both" \in mishaps'
    BY DEF SendPipe
  <2>2. QED
    BY <2>1 DEF Straight
<1>3. /\ 0 \notin Boxed /\ DevNull \notin Boxed /\ DevNull \notin Pipe /\ 0 \notin Pipe
      /\ DevNull # 0 /\ lost \subseteq Pipe /\ DevNull \notin lost
  BY Boxes
<1>4. Ends /\ number = -1
  BY <1>1, <1>2 DEF Sight
<1>5. /\ Q \in Pipe /\ Q # 0 /\ Q \notin Boxed /\ Q # user_pipe /\ Q # fd_in
      /\ Q # DevNull /\ Q \notin lost
      /\ \A p \in Pipe : wr'[p] = IF p = Q THEN {Shell} ELSE wr[p]
      /\ (\A c \in DOMAIN procs : \A p \in Pipe \ lost : c \in wr[p] => procs[c].out = p)'
      /\ (\A c \in DOMAIN procs : procs[c].in \in Pipe => Shell \notin wr[procs[c].in])'
  BY <1>1, NewEnds
<1> HIDE DEF Q
<1>6. \A p \in Pipe \ lost' : Shell \in wr'[p] => p \in Boxed \/ p = fd_out'
  BY <1>1, <1>2, <1>3, <1>5 DEF Sight
<1>7. \A p \in lost' : Shell \in wr'[p] /\ p \notin Boxed /\ p # fd_out' /\ p # user_pipe'
  BY <1>1, <1>3, <1>5 DEF Sight
<1>8. fd_in \in Pipe => Shell \notin wr'[fd_in]
  BY <1>1, <1>5 DEF Sight
<1>9. user_pipe' \notin Boxed /\ fd_out' \notin Boxed
  BY <1>1, <1>3, <1>5 DEF Sight
<1>10. QED
  BY <1>1, <1>4, <1>5, <1>6, <1>7, <1>8, <1>9 DEF Sight

LEMMA SightAtFork ==
  ASSUME CellInv, ShellTypes, Sight, Fork
  PROVE  Sight'
<1> DEFINE n == Len(procs)
           c == n + 1
           keep == IF number = -1 THEN {} ELSE {box[Entry(instruction_count, number)]}
           W == close_all_wr(keep)
           R == close_all_rd \ {ReadEnd}
<1>1. n \in Nat /\ DOMAIN procs = 1..n
  BY Numbers
<1>2. /\ DOMAIN procs' = 1..c
      /\ \A d \in 1..n : procs'[d] = procs[d]
      /\ procs'[c].in = (IF fd_in \in R \union {DevNull} THEN fd_in ELSE 0)
      /\ procs'[c].out = (IF fd_out \in W THEN fd_out ELSE 0)
      /\ \A p \in Pipe : wr'[p] = ParentCloses[p] \union (IF p \in W THEN {c} ELSE {})
  <2>1. procs' \in Seq(Child) /\ Len(procs') = c
    BY <1>1, Forked
  <2>2. DOMAIN procs' = 1..c
    BY <2>1, LenProperties
  <2>3. QED
    BY <1>1, <2>2, Forked
<1>3. /\ UNCHANGED <<pc, fd_in, fd_out, box, user_pipe, number, instruction_count, lost>>
      /\ job = "fork" /\ job' \in {"wait", "none"} /\ Boxed' = Boxed /\ Ends' = Ends
      /\ pc = "event"
  <2>1. job # "none" => pc = "event"
    BY DEF ShellTypes, ControlTypes
  <2>2. QED
    BY <2>1 DEF Fork, vars, cursor, command, tables, Boxed, Ends, isempty, Fetched
<1>4. Starting /\ ~Starting' /\ ~Pending'
  BY <1>3 DEF Starting, Pending
<1>5. /\ \A p \in Pipe \ lost : Shell \in wr[p] => p \in Boxed \/ p = fd_out
      /\ \A p \in lost : Shell \in wr[p] /\ p # fd_out /\ p \in Pipe
      /\ fd_in \in Pipe => Shell \notin wr[fd_in]
      /\ number # -1 => fd_out \in Boxed /\ keep = {fd_out}
      /\ number = -1 => fd_out \notin Boxed /\ keep = {}
  <2>1. number # -1 => fd_out \in Boxed
    <3>1. instruction_count \in Nat /\ (number # -1 => number \in Nat)
      BY DEF ShellTypes, ControlTypes
    <3>2. number # -1 => Entry(instruction_count, number) \in Slot
      BY <3>1, EntryType
    <3>3. QED
      BY <1>4, <3>2, Boxes DEF Sight
  <2>2. QED
    BY <1>4, <2>1, Boxes DEF Sight
<1>6. /\ wr \in [Pipe -> SUBSET (0..n)] /\ 0 \notin Pipe /\ DevNull \notin Pipe
      /\ fd_out \in Pipe \/ fd_out = 0 \/ fd_out = DevNull
  <2>1. fd_out \in Held
    BY DEF ShellTypes, TableTypes
  <2>2. QED
    BY <2>1, Boxes DEF ShellTypes, EndTypes
<1>7. \A p \in Pipe : ParentCloses[p] = IF number = -1 /\ p = fd_out THEN wr[p] \ {Shell} ELSE wr[p]
  BY <1>6 DEF ParentCloses, Closed
<1>8. \A p \in Pipe \ lost : p \in W => p = fd_out
  BY <1>5 DEF close_all_wr
<1> HIDE DEF W, R, keep
<1>9. c # Shell /\ c \notin 0..n /\ c \in 1..c /\ \A d \in 1..c : d \in 1..n \/ d = c
  BY <1>1 DEF Shell
<1> HIDE DEF c, n
<1>10. \A p \in Pipe \ lost : Shell \in wr'[p] => Shell \in wr[p] /\ p \in Boxed
  <2>1. ASSUME NEW p \in Pipe \ lost, Shell \in wr'[p]
        PROVE  Shell \in wr[p] /\ ~(number = -1 /\ p = fd_out)
    <3>1. Shell \in ParentCloses[p]
      BY <1>2, <1>9, <2>1
    <3>2. QED
      BY <1>7, <3>1
  <2>2. QED
    BY <1>5, <2>1
<1>11. ASSUME NEW d \in 1..c, NEW p \in Pipe \ lost, d \in wr'[p]
       PROVE  procs'[d].out = p
  <2>1. CASE d = c
    <3>1. c \notin wr[p]
      BY <1>6, <1>9
    <3>2. p \in W
      BY <1>2, <1>7, <1>11, <2>1, <3>1
    <3>3. QED
      BY <1>2, <1>8, <2>1, <3>2
  <2>2. CASE d \in 1..n /\ d # c
    <3>1. d \in wr[p]
      <4>1. d \in ParentCloses[p] /\ p \in Pipe
        BY <1>2, <1>11, <2>2
      <4>2. QED
        BY <1>7, <4>1
    <3>2. procs[d].out = p
      BY <1>1, <2>2, <3>1 DEF Sight
    <3>3. QED
      BY <1>2, <2>2, <3>2
  <2>3. QED
    BY <1>9, <2>1, <2>2
<1>12. ASSUME NEW d \in 1..c, procs'[d].in \in Pipe
       PROVE  Shell \notin wr'[procs'[d].in]
  <2>1. CASE d = c
    <3>1. procs'[d].in = fd_in /\ fd_in \in Pipe \ lost
      BY <1>2, <1>5, <1>6, <1>12, <2>1
    <3>2. QED
      BY <1>5, <1>10, <3>1
  <2>2. CASE d \in 1..n
    <3>1. procs[d].in \in Pipe \ lost /\ Shell \notin wr[procs[d].in] /\ procs'[d].in = procs[d].in
      BY <1>1, <1>2, <1>5, <1>12, <2>2 DEF Sight
    <3>2. QED
      BY <1>10, <1>12, <3>1
  <2>3. QED
    BY <1>9, <2>1, <2>2
<1>13. \A p \in lost : Shell \in wr'[p]
  BY <1>2, <1>5, <1>7
<1>14. QED
  BY <1>2, <1>3, <1>4, <1>10, <1>11, <1>12, <1>13 DEF Sight

LEMMA SightAtStep ==
  ASSUME CellInv, CellRules, ShellTypes, Straight => Sight, [SystemNext]_allVars
  PROVE  (Straight => Sight)'
<1>1. SUFFICES ASSUME Straight' PROVE Sight'
  OBVIOUS
<1>2. mishaps \subseteq mishaps'
  BY Reaps DEF SystemNext, ShellNext, ShellReads, ShellPrompts, NoInstruction, GetEvent, SkipRest,
     GetOperator, ReceivePipe, SendPipe, Fork, Reaping, allVars, shellVars
<1>3. Sight
  BY <1>1, <1>2 DEF Straight
<1>4. \/ ShellReads \/ ShellPrompts \/ NoInstruction \/ SkipRest \/ UNCHANGED allVars
      \/ GetEvent \/ GetOperator \/ ReceivePipe \/ SendPipe \/ Fork
      \/ Wait \/ child_handler \/ \E d \in DOMAIN procs : ChildEnds(d)
  BY DEF SystemNext, ShellNext
<1>5. QED
  BY <1>1, <1>3, <1>4, SightAtCells, SightAtGetEvent, SightAtGetOperator, SightAtReceivePipe,
     SightAtSendPipe, SightAtFork, Reaps, SightAtReaping

-----------------------------------------------------------------------------
(* The read ends through the steps.                                        *)

LEMMA KeptAtCells ==
  ASSUME CellInv, ShellTypes, Kept,
         ShellReads \/ ShellPrompts \/ NoInstruction \/ SkipRest \/ UNCHANGED allVars
  PROVE  Kept'
<1>0. /\ 0 \notin Pipe /\ (pc \in {"operator", "skip"} => fd_out = 0)
      /\ job # "none" => pc = "event"
  BY Boxes DEF ShellTypes, ControlTypes
<1>1. UNCHANGED <<job, box, user_pipe, procs, wr, rd, lost, at, Boxed>>
  <2>1. UNCHANGED <<job, box, user_pipe, procs, wr, rd, lost, at>>
    BY DEF ShellReads, ShellPrompts, NoInstruction, SkipRest, allVars, shellVars, command, tables,
           ends
  <2>2. QED
    BY <2>1 DEF Boxed
<1>2. CASE UNCHANGED allVars
  <2>1. UNCHANGED <<pc, cmds, cmd_now, cmd_count, fd_in, fd_out, Ends>>
    BY <1>2 DEF allVars, shellVars, command, vars, cursor, Ends, isempty, Fetched
  <2>2. UNCHANGED <<Hand, Leads>>
    BY <1>1, <2>1 DEF Hand, Leads, Starting
  <2>3. QED
    BY <1>1, <2>1, <2>2 DEF Kept
<1>3. CASE ~UNCHANGED allVars
  <2>1. /\ job = "none" /\ pc # "operator" /\ pc' # "operator" /\ ~Leads
        /\ fd_out' = 0 \/ (pc' = "prompt" /\ fd_out' = fd_out)
    <3>1. CASE ShellReads
      BY <1>0, <3>1 DEF ShellReads, ReadLine, Typed, Kept
    <3>2. CASE ShellPrompts
      BY <3>2 DEF ShellPrompts, LineDone, Kept, Ends, shellVars, command
    <3>3. CASE NoInstruction
      BY <3>3 DEF NoInstruction, FetchEvent, builtin, Kept, Ends
    <3>4. CASE SkipRest
      BY <1>0, <3>4 DEF SkipRest, Skip, shellVars, command, Leads
    <3>5. QED
      BY <1>3, <3>1, <3>2, <3>3, <3>4
  <2>2. Hand = {} /\ Hand' = {} /\ ~Leads'
    BY <1>0, <1>1, <2>1 DEF Hand, Starting, Leads
  <2>3. \A p \in Pipe : p = fd_out => p \in Boxed \/ p = user_pipe
    BY <2>1 DEF Leads
  <2>4. QED
    BY <1>1, <2>1, <2>2, <2>3 DEF Kept
<1>4. QED
  BY <1>2, <1>3

LEMMA KeptAtReaping ==
  ASSUME CellInv, ShellTypes, Kept, Reaping
  PROVE  Kept'
<1> DEFINE n == Len(procs)
<1>1. n \in Nat /\ DOMAIN procs = 1..n
  BY Numbers
<1>2. DOMAIN procs' = 1..n
  BY DEF Reaping
<1>3. /\ Boxed' = Boxed /\ Hand' = Hand /\ Leads' = Leads /\ Ends' = Ends
      /\ UNCHANGED <<box, user_pipe, fd_in, fd_out, pc, lost, at, cmds>>
  BY DEF Reaping, Boxed, Starting, Ends, isempty, Fetched, Hand, Leads
<1>4. user_pipe \in Pipe \union {0} /\ Boxed \subseteq Pipe /\ lost \subseteq Pipe
  BY Boxes DEF ShellTypes, TableTypes, Made
<1>5. \A p \in Pipe : Shell \in rd[p] /\ (p \in Boxed \union lost \/ p = user_pipe) => Shell \in rd'[p]
  <2>1. \A c \in 1..n : procs[c].fd_in \in Pipe =>
           procs[c].fd_in \notin Boxed \union lost /\ procs[c].fd_in # user_pipe
    BY <1>1 DEF Kept
  <2>2. QED
    BY <2>1 DEF Reaping
<1>6. ASSUME NEW p \in Pipe \ lost, Shell \in rd'[p]
      PROVE  \/ p \in Boxed \union {user_pipe, fd_out} \union Hand
             \/ \E c \in 1..n : procs'[c].state # "gone" /\ procs'[c].fd_in = p
  <2>1. Shell \in rd[p]
    BY <1>6 DEF Reaping
  <2>2. \/ p \in Boxed \union {user_pipe, fd_out} \union Hand
        \/ \E c \in 1..n : procs[c].state # "gone" /\ procs[c].fd_in = p
    BY <1>1, <2>1 DEF Kept
  <2>3. \A c \in 1..n : procs[c].state # "gone" /\ procs[c].fd_in = p =>
           procs'[c].state # "gone" /\ procs'[c].fd_in = p
    BY <1>6 DEF Reaping
  <2>4. QED
    BY <2>2, <2>3
<1>7. \A c \in 1..n : procs'[c].fd_in \in Pipe =>
         procs'[c].fd_in \notin Boxed \union lost /\ procs'[c].fd_in # user_pipe
  BY <1>1 DEF Reaping, Kept
<1>8. \A p \in Boxed : Shell \in wr'[p] /\ Shell \in rd'[p]
  BY <1>4, <1>5 DEF Kept, Reaping
<1>9. user_pipe # 0 => Shell \in rd'[user_pipe]
  BY <1>4, <1>5 DEF Kept
<1>10. \A p \in lost : Shell \in rd'[p]
  BY <1>4, <1>5 DEF Kept
<1> HIDE DEF n
<1>11. QED
  BY <1>2, <1>3, <1>6, <1>7, <1>8, <1>9, <1>10 DEF Kept

LEMMA KeptAtFork ==
  ASSUME CellInv, ShellTypes, Sight, Kept, Fork
  PROVE  Kept'
<1> DEFINE n == Len(procs)
           c == n + 1
           W == close_all_wr(IF number = -1 THEN {} ELSE {box[Entry(instruction_count, number)]})
           R == close_all_rd \ {ReadEnd}
<1>1. n \in Nat /\ DOMAIN procs = 1..n
  BY Numbers
<1>2. /\ DOMAIN procs' = 1..c
      /\ \A d \in 1..n : procs'[d] = procs[d]
      /\ procs'[c].fd_in = fd_in /\ procs'[c].state = "runs"
      /\ \A p \in Pipe : /\ wr'[p] = ParentCloses[p] \union (IF p \in W THEN {c} ELSE {})
                         /\ rd'[p] = rd[p] \union (IF p \in R THEN {c} ELSE {})
  <2>1. procs' \in Seq(Child) /\ Len(procs') = c
    BY <1>1, Forked
  <2>2. DOMAIN procs' = 1..c
    BY <2>1, LenProperties
  <2>3. QED
    BY <1>1, <2>2, Forked
<1> HIDE DEF W, R
<1>3. /\ UNCHANGED <<pc, cmds, fd_in, fd_out, box, user_pipe, at, lost>>
      /\ job = "fork" /\ job' \in {"wait", "none"} /\ pc = "event"
      /\ Boxed' = Boxed /\ Ends' = Ends /\ Leads' = Leads
  <2>1. job # "none" => pc = "event"
    BY DEF ShellTypes, ControlTypes
  <2>2. QED
    BY <2>1 DEF Fork, vars, cursor, command, tables, Boxed, Ends, isempty, Fetched, Leads
<1>4. Hand = {fd_in} /\ Hand' = {} /\ Starting
  BY <1>3 DEF Hand, Starting
<1>5. c # Shell /\ c \in 1..c /\ 1..n \subseteq 1..c /\ \A d \in 1..c : d \in 1..n \/ d = c
  BY <1>1 DEF Shell
<1> HIDE DEF c, n
<1>6. /\ user_pipe \in Pipe \union {0} /\ Boxed \subseteq Pipe /\ lost \subseteq Pipe
      /\ wr \in [Pipe -> SUBSET (0..Len(procs))]
  BY Boxes DEF ShellTypes, TableTypes, Made, EndTypes
<1>7. \A p \in Pipe : Shell \in rd'[p] <=> Shell \in rd[p]
  BY <1>2, <1>5
<1>8. \A p \in Boxed : Shell \in wr'[p]
  <2>1. ASSUME NEW p \in Boxed PROVE Shell \in ParentCloses[p]
    <3>1. Shell \in wr[p] /\ p \in Pipe
      BY <1>6 DEF Kept
    <3>2. number = -1 => p # fd_out
      BY <1>4 DEF Sight
    <3>3. QED
      BY <1>6, <3>1, <3>2 DEF ParentCloses, Closed
  <2>2. QED
    BY <1>2, <1>6, <2>1
<1>9. ASSUME NEW p \in Pipe \ lost, Shell \in rd'[p]
      PROVE  \/ p \in Boxed \union {user_pipe, fd_out}
             \/ \E d \in 1..c : procs'[d].state # "gone" /\ procs'[d].fd_in = p
  <2>1. \/ p \in Boxed \union {user_pipe, fd_out} \/ p = fd_in
        \/ \E d \in 1..n : procs[d].state # "gone" /\ procs[d].fd_in = p
    BY <1>1, <1>4, <1>7, <1>9 DEF Kept
  <2>2. QED
    BY <1>2, <1>5, <2>1
<1>10. ASSUME NEW d \in 1..c, procs'[d].fd_in \in Pipe
       PROVE  procs'[d].fd_in \notin Boxed \union lost /\ procs'[d].fd_in # user_pipe
  <2>1. CASE d = c
    BY <1>2, <1>4, <1>10, <2>1 DEF Kept
  <2>2. CASE d \in 1..n
    BY <1>1, <1>2, <1>10, <2>2 DEF Kept
  <2>3. QED
    BY <1>5, <2>1, <2>2
<1>11. user_pipe # 0 => Shell \in rd'[user_pipe]
  BY <1>6, <1>7 DEF Kept
<1>12. \A p \in Boxed \union lost : Shell \in rd'[p]
  BY <1>6, <1>7 DEF Kept
<1>13. QED
  BY <1>2, <1>3, <1>4, <1>8, <1>9, <1>10, <1>11, <1>12 DEF Kept

LEMMA KeptAtGetEvent ==
  ASSUME CellInv, ShellTypes, Sight, Kept, GetEvent, mishaps' = {}
  PROVE  Kept'
<1> DEFINE e == Entry(instrusion_count, 0)
           sent == box[e]
<1>1. /\ 0 \notin Boxed /\ Boxed \subseteq Pipe /\ e \in Slot /\ sent \in Pipe \union {0}
      /\ sent # 0 => sent \in Boxed
      /\ 0 \notin Pipe /\ lost \subseteq Pipe
      /\ box \in [Slot -> Made] /\ wr \in [Pipe -> SUBSET (0..Len(procs))]
  <2>1. e \in Slot
    BY Numbers, EntryType
  <2>2. /\ 0 \notin Boxed /\ Boxed \subseteq Pipe /\ (sent # 0 => sent \in Boxed) /\ 0 \notin Pipe
        /\ lost \subseteq Pipe
    BY <2>1, Boxes
  <2>3. box \in [Slot -> Made] /\ wr \in [Pipe -> SUBSET (0..Len(procs))]
    BY DEF ShellTypes, TableTypes, EndTypes
  <2>4. QED
    BY <2>1, <2>2, <2>3
<1> HIDE DEF e
<1>2. /\ job = "none" /\ job' = "none" /\ UNCHANGED <<user_pipe, procs, rd, lost>> /\ fd_out' = 0
      /\ pc = "event" /\ Fetched # <<>> /\ ~isempty /\ ~Ends
      /\ cmds' = cmds /\ cmds'[at'] = Fetched
      /\ IF fd_out # 0 THEN fd_in' = fd_out /\ box' = box /\ wr' = wr
         ELSE fd_in' = sent /\ box' = [box EXCEPT ![e] = 0] /\ wr' = Closed(wr, sent, Shell)
  <2>1. /\ job = "none" /\ job' = "none" /\ UNCHANGED <<user_pipe, procs, rd, lost>> /\ fd_out' = 0
        /\ pc = "event" /\ Fetched # <<>> /\ ~isempty /\ ~Ends
        /\ cmds' = cmds /\ cmds'[at'] = Fetched
        /\ IF fd_out # 0 THEN fd_in' = ReadEnd /\ box' = box /\ wr' = wr
           ELSE fd_in' = sent /\ box' = [box EXCEPT ![e] = 0] /\ wr' = Closed(wr, sent, Shell)
    BY DEF GetEvent, FetchEvent, e, clean, GiveUp, Ends, get_next_cmd, Fetched
  <2>2. ReadEnd = fd_out
    BY <2>1 DEF Sight, ReadEnd
  <2>3. QED
    BY <2>1, <2>2
<1>3. builtin(Fetched) => fd_in' = 0
  <2>1. builtin(Fetched) /\ fd_in' # 0 => "unread" \in mishaps'
    BY DEF GetEvent
  <2>2. QED
    BY <2>1
<1>4. pc' \in {"operator", "skip"} /\ (pc' = "skip" => fd_in' = 0)
  BY <1>2, <1>3 DEF GetEvent, FetchEvent
<1>5. Hand = {} /\ (\A p \in Pipe : p \in Hand' <=> p = fd_in') /\ Hand' \subseteq {fd_in'}
  BY <1>1, <1>2, <1>4 DEF Hand, Starting
<1>6. /\ \A s, t \in Slot : box'[s] = box'[t] /\ box'[s] # 0 => s = t
      /\ Boxed' \subseteq Boxed
      /\ \A p \in Boxed' : Shell \in wr'[p]
      /\ \A p \in Pipe : p \in Boxed \/ p = fd_out => p \in Boxed' \/ p = fd_in'
      /\ fd_in' \in Pipe => fd_in' \notin Boxed' \union lost /\ fd_in' # user_pipe
  <2>1. CASE fd_out # 0
    <3>1. Boxed' = Boxed
      BY <1>2, <2>1 DEF Boxed
    <3>2. fd_out \notin Boxed \union lost /\ fd_out # user_pipe
      BY <1>2, <2>1 DEF Sight, Kept
    <3>3. box' = box /\ wr' = wr /\ fd_in' = fd_out
      BY <1>2, <2>1
    <3>4. QED
      BY <3>1, <3>2, <3>3 DEF Kept
  <2>2. CASE fd_out = 0
    <3>1. box' = [box EXCEPT ![e] = 0]
      BY <1>2, <2>2
    <3>2. \A s \in Slot : box'[s] = IF s = e THEN 0 ELSE box[s]
      BY <1>1, <3>1
    <3>3. \A s, t \in Slot : box[s] = box[t] /\ box[s] # 0 => s = t
      BY DEF Kept
    <3>4. Boxed' \subseteq Boxed /\ (\A p \in Boxed : p # sent => p \in Boxed') /\ sent \notin Boxed'
      BY <1>1, <3>2, <3>3 DEF Boxed
    <3>5. \A p \in Pipe : wr'[p] = IF p = sent THEN wr[p] \ {Shell} ELSE wr[p]
      BY <1>1, <1>2, <2>2 DEF Closed
    <3>6. fd_in' = sent
      BY <1>2, <2>2
    <3>7. sent \in Pipe => sent # user_pipe /\ sent \notin lost
      BY <1>1 DEF Sight
    <3> HIDE DEF sent
    <3>8. \A s, t \in Slot : box'[s] = box'[t] /\ box'[s] # 0 => s = t
      BY <3>2, <3>3
    <3>9. \A p \in Boxed' : Shell \in wr'[p]
      BY <1>1, <3>4, <3>5 DEF Kept
    <3>10. QED
      BY <1>1, <2>2, <3>4, <3>6, <3>7, <3>8, <3>9
  <2>3. QED
    BY <2>1, <2>2
<1>7. ~Leads'
  BY <1>1, <1>2 DEF Leads
<1>8. (\A p \in Boxed : Shell \in wr[p] /\ Shell \in rd[p])'
  BY <1>2, <1>6 DEF Kept
<1>9. (\A p \in Pipe \ lost : Shell \in rd[p] =>
         \/ p \in Boxed \union {user_pipe, fd_out} \union Hand
         \/ \E c \in DOMAIN procs : procs[c].state # "gone" /\ procs[c].fd_in = p)'
  BY <1>2, <1>5, <1>6 DEF Kept
<1>10. (\A c \in DOMAIN procs : procs[c].fd_in \in Pipe =>
          procs[c].fd_in \notin Boxed \union lost /\ procs[c].fd_in # user_pipe)'
  BY <1>2, <1>6 DEF Kept
<1>11. (\A p \in Hand : p \in Pipe => p \notin Boxed \union lost /\ p # user_pipe)'
  BY <1>2, <1>5, <1>6
<1>12. (pc = "operator" /\ builtin(cmds[at]) => fd_in = 0)'
  BY <1>2, <1>3 DEF builtin
<1>13. QED
  BY <1>2, <1>4, <1>6, <1>7, <1>8, <1>9, <1>10, <1>11, <1>12 DEF Kept

LEMMA KeptAtReceivePipe ==
  ASSUME CellInv, ShellTypes, Sight, Kept, ReceivePipe, mishaps' = {}
  PROVE  Kept'
<1>1. /\ UNCHANGED <<pc, cmds, at, fd_out, box, procs>> /\ pc = "event"
      /\ Boxed' = Boxed /\ Ends' = Ends /\ Pending /\ Hand = {fd_in} /\ Hand' = {fd_in'}
  <2>1. job = "receive" /\ job' \in {"send", "fork"}
    BY DEF ReceivePipe
  <2>2. pc = "event"
    BY <2>1 DEF ShellTypes, ControlTypes
  <2>3. QED
    BY <2>1, <2>2 DEF ReceivePipe, vars, cursor, Boxed, Ends, isempty, Fetched, Hand, Starting,
                      Pending
<1>2. fd_in = 0
  <2>1. fd_in # 0 => "both" \in mishaps'
    BY DEF ReceivePipe
  <2>2. QED
    BY <2>1
<1>3. /\ Boxed \subseteq Pipe /\ DevNull \notin Pipe /\ 0 \notin Pipe /\ lost \subseteq Pipe
      /\ DevNull # 0 /\ user_pipe \in Pipe \union {0}
  BY Boxes DEF ShellTypes, TableTypes, Made
<1>4. user_pipe \notin Boxed \union lost /\ (fd_out # 0 => fd_out # user_pipe)
  BY <1>1 DEF Sight
<1>5. Leads' => Leads
  BY <1>1, <1>4 DEF Leads, ReceivePipe
<1>6. CASE user_pipe # 0
  <2>1. fd_in' = user_pipe /\ user_pipe' = 0 /\ UNCHANGED <<wr, rd, lost>>
    BY <1>6 DEF ReceivePipe, ends
  <2>2. (\A p \in Pipe \ lost : Shell \in rd[p] =>
           \/ p \in Boxed \union {user_pipe, fd_out} \union Hand
           \/ \E c \in DOMAIN procs : procs[c].state # "gone" /\ procs[c].fd_in = p)'
    BY <1>1, <1>2, <1>3, <2>1 DEF Kept
  <2>3. (\A c \in DOMAIN procs : procs[c].fd_in \in Pipe =>
           procs[c].fd_in \notin Boxed \union lost /\ procs[c].fd_in # user_pipe)'
    BY <1>1, <1>3, <2>1 DEF Kept
  <2>4. (\A p \in Hand : p \in Pipe => p \notin Boxed \union lost /\ p # user_pipe)'
    BY <1>1, <1>3, <1>4, <2>1
  <2>5. (\A p \in Boxed : Shell \in wr[p] /\ Shell \in rd[p])'
    BY <1>1, <2>1 DEF Kept
  <2>6. QED
    BY <1>1, <1>5, <2>1, <2>2, <2>3, <2>4, <2>5 DEF Kept
<1>7. CASE user_pipe = 0
  <2> DEFINE Q == pipes'
  <2>1. get_new_fd /\ fd_in' = DevNull /\ lost' = lost \union {Q} /\ user_pipe' = 0
    BY <1>7 DEF ReceivePipe, Refuse
  <2>2. /\ Q \in Pipe /\ Q \notin Boxed
        /\ \A c \in DOMAIN procs : Q # procs[c].fd_in
        /\ \A p \in Pipe : /\ wr'[p] = IF p = Q THEN {Shell} ELSE wr[p]
                           /\ rd'[p] = IF p = Q THEN {Shell} ELSE rd[p]
    BY <1>1, <2>1, NewEnds
  <2> HIDE DEF Q
  <2>3. (\A p \in Pipe \ lost : Shell \in rd[p] =>
           \/ p \in Boxed \union {user_pipe, fd_out} \union Hand
           \/ \E c \in DOMAIN procs : procs[c].state # "gone" /\ procs[c].fd_in = p)'
    BY <1>1, <1>2, <1>3, <1>7, <2>1, <2>2 DEF Kept
  <2>4. (\A c \in DOMAIN procs : procs[c].fd_in \in Pipe =>
           procs[c].fd_in \notin Boxed \union lost /\ procs[c].fd_in # user_pipe)'
    BY <1>1, <1>3, <1>7, <2>1, <2>2 DEF Kept
  <2>5. (\A p \in Hand : p \in Pipe => p \notin Boxed \union lost /\ p # user_pipe)'
    BY <1>1, <1>3, <2>1
  <2>6. (\A p \in Boxed : Shell \in wr[p] /\ Shell \in rd[p])'
    BY <1>1, <1>3, <2>2 DEF Kept
  <2>7. \A p \in lost' : Shell \in rd'[p]
    BY <1>3, <2>1, <2>2 DEF Kept
  <2>8. QED
    BY <1>1, <1>5, <1>7, <2>1, <2>3, <2>4, <2>5, <2>6, <2>7 DEF Kept
<1>8. QED
  BY <1>6, <1>7

LEMMA KeptAtSendPipe ==
  ASSUME CellInv, ShellTypes, Sight, Kept, SendPipe, mishaps' = {}
  PROVE  Kept'
<1> DEFINE Q == pipes'
<1>1. /\ UNCHANGED <<pc, cmds, at, fd_in, box, procs>> /\ pc = "event"
      /\ Boxed' = Boxed /\ Ends' = Ends /\ Pending /\ Hand = {fd_in} /\ Hand' = {fd_in}
      /\ out_operator /\ get_new_fd
      /\ \/ fd_out' = Q /\ user_pipe = 0 /\ user_pipe' = Q /\ lost' = lost
         \/ fd_out' = DevNull /\ user_pipe' = user_pipe /\ lost' = lost \union {Q}
  <2>1. job = "send" /\ job' = "fork"
    BY DEF SendPipe
  <2>2. pc = "event" /\ out_operator
    BY <2>1 DEF ShellTypes, ControlTypes
  <2>3. QED
    BY <2>1, <2>2 DEF SendPipe, vars, cursor, Boxed, Ends, isempty, Fetched, Hand, Starting,
                      Pending, Refuse
<1>2. fd_out = 0
  <2>1. fd_out # 0 => "both" \in mishaps'
    BY DEF SendPipe
  <2>2. QED
    BY <2>1
<1>3. /\ Boxed \subseteq Pipe /\ DevNull \notin Pipe /\ 0 \notin Pipe /\ lost \subseteq Pipe
      /\ DevNull # 0 /\ user_pipe \in Pipe \union {0}
  BY Boxes DEF ShellTypes, TableTypes, Made
<1>4. Ends
  BY <1>1, <1>2 DEF Sight
<1>5. /\ Q \in Pipe /\ Q # 0 /\ Q \notin Boxed /\ Q # user_pipe /\ Q # fd_in
      /\ Q \notin lost
      /\ \A c \in DOMAIN procs : Q # procs[c].fd_in
      /\ \A p \in Pipe : /\ wr'[p] = IF p = Q THEN {Shell} ELSE wr[p]
                         /\ rd'[p] = IF p = Q THEN {Shell} ELSE rd[p]
  BY <1>1, NewEnds
<1> HIDE DEF Q
<1>6. (\A p \in Pipe \ lost : Shell \in rd[p] =>
         \/ p \in Boxed \union {user_pipe, fd_out} \union Hand
         \/ \E c \in DOMAIN procs : procs[c].state # "gone" /\ procs[c].fd_in = p)'
  <2>1. SUFFICES ASSUME NEW p \in Pipe \ lost', Shell \in rd'[p]
                 PROVE  \/ p \in Boxed \union {user_pipe', fd_out', fd_in}
                        \/ \E c \in DOMAIN procs : procs[c].state # "gone" /\ procs[c].fd_in = p
    BY <1>1
  <2>2. CASE p = Q
    BY <1>1, <2>1, <2>2
  <2>3. CASE p # Q
    <3>1. p \in Pipe \ lost /\ Shell \in rd[p]
      BY <1>1, <1>5, <2>1, <2>3
    <3>2. \/ p \in Boxed \union {user_pipe, fd_in}
          \/ \E c \in DOMAIN procs : procs[c].state # "gone" /\ procs[c].fd_in = p
      BY <1>1, <1>2, <1>3, <3>1 DEF Kept
    <3>3. QED
      BY <1>1, <1>3, <2>1, <3>2
  <2>4. QED
    BY <2>2, <2>3
<1>7. (\A c \in DOMAIN procs : procs[c].fd_in \in Pipe =>
         procs[c].fd_in \notin Boxed \union lost /\ procs[c].fd_in # user_pipe)'
  BY <1>1, <1>5 DEF Kept
<1>8. (\A p \in Hand : p \in Pipe => p \notin Boxed \union lost /\ p # user_pipe)'
  BY <1>1, <1>5 DEF Kept
<1>9. (\A p \in Boxed : Shell \in wr[p] /\ Shell \in rd[p])'
  BY <1>1, <1>3, <1>5 DEF Kept
<1>10. \A p \in lost' : Shell \in rd'[p]
  BY <1>1, <1>3, <1>5 DEF Kept
<1>11. user_pipe' # 0 => Shell \in rd'[user_pipe']
  BY <1>1, <1>3, <1>5 DEF Kept
<1>12. ~Leads'
  BY <1>1, <1>3 DEF Leads
<1>13. QED
  BY <1>1, <1>4, <1>6, <1>7, <1>8, <1>9, <1>10, <1>11, <1>12 DEF Kept

LEMMA KeptAtGetOperator ==
  ASSUME CellInv, CellRules, ShellTypes, Sight, Kept, GetOperator, mishaps' = {}
  PROVE  Kept'
<1> DEFINE t == Head(Fetched)
           Q == pipes'
<1>1. /\ pc = "operator" /\ job = "none" /\ fd_out = 0 /\ number = -1
      /\ Boxed \subseteq Pipe /\ 0 \notin Pipe /\ user_pipe \in Pipe \union {0}
      /\ \A s \in Slot : box[s] # 0 => box[s] \in Boxed
      /\ lost \subseteq Pipe
  BY Boxes DEF ShellTypes, ControlTypes, TableTypes, GetOperator, FetchOperator, Made
<1>2. /\ UNCHANGED <<at, instruction_count, fd_in, user_pipe, procs, cmds, cmd_count, lost>>
      /\ Starting' <=> LastOperator(Fetched) /\ ~builtin(cmds[at])
      /\ pc' \in {"event", "operator"} /\ (pc' = "event" <=> LastOperator(Fetched))
  BY DEF GetOperator, Starting, FetchOperator, get_next_cmd
<1>3. /\ cmd_now + 1 \in 1..cmd_count /\ Fetched = cmds[cmd_now + 1]
      /\ cmd_now' = cmd_now + 1 /\ cmd_now \in Nat /\ cmd_now > 0 /\ cmds[cmd_now] # <<>>
      /\ (cmd_now + 1) - 1 = cmd_now /\ cmd_now + 1 >= 2 /\ cmd_count \in Nat
  <2>1. /\ cmd_now + 1 \in 1..cmd_count /\ Fetched = cmds[cmd_now + 1]
        /\ cmd_now' = cmd_now + 1 /\ cmd_now \in Nat /\ cmd_now > 0 /\ cmds[cmd_now] # <<>>
    BY Operations
  <2>2. cmd_count \in Nat
    BY Numbers
  <2>3. QED
    BY <2>1, <2>2
<1>4. Fetched # <<>> => t.n \in Nat
  BY Operations
<1>5. Hand = {fd_in} /\ Hand' \subseteq {fd_in} /\ (fd_in \in Pipe => Hand' = {fd_in})
  <2>1. builtin(cmds[at]) => fd_in = 0
    BY <1>1 DEF Kept
  <2>2. pc' = "operator" \/ Starting' \/ fd_in = 0
    BY <1>2, <2>1
  <2>3. QED
    BY <1>1, <1>2, <2>2 DEF Hand
<1>6. (pc = "operator" /\ builtin(cmds[at]) => fd_in = 0)'
  BY <1>1, <1>2 DEF Kept, builtin
<1>7. CASE Fetched # <<>> /\ Numbered(t) /\ t.is \in Sign /\ NumberedPipe(t)
  <2> DEFINE s == Entry(instruction_count, t.n)
  <2>1. s \in Slot
    <3>1. instruction_count \in Nat
      BY DEF ShellTypes, ControlTypes
    <3>2. QED
      BY <1>4, <1>7, <3>1, EntryType
  <2>2. CASE box[s] # 0
    <3>1. fd_out' = box[s] /\ UNCHANGED <<box, wr, rd>>
      BY <1>7, <2>2 DEF NumberedPipe, ends
    <3>2. Boxed' = Boxed
      BY <3>1 DEF Boxed
    <3>3. fd_out' \in Boxed /\ fd_out' # user_pipe /\ fd_out' # 0
      BY <1>1, <2>1, <2>2, <3>1 DEF Sight
    <3>4. ~Leads'
      BY <3>2, <3>3 DEF Leads
    <3> HIDE DEF s, t, Q
    <3>5. (\A p \in Pipe \ lost : Shell \in rd[p] =>
             \/ p \in Boxed \union {user_pipe, fd_out} \union Hand
             \/ \E c \in DOMAIN procs : procs[c].state # "gone" /\ procs[c].fd_in = p)'
      BY <1>1, <1>2, <1>5, <3>1, <3>2 DEF Kept
    <3>6. (\A p \in Hand : p \in Pipe => p \notin Boxed \union lost /\ p # user_pipe)'
      BY <1>2, <1>5, <3>2 DEF Kept
    <3>7. QED
      BY <1>2, <1>6, <3>1, <3>2, <3>3, <3>4, <3>5, <3>6 DEF Kept
  <2>3. CASE box[s] = 0
    <3>1. get_new_fd /\ fd_out' = Q /\ box' = [box EXCEPT ![s] = Q]
      BY <1>7, <2>3 DEF NumberedPipe
    <3>2. /\ Q \in Pipe /\ Q # 0 /\ Q \notin Boxed \union lost /\ Q # user_pipe /\ Q # fd_in
          /\ \A c \in DOMAIN procs : Q # procs[c].fd_in
          /\ \A p \in Pipe : /\ wr'[p] = IF p = Q THEN {Shell} ELSE wr[p]
                             /\ rd'[p] = IF p = Q THEN {Shell} ELSE rd[p]
      BY <1>2, <3>1, NewEnds
    <3>3. box \in [Slot -> Made]
      BY DEF ShellTypes, TableTypes
    <3> HIDE DEF s, Q, t
    <3>4. \A r \in Slot : box'[r] = IF r = s THEN Q ELSE box[r]
      BY <3>1, <3>3
    <3>5. Boxed' = Boxed \union {Q}
      BY <2>1, <2>3, <3>2, <3>4 DEF Boxed
    <3>6. ASSUME NEW r \in Slot, NEW u \in Slot, box'[r] = box'[u], box'[r] # 0
          PROVE  r = u
      <4>1. \A v \in Slot : v # s => box'[v] # Q
        BY <1>1, <3>2, <3>4
      <4>2. QED
        BY <3>4, <3>6, <4>1 DEF Kept
    <3>7. ~Leads'
      BY <3>1, <3>5 DEF Leads
    <3>8. (\A p \in Boxed : Shell \in wr[p] /\ Shell \in rd[p])' /\ (\A p \in lost : Shell \in rd'[p])
      BY <1>1, <3>2, <3>5 DEF Kept
    <3>9. (\A p \in Pipe \ lost : Shell \in rd[p] =>
             \/ p \in Boxed \union {user_pipe, fd_out} \union Hand
             \/ \E c \in DOMAIN procs : procs[c].state # "gone" /\ procs[c].fd_in = p)'
      BY <1>1, <1>2, <1>5, <3>2, <3>5 DEF Kept
    <3>10. (\A c \in DOMAIN procs : procs[c].fd_in \in Pipe =>
              procs[c].fd_in \notin Boxed \union lost /\ procs[c].fd_in # user_pipe)'
      BY <1>2, <3>2, <3>5 DEF Kept
    <3>11. (\A p \in Hand : p \in Pipe => p \notin Boxed \union lost /\ p # user_pipe)'
      BY <1>2, <1>5, <3>2, <3>5 DEF Kept
    <3>12. user_pipe # 0 => Shell \in rd'[user_pipe]
      BY <1>1, <3>2 DEF Kept
    <3>13. QED
      BY <1>2, <1>6, <3>1, <3>2, <3>6, <3>7, <3>8, <3>9, <3>10, <3>11, <3>12 DEF Kept
  <2>4. QED
    BY <2>2, <2>3
<1>8. CASE Fetched # <<>> /\ ~Numbered(t) /\ t.is \in Sign /\ PlainPipe
  <2>1. get_new_fd /\ fd_out' = Q /\ box' = box
    BY <1>8 DEF PlainPipe
  <2>2. Boxed' = Boxed
    BY <2>1 DEF Boxed
  <2>3. /\ Q \in Pipe /\ Q # 0 /\ Q \notin Boxed \union lost /\ Q # user_pipe /\ Q # fd_in
        /\ \A c \in DOMAIN procs : Q # procs[c].fd_in
        /\ \A p \in Pipe : /\ wr'[p] = IF p = Q THEN {Shell} ELSE wr[p]
                           /\ rd'[p] = IF p = Q THEN {Shell} ELSE rd[p]
    BY <1>2, <2>1, NewEnds
  <2>4. ~Ends'
    <3>1. t.is # "!"
      <4>1. t.is = "!" => "unread" \in mishaps'
        BY <1>8 DEF GetOperator
      <4>2. QED
        BY <4>1
    <3>2. ~(t.n > 0)
      BY <1>8, <3>1 DEF Numbered, Sign
    <3>3. Piping(cmds, cmd_now + 1)
      BY <1>3, <1>8 DEF Piping
    <3>4. PipeRule(cmds, cmd_now + 1)
      BY <1>3 DEF CellRules
    <3>5. cmd_now + 1 < Len(cmds) /\ cmds[(cmd_now + 1) + 1] # <<>>
      BY <1>3, <3>2, <3>3, <3>4 DEF PipeRule
    <3>6. cmd_count = Len(cmds)
      BY DEF CellInv
    <3>7. QED
      BY <1>2, <1>3, <3>5, <3>6 DEF Ends, Fetched, isempty
  <2> HIDE DEF t, Q
  <2>5. (\A p \in Boxed : Shell \in wr[p] /\ Shell \in rd[p])' /\ (\A p \in lost : Shell \in rd'[p])
    BY <1>1, <2>2, <2>3 DEF Kept
  <2>6. (\A p \in Pipe \ lost : Shell \in rd[p] =>
           \/ p \in Boxed \union {user_pipe, fd_out} \union Hand
           \/ \E c \in DOMAIN procs : procs[c].state # "gone" /\ procs[c].fd_in = p)'
    BY <1>1, <1>2, <1>5, <2>1, <2>2, <2>3 DEF Kept
  <2>7. (\A c \in DOMAIN procs : procs[c].fd_in \in Pipe =>
           procs[c].fd_in \notin Boxed \union lost /\ procs[c].fd_in # user_pipe)'
    BY <1>2, <2>2 DEF Kept
  <2>8. (\A p \in Hand : p \in Pipe => p \notin Boxed \union lost /\ p # user_pipe)'
    BY <1>2, <1>5, <2>2 DEF Kept
  <2>9. user_pipe # 0 => Shell \in rd'[user_pipe]
    BY <1>1, <2>3 DEF Kept
  <2>10. QED
    BY <1>2, <1>6, <2>1, <2>2, <2>3, <2>4, <2>5, <2>6, <2>7, <2>8, <2>9 DEF Kept
<1>9. CASE \/ Fetched # <<>> /\ t.is \in {">", "<"} /\ program # "simple" /\ UserPipe(t)
           \/ NoPipe /\ (Fetched = <<>> \/ t.is \notin Sign)
  <2>1. UNCHANGED <<fd_out, box, wr, rd>>
    BY <1>9 DEF UserPipe, NoPipe, ends
  <2>2. Boxed' = Boxed
    BY <2>1 DEF Boxed
  <2> HIDE DEF t, Q
  <2>3. ~Leads'
    BY <1>1, <2>1 DEF Leads
  <2>4. (\A p \in Pipe \ lost : Shell \in rd[p] =>
           \/ p \in Boxed \union {user_pipe, fd_out} \union Hand
           \/ \E c \in DOMAIN procs : procs[c].state # "gone" /\ procs[c].fd_in = p)'
    BY <1>1, <1>2, <1>5, <2>1, <2>2 DEF Kept
  <2>5. (\A p \in Hand : p \in Pipe => p \notin Boxed \union lost /\ p # user_pipe)'
    BY <1>2, <1>5, <2>2 DEF Kept
  <2>6. QED
    BY <1>1, <1>2, <1>6, <2>1, <2>2, <2>3, <2>4, <2>5 DEF Kept
<1>10. QED
  BY <1>7, <1>8, <1>9, Operations DEF Operation

LEMMA KeptAtStep ==
  ASSUME CellInv, CellRules, ShellTypes, Straight => Sight, mishaps = {} => Kept,
         [SystemNext]_allVars
  PROVE  (mishaps = {} => Kept)'
<1>1. SUFFICES ASSUME mishaps' = {} PROVE Kept'
  OBVIOUS
<1>2. mishaps \subseteq mishaps'
  BY Reaps DEF SystemNext, ShellNext, ShellReads, ShellPrompts, NoInstruction, GetEvent, SkipRest,
     GetOperator, ReceivePipe, SendPipe, Fork, Reaping, allVars, shellVars
<1>3. Sight /\ Kept
  BY <1>1, <1>2 DEF Straight
<1>4. \/ ShellReads \/ ShellPrompts \/ NoInstruction \/ SkipRest \/ UNCHANGED allVars
      \/ GetEvent \/ GetOperator \/ ReceivePipe \/ SendPipe \/ Fork
      \/ Wait \/ child_handler \/ \E d \in DOMAIN procs : ChildEnds(d)
  BY DEF SystemNext, ShellNext
<1>5. QED
  BY <1>1, <1>3, <1>4, KeptAtCells, KeptAtGetEvent, KeptAtGetOperator, KeptAtReceivePipe,
     KeptAtSendPipe, KeptAtFork, Reaps, KeptAtReaping

-----------------------------------------------------------------------------
(* The invariant holds, and says what EndsHeld says.                       *)

LEMMA StepOfCommand ==
  ASSUME [SystemNext]_allVars
  PROVE  [Next]_vars
<1>1. CASE ShellReads \/ ShellPrompts \/ NoInstruction \/ GetEvent \/ SkipRest \/ GetOperator
  BY <1>1 DEF ShellReads, ShellPrompts, NoInstruction, GetEvent, SkipRest, GetOperator, Next
<1>2. CASE \/ ReceivePipe \/ SendPipe \/ Fork \/ Wait \/ child_handler \/ \E c \in DOMAIN procs : ChildEnds(c)
           \/ UNCHANGED allVars
  BY <1>2 DEF ReceivePipe, SendPipe, Fork, Wait, child_handler, ChildEnds, allVars
<1>3. QED
  BY <1>1, <1>2 DEF SystemNext, ShellNext

LEMMA LineAtInit == ShellInit => CellInv /\ LineInv
<1>1. SUFFICES ASSUME ShellInit PROVE CellInv /\ LineInv
  OBVIOUS
<1>2. CellInv /\ CellRules
  BY <1>1, CellsAtInit, RulesAtInit DEF ShellInit
<1>3. /\ procs = <<>> /\ Len(procs) = 0 /\ procs \in Seq(Child) /\ DOMAIN procs = {}
  BY <1>1, EmptySeq DEF ShellInit
<1>4. /\ job = "none" /\ pc = "prompt" /\ at = 0 /\ instruction_count = 0 /\ fd_in = 0 /\ fd_out = 0
      /\ number = -1 /\ in_operator = FALSE /\ out_operator = FALSE /\ user_pipe = 0
      /\ box = [s \in Slot |-> 0] /\ pipes = 0
      /\ wr = [p \in Pipe |-> {}] /\ rd = [p \in Pipe |-> {}] /\ 0 \notin Pipe /\ lost = {}
  BY <1>1 DEF ShellInit, Init, Pipe
<1>5. ShellTypes
  <2>1. ControlTypes
    BY <1>4 DEF ControlTypes
  <2>2. EndTypes
    BY <1>4, LineShellAssumption DEF EndTypes
  <2>3. TableTypes
    BY <1>4 DEF TableTypes, Held, Made
  <2>4. ChildTypes
    BY <1>3 DEF ChildTypes
  <2>5. LostTypes
    BY <1>4 DEF LostTypes, DevNull
  <2>6. QED
    BY <2>1, <2>2, <2>3, <2>4, <2>5 DEF ShellTypes
<1>6. Boxed = {} /\ Hand = {} /\ ~Starting /\ ~Pending /\ ~Leads
  BY <1>4 DEF Boxed, Hand, Starting, Pending, Leads
<1>7. \A p \in Pipe : wr[p] = {} /\ rd[p] = {}
  BY <1>4
<1>8. Sight
  BY <1>3, <1>4, <1>6, <1>7 DEF Sight
<1>9. Kept
  BY <1>3, <1>4, <1>6, <1>7 DEF Kept
<1>10. QED
  BY <1>2, <1>5, <1>8, <1>9 DEF LineInv

LEMMA LineAtStep == CellInv /\ LineInv /\ [SystemNext]_allVars => CellInv' /\ LineInv'
<1>1. SUFFICES ASSUME CellInv, LineInv, [SystemNext]_allVars PROVE CellInv' /\ LineInv'
  OBVIOUS
<1>2. CellRules /\ ShellTypes /\ (Straight => Sight) /\ (mishaps = {} => Kept)
  BY <1>1 DEF LineInv
<1>3. CellInv' /\ CellRules'
  BY <1>1, <1>2, StepOfCommand, CellsAtStep, RulesAtStep
<1>4. ShellTypes' /\ (Straight => Sight)' /\ (mishaps = {} => Kept)'
  BY <1>1, <1>2, TypesAtStep, SightAtStep, KeptAtStep
<1>5. QED
  BY <1>3, <1>4 DEF LineInv

(* No command waits for itself by way of others.                           *)

(* Who can write to a pipe runs, and writes to commands forked after it.   *)
WritersRun == \A c \in DOMAIN procs : \A p \in Pipe : c \in wr[p] => procs[c].state = "runs"

Downhill ==
  \A c, d \in DOMAIN procs : procs[c].in \in Pipe /\ procs[d].out = procs[c].in => d < c

ChainInv == WritersRun /\ (Straight => Downhill)

LEMMA ChainAtInit == ShellInit => ChainInv
<1>1. SUFFICES ASSUME ShellInit PROVE ChainInv
  OBVIOUS
<1>2. DOMAIN procs = {}
  BY <1>1, EmptySeq DEF ShellInit
<1>3. QED
  BY <1>2 DEF ChainInv, WritersRun, Downhill

(* The steps that make no child leave the children alone, but one that     *)
(* takes a write end from them also takes its turn to run.                 *)
LEMMA WritersAtReaping ==
  ASSUME CellInv, ShellTypes, WritersRun,
         Wait \/ child_handler \/ \E c \in DOMAIN procs : ChildEnds(c)
  PROVE  WritersRun'
<1> DEFINE n == Len(procs)
<1>1. n \in Nat /\ DOMAIN procs = 1..n /\ DOMAIN procs' = 1..n
  BY Numbers, Reaps DEF Reaping
<1>2. procs \in [1..n -> Child] /\ wr \in [Pipe -> SUBSET (0..n)]
  BY <1>1, ElementOfSeq DEF ShellTypes, ChildTypes, EndTypes
<1> HIDE DEF n
<1>3. CASE Wait
  <2>1. PICK w : w = Len(procs)
    OBVIOUS
  <2>2. /\ procs[w].state # "runs" /\ wr' = wr
        /\ procs' = [procs EXCEPT ![w].state = "gone"]
    BY <1>3, <2>1 DEF Wait
  <2>3. \A c \in 1..n : procs[c].state = "runs" => procs'[c] = procs[c]
    BY <1>2, <2>2
  <2>4. QED
    BY <1>1, <2>2, <2>3 DEF WritersRun
<1>4. CASE child_handler
  <2>1. wr' = wr /\ \A c \in 1..n : procs[c].state = "runs" => procs'[c] = procs[c]
    BY <1>1, <1>4 DEF child_handler
  <2>2. QED
    BY <1>1, <2>1 DEF WritersRun
<1>5. ASSUME NEW e \in DOMAIN procs, ChildEnds(e) PROVE WritersRun'
  <2>1. /\ procs' = [procs EXCEPT ![e].state = "zombie"]
        /\ wr' = [p \in Pipe |-> wr[p] \ {e}]
    BY <1>5 DEF ChildEnds
  <2>2. \A c \in 1..n : c # e => procs'[c] = procs[c]
    BY <1>2, <2>1
  <2>3. \A p \in Pipe : wr'[p] = wr[p] \ {e}
    BY <2>1
  <2>4. QED
    BY <1>1, <2>2, <2>3 DEF WritersRun
<1>6. QED
  BY <1>3, <1>4, <1>5

LEMMA DownhillAtReaping ==
  ASSUME CellInv, Downhill, Reaping
  PROVE  Downhill'
<1> DEFINE n == Len(procs)
<1>1. /\ DOMAIN procs = 1..n /\ DOMAIN procs' = 1..n
      /\ \A c \in 1..n : procs'[c].in = procs[c].in /\ procs'[c].out = procs[c].out
  BY Numbers DEF Reaping
<1>2. QED
  BY <1>1 DEF Downhill

(* The steps between two children give their ends to nobody but the shell. *)
LEMMA ChainAtPipes ==
  ASSUME CellInv, ShellTypes, ChainInv, Straight' => Straight,
         procs' = procs,
         \A p \in Pipe : wr'[p] \subseteq wr[p] \union {Shell}
  PROVE  ChainInv'
<1>1. DOMAIN procs = 1..Len(procs) /\ Len(procs) \in Nat
  BY Numbers
<1>2. \A c \in DOMAIN procs : c # Shell
  BY <1>1 DEF Shell
<1>3. WritersRun'
  BY <1>2 DEF ChainInv, WritersRun
<1>4. QED
  BY <1>3 DEF ChainInv, Downhill

LEMMA GivenToShell ==
  ASSUME CellInv, CellRules, ShellTypes,
         \/ ShellReads \/ ShellPrompts \/ NoInstruction \/ SkipRest \/ UNCHANGED allVars
         \/ GetEvent \/ GetOperator \/ ReceivePipe \/ SendPipe
  PROVE  procs' = procs /\ \A p \in Pipe : wr'[p] \subseteq wr[p] \union {Shell}
<1>1. wr \in [Pipe -> SUBSET (0..Len(procs))]
  BY DEF ShellTypes, EndTypes
<1>2. get_new_fd => \A p \in Pipe : wr'[p] \subseteq wr[p] \union {Shell}
  <2>1. get_new_fd => wr' = [wr EXCEPT ![pipes + 1] = {Shell}]
    BY DEF get_new_fd
  <2>2. QED
    BY <1>1, <2>1
<1>3. CASE ShellReads \/ ShellPrompts \/ NoInstruction \/ SkipRest \/ UNCHANGED allVars
  BY <1>3 DEF ShellReads, ShellPrompts, NoInstruction, SkipRest, allVars, shellVars, ends
<1>4. CASE GetEvent
  <2>1. procs' = procs /\ (wr' = wr \/ \E q : wr' = Closed(wr, q, Shell))
    BY <1>4 DEF GetEvent, GiveUp
  <2>2. ASSUME NEW q, wr' = Closed(wr, q, Shell)
        PROVE  \A p \in Pipe : wr'[p] \subseteq wr[p] \union {Shell}
    BY <1>1, <2>2 DEF Closed
  <2>3. QED
    BY <2>1, <2>2
<1>5. CASE GetOperator
  <2>1. procs' = procs
    BY <1>5 DEF GetOperator
  <2>2. wr' = wr \/ get_new_fd
    BY <1>5, Operations DEF Operation, NumberedPipe, PlainPipe, UserPipe, NoPipe, ends
  <2>3. QED
    BY <1>2, <2>1, <2>2
<1>6. CASE ReceivePipe \/ SendPipe
  <2>1. procs' = procs /\ (wr' = wr \/ get_new_fd)
    BY <1>6 DEF ReceivePipe, SendPipe, ends
  <2>2. QED
    BY <1>2, <2>1
<1>7. QED
  BY <1>3, <1>4, <1>5, <1>6

(* A new child writes to a pipe that the shell could write to, and nobody  *)
(* reads such a one.                                                       *)
LEMMA ChainAtFork ==
  ASSUME CellInv, ShellTypes, ChainInv, Straight' => Straight, Straight => Sight, Fork
  PROVE  ChainInv'
<1> DEFINE n == Len(procs)
           c == n + 1
           W == close_all_wr(IF number = -1 THEN {} ELSE {box[Entry(instruction_count, number)]})
           R == close_all_rd \ {ReadEnd}
<1>1. n \in Nat /\ DOMAIN procs = 1..n
  BY Numbers
<1>2. /\ DOMAIN procs' = 1..c
      /\ \A d \in 1..n : procs'[d] = procs[d]
      /\ procs'[c].state = "runs"
      /\ procs'[c].in \in {0, DevNull} \/ procs'[c].in = fd_in
      /\ procs'[c].out = (IF fd_out \in W THEN fd_out ELSE 0)
      /\ \A p \in Pipe : wr'[p] = ParentCloses[p] \union (IF p \in W THEN {c} ELSE {})
  <2>1. procs' \in Seq(Child) /\ Len(procs') = c
    BY <1>1, Forked
  <2>2. DOMAIN procs' = 1..c
    BY <2>1, LenProperties
  <2>3. QED
    BY <1>1, <2>2, Forked
<1>3. \A p \in W : Shell \in wr[p]
  BY DEF close_all_wr
<1>4. /\ wr \in [Pipe -> SUBSET (0..n)] /\ 0 \notin Pipe /\ DevNull \notin Pipe
  BY Boxes DEF ShellTypes, EndTypes
<1>5. \A p \in Pipe : ParentCloses[p] \subseteq wr[p]
  BY <1>4 DEF ParentCloses, Closed
<1>6. Starting
  BY DEF Fork, Starting
<1>7. c \notin 0..n /\ (\A d \in 1..n : d < c) /\ (\A d \in 1..c : d \in 1..n \/ d = c)
  BY <1>1
<1> HIDE DEF n, c, W, R
<1>8. WritersRun'
  <2>1. SUFFICES ASSUME NEW d \in 1..c, NEW p \in Pipe, d \in wr'[p]
                 PROVE  procs'[d].state = "runs"
    BY <1>2 DEF WritersRun
  <2>2. CASE d \in 1..n
    <3>1. d # c
      BY <1>1, <1>7, <2>2
    <3>2. d \in wr[p]
      BY <1>2, <1>5, <2>1, <3>1
    <3>3. QED
      BY <1>1, <1>2, <2>2, <3>2 DEF ChainInv, WritersRun
  <2>3. QED
    BY <1>2, <1>7, <2>2
<1>9. ASSUME Straight' PROVE Downhill'
  <2>1. Sight /\ Downhill
    BY <1>9 DEF ChainInv
  <2>2. SUFFICES ASSUME NEW r \in 1..c, NEW d \in 1..c,
                        procs'[r].in \in Pipe, procs'[d].out = procs'[r].in
                 PROVE  d < r
    BY <1>2 DEF Downhill
  <2>3. CASE d = c
    <3>1. procs'[r].in \in W
      BY <1>2, <1>4, <2>2, <2>3
    <3>2. Shell \in wr[procs'[r].in]
      BY <1>3, <3>1
    <3>3. CASE r = c
      <4>1. procs'[r].in = fd_in
        BY <1>2, <1>4, <2>2, <3>3
      <4>2. QED
        BY <1>6, <2>1, <2>2, <3>2, <4>1 DEF Sight
    <3>4. CASE r \in 1..n
      BY <1>1, <1>2, <2>1, <2>2, <3>2, <3>4 DEF Sight
    <3>5. QED
      BY <1>7, <3>3, <3>4
  <2>4. CASE d \in 1..n /\ r = c
    BY <1>7, <2>4
  <2>5. CASE d \in 1..n /\ r \in 1..n
    BY <1>1, <1>2, <2>1, <2>2, <2>5 DEF Downhill
  <2>6. QED
    BY <1>7, <2>3, <2>4, <2>5
<1>10. QED
  BY <1>8, <1>9 DEF ChainInv

LEMMA ChainAtStep ==
  ASSUME CellInv, LineInv, ChainInv, [SystemNext]_allVars
  PROVE  ChainInv'
<1>1. CellRules /\ ShellTypes /\ (Straight => Sight)
  BY DEF LineInv
<1>2. mishaps \subseteq mishaps'
  BY <1>1, Reaps DEF SystemNext, ShellNext, ShellReads, ShellPrompts, NoInstruction, GetEvent,
     SkipRest, GetOperator, ReceivePipe, SendPipe, Fork, Reaping, allVars, shellVars
<1>3. Straight' => Straight
  BY <1>2 DEF Straight
<1>4. CASE \/ ShellReads \/ ShellPrompts \/ NoInstruction \/ SkipRest \/ UNCHANGED allVars
           \/ GetEvent \/ GetOperator \/ ReceivePipe \/ SendPipe
  BY <1>1, <1>3, <1>4, GivenToShell, ChainAtPipes
<1>5. CASE Fork
  BY <1>1, <1>3, <1>5, ChainAtFork
<1>6. CASE Wait \/ child_handler \/ \E d \in DOMAIN procs : ChildEnds(d)
  <2>1. Reaping
    BY <1>1, <1>6, Reaps
  <2>2. WritersRun'
    BY <1>1, <1>6, WritersAtReaping DEF ChainInv
  <2>3. Straight' => Downhill'
    BY <1>3, <2>1, DownhillAtReaping DEF ChainInv
  <2>4. QED
    BY <2>2, <2>3 DEF ChainInv
<1>7. QED
  BY <1>4, <1>5, <1>6 DEF SystemNext, ShellNext

LEMMA LineMeans == CellInv /\ LineInv /\ ChainInv => EndsHeld
<1>1. SUFFICES ASSUME CellInv, LineInv, ChainInv PROVE EndsHeld
  OBVIOUS
<1> DEFINE n == Len(procs)
<1>2. /\ ShellTypes /\ (Straight => Sight) /\ (mishaps = {} => Kept)
      /\ DOMAIN procs = 1..n /\ n \in Nat
  BY <1>1, Numbers DEF LineInv
<1>3. ControlTypes /\ EndTypes /\ TableTypes /\ ChildTypes
  BY <1>2 DEF ShellTypes
<1>4. ShellTypeOK
  <2>1. Made \subseteq Pipe \union {0}
    BY <1>3, LineShellAssumption DEF EndTypes, Made, Pipe
  <2>2. {fd_in, fd_out} \subseteq Pipe \union {0, DevNull}
    BY <1>3, <2>1 DEF TableTypes, Held
  <2>3. QED
    BY <1>3, <2>2 DEF ShellTypeOK, ControlTypes, EndTypes, TableTypes, ChildTypes, Made
<1>5. EndInSight
  <2>1. SUFFICES ASSUME Straight, NEW c \in DOMAIN procs, procs[c].in \in Pipe,
                        NEW d \in wr[procs[c].in]
                 PROVE  d \in DOMAIN procs /\ procs[d].out = procs[c].in
    BY DEF EndInSight, Straight
  <2>2. Sight /\ d \in 0..n /\ d # Shell /\ procs[c].in \in Pipe \ lost
    BY <1>2, <1>3, <2>1 DEF Sight, EndTypes
  <2>3. d \in DOMAIN procs
    BY <1>2, <2>2 DEF Shell
  <2>4. QED
    BY <2>1, <2>2, <2>3 DEF Sight
<1>6. NothingKept
  <2>1. SUFFICES ASSUME pc = "prompt", mishaps = {},
                        \A c \in DOMAIN procs : procs[c].state = "gone"
                 PROVE  /\ {p \in Pipe : Shell \in wr[p]} = Boxed \union lost
                        /\ {p \in Pipe : Shell \in rd[p]}
                             = Boxed \union lost \union ({user_pipe} \ {0})
    BY DEF NothingKept
  <2>2. Sight /\ Kept
    BY <1>2, <2>1 DEF Straight
  <2>3. ~Starting /\ Hand = {} /\ ~Leads
    BY <1>3, <2>1, <2>2 DEF ControlTypes, Starting, Hand, Kept
  <2>4. /\ Boxed \subseteq Pipe /\ lost \subseteq Pipe
        /\ user_pipe \in Pipe \union {0} /\ 0 \notin Pipe
    BY <1>2, <1>3, Boxes DEF TableTypes, Made
  <2>5. {p \in Pipe : Shell \in wr[p]} = Boxed \union lost
    BY <2>2, <2>3, <2>4 DEF Sight, Kept
  <2>6. \A p \in Pipe : Shell \in rd[p] => p \in Boxed \union lost \union {user_pipe}
    BY <2>1, <2>2, <2>3 DEF Kept, Leads
  <2>7. \A p \in Boxed \union lost \union ({user_pipe} \ {0}) : Shell \in rd[p] /\ p \in Pipe
    BY <2>2, <2>4 DEF Kept
  <2>8. QED
    BY <2>4, <2>5, <2>6, <2>7
<1>7. SomeoneEnds
  <2>1. SUFFICES ASSUME Straight, {c \in DOMAIN procs : procs[c].state = "runs"} # {}
                 PROVE  \E c \in DOMAIN procs :
                          procs[c].state = "runs" /\ (CanEnd(c) \/ AsksClient(c))
    BY DEF SomeoneEnds, Straight
  <2>2. PICK c \in {d \in DOMAIN procs : procs[d].state = "runs"} :
               \A d \in {e \in DOMAIN procs : procs[e].state = "runs"} : c <= d
    <3>1. {d \in DOMAIN procs : procs[d].state = "runs"} \in SUBSET Nat
      BY <1>2
    <3>2. QED
      BY <2>1, <3>1, Least
  <2>3. c \in 1..n /\ c \in Nat /\ c \in DOMAIN procs /\ procs[c].state = "runs"
    BY <1>2, <2>2
  <2>4. procs[c].in \in Pipe \union {0, DevNull}
    <3>1. procs \in Seq(Child)
      BY <1>3 DEF ChildTypes
    <3>2. procs[c] \in Child
      BY <2>3, <3>1, ElementOfSeq
    <3>3. QED
      BY <3>2 DEF Child
  <2>5. ASSUME procs[c].in \in Pipe, NEW d \in wr[procs[c].in] PROVE FALSE
    <3>1. d \in DOMAIN procs /\ procs[d].out = procs[c].in
      BY <1>5, <2>1, <2>3, <2>5 DEF EndInSight, Straight
    <3>2. procs[d].state = "runs" /\ d < c
      BY <1>1, <2>1, <2>3, <2>5, <3>1 DEF ChainInv, WritersRun, Downhill
    <3>3. c <= d /\ d \in Nat
      BY <1>2, <2>2, <3>1, <3>2
    <3>4. QED
      BY <2>3, <3>2, <3>3
  <2>6. CanEnd(c) \/ AsksClient(c)
    BY <2>4, <2>5 DEF CanEnd
  <2>7. QED
    BY <2>3, <2>6
<1>8. QED
  BY <1>4, <1>5, <1>6, <1>7 DEF EndsHeld

(* Whatever lines are typed and however the children end, a pipe that a    *)
(* command reads can be written only by commands that were told to, so the *)
(* reader sees the end of its input; there is always one that can end, or  *)
(* waits for the client; and when all have ended the shell holds the ends  *)
(* that wait for a reader, both ends of the pipes made for user pipes that *)
(* were refused, which it never closes, and no others (np_simple.cpp:      *)
(* 91-196, np_single_proc.cpp:225-361, np_multi_proc.cpp:400-560,          *)
(* pipe.cpp, EndsHeld).                                                    *)
THEOREM EndsAreHeld == ShellSpec => []EndsHeld
<1>1. ShellInit => CellInv /\ LineInv /\ ChainInv
  BY LineAtInit, ChainAtInit
<1>2. CellInv /\ LineInv /\ ChainInv /\ [SystemNext]_allVars
        => CellInv' /\ LineInv' /\ ChainInv'
  BY LineAtStep, ChainAtStep
<1>3. ShellSpec => [](CellInv /\ LineInv /\ ChainInv)
  BY <1>1, <1>2, PTL DEF ShellSpec
<1>4. QED
  BY <1>3, LineMeans, PTL

(* What the shells do to the cells as they run commands is what Command    *)
(* lets them do, so what is shown of Command is true of them.              *)
THEOREM ShellsFetchAsCommand == ShellSpec => Spec
<1>1. ShellInit => Init
  BY DEF ShellInit
<1>2. [SystemNext]_allVars => [Next]_vars
  BY StepOfCommand
<1>3. QED
  BY <1>1, <1>2, PTL DEF ShellSpec, Spec
=============================================================================

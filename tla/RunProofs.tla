----------------------------- MODULE RunProofs -----------------------------
(***************************************************************************)
(* More proofs about Command and LineShell, for lines of any length: what  *)
(* the loops run, and which pipes join what they run.                      *)
(*                                                                         *)
(* Walk follows the loops over the cells of a line: at which place each    *)
(* cell is fetched (Mode) and what has been run by then.  told does the    *)
(* same over the tokens of the line, for what the users mean.  Both are    *)
(* folds; Reached compares them token by token, and RunInv says that the   *)
(* loops are where the walk over the cells so far leads.                   *)
(*                                                                         *)
(* The second half follows the output of each command to the command that  *)
(* reads it: from the ring of numbered pipes, or from the command before,  *)
(* to the command in hand and then to its child.  JoinInv says where it is *)
(* on the way; every child's output is where the line says (Sends), and    *)
(* every two children are joined as the line says (Joint).                 *)
(*                                                                         *)
(* They rest on the cells of LineProofs, and on its types of the shell's   *)
(* tables.                                                                 *)
(***************************************************************************)
EXTENDS LineProofs

-----------------------------------------------------------------------------
(* What the loops make of the cells, one after the other.  A loop is at    *)
(* one of its places; "file" is where np_simple is behind the file of a    *)
(* ">": at the event, but the instruction must end here.  Otherwise it has *)
(* taken an operator for a command, or a word for an operator, and is      *)
(* astray.                                                                 *)

Mode == {"event", "file", "operator", "skip", "astray"}

ModeAfter(prog, mode, cell) ==
  CASE mode = "astray"                          -> "astray"
    [] mode # "astray" /\ cell = <<>>           -> "event"
    [] mode = "file" /\ cell # <<>>             -> "astray"
    [] mode = "skip" /\ cell # <<>>             -> "skip"
    [] mode = "event" /\ cell # <<>>            ->
         IF builtin(cell) /\ prog # "simple" THEN "skip" ELSE "operator"
    [] mode = "operator" /\ cell # <<>>         ->
         IF Head(cell).is \in Sign THEN "event"
         ELSE IF prog # "simple" THEN "operator"
         ELSE IF Head(cell).is = ">" THEN "file" ELSE "astray"

Took(prog, w, cell) ==
  [mode |-> ModeAfter(prog, w.mode, cell),
   ran  |-> IF w.mode = "event" /\ cell # <<>> THEN Append(w.ran, Head(cell)) ELSE w.ran]

Walker == [mode : Mode, ran : Seq(Token)]

At(mode, done) == [mode |-> mode, ran |-> done]

LEMMA TookType ==
  ASSUME NEW prog, NEW w \in Walker, NEW cell \in Seq(Token)
  PROVE  /\ Took(prog, w, cell) \in Walker
         /\ Took(prog, w, cell).mode = ModeAfter(prog, w.mode, cell)
         /\ Took(prog, w, cell).ran =
              IF w.mode = "event" /\ cell # <<>> THEN Append(w.ran, Head(cell)) ELSE w.ran
<1>1. w.mode \in Mode /\ w.ran \in Seq(Token)
  BY DEF Walker
<1>2. ModeAfter(prog, w.mode, cell) \in Mode
  BY <1>1 DEF ModeAfter, Mode
<1>3. cell # <<>> => Append(w.ran, Head(cell)) \in Seq(Token)
  BY <1>1
<1>4. QED
  BY <1>1, <1>2, <1>3 DEF Took, Walker

Walk(prog, w, cells) ==
  CHOOSE f : Grows(f, Len(cells), Walker, w,
                   [i \in 1..Len(cells) |-> [v \in Walker |-> Took(prog, v, cells[i])]])

Walks(f, prog, w, cells, N) ==
  /\ f \in [0..N -> Walker] /\ f[0] = w
  /\ \A i \in 0..(N - 1) : f[i + 1] = Took(prog, f[i], cells[i + 1])

LEMMA WalkDef ==
  ASSUME NEW prog, NEW w \in Walker, NEW cells \in Seq(Seq(Token)), NEW N \in Nat, N = Len(cells)
  PROVE  Walks(Walk(prog, w, cells), prog, w, cells, N)
<1> DEFINE F == [i \in 1..N |-> [v \in Walker |-> Took(prog, v, cells[i])]]
           f == Walk(prog, w, cells)
<1>1. F \in [1..N -> [Walker -> Walker]]
  <2>1. \A i \in 1..N : cells[i] \in Seq(Token)
    OBVIOUS
  <2>2. \A i \in 1..N : \A v \in Walker : Took(prog, v, cells[i]) \in Walker
    BY <2>1, TookType, Zenon
  <2>3. QED
    BY <2>2
<1>2. \A i \in 1..N : \A v \in Walker : F[i][v] = Took(prog, v, cells[i])
  OBVIOUS
<1>3. f = CHOOSE g : Grows(g, N, Walker, w, F)
  BY DEF Walk
<1> HIDE DEF F, f
<1>4. Grows(f, N, Walker, w, F)
  <2>1. \E g : Grows(g, N, Walker, w, F)
    BY <1>1, Recursion, Zenon
  <2>2. QED
    BY <1>3, <2>1, Zenon
<1>5. f \in [0..N -> Walker] /\ f[0] = w
  BY <1>4 DEF Grows
<1>6. ASSUME NEW i \in 0..(N - 1) PROVE f[i + 1] = Took(prog, f[i], cells[i + 1])
  <2>1. i \in 0..N /\ i + 1 \in 1..N
    OBVIOUS
  <2>2. f[i + 1] = F[i + 1][f[i]] /\ f[i] \in Walker
    BY <1>4, <1>5, <2>1 DEF Grows
  <2>3. QED
    BY <1>2, <2>1, <2>2, Zenon
<1>7. Walks(f, prog, w, cells, N)
  BY <1>5, <1>6 DEF Walks
<1>8. QED
  BY <1>7 DEF f

(* A walk goes on over more cells as it would have begun there.            *)
Within(ds, k, cells, M) == k + M <= Len(ds) /\ \A j \in 1..M : ds[k + j] = cells[j]

Same(g, k, f, M) == \A j \in 0..M : g[k + j] = f[j]

LEMMA WalkOn ==
  ASSUME NEW prog, NEW u \in Walker, NEW w \in Walker,
         NEW cells \in Seq(Seq(Token)), NEW ds \in Seq(Seq(Token)),
         NEW k \in Nat, NEW M \in Nat, M = Len(cells), Within(ds, k, cells, M),
         Walk(prog, u, ds)[k] = w
  PROVE  Same(Walk(prog, u, ds), k, Walk(prog, w, cells), M)
<1>0. Len(ds) \in Nat
  BY LenProperties
<1>1. Walks(Walk(prog, w, cells), prog, w, cells, M)
  BY WalkDef, Zenon
<1>2. Walks(Walk(prog, u, ds), prog, u, ds, Len(ds))
  BY <1>0, WalkDef, Zenon
<1> DEFINE f == Walk(prog, w, cells)
           g == Walk(prog, u, ds)
           N == Len(ds)
           S == {j \in 0..M : g[k + j] = f[j]}
<1> HIDE DEF f, g, N
<1>4. /\ g[k] = w /\ f[0] = w /\ N \in Nat /\ k + M <= N
      /\ \A i \in 0..(M - 1) : f[i + 1] = Took(prog, f[i], cells[i + 1])
      /\ \A i \in 0..(N - 1) : g[i + 1] = Took(prog, g[i], ds[i + 1])
  BY <1>0, <1>1, <1>2, Zenon DEF Walks, Within, f, g, N
<1>5. 0 \in S
  <2>1. k + 0 = k /\ 0 \in 0..M
    OBVIOUS
  <2>2. QED
    BY <1>4, <2>1
<1>6. ASSUME NEW j \in 0..(M - 1), j \in S PROVE j + 1 \in S
  <2>1. /\ k + j \in 0..(N - 1) /\ (k + j) + 1 = k + (j + 1) /\ j + 1 \in 1..M
        /\ j + 1 \in 0..M
    BY <1>4
  <2>2. g[k + (j + 1)] = Took(prog, g[k + j], ds[k + (j + 1)]) /\ ds[k + (j + 1)] = cells[j + 1]
    BY <1>4, <2>1 DEF Within
  <2>3. QED
    BY <1>4, <1>6, <2>1, <2>2
<1> HIDE DEF S
<1>7. 0..M \subseteq S
  BY <1>5, <1>6, Inductive
<1>8. QED
  BY <1>7 DEF S, f, g, Same

Through(prog, w, cells) == Walk(prog, w, cells)[Len(cells)]

LEMMA ThroughNone ==
  ASSUME NEW prog, NEW w \in Walker
  PROVE  Through(prog, w, <<>>) = w
<1>1. <<>> \in Seq(Seq(Token)) /\ Len(<<>>) = 0
  BY EmptySeq
<1>2. Walks(Walk(prog, w, <<>>), prog, w, <<>>, 0)
  BY <1>1, WalkDef
<1>3. QED
  BY <1>1, <1>2 DEF Through, Walks

LEMMA ThroughMore ==
  ASSUME NEW prog, NEW w \in Walker, NEW cells \in Seq(Seq(Token)), NEW c \in Seq(Token)
  PROVE  /\ Through(prog, w, cells) \in Walker
         /\ Through(prog, w, Append(cells, c)) = Took(prog, Through(prog, w, cells), c)
<1>1. PICK N \in Nat : N = Len(cells)
  BY LenProperties
<1>2. PICK ds \in Seq(Seq(Token)) : ds = Append(cells, c)
  BY AppendProperties
<1>3. Len(ds) = N + 1 /\ ds[N + 1] = c /\ \A j \in 1..N : ds[j] = cells[j]
  BY <1>1, <1>2, AppendProperties
<1>4. Walk(prog, w, cells)[N] \in Walker
  <2>1. Walks(Walk(prog, w, cells), prog, w, cells, N)
    BY <1>1, WalkDef, Zenon
  <2>2. QED
    BY <2>1 DEF Walks
<1>5. Walks(Walk(prog, w, ds), prog, w, ds, N + 1)
  <2>1. N + 1 \in Nat /\ N + 1 = Len(ds)
    BY <1>3
  <2>2. QED
    BY <2>1, WalkDef, Zenon
<1>6. /\ Walk(prog, w, ds)[N + 1] = Took(prog, Walk(prog, w, ds)[N], ds[N + 1])
      /\ Walk(prog, w, ds)[0] = w
  <2>1. N \in 0..((N + 1) - 1)
    OBVIOUS
  <2>2. QED
    BY <1>5, <2>1 DEF Walks
<1>7. Walk(prog, w, ds)[N] = Walk(prog, w, cells)[N]
  <2>1. 0 \in Nat /\ Within(ds, 0, cells, N)
    BY <1>3 DEF Within
  <2>2. Same(Walk(prog, w, ds), 0, Walk(prog, w, cells), N)
    BY <1>1, <1>6, <2>1, WalkOn, Zenon
  <2>3. 0 + N = N /\ N \in 0..N
    OBVIOUS
  <2>4. QED
    BY <2>2, <2>3 DEF Same
<1>8. Through(prog, w, cells) = Walk(prog, w, cells)[N]
  BY <1>1 DEF Through
<1>9. Through(prog, w, ds) = Walk(prog, w, ds)[N + 1]
  BY <1>3 DEF Through
<1>10. QED
  BY <1>2, <1>3, <1>4, <1>6, <1>7, <1>8, <1>9

-----------------------------------------------------------------------------
(* What a line means, token by token.                                      *)

told(prog, line) ==
  LET to[i \in 0..Len(line)] ==
        IF i = 0 THEN <<>>
        ELSE IF CommandAt(prog, line, i) /\ ~LeftOut(prog, line, i)
             THEN Append(to[i - 1], line[i]) ELSE to[i - 1]
  IN  to

ToldNext(prog, line, done, i) ==
  IF CommandAt(prog, line, i) /\ ~LeftOut(prog, line, i) THEN Append(done, line[i]) ELSE done

Tells(f, prog, line, N) ==
  /\ f \in [0..N -> Seq(Token)] /\ f[0] = <<>>
  /\ \A i \in 0..(N - 1) : f[i + 1] = ToldNext(prog, line, f[i], i + 1)

LEMMA ToldDef ==
  ASSUME NEW prog, NEW line \in Seq(Token), NEW N \in Nat, N = Len(line)
  PROVE  Tells(told(prog, line), prog, line, N)
<1> DEFINE u == told(prog, line)
           E(f) == f = [i \in 0..N |->
                         IF i = 0 THEN <<>>
                         ELSE IF CommandAt(prog, line, i) /\ ~LeftOut(prog, line, i)
                              THEN Append(f[i - 1], line[i]) ELSE f[i - 1]]
<1>1. \A i \in 1..N : line[i] \in Token
  OBVIOUS
<1>2. E(u) <=> E(CHOOSE f : E(f))
  BY DEF told
<1>3. PICK c : /\ c \in [0..N -> Seq(Token)] /\ c[0] = <<>>
               /\ \A i \in 0..(N - 1) : c[i + 1] = ToldNext(prog, line, c[i], i + 1)
  <2> DEFINE F == [i \in 1..N |-> [s \in Seq(Token) |-> ToldNext(prog, line, s, i)]]
  <2>1. \A i \in 1..N : \A s \in Seq(Token) : ToldNext(prog, line, s, i) \in Seq(Token)
    BY <1>1 DEF ToldNext
  <2>2. F \in [1..N -> [Seq(Token) -> Seq(Token)]]
    BY <2>1
  <2>3. \A i \in 1..N : \A s \in Seq(Token) : F[i][s] = ToldNext(prog, line, s, i)
    OBVIOUS
  <2> HIDE DEF F
  <2>4. PICK c : Grows(c, N, Seq(Token), <<>>, F)
    <3>1. <<>> \in Seq(Token)
      BY EmptySeq
    <3>2. QED
      BY <2>2, <3>1, Recursion, Zenon
  <2>5. ASSUME NEW i \in 0..(N - 1) PROVE c[i + 1] = ToldNext(prog, line, c[i], i + 1)
    <3>1. i \in 0..N /\ i + 1 \in 1..N
      OBVIOUS
    <3>2. c[i] \in Seq(Token) /\ c[i + 1] = F[i + 1][c[i]]
      BY <2>4, <3>1, Zenon DEF Grows
    <3>3. QED
      BY <2>3, <3>1, <3>2, Zenon
  <2>6. QED
    BY <2>4, <2>5, Zenon DEF Grows
<1>4. \A i \in 0..N : c[i] = IF i = 0 THEN <<>>
                             ELSE IF CommandAt(prog, line, i) /\ ~LeftOut(prog, line, i)
                                  THEN Append(c[i - 1], line[i]) ELSE c[i - 1]
  <2>1. ASSUME NEW i \in 0..N, i # 0 PROVE c[i] = ToldNext(prog, line, c[i - 1], i)
    <3>1. i - 1 \in 0..(N - 1) /\ (i - 1) + 1 = i
      BY <2>1
    <3>2. QED
      BY <1>3, <3>1
  <2>2. QED
    BY <1>3, <2>1, Zenon DEF ToldNext
<1>5. E(c)
  <2>1. c = [i \in 0..N |-> c[i]]
    BY <1>3
  <2>2. QED
    BY <1>4, <2>1, Zenon
<1>6. E(u)
  BY <1>2, <1>5, Zenon
<1> HIDE DEF u
<1>7. /\ u = [i \in 0..N |-> u[i]]
      /\ \A i \in 0..N : u[i] = IF i = 0 THEN <<>>
                                ELSE IF CommandAt(prog, line, i) /\ ~LeftOut(prog, line, i)
                                     THEN Append(u[i - 1], line[i]) ELSE u[i - 1]
  BY <1>6, Zenon
<1>8. u[0] = <<>>
  <2>1. 0 \in 0..N
    OBVIOUS
  <2>2. QED
    BY <1>7, <2>1, Zenon
<1>9. ASSUME NEW i \in 0..(N - 1) PROVE u[i + 1] = ToldNext(prog, line, u[i], i + 1)
  <2>1. i + 1 \in 0..N /\ i + 1 # 0 /\ (i + 1) - 1 = i
    OBVIOUS
  <2>2. QED
    BY <1>7, <2>1, Zenon DEF ToldNext
<1> DEFINE S == {i \in 0..N : u[i] \in Seq(Token)}
<1>10. 0 \in S
  <2>1. 0 \in 0..N /\ <<>> \in Seq(Token)
    BY EmptySeq
  <2>2. QED
    BY <1>8, <2>1
<1>11. ASSUME NEW n \in 0..(N - 1), n \in S PROVE n + 1 \in S
  <2>1. n + 1 \in 0..N /\ n + 1 \in 1..N
    OBVIOUS
  <2>2. line[n + 1] \in Token /\ u[n] \in Seq(Token)
    BY <1>1, <1>11, <2>1
  <2>3. Append(u[n], line[n + 1]) \in Seq(Token)
    BY <2>2
  <2>4. u[n + 1] = ToldNext(prog, line, u[n], n + 1)
    BY <1>9
  <2>5. u[n + 1] \in Seq(Token)
    BY <2>2, <2>3, <2>4 DEF ToldNext
  <2>6. QED
    BY <2>1, <2>5
<1> HIDE DEF S
<1>12. 0..N \subseteq S
  BY <1>10, <1>11, Inductive
<1>13. \A i \in 0..N : u[i] \in Seq(Token)
  BY <1>12 DEF S
<1>14. u \in [0..N -> Seq(Token)]
  BY <1>7, <1>13
<1>15. QED
  BY <1>8, <1>9, <1>14 DEF u, Tells

LEMMA CommandsAre == \A prog, line : Commands(prog, line) = told(prog, line)[Len(line)]
BY DEF Commands, told

(* A numbered pipe lets the next command run again.                        *)
LEMMA LeftNext ==
  ASSUME NEW prog, NEW line \in Seq(Token), NEW i \in Nat, i < Len(line)
  PROVE  LeftOut(prog, line, i + 2) <=>
           /\ Class(line[i + 1]) # "NUMPIPE"
           /\ \/ LeftOut(prog, line, i + 1)
              \/ prog # "simple" /\ CommandAt(prog, line, i + 1) /\ line[i + 1].is \in BuiltIn
<1> DEFINE K(j) == Cardinality(NumAt(line, j))
<1>1. \A j \in 1..(i + 2) : Instruction(line, j) = K(j - 1)
  BY DEF Instruction, NumAt
<1>2. /\ K(i) \in Nat /\ K(i + 1) = K(i) + (IF Class(line[i + 1]) = "NUMPIPE" THEN 1 ELSE 0)
      /\ IsFiniteSet(NumAt(line, i))
  BY NumAtNext
<1>3. ASSUME NEW j \in 0..i PROVE K(j) \in Nat /\ K(j) <= K(i)
  <2>1. NumAt(line, j) \subseteq NumAt(line, i)
    BY DEF NumAt
  <2>2. QED
    BY <1>2, <2>1, FS_Subset, FS_CardinalityType
<1> HIDE DEF K
<1>4. \A j \in 1..(i + 1) : j - 1 \in 0..i /\ j \in 1..(i + 2)
  OBVIOUS
<1>5. \A j \in 1..(i + 1) : Instruction(line, j) = K(j - 1) /\ K(j - 1) \in Nat /\ K(j - 1) <= K(i)
  BY <1>1, <1>3, <1>4
<1>6. /\ Instruction(line, i + 1) = K(i) /\ Instruction(line, i + 2) = K(i + 1)
      /\ (i + 2) - 1 = i + 1 /\ (i + 1) - 1 = i
  <2>1. i + 1 \in 1..(i + 2) /\ i + 2 \in 1..(i + 2) /\ (i + 2) - 1 = i + 1 /\ (i + 1) - 1 = i
    OBVIOUS
  <2>2. QED
    BY <1>1, <2>1
<1>7. LeftOut(prog, line, i + 2) <=>
        /\ prog # "simple"
        /\ \E j \in 1..(i + 1) : /\ CommandAt(prog, line, j) /\ line[j].is \in BuiltIn
                                 /\ Instruction(line, j) = K(i + 1)
  BY <1>6 DEF LeftOut
<1>8. LeftOut(prog, line, i + 1) <=>
        /\ prog # "simple"
        /\ \E j \in 1..i : /\ CommandAt(prog, line, j) /\ line[j].is \in BuiltIn
                           /\ Instruction(line, j) = K(i)
  BY <1>6 DEF LeftOut
<1>9. CASE Class(line[i + 1]) = "NUMPIPE"
  <2>1. \A j \in 1..(i + 1) : Instruction(line, j) # K(i + 1)
    BY <1>2, <1>5, <1>9
  <2>2. QED
    BY <1>7, <1>9, <2>1
<1>10. CASE Class(line[i + 1]) # "NUMPIPE"
  <2>1. K(i + 1) = K(i)
    BY <1>2, <1>10
  <2>2. \A j : j \in 1..(i + 1) <=> j \in 1..i \/ j = i + 1
    OBVIOUS
  <2>3. QED
    BY <1>6, <1>7, <1>8, <1>10, <2>1, <2>2
<1>11. QED
  BY <1>9, <1>10

LEMMA LeftFirst == \A prog, line : ~LeftOut(prog, line, 1)
<1>1. \A j : j \notin 1..(1 - 1)
  OBVIOUS
<1>2. QED
  BY <1>1 DEF LeftOut

(* How far the loop gets with the cells of the tokens up to i, the open    *)
(* one included, when done had been run before the line.                   *)
Reached(s, done) ==
  LET w == Through(program, At("event", done), s.cells) IN
  IF s.open = <<>> THEN w ELSE Took(program, w, s.open)

Redirects(line, i) == program = "simple" /\ \E j \in 1..i : line[j].is = ">"

ReachedAt(s, line, i, done) ==
  /\ Reached(s, done) \in Walker
  /\ Reached(s, done).ran = done \o told(program, line)[i]
  /\ Reached(s, done).mode =
       IF LeftOut(program, line, i + 1) THEN "skip"
       ELSE IF s.at = "first" THEN "event"
       ELSE IF Redirects(line, i) THEN "file" ELSE "operator"

(* What one token adds to the meaning of its line.                         *)
LEMMA TokenMeans ==
  ASSUME program \in Programs, NEW line \in Seq(Token), Legal(line), ~Misread(program, line),
         NEW i \in Nat, i < Len(line), NEW s \in CutState, CellsOf(s, line, i)
  PROVE  LET t == line[i + 1] IN
         /\ t \in Token /\ <<t>> \in Seq(Token) /\ <<t>> # <<>> /\ Head(<<t>>) = t
         /\ s.at # "more" => t.is \in Word
         /\ t.is = "!" => t.n > 0
         /\ program = "simple" => ~(t.is \in {">", "<"} /\ t.n > 0)
         /\ CommandAt(program, line, i + 1) <=> s.at = "first"
         /\ told(program, line)[i] \in Seq(Token)
         /\ told(program, line)[i + 1] =
              IF s.at = "first" /\ ~LeftOut(program, line, i + 1)
              THEN Append(told(program, line)[i], t) ELSE told(program, line)[i]
         /\ LeftOut(program, line, i + 2) <=>
              /\ ~(t.is \in Sign /\ t.n > 0)
              /\ LeftOut(program, line, i + 1)
                   \/ (program # "simple" /\ s.at = "first" /\ t.is \in BuiltIn)
         /\ Redirects(line, i) => t.is \notin Operator
         /\ s.at = "first" => ~Redirects(line, i)
         /\ Redirects(line, i + 1) <=> Redirects(line, i) \/ (program = "simple" /\ t.is = ">")
<1> DEFINE t == line[i + 1]
<1>1. /\ t \in Token /\ i + 1 \in 1..Len(line) /\ (i + 1) - 1 = i /\ i \in 0..(Len(line) - 1)
      /\ (i > 0 => i \in 1..Len(line)) /\ i \in 0..Len(line) /\ Len(line) \in Nat
  BY LenProperties, ElementOfSeq
<1>2. <<t>> \in Seq(Token) /\ <<t>> # <<>> /\ Head(<<t>>) = t
  BY <1>1
<1>3. s.at = Where(line, i)
  BY DEF CellsOf
<1>4. /\ s.at # "more" => t.is \in Word
      /\ t.is = "!" => t.n > 0
  BY <1>1, <1>3, Follows
<1>5. program = "simple" => ~(t.is \in {">", "<"} /\ t.n > 0)
  BY <1>1, FollowsSimple
<1>6. s.at = "first" <=> i = 0 \/ line[i].is \in {"|", "!"}
  BY <1>3 DEF Where
<1>7. CommandAt(program, line, i + 1) <=> s.at = "first"
  BY <1>1, <1>6 DEF CommandAt, Legal
<1>8. Tells(told(program, line), program, line, Len(line))
  BY <1>1, ToldDef, Zenon
<1>9. /\ told(program, line)[i] \in Seq(Token)
      /\ told(program, line)[i + 1] = ToldNext(program, line, told(program, line)[i], i + 1)
  BY <1>1, <1>8, Zenon DEF Tells
<1>10. told(program, line)[i + 1] =
          IF s.at = "first" /\ ~LeftOut(program, line, i + 1)
          THEN Append(told(program, line)[i], t) ELSE told(program, line)[i]
  BY <1>7, <1>9, Zenon DEF ToldNext
<1>11. Class(t) = "NUMPIPE" <=> t.is \in Sign /\ t.n > 0
  BY <1>1, ClassOf DEF Sign
<1>12. LeftOut(program, line, i + 2) <=>
          /\ Class(t) # "NUMPIPE"
          /\ \/ LeftOut(program, line, i + 1)
             \/ program # "simple" /\ CommandAt(program, line, i + 1) /\ t.is \in BuiltIn
  BY LeftNext
<1>13. LeftOut(program, line, i + 2) <=>
          /\ ~(t.is \in Sign /\ t.n > 0)
          /\ LeftOut(program, line, i + 1)
               \/ (program # "simple" /\ s.at = "first" /\ t.is \in BuiltIn)
  BY <1>7, <1>11, <1>12, Zenon
<1>14. ASSUME NEW k \in 1..Len(line), NEW j \in 1..(k - 1), program = "simple", line[j].is = ">"
       PROVE  line[k].is \notin Operator
  <2>1. LegalIn(program, line) /\ j \in DOMAIN line /\ k \in DOMAIN line /\ j < k
    BY <1>14 DEF Legal
  <2>2. QED
    BY <1>14, <2>1 DEF Misread
<1>15. Redirects(line, i) => t.is \notin Operator
  <2>1. ASSUME NEW j \in 1..i, program = "simple", line[j].is = ">" PROVE t.is \notin Operator
    <3>1. i + 1 \in 1..Len(line) /\ j \in 1..((i + 1) - 1)
      BY <1>1
    <3>2. QED
      BY <1>14, <2>1, <3>1
  <2>2. QED
    BY <2>1 DEF Redirects
<1>16. s.at = "first" => ~Redirects(line, i)
  <2>1. ASSUME s.at = "first", NEW j \in 1..i, program = "simple", line[j].is = ">" PROVE FALSE
    <3>1. i > 0 /\ line[i].is \in {"|", "!"} /\ i \in 1..Len(line)
      BY <1>1, <1>6, <2>1
    <3>2. j # i
      BY <2>1, <3>1
    <3>3. j \in 1..(i - 1)
      BY <3>1, <3>2
    <3>4. line[i].is \notin Operator
      BY <1>14, <2>1, <3>1, <3>3
    <3>5. QED
      BY <3>1, <3>4 DEF Operator
  <2>2. QED
    BY <2>1 DEF Redirects
<1>17. Redirects(line, i + 1) <=> Redirects(line, i) \/ (program = "simple" /\ t.is = ">")
  <2>1. \A j : j \in 1..(i + 1) <=> j \in 1..i \/ j = i + 1
    OBVIOUS
  <2>2. QED
    BY <2>1 DEF Redirects
<1> HIDE DEF t
<1>18. QED
  BY <1>1, <1>2, <1>4, <1>5, <1>7, <1>9, <1>10, <1>13, <1>15, <1>16, <1>17, Zenon DEF t

(* A cell is taken as its first token says.                                *)
LEMMA TookHead ==
  ASSUME NEW prog, NEW w, NEW a, NEW b, a # <<>>, b # <<>>, Head(a) = Head(b)
  PROVE  Took(prog, w, a) = Took(prog, w, b)
BY DEF Took, ModeAfter, builtin

LEMMA TookCases ==
  ASSUME NEW w \in Walker, NEW c \in Seq(Token), c # <<>>
  PROVE  /\ w.mode = "skip" => Took(program, w, c) = w
         /\ w.mode = "event" => Took(program, w, c) =
              At(IF Head(c).is \in BuiltIn /\ program # "simple" THEN "skip" ELSE "operator",
                 Append(w.ran, Head(c)))
         /\ w.mode = "operator" => Took(program, w, c) =
              At(IF Head(c).is \in Sign THEN "event" ELSE IF program # "simple" THEN "operator"
                 ELSE IF Head(c).is = ">" THEN "file" ELSE "astray", w.ran)
<1>1. w = [mode |-> w.mode, ran |-> w.ran]
  BY DEF Walker
<1>2. CASE w.mode = "skip"
  BY <1>1, <1>2 DEF Took, ModeAfter
<1>3. CASE w.mode = "event"
  BY <1>3 DEF Took, ModeAfter, At, builtin
<1>4. CASE w.mode = "operator"
  BY <1>4 DEF Took, ModeAfter, At
<1>5. QED
  BY <1>2, <1>3, <1>4

LEMMA TookBlank ==
  ASSUME NEW w \in Walker, w.mode # "astray"
  PROVE  Took(program, w, <<>>) = At("event", w.ran)
BY DEF Took, ModeAfter, At

LEMMA AtIs ==
  ASSUME NEW mode \in Mode, NEW done \in Seq(Token)
  PROVE  At(mode, done) \in Walker /\ At(mode, done).mode = mode /\ At(mode, done).ran = done
BY DEF At, Walker

(* The cells of one more token.                                            *)
LEMMA TokenCut ==
  ASSUME program \in Programs, NEW line \in Seq(Token), Legal(line), NEW i \in Nat,
         i < Len(line), NEW s \in CutState, CellsOf(s, line, i)
  PROVE  LET t == line[i + 1]
             r == Tokenize(s, t)
             cs1 == Append(s.cells, s.open)
             cs2 == Append(cs1, <<t>>)
         IN  \/ s.at = "first" /\ r.cells = s.cells /\ r.open = <<t>>
             \/ /\ s.at # "first" /\ r.cells = s.cells /\ r.open = Append(s.open, t)
                /\ t.is \notin Sign \union {">"}
             \/ /\ s.at # "first" /\ r.cells = cs1 /\ r.open = <<t>>
                /\ t.is = ">" \/ (t.is = "<" /\ t.n > 0)
             \/ /\ s.at # "first" /\ r.open = <<>> /\ t.is \in Sign /\ r.at = "first"
                /\ r.cells = IF t.n = 0 THEN cs2 ELSE Append(cs2, <<>>)
<1> DEFINE t == line[i + 1]
           r == Tokenize(s, t)
<1>1. /\ t \in Token /\ i + 1 \in 1..Len(line) /\ (i + 1) - 1 = i
  BY LenProperties, ElementOfSeq
<1>2. s.open = <<>> <=> s.at = "first"
  BY DEF CellsOf
<1>3. s.at # "more" => t.is \in Word
  BY <1>1, Follows DEF CellsOf
<1>4. t.is \in Word => t.is \notin Operator
  BY <1>1, ClassOf
<1>5. s.at \in {"first", "more", "file"}
  BY DEF CutState
<1> HIDE DEF t
<1>6. CASE s.at = "first"
  <2>1. s.open = <<>> /\ Append(<<>>, t) = <<t>>
    BY <1>2, <1>6
  <2>2. QED
    BY <1>6, <2>1 DEF Tokenize, Added, CutState, t
<1>7. CASE s.at = "more" /\ t.is \in Sign
  <2>1. r = Piped(s, t)
    BY <1>7 DEF Tokenize, Sign
  <2>2. r.open = <<>> /\ r.at = "first"
    BY <2>1 DEF Piped, CutState
  <2>3. QED
    BY <1>1, <1>7, <2>1, <2>2, PipedIs DEF t
<1>8. CASE s.at = "more" /\ (t.is = ">" \/ (t.is = "<" /\ t.n > 0))
  BY <1>8 DEF Tokenize, Redirected, CutState, t
<1>9. CASE /\ s.at # "first" /\ ~(s.at = "more" /\ t.is \in Sign)
           /\ ~(s.at = "more" /\ (t.is = ">" \/ (t.is = "<" /\ t.n > 0)))
  <2>1. r = Added(s, t)
    BY <1>9 DEF Tokenize, Sign
  <2>2. t.is \notin Sign \union {">"}
    BY <1>3, <1>4, <1>5, <1>9 DEF Operator, Sign
  <2>3. QED
    BY <1>9, <2>1, <2>2 DEF Added, CutState, t
<1>10. QED
  BY <1>5, <1>6, <1>7, <1>8, <1>9 DEF t

LEMMA ReachedStep ==
  ASSUME program \in Programs, NEW line \in Seq(Token), Legal(line), ~Misread(program, line),
         NEW i \in Nat, i < Len(line), NEW s \in CutState, CellsOf(s, line, i),
         NEW done \in Seq(Token), ReachedAt(s, line, i, done)
  PROVE  ReachedAt(Tokenize(s, line[i + 1]), line, i + 1, done)
<1> DEFINE t == line[i + 1]
           r == Tokenize(s, t)
           w == Through(program, At("event", done), s.cells)
           v == Reached(s, done)
           u == Reached(r, done)
           cs1 == Append(s.cells, s.open)
           cs2 == Append(cs1, <<t>>)
           a == told(program, line)[i]
           b == told(program, line)[i + 1]
           left == LeftOut(program, line, i + 1)
           over == LeftOut(program, line, i + 2)
           redirects == Redirects(line, i)
           begun == At("event", done)
<1>1. /\ t \in Token /\ <<t>> \in Seq(Token) /\ <<t>> # <<>> /\ Head(<<t>>) = t
      /\ s.at # "more" => t.is \in Word
      /\ t.is = "!" => t.n > 0
      /\ program = "simple" => ~(t.is \in {">", "<"} /\ t.n > 0)
      /\ a \in Seq(Token)
      /\ b = IF s.at = "first" /\ ~left THEN Append(a, t) ELSE a
      /\ over <=> /\ ~(t.is \in Sign /\ t.n > 0)
                  /\ left \/ (program # "simple" /\ s.at = "first" /\ t.is \in BuiltIn)
      /\ redirects => t.is \notin Operator
      /\ s.at = "first" => ~redirects
      /\ Redirects(line, i + 1) <=> redirects \/ (program = "simple" /\ t.is = ">")
  BY TokenMeans, Zenon
<1>2. /\ s.cells \in Seq(Seq(Token)) /\ s.open \in Seq(Token) /\ r \in CutState
  BY <1>1, TokenizeType DEF CutState
<1>3. s.open = <<>> <=> s.at = "first"
  BY DEF CellsOf
<1>4. r.open = <<>> <=> r.at = "first"
  <2>1. CellsOf(r, line, i + 1)
    BY CutStep, Zenon
  <2>2. QED
    BY <2>1, Zenon DEF CellsOf
<1>5. /\ v \in Walker /\ v.ran = done \o a
      /\ v.mode = IF left THEN "skip" ELSE IF s.at = "first" THEN "event"
                  ELSE IF redirects THEN "file" ELSE "operator"
  BY DEF ReachedAt
<1>6. t.n \in Nat /\ (t.is \in Word => t.is \notin Operator) /\ t.is \in Word \union Operator
  BY <1>1, ClassOf
<1>7. begun \in Walker
  BY AtIs DEF Mode
<1>8. w \in Walker
  BY <1>2, <1>7, ThroughMore
<1>9. v = IF s.open = <<>> THEN w ELSE Took(program, w, s.open)
  BY DEF Reached
<1>10. u = IF r.open = <<>> THEN Through(program, begun, r.cells)
           ELSE Took(program, Through(program, begun, r.cells), r.open)
  BY DEF Reached
<1>11. Through(program, begun, cs1) = Took(program, w, s.open) /\ cs1 \in Seq(Seq(Token))
  BY <1>2, <1>7, ThroughMore
<1>12. Through(program, begun, cs2) = Took(program, Through(program, begun, cs1), <<t>>)
       /\ cs2 \in Seq(Seq(Token)) /\ Through(program, begun, cs2) \in Walker
  <2>1. cs1 \in Seq(Seq(Token)) /\ <<t>> \in Seq(Token)
    BY <1>1, <1>11
  <2> HIDE DEF cs1, t, begun
  <2>2. cs2 \in Seq(Seq(Token))
    BY <2>1
  <2>3. QED
    BY <1>7, <2>1, <2>2, ThroughMore, Zenon
<1>13. Through(program, begun, Append(cs2, <<>>)) = Took(program, Through(program, begun, cs2), <<>>)
  <2>1. <<>> \in Seq(Token)
    BY EmptySeq
  <2>2. QED
    BY <1>7, <1>12, <2>1, ThroughMore
<1>14. \/ s.at = "first" /\ r.cells = s.cells /\ r.open = <<t>>
       \/ /\ s.at # "first" /\ r.cells = s.cells /\ r.open = Append(s.open, t)
          /\ t.is \notin Sign \union {">"}
       \/ /\ s.at # "first" /\ r.cells = cs1 /\ r.open = <<t>>
          /\ t.is = ">" \/ (t.is = "<" /\ t.n > 0)
       \/ /\ s.at # "first" /\ r.open = <<>> /\ t.is \in Sign /\ r.at = "first"
          /\ r.cells = IF t.n = 0 THEN cs2 ELSE Append(cs2, <<>>)
  BY TokenCut, Zenon
<1>15. done \o a \in Seq(Token) /\ Append(done \o a, t) = done \o Append(a, t)
  <2> HIDE DEF t, a
  <2>1. done \o a \in Seq(Token) /\ t \in Token /\ a \in Seq(Token)
    BY <1>1, ConcatProperties
  <2>2. done \o Append(a, t) = (done \o a) \o <<t>>
    BY <2>1, ConcatAppend
  <2>3. Append(done \o a, t) = (done \o a) \o <<t>>
    BY <2>1, AppendIsConcat
  <2>4. QED
    BY <2>1, <2>2, <2>3
<1>16. /\ v.mode = "skip" => Took(program, v, <<t>>) = v
       /\ v.mode = "event" => Took(program, v, <<t>>) =
            At(IF t.is \in BuiltIn /\ program # "simple" THEN "skip" ELSE "operator",
               Append(v.ran, t))
       /\ v.mode = "operator" => Took(program, v, <<t>>) =
            At(IF t.is \in Sign THEN "event" ELSE IF program # "simple" THEN "operator"
               ELSE IF t.is = ">" THEN "file" ELSE "astray", v.ran)
  BY <1>1, <1>5, TookCases
<1>17. SUFFICES /\ u \in Walker /\ u.ran = done \o b
                /\ u.mode = IF over THEN "skip" ELSE IF r.at = "first" THEN "event"
                            ELSE IF Redirects(line, i + 1) THEN "file" ELSE "operator"
  <2>1. (i + 1) + 1 = i + 2
    OBVIOUS
  <2> HIDE DEF u
  <2>2. QED
    BY <1>17, <2>1, Zenon DEF ReachedAt, u
<1> HIDE DEF t, r, w, v, u, cs1, cs2, a, b, left, over, redirects, begun
<1>20. CASE s.at = "first" /\ r.cells = s.cells /\ r.open = <<t>>
  <2>1. u = Took(program, v, <<t>>) /\ r.at # "first"
    <3>1. r.open # <<>> /\ s.open = <<>>
      BY <1>1, <1>3, <1>20
    <3>2. u = Took(program, Through(program, begun, s.cells), <<t>>)
      BY <1>10, <1>20, <3>1
    <3>3. w = Through(program, begun, s.cells)
      BY DEF w, begun
    <3>4. QED
      BY <1>4, <1>9, <3>1, <3>2, <3>3
  <2>2. t.is \notin Operator
    BY <1>1, <1>6, <1>20
  <2>3. CASE left
    BY <1>1, <1>5, <1>16, <1>20, <2>1, <2>2, <2>3 DEF Operator, Sign
  <2>4. CASE ~left
    <3> DEFINE mode == IF t.is \in BuiltIn /\ program # "simple" THEN "skip" ELSE "operator"
    <3>1. u = At(mode, done \o b)
      BY <1>1, <1>5, <1>15, <1>16, <1>20, <2>1, <2>4
    <3>2. mode \in Mode /\ done \o b \in Seq(Token)
      BY <1>1, <1>15, AppendProperties, ConcatProperties DEF Mode
    <3> HIDE DEF mode
    <3>3. u \in Walker /\ u.mode = mode /\ u.ran = done \o b
      BY <3>1, <3>2, AtIs
    <3>4. QED
      BY <1>1, <1>20, <2>1, <2>2, <2>4, <3>3 DEF mode, Operator, Sign
  <2>5. QED
    BY <2>3, <2>4
<1>21. CASE /\ s.at # "first" /\ r.cells = s.cells /\ r.open = Append(s.open, t)
            /\ t.is \notin Sign \union {">"}
  <2>1. s.open # <<>> /\ Append(s.open, t) # <<>> /\ Head(Append(s.open, t)) = Head(s.open)
    <3>1. s.open # <<>> /\ s.open \in Seq(Token) /\ t \in Token
      BY <1>1, <1>2, <1>3, <1>21
    <3>2. QED
      BY <3>1, HeadTailAppend
  <2>2. u = v /\ r.at # "first"
    <3>1. Took(program, w, r.open) = Took(program, w, s.open)
      BY <1>21, <2>1, TookHead
    <3>2. QED
      <4>1. r.open # <<>>
        BY <1>21, <2>1
      <4>2. u = Took(program, Through(program, begun, s.cells), r.open)
        BY <1>10, <1>21, <4>1
      <4>3. w = Through(program, begun, s.cells)
        BY DEF w, begun
      <4>4. QED
        BY <1>4, <1>9, <2>1, <3>1, <4>1, <4>2, <4>3
  <2>3. QED
    BY <1>1, <1>5, <1>21, <2>2
<1>22. CASE /\ s.at # "first" /\ r.cells = cs1 /\ r.open = <<t>>
            /\ t.is = ">" \/ (t.is = "<" /\ t.n > 0)
  <2>1. u = Took(program, v, <<t>>) /\ r.at # "first"
    BY <1>1, <1>3, <1>4, <1>9, <1>10, <1>11, <1>22
  <2>2. ~redirects /\ t.is \notin Sign
    BY <1>1, <1>22 DEF Operator, Sign
  <2>3. CASE left
    BY <1>1, <1>5, <1>16, <1>22, <2>1, <2>2, <2>3
  <2>4. CASE ~left
    <3> DEFINE mode == IF program # "simple" THEN "operator" ELSE "file"
    <3>1. u = At(mode, done \o b)
      BY <1>1, <1>5, <1>16, <1>22, <2>1, <2>2, <2>4
    <3>2. mode \in Mode /\ done \o b \in Seq(Token)
      BY <1>1, <1>15, <1>22 DEF Mode
    <3> HIDE DEF mode
    <3>3. u \in Walker /\ u.mode = mode /\ u.ran = done \o b
      BY <3>1, <3>2, AtIs
    <3>4. QED
      BY <1>1, <1>22, <2>1, <2>2, <2>4, <3>3 DEF mode
  <2>5. QED
    BY <2>3, <2>4
<1>23. CASE /\ s.at # "first" /\ r.open = <<>> /\ t.is \in Sign /\ r.at = "first"
            /\ r.cells = IF t.n = 0 THEN cs2 ELSE Append(cs2, <<>>)
  <2> DEFINE x == Through(program, begun, cs2)
  <2>1. x = Took(program, v, <<t>>) /\ x \in Walker
    BY <1>3, <1>9, <1>11, <1>12, <1>23
  <2>2. ~redirects /\ b = a
    BY <1>1, <1>23 DEF Operator, Sign
  <2>3. x.ran = done \o b /\ x.mode = IF left THEN "skip" ELSE "event"
    <3>1. CASE left
      BY <1>5, <1>16, <2>1, <2>2, <3>1
    <3>2. CASE ~left
      <4>1. x = At("event", done \o b)
        BY <1>5, <1>16, <1>23, <2>1, <2>2, <3>2
      <4>2. QED
        <5>1. "event" \in Mode /\ done \o b \in Seq(Token)
          BY <1>15, <2>2 DEF Mode
        <5> HIDE DEF x
        <5>2. QED
          BY <3>2, <4>1, <5>1, AtIs
    <3>3. QED
      BY <3>1, <3>2
  <2>4. CASE t.n = 0
    <3>1. u = x
      BY <1>10, <1>23, <2>4
    <3>2. QED
      <4>1. ~(t.is \in Sign /\ t.n > 0)
        BY <2>4
      <4>2. over <=> left
        BY <1>1, <1>23, <4>1
      <4> HIDE DEF x
      <4>3. QED
        BY <1>23, <2>1, <2>3, <3>1, <4>2, Zenon
  <2>5. CASE t.n > 0
    <3>1. u = Took(program, x, <<>>)
      BY <1>10, <1>13, <1>23, <2>5
    <3> HIDE DEF x
    <3>2. u = At("event", done \o b)
      BY <2>1, <2>3, <3>1, TookBlank
    <3>3. u \in Walker /\ u.mode = "event" /\ u.ran = done \o b
      BY <1>15, <2>2, <3>2, AtIs DEF Mode
    <3>4. QED
      BY <1>1, <1>23, <2>5, <3>3
  <2>6. QED
    BY <1>6, <2>4, <2>5
<1>24. QED
  BY <1>14, <1>20, <1>21, <1>22, <1>23, Zenon

LEMMA ReachedAll ==
  ASSUME program \in Programs, NEW line \in Seq(Token), Legal(line), ~Misread(program, line),
         NEW done \in Seq(Token)
  PROVE  ReachedAt(Cut(line)[Len(line)], line, Len(line), done)
<1> DEFINE N == Len(line)
           S == {i \in 0..N : CellsOf(Cut(line)[i], line, i)
                                /\ ReachedAt(Cut(line)[i], line, i, done)}
<1>1. N \in Nat
  BY LenProperties
<1>2. /\ \A i \in 0..N : Cut(line)[i] \in CutState
      /\ Cut(line)[0] = Begin
      /\ \A i \in 0..(N - 1) : Cut(line)[i + 1] = Tokenize(Cut(line)[i], line[i + 1])
  BY <1>1, CutDef
<1>3. 0 \in S
  <2>1. CellsOf(Begin, line, 0)
    BY BeginCells
  <2>2. Begin.cells = <<>> /\ Begin.open = <<>> /\ Begin.at = "first"
    BY DEF Begin
  <2>3. At("event", done) \in Walker /\ At("event", done).mode = "event"
        /\ At("event", done).ran = done
    BY AtIs DEF Mode
  <2> HIDE DEF Begin
  <2>4. Reached(Begin, done) = At("event", done)
    BY <2>2, <2>3, ThroughNone DEF Reached
  <2>5. told(program, line)[0] = <<>> /\ done \o <<>> = done
    <3>1. Tells(told(program, line), program, line, N)
      BY <1>1, ToldDef, Zenon
    <3>2. QED
      BY <3>1, ConcatEmptySeq DEF Tells
  <2>6. ~LeftOut(program, line, 0 + 1)
    BY LeftFirst
  <2>7. ReachedAt(Begin, line, 0, done)
    BY <2>2, <2>3, <2>4, <2>5, <2>6 DEF ReachedAt
  <2>8. 0 \in 0..N
    BY <1>1
  <2>9. QED
    BY <1>2, <2>1, <2>7, <2>8
<1>4. ASSUME NEW i \in 0..(N - 1), i \in S PROVE i + 1 \in S
  <2>1. /\ i \in Nat /\ i < N /\ i \in 0..N /\ i + 1 \in 0..N
        /\ Cut(line)[i] \in CutState /\ CellsOf(Cut(line)[i], line, i)
        /\ ReachedAt(Cut(line)[i], line, i, done)
    BY <1>1, <1>2, <1>4
  <2>2. CellsOf(Tokenize(Cut(line)[i], line[i + 1]), line, i + 1)
    BY <2>1, CutStep
  <2>3. ReachedAt(Tokenize(Cut(line)[i], line[i + 1]), line, i + 1, done)
    BY <2>1, ReachedStep, Zenon
  <2>4. QED
    BY <1>2, <2>1, <2>2, <2>3
<1> HIDE DEF S
<1>5. 0..N \subseteq S
  BY <1>1, <1>3, <1>4, Inductive
<1>6. N \in 0..N
  BY <1>1
<1>7. QED
  BY <1>5, <1>6 DEF S

Runs(cells, done, more) ==
  Through(program, At("event", done), cells) = At("event", done \o more) /\ more \in Seq(Token)

LEMMA LegalRuns ==
  ASSUME program \in Programs, NEW line \in Seq(Token), Legal(line), ~Misread(program, line),
         NEW done \in Seq(Token)
  PROVE  Runs(read_string(line).cells, done, Commands(program, line))
<1> DEFINE N == Len(line)
           s == Cut(line)[N]
           begun == At("event", done)
           v == Reached(s, done)
           a == told(program, line)[N]
           cells == read_string(line).cells
           cs1 == Append(s.cells, s.open)
<1>1. N \in Nat
  BY LenProperties
<1>2. s \in CutState /\ CellsOf(s, line, N)
  BY CutCells
<1>3. ReachedAt(s, line, N, done)
  BY ReachedAll
<1>4. Commands(program, line) = a /\ a \in Seq(Token) /\ done \o a \in Seq(Token)
  <2>1. Commands(program, line) = a
    BY CommandsAre
  <2>2. Tells(told(program, line), program, line, N)
    BY <1>1, ToldDef, Zenon
  <2>3. a \in Seq(Token)
    BY <1>1, <2>2 DEF Tells
  <2>4. QED
    BY <2>1, <2>3, ConcatProperties
<1>5. /\ v \in Walker /\ v.ran = done \o a
      /\ v.mode # "astray"
      /\ s.at = "first" => v.mode = IF LeftOut(program, line, N + 1) THEN "skip" ELSE "event"
  BY <1>3 DEF ReachedAt
<1>6. /\ s.cells \in Seq(Seq(Token)) /\ s.open \in Seq(Token) /\ s.ends \in 0..2
      /\ <<>> \in Seq(Token) /\ begun \in Walker
  BY <1>2, EmptySeq, AtIs DEF CutState, Mode
<1>7. /\ s.at = Where(line, N)
      /\ s.open = <<>> <=> s.at = "first"
      /\ s.ends = 2 <=> (N > 0 /\ Class(line[N]) = "NUMPIPE")
  BY <1>2 DEF CellsOf
<1>8. cells = (s.cells \o (IF s.open = <<>> THEN <<>> ELSE <<s.open>>))
                \o (IF s.ends < 2 THEN <<<<>>>> ELSE <<>>)
  BY DEF read_string, Finish
<1>9. v = IF s.open = <<>> THEN Through(program, begun, s.cells)
          ELSE Took(program, Through(program, begun, s.cells), s.open)
  BY DEF Reached
<1>10. Took(program, v, <<>>) = At("event", done \o a)
  BY <1>5, TookBlank
<1> HIDE DEF s, begun, v, a, cells, N
<1>11. Through(program, begun, cells) = At("event", done \o a)
  <2>1. CASE s.open = <<>> /\ s.ends = 2
    <3>1. cells = s.cells
      BY <1>6, <1>8, <2>1, ConcatEmptySeq
    <3>2. N - 1 \in Nat /\ N - 1 < Len(line) /\ (N - 1) + 1 = N /\ (N - 1) + 2 = N + 1
      BY <1>1, <1>7, <2>1 DEF N
    <3>3. LeftOut(program, line, (N - 1) + 2) <=>
            /\ Class(line[(N - 1) + 1]) # "NUMPIPE"
            /\ \/ LeftOut(program, line, (N - 1) + 1)
               \/ program # "simple" /\ CommandAt(program, line, (N - 1) + 1)
                    /\ line[(N - 1) + 1].is \in BuiltIn
      BY <3>2, LeftNext, Zenon
    <3>4. ~LeftOut(program, line, N + 1)
      BY <1>7, <2>1, <3>2, <3>3
    <3>5. v.mode = "event"
      BY <1>5, <1>7, <2>1, <3>4
    <3>6. v = At("event", done \o a)
      BY <1>5, <3>5 DEF Walker, At
    <3>7. QED
      BY <1>9, <2>1, <3>1, <3>6
  <2>2. CASE s.open = <<>> /\ s.ends # 2
    <3>1. cells = Append(s.cells, <<>>)
      <4>1. cells = (s.cells \o <<>>) \o <<<<>>>>
        <5>1. s.ends < 2
          BY <1>6, <2>2
        <5>2. QED
          BY <1>8, <2>2, <5>1, Zenon
      <4>2. QED
        BY <1>6, <4>1, ConcatEmptySeq, AppendIsConcat
    <3>2. Through(program, begun, cells) = Took(program, v, <<>>)
      BY <1>6, <1>9, <2>2, <3>1, ThroughMore
    <3>3. QED
      BY <1>10, <3>2
  <2>3. CASE s.open # <<>>
    <3>1. s.ends < 2
      <4>1. s.at # "first"
        BY <1>7, <2>3
      <4>2. N > 0 => line[N].is \notin {"|", "!"}
        BY <1>1, <1>7, <4>1 DEF Where
      <4>3. N > 0 => line[N] \in Token
        BY <1>1 DEF N
      <4>4. s.ends # 2
        BY <1>7, <4>2, <4>3, ClassOf
      <4>5. QED
        BY <1>6, <4>4
    <3>2. cs1 \in Seq(Seq(Token)) /\ cs1 = s.cells \o <<s.open>>
      BY <1>6, AppendIsConcat
    <3>3. cells = cs1 \o <<<<>>>>
      BY <1>8, <2>3, <3>1, <3>2
    <3>4. Through(program, begun, cs1) = v
      BY <1>6, <1>9, <2>3, ThroughMore
    <3> HIDE DEF cs1
    <3>5. cells = Append(cs1, <<>>)
      BY <1>6, <3>2, <3>3, AppendIsConcat
    <3>6. Through(program, begun, cells) = Took(program, v, <<>>)
      BY <1>6, <3>2, <3>4, <3>5, ThroughMore
    <3>7. QED
      BY <1>10, <3>6
  <2>4. QED
    BY <1>6, <2>1, <2>2, <2>3
<1>12. QED
  BY <1>4, <1>11 DEF Runs, begun, cells

(* A line that breaks the rules is one command.                            *)
LEMMA IllegalRuns ==
  ASSUME program \in Programs, NEW line \in Seq(Token), ~Legal(line), NEW done \in Seq(Token)
  PROVE  Runs(read_string(line).cells, done, Commands(program, line))
<1> DEFINE N == Len(line)
           begun == At("event", done)
           f == told(program, line)
           t == line[1]
           one == Append(<<>>, line)
           cells == Append(one, <<>>)
           S == {i \in 0..N : i > 0 => f[i] = Append(<<>>, t)}
<1>1. /\ line # <<>> /\ N \in Nat /\ N > 0 /\ t \in Token /\ Head(line) = t
      /\ <<>> \in Seq(Token) /\ <<>> \in Seq(Seq(Token)) /\ begun \in Walker
      /\ begun.mode = "event" /\ begun.ran = done
  <2>1. line # <<>>
    BY DEF Legal, LegalIn
  <2>2. N \in Nat /\ N > 0 /\ t \in Token /\ Head(line) = t
    BY <2>1, EmptySeq, LenProperties
  <2>3. QED
    BY <2>1, <2>2, EmptySeq, AtIs DEF Mode
<1>2. ~LegalIn(program, line)
  BY DEF Legal
<1>3. read_string(line).cells = cells
  <2>1. read_string(line).cells = <<line, <<>>>>
    BY DEF read_string
  <2>2. cells = <<line, <<>>>>
    BY <1>1, JustTwo, Zenon
  <2>3. QED
    BY <2>1, <2>2
<1>4. /\ f[0] = <<>>
      /\ \A i \in 0..(N - 1) : f[i + 1] = ToldNext(program, line, f[i], i + 1)
  <2>1. Tells(f, program, line, N)
    BY <1>1, ToldDef, Zenon
  <2>2. QED
    BY <2>1 DEF Tells
<1> HIDE DEF f, N, one, cells, begun
<1>5. 0 \in S
  BY <1>1
<1>6. ASSUME NEW i \in 0..(N - 1), i \in S PROVE i + 1 \in S
  <2>1. f[i + 1] = ToldNext(program, line, f[i], i + 1) /\ i + 1 \in 0..N
    BY <1>1, <1>4
  <2>2. CommandAt(program, line, i + 1) <=> i + 1 = 1
    BY <1>2 DEF CommandAt
  <2>3. CASE i = 0
    <3>1. CommandAt(program, line, 1) /\ ~LeftOut(program, line, 1) /\ 0 + 1 = 1
      BY <2>2, <2>3, LeftFirst
    <3>2. f[1] = Append(<<>>, t)
      BY <1>4, <2>1, <2>3, <3>1, Zenon DEF ToldNext
    <3>3. QED
      BY <2>1, <2>3, <3>2
  <2>4. CASE i # 0
    <3>1. ~CommandAt(program, line, i + 1)
      BY <2>2, <2>4
    <3>2. f[i + 1] = f[i]
      BY <2>1, <3>1, Zenon DEF ToldNext
    <3>3. f[i] = Append(<<>>, t)
      BY <1>1, <1>6, <2>4
    <3>4. QED
      BY <2>1, <3>2, <3>3
  <2>5. QED
    BY <2>3, <2>4
<1> HIDE DEF S
<1>7. 0..N \subseteq S
  BY <1>1, <1>5, <1>6, Inductive
<1>8. f[N] = Append(<<>>, t)
  <2>1. N \in S
    BY <1>1, <1>7
  <2>2. QED
    BY <1>1, <2>1 DEF S
<1>9. Commands(program, line) = Append(<<>>, t) /\ Append(<<>>, t) \in Seq(Token)
  <2>1. Commands(program, line) = f[N]
    BY CommandsAre DEF f, N
  <2>2. QED
    BY <1>1, <1>8, <2>1
<1>10. Through(program, begun, one) = Took(program, begun, line) /\ one \in Seq(Seq(Token))
  <2>1. Through(program, begun, <<>>) = begun
    BY <1>1, ThroughNone
  <2>2. Through(program, begun, one) = Took(program, Through(program, begun, <<>>), line)
    BY <1>1, ThroughMore DEF one
  <2>3. QED
    BY <1>1, <2>1, <2>2 DEF one
<1>11. Through(program, begun, cells) = Took(program, Took(program, begun, line), <<>>)
  <2>1. cells = Append(one, <<>>)
    BY DEF cells
  <2>2. Through(program, begun, Append(one, <<>>)) = Took(program, Through(program, begun, one), <<>>)
    BY <1>1, <1>10, ThroughMore, Zenon
  <2>3. QED
    BY <1>10, <2>1, <2>2, Zenon
<1> DEFINE mode == IF t.is \in BuiltIn /\ program # "simple" THEN "skip" ELSE "operator"
           x == At(mode, Append(done, t))
<1>12. Took(program, begun, line) = x
  BY <1>1, TookCases
<1>13. x \in Walker /\ x.mode # "astray" /\ x.ran = Append(done, t)
  <2>1. mode \in Mode /\ mode # "astray" /\ Append(done, t) \in Seq(Token)
    BY <1>1 DEF Mode
  <2> HIDE DEF mode
  <2>2. x \in Walker /\ x.mode = mode /\ x.ran = Append(done, t)
    BY <2>1, AtIs, Zenon
  <2>3. QED
    BY <2>1, <2>2, Zenon
<1> HIDE DEF x
<1>14. Through(program, begun, cells) = At("event", Append(done, t))
  BY <1>11, <1>12, <1>13, TookBlank
<1>15. done \o Append(<<>>, t) = Append(done, t)
  <2>1. done \o Append(<<>>, t) = (done \o <<>>) \o <<t>>
    BY <1>1, ConcatAppend
  <2>2. QED
    BY <1>1, <2>1, ConcatEmptySeq, AppendIsConcat
<1>16. QED
  BY <1>3, <1>9, <1>14, <1>15 DEF Runs, begun

-----------------------------------------------------------------------------
(* The commands of all lines.                                              *)

Meant(prog, ls) == FlattenSeq([l \in DOMAIN ls |-> Commands(prog, ls[l])])

LEMMA CommandsType ==
  ASSUME NEW prog, NEW line \in Seq(Token)
  PROVE  Commands(prog, line) \in Seq(Token)
<1>1. Len(line) \in Nat
  BY LenProperties
<1>2. Tells(told(prog, line), prog, line, Len(line))
  BY <1>1, ToldDef, Zenon
<1>3. told(prog, line)[Len(line)] \in Seq(Token)
  BY <1>1, <1>2 DEF Tells
<1>4. QED
  BY <1>3, CommandsAre

LEMMA MeantNone == ASSUME NEW prog PROVE Meant(prog, <<>>) = <<>>
<1>1. [l \in DOMAIN <<>> |-> Commands(prog, <<>>[l])] = <<>>
  OBVIOUS
<1>2. QED
  BY <1>1, FlatEmpty DEF Meant

LEMMA MeantAppend ==
  ASSUME NEW prog, NEW ls \in Seq(Seq(Token)), NEW line \in Seq(Token)
  PROVE  /\ Meant(prog, ls) \in Seq(Token)
         /\ Meant(prog, Append(ls, line)) = Meant(prog, ls) \o Commands(prog, line)
<1> DEFINE N == Len(ls)
           ms == Append(ls, line)
           C(s) == Commands(prog, s)
           f == [l \in 1..N |-> C(ls[l])]
           g == [l \in 1..(N + 1) |-> C(ms[l])]
<1>1. /\ N \in Nat /\ ms \in Seq(Seq(Token)) /\ Len(ms) = N + 1
      /\ ms[N + 1] = line /\ \A l \in 1..N : ms[l] = ls[l]
  BY LenProperties, Longer
<1>2. \A s \in Seq(Token) : C(s) \in Seq(Token)
  BY CommandsType
<1>3. Meant(prog, ls) = FlattenSeq(f) /\ Meant(prog, ms) = FlattenSeq(g)
  <2>1. DOMAIN ls = 1..N /\ DOMAIN ms = 1..(N + 1)
    BY <1>1, LenProperties
  <2>2. QED
    BY <2>1 DEF Meant
<1> HIDE DEF N, ms, C
<1>4. f \in Seq(Seq(Token)) /\ Len(f) = N
  <2>1. \A l \in 1..N : ls[l] \in Seq(Token)
    BY DEF N
  <2>2. \A l \in 1..N : C(ls[l]) \in Seq(Token)
    BY <1>2, <2>1
  <2>3. QED
    BY <1>1, <2>2
<1>5. g = Append(f, C(line))
  <2>1. C(line) \in Seq(Token)
    BY <1>2
  <2>2. /\ Append(f, C(line)) \in Seq(Seq(Token)) /\ Len(Append(f, C(line))) = N + 1
        /\ Append(f, C(line))[N + 1] = C(line)
        /\ \A l \in 1..N : Append(f, C(line))[l] = f[l]
    BY <1>1, <1>4, <2>1, Longer
  <2>3. \A l \in 1..(N + 1) : g[l] = Append(f, C(line))[l]
    <3>1. \A l \in 1..N : g[l] = Append(f, C(line))[l]
      BY <1>1, <2>2
    <3>2. g[N + 1] = Append(f, C(line))[N + 1]
      BY <1>1, <2>2
    <3>3. \A l \in 1..(N + 1) : l \in 1..N \/ l = N + 1
      BY <1>1
    <3> HIDE DEF f, g
    <3>4. QED
      BY <3>1, <3>2, <3>3, Zenon
  <2>4. Append(f, C(line)) = [l \in 1..(N + 1) |-> Append(f, C(line))[l]]
    <3>1. PICK h \in Seq(Seq(Token)) : h = Append(f, C(line))
      BY <2>2
    <3>2. h \in [1..Len(h) -> Seq(Token)] /\ Len(h) = N + 1
      BY <2>2, <3>1, LenProperties
    <3>3. h = [l \in 1..(N + 1) |-> h[l]]
      BY <3>2
    <3>4. QED
      BY <3>1, <3>3
  <2>5. g = [l \in 1..(N + 1) |-> g[l]]
    OBVIOUS
  <2> HIDE DEF f, g
  <2>6. QED
    BY <2>3, <2>4, <2>5
<1> HIDE DEF f, g
<1>6. FlattenSeq(g) = FlattenSeq(f) \o C(line) /\ FlattenSeq(f) \in Seq(Token)
  BY <1>2, <1>4, <1>5, FlatAppend, FlatType
<1>7. QED
  BY <1>3, <1>6 DEF ms, C

(* A loop that is astray stays so.                                         *)
LEMMA NotAstray ==
  ASSUME NEW prog, NEW w \in Walker, NEW cells \in Seq(Seq(Token)), NEW N \in Nat, N = Len(cells),
         Walk(prog, w, cells)[N].mode # "astray", NEW k \in 0..N
  PROVE  Walk(prog, w, cells)[k].mode # "astray"
<1> DEFINE f == Walk(prog, w, cells)
           S == {j \in 0..(N - k) : f[k + j].mode = "astray"}
<1>1. Walks(f, prog, w, cells, N)
  BY WalkDef, Zenon
<1>2. \A i \in 0..(N - 1) : f[i + 1] = Took(prog, f[i], cells[i + 1])
  BY <1>1 DEF Walks
<1> HIDE DEF f
<1>3. SUFFICES ASSUME f[k].mode = "astray" PROVE FALSE
  BY DEF f
<1>4. 0 \in S
  BY <1>3
<1>5. ASSUME NEW j \in 0..((N - k) - 1), j \in S PROVE j + 1 \in S
  <2>1. k + j \in 0..(N - 1) /\ (k + j) + 1 = k + (j + 1) /\ j + 1 \in 0..(N - k)
    OBVIOUS
  <2>2. f[k + (j + 1)] = Took(prog, f[k + j], cells[k + (j + 1)]) /\ f[k + j].mode = "astray"
    BY <1>2, <1>5, <2>1
  <2>3. f[k + (j + 1)].mode = "astray"
    BY <2>2 DEF Took, ModeAfter
  <2>4. QED
    BY <2>1, <2>3
<1> HIDE DEF S
<1>6. 0..(N - k) \subseteq S
  <2>1. N - k \in Nat
    OBVIOUS
  <2>2. QED
    BY <1>4, <1>5, <2>1, Inductive
<1>7. N - k \in S
  BY <1>6
<1>8. f[N].mode = "astray"
  <2>1. k + (N - k) = N
    OBVIOUS
  <2>2. QED
    BY <1>7, <2>1 DEF S
<1>9. QED
  BY <1>8 DEF f

-----------------------------------------------------------------------------
(* The loop is where the cells lead, and has run what they say.            *)

Begun == At("event", <<>>)

PlaceOf(p, mode) ==
  CASE p = "operator" -> mode = "operator"
    [] p = "skip"     -> mode = "skip"
    [] OTHER          -> mode \in {"event", "file"}

RunInv ==
  AsTyped =>
    LET W == Walk(program, Begun, cmds) IN
    /\ W[Len(cmds)] = At("event", Meant(program, lines))
    /\ W[cmd_now].ran = ran
    /\ PlaceOf(pc, W[cmd_now].mode)

LEMMA BegunType == Begun \in Walker /\ Begun.mode = "event" /\ Begun.ran = <<>>
<1>1. <<>> \in Seq(Token) /\ "event" \in Mode
  BY EmptySeq DEF Mode
<1>2. QED
  BY <1>1, AtIs DEF Begun

LEMMA RunAtInit == Init => RunInv
<1>1. SUFFICES ASSUME Init PROVE RunInv
  OBVIOUS
<1>2. cmds = <<>> /\ lines = <<>> /\ ran = <<>> /\ cmd_now = 0 /\ pc = "prompt"
  BY <1>1 DEF Init
<1>3. Walks(Walk(program, Begun, <<>>), program, Begun, <<>>, 0)
  <2>1. <<>> \in Seq(Seq(Token)) /\ Len(<<>>) = 0
    BY EmptySeq
  <2>2. QED
    BY <2>1, BegunType, WalkDef
<1>4. Walk(program, Begun, <<>>)[0] = Begun /\ Len(<<>>) = 0
  BY <1>3 DEF Walks
<1>5. Begun = At("event", Meant(program, lines))
  BY <1>2, MeantNone DEF Begun
<1>6. QED
  BY <1>2, <1>4, <1>5, BegunType DEF RunInv, PlaceOf

LEMMA TypedMore ==
  ASSUME NEW line \in Seq(Token), lines \in Seq(Seq(Token)), lines' = Append(lines, line),
         program' = program, AsTyped'
  PROVE  AsTyped /\ ~Misread(program, line)
<1>1. PICK N \in Nat : N = Len(lines)
  BY LenProperties
<1>2. /\ Len(lines') = N + 1 /\ lines'[N + 1] = line /\ \A l \in 1..N : lines'[l] = lines[l]
      /\ DOMAIN lines' = 1..(N + 1) /\ DOMAIN lines = 1..N
  <2>1. /\ Append(lines, line) \in Seq(Seq(Token)) /\ Len(Append(lines, line)) = N + 1
        /\ Append(lines, line)[N + 1] = line
        /\ \A k \in 1..N : Append(lines, line)[k] = lines[k]
    BY <1>1, Longer
  <2>2. QED
    BY <1>1, <2>1, LenProperties
<1>3. \A l \in 1..(N + 1) : ~Misread(program, lines'[l])
  BY <1>2 DEF AsTyped
<1>4. \A l \in 1..N : l \in 1..(N + 1)
  OBVIOUS
<1>5. N + 1 \in 1..(N + 1)
  OBVIOUS
<1>6. QED
  BY <1>2, <1>3, <1>4, <1>5, Zenon DEF AsTyped

LEMMA RunAtLine == ASSUME CellInv, RunInv, ReadLine PROVE RunInv'
<1>1. PICK line \in Seq(Token) : Typed(line)
  BY LineTyped
<1> DEFINE cells == read_string(line).cells
           L == Len(cmds)
           M == Len(cells)
           ds == cmds \o cells
           meant == Meant(program, lines)
           more == Commands(program, line)
           W == Walk(program, Begun, cmds)
           V == Walk(program, Begun, ds)
<1>2. /\ cells \in Seq(Seq(Token)) /\ M \in Nat /\ L \in Nat /\ cmds \in Seq(Seq(Token))
      /\ program \in Programs /\ lines \in Seq(Seq(Token))
  BY Reads, LenProperties DEF ReadOf, CellInv
<1>3. /\ program' = program /\ pc = "prompt" /\ pc' = "event" /\ cmd_now = L /\ cmd_now' = L
      /\ ran' = ran /\ cmds' = ds /\ lines' = Append(lines, line)
  BY <1>1 DEF Typed, CellInv, isempty
<1>4. SUFFICES ASSUME AsTyped'
               PROVE  /\ V[L + M] = At("event", meant \o more)
                      /\ V[L].ran = ran /\ V[L].mode \in {"event", "file"}
  <2>1. Len(ds) = L + M
    BY <1>2, ConcatProperties
  <2>2. Meant(program, lines') = meant \o more
    BY <1>2, <1>3, MeantAppend
  <2>3. PlaceOf("event", V[L].mode) <=> V[L].mode \in {"event", "file"}
    BY DEF PlaceOf
  <2> HIDE DEF V, L, M, ds
  <2>4. QED
    BY <1>3, <1>4, <2>1, <2>2, <2>3 DEF RunInv, V, L
<1>5. AsTyped /\ ~Misread(program, line)
  BY <1>2, <1>3, <1>4, TypedMore
<1>6. /\ W[L] = At("event", meant) /\ W[L].ran = ran /\ PlaceOf("prompt", W[L].mode)
      /\ meant \in Seq(Token)
  <2>1. W[L] = At("event", meant) /\ W[L].ran = ran /\ PlaceOf("prompt", W[L].mode)
    BY <1>3, <1>5 DEF RunInv
  <2>2. QED
    BY <1>2, <2>1, MeantAppend
<1>7. /\ ds \in Seq(Seq(Token)) /\ Len(ds) = L + M
      /\ Within(ds, 0, cmds, L) /\ Within(ds, L, cells, M)
  <2>1. /\ ds \in Seq(Seq(Token)) /\ Len(ds) = L + M
        /\ \A i \in 1..(L + M) : ds[i] = IF i <= L THEN cmds[i] ELSE cells[i - L]
    BY <1>2, ConcatProperties
  <2> HIDE DEF ds, L, M, cells
  <2>2. ASSUME NEW j \in 1..L PROVE ds[0 + j] = cmds[j]
    <3>1. 0 + j = j /\ j \in 1..(L + M) /\ j <= L
      BY <1>2
    <3>2. QED
      BY <2>1, <3>1
  <2>3. ASSUME NEW j \in 1..M PROVE ds[L + j] = cells[j]
    <3>1. L + j \in 1..(L + M) /\ ~(L + j <= L) /\ (L + j) - L = j
      BY <1>2
    <3>2. QED
      BY <2>1, <3>1
  <2>4. 0 + L <= L + M /\ L + M <= L + M
    BY <1>2
  <2>5. QED
    BY <2>1, <2>2, <2>3, <2>4 DEF Within
<1>8. Runs(cells, meant, more)
  <2>1. CASE Legal(line)
    BY <1>2, <1>5, <1>6, <2>1, LegalRuns
  <2>2. CASE ~Legal(line)
    BY <1>2, <1>6, <2>2, IllegalRuns
  <2>3. QED
    BY <2>1, <2>2
<1> DEFINE E == Walk(program, At("event", meant), cells)
<1>9. E[M] = At("event", meant \o more) /\ At("event", meant) \in Walker
      /\ At("event", meant).mode = "event"
  BY <1>6, <1>8, AtIs DEF Runs, Through, Mode
<1> HIDE DEF cells, L, M, ds, meant, more
<1>10. V[0] = Begun
  <2>1. Walks(V, program, Begun, ds, L + M)
    <3>1. L + M \in Nat
      BY <1>2
    <3>2. QED
      BY <1>7, <3>1, BegunType, WalkDef, Zenon
  <2>2. QED
    BY <2>1 DEF Walks
<1>11. Same(V, 0, W, L)
  <2>1. L = Len(cmds) /\ 0 \in Nat
    BY DEF L
  <2>2. QED
    BY <1>2, <1>7, <1>10, <2>1, BegunType, WalkOn, Zenon
<1>12. V[L] = W[L]
  <2>1. 0 + L = L /\ L \in 0..L
    BY <1>2
  <2>2. QED
    BY <1>11, <2>1 DEF Same
<1>13. Same(V, L, E, M)
  <2>1. M = Len(cells) /\ V[L] = At("event", meant)
    BY <1>6, <1>12 DEF M
  <2>2. QED
    BY <1>2, <1>7, <1>9, <2>1, BegunType, WalkOn, Zenon
<1>14. V[L + M] = E[M]
  <2>1. M \in 0..M
    BY <1>2
  <2>2. QED
    BY <1>13, <2>1 DEF Same
<1> HIDE DEF V, W, E
<1>15. QED
  BY <1>6, <1>9, <1>12, <1>14

(* What the walk says of the cell that is fetched.                         *)
LEMMA WalkFetches ==
  ASSUME CellInv, RunInv, AsTyped, ~isempty
  PROVE  LET W == Walk(program, Begun, cmds) IN
         /\ W[cmd_now] \in Walker /\ W[cmd_now + 1] \in Walker
         /\ W[cmd_now + 1] = Took(program, W[cmd_now], Fetched)
         /\ W[cmd_now + 1].mode = ModeAfter(program, W[cmd_now].mode, Fetched)
         /\ W[cmd_now + 1].ran = IF W[cmd_now].mode = "event" /\ Fetched # <<>>
                                 THEN Append(W[cmd_now].ran, Head(Fetched))
                                 ELSE W[cmd_now].ran
         /\ W[cmd_now + 1].mode # "astray"
<1> DEFINE W == Walk(program, Begun, cmds)
           L == Len(cmds)
<1>1. /\ cmds \in Seq(Seq(Token)) /\ L \in Nat /\ cmd_now \in 0..(L - 1) /\ cmd_now \in 0..L
      /\ cmd_now + 1 \in 0..L /\ cmd_now + 1 \in 1..L
  BY LenProperties DEF CellInv, isempty
<1>2. Fetched \in Seq(Token) /\ Fetched = cmds[cmd_now + 1]
  BY <1>1 DEF Fetched
<1>3. Walks(W, program, Begun, cmds, L)
  BY <1>1, BegunType, WalkDef, Zenon
<1>4. /\ W[cmd_now] \in Walker /\ W[cmd_now + 1] \in Walker
      /\ W[cmd_now + 1] = Took(program, W[cmd_now], Fetched)
  <2> HIDE DEF W
  <2>1. QED
    BY <1>1, <1>2, <1>3 DEF Walks
<1>5. W[L].mode # "astray"
  <2>1. W[L] = At("event", Meant(program, lines))
    BY DEF RunInv
  <2>2. QED
    BY <2>1 DEF At
<1>6. W[cmd_now + 1].mode # "astray"
  BY <1>1, <1>5, BegunType, NotAstray
<1>7. /\ W[cmd_now + 1].mode = ModeAfter(program, W[cmd_now].mode, Fetched)
      /\ W[cmd_now + 1].ran = IF W[cmd_now].mode = "event" /\ Fetched # <<>>
                              THEN Append(W[cmd_now].ran, Head(Fetched))
                              ELSE W[cmd_now].ran
  <2> HIDE DEF W
  <2>1. PICK w \in Walker : w = W[cmd_now]
    BY <1>4
  <2>2. PICK c \in Seq(Token) : c = Fetched
    BY <1>2
  <2>3. /\ Took(program, w, c).mode = ModeAfter(program, w.mode, c)
        /\ Took(program, w, c).ran =
             IF w.mode = "event" /\ c # <<>> THEN Append(w.ran, Head(c)) ELSE w.ran
    BY TookType
  <2>4. QED
    BY <1>4, <2>1, <2>2, <2>3, Zenon
<1>8. QED
  BY <1>4, <1>6, <1>7

LEMMA RunAtFetch ==
  ASSUME CellInv, RunInv, AsTyped, ~isempty, get_next_cmd, UNCHANGED lines,
         LET W == Walk(program, Begun, cmds) IN
         /\ ran' = W[cmd_now + 1].ran
         /\ PlaceOf(pc', W[cmd_now + 1].mode)
  PROVE  RunInv'
BY DEF RunInv, get_next_cmd

LEMMA RunAtStep == ASSUME CellInv, RunInv, [Next]_vars PROVE RunInv'
<1> DEFINE W == Walk(program, Begun, cmds)
<1>1. CASE ReadLine
  BY <1>1, RunAtLine
<1>2. CASE LineDone
  BY <1>2 DEF LineDone, cursor, RunInv, PlaceOf, AsTyped
<1>3. CASE UNCHANGED vars
  BY <1>3 DEF vars, cursor, RunInv, AsTyped
<1>4. ASSUME UNCHANGED lines, get_next_cmd, ~AsTyped PROVE RunInv'
  BY <1>4 DEF AsTyped, RunInv, get_next_cmd
<1>5. ASSUME AsTyped, ~isempty
      PROVE  /\ W[cmd_now + 1].mode = ModeAfter(program, W[cmd_now].mode, Fetched)
             /\ W[cmd_now + 1].ran = IF W[cmd_now].mode = "event" /\ Fetched # <<>>
                                     THEN Append(W[cmd_now].ran, Head(Fetched))
                                     ELSE W[cmd_now].ran
             /\ W[cmd_now + 1].mode # "astray"
             /\ W[cmd_now].ran = ran /\ PlaceOf(pc, W[cmd_now].mode)
  <2>1. W[cmd_now].ran = ran /\ PlaceOf(pc, W[cmd_now].mode)
    BY <1>5 DEF RunInv
  <2>2. QED
    BY <1>5, <2>1, WalkFetches
<1> HIDE DEF W
<1>6. CASE FetchEvent
  <2>1. UNCHANGED lines /\ get_next_cmd /\ ~isempty /\ pc = "event"
    BY <1>6 DEF FetchEvent
  <2>2. SUFFICES ASSUME AsTyped PROVE ran' = W[cmd_now + 1].ran /\ PlaceOf(pc', W[cmd_now + 1].mode)
    BY <1>4, <2>1, RunAtFetch DEF W
  <2>3. W[cmd_now].mode \in {"event", "file"}
    BY <1>5, <2>1, <2>2 DEF PlaceOf
  <2>4. CASE Fetched = <<>>
    <3>1. pc' = "event" /\ ran' = ran
      BY <1>6, <2>4 DEF FetchEvent, builtin
    <3>2. W[cmd_now + 1].mode = "event" /\ W[cmd_now + 1].ran = ran
      BY <1>5, <2>1, <2>2, <2>3, <2>4 DEF ModeAfter
    <3>3. QED
      BY <3>1, <3>2 DEF PlaceOf
  <2>5. CASE Fetched # <<>>
    <3>1. W[cmd_now].mode = "event"
      BY <1>5, <2>1, <2>2, <2>3, <2>5 DEF ModeAfter
    <3>2. W[cmd_now + 1].mode =
            IF builtin(Fetched) /\ program # "simple" THEN "skip" ELSE "operator"
      BY <1>5, <2>1, <2>2, <2>5, <3>1 DEF ModeAfter
    <3>3. ran' = W[cmd_now + 1].ran
      BY <1>5, <1>6, <2>1, <2>2, <2>5, <3>1 DEF FetchEvent
    <3>4. pc' = IF builtin(Fetched) /\ program # "simple" THEN "skip" ELSE "operator"
      BY <1>6, <2>5 DEF FetchEvent
    <3>5. QED
      BY <3>2, <3>3, <3>4 DEF PlaceOf
  <2>6. QED
    BY <2>4, <2>5
<1>7. CASE Skip
  <2>1. UNCHANGED lines /\ get_next_cmd /\ ~isempty /\ pc = "skip" /\ ran' = ran
    BY <1>7 DEF Skip, CellInv, NeverPastEnd
  <2>2. SUFFICES ASSUME AsTyped PROVE ran' = W[cmd_now + 1].ran /\ PlaceOf(pc', W[cmd_now + 1].mode)
    BY <1>4, <2>1, RunAtFetch DEF W
  <2>3. W[cmd_now].mode = "skip"
    BY <1>5, <2>1, <2>2 DEF PlaceOf
  <2>4. pc' = IF Fetched = <<>> THEN "event" ELSE "skip"
    BY <1>7 DEF Skip
  <2>5. QED
    BY <1>5, <2>1, <2>2, <2>3, <2>4 DEF ModeAfter, PlaceOf
<1>8. CASE FetchOperator
  <2>1. UNCHANGED lines /\ get_next_cmd /\ ~isempty /\ pc = "operator" /\ ran' = ran
    BY <1>8 DEF FetchOperator, CellInv, NeverPastEnd
  <2>2. SUFFICES ASSUME AsTyped PROVE ran' = W[cmd_now + 1].ran /\ PlaceOf(pc', W[cmd_now + 1].mode)
    BY <1>4, <2>1, RunAtFetch DEF W
  <2>3. W[cmd_now].mode = "operator"
    BY <1>5, <2>1, <2>2 DEF PlaceOf
  <2>4. pc' = IF LastOperator(Fetched) THEN "event" ELSE "operator"
    BY <1>8 DEF FetchOperator
  <2>5. LastOperator(Fetched) <=>
          program = "simple" \/ Fetched = <<>> \/ Head(Fetched).is \in Sign
    BY DEF LastOperator, Sign
  <2>6. CASE Fetched = <<>>
    BY <1>5, <2>1, <2>2, <2>3, <2>4, <2>5, <2>6 DEF ModeAfter, PlaceOf
  <2>7. CASE Fetched # <<>>
    BY <1>5, <2>1, <2>2, <2>3, <2>4, <2>5, <2>7 DEF ModeAfter, PlaceOf
  <2>8. QED
    BY <2>6, <2>7
<1>9. QED
  BY <1>1, <1>2, <1>3, <1>6, <1>7, <1>8 DEF Next

LEMMA RunMeans == ASSUME CellInv, RunInv PROVE CommandsRun
<1>1. SUFFICES ASSUME pc = "prompt", AsTyped PROVE ran = Meant(program, lines)
  BY DEF CommandsRun, Meant
<1>2. cmd_now = Len(cmds)
  BY <1>1 DEF CellInv, isempty
<1>3. Walk(program, Begun, cmds)[cmd_now] = At("event", Meant(program, lines))
      /\ Walk(program, Begun, cmds)[cmd_now].ran = ran
  BY <1>1, <1>2 DEF RunInv
<1>4. QED
  BY <1>3 DEF At

(* When a line is done its commands have been run in order, each once and  *)
(* nothing else, whatever was typed before, if np_simple did not misread   *)
(* an operator for a command (the loops at np_simple.cpp:34,               *)
(* np_single_proc.cpp:181, np_multi_proc.cpp:336, CommandsRun).            *)
THEOREM CommandsAreRun == Spec => []CommandsRun
<1>1. Init => CellInv /\ RunInv
  BY CellsAtInit, RunAtInit
<1>2. CellInv /\ RunInv /\ [Next]_vars => CellInv' /\ RunInv'
  BY CellsAtStep, RunAtStep
<1>3. CellInv /\ RunInv => CommandsRun
  BY RunMeans
<1>4. QED
  BY <1>1, <1>2, <1>3, PTL DEF Spec

-----------------------------------------------------------------------------
(* Where the operators of a command end, and what that says of it, does    *)
(* not change when more lines are typed.                                   *)

Closing(cells, k) == cells[k] = <<>> \/ Head(cells[k]).is \in {"|", "!"}

FirstClosing(cells, i) ==
  LET ops == {j \in (i + 1)..Len(cells) : Closing(cells, j)} IN
  CHOOSE j \in ops : \A k \in ops : j <= k

LEMMA PipeOfIs == \A i : PipeOf(i) = FirstClosing(cmds, i)
BY DEF PipeOf, FirstClosing, Closing

LEMMA ClosingFirst ==
  ASSUME NEW cells, NEW L \in Nat, Len(cells) = L, cells[L] = <<>>, NEW i \in Nat, i < L
  PROVE  /\ FirstClosing(cells, i) \in (i + 1)..L
         /\ Closing(cells, FirstClosing(cells, i))
         /\ \A k \in (i + 1)..L : Closing(cells, k) => FirstClosing(cells, i) <= k
<1> DEFINE ops == {j \in (i + 1)..L : Closing(cells, j)}
<1>1. L \in ops /\ ops \in SUBSET Nat
  <2>1. L \in (i + 1)..L /\ Closing(cells, L) /\ (i + 1)..L \subseteq Nat
    BY DEF Closing
  <2>2. QED
    BY <2>1
<1>2. \E j \in ops : \A k \in ops : j <= k
  BY <1>1, Least
<1>3. FirstClosing(cells, i) = CHOOSE j \in ops : \A k \in ops : j <= k
  BY DEF FirstClosing
<1>4. FirstClosing(cells, i) \in ops /\ \A k \in ops : FirstClosing(cells, i) <= k
  BY <1>2, <1>3, Zenon
<1>5. QED
  BY <1>4

LEMMA ClosingThere ==
  ASSUME NEW cells, NEW L \in Nat, Len(cells) = L, cells[L] = <<>>, NEW i \in Nat,
         NEW p \in (i + 1)..L, Closing(cells, p),
         \A k \in (i + 1)..(p - 1) : ~Closing(cells, k)
  PROVE  FirstClosing(cells, i) = p
<1> DEFINE q == FirstClosing(cells, i)
<1>1. i < L
  OBVIOUS
<1>2. q \in (i + 1)..L /\ Closing(cells, q) /\ q <= p
  BY <1>1, ClosingFirst
<1>3. ~(q < p)
  <2>1. q < p => q \in (i + 1)..(p - 1)
    BY <1>2
  <2>2. QED
    BY <1>2, <2>1
<1> HIDE DEF q
<1>4. q = p
  BY <1>2, <1>3
<1>5. QED
  BY <1>4 DEF q

(* es begins with the cells of cs.                                         *)
Extends(cs, es, L, N) ==
  /\ L \in Nat /\ N \in Nat /\ L <= N /\ Len(cs) = L /\ Len(es) = N
  /\ \A k \in 1..L : es[k] = cs[k]
  /\ L > 0 => cs[L] = <<>> /\ es[N] = <<>>

LEMMA ClosingSame ==
  ASSUME NEW cs, NEW es, NEW L, NEW N, Extends(cs, es, L, N), NEW i \in Nat, i < L
  PROVE  FirstClosing(es, i) = FirstClosing(cs, i)
<1> DEFINE p == FirstClosing(cs, i)
<1>1. L \in Nat /\ N \in Nat /\ L <= N /\ Len(cs) = L /\ Len(es) = N
  BY DEF Extends
<1>2. cs[L] = <<>> /\ es[N] = <<>> /\ \A k \in 1..L : es[k] = cs[k]
  BY <1>1 DEF Extends
<1>3. p \in (i + 1)..L /\ Closing(cs, p) /\ \A k \in (i + 1)..L : Closing(cs, k) => p <= k
  BY <1>1, <1>2, ClosingFirst, Zenon
<1>4. \A k \in (i + 1)..L : Closing(es, k) <=> Closing(cs, k)
  <2>1. \A k \in (i + 1)..L : k \in 1..L
    BY <1>1
  <2>2. QED
    BY <1>2, <2>1 DEF Closing
<1> HIDE DEF p
<1>5. p \in (i + 1)..N /\ Closing(es, p) /\ \A k \in (i + 1)..(p - 1) : k \in (i + 1)..L /\ ~(p <= k)
  BY <1>1, <1>3, <1>4
<1>6. \A k \in (i + 1)..(p - 1) : ~Closing(es, k)
  BY <1>3, <1>4, <1>5
<1>7. FirstClosing(es, i) = p
  BY <1>1, <1>2, <1>5, <1>6, ClosingThere
<1>8. QED
  BY <1>7 DEF p

(* The instructions the first m cells begin.                               *)
Opened(cells, m) ==
  Cardinality(EndedIn(cells, m)) + IF m > 0 /\ cells[m] # <<>> THEN 1 ELSE 0

LEMMA OpenedNext ==
  ASSUME NEW cells, NEW m \in Nat
  PROVE  /\ Cardinality(EndedIn(cells, m)) \in Nat /\ Opened(cells, m) \in Nat
         /\ Opened(cells, m + 1) =
              Opened(cells, m)
                + (IF cells[m + 1] # <<>> /\ (m = 0 \/ cells[m] = <<>>) THEN 1 ELSE 0)
         /\ cells[m + 1] # <<>> => Opened(cells, m + 1) = Cardinality(EndedIn(cells, m)) + 1
<1> DEFINE n == Cardinality(EndedIn(cells, m))
           o == Cardinality(EndedIn(cells, m + 1))
<1>1. /\ n \in Nat
      /\ o = n + (IF m > 0 /\ cells[m + 1] = <<>> /\ cells[m] # <<>> THEN 1 ELSE 0)
  <2>1. CASE m > 0
    BY <2>1, EndedNext
  <2>2. CASE m = 0
    <3>1. EndedIn(cells, m) = {} /\ EndedIn(cells, m + 1) = {}
      BY <2>2 DEF EndedIn
    <3>2. n = 0 /\ o = 0
      BY <3>1, FS_EmptySet
    <3>3. QED
      BY <2>2, <3>2
  <2>3. QED
    BY <2>1, <2>2
<1>2. /\ Opened(cells, m) = n + IF m > 0 /\ cells[m] # <<>> THEN 1 ELSE 0
      /\ Opened(cells, m + 1) = o + IF cells[m + 1] # <<>> THEN 1 ELSE 0
  BY DEF Opened
<1> HIDE DEF n, o
<1>3. QED
  <2>1. Opened(cells, m) \in Nat
    BY <1>1, <1>2
  <2>2. CASE cells[m + 1] = <<>>
    <3>1. o = Opened(cells, m)
      BY <1>1, <1>2, <2>2
    <3>2. Opened(cells, m + 1) = o
      BY <1>1, <1>2, <2>2
    <3>3. Opened(cells, m + 1) = Opened(cells, m)
      BY <3>1, <3>2
    <3>4. QED
      BY <1>1, <2>1, <2>2, <3>3 DEF n
  <2>3. CASE cells[m + 1] # <<>>
    <3>1. o = n /\ Opened(cells, m + 1) = n + 1
      BY <1>1, <1>2, <2>3
    <3>2. QED
      BY <1>1, <1>2, <2>3, <3>1 DEF n
  <2>4. QED
    BY <1>1, <2>1, <2>2, <2>3 DEF n

LEMMA OpenedSame ==
  ASSUME NEW cs, NEW es, NEW L, NEW N, Extends(cs, es, L, N), NEW m \in 0..L
  PROVE  EndedIn(es, m) = EndedIn(cs, m) /\ Opened(es, m) = Opened(cs, m)
<1>1. L \in Nat /\ \A k \in 1..L : es[k] = cs[k]
  BY DEF Extends
<1>2. \A k \in 2..m : es[k] = cs[k] /\ es[k - 1] = cs[k - 1]
  <2>1. \A k \in 2..m : k \in 1..L /\ k - 1 \in 1..L
    BY <1>1
  <2>2. QED
    BY <1>1, <2>1
<1>3. m > 0 => es[m] = cs[m]
  BY <1>1
<1>4. EndedIn(es, m) = EndedIn(cs, m)
  BY <1>2 DEF EndedIn
<1>5. QED
  BY <1>3, <1>4 DEF Opened

LEMMA InstructionIs ==
  ASSUME NEW i \in Nat
  PROVE  InstructionOf(i + 1) = Cardinality(EndedIn(cmds, i))
<1>1. (i + 1) - 1 = i
  OBVIOUS
<1>2. QED
  BY <1>1 DEF InstructionOf, EndedIn

-----------------------------------------------------------------------------
(* What the users say of a command, and that they do not take it back.     *)

(* The commands Joined speaks of, by what is behind them.                  *)
Expected(i) == ~UserPiped(i) /\ (ErrorPipe(i) => program = "simple") /\ ~TooFar(i)
Behind(i) == cmds[PipeOf(i)]
Plainly(i) == Behind(i) # <<>> /\ ~(Head(Behind(i)).n > 0)
Numbering(i) == Behind(i) # <<>> /\ Head(Behind(i)).n > 0
Target(i) == InstructionOf(i) + Head(Behind(i)).n

CommandAtCell(i) == i \in 1..cmd_count /\ cmds[i] # <<>>

LEMMA Reading ==
  ASSUME CellInv, NEW i, CommandAtCell(i)
  PROVE  /\ i \in Nat /\ i > 0 /\ i < cmd_count /\ cmd_count \in Nat
         /\ PipeOf(i) \in (i + 1)..cmd_count /\ Closing(cmds, PipeOf(i))
         /\ \A k \in (i + 1)..cmd_count : Closing(cmds, k) => PipeOf(i) <= k
         /\ InstructionOf(i) \in Nat
         /\ Behind(i) \in Seq(Token)
         /\ Behind(i) # <<>> => Head(Behind(i)) \in Token /\ Head(Behind(i)).n \in Nat
<1>1. /\ cmds \in Seq(Seq(Token)) /\ cmd_count = Len(cmds) /\ cmd_count \in Nat
      /\ cmds # <<>> => cmds[cmd_count] = <<>>
  BY LenProperties DEF CellInv
<1>2. i \in Nat /\ i > 0 /\ i <= cmd_count /\ cmds[i] # <<>>
  BY <1>1 DEF CommandAtCell
<1>3. cmds # <<>>
  BY <1>1, <1>2, EmptySeq
<1>4. i < cmd_count /\ cmds[cmd_count] = <<>>
  BY <1>1, <1>2, <1>3
<1>5. /\ PipeOf(i) \in (i + 1)..cmd_count /\ Closing(cmds, PipeOf(i))
      /\ \A k \in (i + 1)..cmd_count : Closing(cmds, k) => PipeOf(i) <= k
  BY <1>1, <1>2, <1>4, PipeOfIs, ClosingFirst, Zenon
<1>6. InstructionOf(i) \in Nat
  <2>1. i - 1 \in Nat /\ (i - 1) + 1 = i
    BY <1>2
  <2>2. QED
    BY <2>1, InstructionIs, OpenedNext
<1>7. Behind(i) \in Seq(Token)
  <2>1. PipeOf(i) \in 1..cmd_count
    BY <1>1, <1>2, <1>5
  <2>2. QED
    BY <1>1, <2>1, ElementOfSeq DEF Behind
<1>8. Behind(i) # <<>> => Head(Behind(i)) \in Token /\ Head(Behind(i)).n \in Nat
  <2>1. Behind(i) # <<>> => Head(Behind(i)) \in Token
    BY <1>7, HeadTailProperties
  <2>2. QED
    BY <2>1, ClassOf
<1>9. QED
  BY <1>1, <1>2, <1>4, <1>5, <1>6, <1>7, <1>8

LEMMA CellsGrow ==
  ASSUME CellInv, [Next]_vars
  PROVE  Extends(cmds, cmds', cmd_count, cmd_count') /\ program' = program
<1>1. /\ cmds \in Seq(Seq(Token)) /\ cmd_count = Len(cmds) /\ cmd_count \in Nat
      /\ cmds # <<>> => cmds[Len(cmds)] = <<>>
  BY LenProperties DEF CellInv
<1>2. CellInv'
  BY CellsAtStep
<1>3. /\ cmds' \in Seq(Seq(Token)) /\ cmd_count' = Len(cmds') /\ cmd_count' \in Nat
      /\ cmds' # <<>> => cmds'[Len(cmds')] = <<>>
  BY <1>2, LenProperties DEF CellInv
<1>4. /\ program' = program /\ cmd_count <= cmd_count'
      /\ \A k \in 1..cmd_count : cmds'[k] = cmds[k]
  <2>1. CASE ReadLine
    <3>1. PICK line \in Seq(Token) : Typed(line)
      BY <2>1, LineTyped
    <3> DEFINE ds == read_string(line).cells
    <3>2. ds \in Seq(Seq(Token)) /\ cmds' = cmds \o ds /\ program' = program
      BY <3>1, Reads DEF ReadOf, CellInv, Typed
    <3> HIDE DEF ds
    <3>3. /\ Len(ds) \in Nat /\ Len(cmds') = cmd_count + Len(ds)
          /\ \A k \in 1..(cmd_count + Len(ds)) :
               cmds'[k] = IF k <= cmd_count THEN cmds[k] ELSE ds[k - cmd_count]
      BY <1>1, <3>2, ConcatProperties, LenProperties
    <3>4. \A k \in 1..cmd_count : k \in 1..(cmd_count + Len(ds)) /\ k <= cmd_count
      BY <1>1, <3>3
    <3>5. \A k \in 1..cmd_count : cmds'[k] = cmds[k]
      BY <3>3, <3>4
    <3>6. cmd_count <= cmd_count'
      BY <1>1, <1>3, <3>3
    <3>7. QED
      BY <3>2, <3>5, <3>6
  <2>2. CASE LineDone \/ FetchEvent \/ Skip \/ FetchOperator \/ UNCHANGED vars
    <3>1. UNCHANGED <<program, cmds, cmd_count>>
      BY <2>2 DEF LineDone, FetchEvent, Skip, FetchOperator, vars, cursor, get_next_cmd
    <3>2. QED
      BY <1>1, <3>1
  <2>3. QED
    BY <2>1, <2>2 DEF Next
<1>5. cmd_count > 0 => cmds # <<>> /\ cmds' # <<>>
  <2>1. Len(cmds) > 0 => cmds # <<>>
    BY EmptySeq
  <2>2. Len(cmds') > 0 => cmds' # <<>>
    BY EmptySeq
  <2>3. QED
    BY <1>1, <1>3, <1>4, <2>1, <2>2
<1>6. QED
  BY <1>1, <1>3, <1>4, <1>5 DEF Extends

Keeps(i) ==
  /\ PipeOf(i)' = PipeOf(i) /\ Behind(i)' = Behind(i)
  /\ InstructionOf(i)' = InstructionOf(i) /\ Target(i)' = Target(i)
  /\ UserPiped(i)' <=> UserPiped(i)
  /\ Expected(i)' <=> Expected(i)
  /\ Plainly(i)' <=> Plainly(i)
  /\ Numbering(i)' <=> Numbering(i)
  /\ CommandAtCell(i)'

LEMMA InstructionKept ==
  ASSUME CellInv, [Next]_vars, NEW i, i \in 1..cmd_count
  PROVE  InstructionOf(i)' = InstructionOf(i) /\ cmds'[i] = cmds[i]
<1>1. /\ Extends(cmds, cmds', cmd_count, cmd_count') /\ cmd_count \in Nat
      /\ \A k \in 1..cmd_count : cmds'[k] = cmds[k]
  BY CellsGrow DEF Extends
<1>2. i - 1 \in 0..cmd_count /\ i - 1 \in Nat /\ (i - 1) + 1 = i
  BY <1>1
<1>3. EndedIn(cmds', i - 1) = EndedIn(cmds, i - 1)
  BY <1>1, <1>2, OpenedSame
<1>4. InstructionOf(i)' = Cardinality(EndedIn(cmds', i - 1))
  BY <1>2 DEF InstructionOf, EndedIn
<1>5. InstructionOf(i) = Cardinality(EndedIn(cmds, i - 1))
  BY <1>2 DEF InstructionOf, EndedIn
<1>6. QED
  BY <1>1, <1>3, <1>4, <1>5

LEMMA SenseKept ==
  ASSUME CellInv, [Next]_vars, NEW i, CommandAtCell(i)
  PROVE  Keeps(i)
<1>1. /\ i \in Nat /\ i > 0 /\ i < cmd_count /\ cmd_count \in Nat
      /\ PipeOf(i) \in (i + 1)..cmd_count
  BY Reading
<1>2. /\ Extends(cmds, cmds', cmd_count, cmd_count') /\ program' = program
      /\ \A k \in 1..cmd_count : cmds'[k] = cmds[k]
      /\ cmd_count' \in Nat /\ cmd_count <= cmd_count'
  BY CellsGrow DEF Extends
<1>3. PipeOf(i)' = PipeOf(i)
  <2>1. PipeOf(i)' = FirstClosing(cmds', i)
    BY DEF PipeOf, FirstClosing, Closing
  <2>2. FirstClosing(cmds', i) = FirstClosing(cmds, i)
    BY <1>1, <1>2, ClosingSame
  <2>3. QED
    BY <2>1, <2>2, PipeOfIs
<1>4. PipeOf(i) \in 1..cmd_count /\ i \in 1..cmd_count
  BY <1>1
<1>5. Behind(i)' = Behind(i) /\ InstructionOf(i)' = InstructionOf(i)
  BY <1>2, <1>3, <1>4, InstructionKept DEF Behind
<1>6. UserPiped(i)' <=> UserPiped(i)
  <2>1. \A k \in i..PipeOf(i) : cmds'[k] = cmds[k]
    <3>1. \A k \in i..PipeOf(i) : k \in 1..cmd_count
      BY <1>1
    <3>2. QED
      BY <1>2, <3>1
  <2>2. QED
    BY <1>3, <2>1 DEF UserPiped
<1>7. (ErrorPipe(i)' <=> ErrorPipe(i)) /\ (TooFar(i)' <=> TooFar(i))
  BY <1>5 DEF ErrorPipe, TooFar, Behind
<1>8. Target(i)' = Target(i) /\ (Plainly(i)' <=> Plainly(i)) /\ (Numbering(i)' <=> Numbering(i))
  BY <1>5 DEF Target, Plainly, Numbering
<1>9. Expected(i)' <=> Expected(i)
  BY <1>2, <1>6, <1>7 DEF Expected
<1>10. CommandAtCell(i)'
  <2>1. i \in 1..cmd_count'
    BY <1>1, <1>2
  <2>2. QED
    BY <1>2, <1>4, <2>1 DEF CommandAtCell
<1>11. QED
  BY <1>3, <1>5, <1>6, <1>8, <1>9, <1>10 DEF Keeps

(* Who is to read the output.                                              *)
LEMMA FeedsIs ==
  ASSUME CellInv, NEW i, CommandAtCell(i), NEW j
  PROVE  Feeds(i, j) <=>
           \/ Plainly(i) /\ j = PipeOf(i) + 1
           \/ Numbering(i) /\ FirstOne(j) /\ InstructionOf(j) = Target(i)
<1>1. Behind(i) # <<>> => Head(Behind(i)).n \in Nat
  BY Reading
<1>2. Behind(i) # <<>> => (Head(Behind(i)).n = 0 <=> ~(Head(Behind(i)).n > 0))
  BY <1>1
<1>3. QED
  BY <1>2 DEF Feeds, Behind, Plainly, Numbering, Target

LEMMA FeedsKept ==
  ASSUME CellInv, [Next]_vars, NEW i, CommandAtCell(i), NEW j, CommandAtCell(j)
  PROVE  Feeds(i, j)' <=> Feeds(i, j)
<1>1. Keeps(i) /\ Keeps(j) /\ CellInv'
  BY SenseKept, CellsAtStep
<1>2. FirstOne(j)' <=> FirstOne(j)
  <2>1. /\ j = 1 \/ j - 1 \in 1..cmd_count
        /\ \A k \in 1..cmd_count : cmds'[k] = cmds[k]
    BY Reading, CellsGrow DEF Extends
  <2>2. QED
    BY <2>1 DEF FirstOne
<1>3. PipeOf(i)' = PipeOf(i) /\ Behind(i)' = Behind(i)
  BY <1>1 DEF Keeps
<1>4. InstructionOf(i)' = InstructionOf(i) /\ InstructionOf(j)' = InstructionOf(j)
  BY <1>1 DEF Keeps
<1>5. QED
  BY <1>2, <1>3, <1>4 DEF Feeds, Behind

-----------------------------------------------------------------------------
(* The cursor among the instructions.                                      *)

Coming == Opened(cmds, cmd_now)

LEMMA ComingStays ==
  ASSUME CellInv, [Next]_vars, cmd_now' = cmd_now
  PROVE  Coming \in Nat /\ Coming' = Coming
<1>1. cmd_now \in 0..cmd_count /\ cmd_now \in Nat
  BY LenProperties DEF CellInv
<1>2. Opened(cmds', cmd_now) = Opened(cmds, cmd_now)
  BY <1>1, CellsGrow, OpenedSame, Zenon
<1>3. Coming \in Nat
  BY <1>1, OpenedNext DEF Coming
<1>4. Coming' = Opened(cmds', cmd_now')
  BY DEF Coming, Opened, EndedIn
<1>5. QED
  BY <1>2, <1>3, <1>4 DEF Coming

LEMMA ComingAtFetch ==
  ASSUME CellInv, ~isempty
  PROVE  /\ Coming \in Nat /\ cmd_now \in Nat /\ cmd_now + 1 \in 1..cmd_count
         /\ Fetched \in Seq(Token)
         /\ Fetched # <<>> =>
              /\ CommandAtCell(cmd_now + 1)
              /\ instrusion_count = InstructionOf(cmd_now + 1)
              /\ InstructionOf(cmd_now + 1) \in Nat
              /\ Coming = InstructionOf(cmd_now + 1)
                            + (IF FirstOne(cmd_now + 1) THEN 0 ELSE 1)
         /\ get_next_cmd =>
              Coming' = Coming + (IF Fetched # <<>> /\ FirstOne(cmd_now + 1) THEN 1 ELSE 0)
<1>1. /\ cmd_now \in Nat /\ cmd_count \in Nat /\ cmd_now + 1 \in 1..cmd_count
      /\ cmds \in Seq(Seq(Token)) /\ Len(cmds) = cmd_count
      /\ instrusion_count = Cardinality(EndedIn(cmds, cmd_now + 1))
  <2>1. cmd_count \in Nat /\ cmd_now \in 0..cmd_count /\ cmd_now # cmd_count
    BY LenProperties DEF CellInv, isempty
  <2>2. QED
    BY <2>1 DEF CellInv, isempty
<1> DEFINE m == cmd_now
<1>2. FirstOne(m + 1) <=> (m = 0 \/ cmds[m] = <<>>)
  <2>1. (m + 1) - 1 = m /\ (m + 1 = 1 <=> m = 0)
    BY <1>1
  <2>2. QED
    BY <2>1 DEF FirstOne
<1>3. /\ Cardinality(EndedIn(cmds, m)) \in Nat /\ Opened(cmds, m) \in Nat
      /\ Opened(cmds, m + 1) =
              Opened(cmds, m)
                + (IF cmds[m + 1] # <<>> /\ (m = 0 \/ cmds[m] = <<>>) THEN 1 ELSE 0)
      /\ cmds[m + 1] # <<>> => Opened(cmds, m + 1) = Cardinality(EndedIn(cmds, m)) + 1
  BY <1>1, OpenedNext
<1>4. InstructionOf(m + 1) = Cardinality(EndedIn(cmds, m))
  BY <1>1, InstructionIs
<1>5. ASSUME Fetched # <<>>
      PROVE  /\ CommandAtCell(m + 1)
             /\ instrusion_count = InstructionOf(m + 1)
  <2>1. cmds[m + 1] # <<>>
    BY <1>5 DEF Fetched
  <2>2. EndedIn(cmds, m + 1) = EndedIn(cmds, m)
    <3>1. \A k \in 2..(m + 1) : cmds[k] = <<>> => k \in 2..m
      <4>1. \A k \in 2..(m + 1) : k # m + 1 => k \in 2..m
        BY <1>1
      <4>2. QED
        BY <2>1, <4>1, Zenon
    <3>2. \A k \in 2..m : k \in 2..(m + 1)
      BY <1>1
    <3>3. QED
      BY <3>1, <3>2 DEF EndedIn
  <2>3. QED
    BY <1>1, <1>4, <2>1, <2>2 DEF CommandAtCell
<1>6. get_next_cmd => Coming' = Opened(cmds, m + 1)
  <2>1. Coming' = Opened(cmds', cmd_now')
    BY DEF Coming, Opened, EndedIn
  <2>2. QED
    BY <2>1 DEF get_next_cmd
<1>7. Fetched = cmds[m + 1] /\ Fetched \in Seq(Token)
  BY <1>1, ElementOfSeq DEF Fetched
<1>8. Coming = Opened(cmds, m)
  BY DEF Coming
<1>9. Coming \in Nat /\ InstructionOf(m + 1) \in Nat
  BY <1>3, <1>4, <1>8
<1>10. get_next_cmd => Coming' = Coming + (IF Fetched # <<>> /\ FirstOne(m + 1) THEN 1 ELSE 0)
  BY <1>2, <1>3, <1>6, <1>7, <1>8
<1>11. Fetched # <<>> => Coming = InstructionOf(m + 1) + (IF FirstOne(m + 1) THEN 0 ELSE 1)
  <2>1. Fetched # <<>> =>
          Coming + (IF FirstOne(m + 1) THEN 1 ELSE 0) = InstructionOf(m + 1) + 1
    BY <1>2, <1>3, <1>4, <1>7, <1>8
  <2>2. QED
    BY <1>9, <2>1
<1>12. QED
  BY <1>1, <1>5, <1>7, <1>9, <1>10, <1>11

(* Behind the file of a ">" np_simple finds the end of the instruction.    *)
LEMMA FileEnds ==
  ASSUME CellInv, RunInv, AsTyped, pc = "operator", program = "simple"
  PROVE  \/ Fetched = <<>>
         \/ Head(Fetched).is \in Sign
         \/ /\ Head(Fetched).is = ">"
            /\ cmd_now + 2 <= cmd_count /\ cmds[cmd_now + 2] = <<>>
<1> DEFINE W == Walk(program, Begun, cmds)
           L == Len(cmds)
<1>1. ~isempty
  BY DEF CellInv, NeverPastEnd
<1>2. /\ cmds \in Seq(Seq(Token)) /\ L \in Nat /\ cmd_count = L
      /\ cmd_now \in Nat /\ cmd_now + 1 \in 1..L
  BY <1>1, ComingAtFetch, LenProperties DEF CellInv
<1>3. /\ W[L] = At("event", Meant(program, lines)) /\ W[L].mode = "event"
      /\ W[cmd_now].mode = "operator"
  BY DEF RunInv, PlaceOf, At
<1>4. /\ W[cmd_now + 1].mode = ModeAfter(program, "operator", Fetched)
      /\ W[cmd_now + 1].mode # "astray"
  BY <1>1, <1>3, WalkFetches
<1>5. SUFFICES ASSUME Fetched # <<>>, Head(Fetched).is \notin Sign
               PROVE  /\ Head(Fetched).is = ">"
                      /\ cmd_now + 2 <= L /\ cmds[cmd_now + 2] = <<>>
  BY <1>2
<1>6. Head(Fetched).is = ">" /\ W[cmd_now + 1].mode = "file"
  BY <1>4, <1>5 DEF ModeAfter
<1>7. Walks(W, program, Begun, cmds, L)
  BY <1>2, WalkDef, BegunType
<1> HIDE DEF W, L
<1>8. cmd_now + 1 # L
  BY <1>3, <1>6
<1>9. cmd_now + 1 \in 0..(L - 1) /\ (cmd_now + 1) + 1 = cmd_now + 2 /\ cmd_now + 2 \in 0..L
  BY <1>2, <1>8
<1>10. W[cmd_now + 2] = Took(program, W[cmd_now + 1], cmds[cmd_now + 2])
  BY <1>7, <1>9 DEF Walks
<1>11. W[cmd_now + 2].mode # "astray"
  BY <1>2, <1>3, <1>9, NotAstray, BegunType DEF W, L
<1>12. W[cmd_now + 2].mode = ModeAfter(program, "file", cmds[cmd_now + 2])
  BY <1>6, <1>10 DEF Took
<1>13. cmds[cmd_now + 2] = <<>>
  BY <1>11, <1>12 DEF ModeAfter
<1>14. QED
  BY <1>6, <1>9, <1>13

-----------------------------------------------------------------------------
(* Numbers modulo the size of the ring.                                    *)

LEMMA Remainder ==
  ASSUME NEW m \in Nat \ {0}, NEW a \in Nat
  PROVE  a % m \in 0..(m - 1) /\ a = m * (a \div m) + (a % m) /\ a \div m \in Int
OBVIOUS

LEMMA RemainderIs ==
  ASSUME NEW m \in Nat \ {0}, NEW a \in Nat, NEW q \in Int, NEW r \in 0..(m - 1), a = m * q + r
  PROVE  a % m = r
OBVIOUS

LEMMA RemainderOnce ==
  ASSUME NEW m \in Nat \ {0}, NEW a \in Nat, NEW b \in Nat, a <= b, b < a + m, a % m = b % m
  PROVE  a = b
<1>1. PICK q \in Int, r \in 0..(m - 1) : a = m * q + r /\ r = a % m
  BY Remainder
<1>2. PICK p \in Int : b = m * p + r
  BY <1>1, Remainder
<1> DEFINE d == b - a
<1>3. d = m * (p - q) + 0 /\ d = m * 0 + d
  BY <1>1, <1>2
<1>4. d \in Nat /\ d \in 0..(m - 1) /\ p - q \in Int /\ 0 \in 0..(m - 1) /\ 0 \in Int
  OBVIOUS
<1> HIDE DEF d
<1>5. d % m = 0
  BY <1>3, <1>4, RemainderIs
<1>6. d % m = d
  BY <1>3, <1>4, RemainderIs
<1>7. d = 0
  BY <1>5, <1>6
<1>8. QED
  BY <1>7 DEF d

LEMMA RemainderSum ==
  ASSUME NEW m \in Nat \ {0}, NEW a \in Nat, NEW b \in Nat
  PROVE  ((a % m) + b) % m = (a + b) % m
<1>1. PICK q \in Int, r \in 0..(m - 1) : a = m * q + r /\ r = a % m
  BY Remainder
<1>2. r + b \in Nat
  BY <1>1
<1>3. PICK p \in Int, s \in 0..(m - 1) : r + b = m * p + s /\ s = (r + b) % m
  BY <1>2, Remainder
<1>4. a + b = m * (q + p) + s /\ a + b \in Nat /\ q + p \in Int
  <2>1. a + b = m * q + (r + b)
    BY <1>1
  <2>2. m * (q + p) = m * q + m * p
    OBVIOUS
  <2> DEFINE x == m * q
             y == m * p
  <2>3. x \in Int /\ y \in Int /\ s \in Int
    OBVIOUS
  <2> HIDE DEF x, y
  <2>4. a + b = x + (y + s)
    BY <1>3, <2>1 DEF x, y
  <2>5. x + (y + s) = (x + y) + s
    BY <2>3
  <2>6. QED
    BY <2>2, <2>4, <2>5 DEF x, y
<1>5. (a + b) % m = s
  BY <1>4, RemainderIs
<1>6. QED
  BY <1>1, <1>3, <1>5

-----------------------------------------------------------------------------
(* Where an output is, from the pipe that is made for it to the command    *)
(* that reads it.  A pipe waits in the ring of numbered pipes, then it is  *)
(* fd_out, for the next command of the line; from the cell that names the  *)
(* command until the fork it is fd_in.                                     *)

(* A command is in hand.                                                   *)
Handling == pc = "operator" \/ Starting

(* The loop is before a command's cell; the cursor is where an instruction *)
(* begins.                                                                 *)
Onward == pc = "event" /\ ~Ends
Heads == cmd_now = 0 \/ cmds[cmd_now] = <<>>

(* The pipes of commands that are to be forked.                            *)
ComesTo(p) ==
  /\ p \notin {0, DevNull, user_pipe} \union lost
  /\ p \in Boxed \/ (Onward /\ p = fd_out) \/ (Handling /\ ~in_operator /\ p = fd_in)

(* The command in hand: its cell is a, and the shell is between that and   *)
(* the end of its operators.                                               *)
HandIs(a) ==
  Handling =>
    /\ CommandAtCell(a) /\ a <= cmd_now
    /\ instruction_count = InstructionOf(a) /\ Coming = instruction_count + 1
    /\ in_operator \/ out_operator => UserPiped(a)
    /\ pc = "operator" => PipeOf(a) > cmd_now
    /\ Starting => PipeOf(a) >= cmd_now
    /\ Starting /\ ~UserPiped(a) => PipeOf(a) = cmd_now

(* fd_out is what the next command of the line reads, if it does not begin *)
(* an instruction.                                                         *)
NextIs ==
  /\ Onward => (Heads <=> fd_out = 0) /\ fd_out \notin Boxed
  /\ Starting /\ number # -1 => Ends
  /\ Pending /\ out_operator /\ fd_out = 0 => Ends
  /\ pc = "skip" => cmd_now > 0 /\ cmds[cmd_now] # <<>>

(* No two entries of the ring are the same pipe, and the shell has the     *)
(* ends that it is to hand on.  Nothing is written to the pipe of a        *)
(* refused user pipe.                                                      *)
RingIs ==
  /\ \A s, t \in Slot : box[s] = box[t] /\ box[s] # 0 => s = t
  /\ \A p \in Boxed : Shell \in wr[p]
  /\ \A p \in Pipe : ComesTo(p) => Shell \in rd[p]
  /\ user_pipe \notin Boxed
  /\ Handling => fd_in \notin Boxed
  /\ \A p \in lost : p \notin Boxed /\ p # fd_out

(* What the command about to be forked writes, and what the line says of   *)
(* it.                                                                     *)
OutputIs(a) ==
  Starting =>
    /\ fd_out = fd_in => fd_out \notin Pipe
    /\ number = -1 => fd_out \notin Boxed
    /\ Pending /\ fd_out # 0 => fd_out # user_pipe
    /\ ~out_operator /\ fd_out # 0 => fd_out # user_pipe /\ fd_out \in Pipe /\ Shell \in wr[fd_out]
    /\ ~out_operator /\ number # -1 =>
         fd_out # 0 /\ fd_out = box[Entry(instruction_count, number)]
    /\ Expected(a) =>
         /\ Behind(a) = <<>> => fd_out = 0
         /\ Plainly(a) => fd_out # 0 /\ number = -1 /\ ~Ends
         /\ Numbering(a) => number = Head(Behind(a)).n

(* What a child was forked for: the cell of its command, what it reads,    *)
(* what is recorded of that and what it writes.                            *)
Born(i, in, fd, out) ==
  \E c \in DOMAIN procs : /\ procs[c].at = i /\ procs[c].in = in
                          /\ procs[c].fd_in = fd /\ procs[c].out = out

Placed(i) == CommandAtCell(i) /\ i <= cmd_now /\ InstructionOf(i) < Coming

(* The output of the command in cell i in each of the places.              *)
Past(i) == PipeOf(i) <= cmd_now /\ (Handling => PipeOf(i) < at)

ToHand(i, out, a) ==
  Handling /\ ~in_operator => (out # 0 /\ out = fd_in <=> Feeds(i, a))

ToNext(i, out) ==
  /\ Onward /\ job = "none" /\ fd_out # 0 =>
       (out = fd_out <=> Plainly(i) /\ PipeOf(i) = cmd_now)
  /\ Starting /\ Onward /\ out # 0 => out # fd_out

ToBox(i, out) ==
  \A s \in Slot :
    out # 0 /\ out = box[s] <=>
      Numbering(i) /\ Target(i) >= Coming /\ Target(i) % max_store_num = s

Sends(i, out, a) ==
  Expected(i) =>
    /\ Past(i) /\ (out # 0 => out # user_pipe)
    /\ ToHand(i, out, a) /\ ToNext(i, out) /\ ToBox(i, out)

ChildIs(i, in, fd, out) ==
  /\ Placed(i)
  /\ out \in Made /\ out \notin lost /\ fd \in Held /\ in \in {0, fd} /\ ~ComesTo(fd)
  /\ \A a : a = at => Sends(i, out, a)

Joint(i, out, j, in) ==
  Expected(i) /\ ~UserPiped(j) => (out # 0 /\ out = in <=> Feeds(i, j))

Children == \A i, in, fd, out : Born(i, in, fd, out) => ChildIs(i, in, fd, out)

Joints ==
  \A i, in, fd, out, j, in2, fd2, out2 :
    Born(i, in, fd, out) /\ Born(j, in2, fd2, out2) => Joint(i, out, j, in2)

Hands == \A a : a = at => HandIs(a) /\ OutputIs(a)

JoinState == Hands /\ NextIs /\ RingIs /\ Children /\ Joints

JoinInv == AsTyped => JoinState

-----------------------------------------------------------------------------
(* What no step changes.                                                   *)

LEMMA HeadsIs ==
  ASSUME cmd_now \in Nat
  PROVE  FirstOne(cmd_now + 1) <=> Heads
<1>1. (cmd_now + 1) - 1 = cmd_now /\ (cmd_now + 1 = 1 <=> cmd_now = 0)
  OBVIOUS
<1>2. QED
  BY <1>1 DEF FirstOne, Heads

LEMMA SameChildren ==
  ASSUME procs' = procs
  PROVE  \A i, in, fd, out : Born(i, in, fd, out)' => Born(i, in, fd, out)
BY DEF Born

LEMMA PlacedKept ==
  ASSUME CellInv, [Next]_vars, Coming' >= Coming, Coming' \in Nat, cmd_now' >= cmd_now,
         NEW i, Placed(i)
  PROVE  Placed(i)' /\ Keeps(i)
<1>1. Keeps(i) /\ CommandAtCell(i) /\ i <= cmd_now /\ InstructionOf(i) < Coming
  BY SenseKept DEF Placed
<1>2. CommandAtCell(i)' /\ InstructionOf(i)' = InstructionOf(i)
  BY <1>1 DEF Keeps
<1>3. i \in Nat /\ InstructionOf(i) \in Nat
  BY <1>1, Reading
<1>4. cmd_now \in Nat /\ cmd_now' \in Nat /\ Coming \in Nat
  <2>1. cmd_now \in Nat
    BY LenProperties DEF CellInv
  <2>2. CellInv'
    BY CellsAtStep
  <2>3. cmd_now' \in Nat
    BY <2>2, LenProperties DEF CellInv
  <2>4. QED
    BY <2>1, <2>3, OpenedNext DEF Coming
<1>5. InstructionOf(i)' < Coming' /\ i <= cmd_now'
  BY <1>1, <1>2, <1>3, <1>4
<1>6. QED
  BY <1>1, <1>2, <1>5 DEF Placed

LEMMA JointsKept ==
  ASSUME CellInv, [Next]_vars, Children, Joints,
         \A i, in, fd, out : Born(i, in, fd, out)' => Born(i, in, fd, out)
  PROVE  Joints'
<1>1. SUFFICES ASSUME NEW i, NEW in, NEW fd, NEW out, NEW j, NEW in2, NEW fd2, NEW out2,
                      Born(i, in, fd, out)', Born(j, in2, fd2, out2)'
               PROVE  Joint(i, out, j, in2)'
  BY DEF Joints
<1>2. Born(i, in, fd, out) /\ Born(j, in2, fd2, out2)
  BY <1>1
<1>3. Joint(i, out, j, in2) /\ CommandAtCell(i) /\ CommandAtCell(j)
  BY <1>2, Zenon DEF Joints, Children, ChildIs, Placed
<1>4. Keeps(i) /\ Keeps(j) /\ (Feeds(i, j)' <=> Feeds(i, j))
  BY <1>3, SenseKept, FeedsKept
<1>5. (Expected(i)' <=> Expected(i)) /\ (UserPiped(j)' <=> UserPiped(j))
  BY <1>4 DEF Keeps
<1>6. QED
  BY <1>3, <1>4, <1>5 DEF Joint

-----------------------------------------------------------------------------
(* The steps that only move the cursor, with no command in hand.           *)

Quiet ==
  /\ UNCHANGED <<job, at, number, box, user_pipe, wr, rd, pipes, procs, lost>>
  /\ ~Handling /\ ~Handling' /\ job = "none"
  /\ pc' \in {"event", "prompt", "skip"}
  /\ fd_out' \in {0, fd_out} /\ (Onward' => fd_out' = 0 /\ Heads')
  /\ cmd_now' >= cmd_now /\ Coming' = Coming /\ Coming \in Nat
  /\ pc' = "skip" => cmd_now' > 0 /\ cmds'[cmd_now'] # <<>>

LEMMA QuietStep ==
  ASSUME CellInv, ShellTypes, [Next]_vars, JoinState, Quiet
  PROVE  JoinState'
<1>1. Hands /\ NextIs /\ RingIs /\ Children /\ Joints
  BY DEF JoinState
<1>2. /\ UNCHANGED <<job, at, number, box, user_pipe, wr, rd, pipes, procs, lost>>
      /\ ~Handling' /\ job = "none" /\ Boxed' = Boxed
      /\ fd_out' \in {0, fd_out} /\ (Onward' => fd_out' = 0 /\ Heads')
      /\ pc' = "skip" => cmd_now' > 0 /\ cmds'[cmd_now'] # <<>>
  BY DEF Quiet, Boxed
<1>3. ~Starting' /\ ~Pending' /\ 0 \notin Boxed /\ 0 \notin lost
  BY <1>2, Boxes DEF Handling, Pending
<1>4. Hands'
  BY <1>2, <1>3 DEF Hands, HandIs, OutputIs
<1>5. NextIs'
  BY <1>2, <1>3 DEF NextIs
<1>6. \A p : ComesTo(p)' => ComesTo(p)
  BY <1>2, <1>3 DEF ComesTo
<1>7. RingIs'
  BY <1>1, <1>2, <1>3, <1>6 DEF RingIs
<1>8. Children'
  <2>1. SUFFICES ASSUME NEW i, NEW in, NEW fd, NEW out, Born(i, in, fd, out)'
                 PROVE  ChildIs(i, in, fd, out)'
    BY DEF Children
  <2>2. ChildIs(i, in, fd, out)
    BY <1>1, <1>2, <2>1, SameChildren, Zenon DEF Children
  <2>3. Placed(i)' /\ Keeps(i)
    BY <2>2, PlacedKept DEF ChildIs, Quiet
  <2>4. out \in Made' /\ out \notin lost' /\ fd \in Held' /\ in \in {0, fd} /\ ~ComesTo(fd)'
    BY <1>2, <1>6, <2>2 DEF ChildIs, Held, Made
  <2>5. ASSUME NEW a, a = at', Expected(i)' PROVE Sends(i, out, a)'
    <3>1. a = at /\ Expected(i)
      BY <1>2, <2>3, <2>5 DEF Keeps
    <3>2. /\ Past(i) /\ (out # 0 => out # user_pipe) /\ ToBox(i, out)
      BY <2>2, <3>1, Zenon DEF ChildIs, Sends
    <3>3. Past(i)'
      <4>1. PipeOf(i)' = PipeOf(i) /\ PipeOf(i) <= cmd_now /\ PipeOf(i) \in Nat
        BY <2>2, <2>3, <3>2, Reading DEF Keeps, Past, ChildIs, Placed
      <4>2. cmd_now \in Nat /\ cmd_now' \in Nat /\ cmd_now' >= cmd_now
        BY CellsAtStep, LenProperties DEF Quiet, CellInv
      <4>3. QED
        BY <1>2, <4>1, <4>2 DEF Past
    <3>4. ToHand(i, out, a)' /\ ToNext(i, out)'
      BY <1>2, <1>3 DEF ToHand, ToNext
    <3>5. ToBox(i, out)'
      BY <1>2, <2>3, <3>2 DEF ToBox, Quiet, Keeps
    <3>6. (out # 0 => out # user_pipe)'
      BY <1>2, <3>2
    <3>7. QED
      BY <3>3, <3>4, <3>5, <3>6 DEF Sends
  <2>6. \A a : a = at' => Sends(i, out, a)'
    BY <2>5 DEF Sends
  <2>7. QED
    BY <2>3, <2>4, <2>6 DEF ChildIs
<1>9. Joints'
  BY <1>1, <1>2, SameChildren, JointsKept
<1>10. QED
  BY <1>4, <1>5, <1>7, <1>8, <1>9 DEF JoinState

LEMMA QuietIs ==
  ASSUME CellInv, CellRules, ShellTypes, NextIs,
         ShellReads \/ ShellPrompts \/ NoInstruction \/ SkipRest
  PROVE  Quiet
<1>0. /\ ControlTypes /\ cmd_now \in Nat /\ cmd_count \in Nat /\ cmd_now \in 0..cmd_count
      /\ [Next]_vars
  BY Numbers DEF ShellTypes, CellInv, ShellReads, ShellPrompts, NoInstruction, SkipRest, Next
<1>1. UNCHANGED <<job, at, number, box, user_pipe, wr, rd, pipes, procs, lost>>
  BY DEF ShellReads, ShellPrompts, NoInstruction, SkipRest, shellVars, command, tables, ends
<1>2. CASE ShellReads
  <2>1. ReadLine /\ pc = "prompt" /\ pc' = "event" /\ fd_out' = 0 /\ cmd_now' = cmd_now
    BY <1>2 DEF ShellReads, ReadLine, Typed
  <2>2. isempty /\ job = "none"
    BY <1>0, <2>1 DEF CellInv, ControlTypes
  <2>3. Heads'
    <3>1. cmd_now = 0 \/ cmds[cmd_now] = <<>>
      <4>1. cmd_now = Len(cmds) /\ (cmds # <<>> => cmds[Len(cmds)] = <<>>)
        BY <2>2 DEF CellInv, isempty
      <4>2. cmds = <<>> => Len(cmds) = 0
        OBVIOUS
      <4>3. QED
        BY <4>1, <4>2
    <3>2. cmd_now # 0 => cmds'[cmd_now] = cmds[cmd_now]
      BY <1>0, CellsGrow DEF Extends
    <3>3. QED
      BY <2>1, <3>1, <3>2 DEF Heads
  <2>4. Coming' = Coming /\ Coming \in Nat
    BY <1>0, <2>1, ComingStays
  <2>5. QED
    BY <1>0, <1>1, <2>1, <2>2, <2>3, <2>4 DEF Quiet, Handling, Starting
<1>3. CASE ShellPrompts
  <2>1. pc = "event" /\ pc' = "prompt" /\ cmd_now' = cmd_now /\ job = "none"
        /\ fd_out' = fd_out
    BY <1>3 DEF ShellPrompts, LineDone, cursor, shellVars, command
  <2>2. Coming' = Coming /\ Coming \in Nat
    BY <1>0, <2>1, ComingStays
  <2>3. QED
    BY <1>0, <1>1, <2>1, <2>2 DEF Quiet, Handling, Starting, Onward
<1>4. CASE NoInstruction
  <2>1. /\ pc = "event" /\ pc' = "event" /\ fd_out' = 0 /\ job = "none" /\ ~isempty
        /\ get_next_cmd /\ Fetched = <<>>
    BY <1>4 DEF NoInstruction, FetchEvent, builtin
  <2>2. cmd_now' = cmd_now + 1 /\ cmds' = cmds /\ cmds[cmd_now + 1] = <<>>
    BY <2>1 DEF get_next_cmd, Fetched
  <2>3. Coming' = Coming /\ Coming \in Nat
    <3>1. Coming' = Coming + 0 /\ Coming \in Nat
      BY <2>1, ComingAtFetch
    <3>2. QED
      BY <3>1
  <2>4. Heads'
    BY <2>2 DEF Heads
  <2>5. QED
    BY <1>0, <1>1, <2>1, <2>2, <2>3, <2>4 DEF Quiet, Handling, Starting
<1>5. CASE SkipRest
  <2>1. /\ pc = "skip" /\ ~isempty /\ get_next_cmd /\ fd_out' = fd_out
        /\ pc' = IF Fetched = <<>> THEN "event" ELSE "skip"
    BY <1>5 DEF SkipRest, Skip, CellInv, NeverPastEnd, shellVars, command
  <2>2. fd_out = 0 /\ job = "none" /\ cmd_now > 0 /\ cmds[cmd_now] # <<>>
    BY <1>0, <2>1 DEF ControlTypes, NextIs
  <2>3. cmd_now' = cmd_now + 1 /\ cmds' = cmds /\ Fetched = cmds[cmd_now + 1]
    BY <2>1 DEF get_next_cmd, Fetched
  <2>4. Coming' = Coming /\ Coming \in Nat
    <3>1. ~FirstOne(cmd_now + 1)
      BY <1>0, <2>2, HeadsIs DEF Heads
    <3>2. Coming' = Coming + 0 /\ Coming \in Nat
      BY <2>1, <3>1, ComingAtFetch
    <3>3. QED
      BY <3>2
  <2>5. Fetched = <<>> => Heads'
    BY <2>3 DEF Heads
  <2>6. cmd_now' > 0 /\ (Fetched # <<>> => cmds'[cmd_now'] # <<>>)
    BY <1>0, <2>3
  <2>7. QED
    BY <1>0, <1>1, <2>1, <2>2, <2>3, <2>4, <2>5, <2>6 DEF Quiet, Handling, Starting, Onward
<1>6. QED
  BY <1>2, <1>3, <1>4, <1>5

-----------------------------------------------------------------------------
(* Children end and are waited for.                                        *)

(* A step of a child or of the handler, or none.                           *)
LEMMA StillChildren ==
  ASSUME CellInv, ShellTypes,
         UNCHANGED allVars \/ Wait \/ child_handler \/ \E c \in DOMAIN procs : ChildEnds(c)
  PROVE  /\ Reaping
         /\ UNCHANGED <<lines, instrusion_count>>
         /\ \A i, in, fd, out : Born(i, in, fd, out)' => Born(i, in, fd, out)
<1>1. DOMAIN procs = 1..Len(procs) /\ Len(procs) \in Nat /\ procs \in Seq(Child)
  BY Numbers DEF ShellTypes, ChildTypes
<1>2. procs \in [1..Len(procs) -> Child]
  BY <1>1, ElementOfSeq
<1>3. wr \in [Pipe -> SUBSET (0..Len(procs))] /\ rd \in [Pipe -> SUBSET (0..Len(procs))]
  BY DEF ShellTypes, EndTypes
<1>4. Reaping
  <2>1. CASE UNCHANGED allVars
    BY <1>2, <1>3, <2>1 DEF Reaping, allVars, vars, cursor, shellVars, command, tables, ends
  <2>2. QED
    BY <2>1, Reaps
<1>5. UNCHANGED <<lines, instrusion_count>>
  BY DEF allVars, vars, cursor, Wait, child_handler, ChildEnds
<1>6. /\ DOMAIN procs' = DOMAIN procs
      /\ \A c \in DOMAIN procs : procs'[c].at = procs[c].at
  <2>1. CASE UNCHANGED allVars
    BY <2>1 DEF allVars, shellVars
  <2>2. CASE Wait
    BY <1>2, <2>2 DEF Wait, Child
  <2>3. CASE child_handler
    BY <1>2, <2>3 DEF child_handler, Child
  <2>4. CASE \E c \in DOMAIN procs : ChildEnds(c)
    BY <1>2, <2>4 DEF ChildEnds, Child
  <2>5. QED
    BY <2>1, <2>2, <2>3, <2>4
<1>7. \A c \in DOMAIN procs : /\ procs'[c].fd_in = procs[c].fd_in /\ procs'[c].in = procs[c].in
                              /\ procs'[c].out = procs[c].out
  BY <1>1, <1>4 DEF Reaping
<1>8. \A i, in, fd, out : Born(i, in, fd, out)' => Born(i, in, fd, out)
  BY <1>6, <1>7 DEF Born
<1>9. QED
  BY <1>4, <1>5, <1>8

(* The cells and the cursor stay.                                          *)
Still == UNCHANGED <<program, pc, cmds, cmd_now, cmd_count>>

LEMMA StillIs ==
  ASSUME CellInv, [Next]_vars, Still
  PROVE  /\ Coming \in Nat /\ Coming' = Coming /\ cmd_now \in Nat
         /\ (Onward' <=> Onward) /\ (Ends' <=> Ends) /\ (Heads' <=> Heads)
         /\ \A i : Placed(i) => Placed(i)' /\ Keeps(i)
         /\ UNCHANGED <<program, pc, cmds, cmd_now, cmd_count>>
<1>1. UNCHANGED <<program, pc, cmds, cmd_now, cmd_count>>
  BY DEF Still
<1>2. Coming \in Nat /\ Coming' = Coming /\ cmd_now \in Nat
  BY <1>1, ComingStays, LenProperties DEF CellInv
<1>3. (Onward' <=> Onward) /\ (Ends' <=> Ends) /\ (Heads' <=> Heads)
  BY <1>1 DEF Onward, Ends, Heads, isempty, Fetched
<1>4. ASSUME NEW i, Placed(i) PROVE Placed(i)' /\ Keeps(i)
  <2>1. Coming' >= Coming /\ cmd_now' >= cmd_now
    BY <1>1, <1>2
  <2>2. QED
    BY <1>2, <1>4, <2>1, PlacedKept
<1>5. QED
  BY <1>1, <1>2, <1>3, <1>4

(* The command in hand stays in hand.                                      *)
LEMMA HandStill ==
  ASSUME CellInv, [Next]_vars, Still, NEW a, HandIs(a), Handling, Handling',
         UNCHANGED <<instruction_count, in_operator, out_operator>>,
         Starting' => Starting
  PROVE  HandIs(a)'
<1>1. /\ Coming' = Coming /\ UNCHANGED <<pc, cmd_now>>
  BY StillIs
<1>2. CommandAtCell(a) /\ Keeps(a) /\ CommandAtCell(a)'
  BY SenseKept DEF HandIs, Keeps
<1>3. /\ PipeOf(a)' = PipeOf(a) /\ InstructionOf(a)' = InstructionOf(a)
      /\ UserPiped(a)' <=> UserPiped(a)
  BY <1>2 DEF Keeps
<1>4. QED
  BY <1>1, <1>2, <1>3 DEF HandIs

LEMMA ReapingStep ==
  ASSUME CellInv, ShellTypes, [Next]_vars, JoinState, Reaping,
         \A i, in, fd, out : Born(i, in, fd, out)' => Born(i, in, fd, out)
  PROVE  JoinState'
<1>1. Hands /\ NextIs /\ RingIs /\ Children /\ Joints
  BY DEF JoinState
<1>2. Still
  BY DEF Still, Reaping
<1>3. /\ Coming' = Coming /\ (Onward' <=> Onward) /\ (Ends' <=> Ends) /\ (Heads' <=> Heads)
      /\ UNCHANGED <<pc, cmds, cmd_now>>
      /\ \A i : Placed(i) => Placed(i)' /\ Keeps(i)
  BY <1>2, StillIs
<1>4. /\ UNCHANGED <<at, instruction_count, fd_in, fd_out, number, in_operator, out_operator>>
      /\ UNCHANGED <<box, user_pipe, pipes, lost, Boxed>>
      /\ job' = job \/ (job = "wait" /\ job' = "none")
      /\ (Starting' <=> Starting) /\ (Handling' <=> Handling) /\ (Pending' <=> Pending)
      /\ \A p \in Pipe :
           /\ Shell \in wr[p] => Shell \in wr'[p]
           /\ Shell \in rd[p] /\ Shell \notin rd'[p] => \E c \in 1..Len(procs) : procs[c].fd_in = p
  BY DEF Reaping, Boxed, Starting, Handling, Pending
<1>5. ASSUME NEW a, a = at' PROVE HandIs(a)' /\ OutputIs(a)'
  <2>1. HandIs(a) /\ OutputIs(a)
    BY <1>1, <1>4, <1>5 DEF Hands
  <2>2. HandIs(a)'
    <3>1. CASE Handling
      BY <1>2, <1>4, <2>1, <3>1, HandStill
    <3>2. CASE ~Handling
      BY <1>4, <3>2 DEF HandIs
    <3>3. QED
      BY <3>1, <3>2
  <2>3. OutputIs(a)'
    <3>1. CASE Starting
      <4>1. Keeps(a) /\ Handling
        BY <2>1, <3>1, SenseKept DEF HandIs, Handling
      <4>2. /\ Behind(a)' = Behind(a)
            /\ Expected(a)' <=> Expected(a)
            /\ Plainly(a)' <=> Plainly(a)
            /\ Numbering(a)' <=> Numbering(a)
        BY <4>1 DEF Keeps
      <4>3. job' = job
        BY <1>4, <3>1 DEF Starting
      <4>4. QED
        BY <1>3, <1>4, <2>1, <4>2, <4>3 DEF OutputIs
    <3>2. CASE ~Starting
      BY <1>4, <3>2 DEF OutputIs
    <3>3. QED
      BY <3>1, <3>2
  <2>4. QED
    BY <2>2, <2>3
<1>6. Hands'
  BY <1>5 DEF Hands
<1>7. NextIs'
  BY <1>1, <1>3, <1>4 DEF NextIs
<1>8. \A p : ComesTo(p)' <=> ComesTo(p)
  BY <1>3, <1>4 DEF ComesTo
<1>9. RingIs'
  <2>1. ASSUME NEW p \in Pipe, ComesTo(p)' PROVE Shell \in rd'[p]
    <3>1. ComesTo(p) /\ Shell \in rd[p]
      BY <1>1, <1>8, <2>1 DEF RingIs
    <3>2. ASSUME NEW c \in 1..Len(procs), procs[c].fd_in = p PROVE FALSE
      <4>1. c \in DOMAIN procs
        BY <3>2, Numbers
      <4>2. Born(procs[c].at, procs[c].in, p, procs[c].out)
        BY <3>2, <4>1 DEF Born
      <4>3. ChildIs(procs[c].at, procs[c].in, p, procs[c].out)
        BY <1>1, <4>2, Zenon DEF Children
      <4>4. QED
        BY <3>1, <4>3 DEF ChildIs
    <3>3. QED
      BY <1>4, <3>1, <3>2
  <2>2. \A p \in Boxed : p \in Pipe
    BY Boxes
  <2>3. QED
    BY <1>1, <1>4, <2>1, <2>2 DEF RingIs
<1>10. Children'
  <2>1. SUFFICES ASSUME NEW i, NEW in, NEW fd, NEW out, Born(i, in, fd, out)'
                 PROVE  ChildIs(i, in, fd, out)'
    BY DEF Children
  <2>2. ChildIs(i, in, fd, out)
    BY <1>1, <2>1, Zenon DEF Children
  <2>3. Placed(i)' /\ Keeps(i)
    BY <1>3, <2>2 DEF ChildIs
  <2>4. out \in Made' /\ out \notin lost' /\ fd \in Held' /\ in \in {0, fd} /\ ~ComesTo(fd)'
    BY <1>4, <1>8, <2>2 DEF ChildIs, Held, Made
  <2>5. ASSUME NEW a, a = at', Expected(i)' PROVE Sends(i, out, a)'
    <3>1. a = at /\ Expected(i)
      BY <1>4, <2>3, <2>5 DEF Keeps
    <3>2. /\ Past(i) /\ (out # 0 => out # user_pipe)
          /\ ToHand(i, out, a) /\ ToNext(i, out) /\ ToBox(i, out)
      BY <2>2, <3>1, Zenon DEF ChildIs, Sends
    <3>3. Past(i)'
      BY <1>3, <1>4, <2>3, <3>2 DEF Past, Keeps
    <3>4. ToHand(i, out, a)'
      <4>1. Handling => CommandAtCell(a)
        BY <1>1, <3>1 DEF Hands, HandIs
      <4>2. Handling => (Feeds(i, a)' <=> Feeds(i, a))
        BY <2>2, <4>1, FeedsKept DEF ChildIs, Placed
      <4>3. QED
        BY <1>4, <3>2, <4>2 DEF ToHand
    <3>5. ToNext(i, out)'
      <4>1. job' = job \/ fd_out = 0
        BY <1>4 DEF ShellTypes, ControlTypes
      <4>2. QED
        BY <1>3, <1>4, <2>3, <3>2, <4>1 DEF ToNext, Keeps
    <3>6. ToBox(i, out)'
      BY <1>3, <1>4, <2>3, <3>2 DEF ToBox, Keeps
    <3>7. (out # 0 => out # user_pipe)'
      BY <1>4, <3>2
    <3>8. QED
      BY <3>3, <3>4, <3>5, <3>6, <3>7 DEF Sends
  <2>6. \A a : a = at' => Sends(i, out, a)'
    BY <2>5 DEF Sends
  <2>7. QED
    BY <2>3, <2>4, <2>6 DEF ChildIs
<1>11. Joints'
  BY <1>1, JointsKept
<1>12. QED
  BY <1>6, <1>7, <1>9, <1>10, <1>11 DEF JoinState

-----------------------------------------------------------------------------
(* User pipes take the place of pipes, but not of those that Joined speaks *)
(* of.                                                                     *)

LEMMA UserPipesDo ==
  ASSUME CellInv, ShellTypes, JoinState, ReceivePipe \/ SendPipe
  PROVE  /\ Still /\ Pending /\ job' \in {"send", "fork"} /\ pc = "event"
         /\ in_operator \/ out_operator
         /\ UNCHANGED <<at, instruction_count, number, in_operator, out_operator, box, procs>>
         /\ Made \subseteq Made' /\ Held \subseteq Held' /\ Boxed' = Boxed
         /\ fd_in' = fd_in \/ fd_in' = DevNull \/ (fd_in' = user_pipe /\ user_pipe' # user_pipe)
         /\ ~in_operator => fd_in' = fd_in
         /\ ~out_operator => fd_out' = fd_out
         /\ fd_out' = fd_out \/ fd_out' = DevNull \/ fd_out' = user_pipe'
         /\ fd_out' # 0 \/ fd_out' = fd_out
         /\ Pending' => fd_out' = fd_out /\ user_pipe' \in {0, user_pipe}
         /\ user_pipe' \in {0, user_pipe} \/ (user_pipe' \notin Held /\ user_pipe' \in Pipe)
         /\ ~in_operator /\ user_pipe # 0 => user_pipe' = user_pipe
         /\ fd_out' \in {fd_out, DevNull} \/ (fd_out' \notin Held /\ fd_out' \in Pipe)
         /\ lost \subseteq lost'
         /\ \A p \in lost' : p \in lost \/ (p \notin Held /\ p # fd_out')
         /\ \A p \in Pipe : /\ Shell \in wr[p] => Shell \in wr'[p]
                            /\ Shell \in rd[p] => Shell \in rd'[p]
<1> DEFINE Q == pipes'
<1>1. /\ Still /\ Pending /\ job' \in {"send", "fork"} /\ pc = "event"
      /\ UNCHANGED <<at, instruction_count, number, in_operator, out_operator, box, procs>>
      /\ Boxed' = Boxed
  <2>1. job # "none" => pc = "event"
    BY DEF ShellTypes, ControlTypes
  <2>2. QED
    BY <2>1 DEF ReceivePipe, SendPipe, Pending, Still, vars, cursor, Boxed
<1>2. /\ ReceivePipe => in_operator
      /\ SendPipe => out_operator /\ ~Pending'
  BY DEF ShellTypes, ControlTypes, ReceivePipe, SendPipe, Pending
<1>3. /\ EndTypes /\ TableTypes /\ Len(procs) \in Nat /\ pipes \in Nat
      /\ user_pipe \in Made /\ user_pipe \in Held /\ fd_out \in Held
      /\ DevNull # 0 /\ DevNull \in Held
  BY Numbers, Boxes DEF ShellTypes, EndTypes, TableTypes, Held
<1>4. ASSUME get_new_fd
      PROVE  /\ Made \subseteq Made' /\ Held \subseteq Held'
             /\ \A p \in Pipe : /\ Shell \in wr[p] => Shell \in wr'[p]
                                /\ Shell \in rd[p] => Shell \in rd'[p]
             /\ Q \in Pipe /\ Q \notin Held
  <2>1. /\ Q = pipes + 1 /\ Q \in Pipe /\ Q \notin Made /\ Q # 0 /\ Q # DevNull
        /\ wr'[Q] = {Shell} /\ rd'[Q] = {Shell}
        /\ \A p \in Pipe \ {Q} : wr'[p] = wr[p] /\ rd'[p] = rd[p]
    BY <1>1, <1>3, <1>4, NewPipe
  <2>2. Made \subseteq Made' /\ Held \subseteq Held' /\ Q \notin Held
    BY <1>3, <2>1 DEF Made, Held
  <2>3. \A p \in Pipe : /\ Shell \in wr[p] => Shell \in wr'[p]
                        /\ Shell \in rd[p] => Shell \in rd'[p]
    BY <2>1
  <2> HIDE DEF Q
  <2>4. QED
    BY <2>1, <2>2, <2>3
<1>5. CASE ReceivePipe /\ user_pipe # 0
  <2>1. fd_in' = user_pipe /\ user_pipe' = 0 /\ UNCHANGED <<fd_out, wr, rd, pipes, lost>>
    BY <1>5 DEF ReceivePipe, ends
  <2>2. Made' = Made /\ Held' = Held
    BY <2>1 DEF Made, Held
  <2>3. QED
    BY <1>1, <1>2, <1>5, <2>1, <2>2
<1>6. CASE ReceivePipe /\ user_pipe = 0
  <2>1. get_new_fd /\ fd_in' = DevNull /\ lost' = lost \union {Q} /\ UNCHANGED <<fd_out, user_pipe>>
    BY <1>6 DEF ReceivePipe, Refuse
  <2> HIDE DEF Q
  <2>2. QED
    BY <1>1, <1>2, <1>3, <1>4, <1>6, <2>1
<1>7. CASE SendPipe /\ user_pipe = 0
  <2>1. get_new_fd /\ fd_out' = Q /\ user_pipe' = Q /\ UNCHANGED <<fd_in, lost>>
    BY <1>7 DEF SendPipe
  <2>2. 0 \notin Pipe
    BY Boxes
  <2> HIDE DEF Q
  <2>3. QED
    BY <1>1, <1>2, <1>3, <1>4, <1>7, <2>1, <2>2
<1>8. CASE SendPipe /\ user_pipe # 0
  <2>1. /\ get_new_fd /\ fd_out' = DevNull /\ lost' = lost \union {Q}
        /\ UNCHANGED <<fd_in, user_pipe>>
    BY <1>8 DEF SendPipe, Refuse
  <2> HIDE DEF Q
  <2>2. QED
    BY <1>1, <1>2, <1>3, <1>4, <1>8, <2>1
<1>9. QED
  BY <1>5, <1>6, <1>7, <1>8

LEMMA UserPipesStep ==
  ASSUME CellInv, ShellTypes, [Next]_vars, JoinState, ReceivePipe \/ SendPipe
  PROVE  JoinState'
<1>1. Hands /\ NextIs /\ RingIs /\ Children /\ Joints
  BY DEF JoinState
<1>2. Still /\ Pending /\ job' \in {"send", "fork"} /\ pc = "event"
  BY UserPipesDo
<1>3. /\ UNCHANGED <<at, instruction_count, number, in_operator, out_operator, box, procs>>
      /\ Made \subseteq Made' /\ Held \subseteq Held' /\ Boxed' = Boxed
  BY UserPipesDo
<1>4. /\ fd_in' = fd_in \/ fd_in' = DevNull \/ (fd_in' = user_pipe /\ user_pipe' # user_pipe)
      /\ ~in_operator => fd_in' = fd_in
  BY UserPipesDo
<1>5. /\ ~out_operator => fd_out' = fd_out
      /\ fd_out' = fd_out \/ fd_out' = DevNull \/ fd_out' = user_pipe'
      /\ Pending' => fd_out' = fd_out /\ user_pipe' \in {0, user_pipe}
      /\ fd_out' # 0 \/ fd_out' = fd_out
      /\ fd_out' \in {fd_out, DevNull} \/ (fd_out' \notin Held /\ fd_out' \in Pipe)
  BY UserPipesDo
<1>6. /\ user_pipe' \in {0, user_pipe} \/ (user_pipe' \notin Held /\ user_pipe' \in Pipe)
      /\ ~in_operator /\ user_pipe # 0 => user_pipe' = user_pipe
      /\ lost \subseteq lost' /\ \A p \in lost' : p \in lost \/ (p \notin Held /\ p # fd_out')
  BY UserPipesDo
<1>7. \A p \in Pipe : /\ Shell \in wr[p] => Shell \in wr'[p]
                      /\ Shell \in rd[p] => Shell \in rd'[p]
  BY UserPipesDo
<1>8. /\ Coming' = Coming /\ (Onward' <=> Onward) /\ (Ends' <=> Ends) /\ (Heads' <=> Heads)
      /\ UNCHANGED <<pc, cmds, cmd_now>>
      /\ \A i : Placed(i) => Placed(i)' /\ Keeps(i)
  BY <1>2, StillIs
<1>9. Starting /\ Starting' /\ Handling /\ Handling' /\ job' # "none"
  BY <1>2 DEF Starting, Pending, Handling
<1>10. /\ in_operator \/ out_operator
       /\ out_operator /\ fd_out = 0 => Ends
       /\ Onward => (Heads <=> fd_out = 0) /\ fd_out \notin Boxed
       /\ number # -1 => Ends
       /\ user_pipe \notin Boxed /\ fd_in \notin Boxed
       /\ \A p \in lost : p \notin Boxed /\ p # fd_out
  BY <1>1, <1>2, <1>9, UserPipesDo DEF NextIs, RingIs
<1>11. /\ Boxed \subseteq Held /\ DevNull \notin Boxed /\ 0 \notin Boxed
       /\ fd_in \in Held /\ fd_out \in Held /\ user_pipe \in Held /\ DevNull # 0
       /\ DevNull \notin Pipe /\ 0 \notin Pipe /\ DevNull \in Held /\ Boxed \subseteq Pipe
       /\ lost \subseteq Held /\ DevNull \notin lost
  <2>1. /\ fd_in \in Held /\ fd_out \in Held /\ user_pipe \in Held
    BY DEF ShellTypes, TableTypes, Held
  <2>2. Boxed \subseteq Held /\ lost \subseteq Held
    BY Boxes DEF Held, Made
  <2>3. QED
    BY <2>1, <2>2, Boxes DEF Held
<1>12. HandIs(at) /\ OutputIs(at)
  BY <1>1 DEF Hands
<1>13. /\ fd_out = fd_in => fd_out \notin Pipe
       /\ number = -1 => fd_out \notin Boxed
       /\ fd_out # 0 => fd_out # user_pipe
       /\ ~out_operator /\ fd_out # 0 => fd_out \in Pipe /\ Shell \in wr[fd_out]
       /\ ~out_operator /\ number # -1 =>
            fd_out # 0 /\ fd_out = box[Entry(instruction_count, number)]
  BY <1>2, <1>9, <1>12 DEF OutputIs
<1>14. fd_out' \notin Boxed \/ fd_out' = fd_out
  BY <1>5, <1>11
<1>15. ASSUME NEW a, a = at' PROVE HandIs(a)' /\ OutputIs(a)'
  <2>1. HandIs(a) /\ a = at
    BY <1>1, <1>3, <1>15 DEF Hands
  <2>2. HandIs(a)'
    BY <1>2, <1>3, <1>9, <2>1, HandStill
  <2>3. ~Expected(a)'
    <3>1. UserPiped(a) /\ CommandAtCell(a)
      BY <1>9, <1>10, <2>1 DEF HandIs
    <3>2. UserPiped(a)'
      BY <3>1, SenseKept DEF Keeps
    <3>3. QED
      BY <3>2 DEF Expected
  <2>4. fd_out' = fd_in' => fd_out' \notin Pipe
    BY <1>4, <1>5, <1>11, <1>13
  <2>5. number = -1 => fd_out' \notin Boxed
    BY <1>13, <1>14
  <2>6. ~out_operator /\ fd_out # 0 => fd_out # user_pipe'
    BY <1>6, <1>11, <1>13
  <2>7. Pending' /\ fd_out' # 0 => fd_out' # user_pipe'
    BY <1>5, <1>13
  <2>8. OutputIs(a)'
    BY <1>3, <1>5, <1>7, <1>13, <2>3, <2>4, <2>5, <2>6, <2>7 DEF OutputIs
  <2>9. QED
    BY <2>2, <2>8
<1>16. Hands'
  BY <1>15 DEF Hands
<1>17. NextIs'
  <2>1. Onward => (Heads <=> fd_out' = 0)
    BY <1>5, <1>10 DEF Onward
  <2>2. Onward => fd_out' \notin Boxed
    BY <1>10, <1>14
  <2>3. QED
    BY <1>2, <1>3, <1>5, <1>8, <1>10, <2>1, <2>2 DEF NextIs
<1>18. ASSUME NEW p, ComesTo(p)' PROVE ComesTo(p)
  <2>1. /\ p \notin {0, DevNull, user_pipe'} /\ p \notin lost' /\ p \notin lost
        /\ p \in Boxed \/ (Onward /\ p = fd_out') \/ (~in_operator /\ p = fd_in')
    BY <1>3, <1>6, <1>8, <1>9, <1>18 DEF ComesTo
  <2>2. CASE p \in Boxed
    BY <1>10, <2>1, <2>2 DEF ComesTo
  <2>3. CASE Onward /\ p = fd_out'
    <3>1. p = fd_out /\ p # user_pipe
      BY <1>5, <1>13, <2>1, <2>3
    <3>2. QED
      BY <2>1, <2>3, <3>1 DEF ComesTo
  <2>4. CASE ~in_operator /\ p = fd_in'
    <3>1. p = fd_in /\ p # user_pipe
      BY <1>4, <1>6, <2>1, <2>4
    <3>2. QED
      BY <1>9, <2>1, <2>4, <3>1 DEF ComesTo
  <2>5. QED
    BY <2>1, <2>2, <2>3, <2>4
<1>19. RingIs'
  <2>1. \A p \in Pipe : ComesTo(p)' => Shell \in rd'[p]
    BY <1>1, <1>7, <1>18 DEF RingIs
  <2>2. user_pipe' \notin Boxed /\ fd_in' \notin Boxed
    BY <1>4, <1>6, <1>10, <1>11
  <2>3. \A p \in Boxed : Shell \in wr'[p]
    BY <1>1, <1>7, <1>11 DEF RingIs
  <2>4. \A p \in lost' : p \notin Boxed /\ p # fd_out'
    BY <1>5, <1>6, <1>10, <1>11
  <2>5. QED
    BY <1>1, <1>3, <2>1, <2>2, <2>3, <2>4 DEF RingIs
<1>20. Children'
  <2>1. SUFFICES ASSUME NEW i, NEW in, NEW fd, NEW out, Born(i, in, fd, out)'
                 PROVE  ChildIs(i, in, fd, out)'
    BY DEF Children
  <2>2. ChildIs(i, in, fd, out)
    BY <1>1, <1>3, <2>1, SameChildren, Zenon DEF Children
  <2>3. Placed(i)' /\ Keeps(i)
    BY <1>8, <2>2 DEF ChildIs
  <2>4. /\ out \in Made' /\ out \notin lost' /\ fd \in Held' /\ in \in {0, fd} /\ ~ComesTo(fd)'
        /\ out \in Held
    BY <1>3, <1>6, <1>18, <2>2 DEF ChildIs, Held
  <2>5. ASSUME NEW a, a = at', Expected(i)' PROVE Sends(i, out, a)'
    <3>1. a = at /\ Expected(i)
      BY <1>3, <2>3, <2>5 DEF Keeps
    <3>2. /\ Past(i) /\ (out # 0 => out # user_pipe)
          /\ ToHand(i, out, a) /\ ToNext(i, out) /\ ToBox(i, out)
      BY <2>2, <3>1, Zenon DEF ChildIs, Sends
    <3>3. Past(i)'
      BY <1>3, <1>8, <1>9, <2>3, <3>2 DEF Past, Keeps
    <3>4. ToHand(i, out, a)'
      <4>1. CommandAtCell(a)
        BY <1>9, <1>12, <3>1 DEF HandIs
      <4>2. Feeds(i, a)' <=> Feeds(i, a)
        BY <2>2, <4>1, FeedsKept DEF ChildIs, Placed
      <4>3. QED
        BY <1>3, <1>4, <1>9, <3>2, <4>2 DEF ToHand
    <3>5. ToNext(i, out)'
      <4>1. Onward /\ out # 0 => out # fd_out'
        <5>1. Onward /\ out # 0 => out # fd_out
          BY <1>9, <3>2 DEF ToNext
        <5>2. out # DevNull
          BY <2>2, Boxes DEF ChildIs, Made, DevNull
        <5>3. QED
          BY <1>5, <2>4, <5>1, <5>2
      <4>2. QED
        BY <1>2, <1>8, <1>9, <4>1 DEF ToNext
    <3>6. ToBox(i, out)'
      BY <1>3, <1>8, <2>3, <3>2 DEF ToBox, Keeps
    <3>7. (out # 0 => out # user_pipe)'
      BY <1>6, <2>4, <3>2
    <3>8. QED
      BY <3>3, <3>4, <3>5, <3>6, <3>7 DEF Sends
  <2>6. \A a : a = at' => Sends(i, out, a)'
    BY <2>5 DEF Sends
  <2>7. QED
    BY <2>3, <2>4, <2>6 DEF ChildIs
<1>21. Joints'
  BY <1>1, <1>3, SameChildren, JointsKept
<1>22. QED
  BY <1>16, <1>17, <1>19, <1>20, <1>21 DEF JoinState

-----------------------------------------------------------------------------
(* A command is fetched: what the last one wrote is its input, or else     *)
(* what the ring holds for its instruction.                                *)

(* From the ring: the entry of the instruction is what the number leads    *)
(* to, since no number is larger than the ring.                            *)
LEMMA RightEntry ==
  ASSUME NEW t \in Nat, NEW k \in Nat, t >= k, t < k + max_store_num,
         t % max_store_num = Entry(k, 0)
  PROVE  t = k
<1>1. max_store_num \in Nat \ {0}
  BY LineShellAssumption
<1>2. k % max_store_num \in Nat /\ Entry(k, 0) = k % max_store_num
  <2>1. k % max_store_num \in 0..(max_store_num - 1)
    BY <1>1, Remainder
  <2>2. ((k % max_store_num) + 0) % max_store_num = (k + 0) % max_store_num
    BY <1>1, RemainderSum
  <2>3. k + 0 = k
    OBVIOUS
  <2>4. QED
    BY <1>1, <2>1, <2>2, <2>3 DEF Entry
<1>3. k % max_store_num = t % max_store_num
  BY <1>2
<1>4. QED
  BY <1>1, <1>3, RemainderOnce

LEMMA EntryIs ==
  ASSUME NEW k \in Nat, NEW n \in Nat
  PROVE  Entry(k, n) = (k + n) % max_store_num
BY LineShellAssumption, RemainderSum DEF Entry

LEMMA GetEventDoes ==
  ASSUME CellInv, ShellTypes, JoinState, GetEvent,
         NEW k, k = cmd_now + 1, NEW e, e = Entry(InstructionOf(k), 0)
  PROVE  /\ Onward /\ ~Starting /\ ~Starting' /\ job = "none" /\ job' = "none"
         /\ pc' \in {"operator", "skip"} /\ ~Onward' /\ ~Handling
         /\ at' = k /\ k \in Nat /\ cmd_now' = k /\ CommandAtCell(k) /\ CommandAtCell(k)'
         /\ PipeOf(k)' > k /\ InstructionOf(k)' = InstructionOf(k) /\ InstructionOf(k) \in Nat
         /\ instruction_count' = InstructionOf(k) /\ Coming' = InstructionOf(k) + 1
         /\ Coming = InstructionOf(k) + (IF Heads THEN 0 ELSE 1) /\ Coming \in Nat
         /\ FirstOne(k) <=> Heads
         /\ Heads <=> fd_out = 0
         /\ in_operator' = FALSE /\ out_operator' = FALSE
         /\ UNCHANGED <<user_pipe, rd, pipes, procs, cmds, lost>> /\ number' = -1 /\ fd_out' = 0
         /\ e \in Slot
         /\ fd_out # 0 => fd_in' = ReadEnd /\ box' = box /\ wr' = wr /\ fd_out \notin Boxed
         /\ ReadEnd = fd_out \/ (fd_out = DevNull /\ ReadEnd \in lost)
         /\ fd_out = 0 => /\ fd_in' = box[e] /\ box' = [box EXCEPT ![e] = 0]
                          /\ wr' = Closed(wr, box[e], Shell)
<1>1. /\ pc = "event" /\ job = "none" /\ Fetched # <<>> /\ ~isempty /\ get_next_cmd
      /\ pc' \in {"operator", "skip"}
      /\ [Next]_vars
  BY DEF GetEvent, FetchEvent, builtin, Next
<1>2. NextIs
  BY DEF JoinState
<1>3. /\ cmd_now \in Nat /\ Coming \in Nat
      /\ CommandAtCell(k)
      /\ instrusion_count = InstructionOf(k)
      /\ InstructionOf(k) \in Nat
      /\ Coming = InstructionOf(k) + (IF FirstOne(k) THEN 0 ELSE 1)
      /\ Coming' = Coming + (IF FirstOne(k) THEN 1 ELSE 0)
  BY <1>1, ComingAtFetch
<1>4. FirstOne(k) <=> Heads
  BY <1>3, HeadsIs
<1>5. Coming' = InstructionOf(k) + 1 /\ Coming = InstructionOf(k) + (IF Heads THEN 0 ELSE 1)
  BY <1>3, <1>4
<1>6. /\ Onward /\ ~Starting /\ ~Starting' /\ job' = "none" /\ ~Onward' /\ ~Handling
  BY <1>1 DEF Onward, Ends, Starting, Handling, GetEvent
<1>7. Heads <=> fd_out = 0
  BY <1>2, <1>6 DEF NextIs
<1>8. cmd_now' = k /\ cmds' = cmds /\ k \in Nat /\ at' = k
  BY <1>1, <1>3 DEF get_next_cmd, GetEvent
<1>9. CommandAtCell(k)' /\ PipeOf(k)' = PipeOf(k) /\ InstructionOf(k)' = InstructionOf(k)
  BY <1>1, <1>3, SenseKept DEF Keeps
<1>10. PipeOf(k) > k
  BY <1>3, <1>8, Reading
<1>11. e \in Slot
  BY <1>3, EntryType
<1>12. /\ instruction_count' = InstructionOf(k) /\ in_operator' = FALSE /\ out_operator' = FALSE
       /\ UNCHANGED <<user_pipe, rd, pipes, procs, lost>> /\ number' = -1 /\ fd_out' = 0
  BY <1>3 DEF GetEvent
<1>13. /\ fd_out # 0 => fd_in' = ReadEnd /\ box' = box /\ wr' = wr
       /\ fd_out = 0 => /\ fd_in' = box[e] /\ box' = [box EXCEPT ![e] = 0]
                        /\ wr' = Closed(wr, box[e], Shell)
  BY <1>3 DEF GetEvent, GiveUp, clean
<1>14. fd_out \notin Boxed
  BY <1>2, <1>6 DEF NextIs
<1>15. ReadEnd = fd_out \/ (fd_out = DevNull /\ ReadEnd \in lost)
  BY DEF ReadEnd, ShellTypes, LostTypes
<1>16. QED
  BY <1>1, <1>3, <1>4, <1>5, <1>6, <1>7, <1>8, <1>9, <1>10, <1>11, <1>12, <1>13, <1>14, <1>15

LEMMA GetEventRing ==
  ASSUME CellInv, ShellTypes, JoinState, GetEvent
  PROVE  /\ \A p : ComesTo(p)' => ComesTo(p)
         /\ RingIs'
         /\ Boxed' \subseteq Boxed /\ 0 \notin Boxed
<1>1. PICK k : k = cmd_now + 1
  OBVIOUS
<1>2. PICK e : e = Entry(InstructionOf(k), 0)
  OBVIOUS
<1>3. /\ Onward /\ ~Starting' /\ ~Onward' /\ e \in Slot
      /\ in_operator' = FALSE
      /\ UNCHANGED <<user_pipe, rd, pipes, procs, lost>> /\ fd_out' = 0
      /\ fd_out # 0 => fd_in' = ReadEnd /\ box' = box /\ wr' = wr /\ fd_out \notin Boxed
      /\ ReadEnd = fd_out \/ (fd_out = DevNull /\ ReadEnd \in lost)
      /\ fd_out = 0 => /\ fd_in' = box[e] /\ box' = [box EXCEPT ![e] = 0]
                       /\ wr' = Closed(wr, box[e], Shell)
  BY <1>1, <1>2, GetEventDoes
<1>4. /\ \A s, t \in Slot : box[s] = box[t] /\ box[s] # 0 => s = t
      /\ \A p \in Boxed : Shell \in wr[p]
      /\ \A p \in Pipe : ComesTo(p) => Shell \in rd[p]
      /\ user_pipe \notin Boxed
      /\ \A p \in lost : p \notin Boxed
  BY DEF JoinState, RingIs
<1>5. /\ box \in [Slot -> Made] /\ wr \in [Pipe -> SUBSET (0..Len(procs))]
      /\ 0 \notin Boxed /\ Boxed \subseteq Pipe /\ 0 \notin Pipe /\ 0 \notin lost
      /\ \A s \in Slot : box[s] # 0 => box[s] \in Boxed
  BY Boxes DEF ShellTypes, TableTypes, EndTypes
<1>6. CASE fd_out # 0
  <2>1. Boxed' = Boxed
    BY <1>3, <1>6 DEF Boxed
  <2>2. \A p : ComesTo(p)' => ComesTo(p)
    BY <1>3, <1>6, <2>1 DEF ComesTo
  <2>3. RingIs'
    BY <1>3, <1>4, <1>5, <1>6, <2>1, <2>2 DEF RingIs
  <2>4. QED
    BY <1>5, <2>1, <2>2, <2>3
<1>7. CASE fd_out = 0
  <2>1. \A s \in Slot : box'[s] = IF s = e THEN 0 ELSE box[s]
    BY <1>3, <1>5, <1>7
  <2>2. /\ Boxed' \subseteq Boxed /\ box[e] \notin Boxed'
    <3>1. \A p \in Boxed' : \E s \in Slot : box'[s] = p /\ p # 0
      BY DEF Boxed
    <3>2. \A p \in Boxed' : \E s \in Slot : s # e /\ box[s] = p /\ p # 0
      BY <2>1, <3>1
    <3>3. QED
      BY <1>3, <1>4, <1>5, <3>2
  <2>3. \A p : ComesTo(p)' => ComesTo(p)
    <3>1. ASSUME NEW p, ComesTo(p)' PROVE ComesTo(p)
      <4>1. p \notin {0, DevNull, user_pipe} \union lost /\ (p \in Boxed' \/ p = box[e])
        BY <1>3, <1>7, <3>1 DEF ComesTo
      <4>2. p \in Boxed
        BY <1>3, <1>5, <2>2, <4>1
      <4>3. QED
        BY <4>1, <4>2 DEF ComesTo
    <3>2. QED
      BY <3>1
  <2>4. \A p \in Pipe : p # box[e] => (Shell \in wr[p] => Shell \in wr'[p])
    BY <1>3, <1>5, <1>7 DEF Closed
  <2>5. RingIs'
    <3>1. \A p \in Boxed' : Shell \in wr'[p]
      BY <1>4, <1>5, <2>2, <2>4
    <3>2. \A p \in Pipe : ComesTo(p)' => Shell \in rd'[p]
      BY <1>3, <1>4, <2>3
    <3>3. \A s, t \in Slot : box'[s] = box'[t] /\ box'[s] # 0 => s = t
      BY <1>4, <2>1
    <3>4. QED
      BY <1>3, <1>4, <1>5, <1>7, <2>2, <3>1, <3>2, <3>3 DEF RingIs
  <2>6. QED
    BY <1>5, <2>2, <2>3, <2>5
<1>8. QED
  BY <1>6, <1>7

(* What becomes of the output of an older command.                         *)
LEMMA GetEventSends ==
  ASSUME CellInv, ShellTypes, JoinState, GetEvent, [Next]_vars,
         NEW k, k = cmd_now + 1, NEW i, NEW out, out \in Made, out \notin lost,
         Placed(i), Keeps(i), Expected(i), Sends(i, out, at)
  PROVE  Sends(i, out, k)'
<1>1. PICK e : e = Entry(InstructionOf(k), 0)
  OBVIOUS
<1>2. /\ Onward /\ ~Starting' /\ job = "none" /\ ~Onward'
      /\ at' = k /\ k \in Nat /\ cmd_now' = k /\ CommandAtCell(k)
      /\ InstructionOf(k) \in Nat
      /\ Coming' = InstructionOf(k) + 1
      /\ Coming = InstructionOf(k) + (IF Heads THEN 0 ELSE 1) /\ Coming \in Nat
      /\ FirstOne(k) <=> Heads
      /\ Heads <=> fd_out = 0
      /\ UNCHANGED <<user_pipe, cmds>>
      /\ e \in Slot
      /\ fd_out # 0 => fd_in' = ReadEnd /\ box' = box
      /\ ReadEnd = fd_out \/ (fd_out = DevNull /\ ReadEnd \in lost)
      /\ fd_out = 0 => fd_in' = box[e] /\ box' = [box EXCEPT ![e] = 0]
  BY <1>1, GetEventDoes
<1>3. /\ PipeOf(i)' = PipeOf(i) /\ Target(i)' = Target(i)
      /\ Plainly(i)' <=> Plainly(i)
      /\ Numbering(i)' <=> Numbering(i)
      /\ CommandAtCell(i) /\ InstructionOf(i) < Coming
  BY DEF Keeps, Placed
<1>4. /\ Past(i) /\ (out # 0 => out # user_pipe) /\ ToNext(i, out) /\ ToBox(i, out)
  BY DEF Sends
<1>5. /\ PipeOf(i) \in Nat /\ PipeOf(i) > 0 /\ PipeOf(i) <= cmd_now /\ cmd_now \in Nat
      /\ InstructionOf(i) \in Nat
  <2>1. PipeOf(i) \in (i + 1)..cmd_count /\ i \in Nat /\ cmd_count \in Nat
        /\ InstructionOf(i) \in Nat
    BY <1>3, Reading
  <2>2. cmd_now \in Nat
    BY LenProperties DEF CellInv
  <2>3. QED
    BY <1>4, <2>1, <2>2 DEF Past
<1>6. Numbering(i) => /\ Target(i) \in Nat /\ Target(i) > InstructionOf(i)
                      /\ Target(i) < Coming + max_store_num
  <2>1. Numbering(i) => Head(Behind(i)).n \in Nat /\ Head(Behind(i)).n > 0
    BY <1>3, Reading DEF Numbering
  <2>2. ~TooFar(i)
    BY DEF Expected
  <2>3. max_store_num \in Nat
    BY LineShellAssumption
  <2>4. Numbering(i) => Head(Behind(i)).n <= max_store_num
    BY <2>1, <2>2, <2>3 DEF TooFar, Behind, Numbering
  <2>5. QED
    BY <1>2, <1>3, <1>5, <2>1, <2>3, <2>4 DEF Target
<1>7. Feeds(i, k) <=> \/ Plainly(i) /\ k = PipeOf(i) + 1
                      \/ Numbering(i) /\ FirstOne(k) /\ InstructionOf(k) = Target(i)
  BY <1>3, FeedsIs
<1>8. Feeds(i, k)' <=> Feeds(i, k)
  BY <1>2, <1>3, FeedsKept
<1>9. \A s \in Slot : out # 0 /\ out = box[s] <=>
        Numbering(i) /\ Target(i) >= Coming /\ Target(i) % max_store_num = s
  BY <1>4 DEF ToBox
<1>10. Past(i)'
  BY <1>2, <1>3, <1>5 DEF Past
<1>11. ToNext(i, out)'
  BY <1>2 DEF ToNext
<1>12. CASE fd_out # 0
  <2>1. ~Heads /\ Coming' = Coming
    BY <1>2, <1>12
  <2>2. ToBox(i, out)'
    BY <1>2, <1>3, <1>9, <1>12, <2>1 DEF ToBox
  <2>3. out = fd_out <=> Plainly(i) /\ PipeOf(i) = cmd_now
    BY <1>2, <1>4, <1>12 DEF ToNext
  <2>4. Feeds(i, k) <=> (out # 0 /\ out = fd_in')
    <3>1. out = fd_in' <=> out = fd_out
      <4>1. DevNull \notin Made
        BY Boxes DEF Made, DevNull
      <4>2. QED
        BY <1>2, <1>12, <4>1
    <3>2. QED
      BY <1>2, <1>5, <1>7, <1>12, <2>1, <2>3, <3>1
  <2>5. ToHand(i, out, k)'
    BY <1>8, <2>4 DEF ToHand
  <2>6. QED
    BY <1>2, <1>4, <1>10, <1>11, <2>2, <2>5 DEF Sends
<1>13. CASE fd_out = 0
  <2>1. Heads /\ Coming = InstructionOf(k) /\ Coming' = Coming + 1
    BY <1>2, <1>13
  <2>2. Numbering(i) /\ Target(i) >= Coming /\ Target(i) % max_store_num = e =>
          Target(i) = Coming
    BY <1>1, <1>2, <1>6, <2>1, RightEntry
  <2>3. Numbering(i) /\ Target(i) = Coming => Target(i) % max_store_num = e
    <3>1. InstructionOf(k) + 0 = InstructionOf(k)
      BY <1>2
    <3>2. e = InstructionOf(k) % max_store_num
      BY <1>1, <1>2, <3>1, EntryIs
    <3>3. QED
      BY <2>1, <3>2
  <2>4. ~(Plainly(i) /\ k = PipeOf(i) + 1)
    <3>1. Plainly(i) => cmds[PipeOf(i)] # <<>>
      BY DEF Plainly, Behind
    <3>2. k = PipeOf(i) + 1 => cmd_now = PipeOf(i) /\ cmd_now # 0
      BY <1>5
    <3>3. QED
      BY <2>1, <3>1, <3>2 DEF Heads
  <2>5. out # 0 /\ out = box[e] <=> Numbering(i) /\ Target(i) = Coming
    <3>1. Numbering(i) /\ Target(i) = Coming => Target(i) >= Coming
      BY <1>2
    <3>2. QED
      BY <1>2, <1>9, <2>2, <2>3, <3>1
  <2>6. Feeds(i, k) <=> (out # 0 /\ out = fd_in')
    BY <1>2, <1>7, <1>13, <2>1, <2>4, <2>5
  <2>7. ToHand(i, out, k)'
    BY <1>8, <2>6 DEF ToHand
  <2>8. ASSUME NEW s \in Slot
        PROVE  out # 0 /\ out = box'[s] <=>
                 Numbering(i) /\ Target(i) >= Coming' /\ Target(i) % max_store_num = s
    <3>1. box'[s] = IF s = e THEN 0 ELSE box[s]
      BY <1>2, <1>13 DEF ShellTypes, TableTypes
    <3>2. Numbering(i) => (Target(i) >= Coming' <=> Target(i) >= Coming /\ Target(i) # Coming)
      BY <1>2, <1>6, <2>1
    <3>3. CASE s = e
      BY <2>2, <3>1, <3>2, <3>3
    <3>4. CASE s # e
      BY <1>9, <2>3, <3>1, <3>2, <3>4
    <3>5. QED
      BY <3>3, <3>4
  <2>9. ToBox(i, out)'
    BY <1>3, <2>8 DEF ToBox
  <2>10. QED
    BY <1>2, <1>4, <1>10, <1>11, <2>7, <2>9 DEF Sends
<1>14. QED
  BY <1>12, <1>13

LEMMA GetEventStep ==
  ASSUME CellInv, ShellTypes, JoinState, GetEvent
  PROVE  JoinState'
<1>1. PICK k : k = cmd_now + 1
  OBVIOUS
<1>2. PICK e : e = Entry(InstructionOf(k), 0)
  OBVIOUS
<1>3. /\ ~Starting' /\ job' = "none" /\ pc' \in {"operator", "skip"} /\ ~Onward'
      /\ at' = k /\ k \in Nat /\ cmd_now' = k /\ CommandAtCell(k) /\ CommandAtCell(k)'
      /\ PipeOf(k)' > k /\ InstructionOf(k)' = InstructionOf(k) /\ InstructionOf(k) \in Nat
      /\ instruction_count' = InstructionOf(k) /\ Coming' = InstructionOf(k) + 1
      /\ Coming = InstructionOf(k) + (IF Heads THEN 0 ELSE 1) /\ Coming \in Nat
      /\ in_operator' = FALSE /\ out_operator' = FALSE
      /\ UNCHANGED <<pipes, procs, cmds, lost>>
  BY <1>1, <1>2, GetEventDoes
<1>4. Hands /\ NextIs /\ RingIs /\ Children /\ Joints /\ [Next]_vars
  BY DEF JoinState, Next, GetEvent
<1>5. (\A p : ComesTo(p)' => ComesTo(p)) /\ RingIs'
  BY GetEventRing
<1>6. Hands'
  <2>1. HandIs(k)' /\ OutputIs(k)'
    BY <1>3 DEF HandIs, OutputIs
  <2>2. QED
    BY <1>3, <2>1 DEF Hands
<1>7. NextIs'
  <2>1. k > 0 /\ cmds[k] # <<>>
    BY <1>3 DEF CommandAtCell
  <2>2. QED
    BY <1>3, <2>1 DEF NextIs, Pending
<1>8. Coming' >= Coming /\ Coming' \in Nat /\ cmd_now' >= cmd_now
  BY <1>1, <1>3, LenProperties DEF CellInv
<1>9. Children'
  <2>1. SUFFICES ASSUME NEW i, NEW in, NEW fd, NEW out, Born(i, in, fd, out)'
                 PROVE  ChildIs(i, in, fd, out)'
    BY DEF Children
  <2>2. ChildIs(i, in, fd, out)
    BY <1>3, <1>4, <2>1, SameChildren, Zenon DEF Children
  <2>3. Placed(i)' /\ Keeps(i) /\ Placed(i)
    BY <1>4, <1>8, <2>2, PlacedKept DEF ChildIs
  <2>4. /\ out \in Made' /\ out \notin lost' /\ fd \in Held' /\ in \in {0, fd} /\ ~ComesTo(fd)'
        /\ out \in Made /\ out \notin lost
    BY <1>3, <1>5, <2>2 DEF ChildIs, Held, Made
  <2>5. Sends(i, out, at)
    BY <2>2 DEF ChildIs
  <2>6. CASE Expected(i)
    <3>1. Sends(i, out, k)'
      BY <1>1, <1>4, <2>3, <2>4, <2>5, <2>6, GetEventSends
    <3>2. \A a : a = at' => Sends(i, out, a)'
      BY <1>3, <3>1
    <3>3. QED
      BY <2>3, <2>4, <3>2 DEF ChildIs
  <2>7. CASE ~Expected(i)
    <3>1. ~Expected(i)'
      BY <2>3, <2>7 DEF Keeps
    <3>2. \A a : a = at' => Sends(i, out, a)'
      BY <3>1 DEF Sends
    <3>3. QED
      BY <2>3, <2>4, <3>2 DEF ChildIs
  <2>8. QED
    BY <2>6, <2>7
<1>10. Joints'
  BY <1>3, <1>4, SameChildren, JointsKept
<1>11. QED
  BY <1>5, <1>6, <1>7, <1>9, <1>10 DEF JoinState

-----------------------------------------------------------------------------
(* The command in hand is forked.                                          *)

(* What the new child writes and reads, and which children there are.      *)
LEMMA ForkDoes ==
  ASSUME CellInv, ShellTypes, JoinState, Fork
  PROVE  \E in, out :
           /\ \A i, in2, fd2, out2 : Born(i, in2, fd2, out2)' =>
                \/ Born(i, in2, fd2, out2)
                \/ i = at /\ in2 = in /\ fd2 = fd_in /\ out2 = out
           /\ out \in {0, fd_out} /\ (out # 0 => out \in Pipe) /\ out \in Made /\ out \notin lost
           /\ in \in {0, fd_in} /\ (in = 0 \/ in = DevNull \/ in # fd_out)
           /\ fd_out \in Pipe /\ Shell \in wr[fd_out]
                /\ (number = -1 \/ fd_out = box[Entry(instruction_count, number)]) => out = fd_out
           /\ ComesTo(fd_in) /\ fd_in \in Pipe /\ fd_in # fd_out => in = fd_in
<1> DEFINE c == Len(procs) + 1
           keep == IF number = -1 THEN {} ELSE {box[Entry(instruction_count, number)]}
           W == close_all_wr(keep)
           R == close_all_rd \ {ReadEnd}
           in == procs'[c].in
           out == procs'[c].out
<1>1. Len(procs) \in Nat /\ DOMAIN procs = 1..Len(procs)
  BY Numbers
<1>2. /\ procs' \in Seq(Child) /\ Len(procs') = c
      /\ \A d \in 1..Len(procs) : procs'[d] = procs[d]
      /\ procs'[c].fd_in = fd_in
      /\ in = (IF fd_in \in R \union {DevNull} THEN fd_in ELSE 0)
      /\ out = (IF fd_out \in W THEN fd_out ELSE 0)
  BY <1>1, Forked
<1>3. procs'[c].at = at
  <2>1. procs \in Seq(Child)
    BY DEF ShellTypes, ChildTypes
  <2> DEFINE rec == [at    |-> at,
                     fd_in |-> fd_in,
                     in    |-> IF fd_in \in R \union {DevNull} THEN fd_in ELSE 0,
                     out   |-> IF fd_out \in W THEN fd_out ELSE 0,
                     state |-> "runs"]
  <2>2. procs' = Append(procs, rec)
    BY DEF Fork
  <2>3. rec.at = at
    OBVIOUS
  <2> HIDE DEF rec, in, out, R, W, keep
  <2>4. QED
    BY <1>1, <2>1, <2>2, <2>3
<1>4. \A i, in2, fd2, out2 : Born(i, in2, fd2, out2)' =>
        \/ Born(i, in2, fd2, out2)
        \/ i = at /\ in2 = in /\ fd2 = fd_in /\ out2 = out
  <2>1. DOMAIN procs' = 1..c /\ \A d \in 1..c : d \in 1..Len(procs) \/ d = c
    BY <1>1, <1>2, LenProperties
  <2> HIDE DEF c
  <2>2. QED
    BY <1>1, <1>2, <1>3, <2>1 DEF Born
<1>5. /\ 0 \notin Pipe /\ DevNull \notin Pipe /\ fd_out \in Held /\ 0 \in Made
      /\ \A p \in Held : p \in Pipe => p \in Made
  BY Boxes DEF ShellTypes, TableTypes, Held, Made
<1>6. W \subseteq Pipe
  BY DEF close_all_wr
<1>7. OutputIs(at) /\ RingIs /\ Starting /\ Handling
  BY DEF JoinState, Hands, Fork, Starting, Handling
<1>8. ASSUME fd_out \in Pipe, Shell \in wr[fd_out],
             number = -1 \/ fd_out = box[Entry(instruction_count, number)]
      PROVE  out = fd_out
  <2>1. fd_out \notin Boxed \/ fd_out \in keep
    BY <1>7, <1>8 DEF OutputIs
  <2>2. fd_out \in W
    BY <1>8, <2>1 DEF close_all_wr
  <2>3. QED
    BY <1>2, <2>2
<1>9. ASSUME ComesTo(fd_in), fd_in \in Pipe, fd_in # fd_out
      PROVE  in = fd_in
  <2>1. Shell \in rd[fd_in] /\ fd_in \notin Boxed /\ fd_in # user_pipe /\ fd_in # ReadEnd
    BY <1>7, <1>9 DEF RingIs, ComesTo, ReadEnd, ShellTypes, LostTypes
  <2>2. fd_in \in R
    BY <1>9, <2>1 DEF close_all_rd
  <2>3. QED
    BY <1>2, <2>2
<1>10. in \in {0, fd_in} /\ (in = 0 \/ in = DevNull \/ in # fd_out)
  <2>1. R \subseteq Pipe \ {ReadEnd}
    BY DEF close_all_rd
  <2>2. fd_out \in Pipe => ReadEnd = fd_out
    BY <1>5 DEF ReadEnd
  <2> HIDE DEF R
  <2>3. QED
    BY <1>2, <2>1, <2>2
<1>11. out \in {0, fd_out} /\ (out # 0 => out \in Pipe) /\ out \in Made /\ out \notin lost
  BY <1>2, <1>5, <1>6, <1>7, Boxes DEF RingIs
<1> HIDE DEF in, out
<1>12. QED
  BY <1>4, <1>8, <1>9, <1>10, <1>11

(* The new child's output, if Joined speaks of it, is where the line says. *)
LEMMA ForkedSends ==
  ASSUME CellInv, ShellTypes, JoinState, Fork,
         NEW i, i = at, Expected(i), NEW out, out \in {0, fd_out}, out # 0 => out \in Pipe,
         fd_out \in Pipe /\ Shell \in wr[fd_out]
           /\ (number = -1 \/ fd_out = box[Entry(instruction_count, number)]) => out = fd_out
  PROVE  /\ PipeOf(i) = cmd_now
         /\ out # 0 => out # user_pipe /\ ComesTo(out) /\ out # fd_in
         /\ Onward /\ fd_out # 0 => out = fd_out /\ Plainly(i)
         /\ ToBox(i, out)
<1>1. /\ OutputIs(i) /\ HandIs(i) /\ NextIs /\ RingIs /\ Starting /\ Handling
      /\ 0 \notin Pipe /\ DevNull \notin Pipe
  BY Boxes DEF JoinState, Hands, Fork, Starting, Handling
<1>2. ~UserPiped(i) /\ ~in_operator /\ ~out_operator /\ PipeOf(i) = cmd_now
  BY <1>1 DEF Expected, HandIs
<1>3. /\ fd_out = fd_in => fd_out \notin Pipe
      /\ number = -1 => fd_out \notin Boxed
      /\ fd_out # 0 => fd_out # user_pipe /\ fd_out \in Pipe /\ Shell \in wr[fd_out]
      /\ number # -1 => fd_out # 0 /\ fd_out = box[Entry(instruction_count, number)]
      /\ Behind(i) = <<>> => fd_out = 0
      /\ Plainly(i) => fd_out # 0 /\ number = -1 /\ ~Ends
      /\ Numbering(i) => number = Head(Behind(i)).n
  BY <1>1, <1>2 DEF OutputIs
<1>4. out = fd_out
  BY <1>3
<1>5. /\ CommandAtCell(i) /\ instruction_count = InstructionOf(i)
      /\ Coming = InstructionOf(i) + 1 /\ InstructionOf(i) \in Nat
      /\ Behind(i) # <<>> => Head(Behind(i)).n \in Nat
  BY <1>1, Reading DEF HandIs
<1>6. Behind(i) = <<>> \/ Plainly(i) \/ Numbering(i)
  BY DEF Plainly, Numbering
<1>7. Numbering(i) => number \in Nat /\ number > 0 /\ number # -1
  BY <1>3, <1>5 DEF Numbering
<1>8. Onward /\ fd_out # 0 => Plainly(i)
  BY <1>1, <1>3, <1>6, <1>7 DEF NextIs, Onward
<1>9. ASSUME out # 0 PROVE out # user_pipe /\ ComesTo(out) /\ out # fd_in
  <2>1. out \in Pipe /\ out # user_pipe /\ out # fd_in
    BY <1>3, <1>4, <1>9
  <2>2. Onward \/ out \in Boxed
    <3>1. CASE Plainly(i)
      <4>1. job # "none" => pc = "event"
        BY DEF ShellTypes, ControlTypes
      <4>2. QED
        BY <1>1, <1>3, <3>1, <4>1 DEF Onward, Starting
    <3>2. CASE Numbering(i)
      <4>1. number \in Nat /\ out = box[Entry(instruction_count, number)]
        BY <1>3, <1>4, <1>7, <3>2
      <4>2. Entry(instruction_count, number) \in Slot
        BY <1>5, <4>1, EntryType
      <4>3. QED
        BY <1>9, <4>1, <4>2, Boxes
    <3>3. QED
      BY <1>3, <1>4, <1>6, <1>9, <3>1, <3>2
  <2>3. QED
    BY <1>1, <1>4, <2>1, <2>2 DEF ComesTo, RingIs
<1>10. ToBox(i, out)
  <2>1. CASE Numbering(i)
    <3>1. /\ number \in Nat /\ number > 0 /\ out # 0 /\ out = box[Entry(instruction_count, number)]
          /\ Target(i) = InstructionOf(i) + number
      BY <1>3, <1>4, <1>7, <2>1 DEF Target
    <3>2. Target(i) >= Coming
      BY <1>5, <3>1
    <3>3. Entry(instruction_count, number) = Target(i) % max_store_num
      BY <1>5, <3>1, EntryIs
    <3>4. Entry(instruction_count, number) \in Slot
      BY <1>5, <3>1, EntryType
    <3>5. \A s, t \in Slot : box[s] = box[t] /\ box[s] # 0 => s = t
      BY <1>1 DEF RingIs
    <3>6. ASSUME NEW s \in Slot
          PROVE  out = box[s] <=> s = Entry(instruction_count, number)
      BY <3>1, <3>4, <3>5
    <3>7. QED
      BY <2>1, <3>1, <3>2, <3>3, <3>6 DEF ToBox
  <2>2. CASE ~Numbering(i)
    <3>1. out = 0 \/ out \notin Boxed
      BY <1>3, <1>4, <1>6, <2>2
    <3>2. \A s \in Slot : ~(out # 0 /\ out = box[s])
      BY <3>1, Boxes
    <3>3. QED
      BY <2>2, <3>2 DEF ToBox
  <2>3. QED
    BY <2>1, <2>2
<1>11. QED
  BY <1>2, <1>4, <1>8, <1>9, <1>10

LEMMA ForkJoints ==
  ASSUME CellInv, ShellTypes, JoinState, Fork, [Next]_vars,
         \A i : Placed(i) => Placed(i)' /\ Keeps(i)
  PROVE  Joints'
<1>1. PICK in0, out0 :
        /\ \A i, in2, fd2, out2 : Born(i, in2, fd2, out2)' =>
             \/ Born(i, in2, fd2, out2)
             \/ i = at /\ in2 = in0 /\ fd2 = fd_in /\ out2 = out0
        /\ out0 \in {0, fd_out} /\ (out0 # 0 => out0 \in Pipe) /\ out0 \in Made /\ out0 \notin lost
        /\ in0 \in {0, fd_in} /\ (in0 = 0 \/ in0 = DevNull \/ in0 # fd_out)
        /\ fd_out \in Pipe /\ Shell \in wr[fd_out]
             /\ (number = -1 \/ fd_out = box[Entry(instruction_count, number)]) => out0 = fd_out
        /\ ComesTo(fd_in) /\ fd_in \in Pipe /\ fd_in # fd_out => in0 = fd_in
  BY ForkDoes
<1>2. PICK h : h = at
  OBVIOUS
<1>3. HandIs(h) /\ OutputIs(h) /\ RingIs /\ Children /\ Joints /\ Starting /\ Handling
  BY <1>2 DEF JoinState, Hands, Fork, Starting, Handling
<1>4. /\ CommandAtCell(h) /\ h <= cmd_now /\ Coming = InstructionOf(h) + 1
      /\ instruction_count = InstructionOf(h) /\ InstructionOf(h) \in Nat /\ h \in Nat
      /\ PipeOf(h) > h /\ PipeOf(h) \in Nat /\ cmd_now \in Nat
      /\ 0 \notin Pipe /\ DevNull \notin Pipe /\ DevNull # 0
      /\ Numbering(h) => Target(h) > InstructionOf(h) /\ Target(h) \in Nat
  <2>1. /\ CommandAtCell(h) /\ h <= cmd_now /\ Coming = InstructionOf(h) + 1
        /\ instruction_count = InstructionOf(h)
    BY <1>3, Zenon DEF HandIs
  <2>2. /\ InstructionOf(h) \in Nat /\ h \in Nat /\ PipeOf(h) \in (h + 1)..cmd_count
        /\ cmd_count \in Nat
        /\ Behind(h) # <<>> => Head(Behind(h)).n \in Nat
    BY <2>1, Reading, Zenon
  <2>3. cmd_now \in Nat
    BY LenProperties DEF CellInv
  <2>4. Numbering(h) => Target(h) > InstructionOf(h) /\ Target(h) \in Nat
    BY <2>2 DEF Numbering, Target
  <2>5. QED
    BY <2>1, <2>2, <2>3, <2>4, Boxes
<1>5. \A j : Feeds(h, j) <=> \/ Plainly(h) /\ j = PipeOf(h) + 1
                             \/ Numbering(h) /\ FirstOne(j) /\ InstructionOf(j) = Target(h)
  BY <1>4, FeedsIs
<1>6. Expected(h) => /\ PipeOf(h) = cmd_now
                     /\ out0 # 0 => out0 # user_pipe /\ ComesTo(out0) /\ out0 # fd_in
  BY <1>1, <1>2, ForkedSends
(* Old and new: what is written and read in the state before.              *)
<1>7. ASSUME NEW i, NEW in, NEW fd, NEW out, Born(i, in, fd, out)
      PROVE  /\ CommandAtCell(i) /\ Placed(i) /\ in \in {0, fd} /\ ~ComesTo(fd)
             /\ out \in Made /\ out \notin lost
             /\ InstructionOf(i) \in Nat /\ InstructionOf(i) < Coming /\ i <= cmd_now /\ i \in Nat
             /\ Expected(i) => /\ out # 0 => out # user_pipe
                               /\ ~in_operator => (out # 0 /\ out = fd_in <=> Feeds(i, h))
  <2>1. ChildIs(i, in, fd, out)
    BY <1>3, <1>7, Zenon DEF Children
  <2>2. CommandAtCell(i) /\ Placed(i) /\ InstructionOf(i) < Coming /\ i <= cmd_now
    BY <2>1 DEF ChildIs, Placed
  <2>3. InstructionOf(i) \in Nat /\ i \in Nat
    BY <2>2, Reading
  <2>4. Expected(i) => (out # 0 => out # user_pipe) /\ ToHand(i, out, h)
    BY <1>2, <2>1, Zenon DEF ChildIs, Sends
  <2>5. QED
    BY <1>3, <2>1, <2>2, <2>3, <2>4 DEF ChildIs, ToHand
(* An old writer and the new reader.                                       *)
<1>8. ASSUME NEW i, NEW in, NEW fd, NEW out, Born(i, in, fd, out)
      PROVE  Joint(i, out, h, in0)
  <2>1. SUFFICES ASSUME Expected(i), ~UserPiped(h)
                 PROVE  out # 0 /\ out = in0 <=> Feeds(i, h)
    BY DEF Joint
  <2>2. ~in_operator
    BY <1>3, <2>1 DEF HandIs
  <2>3. /\ out # 0 => out # user_pipe
        /\ out # 0 /\ out = fd_in <=> Feeds(i, h)
        /\ out \in Made /\ out \notin lost
    BY <1>7, <1>8, <2>1, <2>2
  <2>4. ASSUME out # 0, out = fd_in PROVE in0 = fd_in
    <3>1. out \in Pipe
      <4>1. pipes \in Nat /\ 1..pipes \subseteq Pipe
        BY Boxes
      <4>2. QED
        BY <2>3, <2>4, <4>1 DEF Made
    <3>2. ComesTo(fd_in) /\ fd_in \in Pipe
      BY <1>3, <1>4, <2>2, <2>3, <2>4, <3>1 DEF ComesTo
    <3>3. fd_in # fd_out
      BY <1>3, <3>2 DEF OutputIs
    <3>4. QED
      BY <1>1, <3>2, <3>3
  <2>5. QED
    BY <1>1, <2>3, <2>4
(* The new writer and an old reader.                                       *)
<1>9. ASSUME NEW j, NEW in, NEW fd, NEW out, Born(j, in, fd, out)
      PROVE  Joint(h, out0, j, in)
  <2>1. SUFFICES ASSUME Expected(h)
                 PROVE  ~(out0 # 0 /\ out0 = in) /\ ~Feeds(h, j)
    BY DEF Joint
  <2>2. /\ PipeOf(h) = cmd_now /\ (out0 # 0 => ComesTo(out0))
    BY <1>6, <2>1
  <2>3. in \in {0, fd} /\ ~ComesTo(fd) /\ InstructionOf(j) < Coming /\ j <= cmd_now
        /\ InstructionOf(j) \in Nat /\ j \in Nat
    BY <1>7, <1>9
  <2>4. ~Feeds(h, j)
    BY <1>4, <1>5, <2>2, <2>3
  <2>5. QED
    BY <2>2, <2>3, <2>4
(* The new child and itself.                                               *)
<1>10. Joint(h, out0, h, in0)
  <2>1. SUFFICES ASSUME Expected(h)
                 PROVE  ~(out0 # 0 /\ out0 = in0) /\ ~Feeds(h, h)
    BY DEF Joint
  <2>2. ~Feeds(h, h)
    BY <1>4, <1>5
  <2>3. out0 # 0 => out0 # fd_in
    BY <1>6, <2>1
  <2>4. QED
    BY <1>1, <2>2, <2>3
<1>11. ASSUME NEW i, NEW in, NEW fd, NEW out, NEW j, NEW in2, NEW fd2, NEW out2,
              Born(i, in, fd, out)', Born(j, in2, fd2, out2)'
       PROVE  Joint(i, out, j, in2)'
  <2>1. /\ Born(i, in, fd, out) \/ (i = h /\ in = in0 /\ out = out0)
        /\ Born(j, in2, fd2, out2) \/ (j = h /\ in2 = in0 /\ out2 = out0)
    BY <1>1, <1>2, <1>11
  <2>2. Joint(i, out, j, in2)
    <3>1. CASE Born(i, in, fd, out) /\ Born(j, in2, fd2, out2)
      BY <1>3, <3>1, Zenon DEF Joints
    <3>2. CASE Born(i, in, fd, out) /\ j = h /\ in2 = in0
      BY <1>8, <3>2
    <3>3. CASE i = h /\ out = out0 /\ Born(j, in2, fd2, out2)
      BY <1>9, <3>3
    <3>4. CASE i = h /\ out = out0 /\ j = h /\ in2 = in0
      BY <1>10, <3>4
    <3>5. QED
      BY <2>1, <3>1, <3>2, <3>3, <3>4
  <2>3. CommandAtCell(i) /\ CommandAtCell(j)
    BY <1>4, <1>7, <2>1
  <2>4. Keeps(i) /\ Keeps(j) /\ (Feeds(i, j)' <=> Feeds(i, j))
    BY <2>3, SenseKept, FeedsKept
  <2>5. (Expected(i)' <=> Expected(i)) /\ (UserPiped(j)' <=> UserPiped(j))
    BY <2>4 DEF Keeps
  <2>6. QED
    BY <2>2, <2>4, <2>5 DEF Joint
<1>12. QED
  BY <1>11 DEF Joints

LEMMA ForkStep ==
  ASSUME CellInv, ShellTypes, [Next]_vars, JoinState, Fork
  PROVE  JoinState'
<1>1. PICK in0, out0 :
        /\ \A i, in2, fd2, out2 : Born(i, in2, fd2, out2)' =>
             \/ Born(i, in2, fd2, out2)
             \/ i = at /\ in2 = in0 /\ fd2 = fd_in /\ out2 = out0
        /\ out0 \in {0, fd_out} /\ (out0 # 0 => out0 \in Pipe) /\ out0 \in Made /\ out0 \notin lost
        /\ in0 \in {0, fd_in} /\ (in0 = 0 \/ in0 = DevNull \/ in0 # fd_out)
        /\ fd_out \in Pipe /\ Shell \in wr[fd_out]
             /\ (number = -1 \/ fd_out = box[Entry(instruction_count, number)]) => out0 = fd_out
        /\ ComesTo(fd_in) /\ fd_in \in Pipe /\ fd_in # fd_out => in0 = fd_in
  BY ForkDoes
<1>2. PICK h, f : h = at /\ f = fd_in
  OBVIOUS
<1>3. /\ Still /\ job = "fork" /\ job' = (IF fd_out = 0 THEN "wait" ELSE "none")
      /\ UNCHANGED <<at, instruction_count, fd_in, fd_out, number, in_operator, out_operator>>
      /\ UNCHANGED <<box, user_pipe, pipes, lost, Boxed>>
  BY DEF Fork, Still, vars, cursor, command, tables, Boxed
<1>4. HandIs(h) /\ OutputIs(h) /\ NextIs /\ RingIs /\ Children /\ Joints
  BY <1>2 DEF JoinState, Hands
<1>5. pc = "event" /\ Starting /\ Handling /\ ~Starting' /\ ~Handling' /\ ~Pending'
  <2>1. pc = "event"
    BY <1>3 DEF ShellTypes, ControlTypes
  <2>2. pc' = pc
    BY <1>3 DEF Still
  <2>3. QED
    BY <1>3, <2>1, <2>2 DEF Starting, Handling, Pending
<1>6. /\ Coming \in Nat /\ Coming' = Coming /\ (Onward' <=> Onward) /\ (Ends' <=> Ends)
      /\ (Heads' <=> Heads)
      /\ UNCHANGED <<pc, cmds, cmd_now>>
      /\ \A i : Placed(i) => Placed(i)' /\ Keeps(i)
      /\ cmd_now \in Nat
  BY <1>3, StillIs
<1>7. Hands'
  BY <1>5 DEF Hands, HandIs, OutputIs
<1>8. NextIs'
  BY <1>3, <1>4, <1>5, <1>6 DEF NextIs
<1>9. \A p : ComesTo(p)' => ComesTo(p)
  BY <1>3, <1>5, <1>6 DEF ComesTo
<1>10. RingIs'
  <2>1. \A p \in Pipe : wr'[p] = ParentCloses[p] \/ ParentCloses[p] \subseteq wr'[p]
    BY Forked, Numbers
  <2>2. wr \in [Pipe -> SUBSET (0..Len(procs))]
    BY DEF ShellTypes, EndTypes
  <2>3. ASSUME NEW p \in Boxed PROVE Shell \in wr'[p]
    <3>1. Shell \in wr[p] /\ (number = -1 => p # fd_out) /\ p \in Pipe
      BY <1>4, <1>5, Boxes DEF RingIs, OutputIs
    <3>2. Shell \in ParentCloses[p]
      BY <2>2, <3>1 DEF ParentCloses, Closed
    <3>3. QED
      BY <2>1, <3>1, <3>2
  <2>4. ASSUME NEW p \in Pipe, ComesTo(p)' PROVE Shell \in rd'[p]
    <3>1. Shell \in rd[p]
      BY <1>4, <1>9, <2>4 DEF RingIs
    <3>2. rd[p] \subseteq rd'[p]
      BY Forked, Numbers
    <3>3. QED
      BY <3>1, <3>2
  <2>5. QED
    BY <1>3, <1>4, <1>5, <2>3, <2>4 DEF RingIs
<1>11. ASSUME NEW i, NEW in, NEW fd, NEW out, Born(i, in, fd, out)
       PROVE  ChildIs(i, in, fd, out)'
  <2>1. ChildIs(i, in, fd, out)
    BY <1>4, <1>11, Zenon DEF Children
  <2>2. Placed(i)' /\ Keeps(i)
    BY <1>6, <2>1 DEF ChildIs
  <2>3. out \in Made' /\ out \notin lost' /\ fd \in Held' /\ in \in {0, fd} /\ ~ComesTo(fd)'
    BY <1>3, <1>9, <2>1 DEF ChildIs, Held, Made
  <2>4. ASSUME NEW a, Expected(i)' PROVE Sends(i, out, a)'
    <3>1. Expected(i)
      BY <2>2, <2>4 DEF Keeps
    <3>2. /\ Past(i) /\ (out # 0 => out # user_pipe) /\ ToNext(i, out) /\ ToBox(i, out)
      BY <1>2, <2>1, <3>1, Zenon DEF ChildIs, Sends
    <3>3. Past(i)'
      BY <1>5, <1>6, <2>2, <3>2 DEF Past, Keeps
    <3>4. ToHand(i, out, a)'
      BY <1>5 DEF ToHand
    <3>5. ToNext(i, out)'
      <4>1. PipeOf(i) < h /\ h <= cmd_now /\ h \in Nat /\ PipeOf(i) \in Nat
        <5>1. CommandAtCell(h) /\ CommandAtCell(i) /\ h <= cmd_now
          BY <1>4, <1>5, <2>1, Zenon DEF HandIs, ChildIs, Placed
        <5>2. h \in Nat /\ PipeOf(i) \in (i + 1)..cmd_count /\ i \in Nat
          BY <5>1, Reading
        <5>3. QED
          BY <1>2, <1>5, <3>2, <5>1, <5>2 DEF Past
      <4>2. PipeOf(i) # cmd_now
        BY <1>6, <4>1
      <4>3. Onward /\ fd_out # 0 => out # fd_out
        BY <1>5, <3>2 DEF ToNext
      <4>4. PipeOf(i)' # cmd_now'
        BY <1>6, <2>2, <4>2 DEF Keeps
      <4>5. QED
        BY <1>3, <1>5, <1>6, <4>3, <4>4 DEF ToNext
    <3>6. ToBox(i, out)'
      BY <1>3, <1>6, <2>2, <3>2 DEF ToBox, Keeps
    <3>7. QED
      BY <1>3, <3>2, <3>3, <3>4, <3>5, <3>6 DEF Sends
  <2>5. \A a : a = at' => Sends(i, out, a)'
    BY <2>4 DEF Sends
  <2>6. QED
    BY <2>2, <2>3, <2>5 DEF ChildIs
<1>12. ChildIs(h, in0, f, out0)'
  <2>1. /\ CommandAtCell(h) /\ h <= cmd_now /\ Coming = instruction_count + 1
        /\ instruction_count = InstructionOf(h)
    BY <1>4, <1>5, Zenon DEF HandIs
  <2>2. InstructionOf(h) \in Nat
    BY <2>1, Reading
  <2>3. InstructionOf(h) < Coming
    BY <2>1, <2>2
  <2>4. Placed(h)' /\ Keeps(h)
    BY <1>6, <2>1, <2>3 DEF Placed
  <2>5. out0 \in Made' /\ out0 \notin lost' /\ f \in Held' /\ in0 \in {0, f}
    BY <1>1, <1>2, <1>3 DEF Made, Held, ShellTypes, TableTypes
  <2>6. ~ComesTo(f)'
    <3>1. f \notin Boxed /\ (f = fd_out => fd_out \notin Pipe)
      BY <1>2, <1>4, <1>5 DEF RingIs, OutputIs
    <3>2. f = 0 \/ f = DevNull \/ f \in Pipe
      BY <1>2, Boxes DEF ShellTypes, TableTypes
    <3>3. QED
      BY <1>3, <1>5, <3>1, <3>2 DEF ComesTo
  <2>7. ASSUME NEW a, Expected(h)' PROVE Sends(h, out0, a)'
    <3>1. Expected(h)
      BY <2>4, <2>7 DEF Keeps
    <3>2. /\ PipeOf(h) = cmd_now
          /\ out0 # 0 => out0 # user_pipe
          /\ Onward /\ fd_out # 0 => out0 = fd_out /\ Plainly(h)
          /\ ToBox(h, out0)
      BY <1>1, <1>2, <3>1, ForkedSends
    <3>3. Past(h)'
      BY <1>5, <1>6, <2>4, <3>2 DEF Past, Keeps
    <3>4. ToHand(h, out0, a)'
      BY <1>5 DEF ToHand
    <3>5. ToNext(h, out0)'
      BY <1>3, <1>5, <1>6, <2>4, <3>2 DEF ToNext, Keeps
    <3>6. ToBox(h, out0)'
      BY <1>3, <1>6, <2>4, <3>2 DEF ToBox, Keeps
    <3>7. QED
      BY <1>3, <3>2, <3>3, <3>4, <3>5, <3>6 DEF Sends
  <2>8. \A a : a = at' => Sends(h, out0, a)'
    BY <2>7 DEF Sends
  <2>9. QED
    BY <2>4, <2>5, <2>6, <2>8 DEF ChildIs
<1>13. Children'
  <2>1. SUFFICES ASSUME NEW i, NEW in, NEW fd, NEW out, Born(i, in, fd, out)'
                 PROVE  ChildIs(i, in, fd, out)'
    BY DEF Children
  <2>2. QED
    BY <1>1, <1>2, <1>11, <1>12, <2>1
<1>14. Joints'
  BY <1>6, ForkJoints
<1>15. QED
  BY <1>7, <1>8, <1>10, <1>13, <1>14 DEF JoinState

-----------------------------------------------------------------------------
(* An operator is fetched for the command in hand.                         *)

(* What the shell does with it: no pipe; a user pipe later; a new pipe for *)
(* the next command; or the pipe of an entry of the ring, perhaps new.     *)
NoneMade ==
  /\ fd_out' = 0 /\ number' = -1 /\ UNCHANGED <<box, in_operator, out_operator>>
  /\ Fetched = <<>> \/ Head(Fetched).is \notin Sign

UserMade ==
  /\ fd_out' = 0 /\ number' = -1 /\ UNCHANGED box
  /\ Fetched # <<>> /\ Head(Fetched).is \in {">", "<"} /\ program # "simple"
  /\ pc' = "operator"

PlainMade ==
  /\ fd_out' \in Pipe /\ fd_out' \notin Held /\ Shell \in wr'[fd_out'] /\ Shell \in rd'[fd_out']
  /\ number' = -1 /\ UNCHANGED <<box, in_operator, out_operator>>
  /\ Fetched # <<>> /\ Head(Fetched).is \in Sign /\ ~Numbered(Head(Fetched))
  /\ pc' = "event"

NumberMade(s) ==
  /\ s = Entry(instruction_count, Head(Fetched).n) /\ s \in Slot
  /\ fd_out' = box'[s] /\ fd_out' \in Pipe /\ fd_out' # user_pipe /\ fd_out' # fd_in
  /\ Shell \in wr'[fd_out'] /\ Shell \in rd'[fd_out']
  /\ \A r \in Slot : r = s \/ box'[r] = box[r]
  /\ box[s] # 0 => box'[s] = box[s]
  /\ box[s] = 0 => box'[s] \notin Held
  /\ number' = Head(Fetched).n /\ UNCHANGED <<in_operator, out_operator>>
  /\ Fetched # <<>> /\ Head(Fetched).is \in Sign /\ Numbered(Head(Fetched))
  /\ pc' = "event"

LEMMA GetOperatorMoves ==
  ASSUME CellInv, CellRules, ShellTypes, JoinState, GetOperator
  PROVE  /\ Handling /\ ~Starting /\ pc = "operator" /\ pc' \in {"event", "operator"}
         /\ pc' = "event" <=> LastOperator(Fetched)
         /\ cmd_now' = cmd_now + 1 /\ cmd_now \in Nat /\ cmd_now > 0 /\ cmds[cmd_now] # <<>>
         /\ cmd_now + 1 \in 1..cmd_count /\ Fetched = cmds[cmd_now + 1]
         /\ UNCHANGED <<cmds, program, cmd_count>>
         /\ UNCHANGED <<at, instruction_count, fd_in, user_pipe, procs, lost>>
         /\ Coming' = Coming /\ Coming \in Nat
         /\ Starting' => pc' = "event"
         /\ pc' = "operator" => job' = "none"
         /\ Heads' <=> Fetched = <<>>
         /\ Ends' <=> cmd_now + 1 = cmd_count \/ cmds[cmd_now + 2] = <<>>
<1>1. /\ pc = "operator" /\ ~isempty /\ pc' \in {"event", "operator"}
      /\ pc' = "event" <=> LastOperator(Fetched)
      /\ cmd_now \in Nat /\ cmd_now + 1 \in 1..cmd_count /\ Fetched = cmds[cmd_now + 1]
      /\ cmd_now' = cmd_now + 1 /\ cmd_now > 0 /\ cmds[cmd_now] # <<>>
      /\ cmds' = cmds /\ program' = program /\ cmd_count' = cmd_count
  BY Operations
<1>2. /\ UNCHANGED <<at, instruction_count, fd_in, user_pipe, procs, lost>>
      /\ get_next_cmd
      /\ Starting' => LastOperator(Fetched)
      /\ ~LastOperator(Fetched) => job' = "none"
  BY DEF GetOperator, FetchOperator, Starting
<1>3. Handling /\ ~Starting
  BY <1>1 DEF Handling, Starting, ShellTypes, ControlTypes
<1>4. Coming' = Coming /\ Coming \in Nat
  <2>1. ~FirstOne(cmd_now + 1)
    BY <1>1, HeadsIs DEF Heads
  <2>2. /\ Coming \in Nat
        /\ Coming' = Coming + (IF Fetched # <<>> /\ FirstOne(cmd_now + 1) THEN 1 ELSE 0)
    BY <1>1, <1>2, ComingAtFetch
  <2>3. QED
    BY <2>1, <2>2
<1>5. Heads' <=> Fetched = <<>>
  <2>1. cmd_now' # 0
    BY <1>1
  <2>2. QED
    BY <1>1, <2>1 DEF Heads
<1>6. Ends' <=> cmd_now + 1 = cmd_count \/ cmds[cmd_now + 2] = <<>>
  <2>1. (cmd_now + 1) + 1 = cmd_now + 2
    BY <1>1
  <2>2. QED
    BY <1>1, <2>1 DEF Ends, isempty, Fetched
<1>7. QED
  BY <1>1, <1>2, <1>3, <1>4, <1>5, <1>6

LEMMA GetOperatorMakes ==
  ASSUME CellInv, CellRules, ShellTypes, JoinState, GetOperator
  PROVE  /\ Made \subseteq Made' /\ Held \subseteq Held'
         /\ \A p \in Pipe : /\ Shell \in wr[p] => Shell \in wr'[p]
                            /\ Shell \in rd[p] => Shell \in rd'[p]
         /\ in_operator => in_operator'
         /\ out_operator => out_operator'
         /\ NoneMade \/ UserMade \/ PlainMade \/ \E s : NumberMade(s)
<1> DEFINE t == Head(Fetched)
           Q == pipes'
           s == Entry(instruction_count, t.n)
<1>1. /\ Operation(t)
      /\ Fetched # <<>> => t.n \in Nat
      /\ pc = "operator" /\ pc' \in {"event", "operator"}
      /\ pc' = "event" <=> LastOperator(Fetched)
  BY Operations
<1>2. /\ EndTypes /\ TableTypes /\ ControlTypes /\ Len(procs) \in Nat /\ pipes \in Nat
      /\ user_pipe \in Held /\ fd_in \in Held /\ fd_in = fd_in' /\ procs' = procs
      /\ fd_out = 0 /\ number = -1 /\ instruction_count \in Nat
  BY <1>1, Numbers DEF ShellTypes, EndTypes, TableTypes, ControlTypes, Held, GetOperator
<1>3. ASSUME get_new_fd
      PROVE  /\ Made \subseteq Made' /\ Held \subseteq Held'
             /\ \A p \in Pipe : /\ Shell \in wr[p] => Shell \in wr'[p]
                                /\ Shell \in rd[p] => Shell \in rd'[p]
             /\ Q \in Pipe /\ Q \notin Held /\ Shell \in wr'[Q] /\ Shell \in rd'[Q]
  <2>1. /\ Q = pipes + 1 /\ Q \in Pipe /\ Q \notin Made /\ Q # 0 /\ Q # DevNull
        /\ wr'[Q] = {Shell} /\ rd'[Q] = {Shell}
        /\ \A p \in Pipe \ {Q} : wr'[p] = wr[p] /\ rd'[p] = rd[p]
    BY <1>2, <1>3, NewPipe
  <2>2. Made \subseteq Made' /\ Held \subseteq Held' /\ Q \notin Held
    BY <1>2, <2>1 DEF Made, Held
  <2>3. \A p \in Pipe : /\ Shell \in wr[p] => Shell \in wr'[p]
                        /\ Shell \in rd[p] => Shell \in rd'[p]
    BY <2>1
  <2> HIDE DEF Q
  <2>4. QED
    BY <2>1, <2>2, <2>3
<1>4. ASSUME UNCHANGED <<wr, rd, pipes>>
      PROVE  /\ Made \subseteq Made' /\ Held \subseteq Held'
             /\ \A p \in Pipe : /\ Shell \in wr[p] => Shell \in wr'[p]
                                /\ Shell \in rd[p] => Shell \in rd'[p]
  BY <1>4 DEF Made, Held
<1>5. CASE Fetched # <<>> /\ Numbered(t) /\ t.is \in Sign /\ NumberedPipe(t)
  <2>1. number' = t.n /\ UNCHANGED <<in_operator, out_operator>> /\ pc' = "event"
    BY <1>1, <1>5 DEF NumberedPipe, LastOperator, Sign
  <2>2. s \in Slot /\ box \in [Slot -> Made]
    BY <1>1, <1>2, <1>5, EntryType DEF TableTypes
  <2>3. CASE box[s] # 0
    <3>1. fd_out' = box[s] /\ UNCHANGED <<box, wr, rd, pipes>>
      BY <1>5, <2>3 DEF NumberedPipe, ends
    <3>2. box[s] \in Boxed /\ Boxed \subseteq Pipe
      BY <2>2, <2>3, Boxes
    <3>3. /\ Shell \in wr[box[s]] /\ box[s] # user_pipe /\ box[s] # fd_in
          /\ Shell \in rd[box[s]]
      <4>1. /\ \A p \in Boxed : Shell \in wr[p]
            /\ \A p \in Pipe : ComesTo(p) => Shell \in rd[p]
            /\ user_pipe \notin Boxed /\ fd_in \notin Boxed
            /\ \A p \in lost : p \notin Boxed
        BY <1>1 DEF JoinState, RingIs, Handling
      <4>2. box[s] # user_pipe /\ box[s] # fd_in
        BY <3>2, <4>1
      <4>3. ComesTo(box[s])
        BY <3>2, <4>1, <4>2, Boxes DEF ComesTo
      <4>4. QED
        BY <3>2, <4>1, <4>2, <4>3
    <3> HIDE DEF t, s
    <3>4. NumberMade(s)
      BY <1>5, <2>1, <2>2, <2>3, <3>1, <3>2, <3>3 DEF NumberMade, s, t
    <3>5. QED
      BY <1>4, <2>1, <3>1, <3>4
  <2>4. CASE box[s] = 0
    <3>1. get_new_fd /\ fd_out' = Q /\ box' = [box EXCEPT ![s] = Q]
      BY <1>5, <2>4 DEF NumberedPipe
    <3>2. Q \in Pipe /\ Q \notin Held /\ Shell \in wr'[Q] /\ Shell \in rd'[Q]
      BY <1>3, <3>1
    <3> HIDE DEF t, s, Q
    <3>3. box'[s] = Q /\ \A r \in Slot : r = s \/ box'[r] = box[r]
      BY <2>2, <3>1
    <3>4. NumberMade(s)
      BY <1>2, <1>5, <2>1, <2>2, <2>4, <3>1, <3>2, <3>3 DEF NumberMade, s, t
    <3>5. QED
      BY <1>3, <2>1, <3>1, <3>4
  <2>5. QED
    BY <2>3, <2>4
<1>6. CASE Fetched # <<>> /\ ~Numbered(t) /\ t.is \in Sign /\ PlainPipe
  <2>1. /\ get_new_fd /\ fd_out' = Q /\ number' = -1
        /\ UNCHANGED <<box, in_operator, out_operator>> /\ pc' = "event"
    BY <1>1, <1>2, <1>6 DEF PlainPipe, LastOperator, Sign
  <2>2. PlainMade
    BY <1>3, <1>6, <2>1 DEF PlainMade
  <2>3. QED
    BY <1>3, <2>1, <2>2
<1>7. CASE Fetched # <<>> /\ t.is \in {">", "<"} /\ program # "simple" /\ UserPipe(t)
  <2>1. /\ UNCHANGED <<fd_out, number, box, wr, rd, pipes>>
        /\ in_operator => in_operator'
        /\ out_operator => out_operator'
        /\ pc' = "operator"
    BY <1>1, <1>7 DEF UserPipe, ends, LastOperator
  <2>2. UserMade
    BY <1>2, <1>7, <2>1 DEF UserMade
  <2>3. QED
    BY <1>4, <2>1, <2>2
<1>8. CASE NoPipe /\ (Fetched = <<>> \/ t.is \notin Sign)
  <2>1. UNCHANGED <<fd_out, number, in_operator, out_operator, box, wr, rd, pipes>>
    BY <1>8 DEF NoPipe, ends
  <2>2. NoneMade
    BY <1>2, <1>8, <2>1 DEF NoneMade
  <2>3. QED
    BY <1>4, <2>1, <2>2
<1>9. QED
  BY <1>1, <1>5, <1>6, <1>7, <1>8 DEF Operation

(* Whether another command is to read what was made.                       *)
LEMMA GetOperatorEnds ==
  ASSUME CellInv, CellRules, RunInv, AsTyped, ShellTypes, JoinState, GetOperator
  PROVE  /\ PlainMade /\ ~(Head(Fetched).n > 0) => ~Ends'
         /\ (\E s : NumberMade(s)) => Ends'
         /\ NoneMade /\ pc' = "event" /\ Fetched # <<>> =>
              Ends' /\ program = "simple" /\ Head(Fetched).is = ">"
         /\ NoneMade /\ Fetched = <<>> /\ program # "simple" => Ends'
<1>1. /\ pc = "operator" /\ (pc' = "event" <=> LastOperator(Fetched))
      /\ cmd_now \in Nat /\ cmd_now > 0 /\ cmds[cmd_now] # <<>>
      /\ cmd_now + 1 \in 1..cmd_count /\ Fetched = cmds[cmd_now + 1]
      /\ Ends' <=> cmd_now + 1 = cmd_count \/ cmds[cmd_now + 2] = <<>>
  BY GetOperatorMoves
<1>2. /\ (cmd_now + 1) - 1 = cmd_now /\ cmd_now + 1 >= 2 /\ (cmd_now + 1) + 1 = cmd_now + 2
      /\ cmd_count = Len(cmds) /\ cmd_count \in Nat
  BY <1>1, LenProperties DEF CellInv
<1>3. Fetched # <<>> => Head(Fetched).n \in Nat
  BY Operations
<1>4. PipeRule(cmds, cmd_now + 1)
  BY <1>1 DEF CellRules
<1>5. Fetched # <<>> /\ Head(Fetched).is \in Sign =>
        /\ cmd_now + 1 < cmd_count
        /\ Head(Fetched).n > 0 => cmds[cmd_now + 2] = <<>>
        /\ ~(Head(Fetched).n > 0) => cmds[cmd_now + 2] # <<>>
  BY <1>1, <1>2, <1>4 DEF PipeRule, Piping
<1>6. PlainMade /\ ~(Head(Fetched).n > 0) => ~Ends'
  <2>1. PlainMade => Fetched # <<>> /\ Head(Fetched).is \in Sign
    BY DEF PlainMade
  <2>2. cmd_now + 1 < cmd_count => cmd_now + 1 # cmd_count
    BY <1>1, <1>2
  <2>3. QED
    BY <1>1, <1>5, <2>1, <2>2
<1>7. (\E s : NumberMade(s)) => Ends'
  <2>1. (\E s : NumberMade(s)) =>
          Fetched # <<>> /\ Head(Fetched).is \in Sign /\ Numbered(Head(Fetched))
    BY DEF NumberMade
  <2>2. QED
    BY <1>1, <1>5, <2>1 DEF Numbered
<1>8. NoneMade /\ pc' = "event" /\ Fetched # <<>> =>
        Ends' /\ program = "simple" /\ Head(Fetched).is = ">"
  <2>1. SUFFICES ASSUME NoneMade, pc' = "event", Fetched # <<>>
                 PROVE  Ends' /\ program = "simple" /\ Head(Fetched).is = ">"
    OBVIOUS
  <2>2. Head(Fetched).is \notin Sign
    BY <2>1 DEF NoneMade
  <2>3. program = "simple"
    BY <1>1, <2>1, <2>2 DEF LastOperator, Sign
  <2>4. Head(Fetched).is = ">" /\ cmds[cmd_now + 2] = <<>>
    BY <1>1, <2>1, <2>2, <2>3, FileEnds
  <2>5. QED
    BY <1>1, <2>3, <2>4
<1>9. NoneMade /\ Fetched = <<>> /\ program # "simple" => Ends'
  <2>1. SUFFICES ASSUME Fetched = <<>>, program # "simple" PROVE Ends'
    OBVIOUS
  <2>2. cmd_now + 1 \in (cmd_now + 1)..cmd_count
    BY <1>1, <1>2
  <2>3. EndRule(cmds, cmd_now + 1) /\ ~Sending(cmds, cmd_now)
    BY <1>1, <2>1, <2>2 DEF CellRules
  <2>4. cmd_now + 1 = Len(cmds)
    BY <1>1, <1>2, <2>1, <2>3 DEF EndRule
  <2>5. QED
    BY <1>1, <1>2, <2>4
<1>10. QED
  BY <1>6, <1>7, <1>8, <1>9

LEMMA GetOperatorNext ==
  ASSUME CellInv, CellRules, RunInv, AsTyped, ShellTypes, JoinState, GetOperator
  PROVE  NextIs'
<1>1. /\ pc' \in {"event", "operator"}
      /\ pc' = "event" <=> LastOperator(Fetched)
      /\ Starting' => pc' = "event"
      /\ pc' = "operator" => job' = "none"
      /\ Heads' <=> Fetched = <<>>
  BY GetOperatorMoves
<1>2. /\ PlainMade /\ ~(Head(Fetched).n > 0) => ~Ends'
      /\ (\E s : NumberMade(s)) => Ends'
      /\ NoneMade /\ pc' = "event" /\ Fetched # <<>> =>
           Ends' /\ program = "simple" /\ Head(Fetched).is = ">"
      /\ NoneMade /\ Fetched = <<>> /\ program # "simple" => Ends'
  BY GetOperatorEnds
<1>3. NoneMade \/ UserMade \/ PlainMade \/ \E s : NumberMade(s)
  BY GetOperatorMakes
<1>4. ASSUME Onward' PROVE (Heads' <=> fd_out' = 0) /\ fd_out' \notin Boxed'
  <2>1. pc' = "event" /\ ~Ends'
    BY <1>4 DEF Onward
  <2>2. CASE NoneMade
    <3>1. fd_out' = 0 /\ Boxed' = Boxed
      BY <2>2 DEF NoneMade, Boxed
    <3>2. QED
      BY <1>1, <1>2, <2>1, <2>2, <3>1, Boxes
  <2>3. CASE PlainMade
    <3>1. /\ fd_out' \in Pipe /\ fd_out' \notin Held /\ Boxed' = Boxed
          /\ Fetched # <<>>
      BY <2>3 DEF PlainMade, Boxed
    <3>2. Boxed \subseteq Held
      BY Boxes DEF Held, Made
    <3>3. QED
      BY <1>1, <3>1, <3>2, Boxes
  <2>4. CASE UserMade
    BY <2>1, <2>4 DEF UserMade
  <2>5. QED
    BY <1>2, <1>3, <2>1, <2>2, <2>3, <2>4
<1>5. ASSUME Starting', number' # -1 PROVE Ends'
  BY <1>2, <1>3, <1>5 DEF NoneMade, UserMade, PlainMade
<1>6. ASSUME Pending', out_operator', fd_out' = 0 PROVE Ends'
  <2>1. pc' = "event"
    BY <1>1, <1>6 DEF Pending, Starting
  <2>2. program # "simple"
    <3>1. (program = "simple" => ~out_operator)'
      BY TypesAtGetOperator DEF ShellTypes, ControlTypes
    <3>2. program' = program
      BY GetOperatorMoves
    <3>3. QED
      BY <1>6, <3>1, <3>2
  <2>3. ~UserMade
    BY <2>1 DEF UserMade
  <2>4. ~PlainMade
    BY <1>6, Boxes DEF PlainMade
  <2>5. QED
    BY <1>2, <1>3, <2>1, <2>2, <2>3, <2>4
<1>7. QED
  BY <1>1, <1>4, <1>5, <1>6 DEF NextIs

LEMMA GetOperatorRing ==
  ASSUME CellInv, CellRules, RunInv, AsTyped, ShellTypes, JoinState, GetOperator
  PROVE  /\ RingIs'
         /\ \A p : ComesTo(p)' => ComesTo(p) \/ p \notin Held
<1>1. /\ Handling /\ UNCHANGED <<fd_in, user_pipe, lost>> /\ (in_operator => in_operator')
      /\ NoneMade \/ UserMade \/ PlainMade \/ \E s : NumberMade(s)
      /\ \A p \in Pipe : /\ Shell \in wr[p] => Shell \in wr'[p]
                         /\ Shell \in rd[p] => Shell \in rd'[p]
  BY GetOperatorMoves, GetOperatorMakes, Zenon
<1>2. (\E s : NumberMade(s)) => Ends'
  BY GetOperatorEnds
<1>3. /\ \A s, t \in Slot : box[s] = box[t] /\ box[s] # 0 => s = t
      /\ \A p \in Boxed : Shell \in wr[p]
      /\ \A p \in Pipe : ComesTo(p) => Shell \in rd[p]
      /\ user_pipe \notin Boxed /\ fd_in \notin Boxed
      /\ \A p \in lost : p \notin Boxed
  BY <1>1 DEF JoinState, RingIs
<1>4. /\ 0 \notin Pipe /\ 0 \notin Boxed /\ Boxed \subseteq Pipe /\ Boxed \subseteq Held
      /\ 0 \notin lost /\ lost \subseteq Held
      /\ user_pipe \in Held /\ fd_in \in Held
      /\ \A s \in Slot : box[s] # 0 => box[s] \in Boxed
  BY Boxes DEF ShellTypes, TableTypes, Held, Made
(* The ring is as before, or the pipe is in it.                            *)
<1>5. /\ \A s, t \in Slot : box'[s] = box'[t] /\ box'[s] # 0 => s = t
      /\ \A p \in Boxed' : p \in Boxed \/ (p = fd_out' /\ p \notin Held /\ p \in Pipe)
      /\ \A p : p = fd_out' /\ p \notin Held /\ p \in Pipe => Shell \in wr'[p] /\ Shell \in rd'[p]
      /\ Onward' => fd_out' = 0 \/ (fd_out' \notin Held /\ fd_out' \in Pipe)
      /\ fd_out' = 0 \/ fd_out' \notin Held \/ fd_out' \in Boxed
  <2>1. CASE NoneMade \/ UserMade
    <3>1. fd_out' = 0 /\ box' = box /\ Boxed' = Boxed
      BY <2>1 DEF NoneMade, UserMade, Boxed
    <3>2. QED
      BY <1>3, <1>4, <3>1
  <2>2. CASE PlainMade
    <3>1. /\ fd_out' \in Pipe /\ fd_out' \notin Held /\ Shell \in wr'[fd_out']
          /\ Shell \in rd'[fd_out'] /\ box' = box /\ Boxed' = Boxed
      BY <2>2 DEF PlainMade, Boxed
    <3>2. QED
      BY <1>3, <3>1
  <2>3. CASE \E s : NumberMade(s)
    <3>1. PICK s : NumberMade(s)
      BY <2>3
    <3>2. /\ s \in Slot /\ fd_out' = box'[s] /\ fd_out' \in Pipe
          /\ Shell \in wr'[fd_out'] /\ Shell \in rd'[fd_out']
          /\ \A r \in Slot : r = s \/ box'[r] = box[r]
          /\ box[s] # 0 => box'[s] = box[s]
          /\ box[s] = 0 => box'[s] \notin Held
      BY <3>1 DEF NumberMade
    <3>3. ~Onward'
      BY <1>2, <3>1 DEF Onward
    <3>4. \A r, t \in Slot : box'[r] = box'[t] /\ box'[r] # 0 => r = t
      <4>1. CASE box[s] # 0
        <5>1. \A r \in Slot : box'[r] = box[r]
          BY <3>2, <4>1
        <5>2. QED
          BY <1>3, <5>1
      <4>2. CASE box[s] = 0
        <5>1. \A r \in Slot : r # s => box'[r] # box'[s]
          <6>1. \A r \in Slot : box[r] \in Held
            BY DEF ShellTypes, TableTypes, Held
          <6>2. QED
            BY <3>2, <4>2, <6>1
        <5>2. QED
          BY <1>3, <3>2, <5>1
      <4>3. QED
        BY <4>1, <4>2
    <3>5. \A p \in Boxed' : p \in Boxed \/ (p = fd_out' /\ p \notin Held /\ p \in Pipe)
      <4>1. \A p \in Boxed' : \E r \in Slot : box'[r] = p /\ p # 0
        BY DEF Boxed
      <4>2. ASSUME NEW p, NEW r \in Slot, box'[r] = p, p # 0
            PROVE  p \in Boxed \/ (p = fd_out' /\ p \notin Held /\ p \in Pipe)
        BY <1>4, <3>2, <4>2
      <4>3. QED
        BY <4>1, <4>2
    <3>6. fd_out' \notin Held \/ fd_out' \in Boxed
      BY <1>4, <3>2
    <3>7. QED
      BY <3>2, <3>3, <3>4, <3>5, <3>6
  <2>4. QED
    BY <1>1, <2>1, <2>2, <2>3
<1>6. \A p : ComesTo(p)' => ComesTo(p) \/ (p = fd_out' /\ p \notin Held /\ p \in Pipe)
  <2>1. ASSUME NEW p, ComesTo(p)', ~(p = fd_out' /\ p \notin Held /\ p \in Pipe)
        PROVE  ComesTo(p)
    <3>1. /\ p \notin {0, DevNull, user_pipe} \union lost
          /\ p \in Boxed' \/ (Onward' /\ p = fd_out') \/ (~in_operator' /\ p = fd_in)
      BY <1>1, <2>1 DEF ComesTo
    <3>2. p \in Boxed \/ (~in_operator /\ p = fd_in)
      BY <1>1, <1>5, <2>1, <3>1
    <3>3. QED
      BY <1>1, <3>1, <3>2 DEF ComesTo
  <2>2. QED
    BY <2>1
<1>7. RingIs'
  <2>1. \A p \in Boxed' : Shell \in wr'[p]
    BY <1>1, <1>3, <1>4, <1>5
  <2>2. \A p \in Pipe : ComesTo(p)' => Shell \in rd'[p]
    BY <1>1, <1>3, <1>5, <1>6
  <2>3. user_pipe \notin Boxed' /\ fd_in \notin Boxed'
    BY <1>3, <1>4, <1>5
  <2>4. \A p \in lost' : p \notin Boxed' /\ p # fd_out'
    BY <1>1, <1>3, <1>4, <1>5
  <2>5. QED
    BY <1>1, <1>5, <2>1, <2>2, <2>3, <2>4 DEF RingIs
<1>8. QED
  BY <1>6, <1>7

LEMMA GetOperatorHand ==
  ASSUME CellInv, CellRules, RunInv, AsTyped, ShellTypes, [Next]_vars, JoinState, GetOperator,
         NEW a, a = at, Handling'
  PROVE  /\ HandIs(a)' /\ Keeps(a)
         /\ Starting' /\ ~UserPiped(a) => Behind(a) = Fetched
<1>1. /\ Handling /\ ~Starting /\ pc = "operator" /\ pc' \in {"event", "operator"}
      /\ pc' = "event" <=> LastOperator(Fetched)
      /\ cmd_now' = cmd_now + 1 /\ cmd_now \in Nat
      /\ cmd_now + 1 \in 1..cmd_count /\ Fetched = cmds[cmd_now + 1]
      /\ instruction_count' = instruction_count /\ Coming' = Coming
      /\ Starting' => pc' = "event"
  BY GetOperatorMoves
<1>2. HandIs(a)
  BY DEF JoinState, Hands
<1>3. /\ CommandAtCell(a) /\ a <= cmd_now
      /\ instruction_count = InstructionOf(a) /\ Coming = instruction_count + 1
      /\ in_operator \/ out_operator => UserPiped(a)
      /\ PipeOf(a) > cmd_now
  BY <1>1, <1>2 DEF HandIs
<1>4. Keeps(a)
  BY <1>3, SenseKept
<1>5. /\ a \in Nat /\ PipeOf(a) \in (a + 1)..cmd_count /\ cmd_count \in Nat
      /\ Closing(cmds, PipeOf(a))
      /\ \A k \in (a + 1)..cmd_count : Closing(cmds, k) => PipeOf(a) <= k
  BY <1>3, Reading
<1>6. /\ PipeOf(a) >= cmd_now + 1 /\ cmd_now + 1 \in (a + 1)..cmd_count
      /\ cmd_now + 1 \in a..PipeOf(a) /\ PipeOf(a) \in Nat
  BY <1>1, <1>3, <1>5
<1>7. Closing(cmds, cmd_now + 1) => PipeOf(a) = cmd_now + 1
  <2>1. Closing(cmds, cmd_now + 1) => PipeOf(a) <= cmd_now + 1
    BY <1>5, <1>6
  <2>2. QED
    BY <1>1, <1>6, <2>1
<1>8. ~Closing(cmds, cmd_now + 1) => PipeOf(a) # cmd_now + 1
  BY <1>5
<1>9. Fetched # <<>> /\ Head(Fetched).is \in {">", "<"} => UserPiped(a)
  BY <1>1, <1>6 DEF UserPiped
<1>10. LastOperator(Fetched) /\ ~Closing(cmds, cmd_now + 1) =>
         program = "simple" /\ Fetched # <<>> /\ Head(Fetched).is \notin Sign
  BY <1>1 DEF LastOperator, Closing, Sign
<1>11. ~LastOperator(Fetched) => ~Closing(cmds, cmd_now + 1)
  BY <1>1 DEF LastOperator, Closing
<1>12. Starting' /\ ~UserPiped(a) => PipeOf(a) = cmd_now + 1
  <2>1. SUFFICES ASSUME LastOperator(Fetched), ~Closing(cmds, cmd_now + 1) PROVE UserPiped(a)
    BY <1>1, <1>7
  <2>2. program = "simple" /\ Fetched # <<>> /\ Head(Fetched).is \notin Sign
    BY <1>10, <2>1
  <2>3. Head(Fetched).is = ">"
    BY <1>1, <2>2, FileEnds
  <2>4. QED
    BY <1>9, <2>2, <2>3
<1>13. in_operator' \/ out_operator' => UserPiped(a)
  <2>1. CASE UNCHANGED <<in_operator, out_operator>>
    BY <1>3, <2>1
  <2>2. CASE UserMade
    BY <1>9, <2>2 DEF UserMade
  <2>3. QED
    BY <2>1, <2>2, GetOperatorMakes DEF NoneMade, PlainMade, NumberMade
<1>14. pc' = "operator" => PipeOf(a) > cmd_now + 1
  BY <1>1, <1>6, <1>8, <1>11
<1>15. a <= cmd_now + 1
  BY <1>1, <1>3, <1>5
<1>16. HandIs(a)'
  <2>1. /\ PipeOf(a)' = PipeOf(a) /\ InstructionOf(a)' = InstructionOf(a)
        /\ UserPiped(a)' <=> UserPiped(a)
        /\ CommandAtCell(a)'
    BY <1>4 DEF Keeps
  <2>2. QED
    BY <1>1, <1>3, <1>6, <1>12, <1>13, <1>14, <1>15, <2>1 DEF HandIs
<1>17. Starting' /\ ~UserPiped(a) => Behind(a) = Fetched
  BY <1>1, <1>12 DEF Behind
<1>18. QED
  BY <1>4, <1>16, <1>17

LEMMA GetOperatorOutput ==
  ASSUME CellInv, CellRules, RunInv, AsTyped, ShellTypes, [Next]_vars, JoinState, GetOperator,
         NEW a, a = at
  PROVE  OutputIs(a)'
<1>1. SUFFICES ASSUME Starting' PROVE OutputIs(a)'
  BY DEF OutputIs
<1>2. /\ UNCHANGED <<fd_in, user_pipe, instruction_count>>
      /\ NoneMade \/ UserMade \/ PlainMade \/ \E s : NumberMade(s)
      /\ pc' = "event"
  BY <1>1, GetOperatorMoves, GetOperatorMakes, Zenon
<1>3. ~UserMade
  BY <1>2 DEF UserMade
<1>4. Keeps(a) /\ (~UserPiped(a) => Behind(a) = Fetched)
  BY <1>1, GetOperatorHand DEF Handling
<1>5. /\ PlainMade /\ ~(Head(Fetched).n > 0) => ~Ends'
  BY GetOperatorEnds
<1>6. /\ 0 \notin Pipe /\ 0 \notin Boxed /\ Boxed \subseteq Held
      /\ user_pipe \in Held /\ fd_in \in Held
  BY Boxes DEF ShellTypes, TableTypes, Held, Made
<1>7. Fetched # <<>> => Head(Fetched).n \in Nat
  BY Operations
<1>8. Expected(a)' => Expected(a) /\ ~UserPiped(a) /\ Behind(a) = Fetched
                      /\ (ErrorPipe(a) => program = "simple")
  BY <1>4 DEF Keeps, Expected
<1>9. /\ Behind(a)' = Behind(a)
      /\ Plainly(a)' <=> Plainly(a)
      /\ Numbering(a)' <=> Numbering(a)
  BY <1>4 DEF Keeps
<1>10. CASE NoneMade
  <2>1. fd_out' = 0 /\ number' = -1 /\ Boxed' = Boxed
    BY <1>10 DEF NoneMade, Boxed
  <2>2. ~Expected(a)' \/ Fetched = <<>>
    <3>1. SUFFICES ASSUME Fetched # <<>>, Expected(a)' PROVE FALSE
      OBVIOUS
    <3>2. Head(Fetched).is = ">" /\ Head(Fetched).is \notin Sign
      BY <1>2, <1>10, <3>1, GetOperatorEnds DEF NoneMade
    <3>3. Closing(cmds, PipeOf(a)) /\ Behind(a) = Fetched
      <4>1. CommandAtCell(a)
        <5>1. HandIs(a)
          BY DEF JoinState, Hands
        <5>2. QED
          BY <5>1, GetOperatorMoves DEF HandIs
      <4>2. QED
        BY <1>8, <3>1, <4>1, Reading
    <3>4. QED
      BY <3>1, <3>2, <3>3 DEF Closing, Behind, Sign
  <2>3. Expected(a)' => ~Plainly(a) /\ ~Numbering(a)
    BY <1>8, <2>2 DEF Plainly, Numbering
  <2>4. QED
    BY <1>6, <1>9, <2>1, <2>3 DEF OutputIs
<1>11. CASE PlainMade
  <2>1. /\ fd_out' \in Pipe /\ fd_out' \notin Held /\ Shell \in wr'[fd_out'] /\ number' = -1
        /\ Boxed' = Boxed /\ Fetched # <<>> /\ Head(Fetched).is \in Sign
        /\ ~Numbered(Head(Fetched))
    BY <1>11 DEF PlainMade, Boxed
  <2>2. Expected(a)' => ~(Head(Fetched).n > 0)
    <3>1. Expected(a)' /\ Head(Fetched).is = "!" => program = "simple"
      BY <1>8, <2>1 DEF ErrorPipe, Behind
    <3>2. QED
      BY <2>1, <3>1 DEF Numbered, Sign
  <2>3. Expected(a)' => Behind(a) # <<>> /\ Plainly(a) /\ ~Numbering(a)
    BY <1>8, <2>1, <2>2 DEF Plainly, Numbering
  <2>4. Expected(a)' => ~Ends'
    BY <1>5, <1>11, <2>2
  <2>5. QED
    BY <1>2, <1>6, <1>9, <2>1, <2>3, <2>4 DEF OutputIs
<1>12. CASE \E s : NumberMade(s)
  <2>1. PICK s : NumberMade(s)
    BY <1>12
  <2>2. /\ s = Entry(instruction_count, Head(Fetched).n)
        /\ fd_out' = box'[s] /\ fd_out' \in Pipe /\ fd_out' # user_pipe /\ fd_out' # fd_in
        /\ Shell \in wr'[fd_out'] /\ number' = Head(Fetched).n /\ Fetched # <<>>
        /\ Numbered(Head(Fetched))
    BY <2>1 DEF NumberMade
  <2>3. number' # -1 /\ Head(Fetched).n > 0
    BY <1>7, <2>2 DEF Numbered
  <2>4. Expected(a)' => Behind(a) # <<>> /\ ~Plainly(a) /\ Head(Behind(a)').n = number'
    BY <1>8, <1>9, <2>2, <2>3 DEF Plainly
  <2>5. fd_out' = box'[Entry(instruction_count, number)']
    BY <1>2, <2>2 DEF Entry
  <2>6. QED
    BY <1>2, <1>6, <1>9, <2>2, <2>3, <2>4, <2>5 DEF OutputIs
<1>13. QED
  BY <1>2, <1>3, <1>10, <1>11, <1>12

(* The outputs of the older commands stay where they are.                  *)
LEMMA GetOperatorSends ==
  ASSUME CellInv, CellRules, RunInv, AsTyped, ShellTypes, [Next]_vars, JoinState, GetOperator,
         NEW a, a = at, NEW i, NEW out, out \in Made, Placed(i), Keeps(i), Expected(i),
         Sends(i, out, a)
  PROVE  Sends(i, out, a)'
<1>1. /\ Handling /\ ~Starting
      /\ cmd_now' = cmd_now + 1 /\ cmd_now \in Nat
      /\ UNCHANGED <<at, instruction_count, fd_in, user_pipe>>
      /\ Coming' = Coming
  BY GetOperatorMoves
<1>2. /\ in_operator => in_operator'
      /\ NoneMade \/ UserMade \/ PlainMade \/ \E s : NumberMade(s)
  BY GetOperatorMakes
<1>3. /\ PipeOf(i)' = PipeOf(i) /\ Target(i)' = Target(i)
      /\ Plainly(i)' <=> Plainly(i)
      /\ Numbering(i)' <=> Numbering(i)
      /\ CommandAtCell(i)
  BY DEF Keeps, Placed
<1>4. /\ Past(i) /\ (out # 0 => out # user_pipe)
      /\ ToHand(i, out, a) /\ ToBox(i, out)
  BY DEF Sends
<1>5. CommandAtCell(a)
  BY <1>1 DEF JoinState, Hands, HandIs
<1>6. PipeOf(i) <= cmd_now /\ PipeOf(i) < a /\ PipeOf(i) \in Nat
  BY <1>1, <1>3, <1>4, Reading DEF Past
<1>7. out \in Held /\ \A s \in Slot : box[s] \in Held
  BY DEF Held, ShellTypes, TableTypes
<1>8. Past(i)'
  BY <1>1, <1>3, <1>6 DEF Past
<1>9. ToHand(i, out, a)'
  <2>1. Feeds(i, a)' <=> Feeds(i, a)
    BY <1>3, <1>5, FeedsKept
  <2>2. QED
    BY <1>1, <1>2, <1>4, <2>1 DEF ToHand
<1>10. ToNext(i, out)'
  <2>1. PipeOf(i) # cmd_now + 1
    BY <1>1, <1>6
  <2>2. Onward' => fd_out' = 0 \/ fd_out' \notin Held
    <3>1. CASE NoneMade \/ UserMade
      BY <3>1 DEF NoneMade, UserMade
    <3>2. CASE PlainMade
      BY <3>2 DEF PlainMade
    <3>3. CASE \E s : NumberMade(s)
      BY <3>3, GetOperatorEnds DEF Onward
    <3>4. QED
      BY <1>2, <3>1, <3>2, <3>3
  <2>3. QED
    BY <1>1, <1>3, <1>7, <2>1, <2>2 DEF ToNext
<1>11. ToBox(i, out)'
  <2>1. \A s \in Slot : out # 0 /\ out = box[s] <=>
          Numbering(i) /\ Target(i) >= Coming /\ Target(i) % max_store_num = s
    BY <1>4 DEF ToBox
  <2>2. \A r \in Slot : (out # 0 /\ out = box'[r]) <=> (out # 0 /\ out = box[r])
    <3>1. CASE ~\E s : NumberMade(s)
      BY <1>2, <3>1 DEF NoneMade, UserMade, PlainMade
    <3>2. CASE \E s : NumberMade(s)
      <4>1. PICK s : NumberMade(s)
        BY <3>2
      <4>2. /\ s \in Slot
            /\ \A r \in Slot : r = s \/ box'[r] = box[r]
            /\ box[s] # 0 => box'[s] = box[s]
            /\ box[s] = 0 => box'[s] \notin Held
        BY <4>1 DEF NumberMade
      <4>3. QED
        BY <1>7, <4>2
    <3>3. QED
      BY <3>1, <3>2
  <2>3. QED
    BY <1>1, <1>3, <2>1, <2>2 DEF ToBox
<1>12. QED
  BY <1>1, <1>4, <1>8, <1>9, <1>10, <1>11 DEF Sends

LEMMA GetOperatorStep ==
  ASSUME CellInv, CellRules, RunInv, AsTyped, ShellTypes, [Next]_vars, JoinState, GetOperator
  PROVE  JoinState'
<1>1. Hands /\ NextIs /\ RingIs /\ Children /\ Joints
  BY DEF JoinState
<1>2. /\ cmd_now' = cmd_now + 1 /\ cmd_now \in Nat
      /\ UNCHANGED <<at, procs, lost>> /\ Coming' = Coming /\ Coming \in Nat
  BY GetOperatorMoves
<1>3. Made \subseteq Made' /\ Held \subseteq Held'
  BY GetOperatorMakes
<1>4. RingIs' /\ \A p : ComesTo(p)' => ComesTo(p) \/ p \notin Held
  BY GetOperatorRing
<1>5. NextIs'
  BY GetOperatorNext
<1>6. Hands'
  <2>1. ASSUME NEW a, a = at' PROVE HandIs(a)' /\ OutputIs(a)'
    <3>1. a = at
      BY <1>2, <2>1
    <3>2. OutputIs(a)'
      BY <3>1, GetOperatorOutput
    <3>3. CASE Handling'
      BY <3>1, <3>2, <3>3, GetOperatorHand
    <3>4. CASE ~Handling'
      BY <3>2, <3>4 DEF HandIs
    <3>5. QED
      BY <3>3, <3>4
  <2>2. QED
    BY <2>1 DEF Hands
<1>7. Coming' >= Coming /\ Coming' \in Nat /\ cmd_now' >= cmd_now
  BY <1>2
<1>8. Children'
  <2>1. SUFFICES ASSUME NEW i, NEW in, NEW fd, NEW out, Born(i, in, fd, out)'
                 PROVE  ChildIs(i, in, fd, out)'
    BY DEF Children
  <2>2. ChildIs(i, in, fd, out)
    BY <1>1, <1>2, <2>1, SameChildren, Zenon DEF Children
  <2>3. Placed(i)' /\ Keeps(i) /\ Placed(i)
    BY <1>7, <2>2, PlacedKept DEF ChildIs
  <2>4. /\ out \in Made /\ out \in Made' /\ out \notin lost'
        /\ fd \in Held' /\ in \in {0, fd} /\ ~ComesTo(fd)'
    BY <1>2, <1>3, <1>4, <2>2 DEF ChildIs
  <2>5. ASSUME NEW a, a = at', Expected(i)' PROVE Sends(i, out, a)'
    <3>1. a = at /\ Expected(i)
      BY <1>2, <2>3, <2>5 DEF Keeps
    <3>2. Sends(i, out, a)
      BY <2>2, <3>1 DEF ChildIs
    <3>3. QED
      BY <2>3, <2>4, <3>1, <3>2, GetOperatorSends
  <2>6. \A a : a = at' => Sends(i, out, a)'
    BY <2>5 DEF Sends
  <2>7. QED
    BY <2>3, <2>4, <2>6 DEF ChildIs
<1>9. Joints'
  BY <1>1, <1>2, SameChildren, JointsKept
<1>10. QED
  BY <1>4, <1>5, <1>6, <1>8, <1>9 DEF JoinState

-----------------------------------------------------------------------------
(* The invariant holds, and says what Joined says.                         *)

LEMMA JoinAtInit == ShellInit => JoinInv
<1>1. SUFFICES ASSUME ShellInit PROVE JoinState
  BY DEF JoinInv
<1>2. /\ procs = <<>> /\ DOMAIN procs = {} /\ job = "none" /\ pc = "prompt" /\ user_pipe = 0
      /\ lost = {}
      /\ \A s \in Slot : box[s] = 0
  BY <1>1, EmptySeq DEF ShellInit, Init
<1>3. ~Handling /\ ~Onward /\ ~Starting /\ ~Pending /\ Boxed = {}
  BY <1>2 DEF Handling, Onward, Starting, Pending, Boxed
<1>4. \A p : ~ComesTo(p)
  BY <1>3 DEF ComesTo
<1>5. Hands /\ NextIs /\ RingIs
  BY <1>2, <1>3, <1>4 DEF Hands, HandIs, OutputIs, NextIs, RingIs
<1>6. Children /\ Joints
  BY <1>2 DEF Children, Joints, Born
<1>7. QED
  BY <1>5, <1>6 DEF JoinState

(* What the users took for a command stays one, so AsTyped held before.    *)
LEMMA TypedBefore ==
  ASSUME CellInv, ShellTypes, [SystemNext]_allVars, AsTyped'
  PROVE  AsTyped
<1>1. CASE ShellReads
  <2>1. PICK line \in Seq(Token) : Typed(line)
    BY <1>1, LineTyped DEF ShellReads
  <2>2. lines' = Append(lines, line) /\ program' = program
    BY <2>1 DEF Typed
  <2>3. lines \in Seq(Seq(Token))
    BY DEF CellInv
  <2>4. QED
    BY <2>2, <2>3, TypedMore
<1>2. CASE ~ShellReads
  <2>1. UNCHANGED <<lines, program>>
    BY <1>2 DEF SystemNext, ShellNext, ShellPrompts, NoInstruction, GetEvent, SkipRest, GetOperator,
         ReceivePipe, SendPipe, Fork, Wait, child_handler, ChildEnds, LineDone, FetchEvent, Skip, FetchOperator,
         get_next_cmd, allVars, vars, cursor
  <2>2. QED
    BY <2>1 DEF AsTyped, Misread, LegalIn
<1>3. QED
  BY <1>1, <1>2

LEMMA JoinAtStep ==
  ASSUME CellInv, LineInv, RunInv, JoinInv, [SystemNext]_allVars
  PROVE  JoinInv'
<1>1. SUFFICES ASSUME AsTyped' PROVE JoinState'
  BY DEF JoinInv
<1>2. CellRules /\ ShellTypes /\ [Next]_vars
  BY StepOfCommand DEF LineInv
<1>3. AsTyped /\ JoinState
  BY <1>1, <1>2, TypedBefore DEF JoinInv
<1>4. CASE ShellReads \/ ShellPrompts \/ NoInstruction \/ SkipRest
  <2>1. Quiet
    BY <1>2, <1>3, <1>4, QuietIs DEF JoinState
  <2>2. QED
    BY <1>2, <1>3, <2>1, QuietStep
<1>5. CASE GetEvent
  BY <1>2, <1>3, <1>5, GetEventStep
<1>6. CASE GetOperator
  BY <1>2, <1>3, <1>6, GetOperatorStep
<1>7. CASE ReceivePipe \/ SendPipe
  BY <1>2, <1>3, <1>7, UserPipesStep
<1>8. CASE Fork
  BY <1>2, <1>3, <1>8, ForkStep
<1>9. CASE UNCHANGED allVars \/ Wait \/ child_handler \/ \E c \in DOMAIN procs : ChildEnds(c)
  <2>1. Reaping /\ \A i, in, fd, out : Born(i, in, fd, out)' => Born(i, in, fd, out)
    BY <1>2, <1>9, StillChildren
  <2>2. QED
    BY <1>2, <1>3, <2>1, ReapingStep
<1>10. QED
  BY <1>4, <1>5, <1>6, <1>7, <1>8, <1>9 DEF SystemNext, ShellNext

LEMMA JoinMeans == ASSUME JoinInv PROVE Joined
<1>1. SUFFICES ASSUME JoinState, NEW c \in DOMAIN procs, NEW d \in DOMAIN procs,
                      NEW i, i = procs[c].at, NEW j, j = procs[d].at,
                      Expected(i), ~UserPiped(j)
               PROVE  JoinedBy(c, d) <=> Feeds(i, j)
  BY DEF JoinInv, Joined, Expected
<1>2. /\ Born(i, procs[c].in, procs[c].fd_in, procs[c].out)
      /\ Born(j, procs[d].in, procs[d].fd_in, procs[d].out)
  BY <1>1 DEF Born
<1>3. Joint(i, procs[c].out, j, procs[d].in)
  BY <1>1, <1>2, Zenon DEF JoinState, Joints
<1>4. QED
  BY <1>1, <1>3 DEF Joint, JoinedBy

(* A command reads what another one writes if and only if the line says    *)
(* so, whatever lines were typed before and however often the entries of   *)
(* the ring were used again, if np_simple did not misread an operator for  *)
(* a command (pipe.cpp, np_simple.cpp:91-196, np_single_proc.cpp:225-361,  *)
(* np_multi_proc.cpp:400-560, Joined).                                     *)
THEOREM CommandsAreJoined == ShellSpec => []Joined
<1>1. ShellInit => CellInv /\ LineInv /\ RunInv /\ JoinInv
  BY LineAtInit, RunAtInit, JoinAtInit DEF ShellInit
<1>2. CellInv /\ LineInv /\ RunInv /\ JoinInv /\ [SystemNext]_allVars
        => CellInv' /\ LineInv' /\ RunInv' /\ JoinInv'
  BY StepOfCommand, LineAtStep, RunAtStep, JoinAtStep
<1>3. JoinInv => Joined
  BY JoinMeans
<1>4. QED
  BY <1>1, <1>2, <1>3, PTL DEF ShellSpec
=============================================================================

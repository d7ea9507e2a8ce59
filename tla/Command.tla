------------------------------ MODULE Command ------------------------------
(***************************************************************************)
(* The command parser and the loop that takes a line apart.                *)
(*                                                                         *)
(* read_string splits a line into cells: the words of a command, or an     *)
(* operator with what belongs to it, and an empty cell after each          *)
(* instruction.  A numbered pipe ends an instruction, so a line may have   *)
(* several.  The display loops of the three shells fetch cells with        *)
(* get_next_cmd, which also counts the instructions.                       *)
(*                                                                         *)
(* A token is a word, or an operator with a number, 0 standing for none.   *)
(***************************************************************************)
EXTENDS Naturals, FiniteSets, Sequences, SequencesExt

CONSTANTS
  Programs,    (* of np_simple, np_single_proc and np_multi_proc           *)
  Word,        (* words users type                                         *)
  BuiltIn,     (* those the shell runs itself                              *)
  Number,      (* numbers users type behind an operator                    *)
  Lines,       (* the lines of each length they may type to each program   *)
  MaxTokens,   (* bound: tokens in all lines                               *)
  MaxLines     (* bound: lines                                             *)

Operator == {"|", "!", ">", "<"}

ASSUME CommandAssumption ==
  /\ Programs \subseteq {"simple", "single", "multi"}
  /\ Word \intersect Operator = {} /\ BuiltIn \subseteq Word
  /\ Number \subseteq Nat \ {0}
  /\ MaxTokens \in Nat /\ MaxLines \in Nat

VARIABLES
  program,           (* which of them runs                                 *)
  pc,                (* where the display loop is                          *)
  cmds, cmd_now, cmd_count,
  instrusion_count,
  (* history, read by no action: *)
  lines,             (* the lines read                                     *)
  ran                (* the first word of every cell run as a command      *)

cursor == <<cmds, cmd_now, cmd_count, instrusion_count>>
vars == <<program, pc, cursor, lines, ran>>

Token == [is : Word, n : {0}] \union [is : Operator, n : {0} \union Number]

ASSUME LinesAssumption == Lines \in [Programs -> [0..MaxTokens -> SUBSET Seq(Token)]]

-----------------------------------------------------------------------------
(* The rules for tokens.                                                   *)

Class(t) ==
  CASE t.is \in Word                         -> "STRING"
    [] t.is \in {">", "|"} /\ t.n = 0        -> "SYMBOL"
    [] t.is \in {"|", "!"} /\ t.n > 0        -> "NUMPIPE"
    [] t.is = "<" \/ (t.is = ">" /\ t.n > 0) -> "USERPIPE"
    [] OTHER                                 -> "none"

(* The class before token i; nothing counts before an instruction.         *)
last_type(line, i) ==
  IF i = 1 \/ Class(line[i - 1]) = "NUMPIPE" THEN "start" ELSE Class(line[i - 1])

(* What may follow what: in np_simple an operator stands behind a word,    *)
(* in the others behind a word or a user pipe.                             *)
check(last, class) ==
  IF class = "STRING" THEN TRUE
  ELSE class \in {"SYMBOL", "NUMPIPE"} /\ last = "STRING"

check_network(last, class) ==
  CASE class = "STRING" -> last # "USERPIPE"
    [] class = "none"   -> FALSE
    [] OTHER            -> last \notin {"SYMBOL", "start"}

LegalIn(prog, line) ==
  /\ \A i \in DOMAIN line :
       LET class == Class(line[i]) IN
       IF prog = "simple" THEN check(last_type(line, i), class)
                          ELSE check_network(last_type(line, i), class)
  /\ line # <<>> => Class(Last(line)) # "SYMBOL"

Legal(line) == LegalIn(program, line)

-----------------------------------------------------------------------------
(* The cells of a line.  open is the cell being filled; at says what comes *)
(* next: the first token of a command, more, or the name of a file; ends   *)
(* is what the last token ended: 1 a command, 2 an instruction.            *)

Begin == [cells |-> <<>>, open |-> <<>>, at |-> "first", ends |-> 0, count |-> 0]

Added(s, t) == [s EXCEPT !.open = Append(@, t), !.at = "more"]

Redirected(s, t) ==
  [s EXCEPT !.cells = Append(@, s.open), !.open = <<t>>,
            !.at = IF t.n = 0 THEN "file" ELSE "more", !.count = @ + 1]

Piped(s, t) ==
  LET ends == IF t.n = 0 THEN 1 ELSE 2 IN
  [s EXCEPT !.cells = @ \o <<s.open, <<t>>>> \o (IF ends = 2 THEN <<<<>>>> ELSE <<>>),
            !.open = <<>>, !.at = "first", !.ends = ends, !.count = @ + ends]

Tokenize(s, t) ==
  CASE s.at = "first" -> [Added(s, t) EXCEPT !.ends = 0, !.count = @ + 1]
    [] s.at = "more" /\ t.is \in {"|", "!"} -> Piped(s, t)
    [] s.at = "more" /\ (t.is = ">" \/ (t.is = "<" /\ t.n > 0)) -> Redirected(s, t)
    [] OTHER -> Added(s, t)

(* An instruction that no numbered pipe has ended is ended here.           *)
Finish(s) ==
  LET last == IF s.open = <<>> THEN <<>> ELSE <<s.open>>
      stop == IF s.ends < 2 THEN <<<<>>>> ELSE <<>>
  IN  [cells |-> s.cells \o last \o stop, count |-> s.count + Len(stop)]

(* The cells after each token of the line.                                 *)
Cut(line) ==
  LET cut[i \in 0..Len(line)] == IF i = 0 THEN Begin ELSE Tokenize(cut[i - 1], line[i])
  IN  cut

(* A line that breaks the rules is run as one command.                     *)
read_string(line) ==
  IF Legal(line) THEN Finish(Cut(line)[Len(line)])
                 ELSE [cells |-> <<line, <<>>>>, count |-> 2]

-----------------------------------------------------------------------------
(* The cursor.                                                             *)

isempty == cmd_now = cmd_count

Fetched == cmds[cmd_now + 1]

(* Mutant: the end of an instruction is counted when it is fetched.        *)
Not_get_next_cmd ==
  /\ cmd_now' = cmd_now + 1
  /\ instrusion_count' = IF Fetched = <<>> THEN instrusion_count + 1 ELSE instrusion_count
  /\ UNCHANGED <<program, cmds, cmd_count>>

(* An instruction is counted with its last cell.                           *)
get_next_cmd ==
  /\ cmd_now' = cmd_now + 1
  /\ instrusion_count' =
       IF cmd_now + 2 <= cmd_count /\ cmds[cmd_now + 2] = <<>>
       THEN instrusion_count + 1 ELSE instrusion_count
  /\ UNCHANGED <<program, cmds, cmd_count>>

-----------------------------------------------------------------------------
(* The display loops.                                                      *)

Typed(line) ==
  /\ pc = "prompt"
  /\ cmds' = cmds \o read_string(line).cells
  /\ cmd_count' = cmd_count + read_string(line).count
  /\ lines' = Append(lines, line)
  /\ pc' = "event"
  /\ UNCHANGED <<program, cmd_now, instrusion_count, ran>>

ReadLine ==
  /\ Len(lines) < MaxLines
  /\ \E k \in 0..(MaxTokens - Len(FlattenSeq(lines))) : \E line \in Lines[program][k] :
       Typed(line)

LineDone ==
  /\ pc = "event"
  /\ isempty
  /\ pc' = "prompt"
  /\ UNCHANGED <<program, cursor, lines, ran>>

builtin(cell) == cell # <<>> /\ Head(cell).is \in BuiltIn

(* "get instruction": the next command.  np_simple asks later whether it   *)
(* runs it itself; the others do so at once and skip what is left of the   *)
(* instruction.                                                            *)
FetchEvent ==
  /\ pc = "event"
  /\ ~isempty
  /\ get_next_cmd
  /\ ran' = IF Fetched = <<>> THEN ran ELSE Append(ran, Head(Fetched))
  /\ pc' = CASE Fetched = <<>> -> "event"
             [] builtin(Fetched) /\ program # "simple" -> "skip"
             [] OTHER -> "operator"
  /\ UNCHANGED lines

Skip ==
  /\ pc = "skip"
  /\ get_next_cmd
  /\ pc' = IF Fetched = <<>> THEN "event" ELSE "skip"
  /\ UNCHANGED <<lines, ran>>

(* Mutant: only a numbered pipe ends the operators of a command.           *)
Not_LastOperator(cell) ==
  \/ cell = <<>>
  \/ Head(cell).is \in {"|", "!"} /\ Head(cell).n > 0

(* np_simple takes one operator for each command.                          *)
LastOperator(cell) ==
  \/ program = "simple"
  \/ cell = <<>>
  \/ Head(cell).is \in {"|", "!"}

FetchOperator ==
  /\ pc = "operator"
  /\ get_next_cmd
  /\ pc' = IF LastOperator(Fetched) THEN "event" ELSE "operator"
  /\ UNCHANGED <<lines, ran>>

Init ==
  /\ program \in Programs
  /\ pc = "prompt"
  /\ cmds = <<>> /\ cmd_now = 0 /\ cmd_count = 0
  /\ instrusion_count = 0
  /\ lines = <<>> /\ ran = <<>>

Next == ReadLine \/ LineDone \/ FetchEvent \/ Skip \/ FetchOperator

Spec == Init /\ [][Next]_vars

-----------------------------------------------------------------------------
(* Properties.                                                             *)

(* The counter of cells is the number of cells, the cursor is within them, *)
(* and an instruction is counted at most once for its empty cell.          *)
TypeOK ==
  /\ pc \in {"prompt", "event", "operator", "skip"}
  /\ cmds \in Seq(Seq(Token))
  /\ cmd_count = Len(cmds)
  /\ cmd_now \in 0..cmd_count
  /\ instrusion_count \in 0..cmd_now

(* The loops look at the result of get_next_cmd without asking isempty     *)
(* first wherever they expect an operator or the end of the instruction:   *)
(* there always is a cell, whatever was typed.                             *)
NeverPastEnd == pc \in {"operator", "skip"} => ~isempty

(* Every token of every line is in exactly one cell, in the order typed.   *)
NothingLost == pc = "prompt" => FlattenSeq(cmds) = FlattenSeq(lines)

(* What the users mean by a line: a word that starts a line or follows a   *)
(* pipe is a command; an instruction ends with a numbered pipe.  A line    *)
(* that breaks the rules is one command.                                   *)
Instruction(line, i) == Cardinality({j \in 1..(i - 1) : Class(line[j]) = "NUMPIPE"})
CommandAt(prog, line, i) ==
  IF LegalIn(prog, line) THEN i = 1 \/ line[i - 1].is \in {"|", "!"} ELSE i = 1
LeftOut(prog, line, i) ==
  /\ prog # "simple"
  /\ \E j \in 1..(i - 1) : /\ CommandAt(prog, line, j) /\ line[j].is \in BuiltIn
                           /\ Instruction(line, j) = Instruction(line, i)
Commands(prog, line) ==
  LET to[i \in 0..Len(line)] ==
        IF i = 0 THEN <<>>
        ELSE IF CommandAt(prog, line, i) /\ ~LeftOut(prog, line, i)
             THEN Append(to[i - 1], line[i]) ELSE to[i - 1]
  IN  to[Len(line)]

(* np_simple takes the operator behind the file of a ">" for a command.    *)
Misread(prog, line) ==
  /\ prog = "simple" /\ LegalIn(prog, line)
  /\ \E i, j \in DOMAIN line : i < j /\ line[i].is = ">" /\ line[j].is \in Operator

AsTyped == \A l \in DOMAIN lines : ~Misread(program, lines[l])

(* When a line is done, its commands have been run in order, each once and *)
(* nothing else (a built-in command of the servers with users ends its     *)
(* instruction).                                                           *)
CommandsRun ==
  (pc = "prompt" /\ AsTyped)
    => ran = FlattenSeq([l \in DOMAIN lines |-> Commands(program, lines[l])])

(* The number by which numbered pipes find their reader is the number of   *)
(* instructions typed before: the next line starts with the right one,     *)
(* after built-in commands, empty lines and lines that break the rules.    *)
Instructions(prog, line) ==
  IF line = <<>> THEN 0
  ELSE IF ~LegalIn(prog, line) THEN 1 ELSE Instruction(line, Len(line)) + 1

Total(prog, ls) ==
  LET upto[l \in 0..Len(ls)] ==
        IF l = 0 THEN 0 ELSE upto[l - 1] + Instructions(prog, ls[l])
  IN  upto[Len(ls)]

CountsInstructions == pc = "prompt" => instrusion_count = Total(program, lines)

(* The cells hold the tokens that were typed, and the cursor and its       *)
(* counter go through them without leaving them (command.cpp:122-203).     *)
CellsSound == TypeOK /\ NeverPastEnd /\ NothingLost /\ CountsInstructions
=============================================================================

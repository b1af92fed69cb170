--------------------------------- MODULE Gk ---------------------------------
(***************************************************************************)
(* The command gk <file>: cmd_gk_run_file of kernel/commands.c loads a     *)
(* program into a buffer, gk_init resets the interpreter's one static      *)
(* state and gk_run lexes, parses and interprets it.  The same state is    *)
(* used by every run, so what one program leaves behind must not reach the *)
(* next.                                                                   *)
(***************************************************************************)
EXTENDS GkSyntax, GkMeaning

CONSTANTS
  Programs,  \* syntax trees written out as source files
  Raw,       \* source files indented in any way, as sequences of lines
  Again,     \* syntax trees for the later runs
  Styles,    \* how a tree is laid out
  Typed,     \* what is typed when a program asks: sequences of lines
  MaxRuns    \* bound: runs of the command

ASSUME GkAssumption == MaxRuns \in Nat

VARIABLES
  phase,     \* "idle", "lex", "parse" or "interpret"
  src,       \* src_buf
  tokens,
  ast,
  state,     \* GkState without tokens and nodes
  outcome,   \* what gk_run reported: "" before it ends
  runs,
  program,   \* history: the tree that was written out, or NoTree
  typed      \* history: the lines that are typed during the run

vars == <<phase, src, tokens, ast, state, outcome, runs, program, typed>>

NoTree == [t |-> "NONE", c |-> <<>>]

-----------------------------------------------------------------------------
(***************************************************************************)
(* A tree written as the syntax guide says: parentheses only where the     *)
(* precedence table requires them, blocks one level deeper.                *)
(***************************************************************************)
Precedence(n) ==
  CASE n.t = "BINOP" -> CHOOSE i \in DOMAIN Levels : n.op \in Levels[i]
    [] n.t = "UNOP" -> Len(Levels) + 1
    [] OTHER -> Len(Levels) + 2

Op(op) == IF op \in Keywords THEN Word(op) ELSE Symbol(op)

RECURSIVE Text(_, _)
Text(n, least) ==
  LET comma(ts) == FoldLeft(LAMBDA s, t : IF s = <<>> THEN t
                                           ELSE s \o <<Symbol(",")>> \o t, <<>>, ts)
      plain ==
        CASE n.t = "INT" -> <<Number(n.int)>>
          [] n.t = "STR" -> <<Quoted(n.str)>>
          [] n.t = "BOOL" -> <<Word(IF n.bool THEN "True" ELSE "False")>>
          [] n.t = "VAR" -> <<Word(n.name)>>
          [] n.t = "UNOP" -> <<Op(n.op)>> \o Text(n.c[1], Precedence(n))
          [] n.t = "BINOP" -> Text(n.c[1], Precedence(n)) \o <<Op(n.op)>>
                              \o Text(n.c[2], Precedence(n) + 1)
          [] OTHER -> <<Word(n.name), Symbol("(")>>
                      \o comma([i \in DOMAIN n.c |-> Text(n.c[i], 1)])
                      \o <<Symbol(")")>>
  IN  IF Precedence(n) < least THEN <<Symbol("(")>> \o plain \o <<Symbol(")")>>
      ELSE plain

Layout(style, depth, text) ==
  CASE style = "narrow" -> <<Line(depth, 0, text)>>
    [] style = "tabs" -> <<Line(0, depth, text)>>
    [] style = "commented" -> <<Line(7, 0, <<Comment>>),
                                Line(4 * depth, 0, Append(text, Comment)),
                                Line(0, 0, <<>>)>>

\* The word that opens a conditional is if, or elif in place of an else.
RECURSIVE Lines(_, _, _, _)
Lines(n, style, depth, if) ==
  LET say(text) == Layout(style, depth, text)
      block(b) == FlattenSeq([i \in DOMAIN b.c |->
                                Lines(b.c[i], style, depth + 1, "if")])
      colon == <<Symbol(":")>>
      head(word, i) == <<Word(word)>> \o Text(n.c[i], 1) \o colon
  IN  CASE n.t = "ASSIGN" -> say(<<Word(n.name), Symbol("=")>> \o Text(n.c[1], 1))
        [] n.t = "BREAK" -> say(<<Word("break")>>)
        [] n.t = "CONTINUE" -> say(<<Word("continue")>>)
        [] n.t = "RETURN" ->
             say(<<Word("return")>> \o IF n.c = <<>> THEN <<>> ELSE Text(n.c[1], 1))
        [] n.t = "WHILE" -> say(head("while", 1)) \o block(n.c[2])
        [] n.t = "FOR" -> say(<<Word("for"), Word(n.name), Word("in")>>
                              \o Text(n.c[1], 1) \o colon) \o block(n.c[2])
        [] n.t = "DEF" ->
             say(<<Word("def")>> \o Text(Apply("CALL", n.name, Front(n.c)), 1) \o colon)
             \o block(Last(n.c))
        [] n.t = "IF" -> say(head(if, 1)) \o block(n.c[2])
             \o (IF Len(n.c) < 3 THEN <<>>
                 ELSE IF n.c[3].t = "IF" THEN Lines(n.c[3], style, depth, "elif")
                 ELSE say(<<Word("else")>> \o colon) \o block(n.c[3]))
        [] OTHER -> say(Text(n, 1))

Source(tree, style) ==
  FlattenSeq([i \in DOMAIN tree.c |-> Lines(tree.c[i], style, 0, "if")])

-----------------------------------------------------------------------------
Init ==
  /\ phase = "idle" /\ outcome = "" /\ runs = 0
  /\ src = <<>> /\ tokens = <<>> /\ ast = NoTree
  /\ program = NoTree /\ typed = <<>>
  /\ state = GkInit([funcs |-> <<>>], <<>>)

\* cmd_gk_run_file up to gk_run: the file is loaded and the state reset.
Load(file, tree, keys) ==
  /\ phase = "idle" /\ runs < MaxRuns
  /\ phase' = "lex" /\ outcome' = "" /\ runs' = runs + 1
  /\ src' = file /\ program' = tree /\ typed' = keys
  /\ state' = GkInit(state, keys)
  /\ tokens' = <<>> /\ ast' = NoTree

RunTree(tree, style, keys) == Load(Source(tree, style), tree, keys)
RunRaw(file) == Load(file, NoTree, <<>>)

\* The three parts of gk_run, each of which may end it.
GkLex ==
  /\ phase = "lex"
  /\ tokens' = Lex(src).toks
  /\ phase' = IF Lex(src).ok THEN "parse" ELSE "idle"
  /\ outcome' = IF Lex(src).ok THEN "" ELSE "lex error"
  /\ UNCHANGED <<src, ast, state, runs, program, typed>>

GkParse ==
  /\ phase = "parse"
  /\ LET r == Parse(tokens)
     IN  IF r.ok THEN /\ ast' = r.node
                      /\ phase' = "interpret" /\ UNCHANGED outcome
                 ELSE /\ phase' = "idle" /\ outcome' = "parse error"
                      /\ UNCHANGED ast
  /\ UNCHANGED <<src, tokens, state, runs, program, typed>>

Interpret ==
  /\ phase = "interpret"
  /\ state' = Eval(state, ast).s
  /\ phase' = "idle"
  /\ outcome' = IF state'.error THEN "runtime error" ELSE "ok"
  /\ UNCHANGED <<src, tokens, ast, runs, program, typed>>

GkRun == GkLex \/ GkParse \/ Interpret

Next ==
  \/ \E tree \in (IF runs = 0 THEN Programs ELSE Again), style \in Styles,
        keys \in Typed : RunTree(tree, style, keys)
  \/ runs = 0 /\ \E file \in Raw : RunRaw(file)
  \/ GkRun

Spec == Init /\ [][Next]_vars
-----------------------------------------------------------------------------
(* break and continue stand inside a loop of the same function, as in      *)
(* every example of the syntax guide.                                      *)
RECURSIVE WellPlaced(_, _)
WellPlaced(n, inLoop) ==
  /\ n.t \in {"BREAK", "CONTINUE"} => inLoop
  /\ \A i \in DOMAIN n.c :
       WellPlaced(n.c[i], IF n.t = "DEF" THEN FALSE
                          ELSE inLoop \/ (n.t \in {"WHILE", "FOR"} /\ i = 2))

Ended == phase = "idle" /\ outcome \in {"ok", "runtime error"}

RECURSIVE Fits(_)
Fits(n) == Len(n.c) <= MaxChildren /\ \A i \in DOMAIN n.c : Fits(n.c[i])

(* "Operator precedence (high to low)" and the forms of statements of the  *)
(* syntax guide: a program laid out by them is parsed to the very tree it  *)
(* was written from, whatever the width of the indentation and wherever    *)
(* comments and blank lines stand; it is refused only for its size.        *)
ParserAgrees ==
  program # NoTree =>
    /\ phase = "interpret" => ast = program
    /\ outcome = "lex error" => Len(tokens) > MaxTokens
    /\ outcome = "parse error" => Nodes(program) > MaxNodes \/ ~Fits(program)

(* "Indentation defines blocks" (syntax guide): however a file is          *)
(* indented, what the parser accepts has every statement of it once and in *)
(* the order of the lines, and in the block of the last line before it     *)
(* with less indentation.  The latter needs every line that closes a block *)
(* to return to the indentation of an earlier one: gk_lex pops levels      *)
(* without looking whether the line's own level is among them.             *)
RECURSIVE Heads(_, _)
Heads(n, depth) ==
  CASE n.t = "BLOCK" -> FlattenSeq([i \in DOMAIN n.c |-> Heads(n.c[i], depth)])
    [] n.t = "WHILE" -> <<[head |-> n.c[1], depth |-> depth]>> \o Heads(n.c[2], depth + 1)
    [] OTHER -> <<[head |-> n, depth |-> depth]>>

Encloses(lines, j, i) == \A k \in j + 1 .. i : Indent(lines[k]) > Indent(lines[j])

Aligned(lines) ==
  \A i \in 2 .. Len(lines) :
    \/ Indent(lines[i]) > Indent(lines[i - 1])
    \/ \E j \in 1 .. i - 1 :
         /\ Indent(lines[j]) = Indent(lines[i])
         /\ \A k \in j + 1 .. i - 1 : Indent(lines[k]) >= Indent(lines[i])

BlocksFollowIndentation ==
  phase = "interpret" /\ program = NoTree =>
    LET lines == SelectSeq(src, LAMBDA l : Code(l) # <<>>)
        heads == Heads(ast, 0)
        name(i) == SelectSeq(Code(lines[i]), LAMBDA w :
                               w.k = "word" /\ w.word \notin Keywords)[1].word
    IN  /\ Len(heads) = Len(lines)
        /\ \A i \in DOMAIN lines : heads[i].head = Var(name(i))
        /\ Aligned(lines) =>
             \A i \in DOMAIN lines :
               heads[i].depth = Cardinality({j \in 1 .. i - 1 : Encloses(lines, j, i)})

(* A program prints what its structure says and fails exactly when it      *)
(* should, whichever program ran before it in the same state: no flag, no  *)
(* variable of a finished call and no depth leaks (eval's flags returning, *)
(* breaking, continuing; pop_scope; gk_init).  Not so for a program that   *)
(* calls a function which ends without return but with a value, or that    *)
(* reads a variable of a caller: of these the syntax guide says otherwise. *)
EvalAgrees ==
  Ended /\ program # NoTree /\ WellPlaced(program, FALSE) =>
    LET m == Mean(Start(typed), program)
    IN  ~m.e.departed =>
          /\ (outcome = "runtime error") = (m.k = "error")
          /\ state.out = m.e.out
          /\ state.typed = m.e.typed

(* When a program has ended, with or without an error and wherever its     *)
(* break and continue stand, the call depth is zero again; without an      *)
(* error only global variables are left, and a well-placed program leaves  *)
(* no loop flag set.                                                       *)
StackUnwound ==
  Ended =>
    /\ state.depth = 0
    /\ outcome = "ok" => \A i \in DOMAIN state.vars : state.vars[i].scope = 0
    /\ outcome = "ok" /\ WellPlaced(program, FALSE)
         => ~state.breaking /\ ~state.continuing
=============================================================================

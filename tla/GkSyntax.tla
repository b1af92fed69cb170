------------------------------ MODULE GkSyntax ------------------------------
(***************************************************************************)
(* The lexer and the parser of the GK language (kernel/gk/gk_lexer.c and   *)
(* kernel/gk/gk_parser.c) as operators.                                    *)
(*                                                                         *)
(* Data is abstracted to lexemes: a source line is its leading blanks and  *)
(* a sequence of words, numbers, strings, symbols and comments, so the     *)
(* scanning of single characters is left out.  What is kept of the lexer   *)
(* is what its callers depend on: which lines count, the indentation       *)
(* stack, the keyword table and the token limit.  A syntax node holds its  *)
(* children in c instead of indices into the node array.                   *)
(*                                                                         *)
(* A definition Fault... is the faulty variant of the one that follows it; *)
(* no specification uses it.                                               *)
(***************************************************************************)
EXTENDS Integers, Sequences, SequencesExt

CONSTANTS
  MaxTokens,    \* GK_MAX_TOKENS, 2048
  MaxNodes,     \* GK_MAX_NODES, 2048
  MaxChildren   \* GK_MAX_CHILDREN, 64

ASSUME GkSyntaxAssumption ==
  MaxTokens \in Nat /\ MaxNodes \in Nat \ {0} /\ MaxChildren \in Nat

-----------------------------------------------------------------------------
(* Lexemes, and source lines.                                              *)
Word(w) == [k |-> "word", word |-> w]
Number(i) == [k |-> "number", int |-> i]
Quoted(s) == [k |-> "quoted", str |-> s]
Symbol(y) == [k |-> "symbol", symbol |-> y]
Comment == [k |-> "comment"]

Line(spaces, tabs, text) == [spaces |-> spaces, tabs |-> tabs, text |-> text]

Keywords ==
  {"if", "elif", "else", "while", "for", "in", "def", "return", "break",
   "continue", "and", "or", "not", "True", "False"}
Symbols ==
  {"==", "!=", "<=", ">=", "+", "-", "*", "/", "%", "<", ">", "=", "(", ")",
   ",", ":"}

-----------------------------------------------------------------------------
(* gk_lex.                                                                 *)
Tok(type) == [type |-> type]

Known(x) == x.k = "symbol" => x.symbol \in Symbols

Token(x) ==
  CASE x.k = "word" /\ x.word \in Keywords -> Tok(x.word)
    [] x.k = "word" /\ x.word \notin Keywords ->
         [type |-> "IDENT", name |-> x.word]
    [] x.k = "number" -> [type |-> "INT", int |-> x.int]
    [] x.k = "quoted" -> [type |-> "STR", str |-> x.str]
    [] x.k = "symbol" -> Tok(x.symbol)

\* What is left of a line once its comment is dropped.
Code(line) ==
  LET comments == {i \in DOMAIN line.text : line.text[i] = Comment}
  IN  IF comments = {} THEN line.text
      ELSE SubSeq(line.text, 1, (CHOOSE i \in comments :
                                   \A j \in comments : i <= j) - 1)

Indent(line) == line.spaces + 4 * line.tabs

(***************************************************************************)
(* One line: a deeper one opens a level, another one closes every level    *)
(* that lies deeper; whether the level it returns to is its own is not     *)
(* looked at.  Blank and comment lines change nothing.                     *)
(***************************************************************************)
FaultClosesOneLevel(levels, indent) ==
  IF Last(levels) > indent THEN Front(levels) ELSE levels

Kept(levels, indent) == SelectSeq(levels, LAMBDA x : x <= indent)

Dedents(n) == [i \in 1 .. n |-> Tok("DEDENT")]

LexLine(acc, line) ==
  LET open  == Kept(acc.levels, Indent(line))
      deeper == Indent(line) > Last(acc.levels)
  IN  IF Code(line) = <<>> THEN acc
      ELSE [levels |-> IF deeper THEN Append(acc.levels, Indent(line)) ELSE open,
            toks |-> acc.toks
                     \o (IF deeper THEN <<Tok("INDENT")>>
                         ELSE Dedents(Len(acc.levels) - Len(open)))
                     \o [i \in DOMAIN Code(line) |-> Token(Code(line)[i])]
                     \o <<Tok("NEWLINE")>>]

\* The source is rejected for an unknown character or for too many tokens.
Lex(src) ==
  IF \E i \in DOMAIN src :
       \E j \in DOMAIN Code(src[i]) : ~Known(Code(src[i])[j])
    THEN [ok |-> FALSE, toks |-> <<>>]
    ELSE LET end  == FoldLeft(LexLine, [levels |-> <<0>>, toks |-> <<>>], src)
             toks == end.toks \o Dedents(Len(end.levels) - 1) \o <<Tok("EOF")>>
         IN  [ok |-> Len(toks) <= MaxTokens, toks |-> toks]

-----------------------------------------------------------------------------
(* Syntax nodes.                                                           *)
IntLit(i) == [t |-> "INT", int |-> i, c |-> <<>>]
StrLit(s) == [t |-> "STR", str |-> s, c |-> <<>>]
BoolLit(b) == [t |-> "BOOL", bool |-> b, c |-> <<>>]
Var(x) == [t |-> "VAR", name |-> x, c |-> <<>>]
Assign(x, e) == [t |-> "ASSIGN", name |-> x, c |-> <<e>>]
Binop(op, l, r) == [t |-> "BINOP", op |-> op, c |-> <<l, r>>]
Unop(op, e) == [t |-> "UNOP", op |-> op, c |-> <<e>>]
Apply(t, f, args) == [t |-> t, name |-> f, c |-> args]
Block(body) == [t |-> "BLOCK", c |-> body]
If(c) == [t |-> "IF", c |-> c]
While(e, b) == [t |-> "WHILE", c |-> <<e, b>>]
For(x, e, b) == [t |-> "FOR", name |-> x, c |-> <<e, b>>]
Def(f, params, b) == [t |-> "DEF", name |-> f, c |-> Append(params, b)]
Return(c) == [t |-> "RETURN", c |-> c]
Break == [t |-> "BREAK", c |-> <<>>]
Continue == [t |-> "CONTINUE", c |-> <<>>]

\* print, range, input and int are calls with a node type of their own.
CallType(f) ==
  CASE f = "print" -> "PRINT" [] f = "range" -> "RANGE"
    [] f = "input" -> "INPUT" [] f = "int" -> "INT_CAST" [] OTHER -> "CALL"

RECURSIVE Nodes(_)
Nodes(n) == FoldLeft(LAMBDA sum, ch : sum + Nodes(ch), 1, n.c)

-----------------------------------------------------------------------------
(***************************************************************************)
(* The parser's functions take the tokens that are left and return a node  *)
(* and what is then left.  The last token, EOF, is never consumed.         *)
(***************************************************************************)
Fail == [ok |-> FALSE]
Parsed(n, rest) == [ok |-> TRUE, node |-> n, rest |-> rest]

Is(ts, type) == ts[1].type = type
OneOf(ts, types) == ts[1].type \in types
Match(ts, type) == IF Is(ts, type) THEN Tail(ts) ELSE ts
SkipNewlines(ts) ==
  SubSeq(ts, CHOOSE i \in DOMAIN ts :
               /\ ts[i].type # "NEWLINE"
               /\ \A j \in 1 .. i - 1 : ts[j].type = "NEWLINE", Len(ts))

\* Go on from r if it succeeded, and expect a token before going on.
Then(r, F(_)) == IF r.ok THEN F(r) ELSE Fail
Expect(ts, type, F(_)) == IF Is(ts, type) THEN F(Tail(ts)) ELSE Fail

\* Binary operators, loosest first; each level associates to the left.
Levels ==
  <<{"or"}, {"and"}, {"==", "!=", "<", "<=", ">", ">="}, {"+", "-"},
    {"*", "/", "%"}>>

RECURSIVE Unary(_), Binary(_, _), BinaryRest(_, _), Items(_, _)

Expr(ts) == Binary(1, ts)

\* The arguments of a call, up to the first one no comma follows.
Items(ts, args) ==
  IF OneOf(ts, {")", "EOF"}) THEN [ok |-> TRUE, args |-> args, rest |-> ts]
  ELSE Then(Expr(ts), LAMBDA a :
         IF Len(args) >= MaxChildren THEN Fail
         ELSE IF Is(a.rest, ",") THEN Items(Tail(a.rest), Append(args, a.node))
         ELSE [ok |-> TRUE, args |-> Append(args, a.node), rest |-> a.rest])

Call(f, ts) ==
  Then(Items(ts, <<>>), LAMBDA r :
    Expect(r.rest, ")", LAMBDA rest : Parsed(Apply(CallType(f), f, r.args), rest)))

Primary(ts) ==
  LET t == ts[1]  rest == Tail(ts)
  IN  CASE t.type = "INT" -> Parsed(IntLit(t.int), rest)
        [] t.type = "STR" -> Parsed(StrLit(t.str), rest)
        [] t.type \in {"True", "False"} -> Parsed(BoolLit(t.type = "True"), rest)
        [] t.type = "IDENT" -> IF Is(rest, "(") THEN Call(t.name, Tail(rest))
                               ELSE Parsed(Var(t.name), rest)
        [] t.type = "(" -> Then(Expr(rest), LAMBDA e :
                             Expect(e.rest, ")", LAMBDA r : Parsed(e.node, r)))
        [] OTHER -> Fail

Unary(ts) ==
  IF OneOf(ts, {"-", "not"})
    THEN Then(Unary(Tail(ts)), LAMBDA e : Parsed(Unop(ts[1].type, e.node), e.rest))
    ELSE Primary(ts)

FaultAssociatesRight(level, l) ==
  IF ~OneOf(l.rest, Levels[level]) THEN l
  ELSE Then(Binary(level, Tail(l.rest)), LAMBDA r :
         Parsed(Binop(l.rest[1].type, l.node, r.node), r.rest))

BinaryRest(level, l) ==
  IF ~OneOf(l.rest, Levels[level]) THEN l
  ELSE Then(Binary(level + 1, Tail(l.rest)), LAMBDA r :
         BinaryRest(level, Parsed(Binop(l.rest[1].type, l.node, r.node), r.rest)))

Binary(level, ts) ==
  IF level > Len(Levels) THEN Unary(ts)
  ELSE Then(Binary(level + 1, ts), LAMBDA l : BinaryRest(level, l))

-----------------------------------------------------------------------------
RECURSIVE Stmt(_), Stmts(_, _, _), Params(_, _)

\* Statements up to one of the tokens in ends, blank lines skipped.
Stmts(ts, body, ends) ==
  LET here == SkipNewlines(ts)
  IN  IF OneOf(here, ends) THEN Parsed(Block(body), here)
      ELSE Then(Stmt(here), LAMBDA st :
             IF Len(body) >= MaxChildren THEN Fail
             ELSE Stmts(st.rest, Append(body, st.node), ends))

BlockOf(ts) ==
  Expect(ts, "INDENT", LAMBDA inner :
    Then(Stmts(inner, <<>>, {"DEDENT", "EOF"}), LAMBDA b :
      Parsed(b.node, Match(b.rest, "DEDENT"))))

\* ':' , the end of the line, and the block.
Suite(ts) == Expect(ts, ":", LAMBDA rest : BlockOf(Match(rest, "NEWLINE")))

\* A condition or iterable, and its suite.
Headed(ts, Make(_, _)) ==
  Then(Expr(ts), LAMBDA e :
    Then(Suite(e.rest), LAMBDA b : Parsed(Make(e.node, b.node), b.rest)))

ReturnStmt(ts) ==
  IF OneOf(ts, {"NEWLINE", "EOF"}) THEN Parsed(Return(<<>>), Match(ts, "NEWLINE"))
  ELSE Then(Expr(ts), LAMBDA e :
         Parsed(Return(<<e.node>>), Match(e.rest, "NEWLINE")))

Params(ts, ps) ==
  IF OneOf(ts, {")", "EOF"}) THEN [ok |-> TRUE, ps |-> ps, rest |-> ts]
  ELSE Expect(ts, "IDENT", LAMBDA rest :
         LET p == Append(ps, Var(ts[1].name))
         IN  IF Is(rest, ",") THEN Params(Tail(rest), p)
             ELSE [ok |-> TRUE, ps |-> p, rest |-> rest])

DefStmt(ts) ==
  Expect(ts, "IDENT", LAMBDA named :
    Expect(named, "(", LAMBDA open :
      Then(Params(open, <<>>), LAMBDA r :
        Expect(r.rest, ")", LAMBDA rest :
          Then(Suite(rest), LAMBDA b :
            Parsed(Def(ts[1].name, r.ps, b.node), b.rest))))))

\* An elif is an if statement in the place of the else block.
IfStmt(ts) ==
  Then(Headed(ts, LAMBDA e, b : If(<<e, b>>)), LAMBDA i :
    LET after == SkipNewlines(i.rest)
    IN  IF Is(after, "elif")
          THEN Then(Stmt(after), LAMBDA e :
                 Parsed(If(Append(i.node.c, e.node)), e.rest))
        ELSE IF Is(after, "else")
          THEN Then(Suite(Tail(after)), LAMBDA e :
                 Parsed(If(Append(i.node.c, e.node)), e.rest))
        ELSE Parsed(i.node, after))

ForStmt(ts) ==
  Expect(ts, "IDENT", LAMBDA rest :
    Expect(rest, "in", LAMBDA iter :
      Headed(iter, LAMBDA e, b : For(ts[1].name, e, b))))

AssignStmt(ts) ==
  Then(Expr(SubSeq(ts, 3, Len(ts))), LAMBDA e :
    Parsed(Assign(ts[1].name, e.node), Match(e.rest, "NEWLINE")))

Stmt(ts) ==
  LET rest == Tail(ts)
  IN  CASE Is(ts, "return") -> ReturnStmt(rest)
        [] Is(ts, "break") -> Parsed(Break, Match(rest, "NEWLINE"))
        [] Is(ts, "continue") -> Parsed(Continue, Match(rest, "NEWLINE"))
        [] Is(ts, "def") -> DefStmt(rest)
        [] OneOf(ts, {"if", "elif"}) -> IfStmt(rest)
        [] Is(ts, "while") -> Headed(rest, While)
        [] Is(ts, "for") -> ForStmt(rest)
        [] Is(ts, "IDENT") /\ Is(rest, "=") -> AssignStmt(ts)
        [] OTHER -> Then(Expr(ts), LAMBDA e :
                      Parsed(e.node, Match(e.rest, "NEWLINE")))

(***************************************************************************)
(* gk_parse.  Nodes are only ever added, so running out of them anywhere   *)
(* is the same as having parsed more than there are.                       *)
(***************************************************************************)
Parse(toks) ==
  Then(Stmts(toks, <<>>, {"EOF"}), LAMBDA r :
    IF Nodes(r.node) > MaxNodes THEN Fail ELSE r)
=============================================================================

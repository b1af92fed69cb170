------------------------------ MODULE GkInterp ------------------------------
(***************************************************************************)
(* The evaluator of the GK language (kernel/gk/gk_interp.c).               *)
(*                                                                         *)
(* Eval(s, n) is eval(s, node): it takes the interpreter's state s (the    *)
(* variable part of GkState, the text printed and the lines still to be    *)
(* typed) and returns the value and the new state.  break, continue and    *)
(* return are flags in the state, which every construct on the way out has *)
(* to test, and which a call must not leave set; all variables of all      *)
(* calls live in one array and carry the call depth they belong to.        *)
(*                                                                         *)
(* A string is a sequence of characters; the words a conversion puts into  *)
(* it ("True", "None") count as one.  Integers are the mathematical ones:  *)
(* overflow of int is undefined in C and the programs stay away from it.   *)
(*                                                                         *)
(* A definition Fault... is the faulty variant of the one that follows it; *)
(* no specification uses it.                                               *)
(***************************************************************************)
EXTENDS Integers, Sequences, SequencesExt, TLC

CONSTANTS
  MaxVars,       \* GK_MAX_VARS, 128
  MaxFuncs,      \* GK_MAX_FUNCS, 64
  MaxParams,     \* GK_MAX_PARAMS, 8
  MaxCallDepth,  \* GK_MAX_CALL_DEPTH, 32
  MaxStr         \* GK_MAX_STR, 256

ASSUME GkInterpAssumption ==
  /\ MaxVars \in Nat /\ MaxFuncs \in Nat /\ MaxParams \in Nat
  /\ MaxCallDepth \in Nat /\ MaxStr \in Nat \ {0}

-----------------------------------------------------------------------------
(* Values.                                                                 *)
IntVal(i) == [type |-> "int", int |-> i]
BoolVal(b) == [type |-> "bool", bool |-> b]
StrVal(x) == [type |-> "str", str |-> x]
None == [type |-> "none"]

Truthy(v) ==
  CASE v.type = "bool" -> v.bool
    [] v.type = "int" -> v.int # 0
    [] v.type = "str" -> v.str # <<>>
    [] OTHER -> FALSE

Digit == [d \in 0 .. 9 |-> ToString(d)]

RECURSIVE Decimal(_)
Decimal(i) == IF i < 10 THEN <<Digit[i]>>
              ELSE Append(Decimal(i \div 10), Digit[i % 10])

IntToStr(i) == IF i < 0 THEN <<"-">> \o Decimal(-i) ELSE Decimal(i)

ValToStr(v) ==
  CASE v.type = "int" -> IntToStr(v.int)
    [] v.type = "bool" -> IF v.bool THEN <<"True">> ELSE <<"False">>
    [] v.type = "str" -> v.str
    [] OTHER -> <<"None">>

\* strcat_s: what does not fit is cut off.
Concat(x, y) == LET z == x \o y
                IN  SubSeq(z, 1, IF Len(z) < MaxStr THEN Len(z) ELSE MaxStr - 1)

\* The literals int() accepts, and their value.
IsLiteral(x) ==
  LET ds == IF x # <<>> /\ x[1] = "-" THEN Tail(x) ELSE x
  IN  ds # <<>> /\ \A i \in DOMAIN ds : \E d \in 0 .. 9 : ds[i] = Digit[d]
ParseInt(x) ==
  LET neg == x[1] = "-"
      ds  == IF neg THEN Tail(x) ELSE x
      val == FoldLeft(LAMBDA n, ch : 10 * n + (CHOOSE d \in 0 .. 9 : Digit[d] = ch),
                      0, ds)
  IN  IF neg THEN -val ELSE val

\* C's division truncates towards zero.
Quot(a, b) ==
  LET abs(i) == IF i < 0 THEN -i ELSE i
      q == abs(a) \div abs(b)
  IN  IF (a < 0) = (b < 0) THEN q ELSE -q
Rem(a, b) == a - b * Quot(a, b)

-----------------------------------------------------------------------------
(* The state: gk_init clears everything but what is outside the program.   *)
FaultKeepsFuncs(s, typed) ==
  [vars |-> <<>>, funcs |-> s.funcs, depth |-> 0,
   returning |-> FALSE, breaking |-> FALSE, continuing |-> FALSE,
   ret |-> None, error |-> FALSE, out |-> <<>>, typed |-> typed]

GkInit(s, typed) ==
  [vars |-> <<>>, funcs |-> <<>>, depth |-> 0,
   returning |-> FALSE, breaking |-> FALSE, continuing |-> FALSE,
   ret |-> None, error |-> FALSE, out |-> <<>>, typed |-> typed]

Result(v, s) == [v |-> v, s |-> s]
Error(s) == Result(None, [s EXCEPT !.error = TRUE])
Printed(s, x) == [s EXCEPT !.out = Append(@, x)]

\* The last variable of a name; only those of the current call are assigned.
Find(s, x) == SelectLastInSeq(s.vars, LAMBDA v : v.name = x)
Mine(s, x) == SelectLastInSeq(s.vars, LAMBDA v : v.name = x /\ v.scope >= s.depth)

SetVar(s, x, val) ==
  IF Mine(s, x) # 0
    THEN Result(val, [s EXCEPT !.vars[Mine(s, x)].val = val])
  ELSE IF Len(s.vars) >= MaxVars THEN Error(s)
  ELSE Result(val, [s EXCEPT !.vars =
         Append(@, [name |-> x, val |-> val, scope |-> s.depth])])

FaultKeepsLocals(s) == s

\* The variables of the call go; they are the last ones.
PopScope(s) == [s EXCEPT !.vars = SelectSeq(@, LAMBDA v : v.scope < s.depth)]

FindFunc(s, f) == SelectInSeq(s.funcs, LAMBDA d : d.name = f)

-----------------------------------------------------------------------------
RECURSIVE Eval(_, _), EvalBlock(_, _, _), EvalWhile(_, _, _),
          EvalFor(_, _, _, _, _), EvalPrint(_, _), EvalArgs(_, _, _)

\* Go on with the value unless there was an error.
Bind(r, F(_, _)) == IF r.s.error THEN Result(None, r.s) ELSE F(r.v, r.s)

UnaryOp(s, op, v) ==
  CASE op = "not" -> Result(BoolVal(~Truthy(v)), s)
    [] op = "-" /\ v.type = "int" -> Result(IntVal(-v.int), s)
    [] OTHER -> Error(s)

Equal(l, r) == l.type = r.type /\ l.type # "none" /\ l = r

IntOp(s, op, a, b) ==
  CASE op = "+" -> Result(IntVal(a + b), s)
    [] op = "-" -> Result(IntVal(a - b), s)
    [] op = "*" -> Result(IntVal(a * b), s)
    [] op = "/" -> IF b = 0 THEN Error(s) ELSE Result(IntVal(Quot(a, b)), s)
    [] op = "%" -> IF b = 0 THEN Error(s) ELSE Result(IntVal(Rem(a, b)), s)
    [] op = "<" -> Result(BoolVal(a < b), s)
    [] op = "<=" -> Result(BoolVal(a <= b), s)
    [] op = ">" -> Result(BoolVal(a > b), s)
    [] op = ">=" -> Result(BoolVal(a >= b), s)

BinaryOp(s, op, l, r) ==
  CASE op = "+" /\ l.type = "str" -> Result(StrVal(Concat(l.str, ValToStr(r))), s)
    [] op = "==" -> Result(BoolVal(Equal(l, r)), s)
    [] op = "!=" -> Result(BoolVal(~Equal(l, r)), s)
    [] OTHER -> IF l.type = "int" /\ r.type = "int"
                  THEN IntOp(s, op, l.int, r.int) ELSE Error(s)

\* and, or: an error in the left operand counts as false here and is kept.
Logical(s, n) ==
  LET l == Eval(s, n.c[1])
      r == Eval(l.s, n.c[2])
  IN  IF Truthy(l.v) = (n.op = "or")
        THEN Result(BoolVal(n.op = "or"), l.s)
        ELSE Result(BoolVal(Truthy(r.v)), r.s)

\* The words of a print statement are its arguments and the line's end.
EvalPrint(s, args) ==
  IF args = <<>> THEN Result(None, Printed(s, <<"\n">>))
  ELSE Bind(Eval(s, args[1]), LAMBDA v, s1 :
         EvalPrint(Printed(s1, ValToStr(v)), Tail(args)))

ReadLine(s) ==
  LET line == IF s.typed = <<>> THEN <<>> ELSE s.typed[1]
  IN  Result(StrVal(line),
             [Printed(s, <<"\n">>) EXCEPT
                !.typed = IF @ = <<>> THEN @ ELSE Tail(@)])

EvalInput(s, n) ==
  IF n.c = <<>> THEN ReadLine(s)
  ELSE Bind(Eval(s, n.c[1]), LAMBDA v, s1 : ReadLine(Printed(s1, ValToStr(v))))

IntCast(s, v) ==
  CASE v.type = "int" -> Result(v, s)
    [] v.type = "str" /\ IsLiteral(v.str) -> Result(IntVal(ParseInt(v.str)), s)
    [] OTHER -> Error(s)

Leaving(s) == s.error \/ s.returning \/ s.breaking \/ s.continuing

EvalBlock(s, body, last) ==
  IF body = <<>> THEN Result(last, s)
  ELSE LET r == Eval(s, body[1])
       IN  IF Leaving(r.s) THEN r ELSE EvalBlock(r.s, Tail(body), r.v)

EvalIf(s, n) ==
  Bind(Eval(s, n.c[1]), LAMBDA v, s1 :
    IF Truthy(v) THEN Eval(s1, n.c[2])
    ELSE IF Len(n.c) = 3 THEN Eval(s1, n.c[3]) ELSE Result(None, s1))

\* After the body of a loop: the flags that end it and the one that does not.
LeavesLoop(s) == s.error \/ s.returning \/ s.breaking
EndIteration(s) ==
  CASE s.error \/ s.returning -> s
    [] ~(s.error \/ s.returning) /\ s.breaking -> [s EXCEPT !.breaking = FALSE]
    [] OTHER -> [s EXCEPT !.continuing = FALSE]

EvalWhile(s, n, last) ==
  LET cond == Eval(s, n.c[1])
      body == Eval(cond.s, n.c[2])
  IN  IF cond.s.error \/ ~Truthy(cond.v) THEN Result(last, cond.s)
      ELSE IF LeavesLoop(body.s) THEN Result(body.v, EndIteration(body.s))
      ELSE EvalWhile(EndIteration(body.s), n, body.v)

\* range(n) as an iterable is n; without an argument it is an error.
Iterable(n) == IF n.t = "RANGE" THEN n.c[1] ELSE n

EvalFor(s, n, i, limit, last) ==
  IF i >= limit THEN Result(last, s)
  ELSE Bind(SetVar(s, n.name, IntVal(i)), LAMBDA v, s1 :
         LET body == Eval(s1, n.c[2])
         IN  IF LeavesLoop(body.s) THEN Result(body.v, EndIteration(body.s))
             ELSE EvalFor(EndIteration(body.s), n, i + 1, limit, body.v))

EvalForStmt(s, n) ==
  IF n.c[1].t = "RANGE" /\ n.c[1].c = <<>> THEN Error(s)
  ELSE Bind(Eval(s, Iterable(n.c[1])), LAMBDA v, s1 :
         IF v.type # "int" THEN Error(s1) ELSE EvalFor(s1, n, 0, v.int, None))

\* Parameters beyond MaxParams are dropped.
EvalDef(s, n) ==
  LET count == IF Len(n.c) - 1 < MaxParams THEN Len(n.c) - 1 ELSE MaxParams
  IN  IF Len(s.funcs) >= MaxFuncs THEN Error(s)
      ELSE Result(None, [s EXCEPT !.funcs = Append(@,
             [name |-> n.name, body |-> Last(n.c),
              params |-> [i \in 1 .. count |-> n.c[i].name]])])

EvalArgs(s, args, vals) ==
  IF args = <<>> THEN Result(vals, s)
  ELSE Bind(Eval(s, args[1]), LAMBDA v, s1 :
         EvalArgs(s1, Tail(args), Append(vals, v)))

BindParams(s, f, vals) ==
  FoldLeft(LAMBDA r, i : Bind(r, LAMBDA v, s1 : SetVar(s1, f.params[i], vals[i])),
           Result(None, s), [i \in DOMAIN vals |-> i])

\* A return gives the call its value; else it is that of the last statement.
Returned(r) ==
  IF r.s.returning THEN Result(r.s.ret, [r.s EXCEPT !.returning = FALSE]) ELSE r

\* The body runs one level deeper.  break and continue are not looked at.
RunBody(s, f, vals) ==
  LET bound == BindParams([s EXCEPT !.depth = @ + 1], f, vals)
      r     == Returned(Eval(bound.s, f.body))
  IN  IF bound.s.error THEN Result(None, [bound.s EXCEPT !.depth = @ - 1])
      ELSE Result(r.v, [PopScope(r.s) EXCEPT !.depth = @ - 1])

EvalCall(s, n) ==
  LET i == FindFunc(s, n.name)
  IN  IF \/ i = 0
         \/ Len(n.c) # Len(s.funcs[i].params)
         \/ s.depth >= MaxCallDepth
        THEN Error(s)
        ELSE Bind(EvalArgs(s, n.c, <<>>), LAMBDA vals, s1 :
               RunBody(s1, s.funcs[i], vals))

EvalReturn(s, n) ==
  IF n.c = <<>> THEN Result(None, [s EXCEPT !.returning = TRUE, !.ret = None])
  ELSE Bind(Eval(s, n.c[1]), LAMBDA v, s1 :
         Result(v, [s1 EXCEPT !.returning = TRUE, !.ret = v]))

Eval(s, n) ==
  IF s.error THEN Result(None, s)
  ELSE CASE n.t = "INT" -> Result(IntVal(n.int), s)
    [] n.t = "STR" -> Result(StrVal(n.str), s)
    [] n.t = "BOOL" -> Result(BoolVal(n.bool), s)
    [] n.t = "VAR" -> IF Find(s, n.name) = 0 THEN Error(s)
                      ELSE Result(s.vars[Find(s, n.name)].val, s)
    [] n.t = "ASSIGN" -> Bind(Eval(s, n.c[1]), LAMBDA v, s1 : SetVar(s1, n.name, v))
    [] n.t = "UNOP" -> Bind(Eval(s, n.c[1]), LAMBDA v, s1 : UnaryOp(s1, n.op, v))
    [] n.t = "BINOP" /\ n.op \in {"and", "or"} -> Logical(s, n)
    [] n.t = "BINOP" /\ n.op \notin {"and", "or"} ->
         Bind(Eval(s, n.c[1]), LAMBDA l, s1 :
           Bind(Eval(s1, n.c[2]), LAMBDA r, s2 : BinaryOp(s2, n.op, l, r)))
    [] n.t = "PRINT" -> EvalPrint(s, n.c)
    [] n.t = "INPUT" -> EvalInput(s, n)
    [] n.t = "INT_CAST" ->
         IF Len(n.c) # 1 THEN Error(s)
         ELSE Bind(Eval(s, n.c[1]), LAMBDA v, s1 : IntCast(s1, v))
    [] n.t = "BLOCK" -> EvalBlock(s, n.c, None)
    [] n.t = "IF" -> EvalIf(s, n)
    [] n.t = "WHILE" -> EvalWhile(s, n, None)
    [] n.t = "FOR" -> EvalForStmt(s, n)
    [] n.t = "DEF" -> EvalDef(s, n)
    [] n.t = "CALL" -> EvalCall(s, n)
    [] n.t = "RETURN" -> EvalReturn(s, n)
    [] n.t = "BREAK" -> Result(None, [s EXCEPT !.breaking = TRUE])
    [] n.t = "CONTINUE" -> Result(None, [s EXCEPT !.continuing = TRUE])
    [] OTHER -> Error(s)
=============================================================================

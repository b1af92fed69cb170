----------------------------- MODULE GkMeaning -----------------------------
(***************************************************************************)
(* What a GK program means, by the structure of its syntax tree: the       *)
(* reference that the evaluator of GkInterp is compared with.  There are   *)
(* no flags and no shared array of variables.  A statement completes with  *)
(* a kind ("normal", "break", "continue", "return", "error"), a loop or a  *)
(* call looks at the kind of its own body only, every call has a frame of  *)
(* its own, and assignment changes the innermost frame.  What a call means *)
(* is src/custom_language/syntax_guide.md's word: a function that ends     *)
(* without a return yields None ("Return values"), and a variable created  *)
(* inside a function is local to that function ("Scope"): a name is looked *)
(* up in the innermost frame, then among the global variables.             *)
(*                                                                         *)
(* gk_interp.c does neither: a call yields its last statement's value, and *)
(* find_var goes through the frames of all callers.  departed is set where *)
(* that makes a difference.                                                *)
(*                                                                         *)
(* Operators on values are those of GkInterp.                              *)
(***************************************************************************)
EXTENDS GkInterp, FiniteSetsExt

Start(typed) ==
  [frames |-> <<[x \in {} |-> None]>>, defs |-> <<>>,
   error |-> FALSE, out |-> <<>>, typed |-> typed, departed |-> FALSE]

Complete(k, v, e) == [k |-> k, v |-> v, e |-> e]
Normal(v, e) == Complete("normal", v, e)
Wrong(e) == Complete("error", None, e)

\* The completion of an operator on values.
Of(r) == IF r.s.error THEN Wrong(r.s) ELSE Normal(r.v, r.s)

After(c, F(_, _)) == IF c.k = "normal" THEN F(c.v, c.e) ELSE c

Holding(e, x) == {i \in DOMAIN e.frames : x \in DOMAIN e.frames[i]}
Departs(e, differs) == [e EXCEPT !.departed = @ \/ differs]

Lookup(e, x) ==
  LET inner == Len(e.frames)
      seen  == Holding(e, x) \cap {1, inner}
      e1    == Departs(e, inner \notin seen /\ Holding(e, x) \cap 2 .. inner # {})
  IN  IF seen = {} THEN Wrong(e1) ELSE Normal(e1.frames[Max(seen)][x], e1)

Size(e) == FoldLeft(LAMBDA n, f : n + Cardinality(DOMAIN f), 0, e.frames)
Store(e, x, v) ==
  IF x \notin DOMAIN Last(e.frames) /\ Size(e) >= MaxVars THEN Wrong(e)
  ELSE Normal(v, [e EXCEPT !.frames[Len(e.frames)] = (x :> v) @@ @])

RECURSIVE Mean(_, _), MeanAll(_, _, _), MeanBlock(_, _, _),
          MeanWhile(_, _, _), MeanFor(_, _, _, _, _)

\* The values of a list of expressions.
MeanAll(e, ns, vals) ==
  IF ns = <<>> THEN Normal(vals, e)
  ELSE After(Mean(e, ns[1]), LAMBDA v, e1 : MeanAll(e1, Tail(ns), Append(vals, v)))

MeanBlock(e, body, last) ==
  IF body = <<>> THEN Normal(last, e)
  ELSE After(Mean(e, body[1]), LAMBDA v, e1 : MeanBlock(e1, Tail(body), v))

\* What the completion of a loop's body means for the loop.
Loop(c, Again(_, _)) ==
  CASE c.k \in {"return", "error"} -> c
    [] c.k = "break" -> Normal(c.v, c.e)
    [] OTHER -> Again(c.v, c.e)

MeanWhile(e, n, last) ==
  After(Mean(e, n.c[1]), LAMBDA cond, e1 :
    IF ~Truthy(cond) THEN Normal(last, e1)
    ELSE Loop(Mean(e1, n.c[2]), LAMBDA v, e2 : MeanWhile(e2, n, v)))

MeanFor(e, n, i, limit, last) ==
  IF i >= limit THEN Normal(last, e)
  ELSE After(Store(e, n.name, IntVal(i)), LAMBDA x, e1 :
         Loop(Mean(e1, n.c[2]), LAMBDA v, e2 : MeanFor(e2, n, i + 1, limit, v)))

MeanLogical(e, n) ==
  After(Mean(e, n.c[1]), LAMBDA l, e1 :
    IF Truthy(l) = (n.op = "or") THEN Normal(BoolVal(Truthy(l)), e1)
    ELSE After(Mean(e1, n.c[2]), LAMBDA r, e2 : Normal(BoolVal(Truthy(r)), e2)))

Callee(e, f) == SelectInSeq(e.defs, LAMBDA d : d.name = f)

\* What a call yields whose body has completed: r.v if by a return.
Yielded(r) ==
  IF r.k = "return" THEN Normal(r.v, r.e) ELSE Normal(None, Departs(r.e, r.v # None))

\* A call: its parameters are its frame, and only its value gets out.
MeanCall(e, n) ==
  LET i == Callee(e, n.name)  d == e.defs[i]
  IN  IF i = 0 \/ Len(n.c) # Len(d.params) \/ Len(e.frames) > MaxCallDepth
        THEN Wrong(e)
        ELSE After(MeanAll(e, n.c, <<>>), LAMBDA vals, e1 :
               LET inside == [e1 EXCEPT !.frames = Append(@, [x \in {} |-> None])]
                   bound  == FoldLeft(LAMBDA c, j : After(c, LAMBDA v, e2 :
                                        Store(e2, d.params[j], vals[j])),
                                      Normal(None, inside), [j \in DOMAIN vals |-> j])
                   r      == After(bound, LAMBDA v, e2 : Mean(e2, d.body))
               IN  IF r.k = "error" THEN r
                   ELSE Yielded([r EXCEPT !.e.frames = Front(@)]))

MeanDef(e, n) ==
  LET count == Min({Len(n.c) - 1, MaxParams})
  IN  IF Len(e.defs) >= MaxFuncs THEN Wrong(e)
      ELSE Normal(None, [e EXCEPT !.defs = Append(@,
             [name |-> n.name, body |-> Last(n.c),
              params |-> [i \in 1 .. count |-> n.c[i].name]])])

MeanInput(e, n) ==
  IF n.c = <<>> THEN Of(ReadLine(e))
  ELSE After(Mean(e, n.c[1]), LAMBDA v, e1 : Of(ReadLine(Printed(e1, ValToStr(v)))))

\* Each word is printed as soon as its argument has a value.
MeanPrint(e, args) ==
  LET say(c, arg) == After(c, LAMBDA x, e1 :
        After(Mean(e1, arg), LAMBDA v, e2 : Normal(None, Printed(e2, ValToStr(v)))))
  IN  After(FoldLeft(say, Normal(None, e), args),
            LAMBDA v, e1 : Normal(None, Printed(e1, <<"\n">>)))

Mean(e, n) ==
  CASE n.t = "INT" -> Normal(IntVal(n.int), e)
    [] n.t = "STR" -> Normal(StrVal(n.str), e)
    [] n.t = "BOOL" -> Normal(BoolVal(n.bool), e)
    [] n.t = "VAR" -> Lookup(e, n.name)
    [] n.t = "ASSIGN" -> After(Mean(e, n.c[1]), LAMBDA v, e1 : Store(e1, n.name, v))
    [] n.t = "UNOP" -> After(Mean(e, n.c[1]), LAMBDA v, e1 : Of(UnaryOp(e1, n.op, v)))
    [] n.t = "BINOP" ->
         IF n.op \in {"and", "or"} THEN MeanLogical(e, n)
         ELSE After(MeanAll(e, n.c, <<>>), LAMBDA vs, e1 :
                Of(BinaryOp(e1, n.op, vs[1], vs[2])))
    [] n.t = "PRINT" -> MeanPrint(e, n.c)
    [] n.t = "INPUT" -> MeanInput(e, n)
    [] n.t = "INT_CAST" ->
         IF Len(n.c) # 1 THEN Wrong(e)
         ELSE After(Mean(e, n.c[1]), LAMBDA v, e1 : Of(IntCast(e1, v)))
    [] n.t = "BLOCK" -> MeanBlock(e, n.c, None)
    [] n.t = "IF" -> After(Mean(e, n.c[1]), LAMBDA v, e1 :
                       IF Truthy(v) THEN Mean(e1, n.c[2])
                       ELSE IF Len(n.c) = 3 THEN Mean(e1, n.c[3]) ELSE Normal(None, e1))
    [] n.t = "WHILE" -> MeanWhile(e, n, None)
    [] n.t = "FOR" -> IF n.c[1].t = "RANGE" /\ n.c[1].c = <<>> THEN Wrong(e)
                      ELSE After(Mean(e, Iterable(n.c[1])), LAMBDA v, e1 :
                             IF v.type # "int" THEN Wrong(e1)
                             ELSE MeanFor(e1, n, 0, v.int, None))
    [] n.t = "DEF" -> MeanDef(e, n)
    [] n.t = "CALL" -> MeanCall(e, n)
    [] n.t = "RETURN" -> IF n.c = <<>> THEN Complete("return", None, e)
                         ELSE After(Mean(e, n.c[1]), LAMBDA v, e1 : Complete("return", v, e1))
    [] n.t = "BREAK" -> Complete("break", None, e)
    [] n.t = "CONTINUE" -> Complete("continue", None, e)
    [] OTHER -> Wrong(e)
=============================================================================

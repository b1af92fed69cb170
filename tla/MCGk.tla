-------------------------------- MODULE MCGk --------------------------------
(* Programs of five kinds: every pair of operators nested on either side   *)
(* of a third (precedence and values); a function and a loop whose bodies  *)
(* are any one or two statements of a small set, misplaced break and       *)
(* continue among them; programs that ask for input; functions without     *)
(* return and reads of others' variables, where the evaluator departs from *)
(* the guide; and files of up to four lines indented at random.  The       *)
(* limits are small enough to be hit.                                      *)
EXTENDS Gk

x == Var("x")
two == IntLit(2)
Ops == {"or", "and", "==", "<", "+", "-", "*", "/", "%"}
Operands == {Binop(op, x, two) : op \in Ops}
            \cup {Unop("not", x), Unop("-", x), StrLit(<<"7">>)}
print(e) == Apply("PRINT", "print", <<e>>)
Sums == {Block(<<Assign("x", IntLit(3)), print(Binop(op, a, b))>>) :
           op \in Ops, a \in Operands, b \in Operands}

fx == Apply("CALL", "f", <<x>>)
When(s) == If(<<Binop("==", x, IntLit(1)), Block(<<s>>)>>)
Choice == If(<<Binop("<", x, IntLit(1)), Block(<<print(IntLit(0))>>),
               If(<<Binop("<", x, two), Block(<<Break>>), Block(<<Continue>>)>>)>>)
Simple == {When(Break), When(Continue), print(x), Assign("y", fx), Choice}
Inner == {For("y", Apply("RANGE", "range", <<two>>), Block(<<When(Break), print(Var("y"))>>)),
          For("y", two, Block(<<When(Return(<<Var("y")>>)), Continue>>)),
          Return(<<Binop("-", x, IntLit(1))>>), Return(<<>>), When(fx), When(Break),
          print(Binop("+", StrLit(<<"1">>), Var("y")))}
UpToTwo(S) == {<<s>> : s \in S} \cup (S \X S)
Step == Assign("x", Binop("+", x, IntLit(1)))  \* nothing else assigns x
Calls ==
  {Block(<<Def("f", <<x>>, Block(f)), Assign("x", IntLit(0)),
           While(Binop("<", x, two), Block(<<Step>> \o b)), print(fx)>>) :
     f \in UpToTwo(Inner), b \in UpToTwo(Simple)}

ask == Apply("INPUT", "input", <<StrLit(<<"?">>)>>)
int(e) == Apply("INT_CAST", "int", <<e>>)
Asks ==
  {Block(<<Assign("x", ask), print(int(Binop("+", x, ask))), print(int(Apply("INPUT", "input", <<>>)))>>),
   Block(<<print(Binop("+", int(ask), Binop("/", int(ask), IntLit(-2))))>>),
   Block(<<Def("f", <<>>, Block(<<Return(<<BoolLit(TRUE)>>)>>)),
           print(Binop("+", StrLit(<<"a">>), Apply("CALL", "f", <<>>)))>>),
   Block(<<Def("f", <<x, Var("y")>>, Block(<<Break>>)), print(Apply("CALL", "f", <<x>>))>>)}
  \cup {Block([i \in 1 .. n |-> Def("f", <<>>, Block(<<Break>>))]) : n \in {3, 5}}

\* A function without return, called for its value and for its effect; and
\* one that reads a variable which is global, its caller's, both or neither.
call(f, args) == Apply("CALL", f, args)
Silent == {print(x), Step, If(<<x, Block(<<print(x)>>)>>), For("y", x, Block(<<Step>>))}
Creates == Assign("y", IntLit(7))
Reads == Def("g", <<>>, Block(<<print(Var("y"))>>))
Scopes ==
  {Block(<<Def("f", <<x>>, Block(<<s>>)), use, use>>) :
     s \in Silent, use \in {call("f", <<two>>), print(call("f", <<two>>))}}
  \cup {Block(<<Reads, Def("f", <<x>>, Block(s \o <<Return(<<call("g", <<>>)>>)>>))>>
               \o b \o <<print(call("f", <<two>>))>>) :
          s \in {<<>>, <<Assign("y", x)>>}, b \in {<<>>, <<Creates>>}}

MCPrograms == Sums \cup Calls \cup Asks \cup Scopes
MCAgain == {Block(<<Def("f", <<x>>, Block(<<Return(<<fx>>)>>)), print(fx)>>),
            Block(<<Assign("x", IntLit(1)), Def("f", <<x>>, Block(<<Return(<<x>>)>>)), print(fx)>>)}
MCStyles == {"narrow", "commented"}
MCTyped == {<<<<"7">>, <<"-", "3">>, <<"x">>>>}

Names == <<"a", "b", "c", "d">>
Text1(i) == <<Word(Names[i])>>
Text2(i) == <<Word("while"), Word(Names[i]), Symbol(":")>>
MCRaw ==
  {[i \in 1 .. 4 |-> Line(ls[i], 0, IF i \in w THEN Text2(i) ELSE Text1(i))] :
     ls \in [1 .. 4 -> 0 .. 2], w \in SUBSET (1 .. 4)}
  \cup {<<Line(0, 1, <<Symbol("!")>>)>>}
=============================================================================

--------------------------- MODULE LuaCompile_MC ---------------------------
(***************************************************************************)
(* The programs LuaCompile is checked with, in families: every way to fill *)
(* the holes of some templates.                                            *)
(***************************************************************************)
EXTENDS LuaCompile

Numerals == [t \in {"0", "1", "2", "3", "4", "6", "7", "9", "1.0", "2.0", "1.5", "9.5"} |->
               CASE t = "0" -> Ival(0) [] t = "1" -> Ival(1) [] t = "2" -> Ival(2) [] t = "3" -> Ival(3)
                 [] t = "4" -> Ival(4) [] t = "6" -> Ival(6) [] t = "7" -> Ival(7) [] t = "9" -> Ival(9) [] t = "1.0" -> Flt(2) [] t = "2.0" -> Flt(4)
                 [] t = "1.5" -> Flt(3) [] OTHER -> Flt(19)]
Strings == [t \in {"'x'", "'y'"} |-> Str(IF t = "'x'" THEN "x" ELSE "y")]
Args1 == <<Ival(1), Ival(2)>>

Id(n) == <<"var", n>>
N(n)  == <<"num", n>>
X     == <<"str", "'x'">>
True_ == <<"true">>
False_ == <<"false">>
Nil_ == <<"nil">>
Dots == <<"...">>
Bin(o, x, y) == <<"bin", o, x, y>>
Un(o, x)     == <<"un", o, x>>
Not_(x)      == Un("not", x)
CallF(f, es) == <<"call", Id(f), es>>
At(t, k)     == <<"index", t, k>>
Fun(ps, b)   == <<"fun", ps, b>>
Tab(fs)      == <<"table", fs>>
Item(e)      == <<"item", e>>
Rec(k, e)    == <<"rec", k, e>>
Local(ns, es) == <<"local", ns, es>>
Set1(ts, es)  == <<"assign", ts, es>>
Show(es)      == <<"exp", CallF("print", es)>>
If1(c, b)     == <<"if", <<<<c, b>>>>, <<>>>>
IfElse(c, b, d) == <<"if", <<<<c, b>>>>, d>>
Return1(es)   == <<"return", es>>
Do1(b) == <<"do", b>>
Break1 == <<"break">>
a == Id("a")
b == Id("b")
n == Id("n")
t == Id("t")
g == Id("g")

\* local a, b, n = ...: 1, 2 and nil, unknown to the compiler.
Head0 == Local(<<"a", "b", "n">>, <<Dots>>)

(* Conditions: and, or and not over tests, constants and values, in every  *)
(* place a condition or its value can be used.                             *)
Tests   == {n, Bin("<", a, b), Bin("==", a, N("1")), False_, N("1")}
Logic2  == {Bin(o, x, y) : o \in {"and", "or"}, x \in Tests, y \in Tests}
Logic2N == Logic2 \cup {Not_(x) : x \in Logic2 \cup Tests}
Logic3  == {Bin(o, x, y) : o \in {"and", "or"}, x \in Logic2N, y \in Tests}
           \cup {Bin(o, x, y) : o \in {"and", "or"}, x \in Tests, y \in Logic2N}
Uses(e)  == { <<Head0, Show(<<N("3"), e, e>>)>>,
              <<Head0, IfElse(e, <<Show(<<N("1")>>)>>, <<Show(<<N("2")>>)>>), Show(<<a>>)>> }
Uses2(e) == { <<Head0, Set1(<<a>>, <<e>>), Show(<<a>>)>>,
              <<Head0, Return1(<<e>>)>>,
              <<Head0, <<"while", e, <<Show(<<a>>), Break1>>>>, Show(<<b>>)>>,
              <<Head0, <<"repeat", <<Set1(<<a, b>>, <<b, a>>), Show(<<a>>),
                                     If1(Bin("<", a, b), <<Break1>>)>>, e>>, Show(<<b>>)>> }
\* if e then goto l (alone in its block or not) and what follows the if.
GoL1 == <<"goto", "l">>
IfGoto(e) == { <<Head0, <<"if", <<<<e, <<GoL1>> \o r>>>> \o more, els>>, Show(<<N("2")>>), <<"label", "l">>, Show(<<N("3")>>)>>
               : r \in {<<>>, <<Show(<<N("1")>>)>>}, more \in {<<>>, <<<<Bin("==", b, N("2")), <<Show(<<b>>)>>>>>>},
                 els \in {<<>>, <<Show(<<N("4")>>)>>} }
\* The same with the label in the block itself, behind the goto.
LabelInBlock == {<<Head0, If1(e, <<GoL1>> \o r \o <<<<"label", "l">>, Show(<<N("1")>>)>>), Show(<<N("2")>>)>>
                 : e \in Tests, r \in {<<>>, <<Show(<<N("3")>>)>>}}
Conditions == UNION {IfGoto(e) : e \in Tests} \cup UNION {Uses(e) : e \in Logic3} \cup UNION {Uses2(e) : e \in Logic2N}

(* Operators: folding, operands that are constants, registers, results     *)
(* and too many constants for an operand.  Left out are strings that the   *)
(* values of the model cannot compare or convert, and infinite results.    *)
Operands == {N("1"), N("2.0"), N("1.0"), N("0"), a, g, X}
AnyOp    == {"+", "-", "*", "//", "%", "..", "==", "<", ">=", "and"}
StringOp == {"..", "==", "and"}
Ops2     == {Bin(o, x, y) : o \in AnyOp \ {"<", "//", "%"}, x \in Operands, y \in Operands \ {X}}
            \cup {Bin(o, x, y) : o \in {"<", "//", "%"}, x \in Operands, y \in {N("1"), N("2.0"), a, g}}
            \cup {Bin(o, x, N("0")) : o \in {"//", "%"}, x \in {N("1"), a, g, X}}
            \cup {Bin(o, x, X) : o \in StringOp, x \in Operands}
Ops1     == {Un(o, x) : o \in {"-", "not", "#"}, x \in Operands}
Arith2   == {Bin(o, x, y) : o \in {"+", "*"}, x \in {N("1"), a, X}, y \in {N("2.0"), b}}
Concat2  == {Bin("..", x, y) : x \in {N("1"), a, X}, y \in {N("2.0"), b}}
Ops3     == {Bin(o, x, y) : o \in AnyOp, x \in Arith2, y \in {N("3"), b}}
            \cup {Bin(o, x, y) : o \in AnyOp, x \in {N("3"), b}, y \in Arith2}
            \cup {Bin(o, x, y) : o \in StringOp, x \in Concat2, y \in {N("3"), b}}
            \cup {Bin(o, x, y) : o \in StringOp, x \in {N("3"), b}, y \in Concat2}
            \cup {Un("-", x) : x \in Arith2}
Operators == {<<Head0, Set1(<<g>>, <<N("3")>>), Show(<<e, N("1")>>)>> : e \in Ops1 \cup Ops2 \cup Ops3}

(* Assignments of two variables: the value of one may be needed to reach   *)
(* the other.                                                              *)
Targets1 == {a, b, t, g, At(t, a), At(t, N("1")), At(t, N("3")), At(a, N("1")), At(At(t, b), N("1"))}
Values2  == {<<N("3"), t>>, <<b, a>>, <<CallF("f", <<>>)>>, <<t, N("2"), N("3")>>, <<Nil_, CallF("f", <<>>)>>}
See      == Show(<<a, b, g, At(t, N("1")), At(t, N("2")), At(t, N("3"))>>)
Assigns(inner) ==
    {<<Head0, Local(<<"f">>, <<Fun(<<>>, <<Return1(<<N("1"), N("2")>>)>>)>>),
       Local(<<"t">>, <<Tab(<<Item(N("6")), Item(Tab(<<>>))>>)>>)>>
     \o (IF inner THEN <<<<"exp", <<"call", <<"paren", Fun(<<>>, <<Set1(ts, vs), See>>)>>, <<>>>>>>, See>>
         ELSE <<Set1(ts, vs), See>>)
       : ts \in {<<x, y>> : x \in Targets1, y \in Targets1} \cup
                {<<At(t, a), x, At(t, b)>> : x \in Targets1}, vs \in Values2}
Distinct2(p) == LET ts == IF p[Len(p) - 1][1] = "assign" THEN p[Len(p) - 1][2]
                          ELSE p[Len(p) - 1][2][2][2][3][1][2]
                IN \A i, j \in DOMAIN ts : i # j => ts[i] # ts[j]
Assignments == {p \in Assigns(FALSE) \cup Assigns(TRUE) : Distinct2(p)}

(* Closures made in loops and blocks: each one has the variable of its own *)
(* turn, however the turn ends.                                            *)
Add(f)   == Set1(<<At(Id("r"), Bin("+", Un("#", Id("r")), N("1")))>>, <<f>>)
Catch(x) == Add(Fun(<<>>, <<Set1(<<x>>, <<Bin("+", x, N("1"))>>), Return1(<<x>>)>>))
CallAll  == <<<<"for", "k", <<N("1"), Un("#", Id("r"))>>, <<Show(<<<<"call", At(Id("r"), Id("k")), <<>>>>>>),
                                                     Show(<<<<"call", At(Id("r"), Id("k")), <<>>>>>>)>>>>>>
i == Id("i")
c == Id("c")
Exits == {<<>>, <<Break1>>, <<If1(Bin("==", i, N("2")), <<Break1>>)>>,
          <<If1(Bin("==", i, N("2")), <<<<"goto", "next">>>>)>>,
          <<If1(Bin("==", i, N("2")), <<Show(<<c>>), <<"goto", "out">>>>)>>,
          <<If1(Bin("==", i, N("2")), <<Return1(<<c>>)>>)>>}
Bodies == {<<Local(<<"c">>, <<i>>)>> \o x \o <<Catch(v)>> \o y : x \in Exits, v \in {c, i, a}, y \in Exits \ {<<Break1>>}}
          \cup {<<Do1(<<Local(<<"c">>, <<i>>), Catch(c)>> \o x)>> : x \in Exits}
Misplaced(body) == \E k \in DOMAIN body : body[k][1] \in {"break", "return"} /\ k < Len(body)
Loop(kind, body) ==
    CASE kind = "for" -> <<<<"for", "i", <<N("1"), N("3")>>, body \o <<<<"label", "next">>>>>>>>
      [] kind = "in" -> <<<<"in", <<"i">>, <<Id("iter"), N("3")>>, body \o <<<<"label", "next">>>>>>>>
      [] kind = "while" -> <<Local(<<"i">>, <<N("0")>>),
                             <<"while", Bin("<", i, N("3")), <<Set1(<<i>>, <<Bin("+", i, N("1"))>>)>>
                                                          \o <<Do1(body \o <<<<"label", "next">>>>)>>>>>>
      [] OTHER -> <<Local(<<"i">>, <<N("0")>>),
                    <<"repeat", <<Set1(<<i>>, <<Bin("+", i, N("1"))>>), Local(<<"d">>, <<i>>), Catch(Id("d")),
                                  Do1(body \o <<<<"label", "next">>>>)>>, Bin(">=", Id("d"), N("4"))>>>>
Iter == <<"localfunction", "iter", Fun(<<"s", "k">>, <<IfElse(Bin("==", Id("k"), Nil_), <<Return1(<<N("1")>>)>>,
             <<If1(Bin("<", Id("k"), Id("s")), <<Return1(<<Bin("+", Id("k"), N("1"))>>)>>)>>)>>)>>
Closures == {<<Head0, Local(<<"r">>, <<Tab(<<>>)>>)>> \o (IF kind = "in" THEN <<Iter>> ELSE <<>>)
               \o <<Local(<<"z">>, <<Fun(<<>>, <<Do1(Loop(kind, body)), <<"label", "out">>>>)>>),
                    Show(<<CallF("z", <<>>)>>)>> \o CallAll
             : kind \in {"for", "in", "while", "repeat"}, body \in {x \in Bodies : ~Misplaced(x)}}

(* Gotos: a label somewhere in a block, and jumps to it from before, from  *)
(* behind and from inner blocks, with variables and closures in between.   *)
GoL   == If1(Bin("<", a, N("3")), <<Set1(<<a>>, <<Bin("+", a, N("1"))>>), <<"goto", "l">>>>)
Pieces == {<<Show(<<a, c>>)>>, <<Local(<<"c">>, <<a>>)>>, <<Local(<<"c">>, <<a>>), Catch(c)>>, <<GoL>>,
           <<Do1(<<Local(<<"d">>, <<a>>), Catch(Id("d")), GoL>>)>>, <<<<"goto", "l">>>>}
LabelL == <<<<"label", "l">>>>
Bodies3 == UNION {{LabelL \o p \o q \o r, p \o LabelL \o q \o r, p \o q \o LabelL \o r, p \o q \o r \o LabelL}
                  : p \in Pieces, q \in Pieces, r \in Pieces}
Bodies2 == UNION {{p \o LabelL \o q \o LabelL, LabelL \o p \o q, p \o q \o LabelL, <<Do1(LabelL \o p)>> \o q,
                   <<Do1(p)>> \o q, p \o <<Do1(q \o LabelL)>>} : p \in Pieces, q \in Pieces}
\* A plain goto backwards would never end.
EndsGoto(body) ==
    \A j \in DOMAIN body : LET inner == body[j][2] before == SubSeq(body, 1, j - 1) IN
       CASE body[j][1] = "goto" -> ~Contains(before, LabelL[1])
         [] body[j][1] = "do"   -> inner[Len(inner)][1] = "goto" => ~Contains(before \o inner, LabelL[1])
         [] OTHER -> TRUE
InBlock(kind, body) ==
    CASE kind = "do" -> <<Do1(body), Show(<<a>>)>>
      [] kind = "repeat" -> <<<<"repeat", <<Local(<<"c">>, <<b>>)>> \o body, Bin(">=", c, N("1"))>>>>
      [] kind = "loop" -> <<<<"while", Bin("<", b, N("4")), <<Set1(<<b>>, <<Bin("+", b, N("1"))>>)>> \o body>>>>
      [] OTHER -> <<<<"localfunction", "z", Fun(<<"c">>, body)>>, <<"exp", CallF("z", <<N("6")>>)>>>>
Gotos == {<<Head0, Local(<<"r">>, <<Tab(<<>>)>>)>> \o InBlock(kind, body) \o CallAll
          : <<kind, body>> \in {x \in ({"do", "repeat"} \X Bodies2) \cup ({"loop", "function"} \X (Bodies2 \cup Bodies3))
                               : EndsGoto(x[2])}}

(* Functions: results adjusted to what is wanted, extra arguments, tail    *)
(* calls, methods, variables of functions further out.                     *)
x_ == Id("x")
y_ == Id("y")
F2(es) == CallF("f2", es)
Results == {<<>>, <<Return1(<<>>)>>, <<Return1(<<a>>)>>, <<Return1(<<a, x_>>)>>, <<Return1(<<F2(<<a, x_>>)>>)>>,
            <<Return1(<<<<"paren", F2(<<a, x_>>)>>>>)>>, <<Return1(<<x_, F2(<<a, x_>>)>>)>>,
            <<Show(<<F2(<<x_>>), F2(<<x_>>)>>)>>, <<Local(<<"c", "d">>, <<F2(<<a, x_>>)>>), Return1(<<Id("d"), c>>)>>}
VarResults == Results \cup {<<Return1(<<Dots>>)>>, <<Return1(<<a, Dots>>)>>, <<Return1(<<Dots, a>>)>>,
               <<Return1(<<F2(<<Dots>>)>>)>>, <<Return1(<<F2(<<x_, Dots>>)>>)>>, <<Local(<<"c", "d">>, <<Dots>>), Return1(<<Id("d"), c>>)>>}
CallsF(as) == LET e == CallF("f", as) IN
    {<<Show(<<e>>)>>, <<Show(<<e, N("3")>>)>>, <<Show(<<N("3"), <<"paren", e>>>>)>>, <<Return1(<<e>>)>>,
     <<Local(<<"p", "q", "s">>, <<e>>), Show(<<Id("p"), Id("q"), Id("s")>>)>>,
     <<<<"exp", e>>, Show(<<CallF("f", <<N("1"), e>>)>>)>>,
     <<Show(<<Un("#", Tab(<<Item(e), Item(e)>>)), CallF("f", <<>>)>>)>>}
SecondF == <<"localfunction", "f2", Fun(<<"...">>, <<Return1(<<Dots>>)>>)>>
Functions1 == {<<Head0, SecondF, Local(<<"f">>, <<Fun(ps, r)>>)>> \o cs
               : ps \in {<<"x">>, <<"y", "x">>}, r \in Results,
                 cs \in CallsF(<<>>) \cup CallsF(<<N("1"), N("2"), N("3")>>)}
              \cup {<<Head0, SecondF, Local(<<"f">>, <<Fun(ps, r)>>)>> \o cs
               : ps \in {<<"...">>, <<"x", "...">>, <<"y", "x", "...">>}, r \in VarResults,
                 cs \in CallsF(<<N("1")>>) \cup CallsF(<<N("1"), N("2"), N("3")>>)}
Recursive1 ==
    {<<Head0, <<"localfunction", "f", Fun(<<"x", "y">>,
         <<If1(Bin("<", x_, N("1")), <<Return1(<<y_>>)>>)>> \o r)>>,
       Show(<<CallF("f", <<N("3"), N("0")>>), a>>)>>
     : r \in {<<Return1(<<CallF("f", <<Bin("-", x_, N("1")), Bin("+", x_, y_)>>)>>)>>,
              <<Return1(<<Bin("+", CallF("f", <<Bin("-", x_, N("1")), y_>>), x_)>>)>>,
              <<Local(<<"c">>, <<Fun(<<>>, <<Set1(<<y_, a>>, <<Bin("+", x_, y_), x_>>)>>)>>), <<"exp", CallF("c", <<>>)>>,
                Return1(<<CallF("f", <<Bin("-", x_, N("1")), y_>>)>>)>>,
              <<Set1(<<x_>>, <<Bin("-", x_, N("1"))>>),
                Return1(<<CallF("f", <<x_, CallF("f", <<Bin("-", x_, N("1")), y_>>)>>)>>)>>}}
Dot(e, k) == <<"dot", e, k>>
Methods ==
    {<<Head0, Local(<<"t">>, <<Tab(<<Rec(<<"str", "'y'">>, Tab(<<>>)), Rec(X, a)>>)>>),
       <<"methoddef", o, "m", Fun(<<"p">>, <<Set1(<<Dot(Id("self"), "z")>>, <<Id("p")>>)>> \o r)>>,
       <<"function", Dot(o, "k"), Fun(<<"p">>, <<Return1(<<Id("p"), At(t, X)>>)>>)>>,
       Show(<<<<"method", o, "m", <<b>>>>>>), Show(<<Dot(o, "z"), <<"call", Dot(o, "k"), <<N("1")>>>>>>)>>
     : o \in {t, Dot(t, "y")}, r \in {<<>>, <<Return1(<<Id("self")>>)>>,
         <<Return1(<<<<"method", Id("self"), "k", <<>>>>>>)>>}}
Nested ==
    {<<Head0, <<"localfunction", "f", Fun(<<"x">>,
         <<Local(<<"h">>, <<Fun(<<>>, <<Return1(<<Fun(<<>>, <<Set1(<<v>>, <<Bin("+", w, N("1"))>>), Return1(<<x_, a>>)>>)>>)>>)>>),
           Return1(<<CallF("h", <<>>), CallF("h", <<>>), Fun(<<>>, <<Return1(<<v>>)>>)>>)>>)>>,
       Local(<<"p", "q", "s">>, <<CallF("f", <<b>>)>>),
       Show(<<CallF("p", <<>>)>>), Show(<<CallF("q", <<>>)>>), Show(<<CallF("s", <<>>), a>>)>>
     : v \in {x_, a, g}, w \in {x_, a}}
Functions_ == Functions1 \cup Recursive1 \cup Methods \cup Nested

(* Numeric loops, constructors and declarations.                           *)
ForLoops ==
    {<<Head0, <<"for", "i", <<e1, e2>> \o e3, <<Show(<<i>>), Set1(<<i>>, <<N("0")>>)>>>>>>
     : e1 \in {N("1"), N("3"), N("1.5"), N("2.0"), X}, e2 \in {N("0"), N("3"), N("2.0"), N("1.5"), n},
       e3 \in {<<>>, <<N("1")>>, <<N("2")>>, <<Un("-", N("1"))>>, <<N("1.5")>>, <<Un("-", N("1.5"))>>, <<X>>}}
FieldChoice == {Item(a), Item(CallF("f", <<>>)), Rec(N("2"), b), Rec(Bin("+", a, N("6")), CallF("f", <<>>))}
FieldLists  == {<<>>} \cup {fs \in UNION {[1..k -> FieldChoice] : k \in 1..3} : TRUE}
               \cup {[j \in 1..k |-> IF j = l THEN f ELSE Item(N("3"))] : k \in 4..7, l \in 4..7, f \in FieldChoice}
Constructors ==
    {<<Head0, Local(<<"f">>, <<Fun(<<>>, <<Return1(<<N("1"), N("2"), n>>)>>)>>), Local(<<"t">>, <<Tab(fs)>>),
       <<"for", "i", <<N("1"), N("9")>>, <<Show(<<At(t, i)>>)>>>>>> : fs \in FieldLists}
Locals ==
    {<<Head0, Local(<<"f">>, <<Fun(<<>>, <<Return1(<<N("1"), N("2")>>)>>)>>),
       Local(SubSeq(<<"c", "d", "a">>, 1, k), es), Local(<<"z">>, <<>>), Show(<<a, c, Id("d"), Id("z")>>)>>
     : k \in 1..3, es \in {<<>>, <<a>>, <<CallF("f", <<>>)>>, <<b, CallF("f", <<>>)>>, <<CallF("f", <<>>), a>>,
                           <<a, b, N("3")>>, <<a, b, N("3"), CallF("f", <<>>)>>, <<Dots, Dots>>}}

(* Programs that go to a limit of the compiler (Fitting), and one step     *)
(* beyond it (TooBig1).                                                    *)
Name(j)   == "v" \o ToString(j)
Names(k)  == [j \in 1..k |-> Name(j)]
Uppers(k) == [j \in 1..k |-> Id(Name(j))]
RECURSIVE Nest(_, _)
Nest(o, k) == IF k = 0 THEN N("1") ELSE IF o = "paren" THEN <<"paren", Nest(o, k - 1)>>
              ELSE Bin(o, N("1"), Nest(o, k - 1))
RECURSIVE Blocks(_)
Blocks(k) == IF k = 0 THEN Show(<<N("1")>>) ELSE Do1(<<Blocks(k - 1)>>)
LimitProgram(what, k) ==
    CASE what = "registers"   -> <<Show([j \in 1..k |-> N("1")])>>
      [] what = "locals"      -> <<Local(Names(k), <<Dots>>), Show(Uppers(k))>>
      [] what = "parameters"  -> <<<<"localfunction", "f", Fun(Names(k), <<Return1(Uppers(k))>>)>>,
                                   Show(<<CallF("f", <<N("1"), Dots>>)>>)>>
      [] what = "upvalues"    -> <<Local(Names(k), <<Dots>>), Show(<<<<"call", <<"paren",
                                     Fun(<<>>, <<Return1(Uppers(k))>>)>>, <<>>>>>>)>>
      [] what = "concat"      -> <<Show(<<Nest("..", k)>>)>>
      [] what = "parentheses" -> <<Show(<<Nest("paren", k)>>)>>
      [] what = "blocks"      -> <<Blocks(k)>>
      [] OTHER                -> <<Local(<<"a">>, <<>>), Set1([j \in 1..k |-> a], <<Dots>>), Show(<<a>>)>>
Limit == [registers |-> MAXREGS - 2, locals |-> MAXVARS, parameters |-> MAXVARS, upvalues |-> MAXUPVAL,
          concat |-> LUAI_MAXCCALLS - 2, parentheses |-> LUAI_MAXCCALLS - 2,
          blocks |-> LUAI_MAXCCALLS - 2, targets |-> LUAI_MAXCCALLS]
Fitting == {LimitProgram(what, Limit[what]) : what \in DOMAIN Limit}
TooBig1 == {LimitProgram(what, Limit[what] + 1) : what \in DOMAIN Limit}

Programs1 == Conditions \cup Operators \cup Assignments \cup Closures \cup Gotos \cup Functions_
             \cup ForLoops \cup Constructors \cup Locals \cup Fitting \cup TooBig1
=============================================================================

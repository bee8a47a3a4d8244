----------------------------- MODULE LuaMeaning -----------------------------
(***************************************************************************)
(* What a program means, as the reference manual has it: an interpreter of *)
(* syntax trees, with variables in cells and no registers, jumps or        *)
(* instructions.  The compiler and the virtual machine are checked against *)
(* it.  A tree is a tuple that starts with its kind; Tokens writes a tree  *)
(* down with no parenthesis the grammar does not need.  The order of       *)
(* evaluation the manual leaves open is the one of the code.               *)
(***************************************************************************)
EXTENDS LuaValue

(***************************************************************************)
(* Trees to tokens                                                         *)
(***************************************************************************)
Precedence(op) ==
    CASE op = "or" -> 1 [] op = "and" -> 2 [] op \in {"==", "~=", "<", "<=", ">", ">="} -> 3
      [] op = ".." -> 4 [] op \in {"+", "-"} -> 5 [] OTHER -> 6
Level(e) == IF e[1] = "bin" THEN Precedence(e[2]) ELSE IF e[1] = "un" THEN 7 ELSE 8

Commas(lists) == IF lists = <<>> THEN <<>>
                 ELSE FoldLeft(LAMBDA acc, x : acc \o <<",">> \o x, Head(lists), Tail(lists))
RECURSIVE ExpTokens(_)
RECURSIVE BlockTokens(_)
Wrapped(e, level) == IF Level(e) < level THEN <<"(">> \o ExpTokens(e) \o <<")">> ELSE ExpTokens(e)
ExpsTokens(es) == Commas([n \in DOMAIN es |-> ExpTokens(es[n])])
NameTokens(ns) == Commas([n \in DOMAIN ns |-> <<ns[n]>>])
FunctionTokens(f) == <<"(">> \o NameTokens(f[2]) \o <<")">> \o BlockTokens(f[3]) \o <<"end">>
FieldTokens(f) == IF f[1] = "item" THEN ExpTokens(f[2])
                  ELSE <<"[">> \o ExpTokens(f[2]) \o <<"]", "=">> \o ExpTokens(f[3])
ExpTokens(e) ==
    CASE e[1] \in {"nil", "true", "false", "..."} -> <<e[1]>>
      [] e[1] \in {"num", "str", "var"} -> <<e[2]>>
      [] e[1] = "paren" -> <<"(">> \o ExpTokens(e[2]) \o <<")">>
      [] e[1] = "dot" -> ExpTokens(e[2]) \o <<".", e[3]>>
      [] e[1] = "index" -> ExpTokens(e[2]) \o <<"[">> \o ExpTokens(e[3]) \o <<"]">>
      [] e[1] = "call" -> ExpTokens(e[2]) \o <<"(">> \o ExpsTokens(e[3]) \o <<")">>
      [] e[1] = "method" -> ExpTokens(e[2]) \o <<":", e[3], "(">> \o ExpsTokens(e[4]) \o <<")">>
      [] e[1] = "un" -> <<e[2]>> \o Wrapped(e[3], 7)
      [] e[1] = "bin" ->
           LET p == Precedence(e[2]) right == e[2] = ".."
           IN Wrapped(e[3], IF right THEN p + 1 ELSE p) \o <<e[2]>>
              \o Wrapped(e[4], IF right THEN p ELSE p + 1)
      [] e[1] = "table" -> <<"{">> \o Commas([n \in DOMAIN e[2] |-> FieldTokens(e[2][n])]) \o <<"}">>
      [] OTHER -> <<"function">> \o FunctionTokens(e)
ArmTokens(arm) == ExpTokens(arm[1]) \o <<"then">> \o BlockTokens(arm[2])
StatTokens(s) ==
    CASE s[1] = "local" -> <<"local">> \o NameTokens(s[2])
                           \o (IF s[3] = <<>> THEN <<>> ELSE <<"=">> \o ExpsTokens(s[3]))
      [] s[1] = "assign" -> ExpsTokens(s[2]) \o <<"=">> \o ExpsTokens(s[3])
      [] s[1] = "exp" -> ExpTokens(s[2])
      [] s[1] = "do" -> <<"do">> \o BlockTokens(s[2]) \o <<"end">>
      [] s[1] = "while" -> <<"while">> \o ExpTokens(s[2]) \o <<"do">> \o BlockTokens(s[3]) \o <<"end">>
      [] s[1] = "repeat" -> <<"repeat">> \o BlockTokens(s[2]) \o <<"until">> \o ExpTokens(s[3])
      [] s[1] = "if" ->
           <<"if">> \o FoldLeft(LAMBDA acc, arm : acc \o <<"elseif">> \o ArmTokens(arm),
                                ArmTokens(Head(s[2])), Tail(s[2]))
           \o (IF s[3] = <<>> THEN <<>> ELSE <<"else">> \o BlockTokens(s[3])) \o <<"end">>
      [] s[1] = "for" -> <<"for", s[2], "=">> \o ExpsTokens(s[3]) \o <<"do">> \o BlockTokens(s[4]) \o <<"end">>
      [] s[1] = "in" -> <<"for">> \o NameTokens(s[2]) \o <<"in">> \o ExpsTokens(s[3]) \o <<"do">>
                        \o BlockTokens(s[4]) \o <<"end">>
      [] s[1] = "function" -> <<"function">> \o ExpTokens(s[2]) \o FunctionTokens(s[3])
      [] s[1] = "methoddef" -> <<"function">> \o ExpTokens(s[2]) \o <<":", s[3]>> \o FunctionTokens(s[4])
      [] s[1] = "localfunction" -> <<"local", "function", s[2]>> \o FunctionTokens(s[3])
      [] s[1] = "return" -> <<"return">> \o ExpsTokens(s[2])
      [] s[1] = "label" -> <<"::", s[2], "::">>
      [] s[1] = "goto" -> <<"goto", s[2]>>
      [] OTHER -> <<s[1]>>
BlockTokens(b) == FlattenSeq([n \in DOMAIN b |-> StatTokens(b[n])])
Tokens(b) == BlockTokens(b)

(***************************************************************************)
(* Evaluation.  W is the world: cells, tables, functions, the output, and  *)
(* how control leaves the statement: sig is "", "break", "goto", "return"  *)
(* or "error".  An environment maps the names in scope to cells; the cell  *)
(* of "..." holds a sequence.                                              *)
(***************************************************************************)
World == [cells |-> <<>>, tabs |-> <<Str("print") :> Val("print", 0, "")>>, fns |-> <<>>,
          out |-> <<>>, sig |-> "", label |-> "", vals |-> <<>>]
Err(W) == [W EXCEPT !.sig = "error"]
First(vals) == IF vals = <<>> THEN Nil ELSE Head(vals)
Adjust(vals, n) == [k \in 1..n |-> IF k <= Len(vals) THEN vals[k] ELSE Nil]
Res(W, vals) == [W |-> W, vals |-> vals]
Bind(W, env, names, vals) ==
    [W |-> [W EXCEPT !.cells = @ \o Adjust(vals, Len(names))],
     env |-> [n \in DOMAIN env \cup ToSet(names) |->
                IF n \in ToSet(names) THEN Len(W.cells) + SelectLastInSeq(names, LAMBDA x : x = n)
                ELSE env[n]]]

KeyFor(k) == IF k.tt = "flt" /\ k.i % 2 = 0 THEN Ival(k.i \div 2) ELSE k
GetField(W, t, k) == IF t.tt # "tab" THEN Res(Err(W), <<Nil>>)
                     ELSE Res(W, <<IF KeyFor(k) \in DOMAIN W.tabs[t.i] THEN W.tabs[t.i][KeyFor(k)] ELSE Nil>>)
SetField(W, t, k, v) == IF t.tt # "tab" \/ k = Nil THEN Err(W)
                        ELSE [W EXCEPT !.tabs[t.i] = [x \in (DOMAIN @ \cup {KeyFor(k)}) \
                                                        (IF v = Nil THEN {KeyFor(k)} ELSE {}) |->
                                                        IF x = KeyFor(k) THEN v ELSE @[x]]]
Length(W, v) == IF v.tt = "str" THEN Len(v.s)
                ELSE CHOOSE n \in 0..Cardinality(DOMAIN W.tabs[v.i]) :
                       (n = 0 \/ Ival(n) \in DOMAIN W.tabs[v.i]) /\ Ival(n + 1) \notin DOMAIN W.tabs[v.i]

ArithOf == [t \in {"+", "-", "*", "//", "%"} |->
              CASE t = "+" -> "ADD" [] t = "-" -> "SUB" [] t = "*" -> "MUL" [] t = "//" -> "IDIV" [] OTHER -> "MOD"]
Binary(W, op, a, b) ==
    LET numbers == ttisnumber(a) /\ ttisnumber(b) IN
    CASE op = "==" -> Res(W, <<Bool(RawEqual(a, b))>>)
      [] op = "~=" -> Res(W, <<Bool(~RawEqual(a, b))>>)
      [] op = ".." /\ CanConcat(a) /\ CanConcat(b) -> Res(W, <<Str(ToStr(a) \o ToStr(b))>>)
      [] op = "<" /\ numbers -> Res(W, <<Bool(LessThan(a, b))>>)
      [] op = "<=" /\ numbers -> Res(W, <<Bool(LessEqual(a, b))>>)
      [] op = ">" /\ numbers -> Res(W, <<Bool(LessThan(b, a))>>)
      [] op = ">=" /\ numbers -> Res(W, <<Bool(LessEqual(b, a))>>)
      [] op \in DOMAIN ArithOf /\ numbers ->
           IF DividesByZero(ArithOf[op], a, b) THEN Res(Err(W), <<Nil>>)
           ELSE Res(W, <<Arith(ArithOf[op], a, b)>>)
      [] OTHER -> Res(Err(W), <<Nil>>)
Unary(W, op, a) ==
    CASE op = "not" -> Res(W, <<Bool(l_isfalse(a))>>)
      [] op = "-" /\ ttisnumber(a) -> Res(W, <<Arith("UNM", a, a)>>)
      [] op = "#" /\ a.tt \in {"str", "tab"} -> Res(W, <<Ival(Length(W, a))>>)
      [] OTHER -> Res(Err(W), <<Nil>>)

RECURSIVE Eval(_, _, _)      \* all the values of an expression
RECURSIVE Exec(_, _, _, _, _)
One(e, env, W) == LET r == Eval(e, env, W) IN [r EXCEPT !.vals = <<First(@)>>]
V1(r) == First(r.vals)
RECURSIVE EvalList(_, _, _)
EvalList(es, env, W) ==
    IF es = <<>> THEN Res(W, <<>>)
    ELSE LET h == IF Len(es) = 1 THEN Eval(es[1], env, W) ELSE One(es[1], env, W)
             t == EvalList(Tail(es), env, h.W)
         IN Res(t.W, h.vals \o t.vals)
Run(W, f, args) ==
    LET fn == W.fns[f.i]
        extra == IF Len(args) > Len(fn.params) THEN SubSeq(args, Len(fn.params) + 1, Len(args)) ELSE <<>>
        B == Bind(W, fn.env, fn.params, args)
        D == IF fn.dots THEN [W |-> [B.W EXCEPT !.cells = Append(@, extra)],
                              env |-> ("..." :> Len(B.W.cells) + 1) @@ B.env] ELSE B
        X == Exec(fn.body, 1, D.env, <<>>, D.W).W
    IN IF X.sig = "return" THEN Res([X EXCEPT !.sig = "", !.vals = <<>>], X.vals) ELSE Res(X, <<>>)
Apply(W, f, args) ==
    CASE W.sig # "" -> Res(W, <<>>)
      [] f.tt = "print" /\ W.sig = "" -> Res([W EXCEPT !.out = Append(@, args)], <<>>)
      [] f.tt = "fn" /\ W.sig = "" -> Run(W, f, args)
      [] OTHER -> Res(Err(W), <<>>)
NewFunction(W, env, f, params) ==
    Res([W EXCEPT !.fns = Append(@, [params |-> SelectSeq(params, LAMBDA x : x # "..."), body |-> f[3],
                                     dots |-> "..." \in ToSet(params), env |-> env])],
        <<Val("fn", Len(W.fns) + 1, "")>>)
RECURSIVE FillTable(_, _, _, _, _)
FillTable(fields, n, t, env, W) ==
    IF fields = <<>> THEN W
    ELSE LET f == Head(fields)
             last == Len(fields) = 1
             k == One(f[2], env, W)
             v == One(f[3], env, k.W)
             many == IF last THEN Eval(f[2], env, W) ELSE One(f[2], env, W)
         IN IF f[1] = "item"
            THEN FillTable(Tail(fields), n + 1, t, env,
                           FoldLeft(LAMBDA X, j : SetField(X, t, Ival(n + j), many.vals[j]), many.W,
                                    [j \in DOMAIN many.vals |-> j]))
            ELSE FillTable(Tail(fields), n, t, env, SetField(v.W, t, V1(k), V1(v)))
Variable(W, env, name) ==
    IF name \in DOMAIN env THEN Res(W, <<W.cells[env[name]]>>)
    ELSE GetField(W, Val("tab", 1, ""), Str(name))
Eval(e, env, W) ==
    CASE W.sig # "" -> Res(W, <<Nil>>)
      [] e[1] = "nil" -> Res(W, <<Nil>>)
      [] e[1] \in {"true", "false"} -> Res(W, <<Bool(e[1] = "true")>>)
      [] e[1] = "num" -> Res(W, <<Numeral[e[2]]>>)
      [] e[1] = "str" -> Res(W, <<StringToken[e[2]]>>)
      [] e[1] = "..." -> Res(W, W.cells[env["..."]])
      [] e[1] = "var" -> Variable(W, env, e[2])
      [] e[1] = "paren" -> One(e[2], env, W)
      [] e[1] = "dot" -> LET t == One(e[2], env, W) IN GetField(t.W, V1(t), Str(e[3]))
      [] e[1] = "index" -> LET t == One(e[2], env, W)
                               k == One(e[3], env, t.W)
                           IN GetField(k.W, V1(t), V1(k))
      [] e[1] = "call" -> LET f == One(e[2], env, W)
                              a == EvalList(e[3], env, f.W)
                          IN Apply(a.W, V1(f), a.vals)
      [] e[1] = "method" -> LET o == One(e[2], env, W)
                                f == GetField(o.W, V1(o), Str(e[3]))
                                a == EvalList(e[4], env, f.W)
                            IN Apply(a.W, V1(f), o.vals \o a.vals)
      [] e[1] = "un" -> LET a == One(e[3], env, W) IN Unary(a.W, e[2], V1(a))
      [] e[1] = "bin" ->
           LET a == One(e[3], env, W)
               b == One(e[4], env, a.W)
           IN CASE e[2] = "and" -> IF l_isfalse(V1(a)) THEN a ELSE b
                [] e[2] = "or" -> IF l_isfalse(V1(a)) THEN b ELSE a
                [] OTHER -> IF b.W.sig # "" THEN b ELSE Binary(b.W, e[2], V1(a), V1(b))
      [] e[1] = "table" ->
           LET t == Val("tab", Len(W.tabs) + 1, "")
           IN Res(FillTable(e[2], 0, t, env, [W EXCEPT !.tabs = Append(@, <<>>)]), <<t>>)
      [] OTHER -> NewFunction(W, env, e, e[2])

(***************************************************************************)
(* Statements                                                              *)
(***************************************************************************)
RECURSIVE Places(_, _, _)
\* The table and key of each target of an assignment, evaluated in order.
Places(ts, env, W) ==
    IF ts = <<>> THEN [W |-> W, places |-> <<>>]
    ELSE LET e == Head(ts)
             t == IF e[1] \in {"dot", "index"} THEN One(e[2], env, W) ELSE Res(W, <<Val("tab", 1, "")>>)
             k == IF e[1] = "index" THEN One(e[3], env, t.W)
                  ELSE Res(t.W, <<Str(IF e[1] = "dot" THEN e[3] ELSE e[2])>>)
             rest == Places(Tail(ts), env, k.W)
         IN [W |-> rest.W, places |-> <<[t |-> V1(t), k |-> V1(k),
                                         cell |-> IF e[1] = "var" /\ e[2] \in DOMAIN env THEN env[e[2]] ELSE 0]>>
                                      \o rest.places]
Assign(W, place, v) == IF W.sig # "" THEN W
                       ELSE IF place.cell # 0 THEN [W EXCEPT !.cells[place.cell] = v]
                       ELSE SetField(W, place.t, place.k, v)
AssignAll(ts, es, env, W) ==
    LET P == Places(ts, env, W)
        E == EvalList(es, env, P.W)
        vals == Adjust(E.vals, Len(ts))
    IN FoldRight(LAMBDA n, X : Assign(X, P.places[n], vals[n]), [n \in DOMAIN ts |-> n], E.W)

Scope(b, env, W) == Exec(b, 1, env, <<>>, W).W
\* What a loop does when its body has run: stop, or go on as if nothing happened.
Broken(W) == W.sig # ""
EndLoop(W) == IF W.sig = "break" THEN [W EXCEPT !.sig = ""] ELSE W
RECURSIVE While(_, _, _, _)
While(e, b, env, W) ==
    LET c == One(e, env, W)
        X == Scope(b, env, c.W)
    IN IF Broken(c.W) \/ l_isfalse(V1(c)) THEN c.W
       ELSE IF Broken(X) THEN EndLoop(X) ELSE While(e, b, env, X)
RECURSIVE Repeat(_, _, _, _)
Repeat(b, e, env, W) ==
    LET X == Exec(b, 1, env, <<>>, W)
        c == One(e, X.env, X.W)
    IN IF Broken(X.W) THEN EndLoop(X.W)
       ELSE IF Broken(c.W) \/ ~l_isfalse(V1(c)) THEN c.W ELSE Repeat(b, e, env, c.W)
RECURSIVE If(_, _, _, _)
If(arms, other, env, W) ==
    IF arms = <<>> THEN Scope(other, env, W)
    ELSE LET c == One(Head(arms)[1], env, W)
         IN IF Broken(c.W) THEN c.W
            ELSE IF l_isfalse(V1(c)) THEN If(Tail(arms), other, env, c.W) ELSE Scope(Head(arms)[2], env, c.W)
\* The values a for loop gives its variable: integers if the start and the
\* step are, floats otherwise.
ForValues(start, l, s) ==
    LET span  == Sign(Halves(s)) * (Halves(l) - Halves(start))
        count == IF span < 0 THEN 0 ELSE span \div Abs(Halves(s)) + 1
        whole == start.tt = "int" /\ s.tt = "int"
    IN [n \in 1..count |-> IF whole THEN Ival(start.i + (n - 1) * s.i)
                           ELSE Flt(Halves(start) + (n - 1) * Halves(s))]
RECURSIVE ForAll(_, _, _, _, _)
ForAll(name, vals, b, env, W) ==
    IF vals = <<>> THEN W
    ELSE LET B == Bind(W, env, <<name>>, <<Head(vals)>>)
             X == Scope(b, B.env, B.W)
         IN IF Broken(X) THEN EndLoop(X) ELSE ForAll(name, Tail(vals), b, env, X)
RECURSIVE ForIn(_, _, _, _, _, _, _)
ForIn(names, f, s, c, b, env, W) ==
    LET r == Apply(W, f, <<s, c>>)
        B == Bind(r.W, env, names, r.vals)
        X == Scope(b, B.env, B.W)
    IN IF Broken(r.W) \/ V1(r) = Nil THEN r.W
       ELSE IF Broken(X) THEN EndLoop(X) ELSE ForIn(names, f, s, V1(r), b, env, X)
For(s, env, W) ==
    LET E == EvalList(s[3], env, W)
        step == IF Len(E.vals) > 2 THEN E.vals[3] ELSE Ival(1)
    IN IF Broken(E.W) THEN E.W
       ELSE IF ~(ttisnumber(E.vals[1]) /\ ttisnumber(E.vals[2]) /\ ttisnumber(step)) THEN Err(E.W)
       ELSE ForAll(s[2], ForValues(E.vals[1], E.vals[2], step), s[4], env, E.W)

\* A statement that declares nothing.
Stat(s, env, W) ==
    CASE s[1] = "assign" -> AssignAll(s[2], s[3], env, W)
      [] s[1] = "exp" -> Eval(s[2], env, W).W
      [] s[1] = "do" -> Scope(s[2], env, W)
      [] s[1] = "while" -> While(s[2], s[3], env, W)
      [] s[1] = "repeat" -> Repeat(s[2], s[3], env, W)
      [] s[1] = "if" -> If(s[2], s[3], env, W)
      [] s[1] = "for" -> For(s, env, W)
      [] s[1] = "in" -> LET E == EvalList(s[3], env, W)
                            v == Adjust(E.vals, 3)
                        IN IF Broken(E.W) THEN E.W ELSE ForIn(s[2], v[1], v[2], v[3], s[4], env, E.W)
      [] s[1] = "function" -> LET F == NewFunction(W, env, s[3], s[3][2])
                              IN Assign(F.W, Places(<<s[2]>>, env, W).places[1], V1(F))
      [] s[1] = "methoddef" -> LET F == NewFunction(W, env, s[4], <<"self">> \o s[4][2])
                               IN Assign(F.W, Places(<<<<"dot", s[2], s[3]>>>>, env, W).places[1], V1(F))
      [] s[1] = "return" -> LET E == EvalList(s[2], env, W)
                            IN IF Broken(E.W) THEN E.W ELSE [E.W EXCEPT !.sig = "return", !.vals = E.vals]
      [] s[1] = "break" -> [W EXCEPT !.sig = "break"]
      [] s[1] = "goto" -> [W EXCEPT !.sig = "goto", !.label = s[2]]
      [] OTHER -> W

\* A block from its statement n; seen has the labels passed, with the scope
\* to go back to.
Exec(b, n, env, seen, W) ==
    LET s == b[n]
        E == EvalList(s[3], env, W)
        L == Bind(E.W, env, s[2], E.vals)
        B == Bind(W, env, <<s[2]>>, <<Nil>>)
        F == NewFunction(B.W, B.env, s[3], s[3][2])
        X == Stat(s, env, W)
        G == [X EXCEPT !.sig = ""]
        ahead == {m \in DOMAIN b : m > n /\ b[m] = <<"label", X.label>>}
    IN CASE n > Len(b) -> [W |-> W, env |-> env]
         [] n <= Len(b) /\ s[1] = "local" -> IF Broken(E.W) THEN [W |-> E.W, env |-> env]
                                             ELSE Exec(b, n + 1, L.env, seen, L.W)
         [] n <= Len(b) /\ s[1] = "localfunction" ->
              Exec(b, n + 1, B.env, seen, [F.W EXCEPT !.cells[B.env[s[2]]] = V1(F)])
         [] n <= Len(b) /\ s[1] = "label" -> Exec(b, n + 1, env, (s[2] :> [at |-> n, env |-> env]) @@ seen, W)
         [] OTHER ->
              IF X.sig # "goto" THEN (IF Broken(X) THEN [W |-> X, env |-> env] ELSE Exec(b, n + 1, env, seen, X))
              ELSE IF X.label \in DOMAIN seen THEN Exec(b, seen[X.label].at, seen[X.label].env, seen, G)
              ELSE IF ahead # {} THEN Exec(b, CHOOSE m \in ahead : TRUE, env, seen, G)
              ELSE [W |-> X, env |-> env]

(***************************************************************************)
(* The programs that mean something.  A goto reaches a label of a block    *)
(* around it, but not into the scope of a local: the scope ends at the     *)
(* last statement that does something, unless a condition follows it.      *)
(* (Only blocks and local functions are looked at: the gotos of the        *)
(* programs are there.)                                                    *)
(***************************************************************************)
Inner(s) ==
    CASE s[1] \in {"do", "repeat"} -> {s[2]}
      [] s[1] = "while" -> {s[3]}
      [] s[1] \in {"for", "in"} -> {s[4]}
      [] s[1] = "if" -> {s[2][k][2] : k \in DOMAIN s[2]} \cup {s[3]}
      [] OTHER -> {}
RECURSIVE Escapes(_)
StatEscapes(s) ==
    CASE s[1] = "goto" -> {s[2]}
      [] s[1] = "break" -> {"break"}
      [] s[1] \in {"while", "repeat", "for", "in"} -> UNION {Escapes(b) : b \in Inner(s)} \ {"break"}
      [] OTHER -> UNION {Escapes(b) : b \in Inner(s)}
Labels(b) == {k \in DOMAIN b : b[k][1] = "label"}
Escapes(b) == UNION {StatEscapes(b[k]) : k \in DOMAIN b} \ {b[k][2] : k \in Labels(b)}
EntersScope(b, from, to, until) ==
    /\ \E k \in from + 1..to - 1 : b[k][1] \in {"local", "localfunction"}
    /\ until \/ \E k \in to..Len(b) : b[k][1] # "label"
RECURSIVE LegalBlock(_, _)
LegalBlock(b, until) ==
    /\ \A k, l \in Labels(b) : b[k][2] = b[l][2] => k = l
    /\ \A k \in DOMAIN b, l \in Labels(b) :
          b[l][2] \in StatEscapes(b[k]) => ~EntersScope(b, k, l, until)
    /\ \A k \in DOMAIN b : \A inner \in Inner(b[k]) : LegalBlock(inner, b[k][1] = "repeat")
    /\ \A k \in DOMAIN b : b[k][1] = "localfunction" =>
          LegalBlock(b[k][3][3], FALSE) /\ Escapes(b[k][3][3]) = {}
Legal(b) == LegalBlock(b, FALSE) /\ Escapes(b) = {}

\* What a chunk prints and returns, and whether it ends with an error.
Meaning(b, args) ==
    LET W == [World EXCEPT !.cells = <<args>>]
        X == Exec(b, 1, "..." :> 1, <<>>, W).W
    IN [out |-> X.out \o (IF X.sig = "error" THEN <<>> ELSE <<X.vals>>),
        st  |-> IF X.sig = "error" THEN "error" ELSE "done"]
=============================================================================

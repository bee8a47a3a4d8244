----------------------------- MODULE LuaParser -----------------------------
(***************************************************************************)
(* The parser (lparser.c): one recursive descent over the tokens that      *)
(* calls the code generator as it goes.  A LexState S holds the tokens     *)
(* still to be read, the FuncState of the function being compiled and the  *)
(* FuncStates around it, innermost last.  The dynamic lists of variables,  *)
(* gotos and labels that the functions of a chunk share in the code are    *)
(* kept with the function they belong to.  An error leaves nothing to be   *)
(* read.                                                                   *)
(***************************************************************************)
EXTENDS LuaCode

CONSTANTS MAXVARS,           \* local variables of a function (200)
          MAXUPVAL,          \* upvalues of a function (255)
          LUAI_MAXCCALLS     \* nested C calls, the levels of the grammar among them (200)

BinOpr == [t \in {"+", "-", "*", "//", "%", "..", "==", "~=", "<", "<=", ">", ">=", "and", "or"} |->
             CASE t = "+" -> "ADD" [] t = "-" -> "SUB" [] t = "*" -> "MUL" [] t = "//" -> "IDIV"
               [] t = "%" -> "MOD" [] t = ".." -> "CONCAT" [] t = "==" -> "EQ" [] t = "~=" -> "NE"
               [] t = "<" -> "LT" [] t = "<=" -> "LE" [] t = ">" -> "GT" [] t = ">=" -> "GE"
               [] t = "and" -> "AND" [] OTHER -> "OR"]
UnOpr == [t \in {"not", "-", "#"} |-> CASE t = "not" -> "NOT" [] t = "-" -> "UNM" [] OTHER -> "LEN"]
LeftPriority(op) ==
    CASE op \in {"ADD", "SUB"} -> 10 [] op \in {"MUL", "MOD", "IDIV"} -> 11 [] op = "CONCAT" -> 9
      [] op \in CompareOps -> 3 [] op = "AND" -> 2 [] OTHER -> 1
RightPriority(op) == IF op = "CONCAT" THEN 8 ELSE LeftPriority(op)
UNARY_PRIORITY == 12

Reserved == {"and", "break", "do", "else", "elseif", "end", "EOS", "false", "for", "function",
             "goto", "if", "in", "local", "nil", "not", "or", "repeat", "return", "then", "true",
             "until", "while"}
Symbols == {"+", "-", "*", "//", "%", "..", "==", "~=", "<", "<=", ">", ">=", "#", "=", "(", ")",
            "{", "}", "[", "]", "::", ";", ":", ",", ".", "..."}
IsName(t) == t \notin Reserved \cup Symbols \cup DOMAIN Numeral \cup DOMAIN StringToken

(***************************************************************************)
(* Tokens and errors                                                       *)
(***************************************************************************)
Token(S)   == Head(S.toks)
Skip(S)   == [S EXCEPT !.toks = IF Len(@) > 1 THEN Tail(@) ELSE @]
Do(S, F)   == [S EXCEPT !.F = F]
SyntaxError(S, m) == [S EXCEPT !.F = Fail(@, m), !.toks = <<"EOS">>]
CheckLimit(S, v, l, what) == IF v > l THEN SyntaxError(S, what) ELSE S
TestNext(S, c)  == IF Token(S) = c THEN Skip(S) ELSE S
CheckNext(S, c) == IF Token(S) = c THEN Skip(S) ELSE SyntaxError(S, "expected")
CheckName(S) == IF IsName(Token(S)) THEN S ELSE SyntaxError(S, "name expected")
EnterLevel(S) == CheckLimit([S EXCEPT !.nCcalls = @ + 1], S.nCcalls + 1, LUAI_MAXCCALLS, "C levels")
LeaveLevel(S) == [S EXCEPT !.nCcalls = @ - 1]

CodeString(F, val) == LET G == AddK(F, val) IN Put(G, Exp("VK", G.v.info))
\* checkname: the name read is the current expression.
NameExp(S) == LET C == CheckName(S) IN Do(Skip(C), CodeString(C.F, Str(Token(C))))

(***************************************************************************)
(* Variables                                                               *)
(***************************************************************************)
NewLocalVar(S, name) ==
    CheckLimit(Do(S, [S.F EXCEPT !.actvar = Append(@, name)]),
               Len(S.F.actvar) + 1, MAXVARS, "local variables")
AdjustLocalVars(S, n) == Do(S, [S.F EXCEPT !.nactvar = @ + n])
RemoveVars(F, tolevel) ==
    [F EXCEPT !.actvar = SubSeq(@, 1, Len(@) - (F.nactvar - tolevel)), !.nactvar = tolevel]

SearchUpvalue(F, n) == SelectInSeq(F.ups, LAMBDA u : u.name = n) - 1
NewUpvalue(F, n, v) ==
    LET G == IF Len(F.ups) + 1 > MAXUPVAL THEN Fail(F, "upvalues") ELSE F
    IN [G EXCEPT !.ups = Append(@, [name |-> n, instack |-> v.k = "VLOCAL", idx |-> v.info])]
SearchVar(F, n) == SelectLastInSeq(SubSeq(F.actvar, 1, F.nactvar), LAMBDA x : x = n) - 1
MarkUpval(F, level) ==
    LET b == SelectLastInSeq(F.bl, LAMBDA x : x.nactvar <= level)
    IN [F EXCEPT !.bl[b].upval = TRUE]

\* The variable n seen from the innermost of the functions fs, and what the
\* functions become: every one of them between the variable and its use gets
\* an upvalue for it.
RECURSIVE SingleVarAux(_, _, _)
SingleVarAux(fs, n, base) ==
    IF fs = <<>> THEN [fs |-> fs, var |-> Exp("VVOID", 0)]
    ELSE LET F   == Last(fs)
             v   == SearchVar(F, n)
             u   == SearchUpvalue(F, n)
             out == SingleVarAux(Front(fs), n, FALSE)
         IN CASE v >= 0 -> [fs |-> Append(Front(fs), IF base THEN F ELSE MarkUpval(F, v)),
                            var |-> Exp("VLOCAL", v)]
              [] u >= 0 -> [fs |-> fs, var |-> Exp("VUPVAL", u)]
              [] out.var.k = "VVOID" -> [fs |-> fs, var |-> out.var]
              [] OTHER -> [fs |-> Append(out.fs, NewUpvalue(F, n, out.var)),
                           var |-> Exp("VUPVAL", Len(F.ups))]
Lookup(S, n) ==
    LET R == SingleVarAux(Append(S.up, S.F), n, TRUE)
    IN [S EXCEPT !.up = Front(R.fs), !.F = Put(Last(R.fs), R.var)]
SingleVar(S) ==
    LET C == CheckName(S)
        V == Lookup(Skip(C), Token(C))
        E == Lookup(Skip(C), "_ENV")
    IN IF V.F.v.k # "VVOID" THEN V
       ELSE Do(E, Indexed(CodeString(Check(E.F, E.F.v.k # "VVOID"), Str(Token(C))), E.F.v))

hasmultret(k) == k \in {"VCALL", "VVARARG"}
\* adjust_assign; the last expression is the current one.
AdjustAssign(F, nvars, nexps) ==
    LET extra == nvars - nexps
        more  == IF extra + 1 < 0 THEN 0 ELSE extra + 1
        call  == SetReturns(F, more)
        last  == IF F.v.k = "VVOID" THEN F ELSE Exp2NextReg(F)
        G == IF hasmultret(F.v.k) THEN (IF more > 1 THEN ReserveRegs(call, more - 1) ELSE call)
             ELSE IF extra > 0 THEN CodeNil(ReserveRegs(last, extra), last.freereg, extra)
             ELSE last
    IN IF nexps > nvars THEN [G EXCEPT !.freereg = @ - (nexps - nvars)] ELSE G

(***************************************************************************)
(* Blocks, labels and gotos                                                *)
(***************************************************************************)
EnterBlock(F, isloop) ==
    Check([F EXCEPT !.bl = Append(@, [isloop |-> isloop, nactvar |-> F.nactvar, upval |-> FALSE,
                                      firstlabel |-> Len(F.label), firstgoto |-> Len(F.gt)])],
          F.freereg = F.nactvar)
LabelEntry(F, name, at) == [name |-> name, nactvar |-> F.nactvar, pc |-> at]

CloseGoto(F, g, lb) ==
    LET G == IF F.gt[g].nactvar < lb.nactvar THEN Fail(F, "jumps into the scope of a local") ELSE F
    IN [PatchList(G, F.gt[g].pc, lb.pc) EXCEPT !.gt = RemoveAt(@, g)]
\* The labels of the current block that goto g could be for.
Matching(F, g) == {l \in Last(F.bl).firstlabel + 1..Len(F.label) : F.label[l].name = F.gt[g].name}
FindLabel(F, g) ==
    LET lb == F.label[CHOOSE l \in Matching(F, g) : \A m \in Matching(F, g) : l <= m]
        closes == /\ F.gt[g].nactvar > lb.nactvar
                  /\ Last(F.bl).upval \/ Len(F.label) > Last(F.bl).firstlabel
    IN IF Matching(F, g) = {} THEN F
       ELSE CloseGoto(IF closes THEN PatchClose(F, F.gt[g].pc, lb.nactvar) ELSE F, g, lb)
RECURSIVE FindGotos(_, _, _)
FindGotos(F, lb, g) ==
    IF g > Len(F.gt) THEN F
    ELSE IF F.gt[g].name = lb.name THEN FindGotos(CloseGoto(F, g, lb), lb, g)
    ELSE FindGotos(F, lb, g + 1)
RECURSIVE MoveGotosOut(_, _, _)
MoveGotosOut(F, bl, g) ==
    IF g > Len(F.gt) THEN F
    ELSE LET G == IF F.gt[g].nactvar <= bl.nactvar THEN F
                  ELSE [IF bl.upval THEN PatchClose(F, F.gt[g].pc, bl.nactvar) ELSE F
                        EXCEPT !.gt[g].nactvar = bl.nactvar]
         IN IF Matching(G, g) = {} THEN MoveGotosOut(G, bl, g + 1)
            ELSE MoveGotosOut(FindLabel(G, g), bl, g)
BreakLabel(F) ==
    LET lb == LabelEntry(F, "break", pc(F))
    IN FindGotos([F EXCEPT !.label = Append(@, lb)], lb, Last(F.bl).firstgoto + 1)

LeaveBlock(F) ==
    LET bl    == Last(F.bl)
        inner == Len(F.bl) > 1
        J     == Jump(F)
        G     == IF inner /\ bl.upval THEN PatchToHere(PatchClose(J, Top(J), bl.nactvar), Top(J)) ELSE F
        H     == IF bl.isloop THEN BreakLabel(G) ELSE G
        L     == [RemoveVars(H, bl.nactvar) EXCEPT !.bl = Front(@), !.freereg = bl.nactvar,
                                                   !.label = SubSeq(@, 1, bl.firstlabel)]
    IN IF inner THEN MoveGotosOut(L, bl, bl.firstgoto + 1)
       ELSE IF bl.firstgoto < Len(L.gt) THEN Fail(L, "no visible label") ELSE L

(***************************************************************************)
(* Functions                                                               *)
(***************************************************************************)
Proto(F) == [code |-> F.code, k |-> F.k, p |-> F.p, ups |-> F.ups, numparams |-> F.numparams,
             vararg |-> F.vararg, maxstack |-> F.maxstack]
OpenFunc(S) ==
    [S EXCEPT !.up = Append(@, S.F),
              !.F = EnterBlock([NewFuncState EXCEPT !.h = S.F.h, !.ok = S.F.ok, !.err = S.F.err], FALSE)]
CloseFunc(F) == LET G == LeaveBlock(Ret(F, 0, 0)) IN Check(G, G.bl = <<>>)
\* codeclosure, and the end of body: back in the enclosing function.
CodeClosure(S) ==
    LET F == CloseFunc(S.F)
        O == [Last(S.up) EXCEPT !.p = Append(@, Proto(F)), !.h = F.h, !.ok = F.ok, !.err = F.err]
        C == CodeABC(O, "CLOSURE", 0, Len(O.p) - 1, 0)
    IN [S EXCEPT !.up = Front(@), !.F = Exp2NextReg(Put(C, Exp("VRELOCABLE", Top(C))))]

RECURSIVE Params(_)
Params(S) ==
    IF Token(S) = "..." THEN Do(Skip(S), [S.F EXCEPT !.vararg = TRUE])
    ELSE LET P == Skip(NewLocalVar(CheckName(S), Token(S)))
         IN IF Token(P) = "," THEN Params(Skip(P)) ELSE P
ParList(S) ==
    LET P == IF Token(S) = ")" THEN S ELSE Params(S)
        A == AdjustLocalVars(P, Len(P.F.actvar) - P.F.nactvar)
    IN Do(A, ReserveRegs([A.F EXCEPT !.numparams = A.F.nactvar], A.F.nactvar))

RECURSIVE StatList(_)
RECURSIVE SubExpr(_, _)
Body(S, ismethod) ==
    LET O == CheckNext(OpenFunc(S), "(")
        M == IF ismethod THEN AdjustLocalVars(NewLocalVar(O, "self"), 1) ELSE O
        B == StatList(CheckNext(ParList(M), ")"))
    IN CodeClosure(CheckNext(B, "end"))

(***************************************************************************)
(* Expressions                                                             *)
(***************************************************************************)
Expr(S) == SubExpr(S, 0)
RECURSIVE ExpListFrom(_, _)
ExpListFrom(S, n) ==
    LET E == Expr(S)
    IN IF Token(E) = "," THEN ExpListFrom(Do(Skip(E), Exp2NextReg(E.F)), n + 1)
       ELSE [S |-> E, n |-> n]
ExpList(S) == ExpListFrom(S, 1)

YIndex(S) == LET E == Expr(Skip(S)) IN CheckNext(Do(E, Exp2Val(E.F)), "]")
FieldSel(S) ==
    LET G == Exp2AnyRegUp(S.F)
        N == NameExp(Skip(Do(S, G)))
    IN Do(N, Indexed(N.F, G.v))

\* Table constructors: cc counts the fields, t is the table's register.
RecField(S, cc) ==
    LET K == CheckNext(IF IsName(Token(S)) THEN NameExp(S) ELSE YIndex(S), "=")
        R == Exp2RK(K.F)
        E == Expr(Do(K, R))
        V == Exp2RK(E.F)
    IN [S |-> Do(E, [CodeABC(V, "SETTABLE", cc.t, RK(R.v), RK(V.v)) EXCEPT !.freereg = S.F.freereg]),
        cc |-> [cc EXCEPT !.nh = @ + 1]]
CloseListField(S, cc) ==
    IF cc.v.k = "VVOID" THEN [S |-> S, cc |-> cc]
    ELSE LET G == Exp2NextReg(Put(S.F, cc.v))
             c == [cc EXCEPT !.v.k = "VVOID"]
         IN IF cc.tostore = LFIELDS_PER_FLUSH
            THEN [S |-> Do(S, SetList(G, cc.t, cc.na, cc.tostore)), cc |-> [c EXCEPT !.tostore = 0]]
            ELSE [S |-> Do(S, G), cc |-> c]
LastListField(F, cc) ==
    LET G == Put(F, cc.v)
    IN CASE cc.tostore = 0 -> F
         [] cc.tostore # 0 /\ hasmultret(cc.v.k) ->
              SetList(SetReturns(G, MULTRET), cc.t, cc.na, MULTRET)
         [] OTHER -> SetList(IF cc.v.k = "VVOID" THEN G ELSE Exp2NextReg(G), cc.t, cc.na, cc.tostore)
ListField(S, cc) ==
    LET E == Expr(S)
    IN [S |-> E, cc |-> [cc EXCEPT !.v = E.F.v, !.na = @ + 1, !.tostore = @ + 1]]
LookAhead(S) == IF Len(S.toks) > 1 THEN S.toks[2] ELSE "EOS"
Field(S, cc) == IF Token(S) = "[" \/ (IsName(Token(S)) /\ LookAhead(S) = "=") THEN RecField(S, cc)
                ELSE ListField(S, cc)
RECURSIVE Fields(_)
Fields(R) ==
    LET C == CloseListField(R.S, R.cc)
        N == Field(C.S, C.cc)
    IN IF Token(R.S) = "}" THEN R
       ELSE IF Token(N.S) \in {",", ";"} THEN Fields([N EXCEPT !.S = Skip(@)]) ELSE N
Constructor(S) ==
    LET G == CodeABC(S.F, "NEWTABLE", 0, 0, 0)
        T == Exp2NextReg(Put(G, Exp("VRELOCABLE", Top(G))))
        R == Fields([S |-> CheckNext(Do(S, T), "{"),
                     cc |-> [v |-> Exp("VVOID", 0), t |-> T.v.info, nh |-> 0, na |-> 0, tostore |-> 0]])
        E == CheckNext(R.S, "}")
        L == LastListField(E.F, R.cc)
        na == IF hasmultret(R.cc.v.k) THEN R.cc.na - 1 ELSE R.cc.na
    IN Do(E, Put([L EXCEPT !.code[Top(G) + 1].B = na, !.code[Top(G) + 1].C = R.cc.nh], T.v))

FuncArgs(S) ==
    LET f == S.F.v
        L == ExpList(Skip(S)).S
        A == CASE Token(S) = "(" /\ LookAhead(S) = ")" ->
                    Skip(Do(Skip(S), Put(S.F, Exp("VVOID", 0))))
               [] Token(S) = "(" /\ LookAhead(S) # ")" ->
                    CheckNext(IF hasmultret(L.F.v.k) THEN Do(L, SetReturns(L.F, MULTRET)) ELSE L, ")")
               [] Token(S) = "{" -> Constructor(S)
               [] Token(S) \in DOMAIN StringToken ->
                    Skip(Do(S, CodeString(S.F, StringToken[Token(S)])))
               [] OTHER -> SyntaxError(S, "function arguments expected")
        open == hasmultret(A.F.v.k)
        G == IF open \/ A.F.v.k = "VVOID" THEN A.F ELSE Exp2NextReg(A.F)
        C == CodeABC(Check(G, f.k = "VNONRELOC"), "CALL", f.info,
                     IF open THEN 0 ELSE G.freereg - f.info, 2)
    IN Do(A, [Put(C, Exp("VCALL", Top(C))) EXCEPT !.freereg = f.info + 1])

PrimaryExp(S) ==
    CASE Token(S) = "(" -> LET E == CheckNext(Expr(Skip(S)), ")") IN Do(E, DischargeVars(E.F))
      [] IsName(Token(S)) -> SingleVar(S)
      [] OTHER -> SyntaxError(S, "unexpected symbol")
RECURSIVE SuffixLoop(_)
SuffixLoop(S) ==
    CASE Token(S) = "." -> SuffixLoop(FieldSel(S))
      [] Token(S) = "[" ->
           LET G == Exp2AnyRegUp(S.F)
               K == YIndex(Do(S, G))
           IN SuffixLoop(Do(K, Indexed(K.F, G.v)))
      [] Token(S) = ":" ->
           LET K == NameExp(Skip(S))
           IN SuffixLoop(FuncArgs(Do(K, Self(Put(K.F, S.F.v), K.F.v))))
      [] Token(S) \in {"(", "{"} \cup DOMAIN StringToken ->
           SuffixLoop(FuncArgs(Do(S, Exp2NextReg(S.F))))
      [] OTHER -> S
SuffixedExp(S) == SuffixLoop(PrimaryExp(S))

VarArg(S) ==
    LET V == IF S.F.vararg THEN S ELSE SyntaxError(S, "cannot use '...' outside a vararg function")
        C == CodeABC(V.F, "VARARG", 0, 1, 0)
    IN Skip(Do(V, Put(C, Exp("VVARARG", Top(C)))))
SimpleExp(S) ==
    LET t == Token(S) IN
    CASE t \in DOMAIN Numeral -> Skip(Do(S, Put(S.F, NumExp(Numeral[t]))))
      [] t \in DOMAIN StringToken -> Skip(Do(S, CodeString(S.F, StringToken[t])))
      [] t = "nil"   -> Skip(Do(S, Put(S.F, Exp("VNIL", 0))))
      [] t = "true"  -> Skip(Do(S, Put(S.F, Exp("VTRUE", 0))))
      [] t = "false" -> Skip(Do(S, Put(S.F, Exp("VFALSE", 0))))
      [] t = "..."   -> VarArg(S)
      [] t = "{"     -> Constructor(S)
      [] t = "function" -> Body(Skip(S), FALSE)
      [] OTHER -> SuffixedExp(S)

RECURSIVE BinaryTail(_, _)
BinaryTail(S, limit) ==
    IF Token(S) \notin DOMAIN BinOpr \/ LeftPriority(BinOpr[Token(S)]) <= limit THEN S
    ELSE LET op == BinOpr[Token(S)]
             L  == Infix(S.F, op)
             R  == SubExpr(Skip(Do(S, L)), RightPriority(op))
         IN BinaryTail(Do(R, PosFix(R.F, op, L.v)), limit)
SubExpr(S, limit) ==
    LET E == EnterLevel(S)
        U == SubExpr(Skip(E), UNARY_PRIORITY)
        X == IF Token(E) \in DOMAIN UnOpr THEN Do(U, Prefix(U.F, UnOpr[Token(E)])) ELSE SimpleExp(E)
    IN LeaveLevel(BinaryTail(X, limit))

(***************************************************************************)
(* Statements                                                              *)
(***************************************************************************)
RECURSIVE Statement(_)
Block(S) == LET B == StatList(Do(S, EnterBlock(S.F, FALSE))) IN Do(B, LeaveBlock(B.F))
BlockFollow(S, withuntil) == Token(S) \in {"else", "elseif", "end", "EOS"} \cup
                                          (IF withuntil THEN {"until"} ELSE {})
StatList(S) == IF BlockFollow(S, TRUE) THEN S
               ELSE IF Token(S) = "return" THEN Statement(S)
               ELSE StatList(Statement(S))

\* check_conflict, for one of the previous targets: it must use a safe copy
\* of the local or upvalue v that is assigned now, if it needs its value.
\* Fault: only the table of a previous target is looked at, not its key.
Conflicts_faulty(var, v) == var.k = "VINDEXED" /\ var.vt = v.k /\ var.tab = v.info
Conflicts(var, v) == /\ var.k = "VINDEXED"
                     /\ \/ var.vt = v.k /\ var.tab = v.info
                        \/ v.k = "VLOCAL" /\ var.idx = v.info
SafeCopy(var, v, extra) ==
    LET T == IF var.vt = v.k /\ var.tab = v.info THEN [var EXCEPT !.vt = "VLOCAL", !.tab = extra] ELSE var
    IN IF v.k = "VLOCAL" /\ T.idx = v.info THEN [T EXCEPT !.idx = extra] ELSE T
CheckConflict(F, lhs) ==
    LET hit == {i \in DOMAIN lhs : Conflicts(lhs[i], F.v)}
        op  == IF F.v.k = "VLOCAL" THEN "MOVE" ELSE "GETUPVAL"
    IN [F |-> IF hit = {} THEN F
              ELSE ReserveRegs(CodeABC(F, op, F.freereg, F.v.info, 0), 1),
        lhs |-> [i \in DOMAIN lhs |-> IF i \in hit THEN SafeCopy(lhs[i], F.v, F.freereg) ELSE lhs[i]]]

IsVar(S) == IF S.F.v.k \in {"VLOCAL", "VUPVAL", "VINDEXED"} THEN S ELSE SyntaxError(S, "syntax error")
RECURSIVE Targets(_, _)
Targets(S, lhs) ==
    IF Token(S) # "," THEN [S |-> IsVar(S), lhs |-> Append(lhs, S.F.v)]
    ELSE LET all == Append(lhs, IsVar(S).F.v)
             N == SuffixedExp(Skip(IsVar(S)))
             C == IF N.F.v.k = "VINDEXED" THEN [F |-> N.F, lhs |-> all] ELSE CheckConflict(N.F, all)
         IN Targets(CheckLimit(Do(N, C.F), Len(all) + N.nCcalls, LUAI_MAXCCALLS, "C levels"), C.lhs)
Assignment(S) ==
    LET T == Targets(S, <<>>)
        E == ExpList(CheckNext(T.S, "="))
        nvars == Len(T.lhs)
        even  == E.n = nvars
        G == IF even THEN StoreVar(SetOneRet(E.S.F), Last(T.lhs))
             ELSE AdjustAssign(E.S.F, nvars, E.n)
    IN Do(E.S, FoldRight(LAMBDA var, H : StoreVar(Put(H, Exp("VNONRELOC", H.freereg - 1)), var),
                         IF even THEN Front(T.lhs) ELSE T.lhs, G))
ExprStat(S) ==
    LET X == SuffixedExp(S)
    IN IF Token(X) \in {"=", ","} THEN Assignment(X)
       ELSE IF X.F.v.k = "VCALL" THEN Do(X, [X.F EXCEPT !.code[X.F.v.info + 1].C = 1])
       ELSE SyntaxError(X, "syntax error")

\* cond: the list of jumps taken when the condition is false is v.f.
Cond(S) ==
    LET E == Expr(S)
    IN Do(E, GoIfTrue(IF E.F.v.k = "VNIL" THEN [E.F EXCEPT !.v.k = "VFALSE"] ELSE E.F))

GotoStat(S, at) ==
    LET C == IF Token(S) = "goto" THEN CheckName(Skip(S)) ELSE S
        g == LabelEntry(S.F, Token(C), at)
        F == [C.F EXCEPT !.gt = Append(@, g)]
    IN Do(Skip(C), FindLabel(F, Len(F.gt)))
RECURSIVE SkipNoOpStat(_)
SkipNoOpStat(S) == IF Token(S) \in {";", "::"} THEN SkipNoOpStat(Statement(S)) ELSE S
LabelStat(S) ==
    LET C == CheckName(S)
        name == Token(C)
        known == \E l \in Last(S.F.bl).firstlabel + 1..Len(S.F.label) : S.F.label[l].name = name
        D == CheckNext(Skip(IF known THEN SyntaxError(C, "label already defined") ELSE C), "::")
        G == GetLabel(D.F)
        K == SkipNoOpStat(Do(D, [G EXCEPT !.label = Append(@, LabelEntry(G, name, pc(G)))]))
        l == Len(G.label) + 1
        F == IF BlockFollow(K, FALSE) THEN [K.F EXCEPT !.label[l].nactvar = Last(K.F.bl).nactvar]
             ELSE K.F
    IN Do(K, FindGotos(F, F.label[l], Last(F.bl).firstgoto + 1))

JumpTo(F, target) == LET J == Jump(F) IN PatchList(J, Top(J), target)
WhileStat(S) ==
    LET init == pc(S.F)
        C == Cond(Skip(Do(S, GetLabel(S.F))))
        B == Block(TestNext(Do(C, EnterBlock(C.F, TRUE)), "do"))
        E == CheckNext(Do(B, JumpTo(B.F, init)), "end")
    IN Do(E, PatchToHere(LeaveBlock(E.F), C.F.v.f))
RepeatStat(S) ==
    LET init == pc(S.F)
        B == StatList(Skip(Do(S, EnterBlock(EnterBlock(GetLabel(S.F), TRUE), FALSE))))
        C == Cond(CheckNext(B, "until"))
        bl2 == Last(C.F.bl)
        F == LeaveBlock(IF bl2.upval THEN PatchClose(C.F, C.F.v.f, bl2.nactvar) ELSE C.F)
    IN Do(C, LeaveBlock(PatchList(F, C.F.v.f, init)))

Exp1(S) == LET E == Expr(S) IN Do(E, Exp2NextReg(E.F))
ForBody(S, base, nvars, isnum) ==
    LET A == TestNext(AdjustLocalVars(S, 3), "do")
        P == IF isnum THEN CodeABC(A.F, "FORPREP", base, NO_JUMP, 0) ELSE Jump(A.F)
        V == AdjustLocalVars(Do(A, EnterBlock(P, FALSE)), nvars)
        B == Block(Do(V, ReserveRegs(V.F, nvars)))
        F == PatchToHere(LeaveBlock(B.F), Top(P))
        L == IF isnum THEN CodeABC(F, "FORLOOP", base, NO_JUMP, 0)
             ELSE CodeABC(CodeABC(F, "TFORCALL", base, 0, nvars), "TFORLOOP", base + 2, NO_JUMP, 0)
    IN Do(B, PatchList(L, Top(L), Top(P) + 1))
Declare(S, names) == FoldLeft(NewLocalVar, S, names)
ForNum(S, var) ==
    LET base == S.F.freereg
        I1 == Exp1(CheckNext(Declare(S, <<"(for index)", "(for limit)", "(for step)", var>>), "="))
        L == Exp1(CheckNext(I1, ","))
        K == AddK(L.F, Ival(1))
        D == IF Token(L) = "," THEN Exp1(Skip(L))
             ELSE Do(L, ReserveRegs(CodeK(K, K.freereg, K.v.info), 1))
    IN ForBody(D, base, 1, TRUE)
RECURSIVE MoreNames(_)
MoreNames(S) == IF Token(S) = "," THEN LET C == CheckName(Skip(S)) IN MoreNames(Skip(NewLocalVar(C, Token(C))))
                ELSE S
ForList(S, var) ==
    LET base == S.F.freereg
        N == MoreNames(Declare(S, <<"(for generator)", "(for state)", "(for control)", var>>))
        E == ExpList(CheckNext(N, "in"))
    IN ForBody(Do(E.S, CheckStack(AdjustAssign(E.S.F, 3, E.n), 3)), base,
               Len(N.F.actvar) - Len(S.F.actvar) - 3, FALSE)
ForStat(S) ==
    LET C == CheckName(Skip(Do(S, EnterBlock(S.F, TRUE))))
        N == Skip(C)
        B == CASE Token(N) = "=" -> ForNum(N, Token(C))
               [] Token(N) \in {",", "in"} -> ForList(N, Token(C))
               [] OTHER -> SyntaxError(N, "'=' or 'in' expected")
        E == CheckNext(B, "end")
    IN Do(E, LeaveBlock(E.F))

\* test_then_block; esc is the list of the jumps to the end of the if.
TestThenBlock(S, esc) ==
    LET C == TestNext(Expr(Skip(S)), "then")
        jumps == Token(C) \in {"goto", "break"}
        T == IF jumps THEN GoIfFalse(C.F) ELSE GoIfTrue(C.F)
        B == Do(C, EnterBlock(T, FALSE))
        N == SkipNoOpStat(GotoStat(B, T.v.t))
        J == Jump(N.F)
        jf == IF jumps THEN Top(J) ELSE T.v.f
        L == StatList(IF jumps THEN Do(N, J) ELSE B)
        F == LeaveBlock(L.F)
        O == Jump(F)
        more == Token(L) \in {"else", "elseif"}
    IN IF jumps /\ BlockFollow(N, FALSE) THEN [S |-> Do(N, LeaveBlock(N.F)), esc |-> esc]
       ELSE [S   |-> Do(L, PatchToHere(IF more THEN Concat(O, esc, Top(O)) ELSE F, jf)),
             esc |-> IF more THEN Head1(esc, Top(O)) ELSE esc]
RECURSIVE ElseIfs(_)
ElseIfs(R) == IF Token(R.S) = "elseif" THEN ElseIfs(TestThenBlock(R.S, R.esc)) ELSE R
IfStat(S) ==
    LET R == ElseIfs(TestThenBlock(S, NO_JUMP))
        E == CheckNext(IF Token(R.S) = "else" THEN Block(Skip(R.S)) ELSE R.S, "end")
    IN Do(E, PatchToHere(E.F, R.esc))

LocalFunc(S) == Body(AdjustLocalVars(Skip(NewLocalVar(CheckName(S), Token(S))), 1), FALSE)
LocalStat(S) ==
    LET N == MoreNames(Skip(NewLocalVar(CheckName(S), Token(S))))
        nvars == Len(N.F.actvar) - N.F.nactvar
        E == IF Token(N) = "=" THEN ExpList(Skip(N))
             ELSE [S |-> Do(N, Put(N.F, Exp("VVOID", 0))), n |-> 0]
    IN AdjustLocalVars(Do(E.S, AdjustAssign(E.S.F, nvars, E.n)), nvars)

RECURSIVE FieldSels(_)
FieldSels(S) == IF Token(S) = "." THEN FieldSels(FieldSel(S)) ELSE S
FuncStat(S) ==
    LET V == FieldSels(SingleVar(Skip(S)))
        ismethod == Token(V) = ":"
        M == IF ismethod THEN FieldSel(V) ELSE V
        B == Body(M, ismethod)
    IN Do(B, StoreVar(B.F, M.F.v))

RetStat(S) ==
    LET E == ExpList(S)
        F == E.S.F
        M == SetReturns(F, MULTRET)
        tail == F.v.k = "VCALL" /\ E.n = 1
        T == IF tail THEN Check([M EXCEPT !.code[F.v.info + 1].op = "TAILCALL"],
                                InstrOf(F).A = F.nactvar) ELSE M
        one  == Exp2AnyReg(F)
        many == Exp2NextReg(F)
        R == CASE BlockFollow(S, TRUE) \/ Token(S) = ";" -> Do(S, Ret(S.F, 0, 0))
               [] OTHER -> Do(E.S, IF hasmultret(F.v.k) THEN Ret(T, F.nactvar, MULTRET)
                                   ELSE IF E.n = 1 THEN Ret(one, one.v.info, 1)
                                   ELSE Ret(Check(many, E.n = many.freereg - many.nactvar),
                                            many.nactvar, E.n))
    IN TestNext(R, ";")

Statement(S) ==
    LET E == EnterLevel(S)
        t == Token(E)
        N == Skip(E)
        D == CASE t = ";" -> N
               [] t = "if" -> IfStat(E)
               [] t = "while" -> WhileStat(E)
               [] t = "do" -> CheckNext(Block(N), "end")
               [] t = "for" -> ForStat(E)
               [] t = "repeat" -> RepeatStat(E)
               [] t = "function" -> FuncStat(E)
               [] t = "local" -> IF Token(N) = "function" THEN LocalFunc(Skip(N)) ELSE LocalStat(N)
               [] t = "::" -> LabelStat(N)
               [] t = "return" -> RetStat(N)
               [] t \in {"break", "goto"} -> LET J == Jump(E.F) IN GotoStat(Do(E, J), Top(J))
               [] OTHER -> ExprStat(E)
    IN LeaveLevel(Do(D, [Check(D.F, D.F.maxstack >= D.F.freereg /\ D.F.freereg >= D.F.nactvar)
                         EXCEPT !.freereg = D.F.nactvar]))

\* luaY_parser: the FuncState of the main function once everything is read.
MainFunc(toks) ==
    LET F == NewUpvalue([EnterBlock(NewFuncState, FALSE) EXCEPT !.vararg = TRUE], "_ENV", Exp("VLOCAL", 0))
        B == StatList([toks |-> Append(toks, "EOS"), F |-> F, up |-> <<>>, nCcalls |-> 0])
        E == IF Token(B) = "EOS" THEN B ELSE SyntaxError(B, "<eof> expected")
        C == CloseFunc(E.F)
    IN IF E.F.err # "" THEN E.F ELSE Check(C, C.actvar = <<>> /\ C.gt = <<>> /\ C.label = <<>>)
=============================================================================

------------------------------ MODULE LuaDump ------------------------------
(***************************************************************************)
(* Precompiled chunks: ldump.c writes a function as a sequence of units (a *)
(* byte, an int, a character...), lundump.c reads it from an input that may*)
(* end anywhere.  A string is a sequence of characters, or NULL.           *)
(***************************************************************************)
EXTENDS Integers, Sequences, SequencesExt

CONSTANTS Header,            \* the units of the header after the signature
          LongSize           \* 0xFF: from this size on a string has its size in a unit of its own

NULL == <<-1>>

(* ldump.c                                                                 *)
DumpString(s) == IF s = NULL THEN <<0>>
                 ELSE LET size == Len(s) + 1 IN (IF size < LongSize THEN <<size>> ELSE <<LongSize, size>>) \o s
Vector(v) == <<Len(v)>> \o v
\* The units of a vector of things, each of which has its own.
Counted(units) == <<Len(units)>> \o FlattenSeq(units)
LUA_TSTRING == 4
DumpConstant(o) == <<o.t>> \o (IF o.t = LUA_TSTRING THEN DumpString(o.v) ELSE o.v)
DumpConstants(f) == Counted([n \in DOMAIN f.k |-> DumpConstant(f.k[n])])
DumpUpvalues(f)  == Counted([n \in DOMAIN f.upvalues |-> <<f.upvalues[n].instack, f.upvalues[n].idx>>])
DumpDebug(f, strip) ==
    IF strip THEN <<0, 0, 0>>
    ELSE Vector(f.lineinfo)
         \o Counted([n \in DOMAIN f.locvars |-> DumpString(f.locvars[n].varname) \o <<f.locvars[n].startpc, f.locvars[n].endpc>>])
         \o Counted([n \in DOMAIN f.upvalues |-> DumpString(f.upvalues[n].name)])
\* "no debug info or same source as its parent"
DumpSource(f, psource, strip) == IF strip \/ f.source = psource THEN DumpString(NULL) ELSE DumpString(f.source)
RECURSIVE DumpFunction(_, _, _)
DumpProtos(f, strip) == Counted([n \in DOMAIN f.p |-> DumpFunction(f.p[n], f.source, strip)])
DumpFunction(f, psource, strip) ==
    DumpSource(f, psource, strip) \o <<f.linedefined, f.lastlinedefined, f.numparams, f.is_vararg, f.maxstacksize>>
      \o Vector(f.code) \o DumpConstants(f) \o DumpUpvalues(f) \o DumpProtos(f, strip) \o DumpDebug(f, strip)
luaU_dump(f, strip) == Header \o <<Len(f.upvalues)>> \o DumpFunction(f, NULL, strip)

----------------------------------------------------------------------------
(* lundump.c.  S is [in, err, v]: the input, an error, and what was read   *)
(* last (0 after an error).                                                *)
LoadBlock(S, n) ==
    IF S.err # "" THEN [S EXCEPT !.v = <<>>]
    ELSE IF n > Len(S.in) THEN [in |-> <<>>, err |-> "truncated", v |-> <<>>]
    ELSE [S EXCEPT !.v = SubSeq(S.in, 1, n), !.in = SubSeq(S.in, n + 1, Len(S.in))]
LoadUnit(S) == LET T == LoadBlock(S, 1) IN [T EXCEPT !.v = IF T.err # "" THEN 0 ELSE @[1]]
LoadVector(S) == LET n == LoadUnit(S) IN LoadBlock(n, n.v)
LoadSize(S) == LET b == LoadUnit(S) IN IF b.v = LongSize THEN LoadUnit(b) ELSE b
LoadString(S) == LET size == LoadSize(S) IN
                 IF size.v = 0 THEN [size EXCEPT !.v = NULL] ELSE LoadBlock(size, size.v - 1)

\* n things of a kind, one after the other.
RECURSIVE LoadOne(_, _, _)
LoadMany(S, n, kind, psource) ==
    FoldLeft(LAMBDA A, i : LET T == LoadOne(A, kind, psource) IN [T EXCEPT !.v = Append(A.v, @)], [S EXCEPT !.v = <<>>], [i \in 1..n |-> i])
LoadCounted(S, kind, psource) == LET n == LoadUnit(S) IN LoadMany(n, n.v, kind, psource)

LoadConstant(S) ==
    LET t == LoadUnit(S)
        o == IF t.v = LUA_TSTRING THEN LoadString(t) ELSE LoadBlock(t, IF t.v = 0 THEN 0 ELSE 1)
    IN [o EXCEPT !.v = [t |-> t.v, v |-> @]]
LoadLocVar(S) == LET name == LoadString(S) pcs == LoadBlock(name, 2) IN
                 [pcs EXCEPT !.v = [varname |-> name.v, startpc |-> Head(@ \o <<0>>), endpc |-> Last(<<0>> \o @)]]
LoadFunction(S, psource) ==
    LET source == LoadString(S)
        own    == IF source.v = NULL THEN psource ELSE source.v
        ints   == LoadBlock(source, 5)
        code   == LoadVector(ints)
        k      == LoadCounted(code, "constant", own)
        ups    == LoadCounted(k, "upvalue", own)
        protos == LoadCounted(ups, "function", own)
        lines  == LoadVector(protos)
        locs   == LoadCounted(lines, "locvar", own)
        names  == LoadCounted(locs, "name", own)
        Name(n) == IF n <= Len(names.v) THEN names.v[n] ELSE NULL
    IN IF names.err # "" THEN names
       ELSE [names EXCEPT !.v =
                [source |-> own, linedefined |-> ints.v[1], lastlinedefined |-> ints.v[2], numparams |-> ints.v[3],
                 is_vararg |-> ints.v[4], maxstacksize |-> ints.v[5], code |-> code.v, k |-> k.v, p |-> protos.v,
                 upvalues |-> [n \in DOMAIN ups.v |-> [name |-> Name(n), instack |-> ups.v[n][1], idx |-> ups.v[n][2]]],
                 lineinfo |-> lines.v, locvars |-> locs.v]]
LoadOne(S, kind, psource) ==
    CASE kind = "constant" -> LoadConstant(S)
      [] kind = "upvalue"  -> LoadBlock(S, 2)
      [] kind = "function" -> LoadFunction(S, psource)
      [] kind = "locvar"   -> LoadLocVar(S)
      [] kind = "name"     -> LoadString(S)
\* Each unit of the header is checked when it has been read.
CheckHeader(S) ==
    LET h == LoadBlock(S, Len(Header))
        n == IF Len(S.in) < Len(Header) THEN Len(S.in) ELSE Len(Header)
    IN IF \E m \in 1..n : S.in[m] # Header[m] THEN [h EXCEPT !.err = "mismatch"] ELSE h
luaU_undump(in) ==
    LET h == CheckHeader([in |-> in, err |-> "", v |-> <<>>])
        n == LoadUnit(h)
        f == LoadFunction(n, NULL)
    IN [f |-> f, nupvalues |-> n.v]

----------------------------------------------------------------------------
\* What is left of a function without its debug information.
RECURSIVE Stripped(_)
Stripped(f) == [f EXCEPT !.source = NULL, !.lineinfo = <<>>, !.locvars = <<>>,
                         !.upvalues = [n \in DOMAIN @ |-> [@[n] EXCEPT !.name = NULL]],
                         !.p = [n \in DOMAIN @ |-> Stripped(@[n])]]
\* A function that is dumped and loaded is the same function, though its
\* sources are written once and long strings in another way, or the same
\* without its debug information, and nothing is left unread; a chunk that
\* ends too early, wherever it is cut, or has another header is refused.
\* A call: [f, strip, cut, at], cut being how many units are missing, and at
\* the unit of the header that is another one, or 0.
ChunkResult(c) ==
    LET d == luaU_dump(c.f, c.strip) in == SubSeq(d, 1, Len(d) - c.cut)
    IN luaU_undump(IF c.at = 0 THEN in ELSE [in EXCEPT ![c.at] = @ + 1])
ChunkAgrees(c, r) ==
    /\ c.cut = 0 /\ c.at = 0 =>
          /\ r.f = [in |-> <<>>, err |-> "", v |-> IF c.strip THEN Stripped(c.f) ELSE c.f]
          /\ r.nupvalues = Len(c.f.upvalues)
    /\ c.cut # 0 => r.f.err = "truncated"
    /\ c.at # 0 => r.f.err = "mismatch"
=============================================================================

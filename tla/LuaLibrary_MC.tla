--------------------------- MODULE LuaLibrary_MC ---------------------------
(***************************************************************************)
(* The calls of LuaLibrary, one in each behaviour, in a small world.       *)
(***************************************************************************)
EXTENDS Integers

CONSTANTS MAXINTEGER, INT_MAX, MAXSIZE, TableMax, BITS, NBM, Infinity, LUA_NBITS, LoopSteps, Bytes, Codes,
          Code, Letters, Digits, MAXCCALLS, LUA_MAXCAPTURES, Alphabets, Reserved, Byte1, SZINT, SZFLOAT, MAXINTSIZE, MAXALIGN, Header, LongSize,
          Answered                    \* the calls of LuaLibrary, by what they call, with what came of them

VARIABLE call                         \* one of them

L == INSTANCE LuaLibrary
T == INSTANCE LuaTabLib WITH MAXINTEGER <- TableMax
N == INSTANCE LuaNumber
X == INSTANCE LuaLex
K == INSTANCE LuaPack
P == INSTANCE LuaPattern
D == INSTANCE LuaDump
Code1   == [c \in {"NUL", "1", "a", "b"} |-> CASE c = "NUL" -> 0 [] c = "1" -> 1 [] c = "a" -> 2 [] c = "b" -> 3]
Header1 == <<83, 0, 25>>
Alphabets1 == {[words |-> {<<c>> : c \in {91, 93, 61, 45, 10}}, len |-> 4],
               [words |-> {<<46>>, <<49>>, <<97>>, <<32>>, <<226, 132, 150>>}, len |-> 4],
               [words |-> {<<c>> : c \in {60, 61, 62, 47, 126, 33, 58, 43}}, len |-> 3],
               [words |-> {<<208, 184>>, <<100, 111>>, <<100>>, <<9>>, <<10>>, <<13>>}, len |-> 3]}
Reserved1  == [w \in {<<100, 111>>, <<208, 184>>} |-> IF w = <<100, 111>> THEN 3 ELSE 1]     \* do, and
NoCall  == [asked |-> [nothing |-> 0], right |-> TRUE]

\* Every call, with whether the answer is what it should be.
Answered1 ==
    LET Asked == {{[table |-> c] : c \in T!TableCalls}, {[number |-> c] : c \in N!NumberCalls}, {[text |-> c] : c \in X!TextCalls},
                  {[lex |-> c] : c \in X!LexCalls}, {[pack |-> c] : c \in K!PackCalls},
                  {[pattern |-> c] : c \in L!PatternCalls}, {[chunk |-> c] : c \in L!Chunks}}
        Right(q, part) ==
            CASE part = "table"   -> T!TableAgrees(q[part], T!TableResult(q[part]))
              [] part = "number"  -> N!NumberAgrees(q[part], N!NumberResult(q[part]))
              [] part = "text"    -> X!TextAgrees(q[part], X!TextResult(q[part]))
              [] part = "lex"     -> X!LexAgrees(q[part], X!LexResult(q[part]))
              [] part = "pack"    -> K!PackAgrees(q[part], K!PackResult(q[part]))
              [] part = "pattern" -> P!PatternAgrees(q[part], P!PatternResult(q[part]))
              [] part = "chunk"   -> D!ChunkAgrees(q[part], D!ChunkResult(q[part]))
    IN {{[asked |-> q, right |-> Right(q, CHOOSE part \in DOMAIN q : TRUE)] : q \in qs} : qs \in Asked}

LibraryInit == call = NoCall
Call(part)  == call = NoCall /\ call' \in part
LibraryNext == \E part \in Answered : Call(part)
LibrarySpec == LibraryInit /\ [][LibraryNext]_call

\* Patterns find what they mean, captures and repeated searches included: the
\* matcher, find, match, gmatch and gsub (LuaPattern).
PatternsRight == "pattern" \in DOMAIN call.asked => call.right
\* Every other function answers what it should, and raises an error when it
\* should: fields moved between tables (LuaTabLib), arithmetic, numerals and
\* loops (LuaNumber), strings by position and UTF-8 (LuaText), tokens
\* (LuaLex), packed data (LuaPack) and precompiled chunks (LuaDump).
AnswersRight == "pattern" \notin DOMAIN call.asked => call.right
=============================================================================

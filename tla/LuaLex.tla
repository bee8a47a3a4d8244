------------------------------- MODULE LuaLex -------------------------------
(***************************************************************************)
(* The scanner (llex.c): a text, as the codes of its bytes, is cut into    *)
(* tokens.  The text comes in one piece, so that zlookc looks one byte     *)
(* ahead, unless that is the last one (see LuaZio for pieces).             *)
(*                                                                         *)
(* A state S is [src, p, line, buff, err]: the character read is src[p].   *)
(***************************************************************************)
EXTENDS LuaText

CONSTANT Reserved           \* [words -> tokens]: what luaX_init marks as reserved

EOZ == -1
NewLines == {10, 13}
Blanks   == {9, 32}
Spaces   == NewLines \cup Blanks \cup {11, 12}
Digit    == 48..57
HexDigit == Digit \cup 65..70 \cup 97..102
Letter   == {95} \cup 65..90 \cup 97..122 \cup 128..255
Open     == 91
Close    == 93
Equal    == 61
Minus    == 45
Dot      == 46
Escape   == 92
Quotes   == {34, 39}

Current(S) == IF S.p <= Len(S.src) THEN S.src[S.p] ELSE EOZ
zlookc(S)  == IF S.p + 1 < Len(S.src) THEN S.src[S.p + 1] ELSE EOZ
NextChar(S)    == [S EXCEPT !.p = @ + 1]
Save(S, c)     == [S EXCEPT !.buff = Append(@, c)]
SaveAndNext(S) == NextChar(Save(S, Current(S)))
lexerror(S)    == [S EXCEPT !.err = TRUE]
Reset(S)       == [S EXCEPT !.buff = <<>>]
Removed(S, n)  == [S EXCEPT !.buff = SubSeq(@, 1, Len(@) - n)]

RECURSIVE SaveWhile(_, _), SkipWhile(_, _), SkipSpaces(_)
SaveWhile(S, cs) == IF Current(S) \in cs THEN SaveWhile(SaveAndNext(S), cs) ELSE S
SkipWhile(S, cs) == IF Current(S) \in cs THEN SkipWhile(NextChar(S), cs) ELSE S

inclinenumber(S) ==
    LET N == NextChar(S) IN
    [N EXCEPT !.line = @ + 1, !.p = IF Current(N) \in NewLines \ {Current(S)} THEN @ + 1 ELSE @]
SkipSpaces(S) == IF Current(S) \notin Spaces THEN S
                 ELSE SkipSpaces(IF Current(S) \in NewLines THEN inclinenumber(S) ELSE NextChar(S))

check_next2(S, set) == IF Current(S) \in set THEN SaveAndNext(S) ELSE S
\* A letter of two bytes, the first and the second each one of two.
check_next2cyr(S, firsts, seconds, as) ==
    IF Current(S) \in firsts /\ zlookc(S) \in seconds THEN NextChar(NextChar(Save(S, as))) ELSE S

----------------------------------------------------------------------------
(* Numerals.                                                               *)
\* What luaO_str2num takes for a number, of what can be in the buffer.
AllIn(t, cs) == \A k \in DOMAIN t : t[k] \in cs
Mantissa(t, digits) == /\ AllIn(t, digits \cup {Dot}) /\ \E k \in DOMAIN t : t[k] # Dot
                       /\ \A k, l \in DOMAIN t : t[k] = Dot /\ t[l] = Dot => k = l
Exponent(t) == t = <<>> \/ (Len(t) > 1 /\ t[1] \in {69, 101} /\ AllIn(Tail(t), Digit))
                        \/ (Len(t) > 2 /\ t[1] \in {69, 101} /\ t[2] \in {43, 45} /\ AllIn(SubSeq(t, 3, Len(t)), Digit))
IsHex(t) == Len(t) >= 2 /\ t[1] = 48 /\ t[2] \in {88, 120}
luaO_str2num(t) ==
    IF IsHex(t) THEN Mantissa(SubSeq(t, 3, Len(t)), HexDigit)
    ELSE \E m \in 0..Len(t) : Mantissa(SubSeq(t, 1, m), Digit) /\ Exponent(SubSeq(t, m + 1, Len(t)))
IsFloat(t) == \E k \in DOMAIN t : t[k] = Dot \/ (~IsHex(t) /\ t[k] \notin Digit)

\* The marks in hexadecimal, the first two of "\xd0\xa0\xd1\x80\x70", are
\* negative as chars, and so are no character read.
ExponentPart(S, ishex) ==
    LET E1 == check_next2(S, IF ishex THEN {} ELSE {69, 101})
        E  == IF E1 = S THEN check_next2cyr(S, {208}, {181, 149}, 101) ELSE E1
    IN IF E = S THEN S ELSE check_next2(SkipWhile(E, Blanks), {43, 45})
lisxdigit_cyr(S) ==
    IF Current(S) # 208 THEN S
    ELSE IF zlookc(S) \in 144..149 THEN NextChar(NextChar(Save(S, 144 - zlookc(S) + 97)))
    ELSE IF zlookc(S) \in 176..181 THEN NextChar(NextChar(Save(S, 176 - zlookc(S) + 97)))
    ELSE S
RECURSIVE NumeralFrom(_, _)
NumeralFrom(S, ishex) ==
    LET E == ExponentPart(S, ishex)
        D == IF Current(E) \in (IF ishex THEN HexDigit ELSE Digit) \cup {Dot} THEN SaveAndNext(E)
             ELSE IF ishex THEN lisxdigit_cyr(E) ELSE E
    IN IF D = E THEN E ELSE NumeralFrom(D, ishex)
read_numeral(S) ==
    LET F  == SaveAndNext(S)
        X1 == check_next2(F, {88, 120})
        X  == IF Current(S) # 48 THEN F ELSE IF X1 = F THEN check_next2cyr(F, {209, 208}, {136, 168}, 120) ELSE X1
    IN NumeralFrom(X, X # F)

----------------------------------------------------------------------------
(* Strings.                                                                *)
\* skip_sep: n is its result.
skip_sep(S) == LET E == SaveWhile(SaveAndNext(S), {Equal}) count == E.p - S.p - 1
               IN [S |-> E, n |-> IF Current(E) = Current(S) THEN count ELSE -count - 1]
RECURSIVE LongString(_, _, _)
LongString(S, sep, keep) ==
    CASE Current(S) = EOZ -> lexerror(S)
      [] Current(S) = Close -> LET s == skip_sep(S) IN IF s.n = sep THEN SaveAndNext(s.S) ELSE LongString(s.S, sep, keep)
      [] Current(S) \in NewLines -> LET N == inclinenumber(Save(S, 10)) IN LongString(IF keep THEN N ELSE Reset(N), sep, keep)
      [] OTHER -> LongString(IF keep THEN SaveAndNext(S) ELSE NextChar(S), sep, keep)
read_long_string(S, sep, keep) ==
    LET F == SaveAndNext(S) IN
    LongString(IF Current(F) \in NewLines THEN inclinenumber(F) ELSE F, sep, keep)

\* The escapes.  Each takes a state at the character after '\' and leaves the
\* buffer without what it has read, '\' included.
Hex(c) == IF c \in Digit THEN c - 48 ELSE IF c \in 65..70 THEN c - 55 ELSE c - 87
Only(S, c) == Save(Removed(S, 1), c)
hexaesc(S) == LET A == NextChar(S) B == NextChar(A) IN
              IF Current(A) \in HexDigit /\ Current(B) \in HexDigit
              THEN Only(NextChar(B), 16 * Hex(Current(A)) + Hex(Current(B))) ELSE lexerror(S)
RECURSIVE Utf8Digits(_, _)
\* Of "\u{XXX}" the number from S on.
Utf8Digits(S, r) ==
    IF r > 1114111 THEN [S |-> lexerror(S), r |-> 0]
    ELSE IF Current(S) \in HexDigit THEN Utf8Digits(NextChar(S), 16 * r + Hex(Current(S))) ELSE [S |-> S, r |-> r]
utf8esc(S) ==
    LET B == NextChar(S)
        D == Utf8Digits(NextChar(B), 0)
    IN IF Current(B) # 123 \/ Current(NextChar(B)) \notin HexDigit \/ D.S.err \/ Current(D.S) # 125 THEN lexerror(S)
       ELSE [NextChar(D.S) EXCEPT !.buff = Front(@) \o luaO_utf8esc(D.r)]
decesc(S) ==
    LET n == Max({k \in 1..3 : \A l \in 0..(k - 1) : Current([S EXCEPT !.p = @ + l]) \in Digit})
        r == FoldLeft(LAMBDA x, c : 10 * x + c - 48, 0, SubSeq(S.src, S.p, S.p + n - 1))
    IN IF r > 255 THEN lexerror(S) ELSE Only([S EXCEPT !.p = @ + n], r)
\* a b f n r t v \ " '
Simple == [c \in {97, 98, 102, 110, 114, 116, 118, 92, 34, 39} |->
             CASE c = 97 -> 7 [] c = 98 -> 8 [] c = 102 -> 12 [] c = 110 -> 10 [] c = 114 -> 13
               [] c = 116 -> 9 [] c = 118 -> 11 [] OTHER -> c]
Cyrillic == [c \in {<<208, 189>>, <<208, 178>>, <<209, 129>>, <<209, 130>>} |->
             CASE c[2] = 189 -> 10 [] c[2] = 178 -> 13 [] c[2] = 129 -> 8 [] c[2] = 130 -> 9]
EscapeSequence(S) ==
    LET c == Current(S) IN
    CASE c \in {208, 209} -> IF <<c, zlookc(S)>> \in DOMAIN Cyrillic THEN Only(NextChar(NextChar(S)), Cyrillic[<<c, zlookc(S)>>])
                             ELSE lexerror(S)
      [] c \in DOMAIN Simple -> Only(NextChar(S), Simple[c])
      [] c = 120 -> hexaesc(S)
      [] c = 117 -> utf8esc(S)
      [] c \in NewLines -> Only(inclinenumber(S), 10)
      [] c = EOZ -> S
      [] c = 122 -> SkipSpaces(NextChar(Removed(S, 1)))
      [] c \in Digit -> decesc(S)
      [] OTHER -> lexerror(S)
RECURSIVE StringUpTo(_, _)
StringUpTo(S, del) ==
    IF S.err \/ Current(S) = del THEN S
    ELSE IF Current(S) \in NewLines \cup {EOZ} THEN lexerror(S)
    ELSE StringUpTo(IF Current(S) = Escape THEN EscapeSequence(SaveAndNext(S)) ELSE SaveAndNext(S), del)
read_string(S) == LET E == StringUpTo(SaveAndNext(S), Current(S)) IN IF E.err THEN E ELSE SaveAndNext(E)

----------------------------------------------------------------------------
(* llex: [S, tok, value].                                                  *)
Symbol(S, spelt)     == [S |-> S, tok |-> "symbol", value |-> spelt]
Inner(b, n)          == SubSeq(b, n + 1, Len(b) - n)
StringToken(S, n)    == [S |-> S, tok |-> "string", value |-> Inner(S.buff, n)]
Wrong(S)             == [S |-> lexerror(S), tok |-> "error", value |-> <<>>]
NumeralToken(S) == LET E == read_numeral(S) IN
                   IF ~luaO_str2num(E.buff) THEN Wrong(E)
                   ELSE [S |-> E, tok |-> IF IsFloat(E.buff) THEN "float" ELSE "integer", value |-> E.buff]
NameToken(S) == LET E == SaveWhile(S, Letter \cup Digit) IN
                IF E.buff \in DOMAIN Reserved THEN [S |-> E, tok |-> "reserved", value |-> Reserved[E.buff]]
                ELSE [S |-> E, tok |-> "name", value |-> E.buff]
\* What makes a longer symbol of the one before it, and the number sign, the
\* bytes 226, 132, 150.
Followers == [c \in {Equal, 60, 62, 47, 126, 33, 58} |->
              CASE c = 60 -> <<Equal, 60>> [] c = 62 -> <<Equal, 62>> [] c \in {47, 58} -> <<c>> [] OTHER -> <<Equal>>]
Spelt(c) == IF c = 33 THEN 126 ELSE c
SymbolToken(S) == LET c == Current(S) N == NextChar(S) IN
                  IF c \in DOMAIN Followers /\ Current(N) \in ToSet(Followers[c]) THEN Symbol(NextChar(N), <<Spelt(c), Current(N)>>)
                  ELSE Symbol(N, <<Spelt(c)>>)
NumberSign(S) == LET N == NextChar(S) M == NextChar(N) IN
                 IF Current(N) # 132 THEN NumeralToken(N)
                 ELSE IF Current(M) # 150 THEN NumeralToken(M) ELSE Symbol(NextChar(M), <<35>>)
Dots(S) == LET D1 == SaveAndNext(S) D2 == NextChar(D1) IN
           IF Current(D1) = Dot THEN IF Current(D2) = Dot THEN Symbol(NextChar(D2), <<Dot, Dot, Dot>>) ELSE Symbol(D2, <<Dot, Dot>>)
           ELSE IF Current(D1) \in Digit THEN NumeralToken(D1) ELSE Symbol(D1, <<Dot>>)
Bracket(S) == LET s == skip_sep(S) E == read_long_string(s.S, s.n, TRUE) IN
              IF s.n >= 0 THEN IF E.err THEN Wrong(E) ELSE StringToken(E, 2 + s.n)
              ELSE IF s.n # -1 THEN Wrong(s.S) ELSE Symbol(s.S, <<Open>>)
\* A comment, from the second '-' on.
Comment(S) == LET N == NextChar(S)
                  s == IF Current(N) = Open THEN skip_sep(N) ELSE [S |-> N, n |-> -1]
              IN IF s.n >= 0 THEN Reset(read_long_string(Reset(s.S), s.n, FALSE))
                 ELSE LET E == {k \in (s.S.p)..Len(S.src) : S.src[k] \in NewLines} IN
                      [Reset(s.S) EXCEPT !.p = IF E = {} THEN Len(S.src) + 1 ELSE Min(E)]
RECURSIVE Token(_)
Token(S) ==
    LET c == Current(S) IN
    CASE S.err -> Wrong(S)
      [] ~S.err /\ c \in NewLines -> Token(inclinenumber(S))
      [] ~S.err /\ c \in {32, 12, 9, 11} -> Token(NextChar(S))
      [] ~S.err /\ c = Minus -> IF Current(NextChar(S)) = Minus THEN Token(Comment(NextChar(S))) ELSE SymbolToken(S)
      [] ~S.err /\ c = Open -> Bracket(S)
      [] ~S.err /\ c \in Quotes -> LET E == read_string(S) IN IF E.err THEN Wrong(E) ELSE StringToken(E, 1)
      [] ~S.err /\ c = Dot -> Dots(S)
      [] ~S.err /\ c = 226 -> NumberSign(S)
      [] ~S.err /\ c \in Digit -> NumeralToken(S)
      [] ~S.err /\ c = EOZ -> [S |-> S, tok |-> "eos", value |-> <<>>]
      [] ~S.err /\ c \in Letter \ {226} -> NameToken(S)
      [] OTHER -> SymbolToken(S)
llex(S) == Token(Reset(S))
luaX_setinput(src) == [src |-> src, p |-> 1, line |-> 1, buff |-> <<>>, err |-> FALSE]
RECURSIVE TokensFrom(_)
\* Each with the line it ends in.
TokensFrom(S) == LET t == llex(S)
                     T == [tok |-> t.tok, value |-> t.value, line |-> t.S.line]
                 IN <<T>> \o (IF t.tok \in {"eos", "error"} THEN <<>> ELSE TokensFrom(t.S))

----------------------------------------------------------------------------
(* What is asked: every short text over a few characters, numerals made of *)
(* their parts, and quoted strings made of items.                          *)
CONSTANTS Alphabets           \* of the texts: words and how many of them
Items == LET Means(w, v) == [word |-> w, means |-> v] Bad(w) == [word |-> w, means |-> Error] IN
    {Means(<<97>>, <<97>>), Means(<<49>>, <<49>>), Means(<<39>>, <<39>>), Means(<<32>>, <<32>>), Means(<<92, 110>>, <<10>>),
     Means(<<92, 34>>, <<34>>), Means(<<92, 92>>, <<92>>), Means(<<92, 48, 54, 53>>, <<65>>), Means(<<92, 57>>, <<9>>),
     Means(<<92, 120, 102, 70>>, <<255>>), Means(<<92, 117, 123, 50, 48, 65, 99, 125>>, Encoding(8364)),
     Means(<<92, 122, 32, 10, 13, 9>>, <<>>), Means(<<92, 13, 10>>, <<10>>), Means(<<92, 10>>, <<10>>), Means(<<92, 208, 189>>, <<10>>),
     Means(<<92, 209, 130>>, <<9>>), Bad(<<92, 51, 48, 48>>), Bad(<<92, 120, 49, 103>>), Bad(<<92, 117, 123, 49, 49, 48, 48, 48, 48, 125>>),
     Bad(<<92, 117, 123, 125>>), Bad(<<92, 209, 189>>), Bad(<<92, 113>>), Bad(<<10>>)}
\* An item is not made longer by the next one.
Apart(is) == \A n \in 1..(Len(is) - 1) :
                LET w == is[n].word next == is[n + 1].word[1] IN
                /\ next \in Digit => w # <<92, 57>>
                /\ next \in Spaces => w[Len(w)] \notin NewLines /\ ~IsPrefix(<<92, 122>>, w)
Opener(n) == <<Open>> \o [k \in 1..n |-> Equal] \o <<Open>>
Closer(n) == <<Close>> \o [k \in 1..n |-> Equal] \o <<Close>>
Mantissas == {<<49>>, <<49, 48>>, <<49, Dot>>, <<Dot, 49>>, <<49, Dot, 53>>, <<48>>}
Marks     == {<<101>>, <<69>>, <<208, 181>>, <<208, 149>>}
LexCalls ==
    UNION {{[f |-> "munch", src |-> FlattenSeq(s)] : s \in Strings(al.words, al.len)} : al \in Alphabets}
      \cup {[f |-> "munch", src |-> dashes \o Opener(n) \o body \o Closer(n) \o <<10>>] :
               dashes \in {<<>>, <<Minus, Minus>>}, n \in 0..1, body \in Strings({Close, Equal, 10, 13}, 3)}
      \cup {[f |-> "quoted", items |-> is] : is \in {x \in Strings(Items, 2) : Apart(x)}}
      \cup {[f |-> "numeral", mant |-> m, mark |-> e, blanks |-> b, sign |-> s, digits |-> d] :
               m \in Mantissas, e \in Marks, b \in Strings(Blanks, 2), s \in {<<>>, <<43>>, <<45>>}, d \in {<<>>, <<49>>, <<49, 50>>}}
      \cup {[f |-> "hexadecimal", x |-> x, digits |-> d, letter |-> l] :
               x \in {<<88>>, <<120>>, <<209, 136>>, <<208, 168>>}, d \in {<<>>, <<70>>, <<49, 97>>, <<49, 101, 50>>, <<Dot, 56>>},
               l \in {<<>>, <<208, 144>>, <<208, 176>>, <<208, 149>>, <<208, 181>>}}
Source(c) == CASE c.f = "munch" -> c.src
               [] c.f = "quoted" -> <<34>> \o FlattenSeq([n \in DOMAIN c.items |-> c.items[n].word]) \o <<34, 10, 97>>
               [] c.f = "numeral" -> c.mant \o c.mark \o c.blanks \o c.sign \o c.digits \o <<10>>
               [] c.f = "hexadecimal" -> <<48>> \o c.x \o c.digits \o c.letter \o <<10>>
LexResult(c) == TokensFrom(luaX_setinput(Source(c)))

\* The words of the language.
Occurs(w, x) == \E k \in 0..(Len(w) - Len(x)) : SubSeq(w, k + 1, k + Len(x)) = x
LongLevel(w) == {n \in 0..Len(w) : /\ IsPrefix(Opener(n), w) /\ IsSuffix(Closer(n), w) /\ Len(w) >= 2 * (n + 2)
                                   /\ ~Occurs(SubSeq(w, n + 3, Len(w) - 1), Closer(n))}
Symbols == {<<c>> : c \in {Open, Close, Equal, Minus, Dot, 35, 43, 58, 60, 62, 47, 126, 33}}
           \cup {<<Dot, Dot>>, <<Dot, Dot, Dot>>, <<61, 61>>, <<60, 61>>, <<62, 61>>, <<126, 61>>, <<33, 61>>, <<60, 60>>, <<62, 62>>,
                 <<47, 47>>, <<58, 58>>, <<226, 132, 150>>}
NameOf(spelt) == CASE spelt = <<226, 132, 150>> -> <<35>> [] spelt[1] = 33 -> <<126>> \o Tail(spelt) [] OTHER -> spelt
Starts(t, s) == \E n \in 0..Len(t) : IsPrefix(s \o Opener(n), t)
Kinds(t, n) ==
    LET w == SubSeq(t, 1, n)
        comment == IsPrefix(<<Minus, Minus>>, w)
    IN (IF w \in {<<9>>, <<32>>, <<10>>, <<13>>, <<10, 13>>, <<13, 10>>} THEN {"blank"} ELSE {})
       \cup (IF comment /\ (LongLevel(SubSeq(w, 3, n)) # {} \/ (~Starts(t, <<Minus, Minus>>) /\ \A k \in 1..n : w[k] \notin NewLines))
             THEN {"blank"} ELSE {})
       \cup (IF LongLevel(w) # {} THEN {"string"} ELSE {})
       \cup (IF w[1] \in Letter \ {226} /\ \A k \in 1..n : w[k] \in Letter \cup Digit
             THEN {IF w \in DOMAIN Reserved THEN "reserved" ELSE "name"} ELSE {})
       \cup (IF (w[1] \in Digit \/ (n > 1 /\ w[1] = Dot /\ w[2] \in Digit)) /\ \A k \in 1..n : w[k] \in Digit \cup {Dot}
             THEN {IF Cardinality({k \in 1..n : w[k] = Dot}) > 1 THEN "error" ELSE IF Dot \in ToSet(w) THEN "float" ELSE "integer"} ELSE {})
       \cup (IF w \in Symbols /\ ~IsPrefix(<<Minus, Minus>>, t) /\ ~IsPrefix(<<Open, Equal>>, t) /\ ~Starts(t, <<>>) THEN {"symbol"} ELSE {})
RECURSIVE OneNewLine(_)
\* Every end of line, of one character or two, is one newline.
OneNewLine(w) == IF w = <<>> THEN <<>>
                 ELSE IF w[1] \notin NewLines THEN <<w[1]>> \o OneNewLine(Tail(w))
                 ELSE <<10>> \o OneNewLine(IF Len(w) > 1 /\ w[2] \in NewLines \ {w[1]} THEN SubSeq(w, 3, Len(w)) ELSE Tail(w))
LineAt(src, p) == LET before == OneNewLine(SubSeq(src, 1, p - 1)) IN 1 + Cardinality({k \in DOMAIN before : before[k] = 10})
LongBody(w) == LET n    == CHOOSE n \in LongLevel(w) : TRUE
                   body == OneNewLine(SubSeq(w, n + 3, Len(w) - n - 2))
               IN IF body # <<>> /\ body[1] = 10 THEN Tail(body) ELSE body
RECURSIVE Meant(_, _)
\* The longest word, again and again.
Meant(src, p) ==
    LET t    == SubSeq(src, p, Len(src))
        all  == UNION {{[n |-> n, kind |-> k] : k \in Kinds(t, n)} : n \in 1..Len(t)}
        best == CHOOSE x \in all : \A y \in all : y.n <= x.n
        n    == best.n
        kind == best.kind
        w    == SubSeq(t, 1, n)
        T(tok, v) == <<[tok |-> tok, value |-> v, line |-> LineAt(src, p + n)]>>
    IN IF t = <<>> THEN <<[tok |-> "eos", value |-> <<>>, line |-> LineAt(src, p)]>>
       ELSE IF all = {} \/ kind = "error" THEN <<[tok |-> "error"]>>
       ELSE CASE kind = "blank" -> Meant(src, p + n)
              [] kind = "string" -> T(kind, LongBody(w)) \o Meant(src, p + n)
              [] kind = "symbol" -> T(kind, NameOf(w)) \o Meant(src, p + n)
              [] kind = "reserved" -> T(kind, Reserved[w]) \o Meant(src, p + n)
              [] OTHER -> T(kind, w) \o Meant(src, p + n)
Told(r) == [n \in DOMAIN r |-> IF r[n].tok = "error" THEN [tok |-> "error"] ELSE r[n]]
One(tok, v) == <<[tok |-> tok, value |-> v, line |-> 1], [tok |-> "eos", value |-> <<>>, line |-> 2]>>
\* A text is cut into the longest words there are, with their lines; a
\* numeral is the one its parts say, with marks in either alphabet (and two of
\* the six hexadecimal digits, see the README); and a quoted string has what
\* its escapes mean.
LexAgrees(c, r) ==
    CASE c.f = "munch" -> Told(r) = Meant(c.src, 1)
      [] c.f = "quoted" ->
            LET line == LineAt(Source(c), Len(Source(c)) - 1) IN
            IF \E n \in DOMAIN c.items : c.items[n].means = Error THEN Told(r) = <<[tok |-> "error"]>>
            ELSE r = <<[tok |-> "string", value |-> FlattenSeq([n \in DOMAIN c.items |-> c.items[n].means]), line |-> line],
                       [tok |-> "name", value |-> <<97>>, line |-> line + 1], [tok |-> "eos", value |-> <<>>, line |-> line + 1]>>
      [] c.f = "numeral" ->
            IF c.digits = <<>> THEN Told(r) = <<[tok |-> "error"]>>
            ELSE r = One("float", c.mant \o <<IF c.mark = <<69>> THEN 69 ELSE 101>> \o c.sign \o c.digits)
      [] c.f = "hexadecimal" ->
            IF c.digits \o c.letter = <<>> THEN Told(r) = <<[tok |-> "error"]>>
            ELSE r = One(IF Dot \in ToSet(c.digits) THEN "float" ELSE "integer", <<48, IF c.x = <<88>> THEN 88 ELSE 120>> \o c.digits
                         \o (IF c.letter = <<>> THEN <<>> ELSE IF c.letter[2] \in {144, 176} THEN <<97>> ELSE <<101>>))
=============================================================================

----------------------------- MODULE LuaPattern -----------------------------
(***************************************************************************)
(* Pattern matching of lstrlib.c: the matcher, which reads the pattern as  *)
(* it goes and backtracks by recursion, and find, match, gmatch and gsub   *)
(* on top of it.  Characters are strings of one; a position s counts from  *)
(* 1 and Len(src) + 1 is src_end.                                          *)
(*                                                                         *)
(* What a pattern means is stated apart from that (Meant), for patterns    *)
(* given as sequences of items, which Written writes down.                 *)
(***************************************************************************)
EXTENDS Integers, Sequences, SequencesExt, FiniteSets, FiniteSetsExt

CONSTANTS Code,           \* [characters -> Int], for ranges
          Letters, Digits,
          MAXCCALLS, LUA_MAXCAPTURES

NULL == 0
ERROR == -1
CAP_UNFINISHED == -1
CAP_POSITION == -2
Char(str, k) == IF k \in DOMAIN str THEN str[k] ELSE "NUL"

(* The classes.                                                            *)
MatchClass(c, cl) ==
    CASE cl = "a" -> c \in Letters   [] cl = "A" -> c \notin Letters
      [] cl = "d" -> c \in Digits    [] cl = "D" -> c \notin Digits
      [] OTHER -> c = cl
Caret(pat, p) == Char(pat, p) = "^"

RECURSIVE SetEnd(_, _), BracketFrom(_, _, _, _, _)
SetEnd(pat, q) ==
    IF q > Len(pat) THEN ERROR
    ELSE LET n == IF pat[q] = "%" /\ q + 1 <= Len(pat) THEN q + 2 ELSE q + 1
         IN IF Char(pat, n) = "]" THEN n + 1 ELSE SetEnd(pat, n)
ClassEnd(pat, p) ==
    CASE Char(pat, p) = "%" -> IF p = Len(pat) THEN ERROR ELSE p + 2
      [] Char(pat, p) = "[" -> SetEnd(pat, IF Caret(pat, p + 1) THEN p + 2 ELSE p + 1)
      [] OTHER -> p + 1
\* From q on; ec is the place of the ']'.
BracketFrom(c, pat, q, ec, sig) ==
    CASE q >= ec -> ~sig
      [] q < ec /\ pat[q] = "%" ->
            IF MatchClass(c, Char(pat, q + 1)) THEN sig ELSE BracketFrom(c, pat, q + 2, ec, sig)
      [] q < ec /\ pat[q] # "%" /\ Char(pat, q + 1) = "-" /\ q + 2 < ec ->
            IF Code[pat[q]] <= Code[c] /\ Code[c] <= Code[pat[q + 2]] THEN sig ELSE BracketFrom(c, pat, q + 3, ec, sig)
      [] OTHER -> IF pat[q] = c THEN sig ELSE BracketFrom(c, pat, q + 1, ec, sig)
MatchBracketClass(c, pat, p, ec) ==
    IF Caret(pat, p + 1) THEN BracketFrom(c, pat, p + 2, ec, FALSE) ELSE BracketFrom(c, pat, p + 1, ec, TRUE)
SingleMatch(ms, s, p, ep) ==
    /\ s <= Len(ms.src)
    /\ CASE ms.pat[p] = "." -> TRUE
         [] ms.pat[p] = "%" -> MatchClass(ms.src[s], ms.pat[p + 1])
         [] ms.pat[p] = "[" -> MatchBracketClass(ms.src[s], ms.pat, p, ep - 1)
         [] OTHER -> ms.pat[p] = ms.src[s]

----------------------------------------------------------------------------
(* match returns [s, ms]; ms is [src, pat, capture, depth].                *)
Ret(ms, s) == [s |-> s, ms |-> ms]
Failed(r)  == r.s = NULL

RECURSIVE Balance(_, _, _, _, _)
Balance(ms, s, b, e, cont) ==
    CASE s > Len(ms.src) -> NULL
      [] s <= Len(ms.src) /\ ms.src[s] = e -> IF cont = 1 THEN s + 1 ELSE Balance(ms, s + 1, b, e, cont - 1)
      [] OTHER -> Balance(ms, s + 1, b, e, IF ms.src[s] = b THEN cont + 1 ELSE cont)
MatchBalance(ms, s, p) ==
    IF p >= Len(ms.pat) THEN ERROR
    ELSE IF Char(ms.src, s) # ms.pat[p] THEN NULL ELSE Balance(ms, s + 1, ms.pat[p], ms.pat[p + 1], 1)

CaptureText(ms, l) == SubSeq(ms.src, ms.capture[l].init, ms.capture[l].init + ms.capture[l].len - 1)
CaptureToClose(ms) == Max({0} \cup {l \in DOMAIN ms.capture : ms.capture[l].len = CAP_UNFINISHED})
\* A position capture has the length -2 here, which is larger than any text.
MatchCapture(ms, s, l) ==
    IF l \notin DOMAIN ms.capture \/ ms.capture[l].len = CAP_UNFINISHED THEN ERROR
    ELSE IF ms.capture[l].len = CAP_POSITION THEN NULL
    ELSE LET len == ms.capture[l].len IN
         IF Len(ms.src) - s + 1 >= len /\ SubSeq(ms.src, s, s + len - 1) = CaptureText(ms, l) THEN s + len ELSE NULL

RECURSIVE Match(_, _, _), Do(_, _, _), MaxExpand(_, _, _, _), MinExpand(_, _, _, _), Repeats(_, _, _, _)
Repeats(ms, s, p, ep) == IF SingleMatch(ms, s, p, ep) THEN 1 + Repeats(ms, s + 1, p, ep) ELSE 0
\* i repetitions, then one less.
MaxExpand(ms, s, i, ep) == LET r == Match(ms, s + i, ep + 1) IN
                           IF ~Failed(r) \/ i = 0 THEN r ELSE MaxExpand(r.ms, s, i - 1, ep)
MinExpand(ms, s, p, ep) == LET r == Match(ms, s, ep + 1) IN
                           IF ~Failed(r) \/ ~SingleMatch(ms, s, p, ep) THEN r ELSE MinExpand(r.ms, s + 1, p, ep)
StartCapture(ms, s, p, what) ==
    IF Len(ms.capture) >= LUA_MAXCAPTURES THEN Ret(ms, ERROR)
    ELSE LET r == Match([ms EXCEPT !.capture = Append(@, [init |-> s, len |-> what])], s, p)
         IN IF Failed(r) THEN [r EXCEPT !.ms.capture = Front(@)] ELSE r
\* Fault: a capture stays closed when the rest fails.
Undo_faulty(r, l) == r
Undo(r, l) == [r EXCEPT !.ms.capture[l].len = CAP_UNFINISHED]
EndCapture(ms, s, p) ==
    LET l == CaptureToClose(ms) IN
    IF l = 0 THEN Ret(ms, ERROR)
    ELSE LET r == Match([ms EXCEPT !.capture[l].len = s - ms.capture[l].init], s, p)
         IN IF Failed(r) THEN Undo(r, l) ELSE r
Frontier(ms, s, p, ep) == /\ ~MatchBracketClass(Char(ms.src, s - 1), ms.pat, p, ep - 1)
                          /\ MatchBracketClass(Char(ms.src, s), ms.pat, p, ep - 1)
\* "pattern class plus optional suffix"
Default(ms, s, p) ==
    LET ep == ClassEnd(ms.pat, p)
        suffix == Char(ms.pat, ep)
        once == SingleMatch(ms, s, p, ep)
    IN CASE ep = ERROR -> Ret(ms, ERROR)
         [] ep # ERROR /\ ~once -> IF suffix \in {"*", "?", "-"} THEN Do(ms, s, ep + 1) ELSE Ret(ms, NULL)
         [] ep # ERROR /\ once /\ suffix = "?" ->
               LET r == Match(ms, s + 1, ep + 1) IN IF Failed(r) THEN Do(r.ms, s, ep + 1) ELSE r
         [] ep # ERROR /\ once /\ suffix = "+" -> MaxExpand(ms, s + 1, Repeats(ms, s + 1, p, ep), ep)
         [] ep # ERROR /\ once /\ suffix = "*" -> MaxExpand(ms, s, Repeats(ms, s, p, ep), ep)
         [] ep # ERROR /\ once /\ suffix = "-" -> MinExpand(ms, s, p, ep)
         [] OTHER -> Do(ms, s + 1, ep)
\* Goes on at a place the matcher may have failed to find.
Go(ms, s, p) == IF s \in {NULL, ERROR} THEN Ret(ms, s) ELSE Do(ms, s, p)
Escape(ms, s, p) ==
    LET c == Char(ms.pat, p + 1) ep == ClassEnd(ms.pat, p + 2) IN
    CASE c = "b" -> Go(ms, MatchBalance(ms, s, p + 2), p + 4)
      [] c = "f" -> IF Char(ms.pat, p + 2) # "[" \/ ep = ERROR THEN Ret(ms, ERROR)
                    ELSE Go(ms, IF Frontier(ms, s, p + 2, ep) THEN s ELSE NULL, ep)
      [] c \in {"0", "1", "2"} -> Go(ms, MatchCapture(ms, s, CASE c = "0" -> 0 [] c = "1" -> 1 [] c = "2" -> 2), p + 2)
      [] OTHER -> Default(ms, s, p)
Do(ms, s, p) ==
    LET c == Char(ms.pat, p) IN
    CASE p > Len(ms.pat) -> Ret(ms, s)
      [] c = "(" -> IF Char(ms.pat, p + 1) = ")" THEN StartCapture(ms, s, p + 2, CAP_POSITION)
                    ELSE StartCapture(ms, s, p + 1, CAP_UNFINISHED)
      [] c = ")" -> EndCapture(ms, s, p + 1)
      [] c = "$" /\ p = Len(ms.pat) -> Ret(ms, IF s = Len(ms.src) + 1 THEN s ELSE NULL)
      [] c = "%" -> Escape(ms, s, p)
      [] p <= Len(ms.pat) /\ c \notin {"(", ")", "%"} /\ ~(c = "$" /\ p = Len(ms.pat)) -> Default(ms, s, p)
Match(ms, s, p) ==
    IF ms.depth = 0 THEN Ret(ms, ERROR)
    ELSE LET r == Do([ms EXCEPT !.depth = @ - 1], s, p)
         IN IF r.s = ERROR THEN r ELSE [r EXCEPT !.ms.depth = @ + 1]

----------------------------------------------------------------------------
(* find, match, gmatch and gsub.  A match is [from, to, captures].         *)
Anchored(pat) == pat # <<>> /\ pat[1] = "^"
Prepared(src, pat) == [src |-> src, pat |-> pat, capture |-> <<>>, depth |-> MAXCCALLS]
Unanchored(pat) == IF Anchored(pat) THEN Tail(pat) ELSE pat
\* A position that is a value, and a piece of gsub's result that is copied.
Position(src, n) == <<"at">> \o SubSeq(src, 1, n - 1)
Plain(t) == [n \in DOMAIN t |-> [from |-> 0, to |-> 0, captures |-> <<<<t[n]>>>>]]
Problem(what) == <<[from |-> -1, to |-> -1, captures |-> <<<<what>>>>]>>
Captures(ms, s, e) ==
    LET One(l) == IF ms.capture[l].len = CAP_POSITION THEN Position(ms.src, ms.capture[l].init) ELSE CaptureText(ms, l)
    IN IF ms.capture = <<>> THEN <<SubSeq(ms.src, s, e - 1)>> ELSE [l \in DOMAIN ms.capture |-> One(l)]
Unfinished(ms) == \E l \in DOMAIN ms.capture : ms.capture[l].len = CAP_UNFINISHED
Outcome(r, s) == IF r.s = ERROR \/ (r.s # NULL /\ Unfinished(r.ms)) THEN "error"
                 ELSE IF r.ms.depth # MAXCCALLS THEN "depth" ELSE IF Failed(r) THEN "no" ELSE "yes"
Found(r, s) == [from |-> s, to |-> r.s, captures |-> Captures(r.ms, s, r.s)]

\* str_find_aux: from s1 on.
RECURSIVE FindAux(_, _, _)
FindAux(src, pat, s1) ==
    LET r == Match(Prepared(src, Unanchored(pat)), s1, 1) IN
    CASE Outcome(r, s1) \in {"error", "depth"} -> Problem(Outcome(r, s1))
      [] Outcome(r, s1) = "yes" -> <<Found(r, s1)>>
      [] OTHER -> IF s1 > Len(src) \/ Anchored(pat) THEN <<>> ELSE FindAux(src, pat, s1 + 1)

Again(e, lastmatch) == e = lastmatch
\* gmatch_aux, until the end (with no anchor: a '^' is a character there).
RECURSIVE GMatch(_, _, _, _), GSub(_, _, _, _, _)
GMatch(src, pat, s, lastmatch) ==
    LET r == Match(Prepared(src, pat), s, 1) IN
    CASE s > Len(src) + 1 -> <<>>
      [] s <= Len(src) + 1 /\ Outcome(r, s) \in {"error", "depth"} -> Problem(Outcome(r, s))
      [] s <= Len(src) + 1 /\ Outcome(r, s) = "yes" /\ ~Again(r.s, lastmatch) -> <<Found(r, s)>> \o GMatch(src, pat, r.s, r.s)
      [] OTHER -> GMatch(src, pat, s + 1, lastmatch)
\* str_gsub: the result, with the match in the place of what was replaced.
GSub(src, pat, s, lastmatch, max) ==
    LET r == Match(Prepared(src, Unanchored(pat)), s, 1)
        new == Outcome(r, s) = "yes" /\ ~Again(r.s, lastmatch)
        rest(k, e) == IF Anchored(pat) \/ max = 0 THEN Plain(SubSeq(src, k, Len(src))) ELSE GSub(src, pat, k, e, IF new THEN max - 1 ELSE max)
    IN CASE max = 0 -> Plain(SubSeq(src, s, Len(src)))
         [] max # 0 /\ Outcome(r, s) \in {"error", "depth"} -> Problem(Outcome(r, s))
         [] max # 0 /\ new -> <<Found(r, s)>> \o rest(r.s, r.s)
         [] OTHER -> IF s <= Len(src) THEN Plain(<<src[s]>>) \o rest(s + 1, lastmatch) ELSE <<>>

----------------------------------------------------------------------------
(* What patterns mean.  Items: [k |-> "one", of, rep], of being a class    *)
(* [cs, in]; "open", "close", "position", "back" (to capture n), "between" *)
(* (%b), "frontier" (of), "end" ($).                                       *)
IsIn(c, of) == c \in of.cs <=> of.in
Balanced(t, x, y) == /\ Len(t) >= 2 /\ t[1] = x
                     /\ LET Open(n) == Cardinality({k \in 1..n : t[k] = x}) - Cardinality({k \in 1..n : t[k] = y})
                        IN Open(Len(t)) = 0 /\ \A n \in 1..(Len(t) - 1) : Open(n) > 0
Opened(items, n) == Cardinality({k \in 1..n : items[k].k \in {"open", "position"}})
Closer(items, o) ==     \* the item that closes the capture opened by item o
    LET in(k) == Cardinality({m \in o..k : items[m].k = "open"}) - Cardinality({m \in o..k : items[m].k = "close"})
        ks == {k \in o..Len(items) : in(k) = 0}
    IN IF items[o].k = "position" THEN o ELSE IF ks = {} THEN 0 ELSE Min(ks)
Opener(items, n) == CHOOSE o \in DOMAIN items : items[o].k \in {"open", "position"} /\ Opened(items, o) = n
WellFormed(items) ==
    /\ \A o \in DOMAIN items : items[o].k = "open" => Closer(items, o) # 0
    /\ \A n \in DOMAIN items : Cardinality({k \in 1..n : items[k].k = "close"}) <= Cardinality({k \in 1..n : items[k].k = "open"})
    /\ Opened(items, Len(items)) <= LUA_MAXCAPTURES
    /\ \A n \in DOMAIN items : items[n].k = "back" =>
          items[n].n \in 1..Opened(items, n) /\ Closer(items, Opener(items, items[n].n)) < n
                                             /\ items[Opener(items, items[n].n)].k = "open"
\* Lengths of the text for each item from s on: place k begins at At(k).
Place(w, s, k) == s + FoldSet(LAMBDA m, sum : w[m] + sum, 0, 1..(k - 1))
Piece(src, w, s, k) == SubSeq(src, Place(w, s, k), Place(w, s, k) + w[k] - 1)
CaptureOf(items, src, w, s, o) ==
    IF items[o].k = "position" THEN Position(src, Place(w, s, o))
    ELSE SubSeq(src, Place(w, s, o), Place(w, s, Closer(items, o)) - 1)
Fits(items, src, w, s, k) ==
    LET it == items[k] t == Piece(src, w, s, k) at == Place(w, s, k) IN
    CASE it.k = "one" -> /\ Len(t) \in (CASE it.rep = "" -> {1} [] it.rep = "?" -> {0, 1} [] it.rep = "+" -> 1..Len(src) [] OTHER -> 0..Len(src))
                         /\ \A n \in DOMAIN t : IsIn(t[n], it.of)
      [] it.k = "back" -> t = CaptureOf(items, src, w, s, Opener(items, it.n))
      [] it.k = "between" -> Balanced(t, it.x, it.y)
      [] it.k = "frontier" -> t = <<>> /\ ~IsIn(Char(src, at - 1), it.of) /\ IsIn(Char(src, at), it.of)
      [] it.k = "end" -> t = <<>> /\ at = Len(src) + 1
      [] OTHER -> t = <<>>
Lengths(items, src, s) ==
    {w \in [DOMAIN items -> 0..(Len(src) - s + 1)] :
        Place(w, s, Len(items) + 1) <= Len(src) + 1 /\ \A k \in DOMAIN items : Fits(items, src, w, s, k)}
\* The first item in which they differ takes more, or less if it is lazy.
Better(items, w, v) == w = v \/ \E k \in DOMAIN items :
    /\ \A m \in 1..(k - 1) : w[m] = v[m]
    /\ IF items[k].k = "one" /\ items[k].rep = "-" THEN w[k] < v[k] ELSE w[k] > v[k]
MeantAt(items, src, s) ==
    LET ws == Lengths(items, src, s)
        best == CHOOSE w \in ws : \A v \in ws : Better(items, w, v)
        e == Place(best, s, Len(items) + 1)
        n == Opened(items, Len(items))
    IN IF ws = {} THEN {}
       ELSE {[from |-> s, to |-> e,
              captures |-> IF n = 0 THEN <<SubSeq(src, s, e - 1)>>
                           ELSE [l \in 1..n |-> CaptureOf(items, src, best, s, Opener(items, l))]]}
\* The first match at or after s that does not end at lastmatch.
NextMeant(items, src, s, lastmatch, anchored) ==
    LET ms == {m \in UNION {MeantAt(items, src, k) : k \in s..(IF anchored THEN s ELSE Len(src) + 1)} : m.to # lastmatch}
    IN IF ms = {} THEN <<>> ELSE <<CHOOSE m \in ms : \A x \in ms : m.from <= x.from>>
RECURSIVE AllMeant(_, _, _, _)
AllMeant(items, src, s, lastmatch) ==
    LET m == NextMeant(items, src, s, lastmatch, FALSE) IN
    IF m = <<>> THEN <<>> ELSE m \o AllMeant(items, src, m[1].to, m[1].to)

Written(items) ==
    LET One(it) == CASE it.k = "one" -> it.of.text \o (IF it.rep = "" THEN <<>> ELSE <<it.rep>>)
                     [] it.k = "open" -> <<"(">> [] it.k = "close" -> <<")">> [] it.k = "position" -> <<"(", ")">>
                     [] it.k = "back" -> <<"%", IF it.n = 1 THEN "1" ELSE "2">> [] it.k = "between" -> <<"%", "b", it.x, it.y>>
                     [] it.k = "frontier" -> <<"%", "f">> \o it.of.text [] it.k = "end" -> <<"$">>
    IN FlattenSeq([n \in DOMAIN items |-> One(items[n])])

\* gsub: the same matches, at most max of them, between what is copied.
RECURSIVE SubMeant(_, _, _, _, _, _)
SubMeant(items, anchor, src, s, lastmatch, max) ==
    LET m == IF max = 0 THEN <<>> ELSE NextMeant(items, src, s, lastmatch, anchor) IN
    IF m = <<>> THEN Plain(SubSeq(src, s, Len(src)))
    ELSE Plain(SubSeq(src, s, m[1].from - 1)) \o m
         \o SubMeant(items, anchor, src, m[1].to, m[1].to, IF anchor THEN 0 ELSE max - 1)

----------------------------------------------------------------------------
\* A call: [items, anchor, src, max].
PatternResult(c) ==
    LET text == Written(c.items) pat == IF c.anchor THEN <<"^">> \o text ELSE text
    IN [find |-> FindAux(c.src, pat, 1), gmatch |-> GMatch(c.src, text, 1, 0), gsub |-> GSub(c.src, pat, 1, 0, c.max)]

\* The matcher finds what the pattern means: at the first place where there
\* is a match the first item takes as much as it can (or as little), then the
\* next one, whatever was tried and undone on the way, with the captures of
\* that match; gmatch and gsub go on behind it and find no empty match twice;
\* and the depth of the recursion is bounded by the pattern, whatever the
\* length of the text (match, max_expand, start_capture, str_gsub).  A pattern
\* that is malformed gives an error or nothing.
PatternMeaning(c) ==
    [find |-> NextMeant(c.items, c.src, 1, 0, c.anchor), gmatch |-> AllMeant(c.items, c.src, 1, 0),
     gsub |-> SubMeant(c.items, c.anchor, c.src, 1, 0, c.max)]
PatternAgrees(c, r) ==
    IF WellFormed(c.items) THEN r = PatternMeaning(c)
    ELSE \A f \in DOMAIN r : \A n \in DOMAIN r[f] : r[f][n] = Problem("error")[1] \/ r[f][n].from = 0
=============================================================================

----------------------------- MODULE LuaLibrary -----------------------------
(***************************************************************************)
(* Functions of the libraries that answer at once, called with everything  *)
(* there is in a small world: the calls of patterns and chunks are listed  *)
(* here, the others where the functions are.                               *)
(***************************************************************************)
EXTENDS Integers, Sequences, SequencesExt, FiniteSets, FiniteSetsExt

CONSTANT Header

\* Patterns of up to four items, the longer ones of fewer kinds, with texts of
\* up to three characters.
PatternCalls ==
    LET Class(text, cs, in) == [text |-> text, cs |-> cs, in |-> in]
        One(of, rep) == [k |-> "one", of |-> of, rep |-> rep]
        A       == Class(<<"a">>, {"a"}, TRUE)
        classes == {A, Class(<<".">>, {}, FALSE), Class(<<"%", "A">>, {"a", "b"}, FALSE),
                    Class(<<"[", "a", "1", "-", "a", "]">>, {"a", "1"}, TRUE), Class(<<"[", "^", "%", "d", "]">>, {"1"}, FALSE)}
        items   == {One(A, rep) : rep \in {"", "?", "*", "-", "+"}} \cup {One(c, rep) : c \in classes, rep \in {"", "*"}}
                   \cup {[k |-> k] : k \in {"open", "close", "position", "end"}} \cup {[k |-> "back", n |-> n] : n \in {1, 2}}
                   \cup {[k |-> "between", x |-> "a", y |-> "b"], [k |-> "frontier", of |-> Class(<<"[", "a", "]">>, {"a"}, TRUE)]}
        Sensible(s) == \A n \in 1..(Len(s) - 1) : s[n].k # "end" /\ ~(s[n].k = "open" /\ s[n + 1].k = "close")
        few     == {One(A, rep) : rep \in {"", "*", "-"}} \cup {[k |-> k] : k \in {"open", "close", "position", "end"}}
                   \cup {[k |-> "back", n |-> 1], One(Class(<<".">>, {}, FALSE), "?")}
        Upto(its, n) == {y \in UNION {[1..k -> its] : k \in 0..n} : Sensible(y)}
        inside  == {One(A, "*"), One(A, "-"), One(A, ""), [k |-> "close"], [k |-> "open"], [k |-> "back", n |-> 1]}
        Of(patterns, A1, m, anchor, max) ==
            {[items |-> s, anchor |-> anchor, src |-> t, max |-> max] : s \in patterns, t \in UNION {[1..k -> A1] : k \in 0..m}}
    IN Of(Upto(items, 2), {"a", "b", "1"}, 2, FALSE, 2)
       \cup Of(Upto(few, 2), {"a", "b"}, 3, FALSE, 2)
       \cup Of(Upto(few, 2), {"a", "b"}, 2, TRUE, 3)
       \cup Of(Upto(few, 3), {"a", "b"}, 2, FALSE, 2)
       \cup Of({<<[k |-> "open"]>> \o s : s \in {y \in Upto(inside, 3) : y # <<>> /\ y[1].k # "close"}}, {"a", "b"}, 3, FALSE, 2)

\* Functions with none or one or two in them.
Chunks ==
    LET Fun(k, n, ps) ==
            [source |-> <<64, 120>>, linedefined |-> n, lastlinedefined |-> n + 1, numparams |-> 1, is_vararg |-> 0, maxstacksize |-> 2,
             code |-> [m \in 1..n |-> m], k |-> k, p |-> ps, lineinfo |-> [m \in 1..n |-> 9],
             upvalues |-> [m \in 1..n |-> [name |-> IF m = 1 THEN <<>> ELSE <<86>>, instack |-> 1, idx |-> m]],
             locvars |-> [m \in 1..n |-> [varname |-> [l \in 1..(m + 2) |-> 97], startpc |-> 0, endpc |-> m]]]
        text(n) == [t |-> 4, v |-> [m \in 1..n |-> 65]]
        consts  == {[t |-> 0, v |-> <<>>], [t |-> 1, v |-> <<1>>], [t |-> 3, v |-> <<7>>]} \cup {text(n) : n \in 0..4}
        leaves  == {Fun(k, n, <<>>) : k \in SeqOf(consts, 1), n \in 0..2}
        some    == {Fun(<<text(3)>>, 1, <<>>), Fun(<<>>, 0, <<>>)}
        deep    == {Fun(k, 1, ps) : k \in SeqOf(consts, 1), ps \in SeqOf(some, 2)}
        Of(fs, strips, cuts, ats) == {[f |-> f, strip |-> b, cut |-> x, at |-> y] : f \in fs, b \in strips, x \in cuts, y \in ats}
    IN Of(leaves \cup deep, BOOLEAN, {0}, {0}) \cup Of({Fun(<<text(4), text(1)>>, 1, <<Fun(<<>>, 0, <<>>)>>)}, BOOLEAN, 1..43, {0})
       \cup Of({Fun(<<>>, 1, <<>>)}, {FALSE}, {0}, DOMAIN Header)
=============================================================================

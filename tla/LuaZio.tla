------------------------------- MODULE LuaZio -------------------------------
(***************************************************************************)
(* The buffered input of lzio.c, and zlookc of llex.c, by which the lexer  *)
(* looks at the second byte of a Cyrillic letter before it reads it.       *)
(*                                                                         *)
(* The bytes of the input are known by their numbers.  The reader gives    *)
(* them in chunks, cut at arbitrary places; a chunk is gone when the next  *)
(* one is given.  z.p is the number of the byte z->p points at, z.given    *)
(* that of the last byte of the chunk in the buffer.                       *)
(***************************************************************************)
EXTENDS Integers, Sequences, FiniteSets, FiniteSetsExt

CONSTANTS
  Length,    \* bound: the length of the input
  SIZE_MAX   \* the largest size_t

ASSUME SizeAssumption ==
  Length \in Nat /\ SIZE_MAX \in Nat /\ Length < SIZE_MAX

EOZ == -1
Unknown == 0       \* what lies in memory behind a chunk
Nothing == -2      \* zlookc was not called

VARIABLES
  cuts,    \* SUBSET Nat: the bytes after which a chunk ends
  binary,  \* the input is a precompiled chunk
  z,       \* ZIO
  got,     \* Seq: what zgetc and luaZ_read have returned
  looked,  \* what zlookc has returned since
  looks    \* (history) whether the lexer has called zlookc

vars == <<cuts, binary, z, got, looked, looks>>

ZIO == [n : 0 .. SIZE_MAX, p : Nat, given : 0 .. Length]
minus1(n) == IF n = 0 THEN SIZE_MAX ELSE n - 1

Ended == got # <<>> /\ got[Len(got)] = EOZ

Byte(z0) == IF z0.p <= z0.given THEN z0.p ELSE Unknown

\* The reader is called: the last byte of the next chunk.
AtEnd(z0) == z0.given = Length
ChunkEnd(z0) == Min({c \in cuts \cup {Length} : c > z0.given})

\* The buffer has a new chunk; the first byte of it counts as read.
filled(z0) ==
  [n |-> ChunkEnd(z0) - z0.given - 1, p |-> z0.given + 1, given |-> ChunkEnd(z0)]

\* k bytes are taken from the buffer.
took(z0, k) == [z0 EXCEPT !.n = @ - k, !.p = @ + k]

Init ==
  /\ cuts \in SUBSET (1 .. Length - 1)
  /\ binary \in BOOLEAN
  /\ z = [n |-> 0, p |-> 1, given |-> 0]  \* no chunk yet: p is behind it
  /\ got = <<>>
  /\ looked = Nothing
  /\ looks = FALSE
-----------------------------------------------------------------------------
\* Fault: the byte that is returned stays in the buffer.
luaZ_fill_faulty(z0) == filled(z0)

\* luaZ_fill, when the reader gives a chunk; it returns the byte before p.
luaZ_fill(z0) == [filled(z0) EXCEPT !.p = @ + 1]

\* The lexer, and lua_load for the first byte.
zgetc ==
  /\ ~Ended
  /\ binary => got = <<>>
  /\ looked' = Nothing
  /\ IF z.n > 0
       THEN /\ z' = took(z, 1)
            /\ got' = Append(got, Byte(z))
     ELSE IF AtEnd(z)
       THEN /\ z' = [z EXCEPT !.n = minus1(@)]
            /\ got' = Append(got, EOZ)
     ELSE /\ z' = luaZ_fill(z)
          /\ got' = Append(got, Byte(filled(z)))
  /\ UNCHANGED <<cuts, binary, looks>>

\* A look at the next byte, while the lexer has one before it.
zlookc ==
  /\ looks' = TRUE
  /\ ~binary /\ ~Ended /\ got # <<>>
  /\ IF minus1(z.n) > 0
       THEN /\ looked' = Byte(z)
            /\ UNCHANGED z
     ELSE IF AtEnd(z)
       THEN /\ looked' = EOZ
            /\ UNCHANGED z
     ELSE /\ z' = filled(z)
          /\ looked' = Byte(filled(z))
  /\ UNCHANGED <<cuts, binary, got>>

\* Fault: the byte that luaZ_fill has read is not put back.
putback_faulty(z0) == luaZ_fill(z0)

putback(z0) == took(luaZ_fill(z0), -1)

\* Once around the loop of luaZ_read: r has what is still missing and what has
\* been returned so far.
Round(r) ==
  LET z0 == IF r.z.n = 0 THEN putback(r.z) ELSE r.z
      k  == Min({r.missing, z0.n})
  IN  IF r.z.n = 0 /\ AtEnd(r.z)
        THEN [r EXCEPT !.missing = 0, !.got = Append(@, EOZ)]
      ELSE [z |-> took(z0, k), missing |-> r.missing - k,
            got |-> r.got \o [i \in 1 .. k |-> Byte([z0 EXCEPT !.p = @ + i - 1])]]

\* luaZ_read(z, b, m).  Every round reads a byte, so m of them are enough.
luaZ_read(m) ==
  LET read[n \in 0 .. m] ==
        IF n = 0 THEN [z |-> z, missing |-> m, got |-> got]
        ELSE IF read[n - 1].missing = 0 THEN read[n - 1]
        ELSE Round(read[n - 1])
  IN  /\ binary /\ ~Ended /\ got # <<>>
      /\ z' = read[m].z
      /\ got' = read[m].got
      /\ UNCHANGED <<cuts, binary, looked, looks>>

Next == zgetc \/ zlookc \/ \E m \in 1 .. Length : luaZ_read(m)

Spec == Init /\ [][Next]_vars
-----------------------------------------------------------------------------
(* Properties.                                                             *)

\* The input arrives unchanged: every byte once, in its order, and the end
\* after the last one, wherever the reader cuts it; and what the lexer has seen
\* ahead is what comes next (lzio.h:21, lzio.c:47-66, llex.c:307-323).
Faithful ==
  /\ \A i \in DOMAIN got : got[i] = IF i <= Length THEN i ELSE EOZ
  /\ Len(got) <= Length + 1
  /\ looked = Nothing \/ looked = IF Len(got) = Length THEN EOZ ELSE Len(got) + 1

\* As long as the lexer does not look ahead, the input arrives unchanged, and
\* until the end was read z->n bytes are unread in the buffer (lzio.h:57).
FaithfulWithoutLook ==
  ~looks => Faithful /\ (~Ended => z.n = Cardinality(z.p .. z.given))

\* No byte is read twice or out of order, and none after the end, also when the
\* lexer looks ahead.
InOrder ==
  \A i, j \in DOMAIN got : i < j => got[i] # EOZ /\ (got[j] = EOZ \/ got[i] < got[j])
=============================================================================

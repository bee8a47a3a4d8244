----------------------------- MODULE LuaGC_Inv -----------------------------
(***************************************************************************)
(* The inductive invariant of LuaGC.  NoDangling is not inductive alone: a *)
(* step of the sweep frees what the marking missed, so the invariant must  *)
(* say what the marking has done so far and what is left for the sweep.    *)
(***************************************************************************)
EXTENDS LuaGC

\* The lists: only the main thread is in none, and what is free or a string
\* refers to nothing.
Shape ==
  /\ \A o \in Obj : list[o] = "mainthread" <=> o = MainThread
  /\ \A o \in Obj : list[o] = "free" \/ o \in String => refs[o] = {}

\* The C stack: each thread that waits still holds the one it resumed.
Chain ==
  /\ cstack[1] = MainThread
  /\ \A i \in 1 .. Len(cstack) - 1 : cstack[i + 1] \in refs[cstack[i]]
  /\ \A i, j \in 1 .. Len(cstack) : cstack[i] = cstack[j] => i = j

\* While marking: one white only, black objects are done, gray ones listed.
Marking ==
  keepinvariant =>
    /\ gray \cup grayagain \subseteq Allocated /\ gray \cap grayagain = {}
    /\ ~iswhite(MainThread)
    /\ \A o \in Allocated :
         /\ ~isdead(o)
         /\ isblack(o) => o \notin Thread /\ refs[o] \cap White = {}
         /\ isgray(o) <=> o \in gray \cup grayagain

\* Otherwise: the objects that may still be black or gray.
Unswept ==
  CASE gcstate = "GCSswpallgc" -> tosweep \cup Linked("finobj")
                                    \cup Linked("tobefnz") \cup {MainThread}
    [] gcstate = "GCSswpfinobj" -> tosweep \cup Linked("tobefnz") \cup {MainThread}
    [] gcstate = "GCSswptobefnz" -> Linked("tobefnz") \cup {MainThread}
    [] gcstate = "GCSswpend" -> {MainThread}
    [] OTHER -> {}

Sweeping ==
  ~keepinvariant =>
    /\ gcstate = "GCSswpallgc" => tosweep \subseteq Linked("allgc")
    /\ gcstate = "GCSswpfinobj" => tosweep \subseteq Linked("finobj")
    /\ gcstate = "GCSswptobefnz" => tosweep = Linked("tobefnz")
    /\ \A o \in Allocated :
         /\ ~iswhite(o) => o \in Unswept
         /\ isdead(o) => gcstate = "GCSswpallgc" /\ o \in tosweep

\* The inductive invariant, as long as FewToFinalize holds.
IInv == TypeOK /\ Shape /\ Chain /\ NoDangling /\ Marking /\ Sweeping

\* What waits for its finalizer was marked first of all, in restartcollection.
PendingMarked == keepinvariant => \A o \in Linked("tobefnz") : ~iswhite(o)

\* The cycle of an emergency collection runs without the program, so it marks
\* no garbage, and its sweep leaves none.
NoFloating ==
  fullgc = "collect" /\ gckind = "KGC_EMERGENCY" =>
    \A o \in Garbage : IF keepinvariant THEN iswhite(o) ELSE isdead(o)
=============================================================================

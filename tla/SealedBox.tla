------------------------------ MODULE SealedBox ------------------------------
(***************************************************************************)
(* What a container promises, whatever its format: somebody fills a box,   *)
(* the box may suffer marks on the way, and whoever opens it gets a reply  *)
(* that the marks allow.                                                   *)
(***************************************************************************)
VARIABLES
    box,       \* "none", "old" (of an earlier run), "torn" or "sealed"
    marks,     \* the kinds of damage it has suffered
    haskey,    \* whether the reader has the keys it needs
    reply      \* what opening it came to, "none" before

vars == <<box, marks, haskey, reply>>

\* header: the part the signature covers, and the signature; contents: data a
\* digest covers; gap: data no digest covers; slack: padding.
Marks == {"header", "contents", "gap", "slack"}

\* unpack: exact or altered contents; verify: genuine, forged, or unsure
\* when nothing is wrong but a section could not be checked.
Replies == {"exact", "altered", "genuine", "forged", "unsure", "refused", "undefined"}

TypeOK ==
    /\ box \in {"none", "old", "torn", "sealed"}
    /\ marks \subseteq Marks
    /\ haskey \in BOOLEAN
    /\ reply \in Replies \cup {"none"}

Opened == box = "sealed" /\ haskey

Permitted(r) ==
    CASE r = "exact"     -> Opened /\ marks \cap {"contents", "gap"} = {}
      [] r = "altered"   -> Opened /\ marks \cap {"header", "contents", "gap"} # {}
      [] r = "genuine"   -> Opened /\ marks \cap {"header", "contents"} = {}
      [] r = "forged"    -> Opened /\ marks \cap {"header", "contents"} # {}
      [] r = "unsure"    -> Opened /\ "header" \notin marks
      [] r = "refused"   -> \/ box = "none"
                            \/ box = "sealed" /\ ~haskey
                            \/ box = "sealed" /\ marks \cap {"header", "contents"} # {}
      [] r = "undefined" -> box = "torn" \/ "header" \in marks

-----------------------------------------------------------------------------
Init ==
    /\ box \in {"none", "old"}
    /\ marks = {}
    /\ haskey \in BOOLEAN
    /\ reply = "none"

Fill ==
    /\ reply = "none" /\ box # "sealed"
    /\ box' \in {"torn", "sealed"}
    /\ UNCHANGED <<marks, haskey, reply>>

Mark ==
    /\ reply = "none" /\ box = "sealed"
    /\ \E m \in Marks : marks' = marks \cup {m}
    /\ UNCHANGED <<box, haskey, reply>>

Answer ==
    /\ reply = "none" /\ box # "old"
    /\ \E r \in Replies : Permitted(r) /\ reply' = r
    /\ UNCHANGED <<box, marks, haskey>>

Next == Fill \/ Mark \/ Answer

\* What may happen, and that whoever opens a box is answered in the end.
Safety == Init /\ [][Next]_vars

Spec == Safety /\ WF_vars(Answer)
=============================================================================

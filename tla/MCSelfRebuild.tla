---------------------------- MODULE MCSelfRebuild ----------------------------
(* Originals of one to three segments, the second and the third before, behind *)
(* or at the end of the first; new files of one or three program headers that   *)
(* fit at level 6, at level 7, at level 9, at none, or grow at level 7.        *)
EXTENDS SelfRebuild

Spans == {<<0, 4>>, <<4, 3>>, <<2, 6>>}
Segments == {[off |-> s[1], len |-> s[2], load |-> l, zlen |-> z] :
                s \in Spans, l \in BOOLEAN, z \in {3, 6}}
Used == {g \in Segments : ~g.load => g.zlen = 6}

\* makeself's phdr_map.
LaidOut(g) ==
    LET at[k \in 1 .. Len(g)] ==
            IF k = 1 THEN HeaderSize ELSE round_up(at[k - 1] + Size(g[k - 1]), Alignment)
    IN  [k \in 1 .. Len(g) |-> [at |-> at[k], off |-> g[k].off, len |-> g[k].len,
                                load |-> g[k].load, zlen |-> g[k].zlen]]

MCOriginals == {[size |-> 8, phdr |-> LaidOut(g)] : g \in UNION {[1 .. n -> Used] : n \in 1 .. 3}}

At6(a, b, c, d) == [l \in 6 .. 9 |-> CASE l = 6 -> a [] l = 7 -> b [] l = 8 -> c [] l = 9 -> d]
Compressed == {At6(2, 2, 2, 2), At6(4, 3, 3, 3), At6(4, 4, 4, 2), At6(3, 3, 3, 3), At6(3, 4, 2, 2)}
MCInputs == {<<a>> : a \in Compressed} \union {<<a, b, a>> : a, b \in Compressed}
===============================================================================

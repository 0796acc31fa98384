---------------------------- MODULE MCSelfSections ----------------------------
(* Constants for UnselfTools. *)
EXTENDS UnselfTools

-----------------------------------------------------------------------------
(* unself: ELF files of up to three segments, in any order, overlapping or    *)
(* apart, deflatable, incompressible or not loadable.                         *)

Kinds == { [load |-> TRUE, zlen |-> 1], [load |-> TRUE, zlen |-> 4],
           [load |-> FALSE, zlen |-> 1] }

Segments == { [off |-> o, len |-> l, load |-> k.load, zlen |-> k.zlen] :
                o \in {0, 2, 3, 7}, l \in {0, 2, 4}, k \in Kinds }

MCElfs == { [size |-> s, phdr |-> p, shnum |-> n] :
              s \in {11, 12}, n \in {0, 1},
              p \in [1 .. 1 -> Segments] \cup [1 .. 2 -> Segments]
                    \cup {q \in [1 .. 3 -> Segments] : q[1].off = 0 /\ q[2].off >= 2
                                                      /\ q[3].off >= 2 /\ q[2].len # 0} }

-----------------------------------------------------------------------------
(* unself2: ELF files of eight units, the first two the headers, the last the  *)
(* section headers: three segments that follow, overlap or contain each other, *)
(* from the start of the file or behind the headers.                           *)

LoadSegments == {[off |-> s[1], len |-> s[2], load |-> l, zlen |-> z] :
                    s \in {<<0, 4>>, <<2, 2>>, <<3, 3>>, <<5, 2>>, <<2, 4>>},
                    l \in BOOLEAN, z \in {1, 4}}
Shapes == {p \in [1 .. 3 -> LoadSegments] : \A k \in 1 .. 3 : ~p[k].load => p[k].zlen = 4}

MCLoadElfs == {[size |-> 8, phdr |-> p, shoff |-> 7, shnum |-> 1] : p \in Shapes}

-----------------------------------------------------------------------------
(* NPDRM: areas of up to two units, whose headers give every licence type, a  *)
(* block size of zero, one that fits, one too large and one that wraps.       *)

BlockHeaders ==
    [type : {1}, size : {0, 1, 2, 7}, licence : {0}]
    \union [type : {3}, size : {0, 1, 7}, licence : {1, 2, 3, 9}]

MCAreas == {<<>>} \union [1 .. 1 -> BlockHeaders] \union [1 .. 2 -> BlockHeaders]
===============================================================================

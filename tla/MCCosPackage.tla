----------------------------- MODULE MCCosPackage -----------------------------
(* Constants for PackageTools. *)
EXTENDS PackageTools

-----------------------------------------------------------------------------
(* cospkg: up to three files (and one more than the table holds), two of them *)
(* with the same head of their names.                                         *)

Dots == {[name |-> ".", dot |-> TRUE, size |-> 0]}

File(nm, short, size) == [name |-> nm, short |-> short, long |-> FALSE, regular |-> TRUE,
                          dot |-> FALSE, size |-> size]
Odd == {[name |-> "d", short |-> "d", long |-> l, regular |-> ~l, dot |-> FALSE, size |-> 1] :
          l \in BOOLEAN}

Good == { {File("a", "a", s), File("b", "b", t)} \cup more : s \in 0 .. 4, t \in 0 .. 3,
            more \in {{}, {File("b2", "b", 0)}, {File("b2", "b", 1)}, {File("b2", "b", 2)}} }

MCDirectories ==
    {Dots} \cup {Dots \cup g : g \in Good}
           \cup {Dots \cup {File("a", "a", 1), o} : o \in Odd}
           \cup {Dots \cup {File("a", "a", 1), File("b", "b", 0), File("c", "c", 1),
                            File("e", "e", 1)}}

-----------------------------------------------------------------------------
(* puppack: up to four of four names, of sizes 0 to 2, and a table with room   *)
(* for three.                                                                  *)

MCNames == <<"version.txt", "license.xml", "vsh.tar", "dots.txt">>

MCInputs ==
    UNION {[S -> 0 .. 2] : S \in {{}, {"license.xml"}, {"version.txt", "vsh.tar"}}}
    \cup UNION {[S -> {1}] : S \in {{"version.txt", "license.xml", "dots.txt"},
                                    {"version.txt", "license.xml", "vsh.tar", "dots.txt"}}}
    \cup {[f \in {"license.xml", "vsh.tar", "dots.txt"} |-> IF f = "dots.txt" THEN 1 ELSE 0]}
===============================================================================

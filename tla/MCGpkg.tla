-------------------------------- MODULE MCGpkg --------------------------------
(* Constants for KeyedTools.  ungpkg: tables of three entries over two         *)
(* directories, one inside the other, and files in and beside them; data of    *)
(* no, less than one, one and more blocks, and as many bytes as a counter has  *)
(* values.  dat and undat: texts of no, less than one, one, more than one and  *)
(* two blocks.                                                                 *)
EXTENDS KeyedTools

Paths == {<<"a">>, <<"a", "b">>, <<"a", "b", "c">>}
MCEntries == {[name |-> n, len |-> l, flags |-> f, at |-> a, size |-> 1] :
                n \in Paths, l \in {2}, f \in {1, 4}, a \in {3, 4}}
             \union {[name |-> <<"a">>, len |-> 2, flags |-> 259, at |-> 3, size |-> 2],
                     [name |-> <<"a">>, len |-> 3, flags |-> 1, at |-> 3, size |-> 2],
                     [name |-> <<"a">>, len |-> 2, flags |-> 2, at |-> 3, size |-> 2]}

MCPackages ==
    {[retail |-> r, type |-> 1, size |-> 5, table |-> t] : r \in BOOLEAN, t \in [1 .. 3 -> MCEntries]}
    \union {[retail |-> r, type |-> y, size |-> n, table |-> <<>>] :
               r \in BOOLEAN, y \in {1, 2}, n \in 0 .. 9}
===============================================================================

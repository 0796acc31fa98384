-------------------------------- MODULE MCNor --------------------------------
(* Dumps with tables at three addresses of up to two entries each: a loader, a *)
(* ros and a file, which may be reached on two ways or contain each other.     *)
EXTENDS Nor

MCFiles == {[name |-> n, off |-> o, size |-> 2] :
              n \in {"asecure_loader", "ros0", "f"}, o \in {0, 1, 2}}
           \union {[name |-> "g", off |-> 2, size |-> 3]}
MCTocs == UNION {[1 .. n -> MCFiles] : n \in 0 .. 2}
Small  == {t \in MCTocs : Len(t) = 2 => t[2].name \in {"f", "g"}}
MCDumps ==
    {[toc |-> [a \in {1, 2, 4} |-> CASE a = 1 -> t1 [] a = 2 -> t2 [] a = 4 -> t4], sce |-> s] :
        t1 \in MCTocs, t2 \in {t \in Small : Len(t) # 1}, t4 \in {t \in Small : Len(t) = 1},
        s \in {{}, {3, 4}}}
===============================================================================

---------------------------------- MODULE Nor ----------------------------------
(***************************************************************************)
(* norunpack: the tables of a flash dump are unpacked recursively, each    *)
(* into a directory of its own, with the process changing directory as it  *)
(* descends and returns.                                                   *)
(*                                                                         *)
(* Addresses count in units of 0x10 bytes.                                 *)
(***************************************************************************)
EXTENDS Integers, Sequences

CONSTANTS
    Dumps,      \* [toc, sce]: tables by address, and addresses of a SCE magic
    Base,       \* where the outermost table is (0x400)
    Target,     \* the directory named on the command line
    Loader,     \* the name asecure_loader
    Ros,        \* names that start with ros
    Names,      \* other names
    MaxDepth    \* how many frames the C stack has room for

File == [name : Names \union Ros \union {Loader}, off : Nat, size : Nat]

\* Names of tables are not names of files.
NorAssumption ==
    /\ Base \in Nat /\ MaxDepth \in Nat \ {0}
    /\ Loader \notin Names \union Ros /\ Names \intersect Ros = {}
    /\ \A d \in Dumps : \A a \in DOMAIN d.toc : a \in Nat /\ d.toc[a] \in Seq(File)

ASSUME NorAssumption

VARIABLES
    dump,
    pc,
    stack,   \* do_toc's frames: [ptr, i, dir]
    cwd,     \* the process's directory: a path
    fs       \* Dir, or [at, size] of a file, by path

vars == <<dump, pc, stack, cwd, fs>>

Dir == <<>>
Root == <<>>

Frame(ptr, dir) == [ptr |-> ptr, i |-> 1, dir |-> dir]
Top == stack[Len(stack)]
Above == SubSeq(stack, 1, Len(stack) - 1)
Table == dump.toc[Top.ptr]
Current == Table[Top.i]
HasTable == Top.ptr \in DOMAIN dump.toc
Path(name) == Append(cwd, name)
With(path, what) == [q \in DOMAIN fs \union {path} |-> IF q = path THEN what ELSE fs[q]]

Init ==
    /\ dump \in Dumps
    /\ pc = "start" /\ stack = <<>> /\ cwd = Root
    /\ fs = [path \in {Root} |-> Dir]

Stop(how) == pc' = how /\ UNCHANGED <<dump, stack, cwd, fs>>

\* new_dir and do_toc.  mkdir may find the directory there; nothing but a table
\* has a table's name, so that chdir finds one.
Enter(name, ptr, frames) ==
    /\ fs' = With(Path(name), Dir)
    /\ cwd' = Path(name)
    /\ stack' = Append(frames, Frame(ptr, name))
    /\ pc' = "run"
    /\ UNCHANGED dump

Start ==
    /\ pc = "start"
    /\ Enter(Target, Base, <<>>)

\* The caller goes on behind the entry when the call returns.
Called == Append(Above, [Top EXCEPT !.i = @ + 1])

CanRun == pc = "run" /\ stack # <<>> /\ Len(stack) <= MaxDepth

\* Mutant: the table is looked for from the start of the dump.
EnterLoaderAbsolute ==
    /\ CanRun /\ HasTable /\ Top.i <= Len(Table) /\ Current.name = Loader
    /\ Enter(Loader, Current.off, Called)

EnterLoader ==
    /\ CanRun /\ HasTable /\ Top.i <= Len(Table) /\ Current.name = Loader
    /\ Enter(Loader, Top.ptr + Current.off, Called)

\* Mutant: the caller sees the same entry again.
EnterRosAgain ==
    /\ CanRun /\ HasTable /\ Top.i <= Len(Table) /\ Current.name \in Ros
    /\ Enter(Current.name, Top.ptr + Current.off + 1, stack)

\* A ros table has one unit in front of it.
EnterRos ==
    /\ CanRun /\ HasTable /\ Top.i <= Len(Table) /\ Current.name \in Ros
    /\ Enter(Current.name, Top.ptr + Current.off + 1, Called)

\* What is written: without the unit in front of a SCE magic.
Stripped(ptr, e) ==
    IF ptr + e.off + 1 \in dump.sce THEN [at |-> ptr + e.off + 1, size |-> e.size - 1]
    ELSE [at |-> ptr + e.off, size |-> e.size]

WriteFile ==
    /\ CanRun /\ HasTable /\ Top.i <= Len(Table) /\ Current.name \in Names
    /\ fs' = With(Path(Current.name), Stripped(Top.ptr, Current))
    /\ stack' = Called
    /\ UNCHANGED <<dump, pc, cwd>>

\* Mutant: out of one table only.
ReturnInside ==
    /\ CanRun /\ HasTable /\ Top.i > Len(Table)
    /\ stack' = Above
    /\ cwd' = IF Len(stack) = 2 THEN SubSeq(cwd, 1, Len(cwd) - 1) ELSE cwd
    /\ pc' = IF Len(stack) = 1 THEN "done" ELSE pc
    /\ UNCHANGED <<dump, fs>>

\* The caller changes directory back; main does not.
Return ==
    /\ CanRun /\ HasTable /\ Top.i > Len(Table)
    /\ stack' = Above
    /\ cwd' = IF Len(stack) > 1 THEN SubSeq(cwd, 1, Len(cwd) - 1) ELSE cwd
    /\ pc' = IF Len(stack) = 1 THEN "done" ELSE pc
    /\ UNCHANGED <<dump, fs>>

\* An address with no table, or a table inside itself.
Overrun ==
    /\ pc = "run" /\ stack # <<>>
    /\ ~HasTable \/ Len(stack) > MaxDepth
    /\ Stop("crashed")

Next == Start \/ EnterLoader \/ EnterRos \/ WriteFile \/ Return \/ Overrun

Spec == Init /\ [][Next]_vars /\ WF_vars(Next)

-----------------------------------------------------------------------------
(* Properties. *)

\* Types and bounds: a frame is at an entry of its table, or behind the last.
TypeOK ==
    /\ pc \in {"start", "run", "done", "crashed"}
    /\ stack \in Seq([ptr : Nat, i : Nat \ {0}, dir : Names \union Ros \union {Loader, Target}])
    /\ \A k \in 1 .. Len(stack) :
          stack[k].ptr \in DOMAIN dump.toc => stack[k].i <= Len(dump.toc[stack[k].ptr]) + 1
    /\ cwd \in Seq(Names \union Ros \union {Loader, Target})

\* The process is in the directory of the table it is reading: every return
\* undoes exactly its own change of directory, however deep the tables nest.
CwdIsStack ==
    pc = "run" =>
        /\ Len(cwd) = Len(stack)
        /\ \A k \in 1 .. Len(stack) : cwd[k] = stack[k].dir

\* An entry of the dump by its place, <<table, index>>, and the table it names.
Spots == UNION {{<<a, k>> : k \in 1 .. Len(dump.toc[a])} : a \in DOMAIN dump.toc}
At(s)    == dump.toc[s[1]][s[2]]
Inner(s) == s[1] + At(s).off + (IF At(s).name \in Ros THEN 1 ELSE 0)

\* A way goes from an entry of the outermost table to one of the table that
\* entry names, and so on; Ways are those the C stack has room for.
IsWay(w) ==
    /\ w[1][1] = Base
    /\ \A k \in 1 .. Len(w) - 1 : At(w[k]).name \notin Names /\ w[k + 1][1] = Inner(w[k])
Ways == {w \in UNION {[1 .. n -> Spots] : n \in 1 .. MaxDepth} : IsWay(w)}

End(w)    == w[Len(w)]
PathTo(w) == [k \in 1 .. Len(w) + 1 |-> IF k = 1 THEN Target ELSE At(w[k - 1]).name]

\* The files of all tables.
FileWays == {w \in Ways : At(End(w)).name \in Names}
Files    == {<<PathTo(w), Stripped(End(w)[1], At(End(w)))>> : w \in FileWays}

\* When the program finishes, the files in the tree are those of all tables, in
\* the directories of their tables, and none else.
ExactTree ==
    pc = "done" =>
        LET out == {path \in DOMAIN fs : fs[path] # Dir}
        IN  /\ out = {f[1] : f \in Files}
            /\ \A path \in out : <<path, fs[path]>> \in Files

\* Tables that nest deeper than the C stack; tables that are all there.
Deep  == \E w \in Ways : Len(w) = MaxDepth /\ At(End(w)).name \notin Names
Whole == /\ Base \in DOMAIN dump.toc
         /\ \A w \in Ways \ FileWays : Inner(End(w)) \in DOMAIN dump.toc

\* A dump whose tables are all there and do not nest deeper than the C stack is
\* unpacked to the end: every call returns, and every caller goes on.
WholeComesOut == Whole /\ ~Deep ~> pc = "done"
===============================================================================

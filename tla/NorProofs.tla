------------------------------- MODULE NorProofs -------------------------------
(***************************************************************************)
(* Proofs about Nor: for every dump, however its tables nest, contain each *)
(* other or are missing, and for every depth of the C stack.               *)
(***************************************************************************)
EXTENDS Nor, SequenceTheorems, TLAPS

TocName == Ros \union {Loader, Target}
DirName == Names \union TocName
FrameSet == [ptr : Nat, i : Nat \ {0}, dir : DirName]

\* A frame is at an entry of its table or behind the last one.
InTable(f) == f.ptr \in DOMAIN dump.toc => f.i <= Len(dump.toc[f.ptr]) + 1

\* Before main has entered the target, and while it has called do_toc.
Calling ==
    /\ pc = "start" => stack = <<>> /\ cwd = <<>>
    /\ pc = "run" => stack # <<>>

IInv ==
    /\ dump \in Dumps
    /\ TypeOK
    /\ Calling
    /\ CwdIsStack

-----------------------------------------------------------------------------
\* A sequence without its last element.
LEMMA Shorter ==
    ASSUME NEW S, NEW s \in Seq(S), Len(s) # 0
    PROVE  LET t == SubSeq(s, 1, Len(s) - 1)
           IN  t \in Seq(S) /\ Len(t) = Len(s) - 1 /\ \A k \in 1 .. Len(s) - 1 : t[k] = s[k]
<1> DEFINE n == Len(s) - 1
<1>1. n \in Nat /\ n \in Int /\ Len(s) = n + 1 OBVIOUS
<1>2. \A k \in 1 .. n : s[k] \in S BY <1>1
<1> HIDE DEF n
<1>3. /\ SubSeq(s, 1, n) \in Seq(S)
      /\ Len(SubSeq(s, 1, n)) = IF 1 <= n THEN n - 1 + 1 ELSE 0
      /\ \A k \in 1 .. n - 1 + 1 : SubSeq(s, 1, n)[k] = s[1 + k - 1]
  <2>1. 1 \in Int OBVIOUS
  <2> QED BY <1>1, <1>2, <2>1, SubSeqProperties
<1> DEFINE t == SubSeq(s, 1, n)
<1>4. t \in Seq(S) /\ Len(t) = n
  <2>1. (IF 1 <= n THEN n - 1 + 1 ELSE 0) = n BY <1>1
  <2> QED BY <1>3, <2>1
<1>5. \A k \in 1 .. n : t[k] = s[k]
  <2> HIDE DEF t
  <2>1. \A k \in 1 .. n : k \in 1 .. n - 1 + 1 /\ 1 + k - 1 = k BY <1>1
  <2>2. \A k \in 1 .. n - 1 + 1 : t[k] = s[1 + k - 1] BY <1>3 DEF t
  <2> QED BY <2>1, <2>2
<1> QED BY <1>4, <1>5 DEF n

LEMMA Tocs ==
    ASSUME NEW d \in Dumps, NEW a \in DOMAIN d.toc
    PROVE  a \in Nat /\ d.toc[a] \in Seq(File)
BY NorAssumption DEF NorAssumption

\* The frame on top, and the entry it is at.
LEMMA TopTyped ==
    ASSUME IInv, stack # <<>>
    PROVE  /\ Len(stack) \in Nat \ {0} /\ Top \in FrameSet
           /\ HasTable => Table \in Seq(File) /\ Top.i <= Len(Table) + 1
           /\ HasTable /\ Top.i <= Len(Table) => Current \in File
<1>1. stack \in Seq(FrameSet) BY DEF IInv, TypeOK, FrameSet, DirName, TocName
<1>2. Len(stack) \in Nat \ {0} BY <1>1, EmptySeq
<1>3. Top \in FrameSet BY <1>1, <1>2 DEF Top
<1>4. ASSUME HasTable PROVE Table \in Seq(File) /\ Top.i <= Len(Table) + 1
  <2>1. Table \in Seq(File) BY <1>4, Tocs DEF IInv, HasTable, Table
  <2>2. Len(stack) \in 1 .. Len(stack) BY <1>2
  <2>3. stack[Len(stack)].i <= Len(dump.toc[stack[Len(stack)].ptr]) + 1
    BY <1>4, <2>2 DEF IInv, TypeOK, HasTable, Top
  <2> QED BY <2>1, <2>3 DEF Top, Table
<1>5. ASSUME HasTable, Top.i <= Len(Table) PROVE Current \in File
  BY <1>3, <1>4, <1>5 DEF Current, FrameSet
<1> QED BY <1>2, <1>3, <1>4, <1>5

\* What the caller's stack looks like when a call returns to it: the same
\* tables and directories, one entry on.
LEMMA CalledIs ==
    ASSUME IInv, stack # <<>>, HasTable, Top.i <= Len(Table)
    PROVE  /\ Called \in Seq(FrameSet) /\ Len(Called) = Len(stack)
           /\ \A k \in 1 .. Len(stack) : Called[k].dir = stack[k].dir
           /\ \A k \in 1 .. Len(stack) : InTable(Called[k])
           /\ \A k \in 1 .. Len(stack) - 1 : Called[k] = stack[k]
           /\ Called[Len(stack)].ptr = Top.ptr /\ Called[Len(stack)].i = Top.i + 1
<1>1. stack \in Seq(FrameSet) BY DEF IInv, TypeOK, FrameSet, DirName, TocName
<1>2. Len(stack) \in Nat \ {0} /\ Top \in FrameSet BY TopTyped
<1> DEFINE f == [Top EXCEPT !.i = @ + 1]
<1>3. f \in FrameSet /\ f.dir = Top.dir /\ f.ptr = Top.ptr /\ f.i = Top.i + 1
  BY <1>2 DEF FrameSet
<1>4. Above \in Seq(FrameSet) /\ Len(Above) = Len(stack) - 1
      /\ \A k \in 1 .. Len(stack) - 1 : Above[k] = stack[k]
  BY <1>1, <1>2, Shorter DEF Above
<1>5. Called = Append(Above, f) BY DEF Called
<1> HIDE DEF f
<1>6. Called \in Seq(FrameSet) /\ Len(Called) = Len(stack)
  BY <1>2, <1>3, <1>4, <1>5
<1>7. /\ \A k \in 1 .. Len(stack) - 1 : Called[k] = stack[k]
      /\ Called[Len(stack)] = f
  BY <1>2, <1>3, <1>4, <1>5
<1>8. \A k \in 1 .. Len(stack) - 1 : InTable(stack[k])
  <2>1. \A k \in 1 .. Len(stack) - 1 : k \in 1 .. Len(stack) BY <1>2
  <2> QED BY <2>1 DEF IInv, TypeOK, InTable
<1>9. InTable(f)
  <2>1. Top.i \in Nat /\ Len(Table) \in Nat BY <1>2, TopTyped DEF FrameSet
  <2>2. f.i <= Len(dump.toc[f.ptr]) + 1 BY <2>1, <1>3 DEF Table
  <2> QED BY <2>2 DEF InTable
<1>10. \A k \in 1 .. Len(stack) : k \in 1 .. Len(stack) - 1 \/ k = Len(stack)
  BY <1>2
<1>11. ASSUME NEW k \in 1 .. Len(stack) PROVE Called[k].dir = stack[k].dir /\ InTable(Called[k])
  <2>1. CASE k \in 1 .. Len(stack) - 1 BY <2>1, <1>7, <1>8
  <2>2. CASE k = Len(stack) BY <2>2, <1>7, <1>3, <1>9 DEF Top
  <2> QED BY <2>1, <2>2, <1>10
<1> QED BY <1>3, <1>6, <1>7, <1>11

\* A frame that has just been made is at the first entry of its table.
LEMMA FrameIs ==
    ASSUME NEW d \in Dumps, NEW ptr \in Nat, NEW name \in DirName, d = dump
    PROVE  /\ Frame(ptr, name) \in FrameSet /\ InTable(Frame(ptr, name))
           /\ Frame(ptr, name).dir = name
<1>1. Frame(ptr, name) \in FrameSet /\ Frame(ptr, name).dir = name
      /\ Frame(ptr, name).ptr = ptr /\ Frame(ptr, name).i = 1
  BY DEF Frame, FrameSet
<1>2. ASSUME ptr \in DOMAIN dump.toc PROVE 1 <= Len(dump.toc[ptr]) + 1
  BY <1>2, Tocs
<1> QED BY <1>1, <1>2 DEF InTable

\* Entering a table keeps the process in the directory of the frame on top.
LEMMA EnterKeeps ==
    ASSUME IInv, NEW name \in DirName, NEW ptr \in Nat, NEW frames,
           frames \in Seq(FrameSet), Len(frames) = Len(cwd),
           \A k \in 1 .. Len(frames) : cwd[k] = frames[k].dir,
           \A k \in 1 .. Len(frames) : InTable(frames[k]),
           Enter(name, ptr, frames)
    PROVE  IInv'
<1> DEFINE f == Frame(ptr, name)
<1>1. f \in FrameSet /\ InTable(f) /\ f.dir = name BY FrameIs DEF IInv
<1>2. cwd \in Seq(DirName) BY DEF IInv, TypeOK, DirName, TocName
<1>3. cwd' = Append(cwd, name) /\ stack' = Append(frames, f) /\ pc' = "run" /\ dump' = dump
  BY DEF Enter, Path
<1> HIDE DEF f
<1>4. stack' \in Seq(FrameSet) /\ Len(stack') = Len(frames) + 1
      /\ (\A k \in 1 .. Len(frames) : stack'[k] = frames[k]) /\ stack'[Len(frames) + 1] = f
  BY <1>1, <1>3
<1>5. cwd' \in Seq(DirName) /\ Len(cwd') = Len(cwd) + 1
      /\ (\A k \in 1 .. Len(cwd) : cwd'[k] = cwd[k]) /\ cwd'[Len(cwd) + 1] = name
  BY <1>2, <1>3
<1>6. ASSUME NEW k \in 1 .. Len(stack')
      PROVE  cwd'[k] = stack'[k].dir /\ InTable(stack'[k])
  <2>1. k \in 1 .. Len(frames) \/ k = Len(frames) + 1 BY <1>4
  <2>2. CASE k \in 1 .. Len(frames) BY <2>2, <1>4, <1>5
  <2>3. CASE k = Len(frames) + 1 BY <2>3, <1>1, <1>4, <1>5
  <2> QED BY <2>1, <2>2, <2>3
<1>7. TypeOK'
  <2>1. \A k \in 1 .. Len(stack') :
           stack'[k].ptr \in DOMAIN dump'.toc => stack'[k].i <= Len(dump'.toc[stack'[k].ptr]) + 1
    BY <1>3, <1>6 DEF InTable
  <2> QED BY <2>1, <1>3, <1>4, <1>5 DEF TypeOK, FrameSet, DirName, TocName
<1>8. Calling' BY <1>3, <1>4 DEF Calling
<1>9. CwdIsStack' BY <1>4, <1>5, <1>6 DEF CwdIsStack
<1> QED BY <1>3, <1>7, <1>8, <1>9 DEF IInv

-----------------------------------------------------------------------------
LEMMA InitIInv == Init => IInv
<1> SUFFICES ASSUME Init PROVE IInv OBVIOUS
<1>1. dump \in Dumps /\ pc = "start" /\ stack = <<>> /\ cwd = <<>> BY DEF Init, Root
<1>2. TypeOK BY <1>1 DEF TypeOK
<1> QED BY <1>1, <1>2 DEF IInv, Calling, CwdIsStack

\* Every step keeps the invariant.
LEMMA NextIInv == IInv /\ [Next]_vars => IInv'
<1> SUFFICES ASSUME IInv, [Next]_vars PROVE IInv' OBVIOUS
<1>1. CASE Start
  <2>1. stack = <<>> /\ cwd = <<>> BY <1>1 DEF IInv, Calling, Start
  <2>2. Target \in DirName /\ Base \in Nat BY NorAssumption DEF NorAssumption, DirName, TocName
  <2>3. Enter(Target, Base, <<>>) BY <1>1 DEF Start
  <2>4. <<>> \in Seq(FrameSet) /\ Len(<<>>) = Len(cwd) /\ Len(<<>>) = 0 BY <2>1
  <2>5. /\ \A k \in 1 .. Len(<<>>) : cwd[k] = <<>>[k].dir
        /\ \A k \in 1 .. Len(<<>>) : InTable(<<>>[k])
    BY <2>4
  <2> QED BY <2>2, <2>3, <2>4, <2>5, EnterKeeps
<1>2. CASE EnterLoader
  <2>1. CanRun /\ HasTable /\ Top.i <= Len(Table) /\ Enter(Loader, Top.ptr + Current.off, Called)
    BY <1>2 DEF EnterLoader
  <2>2. stack # <<>> /\ CwdIsStack /\ pc = "run" BY <2>1 DEF CanRun, IInv
  <2>3. Top.ptr + Current.off \in Nat BY <2>1, <2>2, TopTyped DEF File, FrameSet
  <2>4. Loader \in DirName BY DEF DirName, TocName
  <2> QED BY <2>1, <2>2, <2>3, <2>4, CalledIs, EnterKeeps DEF CwdIsStack
<1>3. CASE EnterRos
  <2>1. CanRun /\ HasTable /\ Top.i <= Len(Table) /\ Current.name \in Ros
        /\ Enter(Current.name, Top.ptr + Current.off + 1, Called)
    BY <1>3 DEF EnterRos
  <2>2. stack # <<>> /\ CwdIsStack /\ pc = "run" BY <2>1 DEF CanRun, IInv
  <2>3. Top.ptr + Current.off + 1 \in Nat BY <2>1, <2>2, TopTyped DEF File, FrameSet
  <2>4. Current.name \in DirName BY <2>1 DEF DirName, TocName
  <2> QED BY <2>1, <2>2, <2>3, <2>4, CalledIs, EnterKeeps DEF CwdIsStack
<1>4. CASE WriteFile
  <2>1. CanRun /\ HasTable /\ Top.i <= Len(Table) /\ stack' = Called
        /\ dump' = dump /\ pc' = pc /\ cwd' = cwd
    BY <1>4 DEF WriteFile
  <2>2. stack # <<>> /\ CwdIsStack /\ pc = "run" BY <2>1 DEF CanRun, IInv
  <2>3. /\ Called \in Seq(FrameSet) /\ Len(Called) = Len(stack) /\ Len(stack) \in Nat \ {0}
        /\ \A k \in 1 .. Len(stack) : Called[k].dir = stack[k].dir
        /\ \A k \in 1 .. Len(stack) : InTable(Called[k])
    BY <2>1, <2>2, CalledIs, TopTyped
  <2>4. TypeOK'
    <3>1. \A k \in 1 .. Len(stack') :
             stack'[k].ptr \in DOMAIN dump'.toc => stack'[k].i <= Len(dump'.toc[stack'[k].ptr]) + 1
      BY <2>1, <2>3 DEF InTable
    <3> QED BY <3>1, <2>1, <2>3 DEF IInv, TypeOK, FrameSet, DirName, TocName
  <2>5. Calling'
    <3>1. stack' # <<>> BY <2>1, <2>3
    <3> QED BY <3>1, <2>1, <2>2 DEF Calling
  <2>6. CwdIsStack' BY <2>1, <2>2, <2>3 DEF CwdIsStack
  <2> QED BY <2>1, <2>4, <2>5, <2>6 DEF IInv
<1>5. CASE Return
  <2>1. /\ CanRun /\ HasTable /\ stack' = Above /\ dump' = dump
        /\ cwd' = IF Len(stack) > 1 THEN SubSeq(cwd, 1, Len(cwd) - 1) ELSE cwd
        /\ pc' = IF Len(stack) = 1 THEN "done" ELSE pc
    BY <1>5 DEF Return
  <2>2. stack # <<>> /\ CwdIsStack /\ pc = "run" BY <2>1 DEF CanRun, IInv
  <2>3. Len(stack) \in Nat \ {0} BY <2>2, TopTyped
  <2>4. stack \in Seq(FrameSet) /\ cwd \in Seq(DirName) /\ Len(cwd) = Len(stack)
        /\ \A k \in 1 .. Len(stack) : cwd[k] = stack[k].dir
    BY <2>2 DEF IInv, TypeOK, FrameSet, DirName, TocName, CwdIsStack
  <2>5. stack' \in Seq(FrameSet) /\ Len(stack') = Len(stack) - 1
        /\ \A k \in 1 .. Len(stack) - 1 : stack'[k] = stack[k]
    BY <2>1, <2>3, <2>4, Shorter DEF Above
  <2>6. cwd' \in Seq(DirName) BY <2>1, <2>3, <2>4, Shorter
  <2>7. ASSUME Len(stack) # 1
        PROVE  Len(cwd') = Len(stack') /\ \A k \in 1 .. Len(stack') : cwd'[k] = stack'[k].dir
    <3>0. Len(stack) > 1 BY <2>3, <2>7
    <3>1. cwd' = SubSeq(cwd, 1, Len(cwd) - 1) BY <3>0, <2>1, <2>3, <2>4, <2>7
    <3>2. Len(cwd') = Len(stack) - 1 /\ \A k \in 1 .. Len(stack) - 1 : cwd'[k] = cwd[k]
      BY <3>1, <2>3, <2>4, Shorter
    <3> QED BY <3>2, <2>3, <2>4, <2>5
  <2>8. TypeOK'
    <3>1. \A k \in 1 .. Len(stack') : k \in 1 .. Len(stack) BY <2>3, <2>5
    <3>2. \A k \in 1 .. Len(stack') :
             stack'[k].ptr \in DOMAIN dump'.toc => stack'[k].i <= Len(dump'.toc[stack'[k].ptr]) + 1
      BY <2>1, <2>5, <3>1 DEF IInv, TypeOK
    <3>3. pc' \in {"start", "run", "done", "crashed"} BY <2>1, <2>2
    <3> QED BY <3>2, <3>3, <2>5, <2>6 DEF TypeOK, FrameSet, DirName, TocName
  <2>9. Calling'
    <3>1. CASE Len(stack) = 1 BY <3>1, <2>1 DEF Calling
    <3>2. CASE Len(stack) # 1
      <4>1. stack' # <<>> BY <3>2, <2>3, <2>5
      <4> QED BY <4>1, <3>2, <2>1, <2>2 DEF Calling
    <3> QED BY <3>1, <3>2
  <2>10. CwdIsStack'
    <3>1. CASE Len(stack) = 1 BY <3>1, <2>1 DEF CwdIsStack
    <3>2. CASE Len(stack) # 1 BY <3>2, <2>7 DEF CwdIsStack
    <3> QED BY <3>1, <3>2
  <2> QED BY <2>1, <2>8, <2>9, <2>10 DEF IInv
<1>6. CASE Overrun
  <2>1. dump' = dump /\ stack' = stack /\ cwd' = cwd /\ pc' = "crashed"
    BY <1>6 DEF Overrun, Stop
  <2> QED BY <2>1 DEF IInv, TypeOK, Calling, CwdIsStack
<1>7. CASE UNCHANGED vars BY <1>7 DEF IInv, TypeOK, Calling, CwdIsStack, vars
<1> QED BY <1>1, <1>2, <1>3, <1>4, <1>5, <1>6, <1>7 DEF Next

-----------------------------------------------------------------------------
\* norunpack's frames stay in their tables, whatever the dump.
THEOREM TypeCorrect == Spec => []TypeOK
<1>1. IInv => TypeOK BY DEF IInv
<1> QED BY InitIInv, NextIInv, <1>1, PTL DEF Spec

\* The process is always in the directory of the table it is reading.
THEOREM DirectoryFollowsTable == Spec => []CwdIsStack
<1>1. IInv => CwdIsStack BY DEF IInv
<1> QED BY InitIInv, NextIInv, <1>1, PTL DEF Spec

-----------------------------------------------------------------------------
(* The tree.  The stack is a way through the tables, and the tree holds the  *)
(* files of the ways that come before it.                                    *)

\* The entry the caller in frame k is at: i is one on already.
Spot(k) == <<stack[k].ptr, stack[k].i - 1>>

\* Each frame reads the table that the entry of the frame below it names.
Linked ==
    pc = "run" =>
        /\ stack[1].ptr = Base /\ stack[1].dir = Target
        /\ \A k \in 1 .. Len(stack) - 1 :
              /\ Spot(k) \in Spots /\ At(Spot(k)).name \notin Names
              /\ stack[k + 1].ptr = Inner(Spot(k)) /\ stack[k + 1].dir = At(Spot(k)).name

\* A way that has taken the entries of the stack's first frames, below j.
Along(w, j) == \A m \in 1 .. j - 1 : w[m][2] = stack[m].i - 1

\* Such a way is in the table of frame j, too.
Follows ==
    pc = "run" =>
        \A w \in Ways : \A j \in 1 .. Len(stack) :
            (j <= Len(w) /\ Along(w, j)) => w[j][1] = stack[j].ptr

\* A way that leaves the stack at frame j for an entry that was there before.
Before(w, j) == w[j][2] < (IF j < Len(stack) THEN stack[j].i - 1 ELSE stack[j].i)
Passed(w) == \E j \in 1 .. Len(stack) : j <= Len(w) /\ Along(w, j) /\ Before(w, j)
Written(w) == PathTo(w) \in DOMAIN fs /\ fs[PathTo(w)] # Dir

\* All files in the tree are files of the tables.
Sound == \A path \in DOMAIN fs : fs[path] = Dir \/ <<path, fs[path]>> \in Files

\* All files of the tables, up to where the program is, are in the tree.
Complete ==
    /\ pc = "run" => \A w \in FileWays : Passed(w) => Written(w)
    /\ pc = "done" => \A w \in FileWays : Written(w)

TInv == IInv /\ Linked /\ Follows /\ Sound /\ Complete

LEMMA SpotIs ==
    ASSUME NEW a, NEW k, <<a, k>> \in Spots
    PROVE  a \in DOMAIN dump.toc /\ k \in 1 .. Len(dump.toc[a])
<1> DEFINE row(b) == {<<b, m>> : m \in 1 .. Len(dump.toc[b])}
<1>1. PICK b \in DOMAIN dump.toc : <<a, k>> \in row(b) BY Zenon DEF Spots
<1>2. PICK m \in 1 .. Len(dump.toc[b]) : <<a, k>> = <<b, m>> BY <1>1
<1> QED BY <1>2

LEMMA SpotPair ==
    ASSUME NEW s \in Spots
    PROVE  s = <<s[1], s[2]>>
<1> DEFINE row(b) == {<<b, m>> : m \in 1 .. Len(dump.toc[b])}
<1>1. PICK b \in DOMAIN dump.toc : s \in row(b) BY Zenon DEF Spots
<1>2. PICK m \in 1 .. Len(dump.toc[b]) : s = <<b, m>> BY <1>1
<1> QED BY <1>2

LEMMA IsSpot ==
    ASSUME NEW a \in DOMAIN dump.toc, NEW k \in 1 .. Len(dump.toc[a])
    PROVE  <<a, k>> \in Spots
<1> DEFINE row(b) == {<<b, m>> : m \in 1 .. Len(dump.toc[b])}
<1>1. <<a, k>> \in row(a) OBVIOUS
<1> HIDE DEF row
<1>2. <<a, k>> \in UNION {row(b) : b \in DOMAIN dump.toc} BY <1>1
<1> QED BY <1>2, Zenon DEF Spots, row

\* A sequence of n entries.
LEMMA RowOf ==
    ASSUME NEW n \in Nat, NEW S, NEW w \in [1 .. n -> S]
    PROVE  w \in Seq(S) /\ Len(w) = n
OBVIOUS

LEMMA SameRow ==
    ASSUME NEW D, NEW S, NEW u \in [D -> S], NEW v \in [D -> S], \A k \in D : u[k] = v[k]
    PROVE  u = v
OBVIOUS

LEMMA WayIs ==
    ASSUME NEW w \in Ways
    PROVE  /\ Len(w) \in 1 .. MaxDepth /\ w \in [1 .. Len(w) -> Spots] /\ IsWay(w)
<1> DEFINE rows(n) == [1 .. n -> Spots]
<1>0. MaxDepth \in Nat BY NorAssumption DEF NorAssumption
<1>1. IsWay(w) /\ w \in UNION {rows(n) : n \in 1 .. MaxDepth} BY Zenon DEF Ways
<1>2. PICK n \in 1 .. MaxDepth : w \in rows(n) BY <1>1
<1>3. Len(w) = n BY <1>0, <1>2, RowOf
<1> QED BY <1>1, <1>2, <1>3

LEMMA IsAWay ==
    ASSUME NEW n \in 1 .. MaxDepth, NEW w \in [1 .. n -> Spots], IsWay(w)
    PROVE  w \in Ways /\ Len(w) = n
<1> DEFINE rows(m) == [1 .. m -> Spots]
<1>0. MaxDepth \in Nat BY NorAssumption DEF NorAssumption
<1>1. w \in rows(n) OBVIOUS
<1>2. Len(w) = n BY <1>0, RowOf
<1> HIDE DEF rows
<1>3. w \in UNION {rows(m) : m \in 1 .. MaxDepth} BY <1>1
<1> QED BY <1>2, <1>3, Zenon DEF Ways, rows

\* A way to a file goes on behind every entry that names a table.
LEMMA GoesOn ==
    ASSUME NEW w \in FileWays, NEW k \in 1 .. Len(w)
    PROVE  /\ w[k] \in Spots /\ w[k][1] \in DOMAIN dump.toc
           /\ w[k][2] \in 1 .. Len(dump.toc[w[k][1]])
           /\ (At(w[k]).name \in Names => k = Len(w))
           /\ (At(w[k]).name \notin Names => k + 1 \in 1 .. Len(w) /\ w[k + 1][1] = Inner(w[k]))
<1>1. w \in Ways /\ At(w[Len(w)]).name \in Names BY DEF FileWays, End
<1>2. Len(w) \in Nat /\ w \in [1 .. Len(w) -> Spots] /\ IsWay(w)
  <2>1. MaxDepth \in Nat BY NorAssumption DEF NorAssumption
  <2> QED BY <1>1, <2>1, WayIs
<1>3. w[k] \in Spots BY <1>2
<1>4. w[k] = <<w[k][1], w[k][2]>> BY <1>3, SpotPair
<1>5. w[k][1] \in DOMAIN dump.toc /\ w[k][2] \in 1 .. Len(dump.toc[w[k][1]])
  <2> DEFINE a == w[k][1]  b == w[k][2]
  <2>1. <<a, b>> \in Spots BY <1>3, <1>4
  <2> HIDE DEF a, b
  <2>2. a \in DOMAIN dump.toc /\ b \in 1 .. Len(dump.toc[a]) BY <2>1, SpotIs
  <2> QED BY <2>2 DEF a, b
<1>6. ASSUME k # Len(w)
      PROVE  At(w[k]).name \notin Names /\ w[k + 1][1] = Inner(w[k]) /\ k + 1 \in 1 .. Len(w)
  <2> DEFINE n == Len(w)
  <2>1. n \in Nat /\ k \in 1 .. n /\ k # n BY <1>2, <1>6
  <2> HIDE DEF n
  <2>2. k \in 1 .. n - 1 /\ k + 1 \in 1 .. n BY <2>1
  <2> QED BY <1>2, <2>2 DEF IsWay, n
<1> QED BY <1>1, <1>3, <1>5, <1>6

LEMMA SpotFile ==
    ASSUME dump \in Dumps, NEW s \in Spots
    PROVE  /\ s[1] \in DOMAIN dump.toc /\ s[2] \in 1 .. Len(dump.toc[s[1]])
           /\ At(s) \in File
<1> DEFINE a == s[1]  b == s[2]
<1>1. <<a, b>> \in Spots BY SpotPair
<1>2. At(s) = dump.toc[a][b] BY DEF At
<1> HIDE DEF a, b
<1>3. a \in DOMAIN dump.toc /\ b \in 1 .. Len(dump.toc[a]) BY <1>1, SpotIs
<1>4. dump.toc[a][b] \in File
  <2>1. dump.toc[a] \in Seq(File) BY <1>3, Tocs
  <2> QED BY <1>3, <2>1
<1> QED BY <1>2, <1>3, <1>4 DEF a, b

\* A file has a path of its own: not the target's, and not a table's.
LEMMA FilePath ==
    ASSUME dump \in Dumps, NEW w \in FileWays
    PROVE  /\ Len(PathTo(w)) = Len(w) + 1 /\ Len(w) \in 1 .. MaxDepth
           /\ PathTo(w)[Len(w) + 1] \in Names
<1>0. MaxDepth \in Nat BY NorAssumption DEF NorAssumption
<1>1. w \in Ways /\ At(w[Len(w)]).name \in Names BY DEF FileWays, End
<1>2. Len(w) \in 1 .. MaxDepth BY <1>1, WayIs
<1> DEFINE n == Len(w)  e(k) == IF k = 1 THEN Target ELSE At(w[k - 1]).name
<1>3. n \in Nat /\ n + 1 \in Nat /\ n + 1 \in 1 .. n + 1 /\ n + 1 # 1 /\ n + 1 - 1 = n
  BY <1>0, <1>2
<1>4. PathTo(w) = [k \in 1 .. n + 1 |-> e(k)] BY DEF PathTo
<1>5. At(w[n]).name \in Names BY <1>1
<1> HIDE DEF n
<1>6. e(n + 1) = At(w[n]).name BY <1>3
<1> HIDE DEF e
<1>7. PathTo(w) \in [1 .. n + 1 -> {e(k) : k \in 1 .. n + 1}] BY <1>4
<1>8. Len(PathTo(w)) = n + 1
  <2> HIDE DEF n
  <2> DEFINE S == {e(k) : k \in 1 .. n + 1}
  <2>1. PathTo(w) \in [1 .. n + 1 -> S] BY <1>7
  <2> HIDE DEF S
  <2> QED BY <1>3, <2>1, RowOf
<1> QED BY <1>2, <1>3, <1>4, <1>5, <1>6, <1>8 DEF n

LEMMA NoTable ==
    ASSUME dump \in Dumps, cwd \in Seq(DirName), NEW name \in DirName,
           cwd = <<>> \/ name \notin Names, NEW w \in FileWays
    PROVE  PathTo(w) # Path(name)
<1> SUFFICES ASSUME PathTo(w) = Path(name) PROVE FALSE OBVIOUS
<1> DEFINE n == Len(w)
<1>1. Len(PathTo(w)) = n + 1 /\ n \in Nat /\ n > 0 /\ PathTo(w)[n + 1] \in Names
  <2>1. MaxDepth \in Nat BY NorAssumption DEF NorAssumption
  <2> QED BY <2>1, FilePath
<1>2. Len(Path(name)) = Len(cwd) + 1 /\ Path(name)[Len(cwd) + 1] = name BY DEF Path
<1>3. Len(cwd) = n /\ cwd # <<>> BY <1>1, <1>2
<1> QED BY <1>1, <1>2, <1>3

\* What is written of a file is not a directory.
LEMMA NotDir == ASSUME NEW ptr, NEW e PROVE Stripped(ptr, e) # Dir
<1>1. ASSUME NEW x, NEW y PROVE [at |-> x, size |-> y] # <<>>
  <2>1. DOMAIN [at |-> x, size |-> y] = {"at", "size"} OBVIOUS
  <2>2. DOMAIN <<>> = 1 .. 0 /\ "at" \notin 1 .. 0 OBVIOUS
  <2> QED BY <2>1, <2>2
<1> QED BY <1>1 DEF Stripped, Dir

LEMMA WithIs ==
    ASSUME NEW path, NEW what, fs' = With(path, what)
    PROVE  /\ DOMAIN fs' = DOMAIN fs \union {path} /\ fs'[path] = what
           /\ \A q \in DOMAIN fs \ {path} : fs'[q] = fs[q]
BY DEF With

\* The ways and the files are the dump's.
LEMMA SameDump ==
    UNCHANGED dump =>
        /\ Spots' = Spots /\ Ways' = Ways /\ FileWays' = FileWays /\ Files' = Files
        /\ \A s : (At(s))' = At(s) /\ (Inner(s))' = Inner(s)
        /\ \A w : (PathTo(w))' = PathTo(w) /\ (End(w))' = End(w)
        /\ \A ptr, e : (Stripped(ptr, e))' = Stripped(ptr, e)
<1> SUFFICES ASSUME dump' = dump
    PROVE  /\ Spots' = Spots /\ Ways' = Ways /\ FileWays' = FileWays /\ Files' = Files
           /\ \A s : (At(s))' = At(s) /\ (Inner(s))' = Inner(s)
           /\ \A w : (PathTo(w))' = PathTo(w) /\ (End(w))' = End(w)
           /\ \A ptr, e : (Stripped(ptr, e))' = Stripped(ptr, e)
    OBVIOUS
<1>1. Spots' = Spots BY DEF Spots
<1>2. \A s : (At(s))' = At(s) /\ (Inner(s))' = Inner(s) BY DEF At, Inner
<1>3. \A w : (PathTo(w))' = PathTo(w) /\ (End(w))' = End(w) BY <1>2 DEF PathTo, End
<1>4. \A w : (IsWay(w))' <=> IsWay(w) BY <1>2 DEF IsWay
<1>5. Ways' = Ways BY <1>1, <1>4 DEF Ways
<1>6. FileWays' = FileWays BY <1>2, <1>3, <1>5 DEF FileWays
<1>7. \A ptr, e : (Stripped(ptr, e))' = Stripped(ptr, e) BY DEF Stripped
<1>8. Files' = Files BY <1>2, <1>3, <1>6, <1>7 DEF Files
<1> QED BY <1>1, <1>2, <1>3, <1>5, <1>6, <1>7, <1>8

LEMMA WrittenStays ==
    ASSUME UNCHANGED dump, NEW path, NEW what, fs' = With(path, what),
           NEW w, PathTo(w) # path \/ what # Dir, Written(w)
    PROVE  Written(w)'
<1>1. (PathTo(w))' = PathTo(w) BY SameDump
<1>2. PathTo(w) \in DOMAIN fs /\ fs[PathTo(w)] # Dir BY DEF Written
<1>3. PathTo(w) \in DOMAIN fs' BY <1>2, WithIs
<1>4. fs'[PathTo(w)] # Dir
  <2>1. CASE PathTo(w) = path BY <2>1, WithIs
  <2>2. CASE PathTo(w) # path BY <2>2, <1>2, WithIs
  <2> QED BY <2>1, <2>2
<1> QED BY <1>1, <1>3, <1>4 DEF Written

LEMMA SoundStays ==
    ASSUME UNCHANGED dump, Sound, NEW path, NEW what, fs' = With(path, what),
           what = Dir \/ <<path, what>> \in Files
    PROVE  Sound'
<1>1. Files' = Files BY SameDump
<1>2. ASSUME NEW p \in DOMAIN fs' PROVE fs'[p] = Dir \/ <<p, fs'[p]>> \in Files
  <2>1. CASE p = path BY <2>1, WithIs
  <2>2. CASE p # path
    <3>0. DOMAIN fs' = DOMAIN fs \union {path} BY WithIs
    <3>0a. p \in DOMAIN fs \ {path} BY ONLY <2>2, <3>0, p \in DOMAIN fs'
    <3>1. p \in DOMAIN fs /\ fs'[p] = fs[p] BY <3>0a, WithIs
    <3>2. fs[p] = Dir \/ <<p, fs[p]>> \in Files BY <3>1 DEF Sound
    <3> QED BY ONLY <3>1, <3>2
  <2> QED BY <2>1, <2>2
<1> QED BY <1>1, <1>2 DEF Sound, Dir

\* A table is entered out of the one on top.
LEMMA EnterTree ==
    ASSUME TInv, CanRun, HasTable, Top.i <= Len(Table), NEW name \in TocName, NEW ptr \in Nat,
           name = Current.name, name \notin Names, ptr = Inner(<<Top.ptr, Top.i>>),
           Enter(name, ptr, Called)
    PROVE  Linked' /\ Follows' /\ Sound' /\ Complete'
<1>0. PICK L, here : L = Len(stack) /\ here = <<Top.ptr, Top.i>> OBVIOUS
<1>1. /\ stack # <<>> /\ pc = "run" /\ dump \in Dumps /\ cwd \in Seq(DirName) /\ IInv
      BY DEF CanRun, TInv, IInv, TypeOK, DirName, TocName
<1>2. /\ dump' = dump /\ pc' = "run" /\ fs' = With(Path(name), Dir)
      /\ stack' = Append(Called, Frame(ptr, name))
      BY DEF Enter
<1>3. L \in Nat \ {0} /\ Top \in FrameSet BY <1>0, <1>1, TopTyped
<1>4. /\ Called \in Seq(FrameSet) /\ Len(Called) = L
      /\ \A k \in 1 .. L : Called[k].dir = stack[k].dir
      /\ \A k \in 1 .. L - 1 : Called[k] = stack[k]
      /\ Called[L].ptr = Top.ptr /\ Called[L].i = Top.i + 1
      BY <1>0, <1>1, CalledIs
<1>5. Top = stack[L] BY <1>0 DEF Top
<1>6. Frame(ptr, name).ptr = ptr /\ Frame(ptr, name).i = 1 /\ Frame(ptr, name).dir = name
      BY DEF Frame
<1>6a. Top.i \in Nat \ {0} /\ Top.ptr \in DOMAIN dump.toc BY <1>3 DEF FrameSet, HasTable
<1> DEFINE F == Frame(ptr, name)
<1>7. /\ Len(stack') = L + 1 /\ stack'[L + 1] = F
      /\ \A k \in 1 .. L : stack'[k] = Called[k]
  <2> HIDE DEF F
  <2> QED BY <1>2, <1>3, <1>4 DEF F
<1> HIDE DEF F
<1>8. /\ \A k \in 1 .. L - 1 : stack'[k] = stack[k]
      /\ stack'[L].ptr = stack[L].ptr /\ stack'[L].dir = stack[L].dir
      /\ stack'[L].i = stack[L].i + 1
      /\ stack'[L + 1].ptr = ptr /\ stack'[L + 1].i = 1 /\ stack'[L + 1].dir = name
  <2>1. L \in 1 .. L /\ \A k \in 1 .. L - 1 : k \in 1 .. L BY <1>3
  <2> QED BY <2>1, <1>3, <1>4, <1>5, <1>6, <1>7 DEF F
<1>9. here \in Spots /\ At(here) = Current
  <2>1. Top.i \in 1 .. Len(dump.toc[Top.ptr])
    <3>1. Len(Table) \in Nat BY <1>1, TopTyped
    <3> QED BY <3>1, <1>6a DEF Table
  <2> QED BY <2>1, <1>0, <1>6a, IsSpot DEF At, Current, Table
<1>10. (Spot(L))' = here
  <2>1. stack'[L].i - 1 = Top.i BY <1>5, <1>6a, <1>8
  <2>2. stack'[L].ptr = Top.ptr BY <1>5, <1>8
  <2>3. <<stack'[L].ptr, stack'[L].i - 1>> = here BY <1>0, <2>1, <2>2
  <2> QED BY <2>3 DEF Spot
<1>11. \A k \in 1 .. L - 1 : (Spot(k))' = Spot(k) BY <1>8 DEF Spot
<1>12. Linked'
  <2>1. stack'[1].ptr = Base /\ stack'[1].dir = Target
    <3>1. stack[1].ptr = Base /\ stack[1].dir = Target BY <1>1 DEF TInv, Linked
    <3>2. CASE L = 1 BY <3>1, <3>2, <1>8
    <3>3. CASE L # 1
      <4>1. 1 \in 1 .. L - 1 BY <3>3, <1>3
      <4> QED BY <3>1, <4>1, <1>8
    <3> QED BY <3>2, <3>3
  <2>2. ASSUME NEW k \in 1 .. L
        PROVE  /\ (Spot(k))' \in Spots' /\ (At(Spot(k)))'.name \notin Names
               /\ stack'[k + 1].ptr = (Inner(Spot(k)))'
               /\ stack'[k + 1].dir = (At(Spot(k)))'.name
    <3>1. CASE k = L
      <4>1. (Spot(k))' = here BY <3>1, <1>10 DEF Spot
      <4>2. (At(Spot(k)))' = At(here) /\ (Inner(Spot(k)))' = Inner(here)
        BY <4>1, <1>2 DEF At, Inner
      <4> QED BY <1>0, <3>1, <4>1, <4>2, <1>2, <1>8, <1>9, SameDump
    <3>2. CASE k # L
      <4>1. k \in 1 .. L - 1 BY <3>2, <1>3
      <4>2. /\ Spot(k) \in Spots /\ At(Spot(k)).name \notin Names
            /\ stack[k + 1].ptr = Inner(Spot(k)) /\ stack[k + 1].dir = At(Spot(k)).name
        BY <1>0, <4>1, <1>1 DEF TInv, Linked
      <4>3. (Spot(k))' = Spot(k) BY <4>1, <1>11
      <4>4. (At(Spot(k)))' = At(Spot(k)) /\ (Inner(Spot(k)))' = Inner(Spot(k))
        BY <4>3, <1>2 DEF At, Inner
      <4>5. stack'[k + 1].ptr = stack[k + 1].ptr /\ stack'[k + 1].dir = stack[k + 1].dir
        <5>1. k + 1 \in 1 .. L - 1 \/ k + 1 = L BY <4>1, <1>3
        <5> QED BY <5>1, <1>8
      <4> QED BY <4>2, <4>3, <4>4, <4>5, <1>2, SameDump
    <3> QED BY <3>1, <3>2
  <2>3. \A k \in 1 .. Len(stack') - 1 : k \in 1 .. L BY <1>3, <1>7
  <2> QED BY <2>1, <2>2, <2>3 DEF Linked
<1>13. \A w, j : j \in 1 .. L => ((Along(w, j))' <=> Along(w, j))
  <2> TAKE w, j
  <2> HAVE j \in 1 .. L
  <2>1. \A m \in 1 .. j - 1 : m \in 1 .. L - 1 BY <1>3
  <2> QED BY <2>1, <1>8 DEF Along
<1>14. Follows'
  <2> SUFFICES ASSUME NEW w \in Ways, NEW j \in 1 .. L + 1, j <= Len(w), (Along(w, j))'
               PROVE  w[j][1] = stack'[j].ptr
    BY <1>2, <1>7, SameDump DEF Follows
  <2>1. CASE j \in 1 .. L
    <3>1. Along(w, j) BY <2>1, <1>13
    <3>2. w[j][1] = stack[j].ptr BY <1>0, <2>1, <3>1, <1>1 DEF TInv, Follows
    <3>3. stack'[j].ptr = stack[j].ptr
      <4>1. j \in 1 .. L - 1 \/ j = L BY <2>1, <1>3
      <4> QED BY <4>1, <1>8
    <3> QED BY <3>2, <3>3
  <2>2. CASE j = L + 1
    <3>0. Len(w) \in Nat /\ w \in [1 .. Len(w) -> Spots] /\ IsWay(w)
      <4>1. MaxDepth \in Nat BY NorAssumption DEF NorAssumption
      <4> QED BY <4>1, WayIs
    <3>1. L \in 1 .. Len(w) - 1 /\ L \in 1 .. Len(w) /\ L <= Len(w)
      <4> DEFINE n == Len(w)
      <4>1. n \in Nat /\ j <= n BY <3>0
      <4> HIDE DEF n
      <4>2. L \in 1 .. n - 1 /\ L \in 1 .. n /\ L <= n BY <4>1, <1>3, <2>2
      <4> QED BY <4>2 DEF n
    <3>2. (Along(w, L))' /\ w[L][2] = stack'[L].i - 1
      <4>1. \A m \in 1 .. L : m \in 1 .. j - 1 BY <1>3, <2>2
      <4>2. \A m \in 1 .. L - 1 : m \in 1 .. L BY <1>3
      <4>3. L \in 1 .. L BY <1>3
      <4>4. \A m \in 1 .. j - 1 : w[m][2] = stack'[m].i - 1 BY DEF Along
      <4>5. \A m \in 1 .. L : w[m][2] = stack'[m].i - 1 BY <4>1, <4>4
      <4>6. \A m \in 1 .. L - 1 : w[m][2] = stack'[m].i - 1 BY <4>2, <4>5
      <4> QED BY <4>3, <4>5, <4>6 DEF Along
    <3>3. w[L][1] = stack[L].ptr
      <4>1. L \in 1 .. L BY <1>3
      <4>2. Along(w, L) BY <3>2, <4>1, <1>13
      <4> QED BY <1>0, <3>1, <4>1, <4>2, <1>1 DEF TInv, Follows
    <3>4. w[L][2] = Top.i BY <3>2, <1>3, <1>5, <1>8 DEF FrameSet
    <3>5. w[L] = here
      <4>1. w[L] \in Spots BY <3>0, <3>1
      <4> QED BY <1>0, <4>1, <3>3, <3>4, <1>5, SpotPair
    <3>6. w[L + 1][1] = Inner(w[L]) BY <3>0, <3>1 DEF IsWay
    <3> QED BY <1>0, <2>2, <3>5, <3>6, <1>8
  <2> QED BY <2>1, <2>2, <1>3
<1>15. Sound' BY <1>2, SoundStays DEF TInv
<1>16. Complete'
  <2> SUFFICES ASSUME NEW w \in FileWays, (Passed(w))' PROVE (Written(w))'
    BY <1>2, SameDump DEF Complete
  <2>1. Passed(w)
    <3>1. PICK j \in 1 .. Len(stack') : j <= Len(w) /\ (Along(w, j))' /\ (Before(w, j))'
      BY DEF Passed
    <3>1a. j \in 1 .. L + 1 BY <3>1, <1>7
    <3>2. j # L + 1
      <4> SUFFICES ASSUME j = L + 1 PROVE FALSE OBVIOUS
      <4>1. w[j][2] < 1
        <5>1. w[j][2] < (IF j < Len(stack') THEN stack'[j].i - 1 ELSE stack'[j].i)
          BY <3>1 DEF Before
        <5>2. ~(j < Len(stack')) BY <1>3, <1>7
        <5> QED BY <5>1, <5>2, <1>8
      <4>2. Len(w) \in Nat
        <5>1. MaxDepth \in Nat BY NorAssumption DEF NorAssumption
        <5> QED BY <5>1, <1>1, FilePath
      <4>3. j \in 1 .. Len(w) BY <4>2, <3>1, <3>1a, <1>3
      <4>4. w[j] \in Spots BY <4>3, GoesOn
      <4>5. w[j][2] \in 1 .. Len(dump.toc[w[j][1]]) BY <4>4, <1>1, SpotFile
      <4> QED BY <4>1, <4>5
    <3>3. j \in 1 .. L BY <3>1a, <3>2, <1>3
    <3>4. Along(w, j) BY <3>1, <3>3, <1>13
    <3>5. w[j][2] < (IF j < L THEN stack[j].i - 1 ELSE stack[j].i)
      <4>1. w[j][2] < stack'[j].i - 1
        <5>1. w[j][2] < (IF j < Len(stack') THEN stack'[j].i - 1 ELSE stack'[j].i)
          BY <3>1 DEF Before
        <5>2. j < Len(stack') BY <3>3, <1>3, <1>7
        <5> QED BY <5>1, <5>2
      <4>2. CASE j \in 1 .. L - 1
        <5>1. j < L BY <4>2, <1>3
        <5> QED BY <4>1, <4>2, <5>1, <1>8
      <4>3. CASE j = L
        <5>1. stack'[L].i - 1 = stack[L].i BY <1>3, <1>5, <1>8 DEF FrameSet
        <5>2. ~(j < L) BY <4>3, <1>3
        <5> QED BY <4>1, <4>3, <5>1, <5>2
      <4> QED BY <4>2, <4>3, <3>3, <1>3
    <3>6. Before(w, j) BY <1>0, <3>5 DEF Before
    <3> QED BY <1>0, <3>1, <3>3, <3>4, <3>6 DEF Passed
  <2>2. Written(w) BY <2>1, <1>1 DEF TInv, Complete
  <2>3. PathTo(w) # Path(name) BY <1>1, NoTable DEF DirName
  <2> QED BY <2>2, <2>3, <1>2, WrittenStays
<1> QED BY <1>12, <1>14, <1>15, <1>16

\* The way of the entry the process is at, and the path of its file.
LEMMA HereIsWay ==
    ASSUME TInv, CanRun, HasTable, Top.i <= Len(Table), Current.name \in Names
    PROVE  \E w \in FileWays :
              /\ PathTo(w) = Path(Current.name) /\ End(w) = <<Top.ptr, Top.i>>
              /\ Len(w) = Len(stack) /\ w[Len(stack)] = <<Top.ptr, Top.i>>
              /\ \A k \in 1 .. Len(stack) - 1 : w[k] = Spot(k)
<1>0. PICK L, here : L = Len(stack) /\ here = <<Top.ptr, Top.i>> OBVIOUS
<1>1. /\ stack # <<>> /\ pc = "run" /\ dump \in Dumps /\ cwd \in Seq(DirName) /\ IInv
      BY DEF CanRun, TInv, IInv, TypeOK, DirName, TocName
<1>2. L \in 1 .. MaxDepth /\ Top \in FrameSet /\ L \in Nat /\ MaxDepth \in Nat
  <2>1. MaxDepth \in Nat BY NorAssumption DEF NorAssumption
  <2>2. L \in Nat \ {0} /\ Top \in FrameSet BY <1>0, <1>1, TopTyped
  <2>3. L <= MaxDepth BY <1>0 DEF CanRun
  <2> QED BY <2>1, <2>2, <2>3
<1>3. here \in Spots /\ At(here) = Current
  <2>1. Top.ptr \in DOMAIN dump.toc BY DEF HasTable
  <2>2. Top.i \in 1 .. Len(dump.toc[Top.ptr])
    <3>1. Len(Table) \in Nat BY <1>1, TopTyped
    <3> QED BY <3>1, <1>2 DEF Table, FrameSet
  <2> QED BY <1>0, <2>1, <2>2, IsSpot DEF At, Current, Table
<1> DEFINE e(k) == IF k = L THEN here ELSE Spot(k)
           w == [k \in 1 .. L |-> e(k)]
<1>4. ASSUME NEW k \in 1 .. L - 1
      PROVE  /\ Spot(k) \in Spots /\ At(Spot(k)).name \notin Names
             /\ stack[k + 1].ptr = Inner(Spot(k)) /\ stack[k + 1].dir = At(Spot(k)).name
      BY <1>0, <1>1 DEF TInv, Linked
<1>5. stack[1].ptr = Base /\ stack[1].dir = Target BY <1>1 DEF TInv, Linked
<1>6. \A k \in 1 .. L : e(k) \in Spots /\ e(k)[1] = stack[k].ptr
  <2> SUFFICES ASSUME NEW k \in 1 .. L PROVE e(k) \in Spots /\ e(k)[1] = stack[k].ptr OBVIOUS
  <2>1. CASE k = L BY <2>1, <1>0, <1>3 DEF Top
  <2>2. CASE k # L
    <3>1. k \in 1 .. L - 1 BY <2>2, <1>2
    <3> QED BY <2>2, <3>1, <1>4 DEF Spot
  <2> QED BY <2>1, <2>2
<1>7. w \in [1 .. L -> Spots] BY <1>6
<1>8. \A k \in 1 .. L : w[k] = e(k) OBVIOUS
<1>9. \A k \in 1 .. L - 1 : e(k) = Spot(k) /\ k \in 1 .. L /\ k + 1 \in 1 .. L BY <1>2
<1>10. e(L) = here OBVIOUS
<1> HIDE DEF e, w
<1>11. Len(w) = L BY <1>2, <1>7, RowOf
<1>12. IsWay(w)
  <2>1. w[1][1] = Base BY <1>2, <1>5, <1>6, <1>8
  <2>2. ASSUME NEW k \in 1 .. L - 1
        PROVE  At(w[k]).name \notin Names /\ w[k + 1][1] = Inner(w[k])
    <3>1. w[k] = Spot(k) BY <1>8, <1>9
    <3>2. w[k + 1][1] = stack[k + 1].ptr BY <1>6, <1>8, <1>9
    <3> QED BY <3>1, <3>2, <1>4
  <2> QED BY <2>1, <2>2, <1>11 DEF IsWay
<1>13. w \in Ways BY <1>2, <1>7, <1>12, IsAWay
<1>14. w[L] = here BY <1>2, <1>8, <1>10
<1>15. w \in FileWays /\ End(w) = here BY <1>3, <1>11, <1>13, <1>14 DEF FileWays, End
<1>16. PathTo(w) = Path(Current.name)
  <2> DEFINE n == L + 1
             p(k) == IF k = 1 THEN Target ELSE At(w[k - 1]).name
             q == Path(Current.name)
  <2>1. PathTo(w) = [k \in 1 .. n |-> p(k)] BY <1>11 DEF PathTo
  <2>2. Len(cwd) = L /\ \A k \in 1 .. L : cwd[k] = stack[k].dir BY <1>0, <1>1 DEF IInv, CwdIsStack
  <2>3. q \in Seq(DirName) /\ Len(q) = n /\ q[n] = Current.name /\ \A k \in 1 .. L : q[k] = cwd[k]
    <3>1. Current.name \in DirName BY DEF DirName
    <3> QED BY <3>1, <1>1, <1>2, <2>2 DEF Path
  <2>4. \A k \in 1 .. n : p(k) = q[k]
    <3> SUFFICES ASSUME NEW k \in 1 .. n PROVE p(k) = q[k] OBVIOUS
    <3>1. CASE k = 1 BY <3>1, <2>2, <2>3, <1>2, <1>5
    <3>2. CASE k = n /\ k # 1
      <4>1. p(k) = At(w[L]).name BY <3>2, <1>2
      <4> QED BY <3>2, <4>1, <2>3, <1>3, <1>14
    <3>3. CASE k # n /\ k # 1
      <4>1. k - 1 \in 1 .. L - 1 /\ k \in 1 .. L /\ k - 1 + 1 = k BY <3>3, <1>2
      <4>2. p(k) = At(w[k - 1]).name BY <3>3
      <4> DEFINE m == k - 1
      <4>3. w[m] = Spot(m) /\ stack[m + 1].dir = At(Spot(m)).name BY <4>1, <1>4, <1>8, <1>9
      <4> HIDE DEF p, q
      <4> QED BY <4>1, <4>2, <4>3, <2>2, <2>3
    <3> QED BY <3>1, <3>2, <3>3
  <2>5. q = [k \in 1 .. n |-> q[k]]
    <3> HIDE DEF n, q
    <3> QED BY <2>3
  <2> HIDE DEF p, q, n
  <2>6. PathTo(w) = q BY ONLY <2>1, <2>4, <2>5
  <2> QED BY <2>6 DEF q
<1>17. \A k \in 1 .. L - 1 : w[k] = Spot(k) BY <1>8, <1>9
<1> QED BY <1>0, <1>11, <1>14, <1>15, <1>16, <1>17

LEMMA WayLen ==
    ASSUME NEW w \in Ways
    PROVE  Len(w) \in Nat \ {0} /\ w \in [1 .. Len(w) -> Spots] /\ IsWay(w)
<1>1. MaxDepth \in Nat BY NorAssumption DEF NorAssumption
<1>2. Len(w) \in 1 .. MaxDepth /\ w \in [1 .. Len(w) -> Spots] /\ IsWay(w) BY WayIs
<1> HIDE DEF Ways
<1>3. \A n \in 1 .. MaxDepth : n \in Nat \ {0} BY <1>1
<1> QED BY <1>2, <1>3

\* A way along the stack takes the stack's entries.
LEMMA TakesSpots ==
    ASSUME TInv, pc = "run", NEW w \in Ways, NEW j \in 1 .. Len(stack),
           j <= Len(w), Along(w, j)
    PROVE  \A k \in 1 .. j - 1 : w[k] = Spot(k)
<1>1. stack # <<>> /\ IInv BY DEF TInv, IInv, Calling
<1>2. PICK L : L = Len(stack) /\ L \in Nat \ {0} BY <1>1, TopTyped
<1>3. PICK n : n = Len(w) /\ n \in Nat BY WayLen
<1>4. w \in [1 .. n -> Spots] BY <1>3, WayLen
<1> SUFFICES ASSUME NEW k \in 1 .. j - 1 PROVE w[k] = Spot(k) OBVIOUS
<1>5. k \in 1 .. L /\ k <= n /\ k \in 1 .. n /\ j \in Nat BY <1>2, <1>3
<1>6. \A m \in 1 .. k - 1 : m \in 1 .. j - 1 BY <1>5
<1>7. Along(w, k) BY <1>6 DEF Along
<1>8. w[k][1] = stack[k].ptr BY <1>2, <1>3, <1>5, <1>7 DEF TInv, Follows
<1>9. w[k][2] = stack[k].i - 1 BY DEF Along
<1>10. w[k] = <<w[k][1], w[k][2]>> BY <1>4, <1>5, SpotPair
<1> QED BY <1>8, <1>9, <1>10 DEF Spot

\* The next entry is a file.
LEMMA WriteTree ==
    ASSUME TInv, WriteFile
    PROVE  Linked' /\ Follows' /\ Sound' /\ Complete'
<1>0. PICK L, here : L = Len(stack) /\ here = <<Top.ptr, Top.i>> OBVIOUS
<1>1. /\ stack # <<>> /\ pc = "run" /\ dump \in Dumps /\ IInv /\ CanRun /\ HasTable
      /\ Top.i <= Len(Table) /\ Current.name \in Names
      BY DEF WriteFile, CanRun, TInv, IInv
<1>2. /\ dump' = dump /\ pc' = "run" /\ stack' = Called
      /\ fs' = With(Path(Current.name), Stripped(Top.ptr, Current))
      BY <1>1 DEF WriteFile
<1>3. L \in Nat \ {0} /\ Top \in FrameSet BY <1>0, <1>1, TopTyped
<1>4. /\ Len(stack') = L /\ \A k \in 1 .. L - 1 : stack'[k] = stack[k]
      /\ stack'[L].dir = stack[L].dir
      /\ stack'[L].ptr = stack[L].ptr /\ stack'[L].i = stack[L].i + 1
  <2>1. L \in 1 .. L BY <1>3
  <2> QED BY <2>1, <1>0, <1>1, <1>2, CalledIs DEF Top
<1>4a. stack[L] = Top /\ Top.i \in Nat \ {0} BY <1>0, <1>3 DEF Top, FrameSet
<1>4b. At(here) = Current BY <1>0 DEF At, Current, Table
<1>5. \A k \in 1 .. L : stack'[k].dir = stack[k].dir /\ stack'[k].ptr = stack[k].ptr
  <2> SUFFICES ASSUME NEW k \in 1 .. L
               PROVE  stack'[k].dir = stack[k].dir /\ stack'[k].ptr = stack[k].ptr
    OBVIOUS
  <2>1. k \in 1 .. L - 1 \/ k = L BY <1>3
  <2> QED BY <2>1, <1>4
<1>6. \A w, j : j \in 1 .. L => ((Along(w, j))' <=> Along(w, j))
  <2> TAKE w, j
  <2> HAVE j \in 1 .. L
  <2>1. \A m \in 1 .. j - 1 : m \in 1 .. L - 1 BY <1>3
  <2> QED BY <2>1, <1>4 DEF Along
<1>7. Linked'
  <2>1. stack'[1].ptr = Base /\ stack'[1].dir = Target
    <3>1. 1 \in 1 .. L BY <1>3
    <3> QED BY <3>1, <1>1, <1>5 DEF TInv, Linked
  <2>2. ASSUME NEW k \in 1 .. L - 1
        PROVE  /\ (Spot(k))' \in Spots' /\ (At(Spot(k)))'.name \notin Names
               /\ stack'[k + 1].ptr = (Inner(Spot(k)))'
               /\ stack'[k + 1].dir = (At(Spot(k)))'.name
    <3>1. (Spot(k))' = Spot(k) BY <1>4 DEF Spot
    <3>2. (At(Spot(k)))' = At(Spot(k)) /\ (Inner(Spot(k)))' = Inner(Spot(k))
      BY <3>1, <1>2 DEF At, Inner
    <3>3. k + 1 \in 1 .. L BY <1>3
    <3>4. /\ Spot(k) \in Spots /\ At(Spot(k)).name \notin Names
          /\ stack[k + 1].ptr = Inner(Spot(k)) /\ stack[k + 1].dir = At(Spot(k)).name
      BY <1>0, <1>1 DEF TInv, Linked
    <3> QED BY <3>1, <3>2, <3>3, <3>4, <1>2, <1>5, SameDump
  <2> QED BY <2>1, <2>2, <1>4 DEF Linked
<1>8. Follows'
  <2> SUFFICES ASSUME NEW w \in Ways, NEW j \in 1 .. L, j <= Len(w), (Along(w, j))'
               PROVE  w[j][1] = stack'[j].ptr
    BY <1>2, <1>4, SameDump DEF Follows
  <2>1. w[j][1] = stack[j].ptr BY <1>0, <1>1, <1>6 DEF TInv, Follows
  <2> QED BY <2>1, <1>5
<1>9. PICK w0 \in FileWays :
         /\ PathTo(w0) = Path(Current.name) /\ End(w0) = here
         /\ Len(w0) = L /\ w0[L] = here
         /\ \A k \in 1 .. L - 1 : w0[k] = Spot(k)
  BY <1>0, <1>1, HereIsWay
<1>10. Sound'
  <2> DEFINE what == Stripped(Top.ptr, Current)
  <2>1. Stripped(End(w0)[1], At(End(w0))) = what BY <1>0, <1>4b, <1>9
  <2>2. <<Path(Current.name), what>> \in Files BY <2>1, <1>9 DEF Files
  <2> QED BY <2>2, <1>2, SoundStays DEF TInv
<1>11. Complete'
  <2> SUFFICES ASSUME NEW w \in FileWays, (Passed(w))' PROVE (Written(w))'
    BY <1>2, SameDump DEF Complete
  <2>1. w \in Ways BY DEF FileWays
  <2>2. PICK j \in 1 .. L : j <= Len(w) /\ (Along(w, j))' /\ (Before(w, j))'
    BY <1>4 DEF Passed
  <2>3. Along(w, j) BY <2>2, <1>6
  <2>4. CASE Before(w, j)
    <3>1. Passed(w) BY <2>2, <2>3, <2>4, <1>0 DEF Passed
    <3>2. Written(w) BY <3>1, <1>1 DEF TInv, Complete
    <3>3. Stripped(Top.ptr, Current) # Dir BY NotDir
    <3> QED BY <3>2, <3>3, <1>2, WrittenStays
  <2>5. CASE ~Before(w, j)
    <3>0. PICK n : n = Len(w) /\ n \in Nat BY <2>1, WayLen
    <3>1. w[j] \in Spots /\ w[j][2] \in Int /\ w[j][1] = stack[j].ptr
      <4>1. j \in 1 .. n BY <2>2, <3>0, <1>3
      <4>2. w[j] \in Spots /\ w[j][2] \in 1 .. Len(dump.toc[w[j][1]]) BY <3>0, <4>1, GoesOn
      <4>3. w[j][1] = stack[j].ptr BY <2>1, <2>2, <2>3, <1>0, <1>1 DEF TInv, Follows
      <4> QED BY <4>2, <4>3
    <3>2. j = L
      <4> SUFFICES ASSUME j # L PROVE FALSE OBVIOUS
      <4>1. j \in 1 .. L - 1 /\ j < L BY <1>3
      <4>2. stack'[j] = stack[j] BY <4>1, <1>4
      <4>3. w[j][2] < stack'[j].i - 1 BY <2>2, <4>1, <1>4 DEF Before
      <4> QED BY <4>1, <4>2, <4>3, <2>5, <1>0 DEF Before
    <3>3. w[L][2] = Top.i
      <4>1. w[j][2] < stack'[j].i
        <5>1. ~(j < Len(stack')) BY <3>2, <1>3, <1>4
        <5>2. w[j][2] < (IF j < Len(stack') THEN stack'[j].i - 1 ELSE stack'[j].i)
          BY <2>2 DEF Before
        <5> QED BY <5>1, <5>2
      <4>2. ~(w[j][2] < stack[j].i)
        <5>1. ~(j < L) BY <3>2, <1>3
        <5> QED BY <5>1, <2>5, <1>0 DEF Before
      <4> QED BY <4>1, <4>2, <3>1, <3>2, <1>4, <1>4a
    <3>4. w[L] = here
      <4>1. w[L] = <<w[L][1], w[L][2]>> BY <3>1, <3>2, SpotPair
      <4> QED BY <4>1, <3>1, <3>2, <3>3, <1>0, <1>4a
    <3>5. n = L
      <4>1. L \in 1 .. n BY <2>2, <3>0, <3>2, <1>3
      <4>2. At(w[L]).name \in Names BY <3>4, <1>1, <1>4b
      <4> QED BY <4>1, <4>2, <3>0, GoesOn
    <3>6. w = w0
      <4>1. \A k \in 1 .. L - 1 : w[k] = Spot(k)
        BY <2>1, <2>2, <2>3, <3>2, <1>0, <1>1, TakesSpots
      <4>2. \A k \in 1 .. L : w[k] = w0[k]
        <5>1. \A k \in 1 .. L : k \in 1 .. L - 1 \/ k = L BY <1>3
        <5> QED BY <5>1, <4>1, <3>4, <1>9
      <4>3. w \in [1 .. L -> Spots] /\ w0 \in [1 .. L -> Spots]
        BY <2>1, <3>0, <3>5, <1>9, WayLen DEF FileWays
      <4> DEFINE D == 1 .. L
      <4>4. w \in [D -> Spots] /\ w0 \in [D -> Spots] /\ \A k \in D : w[k] = w0[k]
        BY <4>2, <4>3
      <4> HIDE DEF D
      <4> QED BY ONLY <4>4, SameRow
    <3>7. (PathTo(w))' = Path(Current.name) BY <3>6, <1>2, <1>9, SameDump
    <3>8. Path(Current.name) \in DOMAIN fs' /\ fs'[Path(Current.name)] # Dir
      <4> DEFINE p == Path(Current.name)  what == Stripped(Top.ptr, Current)
      <4>1. fs' = With(p, what) /\ what # Dir BY <1>2, NotDir
      <4> HIDE DEF p, what
      <4>2. DOMAIN fs' = DOMAIN fs \union {p} /\ fs'[p] = what BY <4>1, WithIs
      <4> QED BY <4>1, <4>2 DEF p
    <3> QED BY <3>7, <3>8 DEF Written, Dir
  <2> QED BY <2>4, <2>5
<1> QED BY <1>7, <1>8, <1>10, <1>11

\* A way that stays along the stack has been through its last table.
LEMMA LastPassed ==
    ASSUME TInv, pc = "run", HasTable, Top.i > Len(Table), NEW w \in FileWays,
           Len(stack) <= Len(w), Along(w, Len(stack))
    PROVE  Passed(w)
<1>1. stack # <<>> /\ IInv /\ dump \in Dumps BY DEF TInv, IInv, Calling
<1>2. PICK L : L = Len(stack) /\ L \in Nat \ {0} BY <1>1, TopTyped
<1>3. w \in Ways BY DEF FileWays
<1>4. PICK n : n = Len(w) /\ n \in Nat BY <1>3, WayLen
<1>5. L \in 1 .. L /\ L \in 1 .. n BY <1>2, <1>4
<1>6. w[L][1] = Top.ptr BY <1>2, <1>3, <1>5 DEF TInv, Follows, Top
<1>7. w[L][2] \in 1 .. Len(dump.toc[w[L][1]]) BY <1>4, <1>5, GoesOn
<1>8. w[L][2] < Top.i
  <2>1. Table \in Seq(File) /\ Top \in FrameSet BY <1>1, TopTyped
  <2>2. Len(Table) \in Nat /\ Top.i \in Nat BY <2>1 DEF FrameSet
  <2>3. w[L][2] \in 1 .. Len(Table) BY <1>6, <1>7 DEF Table
  <2> QED BY <2>2, <2>3
<1>9. Before(w, L)
  <2>1. ~(L < L) BY <1>2
  <2> QED BY <2>1, <1>2, <1>8 DEF Before, Top
<1> QED BY <1>2, <1>5, <1>9 DEF Passed

\* The table on top has been read: every way through it has been passed.
LEMMA ReturnTree ==
    ASSUME TInv, Return
    PROVE  Linked' /\ Follows' /\ Sound' /\ Complete'
<1>0. PICK L : L = Len(stack) OBVIOUS
<1>1. /\ stack # <<>> /\ pc = "run" /\ dump \in Dumps /\ IInv /\ HasTable
      /\ Top.i > Len(Table) /\ stack \in Seq(FrameSet)
      BY DEF Return, CanRun, TInv, IInv, TypeOK, FrameSet, DirName, TocName
<1>2. /\ dump' = dump /\ stack' = Above /\ fs' = fs
      /\ pc' = IF L = 1 THEN "done" ELSE "run"
      BY <1>0, <1>1 DEF Return
<1>3. L \in Nat \ {0} BY <1>0, <1>1, TopTyped
<1>4. Len(stack') = L - 1 /\ \A k \in 1 .. L - 1 : stack'[k] = stack[k]
  BY <1>0, <1>1, <1>2, <1>3, Shorter DEF Above
<1>5. \A w : Written(w) => (Written(w))' BY <1>2, SameDump DEF Written, Dir
<1>6. Sound' BY <1>2, SameDump DEF TInv, Sound, Dir
<1>7. CASE L = 1
  <2>1. pc' = "done" BY <1>2, <1>7
  <2>2. ASSUME NEW w \in FileWays PROVE Written(w)
    <3>1. w \in Ways BY DEF FileWays
    <3>2. PICK n : n = Len(w) /\ n \in Nat \ {0} BY <3>1, WayLen
    <3>3. 1 <= n /\ L <= n BY <3>2, <1>7
    <3>4. Along(w, L) BY <1>7 DEF Along
    <3>5. Passed(w) BY <3>2, <3>3, <3>4, <1>0, <1>1, LastPassed
    <3> QED BY <3>5, <1>1 DEF TInv, Complete
  <2>3. Complete' BY <2>1, <2>2, <1>2, <1>5, SameDump DEF Complete
  <2>4. Linked' /\ Follows' BY <2>1 DEF Linked, Follows
  <2> QED BY <2>3, <2>4, <1>6
<1>8. CASE L # 1
  <2>1. pc' = "run" /\ 1 \in 1 .. L - 1 BY <1>2, <1>3, <1>8
  <2>2. \A k \in 1 .. L - 2 : k \in 1 .. L - 1 /\ k + 1 \in 1 .. L - 1 BY <1>3
  <2>3. \A w, j : j \in 1 .. L - 1 => ((Along(w, j))' <=> Along(w, j))
    <3> TAKE w, j
    <3> HAVE j \in 1 .. L - 1
    <3>1. \A m \in 1 .. j - 1 : m \in 1 .. L - 1 BY <1>3
    <3> QED BY <3>1, <1>4 DEF Along
  <2>4. Linked'
    <3>1. stack'[1].ptr = Base /\ stack'[1].dir = Target
      BY <2>1, <1>1, <1>4 DEF TInv, Linked
    <3>2. ASSUME NEW k \in 1 .. L - 2
          PROVE  /\ (Spot(k))' \in Spots' /\ (At(Spot(k)))'.name \notin Names
                 /\ stack'[k + 1].ptr = (Inner(Spot(k)))'
                 /\ stack'[k + 1].dir = (At(Spot(k)))'.name
      <4>1. (Spot(k))' = Spot(k) BY <2>2, <1>4 DEF Spot
      <4>2. (At(Spot(k)))' = At(Spot(k)) /\ (Inner(Spot(k)))' = Inner(Spot(k))
        BY <4>1, <1>2 DEF At, Inner
      <4>3. stack'[k + 1] = stack[k + 1] BY <2>2, <1>4
      <4>4. /\ Spot(k) \in Spots /\ At(Spot(k)).name \notin Names
            /\ stack[k + 1].ptr = Inner(Spot(k)) /\ stack[k + 1].dir = At(Spot(k)).name
        BY <2>2, <1>0, <1>1 DEF TInv, Linked
      <4> QED BY <4>1, <4>2, <4>3, <4>4, <1>2, SameDump
    <3>3. \A k \in 1 .. Len(stack') - 1 : k \in 1 .. L - 2 BY <1>3, <1>4
    <3> QED BY <3>1, <3>2, <3>3 DEF Linked
  <2>5. Follows'
    <3> SUFFICES ASSUME NEW w \in Ways, NEW j \in 1 .. L - 1, j <= Len(w), (Along(w, j))'
                 PROVE  w[j][1] = stack'[j].ptr
      BY <1>2, <1>4, SameDump DEF Follows
    <3>1. j \in 1 .. L BY <1>3
    <3>2. Along(w, j) BY <2>3
    <3>3. w[j][1] = stack[j].ptr BY <3>1, <3>2, <1>0, <1>1 DEF TInv, Follows
    <3> QED BY <3>3, <1>4
  <2>6. Complete'
    <3> SUFFICES ASSUME NEW w \in FileWays, (Passed(w))' PROVE Passed(w)
      BY <1>1, <1>2, <1>5, <2>1, SameDump DEF Complete, TInv
    <3>1. w \in Ways BY DEF FileWays
    <3>2. PICK j \in 1 .. L - 1 : j <= Len(w) /\ (Along(w, j))' /\ (Before(w, j))'
      BY <1>4 DEF Passed
    <3>3. Along(w, j) /\ j \in 1 .. L /\ j < L BY <3>2, <2>3, <1>3
    <3>4. CASE Before(w, j) BY <3>2, <3>3, <3>4, <1>0 DEF Passed
    <3>5. CASE ~Before(w, j)
      <4>0. PICK n : n = Len(w) /\ n \in Nat BY <3>1, WayLen
      <4>1. j \in 1 .. n BY <3>2, <4>0, <1>3
      <4>2. w[j] \in Spots /\ w[j][2] \in Int
        <5>1. w[j] \in Spots /\ w[j][2] \in 1 .. Len(dump.toc[w[j][1]]) BY <4>0, <4>1, GoesOn
        <5> QED BY <5>1
      <4>3. w[j][1] = stack[j].ptr BY <3>1, <3>2, <3>3, <1>0, <1>1 DEF TInv, Follows
      <4>4. ~(w[j][2] < stack[j].i - 1) BY <3>3, <3>5, <1>0 DEF Before
      <4>4a. stack[j].i \in Nat
        <5>1. stack[j] \in FrameSet BY <3>3, <1>0, <1>1
        <5> QED BY <5>1 DEF FrameSet
      <4>5. j = L - 1
        <5> SUFFICES ASSUME j # L - 1 PROVE FALSE OBVIOUS
        <5>1. j < Len(stack') BY <1>3, <1>4
        <5>2. w[j][2] < stack'[j].i - 1 BY <3>2, <5>1 DEF Before
        <5> QED BY <5>2, <4>4, <1>4
      <4>6. w[j][2] = stack[j].i - 1
        <5>1. ~(j < Len(stack')) BY <4>5, <1>3, <1>4
        <5>2. w[j][2] < (IF j < Len(stack') THEN stack'[j].i - 1 ELSE stack'[j].i)
          BY <3>2 DEF Before
        <5>3. w[j][2] < stack[j].i BY <5>1, <5>2, <1>4
        <5> QED BY <5>3, <4>2, <4>4, <4>4a
      <4>7. w[j] = Spot(j)
        <5>1. w[j] = <<w[j][1], w[j][2]>> BY <4>2, SpotPair
        <5> QED BY <5>1, <4>3, <4>6 DEF Spot
      <4>8. At(w[j]).name \notin Names BY <4>7, <3>3, <1>0, <1>1 DEF TInv, Linked
      <4>9. L <= n
        <5>1. j + 1 \in 1 .. n BY <4>0, <4>1, <4>8, GoesOn
        <5> QED BY <5>1, <4>5, <1>3, <4>0
      <4>10. Along(w, L)
        <5>1. \A m \in 1 .. L - 1 : m \in 1 .. j - 1 \/ m = j BY <4>5, <1>3
        <5> QED BY <5>1, <3>3, <4>6 DEF Along
      <4> QED BY <4>0, <4>9, <4>10, <1>0, <1>1, LastPassed
    <3> QED BY <3>4, <3>5
  <2> QED BY <2>4, <2>5, <2>6, <1>6
<1> QED BY <1>7, <1>8

LEMMA StartTree ==
    ASSUME TInv, Start, IInv'
    PROVE  Linked' /\ Follows' /\ Sound' /\ Complete'
<1>1. /\ dump \in Dumps /\ cwd = <<>> /\ stack = <<>> /\ cwd \in Seq(DirName) /\ Enter(Target, Base, <<>>)
      BY DEF TInv, IInv, Start, Calling, TypeOK, DirName, TocName
<1>2. /\ dump' = dump /\ pc' = "run" /\ fs' = With(Path(Target), Dir)
      /\ stack' = Append(<<>>, Frame(Base, Target))
      BY <1>1 DEF Enter
<1>3. stack' = <<Frame(Base, Target)>> BY <1>2
<1>4. /\ Len(stack') = 1 /\ stack'[1].ptr = Base /\ stack'[1].dir = Target /\ stack'[1].i = 1
      BY <1>3 DEF Frame
<1>5. Linked'
  <2>1. \A k : k \notin 1 .. Len(stack') - 1 BY <1>4
  <2> QED BY <2>1, <1>4 DEF Linked
<1>6. Follows'
  <2> SUFFICES ASSUME NEW w \in Ways, NEW j \in 1 .. 1 PROVE w[j][1] = stack'[j].ptr
    BY <1>2, <1>4, SameDump DEF Follows
  <2>1. w[1][1] = Base BY WayLen DEF IsWay
  <2> QED BY <2>1, <1>4
<1>7. Sound' BY <1>2, SoundStays DEF TInv
<1>8. Complete'
  <2> SUFFICES ASSUME NEW w \in FileWays, (Passed(w))' PROVE FALSE
    BY <1>2, SameDump DEF Complete
  <2>1. w \in Ways BY DEF FileWays
  <2>2. PICK n : n = Len(w) /\ n \in Nat \ {0} BY <2>1, WayLen
  <2>3. 1 \in 1 .. n BY <2>2
  <2>4. w[1] \in Spots /\ w[1][2] \in 1 .. Len(dump.toc[w[1][1]]) BY <2>2, <2>3, GoesOn
  <2>5. (Before(w, 1))' BY <1>4 DEF Passed
  <2>6. w[1][2] < (IF 1 < Len(stack') THEN stack'[1].i - 1 ELSE stack'[1].i)
    BY <2>5 DEF Before
  <2> QED BY <2>4, <2>6, <1>4
<1> QED BY <1>5, <1>6, <1>7, <1>8

LEMMA InitTInv == Init => TInv
<1> SUFFICES ASSUME Init PROVE TInv OBVIOUS
<1>1. pc = "start" /\ fs = [path \in {Root} |-> Dir] BY DEF Init
<1>2. Sound BY <1>1 DEF Sound
<1> QED BY <1>1, <1>2, InitIInv DEF TInv, Linked, Follows, Complete

\* Every step keeps what the tree holds in line with the way through the tables.
LEMMA NextTInv == TInv /\ [Next]_vars => TInv'
<1> SUFFICES ASSUME TInv, [Next]_vars PROVE TInv' OBVIOUS
<1>0. IInv /\ IInv' BY NextIInv DEF TInv
<1> SUFFICES Linked' /\ Follows' /\ Sound' /\ Complete' BY <1>0 DEF TInv
<1>1. CASE Start BY <1>0, <1>1, StartTree
<1>2. CASE EnterLoader
  <2>1. CanRun /\ HasTable /\ Top.i <= Len(Table) /\ Current.name = Loader
        /\ Enter(Loader, Top.ptr + Current.off, Called) /\ stack # <<>>
    BY <1>2 DEF EnterLoader, CanRun
  <2>2. Current \in File /\ Top \in FrameSet BY <2>1, <1>0, TopTyped
  <2>3. Top.ptr + Current.off \in Nat /\ Top.ptr \in Nat /\ Current.off \in Nat
    BY <2>2 DEF File, FrameSet
  <2>4. Loader \in TocName /\ Loader \notin Names /\ Loader \notin Ros
    BY NorAssumption DEF NorAssumption, TocName
  <2>5. Inner(<<Top.ptr, Top.i>>) = Top.ptr + Current.off
    <3>1. At(<<Top.ptr, Top.i>>) = Current BY DEF At, Current, Table
    <3>2. Inner(<<Top.ptr, Top.i>>) = Top.ptr + Current.off + 0
      BY <3>1, <2>1, <2>4 DEF Inner
    <3> QED BY <3>2, <2>3
  <2> QED BY <2>1, <2>3, <2>4, <2>5, EnterTree
<1>3. CASE EnterRos
  <2>1. CanRun /\ HasTable /\ Top.i <= Len(Table) /\ Current.name \in Ros
        /\ Enter(Current.name, Top.ptr + Current.off + 1, Called) /\ stack # <<>>
    BY <1>3 DEF EnterRos, CanRun
  <2>2. Current \in File /\ Top \in FrameSet BY <2>1, <1>0, TopTyped
  <2>3. Top.ptr + Current.off + 1 \in Nat BY <2>2 DEF File, FrameSet
  <2>4. Current.name \in TocName /\ Current.name \notin Names
    BY <2>1, NorAssumption DEF NorAssumption, TocName
  <2>5. Inner(<<Top.ptr, Top.i>>) = Top.ptr + Current.off + 1
    <3>1. At(<<Top.ptr, Top.i>>) = Current BY DEF At, Current, Table
    <3> QED BY <3>1, <2>1 DEF Inner
  <2> QED BY <2>1, <2>3, <2>4, <2>5, EnterTree
<1>4. CASE WriteFile BY <1>4, WriteTree
<1>5. CASE Return BY <1>5, ReturnTree
<1>6. CASE Overrun
  <2>1. dump' = dump /\ fs' = fs /\ pc' = "crashed" BY <1>6 DEF Overrun, Stop
  <2>2. Sound' BY <2>1, SameDump DEF TInv, Sound, Dir
  <2> QED BY <2>1, <2>2 DEF Linked, Follows, Complete
<1>7. CASE UNCHANGED vars
  <2>1. dump' = dump /\ fs' = fs /\ pc' = pc /\ stack' = stack BY <1>7 DEF vars
  <2>2. Sound' BY <2>1, SameDump DEF TInv, Sound, Dir
  <2>3. Linked' BY <2>1 DEF TInv, Linked, Spot, Spots, At, Inner
  <2>4. Follows' BY <2>1, SameDump DEF TInv, Follows, Along
  <2>5. Complete' BY <2>1, SameDump DEF TInv, Complete, Passed, Along, Before, Written, Dir
  <2> QED BY <2>2, <2>3, <2>4, <2>5
<1> QED BY <1>1, <1>2, <1>3, <1>4, <1>5, <1>6, <1>7 DEF Next

\* What is in the tree when norunpack is done is what the tables list.
LEMMA DoneExact == TInv => ExactTree
<1> SUFFICES ASSUME TInv, pc = "done"
             PROVE  LET out == {path \in DOMAIN fs : fs[path] # Dir}
                    IN  /\ out = {f[1] : f \in Files}
                        /\ \A path \in out : <<path, fs[path]>> \in Files
    BY DEF ExactTree
<1> DEFINE out == {path \in DOMAIN fs : fs[path] # Dir}
<1>1. \A path \in out : <<path, fs[path]>> \in Files BY DEF TInv, Sound
<1>2. ASSUME NEW path \in out PROVE path \in {f[1] : f \in Files}
  <2> DEFINE g == <<path, fs[path]>>
  <2>1. g \in Files /\ g[1] = path BY <1>1
  <2> HIDE DEF g
  <2> QED BY <2>1
<1>3. ASSUME NEW f \in Files PROVE f[1] \in out
  <2>1. PICK w \in FileWays : f = <<PathTo(w), Stripped(End(w)[1], At(End(w)))>> BY DEF Files
  <2>2. f[1] = PathTo(w) BY <2>1
  <2>3. Written(w) BY DEF TInv, Complete
  <2> QED BY <2>2, <2>3 DEF Written
<1>4. out = {f[1] : f \in Files} BY <1>2, <1>3
<1> QED BY <1>1, <1>4

\* Whatever tables a dump has and however they nest or contain each other, when
\* norunpack finishes it has written the files of all of them and none else.
THEOREM TreeIsExact == Spec => []ExactTree
BY InitTInv, NextTInv, DoneExact, PTL DEF Spec
===============================================================================

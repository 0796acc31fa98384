--------------------------- MODULE CosPackageProofs ---------------------------
(***************************************************************************)
(* Proofs about CosPackage and Pup, together in PackageTools: for every    *)
(* directory, every order readdir returns it in, and every size of the     *)
(* table and of the area; and for every directory puppack is given, every  *)
(* table of names, all keys, and whatever is damaged or cut off.           *)
(***************************************************************************)
EXTENDS PackageTools, SequenceTheorems, FiniteSetTheorems, WellFoundedInduction, TLAPS

Real   == {e \in UNION Directories : ~e.dot}
Record == [name : {e.short : e \in Real}, from : {e.name : e \in Real},
           size : Nat, offset : Nat]

\* Files follow one another, and offset is where the last one ends or later.
Table ==
    /\ files \in Seq(Record)
    /\ \A a \in 1 .. n_files : files[a].offset + files[a].size <= offset
    /\ \A a, b \in 1 .. n_files :
          a < b => files[a].offset + files[a].size <= files[b].offset

\* What build_hdr has checked, from then on.
Late == {"open", "write", "unpack", "unpack torn", "done", "done torn"}

Headed ==
    /\ pc \in {"readdir", "header"} => hdr_size = 0
    /\ pc \in Late => hdr_size = 1 + 3 * n_files
    /\ pc \in Late /\ n_files > 0 =>
          hdr_size + files[n_files].offset + files[n_files].size <= COS_FILE_SIZE

\* The package is a file from offset 0 on, and what is written behind the table
\* of contents leaves its head alone.
WithHead(a, k) == DOMAIN a = 0 .. k - 1 /\ a[0] = <<"head", n_files>>

Packaged ==
    /\ pc \in {"write", "unpack"} => \E k \in Nat \ {0} : WithHead(area, k)
    /\ pc = "unpack torn" /\ area # <<>> => \E k \in Nat \ {0} : WithHead(area, k)

IInv ==
    /\ dir \in Directories
    /\ TypeOK
    /\ Table
    /\ Headed
    /\ Packaged

-----------------------------------------------------------------------------
LEMMA AlignUp ==
    ASSUME NEW x \in Nat
    PROVE  align(x) \in Nat /\ x <= align(x)
BY DEF align

\* Size is the length of a file that starts at offset 0.
LEMMA SizeIsLength ==
    ASSUME NEW a, NEW k \in Nat, DOMAIN a = 0 .. k - 1
    PROVE  Size(a) = k
<1>1. CASE k = 0
  BY <1>1 DEF Size
<1>2. CASE k # 0
  <2>1. \E u \in DOMAIN a : \A v \in DOMAIN a : v <= u
    <3>1. k - 1 \in DOMAIN a /\ \A v \in DOMAIN a : v <= k - 1
      BY <1>2
    <3> QED BY <3>1
  <2>2. PICK m \in DOMAIN a : /\ \A v \in DOMAIN a : v <= m
                              /\ m = CHOOSE u \in DOMAIN a : \A v \in DOMAIN a : v <= u
    BY <2>1
  <2>3. m = k - 1
    BY <2>2, <1>2
  <2>4. DOMAIN a # {}
    BY <1>2
  <2> QED BY <2>2, <2>3, <2>4 DEF Size
<1> QED BY <1>1, <1>2

\* Writing behind the first cell leaves it alone.
LEMMA WriteKeepsHead ==
    ASSUME NEW a, NEW k \in Nat \ {0}, DOMAIN a = 0 .. k - 1,
           NEW at \in Nat \ {0}, NEW cells, Len(cells) \in Nat
    PROVE  \E m \in Nat \ {0} : /\ DOMAIN WriteAt(a, at, cells) = 0 .. m - 1
                                /\ WriteAt(a, at, cells)[0] = a[0]
<1>1. Size(a) = k
  BY SizeIsLength
<1>2. CASE cells = <<>>
  BY <1>2 DEF WriteAt
<1>3. CASE cells # <<>>
  <2>1. PICK m \in Nat \ {0} : m = IF at + Len(cells) > Size(a) THEN at + Len(cells)
                                   ELSE Size(a)
    BY <1>1
  <2>2. WriteAt(a, at, cells) =
          [u \in 0 .. m - 1 |-> IF u \in at .. at + Len(cells) - 1 THEN cells[u - at + 1]
                                ELSE IF u \in DOMAIN a THEN a[u] ELSE Zero]
    BY <2>1, <1>3 DEF WriteAt
  <2>3. 0 \in 0 .. m - 1 /\ 0 \notin at .. at + Len(cells) - 1 /\ 0 \in DOMAIN a
    OBVIOUS
  <2> QED BY <2>2, <2>3
<1> QED BY <1>2, <1>3

\* The loop counter starts in its range, however many files there are.
LEMMA FirstIndex == \A n \in Nat : 1 \in 1 .. n + 1
OBVIOUS

LEMMA LastIndex == \A n \in Nat : n # 0 => n > 0 /\ n \in 1 .. n
OBVIOUS

-----------------------------------------------------------------------------
LEMMA InitIInv == Init => IInv
<1> SUFFICES ASSUME Init PROVE IInv
  OBVIOUS
<1>1. /\ dir \in Directories /\ pc = "readdir" /\ todo = dir /\ files = <<>>
      /\ offset = 0 /\ hdr_size = 0 /\ i = 1
  BY DEF Init
<1>2. n_files = 0
  BY <1>1 DEF n_files
<1>3. TypeOK
  BY <1>1, <1>2, DirectoriesAssumption DEF TypeOK
<1>4. Table
  BY <1>1, <1>2 DEF Table
<1> QED BY <1>1, <1>2, <1>3, <1>4 DEF IInv, Headed, Packaged, Late

\* Steps that leave the table and its offsets as they are.
LEMMA TableKept ==
    ASSUME IInv, UNCHANGED <<files, offset>>
    PROVE  Table' /\ n_files' = n_files /\ n_files \in Nat
<1>1. Table /\ files \in Seq(Record)
  BY DEF IInv, Table
<1>2. n_files' = n_files
  BY DEF n_files
<1>3. n_files \in Nat
  BY <1>1 DEF n_files
<1> QED BY <1>1, <1>2, <1>3 DEF Table

\* fail() keeps everything, and says nothing about the package.
LEMMA FailKept ==
    ASSUME IInv, NEW reason, Fail(reason), UNCHANGED dir, todo' \subseteq dir,
           reason \in {"overflow", "refused", "too big", "no output"}
    PROVE  IInv'
<1>1. /\ pc' = reason /\ i' = 1
      /\ UNCHANGED <<files, offset, hdr_size, area, out>>
  BY DEF Fail, Goto
<1>2. Table' /\ n_files' = n_files /\ n_files \in Nat
  BY <1>1, TableKept
<1>3. TypeOK'
  <2>1. /\ n_files <= MAX_FILES /\ offset \in Nat /\ hdr_size \in {0, 1 + 3 * n_files}
    BY DEF IInv, TypeOK
  <2>2. /\ n_files' <= MAX_FILES /\ offset' \in Nat
        /\ hdr_size' \in {0, 1 + 3 * n_files'} /\ i' \in 1 .. n_files' + 1
    <3>1. PICK n \in Nat : n = n_files /\ n = n_files'
      BY <1>2
    <3>2. offset' = offset /\ hdr_size' = hdr_size /\ i' = 1
      BY <1>1
    <3> QED BY <2>1, <3>1, <3>2, FirstIndex
  <2>3. dir' = dir /\ todo' \subseteq dir'
    OBVIOUS
  <2>4. pc' \in {"overflow", "refused", "too big", "no output"}
    BY <1>1
  <2> QED BY <2>2, <2>3, <2>4 DEF TypeOK
<1>4. Headed' /\ Packaged'
  BY <1>1 DEF Headed, Packaged, Late
<1> QED BY <1>2, <1>3, <1>4 DEF IInv

\* The next file of the table lies behind all the others.
LEMMA AddFile ==
    ASSUME IInv, NEW e \in todo, pc = "readdir", n_files # MAX_FILES, ~e.dot,
           files' = Append(files, [name |-> e.short, from |-> e.name,
                                   size |-> e.size, offset |-> offset]),
           offset' = align(offset + e.size),
           todo' = todo \ {e}, UNCHANGED <<dir, pc, hdr_size, i, area, out>>
    PROVE  IInv'
<1>1. /\ e \in Real /\ e.size \in Nat /\ offset \in Nat
      /\ n_files <= MAX_FILES /\ MAX_FILES \in Nat /\ i \in 1 .. n_files + 1
  BY DirectoriesAssumption DEF IInv, TypeOK, Real
<1>2. PICK r \in Record : /\ r.size = e.size /\ r.offset = offset
                          /\ files' = Append(files, r)
  BY <1>1 DEF Record
<1>3. files \in Seq(Record) /\ n_files \in Nat /\ n_files = Len(files)
  BY DEF IInv, Table, n_files
<1>4. /\ files' \in Seq(Record) /\ n_files' = n_files + 1
      /\ \A a \in 1 .. n_files : files'[a] = files[a]
      /\ files'[n_files + 1] = r
  BY <1>2, <1>3, AppendProperties DEF n_files
<1>5. offset' \in Nat /\ offset + e.size <= offset'
  <2>1. offset + e.size \in Nat
    BY <1>1
  <2> QED BY <2>1, AlignUp
<1>6. TypeOK'
  <2>1. hdr_size' = 0 /\ todo' \subseteq dir'
    BY DEF IInv, TypeOK, Headed
  <2>2. n_files' <= MAX_FILES /\ i' \in 1 .. n_files' + 1
    BY <1>1, <1>3, <1>4
  <2> QED BY <2>1, <2>2, <1>5 DEF TypeOK
<1>7. \A a \in 1 .. n_files : files[a] \in Record
  BY <1>3, ElementOfSeq
<1>8. \A a \in 1 .. n_files : /\ files[a].offset \in Nat /\ files[a].size \in Nat
                              /\ files[a].offset + files[a].size <= offset
  BY <1>7 DEF IInv, Table, Record
<1>9. \A a \in 1 .. n_files' : files'[a].offset + files'[a].size <= offset'
  BY <1>1, <1>2, <1>3, <1>4, <1>5, <1>8
<1>10. \A a, b \in 1 .. n_files' :
          a < b => files'[a].offset + files'[a].size <= files'[b].offset
  <2> SUFFICES ASSUME NEW a \in 1 .. n_files', NEW b \in 1 .. n_files', a < b
               PROVE  files'[a].offset + files'[a].size <= files'[b].offset
    OBVIOUS
  <2>1. CASE b = n_files + 1
    BY <2>1, <1>2, <1>3, <1>4, <1>8
  <2>2. CASE b # n_files + 1
    BY <2>2, <1>3, <1>4 DEF IInv, Table
  <2> QED BY <2>1, <2>2
<1>11. Table'
  BY <1>4, <1>9, <1>10 DEF Table
<1>12. Headed' /\ Packaged'
  BY DEF IInv, Headed, Packaged, Late
<1> QED BY <1>6, <1>11, <1>12 DEF IInv

LEMMA ReadDirStep ==
    ASSUME IInv, NEW e \in todo, ReadDir(e)
    PROVE  IInv'
<1>1. /\ pc = "readdir" /\ todo' = todo \ {e} /\ dir' = dir /\ todo \subseteq dir
  BY DEF ReadDir, IInv, TypeOK
<1>2. CASE \E r \in {"overflow", "refused"} : Fail(r)
  BY <1>1, <1>2, FailKept
<1>3. CASE n_files # MAX_FILES /\ e.dot /\ UNCHANGED <<pc, files, offset, hdr_size, i, area, out>>
  <2>1. Table' /\ n_files' = n_files /\ n_files \in Nat
    BY <1>3, TableKept
  <2>2. TypeOK'
    BY <1>1, <1>3, <2>1 DEF IInv, TypeOK
  <2>3. Headed' /\ Packaged'
    BY <1>1, <1>3, <2>1 DEF IInv, Headed, Packaged, Late
  <2> QED BY <1>1, <2>1, <2>2, <2>3 DEF IInv
<1>4. CASE /\ n_files # MAX_FILES /\ ~e.dot /\ ~e.long /\ e.regular
           /\ files' = Append(files, [name |-> e.short, from |-> e.name,
                                      size |-> e.size, offset |-> offset])
           /\ offset' = align(offset + e.size)
           /\ UNCHANGED <<pc, hdr_size, i, area, out>>
  BY <1>1, <1>4, AddFile
<1> QED BY <1>1, <1>2, <1>3, <1>4 DEF ReadDir

\* Steps that touch the files, their offsets and the directory no more.
LEMMA Onward ==
    ASSUME IInv, UNCHANGED <<dir, files, offset>>, todo' \subseteq dir,
           pc' \in {"header", "open", "write", "unpack", "unpack torn", "done", "done torn",
                   "crashed", "undefined"},
           hdr_size' \in {0, 1 + 3 * n_files}, i' \in 1 .. n_files + 1,
           Headed', Packaged'
    PROVE  IInv'
<1>1. Table' /\ n_files' = n_files /\ n_files \in Nat
  BY TableKept
<1>2. TypeOK'
  BY <1>1 DEF IInv, TypeOK
<1> QED BY <1>1, <1>2 DEF IInv

LEMMA Bounds ==
    ASSUME IInv
    PROVE  /\ n_files \in Nat /\ 1 \in 1 .. n_files + 1
           /\ i \in 1 .. n_files + 1
           /\ hdr_size \in {0, 1 + 3 * n_files}
           /\ \A a \in 1 .. n_files : files[a].offset \in Nat /\ files[a].size \in Nat
<1>1. files \in Seq(Record) /\ n_files = Len(files)
  BY DEF IInv, Table, n_files
<1>2. n_files \in Nat
  BY <1>1
<1>3. \A a \in 1 .. n_files : files[a] \in Record
  BY <1>1, ElementOfSeq
<1>4. \A a \in 1 .. n_files : files[a].offset \in Nat /\ files[a].size \in Nat
  BY <1>3 DEF Record
<1>5. i \in 1 .. n_files + 1 /\ hdr_size \in {0, 1 + 3 * n_files}
  BY DEF IInv, TypeOK
<1> QED BY <1>2, <1>4, <1>5, FirstIndex

LEMMA ReadDirDoneStep == IInv /\ ReadDirDone => IInv'
<1> SUFFICES ASSUME IInv, ReadDirDone PROVE IInv'
  OBVIOUS
<1>1. /\ pc = "readdir" /\ pc' = "header" /\ i' = 1
      /\ UNCHANGED <<dir, todo, files, offset, hdr_size, area, out>>
  BY DEF ReadDirDone, Goto
<1>2. Headed' /\ Packaged'
  BY <1>1 DEF IInv, Headed, Packaged, Late
<1> QED BY <1>1, <1>2, Bounds, Onward DEF IInv, TypeOK

LEMMA BuildHdrStep == IInv /\ (BuildHdr \/ BuildHdrEmpty) => IInv'
<1> SUFFICES ASSUME IInv, BuildHdr \/ BuildHdrEmpty PROVE IInv'
  OBVIOUS
<1>1. UNCHANGED <<dir, todo>> /\ todo \subseteq dir
  BY DEF BuildHdr, BuildHdrEmpty, IInv, TypeOK
<1>2. CASE Fail("too big")
  BY <1>1, <1>2, FailKept
<1>3. CASE ~Fail("too big")
  <2>1. /\ hdr_size' = 1 + 3 * n_files /\ pc' = "open" /\ i' = 1
        /\ UNCHANGED <<files, offset, area, out>>
        /\ n_files > 0 =>
              1 + 3 * n_files + (files[n_files].offset + files[n_files].size) <= COS_FILE_SIZE
    <3>1. CASE BuildHdr
      <4>1. /\ n_files > 0 /\ hdr_size' = 1 + 3 * n_files /\ pc' = "open" /\ i' = 1
            /\ UNCHANGED <<files, offset, area, out>>
            /\ ~(1 + 3 * n_files + (files[n_files].offset + files[n_files].size)
                  > COS_FILE_SIZE)
        BY <3>1, <1>3 DEF BuildHdr, Goto
      <4>2. n_files # 0
        BY <4>1
      <4>3. n_files \in 1 .. n_files /\ n_files \in Nat
        BY <4>2, Bounds, LastIndex
      <4>4. PICK s \in Nat : s = 1 + 3 * n_files + (files[n_files].offset + files[n_files].size)
        BY <4>3, Bounds
      <4>5. s <= COS_FILE_SIZE
        BY <4>1, <4>4, DirectoriesAssumption
      <4> QED BY <4>1, <4>4, <4>5
    <3>2. CASE BuildHdrEmpty
      <4>1. /\ n_files = 0 /\ hdr_size' = 1 /\ pc' = "open" /\ i' = 1
            /\ UNCHANGED <<files, offset, area, out>>
        BY <3>2, <1>3 DEF BuildHdrEmpty, Goto
      <4>2. 1 + 3 * n_files = 1 /\ ~(n_files > 0)
        BY <4>1
      <4> QED BY <4>1, <4>2
    <3> QED BY <3>1, <3>2
  <2>2. n_files' = n_files
    BY <2>1 DEF n_files
  <2>3. Headed'
    <3>1. n_files > 0 => n_files \in 1 .. n_files
      BY Bounds
    <3> QED BY <2>1, <2>2, <3>1, Bounds DEF Headed, Late
  <2>4. Packaged'
    BY <2>1 DEF Packaged
  <2> QED BY <1>1, <2>1, <2>3, <2>4, Bounds, Onward
<1> QED BY <1>2, <1>3

\* While pc stays behind build_hdr and the header as it is, so does Headed.
LEMMA HeadedKept ==
    ASSUME IInv, pc \in Late, UNCHANGED <<files, hdr_size>>,
           pc' \in Late \cup {"crashed", "undefined", "no output"}
    PROVE  Headed' /\ hdr_size' \in {0, 1 + 3 * n_files} /\ hdr_size = 1 + 3 * n_files
<1>1. n_files' = n_files
  BY DEF n_files
<1> QED BY <1>1 DEF IInv, Headed, Late

LEMMA WriteHdrStep == IInv /\ WriteHdr => IInv'
<1> SUFFICES ASSUME IInv, WriteHdr PROVE IInv'
  OBVIOUS
<1>1. UNCHANGED <<dir, todo>> /\ todo \subseteq dir /\ pc = "open"
  BY DEF WriteHdr, IInv, TypeOK
<1>2. CASE Fail("no output")
  BY <1>1, <1>2, FailKept
<1>3. CASE ~Fail("no output")
  <2>1. /\ area' = WriteAt(<<>>, 0, Toc) /\ pc' = "write" /\ i' = 1
        /\ UNCHANGED <<files, offset, hdr_size, out>>
    BY <1>3 DEF WriteHdr, Goto
  <2>2. Headed' /\ hdr_size' \in {0, 1 + 3 * n_files} /\ hdr_size = 1 + 3 * n_files
    BY <1>1, <2>1, HeadedKept DEF Late
  <2>3. PICK h \in Nat \ {0} : h = hdr_size
    BY <2>2, Bounds
  <2>4. Len(Toc) = h /\ Toc[1] = <<"head", n_files>> /\ Toc # <<>>
    BY <2>3 DEF Toc
  <2>5. DOMAIN area' = 0 .. h - 1 /\ area'[0] = <<"head", n_files>>
    <3>1. Size(<<>>) = 0
      BY DEF Size
    <3>2. WriteAt(<<>>, 0, Toc) =
            [u \in 0 .. h - 1 |-> IF u \in 0 .. h - 1 THEN Toc[u - 0 + 1]
                                  ELSE IF u \in DOMAIN <<>> THEN <<>>[u] ELSE Zero]
      BY <2>4, <3>1 DEF WriteAt
    <3>3. 0 \in 0 .. h - 1
      OBVIOUS
    <3> QED BY <2>1, <2>4, <3>2, <3>3
  <2>6. Packaged'
    <3>1. n_files' = n_files
      BY <2>1 DEF n_files
    <3> QED BY <2>1, <2>5, <3>1 DEF Packaged, WithHead
  <2> QED BY <1>1, <2>1, <2>2, <2>6, Bounds, Onward
<1> QED BY <1>2, <1>3

LEMMA WriteStep == IInv /\ (WriteFile \/ WriteEnd) => IInv'
<1> SUFFICES ASSUME IInv, WriteFile \/ WriteEnd PROVE IInv'
  OBVIOUS
<1>1. /\ UNCHANGED <<dir, todo, files, offset, hdr_size>> /\ pc = "write"
      /\ pc' \in {"write", "unpack"} /\ todo \subseteq dir
  BY DEF WriteFile, WriteEnd, Goto, IInv, TypeOK
<1>2. i' \in 1 .. n_files + 1
  BY Bounds DEF WriteFile, WriteEnd, Goto
<1>3. Headed' /\ hdr_size' \in {0, 1 + 3 * n_files} /\ hdr_size = 1 + 3 * n_files
  BY <1>1, HeadedKept DEF Late
<1>4. PICK k \in Nat \ {0} : WithHead(area, k)
  BY <1>1 DEF IInv, Packaged
<1>5. PICK at \in Nat \ {0} :
         \E cells : Len(cells) \in Nat /\ area' = WriteAt(area, at, cells)
  <2>1. CASE WriteFile
    <3>1. i \in 1 .. n_files
      BY <2>1, Bounds DEF WriteFile
    <3>2. files[i].offset + hdr_size \in Nat \ {0} /\ files[i].size \in Nat
      BY <3>1, <1>3, Bounds
    <3>3. Len([u \in 1 .. files[i].size |-> Cell(files[i].from, u)]) \in Nat
      BY <3>2
    <3> QED BY <2>1, <3>2, <3>3 DEF WriteFile
  <2>2. CASE WriteEnd
    <3>1. COS_FILE_SIZE - 1 \in Nat \ {0}
      BY DirectoriesAssumption
    <3>2. \A c : Len(<<c>>) \in Nat
      OBVIOUS
    <3> QED BY <2>2, <3>1, <3>2 DEF WriteEnd
  <2> QED BY <2>1, <2>2
<1>6. Packaged'
  <2>1. \E m \in Nat \ {0} : DOMAIN area' = 0 .. m - 1 /\ area'[0] = area[0]
    <3>1. DOMAIN area = 0 .. k - 1
      BY <1>4 DEF WithHead
    <3> QED BY <3>1, <1>5, WriteKeepsHead
  <2>2. n_files' = n_files
    BY <1>1 DEF n_files
  <2> QED BY <1>1, <1>4, <2>1, <2>2 DEF Packaged, WithHead
<1> QED BY <1>1, <1>2, <1>3, <1>6, Onward

LEMMA StopStep == IInv /\ Stop => IInv'
<1> SUFFICES ASSUME IInv, Stop PROVE IInv'
  OBVIOUS
<1>1. /\ UNCHANGED <<dir, todo, files, offset, hdr_size>> /\ pc = "write"
      /\ pc' = "unpack torn" /\ i' = 1 /\ todo \subseteq dir
  BY DEF Stop, Goto, IInv, TypeOK
<1>2. Headed' /\ hdr_size' \in {0, 1 + 3 * n_files}
  BY <1>1, HeadedKept DEF Late
<1>3. PICK n \in Nat \ {0} : WithHead(area, n)
  BY <1>1 DEF IInv, Packaged
<1>4. Size(area) = n
  BY <1>3, SizeIsLength DEF WithHead
<1>5. PICK k \in 0 .. n : area' = [u \in 0 .. k - 1 |-> area[u]]
  BY <1>4 DEF Stop
<1>6. area' # <<>> => k \in Nat \ {0} /\ WithHead(area', k)
  <2>1. CASE k = 0
    <3>1. 0 .. k - 1 = {}
      BY <2>1
    <3> QED BY <3>1, <1>5
  <2>2. CASE k # 0
    <3>1. 0 \in 0 .. k - 1
      BY <2>2
    <3> QED BY <2>2, <3>1, <1>3, <1>5 DEF WithHead
  <2> QED BY <2>1, <2>2
<1>7. Packaged'
  <2>1. n_files' = n_files
    BY <1>1 DEF n_files
  <2> QED BY <1>1, <1>6, <2>1 DEF Packaged, WithHead
<1> QED BY <1>1, <1>2, <1>7, Bounds, Onward

LEMMA UnpackStep == IInv /\ (Unpack \/ Unpacked \/ UnpackNothing) => IInv'
<1> SUFFICES ASSUME IInv, Unpack \/ Unpacked \/ UnpackNothing PROVE IInv'
  OBVIOUS
<1>1. /\ UNCHANGED <<dir, todo, files, offset, hdr_size, area>> /\ todo \subseteq dir
      /\ pc \in {"unpack", "unpack torn"}
  BY DEF Unpack, Unpacked, UnpackNothing, IInv, TypeOK
<1>2. \/ pc' = pc
      \/ pc' \in {"done", "done torn", "crashed", "undefined"}
  BY DEF Unpack, Unpacked, UnpackNothing, Goto
<1>3. Headed' /\ hdr_size' \in {0, 1 + 3 * n_files}
  BY <1>1, <1>2, HeadedKept DEF Late
<1>4. i' \in 1 .. n_files + 1
  <2>1. CASE i' = 1
    BY <2>1, Bounds
  <2>2. CASE i' # 1
    <3>1. Unpack /\ area # <<>> /\ i <= Count /\ i' = i + 1
      BY <2>2 DEF Unpack, Unpacked, UnpackNothing, Goto
    <3>2. area[0] = <<"head", n_files>>
      BY <1>1, <3>1 DEF IInv, Packaged, WithHead
    <3>3. Count = n_files
      BY <3>2 DEF Count
    <3> QED BY <3>1, <3>3, Bounds
  <2> QED BY <2>1, <2>2
<1>5. Packaged'
  <2>1. n_files' = n_files
    BY <1>1 DEF n_files
  <2> QED BY <1>1, <1>2, <2>1 DEF IInv, Packaged, WithHead
<1> QED BY <1>1, <1>2, <1>3, <1>4, <1>5, Onward

-----------------------------------------------------------------------------
LEMMA StepIInv == IInv /\ [Next]_vars => IInv'
<1> SUFFICES ASSUME IInv, [Next]_vars PROVE IInv'
  OBVIOUS
<1>1. CASE UNCHANGED vars
  <2>1. Table' /\ n_files' = n_files
    BY <1>1, TableKept DEF vars
  <2> QED BY <1>1, <2>1 DEF vars, IInv, TypeOK, Headed, Packaged, WithHead, Late
<1>2. CASE \E e \in todo : ReadDir(e)
  BY <1>2, ReadDirStep
<1>3. CASE ReadDirDone
  BY <1>3, ReadDirDoneStep
<1>4. CASE BuildHdr \/ BuildHdrEmpty
  BY <1>4, BuildHdrStep
<1>5. CASE WriteHdr
  BY <1>5, WriteHdrStep
<1>6. CASE WriteFile \/ WriteEnd
  BY <1>6, WriteStep
<1>7. CASE Stop
  BY <1>7, StopStep
<1>8. CASE Unpack \/ Unpacked \/ UnpackNothing
  BY <1>8, UnpackStep
<1> QED BY <1>1, <1>2, <1>3, <1>4, <1>5, <1>6, <1>7, <1>8 DEF Next

\* The conjunction holds of every state of cospkg and of the unpackers.
THEOREM Invariance == Spec => []IInv
<1> QED BY InitIInv, StepIInv, PTL DEF Spec

\* get_files never fills the table past MAX_FILES, and the loops of write_pkg
\* and of the unpackers stay in it, also over a torn package.
THEOREM TypeCorrect == Spec => []TypeOK
<1>1. IInv => TypeOK
  BY DEF IInv
<1> QED BY <1>1, Invariance, PTL

\* Files lie apart, and from build_hdr on inside the area.
LEMMA Apart == IInv => FilesDisjoint
<1> SUFFICES ASSUME IInv PROVE FilesDisjoint
  OBVIOUS
<1>1. \A a, b \in 1 .. n_files :
         a < b => files[a].offset + files[a].size <= files[b].offset
  BY DEF IInv, Table
<1>2. ASSUME pc \in Late, NEW a \in 1 .. n_files
      PROVE  hdr_size + files[a].offset + files[a].size <= COS_FILE_SIZE
  <2>1. n_files \in 1 .. n_files /\ n_files > 0
    BY Bounds
  <2>2. hdr_size + files[n_files].offset + files[n_files].size <= COS_FILE_SIZE
    BY <1>2, <2>1 DEF IInv, Headed
  <2>3. CASE a = n_files
    BY <2>2, <2>3
  <2>4. CASE a # n_files
    <3>1. files[a].offset + files[a].size <= files[n_files].offset
      <4>1. \A n \in Nat : \A b \in 1 .. n : b # n => b < n
        OBVIOUS
      <4>2. a < n_files
        BY <4>1, <1>2, <2>4, Bounds
      <4> QED BY <1>1, <1>2, <2>1, <4>2
    <3>2. hdr_size \in Nat /\ COS_FILE_SIZE \in Nat
      BY Bounds, DirectoriesAssumption
    <3> QED BY <2>1, <2>2, <3>1, <3>2, Bounds
  <2> QED BY <2>3, <2>4
<1> QED BY <1>1, <1>2 DEF FilesDisjoint, Late

\* get_files and build_hdr give every file room of its own inside the area.
THEOREM FilesNeverOverlap == Spec => []FilesDisjoint
BY Apart, Invariance, PTL

-----------------------------------------------------------------------------
(* What the package holds, and what comes out of it. *)

At(k)      == hdr_size + files[k].offset
End(k)     == At(k) + files[k].size
TocCell(k) == 1 + 3 * (k - 1)
TocOf(k)   == <<"toc", files[k].offset + hdr_size, files[k].size, files[k].name>>

\* Every entry that is in the package is that of its file.
HasToc(a) == \A k \in 1 .. n_files : TocCell(k) \in DOMAIN a => a[TocCell(k)] = TocOf(k)

FileIn(a, k) == \A x \in 1 .. files[k].size : a[At(k) + x - 1] = Cell(files[k].from, x)

\* A file's cells in the finished package.
Image(k, x) ==
    IF At(k) + x = COS_FILE_SIZE THEN Cut(Cell(files[k].from, x)) ELSE Cell(files[k].from, x)

\* The package up to m, with the first n of the files; the others go behind it.
Filled(a, m, n) ==
    /\ DOMAIN a = 0 .. m - 1 /\ hdr_size <= m /\ m <= COS_FILE_SIZE /\ HasToc(a)
    /\ \A k \in 1 .. n_files :
          /\ k <= n => FileIn(a, k) /\ (files[k].size = 0 \/ End(k) <= m)
          /\ k > n => m <= At(k)

Finished(a) ==
    /\ DOMAIN a = 0 .. COS_FILE_SIZE - 1 /\ HasToc(a)
    /\ \A k \in 1 .. n_files : \A x \in 1 .. files[k].size : a[At(k) + x - 1] = Image(k, x)

Torn(a, m) ==
    /\ DOMAIN a = 0 .. m - 1 /\ HasToc(a)
    /\ \A k \in 1 .. n_files : End(k) <= m => FileIn(a, k)

Area ==
    /\ pc = "write" => \E m \in Nat : Filled(area, m, i - 1)
    /\ pc = "unpack" => Finished(area)
    /\ pc = "done" => DOMAIN area = 0 .. COS_FILE_SIZE - 1
    /\ pc = "unpack torn" => \E m \in 0 .. COS_FILE_SIZE : Torn(area, m)
    /\ pc = "undefined" => Size(area) < COS_FILE_SIZE

\* What has come out of the first n entries of a finished package.
OutIs(o, n) ==
    /\ DOMAIN o = {files[a].name : a \in 1 .. n}
    /\ \A k \in 1 .. n :
          (\A b \in k + 1 .. n : files[b].name # files[k].name) =>
              o[files[k].name] = [x \in 1 .. files[k].size |-> Image(k, x)]
    /\ \A s \in DOMAIN o : \E a \in 1 .. n :
          files[a].name = s /\ \A b \in a + 1 .. n : files[b].name # s

OfOneFile(o) ==
    \A s \in DOMAIN o : \E a \in 1 .. n_files :
        /\ files[a].name = s
        /\ \A u \in DOMAIN o[s] :
              o[s][u] \in {Cell(files[a].from, u), Cut(Cell(files[a].from, u)), Zero}

Outputs ==
    /\ pc \in {"readdir", "header", "open", "write"} => out = <<>>
    /\ pc = "unpack" => OutIs(out, i - 1)
    /\ pc = "done" => OutIs(out, n_files)
    /\ OfOneFile(out)

CInv == IInv /\ Area /\ Outputs


-----------------------------------------------------------------------------
\* Where the files lie.
LEMMA Places ==
    IInv /\ pc \in Late =>
        /\ n_files \in Nat /\ hdr_size \in Nat /\ hdr_size = 1 + 3 * n_files
        /\ \A k \in 1 .. n_files :
              /\ At(k) \in Nat /\ files[k].size \in Nat /\ End(k) = At(k) + files[k].size
              /\ hdr_size <= At(k) /\ End(k) <= COS_FILE_SIZE
              /\ TocCell(k) \in 0 .. hdr_size - 3
        /\ \A a, b \in 1 .. n_files : a < b => End(a) <= At(b)
<1> SUFFICES ASSUME IInv, pc \in Late
             PROVE  /\ n_files \in Nat /\ hdr_size \in Nat /\ hdr_size = 1 + 3 * n_files
                    /\ \A k \in 1 .. n_files :
                          /\ At(k) \in Nat /\ files[k].size \in Nat
                          /\ End(k) = At(k) + files[k].size
                          /\ hdr_size <= At(k) /\ End(k) <= COS_FILE_SIZE
                          /\ TocCell(k) \in 0 .. hdr_size - 3
                    /\ \A a, b \in 1 .. n_files : a < b => End(a) <= At(b)
  OBVIOUS
<1>1. hdr_size = 1 + 3 * n_files /\ n_files \in Nat
  BY Bounds DEF IInv, Headed
<1>2. PICK n \in Nat : n = n_files
  BY <1>1
<1>3. PICK h \in Nat : h = hdr_size /\ h = 1 + 3 * n
  BY <1>1, <1>2
<1>4. \A k \in 1 .. n : files[k].offset \in Nat /\ files[k].size \in Nat
  BY <1>2, Bounds
<1>5. \A k \in 1 .. n : h + files[k].offset + files[k].size <= COS_FILE_SIZE
  BY <1>2, <1>3, Apart DEF FilesDisjoint, Late
<1>6. \A a, b \in 1 .. n : a < b => files[a].offset + files[a].size <= files[b].offset
  BY <1>2, Apart DEF FilesDisjoint
<1>7. ASSUME NEW k \in 1 .. n
      PROVE  /\ At(k) \in Nat /\ files[k].size \in Nat /\ End(k) = At(k) + files[k].size
             /\ h <= At(k) /\ End(k) <= COS_FILE_SIZE /\ TocCell(k) \in 0 .. h - 3
  BY <1>3, <1>4, <1>5 DEF At, End, TocCell
<1>8. ASSUME NEW a \in 1 .. n, NEW b \in 1 .. n, a < b
      PROVE  End(a) <= At(b)
  BY <1>3, <1>4, <1>6, <1>8 DEF At, End
<1> QED BY <1>1, <1>2, <1>3, <1>7, <1>8

\* A step that keeps the table and the header keeps what is said of a package.
LEMMA SamePlaces ==
    UNCHANGED <<files, hdr_size>> =>
        /\ n_files' = n_files
        /\ \A k : At(k)' = At(k) /\ End(k)' = End(k) /\ TocOf(k)' = TocOf(k)
        /\ \A k, x : Image(k, x)' = Image(k, x)
BY DEF n_files, At, End, TocOf, Image

\* WriteAt changes the cells it writes, and no other.
LEMMA WriteAtIs ==
    ASSUME NEW a, NEW m \in Nat, DOMAIN a = 0 .. m - 1, NEW at \in Nat,
           NEW n \in Nat \ {0}, NEW cells, Len(cells) = n,
           NEW k, k = IF at + n > m THEN at + n ELSE m
    PROVE  /\ DOMAIN WriteAt(a, at, cells) = 0 .. k - 1
           /\ \A u \in 0 .. m - 1 :
                 u \notin at .. at + n - 1 => WriteAt(a, at, cells)[u] = a[u]
           /\ \A x \in 1 .. n : WriteAt(a, at, cells)[at + x - 1] = cells[x]
<1>1. Size(a) = m
  BY SizeIsLength
<1>2. cells # <<>>
  BY Len(<<>>) = 0
<1>3. WriteAt(a, at, cells) =
        [u \in 0 .. k - 1 |-> IF u \in at .. at + n - 1 THEN cells[u - at + 1]
                              ELSE IF u \in DOMAIN a THEN a[u] ELSE Zero]
  BY <1>1, <1>2 DEF WriteAt
<1>4. k \in Nat /\ at + n <= k /\ m <= k
  OBVIOUS
<1>5. ASSUME NEW u \in 0 .. m - 1, u \notin at .. at + n - 1
      PROVE  WriteAt(a, at, cells)[u] = a[u]
  <2>1. u \in 0 .. k - 1 /\ u \in DOMAIN a
    BY <1>4
  <2> QED BY <1>3, <1>5, <2>1
<1>6. ASSUME NEW x \in 1 .. n
      PROVE  WriteAt(a, at, cells)[at + x - 1] = cells[x]
  <2>1. PICK u \in Nat : u = at + x - 1
    OBVIOUS
  <2>2. u \in 0 .. k - 1 /\ u \in at .. at + n - 1 /\ u - at + 1 = x
    BY <1>4, <2>1
  <2>3. WriteAt(a, at, cells)[u] = cells[u - at + 1]
    BY <1>3, <2>2
  <2> QED BY <2>1, <2>2, <2>3
<1> QED BY <1>3, <1>5, <1>6


LEMMA SamePackage ==
    UNCHANGED <<files, hdr_size>> =>
        /\ \A m, n : Filled(area', m, n) => Filled(area, m, n)'
        /\ Finished(area') => Finished(area)'
        /\ \A m : Torn(area', m) => Torn(area, m)'
<1> SUFFICES ASSUME UNCHANGED <<files, hdr_size>>
             PROVE  /\ \A m, n : Filled(area', m, n) => Filled(area, m, n)'
                    /\ Finished(area') => Finished(area)'
                    /\ \A m : Torn(area', m) => Torn(area, m)'
  OBVIOUS
<1>1. /\ n_files' = n_files
      /\ \A k : At(k)' = At(k) /\ End(k)' = End(k) /\ TocOf(k)' = TocOf(k)
      /\ \A k, x : Image(k, x)' = Image(k, x)
  BY SamePlaces
<1>2. HasToc(area') => HasToc(area)'
  BY <1>1 DEF HasToc
<1>3. \A k : FileIn(area', k) => FileIn(area, k)'
  BY <1>1 DEF FileIn
<1>4. \A m, n : Filled(area', m, n) => Filled(area, m, n)'
  BY <1>1, <1>2, <1>3 DEF Filled
<1>5. Finished(area') => Finished(area)'
  BY <1>1, <1>2 DEF Finished
<1>6. \A m : Torn(area', m) => Torn(area, m)'
  BY <1>1, <1>2, <1>3 DEF Torn
<1> QED BY <1>4, <1>5, <1>6

\* The table of contents as it is written.
LEMMA TocIs ==
    IInv /\ pc \in Late =>
        /\ Len(Toc) = hdr_size
        /\ \A k \in 1 .. n_files : Toc[TocCell(k) + 1] = TocOf(k)
<1> SUFFICES ASSUME IInv, pc \in Late
             PROVE  /\ Len(Toc) = hdr_size
                    /\ \A k \in 1 .. n_files : Toc[TocCell(k) + 1] = TocOf(k)
  OBVIOUS
<1>1. hdr_size \in Nat /\ n_files \in Nat /\ hdr_size = 1 + 3 * n_files
  BY Places
<1>2. Len(Toc) = hdr_size
  BY <1>1 DEF Toc
<1>3. ASSUME NEW k \in 1 .. n_files
      PROVE  Toc[TocCell(k) + 1] = TocOf(k)
  <2>1. PICK u \in Nat : u = TocCell(k) + 1
    BY <1>1 DEF TocCell
  <2>2. u \in 1 .. hdr_size /\ u # 1 /\ ((u - 2) \div 3) + 1 = k
    BY <1>1, <2>1 DEF TocCell
  <2>3. Toc[u] = <<"toc", files[((u - 2) \div 3) + 1].offset + hdr_size,
                   files[((u - 2) \div 3) + 1].size, files[((u - 2) \div 3) + 1].name>>
    BY <2>2 DEF Toc
  <2> QED BY <2>1, <2>2, <2>3 DEF TocOf
<1> QED BY <1>2, <1>3

\* The header is there before any of the files.
LEMMA HeaderFills == IInv /\ pc = "open" => Filled(WriteAt(<<>>, 0, Toc), hdr_size, 0)
<1> SUFFICES ASSUME IInv, pc = "open" PROVE Filled(WriteAt(<<>>, 0, Toc), hdr_size, 0)
  OBVIOUS
<1>1. pc \in Late
  BY DEF Late
<1>2. PICK h \in Nat \ {0} : h = hdr_size
  BY <1>1, Places
<1>3. Len(Toc) = h /\ \A k \in 1 .. n_files : Toc[TocCell(k) + 1] = TocOf(k)
  BY <1>1, <1>2, TocIs
<1>4. /\ DOMAIN WriteAt(<<>>, 0, Toc) = 0 .. h - 1
      /\ \A x \in 1 .. h : WriteAt(<<>>, 0, Toc)[0 + x - 1] = Toc[x]
  <2>1. DOMAIN <<>> = 0 .. 0 - 1 /\ h = IF 0 + h > 0 THEN 0 + h ELSE 0
    OBVIOUS
  <2> QED BY <1>3, <2>1, WriteAtIs
<1>5. ASSUME NEW k \in 1 .. n_files
      PROVE  WriteAt(<<>>, 0, Toc)[TocCell(k)] = TocOf(k)
  <2>1. PICK c \in 0 .. h - 3 : c = TocCell(k)
    BY <1>1, <1>2, Places
  <2>2. c + 1 \in 1 .. h /\ 0 + (c + 1) - 1 = c
    OBVIOUS
  <2> QED BY <1>3, <1>4, <2>1, <2>2
<1>6. HasToc(WriteAt(<<>>, 0, Toc))
  BY <1>5 DEF HasToc
<1>7. ASSUME NEW k \in 1 .. n_files
      PROVE  ~(k <= 0) /\ h <= At(k)
  BY <1>1, <1>2, Places
<1>8. h <= COS_FILE_SIZE
  <2>1. CASE n_files = 0
    BY <2>1, <1>1, <1>2, Places, DirectoriesAssumption
  <2>2. CASE n_files # 0
    <3>1. 1 \in 1 .. n_files
      BY <2>2, <1>1, Places
    <3> QED BY <3>1, <1>1, <1>2, Places, DirectoriesAssumption
  <2> QED BY <2>1, <2>2
<1> QED BY <1>2, <1>4, <1>6, <1>7, <1>8 DEF Filled

\* write_pkg adds one file behind those that are there.
LEMMA FileFills ==
    ASSUME IInv, pc = "write", NEW m \in Nat, NEW k \in 1 .. n_files,
           Filled(area, m, k - 1)
    PROVE  \E n \in Nat :
              Filled(WriteAt(area, files[k].offset + hdr_size,
                             [u \in 1 .. files[k].size |-> Cell(files[k].from, u)]), n, k)
<1>1. pc \in Late
  BY DEF Late
<1>2. PICK at \in Nat : at = At(k) /\ at = files[k].offset + hdr_size
  BY <1>1, Places, Bounds DEF At
<1>3. PICK s \in Nat : s = files[k].size
  BY <1>1, Places
<1>4. PICK cells : cells = [u \in 1 .. s |-> Cell(files[k].from, u)]
  OBVIOUS
<1>5. PICK b : b = WriteAt(area, at, cells)
  OBVIOUS
<1>6. m <= at /\ End(k) = at + s /\ at + s <= COS_FILE_SIZE /\ n_files \in Nat
  <2>1. m <= At(k)
    <3>1. k > k - 1
      BY <1>1, Places
    <3> QED BY <3>1 DEF Filled
  <2> QED BY <1>1, <1>2, <1>3, <2>1, Places
<1>7. CASE s = 0
  <2>1. b = area
    <3>1. cells = <<>>
      BY <1>4, <1>7
    <3> QED BY <3>1, <1>5 DEF WriteAt
  <2>2. FileIn(b, k)
    BY <1>3, <1>7 DEF FileIn
  <2>3. ASSUME NEW j \in 1 .. n_files, j > k
        PROVE  m <= At(j) /\ j > k - 1
    BY <1>6, <2>3 DEF Filled
  <2>4. ASSUME NEW j \in 1 .. n_files, j <= k
        PROVE  FileIn(b, j) /\ (files[j].size = 0 \/ End(j) <= m)
    <3>1. CASE j = k
      BY <3>1, <2>2, <1>3, <1>7
    <3>2. CASE j # k
      <4>1. j <= k - 1
        BY <1>6, <3>2, <2>4
      <4> QED BY <4>1, <2>1 DEF Filled
    <3> QED BY <3>1, <3>2
  <2>5. Filled(b, m, k)
    BY <2>1, <2>3, <2>4 DEF Filled
  <2> QED BY <2>5, <1>2, <1>3, <1>4, <1>5
<1>8. CASE s # 0
  <2>1. Len(cells) = s /\ s \in Nat \ {0} /\ \A x \in 1 .. s : cells[x] = Cell(files[k].from, x)
    BY <1>4, <1>8
  <2>2. PICK n \in Nat : n = at + s
    OBVIOUS
  <2>3. /\ DOMAIN b = 0 .. n - 1
        /\ \A u \in 0 .. m - 1 : u \notin at .. at + s - 1 => b[u] = area[u]
        /\ \A x \in 1 .. s : b[at + x - 1] = cells[x]
    <3>1. DOMAIN area = 0 .. m - 1
      BY DEF Filled
    <3>2. n = IF at + s > m THEN at + s ELSE m
      BY <1>6, <2>1, <2>2
    <3> QED BY <1>5, <2>1, <3>1, <3>2, WriteAtIs
  <2>4. \A u \in 0 .. m - 1 : b[u] = area[u]
    BY <1>6, <2>3
  <2>5. FileIn(b, k)
    BY <1>2, <1>3, <2>1, <2>3 DEF FileIn
  <2>6. hdr_size <= m /\ m <= n /\ n <= COS_FILE_SIZE /\ hdr_size \in Nat
    BY <1>1, <1>6, <2>2, Places DEF Filled
  <2>7. HasToc(b)
    <3>1. ASSUME NEW j \in 1 .. n_files
          PROVE  b[TocCell(j)] = TocOf(j)
      <4>1. TocCell(j) \in 0 .. hdr_size - 3
        BY <1>1, Places
      <4>2. TocCell(j) \in 0 .. m - 1
        BY <4>1, <2>6
      <4> QED BY <2>4, <4>2 DEF Filled, HasToc
    <3> QED BY <3>1 DEF HasToc
  <2>8. ASSUME NEW j \in 1 .. n_files, j > k
        PROVE  n <= At(j)
    BY <1>1, <1>6, <2>2, <2>8, Places
  <2>9. ASSUME NEW j \in 1 .. n_files, j <= k
        PROVE  FileIn(b, j) /\ (files[j].size = 0 \/ End(j) <= n)
    <3>1. CASE j = k
      BY <3>1, <2>5, <1>6, <2>2
    <3>2. CASE j # k
      <4>1. j <= k - 1
        BY <1>6, <3>2, <2>9
      <4>2. FileIn(area, j) /\ (files[j].size = 0 \/ End(j) <= m)
        BY <4>1 DEF Filled
      <4>3. /\ At(j) \in Nat /\ files[j].size \in Nat /\ End(j) = At(j) + files[j].size
        BY <1>1, Places
      <4>4. FileIn(b, j)
        BY <2>4, <4>2, <4>3 DEF FileIn
      <4> QED BY <4>2, <4>3, <4>4, <2>6
    <3> QED BY <3>1, <3>2
  <2>10. Filled(b, n, k)
    BY <2>3, <2>6, <2>7, <2>8, <2>9 DEF Filled
  <2> QED BY <2>10, <1>2, <1>3, <1>4, <1>5
<1> QED BY <1>7, <1>8


\* The last byte is written, and the package is as long as the area.
LEMMA EndFinishes ==
    ASSUME IInv, pc = "write", NEW m \in Nat, Filled(area, m, n_files),
           NEW last, last = COS_FILE_SIZE - 1
    PROVE  Finished(WriteAt(area, last, << IF last \in DOMAIN area THEN Cut(area[last])
                                           ELSE Zero >>))
<1>1. pc \in Late
  BY DEF Late
<1>2. last \in Nat /\ COS_FILE_SIZE = last + 1
  BY DirectoriesAssumption
<1>3. PICK c : c = IF last \in DOMAIN area THEN Cut(area[last]) ELSE Zero
  OBVIOUS
<1>4. PICK b : b = WriteAt(area, last, <<c>>)
  OBVIOUS
<1>5. DOMAIN area = 0 .. m - 1 /\ hdr_size <= m /\ m <= last + 1 /\ hdr_size \in Nat
  BY <1>1, <1>2, Places DEF Filled
<1>6. /\ DOMAIN b = 0 .. (last + 1) - 1
      /\ \A u \in 0 .. m - 1 : u \notin last .. last + 1 - 1 => b[u] = area[u]
      /\ \A x \in 1 .. 1 : b[last + x - 1] = <<c>>[x]
  <2>1. PICK n \in Nat \ {0} : n = 1
    OBVIOUS
  <2>2. PICK cells : cells = <<c>>
    OBVIOUS
  <2>3. Len(cells) = n
    BY <2>1, <2>2
  <2>4. PICK e : e = IF last + n > m THEN last + n ELSE m
    OBVIOUS
  <2>5. e = last + 1
    BY <1>2, <1>5, <2>1, <2>4
  <2>6. DOMAIN area = 0 .. m - 1
    BY <1>5
  <2>7. /\ DOMAIN WriteAt(area, last, cells) = 0 .. e - 1
        /\ \A u \in 0 .. m - 1 :
              u \notin last .. last + n - 1 => WriteAt(area, last, cells)[u] = area[u]
        /\ \A x \in 1 .. n : WriteAt(area, last, cells)[last + x - 1] = cells[x]
    BY <1>2, <2>3, <2>4, <2>6, WriteAtIs
  <2> QED BY <1>4, <2>1, <2>2, <2>5, <2>7
<1>7. b[last] = c
  <2>1. 1 \in 1 .. 1 /\ last + 1 - 1 = last /\ <<c>>[1] = c
    BY <1>2
  <2> QED BY <1>6, <2>1
<1>8. \A u \in 0 .. m - 1 : u # last => b[u] = area[u]
  BY <1>2, <1>6
<1>9. HasToc(b)
  <2>1. ASSUME NEW j \in 1 .. n_files
        PROVE  b[TocCell(j)] = TocOf(j)
    <3>1. TocCell(j) \in 0 .. hdr_size - 3
      BY <1>1, Places
    <3>2. TocCell(j) \in 0 .. m - 1 /\ TocCell(j) # last
      BY <3>1, <1>2, <1>5
    <3> QED BY <1>5, <1>8, <3>2 DEF Filled, HasToc
  <2> QED BY <2>1 DEF HasToc
<1>10. ASSUME NEW k \in 1 .. n_files, NEW x \in 1 .. files[k].size
       PROVE  b[At(k) + x - 1] = Image(k, x)
  <2>1. /\ At(k) \in Nat /\ files[k].size \in Nat /\ End(k) = At(k) + files[k].size
        /\ n_files \in Nat
    BY <1>1, Places
  <2>2. k <= n_files
    BY <2>1
  <2>3. FileIn(area, k) /\ End(k) <= m
    BY <2>1, <2>2 DEF Filled
  <2>4. PICK u \in Nat : u = At(k) + x - 1
    BY <2>1
  <2>5. u \in 0 .. m - 1 /\ area[u] = Cell(files[k].from, x)
    BY <1>5, <2>1, <2>3, <2>4 DEF FileIn
  <2>6. CASE u = last
    <3>1. At(k) + x = COS_FILE_SIZE
      BY <1>2, <2>1, <2>4, <2>6
    <3>2. c = Cut(area[last])
      BY <1>3, <1>5, <2>5, <2>6
    <3> QED BY <1>7, <2>4, <2>5, <2>6, <3>1, <3>2 DEF Image
  <2>7. CASE u # last
    <3>1. At(k) + x # COS_FILE_SIZE
      BY <1>2, <2>1, <2>4, <2>7
    <3> QED BY <1>8, <2>4, <2>5, <2>7, <3>1 DEF Image
  <2> QED BY <2>6, <2>7
<1>11. DOMAIN b = 0 .. COS_FILE_SIZE - 1
  BY <1>2, <1>6
<1> QED BY <1>3, <1>4, <1>9, <1>10, <1>11 DEF Finished

\* What is left of a package that was interrupted.
LEMMA PrefixIsTorn ==
    ASSUME IInv, pc = "write", NEW m \in Nat, NEW n, n \in Nat, Filled(area, m, n),
           NEW k \in 0 .. m
    PROVE  Torn([u \in 0 .. k - 1 |-> area[u]], k)
<1>1. pc \in Late
  BY DEF Late
<1>2. PICK b : b = [u \in 0 .. k - 1 |-> area[u]]
  OBVIOUS
<1>3. DOMAIN area = 0 .. m - 1
  BY DEF Filled
<1>4. DOMAIN b = 0 .. k - 1 /\ \A u \in 0 .. k - 1 : u \in 0 .. m - 1 /\ b[u] = area[u]
  BY <1>2
<1>5. HasToc(b)
  BY <1>3, <1>4 DEF Filled, HasToc
<1>6. ASSUME NEW j \in 1 .. n_files, End(j) <= k
      PROVE  FileIn(b, j)
  <2>1. /\ At(j) \in Nat /\ files[j].size \in Nat /\ End(j) = At(j) + files[j].size
        /\ n_files \in Nat
    BY <1>1, Places
  <2>2. CASE j <= n
    <3>1. FileIn(area, j)
      BY <2>2 DEF Filled
    <3>2. PICK q \in Nat, s \in Nat : q = At(j) /\ s = files[j].size BY <2>1
    <3>3. q + s <= k BY <1>6, <2>1, <3>2
    <3>4. ASSUME NEW x \in 1 .. s PROVE b[q + x - 1] = Cell(files[j].from, x)
      <4>1. q + x - 1 \in 0 .. k - 1 BY <3>3
      <4>2. area[q + x - 1] = Cell(files[j].from, x) BY <3>1, <3>2 DEF FileIn
      <4> QED BY <4>1, <4>2, <1>4
    <3> QED BY <3>2, <3>4 DEF FileIn
  <2>3. CASE ~(j <= n)
    <3>1. m <= At(j)
      BY <2>1, <2>3 DEF Filled
    <3>2. files[j].size = 0
      BY <1>6, <2>1, <3>1
    <3> QED BY <3>2 DEF FileIn
  <2> QED BY <2>2, <2>3
<1> QED BY <1>2, <1>4, <1>5, <1>6 DEF Torn

\* The unpackers' view of an entry of the table of contents.
LEMMA EntryIs ==
    ASSUME NEW k \in 1 .. n_files, n_files \in Nat, HasToc(area), NEW m \in Nat,
           DOMAIN area = 0 .. m - 1, 3 * k < m
    PROVE  /\ Entry(k)[2] = files[k].offset + hdr_size
           /\ Entry(k)[3] = files[k].size
           /\ Entry(k)[4] = files[k].name
<1>1. TocCell(k) \in DOMAIN area
  BY DEF TocCell
<1>2. area[1 + 3 * (k - 1)] = TocOf(k)
  BY <1>1 DEF HasToc, TocCell
<1> QED BY <1>2 DEF Entry, TocOf

\* A package of full length is mapped wherever its entries point.
LEMMA WholeIsMapped ==
    ASSUME IInv, pc \in Late, NEW k \in 1 .. n_files, HasToc(area),
           DOMAIN area = 0 .. COS_FILE_SIZE - 1
    PROVE  Mapped(k) /\ 3 * k < COS_FILE_SIZE
<1>1. COS_FILE_SIZE \in Nat /\ n_files \in Nat /\ hdr_size \in Nat
  BY DirectoriesAssumption, Places
<1>2. Size(area) = COS_FILE_SIZE
  BY <1>1, SizeIsLength
<1>3. /\ At(k) \in Nat /\ files[k].size \in Nat /\ End(k) = At(k) + files[k].size
      /\ hdr_size <= At(k) /\ End(k) <= COS_FILE_SIZE /\ hdr_size = 1 + 3 * n_files
  BY Places
<1>4. 3 * k < COS_FILE_SIZE
  BY <1>1, <1>3
<1>5. Entry(k)[2] = files[k].offset + hdr_size /\ Entry(k)[3] = files[k].size
  BY <1>1, <1>4, EntryIs
<1>6. files[k].offset + hdr_size = At(k)
  BY <1>1, Bounds DEF At
<1> QED BY <1>2, <1>3, <1>4, <1>5, <1>6 DEF Mapped

\* What the unpackers count is what was packed.
LEMMA CountIs ==
    IInv /\ pc \in {"unpack", "unpack torn"} /\ area # <<>> => Count = n_files
<1> SUFFICES ASSUME IInv, pc \in {"unpack", "unpack torn"}, area # <<>>
             PROVE  Count = n_files
  OBVIOUS
<1>1. area[0] = <<"head", n_files>>
  BY DEF IInv, Packaged, WithHead
<1> QED BY ONLY <1>1 DEF Count


-----------------------------------------------------------------------------
\* What comes out once a file of the name s has been written.
Plus(o, s, cells) == [f \in DOMAIN o \cup {s} |-> IF f = s THEN cells ELSE o[f]]

\* One entry of a finished package more: the file replaces one of the same name.
LEMMA OutNext ==
    ASSUME IInv, pc \in Late, NEW k \in 1 .. n_files, NEW o, OutIs(o, k - 1), NEW cells,
           cells = [x \in 1 .. files[k].size |-> Image(k, x)]
    PROVE  OutIs(Plus(o, files[k].name, cells), k)
<1>1. n_files \in Nat /\ k \in Nat
  BY Places
<1>2. PICK s : s = files[k].name
  OBVIOUS
<1>3. PICK p : p = Plus(o, s, cells)
  OBVIOUS
<1>4. /\ DOMAIN p = DOMAIN o \cup {s} /\ p[s] = cells
      /\ \A f \in DOMAIN o : f # s => p[f] = o[f]
  BY <1>3 DEF Plus
<1>5. \A a : a \in 1 .. k <=> a \in 1 .. k - 1 \/ a = k
  BY <1>1
<1>6. DOMAIN p = {files[a].name : a \in 1 .. k}
  <2>1. DOMAIN o = {files[a].name : a \in 1 .. k - 1}
    BY DEF OutIs
  <2> QED BY <2>1, <1>2, <1>4, <1>5
<1>7. ASSUME NEW j \in 1 .. k, \A b \in j + 1 .. k : files[b].name # files[j].name
      PROVE  p[files[j].name] = [x \in 1 .. files[j].size |-> Image(j, x)]
  <2>1. CASE j = k
    BY <2>1, <1>2, <1>4
  <2>2. CASE j # k
    <3>1. j \in 1 .. k - 1
      BY <2>2, <1>1
    <3>2. k \in j + 1 .. k
      BY <3>1, <1>1
    <3>3. files[j].name # s
      BY <3>2, <1>2, <1>7
    <3>4. \A b \in j + 1 .. k - 1 : b \in j + 1 .. k
      BY <1>1
    <3>5. o[files[j].name] = [x \in 1 .. files[j].size |-> Image(j, x)]
      BY <3>1, <3>4, <1>7 DEF OutIs
    <3>6. files[j].name \in DOMAIN o
      BY <3>1 DEF OutIs
    <3> QED BY <3>3, <3>5, <3>6, <1>4
  <2> QED BY <2>1, <2>2
<1>8. ASSUME NEW t \in DOMAIN p
      PROVE  \E a \in 1 .. k :
                files[a].name = t /\ \A b \in a + 1 .. k : files[b].name # t
  <2>1. CASE t = s
    <3>1. k \in 1 .. k /\ \A b : ~(b \in k + 1 .. k)
      BY <1>1
    <3> QED BY <2>1, <3>1, <1>2
  <2>2. CASE t # s
    <3>1. t \in DOMAIN o
      BY <2>2, <1>4
    <3>2. PICK a \in 1 .. k - 1 :
             files[a].name = t /\ \A b \in a + 1 .. k - 1 : files[b].name # t
      BY <3>1 DEF OutIs
    <3>3. a \in 1 .. k /\ \A b : b \in a + 1 .. k => b \in a + 1 .. k - 1 \/ b = k
      BY <1>1
    <3> QED BY <2>2, <3>2, <3>3, <1>2
  <2> QED BY <2>1, <2>2
<1> QED BY <1>2, <1>3, <1>6, <1>7, <1>8 DEF OutIs

LEMMA OneFileMore ==
    ASSUME NEW k \in 1 .. n_files, NEW o, OfOneFile(o), NEW cells,
           \A u \in DOMAIN cells :
              cells[u] \in {Cell(files[k].from, u), Cut(Cell(files[k].from, u)), Zero}
    PROVE  OfOneFile(Plus(o, files[k].name, cells))
<1>1. PICK s : s = files[k].name
  OBVIOUS
<1>2. PICK p : p = Plus(o, s, cells)
  OBVIOUS
<1>3. /\ DOMAIN p = DOMAIN o \cup {s} /\ p[s] = cells
      /\ \A f \in DOMAIN o : f # s => p[f] = o[f]
  BY <1>2 DEF Plus
<1>4. ASSUME NEW t \in DOMAIN p
      PROVE  \E a \in 1 .. n_files :
                /\ files[a].name = t
                /\ \A u \in DOMAIN p[t] :
                      p[t][u] \in {Cell(files[a].from, u), Cut(Cell(files[a].from, u)), Zero}
  <2>1. CASE t = s
    BY <2>1, <1>1, <1>3
  <2>2. CASE t # s
    <3>1. t \in DOMAIN o /\ p[t] = o[t]
      BY <2>2, <1>3
    <3> QED BY <3>1 DEF OfOneFile
  <2> QED BY <2>1, <2>2
<1> QED BY <1>1, <1>2, <1>4 DEF OfOneFile

\* Nothing has come out yet.
LEMMA NothingOut == OutIs(<<>>, 0) /\ OfOneFile(<<>>)
<1>1. 1 .. 0 = {} /\ DOMAIN <<>> = {}
  OBVIOUS
<1> QED BY <1>1 DEF OutIs, OfOneFile

LEMMA SameOut ==
    UNCHANGED <<files, hdr_size>> =>
        /\ \A n : OutIs(out', n) => OutIs(out, n)'
        /\ OfOneFile(out') => OfOneFile(out)'
<1> SUFFICES ASSUME UNCHANGED <<files, hdr_size>>
             PROVE  /\ \A n : OutIs(out', n) => OutIs(out, n)'
                    /\ OfOneFile(out') => OfOneFile(out)'
  OBVIOUS
<1>1. n_files' = n_files /\ \A k, x : Image(k, x)' = Image(k, x)
  BY SamePlaces
<1> QED BY <1>1 DEF OutIs, OfOneFile

-----------------------------------------------------------------------------
\* Steps before the first file is unpacked.
LEMMA StillNothingOut ==
    ASSUME CInv, pc \in {"readdir", "header", "open", "write"}, UNCHANGED out,
           pc' \notin {"unpack", "done"}
    PROVE  Outputs'
<1>1. out = <<>> /\ out' = <<>>
  BY DEF CInv, Outputs
<1>2. OfOneFile(out)'
  BY <1>1 DEF OfOneFile
<1> QED BY <1>1, <1>2 DEF Outputs

LEMMA TableSteps ==
    CInv /\ ((\E e \in todo : ReadDir(e)) \/ ReadDirDone \/ BuildHdr \/ BuildHdrEmpty)
        => Area' /\ Outputs'
<1> SUFFICES ASSUME CInv,
                    (\E e \in todo : ReadDir(e)) \/ ReadDirDone \/ BuildHdr \/ BuildHdrEmpty
             PROVE  Area' /\ Outputs'
  OBVIOUS
<1>1. /\ pc \in {"readdir", "header"} /\ out' = out
      /\ pc' \in {"readdir", "header", "open", "overflow", "refused", "too big"}
  <2>1. CASE \E e \in todo : ReadDir(e)
    BY <2>1 DEF ReadDir, Fail, Goto
  <2>2. CASE ReadDirDone \/ BuildHdr \/ BuildHdrEmpty
    BY <2>2 DEF ReadDirDone, BuildHdr, BuildHdrEmpty, Fail, Goto
  <2> QED BY <2>1, <2>2
<1>2. Outputs'
  BY <1>1, StillNothingOut
<1>3. Area'
  BY <1>1 DEF Area
<1> QED BY <1>2, <1>3

LEMMA HdrStep == CInv /\ WriteHdr => Area' /\ Outputs'
<1> SUFFICES ASSUME CInv, WriteHdr PROVE Area' /\ Outputs'
  OBVIOUS
<1>1. /\ pc = "open" /\ out' = out /\ UNCHANGED <<files, hdr_size>> /\ i' = 1
      /\ pc' = "no output" \/ (pc' = "write" /\ area' = WriteAt(<<>>, 0, Toc))
  BY DEF WriteHdr, Fail, Goto
<1>2. Outputs'
  BY <1>1, StillNothingOut
<1>3. Area'
  <2>1. CASE pc' = "no output"
    BY <2>1 DEF Area
  <2>2. CASE pc' = "write"
    <3>1. PICK h \in Nat : h = hdr_size
      BY <1>1, Places DEF CInv, Late
    <3>2. Filled(area', h, 0)
      BY <1>1, <2>2, <3>1, HeaderFills DEF CInv
    <3>3. Filled(area, h, 0)'
      BY <1>1, <3>2, SamePackage
    <3>4. i' - 1 = 0
      <4>1. i' = 1
        BY <1>1
      <4> QED BY ONLY <4>1
    <3> QED BY <2>2, <3>3, <3>4 DEF Area
  <2> QED BY <1>1, <2>1, <2>2
<1> QED BY <1>2, <1>3


LEMMA FileStep == CInv /\ WriteFile => Area' /\ Outputs'
<1> SUFFICES ASSUME CInv, WriteFile PROVE Area' /\ Outputs'
  OBVIOUS
<1>1. /\ pc = "write" /\ pc' = "write" /\ out' = out /\ UNCHANGED <<files, hdr_size>>
      /\ i <= n_files /\ i' = i + 1
      /\ area' = WriteAt(area, files[i].offset + hdr_size,
                         [u \in 1 .. files[i].size |-> Cell(files[i].from, u)])
  BY DEF WriteFile
<1>2. Outputs'
  BY <1>1, StillNothingOut
<1>3. PICK k \in 1 .. n_files : k = i
  BY <1>1, Bounds DEF CInv
<1>4. PICK m \in Nat : Filled(area, m, k - 1)
  BY <1>1, <1>3 DEF CInv, Area
<1>5. PICK n \in Nat : Filled(area', n, k)
  BY <1>1, <1>3, <1>4, FileFills DEF CInv
<1>6. Filled(area, n, k)'
  BY <1>1, <1>5, SamePackage
<1>7. i' - 1 = k
  <2>1. k \in Nat /\ i' = k + 1
    BY <1>1, <1>3, Bounds DEF CInv
  <2> QED BY ONLY <2>1
<1>8. Area'
  BY <1>1, <1>6, <1>7 DEF Area
<1> QED BY <1>2, <1>8

LEMMA EndStep == CInv /\ WriteEnd => Area' /\ Outputs'
<1> SUFFICES ASSUME CInv, WriteEnd PROVE Area' /\ Outputs'
  OBVIOUS
<1>1. /\ pc = "write" /\ pc' = "unpack" /\ out' = out /\ UNCHANGED <<files, hdr_size>>
      /\ i > n_files /\ i' = 1
  BY DEF WriteEnd, Goto
<1>2. i - 1 = n_files
  BY <1>1, Bounds DEF CInv
<1>3. PICK m \in Nat : Filled(area, m, n_files)
  BY <1>1, <1>2 DEF CInv, Area
<1>4. Finished(area')
  <2>1. PICK last : last = COS_FILE_SIZE - 1
    OBVIOUS
  <2>2. area' = WriteAt(area, last, << IF last \in DOMAIN area THEN Cut(area[last])
                                       ELSE Zero >>)
    BY <2>1 DEF WriteEnd
  <2> QED BY <1>1, <1>3, <2>1, <2>2, EndFinishes DEF CInv
<1>5. Finished(area)'
  BY <1>1, <1>4, SamePackage
<1>6. Area'
  BY <1>1, <1>5 DEF Area
<1>7. out' = <<>>
  BY <1>1 DEF CInv, Outputs
<1>8. OutIs(out, 0)' /\ OfOneFile(out)'
  BY <1>1, <1>7, NothingOut, SameOut
<1>9. i' - 1 = 0
  <2>1. i' = 1
    BY <1>1
  <2> QED BY ONLY <2>1
<1>10. Outputs'
  BY <1>1, <1>8, <1>9 DEF Outputs
<1> QED BY <1>6, <1>10

LEMMA StopSteps == CInv /\ Stop => Area' /\ Outputs'
<1> SUFFICES ASSUME CInv, Stop PROVE Area' /\ Outputs'
  OBVIOUS
<1>1. /\ pc = "write" /\ pc' = "unpack torn" /\ out' = out /\ UNCHANGED <<files, hdr_size>>
      /\ \E k \in 0 .. Size(area) : area' = [u \in 0 .. k - 1 |-> area[u]]
  BY DEF Stop, Goto
<1>2. Outputs'
  BY <1>1, StillNothingOut
<1>3. PICK n \in Nat : n = i - 1
  BY Bounds DEF CInv
<1>4. PICK m \in Nat : Filled(area, m, n)
  BY <1>1, <1>3 DEF CInv, Area
<1>5. Size(area) = m /\ m <= COS_FILE_SIZE
  BY <1>4, SizeIsLength DEF Filled
<1>6. PICK k \in 0 .. m : area' = [u \in 0 .. k - 1 |-> area[u]]
  BY <1>1, <1>5
<1>7. Torn(area', k)
  BY <1>1, <1>4, <1>6, PrefixIsTorn DEF CInv
<1>8. Torn(area, k)'
  BY <1>1, <1>7, SamePackage
<1>9. k \in 0 .. COS_FILE_SIZE
  BY <1>5, DirectoriesAssumption
<1>10. Area'
  BY <1>1, <1>8, <1>9 DEF Area
<1> QED BY <1>2, <1>10


\* unpack_file writes what lies where the entry points.
LEMMA EntryOut ==
    ASSUME IInv, pc \in Late, Unpack, pc' \notin {"crashed", "undefined"},
           NEW k \in 1 .. n_files, k = i,
           HasToc(area), NEW m \in Nat, DOMAIN area = 0 .. m - 1
    PROVE  /\ out' = Plus(out, files[k].name,
                          [x \in 1 .. files[k].size |-> area[At(k) + x - 1]])
           /\ 3 * k < m /\ (files[k].size = 0 \/ End(k) <= m)
<1>1. Size(area) = m /\ n_files \in Nat
  BY SizeIsLength, Places
<1>2. Mapped(k)
  BY DEF Unpack, Goto
<1>3. 3 * k < m
  BY <1>1, <1>2 DEF Mapped
<1>4. /\ Entry(k)[2] = files[k].offset + hdr_size /\ Entry(k)[3] = files[k].size
      /\ Entry(k)[4] = files[k].name
  BY <1>1, <1>3, EntryIs
<1>5. files[k].offset + hdr_size = At(k) /\ End(k) = At(k) + files[k].size
  BY Bounds, Places DEF At
<1>6. files[k].size = 0 \/ End(k) <= m
  BY <1>1, <1>2, <1>4, <1>5 DEF Mapped
<1>7. out' = [f \in DOMAIN out \cup {Entry(k)[4]} |->
                IF f = Entry(k)[4]
                THEN [u \in 1 .. Entry(k)[3] |-> area[Entry(k)[2] + u - 1]]
                ELSE out[f]]
  BY DEF Unpack, Goto
<1> QED BY <1>3, <1>4, <1>5, <1>6, <1>7 DEF Plus

\* An unpacker that goes on with a package.
LEMMA UnpackMore ==
    CInv /\ Unpack /\ pc' \notin {"crashed", "undefined"} => Area' /\ Outputs'
<1> SUFFICES ASSUME CInv, Unpack, pc' \notin {"crashed", "undefined"}
             PROVE  Area' /\ Outputs'
  OBVIOUS
<1>1. /\ pc \in {"unpack", "unpack torn"} /\ pc' = pc /\ i <= Count /\ area # <<>>
      /\ UNCHANGED <<files, hdr_size, area>>
  BY DEF Unpack, Goto
<1>2. i' = i + 1
  BY DEF Unpack, Goto
<1>3. n_files \in Nat /\ pc \in Late
  BY <1>1, Bounds DEF CInv, Late
<1>4. i <= n_files
  BY <1>1, CountIs DEF CInv
<1>5. PICK k \in 1 .. n_files : k = i
  BY <1>4, Bounds DEF CInv
<1>6. i' - 1 = k
  <2>1. k \in Nat /\ i' = k + 1
    BY <1>2, <1>3, <1>5
  <2> QED BY ONLY <2>1
<1>7. PICK m \in Nat : DOMAIN area = 0 .. m - 1 /\ HasToc(area)
                       /\ (pc = "unpack" => m = COS_FILE_SIZE)
                       /\ (pc = "unpack torn" => Torn(area, m))
  <2>1. CASE pc = "unpack"
    BY <2>1, DirectoriesAssumption DEF CInv, Area, Finished
  <2>2. CASE pc = "unpack torn"
    <3>1. \A x \in 0 .. COS_FILE_SIZE : x \in Nat
      BY DirectoriesAssumption
    <3> QED BY <2>2, <3>1 DEF CInv, Area, Torn
  <2> QED BY <1>1, <2>1, <2>2
<1>8. PICK cells : cells = [x \in 1 .. files[k].size |-> area[At(k) + x - 1]]
  OBVIOUS
<1>9. out' = Plus(out, files[k].name, cells) /\ (files[k].size = 0 \/ End(k) <= m)
  BY <1>3, <1>5, <1>7, <1>8, EntryOut DEF CInv
<1>10. files[k].size \in Nat /\ OfOneFile(out)
  BY Bounds DEF CInv, Outputs
<1>11. CASE pc = "unpack"
  <2>1. Finished(area) /\ OutIs(out, k - 1)
    BY <1>5, <1>11 DEF CInv, Area, Outputs
  <2>2. cells = [x \in 1 .. files[k].size |-> Image(k, x)]
    BY <1>8, <2>1 DEF Finished
  <2>3. OutIs(out', k)
    BY <1>3, <1>9, <2>1, <2>2, OutNext DEF CInv
  <2>4. OfOneFile(out')
    <3>1. \A u \in DOMAIN cells : cells[u] \in {Cell(files[k].from, u),
                                               Cut(Cell(files[k].from, u)), Zero}
      BY <2>2 DEF Image
    <3> QED BY <1>9, <1>10, <3>1, OneFileMore
  <2>5. OutIs(out, k)' /\ OfOneFile(out)'
    BY <1>1, <2>3, <2>4, SameOut
  <2>6. Finished(area)'
    BY <1>1, <2>1, SamePackage
  <2>7. Outputs'
    BY <1>1, <1>6, <1>11, <2>5 DEF Outputs
  <2>8. Area'
    BY <1>1, <1>11, <2>6 DEF Area
  <2> QED BY <2>7, <2>8
<1>12. CASE pc = "unpack torn"
  <2>1. Torn(area, m) /\ m \in 0 .. COS_FILE_SIZE
    <3>1. PICK x \in 0 .. COS_FILE_SIZE : Torn(area, x)
      BY <1>12 DEF CInv, Area
    <3>2. x \in Nat
      BY DirectoriesAssumption
    <3>3. Size(area) = x /\ Size(area) = m
      BY <1>7, <3>1, <3>2, SizeIsLength DEF Torn
    <3> QED BY <3>1, <3>3
  <2>2. \A u \in DOMAIN cells : cells[u] \in {Cell(files[k].from, u),
                                              Cut(Cell(files[k].from, u)), Zero}
    <3>1. CASE files[k].size = 0
      BY <1>8, <3>1
    <3>2. CASE End(k) <= m
      <4>1. FileIn(area, k)
        BY <2>1, <3>2 DEF Torn
      <4> QED BY <1>8, <4>1 DEF FileIn
    <3> QED BY <1>9, <3>1, <3>2
  <2>3. OfOneFile(out)'
    BY <1>1, <1>9, <1>10, <2>2, OneFileMore, SameOut
  <2>4. Torn(area, m)'
    BY <1>1, <2>1, SamePackage
  <2>5. Outputs'
    BY <1>1, <1>12, <2>3 DEF Outputs
  <2>6. Area'
    BY <1>1, <1>12, <2>1, <2>4 DEF Area
  <2> QED BY <2>5, <2>6
<1> QED BY <1>1, <1>11, <1>12

\* An unpacker that ends: only over a package that is too short does it leave it.
LEMMA UnpackEnds ==
    CInv /\ (Unpack \/ Unpacked \/ UnpackNothing)
         /\ pc' \in {"done", "done torn", "crashed", "undefined"} => Area' /\ Outputs'
<1> SUFFICES ASSUME CInv, Unpack \/ Unpacked \/ UnpackNothing,
                    pc' \in {"done", "done torn", "crashed", "undefined"}
             PROVE  Area' /\ Outputs'
  OBVIOUS
<1>1. /\ pc \in {"unpack", "unpack torn"} /\ out' = out
      /\ UNCHANGED <<files, hdr_size, area>>
  BY DEF Unpack, Unpacked, UnpackNothing, Goto
<1>2. OfOneFile(out)' /\ n_files' = n_files
  BY <1>1, SameOut, SamePlaces DEF CInv, Outputs
<1>3. pc' = "done" => DOMAIN area = 0 .. COS_FILE_SIZE - 1 /\ OutIs(out, n_files)
  <2> SUFFICES ASSUME pc' = "done"
               PROVE  DOMAIN area = 0 .. COS_FILE_SIZE - 1 /\ OutIs(out, n_files)
    OBVIOUS
  <2>1. pc = "unpack" /\ area # <<>> /\ i > Count
    BY <1>1 DEF Unpack, Unpacked, UnpackNothing, Goto
  <2>2. i > n_files
    BY <2>1, CountIs DEF CInv
  <2>3. i - 1 = n_files
    BY <2>2, Bounds DEF CInv
  <2>4. OutIs(out, n_files)
    BY <2>1, <2>3 DEF CInv, Outputs
  <2>5. DOMAIN area = 0 .. COS_FILE_SIZE - 1
    BY <2>1 DEF CInv, Area, Finished
  <2> QED BY <2>4, <2>5
<1>4. pc' = "undefined" => Size(area) < COS_FILE_SIZE
  <2> SUFFICES ASSUME pc' = "undefined"
               PROVE  Size(area) < COS_FILE_SIZE
    OBVIOUS
  <2>1. CASE area = <<>>
    <3>1. Size(area) = 0
      BY ONLY <2>1 DEF Size
    <3> QED BY <3>1, DirectoriesAssumption
  <2>2. CASE area # <<>>
    <3>1. Unpack /\ i <= Count /\ ~Mapped(i)
      BY <2>2 DEF Unpack, Unpacked, UnpackNothing, Goto
    <3>2. i <= n_files /\ pc \in Late
      BY <1>1, <2>2, <3>1, CountIs DEF CInv, Late
    <3>3. PICK k \in 1 .. n_files : k = i
      BY <3>2, Bounds DEF CInv
    <3>4. ~(HasToc(area) /\ DOMAIN area = 0 .. COS_FILE_SIZE - 1)
      BY <3>1, <3>2, <3>3, WholeIsMapped DEF CInv
    <3>5. pc = "unpack torn"
      BY <1>1, <3>4 DEF CInv, Area, Finished
    <3>6. PICK m \in 0 .. COS_FILE_SIZE : Torn(area, m)
      BY <3>5 DEF CInv, Area
    <3>7. m # COS_FILE_SIZE
      BY <3>4, <3>6 DEF Torn
    <3>8. m \in Nat /\ m < COS_FILE_SIZE
      BY <3>7, DirectoriesAssumption
    <3>9. Size(area) = m
      BY <3>6, <3>8, SizeIsLength DEF Torn
    <3> QED BY <3>8, <3>9
  <2> QED BY <2>1, <2>2
<1>5. Area'
  BY <1>1, <1>3, <1>4 DEF Area
<1>6. pc' = "done" => OutIs(out, n_files)'
  <2>1. PICK n : n = n_files /\ n = n_files'
    BY <1>2
  <2>2. OutIs(out, n) => OutIs(out, n)'
    BY <1>1, SameOut
  <2> QED BY <1>3, <2>1, <2>2
<1>7. Outputs'
  BY <1>2, <1>6 DEF Outputs
<1> QED BY <1>5, <1>7

LEMMA UnpackSteps ==
    CInv /\ (Unpack \/ Unpacked \/ UnpackNothing) => Area' /\ Outputs'
<1> SUFFICES ASSUME CInv, Unpack \/ Unpacked \/ UnpackNothing PROVE Area' /\ Outputs'
  OBVIOUS
<1>1. \/ pc' \in {"done", "done torn", "crashed", "undefined"}
      \/ Unpack /\ pc' \notin {"crashed", "undefined"}
  BY DEF Unpack, Unpacked, UnpackNothing, Goto
<1> QED BY <1>1, UnpackMore, UnpackEnds

LEMMA InitCInv == Init => CInv
<1> SUFFICES ASSUME Init PROVE CInv
  OBVIOUS
<1>1. pc = "readdir" /\ out = <<>>
  BY DEF Init
<1>2. Area
  BY <1>1 DEF Area
<1>3. Outputs
  BY <1>1, NothingOut DEF Outputs
<1> QED BY <1>2, <1>3, InitIInv DEF CInv

LEMMA StepCInv == CInv /\ [Next]_vars => CInv'
<1> SUFFICES ASSUME CInv, [Next]_vars PROVE CInv'
  OBVIOUS
<1>1. IInv'
  BY StepIInv DEF CInv
<1>2. Area' /\ Outputs'
  <2>1. CASE UNCHANGED vars
    <3>1. /\ UNCHANGED <<files, hdr_size>> /\ area' = area /\ out' = out /\ pc' = pc /\ i' = i
      BY <2>1 DEF vars
    <3>2. Area'
      BY <3>1, SamePackage DEF CInv, Area
    <3>3. Outputs'
      BY <3>1, SamePlaces DEF CInv, Outputs, OutIs, OfOneFile
    <3> QED BY <3>2, <3>3
  <2>2. CASE (\E e \in todo : ReadDir(e)) \/ ReadDirDone \/ BuildHdr \/ BuildHdrEmpty
    BY <2>2, TableSteps
  <2>3. CASE WriteHdr
    BY <2>3, HdrStep
  <2>4. CASE WriteFile
    BY <2>4, FileStep
  <2>5. CASE WriteEnd
    BY <2>5, EndStep
  <2>6. CASE Stop
    BY <2>6, StopSteps
  <2>7. CASE Unpack \/ Unpacked \/ UnpackNothing
    BY <2>7, UnpackSteps
  <2> QED BY <2>1, <2>2, <2>3, <2>4, <2>5, <2>6, <2>7 DEF Next
<1> QED BY <1>1, <1>2 DEF CInv


\* At the end of a whole package every file has come out as it went in.
LEMMA Whole == CInv => RoundTrip
<1> SUFFICES ASSUME CInv, pc = "done" PROVE RoundTrip
  BY DEF RoundTrip
<1>1. DOMAIN area = 0 .. COS_FILE_SIZE - 1 /\ OutIs(out, n_files)
  BY DEF CInv, Area, Outputs
<1>2. Size(area) = COS_FILE_SIZE
  BY <1>1, DirectoriesAssumption, SizeIsLength
<1>3. DOMAIN out = {files[a].name : a \in 1 .. n_files}
  BY <1>1 DEF OutIs
<1>4. ASSUME NEW s \in DOMAIN out
      PROVE  /\ Len(out[s]) = files[LastOf(s)].size
             /\ \A u \in 1 .. files[LastOf(s)].size :
                   out[s][u] = IF hdr_size + files[LastOf(s)].offset + u = COS_FILE_SIZE
                               THEN Cut(Cell(files[LastOf(s)].from, u))
                               ELSE Cell(files[LastOf(s)].from, u)
  <2>1. PICK k : k = LastOf(s)
    OBVIOUS
  <2>2. \E a \in 1 .. n_files :
           files[a].name = s /\ \A b \in a + 1 .. n_files : files[b].name # s
    BY <1>1 DEF OutIs
  <2>3. k \in 1 .. n_files /\ files[k].name = s
        /\ \A b \in k + 1 .. n_files : files[b].name # s
    BY <2>1, <2>2 DEF LastOf
  <2>4. out[s] = [x \in 1 .. files[k].size |-> Image(k, x)]
    BY <1>1, <2>3 DEF OutIs
  <2>5. files[k].size \in Nat
    BY <2>3, Bounds DEF CInv
  <2>6. Len(out[s]) = files[k].size
    BY <2>4, <2>5
  <2>7. \A u \in 1 .. files[k].size :
           out[s][u] = IF hdr_size + files[k].offset + u = COS_FILE_SIZE
                       THEN Cut(Cell(files[k].from, u)) ELSE Cell(files[k].from, u)
    BY <2>4 DEF Image, At
  <2> QED BY <2>1, <2>6, <2>7
<1> QED BY <1>2, <1>3, <1>4 DEF RoundTrip

\* Whatever is left of a package, what comes out of it is of one file each.
LEMMA Part == CInv => TornPackage
<1> SUFFICES ASSUME CInv PROVE TornPackage
  OBVIOUS
<1> QED BY DEF CInv, Area, Outputs, OfOneFile, TornPackage

\* A directory that fits goes through cospkg and an unpacker unchanged: of files
\* whose truncated names are the same the last one, and of the byte at the end of
\* the area a zero.  A package that was cut off gives parts of files, never a
\* mixture, and only such a package can lead an unpacker out of the mapping.
THEOREM UnpacksRight == Spec => []Unpacks
<1>1. Spec => []CInv
  BY InitCInv, StepCInv, PTL DEF Spec
<1>2. CInv => Unpacks
  BY Whole, Part DEF Unpacks
<1> QED BY <1>1, <1>2, PTL

-----------------------------------------------------------------------------
(* Update packages.  What puppack has laid out it writes, and what is stored   *)
(* is read again unchanged but for the damage: every cell keeps its shape, and  *)
(* under an intact digest every cell of the tables its contents.  F stands for  *)
(* the table of files, H for the header, p for the package.                    *)

PupFile == [id : Nat, name : STRING, len : Nat, offset : Nat]

\* Cells of the head and the tables, the digest over them included.
HeadLen(F) == 2 + 2 * Len(F)

\* Where file k ends; the tables end where file 0 would.
EndOf(F, k) == IF k = 0 THEN HeadLen(F) ELSE F[k].offset + F[k].len

\* The files found are those of the first k names that are in the directory d.
Found(F, d, k) ==
    /\ \A a \in 1 .. Len(F) : \E m \in 1 .. k :
          /\ m \in DOMAIN PupNames /\ PupNames[m] \in DOMAIN d
          /\ F[a].id = Update!Id(m) /\ F[a].name = PupNames[m] /\ F[a].len = d[PupNames[m]]
    /\ \A a, b \in 1 .. Len(F) : a < b => F[a].id < F[b].id
    /\ \A m \in 1 .. k : PupNames[m] \in DOMAIN d =>
          \E a \in 1 .. Len(F) : F[a].id = Update!Id(m)

\* They follow one another behind the tables, without a gap.
Follow(F) ==
    /\ \A a \in 1 .. Len(F) : F[a].offset = EndOf(F, a - 1) /\ HeadLen(F) <= F[a].offset
    /\ \A a, b \in 1 .. Len(F) : a < b => EndOf(F, a) <= F[b].offset
    /\ \A u \in HeadLen(F) .. EndOf(F, Len(F)) - 1 : \E a \in 1 .. Len(F) :
          u \in F[a].offset .. EndOf(F, a) - 1

Laid(F, d) == Found(F, d, Len(PupNames)) /\ Follow(F)

\* Cell u as puppack writes it.
Original(F, H, u, c) ==
    /\ u < HeadLen(F) => c = H[u + 1]
    /\ \A a \in 1 .. Len(F) : \A x \in 1 .. F[a].len :
          u = F[a].offset + x - 1 => c = Update!Data(F[a].name, x)

\* What no damage changes about it.
Shape(F, H, u, c) ==
    /\ u = 0 => c[1] = -1 /\ c[2] \in Nat
    /\ u \in 1 .. Len(F) => Len(c) = 3 /\ c[1] \in Nat /\ c[2] \in Nat /\ c[3] \in Nat
    /\ u \in Len(F) + 1 .. 2 * Len(F) => Len(c) = 2 /\ c[1] \in Nat
    /\ u = 2 * Len(F) + 1 =>
          c = Update!Sum(c[2]) /\ (c[2] = H[HeadLen(F)][2] \/ c[2][1] = "garbled")
    /\ u >= HeadLen(F) => c[1] = -3

\* A file of e cells.
Mapping(p, e) == p = [u \in 0 .. e - 1 |-> p[u]]

\* The package w as written, and p as stored.
Stored(F, H, p, w, undamaged) ==
    /\ \E e \in 0 .. EndOf(F, Len(F)) :
          Mapping(p, e) /\ (w # <<>> => e = EndOf(F, Len(F)) /\ Mapping(w, e))
    /\ \A u \in DOMAIN p : Shape(F, H, u, p[u])
    /\ undamaged => \A u \in DOMAIN p : Original(F, H, u, p[u])
    /\ \A u \in DOMAIN w : Original(F, H, u, w[u])

\* The tables that pupunpack reads are those of puppack.
Intact(F, H, p) == \A u \in 0 .. 2 * Len(F) : u \in DOMAIN p /\ p[u] = H[u + 1]

\* What check_hmac says of a digest that puppack made.
Verdict(k, same) ==
    IF k.unpack = PupNoKey THEN "???" ELSE IF k.unpack = k.pack /\ same THEN "OK" ELSE "FAIL"

\* The files o of an intact table, and what is said of them.
Extracted(F, k, p, res, o) ==
    /\ Len(res) <= Len(F)
    /\ o = [f \in {F[m].name : m \in 1 .. Len(res)} |-> o[f]]
    /\ \A m \in 1 .. Len(res) :
          /\ o[F[m].name] = Update!Read(p, F[m].offset, F[m].len)
          /\ res[m] = Verdict(k, o[F[m].name] = Update!File(F[m].name, F[m].len))

Typed ==
    /\ u_input \in PupInputs
    /\ u_keys \in [pack : PupKeys \cup {PupNoKey}, unpack : PupKeys \cup {PupNoKey}]
    /\ u_t \in Nat \ {0} /\ u_damage \in Nat
    /\ u_files \in Seq(PupFile) /\ Len(u_files) <= PupMaxFiles

\* Nothing has been read, nothing written.
Unread  == u_hdr_hmac = "none" /\ u_hmac_res = <<>> /\ u_out = <<>>
Nothing == u_pup = <<>> /\ u_made = <<>> /\ u_damage = 0 /\ Unread

Packing ==
    /\ u_pc \in {"start", "find", "header", "failed", "overrun"} /\ Nothing
    /\ u_pc = "start" => u_files = <<>>
    /\ u_pc = "find" => u_t <= Len(PupNames) + 1 /\ Found(u_files, u_input, u_t - 1)
    /\ u_pc = "header" => Laid(u_files, u_input)

Writing ==
    /\ u_pc = "write" /\ Laid(u_files, u_input)
    /\ u_t <= Len(u_files) + 1 /\ Mapping(u_pup, EndOf(u_files, u_t - 1))
    /\ \A u \in DOMAIN u_pup : Original(u_files, Update!Header, u, u_pup[u])
    /\ u_made = <<>> /\ u_damage = 0 /\ Unread

Keeping ==
    /\ u_pc \in {"stored", "verify"} /\ Laid(u_files, u_input)
    /\ Stored(u_files, Update!Header, u_pup, u_made, u_damage = 0)
    /\ Unread
    /\ u_pc = "verify" => 0 \in DOMAIN u_pup

Judged ==
    /\ u_hdr_hmac \in Update!Verdicts \cup {"none"} /\ u_hmac_res \in Seq(Update!Verdicts)
    /\ u_hdr_hmac = "OK" =>
          /\ Intact(u_files, Update!Header, u_pup)
          /\ 2 * Len(u_files) + 1 \in DOMAIN u_pup
          /\ u_pup[2 * Len(u_files) + 1] = Update!Header[HeadLen(u_files)]
          /\ Verdict(u_keys, TRUE) = "OK"
    /\ Intact(u_files, Update!Header, u_pup)
          => Extracted(u_files, u_keys, u_pup, u_hmac_res, u_out)
    /\ u_made # <<>> /\ u_damage = 0 =>
          u_hdr_hmac \in {"none", Verdict(u_keys, TRUE)} /\ u_pc # "undefined"
    /\ u_pc \in {"sections", "done"} => 0 \in DOMAIN u_pup
    /\ u_pc = "sections" => u_t = Len(u_hmac_res) + 1 /\ Len(u_hmac_res) <= u_pup[0][2]
    /\ u_pc = "done" => Len(u_hmac_res) = u_pup[0][2]

Unpacking ==
    /\ u_pc \in {"sections", "done", "failed", "crashed", "undefined"}
    /\ Laid(u_files, u_input)
    /\ Stored(u_files, Update!Header, u_pup, u_made, u_damage = 0)
    /\ Judged

PupInv == Typed /\ (Packing \/ Writing \/ Keeping \/ Unpacking)
LEMMA LeastNat ==
    ASSUME NEW S \in SUBSET Nat, S # {}
    PROVE  \E k \in S : \A l \in S : k <= l
<1> DEFINE R == StrictSubsetOrdering(Nat)
           F == FiniteSubsetsOf(Nat)
           T == {0 .. s : s \in S}
<1>1. IsWellFoundedOn(R, F)
  BY FS_StrictSubsetOrderingWellFounded
<1>2. T \subseteq F /\ T # {}
  <2>1. \A s \in S : 0 .. s \in SUBSET Nat /\ IsFiniteSet(0 .. s)
    BY FS_Interval
  <2> QED BY <2>1 DEF FiniteSubsetsOf
<1>3. PICK x \in T : \A y \in T : ~ (<<y, x>> \in R)
  <2> HIDE DEF R, F, T
  <2> QED BY <1>1, <1>2, WFMin
<1>4. PICK k \in S : x = 0 .. k
  OBVIOUS
<1>5. ASSUME NEW l \in S, l < k
      PROVE  FALSE
  <2>1. 0 .. l \in T /\ 0 .. l \subseteq x /\ k \in x /\ k \notin 0 .. l
    BY <1>4, <1>5
  <2>2. 0 .. l \in SUBSET Nat /\ x \in SUBSET Nat
    BY <1>4
  <2>3. <<0 .. l, x>> \in R
    BY <2>1, <2>2 DEF StrictSubsetOrdering
  <2> QED BY <1>3, <2>1, <2>3
<1> QED BY <1>5

-----------------------------------------------------------------------------
(* Where the files go. *)

\* A round of the loop that numbers them, over a table of files F.
NextOffset(F, at, m) == IF m = 1 THEN HeadLen(F) ELSE at[m - 1] + F[m - 1].len

LEMMA OffsetsExist ==
    ASSUME NEW F \in Seq(PupFile), NEW n \in Nat
    PROVE  \E at : at = [m \in 1 .. n |-> NextOffset(F, at, m)]
<1> DEFINE Has(m) == \E at : at = [b \in 1 .. m |-> NextOffset(F, at, b)]
           S == {m \in Nat : ~Has(m)}
<1>1. Has(0)
  <2> DEFINE c == [b \in 1 .. 0 |-> 0]
  <2>1. c = [b \in 1 .. 0 |-> NextOffset(F, c, b)] OBVIOUS
  <2> QED BY <2>1
<1>2. ASSUME NEW m \in Nat, Has(m) PROVE Has(m + 1)
  <2>1. PICK c : c = [b \in 1 .. m |-> NextOffset(F, c, b)] BY <1>2
  <2> DEFINE last == NextOffset(F, c, m + 1)
             d == [b \in 1 .. m + 1 |-> IF b = m + 1 THEN last ELSE c[b]]
  <2>2. \A b \in 1 .. m + 1 : d[b] = NextOffset(F, d, b)
    <3> SUFFICES ASSUME NEW b \in 1 .. m + 1 PROVE d[b] = NextOffset(F, d, b) OBVIOUS
    <3>1. CASE b = m + 1
      <4>1. d[b] = last BY <3>1
      <4>2. b # 1 => d[b - 1] = c[m] BY <3>1
      <4> QED BY <4>1, <4>2, <3>1 DEF NextOffset
    <3>2. CASE b \in 1 .. m
      <4>1. d[b] = c[b] BY <3>2
      <4>2. b # 1 => d[b - 1] = c[b - 1] BY <3>2
      <4>3. c[b] = NextOffset(F, c, b) BY <2>1, <3>2
      <4> QED BY <4>1, <4>2, <4>3 DEF NextOffset
    <3> QED BY <3>1, <3>2
  <2>3. d = [b \in 1 .. m + 1 |-> NextOffset(F, d, b)]
    <3>1. DOMAIN d = 1 .. m + 1 /\ d = [b \in 1 .. m + 1 |-> d[b]] OBVIOUS
    <3> HIDE DEF d
    <3> QED BY <2>2, <3>1
  <2> QED BY <2>3
<1> HIDE DEF Has
<1>3. ASSUME S # {} PROVE FALSE
  <2>1. S \in SUBSET Nat OBVIOUS
  <2>2. PICK m \in S : \A l \in S : m <= l BY <1>3, <2>1, LeastNat
  <2>3. m # 0 /\ m \in Nat BY <2>2, <1>1
  <2>4. m - 1 \in Nat /\ m - 1 \notin S BY <2>2, <2>3
  <2>5. Has(m - 1) BY <2>4
  <2>6. Has((m - 1) + 1) BY <2>4, <2>5, <1>2
  <2> QED BY <2>2, <2>3, <2>6
<1>4. Has(n) BY <1>3
<1> QED BY <1>4 DEF Has

\* Where the file before k ends.
Before(F, at, k) == IF k = 0 THEN HeadLen(F) ELSE at[k] + F[k].len

\* The first n files lie behind the tables and one another, without a gap.
Row(F, at, n) ==
    /\ \A a \in 1 .. n : at[a] \in Nat /\ HeadLen(F) <= at[a] /\ at[a] = Before(F, at, a - 1)
    /\ \A a, b \in 1 .. n : a < b => Before(F, at, a) <= at[b]
    /\ \A u \in HeadLen(F) .. Before(F, at, n) - 1 : \E a \in 1 .. n :
          u \in at[a] .. Before(F, at, a) - 1

LEMMA RowIs ==
    ASSUME NEW F \in Seq(PupFile), NEW at,
           at = [m \in 1 .. Len(F) |-> NextOffset(F, at, m)]
    PROVE  Row(F, at, Len(F))
<1> DEFINE S == {m \in Nat : m <= Len(F) /\ ~Row(F, at, m)}
<1>1. PICK base \in Nat : base = HeadLen(F)
  <2>1. Len(F) \in Nat OBVIOUS
  <2> QED BY <2>1 DEF HeadLen
<1>2. Row(F, at, 0)
  BY <1>1 DEF Row, Before
<1>3. ASSUME NEW m \in Nat, m + 1 <= Len(F), Row(F, at, m) PROVE Row(F, at, m + 1)
  <2>1. at[m + 1] = NextOffset(F, at, m + 1)
    <3>1. m + 1 \in 1 .. Len(F) BY <1>3
    <3> QED BY <3>1
  <2>2. \A a \in 1 .. m + 1 : F[a].len \in Nat
    <3> SUFFICES ASSUME NEW a \in 1 .. m + 1 PROVE F[a].len \in Nat OBVIOUS
    <3>1. a \in 1 .. Len(F) BY <1>3
    <3>2. F[a] \in PupFile BY <3>1, ElementOfSeq
    <3> QED BY <3>2 DEF PupFile
  <2>3. PICK z \in Nat : z = Before(F, at, m)
    <3>1. CASE m = 0 BY <3>1, <1>1 DEF Before
    <3>2. CASE m # 0
      <4>1. m \in 1 .. m /\ m \in 1 .. m + 1 BY <3>2
      <4>2. at[m] \in Nat /\ F[m].len \in Nat BY <4>1, <2>2, <1>3 DEF Row
      <4>3. at[m] + F[m].len \in Nat BY <4>2
      <4> QED BY <4>3, <3>2 DEF Before
    <3> QED BY <3>1, <3>2
  <2>4. at[m + 1] = z
    <3>1. (m = 0 <=> m + 1 = 1) /\ (m + 1) - 1 = m BY <1>3
    <3>2. at[m + 1] = IF m = 0 THEN HeadLen(F) ELSE at[m] + F[m].len
      BY <2>1, <3>1 DEF NextOffset
    <3> QED BY <2>3, <3>2 DEF Before
  <2>5. base <= z /\ \A a \in 1 .. m : Before(F, at, a) <= z
    <3>1. CASE m = 0 BY <3>1, <2>3, <1>1 DEF Before
    <3>2. CASE m # 0
      <4>1. m \in 1 .. m /\ m \in 1 .. m + 1 BY <3>2
      <4>2. at[m] \in Nat /\ F[m].len \in Nat /\ base <= at[m] BY <4>1, <2>2, <1>3, <1>1 DEF Row
      <4>3. z = at[m] + F[m].len BY <2>3, <3>2 DEF Before
      <4>4. ASSUME NEW a \in 1 .. m PROVE Before(F, at, a) <= z
        <5>1. CASE a = m BY <5>1, <2>3
        <5>2. CASE a # m
          <6>1. a < m BY <5>2
          <6>2. Before(F, at, a) <= at[m] BY <6>1, <4>1, <1>3 DEF Row
          <6>3. Before(F, at, a) \in Nat
            <7>1. a \in 1 .. m + 1 /\ a # 0 OBVIOUS
            <7>2. F[a].len \in Nat BY <7>1, <2>2
            <7>3. at[a] \in Nat BY <1>3 DEF Row
            <7>4. at[a] + F[a].len \in Nat BY <7>2, <7>3
            <7> QED BY <7>1, <7>4 DEF Before
          <6> QED BY <6>2, <6>3, <4>2, <4>3
        <5> QED BY <5>1, <5>2
      <4> QED BY <4>2, <4>3, <4>4
    <3> QED BY <3>1, <3>2
  <2>6. ASSUME NEW a \in 1 .. m + 1
        PROVE  at[a] \in Nat /\ base <= at[a] /\ at[a] = Before(F, at, a - 1)
    <3>1. CASE a = m + 1
      <4>1. a - 1 = m BY <3>1
      <4> QED BY <3>1, <4>1, <2>3, <2>4, <2>5
    <3>2. CASE a \in 1 .. m BY <3>2, <1>3, <1>1 DEF Row
    <3> QED BY <3>1, <3>2
  <2>7. ASSUME NEW a \in 1 .. m + 1, NEW b \in 1 .. m + 1, a < b
        PROVE  Before(F, at, a) <= at[b]
    <3>1. a \in 1 .. m BY <2>7
    <3>2. CASE b = m + 1 BY <3>1, <3>2, <2>4, <2>5
    <3>3. CASE b \in 1 .. m BY <3>1, <3>3, <2>7, <1>3 DEF Row
    <3> QED BY <3>2, <3>3
  <2>8. ASSUME NEW u \in base .. Before(F, at, m + 1) - 1
        PROVE  \E a \in 1 .. m + 1 : u \in at[a] .. Before(F, at, a) - 1
    <3>0. PICK y \in Nat : y = Before(F, at, m + 1)
      <4>1. m + 1 \in 1 .. m + 1 OBVIOUS
      <4>2. F[m + 1].len \in Nat BY <4>1, <2>2
      <4>3. m + 1 # 0 /\ at[m + 1] + F[m + 1].len \in Nat BY <4>2, <2>4
      <4> QED BY <4>3 DEF Before
    <3>1. u \in Nat /\ u < y BY <3>0
    <3>2. CASE u < z
      <4>1. u \in base .. Before(F, at, m) - 1 BY <3>2, <3>1, <2>3
      <4>2. PICK a \in 1 .. m : u \in at[a] .. Before(F, at, a) - 1
        BY <4>1, <1>3, <1>1 DEF Row
      <4>3. a \in 1 .. m + 1 OBVIOUS
      <4> QED BY <4>2, <4>3, Zenon
    <3>3. CASE ~(u < z)
      <4>1. u \in at[m + 1] .. Before(F, at, m + 1) - 1 BY <3>3, <3>1, <3>0, <2>4
      <4>2. m + 1 \in 1 .. m + 1 OBVIOUS
      <4> QED BY <4>1, <4>2
    <3> QED BY <3>2, <3>3
  <2> QED BY <2>6, <2>7, <2>8, <1>1 DEF Row
<1>4. ASSUME S # {} PROVE FALSE
  <2>1. S \in SUBSET Nat OBVIOUS
  <2>2. PICK m \in S : \A l \in S : m <= l BY <1>4, <2>1, LeastNat
  <2>3. m # 0 /\ m \in Nat /\ m <= Len(F) BY <2>2, <1>2
  <2>4. m - 1 \in Nat /\ m - 1 \notin S BY <2>2, <2>3
  <2>5. Row(F, at, m - 1) /\ (m - 1) + 1 <= Len(F) /\ (m - 1) + 1 = m BY <2>3, <2>4
  <2>6. Row(F, at, m) BY <2>4, <2>5, <1>3
  <2> QED BY <2>2, <2>6
<1>5. Len(F) \in Nat /\ Len(F) <= Len(F) OBVIOUS
<1>6. Len(F) \notin S BY <1>4
<1> QED BY <1>5, <1>6

-----------------------------------------------------------------------------
(* The header. *)

\* Header is the header H of the files F under key k.
HeaderOf(F, k, H) ==
    /\ Len(H) = HeadLen(F)
    /\ H[1] = Update!Magic(Len(F))
    /\ \A m \in 1 .. Len(F) :
          /\ H[1 + m] = Update!Section(F[m])
          /\ H[1 + Len(F) + m] =
                Update!HashOf(m - 1, Update!sha1_hmac(k, Update!File(F[m].name, F[m].len)))
    /\ \E T : /\ T = [u \in 1 .. 1 + 2 * Len(F) |-> H[u]]
              /\ H[HeadLen(F)] = Update!Sum(Update!sha1_hmac(k, T))

LEMMA HeaderIs ==
    ASSUME u_files \in Seq(PupFile)
    PROVE  HeaderOf(u_files, u_keys.pack, Update!Header)
<1> DEFINE Hashed(m) == Update!HashOf(m - 1, Update!sha1_hmac(u_keys.pack,
                            Update!File(u_files[m].name, u_files[m].len)))
<1>1. PICK n \in Nat : n = Len(u_files)
  OBVIOUS
<1> DEFINE sec  == [m \in 1 .. n |-> Update!Section(u_files[m])]
           hash == [m \in 1 .. n |-> Hashed(m)]
           S    == {Update!Magic(n)} \cup {sec[m] : m \in 1 .. n} \cup {hash[m] : m \in 1 .. n}
           head == <<Update!Magic(n)>>
           tab  == head \o sec \o hash
           T    == SubSeq(tab, 1, 1 + 2 * n)
           sum  == Update!Sum(Update!sha1_hmac(u_keys.pack, T))
<1>2. sec \in Seq(S) /\ hash \in Seq(S) /\ head \in Seq(S)
      /\ Len(sec) = n /\ Len(hash) = n /\ Len(head) = 1
  <2>1. \A m \in 1 .. n : sec[m] \in S /\ hash[m] \in S OBVIOUS
  <2>2. Update!Magic(n) \in S OBVIOUS
  <2>3. DOMAIN sec = 1 .. n /\ DOMAIN hash = 1 .. n OBVIOUS
  <2>4. sec = [m \in 1 .. n |-> sec[m]] /\ hash = [m \in 1 .. n |-> hash[m]] OBVIOUS
  <2> HIDE DEF sec, hash, S
  <2>5. sec \in Seq(S) /\ Len(sec) = n BY <2>1, <2>3, <2>4
  <2>6. hash \in Seq(S) /\ Len(hash) = n BY <2>1, <2>3, <2>4
  <2> QED BY <2>2, <2>5, <2>6
<1>3. Update!Header = tab \o <<sum>>
  BY <1>1 DEF Update!Header, Update!n_files, Update!Covered
<1>4. \A m \in 1 .. n :
        /\ sec[m] = Update!Section(u_files[m]) /\ hash[m] = Hashed(m) /\ head[1] = Update!Magic(n)
  OBVIOUS
<1> HIDE DEF sec, hash, S, head, Hashed
<1>5. /\ tab \in Seq(S) /\ Len(tab) = 1 + 2 * n
      /\ tab[1] = head[1]
      /\ \A m \in 1 .. n : tab[1 + m] = sec[m] /\ tab[1 + n + m] = hash[m]
  <2> DEFINE hs == head \o sec
  <2>1. /\ hs \in Seq(S) /\ Len(hs) = 1 + n
        /\ \A k \in 1 .. 1 + n : hs[k] = IF k <= 1 THEN head[k] ELSE sec[k - 1]
    <3>1. /\ hs \in Seq(S) /\ Len(hs) = Len(head) + Len(sec)
          /\ \A k \in 1 .. Len(head) + Len(sec) :
                hs[k] = IF k <= Len(head) THEN head[k] ELSE sec[k - Len(head)]
      BY <1>2, ConcatProperties
    <3> QED BY <1>2, <3>1
  <2> HIDE DEF hs
  <2>2. /\ hs \o hash \in Seq(S) /\ Len(hs \o hash) = 1 + n + n
        /\ \A k \in 1 .. 1 + n + n : (hs \o hash)[k] = IF k <= 1 + n THEN hs[k] ELSE hash[k - (1 + n)]
    <3>1. /\ hs \o hash \in Seq(S) /\ Len(hs \o hash) = Len(hs) + Len(hash)
          /\ \A k \in 1 .. Len(hs) + Len(hash) :
                (hs \o hash)[k] = IF k <= Len(hs) THEN hs[k] ELSE hash[k - Len(hs)]
      BY <1>2, <2>1, ConcatProperties
    <3> QED BY <1>2, <2>1, <3>1
  <2>3. tab = hs \o hash BY DEF hs
  <2> HIDE DEF tab
  <2>4. tab[1] = head[1] BY <2>1, <2>2, <2>3
  <2>5. ASSUME NEW m \in 1 .. n PROVE tab[1 + m] = sec[m] /\ tab[1 + n + m] = hash[m]
    <3>1. hs[1 + m] = sec[m]
      <4>1. 1 + m \in 1 .. 1 + n /\ ~(1 + m <= 1) /\ (1 + m) - 1 = m OBVIOUS
      <4> QED BY <4>1, <2>1
    <3>2. tab[1 + m] = hs[1 + m]
      <4>1. 1 + m \in 1 .. 1 + n + n /\ 1 + m <= 1 + n OBVIOUS
      <4> QED BY <4>1, <2>2, <2>3
    <3>3. tab[1 + n + m] = hash[m]
      <4>1. 1 + n + m \in 1 .. 1 + n + n /\ ~(1 + n + m <= 1 + n) /\ (1 + n + m) - (1 + n) = m OBVIOUS
      <4> QED BY <4>1, <2>2, <2>3
    <3> QED BY <3>1, <3>2, <3>3
  <2> QED BY <2>2, <2>3, <2>4, <2>5
<1> HIDE DEF tab
<1>6. T = [u \in 1 .. 1 + 2 * n |-> tab[u]]
  <2>1. \A u \in 1 .. 1 + 2 * n : tab[u] \in S BY <1>5, ElementOfSeq
  <2>2. PICK c \in Nat : c = 1 + 2 * n OBVIOUS
  <2>3. /\ T \in Seq(S) /\ Len(T) = c
        /\ \A u \in 1 .. c : T[u] = tab[u]
    <3>1. /\ SubSeq(tab, 1, c) \in Seq(S)
          /\ Len(SubSeq(tab, 1, c)) = IF 1 <= c THEN c - 1 + 1 ELSE 0
          /\ \A u \in 1 .. c - 1 + 1 : SubSeq(tab, 1, c)[u] = tab[1 + u - 1]
      <4>1. \A u \in 1 .. c : tab[u] \in S BY <2>1, <2>2
      <4>2. c \in Int /\ 1 \in Int OBVIOUS
      <4> QED BY <4>1, <4>2, SubSeqProperties
    <3>2. c - 1 + 1 = c /\ 1 <= c BY <2>2
    <3>3. \A u \in 1 .. c : 1 + u - 1 = u OBVIOUS
    <3> QED BY <3>1, <3>2, <3>3, <2>2
  <2> HIDE DEF T
  <2>4. T = [u \in 1 .. c |-> T[u]]
    <3>1. T \in [1 .. Len(T) -> S] BY <2>3, LenProperties
    <3> QED BY <3>1, <2>3
  <2> QED BY <2>2, <2>3, <2>4
<1> HIDE DEF T
<1>7. /\ Len(Update!Header) = 2 + 2 * n /\ Update!Header[2 + 2 * n] = sum
      /\ \A u \in 1 .. 1 + 2 * n : Update!Header[u] = tab[u]
  <2> DEFINE R == S \cup {sum}
  <2>1. tab \in Seq(R) /\ <<sum>> \in Seq(R) /\ Len(<<sum>>) = 1
    <3>1. tab \in [1 .. Len(tab) -> S] BY <1>5, LenProperties
    <3>2. S \subseteq R /\ sum \in R OBVIOUS
    <3> HIDE DEF R, sum
    <3>3. tab \in [1 .. 1 + 2 * n -> R] /\ 1 + 2 * n \in Nat BY <3>1, <3>2, <1>5
    <3> QED BY <3>2, <3>3
  <2>2. <<sum>>[1] = sum OBVIOUS
  <2> HIDE DEF R, sum
  <2>3. /\ Len(tab \o <<sum>>) = 1 + 2 * n + 1
        /\ \A u \in 1 .. 1 + 2 * n + 1 : (tab \o <<sum>>)[u]
                = IF u <= 1 + 2 * n THEN tab[u] ELSE <<sum>>[u - (1 + 2 * n)]
    <3>1. /\ Len(tab \o <<sum>>) = Len(tab) + Len(<<sum>>)
          /\ \A u \in 1 .. Len(tab) + Len(<<sum>>) : (tab \o <<sum>>)[u]
                = IF u <= Len(tab) THEN tab[u] ELSE <<sum>>[u - Len(tab)]
      BY <2>1, ConcatProperties
    <3> QED BY <2>1, <1>5, <3>1
  <2>4. 2 + 2 * n \in 1 .. 1 + 2 * n + 1 /\ ~(2 + 2 * n <= 1 + 2 * n)
        /\ (2 + 2 * n) - (1 + 2 * n) = 1 /\ 1 + 2 * n + 1 = 2 + 2 * n
    OBVIOUS
  <2>5. \A u \in 1 .. 1 + 2 * n : u \in 1 .. 1 + 2 * n + 1 /\ u <= 1 + 2 * n
    OBVIOUS
  <2> QED BY <2>2, <2>3, <2>4, <2>5, <1>3
<1>8. /\ Update!Header[1] = Update!Magic(n)
      /\ \A m \in 1 .. n : /\ Update!Header[1 + m] = Update!Section(u_files[m])
                           /\ Update!Header[1 + n + m] = Hashed(m)
  <2>1. 1 \in 1 .. 1 + 2 * n OBVIOUS
  <2>2. \A m \in 1 .. n : 1 + m \in 1 .. 1 + 2 * n /\ 1 + n + m \in 1 .. 1 + 2 * n OBVIOUS
  <2>3. head[1] = Update!Magic(n) BY DEF head
  <2> QED BY <2>1, <2>2, <2>3, <1>4, <1>5, <1>7
<1>9. T = [u \in 1 .. 1 + 2 * n |-> Update!Header[u]]
  BY <1>6, <1>7
<1> USE DEF Hashed
<1> QED BY <1>1, <1>7, <1>8, <1>9 DEF HeadLen, HeaderOf

-----------------------------------------------------------------------------
(* puppack. *)

LEMMA FileIs ==
    ASSUME NEW F \in Seq(PupFile)
    PROVE  /\ Len(F) \in Nat /\ HeadLen(F) \in Nat
           /\ \A a \in 1 .. Len(F) : /\ F[a].id \in Nat /\ F[a].name \in STRING
                                     /\ F[a].len \in Nat /\ F[a].offset \in Nat
           /\ \A a \in 0 .. Len(F) : EndOf(F, a) \in Nat
<1>1. Len(F) \in Nat /\ HeadLen(F) \in Nat
  BY DEF HeadLen
<1>2. ASSUME NEW a \in 1 .. Len(F)
      PROVE  F[a].id \in Nat /\ F[a].name \in STRING /\ F[a].len \in Nat /\ F[a].offset \in Nat
  <2>1. F[a] \in PupFile BY ElementOfSeq
  <2> QED BY <2>1 DEF PupFile
<1>3. ASSUME NEW a \in 0 .. Len(F) PROVE EndOf(F, a) \in Nat
  <2>1. CASE a = 0 BY <2>1, <1>1 DEF EndOf
  <2>2. CASE a # 0
    <3>1. a \in 1 .. Len(F) BY <2>2
    <3>2. F[a].offset + F[a].len \in Nat BY <1>2, <3>1
    <3> QED BY <3>2, <2>2 DEF EndOf
  <2> QED BY <2>1, <2>2
<1> QED BY <1>1, <1>2, <1>3

LEMMA NamesLen ==
    /\ PupNames \in Seq(STRING) /\ Len(PupNames) \in Nat
    /\ DOMAIN PupNames = 1 .. Len(PupNames)
BY UpdateAssumption DEF Update!NamesAssumption

LEMMA PupInit == Update!Init => PupInv
<1> SUFFICES ASSUME Update!Init PROVE PupInv OBVIOUS
<1>1. /\ u_input \in PupInputs
      /\ u_keys \in [pack : PupKeys \cup {PupNoKey}, unpack : PupKeys \cup {PupNoKey}]
      /\ u_pc = "start" /\ u_t = 1 /\ u_files = <<>> /\ Nothing
  BY DEF Update!Init, Nothing, Unread
<1>2. Typed
  <2>1. PupMaxFiles \in Nat BY UpdateAssumption DEF Update!NumbersAssumption
  <2>2. u_files \in Seq(PupFile) /\ Len(u_files) = 0 BY <1>1
  <2>3. u_damage \in Nat BY <1>1 DEF Nothing
  <2> QED BY <1>1, <2>1, <2>2, <2>3 DEF Typed
<1> QED BY <1>1, <1>2 DEF PupInv, Packing

\* A run of puppack that ends, or goes on, with nothing written.
LEMMA StillNothing ==
    ASSUME Nothing, UNCHANGED <<u_pup, u_made, u_damage, u_hdr_hmac, u_hmac_res, u_out>>
    PROVE  Nothing'
BY DEF Nothing, Unread

LEMMA FoundNone == \A d : Found(<<>>, d, 0)
<1>1. Len(<<>>) = 0 OBVIOUS
<1> QED BY <1>1 DEF Found

LEMMA StartStep == PupInv /\ Update!Start => PupInv'
<1> SUFFICES ASSUME PupInv, Update!Start PROVE PupInv' OBVIOUS
<1>1. /\ u_pc = "start" /\ u_pc' \in {"failed", "find"} /\ u_t' = 1
      /\ UNCHANGED <<u_input, u_keys, u_files, u_pup, u_made, u_damage,
                     u_hdr_hmac, u_hmac_res, u_out>>
  BY DEF Update!Start, Update!Goto, Update!packer, Update!unpacker
<1>2. Nothing /\ u_files = <<>>
  BY <1>1 DEF PupInv, Packing, Writing, Keeping, Unpacking
<1>3. Typed' BY <1>1 DEF PupInv, Typed
<1>4. Nothing' BY <1>1, <1>2, StillNothing
<1>5. u_t' - 1 = 0 /\ u_t' <= Len(PupNames) + 1 BY <1>1, NamesLen
<1>6. Found(u_files', u_input', u_t' - 1) BY <1>1, <1>2, <1>5, FoundNone
<1> QED BY <1>1, <1>3, <1>4, <1>5, <1>6 DEF PupInv, Packing

\* One name more that is not there.
LEMMA FoundSkip ==
    ASSUME NEW F \in Seq(PupFile), NEW d, NEW t \in Nat \ {0}, Found(F, d, t - 1),
           PupNames[t] \notin DOMAIN d
    PROVE  Found(F, d, t)
<1>1. \A m \in 1 .. t : m \in 1 .. t - 1 \/ m = t OBVIOUS
<1>2. \A m \in 1 .. t - 1 : m \in 1 .. t OBVIOUS
<1> QED BY <1>1, <1>2 DEF Found

\* One file more.
LEMMA FoundMore ==
    ASSUME NEW F \in Seq(PupFile), NEW d \in PupInputs, NEW t \in 1 .. Len(PupNames),
           Found(F, d, t - 1), PupNames[t] \in DOMAIN d
    PROVE  LET f == [id |-> Update!Id(t), name |-> PupNames[t], len |-> d[PupNames[t]], offset |-> 0]
               G == Append(F, f)
           IN  G \in Seq(PupFile) /\ Len(G) = Len(F) + 1 /\ Found(G, d, t)
<1> DEFINE f == [id |-> Update!Id(t), name |-> PupNames[t], len |-> d[PupNames[t]], offset |-> 0]
           G == Append(F, f)
<1>0. PICK n \in Nat : n = Len(F) OBVIOUS
<1>1. f \in PupFile
  <2>1. Update!Id(t) \in Nat BY DEF Update!Id
  <2>2. PupNames[t] \in STRING BY NamesLen
  <2>3. d[PupNames[t]] \in Nat BY UpdateAssumption DEF Update!InputsAssumption
  <2> QED BY <2>1, <2>2, <2>3 DEF PupFile
<1>2. f.id = Update!Id(t) /\ f.name = PupNames[t] /\ f.len = d[PupNames[t]] OBVIOUS
<1> HIDE DEF f
<1>3. /\ G \in Seq(PupFile) /\ Len(G) = n + 1
      /\ \A a \in 1 .. n : G[a] = F[a]
      /\ G[n + 1] = f
  BY <1>0, <1>1, AppendProperties
<1> HIDE DEF G
<1>4. \A a \in 1 .. n + 1 : a \in 1 .. n \/ a = n + 1 OBVIOUS
<1>5. ASSUME NEW a \in 1 .. n + 1
      PROVE \E m \in 1 .. t :
              /\ m \in DOMAIN PupNames /\ PupNames[m] \in DOMAIN d
              /\ G[a].id = Update!Id(m) /\ G[a].name = PupNames[m] /\ G[a].len = d[PupNames[m]]
  <2>1. CASE a = n + 1
    <3>1. t \in 1 .. t /\ t \in DOMAIN PupNames BY NamesLen
    <3> QED BY <3>1, <2>1, <1>2, <1>3
  <2>2. CASE a \in 1 .. n
    <3>1. PICK m \in 1 .. t - 1 :
              /\ m \in DOMAIN PupNames /\ PupNames[m] \in DOMAIN d
              /\ F[a].id = Update!Id(m) /\ F[a].name = PupNames[m] /\ F[a].len = d[PupNames[m]]
      BY <2>2, <1>0 DEF Found
    <3>2. m \in 1 .. t OBVIOUS
    <3> QED BY <3>1, <3>2, <2>2, <1>3
  <2> QED BY <2>1, <2>2, <1>4
<1>6. ASSUME NEW a \in 1 .. n + 1, NEW b \in 1 .. n + 1, a < b PROVE G[a].id < G[b].id
  <2>1. a \in 1 .. n BY <1>6
  <2>2. CASE b = n + 1
    <3>1. PICK m \in 1 .. t - 1 : F[a].id = Update!Id(m) BY <2>1, <1>0 DEF Found
    <3>2. Update!Id(m) < Update!Id(t) BY DEF Update!Id
    <3> QED BY <3>1, <3>2, <2>1, <2>2, <1>2, <1>3
  <2>3. CASE b \in 1 .. n
    <3>1. F[a].id < F[b].id BY <2>1, <2>3, <1>6, <1>0 DEF Found
    <3> QED BY <3>1, <2>1, <2>3, <1>3
  <2> QED BY <2>2, <2>3, <1>4
<1>7. ASSUME NEW m \in 1 .. t, PupNames[m] \in DOMAIN d
      PROVE  \E a \in 1 .. n + 1 : G[a].id = Update!Id(m)
  <2>1. CASE m = t
    <3>1. n + 1 \in 1 .. n + 1 OBVIOUS
    <3> QED BY <3>1, <2>1, <1>2, <1>3
  <2>2. CASE m \in 1 .. t - 1
    <3>1. PICK a \in 1 .. n : F[a].id = Update!Id(m) BY <2>2, <1>7, <1>0 DEF Found
    <3>2. a \in 1 .. n + 1 OBVIOUS
    <3> QED BY <3>1, <3>2, <1>3
  <2> QED BY <2>1, <2>2
<1>8. Found(G, d, t) BY <1>3, <1>5, <1>6, <1>7 DEF Found
<1> QED BY <1>0, <1>3, <1>8 DEF f, G

LEMMA FindFileStep == PupInv /\ Update!FindFile => PupInv'
<1> SUFFICES ASSUME PupInv, Update!FindFile PROVE PupInv' OBVIOUS
<1>1. /\ u_pc = "find" /\ u_t <= Len(PupNames)
      /\ UNCHANGED <<u_input, u_keys, u_pup, u_made, u_damage, u_hdr_hmac, u_hmac_res, u_out>>
  BY DEF Update!FindFile, Update!unpacker
<1>2. Nothing /\ Found(u_files, u_input, u_t - 1)
  BY <1>1 DEF PupInv, Packing, Writing, Keeping, Unpacking
<1>3. Nothing' BY <1>1, <1>2, StillNothing
<1>4. Typed BY DEF PupInv
<1>5. PICK k \in 1 .. Len(PupNames) : k = u_t
  BY <1>1, <1>4, NamesLen DEF Typed
<1>6. CASE PupNames[u_t] \notin DOMAIN u_input /\ u_t' = u_t + 1 /\ UNCHANGED <<u_pc, u_files>>
  <2>1. u_t' - 1 = k /\ u_t' \in Nat \ {0} /\ u_t' <= Len(PupNames) + 1 BY <1>5, <1>6, NamesLen
  <2>2. Found(u_files, u_input, k) BY <1>2, <1>4, <1>5, <1>6, FoundSkip DEF Typed
  <2>3. Typed' BY <1>1, <1>4, <1>6, <2>1 DEF Typed
  <2>4. Found(u_files', u_input', u_t' - 1) BY <2>1, <2>2, <1>1, <1>6
  <2> QED BY <1>1, <1>3, <1>6, <2>1, <2>3, <2>4 DEF PupInv, Packing
<1>7. CASE /\ PupNames[u_t] \in DOMAIN u_input /\ Len(u_files) < PupMaxFiles
           /\ u_files' = Append(u_files, [id |-> Update!Id(u_t), name |-> PupNames[u_t],
                                          len |-> u_input[PupNames[u_t]], offset |-> 0])
           /\ u_t' = u_t + 1 /\ UNCHANGED u_pc
  <2>1. u_t' - 1 = k /\ u_t' \in Nat \ {0} /\ u_t' <= Len(PupNames) + 1 BY <1>5, <1>7, NamesLen
  <2>2. u_files' \in Seq(PupFile) /\ Len(u_files') = Len(u_files) + 1 /\ Found(u_files', u_input, k)
    <3>1. u_files \in Seq(PupFile) /\ u_input \in PupInputs /\ Found(u_files, u_input, k - 1)
          /\ PupNames[k] \in DOMAIN u_input
      BY <1>2, <1>4, <1>5, <1>7 DEF Typed
    <3> QED BY <3>1, <1>5, <1>7, FoundMore
  <2>3. Len(u_files') <= PupMaxFiles
    <3>1. PupMaxFiles \in Nat BY UpdateAssumption DEF Update!NumbersAssumption
    <3>2. Len(u_files) \in Nat BY <1>4 DEF Typed
    <3> QED BY <3>1, <3>2, <2>2, <1>7
  <2>4. Typed' BY <1>1, <1>4, <2>1, <2>2, <2>3 DEF Typed
  <2>5. Found(u_files', u_input', u_t' - 1) BY <2>1, <2>2, <1>1
  <2> QED BY <1>1, <1>3, <1>7, <2>1, <2>4, <2>5 DEF PupInv, Packing
<1>8. CASE u_pc' \in {"overrun", "failed"} /\ u_t' = 1 /\ UNCHANGED u_files
  <2>1. Typed' BY <1>1, <1>4, <1>8 DEF Typed
  <2> QED BY <1>3, <1>8, <2>1 DEF PupInv, Packing
<1> QED BY <1>6, <1>7, <1>8 DEF Update!FindFile, Update!Goto, Update!n_files

LEMMA FindDoneStep == PupInv /\ Update!FindDone => PupInv'
<1> SUFFICES ASSUME PupInv, Update!FindDone PROVE PupInv' OBVIOUS
<1>1. /\ u_pc = "find" /\ u_t > Len(PupNames) /\ u_pc' = "header" /\ u_t' = 1
      /\ u_files' = [m \in 1 .. Len(u_files) |-> [u_files[m] EXCEPT !.offset = Update!Offsets[m]]]
      /\ UNCHANGED <<u_input, u_keys, u_pup, u_made, u_damage, u_hdr_hmac, u_hmac_res, u_out>>
  BY DEF Update!FindDone, Update!unpacker, Update!Goto, Update!n_files
<1>2. Nothing /\ u_t <= Len(PupNames) + 1 /\ Found(u_files, u_input, u_t - 1)
  BY <1>1 DEF PupInv, Packing, Writing, Keeping, Unpacking
<1>3. Nothing' BY <1>1, <1>2, StillNothing
<1>4. Typed BY DEF PupInv
<1>5. PICK F \in Seq(PupFile) : F = u_files BY <1>4 DEF Typed
<1>6. PICK n \in Nat : n = Len(F) OBVIOUS
<1>7. Found(F, u_input, Len(PupNames))
  <2>1. u_t - 1 = Len(PupNames) BY <1>1, <1>2, <1>4, NamesLen DEF Typed
  <2> QED BY <2>1, <1>2, <1>5
<1>8. PICK at : at = Update!Offsets OBVIOUS
<1>9. at = [m \in 1 .. Len(F) |-> NextOffset(F, at, m)]
  <2>1. \E c : c = [m \in 1 .. Len(F) |-> NextOffset(F, c, m)] BY <1>6, OffsetsExist
  <2>2. Update!Offsets = CHOOSE c : c = [m \in 1 .. Len(F) |-> NextOffset(F, c, m)]
    BY <1>5 DEF Update!Offsets, Update!n_files, NextOffset, HeadLen
  <2> QED BY <2>1, <2>2, <1>8
<1>10. Row(F, at, n) BY <1>6, <1>9, RowIs
<1>11. PICK G : G = u_files' OBVIOUS
<1>12. G = [m \in 1 .. n |-> [F[m] EXCEPT !.offset = at[m]]] BY <1>1, <1>5, <1>6, <1>8, <1>11
<1>13. G \in Seq(PupFile) /\ Len(G) = n /\ HeadLen(G) = HeadLen(F)
       /\ \A m \in 1 .. n : /\ G[m].id = F[m].id /\ G[m].name = F[m].name
                            /\ G[m].len = F[m].len /\ G[m].offset = at[m]
  <2>1. ASSUME NEW m \in 1 .. n
        PROVE  /\ G[m] \in PupFile /\ G[m].id = F[m].id /\ G[m].name = F[m].name
               /\ G[m].len = F[m].len /\ G[m].offset = at[m]
    <3>1. F[m] \in PupFile BY <1>6, ElementOfSeq
    <3>2. at[m] \in Nat BY <1>10 DEF Row
    <3>3. G[m] = [F[m] EXCEPT !.offset = at[m]] BY <1>12
    <3> QED BY <3>1, <3>2, <3>3 DEF PupFile
  <2>2. G \in [1 .. n -> PupFile]
    <3>1. DOMAIN G = 1 .. n /\ G = [m \in 1 .. n |-> G[m]] BY <1>12
    <3> QED BY <2>1, <3>1
  <2>3. G \in Seq(PupFile) /\ Len(G) = n BY <2>2
  <2> QED BY <2>1, <2>3, <1>6 DEF HeadLen
<1>14. Found(G, u_input, Len(PupNames))
  <2>1. ASSUME NEW a \in 1 .. n
        PROVE \E m \in 1 .. Len(PupNames) :
                /\ m \in DOMAIN PupNames /\ PupNames[m] \in DOMAIN u_input
                /\ G[a].id = Update!Id(m) /\ G[a].name = PupNames[m] /\ G[a].len = u_input[PupNames[m]]
    <3>1. PICK m \in 1 .. Len(PupNames) :
                /\ m \in DOMAIN PupNames /\ PupNames[m] \in DOMAIN u_input
                /\ F[a].id = Update!Id(m) /\ F[a].name = PupNames[m] /\ F[a].len = u_input[PupNames[m]]
      BY <1>6, <1>7 DEF Found
    <3> QED BY <3>1, <1>13
  <2>2. ASSUME NEW a \in 1 .. n, NEW b \in 1 .. n, a < b PROVE G[a].id < G[b].id
    <3>1. F[a].id < F[b].id BY <2>2, <1>6, <1>7 DEF Found
    <3> QED BY <3>1, <1>13
  <2>3. ASSUME NEW m \in 1 .. Len(PupNames), PupNames[m] \in DOMAIN u_input
        PROVE  \E a \in 1 .. n : G[a].id = Update!Id(m)
    <3>1. PICK a \in 1 .. n : F[a].id = Update!Id(m) BY <2>3, <1>6, <1>7 DEF Found
    <3> QED BY <3>1, <1>13
  <2> QED BY <2>1, <2>2, <2>3, <1>13 DEF Found
<1>15. \A a \in 0 .. n : EndOf(G, a) = Before(F, at, a)
  <2>1. \A a \in 1 .. n : EndOf(G, a) = Before(F, at, a) BY <1>13 DEF EndOf, Before
  <2>2. EndOf(G, 0) = Before(F, at, 0) BY <1>13 DEF EndOf, Before
  <2>3. \A a \in 0 .. n : a = 0 \/ a \in 1 .. n OBVIOUS
  <2> QED BY <2>1, <2>2, <2>3
<1>16. Follow(G)
  <2>1. ASSUME NEW a \in 1 .. n
        PROVE  G[a].offset = EndOf(G, a - 1) /\ HeadLen(G) <= G[a].offset
    <3>1. a - 1 \in 0 .. n OBVIOUS
    <3> QED BY <3>1, <1>10, <1>13, <1>15 DEF Row
  <2>2. ASSUME NEW a \in 1 .. n, NEW b \in 1 .. n, a < b PROVE EndOf(G, a) <= G[b].offset
    <3>1. a \in 0 .. n OBVIOUS
    <3> QED BY <3>1, <2>2, <1>10, <1>13, <1>15 DEF Row
  <2>3. ASSUME NEW u \in HeadLen(G) .. EndOf(G, n) - 1
        PROVE  \E a \in 1 .. n : u \in G[a].offset .. EndOf(G, a) - 1
    <3>1. n \in 0 .. n /\ \A a \in 1 .. n : a \in 0 .. n OBVIOUS
    <3>2. u \in HeadLen(F) .. Before(F, at, n) - 1 BY <3>1, <1>13, <1>15
    <3>3. PICK a \in 1 .. n : u \in at[a] .. Before(F, at, a) - 1 BY <3>2, <1>10 DEF Row
    <3> QED BY <3>1, <3>3, <1>13, <1>15
  <2> QED BY <2>1, <2>2, <2>3, <1>13 DEF Follow
<1>17. Typed' BY <1>1, <1>4, <1>5, <1>6, <1>11, <1>13 DEF Typed
<1>18. Laid(u_files', u_input') BY <1>1, <1>11, <1>14, <1>16 DEF Laid
<1> QED BY <1>1, <1>3, <1>17, <1>18 DEF PupInv, Packing

LEMMA HeaderKept == UNCHANGED <<u_files, u_keys>> => Update!Header' = Update!Header
BY DEF Update!Header, Update!n_files

\* Writing at the end of a file.
LEMMA WriteAtEnd ==
    ASSUME NEW at \in Nat, NEW p, Mapping(p, at), NEW l \in Nat, NEW cells, Len(cells) = l,
           NEW W, W = Update!WriteAt(p, at, cells)
    PROVE  /\ Mapping(W, at + l) /\ DOMAIN W = 0 .. at + l - 1
           /\ \A u \in 0 .. at - 1 : W[u] = p[u]
           /\ \A u \in at .. at + l - 1 : W[u] = cells[u - at + 1]
<1>1. DOMAIN p = 0 .. at - 1 BY DEF Mapping
<1>2. DOMAIN p \cup (at .. at + Len(cells) - 1) = 0 .. at + l - 1 BY <1>1
<1>3. W = [u \in 0 .. at + l - 1 |-> IF u \in at .. at + l - 1 THEN cells[u - at + 1] ELSE p[u]]
  BY <1>2, Zenon DEF Update!WriteAt
<1>4. DOMAIN W = 0 .. at + l - 1 /\ W = [u \in 0 .. at + l - 1 |-> W[u]] BY <1>3
<1>5. \A u \in 0 .. at - 1 : W[u] = p[u] BY <1>3
<1>6. \A u \in at .. at + l - 1 : W[u] = cells[u - at + 1] BY <1>3
<1>7. Mapping(W, at + l) BY <1>4 DEF Mapping
<1> QED BY <1>4, <1>5, <1>6, <1>7

LEMMA NoCells == Mapping(<<>>, 0) /\ DOMAIN <<>> = {}
BY DEF Mapping

\* Cells of the tables are cells of no file.
LEMMA HeadCell ==
    ASSUME NEW F \in Seq(PupFile), Follow(F), NEW H, NEW u \in 0 .. HeadLen(F) - 1
    PROVE  Original(F, H, u, H[u + 1])
<1>1. /\ HeadLen(F) \in Nat
      /\ \A a \in 1 .. Len(F) : HeadLen(F) <= F[a].offset /\ F[a].offset \in Nat /\ F[a].len \in Nat
  BY FileIs DEF Follow
<1>2. ASSUME NEW a \in 1 .. Len(F), NEW x \in 1 .. F[a].len, u = F[a].offset + x - 1
      PROVE  FALSE
  BY <1>1, <1>2
<1> QED BY <1>2 DEF Original

\* Unit x of file t is unit y of file a for no other a and y.
LEMMA FileCell ==
    ASSUME NEW F \in Seq(PupFile), Follow(F), NEW H,
           NEW t \in 1 .. Len(F), NEW x \in 1 .. F[t].len
    PROVE  Original(F, H, F[t].offset + x - 1, Update!Data(F[t].name, x))
<1>0. Len(F) \in Nat BY FileIs
<1>1. PICK at \in Nat, l \in Nat : at = F[t].offset /\ l = F[t].len BY FileIs
<1>2. HeadLen(F) \in Nat /\ HeadLen(F) <= at BY <1>1, FileIs DEF Follow
<1>3. ASSUME NEW a \in 1 .. Len(F), NEW y \in 1 .. F[a].len, at + x - 1 = F[a].offset + y - 1
      PROVE  a = t /\ y = x
  <2>1. PICK at2 \in Nat, l2 \in Nat : at2 = F[a].offset /\ l2 = F[a].len BY FileIs
  <2>2. a < t => at2 + l2 <= at
    <3>1. a # 0 BY <1>0
    <3>2. a < t => EndOf(F, a) <= F[t].offset BY DEF Follow
    <3> QED BY <3>1, <3>2, <2>1, <1>1 DEF EndOf
  <2>3. t < a => at + l <= at2
    <3>1. t # 0 BY <1>0
    <3>2. t < a => EndOf(F, t) <= F[a].offset BY DEF Follow
    <3> QED BY <3>1, <3>2, <2>1, <1>1 DEF EndOf
  <2>4. y \in Nat /\ 1 <= y /\ y <= l2 /\ x \in Nat /\ 1 <= x /\ x <= l BY <2>1, <1>1
  <2>5. a = t BY <2>2, <2>3, <2>4, <1>3, <2>1, <1>0
  <2> QED BY <2>5, <2>4, <1>3, <1>1
<1>4. ~(at + x - 1 < HeadLen(F)) BY <1>1, <1>2
<1> QED BY <1>1, <1>3, <1>4 DEF Original

LEMMA PupHdrStep == PupInv /\ Update!WriteHdr => PupInv'
<1> SUFFICES ASSUME PupInv, Update!WriteHdr PROVE PupInv' OBVIOUS
<1>1. /\ u_pc = "header" /\ u_pc' = "write" /\ u_t' = 1
      /\ u_pup' = Update!WriteAt(<<>>, 0, Update!Header)
      /\ UNCHANGED <<u_input, u_keys, u_files, u_made, u_damage, u_hdr_hmac, u_hmac_res, u_out>>
  BY DEF Update!WriteHdr, Update!unpacker, Update!packer, Update!Goto
<1>2. Nothing /\ Laid(u_files, u_input)
  BY <1>1 DEF PupInv, Packing, Writing, Keeping, Unpacking
<1>3. Typed /\ Typed' BY <1>1 DEF PupInv, Typed
<1>4. PICK F \in Seq(PupFile) : F = u_files BY <1>3 DEF Typed
<1>5. PICK H : H = Update!Header OBVIOUS
<1>6. Update!Header' = H BY <1>1, <1>5, HeaderKept
<1>7. Len(H) = HeadLen(F) /\ HeadLen(F) \in Nat /\ Len(F) \in Nat
  BY <1>4, <1>5, HeaderIs, FileIs DEF HeaderOf
<1>8. PICK W : W = Update!WriteAt(<<>>, 0, H) OBVIOUS
<1>9. PICK h \in Nat : h = HeadLen(F) BY <1>7
<1>10. Mapping(W, HeadLen(F)) /\ DOMAIN W = 0 .. HeadLen(F) - 1
       /\ \A u \in 0 .. HeadLen(F) - 1 : W[u] = H[u + 1]
  <2>1. Len(H) = h BY <1>7, <1>9
  <2>2. /\ Mapping(W, 0 + h) /\ DOMAIN W = 0 .. 0 + h - 1
        /\ \A u \in 0 .. 0 + h - 1 : W[u] = H[u - 0 + 1]
    BY <2>1, <1>8, NoCells, WriteAtEnd
  <2>3. 0 + h = h /\ \A u \in 0 .. h - 1 : u - 0 + 1 = u + 1 OBVIOUS
  <2>4. Mapping(W, h) /\ DOMAIN W = 0 .. h - 1 BY <2>2, <2>3
  <2>5. \A u \in 0 .. h - 1 : W[u] = H[u + 1] BY <2>2, <2>3
  <2> QED BY <2>4, <2>5, <1>9
<1>11. \A u \in DOMAIN W : Original(F, H, u, W[u])
  BY <1>2, <1>4, <1>10, HeadCell DEF Laid
<1>12. Mapping(u_pup', EndOf(u_files', u_t' - 1))
  <2>1. u_t' - 1 = 0 BY <1>1
  <2>2. EndOf(F, 0) = HeadLen(F) BY DEF EndOf
  <2> QED BY <2>1, <2>2, <1>1, <1>4, <1>5, <1>8, <1>10
<1>13. u_t' <= Len(u_files') + 1 BY <1>1, <1>4, <1>7
<1>14. u_made' = <<>> /\ u_damage' = 0 /\ Unread' BY <1>1, <1>2 DEF Nothing, Unread
<1>15. Laid(u_files', u_input') BY <1>1, <1>2
<1>16. \A u \in DOMAIN u_pup' : Original(u_files', Update!Header', u, u_pup'[u])
  BY <1>1, <1>4, <1>5, <1>6, <1>8, <1>11
<1> QED BY <1>1, <1>3, <1>12, <1>13, <1>14, <1>15, <1>16 DEF PupInv, Writing

LEMMA WriteFileStep == PupInv /\ Update!WriteFile => PupInv'
<1> SUFFICES ASSUME PupInv, Update!WriteFile PROVE PupInv' OBVIOUS
<1>1. /\ u_pc = "write" /\ u_t <= Len(u_files) /\ u_pc' = u_pc /\ u_t' = u_t + 1
      /\ u_pup' = Update!WriteAt(u_pup, u_files[u_t].offset,
                                 Update!File(u_files[u_t].name, u_files[u_t].len))
      /\ UNCHANGED <<u_input, u_keys, u_files, u_made, u_damage, u_hdr_hmac, u_hmac_res, u_out>>
  BY DEF Update!WriteFile, Update!unpacker, Update!packer, Update!n_files
<1>2. /\ Laid(u_files, u_input) /\ Mapping(u_pup, EndOf(u_files, u_t - 1))
      /\ \A u \in DOMAIN u_pup : Original(u_files, Update!Header, u, u_pup[u])
      /\ u_made = <<>> /\ u_damage = 0 /\ Unread
  BY <1>1 DEF PupInv, Packing, Writing, Keeping, Unpacking
<1>3. Typed BY DEF PupInv
<1>4. PICK F \in Seq(PupFile) : F = u_files BY <1>3 DEF Typed
<1>5. PICK H : H = Update!Header OBVIOUS
<1>6. Update!Header' = H BY <1>1, <1>5, HeaderKept
<1>7. PICK t \in 1 .. Len(F) : t = u_t BY <1>1, <1>3, <1>4, FileIs DEF Typed
<1>8. PICK at \in Nat, l \in Nat : at = F[t].offset /\ l = F[t].len BY FileIs
<1>9. at = EndOf(F, t - 1) /\ EndOf(F, t) = at + l
  <2>1. t # 0 BY FileIs
  <2> QED BY <2>1, <1>2, <1>4, <1>8 DEF EndOf, Laid, Follow
<1>10. PICK p, W : p = u_pup /\ W = u_pup' OBVIOUS
<1>11. PICK cells : cells = Update!File(F[t].name, l) OBVIOUS
<1>12. Len(cells) = l /\ \A x \in 1 .. l : cells[x] = Update!Data(F[t].name, x)
  BY <1>11 DEF Update!File
<1>13. W = Update!WriteAt(p, at, cells) BY <1>1, <1>4, <1>7, <1>8, <1>10, <1>11
<1>14. Mapping(p, at) BY <1>2, <1>4, <1>7, <1>9, <1>10
<1>15. /\ Mapping(W, at + l) /\ DOMAIN W = 0 .. at + l - 1
       /\ \A u \in 0 .. at - 1 : W[u] = p[u]
       /\ \A u \in at .. at + l - 1 : W[u] = cells[u - at + 1]
  <2>1. Len(cells) = l BY <1>12
  <2> QED BY <2>1, <1>8, <1>13, <1>14, WriteAtEnd
<1>16. ASSUME NEW u \in 0 .. at + l - 1 PROVE Original(F, H, u, W[u])
  <2>1. CASE u \in 0 .. at - 1
    <3>1. u \in DOMAIN p BY <2>1, <1>14 DEF Mapping
    <3> QED BY <3>1, <2>1, <1>2, <1>4, <1>5, <1>10, <1>15
  <2>2. CASE u \in at .. at + l - 1
    <3>1. PICK x \in 1 .. l : x = u - at + 1
      <4>1. PICK y \in Int : y = u - at + 1 OBVIOUS
      <4>2. y \in 1 .. l BY <4>1, <2>2
      <4> QED BY <4>1, <4>2
    <3>2. u = F[t].offset + x - 1 /\ x \in 1 .. F[t].len
      <4>1. u = at + x - 1 BY <3>1, <2>2
      <4> QED BY <4>1, <1>8
    <3>3. W[u] = Update!Data(F[t].name, x) BY <3>1, <2>2, <1>12, <1>15
    <3>4. Original(F, H, F[t].offset + x - 1, Update!Data(F[t].name, x))
      BY <3>2, <1>2, <1>4, FileCell DEF Laid
    <3> QED BY <3>2, <3>3, <3>4
  <2> QED BY <2>1, <2>2
<1>17. Typed' /\ u_t' - 1 = t /\ u_t' <= Len(u_files') + 1
  <2>1. u_t' \in Nat \ {0} /\ u_t' - 1 = t /\ u_t' <= Len(F) + 1 BY <1>1, <1>7, FileIs
  <2> QED BY <2>1, <1>1, <1>3, <1>4 DEF Typed
<1>18. Unread' BY <1>1, <1>2 DEF Unread
<1>19. Mapping(u_pup', EndOf(u_files', u_t' - 1)) BY <1>1, <1>4, <1>9, <1>10, <1>15, <1>17
<1>20. \A u \in DOMAIN u_pup' : Original(u_files', Update!Header', u, u_pup'[u])
  BY <1>1, <1>4, <1>6, <1>10, <1>15, <1>16
<1> QED BY <1>1, <1>2, <1>17, <1>18, <1>19, <1>20 DEF PupInv, Writing

-----------------------------------------------------------------------------
(* Storage. *)

LEMMA CellCases ==
    ASSUME NEW n \in Nat, NEW u \in Nat
    PROVE  u = 0 \/ u \in 1 .. n \/ u \in n + 1 .. 2 * n \/ u = 2 * n + 1 \/ u >= 2 + 2 * n
OBVIOUS

\* What a cell of the head or the tables is.
LEMMA HeadIs ==
    ASSUME NEW F \in Seq(PupFile), NEW k, NEW H, HeaderOf(F, k, H)
    PROVE  /\ H[1] = <<-1, Len(F)>>
           /\ \A u \in 1 .. Len(F) : H[u + 1] = <<F[u].id, F[u].offset, F[u].len>>
           /\ \A m \in 1 .. Len(F) : H[Len(F) + m + 1] =
                 <<m - 1, <<"hmac", k, Update!File(F[m].name, F[m].len)>>>>
           /\ H[2 * Len(F) + 2] = Update!Sum(H[2 * Len(F) + 2][2])
<1>1. PICK n \in Nat : n = Len(F) OBVIOUS
<1>2. H[1] = <<-1, n>> BY <1>1 DEF HeaderOf, Update!Magic
<1>3. ASSUME NEW u \in 1 .. n PROVE H[u + 1] = <<F[u].id, F[u].offset, F[u].len>>
  <2>1. 1 + u = u + 1 OBVIOUS
  <2>2. H[1 + u] = Update!Section(F[u]) BY <1>1 DEF HeaderOf
  <2> QED BY <2>1, <2>2 DEF Update!Section
<1>4. ASSUME NEW m \in 1 .. n
      PROVE  H[n + m + 1] = <<m - 1, <<"hmac", k, Update!File(F[m].name, F[m].len)>>>>
  <2>1. 1 + n + m = n + m + 1 OBVIOUS
  <2>2. H[1 + n + m] = Update!HashOf(m - 1, Update!sha1_hmac(k, Update!File(F[m].name, F[m].len)))
    BY <1>1 DEF HeaderOf
  <2> QED BY <2>1, <2>2 DEF Update!HashOf, Update!sha1_hmac
<1>5. PICK T : H[HeadLen(F)] = Update!Sum(Update!sha1_hmac(k, T))
  BY DEF HeaderOf
<1>6. HeadLen(F) = 2 * n + 2 BY <1>1 DEF HeadLen
<1>7. H[2 * n + 2] = Update!Sum(H[2 * n + 2][2]) BY <1>5, <1>6 DEF Update!Sum
<1> QED BY <1>1, <1>2, <1>3, <1>4, <1>7

LEMMA OriginalShape ==
    ASSUME NEW F \in Seq(PupFile), Follow(F), NEW k, NEW H, HeaderOf(F, k, H),
           NEW u \in 0 .. EndOf(F, Len(F)) - 1, NEW c, Original(F, H, u, c)
    PROVE  Shape(F, H, u, c)
<1>1. PICK n \in Nat : n = Len(F) OBVIOUS
<1>2. HeadLen(F) = 2 + 2 * n /\ EndOf(F, n) \in Nat
  <2>1. n \in 0 .. Len(F) BY <1>1
  <2> QED BY <1>1, <2>1, FileIs DEF HeadLen
<1>3. u \in Nat /\ (u < 2 + 2 * n => c = H[u + 1])
  BY <1>1, <1>2 DEF Original
<1>4. CASE u = 0
  <2>1. c = H[1] /\ H[1] = <<-1, n>>
    <3>1. 0 + 1 = 1 /\ 0 < 2 + 2 * n OBVIOUS
    <3> QED BY <3>1, <1>1, <1>3, <1>4, HeadIs
  <2> QED BY <2>1, <1>1, <1>2, <1>4 DEF Shape
<1>5. CASE u \in 1 .. n
  <2>1. c = <<F[u].id, F[u].offset, F[u].len>>
    <3>1. c = H[u + 1] BY <1>3, <1>5
    <3>2. u \in 1 .. Len(F) BY <1>1, <1>5
    <3>3. H[u + 1] = <<F[u].id, F[u].offset, F[u].len>> BY <3>2, HeadIs
    <3> QED BY <3>1, <3>3
  <2>2. F[u].id \in Nat /\ F[u].offset \in Nat /\ F[u].len \in Nat BY <1>1, <1>5, FileIs
  <2>3. Len(c) = 3 /\ c[1] \in Nat /\ c[2] \in Nat /\ c[3] \in Nat BY <2>1, <2>2
  <2> QED BY <2>3, <1>1, <1>2, <1>5 DEF Shape
<1>6. CASE u \in n + 1 .. 2 * n
  <2>1. PICK m \in 1 .. n : u = n + m
    <3>1. u - n \in 1 .. n /\ u = n + (u - n) BY <1>6
    <3> QED BY <3>1
  <2>2. c = <<m - 1, <<"hmac", k, Update!File(F[m].name, F[m].len)>>>>
    <3>1. c = H[u + 1] BY <1>3, <1>6
    <3>2. m \in 1 .. Len(F) BY <1>1
    <3>3. H[n + m + 1] = <<m - 1, <<"hmac", k, Update!File(F[m].name, F[m].len)>>>>
      BY <3>2, <1>1, HeadIs
    <3> QED BY <3>1, <3>3, <2>1
  <2>3. Len(c) = 2 /\ c[1] \in Nat BY <2>2
  <2> QED BY <2>3, <1>1, <1>2, <1>6 DEF Shape
<1>7. CASE u = 2 * n + 1
  <2>1. c = H[2 * n + 2] /\ 2 * n + 2 = HeadLen(F) BY <1>2, <1>3, <1>7
  <2>2. c = Update!Sum(c[2]) BY <1>1, <2>1, HeadIs
  <2> QED BY <2>1, <2>2, <1>1, <1>2, <1>7 DEF Shape
<1>8. CASE u >= 2 + 2 * n
  <2>1. u \in HeadLen(F) .. EndOf(F, Len(F)) - 1 BY <1>1, <1>2, <1>3, <1>8
  <2>2. PICK a \in 1 .. Len(F) : u \in F[a].offset .. EndOf(F, a) - 1 BY <2>1 DEF Follow
  <2>3. PICK at \in Nat, l \in Nat : at = F[a].offset /\ l = F[a].len BY FileIs
  <2>4. a # 0 /\ EndOf(F, a) = at + l BY <2>3, FileIs DEF EndOf
  <2>5. PICK x \in 1 .. l : x = u - at + 1
    <3>1. at <= u /\ u <= at + l - 1 BY <2>2, <2>3, <2>4
    <3>2. u - at + 1 \in 1 .. l BY <3>1, <2>3, <1>3
    <3> QED BY <3>2
  <2>6. u = F[a].offset + x - 1 /\ x \in 1 .. F[a].len BY <2>3, <2>5, <1>3
  <2>7. c = Update!Data(F[a].name, x) BY <2>6 DEF Original
  <2>8. c[1] = -3 BY <2>7 DEF Update!Data
  <2> QED BY <2>8, <1>1, <1>2, <1>8 DEF Shape
<1> QED BY <1>1, <1>3, <1>4, <1>5, <1>6, <1>7, <1>8, CellCases

\* Damage keeps the shape of a cell.
LEMMA DamageShape ==
    ASSUME NEW F \in Seq(PupFile), NEW H, NEW u \in Nat, NEW b, Shape(F, H, u, b),
           NEW c \in Update!Damaged(b)
    PROVE  Shape(F, H, u, c)
<1>1. PICK n \in Nat : n = Len(F) OBVIOUS
<1>2. HeadLen(F) = 2 + 2 * n BY <1>1 DEF HeadLen
<1>3. CASE u = 0
  <2>1. b[1] = -1 BY <1>3 DEF Shape
  <2>2. Update!Damaged(b) = {Update!Magic(m) : m \in 0 .. PupMaxFiles} BY <2>1 DEF Update!Damaged
  <2>3. PICK m \in 0 .. PupMaxFiles : c = <<-1, m>> BY <2>2 DEF Update!Magic
  <2>4. c[1] = -1 /\ c[2] \in Nat BY <2>3
  <2> QED BY <2>4, <1>1, <1>2, <1>3 DEF Shape
<1>4. CASE u \in 1 .. n
  <2>1. Len(b) = 3 /\ b[1] \in Nat /\ b[2] \in Nat /\ b[3] \in Nat BY <1>1, <1>4 DEF Shape
  <2>2. Update!Damaged(b) = {<<id, b[2], b[3]>> : id \in Update!Id(0) .. Update!Id(Len(PupNames))}
            \cup {<<b[1], at, b[3]>> : at \in 0 .. Update!Size(u_pup)}
            \cup {<<b[1], b[2], len>> : len \in 0 .. 2}
    BY <2>1 DEF Update!Damaged
  <2>3. Update!Id(0) \in Nat BY DEF Update!Id
  <2>4. \E x, y, z \in Nat : c = <<x, y, z>>
    <3>1. CASE \E id \in Update!Id(0) .. Update!Id(Len(PupNames)) : c = <<id, b[2], b[3]>>
      <4>1. PICK id \in Update!Id(0) .. Update!Id(Len(PupNames)) : c = <<id, b[2], b[3]>> BY <3>1
      <4>2. id \in Nat BY <2>3
      <4> QED BY <4>1, <4>2, <2>1
    <3>2. CASE \E at \in 0 .. Update!Size(u_pup) : c = <<b[1], at, b[3]>>
      <4>1. PICK at \in 0 .. Update!Size(u_pup) : c = <<b[1], at, b[3]>> BY <3>2
      <4>2. at \in Nat OBVIOUS
      <4> QED BY <4>1, <4>2, <2>1
    <3>3. CASE \E len \in 0 .. 2 : c = <<b[1], b[2], len>>
      BY <3>3, <2>1
    <3> QED BY <2>2, <3>1, <3>2, <3>3
  <2>5. Len(c) = 3 /\ c[1] \in Nat /\ c[2] \in Nat /\ c[3] \in Nat BY <2>4
  <2> QED BY <2>5, <1>1, <1>2, <1>4 DEF Shape
<1>5. CASE u \in n + 1 .. 2 * n
  <2>1. Len(b) = 2 /\ b[1] \in Nat BY <1>1, <1>5 DEF Shape
  <2>2. Update!Damaged(b) =
           {<<m, b[2]>> : m \in 0 .. PupMaxFiles} \cup {<<b[1], Update!Garbled(b[2])>>}
    BY <2>1 DEF Update!Damaged
  <2>3. \E m \in Nat : \E x : c = <<m, x>> BY <2>1, <2>2
  <2>4. Len(c) = 2 /\ c[1] \in Nat BY <2>3
  <2> QED BY <2>4, <1>1, <1>2, <1>5 DEF Shape
<1>6. CASE u = 2 * n + 1
  <2>1. b[1] = -2
    <3>1. b = Update!Sum(b[2]) BY <1>1, <1>6 DEF Shape
    <3> QED BY <3>1 DEF Update!Sum
  <2>2. Update!Damaged(b) = {Update!Sum(Update!Garbled(b[2]))} BY <2>1 DEF Update!Damaged
  <2>3. c = <<-2, <<"garbled", b[2]>>>> BY <2>2 DEF Update!Sum, Update!Garbled
  <2>4. c = Update!Sum(c[2]) /\ c[2][1] = "garbled" BY <2>3 DEF Update!Sum
  <2> QED BY <2>4, <1>1, <1>2, <1>6 DEF Shape
<1>7. CASE u >= 2 + 2 * n
  <2>1. b[1] = -3 BY <1>1, <1>2, <1>7 DEF Shape
  <2>2. Update!Damaged(b) = {Update!Data("garbled", b[3])} BY <2>1 DEF Update!Damaged
  <2>3. c[1] = -3 BY <2>2 DEF Update!Data
  <2> QED BY <2>3, <1>1, <1>2, <1>7 DEF Shape
<1> QED BY <1>3, <1>4, <1>5, <1>6, <1>7, CellCases

\* No file ends before another one that comes before it.
LEMMA EndGrows ==
    ASSUME NEW F \in Seq(PupFile), Follow(F), NEW a \in 0 .. Len(F)
    PROVE  EndOf(F, a) <= EndOf(F, Len(F))
<1>1. PICK n \in Nat : n = Len(F) OBVIOUS
<1>2. EndOf(F, a) \in Nat BY FileIs
<1>3. CASE a = n BY <1>1, <1>2, <1>3
<1>4. CASE a < n
  <2>1. n \in 1 .. Len(F) /\ n # 0 BY <1>1, <1>4
  <2>2. PICK at \in Nat, l \in Nat : at = F[n].offset /\ l = F[n].len BY <2>1, FileIs
  <2>3. EndOf(F, n) = at + l BY <2>1, <2>2 DEF EndOf
  <2>4. EndOf(F, a) <= at
    <3>1. CASE a = 0 BY <3>1, <2>1, <2>2 DEF EndOf, Follow
    <3>2. CASE a # 0
      <4>1. a \in 1 .. Len(F) BY <3>2
      <4> QED BY <4>1, <2>1, <2>2, <1>4 DEF Follow
    <3> QED BY <3>1, <3>2
  <2> QED BY <2>2, <2>3, <2>4, <1>1, <1>2
<1> QED BY <1>1, <1>3, <1>4

LEMMA PupSize ==
    ASSUME NEW p, NEW e \in Nat, DOMAIN p = 0 .. e - 1
    PROVE  Update!Size(p) = e
<1>1. Cardinality(0 .. e - 1) = e
  <2>1. e - 1 \in Int /\ 0 \in Int OBVIOUS
  <2>2. Cardinality(0 .. e - 1) = IF 0 > e - 1 THEN 0 ELSE (e - 1) - 0 + 1
    BY <2>1, FS_Interval
  <2> QED BY <2>2
<1>2. Update!Size(p) = Cardinality(DOMAIN p) BY DEF Update!Size, Update!Cardinality, Cardinality
<1> QED BY <1>1, <1>2

LEMMA CloseStep == PupInv /\ Update!Close => PupInv'
<1> SUFFICES ASSUME PupInv, Update!Close PROVE PupInv' OBVIOUS
<1>1. /\ u_pc = "write" /\ u_t > Len(u_files) /\ u_pc' = "stored" /\ u_t' = 1
      /\ u_made' = u_pup
      /\ UNCHANGED <<u_input, u_keys, u_files, u_pup, u_damage, u_hdr_hmac, u_hmac_res, u_out>>
  BY DEF Update!Close, Update!unpacker, Update!Goto, Update!n_files
<1>2. /\ Laid(u_files, u_input) /\ Mapping(u_pup, EndOf(u_files, u_t - 1))
      /\ u_t <= Len(u_files) + 1
      /\ \A u \in DOMAIN u_pup : Original(u_files, Update!Header, u, u_pup[u])
      /\ u_made = <<>> /\ u_damage = 0 /\ Unread
  BY <1>1 DEF PupInv, Packing, Writing, Keeping, Unpacking
<1>3. Typed /\ Typed' BY <1>1 DEF PupInv, Typed
<1>4. PICK F \in Seq(PupFile) : F = u_files BY <1>3 DEF Typed
<1>5. PICK H : H = Update!Header OBVIOUS
<1>6. Update!Header' = H BY <1>1, <1>5, HeaderKept
<1>7. PICK p : p = u_pup OBVIOUS
<1>8. PICK e \in Nat : e = EndOf(F, Len(F))
  <2>1. Len(F) \in 0 .. Len(F) BY FileIs
  <2> QED BY <2>1, FileIs
<1>9. Mapping(p, e) /\ DOMAIN p = 0 .. e - 1
  <2>1. u_t - 1 = Len(F) BY <1>1, <1>2, <1>3, <1>4, FileIs DEF Typed
  <2>2. Mapping(p, e) BY <2>1, <1>2, <1>4, <1>7, <1>8
  <2> QED BY <2>2 DEF Mapping
<1>10. \A u \in DOMAIN p : Original(F, H, u, p[u]) BY <1>2, <1>4, <1>5, <1>7
<1>11. \A u \in DOMAIN p : Shape(F, H, u, p[u])
  <2>1. HeaderOf(F, u_keys.pack, H) BY <1>4, <1>5, HeaderIs
  <2>2. Follow(F) BY <1>2, <1>4 DEF Laid
  <2> QED BY <2>1, <2>2, <1>8, <1>9, <1>10, OriginalShape
<1>12. Stored(F, H, p, p, TRUE)
  <2>1. e \in 0 .. EndOf(F, Len(F)) BY <1>8
  <2> QED BY <2>1, <1>8, <1>9, <1>10, <1>11 DEF Stored
<1>13. Stored(u_files', Update!Header', u_pup', u_made', u_damage' = 0)
  <2>1. (u_damage' = 0) = TRUE BY <1>1, <1>2
  <2> QED BY <2>1, <1>1, <1>4, <1>6, <1>7, <1>12
<1>14. Unread' BY <1>1, <1>2 DEF Unread
<1> QED BY <1>1, <1>2, <1>3, <1>13, <1>14 DEF PupInv, Keeping

LEMMA CutStep == PupInv /\ Update!Stop => PupInv'
<1> SUFFICES ASSUME PupInv, Update!Stop PROVE PupInv' OBVIOUS
<1>1. /\ u_pc = "write" /\ u_pc' = "stored" /\ u_t' = 1
      /\ \E j \in 0 .. Update!Size(u_pup) : u_pup' = Update!Cut(u_pup, j)
      /\ UNCHANGED <<u_input, u_keys, u_files, u_made, u_damage, u_hdr_hmac, u_hmac_res, u_out>>
  BY DEF Update!Stop, Update!unpacker, Update!packer, Update!Goto
<1>2. /\ Laid(u_files, u_input) /\ Mapping(u_pup, EndOf(u_files, u_t - 1))
      /\ u_t <= Len(u_files) + 1
      /\ \A u \in DOMAIN u_pup : Original(u_files, Update!Header, u, u_pup[u])
      /\ u_made = <<>> /\ u_damage = 0 /\ Unread
  BY <1>1 DEF PupInv, Packing, Writing, Keeping, Unpacking
<1>3. Typed /\ Typed' BY <1>1 DEF PupInv, Typed
<1>4. PICK F \in Seq(PupFile) : F = u_files BY <1>3 DEF Typed
<1>5. PICK H : H = Update!Header OBVIOUS
<1>6. Update!Header' = H BY <1>1, <1>5, HeaderKept
<1>7. PICK p, q : p = u_pup /\ q = u_pup' OBVIOUS
<1>8. PICK t \in 0 .. Len(F) : t = u_t - 1
  <2>1. u_t - 1 \in 0 .. Len(F) BY <1>2, <1>3, <1>4, FileIs DEF Typed
  <2> QED BY <2>1
<1>9. PICK e \in Nat, z \in Nat : e = EndOf(F, t) /\ z = EndOf(F, Len(F)) /\ e <= z
  <2>1. Len(F) \in 0 .. Len(F) BY FileIs
  <2>2. EndOf(F, t) \in Nat /\ EndOf(F, Len(F)) \in Nat BY <2>1, FileIs
  <2>3. EndOf(F, t) <= EndOf(F, Len(F)) BY <1>2, <1>4, EndGrows DEF Laid
  <2> QED BY <2>2, <2>3
<1>10. Mapping(p, e) /\ DOMAIN p = 0 .. e - 1
  <2>1. Mapping(p, e) BY <1>2, <1>4, <1>7, <1>8, <1>9
  <2> QED BY <2>1 DEF Mapping
<1>11. PICK j \in 0 .. e : q = [u \in 0 .. j - 1 |-> p[u]]
  <2>1. Update!Size(p) = e BY <1>9, <1>10, PupSize
  <2> QED BY <2>1, <1>1, <1>7 DEF Update!Cut
<1>12. Mapping(q, j) /\ DOMAIN q = 0 .. j - 1 /\ \A u \in 0 .. j - 1 : q[u] = p[u] /\ u \in DOMAIN p
  BY <1>10, <1>11 DEF Mapping
<1>13. \A u \in DOMAIN q : Original(F, H, u, q[u]) BY <1>2, <1>4, <1>5, <1>7, <1>12
<1>14. \A u \in DOMAIN q : Shape(F, H, u, q[u])
  <2>1. HeaderOf(F, u_keys.pack, H) BY <1>4, <1>5, HeaderIs
  <2>2. Follow(F) BY <1>2, <1>4 DEF Laid
  <2>3. \A u \in 0 .. j - 1 : u \in 0 .. EndOf(F, Len(F)) - 1 BY <1>9
  <2> QED BY <2>1, <2>2, <2>3, <1>12, <1>13, OriginalShape
<1>15. Stored(F, H, q, <<>>, TRUE)
  <2>1. j \in 0 .. EndOf(F, Len(F)) BY <1>9
  <2> QED BY <2>1, <1>12, <1>13, <1>14, NoCells DEF Stored
<1>16. Stored(u_files', Update!Header', u_pup', u_made', u_damage' = 0)
  <2>1. (u_damage' = 0) = TRUE BY <1>1, <1>2
  <2> QED BY <2>1, <1>1, <1>2, <1>4, <1>6, <1>7, <1>15
<1>17. Unread' BY <1>1, <1>2 DEF Unread
<1> QED BY <1>1, <1>2, <1>3, <1>16, <1>17 DEF PupInv, Keeping

LEMMA DamageStep == PupInv /\ Update!Damage => PupInv'
<1> SUFFICES ASSUME PupInv, Update!Damage PROVE PupInv' OBVIOUS
<1>0. PICK u \in DOMAIN u_pup : \E c \in Update!Damaged(u_pup[u]) :
        u_pup' = [u_pup EXCEPT ![u] = c]
  BY DEF Update!Damage
<1>1. PICK c \in Update!Damaged(u_pup[u]) : u_pup' = [u_pup EXCEPT ![u] = c]
  BY <1>0
<1>2. /\ u_pc = "stored" /\ u_damage' = u_damage + 1
      /\ UNCHANGED <<u_pc, u_t, u_input, u_keys, u_files, u_made, u_hdr_hmac, u_hmac_res, u_out>>
  BY DEF Update!Damage, Update!unpacker, Update!packer
<1>3. /\ Laid(u_files, u_input) /\ Unread
      /\ Stored(u_files, Update!Header, u_pup, u_made, u_damage = 0)
  BY <1>2 DEF PupInv, Packing, Writing, Keeping, Unpacking
<1>4. Typed /\ Typed' /\ u_damage' # 0 BY <1>2 DEF PupInv, Typed
<1>5. PICK F \in Seq(PupFile) : F = u_files BY <1>4 DEF Typed
<1>6. PICK H : H = Update!Header OBVIOUS
<1>7. Update!Header' = H BY <1>2, <1>6, HeaderKept
<1>8. PICK p, q, w : p = u_pup /\ q = u_pup' /\ w = u_made OBVIOUS
<1>9. PICK e \in 0 .. EndOf(F, Len(F)) :
        Mapping(p, e) /\ (w # <<>> => e = EndOf(F, Len(F)) /\ Mapping(w, e))
  BY <1>3, <1>5, <1>8 DEF Stored
<1>10. DOMAIN p = 0 .. e - 1 BY <1>9 DEF Mapping
<1>11. DOMAIN q = 0 .. e - 1 /\ \A v \in 0 .. e - 1 : q[v] = IF v = u THEN c ELSE p[v]
  BY <1>1, <1>8, <1>10
<1>12. Mapping(q, e)
  <2>1. q = [v \in 0 .. e - 1 |-> IF v = u THEN c ELSE p[v]] BY <1>1, <1>8, <1>10
  <2> QED BY <2>1 DEF Mapping
<1>13. ASSUME NEW v \in 0 .. e - 1 PROVE Shape(F, H, v, q[v])
  <2>1. Shape(F, H, v, p[v]) BY <1>3, <1>5, <1>6, <1>8, <1>10 DEF Stored
  <2>2. CASE v # u BY <2>1, <2>2, <1>11
  <2>3. CASE v = u
    <3>1. c \in Update!Damaged(p[v]) BY <2>3, <1>1, <1>8
    <3>2. v \in Nat OBVIOUS
    <3>3. Shape(F, H, v, c) BY <2>1, <3>1, <3>2, DamageShape
    <3> QED BY <2>3, <3>3, <1>11
  <2> QED BY <2>2, <2>3
<1>14. Stored(F, H, q, w, FALSE)
  <2>1. \A v \in DOMAIN w : Original(F, H, v, w[v]) BY <1>3, <1>5, <1>6, <1>8 DEF Stored
  <2> QED BY <2>1, <1>9, <1>11, <1>12, <1>13 DEF Stored
<1>15. Stored(u_files', Update!Header', u_pup', u_made', u_damage' = 0)
  <2>1. (u_damage' = 0) = FALSE BY <1>4
  <2> QED BY <2>1, <1>2, <1>5, <1>7, <1>8, <1>14
<1>16. Unread' BY <1>2, <1>3 DEF Unread
<1> QED BY <1>2, <1>3, <1>4, <1>15, <1>16 DEF PupInv, Keeping

-----------------------------------------------------------------------------
(* pupunpack. *)

LEMMA EmptyMapping == \A p : Mapping(p, 0) => p = <<>>
BY DEF Mapping

LEMMA NothingExtracted ==
    ASSUME NEW F \in Seq(PupFile), NEW k, NEW p
    PROVE  Extracted(F, k, p, <<>>, <<>>)
<1>1. Len(<<>>) = 0 /\ Len(F) \in Nat OBVIOUS
<1>2. {F[m].name : m \in 1 .. Len(<<>>)} = {} BY <1>1
<1>3. <<>> = [f \in {F[m].name : m \in 1 .. Len(<<>>)} |-> <<>>[f]] BY <1>2
<1> QED BY <1>1, <1>3 DEF Extracted

\* Before anything is read.
LEMMA NothingJudged ==
    ASSUME u_files \in Seq(PupFile), Unread'
    PROVE  /\ u_hdr_hmac' \in Update!Verdicts \cup {"none"} /\ u_hmac_res' \in Seq(Update!Verdicts)
           /\ u_hdr_hmac' = "none"
           /\ Extracted(u_files, u_keys, u_pup, u_hmac_res', u_out')
<1>1. u_hdr_hmac' = "none" /\ u_hmac_res' = <<>> /\ u_out' = <<>> BY DEF Unread
<1> QED BY <1>1, NothingExtracted

\* A package that was written and left alone is as long as it should be.
LEMMA WholeLength ==
    ASSUME NEW F \in Seq(PupFile), Follow(F)
    PROVE  EndOf(F, Len(F)) \in Nat /\ 2 + 2 * Len(F) <= EndOf(F, Len(F))
<1>1. 0 \in 0 .. Len(F) /\ Len(F) \in 0 .. Len(F) BY FileIs
<1>2. EndOf(F, 0) <= EndOf(F, Len(F)) BY <1>1, EndGrows
<1> QED BY <1>1, <1>2, FileIs DEF EndOf, HeadLen

LEMMA OpenStep == PupInv /\ Update!Open => PupInv'
<1> SUFFICES ASSUME PupInv, Update!Open PROVE PupInv' OBVIOUS
<1>1. /\ u_pc = "stored" /\ u_t' = 1
      /\ \/ u_pc' = "undefined" /\ u_pup = <<>>
         \/ u_pc' = "verify" /\ u_pup # <<>>
         \/ u_pc' = "failed"
      /\ UNCHANGED <<u_input, u_keys, u_files, u_pup, u_made, u_damage,
                     u_hdr_hmac, u_hmac_res, u_out>>
  BY DEF Update!Open, Update!unpacker, Update!packer, Update!Goto
<1>2. /\ Laid(u_files, u_input) /\ Unread
      /\ Stored(u_files, Update!Header, u_pup, u_made, u_damage = 0)
  BY <1>1 DEF PupInv, Packing, Writing, Keeping, Unpacking
<1>3. Typed /\ Typed' BY <1>1 DEF PupInv, Typed
<1>4. PICK F \in Seq(PupFile) : F = u_files BY <1>3 DEF Typed
<1>5. Update!Header' = Update!Header BY <1>1, HeaderKept
<1>6. Stored(u_files', Update!Header', u_pup', u_made', u_damage' = 0)
  BY <1>1, <1>2, <1>5
<1>7. Laid(u_files', u_input') /\ Unread' BY <1>1, <1>2 DEF Unread
<1>8. PICK e \in 0 .. EndOf(F, Len(F)) :
        Mapping(u_pup, e) /\ (u_made # <<>> => e = EndOf(F, Len(F)))
  BY <1>2, <1>4 DEF Stored
<1>9. CASE u_pc' = "verify" /\ u_pup # <<>>
  <2>1. e # 0 BY <1>8, <1>9, EmptyMapping
  <2>2. 0 \in DOMAIN u_pup BY <2>1, <1>8 DEF Mapping
  <2> QED BY <2>2, <1>1, <1>3, <1>6, <1>7, <1>9 DEF PupInv, Keeping
<1>10. CASE u_pc' \in {"failed", "undefined"} /\ (u_pc' = "undefined" => u_pup = <<>>)
  <2>1. /\ u_hdr_hmac' \in Update!Verdicts \cup {"none"} /\ u_hmac_res' \in Seq(Update!Verdicts)
        /\ u_hdr_hmac' = "none"
        /\ Extracted(u_files', u_keys', u_pup', u_hmac_res', u_out')
    BY <1>1, <1>4, <1>7, NothingJudged
  <2>2. u_made' # <<>> /\ u_damage' = 0 => u_pc' # "undefined"
    <3> SUFFICES ASSUME u_made # <<>>, u_pup = <<>> PROVE FALSE BY <1>1, <1>10
    <3>1. e = EndOf(F, Len(F)) /\ e \in Nat /\ 2 <= e
      <4>1. Follow(F) BY <1>2, <1>4 DEF Laid
      <4>2. Len(F) \in Nat OBVIOUS
      <4> QED BY <4>1, <4>2, <1>8, WholeLength
    <3>2. 0 \in DOMAIN u_pup BY <3>1, <1>8 DEF Mapping
    <3> QED BY <3>2
  <2>3. Judged' BY <2>1, <2>2, <1>10 DEF Judged
  <2> QED BY <2>3, <1>3, <1>6, <1>7, <1>10 DEF PupInv, Unpacking
<1> QED BY <1>1, <1>9, <1>10

\* The digest in cell c.
DigestIn(c) == IF c[1] = -2 THEN c[2] ELSE Update!Garbled(0)

\* What the digest of the tables vouches for: it is the only cell of its kind,
\* damage makes it a digest of nothing, and a digest tells key and text.
LEMMA HeaderVouches ==
    ASSUME NEW F \in Seq(PupFile), NEW k, NEW r, NEW H, HeaderOf(F, k, H), NEW p, NEW e \in Nat,
           DOMAIN p = 0 .. e - 1, \A u \in 0 .. e - 1 : Shape(F, H, u, p[u]),
           NEW n \in Nat, 2 + 2 * n <= e,
           Update!sha1_hmac(r, Update!Read(p, 0, 1 + 2 * n)) = DigestIn(p[1 + 2 * n])
    PROVE  /\ n = Len(F) /\ r = k /\ Intact(F, H, p)
           /\ 2 * n + 1 \in DOMAIN p /\ p[2 * n + 1] = H[HeadLen(F)]
<1> DEFINE c == p[1 + 2 * n]
           R == Update!Read(p, 0, 1 + 2 * n)
<1>1. <<"hmac", r, R>> = DigestIn(c) BY DEF Update!sha1_hmac
<1>2. R = [u \in 1 .. 1 + 2 * n |-> p[0 + u - 1]] BY DEF Update!Read
<1>3. Shape(F, H, 1 + 2 * n, c) OBVIOUS
<1> HIDE DEF c, R
<1>4. PICK N \in Nat : N = Len(F) OBVIOUS
<1>5. HeadLen(F) = 2 + 2 * N BY <1>4 DEF HeadLen
<1>6. c[1] = -2 /\ <<"hmac", r, R>> = c[2]
  <2>1. Update!Garbled(0)[1] = "garbled" BY DEF Update!Garbled
  <2>2. <<"hmac", r, R>>[1] = "hmac" OBVIOUS
  <2> QED BY <2>1, <2>2, <1>1 DEF DigestIn
<1>7. n = N
  <2>1. 1 + 2 * n # 0 OBVIOUS
  <2>2. ~(1 + 2 * n \in 1 .. N) BY <1>3, <1>4, <1>6 DEF Shape
  <2>3. ~(1 + 2 * n \in N + 1 .. 2 * N) BY <1>3, <1>4, <1>6 DEF Shape
  <2>4. ~(1 + 2 * n >= 2 + 2 * N) BY <1>3, <1>4, <1>5, <1>6 DEF Shape
  <2>5. 1 + 2 * n = 2 * N + 1
    <3>1. 1 + 2 * n \in Nat OBVIOUS
    <3> QED BY <2>1, <2>2, <2>3, <2>4, <3>1, <1>4, CellCases
  <2> QED BY <2>5
<1>8. c = Update!Sum(c[2]) /\ c[2] = H[HeadLen(F)][2]
  <2>1. 1 + 2 * n = 2 * Len(F) + 1 BY <1>4, <1>7
  <2>2. c = Update!Sum(c[2]) /\ (c[2] = H[HeadLen(F)][2] \/ c[2][1] = "garbled")
    BY <2>1, <1>3 DEF Shape
  <2>3. c[2][1] = "hmac" BY <1>6
  <2> QED BY <2>2, <2>3
<1>9. PICK T : /\ T = [u \in 1 .. 1 + 2 * N |-> H[u]]
               /\ H[HeadLen(F)] = Update!Sum(Update!sha1_hmac(k, T))
  BY <1>4 DEF HeaderOf
<1>10. H[HeadLen(F)] = c /\ <<"hmac", r, R>> = <<"hmac", k, T>>
  <2>0. H[HeadLen(F)] = <<-2, <<"hmac", k, T>>>>
    <3>1. H[HeadLen(F)] = Update!Sum(Update!sha1_hmac(k, T)) BY <1>9
    <3> QED BY <3>1 DEF Update!Sum, Update!sha1_hmac
  <2>1. H[HeadLen(F)][2] = <<"hmac", k, T>> BY <2>0
  <2>2. H[HeadLen(F)] = Update!Sum(H[HeadLen(F)][2]) BY <2>0 DEF Update!Sum
  <2> QED BY <2>1, <2>2, <1>6, <1>8
<1>11. r = k /\ R = T BY <1>10
<1>12. ASSUME NEW u \in 0 .. 2 * N PROVE u \in DOMAIN p /\ p[u] = H[u + 1]
  <2>1. u + 1 \in 1 .. 1 + 2 * N /\ 0 + (u + 1) - 1 = u OBVIOUS
  <2>2. R[u + 1] = p[u] BY <2>1, <1>2, <1>7
  <2>3. T[u + 1] = H[u + 1] BY <2>1, <1>9
  <2>4. u \in 0 .. e - 1 BY <1>7
  <2> QED BY <2>2, <2>3, <2>4, <1>11
<1>13. 2 * n + 1 \in DOMAIN p /\ p[2 * n + 1] = c
  <2>1. 2 * n + 1 \in 0 .. e - 1 /\ 2 * n + 1 = 1 + 2 * n OBVIOUS
  <2> QED BY <2>1 DEF c
<1> QED BY <1>4, <1>7, <1>10, <1>11, <1>12, <1>13 DEF Intact

\* The digest of tables that were left alone.
LEMMA HeaderReads ==
    ASSUME NEW F \in Seq(PupFile), NEW k, NEW H, HeaderOf(F, k, H), NEW p,
           \A u \in 0 .. 2 * Len(F) + 1 : p[u] = H[u + 1]
    PROVE  /\ p[0][2] = Len(F)
           /\ DigestIn(p[1 + 2 * Len(F)]) =
                 Update!sha1_hmac(k, Update!Read(p, 0, 1 + 2 * Len(F)))
<1>1. PICK N \in Nat : N = Len(F) OBVIOUS
<1>2. p[0][2] = N
  <2>1. 0 \in 0 .. 2 * N + 1 /\ 0 + 1 = 1 OBVIOUS
  <2>2. p[0] = H[1] BY <2>1, <1>1
  <2> QED BY <2>2, <1>1 DEF HeaderOf, Update!Magic
<1>3. PICK T : /\ T = [u \in 1 .. 1 + 2 * N |-> H[u]]
               /\ H[HeadLen(F)] = Update!Sum(Update!sha1_hmac(k, T))
  BY <1>1 DEF HeaderOf
<1>4. p[1 + 2 * N] = H[HeadLen(F)]
  <2>1. 1 + 2 * N \in 0 .. 2 * N + 1 /\ 1 + 2 * N + 1 = 2 + 2 * N OBVIOUS
  <2> QED BY <2>1, <1>1 DEF HeadLen
<1>5. DigestIn(p[1 + 2 * N]) = Update!sha1_hmac(k, T)
  BY <1>3, <1>4 DEF DigestIn, Update!Sum
<1>6. Update!Read(p, 0, 1 + 2 * N) = T
  <2>1. Update!Read(p, 0, 1 + 2 * N) = [u \in 1 .. 1 + 2 * N |-> p[0 + u - 1]] BY DEF Update!Read
  <2>2. ASSUME NEW u \in 1 .. 1 + 2 * N PROVE p[0 + u - 1] = H[u]
    <3>1. u - 1 \in 0 .. 2 * N + 1 /\ 0 + u - 1 = u - 1 /\ u - 1 + 1 = u OBVIOUS
    <3> QED BY <3>1, <1>1
  <2> QED BY <2>1, <2>2, <1>3
<1> QED BY <1>1, <1>2, <1>5, <1>6

\* check_hmac of a digest that some key made.
LEMMA CheckIs ==
    ASSUME NEW h, NEW s
    PROVE  Update!check_hmac(h, s) \in Update!Verdicts
BY DEF Update!check_hmac, Update!Verdicts

LEMMA VerifyStep == PupInv /\ Update!VerifyHdr => PupInv'
<1> SUFFICES ASSUME PupInv, Update!VerifyHdr PROVE PupInv' OBVIOUS
<1>1. /\ u_pc = "verify" /\ u_t' = 1
      /\ UNCHANGED <<u_input, u_keys, u_files, u_pup, u_made, u_damage, u_hmac_res, u_out>>
  BY DEF Update!VerifyHdr, Update!packer, Update!Goto
<1>2. /\ Laid(u_files, u_input) /\ Unread /\ 0 \in DOMAIN u_pup
      /\ Stored(u_files, Update!Header, u_pup, u_made, u_damage = 0)
  BY <1>1 DEF PupInv, Packing, Writing, Keeping, Unpacking
<1>3. Typed /\ Typed' BY <1>1 DEF PupInv, Typed
<1>0. PICK F \in Seq(PupFile) : F = u_files BY <1>3 DEF Typed
<1>4. PICK H, p, w : F = u_files /\ H = Update!Header /\ p = u_pup /\ w = u_made BY <1>0
<1>5. Update!Header' = H /\ HeaderOf(F, u_keys.pack, H) BY <1>1, <1>4, HeaderKept, HeaderIs
<1>6. Stored(F, H, p, w, u_damage = 0) /\ Follow(F) BY <1>2, <1>4 DEF Laid
<1>7. Stored(u_files', Update!Header', u_pup', u_made', u_damage' = 0) /\ Laid(u_files', u_input')
  BY <1>1, <1>2, <1>4, <1>5
<1>8. PICK e \in 0 .. EndOf(F, Len(F)) :
        Mapping(p, e) /\ (w # <<>> => e = EndOf(F, Len(F)))
  BY <1>6 DEF Stored
<1>9. DOMAIN p = 0 .. e - 1 /\ e \in Nat /\ Update!Size(p) = e
  <2>1. DOMAIN p = 0 .. e - 1 /\ e \in Nat BY <1>8 DEF Mapping
  <2> QED BY <2>1, PupSize
<1>10. PICK n \in Nat : n = p[0][2]
  <2>1. Shape(F, H, 0, p[0]) BY <1>2, <1>4, <1>6 DEF Stored
  <2> QED BY <2>1 DEF Shape
<1>11. PICK N \in Nat : N = Len(F) OBVIOUS
<1>12. Update!Mapped(0, 2 + 2 * n) <=> 2 + 2 * n <= e
  BY <1>4, <1>9 DEF Update!Mapped
<1>13. \A u \in 0 .. e - 1 : Shape(F, H, u, p[u]) BY <1>6, <1>9 DEF Stored
<1>14. u_hmac_res' = <<>> /\ u_out' = <<>> /\ u_hdr_hmac = "none" BY <1>1, <1>2 DEF Unread
<1>15. Extracted(u_files', u_keys', u_pup', u_hmac_res', u_out')
  BY <1>1, <1>4, <1>14, NothingExtracted
<1>16. ASSUME w # <<>>, u_damage = 0
       PROVE  /\ n = N /\ 2 + 2 * n <= e
              /\ DigestIn(p[1 + 2 * n]) = Update!sha1_hmac(u_keys.pack, Update!Read(p, 0, 1 + 2 * n))
  <2>1. e = EndOf(F, N) /\ 2 + 2 * N <= e BY <1>6, <1>8, <1>11, <1>16, WholeLength
  <2>2. \A u \in 0 .. 2 * N + 1 : p[u] = H[u + 1]
    <3> SUFFICES ASSUME NEW u \in 0 .. 2 * N + 1 PROVE p[u] = H[u + 1] OBVIOUS
    <3>1. u \in DOMAIN p /\ u < HeadLen(F) BY <2>1, <1>9, <1>11 DEF HeadLen
    <3>2. Original(F, H, u, p[u]) BY <3>1, <1>6, <1>16 DEF Stored
    <3> QED BY <3>1, <3>2 DEF Original
  <2>3. p[0][2] = N /\ DigestIn(p[1 + 2 * N]) =
                          Update!sha1_hmac(u_keys.pack, Update!Read(p, 0, 1 + 2 * N))
    BY <2>2, <1>5, <1>11, HeaderReads
  <2> QED BY <2>1, <2>3, <1>10
<1>17. CASE /\ 2 + 2 * n <= e /\ u_pc' = "sections"
            /\ u_hdr_hmac' = Update!check_hmac(DigestIn(p[1 + 2 * n]), Update!Read(p, 0, 1 + 2 * n))
  <2>1. u_hdr_hmac' \in Update!Verdicts BY <1>17, CheckIs
  <2>2. ASSUME u_hdr_hmac' = "OK"
        PROVE  /\ Intact(F, H, p) /\ 2 * N + 1 \in DOMAIN p /\ p[2 * N + 1] = H[HeadLen(F)]
               /\ Verdict(u_keys, TRUE) = "OK"
    <3>1. /\ u_keys.unpack # PupNoKey
          /\ Update!sha1_hmac(u_keys.unpack, Update!Read(p, 0, 1 + 2 * n)) = DigestIn(p[1 + 2 * n])
      BY <2>2, <1>17 DEF Update!check_hmac
    <3>2. /\ n = Len(F) /\ u_keys.unpack = u_keys.pack /\ Intact(F, H, p)
          /\ 2 * n + 1 \in DOMAIN p /\ p[2 * n + 1] = H[HeadLen(F)]
      BY <3>1, <1>5, <1>9, <1>13, <1>17, HeaderVouches
    <3> QED BY <3>1, <3>2, <1>11 DEF Verdict
  <2>3. ASSUME w # <<>>, u_damage = 0 PROVE u_hdr_hmac' = Verdict(u_keys, TRUE)
    <3>1. PICK R : R = Update!Read(p, 0, 1 + 2 * n) OBVIOUS
    <3>2. u_hdr_hmac' = Update!check_hmac(Update!sha1_hmac(u_keys.pack, R), R)
      BY <3>1, <2>3, <1>16, <1>17
    <3>3. Update!sha1_hmac(u_keys.unpack, R) = Update!sha1_hmac(u_keys.pack, R)
            <=> u_keys.unpack = u_keys.pack
      BY DEF Update!sha1_hmac
    <3> QED BY <3>2, <3>3 DEF Update!check_hmac, Verdict
  <2>4. /\ u_pc' \in {"sections", "done"} => 0 \in DOMAIN u_pup'
        /\ u_pc' = "sections" => u_t' = Len(u_hmac_res') + 1 /\ Len(u_hmac_res') <= u_pup'[0][2]
    BY <1>1, <1>2, <1>4, <1>10, <1>14
  <2>5. /\ u_hdr_hmac' = "OK" =>
              /\ Intact(u_files', Update!Header', u_pup')
              /\ 2 * Len(u_files') + 1 \in DOMAIN u_pup'
              /\ u_pup'[2 * Len(u_files') + 1] = Update!Header'[HeadLen(u_files')]
              /\ Verdict(u_keys', TRUE) = "OK"
        /\ u_made' # <<>> /\ u_damage' = 0 => u_hdr_hmac' = Verdict(u_keys', TRUE)
    BY <2>2, <2>3, <1>1, <1>4, <1>5, <1>11
  <2>6. u_hmac_res' \in Seq(Update!Verdicts) BY <1>14
  <2>7. Judged' BY <2>1, <2>4, <2>5, <2>6, <1>15, <1>17 DEF Judged
  <2> QED BY <2>7, <1>3, <1>7, <1>17 DEF PupInv, Unpacking
<1>18. CASE ~(2 + 2 * n <= e) /\ u_pc' = "undefined" /\ UNCHANGED u_hdr_hmac
  <2>1. ~(w # <<>> /\ u_damage = 0) BY <1>16, <1>18
  <2>2. Judged'
    <3>1. u_hmac_res' \in Seq(Update!Verdicts) /\ u_hdr_hmac' = "none" BY <1>14, <1>18
    <3>2. ~(u_made' # <<>> /\ u_damage' = 0) BY <2>1, <1>1, <1>4
    <3> QED BY <3>1, <3>2, <1>15, <1>18 DEF Judged
  <2> QED BY <2>2, <1>3, <1>7, <1>18 DEF PupInv, Unpacking
<1>19. \/ /\ Update!Mapped(0, 2 + 2 * n) /\ u_pc' = "sections"
          /\ u_hdr_hmac' = Update!check_hmac(DigestIn(p[1 + 2 * n]), Update!Read(p, 0, 1 + 2 * n))
       \/ ~Update!Mapped(0, 2 + 2 * n) /\ u_pc' = "undefined" /\ UNCHANGED u_hdr_hmac
  BY <1>4, <1>10 DEF Update!VerifyHdr, Update!Goto, Update!n_sections, Update!Covered, DigestIn
<1> QED BY <1>12, <1>17, <1>18, <1>19

-----------------------------------------------------------------------------
(* The sections. *)

\* No two files have one name.
LEMMA NamesApart ==
    ASSUME NEW F \in Seq(PupFile), NEW d, Found(F, d, Len(PupNames)),
           NEW a \in 1 .. Len(F), NEW b \in 1 .. Len(F), F[a].name = F[b].name
    PROVE  a = b
<1>1. PICK m \in 1 .. Len(PupNames) :
         m \in DOMAIN PupNames /\ F[a].id = Update!Id(m) /\ F[a].name = PupNames[m]
  BY DEF Found
<1>2. PICK l \in 1 .. Len(PupNames) :
         l \in DOMAIN PupNames /\ F[b].id = Update!Id(l) /\ F[b].name = PupNames[l]
  BY DEF Found
<1>3. m = l BY <1>1, <1>2, UpdateAssumption DEF Update!NamesAssumption
<1>4. F[a].id = F[b].id /\ F[a].id \in Nat BY <1>1, <1>2, <1>3, FileIs
<1>5. ~(F[a].id < F[b].id) /\ ~(F[b].id < F[a].id) BY <1>4
<1>6. ~(a < b) /\ ~(b < a) BY <1>5 DEF Found
<1> QED BY <1>6, FileIs

\* The id of a file gives its name back.
LEMMA IdNames ==
    ASSUME NEW F \in Seq(PupFile), NEW d, Found(F, d, Len(PupNames)), NEW a \in 1 .. Len(F)
    PROVE  /\ Update!KnownId(F[a].id) /\ Update!NameOf(F[a].id) = F[a].name
           /\ F[a].name \in DOMAIN d /\ F[a].len = d[F[a].name]
<1>1. PICK m \in 1 .. Len(PupNames) :
         /\ m \in DOMAIN PupNames /\ PupNames[m] \in DOMAIN d /\ F[a].len = d[PupNames[m]]
         /\ F[a].id = Update!Id(m) /\ F[a].name = PupNames[m]
  BY DEF Found
<1>2. Update!KnownId(F[a].id) BY <1>1 DEF Update!KnownId
<1>3. Update!NameOf(F[a].id) = PupNames[m]
  <2>1. F[a].id = 256 + m /\ (256 + m) - 256 = m BY <1>1 DEF Update!Id
  <2> QED BY <2>1 DEF Update!NameOf
<1> QED BY <1>1, <1>2, <1>3

\* What an intact table says of section a.
LEMMA SectionReads ==
    ASSUME NEW F \in Seq(PupFile), NEW k, NEW H, HeaderOf(F, k, H), Intact(F, H, u_pup),
           NEW a \in 1 .. Len(F)
    PROVE  /\ u_pup[a] = <<F[a].id, F[a].offset, F[a].len>>
           /\ Update!find_hmac(a) # {}
           /\ \A u \in Update!find_hmac(a) :
                 u_pup[u][2] = Update!sha1_hmac(k, Update!File(F[a].name, F[a].len))
<1>1. PICK N \in Nat : N = Len(F) OBVIOUS
<1>2. PICK p : p = u_pup OBVIOUS
<1>3. \A u \in 0 .. 2 * N : p[u] = H[u + 1] BY <1>1, <1>2 DEF Intact
<1>4. p[0][2] = N
  <2>1. p[0] = H[0 + 1] /\ 0 + 1 = 1 BY <1>3
  <2> QED BY <2>1, <1>1 DEF HeaderOf, Update!Magic
<1>5. p[a] = <<F[a].id, F[a].offset, F[a].len>>
  <2>1. a \in 0 .. 2 * N BY <1>1
  <2>2. H[a + 1] = <<F[a].id, F[a].offset, F[a].len>> BY HeadIs
  <2> QED BY <2>1, <2>2, <1>3
<1>6. \A m \in 1 .. N : /\ p[N + m][1] = m - 1
                        /\ p[N + m][2] = Update!sha1_hmac(k, Update!File(F[m].name, F[m].len))
  <2> SUFFICES ASSUME NEW m \in 1 .. N
               PROVE  /\ p[N + m][1] = m - 1
                      /\ p[N + m][2] = Update!sha1_hmac(k, Update!File(F[m].name, F[m].len))
    OBVIOUS
  <2>1. N + m \in 0 .. 2 * N OBVIOUS
  <2>2. H[N + m + 1] = <<m - 1, <<"hmac", k, Update!File(F[m].name, F[m].len)>>>>
    BY <1>1, HeadIs
  <2> QED BY <2>1, <2>2, <1>3 DEF Update!sha1_hmac
<1>7. Update!find_hmac(a) =
        {u \in 1 + N .. 2 * N : p[u][1] = a - 1 /\ \A v \in 1 + N .. u - 1 : p[v][1] # a - 1}
  BY <1>2, <1>4 DEF Update!find_hmac, Update!n_sections
<1>8. \A u \in 1 + N .. 2 * N : p[u][1] = u - N - 1
  <2> SUFFICES ASSUME NEW u \in 1 + N .. 2 * N PROVE p[u][1] = u - N - 1 OBVIOUS
  <2>1. u - N \in 1 .. N /\ N + (u - N) = u OBVIOUS
  <2> QED BY <2>1, <1>6
<1>9. N + a \in Update!find_hmac(a)
  <2>1. N + a \in 1 + N .. 2 * N /\ p[N + a][1] = a - 1 BY <1>1, <1>6
  <2>2. ASSUME NEW v \in 1 + N .. N + a - 1 PROVE p[v][1] # a - 1
    <3>1. v \in 1 + N .. 2 * N /\ v - N - 1 # a - 1 BY <1>1
    <3> QED BY <3>1, <1>8
  <2> QED BY <2>1, <2>2, <1>7
<1>10. ASSUME NEW u \in Update!find_hmac(a)
       PROVE  p[u][2] = Update!sha1_hmac(k, Update!File(F[a].name, F[a].len))
  <2>1. u \in 1 + N .. 2 * N /\ p[u][1] = a - 1 BY <1>7
  <2>2. u = N + a BY <2>1, <1>1, <1>8
  <2> QED BY <2>2, <1>1, <1>6
<1> QED BY <1>2, <1>5, <1>9, <1>10

LEMMA ExtractMore ==
    ASSUME NEW F \in Seq(PupFile), NEW d, Found(F, d, Len(PupNames)), NEW k, NEW p, NEW o,
           NEW res \in Seq(Update!Verdicts), Extracted(F, k, p, res, o),
           NEW t \in 1 .. Len(F), Len(res) = t - 1, NEW r, NEW v \in Update!Verdicts,
           r = Update!Read(p, F[t].offset, F[t].len),
           v = Verdict(k, r = Update!File(F[t].name, F[t].len)),
           NEW q, q = Plus(o, F[t].name, r)
    PROVE  Extracted(F, k, p, Append(res, v), q)
<1>1. PICK s : s = Append(res, v) OBVIOUS
<1>2. Len(s) = t /\ s[t] = v /\ \A m \in 1 .. t - 1 : s[m] = res[m]
  <2>1. /\ Len(s) = Len(res) + 1 /\ s[Len(res) + 1] = v
        /\ \A m \in 1 .. Len(res) : s[m] = res[m]
    BY <1>1, AppendProperties
  <2>2. Len(res) + 1 = t OBVIOUS
  <2> QED BY <2>1, <2>2
<1>3. DOMAIN o = {F[m].name : m \in 1 .. t - 1} BY DEF Extracted
<1>4. \A m \in 1 .. t : m \in 1 .. t - 1 \/ m = t OBVIOUS
<1>5. DOMAIN q = {F[m].name : m \in 1 .. Len(s)}
  <2>1. DOMAIN q = DOMAIN o \cup {F[t].name} BY DEF Plus
  <2>2. {F[m].name : m \in 1 .. t} = {F[m].name : m \in 1 .. t - 1} \cup {F[t].name}
    <3>1. t \in 1 .. t /\ \A m \in 1 .. t - 1 : m \in 1 .. t OBVIOUS
    <3> QED BY <3>1, <1>4
  <2> QED BY <2>1, <2>2, <1>2, <1>3
<1>6. q = [f \in {F[m].name : m \in 1 .. Len(s)} |-> q[f]]
  <2>1. q = [f \in DOMAIN q |-> q[f]] BY DEF Plus
  <2> HIDE DEF Extracted
  <2> QED BY <2>1, <1>5
<1>7. ASSUME NEW m \in 1 .. Len(s)
      PROVE  /\ q[F[m].name] = Update!Read(p, F[m].offset, F[m].len)
             /\ s[m] = Verdict(k, q[F[m].name] = Update!File(F[m].name, F[m].len))
  <2>0. F[m].name \in DOMAIN q /\ q[F[m].name] = IF F[m].name = F[t].name THEN r ELSE o[F[m].name]
    <3>1. F[m].name \in DOMAIN q BY <1>5
    <3> QED BY <3>1 DEF Plus
  <2>1. CASE m = t
    <3>1. q[F[t].name] = r BY <2>0, <2>1
    <3> QED BY <3>1, <2>1, <1>2
  <2>2. CASE m \in 1 .. t - 1
    <3>1. F[m].name # F[t].name
      <4>1. m \in 1 .. Len(F) /\ m # t BY <2>2, FileIs
      <4> QED BY <4>1, NamesApart
    <3>2. q[F[m].name] = o[F[m].name] /\ s[m] = res[m] BY <2>0, <2>2, <3>1, <1>2
    <3>3. /\ o[F[m].name] = Update!Read(p, F[m].offset, F[m].len)
          /\ res[m] = Verdict(k, o[F[m].name] = Update!File(F[m].name, F[m].len))
      BY <2>2 DEF Extracted
    <3> QED BY <3>2, <3>3
  <2> QED BY <2>1, <2>2, <1>2, <1>4
<1>8. Len(s) <= Len(F) BY <1>2, FileIs
<1>9. Extracted(F, k, p, s, q) BY <1>6, <1>7, <1>8 DEF Extracted
<1> QED BY <1>1, <1>9

\* What check_hmac says of a digest under the packer's key.
LEMMA CheckFile ==
    ASSUME NEW s, NEW r
    PROVE  Update!check_hmac(Update!sha1_hmac(u_keys.pack, s), r) = Verdict(u_keys, r = s)
<1>1. Update!sha1_hmac(u_keys.unpack, r) = Update!sha1_hmac(u_keys.pack, s)
        <=> u_keys.unpack = u_keys.pack /\ r = s
  BY DEF Update!sha1_hmac
<1> QED BY <1>1 DEF Update!check_hmac, Verdict

LEMMA SectionStep == PupInv /\ Update!DoSection => PupInv'
<1> SUFFICES ASSUME PupInv, Update!DoSection PROVE PupInv' OBVIOUS
<1>1. /\ u_pc = "sections" /\ u_t <= u_pup[0][2]
      /\ UNCHANGED <<u_input, u_keys, u_files, u_pup, u_made, u_damage, u_hdr_hmac>>
  BY DEF Update!DoSection, Update!packer, Update!n_sections
<1>2. Laid(u_files, u_input) /\ Stored(u_files, Update!Header, u_pup, u_made, u_damage = 0) /\ Judged
  BY <1>1 DEF PupInv, Packing, Writing, Keeping, Unpacking
<1>3. Typed BY DEF PupInv
<1>0. PICK F \in Seq(PupFile) : F = u_files BY <1>3 DEF Typed
<1>4. PICK H, p, w : F = u_files /\ H = Update!Header /\ p = u_pup /\ w = u_made BY <1>0
<1>5. Update!Header' = H /\ HeaderOf(F, u_keys.pack, H) BY <1>1, <1>4, HeaderKept, HeaderIs
<1>6. Stored(F, H, p, w, u_damage = 0) /\ Follow(F) /\ Found(F, u_input, Len(PupNames))
  BY <1>2, <1>4 DEF Laid
<1>7. Stored(u_files', Update!Header', u_pup', u_made', u_damage' = 0) /\ Laid(u_files', u_input')
  BY <1>1, <1>2, <1>4, <1>5
<1>8. PICK t \in Nat \ {0} : t = u_t BY <1>3 DEF Typed
<1>9. PICK N \in Nat : N = Len(F) OBVIOUS
<1>10. PICK id, at, len : id = p[t][1] /\ at = p[t][2] /\ len = p[t][3] OBVIOUS
<1>11. Intact(F, H, p) =>
         /\ t \in 1 .. N /\ id = F[t].id /\ at = F[t].offset /\ len = F[t].len
         /\ Update!find_hmac(t) # {} /\ Update!KnownId(id) /\ Update!NameOf(id) = F[t].name
         /\ \A u \in Update!find_hmac(t) :
               p[u][2] = Update!sha1_hmac(u_keys.pack, Update!File(F[t].name, F[t].len))
  <2> SUFFICES ASSUME Intact(F, H, p)
               PROVE  /\ t \in 1 .. N /\ id = F[t].id /\ at = F[t].offset /\ len = F[t].len
                      /\ Update!find_hmac(t) # {} /\ Update!KnownId(id) /\ Update!NameOf(id) = F[t].name
                      /\ \A u \in Update!find_hmac(t) :
                            p[u][2] = Update!sha1_hmac(u_keys.pack, Update!File(F[t].name, F[t].len))
    OBVIOUS
  <2>1. p[0][2] = N
    <3>1. 0 \in 0 .. 2 * N /\ 0 + 1 = 1 OBVIOUS
    <3>2. p[0] = H[0 + 1] BY <3>1, <1>9 DEF Intact
    <3> QED BY <3>1, <3>2, <1>5, <1>9 DEF HeaderOf, Update!Magic
  <2>2. t \in 1 .. N BY <2>1, <1>1, <1>4, <1>8
  <2>3. /\ p[t] = <<F[t].id, F[t].offset, F[t].len>>
        /\ Update!find_hmac(t) # {}
        /\ \A u \in Update!find_hmac(t) :
              p[u][2] = Update!sha1_hmac(u_keys.pack, Update!File(F[t].name, F[t].len))
    BY <2>2, <1>4, <1>5, <1>9, SectionReads
  <2>4. Update!KnownId(F[t].id) /\ Update!NameOf(F[t].id) = F[t].name
    BY <2>2, <1>6, <1>9, IdNames
  <2> QED BY <2>2, <2>3, <2>4, <1>10
<1>12. /\ u_hdr_hmac \in Update!Verdicts \cup {"none"} /\ u_hmac_res \in Seq(Update!Verdicts)
       /\ 0 \in DOMAIN u_pup /\ t = Len(u_hmac_res) + 1
       /\ Intact(F, H, p) => Extracted(F, u_keys, p, u_hmac_res, u_out)
       /\ w # <<>> /\ u_damage = 0 => u_hdr_hmac \in {"none", Verdict(u_keys, TRUE)}
  BY <1>1, <1>2, <1>4, <1>8 DEF Judged
<1>13. /\ u_hdr_hmac' = "OK" =>
              /\ Intact(u_files', Update!Header', u_pup')
              /\ 2 * Len(u_files') + 1 \in DOMAIN u_pup'
              /\ u_pup'[2 * Len(u_files') + 1] = Update!Header'[HeadLen(u_files')]
              /\ Verdict(u_keys', TRUE) = "OK"
       /\ u_made' # <<>> /\ u_damage' = 0 => u_hdr_hmac' \in {"none", Verdict(u_keys', TRUE)}
       /\ u_hdr_hmac' \in Update!Verdicts \cup {"none"}
  <2>1. u_hdr_hmac = "OK" =>
              /\ Intact(F, H, p) /\ 2 * Len(F) + 1 \in DOMAIN p
              /\ p[2 * Len(F) + 1] = H[HeadLen(F)] /\ Verdict(u_keys, TRUE) = "OK"
    BY <1>2, <1>4 DEF Judged
  <2> QED BY <2>1, <1>1, <1>4, <1>5, <1>12
<1>14. CASE u_pc' \in {"failed", "crashed"} /\ u_t' = 1 /\ UNCHANGED <<u_hmac_res, u_out>>
  <2>1. Typed' BY <1>1, <1>3, <1>14 DEF Typed
  <2>2. Intact(u_files', Update!Header', u_pup')
           => Extracted(u_files', u_keys', u_pup', u_hmac_res', u_out')
    BY <1>1, <1>4, <1>5, <1>12, <1>14
  <2>3. u_hmac_res' \in Seq(Update!Verdicts) BY <1>12, <1>14
  <2>4. Judged' BY <2>2, <2>3, <1>13, <1>14 DEF Judged
  <2> QED BY <2>1, <2>4, <1>7, <1>14 DEF PupInv, Unpacking
<1>15. CASE ~Update!Mapped(at, len) /\ u_pc' = "undefined" /\ u_t' = 1
            /\ UNCHANGED <<u_hmac_res, u_out>>
  <2>1. Typed' BY <1>1, <1>3, <1>15 DEF Typed
  <2>2. Intact(u_files', Update!Header', u_pup')
           => Extracted(u_files', u_keys', u_pup', u_hmac_res', u_out')
    BY <1>1, <1>4, <1>5, <1>12, <1>15
  <2>3. u_hmac_res' \in Seq(Update!Verdicts) BY <1>12, <1>15
  <2>4. ~(w # <<>> /\ u_damage = 0)
    <3> SUFFICES ASSUME w # <<>>, u_damage = 0 PROVE FALSE OBVIOUS
    <3>1. PICK e \in Nat : e = EndOf(F, N) /\ 2 + 2 * N <= e BY <1>6, <1>9, WholeLength
    <3>2. Mapping(p, e) BY <3>1, <1>6, <1>9 DEF Stored
    <3>3. DOMAIN p = 0 .. e - 1 BY <3>2 DEF Mapping
    <3>4. Update!Size(u_pup) = e BY <3>3, <1>4, PupSize
    <3>5. Intact(F, H, p)
      <4> SUFFICES ASSUME NEW u \in 0 .. 2 * N PROVE u \in DOMAIN p /\ p[u] = H[u + 1]
        BY <1>9 DEF Intact
      <4>1. u \in DOMAIN p /\ u < HeadLen(F) BY <3>1, <3>3, <1>9 DEF HeadLen
      <4>2. Original(F, H, u, p[u]) BY <4>1, <1>6 DEF Stored
      <4> QED BY <4>1, <4>2 DEF Original
    <3>6. t \in 1 .. N /\ at = F[t].offset /\ len = F[t].len BY <3>5, <1>11
    <3>7. PICK x \in Nat, l \in Nat : x = F[t].offset /\ l = F[t].len BY <3>6, <1>9, FileIs
    <3>8. EndOf(F, t) = x + l /\ EndOf(F, t) <= e
      <4>1. t # 0 /\ t \in 0 .. Len(F) BY <3>6, <1>9
      <4> QED BY <4>1, <3>1, <3>7, <1>6, <1>9, EndGrows DEF EndOf
    <3>9. Update!Mapped(at, len)
      <4>1. Update!Mapped(at, len) <=> (len = 0 \/ (at >= 0 /\ at + len <= Update!Size(u_pup)))
        BY DEF Update!Mapped
      <4> QED BY <4>1, <3>1, <3>4, <3>6, <3>7, <3>8
    <3> QED BY <3>9, <1>15
  <2>5. ~(u_made' # <<>> /\ u_damage' = 0) BY <2>4, <1>1, <1>4
  <2>6. Judged' BY <2>2, <2>3, <2>5, <1>13, <1>15 DEF Judged
  <2> QED BY <2>1, <2>6, <1>7, <1>15 DEF PupInv, Unpacking
<1>16. ASSUME NEW u \in Update!find_hmac(t), u_t' = u_t + 1, UNCHANGED u_pc,
              u_hmac_res' = Append(u_hmac_res, Update!check_hmac(p[u][2], Update!Read(p, at, len))),
              u_out' = [f \in DOMAIN u_out \cup {Update!NameOf(id)} |->
                           IF f = Update!NameOf(id) THEN Update!Read(p, at, len) ELSE u_out[f]]
       PROVE  PupInv'
  <2>1. u_t' = t + 1 /\ u_t' \in Nat \ {0} BY <1>8, <1>16
  <2>2. Typed' BY <2>1, <1>1, <1>3 DEF Typed
  <2>3. PICK r, v : r = Update!Read(p, at, len) /\ v = Update!check_hmac(p[u][2], r) OBVIOUS
  <2>4. v \in Update!Verdicts BY <2>3, CheckIs
  <2>5. u_hmac_res' = Append(u_hmac_res, v) BY <2>3, <1>16
  <2>6. u_hmac_res' \in Seq(Update!Verdicts) /\ Len(u_hmac_res') = Len(u_hmac_res) + 1
    BY <2>4, <2>5, <1>12, AppendProperties
  <2>7. ASSUME Intact(F, H, p) PROVE Extracted(F, u_keys, p, u_hmac_res', u_out')
    <3>1. /\ t \in 1 .. N /\ at = F[t].offset /\ len = F[t].len /\ Update!NameOf(id) = F[t].name
          /\ p[u][2] = Update!sha1_hmac(u_keys.pack, Update!File(F[t].name, F[t].len))
      BY <2>7, <1>11
    <3>2. v = Verdict(u_keys, r = Update!File(F[t].name, F[t].len)) BY <3>1, <2>3, CheckFile
    <3>3. r = Update!Read(p, F[t].offset, F[t].len) BY <3>1, <2>3
    <3>4. PICK q : q = u_out' OBVIOUS
    <3>5. q = Plus(u_out, F[t].name, r) BY <3>1, <3>4, <2>3, <1>16 DEF Plus
    <3>6. t \in 1 .. Len(F) /\ Len(u_hmac_res) = t - 1
      <4>1. Len(u_hmac_res) \in Nat BY <1>12, LenProperties
      <4> QED BY <4>1, <3>1, <1>9, <1>12
    <3>7. PICK k, res, o : k = u_keys /\ res = u_hmac_res /\ o = u_out OBVIOUS
    <3>10. res \in Seq(Update!Verdicts) BY <3>7, <1>12
    <3>8. /\ v = Verdict(k, r = Update!File(F[t].name, F[t].len)) /\ q = Plus(o, F[t].name, r)
          /\ t \in 1 .. Len(F) /\ Len(res) = t - 1 /\ Extracted(F, k, p, res, o)
      BY <3>2, <3>5, <3>6, <3>7, <2>7, <1>12
    <3>9. Extracted(F, k, p, Append(res, v), q)
      BY <3>3, <3>8, <3>10, <2>4, <1>6, ExtractMore
    <3> QED BY <3>4, <3>7, <3>9, <2>5
  <2>8. Intact(u_files', Update!Header', u_pup')
           => Extracted(u_files', u_keys', u_pup', u_hmac_res', u_out')
    BY <2>7, <1>1, <1>4, <1>5
  <2>9. /\ 0 \in DOMAIN u_pup' /\ u_t' = Len(u_hmac_res') + 1 /\ Len(u_hmac_res') <= u_pup'[0][2]
        /\ u_pc' = "sections"
    BY <2>1, <2>6, <1>1, <1>8, <1>12, <1>16
  <2>10. Judged' BY <2>6, <2>8, <2>9, <1>13 DEF Judged
  <2> QED BY <2>2, <2>9, <2>10, <1>7 DEF PupInv, Unpacking
<1>17. \/ u_pc' \in {"failed", "crashed"} /\ u_t' = 1 /\ UNCHANGED <<u_hmac_res, u_out>>
       \/ /\ ~Update!Mapped(at, len) /\ u_pc' = "undefined" /\ u_t' = 1
          /\ UNCHANGED <<u_hmac_res, u_out>>
       \/ \E u \in Update!find_hmac(t) :
            /\ u_t' = u_t + 1 /\ UNCHANGED u_pc
            /\ u_hmac_res' = Append(u_hmac_res, Update!check_hmac(p[u][2], Update!Read(p, at, len)))
            /\ u_out' = [f \in DOMAIN u_out \cup {Update!NameOf(id)} |->
                            IF f = Update!NameOf(id) THEN Update!Read(p, at, len) ELSE u_out[f]]
  BY <1>4, <1>8, <1>10 DEF Update!DoSection, Update!Goto
<1> QED BY <1>14, <1>15, <1>16, <1>17

LEMMA DoneStep == PupInv /\ Update!Done => PupInv'
<1> SUFFICES ASSUME PupInv, Update!Done PROVE PupInv' OBVIOUS
<1>1. /\ u_pc = "sections" /\ u_t > u_pup[0][2] /\ u_pc' = "done" /\ u_t' = 1
      /\ UNCHANGED <<u_input, u_keys, u_files, u_pup, u_made, u_damage,
                     u_hdr_hmac, u_hmac_res, u_out>>
  BY DEF Update!Done, Update!packer, Update!unpacker, Update!n_sections, Update!Goto
<1>2. Laid(u_files, u_input) /\ Stored(u_files, Update!Header, u_pup, u_made, u_damage = 0) /\ Judged
  BY <1>1 DEF PupInv, Packing, Writing, Keeping, Unpacking
<1>3. Typed /\ Typed' BY <1>1 DEF PupInv, Typed
<1>4. Update!Header' = Update!Header BY <1>1, HeaderKept
<1>5. Stored(u_files', Update!Header', u_pup', u_made', u_damage' = 0) /\ Laid(u_files', u_input')
  BY <1>1, <1>2, <1>4
<1>6. PICK n \in Nat : n = u_pup[0][2]
  <2>1. 0 \in DOMAIN u_pup BY <1>1, <1>2 DEF Judged
  <2>2. Shape(u_files, Update!Header, 0, u_pup[0]) BY <2>1, <1>2 DEF Stored
  <2> QED BY <2>2 DEF Shape
<1>7. Len(u_hmac_res) = n
  <2>1. u_t = Len(u_hmac_res) + 1 /\ Len(u_hmac_res) <= n /\ Len(u_hmac_res) \in Nat
    BY <1>1, <1>2, <1>6, LenProperties DEF Judged
  <2> QED BY <2>1, <1>1, <1>6
<1>8. Judged'
  <2>1. u_pc' = "done" => Len(u_hmac_res') = u_pup'[0][2] BY <1>1, <1>6, <1>7
  <2>2. Intact(u_files', Update!Header', u_pup')
           => Extracted(u_files', u_keys', u_pup', u_hmac_res', u_out')
    BY <1>1, <1>2, <1>4 DEF Judged
  <2>3. /\ u_hdr_hmac' = "OK" =>
              /\ Intact(u_files', Update!Header', u_pup')
              /\ 2 * Len(u_files') + 1 \in DOMAIN u_pup'
              /\ u_pup'[2 * Len(u_files') + 1] = Update!Header'[HeadLen(u_files')]
              /\ Verdict(u_keys', TRUE) = "OK"
        /\ u_made' # <<>> /\ u_damage' = 0 => u_hdr_hmac' \in {"none", Verdict(u_keys', TRUE)}
        /\ u_hdr_hmac' \in Update!Verdicts \cup {"none"} /\ u_hmac_res' \in Seq(Update!Verdicts)
        /\ 0 \in DOMAIN u_pup'
    BY <1>1, <1>2, <1>4 DEF Judged
  <2> QED BY <2>1, <2>2, <2>3, <1>1 DEF Judged
<1> QED BY <1>1, <1>3, <1>5, <1>8 DEF PupInv, Unpacking

LEMMA PupStep == PupInv /\ [Update!Next]_update => PupInv'
<1> SUFFICES ASSUME PupInv, [Update!Next]_update PROVE PupInv' OBVIOUS
<1>1. CASE Update!Start \/ Update!FindFile \/ Update!FindDone \/ Update!WriteHdr \/ Update!WriteFile
  BY <1>1, StartStep, FindFileStep, FindDoneStep, PupHdrStep, WriteFileStep
<1>2. CASE Update!Close \/ Update!Stop \/ Update!Damage
  BY <1>2, CloseStep, CutStep, DamageStep
<1>3. CASE Update!Open \/ Update!VerifyHdr \/ Update!DoSection \/ Update!Done
  BY <1>3, OpenStep, VerifyStep, SectionStep, DoneStep
<1>4. CASE UNCHANGED update
  <2>1. UNCHANGED <<u_input, u_keys, u_pc, u_t, u_files, u_pup, u_made, u_damage,
                    u_hdr_hmac, u_hmac_res, u_out>>
    BY <1>4 DEF update
  <2>2. Update!Header' = Update!Header BY <2>1, HeaderKept
  <2>3. Typed' BY <2>1 DEF PupInv, Typed
  <2>4. Packing => Packing' BY <2>1 DEF Packing, Nothing, Unread
  <2>5. Writing => Writing' BY <2>1, <2>2 DEF Writing, Unread
  <2>6. Keeping => Keeping' BY <2>1, <2>2 DEF Keeping, Unread
  <2>7. Unpacking => Unpacking' BY <2>1, <2>2 DEF Unpacking, Judged
  <2> QED BY <2>3, <2>4, <2>5, <2>6, <2>7 DEF PupInv
<1> QED BY <1>1, <1>2, <1>3, <1>4 DEF Update!Next

\* The files of the table are those of the directory.
LEMMA NamesOfAll ==
    ASSUME NEW F \in Seq(PupFile), NEW d \in PupInputs, Found(F, d, Len(PupNames))
    PROVE  DOMAIN d = {F[m].name : m \in 1 .. Len(F)}
<1>1. \A m \in 1 .. Len(F) : F[m].name \in DOMAIN d BY DEF Found
<1>2. ASSUME NEW f \in DOMAIN d PROVE \E m \in 1 .. Len(F) : f = F[m].name
  <2>1. PICK s \in DOMAIN PupNames : PupNames[s] = f
    BY UpdateAssumption DEF Update!InputsAssumption
  <2>2. s \in 1 .. Len(PupNames) BY NamesLen
  <2>3. PICK a \in 1 .. Len(F) : F[a].id = Update!Id(s) BY <2>1, <2>2 DEF Found
  <2>4. PICK m \in 1 .. Len(PupNames) : F[a].id = Update!Id(m) /\ F[a].name = PupNames[m]
    BY <2>3 DEF Found
  <2>5. m = s BY <2>2, <2>3, <2>4, NamesLen DEF Update!Id
  <2> QED BY <2>1, <2>4, <2>5
<1> QED BY <1>1, <1>2

\* All of them, read as they were packed, are the directory.
LEMMA DirectoryIs ==
    ASSUME NEW F \in Seq(PupFile), NEW d \in PupInputs, Found(F, d, Len(PupNames)),
           NEW k, NEW p, NEW res, NEW o, Extracted(F, k, p, res, o), Len(res) = Len(F),
           \A m \in 1 .. Len(F) : o[F[m].name] = Update!File(F[m].name, F[m].len)
    PROVE  o = [f \in DOMAIN d |-> Update!File(f, d[f])]
<1>1. DOMAIN d = {F[m].name : m \in 1 .. Len(F)} BY NamesOfAll
<1>2. o = [f \in {F[m].name : m \in 1 .. Len(F)} |-> o[f]] BY DEF Extracted
<1>3. o = [f \in DOMAIN d |-> o[f]] BY <1>1, <1>2
<1>4. ASSUME NEW f \in DOMAIN d PROVE o[f] = Update!File(f, d[f])
  <2>1. PICK m \in 1 .. Len(F) : f = F[m].name BY <1>1
  <2>2. F[m].len = d[f] BY <2>1, IdNames
  <2> QED BY <2>1, <2>2
<1> QED BY <1>3, <1>4

\* A file read from cells that are as they were written.
LEMMA ReadIs ==
    ASSUME NEW F \in Seq(PupFile), Follow(F), NEW H, NEW p, NEW e, e = EndOf(F, Len(F)),
           DOMAIN p = 0 .. e - 1, \A u \in DOMAIN p : Original(F, H, u, p[u]),
           NEW m \in 1 .. Len(F)
    PROVE  Update!Read(p, F[m].offset, F[m].len) = Update!File(F[m].name, F[m].len)
<1>1. PICK N \in Nat : N = Len(F) OBVIOUS
<1>2. PICK at \in Nat, l \in Nat : at = F[m].offset /\ l = F[m].len BY FileIs
<1>3. e \in Nat /\ EndOf(F, m) <= e
  <2>1. m \in 0 .. Len(F) /\ Len(F) \in 0 .. Len(F) BY <1>1
  <2> QED BY <2>1, EndGrows, FileIs
<1>4. EndOf(F, m) = at + l
  <2>1. m # 0 OBVIOUS
  <2> QED BY <2>1, <1>2 DEF EndOf
<1>5. ASSUME NEW x \in 1 .. l PROVE p[at + x - 1] = Update!Data(F[m].name, x)
  <2>1. at + x - 1 \in 0 .. e - 1 BY <1>3, <1>4
  <2>2. Original(F, H, at + x - 1, p[at + x - 1]) BY <2>1
  <2>3. PICK u : u = at + x - 1 OBVIOUS
  <2>4. Original(F, H, u, p[u]) /\ x \in 1 .. F[m].len /\ u = F[m].offset + x - 1
    BY <2>2, <2>3, <1>2
  <2>5. p[u] = Update!Data(F[m].name, x) BY <2>4 DEF Original
  <2> QED BY <2>3, <2>5
<1> QED BY <1>2, <1>5 DEF Update!Read, Update!File

\* A package that nothing happened to: its tables, its length.
LEMMA Untouched ==
    ASSUME NEW F \in Seq(PupFile), Follow(F), NEW H, NEW p, NEW w, Stored(F, H, p, w, TRUE),
           w # <<>>
    PROVE  /\ DOMAIN p = 0 .. EndOf(F, Len(F)) - 1
           /\ \A u \in DOMAIN p : Original(F, H, u, p[u])
           /\ Intact(F, H, p)
<1>1. PICK N \in Nat : N = Len(F) OBVIOUS
<1>2. PICK e \in Nat : e = EndOf(F, N) /\ 2 + 2 * N <= e BY <1>1, WholeLength
<1>3. Mapping(p, e) BY <1>1, <1>2 DEF Stored
<1>4. DOMAIN p = 0 .. e - 1 BY <1>3 DEF Mapping
<1>5. \A u \in DOMAIN p : Original(F, H, u, p[u]) BY DEF Stored
<1>6. ASSUME NEW u \in 0 .. 2 * N PROVE u \in DOMAIN p /\ p[u] = H[u + 1]
  <2>1. u \in DOMAIN p /\ u < HeadLen(F) BY <1>1, <1>2, <1>4 DEF HeadLen
  <2> QED BY <2>1, <1>5 DEF Original
<1> QED BY <1>1, <1>2, <1>4, <1>5, <1>6 DEF Intact

LEMMA PupTypes == PupInv => Update!TypeOK
<1> SUFFICES ASSUME PupInv PROVE Update!TypeOK OBVIOUS
<1>1. Typed BY DEF PupInv
<1>2. u_pc \in {"start", "find", "header", "write", "stored", "verify", "sections", "done",
                "failed", "overrun", "crashed", "undefined"}
  BY DEF PupInv, Packing, Writing, Keeping, Unpacking
<1>3. Update!n_files <= PupMaxFiles BY <1>1 DEF Typed, Update!n_files
<1>4. u_hdr_hmac \in Update!Verdicts \cup {"none"} /\ u_hmac_res \in Seq(Update!Verdicts)
  <2>1. Unread => u_hdr_hmac = "none" /\ u_hmac_res \in Seq(Update!Verdicts) BY DEF Unread
  <2>2. Unread \/ Judged BY DEF PupInv, Packing, Writing, Keeping, Unpacking, Nothing
  <2> QED BY <2>1, <2>2 DEF Judged
<1>5. u_pc = "sections" => u_t = Len(u_hmac_res) + 1
  BY DEF PupInv, Packing, Writing, Keeping, Unpacking, Judged
<1>6. u_pup # <<>> => DOMAIN u_pup = 0 .. Update!Size(u_pup) - 1
  <2> SUFFICES ASSUME u_pup # <<>> PROVE DOMAIN u_pup = 0 .. Update!Size(u_pup) - 1 OBVIOUS
  <2>0. PICK F \in Seq(PupFile) : F = u_files BY <1>1 DEF Typed
  <2>1. PICK p : F = u_files /\ p = u_pup BY <2>0
  <2>2. PICK e \in Nat : Mapping(p, e)
    <3>1. CASE Packing BY <3>1 DEF Packing, Nothing
    <3>2. CASE Writing
      <4>1. u_t - 1 \in 0 .. Len(F) /\ Mapping(p, EndOf(F, u_t - 1))
        BY <3>2, <2>1, <1>1, FileIs DEF Writing, Typed
      <4> QED BY <4>1, FileIs
    <3>3. CASE Keeping \/ Unpacking
      <4>1. \E e \in 0 .. EndOf(F, Len(F)) : Mapping(p, e)
        BY <3>3, <2>1 DEF Keeping, Unpacking, Stored
      <4> QED BY <4>1
    <3> QED BY <3>1, <3>2, <3>3 DEF PupInv
  <2>3. DOMAIN p = 0 .. e - 1 BY <2>2 DEF Mapping
  <2> QED BY <2>1, <2>3, PupSize
<1> QED BY <1>2, <1>3, <1>4, <1>5, <1>6 DEF Update!TypeOK

\* OK is said of a file exactly when it is right, to who has the packer's key.
LEMMA ExactVerdict ==
    ASSUME NEW k, Verdict(k, TRUE) = "OK", NEW r, NEW s
    PROVE  Verdict(k, r = s) = "OK" <=> r = s
<1>1. CASE r = s BY <1>1 DEF Verdict
<1>2. CASE r # s BY <1>2 DEF Verdict
<1> QED BY <1>1, <1>2

\* Under a digest that is right, what was read and what was said of it.
LEMMA OkMeans ==
    ASSUME PupInv, u_hdr_hmac = "OK"
    PROVE  /\ Unpacking /\ Typed
           /\ Follow(u_files) /\ Found(u_files, u_input, Len(PupNames))
           /\ Intact(u_files, Update!Header, u_pup)
           /\ Extracted(u_files, u_keys, u_pup, u_hmac_res, u_out)
           /\ Verdict(u_keys, TRUE) = "OK"
<1>1. Unpacking /\ Typed
  BY DEF PupInv, Packing, Writing, Keeping, Nothing, Unread
<1>2. Laid(u_files, u_input) /\ Judged BY <1>1 DEF Unpacking
<1> QED BY <1>1, <1>2 DEF Laid, Judged

LEMMA PupVouched == PupInv => Update!Vouched
<1> SUFFICES ASSUME PupInv, u_hdr_hmac = "OK", NEW m \in 1 .. Len(u_hmac_res),
                    NEW f, f = Update!NameOf(u_pup[m][1])
             PROVE  /\ f \in DOMAIN u_input
                    /\ u_hmac_res[m] = "OK" <=> u_out[f] = Update!File(f, u_input[f])
  BY DEF Update!Vouched
<1>0. PICK F \in Seq(PupFile) : F = u_files BY OkMeans DEF Typed
<1>1. PICK H, o, res, k :
         F = u_files /\ H = Update!Header /\ o = u_out /\ res = u_hmac_res /\ k = u_keys
  BY <1>0
<1>2. /\ Found(F, u_input, Len(PupNames)) /\ Intact(F, H, u_pup)
      /\ Extracted(F, k, u_pup, res, o) /\ Verdict(k, TRUE) = "OK"
  BY <1>1, OkMeans
<1>3. HeaderOf(F, k.pack, H) BY <1>1, HeaderIs
<1>4. m \in 1 .. Len(res) /\ m \in 1 .. Len(F)
  <2>1. Len(res) <= Len(F) /\ Len(F) \in Nat BY <1>2 DEF Extracted
  <2>2. Len(res) \in Nat BY <1>1, PupTypes DEF Update!TypeOK
  <2> QED BY <2>1, <2>2, <1>1
<1>5. u_pup[m] = <<F[m].id, F[m].offset, F[m].len>> BY <1>2, <1>3, <1>4, SectionReads
<1>6. f = F[m].name /\ f \in DOMAIN u_input /\ F[m].len = u_input[f]
  BY <1>2, <1>4, <1>5, IdNames
<1>7. res[m] = Verdict(k, o[F[m].name] = Update!File(F[m].name, F[m].len))
  BY <1>2, <1>4 DEF Extracted
<1>8. PICK r, s : r = o[F[m].name] /\ s = Update!File(F[m].name, F[m].len) OBVIOUS
<1>9. res[m] = "OK" <=> r = s
  <2>1. Verdict(k, r = s) = "OK" <=> r = s BY <1>2, ExactVerdict
  <2>2. res[m] = Verdict(k, r = s) BY <1>7, <1>8
  <2> QED BY <2>1, <2>2
<1> QED BY <1>1, <1>6, <1>8, <1>9

\* Cells that read right, in a package of which the tables are, are those written.
LEMMA SameCells ==
    ASSUME NEW F \in Seq(PupFile), Follow(F), NEW H, NEW p, NEW w, NEW e \in Nat,
           e = EndOf(F, Len(F)), Mapping(p, e), Mapping(w, e), Intact(F, H, p),
           p[2 * Len(F) + 1] = H[HeadLen(F)],
           \A u \in DOMAIN w : Original(F, H, u, w[u]),
           \A m \in 1 .. Len(F) :
              Update!Read(p, F[m].offset, F[m].len) = Update!File(F[m].name, F[m].len)
    PROVE  p = w
<1>1. PICK N \in Nat : N = Len(F) OBVIOUS
<1>2. DOMAIN w = 0 .. e - 1 /\ w = [u \in 0 .. e - 1 |-> w[u]] BY DEF Mapping
<1>3. p = [u \in 0 .. e - 1 |-> p[u]] BY DEF Mapping
<1>4. ASSUME NEW u \in 0 .. e - 1 PROVE p[u] = w[u]
  <2>1. Original(F, H, u, w[u]) BY <1>2
  <2>2. HeadLen(F) = 2 + 2 * N BY <1>1 DEF HeadLen
  <2>3. CASE u < HeadLen(F)
    <3>1. w[u] = H[u + 1] BY <2>1, <2>3 DEF Original
    <3>2. CASE u \in 0 .. 2 * N BY <3>1, <3>2, <1>1 DEF Intact
    <3>3. CASE u = 2 * N + 1
      <4>1. u + 1 = HeadLen(F) BY <3>3, <2>2
      <4> QED BY <4>1, <3>1, <3>3, <1>1
    <3>4. u \in 0 .. 2 * N \/ u = 2 * N + 1 BY <2>2, <2>3
    <3> QED BY <3>2, <3>3, <3>4
  <2>4. CASE ~(u < HeadLen(F))
    <3>1. u \in HeadLen(F) .. EndOf(F, Len(F)) - 1 BY <2>2, <2>4
    <3>2. PICK a \in 1 .. Len(F) : u \in F[a].offset .. EndOf(F, a) - 1 BY <3>1 DEF Follow
    <3>3. PICK at \in Nat, l \in Nat : at = F[a].offset /\ l = F[a].len BY <3>2, FileIs
    <3>4. EndOf(F, a) = at + l
      <4>1. a # 0 OBVIOUS
      <4> QED BY <4>1, <3>3 DEF EndOf
    <3>5. PICK x \in 1 .. l : u = at + x - 1
      <4>0. PICK b \in Nat : b = at + l OBVIOUS
      <4>1. u \in at .. b - 1 BY <3>2, <3>3, <3>4, <4>0
      <4>2. PICK x \in Int : x = u - at + 1 OBVIOUS
      <4>3. x \in 1 .. l /\ u = at + x - 1 BY <4>0, <4>1, <4>2
      <4> QED BY <4>3
    <3>6. w[u] = Update!Data(F[a].name, x) BY <2>1, <3>3, <3>5 DEF Original
    <3>7. Update!Read(p, at, l)[x] = p[u] BY <3>5 DEF Update!Read
    <3>8. Update!File(F[a].name, l)[x] = Update!Data(F[a].name, x) BY <3>5 DEF Update!File
    <3> QED BY <3>3, <3>6, <3>7, <3>8
  <2> QED BY <2>3, <2>4
<1> QED BY <1>2, <1>3, <1>4

LEMMA PupUnnoticed == PupInv => Update!NothingUnnoticed
<1> SUFFICES ASSUME PupInv, u_pc = "done", u_hdr_hmac = "OK",
                    \A m \in DOMAIN u_hmac_res : u_hmac_res[m] = "OK"
             PROVE  /\ u_out = [f \in DOMAIN u_input |-> Update!File(f, u_input[f])]
                    /\ u_made # <<>> => u_pup = u_made
  BY DEF Update!NothingUnnoticed
<1>0. PICK F \in Seq(PupFile) : F = u_files BY OkMeans DEF Typed
<1>1. PICK H, p, o, res, k, d, w :
         /\ F = u_files /\ H = Update!Header /\ p = u_pup /\ o = u_out /\ res = u_hmac_res
         /\ k = u_keys /\ d = u_input /\ w = u_made
  BY <1>0
<1>2. /\ Follow(F) /\ Found(F, d, Len(PupNames)) /\ Intact(F, H, p) /\ d \in PupInputs
      /\ Extracted(F, k, p, res, o) /\ Verdict(k, TRUE) = "OK"
      /\ p[2 * Len(F) + 1] = H[HeadLen(F)] /\ Len(res) = p[0][2]
      /\ Stored(F, H, p, w, u_damage = 0)
  BY <1>1, OkMeans DEF Typed, Unpacking, Judged
<1>3. HeaderOf(F, k.pack, H) BY <1>1, HeaderIs
<1>4. Len(res) = Len(F)
  <2>1. 0 \in 0 .. 2 * Len(F) /\ 0 + 1 = 1 BY FileIs
  <2>2. p[0] = H[1] BY <2>1, <1>2 DEF Intact
  <2>3. H[1] = <<-1, Len(F)>> BY <1>3, HeadIs
  <2> QED BY <2>2, <2>3, <1>2
<1>5. res \in Seq(Update!Verdicts) BY <1>1, PupTypes DEF Update!TypeOK
<1>6. ASSUME NEW m \in 1 .. Len(F)
      PROVE  /\ o[F[m].name] = Update!File(F[m].name, F[m].len)
             /\ Update!Read(p, F[m].offset, F[m].len) = Update!File(F[m].name, F[m].len)
  <2>1. m \in 1 .. Len(res) BY <1>4
  <2>2. m \in DOMAIN u_hmac_res BY <2>1, <1>1, <1>5
  <2>3. res[m] = "OK" BY <2>2, <1>1
  <2>4. /\ o[F[m].name] = Update!Read(p, F[m].offset, F[m].len)
        /\ res[m] = Verdict(k, o[F[m].name] = Update!File(F[m].name, F[m].len))
    BY <2>1, <1>2 DEF Extracted
  <2>5. PICK r, s : r = o[F[m].name] /\ s = Update!File(F[m].name, F[m].len) OBVIOUS
  <2>6. Verdict(k, r = s) = "OK" BY <2>3, <2>4, <2>5
  <2>7. r = s BY <2>6, <1>2, ExactVerdict
  <2> QED BY <2>4, <2>5, <2>7
<1>7. o = [f \in DOMAIN d |-> Update!File(f, d[f])] BY <1>2, <1>4, <1>6, DirectoryIs
<1>8. ASSUME w # <<>> PROVE p = w
  <2>1. PICK e \in Nat : e = EndOf(F, Len(F)) BY WholeLength, <1>2
  <2>2. Mapping(p, e) /\ Mapping(w, e) BY <2>1, <1>2, <1>8 DEF Stored
  <2>3. \A u \in DOMAIN w : Original(F, H, u, w[u]) BY <1>2 DEF Stored
  <2>4. \A m \in 1 .. Len(F) :
           Update!Read(p, F[m].offset, F[m].len) = Update!File(F[m].name, F[m].len)
    BY <1>6
  <2> QED BY <2>1, <2>2, <2>3, <2>4, <1>2, SameCells
<1> QED BY <1>1, <1>7, <1>8

LEMMA PupComesOut == PupInv => Update!IntactComesOut
<1> DEFINE verdict == IF Update!SameKey THEN "OK"
                      ELSE IF u_keys.unpack = PupNoKey THEN "???" ELSE "FAIL"
<1> SUFFICES ASSUME PupInv, u_made # <<>>, u_damage = 0
             PROVE  /\ u_pc # "undefined" /\ u_hdr_hmac \in {"none", verdict}
                    /\ \A m \in DOMAIN u_hmac_res : u_hmac_res[m] = verdict
                    /\ u_pc = "done" => u_out = [f \in DOMAIN u_input |-> Update!File(f, u_input[f])]
  BY DEF Update!IntactComesOut
<1>1. Typed /\ (Keeping \/ Unpacking) BY DEF PupInv, Packing, Nothing, Writing
<1>2. CASE Keeping
  <2>1. u_pc \in {"stored", "verify"} /\ u_hdr_hmac = "none" /\ u_hmac_res = <<>>
    BY <1>2 DEF Keeping, Unread
  <2>2. DOMAIN <<>> = {} OBVIOUS
  <2> QED BY <2>1, <2>2
<1>3. CASE Unpacking
  <2>1. verdict = Verdict(u_keys, TRUE)
    <3>1. u_keys.pack \in PupKeys \cup {PupNoKey} /\ u_keys.unpack \in PupKeys \cup {PupNoKey}
      BY <1>1 DEF Typed
    <3>2. PupNoKey \notin PupKeys BY UpdateAssumption DEF Update!NumbersAssumption
    <3> QED BY <3>1, <3>2 DEF Verdict, Update!SameKey
  <2>0. PICK F \in Seq(PupFile) : F = u_files BY <1>1 DEF Typed
  <2>2. PICK H, p, o, res, k, d, w :
           /\ F = u_files /\ H = Update!Header /\ p = u_pup /\ o = u_out /\ res = u_hmac_res
           /\ k = u_keys /\ d = u_input /\ w = u_made
    BY <2>0
  <2>3. /\ Follow(F) /\ Found(F, d, Len(PupNames)) /\ d \in PupInputs
        /\ Stored(F, H, p, w, u_damage = 0) /\ w # <<>>
    BY <1>1, <1>3, <2>2 DEF Typed, Unpacking, Laid
  <2>4. Stored(F, H, p, w, TRUE) BY <2>3 DEF Stored
  <2>5. /\ DOMAIN p = 0 .. EndOf(F, Len(F)) - 1
        /\ \A u \in DOMAIN p : Original(F, H, u, p[u])
        /\ Intact(F, H, p)
    BY <2>3, <2>4, Untouched
  <2>6. \A m \in 1 .. Len(F) :
           Update!Read(p, F[m].offset, F[m].len) = Update!File(F[m].name, F[m].len)
    <3>1. PICK e \in Nat : e = EndOf(F, Len(F)) BY <2>3, WholeLength
    <3>2. DOMAIN p = 0 .. e - 1 BY <3>1, <2>5
    <3>3. Follow(F) /\ \A u \in DOMAIN p : Original(F, H, u, p[u]) BY <2>3, <2>5
    <3> QED BY <3>1, <3>2, <3>3, ReadIs
  <2>7. /\ Extracted(F, k, p, res, o) /\ u_pc # "undefined"
        /\ u_hdr_hmac \in {"none", Verdict(k, TRUE)}
        /\ u_pc = "done" => Len(res) = p[0][2]
    BY <2>2, <2>5, <1>3 DEF Unpacking, Judged
  <2>8. res \in Seq(Update!Verdicts) /\ Len(res) <= Len(F)
    BY <2>2, <2>7, PupTypes DEF Update!TypeOK, Extracted
  <2>9. ASSUME NEW m \in DOMAIN res
        PROVE  /\ o[F[m].name] = Update!File(F[m].name, F[m].len) /\ res[m] = Verdict(k, TRUE)
    <3>1. m \in 1 .. Len(res) /\ m \in 1 .. Len(F)
      <4>1. Len(F) \in Nat /\ Len(res) \in Nat /\ DOMAIN res = 1 .. Len(res) BY <2>8
      <4> QED BY <4>1, <2>8
    <3>2. /\ o[F[m].name] = Update!Read(p, F[m].offset, F[m].len)
          /\ res[m] = Verdict(k, o[F[m].name] = Update!File(F[m].name, F[m].len))
      BY <3>1, <2>7 DEF Extracted
    <3>3. PICK r, s : r = o[F[m].name] /\ s = Update!File(F[m].name, F[m].len) OBVIOUS
    <3>4. r = s /\ res[m] = Verdict(k, r = s) BY <3>1, <3>2, <3>3, <2>6
    <3>5. Verdict(k, r = s) = Verdict(k, TRUE) BY <3>4 DEF Verdict
    <3> QED BY <3>3, <3>4, <3>5
  <2>10. ASSUME u_pc = "done" PROVE o = [f \in DOMAIN d |-> Update!File(f, d[f])]
    <3>1. HeaderOf(F, k.pack, H) BY <2>2, HeaderIs
    <3>2. 0 \in 0 .. 2 * Len(F) /\ 0 + 1 = 1 BY FileIs
    <3>3. p[0] = H[1] BY <3>2, <2>5 DEF Intact
    <3>4. H[1] = <<-1, Len(F)>> BY <3>1, HeadIs
    <3>5. Len(res) = Len(F) BY <3>3, <3>4, <2>7, <2>10
    <3>6. \A m \in 1 .. Len(F) : o[F[m].name] = Update!File(F[m].name, F[m].len)
      <4>1. DOMAIN res = 1 .. Len(F) BY <3>5, <2>8
      <4> QED BY <4>1, <2>9
    <3> QED BY <3>5, <3>6, <2>3, <2>7, DirectoryIs
  <2> QED BY <2>1, <2>2, <2>7, <2>9, <2>10
<1> QED BY <1>1, <1>2, <1>3

-----------------------------------------------------------------------------
\* The invariant of the two pairs of programs, as far as puppack and pupunpack go.
ToolsInv == program = "pup" => PupInv

LEMMA ToolsInvInit == ToolsInit => ToolsInv
BY PupInit DEF ToolsInit, ToolsInv

LEMMA ToolsInvStep == ToolsInv /\ [ToolsNext]_all => ToolsInv'
<1> SUFFICES ASSUME ToolsInv, [ToolsNext]_all, program' = "pup" PROVE PupInv'
  BY DEF ToolsInv
<1>1. CASE Cos BY <1>1 DEF Cos
<1>2. CASE Pup
  <2>1. program = "pup" /\ Update!Next BY <1>2 DEF Pup
  <2>2. PupInv BY <2>1 DEF ToolsInv
  <2> QED BY <2>1, <2>2, PupStep
<1>3. CASE UNCHANGED all
  <2>1. UNCHANGED <<program, update>> BY <1>3 DEF all
  <2>2. PupInv BY <2>1 DEF ToolsInv
  <2> QED BY <2>1, <2>2, PupStep
<1> QED BY <1>1, <1>2, <1>3 DEF ToolsNext

\* Whatever is damaged or cut off, and whoever has which key: when pupunpack (do_pup,
\* check_hmac) says OK of the tables, what it says of a file is exact, and OK for
\* everything means the package and the directory puppack was given, complete.
THEOREM PupVerdictsRight == ToolsSpec => []PupVerdicts
<1>1. ToolsInv => PupVerdicts
  BY PupTypes, PupVouched, PupUnnoticed DEF ToolsInv, PupVerdicts, Update!PupVerdicts
<1> QED BY <1>1, ToolsInvInit, ToolsInvStep, PTL DEF ToolsSpec

\* A package that puppack finished and nothing happened to comes out of pupunpack
\* whole, never reads past its mapping, and gets the verdict that the reader's key
\* deserves for the tables and for every file.
THEOREM IntactPackageComesOut == ToolsSpec => []IntactComesOut
<1>1. ToolsInv => IntactComesOut
  BY PupComesOut DEF ToolsInv, IntactComesOut
<1> QED BY <1>1, ToolsInvInit, ToolsInvStep, PTL DEF ToolsSpec
===============================================================================

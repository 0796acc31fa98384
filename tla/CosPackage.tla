------------------------------ MODULE CosPackage ------------------------------
(***************************************************************************)
(* A directory packed by cospkg and unpacked by cosunpkg or cosunpack: a   *)
(* table of contents and the files behind it in an area of fixed size.     *)
(* Nothing in it is signed or hashed; a file comes back only if the two    *)
(* programs agree about every offset.                                      *)
(*                                                                         *)
(* Sizes are in units of 0x10 bytes.  A file of the directory is a record: *)
(* its name, the first 0x19 characters of it, whether it is longer than    *)
(* 0x20, whether it is a regular file, and its size; "." and ".." are      *)
(* entries with dot = TRUE.                                                *)
(***************************************************************************)
EXTENDS Integers, Sequences, FiniteSets

CONSTANTS
    Directories,     \* sets of directory entries
    MAX_FILES,
    COS_FILE_SIZE

ASSUME DirectoriesAssumption ==
    /\ MAX_FILES \in Nat /\ COS_FILE_SIZE \in Nat \ {0, 1}
    /\ \A d \in Directories : IsFiniteSet(d) /\ \A e \in d : e.size \in Nat

VARIABLES
    dir,        \* the directory
    pc,         \* what cospkg, and after it the unpacker, does next
    todo,       \* entries readdir has not returned yet
    files,      \* files[]: name as truncated, source, size and offset
    offset,     \* where the next file goes
    hdr_size,
    i,          \* loop counter
    area,       \* the package on disk: a function from offset to cell
    out         \* what the unpacker has written: a function from name to cells

vars == <<dir, pc, todo, files, offset, hdr_size, i, area, out>>

align(x) == x + (x % 2)                         \* round_up(x, 0x20)

n_files == Len(files)
Cell(f, u) == <<"file", f, u>>
Zero       == <<"zero">>
Cut(c)     == <<"cut", c>>        \* a cell whose last byte has become zero

\* fwrite at an offset; what is skipped by fseek reads as zeros.
Size(a) == IF DOMAIN a = {} THEN 0 ELSE 1 + CHOOSE u \in DOMAIN a : \A v \in DOMAIN a : v <= u

WriteAt(a, at, cells) ==
    IF cells = <<>> THEN a
    ELSE [u \in 0 .. (IF at + Len(cells) > Size(a) THEN at + Len(cells) ELSE Size(a)) - 1 |->
            IF u \in at .. at + Len(cells) - 1 THEN cells[u - at + 1]
            ELSE IF u \in DOMAIN a THEN a[u] ELSE Zero]

-----------------------------------------------------------------------------
Init ==
    /\ dir \in Directories
    /\ pc = "readdir" /\ todo = dir
    /\ files = <<>> /\ offset = 0 /\ hdr_size = 0 /\ i = 1
    /\ area = <<>> /\ out = <<>>

Goto(p) == pc' = p /\ i' = 1

\* fail() with the reason it prints.
Fail(reason) ==
    /\ Goto(reason)
    /\ UNCHANGED <<files, offset, hdr_size, area, out>>

\* Mutant: the table is compared one file too late.
ReadDirUnchecked(e) ==
    /\ pc = "readdir" /\ e \in todo
    /\ todo' = todo \ {e}
    /\ \/ n_files > MAX_FILES /\ Fail("overflow")
       \/ /\ n_files <= MAX_FILES /\ ~e.dot /\ ~e.long /\ e.regular
          /\ files' = Append(files, [name |-> e.short, from |-> e.name,
                                     size |-> e.size, offset |-> offset])
          /\ offset' = align(offset + e.size)
          /\ UNCHANGED <<pc, hdr_size, i, area, out>>
       \/ /\ n_files <= MAX_FILES /\ e.dot
          /\ UNCHANGED <<pc, files, offset, hdr_size, i, area, out>>
    /\ UNCHANGED dir

\* One round of get_files: the table is full, "." and "..", a name that is too
\* long, something that is not a file or cannot be opened, or the next file.
ReadDir(e) ==
    /\ pc = "readdir" /\ e \in todo
    /\ todo' = todo \ {e}
    /\ \/ n_files = MAX_FILES /\ Fail("overflow")
       \/ /\ n_files # MAX_FILES /\ e.dot
          /\ UNCHANGED <<pc, files, offset, hdr_size, i, area, out>>
       \/ n_files # MAX_FILES /\ ~e.dot /\ Fail("refused")
       \/ /\ n_files # MAX_FILES /\ ~e.dot /\ ~e.long /\ e.regular
          /\ files' = Append(files, [name |-> e.short, from |-> e.name,
                                     size |-> e.size, offset |-> offset])
          /\ offset' = align(offset + e.size)
          /\ UNCHANGED <<pc, hdr_size, i, area, out>>
    /\ UNCHANGED dir

ReadDirDone ==
    /\ pc = "readdir" /\ todo = {}
    /\ Goto("header")
    /\ UNCHANGED <<dir, todo, files, offset, hdr_size, area, out>>

\* Mutant: the header is left out of the account.
BuildHdrUncounted ==
    /\ pc = "header" /\ n_files > 0
    /\ LET file_size == files[n_files].offset + files[n_files].size
           size      == 1 + 3 * n_files
       IN  IF file_size > COS_FILE_SIZE THEN Fail("too big")
           ELSE /\ hdr_size' = size
                /\ Goto("open")
                /\ UNCHANGED <<files, offset, area, out>>
    /\ UNCHANGED <<dir, todo>>

\* build_hdr: the end of the last file must lie in the area.
BuildHdr ==
    /\ pc = "header" /\ n_files > 0
    /\ LET file_size == files[n_files].offset + files[n_files].size
           size      == 1 + 3 * n_files
       IN  IF size + file_size > COS_FILE_SIZE THEN Fail("too big")
           ELSE /\ hdr_size' = size
                /\ Goto("open")
                /\ UNCHANGED <<files, offset, area, out>>
    /\ UNCHANGED <<dir, todo>>

\* Without files it looks at files[-1]: whatever is there is too big or not.
BuildHdrEmpty ==
    /\ pc = "header" /\ n_files = 0
    /\ \/ Fail("too big")
       \/ /\ hdr_size' = 1 /\ Goto("open")
          /\ UNCHANGED <<files, offset, area, out>>
    /\ UNCHANGED <<dir, todo>>

\* Mutant: offsets are counted from the end of the table.
TocRelative ==
    [u \in 1 .. hdr_size |->
        IF u = 1 THEN <<"head", n_files>>
        ELSE LET f == files[((u - 2) \div 3) + 1]
             IN  <<"toc", f.offset, f.size, f.name>>]

\* The table of contents as cells: one for the head, three for each file.
Toc ==
    [u \in 1 .. hdr_size |->
        IF u = 1 THEN <<"head", n_files>>
        ELSE LET f == files[((u - 2) \div 3) + 1]
             IN  <<"toc", f.offset + hdr_size, f.size, f.name>>]

\* fopen truncates what was there, or fails; the header goes first.
WriteHdr ==
    /\ pc = "open"
    /\ \/ Fail("no output")
       \/ /\ area' = WriteAt(<<>>, 0, Toc)
          /\ Goto("write")
          /\ UNCHANGED <<files, offset, hdr_size, out>>
    /\ UNCHANGED <<dir, todo>>

WriteFile ==
    /\ pc = "write" /\ i <= n_files
    /\ area' = WriteAt(area, files[i].offset + hdr_size,
                       [u \in 1 .. files[i].size |-> Cell(files[i].from, u)])
    /\ i' = i + 1
    /\ UNCHANGED <<dir, pc, todo, files, offset, hdr_size, out>>

\* A zero byte at the very end makes the file as long as the area.
WriteEnd ==
    /\ pc = "write" /\ i > n_files
    /\ LET last == COS_FILE_SIZE - 1
       IN  area' = WriteAt(area, last, << IF last \in DOMAIN area THEN Cut(area[last])
                                          ELSE Zero >>)
    /\ Goto("unpack")
    /\ UNCHANGED <<dir, todo, files, offset, hdr_size, out>>

\* cospkg is interrupted, or its disk is full: what stdio had not written yet is
\* lost, and that is always the end.
Stop ==
    /\ pc = "write"
    /\ Goto("unpack torn")
    /\ \E k \in 0 .. Size(area) : area' = [u \in 0 .. k - 1 |-> area[u]]
    /\ UNCHANGED <<dir, todo, files, offset, hdr_size, out>>

-----------------------------------------------------------------------------
\* unpack_file, and a round of do_toc: an entry that lies, or points, behind the
\* end of the package is read from memory that may not be mapped.
Count    == area[0][2]
Entry(k) == area[1 + 3 * (k - 1)]
Mapped(k) == /\ 3 * k < Size(area)
             /\ Entry(k)[3] = 0 \/ Entry(k)[2] + Entry(k)[3] <= Size(area)

Unpack ==
    /\ pc \in {"unpack", "unpack torn"} /\ area # <<>> /\ i <= Count
    /\ \/ /\ Mapped(i)
          /\ LET at   == Entry(i)[2]
                 size == Entry(i)[3]
                 name == Entry(i)[4]
             IN  out' = [f \in DOMAIN out \cup {name} |->
                           IF f = name THEN [u \in 1 .. size |-> area[at + u - 1]]
                           ELSE out[f]]
          /\ i' = i + 1
          /\ UNCHANGED pc
       \/ Mapped(i) /\ Goto("crashed") /\ UNCHANGED out   \* fopen fails unnoticed
       \/ ~Mapped(i) /\ Goto("undefined") /\ UNCHANGED out
    /\ UNCHANGED <<dir, todo, files, offset, hdr_size, area>>

Unpacked ==
    /\ pc \in {"unpack", "unpack torn"} /\ area # <<>> /\ i > Count
    /\ Goto(IF pc = "unpack" THEN "done" ELSE "done torn")
    /\ UNCHANGED <<dir, todo, files, offset, hdr_size, area, out>>

\* mmap of an empty file fails, which mmap_file does not notice.
UnpackNothing ==
    /\ pc = "unpack torn" /\ area = <<>>
    /\ Goto("undefined")
    /\ UNCHANGED <<dir, todo, files, offset, hdr_size, area, out>>

Next == \/ (\E e \in todo : ReadDir(e)) \/ ReadDirDone
        \/ BuildHdr \/ BuildHdrEmpty \/ WriteHdr \/ WriteFile \/ WriteEnd \/ Stop
        \/ Unpack \/ Unpacked \/ UnpackNothing

Spec == Init /\ [][Next]_vars

-----------------------------------------------------------------------------
(* Properties. *)

\* Types and bounds; the table of files is never filled past its end.
TypeOK ==
    /\ pc \in {"readdir", "header", "open", "write", "unpack", "unpack torn", "done",
               "done torn", "overflow", "refused", "too big", "no output", "crashed", "undefined"}
    /\ todo \subseteq dir
    /\ n_files <= MAX_FILES
    /\ i \in 1 .. n_files + 1
    /\ offset \in Nat
    /\ hdr_size \in {0, 1 + 3 * n_files}

\* No file lies over another one, over the table of contents, or behind the
\* end of the area, in whatever order the directory was read.
FilesDisjoint ==
    /\ \A a, b \in 1 .. n_files :
          a < b => files[a].offset + files[a].size <= files[b].offset
    /\ pc \in {"open", "write", "unpack", "unpack torn", "done", "done torn"} =>
          \A a \in 1 .. n_files :
             hdr_size + files[a].offset + files[a].size <= COS_FILE_SIZE

\* The last file whose truncated name is s: the one that is left of several.
LastOf(s) == CHOOSE a \in 1 .. n_files :
                files[a].name = s /\ \A b \in a + 1 .. n_files : files[b].name # s

\* A package that was written to its end gives every file back under the head
\* of its name: the last one of a name, and whole but for the zero byte when
\* the files fill the area to its last byte.
RoundTrip ==
    pc = "done" =>
        /\ Size(area) = COS_FILE_SIZE
        /\ DOMAIN out = {files[a].name : a \in 1 .. n_files}
        /\ \A s \in DOMAIN out : LET f == files[LastOf(s)] IN
              /\ Len(out[s]) = f.size
              /\ \A u \in 1 .. f.size :
                    out[s][u] = IF hdr_size + f.offset + u = COS_FILE_SIZE
                                THEN Cut(Cell(f.from, u)) ELSE Cell(f.from, u)

\* An unpacker leaves the area only for a package that was not finished; and a
\* file such a package does give back is never a mixture of two.
TornPackage ==
    /\ pc = "undefined" => Size(area) < COS_FILE_SIZE
    /\ \A s \in DOMAIN out : \E a \in 1 .. n_files :
          /\ files[a].name = s
          /\ \A u \in DOMAIN out[s] :
                out[s][u] \in {Cell(files[a].from, u), Cut(Cell(files[a].from, u)), Zero}

\* What an unpacker gives back, of a whole package and of a torn one.
Unpacks == RoundTrip /\ TornPackage

\* What cospkg says when it refuses: "size must be under %d".
SizeUnder ==
    pc = "done" => files = <<>> \/
        hdr_size + files[n_files].offset + files[n_files].size < COS_FILE_SIZE
===============================================================================

--------------------------------- MODULE Gpkg ---------------------------------
(***************************************************************************)
(* ungpkg: the data of a package is decrypted in place, by AES in counter  *)
(* mode or with a key stream of SHA-1 digests, and its table is unpacked   *)
(* into a directory.                                                       *)
(*                                                                         *)
(* A package is encrypted by its publisher; byte x of the data carries     *)
(* byte x of the key stream.  Names are paths: sequences of components.    *)
(***************************************************************************)
EXTENDS Integers, Sequences

CONSTANTS
    Packages,   \* [retail, type, size, table]
    Unit,       \* bytes from one block of the key stream (16 in the code)
    HeaderLen,  \* offset: where the data start
    Word,       \* 2^32 in the code
    MaxName     \* sizeof fname

\* A table's entries: name, its length, flags, and the place of the contents.
\* The table is at the start of the data, one byte for each entry here, and
\* its entries' contents are inside the data.
Entry == [name : Seq(STRING) \ {<<>>}, len : Nat, flags : Nat, at : Nat, size : Nat]

GpkgAssumption ==
    /\ Unit \in Nat \ {0} /\ Word \in Nat \ {0} /\ Word % Unit = 0
    /\ HeaderLen \in Nat /\ MaxName \in Nat
    /\ \A q \in Packages :
          /\ q.retail \in BOOLEAN /\ q.type \in Nat /\ q.size \in Nat /\ q.table \in Seq(Entry)
          /\ Len(q.table) <= q.size
          /\ \A k \in 1 .. Len(q.table) : q.table[k].at + q.table[k].size <= q.size

ASSUME GpkgAssumption

VARIABLES
    p,        \* the package's header
    haskey,   \* whether the file gpkg-key is there
    target,   \* whether the target directory can be made, or is there, and entered
    pkg,      \* the mapping: byte x is the key stream that is still on it, or none
    pc, i,
    ctr,      \* how often the key stream's counter was counted up
    fs        \* the target directory: Dir, or a file's [at, size]

vars == <<p, haskey, target, pkg, pc, i, ctr, fs>>

None == -1
Dir  == <<>>
Stream(n, j) == n * Unit + j

Init ==
    /\ p \in Packages /\ haskey \in BOOLEAN /\ target \in BOOLEAN
    /\ pkg = [x \in 0 .. HeaderLen + p.size - 1 |-> IF x < HeaderLen THEN None ELSE x - HeaderLen]
    /\ pc = "start" /\ i = 0 /\ ctr = 0
    /\ fs = [path \in {<<>>} |-> Dir]

\* main's chdir, and what decrypt_retail_pkg looks at before it decrypts.
Start ==
    /\ pc = "start"
    /\ pc' = IF ~target THEN "failed"
             ELSE IF ~p.retail THEN "debug"
             ELSE IF p.type = 1 /\ haskey THEN "retail" ELSE "failed"
    /\ UNCHANGED <<p, haskey, target, pkg, i, ctr, fs>>

\* Exclusive or with byte s of the key stream: on a byte that does not carry
\* it, it would be one more.
Taken(x, s) == IF pkg[x] = s THEN None ELSE IF pkg[x] = None THEN s ELSE -2

\* Mutant: the counter goes up behind the sixteenth byte, and before the first.
decrypt_debug_pkgEarly ==
    /\ pc = "debug" /\ i < p.size
    /\ ctr' = IF i % Unit = 0 THEN ctr + 1 ELSE ctr
    /\ pkg' = [pkg EXCEPT ![HeaderLen + i] = Taken(HeaderLen + i, Stream(ctr', i % Unit))]
    /\ i' = i + 1
    /\ UNCHANGED <<p, haskey, target, pc, fs>>

\* One byte of decrypt_debug_pkg's loop; its counter is 64 bits wide.
decrypt_debug_pkg ==
    /\ pc = "debug" /\ i < p.size
    /\ ctr' = IF i # 0 /\ i % Unit = 0 THEN ctr + 1 ELSE ctr
    /\ pkg' = [pkg EXCEPT ![HeaderLen + i] = Taken(HeaderLen + i, Stream(ctr', i % Unit))]
    /\ i' = i + 1
    /\ UNCHANGED <<p, haskey, target, pc, fs>>

\* Mutant: the loop does not stop at the end.
aes128ctrFull ==
    /\ pc = "retail" /\ i < Word
    /\ LET n == HeaderLen + ctr * Unit + (i % Unit)
       IN  IF n \in DOMAIN pkg
           THEN /\ pkg' = [pkg EXCEPT ![n] = Taken(n, Stream(ctr, i % Unit))]
                /\ UNCHANGED pc
           ELSE pc' = "overrun" /\ UNCHANGED pkg
    /\ i' = (i + 1) % Word
    /\ ctr' = IF (i + 1) % Unit = 0 THEN ctr + 1 ELSE ctr
    /\ UNCHANGED <<p, haskey, target, fs>>

\* One byte of aes128ctr's loop.  Its counter is 32 bits wide and is compared
\* with a length of 64: it never arrives at one of 2^32 or more, and the loop
\* leaves the mapping at its end (pc = "overrun").
aes128ctr ==
    /\ pc = "retail" /\ i < p.size
    /\ LET n == HeaderLen + ctr * Unit + (i % Unit)
       IN  IF n \in DOMAIN pkg
           THEN /\ pkg' = [pkg EXCEPT ![n] = Taken(n, Stream(ctr, i % Unit))]
                /\ UNCHANGED pc
           ELSE pc' = "overrun" /\ UNCHANGED pkg
    /\ i' = (i + 1) % Word
    /\ ctr' = IF (i + 1) % Unit = 0 THEN ctr + 1 ELSE ctr
    /\ UNCHANGED <<p, haskey, target, fs>>

Decrypted ==
    /\ pc \in {"debug", "retail"} /\ i >= p.size
    /\ pc' = "unpack" /\ i' = 1
    /\ UNCHANGED <<p, haskey, target, pkg, ctr, fs>>

-----------------------------------------------------------------------------
(* unpack_pkg, one entry at a time. *)

Entries == Len(p.table)
kind(e) == e.flags % 256
Parent(path) == SubSeq(path, 1, Len(path) - 1)
IsDir(path) == path \in DOMAIN fs /\ fs[path] = Dir

With(path, what) == [q \in DOMAIN fs \union {path} |-> IF q = path THEN what ELSE fs[q]]
Current == p.table[i]
Next1 == i' = i + 1 /\ UNCHANGED <<p, haskey, target, pkg, pc, ctr>>

Stop(how) == pc' = how /\ UNCHANGED <<p, haskey, target, pkg, i, ctr, fs>>

NameTooLong ==
    /\ pc = "unpack" /\ i <= Entries /\ Current.len >= MaxName
    /\ Stop("failed")

UnknownFlags ==
    /\ pc = "unpack" /\ i <= Entries /\ Current.len < MaxName
    /\ kind(Current) \notin {1, 3, 4}
    /\ Stop("failed")

\* mkdir's result is not looked at.
MakeDir ==
    /\ pc = "unpack" /\ i <= Entries /\ Current.len < MaxName /\ kind(Current) = 4
    /\ fs' = IF IsDir(Parent(Current.name)) /\ Current.name \notin DOMAIN fs
             THEN With(Current.name, Dir) ELSE fs
    /\ Next1

Writable(path) == IsDir(Parent(path)) /\ ~IsDir(path)

\* Mutant: a file that cannot be opened is passed over.
WriteFileQuietly ==
    /\ pc = "unpack" /\ i <= Entries /\ Current.len < MaxName /\ kind(Current) \in {1, 3}
    /\ fs' = IF Writable(Current.name)
             THEN With(Current.name, <<Current.at, Current.size>>) ELSE fs
    /\ Next1

\* memcpy_to_file passes what fopen returns on to fwrite: a file that cannot
\* be opened ends the program.
WriteFile ==
    /\ pc = "unpack" /\ i <= Entries /\ Current.len < MaxName /\ kind(Current) \in {1, 3}
    /\ IF Writable(Current.name)
       THEN fs' = With(Current.name, <<Current.at, Current.size>>) /\ Next1
       ELSE Stop("crashed")

Done ==
    /\ pc = "unpack" /\ i > Entries
    /\ Stop("done")

Next == \/ Start \/ decrypt_debug_pkg \/ aes128ctr \/ Decrypted
        \/ NameTooLong \/ UnknownFlags \/ MakeDir \/ WriteFile \/ Done

Spec == Init /\ [][Next]_vars /\ WF_vars(Next)

-----------------------------------------------------------------------------
(* Properties. *)

\* Types and bounds.  The mapping keeps its extent and its header, and a byte of
\* the data carries its own byte of the key stream or none, never another one's;
\* only a retail package of Word bytes or more drives the loop out of the mapping;
\* and whatever is in the target is in a directory.
TypeOK ==
    /\ pc \in {"start", "debug", "retail", "unpack", "done", "failed", "crashed", "overrun"}
    /\ i \in 0 .. p.size + Entries + 1 /\ ctr \in 0 .. p.size + 1
    /\ DOMAIN pkg = 0 .. HeaderLen + p.size - 1
    /\ \A x \in DOMAIN pkg : pkg[x] \in {None} \union (IF x < HeaderLen THEN {} ELSE {x - HeaderLen})
    /\ pc = "overrun" => p.retail /\ Word <= p.size
    /\ \A path \in DOMAIN fs : path = <<>> \/ IsDir(Parent(path))
    /\ IsDir(<<>>)

\* The table is read only when every byte of the data, table and contents, has
\* lost exactly its own byte of the key stream, and the header is as it was:
\* in both modes, and for data that end inside a block.
InClear == pc \in {"unpack", "done"} => \A x \in DOMAIN pkg : pkg[x] = None

\* The entries the program is through with.
Passed == {k \in 1 .. Entries : pc \in {"unpack", "done", "failed", "crashed"} /\ k < i}

\* At every step of unpack_pkg, and wherever it stops, the target is what the
\* entries before make of it: each file of theirs is there, in a directory, with
\* the contents of the last of its name, and nothing is there that none of them
\* names, as what it names it.  At the end these are all the entries.
TreeIsTable ==
    /\ pc = "done" => Passed = 1 .. Entries
    /\ \A k \in Passed :
          kind(p.table[k]) # 4 =>
              LET path == p.table[k].name
                  same == {l \in Passed : p.table[l].name = path /\ kind(p.table[l]) # 4}
                  last == CHOOSE l \in same : \A m \in same : m <= l
              IN  /\ path \in DOMAIN fs /\ fs[path] = <<p.table[last].at, p.table[last].size>>
                  /\ IsDir(Parent(path))
    /\ \A path \in DOMAIN fs \ {<<>>} :
          \E k \in Passed : /\ p.table[k].name = path
                            /\ IsDir(path) <=> kind(p.table[k]) = 4

\* Every package whose table names a directory before what is in it, has no
\* name twice, no long names and no unknown flags, comes out; a retail one if it
\* is shorter than 4 GiB and the key is there, wherever the target can be entered.
WellFormed ==
    /\ \A k \in 1 .. Entries :
          /\ p.table[k].len < MaxName /\ kind(p.table[k]) \in {1, 3, 4}
          /\ \A l \in 1 .. Entries : k # l => p.table[k].name # p.table[l].name
          /\ Len(p.table[k].name) > 1 =>
                \E l \in 1 .. k - 1 : /\ p.table[l].name = Parent(p.table[k].name)
                                      /\ kind(p.table[l]) = 4
    /\ target
    /\ p.retail => p.size < Word /\ p.type = 1 /\ haskey

WellFormedComesOut == WellFormed ~> pc = "done"
===============================================================================

--------------------------------- MODULE Pup ----------------------------------
(***************************************************************************)
(* An update package from the directory puppack packs to the directory     *)
(* pupunpack writes: a table of the files, a digest of each, a digest of   *)
(* the two tables, and the files one behind the other.  pupunpack extracts *)
(* whatever the digests say; they are all a user has to judge by.          *)
(*                                                                         *)
(* The package is a function from offsets to cells.  A cell is the fixed   *)
(* head of the file (0x30 bytes), an entry of one of the tables (0x20),    *)
(* the digest of the tables (0x20), or a unit of a file.                   *)
(***************************************************************************)
EXTENDS Integers, Sequences, FiniteSets

CONSTANTS
    Names,          \* t_names: the sequence of names; a file's id is 0x100 + its index
    Inputs,         \* directories: functions from names to sizes
    Keys,           \* hmac keys
    NoKey,          \* key_get_simple failed
    MAX_FILES,
    MaxDamage       \* cells that change in storage

NamesAssumption ==
    /\ Names \in Seq(STRING)
    /\ \A a, b \in DOMAIN Names : Names[a] = Names[b] => a = b
InputsAssumption ==
    \A d \in Inputs : \A f \in DOMAIN d : d[f] \in Nat /\ \E t \in DOMAIN Names : Names[t] = f
NumbersAssumption ==
    MAX_FILES \in Nat /\ MaxDamage \in Nat /\ NoKey \notin Keys

VARIABLES
    input,      \* the directory puppack is given
    keys,       \* the keys puppack and pupunpack have
    pc,
    t,          \* loop counter over t_names, files[] or the sections
    files,      \* files[]
    pup,        \* the package
    made,       \* the package as puppack wrote it, if it wrote all of it
    damage,     \* cells damaged
    hdr_hmac,   \* pupunpack's verdict on the tables: "OK", "FAIL" or "???"
    hmac_res,   \* and on the sections
    out         \* the files it wrote

packer   == <<input, files, made>>
unpacker == <<hdr_hmac, hmac_res, out>>
vars     == <<input, keys, pc, t, files, pup, made, damage, hdr_hmac, hmac_res, out>>

n_files == Len(files)
Id(m)           == 256 + m
KnownId(id)     == \E m \in DOMAIN Names : id = Id(m)
NameOf(id)      == Names[id - 256]
Magic(n)         == <<-1, n>>
Sum(h)          == <<-2, h>>
Data(f, u)      == <<-3, f, u>>
Section(f)      == <<f.id, f.offset, f.len>>
HashOf(m, h)    == <<m, h>>
Garbled(x)      == <<"garbled", x>>
sha1_hmac(k, s) == <<"hmac", k, s>>
File(f, len)    == [u \in 1 .. len |-> Data(f, u)]
Size(p)         == Cardinality(DOMAIN p)
Cut(p, k)       == [u \in 0 .. k - 1 |-> p[u]]
Read(p, at, len) == [u \in 1 .. len |-> p[at + u - 1]]

-----------------------------------------------------------------------------
(* puppack *)

Init ==
    /\ input \in Inputs /\ keys \in [pack : Keys \cup {NoKey}, unpack : Keys \cup {NoKey}]
    /\ pc = "start" /\ t = 1 /\ files = <<>> /\ pup = <<>> /\ made = <<>>
    /\ damage = 0 /\ hdr_hmac = "none" /\ hmac_res = <<>> /\ out = <<>>

Goto(p) == pc' = p /\ t' = 1

\* No key, no output file: the run ends before the package is touched.  After
\* fopen it is empty, also when chdir fails.
Start ==
    /\ pc = "start"
    /\ \/ Goto("failed")
       \/ keys.pack # NoKey /\ (Goto("find") \/ Goto("failed"))
    /\ UNCHANGED <<packer, unpacker, keys, pup, damage>>

\* A round of find_files.  files[] has no room for all of t_names, and nothing
\* looks whether it is full.
FindFile ==
    /\ pc = "find" /\ t <= Len(Names)
    /\ \/ /\ Names[t] \notin DOMAIN input
          /\ t' = t + 1 /\ UNCHANGED <<pc, files>>
       \/ /\ Names[t] \in DOMAIN input /\ n_files < MAX_FILES
          /\ files' = Append(files, [id |-> Id(t), name |-> Names[t],
                                     len |-> input[Names[t]], offset |-> 0])
          /\ t' = t + 1 /\ UNCHANGED pc
       \/ Names[t] \in DOMAIN input /\ n_files = MAX_FILES /\ Goto("overrun") /\ UNCHANGED files
       \/ Names[t] \in DOMAIN input /\ Goto("failed") /\ UNCHANGED files  \* mmap_file
    /\ UNCHANGED <<input, made, unpacker, keys, pup, damage>>

\* Where each file goes: behind the tables, one after the other.
Offsets ==
    LET at[m \in 1 .. n_files] == IF m = 1 THEN 2 + 2 * n_files
                                  ELSE at[m - 1] + files[m - 1].len
    IN  at

FindDone ==
    /\ pc = "find" /\ t > Len(Names)
    /\ files' = [m \in 1 .. n_files |-> [files[m] EXCEPT !.offset = Offsets[m]]]
    /\ Goto("header")
    /\ UNCHANGED <<input, made, unpacker, keys, pup, damage>>

\* The cells the digest of the tables covers, for n files.
Covered(n) == 1 + 2 * n

\* Mutant: the digest of the tables is taken before those of the files.
HeaderEarly ==
    LET section == [m \in 1 .. n_files |-> Section(files[m])]
        blank   == [m \in 1 .. n_files |-> HashOf(m - 1, <<>>)]
        hash    == [m \in 1 .. n_files |-> HashOf(m - 1, sha1_hmac(keys.pack,
                                               File(files[m].name, files[m].len)))]
    IN  << Magic(n_files) >> \o section \o hash
          \o << Sum(sha1_hmac(keys.pack, SubSeq(<<Magic(n_files)>> \o section \o blank,
                                                1, Covered(n_files)))) >>

\* build_header: the tables, and last the digest over them.
Header ==
    LET section == [m \in 1 .. n_files |-> Section(files[m])]
        hash    == [m \in 1 .. n_files |-> HashOf(m - 1, sha1_hmac(keys.pack,
                                               File(files[m].name, files[m].len)))]
        tables  == << Magic(n_files) >> \o section \o hash
    IN  tables \o << Sum(sha1_hmac(keys.pack, SubSeq(tables, 1, Covered(n_files)))) >>

\* Written from the start; offsets of files follow one another.
WriteAt(p, at, cells) ==
    [u \in DOMAIN p \cup (at .. at + Len(cells) - 1) |->
        IF u \in at .. at + Len(cells) - 1 THEN cells[u - at + 1] ELSE p[u]]

WriteHdr ==
    /\ pc = "header"
    /\ pup' = WriteAt(<<>>, 0, Header)
    /\ Goto("write")
    /\ UNCHANGED <<packer, unpacker, keys, damage>>

WriteFile ==
    /\ pc = "write" /\ t <= n_files
    /\ pup' = WriteAt(pup, files[t].offset, File(files[t].name, files[t].len))
    /\ t' = t + 1
    /\ UNCHANGED <<pc, packer, unpacker, keys, damage>>

Close ==
    /\ pc = "write" /\ t > n_files
    /\ made' = pup
    /\ Goto("stored")
    /\ UNCHANGED <<input, files, unpacker, keys, pup, damage>>

\* puppack is interrupted, or its disk is full: the end is missing.
Stop ==
    /\ pc = "write"
    /\ \E k \in 0 .. Size(pup) : pup' = Cut(pup, k)
    /\ Goto("stored")
    /\ UNCHANGED <<packer, unpacker, keys, damage>>

-----------------------------------------------------------------------------
(* storage *)

\* What a damaged cell may become: every field may take another value.
Damaged(c) ==
    CASE c[1] = -1 -> {Magic(n) : n \in 0 .. MAX_FILES}
      [] c[1] = -2 -> {Sum(Garbled(c[2]))}
      [] c[1] = -3 -> {Data("garbled", c[3])}
      [] Len(c) = 3 /\ c[1] >= 0 ->
            {<<id, c[2], c[3]>> : id \in Id(0) .. Id(Len(Names))}
            \cup {<<c[1], at, c[3]>> : at \in 0 .. Size(pup)}
            \cup {<<c[1], c[2], len>> : len \in 0 .. 2}
      [] OTHER -> {<<m, c[2]>> : m \in 0 .. MAX_FILES} \cup {<<c[1], Garbled(c[2])>>}

Damage ==
    /\ pc = "stored" /\ damage < MaxDamage
    /\ \E u \in DOMAIN pup : \E c \in Damaged(pup[u]) \ {pup[u]} : pup' = [pup EXCEPT ![u] = c]
    /\ damage' = damage + 1
    /\ UNCHANGED <<pc, t, packer, unpacker, keys>>

-----------------------------------------------------------------------------
(* pupunpack *)

n_sections == pup[0][2]

\* Both tables and the digest behind them; a section's data.
Mapped(at, len) == len = 0 \/ (at >= 0 /\ at + len <= Size(pup))

check_hmac(hmac, s) ==
    IF keys.unpack = NoKey THEN "???"
    ELSE IF sha1_hmac(keys.unpack, s) = hmac THEN "OK" ELSE "FAIL"

\* mmap of an empty file fails unnoticed; mkdir insists on a new directory.
Open ==
    /\ pc = "stored"
    /\ Goto(IF pup = <<>> THEN "undefined" ELSE "verify") \/ Goto("failed")
    /\ UNCHANGED <<packer, unpacker, keys, pup, damage>>

\* do_pup's verdict on the tables; what is behind the mapping is undefined.
VerifyHdr ==
    /\ pc = "verify"
    /\ LET n == n_sections IN
       \/ /\ Mapped(0, 2 + 2 * n)
          /\ hdr_hmac' = check_hmac(IF pup[1 + 2 * n][1] = -2 THEN pup[1 + 2 * n][2]
                                    ELSE Garbled(0),
                                    Read(pup, 0, Covered(n)))
          /\ Goto("sections")
       \/ ~Mapped(0, 2 + 2 * n) /\ Goto("undefined") /\ UNCHANGED hdr_hmac
    /\ UNCHANGED <<packer, keys, pup, damage, hmac_res, out>>

\* Mutant: the table is searched for the first section, whichever is asked for.
find_hmac_first(m) ==
    {u \in 1 + n_sections .. 2 * n_sections :
        pup[u][1] = 0 /\ \A v \in 1 + n_sections .. u - 1 : pup[v][1] # 0}

\* The first digest of the table that is marked with the number of the section.
find_hmac(m) ==
    {u \in 1 + n_sections .. 2 * n_sections :
        pup[u][1] = m - 1 /\ \A v \in 1 + n_sections .. u - 1 : pup[v][1] # m - 1}

\* do_section: whatever the verdict, the file is written.
DoSection ==
    /\ pc = "sections" /\ t <= n_sections
    /\ LET id  == pup[t][1]
           at  == pup[t][2]
           len == pup[t][3]
       IN  \/ (~KnownId(id) \/ find_hmac(t) = {}) /\ Goto("failed")
              /\ UNCHANGED <<hmac_res, out>>
           \/ /\ KnownId(id) /\ Mapped(at, len)
              /\ \E u \in find_hmac(t) :
                    hmac_res' = Append(hmac_res, check_hmac(pup[u][2], Read(pup, at, len)))
              /\ out' = [f \in DOMAIN out \cup {NameOf(id)} |->
                            IF f = NameOf(id) THEN Read(pup, at, len) ELSE out[f]]
              /\ t' = t + 1 /\ UNCHANGED pc
           \/ /\ KnownId(id) /\ find_hmac(t) # {} /\ ~Mapped(at, len)
              /\ Goto("undefined") /\ UNCHANGED <<hmac_res, out>>
           \/ /\ KnownId(id) /\ find_hmac(t) # {} /\ Mapped(at, len)
              /\ Goto("crashed") /\ UNCHANGED <<hmac_res, out>>   \* fopen fails unnoticed
    /\ UNCHANGED <<packer, keys, pup, damage, hdr_hmac>>

Done ==
    /\ pc = "sections" /\ t > n_sections
    /\ Goto("done")
    /\ UNCHANGED <<packer, unpacker, keys, pup, damage>>

Next == \/ Start \/ FindFile \/ FindDone \/ WriteHdr \/ WriteFile \/ Close \/ Stop
        \/ Damage \/ Open \/ VerifyHdr \/ DoSection \/ Done

Spec == Init /\ [][Next]_vars

-----------------------------------------------------------------------------
(* Properties. *)

Verdicts == {"OK", "FAIL", "???"}

\* Types and bounds; no file is recorded behind the end of files[].
TypeOK ==
    /\ pc \in {"start", "find", "header", "write", "stored", "verify", "sections", "done",
               "failed", "overrun", "crashed", "undefined"}
    /\ n_files <= MAX_FILES
    /\ hdr_hmac \in Verdicts \cup {"none"} /\ hmac_res \in Seq(Verdicts)
    /\ pc = "sections" => t = Len(hmac_res) + 1
    /\ pup # <<>> => DOMAIN pup = 0 .. Size(pup) - 1

SameKey == keys.pack = keys.unpack /\ keys.unpack \in Keys

\* Below an intact table every verdict is exact: a section is reported OK if
\* and only if the file extracted is the one packed under that name.
Vouched ==
    hdr_hmac = "OK" =>
        \A m \in 1 .. Len(hmac_res) :
            LET f == NameOf(pup[m][1])
            IN  /\ f \in DOMAIN input
                /\ hmac_res[m] = "OK" <=> out[f] = File(f, input[f])

\* Nothing changes unnoticed: if pupunpack ends with OK for the tables and for
\* every section, the package is, to the last cell, the one puppack wrote, and
\* complete.
NothingUnnoticed ==
    pc = "done" /\ hdr_hmac = "OK" /\ (\A m \in DOMAIN hmac_res : hmac_res[m] = "OK") =>
        /\ out = [f \in DOMAIN input |-> File(f, input[f])]
        /\ made # <<>> => pup = made

\* And nothing is cried over: a complete and undamaged package gets OK for
\* everything from whoever has its key, ??? from whoever has none, FAIL from
\* whoever has another one, and all its files whatever the key.
IntactComesOut ==
    made # <<>> /\ damage = 0 =>
        LET verdict == IF SameKey THEN "OK" ELSE IF keys.unpack = NoKey THEN "???" ELSE "FAIL"
        IN  /\ pc # "undefined"
            /\ hdr_hmac \in {"none", verdict}
            /\ \A m \in DOMAIN hmac_res : hmac_res[m] = verdict
            /\ pc = "done" => out = [f \in DOMAIN input |-> File(f, input[f])]

\* What pupunpack prints can be relied on, in part and as a whole.
PupVerdicts == Vouched /\ NothingUnnoticed
===============================================================================

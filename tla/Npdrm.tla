-------------------------------- MODULE Npdrm ---------------------------------
(***************************************************************************)
(* Taking the NPDRM layer off the 0x40 bytes that hold the root key of a   *)
(* SELF: unself (tools.c) walks the control blocks of the mapped file,     *)
(* unself2 (self.c) first reads them into a list and then walks the list.  *)
(*                                                                         *)
(* Offsets are in units of the smallest control block.  Each program has   *)
(* its own variable; the two work on the same file and share nothing else. *)
(***************************************************************************)
EXTENDS Integers, Sequences, SequencesExt

CONSTANTS
    Areas,      \* control areas: sequences of the block headers read at 0, 1, ...
    Seals,      \* the NPDRM layer put on: "none", "free", "content", "other"
    Word,       \* 2^32, which the offset of self.c wraps at
    Memory      \* the list of self.c grows until memory is exhausted

NpdrmAssumption ==
    /\ Areas \subseteq Seq([type : Nat, size : Nat, licence : Nat])
    /\ Seals \subseteq {"none", "free", "content", "other"}
    /\ Word \in Nat \ {0} /\ Memory \in Nat \ {0}

VARIABLES
    file,       \* what does not change: the area, the seal, the type, and
                \* whether it is a debug SELF, whose metadata is in clear
    exdata,     \* the licence files: exdata/<content id>.rif and act.dat
    u,          \* unself:  pc, the offset i, the metadata
    v           \* unself2: pc, the offset and list, the index, the metadata

vars == <<file, exdata, u, v>>

Files == {"missing", "right", "foreign"}

\* The metadata is the layers it is under, the outermost last.
Sealed(f) ==
    CASE f.debug -> <<>>
      [] ~f.debug /\ f.seal = "none" -> <<"root">>
      [] OTHER -> <<"root", f.seal>>

\* unself decrypts nothing of a debug SELF (main).

Init ==
    /\ file \in [area : Areas, seal : Seals, npdrm : BOOLEAN, debug : BOOLEAN]
    /\ file.debug => file.seal = "none"
    /\ exdata \in [rif : Files, act : Files]
    /\ u = [pc |-> IF file.debug THEN "opened" ELSE "walk", i |-> 0, meta |-> Sealed(file)]
    /\ v = [pc |-> "read", off |-> 0, infos |-> <<>>, i |-> 1, meta |-> Sealed(file)]

ctrl_size == Len(file.area)
Block(o)  == file.area[o + 1]

\* A decryption takes the right layer off or adds one that nothing takes off.
aes128cbc(key, meta) ==
    IF meta # <<>> /\ Last(meta) = key THEN Front(meta) ELSE Append(meta, "noise")

\* klic is one key: the layers differ by the klicensee.
decrypt_npdrm(meta, klicensee) == aes128cbc(klicensee, meta)

\* Mutant: the klicensee of a local licence is used where there is no act.dat.
klicenseeNoActdat == IF exdata.rif = "right" THEN "content" ELSE "garbage"

\* rif and act.dat give the content's klicensee when both are its user's.
klicensee ==
    IF exdata.rif = "right" /\ exdata.act = "right" THEN "content" ELSE "garbage"

\* rif_get, actdat_get: no file, no licence.
Missing(f) == f = "missing"

\* One NPDRM block: what becomes of the program and of the metadata.  Without
\* the NPDRM keys, which keys_get reads for that type only, the pointers to them
\* are null.  A licence type that is none of the three says nothing.
Licence(type, meta) ==
    CASE type = 1 -> [pc |-> "refused", meta |-> meta]
      [] type = 2 ->
            IF Missing(exdata.rif) THEN [pc |-> "refused", meta |-> meta]
            ELSE IF ~file.npdrm THEN [pc |-> "crashed", meta |-> meta]
            ELSE IF Missing(exdata.act) THEN [pc |-> "refused", meta |-> meta]
            ELSE [pc |-> "walked", meta |-> decrypt_npdrm(meta, klicensee)]
      [] type = 3 ->
            IF ~file.npdrm THEN [pc |-> "crashed", meta |-> meta]
            ELSE [pc |-> "walked", meta |-> decrypt_npdrm(meta, "free")]

Npdrm(b) == b.type = 3 /\ b.licence \in 1 .. 3

-----------------------------------------------------------------------------
(* unself: sce_remove_npdrm. *)

\* Mutant: a licence type that is none of the three does not advance.
UWalkStuck ==
    /\ u.pc = "walk" /\ u.i < ctrl_size
    /\ LET b == Block(u.i)
       IN  u' = IF Npdrm(b) THEN [u EXCEPT !.pc = Licence(b.licence, u.meta).pc,
                                           !.meta = Licence(b.licence, u.meta).meta]
                ELSE IF b.type = 3 THEN u ELSE [u EXCEPT !.i = u.i + b.size]
    /\ UNCHANGED <<file, exdata, v>>

UWalk ==
    /\ u.pc = "walk" /\ u.i < ctrl_size
    /\ LET b == Block(u.i)
       IN  u' = IF Npdrm(b)
                THEN [u EXCEPT !.pc = Licence(b.licence, u.meta).pc,
                               !.meta = Licence(b.licence, u.meta).meta]
                ELSE [u EXCEPT !.i = u.i + b.size]
    /\ UNCHANGED <<file, exdata, v>>

UWalked ==
    /\ u.pc = "walk" /\ u.i >= ctrl_size
    /\ u' = [u EXCEPT !.pc = "walked"]
    /\ UNCHANGED <<file, exdata, v>>

\* A root key that fits is found, or the program fails.
Open(p) ==
    IF p.meta = <<"root">> THEN [p EXCEPT !.pc = "opened", !.meta = <<>>]
    ELSE [p EXCEPT !.pc = "refused"]

\* sce_decrypt_header.
UOpen ==
    /\ u.pc = "walked"
    /\ u' = Open(u)
    /\ UNCHANGED <<file, exdata, v>>

-----------------------------------------------------------------------------
(* unself2: self_read_headers, then self_read_metadata. *)

\* The list takes one block more; the offset is a 32-bit number.
VRead ==
    /\ v.pc = "read" /\ v.off < ctrl_size
    /\ LET b == Block(v.off)
       IN  v' = IF Len(v.infos) = Memory THEN [v EXCEPT !.pc = "crashed"]
                ELSE [v EXCEPT !.infos = Append(v.infos, b), !.off = (v.off + b.size) % Word]
    /\ UNCHANGED <<file, exdata, u>>

VReadDone ==
    /\ v.pc = "read" /\ v.off >= ctrl_size
    /\ v' = [v EXCEPT !.pc = "walk", !.off = 0]
    /\ UNCHANGED <<file, exdata, u>>

\* remove_npdrm, with an offset of 64 bits.
VWalk ==
    /\ v.pc = "walk" /\ v.off < ctrl_size
    /\ LET b == v.infos[v.i]
       IN  v' = IF Npdrm(b)
                THEN [v EXCEPT !.pc = Licence(b.licence, v.meta).pc,
                               !.meta = Licence(b.licence, v.meta).meta]
                ELSE [v EXCEPT !.off = v.off + b.size, !.i = v.i + 1]
    /\ UNCHANGED <<file, exdata, u>>

VWalked ==
    /\ v.pc = "walk" /\ v.off >= ctrl_size
    /\ v' = [v EXCEPT !.pc = "walked"]
    /\ UNCHANGED <<file, exdata, u>>

\* decrypt_metadata; the test for a debug SELF before it never succeeds, since
\* it compares the flags with 0x800.
VOpen ==
    /\ v.pc = "walked"
    /\ v' = Open(v)
    /\ UNCHANGED <<file, exdata, u>>

-----------------------------------------------------------------------------
UNext == UWalk \/ UWalked \/ UOpen
VNext == VRead \/ VReadDone \/ VWalk \/ VWalked \/ VOpen

Next == UNext \/ VNext

Spec == Init /\ [][Next]_vars /\ WF_vars(UNext) /\ WF_vars(VNext)

-----------------------------------------------------------------------------
(* Properties. *)

Ends == {"opened", "refused", "crashed"}

\* Types and bounds: the list that self.c walks has an entry for every offset
\* the walk visits, although it was read with a narrower offset.
TypeOK ==
    /\ u.pc \in {"walk", "walked"} \union Ends /\ u.i \in Nat
    /\ v.pc \in {"read", "walk", "walked"} \union Ends /\ v.off \in Nat
    /\ Len(v.infos) <= Memory
    /\ v.pc = "walk" /\ v.off < ctrl_size => v.i \in 1 .. Len(v.infos)

\* The two walks come to the same end with the same metadata wherever unself2
\* finishes the reading of its list, whatever the blocks say.
SameEnd ==
    ~file.debug /\ u.pc \in Ends /\ v.pc \in {"opened", "refused"} => u.pc = v.pc /\ u.meta = v.meta

\* The root key is found only under metadata that never had a layer or that
\* lost the one it had to its own licence; a file sealed for a foreign
\* licensee is refused by both programs.
OpenedByLicence ==
    \A p \in {u, v} : p.pc = "opened" =>
        \/ file.debug \/ file.seal = "none"
        \/ file.seal = "free" /\ file.npdrm
        \/ file.seal = "content" /\ file.npdrm /\ exdata = [rif |-> "right", act |-> "right"]

\* unself and unself2 take the layer off alike, and only by its licence.
WalksAgree == SameEnd /\ OpenedByLicence

\* Blocks that follow each other and fill the area, one of them the NPDRM block
\* with the licence the file was sealed with.
WellFormed ==
    LET seal == CASE file.seal = "free" -> {3} [] file.seal = "content" -> {2} [] OTHER -> {}
        area == file.area
    IN  /\ file.npdrm /\ ~file.debug
        /\ \A o \in 1 .. Len(area) : area[o].size = 1
        /\ \E o \in 1 .. Len(area) : Npdrm(area[o]) /\ area[o].licence \in seal
        /\ \A o \in 1 .. Len(area) : Npdrm(area[o]) => area[o].licence \in seal
        /\ file.seal = "content" => exdata = [rif |-> "right", act |-> "right"]

\* Both programs open a well-formed file, in whatever order its blocks come.
WellFormedOpens == WellFormed ~> (u.pc = "opened" /\ v.pc = "opened")

\* unself finishes the walk when no block has size 0; unself2 when the offset
\* does not wrap either.
Advances == \A o \in 1 .. ctrl_size : file.area[o].size > 0
NoWrap   == \A o \in 1 .. ctrl_size : o - 1 + file.area[o].size < Word

WalksEnd ==
    /\ Advances ~> u.pc \in Ends
    /\ (Advances /\ NoWrap /\ Memory >= ctrl_size) ~> v.pc \in {"opened", "refused", "crashed"}
===============================================================================

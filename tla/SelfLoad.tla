------------------------------- MODULE SelfLoad -------------------------------
(***************************************************************************)
(* unself2: the library of self.c reads a SELF section by section, each    *)
(* from the file as it is and decrypted with its own key only, and the     *)
(* sections are written one over the other.  (unself decrypts the whole    *)
(* file in place and then copies.)                                         *)
(*                                                                         *)
(* The SELF comes from makeself, with or without compression, and may have *)
(* one metadata section more, as other publishers' files do.  Sizes are in *)
(* units; unit x of the ELF file holds <<"elf", x>>.  The first HdrLen     *)
(* units are the ELF header and the program headers behind it.             *)
(***************************************************************************)
EXTENDS Integers, Sequences, FiniteSets

CONSTANTS
    Elfs,          \* ELF files: [size, phdr, shoff, shnum]
    HdrLen,
    HeaderSize,    \* header_size of makeself, a multiple of Alignment
    ElfOffset,     \* elf_offset: where the header has its copy of the ELF header
    Alignment,
    Extra,         \* metadata sections besides those of the program headers
    Sharing        \* whether two sections may have the same iv

Segment == [off : Nat, len : Nat \ {0}, load : BOOLEAN, zlen : Nat \ {0}]

\* Segments are neither empty nor over the end of the file, the copy of the ELF
\* header is inside the SELF's header, and segments have sections of their own.
ElfAssumption ==
    /\ Alignment \in Nat \ {0} /\ HeaderSize \in Nat /\ HdrLen \in Nat /\ ElfOffset \in Nat
    /\ HeaderSize % Alignment = 0 /\ ElfOffset + HdrLen <= HeaderSize
    /\ Extra \subseteq Nat \ {2} /\ Sharing \subseteq BOOLEAN
    /\ \A e \in Elfs :
          /\ e.phdr \in Seq(Segment) /\ e.phdr # <<>>
          /\ e.size \in Nat /\ e.shoff \in Nat /\ e.shnum \in Nat
          /\ e.shoff + e.shnum <= e.size /\ HdrLen <= e.size
          /\ \A k \in 1 .. Len(e.phdr) : e.phdr[k].off + e.phdr[k].len <= e.size

VARIABLES
    elf,        \* the ELF file
    zip,        \* makeself -c
    meta,       \* the metadata's section headers
    self,       \* the SELF: a function from offset to cell
    pc, i,      \* unself2's loop
    ivs,        \* how far each iv in keys has been counted up
    sections,   \* what self_load_sections made
    out         \* the output file: a function from offset to cell

vars == <<elf, zip, meta, self, pc, i, ivs, sections, out>>

round_up(x, n) == x + ((-x) % n)

\* A cell has contents and the positions of the key streams that are on it.
Clear(c) == [c |-> c, k |-> {}]
Toggle(cell, s) ==
    [cell EXCEPT !.k = IF s \in cell.k THEN cell.k \ {s} ELSE cell.k \union {s}]

-----------------------------------------------------------------------------
(* makeself and the SELF it leaves. *)

phnum == Len(elf.phdr)

\* compress_elf and fill_phdr_map.
Deflates(e, c, k) == c /\ e.phdr[k].load /\ e.phdr[k].zlen < e.phdr[k].len

phdr_map(e, c) ==
    LET Size(k) == IF Deflates(e, c, k) THEN e.phdr[k].zlen ELSE e.phdr[k].len
        off[k \in 1 .. Len(e.phdr)] ==
            IF ~c THEN e.phdr[k].off + HeaderSize
            ELSE IF k = 1 THEN HeaderSize
            ELSE round_up(off[k - 1] + Size(k - 1), Alignment)
    IN  [k \in 1 .. Len(e.phdr) |-> [offset |-> off[k], size |-> Size(k)]]

\* meta_add_load and meta_add_phdr: encrypted is 3 for a loadable segment.
Header(e, c, k, iv) ==
    [type |-> 2, data_offset |-> phdr_map(e, c)[k].offset, data_size |-> phdr_map(e, c)[k].size,
     program_idx |-> k, encrypted |-> e.phdr[k].load, iv |-> iv,
     compressed |-> Deflates(e, c, k)]

\* Behind the last section, in this model: the section headers.
Behind(e, c) ==
    IF c THEN phdr_map(e, c)[Len(e.phdr)].offset + phdr_map(e, c)[Len(e.phdr)].size
    ELSE HeaderSize + e.shoff

ExtraHeader(e, c, type) ==
    [type |-> type, data_offset |-> Behind(e, c), data_size |-> e.shnum,
     program_idx |-> 0, encrypted |-> FALSE, iv |-> 0, compressed |-> FALSE]

\* What write_elf and build_hdr put at offset x, before sce_encrypt_data.
Plain(e, c, x) ==
    LET m == phdr_map(e, c)
        In(k) == x \in m[k].offset .. m[k].offset + m[k].size - 1
    IN  IF x < HeaderSize
        THEN IF x \in ElfOffset .. ElfOffset + HdrLen - 1
             THEN <<"elf", x - ElfOffset>> ELSE <<"header", x>>
        ELSE IF ~c THEN <<"elf", x - HeaderSize>>
        ELSE IF \E k \in 1 .. Len(m) : In(k)
        THEN LET k == CHOOSE k \in 1 .. Len(m) : In(k)
             IN  IF Deflates(e, c, k) THEN <<"zip", k, x - m[k].offset>>
                 ELSE <<"elf", e.phdr[k].off + x - m[k].offset>>
        ELSE IF x \in Behind(e, c) .. Behind(e, c) + e.shnum - 1
        THEN <<"elf", e.shoff + x - Behind(e, c)>>
        ELSE <<"zero", 0>>

FileLen(e, c) ==
    HeaderSize + round_up(IF c THEN Behind(e, c) + e.shnum - HeaderSize ELSE e.size, Alignment)

\* Each section's key stream starts at its iv; a section's own iv in makeself.
Made(e, c, hs) ==
    [x \in 0 .. FileLen(e, c) - 1 |->
        [c |-> Plain(e, c, x),
         k |-> {<<hs[s].iv, x - hs[s].data_offset>> :
                   s \in {t \in 1 .. Len(hs) : /\ hs[t].encrypted
                                               /\ x >= hs[t].data_offset
                                               /\ x < hs[t].data_offset + hs[t].data_size}}]]

Init ==
    /\ elf \in Elfs /\ zip \in BOOLEAN
    /\ \E extra \in Extra, shared \in Sharing :
          meta = [k \in 1 .. phnum |-> Header(elf, zip, k, IF shared THEN 1 ELSE k)]
                 \o (IF extra = 0 THEN <<>> ELSE <<ExtraHeader(elf, zip, extra)>>)
    /\ self = Made(elf, zip, meta)
    /\ pc = "load" /\ i = 0
    /\ ivs = [k \in 0 .. phnum |-> 0]
    /\ sections = <<>> /\ out = <<>>

-----------------------------------------------------------------------------
(* self_load_sections. *)

Section(at, cells) == [offset |-> at, data |-> cells]
Skipped == [offset |-> -1, data |-> <<>>]

Cells(at, n) == [x \in 1 .. n |-> self[at + x - 1]]
Reads(at, n) == at + n <= FileLen(elf, zip)

Fail == pc' = "failed" /\ UNCHANGED <<elf, zip, meta, self, i, ivs, sections, out>>

\* Mutant: only the space in front of the first section is read.
Section0Gap ==
    /\ pc = "load" /\ i = 0
    /\ LET size == meta[1].data_offset - HeaderSize
       IN  sections' = <<Section(0, Cells(ElfOffset, size))>>
    /\ i' = 1
    /\ UNCHANGED <<elf, zip, meta, self, pc, ivs, out>>

\* Section 0: as much as lies in front of the first section, but at least the
\* headers; read from the start of the data, which must be there, and then
\* from the copy of the ELF header.
Section0 ==
    /\ pc = "load" /\ i = 0
    /\ LET gap  == meta[1].data_offset - HeaderSize
           size == IF gap < HdrLen THEN HdrLen ELSE gap
       IN  IF Reads(HeaderSize, size) /\ Reads(ElfOffset, size)
           THEN /\ sections' = <<Section(0, Cells(ElfOffset, size))>>
                /\ i' = 1
                /\ UNCHANGED <<elf, zip, meta, self, pc, ivs, out>>
           ELSE Fail

\* The section's bytes, with its key stream taken off from where its iv stands.
Decrypted(h) ==
    LET cells == Cells(h.data_offset, h.data_size)
    IN  IF h.encrypted THEN [x \in 1 .. h.data_size |-> Toggle(cells[x], <<h.iv, ivs[h.iv] + x - 1>>)]
        ELSE cells

\* aes128ctr counts the iv up in keys itself.
Counted(h) ==
    IF h.encrypted THEN [ivs EXCEPT ![h.iv] = @ + h.data_size] ELSE ivs

\* decompress does not return when its input is not the deflated segment.
Inflates(h, cells) ==
    \A x \in 1 .. h.data_size : cells[x] = Clear(<<"zip", h.program_idx, x - 1>>)

Inflated(k) == [x \in 1 .. elf.phdr[k].len |-> Clear(<<"elf", elf.phdr[k].off + x - 1>>)]

\* type 2: a segment, of the size and at the place its program header says.
\* makeself gives a raw section the segment's size.
SegmentSection ==
    /\ pc = "load" /\ i \in 1 .. Len(meta) /\ meta[i].type = 2
    /\ LET h == meta[i]
           p == elf.phdr[h.program_idx]
       IN  IF h.compressed /\ ~Inflates(h, Decrypted(h)) THEN Fail
           ELSE /\ sections' = Append(sections, Section(p.off,
                       IF h.compressed THEN Inflated(h.program_idx) ELSE Decrypted(h)))
                /\ ivs' = Counted(h)
                /\ i' = i + 1
                /\ UNCHANGED <<elf, zip, meta, self, pc, out>>

\* type 1: the section headers.
ShdrSection ==
    /\ pc = "load" /\ i \in 1 .. Len(meta) /\ meta[i].type = 1
    /\ sections' = Append(sections, Section(elf.shoff, Cells(meta[i].data_offset, meta[i].data_size)))
    /\ i' = i + 1
    /\ UNCHANGED <<elf, zip, meta, self, pc, ivs, out>>

\* Any other type is said to be skipped; but its data are copied all the same,
\* and as many as an uninitialised size says.
UnknownSection ==
    /\ pc = "load" /\ i \in 1 .. Len(meta) /\ meta[i].type \notin {1, 2}
    /\ \/ /\ sections' = Append(sections, Skipped)
          /\ i' = i + 1 /\ UNCHANGED pc
       \/ pc' = "crashed" /\ UNCHANGED <<sections, i>>
    /\ UNCHANGED <<elf, zip, meta, self, ivs, out>>

LoadDone ==
    /\ pc = "load" /\ i > Len(meta)
    /\ pc' = "write" /\ i' = 1
    /\ UNCHANGED <<elf, zip, meta, self, ivs, sections, out>>

-----------------------------------------------------------------------------
(* unself2's main. *)

Put(file, at, cells) ==
    [x \in DOMAIN file \union {at + k - 1 : k \in DOMAIN cells} |->
        IF x - at + 1 \in DOMAIN cells THEN cells[x - at + 1] ELSE file[x]]

WriteSection ==
    /\ pc = "write" /\ i <= Len(sections)
    /\ LET s == sections[i]
       IN  out' = IF s.offset = -1 THEN out ELSE Put(out, s.offset, s.data)
    /\ i' = i + 1
    /\ UNCHANGED <<elf, zip, meta, self, pc, ivs, sections>>

Done ==
    /\ pc = "write" /\ i > Len(sections)
    /\ pc' = "done"
    /\ UNCHANGED <<elf, zip, meta, self, i, ivs, sections, out>>

Next == \/ Section0 \/ SegmentSection \/ ShdrSection \/ UnknownSection \/ LoadDone
        \/ WriteSection \/ Done

Spec == Init /\ [][Next]_vars /\ WF_vars(Next)

-----------------------------------------------------------------------------
(* Properties. *)

\* Types and bounds: the list has one section for each header and section 0.
TypeOK ==
    /\ pc \in {"load", "write", "done", "failed", "crashed"}
    /\ i \in 0 .. Len(meta) + 2
    /\ pc = "load" => Len(sections) = i
    /\ pc \in {"write", "done"} => Len(sections) = Len(meta) + 1
    /\ DOMAIN out \subseteq 0 .. FileLen(elf, zip) + elf.size

Units(k)  == elf.phdr[k].off .. elf.phdr[k].off + elf.phdr[k].len - 1
Back(x)   == x \in DOMAIN out /\ out[x] = Clear(<<"elf", x>>)
Covers(x) == {k \in 1 .. phnum : x \in Units(k)}
Headers   == IF Len(meta) > phnum /\ meta[Len(meta)].type = 1
             THEN elf.shoff .. elf.shoff + elf.shnum - 1 ELSE {}

\* The first segment with this iv is read with the iv as it was.
FreshIv(k) == \A l \in 1 .. k - 1 : ~(meta[l].encrypted /\ meta[l].iv = meta[k].iv)

\* Of a SELF made with compression every segment comes back whole, even where
\* two of them overlap in the ELF file, unless two sections share an iv.
DeflatedBack ==
    pc = "done" /\ zip =>
        \A k \in 1 .. phnum : \A x \in Units(k) \ Headers :
            (\A l \in Covers(x) : meta[l].encrypted => FreshIv(l)) => Back(x)

\* Of one made without, sections overlap where segments do, and their bytes
\* carry the key streams of all of them: a unit comes back exactly when the last
\* segment that covers it took off the only key stream there was.
Layers(x) == {k \in Covers(x) : meta[k].encrypted}
Last(x)   == CHOOSE k \in Covers(x) : \A l \in Covers(x) : l <= k

RawBack ==
    pc = "done" /\ ~zip /\ (\A k \in 1 .. phnum : meta[k].iv = k) =>
        \A k \in 1 .. phnum : \A x \in Units(k) \ Headers :
            Back(x) <=> Layers(x) = {Last(x)} \intersect Layers(x)

\* The ELF header and the program headers come back, although they are read
\* from the SELF's header and not from the data, whatever else is written over
\* them that comes back itself.
HeadersBack ==
    pc = "done" => \A x \in 0 .. HdrLen - 1 : Covers(x) = {} /\ x \notin Headers => Back(x)

\* The section headers come back when the metadata has a section for them, and
\* no segment is written over them before.
ShdrsBack ==
    pc = "done" => \A x \in Headers : Covers(x) = {} => Back(x)

\* What unself2 gives back: segments, headers and section headers.
FileBack == DeflatedBack /\ RawBack /\ HeadersBack /\ ShdrsBack
===============================================================================

----------------------------- MODULE SelfSections -----------------------------
(***************************************************************************)
(* A compressed SELF from makeself -c and back to an ELF file by unself.   *)
(*                                                                         *)
(* makeself puts the segments of the ELF file one behind the other, each   *)
(* at an aligned offset: a loadable one deflated when that makes it        *)
(* shorter, any other as it is.  unself sees the deflated sections only,   *)
(* and takes what lies between two of them in the SELF for what lies       *)
(* between them in the ELF file.                                           *)
(*                                                                         *)
(* Sizes are in units; unit u of the ELF file holds <<"elf", u>>.          *)
(* Encryption, which is in between, is the subject of SceSystem.           *)
(***************************************************************************)
EXTENDS Integers, Sequences, FiniteSets

CONSTANTS
    Elfs,          \* ELF files: [size, phdr, shnum]
    HeaderSize,    \* header_size, in units
    Alignment,     \* ALIGNMENT, in units
    Word           \* 2^32, in units: the width of unself's u32 offsets

ASSUME SizesAssumption ==
    /\ Alignment \in Nat \ {0}
    /\ Word \in Nat \ {0}
    /\ HeaderSize \in Nat /\ HeaderSize % Alignment = 0

Segment == [off : Nat, len : Nat, load : BOOLEAN, zlen : Nat \ {0}]

\* phdr[i]: p_off, p_filesz, whether p_type is PT_LOAD, and the length of
\* its contents when deflated.  Segments end inside the file, and files are
\* shorter than 4 GiB: the loop in read_sections compares a u32 with the u64
\* size and would not end.
ASSUME ElfsAssumption ==
    \A e \in Elfs :
        /\ e.size \in Nat /\ e.shnum \in Nat
        /\ e.phdr \in Seq(Segment)
        /\ e.phdr # <<>>
        /\ \A k \in 1 .. Len(e.phdr) : e.phdr[k].off + e.phdr[k].len <= e.size
        /\ HeaderSize + e.size + Alignment <= Word

VARIABLES
    elf,             \* the ELF file
    pc,
    i, j,            \* loop counters
    phdr_map,        \* makeself: [offset, size, compressed] of each section
    offset,          \* makeself: where the next section goes
    self,            \* the SELF: a sequence of cells, self[1] at offset 0
    elf_offset,      \* unself: how far the ELF file is accounted for
    self_offset,     \* unself: where in the SELF it goes on
    self_sections,   \* unself: the pieces it will write
    out              \* the file unself writes: a function from offset to cell

vars == <<elf, pc, i, j, phdr_map, offset, self, elf_offset, self_offset,
          self_sections, out>>

\* Mutant: rounds down.
round_down(x, n) == x - (x % n)

round_up(x, n) == x + ((-x) % n)

phnum    == Len(elf.phdr)
filesize == round_up(elf.size, Alignment)            \* the field at 0x18

Cell(u)   == <<"elf", u>>
Zero      == <<"zero">>
Header(u) == <<"header", u>>
Junk      == <<"junk">>        \* what is in memory behind the image

-----------------------------------------------------------------------------
Init ==
    /\ elf \in Elfs
    /\ pc = "compress"
    /\ i = 1 /\ j = 1
    /\ phdr_map = <<>> /\ offset = HeaderSize
    /\ self = <<>>
    /\ elf_offset = 0 /\ self_offset = 0 /\ self_sections = <<>>
    /\ out = <<>>

\* One round of compress_elf.
CompressElf ==
    /\ pc = "compress" /\ i <= phnum
    /\ LET p          == elf.phdr[i]
           compressed == p.load /\ p.zlen < p.len
           size       == IF compressed THEN p.zlen ELSE p.len
       IN  /\ phdr_map' = Append(phdr_map, [offset |-> offset, size |-> size,
                                            compressed |-> compressed])
           /\ offset' = round_up(offset + size, Alignment)
    /\ i' = i + 1
    /\ UNCHANGED <<elf, pc, j, self, elf_offset, self_offset, self_sections, out>>

\* The end of the last section is where the section headers go.
shdr_offset     == phdr_map[phnum].offset + phdr_map[phnum].size
compressed_size == shdr_offset + elf.shnum

\* What memcpy puts at offset u of the image: the header, the sections, the
\* section headers behind them.
ImageCell(u) ==
    IF u < HeaderSize THEN Header(u)
    ELSE IF u >= shdr_offset THEN
        IF u < compressed_size THEN <<"shdr", u - shdr_offset>> ELSE Zero
    ELSE IF \E k \in 1 .. phnum :
              u \in phdr_map[k].offset .. phdr_map[k].offset + phdr_map[k].size - 1
    THEN LET k == CHOOSE k \in 1 .. phnum :
                    u \in phdr_map[k].offset .. phdr_map[k].offset + phdr_map[k].size - 1
         IN  IF phdr_map[k].compressed THEN <<"zip", k, u - phdr_map[k].offset>>
             ELSE Cell(elf.phdr[k].off + u - phdr_map[k].offset)
    ELSE Zero

\* build_hdr, write_elf, fwrite of header_size + compressed_size and of zeros up
\* to a multiple of ALIGNMENT.  The buffer is header_size + elf_size long: copying past it is undefined, and
\* what is written to the file from behind it is whatever memory holds.
Write ==
    /\ pc = "compress" /\ i > phnum
    /\ \/ /\ compressed_size <= HeaderSize + elf.size
          /\ self' = [u \in 1 .. HeaderSize + round_up(compressed_size, Alignment) |->
                        IF u > HeaderSize + compressed_size THEN Zero
                        ELSE IF u <= HeaderSize + elf.size THEN ImageCell(u - 1) ELSE Junk]
          /\ pc' = "read"
       \/ /\ compressed_size > HeaderSize + elf.size
          /\ pc' = "overrun"
          /\ UNCHANGED self
    /\ i' = 1
    /\ UNCHANGED <<elf, j, phdr_map, offset, elf_offset, self_offset,
                   self_sections, out>>

-----------------------------------------------------------------------------
\* read_sections.  The deflated sections not dealt with yet, and the first of
\* them: compress_elf left them in order of offset, so that the qsort changes
\* nothing.  next is the offset in the section header behind a section's own,
\* and behind the last one lies the version header, which reads as 0x100000000.
Pending == {k \in i .. phnum : phdr_map[k].compressed}
First   == CHOOSE k \in Pending : \A l \in Pending : k <= l
\* Mutants: the version header is not cut to 32 bits; the next section is taken
\* to follow without padding.
NextUncut(k)  == IF k < phnum THEN phdr_map[k + 1].offset % Word ELSE Word
NextPacked(k) == phdr_map[k].offset + phdr_map[k].size

next(k) == IF k < phnum THEN phdr_map[k + 1].offset % Word ELSE 0

Piece(off, size, zip, at) ==
    [offset |-> off, size |-> size, compressed |-> zip, elf_offset |-> at]

ReadSections ==
    /\ pc = "read"
    /\ elf_offset' = 0
    /\ self_offset' = HeaderSize
    /\ i' = 1 /\ j' = 1
    /\ pc' = "pieces"
    /\ UNCHANGED <<elf, phdr_map, offset, self, self_sections, out>>

InLoop == pc = "pieces" /\ elf_offset < filesize

\* Behind the last deflated section: the rest of the ELF file.
TailPiece ==
    /\ InLoop /\ Pending = {}
    /\ self_sections' = Append(self_sections,
          Piece(self_offset, filesize - elf_offset, FALSE, elf_offset))
    /\ elf_offset' = filesize
    /\ j' = j + 1
    /\ UNCHANGED <<elf, pc, i, phdr_map, offset, self, self_offset, out>>

\* A deflated section, at its segment's place.
SectionPiece ==
    /\ InLoop /\ Pending # {} /\ self_offset = phdr_map[First].offset
    /\ LET p == elf.phdr[First] IN
       /\ self_sections' = Append(self_sections,
             Piece(self_offset, phdr_map[First].size, TRUE, p.off))
       /\ elf_offset' = (p.off + p.len) % Word
    /\ self_offset' = next(First)
    /\ i' = First + 1 /\ j' = j + 1
    /\ UNCHANGED <<elf, pc, phdr_map, offset, self, out>>

\* Mutant: the piece in front does not bring self_offset to the section.
GapPieceStill ==
    /\ InLoop /\ Pending # {} /\ self_offset # phdr_map[First].offset
    /\ LET size == (elf.phdr[First].off - elf_offset) % Word IN
       /\ self_sections' = Append(self_sections,
             Piece(self_offset, size, FALSE, elf_offset))
       /\ elf_offset' = (elf_offset + size) % Word
    /\ j' = j + 1
    /\ UNCHANGED <<elf, pc, i, phdr_map, offset, self, self_offset, out>>

\* What is in front of it; the size is a u32 and wraps when segments are not
\* in the order of their offsets.
GapPiece ==
    /\ InLoop /\ Pending # {} /\ self_offset # phdr_map[First].offset
    /\ LET size == (elf.phdr[First].off - elf_offset) % Word IN
       /\ self_sections' = Append(self_sections,
             Piece(self_offset, size, FALSE, elf_offset))
       /\ elf_offset' = (elf_offset + size) % Word
    /\ self_offset' = phdr_map[First].offset
    /\ j' = j + 1
    /\ UNCHANGED <<elf, pc, i, phdr_map, offset, self, out>>

PiecesDone ==
    /\ pc = "pieces" /\ elf_offset >= filesize
    /\ pc' = "write" /\ i' = 1
    /\ UNCHANGED <<elf, j, phdr_map, offset, self, elf_offset, self_offset,
                   self_sections, out>>

\* One round of unself's write_elf.  A piece that ends behind the SELF is read
\* from the rest of the last page, which is zero, or from unmapped memory.
Put(file, at, cells) ==
    [u \in DOMAIN file \cup {at + k - 1 : k \in DOMAIN cells} |->
        IF u - at + 1 \in DOMAIN cells THEN cells[u - at + 1] ELSE file[u]]

SelfCell(u) == IF u < Len(self) THEN self[u + 1] ELSE Zero

Contents(q) ==
    IF q.compressed
    THEN LET k == CHOOSE k \in 1 .. phnum : phdr_map[k].offset = q.offset
                                            /\ phdr_map[k].compressed
         IN  [u \in 1 .. elf.phdr[k].len |-> Cell(elf.phdr[k].off + u - 1)]
    ELSE [u \in 1 .. q.size |-> SelfCell(q.offset + u - 1)]

\* Mutant: the loop counter is never advanced.
WritePieceForever ==
    /\ pc = "write" /\ i <= Len(self_sections)
    /\ LET q == self_sections[i]
           inside == q.offset + q.size <= Len(self)
       IN  \/ /\ q.size < Word \div 2
              /\ out' = Put(out, q.elf_offset, Contents(q))
              /\ UNCHANGED pc
           \/ ~inside /\ pc' = "crashed" /\ UNCHANGED out
    /\ UNCHANGED <<elf, i, j, phdr_map, offset, self, elf_offset, self_offset,
                   self_sections>>

WritePiece ==
    /\ pc = "write" /\ i <= Len(self_sections)
    /\ LET q == self_sections[i]
           inside == q.offset + q.size <= Len(self)
       IN  \/ /\ q.size < Word \div 2
              /\ out' = Put(out, q.elf_offset, Contents(q))
              /\ i' = i + 1
              /\ UNCHANGED pc
           \/ ~inside /\ pc' = "crashed" /\ UNCHANGED <<i, out>>
    /\ UNCHANGED <<elf, j, phdr_map, offset, self, elf_offset, self_offset,
                   self_sections>>

\* check_elf: a file that does not begin like an ELF file gets a new header,
\* with the program headers behind it and the section headers, read from where
\* makeself put them, and a string table at its end.
CheckElf ==
    /\ pc = "write" /\ i > Len(self_sections)
    /\ out' = IF 0 \in DOMAIN out /\ out[0] = Cell(0) THEN out
              ELSE LET end  == 1 + CHOOSE u \in DOMAIN out : \A v \in DOMAIN out : v <= u
                       tail == [k \in 1 .. elf.shnum + 1 |->
                                  IF k <= elf.shnum THEN SelfCell(shdr_offset + k - 1)
                                  ELSE <<"strtab", 0>>]
                       head == [k \in 1 .. 1 + phnum |-> <<"phdr", k - 1>>]
                   IN  Put(Put(out, end, tail), 0, head)
    /\ pc' = "done"
    /\ UNCHANGED <<elf, i, j, phdr_map, offset, self, elf_offset, self_offset,
                   self_sections>>

Next == \/ CompressElf \/ Write
        \/ ReadSections \/ TailPiece \/ SectionPiece \/ GapPiece \/ PiecesDone
        \/ WritePiece \/ CheckElf

Spec == Init /\ [][Next]_vars /\ WF_vars(Next)

-----------------------------------------------------------------------------
(* Properties. *)

Entry == [offset : Nat, size : Nat, compressed : BOOLEAN]

\* Types and bounds of the loop counters; sizes of the three tables.
TypeOK ==
    /\ pc \in {"compress", "read", "pieces", "write", "done", "overrun", "crashed"}
    /\ i \in Nat /\ j \in Nat
    /\ pc = "compress" => i \in 1 .. phnum + 1 /\ Len(phdr_map) = i - 1
    /\ pc # "compress" => Len(phdr_map) = phnum
    /\ phdr_map \in Seq(Entry)
    /\ offset \in Nat
    /\ elf_offset \in 0 .. Word - 1 /\ self_offset \in 0 .. Word - 1

\* compress_elf never puts one section over another or over the header, and
\* every one is aligned: what sce_encrypt_data does to one leaves the others be.
SectionsDisjoint ==
    /\ \A a \in DOMAIN phdr_map :
          /\ phdr_map[a].offset >= HeaderSize
          /\ phdr_map[a].offset % Alignment = 0
          /\ phdr_map[a].offset + phdr_map[a].size <= offset
    /\ \A a, b \in DOMAIN phdr_map :
          a < b => phdr_map[a].offset + phdr_map[a].size <= phdr_map[b].offset

\* read_sections makes at most two entries for each section and one for the
\* tail: its table of 255 is large enough for 127 sections, not for 255.
PiecesBounded ==
    pc \in {"pieces", "write", "done"} => Len(self_sections) <= 2 * phnum + 1

\* Deflated segments in the order of their offsets.
End(p)  == p.off + p.len
Sorted(S) == \A a, b \in S : a < b => End(elf.phdr[a]) <= elf.phdr[b].off
Rebuilt == out[0] # Cell(0)

Back(k) == \A u \in elf.phdr[k].off .. End(elf.phdr[k]) - 1 :
              u \in DOMAIN out /\ out[u] = Cell(u)

Deflated == {k \in 1 .. phnum : phdr_map[k].compressed}
Raw      == 1 .. phnum \ Deflated

\* Every deflated segment comes back at its place: no gap, tail or other
\* segment is written over it, and only a header that check_elf has to make up
\* may be.
DeflatedBack ==
    pc = "done" /\ Sorted(Deflated) =>
        \A k \in Deflated : (Rebuilt => elf.phdr[k].off > phnum) => Back(k)

\* A segment that was stored raw comes back exactly when it is as far from the
\* deflated segment in front of it in the ELF file as it is in the SELF.
Before(k)   == {c \in Deflated : c < k}
PrevOf(k)   == CHOOSE c \in Before(k) : \A d \in Before(k) : d <= c
ElfStart(k) == IF Before(k) = {} THEN 0 ELSE End(elf.phdr[PrevOf(k)])
SelfStart(k) == IF Before(k) = {} THEN HeaderSize ELSE phdr_map[PrevOf(k) + 1].offset

RawBack ==
    pc = "done" /\ Sorted(1 .. phnum) =>
        \A k \in Raw :
            (Rebuilt => elf.phdr[k].off > phnum) /\ elf.phdr[k].len > 0 =>
              (Back(k) <=> elf.phdr[k].off - ElfStart(k) = phdr_map[k].offset - SelfStart(k))

\* What unself gives back, deflated and raw.
SegmentsBack == DeflatedBack /\ RawBack

\* unself's loop over the sections always comes to its end.
Terminates == <>(pc \in {"done", "overrun", "crashed"})
=============================================================================

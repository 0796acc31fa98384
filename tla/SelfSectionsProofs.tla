-------------------------- MODULE SelfSectionsProofs --------------------------
(***************************************************************************)
(* Proofs about SelfSections, for all ELF files, header sizes and          *)
(* alignments: the sections of a compressed SELF are aligned and disjoint, *)
(* unself's table of pieces stays within its bound, and which segments     *)
(* come back is exactly what SegmentsBack says.  And, as they are in       *)
(* UnselfTools, about Npdrm, for all control areas and word sizes: the two *)
(* walks come to the same end, and only its own licence opens a file; and  *)
(* about SelfLoad: unself2 gives back exactly what its sections and ivs    *)
(* allow.                                                                  *)
(***************************************************************************)
EXTENDS UnselfTools, FiniteSetTheorems, WellFoundedInduction, TLAPS

\* A multiple of n leaves no remainder.
LEMMA MultipleMod ==
    ASSUME NEW n \in Nat \ {0}, NEW q \in Int
    PROVE  (n * q) % n = 0
<1>1. /\ n * q = n * ((n * q) \div n) + ((n * q) % n)
      /\ (n * q) % n \in 0 .. n - 1
      /\ (n * q) \div n \in Int
  OBVIOUS
<1> DEFINE d == q - ((n * q) \div n)
           r == (n * q) % n
<1>2. r = n * d /\ d \in Int /\ r \in 0 .. n - 1
  BY <1>1
<1> HIDE DEF d, r
<1>3. d = 0
  <2>1. CASE d >= 1
    <3>1. n * d >= n
      BY <2>1, <1>2
    <3> QED BY <3>1, <1>2
  <2>2. CASE d <= -1
    <3>1. n * d <= -n
      BY <2>2, <1>2
    <3> QED BY <3>1, <1>2
  <2> QED BY <2>1, <2>2, <1>2
<1>4. r = 0
  BY <1>2, <1>3
<1> QED BY <1>4 DEF r

\* round_up gives the next multiple of n that is not below x.
LEMMA RoundUp ==
    ASSUME NEW x \in Nat, NEW n \in Nat \ {0}
    PROVE  /\ round_up(x, n) \in Nat
           /\ x <= round_up(x, n) /\ round_up(x, n) < x + n
           /\ round_up(x, n) % n = 0
<1> DEFINE r == (-x) % n
           q == (-x) \div n
<1>1. -x = n * q + r /\ q \in Int /\ r \in 0 .. n - 1
  OBVIOUS
<1>2. round_up(x, n) = x + r
  BY DEF round_up
<1>3. x + r = n * (-q)
  <2> HIDE DEF q, r
  <2> QED BY <1>1
<1>4. (x + r) % n = 0
  <2> HIDE DEF q, r
  <2>1. (-q) \in Int
    BY <1>1
  <2>2. (n * (-q)) % n = 0
    BY <2>1, MultipleMod
  <2> QED BY <1>3, <2>2
<1> HIDE DEF q, r
<1> QED BY <1>1, <1>2, <1>4

\* A non-empty set of naturals has a least element: among the intervals from 0
\* to its elements, one is minimal for strict inclusion.
LEMMA LeastNat ==
    ASSUME NEW S \in SUBSET Nat, S # {}
    PROVE  \E k \in S : \A l \in S : k <= l
<1> DEFINE R == StrictSubsetOrdering(Nat)
           F == FiniteSubsetsOf(Nat)
           T == {0 .. s : s \in S}
<1>1. IsWellFoundedOn(R, F)
  BY FS_StrictSubsetOrderingWellFounded
<1>2. T \subseteq F /\ T # {}
  <2>1. \A s \in S : 0 .. s \in SUBSET Nat /\ IsFiniteSet(0 .. s)
    BY FS_Interval
  <2> QED BY <2>1 DEF FiniteSubsetsOf
<1>3. PICK x \in T : \A y \in T : ~ (<<y, x>> \in R)
  <2> HIDE DEF R, F, T
  <2> QED BY <1>1, <1>2, WFMin
<1>4. PICK k \in S : x = 0 .. k
  OBVIOUS
<1>5. ASSUME NEW l \in S, l < k
      PROVE  FALSE
  <2>1. 0 .. l \in T /\ 0 .. l \subseteq x /\ k \in x /\ k \notin 0 .. l
    BY <1>4, <1>5
  <2>2. 0 .. l \in SUBSET Nat /\ x \in SUBSET Nat
    BY <1>4
  <2>3. <<0 .. l, x>> \in R
    BY <2>1, <2>2 DEF StrictSubsetOrdering
  <2> QED BY <1>3, <2>1, <2>3
<1> QED BY <1>5

\* What a sequence holds.
LEMMA SeqElement ==
    ASSUME NEW S, NEW s \in Seq(S), NEW k \in 1 .. Len(s)
    PROVE  s[k] \in S
OBVIOUS

\* Of the deflated sections not dealt with yet, First is one.
LEMMA FirstPending ==
    ASSUME i \in Nat, phnum \in Nat, Pending # {}
    PROVE  First \in Pending /\ First \in i .. phnum /\ phdr_map[First].compressed
<1>1. Pending \in SUBSET Nat
  BY DEF Pending
<1>2. \E k \in Pending : \A l \in Pending : k <= l
  BY <1>1, LeastNat
<1>3. First \in Pending
  BY <1>2 DEF First
<1> QED BY <1>3 DEF Pending

\* What the assumptions say of one ELF file.
LEMMA ElfFacts ==
    ASSUME elf \in Elfs
    PROVE  /\ phnum \in Nat /\ phnum >= 1
           /\ elf.phdr \in Seq(Segment)
           /\ \A k \in 1 .. phnum :
                /\ elf.phdr[k].off \in Nat /\ elf.phdr[k].len \in Nat
                /\ elf.phdr[k].zlen \in Nat /\ elf.phdr[k].load \in BOOLEAN
           /\ elf.size \in Nat /\ elf.shnum \in Nat
           /\ filesize \in Nat /\ filesize < Word
           /\ HeaderSize + elf.size < Word
<1>1. /\ elf.size \in Nat /\ elf.shnum \in Nat
      /\ elf.phdr \in Seq(Segment)
      /\ elf.phdr # <<>>
      /\ HeaderSize + elf.size + Alignment <= Word
  BY ElfsAssumption
<1>2. filesize \in Nat /\ filesize < elf.size + Alignment
  <2>1. Alignment \in Nat \ {0}
    BY SizesAssumption
  <2> QED BY <1>1, <2>1, RoundUp DEF filesize
<1>3. phnum \in Nat /\ phnum >= 1
  BY <1>1 DEF phnum
<1>4. \A k \in 1 .. phnum :
        elf.phdr[k] \in Segment
  BY <1>1, SeqElement DEF phnum
<1>5. \A k \in 1 .. phnum :
        /\ elf.phdr[k].off \in Nat /\ elf.phdr[k].len \in Nat
        /\ elf.phdr[k].zlen \in Nat /\ elf.phdr[k].load \in BOOLEAN
  BY <1>4 DEF Segment
<1>6. HeaderSize + elf.size < Word /\ filesize < Word
  BY <1>1, <1>2, SizesAssumption
<1> QED BY <1>1, <1>2, <1>3, <1>5, <1>6

-----------------------------------------------------------------------------
(* The inductive invariant.  SectionsDisjoint needs that the next offset is   *)
(* itself aligned.  The bound on the pieces needs that at most one of them is *)
(* ahead of the sections dealt with, and that the next piece is then that     *)
(* section's own, or the loop is over.                                        *)

MapInv ==
    /\ phdr_map \in Seq(Entry)
    /\ offset \in Nat /\ offset >= HeaderSize /\ offset % Alignment = 0
    /\ pc = "compress" => i \in 1 .. phnum + 1 /\ Len(phdr_map) = i - 1
    /\ pc # "compress" => Len(phdr_map) = phnum
    /\ pc \in {"read", "pieces"} => shdr_offset <= HeaderSize + elf.size
    /\ SectionsDisjoint

Settled == IF Pending = {} THEN elf_offset >= filesize
           ELSE self_offset = phdr_map[First].offset

PieceInv ==
    /\ self_sections \in Seq([offset : Nat, size : Nat, compressed : BOOLEAN,
                              elf_offset : Nat])
    /\ i \in Nat /\ j \in Nat
    /\ elf_offset \in 0 .. Word - 1 /\ self_offset \in 0 .. Word - 1
    /\ pc \in {"compress", "read"} => self_sections = <<>>
    /\ pc = "pieces" =>
        /\ i \in 1 .. phnum + 1
        /\ \/ Len(self_sections) <= 2 * (i - 1)
           \/ Len(self_sections) <= 2 * (i - 1) + 1 /\ Settled
    /\ PiecesBounded

IInv ==
    /\ elf \in Elfs
    /\ pc \in {"compress", "read", "pieces", "write", "done", "overrun", "crashed"}
    /\ MapInv
    /\ PieceInv

LEMMA InitIInv == Init => IInv
<1> SUFFICES ASSUME Init PROVE IInv
  OBVIOUS
<1>1. elf \in Elfs /\ pc = "compress" /\ i = 1 /\ j = 1 /\ phdr_map = <<>>
      /\ offset = HeaderSize /\ elf_offset = 0 /\ self_offset = 0 /\ self_sections = <<>>
  BY DEF Init
<1>2. phnum \in Nat /\ phnum >= 1
  BY <1>1, ElfFacts
<1>3. MapInv
  BY <1>1, <1>2, SizesAssumption DEF MapInv, SectionsDisjoint
<1>4. PieceInv
  BY <1>1, SizesAssumption DEF PieceInv, PiecesBounded
<1> QED BY <1>1, <1>3, <1>4 DEF IInv

\* A round of compress_elf: the new section goes where the last one and its
\* padding ended.
LEMMA CompressStep == IInv /\ CompressElf => IInv'
<1> SUFFICES ASSUME IInv, CompressElf PROVE IInv'
  OBVIOUS
<1> DEFINE p          == elf.phdr[i]
           compressed == p.load /\ p.zlen < p.len
           size       == IF compressed THEN p.zlen ELSE p.len
           sec        == [offset |-> offset, size |-> size, compressed |-> compressed]
<1>1. /\ elf' = elf /\ pc = "compress" /\ pc' = "compress" /\ i <= phnum /\ i' = i + 1
      /\ j' = j /\ elf_offset' = elf_offset /\ self_offset' = self_offset
      /\ self_sections' = self_sections
      /\ phdr_map' = Append(phdr_map, sec)
      /\ offset' = round_up(offset + size, Alignment)
  BY DEF CompressElf
<1>2. /\ elf \in Elfs /\ MapInv /\ PieceInv
      /\ i \in 1 .. phnum + 1 /\ Len(phdr_map) = i - 1
      /\ phdr_map \in Seq(Entry)
      /\ offset \in Nat /\ offset >= HeaderSize /\ offset % Alignment = 0
      /\ SectionsDisjoint
  BY <1>1 DEF IInv, MapInv
<1>3. /\ phnum \in Nat /\ phnum' = phnum
      /\ compressed \in BOOLEAN /\ size \in Nat
  <2>1. phnum \in Nat /\ i \in 1 .. phnum
    BY <1>1, <1>2, ElfFacts
  <2>2. p.load \in BOOLEAN /\ p.len \in Nat /\ p.zlen \in Nat
    BY <2>1, <1>2, ElfFacts
  <2> QED BY <2>1, <2>2, <1>1 DEF phnum
<1> HIDE DEF compressed, size
<1>4. /\ offset' \in Nat /\ offset + size <= offset' /\ offset' % Alignment = 0
  <2>1. offset + size \in Nat /\ Alignment \in Nat \ {0}
    BY <1>2, <1>3, SizesAssumption
  <2> QED BY <1>1, <2>1, RoundUp
<1>5. /\ sec \in Entry
      /\ phdr_map' \in Seq(Entry)
      /\ Len(phdr_map') = i
      /\ phdr_map'[i] = sec
      /\ \A a \in 1 .. i - 1 : phdr_map'[a] = phdr_map[a]
      /\ DOMAIN phdr_map' = 1 .. i /\ DOMAIN phdr_map = 1 .. i - 1
  <2>1. sec \in Entry
    BY <1>2, <1>3 DEF Entry
  <2> QED BY <2>1, <1>1, <1>2, <1>3
<1>6. \A a \in 1 .. i - 1 :
        /\ phdr_map[a].offset \in Nat /\ phdr_map[a].size \in Nat
        /\ phdr_map[a].offset >= HeaderSize /\ phdr_map[a].offset % Alignment = 0
        /\ phdr_map[a].offset + phdr_map[a].size <= offset
  <2>1. \A a \in 1 .. i - 1 :
          phdr_map[a] \in Entry
    BY <1>2, SeqElement
  <2> QED BY <2>1, <1>2, <1>5 DEF SectionsDisjoint, Entry
<1>7. SectionsDisjoint'
  <2>1. \A a \in 1 .. i :
          /\ phdr_map'[a].offset >= HeaderSize /\ phdr_map'[a].offset % Alignment = 0
          /\ phdr_map'[a].offset + phdr_map'[a].size <= offset'
    <3> TAKE a \in 1 .. i
    <3>1. CASE a = i
      BY <3>1, <1>2, <1>3, <1>4, <1>5
    <3>2. CASE a # i
      <4>1. a \in 1 .. i - 1
        BY <3>2, <1>2, <1>3
      <4> QED BY <4>1, <1>2, <1>3, <1>4, <1>5, <1>6
    <3> QED BY <3>1, <3>2
  <2>2. \A a, b \in 1 .. i :
          a < b => phdr_map'[a].offset + phdr_map'[a].size <= phdr_map'[b].offset
    <3> TAKE a, b \in 1 .. i
    <3> HAVE a < b
    <3>1. a \in 1 .. i - 1
      BY <1>2, <1>3
    <3>2. CASE b = i
      BY <3>1, <3>2, <1>5, <1>6
    <3>3. CASE b # i
      <4>1. b \in 1 .. i - 1
        BY <3>3, <1>2, <1>3
      <4> QED BY <3>1, <4>1, <1>2, <1>5 DEF SectionsDisjoint
    <3> QED BY <3>2, <3>3
  <2> QED BY <2>1, <2>2, <1>5 DEF SectionsDisjoint
<1>8. MapInv'
  <2>1. i' \in 1 .. phnum' + 1 /\ Len(phdr_map') = i' - 1
    BY <1>1, <1>2, <1>3, <1>5
  <2>2. offset' >= HeaderSize
    BY <1>2, <1>3, <1>4, SizesAssumption
  <2> QED BY <2>1, <2>2, <1>1, <1>4, <1>5, <1>7 DEF MapInv
<1>9. PieceInv'
  BY <1>1, <1>2 DEF PieceInv, PiecesBounded
<1> QED BY <1>1, <1>2, <1>8, <1>9 DEF IInv

\* The actions that leave the section table alone.
LEMMA MapKept ==
    ASSUME IInv, UNCHANGED <<elf, phdr_map, offset>>,
           Len(phdr_map) = phnum, pc' # "compress",
           pc' \in {"read", "pieces"} =>
              pc \in {"read", "pieces"} \/ shdr_offset <= HeaderSize + elf.size
    PROVE  MapInv'
<1>1. phnum' = phnum /\ shdr_offset' = shdr_offset
  BY DEF phnum, shdr_offset
<1>2. SectionsDisjoint'
  BY DEF IInv, MapInv, SectionsDisjoint
<1> QED BY <1>1, <1>2 DEF IInv, MapInv

\* Behind compress_elf every section starts inside 32 bits.
LEMMA MapFacts ==
    ASSUME IInv, pc \in {"read", "pieces"}
    PROVE  \A k \in 1 .. phnum : /\ phdr_map[k].offset \in 0 .. Word - 1
                                 /\ phdr_map[k].size \in Nat
                                 /\ phdr_map[k].compressed \in BOOLEAN
<1>1. /\ phnum \in Nat /\ phnum >= 1 /\ HeaderSize + elf.size < Word
      /\ elf.size \in Nat /\ HeaderSize \in Nat /\ Word \in Nat
  BY ElfFacts, SizesAssumption DEF IInv
<1>2. /\ phdr_map \in Seq(Entry)
      /\ Len(phdr_map) = phnum
      /\ phdr_map[phnum].offset + phdr_map[phnum].size <= HeaderSize + elf.size
      /\ SectionsDisjoint
  BY DEF IInv, MapInv, shdr_offset
<1>3. DOMAIN phdr_map = 1 .. phnum
  BY <1>1, <1>2
<1>4. \A k \in 1 .. phnum : /\ phdr_map[k].offset \in Nat /\ phdr_map[k].size \in Nat
                            /\ phdr_map[k].compressed \in BOOLEAN
  <2>1. \A k \in 1 .. phnum :
          phdr_map[k] \in Entry
    BY <1>2, SeqElement
  <2> QED BY <2>1 DEF Entry
<1> SUFFICES ASSUME NEW k \in 1 .. phnum PROVE phdr_map[k].offset < Word
  BY <1>1, <1>4
<1>5. CASE k = phnum
  BY <1>1, <1>2, <1>4, <1>5
<1>6. CASE k # phnum
  <2>1. k < phnum /\ phnum \in 1 .. phnum
    BY <1>1, <1>6
  <2>2. phdr_map[k].offset + phdr_map[k].size <= phdr_map[phnum].offset
    BY <2>1, <1>2, <1>3 DEF SectionsDisjoint
  <2>3. /\ phdr_map[k].offset \in Nat /\ phdr_map[k].size \in Nat
        /\ phdr_map[phnum].offset \in Nat /\ phdr_map[phnum].size \in Nat
    BY <2>1, <1>4
  <2> QED BY <2>2, <2>3, <1>1, <1>2
<1> QED BY <1>5, <1>6

LEMMA WriteStep == IInv /\ Write => IInv'
<1> SUFFICES ASSUME IInv, Write PROVE IInv'
  OBVIOUS
<1>1. /\ pc = "compress" /\ i > phnum /\ i' = 1 /\ pc' \in {"read", "overrun"}
      /\ pc' = "read" => compressed_size <= HeaderSize + elf.size
      /\ UNCHANGED <<elf, j, phdr_map, offset, elf_offset, self_offset, self_sections>>
  BY DEF Write
<1>2. /\ phnum \in Nat /\ phnum >= 1 /\ elf.shnum \in Nat /\ elf.size \in Nat
      /\ HeaderSize \in Nat
  BY ElfFacts, SizesAssumption DEF IInv
<1>3. Len(phdr_map) = phnum /\ phdr_map \in Seq(Entry)
  BY <1>1, <1>2 DEF IInv, MapInv
<1>4. phdr_map[phnum].offset \in Nat /\ phdr_map[phnum].size \in Nat
  <2>1. phdr_map[phnum] \in Entry
    BY <1>2, <1>3, SeqElement
  <2> QED BY <2>1 DEF Entry
<1>5. pc' = "read" => shdr_offset <= HeaderSize + elf.size
  BY <1>1, <1>2, <1>4 DEF compressed_size, shdr_offset
<1>6. MapInv'
  BY <1>1, <1>3, <1>5, MapKept
<1>7. PieceInv'
  BY <1>1 DEF IInv, PieceInv, PiecesBounded
<1> QED BY <1>1, <1>6, <1>7 DEF IInv

LEMMA ReadSectionsStep == IInv /\ ReadSections => IInv'
<1> SUFFICES ASSUME IInv, ReadSections PROVE IInv'
  OBVIOUS
<1>1. /\ pc = "read" /\ pc' = "pieces" /\ i' = 1 /\ j' = 1
      /\ elf_offset' = 0 /\ self_offset' = HeaderSize
      /\ UNCHANGED <<elf, phdr_map, offset, self_sections>>
  BY DEF ReadSections
<1>2. /\ phnum \in Nat /\ phnum >= 1 /\ elf.size \in Nat
      /\ HeaderSize + elf.size < Word /\ HeaderSize \in Nat /\ Word \in Nat
  BY ElfFacts, SizesAssumption DEF IInv
<1>3. MapInv'
  BY <1>1, MapKept DEF IInv, MapInv
<1>4. self_sections' = <<>> /\ phnum' = phnum
  BY <1>1 DEF IInv, PieceInv, phnum
<1>5. elf_offset' \in 0 .. Word - 1 /\ self_offset' \in 0 .. Word - 1
  BY <1>1, <1>2
<1>6. PieceInv'
  BY <1>1, <1>2, <1>4, <1>5 DEF PieceInv, PiecesBounded
<1> QED BY <1>1, <1>3, <1>6 DEF IInv

\* A round of read_sections keeps the invariant when the piece it adds and the
\* offsets it sets are well formed, and it deals with a section or settles.
LEMMA RoundKept ==
    ASSUME IInv, pc = "pieces", pc' = "pieces",
           UNCHANGED <<elf, phdr_map, offset>>, j' = j + 1,
           NEW q \in [offset : Nat, size : Nat, compressed : BOOLEAN, elf_offset : Nat],
           self_sections' = Append(self_sections, q),
           elf_offset' \in 0 .. Word - 1, self_offset' \in 0 .. Word - 1,
           \/ i' \in i + 1 .. phnum + 1
           \/ i' = i /\ ~Settled /\ Settled'
    PROVE  IInv'
<1>1. phnum \in Nat /\ phnum' = phnum
  BY ElfFacts DEF IInv, phnum
<1>2. /\ i \in 1 .. phnum + 1 /\ j \in Nat
      /\ self_sections \in Seq([offset : Nat, size : Nat, compressed : BOOLEAN,
                                elf_offset : Nat])
      /\ \/ Len(self_sections) <= 2 * (i - 1)
         \/ Len(self_sections) <= 2 * (i - 1) + 1 /\ Settled
  BY DEF IInv, PieceInv
<1>3. /\ Len(self_sections) \in Nat
      /\ Len(self_sections') = Len(self_sections) + 1
      /\ self_sections' \in Seq([offset : Nat, size : Nat, compressed : BOOLEAN,
                                 elf_offset : Nat])
  BY <1>2
<1>4. i' \in 1 .. phnum + 1
  BY <1>1, <1>2
<1>5. \/ Len(self_sections') <= 2 * (i' - 1)
      \/ Len(self_sections') <= 2 * (i' - 1) + 1 /\ Settled'
  <2>1. CASE i' \in i + 1 .. phnum + 1
    <3>1. Len(self_sections) <= 2 * (i - 1) + 1
      BY <1>2, <1>3
    <3>2. Len(self_sections') <= 2 * (i' - 1)
      BY <2>1, <3>1, <1>1, <1>2, <1>3
    <3> QED BY <3>2
  <2>2. CASE i' = i /\ ~Settled /\ Settled'
    <3>1. Len(self_sections) <= 2 * (i - 1)
      BY <2>2, <1>2
    <3>2. Len(self_sections') <= 2 * (i' - 1) + 1
      BY <2>2, <3>1, <1>2, <1>3
    <3> QED BY <2>2, <3>2
  <2> QED BY <2>1, <2>2
<1>6. PiecesBounded'
  <2>1. Len(self_sections') <= 2 * (i' - 1) + 1
    BY <1>3, <1>4, <1>5
  <2>2. Len(self_sections') <= 2 * phnum' + 1
    BY <2>1, <1>1, <1>3, <1>4
  <2> QED BY <2>2 DEF PiecesBounded
<1>7. PieceInv'
  BY <1>1, <1>2, <1>3, <1>4, <1>5, <1>6 DEF PieceInv
<1>8. MapInv'
  BY MapKept DEF IInv, MapInv
<1> QED BY <1>7, <1>8 DEF IInv

LEMMA TailStep == IInv /\ TailPiece => IInv'
<1> SUFFICES ASSUME IInv, TailPiece PROVE IInv'
  OBVIOUS
<1> DEFINE q == Piece(self_offset, filesize - elf_offset, FALSE, elf_offset)
<1>1. /\ pc = "pieces" /\ elf_offset < filesize /\ Pending = {}
      /\ self_sections' = Append(self_sections, q)
      /\ elf_offset' = filesize /\ j' = j + 1
      /\ UNCHANGED <<elf, pc, i, phdr_map, offset, self_offset>>
  BY DEF TailPiece, InLoop
<1>2. /\ filesize \in Nat /\ filesize < Word /\ Word \in Nat
      /\ elf_offset \in 0 .. Word - 1 /\ self_offset \in 0 .. Word - 1
  BY ElfFacts, SizesAssumption DEF IInv, PieceInv
<1>3. q \in [offset : Nat, size : Nat, compressed : BOOLEAN, elf_offset : Nat]
  BY <1>1, <1>2 DEF Piece
<1>4. ~Settled /\ Settled'
  <2>1. filesize' = filesize /\ Pending' = Pending
    BY <1>1 DEF filesize, Pending, phnum, round_up
  <2> QED BY <2>1, <1>1, <1>2 DEF Settled
<1>5. elf_offset' \in 0 .. Word - 1
  BY <1>1, <1>2
<1> HIDE DEF q
<1> QED BY <1>1, <1>2, <1>3, <1>4, <1>5, RoundKept

LEMMA SectionStep == IInv /\ SectionPiece => IInv'
<1> SUFFICES ASSUME IInv, SectionPiece PROVE IInv'
  OBVIOUS
<1> DEFINE p == elf.phdr[First]
           q == Piece(self_offset, phdr_map[First].size, TRUE, p.off)
<1>1. /\ pc = "pieces" /\ Pending # {}
      /\ self_sections' = Append(self_sections, q)
      /\ elf_offset' = (p.off + p.len) % Word
      /\ self_offset' = next(First)
      /\ i' = First + 1 /\ j' = j + 1
      /\ UNCHANGED <<elf, pc, phdr_map, offset>>
  BY DEF SectionPiece, InLoop
<1>2. /\ phnum \in Nat /\ i \in 1 .. phnum + 1 /\ Word \in Nat \ {0}
      /\ self_offset \in 0 .. Word - 1
  BY <1>1, ElfFacts, SizesAssumption DEF IInv, PieceInv
<1>3. First \in i .. phnum
  BY <1>1, <1>2, FirstPending
<1>4. p.off \in Nat /\ p.len \in Nat
  BY <1>2, <1>3, ElfFacts DEF IInv
<1>5. phdr_map[First].size \in Nat
  BY <1>1, <1>2, <1>3, MapFacts
<1>6. q \in [offset : Nat, size : Nat, compressed : BOOLEAN, elf_offset : Nat]
  BY <1>2, <1>4, <1>5 DEF Piece
<1>7. elf_offset' \in 0 .. Word - 1
  <2> HIDE DEF p
  <2>1. p.off + p.len \in Nat
    BY <1>4
  <2>2. (p.off + p.len) % Word \in 0 .. Word - 1
    BY <2>1, <1>2
  <2> QED BY <2>2, <1>1
<1>8. self_offset' \in 0 .. Word - 1
  <2>1. CASE First < phnum
    <3>1. First + 1 \in 1 .. phnum
      BY <2>1, <1>2, <1>3
    <3>2. phdr_map[First + 1].offset \in 0 .. Word - 1
      BY <3>1, <1>1, MapFacts
    <3> QED BY <2>1, <3>2, <1>1, <1>2 DEF next
  <2>2. CASE ~(First < phnum)
    BY <2>2, <1>1, <1>2 DEF next
  <2> QED BY <2>1, <2>2
<1>9. i' \in i + 1 .. phnum + 1
  BY <1>1, <1>2, <1>3
<1> HIDE DEF p, q
<1> QED BY <1>1, <1>6, <1>7, <1>8, <1>9, RoundKept

LEMMA GapStep == IInv /\ GapPiece => IInv'
<1> SUFFICES ASSUME IInv, GapPiece PROVE IInv'
  OBVIOUS
<1> DEFINE size == (elf.phdr[First].off - elf_offset) % Word
           q    == Piece(self_offset, size, FALSE, elf_offset)
<1>1. /\ pc = "pieces" /\ Pending # {} /\ self_offset # phdr_map[First].offset
      /\ self_sections' = Append(self_sections, q)
      /\ elf_offset' = (elf_offset + size) % Word
      /\ self_offset' = phdr_map[First].offset
      /\ j' = j + 1
      /\ UNCHANGED <<elf, pc, i, phdr_map, offset>>
  BY DEF GapPiece, InLoop
<1>2. /\ phnum \in Nat /\ i \in 1 .. phnum + 1 /\ Word \in Nat \ {0}
      /\ self_offset \in 0 .. Word - 1 /\ elf_offset \in 0 .. Word - 1
  BY <1>1, ElfFacts, SizesAssumption DEF IInv, PieceInv
<1>3. First \in 1 .. phnum
  BY <1>1, <1>2, FirstPending
<1>4. size \in Nat
  <2>1. elf.phdr[First].off \in Nat
    BY <1>2, <1>3, ElfFacts DEF IInv
  <2> QED BY <2>1, <1>2
<1>5. self_offset' \in 0 .. Word - 1
  BY <1>1, <1>3, MapFacts
<1> HIDE DEF size
<1>6. q \in [offset : Nat, size : Nat, compressed : BOOLEAN, elf_offset : Nat]
  BY <1>2, <1>4 DEF Piece
<1>7. elf_offset' \in 0 .. Word - 1
  BY <1>1, <1>2, <1>4
<1>8. ~Settled /\ Settled'
  <2>1. Pending' = Pending
    BY <1>1 DEF Pending, phnum
  <2>2. First' = First
    BY <2>1 DEF First
  <2> QED BY <2>1, <2>2, <1>1 DEF Settled
<1> HIDE DEF q
<1> QED BY <1>1, <1>5, <1>6, <1>7, <1>8, RoundKept

\* What comes after the loop leaves its tables alone.
LEMMA WriteOutStep == IInv /\ (PiecesDone \/ WritePiece \/ CheckElf) => IInv'
<1> SUFFICES ASSUME IInv, PiecesDone \/ WritePiece \/ CheckElf PROVE IInv'
  OBVIOUS
<1>1. /\ UNCHANGED <<elf, j, phdr_map, offset, elf_offset, self_offset, self_sections>>
      /\ pc \in {"pieces", "write"} /\ pc' \in {"write", "crashed", "done"}
  BY DEF PiecesDone, WritePiece, CheckElf
<1>2. i \in Nat /\ i' \in Nat
  BY DEF IInv, PieceInv, PiecesDone, WritePiece, CheckElf
<1>3. MapInv'
  BY <1>1, MapKept DEF IInv, MapInv
<1>4. PiecesBounded'
  <2>1. phnum' = phnum
    BY <1>1 DEF phnum
  <2> QED BY <2>1, <1>1 DEF IInv, PieceInv, PiecesBounded
<1>5. PieceInv'
  BY <1>1, <1>2, <1>4 DEF IInv, PieceInv
<1> QED BY <1>1, <1>3, <1>5 DEF IInv

LEMMA NextIInv == IInv /\ [Next]_vars => IInv'
<1> SUFFICES ASSUME IInv, [Next]_vars PROVE IInv'
  OBVIOUS
<1>1. CASE CompressElf
  BY <1>1, CompressStep
<1>2. CASE Write
  BY <1>2, WriteStep
<1>3. CASE ReadSections
  BY <1>3, ReadSectionsStep
<1>4. CASE TailPiece
  BY <1>4, TailStep
<1>5. CASE SectionPiece
  BY <1>5, SectionStep
<1>6. CASE GapPiece
  BY <1>6, GapStep
<1>7. CASE PiecesDone \/ WritePiece \/ CheckElf
  BY <1>7, WriteOutStep
<1>8. CASE UNCHANGED vars
  <2>1. /\ phnum' = phnum /\ shdr_offset' = shdr_offset /\ Pending' = Pending
        /\ First' = First /\ filesize' = filesize
    BY <1>8 DEF vars, phnum, shdr_offset, Pending, First, filesize, round_up
  <2>2. Settled' <=> Settled
    BY <2>1, <1>8 DEF vars, Settled
  <2> QED BY <2>1, <2>2, <1>8
          DEF vars, IInv, MapInv, PieceInv, SectionsDisjoint, PiecesBounded
<1> QED BY <1>1, <1>2, <1>3, <1>4, <1>5, <1>6, <1>7, <1>8 DEF Next

THEOREM Invariance == Spec => []IInv
  BY InitIInv, NextIInv, PTL DEF Spec

\* Every variable of makeself -c and unself has its type; the u32 offsets of
\* read_sections never leave 32 bits for an ELF file below 4 GiB.
THEOREM TypeCorrect == Spec => []TypeOK
<1>1. IInv => TypeOK
  BY DEF IInv, MapInv, PieceInv, TypeOK
<1> QED BY <1>1, Invariance, PTL

\* compress_elf puts sections behind each other, aligned, whatever the segments
\* of the ELF file are and however many there are.
THEOREM SectionsNeverOverlap == Spec => []SectionsDisjoint
<1>1. IInv => SectionsDisjoint
  BY DEF IInv, MapInv
<1> QED BY <1>1, Invariance, PTL

\* read_sections fills at most two entries for each program header and one more,
\* in whatever order the segments are and however their offsets wrap.
THEOREM PieceTableBound == Spec => []PiecesBounded
<1>1. IInv => PiecesBounded
  BY DEF IInv, PieceInv
<1> QED BY <1>1, Invariance, PTL

-----------------------------------------------------------------------------
(* What comes back.  The table of sections says what each segment was stored  *)
(* as, the SELF holds the raw ones cell by cell and nothing of an ELF file    *)
(* anywhere else.                                                             *)

Zipped(k) == elf.phdr[k].load /\ elf.phdr[k].zlen < elf.phdr[k].len

Shapes ==
    /\ \A k \in 1 .. Len(phdr_map) :
          /\ phdr_map[k].compressed <=> Zipped(k)
          /\ phdr_map[k].size = IF Zipped(k) THEN elf.phdr[k].zlen ELSE elf.phdr[k].len
    /\ IF phdr_map = <<>> THEN offset = HeaderSize ELSE phdr_map[1].offset = HeaderSize

HoldsRaw ==
    /\ \A k \in Raw : \A x \in 0 .. elf.phdr[k].len - 1 :
          SelfCell(phdr_map[k].offset + x) = Cell(elf.phdr[k].off + x)
    /\ \A u, v \in Nat : SelfCell(u) = Cell(v) =>
          \E k \in Raw : \E x \in 0 .. elf.phdr[k].len - 1 :
             u = phdr_map[k].offset + x /\ v = elf.phdr[k].off + x

Stored ==
    /\ pc \in {"compress", "read", "pieces"} => out = <<>>
    /\ pc \in {"read", "pieces", "write"} => HoldsRaw

\* The piece of a deflated section, and how many cells a piece comes to.
SectionOf(c) == Piece(phdr_map[c].offset, phdr_map[c].size, TRUE, elf.phdr[c].off)
SegmentOf(q) == CHOOSE k \in 1 .. phnum : phdr_map[k].offset = q.offset
                                          /\ phdr_map[k].compressed
Extent(q)    == IF q.compressed THEN elf.phdr[SegmentOf(q)].len ELSE q.size
Ending(q)    == q.elf_offset + Extent(q)

\* A deflated section has its piece; a raw one has a piece that starts where
\* the last deflated one in front of it ends and is long enough.
HasPiece(c) == \E n \in DOMAIN self_sections : self_sections[n] = SectionOf(c)
Covered(k)  == \E n \in DOMAIN self_sections :
                  /\ ~self_sections[n].compressed
                  /\ self_sections[n].offset = SelfStart(k)
                  /\ self_sections[n].elf_offset = ElfStart(k)
                  /\ End(elf.phdr[k]) <= Ending(self_sections[n])

\* Pieces lie one behind the other.
InOrder ==
    /\ elf_offset <= filesize
    /\ \A n \in DOMAIN self_sections : Ending(self_sections[n]) <= elf_offset
    /\ \A m, n \in DOMAIN self_sections :
          m < n => Ending(self_sections[m]) <= self_sections[n].elf_offset
    /\ \A n \in DOMAIN self_sections :
          self_sections[n].compressed => \E c \in Deflated : self_sections[n] = SectionOf(c)

\* While the loop runs.  What is in front of the next deflated section is either
\* still to be covered, and then the loop is where the last one ended, or it is.
Passed(k) == k < i \/ (Settled /\ (Pending = {} \/ k < First))

Underway ==
    /\ i = 1 \/ i - 1 \in Deflated
    /\ \A c \in Pending : elf_offset <= elf.phdr[c].off
    /\ \A c \in Deflated : c < i => HasPiece(c)
    /\ ~Settled => /\ elf_offset = IF i = 1 THEN 0 ELSE End(elf.phdr[i - 1])
                   /\ self_offset = IF i = 1 THEN HeaderSize ELSE next(i - 1)
    /\ Sorted(1 .. phnum) =>
          \A k \in Raw : elf.phdr[k].len > 0 /\ Passed(k) => Covered(k)

\* Behind it, while the pieces are written.
Complete ==
    /\ \A c \in Deflated : HasPiece(c)
    /\ Sorted(1 .. phnum) => \A k \in Raw : elf.phdr[k].len > 0 => Covered(k)

Written ==
    /\ i >= 1
    /\ DOMAIN out \subseteq 0 .. filesize - 1
    /\ \A n \in DOMAIN self_sections : n < i =>
          \A x \in 1 .. Extent(self_sections[n]) :
             LET u == self_sections[n].elf_offset + x - 1
             IN  u \in DOMAIN out /\ out[u] = Contents(self_sections[n])[x]

BInv ==
    /\ IInv /\ Shapes /\ Stored
    /\ pc \in {"pieces", "write"} /\ Sorted(Deflated) =>
          /\ InOrder
          /\ pc = "pieces" => Underway
          /\ pc = "write" => Complete /\ Written
    /\ SegmentsBack

-----------------------------------------------------------------------------
(* Facts about the tables. *)

LEMMA TablesKept ==
    ASSUME UNCHANGED <<elf, phdr_map>>
    PROVE  /\ phnum' = phnum /\ filesize' = filesize /\ Deflated' = Deflated /\ Raw' = Raw
           /\ Sorted(Deflated)' <=> Sorted(Deflated)
           /\ Sorted(1 .. phnum)' <=> Sorted(1 .. phnum)
           /\ \A k : /\ SectionOf(k)' = SectionOf(k) /\ next(k)' = next(k)
                     /\ ElfStart(k)' = ElfStart(k) /\ SelfStart(k)' = SelfStart(k)
           /\ \A q : Extent(q)' = Extent(q) /\ Ending(q)' = Ending(q)
<1>1. phnum' = phnum /\ filesize' = filesize
  BY DEF phnum, filesize, round_up
<1>2. Deflated' = Deflated /\ Raw' = Raw
  BY <1>1 DEF Deflated, Raw
<1>3. /\ Sorted(Deflated)' <=> Sorted(Deflated)
      /\ Sorted(1 .. phnum)' <=> Sorted(1 .. phnum)
  BY <1>1, <1>2 DEF Sorted, End
<1>4. ASSUME NEW k
      PROVE  /\ SectionOf(k)' = SectionOf(k) /\ next(k)' = next(k)
             /\ ElfStart(k)' = ElfStart(k) /\ SelfStart(k)' = SelfStart(k)
  <2>1. SectionOf(k)' = SectionOf(k) /\ next(k)' = next(k)
    BY <1>1 DEF SectionOf, Piece, next
  <2>2. Before(k)' = Before(k)
    BY <1>2 DEF Before
  <2>3. PrevOf(k)' = PrevOf(k)
    BY <2>2 DEF PrevOf
  <2> QED BY <2>1, <2>2, <2>3 DEF ElfStart, SelfStart, End
<1>5. ASSUME NEW q PROVE Extent(q)' = Extent(q) /\ Ending(q)' = Ending(q)
  <2>1. SegmentOf(q)' = SegmentOf(q)
    BY <1>1 DEF SegmentOf
  <2>2. Extent(q)' = Extent(q)
    BY <2>1 DEF Extent
  <2> QED BY <2>2 DEF Ending
<1> QED BY <1>1, <1>2, <1>3, <1>4, <1>5

LEMMA SegmentFits ==
    ASSUME elf \in Elfs
    PROVE  /\ \A k \in 1 .. phnum : End(elf.phdr[k]) \in Nat /\ End(elf.phdr[k]) <= elf.size
           /\ elf.size <= filesize
<1>1. \A k \in 1 .. phnum : /\ elf.phdr[k].off \in Nat /\ elf.phdr[k].len \in Nat
                            /\ elf.phdr[k].off + elf.phdr[k].len <= elf.size
  BY ElfFacts, ElfsAssumption DEF phnum
<1>2. elf.size \in Nat /\ Alignment \in Nat \ {0}
  BY ElfFacts, SizesAssumption
<1>3. elf.size <= filesize
  BY <1>2, RoundUp DEF filesize
<1> QED BY <1>1, <1>3 DEF End

\* A compressed SELF's table: raw sections have their segment's size, deflated
\* ones are smaller and not empty; all lie in the order of the segments.
LEMMA TableFacts ==
    ASSUME IInv, Shapes, Len(phdr_map) = phnum
    PROVE  /\ phnum \in Nat /\ phnum >= 1 /\ HeaderSize \in Nat
           /\ phdr_map[1].offset = HeaderSize
           /\ \A k \in 1 .. phnum :
                /\ phdr_map[k].offset \in Nat /\ phdr_map[k].size \in Nat
                /\ elf.phdr[k].off \in Nat /\ elf.phdr[k].len \in Nat
                /\ phdr_map[k].compressed <=> k \in Deflated
                /\ phdr_map[k].compressed \in BOOLEAN
                /\ k \in Raw <=> k \notin Deflated
                /\ k \in Deflated => phdr_map[k].size >= 1 /\ elf.phdr[k].len >= 1
                /\ k \in Raw => phdr_map[k].size = elf.phdr[k].len
           /\ \A a, b \in 1 .. phnum :
                /\ a < b => phdr_map[a].offset + phdr_map[a].size <= phdr_map[b].offset
                /\ a <= b => phdr_map[a].offset <= phdr_map[b].offset
<1>1. /\ phnum \in Nat /\ phnum >= 1 /\ HeaderSize \in Nat
      /\ phdr_map \in Seq(Entry) /\ Len(phdr_map) = phnum /\ SectionsDisjoint
      /\ DOMAIN phdr_map = 1 .. phnum
  BY ElfFacts, SizesAssumption DEF IInv, MapInv
<1>2. phdr_map[1].offset = HeaderSize
  BY <1>1 DEF Shapes
<1>3. \A k \in 1 .. phnum :
        /\ phdr_map[k].offset \in Nat /\ phdr_map[k].size \in Nat
        /\ phdr_map[k].compressed \in BOOLEAN
  <2>1. \A k \in 1 .. phnum : phdr_map[k] \in Entry
    BY <1>1, SeqElement
  <2> QED BY <2>1 DEF Entry
<1>4. \A k \in 1 .. phnum :
        /\ elf.phdr[k].off \in Nat /\ elf.phdr[k].len \in Nat
        /\ elf.phdr[k].zlen \in Nat \ {0}
  <2>1. \A k \in 1 .. phnum : elf.phdr[k] \in Segment
    <3>1. elf.phdr \in Seq(Segment)
      BY ElfFacts DEF IInv
    <3> QED BY <3>1, SeqElement DEF phnum
  <2> QED BY <2>1 DEF Segment
<1>5. \A k \in 1 .. phnum :
        /\ phdr_map[k].compressed <=> k \in Deflated
        /\ k \in Raw <=> k \notin Deflated
  BY <1>3 DEF Deflated, Raw
<1>6. ASSUME NEW k \in 1 .. phnum
      PROVE  /\ k \in Deflated => phdr_map[k].size >= 1 /\ elf.phdr[k].len >= 1
             /\ k \in Raw => phdr_map[k].size = elf.phdr[k].len
  <2>1. /\ phdr_map[k].compressed <=> Zipped(k)
        /\ Zipped(k) => phdr_map[k].size = elf.phdr[k].zlen
        /\ ~Zipped(k) => phdr_map[k].size = elf.phdr[k].len
    BY <1>1 DEF Shapes
  <2>2. Zipped(k) => elf.phdr[k].zlen < elf.phdr[k].len
    BY DEF Zipped
  <2> QED BY <2>1, <2>2, <1>4, <1>5
<1>7. \A a, b \in 1 .. phnum :
        a < b => phdr_map[a].offset + phdr_map[a].size <= phdr_map[b].offset
  BY <1>1 DEF SectionsDisjoint
<1>8. ASSUME NEW a \in 1 .. phnum, NEW b \in 1 .. phnum, a <= b
      PROVE  phdr_map[a].offset <= phdr_map[b].offset
  <2>1. CASE a = b
    BY <2>1, <1>3
  <2>2. CASE a < b
    BY <2>2, <1>3, <1>7
  <2> QED BY <2>1, <2>2, <1>8
<1> QED BY <1>1, <1>2, <1>3, <1>4, <1>5, <1>6, <1>7, <1>8

\* A deflated section is the only one at its offset, and its piece is inflated
\* to its segment.
LEMMA SectionFacts ==
    ASSUME IInv, Shapes, Len(phdr_map) = phnum, NEW c \in Deflated
    PROVE  /\ SectionOf(c).compressed /\ SectionOf(c).elf_offset = elf.phdr[c].off
           /\ SectionOf(c).offset = phdr_map[c].offset
           /\ Extent(SectionOf(c)) = elf.phdr[c].len
           /\ Ending(SectionOf(c)) = End(elf.phdr[c])
           /\ Contents(SectionOf(c)) = [u \in 1 .. elf.phdr[c].len |->
                                           Cell(elf.phdr[c].off + u - 1)]
<1>1. c \in 1 .. phnum /\ phdr_map[c].compressed
  BY DEF Deflated
<1>2. /\ SectionOf(c).compressed /\ SectionOf(c).elf_offset = elf.phdr[c].off
      /\ SectionOf(c).offset = phdr_map[c].offset
  BY DEF SectionOf, Piece
<1>3. \A k \in 1 .. phnum : phdr_map[k].offset = phdr_map[c].offset /\ phdr_map[k].compressed
                            => k = c
  <2> SUFFICES ASSUME NEW k \in 1 .. phnum, k # c, phdr_map[k].compressed,
                      phdr_map[k].offset = phdr_map[c].offset
               PROVE  FALSE
    OBVIOUS
  <2>1. /\ phdr_map[k].size >= 1 /\ phdr_map[c].size >= 1
        /\ phdr_map[k].offset \in Nat /\ phdr_map[k].size \in Nat
        /\ phdr_map[c].size \in Nat /\ phnum \in Nat
    BY <1>1, TableFacts
  <2>2. CASE k < c
    <3>1. phdr_map[k].offset + phdr_map[k].size <= phdr_map[c].offset
      BY <1>1, <2>2, TableFacts
    <3> QED BY <2>1, <3>1
  <2>3. CASE c < k
    <3>1. phdr_map[c].offset + phdr_map[c].size <= phdr_map[k].offset
      BY <1>1, <2>3, TableFacts
    <3> QED BY <2>1, <3>1
  <2> QED BY <1>1, <2>1, <2>2, <2>3
<1>4. SegmentOf(SectionOf(c)) = c
  BY <1>1, <1>2, <1>3 DEF SegmentOf
<1>5. Extent(SectionOf(c)) = elf.phdr[c].len
  BY <1>2, <1>4 DEF Extent
<1>6. Contents(SectionOf(c)) = [u \in 1 .. elf.phdr[c].len |-> Cell(elf.phdr[c].off + u - 1)]
  <2> DEFINE q == SectionOf(c)
  <2>1. Contents(q) = IF q.compressed
                      THEN [u \in 1 .. elf.phdr[SegmentOf(q)].len |->
                               Cell(elf.phdr[SegmentOf(q)].off + u - 1)]
                      ELSE [u \in 1 .. q.size |-> SelfCell(q.offset + u - 1)]
    BY DEF Contents, SegmentOf
  <2> QED BY <2>1, <1>2, <1>4
<1> QED BY <1>2, <1>5, <1>6 DEF Ending, End

-----------------------------------------------------------------------------
(* makeself: the table's shapes, and what the SELF holds. *)

LEMMA CompressShapes == IInv /\ Shapes /\ CompressElf => Shapes'
<1> SUFFICES ASSUME IInv, Shapes, CompressElf PROVE Shapes'
  OBVIOUS
<1> DEFINE size == IF Zipped(i) THEN elf.phdr[i].zlen ELSE elf.phdr[i].len
           sec  == [offset |-> offset, size |-> size, compressed |-> Zipped(i)]
<1>1. elf' = elf /\ phdr_map' = Append(phdr_map, sec)
  BY DEF CompressElf, Zipped
<1>2. /\ phdr_map \in Seq(Entry) /\ Len(phdr_map) = i - 1 /\ i \in Nat \ {0}
  <2>1. phnum \in Nat /\ pc = "compress"
    BY ElfFacts DEF IInv, CompressElf
  <2> QED BY <2>1 DEF IInv, MapInv
<1>3. \A k : Zipped(k)' <=> Zipped(k)
  BY <1>1 DEF Zipped
<1>4. Len(phdr_map') = i /\ phdr_map'[i] = sec /\ \A k \in 1 .. i - 1 : phdr_map'[k] = phdr_map[k]
  <2> HIDE DEF sec
  <2> QED BY <1>1, <1>2
<1>5. /\ sec.offset = offset
      /\ sec.compressed <=> Zipped(i)
      /\ sec.size = IF Zipped(i) THEN elf.phdr[i].zlen ELSE elf.phdr[i].len
  OBVIOUS
<1> HIDE DEF sec
<1>6. ASSUME NEW k \in 1 .. i
      PROVE  /\ phdr_map'[k].compressed <=> Zipped(k)
             /\ phdr_map'[k].size = IF Zipped(k) THEN elf.phdr[k].zlen ELSE elf.phdr[k].len
  <2>1. CASE k = i
    BY <2>1, <1>4, <1>5
  <2>2. CASE k # i
    <3>1. k \in 1 .. Len(phdr_map) /\ phdr_map'[k] = phdr_map[k]
      BY <2>2, <1>2, <1>4
    <3> QED BY <3>1 DEF Shapes
  <2> QED BY <2>1, <2>2
<1>7. phdr_map' # <<>> /\ phdr_map'[1].offset = HeaderSize
  <2>1. CASE i = 1
    <3>1. phdr_map = <<>>
      BY <2>1, <1>2
    <3>2. offset = HeaderSize
      BY <3>1 DEF Shapes
    <3> QED BY SMTT(30), <2>1, <3>2, <1>4, <1>5
  <2>2. CASE i # 1
    <3>1. phdr_map # <<>> /\ 1 \in 1 .. i - 1
      BY <2>2, <1>2
    <3>2. phdr_map[1].offset = HeaderSize
      BY <3>1 DEF Shapes
    <3> QED BY <3>1, <3>2, <1>2, <1>4
  <2> QED BY <2>1, <2>2
<1> QED BY <1>1, <1>3, <1>4, <1>6, <1>7 DEF Shapes

LEMMA ShapesKept == ASSUME Shapes, UNCHANGED <<elf, phdr_map, offset>> PROVE Shapes'
<1>1. \A k : Zipped(k)' <=> Zipped(k)
  BY DEF Zipped
<1> QED BY <1>1 DEF Shapes

\* A cell of the ELF file is told from every other content by its first field,
\* and from its like by its offset.
LEMMA CellsApart ==
    /\ \A u, v : Cell(u) = Cell(v) => u = v
    /\ \A u, v : Cell(v) # Header(u) /\ Cell(v) # <<"shdr", u>> /\ Cell(v) # <<"phdr", u>>
    /\ \A v : Cell(v) # Zero /\ Cell(v) # Junk
    /\ \A v, k, x : Cell(v) # <<"zip", k, x>>
  BY DEF Cell, Header, Zero, Junk

\* The image has the contents of the raw sections where the table says, and
\* nothing of the ELF file in clear elsewhere.
LEMMA ImageFacts ==
    ASSUME IInv, Shapes, Len(phdr_map) = phnum
    PROVE  /\ shdr_offset \in Nat
           /\ \A k \in Raw : \A x \in 0 .. elf.phdr[k].len - 1 :
                /\ ImageCell(phdr_map[k].offset + x) = Cell(elf.phdr[k].off + x)
                /\ phdr_map[k].offset + x < shdr_offset
           /\ \A u, v \in Nat : ImageCell(u) = Cell(v) =>
                \E k \in Raw : \E x \in 0 .. elf.phdr[k].len - 1 :
                   u = phdr_map[k].offset + x /\ v = elf.phdr[k].off + x
<1> DEFINE In(u, k) == u \in phdr_map[k].offset .. phdr_map[k].offset + phdr_map[k].size - 1
           Sec(u) == CHOOSE k \in 1 .. phnum : In(u, k)
<1>1. /\ phnum \in Nat /\ phnum >= 1 /\ HeaderSize \in Nat
      /\ \A k \in 1 .. phnum : /\ phdr_map[k].offset \in Nat /\ phdr_map[k].size \in Nat
                               /\ HeaderSize <= phdr_map[k].offset
                               /\ phdr_map[k].offset + phdr_map[k].size <= shdr_offset
      /\ shdr_offset \in Nat
  <2>1. /\ phnum \in Nat /\ phnum >= 1 /\ HeaderSize \in Nat
        /\ \A k \in 1 .. phnum : phdr_map[k].offset \in Nat /\ phdr_map[k].size \in Nat
        /\ phdr_map[1].offset = HeaderSize
    BY TableFacts
  <2>2. shdr_offset = phdr_map[phnum].offset + phdr_map[phnum].size
    BY DEF shdr_offset
  <2>3. \A k \in 1 .. phnum : phdr_map[1].offset <= phdr_map[k].offset
    BY <2>1, TableFacts
  <2>4. \A k \in 1 .. phnum :
          k < phnum => phdr_map[k].offset + phdr_map[k].size <= phdr_map[phnum].offset
    BY <2>1, TableFacts
  <2>5. ASSUME NEW k \in 1 .. phnum
        PROVE  phdr_map[k].offset + phdr_map[k].size <= shdr_offset
    <3>1. CASE k = phnum
      BY <3>1, <2>1, <2>2
    <3>2. CASE k < phnum
      BY <3>2, <2>1, <2>2, <2>4
    <3> QED BY <3>1, <3>2, <2>1
  <2> QED BY <2>1, <2>2, <2>3, <2>5
<1>2. \A u : \A a, b \in 1 .. phnum : In(u, a) /\ In(u, b) => a = b
  <2> SUFFICES ASSUME NEW u, NEW a \in 1 .. phnum, NEW b \in 1 .. phnum,
                      In(u, a), In(u, b)
               PROVE  a = b
    OBVIOUS
  <2>1. CASE a < b
    <3>1. phdr_map[a].offset + phdr_map[a].size <= phdr_map[b].offset
      BY <2>1, TableFacts
    <3> QED BY <3>1, <1>1
  <2>2. CASE b < a
    <3>1. phdr_map[b].offset + phdr_map[b].size <= phdr_map[a].offset
      BY <2>2, TableFacts
    <3> QED BY SMTT(30), <3>1, <1>1
  <2> HIDE DEF In
  <2> QED BY <2>1, <2>2, <1>1
<1>3. \A u : \A k \in 1 .. phnum : In(u, k) => Sec(u) = k
  <2> HIDE DEF In
  <2> QED BY <1>2
<1>4. \A u : ImageCell(u) =
         IF u < HeaderSize THEN Header(u)
         ELSE IF u >= shdr_offset THEN
             IF u < compressed_size THEN <<"shdr", u - shdr_offset>> ELSE Zero
         ELSE IF \E k \in 1 .. phnum : In(u, k)
         THEN IF phdr_map[Sec(u)].compressed THEN <<"zip", Sec(u), u - phdr_map[Sec(u)].offset>>
              ELSE Cell(elf.phdr[Sec(u)].off + u - phdr_map[Sec(u)].offset)
         ELSE Zero
  BY DEF ImageCell
<1>5. ASSUME NEW k \in Raw, NEW x \in 0 .. elf.phdr[k].len - 1
      PROVE  /\ ImageCell(phdr_map[k].offset + x) = Cell(elf.phdr[k].off + x)
             /\ phdr_map[k].offset + x < shdr_offset
  <2> DEFINE u == phdr_map[k].offset + x
  <2>1. /\ k \in 1 .. phnum /\ phdr_map[k].size = elf.phdr[k].len /\ ~phdr_map[k].compressed
        /\ elf.phdr[k].len \in Nat /\ elf.phdr[k].off \in Nat
    <3>1. k \in 1 .. phnum
      BY DEF Raw
    <3> QED BY <3>1, TableFacts
  <2>2. /\ In(u, k) /\ u >= HeaderSize /\ u < shdr_offset /\ u \in Nat
        /\ elf.phdr[k].off + u - phdr_map[k].offset = elf.phdr[k].off + x
    BY SMTT(30), <2>1, <1>1
  <2> HIDE DEF u, In, Sec
  <2>3. Sec(u) = k /\ ~(u < HeaderSize) /\ ~(u >= shdr_offset)
    BY SMTT(30), <2>1, <2>2, <1>1, <1>3
  <2>4. ImageCell(u) = Cell(elf.phdr[k].off + u - phdr_map[k].offset)
    BY <2>1, <2>2, <2>3, <1>4
  <2> QED BY <2>2, <2>4 DEF u
<1>6. ASSUME NEW u \in Nat, NEW v \in Nat, ImageCell(u) = Cell(v)
      PROVE  \E k \in Raw : \E x \in 0 .. elf.phdr[k].len - 1 :
                u = phdr_map[k].offset + x /\ v = elf.phdr[k].off + x
  <2>1. /\ \E k \in 1 .. phnum : In(u, k)
        /\ ~phdr_map[Sec(u)].compressed
        /\ ImageCell(u) = Cell(elf.phdr[Sec(u)].off + u - phdr_map[Sec(u)].offset)
    <3> HIDE DEF In, Sec
    <3> QED BY <1>4, <1>6, CellsApart
  <2>2. PICK k \in 1 .. phnum : In(u, k)
    BY <2>1
  <2>3. Sec(u) = k
    BY <2>2, <1>3
  <2> HIDE DEF Sec
  <2>4. v = elf.phdr[k].off + u - phdr_map[k].offset
    BY <2>1, <2>3, <1>6, CellsApart
  <2>5. /\ k \in Raw /\ phdr_map[k].size = elf.phdr[k].len /\ elf.phdr[k].off \in Nat
    BY <2>1, <2>3, TableFacts
  <2> DEFINE x == u - phdr_map[k].offset
  <2>6. /\ x \in 0 .. elf.phdr[k].len - 1
        /\ u = phdr_map[k].offset + x /\ v = elf.phdr[k].off + x
    BY SMTT(30), <2>2, <2>4, <2>5, <1>1
  <2> QED BY <2>5, <2>6
<1> QED BY <1>1, <1>5, <1>6

LEMMA WriteHoldsRaw == IInv /\ Shapes /\ Write /\ pc' = "read" => HoldsRaw'
<1> SUFFICES ASSUME IInv, Shapes, Write, pc' = "read" PROVE HoldsRaw'
  OBVIOUS
<1> DEFINE N == HeaderSize + round_up(compressed_size, Alignment)
<1>1. /\ pc = "compress" /\ i > phnum /\ elf' = elf /\ phdr_map' = phdr_map
      /\ compressed_size <= HeaderSize + elf.size
      /\ self' = [u \in 1 .. N |->
                    IF u > HeaderSize + compressed_size THEN Zero
                    ELSE IF u <= HeaderSize + elf.size THEN ImageCell(u - 1) ELSE Junk]
  BY DEF Write
<1>2. /\ phnum \in Nat /\ elf.shnum \in Nat /\ elf.size \in Nat /\ HeaderSize \in Nat
      /\ Alignment \in Nat \ {0}
  BY ElfFacts, SizesAssumption DEF IInv
<1>3. Len(phdr_map) = phnum
  BY <1>1, <1>2 DEF IInv, MapInv
<1>4. shdr_offset \in Nat /\ compressed_size \in Nat /\ shdr_offset <= compressed_size
  <2>1. shdr_offset \in Nat
    BY <1>3, ImageFacts
  <2> QED BY <2>1, <1>2 DEF compressed_size
<1>5. N \in Nat /\ HeaderSize + compressed_size <= N
  <2>1. round_up(compressed_size, Alignment) \in Nat
        /\ compressed_size <= round_up(compressed_size, Alignment)
    BY <1>2, <1>4, RoundUp
  <2> QED BY <2>1, <1>2, <1>4
<1> HIDE DEF N
<1>6. Len(self') = N
  BY <1>1, <1>5
<1>7. \A u \in Nat :
        SelfCell(u)' = IF u < N
                       THEN IF u + 1 > HeaderSize + compressed_size THEN Zero
                            ELSE IF u + 1 <= HeaderSize + elf.size THEN ImageCell(u) ELSE Junk
                       ELSE Zero
  <2> SUFFICES ASSUME NEW u \in Nat
               PROVE  SelfCell(u)' = IF u < N
                       THEN IF u + 1 > HeaderSize + compressed_size THEN Zero
                            ELSE IF u + 1 <= HeaderSize + elf.size THEN ImageCell(u) ELSE Junk
                       ELSE Zero
    OBVIOUS
  <2>1. SelfCell(u)' = IF u < N THEN self'[u + 1] ELSE Zero
    BY <1>6 DEF SelfCell
  <2>2. u < N => self'[u + 1] = IF u + 1 > HeaderSize + compressed_size THEN Zero
                                ELSE IF u + 1 <= HeaderSize + elf.size THEN ImageCell(u) ELSE Junk
    <3>1. (u + 1) - 1 = u /\ (u < N => u + 1 \in 1 .. N)
      BY <1>5
    <3> QED BY <3>1, <1>1
  <2> QED BY <2>1, <2>2
<1>8. Raw' = Raw
  BY <1>1, TablesKept
<1>9. ASSUME NEW k \in Raw, NEW x \in 0 .. elf.phdr[k].len - 1
      PROVE  SelfCell(phdr_map[k].offset + x)' = Cell(elf.phdr[k].off + x)
  <2>1. /\ ImageCell(phdr_map[k].offset + x) = Cell(elf.phdr[k].off + x)
        /\ phdr_map[k].offset + x < shdr_offset
    BY <1>3, ImageFacts
  <2>2. PICK u \in Nat : u = phdr_map[k].offset + x
    <3>1. k \in 1 .. phnum
      BY DEF Raw
    <3>2. phdr_map[k].offset \in Nat
      BY <3>1, <1>3, TableFacts
    <3> QED BY <3>2
  <2>3. /\ u < N /\ ~(u + 1 > HeaderSize + compressed_size) /\ u + 1 <= HeaderSize + elf.size
    BY <2>1, <2>2, <1>1, <1>2, <1>4, <1>5
  <2>4. SelfCell(u)' = ImageCell(u)
    BY <2>3, <1>7
  <2>5. SelfCell(phdr_map[k].offset + x)' = SelfCell(u)'
    BY <2>2, <1>1 DEF SelfCell
  <2> QED BY <2>1, <2>2, <2>4, <2>5
<1>10. ASSUME NEW u \in Nat, NEW v \in Nat, SelfCell(u)' = Cell(v)
       PROVE  \E k \in Raw : \E x \in 0 .. elf.phdr[k].len - 1 :
                 u = phdr_map[k].offset + x /\ v = elf.phdr[k].off + x
  <2>1. ImageCell(u) = Cell(v)
    BY <1>7, <1>10, CellsApart
  <2> QED BY <2>1, <1>3, ImageFacts
<1> QED BY <1>1, <1>8, <1>9, <1>10 DEF HoldsRaw, Cell

-----------------------------------------------------------------------------
(* unself: the pieces. *)

LEMMA InLoopFacts ==
    ASSUME IInv, Shapes, pc \in {"read", "pieces", "write"}
    PROVE  /\ Len(phdr_map) = phnum
           /\ filesize \in Nat /\ filesize < Word /\ Word \in Nat \ {0}
           /\ elf_offset \in 0 .. Word - 1 /\ self_offset \in 0 .. Word - 1
           /\ i \in Nat /\ (pc = "pieces" => i \in 1 .. phnum + 1)
           /\ Len(self_sections) \in Nat
           /\ DOMAIN self_sections = 1 .. Len(self_sections)
           /\ \A n \in DOMAIN self_sections :
                /\ self_sections[n].elf_offset \in Nat /\ self_sections[n].offset \in Nat
                /\ self_sections[n].size \in Nat /\ self_sections[n].compressed \in BOOLEAN
<1> DEFINE P == [offset : Nat, size : Nat, compressed : BOOLEAN, elf_offset : Nat]
<1>1. /\ Len(phdr_map) = phnum
      /\ elf_offset \in 0 .. Word - 1 /\ self_offset \in 0 .. Word - 1
      /\ i \in Nat /\ (pc = "pieces" => i \in 1 .. phnum + 1)
      /\ self_sections \in Seq(P)
  BY DEF IInv, MapInv, PieceInv
<1>2. filesize \in Nat /\ filesize < Word /\ Word \in Nat \ {0}
  BY ElfFacts, SizesAssumption DEF IInv
<1>3. Len(self_sections) \in Nat /\ DOMAIN self_sections = 1 .. Len(self_sections)
  <2> HIDE DEF P
  <2> QED BY <1>1
<1>4. \A n \in DOMAIN self_sections : self_sections[n] \in P
  <2> HIDE DEF P
  <2> QED BY <1>1, <1>3, SeqElement
<1> QED BY <1>1, <1>2, <1>3, <1>4

\* How far a piece reaches.
LEMMA PieceFacts ==
    ASSUME IInv, Shapes, pc \in {"pieces", "write"}, InOrder,
           NEW n \in DOMAIN self_sections
    PROVE  /\ Extent(self_sections[n]) \in Nat /\ Ending(self_sections[n]) \in Nat
           /\ Ending(self_sections[n]) =
                self_sections[n].elf_offset + Extent(self_sections[n])
           /\ DOMAIN Contents(self_sections[n]) = 1 .. Extent(self_sections[n])
<1> DEFINE q == self_sections[n]
<1>1. Len(phdr_map) = phnum /\ q.elf_offset \in Nat /\ q.size \in Nat /\ q.compressed \in BOOLEAN
  BY InLoopFacts
<1>2. Extent(q) \in Nat /\ DOMAIN Contents(q) = 1 .. Extent(q)
  <2>1. CASE q.compressed
    <3>1. PICK c \in Deflated : q = SectionOf(c)
      BY <2>1 DEF InOrder
    <3>2. c \in 1 .. phnum
      BY DEF Deflated
    <3>3. elf.phdr[c].len \in Nat
      BY <3>2, <1>1, TableFacts
    <3> HIDE DEF q
    <3>4. /\ Extent(q) = elf.phdr[c].len
          /\ Contents(q) = [u \in 1 .. elf.phdr[c].len |-> Cell(elf.phdr[c].off + u - 1)]
      BY <3>1, <1>1, SectionFacts
    <3> QED BY <3>3, <3>4
  <2>2. CASE ~q.compressed
    <3>1. Extent(q) = q.size
      BY <2>2 DEF Extent
    <3>2. Contents(q) = [u \in 1 .. q.size |-> SelfCell(q.offset + u - 1)]
      BY <2>2 DEF Contents
    <3> QED BY <3>1, <3>2, <1>1
  <2> QED BY <2>1, <2>2
<1>3. Ending(q) = q.elf_offset + Extent(q)
  BY DEF Ending
<1> HIDE DEF q
<1>4. Ending(q) \in Nat
  BY <1>1, <1>2, <1>3
<1> QED BY <1>2, <1>3, <1>4 DEF q

\* One piece more, behind the others.
LEMMA PieceAdded ==
    ASSUME IInv, Shapes, pc = "pieces", InOrder, UNCHANGED <<elf, phdr_map>>,
           NEW q, self_sections' = Append(self_sections, q),
           q.elf_offset \in Nat, elf_offset <= q.elf_offset,
           q.elf_offset <= Ending(q),
           elf_offset' = Ending(q), elf_offset' <= filesize, elf_offset' \in Nat,
           q.compressed => \E c \in Deflated : q = SectionOf(c)
    PROVE  /\ InOrder'
           /\ \A c : HasPiece(c) \/ q = SectionOf(c) => HasPiece(c)'
           /\ \A k : Covered(k) => Covered(k)'
           /\ \A k : /\ ~q.compressed
                     /\ q.offset = SelfStart(k) /\ q.elf_offset = ElfStart(k)
                     /\ End(elf.phdr[k]) <= Ending(q)
                     => Covered(k)'
<1> DEFINE L == Len(self_sections)
           s == self_sections
<1>0. PICK t : t = self_sections'
  OBVIOUS
<1>1. /\ L \in Nat /\ DOMAIN s = 1 .. L /\ elf_offset \in Nat /\ filesize \in Nat
      /\ s \in Seq([offset : Nat, size : Nat, compressed : BOOLEAN, elf_offset : Nat])
  BY InLoopFacts DEF IInv, PieceInv
<1>2. /\ DOMAIN t = 1 .. L + 1 /\ t[L + 1] = q
      /\ \A n \in 1 .. L : t[n] = s[n]
  BY <1>0, <1>1
<1>3. /\ \A n \in 1 .. L : Ending(s[n]) \in Nat /\ s[n].elf_offset \in Nat
      /\ \A n \in 1 .. L : Ending(s[n]) <= elf_offset
  <2>1. \A n \in 1 .. L : Ending(s[n]) \in Nat /\ s[n].elf_offset \in Nat
    BY <1>1, PieceFacts, InLoopFacts
  <2> QED BY <2>1, <1>1 DEF InOrder
<1>4. /\ filesize' = filesize /\ Deflated' = Deflated
      /\ \A k : /\ SectionOf(k)' = SectionOf(k)
                /\ ElfStart(k)' = ElfStart(k) /\ SelfStart(k)' = SelfStart(k)
      /\ \A r : Ending(r)' = Ending(r)
  BY TablesKept
<1>5. /\ \A m, n \in 1 .. L : m < n => Ending(s[m]) <= s[n].elf_offset
      /\ \A n \in 1 .. L : s[n].compressed => \E c \in Deflated : s[n] = SectionOf(c)
  BY <1>1 DEF InOrder
<1> HIDE DEF L, s
<1>6. ASSUME NEW n \in DOMAIN t
      PROVE  /\ Ending(t[n]) <= elf_offset'
             /\ t[n].compressed => \E c \in Deflated : t[n] = SectionOf(c)
  <2>1. CASE n = L + 1
    BY <2>1, <1>2
  <2>2. CASE n # L + 1
    <3>1. n \in 1 .. L
      BY <2>2, <1>1, <1>2
    <3>2. t[n] = s[n] /\ Ending(s[n]) \in Nat /\ Ending(s[n]) <= elf_offset
      BY <3>1, <1>2, <1>3
    <3>3. Ending(t[n]) <= elf_offset'
      BY <3>2, <1>1
    <3> QED BY <3>1, <3>2, <3>3, <1>5
  <2> QED BY <2>1, <2>2
<1>7. ASSUME NEW m \in DOMAIN t, NEW n \in DOMAIN t, m < n
      PROVE  Ending(t[m]) <= t[n].elf_offset
  <2>1. m \in 1 .. L /\ t[m] = s[m] /\ Ending(s[m]) \in Nat /\ Ending(s[m]) <= elf_offset
    <3>1. m \in 1 .. L
      BY <1>7, <1>1, <1>2
    <3> QED BY <3>1, <1>2, <1>3
  <2>2. CASE n = L + 1
    BY <2>1, <2>2, <1>1, <1>2
  <2>3. CASE n # L + 1
    <3>1. n \in 1 .. L
      BY <2>3, <1>1, <1>2
    <3> QED BY <3>1, <2>1, <1>2, <1>5, <1>7
  <2> QED BY <2>2, <2>3
<1>8. InOrder'
  <2>1. \A n \in DOMAIN t : Ending(t[n])' = Ending(t[n])
    BY <1>4
  <2>2. /\ elf_offset' <= filesize'
        /\ \A n \in DOMAIN t : Ending(t[n])' <= elf_offset'
        /\ \A m, n \in DOMAIN t : m < n => Ending(t[m])' <= t[n].elf_offset
        /\ \A n \in DOMAIN t :
             t[n].compressed => \E c \in Deflated' : t[n] = SectionOf(c)'
    BY <2>1, <1>4, <1>6, <1>7
  <2> QED BY <2>2, <1>0 DEF InOrder
<1>9. ASSUME NEW c, HasPiece(c) \/ q = SectionOf(c)
      PROVE  HasPiece(c)'
  <2>1. \E n \in DOMAIN t : t[n] = SectionOf(c)
    <3>1. CASE HasPiece(c)
      <4>1. PICK n \in 1 .. L : s[n] = SectionOf(c)
        BY <3>1, <1>1 DEF HasPiece, s
      <4>2. n \in DOMAIN t /\ t[n] = s[n]
        BY <1>1, <1>2
      <4> QED BY <4>1, <4>2, Zenon
    <3>2. CASE q = SectionOf(c)
      <4>1. L + 1 \in DOMAIN t /\ t[L + 1] = q
        BY <1>1, <1>2
      <4> QED BY <3>2, <4>1, Zenon
    <3> QED BY <3>1, <3>2, <1>9
  <2> QED BY <2>1, <1>0, <1>4 DEF HasPiece
<1>10. ASSUME NEW k, NEW n \in DOMAIN t, ~t[n].compressed, t[n].offset = SelfStart(k),
              t[n].elf_offset = ElfStart(k), End(elf.phdr[k]) <= Ending(t[n])
       PROVE  Covered(k)'
  <2>1. /\ t[n].offset = SelfStart(k)' /\ t[n].elf_offset = ElfStart(k)'
        /\ End(elf.phdr[k])' <= Ending(t[n])'
    BY <1>4, <1>10 DEF End
  <2> QED BY <2>1, <1>0, <1>10 DEF Covered
<1>11. ASSUME NEW k, Covered(k)
       PROVE  Covered(k)'
  <2>1. PICK n \in 1 .. L : /\ ~s[n].compressed /\ s[n].offset = SelfStart(k)
                            /\ s[n].elf_offset = ElfStart(k)
                            /\ End(elf.phdr[k]) <= Ending(s[n])
    BY <1>1, <1>11 DEF Covered, s
  <2>2. n \in DOMAIN t /\ t[n] = s[n]
    BY <1>1, <1>2
  <2> QED BY <2>1, <2>2, <1>10
<1>12. ASSUME NEW k, ~q.compressed, q.offset = SelfStart(k), q.elf_offset = ElfStart(k),
              End(elf.phdr[k]) <= Ending(q)
       PROVE  Covered(k)'
  <2>1. L + 1 \in DOMAIN t /\ t[L + 1] = q
    BY <1>1, <1>2
  <2> QED BY <2>1, <1>10, <1>12
<1> QED BY <1>8, <1>9, <1>11, <1>12

\* The next deflated section is the least that is left.
LEMMA FirstLeast ==
    ASSUME i \in Nat, i >= 1, phnum \in Nat, Pending # {}
    PROVE  First \in Deflated /\ i <= First /\ \A c \in Pending : First <= c
<1>1. Pending \in SUBSET Nat
  BY DEF Pending
<1>2. \E k \in Pending : \A l \in Pending : k <= l
  BY <1>1, LeastNat
<1>3. First \in Pending /\ \A l \in Pending : First <= l
  BY <1>2 DEF First
<1>4. First \in 1 .. phnum /\ phdr_map[First].compressed /\ i <= First
  <2>1. First \in i .. phnum /\ phdr_map[First].compressed
    BY <1>3 DEF Pending
  <2> QED BY <2>1
<1> QED BY <1>3, <1>4 DEF Deflated

\* Where a raw section counts from, while the loop is in front of it.
LEMMA StartOf ==
    ASSUME IInv, Shapes, pc = "pieces", i = 1 \/ i - 1 \in Deflated,
           NEW k \in Raw, i <= k, \A c \in Deflated : c < k => c < i
    PROVE  /\ ElfStart(k) = IF i = 1 THEN 0 ELSE End(elf.phdr[i - 1])
           /\ SelfStart(k) = IF i = 1 THEN HeaderSize ELSE next(i - 1)
<1>1. /\ phnum \in Nat /\ i \in 1 .. phnum /\ k \in 1 .. phnum
      /\ \A c \in Deflated : c \in 1 .. phnum
  <2>1. phnum \in Nat /\ i \in 1 .. phnum + 1 /\ k \in 1 .. phnum
    BY InLoopFacts, ElfFacts DEF IInv, Raw
  <2> QED BY <2>1 DEF Deflated
<1>2. CASE i = 1
  <2>1. Before(k) = {}
    BY <1>1, <1>2 DEF Before
  <2> QED BY <2>1, <1>2 DEF ElfStart, SelfStart
<1>3. CASE i # 1
  <2>1. i - 1 \in Before(k) /\ \A d \in Before(k) : d <= i - 1 /\ d \in Nat
    BY <1>1, <1>3 DEF Before
  <2>2. \A c \in Before(k) : (\A d \in Before(k) : d <= c) => c = i - 1
    BY <2>1, <1>1
  <2>3. PrevOf(k) = i - 1
    BY <2>1, <2>2 DEF PrevOf
  <2>4. (i - 1) + 1 = i /\ i - 1 < phnum
    BY <1>1
  <2>5. phdr_map[i].offset % Word = phdr_map[i].offset
    <3>1. phdr_map[i].offset \in 0 .. Word - 1 /\ Word \in Nat
      BY <1>1, MapFacts, SizesAssumption
    <3> QED BY <3>1
  <2> QED BY <2>1, <2>3, <2>4, <2>5, <1>3 DEF ElfStart, SelfStart, next
<1> QED BY <1>2, <1>3

\* Where the loop has just gone past a deflated section, or starts, nothing of
\* the raw sections behind it can have been passed.
LEMMA FreshPassed ==
    ASSUME IInv, Shapes, pc \in {"read", "pieces"}, UNCHANGED <<elf, phdr_map>>,
           NEW s \in {0} \cup Deflated, i' = s + 1,
           elf_offset' = IF s = 0 THEN 0 ELSE End(elf.phdr[s]),
           self_offset' = IF s = 0 THEN HeaderSize ELSE next(s),
           Sorted(1 .. phnum),
           NEW k \in Raw, elf.phdr[k].len > 0, Passed(k)'
    PROVE  k < i'
<1> SUFFICES ASSUME ~(k < i') PROVE FALSE
  OBVIOUS
<1>1. /\ phnum \in Nat /\ k \in 1 .. phnum /\ s \in 0 .. phnum /\ s < k
      /\ phnum' = phnum /\ filesize' = filesize
  <2>1. phnum \in Nat /\ k \in 1 .. phnum /\ s \in 0 .. phnum
    BY ElfFacts DEF IInv, Raw, Deflated
  <2>2. s < k
    BY <2>1
  <2> QED BY <2>1, <2>2, TablesKept
<1>2. Settled' /\ (Pending' = {} \/ k < First')
  BY DEF Passed
<1>3. /\ elf.phdr[k].off \in Nat /\ elf.phdr[k].len \in Nat
      /\ phdr_map[k].offset \in Nat /\ phdr_map[k].size = elf.phdr[k].len
      /\ elf.phdr[k].off + elf.phdr[k].len <= elf.size /\ elf.size <= filesize
      /\ elf.size \in Nat /\ filesize \in Nat
  <2>1. /\ elf.size \in Nat /\ elf.phdr[k].off + elf.phdr[k].len <= elf.size
        /\ elf.size <= filesize /\ filesize \in Nat
    BY <1>1, ElfFacts, SegmentFits DEF IInv, End
  <2>2. Len(phdr_map) = phnum
    BY InLoopFacts
  <2> QED BY <1>1, <2>1, <2>2, TableFacts
<1>4. CASE Pending' = {}
  <2>1. elf_offset' >= filesize
    BY <1>1, <1>2, <1>4 DEF Settled
  <2>2. CASE s = 0
    BY <2>1, <2>2, <1>3
  <2>3. CASE s # 0
    <3>1. s \in 1 .. phnum
      BY <2>3, <1>1
    <3>2. End(elf.phdr[s]) <= elf.phdr[k].off /\ End(elf.phdr[s]) \in Nat
      BY <3>1, <1>1, SegmentFits DEF Sorted, IInv
    <3> QED BY <2>1, <2>3, <3>2, <1>3
  <2> QED BY <2>2, <2>3
<1>5. CASE Pending' # {}
  <2>1. PICK F : F = First'
    OBVIOUS
  <2>2. F \in 1 .. phnum /\ k < F /\ self_offset' = phdr_map[F].offset
    <3>1. Pending' \in SUBSET Nat
      BY <1>1 DEF Pending
    <3>2. \E m \in Pending' : \A l \in Pending' : m <= l
      BY <3>1, <1>5, LeastNat
    <3>3. First' \in Pending'
      BY <3>2 DEF First
    <3>4. F \in i' .. phnum
      BY <3>3, <2>1, <1>1 DEF Pending
    <3>5. self_offset' = phdr_map[F].offset
      BY <1>2, <1>5, <2>1 DEF Settled
    <3> QED BY <3>4, <3>5, <2>1, <1>1, <1>2, <1>5
  <2>3. phdr_map[k].offset + phdr_map[k].size <= phdr_map[F].offset
        /\ phdr_map[F].offset \in Nat /\ Len(phdr_map) = phnum
    BY <2>2, <1>1, TableFacts, InLoopFacts
  <2>4. self_offset' <= phdr_map[k].offset
    <3>1. CASE s = 0
      <4>1. phdr_map[1].offset = HeaderSize /\ phdr_map[1].offset <= phdr_map[k].offset
        BY <1>1, <2>3, TableFacts
      <4> QED BY <4>1, <3>1
    <3>2. CASE s # 0
      <4>1. s + 1 \in 1 .. phnum /\ s + 1 <= k /\ s < phnum
        BY <3>2, <1>1
      <4>2. phdr_map[s + 1].offset \in 0 .. Word - 1 /\ Word \in Nat
        BY <4>1, MapFacts, SizesAssumption
      <4>3. next(s) = phdr_map[s + 1].offset
        BY <4>1, <4>2 DEF next
      <4>4. phdr_map[s + 1].offset <= phdr_map[k].offset
        BY <4>1, <1>1, <2>3, TableFacts
      <4> QED BY <4>3, <4>4, <3>2
    <3> QED BY <3>1, <3>2
  <2> QED BY <2>2, <2>3, <2>4, <1>3
<1> QED BY <1>4, <1>5

LEMMA UnderwayAfresh ==
    ASSUME IInv, Shapes, pc \in {"read", "pieces"}, UNCHANGED <<elf, phdr_map>>,
           NEW s \in {0} \cup Deflated, i' = s + 1,
           elf_offset' = IF s = 0 THEN 0 ELSE End(elf.phdr[s]),
           self_offset' = IF s = 0 THEN HeaderSize ELSE next(s),
           \A c \in Deflated : s < c => elf_offset' <= elf.phdr[c].off,
           \A c \in Deflated : c <= s => HasPiece(c)',
           Sorted(1 .. phnum) =>
              \A k \in Raw : elf.phdr[k].len > 0 /\ k <= s => Covered(k)'
    PROVE  Underway'
<1>1. /\ phnum \in Nat /\ s \in 0 .. phnum /\ s \in Nat
      /\ \A c \in Deflated \cup Raw : c \in 1 .. phnum
      /\ Deflated' = Deflated /\ Raw' = Raw /\ phnum' = phnum
      /\ Sorted(1 .. phnum)' <=> Sorted(1 .. phnum)
      /\ \A k : next(k)' = next(k)
  <2>1. phnum \in Nat /\ s \in 0 .. phnum /\ \A c \in Deflated \cup Raw : c \in 1 .. phnum
    BY ElfFacts DEF IInv, Raw, Deflated
  <2>2. /\ Deflated' = Deflated /\ Raw' = Raw /\ phnum' = phnum
        /\ Sorted(1 .. phnum)' <=> Sorted(1 .. phnum)
        /\ \A k : next(k)' = next(k)
    BY TablesKept
  <2> QED BY <2>1, <2>2
<1>2. i' = 1 \/ i' - 1 \in Deflated'
  BY <1>1
<1>3. \A c \in Pending' : elf_offset' <= elf.phdr[c].off
  <2>1. \A c \in Pending' : c \in Deflated /\ s < c
    BY <1>1 DEF Pending, Deflated
  <2> QED BY <2>1
<1>4. \A c \in Deflated' : c < i' => HasPiece(c)'
  BY <1>1
<1>5. /\ elf_offset' = IF i' = 1 THEN 0 ELSE End(elf.phdr[i' - 1])
      /\ self_offset' = IF i' = 1 THEN HeaderSize
                        ELSE IF i' - 1 < phnum' THEN phdr_map'[(i' - 1) + 1].offset % Word ELSE 0
  <2>1. (i' = 1 <=> s = 0) /\ i' - 1 = s
    BY <1>1
  <2> QED BY <2>1, <1>1 DEF next
<1>6. Sorted(1 .. phnum)' =>
         \A k \in Raw' : elf.phdr[k].len > 0 /\ Passed(k)' => Covered(k)'
  <2> SUFFICES ASSUME Sorted(1 .. phnum), NEW k \in Raw, elf.phdr[k].len > 0, Passed(k)'
               PROVE  Covered(k)'
    BY <1>1
  <2>1. k < i'
    BY FreshPassed
  <2>2. k <= s
    BY <2>1, <1>1
  <2> QED BY <2>2
<1>7. /\ i' = 1 \/ i' - 1 \in Deflated'
      /\ \A c \in Pending' : elf_offset' <= elf'.phdr[c].off
      /\ Sorted(1 .. phnum)' =>
            \A k \in Raw' : elf'.phdr[k].len > 0 /\ Passed(k)' => Covered(k)'
  BY <1>2, <1>3, <1>6
<1>8. ~Settled' =>
         /\ elf_offset' = IF i' = 1 THEN 0 ELSE End(elf.phdr[i - 1])'
         /\ self_offset' = IF i' = 1 THEN HeaderSize ELSE next(i - 1)'
  BY <1>5 DEF next, End
<1> QED BY <1>4, <1>7, <1>8 DEF Underway

LEMMA ReadSectionsBack == IInv /\ Shapes /\ ReadSections => InOrder' /\ Underway'
<1> SUFFICES ASSUME IInv, Shapes, ReadSections PROVE InOrder' /\ Underway'
  OBVIOUS
<1>1. /\ pc = "read" /\ i' = 1 /\ elf_offset' = 0 /\ self_offset' = HeaderSize
      /\ UNCHANGED <<elf, phdr_map>> /\ self_sections' = <<>>
  BY DEF ReadSections, IInv, PieceInv
<1>2. filesize' = filesize /\ filesize \in Nat
  BY <1>1, TablesKept, ElfFacts DEF IInv
<1>3. InOrder'
  BY <1>1, <1>2 DEF InOrder
<1>4. phnum \in Nat /\ \A k \in Deflated \cup Raw : k >= 1 /\ k \in 1 .. phnum
  BY ElfFacts DEF IInv, Deflated, Raw
<1>5. \A c \in Deflated : elf.phdr[c].off \in Nat
  BY <1>4, ElfFacts DEF IInv
<1>6. PICK s \in {0} \cup Deflated : s = 0
  OBVIOUS
<1>7. i' = s + 1 /\ pc \in {"read", "pieces"}
      /\ elf_offset' = (IF s = 0 THEN 0 ELSE End(elf.phdr[s]))
      /\ self_offset' = (IF s = 0 THEN HeaderSize ELSE next(s))
  BY <1>1, <1>6
<1>8. /\ \A c \in Deflated : s < c => elf_offset' <= elf.phdr[c].off
      /\ \A c \in Deflated : ~(c <= s)
      /\ \A k \in Raw : ~(k <= s)
  BY <1>1, <1>4, <1>5, <1>6
<1>9. Underway'
  BY <1>1, <1>7, <1>8, UnderwayAfresh
<1> QED BY <1>3, <1>9

\* A deflated section, dealt with.  Everything raw in front of it is covered:
\* the loop was settled.
LEMMA SectionBack ==
    IInv /\ Shapes /\ Sorted(Deflated) /\ InOrder /\ Underway /\ SectionPiece
       => InOrder' /\ Underway'
<1> SUFFICES ASSUME IInv, Shapes, Sorted(Deflated), InOrder, Underway, SectionPiece
             PROVE  InOrder' /\ Underway'
  OBVIOUS
<1>1. PICK s : s = First
  OBVIOUS
<1>2. PICK q : q = SectionOf(s)
  OBVIOUS
<1>3. /\ pc = "pieces" /\ Pending # {} /\ self_offset = phdr_map[s].offset
      /\ self_sections' = Append(self_sections, q)
      /\ elf_offset' = End(elf.phdr[s]) % Word
      /\ self_offset' = next(s) /\ i' = s + 1
      /\ UNCHANGED <<elf, phdr_map>>
  BY <1>1, <1>2 DEF SectionPiece, InLoop, SectionOf, End
<1>4. /\ Len(phdr_map) = phnum /\ filesize \in Nat /\ filesize < Word /\ Word \in Nat \ {0}
      /\ i \in Nat /\ i >= 1 /\ phnum \in Nat /\ elf_offset \in Nat
      /\ \A k \in Deflated \cup Raw : k \in 1 .. phnum
  BY <1>3, InLoopFacts, ElfFacts DEF IInv, Deflated, Raw
<1>5. s \in Deflated /\ i <= s /\ s \in 1 .. phnum /\ \A c \in Pending : s <= c
  BY <1>1, <1>3, <1>4, FirstLeast
<1>6. /\ elf.phdr[s].off \in Nat /\ elf.phdr[s].len \in Nat
      /\ End(elf.phdr[s]) \in Nat /\ End(elf.phdr[s]) <= filesize
      /\ elf.phdr[s].off <= End(elf.phdr[s])
  <2>1. /\ elf.phdr[s].off \in Nat /\ elf.phdr[s].len \in Nat
        /\ End(elf.phdr[s]) <= elf.size /\ elf.size <= filesize /\ elf.size \in Nat
    BY <1>5, ElfFacts, SegmentFits DEF IInv
  <2> QED BY SMTT(30), <2>1, <1>4 DEF End
<1>7. elf_offset' = End(elf.phdr[s])
  BY SMTT(30), <1>3, <1>4, <1>6
<1>8. elf_offset <= elf.phdr[s].off
  <2>1. s \in Pending
    BY <1>4, <1>5 DEF Pending, Deflated
  <2> QED BY <2>1 DEF Underway
<1>9. /\ q.elf_offset = elf.phdr[s].off /\ Ending(q) = End(elf.phdr[s])
      /\ \E c \in Deflated : q = SectionOf(c)
  BY <1>2, <1>4, <1>5, SectionFacts
<1>10. /\ InOrder'
       /\ \A c : HasPiece(c) \/ q = SectionOf(c) => HasPiece(c)'
       /\ \A k : Covered(k) => Covered(k)'
  BY <1>3, <1>6, <1>7, <1>8, <1>9, PieceAdded
<1>11. \A c \in Deflated : s < c => elf_offset' <= elf.phdr[c].off
  BY <1>5, <1>7 DEF Sorted
<1>12. ASSUME NEW c \in Deflated, c <= s
       PROVE  HasPiece(c)'
  <2>1. CASE c < i
    BY <2>1, <1>10 DEF Underway
  <2>2. CASE ~(c < i)
    <3>1. c \in Pending
      BY <2>2, <1>4 DEF Pending, Deflated
    <3>2. c = s
      BY <3>1, <1>4, <1>5, <1>12
    <3> QED BY <3>2, <1>2, <1>10
  <2> QED BY <2>1, <2>2
<1>13. ASSUME Sorted(1 .. phnum), NEW k \in Raw, elf.phdr[k].len > 0, k <= s
       PROVE  Covered(k)'
  <2>1. k # s
    BY <1>5 DEF Raw
  <2>2. k < s
    <3>1. k \in 1 .. phnum /\ s \in 1 .. phnum /\ phnum \in Nat
      BY <1>4, <1>5
    <3> QED BY <3>1, <2>1, <1>13
  <2>3. Passed(k)
    BY <2>2, <1>1, <1>3 DEF Passed, Settled
  <2>4. Covered(k)
    BY <2>3, <1>13 DEF Underway
  <2> QED BY <2>4, <1>10
<1>14. elf_offset' = (IF s = 0 THEN 0 ELSE End(elf.phdr[s]))
       /\ self_offset' = (IF s = 0 THEN HeaderSize ELSE next(s))
       /\ s \in {0} \cup Deflated /\ pc \in {"read", "pieces"}
  BY <1>3, <1>5, <1>7
<1>15. Underway'
  BY <1>3, <1>11, <1>12, <1>13, <1>14, UnderwayAfresh
<1> QED BY <1>10, <1>15

\* A piece of what is not deflated, from where the loop is to stop: it covers
\* the raw sections up to the next deflated one, or to the end.
LEMMA RawPieceBack ==
    ASSUME IInv, Shapes, Sorted(Deflated), InOrder, Underway, pc = "pieces", ~Settled,
           UNCHANGED <<elf, phdr_map, i>>,
           NEW stop \in Nat, elf_offset <= stop, stop <= filesize,
           self_sections' = Append(self_sections,
              Piece(self_offset, stop - elf_offset, FALSE, elf_offset)),
           elf_offset' = stop,
           \A c \in Pending : stop <= elf.phdr[c].off,
           Sorted(1 .. phnum) => \A k \in Raw : i <= k /\ (Pending = {} \/ k < First)
                                    => End(elf.phdr[k]) <= stop,
           Settled'
    PROVE  InOrder' /\ Underway'
<1>1. PICK q : q = Piece(self_offset, stop - elf_offset, FALSE, elf_offset)
  OBVIOUS
<1>2. /\ ~q.compressed /\ q.offset = self_offset /\ q.size = stop - elf_offset
      /\ q.elf_offset = elf_offset
  BY <1>1 DEF Piece
<1>3. /\ filesize \in Nat /\ i \in Nat /\ i >= 1 /\ phnum \in Nat /\ elf_offset \in Nat
      /\ \A k \in Deflated \cup Raw : k \in 1 .. phnum
  BY InLoopFacts, ElfFacts DEF IInv, Deflated, Raw
<1>4. Ending(q) = stop
  <2>1. Extent(q) = stop - elf_offset
    BY <1>2 DEF Extent
  <2> QED BY <2>1, <1>2, <1>3 DEF Ending
<1>5. /\ InOrder'
      /\ \A c : HasPiece(c) => HasPiece(c)'
      /\ \A k : Covered(k) => Covered(k)'
      /\ \A k : /\ q.offset = SelfStart(k) /\ q.elf_offset = ElfStart(k)
                /\ End(elf.phdr[k]) <= Ending(q)
                => Covered(k)'
  <2>1. self_sections' = Append(self_sections, q)
    BY <1>1
  <2>2. /\ elf_offset <= q.elf_offset
        /\ q.elf_offset \in Nat /\ q.elf_offset <= Ending(q) /\ elf_offset' = Ending(q)
        /\ elf_offset' <= filesize /\ elf_offset' \in Nat
    BY <1>2, <1>3, <1>4
  <2> QED BY <2>1, <2>2, <1>2, PieceAdded
<1>6. /\ Pending' = Pending /\ First' = First /\ Deflated' = Deflated /\ Raw' = Raw
      /\ Sorted(1 .. phnum)' <=> Sorted(1 .. phnum)
  <2>1. phnum' = phnum /\ Deflated' = Deflated /\ Raw' = Raw
        /\ (Sorted(1 .. phnum)' <=> Sorted(1 .. phnum))
    BY TablesKept
  <2>2. Pending' = Pending
    BY <2>1 DEF Pending
  <2>3. First' = First
    BY <2>2 DEF First
  <2> QED BY <2>1, <2>2, <2>3
<1>7. ASSUME Sorted(1 .. phnum), NEW k \in Raw, elf.phdr[k].len > 0, Passed(k)'
      PROVE  Covered(k)'
  <2>1. CASE k < i
    <3>1. Covered(k)
      BY <2>1, <1>7 DEF Passed, Underway
    <3> QED BY <3>1, <1>5
  <2>2. CASE ~(k < i)
    <3>1. i <= k /\ (Pending = {} \/ k < First)
      BY <2>2, <1>3, <1>6, <1>7 DEF Passed
    <3>2. \A c \in Deflated : c < k => c < i
      <4> SUFFICES ASSUME NEW c \in Deflated, c < k, ~(c < i) PROVE FALSE
        OBVIOUS
      <4>1. c \in Pending
        BY <1>3 DEF Pending, Deflated
      <4>2. First <= c /\ First \in Nat
        BY <4>1, <1>3, FirstLeast
      <4> QED BY <4>1, <4>2, <3>1, <1>3
    <3>3. /\ ElfStart(k) = IF i = 1 THEN 0 ELSE End(elf.phdr[i - 1])
          /\ SelfStart(k) = IF i = 1 THEN HeaderSize ELSE next(i - 1)
      BY <3>1, <3>2, StartOf DEF Underway
    <3>4. elf_offset = ElfStart(k) /\ self_offset = SelfStart(k)
      BY <3>3 DEF Underway
    <3>5. End(elf.phdr[k]) <= stop
      BY <3>1, <1>7
    <3> QED BY <3>4, <3>5, <1>2, <1>4, <1>5
  <2> QED BY <2>1, <2>2
<1>8. /\ i' = 1 \/ i' - 1 \in Deflated'
      /\ \A c \in Pending' : elf_offset' <= elf'.phdr[c].off
      /\ \A c \in Deflated' : c < i' => HasPiece(c)'
  BY <1>5, <1>6 DEF Underway
<1> QED BY <1>5, <1>6, <1>7, <1>8 DEF Underway

LEMMA TailBack ==
    IInv /\ Shapes /\ Sorted(Deflated) /\ InOrder /\ Underway /\ TailPiece
       => InOrder' /\ Underway'
<1> SUFFICES ASSUME IInv, Shapes, Sorted(Deflated), InOrder, Underway, TailPiece
             PROVE  InOrder' /\ Underway'
  OBVIOUS
<1>1. /\ pc = "pieces" /\ elf_offset < filesize /\ Pending = {}
      /\ self_sections' = Append(self_sections,
            Piece(self_offset, filesize - elf_offset, FALSE, elf_offset))
      /\ elf_offset' = filesize
      /\ UNCHANGED <<elf, phdr_map, i>>
  BY DEF TailPiece, InLoop
<1>2. filesize \in Nat /\ elf_offset \in Nat /\ filesize' = filesize /\ phnum' = phnum
  BY <1>1, InLoopFacts, TablesKept
<1>3. Pending' = Pending
  BY <1>1, <1>2 DEF Pending
<1>4. ~Settled /\ Settled'
  BY <1>1, <1>2, <1>3 DEF Settled
<1>5. \A k \in Raw : End(elf.phdr[k]) <= filesize
  <2> SUFFICES ASSUME NEW k \in Raw PROVE End(elf.phdr[k]) <= filesize
    OBVIOUS
  <2>1. k \in 1 .. phnum
    BY DEF Raw
  <2>2. /\ End(elf.phdr[k]) <= elf.size /\ elf.size <= filesize
        /\ End(elf.phdr[k]) \in Nat /\ elf.size \in Nat
    BY <2>1, ElfFacts, SegmentFits DEF IInv
  <2> QED BY <2>2, <1>2
<1>6. elf_offset <= filesize /\ filesize <= filesize
  BY <1>1, <1>2
<1>7. \A c \in Pending : filesize <= elf.phdr[c].off
  BY <1>1
<1> QED BY <1>1, <1>2, <1>4, <1>5, <1>6, <1>7, RawPieceBack

LEMMA GapBack ==
    IInv /\ Shapes /\ Sorted(Deflated) /\ InOrder /\ Underway /\ GapPiece
       => InOrder' /\ Underway'
<1> SUFFICES ASSUME IInv, Shapes, Sorted(Deflated), InOrder, Underway, GapPiece
             PROVE  InOrder' /\ Underway'
  OBVIOUS
<1>1. PICK s : s = First
  OBVIOUS
<1>2. PICK stop : stop = elf.phdr[s].off
  OBVIOUS
<1>3. /\ pc = "pieces" /\ Pending # {} /\ self_offset # phdr_map[s].offset
      /\ self_sections' = Append(self_sections,
            Piece(self_offset, (stop - elf_offset) % Word, FALSE, elf_offset))
      /\ elf_offset' = (elf_offset + ((stop - elf_offset) % Word)) % Word
      /\ self_offset' = phdr_map[s].offset
      /\ UNCHANGED <<elf, phdr_map, i>>
  BY <1>1, <1>2 DEF GapPiece, InLoop
<1>4. /\ Len(phdr_map) = phnum /\ filesize \in Nat /\ filesize < Word /\ Word \in Nat \ {0}
      /\ i \in Nat /\ i >= 1 /\ phnum \in Nat /\ elf_offset \in Nat
      /\ \A k \in Deflated \cup Raw : k \in 1 .. phnum
  BY <1>3, InLoopFacts, ElfFacts DEF IInv, Deflated, Raw
<1>5. s \in Deflated /\ i <= s /\ s \in 1 .. phnum /\ s \in Pending
      /\ \A c \in Pending : s <= c /\ c \in Deflated
  <2>1. s \in Deflated /\ i <= s /\ s \in 1 .. phnum /\ \A c \in Pending : s <= c
    BY <1>1, <1>3, <1>4, FirstLeast
  <2>2. s \in Pending
    BY <2>1, <1>4 DEF Pending, Deflated
  <2>3. \A c \in Pending : c \in Deflated
    BY <1>4 DEF Pending, Deflated
  <2> QED BY <2>1, <2>2, <2>3
<1>6. /\ elf.phdr[s].len \in Nat /\ stop \in Nat /\ stop <= filesize
      /\ stop <= End(elf.phdr[s]) /\ End(elf.phdr[s]) \in Nat
  <2>1. /\ elf.phdr[s].off \in Nat /\ elf.phdr[s].len \in Nat
        /\ End(elf.phdr[s]) <= elf.size /\ elf.size <= filesize /\ elf.size \in Nat
    BY <1>5, ElfFacts, SegmentFits DEF IInv
  <2> QED BY <2>1, <1>2, <1>4 DEF End
<1>7. elf_offset <= stop
  BY <1>2, <1>5 DEF Underway
<1>8. (stop - elf_offset) % Word = stop - elf_offset
  <2>1. stop - elf_offset \in 0 .. Word - 1
    BY <1>4, <1>6, <1>7
  <2> QED BY <2>1, <1>4
<1>9. elf_offset' = stop
  <2>1. elf_offset + (stop - elf_offset) = stop /\ stop \in 0 .. Word - 1
    BY <1>4, <1>6
  <2>2. stop % Word = stop
    BY <2>1, <1>4
  <2> QED BY <2>1, <2>2, <1>3, <1>8
<1>10. ~Settled /\ Settled'
  <2>1. phnum' = phnum
    BY <1>3 DEF phnum
  <2>2. Pending' = Pending
    BY <2>1, <1>3 DEF Pending
  <2>3. First' = First
    BY <2>2 DEF First
  <2> QED BY <2>2, <2>3, <1>1, <1>3 DEF Settled
<1>11. ASSUME NEW c \in Pending
       PROVE  stop <= elf.phdr[c].off
  <2>1. CASE c = s
    BY <2>1, <1>2, <1>6
  <2>2. CASE c # s
    <3>1. c \in Deflated /\ c \in 1 .. phnum /\ s \in 1 .. phnum /\ s <= c
      BY <1>4, <1>5
    <3>2. s < c
      BY <3>1, <2>2, <1>4
    <3>3. End(elf.phdr[s]) <= elf.phdr[c].off /\ elf.phdr[c].off \in Nat
      BY <3>1, <3>2, <1>5, ElfFacts DEF Sorted, IInv
    <3> QED BY <3>3, <1>6
  <2> QED BY <2>1, <2>2
<1>12. Sorted(1 .. phnum) => \A k \in Raw : i <= k /\ (Pending = {} \/ k < First)
                                => End(elf.phdr[k]) <= stop
  <2> SUFFICES ASSUME Sorted(1 .. phnum), NEW k \in Raw, k < First
               PROVE  End(elf.phdr[k]) <= stop
    BY <1>3
  <2>1. k \in 1 .. phnum /\ s \in 1 .. phnum /\ k < s
    BY <1>1, <1>4, <1>5
  <2> QED BY <2>1, <1>2 DEF Sorted
<1>13. self_sections' = Append(self_sections, Piece(self_offset, stop - elf_offset, FALSE, elf_offset))
  BY <1>3, <1>8
<1> QED BY <1>3, <1>6, <1>7, <1>9, <1>10, <1>11, <1>12, <1>13, RawPieceBack

\* Steps that leave the tables alone.
LEMMA PiecesKept ==
    ASSUME UNCHANGED <<elf, phdr_map, elf_offset, self_sections>>
    PROVE  /\ InOrder => InOrder'
           /\ Complete => Complete'
           /\ \A k : (HasPiece(k) => HasPiece(k)') /\ (Covered(k) => Covered(k)')
<1>1. /\ filesize' = filesize /\ Deflated' = Deflated /\ Raw' = Raw
      /\ (Sorted(1 .. phnum)' <=> Sorted(1 .. phnum))
      /\ \A k : /\ SectionOf(k)' = SectionOf(k)
                /\ ElfStart(k)' = ElfStart(k) /\ SelfStart(k)' = SelfStart(k)
      /\ \A q : Ending(q)' = Ending(q)
  BY TablesKept
<1>2. \A c : HasPiece(c) => HasPiece(c)'
  BY <1>1 DEF HasPiece
<1>3. ASSUME NEW k, Covered(k)
      PROVE  Covered(k)'
  <2>1. PICK n \in DOMAIN self_sections :
           /\ ~self_sections[n].compressed
           /\ self_sections[n].offset = SelfStart(k)
           /\ self_sections[n].elf_offset = ElfStart(k)
           /\ End(elf.phdr[k]) <= Ending(self_sections[n])
    BY <1>3 DEF Covered
  <2>2. PICK q : q = self_sections[n]
    OBVIOUS
  <2>3. /\ q = self_sections'[n] /\ n \in DOMAIN self_sections'
        /\ ~q.compressed /\ q.offset = SelfStart(k)' /\ q.elf_offset = ElfStart(k)'
        /\ End(elf.phdr[k])' <= Ending(q)'
    BY <2>1, <2>2, <1>1 DEF End
  <2>4. Ending(self_sections[n])' = Ending(q)'
    BY <2>3 DEF Ending, Extent, SegmentOf
  <2> QED BY <2>3, <2>4 DEF Covered
<1>4. Complete => Complete'
  BY <1>1, <1>2, <1>3 DEF Complete
<1>5. InOrder => InOrder'
  <2>1. \A n : Ending(self_sections[n])' = Ending(self_sections[n])
    <3> SUFFICES ASSUME NEW n PROVE Ending(self_sections[n])' = Ending(self_sections[n])
      OBVIOUS
    <3>1. PICK q : q = self_sections[n] /\ q = self_sections'[n]
      OBVIOUS
    <3>2. Ending(self_sections[n])' = Ending(q)'
      BY <3>1 DEF Ending, Extent, SegmentOf
    <3> QED BY <3>1, <3>2, <1>1
  <2> QED BY <2>1, <1>1 DEF InOrder
<1> QED BY <1>2, <1>3, <1>4, <1>5

\* The loop ends only when everything has been passed.
LEMMA PiecesDoneBack ==
    IInv /\ Shapes /\ Stored /\ InOrder /\ Underway /\ PiecesDone
       => InOrder' /\ Complete' /\ Written'
<1> SUFFICES ASSUME IInv, Shapes, Stored, InOrder, Underway, PiecesDone
             PROVE  InOrder' /\ Complete' /\ Written'
  OBVIOUS
<1>1. /\ pc = "pieces" /\ elf_offset >= filesize /\ i' = 1 /\ out' = out
      /\ UNCHANGED <<elf, phdr_map, elf_offset, self_sections>>
  BY DEF PiecesDone
<1>2. /\ Len(phdr_map) = phnum /\ filesize \in Nat /\ i \in Nat /\ i >= 1
      /\ phnum \in Nat /\ elf_offset \in Nat
      /\ \A k \in Deflated \cup Raw : k \in 1 .. phnum
  BY <1>1, InLoopFacts, ElfFacts DEF IInv, Deflated, Raw
<1>3. Pending = {}
  <2> SUFFICES ASSUME NEW c \in Pending PROVE FALSE
    OBVIOUS
  <2>1. c \in Deflated /\ c \in 1 .. phnum
    BY <1>2 DEF Pending, Deflated
  <2>2. /\ elf.phdr[c].off \in Nat /\ elf.phdr[c].len \in Nat /\ elf.phdr[c].len >= 1
    BY <2>1, <1>2, TableFacts
  <2>3. End(elf.phdr[c]) <= elf.size /\ elf.size <= filesize /\ elf.size \in Nat
    BY <2>1, ElfFacts, SegmentFits DEF IInv
  <2>4. elf_offset <= elf.phdr[c].off
    BY DEF Underway
  <2> QED BY <2>2, <2>3, <2>4, <1>1, <1>2 DEF End
<1>4. \A k : Passed(k)
  BY <1>1, <1>3 DEF Passed, Settled
<1>5. ASSUME NEW c \in Deflated
      PROVE  HasPiece(c)
  <2>1. c < i
    <3> SUFFICES ASSUME ~(c < i) PROVE c \in Pending
      BY <1>3
    <3> QED BY <1>2 DEF Pending, Deflated
  <2> QED BY <2>1 DEF Underway
<1>6. Complete
  BY <1>4, <1>5 DEF Complete, Underway
<1>7. InOrder' /\ Complete' /\ filesize' = filesize
  BY <1>1, <1>6, PiecesKept, TablesKept
<1>8. Written'
  <2>1. out' = <<>>
    BY <1>1 DEF Stored
  <2>2. \A n \in DOMAIN self_sections' : ~(n < i')
    BY <1>1, InLoopFacts
  <2> QED BY <2>1, <2>2, <1>1, <1>7 DEF Written
<1> QED BY <1>7, <1>8

\* fseek and fwrite: what is written is there, what is not written over stays.
LEMMA PutCell ==
    ASSUME NEW file, NEW at \in Nat, NEW cells, NEW x \in DOMAIN cells, x \in Nat,
           NEW u \in Nat, u = at + x - 1
    PROVE  u \in DOMAIN Put(file, at, cells) /\ Put(file, at, cells)[u] = cells[x]
<1> DEFINE D == DOMAIN file \cup {at + k - 1 : k \in DOMAIN cells}
<1>1. Put(file, at, cells) =
        [w \in D |-> IF w - at + 1 \in DOMAIN cells THEN cells[w - at + 1] ELSE file[w]]
  BY DEF Put
<1>2. u \in D /\ u - at + 1 = x
  OBVIOUS
<1> HIDE DEF D
<1> QED BY <1>1, <1>2

LEMMA PutFacts ==
    ASSUME NEW file, NEW at \in Nat, NEW n \in Nat, NEW cells, DOMAIN cells = 1 .. n
    PROVE  /\ \A u \in DOMAIN Put(file, at, cells) :
                u \in DOMAIN file \/ \E x \in 1 .. n : u = at + x - 1
           /\ \A u \in DOMAIN file : u \in Nat /\ (u < at \/ u >= at + n) =>
                /\ u \in DOMAIN Put(file, at, cells)
                /\ Put(file, at, cells)[u] = file[u]
<1> DEFINE D == DOMAIN file \cup {at + k - 1 : k \in 1 .. n}
<1>1. Put(file, at, cells) =
        [u \in D |-> IF u - at + 1 \in 1 .. n THEN cells[u - at + 1] ELSE file[u]]
  BY DEF Put
<1>3. ASSUME NEW u \in DOMAIN file, u \in Nat, u < at \/ u >= at + n
      PROVE  u \in D /\ ~(u - at + 1 \in 1 .. n)
  BY <1>3
<1> HIDE DEF D
<1>5. \A u \in DOMAIN file : u \in Nat /\ (u < at \/ u >= at + n) =>
         Put(file, at, cells)[u] = file[u]
  BY <1>1, <1>3
<1>6. DOMAIN Put(file, at, cells) = D
  BY <1>1
<1> QED BY <1>3, <1>5, <1>6 DEF D

\* What a piece comes to depends on the image and its table only.
LEMMA ContentsKept ==
    ASSUME UNCHANGED <<elf, phdr_map, self>>
    PROVE  \A q : Contents(q)' = Contents(q)
<1>1. ASSUME NEW r PROVE Contents(r)' = Contents(r)
  <2>1. phnum' = phnum /\ \A u : SelfCell(u)' = SelfCell(u)
    BY DEF phnum, SelfCell
  <2>2. CASE r.compressed
    BY <2>1, <2>2 DEF Contents
  <2>3. CASE ~r.compressed
    <3>1. Contents(r)' = [u \in 1 .. r.size |-> SelfCell(r.offset + u - 1)']
      BY <2>3 DEF Contents
    <3>2. Contents(r) = [u \in 1 .. r.size |-> SelfCell(r.offset + u - 1)]
      BY <2>3 DEF Contents
    <3> QED BY <3>1, <3>2, <2>1
  <2> QED BY <2>2, <2>3
<1> QED BY <1>1

LEMMA WritePieceBack ==
    IInv /\ Shapes /\ InOrder /\ Complete /\ Written /\ WritePiece /\ pc' = "write"
       => InOrder' /\ Complete' /\ Written'
<1> SUFFICES ASSUME IInv, Shapes, InOrder, Complete, Written, WritePiece, pc' = "write"
             PROVE  InOrder' /\ Complete' /\ Written'
  OBVIOUS
<1>1. PICK q : q = self_sections[i]
  OBVIOUS
<1>2. /\ pc = "write" /\ i <= Len(self_sections) /\ i' = i + 1
      /\ out' = Put(out, q.elf_offset, Contents(q))
      /\ UNCHANGED <<elf, phdr_map, self, elf_offset, self_sections>>
  BY <1>1 DEF WritePiece
<1>3. InOrder' /\ Complete'
  BY <1>2, PiecesKept
<1>4. /\ i \in Nat /\ Len(self_sections) \in Nat /\ DOMAIN self_sections = 1 .. Len(self_sections)
      /\ filesize \in Nat /\ elf_offset \in Nat /\ filesize' = filesize
      /\ \A n \in DOMAIN self_sections : self_sections[n].elf_offset \in Nat
  BY <1>2, InLoopFacts, TablesKept

<1>5. i \in DOMAIN self_sections /\ i >= 1
  BY <1>2, <1>4 DEF Written
<1>6. PICK L \in Nat : /\ L = Extent(q) /\ DOMAIN Contents(q) = 1 .. L
                       /\ q.elf_offset \in Nat /\ q.elf_offset + L <= filesize
  <2>1. /\ Extent(q) \in Nat /\ Ending(q) \in Nat /\ Ending(q) = q.elf_offset + Extent(q)
        /\ DOMAIN Contents(q) = 1 .. Extent(q) /\ q.elf_offset \in Nat
    BY <1>1, <1>2, <1>4, <1>5, PieceFacts
  <2>2. Ending(q) <= elf_offset /\ elf_offset <= filesize
    BY <1>1, <1>5 DEF InOrder
  <2> QED BY <2>1, <2>2, <1>4
<1>7. PICK at \in Nat : at = q.elf_offset
  BY <1>6
<1>8. PICK cells : cells = Contents(q)
  OBVIOUS
<1>9. PICK file : file = out
  OBVIOUS
<1>10. /\ \A u \in DOMAIN out' : u \in DOMAIN file \/ \E x \in 1 .. L : u = at + x - 1
       /\ \A u \in DOMAIN file : u \in Nat /\ (u < at \/ u >= at + L) =>
             u \in DOMAIN out' /\ out'[u] = file[u]
  <2>0. DOMAIN cells = 1 .. L
    BY <1>6, <1>8
  <2>1. out' = Put(file, at, cells)
    BY <1>2, <1>7, <1>8, <1>9
  <2>2. \A u \in DOMAIN Put(file, at, cells) :
           u \in DOMAIN file \/ \E x \in 1 .. L : u = at + x - 1
    BY <2>0, PutFacts
  <2>4. \A u \in DOMAIN file : u \in Nat /\ (u < at \/ u >= at + L) =>
           /\ u \in DOMAIN Put(file, at, cells)
           /\ Put(file, at, cells)[u] = file[u]
    BY <2>0, PutFacts
  <2> QED BY <2>1, <2>2, <2>4
<1>11. DOMAIN out' \subseteq 0 .. filesize - 1
  <2>1. DOMAIN file \subseteq 0 .. filesize - 1
    BY <1>9 DEF Written
  <2>2. \A k \in 1 .. L : at + k - 1 \in 0 .. filesize - 1
    BY <1>4, <1>6, <1>7
  <2> QED BY <2>1, <2>2, <1>10
<1>12. ASSUME NEW n \in DOMAIN self_sections, n < i + 1,
              NEW x \in 1 .. Extent(self_sections[n])
       PROVE  LET u == self_sections[n].elf_offset + x - 1
              IN  u \in DOMAIN out' /\ out'[u] = Contents(self_sections[n])[x]
  <2>1. CASE n = i
    <3>1. PICK u \in Nat : u = at + x - 1
      BY <2>1, <1>1, <1>6
    <3>2. x \in DOMAIN cells /\ x \in Nat
      BY <2>1, <1>1, <1>6, <1>8
    <3>3. u \in DOMAIN Put(file, at, cells) /\ Put(file, at, cells)[u] = cells[x]
      BY <3>1, <3>2, PutCell
    <3>4. u \in DOMAIN out' /\ out'[u] = cells[x]
      BY <3>3, <1>2, <1>7, <1>8, <1>9
    <3> QED BY <3>1, <3>4, <2>1, <1>1, <1>7, <1>8
  <2>2. CASE n # i
    <3>1. n < i /\ n \in DOMAIN self_sections
      BY <2>2, <1>4, <1>12
    <3>2. PICK b \in Nat : b = self_sections[n].elf_offset
      BY <1>4
    <3>3. PICK u : u = b + x - 1
      OBVIOUS
    <3>4. /\ Extent(self_sections[n]) \in Nat
          /\ Ending(self_sections[n]) = b + Extent(self_sections[n])
      BY <3>2, <1>2, PieceFacts
    <3>5. Ending(self_sections[n]) <= at
      BY <3>1, <1>1, <1>5, <1>7 DEF InOrder
    <3>6. u \in Nat /\ u < at
      BY <3>2, <3>3, <3>4, <3>5
    <3>7. u \in DOMAIN file /\ file[u] = Contents(self_sections[n])[x]
      BY <3>1, <3>2, <3>3, <1>9 DEF Written
    <3>8. u \in DOMAIN out' /\ out'[u] = Contents(self_sections[n])[x]
      BY <3>6, <3>7, <1>10
    <3> QED BY <3>8, <3>2, <3>3
  <2> QED BY <2>1, <2>2
<1>13. Written'
  <2>1. \A r : Extent(r)' = Extent(r)
    BY <1>2, TablesKept
  <2>2. \A r : Contents(r)' = Contents(r)
    BY <1>2, ContentsKept
  <2>3. ASSUME NEW n \in DOMAIN self_sections', n < i',
               NEW x \in 1 .. Extent(self_sections[n])'
        PROVE  LET u == self_sections'[n].elf_offset + x - 1
               IN  u \in DOMAIN out' /\ out'[u] = Contents(self_sections[n])'[x]
    <3>1. PICK r : r = self_sections[n] /\ r = self_sections'[n]
      BY <1>2
    <3>2. Extent(self_sections[n])' = Extent(r)'
      BY <3>1 DEF Extent, SegmentOf
    <3>3. Contents(self_sections[n])' = Contents(r)'
      BY <3>1 DEF Contents
    <3>4. n \in DOMAIN self_sections /\ n < i + 1 /\ x \in 1 .. Extent(self_sections[n])
      BY <3>1, <3>2, <2>1, <2>3, <1>2
    <3>5. LET u == r.elf_offset + x - 1
          IN  u \in DOMAIN out' /\ out'[u] = Contents(r)[x]
      BY <3>1, <3>4, <1>12
    <3> QED BY <3>1, <3>3, <3>5, <2>2
  <2>4. i' >= 1
    BY <1>2, <1>4
  <2> QED BY <2>3, <2>4, <1>4, <1>11 DEF Written
<1> QED BY <1>3, <1>13

-----------------------------------------------------------------------------
(* unself: the file. *)

LEMMA GreatestNat ==
    ASSUME NEW S, NEW B \in Nat, S \subseteq 0 .. B, S # {}
    PROVE  \E k \in S : \A l \in S : l <= k
<1> DEFINE T == {B - s : s \in S}
<1>1. T \in SUBSET Nat /\ T # {}
  <2>1. ASSUME NEW s \in S PROVE B - s \in Nat
    <3>1. s \in 0 .. B
      OBVIOUS
    <3> QED BY <3>1
  <2>2. T # {}
    OBVIOUS
  <2> QED BY <2>1, <2>2
<1>2. PICK t \in T : \A r \in T : t <= r
  <2> HIDE DEF T
  <2> QED BY <1>1, LeastNat
<1>3. PICK k \in S : t = B - k
  OBVIOUS
<1>4. ASSUME NEW l \in S PROVE l <= k
  <2>1. B - l \in T /\ k \in 0 .. B /\ l \in 0 .. B
    OBVIOUS
  <2> QED BY <2>1, <1>2, <1>3
<1> QED BY <1>4

\* A header made up by check_elf covers the table of program headers, and the
\* section headers go behind everything.
LEMMA CheckElfKeeps ==
    ASSUME CheckElf, elf \in Elfs, DOMAIN out \subseteq 0 .. filesize - 1,
           NEW u \in DOMAIN out, Rebuilt' => u > phnum
    PROVE  u \in DOMAIN out' /\ out'[u] = out[u]
<1>1. /\ filesize \in Nat /\ phnum \in Nat /\ elf.shnum \in Nat
      /\ u \in 0 .. filesize - 1 /\ u \in Nat
  BY ElfFacts
<1>2. CASE 0 \in DOMAIN out /\ out[0] = Cell(0)
  BY <1>2 DEF CheckElf
<1>3. CASE ~(0 \in DOMAIN out /\ out[0] = Cell(0))
  <2> DEFINE last == CHOOSE m \in DOMAIN out : \A v \in DOMAIN out : v <= m
  <2>1. PICK tail : tail = [k \in 1 .. elf.shnum + 1 |->
                               IF k <= elf.shnum THEN SelfCell(shdr_offset + k - 1)
                               ELSE <<"strtab", 0>>]
    OBVIOUS
  <2>2. PICK head : head = [k \in 1 .. 1 + phnum |-> <<"phdr", k - 1>>]
    OBVIOUS
  <2>3. PICK end : end = 1 + last
    OBVIOUS
  <2>4. PICK file : file = out
    OBVIOUS
  <2>5. PICK mid : mid = Put(file, end, tail)
    OBVIOUS
  <2>6. out' = Put(mid, 0, head)
    BY <1>3, <2>1, <2>2, <2>3, <2>4, <2>5 DEF CheckElf
  <2>7. end \in Nat /\ u < end
    <3>1. \E m \in DOMAIN out : \A v \in DOMAIN out : v <= m
      <4>1. DOMAIN out \subseteq 0 .. filesize /\ DOMAIN out # {}
        BY <1>1
      <4> QED BY <4>1, <1>1, GreatestNat
    <3>2. last \in DOMAIN out /\ u <= last
      BY <3>1
    <3>3. last \in Nat
      BY <3>2, <1>1
    <3> HIDE DEF last
    <3> QED BY <3>2, <3>3, <2>3, <1>1
  <2>8. u \in DOMAIN mid /\ mid[u] = out[u]
    <3>1. DOMAIN tail = 1 .. elf.shnum + 1 /\ elf.shnum + 1 \in Nat
      BY <2>1, <1>1
    <3>2. u \in DOMAIN Put(file, end, tail) /\ Put(file, end, tail)[u] = file[u]
      BY <3>1, <2>4, <2>7, <1>1, PutFacts
    <3> QED BY <3>2, <2>4, <2>5
  <2>9. Rebuilt'
    <3>1. PICK z \in Nat, w \in Nat, x \in Nat : z = 0 /\ w = 0 /\ x = 1
      OBVIOUS
    <3>2. x \in DOMAIN head /\ w = z + x - 1
      BY <3>1, <2>2, <1>1
    <3>3. head[x] = <<"phdr", 0>>
      BY <3>1, <3>2, <2>2
    <3>4. w \in DOMAIN Put(mid, z, head) /\ Put(mid, z, head)[w] = head[x]
      BY <3>2, PutCell
    <3>5. out'[0] = <<"phdr", 0>>
      BY <3>1, <3>3, <3>4, <2>6
    <3> QED BY <3>5, CellsApart DEF Rebuilt, Cell
  <2>10. DOMAIN head = 1 .. 1 + phnum /\ 1 + phnum \in Nat /\ u >= 0 + (1 + phnum)
    BY <2>2, <2>9, <1>1
  <2>11. u \in DOMAIN Put(mid, 0, head) /\ Put(mid, 0, head)[u] = mid[u]
    BY <2>8, <2>10, <1>1, PutFacts
  <2> QED BY <2>6, <2>8, <2>11
<1> QED BY <1>2, <1>3

\* What unself has written for a deflated segment, and for a raw one.
LEMMA DeflatedWritten ==
    ASSUME IInv, Shapes, pc = "write", i > Len(self_sections), Complete, Written,
           NEW c \in Deflated, NEW u \in elf.phdr[c].off .. End(elf.phdr[c]) - 1
    PROVE  u \in DOMAIN out /\ out[u] = Cell(u)
<1>1. /\ Len(phdr_map) = phnum /\ i \in Nat /\ Len(self_sections) \in Nat
      /\ DOMAIN self_sections = 1 .. Len(self_sections)
  BY InLoopFacts
<1>2. PICK n \in DOMAIN self_sections : self_sections[n] = SectionOf(c)
  BY DEF Complete, HasPiece
<1>3. PICK q : q = SectionOf(c)
  OBVIOUS
<1>4. /\ q.elf_offset = elf.phdr[c].off /\ Extent(q) = elf.phdr[c].len
      /\ Contents(q) = [w \in 1 .. elf.phdr[c].len |-> Cell(elf.phdr[c].off + w - 1)]
  BY <1>1, <1>3, SectionFacts
<1>5. c \in 1 .. phnum /\ elf.phdr[c].off \in Nat /\ elf.phdr[c].len \in Nat
  <2>1. c \in 1 .. phnum
    BY DEF Deflated
  <2> QED BY <2>1, <1>1, TableFacts
<1>6. PICK x \in 1 .. elf.phdr[c].len : u = elf.phdr[c].off + x - 1
  <2>1. u - elf.phdr[c].off + 1 \in 1 .. elf.phdr[c].len
    BY SMTT(30), <1>5 DEF End
  <2>2. u = elf.phdr[c].off + (u - elf.phdr[c].off + 1) - 1
    BY <1>5
  <2> QED BY <2>1, <2>2
<1>7. n < i
  BY <1>1
<1>8. LET w == q.elf_offset + x - 1 IN w \in DOMAIN out /\ out[w] = Contents(q)[x]
  BY <1>2, <1>3, <1>4, <1>7 DEF Written
<1> QED BY <1>4, <1>6, <1>8

LEMMA StartFacts ==
    ASSUME IInv, Shapes, Len(phdr_map) = phnum, Sorted(1 .. phnum), NEW k \in Raw
    PROVE  /\ ElfStart(k) \in Nat /\ SelfStart(k) \in Nat
           /\ ElfStart(k) <= elf.phdr[k].off
<1>1. phnum \in Nat /\ HeaderSize \in Nat /\ k \in 1 .. phnum /\ elf.phdr[k].off \in Nat
  <2>1. k \in 1 .. phnum
    BY DEF Raw
  <2> QED BY <2>1, TableFacts
<1>2. CASE Before(k) = {}
  BY <1>1, <1>2 DEF ElfStart, SelfStart
<1>3. CASE Before(k) # {}
  <2>1. Before(k) \subseteq 0 .. k /\ k \in Nat
    BY <1>1 DEF Before, Deflated
  <2>2. \E c \in Before(k) : \A d \in Before(k) : d <= c
    BY <2>1, <1>3, GreatestNat
  <2>3. PICK p : p = PrevOf(k)
    OBVIOUS
  <2>4. p \in Before(k)
    BY <2>2, <2>3 DEF PrevOf
  <2>5. p \in 1 .. phnum /\ p < k /\ p + 1 \in 1 .. phnum
    BY <2>4, <1>1 DEF Before, Deflated
  <2>6. phdr_map[p + 1].offset \in Nat
    BY <2>5, TableFacts
  <2>7. End(elf.phdr[p]) \in Nat /\ End(elf.phdr[p]) <= elf.phdr[k].off
    BY <2>5, <1>1, SegmentFits DEF Sorted, IInv
  <2> QED BY <2>3, <2>6, <2>7, <1>3 DEF ElfStart, SelfStart
<1> QED BY <1>2, <1>3

LEMMA RawWritten ==
    ASSUME IInv, Shapes, pc = "write", i > Len(self_sections), Complete, Written,
           Sorted(1 .. phnum), NEW k \in Raw, elf.phdr[k].len > 0,
           NEW u \in elf.phdr[k].off .. End(elf.phdr[k]) - 1
    PROVE  u \in DOMAIN out /\ out[u] = SelfCell(SelfStart(k) + (u - ElfStart(k)))
<1>1. /\ Len(phdr_map) = phnum /\ i \in Nat /\ Len(self_sections) \in Nat
      /\ DOMAIN self_sections = 1 .. Len(self_sections)
      /\ \A n \in DOMAIN self_sections : self_sections[n].size \in Nat
  BY InLoopFacts
<1>2. PICK n \in DOMAIN self_sections : /\ ~self_sections[n].compressed
                                        /\ self_sections[n].offset = SelfStart(k)
                                        /\ self_sections[n].elf_offset = ElfStart(k)
                                        /\ End(elf.phdr[k]) <= Ending(self_sections[n])
  BY DEF Complete, Covered
<1>3. PICK q : q = self_sections[n]
  OBVIOUS
<1>4. PICK a \in Nat, b \in Nat : a = ElfStart(k) /\ b = SelfStart(k) /\ a <= elf.phdr[k].off
  BY <1>1, StartFacts
<1>5. /\ k \in 1 .. phnum /\ elf.phdr[k].off \in Nat /\ End(elf.phdr[k]) \in Nat
  <2>1. k \in 1 .. phnum
    BY DEF Raw
  <2> QED BY <2>1, <1>1, TableFacts, SegmentFits DEF IInv
<1>6. /\ q.size \in Nat /\ Extent(q) = q.size /\ q.elf_offset = a
      /\ Contents(q) = [w \in 1 .. q.size |-> SelfCell(q.offset + w - 1)]
      /\ End(elf.phdr[k]) <= a + q.size
  BY <1>1, <1>2, <1>3, <1>4 DEF Extent, Contents, Ending
<1>7. PICK x \in 1 .. q.size : u = a + x - 1 /\ x - 1 = u - a
  <2>1. PICK x \in Int : x = u - a + 1
    BY <1>5
  <2>2. PICK s \in Nat, e \in Nat : s = q.size /\ e = End(elf.phdr[k]) /\ e <= a + s
    BY <1>5, <1>6
  <2>3. u \in Int /\ a <= u /\ u <= e - 1
    BY <2>2, <1>4, <1>5
  <2>4. x \in 1 .. s /\ u = a + x - 1 /\ x - 1 = u - a
    BY <2>1, <2>2, <2>3
  <2> QED BY <2>2, <2>4
<1>8. n < i
  BY <1>1
<1>9. LET w == q.elf_offset + x - 1 IN w \in DOMAIN out /\ out[w] = Contents(q)[x]
  BY <1>3, <1>6, <1>8 DEF Written
<1>10. Contents(q)[x] = SelfCell(b + x - 1)
  BY <1>2, <1>3, <1>4, <1>6
<1>11. b + x - 1 = b + (u - a)
  BY <1>7
<1> QED BY <1>4, <1>6, <1>7, <1>9, <1>10, <1>11

\* A raw segment is read from where it should be, or from where nothing of it is.
LEMMA RawReadRight ==
    ASSUME IInv, Shapes, pc = "write", i > Len(self_sections), HoldsRaw, Complete, Written,
           Sorted(1 .. phnum), NEW k \in Raw, elf.phdr[k].len > 0
    PROVE  /\ Back(k) => elf.phdr[k].off - ElfStart(k) = phdr_map[k].offset - SelfStart(k)
           /\ elf.phdr[k].off - ElfStart(k) = phdr_map[k].offset - SelfStart(k) => Back(k)
<1>1. Len(phdr_map) = phnum
  BY InLoopFacts
<1>2. PICK a \in Nat, b \in Nat : a = ElfStart(k) /\ b = SelfStart(k) /\ a <= elf.phdr[k].off
  BY <1>1, StartFacts
<1>3. k \in 1 .. phnum
  BY DEF Raw
<1>4. PICK f \in Nat, m \in Nat, n \in Nat :
         /\ f = elf.phdr[k].off /\ m = phdr_map[k].offset /\ n = elf.phdr[k].len
         /\ n > 0 /\ End(elf.phdr[k]) = f + n
  BY <1>1, <1>3, TableFacts DEF End
<1>5. ASSUME NEW u \in f .. f + n - 1
      PROVE  u \in DOMAIN out /\ out[u] = SelfCell(b + (u - a))
  <2>1. u \in elf.phdr[k].off .. End(elf.phdr[k]) - 1
    BY <1>4
  <2>2. u \in DOMAIN out /\ out[u] = SelfCell(SelfStart(k) + (u - ElfStart(k)))
    BY <2>1, <1>4, RawWritten
  <2> QED BY <2>2, <1>2
<1>6. ASSUME f - a = m - b
      PROVE  Back(k)
  <2>1. ASSUME NEW u \in f .. f + n - 1
        PROVE  u \in DOMAIN out /\ out[u] = Cell(u)
    <3>1. PICK x \in Int : x = u - f
      OBVIOUS
    <3>2. x \in 0 .. n - 1 /\ b + (u - a) = m + x /\ f + x = u
      BY <3>1, <1>6
    <3>3. SelfCell(m + x) = Cell(f + x)
      BY <3>2, <1>4 DEF HoldsRaw
    <3> QED BY <3>2, <3>3, <1>5
  <2> QED BY <2>1, <1>4 DEF Back
<1>7. ASSUME Back(k)
      PROVE  f - a = m - b
  <2>1. f \in f .. f + n - 1
    BY <1>4
  <2>2. out[f] = Cell(f)
    BY <2>1, <1>4, <1>7 DEF Back
  <2>3. PICK v \in Nat : v = b + (f - a)
    <3>1. a <= f
      BY <1>2, <1>4
    <3>2. b + (f - a) \in Nat
      BY <3>1
    <3> QED BY <3>2
  <2>4. SelfCell(v) = Cell(f)
    BY <2>1, <2>2, <2>3, <1>5
  <2>5. PICK h \in Raw : \E x \in 0 .. elf.phdr[h].len - 1 :
                            v = phdr_map[h].offset + x /\ f = elf.phdr[h].off + x
    BY <2>4 DEF HoldsRaw
  <2>6. PICK x \in 0 .. elf.phdr[h].len - 1 :
                            v = phdr_map[h].offset + x /\ f = elf.phdr[h].off + x
    BY <2>5
  <2>7. h \in 1 .. phnum /\ phnum \in Nat
    BY ElfFacts DEF Raw, IInv
  <2>8. /\ elf.phdr[h].off \in Nat /\ elf.phdr[h].len \in Nat
        /\ phdr_map[h].offset \in Nat /\ f < End(elf.phdr[h])
    <3>1. elf.phdr[h].off \in Nat /\ elf.phdr[h].len \in Nat /\ phdr_map[h].offset \in Nat
      BY <2>7, <1>1, TableFacts
    <3> QED BY <3>1, <2>6 DEF End
  <2>9. ~(h < k)
    <3> SUFFICES ASSUME h < k PROVE FALSE
      OBVIOUS
    <3>1. End(elf.phdr[h]) <= f
      BY <2>7, <1>3, <1>4 DEF Sorted
    <3> QED BY <3>1, <2>8, <1>4 DEF End
  <2>10. ~(k < h)
    <3> SUFFICES ASSUME k < h PROVE FALSE
      OBVIOUS
    <3>1. f + n <= elf.phdr[h].off
      BY <2>7, <1>3, <1>4 DEF Sorted
    <3> QED BY SMTT(30), <3>1, <2>6, <2>8, <1>4
  <2>11. h = k
    BY <2>7, <2>9, <2>10, <1>3
  <2>12. x = 0
    BY <2>6, <2>11, <1>4
  <2>13. v = m
    BY <2>6, <2>11, <2>12, <1>4
  <2> QED BY SMTT(30), <2>3, <2>13, <1>2, <1>4
<1> QED BY <1>2, <1>4, <1>6, <1>7

LEMMA CheckElfBack ==
    ASSUME IInv, Shapes, Stored, CheckElf,
           Sorted(Deflated) => InOrder /\ Complete /\ Written
    PROVE  SegmentsBack'
<1>1. /\ pc = "write" /\ i > Len(self_sections) /\ HoldsRaw
      /\ UNCHANGED <<elf, phdr_map>>
  BY DEF CheckElf, Stored
<1>2. /\ Deflated' = Deflated /\ Raw' = Raw /\ Len(phdr_map) = phnum
      /\ phnum' = phnum
      /\ (Sorted(Deflated)' <=> Sorted(Deflated))
      /\ (Sorted(1 .. phnum)' <=> Sorted(1 .. phnum))
      /\ \A k : ElfStart(k)' = ElfStart(k) /\ SelfStart(k)' = SelfStart(k)
  BY <1>1, TablesKept, InLoopFacts
<1>3. ASSUME Sorted(Deflated), NEW u \in DOMAIN out, Rebuilt' => u > phnum
      PROVE  u \in DOMAIN out' /\ out'[u] = out[u]
  BY <1>3, CheckElfKeeps DEF Written, IInv
<1>4. ASSUME Sorted(Deflated), NEW k \in 1 .. phnum, Rebuilt' => elf.phdr[k].off > phnum,
             \A u \in elf.phdr[k].off .. End(elf.phdr[k]) - 1 : u \in DOMAIN out
      PROVE  Back(k)' <=> Back(k)
  <2>1. \A u \in elf.phdr[k].off .. End(elf.phdr[k]) - 1 :
           u \in DOMAIN out' /\ out'[u] = out[u]
    <3> SUFFICES ASSUME NEW u \in elf.phdr[k].off .. End(elf.phdr[k]) - 1
                 PROVE  u \in DOMAIN out' /\ out'[u] = out[u]
      OBVIOUS
    <3>1. elf.phdr[k].off \in Nat /\ End(elf.phdr[k]) \in Nat /\ phnum \in Nat
      BY ElfFacts, SegmentFits DEF IInv
    <3>2. Rebuilt' => u > phnum
      BY <3>1, <1>4
    <3> QED BY <3>2, <1>3, <1>4
  <2> QED BY <2>1, <1>1, <1>4 DEF Back, End, Cell
<1>5. DeflatedBack'
  <2> SUFFICES ASSUME Sorted(Deflated), NEW k \in Deflated, Rebuilt' => elf.phdr[k].off > phnum
               PROVE  Back(k)'
    BY <1>1, <1>2 DEF DeflatedBack
  <2>1. \A u \in elf.phdr[k].off .. End(elf.phdr[k]) - 1 : u \in DOMAIN out /\ out[u] = Cell(u)
    BY <1>1, DeflatedWritten
  <2>2. Back(k)
    BY <2>1 DEF Back
  <2>3. k \in 1 .. phnum
    BY DEF Deflated
  <2> QED BY <2>1, <2>2, <2>3, <1>4
<1>6. RawBack'
  <2> SUFFICES ASSUME Sorted(1 .. phnum), NEW k \in Raw, elf.phdr[k].len > 0,
                      Rebuilt' => elf.phdr[k].off > phnum
               PROVE  Back(k)' <=> elf.phdr[k].off - ElfStart(k)
                                     = phdr_map[k].offset - SelfStart(k)
    BY <1>1, <1>2 DEF RawBack
  <2>1. Sorted(Deflated) /\ k \in 1 .. phnum
    BY DEF Sorted, Deflated, Raw
  <2>2. \A u \in elf.phdr[k].off .. End(elf.phdr[k]) - 1 : u \in DOMAIN out
    BY <2>1, <1>1, RawWritten
  <2>3. Back(k)' <=> Back(k)
    BY <2>1, <2>2, <1>4
  <2> QED BY <2>1, <2>3, <1>1, RawReadRight
<1> QED BY <1>5, <1>6 DEF SegmentsBack

-----------------------------------------------------------------------------
(* The invariant holds. *)

LEMMA NextBInv == BInv /\ [Next]_vars => BInv'
<1> SUFFICES ASSUME BInv, [Next]_vars PROVE BInv'
  OBVIOUS
<1>1. IInv /\ IInv' /\ Shapes /\ Stored
  BY NextIInv DEF BInv
<1>2. CASE CompressElf
  <2>1. pc = "compress" /\ pc' = "compress" /\ out' = out
    BY <1>2 DEF CompressElf
  <2>2. Shapes'
    BY <1>1, <1>2, CompressShapes
  <2> QED BY <2>1, <2>2, <1>1 DEF BInv, Stored, SegmentsBack, DeflatedBack, RawBack
<1>3. CASE Write
  <2>1. /\ pc = "compress" /\ pc' \in {"read", "overrun"} /\ out' = out
        /\ UNCHANGED <<elf, phdr_map, offset>>
    BY <1>3 DEF Write
  <2>2. Shapes'
    BY <2>1, <1>1, ShapesKept
  <2>3. pc' = "read" => HoldsRaw'
    BY <1>1, <1>3, WriteHoldsRaw
  <2> QED BY <2>1, <2>2, <2>3, <1>1
          DEF BInv, Stored, SegmentsBack, DeflatedBack, RawBack
<1>4. CASE \/ ReadSections \/ TailPiece \/ SectionPiece \/ GapPiece \/ PiecesDone
           \/ WritePiece
  <2>1. /\ pc \in {"read", "pieces", "write"} /\ pc' # "done"
        /\ UNCHANGED <<elf, phdr_map, offset, self>>
        /\ pc' \in {"pieces", "write", "crashed"}
        /\ pc' = "pieces" => out' = out /\ pc \in {"read", "pieces"}
    BY <1>4 DEF ReadSections, TailPiece, SectionPiece, GapPiece, PiecesDone, WritePiece, InLoop
  <2>2. Shapes'
    BY <2>1, <1>1, ShapesKept
  <2>3. HoldsRaw'
    <3>1. Raw' = Raw /\ \A u : SelfCell(u)' = SelfCell(u)
      BY <2>1, TablesKept DEF SelfCell
    <3>2. HoldsRaw
      BY <2>1, <1>1 DEF Stored
    <3> QED BY <2>1, <3>1, <3>2 DEF HoldsRaw, Cell
  <2>4. Stored'
    BY <2>1, <2>3, <1>1 DEF Stored
  <2>5. Sorted(Deflated)' <=> Sorted(Deflated)
    BY <2>1, TablesKept
  <2>6. ASSUME Sorted(Deflated), pc' \in {"pieces", "write"}
        PROVE  InOrder' /\ (pc' = "pieces" => Underway') /\ (pc' = "write" => Complete' /\ Written')
    <3>1. CASE ReadSections
      BY <3>1, <1>1, ReadSectionsBack DEF ReadSections
    <3>2. CASE TailPiece
      BY <3>2, <2>6, <1>1, TailBack DEF TailPiece, InLoop, BInv
    <3>3. CASE SectionPiece
      BY <3>3, <2>6, <1>1, SectionBack DEF SectionPiece, InLoop, BInv
    <3>4. CASE GapPiece
      BY <3>4, <2>6, <1>1, GapBack DEF GapPiece, InLoop, BInv
    <3>5. CASE PiecesDone
      BY <3>5, <2>6, <1>1, PiecesDoneBack DEF PiecesDone, BInv
    <3>6. CASE WritePiece
      <4>1. pc = "write" /\ pc' = "write"
        BY <3>6, <2>6 DEF WritePiece
      <4> QED BY <4>1, <3>6, <2>6, <1>1, WritePieceBack DEF BInv
    <3> QED BY <3>1, <3>2, <3>3, <3>4, <3>5, <3>6, <1>4
  <2>7. SegmentsBack'
    BY <2>1 DEF SegmentsBack, DeflatedBack, RawBack
  <2> QED BY <2>2, <2>4, <2>5, <2>6, <2>7, <1>1 DEF BInv
<1>5. CASE CheckElf
  <2>1. /\ pc = "write" /\ pc' = "done" /\ UNCHANGED <<elf, phdr_map, offset>>
    BY <1>5 DEF CheckElf
  <2>2. Shapes' /\ Stored'
    BY <2>1, <1>1, ShapesKept DEF Stored
  <2>3. SegmentsBack'
    BY <2>1, <1>1, <1>5, CheckElfBack DEF BInv
  <2> QED BY <2>1, <2>2, <2>3, <1>1 DEF BInv
<1>6. CASE UNCHANGED vars
  <2>1. UNCHANGED <<elf, pc, i, phdr_map, offset, self, elf_offset, self_offset,
                    self_sections, out>>
    BY <1>6 DEF vars
  <2>2. Shapes' /\ (InOrder => InOrder') /\ (Complete => Complete')
    BY <2>1, <1>1, ShapesKept, PiecesKept
  <2>3. /\ Deflated' = Deflated /\ Raw' = Raw /\ phnum' = phnum /\ filesize' = filesize
        /\ (Sorted(Deflated)' <=> Sorted(Deflated))
        /\ (Sorted(1 .. phnum)' <=> Sorted(1 .. phnum))
        /\ \A k : /\ SectionOf(k)' = SectionOf(k) /\ next(k)' = next(k)
                  /\ ElfStart(k)' = ElfStart(k) /\ SelfStart(k)' = SelfStart(k)
        /\ \A q : Extent(q)' = Extent(q) /\ Ending(q)' = Ending(q)
    BY <2>1, TablesKept
  <2>4. Stored'
    <3>1. \A u : SelfCell(u)' = SelfCell(u)
      BY <2>1 DEF SelfCell
    <3>2. HoldsRaw' <=> HoldsRaw
      BY <2>1, <2>3, <3>1 DEF HoldsRaw, Cell
    <3> QED BY <2>1, <3>2, <1>1 DEF Stored
  <2>5. Underway => Underway'
    <3>1. Pending' = Pending
      BY <2>1, <2>3 DEF Pending
    <3>2. First' = First
      BY <3>1 DEF First
    <3>3. Settled' <=> Settled
      BY <2>1, <2>3, <3>1, <3>2 DEF Settled
    <3>4. \A k : Passed(k)' <=> Passed(k)
      BY <2>1, <3>1, <3>2, <3>3 DEF Passed
    <3>5. /\ elf_offset = (IF i = 1 THEN 0 ELSE End(elf.phdr[i - 1]))
             => elf_offset' = (IF i = 1 THEN 0 ELSE End(elf.phdr[i - 1]))'
          /\ self_offset = (IF i = 1 THEN HeaderSize ELSE next(i - 1))
             => self_offset' = (IF i = 1 THEN HeaderSize ELSE next(i - 1))'
      BY <2>1, <2>3 DEF End, next
    <3> SUFFICES ASSUME Underway PROVE Underway'
      OBVIOUS
    <3>6. /\ i' = 1 \/ i' - 1 \in Deflated'
          /\ \A c \in Pending' : elf_offset' <= elf'.phdr[c].off
      BY <2>1, <2>3, <3>1 DEF Underway
    <3>7. ~Settled' => /\ elf_offset' = (IF i = 1 THEN 0 ELSE End(elf.phdr[i - 1]))'
                       /\ self_offset' = (IF i = 1 THEN HeaderSize ELSE next(i - 1))'
      BY <3>3, <3>5 DEF Underway
    <3>8. \A c \in Deflated' : c < i' => HasPiece(c)'
      BY <2>1, <2>3, PiecesKept DEF Underway
    <3>9. Sorted(1 .. phnum)' =>
             \A k \in Raw' : elf'.phdr[k].len > 0 /\ Passed(k)' => Covered(k)'
      <4>1. \A k : Covered(k) => Covered(k)'
        BY <2>1, PiecesKept
      <4> QED BY <2>1, <2>3, <3>4, <4>1 DEF Underway
    <3> QED BY <3>6, <3>7, <3>8, <3>9 DEF Underway
  <2>6. Written => Written'
    <3> SUFFICES ASSUME Written,
                        NEW n \in DOMAIN self_sections', n < i',
                        NEW x \in 1 .. Extent(self_sections[n])'
                 PROVE  LET u == self_sections'[n].elf_offset + x - 1
                        IN  u \in DOMAIN out' /\ out'[u] = Contents(self_sections[n])'[x]
      BY <2>1, <2>3 DEF Written
    <3>1. PICK r : r = self_sections[n] /\ r = self_sections'[n]
      BY <2>1
    <3>2. Extent(self_sections[n])' = Extent(r)' /\ Contents(self_sections[n])' = Contents(r)'
      BY <3>1 DEF Extent, SegmentOf, Contents
    <3>3. Extent(r)' = Extent(r) /\ Contents(r)' = Contents(r)
      BY <2>1, <2>3, ContentsKept
    <3>4. x \in 1 .. Extent(self_sections[n]) /\ n \in DOMAIN self_sections /\ n < i
      BY <3>1, <3>2, <3>3, <2>1
    <3>5. LET u == r.elf_offset + x - 1 IN u \in DOMAIN out /\ out[u] = Contents(r)[x]
      BY <3>1, <3>4 DEF Written
    <3> QED BY <3>1, <3>2, <3>3, <3>5, <2>1
  <2>7. SegmentsBack'
    <3>1. /\ Rebuilt' <=> Rebuilt
          /\ \A k : Back(k)' <=> Back(k)
      BY <2>1 DEF Rebuilt, Back, End, Cell
    <3>2. DeflatedBack' <=> DeflatedBack
      BY <2>1, <2>3, <3>1 DEF DeflatedBack
    <3>3. RawBack' <=> RawBack
      BY <2>1, <2>3, <3>1 DEF RawBack
    <3> QED BY <3>2, <3>3 DEF SegmentsBack, BInv
  <2> QED BY <2>1, <2>2, <2>3, <2>4, <2>5, <2>6, <2>7, <1>1 DEF BInv
<1> QED BY <1>2, <1>3, <1>4, <1>5, <1>6 DEF Next

\* Every deflated segment comes back at its place, when they are in order of
\* their offsets; a raw one exactly when it is as far behind the deflated one in
\* front of it as in the SELF: for all ELF files, however many segments they have.
THEOREM SegmentsComeBack == Spec => []SegmentsBack
<1>1. Init => BInv
  <2> SUFFICES ASSUME Init PROVE BInv
    OBVIOUS
  <2>1. pc = "compress" /\ phdr_map = <<>> /\ offset = HeaderSize /\ out = <<>>
    BY DEF Init
  <2>2. Shapes /\ Stored
    BY <2>1 DEF Shapes, Stored
  <2> QED BY <2>1, <2>2, InitIInv DEF BInv, SegmentsBack, DeflatedBack, RawBack
<1>2. BInv => SegmentsBack
  BY DEF BInv
<1> QED BY <1>1, <1>2, NextBInv, PTL DEF Spec

-----------------------------------------------------------------------------
(* The NPDRM walks, for all areas, and all block sizes in them.              *)

\* A way through the control blocks, from the first one, over n blocks none of
\* which is the one with the licence.
Leads(w, n) ==
    /\ w[0] = 0
    /\ \A k \in 0 .. n : w[k] \in Nat
    /\ \A k \in 0 .. n - 1 :
          /\ w[k] < Layer!ctrl_size /\ ~Layer!Npdrm(Layer!Block(w[k]))
          /\ w[k + 1] = w[k] + Layer!Block(w[k]).size

Visits(o) == \E n \in Nat : \E w : Leads(w, n) /\ w[n] = o
Stops(o)  == o >= Layer!ctrl_size \/ Layer!Npdrm(Layer!Block(o))

\* What a walk that stops at o makes of the metadata, and what comes of it.
Left(o) ==
    IF o >= Layer!ctrl_size THEN [pc |-> "walked", meta |-> Layer!Sealed(n_file)]
    ELSE Layer!Licence(Layer!Block(o).licence, Layer!Sealed(n_file))
Result(o) == IF Left(o).pc = "walked" THEN Layer!Open(Left(o)) ELSE Left(o)

Ended(a, m) ==
    /\ a = "walked" =>
          \E o \in Nat : Visits(o) /\ Stops(o) /\ Left(o).pc = "walked" /\ Left(o).meta = m
    /\ a \in Layer!Ends =>
          \E o \in Nat : Visits(o) /\ Stops(o) /\ Result(o).pc = a /\ Result(o).meta = m

\* The list that self.c reads: the blocks at the offsets w, each of 32 bits.
Listed(w, infos, n) ==
    /\ w[1] = 0
    /\ \A k \in 1 .. n + 1 : w[k] \in Nat /\ (k > 1 => w[k] < LayerWord)
    /\ \A k \in 1 .. n :
          /\ w[k] < Layer!ctrl_size /\ infos[k] = Layer!Block(w[k])
          /\ w[k + 1] = (w[k] + Layer!Block(w[k]).size) % LayerWord

UInv ==
    /\ n_u = [pc |-> n_u.pc, i |-> n_u.i, meta |-> n_u.meta]
    /\ n_u.i \in Nat /\ n_u.pc \in {"walk", "walked"} \union Layer!Ends
    /\ ~n_file.debug /\ n_u.pc = "walk" => Visits(n_u.i) /\ n_u.meta = Layer!Sealed(n_file)
    /\ ~n_file.debug => Ended(n_u.pc, n_u.meta)

\* While the list is read, its last offset is the next one to read at; while it
\* is walked, the offset is the one of the entry, or behind the area.
Reading(off, infos, n) == \E w : Listed(w, infos, n) /\ w[n + 1] = off
Walking(off, infos, n, x) ==
    \E w : /\ Listed(w, infos, n) /\ w[n + 1] >= Layer!ctrl_size
           /\ off >= Layer!ctrl_size \/ (x \in 1 .. n + 1 /\ w[x] = off)

VInv ==
    /\ n_v = [pc |-> n_v.pc, off |-> n_v.off, infos |-> n_v.infos, i |-> n_v.i, meta |-> n_v.meta]
    /\ n_v.off \in Nat /\ n_v.i \in Nat
    /\ n_v.pc \in {"read", "walk", "walked"} \union Layer!Ends
    /\ n_v.infos \in Seq([type : Nat, size : Nat, licence : Nat]) /\ Len(n_v.infos) <= Memory
    /\ n_v.pc \in {"read", "walk"} => n_v.meta = Layer!Sealed(n_file)
    /\ n_v.pc = "read" => n_v.i = 1 /\ Reading(n_v.off, n_v.infos, Len(n_v.infos))
    /\ n_v.pc = "walk" => Visits(n_v.off) /\ Walking(n_v.off, n_v.infos, Len(n_v.infos), n_v.i)
    /\ n_v.pc # "crashed" => Ended(n_v.pc, n_v.meta)

NInv ==
    /\ n_file \in [area : Areas, seal : Seals, npdrm : BOOLEAN, debug : BOOLEAN]
    /\ n_exdata \in [rif : Layer!Files, act : Layer!Files]
    /\ UInv /\ VInv

LEMMA BlockIs ==
    ASSUME n_file \in [area : Areas, seal : Seals, npdrm : BOOLEAN, debug : BOOLEAN]
    PROVE  /\ Layer!ctrl_size \in Nat
           /\ \A o \in Nat : o < Layer!ctrl_size =>
                 /\ Layer!Block(o) \in [type : Nat, size : Nat, licence : Nat]
                 /\ Layer!Block(o).size \in Nat
<1>1. PICK a : a = n_file.area OBVIOUS
<1>2. a \in Seq([type : Nat, size : Nat, licence : Nat])
  BY <1>1, LayerAssumption DEF Layer!NpdrmAssumption
<1>3. PICK n \in Nat : n = Len(a) BY <1>2
<1>4. ASSUME NEW o \in Nat, o < n PROVE a[o + 1] \in [type : Nat, size : Nat, licence : Nat]
  <2>1. o + 1 \in 1 .. n BY <1>4
  <2>2. PICK H : H = [type : Nat, size : Nat, licence : Nat] OBVIOUS
  <2>3. a \in Seq(H) BY <2>2, <1>2
  <2>4. a[o + 1] \in H BY <2>1, <2>3, <1>3
  <2> QED BY <2>2, <2>4
<1>5. \A b \in [type : Nat, size : Nat, licence : Nat] : b.size \in Nat OBVIOUS
<1> QED BY <1>1, <1>3, <1>4, <1>5 DEF Layer!ctrl_size, Layer!Block

\* A way can be continued behind a block without a licence.
LEMMA VisitsNext ==
    ASSUME n_file \in [area : Areas, seal : Seals, npdrm : BOOLEAN, debug : BOOLEAN],
           NEW o \in Nat, Visits(o), ~Stops(o)
    PROVE  Visits(o + Layer!Block(o).size) /\ o + Layer!Block(o).size \in Nat
<1>1. PICK n \in Nat : \E w : Leads(w, n) /\ w[n] = o BY DEF Visits
<1>2. PICK w : Leads(w, n) /\ w[n] = o BY <1>1
<1>3. o < Layer!ctrl_size /\ ~Layer!Npdrm(Layer!Block(o)) BY BlockIs DEF Stops
<1>4. PICK s \in Nat : s = Layer!Block(o).size BY <1>3, BlockIs
<1> DEFINE z == [k \in 0 .. n + 1 |-> IF k = n + 1 THEN o + s ELSE w[k]]
<1>5. /\ z[n + 1] = o + s /\ \A k \in 0 .. n : z[k] = w[k] /\ n + 1 \in Nat
  OBVIOUS
<1> HIDE DEF z
<1>6. z[0] = 0 BY <1>2, <1>5 DEF Leads
<1>7. \A k \in 0 .. n + 1 : z[k] \in Nat BY <1>2, <1>5 DEF Leads
<1>8. ASSUME NEW k \in 0 .. n
      PROVE  /\ z[k] < Layer!ctrl_size /\ ~Layer!Npdrm(Layer!Block(z[k]))
             /\ z[k + 1] = z[k] + Layer!Block(z[k]).size
  <2>1. CASE k = n BY <2>1, <1>2, <1>3, <1>4, <1>5
  <2>2. CASE k \in 0 .. n - 1
    <3>1. z[k] = w[k] /\ z[k + 1] = w[k + 1] BY <2>2, <1>5
    <3> QED BY <3>1, <2>2, <1>2 DEF Leads
  <2> QED BY <2>1, <2>2
<1>9. Leads(z, n + 1) BY <1>6, <1>7, <1>8 DEF Leads
<1> QED BY <1>4, <1>5, <1>9 DEF Visits

\* All ways stop at the same offset.
LEMMA OneStop ==
    ASSUME NEW o \in Nat, NEW q \in Nat, Visits(o), Visits(q), Stops(o), Stops(q),
           Layer!ctrl_size \in Nat
    PROVE  o = q
<1>1. ASSUME NEW n \in Nat, NEW m \in Nat, NEW w, NEW z, Leads(w, n), Leads(z, m), n <= m
      PROVE  w[n] = z[n]
  <2> DEFINE S == {k \in 0 .. n : w[k] # z[k]}
  <2>1. SUFFICES ASSUME S # {} PROVE FALSE OBVIOUS
  <2>2. S \in SUBSET Nat OBVIOUS
  <2>3. PICK k \in S : \A l \in S : k <= l BY <2>1, <2>2, LeastNat
  <2>4. k \in 0 .. n /\ w[k] # z[k] OBVIOUS
  <2>5. k # 0 BY <2>4, <1>1 DEF Leads
  <2>6. k - 1 \in 0 .. n - 1 /\ k - 1 \in 0 .. m - 1 /\ k - 1 \notin S BY <2>3, <2>4, <2>5, <1>1
  <2>7. w[k - 1] = z[k - 1] BY <2>6
  <2>8. w[k - 1 + 1] = z[k - 1 + 1]
    BY <2>6, <2>7, <1>1 DEF Leads
  <2>9. k - 1 + 1 = k BY <2>4
  <2> QED BY <2>4, <2>8, <2>9
<1>2. ASSUME NEW n \in Nat, NEW m \in Nat, NEW w, NEW z, Leads(w, n), Leads(z, m), n <= m,
             Stops(w[n])
      PROVE  w[n] = z[m]
  <2>1. w[n] = z[n] BY <1>1, <1>2
  <2>2. CASE n = m BY <2>1, <2>2
  <2>3. CASE n < m
    <3>1. n \in 0 .. m - 1 /\ z[n] \in Nat BY <2>3, <1>2 DEF Leads
    <3>2. z[n] < Layer!ctrl_size /\ ~Layer!Npdrm(Layer!Block(z[n])) BY <3>1, <1>2 DEF Leads
    <3> QED BY <3>1, <3>2, <2>1, <1>2 DEF Stops
  <2> QED BY <2>2, <2>3, <1>2
<1>3. PICK n \in Nat : \E w : Leads(w, n) /\ w[n] = o BY DEF Visits
<1>4. PICK w : Leads(w, n) /\ w[n] = o BY <1>3
<1>5. PICK m \in Nat : \E z : Leads(z, m) /\ z[m] = q BY DEF Visits
<1>6. PICK z : Leads(z, m) /\ z[m] = q BY <1>5
<1>7. CASE n <= m BY <1>2, <1>4, <1>6, <1>7
<1>8. CASE m <= n BY <1>2, <1>4, <1>6, <1>8
<1> QED BY <1>7, <1>8

\* The walks change neither the file nor the licence files.
LEMMA Unmoved ==
    ASSUME n_file' = n_file, n_exdata' = n_exdata
    PROVE  /\ Layer!ctrl_size' = Layer!ctrl_size
           /\ \A o : (Visits(o))' <=> Visits(o)
           /\ \A a, m : (Ended(a, m))' <=> Ended(a, m)
           /\ \A o, s, n : (Reading(o, s, n))' <=> Reading(o, s, n)
           /\ \A o, s, n, x : (Walking(o, s, n, x))' <=> Walking(o, s, n, x)
<1>1. Layer!ctrl_size' = Layer!ctrl_size BY DEF Layer!ctrl_size
<1>2. \A o : (Layer!Block(o))' = Layer!Block(o) BY DEF Layer!Block
<1>3. \A o : (Visits(o))' <=> Visits(o)
  BY <1>1, <1>2 DEF Visits, Leads, Layer!Npdrm
<1>4. \A o : (Stops(o))' <=> Stops(o) BY <1>1, <1>2 DEF Stops, Layer!Npdrm
<1>5. \A t, m : (Layer!Licence(t, m))' = Layer!Licence(t, m)
  BY DEF Layer!Licence, Layer!klicensee
<1>6. \A o : (Left(o))' = Left(o)
  BY <1>1, <1>2, <1>5 DEF Left
<1>7. \A o : (Result(o))' = Result(o) BY <1>6 DEF Result
<1>8. \A a, m : (Ended(a, m))' <=> Ended(a, m)
  BY <1>3, <1>4, <1>6, <1>7 DEF Ended
<1>9. \A w, s, n : (Listed(w, s, n))' <=> Listed(w, s, n) BY <1>1, <1>2 DEF Listed
<1>10. \A o, s, n : (Reading(o, s, n))' <=> Reading(o, s, n) BY <1>9 DEF Reading
<1>11. \A o, s, n, x : (Walking(o, s, n, x))' <=> Walking(o, s, n, x)
  BY <1>1, <1>9 DEF Walking
<1> QED BY <1>1, <1>3, <1>8, <1>10, <1>11

\* What a block with a licence makes of a walk.
LEMMA LicenceSays ==
    ASSUME NEW b, Layer!Npdrm(b), NEW m
    PROVE  /\ Layer!Licence(b.licence, m).pc \in {"refused", "crashed", "walked"}
           /\ Layer!Licence(b.licence, m)
                 = [pc |-> Layer!Licence(b.licence, m).pc, meta |-> Layer!Licence(b.licence, m).meta]
<1>1. b.licence = 1 \/ b.licence = 2 \/ b.licence = 3 BY DEF Layer!Npdrm
<1>2. CASE b.licence = 1 BY <1>2 DEF Layer!Licence
<1>3. CASE b.licence = 2 BY <1>3 DEF Layer!Licence
<1>4. CASE b.licence = 3 BY <1>4 DEF Layer!Licence
<1> QED BY <1>1, <1>2, <1>3, <1>4

\* A walk that stops at o ends as Left(o) says, and then as Result(o) does.
LEMMA StopsHere ==
    ASSUME NEW o \in Nat, Visits(o), Stops(o), Layer!ctrl_size \in Nat
    PROVE  /\ Left(o).pc \in {"refused", "crashed", "walked"}
           /\ Ended(Left(o).pc, Left(o).meta)
<1>1. Left(o).pc \in {"refused", "crashed", "walked"}
  <2>1. CASE o >= Layer!ctrl_size BY <2>1 DEF Left
  <2>2. CASE ~(o >= Layer!ctrl_size) BY <2>2, LicenceSays DEF Left, Stops
  <2> QED BY <2>1, <2>2
<1>2. CASE Left(o).pc = "walked" BY <1>2 DEF Ended, Layer!Ends
<1>3. CASE Left(o).pc # "walked"
  <2>1. Result(o) = Left(o) BY <1>3 DEF Result
  <2> QED BY <1>1, <1>3, <2>1 DEF Ended
<1> QED BY <1>1, <1>2, <1>3

LEMMA OpensHere ==
    ASSUME NEW m, Ended("walked", m), NEW a, NEW r,
           a = (IF m = <<"root">> THEN "opened" ELSE "refused"),
           r = (IF m = <<"root">> THEN <<>> ELSE m)
    PROVE  Ended(a, r)
<1>1. PICK o \in Nat : Visits(o) /\ Stops(o) /\ Left(o).pc = "walked" /\ Left(o).meta = m
  BY DEF Ended
<1>2. Left(o) = [pc |-> Left(o).pc, meta |-> Left(o).meta]
  <2>1. CASE o >= Layer!ctrl_size BY <2>1 DEF Left
  <2>2. CASE ~(o >= Layer!ctrl_size) BY <2>2, <1>1, LicenceSays DEF Left, Stops
  <2> QED BY <2>1, <2>2
<1>3. Result(o) = Layer!Open(Left(o)) BY <1>1 DEF Result
<1>4. Result(o).pc = a /\ Result(o).meta = r BY <1>1, <1>2, <1>3 DEF Layer!Open
<1> QED BY <1>1, <1>4 DEF Ended

\* Only its own licence opens a file.
LEMMA OpensByLicence ==
    ASSUME n_file \in [area : Areas, seal : Seals, npdrm : BOOLEAN, debug : BOOLEAN],
           n_exdata \in [rif : Layer!Files, act : Layer!Files],
           ~n_file.debug, NEW m, Ended("opened", m)
    PROVE  \/ n_file.seal = "none"
           \/ n_file.seal = "free" /\ n_file.npdrm
           \/ n_file.seal = "content" /\ n_file.npdrm /\ n_exdata = [rif |-> "right", act |-> "right"]
<1>1. PICK o \in Nat : Visits(o) /\ Stops(o) /\ Result(o).pc = "opened"
  BY DEF Ended, Layer!Ends
<1>2. Left(o).pc = "walked" /\ Left(o).meta = <<"root">>
  <2>1. Left(o) = [pc |-> Left(o).pc, meta |-> Left(o).meta] /\ Left(o).pc # "opened"
    <3>1. CASE o >= Layer!ctrl_size BY <3>1 DEF Left
    <3>2. CASE ~(o >= Layer!ctrl_size) BY <3>2, <1>1, LicenceSays DEF Left, Stops
    <3> QED BY <3>1, <3>2
  <2>2. Left(o).pc = "walked" BY <2>1, <1>1 DEF Result
  <2>3. Result(o) = Layer!Open(Left(o)) BY <2>2 DEF Result
  <2>4. Left(o).meta # <<"root">> => Result(o).pc = "refused" BY <2>1, <2>3 DEF Layer!Open
  <2> QED BY <2>2, <2>4, <1>1
<1>3. SUFFICES ASSUME n_file.seal # "none"
              PROVE  \/ n_file.seal = "free" /\ n_file.npdrm
                     \/ /\ n_file.seal = "content" /\ n_file.npdrm
                        /\ n_exdata = [rif |-> "right", act |-> "right"]
  OBVIOUS
<1>4. PICK s : s = n_file.seal /\ Layer!Sealed(n_file) = <<"root", s>>
  BY <1>3 DEF Layer!Sealed
<1>5. s \in {"free", "content", "other"} BY <1>3, <1>4, LayerAssumption DEF Layer!NpdrmAssumption
<1>6. o < Layer!ctrl_size /\ Layer!Npdrm(Layer!Block(o))
  <2>1. CASE o >= Layer!ctrl_size
    <3>1. <<"root", s>> = <<"root">> BY <2>1, <1>2, <1>4 DEF Left
    <3>2. Len(<<"root", s>>) = 2 /\ Len(<<"root">>) = 1 OBVIOUS
    <3> QED BY <3>1, <3>2
  <2> QED BY <2>1, <1>1, BlockIs DEF Stops
<1>7. PICK t : t = Layer!Block(o).licence /\ t \in 1 .. 3 BY <1>6 DEF Layer!Npdrm
<1>8. Left(o) = Layer!Licence(t, <<"root", s>>) BY <1>4, <1>6, <1>7, BlockIs DEF Left
<1>9. ASSUME NEW key, Layer!decrypt_npdrm(<<"root", s>>, key) = <<"root">> PROVE key = s
  <2>1. SUFFICES ASSUME key # s PROVE FALSE OBVIOUS
  <2>2. Layer!Last(<<"root", s>>) = s BY DEF Layer!Last
  <2>3. Layer!decrypt_npdrm(<<"root", s>>, key) = Append(<<"root", s>>, "noise")
    BY <2>1, <2>2 DEF Layer!decrypt_npdrm, Layer!aes128cbc
  <2>4. Len(Append(<<"root", s>>, "noise")) = 3 /\ Len(<<"root">>) = 1 OBVIOUS
  <2> QED BY <2>3, <2>4, <1>9
<1>10. CASE t = 1 BY <1>10, <1>2, <1>8 DEF Layer!Licence
<1>11. CASE t = 2
  <2>1. n_file.npdrm /\ Layer!decrypt_npdrm(<<"root", s>>, Layer!klicensee) = <<"root">>
    BY <1>11, <1>2, <1>8 DEF Layer!Licence
  <2>2. Layer!klicensee = s BY <2>1, <1>9
  <2>3. s = "content" /\ n_exdata.rif = "right" /\ n_exdata.act = "right"
    BY <2>2, <1>5 DEF Layer!klicensee
  <2> QED BY <2>1, <2>3, <1>4
<1>12. CASE t = 3
  <2>1. n_file.npdrm /\ Layer!decrypt_npdrm(<<"root", s>>, "free") = <<"root">>
    BY <1>12, <1>2, <1>8 DEF Layer!Licence
  <2>2. s = "free" BY <2>1, <1>9
  <2> QED BY <2>1, <2>2, <1>4
<1> QED BY <1>7, <1>10, <1>11, <1>12

LEMMA LayerInit == Layer!Init => NInv
<1> SUFFICES ASSUME Layer!Init PROVE NInv OBVIOUS
<1>1. /\ n_file \in [area : Areas, seal : Seals, npdrm : BOOLEAN, debug : BOOLEAN]
      /\ n_exdata \in [rif : Layer!Files, act : Layer!Files]
  BY DEF Layer!Init
<1>2. Visits(0)
  <2> DEFINE w == [k \in 0 .. 0 |-> 0]
  <2>1. w[0] = 0 /\ \A k \in 0 .. 0 : w[k] \in Nat OBVIOUS
  <2>2. Leads(w, 0)
    <3> HIDE DEF w
    <3> QED BY <2>1 DEF Leads
  <2> HIDE DEF w
  <2> QED BY <2>1, <2>2 DEF Visits
<1>3. UInv
  <2>1. PICK a, m : a = (IF n_file.debug THEN "opened" ELSE "walk") /\ m = Layer!Sealed(n_file)
    OBVIOUS
  <2>2. n_u = [pc |-> a, i |-> 0, meta |-> m] BY <2>1 DEF Layer!Init
  <2>3. n_u.pc = a /\ n_u.i = 0 /\ n_u.meta = m BY <2>2
  <2>4. ~n_file.debug => Ended(a, m) BY <2>1 DEF Ended, Layer!Ends
  <2> QED BY <1>2, <2>1, <2>2, <2>3, <2>4 DEF UInv, Layer!Ends
<1>4. VInv
  <2>1. PICK m : m = Layer!Sealed(n_file) OBVIOUS
  <2>2. n_v = [pc |-> "read", off |-> 0, infos |-> <<>>, i |-> 1, meta |-> m]
    BY <2>1 DEF Layer!Init
  <2>3. /\ n_v.pc = "read" /\ n_v.off = 0 /\ n_v.infos = <<>> /\ n_v.i = 1 /\ n_v.meta = m
    BY <2>2
  <2>4. Reading(0, <<>>, 0)
    <3> DEFINE w == [k \in 1 .. 1 |-> 0]
    <3>1. w[1] = 0 OBVIOUS
    <3> HIDE DEF w
    <3>2. Listed(w, <<>>, 0) BY <3>1 DEF Listed
    <3> QED BY <3>1, <3>2 DEF Reading
  <2>5. Ended("read", m) BY DEF Ended, Layer!Ends
  <2>6. <<>> \in Seq([type : Nat, size : Nat, licence : Nat]) /\ Len(<<>>) = 0 /\ Memory \in Nat
    BY LayerAssumption DEF Layer!NpdrmAssumption
  <2> QED BY <2>1, <2>2, <2>3, <2>4, <2>5, <2>6 DEF VInv
<1> QED BY <1>1, <1>3, <1>4 DEF NInv

\* A step of one walk leaves the other one where it is.
LEMMA UKept ==
    ASSUME NInv, UNCHANGED <<n_file, n_exdata, n_u>>
    PROVE  UInv'
<1>1. PICK k, a, m : k = n_u.i /\ a = n_u.pc /\ m = n_u.meta OBVIOUS
<1>2. n_u'.i = k /\ n_u'.pc = a /\ n_u'.meta = m BY <1>1
<1>3. (Visits(n_u.i))' <=> Visits(n_u.i)
  <2>1. (Visits(n_u.i))' <=> (Visits(k))' BY <1>2 DEF Visits
  <2> QED BY <2>1, <1>1, Unmoved
<1>4. (Ended(n_u.pc, n_u.meta))' <=> Ended(n_u.pc, n_u.meta)
  <2>1. (Ended(n_u.pc, n_u.meta))' <=> (Ended(a, m))' BY <1>2 DEF Ended
  <2> QED BY <2>1, <1>1, Unmoved
<1> QED BY <1>3, <1>4 DEF NInv, UInv, Layer!Ends

LEMMA VKept ==
    ASSUME NInv, UNCHANGED <<n_file, n_exdata, n_v>>
    PROVE  VInv'
<1>1. PICK a, o, s, x, m : /\ a = n_v.pc /\ o = n_v.off /\ s = n_v.infos
                           /\ x = n_v.i /\ m = n_v.meta
  OBVIOUS
<1>2. n_v'.pc = a /\ n_v'.off = o /\ n_v'.infos = s /\ n_v'.i = x /\ n_v'.meta = m
  BY <1>1
<1>3. (Visits(n_v.off))' <=> Visits(n_v.off)
  <2>1. (Visits(n_v.off))' <=> (Visits(o))' BY <1>2 DEF Visits
  <2> QED BY <2>1, <1>1, Unmoved
<1>4. (Ended(n_v.pc, n_v.meta))' <=> Ended(n_v.pc, n_v.meta)
  <2>1. (Ended(n_v.pc, n_v.meta))' <=> (Ended(a, m))' BY <1>2 DEF Ended
  <2> QED BY <2>1, <1>1, Unmoved
<1>5. (Reading(n_v.off, n_v.infos, Len(n_v.infos)))' <=> Reading(n_v.off, n_v.infos, Len(n_v.infos))
  <2>1. (Reading(n_v.off, n_v.infos, Len(n_v.infos)))' <=> (Reading(o, s, Len(s)))'
    BY <1>2 DEF Reading, Listed
  <2> QED BY <2>1, <1>1, Unmoved
<1>6. (Walking(n_v.off, n_v.infos, Len(n_v.infos), n_v.i))'
        <=> Walking(n_v.off, n_v.infos, Len(n_v.infos), n_v.i)
  <2>1. (Walking(n_v.off, n_v.infos, Len(n_v.infos), n_v.i))' <=> (Walking(o, s, Len(s), x))'
    BY <1>2 DEF Walking, Listed
  <2> QED BY <2>1, <1>1, Unmoved
<1> QED BY <1>3, <1>4, <1>5, <1>6 DEF NInv, VInv, Layer!Ends

\* Every step of unself's walk keeps UInv.
LEMMA UStep ==
    ASSUME NInv, Layer!UNext
    PROVE  UInv' /\ UNCHANGED <<n_file, n_exdata, n_v>>
<1>1. UNCHANGED <<n_file, n_exdata, n_v>>
  BY DEF Layer!UNext, Layer!UWalk, Layer!UWalked, Layer!UOpen
<1>2. /\ Layer!ctrl_size' = Layer!ctrl_size
      /\ \A o : (Visits(o))' <=> Visits(o)
      /\ \A a, m : (Ended(a, m))' <=> Ended(a, m)
      /\ Layer!Sealed(n_file)' = Layer!Sealed(n_file)
  BY <1>1, Unmoved
<1>3. PICK a, k, m : n_u = [pc |-> a, i |-> k, meta |-> m] /\ a = n_u.pc /\ k = n_u.i /\ m = n_u.meta
  BY DEF NInv, UInv
<1>4. k \in Nat /\ Layer!ctrl_size \in Nat BY <1>3, BlockIs DEF NInv, UInv
<1>5. SUFFICES \E a1, k1, m1 :
         /\ n_u' = [pc |-> a1, i |-> k1, meta |-> m1]
         /\ k1 \in Nat /\ a1 \in {"walk", "walked"} \union Layer!Ends
         /\ ~n_file.debug /\ a1 = "walk" => Visits(k1) /\ m1 = Layer!Sealed(n_file)
         /\ ~n_file.debug => Ended(a1, m1)
  <2>1. PICK a1, k1, m1 :
         /\ n_u' = [pc |-> a1, i |-> k1, meta |-> m1]
         /\ k1 \in Nat /\ a1 \in {"walk", "walked"} \union Layer!Ends
         /\ ~n_file.debug /\ a1 = "walk" => Visits(k1) /\ m1 = Layer!Sealed(n_file)
         /\ ~n_file.debug => Ended(a1, m1)
    BY <1>5
  <2>2. n_u'.pc = a1 /\ n_u'.i = k1 /\ n_u'.meta = m1 BY <2>1
  <2>3. (Visits(n_u.i))' <=> Visits(k1)
    <3>1. (Visits(n_u.i))' <=> (Visits(k1))' BY <2>2 DEF Visits
    <3> QED BY <3>1, <1>2
  <2>4. (Ended(n_u.pc, n_u.meta))' <=> Ended(a1, m1)
    <3>1. (Ended(n_u.pc, n_u.meta))' <=> (Ended(a1, m1))' BY <2>2 DEF Ended
    <3> QED BY <3>1, <1>2
  <2>5. UInv' BY <2>1, <2>2, <2>3, <2>4, <1>1, <1>2 DEF UInv, Layer!Ends
  <2> QED BY <2>5, <1>1
<1>6. CASE Layer!UWalk
  <2>1. a = "walk" /\ k < Layer!ctrl_size BY <1>3, <1>6 DEF Layer!UWalk
  <2>2. PICK b : b = Layer!Block(k) OBVIOUS
  <2>3. CASE Layer!Npdrm(b)
    <3>1. PICK p : p = Layer!Licence(b.licence, m) OBVIOUS
    <3>2. n_u' = [pc |-> p.pc, i |-> k, meta |-> p.meta]
      BY <1>3, <1>6, <2>2, <2>3, <3>1 DEF Layer!UWalk
    <3>3. p.pc \in {"refused", "crashed", "walked"} BY <2>3, <3>1, LicenceSays
    <3>4. ASSUME ~n_file.debug PROVE Ended(p.pc, p.meta)
      <4>1. Visits(k) /\ m = Layer!Sealed(n_file) BY <3>4, <1>3, <2>1 DEF NInv, UInv
      <4>2. Left(k) = p BY <4>1, <2>1, <2>2, <3>1, <1>4 DEF Left
      <4>3. Stops(k) BY <2>2, <2>3 DEF Stops
      <4> QED BY <4>1, <4>2, <4>3, <1>4, StopsHere
    <3> QED BY <3>2, <3>3, <3>4, <1>4 DEF Layer!Ends
  <2>4. CASE ~Layer!Npdrm(b)
    <3>1. PICK s \in Nat : s = b.size BY <1>4, <2>1, <2>2, BlockIs DEF NInv
    <3>2. n_u' = [pc |-> "walk", i |-> k + s, meta |-> m]
      BY <1>3, <1>6, <2>1, <2>2, <2>4, <3>1 DEF Layer!UWalk
    <3>3. ASSUME ~n_file.debug PROVE Visits(k + s) /\ m = Layer!Sealed(n_file)
      <4>1. Visits(k) /\ m = Layer!Sealed(n_file) BY <3>3, <1>3, <2>1 DEF NInv, UInv
      <4>2. ~Stops(k) BY <1>4, <2>1, <2>2, <2>4 DEF Stops
      <4> QED BY <4>1, <4>2, <1>4, <2>2, <3>1, VisitsNext DEF NInv
    <3>4. Ended("walk", m) BY DEF Ended, Layer!Ends
    <3>5. PICK k1 \in Nat : k1 = k + s BY <1>4
    <3>6. "walk" \in {"walk", "walked"} \union Layer!Ends OBVIOUS
    <3> QED BY <3>2, <3>3, <3>4, <3>5, <3>6
  <2> QED BY <2>3, <2>4
<1>7. CASE Layer!UWalked
  <2>1. a = "walk" /\ k >= Layer!ctrl_size /\ n_u' = [pc |-> "walked", i |-> k, meta |-> m]
    BY <1>3, <1>7 DEF Layer!UWalked
  <2>2. ASSUME ~n_file.debug PROVE Ended("walked", m)
    <3>1. Visits(k) /\ m = Layer!Sealed(n_file) BY <2>2, <1>3, <2>1 DEF NInv, UInv
    <3>2. Stops(k) /\ Left(k) = [pc |-> "walked", meta |-> m] BY <2>1, <3>1 DEF Stops, Left
    <3>3. Left(k).pc = "walked" /\ Left(k).meta = m BY <3>2
    <3> QED BY <3>1, <3>2, <3>3, <1>4, StopsHere
  <2> QED BY <2>1, <2>2, <1>4
<1>8. CASE Layer!UOpen
  <2>1. a = "walked" BY <1>3, <1>8 DEF Layer!UOpen
  <2>2. PICK a1, m1 : /\ a1 = (IF m = <<"root">> THEN "opened" ELSE "refused")
                      /\ m1 = (IF m = <<"root">> THEN <<>> ELSE m)
    OBVIOUS
  <2>3. n_u' = [pc |-> a1, i |-> k, meta |-> m1]
    BY <1>3, <1>8, <2>2 DEF Layer!UOpen, Layer!Open
  <2>4. ~n_file.debug => Ended(a1, m1)
    <3>1. ~n_file.debug => Ended("walked", m) BY <1>3, <2>1 DEF NInv, UInv
    <3> QED BY <3>1, <2>2, OpensHere
  <2> QED BY <2>2, <2>3, <2>4, <1>4 DEF Layer!Ends
<1> QED BY <1>6, <1>7, <1>8 DEF Layer!UNext

\* The list grows by one entry, at the next offset.
LEMMA ReadNext ==
    ASSUME n_file \in [area : Areas, seal : Seals, npdrm : BOOLEAN, debug : BOOLEAN],
           NEW o \in Nat, NEW s \in Seq([type : Nat, size : Nat, licence : Nat]),
           o < Layer!ctrl_size, Reading(o, s, Len(s))
    PROVE  /\ Append(s, Layer!Block(o)) \in Seq([type : Nat, size : Nat, licence : Nat])
           /\ Len(Append(s, Layer!Block(o))) = Len(s) + 1
           /\ (o + Layer!Block(o).size) % LayerWord \in Nat
           /\ Reading((o + Layer!Block(o).size) % LayerWord, Append(s, Layer!Block(o)), Len(s) + 1)
<1>1. PICK n \in Nat : n = Len(s) OBVIOUS
<1>2. PICK w : Listed(w, s, n) /\ w[n + 1] = o BY <1>1 DEF Reading
<1>3. PICK b \in [type : Nat, size : Nat, licence : Nat] : b = Layer!Block(o) /\ b.size \in Nat
  BY BlockIs
<1>4. PICK r : r = (o + b.size) % LayerWord OBVIOUS
<1>5. r \in Nat /\ r < LayerWord
  <2>1. PICK x \in Nat : x = o + b.size BY <1>3
  <2>2. x % LayerWord \in 0 .. LayerWord - 1
    BY <2>1, LayerAssumption DEF Layer!NpdrmAssumption
  <2> QED BY <1>4, <2>1, <2>2, LayerAssumption DEF Layer!NpdrmAssumption
<1>6. PICK t : t = Append(s, b) OBVIOUS
<1>7. /\ t \in Seq([type : Nat, size : Nat, licence : Nat]) /\ Len(t) = n + 1
      /\ \A k \in 1 .. n : t[k] = s[k]
      /\ t[n + 1] = b
  <2>1. PICK H : H = [type : Nat, size : Nat, licence : Nat] OBVIOUS
  <2>2. s \in Seq(H) /\ b \in H BY <2>1
  <2>3. t \in Seq(H) /\ Len(t) = n + 1 BY <1>1, <1>6, <2>2
  <2>4. \A k \in 1 .. n : t[k] = s[k] BY <1>1, <1>6, <2>2
  <2>5. t[n + 1] = b BY <1>1, <1>6, <2>2
  <2> QED BY <2>1, <2>3, <2>4, <2>5
<1> DEFINE z == [k \in 1 .. n + 2 |-> IF k = n + 2 THEN r ELSE w[k]]
<1>8. z[n + 2] = r /\ \A k \in 1 .. n + 1 : z[k] = w[k] OBVIOUS
<1> HIDE DEF z
<1>9. z[1] = 0 BY <1>2, <1>8 DEF Listed
<1>10. ASSUME NEW k \in 1 .. n + 2 PROVE z[k] \in Nat /\ (k > 1 => z[k] < LayerWord)
  <2>1. CASE k = n + 2 BY <2>1, <1>5, <1>8
  <2>2. CASE k \in 1 .. n + 1 BY <2>2, <1>2, <1>8 DEF Listed
  <2> QED BY <2>1, <2>2
<1>11. ASSUME NEW k \in 1 .. n + 1
       PROVE  /\ z[k] < Layer!ctrl_size /\ t[k] = Layer!Block(z[k])
              /\ z[k + 1] = (z[k] + Layer!Block(z[k]).size) % LayerWord
  <2>1. CASE k = n + 1
    <3>1. z[k] = o /\ z[k + 1] = r /\ t[k] = b BY <2>1, <1>2, <1>7, <1>8
    <3> QED BY <3>1, <1>3, <1>4
  <2>2. CASE k \in 1 .. n
    <3>1. k \in 1 .. n + 1 /\ k + 1 \in 1 .. n + 1 BY <2>2
    <3>2. z[k] = w[k] /\ z[k + 1] = w[k + 1] BY <3>1, <1>8
    <3>3. t[k] = s[k] BY <2>2, <1>7
    <3> QED BY <3>2, <3>3, <2>2, <1>2 DEF Listed
  <2> QED BY <2>1, <2>2
<1>12. Listed(z, t, n + 1)
  <2>1. PICK q \in Nat : q = n + 1 /\ q + 1 = n + 2 OBVIOUS
  <2>2. Listed(z, t, q) BY <2>1, <1>9, <1>10, <1>11 DEF Listed
  <2> QED BY <2>1, <2>2
<1>13. Reading(r, t, n + 1)
  <2>1. n + 1 + 1 = n + 2 OBVIOUS
  <2> QED BY <2>1, <1>8, <1>12 DEF Reading
<1> QED BY <1>1, <1>3, <1>4, <1>5, <1>6, <1>7, <1>13

\* Where the walk reads an entry of the list, it is the block at the offset of
\* 64 bits, although the list was read with one of 32; and the walk goes on to
\* the next entry, or behind the area.
LEMMA WalkNext ==
    ASSUME n_file \in [area : Areas, seal : Seals, npdrm : BOOLEAN, debug : BOOLEAN],
           NEW o \in Nat, NEW x \in Nat, NEW n \in Nat, NEW s,
           o < Layer!ctrl_size, Walking(o, s, n, x)
    PROVE  /\ x \in 1 .. n /\ s[x] = Layer!Block(o)
           /\ Walking(o + Layer!Block(o).size, s, n, x + 1)
<1>1. PICK w : /\ Listed(w, s, n) /\ w[n + 1] >= Layer!ctrl_size
               /\ x \in 1 .. n + 1 /\ w[x] = o
  BY BlockIs DEF Walking
<1>2. PICK N \in Nat : N = Layer!ctrl_size BY BlockIs
<1>3. x # n + 1 BY <1>1, <1>2
<1>4. x \in 1 .. n /\ x + 1 \in 1 .. n + 1 BY <1>1, <1>3
<1>5. PICK b \in Nat : b = Layer!Block(o).size BY BlockIs
<1>6. s[x] = Layer!Block(o) /\ w[x + 1] = (o + b) % LayerWord
  BY <1>1, <1>4, <1>5 DEF Listed
<1>7. w[n + 1] \in Nat /\ w[n + 1] < LayerWord /\ LayerWord \in Nat \ {0}
  <2>1. n + 1 \in 1 .. n + 1 /\ n + 1 > 1 BY <1>4
  <2> QED BY <2>1, <1>1, LayerAssumption DEF Listed, Layer!NpdrmAssumption
<1>8. CASE o + b < LayerWord
  <2>1. (o + b) % LayerWord = o + b BY <1>7, <1>8
  <2> QED BY <2>1, <1>1, <1>4, <1>5, <1>6 DEF Walking
<1>9. CASE o + b >= LayerWord
  <2>1. o + b >= N BY <1>1, <1>2, <1>7, <1>9
  <2> QED BY <2>1, <1>1, <1>2, <1>4, <1>5, <1>6 DEF Walking
<1> QED BY <1>7, <1>8, <1>9

\* Every step of unself2's walk keeps VInv.
LEMMA VStep ==
    ASSUME NInv, Layer!VNext
    PROVE  VInv' /\ UNCHANGED <<n_file, n_exdata, n_u>>
<1>1. UNCHANGED <<n_file, n_exdata, n_u>>
  BY DEF Layer!VNext, Layer!VRead, Layer!VReadDone, Layer!VWalk, Layer!VWalked, Layer!VOpen
<1>2. /\ Layer!ctrl_size' = Layer!ctrl_size
      /\ \A o : (Visits(o))' <=> Visits(o)
      /\ \A a, m : (Ended(a, m))' <=> Ended(a, m)
      /\ \A o, s, n : (Reading(o, s, n))' <=> Reading(o, s, n)
      /\ \A o, s, n, x : (Walking(o, s, n, x))' <=> Walking(o, s, n, x)
  BY <1>1, Unmoved
<1>3. PICK a, o, s, x, m :
        /\ n_v = [pc |-> a, off |-> o, infos |-> s, i |-> x, meta |-> m]
        /\ a = n_v.pc /\ o = n_v.off /\ s = n_v.infos /\ x = n_v.i /\ m = n_v.meta
  BY DEF NInv, VInv
<1> DEFINE H == [type : Nat, size : Nat, licence : Nat]
           Good(a1, o1, s1, x1, m1) ==
             /\ o1 \in Nat /\ x1 \in Nat
             /\ a1 \in {"read", "walk", "walked"} \union Layer!Ends
             /\ s1 \in Seq(H) /\ Len(s1) <= Memory
             /\ a1 \in {"read", "walk"} => m1 = Layer!Sealed(n_file)
             /\ a1 = "read" => x1 = 1 /\ Reading(o1, s1, Len(s1))
             /\ a1 = "walk" => Visits(o1) /\ Walking(o1, s1, Len(s1), x1)
             /\ a1 # "crashed" => Ended(a1, m1)
<1>4. Good(a, o, s, x, m) /\ Layer!ctrl_size \in Nat
  BY <1>3, BlockIs DEF NInv, VInv
<1>5. SUFFICES \E a1, o1, s1, x1, m1 :
         /\ n_v' = [pc |-> a1, off |-> o1, infos |-> s1, i |-> x1, meta |-> m1]
         /\ Good(a1, o1, s1, x1, m1)
  <2> HIDE DEF Good
  <2>1. PICK a1, o1, s1, x1, m1 :
         /\ n_v' = [pc |-> a1, off |-> o1, infos |-> s1, i |-> x1, meta |-> m1]
         /\ Good(a1, o1, s1, x1, m1)
    BY <1>5
  <2>2. /\ n_v'.pc = a1 /\ n_v'.off = o1 /\ n_v'.infos = s1 /\ n_v'.i = x1 /\ n_v'.meta = m1
    BY <2>1
  <2>3. (Visits(n_v.off))' <=> Visits(o1)
    <3>1. (Visits(n_v.off))' <=> (Visits(o1))' BY <2>2 DEF Visits
    <3> QED BY <3>1, <1>2
  <2>4. (Ended(n_v.pc, n_v.meta))' <=> Ended(a1, m1)
    <3>1. (Ended(n_v.pc, n_v.meta))' <=> (Ended(a1, m1))' BY <2>2 DEF Ended
    <3> QED BY <3>1, <1>2
  <2>5. (Reading(n_v.off, n_v.infos, Len(n_v.infos)))' <=> Reading(o1, s1, Len(s1))
    <3>1. (Reading(n_v.off, n_v.infos, Len(n_v.infos)))' <=> (Reading(o1, s1, Len(s1)))'
      BY <2>2 DEF Reading, Listed
    <3> QED BY <3>1, <1>2
  <2>6. (Walking(n_v.off, n_v.infos, Len(n_v.infos), n_v.i))' <=> Walking(o1, s1, Len(s1), x1)
    <3>1. (Walking(n_v.off, n_v.infos, Len(n_v.infos), n_v.i))' <=> (Walking(o1, s1, Len(s1), x1))'
      BY <2>2 DEF Walking, Listed
    <3> QED BY <3>1, <1>2
  <2>7. VInv' BY <2>1, <2>2, <2>3, <2>4, <2>5, <2>6, <1>1 DEF VInv, Good, Layer!Ends
  <2> QED BY <2>7, <1>1
<1>6. CASE Layer!VRead
  <2>1. a = "read" /\ o < Layer!ctrl_size BY <1>3, <1>6 DEF Layer!VRead
  <2>2. CASE Len(s) = Memory
    <3>1. n_v' = [pc |-> "crashed", off |-> o, infos |-> s, i |-> x, meta |-> m]
      BY <1>3, <1>6, <2>2 DEF Layer!VRead
    <3>2. Good("crashed", o, s, x, m) BY <1>4 DEF Layer!Ends
    <3> HIDE DEF Good
    <3> QED BY <3>1, <3>2
  <2>3. CASE Len(s) # Memory
    <3>1. PICK t, r : /\ t = Append(s, Layer!Block(o))
                      /\ r = (o + Layer!Block(o).size) % LayerWord
      OBVIOUS
    <3>2. n_v' = [pc |-> "read", off |-> r, infos |-> t, i |-> x, meta |-> m]
      BY <1>3, <1>6, <2>1, <2>3, <3>1 DEF Layer!VRead
    <3>3. t \in Seq(H) /\ Len(t) = Len(s) + 1 /\ r \in Nat /\ Reading(r, t, Len(t))
      BY <1>4, <2>1, <3>1, ReadNext DEF NInv
    <3>4. Len(t) <= Memory
      <4>1. Len(s) \in Nat /\ Len(s) <= Memory /\ Memory \in Nat
        BY <1>4, LayerAssumption DEF Layer!NpdrmAssumption
      <4> QED BY <4>1, <3>3, <2>3
    <3>5. Good("read", r, t, x, m) BY <1>4, <2>1, <3>3, <3>4 DEF Ended, Layer!Ends
    <3> HIDE DEF Good
    <3> QED BY <3>2, <3>5
  <2> QED BY <2>2, <2>3
<1>7. CASE Layer!VReadDone
  <2>1. /\ a = "read" /\ o >= Layer!ctrl_size
        /\ n_v' = [pc |-> "walk", off |-> 0, infos |-> s, i |-> x, meta |-> m]
    BY <1>3, <1>7 DEF Layer!VReadDone
  <2>2. x = 1 /\ m = Layer!Sealed(n_file) /\ Reading(o, s, Len(s)) BY <1>4, <2>1
  <2>3. Visits(0)
    <3> DEFINE w == [k \in 0 .. 0 |-> 0]
    <3>1. w[0] = 0 /\ \A k \in 0 .. 0 : w[k] \in Nat OBVIOUS
    <3> HIDE DEF w
    <3>2. Leads(w, 0) BY <3>1 DEF Leads
    <3> QED BY <3>1, <3>2 DEF Visits
  <2>4. Walking(0, s, Len(s), 1)
    <3>1. PICK w : Listed(w, s, Len(s)) /\ w[Len(s) + 1] = o BY <2>2 DEF Reading
    <3>2. w[1] = 0 BY <3>1 DEF Listed
    <3>3. Len(s) \in Nat BY <1>4
    <3>4. 1 \in 1 .. Len(s) + 1 BY <3>3
    <3> QED BY <3>1, <3>2, <3>4, <2>1 DEF Walking
  <2>5. Good("walk", 0, s, x, m) BY <1>4, <2>2, <2>3, <2>4 DEF Ended, Layer!Ends
  <2> HIDE DEF Good
  <2> QED BY <2>1, <2>5
<1>8. CASE Layer!VWalk
  <2>1. a = "walk" /\ o < Layer!ctrl_size BY <1>3, <1>8 DEF Layer!VWalk
  <2>2. /\ Visits(o) /\ m = Layer!Sealed(n_file) /\ Walking(o, s, Len(s), x)
        /\ Len(s) \in Nat /\ o \in Nat /\ x \in Nat
    BY <1>4, <2>1
  <2>3. PICK b : b = Layer!Block(o) OBVIOUS
  <2>4. /\ x \in 1 .. Len(s) /\ s[x] = b
        /\ Walking(o + b.size, s, Len(s), x + 1)
    BY <2>1, <2>2, <2>3, WalkNext DEF NInv
  <2>5. CASE Layer!Npdrm(b)
    <3>1. PICK p : p = Layer!Licence(b.licence, m) OBVIOUS
    <3>2. n_v' = [pc |-> p.pc, off |-> o, infos |-> s, i |-> x, meta |-> p.meta]
      BY <1>3, <1>8, <2>4, <2>5, <3>1 DEF Layer!VWalk
    <3>3. p.pc \in {"refused", "crashed", "walked"} BY <2>5, <3>1, LicenceSays
    <3>4. Ended(p.pc, p.meta)
      <4>1. Left(o) = p BY <2>1, <2>2, <2>3, <3>1, <1>4 DEF Left
      <4>2. Stops(o) BY <2>3, <2>5 DEF Stops
      <4> QED BY <2>2, <4>1, <4>2, <1>4, StopsHere
    <3>5. Good(p.pc, o, s, x, p.meta) BY <1>4, <3>3, <3>4 DEF Layer!Ends
    <3> HIDE DEF Good
    <3> QED BY <3>2, <3>5
  <2>6. CASE ~Layer!Npdrm(b)
    <3>1. PICK z, y : z = o + b.size /\ y = x + 1 OBVIOUS
    <3>2. n_v' = [pc |-> "walk", off |-> z, infos |-> s, i |-> y, meta |-> m]
      BY <1>3, <1>8, <2>1, <2>4, <2>6, <3>1 DEF Layer!VWalk
    <3>3. Visits(z) /\ z \in Nat
      <4>1. ~Stops(o) BY <2>1, <2>2, <2>3, <2>6, <1>4 DEF Stops
      <4> QED BY <4>1, <2>2, <2>3, <3>1, VisitsNext DEF NInv
    <3>4. y \in Nat /\ Walking(z, s, Len(s), y) BY <2>2, <2>4, <3>1
    <3>5. Good("walk", z, s, y, m) BY <1>4, <2>2, <3>3, <3>4 DEF Ended, Layer!Ends
    <3> HIDE DEF Good
    <3> QED BY <3>2, <3>5
  <2> QED BY <2>5, <2>6
<1>9. CASE Layer!VWalked
  <2>1. /\ a = "walk" /\ o >= Layer!ctrl_size
        /\ n_v' = [pc |-> "walked", off |-> o, infos |-> s, i |-> x, meta |-> m]
    BY <1>3, <1>9 DEF Layer!VWalked
  <2>2. Ended("walked", m)
    <3>1. Visits(o) /\ m = Layer!Sealed(n_file) /\ o \in Nat BY <1>4, <2>1
    <3>2. Stops(o) /\ Left(o) = [pc |-> "walked", meta |-> m] BY <2>1, <3>1 DEF Stops, Left
    <3>3. Left(o).pc = "walked" /\ Left(o).meta = m BY <3>2
    <3> QED BY <3>1, <3>2, <3>3, <1>4, StopsHere
  <2>3. Good("walked", o, s, x, m) BY <1>4, <2>2
  <2> HIDE DEF Good
  <2> QED BY <2>1, <2>3
<1>10. CASE Layer!VOpen
  <2>1. a = "walked" BY <1>3, <1>10 DEF Layer!VOpen
  <2>2. PICK a1, m1 : /\ a1 = (IF m = <<"root">> THEN "opened" ELSE "refused")
                      /\ m1 = (IF m = <<"root">> THEN <<>> ELSE m)
    OBVIOUS
  <2>3. n_v' = [pc |-> a1, off |-> o, infos |-> s, i |-> x, meta |-> m1]
    BY <1>3, <1>10, <2>2 DEF Layer!VOpen, Layer!Open
  <2>4. Ended(a1, m1)
    <3>1. Ended("walked", m) BY <1>4, <2>1
    <3> QED BY <3>1, <2>2, OpensHere
  <2>5. Good(a1, o, s, x, m1) BY <1>4, <2>2, <2>4 DEF Layer!Ends
  <2> HIDE DEF Good
  <2> QED BY <2>3, <2>5
<1> QED BY <1>6, <1>7, <1>8, <1>9, <1>10 DEF Layer!VNext

LEMMA NInvShows == NInv => Layer!TypeOK /\ Layer!WalksAgree
<1> SUFFICES ASSUME NInv PROVE Layer!TypeOK /\ Layer!WalksAgree OBVIOUS
<1>1. Layer!TypeOK
  <2>1. ASSUME n_v.pc = "walk", n_v.off < Layer!ctrl_size PROVE n_v.i \in 1 .. Len(n_v.infos)
    <3>1. /\ Walking(n_v.off, n_v.infos, Len(n_v.infos), n_v.i)
          /\ n_v.off \in Nat /\ n_v.i \in Nat
          /\ n_v.infos \in Seq([type : Nat, size : Nat, licence : Nat])
      BY <2>1 DEF NInv, VInv
    <3>2. Len(n_v.infos) \in Nat BY <3>1
    <3> QED BY <2>1, <3>1, <3>2, WalkNext DEF NInv
  <2> QED BY <2>1 DEF NInv, UInv, VInv, Layer!TypeOK
<1>2. Layer!SameEnd
  <2> SUFFICES ASSUME ~n_file.debug, n_u.pc \in Layer!Ends, n_v.pc \in {"opened", "refused"}
               PROVE  n_u.pc = n_v.pc /\ n_u.meta = n_v.meta
    BY DEF Layer!SameEnd
  <2>1. Ended(n_u.pc, n_u.meta) /\ Ended(n_v.pc, n_v.meta) BY DEF NInv, UInv, VInv
  <2>2. PICK o \in Nat : /\ Visits(o) /\ Stops(o)
                         /\ Result(o).pc = n_u.pc /\ Result(o).meta = n_u.meta
    BY <2>1 DEF Ended
  <2>3. PICK q \in Nat : /\ Visits(q) /\ Stops(q)
                         /\ Result(q).pc = n_v.pc /\ Result(q).meta = n_v.meta
    BY <2>1 DEF Ended, Layer!Ends
  <2>4. o = q BY <2>2, <2>3, OneStop, BlockIs DEF NInv
  <2> QED BY <2>2, <2>3, <2>4
<1>3. Layer!OpenedByLicence
  <2> SUFFICES ASSUME NEW p \in {n_u, n_v}, p.pc = "opened", ~n_file.debug
               PROVE  \/ n_file.seal = "none"
                      \/ n_file.seal = "free" /\ n_file.npdrm
                      \/ /\ n_file.seal = "content" /\ n_file.npdrm
                         /\ n_exdata = [rif |-> "right", act |-> "right"]
    BY DEF Layer!OpenedByLicence
  <2>1. Ended("opened", p.meta)
    <3>1. CASE p = n_u BY <3>1 DEF NInv, UInv
    <3>2. CASE p = n_v BY <3>2 DEF NInv, VInv
    <3> QED BY <3>1, <3>2
  <2> QED BY <2>1, OpensByLicence DEF NInv
<1> QED BY <1>1, <1>2, <1>3 DEF Layer!WalksAgree

\* unself and unself2 come to the same end with the same metadata, and a file
\* opens only with the licence it was sealed for: for all control areas.
THEOREM WalksAgreeAlways == ToolsSpec => []NpdrmWalks
<1> DEFINE Good == program = "npdrm" => NInv
<1>1. ToolsInit => Good BY LayerInit DEF ToolsInit
<1>2. Good /\ [ToolsNext]_all => Good'
  <2> SUFFICES ASSUME Good, [ToolsNext]_all PROVE Good' OBVIOUS
  <2>1. CASE program # "npdrm"
    <3>1. program' = program
      BY DEF ToolsNext, Unself, Unself2, WalkU, WalkV, all
    <3> QED BY <2>1, <3>1
  <2>2. CASE program = "npdrm" /\ WalkU
    <3>1. NInv /\ Layer!UNext BY <2>2 DEF WalkU
    <3>2. UInv' /\ UNCHANGED <<n_file, n_exdata, n_v>> BY <3>1, UStep
    <3>3. VInv' BY <3>1, <3>2, VKept
    <3> QED BY <3>1, <3>2, <3>3 DEF NInv
  <2>3. CASE program = "npdrm" /\ WalkV
    <3>1. NInv /\ Layer!VNext BY <2>3 DEF WalkV
    <3>2. VInv' /\ UNCHANGED <<n_file, n_exdata, n_u>> BY <3>1, VStep
    <3>3. UInv' BY <3>1, <3>2, UKept
    <3> QED BY <3>1, <3>2, <3>3 DEF NInv
  <2>4. CASE program = "npdrm" /\ UNCHANGED <<n_file, n_exdata, n_u, n_v>>
    <3>1. NInv BY <2>4
    <3>2. UInv' /\ VInv' BY <2>4, <3>1, UKept, VKept
    <3> QED BY <2>4, <3>1, <3>2 DEF NInv
  <2> QED BY <2>1, <2>2, <2>3, <2>4 DEF ToolsNext, Unself, Unself2, all, walking
<1>3. Good => NpdrmWalks BY NInvShows DEF NpdrmWalks
<1> QED BY <1>1, <1>2, <1>3, PTL DEF ToolsSpec

-----------------------------------------------------------------------------
(* unself2.  The metadata hs of a SELF f made of the ELF file e, the sections   *)
(* ss loaded by it, and what they are when written one over the other.  Of the  *)
(* keys it is enough to know which ivs nobody has counted up.                   *)

Described(e, c, hs) ==
    /\ Len(hs) \in Len(e.phdr) .. Len(e.phdr) + 1
    /\ \A k \in 1 .. Len(e.phdr) :
          hs[k].iv \in 1 .. Len(e.phdr) /\ hs[k] = Library!Header(e, c, k, hs[k].iv)
    /\ \A k \in Len(e.phdr) + 1 .. Len(hs) :
          hs[k].type # 2 /\ hs[k] = Library!ExtraHeader(e, c, hs[k].type)

\* None of the first n sections takes a key stream from the iv v.
Untaken(hs, n, v) == \A l \in 1 .. n : ~(hs[l].encrypted /\ hs[l].iv = v)

\* The cells of section h in the file f.
CellsOf(f, h) == [x \in 1 .. h.data_size |-> f[h.data_offset + x - 1]]

\* And what self_load_sections makes of them.
Taken(h, cells, p) == [x \in 1 .. h.data_size |-> Library!Toggle(cells[x], <<h.iv, p + x - 1>>)]

Inflation(seg) == [x \in 1 .. seg.len |-> Library!Clear(<<"elf", seg.off + x - 1>>)]

LoadedFrom(e, hs, f, m, s) ==
    /\ hs[m].type = 2 =>
          /\ s.offset = e.phdr[m].off
          /\ hs[m].compressed => s.data = Inflation(e.phdr[m])
          /\ ~hs[m].compressed /\ ~hs[m].encrypted => s.data = CellsOf(f, hs[m])
          /\ ~hs[m].compressed /\ hs[m].encrypted => \E p \in Nat :
                /\ Untaken(hs, m - 1, hs[m].iv) => p = 0
                /\ s.data = Taken(hs[m], CellsOf(f, hs[m]), p)
    /\ hs[m].type = 1 => s.offset = e.shoff /\ s.data = CellsOf(f, hs[m])
    /\ hs[m].type \notin {1, 2} => s.offset = -1

\* Section 0: n cells from the copy of the ELF header on.
HeadFrom(f, n) == [x \in 1 .. n |-> f[LoadElfOffset + x - 1]]

HeadLoaded(len, f, s) ==
    s.offset = 0 /\ \E n \in LoadHdrLen .. len : s.data = HeadFrom(f, n)

AreLoaded(e, c, hs, f, ss) ==
    /\ ss \in Seq({ss[m] : m \in DOMAIN ss})
    /\ ss # <<>> => HeadLoaded(Library!FileLen(e, c), f, ss[1])
    /\ \A m \in 1 .. Len(ss) - 1 : LoadedFrom(e, hs, f, m, ss[m + 1])

\* The ivs after the first n sections.
IvsAfter(e, hs, n, iv) ==
    /\ iv \in [0 .. Len(e.phdr) -> Nat]
    /\ \A v \in 1 .. Len(e.phdr) : Untaken(hs, n, v) => iv[v] = 0

\* Section s has unit x of the output.
Over(s, x) == s.offset # -1 /\ x - s.offset + 1 \in DOMAIN s.data

\* The output after the first n sections: each unit is that of the last over it.
IsWritten(ss, n, o) ==
    \A m \in 1 .. n : \A x \in Nat :
        Over(ss[m], x) /\ (\A l \in m + 1 .. n : ~Over(ss[l], x)) =>
            x \in DOMAIN o /\ o[x] = ss[m].data[x - ss[m].offset + 1]

MadeByMakeself ==
    /\ l_elf \in LoadElfs /\ l_zip \in BOOLEAN /\ Described(l_elf, l_zip, l_meta)
    /\ l_self = Library!Made(l_elf, l_zip, l_meta)

LoadGoes ==
    /\ l_i \in 0 .. Len(l_meta) + 1 /\ l_out = <<>>
    /\ l_pc = "load" =>
          /\ Len(l_sections) = l_i /\ AreLoaded(l_elf, l_zip, l_meta, l_self, l_sections)
          /\ IvsAfter(l_elf, l_meta, l_i - 1, l_ivs)

WriteGoes ==
    /\ Len(l_sections) = Len(l_meta) + 1 /\ l_i \in 1 .. Len(l_sections) + 1
    /\ AreLoaded(l_elf, l_zip, l_meta, l_self, l_sections)
    /\ IsWritten(l_sections, l_i - 1, l_out)
    /\ DOMAIN l_out \subseteq 0 .. Library!FileLen(l_elf, l_zip) + l_elf.size
    /\ l_pc = "done" => l_i = Len(l_sections) + 1

LoadInv ==
    /\ MadeByMakeself
    /\ \/ l_pc \in {"load", "failed", "crashed"} /\ LoadGoes
       \/ l_pc \in {"write", "done"} /\ WriteGoes


-----------------------------------------------------------------------------
(* Where makeself puts the segments. *)

SizeOf(e, c, k) == IF Library!Deflates(e, c, k) THEN e.phdr[k].zlen ELSE e.phdr[k].len

LEMMA LoadElfIs ==
    ASSUME NEW e \in LoadElfs
    PROVE  /\ Len(e.phdr) \in Nat /\ 1 <= Len(e.phdr)
           /\ \A k \in 1 .. Len(e.phdr) :
                /\ e.phdr[k].off \in Nat /\ e.phdr[k].len \in Nat \ {0}
                /\ e.phdr[k].load \in BOOLEAN /\ e.phdr[k].zlen \in Nat \ {0}
                /\ e.phdr[k].off + e.phdr[k].len <= e.size
                /\ \A c : SizeOf(e, c, k) \in Nat \ {0}
           /\ e.size \in Nat /\ e.shoff \in Nat /\ e.shnum \in Nat
           /\ e.shoff + e.shnum <= e.size /\ LoadHdrLen <= e.size
<1>1. /\ e.phdr \in Seq(Library!Segment) /\ e.phdr # <<>>
      /\ e.size \in Nat /\ e.shoff \in Nat /\ e.shnum \in Nat
      /\ e.shoff + e.shnum <= e.size /\ LoadHdrLen <= e.size
      /\ \A k \in 1 .. Len(e.phdr) : e.phdr[k].off + e.phdr[k].len <= e.size
  BY LibraryAssumption DEF Library!ElfAssumption
<1>2. Len(e.phdr) \in Nat /\ Len(e.phdr) # 0 BY <1>1
<1>3. ASSUME NEW k \in 1 .. Len(e.phdr)
      PROVE  /\ e.phdr[k].off \in Nat /\ e.phdr[k].len \in Nat \ {0}
             /\ e.phdr[k].load \in BOOLEAN /\ e.phdr[k].zlen \in Nat \ {0}
  <2>1. e.phdr[k] \in Library!Segment BY <1>1
  <2> QED BY <2>1 DEF Library!Segment
<1>4. \A k \in 1 .. Len(e.phdr) : \A c : SizeOf(e, c, k) \in Nat \ {0}
  BY <1>3 DEF SizeOf
<1> QED BY <1>1, <1>2, <1>3, <1>4

LEMMA LoadNumbers ==
    /\ LoadAlignment \in Nat \ {0} /\ LoadHeaderSize \in Nat /\ LoadHdrLen \in Nat
    /\ LoadElfOffset \in Nat /\ LoadElfOffset + LoadHdrLen <= LoadHeaderSize
BY LibraryAssumption DEF Library!ElfAssumption

LEMMA LoadRound ==
    ASSUME NEW x \in Nat
    PROVE  /\ Library!round_up(x, LoadAlignment) \in Nat
           /\ x <= Library!round_up(x, LoadAlignment)
<1>1. Library!round_up(x, LoadAlignment) = round_up(x, LoadAlignment)
  BY DEF Library!round_up, round_up
<1> QED BY <1>1, LoadNumbers, RoundUp

\* A round of the loop of compress_elf, or the place of an uncompressed segment.
NextPlace(e, c, at, k) ==
    IF ~c THEN e.phdr[k].off + LoadHeaderSize
    ELSE IF k = 1 THEN LoadHeaderSize
    ELSE Library!round_up(at[k - 1] + SizeOf(e, c, k - 1), LoadAlignment)

LEMMA PlacesExist ==
    ASSUME NEW e, NEW c, NEW n \in Nat
    PROVE  \E at : at = [k \in 1 .. n |-> NextPlace(e, c, at, k)]
<1> DEFINE Has(m) == \E at : at = [k \in 1 .. m |-> NextPlace(e, c, at, k)]
           S == {m \in Nat : ~Has(m)}
<1>1. Has(0)
  <2> DEFINE d == [k \in 1 .. 0 |-> 0]
  <2>1. d = [k \in 1 .. 0 |-> NextPlace(e, c, d, k)] OBVIOUS
  <2> QED BY <2>1
<1>2. ASSUME NEW m \in Nat, Has(m) PROVE Has(m + 1)
  <2>1. PICK b : b = [k \in 1 .. m |-> NextPlace(e, c, b, k)] BY <1>2
  <2> DEFINE last == NextPlace(e, c, b, m + 1)
             d == [k \in 1 .. m + 1 |-> IF k = m + 1 THEN last ELSE b[k]]
  <2>2. \A k \in 1 .. m + 1 : d[k] = NextPlace(e, c, d, k)
    <3> SUFFICES ASSUME NEW k \in 1 .. m + 1 PROVE d[k] = NextPlace(e, c, d, k) OBVIOUS
    <3>1. CASE k = m + 1
      <4>1. d[k] = last BY <3>1
      <4>2. k # 1 => d[k - 1] = b[m] BY <3>1
      <4>3. k - 1 = m BY <3>1
      <4> QED BY <4>1, <4>2, <4>3, <3>1 DEF NextPlace
    <3>2. CASE k \in 1 .. m
      <4>1. d[k] = b[k] BY <3>2
      <4>2. k # 1 => d[k - 1] = b[k - 1] BY <3>2
      <4>3. b[k] = NextPlace(e, c, b, k) BY <2>1, <3>2
      <4> QED BY <4>1, <4>2, <4>3 DEF NextPlace
    <3> QED BY <3>1, <3>2
  <2>3. d = [k \in 1 .. m + 1 |-> NextPlace(e, c, d, k)]
    <3>1. DOMAIN d = 1 .. m + 1 /\ d = [k \in 1 .. m + 1 |-> d[k]] OBVIOUS
    <3> HIDE DEF d
    <3> QED BY <2>2, <3>1
  <2> QED BY <2>3
<1> HIDE DEF Has
<1>3. ASSUME S # {} PROVE FALSE
  <2>1. S \in SUBSET Nat OBVIOUS
  <2>2. PICK m \in S : \A l \in S : m <= l BY <1>3, <2>1, LeastNat
  <2>3. m # 0 /\ m \in Nat BY <2>2, <1>1
  <2>4. m - 1 \in Nat /\ m - 1 \notin S BY <2>2, <2>3
  <2>5. Has(m - 1) BY <2>4
  <2>6. Has((m - 1) + 1) BY <2>4, <2>5, <1>2
  <2> QED BY <2>2, <2>3, <2>6
<1>4. Has(n) BY <1>3
<1> QED BY <1>4 DEF Has

\* Places of which each is behind the one before are behind all before.
LEMMA StepsApart ==
    ASSUME NEW n \in Nat, NEW h \in Nat, NEW a \in [1 .. n -> Nat], NEW s \in [1 .. n -> Nat],
           \A k \in 1 .. n : k = 1 => h <= a[k],
           \A k \in 1 .. n : k # 1 => a[k - 1] + s[k - 1] <= a[k]
    PROVE  \A l \in 1 .. n : h <= a[l] /\ \A k \in 1 .. l - 1 : a[k] + s[k] <= a[l]
<1> DEFINE Good(l) == h <= a[l] /\ \A k \in 1 .. l - 1 : a[k] + s[k] <= a[l]
           S == {l \in 1 .. n : ~Good(l)}
<1>1. ASSUME S # {} PROVE FALSE
  <2>1. S \in SUBSET Nat OBVIOUS
  <2>2. PICK m \in S : \A l \in S : m <= l BY <1>1, <2>1, LeastNat
  <2>3. m \in 1 .. n /\ m \in Nat /\ ~Good(m) BY <2>2
  <2>4. CASE m = 1
    <3>1. 1 .. m - 1 = {} BY <2>4
    <3> QED BY <2>3, <2>4, <3>1
  <2>5. CASE m # 1
    <3>1. m - 1 \in 1 .. n /\ m - 1 \notin S BY <2>2, <2>3, <2>5
    <3>2. Good(m - 1) BY <3>1
    <3>3. PICK b \in Nat, t \in Nat, z \in Nat : b = a[m - 1] /\ t = s[m - 1] /\ z = a[m]
      BY <2>3, <3>1
    <3>4. b + t <= z /\ h <= b BY <2>3, <2>5, <3>2, <3>3
    <3>5. ASSUME NEW k \in 1 .. m - 1 PROVE a[k] + s[k] <= a[m]
      <4>1. CASE k = m - 1 BY <4>1, <3>3, <3>4
      <4>2. CASE k # m - 1
        <5>1. k \in 1 .. (m - 1) - 1 /\ k \in 1 .. n BY <4>2, <2>3
        <5>2. PICK w \in Nat : w = a[k] + s[k] BY <5>1
        <5>3. w <= b BY <5>1, <5>2, <3>2, <3>3
        <5> QED BY <5>2, <5>3, <3>3, <3>4
      <4> QED BY <4>1, <4>2
    <3> QED BY <2>3, <3>3, <3>4, <3>5
  <2> QED BY <2>4, <2>5
<1> QED BY <1>1

LEMMA PlacesAreNat ==
    ASSUME NEW e \in LoadElfs, NEW c, NEW at, NEW n \in Nat, n = Len(e.phdr),
           \A k \in 1 .. n : at[k] = NextPlace(e, c, at, k)
    PROVE  \A k \in 1 .. n : at[k] \in Nat
<1> DEFINE S == {k \in 1 .. n : at[k] \notin Nat}
<1>1. ASSUME S # {} PROVE FALSE
  <2>1. S \in SUBSET Nat OBVIOUS
  <2>2. PICK m \in S : \A l \in S : m <= l BY <1>1, <2>1, LeastNat
  <2>3. m \in 1 .. n /\ m \in Nat /\ at[m] \notin Nat BY <2>2
  <2>4. e.phdr[m].off \in Nat BY <2>3, LoadElfIs
  <2>5. PICK z : z = at[m] OBVIOUS
  <2>6. z = NextPlace(e, c, at, m) BY <2>3, <2>5
  <2>7. CASE ~c
    <3>1. z = e.phdr[m].off + LoadHeaderSize BY <2>6, <2>7 DEF NextPlace
    <3> QED BY <3>1, <2>4, <2>3, <2>5, LoadNumbers
  <2>8. CASE c /\ m = 1
    <3>1. z = LoadHeaderSize BY <2>6, <2>8 DEF NextPlace
    <3> QED BY <3>1, <2>3, <2>5, LoadNumbers
  <2>9. CASE c /\ m # 1
    <3>1. m - 1 \in 1 .. n /\ m - 1 \notin S BY <2>2, <2>3, <2>9
    <3>2. at[m - 1] \in Nat BY <3>1
    <3>3. SizeOf(e, c, m - 1) \in Nat BY <3>1, LoadElfIs
    <3>4. PICK y \in Nat : y = at[m - 1] + SizeOf(e, c, m - 1) BY <3>2, <3>3
    <3>5. z = Library!round_up(y, LoadAlignment) BY <2>6, <2>9, <3>4 DEF NextPlace
    <3> QED BY <3>5, LoadRound, <2>3, <2>5
  <2> QED BY <2>7, <2>8, <2>9
<1> QED BY <1>1

LEMMA PlacesApart ==
    ASSUME NEW e \in LoadElfs, NEW c, c, NEW at, NEW n \in Nat, n = Len(e.phdr),
           at = [k \in 1 .. n |-> NextPlace(e, c, at, k)]
    PROVE  \A l \in 1 .. n : /\ LoadHeaderSize <= at[l]
                             /\ \A k \in 1 .. l - 1 : at[k] + SizeOf(e, c, k) <= at[l]
<1>1. \A k \in 1 .. n : at[k] = NextPlace(e, c, at, k) OBVIOUS
<1>2. \A k \in 1 .. n : at[k] \in Nat BY <1>1, PlacesAreNat
<1>3. PICK a \in [1 .. n -> Nat] : \A k \in 1 .. n : a[k] = at[k]
  <2>1. [k \in 1 .. n |-> at[k]] \in [1 .. n -> Nat] BY <1>2
  <2> QED BY <2>1
<1>4. PICK s \in [1 .. n -> Nat] : \A k \in 1 .. n : s[k] = SizeOf(e, c, k)
  <2>1. \A k \in 1 .. n : SizeOf(e, c, k) \in Nat BY LoadElfIs
  <2>2. [k \in 1 .. n |-> SizeOf(e, c, k)] \in [1 .. n -> Nat] BY <2>1
  <2> QED BY <2>2
<1>5. \A k \in 1 .. n : k = 1 => LoadHeaderSize <= a[k]
  <2> SUFFICES ASSUME NEW k \in 1 .. n, k = 1 PROVE LoadHeaderSize <= a[k] OBVIOUS
  <2>1. a[k] = NextPlace(e, c, at, k) BY <1>1, <1>3
  <2>2. a[k] = LoadHeaderSize BY <2>1 DEF NextPlace
  <2> QED BY <2>2, LoadNumbers
<1>6. \A k \in 1 .. n : k # 1 => a[k - 1] + s[k - 1] <= a[k]
  <2> SUFFICES ASSUME NEW k \in 1 .. n, k # 1 PROVE a[k - 1] + s[k - 1] <= a[k] OBVIOUS
  <2>1. k - 1 \in 1 .. n OBVIOUS
  <2>2. PICK y \in Nat : y = a[k - 1] + s[k - 1] BY <2>1
  <2>3. y = at[k - 1] + SizeOf(e, c, k - 1) BY <2>1, <2>2, <1>3, <1>4
  <2>4. a[k] = NextPlace(e, c, at, k) BY <1>1, <1>3
  <2>5. a[k] = Library!round_up(y, LoadAlignment) BY <2>3, <2>4 DEF NextPlace
  <2> QED BY <2>2, <2>5, LoadRound
<1>7. \A l \in 1 .. n : /\ LoadHeaderSize <= a[l]
                        /\ \A k \in 1 .. l - 1 : a[k] + s[k] <= a[l]
  <2>1. LoadHeaderSize \in Nat BY LoadNumbers
  <2> HIDE <1>1
  <2> QED BY <1>5, <1>6, <2>1, StepsApart
<1>8. \A l \in 1 .. n : \A k \in 1 .. l - 1 : k \in 1 .. n OBVIOUS
<1> QED BY <1>3, <1>4, <1>7, <1>8

\* phdr_map's places.
PlaceOf(e, c, k) == Library!phdr_map(e, c)[k].offset

LEMMA PhdrMapIs ==
    ASSUME NEW e \in LoadElfs, NEW c
    PROVE  \E at : /\ at = [k \in 1 .. Len(e.phdr) |-> NextPlace(e, c, at, k)]
                   /\ Library!phdr_map(e, c) = [k \in 1 .. Len(e.phdr) |->
                          [offset |-> at[k], size |-> SizeOf(e, c, k)]]
<1> DEFINE Size(k) == IF Library!Deflates(e, c, k) THEN e.phdr[k].zlen ELSE e.phdr[k].len
           Next1(at, k) == IF ~c THEN e.phdr[k].off + LoadHeaderSize
                           ELSE IF k = 1 THEN LoadHeaderSize
                           ELSE Library!round_up(at[k - 1] + Size(k - 1), LoadAlignment)
           f == CHOOSE at : at = [k \in 1 .. Len(e.phdr) |-> Next1(at, k)]
<1>1. Library!phdr_map(e, c) = [k \in 1 .. Len(e.phdr) |-> [offset |-> f[k], size |-> Size(k)]]
  BY DEF Library!phdr_map
<1>2. \A at, k : Next1(at, k) = NextPlace(e, c, at, k)
  BY DEF NextPlace, SizeOf
<1>3. \E at : at = [k \in 1 .. Len(e.phdr) |-> Next1(at, k)]
  <2>1. PICK at : at = [k \in 1 .. Len(e.phdr) |-> NextPlace(e, c, at, k)]
    BY PlacesExist, LoadElfIs
  <2> HIDE DEF Next1
  <2>2. [k \in 1 .. Len(e.phdr) |-> NextPlace(e, c, at, k)]
        = [k \in 1 .. Len(e.phdr) |-> Next1(at, k)]
    BY <1>2
  <2> QED BY <2>1, <2>2, Zenon
<1>4. f = [k \in 1 .. Len(e.phdr) |-> Next1(f, k)]
  <2> HIDE DEF Next1
  <2> QED BY <1>3, Zenon
<1>5. f = [k \in 1 .. Len(e.phdr) |-> NextPlace(e, c, f, k)]
  <2> HIDE DEF Next1, f
  <2>1. [k \in 1 .. Len(e.phdr) |-> NextPlace(e, c, f, k)]
        = [k \in 1 .. Len(e.phdr) |-> Next1(f, k)]
    BY <1>2
  <2> QED BY <1>4, <2>1, Zenon
<1>6. \A k : Size(k) = SizeOf(e, c, k) BY DEF SizeOf
<1> HIDE DEF f, Size
<1>7. Library!phdr_map(e, c) = [k \in 1 .. Len(e.phdr) |-> [offset |-> f[k], size |-> SizeOf(e, c, k)]]
  BY <1>1, <1>6
<1> QED BY <1>5, <1>7

LEMMA MapSizes ==
    ASSUME NEW e \in LoadElfs, NEW c
    PROVE  /\ Len(Library!phdr_map(e, c)) = Len(e.phdr)
           /\ \A k \in 1 .. Len(e.phdr) : Library!phdr_map(e, c)[k].size = SizeOf(e, c, k)
           /\ \A k \in 1 .. Len(e.phdr) : PlaceOf(e, c, k) \in Nat /\ LoadHeaderSize <= PlaceOf(e, c, k)
           /\ ~c => \A k \in 1 .. Len(e.phdr) : /\ PlaceOf(e, c, k) = e.phdr[k].off + LoadHeaderSize
                                                /\ SizeOf(e, c, k) = e.phdr[k].len
           /\ c => \A l \in 1 .. Len(e.phdr) : \A k \in 1 .. l - 1 :
                      PlaceOf(e, c, k) + SizeOf(e, c, k) <= PlaceOf(e, c, l)
<1>0. PICK n \in Nat : n = Len(e.phdr) BY LoadElfIs
<1>1. PICK at : /\ at = [k \in 1 .. Len(e.phdr) |-> NextPlace(e, c, at, k)]
                /\ Library!phdr_map(e, c) = [k \in 1 .. Len(e.phdr) |->
                          [offset |-> at[k], size |-> SizeOf(e, c, k)]]
  BY PhdrMapIs
<1>2. at = [k \in 1 .. n |-> NextPlace(e, c, at, k)] BY <1>0, <1>1, Zenon
<1>3. \A k \in 1 .. n : at[k] = NextPlace(e, c, at, k) BY <1>2
<1>4. PICK m : m = Library!phdr_map(e, c) OBVIOUS
<1>5. m = [k \in 1 .. n |-> [offset |-> at[k], size |-> SizeOf(e, c, k)]]
  BY <1>0, <1>1, <1>4
<1>6. \A k \in 1 .. n : at[k] \in Nat
  BY <1>0, <1>3, PlacesAreNat
<1>7. Len(m) = n
  <2>1. m \in Seq([offset : {at[k] : k \in 1 .. n}, size : {SizeOf(e, c, k) : k \in 1 .. n}])
    BY <1>5
  <2>2. DOMAIN m = 1 .. n BY <1>5
  <2> QED BY <2>1, <2>2
<1>8. \A k \in 1 .. n : m[k].size = SizeOf(e, c, k) /\ m[k].offset = at[k]
  BY <1>5
<1>9. \A k \in 1 .. n : PlaceOf(e, c, k) = at[k]
  BY <1>4, <1>8 DEF PlaceOf
<1>10. ASSUME ~c, NEW k \in 1 .. n
       PROVE  at[k] = e.phdr[k].off + LoadHeaderSize /\ SizeOf(e, c, k) = e.phdr[k].len
  <2>1. at[k] = NextPlace(e, c, at, k) BY <1>3
  <2>2. at[k] = e.phdr[k].off + LoadHeaderSize BY <1>10, <2>1 DEF NextPlace
  <2> QED BY <1>10, <2>2 DEF SizeOf, Library!Deflates
<1>11. c => \A l \in 1 .. n : /\ LoadHeaderSize <= at[l]
                             /\ \A k \in 1 .. l - 1 : at[k] + SizeOf(e, c, k) <= at[l]
  BY <1>0, <1>2, PlacesApart
<1>12. \A k \in 1 .. n : LoadHeaderSize <= at[k]
  <2>1. CASE c BY <2>1, <1>11
  <2>2. CASE ~c
    <3> SUFFICES ASSUME NEW k \in 1 .. n PROVE LoadHeaderSize <= at[k] OBVIOUS
    <3>1. at[k] = e.phdr[k].off + LoadHeaderSize BY <1>10, <2>2
    <3>2. e.phdr[k].off \in Nat BY <1>0, LoadElfIs
    <3> QED BY <3>1, <3>2, LoadNumbers
  <2> QED BY <2>1, <2>2
<1>13. \A l \in 1 .. n : \A k \in 1 .. l - 1 : k \in 1 .. n OBVIOUS
<1>14. c => \A l \in 1 .. n : \A k \in 1 .. l - 1 :
                      PlaceOf(e, c, k) + SizeOf(e, c, k) <= PlaceOf(e, c, l)
  BY <1>9, <1>11, <1>13
<1> HIDE <1>1, <1>2, <1>3, <1>5
<1> QED BY <1>0, <1>4, <1>6, <1>7, <1>8, <1>9, <1>10, <1>12, <1>14

\* The whole file holds every section, and what is behind the last.
LEMMA FileHolds ==
    ASSUME NEW e \in LoadElfs, NEW c
    PROVE  /\ Library!FileLen(e, c) \in Nat /\ Library!Behind(e, c) \in Nat
           /\ LoadHeaderSize <= Library!Behind(e, c)
           /\ Library!Behind(e, c) + e.shnum <= Library!FileLen(e, c)
           /\ \A k \in 1 .. Len(e.phdr) :
                 PlaceOf(e, c, k) + SizeOf(e, c, k) <= Library!FileLen(e, c)
           /\ c => \A k \in 1 .. Len(e.phdr) :
                 PlaceOf(e, c, k) + SizeOf(e, c, k) <= Library!Behind(e, c)
           /\ ~c => Library!Behind(e, c) = LoadHeaderSize + e.shoff
<1>0. PICK n \in Nat : n = Len(e.phdr) /\ n \in 1 .. n BY LoadElfIs
<1>1. PICK h \in Nat : h = LoadHeaderSize BY LoadNumbers
<1>2. PICK q \in Nat : q = e.shnum BY LoadElfIs
<1>3. PICK size \in Nat : size = e.size BY LoadElfIs
<1>4. PICK sh \in Nat : sh = e.shoff /\ sh + q <= size BY LoadElfIs, <1>2, <1>3
<1>5. \A k \in 1 .. n : PlaceOf(e, c, k) \in Nat /\ h <= PlaceOf(e, c, k) /\ SizeOf(e, c, k) \in Nat
  BY <1>0, <1>1, MapSizes, LoadElfIs
<1>6. CASE c
  <2>1. PICK b \in Nat : b = PlaceOf(e, c, n) + SizeOf(e, c, n) BY <1>0, <1>5
  <2>2. Library!Behind(e, c) = b BY <2>1, <1>0, <1>6, MapSizes DEF Library!Behind, PlaceOf
  <2>3. h <= b BY <2>1, <1>0, <1>5
  <2>4. PICK x \in Nat : x = b + q - h BY <2>3
  <2>5. PICK r \in Nat : r = Library!round_up(x, LoadAlignment) /\ x <= r BY LoadRound
  <2>6. Library!FileLen(e, c) = h + r
    BY <2>2, <2>4, <2>5, <1>1, <1>2, <1>6 DEF Library!FileLen
  <2>7. ASSUME NEW k \in 1 .. n PROVE PlaceOf(e, c, k) + SizeOf(e, c, k) <= b
    <3>1. CASE k = n BY <3>1, <2>1
    <3>2. CASE k # n
      <4>1. k \in 1 .. n - 1 BY <3>2
      <4>2. PlaceOf(e, c, k) + SizeOf(e, c, k) <= PlaceOf(e, c, n)
        BY <4>1, <1>0, <1>6, MapSizes
      <4>3. PICK w \in Nat, p \in Nat, s \in Nat :
                /\ w = PlaceOf(e, c, k) + SizeOf(e, c, k)
                /\ p = PlaceOf(e, c, n) /\ s = SizeOf(e, c, n)
        BY <1>0, <1>5
      <4> QED BY <4>2, <4>3, <2>1
    <3> QED BY <3>1, <3>2
  <2>8. h <= b /\ b + q <= h + r /\ b <= h + r BY <2>3, <2>4, <2>5
  <2>9. ASSUME NEW k \in 1 .. n PROVE PlaceOf(e, c, k) + SizeOf(e, c, k) <= h + r
    <3>1. PICK w \in Nat : w = PlaceOf(e, c, k) + SizeOf(e, c, k) BY <1>5
    <3> QED BY <3>1, <2>7, <2>8
  <2>10. Library!FileLen(e, c) \in Nat /\ Library!Behind(e, c) \in Nat
        /\ LoadHeaderSize <= Library!Behind(e, c)
        /\ Library!Behind(e, c) + e.shnum <= Library!FileLen(e, c)
    BY <2>2, <2>6, <2>8, <1>1, <1>2
  <2> QED BY <2>2, <2>6, <2>7, <2>9, <2>10, <1>0, <1>6
<1>7. CASE ~c
  <2>1. Library!Behind(e, c) = h + sh BY <1>1, <1>4, <1>7 DEF Library!Behind
  <2>2. PICK r \in Nat : r = Library!round_up(size, LoadAlignment) /\ size <= r BY LoadRound
  <2>3. Library!FileLen(e, c) = h + r BY <2>2, <1>1, <1>3, <1>7 DEF Library!FileLen
  <2>4. ASSUME NEW k \in 1 .. n PROVE PlaceOf(e, c, k) + SizeOf(e, c, k) <= h + r
    <3>1. PICK o \in Nat, len \in Nat : o = e.phdr[k].off /\ len = e.phdr[k].len /\ o + len <= size
      BY <1>0, <1>3, LoadElfIs
    <3>2. PlaceOf(e, c, k) = o + h /\ SizeOf(e, c, k) = len
      BY <3>1, <1>0, <1>1, <1>7, MapSizes
    <3> QED BY <3>1, <3>2, <2>2
  <2>5. h <= h + sh /\ (h + sh) + q <= h + r BY <1>4, <2>2
  <2> QED BY <2>1, <2>3, <2>4, <2>5, <1>0, <1>1, <1>2, <1>4, <1>7
<1> QED BY <1>6, <1>7

-----------------------------------------------------------------------------
(* The metadata and the file. *)

LEMMA SegmentHeaderIs ==
    ASSUME NEW e \in LoadElfs, NEW c \in BOOLEAN, NEW hs, Described(e, c, hs),
           NEW k \in 1 .. Len(e.phdr)
    PROVE  /\ k \in 1 .. Len(hs) /\ hs[k].type = 2 /\ hs[k].program_idx = k
           /\ hs[k].data_offset = PlaceOf(e, c, k) /\ hs[k].data_size = SizeOf(e, c, k)
           /\ hs[k].encrypted = e.phdr[k].load /\ hs[k].compressed = Library!Deflates(e, c, k)
           /\ hs[k].iv \in 1 .. Len(e.phdr)
<1>0. PICK n \in Nat : n = Len(e.phdr) BY LoadElfIs
<1>1. Len(hs) \in n .. n + 1 BY <1>0 DEF Described
<1>2. k \in 1 .. Len(hs) BY <1>0, <1>1
<1>3. PICK v : v = hs[k].iv OBVIOUS
<1>4. hs[k] = Library!Header(e, c, k, v) /\ v \in 1 .. Len(e.phdr) BY <1>3 DEF Described
<1>5. Library!phdr_map(e, c)[k].size = SizeOf(e, c, k) BY MapSizes
<1> QED BY <1>2, <1>3, <1>4, <1>5 DEF Library!Header, PlaceOf

LEMMA OtherHeaderIs ==
    ASSUME NEW e \in LoadElfs, NEW c \in BOOLEAN, NEW hs, Described(e, c, hs),
           NEW k \in 1 .. Len(hs), k \notin 1 .. Len(e.phdr)
    PROVE  /\ k = Len(hs) /\ k = Len(e.phdr) + 1 /\ hs[k].type # 2
           /\ hs[k].data_offset = Library!Behind(e, c) /\ hs[k].data_size = e.shnum
           /\ hs[k].encrypted = FALSE
<1>0. PICK n \in Nat : n = Len(e.phdr) BY LoadElfIs
<1>1. PICK N \in n .. n + 1 : N = Len(hs) BY <1>0 DEF Described
<1>2. k = n + 1 /\ k = N /\ k \in n + 1 .. N BY <1>0, <1>1
<1>3. hs[k].type # 2 /\ hs[k] = Library!ExtraHeader(e, c, hs[k].type)
  BY <1>0, <1>1, <1>2 DEF Described
<1>4. PICK t : t = hs[k].type OBVIOUS
<1>5. hs[k] = Library!ExtraHeader(e, c, t) BY <1>3, <1>4
<1> QED BY <1>0, <1>1, <1>2, <1>3, <1>5 DEF Library!ExtraHeader

LEMMA SectionIs ==
    ASSUME NEW e \in LoadElfs, NEW c \in BOOLEAN, NEW hs, Described(e, c, hs),
           NEW k \in 1 .. Len(hs)
    PROVE  /\ hs[k].data_offset \in Nat /\ hs[k].data_size \in Nat
           /\ hs[k].encrypted \in BOOLEAN
           /\ LoadHeaderSize <= hs[k].data_offset
           /\ hs[k].data_offset + hs[k].data_size <= Library!FileLen(e, c)
<1>1. CASE k \in 1 .. Len(e.phdr)
  <2>1. hs[k].data_offset = PlaceOf(e, c, k) /\ hs[k].data_size = SizeOf(e, c, k)
        /\ hs[k].encrypted = e.phdr[k].load
    BY <1>1, SegmentHeaderIs
  <2>2. PlaceOf(e, c, k) \in Nat /\ LoadHeaderSize <= PlaceOf(e, c, k) BY <1>1, MapSizes
  <2>3. SizeOf(e, c, k) \in Nat /\ e.phdr[k].load \in BOOLEAN BY <1>1, LoadElfIs
  <2>4. PlaceOf(e, c, k) + SizeOf(e, c, k) <= Library!FileLen(e, c) BY <1>1, FileHolds
  <2> QED BY <2>1, <2>2, <2>3, <2>4
<1>2. CASE k \notin 1 .. Len(e.phdr)
  <2>1. hs[k].data_offset = Library!Behind(e, c) /\ hs[k].data_size = e.shnum
        /\ hs[k].encrypted = FALSE
    BY <1>2, OtherHeaderIs
  <2> QED BY <2>1, FileHolds, LoadElfIs
<1> QED BY <1>1, <1>2

\* The encrypted sections that have offset x, and their key streams there.
EncryptedAt(hs, x) ==
    {t \in 1 .. Len(hs) : /\ hs[t].encrypted
                          /\ x >= hs[t].data_offset
                          /\ x < hs[t].data_offset + hs[t].data_size}

StreamsAt(hs, x) == {<<hs[s].iv, x - hs[s].data_offset>> : s \in EncryptedAt(hs, x)}

LEMMA CellIs ==
    ASSUME NEW e, NEW c, NEW hs, NEW x \in 0 .. Library!FileLen(e, c) - 1
    PROVE  Library!Made(e, c, hs)[x] = [c |-> Library!Plain(e, c, x), k |-> StreamsAt(hs, x)]
BY DEF Library!Made, StreamsAt, EncryptedAt

\* c is makeself's -c.
Zips(c) == c = TRUE

\* Of a compressed file each section has its own offsets.
LEMMA ZippedAlone ==
    ASSUME NEW e \in LoadElfs, NEW c \in BOOLEAN, Zips(c), NEW k \in 1 .. Len(e.phdr),
           NEW l \in 1 .. Len(e.phdr), NEW x \in Nat,
           PlaceOf(e, c, k) <= x, x < PlaceOf(e, c, k) + SizeOf(e, c, k),
           PlaceOf(e, c, l) <= x, x < PlaceOf(e, c, l) + SizeOf(e, c, l)
    PROVE  k = l
<1>0. PICK n \in Nat : n = Len(e.phdr) BY LoadElfIs
<1>1. PICK p \in Nat, s \in Nat, q \in Nat, r \in Nat :
          /\ p = PlaceOf(e, c, k) /\ s = SizeOf(e, c, k)
          /\ q = PlaceOf(e, c, l) /\ r = SizeOf(e, c, l)
  BY MapSizes, LoadElfIs
<1>5. p <= x /\ x < p + s /\ q <= x /\ x < q + r BY <1>1
<1>2. CASE k < l
  <2>1. k \in 1 .. l - 1 BY <1>2, <1>0
  <2>2. PlaceOf(e, c, k) + SizeOf(e, c, k) <= PlaceOf(e, c, l) BY <2>1, MapSizes DEF Zips
  <2>3. p + s <= q BY <2>2, <1>1
  <2> QED BY <2>3, <1>5
<1>3. CASE l < k
  <2>1. l \in 1 .. k - 1 BY <1>3, <1>0
  <2>2. PlaceOf(e, c, l) + SizeOf(e, c, l) <= PlaceOf(e, c, k) BY <2>1, MapSizes DEF Zips
  <2>3. q + r <= p BY <2>2, <1>1
  <2> QED BY <2>3, <1>5
<1>4. k \in Int /\ l \in Int BY <1>0
<1> QED BY <1>2, <1>3, <1>4

LEMMA ZippedCell ==
    ASSUME NEW e \in LoadElfs, NEW c \in BOOLEAN, Zips(c), NEW hs, Described(e, c, hs),
           NEW k \in 1 .. Len(e.phdr), NEW y \in 0 .. SizeOf(e, c, k) - 1,
           NEW x, x = PlaceOf(e, c, k) + y
    PROVE  /\ x \in 0 .. Library!FileLen(e, c) - 1
           /\ hs[k].encrypted => EncryptedAt(hs, x) = {k}
           /\ ~hs[k].encrypted => EncryptedAt(hs, x) = {}
           /\ ~Library!Deflates(e, c, k) =>
                  Library!Plain(e, c, x) = <<"elf", e.phdr[k].off + y>>
<1>0. PICK n \in Nat : n = Len(e.phdr) BY LoadElfIs
<1>1. PICK p \in Nat, s \in Nat, h \in Nat, F \in Nat :
          /\ p = PlaceOf(e, c, k) /\ s = SizeOf(e, c, k) /\ h = LoadHeaderSize /\ h <= p
          /\ F = Library!FileLen(e, c) /\ p + s <= F
  <2>1. PlaceOf(e, c, k) \in Nat /\ SizeOf(e, c, k) \in Nat /\ LoadHeaderSize <= PlaceOf(e, c, k)
    BY MapSizes, LoadElfIs
  <2>2. PlaceOf(e, c, k) + SizeOf(e, c, k) <= Library!FileLen(e, c) /\ Library!FileLen(e, c) \in Nat
    BY FileHolds
  <2> QED BY <2>1, <2>2, LoadNumbers
<1>2. x \in Nat /\ p <= x /\ x < p + s /\ x < F /\ h <= x /\ x - p = y /\ y \in Nat
  <2>1. y \in 0 .. s - 1 /\ x = p + y BY <1>1
  <2> QED BY <2>1, <1>1
<1>3. ASSUME NEW t \in 1 .. Len(hs)
      PROVE  t \in EncryptedAt(hs, x) <=> (hs[k].encrypted /\ t = k)
  <2>1. CASE t \in 1 .. Len(e.phdr)
    <3>1. hs[t].data_offset = PlaceOf(e, c, t) /\ hs[t].data_size = SizeOf(e, c, t)
      BY <2>1, SegmentHeaderIs
    <3>2. CASE t = k BY <3>1, <3>2, <1>1, <1>2 DEF EncryptedAt
    <3>3. CASE t # k
      <4>1. ~(x >= PlaceOf(e, c, t) /\ x < PlaceOf(e, c, t) + SizeOf(e, c, t))
        <5>1. PICK q \in Nat : q = PlaceOf(e, c, t) BY <2>1, MapSizes
        <5> SUFFICES ASSUME x >= q, x < q + SizeOf(e, c, t) PROVE FALSE BY <5>1
        <5>2. q <= x BY <5>1, <1>2
        <5> QED BY <5>1, <5>2, <3>3, <2>1, <1>1, <1>2, ZippedAlone
      <4> QED BY <3>1, <3>3, <4>1 DEF EncryptedAt
    <3> QED BY <3>2, <3>3
  <2>2. CASE t \notin 1 .. Len(e.phdr)
    <3>1. hs[t].encrypted = FALSE BY <2>2, OtherHeaderIs
    <3> QED BY <2>2, <3>1 DEF EncryptedAt
  <2> QED BY <2>1, <2>2
<1>4. EncryptedAt(hs, x) = (IF hs[k].encrypted THEN {k} ELSE {})
  <2>1. EncryptedAt(hs, x) \subseteq 1 .. Len(hs) BY DEF EncryptedAt
  <2>2. k \in 1 .. Len(hs) BY SegmentHeaderIs
  <2>3. \A t : t \in EncryptedAt(hs, x) <=> (hs[k].encrypted /\ t = k) BY <1>3, <2>1, <2>2
  <2> QED BY <2>3
<1>5. PICK m : m = Library!phdr_map(e, c) OBVIOUS
<1>6. /\ Len(m) = n
      /\ \A t \in 1 .. n : /\ m[t].offset = PlaceOf(e, c, t) /\ m[t].size = SizeOf(e, c, t)
                           /\ PlaceOf(e, c, t) \in Nat /\ SizeOf(e, c, t) \in Nat
  BY <1>0, <1>5, MapSizes, LoadElfIs DEF PlaceOf
<1> DEFINE In(t) == x \in m[t].offset .. m[t].offset + m[t].size - 1
<1>7. \A t \in 1 .. n : In(t) <=> t = k
  <2> SUFFICES ASSUME NEW t \in 1 .. n PROVE In(t) <=> t = k OBVIOUS
  <2>1. PICK q \in Nat, r \in Nat : q = PlaceOf(e, c, t) /\ r = SizeOf(e, c, t) BY <1>6
  <2>2. In(t) <=> (q <= x /\ x < q + r)
    <3>1. m[t].offset = q /\ m[t].size = r BY <2>1, <1>6
    <3>2. In(t) <=> x \in q .. q + r - 1 BY <3>1, Zenon
    <3>3. x \in q .. q + r - 1 <=> (q <= x /\ x < q + r) BY <1>2
    <3> HIDE DEF In
    <3> QED BY <3>2, <3>3
  <2>3. t = k => In(t) BY <2>1, <2>2, <1>1, <1>2
  <2>4. ASSUME q <= x, x < q + r PROVE t = k
    BY <2>1, <2>4, <1>0, <1>1, <1>2, ZippedAlone
  <2> QED BY <2>2, <2>3, <2>4
<1> DEFINE ch == CHOOSE t \in 1 .. Len(m) : In(t)
<1>8. k \in 1 .. n /\ In(k) BY <1>0, <1>7
<1>9. ch = k
  <2> HIDE DEF In
  <2> QED BY <1>6, <1>7, <1>8
<1>10. Library!Plain(e, c, x) =
          IF Library!Deflates(e, c, ch) THEN <<"zip", ch, x - m[ch].offset>>
          ELSE <<"elf", e.phdr[ch].off + x - m[ch].offset>>
  <2>1. ~(x < LoadHeaderSize) BY <1>1, <1>2
  <2>2. \E t \in 1 .. Len(m) : In(t) BY <1>6, <1>8
  <2> QED BY <2>1, <2>2, <1>5 DEF Library!Plain, Zips
<1>11. Library!Plain(e, c, x) =
          IF Library!Deflates(e, c, k) THEN <<"zip", k, y>> ELSE <<"elf", e.phdr[k].off + y>>
  <2> HIDE DEF ch
  <2>1. x - m[k].offset = y BY <1>1, <1>2, <1>6, <1>8
  <2>2. e.phdr[k].off + x - m[k].offset = e.phdr[k].off + y
    <3>1. PICK o \in Nat : o = e.phdr[k].off BY LoadElfIs
    <3>2. m[k].offset = p BY <1>1, <1>6, <1>8
    <3>3. o + x - p = o + y BY <1>2
    <3> QED BY <3>1, <3>2, <3>3
  <2> QED BY <1>9, <1>10, <2>1, <2>2
<1>12. x \in 0 .. Library!FileLen(e, c) - 1 BY <1>1, <1>2
<1> QED BY <1>4, <1>11, <1>12

\* Of an uncompressed one, each offset has the unit of the ELF file that it is.
LEMMA RawCell ==
    ASSUME NEW e \in LoadElfs, NEW c \in BOOLEAN, ~Zips(c), NEW hs, Described(e, c, hs),
           NEW x \in Nat, NEW y, y = x + LoadHeaderSize
    PROVE  /\ Library!Plain(e, c, y) = <<"elf", x>>
           /\ EncryptedAt(hs, y) = {t \in 1 .. Len(e.phdr) :
                 e.phdr[t].load /\ x \in e.phdr[t].off .. e.phdr[t].off + e.phdr[t].len - 1}
<1>0. PICK h \in Nat : h = LoadHeaderSize BY LoadNumbers
<1>1. y = x + h /\ y \in Nat BY <1>0
<1>2. ~c BY DEF Zips
<1>3. Library!Plain(e, c, y) = <<"elf", x>>
  <2>1. ~(y < LoadHeaderSize) /\ y - LoadHeaderSize = x BY <1>0, <1>1
  <2> QED BY <2>1, <1>2 DEF Library!Plain
<1>4. ASSUME NEW t \in 1 .. Len(hs)
      PROVE  t \in EncryptedAt(hs, y) <=>
                t \in 1 .. Len(e.phdr) /\ e.phdr[t].load
                /\ x \in e.phdr[t].off .. e.phdr[t].off + e.phdr[t].len - 1
  <2>1. CASE t \in 1 .. Len(e.phdr)
    <3>1. PICK o \in Nat, s \in Nat : o = e.phdr[t].off /\ s = e.phdr[t].len BY <2>1, LoadElfIs
    <3>2. hs[t].data_offset = o + h /\ hs[t].data_size = s /\ hs[t].encrypted = e.phdr[t].load
      <4>1. hs[t].data_offset = PlaceOf(e, c, t) /\ hs[t].data_size = SizeOf(e, c, t)
            /\ hs[t].encrypted = e.phdr[t].load
        BY <2>1, SegmentHeaderIs
      <4>2. PlaceOf(e, c, t) = e.phdr[t].off + LoadHeaderSize /\ SizeOf(e, c, t) = e.phdr[t].len
        BY <2>1, <1>2, MapSizes
      <4> QED BY <4>1, <4>2, <3>1, <1>0
    <3>3. t \in EncryptedAt(hs, y) <=> e.phdr[t].load /\ y >= o + h /\ y < (o + h) + s
      BY <3>2 DEF EncryptedAt
    <3>4. (y >= o + h /\ y < (o + h) + s) <=> x \in o .. o + s - 1 BY <1>1
    <3>5. x \in o .. o + s - 1 <=> x \in e.phdr[t].off .. e.phdr[t].off + e.phdr[t].len - 1
      BY <3>1
    <3> QED BY <2>1, <3>3, <3>4, <3>5
  <2>2. CASE t \notin 1 .. Len(e.phdr)
    <3>1. hs[t].encrypted = FALSE BY <2>2, OtherHeaderIs
    <3> QED BY <2>2, <3>1 DEF EncryptedAt
  <2> QED BY <2>1, <2>2
<1>5. EncryptedAt(hs, y) \subseteq 1 .. Len(hs) BY DEF EncryptedAt
<1>6. \A t \in 1 .. Len(e.phdr) : t \in 1 .. Len(hs) BY SegmentHeaderIs
<1> QED BY <1>3, <1>4, <1>5, <1>6

\* The copy of the headers, which no section is over.
LEMMA HeadCell ==
    ASSUME NEW e \in LoadElfs, NEW c \in BOOLEAN, NEW hs, Described(e, c, hs),
           NEW x \in Nat, x < LoadHdrLen, NEW y, y = LoadElfOffset + x
    PROVE  Library!Plain(e, c, y) = <<"elf", x>> /\ EncryptedAt(hs, y) = {}
<1>1. PICK h \in Nat, d \in Nat, o \in Nat :
          /\ h = LoadHeaderSize /\ d = LoadHdrLen /\ o = LoadElfOffset /\ o + d <= h
  BY LoadNumbers
<1>2. y = o + x /\ x < d /\ x \in Nat BY <1>1
<1>3. y < h /\ y \in o .. o + d - 1 /\ y - o = x BY <1>1, <1>2
<1>4. Library!Plain(e, c, y) = <<"elf", x>>
  <2>1. y < LoadHeaderSize /\ y \in LoadElfOffset .. LoadElfOffset + LoadHdrLen - 1
        /\ y - LoadElfOffset = x
    BY <1>1, <1>3
  <2> QED BY <2>1 DEF Library!Plain
<1>5. ASSUME NEW t \in EncryptedAt(hs, y) PROVE FALSE
  <2>1. t \in 1 .. Len(hs) /\ y >= hs[t].data_offset BY DEF EncryptedAt
  <2>2. hs[t].data_offset \in Nat /\ h <= hs[t].data_offset BY <2>1, <1>1, SectionIs
  <2> QED BY <2>1, <2>2, <1>3
<1> QED BY <1>4, <1>5

\* The section headers behind the last section of a compressed file.
LEMMA ShdrCell ==
    ASSUME NEW e \in LoadElfs, NEW c \in BOOLEAN, Zips(c), NEW hs, Described(e, c, hs),
           NEW u \in 0 .. e.shnum - 1, NEW y, y = Library!Behind(e, c) + u
    PROVE  Library!Plain(e, c, y) = <<"elf", e.shoff + u>> /\ EncryptedAt(hs, y) = {}
<1>0. PICK n \in Nat : n = Len(e.phdr) BY LoadElfIs
<1>1. PICK b \in Nat, h \in Nat, q \in Nat, o \in Nat :
          /\ b = Library!Behind(e, c) /\ h = LoadHeaderSize /\ q = e.shnum /\ o = e.shoff
          /\ h <= b
  BY FileHolds, LoadElfIs, LoadNumbers
<1>2. u \in 0 .. q - 1 /\ y = b + u BY <1>1
<1>3. y \in Nat /\ h <= y /\ b <= y /\ y - b = u BY <1>1, <1>2
<1>4. ASSUME NEW t \in 1 .. n
      PROVE  /\ PlaceOf(e, c, t) \in Nat /\ SizeOf(e, c, t) \in Nat
             /\ PlaceOf(e, c, t) + SizeOf(e, c, t) <= y
  <2>1. PICK p \in Nat, s \in Nat : p = PlaceOf(e, c, t) /\ s = SizeOf(e, c, t)
    BY <1>0, MapSizes, LoadElfIs
  <2>2. PlaceOf(e, c, t) + SizeOf(e, c, t) <= Library!Behind(e, c) BY <1>0, FileHolds DEF Zips
  <2>3. p + s <= b BY <2>1, <2>2, <1>1
  <2>4. p + s <= y BY <2>3, <1>3
  <2> QED BY <2>1, <2>4
<1>5. ASSUME NEW t \in EncryptedAt(hs, y) PROVE FALSE
  <2>1. t \in 1 .. Len(hs) /\ hs[t].encrypted /\ y < hs[t].data_offset + hs[t].data_size
    BY DEF EncryptedAt
  <2>2. t \in 1 .. n BY <2>1, <1>0, OtherHeaderIs
  <2>3. hs[t].data_offset = PlaceOf(e, c, t) /\ hs[t].data_size = SizeOf(e, c, t)
    BY <2>2, <1>0, SegmentHeaderIs
  <2>4. PICK p \in Nat, s \in Nat : p = PlaceOf(e, c, t) /\ s = SizeOf(e, c, t) /\ p + s <= y
    BY <2>2, <1>4
  <2>5. y < p + s BY <2>1, <2>3, <2>4
  <2> QED BY <2>4, <2>5, <1>3
<1>6. PICK m : m = Library!phdr_map(e, c) OBVIOUS
<1>7. Len(m) = n /\ \A t \in 1 .. n : m[t].offset = PlaceOf(e, c, t) /\ m[t].size = SizeOf(e, c, t)
  BY <1>0, <1>6, MapSizes DEF PlaceOf
<1>8. ~ \E t \in 1 .. Len(m) : y \in m[t].offset .. m[t].offset + m[t].size - 1
  <2> SUFFICES ASSUME NEW t \in 1 .. n, y \in m[t].offset .. m[t].offset + m[t].size - 1
               PROVE  FALSE
    BY <1>7
  <2>1. PICK p \in Nat, s \in Nat : p = PlaceOf(e, c, t) /\ s = SizeOf(e, c, t) /\ p + s <= y
    BY <1>4
  <2>2. y \in p .. p + s - 1 BY <2>1, <1>7
  <2> QED BY <2>1, <2>2, <1>3
<1>9. Library!Plain(e, c, y) = <<"elf", e.shoff + u>>
  <2>1. ~(y < LoadHeaderSize) BY <1>1, <1>3
  <2>2. y \in Library!Behind(e, c) .. Library!Behind(e, c) + e.shnum - 1 BY <1>1, <1>2, <1>3
  <2>3. e.shoff + y - Library!Behind(e, c) = e.shoff + u
    <3>1. o + y - b = o + u BY <1>1, <1>2
    <3> QED BY <3>1, <1>1
  <2> QED BY <2>1, <2>2, <2>3, <1>6, <1>8 DEF Library!Plain, Zips
<1> QED BY <1>5, <1>9

-----------------------------------------------------------------------------
(* The sections loaded, and the output. *)

UnitsOf(e, k)  == e.phdr[k].off .. e.phdr[k].off + e.phdr[k].len - 1
CoversOf(e, x) == {k \in 1 .. Len(e.phdr) : x \in UnitsOf(e, k)}
HasShdrs(e, hs) == Len(hs) > Len(e.phdr) /\ hs[Len(hs)].type = 1
ShdrsOf(e, hs) == IF HasShdrs(e, hs) THEN e.shoff .. e.shoff + e.shnum - 1 ELSE {}

\* A segment's section is over its units.
LEMMA OverSegment ==
    ASSUME NEW e \in LoadElfs, NEW c \in BOOLEAN, NEW hs, Described(e, c, hs), NEW f,
           NEW k \in 1 .. Len(e.phdr), NEW s, LoadedFrom(e, hs, f, k, s), NEW x \in Nat
    PROVE  Over(s, x) <=> x \in UnitsOf(e, k)
<1>1. PICK o \in Nat, len \in Nat : o = e.phdr[k].off /\ len = e.phdr[k].len BY LoadElfIs
<1>2. hs[k].type = 2 /\ hs[k].compressed = Library!Deflates(e, c, k)
      /\ hs[k].data_size = SizeOf(e, c, k)
  BY SegmentHeaderIs
<1>3. s.offset = o BY <1>1, <1>2 DEF LoadedFrom
<1>4. DOMAIN s.data = 1 .. len
  <2>1. CASE hs[k].compressed
    <3>1. s.data = Inflation(e.phdr[k]) BY <1>2, <2>1 DEF LoadedFrom
    <3> QED BY <3>1, <1>1 DEF Inflation
  <2>2. CASE ~hs[k].compressed
    <3>1. hs[k].data_size = len BY <1>1, <1>2, <2>2 DEF SizeOf
    <3>2. s.data = CellsOf(f, hs[k]) \/ \E p \in Nat : s.data = Taken(hs[k], CellsOf(f, hs[k]), p)
      BY <1>2, <2>2 DEF LoadedFrom
    <3> QED BY <3>1, <3>2 DEF CellsOf, Taken
  <2> QED BY <2>1, <2>2
<1>5. Over(s, x) <=> (o # -1 /\ x - o + 1 \in 1 .. len) BY <1>3, <1>4 DEF Over
<1>6. x \in UnitsOf(e, k) <=> x \in o .. o + len - 1 BY <1>1 DEF UnitsOf
<1>7. (o # -1 /\ x - o + 1 \in 1 .. len) <=> x \in o .. o + len - 1 OBVIOUS
<1> QED BY <1>5, <1>6, <1>7

\* The section behind them is over the section headers, if it is of their type.
LEMMA OverOther ==
    ASSUME NEW e \in LoadElfs, NEW c \in BOOLEAN, NEW hs, Described(e, c, hs), NEW f,
           NEW k \in 1 .. Len(hs), k \notin 1 .. Len(e.phdr),
           NEW s, LoadedFrom(e, hs, f, k, s), NEW x \in Nat
    PROVE  Over(s, x) <=> x \in ShdrsOf(e, hs)
<1>0. PICK n \in Nat : n = Len(e.phdr) BY LoadElfIs
<1>1. PICK o \in Nat, q \in Nat : o = e.shoff /\ q = e.shnum BY LoadElfIs
<1>2. k = Len(hs) /\ k = n + 1 /\ hs[k].type # 2 /\ hs[k].data_size = q
  BY <1>0, <1>1, OtherHeaderIs
<1>3. Len(hs) > Len(e.phdr) BY <1>0, <1>2
<1>4. CASE hs[k].type = 1
  <2>1. s.offset = o /\ s.data = CellsOf(f, hs[k]) BY <1>1, <1>4 DEF LoadedFrom
  <2>2. DOMAIN s.data = 1 .. q BY <2>1, <1>2 DEF CellsOf
  <2>3. Over(s, x) <=> (o # -1 /\ x - o + 1 \in 1 .. q) BY <2>1, <2>2 DEF Over
  <2>4. HasShdrs(e, hs) BY <1>2, <1>3, <1>4 DEF HasShdrs
  <2>5. x \in ShdrsOf(e, hs) <=> x \in o .. o + q - 1 BY <2>4, <1>1 DEF ShdrsOf
  <2>6. (o # -1 /\ x - o + 1 \in 1 .. q) <=> x \in o .. o + q - 1 OBVIOUS
  <2> QED BY <2>3, <2>5, <2>6
<1>5. CASE hs[k].type # 1
  <2>1. s.offset = -1 BY <1>2, <1>5 DEF LoadedFrom
  <2>2. ~HasShdrs(e, hs) BY <1>2, <1>5 DEF HasShdrs
  <2> QED BY <2>1, <2>2 DEF Over, ShdrsOf
<1> QED BY <1>4, <1>5

\* The whole list, and the output it leaves.
Loaded(e, c, hs, ss) ==
    /\ Described(e, c, hs) /\ Len(ss) = Len(hs) + 1
    /\ AreLoaded(e, c, hs, Library!Made(e, c, hs), ss)

LEMMA LoadedParts ==
    ASSUME NEW e \in LoadElfs, NEW c \in BOOLEAN, NEW hs, NEW ss, Loaded(e, c, hs, ss)
    PROVE  /\ Len(hs) \in Nat /\ Len(e.phdr) \in Nat /\ Len(hs) \in Len(e.phdr) .. Len(e.phdr) + 1
           /\ HeadLoaded(Library!FileLen(e, c), Library!Made(e, c, hs), ss[1])
           /\ \A k \in 1 .. Len(hs) : LoadedFrom(e, hs, Library!Made(e, c, hs), k, ss[k + 1])
<1>0. PICK n \in Nat : n = Len(e.phdr) BY LoadElfIs
<1>1. PICK N \in n .. n + 1 : N = Len(hs) BY <1>0 DEF Loaded, Described
<1>2. Len(ss) = N + 1 BY <1>1 DEF Loaded
<1>3. ss # <<>> BY <1>2
<1>4. PICK f : f = Library!Made(e, c, hs) OBVIOUS
<1>5. AreLoaded(e, c, hs, f, ss) BY <1>4 DEF Loaded
<1>6. HeadLoaded(Library!FileLen(e, c), f, ss[1]) BY <1>3, <1>5 DEF AreLoaded
<1>7. \A k \in 1 .. N : LoadedFrom(e, hs, f, k, ss[k + 1])
  <2>1. Len(ss) - 1 = N BY <1>2
  <2> QED BY <2>1, <1>5 DEF AreLoaded
<1> QED BY <1>0, <1>1, <1>4, <1>6, <1>7

LEMMA LastOver ==
    ASSUME NEW ss, NEW N \in Nat, NEW x \in Nat, NEW m0 \in 1 .. N, Over(ss[m0], x)
    PROVE  \E m \in 1 .. N : /\ m0 <= m /\ Over(ss[m], x)
                             /\ \A l \in m + 1 .. N : ~Over(ss[l], x)
<1> DEFINE P(m) == Over(ss[m], x)
           S == {t \in Nat : N - t \in 1 .. N /\ P(N - t)}
<1> HIDE DEF P
<1>1. N - m0 \in S
  <2>1. N - m0 \in Nat /\ N - (N - m0) = m0 OBVIOUS
  <2>2. P(m0) BY DEF P
  <2> QED BY <2>1, <2>2
<1>2. PICK t \in S : \A z \in S : t <= z
  <2>1. S \in SUBSET Nat /\ S # {} BY <1>1
  <2> HIDE DEF S
  <2> QED BY <2>1, LeastNat
<1>3. PICK m \in 1 .. N : m = N - t /\ P(m) BY <1>2
<1>4. t \in Nat /\ t <= N - m0 BY <1>1, <1>2
<1>5. ASSUME NEW l \in m + 1 .. N, P(l) PROVE FALSE
  <2>1. N - l \in Nat /\ N - (N - l) = l /\ l \in 1 .. N OBVIOUS
  <2>2. N - l \in S BY <2>1, <1>5
  <2>3. t <= N - l BY <2>2, <1>2
  <2> QED BY <2>3, <1>3, <1>4
<1>6. m0 <= m BY <1>3, <1>4
<1> QED BY <1>3, <1>5, <1>6 DEF P

\* A key stream goes on, or off where it is.
LEMMA ToggleIs ==
    ASSUME NEW d, NEW K, NEW st
    PROVE  /\ Library!Toggle([c |-> d, k |-> K], st).c = d
           /\ Library!Toggle([c |-> d, k |-> K], st).k
                  = (IF st \in K THEN K \ {st} ELSE K \union {st})
           /\ Library!Toggle([c |-> d, k |-> {st}], st) = [c |-> d, k |-> {}]
<1>1. {st} \ {st} = {} OBVIOUS
<1> QED BY <1>1 DEF Library!Toggle

\* What is on a unit of a segment's section, and behind the section headers'.
ValueAt(s, x) == s.data[x - s.offset + 1]

LEMMA ZippedValue ==
    ASSUME NEW e \in LoadElfs, NEW c \in BOOLEAN, Zips(c), NEW hs, Described(e, c, hs),
           NEW k \in 1 .. Len(e.phdr), hs[k].encrypted => Untaken(hs, k - 1, hs[k].iv),
           NEW s, LoadedFrom(e, hs, Library!Made(e, c, hs), k, s),
           NEW x \in UnitsOf(e, k)
    PROVE  ValueAt(s, x) = Library!Clear(<<"elf", x>>)
<1>1. PICK o \in Nat, len \in Nat : o = e.phdr[k].off /\ len = e.phdr[k].len BY LoadElfIs
<1>2. hs[k].type = 2 /\ hs[k].compressed = Library!Deflates(e, c, k)
      /\ hs[k].data_size = SizeOf(e, c, k) /\ hs[k].data_offset = PlaceOf(e, c, k)
  BY SegmentHeaderIs
<1>3. s.offset = o BY <1>1, <1>2 DEF LoadedFrom
<1>4. PICK y \in 0 .. len - 1 : x = o + y
  <2>1. x \in o .. o + len - 1 BY <1>1 DEF UnitsOf
  <2>2. x - o \in 0 .. len - 1 /\ x = o + (x - o) BY <2>1
  <2> QED BY <2>2
<1>5. ValueAt(s, x) = s.data[y + 1]
  <2>1. x - o + 1 = y + 1 BY <1>4
  <2> QED BY <2>1, <1>3 DEF ValueAt
<1>6. CASE hs[k].compressed
  <2>1. s.data = Inflation(e.phdr[k]) BY <1>2, <1>6 DEF LoadedFrom
  <2>2. y + 1 \in 1 .. len /\ o + (y + 1) - 1 = x BY <1>4
  <2>3. s.data[y + 1] = Library!Clear(<<"elf", o + (y + 1) - 1>>)
    BY <2>1, <2>2, <1>1 DEF Inflation
  <2> QED BY <2>2, <2>3, <1>5
<1>7. CASE ~hs[k].compressed
  <2>1. SizeOf(e, c, k) = len BY <1>1, <1>2, <1>7 DEF SizeOf
  <2>2. y \in 0 .. SizeOf(e, c, k) - 1 BY <2>1
  <2>3. PICK p \in Nat : p = PlaceOf(e, c, k) BY MapSizes
  <2>4. PICK w \in Nat : w = p + y BY <1>4
  <2>5. /\ w \in 0 .. Library!FileLen(e, c) - 1
        /\ hs[k].encrypted => EncryptedAt(hs, w) = {k}
        /\ ~hs[k].encrypted => EncryptedAt(hs, w) = {}
        /\ Library!Plain(e, c, w) = <<"elf", x>>
    <3>1. e.phdr[k].off + y = x BY <1>1, <1>4
    <3>2. w = PlaceOf(e, c, k) + y BY <2>3, <2>4
    <3>3. ~Library!Deflates(e, c, k) BY <1>2, <1>7
    <3>4. /\ w \in 0 .. Library!FileLen(e, c) - 1
          /\ hs[k].encrypted => EncryptedAt(hs, w) = {k}
          /\ ~hs[k].encrypted => EncryptedAt(hs, w) = {}
          /\ Library!Plain(e, c, w) = <<"elf", e.phdr[k].off + y>>
      BY <3>3, <2>2, <3>2, ZippedCell
    <3> QED BY <3>1, <3>4
  <2>6. PICK f : f = Library!Made(e, c, hs) OBVIOUS
  <2>7. f[w] = [c |-> <<"elf", x>>, k |-> StreamsAt(hs, w)] BY <2>5, <2>6, CellIs
  <2>8. CellsOf(f, hs[k])[y + 1] = f[w]
    <3>1. y + 1 \in 1 .. len /\ p + (y + 1) - 1 = w BY <1>4, <2>4
    <3>2. hs[k].data_size = len /\ hs[k].data_offset = p BY <1>2, <2>1, <2>3
    <3> QED BY <3>1, <3>2 DEF CellsOf
  <2>9. CASE ~hs[k].encrypted
    <3>1. s.data = CellsOf(f, hs[k]) BY <1>2, <1>7, <2>6, <2>9 DEF LoadedFrom
    <3>2. StreamsAt(hs, w) = {} BY <2>5, <2>9 DEF StreamsAt
    <3> QED BY <3>1, <3>2, <2>7, <2>8, <1>5 DEF Library!Clear
  <2>10. CASE hs[k].encrypted
    <3>1. s.data = Taken(hs[k], CellsOf(f, hs[k]), 0) BY <1>2, <1>7, <2>6, <2>10 DEF LoadedFrom
    <3>2. PICK v : v = hs[k].iv OBVIOUS
    <3>3. StreamsAt(hs, w) = {<<v, y>>}
      <4>1. EncryptedAt(hs, w) = {k} BY <2>5, <2>10
      <4>2. w - hs[k].data_offset = y BY <1>2, <2>3, <2>4
      <4>3. StreamsAt(hs, w) = {<<hs[k].iv, w - hs[k].data_offset>>} BY <4>1 DEF StreamsAt
      <4> QED BY <4>2, <4>3, <3>2
    <3>4. PICK st : st = <<v, y>> OBVIOUS
    <3>5. PICK cells : cells = CellsOf(f, hs[k]) OBVIOUS
    <3>6. s.data[y + 1] = Library!Toggle(cells[y + 1], st)
      <4>1. y + 1 \in 1 .. len /\ 0 + (y + 1) - 1 = y BY <1>4
      <4>2. hs[k].data_size = len BY <1>2, <2>1
      <4>3. s.data[y + 1] = Library!Toggle(cells[y + 1], <<v, 0 + (y + 1) - 1>>)
        BY <4>1, <4>2, <3>1, <3>2, <3>5 DEF Taken
      <4> QED BY <4>1, <4>3, <3>4
    <3>7. cells[y + 1] = [c |-> <<"elf", x>>, k |-> {st}] BY <3>3, <3>4, <3>5, <2>7, <2>8
    <3>8. Library!Toggle(cells[y + 1], st) = Library!Clear(<<"elf", x>>)
      <4>1. Library!Toggle(cells[y + 1], st) = Library!Toggle([c |-> <<"elf", x>>, k |-> {st}], st)
        BY <3>7, Zenon
      <4>2. Library!Toggle([c |-> <<"elf", x>>, k |-> {st}], st) = [c |-> <<"elf", x>>, k |-> {}]
        BY ToggleIs, Zenon
      <4> QED BY <4>1, <4>2 DEF Library!Clear
    <3> QED BY <3>6, <3>8, <1>5
  <2> QED BY <2>9, <2>10
<1> QED BY <1>6, <1>7

LayersOf(e, x) == {t \in CoversOf(e, x) : e.phdr[t].load}
OwnIvs(e, hs) == \A t \in 1 .. Len(e.phdr) : hs[t].iv = t

LEMMA LayersAt ==
    ASSUME NEW e \in LoadElfs, NEW c \in BOOLEAN, ~Zips(c), NEW hs, Described(e, c, hs),
           NEW x \in Nat, NEW y, y = x + LoadHeaderSize
    PROVE  /\ Library!Plain(e, c, y) = <<"elf", x>>
           /\ EncryptedAt(hs, y) = LayersOf(e, x)
BY RawCell DEF LayersOf, CoversOf, UnitsOf

LEMMA RawStreams ==
    ASSUME NEW e \in LoadElfs, NEW c \in BOOLEAN, ~Zips(c), NEW hs, Described(e, c, hs),
           OwnIvs(e, hs), NEW x \in Nat, NEW y, y = x + LoadHeaderSize
    PROVE  StreamsAt(hs, y) = {<<t, x - e.phdr[t].off>> : t \in LayersOf(e, x)}
<1>1. EncryptedAt(hs, y) = LayersOf(e, x) BY LayersAt
<1>2. ASSUME NEW t \in LayersOf(e, x)
      PROVE  <<hs[t].iv, y - hs[t].data_offset>> = <<t, x - e.phdr[t].off>>
  <2>1. t \in 1 .. Len(e.phdr) BY DEF LayersOf, CoversOf
  <2>2. hs[t].iv = t BY <2>1 DEF OwnIvs
  <2>3. PICK h \in Nat, o \in Nat : h = LoadHeaderSize /\ o = e.phdr[t].off
    BY <2>1, LoadElfIs, LoadNumbers
  <2>4. hs[t].data_offset = o + h
    <3>1. hs[t].data_offset = PlaceOf(e, c, t) BY <2>1, SegmentHeaderIs
    <3>2. PlaceOf(e, c, t) = e.phdr[t].off + LoadHeaderSize BY <2>1, MapSizes DEF Zips
    <3> QED BY <3>1, <3>2, <2>3
  <2>5. y = x + h BY <2>3
  <2>6. y - (o + h) = x - o BY <2>5
  <2> QED BY <2>2, <2>3, <2>4, <2>6
<1> HIDE DEF LayersOf
<1> QED BY <1>1, <1>2, ZenonT(30) DEF StreamsAt

\* A cell is clear when there is no key stream on it.
LEMMA ClearIs ==
    ASSUME NEW d, NEW K
    PROVE  [c |-> d, k |-> K] = Library!Clear(d) <=> K = {}
BY DEF Library!Clear

LEMMA RawValue ==
    ASSUME NEW e \in LoadElfs, NEW c \in BOOLEAN, ~Zips(c), NEW hs, Described(e, c, hs),
           OwnIvs(e, hs), NEW k \in 1 .. Len(e.phdr),
           NEW s, LoadedFrom(e, hs, Library!Made(e, c, hs), k, s), NEW x \in UnitsOf(e, k)
    PROVE  ValueAt(s, x) = Library!Clear(<<"elf", x>>) <=> \A t \in LayersOf(e, x) : t = k
<1>1. PICK o \in Nat, len \in Nat, h \in Nat :
          o = e.phdr[k].off /\ len = e.phdr[k].len /\ h = LoadHeaderSize
  BY LoadElfIs, LoadNumbers
<1>2. hs[k].type = 2 /\ hs[k].compressed = FALSE
      /\ hs[k].data_size = len /\ hs[k].data_offset = o + h /\ hs[k].encrypted = e.phdr[k].load
  <2>1. hs[k].type = 2 /\ hs[k].compressed = Library!Deflates(e, c, k)
        /\ hs[k].data_size = SizeOf(e, c, k) /\ hs[k].data_offset = PlaceOf(e, c, k)
        /\ hs[k].encrypted = e.phdr[k].load
    BY SegmentHeaderIs
  <2>2. SizeOf(e, c, k) = e.phdr[k].len /\ PlaceOf(e, c, k) = e.phdr[k].off + LoadHeaderSize
    BY MapSizes DEF Zips
  <2>3. Library!Deflates(e, c, k) = FALSE BY DEF Library!Deflates, Zips
  <2> QED BY <2>1, <2>2, <2>3, <1>1
<1>3. s.offset = o BY <1>1, <1>2 DEF LoadedFrom
<1>4. PICK y \in 0 .. len - 1 : x = o + y
  <2>1. x \in o .. o + len - 1 BY <1>1 DEF UnitsOf
  <2>2. x - o \in 0 .. len - 1 /\ x = o + (x - o) BY <2>1
  <2> QED BY <2>2
<1>5. ValueAt(s, x) = s.data[y + 1]
  <2>1. x - o + 1 = y + 1 BY <1>4
  <2> QED BY <2>1, <1>3 DEF ValueAt
<1>6. PICK w \in Nat : w = x + h BY <1>4
<1>7. w \in 0 .. Library!FileLen(e, c) - 1
  <2>1. PlaceOf(e, c, k) + SizeOf(e, c, k) <= Library!FileLen(e, c) BY FileHolds
  <2>2. PlaceOf(e, c, k) = o + h /\ SizeOf(e, c, k) = len BY <1>1, MapSizes DEF Zips
  <2>3. PICK F \in Nat : F = Library!FileLen(e, c) BY FileHolds
  <2>4. (o + h) + len <= F BY <2>1, <2>2, <2>3
  <2>5. w \in 0 .. F - 1 BY <2>4, <1>4, <1>6
  <2> QED BY <2>3, <2>5
<1>8. PICK K : K = StreamsAt(hs, w) OBVIOUS
<1>9. K = {<<t, x - e.phdr[t].off>> : t \in LayersOf(e, x)}
  <2>1. w = x + LoadHeaderSize /\ x \in Nat BY <1>1, <1>4, <1>6
  <2> QED BY <2>1, <1>8, RawStreams
<1>10. PICK f : f = Library!Made(e, c, hs) OBVIOUS
<1>11. f[w] = [c |-> <<"elf", x>>, k |-> K]
  <2>1. Library!Plain(e, c, w) = <<"elf", x>>
    <3>1. w = x + LoadHeaderSize /\ x \in Nat BY <1>1, <1>4, <1>6
    <3> QED BY <3>1, LayersAt
  <2> QED BY <2>1, <1>7, <1>8, <1>10, CellIs
<1>12. CellsOf(f, hs[k])[y + 1] = f[w]
  <2>1. y + 1 \in 1 .. len /\ (o + h) + (y + 1) - 1 = w BY <1>4, <1>6
  <2> QED BY <2>1, <1>2 DEF CellsOf
<1>13. k \in LayersOf(e, x) <=> hs[k].encrypted
  <2>1. hs[k].encrypted = e.phdr[k].load /\ k \in CoversOf(e, x) BY <1>2 DEF CoversOf
  <2> QED BY <2>1 DEF LayersOf
<1> DEFINE Alone == \A t \in LayersOf(e, x) : t = k
<1>14. CASE ~hs[k].encrypted
  <2>1. s.data = CellsOf(f, hs[k]) BY <1>2, <1>10, <1>14 DEF LoadedFrom
  <2>2. ValueAt(s, x) = [c |-> <<"elf", x>>, k |-> K] BY <2>1, <1>5, <1>11, <1>12
  <2>3. ValueAt(s, x) = Library!Clear(<<"elf", x>>) <=> K = {}
    <3>1. [c |-> <<"elf", x>>, k |-> K] = Library!Clear(<<"elf", x>>) <=> K = {} BY ClearIs, Zenon
    <3> QED BY <2>2, <3>1, Zenon
  <2>4. K = {} <=> LayersOf(e, x) = {} BY <1>9
  <2>5. Alone <=> LayersOf(e, x) = {} BY <1>13, <1>14
  <2> QED BY <2>3, <2>4, <2>5
<1>15. CASE hs[k].encrypted
  <2>1. PICK st : st = <<k, y>> OBVIOUS
  <2>2. st \in K
    <3>1. k \in LayersOf(e, x) /\ x - o = y BY <1>4, <1>13, <1>15
    <3> QED BY <3>1, <2>1, <1>1, <1>9
  <2>3. K \ {st} = {} <=> Alone
    <3>1. ASSUME Alone PROVE K \ {st} = {}
      <4>1. \A z \in K : z = <<k, x - e.phdr[k].off>> BY <3>1, <1>9
      <4> QED BY <4>1, <2>2
    <3>2. ASSUME NEW t \in LayersOf(e, x), t # k PROVE K \ {st} # {}
      <4>1. <<t, x - e.phdr[t].off>> \in K BY <1>9
      <4>2. <<t, x - e.phdr[t].off>> # st BY <2>1, <3>2
      <4> QED BY <4>1, <4>2
    <3> QED BY <3>1, <3>2
  <2>4. s.data = Taken(hs[k], CellsOf(f, hs[k]), 0)
    <3>1. hs[k].iv = k BY DEF OwnIvs
    <3>2. Untaken(hs, k - 1, hs[k].iv)
      <4>1. \A l \in 1 .. k - 1 : l \in 1 .. Len(e.phdr) /\ l # k
        <5>1. PICK n \in Nat : n = Len(e.phdr) BY LoadElfIs
        <5> QED BY <5>1
      <4>2. \A l \in 1 .. k - 1 : hs[l].iv # k BY <4>1 DEF OwnIvs
      <4> QED BY <3>1, <4>2 DEF Untaken
    <3> QED BY <3>2, <1>2, <1>10, <1>15 DEF LoadedFrom
  <2>5. PICK cells : cells = CellsOf(f, hs[k]) OBVIOUS
  <2>6. s.data[y + 1] = Library!Toggle(cells[y + 1], st)
    <3>1. y + 1 \in 1 .. len /\ 0 + (y + 1) - 1 = y BY <1>4
    <3>2. hs[k].data_size = len /\ hs[k].iv = k BY <1>2 DEF OwnIvs
    <3>3. s.data[y + 1] = Library!Toggle(cells[y + 1], <<k, 0 + (y + 1) - 1>>)
      BY <3>1, <3>2, <2>4, <2>5 DEF Taken
    <3> QED BY <3>1, <3>3, <2>1
  <2>7. cells[y + 1] = [c |-> <<"elf", x>>, k |-> K] BY <1>11, <1>12, <2>5
  <2>8. ValueAt(s, x) = Library!Toggle([c |-> <<"elf", x>>, k |-> K], st)
    BY <1>5, <2>6, <2>7, Zenon
  <2>9. ValueAt(s, x) = [c |-> <<"elf", x>>, k |-> K \ {st}]
    BY <2>2, <2>8 DEF Library!Toggle
  <2>10. ValueAt(s, x) = Library!Clear(<<"elf", x>>) <=> K \ {st} = {}
    <3>1. [c |-> <<"elf", x>>, k |-> K \ {st}] = Library!Clear(<<"elf", x>>) <=> K \ {st} = {}
      BY ClearIs, Zenon
    <3> QED BY <2>9, <3>1, Zenon
  <2> QED BY <2>3, <2>10
<1> QED BY <1>14, <1>15

\* Section 0 is over the headers, and has them.
LEMMA HeadValue ==
    ASSUME NEW e \in LoadElfs, NEW c \in BOOLEAN, NEW hs, Described(e, c, hs),
           NEW s, HeadLoaded(Library!FileLen(e, c), Library!Made(e, c, hs), s),
           NEW x \in Nat, x < LoadHdrLen
    PROVE  Over(s, x) /\ ValueAt(s, x) = Library!Clear(<<"elf", x>>)
<1>1. PICK h \in Nat, d \in Nat, o \in Nat :
          /\ h = LoadHeaderSize /\ d = LoadHdrLen /\ o = LoadElfOffset /\ o + d <= h
  BY LoadNumbers
<1>2. PICK F \in Nat : F = Library!FileLen(e, c) /\ h <= F
  <2>1. PICK F \in Nat, b \in Nat, q \in Nat :
            /\ F = Library!FileLen(e, c) /\ b = Library!Behind(e, c) /\ q = e.shnum
            /\ h <= b /\ b + q <= F
    BY FileHolds, LoadElfIs, <1>1
  <2>2. h <= F BY <2>1
  <2> QED BY <2>1, <2>2
<1>3. PICK f : f = Library!Made(e, c, hs) OBVIOUS
<1>4. s.offset = 0 /\ \E n \in d .. F : s.data = HeadFrom(f, n)
  BY <1>1, <1>2, <1>3 DEF HeadLoaded
<1>5. PICK n \in d .. F : s.data = HeadFrom(f, n) BY <1>4
<1>6. x + 1 \in 1 .. n /\ x - 0 + 1 = x + 1 BY <1>1
<1>7. Over(s, x) BY <1>4, <1>5, <1>6 DEF Over, HeadFrom
<1>8. PICK w \in Nat : w = o + x BY <1>1
<1>9. ValueAt(s, x) = f[w]
  <2>1. o + (x + 1) - 1 = w BY <1>1, <1>8
  <2>2. s.data[x + 1] = f[o + (x + 1) - 1] BY <1>1, <1>5, <1>6 DEF HeadFrom
  <2> QED BY <2>1, <2>2, <1>4, <1>6 DEF ValueAt
<1>10. w \in 0 .. Library!FileLen(e, c) - 1 BY <1>1, <1>2, <1>8
<1>11. Library!Plain(e, c, w) = <<"elf", x>> /\ EncryptedAt(hs, w) = {}
  BY <1>1, <1>8, HeadCell
<1>12. StreamsAt(hs, w) = {} BY <1>11 DEF StreamsAt
<1>13. f[w] = [c |-> <<"elf", x>>, k |-> {}] BY <1>3, <1>10, <1>11, <1>12, CellIs
<1> QED BY <1>7, <1>9, <1>13 DEF Library!Clear

LEMMA BehindFits ==
    ASSUME NEW e \in LoadElfs, NEW c \in BOOLEAN
    PROVE  \E o \in Nat, q \in Nat, b \in Nat, F \in Nat :
              /\ o = e.shoff /\ q = e.shnum /\ b = Library!Behind(e, c)
              /\ F = Library!FileLen(e, c) /\ b + q <= F
BY LoadElfIs, FileHolds

\* The section behind the segments' has the section headers.
LEMMA ShdrValue ==
    ASSUME NEW e \in LoadElfs, NEW c \in BOOLEAN, NEW hs, Described(e, c, hs),
           NEW k \in 1 .. Len(hs), k \notin 1 .. Len(e.phdr),
           NEW s, LoadedFrom(e, hs, Library!Made(e, c, hs), k, s),
           NEW x \in ShdrsOf(e, hs), CoversOf(e, x) = {}
    PROVE  ValueAt(s, x) = Library!Clear(<<"elf", x>>)
<1>20. PICK o \in Nat, q \in Nat, b \in Nat, F \in Nat :
           /\ o = e.shoff /\ q = e.shnum /\ b = Library!Behind(e, c)
           /\ F = Library!FileLen(e, c) /\ b + q <= F
  BY BehindFits
<1>21. PICK h \in Nat : h = LoadHeaderSize BY LoadNumbers
<1>1. k = Len(hs) /\ hs[k].data_size = q /\ hs[k].data_offset = b
  <2>1. /\ k = Len(hs) /\ hs[k].data_size = e.shnum
        /\ hs[k].data_offset = Library!Behind(e, c)
    BY OtherHeaderIs
  <2> QED BY <2>1, <1>20
<1>2. HasShdrs(e, hs) /\ x \in o .. o + q - 1 BY <1>20 DEF ShdrsOf
<1>3. PICK f : f = Library!Made(e, c, hs) OBVIOUS
<1>4. s.offset = o /\ s.data = CellsOf(f, hs[k])
  <2>1. hs[k].type = 1 BY <1>1, <1>2 DEF HasShdrs
  <2> QED BY <2>1, <1>20, <1>21, <1>3 DEF LoadedFrom
<1>5. PICK u \in 0 .. q - 1 : x = o + u
  <2>1. x - o \in 0 .. q - 1 /\ x = o + (x - o) BY <1>2
  <2> QED BY <2>1
<1>6. PICK w \in Nat : w = b + u BY <1>5
<1>7. w \in 0 .. F - 1 BY <1>20, <1>21, <1>5, <1>6
<1>8. ValueAt(s, x) = f[w]
  <2>1. x - o + 1 = u + 1 /\ u + 1 \in 1 .. q /\ b + (u + 1) - 1 = w BY <1>5, <1>6
  <2>2. s.data[u + 1] = f[b + (u + 1) - 1] BY <2>1, <1>1, <1>4 DEF CellsOf
  <2> QED BY <2>1, <2>2, <1>4 DEF ValueAt
<1>9. Library!Plain(e, c, w) = <<"elf", x>> /\ EncryptedAt(hs, w) = {}
  <2>1. CASE Zips(c)
    <3>1. u \in 0 .. e.shnum - 1 /\ w = Library!Behind(e, c) + u BY <1>20, <1>21, <1>6
    <3>2. Library!Plain(e, c, w) = <<"elf", e.shoff + u>> /\ EncryptedAt(hs, w) = {}
      BY <2>1, <3>1, ShdrCell
    <3> QED BY <3>2, <1>20, <1>21, <1>5
  <2>2. CASE ~Zips(c)
    <3>1. b = h + o BY <2>2, <1>20, <1>21, FileHolds DEF Zips
    <3>2. x \in Nat /\ w = x + h BY <3>1, <1>5, <1>6
    <3>3. w = x + LoadHeaderSize BY <3>2, <1>20, <1>21
    <3>4. Library!Plain(e, c, w) = <<"elf", x>> /\ EncryptedAt(hs, w) = LayersOf(e, x)
      BY <2>2, <3>2, <3>3, LayersAt
    <3> QED BY <3>4 DEF LayersOf
  <2> QED BY <2>1, <2>2
<1>10. StreamsAt(hs, w) = {} BY <1>9 DEF StreamsAt
<1>11. f[w] = [c |-> <<"elf", x>>, k |-> {}]
  <2>1. w \in 0 .. Library!FileLen(e, c) - 1 BY <1>20, <1>21, <1>7
  <2>2. f[w] = [c |-> Library!Plain(e, c, w), k |-> StreamsAt(hs, w)] BY <2>1, <1>3, CellIs
  <2> QED BY <2>2, <1>9, <1>10, Zenon
<1> QED BY <1>8, <1>11 DEF Library!Clear

-----------------------------------------------------------------------------
(* What comes back. *)

BackOf(o, x) == x \in DOMAIN o /\ o[x] = Library!Clear(<<"elf", x>>)

LEMMA WrittenLast ==
    ASSUME NEW N, NEW ss, NEW o, IsWritten(ss, N, o), NEW x \in Nat, NEW m \in 1 .. N,
           Over(ss[m], x), \A l \in m + 1 .. N : ~Over(ss[l], x)
    PROVE  BackOf(o, x) <=> ValueAt(ss[m], x) = Library!Clear(<<"elf", x>>)
<1>1. x \in DOMAIN o /\ o[x] = ss[m].data[x - ss[m].offset + 1] BY DEF IsWritten
<1> QED BY <1>1 DEF BackOf, ValueAt

\* On a unit of a segment, not of the section headers, the last that is written
\* is the last segment that covers it.
LEMMA LastSegment ==
    ASSUME NEW e \in LoadElfs, NEW c \in BOOLEAN, NEW hs, NEW ss, Loaded(e, c, hs, ss),
           NEW o, IsWritten(ss, Len(ss), o),
           NEW x \in Nat, x \notin ShdrsOf(e, hs), CoversOf(e, x) # {}
    PROVE  \E t \in CoversOf(e, x) :
              /\ \A l \in CoversOf(e, x) : l <= t
              /\ LoadedFrom(e, hs, Library!Made(e, c, hs), t, ss[t + 1])
              /\ BackOf(o, x) <=> ValueAt(ss[t + 1], x) = Library!Clear(<<"elf", x>>)
<1>0. PICK n \in Nat, M \in Nat : n = Len(e.phdr) /\ M = Len(hs) /\ M \in n .. n + 1
  BY LoadedParts
<1>1. Len(ss) = M + 1 /\ M + 1 \in Nat /\ Described(e, c, hs) BY <1>0 DEF Loaded
<1>2. PICK f : f = Library!Made(e, c, hs) OBVIOUS
<1>3. \A t \in 1 .. M : LoadedFrom(e, hs, f, t, ss[t + 1]) BY <1>0, <1>2, LoadedParts
<1>4. ASSUME NEW t \in 1 .. M PROVE Over(ss[t + 1], x) <=> t \in CoversOf(e, x)
  <2>1. LoadedFrom(e, hs, f, t, ss[t + 1]) BY <1>3
  <2>2. CASE t \in 1 .. n
    <3>1. Over(ss[t + 1], x) <=> x \in UnitsOf(e, t) BY <2>1, <2>2, <1>0, <1>1, OverSegment
    <3> QED BY <3>1, <2>2, <1>0 DEF CoversOf
  <2>3. CASE t \notin 1 .. n
    <3>1. Over(ss[t + 1], x) <=> x \in ShdrsOf(e, hs) BY <2>1, <2>3, <1>0, <1>1, OverOther
    <3> QED BY <3>1, <2>3, <1>0 DEF CoversOf
  <2> QED BY <2>2, <2>3
<1>5. CoversOf(e, x) \subseteq 1 .. M
  <2>1. CoversOf(e, x) \subseteq 1 .. n BY <1>0 DEF CoversOf
  <2> QED BY <2>1, <1>0
<1>6. PICK k \in 1 .. M : k \in CoversOf(e, x) BY <1>5
<1>7. PICK m \in 1 .. M + 1 : /\ k + 1 <= m /\ Over(ss[m], x)
                              /\ \A l \in m + 1 .. M + 1 : ~Over(ss[l], x)
  <2>1. k + 1 \in 1 .. M + 1 /\ Over(ss[k + 1], x) BY <1>4, <1>6
  <2>2. PICK z \in Nat : z = M + 1 BY <1>1
  <2>3. \E m \in 1 .. z : /\ k + 1 <= m /\ Over(ss[m], x)
                          /\ \A l \in m + 1 .. z : ~Over(ss[l], x)
    BY <2>1, <2>2, LastOver
  <2> QED BY <2>2, <2>3
<1>8. PICK t \in 1 .. M : m = t + 1
  <2>1. m - 1 \in 1 .. M /\ m = (m - 1) + 1 BY <1>7
  <2> QED BY <2>1
<1>9. t \in CoversOf(e, x) BY <1>4, <1>7, <1>8
<1>10. \A l \in CoversOf(e, x) : l <= t
  <2> SUFFICES ASSUME NEW l \in CoversOf(e, x), ~(l <= t) PROVE FALSE OBVIOUS
  <2>1. l \in 1 .. M BY <1>5
  <2>2. l + 1 \in m + 1 .. M + 1 BY <2>1, <1>8
  <2> QED BY <2>1, <2>2, <1>4, <1>7
<1>11. BackOf(o, x) <=> ValueAt(ss[m], x) = Library!Clear(<<"elf", x>>)
  BY <1>1, <1>7, WrittenLast
<1> QED BY <1>2, <1>3, <1>8, <1>9, <1>10, <1>11

LEMMA ZippedBack ==
    ASSUME NEW e \in LoadElfs, NEW c \in BOOLEAN, Zips(c), NEW hs, NEW ss, Loaded(e, c, hs, ss),
           NEW o, IsWritten(ss, Len(ss), o),
           NEW x \in Nat, x \notin ShdrsOf(e, hs), CoversOf(e, x) # {},
           \A l \in CoversOf(e, x) : hs[l].encrypted => Untaken(hs, l - 1, hs[l].iv)
    PROVE  BackOf(o, x)
<1>1. PICK t \in CoversOf(e, x) :
              /\ LoadedFrom(e, hs, Library!Made(e, c, hs), t, ss[t + 1])
              /\ BackOf(o, x) <=> ValueAt(ss[t + 1], x) = Library!Clear(<<"elf", x>>)
  BY LastSegment
<1>2. t \in 1 .. Len(e.phdr) /\ x \in UnitsOf(e, t) BY DEF CoversOf
<1>3. Described(e, c, hs) BY DEF Loaded
<1>4. hs[t].encrypted => Untaken(hs, t - 1, hs[t].iv) OBVIOUS
<1>5. ValueAt(ss[t + 1], x) = Library!Clear(<<"elf", x>>)
  BY <1>1, <1>2, <1>3, <1>4, ZippedValue
<1> QED BY <1>1, <1>5

LEMMA UnzippedBack ==
    ASSUME NEW e \in LoadElfs, NEW c \in BOOLEAN, ~Zips(c), NEW hs, NEW ss, Loaded(e, c, hs, ss),
           OwnIvs(e, hs), NEW o, IsWritten(ss, Len(ss), o),
           NEW x \in Nat, x \notin ShdrsOf(e, hs), CoversOf(e, x) # {}
    PROVE  \E t \in CoversOf(e, x) :
              /\ \A l \in CoversOf(e, x) : l <= t
              /\ BackOf(o, x) <=> \A l \in LayersOf(e, x) : l = t
<1>1. PICK t \in CoversOf(e, x) :
              /\ \A l \in CoversOf(e, x) : l <= t
              /\ LoadedFrom(e, hs, Library!Made(e, c, hs), t, ss[t + 1])
              /\ BackOf(o, x) <=> ValueAt(ss[t + 1], x) = Library!Clear(<<"elf", x>>)
  BY LastSegment
<1>2. t \in 1 .. Len(e.phdr) /\ x \in UnitsOf(e, t) BY DEF CoversOf
<1>3. Described(e, c, hs) BY DEF Loaded
<1>4. ValueAt(ss[t + 1], x) = Library!Clear(<<"elf", x>>) <=> \A l \in LayersOf(e, x) : l = t
  BY <1>1, <1>2, <1>3, RawValue
<1> QED BY <1>1, <1>4

LEMMA HeadBack ==
    ASSUME NEW e \in LoadElfs, NEW c \in BOOLEAN, NEW hs, NEW ss, Loaded(e, c, hs, ss),
           NEW o, IsWritten(ss, Len(ss), o),
           NEW x \in Nat, x < LoadHdrLen, x \notin ShdrsOf(e, hs), CoversOf(e, x) = {}
    PROVE  BackOf(o, x)
<1>0. PICK n \in Nat, M \in Nat : n = Len(e.phdr) /\ M = Len(hs) /\ M \in n .. n + 1
  BY LoadedParts
<1>1. Len(ss) = M + 1 /\ Described(e, c, hs) BY <1>0 DEF Loaded
<1>2. PICK f : f = Library!Made(e, c, hs) OBVIOUS
<1>3. Over(ss[1], x) /\ ValueAt(ss[1], x) = Library!Clear(<<"elf", x>>)
  <2>1. HeadLoaded(Library!FileLen(e, c), Library!Made(e, c, hs), ss[1]) BY LoadedParts
  <2> QED BY <2>1, <1>1, HeadValue
<1>4. ASSUME NEW l \in 1 + 1 .. M + 1 PROVE ~Over(ss[l], x)
  <2>1. PICK t \in 1 .. M : l = t + 1
    <3>1. l - 1 \in 1 .. M /\ l = (l - 1) + 1 OBVIOUS
    <3> QED BY <3>1
  <2>2. LoadedFrom(e, hs, f, t, ss[t + 1]) BY <1>0, <1>2, LoadedParts
  <2>3. CASE t \in 1 .. n
    <3>1. Over(ss[t + 1], x) <=> x \in UnitsOf(e, t) BY <2>2, <2>3, <1>0, <1>1, OverSegment
    <3>2. x \notin UnitsOf(e, t) BY <2>3, <1>0 DEF CoversOf
    <3> QED BY <3>1, <3>2, <2>1
  <2>4. CASE t \notin 1 .. n
    <3>1. Over(ss[t + 1], x) <=> x \in ShdrsOf(e, hs) BY <2>2, <2>4, <1>0, <1>1, OverOther
    <3> QED BY <3>1, <2>1
  <2> QED BY <2>3, <2>4
<1>5. BackOf(o, x) <=> ValueAt(ss[1], x) = Library!Clear(<<"elf", x>>)
  <2>1. 1 \in 1 .. Len(ss) BY <1>1
  <2>2. \A l \in 1 + 1 .. Len(ss) : ~Over(ss[l], x) BY <1>1, <1>4
  <2> QED BY <2>1, <2>2, <1>3, WrittenLast
<1> QED BY <1>3, <1>5

LEMMA ShdrBack ==
    ASSUME NEW e \in LoadElfs, NEW c \in BOOLEAN, NEW hs, NEW ss, Loaded(e, c, hs, ss),
           NEW o, IsWritten(ss, Len(ss), o),
           NEW x \in ShdrsOf(e, hs), CoversOf(e, x) = {}
    PROVE  BackOf(o, x)
<1>0. PICK n \in Nat, M \in Nat : n = Len(e.phdr) /\ M = Len(hs) /\ M \in n .. n + 1
  BY LoadedParts
<1>1. Len(ss) = M + 1 /\ Described(e, c, hs) BY <1>0 DEF Loaded
<1>2. PICK f : f = Library!Made(e, c, hs) OBVIOUS
<1>3. HasShdrs(e, hs) /\ x \in e.shoff .. e.shoff + e.shnum - 1 BY DEF ShdrsOf
<1>4. x \in Nat
  <2>1. PICK a \in Nat, b \in Nat : a = e.shoff /\ b = e.shnum BY LoadElfIs
  <2> QED BY <2>1, <1>3
<1>5. M = n + 1 BY <1>0, <1>3 DEF HasShdrs
<1>6. M \in 1 .. Len(hs) /\ M \notin 1 .. Len(e.phdr) BY <1>0, <1>5
<1>7. LoadedFrom(e, hs, f, M, ss[M + 1]) BY <1>2, <1>6, LoadedParts
<1>8. Over(ss[M + 1], x) BY <1>1, <1>4, <1>6, <1>7, OverOther
<1>9. ValueAt(ss[M + 1], x) = Library!Clear(<<"elf", x>>)
  BY <1>1, <1>2, <1>6, <1>7, ShdrValue
<1>10. BackOf(o, x) <=> ValueAt(ss[M + 1], x) = Library!Clear(<<"elf", x>>)
  <2>1. M + 1 \in 1 .. Len(ss) BY <1>1
  <2>2. \A l \in (M + 1) + 1 .. Len(ss) : ~Over(ss[l], x) BY <1>1
  <2> QED BY <2>1, <2>2, <1>4, <1>8, WrittenLast
<1> QED BY <1>9, <1>10

LEMMA LoadInvShows == LoadInv => Library!TypeOK /\ Library!FileBack
<1> SUFFICES ASSUME LoadInv PROVE Library!TypeOK /\ Library!FileBack OBVIOUS
<1>1. MadeByMakeself BY DEF LoadInv
<1>2. PICK e \in LoadElfs : e = l_elf BY <1>1 DEF MadeByMakeself
<1>3. PICK c \in BOOLEAN : c = l_zip BY <1>1 DEF MadeByMakeself
<1>4. PICK hs, ss, o : hs = l_meta /\ ss = l_sections /\ o = l_out OBVIOUS
<1>5. Described(e, c, hs) BY <1>1, <1>2, <1>3, <1>4 DEF MadeByMakeself
<1>6. PICK n \in Nat, M \in Nat : n = Len(e.phdr) /\ M = Len(hs)
  <2>1. PICK n \in Nat : n = Len(e.phdr) BY LoadElfIs
  <2>2. PICK M \in n .. n + 1 : M = Len(hs) BY <2>1, <1>5 DEF Described
  <2> QED BY <2>1, <2>2
<1>7. Library!TypeOK
  <2>1. CASE l_pc \in {"load", "failed", "crashed"}
    <3>1. LoadGoes BY <2>1 DEF LoadInv
    <3>2. l_i \in 0 .. M + 2 BY <3>1, <1>4, <1>6 DEF LoadGoes
    <3>3. DOMAIN l_out = {} BY <3>1 DEF LoadGoes
    <3> QED BY <2>1, <3>1, <3>2, <3>3, <1>4, <1>6 DEF LoadGoes, Library!TypeOK
  <2>2. CASE l_pc \in {"write", "done"}
    <3>1. WriteGoes BY <2>2 DEF LoadInv
    <3>2. l_i \in 0 .. M + 2 /\ Len(l_sections) = M + 1
      <4>1. Len(l_sections) = M + 1 /\ l_i \in 1 .. Len(l_sections) + 1
        BY <3>1, <1>4, <1>6 DEF WriteGoes
      <4> QED BY <4>1
    <3> QED BY <2>2, <3>1, <3>2, <1>4, <1>6 DEF WriteGoes, Library!TypeOK
  <2> QED BY <2>1, <2>2 DEF LoadInv
<1>8. ASSUME l_pc = "done" PROVE Loaded(e, c, hs, ss) /\ IsWritten(ss, Len(ss), o)
  <2>1. WriteGoes BY <1>8 DEF LoadInv
  <2>2. Len(ss) = M + 1 /\ l_i = (M + 1) + 1 BY <2>1, <1>4, <1>6, <1>8 DEF WriteGoes
  <2>3. l_i - 1 = Len(ss) BY <2>2
  <2>4. IsWritten(ss, Len(ss), o) BY <2>1, <2>3, <1>4 DEF WriteGoes
  <2>5. AreLoaded(e, c, hs, Library!Made(e, c, hs), ss)
    BY <2>1, <1>1, <1>2, <1>3, <1>4 DEF WriteGoes, MadeByMakeself
  <2> QED BY <2>2, <2>4, <2>5, <1>5, <1>6 DEF Loaded
<1>9. \A k \in 1 .. n : UnitsOf(e, k) \subseteq Nat
  <2> SUFFICES ASSUME NEW k \in 1 .. n PROVE UnitsOf(e, k) \subseteq Nat OBVIOUS
  <2>1. PICK a \in Nat, b \in Nat : a = e.phdr[k].off /\ b = e.phdr[k].len BY <1>6, LoadElfIs
  <2> QED BY <2>1 DEF UnitsOf
<1>10. /\ Library!phnum = n /\ Library!Headers = ShdrsOf(e, hs)
       /\ \A k : Library!Units(k) = UnitsOf(e, k)
       /\ \A x : Library!Covers(x) = CoversOf(e, x)
       /\ \A x : Library!Back(x) <=> BackOf(o, x)
       /\ \A k : Library!FreshIv(k) <=> Untaken(hs, k - 1, hs[k].iv)
  <2>1. Library!phnum = n BY <1>2, <1>6 DEF Library!phnum
  <2>2. Library!Headers = ShdrsOf(e, hs)
    BY <1>2, <1>4, <1>6, <2>1 DEF Library!Headers, ShdrsOf, HasShdrs
  <2>3. \A k : Library!Units(k) = UnitsOf(e, k) BY <1>2 DEF Library!Units, UnitsOf
  <2>4. \A x : Library!Covers(x) = CoversOf(e, x)
    BY <2>1, <2>3, <1>6 DEF Library!Covers, CoversOf
  <2>5. \A x : Library!Back(x) <=> BackOf(o, x) BY <1>4 DEF Library!Back, BackOf
  <2>6. \A k : Library!FreshIv(k) <=> Untaken(hs, k - 1, hs[k].iv)
    BY <1>4 DEF Library!FreshIv, Untaken
  <2> QED BY <2>1, <2>2, <2>3, <2>4, <2>5, <2>6
<1>11. Library!DeflatedBack
  <2> SUFFICES ASSUME l_pc = "done", l_zip,
                      NEW k \in 1 .. n, NEW x \in UnitsOf(e, k), x \notin ShdrsOf(e, hs),
                      \A l \in CoversOf(e, x) : hs[l].encrypted => Untaken(hs, l - 1, hs[l].iv)
               PROVE  BackOf(o, x)
    BY <1>4, <1>10 DEF Library!DeflatedBack
  <2>1. x \in Nat BY <1>9
  <2>2. k \in CoversOf(e, x) BY <1>6 DEF CoversOf
  <2>3. Zips(c) BY <1>3 DEF Zips
  <2> QED BY <2>1, <2>2, <2>3, <1>8, ZippedBack
<1>12. Library!RawBack
  <2> SUFFICES ASSUME l_pc = "done", ~l_zip, \A k \in 1 .. n : hs[k].iv = k,
                      NEW k \in 1 .. n, NEW x \in UnitsOf(e, k), x \notin ShdrsOf(e, hs)
               PROVE  BackOf(o, x) <=> Library!Layers(x)
                                         = {Library!Last(x)} \intersect Library!Layers(x)
    BY <1>4, <1>10 DEF Library!RawBack
  <2>1. x \in Nat BY <1>9
  <2>2. k \in CoversOf(e, x) BY <1>6 DEF CoversOf
  <2>3. ~Zips(c) BY <1>3 DEF Zips
  <2>4. OwnIvs(e, hs) BY <1>6 DEF OwnIvs
  <2>5. PICK t \in CoversOf(e, x) : /\ \A l \in CoversOf(e, x) : l <= t
                                    /\ BackOf(o, x) <=> \A l \in LayersOf(e, x) : l = t
    BY <2>1, <2>2, <2>3, <2>4, <1>8, UnzippedBack
  <2>6. Library!Layers(x) = LayersOf(e, x)
    <3>1. \A l \in CoversOf(e, x) : l_meta[l].encrypted = e.phdr[l].load
      <4>1. \A l \in CoversOf(e, x) : hs[l].encrypted = e.phdr[l].load
        BY <1>5, SegmentHeaderIs DEF CoversOf
      <4> QED BY <4>1, <1>4
    <3> QED BY <3>1, <1>10 DEF Library!Layers, LayersOf
  <2>7. Library!Last(x) = t
    <3>1. \A l \in CoversOf(e, x) : l \in Int BY <1>6 DEF CoversOf
    <3>2. \A m \in CoversOf(e, x) : (\A l \in CoversOf(e, x) : l <= m) => m = t
      BY <3>1, <2>5
    <3>3. (CHOOSE m \in CoversOf(e, x) : \A l \in CoversOf(e, x) : l <= m) = t
      BY <3>2, <2>5
    <3> QED BY <3>3, <1>10 DEF Library!Last
  <2>8. (\A l \in LayersOf(e, x) : l = t) <=> LayersOf(e, x) = {t} \intersect LayersOf(e, x)
    OBVIOUS
  <2> QED BY <2>5, <2>6, <2>7, <2>8
<1>13. Library!HeadersBack
  <2> SUFFICES ASSUME l_pc = "done", NEW x \in 0 .. LoadHdrLen - 1,
                      CoversOf(e, x) = {}, x \notin ShdrsOf(e, hs)
               PROVE  BackOf(o, x)
    BY <1>10 DEF Library!HeadersBack
  <2>1. x \in Nat /\ x < LoadHdrLen BY LoadNumbers
  <2> QED BY <2>1, <1>8, HeadBack
<1>14. Library!ShdrsBack
  <2> SUFFICES ASSUME l_pc = "done", NEW x \in ShdrsOf(e, hs), CoversOf(e, x) = {}
               PROVE  BackOf(o, x)
    BY <1>10 DEF Library!ShdrsBack
  <2> QED BY <1>8, ShdrBack
<1> QED BY <1>7, <1>11, <1>12, <1>13, <1>14 DEF Library!FileBack

-----------------------------------------------------------------------------
(* The invariant: at the start, and from step to step. *)

MetaOf(e, c, extra, shared) ==
    [k \in 1 .. Len(e.phdr) |-> Library!Header(e, c, k, IF shared THEN 1 ELSE k)]
    \o (IF extra = 0 THEN <<>> ELSE <<Library!ExtraHeader(e, c, extra)>>)

LEMMA Joined ==
    ASSUME NEW S, NEW a \in Seq(S), NEW b \in Seq(S)
    PROVE  /\ Len(a \o b) = Len(a) + Len(b)
           /\ \A k \in 1 .. Len(a) : (a \o b)[k] = a[k]
           /\ Len(b) = 1 => (a \o b)[Len(a) + 1] = b[1]
OBVIOUS

LEMMA MakeDescribes ==
    ASSUME NEW e \in LoadElfs, NEW c \in BOOLEAN, NEW extra \in LoadExtra,
           NEW shared \in BOOLEAN, NEW hs, hs = MetaOf(e, c, extra, shared)
    PROVE  Described(e, c, hs)
<1>0. PICK n \in Nat : n = Len(e.phdr) /\ 1 <= n BY LoadElfIs
<1> DEFINE iv(k) == IF shared THEN 1 ELSE k
<1>1. \A k \in 1 .. n : iv(k) \in 1 .. n BY <1>0
<1> HIDE DEF iv
<1>2. PICK a : a = [k \in 1 .. n |-> Library!Header(e, c, k, iv(k))] OBVIOUS
<1>3. PICK b : b = (IF extra = 0 THEN <<>> ELSE <<Library!ExtraHeader(e, c, extra)>>) OBVIOUS
<1>4. hs = a \o b BY <1>0, <1>2, <1>3 DEF iv, MetaOf
<1>5. a \in Seq({a[k] : k \in 1 .. n}) /\ Len(a) = n
  <2> DEFINE H(k) == Library!Header(e, c, k, iv(k))
  <2>1. a = [k \in 1 .. n |-> H(k)] BY <1>2
  <2> HIDE DEF H
  <2>2. DOMAIN a = 1 .. n BY <2>1
  <2> QED BY <2>1, <2>2
<1>6. /\ b \in Seq({Library!ExtraHeader(e, c, extra)}) /\ Len(b) \in {0, 1}
      /\ Len(b) = 1 => b[1] = Library!ExtraHeader(e, c, extra)
  <2>1. CASE extra = 0 BY <2>1, <1>3
  <2>2. CASE extra # 0 BY <2>2, <1>3
  <2> QED BY <2>1, <2>2
<1> DEFINE S == {a[k] : k \in 1 .. n} \union {Library!ExtraHeader(e, c, extra)}
<1>13. a \in Seq(S) /\ b \in Seq(S) BY <1>5, <1>6
<1> HIDE DEF S
<1>14. /\ Len(hs) = n + Len(b)
       /\ \A k \in 1 .. n : hs[k] = a[k]
       /\ Len(b) = 1 => hs[n + 1] = b[1]
  <2>1. /\ Len(a \o b) = Len(a) + Len(b)
        /\ \A k \in 1 .. Len(a) : (a \o b)[k] = a[k]
        /\ Len(b) = 1 => (a \o b)[Len(a) + 1] = b[1]
    BY <1>13, Joined
  <2> QED BY <2>1, <1>4, <1>5
<1>15. PICK L \in {0, 1} : L = Len(b) BY <1>6
<1>7. Len(hs) = n + Len(b) BY <1>14
<1>8. \A k \in 1 .. n : hs[k] = a[k] BY <1>14
<1>9. Len(b) = 1 => hs[n + 1] = b[1] BY <1>14
<1>10. ASSUME NEW k \in 1 .. n
       PROVE  hs[k].iv \in 1 .. n /\ hs[k] = Library!Header(e, c, k, hs[k].iv)
  <2>1. PICK v : v = iv(k) OBVIOUS
  <2>2. hs[k] = Library!Header(e, c, k, v)
    <3> DEFINE H(m) == Library!Header(e, c, m, iv(m))
    <3>1. a = [m \in 1 .. n |-> H(m)] BY <1>2
    <3> HIDE DEF H
    <3>2. a[k] = H(k) BY <3>1
    <3>3. H(k) = Library!Header(e, c, k, v) BY <2>1 DEF H
    <3> QED BY <3>2, <3>3, <1>8
  <2>3. hs[k].iv = v BY <2>2 DEF Library!Header
  <2> QED BY <2>1, <2>2, <2>3, <1>1
<1>11. ASSUME NEW k \in n + 1 .. Len(hs)
       PROVE  hs[k].type # 2 /\ hs[k] = Library!ExtraHeader(e, c, hs[k].type)
  <2>1. Len(b) = 1 /\ k = n + 1 BY <1>7, <1>11, <1>15
  <2>2. hs[k] = Library!ExtraHeader(e, c, extra) BY <2>1, <1>6, <1>9
  <2>3. hs[k].type = extra BY <2>2 DEF Library!ExtraHeader
  <2>4. extra # 2 BY LibraryAssumption DEF Library!ElfAssumption
  <2> QED BY <2>2, <2>3, <2>4
<1>12. Len(hs) \in n .. n + 1 BY <1>7, <1>15
<1> QED BY <1>0, <1>10, <1>11, <1>12 DEF Described

LEMMA LoadInitHolds == Library!Init => LoadInv
<1> SUFFICES ASSUME Library!Init PROVE LoadInv OBVIOUS
<1>1. PICK e \in LoadElfs : e = l_elf BY DEF Library!Init
<1>2. PICK c \in BOOLEAN : c = l_zip BY DEF Library!Init
<1>3. PICK hs : hs = l_meta OBVIOUS
<1>4. PICK n \in Nat : n = Len(e.phdr) BY LoadElfIs
<1>5. Library!phnum = Len(e.phdr) BY <1>1 DEF Library!phnum
<1>6. Described(e, c, hs)
  <2>1. PICK extra \in LoadExtra : \E shared \in LoadSharing :
                                      hs = MetaOf(e, c, extra, shared)
    BY <1>1, <1>2, <1>3, <1>5 DEF Library!Init, MetaOf
  <2>2. PICK shared \in LoadSharing : hs = MetaOf(e, c, extra, shared) BY <2>1
  <2>3. shared \in BOOLEAN BY LibraryAssumption DEF Library!ElfAssumption
  <2> QED BY <2>2, <2>3, MakeDescribes
<1>7. MadeByMakeself
  BY <1>1, <1>2, <1>3, <1>6 DEF MadeByMakeself, Library!Init
<1>8. /\ l_pc = "load" /\ l_i = 0 /\ l_sections = <<>> /\ l_out = <<>>
      /\ l_ivs = [k \in 0 .. n |-> 0]
  BY <1>4, <1>5 DEF Library!Init
<1>9. PICK M \in n .. n + 1 : M = Len(hs) BY <1>4, <1>6 DEF Described
<1>10. AreLoaded(e, c, hs, l_self, <<>>) BY DEF AreLoaded
<1>11. IvsAfter(e, hs, l_i - 1, l_ivs) BY <1>4, <1>8 DEF IvsAfter
<1>12. l_i \in 0 .. Len(l_meta) + 1 BY <1>3, <1>8, <1>9
<1>13. LoadGoes BY <1>1, <1>2, <1>3, <1>8, <1>10, <1>11, <1>12 DEF LoadGoes
<1> QED BY <1>7, <1>8, <1>13 DEF LoadInv

LEMMA SeqOfItself ==
    ASSUME NEW S, NEW t \in Seq(S)
    PROVE  t \in Seq({t[m] : m \in DOMAIN t})
<1>1. PICK n \in Nat : n = Len(t) /\ DOMAIN t = 1 .. n /\ t = [m \in 1 .. n |-> t[m]] OBVIOUS
<1> QED BY <1>1

LEMMA FirstLoaded ==
    ASSUME NEW e, NEW c, NEW hs, NEW f, NEW s, HeadLoaded(Library!FileLen(e, c), f, s)
    PROVE  AreLoaded(e, c, hs, f, <<s>>) /\ Len(<<s>>) = 1
<1>1. PICK t : t = <<s>> OBVIOUS
<1>2. t \in Seq({s}) /\ Len(t) = 1 /\ t[1] = s BY <1>1
<1>3. t \in Seq({t[m] : m \in DOMAIN t}) BY <1>2, SeqOfItself
<1>4. 1 .. Len(t) - 1 = {} BY <1>2
<1>5. AreLoaded(e, c, hs, f, t) BY <1>2, <1>3, <1>4 DEF AreLoaded
<1> QED BY <1>1, <1>2, <1>5

LEMMA NextLoaded ==
    ASSUME NEW e, NEW c, NEW hs, NEW f, NEW ss, AreLoaded(e, c, hs, f, ss),
           NEW m \in Nat \ {0}, Len(ss) = m, NEW s, LoadedFrom(e, hs, f, m, s)
    PROVE  AreLoaded(e, c, hs, f, Append(ss, s)) /\ Len(Append(ss, s)) = m + 1
<1>1. PICK S : ss \in Seq(S) BY DEF AreLoaded
<1>2. PICK t : t = Append(ss, s) OBVIOUS
<1>3. PICK Q : Q = S \union {s} OBVIOUS
<1>4. ss \in Seq(Q) /\ s \in Q BY <1>1, <1>3
<1>5. /\ t \in Seq(Q) /\ Len(t) = m + 1 /\ t[m + 1] = s
      /\ \A k \in 1 .. m : t[k] = ss[k]
  BY <1>2, <1>4
<1>6. t \in Seq({t[k] : k \in DOMAIN t}) BY <1>5, SeqOfItself
<1>7. t[1] = ss[1] /\ ss # <<>> BY <1>5
<1>8. HeadLoaded(Library!FileLen(e, c), f, t[1]) BY <1>7 DEF AreLoaded
<1>9. ASSUME NEW k \in 1 .. m PROVE LoadedFrom(e, hs, f, k, t[k + 1])
  <2>1. CASE k = m BY <2>1, <1>5
  <2>2. CASE k # m
    <3>1. k + 1 \in 1 .. m /\ k \in 1 .. m - 1 BY <2>2
    <3>2. t[k + 1] = ss[k + 1] BY <3>1, <1>5
    <3>3. LoadedFrom(e, hs, f, k, ss[k + 1]) BY <3>1 DEF AreLoaded
    <3> QED BY <3>2, <3>3
  <2> QED BY <2>1, <2>2
<1>10. (m + 1) - 1 = m OBVIOUS
<1>11. AreLoaded(e, c, hs, f, t) BY <1>5, <1>6, <1>8, <1>9, <1>10 DEF AreLoaded
<1> QED BY <1>2, <1>5, <1>11

\* The next iv is counted up by its own section only.
LEMMA NextIvs ==
    ASSUME NEW e, NEW hs, NEW n \in Nat, NEW iv, IvsAfter(e, hs, n, iv), NEW jv,
           jv \in [0 .. Len(e.phdr) -> Nat],
           \A v \in 1 .. Len(e.phdr) : ~(hs[n + 1].encrypted /\ hs[n + 1].iv = v) => jv[v] = iv[v]
    PROVE  IvsAfter(e, hs, n + 1, jv)
<1> SUFFICES ASSUME NEW v \in 1 .. Len(e.phdr), Untaken(hs, n + 1, v) PROVE jv[v] = 0
  BY DEF IvsAfter
<1>1. n + 1 \in 1 .. n + 1 /\ \A l \in 1 .. n : l \in 1 .. n + 1 OBVIOUS
<1>2. ~(hs[n + 1].encrypted /\ hs[n + 1].iv = v) /\ Untaken(hs, n, v) BY <1>1 DEF Untaken
<1> QED BY <1>2 DEF IvsAfter

LEMMA MadeKept ==
    MadeByMakeself /\ UNCHANGED <<l_elf, l_zip, l_meta, l_self>> => MadeByMakeself'
BY DEF MadeByMakeself

LEMMA LoadFailed ==
    ASSUME LoadInv, l_pc = "load", l_pc' \in {"failed", "crashed"},
           UNCHANGED <<l_elf, l_zip, l_meta, l_self, l_i, l_out>>
    PROVE  LoadInv'
<1>1. MadeByMakeself' BY MadeKept DEF LoadInv
<1>2. LoadGoes BY DEF LoadInv
<1>3. LoadGoes' BY <1>2 DEF LoadGoes
<1> QED BY <1>1, <1>3 DEF LoadInv

LEMMA LoadSection0 == LoadInv /\ Library!Section0 => LoadInv'
<1> SUFFICES ASSUME LoadInv, Library!Section0 PROVE LoadInv' OBVIOUS
<1>1. MadeByMakeself /\ LoadGoes /\ l_pc = "load" /\ l_i = 0
  BY DEF LoadInv, Library!Section0, WriteGoes
<1>2. PICK e \in LoadElfs : e = l_elf BY <1>1 DEF MadeByMakeself
<1>3. PICK c \in BOOLEAN : c = l_zip BY <1>1 DEF MadeByMakeself
<1>4. PICK hs, f : hs = l_meta /\ f = l_self OBVIOUS
<1>5. Described(e, c, hs) BY <1>1, <1>2, <1>3, <1>4 DEF MadeByMakeself
<1>6. PICK n \in Nat : n = Len(e.phdr) /\ 1 \in 1 .. n BY LoadElfIs
<1>7. PICK M \in n .. n + 1 : M = Len(hs) BY <1>5, <1>6 DEF Described
<1>8. PICK d \in Nat, h \in Nat, o \in Nat : d = LoadHdrLen /\ h = LoadHeaderSize /\ o = LoadElfOffset
  BY LoadNumbers
<1>9. PICK F \in Nat : F = Library!FileLen(e, c) BY FileHolds
<1>10. PICK at \in Nat : at = hs[1].data_offset
  <2>1. 1 \in 1 .. Len(hs) BY <1>6, <1>7
  <2> QED BY <2>1, <1>5, SectionIs
<1>11. PICK size \in Int : size = (IF at - h < d THEN d ELSE at - h) OBVIOUS
<1>12. d <= size BY <1>11
<1>13. \/ /\ h + size <= F
          /\ l_sections' = <<Library!Section(0, Library!Cells(LoadElfOffset, size))>>
          /\ l_i' = 1
          /\ UNCHANGED <<l_elf, l_zip, l_meta, l_self, l_pc, l_ivs, l_out>>
       \/ Library!Fail
  BY <1>2, <1>3, <1>4, <1>8, <1>9, <1>10, <1>11 DEF Library!Section0, Library!Reads
<1>14. CASE Library!Fail BY <1>1, <1>14, LoadFailed DEF Library!Fail
<1>15. CASE /\ h + size <= F
            /\ l_sections' = <<Library!Section(0, Library!Cells(LoadElfOffset, size))>>
            /\ l_i' = 1
            /\ UNCHANGED <<l_elf, l_zip, l_meta, l_self, l_pc, l_ivs, l_out>>
  <2>1. PICK s : s = Library!Section(0, Library!Cells(LoadElfOffset, size)) OBVIOUS
  <2>2. HeadLoaded(Library!FileLen(e, c), f, s)
    <3>1. size \in d .. F BY <1>12, <1>15
    <3>2. Library!Cells(LoadElfOffset, size) = HeadFrom(f, size)
      BY <1>4 DEF Library!Cells, HeadFrom
    <3>3. s.offset = 0 /\ s.data = HeadFrom(f, size) BY <2>1, <3>2 DEF Library!Section
    <3> QED BY <3>1, <3>3, <1>8, <1>9 DEF HeadLoaded
  <2>3. PICK t : t = <<s>> OBVIOUS
  <2>4. AreLoaded(e, c, hs, f, t) /\ Len(t) = 1 BY <2>2, <2>3, FirstLoaded
  <2>5. PICK iv : iv = l_ivs OBVIOUS
  <2>6. IvsAfter(e, hs, 0, iv)
    <3>1. IvsAfter(e, hs, 0 - 1, iv) BY <1>1, <1>2, <1>4, <2>5 DEF LoadGoes
    <3>2. \A v : Untaken(hs, 0 - 1, v) BY DEF Untaken
    <3> QED BY <3>1, <3>2 DEF IvsAfter
  <2>7. /\ l_elf' = e /\ l_zip' = c /\ l_meta' = hs /\ l_self' = f /\ l_i' = 1
        /\ l_sections' = t /\ l_ivs' = iv /\ l_pc' = "load" /\ l_out' = <<>>
    BY <1>1, <1>2, <1>3, <1>4, <1>15, <2>1, <2>3, <2>5 DEF LoadGoes
  <2>8. 1 \in 0 .. Len(hs) + 1 /\ 1 - 1 = 0 BY <1>7
  <2>9. LoadGoes' BY <2>4, <2>6, <2>7, <2>8 DEF LoadGoes
  <2>10. MadeByMakeself' BY <1>1, <1>15, MadeKept
  <2> QED BY <2>7, <2>9, <2>10 DEF LoadInv
<1> QED BY <1>13, <1>14, <1>15

\* One section more of the metadata is loaded.
LEMMA LoadOneMore ==
    ASSUME LoadInv, l_pc = "load", NEW m \in 1 .. Len(l_meta), l_i = m, NEW s,
           LoadedFrom(l_elf, l_meta, l_self, m, s),
           l_sections' = Append(l_sections, s), l_i' = m + 1, l_pc' = "load",
           UNCHANGED <<l_elf, l_zip, l_meta, l_self, l_out>>,
           l_ivs' \in [0 .. Len(l_elf.phdr) -> Nat],
           \A v \in 1 .. Len(l_elf.phdr) :
              ~(l_meta[m].encrypted /\ l_meta[m].iv = v) => l_ivs'[v] = l_ivs[v]
    PROVE  LoadInv'
<1>1. MadeByMakeself /\ LoadGoes BY DEF LoadInv
<1>2. PICK e \in LoadElfs : e = l_elf BY <1>1 DEF MadeByMakeself
<1>3. PICK c \in BOOLEAN : c = l_zip BY <1>1 DEF MadeByMakeself
<1>4. PICK hs, f, ss : hs = l_meta /\ f = l_self /\ ss = l_sections OBVIOUS
<1>5. Described(e, c, hs) BY <1>1, <1>2, <1>3, <1>4 DEF MadeByMakeself
<1>6. PICK n \in Nat : n = Len(e.phdr) BY LoadElfIs
<1>7. PICK M \in n .. n + 1 : M = Len(hs) BY <1>5, <1>6 DEF Described
<1>8. m \in 1 .. M /\ m \in Nat \ {0} /\ m - 1 \in Nat /\ (m - 1) + 1 = m BY <1>4, <1>7
<1>9. PICK iv, jv : iv = l_ivs /\ jv = l_ivs' OBVIOUS
<1>10. Len(ss) = m /\ AreLoaded(e, c, hs, f, ss) /\ IvsAfter(e, hs, m - 1, iv)
  BY <1>1, <1>2, <1>3, <1>4, <1>9 DEF LoadGoes
<1>11. LoadedFrom(e, hs, f, m, s) BY <1>2, <1>4
<1>12. PICK t : t = Append(ss, s) OBVIOUS
<1>13. AreLoaded(e, c, hs, f, t) /\ Len(t) = m + 1
  BY <1>8, <1>10, <1>11, <1>12, NextLoaded
<1>14. IvsAfter(e, hs, m, jv)
  <2>1. /\ jv \in [0 .. Len(e.phdr) -> Nat]
        /\ \A v \in 1 .. Len(e.phdr) : ~(hs[m].encrypted /\ hs[m].iv = v) => jv[v] = iv[v]
    BY <1>2, <1>4, <1>9
  <2>2. IvsAfter(e, hs, (m - 1) + 1, jv) BY <1>8, <1>10, <2>1, NextIvs
  <2> QED BY <2>2, <1>8
<1>15. /\ l_elf' = e /\ l_zip' = c /\ l_meta' = hs /\ l_self' = f /\ l_i' = m + 1
       /\ l_sections' = t /\ l_ivs' = jv /\ l_pc' = "load" /\ l_out' = <<>>
  BY <1>1, <1>2, <1>3, <1>4, <1>9, <1>12 DEF LoadGoes
<1>16. m + 1 \in 0 .. Len(hs) + 1 /\ (m + 1) - 1 = m BY <1>7, <1>8
<1>17. LoadGoes' BY <1>13, <1>14, <1>15, <1>16 DEF LoadGoes
<1>18. MadeByMakeself' BY <1>1, MadeKept
<1> QED BY <1>15, <1>17, <1>18 DEF LoadInv

LEMMA LoadSegment == LoadInv /\ Library!SegmentSection => LoadInv'
<1> SUFFICES ASSUME LoadInv, Library!SegmentSection PROVE LoadInv' OBVIOUS
<1>1. MadeByMakeself /\ LoadGoes /\ l_pc = "load"
  BY DEF LoadInv, Library!SegmentSection
<1>2. PICK e \in LoadElfs : e = l_elf BY <1>1 DEF MadeByMakeself
<1>3. PICK c \in BOOLEAN : c = l_zip BY <1>1 DEF MadeByMakeself
<1>4. PICK hs, f, iv : hs = l_meta /\ f = l_self /\ iv = l_ivs OBVIOUS
<1>5. Described(e, c, hs) BY <1>1, <1>2, <1>3, <1>4 DEF MadeByMakeself
<1>6. PICK m \in 1 .. Len(hs) : m = l_i /\ hs[m].type = 2
  BY <1>4 DEF Library!SegmentSection
<1>7. m \in 1 .. Len(e.phdr) BY <1>5, <1>6, OtherHeaderIs
<1>8. /\ hs[m].program_idx = m /\ hs[m].iv \in 1 .. Len(e.phdr)
      /\ hs[m].data_size \in Nat /\ hs[m].encrypted \in BOOLEAN
  BY <1>5, <1>6, <1>7, SegmentHeaderIs, SectionIs
<1>9. PICK h : h = hs[m] OBVIOUS
<1>10. PICK data : data = (IF h.compressed THEN Library!Inflated(m) ELSE Library!Decrypted(h)) OBVIOUS
<1>11. PICK s : s = Library!Section(e.phdr[m].off, data) OBVIOUS
<1>12. \/ Library!Fail
       \/ /\ l_sections' = Append(l_sections, s) /\ l_ivs' = Library!Counted(h) /\ l_i' = m + 1
          /\ UNCHANGED <<l_elf, l_zip, l_meta, l_self, l_pc, l_out>>
  BY <1>2, <1>4, <1>6, <1>8, <1>9, <1>10, <1>11 DEF Library!SegmentSection
<1>13. CASE Library!Fail BY <1>1, <1>13, LoadFailed DEF Library!Fail
<1>14. CASE /\ l_sections' = Append(l_sections, s) /\ l_ivs' = Library!Counted(h) /\ l_i' = m + 1
            /\ UNCHANGED <<l_elf, l_zip, l_meta, l_self, l_pc, l_out>>
  <2>1. PICK N \in Nat : N = Len(e.phdr) BY LoadElfIs
  <2>2. IvsAfter(e, hs, m - 1, iv) BY <1>1, <1>2, <1>4, <1>6 DEF LoadGoes
  <2>3. iv \in [0 .. N -> Nat] BY <2>1, <2>2 DEF IvsAfter
  <2>4. PICK v \in 1 .. N : v = h.iv BY <1>8, <1>9, <2>1
  <2>5. PICK p \in Nat : p = iv[v] BY <2>3, <2>4
  <2>6. Untaken(hs, m - 1, v) => p = 0 BY <2>1, <2>2, <2>4, <2>5 DEF IvsAfter
  <2>7. Library!Cells(h.data_offset, h.data_size) = CellsOf(f, h)
    BY <1>4 DEF Library!Cells, CellsOf
  <2>8. Library!Decrypted(h) = IF h.encrypted THEN Taken(h, CellsOf(f, h), p) ELSE CellsOf(f, h)
    BY <1>4, <2>4, <2>5, <2>7 DEF Library!Decrypted, Taken
  <2>9. Library!Inflated(m) = Inflation(e.phdr[m])
    BY <1>2 DEF Library!Inflated, Inflation
  <2>10. s.offset = e.phdr[m].off /\ s.data = data BY <1>11 DEF Library!Section
  <2>11. LoadedFrom(e, hs, f, m, s)
    <3>1. h.compressed => s.data = Inflation(e.phdr[m]) BY <1>10, <2>9, <2>10
    <3>2. ~h.compressed /\ ~h.encrypted => s.data = CellsOf(f, h) BY <1>10, <2>8, <2>10
    <3>3. ~h.compressed /\ h.encrypted => s.data = Taken(h, CellsOf(f, h), p)
      BY <1>10, <2>8, <2>10
    <3> QED BY <3>1, <3>2, <3>3, <1>6, <1>9, <2>4, <2>6, <2>10 DEF LoadedFrom
  <2>12. /\ l_ivs' \in [0 .. N -> Nat]
         /\ \A w \in 1 .. N : ~(h.encrypted /\ h.iv = w) => l_ivs'[w] = iv[w]
    <3>1. PICK z \in Nat : z = p + h.data_size BY <1>8, <1>9
    <3>2. l_ivs' = IF h.encrypted THEN [iv EXCEPT ![v] = z] ELSE iv
      BY <1>4, <1>14, <2>4, <2>5, <3>1 DEF Library!Counted
    <3>3. CASE h.encrypted BY <3>2, <3>3, <2>3, <2>4
    <3>4. CASE ~h.encrypted BY <3>2, <3>4, <2>3
    <3> QED BY <3>3, <3>4
  <2>13. LoadedFrom(l_elf, l_meta, l_self, m, s) BY <2>11, <1>2, <1>4
  <2>14. m \in 1 .. Len(l_meta) /\ l_i = m BY <1>4, <1>6
  <2>15. l_ivs' \in [0 .. Len(l_elf.phdr) -> Nat]
         /\ \A w \in 1 .. Len(l_elf.phdr) :
              ~(l_meta[m].encrypted /\ l_meta[m].iv = w) => l_ivs'[w] = l_ivs[w]
    BY <2>1, <2>12, <1>2, <1>4, <1>9
  <2>16. l_pc' = "load" BY <1>1, <1>14
  <2> QED BY <1>1, <1>14, <2>13, <2>14, <2>15, <2>16, LoadOneMore
<1> QED BY <1>12, <1>13, <1>14

\* The other sections take no key stream.
LEMMA LoadOther ==
    ASSUME LoadInv, l_pc = "load", NEW m \in 1 .. Len(l_meta), l_i = m, NEW s,
           LoadedFrom(l_elf, l_meta, l_self, m, s),
           l_sections' = Append(l_sections, s), l_i' = m + 1,
           UNCHANGED <<l_elf, l_zip, l_meta, l_self, l_pc, l_ivs, l_out>>
    PROVE  LoadInv'
<1>1. LoadGoes BY DEF LoadInv
<1>2. IvsAfter(l_elf, l_meta, l_i - 1, l_ivs) BY <1>1 DEF LoadGoes
<1>3. l_ivs' \in [0 .. Len(l_elf.phdr) -> Nat]
      /\ \A v \in 1 .. Len(l_elf.phdr) :
              ~(l_meta[m].encrypted /\ l_meta[m].iv = v) => l_ivs'[v] = l_ivs[v]
  BY <1>2 DEF IvsAfter
<1>4. l_pc' = "load" OBVIOUS
<1> QED BY <1>3, <1>4, LoadOneMore

LEMMA LoadShdrs == LoadInv /\ Library!ShdrSection => LoadInv'
<1> SUFFICES ASSUME LoadInv, Library!ShdrSection PROVE LoadInv' OBVIOUS
<1>1. PICK m \in 1 .. Len(l_meta) : m = l_i /\ l_meta[m].type = 1
  BY DEF Library!ShdrSection
<1>2. PICK s : s = Library!Section(l_elf.shoff,
                       Library!Cells(l_meta[m].data_offset, l_meta[m].data_size))
  OBVIOUS
<1>3. /\ l_pc = "load" /\ l_sections' = Append(l_sections, s) /\ l_i' = m + 1
      /\ UNCHANGED <<l_elf, l_zip, l_meta, l_self, l_pc, l_ivs, l_out>>
  BY <1>1, <1>2 DEF Library!ShdrSection
<1>4. s.offset = l_elf.shoff /\ s.data = CellsOf(l_self, l_meta[m])
  BY <1>2 DEF Library!Section, Library!Cells, CellsOf
<1>5. LoadedFrom(l_elf, l_meta, l_self, m, s) BY <1>1, <1>4 DEF LoadedFrom
<1> QED BY <1>1, <1>3, <1>5, LoadOther

LEMMA LoadUnknown == LoadInv /\ Library!UnknownSection => LoadInv'
<1> SUFFICES ASSUME LoadInv, Library!UnknownSection PROVE LoadInv' OBVIOUS
<1>1. PICK m \in 1 .. Len(l_meta) : m = l_i /\ l_meta[m].type \notin {1, 2}
  BY DEF Library!UnknownSection
<1>2. CASE l_pc' = "crashed" /\ UNCHANGED <<l_sections, l_i>>
  BY <1>2, LoadFailed DEF Library!UnknownSection
<1>3. CASE /\ l_sections' = Append(l_sections, Library!Skipped)
           /\ l_i' = l_i + 1 /\ UNCHANGED l_pc
  <2>1. PICK s : s = Library!Skipped OBVIOUS
  <2>2. s.offset = -1 BY <2>1 DEF Library!Skipped
  <2>3. LoadedFrom(l_elf, l_meta, l_self, m, s) BY <1>1, <2>2 DEF LoadedFrom
  <2>4. /\ l_pc = "load" /\ l_sections' = Append(l_sections, s) /\ l_i' = m + 1
        /\ UNCHANGED <<l_elf, l_zip, l_meta, l_self, l_pc, l_ivs, l_out>>
    BY <1>1, <1>3, <2>1 DEF Library!UnknownSection
  <2> QED BY <1>1, <2>3, <2>4, LoadOther
<1> QED BY <1>2, <1>3 DEF Library!UnknownSection

LEMMA LoadEnds == LoadInv /\ Library!LoadDone => LoadInv'
<1> SUFFICES ASSUME LoadInv, Library!LoadDone PROVE LoadInv' OBVIOUS
<1>1. /\ MadeByMakeself /\ LoadGoes /\ l_pc = "load" /\ l_i > Len(l_meta)
      /\ l_pc' = "write" /\ l_i' = 1
      /\ UNCHANGED <<l_elf, l_zip, l_meta, l_self, l_ivs, l_sections, l_out>>
  BY DEF LoadInv, Library!LoadDone
<1>2. PICK e \in LoadElfs : e = l_elf BY <1>1 DEF MadeByMakeself
<1>3. PICK c \in BOOLEAN : c = l_zip BY <1>1 DEF MadeByMakeself
<1>4. PICK hs, f, ss : hs = l_meta /\ f = l_self /\ ss = l_sections OBVIOUS
<1>5. Described(e, c, hs) BY <1>1, <1>2, <1>3, <1>4 DEF MadeByMakeself
<1>6. PICK M \in Nat : M = Len(hs)
  <2>1. PICK n \in Nat : n = Len(e.phdr) BY LoadElfIs
  <2> QED BY <2>1, <1>5 DEF Described
<1>7. Len(ss) = M + 1
  <2>1. l_i \in 0 .. M + 1 /\ l_i > M BY <1>1, <1>4, <1>6 DEF LoadGoes
  <2>2. l_i = M + 1 BY <2>1
  <2> QED BY <2>2, <1>1, <1>4 DEF LoadGoes
<1>8. AreLoaded(e, c, hs, f, ss) BY <1>1, <1>2, <1>3, <1>4 DEF LoadGoes
<1>9. IsWritten(ss, 1 - 1, <<>>) BY DEF IsWritten
<1>10. DOMAIN <<>> \subseteq 0 .. Library!FileLen(e, c) + e.size
  <2>1. DOMAIN <<>> = {} OBVIOUS
  <2> QED BY <2>1
<1>11. 1 \in 1 .. Len(ss) + 1 BY <1>7
<1>12. /\ l_elf' = e /\ l_zip' = c /\ l_meta' = hs /\ l_self' = f /\ l_i' = 1
       /\ l_sections' = ss /\ l_pc' = "write" /\ l_out' = <<>>
  BY <1>1, <1>2, <1>3, <1>4 DEF LoadGoes
<1>13. WriteGoes' BY <1>6, <1>7, <1>8, <1>9, <1>10, <1>11, <1>12 DEF WriteGoes
<1>14. MadeByMakeself' BY <1>1, MadeKept
<1> QED BY <1>12, <1>13, <1>14 DEF LoadInv

-----------------------------------------------------------------------------
(* The write loop, and the theorem. *)

\* Every section loaded has its place inside the output's bound.
LEMMA LoadedWithin ==
    ASSUME NEW e \in LoadElfs, NEW c \in BOOLEAN, NEW hs, Described(e, c, hs), NEW f,
           NEW ss, AreLoaded(e, c, hs, f, ss), Len(ss) = Len(hs) + 1, NEW m \in 1 .. Len(ss)
    PROVE  \/ ss[m].offset = -1
           \/ \E o \in Nat, len \in Nat :
                 /\ ss[m].offset = o /\ DOMAIN ss[m].data = 1 .. len
                 /\ o + len <= Library!FileLen(e, c) + e.size
<1>0. PICK n \in Nat, q \in Nat, F \in Nat, size \in Nat :
          /\ n = Len(e.phdr) /\ q = e.shnum /\ F = Library!FileLen(e, c) /\ size = e.size
  BY LoadElfIs, FileHolds
<1>1. PICK M \in n .. n + 1 : M = Len(hs) BY <1>0 DEF Described
<1>2. m \in 1 .. M + 1 BY <1>1
<1>5. \A z \in Nat : z <= size => z <= F + size OBVIOUS
<1>3. CASE m = 1
  <2>1. ss # <<>> BY <1>1
  <2>2. HeadLoaded(Library!FileLen(e, c), f, ss[1]) BY <2>1 DEF AreLoaded
  <2>3. PICK k \in LoadHdrLen .. F : ss[1].offset = 0 /\ ss[1].data = HeadFrom(f, k)
    BY <2>2, <1>0 DEF HeadLoaded
  <2>4. k \in Nat /\ 0 + k <= F + size BY LoadNumbers
  <2>5. DOMAIN ss[1].data = 1 .. k BY <2>3 DEF HeadFrom
  <2> QED BY <1>0, <1>3, <2>3, <2>4, <2>5
<1>4. CASE m # 1
  <2>1. PICK k \in 1 .. M : m = k + 1
    <3>1. m - 1 \in 1 .. M /\ m = (m - 1) + 1 BY <1>2, <1>4
    <3> QED BY <3>1
  <2>2. PICK s : s = ss[m] OBVIOUS
  <2>3. LoadedFrom(e, hs, f, k, s)
    <3>1. Len(ss) - 1 = M BY <1>1
    <3> QED BY <3>1, <2>1, <2>2 DEF AreLoaded
  <2>4. CASE k \in 1 .. n
    <3>1. PICK o \in Nat, len \in Nat : o = e.phdr[k].off /\ len = e.phdr[k].len /\ o + len <= size
      BY <1>0, <2>4, LoadElfIs
    <3>2. hs[k].type = 2 /\ hs[k].compressed = Library!Deflates(e, c, k)
          /\ hs[k].data_size = SizeOf(e, c, k)
      BY <1>0, <2>4, SegmentHeaderIs
    <3>3. s.offset = o BY <3>1, <3>2, <2>3 DEF LoadedFrom
    <3>4. DOMAIN s.data = 1 .. len
      <4>1. CASE hs[k].compressed
        <5>1. s.data = Inflation(e.phdr[k]) BY <3>2, <4>1, <2>3 DEF LoadedFrom
        <5> QED BY <5>1, <3>1 DEF Inflation
      <4>2. CASE ~hs[k].compressed
        <5>1. hs[k].data_size = len BY <3>1, <3>2, <4>2 DEF SizeOf
        <5>2. s.data = CellsOf(f, hs[k]) \/ \E p \in Nat : s.data = Taken(hs[k], CellsOf(f, hs[k]), p)
          BY <3>2, <4>2, <2>3 DEF LoadedFrom
        <5> QED BY <5>1, <5>2 DEF CellsOf, Taken
      <4> QED BY <4>1, <4>2
    <3>5. o + len <= F + size
      <4>1. PICK z \in Nat : z = o + len /\ z <= size BY <3>1
      <4> QED BY <4>1, <1>5
    <3> QED BY <3>3, <3>4, <3>5, <2>2, <1>0
  <2>5. CASE k \notin 1 .. n
    <3>1. hs[k].type # 2 /\ hs[k].data_size = q
      <4>1. k \in 1 .. Len(hs) /\ k \notin 1 .. Len(e.phdr) BY <1>0, <1>1, <2>1, <2>5
      <4>2. hs[k].type # 2 /\ hs[k].data_size = e.shnum BY <4>1, OtherHeaderIs
      <4> QED BY <4>2, <1>0
    <3>2. PICK o \in Nat : o = e.shoff /\ o + q <= size BY <1>0, LoadElfIs
    <3>3. CASE hs[k].type = 1
      <4>1. s.offset = o /\ s.data = CellsOf(f, hs[k]) BY <2>3, <3>2, <3>3 DEF LoadedFrom
      <4>2. DOMAIN s.data = 1 .. q BY <4>1, <3>1 DEF CellsOf
      <4>3. o + q <= F + size
        <5>1. PICK z \in Nat : z = o + q /\ z <= size BY <3>2
        <5> QED BY <5>1, <1>5
      <4> QED BY <4>1, <4>2, <4>3, <2>2, <1>0
    <3>4. CASE hs[k].type # 1
      <4>1. s.offset = -1 BY <2>3, <3>1, <3>4 DEF LoadedFrom
      <4> QED BY <4>1, <2>2
    <3> QED BY <3>3, <3>4
  <2> QED BY <2>4, <2>5
<1> QED BY <1>3, <1>4

\* A section is written over what is there.
LEMMA OneMoreWritten ==
    ASSUME NEW ss, NEW m \in Nat \ {0}, NEW o, IsWritten(ss, m - 1, o), NEW s, s = ss[m],
           NEW q, q = (IF s.offset = -1 THEN o ELSE Library!Put(o, s.offset, s.data)),
           s.offset = -1 \/ (s.offset \in Nat /\ DOMAIN s.data \subseteq Nat)
    PROVE  IsWritten(ss, m, q)
<1> SUFFICES ASSUME NEW l \in 1 .. m, NEW x \in Nat, Over(ss[l], x),
                    \A t \in l + 1 .. m : ~Over(ss[t], x)
             PROVE  x \in DOMAIN q /\ q[x] = ss[l].data[x - ss[l].offset + 1]
  BY DEF IsWritten
<1>1. CASE l = m
  <2>1. s.offset # -1 /\ x - s.offset + 1 \in DOMAIN s.data BY <1>1 DEF Over
  <2>2. PICK a \in Nat : a = s.offset BY <2>1
  <2>3. PICK k \in Nat : k = x - a + 1 /\ k \in DOMAIN s.data /\ x = a + k - 1
    <3>1. x - a + 1 \in DOMAIN s.data /\ x - a + 1 \in Nat BY <2>1, <2>2
    <3>2. x = a + (x - a + 1) - 1 OBVIOUS
    <3> QED BY <3>1, <3>2
  <2>4. q = Library!Put(o, a, s.data) BY <2>1, <2>2
  <2>5. x \in DOMAIN q BY <2>3, <2>4 DEF Library!Put
  <2>6. q[x] = s.data[x - a + 1] BY <2>3, <2>4, <2>5 DEF Library!Put
  <2> QED BY <1>1, <2>2, <2>5, <2>6
<1>2. CASE l # m
  <2>1. l \in 1 .. m - 1 /\ m \in l + 1 .. m BY <1>2
  <2>2. \A t \in l + 1 .. m - 1 : ~Over(ss[t], x)
    <3>1. \A t \in l + 1 .. m - 1 : t \in l + 1 .. m OBVIOUS
    <3> QED BY <3>1
  <2>3. x \in DOMAIN o /\ o[x] = ss[l].data[x - ss[l].offset + 1]
    BY <2>1, <2>2 DEF IsWritten
  <2>4. ~Over(s, x) BY <2>1
  <2>5. CASE s.offset = -1 BY <2>3, <2>5
  <2>6. CASE s.offset # -1
    <3>1. q = Library!Put(o, s.offset, s.data) BY <2>6
    <3>2. x - s.offset + 1 \notin DOMAIN s.data BY <2>4, <2>6 DEF Over
    <3>3. x \in DOMAIN q /\ q[x] = o[x] BY <3>1, <3>2, <2>3 DEF Library!Put
    <3> QED BY <2>3, <3>3
  <2> QED BY <2>5, <2>6
<1> QED BY <1>1, <1>2

LEMMA LoadWrites == LoadInv /\ Library!WriteSection => LoadInv'
<1> SUFFICES ASSUME LoadInv, Library!WriteSection PROVE LoadInv' OBVIOUS
<1>1. /\ MadeByMakeself /\ WriteGoes /\ l_pc = "write" /\ l_i <= Len(l_sections)
      /\ l_i' = l_i + 1
      /\ UNCHANGED <<l_elf, l_zip, l_meta, l_self, l_pc, l_ivs, l_sections>>
  BY DEF LoadInv, Library!WriteSection
<1>2. PICK e \in LoadElfs : e = l_elf BY <1>1 DEF MadeByMakeself
<1>3. PICK c \in BOOLEAN : c = l_zip BY <1>1 DEF MadeByMakeself
<1>4. PICK hs, f, ss, o, q : hs = l_meta /\ f = l_self /\ ss = l_sections /\ o = l_out /\ q = l_out'
  OBVIOUS
<1>5. Described(e, c, hs) BY <1>1, <1>2, <1>3, <1>4 DEF MadeByMakeself
<1>6. PICK M \in Nat : M = Len(hs)
  <2>1. PICK n \in Nat : n = Len(e.phdr) BY LoadElfIs
  <2> QED BY <2>1, <1>5 DEF Described
<1>7. Len(ss) = M + 1 /\ AreLoaded(e, c, hs, f, ss)
  BY <1>1, <1>2, <1>3, <1>4, <1>6 DEF WriteGoes
<1>8. PICK m \in 1 .. M + 1 : m = l_i
  <2>1. l_i \in 1 .. (M + 1) + 1 /\ l_i <= M + 1 BY <1>1, <1>4, <1>7 DEF WriteGoes
  <2>2. l_i \in 1 .. M + 1 BY <2>1
  <2> QED BY <2>2
<1>9. PICK B \in Nat : B = Library!FileLen(e, c) + e.size
  <2>1. Library!FileLen(e, c) \in Nat /\ e.size \in Nat BY FileHolds, LoadElfIs
  <2> QED BY <2>1
<1>10. IsWritten(ss, m - 1, o) /\ DOMAIN o \subseteq 0 .. B
  BY <1>1, <1>2, <1>3, <1>4, <1>8, <1>9 DEF WriteGoes
<1>11. PICK s : s = ss[m] OBVIOUS
<1>12. q = (IF s.offset = -1 THEN o ELSE Library!Put(o, s.offset, s.data))
  BY <1>4, <1>8, <1>11 DEF Library!WriteSection
<1>13. s.offset = -1 \/ \E a \in Nat, len \in Nat :
           s.offset = a /\ DOMAIN s.data = 1 .. len /\ a + len <= B
  BY <1>5, <1>6, <1>7, <1>8, <1>9, <1>11, LoadedWithin
<1>14. IsWritten(ss, m, q)
  <2>1. s.offset = -1 \/ (s.offset \in Nat /\ DOMAIN s.data \subseteq Nat) BY <1>13
  <2> QED BY <1>8, <1>10, <1>11, <1>12, <2>1, OneMoreWritten
<1>15. DOMAIN q \subseteq 0 .. B
  <2>1. CASE s.offset = -1 BY <1>10, <1>12, <2>1
  <2>2. CASE s.offset # -1
    <3>1. PICK a \in Nat, len \in Nat :
              s.offset = a /\ DOMAIN s.data = 1 .. len /\ a + len <= B
      BY <1>13, <2>2
    <3>2. DOMAIN q = DOMAIN o \union {a + k - 1 : k \in 1 .. len}
      BY <1>12, <2>2, <3>1 DEF Library!Put
    <3>3. \A k \in 1 .. len : a + k - 1 \in 0 .. B BY <3>1
    <3> QED BY <1>10, <3>2, <3>3
  <2> QED BY <2>1, <2>2
<1>16. PICK p \in Nat : p = m + 1 /\ p \in 1 .. Len(ss) + 1 /\ p - 1 = m BY <1>7, <1>8
<1>17. /\ l_elf' = e /\ l_zip' = c /\ l_meta' = hs /\ l_self' = f /\ l_i' = p
       /\ l_sections' = ss /\ l_pc' = "write" /\ l_out' = q
  BY <1>1, <1>2, <1>3, <1>4, <1>8, <1>16
<1>18. WriteGoes' BY <1>6, <1>7, <1>9, <1>14, <1>15, <1>16, <1>17 DEF WriteGoes
<1>19. MadeByMakeself' BY <1>1, MadeKept
<1> QED BY <1>17, <1>18, <1>19 DEF LoadInv

LEMMA LoadFinishes == LoadInv /\ Library!Done => LoadInv'
<1> SUFFICES ASSUME LoadInv, Library!Done PROVE LoadInv' OBVIOUS
<1>1. /\ MadeByMakeself /\ WriteGoes /\ l_pc' = "done" /\ l_i > Len(l_sections)
      /\ UNCHANGED <<l_elf, l_zip, l_meta, l_self, l_i, l_ivs, l_sections, l_out>>
  BY DEF LoadInv, Library!Done
<1>2. PICK N \in Nat : N = Len(l_sections)
  <2>1. PICK S : l_sections \in Seq(S) BY <1>1 DEF WriteGoes, AreLoaded
  <2> QED BY <2>1
<1>3. l_i = N + 1
  <2>1. l_i \in 1 .. N + 1 /\ l_i > N BY <1>1, <1>2 DEF WriteGoes
  <2> QED BY <2>1
<1>4. WriteGoes' BY <1>1, <1>2, <1>3 DEF WriteGoes
<1>5. MadeByMakeself' BY <1>1, MadeKept
<1> QED BY <1>1, <1>4, <1>5 DEF LoadInv

LEMMA LoadStill ==
    LoadInv /\ UNCHANGED <<l_elf, l_zip, l_meta, l_self, l_pc, l_i, l_ivs, l_sections, l_out>>
        => LoadInv'
BY MadeKept DEF LoadInv, LoadGoes, WriteGoes

\* unself2 gives back what its sections and ivs allow: of a deflated SELF every
\* segment with an iv of its own, of a raw one whose ivs are all its own the units
\* that have no key stream but their last section's, and the headers; for all ELF
\* files, alignments and header sizes.
THEOREM UnselfLoadsAll == ToolsSpec => []UnselfLoads
<1> DEFINE Good == program = "unself2" => LoadInv
<1>1. ToolsInit => Good BY LoadInitHolds DEF ToolsInit
<1>2. Good /\ [ToolsNext]_all => Good'
  <2> SUFFICES ASSUME Good, [ToolsNext]_all PROVE Good' OBVIOUS
  <2>1. CASE program # "unself2"
    <3>1. program' = program
      BY DEF ToolsNext, Unself, Unself2, WalkU, WalkV, all
    <3> QED BY <2>1, <3>1
  <2>2. CASE program = "unself2" /\ Unself2
    <3>1. LoadInv /\ Library!Next BY <2>2 DEF Unself2
    <3>2. LoadInv'
      BY <3>1, LoadSection0, LoadSegment, LoadShdrs, LoadUnknown, LoadEnds, LoadWrites,
         LoadFinishes
      DEF Library!Next
    <3> QED BY <3>2
  <2>3. CASE program = "unself2" /\ UNCHANGED loading
    <3>1. LoadInv BY <2>3
    <3>2. LoadInv' BY <2>3, <3>1, LoadStill DEF loading
    <3> QED BY <3>2
  <2> QED BY <2>1, <2>2, <2>3 DEF ToolsNext, Unself, Unself2, WalkU, WalkV, all
<1>3. Good => UnselfLoads BY LoadInvShows DEF UnselfLoads
<1> QED BY <1>1, <1>2, <1>3, PTL DEF ToolsSpec
=================================================================================

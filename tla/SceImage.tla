------------------------------ MODULE SceImage -------------------------------
(***************************************************************************)
(* The image of an SCE container in memory, and the operations on it that  *)
(* writers and readers share.                                              *)
(*                                                                         *)
(* An image is a record:                                                   *)
(*   hdr   the plain SCE header up to the metadata info: one cell;         *)
(*   info  the metadata info (key, key_pad, iv, iv_pad): four blocks;      *)
(*   body  the rest of the header from meta_offset + 0x60 on, block by     *)
(*         block: metadata header (2 blocks), section infos (3 each), keys *)
(*         and hashes (1 each), the signature (3) and padding;             *)
(*   data  what follows the header, unit by unit.                          *)
(*                                                                         *)
(* A LAYOUT says what a writer put where: the sections (offset, size, sha  *)
(* index, key and iv index), the number of slots, the body blocks covered  *)
(* by the signature, the length of the body, the file size field and the   *)
(* number of units.                                                        *)
(***************************************************************************)
EXTENDS SceCrypto, Sequences, FiniteSets

NoSlot == -1                                                    \* 0xffffffff

Plain(u) == {<<"data", u>>}

\* pkg.c: two info files and the compressed content of z units that are r units
\* uncompressed (z > r when the content is incompressible).
PkgLayout(z, r) ==
    [ kind     |-> "pkg",
      sections |-> << [off |-> 0, len |-> 1, sha |-> 0,  key |-> NoSlot, iv |-> NoSlot],
                      [off |-> 1, len |-> 1, sha |-> 8,  key |-> NoSlot, iv |-> NoSlot],
                      [off |-> 2, len |-> z, sha |-> 16, key |-> 22,     iv |-> 23] >>,
      nslots   |-> 24,  sig |-> 35,  blocks |-> 38,
      fsize    |-> 2 + r,  units |-> 2 + z ]

\* spp.c: the profile's header in the clear and the rest encrypted.  Its key
\* and iv are slots 0 and 1, the ones the first section's digest is stored in.
SppLayout(c) ==
    [ kind     |-> "spp",
      sections |-> << [off |-> 0, len |-> 1,     sha |-> 0, key |-> NoSlot, iv |-> NoSlot],
                      [off |-> 1, len |-> c - 1, sha |-> 8, key |-> 0,      iv |-> 1] >>,
      nslots   |-> 16,  sig |-> 23,  blocks |-> 26,
      fsize    |-> c,  units |-> c ]

\* makeself.c without -c: one section per program header, at its place in the
\* ELF file, so that sections overlap when program headers do.
SelfLayout(phdrs, elf_size, tail) ==
    LET n == Len(phdrs) IN
    [ kind     |-> "self",
      sections |-> [i \in 1 .. n |->
                      [off |-> phdrs[i].off, len |-> phdrs[i].len, sha |-> 8 * (i - 1),
                       key |-> IF phdrs[i].load THEN 8 * (i - 1) + 6 ELSE NoSlot,
                       iv  |-> IF phdrs[i].load THEN 8 * (i - 1) + 7 ELSE NoSlot]],
      nslots   |-> 8 * n,  sig |-> 2 + 11 * n,  blocks |-> 2 + 11 * n + 3 + tail,
      fsize    |-> elf_size,  units |-> elf_size ]

Encrypted(s) == s.key # NoSlot /\ s.iv # NoSlot
Units(s)     == s.off .. s.off + s.len - 1

-----------------------------------------------------------------------------
\* Where a body's blocks are, for a container of n sections.
SecBlock(i, p)    == 2 + 3 * (i - 1) + p
SlotBlock(n, j)   == 2 + 3 * n + 1 + j
Slot(body, n, j)  == body[SlotBlock(n, j)]
HmacKey(body, n, j) == [p \in 1 .. 4 |-> Slot(body, n, j + 1 + p)]
Section(data, s)  == [p \in 1 .. s.len |-> data[s.off + p - 1]]

\* The plaintext header the build_* functions lay out.
PlainInfo == << {<<"key">>}, {}, {<<"iv">>}, {} >>

PlainBody(L) ==
    LET n == Len(L.sections) IN
    [b \in 1 .. L.blocks |->
        CASE b \in 1 .. 2 ->
                {<<"meta", [sig |-> L.sig, n |-> n], b>>}
          [] b \in 3 .. 2 + 3 * n ->
                {<<"sec", L.sections[((b - 3) \div 3) + 1], ((b - 3) % 3) + 1>>}
          [] b \in SlotBlock(n, 0) .. SlotBlock(n, L.nslots - 1) ->
                {<<"rand", b - SlotBlock(n, 0)>>}
          [] OTHER -> {}]

\* What a reader finds in the decrypted blocks.
HasMeta(body)    == \A p \in 1 .. 2 : \E t \in body[p] : body[p] = {t} /\ t[1] = "meta"
MetaOf(body)     == (CHOOSE t \in body[1] : TRUE)[2]
HasSec(body, i)  == \A p \in 1 .. 3 :
                       \E t \in body[SecBlock(i, p)] :
                          body[SecBlock(i, p)] = {t} /\ t[1] = "sec"
SecOf(body, i)   == (CHOOSE t \in body[SecBlock(i, 1)] : TRUE)[2]

-----------------------------------------------------------------------------
\* Mutant: the digest begins behind the plain header.
DigestWithoutHeader(img, sig) == <<img.info, [b \in 1 .. sig |-> img.body[b]]>>

\* sha1(ptr, sig_len): everything in front of the signature.
Digest(img, sig) == <<img.hdr, img.info, [b \in 1 .. sig |-> img.body[b]]>>

\* Mutant: the last unit is left out.
CryptSectionShort(img, n, s) ==
    IF Encrypted(s)
    THEN [img EXCEPT !.data =
            aes128ctr(Slot(img.body, n, s.key), Slot(img.body, n, s.iv), 0,
                      img.data, s.off, s.off + s.len - 2)]
    ELSE img

\* One round of sce_decrypt_data, which sce_encrypt_data is too.
CryptSection(img, n, s) ==
    IF Encrypted(s)
    THEN [img EXCEPT !.data =
            aes128ctr(Slot(img.body, n, s.key), Slot(img.body, n, s.iv), 0,
                      img.data, s.off, s.off + s.len - 1)]
    ELSE img

\* sce_encrypt_header: all blocks of the body under the key and iv in the
\* metadata info, then the info itself under the root key.
sce_encrypt_header(img, blocks, key, iv) ==
    [img EXCEPT !.body = aes128ctr(img.info[1], img.info[3], 0, img.body, 1, blocks),
                !.info = aes256cbc_enc(key, iv, img.info)]
=============================================================================

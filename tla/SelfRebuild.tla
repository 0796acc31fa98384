----------------------------- MODULE SelfRebuild -----------------------------
(***************************************************************************)
(* self_rebuilder: the deflated sections of an original SELF are replaced  *)
(* by segments of another ELF file, and the result is hashed, signed,      *)
(* encrypted, written, read again and verified.                            *)
(*                                                                         *)
(* The sections are replaced in the file as it is, without decrypting the  *)
(* data first: what is not replaced is hashed as ciphertext, and the step  *)
(* that encrypts takes its key stream off.                                 *)
(*                                                                         *)
(* The original is a compressed SELF, its sections in the order of the     *)
(* program headers, as makeself -c has them.  Sizes are in units; unit x   *)
(* of segment k of the original is <<"old", k, x>>, and <<"new", k, n, x>> *)
(* is unit x of the new one deflated to n units.                           *)
(***************************************************************************)
EXTENDS Integers, Sequences, FiniteSets

CONSTANTS
    Originals,     \* [size, phdr] with phdr of [at, off, len, load, zlen]
    Inputs,        \* sequences of [6 .. 9 -> Nat]: a segment's size at each level
    HeaderSize,    \* header_len
    Alignment,
    NoFile         \* the output before it is written

\* at is a section's offset, zlen its size when deflated.
Old == [at : Nat, off : Nat, len : Nat \ {0}, load : BOOLEAN, zlen : Nat \ {0}]
New == [6 .. 9 -> Nat \ {0}]

Section(s) == s.load /\ s.zlen < s.len
Size(s)    == IF Section(s) THEN s.zlen ELSE s.len

\* Sections lie behind the header and one behind the other.
OriginalsAssumption ==
    /\ Alignment \in Nat \ {0} /\ HeaderSize \in Nat
    /\ \A o \in Originals :
          /\ o.size \in Nat /\ o.phdr \in Seq(Old) /\ o.phdr # <<>>
          /\ \A k \in 1 .. Len(o.phdr) :
                /\ HeaderSize <= o.phdr[k].at /\ o.phdr[k].off + o.phdr[k].len <= o.size
                /\ \A l \in 1 .. k - 1 : o.phdr[l].at + Size(o.phdr[l]) <= o.phdr[k].at
    /\ Inputs \subseteq Seq(New)

ASSUME OriginalsAssumption

VARIABLES
    old, new,      \* the original's ELF file, and the new one's segments
    known,         \* whether a key of the directory opens the original
    self,          \* the data in memory: a function from offset to cell
    sizes,         \* sizes in the section headers
    msizes, hash,  \* sizes and digests in the metadata
    sig,           \* what the signature is over
    header,        \* the metadata: in plain, sealed, or still ciphertext
    compressed,    \* compressed_sections
    pc, i,
    level, size,   \* of write_sections
    out,           \* the file
    verdict        \* what the verification prints

vars == <<old, new, known, self, sizes, msizes, hash, sig, header, compressed,
          pc, i, level, size, out, verdict>>

file  == <<self, sizes, msizes, hash, sig, header>>
input == <<old, new, known>>

round_up(x, n) == x + ((-x) % n)

phnum    == Len(old.phdr)
Sections == 1 .. phnum
filesize == round_up(old.size, Alignment)

Deflated(k) == Section(old.phdr[k])
OldSize(k)  == Size(old.phdr[k])
offset(k)   == old.phdr[k].at

At(k, n) == offset(k) .. offset(k) + n - 1
Place(k) == At(k, OldSize(k))

\* A cell has contents and the key streams that are on it.
Cell(c, s) == [c |-> c, k |-> s]

\* sce_decrypt_data, which also encrypts, with the sizes of the metadata.
sce_decrypt_data(data) ==
    LET On(x) == {<<k, x - offset(k)>> : k \in {k \in Sections : old.phdr[k].load /\ x \in At(k, msizes[k])}}
    IN  [x \in DOMAIN data |->
            Cell(data[x].c, (data[x].k \ On(x)) \union (On(x) \ data[x].k))]

\* A digest stands for the cells it was taken over.
Hashed(k) == [x \in At(k, msizes[k]) \intersect DOMAIN self |-> self[x]]

\* verify_sign_hash leaves a section alone that ends behind the file.
Phony(k) == offset(k) + msizes[k] > filesize + HeaderSize

Signed == <<sizes, msizes, hash>>

Init ==
    /\ old \in Originals /\ new \in Inputs /\ known \in BOOLEAN
    /\ sizes = [k \in Sections |-> OldSize(k)] /\ msizes = sizes
    /\ self = [x \in HeaderSize .. offset(phnum) + OldSize(phnum) - 1 |->
                 LET on == {k \in Sections : x \in Place(k)}
                 IN  IF on = {} THEN Cell(<<"pad">>, {})
                     ELSE LET k == CHOOSE k \in on : TRUE
                          IN  Cell(<<"old", k, x - offset(k)>>,
                                   IF old.phdr[k].load THEN {<<k, x - offset(k)>>} ELSE {})]
    /\ hash = [k \in Sections |-> [x \in Place(k) |-> Cell(self[x].c, {})]]
    /\ sig = Signed
    /\ header = "sealed" /\ compressed = <<>>
    /\ pc = "decrypt_header" /\ i = 1 /\ level = 7 /\ size = 0
    /\ out = NoFile /\ verdict = "none"

-----------------------------------------------------------------------------
(* Reading the original. *)

\* decrypt_header; that no key opened the header is not looked at.
decrypt_header ==
    /\ pc = "decrypt_header"
    /\ header' = IF known THEN "plain" ELSE "junk"
    /\ pc' = "read_sections"
    /\ UNCHANGED <<input, self, sizes, msizes, hash, sig, compressed, i, level, size, out, verdict>>

\* read_sections goes through the sections in the order of their offsets and
\* notes the deflated ones, but stops at the first that ends where the ELF
\* file does.
AtEnd ==
    /\ compressed # <<>>
    /\ LET last == old.phdr[compressed[Len(compressed)].idx] IN last.off + last.len >= filesize

ReadSection ==
    /\ pc = "read_sections" /\ i <= phnum /\ ~AtEnd
    /\ compressed' = IF Deflated(i) THEN Append(compressed, [idx |-> i, size |-> OldSize(i)])
                     ELSE compressed
    /\ i' = i + 1
    /\ UNCHANGED <<input, file, pc, level, size, out, verdict>>

SectionsRead ==
    /\ pc = "read_sections" /\ (i > phnum \/ AtEnd)
    /\ pc' = "get_keys" /\ i' = 1
    /\ UNCHANGED <<input, file, compressed, level, size, out, verdict>>

\* get_keys: the key of the version's suffix may be missing, or have no private
\* key, public key or curve.
get_keys ==
    /\ pc = "get_keys"
    /\ pc' \in {"write_sections", "failed"}
    /\ UNCHANGED <<input, file, compressed, i, level, size, out, verdict>>

-----------------------------------------------------------------------------
(* write_sections. *)

Fail == /\ pc' = "failed"
        /\ UNCHANGED <<input, file, compressed, i, level, size, out, verdict>>

\* phdr[] is cleared memory behind the new file's last program header; nothing
\* deflates to one unit.
Levels(n) == IF n <= Len(new) THEN new[n] ELSE [l \in 6 .. 9 |-> 1]

\* The first try has a buffer of 16 MiB, which may be too small.
Compress ==
    /\ pc = "write_sections" /\ i <= Len(compressed)
    /\ \/ Fail
       \/ /\ size' = Levels(i)[6] /\ level' = 7
          /\ pc' = "retry"
          /\ UNCHANGED <<input, file, compressed, i, out, verdict>>

\* Mutant: one more try, and then it is taken as it is.
RetryOnce ==
    /\ pc = "retry" /\ size > compressed[i].size /\ level = 7
    /\ size' = Levels(i)[level] /\ level' = level + 1
    /\ pc' = "replace"
    /\ UNCHANGED <<input, file, compressed, i, out, verdict>>

\* While the section is too long: the next level, into a buffer of the length
\* of the last result.  compress2 refuses a result that does not fit, and level 10.
Retry ==
    /\ pc = "retry" /\ size > compressed[i].size
    /\ IF level > 9 \/ Levels(i)[level] > size THEN Fail
       ELSE /\ size' = Levels(i)[level] /\ level' = level + 1
            /\ UNCHANGED <<input, file, compressed, pc, i, out, verdict>>

Fits ==
    /\ pc = "retry" /\ size <= compressed[i].size
    /\ pc' = "replace"
    /\ UNCHANGED <<input, file, compressed, i, level, size, out, verdict>>

Put(n) ==
    LET at == offset(compressed[n].idx)
    IN  [x \in DOMAIN self |-> IF x \in at .. at + size - 1
                               THEN Cell(<<"new", n, size, x - at>>, {}) ELSE self[x]]

\* The new program header i goes to the place of the ith deflated section, but
\* change_section_size writes to the headers of section i.
Replace ==
    /\ pc = "replace"
    /\ self' = Put(i)
    /\ sizes' = [sizes EXCEPT ![i] = size]
    /\ msizes' = [msizes EXCEPT ![i] = size]
    /\ compressed' = [compressed EXCEPT ![i].size = size]
    /\ i' = i + 1 /\ pc' = "write_sections"
    /\ UNCHANGED <<input, hash, sig, header, level, size, out, verdict>>

AllWritten ==
    /\ pc = "write_sections" /\ i > Len(compressed)
    /\ pc' = "calculate_hashes"
    /\ UNCHANGED <<input, file, compressed, i, level, size, out, verdict>>

-----------------------------------------------------------------------------
(* Hashing, signing, encrypting and writing. *)

\* Mutant: only the sections that were deflated are hashed.
calculate_hashesLoadable ==
    /\ pc = "calculate_hashes" /\ header = "plain"
    /\ hash' = [k \in Sections |-> IF Phony(k) \/ ~Deflated(k) THEN hash[k] ELSE Hashed(k)]
    /\ pc' = "sign_header"
    /\ UNCHANGED <<input, self, sizes, msizes, sig, header, compressed, i, level, size, out, verdict>>

calculate_hashes ==
    /\ pc = "calculate_hashes" /\ header = "plain"
    /\ hash' = [k \in Sections |-> IF Phony(k) THEN hash[k] ELSE Hashed(k)]
    /\ pc' = "sign_header"
    /\ UNCHANGED <<input, self, sizes, msizes, sig, header, compressed, i, level, size, out, verdict>>

\* The number of sections and the length of the signed part are read from
\* ciphertext: the program leaves its memory, or goes on with what it finds.
Derail ==
    /\ pc = "calculate_hashes" /\ header = "junk"
    /\ pc' \in {"crashed", "sign_header"}
    /\ UNCHANGED <<input, file, compressed, i, level, size, out, verdict>>

sign_header ==
    /\ pc = "sign_header"
    /\ sig' = IF header = "plain" THEN Signed ELSE sig
    /\ pc' = "encrypt"
    /\ UNCHANGED <<input, self, sizes, msizes, hash, header, compressed, i, level, size, out, verdict>>

\* Mutant: what was not replaced is left as it was.
EncryptNew ==
    /\ pc = "encrypt"
    /\ self' = [x \in DOMAIN self |-> IF self[x].c[1] = "new" THEN sce_decrypt_data(self)[x] ELSE self[x]]
    /\ header' = IF header = "plain" THEN "sealed" ELSE header
    /\ pc' = "write"
    /\ UNCHANGED <<input, sizes, msizes, hash, sig, compressed, i, level, size, out, verdict>>

\* sce_decrypt_data, to encrypt, and sce_encrypt_header.
Encrypt ==
    /\ pc = "encrypt"
    /\ self' = IF header = "plain" THEN sce_decrypt_data(self) ELSE self
    /\ header' = IF header = "plain" THEN "sealed" ELSE header
    /\ pc' = "write"
    /\ UNCHANGED <<input, sizes, msizes, hash, sig, compressed, i, level, size, out, verdict>>

Write ==
    /\ pc = "write"
    /\ \/ out' = self /\ pc' = "decrypt"
       \/ out' = NoFile /\ pc' = "failed"
    /\ UNCHANGED <<input, file, compressed, i, level, size, verdict>>

-----------------------------------------------------------------------------
(* Reading the result again. *)

\* Mutant: here too, the header is not looked at.
decryptAnyway ==
    /\ pc = "decrypt"
    /\ header' = "plain" /\ self' = sce_decrypt_data(self) /\ pc' = "verify"
    /\ UNCHANGED <<input, sizes, msizes, hash, sig, compressed, i, level, size, out, verdict>>

\* Without a list of keys the program would go on; but then there is no key
\* directory, and get_keys has failed.
decrypt ==
    /\ pc = "decrypt"
    /\ IF header = "sealed"
       THEN header' = "plain" /\ self' = sce_decrypt_data(self) /\ pc' = "verify"
       ELSE pc' = "failed" /\ UNCHANGED <<header, self>>
    /\ UNCHANGED <<input, sizes, msizes, hash, sig, compressed, i, level, size, out, verdict>>

\* verify_signature and verify_hashes.
Verify ==
    /\ pc = "verify"
    /\ verdict' = IF sig = Signed /\ \A k \in Sections : Phony(k) \/ hash[k] = Hashed(k)
                  THEN "ok" ELSE "fail"
    /\ pc' = "finished"
    /\ UNCHANGED <<input, file, compressed, i, level, size, out>>

Next == \/ decrypt_header \/ ReadSection \/ SectionsRead \/ get_keys \/ Compress \/ Retry \/ Fits
        \/ Replace \/ AllWritten \/ calculate_hashes \/ Derail \/ sign_header
        \/ Encrypt \/ Write \/ decrypt \/ Verify

Spec == Init /\ [][Next]_vars

-----------------------------------------------------------------------------
(* Properties. *)

\* Types and bounds.
TypeOK ==
    /\ pc \in {"decrypt_header", "read_sections", "get_keys", "write_sections", "retry", "replace",
               "calculate_hashes", "sign_header", "encrypt", "write", "decrypt", "verify",
               "finished", "failed", "crashed"}
    /\ i \in 1 .. phnum + 1 /\ level \in 7 .. 10
    /\ Len(compressed) <= phnum
    /\ \A k \in Sections : msizes[k] = sizes[k] /\ sizes[k] > 0
    /\ header \in {"plain", "sealed", "junk"}
    /\ verdict \in {"none", "ok", "fail"}

\* A new section never leaves the place of the one it replaces: whatever lies
\* between the deflated sections, the padding included, is the original's.
StaysInPlace ==
    \A x \in DOMAIN self :
        self[x].c[1] = "new" =>
            \E n \in 1 .. Len(compressed) : /\ x \in Place(compressed[n].idx)
                                            /\ self[x].c[2] = n

\* A reader that decrypts the result finds the new program header k deflated
\* in section k.
ComesOut(k) ==
    /\ Deflated(k)
    /\ \A x \in At(k, sizes[k]) : self[x] = Cell(<<"new", k, sizes[k], x - offset(k)>>, {})

\* The new ELF file's segments come out exactly as far as the original's are all
\* deflated from the first on, and none before ends at the end of the ELF file:
\* behind the first that is not, contents and headers no longer fit together.
Leading(k) ==
    \A l \in 1 .. k : Deflated(l) /\ (l < k => old.phdr[l].off + old.phdr[l].len < filesize)

NewComesOut == pc = "finished" => \A k \in Sections : ComesOut(k) <=> Leading(k)

\* Where contents and headers do fit together, a section that is not replaced
\* comes out as the original's when it is not encrypted.  When it is, the output
\* file has it in clear, and its reader gets it with the key stream on.
Fitting == \A n \in 1 .. Len(compressed) : compressed[n].idx = n

RawTurnedOver ==
    pc = "finished" /\ Fitting =>
        \A k \in Len(compressed) + 1 .. phnum : \A x \in Place(k) :
            /\ self[x].c = <<"old", k, x - offset(k)>>
            /\ out[x].k = {}
            /\ self[x].k = {} <=> ~old.phdr[k].load

\* What a reader of the finished file gets, of replaced and of kept sections.
ReaderGets == NewComesOut /\ RawTurnedOver

\* The verification at the end says OK of every file it is run on, also of those
\* whose sections are not what their headers say: digests and signature are
\* taken over what it sees again.
AlwaysVerifies == pc = "finished" => verdict = "ok"

\* Although the first attempt to open the header is not looked at, the program
\* does not finish when it failed.
UnknownNeverFinishes == ~known => pc \notin {"verify", "finished"}
===============================================================================

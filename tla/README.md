# ps3tools: models, checks and proofs

This directory holds TLA+ models of the PS3 container tools in `src/`: the programs that
make containers (`pkg`, `spp`, `makeself`, ...), the programs that open them (`unpkg`,
`unspp`, `unself`, `sceverify`, ...) and the library they share (`tools.c`).  Each tool is
a short sequential C program, and the interesting behaviour is between them: one program
leaves a file, something may happen to it, and another program with other keys and other
assumptions about offsets opens it.  The models follow that chain.

`PROJECT.json` maps every definition to the lines it stands for and lists the runs, the
mutants, the hazards and the theorems.  `tlc -config X.cfg M` repeats a run, `tlapm M.tla`
a proof.

## 1. Inventory

### 1.1 Components that carry the program's own logic

| component | state | operations | correct when |
|---|---|---|---|
| ciphers and digests of `tools.c` | the caller's iv, advanced in place by `aes128ctr` | `aes256cbc(_enc)`, `aes128ctr`, `sha1_hmac`, `ecdsa_*` | decryption inverts encryption when the calls come in the same chunks |
| SCE images, `tools.c` 957-1067 | header and data in memory | `sce_encrypt_header/data`, `sce_decrypt_header/data` | a key that does not fit changes nothing; the right one gives back every block |
| writers: `pkg.c`, `spp.c`, `makeself.c` | image, loop counter, output file | build, hash, sign, encrypt, write | what is complete on disk verifies; secrets are never in clear; an old file is not lost for nothing |
| readers: `unpkg.c`, `unspp.c`, `unself.c`, `sceverify.c` | private mapping, key list, output files, report | map, read header, try keys, decrypt, extract or verify | contents come back; a verdict says exactly what the damage is |
| compressed SELFs: `makeself.c` 343-427, `unself.c` 66-303 | section map, `self_sections[255]`, u32 offsets | `compress_elf`, `read_sections`, `write_elf`, `check_elf` | sections are disjoint, the loop ends, the table does not overflow, segments come back |
| key store, `tools.c` 481-766 | key directory, `struct keylist` | `key_read`, `keys_get`, `key_get`, `key_get_simple` | a list entry is what one set of files says |
| NPDRM, `tools.c` 768-955, `self.c` 154-183 and 432-521 | rif, act.dat, control blocks | `sce_remove_npdrm`, `remove_npdrm` | the walks end, and in the same way; one layer is removed once |
| COS packages: `cospkg.c`, `cosunpkg.c`, `cosunpack.c` | table of files, 0x6fffe0-byte area | read directory, lay out, write; unpack | files do not overlap, and come back |
| update packages: `puppack.c`, `pupunpack.c` | tables of files and hashes | pack, hash, unpack | a file verifies when untouched |
| NOR dumps: `norunpack.c` | frames of the recursion, the working directory | `do_toc`, `new_dir` | each table is unpacked into its own directory |
| `dat.c`, `undat.c` | one file | encrypt with digest; decrypt and compare | the text comes out, or nothing |
| gpkg: `ungpkg.c` | the mapping, a counter, the target directory | decrypt (retail, debug), unpack | every byte is decrypted once, the tree is the table's |
| second SELF library: `self.c`, `unself2.c`, `readself2.c` | parsed SELF, array of keys and ivs, list of sections | read, decrypt, inflate, write | the units of the ELF file come back |
| `self_rebuilder.c` | original SELF in memory, table of deflated sections | read, replace, hash, sign, encrypt, verify | new data stay in their places; the result verifies |
| `bn.c`, `ec.c` | curve and keys in static variables | Montgomery arithmetic, points, `ecdsa_*` | equal to the textbook's |
| `sha1.c` | context | `SHA1Reset`, `SHA1Input`, `SHA1Result` | equal to the standard's however the input is cut |

### 1.2 Components without interaction, or not this program's own

`aes.c` (third-party cipher), `readself.c`, `sfo.c`, `sfo_sfx_converter.c`, `QGL.c`,
`eidsplitr.c`, `hip2his.c`, `syscon*.c` (single-pass parsers and printers), `scekrit.c`
(algebra over GMP numbers, kept out of scope), `mingw_mmap.*`, headers, `Makefile`, shell
wrappers.  They are listed in `PROJECT.json` as not modelled, with the reason.

### 1.3 How the components interact

* A *file* is the only channel between a writer and a reader.  Nothing locks it; an
  interrupt, a full disk or a damaged medium may come in between.
* The *key directory* is shared by all tools.  Readers take every key of a kind, in
  directory order, and try them; writers name one.
* The *metadata* of a container is the only place where a section's key, iv, digest and
  HMAC key are found: slots of one array, addressed by indexes in the section table.
  `spp` uses slots 0 and 1 both as the key and iv of its second section and as the place
  of the first section's digest.
* The *iv* of `aes128ctr` is advanced in the caller's memory.  The two calls of
  `sce_decrypt_header` depend on that.
* The *offsets* of a compressed SELF are computed twice: by `compress_elf`, aligned, and by
  `read_sections`, from what it can see in the SELF.
* There are two readers of SELFs, `unself` on `tools.c` and `unself2` on `self.c`, with two
  walks over the control blocks, two ways of finding sections and two ideas of a debug file.
* `self_rebuilder` changes a file in place that another publisher made, by index: of the
  deflated sections, of the section headers and of the new program headers.

### 1.4 What is hard here

There are no threads, no messages and no timeouts.  What is hard is order (hash, sign,
encrypt, encrypt header), partial failure (short writes, interrupts, missing inputs, keys
after the output is truncated), damage between writer and reader, trial decryption with
wrong keys, overlapping sections, arithmetic over offsets that come from two programs and
over numbers near their width, state that one call leaves to the next (an iv, a working
directory, a context), and recursion and loops whose steps are read from a file.
`PROJECT.json` lists each hazard at its line, with the properties that are about it or the reason why there is none.

## 2. Modules

| module | models | builds on |
|---|---|---|
| `SceCrypto` | CBC, CTR, HMAC, ECDSA of `tools.c`/`ec.c` as algebra on symbolic cells | |
| `SceImage` | a container in memory, the layouts `pkg`, `spp`, `makeself` choose, `sce_encrypt_header`, `sce_decrypt_data` | `SceCrypto` |
| `SceContainer` | the layouts, the keys and the file that writer and reader share, and what holds of every layout | `SceImage` |
| `SceWriter` | `main` of `pkg.c`, `spp.c`, `makeself.c` | `SceContainer` |
| `SceReader` | `main` of `unpkg.c`, `unspp.c`, `unself.c`, `sceverify.c` and `sce_decrypt_header` | `SceContainer` |
| `SealedBox` | the abstract promise of a container | |
| `SceSystem` | writer, damaged storage, reader; refinement of `SealedBox` | `SceWriter`, `SceReader`; `SealedBox` by INSTANCE |
| `SelfSections` | `makeself -c` and the reconstruction of the ELF file by `unself` | |
| `KeyStore` | `keys_get`, `key_get`, `key_read` on one directory | |
| `CosPackage` | `cospkg.c`, `cosunpkg.c`, `cosunpack.c` | |
| `Pup` | `puppack.c`, `pupunpack.c` | |
| `PackageTools` | `cospkg` with `cosunpkg`, and `puppack` with `pupunpack`, side by side | `CosPackage`; `Pup` by INSTANCE |
| `Npdrm` | the NPDRM layer in `unself` and in `unself2`, side by side | |
| `SelfLoad` | `self_load_sections` and `unself2.c` on what `makeself` leaves | |
| `UnselfTools` | `unself`, the loading of `unself2`, and the two NPDRM walks side by side | `SelfSections`; `SelfLoad`, `Npdrm` by INSTANCE |
| `SelfRebuild` | `self_rebuilder.c` | |
| `DatFile` | `dat.c`, `undat.c` | |
| `Gpkg` | `ungpkg.c` | |
| `KeyedTools` | `ungpkg`, and `undat` behind `dat`, side by side | `Gpkg`; `DatFile` by INSTANCE |
| `Nor` | `norunpack.c` | |
| `Bn` | `bn.c` as operators on numbers of digits | |
| `MonMul` | the loop of `bn_mon_mul` | `Bn` |
| `EcText` | elliptic curves and ECDSA as in a textbook | |
| `Ec` | `ec.c` and the callers' order of calls | `Bn`, `EcText` |
| `Sha1` | `sha1.c`, `sha1`, `sha1_hmac` | |
| `Arithmetic` | signatures, products and digests side by side | `Ec`; `MonMul`, `Sha1` by INSTANCE |
| `SceSystemProofs`, `SelfSectionsProofs`, `KeyStoreProofs`, `CosPackageProofs`, `ArithmeticProofs`, `GpkgProofs`, `NorProofs`, `SelfRebuildProofs` | theorems about the modules they are named after; `GpkgProofs` about `KeyedTools`, that is `Gpkg` and `DatFile`; `CosPackageProofs` about `PackageTools`, that is `CosPackage` and `Pup`; `ArithmeticProofs` about `Arithmetic`, that is `Ec`, `MonMul` and `Sha1`; `SelfSectionsProofs` also about `Npdrm` and `SelfLoad` in `UnselfTools` | |
| `MC*` | constants for TLC | |

### 2.1 Cells, units and terms

A container's header is modelled block by block (16 bytes, the block of AES), its data unit
by unit.  The content of a block is a *set of terms* whose exclusive or it is: CTR adds a
keystream term, the same term added twice disappears, and a block of zeros is the empty
set.  This is enough to say exactly what overlapping keystreams, a wrong counter or a wrong
key do.  A term is equal to another one only if it was made in the same way: there are no
collisions, and a signature or digest is only ever made with its key.  `CtrNext` is the
place where the caller's iv is advanced.

In `SelfSections` a unit is half of `ALIGNMENT`; in `CosPackage` it is 0x10 bytes, half of
the alignment there; in `Pup` a cell is one table entry or one unit of a file.

### 2.2 SceWriter

`wpc` names the call `main` makes next and `After` the order of calls: `pkg` and `spp` open
(and truncate) the output before they look for a key, `makeself` when the image is
finished.  `Open`, `GetKey`, `ReadInput` have the failures of the code: no output, no such
directory (`pkg`), a key without `ctype`, `pub` or `priv`, a missing input.  `Hash` and
`EncryptSection` are one round each of `calculate_hashes` and `sce_encrypt_data`; the loop
ends are `Sign` and `EncryptHeader`.  `Write` may be torn: `pkg` and `spp` look at neither
`fwrite` nor `fclose`, `makeself` at `fwrite` only.  `Kill` is an interrupt at any point.

### 2.3 SceReader and SceSystem

`MapFile` maps the file privately (`rimg`); `TryKey` is a round of the loop in
`sce_decrypt_header`, `DecryptMeta` and `DecryptBody` the two calls of `aes128ctr` after it;
`DecryptSection` a round of `sce_decrypt_data`; `Extract` writes contents out;
`NeedPublicKey`, `VerifySignature` and `VerifyHash` are `sceverify`.  A header block that
does not hold what a writer put there sends the program to offsets nobody chose: `Derail`
ends such a run as `derailed`, of which nothing further is assumed or reported.  So does a
file that ends too early; on one whose header is whole, `sceverify` may print its verdict on
the signature before it reads past the end, and the model leaves that report out.

`SceSystem` runs a writer, then damages up to `MaxHits` blocks (header, metadata info, body,
data), then runs a reader.  `SealedBox` is what this should look like from outside: a box
that is absent, old, torn or sealed, marks on it, and a reply the marks permit.
`SystemIsSealedBox` maps the system to it.

### 2.4 SelfSections

`CompressElf` is a round of `compress_elf`; `Write` builds the image, with the buffer of
`header_size + elf_size` bytes (a run that copies past it ends as `overrun`) and the bytes
`fwrite` takes from behind it (`Junk`).  `TailPiece`, `SectionPiece`, `GapPiece` are the
three branches of the loop in `read_sections`, with `elf_offset`, `self_offset` and `size`
cut to 32 bits (`Word`).  `WritePiece` and `CheckElf` are `write_elf` and `check_elf`.

### 2.5 KeyStore

A file name is the sequence of its fields between dashes; a file is whole or short.
`ReadName` is a round of the `readdir` loop for a name that matches, in any order; `bfr` is
the curve type on the stack, which is kept when the ctype file cannot be read.  `KeyGet` is
`key_get`.  Both look at one directory, which does not change meanwhile.

### 2.6 CosPackage

`ReadDir` is a round of `get_files` in any order of `readdir`, with its four refusals;
`BuildHdr` the size check; `WriteHdr`, `WriteFile`, `WriteEnd` are `write_pkg`.  `Stop` loses
any end of what was written.  `Unpack` is a round of `unpack_pkg` and of `do_toc`, which
read the table the same way.  An entry, or a file, behind the end of the mapping ends the
run as `undefined`, an output that cannot be opened as `crashed`.

### 2.7 Pup

`FindFile` is a round of `find_files` over `t_names`; a file for which `files[]` has no room
ends the run as `overrun`.  `Header` is `build_header`: the digests of the files, and last
the digest of the tables.  `Damage` gives any field of any cell another value.  `VerifyHdr`
and `DoSection` are `do_pup` and `do_section`; whatever the verdict, the file is written.

### 2.8 Npdrm

The area of control blocks is a sequence of headers, one for each offset; a header says how
far it is to the next.  `UWalk` is a round of `sce_remove_npdrm`; `VRead` a round of
`self_read_headers`, which reads the same area into a list with an offset of 32 bits (`Word`)
and until memory is full, and `VWalk` a round of `remove_npdrm` over that list.  The metadata
is the list of layers it is under; a decryption that does not fit puts another one on.
`klicensee` and `Licence` say which licence files are looked for and what a missing or a
foreign one does.  The two programs run at the same time, on the same file.

### 2.9 SelfLoad

The SELF is what `makeself` leaves, with or without `-c`, with its key streams as sets of
positions.  `Section0`, `SegmentSection`, `ShdrSection`, `UnknownSection` are the branches of
`self_load_sections`; `ivs` is how far `aes128ctr` has counted each iv up in the array `keys`;
`WriteSection` is a round of `unself2`'s loop.  A section of unknown type may end the run as
`crashed`: its size is not initialised.

### 2.10 SelfRebuild

`self` is the data in memory, cell by cell, each with the key streams that are on it: the
program never decrypts the data, so that what it does not replace is hashed as ciphertext and
loses its key stream in `Encrypt`.  `Retry` is a round of the loop over compression levels,
`Replace` what follows it, with the index `i` for all three tables.  `decrypt` and `Verify`
are what the program does with the file it has just written.  Digests and signatures stand
for what they were taken over.

### 2.11 DatFile, Gpkg, Nor

In `DatFile` a block is a set of terms, as in section 2.1; `Damage`, `Swap`, `Grow` and `Cut`
are storage's, and `Runaway` is `aes128cbc` on a length that is no multiple of a block.  In
`Gpkg` a byte of the mapping is the position of the key stream that is still on it;
`decrypt_debug_pkg` and `aes128ctr` are one byte each, and `MakeDir`, `WriteFile`,
`NameTooLong`, `UnknownFlags` one entry of the table.  In `Nor` `stack` holds `do_toc`'s
frames and `cwd` the process's directory; `Overrun` is a table at an address where there is
none, or a recursion that leaves the C stack.

### 2.12 Bn, MonMul, Ec, Sha1, Arithmetic

`Bn` has the operators of `bn.c` over digits of any number of bits (`Base` is two to the
`Bits`) and arrays of any width (`Pow(Base, n)`), with carries cut off where the code cuts them off; `bn_mon_muladd_dig` is one turn of `bn_mon_mul`'s loop and `MonMul` the loop.
`Ec` uses them for everything `ec.c` does; its state are the static variables, the caller's
`R` and `S`, and what they were made from, for the properties.  `mulN`, `toN`, `fromN` are
Montgomery arithmetic modulo the order.  In `Sha1` an octet is a symbol, except those of
padding and bit count; the digest is the list of blocks that were processed, so that two
digests are equal exactly when the blocks are.

`Arithmetic` has the three side by side, each with its own variables and one of them moving,
as `program` says: they share no state in the code either.

## 3. Runs

Four of the runs check more than one component.  Their module, `KeyedTools`, `UnselfTools`,
`PackageTools` or `Arithmetic`, has a variable `program`, chosen at the start, that says which program the behaviour is about; the others stay where they are, so that the run is the union of the components' own state spaces and nothing is interleaved
that is not interleaved in reality.  The first component is taken with EXTENDS, the others
with INSTANCE and variables of their own.  The names in brackets are the properties of the
run; where a component has several that are one question - what comes back from a SELF - the
module joins them under one name, and the properties of an instanced component appear in the
composite module guarded by `program`, together with its type invariant.  Of the type
invariants that are proved, the runs repeat only those of `sce_damage`, `self_sections` and
`cos_package`, the others are left to the theorem.

| run | question | bounds |
|---|---|---|
| `sce_writer` (`SignedOnDisk`, `TruncateLate`) | is what a writer leaves complete always signed and accepted; is an old file given up for nothing | seven layouts: both kinds of packages, a profile of one and of three units, SELFs with overlapping sections, with an empty one, with none; two keys of which one can sign |
| `sce_damage` (`TypeOK`, `ContentsIntact`, `RightKeyOnly`, `Verdicts`, `NothingInClear`, `TrialLeavesImage`, `Delivered`, `SystemIsSealedBox`) | contents, verdicts, key choice, secrecy under damage; does an intact file always come through; is every run one of `SealedBox` | four layouts, two keys, key lists `<<>>`, wrong, right, wrong then right; two damaged places |
| `self_sections`: `SelfSections` (`TypeOK`, `SectionsDisjoint`, `PiecesBounded`, `SegmentsBack`, `UnselfTerminates`) | are sections disjoint, does `unself`'s loop end, what comes back | one to three segments, offsets {0, 2, 3, 7}, lengths {0, 2, 4}, deflatable, incompressible, not loadable; files of 11 and 12 units, with and without section headers |
| `self_sections`: `SelfLoad` (`UnselfLoads`: deflated and raw segments, headers, section headers) | what does `unself2` get back of what `makeself` made | three segments of five spans that touch, overlap, leave gaps and come out of order; loadable or not, deflatable or not; own or shared ivs; one section more of a known or unknown type |
| `self_sections`: `Npdrm` (`NpdrmWalks`, `NpdrmEnds`) | do both walks end, in the same way, and only by the right licence | areas of up to two blocks of types 1 and 3, steps 0, 1, 2 and 7, licence types 1, 2, 3 and an unknown one; missing, right and foreign licence files; a word of 8, memory for four blocks |
| `key_store` (`Agreement`, `OneKeyPerEntry`) | does a reader find what a writer signs with; is an entry ever mixed | each of five files of one key whole, short or missing, beside a whole or broken second key and stray names |
| `cos_package`: `CosPackage` (`TypeOK`, `FilesDisjoint`, `Unpacks`) | do files overlap, come back, survive a torn package | sizes 0 to 4, three files of which two are cut to one name, one file too many, an area of 14 units that some directories fill exactly and some exceed |
| `cos_package`: `Pup` (`PupVerdicts`, `IntactComesOut`) | are the verdicts exact | up to three files of sizes 0 to 2 (and one more than the table holds), right, wrong and missing keys, two damaged cells |
| `self_rebuild` (`StaysInPlace`, `ReaderGets`, `AlwaysVerifies`, `UnknownNeverFinishes`) | does new data stay in its place, what does a reader get, does the program's own verification say OK | originals of one to three segments, new files of one or three whose sizes at the four levels fit at once, later or never |
| `gpkg`: `Gpkg` (`InClear`, `TreeIsTable`, `PackageComesOut`) | is every byte decrypted once; is the target at every step what the entries passed so far make of it, and nothing else; does a well-formed package come out | blocks of two bytes, sizes 0 to 9 around a counter of eight, tables of three entries with names inside one another, in any order; a target that can be entered or not |
| `gpkg`: `DatFile` (`OnlyTheText`, `Accepted`) | does `undat` write the text or nothing | texts of 0, 1, 3, 4, 5 and 8 bytes over blocks of 4, right, wrong and missing keys; one fault: a damaged, exchanged or added block, or the file cut at any byte |
| `nor` (`CwdIsStack`, `ExactTree`, `WholeComesOut`) | is every file in its table's directory; does the recursion come to its end | three tables that refer to each other, to themselves and to nothing; a stack of three frames |
| `arithmetic`: `MonMul` (`Product`) | is `bn_mon_mul` multiplication modulo N | digits of two bits, odd moduli of one, two and three digits around the ends of each number of digits, every pair of factors of three; and, as an assumption TLC evaluates, the inverse of every odd byte, which is the table `inv256` |
| `arithmetic`: `Ec` (`EcdsaIsTextbook`) | does `ec.c` give the textbook's verdicts | two curves over the field of 13 elements, of orders 11 and 17, digits of two bits, two of them for a coordinate; digests, keys and nonces below and above the order |
| `arithmetic`: `Sha1` (`Sha1IsStandard`) | is the padding the standard's at every length | blocks of sixteen octets, eight of them the count; inputs of 0 to 17 octets, up to 36 in all, which is over the capacity of the count |
| `unaligned_phdr`, `cos_size`, `dat_short` | statements of the repository that the code does not keep (section 6) | those of the module |

The bounds are small, and enough for what the properties are about.  Two keys give a wrong
key before and after the right one.  Three sections are the most a package has; overlap is a
relation between two.  Two damaged places are enough for damage that might cancel out, or
hit a digest and what it covers.  Three segments give every order of deflated and raw ones
around another; the offsets make them touch, overlap, leave gaps and come out of order.  One
alignment unit is two units, so both an aligned and an unaligned end occur.  Two control
blocks are enough for an NPDRM block before and behind another one, and a block of size 0 or
7 for a walk that stands still or wraps.  The curves are small enough that points meet their
own double, their inverse and infinity, which they do not on a 160-bit curve.  What the runs
show for these sizes the theorems of section 5 show for all where they exist.

`CHECK_DEADLOCK FALSE` is set everywhere: every program here ends.

## 4. Fairness and liveness

A program runs until it stops: weak fairness of a writer's `Step`, of `Read` in `SceSystem`,
of `Next` in `SelfSections`, `SelfLoad`, `Gpkg` and `Nor`, of each of the two programs in
`Npdrm` (`UNext`, `VNext`), and of `undat`'s steps in `DatFile`.  It is what an operating
system gives a single process that waits for nothing.  Interrupts, damage and torn writes
have no fairness: they may happen or not, and nobody has to run `dat`.  In the composite
modules the same actions are fair, each under its `program`.

Under this the following are checked: `Delivered` (a complete, undamaged file comes through,
wherever in the list the key is), the liveness part of `SystemIsSealedBox` (there is always a
reply; the safety part is a theorem as well), `UnselfTerminates` (unself's loop ends), `NpdrmEnds` (the NPDRM walks end where
the block sizes let them, and a well-formed file opens), `Accepted` (an
index.dat that was left alone is accepted), `PackageComesOut` (a well-formed gpkg is
unpacked) and `WholeComesOut` (a well-formed dump is).  `SelfRebuild`, `CosPackage`, `Pup`,
`KeyStore`, `MonMul`, `Ec` and `Sha1` state safety only; their loops run over finite tables.

## 5. Theorems

| theorem | says, for all values of the constants |
|---|---|
| `SceSystemProofs!WriterTypes`, `CompleteFilesVerify`, `OldFileKept` | of a writer: types; a complete file verifies with its key; makeself replaces an old file only by a finished image |
| `SceSystemProofs!SystemTypes`, `OnlyTheWritersKey`, `VerdictsAreRight`, `ContentsComeOut`, `TrialsLeaveImage`, `SecretsStayMasked` | of writer, storage and reader, for any damage: types; a reader goes on only with the writer's key and an undamaged metadata info; `sceverify` reports exactly the damage; what is written out is what was put in, except where it was struck; a wrong key leaves the mapping as it was; nothing confidential is in the file in clear |
| `SceSystemProofs!SystemKeepsTheBox` | every step of the system is a step of `SealedBox` or none |
| `SelfSectionsProofs!TypeCorrect`, `SectionsNeverOverlap`, `PieceTableBound`, `SegmentsComeBack`, `WalksAgreeAlways`, `UnselfLoadsAll` | u32 offsets stay in range; sections are aligned and disjoint; at most two pieces for each segment and one more; which segments come back from a SELF whose segments are in order; both NPDRM walks end alike, whatever the control blocks say, and only a file's own licence opens it; what `unself2` gets back of a SELF, with own or shared ivs, whatever its segments overlap |
| `KeyStoreProofs!TypeCorrect`, `WritersKeyIsFound`, `EntriesAreNotMixed` | one entry for each name; a reader finds what a writer signs with; entries are of one key |
| `CosPackageProofs!TypeCorrect`, `FilesNeverOverlap`, `UnpacksRight` | the tables are never left; files lie disjoint inside the area; what comes out of a whole package and of a torn one |
| `CosPackageProofs!PupVerdictsRight`, `IntactPackageComesOut` | of an update package, whatever is damaged or cut off: OK for the tables makes every verdict exact, OK for everything means the package and the directory of `puppack`; a whole one is never left, comes out, and gets the verdict of the reader's key |
| `SelfRebuildProofs!TypeCorrect`, `NeverOutside`, `VerdictIsOk`, `UnknownFails`, `ReaderGetsThem` | sizes in the section headers and in the metadata never part; nothing is written outside the places of sections; the program's own verification says OK whenever it runs; it never runs without a key; which sections a reader gets in their new form, and which ones turned over |
| `GpkgProofs!TypeCorrect`, `DecryptedOnce`, `TreeComesOut`, `OnlyTheTextComesOut` | the mapping keeps its extent and its header, no byte of the data ever carries another one's key stream, and only a retail package of 4 GiB or more drives `aes128ctr` out of the mapping; each byte has lost its own byte of the key stream before the table is read; at every step of `unpack_pkg`, and wherever it stops, the target holds what the entries passed so far make of it and nothing else; of an index.dat, whatever its fault, `undat` writes the text that `dat` was given or nothing |
| `NorProofs!TypeCorrect`, `DirectoryFollowsTable`, `TreeIsExact` | frames stay inside their tables; the process is in the directory of the table it reads, at every depth; the files written are those of the tables, each on its way |
| `ArithmeticProofs!ProductCorrect` | the array never needs more digits; products with a reduced factor are reduced; the array is the product modulo N at every turn |
| `ArithmeticProofs!HashCorrect` | however a message is cut and whatever its length, its digest and HMAC are the standard's; a context that took too much, or took input after its result, says so |
| `ArithmeticProofs!EcdsaCorrect` | on any order of calls and for any curve: `ecdsa_verify` gives the textbook's verdict, accepts what `ecdsa_sign` made under the matching key, and leaves the signature as it was |

*Writer, storage and reader.*  The invariant is `SInv == WInv /\ HInv /\ RInv`, one part for
each of the three.  `WInv` says what the image is at each `wpc`: the plain header with the
digests so far while digests are stored, a signed plain header with the sections so far while
sections are encrypted (which touches `data` only), and `Sealed(lay, key)` from
`EncryptHeader` on; the file is never anything else.  `HInv` says that storage has struck
only places of the container, and that the file is `Damaged(lay, key, hits)`, the sealed
image with exactly these places flipped.  `RInv` says of each `rpc` what the reader has in
memory as a function of layout, key and hits (`RImage`: the sealed image with header, metadata
info, body and the sections so far decrypted), which keys did not fit (`RKeys`), which headers
it has found in order (`RInfos`), what it has written and reported (`ROut`), and that it
`derailed` only on a torn file or where the signature tells.  All of it is needed at once: a verdict is about the
memory, the memory is what decryption makes of a damaged file, and what decryption makes of
it depends on the key that trial decryption let through.  The lemmas underneath are that
`aes256cbc` inverts `aes256cbc_enc`, that `aes128ctr` is its own inverse when the counter
goes on where it left off, and that a flipped cell stays flipped under both, so that a digest
fits if and only if neither it nor its key nor what it covers is struck.  The step part of the
refinement follows from `SInv` before and after the step and from the same facts about
replies.  Assumed: `LayoutsAssumption` (every layout is `WellFormed`: infos and slots lie in
front of the signature, digests and keys share no slots, sections lie inside the file),
`KeysAssumption`, `KeyListsAssumption` and `HitsAssumption`.

*SelfSections.*  The invariant is `MapInv /\ PieceInv`.  `MapInv` adds to disjointness that
`offset` is aligned and behind every section so far; `PieceInv` counts pieces against the
loop counter, with one more allowed between a gap and the section behind it.  Assumed:
`SizesAssumption`, and `ElfsAssumption`: segments end inside the file, there is at least
one, and the file with its header is shorter than 4 GiB.

For `SegmentsBack` the invariant is `BInv`.  `Shapes` says that the table tells of each segment
how it was stored, `Stored` that the SELF holds the cells of the raw segments at their
offsets and no cell of the ELF file anywhere else.  When the deflated segments are in order,
so are the pieces (`InOrder`).  The loop's own invariant, `Underway`, knows two situations: the
loop is where the last deflated section ended, or it is settled in front of the next one,
behind a gap; and each raw segment that was passed lies in a piece that starts where the
last deflated one ended, in the ELF file as in the SELF, so that it comes back exactly when it is as far from
there in the one as in the other.
`Complete` and `Written` carry this on to the file: a piece once written is not
written over.  The header `check_elf` makes up touches only the program headers' place, and
what it adds goes behind everything.  What the invariant cannot have is order of the segments
for nothing: with segments out of order pieces go astray, and `SegmentsBack` says so.

*Npdrm* is in `SelfSectionsProofs` as the instance `Layer` of `UnselfTools`.  A way (`Leads`)
goes from the first control block from one to the next and over none with a licence; two ways that
stop, stop at the same offset (`OneStop`), so what a walk makes of the metadata is a
function of the file (`Result`).  `UInv` says that unself's offset is on such a way.  `VInv` adds
the list: its entries are the blocks at offsets of 32 bits, and while the list is walked
the offset of 64 bits is that of the entry, or behind the area - where the 32-bit one
wraps, the 64-bit one is past `Word`, which is past the area, or the list would not have
ended (`WalkNext`).  Assumed: `NpdrmAssumption`, fields that are numbers and the four seals.

*SelfLoad* is there as the instance `Library`.  `LoadInv` says what each section loaded is, as a
function of the SELF (`LoadedFrom`): of a deflated segment the segment, of any other the
cells at its place, less a key stream if it is encrypted, which starts at 0 if no section
before took one from the same iv (`IvsAfter`: an iv nobody has used has not been counted
up).  In the write loop each unit of the output is that of the last section over it
(`IsWritten`).  The rest is about places: `phdr_map` puts the sections of a compressed SELF behind one
another (`PlacesApart`, by induction over `compress_elf`'s loop), so that only one key stream is on each
cell (`ZippedCell`), and those of an uncompressed one where the segments are, so that the key streams
on a cell are those of all segments that cover its unit (`RawStreams`); and no section is over
the copy of the ELF header (`HeadCell`).  Assumed: `ElfAssumption`: segments are not empty and end inside the
file, so do the headers, and segments have sections of their own.

*KeyStore.*  `IInv == TypeOK /\ Listing /\ Loaded`: each entry was made from the files of
one name already read, for some earlier value of the stack buffer, and each name read has
its entry; what `key_get` loaded is whole.  `Agreement` follows because two entries with the
same whole key file are of the same suffix.  Assumed: the directory is finite, and the
suffixes of the version mapping are single fields.

*CosPackage.*  `IInv == TypeOK /\ Table /\ Headed /\ Packaged`: `offset` is behind the last
file; after `build_hdr` the last file ends inside the area; and the first cell of the package
holds the number of files, which no later write reaches, so that the loop over the table of
even a torn package is bounded by it.  `CInv` adds what is in the cells: `Filled` up to
where writing is, `Finished` for a whole package, `Torn` for one that lost its end; and what has
come out of the entries so far, where of two files cut to one name the last one counts.

*Pup* is in `CosPackageProofs` as the instance `Update` of `PackageTools`.  `PupInv` says, as the
program goes on, that the files found are those of the names passed (`Found`), that they
follow one another without a gap (`Follow`), and that each cell of the package is the one
`puppack` wrote (`Original`); in storage a cell that was damaged keeps its `Shape`, so that the
digest of the tables is still a digest: puppack's or a garbled one.  If it is the digest of
what it covers, it covers as many cells as puppack's, all of them puppack's
(`HeaderVouches`); every section then finds the digest of its own file (`SectionReads`), and
its verdict is exact (`Extracted`).  Since the files follow one another without a gap, tables
and files that are right make the whole package right (`SameCells`).  Assumed:
`UpdateAssumption`: names that differ, directories of such names, `NoKey` is no key.

*SelfRebuild.*  The program hashes what is in memory, signs, and then calls the function that
decrypts in order to encrypt.  Its verification calls it once more.  The invariant says what
memory, file, digests and signature are to each other at each `pc`, and the lemma that
carries it is that toggling the same key streams twice is the identity, whichever sections
overlap.  So the verdict is OK whatever the contents are, also when a reader would not get
the new data (`RawTurnedOver`): the theorem says how little the message `OK` means.  `RInv` adds what a reader gets: `compressed` lists
exactly the deflated sections that were passed (`Marked`), and in memory (`Contents`) the first
`i - 1` of them are in their new form, in the place of the section with the index the list
names, while every other place still has the cells of the original.
Assumed: `OriginalsAssumption`.

*Gpkg.*  Of `i` bytes read so far the first `i` have lost their key stream and the others
carry their own; where the counter stands follows from `i`, and this is why the debug
branch's counter, which goes up *before* the first byte of each block but not of the first,
is right.  For a retail package the loop ends only if the length fits the counter's width;
where it does not, the counter wraps while its place in the data goes on, and behind the
last byte the model is `overrun`: `Where` says that a retail package of `Word` bytes or more
is the only one that comes there.  For the tree, `Files` says that each file entry passed so
far has its file, with the contents of the last entry of its name (`Unpacked`), that each
path in the target is named by an entry passed so far, as what it is (`Only`), and that
before `unpack_pkg` the target is empty; `Tree`, that all of it is in directories.  A
directory stays one, because a file is only written where there is none.  Assumed:
`GpkgAssumption`; the width is a multiple of the block.

*DatFile* is in `GpkgProofs` as the instance `Index` of `KeyedTools`.  A file has blocks of
the original and perhaps a foreign one, and is not the original if it has a fault (`FileIs`,
in `DInv`).  A digest's block comes out in front only of the original's first block under the
writer's key (`FirstBlock`); it names the text, so that the text behind it must be the
whole text; and behind an intact block the right plain text comes out only of the right block
(`LaterBlock`), from which everything follows block by block.  Assumed: `DatAssumption`, a
block of at least two bytes.  With blocks of one byte, a file of one block would pass the check
of its size.

*Nor.*  `CwdIsStack` says that the working directory has one name for each frame, the one the
frame was entered with; it is strengthened with `Calling` (the stack is empty before the start and
not while the program runs) and the type invariant (every frame stays inside its table), and
kept because the frame pushed with the directory's name is the one that is popped before
`chdir("..")`.  For the tree (`TInv`) a file is a way through the tables.  The stack is such a
way (`Linked`, `Follows`); the files in the tree are files of the tables (`Sound`), and all of
them whose way the program has passed, which is the lexical order of the entries, are there
(`Complete`).  `norunpack` ends with an empty stack, when every way is passed.

*Recursive functions.*  `Ec`, `Bn` and `Sha1` compute by loops, which are recursive functions
over an interval.  What such a function computes for every argument takes an induction, and
the library's induction theorems, which take an operator, are out of the prover's reach.
`ArithmeticProofs` therefore starts with induction over *sets* of numbers: a non-empty set of
naturals has a least element (`LeastNat`, from strict inclusion being well-founded on finite
sets, a theorem of the library), so a set with 0 that with each number below n has the next one
has all up to n (`Climb`), and a step function and a first value have one function they define
(`Recursion`, whose step is a function on pairs instead of an operator).  Each loop is an
instance of these two.

*MonMul.*  The invariant is `ProductInv`.  Its bound is `t < N + a`, which one conditional
subtraction restores at each turn; the residue is `t * weight` congruent to
`a * (b - rest * weight)`, kept because `inverse` makes the sum a multiple of the base.
Assumed: `WidthAssumption`, `ModuliAssumption` and `FactorsAssumption` (an odd modulus and
factors below the width), and of the digits `BitsAssumption` and `InverseAssumption`, which says
that the entries of `inv256` that are used are inverses.

*Sha1.*  The invariant is `HashInv`: as long as a context is in order it is `After(msg)`, which
has the message's whole blocks digested, the rest in `Message_Block` and the bits of its length
in the two words; after its result it is `Done(msg)`, which has `StandardBlocks(msg)`; otherwise
it is `Corrupted`, and the message was too long or input came late.  `OctetAfter` is the one
turn of `SHA1Input`'s loop, with the wrap of the low word and of both (`Counted`), `InputAfter` the
loop, `PadIs` the padding, in one block or two as `Block - 8` leaves room (`OneBlock`,
`TwoBlocks`).  That the cut of a message into blocks and a rest is unique (`Cut`) makes the order of
inputs irrelevant, and the HMAC two such digests (`HmacIs`).  Assumed: `BlockAssumption`.

*Ec.*  The invariant is `EcdsaInv == TypeOK /\ KeysInv /\ SignedInv /\ VerdictInv /\ IsTextbook`.
`KeysInv` says that `ec` is the curve of `type`, converted, and `ec_Q` the point of `pub`;
`SignedInv` that R and S, while `signed` says they are this program's, solve the equation of
the signature, on whatever curve and with whatever key it was made.  The argument goes upwards.
A number is the *Montgomery form* of another one (`IsMon`) when it is reduced and congruent to
it times the width; `bn_add`, `bn_sub`, `bn_mon_mul` and the conversions keep forms (`MonAdd`
to `FromMon`), and `bn_mon_inv` makes the form of the inverse (`MonInv`), by square and multiply
bit by bit (`MonExp`) and Fermat's theorem, which is proved (`Euclid`, `Fermat`).  On forms of
points `point_double` and `point_add` are the textbook's addition, for different, equal,
opposite and infinite points alike (`DoubleIs`, `AddPoints`), and `point_mul` is its multiple
(`MulPoint`).  Then the two halves of ECDSA: S m is e + R k (`SignIs`), so that
(e/S) G + (R/S) (k G) is m G and its coordinate R (`SignedX`), and what `check_ecdsa` compares
is what the textbook compares (`CheckIs`, `TextVerifyIs`).  A half that is not reduced, or has
no inverse, keeps to its digits only, which `TypeOK` needs and the textbook does not ask for.
Assumed: `DigitsAssumption`; `NumbersAssumption` (one subtraction reduces digests, keys and
coordinates modulo N, which numbers of 160 bits do under an order of 160 bits); and
`CurveAssumption`: p and N are primes, G has the order N, and the points of each curve in the
table are a group under the textbook's addition (`IsGroup`).  That they are is the classical
theorem about elliptic curves, whose associativity is a long computation about polynomials; it is
assumed of the table and TLC evaluates it for the curves of the run.  Nothing about `ec.c` or
`bn.c` is assumed.

Every invariant of the passing runs is a theorem.  Only model-checked: liveness (`Delivered`, the
liveness part of `SystemIsSealedBox`, `UnselfTerminates`, `NpdrmEnds`, `Accepted`,
`PackageComesOut`, `WholeComesOut`), which is out of the prover's reach, and the three
properties that the code breaks (section 6), for which there is nothing to prove.

## 6. Where the repository says something else

* `src/sceverify.c:222` notes that hashes of unaligned non-LOAD program headers always
  fail.  For a SELF made by this repository's `makeself` they are reported OK
  (`unaligned_phdr`).
* `src/cospkg.c:94` says that a package's size must be *under* the limit; exactly the limit
  is accepted, and then the zero byte written at the very end replaces the last byte of the
  last file (`cos_size`).
* `src/undat.c:37` refuses a file with *invalid index.dat size*, but the check before it
  allows one byte less than the digest's head; `aes128cbc` never ends on such a file, whose
  length is no multiple of 16 (`dat_short`).

Without a run of their own, but visible in the models: `cospkg` says *file overflow*
(`src/cospkg.c:48`) for a directory of exactly `MAX_FILES` files if `.` or `..` is returned
after the last of them; and `self.c` looks for a debug SELF by comparing its flags with
0x800, never 0x8000 (`src/self.c:245`), so that `unself2` decrypts metadata that are in clear
and refuses the file `unself` opens.  `SameEnd` excepts debug SELFs for that reason.

What the models end as `overrun`, `derailed`, `undefined` or `crashed` is undefined behaviour
of the code that no text in the repository speaks about: the image buffer of `makeself -c`,
headers that damage has changed, tables behind the end of a mapping, `puppack`'s ten entries for
twelve names, NPDRM blocks without their keys, a retail gpkg of 4 GiB or more, a table of `norunpack` that contains itself.
The hazards in `PROJECT.json` name each at its line.

## 7. Abstractions and limits

* Cryptography is perfect and symbolic.  Damage flips whole blocks, not bits.
* `makeself` without `-c` is modelled for ELF files whose size is a multiple of `ALIGNMENT`.
* Left out of the readers: `unpkg -s`, failures to open output files (except in
  `CosPackage`, `Pup` and `Gpkg`), and the hash id 0xffffffff.  `unself`'s debug files and its
  NPDRM branch are in `Npdrm` only, on metadata and not on whole images.
* `key_build_path` and memory exhaustion are left out of `KeyStore`; `key_get_simple` is
  the choice of a key or none in `Pup`, `Gpkg` and `DatFile`.
* Inputs and the key directory do not change while a program runs.
* In `Pup` a damaged field takes values of the size of the instance only (counts up to
  `MAX_FILES`, lengths up to 2); a larger one leaves the mapping, which is `undefined`.
* `SelfLoad` and `SelfRebuild` read what `makeself` makes, and one metadata section more;
  the fields of headers of other publishers take no other values.
* In `Gpkg` names are paths relative to the target, which is empty at first; the table and
  the contents are inside the data.
* `SelfLoad.FileLen` does not count `header_size` twice, as `makeself -c` does when it writes
  (`src/makeself.c:587`): there is less behind the image than in the code, where a read that
  the model refuses may be given what followed the image in memory.  In
  `SelfSections` a raw piece whose size has wrapped around is a crash of `unself` and nothing
  else.
* `Pup` does not damage the twelve bytes behind a digest, which `pupunpack` does not compare.
* `SelfRebuild` has whole outputs: `self_rebuilder` does not look at what `fclose` returns
  (`src/self_rebuilder.c:681`) and would read a torn file back, of which `AlwaysVerifies`
  says nothing.  A section that ends behind the file, for which it prints *wtf phony*
  instead of a verdict (`src/self_rebuilder.c:524`), does not count against `ok`.
* In `Nor` contents are inside the dump, and behind an SCE magic they have at least the 0x10
  bytes that are taken off their size, which would wrap around.
* `Sha1` takes lengths as they are; `sha1` and `sha1_hmac` cut those of their callers to 32
  bits (`src/tools.c:446`, `src/tools.c:457`), which is the same below 4 GiB.
* `Ec` has no points outside the curve, no curves of composite order and none with b = 0.

### Not modelled

* `aes.c` and the compression function of SHA-1 are ciphers by tables and rounds: there is
  no control in them that a small instance would exercise, and no small instance of them.
* `readself.c` and the printing half of `readself2.c` (1400 lines together) format fields and
  keep no state; `readself2`'s reading half is `self.c`, which is modelled.
* `scekrit.c` recovers a private key from two signatures.  It is algebra over GMP numbers in
  one pass, without state, and kept out of scope.
* `syscon.c`, `syscon_m.c`, `sfo.c`, `sfo_sfx_converter.c`, `QGL.c`, `eidsplitr.c`,
  `hip2his.c` read one file from front to back and write another one.  No second program
  of the repository relies on what they write.
* `mingw_mmap.c`, headers, `Makefile` and the shell wrappers are platform.

## 8. Plan

Done, in this order: `SceCrypto`, `SceImage`, `SceWriter`, `SceReader`, `SceSystem`,
`SealedBox`, `SelfSections`, `KeyStore`, `CosPackage`, `Pup`; then `Bn`, `MonMul`, `EcText`,
`Ec`, `Sha1`, `Npdrm`, `SelfLoad`, `SelfRebuild`, `DatFile`, `Gpkg`, `Nor`, and the
composites `UnselfTools`, `PackageTools`, `KeyedTools`, `Arithmetic`; with eight proof modules,
which have the invariants of every passing run.

What would come next:

1. `SceReader` with the NPDRM layer of `Npdrm` put on its metadata info, and with the list
   that `KeyStore` makes in place of the constant `KeyLists`.
2. `unpkg -s` and the failures of output files in `SceReader`.
3. The symbolic signatures and digests of `SceCrypto` as abstractions of `Ec` and `Sha1`.

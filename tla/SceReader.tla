------------------------------ MODULE SceReader ------------------------------
(***************************************************************************)
(* The programs that open a container: unpkg, unspp and unself (tool       *)
(* "unpack") and sceverify (tool "verify").  All map the file privately,   *)
(* try the root keys they find, decrypt header and sections in place, and  *)
(* then either write the contents out or check signature and hashes.       *)
(*                                                                         *)
(* A header block that does not hold what a writer put there sends the     *)
(* program to addresses and lengths nobody chose: what it does then is     *)
(* undefined, and the action Derail leaves every outcome open.             *)
(***************************************************************************)
EXTENDS SceContainer

CONSTANTS
    KeyLists,      \* what keys_get() may return: sequences of key names
    PublicKeys     \* the keys that come with a pub file

ASSUME KeyListsAssumption == KeyLists \subseteq Seq(Keys)

VARIABLES
    tool,     \* "unpack" or "verify"
    klist,    \* the keys found, in directory order
    rpc,      \* what the program does next
    ri,       \* loop counter: key or section
    rkey,     \* position in klist of the key that fits, 0 before
    rimg,     \* the private mapping of the file, or NoMap
    ctr,      \* how far sce_decrypt_header's iv has been advanced
    out,      \* cells written to output files
    report    \* what sceverify printed: [sig, hash]

rvars == <<tool, klist, rpc, ri, rkey, rimg, ctr, out, report>>

NoMap    == NoImage
NoReport == [sig |-> "none", hash |-> <<>>]

Stopped == rpc \in {"done", "failed", "derailed"}

\* Metadata as the program reads it from its (decrypted) mapping.
nhdr  == MetaOf(rimg.body).n
rsec  == SecOf(rimg.body, ri)

\* What is written out, in order: by unpkg each section, by unspp and unself
\* everything from header_len on, as long as the file size field says.
Pieces ==
    IF lay.kind = "pkg"
    THEN [i \in 1 .. 3 |-> Units(SecOf(rimg.body, i))]
    ELSE <<0 .. lay.fsize - 1>>

To(p) == rpc' = p /\ ri' = 1

-----------------------------------------------------------------------------
ReaderInit ==
    /\ tool \in {"unpack", "verify"}
    /\ klist \in KeyLists
    /\ rpc = "map" /\ ri = 1 /\ rkey = 0
    /\ rimg = NoMap /\ ctr = 0
    /\ out = <<>> /\ report = NoReport

Fail == To("failed") /\ UNCHANGED <<rkey, rimg, ctr, out, report>>

\* Undefined from here on: offsets nobody chose, or a read past the end of the
\* mapping.  The report of such a run is not modelled: on a torn file whose header
\* is whole, sceverify may print OK of the signature before it is lost.
Derail == To("derailed") /\ UNCHANGED <<rkey, rimg, ctr, out, report>>

\* mmap_file: no file is an error; an empty or short one is mapped all the same
\* and read past its end.
MapFile ==
    /\ rpc = "map"
    /\ \/ disk.state = "absent" /\ Fail
       \/ disk.state \in {"empty", "short"} /\ Derail
       \/ /\ disk.state = "full"
          /\ rimg' = disk.img
          /\ To("header")
          /\ UNCHANGED <<rkey, ctr, out, report>>
    /\ UNCHANGED <<tool, klist>>

\* The plain header: type, flags, meta_offset, header_len.  Damage to it may
\* hit a field the program checks, one it follows, or one it does not use.
ReadHeader ==
    /\ rpc = "header"
    /\ \/ To("try") /\ UNCHANGED <<rkey, rimg, ctr, out, report>>
       \/ rimg.hdr # {<<"hdr", lay.kind>>} /\ (Fail \/ Derail)
    /\ UNCHANGED <<tool, klist>>

\* Mutants: only key_pad is compared with zero; the image is decrypted in place.
TryKeyHalf ==
    /\ rpc = "try" /\ ri <= Len(klist)
    /\ LET tmp == aes256cbc(RootKey(klist[ri]), RootIv(klist[ri]), rimg.info)
       IN  IF tmp[2] = {}
           THEN /\ rimg' = [rimg EXCEPT !.info = tmp]
                /\ rkey' = ri
                /\ ctr' = 0
                /\ To("meta")
           ELSE /\ ri' = ri + 1
                /\ UNCHANGED <<rpc, rkey, rimg, ctr>>
    /\ UNCHANGED <<tool, klist, out, report>>

TryKeyInPlace ==
    /\ rpc = "try" /\ ri <= Len(klist)
    /\ LET tmp == aes256cbc(RootKey(klist[ri]), RootIv(klist[ri]), rimg.info)
       IN  /\ rimg' = [rimg EXCEPT !.info = tmp]
           /\ IF tmp[2] = {} /\ tmp[4] = {}
              THEN rkey' = ri /\ ctr' = 0 /\ To("meta")
              ELSE ri' = ri + 1 /\ UNCHANGED <<rpc, rkey, ctr>>
    /\ UNCHANGED <<tool, klist, out, report>>

\* sce_decrypt_header tries one key: the decrypted info goes to tmp, and only
\* if both paddings are zero over the image.
TryKey ==
    /\ rpc = "try" /\ ri <= Len(klist)
    /\ LET tmp == aes256cbc(RootKey(klist[ri]), RootIv(klist[ri]), rimg.info)
       IN  IF tmp[2] = {} /\ tmp[4] = {}
           THEN /\ rimg' = [rimg EXCEPT !.info = tmp]
                /\ rkey' = ri
                /\ ctr' = 0
                /\ To("meta")
           ELSE /\ ri' = ri + 1
                /\ UNCHANGED <<rpc, rkey, rimg, ctr>>
    /\ UNCHANGED <<tool, klist, out, report>>

\* Mutant: the last key is never tried.
NoKeyFitsEarly ==
    /\ rpc = "try" /\ ri >= Len(klist)
    /\ Fail
    /\ UNCHANGED <<tool, klist>>

NoKeyFits ==
    /\ rpc = "try" /\ ri > Len(klist)
    /\ Fail
    /\ UNCHANGED <<tool, klist>>

\* The 0x20 bytes of the metadata header, then everything behind them; the
\* second call goes on with the iv the first one advanced.
DecryptMeta ==
    /\ rpc = "meta"
    /\ rimg' = [rimg EXCEPT !.body =
                  aes128ctr(rimg.info[1], rimg.info[3], ctr, rimg.body, 1, 2)]
    /\ ctr' = CtrNext(ctr, 1, 2)
    /\ To("body")
    /\ UNCHANGED <<tool, klist, rkey, out, report>>

DecryptBody ==
    /\ rpc = "body"
    /\ rimg' = [rimg EXCEPT !.body =
                  aes128ctr(rimg.info[1], rimg.info[3], ctr, rimg.body, 3, lay.blocks)]
    /\ ctr' = CtrNext(ctr, 3, lay.blocks)
    /\ To("data")
    /\ UNCHANGED <<tool, klist, rkey, out, report>>

\* sce_decrypt_data, section by section.
DecryptSection ==
    /\ rpc = "data"
    /\ HasMeta(rimg.body) /\ ri <= nhdr /\ HasSec(rimg.body, ri)
    /\ rimg' = CryptSection(rimg, nhdr, rsec)
    /\ ri' = ri + 1
    /\ UNCHANGED <<tool, klist, rpc, rkey, ctr, out, report>>

Garbled ==
    /\ rpc = "data"
    /\ \/ ~HasMeta(rimg.body)
       \/ HasMeta(rimg.body) /\ ri <= nhdr /\ ~HasSec(rimg.body, ri)
    /\ Derail
    /\ UNCHANGED <<tool, klist>>

\* Mutant: the loop over the sections ends one too early.
DecryptedEarly ==
    /\ rpc = "data"
    /\ HasMeta(rimg.body) /\ ri >= nhdr
    /\ To(IF tool = "unpack" THEN "extract" ELSE "pub")
    /\ UNCHANGED <<tool, klist, rkey, rimg, ctr, out, report>>

Decrypted ==
    /\ rpc = "data"
    /\ HasMeta(rimg.body) /\ ri > nhdr
    /\ To(IF tool = "unpack" THEN "extract" ELSE "pub")
    /\ UNCHANGED <<tool, klist, rkey, rimg, ctr, out, report>>

-----------------------------------------------------------------------------
\* unpack_info, unpack_content, memcpy_to_file, write_elf.  The compressed
\* piece of a package is inflated, which fails unless it is what was deflated.
Extract ==
    /\ rpc = "extract" /\ ri <= Len(Pieces)
    /\ LET deflated == lay.kind = "pkg" /\ ri = 3
           piece    == [u \in Pieces[ri] |-> rimg.data[u]]
       IN  IF deflated /\ \E u \in Pieces[ri] : piece[u] # Plain(u)
           THEN Fail
           ELSE /\ out' = Append(out, piece)
                /\ ri' = ri + 1
                /\ UNCHANGED <<rpc, rkey, rimg, ctr, report>>
    /\ UNCHANGED <<tool, klist>>

Extracted ==
    /\ rpc = "extract" /\ ri > Len(Pieces)
    /\ To("done")
    /\ UNCHANGED <<tool, klist, rkey, rimg, ctr, out, report>>

-----------------------------------------------------------------------------
\* decrypt() of sceverify goes on only with the public key of the key that fit.
NeedPublicKey ==
    /\ rpc = "pub"
    /\ IF klist[rkey] \in PublicKeys
       THEN To("sig") /\ UNCHANGED <<rkey, rimg, ctr, out, report>>
       ELSE Fail
    /\ UNCHANGED <<tool, klist>>

VerifySignature ==
    /\ rpc = "sig"
    /\ LET sig == MetaOf(rimg.body).sig
           rs  == [p \in 1 .. 3 |-> rimg.body[sig + p]]
       IN  report' = [report EXCEPT !.sig =
                        IF ecdsa_verify(klist[rkey], Digest(rimg, sig), rs)
                        THEN "OK" ELSE "FAIL"]
    /\ To("hash")
    /\ UNCHANGED <<tool, klist, rkey, rimg, ctr, out>>

\* Mutant: a section that ends where the file does counts as behind it.
verify_hash_strict(s) ==
    IF s.off + s.len >= lay.fsize THEN "???"
    ELSE IF sha1_hmac(HmacKey(rimg.body, nhdr, s.sha), Section(rimg.data, s))
              = <<Slot(rimg.body, nhdr, s.sha), Slot(rimg.body, nhdr, s.sha + 1)>>
         THEN "OK" ELSE "FAIL*"

\* verify_hash: 1 when the section ends behind filesize + header_len, else 0 or
\* -1 for a digest that is, or is not, the stored one.
verify_hash(s) ==
    IF s.off + s.len > lay.fsize THEN "???"
    ELSE IF sha1_hmac(HmacKey(rimg.body, nhdr, s.sha), Section(rimg.data, s))
              = <<Slot(rimg.body, nhdr, s.sha), Slot(rimg.body, nhdr, s.sha + 1)>>
         THEN "OK" ELSE "FAIL*"

VerifyHash ==
    /\ rpc = "hash" /\ ri <= nhdr
    /\ report' = [report EXCEPT !.hash = Append(@, verify_hash(rsec))]
    /\ ri' = ri + 1
    /\ UNCHANGED <<tool, klist, rpc, rkey, rimg, ctr, out>>

Verified ==
    /\ rpc = "hash" /\ ri > nhdr
    /\ To("done")
    /\ UNCHANGED <<tool, klist, rkey, rimg, ctr, out, report>>

ReaderNext == \/ MapFile \/ ReadHeader \/ TryKey \/ NoKeyFits
        \/ DecryptMeta \/ DecryptBody \/ DecryptSection \/ Garbled \/ Decrypted
        \/ Extract \/ Extracted
        \/ NeedPublicKey \/ VerifySignature \/ VerifyHash \/ Verified
=============================================================================

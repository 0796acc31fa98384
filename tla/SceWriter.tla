------------------------------ MODULE SceWriter ------------------------------
(***************************************************************************)
(* The programs that make a container: pkg, spp and makeself (without -c). *)
(* One action per call of main().  The three share the pipeline            *)
(*     build, hash every section, sign, encrypt the sections, encrypt the  *)
(*     header, write                                                       *)
(* and differ in when they open the output file: pkg and spp truncate it   *)
(* first, makeself opens it when the image is finished.                    *)
(***************************************************************************)
EXTENDS SceContainer

VARIABLES
    wpc,     \* what main() does next
    wi,      \* loop counter: the section at hand
    img      \* the image being built, or NoImage

wvars == <<lay, key, wpc, wi, img, disk>>

wsec == lay.sections[wi]

Running == wpc \notin {"done", "failed", "killed"}

\* Mutant: makeself opens its output first, as pkg and spp do.
AfterOpening ==
    [start |-> "open", open |-> "key", key |-> "input", input |-> "build",
     build |-> "hash", hash |-> "crypt", crypt |-> "write"]

\* The calls main() makes, in order: the loop over the digests ends in the
\* signature, the one over the encrypted sections in the header.
After ==
    IF lay.kind = "self"
    THEN [start |-> "key", key |-> "input", input |-> "build", build |-> "hash",
          hash |-> "crypt", crypt |-> "open", open |-> "write"]
    ELSE [start |-> "open", open |-> "key", key |-> "input", input |-> "build",
          build |-> "hash", hash |-> "crypt", crypt |-> "write"]

Goto(p) == wpc' = p /\ wi' = 1

-----------------------------------------------------------------------------
WriterInit ==
    /\ lay \in Layouts
    /\ key \in Keys
    /\ wpc = After["start"]
    /\ wi = 1
    /\ img = NoImage
    /\ disk \in {NoFile, OldFile}

\* fail(): a message and exit(1); the image is gone with the process.
Exit == Goto("failed") /\ img' = NoImage

\* fp = fopen(..., "wb") truncates the file, or cannot open it at all; pkg may
\* then fail to change to the directory of its input.
Open ==
    /\ wpc = "open"
    /\ \/ disk' = Empty /\ Goto(After["open"]) /\ UNCHANGED img
       \/ disk' = Empty /\ lay.kind = "pkg" /\ Exit
       \/ Exit /\ UNCHANGED disk
    /\ UNCHANGED <<lay, key>>

\* get_key: key_get() and the public and private key it must have found.
GetKey ==
    /\ wpc = "key"
    /\ \/ key \in SigningKeys /\ Goto(After["key"]) /\ UNCHANGED img
       \/ key \notin SigningKeys /\ Exit
    /\ UNCHANGED <<lay, key, disk>>

\* get_file, get_content, get_profile, mmap_file of the ELF: any may be missing.
ReadInput ==
    /\ wpc = "input"
    /\ \/ Goto(After["input"]) /\ UNCHANGED img
       \/ Exit
    /\ UNCHANGED <<lay, key, disk>>

\* build_sce_hdr, build_meta_hdr, build_pkg / build_spp / build_hdr + write_elf.
Build ==
    /\ wpc = "build"
    /\ img' = [ hdr  |-> {<<"hdr", lay.kind>>},
                info |-> PlainInfo,
                body |-> PlainBody(lay),
                data |-> [u \in 0 .. lay.units - 1 |-> Plain(u)] ]
    /\ Goto(After["build"])
    /\ UNCHANGED <<lay, key, disk>>

\* calculate_hash of section wi: the digest goes to slots sha and sha + 1, both
\* cleared first, under the key in slots sha + 2 .. sha + 5.
Hash ==
    /\ wpc = "hash" /\ wi <= nsec
    /\ LET mac == sha1_hmac(HmacKey(img.body, nsec, wsec.sha), Section(img.data, wsec))
           at  == SlotBlock(nsec, wsec.sha)
       IN  img' = [img EXCEPT !.body = [@ EXCEPT ![at] = mac[1], ![at + 1] = mac[2]]]
    /\ wi' = wi + 1
    /\ UNCHANGED <<lay, key, wpc, disk>>

\* Mutant: the digest that is signed covers the first block of the signature.
SignTooMuch ==
    /\ wpc = "hash" /\ wi > nsec
    /\ LET rs == ecdsa_sign(key, Digest(img, lay.sig + 1))
       IN  img' = [img EXCEPT !.body =
                     [b \in DOMAIN img.body |->
                        IF b \in lay.sig + 1 .. lay.sig + 3
                        THEN rs[b - lay.sig] ELSE img.body[b]]]
    /\ Goto(After["hash"])
    /\ UNCHANGED <<lay, key, disk>>

\* sign_pkg / sign_spp / sign_hdr.
Sign ==
    /\ wpc = "hash" /\ wi > nsec
    /\ LET rs == ecdsa_sign(key, Digest(img, lay.sig))
       IN  img' = [img EXCEPT !.body =
                     [b \in DOMAIN img.body |->
                        IF b \in lay.sig + 1 .. lay.sig + 3
                        THEN rs[b - lay.sig] ELSE img.body[b]]]
    /\ Goto(After["hash"])
    /\ UNCHANGED <<lay, key, disk>>

\* sce_encrypt_data, section by section ...
EncryptSection ==
    /\ wpc = "crypt" /\ wi <= nsec
    /\ img' = CryptSection(img, nsec, wsec)
    /\ wi' = wi + 1
    /\ UNCHANGED <<lay, key, wpc, disk>>

\* ... and sce_encrypt_header after it.
EncryptHeader ==
    /\ wpc = "crypt" /\ wi > nsec
    /\ img' = sce_encrypt_header(img, lay.blocks, RootKey(key), RootIv(key))
    /\ Goto(After["crypt"])
    /\ UNCHANGED <<lay, key, disk>>

\* fwrite and fclose.  pkg and spp check neither; makeself checks fwrite, which
\* does not see what is still in the stream's buffer.
Write ==
    /\ wpc = "write"
    /\ \/ disk' = Full(img) /\ Goto("done")
       \/ disk' = Short(img) /\ Goto("done")
       \/ disk' = Short(img) /\ lay.kind = "self" /\ Goto("failed")
    /\ img' = NoImage
    /\ UNCHANGED <<lay, key>>

\* The user interrupts the program; a write under way stops short.
Kill ==
    /\ Running
    /\ Goto("killed")
    /\ img' = NoImage
    /\ \/ UNCHANGED disk
       \/ wpc = "write" /\ disk' = Short(img)
    /\ UNCHANGED <<lay, key>>

Step == \/ Open \/ GetKey \/ ReadInput \/ Build \/ Hash \/ Sign
        \/ EncryptSection \/ EncryptHeader \/ Write

WriterNext == Step \/ Kill

WriterSpec == WriterInit /\ [][WriterNext]_wvars /\ WF_wvars(Step)

-----------------------------------------------------------------------------
(* Properties of the writers. *)

\* Every variable has its type: in particular the loop counter stays within one
\* of the section table, there is an image exactly from build_* to the end of
\* the program, and what is on disk has the shape of the layout.
WriterTypeOK ==
    /\ lay \in Layouts
    /\ key \in Keys
    /\ wpc \in {"open", "key", "input", "build", "hash", "crypt", "write",
                "done", "failed", "killed"}
    /\ wi \in 1 .. nsec + 1
    /\ wpc \notin {"hash", "crypt"} => wi = 1
    /\ IF wpc \in {"hash", "crypt", "write"} \/ (wpc = "open" /\ lay.kind = "self")
       THEN Image(img) ELSE img = NoImage
    /\ disk.state \in {"absent", "old", "empty", "short", "full"}
    /\ disk.state \in {"short", "full"} => Image(disk.img)

\* What sce_decrypt_header makes of an image with the right key.
Unsealed(image) ==
    LET info == aes256cbc(RootKey(key), RootIv(key), image.info)
    IN  [image EXCEPT !.info = info,
                      !.body = aes128ctr(info[1], info[3], 0, image.body,
                                         1, lay.blocks)]

\* With the key it was made with, a reader accepts the image (both paddings are
\* zero) and finds a signature over exactly what it has decrypted.
Verifies(image) ==
    LET d == Unsealed(image)
    IN  /\ d.info[2] = {} /\ d.info[4] = {}
        /\ ecdsa_verify(key, Digest(d, lay.sig),
                        [p \in 1 .. 3 |-> d.body[lay.sig + p]])

\* Every complete file on disk verifies: it was signed in plaintext, after the
\* digests were stored and before anything was encrypted, and encryption of
\* sections and header took nothing of that away.
SignedOnDisk == disk.state = "full" => Verifies(disk.img)

\* makeself gives up the file an earlier run left only for an image that is
\* finished; a missing key or input, or an interrupt before, leaves it alone.
\* (pkg and spp truncate it before they look for their key.)
TruncateLate ==
    [][lay.kind = "self" /\ disk' # disk /\ disk.state = "old"
          => img # NoImage /\ Verifies(img)]_wvars
=============================================================================

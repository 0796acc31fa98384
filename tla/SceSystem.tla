------------------------------ MODULE SceSystem ------------------------------
(***************************************************************************)
(* A container from the program that makes it to a program that opens it.  *)
(* A writer runs to its end (or is interrupted), the file may be damaged   *)
(* in storage, and a reader opens what is there.                           *)
(***************************************************************************)
EXTENDS SceWriter, SceReader

CONSTANTS
    MaxHits,       \* how many places may be damaged
    Regions        \* the regions damage may strike

ASSUME HitsAssumption == MaxHits \in Nat

VARIABLE
    hits           \* the places damaged so far: <<region, index>>

vars  == <<wvars, rvars, hits>>

-----------------------------------------------------------------------------
Init == WriterInit /\ ReaderInit /\ hits = {}

\* The blocks and units of a container.
Places == {p \in ({"hdr"} \X {0}) \cup ({"info"} \X (1 .. 4))
                  \cup ({"body"} \X (1 .. lay.blocks))
                  \cup ({"data"} \X (0 .. lay.units - 1)) : p[1] \in Regions}

Flip(c) == Xor(c, {<<"flip">>})

Struck(image, p) ==
    CASE p[1] = "hdr"  -> [image EXCEPT !.hdr = Flip(@)]
      [] p[1] = "info" -> [image EXCEPT !.info[p[2]] = Flip(@)]
      [] p[1] = "body" -> [image EXCEPT !.body[p[2]] = Flip(@)]
      [] p[1] = "data" -> [image EXCEPT !.data[p[2]] = Flip(@)]

\* Storage or transport changes a block of the finished file.
Damage ==
    /\ ~Running /\ disk.state = "full" /\ rpc = "map"
    /\ Cardinality(hits) < MaxHits
    /\ \E p \in Places \ hits :
          /\ hits' = hits \cup {p}
          /\ disk' = [disk EXCEPT !.img = Struck(@, p)]
    /\ UNCHANGED <<lay, key, wpc, wi, img, rvars>>

\* The reader is started on the file of a writer that has stopped.
Read == ~Running /\ disk.state # "old" /\ ReaderNext /\ UNCHANGED <<wvars, hits>>

Next == \/ WriterNext /\ UNCHANGED <<rvars, hits>>
        \/ Damage
        \/ Read

\* The programs run until they stop; nothing is assumed of interrupts or damage.
Spec == /\ Init /\ [][Next]_vars
        /\ WF_vars(Step /\ UNCHANGED <<rvars, hits>>)
        /\ WF_vars(Read)

-----------------------------------------------------------------------------
(* Properties. *)

Rng(s) == {s[i] : i \in DOMAIN s}

HitBody(b) == <<"body", b>> \in hits
HitSlot(j) == HitBody(SlotBlock(nsec, j))
HitUnit(u) == <<"data", u>> \in hits
HitInfo    == \E b \in 1 .. 4 : <<"info", b>> \in hits

\* Damage to unit u, or to the key or iv of an encrypted section u lies in.
Spoilt(u) ==
    \/ HitUnit(u)
    \/ \E i \in 1 .. nsec : LET s == lay.sections[i] IN
          /\ Encrypted(s) /\ u \in Units(s)
          /\ HitSlot(s.key) \/ HitSlot(s.iv)

\* Damage to anything the digest of section s is made of or compared with.
SpoiltHash(s) ==
    \/ \E u \in Units(s) : Spoilt(u)
    \/ \E j \in s.sha .. s.sha + 5 : HitSlot(j)

SpoiltSignature ==
    \/ <<"hdr", 0>> \in hits \/ HitInfo
    \/ \E b \in 1 .. lay.sig + 3 : HitBody(b)

\* Types of the reader's variables: its counters stay within the lists they
\* index, and sce_decrypt_header's iv is never advanced past the header.
TypeOK ==
    /\ hits \subseteq Places /\ Cardinality(hits) <= MaxHits
    /\ tool \in {"unpack", "verify"} /\ klist \in KeyLists
    /\ rpc \in {"map", "header", "try", "meta", "body", "data", "extract", "pub",
                "sig", "hash", "done", "failed", "derailed"}
    /\ rpc = "try" => ri \in 1 .. Len(klist) + 1
    /\ rpc \in {"data", "hash"} => ri \in 1 .. nsec + 1
    /\ rkey \in 0 .. Len(klist)
    /\ ctr \in 0 .. lay.blocks
    /\ rpc \notin {"map", "failed", "derailed"} => Image(rimg)
    /\ report.sig \in {"none", "OK", "FAIL"}

\* Unpacking gives back what was packed, and damage stays where it is: a
\* program that ends well has written every unit of the contents, and a unit is
\* wrong exactly when it was damaged or its section's key or iv was.
ContentsIntact ==
    tool = "unpack" /\ rpc = "done" =>
        \A u \in 0 .. lay.fsize - 1 :
            u < lay.units =>
              /\ \E j \in DOMAIN out : u \in DOMAIN out[j]
              /\ \A j \in DOMAIN out :
                    u \in DOMAIN out[j] => (out[j][u] = Plain(u) <=> ~Spoilt(u))

\* A reader goes on past its keys exactly when it has the writer's and the
\* metadata info is as the writer left it: no other key ever seems to fit, and
\* damage to any of the four CBC blocks reaches one of the two zero paddings.
RightKeyOnly ==
    /\ rkey # 0 => klist[rkey] = key /\ ~HitInfo
    /\ rpc = "try" /\ ri > Len(klist) => key \notin Rng(klist) \/ HitInfo

\* A key that does not fit leaves the mapping as it was, for the next key.
TrialLeavesImage == [][rpc = "try" /\ rkey' = rkey => rimg' = rimg]_vars

\* sceverify's verdict on the signature is right in both directions.
SignatureVerdict ==
    report.sig # "none" => (report.sig = "OK" <=> ~SpoiltSignature)

\* So is its verdict on each section, overlapping sections and digests that
\* serve as a key included; "???" means that the section ends behind the file
\* size the header gives, as the content of an incompressible package does.
HashVerdict ==
    \A i \in DOMAIN report.hash : LET s == lay.sections[i] IN
        report.hash[i] = IF s.off + s.len > lay.fsize THEN "???"
                         ELSE IF SpoiltHash(s) THEN "FAIL*" ELSE "OK"

\* What sceverify says of its own report: "the hash will always fail for
\* unaligned non-LOAD phdrs" (a unit is half of the 0x20 bytes of ALIGNMENT).
UnalignedAlwaysFails ==
    \A i \in DOMAIN report.hash : LET s == lay.sections[i] IN
        lay.kind = "self" /\ ~Encrypted(s) /\ s.off % 2 # 0 => report.hash[i] # "OK"

\* A cell that is under a key or a keystream.
Masked(c) == \E t \in c : t[1] \in {"aes", "ctr"}

\* Whatever a writer leaves on disk, finished or not, keeps its secrets: the
\* metadata key, every block behind it and every unit of an encrypted section.
NothingInClear ==
    disk.state \in {"short", "full"} =>
        /\ \A b \in 1 .. 4 : Masked(disk.img.info[b])
        /\ \A b \in 1 .. lay.blocks : Masked(disk.img.body[b])
        /\ \A i \in 1 .. nsec : Encrypted(lay.sections[i]) =>
              \A u \in Units(lay.sections[i]) : Masked(disk.img.data[u])

\* A reader loses its way only in a file that is torn or whose header was hit.
NeverAstray ==
    rpc = "derailed" => disk.state \in {"empty", "short"} \/ SpoiltSignature

\* What a reader says of a file, and whether it says anything sensible at all,
\* follows from where the damage is: signature, digests, and a way through the file.
Verdicts == SignatureVerdict /\ HashVerdict /\ NeverAstray

\* The reader has what it needs: the writer's key, and to verify its pub file.
HasKey == key \in Rng(klist) /\ (tool = "verify" => key \in PublicKeys)

\* A complete, undamaged file comes through for everyone with the right keys.
Delivered ==
    disk.state = "full" /\ hits = {} /\ HasKey ~> rpc = "done" \/ hits # {}

-----------------------------------------------------------------------------
(* The system implements SealedBox. *)

MarkOf(p) ==
    CASE p[1] = "data" -> IF \E i \in 1 .. nsec : p[2] \in Units(lay.sections[i])
                          THEN "contents" ELSE "gap"
      [] p[1] = "body" -> IF p[2] <= lay.sig + 3 THEN "header" ELSE "slack"
      [] OTHER         -> "header"

Exact == \A u \in 0 .. lay.units - 1 : \E j \in DOMAIN out :
            u \in DOMAIN out[j] /\ out[j][u] = Plain(u)

Verdict ==
    IF report.sig = "FAIL" \/ "FAIL*" \in Rng(report.hash) THEN "forged"
    ELSE IF "???" \in Rng(report.hash) THEN "unsure" ELSE "genuine"

Reply ==
    CASE ~Stopped        -> "none"
      [] rpc = "failed"   -> "refused"
      [] rpc = "derailed" -> "undefined"
      [] OTHER -> IF tool = "verify" THEN Verdict
                  ELSE IF Exact THEN "exact" ELSE "altered"

BoxState ==
    CASE disk.state = "absent" -> "none"
      [] disk.state = "old"    -> "old"
      [] disk.state = "full"   -> "sealed"
      [] OTHER                 -> "torn"

Marked == {MarkOf(p) : p \in hits}

Box == INSTANCE SealedBox WITH
    box <- BoxState, marks <- Marked, haskey <- HasKey, reply <- Reply

\* Seen through this mapping, every run of the system is one of SealedBox: no
\* reply ever says more than the damage allows, and there always is one.
SystemIsSealedBox == Box!Spec
=============================================================================

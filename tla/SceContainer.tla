---------------------------- MODULE SceContainer -----------------------------
(***************************************************************************)
(* What a writer and a reader of a container share: the layouts, the keys  *)
(* and the file.                                                           *)
(***************************************************************************)
EXTENDS SceImage

CONSTANTS
    Layouts,       \* the layouts the input files may lead to
    Keys,          \* names of the key files of this type of container
    SigningKeys    \* the ones with a ctype, a pub and a priv file as well

\* The slots of a section's digest and of the key it is made under.
HashSlots(s) == s.sha .. s.sha + 5

\* What holds of every layout the build_* functions make.  The section infos,
\* and the slots a section uses, lie in front of the signature; digests do not
\* share slots, nor encrypted sections their key; sections lie inside the file.
\* A package is three sections without a gap, of a profile and a SELF the file
\* size field counts every unit.
WellFormed(L) ==
    LET n == Len(L.sections) IN
    /\ L.kind \in {"pkg", "spp", "self"}
    /\ L.blocks \in Nat /\ L.sig \in Nat /\ L.nslots \in Nat
    /\ L.units \in Nat /\ L.fsize \in Nat
    /\ L.sections \in Seq([off : Nat, len : Nat, sha : Nat,
                           key : Nat \cup {NoSlot}, iv : Nat \cup {NoSlot}])
    /\ 2 + 3 * n <= L.sig /\ L.sig + 3 <= L.blocks
    /\ \A i \in 1 .. n : LET s == L.sections[i] IN
          /\ s.off + s.len <= L.units
          /\ \A j \in HashSlots(s) \cup (IF Encrypted(s) THEN {s.key, s.iv} ELSE {}) :
                j < L.nslots /\ SlotBlock(n, j) <= L.sig
    /\ \A i, j \in 1 .. n : i # j =>
          /\ HashSlots(L.sections[i]) \cap HashSlots(L.sections[j]) = {}
          /\ Encrypted(L.sections[i]) /\ Encrypted(L.sections[j]) =>
                L.sections[i].key # L.sections[j].key
    /\ IF L.kind = "pkg"
       THEN n = 3 /\ \A u \in 0 .. L.units - 1 : \E i \in 1 .. 3 : u \in Units(L.sections[i])
       ELSE L.fsize = L.units

ASSUME LayoutsAssumption == \A L \in Layouts : WellFormed(L)

ASSUME KeysAssumption == SigningKeys \subseteq Keys

VARIABLES
    lay,     \* the layout of this container
    key,     \* the key file named on the writer's command line
    disk     \* the container on disk

NoImage == [hdr |-> {}, info |-> <<>>, body |-> <<>>, data |-> <<>>]

\* key and iv of key k: the root key of the metadata info.
RootKey(k) == {<<"root", k>>}
RootIv(k)  == {<<"rootiv", k>>}

NoFile  == [state |-> "absent", img |-> NoImage]    \* there is no such file
OldFile == [state |-> "old",    img |-> NoImage]    \* what an earlier run left
Empty   == [state |-> "empty",  img |-> NoImage]
Short(image) == [state |-> "short", img |-> image]  \* a prefix of the image
Full(image)  == [state |-> "full",  img |-> image]

nsec == Len(lay.sections)

\* An image of this layout.
Image(i) ==
    /\ i = [hdr |-> i.hdr, info |-> i.info, body |-> i.body, data |-> i.data]
    /\ i.info = <<i.info[1], i.info[2], i.info[3], i.info[4]>>
    /\ i.body = [b \in 1 .. lay.blocks |-> i.body[b]]
    /\ i.data = [u \in 0 .. lay.units - 1 |-> i.data[u]]
=============================================================================

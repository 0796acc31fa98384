------------------------------- MODULE KeyStore -------------------------------
(***************************************************************************)
(* The key directory as tools.c sees it: key_get(), by which a writer      *)
(* loads the one key it was told to use, and keys_get(), by which a reader *)
(* collects every key there is.  SceSystem starts from their results; here *)
(* both look at one directory, and the question is whether a reader finds  *)
(* what the writer used.                                                   *)
(*                                                                         *)
(* A file name is the sequence of its fields between dashes, so that       *)
(* "app-key-355" is <<"app", "key", "355">>.  The content of a whole file  *)
(* is its name; of a file that is too short only a part is read.           *)
(***************************************************************************)
EXTENDS Integers, Sequences, FiniteSets

CONSTANTS
    Words,         \* the fields of file names
    Directories,   \* functions from file names to "whole" or "short"
    Types,         \* types of containers
    Suffixes,      \* what a writer may be told: [fields, atoi, retail]
    KeyWords,      \* the fields that contain "key"
    Longer         \* pairs of a field and a shorter one it begins with

ASSUME NamesAssumption ==
    /\ {"092", "315", "341", "350", "355", "356", "(null)"} \subseteq Words
    /\ "key" \in KeyWords

ASSUME DirectoriesAssumption ==
    \A d \in Directories :
        /\ IsFiniteSet(DOMAIN d)
        /\ \A f \in DOMAIN d : /\ f \in Seq(Words) /\ f # <<>>
                               /\ d[f] \in {"whole", "short"}

ASSUME SuffixesAssumption ==
    \A s \in Suffixes : s.fields \in Seq(Words) /\ s.atoi \in Int /\ s.retail \in BOOLEAN

VARIABLES
    dir,       \* the directory
    type,      \* the type of container, for both programs
    suffix,    \* the writer's argument
    kpc,       \* what keys_get does next
    todo,      \* the names it looks for that readdir has not returned yet
    bfr,       \* the four bytes of the curve type, on the stack
    klist,     \* keys_get's list
    single,    \* the keys that only NPDRM has
    got,       \* what key_get returned
    k          \* the key it filled in

vars == <<dir, type, suffix, kpc, todo, bfr, klist, single, got, k>>

Zero    == <<>>               \* cleared memory
Junk    == <<"junk">>         \* memory nobody has written
Part(f) == <<"part">> \o f    \* the head of a file, and what was there before

\* key_read: dst stays as it was when there is no file, and is filled in part
\* when the file is short; only a whole file counts as read.
Whole(path) == path \in DOMAIN dir /\ dir[path] = "whole"

key_read(path, dst) ==
    IF path \notin DOMAIN dir THEN dst
    ELSE IF dir[path] = "whole" THEN path ELSE Part(path)

NoKey == [key |-> Zero, iv |-> Zero, pub_avail |-> 0, ctype |-> Zero, pub |-> Zero,
          priv_avail |-> 0, priv |-> Zero]

-----------------------------------------------------------------------------
\* t_key2file: NPDRM files are opened with the keys of applications.
name == IF type = "npdrm" THEN "app" ELSE type

\* strncmp(d_name, name, strlen(name)) == 0 and strstr(d_name, "key").
Matches(f) == /\ f[1] = name \/ <<f[1], name>> \in Longer
              /\ \E m \in DOMAIN f : f[m] \in KeyWords

Init ==
    /\ dir \in Directories /\ type \in Types /\ suffix \in Suffixes
    /\ kpc = "open" /\ todo = {f \in DOMAIN dir : Matches(f)}
    /\ bfr = Junk /\ klist = <<>> /\ single = <<>>
    /\ got = "none" /\ k = NoKey

\* Mutant: the suffix begins at the first dash.
IdFirst(f) == Tail(f)

\* What is behind the last dash; "(null)" is what snprintf makes of no dash.
Id(f) == IF Len(f) > 1 THEN <<f[Len(f)]>> ELSE <<"(null)">>

Path(part, id) == <<name, part>> \o id

\* ctype is what bfr holds after an attempt to read the file into it; whether
\* that worked is not looked at.
Curve(id, stale) == key_read(Path("ctype", id), stale)

\* Mutant: an entry is not cleared before files are read into it.
Uncleared == Junk

Cleared == Zero

\* The list entry for one suffix: a missing key or iv is reported and the entry
\* kept; the curve type is read only if the public key is there.
Entry(id, stale) ==
    [ key        |-> key_read(Path("key", id), Cleared),
      iv         |-> key_read(Path("iv", id), Cleared),
      pub        |-> key_read(Path("pub", id), Cleared),
      pub_avail  |-> IF Whole(Path("pub", id)) THEN 1 ELSE -1,
      ctype      |-> IF Whole(Path("pub", id)) THEN Curve(id, stale) ELSE Cleared,
      priv       |-> key_read(Path("priv", id), Cleared),
      priv_avail |-> IF Whole(Path("priv", id)) THEN 1 ELSE -1 ]

-----------------------------------------------------------------------------
\* opendir: without a directory there is no list at all.
OpenDir ==
    /\ kpc = "open"
    /\ \/ kpc' = "read"
       \/ DOMAIN dir = {} /\ kpc' = "null"
    /\ UNCHANGED <<dir, type, suffix, todo, bfr, klist, single, got, k>>

\* readdir returns names in no particular order; those that do not match are
\* passed over on the way to the next one that does.
ReadName(f) ==
    /\ kpc = "read" /\ f \in todo
    /\ todo' = todo \ {f}
    /\ klist' = Append(klist, Entry(Id(f), bfr))
    /\ bfr' = IF Whole(Path("pub", Id(f))) THEN key_read(Path("ctype", Id(f)), bfr) ELSE bfr
    /\ UNCHANGED <<dir, type, suffix, kpc, single, got, k>>

\* The end of the directory; KEY_NPDRM goes on with five keys of its own.
NpdrmNames == {<<"idps">>, <<"klic", "key">>, <<"rif", "key">>, <<"npdrm", "const">>,
               <<"free_klicensee", "key">>}

ReadDone ==
    /\ kpc = "read" /\ todo = {}
    /\ kpc' = "done"
    /\ single' = IF type = "npdrm" THEN [f \in NpdrmNames |-> key_read(f, Zero)] ELSE single
    /\ UNCHANGED <<dir, type, suffix, todo, bfr, klist, got, k>>

-----------------------------------------------------------------------------
\* The suffix key files of a firmware version have; words other than a prefix
\* of "retail" count as version 0.
FileSuffix(s) ==
    IF s.retail THEN s.fields
    ELSE CASE s.atoi <= 92  -> <<"092">>
           [] s.atoi > 92  /\ s.atoi <= 331 -> <<"315">>
           [] s.atoi > 331 /\ s.atoi <= 342 -> <<"341">>
           [] s.atoi > 342 /\ s.atoi <= 350 -> <<"350">>
           [] s.atoi > 350 /\ s.atoi <= 355 -> <<"355">>
           [] s.atoi = 356 -> <<"356">>
           [] OTHER        -> s.fields

\* key_get: key and iv must be there; without a curve type the key cannot sign.
KeyGet ==
    /\ got = "none"
    /\ LET id == FileSuffix(suffix)
           P(part) == Path(part, id)
       IN  IF ~Whole(P("key")) \/ ~Whole(P("iv"))
           THEN /\ got' = "failed"
                /\ k' = [k EXCEPT !.key = key_read(P("key"), @),
                                  !.iv = IF Whole(P("key")) THEN key_read(P("iv"), @) ELSE @]
           ELSE /\ got' = "ok"
                /\ k' = IF ~Whole(P("ctype"))
                        THEN [k EXCEPT !.key = P("key"), !.iv = P("iv"),
                                       !.pub_avail = -1, !.priv_avail = -1]
                        ELSE [key |-> P("key"), iv |-> P("iv"), ctype |-> P("ctype"),
                              pub_avail |-> IF Whole(P("pub")) THEN 1 ELSE -1,
                              pub |-> key_read(P("pub"), k.pub),
                              priv_avail |-> IF Whole(P("priv")) THEN 1 ELSE -1,
                              priv |-> key_read(P("priv"), k.priv)]
    /\ UNCHANGED <<dir, type, suffix, kpc, todo, bfr, klist, single>>

Next == OpenDir \/ (\E f \in todo : ReadName(f)) \/ ReadDone \/ KeyGet

Spec == Init /\ [][Next]_vars

-----------------------------------------------------------------------------
(* Properties. *)

Names  == DOMAIN dir
Keyed  == {f \in Names : Matches(f)}
Value  == Names \cup {Part(f) : f \in Names} \cup {Zero, Junk}
KeyRecord == [key : Value, iv : Value, pub_avail : {-1, 0, 1}, ctype : Value, pub : Value,
              priv_avail : {-1, 0, 1}, priv : Value]

\* Types; the list has one entry for each name read so far.
TypeOK ==
    /\ kpc \in {"open", "null", "read", "done"}
    /\ todo \subseteq Keyed
    /\ bfr \in Value
    /\ klist \in Seq(KeyRecord) /\ k \in KeyRecord
    /\ Len(klist) = Cardinality(Keyed \ todo)
    /\ got \in {"none", "ok", "failed"}

\* A writer's key, if it could sign with it.
Signs == got = "ok" /\ k.pub_avail = 1 /\ k.priv_avail = 1

\* What makes sce_decrypt_header settle on an entry for a container made with k.
Fits(m) == klist[m].key = k.key /\ klist[m].iv = k.iv

\* Whatever a writer signs with a key of one-field suffix, a reader with the
\* same directory can open and verify: the key is in its list, in whatever
\* order and among whatever other files, and every entry that fits, the first
\* one included, has the writer's public key and curve.
Agreement ==
    Signs /\ kpc = "done" /\ Len(FileSuffix(suffix)) = 1 =>
        /\ \E m \in DOMAIN klist : Fits(m)
        /\ \A m \in DOMAIN klist : Fits(m) =>
              klist[m].pub_avail = 1 /\ klist[m].pub = k.pub /\ klist[m].ctype = k.ctype

\* No entry mixes the files of two keys, and no entry comes out of memory that
\* was not cleared.  The curve type is the exception: it may be another key's,
\* or not even that, when the entry's own ctype file is missing or short.
From(v, f) == v = Zero \/ (f \in Names /\ v \in {f, Part(f)})

OneKeyPerEntry ==
    \A m \in DOMAIN klist : \E f \in Keyed \ todo : LET e == klist[m]  id == Id(f) IN
        /\ From(e.key, Path("key", id)) /\ From(e.iv, Path("iv", id))
        /\ From(e.pub, Path("pub", id)) /\ From(e.priv, Path("priv", id))
        /\ e.pub_avail = 1 => e.pub = Path("pub", id)
        /\ e.pub_avail = 1 /\ Whole(Path("ctype", id)) => e.ctype = Path("ctype", id)
===============================================================================

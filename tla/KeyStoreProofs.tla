---------------------------- MODULE KeyStoreProofs ----------------------------
(***************************************************************************)
(* Proofs about KeyStore: for every directory, every order readdir returns *)
(* its names in and every suffix.                                          *)
(***************************************************************************)
EXTENDS KeyStore, FiniteSetTheorems, SequenceTheorems, TLAPS

\* The list and the names read so far belong together: each entry is made of
\* the files of one name, and each name has its entry.
Listing ==
    /\ \A m \in 1 .. Len(klist) : \E f \in Keyed \ todo, c \in Value :
          klist[m] = Entry(Id(f), c)
    /\ \A f \in Keyed \ todo : \E m \in 1 .. Len(klist), c \in Value :
          klist[m] = Entry(Id(f), c)
    /\ kpc = "done" => todo = {}

\* What key_get has loaded, if it can sign, is whole.
Loaded ==
    LET id == FileSuffix(suffix) IN
    /\ got = "none" => k = NoKey
    /\ got = "ok" =>
        /\ Whole(Path("key", id)) /\ k.key = Path("key", id)
        /\ Whole(Path("iv", id)) /\ k.iv = Path("iv", id)
        /\ k.pub_avail = 1 =>
              /\ Whole(Path("ctype", id)) /\ k.ctype = Path("ctype", id)
              /\ Whole(Path("pub", id)) /\ k.pub = Path("pub", id)

IInv ==
    /\ dir \in Directories /\ type \in Types /\ suffix \in Suffixes
    /\ TypeOK
    /\ Listing
    /\ Loaded

-----------------------------------------------------------------------------
\* Reading a file into memory of a known value gives a known value.
LEMMA ReadValue ==
    ASSUME NEW path, NEW dst \in Value
    PROVE  key_read(path, dst) \in Value
<1>1. CASE path \in Names
  <2>1. path \in Value /\ Part(path) \in Value
    BY <1>1 DEF Value
  <2> QED BY <2>1 DEF key_read
<1>2. CASE path \notin Names
  BY <1>2 DEF key_read, Names
<1> QED BY <1>1, <1>2

LEMMA WholeValue ==
    ASSUME NEW path, Whole(path)
    PROVE  /\ path \in Value
           /\ \A dst : key_read(path, dst) = path
BY DEF Whole, Value, Names, key_read

LEMMA ZeroValue == Zero \in Value /\ Junk \in Value
BY DEF Value

LEMMA EntryType ==
    ASSUME NEW id, NEW c \in Value
    PROVE  Entry(id, c) \in KeyRecord
<1>1. /\ key_read(Path("key", id), Zero) \in Value
      /\ key_read(Path("iv", id), Zero) \in Value
      /\ key_read(Path("pub", id), Zero) \in Value
      /\ key_read(Path("priv", id), Zero) \in Value
      /\ key_read(Path("ctype", id), c) \in Value
  BY ReadValue, ZeroValue
<1> QED BY <1>1, ZeroValue DEF Entry, KeyRecord, Cleared, Curve

LEMMA KeyedFinite ==
    ASSUME dir \in Directories
    PROVE  IsFiniteSet(Keyed)
<1>1. IsFiniteSet(DOMAIN dir)
  BY DirectoriesAssumption
<1>2. Keyed \subseteq DOMAIN dir
  BY DEF Keyed, Names
<1> QED BY <1>1, <1>2, FS_Subset

-----------------------------------------------------------------------------
LEMMA InitIInv == Init => IInv
<1> SUFFICES ASSUME Init PROVE IInv
  OBVIOUS
<1>1. todo = Keyed
  BY DEF Init, Keyed, Names
<1>2. Keyed \ todo = {}
  BY <1>1
<1>3. klist = <<>> /\ Len(klist) = 0 /\ klist \in Seq(KeyRecord)
  BY DEF Init
<1>4. Cardinality({}) = 0
  BY FS_EmptySet
<1>5. NoKey \in KeyRecord
  BY ZeroValue DEF NoKey, KeyRecord
<1>6. TypeOK
  BY <1>1, <1>2, <1>3, <1>4, <1>5, ZeroValue DEF Init, TypeOK
<1>7. Listing
  BY <1>2, <1>3 DEF Init, Listing
<1>8. Loaded
  BY DEF Init, Loaded
<1> QED BY <1>6, <1>7, <1>8 DEF Init, IInv

\* The operators below depend on the directory and the type only.
LEMMA SameFiles ==
    ASSUME UNCHANGED <<dir, type>>
    PROVE  /\ Keyed' = Keyed /\ Value' = Value /\ KeyRecord' = KeyRecord
           /\ \A id, c : Entry(id, c)' = Entry(id, c)
           /\ \A part, id : Path(part, id)' = Path(part, id)
           /\ \A path : Whole(path)' = Whole(path)
BY DEF Keyed, Names, Matches, name, Value, KeyRecord, Entry, Path, Whole, key_read,
       Curve

\* A step that reads no name keeps the listing, and one that is not key_get's
\* keeps what key_get has loaded.
LEMMA ListingKept ==
    ASSUME Listing, UNCHANGED <<dir, type, todo, klist>>,
           kpc' = "done" => kpc = "done" \/ todo = {}
    PROVE  Listing'
<1>1. /\ Value' = Value /\ Keyed' = Keyed
      /\ \A g, c : Entry(Id(g), c)' = Entry(Id(g), c)
  BY DEF Value, Names, Keyed, Matches, Entry, Path, name, Whole, key_read, Curve, Cleared, Id
<1> QED BY <1>1 DEF Listing

LEMMA LoadedKept ==
    ASSUME Loaded, UNCHANGED <<dir, type, suffix, got, k>>
    PROVE  Loaded'
BY SameFiles DEF Loaded

LEMMA ReadNameStep ==
    ASSUME IInv, NEW f \in todo, ReadName(f)
    PROVE  IInv'
<1>1. /\ UNCHANGED <<dir, type, suffix, kpc, got, k>>
      /\ todo' = todo \ {f} /\ kpc = "read"
      /\ klist' = Append(klist, Entry(Id(f), bfr))
  BY DEF ReadName
<1>2. bfr \in Value /\ klist \in Seq(KeyRecord) /\ todo \subseteq Keyed
  BY DEF IInv, TypeOK
<1>3. PICK e \in KeyRecord : e = Entry(Id(f), bfr)
  BY <1>2, EntryType
<1>4. /\ klist' \in Seq(KeyRecord) /\ Len(klist') = Len(klist) + 1
      /\ Len(klist) \in Nat
      /\ \A m \in 1 .. Len(klist) : klist'[m] = klist[m]
      /\ klist'[Len(klist) + 1] = e
  <2>1. klist' = Append(klist, e)
    BY <1>1, <1>3
  <2> QED BY <2>1, <1>2, AppendProperties, LenProperties
<1>5. bfr' \in Value
  BY <1>2, ReadValue DEF ReadName
<1>6. (Keyed \ todo)' = (Keyed \ todo) \cup {f}
  BY <1>1, <1>2, SameFiles
<1>7. Cardinality((Keyed \ todo)') = Cardinality(Keyed \ todo) + 1
  <2>1. IsFiniteSet(Keyed \ todo)
    BY KeyedFinite, FS_Subset DEF IInv
  <2> QED BY <2>1, <1>6, FS_AddElement
<1>8. TypeOK'
  BY <1>1, <1>2, <1>4, <1>5, <1>7, SameFiles DEF IInv, TypeOK
<1>9. Listing'
  <2>1. ASSUME NEW m \in 1 .. Len(klist')
        PROVE  \E g \in (Keyed \ todo)', c \in Value : klist'[m] = Entry(Id(g), c)
    <3>1. CASE m = Len(klist) + 1
      <4>1. klist'[m] = Entry(Id(f), bfr)
        BY <3>1, <1>3, <1>4
      <4>2. f \in (Keyed \ todo)'
        BY <1>6
      <4> QED BY <4>1, <4>2, <1>2
    <3>2. CASE m \in 1 .. Len(klist)
      BY <3>2, <1>4, <1>6 DEF IInv, Listing
    <3> QED BY <3>1, <3>2, <1>4
  <2>2. ASSUME NEW g \in (Keyed \ todo)'
        PROVE  \E m \in 1 .. Len(klist'), c \in Value : klist'[m] = Entry(Id(g), c)
    <3>1. CASE g = f
      <4>1. Len(klist) + 1 \in 1 .. Len(klist')
        BY <1>4
      <4>2. klist'[Len(klist) + 1] = Entry(Id(g), bfr)
        BY <3>1, <1>3, <1>4
      <4> QED BY <4>1, <4>2, <1>2
    <3>2. CASE g \in Keyed \ todo
      <4>1. PICK m \in 1 .. Len(klist), c \in Value : klist[m] = Entry(Id(g), c)
        BY <3>2 DEF IInv, Listing
      <4>2. m \in 1 .. Len(klist') /\ klist'[m] = Entry(Id(g), c)
        BY <4>1, <1>4
      <4> QED BY <4>2
    <3> QED BY <3>1, <3>2, <1>6
  <2>3. /\ Value' = Value
        /\ \A g, c : Entry(Id(g), c)' = Entry(Id(g), c)
        /\ kpc' # "done"
    BY <1>1 DEF Value, Names, Entry, Path, name, Whole, key_read, Curve, Cleared, Id
  <2> QED BY <2>1, <2>2, <2>3 DEF Listing
<1>10. Loaded'
  BY <1>1, SameFiles DEF IInv, Loaded
<1> QED BY <1>1, <1>8, <1>9, <1>10 DEF IInv

LEMMA KeyGetStep ==
    ASSUME IInv, KeyGet
    PROVE  IInv'
<1> DEFINE id == FileSuffix(suffix)
<1>1. UNCHANGED <<dir, type, suffix, kpc, todo, bfr, klist, single>>
  BY DEF KeyGet
<1>2. k = NoKey /\ k \in KeyRecord /\ k.pub_avail = 0
  BY DEF IInv, Loaded, TypeOK, KeyGet, NoKey
<1>3. CASE ~Whole(Path("key", id)) \/ ~Whole(Path("iv", id))
  <2>1. /\ got' = "failed"
        /\ k' = [k EXCEPT !.key = key_read(Path("key", id), @),
                          !.iv = IF Whole(Path("key", id)) THEN key_read(Path("iv", id), @)
                                 ELSE @]
    BY <1>3 DEF KeyGet
  <2>2. k' \in KeyRecord
    BY <2>1, <1>2, ReadValue DEF KeyRecord
  <2>3. Loaded'
    BY <2>1 DEF Loaded
  <2> QED BY <1>1, <2>1, <2>2, <2>3, ListingKept, SameFiles DEF IInv, TypeOK
<1>4. CASE Whole(Path("key", id)) /\ Whole(Path("iv", id)) /\ ~Whole(Path("ctype", id))
  <2>1. /\ got' = "ok"
        /\ k' = [k EXCEPT !.key = Path("key", id), !.iv = Path("iv", id),
                          !.pub_avail = -1, !.priv_avail = -1]
    BY <1>4 DEF KeyGet
  <2>2. k' \in KeyRecord /\ k'.pub_avail = -1
        /\ k'.key = Path("key", id) /\ k'.iv = Path("iv", id)
    BY <2>1, <1>2, <1>4, WholeValue DEF KeyRecord
  <2>3. Loaded'
    BY <1>1, <1>4, <2>1, <2>2, SameFiles DEF Loaded
  <2> QED BY <1>1, <2>1, <2>2, <2>3, ListingKept, SameFiles DEF IInv, TypeOK
<1>5. CASE Whole(Path("key", id)) /\ Whole(Path("iv", id)) /\ Whole(Path("ctype", id))
  <2>1. /\ got' = "ok"
        /\ k' = [key |-> Path("key", id), iv |-> Path("iv", id), ctype |-> Path("ctype", id),
                 pub_avail |-> IF Whole(Path("pub", id)) THEN 1 ELSE -1,
                 pub |-> key_read(Path("pub", id), k.pub),
                 priv_avail |-> IF Whole(Path("priv", id)) THEN 1 ELSE -1,
                 priv |-> key_read(Path("priv", id), k.priv)]
    BY <1>5 DEF KeyGet
  <2>2. k.pub \in Value /\ k.priv \in Value
    BY <1>2 DEF KeyRecord
  <2>3. k' \in KeyRecord
    BY <2>1, <2>2, <1>5, WholeValue, ReadValue DEF KeyRecord
  <2>4. k'.pub_avail = 1 => Whole(Path("pub", id)) /\ k'.pub = Path("pub", id)
    BY <2>1, WholeValue
  <2>5. k'.key = Path("key", id) /\ k'.iv = Path("iv", id) /\ k'.ctype = Path("ctype", id)
    BY <2>1
  <2>6. Loaded'
    BY <1>1, <1>5, <2>1, <2>4, <2>5, SameFiles DEF Loaded
  <2> QED BY <1>1, <2>1, <2>3, <2>6, ListingKept, SameFiles DEF IInv, TypeOK
<1> QED BY <1>3, <1>4, <1>5

LEMMA NextIInv == IInv /\ [Next]_vars => IInv'
<1> SUFFICES ASSUME IInv, [Next]_vars PROVE IInv'
  OBVIOUS
<1>1. CASE OpenDir
  <2>1. /\ UNCHANGED <<dir, type, suffix, todo, bfr, klist, single, got, k>>
        /\ kpc' \in {"read", "null"}
    BY <1>1 DEF OpenDir
  <2> QED BY <2>1, ListingKept, LoadedKept, SameFiles DEF IInv, TypeOK
<1>2. CASE \E f \in todo : ReadName(f)
  BY <1>2, ReadNameStep
<1>3. CASE ReadDone
  <2>1. /\ UNCHANGED <<dir, type, suffix, todo, bfr, klist, got, k>>
        /\ kpc' = "done" /\ todo = {}
    BY <1>3 DEF ReadDone
  <2> QED BY <2>1, ListingKept, LoadedKept, SameFiles DEF IInv, TypeOK
<1>4. CASE KeyGet
  BY <1>4, KeyGetStep
<1>5. CASE UNCHANGED vars
  BY <1>5, ListingKept, LoadedKept, SameFiles DEF vars, IInv, TypeOK
<1> QED BY <1>1, <1>2, <1>3, <1>4, <1>5 DEF Next

\* The strengthened invariant holds of every run.
THEOREM Invariance == Spec => []IInv
  BY InitIInv, NextIInv, PTL DEF Spec

-----------------------------------------------------------------------------
\* The path of a file with a suffix of one field.
LEMMA PathOf ==
    ASSUME NEW part, NEW a
    PROVE  Path(part, <<a>>) = <<name, part, a>>
<1> DEFINE S == {name, part, a}
<1>1. <<name, part>> \in Seq(S) /\ <<a>> \in Seq(S) /\ <<name, part, a>> \in Seq(S)
  OBVIOUS
<1>2. Len(<<name, part>>) = 2 /\ Len(<<a>>) = 1 /\ Len(<<name, part, a>>) = 3
  OBVIOUS
<1> DEFINE c == <<name, part>> \o <<a>>
<1>3. /\ c \in Seq(S) /\ Len(c) = 3
      /\ c[1] = name /\ c[2] = part /\ c[3] = a
  BY <1>1, <1>2, ConcatProperties
<1>4. c = <<name, part, a>>
  <2>1. \A m \in 1 .. 3 : c[m] = <<name, part, a>>[m]
    BY <1>3
  <2> HIDE DEF c, S
  <2> QED BY <1>1, <1>2, <1>3, <2>1, SeqEqual
<1> QED BY <1>4 DEF Path

\* What is read of a file into cleared memory is the whole of another file only
\* if it is that file: a part is longer than any path.
LEMMA PathOnce ==
    ASSUME NEW part, NEW a, NEW b,
           key_read(Path(part, <<a>>), Zero) = Path(part, <<b>>)
    PROVE  a = b
<1> DEFINE pa == <<name, part, a>>
           pb == <<name, part, b>>
           S  == {"part", name, part, a}
<1>1. Path(part, <<a>>) = pa /\ Path(part, <<b>>) = pb
  BY PathOf
<1>2. Len(pb) = 3 /\ Len(Zero) = 0
  BY DEF Zero
<1>3. Len(Part(pa)) = 4
  <2>1. <<"part">> \in Seq(S) /\ pa \in Seq(S) /\ Len(<<"part">>) = 1 /\ Len(pa) = 3
    OBVIOUS
  <2>2. Len(<<"part">> \o pa) = Len(<<"part">>) + Len(pa)
    <3> HIDE DEF pa, S
    <3> QED BY <2>1, ConcatProperties
  <2> HIDE DEF pa
  <2> QED BY <2>1, <2>2 DEF Part
<1>4. key_read(pa, Zero) \in {Zero, pa, Part(pa)}
  <2> HIDE DEF pa
  <2> QED BY DEF key_read
<1>5. pa = pb
  <2> HIDE DEF pa, pb
  <2> QED BY <1>1, <1>2, <1>3, <1>4
<1> QED BY <1>5

\* The suffix of a file name is a single field.
LEMMA IdField ==
    ASSUME dir \in Directories, NEW f \in Keyed
    PROVE  \E a \in Words : Id(f) = <<a>>
<1>1. f \in Seq(Words)
  BY DirectoriesAssumption DEF Keyed, Names
<1>2. CASE Len(f) > 1
  <2>1. Len(f) \in 1 .. Len(f)
    BY <1>1, <1>2
  <2>2. f[Len(f)] \in Words
    BY <1>1, <2>1, ElementOfSeq
  <2> QED BY <1>2, <2>2 DEF Id
<1>3. CASE ~(Len(f) > 1)
  <2>1. Id(f) = <<"(null)">>
    BY <1>3 DEF Id
  <2>2. "(null)" \in Words
    BY NamesAssumption
  <2> QED BY <2>1, <2>2
<1> QED BY <1>2, <1>3

LEMMA SuffixFields ==
    ASSUME suffix \in Suffixes
    PROVE  FileSuffix(suffix) \in Seq(Words)
<1>1. suffix.fields \in Seq(Words) /\ suffix.atoi \in Int
  BY SuffixesAssumption
<1>2. /\ <<"092">> \in Seq(Words) /\ <<"315">> \in Seq(Words)
      /\ <<"341">> \in Seq(Words) /\ <<"350">> \in Seq(Words)
      /\ <<"355">> \in Seq(Words) /\ <<"356">> \in Seq(Words)
  BY NamesAssumption
<1>3. CASE suffix.retail
  BY <1>1, <1>3 DEF FileSuffix
<1>4. CASE ~suffix.retail
  <2>1. FileSuffix(suffix) \in {<<"092">>, <<"315">>, <<"341">>, <<"350">>, <<"355">>,
                               <<"356">>, suffix.fields}
    BY <1>1, <1>4 DEF FileSuffix
  <2> QED BY <1>1, <1>2, <2>1
<1> QED BY <1>3, <1>4

-----------------------------------------------------------------------------
\* Counters and memory of keys_get and key_get have their types, for every
\* directory: the list has one entry for each name read.
THEOREM TypeCorrect == Spec => []TypeOK
<1>1. IInv => TypeOK
  BY DEF IInv
<1> QED BY <1>1, Invariance, PTL

\* A reader with the writer's directory finds the writer's key, and everything
\* that fits is that key, for every directory and order.
THEOREM WritersKeyIsFound == Spec => []Agreement
<1>1. IInv => Agreement
  <2> SUFFICES ASSUME IInv, Signs, kpc = "done", Len(FileSuffix(suffix)) = 1
               PROVE  /\ \E m \in DOMAIN klist : Fits(m)
                      /\ \A m \in DOMAIN klist : Fits(m) =>
                            /\ klist[m].pub_avail = 1
                            /\ klist[m].pub = k.pub /\ klist[m].ctype = k.ctype
    BY DEF Agreement
  <2>1. PICK a \in Words : FileSuffix(suffix) = <<a>>
    <3>1. PICK q \in Seq(Words) : q = FileSuffix(suffix)
      BY SuffixFields DEF IInv
    <3>2. Len(q) = 1 /\ q[1] \in Words
      BY <3>1
    <3>3. <<q[1]>> \in Seq(Words) /\ Len(<<q[1]>>) = 1 /\ <<q[1]>>[1] = q[1]
      BY <3>2
    <3>4. q = <<q[1]>>
      BY <3>2, <3>3, SeqEqual
    <3> QED BY <3>1, <3>2, <3>4
  <2> DEFINE P(part) == Path(part, <<a>>)
  <2>2. /\ Whole(P("key")) /\ k.key = P("key")
        /\ Whole(P("iv")) /\ k.iv = P("iv")
        /\ Whole(P("ctype")) /\ k.ctype = P("ctype")
        /\ Whole(P("pub")) /\ k.pub = P("pub")
    BY <2>1 DEF IInv, Loaded, Signs
  <2>3. \A c : /\ Entry(<<a>>, c).key = P("key") /\ Entry(<<a>>, c).iv = P("iv")
               /\ Entry(<<a>>, c).pub = P("pub") /\ Entry(<<a>>, c).pub_avail = 1
               /\ Entry(<<a>>, c).ctype = P("ctype")
    BY <2>2, WholeValue DEF Entry, Curve
  <2>4. /\ todo = {} /\ DOMAIN klist = 1 .. Len(klist)
    BY DEF IInv, Listing, TypeOK
  <2>5. \E m \in DOMAIN klist : Fits(m)
    <3>1. P("key") = <<name, "key", a>>
      BY PathOf
    <3>2. Id(P("key")) = <<a>>
      <4>1. Len(<<name, "key", a>>) = 3 /\ <<name, "key", a>>[3] = a
        OBVIOUS
      <4>2. Id(<<name, "key", a>>) = <<a>>
        BY <4>1 DEF Id
      <4> QED BY <3>1, <4>2
    <3>3. P("key") \in Keyed
      BY <3>1, <2>2, NamesAssumption DEF Keyed, Names, Matches, Whole
    <3>4. PICK m \in 1 .. Len(klist), c \in Value : klist[m] = Entry(<<a>>, c)
      BY <2>4, <3>2, <3>3 DEF IInv, Listing
    <3> QED BY <2>2, <2>3, <2>4, <3>4 DEF Fits
  <2>6. ASSUME NEW m \in DOMAIN klist, Fits(m)
        PROVE  klist[m].pub_avail = 1 /\ klist[m].pub = k.pub /\ klist[m].ctype = k.ctype
    <3>1. PICK f \in Keyed, c \in Value : klist[m] = Entry(Id(f), c)
      BY <2>4 DEF IInv, Listing
    <3>2. PICK b \in Words : Id(f) = <<b>>
      BY IdField DEF IInv
    <3>3. key_read(Path("key", <<b>>), Zero) = Path("key", <<a>>)
      BY <2>2, <2>6, <3>1, <3>2 DEF Fits, Entry, Cleared
    <3>4. b = a
      BY <3>3, PathOnce
    <3> QED BY <2>2, <2>3, <3>1, <3>2, <3>4
  <2> QED BY <2>5, <2>6
<1> QED BY <1>1, Invariance, PTL

\* Every entry of the list is made of the files of one name that was read.
THEOREM EntriesAreNotMixed == Spec => []OneKeyPerEntry
<1>1. IInv => OneKeyPerEntry
  <2> SUFFICES ASSUME IInv, NEW m \in DOMAIN klist
               PROVE  \E f \in Keyed \ todo : LET e == klist[m]  id == Id(f) IN
                  /\ From(e.key, Path("key", id)) /\ From(e.iv, Path("iv", id))
                  /\ From(e.pub, Path("pub", id)) /\ From(e.priv, Path("priv", id))
                  /\ e.pub_avail = 1 => e.pub = Path("pub", id)
                  /\ e.pub_avail = 1 /\ Whole(Path("ctype", id))
                       => e.ctype = Path("ctype", id)
    BY DEF OneKeyPerEntry
  <2>1. PICK f \in Keyed \ todo, c \in Value : klist[m] = Entry(Id(f), c)
    BY DEF IInv, Listing, TypeOK
  <2>2. \A path : From(key_read(path, Zero), path)
    BY DEF From, key_read, Names
  <2> QED BY <2>1, <2>2, WholeValue DEF Entry, Cleared, Curve
<1> QED BY <1>1, Invariance, PTL
===============================================================================

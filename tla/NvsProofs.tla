------------------------------ MODULE NvsProofs ------------------------------
(* Proofs about the key-value store of module Nvs, for every set of keys and  *)
(* every number of entries.                                                   *)
EXTENDS Nvs, SequenceTheorems, FiniteSetTheorems, TLAPS

-----------------------------------------------------------------------------
(* The inductive invariant. *)

(* A store: every entry has a key, no key has two entries.                    *)
Proper(s) ==
  /\ s \in Image
  /\ \A i \in 1 .. Len(s) : s[i].key # NoKey
  /\ \A i, j \in 1 .. Len(s) : s[i].key = s[j].key => i = j

(* The programmed entries of a sector stand at its front, each key once.      *)
FrontProgrammed(s) ==
  \A i, j \in 1 .. Len(s) :
    i < j /\ s[j].key # NoKey => s[i].key # NoKey /\ s[i].key # s[j].key

AllGood(s) == \A i \in 1 .. Len(s) : Good(s[i])

StoreInv ==
  /\ Proper(cache)
  /\ snap # <<>> => Proper(snap[1])
  /\ FrontProgrammed(slots)
  /\ header = NoHeader => slots = <<>>
  /\ ~up => pc = "idle"
  /\ pc # "idle" => ~dirty /\ flash_crc = CacheImageCrc(cache)
  /\ pc = "header" => header = NoHeader
  /\ pc = "entries" => header \in {NoHeader, Len(cache)}

(* With sound flash the sector holds a front part of the image written last,  *)
(* s_flash_crc describes it, and what is not dirty is stored.                 *)
CleanInv ==
  clean =>
    /\ AllGood(cache)
    /\ snap # <<>> => AllGood(snap[1])
    /\ \A i \in 1 .. Len(slots) :
         slots[i].key # NoKey => i <= Len(written) /\ slots[i] = written[i] /\ Good(slots[i])
    /\ Idle => flash_crc = CacheImageCrc(Loaded(header, slots))
    /\ Idle /\ ~dirty => cache = Loaded(header, slots)
    /\ pc = "header" => written = cache
    /\ pc = "entries" => header = Len(cache) /\ written = cache

IInv == TypeOK /\ StoreInv /\ CleanInv
-----------------------------------------------------------------------------
(* Images and what is read from them. *)

LEMMA Numbers == MaxVal \in Nat \ {0} /\ MaxEntries \in Nat \ {0} /\ MaxHold \in Nat \ {0}
  BY BoundAssumption

(* An image is a sequence of at most MaxEntries entries. *)
LEMMA FunctionIsSeq ==
  ASSUME NEW S, NEW n \in Nat, NEW c \in [1 .. n -> S]
  PROVE  c \in Seq(S) /\ Len(c) = n
<1>1. c \in Seq(S)
  BY SeqDef
<1>2. Len(c) \in Nat /\ DOMAIN c = 1 .. Len(c)
  BY <1>1, LenProperties
<1>3. 1 .. Len(c) = 1 .. n
  BY <1>2
<1>4. Len(c) = n
  BY <1>2, <1>3
<1> QED
  BY <1>1, <1>4

LEMMA ImageFacts ==
  ASSUME NEW c \in Image
  PROVE  /\ c \in Seq(Entry) /\ Len(c) \in 0 .. MaxEntries /\ c \in [1 .. Len(c) -> Entry]
         /\ \A i \in 1 .. Len(c) : c[i] \in Entry
<1>1. PICK n \in 0 .. MaxEntries : c \in [1 .. n -> Entry]
  BY DEF Image
<1>2. c \in Seq(Entry) /\ Len(c) = n
  BY <1>1, FunctionIsSeq, Numbers
<1> QED
  BY <1>1, <1>2

LEMMA SeqIsImage ==
  ASSUME NEW c \in Seq(Entry), Len(c) <= MaxEntries
  PROVE  c \in Image
<1>1. Len(c) \in 0 .. MaxEntries /\ c \in [1 .. Len(c) -> Entry]
  BY LenProperties, Numbers
<1> QED
  BY <1>1 DEF Image

LEMMA EmptyImage == <<>> \in Image /\ Len(<<>>) = 0 /\ 1 .. Len(<<>>) = {}
<1>1. <<>> \in Seq(Entry) /\ Len(<<>>) = 0
  BY EmptySeq
<1>2. Len(<<>>) <= MaxEntries /\ 1 .. Len(<<>>) = {}
  BY <1>1, Numbers
<1>3. <<>> \in Image
  BY <1>1, <1>2, SeqIsImage
<1> QED
  BY <1>1, <1>2, <1>3

LEMMA EmptyProper == Proper(<<>>) /\ AllGood(<<>>)
  BY EmptyImage DEF Proper, AllGood

(* The front of an image. *)
LEMMA FrontFacts ==
  ASSUME NEW s \in Image, NEW m \in 0 .. Len(s)
  PROVE  /\ SubSeq(s, 1, m) \in Image /\ Len(SubSeq(s, 1, m)) = m
         /\ \A i \in 1 .. m : SubSeq(s, 1, m)[i] = s[i]
         /\ m = Len(s) => SubSeq(s, 1, m) = s
<1>1. s \in Seq(Entry) /\ Len(s) \in 0 .. MaxEntries /\ \A i \in 1 .. Len(s) : s[i] \in Entry
  BY ImageFacts
<1>2. m \in Int /\ \A i \in 1 .. m : s[i] \in Entry
  BY <1>1
<1>3. /\ SubSeq(s, 1, m) \in Seq(Entry)
      /\ Len(SubSeq(s, 1, m)) = IF 1 <= m THEN m - 1 + 1 ELSE 0
      /\ \A i \in 1 .. m - 1 + 1 : SubSeq(s, 1, m)[i] = s[1 + i - 1]
  BY <1>2, SubSeqProperties
<1>4. Len(SubSeq(s, 1, m)) = m /\ \A i \in 1 .. m : SubSeq(s, 1, m)[i] = s[i]
  BY <1>1, <1>3
<1>5. SubSeq(s, 1, m) \in Image
  <2>1. SubSeq(s, 1, m) \in Seq(Entry) /\ Len(SubSeq(s, 1, m)) <= MaxEntries
    BY <1>1, <1>3, <1>4, Numbers
  <2> QED
    BY <2>1, SeqIsImage
<1>6. ASSUME m = Len(s) PROVE SubSeq(s, 1, m) = s
  BY <1>1, <1>3, <1>4, <1>6, SeqEqual
<1> QED
  BY <1>4, <1>5, <1>6

LEMMA GoodCount ==
  ASSUME NEW s, NEW h \in Nat, NEW n \in 0 .. h, \A i \in 1 .. h : Good(s[i]) => i <= n
  PROVE  /\ Cardinality({i \in 1 .. h : Good(s[i])}) \in 0 .. n
         /\ (\A i \in 1 .. n : Good(s[i])) => Cardinality({i \in 1 .. h : Good(s[i])}) = n
<1> DEFINE G == {i \in 1 .. h : Good(s[i])}
<1>1. G \in SUBSET (1 .. n)
  OBVIOUS
<1>2. IsFiniteSet(1 .. n) /\ Cardinality(1 .. n) = n
  BY FS_Interval
<1>3. IsFiniteSet(G) /\ Cardinality(G) <= n
  BY <1>1, <1>2, FS_Subset
<1>4. Cardinality(G) \in Nat
  BY <1>3, FS_CardinalityType
<1>5. ASSUME \A i \in 1 .. n : Good(s[i]) PROVE Cardinality(G) = n
  <2>1. G = 1 .. n
    BY <1>5
  <2> QED
    BY <1>2, <2>1
<1> QED
  BY <1>3, <1>4, <1>5

(* What nvs_init makes active is a front part of the sector, whatever the     *)
(* entries' checks say, and a proper store.                                   *)
LEMMA LoadedFacts ==
  ASSUME NEW s \in Image, FrontProgrammed(s), NEW h \in 0 .. NoHeader,
         h # NoHeader => Len(s) = h
  PROVE  /\ Proper(Loaded(h, s)) /\ Len(Loaded(h, s)) <= Len(s)
         /\ \A i \in 1 .. Len(Loaded(h, s)) : Loaded(h, s)[i] = s[i] /\ s[i].key # NoKey
<1>1. CASE h = NoHeader
  <2>1. Loaded(h, s) = <<>> /\ Len(s) \in Nat
    BY <1>1, ImageFacts DEF Loaded
  <2> QED
    BY <2>1, EmptyProper, EmptyImage
<1>2. CASE h # NoHeader
  <2> DEFINE m == Cardinality({i \in 1 .. h : Good(s[i])})
  <2>1. h \in Nat /\ Len(s) = h
    BY <1>2, Numbers DEF NoHeader
  <2>2. m \in 0 .. h
    BY <2>1, GoodCount
  <2>3. Loaded(h, s) = SubSeq(s, 1, m)
    BY <1>2 DEF Loaded
  <2> HIDE DEF m
  <2>4. /\ Loaded(h, s) \in Image /\ Len(Loaded(h, s)) = m
        /\ \A i \in 1 .. m : Loaded(h, s)[i] = s[i]
    BY <2>1, <2>2, <2>3, FrontFacts
  <2>5. ASSUME NEW j \in 1 .. m, s[j].key = NoKey PROVE FALSE
    <3>1. ASSUME NEW i \in 1 .. h, Good(s[i]) PROVE i <= j - 1
      <4>1. s[i].key # NoKey
        BY <3>1 DEF Good
      <4>2. ~(j < i)
        BY <2>1, <2>2, <2>5, <3>1, <4>1 DEF FrontProgrammed
      <4>3. i # j
        BY <2>5, <4>1
      <4> QED
        BY <2>1, <2>2, <4>2, <4>3
    <3>2. j - 1 \in 0 .. h
      BY <2>1, <2>2
    <3>3. m \in 0 .. j - 1
      BY <2>1, <3>1, <3>2, GoodCount DEF m
    <3> QED
      BY <2>2, <3>3
  <2>6. ASSUME NEW i \in 1 .. m, NEW j \in 1 .. m, s[i].key = s[j].key PROVE i = j
    <3>1. i \in 1 .. Len(s) /\ j \in 1 .. Len(s) /\ s[i].key # NoKey
      BY <2>1, <2>2, <2>5
    <3>2. ~(i < j) /\ ~(j < i)
      BY <2>6, <3>1 DEF FrontProgrammed
    <3> QED
      BY <3>1, <3>2, <2>1
  <2> QED
    BY <2>1, <2>2, <2>4, <2>5, <2>6 DEF Proper
<1> QED
  BY <1>1, <1>2

(* A sector whose entries all pass their check is made active as it is. *)
LEMMA LoadedAll ==
  ASSUME NEW s \in Image, AllGood(s)
  PROVE  Loaded(Len(s), s) = s
<1>1. Len(s) \in 0 .. MaxEntries /\ Len(s) # NoHeader
  BY ImageFacts, Numbers DEF NoHeader
<1>2. Cardinality({i \in 1 .. Len(s) : Good(s[i])}) = Len(s)
  BY <1>1, GoodCount DEF AllGood
<1>3. Loaded(Len(s), s) = SubSeq(s, 1, Len(s))
  BY <1>1, <1>2 DEF Loaded
<1>4. Len(s) \in 0 .. Len(s)
  BY <1>1
<1> QED
  BY <1>3, <1>4, FrontFacts
-----------------------------------------------------------------------------
(* Changes of a store. *)

LEMMA EntryFacts ==
  ASSUME NEW k \in AnyKey, NEW v \in Val
  PROVE  /\ NewEntry(k, v) \in Entry /\ Good(NewEntry(k, v))
         /\ NewEntry(k, v).key = k /\ k # NoKey
<1>1. k # NoKey /\ v \in Sum
  BY KeyAssumption DEF AnyKey, Sum
<1> QED
  BY <1>1 DEF NewEntry, Entry, Good

LEMMA TornFacts == Torn \in Entry /\ Torn.key = NoKey /\ ~Good(Torn)
<1>1. 0 \in Val /\ Unset \in Sum
  BY Numbers DEF Val, Sum
<1> QED
  BY <1>1 DEF Torn, Entry, Good

(* The search finds a key where it is. *)
LEMMA FoundFacts ==
  ASSUME NEW c, Proper(c), NEW k, FindKeyIndex(c, k) # {}
  PROVE  /\ First(FindKeyIndex(c, k)) \in 1 .. Len(c)
         /\ c[First(FindKeyIndex(c, k))].key = k
<1>1. PICK i \in 1 .. Len(c) : c[i].key = k
  BY DEF FindKeyIndex
<1>2. \A j \in 1 .. Len(c) : c[j].key = k => j = i
  BY <1>1 DEF Proper
<1>3. FindKeyIndex(c, k) = {i}
  BY <1>1, <1>2 DEF FindKeyIndex
<1>4. \A j \in {i} : i <= j
  BY <1>1
<1>5. First({i}) = i
  BY <1>4 DEF First
<1> QED
  BY <1>1, <1>3, <1>5

(* Setting a key keeps a store proper and its entries valid. *)
LEMMA SetFacts ==
  ASSUME NEW c, Proper(c), NEW k \in AnyKey, NEW v \in Val, CanSet(c, k)
  PROVE  /\ Proper(SetIn(c, k, v))
         /\ AllGood(c) => AllGood(SetIn(c, k, v))
<1> DEFINE e == NewEntry(k, v)
           d == SetIn(c, k, v)
<1>1. /\ c \in Image /\ c \in Seq(Entry) /\ Len(c) \in 0 .. MaxEntries
      /\ \A i \in 1 .. Len(c) : c[i] \in Entry /\ c[i].key # NoKey
      /\ \A i, j \in 1 .. Len(c) : c[i].key = c[j].key => i = j
  BY ImageFacts DEF Proper
<1>2. e \in Entry /\ Good(e) /\ e.key = k /\ k # NoKey
  BY EntryFacts
<1> HIDE DEF e
<1>3. CASE FindKeyIndex(c, k) # {}
  <2> DEFINE i == First(FindKeyIndex(c, k))
  <2>1. i \in 1 .. Len(c) /\ c[i].key = k
    BY <1>3, FoundFacts
  <2>2. d = [c EXCEPT ![i] = e]
    BY <1>3 DEF SetIn, e
  <2> HIDE DEF i, d
  <2>3. /\ d \in Seq(Entry) /\ Len(d) = Len(c)
        /\ \A j \in 1 .. Len(c) : d[j] = IF j = i THEN e ELSE c[j]
    BY <1>1, <1>2, <2>1, <2>2, ExceptSeq
  <2>4. \A j \in 1 .. Len(d) : d[j].key = c[j].key
    BY <1>2, <2>1, <2>3
  <2>5. d \in Image
    <3>1. Len(d) <= MaxEntries
      BY <1>1, <2>3, Numbers
    <3> QED
      BY <2>3, <3>1, SeqIsImage
  <2>6. Proper(d)
    BY <1>1, <2>3, <2>4, <2>5 DEF Proper
  <2>7. AllGood(c) => AllGood(d)
    BY <1>2, <2>3 DEF AllGood
  <2> QED
    BY <2>6, <2>7 DEF d
<1>4. CASE FindKeyIndex(c, k) = {}
  <2>1. d = Append(c, e) /\ Len(c) < MaxEntries
    BY <1>4 DEF SetIn, CanSet, e
  <2> HIDE DEF d
  <2>2. /\ d \in Seq(Entry) /\ Len(d) = Len(c) + 1
        /\ \A j \in 1 .. Len(c) : d[j] = c[j]
        /\ d[Len(c) + 1] = e
    BY <1>1, <1>2, <2>1, AppendProperties
  <2>3. \A j \in 1 .. Len(c) : c[j].key # k
    BY <1>4 DEF FindKeyIndex
  <2>4. \A j \in 1 .. Len(d) : d[j] = IF j = Len(c) + 1 THEN e ELSE c[j]
    BY <1>1, <2>2
  <2>5. d \in Image
    <3>1. Len(d) <= MaxEntries
      BY <1>1, <2>1, <2>2, Numbers
    <3> QED
      BY <2>2, <3>1, SeqIsImage
  <2>6. \A j \in 1 .. Len(d) : d[j].key # NoKey
    BY <1>1, <1>2, <2>2, <2>4
  <2>7. ASSUME NEW i \in 1 .. Len(d), NEW j \in 1 .. Len(d), d[i].key = d[j].key PROVE i = j
    BY <1>1, <1>2, <2>2, <2>3, <2>4, <2>7
  <2>8. Proper(d)
    BY <2>5, <2>6, <2>7 DEF Proper
  <2>9. ASSUME AllGood(c) PROVE AllGood(d)
    BY <1>1, <1>2, <2>2, <2>4, <2>9 DEF AllGood
  <2> QED
    BY <2>8, <2>9 DEF d
<1> QED
  BY <1>3, <1>4

(* So does erasing one. *)
LEMMA EraseFacts ==
  ASSUME NEW c, Proper(c), NEW i \in 1 .. Len(c)
  PROVE  LET d == SubSeq(c, 1, i - 1) \o SubSeq(c, i + 1, Len(c))
         IN Proper(d) /\ (AllGood(c) => AllGood(d))
<1> DEFINE f == SubSeq(c, 1, i - 1)
           b == SubSeq(c, i + 1, Len(c))
           d == f \o b
<1>1. /\ c \in Image /\ c \in Seq(Entry) /\ Len(c) \in 0 .. MaxEntries /\ Len(c) \in Nat
      /\ \A j \in 1 .. Len(c) : c[j] \in Entry /\ c[j].key # NoKey
      /\ \A j, k \in 1 .. Len(c) : c[j].key = c[k].key => j = k
  BY ImageFacts DEF Proper
<1>2. f \in Seq(Entry) /\ Len(f) = i - 1 /\ \A j \in 1 .. i - 1 : f[j] = c[j]
  <2>1. i - 1 \in 0 .. Len(c)
    BY <1>1
  <2>2. f \in Image /\ Len(f) = i - 1 /\ \A j \in 1 .. i - 1 : f[j] = c[j]
    BY <1>1, <2>1, FrontFacts
  <2> QED
    BY <2>2, ImageFacts
<1>3. b \in Seq(Entry) /\ Len(b) = Len(c) - i /\ \A j \in 1 .. Len(c) - i : b[j] = c[i + j]
  <2>1. i + 1 \in Int /\ Len(c) \in Int /\ \A j \in i + 1 .. Len(c) : c[j] \in Entry
    BY <1>1
  <2>2. /\ b \in Seq(Entry)
        /\ Len(b) = IF i + 1 <= Len(c) THEN Len(c) - (i + 1) + 1 ELSE 0
        /\ \A j \in 1 .. Len(c) - (i + 1) + 1 : b[j] = c[i + 1 + j - 1]
    BY <2>1, SubSeqProperties
  <2> QED
    BY <1>1, <2>2
<1> HIDE DEF f, b
<1>4. /\ d \in Seq(Entry) /\ Len(d) = Len(f) + Len(b)
      /\ \A j \in 1 .. Len(f) + Len(b) : d[j] = IF j <= Len(f) THEN f[j] ELSE b[j - Len(f)]
  BY <1>2, <1>3, ConcatProperties
<1> HIDE DEF d
<1>5. Len(d) = Len(c) - 1 /\ \A j \in 1 .. Len(d) : d[j] = IF j < i THEN c[j] ELSE c[j + 1]
  <2>1. Len(d) = Len(c) - 1
    BY <1>1, <1>2, <1>3, <1>4
  <2>2. ASSUME NEW j \in 1 .. Len(d), j < i PROVE d[j] = c[j]
    BY <1>1, <1>2, <1>3, <1>4, <2>1, <2>2
  <2>3. ASSUME NEW j \in 1 .. Len(d), ~(j < i) PROVE d[j] = c[j + 1]
    <3>1. j - (i - 1) \in 1 .. Len(c) - i /\ ~(j <= i - 1) /\ i + (j - (i - 1)) = j + 1
      BY <1>1, <2>1, <2>3
    <3>2. d[j] = b[j - (i - 1)]
      BY <1>1, <1>2, <1>3, <1>4, <2>1, <3>1
    <3>3. b[j - (i - 1)] = c[i + (j - (i - 1))]
      BY <1>3, <3>1
    <3> QED
      BY <3>1, <3>2, <3>3
  <2> QED
    BY <2>1, <2>2, <2>3
<1>6. d \in Image
  <2>1. Len(d) <= MaxEntries
    BY <1>1, <1>5, Numbers
  <2> QED
    BY <1>4, <2>1, SeqIsImage
<1> DEFINE At(j) == IF j < i THEN j ELSE j + 1
<1>7. \A j \in 1 .. Len(d) : At(j) \in 1 .. Len(c) /\ d[j] = c[At(j)]
  BY <1>1, <1>5
<1>8. \A j, k \in 1 .. Len(d) : At(j) = At(k) => j = k
  BY <1>1, <1>5
<1> HIDE DEF At
<1>9. \A j \in 1 .. Len(d) : d[j].key # NoKey
  BY <1>1, <1>7
<1>10. ASSUME NEW j \in 1 .. Len(d), NEW k \in 1 .. Len(d), d[j].key = d[k].key PROVE j = k
  <2>1. At(j) = At(k)
    BY <1>1, <1>7, <1>10
  <2> QED
    BY <1>8, <2>1
<1>11. Proper(d)
  BY <1>6, <1>9, <1>10 DEF Proper
<1>12. AllGood(c) => AllGood(d)
  BY <1>7 DEF AllGood
<1> QED
  BY <1>11, <1>12 DEF d, f, b

(* What cache_image_crc tells apart: of images whose entries pass their       *)
(* check, everything.                                                         *)
CrcOK(x) ==
  \/ x = Unknown
  \/ \E n \in 0 .. MaxEntries : x[1] \in [1 .. n -> (AnyKey \cup {NoKey}) \X Sum]

LEMMA CrcFacts ==
  ASSUME NEW c \in Image
  PROVE  CrcOK(CacheImageCrc(c)) /\ CacheImageCrc(c) # Unknown
<1>1. Len(c) \in 0 .. MaxEntries /\ \A i \in 1 .. Len(c) : c[i] \in Entry
  BY ImageFacts
<1>2. [i \in 1 .. Len(c) |-> <<c[i].key, c[i].sum>>] \in [1 .. Len(c) -> (AnyKey \cup {NoKey}) \X Sum]
  BY <1>1 DEF Entry
<1>3. CacheImageCrc(c)[1] \in [1 .. Len(c) -> (AnyKey \cup {NoKey}) \X Sum]
  BY <1>2 DEF CacheImageCrc
<1> QED
  BY <1>1, <1>3 DEF CrcOK, CacheImageCrc, Unknown

LEMMA CrcTells ==
  ASSUME NEW c \in Image, NEW d \in Image, AllGood(c), AllGood(d),
         CacheImageCrc(c) = CacheImageCrc(d)
  PROVE  c = d
<1>1. /\ Len(c) \in Nat /\ \A i \in 1 .. Len(c) : c[i] \in Entry
      /\ Len(d) \in Nat /\ \A i \in 1 .. Len(d) : d[i] \in Entry
      /\ c \in Seq(Entry) /\ d \in Seq(Entry)
  BY ImageFacts
<1>2. [i \in 1 .. Len(c) |-> <<c[i].key, c[i].sum>>] = [i \in 1 .. Len(d) |-> <<d[i].key, d[i].sum>>]
  BY DEF CacheImageCrc
<1>3. 1 .. Len(c) = 1 .. Len(d)
  BY <1>2
<1>4. Len(c) = Len(d)
  BY <1>1, <1>3
<1>5. \A i \in 1 .. Len(c) : <<c[i].key, c[i].sum>> = <<d[i].key, d[i].sum>>
  BY <1>2, <1>3
<1>6. ASSUME NEW i \in 1 .. Len(c) PROVE c[i] = d[i]
  <2>1. c[i].key = d[i].key /\ c[i].sum = d[i].sum
    BY <1>5
  <2>2. c[i].val = c[i].sum /\ d[i].val = d[i].sum
    BY <1>4 DEF AllGood, Good
  <2>3. c[i] \in Entry /\ d[i] \in Entry
    BY <1>1, <1>4
  <2> QED
    BY <2>1, <2>2, <2>3 DEF Entry
<1> QED
  BY <1>1, <1>4, <1>6, SeqEqual
-----------------------------------------------------------------------------
(* The steps. *)

LEMMA TypeParts ==
  TypeOK <=> /\ header \in 0 .. NoHeader
             /\ slots \in Image /\ cache \in Image /\ written \in Image
             /\ header # NoHeader => Len(slots) = header
             /\ up \in BOOLEAN /\ dirty \in BOOLEAN /\ clean \in BOOLEAN /\ booting \in BOOLEAN
             /\ held \in 0 .. Unseen
             /\ pc \in {"idle", "erase", "header", "entries"}
             /\ CrcOK(flash_crc)
             /\ snap = <<>> \/ (Len(snap) = 1 /\ snap[1] \in Image)
  BY DEF TypeOK, CrcOK

LEMMA InitIInv == Init => IInv
<1> SUFFICES ASSUME Init PROVE IInv
  OBVIOUS
<1>1. TypeOK
  <2>1. NoHeader \in 0 .. NoHeader /\ Unseen \in 0 .. Unseen
    BY Numbers DEF NoHeader, Unseen
  <2>2. CrcOK(flash_crc)
    BY DEF Init, CrcOK
  <2> QED
    BY <2>1, <2>2, EmptyImage, TypeParts DEF Init
<1>2. StoreInv
  BY EmptyProper, EmptyImage DEF Init, StoreInv, FrontProgrammed
<1>3. CleanInv
  BY EmptyProper, EmptyImage DEF Init, CleanInv, Idle
<1> QED
  BY <1>1, <1>2, <1>3 DEF IInv

(* The end of nvs_init. *)
LEMMA CountBootFacts ==
  ASSUME NEW c, Proper(c), CountBoot(c)
  PROVE  /\ Proper(cache') /\ (AllGood(c) => AllGood(cache'))
         /\ dirty' \in BOOLEAN /\ (dirty' = FALSE => cache' = c)
<1> DEFINE found == FindKeyIndex(c, BootKey)
           old   == IF found = {} THEN 0 ELSE c[First(found)].val
<1>1. old \in Nat
  <2>1. CASE found = {}
    BY <2>1
  <2>2. CASE found # {}
    <3>1. First(found) \in 1 .. Len(c)
      BY <2>2, FoundFacts
    <3>2. c[First(found)] \in Entry
      BY <3>1, ImageFacts DEF Proper
    <3> QED
      BY <2>2, <3>2, Numbers DEF Entry, Val
  <2> QED
    BY <2>1, <2>2
<1>2. CASE CanSet(c, BootKey)
  <2> DEFINE v == (old + 1) % (MaxVal + 1)
  <2>1. cache' = SetIn(c, BootKey, v) /\ dirty' = TRUE
    BY <1>2 DEF CountBoot
  <2> HIDE DEF old
  <2>2. v \in Val
    BY <1>1, Numbers DEF Val
  <2> QED
    BY <1>2, <2>1, <2>2, SetFacts DEF AnyKey
<1>3. CASE ~CanSet(c, BootKey)
  BY <1>3 DEF CountBoot
<1> QED
  BY <1>2, <1>3

LEMMA LoadStep ==
  ASSUME IInv, pc = "idle", up' = TRUE, UNCHANGED <<sector, snap>>,
         NEW s \in Image, FrontProgrammed(s),
         NEW h \in 0 .. NoHeader, h # NoHeader => Len(s) = h, Load(h, s),
         clean' \in BOOLEAN, written' \in Image,
         clean' => clean /\ h = header /\ s = slots /\ written' = written
  PROVE  IInv'
<1> DEFINE l == Loaded(h, s)
<1>1. /\ Proper(l) /\ Len(l) <= Len(s)
      /\ \A i \in 1 .. Len(l) : l[i] = s[i] /\ s[i].key # NoKey
  BY LoadedFacts
<1>2. TypeOK /\ StoreInv /\ CleanInv
  BY DEF IInv
<1>3. ASSUME clean' PROVE AllGood(l)
  <2>1. \A i \in 1 .. Len(s) : s[i].key # NoKey => Good(s[i])
    BY <1>2, <1>3 DEF CleanInv
  <2>2. Len(s) \in Nat /\ Len(l) \in Nat
    BY <1>1, ImageFacts DEF Proper
  <2> QED
    BY <1>1, <2>1, <2>2 DEF AllGood
<1>4. Unseen \in 0 .. Unseen
  BY Numbers DEF Unseen
<1>5. CASE h = NoHeader
  <2>1. /\ cache' = <<>> /\ booting' = TRUE /\ pc' = "erase"
        /\ flash_crc' = CacheImageCrc(cache') /\ dirty' = FALSE /\ held' = Unseen
    BY <1>5 DEF Load, BeginFlush
  <2>2. CrcOK(flash_crc')
    BY <2>1, EmptyImage, CrcFacts
  <2>3. TypeOK'
    BY <1>2, <1>4, <2>1, <2>2, EmptyImage DEF TypeOK, CrcOK, sector
  <2>4. StoreInv'
    BY <1>2, <2>1, EmptyProper DEF StoreInv, sector
  <2>5. CleanInv'
    BY <1>2, <2>1, EmptyProper DEF CleanInv, Idle, sector
  <2> QED
    BY <2>3, <2>4, <2>5 DEF IInv
<1>6. CASE h # NoHeader
  <2>1. /\ CountBoot(l) /\ booting' = FALSE /\ pc' = "idle"
        /\ flash_crc' = CacheImageCrc(l) /\ held' = Unseen
    BY <1>6 DEF Load
  <2> HIDE DEF l
  <2>2. /\ Proper(cache') /\ (AllGood(l) => AllGood(cache'))
        /\ dirty' \in BOOLEAN /\ (dirty' = FALSE => cache' = l)
    BY <1>1, <2>1, CountBootFacts
  <2>3. CrcOK(flash_crc')
    BY <1>1, <2>1, CrcFacts DEF Proper
  <2>4. TypeOK'
    BY <1>2, <1>4, <2>1, <2>2, <2>3 DEF TypeOK, CrcOK, sector, Proper
  <2>5. StoreInv'
    BY <1>2, <2>1, <2>2 DEF StoreInv, sector
  <2>6. ASSUME clean' PROVE /\ flash_crc' = CacheImageCrc(Loaded(header', slots'))
                            /\ ~dirty' => cache' = Loaded(header', slots')
    <3>1. l = Loaded(header', slots')
      BY <2>6 DEF l, sector
    <3> QED
      BY <2>1, <2>2, <3>1
  <2>7. CleanInv'
    BY <1>2, <1>3, <2>1, <2>2, <2>6 DEF CleanInv, Idle, sector
  <2> QED
    BY <2>4, <2>5, <2>7 DEF IInv
<1> QED
  BY <1>5, <1>6

(* nvs_init, after a reset or from the self-test, its reads failing or not.   *)
LEMMA BootStep ==
  ASSUME IInv, Boot \/ BootReadFails \/ ReInit
  PROVE  IInv'
<1>1. /\ pc = "idle" /\ up' = TRUE /\ UNCHANGED <<sector, snap>>
      /\ clean \in BOOLEAN /\ written \in Image
      /\ slots \in Image /\ FrontProgrammed(slots) /\ header \in 0 .. NoHeader
      /\ header # NoHeader => Len(slots) = header
  BY DEF Boot, BootReadFails, ReInit, Idle, IInv, StoreInv, TypeOK
<1>2. CASE Boot \/ ReInit
  <2>1. Load(header, slots) /\ clean' = clean /\ written' = written
    BY <1>2 DEF Boot, ReInit, hist
  <2> QED
    BY <1>1, <2>1, LoadStep
<1>3. CASE BootReadFails
  <2>1. clean' = FALSE /\ written' = <<>> /\ (Load(NoHeader, <<>>) \/ Load(0, <<>>))
    BY <1>3 DEF BootReadFails, Fault
  <2>2. /\ <<>> \in Image /\ FrontProgrammed(<<>>) /\ Len(<<>>) = 0
        /\ 0 \in 0 .. NoHeader /\ NoHeader \in 0 .. NoHeader
    BY EmptyImage, Numbers DEF FrontProgrammed, NoHeader
  <2> QED
    BY <1>1, <2>1, <2>2, LoadStep
<1> QED
  BY <1>2, <1>3

(* nvs_set_* and nvs_erase_key: a store in RAM that has to be written. *)
LEMMA ChangeStep ==
  ASSUME IInv, (\E k \in Key, v \in Val : Set(k, v)) \/ (\E k \in AnyKey : EraseKey(k))
  PROVE  IInv'
<1>1. /\ pc = "idle" /\ up /\ dirty' = TRUE
      /\ UNCHANGED <<header, slots, up, flash_crc, held, pc, booting, snap, clean, written>>
  BY DEF Set, EraseKey, Idle, sector, hist
<1>2. Proper(cache') /\ (AllGood(cache) => AllGood(cache'))
  <2>1. Proper(cache)
    BY DEF IInv, StoreInv
  <2>2. ASSUME NEW k \in Key, NEW v \in Val, Set(k, v)
        PROVE  Proper(cache') /\ (AllGood(cache) => AllGood(cache'))
    <3>1. CanSet(cache, k) /\ cache' = SetIn(cache, k, v) /\ k \in AnyKey
      BY <2>2 DEF Set, AnyKey
    <3> QED
      BY <2>1, <3>1, SetFacts
  <2>3. ASSUME NEW k \in AnyKey, EraseKey(k)
        PROVE  Proper(cache') /\ (AllGood(cache) => AllGood(cache'))
    <3> DEFINE i == First(FindKeyIndex(cache, k))
    <3>1. i \in 1 .. Len(cache)
      BY <2>1, <2>3, FoundFacts DEF EraseKey
    <3>2. cache' = SubSeq(cache, 1, i - 1) \o SubSeq(cache, i + 1, Len(cache))
      BY <2>3 DEF EraseKey
    <3> HIDE DEF i
    <3> QED
      BY <2>1, <3>1, <3>2, EraseFacts
  <2> QED
    BY <2>2, <2>3
<1>3. TypeOK'
  BY <1>1, <1>2 DEF IInv, TypeOK, Proper
<1>4. StoreInv'
  BY <1>1, <1>2 DEF IInv, StoreInv
<1>5. CleanInv'
  BY <1>1, <1>2 DEF IInv, CleanInv, Idle
<1> QED
  BY <1>3, <1>4, <1>5 DEF IInv

(* A flush begins, of a store that is in RAM by now. *)
LEMMA FlushBegins ==
  ASSUME IInv, Idle, Proper(cache'), BeginFlush(cache'), clean => AllGood(cache'),
         UNCHANGED <<sector, up, booting, snap, hist>>
  PROVE  IInv'
<1>1. pc' = "erase" /\ dirty' = FALSE /\ flash_crc' = CacheImageCrc(cache') /\ held' = Unseen
  BY DEF BeginFlush
<1>2. Unseen \in 0 .. Unseen /\ CrcOK(flash_crc') /\ cache' \in Image
  BY <1>1, Numbers, CrcFacts DEF Unseen, Proper
<1>3. TypeOK'
  BY <1>1, <1>2 DEF IInv, TypeOK, CrcOK, sector, hist
<1>4. StoreInv'
  BY <1>1 DEF IInv, StoreInv, sector, Idle
<1>5. CleanInv'
  BY <1>1 DEF IInv, CleanInv, Idle, sector, hist
<1> QED
  BY <1>3, <1>4, <1>5 DEF IInv

(* nvs_commit, from the application or from nvs_tick: a skipped one is sound  *)
(* because the CRC fields tell the images apart.                              *)
LEMMA CommitBodyStep ==
  ASSUME IInv, Idle, CommitBody, UNCHANGED <<sector, up, cache, booting, snap, hist>>
  PROVE  IInv'
<1>1. CASE CacheImageCrc(cache) = flash_crc
  <2>1. dirty' = FALSE /\ held' = Unseen /\ UNCHANGED <<flash_crc, pc>> /\ Unseen \in 0 .. Unseen
    BY <1>1, Numbers DEF CommitBody, Unseen
  <2>2. TypeOK'
    BY <2>1 DEF IInv, TypeOK, sector, hist
  <2>3. StoreInv'
    BY <2>1 DEF IInv, StoreInv, sector, Idle
  <2>4. ASSUME clean PROVE cache = Loaded(header, slots)
    <3> DEFINE l == Loaded(header, slots)
    <3>1. /\ Proper(l) /\ Len(l) <= Len(slots) /\ slots \in Image
          /\ \A i \in 1 .. Len(l) : l[i] = slots[i] /\ slots[i].key # NoKey
      BY LoadedFacts DEF IInv, TypeOK, StoreInv
    <3>2. /\ AllGood(cache) /\ flash_crc = CacheImageCrc(l)
          /\ \A i \in 1 .. Len(slots) : slots[i].key # NoKey => Good(slots[i])
      BY <2>4 DEF IInv, CleanInv
    <3>3. Len(slots) \in Nat /\ Len(l) \in Nat
      BY <3>1, ImageFacts DEF Proper
    <3> HIDE DEF l
    <3>4. AllGood(l) /\ l \in Image /\ cache \in Image
      BY <3>1, <3>2, <3>3 DEF AllGood, Proper, IInv, TypeOK
    <3>5. cache = l
      BY <1>1, <3>2, <3>4, CrcTells
    <3> QED
      BY <3>5 DEF l
  <2>5. CleanInv'
    BY <2>1, <2>4 DEF IInv, CleanInv, Idle, sector, hist
  <2> QED
    BY <2>2, <2>3, <2>5 DEF IInv
<1>2. CASE CacheImageCrc(cache) # flash_crc
  <2>1. BeginFlush(cache')
    BY <1>2 DEF CommitBody
  <2>2. Proper(cache') /\ (clean => AllGood(cache'))
    BY DEF IInv, StoreInv, CleanInv
  <2> QED
    BY <2>1, <2>2, FlushBegins
<1> QED
  BY <1>1, <1>2

LEMMA CommitStep ==
  ASSUME IInv, Commit \/ \E busy \in BOOLEAN : Tick(busy)
  PROVE  IInv'
<1>1. Idle /\ dirty /\ UNCHANGED <<sector, up, cache, booting, snap, hist>>
  BY DEF Commit, Tick
<1>2. CASE CommitBody
  BY <1>1, <1>2, CommitBodyStep
<1>3. CASE ~CommitBody
  <2>1. held' \in 0 .. Unseen /\ UNCHANGED <<flash_crc, dirty, pc>>
    <3>1. held \in 0 .. Unseen /\ MaxHold \in Nat
      BY Numbers DEF IInv, TypeOK
    <3> QED
      BY <1>3, <3>1 DEF Commit, Tick, Unseen
  <2> QED
    BY <1>1, <2>1 DEF IInv, TypeOK, StoreInv, CleanInv, Idle, sector, hist
<1> QED
  BY <1>2, <1>3

LEMMA WholeStoreStep ==
  ASSUME IInv, EraseAll \/ SnapshotSave \/ SnapshotRestore
  PROVE  IInv'
<1>1. CASE EraseAll
  <2>1. cache' = <<>> /\ Idle /\ BeginFlush(cache') /\ UNCHANGED <<sector, up, booting, snap, hist>>
    BY <1>1 DEF EraseAll
  <2> QED
    BY <2>1, EmptyProper, FlushBegins
<1>2. CASE SnapshotRestore
  <2>1. /\ cache' = snap[1] /\ Idle /\ BeginFlush(cache') /\ snap # <<>>
        /\ UNCHANGED <<sector, up, booting, snap, hist>>
    BY <1>2 DEF SnapshotRestore
  <2>2. Proper(snap[1]) /\ (clean => AllGood(snap[1]))
    BY <2>1 DEF IInv, StoreInv, CleanInv
  <2>3. Proper(cache') /\ (clean => AllGood(cache'))
    BY <2>1, <2>2
  <2> QED
    BY <2>1, <2>3, FlushBegins
<1>3. CASE SnapshotSave
  <2>1. /\ snap' = <<cache>>
        /\ UNCHANGED <<header, slots, up, cache, flash_crc, dirty, held, pc, booting, clean, written>>
    BY <1>3 DEF SnapshotSave, sector, ram, hist
  <2>2. Len(snap') = 1 /\ snap'[1] = cache
    BY <2>1
  <2> QED
    BY <2>1, <2>2 DEF IInv, TypeOK, StoreInv, CleanInv, Idle
<1> QED
  BY <1>1, <1>2, <1>3
-----------------------------------------------------------------------------
(* flush_cache_to_flash *)

LEMMA BlankSector ==
  /\ <<>> \in Image /\ FrontProgrammed(<<>>) /\ 1 .. Len(<<>>) = {} /\ Len(<<>>) = 0
  /\ Loaded(NoHeader, <<>>) = <<>> /\ NoHeader \in 0 .. NoHeader
  BY EmptyImage, Numbers DEF FrontProgrammed, Loaded, NoHeader

(* The entries programmed so far. *)
LEMMA ProgrammedFacts ==
  ASSUME Proper(cache), NEW n \in 0 .. Len(cache)
  PROVE  /\ Programmed(n) \in Image /\ Len(Programmed(n)) = Len(cache)
         /\ \A i \in 1 .. Len(cache) : Programmed(n)[i] = IF i <= n THEN cache[i] ELSE Torn
         /\ FrontProgrammed(Programmed(n))
         /\ n = Len(cache) => Programmed(n) = cache
<1> DEFINE p == Programmed(n)
<1>1. /\ cache \in Image /\ cache \in Seq(Entry) /\ Len(cache) \in 0 .. MaxEntries
      /\ Len(cache) \in Nat
      /\ \A i \in 1 .. Len(cache) : cache[i] \in Entry /\ cache[i].key # NoKey
      /\ \A i, j \in 1 .. Len(cache) : cache[i].key = cache[j].key => i = j
  BY ImageFacts DEF Proper
<1>2. p \in [1 .. Len(cache) -> Entry]
  BY <1>1, TornFacts DEF Programmed
<1>3. \A i \in 1 .. Len(cache) : p[i] = IF i <= n THEN cache[i] ELSE Torn
  BY DEF Programmed
<1> HIDE DEF p
<1>4. p \in Seq(Entry) /\ Len(p) = Len(cache)
  BY <1>1, <1>2, FunctionIsSeq
<1>5. p \in Image
  <2>1. Len(p) <= MaxEntries
    BY <1>1, <1>4, Numbers
  <2> QED
    BY <1>4, <2>1, SeqIsImage
<1>6. FrontProgrammed(p)
  <2> SUFFICES ASSUME NEW i \in 1 .. Len(cache), NEW j \in 1 .. Len(cache), i < j, p[j].key # NoKey
               PROVE  p[i].key # NoKey /\ p[i].key # p[j].key
    BY <1>4 DEF FrontProgrammed
  <2>1. j <= n
    BY <1>3, TornFacts
  <2>2. i <= n /\ i # j
    BY <1>1, <2>1
  <2> QED
    BY <1>1, <1>3, <2>1, <2>2
<1>7. ASSUME n = Len(cache) PROVE p = cache
  <2>1. \A i \in 1 .. Len(p) : p[i] = cache[i]
    BY <1>1, <1>3, <1>4, <1>7
  <2> QED
    BY <1>1, <1>4, <2>1, SeqEqual
<1> QED
  BY <1>3, <1>4, <1>5, <1>6, <1>7 DEF p

LEMMA EraseSectorStep ==
  ASSUME IInv, EraseSector
  PROVE  IInv'
<1>1. /\ pc = "erase" /\ header' = NoHeader /\ slots' = <<>> /\ pc' = "header"
      /\ written' = (IF clean THEN cache ELSE <<>>)
      /\ UNCHANGED <<up, cache, flash_crc, dirty, held, booting, snap, clean>>
  BY DEF EraseSector, ram
<1>2. TypeOK'
  BY <1>1, BlankSector DEF IInv, TypeOK
<1>3. StoreInv'
  BY <1>1, BlankSector DEF IInv, StoreInv
<1>4. CleanInv'
  BY <1>1, BlankSector DEF IInv, CleanInv, Idle
<1> QED
  BY <1>2, <1>3, <1>4 DEF IInv

(* The return to nvs_init or to the caller of nvs_commit.  *)
LEMMA FlushEnds ==
  ASSUME IInv, pc # "idle", Finish, UNCHANGED <<up, held, snap>>,
         header' \in 0 .. NoHeader, slots' \in Image, header' # NoHeader => Len(slots') = header',
         FrontProgrammed(slots'), header' = NoHeader => slots' = <<>>,
         CrcOK(flash_crc'), clean' \in BOOLEAN, written' \in Image,
         clean' => /\ clean /\ flash_crc' = flash_crc /\ Loaded(header', slots') = cache
                   /\ \A i \in 1 .. Len(slots') :
                        slots'[i].key # NoKey =>
                          i <= Len(written') /\ slots'[i] = written'[i] /\ Good(slots'[i])
  PROVE  IInv'
<1>1. Proper(cache) /\ dirty = FALSE /\ flash_crc = CacheImageCrc(cache)
  BY DEF IInv, StoreInv, TypeOK
<1>2. /\ pc' = "idle" /\ booting' = FALSE
      /\ Proper(cache') /\ (AllGood(cache) => AllGood(cache'))
      /\ dirty' \in BOOLEAN /\ (dirty' = FALSE => cache' = cache)
  BY <1>1, CountBootFacts DEF Finish
<1>3. TypeOK'
  BY <1>2 DEF IInv, TypeOK, CrcOK, Proper
<1>4. StoreInv'
  BY <1>2 DEF IInv, StoreInv
<1>5. ASSUME clean' PROVE /\ flash_crc' = CacheImageCrc(Loaded(header', slots'))
                          /\ ~dirty' => cache' = Loaded(header', slots')
  <2>1. Loaded(header', slots') = cache /\ flash_crc' = CacheImageCrc(cache)
    BY <1>1, <1>5
  <2> QED
    BY <1>2, <2>1
<1>6. CleanInv'
  BY <1>2, <1>5 DEF IInv, CleanInv, Idle
<1> QED
  BY <1>3, <1>4, <1>6 DEF IInv

LEMMA EraseFailsStep ==
  ASSUME IInv, EraseFails
  PROVE  IInv'
<1>1. /\ pc # "idle" /\ clean' = FALSE /\ written' = <<>> /\ Finish /\ flash_crc' = Unknown
      /\ UNCHANGED <<up, held, snap>>
      /\ UNCHANGED <<header, slots>> \/ (header' = NoHeader /\ slots' = <<>>)
  BY DEF EraseFails, Fault, sector
<1>2. /\ header \in 0 .. NoHeader /\ slots \in Image /\ FrontProgrammed(slots)
      /\ header # NoHeader => Len(slots) = header
      /\ header = NoHeader => slots = <<>>
  BY DEF IInv, TypeOK, StoreInv
<1>3. CrcOK(flash_crc')
  BY <1>1 DEF CrcOK
<1>4. /\ header' \in 0 .. NoHeader /\ slots' \in Image /\ FrontProgrammed(slots')
      /\ header' # NoHeader => Len(slots') = header'
      /\ header' = NoHeader => slots' = <<>>
  BY <1>1, <1>2, BlankSector
<1> QED
  BY <1>1, <1>3, <1>4, BlankSector, FlushEnds

LEMMA WriteHeaderStep ==
  ASSUME IInv, WriteHeader \/ WriteHeaderFails
  PROVE  IInv'
<1>1. /\ pc = "header" /\ Proper(cache) /\ cache \in Image /\ Len(cache) \in 0 .. MaxEntries
      /\ up \in BOOLEAN /\ up = TRUE
      /\ CrcOK(flash_crc) /\ clean \in BOOLEAN /\ written \in Image
      /\ clean => written = cache /\ header = NoHeader
  <2>1. pc = "header" /\ Proper(cache) /\ cache \in Image /\ Len(cache) \in 0 .. MaxEntries
    BY ImageFacts DEF WriteHeader, WriteHeaderFails, IInv, StoreInv, Proper
  <2>2. CrcOK(flash_crc) /\ clean \in BOOLEAN /\ written \in Image /\ up \in BOOLEAN
    BY TypeParts DEF IInv
  <2> QED
    BY <2>1, <2>2 DEF IInv, StoreInv, CleanInv
<1>2. /\ header \in 0 .. NoHeader /\ slots \in Image /\ FrontProgrammed(slots)
      /\ header # NoHeader => Len(slots) = header
      /\ header = NoHeader => slots = <<>>
  BY DEF IInv, TypeOK, StoreInv
<1>3. /\ UNCHANGED <<up, flash_crc, held, snap>>
      /\ IF cache = <<>> THEN Finish ELSE pc' = "entries" /\ UNCHANGED <<cache, dirty, booting>>
  BY DEF WriteHeader, WriteHeaderFails
<1>4. \/ clean' = FALSE /\ written' = <<>> /\ UNCHANGED <<header, slots>>
      \/ UNCHANGED <<clean, written>> /\ header' = Len(cache) /\ slots' = Programmed(0)
  <2>1. CASE WriteHeaderFails
    BY <2>1 DEF WriteHeaderFails, Fault, sector
  <2>2. CASE WriteHeader
    <3>1. [i \in 1 .. Len(cache) |-> Torn] = Programmed(0)
      BY <1>1 DEF Programmed
    <3> QED
      BY <2>2, <3>1 DEF WriteHeader, hist
  <2> QED
    BY <2>1, <2>2
<1>5. /\ Programmed(0) \in Image /\ Len(Programmed(0)) = Len(cache) /\ FrontProgrammed(Programmed(0))
      /\ \A i \in 1 .. Len(cache) : Programmed(0)[i].key = NoKey
      /\ Len(cache) = 0 => Programmed(0) = cache
  <2>1. 0 \in 0 .. Len(cache)
    BY <1>1
  <2>2. \A i \in 1 .. Len(cache) : Programmed(0)[i] = Torn
    BY <1>1, <2>1, ProgrammedFacts
  <2> QED
    BY <1>1, <2>1, <2>2, ProgrammedFacts, TornFacts
<1>6. Len(cache) \in 0 .. NoHeader /\ Len(cache) # NoHeader
  BY <1>1, Numbers DEF NoHeader
<1>7. /\ header' \in 0 .. NoHeader /\ slots' \in Image /\ FrontProgrammed(slots')
      /\ header' # NoHeader => Len(slots') = header'
      /\ header' = NoHeader => slots' = <<>>
      /\ clean' \in BOOLEAN /\ written' \in Image
      /\ clean' => clean /\ written' = written
      /\ clean' => header' = Len(cache) /\ slots' = Programmed(0)
      /\ clean' => \A i \in 1 .. Len(slots') : slots'[i].key = NoKey
  <2>1. CASE clean' = FALSE /\ written' = <<>> /\ UNCHANGED <<header, slots>>
    BY <1>2, <2>1, BlankSector
  <2>2. CASE UNCHANGED <<clean, written>> /\ header' = Len(cache) /\ slots' = Programmed(0)
    BY <1>1, <1>5, <1>6, <2>2
  <2> QED
    BY <1>4, <2>1, <2>2
<1>8. CASE cache = <<>>
  <2>1. Loaded(Len(cache), cache) = cache /\ Len(cache) = 0
    BY <1>8, LoadedAll, EmptyProper, BlankSector
  <2>2. clean' => Loaded(header', slots') = cache
    BY <1>5, <1>7, <2>1
  <2>3. Finish /\ pc # "idle" /\ CrcOK(flash_crc')
    BY <1>1, <1>3, <1>8
  <2> QED
    BY <1>3, <1>7, <2>2, <2>3, FlushEnds
<1>9. CASE cache # <<>>
  <2>1. pc' = "entries" /\ UNCHANGED <<cache, dirty, booting, up, flash_crc, held, snap>>
    BY <1>3, <1>9
  <2>2. TypeOK'
    BY <1>7, <2>1 DEF IInv, TypeOK
  <2>3. StoreInv'
    <3>1. header' \in {NoHeader, Len(cache)}
      BY <1>1, <1>4 DEF IInv, StoreInv
    <3> QED
      BY <1>1, <1>7, <2>1, <3>1 DEF IInv, StoreInv
  <2>4. CleanInv'
    BY <1>1, <1>7, <2>1 DEF IInv, CleanInv, Idle
  <2> QED
    BY <2>2, <2>3, <2>4 DEF IInv
<1> QED
  BY <1>8, <1>9

LEMMA WriteEntriesStep ==
  ASSUME IInv, WriteEntries \/ WriteEntriesFails
  PROVE  IInv'
<1>1. /\ pc = "entries" /\ Proper(cache) /\ Len(cache) \in Nat /\ Finish
      /\ CrcOK(flash_crc) /\ clean \in BOOLEAN /\ written \in Image
      /\ header \in 0 .. NoHeader /\ UNCHANGED <<header, up, flash_crc, held, snap>>
      /\ clean => header = Len(cache) /\ written = cache /\ AllGood(cache)
  <2>1. pc = "entries" /\ Finish /\ UNCHANGED <<header, up, flash_crc, held, snap>>
    BY DEF WriteEntries, WriteEntriesFails
  <2>2. CrcOK(flash_crc) /\ clean \in BOOLEAN /\ written \in Image /\ header \in 0 .. NoHeader
    BY TypeParts DEF IInv
  <2>3. Proper(cache) /\ Len(cache) \in Nat
    BY ImageFacts DEF IInv, StoreInv, Proper
  <2>4. clean => header = Len(cache) /\ written = cache /\ AllGood(cache)
    BY <2>1 DEF IInv, CleanInv
  <2> QED
    BY <2>1, <2>2, <2>3, <2>4
<1>2. PICK n \in 0 .. Len(cache) :
        /\ slots' = IF header = NoHeader THEN <<>> ELSE Programmed(n)
        /\ \/ UNCHANGED <<clean, written>> /\ n = Len(cache)
           \/ clean' = FALSE /\ written' = <<>>
  <2>1. Len(cache) \in 0 .. Len(cache) /\ 0 .. Len(cache) - 1 \subseteq 0 .. Len(cache)
    BY <1>1
  <2> QED
    BY <2>1 DEF WriteEntries, WriteEntriesFails, Fault, hist
<1>3. /\ Programmed(n) \in Image /\ Len(Programmed(n)) = Len(cache)
      /\ FrontProgrammed(Programmed(n)) /\ (n = Len(cache) => Programmed(n) = cache)
  BY <1>1, ProgrammedFacts
<1>4. clean' \in BOOLEAN /\ written' \in Image /\ CrcOK(flash_crc')
  BY <1>1, <1>2, BlankSector
<1>5. slots' \in Image /\ FrontProgrammed(slots') /\ (header' = NoHeader => slots' = <<>>)
  BY <1>1, <1>2, <1>3, BlankSector
<1>6. header' # NoHeader => Len(slots') = header'
  BY <1>1, <1>2, <1>3 DEF IInv, StoreInv
<1>7. ASSUME clean' PROVE /\ clean /\ Loaded(header', slots') = cache
                          /\ \A i \in 1 .. Len(slots') :
                               slots'[i].key # NoKey =>
                                 i <= Len(written') /\ slots'[i] = written'[i] /\ Good(slots'[i])
  <2>1. clean /\ written' = cache /\ n = Len(cache) /\ header = Len(cache) /\ AllGood(cache)
    BY <1>1, <1>2, <1>7
  <2>2. slots' = cache
    <3>1. header # NoHeader
      BY <1>1, <2>1, ImageFacts, Numbers DEF NoHeader, Proper
    <3> QED
      BY <1>2, <1>3, <2>1, <3>1
  <2>3. Loaded(header', slots') = cache
    BY <1>1, <2>1, <2>2, LoadedAll DEF Proper
  <2> QED
    BY <1>1, <2>1, <2>2, <2>3 DEF AllGood
<1> QED
  BY <1>1, <1>4, <1>5, <1>6, <1>7, FlushEnds

(* A power loss cuts the flash call short. *)
LEMMA PowerLossStep ==
  ASSUME IInv, PowerLoss
  PROVE  IInv'
<1>1. /\ up' = FALSE /\ pc' = "idle" /\ booting' = FALSE /\ cache' = <<>> /\ flash_crc' = Unknown
      /\ dirty' = FALSE /\ held' = Unseen /\ snap' = <<>>
      /\ UNCHANGED <<clean, written>>
  BY DEF PowerLoss, hist
<1>2. /\ header \in 0 .. NoHeader /\ slots \in Image /\ FrontProgrammed(slots)
      /\ header # NoHeader => Len(slots) = header
      /\ header = NoHeader => slots = <<>>
      /\ Proper(cache) /\ Len(cache) \in Nat
      /\ pc = "entries" => header \in {NoHeader, Len(cache)}
  BY ImageFacts DEF IInv, TypeOK, StoreInv, Proper
<1>3. /\ header' \in 0 .. NoHeader /\ slots' \in Image /\ FrontProgrammed(slots')
      /\ header' # NoHeader => Len(slots') = header'
      /\ header' = NoHeader => slots' = <<>>
      /\ clean => \A i \in 1 .. Len(slots') :
                    slots'[i].key # NoKey =>
                      i <= Len(written) /\ slots'[i] = written[i] /\ Good(slots'[i])
  <2>1. CASE UNCHANGED sector
    BY <1>2, <2>1 DEF IInv, CleanInv, sector
  <2>2. CASE header' = NoHeader /\ slots' = <<>>
    BY <2>2, BlankSector
  <2>3. ASSUME pc = "entries", header # NoHeader, header' = header,
               NEW n \in 0 .. Len(cache), slots' = Programmed(n)
        PROVE  /\ header' \in 0 .. NoHeader /\ slots' \in Image /\ FrontProgrammed(slots')
               /\ header' # NoHeader => Len(slots') = header'
               /\ header' = NoHeader => slots' = <<>>
               /\ clean => \A i \in 1 .. Len(slots') :
                             slots'[i].key # NoKey =>
                               i <= Len(written) /\ slots'[i] = written[i] /\ Good(slots'[i])
    <3>1. /\ slots' \in Image /\ Len(slots') = Len(cache) /\ FrontProgrammed(slots')
          /\ \A i \in 1 .. Len(cache) : slots'[i] = IF i <= n THEN cache[i] ELSE Torn
      BY <1>2, <2>3, ProgrammedFacts
    <3>2. ASSUME clean, NEW i \in 1 .. Len(slots'), slots'[i].key # NoKey
          PROVE  i <= Len(written) /\ slots'[i] = written[i] /\ Good(slots'[i])
      <4>1. written = cache /\ AllGood(cache)
        BY <2>3, <3>2 DEF IInv, CleanInv
      <4>2. slots'[i] = cache[i]
        BY <3>1, <3>2, TornFacts
      <4> QED
        BY <1>2, <3>1, <4>1, <4>2 DEF AllGood
    <3> QED
      BY <1>2, <2>3, <3>1, <3>2
  <2> QED
    BY <2>1, <2>2, <2>3 DEF PowerLoss
<1>4. TypeOK'
  <2>1. Unseen \in 0 .. Unseen /\ CrcOK(flash_crc')
    BY <1>1, Numbers DEF Unseen, CrcOK
  <2> QED
    BY <1>1, <1>3, <2>1, BlankSector DEF IInv, TypeOK, CrcOK
<1>5. StoreInv'
  BY <1>1, <1>3, EmptyProper DEF StoreInv
<1>6. CleanInv'
  BY <1>1, <1>3, EmptyProper DEF CleanInv, Idle
<1> QED
  BY <1>4, <1>5, <1>6 DEF IInv

(* A decayed bit changes a value, never a key. *)
LEMMA DecayStep ==
  ASSUME IInv, Decay
  PROVE  IInv'
<1>1. /\ clean' = FALSE /\ written' = <<>> /\ header # NoHeader
      /\ UNCHANGED <<header, up, cache, flash_crc, dirty, held, pc, booting, snap>>
  BY DEF Decay, Fault, ram
<1>2. PICK i \in 1 .. header, v \in Val : slots' = [slots EXCEPT ![i].val = v]
  BY DEF Decay
<1>3. /\ slots \in Image /\ slots \in Seq(Entry) /\ Len(slots) = header
      /\ \A j \in 1 .. Len(slots) : slots[j] \in Entry
      /\ FrontProgrammed(slots) /\ Len(slots) <= MaxEntries
  BY <1>1, ImageFacts, Numbers DEF IInv, TypeOK, StoreInv
<1> DEFINE e == [slots[i] EXCEPT !.val = v]
<1>4. e \in Entry /\ e.key = slots[i].key
  BY <1>2, <1>3 DEF Entry
<1>5. slots' = [slots EXCEPT ![i] = e]
  BY <1>2
<1> HIDE DEF e
<1>6. /\ slots' \in Seq(Entry) /\ Len(slots') = Len(slots)
      /\ \A j \in 1 .. Len(slots) : slots'[j] = IF j = i THEN e ELSE slots[j]
  BY <1>3, <1>4, <1>5, ExceptSeq
<1>7. slots' \in Image
  BY <1>3, <1>6, SeqIsImage
<1>8. \A j \in 1 .. Len(slots) : slots'[j].key = slots[j].key
  BY <1>4, <1>6
<1>9. FrontProgrammed(slots')
  BY <1>3, <1>6, <1>8 DEF FrontProgrammed
<1>10. TypeOK'
  BY <1>1, <1>3, <1>6, <1>7, BlankSector DEF IInv, TypeOK
<1>11. StoreInv'
  BY <1>1, <1>9 DEF IInv, StoreInv
<1> QED
  BY <1>1, <1>10, <1>11 DEF IInv, CleanInv

LEMMA NextIInv ==
  ASSUME IInv, [Next]_vars
  PROVE  IInv'
<1>1. CASE Boot \/ BootReadFails \/ ReInit
  BY <1>1, BootStep
<1>2. CASE (\E k \in Key, v \in Val : Set(k, v)) \/ (\E k \in AnyKey : EraseKey(k))
  BY <1>2, ChangeStep
<1>3. CASE EraseAll \/ SnapshotSave \/ SnapshotRestore
  BY <1>3, WholeStoreStep
<1>4. CASE Commit \/ \E busy \in BOOLEAN : Tick(busy)
  BY <1>4, CommitStep
<1>5. CASE EraseSector
  BY <1>5, EraseSectorStep
<1>6. CASE EraseFails
  BY <1>6, EraseFailsStep
<1>7. CASE WriteHeader \/ WriteHeaderFails
  BY <1>7, WriteHeaderStep
<1>8. CASE WriteEntries \/ WriteEntriesFails
  BY <1>8, WriteEntriesStep
<1>9. CASE PowerLoss
  BY <1>9, PowerLossStep
<1>10. CASE Decay
  BY <1>10, DecayStep
<1>11. CASE UNCHANGED vars
  BY <1>11 DEF vars, sector, ram, hist, IInv, TypeOK, StoreInv, CleanInv, Idle
<1> QED
  BY <1>1, <1>2, <1>3, <1>4, <1>5, <1>6, <1>7, <1>8, <1>9, <1>10, <1>11 DEF Next, FlushStep
-----------------------------------------------------------------------------
(* Every reachable state satisfies the inductive invariant. *)
THEOREM Invariance == Spec => []IInv
<1>1. Init => IInv
  BY InitIInv
<1>2. IInv /\ [Next]_vars => IInv'
  BY NextIInv
<1> QED
  BY <1>1, <1>2, PTL DEF Spec

(* The store never outgrows its entries, whatever order of sets, erases and   *)
(* reloads, and its variables keep their types.                               *)
THEOREM TypeCorrect == Spec => []TypeOK
<1>1. IInv => TypeOK
  BY DEF IInv
<1> QED
  BY <1>1, Invariance, PTL

(* find_key_index has one entry to find at most, also after flash calls that  *)
(* failed, values that decayed and flushes that were cut off.                 *)
THEOREM UniqueKeys == Spec => []OneEntryPerKey
<1>1. IInv => OneEntryPerKey
  BY DEF IInv, StoreInv, Proper, OneEntryPerKey
<1> QED
  BY <1>1, Invariance, PTL

(* With sound flash, what nvs.c answers while nothing is pending is what the  *)
(* next nvs_init makes active, although nvs_commit skips writes whose image   *)
(* has the CRC of the last one.                                               *)
THEOREM Committed == Spec => []CommittedIsStored
<1>1. IInv => CommittedIsStored
  BY DEF IInv, CleanInv, CommittedIsStored
<1> QED
  BY <1>1, Invariance, PTL

(* With sound flash, a flush cut off by a reset leaves a front part of the    *)
(* image it was writing.                                                      *)
THEOREM CrashSafe == Spec => []CrashLeavesPrefix
<1>1. IInv => CrashLeavesPrefix
  <2> DEFINE found == Loaded(header, slots)
  <2> SUFFICES ASSUME IInv, clean
               PROVE  Len(found) <= Len(written) /\ found = SubSeq(written, 1, Len(found))
    BY DEF CrashLeavesPrefix
  <2>1. /\ Proper(found) /\ Len(found) <= Len(slots) /\ slots \in Image /\ written \in Image
        /\ \A i \in 1 .. Len(found) : found[i] = slots[i] /\ slots[i].key # NoKey
    BY LoadedFacts DEF IInv, TypeOK, StoreInv
  <2>2. \A i \in 1 .. Len(slots) :
          slots[i].key # NoKey => i <= Len(written) /\ slots[i] = written[i]
    BY DEF IInv, CleanInv
  <2> HIDE DEF found
  <2>3. Len(found) \in Nat /\ Len(slots) \in Nat /\ Len(written) \in Nat /\ found \in Seq(Entry)
    BY <2>1, ImageFacts DEF Proper
  <2>4. \A i \in 1 .. Len(found) : i <= Len(written) /\ found[i] = written[i]
    BY <2>1, <2>2, <2>3
  <2>5. Len(found) <= Len(written)
    BY <2>3, <2>4
  <2>6. /\ SubSeq(written, 1, Len(found)) \in Image
        /\ Len(SubSeq(written, 1, Len(found))) = Len(found)
        /\ \A i \in 1 .. Len(found) : SubSeq(written, 1, Len(found))[i] = written[i]
    BY <2>1, <2>3, <2>5, FrontFacts
  <2>7. SubSeq(written, 1, Len(found)) \in Seq(Entry)
    BY <2>6, ImageFacts
  <2>8. found = SubSeq(written, 1, Len(found))
    BY <2>3, <2>4, <2>6, <2>7, SeqEqual
  <2> QED
    BY <2>5, <2>8
<1> QED
  BY <1>1, Invariance, PTL
=============================================================================

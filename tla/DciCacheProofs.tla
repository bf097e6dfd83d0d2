---------------------------- MODULE DciCacheProofs ----------------------------
(***************************************************************************)
(* The cache of the dynamic contract indexer implements a map with         *)
(* checkpoints, for all keys, values and blocks.  The argument is about    *)
(* what is read at the n-th layer: it depends on the layers up to n only   *)
(* (ReadPrefix), a layer changes it by its own values only (ReadStep), and *)
(* merging the oldest layers into the permanent map shifts it (ReadShift). *)
(***************************************************************************)
EXTENDS DciCache, IndexLemmas

Layer == [block : Blocks, data : Maps]

Cache == [permanent : Maps, pending : Seq(Layer)]

\* The fields of a cache and of its layers.
LEMMA CacheFields ==
    ASSUME NEW c \in Cache
    PROVE  /\ c.permanent \in Maps
           /\ c.pending \in Seq(Layer)
           /\ Len(c.pending) \in Nat
           /\ \A i \in 1 .. Len(c.pending) :
                 c.pending[i].block \in Blocks /\ c.pending[i].data \in Maps
<1>1. c.permanent \in Maps /\ c.pending \in Seq(Layer)  BY DEF Cache
<1>2. \A i \in 1 .. Len(c.pending) : c.pending[i] \in Layer  BY <1>1
<1>3. Len(c.pending) \in Nat  BY <1>1
<1> QED  BY <1>1, <1>2, <1>3 DEF Layer

\* The values of a map.
LEMMA MapValue ==
    ASSUME NEW m \in Maps, NEW k \in Keys
    PROVE  m[k] = None \/ (m[k] \in Values(k) /\ m[k] # None)
BY CacheAssumption DEF Maps

\* The values of a set key are the non-empty sets.
LEMMA SetValue ==
    ASSUME NEW k \in SetKeys, NEW v
    PROVE  v \in Values(k) <=> v \in SUBSET Elements /\ v # {}
<1>1. ASSUME v \in Values(k) PROVE v \in SUBSET Elements /\ v # {}
  BY <1>1 DEF Values
<1>2. ASSUME v \in SUBSET Elements, v # {} PROVE v \in Values(k)
  <2>1. PICK e \in Elements : e \in v  BY <1>2
  <2>2. v = v \cup {e}  BY <2>1
  <2> QED  BY <1>2, <2>2 DEF Values
<1> QED  BY <1>1, <1>2

\* get returns the value of the newest layer that has one.
LEMMA GetNewest ==
    ASSUME NEW c \in Cache, NEW n \in 0 .. Len(c.pending), NEW k \in Keys
    PROVE  /\ Holders(c, n, k) = {} => Get(c, n, k) = c.permanent[k]
           /\ \A i \in Holders(c, n, k) :
                 (\A j \in i + 1 .. n : j \notin Holders(c, n, k))
                    => Get(c, n, k) = c.pending[i].data[k]
<1>1. c.pending \in Seq(Layer) /\ Len(c.pending) \in Nat
  BY CacheFields
<1>2. Holders(c, n, k) \subseteq 1 .. n  BY DEF Holders
<1>3. CASE Holders(c, n, k) = {}
  <2>1. LastIndex(c.pending, {}) = 0  BY DEF LastIndex
  <2> QED  BY <1>3, <2>1 DEF Get
<1>4. ASSUME NEW i \in Holders(c, n, k), \A j \in i + 1 .. n : j \notin Holders(c, n, k)
      PROVE  Get(c, n, k) = c.pending[i].data[k]
  <2>1. i \in 1 .. Len(c.pending)  BY <1>1, <1>2
  <2>2. \A j \in i + 1 .. Len(c.pending) : j \notin Holders(c, n, k)
    BY <1>1, <1>2, <1>4, <2>1
  <2>3. LastIndex(c.pending, Holders(c, n, k)) = i  BY <1>1, <2>1, <2>2, LastIndexIs
  <2> QED  BY <2>1, <2>3 DEF Get
<1> QED  BY <1>3, <1>4

\* The layers that have a value are none, or there is a newest one.
LEMMA NewestHolder ==
    ASSUME NEW c \in Cache, NEW n \in 0 .. Len(c.pending), NEW k \in Keys
    PROVE  \/ Holders(c, n, k) = {}
           \/ \E i \in Holders(c, n, k) : \A j \in i + 1 .. n : j \notin Holders(c, n, k)
<1>1. Holders(c, n, k) \subseteq 1 .. n  BY DEF Holders
<1>2. n \in Nat  BY CacheFields
<1> QED  BY <1>1, <1>2, GreatestIndex, Zenon

\* What is read depends on the permanent map and the first n layers only.
LEMMA ReadPrefix ==
    ASSUME NEW c \in Cache, NEW d \in Cache, NEW k \in Keys,
           NEW n \in Nat, n <= Len(c.pending), n <= Len(d.pending),
           c.permanent[k] = d.permanent[k],
           \A i \in 1 .. n : c.pending[i].data[k] = d.pending[i].data[k]
    PROVE  Read(c, n, k) = Read(d, n, k)
<1>1. n \in 0 .. Len(c.pending) /\ n \in 0 .. Len(d.pending)  BY CacheFields
<1>2. Holders(c, n, k) = Holders(d, n, k)  BY DEF Holders
<1>3. Get(c, n, k) = Get(d, n, k)
  <2>1. CASE Holders(c, n, k) = {}  BY <1>1, <1>2, <2>1, GetNewest, ZenonT(60)
  <2>2. ASSUME NEW i \in Holders(c, n, k), \A j \in i + 1 .. n : j \notin Holders(c, n, k)
        PROVE  Get(c, n, k) = Get(d, n, k)
    <3>1. i \in 1 .. n  BY DEF Holders
    <3> QED  BY <1>1, <1>2, <2>2, <3>1, GetNewest, SMTT(30)
  <2> QED  BY <1>1, <2>1, <2>2, NewestHolder, Zenon
<1>4. GetAll(c, n, k) = GetAll(d, n, k)
  <2>1. {c.pending[i].data[k] : i \in Holders(c, n, k)}
          = {d.pending[i].data[k] : i \in Holders(d, n, k)}
    BY <1>2, Zenon DEF Holders
  <2> QED  BY <1>2, <2>1, Zenon DEF GetAll
<1> QED  BY <1>3, <1>4 DEF Read

\* No layer: the permanent map is read.
LEMMA ReadZero ==
    ASSUME NEW c \in Cache, NEW k \in Keys
    PROVE  Read(c, 0, k) = c.permanent[k]
<1>1. Holders(c, 0, k) = {}  BY DEF Holders
<1>2. 0 \in 0 .. Len(c.pending)  BY CacheFields
<1> QED  BY <1>1, <1>2, GetNewest DEF Read, GetAll

\* A value of a set key is the union of the values of the layers that have one.
LEMMA InGetAll ==
    ASSUME NEW c, NEW n, NEW k, Holders(c, n, k) # {}, NEW x
    PROVE  x \in GetAll(c, n, k) <=>
              \/ \E i \in Holders(c, n, k) : x \in c.pending[i].data[k]
              \/ c.permanent[k] # None /\ x \in c.permanent[k]
<1> DEFINE U == UNION {c.pending[i].data[k] : i \in Holders(c, n, k)}
           P == IF c.permanent[k] = None THEN {} ELSE c.permanent[k]
<1>1. GetAll(c, n, k) = U \cup P  BY DEF GetAll
<1>2. x \in U <=> \E i \in Holders(c, n, k) : x \in c.pending[i].data[k]  OBVIOUS
<1>3. x \in P <=> c.permanent[k] # None /\ x \in c.permanent[k]  OBVIOUS
<1> QED  BY <1>1, <1>2, <1>3

\* The union of the values of a set key is a value of the key.
LEMMA GetAllType ==
    ASSUME NEW c \in Cache, NEW n \in 0 .. Len(c.pending), NEW k \in SetKeys,
           Holders(c, n, k) # {}
    PROVE  GetAll(c, n, k) \in Values(k) /\ GetAll(c, n, k) # None
<1>1. k \in Keys  BY CacheAssumption
<1>2. \A i \in Holders(c, n, k) :
         c.pending[i].data[k] \in SUBSET Elements /\ c.pending[i].data[k] # {}
  BY <1>1, CacheFields, MapValue, SetValue DEF Holders
<1>3. c.permanent[k] # None => c.permanent[k] \in SUBSET Elements
  BY <1>1, CacheFields, MapValue, SetValue
<1>4. PICK i \in Holders(c, n, k) : TRUE  OBVIOUS
<1>5. PICK x : x \in c.pending[i].data[k]  BY <1>2
<1>6. x \in GetAll(c, n, k)  BY <1>5, InGetAll
<1>7. \A y \in GetAll(c, n, k) : y \in Elements  BY <1>2, <1>3, InGetAll
<1>8. GetAll(c, n, k) \in SUBSET Elements /\ GetAll(c, n, k) # {}  BY <1>6, <1>7
<1>9. GetAll(c, n, k) \in Values(k)  BY <1>8, SetValue
<1> QED  BY <1>1, <1>9, CacheAssumption

\* What is read of a key, at any layer, is None or a value of the key.
LEMMA ReadType ==
    ASSUME NEW c \in Cache, NEW n \in 0 .. Len(c.pending), NEW k \in Keys
    PROVE  Read(c, n, k) = None \/ Read(c, n, k) \in Values(k)
<1>1. Holders(c, n, k) \subseteq 1 .. Len(c.pending)  BY CacheFields DEF Holders
<1>2. Holders(c, n, k) = {} => Read(c, n, k) = c.permanent[k]
  BY GetNewest DEF Read, GetAll
<1>3. c.permanent[k] = None \/ c.permanent[k] \in Values(k)  BY CacheFields, MapValue
<1>4. CASE Holders(c, n, k) # {} /\ k \in SetKeys  BY <1>4, GetAllType DEF Read
<1>5. CASE Holders(c, n, k) # {} /\ k \notin SetKeys
  <2>1. PICK i \in Holders(c, n, k) : \A j \in i + 1 .. n : j \notin Holders(c, n, k)
    BY <1>5, NewestHolder, Zenon
  <2>2. Get(c, n, k) = c.pending[i].data[k]  BY <2>1, GetNewest
  <2>3. c.pending[i].data \in Maps  BY <1>1, CacheFields
  <2> QED  BY <1>5, <2>2, <2>3, MapValue DEF Read
<1> QED  BY <1>2, <1>3, <1>4, <1>5

\* A layer changes what is read by its own value only.
LEMMA ReadStep ==
    ASSUME NEW c \in Cache, NEW n \in 1 .. Len(c.pending), NEW k \in Keys
    PROVE  Read(c, n, k) =
              IF c.pending[n].data[k] = None THEN Read(c, n - 1, k)
              ELSE Joined(k, Read(c, n - 1, k), c.pending[n].data[k])
<1> DEFINE v == c.pending[n].data[k]
<1>0. Len(c.pending) \in Nat /\ n \in 0 .. Len(c.pending) /\ n - 1 \in 0 .. Len(c.pending)
  BY CacheFields
<1>1. CASE v = None
  <2>1. Holders(c, n, k) = Holders(c, n - 1, k)  BY <1>0, <1>1 DEF Holders
  <2>2. Get(c, n, k) = Get(c, n - 1, k)  BY <2>1 DEF Get
  <2>3. GetAll(c, n, k) = GetAll(c, n - 1, k)  BY <2>1 DEF GetAll
  <2> QED  BY <1>1, <2>2, <2>3 DEF Read
<1>2. CASE v # None /\ k \notin SetKeys
  <2>1. n \in Holders(c, n, k)  BY <1>0, <1>2 DEF Holders
  <2>2. Get(c, n, k) = v  BY <1>0, <2>1, GetNewest
  <2> QED  BY <1>2, <2>2 DEF Read, Joined
<1>3. CASE v # None /\ k \in SetKeys
  <2>1. Holders(c, n, k) = Holders(c, n - 1, k) \cup {n}  BY <1>0, <1>3 DEF Holders
  <2>2. Holders(c, n, k) # {}  BY <2>1
  <2>3. CASE Holders(c, n - 1, k) = {}
    <3>1. GetAll(c, n - 1, k) = c.permanent[k]  BY <2>3 DEF GetAll
    <3>2. GetAll(c, n, k) = (UNION {v}) \cup (IF c.permanent[k] = None THEN {} ELSE c.permanent[k])
      <4>1. {c.pending[i].data[k] : i \in Holders(c, n, k)} = {v}  BY <2>1, <2>3
      <4> QED  BY <2>2, <4>1, Zenon DEF GetAll
    <3>3. UNION {v} = v  OBVIOUS
    <3>4. CASE c.permanent[k] = None
      <4>1. v \cup {} = v  OBVIOUS
      <4>2. GetAll(c, n, k) = v  BY <3>2, <3>3, <3>4, <4>1, Zenon
      <4> QED  BY <1>3, <3>1, <3>4, <4>2 DEF Read, Joined
    <3>5. CASE c.permanent[k] # None
      <4>1. GetAll(c, n, k) = c.permanent[k] \cup v  BY <3>2, <3>3, <3>5
      <4> QED  BY <1>3, <3>1, <3>5, <4>1 DEF Read, Joined
    <3> QED  BY <3>4, <3>5
  <2>4. CASE Holders(c, n - 1, k) # {}
    <3>1. \A x : x \in GetAll(c, n, k) <=> x \in GetAll(c, n - 1, k) \/ x \in v
      BY <2>1, <2>2, <2>4, InGetAll
    <3>2. GetAll(c, n, k) = GetAll(c, n - 1, k) \cup v
      BY <2>2, <2>4, <3>1 DEF GetAll
    <3>3. GetAll(c, n - 1, k) # None  BY <1>0, <1>3, <2>4, GetAllType
    <3> QED  BY <1>3, <3>2, <3>3 DEF Read, Joined
  <2> QED  BY <2>3, <2>4
<1> QED  BY <1>1, <1>2, <1>3

\* Merging the first m layers into the permanent map shifts what is read by m.
LEMMA ReadShift ==
    ASSUME NEW c \in Cache, NEW d \in Cache, NEW k \in Keys,
           NEW m \in 0 .. Len(c.pending), Len(d.pending) = Len(c.pending) - m,
           d.permanent[k] = Read(c, m, k),
           \A i \in 1 .. Len(d.pending) : d.pending[i].data[k] = c.pending[m + i].data[k],
           NEW n \in 0 .. Len(d.pending)
    PROVE  Read(d, n, k) = Read(c, m + n, k)
<1>0. Len(c.pending) \in Nat /\ Len(d.pending) \in Nat /\ m + n \in 0 .. Len(c.pending)
  BY CacheFields
<1>a. \A i \in 1 .. n : d.pending[i].data[k] = c.pending[m + i].data[k]
  <2> SUFFICES ASSUME NEW i \in 1 .. n
               PROVE  d.pending[i].data[k] = c.pending[m + i].data[k]
    OBVIOUS
  <2>1. i \in 1 .. Len(d.pending)  BY <1>0
  <2> QED  BY <2>1, Zenon
<1>1. \A j \in 1 .. n : m + j \in Holders(c, m + n, k) <=> j \in Holders(d, n, k)
  <2> SUFFICES ASSUME NEW j \in 1 .. n
               PROVE  m + j \in Holders(c, m + n, k) <=> j \in Holders(d, n, k)
    OBVIOUS
  <2>1. m + j \in 1 .. m + n  BY <1>0
  <2>2. d.pending[j].data[k] = c.pending[m + j].data[k]  BY <1>a, Zenon
  <2> QED  BY <2>1, <2>2, Zenon DEF Holders
<1>2. \A j \in 1 .. m : j \in Holders(c, m + n, k) <=> j \in Holders(c, m, k)
  BY <1>0 DEF Holders
<1>3. Holders(c, m, k) \subseteq 1 .. m /\ Holders(d, n, k) \subseteq 1 .. n
      /\ Holders(c, m + n, k) \subseteq 1 .. m + n
  BY DEF Holders
<1>4. CASE Holders(d, n, k) = {}
  <2>1. ASSUME NEW j \in Holders(c, m + n, k) PROVE j \in Holders(c, m, k)
    <3>1. CASE j <= m  BY <1>0, <1>2, <1>3, <3>1
    <3>2. CASE j > m
      <4>1. j - m \in 1 .. n /\ m + (j - m) = j  BY <1>0, <1>3, <3>2
      <4> QED  BY <1>1, <1>4, <4>1
    <3> QED  BY <1>0, <1>3, <3>1, <3>2
  <2>2. ASSUME NEW j \in Holders(c, m, k) PROVE j \in Holders(c, m + n, k)
    BY <1>2, <1>3
  <2>3. Holders(c, m + n, k) = Holders(c, m, k)  BY <2>1, <2>2, Zenon
  <2>4. Read(c, m + n, k) = Read(c, m, k)  BY <2>3, Zenon DEF Read, Get, GetAll
  <2> QED  BY <1>4, <2>4, GetNewest, SMTT(30) DEF Read, GetAll
<1>5. CASE Holders(d, n, k) # {} /\ k \notin SetKeys
  <2>1. PICK i \in Holders(d, n, k) : \A j \in i + 1 .. n : j \notin Holders(d, n, k)
    BY <1>5, NewestHolder, Zenon
  <2>2. i \in 1 .. n /\ m + i \in Holders(c, m + n, k)  BY <1>1, <1>3
  <2>3. ASSUME NEW j \in m + i + 1 .. m + n PROVE j \notin Holders(c, m + n, k)
    <3>1. j - m \in i + 1 .. n /\ j - m \in 1 .. n /\ m + (j - m) = j  BY <1>0, <2>2
    <3> QED  BY <1>1, <2>1, <3>1
  <2>4. Get(c, m + n, k) = c.pending[m + i].data[k]  BY <1>0, <2>2, <2>3, GetNewest, SMTT(30)
  <2>5. Get(d, n, k) = d.pending[i].data[k]  BY <2>1, GetNewest
  <2>6. d.pending[i].data[k] = c.pending[m + i].data[k]  BY <1>a, <2>2, Zenon
  <2> QED  BY <1>5, <2>4, <2>5, <2>6 DEF Read
<1>6. CASE Holders(d, n, k) # {} /\ k \in SetKeys
  <2>1. Holders(c, m + n, k) # {}  BY <1>1, <1>3, <1>6
  <2>2. \A x : x \in GetAll(d, n, k) => x \in GetAll(c, m + n, k)
    <3> SUFFICES ASSUME NEW x \in GetAll(d, n, k) PROVE x \in GetAll(c, m + n, k)
      OBVIOUS
    <3>1. CASE \E i \in Holders(d, n, k) : x \in d.pending[i].data[k]
      <4>1. PICK i \in Holders(d, n, k) : x \in d.pending[i].data[k]  BY <3>1
      <4>2. m + i \in Holders(c, m + n, k) /\ d.pending[i].data[k] = c.pending[m + i].data[k]
        BY <1>a, <1>1, <1>3, Zenon
      <4> QED  BY <2>1, <4>1, <4>2, InGetAll, SMTT(30)
    <3>2. CASE d.permanent[k] # None /\ x \in d.permanent[k]
      <4>1. x \in GetAll(c, m, k) /\ GetAll(c, m, k) # None  BY <1>6, <3>2 DEF Read
      <4>2. CASE Holders(c, m, k) = {}
        BY <2>1, <4>1, <4>2, InGetAll DEF GetAll
      <4>3. CASE Holders(c, m, k) # {}
        BY <1>2, <1>3, <2>1, <4>1, <4>3, InGetAll, Zenon
      <4> QED  BY <4>2, <4>3
    <3> QED  BY <1>6, <3>1, <3>2, InGetAll
  <2>3. \A x : x \in GetAll(c, m + n, k) => x \in GetAll(d, n, k)
    <3> SUFFICES ASSUME NEW x \in GetAll(c, m + n, k) PROVE x \in GetAll(d, n, k)
      OBVIOUS
    <3>1. ASSUME NEW j \in Holders(c, m + n, k), x \in c.pending[j].data[k], j > m
          PROVE  x \in GetAll(d, n, k)
      <4>1. j - m \in 1 .. n /\ m + (j - m) = j  BY <1>0, <1>3, <3>1
      <4>2. d.pending[j - m].data[k] = c.pending[m + (j - m)].data[k]
            /\ (m + (j - m) \in Holders(c, m + n, k) <=> j - m \in Holders(d, n, k))
        BY <1>a, <1>1, <4>1, Zenon
      <4>3. j - m \in Holders(d, n, k) /\ x \in d.pending[j - m].data[k]
        BY <3>1, <4>1, <4>2, Zenon
      <4> QED  BY <1>6, <4>3, InGetAll
    <3>2. ASSUME x \in GetAll(c, m, k), GetAll(c, m, k) # None
          PROVE  x \in GetAll(d, n, k)
      BY <1>6, <3>2, InGetAll DEF Read
    <3>3. ASSUME NEW j \in Holders(c, m + n, k), x \in c.pending[j].data[k], j <= m
          PROVE  x \in GetAll(d, n, k)
      <4>1. j \in Holders(c, m, k)  BY <1>0, <1>2, <1>3, <3>3
      <4>2. x \in GetAll(c, m, k) /\ GetAll(c, m, k) # None
        BY <1>6, <3>3, <4>1, InGetAll, GetAllType, SMTT(30)
      <4> QED  BY <3>2, <4>2
    <3>4. ASSUME c.permanent[k] # None, x \in c.permanent[k]
          PROVE  x \in GetAll(d, n, k)
      <4>1. CASE Holders(c, m, k) = {}  BY <3>2, <3>4, <4>1 DEF GetAll
      <4>2. CASE Holders(c, m, k) # {}
        BY <1>6, <3>2, <3>4, <4>2, InGetAll, GetAllType
      <4> QED  BY <4>1, <4>2
    <3>5. \A j \in Holders(c, m + n, k) : j <= m \/ j > m  BY <1>0, <1>3
    <3> QED  BY <2>1, <3>1, <3>3, <3>4, <3>5, InGetAll, Zenon
  <2>4. GetAll(d, n, k) \in SUBSET Elements /\ GetAll(c, m + n, k) \in SUBSET Elements
    BY <1>0, <1>6, <2>1, GetAllType, SetValue
  <2>5. GetAll(d, n, k) = GetAll(c, m + n, k)  BY <2>2, <2>3, <2>4, Zenon
  <2> QED  BY <1>6, <2>5 DEF Read
<1> QED  BY <1>4, <1>5, <1>6

Version == [block : Blocks, map : Maps]

\* What get and get_all return at a layer is a map.
LEMMA MapAtType ==
    ASSUME NEW c \in Cache, NEW n \in 0 .. Len(c.pending)
    PROVE  MapAt(c, n) \in Maps
<1>1. \A k \in Keys : Read(c, n, k) = None \/ Read(c, n, k) \in Values(k)  BY ReadType
<1>2. MapAt(c, n) \in [Keys -> (UNION {Values(k) : k \in Keys}) \cup {None}]
  BY <1>1 DEF MapAt
<1> QED  BY <1>1, <1>2 DEF Maps, MapAt

\* The checkpoints of a cache are a sequence, one for each of its layers.
LEMMA VersionsFacts ==
    ASSUME NEW c \in Cache
    PROVE  /\ Versions(c) \in Seq(Version) /\ Len(Versions(c)) = Len(c.pending)
           /\ DOMAIN Versions(c) = 1 .. Len(c.pending)
           /\ \A i \in 1 .. Len(c.pending) :
                 /\ Versions(c)[i].block = c.pending[i].block
                 /\ Versions(c)[i].map = MapAt(c, i)
           /\ Versions(c) = <<>> <=> c.pending = <<>>
<1> DEFINE e(i) == [block |-> c.pending[i].block, map |-> MapAt(c, i)]
<1>1. Len(c.pending) \in Nat /\ DOMAIN c.pending = 1 .. Len(c.pending)
  BY CacheFields, LenProperties
<1>2. \A i \in 1 .. Len(c.pending) : e(i) \in Version
  BY <1>1, CacheFields, MapAtType DEF Version
<1>3. Versions(c) = [i \in 1 .. Len(c.pending) |-> e(i)]  BY <1>1 DEF Versions
<1>4. Versions(c) \in Seq(Version) /\ Len(Versions(c)) = Len(c.pending)
  <2> HIDE DEF e
  <2>1. Versions(c) \in [1 .. Len(c.pending) -> Version]  BY <1>2, <1>3
  <2> QED  BY <1>1, <2>1, SeqDef
<1>5. Versions(c) = <<>> <=> c.pending = <<>>
  BY <1>1, <1>4, CacheFields, EmptySeq
<1> QED  BY <1>1, <1>3, <1>4, <1>5

\* A sequence that agrees element by element with the checkpoints is the checkpoints.
LEMMA SameVersions ==
    ASSUME NEW c \in Cache, NEW t \in Seq(Version), Len(t) = Len(c.pending),
           \A i \in 1 .. Len(t) : t[i].block = c.pending[i].block /\ t[i].map = MapAt(c, i)
    PROVE  Versions(c) = t
<1>1. Versions(c) \in Seq(Version) /\ Len(Versions(c)) = Len(c.pending)  BY VersionsFacts
<1>2. ASSUME NEW i \in 1 .. Len(t) PROVE Versions(c)[i] = t[i]
  <2>1. i \in 1 .. Len(Versions(c)) /\ i \in 1 .. Len(c.pending)  BY <1>1
  <2>2. t[i] \in Version /\ Versions(c)[i] \in Version
    BY <1>1, <2>1, ElementOfSeq
  <2>3. t[i].block = Versions(c)[i].block /\ t[i].map = Versions(c)[i].map
    BY <2>1, VersionsFacts
  <2> QED  BY <2>2, <2>3 DEF Version
<1> QED  BY <1>1, <1>2, SeqEqual

\* try_insert_block_layer opens a checkpoint that starts as its parent's.
LEMMA EnsureLayerOpens ==
    ASSUME NEW c \in Cache, NEW b \in Blocks, NEW d, d = EnsureLayer(c, b),
           ~(c.pending # <<>> /\ Newest(c).block = b)
    PROVE  /\ d \in Cache
           /\ MapAt(d, 0) = MapAt(c, 0)
           /\ Versions(d) = Append(Versions(c), [block |-> b, map |-> MapAt(c, Len(c.pending))])
<1> DEFINE l == [block |-> b, data |-> Empty]
           v == [block |-> b, map |-> MapAt(c, Len(c.pending))]
           n == Len(c.pending)
<1>0. Empty \in Maps  BY DEF Empty, Maps
<1>1. l \in Layer  BY <1>0 DEF Layer
<1>2. d = [c EXCEPT !.pending = Append(c.pending, l)]  BY DEF EnsureLayer
<1>3. c.pending \in Seq(Layer) /\ n \in Nat  BY CacheFields
<1>4. d \in Cache /\ d.permanent = c.permanent /\ d.pending = Append(c.pending, l)
  <2> DEFINE q == Append(c.pending, l)
  <2>1. q \in Seq(Layer)
    <3> HIDE DEF l
    <3> QED  BY <1>1, <1>3, AppendProperties
  <2> HIDE DEF q, l
  <2>2. d = [c EXCEPT !.pending = q]  BY <1>2 DEF q
  <2>3. d \in Cache /\ d.permanent = c.permanent /\ d.pending = q
    BY <2>1, <2>2 DEF Cache
  <2> QED  BY <2>3 DEF q
<1>5. Len(d.pending) = n + 1 /\ d.pending[n + 1] = l
      /\ \A i \in 1 .. n : d.pending[i] = c.pending[i]
  <2> HIDE DEF l
  <2> QED  BY <1>1, <1>3, <1>4, AppendProperties
<1>6. \A i \in 0 .. n : MapAt(d, i) = MapAt(c, i)
  <2> SUFFICES ASSUME NEW i \in 0 .. n, NEW k \in Keys PROVE Read(d, i, k) = Read(c, i, k)
    BY DEF MapAt
  <2>1. i \in Nat /\ i <= Len(c.pending) /\ i <= Len(d.pending)  BY <1>3, <1>5
  <2>2. \A j \in 1 .. i : d.pending[j] = c.pending[j]  BY <1>3, <1>5
  <2> QED  BY <1>4, <2>1, <2>2, ReadPrefix, Zenon
<1>7. MapAt(d, n + 1) = MapAt(c, n)
  <2> SUFFICES ASSUME NEW k \in Keys PROVE Read(d, n + 1, k) = Read(d, n, k)
    BY <1>3, <1>6 DEF MapAt
  <2>1. n + 1 \in 1 .. Len(d.pending) /\ (n + 1) - 1 = n  BY <1>3, <1>5
  <2>2. d.pending[n + 1].data[k] = None  BY <1>5 DEF Empty
  <2> QED  BY <1>4, <2>1, <2>2, ReadStep
<1>8. v \in Version  BY <1>3, MapAtType DEF Version
<1>9. Append(Versions(c), v) \in Seq(Version) /\ Len(Append(Versions(c), v)) = n + 1
      /\ Append(Versions(c), v)[n + 1] = v
      /\ \A i \in 1 .. n : Append(Versions(c), v)[i] = Versions(c)[i]
  <2> HIDE DEF v
  <2> QED  BY <1>3, <1>8, VersionsFacts, AppendProperties
<1>10. ASSUME NEW i \in 1 .. n + 1
       PROVE  /\ Append(Versions(c), v)[i].block = d.pending[i].block
              /\ Append(Versions(c), v)[i].map = MapAt(d, i)
  <2>1. CASE i = n + 1
    <3>1. d.pending[i].block = b /\ MapAt(d, i) = MapAt(c, n)  BY <1>5, <1>7, <2>1
    <3>2. v.block = b /\ v.map = MapAt(c, n)  OBVIOUS
    <3> HIDE DEF v
    <3> QED  BY <1>9, <2>1, <3>1, <3>2
  <2>2. CASE i \in 1 .. n  BY <1>3, <1>5, <1>6, <1>9, <2>2, VersionsFacts
  <2>3. i = n + 1 \/ i \in 1 .. n  BY <1>3
  <2> QED  BY <2>1, <2>2, <2>3, Zenon
<1>11. Versions(d) = Append(Versions(c), v)
  <2> HIDE DEF v, n
  <2> QED  BY <1>4, <1>5, <1>9, <1>10, SameVersions, Zenon
<1> QED  BY <1>3, <1>4, <1>6, <1>11

\* revert_to drops the checkpoints above the target and changes no other.
LEMMA RevertCuts ==
    ASSUME NEW c \in Cache, NEW m \in 0 .. Len(c.pending),
           NEW d, d = [c EXCEPT !.pending = SubSeq(c.pending, 1, m)]
    PROVE  /\ d \in Cache
           /\ MapAt(d, 0) = MapAt(c, 0)
           /\ Versions(d) = SubSeq(Versions(c), 1, m)
<1> DEFINE q == SubSeq(c.pending, 1, m)
           t == SubSeq(Versions(c), 1, m)
<1>1. c.pending \in Seq(Layer) /\ Len(c.pending) \in Nat /\ m \in Nat
  BY CacheFields
<1>2. /\ q \in Seq(Layer) /\ Len(q) = m
      /\ \A i \in 1 .. m : q[i] = c.pending[i]
  BY <1>1, PrefixFacts
<1>3. t \in Seq(Version) /\ Len(t) = m /\ \A i \in 1 .. m : t[i] = Versions(c)[i]
  <2>1. Versions(c) \in Seq(Version) /\ m \in 0 .. Len(Versions(c))  BY VersionsFacts
  <2> QED  BY <2>1, PrefixFacts
<1>4. d \in Cache /\ d.permanent = c.permanent /\ d.pending = q
  <2> HIDE DEF q
  <2>1. d = [c EXCEPT !.pending = q]  BY DEF q
  <2> QED  BY <1>2, <2>1 DEF Cache
<1> HIDE DEF q, t
<1>5. \A i \in 0 .. m : MapAt(d, i) = MapAt(c, i)
  <2> SUFFICES ASSUME NEW i \in 0 .. m, NEW k \in Keys PROVE Read(d, i, k) = Read(c, i, k)
    BY DEF MapAt
  <2>1. i \in Nat /\ i <= Len(c.pending) /\ i <= Len(d.pending)  BY <1>1, <1>2, <1>4
  <2>2. \A j \in 1 .. i : d.pending[j] = c.pending[j]  BY <1>1, <1>2, <1>4
  <2> QED  BY <1>4, <2>1, <2>2, ReadPrefix, Zenon
<1>6. ASSUME NEW i \in 1 .. m
      PROVE  t[i].block = d.pending[i].block /\ t[i].map = MapAt(d, i)
  <2>1. i \in 1 .. Len(c.pending) /\ i \in 0 .. m  BY <1>1
  <2>2. t[i] = Versions(c)[i] /\ d.pending[i] = c.pending[i] /\ MapAt(d, i) = MapAt(c, i)
    BY <1>2, <1>3, <1>4, <1>5, <2>1, Zenon
  <2> QED  BY <2>1, <2>2, VersionsFacts
<1>7. Versions(d) = t  BY <1>2, <1>3, <1>4, <1>6, SameVersions, Zenon
<1>8. 0 \in 0 .. m  BY <1>1
<1> QED  BY <1>4, <1>5, <1>7, <1>8, Zenon DEF t

\* handle_finality merges the first m layers and changes no other checkpoint.
LEMMA FinalityMerges ==
    ASSUME NEW c \in Cache, NEW m \in 0 .. Len(c.pending),
           NEW d, d = [permanent |-> [k \in Keys |-> Read(c, m, k)],
                       pending |-> SubSeq(c.pending, m + 1, Len(c.pending))]
    PROVE  /\ d \in Cache
           /\ MapAt(d, 0) = MapAt(c, m)
           /\ Versions(d) = SubSeq(Versions(c), m + 1, Len(Versions(c)))
<1> DEFINE n == Len(c.pending)
           q == SubSeq(c.pending, m + 1, n)
           t == SubSeq(Versions(c), m + 1, n)
<1>1. c.pending \in Seq(Layer) /\ n \in Nat /\ m \in Nat /\ m <= n
  BY CacheFields
<1>2. /\ q \in Seq(Layer) /\ Len(q) = n - m
      /\ \A i \in 1 .. n - m : q[i] = c.pending[m + i]
  BY <1>1, SuffixFacts, Zenon
<1>3. /\ t \in Seq(Version) /\ Len(t) = n - m
      /\ \A i \in 1 .. n - m : t[i] = Versions(c)[m + i]
  <2>1. Versions(c) \in Seq(Version) /\ Len(Versions(c)) = n /\ m \in 0 .. Len(Versions(c))
    BY VersionsFacts
  <2> HIDE DEF n
  <2> QED  BY <2>1, SuffixFacts
<1>4. d \in Cache /\ d.permanent = MapAt(c, m) /\ d.pending = q
  <2> HIDE DEF q
  <2> DEFINE M == MapAt(c, m)
  <2>1. d = [permanent |-> M, pending |-> q]  BY DEF q, MapAt
  <2>2. M \in Maps  BY MapAtType
  <2> HIDE DEF M
  <2>3. d \in Cache /\ d.permanent = M /\ d.pending = q  BY <1>2, <2>1, <2>2 DEF Cache
  <2> QED  BY <2>3 DEF M
<1> HIDE DEF q, t
<1>5. \A i \in 0 .. n - m : MapAt(d, i) = MapAt(c, m + i)
  <2> SUFFICES ASSUME NEW i \in 0 .. n - m, NEW k \in Keys
               PROVE  Read(d, i, k) = Read(c, m + i, k)
    BY DEF MapAt
  <2>1. d.permanent[k] = Read(c, m, k)  BY <1>4 DEF MapAt
  <2>2. \A j \in 1 .. Len(d.pending) : d.pending[j].data[k] = c.pending[m + j].data[k]
    BY <1>2, <1>4
  <2>3. Len(d.pending) = Len(c.pending) - m /\ i \in 0 .. Len(d.pending)  BY <1>2, <1>4
  <2> HIDE DEF n
  <2> QED  BY <1>4, <2>1, <2>2, <2>3, ReadShift, ZenonT(60)
<1>6. ASSUME NEW i \in 1 .. n - m
      PROVE  t[i].block = d.pending[i].block /\ t[i].map = MapAt(d, i)
  <2>1. m + i \in 1 .. Len(c.pending) /\ i \in 0 .. n - m  BY <1>1
  <2>2. t[i] = Versions(c)[m + i] /\ d.pending[i] = c.pending[m + i]
        /\ MapAt(d, i) = MapAt(c, m + i)
    BY <1>2, <1>3, <1>4, <1>5, <2>1, Zenon
  <2> QED  BY <2>1, <2>2, VersionsFacts
<1>7. Versions(d) = t  BY <1>2, <1>3, <1>4, <1>6, SameVersions, Zenon
<1>8. MapAt(d, 0) = MapAt(c, m)
  <2>1. 0 \in 0 .. n - m /\ m + 0 = m  BY <1>1
  <2> QED  BY <1>5, <2>1
<1> QED  BY <1>4, <1>7, <1>8, VersionsFacts, Zenon DEF t

\* A value joined to the newest layer is joined to what is read there.
LEMMA JoinedTwice ==
    ASSUME NEW c \in Cache, NEW n \in 1 .. Len(c.pending), NEW k \in Keys, NEW v \in Values(k)
    PROVE  Joined(k, Read(c, n - 1, k), Joined(k, c.pending[n].data[k], v))
              = Joined(k, Read(c, n, k), v)
<1> DEFINE old == c.pending[n].data[k]
           r == Read(c, n - 1, k)
<1>1. Read(c, n, k) = IF old = None THEN r ELSE Joined(k, r, old)  BY ReadStep
<1>2. CASE k \notin SetKeys  BY <1>2 DEF Joined
<1>3. CASE old = None  BY <1>1, <1>3 DEF Joined
<1>4. CASE k \in SetKeys /\ old # None
  <2>1. n \in 0 .. Len(c.pending) /\ n \in Holders(c, n, k)  BY <1>4, CacheFields DEF Holders
  <2>2. Read(c, n, k) # None  BY <1>4, <2>1, GetAllType DEF Read
  <2>3. Read(c, n, k) = Joined(k, r, old)  BY <1>1, <1>4
  <2> HIDE DEF old, r
  <2>4. Joined(k, old, v) = old \cup v  BY <1>4 DEF Joined
  <2>5. Joined(k, Read(c, n, k), v) = Joined(k, r, old) \cup v
    BY <1>4, <2>2, <2>3, SMTT(30) DEF Joined
  <2>6. CASE r = None  BY <1>4, <2>4, <2>5, <2>6, SMTT(30) DEF Joined, old, r
  <2>7. CASE r # None
    <3>1. Joined(k, r, old) = r \cup old /\ Joined(k, r, old \cup v) = r \cup (old \cup v)
      BY <1>4, <2>7 DEF Joined
    <3>2. r \cup (old \cup v) = (r \cup old) \cup v  OBVIOUS
    <3> QED  BY <2>4, <2>5, <3>1, <3>2, Zenon DEF old, r
  <2> QED  BY <2>6, <2>7
<1> QED  BY <1>2, <1>3, <1>4

\* What is joined is a value of the key.
LEMMA JoinedType ==
    ASSUME NEW k \in Keys, NEW old, old = None \/ old \in Values(k), NEW v \in Values(k)
    PROVE  Joined(k, old, v) \in Values(k) /\ Joined(k, old, v) # None
<1>1. CASE k \in SetKeys /\ old # None
  <2>1. old \in SUBSET Elements /\ v \in SUBSET Elements /\ v # {}  BY <1>1, SetValue
  <2>2. old \cup v \in SUBSET Elements /\ old \cup v # {}  BY <2>1
  <2>3. old \cup v \in Values(k)  BY <1>1, <2>2, SetValue
  <2> QED  BY <1>1, <2>3, CacheAssumption, Zenon DEF Joined
<1>2. CASE ~(k \in SetKeys /\ old # None)  BY <1>2, CacheAssumption, SMTT(30) DEF Joined
<1> QED  BY <1>1, <1>2

\* A write changes the written key at the newest checkpoint only.
LEMMA PutWrites ==
    ASSUME NEW c \in Cache, c.pending # <<>>, NEW k \in Keys, NEW v \in Values(k),
           NEW d, d = Put(c, k, v)
    PROVE  /\ d \in Cache
           /\ MapAt(d, 0) = MapAt(c, 0)
           /\ Versions(d) = [Versions(c) EXCEPT ![Len(c.pending)].map[k] =
                                IF k \in SetKeys /\ @ # None THEN @ \cup v ELSE v]
<1> DEFINE n == Len(c.pending)
           old == c.pending[n].data
           w == Joined(k, old[k], v)
           l == [block |-> c.pending[n].block, data |-> [old EXCEPT ![k] = w]]
           q == [c.pending EXCEPT ![n] = l]
           u == [block |-> c.pending[n].block,
                 map |-> [MapAt(c, n) EXCEPT ![k] = Joined(k, MapAt(c, n)[k], v)]]
           t == [Versions(c) EXCEPT ![n] = u]
<1>1. c.pending \in Seq(Layer) /\ n \in Nat /\ n \in 1 .. Len(c.pending)
  BY CacheFields, EmptySeq
<1>2. old \in Maps /\ c.pending[n].block \in Blocks /\ c.pending[n] \in Layer
  BY <1>1, CacheFields, ElementOfSeq
<1>3. w \in Values(k) /\ w # None  BY <1>2, MapValue, JoinedType
<1>4. [old EXCEPT ![k] = w] \in Maps
  <2> HIDE DEF old, w
  <2> QED  BY <1>2, <1>3, SMTT(30) DEF Maps
<1>5. l \in Layer  BY <1>2, <1>4 DEF Layer
<1>6. /\ q \in Seq(Layer) /\ Len(q) = n
      /\ \A i \in 1 .. n : q[i] = IF i = n THEN l ELSE c.pending[i]
  <2> HIDE DEF l
  <2> QED  BY <1>1, <1>5, ExceptSeq
<1>7. d = [c EXCEPT !.pending = q]
  <2>1. l = [c.pending[n] EXCEPT !.data = [old EXCEPT ![k] = w]]
    <3> HIDE DEF w
    <3> QED  BY <1>2 DEF Layer
  <2>2. d = [c EXCEPT !.pending = [c.pending EXCEPT ![n] =
                 [c.pending[n] EXCEPT !.data = [old EXCEPT ![k] = w]]]]
    BY DEF Put
  <2> HIDE DEF l, w, old, n
  <2> QED  BY <2>1, <2>2
<1>8. d \in Cache /\ d.permanent = c.permanent /\ d.pending = q
  <2> HIDE DEF q
  <2> QED  BY <1>6, <1>7, SMTT(30) DEF Cache
<1>9. \A i \in 0 .. n - 1 : MapAt(d, i) = MapAt(c, i)
  <2> SUFFICES ASSUME NEW i \in 0 .. n - 1, NEW j \in Keys PROVE Read(d, i, j) = Read(c, i, j)
    BY DEF MapAt
  <2>1. i \in Nat /\ i <= Len(c.pending) /\ i <= Len(d.pending)  BY <1>1, <1>6, <1>8
  <2>2. \A x \in 1 .. i : d.pending[x] = c.pending[x]
    <3> HIDE DEF q, l
    <3> QED  BY <1>1, <1>6, <1>8
  <2> QED  BY <1>8, <2>1, <2>2, ReadPrefix, SMTT(30)
<1>10. ASSUME NEW j \in Keys
       PROVE  Read(d, n, j) = IF j = k THEN Joined(k, Read(c, n, k), v) ELSE Read(c, n, j)
  <2>1. Read(d, n - 1, j) = Read(c, n - 1, j)
    <3>1. n - 1 \in 0 .. n - 1  BY <1>1
    <3> QED  BY <1>9, <3>1 DEF MapAt
  <2>2. d.pending[n] = l /\ n \in 1 .. Len(d.pending)
    <3> HIDE DEF l, q
    <3> QED  BY <1>1, <1>6, <1>8
  <2>3. d.pending[n].data[j] = IF j = k THEN w ELSE old[j]
    <3>1. d.pending[n].data = [old EXCEPT ![k] = w]  BY <2>2, SMTT(30)
    <3> HIDE DEF old, w, q
    <3> QED  BY <1>2, <3>1 DEF Maps
  <2>4. Read(d, n, j) = IF d.pending[n].data[j] = None THEN Read(d, n - 1, j)
                        ELSE Joined(j, Read(d, n - 1, j), d.pending[n].data[j])
    BY <1>8, <2>2, ReadStep, ZenonT(60)
  <2>5. CASE j = k
    <3>1. Joined(k, Read(c, n - 1, k), w) = Joined(k, Read(c, n, k), v)
      BY <1>1, JoinedTwice
    <3> HIDE DEF w, old, q
    <3> QED  BY <1>3, <2>1, <2>3, <2>4, <2>5, <3>1
  <2>6. CASE j # k
    <3>1. Read(c, n, j) = IF old[j] = None THEN Read(c, n - 1, j)
                          ELSE Joined(j, Read(c, n - 1, j), old[j])
      BY <1>1, ReadStep, SMTT(30)
    <3> HIDE DEF w, old, q
    <3> QED  BY <2>1, <2>3, <2>4, <2>6, <3>1
  <2> QED  BY <2>5, <2>6
<1>11. n \in 0 .. Len(c.pending) /\ n \in 0 .. Len(d.pending)  BY <1>1, <1>6, <1>8
<1>12. MapAt(d, n) = u.map
  BY <1>10, Zenon DEF MapAt
<1>13. u \in Version
  BY <1>2, <1>8, <1>11, <1>12, MapAtType DEF Version
<1>14. /\ t \in Seq(Version) /\ Len(t) = n
       /\ \A i \in 1 .. n : t[i] = IF i = n THEN u ELSE Versions(c)[i]
  <2> HIDE DEF u
  <2> QED  BY <1>1, <1>13, VersionsFacts, ExceptSeq, SMTT(30)
<1>15. ASSUME NEW i \in 1 .. n
       PROVE  t[i].block = d.pending[i].block /\ t[i].map = MapAt(d, i)
  <2>1. CASE i = n
    <3>1. t[i] = u /\ d.pending[i] = l
      <4> HIDE DEF t, u, q, l
      <4> QED  BY <1>1, <1>6, <1>8, <1>14, <2>1, SMTT(30)
    <3> QED  BY <1>12, <2>1, <3>1
  <2>2. CASE i # n
    <3>1. t[i] = Versions(c)[i] /\ d.pending[i] = c.pending[i]
      <4> HIDE DEF t, u, q, l
      <4> QED  BY <1>1, <1>6, <1>8, <1>14, <2>2
    <3>2. i \in 0 .. n - 1  BY <1>1, <2>2
    <3> QED  BY <1>1, <1>9, <3>1, <3>2, VersionsFacts, SMTT(30)
  <2> QED  BY <2>1, <2>2
<1>16. Versions(d) = t
  <2> HIDE DEF t, u, q, l
  <2> QED  BY <1>6, <1>8, <1>14, <1>15, SameVersions, SMTT(30)
<1>17. t = [Versions(c) EXCEPT ![n].map[k] =
               IF k \in SetKeys /\ @ # None THEN @ \cup v ELSE v]
  <2>1. Versions(c)[n].block = c.pending[n].block /\ Versions(c)[n].map = MapAt(c, n)
    BY <1>1, VersionsFacts
  <2>2. Versions(c)[n] \in Version  BY <1>1, VersionsFacts, ElementOfSeq
  <2> QED  BY <2>1, <2>2, Zenon DEF Version, Joined
<1>18. MapAt(d, 0) = MapAt(c, 0)
  <2>1. 0 \in 0 .. n - 1  BY <1>1
  <2> QED  BY <1>9, <2>1
<1> QED  BY <1>8, <1>16, <1>17, <1>18

\* Each call of the cache is a step of the map with checkpoints, and keeps the
\* cache well formed.
LEMMA CallIsMapStep ==
    TypeOK /\ Next => TypeOK' /\ (Map!Next \/ UNCHANGED <<MapAt(cache, 0), Versions(cache)>>)
<1> SUFFICES ASSUME TypeOK, Next
             PROVE  TypeOK' /\ (Map!Next \/ UNCHANGED <<MapAt(cache, 0), Versions(cache)>>)
  OBVIOUS
<1>1. cache \in Cache  BY DEF TypeOK, Cache, Layer
<1>2. cache' \in Cache => TypeOK'  BY DEF TypeOK, Cache, Layer
<1>3. /\ Len(Versions(cache)) = Len(cache.pending)
      /\ DOMAIN Versions(cache) = 1 .. Len(cache.pending)
      /\ Versions(cache) = <<>> <=> cache.pending = <<>>
      /\ \A i \in 1 .. Len(cache.pending) :
            /\ Versions(cache)[i].block = cache.pending[i].block
            /\ Versions(cache)[i].map = MapAt(cache, i)
  BY <1>1, VersionsFacts
<1>4. /\ Len(cache.pending) \in Nat /\ cache.pending \in Seq(Layer)
      /\ cache.pending # <<>> => Len(cache.pending) \in 1 .. Len(cache.pending)
      /\ DOMAIN cache.pending = 1 .. Len(cache.pending)
  BY <1>1, CacheFields, EmptySeq, LenProperties
<1>5. ASSUME NEW b \in Blocks, TryInsertBlockLayer(b)
      PROVE  cache' \in Cache /\ (Map!Open(b) \/ UNCHANGED <<MapAt(cache, 0), Versions(cache)>>)
  <2>1. CASE cache.pending # <<>> /\ Newest(cache).block = b
    <3>1. cache' = cache  BY <1>5, <2>1 DEF TryInsertBlockLayer, EnsureLayer
    <3> QED  BY <1>1, <3>1
  <2>2. CASE ~(cache.pending # <<>> /\ Newest(cache).block = b)
    <3>1. /\ cache' \in Cache /\ MapAt(cache', 0) = MapAt(cache, 0)
          /\ Versions(cache') = Append(Versions(cache),
                [block |-> b, map |-> MapAt(cache, Len(cache.pending))])
      BY <1>1, <1>5, <2>2, EnsureLayerOpens, SMTT(30) DEF TryInsertBlockLayer
    <3>2. Versions(cache) = <<>> \/ Versions(cache)[Len(Versions(cache))].block.hash = b.parent
      BY <1>3, <1>4, <1>5, <2>2, SMTT(30) DEF TryInsertBlockLayer, LayerFails, Newest
    <3>3. MapAt(cache, Len(cache.pending)) =
            IF Versions(cache) = <<>> THEN MapAt(cache, 0)
            ELSE Versions(cache)[Len(Versions(cache))].map
      BY <1>3, <1>4, EmptySeq, SMTT(30)
    <3>4. MapAt(cache, 0)' = MapAt(cache', 0) /\ Versions(cache)' = Versions(cache')
      BY DEF MapAt, Versions
    <3> QED  BY <3>1, <3>2, <3>3, <3>4, SMTT(30) DEF Map!Open, Map!Top, Map!Current
  <2> QED  BY <2>1, <2>2
<1>6. ASSUME NEW k \in Keys, NEW v \in Values(k), Write(k, v)
      PROVE  cache' \in Cache /\ Map!Put(k, v)
  <2>1. /\ cache' \in Cache /\ MapAt(cache', 0) = MapAt(cache, 0)
        /\ Versions(cache') = [Versions(cache) EXCEPT ![Len(cache.pending)].map[k] =
                                  IF k \in SetKeys /\ @ # None THEN @ \cup v ELSE v]
    BY <1>1, <1>6, PutWrites DEF Write
  <2> QED  BY <1>3, <1>6, <2>1, SMTT(30) DEF Map!Put, Write
<1>7. ASSUME NEW b \in Blocks, Finality(b.number)
      PROVE  cache' \in Cache /\ Map!Finalize(b.number)
  <2> DEFINE i == LayerOfHeight(cache, b.number)
             m == FinalizedCount(cache, b.number)
  <2>1. i \in 0 .. Len(cache.pending)
        /\ (i # 0 => i \in DOMAIN cache.pending /\ cache.pending[i].block.number = b.number)
    <3> DEFINE I == {j \in DOMAIN cache.pending : cache.pending[j].block.number = b.number}
    <3>1. i = FirstIndex(cache.pending, I)  BY DEF LayerOfHeight
    <3>2. i \in 0 .. Len(cache.pending) /\ (i # 0 => i \in I)
      <4> HIDE DEF I
      <4> QED  BY <1>4, <3>1, FirstIndexFound
    <3> HIDE DEF i
    <3> QED  BY <3>2
  <2>2. m \in 0 .. Len(cache.pending)
        /\ (cache.pending # <<>> => i \in 1 .. Len(cache.pending) /\ m = i - 1)
    BY <1>4, <1>7, <2>1 DEF FinalizedCount, Finality, FinalityFails
  <2>3. /\ cache' \in Cache /\ MapAt(cache', 0) = MapAt(cache, m)
        /\ Versions(cache') = SubSeq(Versions(cache), m + 1, Len(Versions(cache)))
    <3>1. cache' = [permanent |-> [k \in Keys |-> Read(cache, m, k)],
                    pending |-> SubSeq(cache.pending, m + 1, Len(cache.pending))]
      BY <1>7 DEF Finality, HandleFinality
    <3> HIDE DEF m
    <3> QED  BY <1>1, <2>2, <3>1, FinalityMerges, Zenon
  <2>4. CASE cache.pending = <<>>
    <3>1. m = 0 /\ Len(Versions(cache)) = 0  BY <1>3, <2>4, EmptySeq DEF FinalizedCount
    <3>2. SubSeq(Versions(cache), m + 1, Len(Versions(cache))) = <<>>
      BY <3>1, SubSeqEmpty
    <3>3. Versions(cache') = Versions(cache) /\ MapAt(cache', 0) = MapAt(cache, 0)
      BY <1>3, <2>3, <2>4, <3>1, <3>2
    <3> QED  BY <1>3, <2>3, <2>4, <3>3, SMTT(30) DEF Map!Finalize
  <2>5. CASE cache.pending # <<>>
    <3>1. i \in DOMAIN Versions(cache) /\ Versions(cache)[i].block.number = b.number
      BY <1>3, <2>1, <2>2, <2>5
    <3>2. m + 1 = i  BY <1>4, <2>2, <2>5
    <3>3. MapAt(cache, m) = IF i = 1 THEN MapAt(cache, 0) ELSE Versions(cache)[i - 1].map
      <4>1. m \in 1 .. Len(cache.pending) \/ i = 1  BY <1>4, <2>2, <2>5
      <4> HIDE DEF i, m
      <4> QED  BY <1>3, <1>4, <2>2, <2>5, <4>1
    <3> HIDE DEF i, m
    <3> QED  BY <2>3, <3>1, <3>2, <3>3, Zenon DEF Map!Finalize
  <2> QED  BY <2>4, <2>5
<1>8. ASSUME NEW h \in Hashes, Revert(h)
      PROVE  cache' \in Cache /\ Map!Revert(h)
  <2> DEFINE i == LayerOfHash(cache, h)
  <2>1. /\ i \in 0 .. Len(cache.pending)
        /\ i # 0 => i \in DOMAIN cache.pending /\ cache.pending[i].block.hash = h
        /\ i = 0 => \A j \in 1 .. Len(cache.pending) : cache.pending[j].block.hash # h
    <3> DEFINE I == {j \in DOMAIN cache.pending : cache.pending[j].block.hash = h}
    <3>1. i = LastIndex(cache.pending, I)  BY DEF LayerOfHash
    <3>2. /\ i \in 0 .. Len(cache.pending)
          /\ i # 0 => i \in I
          /\ \A j \in i + 1 .. Len(cache.pending) : j \notin I
      <4> HIDE DEF I
      <4> QED  BY <1>4, <3>1, LastIndexFound
    <3> HIDE DEF i
    <3>3. i = 0 => \A j \in 1 .. Len(cache.pending) : j \notin I
      <4> HIDE DEF I
      <4> QED  BY <1>4, <3>2
    <3>4. i # 0 => i \in DOMAIN cache.pending /\ cache.pending[i].block.hash = h
      BY <3>2, Zenon
    <3>5. i = 0 => \A j \in 1 .. Len(cache.pending) : cache.pending[j].block.hash # h
      BY <1>4, <3>3, Zenon
    <3> QED  BY <3>2, <3>4, <3>5
  <2>2. /\ cache' \in Cache /\ MapAt(cache', 0) = MapAt(cache, 0)
        /\ Versions(cache') = SubSeq(Versions(cache), 1, i)
    <3>1. cache' = [cache EXCEPT !.pending = SubSeq(cache.pending, 1, i)]
      BY <1>8 DEF Revert, RevertTo
    <3> HIDE DEF i
    <3> QED  BY <1>1, <2>1, <3>1, RevertCuts
  <2> HIDE DEF i
  <2>3. CASE i # 0
    <3>1. i \in DOMAIN Versions(cache) /\ Versions(cache)[i].block.hash = h
      BY <1>3, <1>4, <2>1, <2>3
    <3> QED  BY <2>2, <3>1, Zenon DEF Map!Revert
  <2>4. CASE i = 0
    <3>1. Versions(cache') = <<>>  BY <2>2, <2>4, SubSeqEmpty
    <3>2. cache.pending # <<>> => cache.pending[1].block.parent = h
      BY <1>8, <2>4 DEF Revert, RevertFails, i
    <3>3. cache.pending # <<>> => Versions(cache)[1].block.parent = h  BY <1>3, <1>4, <3>2
    <3>4. CASE cache.pending = <<>>  BY <1>3, <2>2, <3>1, <3>4, SMTT(30) DEF Map!Revert
    <3>5. CASE cache.pending # <<>>
      <4>1. \A j \in DOMAIN Versions(cache) : Versions(cache)[j].block.hash # h
        BY <1>3, <2>1, <2>4
      <4>2. Versions(cache) # <<>> /\ Versions(cache)[1].block.parent = h
        BY <1>3, <3>3, <3>5
      <4> QED  BY <2>2, <3>1, <4>1, <4>2 DEF Map!Revert
    <3> QED  BY <3>4, <3>5
  <2> QED  BY <2>3, <2>4
<1> QED  BY <1>2, <1>5, <1>6, <1>7, <1>8 DEF Next, Map!Next

\* The maps of the cache stay well typed under any sequence of calls.
THEOREM CacheTypeCorrect == Spec => []TypeOK
<1>1. Init => TypeOK
  <2> SUFFICES ASSUME Init PROVE TypeOK
    OBVIOUS
  <2>1. cache \in Cache  BY EmptySeq, Zenon DEF Init, Cache
  <2> QED  BY <2>1 DEF Cache, Layer, TypeOK
<1>2. TypeOK /\ [Next]_cache => TypeOK'
  BY CallIsMapStep DEF TypeOK
<1> QED  BY <1>1, <1>2, PTL DEF Spec

\* The cache implements the map with checkpoints, for all keys, values, blocks
\* and sequences of try_insert_block_layer, writes, handle_finality and revert_to.
THEOREM CacheImplementsMap == Spec => ImplementsBlockMap
<1>1. Init => Map!Init
  <2> SUFFICES ASSUME Init PROVE Map!Init
    OBVIOUS
  <2>1. cache \in Cache /\ cache.pending = <<>>  BY EmptySeq, Zenon DEF Init, Cache
  <2>2. MapAt(cache, 0) \in Maps
    BY <2>1, CacheFields, MapAtType
  <2> QED  BY <2>1, <2>2, VersionsFacts DEF Map!Init
<1>2. TypeOK /\ [Next]_cache => [Map!Next]_<<MapAt(cache, 0), Versions(cache)>>
  <2>1. CASE Next  BY <2>1, CallIsMapStep
  <2>2. CASE UNCHANGED cache  BY <2>2 DEF MapAt, Versions
  <2> QED  BY <2>1, <2>2
<1> QED  BY <1>1, <1>2, CacheTypeCorrect, PTL DEF Spec, ImplementsBlockMap, Map!Spec

=============================================================================

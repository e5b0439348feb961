-------------------------- MODULE NodeCacheProofs ---------------------------
(* Proofs about NodeCache, for any runtime, keys, values and sizes: the last  *)
(* view shows the last get(), native memory is safe, and a hit is the latest  *)
(* value as long as different keys, and the two paths of one key, are told    *)
(* apart by the same bytes.                                                   *)
EXTENDS NodeCache, TLAPS

(* How the native struct, the engine and the Cache of JavaScript hang         *)
(* together: the engine is freed when and only when closed is set, and while  *)
(* JavaScript holds the Cache only its own close() sets it.                   *)
Ownership ==
    /\ life = "none" => ~closed /\ ~js_closed /\ ~handle /\ deinits = 0 /\ view = Null
    /\ life # "none" => (handle <=> ~closed)
    /\ deinits = IF closed THEN 1 ELSE 0
    /\ life = "live" => (closed <=> js_closed)
    /\ life \in {"none", "live"} => frees = 0
    /\ frees = 0 \/ (frees = 1 /\ closed)
    /\ runtime = "node" /\ view # Null => frees = 0

(* The cached view lies in the scratch buffer of this moment.                 *)
CachedInScratch ==
    /\ MayCall => scratch \in Buffers
    /\ life = "none" => cached = Null
    /\ cached # Null => cached.buffer = scratch

ViewInv == TypeOK /\ CachedInScratch /\ ViewShowsLastGet

-----------------------------------------------------------------------------
(* Reading a string on Bun.                                                   *)

LEMMA LengthsAreNat ==
    /\ \A v \in Values : Length[v] \in Nat
    /\ Lengths \subseteq Nat /\ Buffers \subseteq Nat
  BY SizesAssumption DEF Lengths, Buffers

(* The attempt that read_string_or_buffer() stops at is an accepted one.      *)
LEMMA StopsAccepted ==
  ASSUME NEW n \in Nat, NEW capacity \in Nat, Stops(n, capacity) # Null
  PROVE  Stops(n, capacity) \in Nat /\ Accepted(n, Stops(n, capacity))
  <1> DEFINE good == {c \in Attempts(capacity) : Accepted(n, c)}
  <1>1. good # {} /\ good \subseteq Nat
    BY DEF Stops, Attempts
  <1>2. \E c \in good : \A d \in good : c <= d
    <2>1. CASE capacity \in good
      BY <2>1 DEF Attempts
    <2>2. CASE capacity \notin good /\ 2 * capacity \in good
      BY <2>2 DEF Attempts
    <2>3. CASE {capacity, 2 * capacity} \cap good = {} /\ 4 * capacity \in good
      BY <2>3 DEF Attempts
    <2>4. CASE {capacity, 2 * capacity, 4 * capacity} \cap good = {}
      BY <1>1, <2>4 DEF Attempts
    <2> QED BY <2>1, <2>2, <2>3, <2>4
  <1>3. Stops(n, capacity) = CHOOSE c \in good : \A d \in good : c <= d
    BY <1>1 DEF Stops
  <1>4. Stops(n, capacity) \in good
    BY <1>2, <1>3
  <1> QED BY <1>1, <1>4

(* A string that is not refused is read whole, and leaves the storage as long *)
(* as itself.                                                                 *)
LEMMA ReadWhole ==
  ASSUME NEW n \in Nat, NEW size \in Nat
  PROVE  /\ SizeAfter(n, size) \in Nat
         /\ ReadCapacity(n, size) # Null => SizeAfter(n, size) = n
  <1>1. Capacity(size) \in Nat /\ 8 * Capacity(size) + 1 \in Nat
    BY SizesAssumption DEF Capacity
  <1>2. ReadCapacity(n, size) # Null =>
          ReadCapacity(n, size) \in Nat /\ Accepted(n, ReadCapacity(n, size))
    BY <1>1, StopsAccepted DEF ReadCapacity
  <1>3. ReadCapacity(n, size) # Null => SizeAfter(n, size) = n
    BY <1>2 DEF SizeAfter, Accepted, Written
  <1> QED BY <1>1, <1>3 DEF SizeAfter

(* What a set() stores is a whole value.                                      *)
LEMMA BunSetStores ==
  ASSUME TypeOK, NEW k \in Keys, NEW v \in Values,
         NEW kind \in {"string", "buffer"}, BunSet(k, v, kind)
  PROVE  /\ value_storage' \in Nat
         /\ \/ /\ store' = [store EXCEPT ![BunBytes(k)] = Item(v, Length[v])]
               /\ latest' = [latest EXCEPT ![k] = v]
            \/ UNCHANGED <<store, latest>>
  <1>1. Length[v] \in Nat /\ value_storage \in Nat
    BY LengthsAreNat DEF TypeOK
  <1>2. SizeAfter(Length[v], value_storage) \in Nat
    BY <1>1, ReadWhole
  <1>3. ReadCapacity(Length[v], value_storage) # Null =>
          SizeAfter(Length[v], value_storage) = Length[v]
    BY <1>1, ReadWhole
  <1>4. CASE kind = "string"
    BY <1>2, <1>3, <1>4 DEF BunSet
  <1>5. CASE kind = "buffer"
    BY <1>1, <1>5 DEF BunSet
  <1> QED BY <1>4, <1>5

LEMMA BytesOfKeys ==
  ASSUME NEW k \in Keys
  PROVE  {Latin1[k], Utf8[k], BunBytes(k)} \subseteq ByteStrings
  BY DEF ByteStrings, BunBytes

LEMMA NodeBytesOfKeys ==
  ASSUME NEW k \in Keys, NEW path, NEW room
  PROVE  NodeBytes(k, path, room) \in ByteStrings
  BY BytesOfKeys DEF NodeBytes, FastBytes, ReadBytes

LEMMA ItemLengths ==
  ASSUME NEW item \in Items
  PROVE  item.length \in Lengths /\ item.length \in Buffers
  BY DEF Items, Item, Lengths, Buffers

-----------------------------------------------------------------------------
(* The native struct and its engine.                                          *)

LEMMA OwnershipStep ==
  ASSUME Ownership, [Next]_vars
  PROVE  Ownership'
  <1> USE DEF Ownership
  <1>1. CASE Create
    BY <1>1 DEF Create, scratchVars, dataVars
  <1>2. ASSUME NEW k \in Keys, NEW v \in Values, Set(k, v)
        PROVE  Ownership'
    BY <1>2 DEF Set, nativeVars, scratchVars
  <1>3. ASSUME NEW k \in Keys, Get(k)
        PROVE  Ownership'
    <2>1. MayCall /\ UNCHANGED <<runtime, life, js_closed, nativeVars>>
      BY <1>3 DEF Get
    <2> QED BY <2>1 DEF MayCall, nativeVars
  <1>4. ASSUME NEW k \in Keys, NEW room \in Rooms, GetInto(k, room)
        PROVE  Ownership'
    BY <1>4 DEF GetInto, nativeVars, scratchVars
  <1>5. ASSUME NEW bytes \in ByteStrings, Evict(bytes)
        PROVE  Ownership'
    BY <1>5 DEF Evict, nativeVars, scratchVars
  <1>6. CASE Close
    BY <1>6 DEF Close, NativeClose, MayCall
  <1>7. CASE DropView
    BY <1>7 DEF DropView, nativeVars
  <1>8. CASE DropCache
    BY <1>8 DEF DropCache, nativeVars, scratchVars
  <1>9. CASE CollectCache
    BY <1>9 DEF CollectCache, FinalizeFast, Finalize, NativeClose
  <1>10. CASE CollectScratch
    BY <1>10 DEF CollectScratch, FreeScratch, NativeClose
  <1>11. CASE Exit
    <2>1. CASE frees = 0
      BY <1>11, <2>1 DEF Exit, FreeScratch, Finalize, NativeClose
    <2>2. CASE frees # 0
      BY <1>11, <2>2 DEF Exit, nativeVars
    <2> QED BY <2>1, <2>2
  <1>12. CASE UNCHANGED vars
    BY <1>12 DEF vars, nativeVars, scratchVars
  <1> QED BY <1>1, <1>2, <1>3, <1>4, <1>5, <1>6, <1>7, <1>8, <1>9, <1>10,
             <1>11, <1>12 DEF Next

(* Native memory is safe: close(), the two finalizers, free_scratch() and the *)
(* exit of the environment never release anything twice, nor anything that an *)
(* open Cache or a Node.js view still uses.                                   *)
THEOREM MemoryIsSafe == Spec => []MemorySafe
  <1>1. Init => Ownership
    BY DEF Init, Ownership
  <1>2. Ownership /\ [Next]_vars => Ownership'
    BY OwnershipStep
  <1>3. Ownership => MemorySafe
    BY DEF Ownership, MemorySafe, MayCall
  <1> QED BY <1>1, <1>2, <1>3, PTL DEF Spec

-----------------------------------------------------------------------------
(* Types and views.                                                           *)

LEMMA ViewInit == Init => ViewInv
  <1> SUFFICES ASSUME Init PROVE ViewInv
    OBVIOUS
  <1>1. TypeOK
    BY DEF Init, TypeOK
  <1>2. CachedInScratch
    BY DEF Init, CachedInScratch, MayCall
  <1>3. ViewShowsLastGet
    BY DEF Init, ViewShowsLastGet
  <1> QED BY <1>1, <1>2, <1>3 DEF ViewInv

LEMMA SetKeepsViews ==
  ASSUME ViewInv, NEW k \in Keys, NEW v \in Values, Set(k, v)
  PROVE  ViewInv'
  <1>1. UNCHANGED <<runtime, life, js_closed, nativeVars, scratchVars>>
    BY DEF Set
  <1>2. /\ store' \in [ByteStrings -> Items \cup {Null}]
        /\ latest' \in [Keys -> Values \cup {Null}]
        /\ value_storage' \in Nat
    <2>1. PICK kind \in {"string", "buffer"} :
            (\E path \in Paths(k) : NodeSet(k, v, path, kind)) \/ BunSet(k, v, kind)
      BY DEF Set
    <2>2. Item(v, Length[v]) \in Items
      BY DEF Items
    <2>3. CASE \E path \in Paths(k) : NodeSet(k, v, path, kind)
      BY <2>2, <2>3 DEF NodeSet, ViewInv, TypeOK
    <2>4. CASE BunSet(k, v, kind)
      BY <2>2, <2>4, BunSetStores DEF ViewInv, TypeOK
    <2> QED BY <2>1, <2>3, <2>4
  <1> QED
    BY <1>1, <1>2 DEF ViewInv, TypeOK, CachedInScratch, ViewShowsLastGet,
                      MayCall, nativeVars, scratchVars

(* What a hit leaves behind.                                                  *)
LEMMA HandOutShows ==
  ASSUME NEW k, NEW item \in Items, NEW kept, NEW buffer \in Buffers,
         content \in [Buffers -> Items \cup {Null}],
         kept # Null => kept \in Views /\ kept.buffer = buffer,
         HandOut(k, item, kept, buffer)
  PROVE  /\ content' \in [Buffers -> Items \cup {Null}]
         /\ cached' \in Views /\ cached'.buffer = buffer
         /\ ViewShowsLastGet'
  <1> DEFINE seen == View(kept, buffer, item.length)
  <1>1. seen \in Views /\ seen.buffer = buffer /\ seen.length = item.length
    BY ItemLengths DEF View, Views
  <1>2. content' = [content EXCEPT ![buffer] = item] /\ cached' = seen
    BY DEF HandOut
  <1>3. view' = [buffer |-> seen.buffer, length |-> seen.length, item |-> item]
    BY DEF HandOut
  <1>4. content'[buffer] = item
    BY <1>2
  <1> HIDE DEF seen
  <1> QED BY <1>1, <1>2, <1>3, <1>4 DEF ViewShowsLastGet

LEMMA GetKeepsViews ==
  ASSUME ViewInv, NEW k \in Keys, Get(k)
  PROVE  ViewInv'
  <1>1. /\ MayCall /\ scratch \in Buffers
        /\ UNCHANGED <<runtime, life, js_closed, nativeVars, pinned, dataVars>>
    BY DEF Get, ViewInv, CachedInScratch
  <1>2. cached # Null => cached \in Views /\ cached.buffer = scratch
    BY DEF ViewInv, TypeOK, CachedInScratch
  <1>3. \A bytes \in ByteStrings : store[bytes] # Null => store[bytes] \in Items
    BY DEF ViewInv, TypeOK
  <1>4. content \in [Buffers -> Items \cup {Null}]
    BY DEF ViewInv, TypeOK
  <1> DEFINE Good == /\ scratch' \in Buffers
                     /\ content' \in [Buffers -> Items \cup {Null}]
                     /\ cached' \in Views \cup {Null}
                     /\ cached' # Null => cached'.buffer = scratch'
                     /\ ViewShowsLastGet'
  <1>5. ASSUME NEW path \in Paths(k), NodeGet(k, path)
        PROVE  Good
    <2> DEFINE bytes == NodeBytes(k, path, scratch)
    <2>1. bytes \in ByteStrings
      BY NodeBytesOfKeys
    <2>2. CASE Found(bytes, scratch)
      <3>1. HandOut(k, store[bytes], cached, scratch) /\ scratch' = scratch
        BY <1>5, <2>2 DEF NodeGet
      <3>2. store[bytes] \in Items
        BY <1>3, <2>1, <2>2 DEF Found
      <3> HIDE DEF bytes
      <3> QED BY <1>1, <1>2, <1>4, <3>1, <3>2, HandOutShows
    <2>3. CASE ~Found(bytes, scratch)
      BY <1>1, <1>2, <1>4, <1>5, <2>3 DEF NodeGet, ViewInv, ViewShowsLastGet
    <2> QED BY <2>2, <2>3
  <1>6. ASSUME BunGet(k)
        PROVE  Good
    <2> DEFINE bytes == BunBytes(k)
               grows == Small(bytes, scratch) /\ Found(bytes, BunMaxScratch)
               size == IF grows THEN store[bytes].length ELSE scratch
    <2>1. bytes \in ByteStrings
      BY BytesOfKeys
    <2>2. scratch' = size
      BY <1>6 DEF BunGet
    <2>3. size \in Buffers
      BY <1>1, <1>3, <2>1, ItemLengths DEF Found
    <2>4. CASE Found(bytes, size)
      <3> DEFINE kept == IF grows THEN Null ELSE cached
      <3>1. HandOut(k, store[bytes], kept, size)
        BY <1>6, <2>4 DEF BunGet
      <3>2. store[bytes] \in Items
        BY <1>3, <2>1, <2>4 DEF Found
      <3>3. kept # Null => kept \in Views /\ kept.buffer = size
        BY <1>2
      <3> HIDE DEF bytes, size, kept
      <3> QED BY <1>4, <2>2, <2>3, <3>1, <3>2, <3>3, HandOutShows
    <2>5. CASE ~Found(bytes, size)
      <3>1. ~grows
        <4> SUFFICES ASSUME grows PROVE FALSE
          OBVIOUS
        <4>1. store[bytes] # Null
          BY DEF Small
        <4>2. store[bytes].length \in Nat
          BY <1>3, <2>1, <4>1, ItemLengths, LengthsAreNat
        <4>3. Found(bytes, store[bytes].length)
          BY <4>1, <4>2 DEF Found
        <4> QED BY <2>5, <4>3
      <3>2. scratch' = scratch /\ UNCHANGED <<content, cached, view>>
        BY <1>6, <2>5, <3>1 DEF BunGet
      <3> QED BY <1>1, <1>2, <1>4, <3>2 DEF ViewInv, ViewShowsLastGet
    <2> QED BY <2>4, <2>5
  <1>7. Good
    BY <1>5, <1>6 DEF Get
  <1> QED
    BY <1>1, <1>7 DEF ViewInv, TypeOK, CachedInScratch, MayCall, nativeVars, dataVars

LEMMA NativeCloseTypes ==
  ASSUME TypeOK, NativeClose
  PROVE  closed' \in BOOLEAN /\ handle' \in BOOLEAN /\ deinits' \in Nat
  <1>1. deinits' = deinits \/ deinits' = deinits + 1
    BY DEF NativeClose
  <1>2. deinits' \in Nat
    BY <1>1 DEF TypeOK
  <1> QED BY <1>2 DEF NativeClose

LEMMA ViewStep ==
  ASSUME ViewInv, [Next]_vars
  PROVE  ViewInv'
  <1> USE DEF ViewInv, TypeOK, CachedInScratch, ViewShowsLastGet, MayCall
  <1>1. CASE Create
    <2>1. scratch' \in Buffers
      BY <1>1 DEF Create, Buffers
    <2> QED BY <1>1, <2>1 DEF Create, dataVars
  <1>2. ASSUME NEW k \in Keys, NEW v \in Values, Set(k, v)
        PROVE  ViewInv'
    BY <1>2, SetKeepsViews
  <1>3. ASSUME NEW k \in Keys, Get(k)
        PROVE  ViewInv'
    BY <1>3, GetKeepsViews
  <1>4. ASSUME NEW k \in Keys, NEW room \in Rooms, GetInto(k, room)
        PROVE  ViewInv'
    BY <1>4 DEF GetInto, nativeVars, scratchVars, dataVars
  <1>5. ASSUME NEW bytes \in ByteStrings, Evict(bytes)
        PROVE  ViewInv'
    BY <1>5 DEF Evict, nativeVars, scratchVars
  <1>6. CASE Close
    <2>1. closed' \in BOOLEAN /\ handle' \in BOOLEAN /\ deinits' \in Nat
      BY <1>6, NativeCloseTypes DEF Close
    <2> QED BY <1>6, <2>1 DEF Close, DropReferences, dataVars
  <1>7. CASE DropView
    BY <1>7 DEF DropView, nativeVars, dataVars
  <1>8. CASE DropCache
    BY <1>8 DEF DropCache, nativeVars, scratchVars, dataVars
  <1>9. CASE CollectCache
    <2>1. closed' \in BOOLEAN /\ handle' \in BOOLEAN /\ deinits' \in Nat
      BY <1>9, NativeCloseTypes DEF CollectCache, FinalizeFast, Finalize
    <2>2. frees' \in Nat
      BY <1>9 DEF CollectCache, FinalizeFast, Finalize
    <2> QED BY <1>9, <2>1, <2>2
            DEF CollectCache, FinalizeFast, Finalize, DropReferences, dataVars
  <1>10. CASE CollectScratch
    <2>1. closed' \in BOOLEAN /\ handle' \in BOOLEAN /\ deinits' \in Nat
      BY <1>10, NativeCloseTypes DEF CollectScratch, FreeScratch
    <2>2. frees' \in Nat
      BY <1>10 DEF CollectScratch, FreeScratch
    <2> QED BY <1>10, <2>1, <2>2 DEF CollectScratch, FreeScratch, dataVars
  <1>11. CASE Exit
    <2>1. closed' \in BOOLEAN /\ handle' \in BOOLEAN /\ deinits' \in Nat
      BY <1>11, NativeCloseTypes DEF Exit, FreeScratch, Finalize, nativeVars
    <2>2. frees' \in Nat
      BY <1>11 DEF Exit, FreeScratch, Finalize, nativeVars
    <2>3. /\ pinned' \in BOOLEAN
          /\ \/ scratch' = 0 /\ cached' = Null
             \/ UNCHANGED <<scratch, cached>>
      BY <1>11 DEF Exit, FreeScratch, Finalize, DropReferences
    <2> QED BY <1>11, <2>1, <2>2, <2>3 DEF Exit, dataVars
  <1>12. CASE UNCHANGED vars
    BY <1>12 DEF vars, nativeVars, scratchVars, dataVars
  <1> QED BY <1>1, <1>2, <1>3, <1>4, <1>5, <1>6, <1>7, <1>8, <1>9, <1>10,
             <1>11, <1>12 DEF Next

(* The types of every reachable state; every stored value is a whole one.     *)
THEOREM TypesOK == Spec => []TypeOK
  <1>1. ViewInv => TypeOK
    BY DEF ViewInv
  <1> QED BY <1>1, ViewInit, ViewStep, PTL DEF Spec

(* The last view of get() shows what that get() read, with the length of it.  *)
THEOREM ViewsShowLastGet == Spec => []ViewShowsLastGet
  <1>1. ViewInv => ViewShowsLastGet
    BY DEF ViewInv
  <1> QED BY <1>1, ViewInit, ViewStep, PTL DEF Spec

-----------------------------------------------------------------------------
(* Which keys a cache may be used with: a one-byte string has one encoding,   *)
(* and no two keys have the same bytes, as the addon of the runtime has them. *)

DistinctKeys ==
    /\ \A k \in OneByte : Latin1[k] = Utf8[k]
    /\ \A k, l \in Keys : Utf8[k] = Utf8[l] => k = l
    /\ \A k, l \in Keys : BunBytes(k) = BunBytes(l) => k = l

KeyBytes(k) == IF runtime = "node" THEN Utf8[k] ELSE BunBytes(k)

LatestItem(k) == Item(latest[k], Length[latest[k]])

(* The engine has the latest value of a key, or nothing; so does the answer.  *)
StoreLatest ==
    /\ \A k \in Keys : store[KeyBytes(k)] # Null => store[KeyBytes(k)] = LatestItem(k)
    /\ answer # Null => answer.key \in Keys /\ answer.item = LatestItem(answer.key)

LEMMA NodeKeyBytes ==
  ASSUME DistinctKeys, runtime = "node", NEW k \in Keys, NEW path \in Paths(k)
  PROVE  /\ \A room : NodeBytes(k, path, room) = KeyBytes(k)
         /\ \A kind : NodeSetBytes(k, path, kind) = KeyBytes(k)
  <1>1. path = "fast" => k \in OneByte
    BY DEF Paths
  <1>2. path = "fast" => FastBytes(k) = ReadBytes(k)
    BY <1>1 DEF DistinctKeys, FastBytes, ReadBytes
  <1> QED BY <1>2 DEF NodeBytes, NodeSetBytes, KeyBytes, ReadBytes

LEMMA SetStoresLatest ==
  ASSUME DistinctKeys, TypeOK, StoreLatest, NEW k \in Keys, NEW v \in Values, Set(k, v)
  PROVE  StoreLatest'
  <1>1. runtime' = runtime /\ answer' = Null
    BY DEF Set
  <1>2. \/ /\ store' = [store EXCEPT ![KeyBytes(k)] = Item(v, Length[v])]
           /\ latest' = [latest EXCEPT ![k] = v]
        \/ UNCHANGED <<store, latest>>
    <2>1. PICK kind \in {"string", "buffer"} :
            (\E path \in Paths(k) : NodeSet(k, v, path, kind)) \/ BunSet(k, v, kind)
      BY DEF Set
    <2>2. CASE \E path \in Paths(k) : NodeSet(k, v, path, kind)
      <3>1. PICK path \in Paths(k) : NodeSet(k, v, path, kind)
        BY <2>2
      <3>2. NodeSetBytes(k, path, kind) = KeyBytes(k)
        BY <3>1, NodeKeyBytes DEF NodeSet
      <3> QED BY <3>1, <3>2 DEF NodeSet
    <2>3. CASE BunSet(k, v, kind)
      <3>1. KeyBytes(k) = BunBytes(k)
        BY <2>3 DEF BunSet, KeyBytes
      <3> QED BY <2>3, <3>1, BunSetStores
    <2> QED BY <2>1, <2>2, <2>3
  <1>3. \A l \in Keys : KeyBytes(l)' = KeyBytes(l)
    BY <1>1 DEF KeyBytes
  <1>4. ASSUME NEW l \in Keys, store'[KeyBytes(l)] # Null
        PROVE  store'[KeyBytes(l)] = LatestItem(l)'
    <2>1. CASE UNCHANGED <<store, latest>>
      BY <1>4, <2>1 DEF StoreLatest, LatestItem
    <2>2. CASE /\ store' = [store EXCEPT ![KeyBytes(k)] = Item(v, Length[v])]
               /\ latest' = [latest EXCEPT ![k] = v]
      <3>1. store \in [ByteStrings -> Items \cup {Null}] /\ KeyBytes(k) \in ByteStrings
        BY BytesOfKeys DEF TypeOK, KeyBytes
      <3>2. latest \in [Keys -> Values \cup {Null}]
        BY DEF TypeOK
      <3>3. CASE l = k
        BY <2>2, <3>1, <3>2, <3>3 DEF LatestItem
      <3>4. CASE l # k
        <4>1. KeyBytes(l) # KeyBytes(k) /\ KeyBytes(l) \in ByteStrings
          BY <3>4, BytesOfKeys DEF DistinctKeys, KeyBytes
        <4>2. store'[KeyBytes(l)] = store[KeyBytes(l)] /\ latest'[l] = latest[l]
          BY <2>2, <3>1, <3>2, <3>4, <4>1
        <4> QED BY <1>4, <4>2 DEF StoreLatest, LatestItem
      <3> QED BY <3>3, <3>4
    <2> QED BY <1>2, <2>1, <2>2
  <1> QED BY <1>1, <1>3, <1>4 DEF StoreLatest

LEMMA ReadAnswersLatest ==
  ASSUME DistinctKeys, StoreLatest, NEW k \in Keys, UNCHANGED <<runtime, store, latest>>,
         \/ answer' = Null
         \/ /\ answer' = [key |-> k, item |-> store[KeyBytes(k)]]
            /\ store[KeyBytes(k)] # Null
  PROVE  StoreLatest'
  <1>1. \A l \in Keys : KeyBytes(l)' = KeyBytes(l) /\ LatestItem(l)' = LatestItem(l)
    BY DEF KeyBytes, LatestItem
  <1>2. \A l \in Keys : store'[KeyBytes(l)'] # Null => store'[KeyBytes(l)'] = LatestItem(l)'
    BY <1>1 DEF StoreLatest
  <1>3. answer' # Null => answer'.key \in Keys /\ answer'.item = LatestItem(answer'.key)
    BY DEF StoreLatest
  <1>4. LatestItem(answer.key)' = LatestItem(answer'.key)
    BY DEF LatestItem
  <1> QED BY <1>2, <1>3, <1>4 DEF StoreLatest

LEMMA StoreLatestStep ==
  ASSUME DistinctKeys, TypeOK, StoreLatest, [Next]_vars
  PROVE  StoreLatest'
  <1>1. ASSUME NEW k \in Keys, NEW v \in Values, Set(k, v)
        PROVE  StoreLatest'
    BY <1>1, SetStoresLatest
  <1>2. ASSUME NEW k \in Keys, Get(k)
        PROVE  StoreLatest'
    <2>1. UNCHANGED <<runtime, store, latest>>
      BY <1>2 DEF Get, dataVars
    <2>2. \/ answer' = Null
          \/ /\ answer' = [key |-> k, item |-> store[KeyBytes(k)]]
             /\ store[KeyBytes(k)] # Null
      <3>1. ASSUME NEW path \in Paths(k), NodeGet(k, path)
            PROVE  \/ answer' = Null
                   \/ /\ answer' = [key |-> k, item |-> store[KeyBytes(k)]]
                      /\ store[KeyBytes(k)] # Null
        <4>1. NodeBytes(k, path, scratch) = KeyBytes(k)
          BY <3>1, NodeKeyBytes DEF NodeGet
        <4> QED BY <3>1, <4>1 DEF NodeGet, HandOut, Found
      <3>2. ASSUME BunGet(k)
            PROVE  \/ answer' = Null
                   \/ /\ answer' = [key |-> k, item |-> store[KeyBytes(k)]]
                      /\ store[KeyBytes(k)] # Null
        <4>1. BunBytes(k) = KeyBytes(k)
          BY <3>2 DEF BunGet, KeyBytes
        <4> QED BY <3>2, <4>1 DEF BunGet, HandOut, Found
      <3> QED BY <1>2, <3>1, <3>2 DEF Get
    <2> QED BY <2>1, <2>2, ReadAnswersLatest
  <1>3. ASSUME NEW k \in Keys, NEW room \in Rooms, GetInto(k, room)
        PROVE  StoreLatest'
    <2>1. UNCHANGED <<runtime, store, latest>>
      BY <1>3 DEF GetInto, dataVars
    <2>2. PICK path \in Paths(k) :
            LET bytes == IF runtime = "node" THEN NodeBytes(k, path, room)
                                             ELSE BunBytes(k)
            IN  answer' = IF Found(bytes, room)
                            THEN [key |-> k, item |-> store[bytes]]
                            ELSE Null
      BY <1>3 DEF GetInto
    <2>3. (IF runtime = "node" THEN NodeBytes(k, path, room) ELSE BunBytes(k)) = KeyBytes(k)
      BY NodeKeyBytes DEF KeyBytes
    <2>4. \/ answer' = Null
          \/ /\ answer' = [key |-> k, item |-> store[KeyBytes(k)]]
             /\ store[KeyBytes(k)] # Null
      BY <2>2, <2>3 DEF Found
    <2> QED BY <2>1, <2>4, ReadAnswersLatest
  <1>4. ASSUME NEW bytes \in ByteStrings, Evict(bytes)
        PROVE  StoreLatest'
    <2>1. \A b \in ByteStrings : store'[b] = store[b] \/ store'[b] = Null
      BY <1>4 DEF Evict, TypeOK
    <2>2. \A k \in Keys : KeyBytes(k)' = KeyBytes(k) /\ KeyBytes(k) \in ByteStrings
      BY <1>4, BytesOfKeys DEF Evict, KeyBytes
    <2> QED BY <1>4, <2>1, <2>2 DEF Evict, StoreLatest, LatestItem
  <1>5. CASE \/ Create \/ Close \/ DropView \/ DropCache \/ CollectCache
             \/ CollectScratch \/ Exit \/ UNCHANGED vars
    <2>1. UNCHANGED <<runtime, store, latest>> /\ (answer' = answer \/ answer' = Null)
      BY <1>5 DEF Create, Close, DropView, DropCache, CollectCache, CollectScratch,
                  Exit, vars, dataVars
    <2> QED BY <2>1 DEF StoreLatest, KeyBytes, LatestItem
  <1> QED BY <1>1, <1>2, <1>3, <1>4, <1>5 DEF Next

(* With such keys a hit of get() or getInto() is the whole value of the last  *)
(* set() of its key, whatever paths the calls took: the run node_keys shows   *)
(* that the first part of DistinctKeys cannot be left out.                    *)
THEOREM HitsAreLatest ==
  ASSUME DistinctKeys
  PROVE  Spec => []ReadsLatest
  <1>1. Init => StoreLatest
    BY BytesOfKeys DEF Init, StoreLatest, KeyBytes
  <1>2. TypeOK /\ StoreLatest /\ [Next]_vars => StoreLatest'
    BY StoreLatestStep
  <1>3. StoreLatest => ReadsLatest
    BY DEF StoreLatest, ReadsLatest, LatestItem, Item
  <1> QED BY <1>1, <1>2, <1>3, TypesOK, PTL DEF Spec

=============================================================================

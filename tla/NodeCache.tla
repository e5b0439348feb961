----------------------------- MODULE NodeCache ------------------------------
(* One Cache of the JavaScript package (src/ext/node/index.ts) over its two   *)
(* native addons: binding_fast.cpp (Node.js, V8 fast calls) and binding.cpp   *)
(* (Bun, Node-API).  JavaScript runs one call at a time, so a call is a step; *)
(* the engine behind the cache belongs to it alone, and may evict.            *)
(*                                                                            *)
(* What is hard is not concurrency but what outlives a call: the one scratch  *)
(* buffer whose views get() hands out, the storage that string arguments are  *)
(* read through, keys that reach the engine as different bytes by different   *)
(* paths, and native memory that close(), two finalizers and the exit of the  *)
(* environment release between them.                                          *)
EXTENDS Naturals, FiniteSets

CONSTANTS
    Runtimes,       \* the runtimes of a run: a subset of {"node", "bun"}
    Keys,           \* JavaScript strings used as keys
    OneByte,        \* those V8 may store with one byte per character
    Latin1, Utf8,   \* the bytes of each key in the two encodings
    Ascii,          \* the byte strings without a byte of 128 or more
    Values,         \* values, each given as an ASCII string or as a Buffer
    Length,         \* the length of each value
    Rooms,          \* sizes of the Buffers handed to getInto()
    NodeScratch,    \* kScratchSize of binding_fast.cpp
    BunScratch,     \* kDefaultScratchSize of binding.cpp
    BunMaxScratch,  \* kMaxScratchBytes of binding.cpp
    MinCapacity,    \* kMinKeyCapacity of binding.cpp
    Null            \* null, undefined, nullptr

ASSUME RuntimesAssumption == Runtimes \subseteq {"node", "bun"}
ASSUME KeysAssumption ==
    /\ OneByte \subseteq Keys
    /\ DOMAIN Latin1 = Keys /\ DOMAIN Utf8 = Keys
    /\ \A k \in Keys : Latin1[k] \in Ascii /\ k \in OneByte => Latin1[k] = Utf8[k]
ASSUME SizesAssumption ==
    /\ Length \in [Values -> Nat \ {0}]
    /\ {NodeScratch, BunScratch, BunMaxScratch, MinCapacity} \subseteq Nat \ {0}
    /\ BunScratch <= BunMaxScratch

VARIABLES
    runtime,        \* which addon index.ts has loaded
    life,           \* "none", "live", "unreachable" for JavaScript, "exited"
    js_closed,      \* Cache.closed of index.ts
    closed,         \* the native closed
    handle,         \* the native handle is not nullptr
    deinits,        \* calls of caeneus_deinit() so far
    frees,          \* deletes of the native struct so far
    pinned,         \* a strong reference keeps the scratch buffer
    scratch,        \* its size, which also names it: it only ever grows
    content,        \* what the engine last wrote into each scratch buffer
    cached,         \* the view kept for the next get() of its length
    view,           \* the view the caller holds, and what it was read as
    value_storage,  \* value_storage.size() of binding.cpp
    store,          \* the engine: byte string -> item
    latest,         \* the value of the last set() of each key
    answer          \* the last hit of get() or getInto(), until another call

scratchVars == <<pinned, scratch, content, cached, view>>
nativeVars == <<closed, handle, deinits, frees>>
dataVars == <<value_storage, store, latest>>
vars == <<runtime, life, js_closed, nativeVars, scratchVars, dataVars, answer>>

ByteStrings == {Latin1[k] : k \in Keys} \cup {Utf8[k] : k \in Keys}
Lengths == {Length[v] : v \in Values}
Buffers == Lengths \cup {NodeScratch, BunScratch}
Item(v, n) == [value |-> v, length |-> n]

Init ==
    /\ runtime \in Runtimes
    /\ life = "none"
    /\ js_closed = FALSE
    /\ closed = FALSE /\ handle = FALSE /\ deinits = 0 /\ frees = 0
    /\ pinned = FALSE /\ scratch = 0
    /\ content = [size \in Buffers |-> Null]
    /\ cached = Null /\ view = Null
    /\ value_storage = 0
    /\ store = [bytes \in ByteStrings |-> Null]
    /\ latest = [k \in Keys |-> Null]
    /\ answer = Null

(* assertOpen(): a call on a closed Cache throws and changes nothing.         *)
MayCall == life = "live" /\ ~js_closed

(* new Cache(): caeneus_init() and the scratch buffer, pinned and of its      *)
(* first size; a constructor that fails leaves nothing and may be repeated.   *)
Create ==
    /\ life = "none"
    /\ life' = "live"
    /\ handle' = TRUE
    /\ pinned' = TRUE
    /\ scratch' = IF runtime = "node" THEN NodeScratch ELSE BunScratch
    /\ UNCHANGED <<runtime, js_closed, closed, deinits, frees,
                   content, cached, view, dataVars, answer>>

-----------------------------------------------------------------------------
(* Node.js.  V8 may take the fast path of set, get and getInto for a one-byte *)
(* string; every other key, and the calls setSlow, getSlow and getIntoSlow,   *)
(* take the slow one.                                                         *)
Paths(k) == IF k \in OneByte THEN {"fast", "slow"} ELSE {"slow"}

(* The characters of a one-byte string as they lie in memory.                 *)
FastBytes(k) == Latin1[k]

(* read_bytes(): a string is read as UTF-8.                                   *)
ReadBytes(k) == Utf8[k]

(* get_into(): what the engine answers to a read into room bytes.             *)
Found(bytes, room) == store[bytes] # Null /\ store[bytes].length <= room
Small(bytes, room) == store[bytes] # Null /\ store[bytes].length > room

(* get() and getInto() of index.ts: a fast call that returns kFastFallback is *)
(* repeated on the slow path.                                                 *)
NodeBytes(k, path, room) ==
    IF path = "fast" /\ ~Small(FastBytes(k), room) THEN FastBytes(k) ELSE ReadBytes(k)

(* fast_set_value() of a Buffer; setSlow() of anything.  An engine that fails *)
(* is thrown and changes nothing here.                                        *)
NodeSetBytes(k, path, kind) ==
    IF path = "fast" /\ kind = "buffer" THEN FastBytes(k) ELSE ReadBytes(k)

NodeSet(k, v, path, kind) ==
    /\ runtime = "node"
    /\ store' = [store EXCEPT ![NodeSetBytes(k, path, kind)] = Item(v, Length[v])]
    /\ latest' = [latest EXCEPT ![k] = v]
    /\ UNCHANGED value_storage

-----------------------------------------------------------------------------
(* Bun.  read_string_or_buffer(): Node-API truncates to the capacity, and     *)
(* does not say whether it has: a full buffer is not believed.                *)
Written(n, capacity) == IF n < capacity THEN n ELSE capacity

(* Mutant: a buffer filled to the last byte is taken for the whole string.    *)
MutantAccepted(n, capacity) == Written(n, capacity) <= capacity

Accepted(n, capacity) == Written(n, capacity) < capacity

Attempts(capacity) == {capacity, 2 * capacity, 4 * capacity, 8 * capacity}

Capacity(size) == IF size < MinCapacity THEN MinCapacity ELSE size

(* Where the four attempts as Latin-1, then the four as UTF-8 (starting from  *)
(* the size the first four left) stop; Null if the string is refused.         *)
Stops(n, capacity) ==
    LET good == {c \in Attempts(capacity) : Accepted(n, c)}
    IN  IF good = {} THEN Null ELSE CHOOSE c \in good : \A d \in good : c <= d

ReadCapacity(n, size) ==
    LET first == Capacity(size)
    IN  IF Stops(n, first) # Null THEN Stops(n, first)
                                  ELSE Stops(n, 8 * first + 1)

(* The size of the storage after reading a string of length n.                *)
SizeAfter(n, size) ==
    IF ReadCapacity(n, size) # Null
      THEN Written(n, ReadCapacity(n, size))
      ELSE 8 * (8 * Capacity(size) + 1) + 1

(* A key is read as Latin-1 if that is ASCII, else as UTF-8.                  *)
BunBytes(k) == IF Latin1[k] \in Ascii THEN Latin1[k] ELSE Utf8[k]

(* set_value(): a string too large for the storage of this moment is refused, *)
(* and the engine may fail.                                                   *)
BunSet(k, v, kind) ==
    /\ runtime = "bun"
    /\ value_storage' = IF kind = "string" THEN SizeAfter(Length[v], value_storage)
                                           ELSE value_storage
    /\ \/ /\ kind = "string" => ReadCapacity(Length[v], value_storage) # Null
          /\ store' = [store EXCEPT ![BunBytes(k)] =
                 Item(v, IF kind = "string" THEN value_storage' ELSE Length[v])]
          /\ latest' = [latest EXCEPT ![k] = v]
       \/ UNCHANGED <<store, latest>>

Set(k, v) ==
    /\ MayCall
    /\ answer' = Null
    /\ \E kind \in {"string", "buffer"} :
          (\E path \in Paths(k) : NodeSet(k, v, path, kind)) \/ BunSet(k, v, kind)
    /\ UNCHANGED <<runtime, life, js_closed, nativeVars, scratchVars>>

(* The engine evicts; it may do so in a set(), also in one that fails.        *)
Evict(bytes) ==
    /\ MayCall
    /\ store[bytes] # Null
    /\ store' = [store EXCEPT ![bytes] = Null]
    /\ UNCHANGED <<runtime, life, js_closed, nativeVars, scratchVars,
                   value_storage, latest, answer>>

-----------------------------------------------------------------------------
(* Mutant: the cached view is handed out for another length as well.          *)
MutantView(kept, buffer, length) ==
    IF kept # Null THEN kept ELSE [buffer |-> buffer, length |-> length]

(* scratch_view(), and the end of get() in index.ts: the view of the last hit *)
(* serves hits of the same length.                                            *)
View(kept, buffer, length) ==
    IF kept # Null /\ kept.length = length
      THEN kept
      ELSE [buffer |-> buffer, length |-> length]

(* A hit: the engine has written item into the scratch buffer.                *)
HandOut(k, item, kept, buffer) ==
    LET seen == View(kept, buffer, item.length)
    IN  /\ content' = [content EXCEPT ![buffer] = item]
        /\ cached' = seen
        /\ view' = [buffer |-> seen.buffer, length |-> seen.length, item |-> item]
        /\ answer' = [key |-> k, item |-> item]

(* A miss gives null; a value beyond the scratch buffer is a RangeError.      *)
NodeGet(k, path) ==
    LET bytes == NodeBytes(k, path, scratch)
    IN  /\ runtime = "node"
        /\ IF Found(bytes, scratch)
             THEN HandOut(k, store[bytes], cached, scratch)
             ELSE answer' = Null /\ UNCHANGED <<content, cached, view>>
        /\ UNCHANGED scratch

(* get_value(): a larger value replaces the scratch buffer, and with it the   *)
(* cached view, before the engine is asked again.                             *)
BunGet(k) ==
    LET bytes == BunBytes(k)
        grows == Small(bytes, scratch) /\ Found(bytes, BunMaxScratch)
        size == IF grows THEN store[bytes].length ELSE scratch
    IN  /\ runtime = "bun"
        /\ scratch' = size
        /\ IF Found(bytes, size)
             THEN HandOut(k, store[bytes], IF grows THEN Null ELSE cached, size)
             ELSE answer' = Null /\ UNCHANGED <<content, cached, view>>

Get(k) ==
    /\ MayCall
    /\ (\E path \in Paths(k) : NodeGet(k, path)) \/ BunGet(k)
    /\ UNCHANGED <<runtime, life, js_closed, nativeVars, pinned, dataVars>>

(* getInto(): the value goes to the caller's Buffer, or does not fit there.   *)
GetInto(k, room) ==
    /\ MayCall
    /\ \E path \in Paths(k) :
         LET bytes == IF runtime = "node" THEN NodeBytes(k, path, room)
                                          ELSE BunBytes(k)
         IN  answer' = IF Found(bytes, room)
                         THEN [key |-> k, item |-> store[bytes]]
                         ELSE Null
    /\ UNCHANGED <<runtime, life, js_closed, nativeVars, scratchVars, dataVars>>

-----------------------------------------------------------------------------
(* Mutant: nothing remembers that the engine is gone.                         *)
MutantNativeClose ==
    /\ deinits' = deinits + 1
    /\ UNCHANGED <<closed, handle>>

(* FastCache::close() and Cache::close(): once; what Cache::close() also does *)
(* to its references is in DropReferences.                                    *)
NativeClose ==
    /\ closed' = TRUE
    /\ handle' = FALSE
    /\ deinits' = IF ~closed /\ handle THEN deinits + 1 ELSE deinits

(* Cache::close() of binding.cpp drops the cached view and the scratch buffer,*)
(* which are ordinary garbage then; FastCache::close() keeps both.            *)
DropReferences ==
    IF runtime = "bun" /\ ~closed
      THEN pinned' = FALSE /\ scratch' = 0 /\ cached' = Null
      ELSE UNCHANGED <<pinned, scratch, cached>>

(* close() of JavaScript; once more it returns at once.                       *)
Close ==
    /\ MayCall
    /\ js_closed' = TRUE
    /\ NativeClose
    /\ DropReferences
    /\ answer' = Null
    /\ UNCHANGED <<runtime, life, frees, content, view, dataVars>>

(* The caller lets go of the view, of the Cache.                              *)
DropView ==
    /\ life \in {"live", "unreachable"}
    /\ view # Null
    /\ view' = Null
    /\ UNCHANGED <<runtime, life, js_closed, nativeVars, pinned, scratch,
                   content, cached, dataVars, answer>>

DropCache ==
    /\ life = "live"
    /\ life' = "unreachable"
    /\ answer' = Null
    /\ UNCHANGED <<runtime, js_closed, nativeVars, scratchVars, dataVars>>

(* Mutant: the weak callback leaves the scratch buffer pinned.                *)
MutantFinalizeFast ==
    /\ NativeClose
    /\ UNCHANGED <<frees, pinned, scratch, cached>>

(* finalize_cache() of binding_fast.cpp, the weak callback of the wrapper:    *)
(* the struct lives on for the scratch buffer that lies inside it.            *)
FinalizeFast ==
    /\ NativeClose
    /\ pinned' = FALSE
    /\ cached' = Null
    /\ UNCHANGED <<frees, scratch>>

(* free_scratch(), when the scratch buffer goes: the struct goes with it.     *)
FreeScratch ==
    /\ NativeClose
    /\ frees' = frees + 1
    /\ pinned' = FALSE
    /\ scratch' = 0
    /\ cached' = Null

(* finalize_cache() of binding.cpp, the finalizer of the external.            *)
Finalize ==
    /\ NativeClose
    /\ DropReferences
    /\ frees' = frees + 1

(* The garbage collector: the wrapper (Bun: the external) once JavaScript     *)
(* cannot reach it; the scratch buffer once nothing, no view either, does.    *)
CollectCache ==
    /\ life = "unreachable"
    /\ \/ runtime = "node" /\ pinned /\ FinalizeFast
       \/ runtime = "bun" /\ frees = 0 /\ Finalize
    /\ UNCHANGED <<runtime, life, js_closed, content, view, dataVars, answer>>

CollectScratch ==
    /\ life = "unreachable"
    /\ runtime = "node" /\ ~pinned /\ view = Null /\ frees = 0
    /\ FreeScratch
    /\ UNCHANGED <<runtime, life, js_closed, content, view, dataVars, answer>>

(* The environment goes down: Node.js calls the callback of the scratch       *)
(* buffer, Bun the finalizer of the external, unless they have run.           *)
Exit ==
    /\ life \in {"live", "unreachable"}
    /\ life' = "exited"
    /\ view' = Null
    /\ answer' = Null
    /\ \/ frees = 0 /\ (IF runtime = "node" THEN FreeScratch ELSE Finalize)
       \/ frees = 1 /\ UNCHANGED <<nativeVars, pinned, scratch, cached>>
    /\ UNCHANGED <<runtime, js_closed, content, dataVars>>

-----------------------------------------------------------------------------
Next ==
    \/ Create
    \/ \E k \in Keys, v \in Values : Set(k, v)
    \/ \E k \in Keys : Get(k)
    \/ \E k \in Keys, room \in Rooms : GetInto(k, room)
    \/ \E bytes \in ByteStrings : Evict(bytes)
    \/ Close \/ DropView \/ DropCache
    \/ CollectCache \/ CollectScratch \/ Exit

(* The runtime collects what cannot be reached, some day.                     *)
Spec == Init /\ [][Next]_vars /\ WF_vars(CollectCache) /\ WF_vars(CollectScratch)

-----------------------------------------------------------------------------
Items == {Item(v, Length[v]) : v \in Values}
Views == [buffer : Buffers, length : Lengths]

(* The types; in particular no value is ever stored cut short.                *)
TypeOK ==
    /\ runtime \in Runtimes
    /\ life \in {"none", "live", "unreachable", "exited"}
    /\ js_closed \in BOOLEAN /\ closed \in BOOLEAN
    /\ handle \in BOOLEAN /\ pinned \in BOOLEAN
    /\ deinits \in Nat /\ frees \in Nat /\ value_storage \in Nat
    /\ scratch \in Buffers \cup {0}
    /\ content \in [Buffers -> Items \cup {Null}]
    /\ cached \in Views \cup {Null}
    /\ store \in [ByteStrings -> Items \cup {Null}]
    /\ latest \in [Keys -> Values \cup {Null}]

(* The view that get() returned last shows the value that get() read, and     *)
(* neither a getInto(), a set(), a close() nor a finalizer changes it:        *)
(* the views of index.ts and of binding.cpp are cached by length alone.       *)
ViewShowsLastGet ==
    view # Null =>
      /\ view.length = view.item.length
      /\ content[view.buffer] = view.item

(* A hit is the value of the last set() of its key, whole: "`set` stores the  *)
(* value for key in the cache" (index.ts), whichever path either call took    *)
(* and however the string was read.                                           *)
ReadsLatest ==
    answer # Null =>
      /\ answer.item.value = latest[answer.key]
      /\ answer.item.length = Length[answer.item.value]

(* Native memory: an open Cache has its engine and its struct, the view of a  *)
(* Node.js caller still has the struct its bytes lie in, the engine goes no   *)
(* later than the struct, and neither goes twice.                             *)
MemorySafe ==
    /\ MayCall => handle /\ deinits = 0 /\ frees = 0
    /\ runtime = "node" /\ view # Null => frees = 0
    /\ frees <= deinits /\ deinits <= 1

(* A Cache that is forgotten without close() gives its engine back, and its   *)
(* struct too once the caller has let go of the view.                         *)
ReleasedEventually ==
    /\ life = "unreachable" ~> deinits = 1
    /\ life = "unreachable" /\ view = Null ~> frees = 1
=============================================================================

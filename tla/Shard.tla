------------------------------- MODULE Shard --------------------------------
(* One shard: the index and the SIEVE ring of shard.zig (module ShardIndex)   *)
(* composed with the slab allocator of slab.zig, at the granularity of the    *)
(* allocator's own loop.                                                      *)
(*                                                                            *)
(* The slab is modelled word by word, because the code reads the same words   *)
(* as headers, keys and values depending on what it believes is there.  A     *)
(* unit is the 4-byte word that block lengths are aligned to: a header is     *)
(* three units, keys and values are sequences of units.  One set() runs at a  *)
(* time; what a get() reads between sets is what module Seqlock says it reads *)
(* at any time, and the visited bit it sets may come at any moment.           *)
EXTENDS ShardIndex, Sequences

CONSTANTS
    SlabSize,        \* buffer.len
    Keys, Values,    \* sequences of words
    HashLow,         \* hash_low of each key
    TailThreshold,   \* precleanTail: the 128 KiB
    ReclaimBudget    \* precleanTail: the 16 KiB

HeaderSize == 3

(* Words that hold key or value bytes are unlike any header word of a sane    *)
(* block, so that content read as a header is never mistaken for one.  The    *)
(* slab can return each of its addresses; its length in bytes is a u32.       *)
ASSUME SlabAssumption ==
    /\ SlabSize \in Nat /\ SlabSize > HeaderSize /\ 4 * SlabSize <= MaxU32
    /\ 0 .. SlabSize - 1 \subseteq Offsets
    /\ Keys \subseteq Seq(Nat) /\ Values \subseteq Seq(Nat)
    /\ HashLow \in [Keys -> HashLows]
    /\ \A s \in Keys \cup Values : \A i \in 1 .. Len(s) : s[i] > MaxU32
    /\ TailThreshold \in Nat /\ ReclaimBudget \in Nat

VARIABLES
    len,             \* metadata[slot].len
    slab,            \* slab.buffer
    write_ptr,
    reclaim_ptr,
    key, value,      \* the arguments of the set() under way
    alloc            \* the locals of allocate(): [at, total, scan]

slabVars == <<slab, write_ptr, reclaim_ptr>>
callVars == <<key, value>>
shardVars == <<vars, len, slabVars, callVars, alloc>>

Addresses == 0 .. SlabSize - 1

(* SlabPool.readHeader() and writeHeader().                                   *)
Header(o) == [slot_idx |-> slab[o], block_len |-> slab[o + 1],
              key_len |-> slab[o + 2]]

WithHeader(mem, o, slot, block_len, key_len) ==
    [mem EXCEPT ![o] = slot, ![o + 1] = block_len, ![o + 2] = key_len]

(* A memcpy of a sequence of words to offset o.                               *)
WithWords(mem, o, words) ==
    [a \in Addresses |-> IF a - o + 1 \in 1 .. Len(words)
                           THEN words[a - o + 1] ELSE mem[a]]

(* The header at offset o lies inside the buffer.  The code reads and writes  *)
(* headers without asking; where one would lie outside, the builds that check *)
(* bounds panic and the others do anything, and this model goes no further.   *)
InSlab(o) == o + HeaderSize <= SlabSize

(* isSlotActive().                                                            *)
IsSlotActive(i, o) == i \in Slots /\ offset[i] = o

NoCall == <<>>
NoAlloc == [at |-> "start", total |-> 0, scan |-> 0]

ShardInit ==
    /\ Init
    /\ len = [i \in Slots |-> 0]
    /\ slab = WithHeader([a \in Addresses |-> 0], 0,
                         invalid_slot_idx, SlabSize, 0)
    /\ write_ptr = 0
    /\ reclaim_ptr = invalid_offset
    /\ key = NoCall /\ value = NoCall
    /\ alloc = NoAlloc

-----------------------------------------------------------------------------
(* Lookup.                                                                    *)

(* keyEqualsOffset(): the slab at the slot's offset holds a header with the   *)
(* key's length, followed by the key.                                         *)
KeyEqualsOffset(i, k) ==
    /\ Live(i)
    /\ SlabSize - offset[i] >= HeaderSize
    /\ Header(offset[i]).key_len = Len(k)
    /\ SlabSize - offset[i] >= HeaderSize + Len(k)
    /\ \A n \in 1 .. Len(k) : slab[offset[i] + HeaderSize + n - 1] = k[n]

Matches(e, k) ==
    /\ table[e].slot_idx \in Slots
    /\ table[e].hash_low = HashLow[k]
    /\ KeyEqualsOffset(table[e].slot_idx, k)

(* lookup() returns slot i: the first match before an empty entry.            *)
LookupHit(k, i) ==
    \E d \in Entries :
        LET e == Probe(HashLow[k], d) IN
        /\ table[e].slot_idx = i
        /\ Matches(e, k)
        /\ \A c \in 0 .. d - 1 : /\ ~IsEmpty(Probe(HashLow[k], c))
                                 /\ ~Matches(Probe(HashLow[k], c), k)

LookupMiss(k) == \A i \in Slots : ~LookupHit(k, i)

(* The words get() copies out for a hit in slot i.                            *)
ValueAt(i, k) ==
    [n \in 1 .. len[i] |-> slab[offset[i] + HeaderSize + Len(k) + n - 1]]

-----------------------------------------------------------------------------
(* SlabPool.allocate().                                                       *)

NeededLen == HeaderSize + Len(key) + Len(value)

(* scanReclaimRange(): the blocks from start on, up to end or to a header     *)
(* that makes no sense; ptr is where the scan stops, marks the offsets of the *)
(* blocks it saw.                                                             *)
ScanReclaimRange(start, end) ==
    LET scan[o \in 0 .. SlabSize] ==
          IF o >= end \/ o >= SlabSize THEN [ptr |-> o, marks |-> {}]
          ELSE IF \/ SlabSize - o < HeaderSize
                  \/ Header(o).block_len < HeaderSize
                  \/ Header(o).block_len > SlabSize - o
            THEN [ptr |-> SlabSize, marks |-> {}]
            ELSE LET rest == scan[o + Header(o).block_len]
                 IN  [rest EXCEPT !.marks = @ \cup {o}]
    IN  scan[start]

(* markSlabBlockPending() of every block a scan saw.                          *)
WithMarks(marks) ==
    [i \in Slots |-> IF \E o \in marks : /\ Header(o).slot_idx = i
                                         /\ IsSlotActive(i, o)
                       THEN offset[i] ELSE reclaim_offsets[i]]

(* precleanTail(): where reclaim_ptr goes, and what is marked on the way.     *)
PrecleanTail ==
    LET from == IF reclaim_ptr = SlabSize \/ reclaim_ptr < write_ptr
                  THEN write_ptr ELSE reclaim_ptr
        end == IF from + ReclaimBudget < SlabSize THEN from + ReclaimBudget
                                                  ELSE SlabSize
    IN  IF SlabSize - write_ptr > TailThreshold
          THEN [ptr |-> reclaim_ptr, marks |-> {}]
        ELSE IF from >= SlabSize THEN [ptr |-> from, marks |-> {}]
        ELSE ScanReclaimRange(from, end)

(* The part of finishTailReclaim() that scans what precleanTail() left.       *)
FinishScan(ptr) ==
    IF ptr < SlabSize
      THEN ScanReclaimRange(IF ptr > write_ptr THEN ptr ELSE write_ptr,
                            SlabSize).marks
      ELSE {}

(* Entry of allocate(): the size check, precleanTail() and, when the block    *)
(* does not fit behind write_ptr, the scan of finishTailReclaim().            *)
AllocStart ==
    /\ pc = "allocate" /\ alloc.at = "start"
    /\ write_ptr <= SlabSize
    /\ NeededLen <= SlabSize - HeaderSize
    /\ LET wraps == NeededLen > SlabSize - write_ptr
           marks == PrecleanTail.marks \cup
                      (IF wraps THEN FinishScan(PrecleanTail.ptr) ELSE {})
       IN  /\ reclaim_ptr' = PrecleanTail.ptr
           /\ reclaim_offsets' = WithMarks(marks)
           /\ alloc' = [alloc EXCEPT !.at = IF wraps THEN "wrap" ELSE "first"]
    /\ UNCHANGED <<indexVars, visited, hashes, offset, ringVars, pc, op,
                   len, slab, write_ptr, callVars>>

(* evictSlot() also forgets the length.                                       *)
LenAfterEvict == [i \in Slots |-> IF offset'[i] = invalid_offset
                                    THEN 0 ELSE len[i]]

(* Mutant: a slot without a mark is skipped before the index is advanced.     *)
MutantAllocEvictPending ==
    /\ pc = "allocate" /\ alloc.at = "wrap" /\ alloc.scan < TotalSlots
    /\ IF reclaim_offsets[alloc.scan] = invalid_offset
         THEN UNCHANGED <<vars, len, alloc>>
         ELSE /\ EvictPending(alloc.scan) /\ len' = LenAfterEvict
              /\ alloc' = [alloc EXCEPT !.scan = @ + 1]
    /\ UNCHANGED <<slabVars, callVars>>

(* evictPendingSlabBlocks(), the turn of its loop for slot alloc.scan.        *)
AllocEvictPending ==
    /\ pc = "allocate" /\ alloc.at = "wrap" /\ alloc.scan < TotalSlots
    /\ alloc' = [alloc EXCEPT !.scan = @ + 1]
    /\ IF reclaim_offsets[alloc.scan] = invalid_offset
         THEN UNCHANGED <<vars, len>>
         ELSE EvictPending(alloc.scan) /\ len' = LenAfterEvict
    /\ UNCHANGED <<slabVars, callVars>>

(* The wrap: the tail becomes one free block and the allocator starts over at *)
(* offset 0.                                                                  *)
AllocWrap ==
    /\ pc = "allocate" /\ alloc.at = "wrap" /\ alloc.scan = TotalSlots
    /\ InSlab(write_ptr)
    /\ slab' = WithHeader(slab, write_ptr,
                          invalid_slot_idx, SlabSize - write_ptr, 0)
    /\ write_ptr' = 0
    /\ reclaim_ptr' = invalid_offset
    /\ alloc' = [alloc EXCEPT !.at = "first", !.scan = 0]
    /\ UNCHANGED <<vars, len, callVars>>

(* The block at offset o belongs to an active slot: it is evicted.            *)
AllocEvict(o) ==
    /\ IsSlotActive(Header(o).slot_idx, o)
    /\ AllocateEvict(Header(o).slot_idx)
    /\ len' = LenAfterEvict
    /\ UNCHANGED <<slabVars, callVars, alloc>>

AllocEvictFirst ==
    /\ pc = "allocate" /\ alloc.at = "first" /\ InSlab(write_ptr)
    /\ AllocEvict(write_ptr)

(* Mutant: the owner of the first block is not looked for.                    *)
MutantAllocFirst ==
    /\ pc = "allocate" /\ alloc.at = "first" /\ InSlab(write_ptr)
    /\ alloc' = [at |-> "scan", total |-> Header(write_ptr).block_len,
                 scan |-> write_ptr + Header(write_ptr).block_len]
    /\ UNCHANGED <<vars, len, slabVars, callVars>>

AllocFirst ==
    /\ pc = "allocate" /\ alloc.at = "first" /\ InSlab(write_ptr)
    /\ ~IsSlotActive(Header(write_ptr).slot_idx, write_ptr)
    /\ alloc' = [at |-> "scan", total |-> Header(write_ptr).block_len,
                 scan |-> write_ptr + Header(write_ptr).block_len]
    /\ UNCHANGED <<vars, len, slabVars, callVars>>

(* The loop that merges the following blocks until the new one fits.          *)
Scanning == pc = "allocate" /\ alloc.at = "scan" /\ alloc.total < NeededLen

ScanStuck ==
    \/ alloc.scan >= SlabSize
    \/ InSlab(alloc.scan) /\ Header(alloc.scan).block_len = 0

ScanGoesOn == InSlab(alloc.scan) /\ Header(alloc.scan).block_len # 0

AllocEvictNext ==
    /\ Scanning /\ ScanGoesOn
    /\ AllocEvict(alloc.scan)

(* Mutant: a block is merged without evicting its owner.                      *)
MutantAllocMerge ==
    /\ Scanning /\ ScanGoesOn
    /\ alloc' = [alloc EXCEPT !.total = @ + Header(alloc.scan).block_len,
                              !.scan = @ + Header(alloc.scan).block_len]
    /\ UNCHANGED <<vars, len, slabVars, callVars>>

AllocMerge ==
    /\ Scanning /\ ScanGoesOn
    /\ ~IsSlotActive(Header(alloc.scan).slot_idx, alloc.scan)
    /\ alloc' = [alloc EXCEPT !.total = @ + Header(alloc.scan).block_len,
                              !.scan = @ + Header(alloc.scan).block_len]
    /\ UNCHANGED <<vars, len, slabVars, callVars>>

(* ValueTooLarge, or SlabCorrupted.                                           *)
AllocFail ==
    /\ \/ alloc.at = "start" /\ NeededLen > SlabSize - HeaderSize
       \/ Scanning /\ ScanStuck
    /\ AllocateFails
    /\ alloc' = NoAlloc
    /\ key' = NoCall /\ value' = NoCall
    /\ UNCHANGED <<len, slabVars>>

(* Mutant: any rest becomes a block of its own.                               *)
MutantSplits(rest) == rest > 0

(* A rest that can hold a header becomes a free block.                        *)
Splits(rest) == rest >= HeaderSize

(* Mutant: write_ptr is left at the end of the slab.                          *)
MutantNextWrite(end) == end

NextWrite(end) == IF end = SlabSize THEN 0 ELSE end

(* The end of allocate(): header, the free rest if it can hold a header, the  *)
(* key and the value.                                                         *)
AllocWrite ==
    /\ pc = "allocate" /\ alloc.at = "scan" /\ alloc.total >= NeededLen
    /\ LET rest == alloc.total - NeededLen
           block_len == IF Splits(rest) THEN NeededLen ELSE alloc.total
           own == WithHeader(slab, write_ptr, op.slot, block_len, Len(key))
           mem == IF Splits(rest)
                    THEN WithHeader(own, write_ptr + NeededLen,
                                    invalid_slot_idx, rest, 0)
                    ELSE own
       IN  /\ Splits(rest) => InSlab(write_ptr + NeededLen)
           /\ slab' = WithWords(mem, write_ptr + HeaderSize, key \o value)
           /\ write_ptr' = NextWrite(write_ptr + block_len)
    /\ AllocateReturns(write_ptr)
    /\ alloc' = NoAlloc
    /\ UNCHANGED <<len, reclaim_ptr, callVars>>

-----------------------------------------------------------------------------
(* set() and get().                                                           *)

SetBegin(k, v) ==
    /\ \/ LookupMiss(k) /\ SetNew(HashLow[k])
       \/ \E i \in Slots : LookupHit(k, i) /\ SetExisting(HashLow[k], i)
    /\ key' = k /\ value' = v
    /\ UNCHANGED <<len, slabVars, alloc>>

(* The steps of ShardIndex that do not touch the slab.                        *)
SetIndexStep ==
    /\ RebuildClear \/ RebuildInsert \/ PlacePromote \/ SieveFound \/ SieveSkip
    /\ UNCHANGED <<len, slabVars, callVars, alloc>>

SetEvictStep ==
    /\ PlaceEvict \/ PromoteEvict
    /\ len' = LenAfterEvict
    /\ UNCHANGED <<slabVars, callVars, alloc>>

(* The promotion also writes the main slot into the block's header.           *)
SetPromoteMove ==
    /\ PromoteMove
    /\ len' = [len EXCEPT ![op.main] = len[op.slot]]
    /\ slab' = [slab EXCEPT ![offset[op.slot]] = op.main]
    /\ UNCHANGED <<write_ptr, reclaim_ptr, callVars, alloc>>

(* Mutant: an overwritten key keeps the length of its old value.              *)
MutantSetEnd ==
    /\ Publish \/ Store
    /\ len' = IF Live(op.slot) /\ op.existing THEN len
              ELSE [len EXCEPT ![op.slot] = Len(value)]
    /\ key' = NoCall /\ value' = NoCall
    /\ UNCHANGED <<slabVars, alloc>>

(* The metadata's offset and length are published in one store.               *)
SetEnd ==
    /\ Publish \/ Store
    /\ len' = [len EXCEPT ![op.slot] = Len(value)]
    /\ key' = NoCall /\ value' = NoCall
    /\ UNCHANGED <<slabVars, alloc>>

(* get() found slot i and sets its visited bit: on the lock-free path after   *)
(* the sequence number was validated, when a set() may be under way and may   *)
(* have moved, evicted or replaced what the slot held; on the fallback with   *)
(* the lock held, before the caller's buffer is measured.  A get() changes    *)
(* nothing else; what it reads is LookupHit and ValueAt.                      *)
GetTouch ==
    /\ \E i \in Slots : Touch(i)
    /\ UNCHANGED <<len, slabVars, callVars, alloc>>

SetStep ==
    \/ AllocStart \/ AllocWrap \/ AllocFirst \/ AllocMerge
    \/ AllocEvictPending \/ AllocEvictFirst \/ AllocEvictNext
    \/ AllocFail \/ AllocWrite
    \/ SetIndexStep \/ SetEvictStep \/ SetPromoteMove \/ SetEnd

ShardNext ==
    \/ GetTouch
    \/ \E k \in Keys, v \in Values : SetBegin(k, v)
    \/ SetStep

ShardSpec == ShardInit /\ [][ShardNext]_shardVars /\ WF_shardVars(SetStep)

(* An environment for values of different sizes: a set() does not arrive      *)
(* while the wrap it would cause leaves live blocks behind write_ptr.  The    *)
(* code has no such rule, and run shard_stale shows what happens without it;  *)
(* with it, all else the allocator does with such blocks is checked.          *)
CleanSet(k, v) ==
    LET needed == HeaderSize + Len(k) + Len(v)
    IN  needed > SlabSize - write_ptr /\ needed <= SlabSize - HeaderSize
          => \A i \in Slots : Live(i) => offset[i] < write_ptr

CleanNext ==
    \/ GetTouch
    \/ \E k \in Keys, v \in Values : CleanSet(k, v) /\ SetBegin(k, v)
    \/ SetStep

CleanSpec == ShardInit /\ [][CleanNext]_shardVars /\ WF_shardVars(SetStep)

-----------------------------------------------------------------------------
(* The slots whose block holds key k, found without the index.                *)
HoldersOf(k) == {i \in Slots : KeyEqualsOffset(i, k)}

(* The offsets at which the allocator's scan from 0 finds a header.           *)
Boundaries ==
    LET walk[o \in Addresses] ==
          IF \/ SlabSize - o < HeaderSize \/ Header(o).block_len < HeaderSize
             \/ Header(o).block_len > SlabSize - o
            THEN {o}
          ELSE {o} \cup (IF o + Header(o).block_len = SlabSize THEN {}
                         ELSE walk[o + Header(o).block_len])
    IN  walk[0]

(* The blocks tile the slab and the allocator stands at the start of one: its *)
(* scan meets nothing but headers, and SlabCorrupted cannot happen.           *)
Tiling ==
    /\ write_ptr \in Boundaries
    /\ \A o \in Boundaries : /\ SlabSize - o >= HeaderSize
                             /\ Header(o).block_len >= HeaderSize
                             /\ Header(o).block_len <= SlabSize - o

(* Every live slot's block is one of those blocks, names the slot, and is     *)
(* long enough for what the slot's readers take from it: so whoever reuses    *)
(* the space evicts the slot first.  (Between the two halves of a promotion   *)
(* two slots name the same block.)                                            *)
LiveBlocksOwned ==
    \A i \in Slots : Live(i) =>
        /\ offset[i] \in Boundaries
        /\ \/ Header(offset[i]).slot_idx = i
           \/ pc = "store" /\ i = op.slot
        /\ HeaderSize + Header(offset[i]).key_len + len[i]
             <= Header(offset[i]).block_len

(* Between sets a key is in at most one slot, and the index finds it there.   *)
IndexFindsKey ==
    pc = "idle" => \A k \in Keys :
        /\ Cardinality(HoldersOf(k)) <= 1
        /\ \A i \in Slots : LookupHit(k, i) <=> i \in HoldersOf(k)

(* A set() that succeeded is seen by the next lookup of its key, with its     *)
(* value: the test "basic operations" (main.zig:355-358).                     *)
ReadYourWrite ==
    [][\A k \in Keys, v \in Values :
         key = k /\ value = v /\ pc \notin {"idle", "allocate"} /\ pc' = "idle"
           => \E i \in Slots : LookupHit(k, i)' /\ ValueAt(i, k)' = v]_shardVars

(* No value; an empty value, which get() reports as a miss, counts as none.   *)
Absent == <<>>

View == [k \in Keys |->
            LET holders == HoldersOf(k)
            IN  IF holders = {} THEN Absent
                ELSE ValueAt(CHOOSE i \in holders : TRUE, k)]

(* The shard implements the cache of CacheSpec: what the slots and their      *)
(* blocks say under a key is absent or the last value stored under it.        *)
Cache == INSTANCE CacheSpec
            WITH cache <- View,
                 pending <- IF pc = "idle" THEN Absent ELSE <<key, value>>,
                 TooLarge <- {p \in Keys \X Values :
                                HeaderSize + Len(p[1]) + Len(p[2])
                                  > SlabSize - HeaderSize}

ImplementsCache == Cache!Spec

ShardTypeOK ==
    /\ len \in [Slots -> 0 .. SlabSize]
    /\ slab \in [Addresses -> Nat]
    /\ write_ptr \in Addresses
    /\ reclaim_ptr \in 0 .. SlabSize \cup {invalid_offset}
    /\ key \in Keys \cup {NoCall} /\ value \in Values \cup {NoCall}
    /\ alloc \in [at : {"start", "wrap", "first", "scan"},
                  total : 0 .. SlabSize,
                  scan : 0 .. SlabSize \cup 0 .. TotalSlots]
=============================================================================

----------------------------- MODULE ShardIndex -----------------------------
(* The part of one shard that src/src/shard.zig keeps outside the slab: the   *)
(* open-addressing index table, the slot metadata, and the SIEVE replacement  *)
(* state, as one set() changes them step by step.                             *)
(*                                                                            *)
(* Where slab.zig decides (which slots an allocation evicts, which offset it  *)
(* returns, whether it fails) this module lets everything slab.zig could do   *)
(* through the Shard interface happen: isSlotActive, markSlabBlockPending,    *)
(* evictPendingSlabBlocks and evictSlot, in any number and order.  Module     *)
(* Shard replaces that choice by the real allocator.  The key comparison of   *)
(* a lookup is also left open, because it reads the slab: set() may find any  *)
(* slot that the table lists under the hash, or none.                         *)
(*                                                                            *)
(* One set() runs at a time (it holds the ticket lock).  Readers run at any   *)
(* moment; what they write is the visited bit.                                *)
EXTENDS Integers, FiniteSets

CONSTANTS
    NumProbationary,   \* num_probationary: slots of the FIFO of newcomers
    NumMain,           \* num_main: slots of the SIEVE ring
    TableSize,         \* table.len
    HashLows,          \* the hash_low values of the keys in use
    Offsets,           \* the offsets the slab can return
    MaxU32             \* maxInt(u32)

TotalSlots == NumProbationary + NumMain
Slots == 0 .. TotalSlots - 1
Entries == 0 .. TableSize - 1
MainRing == NumProbationary .. TotalSlots - 1

(* The sentinels of slab.zig:4-5 and shard.zig:10.                            *)
invalid_slot_idx == MaxU32
tombstone_slot_idx == MaxU32 - 1
invalid_offset == MaxU32

(* A sentinel is no slot, no table position and no offset.                    *)
ASSUME SizeAssumption ==
    /\ NumProbationary \in Nat \ {0}
    /\ NumMain \in Nat \ {0}
    /\ TableSize \in Nat \ {0}
    /\ MaxU32 \in Nat
    /\ TotalSlots < MaxU32
    /\ TableSize <= MaxU32
    /\ HashLows \subseteq Nat /\ 0 \in HashLows
    /\ Offsets \subseteq Nat /\ \A o \in Offsets : o < MaxU32

(* Shard.init(): the table is a power of two that leaves 40% of it empty.     *)
ASSUME TableAssumption ==
    /\ TableSize >= (TotalSlots * 10) \div 6
    /\ \E k \in 0 .. TableSize : 2 ^ k = TableSize

VARIABLES
    table,              \* IndexEntry: [hash_low, slot_idx]
    index_positions,    \* slot -> its place in table, or invalid_slot_idx
    tombstones,
    visited,
    reclaim_offsets,    \* slot -> offset marked for eviction at the wrap
    hashes,
    offset,             \* metadata[slot].offset
    probationary_head,
    hand,
    pc,                 \* where the set() that holds the lock is
    op                  \* its locals

indexVars == <<table, index_positions, tombstones>>
slotVars == <<visited, reclaim_offsets, hashes, offset>>
ringVars == <<probationary_head, hand>>
vars == <<indexVars, slotVars, ringVars, pc, op>>

Empty == [hash_low |-> 0, slot_idx |-> invalid_slot_idx]
Tombstone == [hash_low |-> 0, slot_idx |-> tombstone_slot_idx]

(* The locals of set() and of the calls it makes: the hash and slot it works  *)
(* on, whether lookup found the key, the offset allocate() returned, the      *)
(* sieve's start and victim, and the rebuild's slot_idx with the place the    *)
(* rebuild returns to.                                                        *)
NoOp == [hash |-> 0, slot |-> 0, existing |-> FALSE, new_offset |-> 0,
         start |-> 0, main |-> 0, next |-> 0, ret |-> "idle"]

Live(i) == offset[i] # invalid_offset
IsEmpty(e) == table[e].slot_idx = invalid_slot_idx
IsTombstone(e) == table[e].slot_idx = tombstone_slot_idx

(* The table position of the d-th probe for a hash.                           *)
Probe(hash, d) == (hash + d) % TableSize

(* maybeRebuildIndexMap(): rebuild at a quarter of the table.                 *)
Threshold == IF TableSize \div 4 < 1 THEN 1 ELSE TableSize \div 4

(* A set() reaches the statement that runs in pc, or the program panics.      *)
GoTo(place, panics) == pc' = IF panics THEN "panic" ELSE place

Init ==
    /\ table = [e \in Entries |-> Empty]
    /\ index_positions = [i \in Slots |-> invalid_slot_idx]
    /\ tombstones = 0
    /\ visited = [i \in Slots |-> FALSE]
    /\ reclaim_offsets = [i \in Slots |-> invalid_offset]
    /\ hashes = [i \in Slots |-> 0]
    /\ offset = [i \in Slots |-> invalid_offset]
    /\ probationary_head = 0
    /\ hand = NumProbationary
    /\ pc = "idle"
    /\ op = NoOp

-----------------------------------------------------------------------------
(* The index map.                                                             *)

(* Mutant: the probe starts one entry after the home of the hash.             *)
MutantInsertionPoint(hash, e) ==
    \E stop \in Entries \ {0} :
        /\ IsEmpty(Probe(hash, stop))
        /\ \A d \in 1 .. stop - 1 : ~IsEmpty(Probe(hash, d))
        /\ e = Probe(hash, stop)

(* insertIndexMap() probes to the first empty entry and uses the first        *)
(* tombstone it passed, if any.  With no empty entry it would probe forever.  *)
InsertionPoint(hash, e) ==
    \E stop \in Entries :
        /\ IsEmpty(Probe(hash, stop))
        /\ \A d \in 0 .. stop - 1 : ~IsEmpty(Probe(hash, d))
        /\ \/ /\ e = Probe(hash, stop)
              /\ \A d \in 0 .. stop - 1 : ~IsTombstone(Probe(hash, d))
           \/ \E first \in 0 .. stop - 1 :
                 /\ e = Probe(hash, first)
                 /\ IsTombstone(e)
                 /\ \A d \in 0 .. first - 1 : ~IsTombstone(Probe(hash, d))

(* Mutant: a reused tombstone is still counted.                               *)
MutantInsertIndexMap(hash, i) ==
    \E e \in Entries :
        /\ InsertionPoint(hash, e)
        /\ table' = [table EXCEPT ![e] = [hash_low |-> hash, slot_idx |-> i]]
        /\ index_positions' = [index_positions EXCEPT ![i] = e]
        /\ UNCHANGED tombstones

InsertIndexMap(hash, i) ==
    \E e \in Entries :
        /\ InsertionPoint(hash, e)
        /\ table' = [table EXCEPT ![e] = [hash_low |-> hash, slot_idx |-> i]]
        /\ index_positions' = [index_positions EXCEPT ![i] = e]
        /\ tombstones' = IF IsTombstone(e) THEN tombstones - 1 ELSE tombstones

(* The check deleteIndexMap() and updateSlotInIndexMap() panic on.            *)
StalePosition(i) ==
    /\ index_positions[i] # invalid_slot_idx
    /\ table[index_positions[i]].slot_idx # i

(* Mutant: the slot keeps its position.                                       *)
MutantDeleteIndexMap(i) ==
    IF index_positions[i] = invalid_slot_idx
      THEN UNCHANGED indexVars
      ELSE /\ table' = [table EXCEPT ![index_positions[i]] = Tombstone]
           /\ tombstones' = tombstones + 1
           /\ UNCHANGED index_positions

DeleteIndexMap(i) ==
    IF index_positions[i] = invalid_slot_idx
      THEN UNCHANGED indexVars
      ELSE /\ table' = [table EXCEPT ![index_positions[i]] = Tombstone]
           /\ index_positions' =
                [index_positions EXCEPT ![i] = invalid_slot_idx]
           /\ tombstones' = tombstones + 1

(* evictSlot() of a live slot; its caller continues at place.  The rebuild    *)
(* that maybeRebuildIndexMap() may start is the following steps.              *)
EvictSlot(i, place) ==
    /\ Live(i)
    /\ DeleteIndexMap(i)
    /\ reclaim_offsets' = IF reclaim_offsets[i] = offset[i]
                            THEN [reclaim_offsets EXCEPT ![i] = invalid_offset]
                            ELSE reclaim_offsets
    /\ visited' = [visited EXCEPT ![i] = FALSE]
    /\ offset' = [offset EXCEPT ![i] = invalid_offset]
    /\ hashes' = [hashes EXCEPT ![i] = 0]
    /\ GoTo(IF tombstones' >= Threshold THEN "rebuild" ELSE place,
            StalePosition(i))
    /\ op' = [op EXCEPT !.ret = place]
    /\ UNCHANGED ringVars

(* Mutant: the table is cleared with the other sentinel.                      *)
MutantRebuildClear ==
    /\ pc = "rebuild"
    /\ table' = [e \in Entries |-> Tombstone]
    /\ index_positions' = [i \in Slots |-> invalid_slot_idx]
    /\ tombstones' = 0
    /\ pc' = "reinsert"
    /\ op' = [op EXCEPT !.next = 0]
    /\ UNCHANGED <<slotVars, ringVars>>

(* maybeRebuildIndexMap(): the clearing loop ...                              *)
RebuildClear ==
    /\ pc = "rebuild"
    /\ table' = [e \in Entries |-> Empty]
    /\ index_positions' = [i \in Slots |-> invalid_slot_idx]
    /\ tombstones' = 0
    /\ pc' = "reinsert"
    /\ op' = [op EXCEPT !.next = 0]
    /\ UNCHANGED <<slotVars, ringVars>>

(* ... and one turn of the loop that inserts the live slots again.            *)
RebuildInsert ==
    /\ pc = "reinsert"
    /\ IF Live(op.next) THEN InsertIndexMap(hashes[op.next], op.next)
                        ELSE UNCHANGED indexVars
    /\ IF op.next + 1 = TotalSlots
         THEN pc' = op.ret /\ op' = [op EXCEPT !.next = 0]
         ELSE pc' = pc     /\ op' = [op EXCEPT !.next = @ + 1]
    /\ UNCHANGED <<slotVars, ringVars>>

-----------------------------------------------------------------------------
(* set(): lookup, allocate, and then the existing slot or the new one.        *)

(* lookup() found the key in slot i, which the table lists under the hash.    *)
SetExisting(hash, i) ==
    /\ pc = "idle"
    /\ \E e \in Entries :
          table[e] = [hash_low |-> hash, slot_idx |-> i]
    /\ pc' = "allocate"
    /\ op' = [NoOp EXCEPT !.hash = hash, !.slot = i, !.existing = TRUE]
    /\ UNCHANGED <<indexVars, slotVars, ringVars>>

(* lookup() found no slot: the newcomer goes to the probationary head.        *)
SetNew(hash) ==
    /\ pc = "idle"
    /\ pc' = "allocate"
    /\ op' = [NoOp EXCEPT !.hash = hash, !.slot = probationary_head]
    /\ UNCHANGED <<indexVars, slotVars, ringVars>>

(* allocate() meets the block of an active slot in its way.                   *)
AllocateEvict(i) ==
    /\ pc = "allocate"
    /\ EvictSlot(i, "allocate")

(* markSlabBlockPending(): the slot is active at the offset the scan saw.     *)
MarkPending(i) ==
    /\ pc = "allocate"
    /\ Live(i)
    /\ reclaim_offsets[i] # offset[i]
    /\ reclaim_offsets' = [reclaim_offsets EXCEPT ![i] = offset[i]]
    /\ UNCHANGED <<indexVars, visited, hashes, offset, ringVars, pc, op>>

(* One turn of evictPendingSlabBlocks(): the mark counts only if the slot is  *)
(* still at the marked offset.                                                *)
EvictPending(i) ==
    /\ pc = "allocate"
    /\ reclaim_offsets[i] # invalid_offset
    /\ IF reclaim_offsets[i] = offset[i]
         THEN EvictSlot(i, "allocate")
         ELSE /\ reclaim_offsets' =
                   [reclaim_offsets EXCEPT ![i] = invalid_offset]
              /\ UNCHANGED <<indexVars, visited, hashes, offset, ringVars,
                             pc, op>>

(* allocate() returns ValueTooLarge or SlabCorrupted; what it evicted stays   *)
(* evicted.                                                                   *)
AllocateFails ==
    /\ pc = "allocate"
    /\ pc' = "idle"
    /\ op' = NoOp
    /\ UNCHANGED <<indexVars, slotVars, ringVars>>

AllocateReturns(o) ==
    /\ pc = "allocate"
    /\ pc' = IF op.existing THEN "publish" ELSE "place"
    /\ op' = [op EXCEPT !.new_offset = o]
    /\ UNCHANGED <<indexVars, slotVars, ringVars>>

(* Mutant: was_evicted is not looked at.                                      *)
MutantPublish ==
    /\ pc = "publish"
    /\ offset' = [offset EXCEPT ![op.slot] = op.new_offset]
    /\ visited' = [visited EXCEPT ![op.slot] = TRUE]
    /\ hashes' = [hashes EXCEPT ![op.slot] = op.hash]
    /\ InsertIndexMap(op.hash, op.slot)
    /\ pc' = "idle"
    /\ op' = NoOp
    /\ UNCHANGED <<reclaim_offsets, ringVars>>

(* The existing slot gets the new block; it is indexed again if the           *)
(* allocation evicted it.                                                     *)
Publish ==
    /\ pc = "publish"
    /\ offset' = [offset EXCEPT ![op.slot] = op.new_offset]
    /\ visited' = [visited EXCEPT ![op.slot] = TRUE]
    /\ IF Live(op.slot)
         THEN UNCHANGED <<indexVars, hashes>>
         ELSE /\ hashes' = [hashes EXCEPT ![op.slot] = op.hash]
              /\ InsertIndexMap(op.hash, op.slot)
    /\ pc' = "idle"
    /\ op' = NoOp
    /\ UNCHANGED <<reclaim_offsets, ringVars>>

(* The target slot's previous owner was not read: it is evicted.              *)
PlaceEvict ==
    /\ pc = "place"
    /\ ~visited[op.slot]
    /\ EvictSlot(op.slot, "place")

(* The previous owner was read: it is promoted to the main ring.              *)
PlacePromote ==
    /\ pc = "place"
    /\ Live(op.slot)
    /\ visited[op.slot]
    /\ pc' = "sieve"
    /\ op' = [op EXCEPT !.start = hand]
    /\ UNCHANGED <<indexVars, slotVars, ringVars>>

(* Mutant: the hand wraps one slot late.                                      *)
MutantNextHand(h) == IF h + 1 > TotalSlots THEN NumProbationary ELSE h + 1

NextHand(h) == IF h + 1 >= TotalSlots THEN NumProbationary ELSE h + 1

(* sieveEvict(), one turn: an unvisited slot is the victim ...                *)
SieveFound ==
    /\ pc = "sieve"
    /\ ~visited[hand]
    /\ pc' = "promote"
    /\ hand' = NextHand(hand)
    /\ op' = [op EXCEPT !.main = hand]
    /\ UNCHANGED <<indexVars, slotVars, probationary_head>>

(* Mutant: the loop of the sieve without the full-lap rule.                   *)
MutantSieveSkip ==
    /\ pc = "sieve"
    /\ visited[hand]
    /\ visited' = [visited EXCEPT ![hand] = FALSE]
    /\ hand' = NextHand(hand)
    /\ UNCHANGED <<indexVars, reclaim_offsets, hashes, offset,
                   probationary_head, pc, op>>

(* ... a visited one loses its bit, and after a full lap the hand's slot is   *)
(* the victim, whatever readers did to its bit meanwhile.                     *)
SieveSkip ==
    /\ pc = "sieve"
    /\ visited[hand]
    /\ visited' = [visited EXCEPT ![hand] = FALSE]
    /\ IF NextHand(hand) = op.start
         THEN /\ pc' = "promote"
              /\ op' = [op EXCEPT !.main = op.start]
              /\ hand' = NextHand(op.start)
         ELSE /\ hand' = NextHand(hand)
              /\ UNCHANGED <<pc, op>>
    /\ UNCHANGED <<indexVars, reclaim_offsets, hashes, offset,
                   probationary_head>>

PromoteEvict ==
    /\ pc = "promote"
    /\ EvictSlot(op.main, "promote")

(* Mutant: the table entry still names the probationary slot.                 *)
MutantPromoteMove ==
    /\ pc = "promote"
    /\ ~Live(op.main)
    /\ offset' = [offset EXCEPT ![op.main] = offset[op.slot]]
    /\ hashes' = [hashes EXCEPT ![op.main] = hashes[op.slot]]
    /\ visited' = [visited EXCEPT ![op.main] = FALSE]
    /\ index_positions' =
         [index_positions EXCEPT ![op.slot] = invalid_slot_idx,
                                 ![op.main] = index_positions[op.slot]]
    /\ pc' = "store"
    /\ UNCHANGED <<table, tombstones, reclaim_offsets, ringVars, op>>

(* The promoted slot's metadata and its index entry move to the main slot     *)
(* (updateSlotInIndexMap).                                                    *)
PromoteMove ==
    /\ pc = "promote"
    /\ ~Live(op.main)
    /\ offset' = [offset EXCEPT ![op.main] = offset[op.slot]]
    /\ hashes' = [hashes EXCEPT ![op.main] = hashes[op.slot]]
    /\ visited' = [visited EXCEPT ![op.main] = FALSE]
    /\ table' = [table EXCEPT ![index_positions[op.slot]] =
                   [hash_low |-> hashes[op.slot], slot_idx |-> op.main]]
    /\ index_positions' =
         [index_positions EXCEPT ![op.slot] = invalid_slot_idx,
                                 ![op.main] = index_positions[op.slot]]
    /\ GoTo("store", \/ index_positions[op.slot] = invalid_slot_idx
                     \/ StalePosition(op.slot))
    /\ UNCHANGED <<tombstones, reclaim_offsets, ringVars, op>>

(* The newcomer takes the target slot.                                        *)
Store ==
    /\ pc = "store" \/ (pc = "place" /\ ~Live(op.slot))
    /\ offset' = [offset EXCEPT ![op.slot] = op.new_offset]
    /\ hashes' = [hashes EXCEPT ![op.slot] = op.hash]
    /\ visited' = [visited EXCEPT ![op.slot] = FALSE]
    /\ InsertIndexMap(op.hash, op.slot)
    /\ probationary_head' = (probationary_head + 1) % NumProbationary
    /\ pc' = "idle"
    /\ op' = NoOp
    /\ UNCHANGED <<reclaim_offsets, hand>>

(* get(): visited.setAtomic() after the sequence number was validated.  The   *)
(* reader holds nothing then, so the slot may belong to another key, or to    *)
(* none, by the time the bit is set.                                          *)
Touch(i) ==
    /\ visited' = [visited EXCEPT ![i] = TRUE]
    /\ UNCHANGED <<indexVars, reclaim_offsets, hashes, offset, ringVars,
                   pc, op>>

-----------------------------------------------------------------------------
SetBegins == \E hash \in HashLows :
                SetNew(hash) \/ \E i \in Slots : SetExisting(hash, i)

AllocatorSteps ==
    \/ \E i \in Slots : AllocateEvict(i) \/ MarkPending(i) \/ EvictPending(i)
    \/ AllocateFails
    \/ \E o \in Offsets : AllocateReturns(o)

IndexSteps ==
    \/ RebuildClear \/ RebuildInsert
    \/ Publish
    \/ PlaceEvict \/ PlacePromote
    \/ SieveFound \/ SieveSkip
    \/ PromoteEvict \/ PromoteMove
    \/ Store

Next == \/ SetBegins
        \/ AllocatorSteps
        \/ IndexSteps
        \/ \E i \in Slots : Touch(i)

(* A set() that has begun is not abandoned by its thread.                     *)
Fairness == WF_vars(AllocatorSteps \/ IndexSteps)

Spec == Init /\ [][Next]_vars /\ Fairness

-----------------------------------------------------------------------------
Places == {"idle", "allocate", "publish", "place", "sieve", "promote",
           "store", "rebuild", "reinsert"}

TypeOK ==
    /\ table \in [Entries -> [hash_low : HashLows,
                              slot_idx : Slots \cup {invalid_slot_idx,
                                                     tombstone_slot_idx}]]
    /\ index_positions \in [Slots -> Entries \cup {invalid_slot_idx}]
    /\ tombstones \in Int
    /\ visited \in [Slots -> BOOLEAN]
    /\ reclaim_offsets \in [Slots -> Offsets \cup {invalid_offset}]
    /\ hashes \in [Slots -> HashLows]
    /\ offset \in [Slots -> Offsets \cup {invalid_offset}]
    /\ probationary_head \in 0 .. NumProbationary - 1
    /\ hand \in MainRing
    /\ pc \in Places \cup {"panic"}
    /\ op \in [hash : HashLows, slot : Slots, existing : BOOLEAN,
               new_offset : Offsets \cup {0}, start : MainRing \cup {0},
               main : MainRing \cup {0}, next : Slots, ret : Places]

(* No "slot index not found" and no "slot index position is stale": the three *)
(* panics of shard.zig are unreachable.                                       *)
NoPanic == pc # "panic"

(* index_positions and the table are inverse to each other.                   *)
PositionsPointBack ==
    /\ \A i \in Slots : index_positions[i] # invalid_slot_idx =>
          table[index_positions[i]] =
             [hash_low |-> hashes[i], slot_idx |-> i]
    /\ \A e \in Entries : table[e].slot_idx \in Slots =>
          index_positions[table[e].slot_idx] = e

(* A slot is in the index exactly when it is live, except for the slots that  *)
(* a rebuild has still to insert and the slot whose owner was just promoted.  *)
LiveIffIndexed ==
    \A i \in Slots : index_positions[i] # invalid_slot_idx <=>
        /\ Live(i)
        /\ pc = "reinsert" => i < op.next
        /\ pc = "store" => i # op.slot

(* lookupHit() reaches every indexed slot from the home of its hash before it *)
(* meets an empty entry.                                                      *)
ProbeChains ==
    \A i \in Slots : index_positions[i] # invalid_slot_idx =>
        \E d \in Entries :
            /\ index_positions[i] = Probe(hashes[i], d)
            /\ \A c \in 0 .. d - 1 : ~IsEmpty(Probe(hashes[i], c))

(* The counter that decides when to rebuild counts the tombstones there are,  *)
(* and they are fewer than the threshold, except from the eviction that makes *)
(* the last of them to the rebuild it leads to (shard.zig:495-506).           *)
TombstonesCounted ==
    /\ tombstones = Cardinality({e \in Entries : IsTombstone(e)})
    /\ tombstones < Threshold \/ (tombstones = Threshold /\ pc = "rebuild")

(* lookupHit() and insertIndexMap() have no other end than an empty entry:    *)
(* there is always one, also for a reader that looks in the middle of a set.  *)
EmptyEntryExists == \E e \in Entries : IsEmpty(e)

(* Every set() returns, also while readers keep setting visited bits behind   *)
(* the sieve's hand (the full-lap rule, shard.zig:528-532 and 546-552).       *)
SetTerminates == pc # "idle" ~> pc = "idle"
=============================================================================

-------------------------- MODULE ShardIndexProofs --------------------------
(* For every number of slots, every table size and every choice the slab      *)
(* allocator could make, the index of a shard stays consistent and none of    *)
(* its three panics can be reached.                                           *)
(*                                                                            *)
(* The inductive invariant joins four facts that no single one implies: the   *)
(* table and index_positions are inverse (PositionsPointBack), the indexed    *)
(* slots are the live ones (LiveIffIndexed), nothing between the home of a    *)
(* hash and its entry is empty (ProbeChains), and what a set() knows in each  *)
(* place about the slots in its hands (LocalsKnown).  On top of it, a second  *)
(* invariant counts: the tombstones are below the threshold, or the rebuild   *)
(* is next and a slot has just left the index (CountInv).  With the size      *)
(* Shard.init() gives the table, that leaves an empty entry at all times.     *)
EXTENDS ShardIndex, FiniteSetTheorems, TLAPS

(* Where a set() is, or will be when the rebuild under way ends.              *)
Phase == IF pc \in {"rebuild", "reinsert"} THEN op.ret ELSE pc

LocalsKnown ==
    /\ Phase \notin {"rebuild", "reinsert"}
    /\ pc \in {"rebuild", "reinsert"} => Phase \in {"allocate", "place", "promote"}
    /\ Phase \in {"place", "sieve", "promote", "store"} => ~op.existing
    /\ Phase # "idle" /\ ~op.existing => op.slot < NumProbationary
    /\ Phase = "sieve" => op.start \in MainRing
    /\ Phase = "promote" => op.main \in MainRing
    /\ Phase \in {"sieve", "promote"} => Live(op.slot)
    /\ Phase \in {"publish", "place", "sieve", "promote", "store"}
         => op.new_offset \in Offsets

IndexOK == PositionsPointBack /\ ProbeChains

IInv == TypeOK /\ NoPanic /\ IndexOK /\ LiveIffIndexed /\ LocalsKnown

-----------------------------------------------------------------------------
(* A sentinel is neither a slot nor a place in the table nor an offset.       *)
LEMMA Sentinels ==
    /\ invalid_slot_idx \notin Slots /\ tombstone_slot_idx \notin Slots
    /\ invalid_slot_idx \notin Entries
    /\ invalid_slot_idx # tombstone_slot_idx
    /\ invalid_offset \notin Offsets
  BY SizeAssumption
  DEF invalid_slot_idx, tombstone_slot_idx, invalid_offset, Slots, Entries,
      TotalSlots

(* A probe stays inside the table.                                            *)
LEMMA ProbeInTable ==
    ASSUME NEW hash \in Nat, NEW d \in Nat
    PROVE  Probe(hash, d) \in Entries
  BY SizeAssumption DEF Probe, Entries

(* insertIndexMap() of a slot that is not indexed, under its hash.            *)
LEMMA InsertKeepsIndex ==
    ASSUME TypeOK, IndexOK,
           NEW hash \in HashLows, NEW i \in Slots,
           index_positions[i] = invalid_slot_idx,
           InsertIndexMap(hash, i),
           hashes' \in [Slots -> HashLows],
           hashes'[i] = hash,
           \A j \in Slots \ {i} : hashes'[j] = hashes[j]
    PROVE  /\ table' \in [Entries -> [hash_low : HashLows,
                              slot_idx : Slots \cup {invalid_slot_idx,
                                                     tombstone_slot_idx}]]
           /\ index_positions' \in [Slots -> Entries \cup {invalid_slot_idx}]
           /\ tombstones' \in Int
           /\ index_positions'[i] # invalid_slot_idx
           /\ \A j \in Slots \ {i} : index_positions'[j] = index_positions[j]
           /\ IndexOK'
  <1>1. PICK e \in Entries :
          /\ InsertionPoint(hash, e)
          /\ table' = [table EXCEPT ![e] = [hash_low |-> hash, slot_idx |-> i]]
          /\ index_positions' = [index_positions EXCEPT ![i] = e]
          /\ tombstones' = IF IsTombstone(e) THEN tombstones - 1 ELSE tombstones
    BY DEF InsertIndexMap
  <1>2. PICK n \in Nat :
          /\ e = Probe(hash, n) /\ n \in Entries
          /\ \A d \in 0 .. n - 1 : ~IsEmpty(Probe(hash, d))
    <2>1. PICK stop \in Entries :
            /\ IsEmpty(Probe(hash, stop))
            /\ \A d \in 0 .. stop - 1 : ~IsEmpty(Probe(hash, d))
            /\ \/ e = Probe(hash, stop)
               \/ \E first \in 0 .. stop - 1 : e = Probe(hash, first)
      BY <1>1 DEF InsertionPoint
    <2>2. CASE e = Probe(hash, stop)
      BY <2>1, <2>2, SizeAssumption DEF Entries
    <2>3. CASE \E first \in 0 .. stop - 1 : e = Probe(hash, first)
      <3>1. PICK first \in 0 .. stop - 1 : e = Probe(hash, first)
        BY <2>3
      <3>2. first \in Nat /\ first \in Entries /\ stop \in Nat
        BY SizeAssumption DEF Entries
      <3> QED
        BY <2>1, <3>1, <3>2
    <2> QED
      BY <2>1, <2>2, <2>3
  <1>3. IsEmpty(e) \/ IsTombstone(e)
    BY <1>1 DEF InsertionPoint
  <1>4. /\ table[e].slot_idx \notin Slots
        /\ table'[e] = [hash_low |-> hash, slot_idx |-> i]
        /\ \A f \in Entries \ {e} : table'[f] = table[f]
    BY <1>1, <1>3, Sentinels DEF IsEmpty, IsTombstone, TypeOK
  <1>5. /\ index_positions'[i] = e
        /\ \A j \in Slots \ {i} : index_positions'[j] = index_positions[j]
    BY <1>1 DEF TypeOK
  <1>6. PositionsPointBack'
    <2>1. ASSUME NEW j \in Slots, index_positions'[j] # invalid_slot_idx
          PROVE  table'[index_positions'[j]] =
                   [hash_low |-> hashes'[j], slot_idx |-> j]
      <3>1. CASE j = i
        BY <3>1, <1>4, <1>5
      <3>2. CASE j # i
        <4>1. index_positions[j] # invalid_slot_idx
              /\ index_positions[j] \in Entries
          BY <2>1, <3>2, <1>5 DEF TypeOK
        <4>2. table[index_positions[j]] =
                [hash_low |-> hashes[j], slot_idx |-> j]
          BY <4>1 DEF IndexOK, PositionsPointBack
        <4>3. index_positions[j] # e
          BY <4>2, <1>4
        <4> QED
          BY <4>1, <4>2, <4>3, <3>2, <1>4, <1>5
      <3> QED
        BY <3>1, <3>2
    <2>2. ASSUME NEW f \in Entries, table'[f].slot_idx \in Slots
          PROVE  index_positions'[table'[f].slot_idx] = f
      <3>1. CASE f = e
        BY <3>1, <1>4, <1>5
      <3>2. CASE f # e
        <4>1. table'[f] = table[f] /\ index_positions[table[f].slot_idx] = f
          BY <2>2, <3>2, <1>4 DEF IndexOK, PositionsPointBack
        <4>2. table[f].slot_idx # i
          BY <4>1, Sentinels
        <4> QED
          BY <4>1, <4>2, <2>2, <1>5
      <3> QED
        BY <3>1, <3>2
    <2> QED
      BY <2>1, <2>2 DEF PositionsPointBack
  <1>7. \A f \in Entries : table[f].slot_idx # invalid_slot_idx
                             => table'[f].slot_idx # invalid_slot_idx
    BY <1>4, Sentinels
  <1>8. ProbeChains'
    <2> SUFFICES ASSUME NEW j \in Slots, index_positions'[j] # invalid_slot_idx
                 PROVE  \E d \in Entries :
                          /\ index_positions'[j] = Probe(hashes'[j], d)
                          /\ \A c \in 0 .. d - 1 :
                               table'[Probe(hashes'[j], c)].slot_idx
                                 # invalid_slot_idx
      BY DEF ProbeChains, Probe, IsEmpty
    <2>0. hashes'[j] \in Nat
      BY SizeAssumption
    <2>1. CASE j = i
      <3>1. \A c \in 0 .. n - 1 : Probe(hash, c) \in Entries
        BY <2>0, <2>1, ProbeInTable
      <3>2. \A c \in 0 .. n - 1 :
              table'[Probe(hash, c)].slot_idx # invalid_slot_idx
        BY <3>1, <1>2, <1>7 DEF IsEmpty
      <3>3. index_positions'[j] = Probe(hashes'[j], n) /\ hashes'[j] = hash
        BY <2>1, <1>2, <1>5
      <3> QED
        BY <3>2, <3>3, <1>2
    <2>2. CASE j # i
      <3>1. /\ index_positions'[j] = index_positions[j]
            /\ hashes'[j] = hashes[j]
        BY <2>2, <1>5
      <3>2. PICK d \in Entries :
              /\ index_positions[j] = Probe(hashes[j], d)
              /\ \A c \in 0 .. d - 1 : ~IsEmpty(Probe(hashes[j], c))
        BY <3>1 DEF IndexOK, ProbeChains
      <3>3. \A c \in 0 .. d - 1 : Probe(hashes[j], c) \in Entries
        BY <2>0, <3>1, ProbeInTable
      <3>4. \A c \in 0 .. d - 1 :
              table'[Probe(hashes[j], c)].slot_idx # invalid_slot_idx
        BY <3>2, <3>3, <1>7 DEF IsEmpty
      <3> QED
        BY <3>1, <3>2, <3>4
    <2> QED
      BY <2>1, <2>2
  <1>9. /\ table' \in [Entries -> [hash_low : HashLows,
                              slot_idx : Slots \cup {invalid_slot_idx,
                                                     tombstone_slot_idx}]]
        /\ index_positions' \in [Slots -> Entries \cup {invalid_slot_idx}]
        /\ tombstones' \in Int
    BY <1>1 DEF TypeOK
  <1> QED
    BY <1>5, <1>6, <1>8, <1>9, Sentinels DEF IndexOK

(* evictSlot() of a live slot in one of the places that call it.              *)
LEMMA EvictSlotStep ==
    ASSUME IInv,
           NEW place \in {"allocate", "place", "promote"}, pc = place,
           NEW i \in Slots, EvictSlot(i, place),
           place = "promote" => i = op.main
    PROVE  IInv'
  <1>1. Live(i) /\ index_positions[i] # invalid_slot_idx
        /\ index_positions[i] \in Entries
    BY DEF IInv, LiveIffIndexed, EvictSlot, TypeOK
  <1> DEFINE p == index_positions[i]
  <1>2. table[p] = [hash_low |-> hashes[i], slot_idx |-> i]
    BY <1>1 DEF IInv, IndexOK, PositionsPointBack
  <1>3. /\ table' = [table EXCEPT ![p] = Tombstone]
        /\ index_positions' = [index_positions EXCEPT ![i] = invalid_slot_idx]
        /\ tombstones' = tombstones + 1
    BY <1>1 DEF EvictSlot, DeleteIndexMap
  <1>4. /\ table'[p] = Tombstone
        /\ \A e \in Entries \ {p} : table'[e] = table[e]
        /\ index_positions'[i] = invalid_slot_idx
        /\ \A j \in Slots \ {i} : index_positions'[j] = index_positions[j]
    BY <1>1, <1>3 DEF IInv, TypeOK
  <1>5. /\ hashes' = [hashes EXCEPT ![i] = 0]
        /\ offset' = [offset EXCEPT ![i] = invalid_offset]
        /\ op' = [op EXCEPT !.ret = place]
        /\ UNCHANGED ringVars
    BY DEF EvictSlot
  <1>6. pc' \in {place, "rebuild"}
    <2>1. ~StalePosition(i)
      BY <1>2 DEF StalePosition
    <2> QED
      BY <2>1 DEF EvictSlot, GoTo
  <1>7. TypeOK'
    <2>1. Tombstone \in [hash_low : HashLows,
                         slot_idx : Slots \cup {invalid_slot_idx,
                                                tombstone_slot_idx}]
      BY SizeAssumption DEF Tombstone
    <2>2. table' \in [Entries -> [hash_low : HashLows,
                              slot_idx : Slots \cup {invalid_slot_idx,
                                                     tombstone_slot_idx}]]
      BY <1>3, <2>1 DEF IInv, TypeOK
    <2>3. /\ index_positions' \in [Slots -> Entries \cup {invalid_slot_idx}]
          /\ tombstones' \in Int
      BY <1>3 DEF IInv, TypeOK
    <2>4. /\ hashes' \in [Slots -> HashLows]
          /\ offset' \in [Slots -> Offsets \cup {invalid_offset}]
      BY <1>5, SizeAssumption DEF IInv, TypeOK
    <2>5. /\ visited' \in [Slots -> BOOLEAN]
          /\ reclaim_offsets' \in [Slots -> Offsets \cup {invalid_offset}]
      BY DEF EvictSlot, IInv, TypeOK
    <2>6. probationary_head' \in 0 .. NumProbationary - 1 /\ hand' \in MainRing
      BY <1>5 DEF ringVars, IInv, TypeOK
    <2>7. pc' \in Places \cup {"panic"} /\ place \in Places
      BY <1>6 DEF Places
    <2>8. op' \in [hash : HashLows, slot : Slots, existing : BOOLEAN,
               new_offset : Offsets \cup {0}, start : MainRing \cup {0},
               main : MainRing \cup {0}, next : Slots, ret : Places]
      BY <1>5, <2>7 DEF IInv, TypeOK
    <2> QED
      BY <2>2, <2>3, <2>4, <2>5, <2>6, <2>7, <2>8 DEF TypeOK
  <1>8. PositionsPointBack'
    <2>1. ASSUME NEW j \in Slots, index_positions'[j] # invalid_slot_idx
          PROVE  table'[index_positions'[j]] =
                   [hash_low |-> hashes'[j], slot_idx |-> j]
      <3>1. j # i /\ index_positions'[j] = index_positions[j]
        BY <2>1, <1>4
      <3>2. index_positions[j] \in Entries
            /\ table[index_positions[j]] =
                 [hash_low |-> hashes[j], slot_idx |-> j]
        BY <2>1, <3>1 DEF IInv, TypeOK, IndexOK, PositionsPointBack
      <3>3. index_positions[j] # p
        BY <3>1, <3>2, <1>2
      <3>4. hashes'[j] = hashes[j]
        BY <3>1, <1>5 DEF IInv, TypeOK
      <3> QED
        BY <3>1, <3>2, <3>3, <3>4, <1>4
    <2>2. ASSUME NEW e \in Entries, table'[e].slot_idx \in Slots
          PROVE  index_positions'[table'[e].slot_idx] = e
      <3>1. e # p
        BY <2>2, <1>4, Sentinels DEF Tombstone
      <3>2. table'[e] = table[e] /\ index_positions[table[e].slot_idx] = e
        BY <2>2, <3>1, <1>4 DEF IInv, IndexOK, PositionsPointBack
      <3>3. table[e].slot_idx # i
        BY <3>1, <3>2
      <3> QED
        BY <2>2, <3>2, <3>3, <1>4
    <2> QED
      BY <2>1, <2>2 DEF PositionsPointBack
  <1>9. \A e \in Entries : table[e].slot_idx # invalid_slot_idx
                             => table'[e].slot_idx # invalid_slot_idx
    BY <1>4, Sentinels DEF Tombstone
  <1>10. ProbeChains'
    <2> SUFFICES ASSUME NEW j \in Slots, index_positions'[j] # invalid_slot_idx
                 PROVE  \E d \in Entries :
                          /\ index_positions'[j] = Probe(hashes'[j], d)
                          /\ \A c \in 0 .. d - 1 :
                               table'[Probe(hashes'[j], c)].slot_idx
                                 # invalid_slot_idx
      BY DEF ProbeChains, Probe, IsEmpty
    <2>1. j # i /\ index_positions'[j] = index_positions[j]
      BY <1>4
    <2>2. hashes'[j] = hashes[j] /\ hashes[j] \in Nat
      BY <2>1, <1>5, SizeAssumption DEF IInv, TypeOK
    <2>3. PICK d \in Entries :
            /\ index_positions[j] = Probe(hashes[j], d)
            /\ \A c \in 0 .. d - 1 : ~IsEmpty(Probe(hashes[j], c))
      BY <2>1 DEF IInv, IndexOK, ProbeChains
    <2>4. \A c \in 0 .. d - 1 : Probe(hashes[j], c) \in Entries
      BY <2>2, ProbeInTable
    <2> QED
      BY <2>1, <2>2, <2>3, <2>4, <1>9 DEF IsEmpty
  <1>11. LiveIffIndexed'
    <2> SUFFICES ASSUME NEW j \in Slots
                 PROVE  index_positions'[j] # invalid_slot_idx
                          <=> offset'[j] # invalid_offset
      BY <1>6 DEF LiveIffIndexed, Live
    <2>1. index_positions[j] # invalid_slot_idx <=> offset[j] # invalid_offset
      BY DEF IInv, LiveIffIndexed, Live
    <2> QED
      BY <2>1, <1>4, <1>5 DEF IInv, TypeOK
  <1>12. LocalsKnown'
    <2>1. Phase' = place /\ Phase = place
      BY <1>5, <1>6 DEF Phase, IInv, TypeOK
    <2>2. /\ op'.existing = op.existing /\ op'.slot = op.slot
          /\ op'.main = op.main /\ op'.new_offset = op.new_offset
      BY <1>5 DEF IInv, TypeOK
    <2>3. place = "promote" => Live(op.slot)'
      <3> SUFFICES ASSUME place = "promote" PROVE offset'[op.slot] # invalid_offset
        BY <2>2 DEF Live
      <3>1. op.slot < NumProbationary /\ op.main \in MainRing /\ Live(op.slot)
        BY <2>1 DEF IInv, LocalsKnown
      <3>2. op.slot # i
        BY <3>1, SizeAssumption DEF MainRing, IInv, TypeOK, Slots, TotalSlots
      <3> QED
        BY <3>1, <3>2, <1>5 DEF Live, IInv, TypeOK
    <2> QED
      BY <2>1, <2>2, <2>3, <1>6 DEF LocalsKnown, IInv
  <1> QED
    BY <1>6, <1>7, <1>8, <1>10, <1>11, <1>12 DEF IInv, IndexOK, NoPanic

(* A step that leaves the index, the hashes and the offsets alone.            *)
LEMMA IndexUntouched ==
    ASSUME IInv, UNCHANGED <<indexVars, hashes, offset>>
    PROVE  /\ IndexOK'
           /\ \A i \in Slots : /\ index_positions'[i] = index_positions[i]
                               /\ Live(i)' <=> Live(i)
  BY DEF IInv, IndexOK, PositionsPointBack, ProbeChains, indexVars, IsEmpty, Live

LEMMA InitInv == Init => IInv
  <1> SUFFICES ASSUME Init PROVE IInv
    OBVIOUS
  <1>1. Empty \in [hash_low : HashLows,
                   slot_idx : Slots \cup {invalid_slot_idx,
                                          tombstone_slot_idx}]
    BY SizeAssumption DEF Empty
  <1>2. 0 \in Slots /\ hand \in MainRing
    BY SizeAssumption DEF Init, Slots, MainRing, TotalSlots
  <1>3. NoOp \in [hash : HashLows, slot : Slots, existing : BOOLEAN,
               new_offset : Offsets \cup {0}, start : MainRing \cup {0},
               main : MainRing \cup {0}, next : Slots, ret : Places]
    BY <1>2, SizeAssumption DEF NoOp, Places
  <1>4. TypeOK
    BY <1>1, <1>2, <1>3, SizeAssumption DEF Init, TypeOK, Places
  <1>5. PositionsPointBack /\ ProbeChains
    BY Sentinels DEF Init, PositionsPointBack, ProbeChains, Empty
  <1>6. LiveIffIndexed
    BY DEF Init, LiveIffIndexed, Live
  <1>7. LocalsKnown
    BY DEF Init, LocalsKnown, Phase
  <1> QED
    BY <1>4, <1>5, <1>6, <1>7 DEF IInv, IndexOK, NoPanic, Init

LEMMA SetBeginsStep ==
    ASSUME IInv, NEW hash \in HashLows,
           SetNew(hash) \/ \E i \in Slots : SetExisting(hash, i)
    PROVE  IInv'
  <1>1. PICK i \in Slots, known \in BOOLEAN :
          /\ pc = "idle" /\ pc' = "allocate"
          /\ op' = [hash |-> hash, slot |-> i, existing |-> known,
                    new_offset |-> 0, start |-> 0, main |-> 0, next |-> 0,
                    ret |-> "idle"]
          /\ ~known => i = probationary_head
          /\ UNCHANGED <<indexVars, slotVars, ringVars>>
    <2>1. CASE SetNew(hash)
      <3>1. probationary_head \in Slots
        BY SizeAssumption DEF IInv, TypeOK, Slots, TotalSlots
      <3> WITNESS probationary_head \in Slots
      <3> WITNESS FALSE \in BOOLEAN
      <3> QED
        BY <2>1 DEF SetNew, NoOp
    <2>2. CASE \E i \in Slots : SetExisting(hash, i)
      <3>1. PICK i \in Slots : SetExisting(hash, i)
        BY <2>2
      <3> WITNESS i \in Slots
      <3> WITNESS TRUE \in BOOLEAN
      <3> QED
        BY <3>1 DEF SetExisting, NoOp
    <2> QED
      BY <2>1, <2>2
  <1>3. 0 \in Slots
    BY SizeAssumption DEF Slots, TotalSlots
  <1>4. TypeOK'
    BY <1>1, <1>3 DEF IInv, TypeOK, indexVars, slotVars, ringVars, Places
  <1>5. IndexOK' /\ LiveIffIndexed'
    BY <1>1, IndexUntouched DEF IInv, LiveIffIndexed, slotVars
  <1>6. LocalsKnown'
    BY <1>1, SizeAssumption DEF LocalsKnown, Phase, IInv, TypeOK
  <1> QED
    BY <1>1, <1>4, <1>5, <1>6 DEF IInv, NoPanic

LEMMA MarkStep ==
    ASSUME IInv, NEW i \in Slots,
           reclaim_offsets' \in [Slots -> Offsets \cup {invalid_offset}],
           UNCHANGED <<indexVars, visited, hashes, offset, ringVars, pc, op>>
    PROVE  IInv'
  <1>1. TypeOK'
    BY DEF IInv, TypeOK, indexVars, ringVars
  <1>2. IndexOK' /\ LiveIffIndexed' /\ LocalsKnown'
    BY IndexUntouched DEF IInv, LiveIffIndexed, LocalsKnown, Phase, Live
  <1> QED
    BY <1>1, <1>2 DEF IInv, NoPanic

LEMMA AllocatorStep == ASSUME IInv, AllocatorSteps PROVE IInv'
  <1>1. ASSUME NEW i \in Slots, AllocateEvict(i) PROVE IInv'
    BY <1>1, EvictSlotStep DEF AllocateEvict
  <1>2. ASSUME NEW i \in Slots, MarkPending(i) PROVE IInv'
    <2>1. reclaim_offsets' \in [Slots -> Offsets \cup {invalid_offset}]
      BY <1>2 DEF MarkPending, IInv, TypeOK
    <2> QED
      BY <1>2, <2>1, MarkStep DEF MarkPending
  <1>3. ASSUME NEW i \in Slots, EvictPending(i) PROVE IInv'
    <2>1. CASE reclaim_offsets[i] = offset[i]
      BY <1>3, <2>1, EvictSlotStep DEF EvictPending
    <2>2. CASE reclaim_offsets[i] # offset[i]
      <3>1. reclaim_offsets' \in [Slots -> Offsets \cup {invalid_offset}]
        BY <1>3, <2>2 DEF EvictPending, IInv, TypeOK
      <3> QED
        BY <1>3, <2>2, <3>1, MarkStep DEF EvictPending
    <2> QED
      BY <2>1, <2>2
  <1>4. ASSUME AllocateFails PROVE IInv'
    <2>1. 0 \in Slots
      BY SizeAssumption DEF Slots, TotalSlots
    <2>2. TypeOK'
      BY <1>4, <2>1, SizeAssumption
      DEF AllocateFails, IInv, TypeOK, indexVars, slotVars, ringVars, NoOp,
          Places
    <2>3. IndexOK' /\ LiveIffIndexed'
      BY <1>4, IndexUntouched DEF AllocateFails, IInv, LiveIffIndexed, slotVars
    <2>4. LocalsKnown'
      BY <1>4 DEF AllocateFails, LocalsKnown, Phase, NoOp
    <2> QED
      BY <1>4, <2>2, <2>3, <2>4 DEF AllocateFails, IInv, NoPanic
  <1>5. ASSUME NEW o \in Offsets, AllocateReturns(o) PROVE IInv'
    <2>1. /\ op' = [op EXCEPT !.new_offset = o]
          /\ pc' \in {"publish", "place"} /\ pc = "allocate"
          /\ pc' = "place" => ~op.existing
      BY <1>5 DEF AllocateReturns
    <2>2. TypeOK'
      BY <2>1, <1>5
      DEF AllocateReturns, IInv, TypeOK, indexVars, slotVars, ringVars, Places
    <2>3. IndexOK' /\ LiveIffIndexed'
      BY <1>5, <2>1, IndexUntouched
      DEF AllocateReturns, IInv, LiveIffIndexed, slotVars
    <2>4. LocalsKnown'
      BY <2>1, <1>5 DEF LocalsKnown, Phase, IInv, TypeOK
    <2> QED
      BY <2>1, <2>2, <2>3, <2>4 DEF IInv, NoPanic
  <1> QED
    BY <1>1, <1>2, <1>3, <1>4, <1>5 DEF AllocatorSteps

LEMMA RebuildClearStep == ASSUME IInv, RebuildClear PROVE IInv'
  <1>1. /\ pc = "rebuild" /\ pc' = "reinsert"
        /\ op' = [op EXCEPT !.next = 0]
        /\ UNCHANGED <<slotVars, ringVars>>
        /\ \A i \in Slots : index_positions'[i] = invalid_slot_idx
        /\ \A e \in Entries : table'[e] = Empty
    BY DEF RebuildClear
  <1>2. TypeOK'
    <2>1. Empty \in [hash_low : HashLows,
                     slot_idx : Slots \cup {invalid_slot_idx,
                                            tombstone_slot_idx}]
      BY SizeAssumption DEF Empty
    <2>2. 0 \in Slots
      BY SizeAssumption DEF Slots, TotalSlots
    <2> QED
      BY <1>1, <2>1, <2>2
      DEF RebuildClear, IInv, TypeOK, slotVars, ringVars, Places
  <1>3. IndexOK'
    BY <1>1, Sentinels DEF IndexOK, PositionsPointBack, ProbeChains, Empty
  <1>4. LiveIffIndexed'
    <2>1. op'.next = 0
      BY <1>1 DEF IInv, TypeOK
    <2> QED
      BY <1>1, <2>1 DEF LiveIffIndexed, Slots
  <1>5. LocalsKnown'
    BY <1>1 DEF LocalsKnown, Phase, Live, slotVars, IInv, TypeOK
  <1> QED
    BY <1>1, <1>2, <1>3, <1>4, <1>5 DEF IInv, NoPanic

LEMMA RebuildInsertStep == ASSUME IInv, RebuildInsert PROVE IInv'
  <1> DEFINE n == op.next
  <1>1. /\ pc = "reinsert" /\ n \in Slots /\ n \in Nat
        /\ UNCHANGED <<slotVars, ringVars>>
        /\ op.ret \in {"allocate", "place", "promote"}
    BY DEF RebuildInsert, IInv, TypeOK, LocalsKnown, Phase, Slots
  <1>2. index_positions[n] = invalid_slot_idx
    BY <1>1 DEF IInv, LiveIffIndexed
  <1>3. /\ table' \in [Entries -> [hash_low : HashLows,
                              slot_idx : Slots \cup {invalid_slot_idx,
                                                     tombstone_slot_idx}]]
        /\ index_positions' \in [Slots -> Entries \cup {invalid_slot_idx}]
        /\ tombstones' \in Int
        /\ index_positions'[n] # invalid_slot_idx <=> Live(n)
        /\ \A j \in Slots \ {n} : index_positions'[j] = index_positions[j]
        /\ IndexOK'
    <2>1. CASE Live(n)
      <3>1. InsertIndexMap(hashes[n], n) /\ hashes' = hashes
            /\ hashes[n] \in HashLows
        BY <2>1, <1>1 DEF RebuildInsert, slotVars, IInv, TypeOK
      <3> QED
        BY <2>1, <3>1, <1>1, <1>2, InsertKeepsIndex DEF IInv, TypeOK
    <2>2. CASE ~Live(n)
      BY <2>2, <1>1, <1>2, IndexUntouched
      DEF RebuildInsert, IInv, TypeOK, slotVars, indexVars
    <2> QED
      BY <2>1, <2>2
  <1>4. \/ /\ n + 1 = TotalSlots /\ pc' = op.ret /\ op' = [op EXCEPT !.next = 0]
        \/ /\ n + 1 # TotalSlots /\ pc' = "reinsert"
           /\ op' = [op EXCEPT !.next = n + 1]
    BY <1>1 DEF RebuildInsert
  <1>5. TypeOK'
    <2>1. 0 \in Slots /\ (n + 1 # TotalSlots => n + 1 \in Slots)
      BY <1>1, SizeAssumption DEF Slots, TotalSlots
    <2>2. op' \in [hash : HashLows, slot : Slots, existing : BOOLEAN,
               new_offset : Offsets \cup {0}, start : MainRing \cup {0},
               main : MainRing \cup {0}, next : Slots, ret : Places]
      BY <1>4, <2>1 DEF IInv, TypeOK
    <2> QED
      BY <1>1, <1>3, <1>4, <2>2 DEF IInv, TypeOK, slotVars, ringVars, Places
  <1>6. LiveIffIndexed'
    <2> SUFFICES ASSUME NEW j \in Slots
                 PROVE  index_positions'[j] # invalid_slot_idx <=>
                          /\ Live(j)
                          /\ pc' = "reinsert" => j < op'.next
                          /\ pc' = "store" => j # op'.slot
      BY <1>1 DEF LiveIffIndexed, Live, slotVars
    <2>1. pc' # "store"
      BY <1>1, <1>4
    <2>2. pc' = "reinsert" => op'.next = n + 1
      BY <1>1, <1>4 DEF IInv, TypeOK
    <2>3. pc' # "reinsert" => n + 1 = TotalSlots
      BY <1>4
    <2>4. j # n => (index_positions[j] # invalid_slot_idx
                      <=> Live(j) /\ j < n)
      BY <1>1 DEF IInv, LiveIffIndexed
    <2> QED
      BY <1>1, <1>3, <2>1, <2>2, <2>3, <2>4, SizeAssumption
      DEF Slots, TotalSlots
  <1>7. LocalsKnown'
    <2>1. Phase' = Phase /\ Phase = op.ret
      BY <1>1, <1>4 DEF Phase, IInv, TypeOK
    <2>2. /\ op'.existing = op.existing /\ op'.slot = op.slot
          /\ op'.main = op.main /\ op'.new_offset = op.new_offset
      BY <1>4 DEF IInv, TypeOK
    <2> QED
      BY <1>1, <1>4, <2>1, <2>2 DEF LocalsKnown, IInv, Live, slotVars
  <1> QED
    BY <1>1, <1>3, <1>4, <1>5, <1>6, <1>7 DEF IInv, NoPanic

(* The last step of a set(): it stores a new offset in its slot, indexes the  *)
(* slot unless it is indexed already, and forgets its locals.                 *)
LEMMA SetEndsStep ==
    ASSUME IInv, pc # "idle",
           \A j \in Slots \ {op.slot} :
              index_positions[j] # invalid_slot_idx <=> Live(j),
           op.new_offset \in Offsets,
           offset' = [offset EXCEPT ![op.slot] = op.new_offset],
           visited' \in [Slots -> BOOLEAN],
           \/ /\ index_positions[op.slot] # invalid_slot_idx
              /\ UNCHANGED <<indexVars, hashes>>
           \/ /\ index_positions[op.slot] = invalid_slot_idx
              /\ hashes' = [hashes EXCEPT ![op.slot] = op.hash]
              /\ InsertIndexMap(op.hash, op.slot),
           probationary_head' \in 0 .. NumProbationary - 1,
           pc' = "idle", op' = NoOp,
           UNCHANGED <<reclaim_offsets, hand>>
    PROVE  IInv'
  <1> DEFINE s == op.slot
  <1>1. s \in Slots /\ op.hash \in HashLows
    BY DEF IInv, TypeOK
  <1>2. /\ hashes' \in [Slots -> HashLows]
        /\ table' \in [Entries -> [hash_low : HashLows,
                              slot_idx : Slots \cup {invalid_slot_idx,
                                                     tombstone_slot_idx}]]
        /\ index_positions' \in [Slots -> Entries \cup {invalid_slot_idx}]
        /\ tombstones' \in Int
        /\ index_positions'[s] # invalid_slot_idx
        /\ \A j \in Slots \ {s} : index_positions'[j] = index_positions[j]
        /\ IndexOK'
    <2>1. CASE /\ index_positions[s] # invalid_slot_idx
               /\ UNCHANGED <<indexVars, hashes>>
      <3>1. IndexOK'
        BY <2>1 DEF IInv, IndexOK, PositionsPointBack, ProbeChains, indexVars,
                    IsEmpty
      <3> QED
        BY <2>1, <3>1 DEF IInv, TypeOK, indexVars
    <2>2. CASE /\ index_positions[s] = invalid_slot_idx
               /\ hashes' = [hashes EXCEPT ![s] = op.hash]
               /\ InsertIndexMap(op.hash, s)
      <3>1. /\ hashes' \in [Slots -> HashLows] /\ hashes'[s] = op.hash
            /\ \A j \in Slots \ {s} : hashes'[j] = hashes[j]
        BY <2>2, <1>1 DEF IInv, TypeOK
      <3> QED
        BY <2>2, <3>1, <1>1, InsertKeepsIndex DEF IInv
    <2> QED
      BY <2>1, <2>2
  <1>3. 0 \in Slots
    BY SizeAssumption DEF Slots, TotalSlots
  <1>4. NoOp \in [hash : HashLows, slot : Slots, existing : BOOLEAN,
               new_offset : Offsets \cup {0}, start : MainRing \cup {0},
               main : MainRing \cup {0}, next : Slots, ret : Places]
    BY <1>3, SizeAssumption DEF NoOp, Places
  <1>5. offset' \in [Slots -> Offsets \cup {invalid_offset}]
    BY DEF IInv, TypeOK
  <1>6. TypeOK'
    BY <1>2, <1>4, <1>5 DEF IInv, TypeOK, Places
  <1>7. LiveIffIndexed'
    <2> SUFFICES ASSUME NEW j \in Slots
                 PROVE  index_positions'[j] # invalid_slot_idx
                          <=> offset'[j] # invalid_offset
      BY DEF LiveIffIndexed, Live
    <2>1. CASE j = s
      BY <2>1, <1>1, <1>2, Sentinels DEF IInv, TypeOK
    <2>2. CASE j # s
      BY <2>2, <1>2 DEF IInv, TypeOK, Live
    <2> QED
      BY <2>1, <2>2
  <1>8. LocalsKnown'
    BY DEF LocalsKnown, Phase, NoOp
  <1> QED
    BY <1>2, <1>6, <1>7, <1>8 DEF IInv, NoPanic

LEMMA PublishStep == ASSUME IInv, Publish PROVE IInv'
  <1>1. /\ pc = "publish" /\ op.slot \in Slots
        /\ op.new_offset \in Offsets
    BY DEF Publish, IInv, LocalsKnown, Phase, TypeOK
  <1>2. \A j \in Slots : index_positions[j] # invalid_slot_idx <=> Live(j)
    BY <1>1 DEF IInv, LiveIffIndexed
  <1>3. visited' \in [Slots -> BOOLEAN]
    BY DEF Publish, IInv, TypeOK
  <1> QED
    BY <1>1, <1>2, <1>3, SetEndsStep DEF Publish, ringVars, IInv, TypeOK

LEMMA StoreStep == ASSUME IInv, Store PROVE IInv'
  <1>1. /\ pc \in {"store", "place"} /\ op.slot \in Slots
        /\ op.new_offset \in Offsets
    BY DEF Store, IInv, LocalsKnown, Phase, TypeOK
  <1>2. /\ index_positions[op.slot] = invalid_slot_idx
        /\ \A j \in Slots \ {op.slot} :
              index_positions[j] # invalid_slot_idx <=> Live(j)
    BY <1>1 DEF Store, IInv, LiveIffIndexed
  <1>3. visited' \in [Slots -> BOOLEAN]
    BY DEF Store, IInv, TypeOK
  <1>4. probationary_head' \in 0 .. NumProbationary - 1
    BY SizeAssumption DEF Store, IInv, TypeOK
  <1> QED
    BY <1>1, <1>2, <1>3, <1>4, SetEndsStep DEF Store

(* The hand of the sieve stays in the main ring.                              *)
LEMMA HandInRing ==
    ASSUME NEW h \in MainRing
    PROVE  NextHand(h) \in MainRing
  BY SizeAssumption DEF NextHand, MainRing, TotalSlots

(* Steps that move only the sieve, the visited bits and the locals.           *)
LEMMA RingStep ==
    ASSUME IInv, UNCHANGED <<indexVars, reclaim_offsets, hashes, offset,
                             probationary_head>>,
           visited' \in [Slots -> BOOLEAN],
           pc \in {"place", "sieve"}, pc' \in {"sieve", "promote"},
           hand' \in MainRing, Live(op.slot),
           NEW start \in MainRing \cup {0}, NEW main \in MainRing \cup {0},
           op' = [op EXCEPT !.start = start, !.main = main],
           pc' = "sieve" => start \in MainRing,
           pc' = "promote" => main \in MainRing
    PROVE  IInv'
  <1>1. TypeOK'
    BY DEF IInv, TypeOK, indexVars, Places
  <1>2. IndexOK' /\ LiveIffIndexed'
    BY IndexUntouched DEF IInv, LiveIffIndexed
  <1>3. LocalsKnown'
    BY DEF LocalsKnown, Phase, IInv, TypeOK, Live
  <1> QED
    BY <1>1, <1>2, <1>3 DEF IInv, NoPanic

LEMMA PlacePromoteStep == ASSUME IInv, PlacePromote PROVE IInv'
  <1>1. op.main \in MainRing \cup {0} /\ hand \in MainRing
    BY DEF IInv, TypeOK
  <1>2. op' = [op EXCEPT !.start = hand, !.main = op.main]
    BY DEF PlacePromote, IInv, TypeOK
  <1> QED
    BY <1>1, <1>2, RingStep
    DEF PlacePromote, slotVars, ringVars, IInv, TypeOK

LEMMA SieveStep == ASSUME IInv, SieveFound \/ SieveSkip PROVE IInv'
  <1>1. /\ op.main \in MainRing \cup {0} /\ hand \in MainRing
        /\ pc = "sieve" /\ op.start \in MainRing /\ Live(op.slot)
    BY DEF SieveFound, SieveSkip, IInv, TypeOK, LocalsKnown, Phase
  <1>2. NextHand(hand) \in MainRing /\ NextHand(op.start) \in MainRing
    BY <1>1, HandInRing
  <1>3. CASE SieveFound
    <2>1. op' = [op EXCEPT !.start = op.start, !.main = hand]
      BY <1>3 DEF SieveFound, IInv, TypeOK
    <2> QED
      BY <1>1, <1>2, <1>3, <2>1, RingStep
      DEF SieveFound, slotVars, IInv, TypeOK
  <1>4. CASE SieveSkip
    <2>1. visited' \in [Slots -> BOOLEAN]
      BY <1>4 DEF SieveSkip, IInv, TypeOK
    <2>2. CASE NextHand(hand) = op.start
      <3>1. op' = [op EXCEPT !.start = op.start, !.main = op.start]
        BY <1>4, <2>2 DEF SieveSkip, IInv, TypeOK
      <3> QED
        BY <1>1, <1>2, <1>4, <2>1, <2>2, <3>1, RingStep DEF SieveSkip
    <2>3. CASE NextHand(hand) # op.start
      <3>1. op' = [op EXCEPT !.start = op.start, !.main = op.main]
        BY <1>4, <2>3 DEF SieveSkip, IInv, TypeOK
      <3> QED
        BY <1>1, <1>2, <1>4, <2>1, <2>3, <3>1, RingStep DEF SieveSkip
    <2> QED
      BY <2>2, <2>3
  <1> QED
    BY <1>3, <1>4

LEMMA PromoteMoveStep == ASSUME IInv, PromoteMove PROVE IInv'
  <1> DEFINE s == op.slot  m == op.main  p == index_positions[s]
  <1>1. /\ pc = "promote" /\ s \in Slots /\ m \in Slots /\ s # m
        /\ Live(s) /\ ~Live(m) /\ ~op.existing /\ s < NumProbationary
        /\ op.new_offset \in Offsets
    BY SizeAssumption
    DEF PromoteMove, IInv, TypeOK, LocalsKnown, Phase, MainRing, Slots,
        TotalSlots
  <1>2. /\ p # invalid_slot_idx /\ p \in Entries
        /\ index_positions[m] = invalid_slot_idx
        /\ table[p] = [hash_low |-> hashes[s], slot_idx |-> s]
    BY <1>1 DEF IInv, TypeOK, LiveIffIndexed, IndexOK, PositionsPointBack
  <1>3. pc' = "store" /\ op' = op
    BY <1>2 DEF PromoteMove, GoTo, StalePosition
  <1>4. /\ table'[p] = [hash_low |-> hashes[s], slot_idx |-> m]
        /\ \A e \in Entries \ {p} : table'[e] = table[e]
        /\ index_positions'[s] = invalid_slot_idx
        /\ index_positions'[m] = p
        /\ \A j \in Slots \ {s, m} : index_positions'[j] = index_positions[j]
        /\ hashes'[m] = hashes[s]
        /\ \A j \in Slots \ {m} : hashes'[j] = hashes[j]
        /\ offset'[m] = offset[s]
        /\ \A j \in Slots \ {m} : offset'[j] = offset[j]
    BY <1>1, <1>2 DEF PromoteMove, IInv, TypeOK
  <1>5. TypeOK'
    BY <1>1, <1>2, <1>3 DEF PromoteMove, ringVars, IInv, TypeOK, Places
  <1>6. PositionsPointBack'
    <2>1. ASSUME NEW j \in Slots, index_positions'[j] # invalid_slot_idx
          PROVE  table'[index_positions'[j]] =
                   [hash_low |-> hashes'[j], slot_idx |-> j]
      <3>1. CASE j = m
        BY <3>1, <1>4
      <3>2. CASE j # m
        <4>1. /\ j # s /\ index_positions'[j] = index_positions[j]
              /\ index_positions[j] \in Entries
              /\ table[index_positions[j]] =
                   [hash_low |-> hashes[j], slot_idx |-> j]
          BY <2>1, <3>2, <1>4 DEF IInv, TypeOK, IndexOK, PositionsPointBack
        <4>2. index_positions[j] # p
          BY <4>1, <1>2
        <4> QED
          BY <4>1, <4>2, <3>2, <1>4
      <3> QED
        BY <3>1, <3>2
    <2>2. ASSUME NEW e \in Entries, table'[e].slot_idx \in Slots
          PROVE  index_positions'[table'[e].slot_idx] = e
      <3>1. CASE e = p
        BY <3>1, <1>4
      <3>2. CASE e # p
        <4>1. table'[e] = table[e] /\ index_positions[table[e].slot_idx] = e
          BY <2>2, <3>2, <1>4 DEF IInv, IndexOK, PositionsPointBack
        <4>2. table[e].slot_idx # s /\ table[e].slot_idx # m
          BY <4>1, <3>2, <1>2, Sentinels
        <4> QED
          BY <4>1, <4>2, <2>2, <1>4
      <3> QED
        BY <3>1, <3>2
    <2> QED
      BY <2>1, <2>2 DEF PositionsPointBack
  <1>7. \A e \in Entries : table[e].slot_idx # invalid_slot_idx
                             => table'[e].slot_idx # invalid_slot_idx
    BY <1>1, <1>4, Sentinels
  <1>8. ProbeChains'
    <2> SUFFICES ASSUME NEW j \in Slots, index_positions'[j] # invalid_slot_idx
                 PROVE  \E d \in Entries :
                          /\ index_positions'[j] = Probe(hashes'[j], d)
                          /\ \A c \in 0 .. d - 1 :
                               table'[Probe(hashes'[j], c)].slot_idx
                                 # invalid_slot_idx
      BY DEF ProbeChains, Probe, IsEmpty
    <2>1. PICK i \in Slots : /\ index_positions'[j] = index_positions[i]
                             /\ hashes'[j] = hashes[i]
      BY <1>1, <1>4
    <2>2. PICK d \in Entries :
            /\ index_positions[i] = Probe(hashes[i], d)
            /\ \A c \in 0 .. d - 1 : ~IsEmpty(Probe(hashes[i], c))
      BY <2>1 DEF IInv, IndexOK, ProbeChains
    <2>3. hashes[i] \in Nat
      BY SizeAssumption DEF IInv, TypeOK
    <2>4. \A c \in 0 .. d - 1 : Probe(hashes[i], c) \in Entries
      BY <2>3, ProbeInTable
    <2> QED
      BY <2>1, <2>2, <2>4, <1>7 DEF IsEmpty
  <1>9. LiveIffIndexed'
    <2> SUFFICES ASSUME NEW j \in Slots
                 PROVE  index_positions'[j] # invalid_slot_idx
                          <=> offset'[j] # invalid_offset /\ j # s
      BY <1>3 DEF LiveIffIndexed, Live
    <2>1. index_positions[j] # invalid_slot_idx <=> offset[j] # invalid_offset
      BY <1>1 DEF IInv, LiveIffIndexed, Live
    <2> QED
      BY <2>1, <1>1, <1>2, <1>4 DEF Live
  <1>10. LocalsKnown'
    BY <1>1, <1>3 DEF LocalsKnown, Phase
  <1> QED
    BY <1>3, <1>5, <1>6, <1>8, <1>9, <1>10 DEF IInv, IndexOK, NoPanic

LEMMA TouchStep == ASSUME IInv, NEW i \in Slots, Touch(i) PROVE IInv'
  <1>1. TypeOK'
    BY DEF Touch, IInv, TypeOK, indexVars, ringVars
  <1>2. IndexOK' /\ LiveIffIndexed' /\ LocalsKnown'
    BY IndexUntouched DEF Touch, IInv, LiveIffIndexed, LocalsKnown, Phase, Live
  <1> QED
    BY <1>1, <1>2 DEF Touch, IInv, NoPanic

LEMMA StepInv == IInv /\ [Next]_vars => IInv'
  <1> SUFFICES ASSUME IInv, [Next]_vars PROVE IInv'
    OBVIOUS
  <1>1. CASE SetBegins
    BY <1>1, SetBeginsStep DEF SetBegins
  <1>2. CASE AllocatorSteps
    BY <1>2, AllocatorStep
  <1>3. CASE IndexSteps
    <2>1. CASE PlaceEvict
      BY <2>1, EvictSlotStep DEF PlaceEvict, IInv, TypeOK
    <2>2. CASE PromoteEvict
      <3>1. op.main \in Slots
        BY <2>2, SizeAssumption
        DEF PromoteEvict, IInv, LocalsKnown, Phase, MainRing, Slots
      <3> QED
        BY <2>2, <3>1, EvictSlotStep DEF PromoteEvict
    <2> QED
      BY <1>3, <2>1, <2>2, RebuildClearStep, RebuildInsertStep, PublishStep,
         PlacePromoteStep, SieveStep, PromoteMoveStep, StoreStep
      DEF IndexSteps
  <1>4. CASE \E i \in Slots : Touch(i)
    BY <1>4, TouchStep
  <1>5. CASE UNCHANGED vars
    <2>1. IndexOK' /\ LiveIffIndexed' /\ LocalsKnown'
      BY <1>5, IndexUntouched
      DEF vars, slotVars, IInv, LiveIffIndexed, LocalsKnown, Phase, Live
    <2>2. TypeOK' /\ NoPanic'
      BY <1>5
      DEF vars, indexVars, slotVars, ringVars, IInv, TypeOK, NoPanic
    <2> QED
      BY <2>1, <2>2 DEF IInv
  <1> QED
    BY <1>1, <1>2, <1>3, <1>4, <1>5 DEF Next

LEMMA InvariantHolds == Spec => []IInv
  BY InitInv, StepInv, PTL DEF Spec

-----------------------------------------------------------------------------
(* Counting: the tombstones, and the room that is left.                       *)

(* The entries of the table by what they hold, and the slots in the index.    *)
Tombstones == {e \in Entries : IsTombstone(e)}
Listed == {e \in Entries : table[e].slot_idx \in Slots}
Indexed == {i \in Slots : index_positions[i] # invalid_slot_idx}

(* The counter stays below the threshold, except from the eviction that       *)
(* reaches it to the rebuild; by then a slot has left the index.              *)
ThresholdKept ==
    /\ pc # "rebuild" => tombstones < Threshold
    /\ pc = "rebuild" => tombstones <= Threshold /\ Indexed # Slots

(* The counter counts the tombstones there are.                               *)
CounterExact == tombstones = Cardinality({e \in Entries : IsTombstone(e)})

CountInv == CounterExact /\ ThresholdKept

(* The table and the slots are finite sets of known size.                     *)
LEMMA TableFinite ==
    /\ IsFiniteSet(Entries) /\ Cardinality(Entries) = TableSize
    /\ IsFiniteSet(Slots) /\ Cardinality(Slots) = TotalSlots
  BY FS_Interval, SizeAssumption DEF Entries, Slots, TotalSlots

(* So are the tombstones a finite set.                                        *)
LEMMA TombstonesFinite ==
    /\ IsFiniteSet(Tombstones)
    /\ Cardinality(Tombstones) \in Nat
  BY TableFinite, FS_Subset, FS_CardinalityType DEF Tombstones

(* The threshold is at least one, also for the smallest table.                *)
LEMMA ThresholdPositive == Threshold \in Nat \ {0}
  BY SizeAssumption DEF Threshold

(* A step after which the tombstones are the same.                            *)
LEMMA SameTombstones ==
    ASSUME CounterExact, tombstones' = tombstones,
           \A e \in Entries : IsTombstone(e)' <=> IsTombstone(e)
    PROVE  CounterExact'
  <1>1. {e \in Entries : IsTombstone(e)'} = {e \in Entries : IsTombstone(e)}
    OBVIOUS
  <1> QED
    BY <1>1 DEF CounterExact

(* insertIndexMap() takes an empty entry, or a tombstone and counts it off.   *)
LEMMA InsertCounts ==
    ASSUME TypeOK, CounterExact,
           NEW hash \in HashLows, NEW i \in Slots, InsertIndexMap(hash, i)
    PROVE  CounterExact' /\ tombstones' <= tombstones
  <1>1. PICK e \in Entries :
          /\ InsertionPoint(hash, e)
          /\ table' = [table EXCEPT ![e] = [hash_low |-> hash, slot_idx |-> i]]
          /\ tombstones' = IF IsTombstone(e) THEN tombstones - 1 ELSE tombstones
    BY DEF InsertIndexMap
  <1>2. /\ \A f \in Entries \ {e} : table'[f] = table[f]
        /\ table'[e].slot_idx = i
    BY <1>1 DEF TypeOK
  <1>3. ~IsTombstone(e)'
    BY <1>2, Sentinels DEF IsTombstone
  <1>4. CASE IsTombstone(e)
    <2>1. Tombstones' = Tombstones \ {e}
      BY <1>2, <1>3 DEF Tombstones, IsTombstone
    <2>2. e \in Tombstones
      BY <1>4 DEF Tombstones
    <2>3. Cardinality(Tombstones') = Cardinality(Tombstones) - 1
      BY <2>1, <2>2, TombstonesFinite, FS_RemoveElement
    <2> QED
      BY <1>1, <1>4, <2>3 DEF CounterExact, Tombstones, TypeOK
  <1>5. CASE ~IsTombstone(e)
    <2>1. \A f \in Entries : IsTombstone(f)' <=> IsTombstone(f)
      BY <1>2, <1>3, <1>5 DEF IsTombstone
    <2> QED
      BY <1>1, <1>5, <2>1, SameTombstones DEF TypeOK
  <1> QED
    BY <1>4, <1>5

(* deleteIndexMap() of an indexed slot makes one tombstone more, and one more *)
(* may reach the threshold: then the rebuild is next.                         *)
LEMMA EvictCounts ==
    ASSUME IInv, CountInv, NEW i \in Slots,
           NEW place \in {"allocate", "place", "promote"}, pc = place,
           EvictSlot(i, place)
    PROVE  CountInv'
  <1>1. /\ index_positions[i] # invalid_slot_idx
        /\ index_positions[i] \in Entries
    BY DEF IInv, LiveIffIndexed, EvictSlot, TypeOK
  <1>0. PICK p \in Entries : p = index_positions[i]
    BY <1>1
  <1>2. table[p] = [hash_low |-> hashes[i], slot_idx |-> i]
    BY <1>0, <1>1 DEF IInv, IndexOK, PositionsPointBack
  <1>3. /\ table' = [table EXCEPT ![p] = Tombstone]
        /\ index_positions' = [index_positions EXCEPT ![i] = invalid_slot_idx]
        /\ tombstones' = tombstones + 1
    BY <1>0, <1>1 DEF EvictSlot, DeleteIndexMap
  <1>4. pc' = IF tombstones' >= Threshold THEN "rebuild" ELSE place
    BY <1>0, <1>2 DEF EvictSlot, GoTo, StalePosition
  <1>5. CounterExact'
    <2>1. /\ IsTombstone(p)' /\ ~IsTombstone(p)
          /\ \A e \in Entries \ {p} : IsTombstone(e)' <=> IsTombstone(e)
      BY <1>1, <1>2, <1>3, Sentinels DEF IsTombstone, Tombstone, IInv, TypeOK
    <2>2. Tombstones' = Tombstones \cup {p} /\ p \notin Tombstones
      BY <1>1, <2>1 DEF Tombstones
    <2>3. Cardinality(Tombstones') = Cardinality(Tombstones) + 1
      BY <2>2, TombstonesFinite, FS_AddElement
    <2> QED
      BY <1>3, <2>3 DEF CountInv, CounterExact, Tombstones
  <1>6. tombstones < Threshold /\ tombstones \in Int
    BY DEF CountInv, ThresholdKept, IInv, TypeOK
  <1>7. Indexed' # Slots
    BY <1>3 DEF Indexed, IInv, TypeOK
  <1>8. ThresholdKept'
    BY <1>3, <1>4, <1>6, <1>7, ThresholdPositive DEF ThresholdKept, Threshold
  <1> QED
    BY <1>5, <1>8 DEF CountInv

(* A step that leaves the counter and the tombstones alone, away from the     *)
(* rebuild.                                                                   *)
LEMMA CountsKept ==
    ASSUME CountInv, tombstones' = tombstones, pc # "rebuild", pc' # "rebuild",
           \A e \in Entries : IsTombstone(e)' <=> IsTombstone(e)
    PROVE  CountInv'
  BY SameTombstones DEF CountInv, ThresholdKept, Threshold

(* An empty table has no tombstones.                                          *)
LEMMA CountInit == Init => CountInv
  <1> SUFFICES ASSUME Init PROVE CountInv
    OBVIOUS
  <1>1. Tombstones = {} /\ tombstones = 0
    BY Sentinels DEF Init, Tombstones, IsTombstone, Empty
  <1> QED
    BY <1>1, FS_EmptySet, ThresholdPositive
    DEF Init, CountInv, CounterExact, Tombstones, ThresholdKept

(* One case per action; only four kinds of steps change a tombstone.          *)
LEMMA CountStep == IInv /\ CountInv /\ [Next]_vars => CountInv'
  <1> SUFFICES ASSUME IInv, CountInv, [Next]_vars PROVE CountInv'
    OBVIOUS
  <1>1. CASE SetBegins
    BY <1>1, CountsKept
    DEF SetBegins, SetNew, SetExisting, indexVars, IsTombstone
  <1>2. CASE AllocatorSteps
    <2>1. ASSUME NEW i \in Slots, AllocateEvict(i) PROVE CountInv'
      BY <2>1, EvictCounts DEF AllocateEvict
    <2>2. ASSUME NEW i \in Slots, EvictPending(i) PROVE CountInv'
      <3>1. CASE reclaim_offsets[i] = offset[i]
        BY <2>2, <3>1, EvictCounts DEF EvictPending
      <3>2. CASE reclaim_offsets[i] # offset[i]
        BY <2>2, <3>2, CountsKept DEF EvictPending, indexVars, IsTombstone
      <3> QED
        BY <3>1, <3>2
    <2>3. ASSUME NEW i \in Slots, MarkPending(i) PROVE CountInv'
      BY <2>3, CountsKept DEF MarkPending, indexVars, IsTombstone
    <2>4. ASSUME AllocateFails \/ \E o \in Offsets : AllocateReturns(o)
          PROVE  CountInv'
      BY <2>4, CountsKept
      DEF AllocateFails, AllocateReturns, indexVars, IsTombstone
    <2> QED
      BY <1>2, <2>1, <2>2, <2>3, <2>4 DEF AllocatorSteps
  <1>3. CASE RebuildClear
    <2>1. Tombstones' = {} /\ tombstones' = 0
      BY <1>3, Sentinels DEF RebuildClear, Tombstones, IsTombstone, Empty
    <2> QED
      BY <1>3, <2>1, FS_EmptySet, ThresholdPositive
      DEF RebuildClear, CountInv, CounterExact, Tombstones, ThresholdKept,
          Threshold
  <1>4. CASE RebuildInsert
    <2>1. /\ pc = "reinsert" /\ op.next \in Slots /\ hashes[op.next] \in HashLows
          /\ pc' # "rebuild"
      BY <1>4 DEF RebuildInsert, IInv, TypeOK, LocalsKnown, Phase
    <2>2. CASE Live(op.next)
      <3>1. CounterExact' /\ tombstones' <= tombstones
        BY <1>4, <2>1, <2>2, InsertCounts DEF RebuildInsert, IInv, CountInv
      <3>2. tombstones' \in Int
        BY <1>4, <2>2 DEF RebuildInsert, InsertIndexMap, IInv, TypeOK
      <3> QED
        BY <2>1, <3>1, <3>2, ThresholdPositive
        DEF CountInv, ThresholdKept, Threshold, IInv, TypeOK
    <2>3. CASE ~Live(op.next)
      BY <1>4, <2>1, <2>3, CountsKept DEF RebuildInsert, indexVars, IsTombstone
    <2> QED
      BY <2>2, <2>3
  <1>5. CASE Publish \/ Store
    <2>1. /\ op.slot \in Slots /\ op.hash \in HashLows
          /\ pc # "rebuild" /\ pc' = "idle"
      BY <1>5 DEF Publish, Store, IInv, TypeOK
    <2>2. CASE InsertIndexMap(op.hash, op.slot)
      <3>1. CounterExact' /\ tombstones' <= tombstones
        BY <2>1, <2>2, InsertCounts DEF IInv, CountInv
      <3>2. tombstones' \in Int
        BY <2>2 DEF InsertIndexMap, IInv, TypeOK
      <3> QED
        BY <2>1, <3>1, <3>2, ThresholdPositive
        DEF CountInv, ThresholdKept, Threshold, IInv, TypeOK
    <2>3. CASE UNCHANGED indexVars
      BY <2>1, <2>3, CountsKept DEF indexVars, IsTombstone
    <2> QED
      BY <1>5, <2>2, <2>3 DEF Publish, Store
  <1>6. CASE PlaceEvict
    BY <1>6, EvictCounts DEF PlaceEvict, IInv, TypeOK
  <1>7. CASE PromoteEvict
    <2>1. op.main \in Slots
      BY <1>7, SizeAssumption
      DEF PromoteEvict, IInv, LocalsKnown, Phase, MainRing, Slots
    <2> QED
      BY <1>7, <2>1, EvictCounts DEF PromoteEvict
  <1>8. CASE PlacePromote \/ SieveFound \/ SieveSkip
    BY <1>8, CountsKept
    DEF PlacePromote, SieveFound, SieveSkip, indexVars, IsTombstone
  <1>9. CASE PromoteMove
    <2> DEFINE s == op.slot
    <2>1. /\ pc = "promote" /\ s \in Slots /\ Live(s)
          /\ op.main \in Slots
      BY <1>9, SizeAssumption
      DEF PromoteMove, IInv, TypeOK, LocalsKnown, Phase, MainRing, Slots,
          TotalSlots
    <2>0. PICK p \in Entries : p = index_positions[s] /\ p # invalid_slot_idx
      BY <2>1 DEF IInv, TypeOK, LiveIffIndexed
    <2>2. table[p].slot_idx = s
      <3>1. table[index_positions[s]] = [hash_low |-> hashes[s], slot_idx |-> s]
        BY <2>0, <2>1 DEF IInv, IndexOK, PositionsPointBack
      <3> QED
        BY <2>0, <3>1
    <2>3. pc' = "store"
      BY <1>9, <2>0, <2>2 DEF PromoteMove, GoTo, StalePosition
    <2>4. /\ table'[p].slot_idx = op.main
          /\ \A e \in Entries \ {p} : table'[e] = table[e]
      BY <1>9, <2>0, <2>2 DEF PromoteMove, IInv, TypeOK
    <2>5. \A e \in Entries : IsTombstone(e)' <=> IsTombstone(e)
      BY <2>1, <2>2, <2>4, Sentinels DEF IsTombstone
    <2> QED
      BY <1>9, <2>1, <2>3, <2>5, CountsKept DEF PromoteMove
  <1>10. CASE (\E i \in Slots : Touch(i)) \/ UNCHANGED vars
    <2>1. UNCHANGED <<indexVars, pc>>
      BY <1>10 DEF Touch, vars
    <2>2. \A e \in Entries : IsTombstone(e)' <=> IsTombstone(e)
      BY <2>1 DEF indexVars, IsTombstone
    <2>3. CounterExact'
      BY <2>1, <2>2, SameTombstones DEF CountInv, indexVars
    <2> QED
      BY <2>1, <2>3
      DEF CountInv, ThresholdKept, Threshold, indexVars, Indexed
  <1> QED
    BY <1>1, <1>2, <1>3, <1>4, <1>5, <1>6, <1>7, <1>8, <1>9, <1>10
    DEF Next, IndexSteps

(* Each listed entry belongs to an indexed slot of its own.                   *)
LEMMA ListedBounded ==
    ASSUME IInv
    PROVE  /\ IsFiniteSet(Listed) /\ IsFiniteSet(Indexed)
           /\ Cardinality(Listed) <= Cardinality(Indexed)
  <1>1. IsFiniteSet(Listed) /\ IsFiniteSet(Indexed)
    BY TableFinite, FS_Subset DEF Listed, Indexed
  <1> DEFINE owner == [e \in Listed |-> table[e].slot_idx]
  <1>2. owner \in Injection(Listed, Indexed)
    <2>1. ASSUME NEW e \in Listed
          PROVE  /\ table[e].slot_idx \in Slots
                 /\ index_positions[table[e].slot_idx] = e
                 /\ e # invalid_slot_idx
      BY Sentinels DEF Listed, IInv, IndexOK, PositionsPointBack
    <2>2. owner \in [Listed -> Indexed]
      BY <2>1 DEF Indexed
    <2>3. ASSUME NEW e \in Listed, NEW f \in Listed, owner[e] = owner[f]
          PROVE  e = f
      BY <2>1, <2>3
    <2> QED
      BY <2>2, <2>3 DEF Injection, IsInjective
  <1> QED
    BY <1>1, <1>2, FS_Injection

(* Slots, tombstones below the threshold, and the room that init() leaves.    *)
LEMMA RoomForOneMore ==
    TotalSlots + Threshold - 1 < TableSize
  BY SizeAssumption, TableAssumption DEF Threshold, TotalSlots

(* If no entry were empty, tombstones and listed entries would fill the table.*)
LEMMA EmptyEntry == IInv /\ CountInv => EmptyEntryExists
  <1> SUFFICES ASSUME IInv, CountInv, ~EmptyEntryExists PROVE FALSE
    OBVIOUS
  <1>1. Entries = Tombstones \cup Listed /\ Tombstones \cap Listed = {}
    BY Sentinels
    DEF EmptyEntryExists, Tombstones, Listed, IsEmpty, IsTombstone, IInv,
        TypeOK
  <1>2. TableSize = Cardinality(Tombstones) + Cardinality(Listed)
    <2>1. /\ IsFiniteSet(Tombstones) /\ IsFiniteSet(Listed)
          /\ Cardinality(Tombstones) \in Nat /\ Cardinality(Listed) \in Nat
      BY TombstonesFinite, ListedBounded, FS_CardinalityType
    <2>2. Cardinality(Entries) = Cardinality(Tombstones) + Cardinality(Listed)
                                   - Cardinality(Tombstones \cap Listed)
      BY <1>1, <2>1, FS_Union
    <2> QED
      BY <1>1, <2>1, <2>2, TableFinite, FS_EmptySet
  <1>3. Indexed \subseteq Slots /\ Cardinality(Indexed) <= TotalSlots
    <2>1. Indexed \subseteq Slots
      BY DEF Indexed
    <2> QED
      BY <2>1, TableFinite, FS_Subset
  <1>4. pc = "rebuild" => Cardinality(Indexed) < TotalSlots
    BY <1>3, TableFinite, FS_Subset, FS_CardinalityType, ListedBounded,
       SizeAssumption
    DEF CountInv, ThresholdKept, TotalSlots
  <1>5. tombstones = Cardinality(Tombstones)
    BY DEF CountInv, CounterExact, Tombstones
  <1>6. /\ Cardinality(Listed) \in Nat /\ Cardinality(Indexed) \in Nat
        /\ Cardinality(Tombstones) \in Nat
        /\ TotalSlots \in Nat /\ TableSize \in Nat
    BY ListedBounded, TombstonesFinite, FS_CardinalityType, SizeAssumption
    DEF TotalSlots
  <1> QED
    BY <1>2, <1>3, <1>4, <1>5, <1>6, ListedBounded, RoomForOneMore,
       ThresholdPositive
    DEF CountInv, ThresholdKept

-----------------------------------------------------------------------------
(* Every variable stays in its range, the locals of set() included.           *)
THEOREM TypeCorrect == Spec => []TypeOK
  BY InvariantHolds, PTL DEF IInv

(* The panics of updateSlotInIndexMap() and deleteIndexMap() are unreachable  *)
(* (shard.zig:465, 470, 486).                                                 *)
THEOREM PanicsUnreachable == Spec => []NoPanic
  BY InvariantHolds, PTL DEF IInv

(* index_positions and the table stay inverse to each other through every     *)
(* insertion, eviction, promotion and rebuild.                                *)
THEOREM PositionsConsistent == Spec => []PositionsPointBack
  BY InvariantHolds, PTL DEF IInv, IndexOK

(* No live slot is ever missing from the index and no evicted one is in it.   *)
THEOREM LiveSlotsIndexed == Spec => []LiveIffIndexed
  BY InvariantHolds, PTL DEF IInv

(* The linear probe of lookupHit() reaches every indexed slot.                *)
THEOREM ProbesReachSlots == Spec => []ProbeChains
  BY InvariantHolds, PTL DEF IInv, IndexOK

LEMMA CountsHold == Spec => [](IInv /\ CountInv)
  BY InvariantHolds, CountInit, CountStep, PTL DEF Spec

(* tombstones, which deleteIndexMap() and insertIndexMap() keep by adding and *)
(* subtracting one, is the number of tombstones in the table, whatever mix of *)
(* evictions, promotions and rebuilds came before, and it is below the        *)
(* threshold except when a rebuild is the next step.                          *)
THEOREM TombstoneCountExact == Spec => []TombstonesCounted
  <1>1. IInv /\ CountInv => TombstonesCounted
    <2> SUFFICES ASSUME IInv, CountInv PROVE TombstonesCounted
      OBVIOUS
    <2>1. tombstones \in Int
      BY DEF IInv, TypeOK
    <2>2. tombstones < Threshold \/ (tombstones = Threshold /\ pc = "rebuild")
      BY <2>1, ThresholdPositive DEF CountInv, ThresholdKept
    <2> QED
      BY <2>2 DEF CountInv, CounterExact, TombstonesCounted
  <1> QED
    BY <1>1, CountsHold, PTL

(* There is always an empty entry, also in the middle of a set() and of a     *)
(* rebuild: no probe of lookupHit() or insertIndexMap() goes round for ever.  *)
THEOREM ProbesEnd == Spec => []EmptyEntryExists
  BY CountsHold, EmptyEntry, PTL
=============================================================================

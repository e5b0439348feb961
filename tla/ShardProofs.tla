---------------------------- MODULE ShardProofs -----------------------------
(* Proofs about module Shard, for every number of slots, every slab size and  *)
(* every set of keys and values.                                              *)
(*                                                                            *)
(* What holds the allocator together is a set B of block starts that nobody   *)
(* writes down: the chain of headers from offset 0 to the end of the slab.    *)
(* The inductive invariant says that there is such a set, that write_ptr is   *)
(* in it (Tiles), that every live slot's block is in it, names the slot and   *)
(* holds its key (Owns), and what a set() under way knows of the blocks it    *)
(* merges (AllocOK) and of the block it has written (NewBlock).  The          *)
(* invariant of ShardIndexProofs comes with it, because each step of the      *)
(* shard is one of ShardIndex or leaves the index alone.                      *)
EXTENDS Shard, ShardIndexProofs, SequenceTheorems, WellFoundedInduction

(* The length allocate() needs for a pair.                                    *)
Room(k, v) == HeaderSize + Len(k) + Len(v)

(* The blocks that begin at the members of B cover the slab without overlap.  *)
Tiles(B, mem) ==
    /\ 0 \in B
    /\ \A o \in B : /\ mem[o + 1] \in HeaderSize .. SlabSize - o
                    /\ o + mem[o + 1] \in B \cup {SlabSize}
                    /\ \A p \in B : p > o => p >= o + mem[o + 1]

(* The block at o holds key k.                                                *)
Holds(mem, o, k) ==
    /\ mem[o + 2] = Len(k)
    /\ \A n \in 1 .. Len(k) : mem[o + 2 + n] = k[n]

(* The block of live slot i is one of B, names the slot and holds a key and   *)
(* as many words as a value has.  Between the two halves of a promotion the   *)
(* block already names the slot it moves to.                                  *)
Owns(i, B) ==
    /\ offset[i] \in B
    /\ slab[offset[i]] = i \/ (pc = "store" /\ i = op.slot)
    /\ \E k \in Keys, v \in Values :
          /\ Holds(slab, offset[i], k)
          /\ hashes[i] = HashLow[k]
          /\ len[i] = Len(v)
          /\ Room(k, v) <= slab[offset[i] + 1]

Blocks(B) ==
    /\ B \subseteq Addresses
    /\ Tiles(B, slab)
    /\ write_ptr \in B
    /\ \A i \in Slots : Live(i) => Owns(i, B)

(* Two slots hold one key only between the two halves of a promotion.         *)
Alias(i, j) == /\ pc = "store" /\ op.slot \in {i, j}
               /\ offset[i] = offset[j] /\ len[i] = len[j]

KeysUnique ==
    \A i, j \in Slots : Live(i) /\ Live(j) =>
        \A k \in Keys : Holds(slab, offset[i], k) /\ Holds(slab, offset[j], k)
                          => i = j \/ Alias(i, j)

(* What a set() knows of its key: nobody holds it but the slot lookup found.  *)
CallOK ==
    IF pc = "idle"
      THEN key = NoCall /\ value = NoCall
      ELSE /\ key \in Keys /\ value \in Values
           /\ op.hash = HashLow[key]
           /\ Phase = "publish" => op.existing
           /\ \A i \in Slots : Live(i) /\ Holds(slab, offset[i], key)
                                 => op.existing /\ i = op.slot
           /\ op.existing /\ Live(op.slot)
                => Holds(slab, offset[op.slot], key)

(* The block that allocate() has written, and that no slot names yet.         *)
NewBlock(B) ==
    Phase \in {"publish", "place", "sieve", "promote", "store"} =>
        /\ op.new_offset \in B
        /\ slab[op.new_offset] = op.slot
        /\ Holds(slab, op.new_offset, key)
        /\ Room(key, value) <= slab[op.new_offset + 1]
        /\ \A n \in 1 .. Len(value) :
              slab[op.new_offset + 2 + Len(key) + n] = value[n]
        /\ \A i \in Slots : Live(i) => offset[i] # op.new_offset

(* Between the two halves of a promotion the main slot has all that the       *)
(* probationary one had.                                                      *)
Promoted ==
    pc = "store" => /\ op.main \in Slots /\ op.main # op.slot
                    /\ Live(op.main)
                    /\ offset[op.main] = offset[op.slot]
                    /\ len[op.main] = len[op.slot]

(* What allocate() knows at each point: when it will wrap, nothing live lies  *)
(* behind write_ptr (the environment's part); from then on the block fits     *)
(* before the end; and nothing live is left in the blocks it has merged.      *)
AllocOK(B) ==
    /\ alloc \in [at : {"start", "wrap", "first", "scan"},
                  total : 0 .. SlabSize,
                  scan : 0 .. SlabSize \cup 0 .. TotalSlots]
    /\ Phase # "allocate" => alloc = NoAlloc
    /\ Phase = "allocate" /\ alloc.at \in {"start", "wrap"}
         /\ Room(key, value) > SlabSize - write_ptr
         /\ Room(key, value) <= SlabSize - HeaderSize
            => \A i \in Slots : Live(i) => offset[i] < write_ptr
    /\ alloc.at # "start" => Room(key, value) <= SlabSize - HeaderSize
    /\ alloc.at \in {"start", "wrap"} => alloc.total = 0
    /\ alloc.at = "start" => alloc.scan = 0
    /\ alloc.at = "wrap" => /\ Room(key, value) > SlabSize - write_ptr
                            /\ alloc.scan \in 0 .. TotalSlots
    /\ alloc.at \in {"first", "scan"} => Room(key, value) <= SlabSize - write_ptr
    /\ alloc.at = "scan" =>
          /\ alloc.total >= HeaderSize
          /\ alloc.scan = write_ptr + alloc.total
          /\ alloc.scan \in B \cup {SlabSize}
          /\ \A i \in Slots : Live(i) =>
                offset[i] < write_ptr \/ offset[i] >= alloc.scan

(* The tail reclaim never finds anything to do: reclaim_ptr is as large as a  *)
(* number can be, and no slot is ever marked.                                 *)
ReclaimIdle ==
    /\ reclaim_ptr = invalid_offset
    /\ \A i \in Slots : reclaim_offsets[i] = invalid_offset

SlabTypes ==
    /\ slab \in [Addresses -> Nat]
    /\ len \in [Slots -> 0 .. SlabSize]

SlabInv(B) ==
    /\ SlabTypes
    /\ ReclaimIdle
    /\ Blocks(B)
    /\ KeysUnique
    /\ CallOK
    /\ NewBlock(B)
    /\ Promoted
    /\ AllocOK(B)

-----------------------------------------------------------------------------
(* Numbers, sequences and memory.                                             *)

(* The sizes are natural numbers and an address is no sentinel.               *)
LEMMA SlabNumbers ==
    /\ SlabSize \in Nat /\ SlabSize > 3 /\ SlabSize < invalid_offset
    /\ HeaderSize = 3 /\ TotalSlots \in Nat
    /\ invalid_offset \in Nat
    /\ Addresses \subseteq Offsets /\ Addresses \subseteq Nat
    /\ Slots \subseteq Nat /\ invalid_slot_idx \in Nat
  BY SlabAssumption, SizeAssumption
  DEF HeaderSize, Addresses, invalid_offset, invalid_slot_idx, TotalSlots, Slots

(* Keys and values are sequences of numbers, and so is a key with its value.  *)
LEMMA Texts ==
    /\ \A s \in Keys \cup Values : /\ Len(s) \in Nat
                                   /\ \A n \in 1 .. Len(s) : s[n] \in Nat
    /\ \A k \in Keys, v \in Values : Room(k, v) \in Nat /\ Room(k, v) >= 3
    /\ \A k \in Keys : HashLow[k] \in HashLows
  <1>1. \A s \in Keys \cup Values : s \in Seq(Nat)
    BY SlabAssumption
  <1>2. \A s \in Seq(Nat) : /\ Len(s) \in Nat
                            /\ \A n \in 1 .. Len(s) : s[n] \in Nat
    OBVIOUS
  <1>3. \A s \in Keys \cup Values : /\ Len(s) \in Nat
                                   /\ \A n \in 1 .. Len(s) : s[n] \in Nat
    BY <1>1, <1>2
  <1> QED
    BY <1>3, SlabAssumption DEF Room, HeaderSize

(* The words that a key and a value make together.                            *)
LEMMA PairWords ==
    ASSUME NEW k, NEW v, k \in Keys, v \in Values
    PROVE  /\ Len(k \o v) = Len(k) + Len(v)
           /\ \A n \in 1 .. Len(k) : (k \o v)[n] = k[n]
           /\ \A n \in 1 .. Len(v) : (k \o v)[Len(k) + n] = v[n]
           /\ \A n \in 1 .. Len(k \o v) : (k \o v)[n] \in Nat
  <1>1. k \in Seq(Nat) /\ v \in Seq(Nat)
    BY SlabAssumption
  <1>2. /\ k \o v \in Seq(Nat)
        /\ Len(k \o v) = Len(k) + Len(v)
        /\ \A n \in 1 .. Len(k) + Len(v) :
              (k \o v)[n] = IF n <= Len(k) THEN k[n] ELSE v[n - Len(k)]
    BY <1>1, ConcatProperties
  <1>3. Len(k) \in Nat /\ Len(v) \in Nat
    BY <1>1
  <1>4. ASSUME NEW n \in 1 .. Len(v) PROVE (k \o v)[Len(k) + n] = v[n]
    <2>1. Len(k) + n \in 1 .. Len(k) + Len(v) /\ ~(Len(k) + n <= Len(k))
      BY <1>3
    <2>2. (Len(k) + n) - Len(k) = n
      BY <1>3
    <2>3. (k \o v)[Len(k) + n] = v[(Len(k) + n) - Len(k)]
      BY <2>1, <1>2
    <2> QED
      BY <2>2, <2>3
  <1>5. ASSUME NEW n \in 1 .. Len(k) PROVE (k \o v)[n] = k[n]
    <2>1. n \in 1 .. Len(k) + Len(v) /\ n <= Len(k)
      BY <1>3
    <2> QED
      BY <2>1, <1>2
  <1>6. \A n \in 1 .. Len(k \o v) : (k \o v)[n] \in Nat
    BY <1>2
  <1> QED
    BY <1>2, <1>4, <1>5, <1>6

(* A block holds at most one key.                                             *)
LEMMA OneKey ==
    ASSUME NEW mem, NEW o, NEW k, NEW l, k \in Keys, l \in Keys,
           Holds(mem, o, k), Holds(mem, o, l)
    PROVE  k = l
  <1>1. k \in Seq(Nat) /\ l \in Seq(Nat)
    BY SlabAssumption
  <1>2. Len(k) = Len(l) /\ \A n \in 1 .. Len(k) : k[n] = l[n]
    BY DEF Holds
  <1> QED
    BY <1>1, <1>2, SeqEqual

(* writeHeader().                                                             *)
LEMMA HeaderWritten ==
    ASSUME NEW mem, NEW o, NEW slot, NEW block_len, NEW key_len,
           mem \in [Addresses -> Nat], o \in Nat, o + 3 <= SlabSize,
           slot \in Nat, block_len \in Nat, key_len \in Nat
    PROVE  LET mem2 == WithHeader(mem, o, slot, block_len, key_len) IN
           /\ mem2 \in [Addresses -> Nat]
           /\ mem2[o] = slot /\ mem2[o + 1] = block_len /\ mem2[o + 2] = key_len
           /\ \A a \in Addresses : a < o \/ a >= o + 3 => mem2[a] = mem[a]
  <1> DEFINE mem2 == WithHeader(mem, o, slot, block_len, key_len)
  <1>1. o \in Addresses /\ o + 1 \in Addresses /\ o + 2 \in Addresses
    BY SlabNumbers DEF Addresses
  <1>2. o # o + 1 /\ o # o + 2 /\ o + 1 # o + 2
    OBVIOUS
  <1> DEFINE m1 == [mem EXCEPT ![o] = slot]
             m2 == [m1 EXCEPT ![o + 1] = block_len]
             m3 == [m2 EXCEPT ![o + 2] = key_len]
  <1>3. mem2 = m3
    BY DEF WithHeader
  <1>4. /\ m1 \in [Addresses -> Nat]
        /\ m1[o] = slot /\ \A a \in Addresses : a # o => m1[a] = mem[a]
    BY <1>1
  <1> HIDE DEF m1
  <1>5. /\ m2 \in [Addresses -> Nat] /\ m2[o + 1] = block_len
        /\ \A a \in Addresses : a # o + 1 => m2[a] = m1[a]
    BY <1>1, <1>4
  <1> HIDE DEF m2
  <1>6. /\ m3 \in [Addresses -> Nat] /\ m3[o + 2] = key_len
        /\ \A a \in Addresses : a # o + 2 => m3[a] = m2[a]
    BY <1>1, <1>5
  <1> HIDE DEF m3
  <1>7. \A a \in Addresses : a < o \/ a >= o + 3 =>
                              a # o /\ a # o + 1 /\ a # o + 2
    BY DEF Addresses
  <1> QED
    BY <1>1, <1>2, <1>3, <1>4, <1>5, <1>6, <1>7

(* A memcpy.                                                                  *)
LEMMA WordsWritten ==
    ASSUME NEW mem, NEW w, NEW o \in Nat,
           mem \in [Addresses -> Nat], Len(w) \in Nat,
           \A m \in 1 .. Len(w) : w[m] \in Nat, o + Len(w) <= SlabSize
    PROVE  LET mem2 == WithWords(mem, o, w) IN
           /\ mem2 \in [Addresses -> Nat]
           /\ \A m \in 1 .. Len(w) : mem2[o + m - 1] = w[m]
           /\ \A a \in Addresses : a < o \/ a >= o + Len(w) => mem2[a] = mem[a]
  <1> DEFINE mem2 == WithWords(mem, o, w)
  <1>0. PICK n \in Nat : n = Len(w)
    OBVIOUS
  <1>1. \A a \in Addresses :
          mem2[a] = IF a - o + 1 \in 1 .. n THEN w[a - o + 1] ELSE mem[a]
    BY <1>0 DEF WithWords
  <1>2. mem2 \in [Addresses -> Nat]
    BY <1>0 DEF WithWords
  <1>3. ASSUME NEW m \in 1 .. n PROVE mem2[o + m - 1] = w[m]
    <2>1. o + m - 1 \in Addresses /\ (o + m - 1) - o + 1 = m
      BY <1>0, SlabNumbers DEF Addresses
    <2> QED
      BY <1>1, <2>1
  <1>4. ASSUME NEW a \in Addresses, a < o \/ a >= o + n
        PROVE  mem2[a] = mem[a]
    <2>1. a - o + 1 \notin 1 .. n
      BY <1>4, SlabNumbers DEF Addresses
    <2> QED
      BY <1>1, <2>1
  <1> QED
    BY <1>0, <1>2, <1>3, <1>4

-----------------------------------------------------------------------------
(* The tiling.                                                                *)

(* A block has room for its header and ends inside the slab, no other block   *)
(* begins inside it.                                                          *)
LEMMA BlockBounds ==
    ASSUME NEW B, NEW mem, NEW o,
           B \in SUBSET Addresses, Tiles(B, mem), o \in B
    PROVE  /\ o \in Nat /\ mem[o + 1] \in Nat /\ mem[o + 1] >= 3
           /\ o + mem[o + 1] <= SlabSize
           /\ o + mem[o + 1] \in B \cup {SlabSize}
           /\ \A p \in B : p > o => p >= o + mem[o + 1]
           /\ o + 1 \in Addresses /\ o + 2 \in Addresses
  <1>1. o \in Nat /\ mem[o + 1] \in HeaderSize .. SlabSize - o
    BY SlabNumbers DEF Tiles
  <1>2. mem[o + 1] \in Nat /\ mem[o + 1] >= 3 /\ o + mem[o + 1] <= SlabSize
    BY <1>1, SlabNumbers
  <1>3. o + 1 \in Addresses /\ o + 2 \in Addresses
    BY <1>1, <1>2, SlabNumbers DEF Addresses
  <1> QED
    BY <1>1, <1>2, <1>3 DEF Tiles

(* The block starts after the blocks from a to e have become one block of     *)
(* a's, with a free one at c if c is not a.                                   *)
Retiled(B, a, c, e) == {o \in B : o < a \/ o >= e} \cup {a, c}

(* Blocks that end at or before a, or begin at or after e, do not notice.     *)
LEMMA Outside ==
    ASSUME NEW B, NEW mem, NEW a, NEW e, NEW o, NEW x,
           B \in SUBSET Addresses, Tiles(B, mem), a \in B, e \in Nat, a < e,
           o \in B, o < a \/ o >= e, x \in Nat, o <= x, x < o + mem[o + 1]
    PROVE  x \in Addresses /\ (x < a \/ x >= e)
  <1>1. /\ o \in Nat /\ a \in Nat /\ mem[o + 1] \in Nat
        /\ o + mem[o + 1] <= SlabSize
        /\ a > o => a >= o + mem[o + 1]
    BY BlockBounds, SlabNumbers
  <1>2. x \in Addresses
    BY <1>1, SlabNumbers DEF Addresses
  <1> QED
    BY <1>1, <1>2

(* What allocate() does to the headers keeps the tiling.                      *)
LEMMA RetiledTiles ==
    ASSUME NEW B, NEW mem, NEW a, NEW e, NEW c, NEW mem2,
           B \in SUBSET Addresses, Tiles(B, mem),
           a \in B, e \in B \cup {SlabSize}, a < e,
           c \in Nat, a <= c, c + 3 <= e,
           \A x \in Addresses : x < a \/ x >= e => mem2[x] = mem[x],
           \/ c = a /\ mem2[a + 1] = e - a
           \/ c >= a + 3 /\ mem2[a + 1] = c - a /\ mem2[c + 1] = e - c
    PROVE  /\ Retiled(B, a, c, e) \in SUBSET Addresses
           /\ Tiles(Retiled(B, a, c, e), mem2)
  <1>1. a \in Nat /\ e \in Nat /\ e <= SlabSize /\ a + 3 <= e
    <2>1. a + mem[a + 1] <= SlabSize /\ a \in Nat /\ mem[a + 1] \in Nat
          /\ mem[a + 1] >= 3
      BY BlockBounds
    <2>2. CASE e = SlabSize
      BY <2>1, <2>2, SlabNumbers
    <2>3. CASE e \in B
      <3>1. e \in Nat /\ e <= SlabSize
        BY <2>3, SlabNumbers DEF Addresses
      <3>2. e >= a + mem[a + 1]
        BY <2>3, BlockBounds
      <3> QED
        BY <2>1, <3>1, <3>2
    <2> QED
      BY <2>2, <2>3
  <1>2. Retiled(B, a, c, e) \in SUBSET Addresses
    <2>1. a \in Addresses /\ c \in Addresses
      BY <1>1, SlabNumbers DEF Addresses
    <2> QED
      BY <2>1 DEF Retiled
  <1> DEFINE Old == {o \in B : o < a \/ o >= e}
             New == Retiled(B, a, c, e)
  <1>3. New = Old \cup {a, c} /\ a \in New /\ c \in New
    BY DEF Retiled
  <1>3a. e \in New \cup {SlabSize}
    BY <1>1 DEF Retiled
  <1>4. \A p \in New : p > a => p = c \/ (p \in B /\ p >= e)
    BY <1>1 DEF Retiled
  <1>5. \A p \in New : p \in Nat /\ (p > c => p >= e)
    BY <1>1, <1>2, SlabNumbers DEF Retiled
  <1>6. ASSUME NEW o \in Old
        PROVE  /\ mem2[o + 1] \in HeaderSize .. SlabSize - o
               /\ o + mem2[o + 1] \in New \cup {SlabSize}
               /\ \A p \in New : p > o => p >= o + mem2[o + 1]
    <2>1. o \in B /\ (o < a \/ o >= e)
      OBVIOUS
    <2>2. /\ o \in Nat /\ mem[o + 1] \in Nat /\ mem[o + 1] >= 3
          /\ o + mem[o + 1] <= SlabSize
          /\ o + mem[o + 1] \in B \cup {SlabSize}
          /\ \A p \in B : p > o => p >= o + mem[o + 1]
      BY <2>1, BlockBounds
    <2>3. o + 1 \in Addresses /\ (o + 1 < a \/ o + 1 >= e)
      <3>1. o + 1 \in Nat /\ o <= o + 1 /\ o + 1 < o + mem[o + 1]
        BY <2>2
      <3> QED
        BY <3>1, <2>1, <1>1, Outside
    <2>4. mem2[o + 1] = mem[o + 1]
      BY <2>3
    <2>5. o < a => o + mem[o + 1] <= a
      BY <2>2, <1>1
    <2>6. o + mem[o + 1] \in New \cup {SlabSize}
      <3>1. CASE o < a
        <4>1. o + mem[o + 1] \in B
          BY <3>1, <2>2, <2>5, <1>1
        <4> QED
          BY <3>1, <4>1, <2>5, <2>2, <1>1 DEF Retiled
      <3>2. CASE o >= e
        BY <3>2, <2>2, <1>1 DEF Retiled
      <3> QED
        BY <2>1, <3>1, <3>2
    <2>7. \A p \in New : p > o => p >= o + mem[o + 1]
      <3> SUFFICES ASSUME NEW p \in New, p > o PROVE p >= o + mem[o + 1]
        OBVIOUS
      <3>1. CASE p \in B
        BY <3>1, <2>2
      <3>2. CASE p \in {a, c}
        <4>1. o < a
          BY <3>2, <2>1, <2>2, <1>1
        <4> QED
          BY <3>2, <4>1, <2>5, <2>2, <1>1
      <3> QED
        BY <3>1, <3>2 DEF Retiled
    <2>8. mem[o + 1] \in HeaderSize .. SlabSize - o
      BY <2>2, SlabNumbers
    <2> QED
      BY <2>4, <2>6, <2>7, <2>8
  <1>7. CASE c = a /\ mem2[a + 1] = e - a
    <2>1. /\ mem2[a + 1] \in HeaderSize .. SlabSize - a
          /\ a + mem2[a + 1] = e
      BY <1>7, <1>1, SlabNumbers
    <2>2. \A p \in New : p > a => p >= e
      BY <1>4, <1>5, <1>7
    <2>3. \A o \in New : o \in Old \/ o = a
      BY <1>3, <1>7
    <2>4. 0 \in New
      BY <1>1, SlabNumbers DEF Retiled, Tiles
    <2> QED
      BY <1>2, <1>3a, <1>6, <2>1, <2>2, <2>3, <2>4 DEF Tiles
  <1>8. CASE c >= a + 3 /\ mem2[a + 1] = c - a /\ mem2[c + 1] = e - c
    <2>1. /\ mem2[a + 1] \in HeaderSize .. SlabSize - a
          /\ a + mem2[a + 1] = c
          /\ mem2[c + 1] \in HeaderSize .. SlabSize - c
          /\ c + mem2[c + 1] = e
      BY <1>8, <1>1, SlabNumbers
    <2>2. \A p \in New : p > a => p >= c
      BY <1>1, <1>4, <1>5
    <2>3. \A o \in New : o \in Old \/ o = a \/ o = c
      BY <1>3
    <2>4. 0 \in New
      BY <1>1, SlabNumbers DEF Retiled, Tiles
    <2> QED
      BY <1>2, <1>3, <1>3a, <1>5, <1>6, <2>1, <2>2, <2>3, <2>4 DEF Tiles
  <1> QED
    BY <1>7, <1>8

-----------------------------------------------------------------------------
(* Steps that leave the slab alone.                                           *)

(* The block of a live slot.                                                  *)
LEMMA LiveBlock ==
    ASSUME NEW B, NEW i, SlabInv(B), i \in Slots, Live(i)
    PROVE  /\ offset[i] \in B /\ B \in SUBSET Addresses /\ Tiles(B, slab)
           /\ slab[offset[i]] = i \/ (pc = "store" /\ i = op.slot)
           /\ \E k \in Keys, v \in Values :
                 /\ Holds(slab, offset[i], k)
                 /\ hashes[i] = HashLow[k]
                 /\ len[i] = Len(v)
                 /\ Room(k, v) <= slab[offset[i] + 1]
  BY DEF SlabInv, Blocks, Owns

(* keyEqualsOffset() is true of the one key the block holds.                  *)
LEMMA KeyEqualsHolds ==
    ASSUME NEW B, NEW i, NEW k, SlabInv(B), i \in Slots, k \in Keys
    PROVE  KeyEqualsOffset(i, k) <=> Live(i) /\ Holds(slab, offset[i], k)
  <1>1. ASSUME KeyEqualsOffset(i, k)
        PROVE  Live(i) /\ Holds(slab, offset[i], k)
    <2>1. Live(i)
      BY <1>1 DEF KeyEqualsOffset
    <2>2. offset[i] \in Nat /\ Len(k) \in Nat
      BY <2>1, LiveBlock, SlabNumbers, Texts
    <2>3. slab[offset[i] + 2] = Len(k)
      BY <1>1 DEF KeyEqualsOffset, Header
    <2>4. ASSUME NEW n \in 1 .. Len(k)
          PROVE  slab[offset[i] + 2 + n] = k[n]
      <3>1. slab[offset[i] + HeaderSize + n - 1] = k[n]
        BY <1>1 DEF KeyEqualsOffset
      <3>2. offset[i] + HeaderSize + n - 1 = offset[i] + 2 + n
        BY <2>2, SlabNumbers
      <3> QED
        BY <3>1, <3>2
    <2> QED
      BY <2>1, <2>3, <2>4 DEF Holds
  <1>2. ASSUME Live(i), Holds(slab, offset[i], k)
        PROVE  KeyEqualsOffset(i, k)
    <2>1. PICK l \in Keys, v \in Values :
            /\ Holds(slab, offset[i], l)
            /\ Room(l, v) <= slab[offset[i] + 1]
      BY <1>2, LiveBlock
    <2>2. l = k
      BY <1>2, <2>1, OneKey
    <2>3. /\ offset[i] \in Nat /\ slab[offset[i] + 1] \in Nat
          /\ offset[i] + slab[offset[i] + 1] <= SlabSize
      BY <1>2, LiveBlock, BlockBounds
    <2>4. Len(k) \in Nat /\ Len(v) \in Nat
      BY Texts
    <2>5. SlabSize - offset[i] >= HeaderSize + Len(k)
      BY <2>1, <2>2, <2>3, <2>4, SlabNumbers DEF Room
    <2>6. SlabSize - offset[i] >= HeaderSize
      BY <2>3, <2>4, <2>5, SlabNumbers
    <2>7. ASSUME NEW n \in 1 .. Len(k)
          PROVE  slab[offset[i] + HeaderSize + n - 1] = k[n]
      <3>1. slab[offset[i] + 2 + n] = k[n]
        BY <1>2 DEF Holds
      <3>2. offset[i] + HeaderSize + n - 1 = offset[i] + 2 + n
        BY <2>3, SlabNumbers
      <3> QED
        BY <3>1, <3>2
    <2>8. Header(offset[i]).key_len = Len(k)
      BY <1>2 DEF Holds, Header
    <2> QED
      BY <1>2, <2>5, <2>6, <2>7, <2>8 DEF KeyEqualsOffset
  <1> QED
    BY <1>1, <1>2

(* Slots that stay live stay as they are, and the slab does.                  *)
SlotsKept ==
    /\ slab' = slab /\ write_ptr' = write_ptr
    /\ \A i \in Slots : Live(i)' => /\ Live(i)
                                    /\ offset'[i] = offset[i]
                                    /\ hashes'[i] = hashes[i]
                                    /\ len'[i] = len[i]

LEMMA KeptBlocks ==
    ASSUME NEW B, SlabInv(B), SlotsKept, pc # "store"
    PROVE  Blocks(B)' /\ KeysUnique'
  <1>1. ASSUME NEW i \in Slots, Live(i)' PROVE Owns(i, B)'
    <2>1. Live(i) /\ offset'[i] = offset[i] /\ hashes'[i] = hashes[i]
          /\ len'[i] = len[i] /\ slab' = slab
      BY <1>1 DEF SlotsKept
    <2>2. Owns(i, B)
      BY <2>1 DEF SlabInv, Blocks
    <2> QED
      BY <2>1, <2>2 DEF Owns
  <1>2. Blocks(B)'
    BY <1>1 DEF Blocks, SlotsKept, SlabInv
  <1>3. ASSUME NEW i \in Slots, NEW j \in Slots, Live(i)', Live(j)',
               NEW k \in Keys,
               Holds(slab', offset'[i], k), Holds(slab', offset'[j], k)
        PROVE  i = j
    <2>1. /\ Live(i) /\ Live(j)
          /\ Holds(slab, offset[i], k) /\ Holds(slab, offset[j], k)
      BY <1>3 DEF SlotsKept
    <2> QED
      BY <2>1 DEF SlabInv, KeysUnique, Alias
  <1>4. KeysUnique'
    BY <1>3 DEF KeysUnique
  <1> QED
    BY <1>2, <1>4

(* Such a step inside a set().                                                *)
Continues ==
    /\ SlotsKept
    /\ pc \notin {"idle", "store"} /\ pc' \notin {"idle", "store"}
    /\ callVars' = callVars
    /\ op'.hash = op.hash /\ op'.slot = op.slot
    /\ op'.existing = op.existing /\ op'.new_offset = op.new_offset
    /\ Phase' = "publish" => Phase = "publish"
    /\ Phase' \in {"publish", "place", "sieve", "promote", "store"}
         => Phase \in {"publish", "place", "sieve", "promote", "store"}

LEMMA ContinuesKeeps ==
    ASSUME IInv, NEW B, SlabInv(B), Continues
    PROVE  Blocks(B)' /\ KeysUnique' /\ CallOK' /\ NewBlock(B)'
  <1>1. Blocks(B)' /\ KeysUnique'
    BY KeptBlocks DEF Continues
  <1>2. /\ slab' = slab /\ key' = key /\ value' = value
        /\ \A i \in Slots : Live(i)' => Live(i) /\ offset'[i] = offset[i]
    BY DEF Continues, SlotsKept, callVars
  <1>3. CallOK'
    <2>1. /\ key \in Keys /\ value \in Values /\ op.hash = HashLow[key]
          /\ Phase = "publish" => op.existing
          /\ \A i \in Slots : Live(i) /\ Holds(slab, offset[i], key)
                                => op.existing /\ i = op.slot
          /\ op.existing /\ Live(op.slot)
               => Holds(slab, offset[op.slot], key)
      BY DEF SlabInv, CallOK, Continues
    <2>2. /\ op'.hash = op.hash /\ op'.slot = op.slot /\ op'.existing = op.existing
          /\ pc' # "idle"
          /\ Phase' = "publish" => Phase = "publish"
      BY DEF Continues
    <2>3. op.slot \in Slots
      BY DEF IInv, TypeOK
    <2>4. op'.existing /\ offset'[op'.slot] # invalid_offset
            => Holds(slab', offset'[op'.slot], key')
      BY <1>2, <2>1, <2>2, <2>3 DEF Live
    <2>5. \A i \in Slots : offset'[i] # invalid_offset /\ Holds(slab', offset'[i], key')
                             => op'.existing /\ i = op'.slot
      BY <1>2, <2>1, <2>2 DEF Live
    <2> QED
      BY <1>2, <2>1, <2>2, <2>4, <2>5 DEF CallOK, Live
  <1>4. NewBlock(B)'
    <2> SUFFICES ASSUME Phase' \in {"publish", "place", "sieve", "promote", "store"}
                 PROVE  NewBlock(B)'
      BY DEF NewBlock
    <2>1. Phase \in {"publish", "place", "sieve", "promote", "store"}
      BY DEF Continues
    <2>2. /\ op.new_offset \in B
          /\ slab[op.new_offset] = op.slot
          /\ Holds(slab, op.new_offset, key)
          /\ Room(key, value) <= slab[op.new_offset + 1]
          /\ \A n \in 1 .. Len(value) :
                slab[op.new_offset + 2 + Len(key) + n] = value[n]
          /\ \A i \in Slots : Live(i) => offset[i] # op.new_offset
      BY <2>1 DEF SlabInv, NewBlock
    <2>3. op'.new_offset = op.new_offset /\ op'.slot = op.slot
      BY DEF Continues
    <2> QED
      BY <1>2, <2>2, <2>3 DEF NewBlock
  <1> QED
    BY <1>1, <1>3, <1>4

(* If allocate() is where it was, it knows what it knew.                      *)
LEMMA AllocKept ==
    ASSUME NEW B, SlabInv(B), SlotsKept, alloc' = alloc, callVars' = callVars,
           Phase' = "allocate" <=> Phase = "allocate"
    PROVE  AllocOK(B)'
  <1>1. AllocOK(B)
    BY DEF SlabInv
  <1>2. /\ write_ptr' = write_ptr /\ key' = key /\ value' = value
        /\ \A i \in Slots : Live(i)' => Live(i) /\ offset'[i] = offset[i]
    BY DEF SlotsKept, callVars
  <1> QED
    BY <1>1, <1>2 DEF AllocOK

LEMMA ContinuesStep ==
    ASSUME IInv, NEW B, SlabInv(B), Continues, alloc' = alloc,
           Phase' = "allocate" <=> Phase = "allocate",
           SlabTypes', ReclaimIdle'
    PROVE  SlabInv(B)'
  <1>1. AllocOK(B)'
    BY AllocKept DEF Continues
  <1>2. Promoted'
    BY DEF Promoted, Continues
  <1> QED
    BY <1>1, <1>2, ContinuesKeeps DEF SlabInv

(* The steps of a set() between two that touch slots or slab.                 *)
LEMMA SetIndexKeeps ==
    ASSUME IInv, NEW B, SlabInv(B), SetIndexStep
    PROVE  SlabInv(B)' /\ Continues
  <1>1. /\ len' = len /\ slab' = slab /\ write_ptr' = write_ptr
        /\ reclaim_ptr' = reclaim_ptr /\ callVars' = callVars /\ alloc' = alloc
        /\ offset' = offset /\ hashes' = hashes
        /\ reclaim_offsets' = reclaim_offsets
    BY DEF SetIndexStep, slabVars, RebuildClear, RebuildInsert, PlacePromote,
           SieveFound, SieveSkip, slotVars
  <1>2. op \in [hash : HashLows, slot : Slots, existing : BOOLEAN,
               new_offset : Offsets \cup {0}, start : MainRing \cup {0},
               main : MainRing \cup {0}, next : Slots, ret : Places]
    BY DEF IInv, TypeOK
  <1>3. op'.hash = op.hash /\ op'.slot = op.slot
        /\ op'.existing = op.existing /\ op'.new_offset = op.new_offset
    BY <1>2 DEF SetIndexStep, RebuildClear, RebuildInsert, PlacePromote,
           SieveFound, SieveSkip
  <1>4. /\ pc \notin {"idle", "store"} /\ pc' \notin {"idle", "store"}
        /\ \/ Phase' = Phase
           \/ /\ Phase \in {"place", "sieve"} /\ Phase' \in {"sieve", "promote"}
    <2>1. CASE RebuildClear
      BY <2>1, <1>2 DEF RebuildClear, Phase
    <2>2. CASE RebuildInsert
      <3>1. op.ret \in {"allocate", "place", "promote"} /\ pc = "reinsert"
        BY <2>2 DEF RebuildInsert, IInv, LocalsKnown, Phase
      <3>2. \/ pc' = op.ret
            \/ pc' = "reinsert" /\ op' = [op EXCEPT !.next = @ + 1]
        BY <2>2, <3>1 DEF RebuildInsert
      <3> QED
        BY <3>1, <3>2, <1>2 DEF Phase
    <2>3. CASE PlacePromote
      BY <2>3 DEF PlacePromote, Phase
    <2>4. CASE SieveFound
      BY <2>4 DEF SieveFound, Phase
    <2>5. CASE SieveSkip
      BY <2>5 DEF SieveSkip, Phase
    <2> QED
      BY <2>1, <2>2, <2>3, <2>4, <2>5 DEF SetIndexStep
  <1>5. SlotsKept
    BY <1>1 DEF SlotsKept, Live
  <1>6. Continues
    BY <1>1, <1>3, <1>4, <1>5 DEF Continues
  <1>7. SlabTypes' /\ ReclaimIdle'
    BY <1>1 DEF SlabInv, SlabTypes, ReclaimIdle
  <1> QED
    BY <1>1, <1>4, <1>6, <1>7, ContinuesStep

(* evictSlot(), which forgets one slot.                                       *)
LEMMA EvictKeeps ==
    ASSUME IInv, IInv', NEW B, SlabInv(B),
           NEW place \in {"allocate", "place", "promote"}, pc = place,
           NEW i \in Slots, EvictSlot(i, place), len' = LenAfterEvict,
           slabVars' = slabVars, callVars' = callVars, alloc' = alloc
    PROVE  /\ SlabInv(B)' /\ Continues
           /\ Live(i) /\ ~Live(i)'
           /\ \A j \in Slots \ {i} : Live(j)' <=> Live(j)
  <1>1. /\ slab' = slab /\ write_ptr' = write_ptr /\ reclaim_ptr' = reclaim_ptr
        /\ offset' = [offset EXCEPT ![i] = invalid_offset]
        /\ hashes' = [hashes EXCEPT ![i] = 0]
        /\ op' = [op EXCEPT !.ret = place]
        /\ pc' \in {"rebuild", place}
        /\ Live(i)
    BY DEF slabVars, EvictSlot, GoTo, IInv, NoPanic
  <1>2. op \in [hash : HashLows, slot : Slots, existing : BOOLEAN,
               new_offset : Offsets \cup {0}, start : MainRing \cup {0},
               main : MainRing \cup {0}, next : Slots, ret : Places]
    BY DEF IInv, TypeOK
  <1>3. /\ offset \in [Slots -> Offsets \cup {invalid_offset}]
        /\ hashes \in [Slots -> HashLows]
    BY DEF IInv, TypeOK
  <1>4. ~Live(i)'
    BY <1>1, <1>3 DEF Live
  <1>5. \A j \in Slots \ {i} : offset'[j] = offset[j] /\ hashes'[j] = hashes[j]
                               /\ (Live(j)' <=> Live(j))
    BY <1>1, <1>3 DEF Live
  <1>6. /\ len' \in [Slots -> 0 .. SlabSize]
        /\ \A j \in Slots : Live(j)' => len'[j] = len[j]
    BY SlabNumbers DEF LenAfterEvict, SlabInv, SlabTypes, Live
  <1>7. SlotsKept
    BY <1>1, <1>4, <1>5, <1>6 DEF SlotsKept
  <1>8. reclaim_offsets' = reclaim_offsets
    BY DEF EvictSlot, SlabInv, ReclaimIdle, Live
  <1>9. SlabTypes' /\ ReclaimIdle'
    BY <1>1, <1>6, <1>8 DEF SlabInv, SlabTypes, ReclaimIdle
  <1>10. Phase' = Phase
    BY <1>1, <1>2 DEF Phase
  <1>11. Continues
    BY <1>1, <1>2, <1>7, <1>10 DEF Continues
  <1> QED
    BY <1>1, <1>4, <1>5, <1>9, <1>10, <1>11, ContinuesStep

-----------------------------------------------------------------------------
(* allocate().                                                                *)

(* precleanTail() and finishTailReclaim() do nothing.                         *)
LEMMA NoReclaim ==
    ASSUME IInv, ReclaimIdle, write_ptr \in 0 .. SlabSize
    PROVE  /\ PrecleanTail = [ptr |-> invalid_offset, marks |-> {}]
           /\ FinishScan(invalid_offset) = {}
           /\ WithMarks({}) = reclaim_offsets
  <1>1. /\ reclaim_ptr = invalid_offset
        /\ SlabSize < invalid_offset /\ SlabSize \in Nat
        /\ invalid_offset \in Nat
    BY SlabNumbers DEF ReclaimIdle
  <1>2. ~(reclaim_ptr = SlabSize \/ reclaim_ptr < write_ptr)
        /\ reclaim_ptr >= SlabSize
    BY <1>1
  <1>3. PrecleanTail = [ptr |-> invalid_offset, marks |-> {}]
    BY <1>1, <1>2 DEF PrecleanTail
  <1>4. FinishScan(invalid_offset) = {}
    BY <1>1 DEF FinishScan
  <1>5. WithMarks({}) = reclaim_offsets
    BY DEF WithMarks, IInv, TypeOK
  <1> QED
    BY <1>3, <1>4, <1>5

(* Steps that change the locals of allocate() only.                           *)
LEMMA AllocMoves ==
    ASSUME NEW B, SlabInv(B), vars' = vars, len' = len, slabVars' = slabVars,
           callVars' = callVars, AllocOK(B)'
    PROVE  SlabInv(B)'
  <1>1. /\ offset' = offset /\ hashes' = hashes /\ pc' = pc /\ op' = op
        /\ reclaim_offsets' = reclaim_offsets
        /\ slab' = slab /\ write_ptr' = write_ptr /\ reclaim_ptr' = reclaim_ptr
        /\ key' = key /\ value' = value /\ len' = len
    BY DEF vars, slotVars, slabVars, callVars
  <1>2. Phase' = Phase
    BY <1>1 DEF Phase
  <1>3. SlabTypes' /\ ReclaimIdle'
    BY <1>1 DEF SlabInv, SlabTypes, ReclaimIdle
  <1>4. Blocks(B)'
    BY <1>1 DEF SlabInv, Blocks, Owns, Live
  <1>5. KeysUnique'
    BY <1>1 DEF SlabInv, KeysUnique, Live, Alias
  <1>6. CallOK'
    BY <1>1, <1>2 DEF SlabInv, CallOK, Live
  <1>7. NewBlock(B)' /\ Promoted'
    BY <1>1, <1>2 DEF SlabInv, NewBlock, Promoted, Live
  <1> QED
    BY <1>3, <1>4, <1>5, <1>6, <1>7 DEF SlabInv

(* Sizes inside a call of allocate().                                         *)
LEMMA InAllocate ==
    ASSUME IInv, NEW B, SlabInv(B), pc = "allocate"
    PROVE  /\ Phase = "allocate" /\ key \in Keys /\ value \in Values
           /\ NeededLen = Room(key, value)
           /\ NeededLen \in Nat /\ NeededLen >= 3
           /\ write_ptr \in B /\ write_ptr \in Nat /\ write_ptr < SlabSize
           /\ B \in SUBSET Addresses /\ Tiles(B, slab)
           /\ AllocOK(B)
  <1>1. Phase = "allocate" /\ key \in Keys /\ value \in Values
    BY DEF Phase, SlabInv, CallOK
  <1>2. NeededLen = Room(key, value)
    BY DEF NeededLen, Room
  <1>3. /\ write_ptr \in B /\ B \in SUBSET Addresses /\ Tiles(B, slab)
        /\ AllocOK(B)
    BY DEF SlabInv, Blocks
  <1> QED
    BY <1>1, <1>2, <1>3, Texts, SlabNumbers DEF Addresses

LEMMA AllocStartStep ==
    ASSUME IInv, NEW B, SlabInv(B), AllocStart
    PROVE  SlabInv(B)' /\ vars' = vars /\ len' = len
  <1>1. pc = "allocate" /\ alloc.at = "start"
    BY DEF AllocStart
  <1>2. reclaim_ptr' = reclaim_ptr /\ reclaim_offsets' = reclaim_offsets
    <2>1. ReclaimIdle /\ write_ptr \in 0 .. SlabSize
      BY <1>1, InAllocate, SlabNumbers DEF SlabInv
    <2>2. /\ PrecleanTail = [ptr |-> invalid_offset, marks |-> {}]
          /\ FinishScan(invalid_offset) = {}
          /\ WithMarks({}) = reclaim_offsets
      BY <2>1, NoReclaim
    <2> QED
      BY <2>1, <2>2 DEF AllocStart, ReclaimIdle
  <1>3. /\ vars' = vars /\ len' = len /\ slabVars' = slabVars
        /\ callVars' = callVars
    BY <1>2 DEF AllocStart, vars, indexVars, slotVars, ringVars, slabVars
  <1>4. alloc' = [alloc EXCEPT !.at = IF NeededLen > SlabSize - write_ptr
                                        THEN "wrap" ELSE "first"]
        /\ NeededLen <= SlabSize - HeaderSize
    BY DEF AllocStart
  <1>5. AllocOK(B)'
    <2>1. /\ key' = key /\ value' = value /\ write_ptr' = write_ptr
          /\ offset' = offset
      BY <1>3 DEF callVars, slabVars, vars, slotVars
    <2>2. Phase' = Phase
      BY <1>3 DEF Phase, vars
    <2>3. alloc'.at = (IF NeededLen > SlabSize - write_ptr
                         THEN "wrap" ELSE "first")
          /\ alloc'.total = 0 /\ alloc'.scan = 0
          /\ alloc' \in [at : {"start", "wrap", "first", "scan"},
                         total : 0 .. SlabSize,
                         scan : 0 .. SlabSize \cup 0 .. TotalSlots]
      BY <1>1, <1>4, InAllocate DEF AllocOK
    <2>4. \/ NeededLen > SlabSize - write_ptr
          \/ NeededLen <= SlabSize - write_ptr
      BY InAllocate, <1>1, SlabNumbers
    <2> QED
      BY <1>1, <1>4, <2>1, <2>2, <2>3, <2>4, InAllocate, SlabNumbers
      DEF AllocOK, Live
  <1> QED
    BY <1>3, <1>5, AllocMoves

LEMMA AllocEvictPendingStep ==
    ASSUME IInv, NEW B, SlabInv(B), AllocEvictPending
    PROVE  SlabInv(B)' /\ vars' = vars /\ len' = len
  <1>1. /\ pc = "allocate" /\ alloc.at = "wrap" /\ alloc.scan < TotalSlots
        /\ alloc' = [alloc EXCEPT !.scan = @ + 1]
        /\ slabVars' = slabVars /\ callVars' = callVars
    BY DEF AllocEvictPending
  <1>2. alloc.scan \in 0 .. TotalSlots /\ alloc.scan + 1 \in 0 .. TotalSlots
        /\ alloc.scan \in Slots
    BY <1>1, InAllocate, SlabNumbers DEF AllocOK, Slots
  <1>3. vars' = vars /\ len' = len
    BY <1>2 DEF AllocEvictPending, SlabInv, ReclaimIdle
  <1>4. AllocOK(B)'
    <2>1. /\ key' = key /\ value' = value /\ write_ptr' = write_ptr
          /\ offset' = offset
      BY <1>1, <1>3 DEF callVars, slabVars, vars, slotVars
    <2>2. Phase' = Phase
      BY <1>3 DEF Phase, vars
    <2>3. /\ alloc'.at = "wrap" /\ alloc'.total = 0
          /\ alloc'.scan = alloc.scan + 1
          /\ alloc' \in [at : {"start", "wrap", "first", "scan"},
                         total : 0 .. SlabSize,
                         scan : 0 .. SlabSize \cup 0 .. TotalSlots]
      BY <1>1, <1>2, InAllocate DEF AllocOK
    <2> QED
      BY <1>1, <1>2, <2>1, <2>2, <2>3, InAllocate DEF AllocOK, Live
  <1> QED
    BY <1>1, <1>3, <1>4, AllocMoves

(* A block whose owner is not active belongs to no live slot.                 *)
LEMMA NotOwned ==
    ASSUME NEW B, SlabInv(B), pc # "store", NEW o,
           ~IsSlotActive(Header(o).slot_idx, o)
    PROVE  \A i \in Slots : Live(i) => offset[i] # o
  <1> SUFFICES ASSUME NEW i \in Slots, Live(i), offset[i] = o PROVE FALSE
    OBVIOUS
  <1>1. slab[o] = i
    BY LiveBlock
  <1> QED
    BY <1>1 DEF IsSlotActive, Header

LEMMA AllocFirstStep ==
    ASSUME IInv, NEW B, SlabInv(B), AllocFirst
    PROVE  SlabInv(B)' /\ vars' = vars /\ len' = len
  <1>1. /\ pc = "allocate" /\ alloc.at = "first"
        /\ ~IsSlotActive(Header(write_ptr).slot_idx, write_ptr)
        /\ alloc' = [at |-> "scan", total |-> slab[write_ptr + 1],
                     scan |-> write_ptr + slab[write_ptr + 1]]
        /\ vars' = vars /\ len' = len
        /\ slabVars' = slabVars /\ callVars' = callVars
    BY DEF AllocFirst, Header
  <1> DEFINE n == slab[write_ptr + 1]
  <1>2. /\ n \in Nat /\ n >= 3 /\ write_ptr + n <= SlabSize
        /\ write_ptr + n \in B \cup {SlabSize}
        /\ \A p \in B : p > write_ptr => p >= write_ptr + n
    BY <1>1, InAllocate, BlockBounds
  <1>3. \A i \in Slots : Live(i) =>
           offset[i] < write_ptr \/ offset[i] >= write_ptr + n
    <2> SUFFICES ASSUME NEW i \in Slots, Live(i)
                 PROVE  offset[i] < write_ptr \/ offset[i] >= write_ptr + n
      OBVIOUS
    <2>1. offset[i] # write_ptr
      BY <1>1, NotOwned
    <2>2. offset[i] \in B /\ offset[i] \in Nat
      BY LiveBlock, SlabNumbers
    <2> QED
      BY <1>1, <1>2, <2>1, <2>2, InAllocate
  <1>4. AllocOK(B)'
    <2>1. /\ key' = key /\ value' = value /\ write_ptr' = write_ptr
          /\ offset' = offset
      BY <1>1 DEF callVars, slabVars, vars, slotVars
    <2>2. Phase' = Phase
      BY <1>1 DEF Phase, vars
    <2>3. /\ alloc'.at = "scan" /\ alloc'.total = n
          /\ alloc'.scan = write_ptr + n
          /\ alloc' \in [at : {"start", "wrap", "first", "scan"},
                         total : 0 .. SlabSize,
                         scan : 0 .. SlabSize \cup 0 .. TotalSlots]
      BY <1>1, <1>2, InAllocate, SlabNumbers
    <2> QED
      BY <1>1, <1>2, <1>3, <2>1, <2>2, <2>3, InAllocate, SlabNumbers
      DEF AllocOK, Live
  <1> QED
    BY <1>1, <1>4, AllocMoves

(* The merging loop always finds another block, with a length.                *)
LEMMA NeverStuck ==
    ASSUME IInv, NEW B, SlabInv(B), Scanning
    PROVE  ~ScanStuck /\ ScanGoesOn /\ alloc.scan \in B
  <1>1. pc = "allocate" /\ alloc.at = "scan" /\ alloc.total < NeededLen
    BY DEF Scanning
  <1>2. /\ NeededLen <= SlabSize - write_ptr /\ alloc.scan = write_ptr + alloc.total
        /\ alloc.scan \in B \cup {SlabSize} /\ alloc.total \in Nat
    BY <1>1, InAllocate DEF AllocOK
  <1>3. alloc.scan # SlabSize
    BY <1>1, <1>2, InAllocate, SlabNumbers
  <1>4. alloc.scan \in B
    BY <1>2, <1>3
  <1>5. slab[alloc.scan + 1] >= 3 /\ slab[alloc.scan + 1] \in Nat
        /\ alloc.scan \in Addresses
        /\ alloc.scan + slab[alloc.scan + 1] <= SlabSize
    BY <1>1, <1>4, InAllocate, BlockBounds
  <1>6. alloc.scan + 3 <= SlabSize
    BY <1>5, SlabNumbers DEF Addresses
  <1> QED
    BY <1>4, <1>5, <1>6, SlabNumbers
    DEF ScanStuck, ScanGoesOn, InSlab, Header, Addresses

LEMMA AllocMergeStep ==
    ASSUME IInv, NEW B, SlabInv(B), AllocMerge
    PROVE  SlabInv(B)' /\ vars' = vars /\ len' = len
  <1> DEFINE n == slab[alloc.scan + 1]
  <1>1. /\ pc = "allocate" /\ alloc.at = "scan" /\ Scanning
        /\ ~IsSlotActive(Header(alloc.scan).slot_idx, alloc.scan)
        /\ alloc' = [alloc EXCEPT !.total = @ + n, !.scan = @ + n]
        /\ vars' = vars /\ len' = len
        /\ slabVars' = slabVars /\ callVars' = callVars
    BY DEF AllocMerge, Scanning, Header
  <1>2. /\ alloc.scan \in B /\ alloc.scan = write_ptr + alloc.total
        /\ alloc.total \in Nat /\ alloc.total >= 3
        /\ \A i \in Slots : Live(i) =>
              offset[i] < write_ptr \/ offset[i] >= alloc.scan
    BY <1>1, NeverStuck, InAllocate, SlabNumbers DEF AllocOK
  <1>3. /\ alloc.scan \in Nat /\ n \in Nat /\ n >= 3
        /\ alloc.scan + n <= SlabSize
        /\ alloc.scan + n \in B \cup {SlabSize}
        /\ \A p \in B : p > alloc.scan => p >= alloc.scan + n
    BY <1>1, <1>2, InAllocate, BlockBounds
  <1>4. \A i \in Slots : Live(i) =>
           offset[i] < write_ptr \/ offset[i] >= alloc.scan + n
    <2> SUFFICES ASSUME NEW i \in Slots, Live(i)
                 PROVE  offset[i] < write_ptr \/ offset[i] >= alloc.scan + n
      OBVIOUS
    <2>1. offset[i] # alloc.scan
      BY <1>1, NotOwned
    <2>2. offset[i] \in B /\ offset[i] \in Nat
      BY LiveBlock, SlabNumbers
    <2> QED
      BY <1>1, <1>2, <1>3, <2>1, <2>2, InAllocate
  <1>5. AllocOK(B)'
    <2>1. /\ key' = key /\ value' = value /\ write_ptr' = write_ptr
          /\ offset' = offset
      BY <1>1 DEF callVars, slabVars, vars, slotVars
    <2>2. Phase' = Phase
      BY <1>1 DEF Phase, vars
    <2>3. /\ alloc.total + n \in 0 .. SlabSize
          /\ alloc.scan + n \in 0 .. SlabSize
          /\ alloc.scan + n = write_ptr + (alloc.total + n)
          /\ alloc.total + n >= HeaderSize
      BY <1>1, <1>2, <1>3, InAllocate, SlabNumbers
    <2>4. /\ alloc'.at = "scan" /\ alloc'.total = alloc.total + n
          /\ alloc'.scan = alloc.scan + n
          /\ alloc' \in [at : {"start", "wrap", "first", "scan"},
                         total : 0 .. SlabSize,
                         scan : 0 .. SlabSize \cup 0 .. TotalSlots]
      BY <1>1, <2>3, InAllocate DEF AllocOK
    <2>5. alloc'.scan \in B \cup {SlabSize}
      BY <1>3, <2>4
    <2>6. /\ NeededLen <= SlabSize - HeaderSize
          /\ NeededLen <= SlabSize - write_ptr
      BY <1>1, InAllocate DEF AllocOK
    <2> QED
      BY <1>1, <1>4, <2>1, <2>2, <2>3, <2>4, <2>5, <2>6, InAllocate
      DEF AllocOK, Live
  <1> QED
    BY <1>1, <1>5, AllocMoves

(* The owner of a block in the way is evicted.                                *)
LEMMA AllocEvictStep ==
    ASSUME IInv, IInv', NEW B, SlabInv(B), AllocEvictFirst \/ AllocEvictNext
    PROVE  /\ SlabInv(B)' /\ Continues
           /\ \E i \in Slots : /\ Live(i) /\ ~Live(i)'
                               /\ \A j \in Slots \ {i} : Live(j)' <=> Live(j)
  <1>1. PICK o : AllocEvict(o)
    BY DEF AllocEvictFirst, AllocEvictNext
  <1>2. PICK i \in Slots : AllocateEvict(i)
    BY <1>1 DEF AllocEvict, IsSlotActive
  <1>3. /\ len' = LenAfterEvict /\ slabVars' = slabVars
        /\ callVars' = callVars /\ alloc' = alloc
    BY <1>1 DEF AllocEvict
  <1>4. pc = "allocate" /\ EvictSlot(i, "allocate")
    BY <1>2 DEF AllocateEvict
  <1> QED
    BY <1>3, <1>4, EvictKeeps

-----------------------------------------------------------------------------
(* Steps that write to the slab.                                              *)

(* A slot whose block, but for the word that names the slot, is the same in   *)
(* mem2 as in the slab.                                                       *)
SameBlock(i, mem2) ==
    \A x \in Nat : offset[i] < x /\ x < offset[i] + slab[offset[i] + 1]
                     => mem2[x] = slab[x]

LEMMA SameBlockHolds ==
    ASSUME NEW B, NEW i, NEW mem2, NEW k,
           SlabInv(B), i \in Slots, Live(i), SameBlock(i, mem2), k \in Keys
    PROVE  /\ Holds(mem2, offset[i], k) <=> Holds(slab, offset[i], k)
           /\ mem2[offset[i] + 1] = slab[offset[i] + 1]
  <1> DEFINE o == offset[i]
  <1>1. PICK l \in Keys, v \in Values :
          Holds(slab, o, l) /\ Room(l, v) <= slab[o + 1]
    BY LiveBlock
  <1>2. o \in Nat /\ slab[o + 1] \in Nat /\ slab[o + 1] >= 3
    BY LiveBlock, BlockBounds
  <1>3. Len(l) \in Nat /\ Len(v) \in Nat
    BY Texts
  <1>4. slab[o + 1] >= 3 + Len(l)
    BY <1>1, <1>2, <1>3, SlabNumbers DEF Room
  <1>5. mem2[o + 1] = slab[o + 1] /\ mem2[o + 2] = slab[o + 2]
    BY <1>2 DEF SameBlock
  <1>6. ASSUME NEW n \in 1 .. Len(l) PROVE mem2[o + 2 + n] = slab[o + 2 + n]
    <2>1. o + 2 + n \in Nat /\ o < o + 2 + n /\ o + 2 + n < o + slab[o + 1]
      BY <1>2, <1>3, <1>4
    <2> QED
      BY <2>1 DEF SameBlock
  <1>7. Holds(mem2, o, l)
    BY <1>1, <1>5, <1>6 DEF Holds
  <1> QED
    BY <1>1, <1>5, <1>7, OneKey

(* Blocks are merged or split between a and e, where nothing live lies.       *)
LEMMA ReshapedBlocks ==
    ASSUME NEW B, NEW a, NEW e, NEW B2,
           SlabInv(B), pc # "store", pc' # "store",
           a \in B, e \in B \cup {SlabSize}, a < e,
           B2 \in SUBSET Addresses, Tiles(B2, slab'),
           \A o \in B : o < a \/ o >= e => o \in B2,
           \A x \in Addresses : x < a \/ x >= e => slab'[x] = slab[x],
           \A i \in Slots : Live(i) => offset[i] < a \/ offset[i] >= e,
           offset' = offset, hashes' = hashes, len' = len,
           write_ptr' \in B2
    PROVE  /\ Blocks(B2)' /\ KeysUnique'
           /\ \A i \in Slots : Live(i) => SameBlock(i, slab')
  <1>1. B \in SUBSET Addresses /\ Tiles(B, slab) /\ e \in Nat
    BY SlabNumbers DEF SlabInv, Blocks
  <1>2. ASSUME NEW i \in Slots, Live(i)
        PROVE  \A x \in Nat :
                 offset[i] <= x /\ x < offset[i] + slab[offset[i] + 1]
                   => slab'[x] = slab[x]
    <2> SUFFICES ASSUME NEW x \in Nat, offset[i] <= x,
                        x < offset[i] + slab[offset[i] + 1]
                 PROVE  slab'[x] = slab[x]
      OBVIOUS
    <2>1. offset[i] \in B /\ (offset[i] < a \/ offset[i] >= e)
      BY <1>2, LiveBlock
    <2>2. x \in Addresses /\ (x < a \/ x >= e)
      BY <1>1, <2>1, Outside
    <2> QED
      BY <2>2
  <1>3. \A i \in Slots : Live(i) => SameBlock(i, slab')
    <2> SUFFICES ASSUME NEW i \in Slots, Live(i),
                        NEW x \in Nat, offset[i] < x,
                        x < offset[i] + slab[offset[i] + 1]
                 PROVE  slab'[x] = slab[x]
      BY DEF SameBlock
    <2>1. offset[i] <= x
      <3>1. offset[i] \in Nat
        BY LiveBlock, SlabNumbers
      <3> QED
        BY <3>1
    <2> QED
      BY <1>2, <2>1
  <1>4. \A i \in Slots : Live(i)' <=> Live(i)
    BY DEF Live
  <1>5. ASSUME NEW i \in Slots, Live(i) PROVE Owns(i, B2)'
    <2>1. /\ offset[i] \in B /\ slab[offset[i]] = i
          /\ offset[i] < a \/ offset[i] >= e
      BY <1>5, LiveBlock
    <2>2. offset[i] \in Nat /\ slab[offset[i] + 1] \in Nat
          /\ slab[offset[i] + 1] >= 3
      BY <1>1, <2>1, BlockBounds
    <2>3. slab'[offset[i]] = i
      BY <1>2, <1>5, <2>1, <2>2
    <2>4. PICK k \in Keys, v \in Values :
            /\ Holds(slab, offset[i], k)
            /\ hashes[i] = HashLow[k]
            /\ len[i] = Len(v)
            /\ Room(k, v) <= slab[offset[i] + 1]
      BY <1>5, LiveBlock
    <2>5. /\ Holds(slab', offset[i], k)
          /\ slab'[offset[i] + 1] = slab[offset[i] + 1]
      BY <1>3, <1>5, <2>4, SameBlockHolds
    <2> QED
      BY <2>1, <2>3, <2>4, <2>5 DEF Owns
  <1>6. Blocks(B2)'
    BY <1>4, <1>5 DEF Blocks
  <1>7. ASSUME NEW i \in Slots, NEW j \in Slots, Live(i), Live(j),
               NEW k \in Keys,
               Holds(slab', offset[i], k), Holds(slab', offset[j], k)
        PROVE  i = j
    <2>1. Holds(slab, offset[i], k) /\ Holds(slab, offset[j], k)
      BY <1>3, <1>7, SameBlockHolds
    <2> QED
      BY <1>7, <2>1 DEF SlabInv, KeysUnique, Alias
  <1>8. KeysUnique'
    BY <1>4, <1>7 DEF KeysUnique
  <1> QED
    BY <1>3, <1>6, <1>8

LEMMA AllocWrapStep ==
    ASSUME IInv, NEW B, SlabInv(B), AllocWrap
    PROVE  /\ \E B2 \in SUBSET Addresses : SlabInv(B2)'
           /\ vars' = vars /\ len' = len
           /\ \A i \in Slots : Live(i) => SameBlock(i, slab')
  <1>0. PICK a : a = write_ptr
    OBVIOUS
  <1> DEFINE B2 == Retiled(B, a, a, SlabSize)
  <1>1. /\ pc = "allocate" /\ alloc.at = "wrap" /\ alloc.scan = TotalSlots
        /\ slab' = WithHeader(slab, a, invalid_slot_idx, SlabSize - a, 0)
        /\ write_ptr' = 0 /\ reclaim_ptr' = invalid_offset
        /\ alloc' = [alloc EXCEPT !.at = "first", !.scan = 0]
        /\ vars' = vars /\ len' = len /\ callVars' = callVars
    BY <1>0 DEF AllocWrap
  <1>2. /\ offset' = offset /\ hashes' = hashes /\ pc' = pc /\ op' = op
        /\ reclaim_offsets' = reclaim_offsets /\ key' = key /\ value' = value
    BY <1>1 DEF vars, slotVars, callVars
  <1>3. /\ a \in B /\ a \in Nat /\ a + 3 <= SlabSize
        /\ B \in SUBSET Addresses /\ Tiles(B, slab)
    <2>1. /\ a \in B /\ B \in SUBSET Addresses /\ Tiles(B, slab)
      BY <1>0, <1>1, InAllocate
    <2>2. a \in Nat /\ slab[a + 1] \in Nat /\ slab[a + 1] >= 3
          /\ a + slab[a + 1] <= SlabSize
      BY <2>1, BlockBounds
    <2> QED
      BY <2>1, <2>2, SlabNumbers
  <1>4. /\ slab' \in [Addresses -> Nat] /\ slab'[a + 1] = SlabSize - a
        /\ \A x \in Addresses : x < a \/ x >= a + 3 => slab'[x] = slab[x]
    <2>1. slab \in [Addresses -> Nat] /\ SlabSize - a \in Nat /\ 0 \in Nat
          /\ a \in Nat /\ invalid_slot_idx \in Nat /\ a + 3 <= SlabSize
      BY <1>3, SlabNumbers DEF SlabInv, SlabTypes
    <2>2. slab' = WithHeader(slab, a, invalid_slot_idx, SlabSize - a, 0)
      BY <1>1
    <2> QED
      BY <2>1, <2>2, HeaderWritten
  <1>5. \A x \in Addresses : x < a \/ x >= SlabSize => slab'[x] = slab[x]
    BY <1>3, <1>4, SlabNumbers DEF Addresses
  <1>6. B2 \in SUBSET Addresses /\ Tiles(B2, slab')
    <2>1. a < SlabSize /\ a <= a /\ SlabSize \in B \cup {SlabSize}
      BY <1>3, SlabNumbers
    <2> QED
      BY <1>3, <1>4, <1>5, <2>1, RetiledTiles
  <1>7. \A i \in Slots : Live(i) => offset[i] < a
    <2>1. AllocOK(B) /\ Phase = "allocate"
      BY <1>1, InAllocate
    <2> QED
      BY <1>0, <1>1, <2>1 DEF AllocOK
  <1>8. Blocks(B2)' /\ KeysUnique'
        /\ \A i \in Slots : Live(i) => SameBlock(i, slab')
    <2>1. \A o \in B : o < a \/ o >= SlabSize => o \in B2
      BY DEF Retiled
    <2>2. write_ptr' \in B2
      BY <1>1, <1>6 DEF Tiles
    <2>3. pc # "store" /\ pc' # "store" /\ a < SlabSize
          /\ SlabSize \in B \cup {SlabSize}
      BY <1>1, <1>2, <1>3, SlabNumbers
    <2>4. \A i \in Slots : Live(i) => offset[i] < a \/ offset[i] >= SlabSize
      BY <1>7
    <2>5. offset' = offset /\ hashes' = hashes /\ len' = len
      BY <1>1, <1>2
    <2> HIDE DEF B2
    <2> QED
      BY <1>3, <1>5, <1>6, <2>1, <2>2, <2>3, <2>4, <2>5, ReshapedBlocks
  <1>9. Phase' = Phase /\ Phase = "allocate"
    BY <1>1, <1>2 DEF Phase
  <1>10. SlabTypes' /\ ReclaimIdle'
    BY <1>1, <1>2, <1>4 DEF SlabInv, SlabTypes, ReclaimIdle
  <1>11. CallOK'
    <2>1. /\ key \in Keys /\ value \in Values /\ op.hash = HashLow[key]
          /\ \A i \in Slots : Live(i) /\ Holds(slab, offset[i], key)
                                => op.existing /\ i = op.slot
          /\ op.existing /\ Live(op.slot)
               => Holds(slab, offset[op.slot], key)
      BY <1>1 DEF SlabInv, CallOK
    <2>2. op.slot \in Slots
      BY DEF IInv, TypeOK
    <2>3. \A i \in Slots : Live(i) => (Holds(slab', offset[i], key)
                                         <=> Holds(slab, offset[i], key))
      BY <1>8, <2>1, SameBlockHolds
    <2> QED
      BY <1>1, <1>2, <1>9, <2>1, <2>2, <2>3 DEF CallOK, Live
  <1>12. NewBlock(B2)' /\ Promoted'
    BY <1>1, <1>2, <1>9 DEF NewBlock, Promoted
  <1>13. AllocOK(B2)'
    <2>1. AllocOK(B)
      BY DEF SlabInv
    <2>2. /\ alloc'.at = "first" /\ alloc'.total = 0
          /\ alloc' \in [at : {"start", "wrap", "first", "scan"},
                         total : 0 .. SlabSize,
                         scan : 0 .. SlabSize \cup 0 .. TotalSlots]
      BY <1>1, <2>1, SlabNumbers DEF AllocOK
    <2>3. Room(key, value) <= SlabSize - HeaderSize /\ Room(key, value) \in Nat
      BY <1>1, <2>1, InAllocate DEF AllocOK
    <2>4. Room(key, value) <= SlabSize - 0
      BY <2>3, SlabNumbers
    <2> QED
      BY <1>1, <1>2, <1>9, <2>2, <2>3, <2>4 DEF AllocOK
  <1> QED
    BY <1>1, <1>6, <1>8, <1>10, <1>11, <1>12, <1>13 DEF SlabInv

(* What the end of allocate() writes between a, where it stands, and e, the   *)
(* end of the blocks it has merged.                                           *)
WithPair(mem, a, e, slot, k, v) ==
    LET rest == (e - a) - Room(k, v)
        block_len == IF Splits(rest) THEN Room(k, v) ELSE e - a
        own == WithHeader(mem, a, slot, block_len, Len(k))
        split == IF Splits(rest)
                   THEN WithHeader(own, a + Room(k, v),
                                   invalid_slot_idx, rest, 0)
                   ELSE own
    IN  WithWords(split, a + HeaderSize, k \o v)

(* What is between a and e then: the pair in a block of its own, and the rest *)
(* in another or in the same.  Nothing else has changed.                      *)
PairIn(mem2, mem, a, e, slot, k, v) ==
    LET rest == (e - a) - Room(k, v) IN
    /\ mem2 \in [Addresses -> Nat]
    /\ mem2[a] = slot
    /\ Holds(mem2, a, k)
    /\ \A n \in 1 .. Len(v) : mem2[a + 2 + Len(k) + n] = v[n]
    /\ IF Splits(rest) THEN /\ mem2[a + 1] = Room(k, v)
                            /\ mem2[a + Room(k, v) + 1] = rest
                       ELSE mem2[a + 1] = e - a
    /\ \A x \in Addresses : x < a \/ x >= e => mem2[x] = mem[x]

LEMMA PairWritten ==
    ASSUME NEW mem, NEW a, NEW e, NEW slot, NEW k, NEW v, NEW mem2,
           mem \in [Addresses -> Nat], a \in Nat, e \in Nat, e <= SlabSize,
           slot \in Nat, k \in Keys, v \in Values, a + Room(k, v) <= e,
           mem2 = WithPair(mem, a, e, slot, k, v)
    PROVE  PairIn(mem2, mem, a, e, slot, k, v)
  <1>1. PICK room : room = Room(k, v)
    OBVIOUS
  <1>2. PICK rest : rest = (e - a) - room
    OBVIOUS
  <1>3. /\ room \in Nat /\ room >= 3 /\ rest \in Nat /\ a + room + rest = e
        /\ Len(k) \in Nat /\ Len(v) \in Nat /\ room = 3 + Len(k) + Len(v)
        /\ SlabSize \in Nat /\ HeaderSize = 3 /\ invalid_slot_idx \in Nat
    <2>1. /\ room \in Nat /\ room >= 3 /\ Len(k) \in Nat /\ Len(v) \in Nat
      BY <1>1, Texts
    <2>2. SlabSize \in Nat /\ HeaderSize = 3 /\ invalid_slot_idx \in Nat
      BY SlabNumbers
    <2>3. room = 3 + Len(k) + Len(v)
      BY <1>1, <2>2 DEF Room
    <2>4. rest \in Nat /\ a + room + rest = e
      BY <1>1, <1>2, <2>1
    <2> QED
      BY <2>1, <2>2, <2>3, <2>4
  <1>4. PICK block_len : block_len = IF Splits(rest) THEN room ELSE e - a
    OBVIOUS
  <1>5. PICK own : own = WithHeader(mem, a, slot, block_len, Len(k))
    OBVIOUS
  <1>6. PICK split : split = IF Splits(rest)
                               THEN WithHeader(own, a + room,
                                               invalid_slot_idx, rest, 0)
                               ELSE own
    OBVIOUS
  <1>7. mem2 = WithWords(split, a + 3, k \o v)
    BY <1>1, <1>2, <1>3, <1>4, <1>5, <1>6 DEF WithPair
  <1>8. Splits(rest) <=> rest >= 3
    BY <1>3 DEF Splits
  <1>9. /\ own \in [Addresses -> Nat]
        /\ own[a] = slot /\ own[a + 1] = block_len /\ own[a + 2] = Len(k)
        /\ \A x \in Addresses : x < a \/ x >= a + 3 => own[x] = mem[x]
    <2>1. PICK key_len \in Nat : key_len = Len(k)
      BY <1>3
    <2>2. /\ a + 3 <= SlabSize /\ block_len \in Nat /\ key_len \in Nat
          /\ mem \in [Addresses -> Nat] /\ a \in Nat /\ slot \in Nat
      BY <1>3, <1>4
    <2>3. own = WithHeader(mem, a, slot, block_len, key_len)
      BY <1>5, <2>1
    <2>4. /\ own \in [Addresses -> Nat]
          /\ own[a] = slot /\ own[a + 1] = block_len /\ own[a + 2] = key_len
          /\ \A x \in Addresses : x < a \/ x >= a + 3 => own[x] = mem[x]
      BY ONLY <2>2, <2>3, SlabNumbers, HeaderWritten
    <2> QED
      BY <2>1, <2>4
  <1>10. /\ split \in [Addresses -> Nat]
         /\ \A x \in Addresses : x < a + room \/ x >= e => split[x] = own[x]
         /\ Splits(rest) => split[a + room + 1] = rest
    <2>1. CASE rest >= 3
      <3>0. PICK c \in Nat, free \in Nat : c = a + room /\ free = 0
        BY <1>3
      <3>1. split = WithHeader(own, c, invalid_slot_idx, rest, free)
        BY <1>6, <1>8, <2>1, <3>0
      <3>2. c + 3 <= SlabSize /\ invalid_slot_idx \in Nat /\ rest \in Nat
        BY <1>3, <2>1, <3>0
      <3>5. own \in [Addresses -> Nat] /\ c \in Nat /\ free \in Nat
        BY <1>9, <3>0
      <3>3. /\ split \in [Addresses -> Nat]
            /\ split[c + 1] = rest
            /\ \A x \in Addresses : x < c \/ x >= c + 3 => split[x] = own[x]
        BY ONLY <3>1, <3>2, <3>5, SlabNumbers, HeaderWritten
      <3>4. \A x \in Addresses : x >= e => x >= a + room + 3
        BY <1>3, <2>1, SlabNumbers
      <3> QED
        BY <3>0, <3>3, <3>4
    <2>2. CASE ~(rest >= 3)
      BY <1>6, <1>8, <1>9, <2>2
    <2> QED
      BY <2>1, <2>2
  <1>11. PICK w : w = k \o v
    OBVIOUS
  <1>12. /\ Len(w) = Len(k) + Len(v)
         /\ \A n \in 1 .. Len(k) : w[n] = k[n]
         /\ \A n \in 1 .. Len(v) : w[Len(k) + n] = v[n]
         /\ \A n \in 1 .. Len(w) : w[n] \in Nat
    BY <1>11, PairWords
  <1>13. /\ mem2 \in [Addresses -> Nat]
         /\ \A n \in 1 .. Len(w) : mem2[(a + 3) + n - 1] = w[n]
         /\ \A x \in Addresses : x < a + 3 \/ x >= (a + 3) + Len(w)
                                   => mem2[x] = split[x]
    <2>0. PICK b \in Nat : b = a + 3
      OBVIOUS
    <2>1. b + Len(w) <= SlabSize /\ Len(w) \in Nat /\ b \in Nat
      BY <1>3, <1>12, <2>0
    <2>2. mem2 = WithWords(split, b, w) /\ split \in [Addresses -> Nat]
      BY <1>7, <1>10, <1>11, <2>0
    <2>3. \A m \in 1 .. Len(w) : w[m] \in Nat
      BY <1>12
    <2>4. /\ mem2 \in [Addresses -> Nat]
          /\ \A m \in 1 .. Len(w) : mem2[b + m - 1] = w[m]
          /\ \A x \in Addresses : x < b \/ x >= b + Len(w) => mem2[x] = split[x]
      BY ONLY <2>1, <2>2, <2>3, WordsWritten
    <2> QED
      BY <2>0, <2>4
  <1>14. (a + 3) + Len(w) = a + room
    BY <1>3, <1>12
  <1>15. /\ a \in Addresses /\ a + 1 \in Addresses /\ a + 2 \in Addresses
    BY <1>3 DEF Addresses
  <1>16. mem2[a] = slot /\ mem2[a + 1] = block_len /\ mem2[a + 2] = Len(k)
    <2>1. \A x \in {a, a + 1, a + 2} : mem2[x] = own[x]
      <3> SUFFICES ASSUME NEW x \in {a, a + 1, a + 2}
                   PROVE  mem2[x] = own[x]
        OBVIOUS
      <3>1. x \in Addresses /\ x < a + 3 /\ x < a + room
        BY <1>3, <1>15
      <3> QED
        BY <3>1, <1>10, <1>13
    <2> QED
      BY <1>9, <2>1
  <1>17. ASSUME NEW n \in 1 .. Len(k) PROVE mem2[a + 2 + n] = k[n]
    <2>1. n \in 1 .. Len(w) /\ (a + 3) + n - 1 = a + 2 + n
      BY <1>3, <1>12
    <2>2. mem2[(a + 3) + n - 1] = w[n]
      BY <2>1, <1>13
    <2> QED
      BY <2>1, <2>2, <1>12
  <1>18. ASSUME NEW n \in 1 .. Len(v)
         PROVE  mem2[a + 2 + Len(k) + n] = v[n]
    <2>1. /\ Len(k) + n \in 1 .. Len(w)
          /\ (a + 3) + (Len(k) + n) - 1 = a + 2 + Len(k) + n
      BY <1>3, <1>12
    <2>2. mem2[(a + 3) + (Len(k) + n) - 1] = w[Len(k) + n]
      BY <2>1, <1>13
    <2> QED
      BY <2>1, <2>2, <1>12
  <1>19. ASSUME Splits(rest) PROVE mem2[a + room + 1] = rest
    <2>1. a + room + 1 \in Addresses /\ a + room + 1 >= (a + 3) + Len(w)
          /\ a + room + 1 < e
      <3>1. rest >= 3
        BY <1>8, <1>19
      <3>2. a + room + 1 < e /\ a + room + 1 \in 0 .. SlabSize - 1
        BY <3>1, <1>3
      <3> QED
        BY <3>2, <1>3, <1>14 DEF Addresses
    <2> QED
      BY <2>1, <1>10, <1>13, <1>19
  <1>20. ASSUME NEW x \in Addresses, x < a \/ x >= e
         PROVE  mem2[x] = mem[x]
    <2>1. /\ x < a + 3 \/ x >= (a + 3) + Len(w)
          /\ x < a + room \/ x >= e
          /\ x < a \/ x >= a + 3
      BY <1>3, <1>14, <1>20, SlabNumbers
    <2> QED
      BY <2>1, <1>9, <1>10, <1>13
  <1>21. Holds(mem2, a, k)
    BY <1>16, <1>17 DEF Holds
  <1> QED
    BY <1>1, <1>2, <1>4, <1>13, <1>16, <1>18, <1>19, <1>20, <1>21 DEF PairIn

(* The key is where it was, if the live blocks are as they were.              *)
LEMMA CallKept ==
    ASSUME NEW B, SlabInv(B), IInv, Phase # "idle", pc # "idle", pc' # "idle",
           callVars' = callVars, offset' = offset,
           op'.hash = op.hash, op'.slot = op.slot, op'.existing = op.existing,
           Phase' = "publish" => op.existing,
           \A i \in Slots : Live(i) => SameBlock(i, slab')
    PROVE  CallOK'
  <1>1. /\ key \in Keys /\ value \in Values /\ op.hash = HashLow[key]
        /\ \A i \in Slots : Live(i) /\ Holds(slab, offset[i], key)
                              => op.existing /\ i = op.slot
        /\ op.existing /\ Live(op.slot)
             => Holds(slab, offset[op.slot], key)
    BY DEF SlabInv, CallOK
  <1>2. op.slot \in Slots
    BY DEF IInv, TypeOK
  <1>3. \A i \in Slots : Live(i) => (Holds(slab', offset[i], key)
                                       <=> Holds(slab, offset[i], key))
    BY <1>1, SameBlockHolds
  <1>4. key' = key /\ value' = value
    BY DEF callVars
  <1> QED
    BY <1>1, <1>2, <1>3, <1>4 DEF CallOK, Live

(* Outside allocate() its locals are reset.                                   *)
LEMMA AllocReset ==
    ASSUME NEW B, alloc' = NoAlloc, Phase' # "allocate"
    PROVE  AllocOK(B)'
  BY SlabNumbers DEF AllocOK, NoAlloc

LEMMA AllocWriteStep ==
    ASSUME IInv, NEW B, SlabInv(B), AllocWrite
    PROVE  /\ \E B2 \in SUBSET Addresses : SlabInv(B2)'
           /\ AllocateReturns(write_ptr) /\ write_ptr \in Offsets
           /\ len' = len
           /\ \A i \in Slots : Live(i) => SameBlock(i, slab')
  <1>1. /\ pc = "allocate" /\ alloc.at = "scan" /\ alloc.total >= NeededLen
        /\ AllocateReturns(write_ptr) /\ alloc' = NoAlloc /\ len' = len
        /\ reclaim_ptr' = reclaim_ptr /\ callVars' = callVars
    BY DEF AllocWrite
  <1>2. PICK a, e, room, rest :
          a = write_ptr /\ e = alloc.scan /\ room = Room(key, value)
          /\ rest = alloc.total - room
    OBVIOUS
  <1>3. PICK c : c = IF Splits(rest) THEN a + room ELSE a
    OBVIOUS
  <1>4. PICK B2 : B2 = Retiled(B, a, c, e)
    OBVIOUS
  <1>5. /\ B \in SUBSET Addresses /\ Tiles(B, slab) /\ a \in B /\ a \in Nat
        /\ e \in B \cup {SlabSize} /\ e \in Nat /\ e <= SlabSize
        /\ SlabSize \in Nat /\ SlabSize > 3
        /\ room \in Nat /\ room >= 3 /\ room = NeededLen
        /\ alloc.total \in Nat /\ e = a + alloc.total
        /\ \A i \in Slots : Live(i) => offset[i] < a \/ offset[i] >= e
    <2>1. /\ B \in SUBSET Addresses /\ Tiles(B, slab) /\ a \in B /\ a \in Nat
          /\ room \in Nat /\ room >= 3 /\ room = NeededLen
          /\ AllocOK(B)
      BY <1>1, <1>2, InAllocate
    <2>2. /\ e \in B \cup {SlabSize} /\ alloc.total \in 0 .. SlabSize
          /\ e = a + alloc.total
          /\ \A i \in Slots : Live(i) => offset[i] < a \/ offset[i] >= e
      BY <1>1, <1>2, <2>1 DEF AllocOK
    <2>3. e \in Nat /\ e <= SlabSize
      BY <2>1, <2>2, SlabNumbers DEF Addresses
    <2> QED
      BY <2>1, <2>2, <2>3, SlabNumbers
  <1>6. /\ rest \in Nat /\ a + room <= e /\ rest = (e - a) - room
        /\ a + room + rest = e /\ a < e
    BY <1>1, <1>2, <1>5
  <1>7. Splits(rest) <=> rest >= 3
    BY SlabNumbers DEF Splits
  <1>8. /\ c \in Nat /\ a <= c /\ c + 3 <= e
    <2>1. CASE rest >= 3
      BY <2>1, <1>3, <1>5, <1>6, <1>7
    <2>2. CASE ~(rest >= 3)
      BY <2>2, <1>3, <1>5, <1>6, <1>7
    <2> QED
      BY <2>1, <2>2
  <1>9. /\ key \in Keys /\ value \in Values /\ op.slot \in Slots
        /\ op.slot \in Nat /\ slab \in [Addresses -> Nat]
    BY <1>1, InAllocate, SlabNumbers DEF IInv, TypeOK, SlabInv, SlabTypes
  <1>10. slab' = WithPair(slab, a, e, op.slot, key, value)
    <2>1. e - a = alloc.total
      BY <1>5
    <2> QED
      BY <1>2, <1>5, <2>1 DEF AllocWrite, WithPair
  <1>11. /\ slab' \in [Addresses -> Nat]
         /\ slab'[a] = op.slot
         /\ Holds(slab', a, key)
         /\ \A n \in 1 .. Len(value) :
               slab'[a + 2 + Len(key) + n] = value[n]
         /\ IF Splits(rest) THEN slab'[a + 1] = room /\ slab'[c + 1] = rest
                            ELSE slab'[a + 1] = e - a
         /\ \A x \in Addresses : x < a \/ x >= e => slab'[x] = slab[x]
    <2>1. /\ slab \in [Addresses -> Nat] /\ a \in Nat /\ e \in Nat
          /\ e <= SlabSize /\ op.slot \in Nat
          /\ key \in Keys /\ value \in Values
          /\ a + Room(key, value) <= e /\ rest = (e - a) - Room(key, value)
          /\ slab' = WithPair(slab, a, e, op.slot, key, value)
      BY <1>2, <1>5, <1>6, <1>9, <1>10
    <2>2. PairIn(slab', slab, a, e, op.slot, key, value)
      BY ONLY <2>1, PairWritten
    <2> QED
      BY <2>1, <2>2, <1>2, <1>3 DEF PairIn
  <1>12. \/ c = a /\ slab'[a + 1] = e - a
         \/ c >= a + 3 /\ slab'[a + 1] = c - a /\ slab'[c + 1] = e - c
    <2>1. CASE Splits(rest)
      <3>1. c = a + room /\ e - c = rest /\ c - a = room /\ c >= a + 3
        BY <2>1, <1>3, <1>5, <1>6
      <3> QED
        BY <2>1, <3>1, <1>11
    <2>2. CASE ~Splits(rest)
      BY <2>2, <1>3, <1>11
    <2> QED
      BY <2>1, <2>2
  <1>13. B2 \in SUBSET Addresses /\ Tiles(B2, slab')
    <2>1. /\ B \in SUBSET Addresses /\ Tiles(B, slab)
          /\ a \in B /\ e \in B \cup {SlabSize} /\ a < e
          /\ c \in Nat /\ a <= c /\ c + 3 <= e
          /\ \A x \in Addresses : x < a \/ x >= e => slab'[x] = slab[x]
      BY <1>5, <1>6, <1>8, <1>11
    <2> QED
      BY ONLY <2>1, <1>4, <1>12, RetiledTiles
  <1>14. /\ a \in B2 /\ \A o \in B : o < a \/ o >= e => o \in B2
         /\ c \in B2
    BY <1>4 DEF Retiled
  <1>15. write_ptr' \in B2
    <2>1. write_ptr' = NextWrite(a + (IF Splits(rest) THEN room
                                                      ELSE alloc.total))
      BY <1>2, <1>5 DEF AllocWrite
    <2>2. CASE Splits(rest)
      <3>1. c = a + room /\ c # SlabSize
        BY <2>2, <1>3, <1>5, <1>8
      <3> QED
        BY <2>1, <2>2, <3>1, <1>14 DEF NextWrite
    <2>3. CASE ~Splits(rest)
      <3>1. write_ptr' = NextWrite(e)
        BY <2>1, <2>3, <1>5
      <3>2. 0 \in B2
        BY <1>13 DEF Tiles
      <3> QED
        BY <3>1, <3>2, <1>5, <1>14 DEF NextWrite
    <2> QED
      BY <2>2, <2>3
  <1>16. /\ offset' = offset /\ hashes' = hashes
         /\ reclaim_offsets' = reclaim_offsets
         /\ pc' = (IF op.existing THEN "publish" ELSE "place")
         /\ op' = [op EXCEPT !.new_offset = a]
    BY <1>1, <1>2 DEF AllocateReturns, slotVars
  <1>17. Blocks(B2)' /\ KeysUnique'
         /\ \A i \in Slots : Live(i) => SameBlock(i, slab')
    <2>1. /\ pc # "store" /\ pc' # "store" /\ a < e
          /\ a \in B /\ e \in B \cup {SlabSize}
          /\ offset' = offset /\ hashes' = hashes /\ len' = len
      BY <1>1, <1>5, <1>6, <1>16
    <2>2. /\ \A x \in Addresses : x < a \/ x >= e => slab'[x] = slab[x]
          /\ \A i \in Slots : Live(i) => offset[i] < a \/ offset[i] >= e
      BY <1>5, <1>11
    <2>3. SlabInv(B) /\ \A o \in B : o < a \/ o >= e => o \in B2
      BY <1>14
    <2> QED
      BY ONLY <1>13, <1>15, <2>1, <2>2, <2>3, ReshapedBlocks
  <1>18. op \in [hash : HashLows, slot : Slots, existing : BOOLEAN,
               new_offset : Offsets \cup {0}, start : MainRing \cup {0},
               main : MainRing \cup {0}, next : Slots, ret : Places]
    BY DEF IInv, TypeOK
  <1>19. /\ op'.hash = op.hash /\ op'.slot = op.slot
         /\ op'.existing = op.existing /\ op'.new_offset = a
    BY <1>16, <1>18
  <1>20. Phase' = pc' /\ Phase = "allocate"
    BY <1>1, <1>16 DEF Phase
  <1>21. SlabTypes' /\ ReclaimIdle'
    BY <1>1, <1>11, <1>16 DEF SlabInv, SlabTypes, ReclaimIdle
  <1>22. CallOK'
    BY <1>1, <1>16, <1>17, <1>19, <1>20, CallKept
  <1>23. NewBlock(B2)'
    <2>1. room <= slab'[a + 1]
      <3>1. CASE Splits(rest)
        BY <3>1, <1>5, <1>11
      <3>2. CASE ~Splits(rest)
        <4>1. slab'[a + 1] = e - a
          BY <3>2, <1>11
        <4>2. room <= e - a
          BY <1>5, <1>6
        <4> QED
          BY <4>1, <4>2
      <3> QED
        BY <3>1, <3>2
    <2>2. \A i \in Slots : Live(i) => offset[i] # a
      BY <1>5, <1>6
    <2>3. key' = key /\ value' = value
      BY <1>1 DEF callVars
    <2> QED
      BY <2>1, <2>2, <2>3, <1>2, <1>11, <1>14, <1>16, <1>19
      DEF NewBlock, Live
  <1>24. AllocOK(B2)'
    BY <1>1, <1>16, <1>20, AllocReset
  <1>26. Promoted'
    BY <1>16 DEF Promoted
  <1>25. write_ptr \in Offsets
    BY <1>2, <1>5, SlabNumbers
  <1> QED
    BY <1>1, <1>13, <1>17, <1>21, <1>22, <1>23, <1>24, <1>25, <1>26 DEF SlabInv

(* A word at the start of a block is in no other block and no block's length. *)
LEMMA OtherBlock ==
    ASSUME NEW B, NEW mem, NEW o, NEW p, NEW x,
           B \in SUBSET Addresses, Tiles(B, mem), o \in B, p \in B,
           x \in Nat, p < x, x < p + mem[p + 1]
    PROVE  x # o
  <1>1. /\ p \in Nat /\ o \in Nat /\ mem[p + 1] \in Nat
        /\ o > p => o >= p + mem[p + 1]
    BY BlockBounds
  <1> QED
    BY <1>1

(* Naming another slot in a block's header changes nothing else.              *)
LEMMA Renamed ==
    ASSUME NEW B, NEW o, B \in SUBSET Addresses, Tiles(B, slab), o \in B,
           \A x \in Addresses : x # o => slab'[x] = slab[x]
    PROVE  /\ Tiles(B, slab')
           /\ \A p \in B : \A x \in Nat :
                 p < x /\ x < p + slab[p + 1] => slab'[x] = slab[x]
  <1>2. ASSUME NEW p \in B, NEW x \in Nat, p < x, x < p + slab[p + 1]
        PROVE  slab'[x] = slab[x]
    <2>1. x # o
      BY <1>2, OtherBlock
    <2>2. x \in Addresses
      <3>1. p \in Nat /\ slab[p + 1] \in Nat /\ p + slab[p + 1] <= SlabSize
        BY BlockBounds
      <3> QED
        BY <1>2, <3>1, SlabNumbers DEF Addresses
    <2> QED
      BY <2>1, <2>2
  <1>3. ASSUME NEW p \in B PROVE slab'[p + 1] = slab[p + 1]
    <2>1. p \in Nat /\ slab[p + 1] \in Nat /\ slab[p + 1] >= 3
      BY BlockBounds
    <2>2. p + 1 \in Nat /\ p < p + 1 /\ p + 1 < p + slab[p + 1]
      BY <2>1
    <2> QED
      BY <1>2, <2>2
  <1>4. Tiles(B, slab')
    BY <1>3 DEF Tiles
  <1> QED
    BY <1>2, <1>4

(* The promoted slot's block names the main slot, which takes over its        *)
(* offset, hash and length.                                                   *)
LEMMA SetPromoteMoveStep ==
    ASSUME IInv, IInv', NEW B, SlabInv(B), SetPromoteMove
    PROVE  /\ SlabInv(B)'
           /\ pc = "promote" /\ pc' = "store"
           /\ op.main \in Slots /\ op.slot \in Slots /\ op.main # op.slot
           /\ Live(op.slot) /\ ~Live(op.main)
           /\ offset' = [offset EXCEPT ![op.main] = offset[op.slot]]
           /\ len' = [len EXCEPT ![op.main] = len[op.slot]]
           /\ op' = op /\ callVars' = callVars
           /\ \A i \in Slots : Live(i) => SameBlock(i, slab')
  <1>1. PICK m, s, o : m = op.main /\ s = op.slot /\ o = offset[s]
    OBVIOUS
  <1>2. /\ pc = "promote" /\ ~Live(m) /\ op' = op
        /\ offset' = [offset EXCEPT ![m] = o]
        /\ hashes' = [hashes EXCEPT ![m] = hashes[s]]
        /\ len' = [len EXCEPT ![m] = len[s]]
        /\ slab' = [slab EXCEPT ![o] = m]
        /\ reclaim_offsets' = reclaim_offsets
        /\ write_ptr' = write_ptr /\ reclaim_ptr' = reclaim_ptr
        /\ callVars' = callVars /\ alloc' = alloc
    BY <1>1 DEF SetPromoteMove, PromoteMove
  <1>3. /\ m \in Slots /\ s \in Slots /\ Live(s) /\ m # s
        /\ Phase = "promote" /\ ~op.existing
    BY <1>1, <1>2, SizeAssumption
    DEF IInv, LocalsKnown, TypeOK, Phase, MainRing, Slots, TotalSlots
  <1>4. pc' = "store" /\ Phase' = "store"
    BY <1>2 DEF SetPromoteMove, PromoteMove, GoTo, IInv, NoPanic, Phase
  <1>5. /\ offset \in [Slots -> Offsets \cup {invalid_offset}]
        /\ hashes \in [Slots -> HashLows]
        /\ len \in [Slots -> 0 .. SlabSize] /\ slab \in [Addresses -> Nat]
    BY DEF IInv, TypeOK, SlabInv, SlabTypes
  <1>6. /\ B \in SUBSET Addresses /\ Tiles(B, slab) /\ o \in B /\ slab[o] = s
        /\ write_ptr \in B
    BY <1>1, <1>2, <1>3, LiveBlock DEF SlabInv, Blocks
  <1>7. /\ slab' \in [Addresses -> Nat] /\ slab'[o] = m
        /\ \A x \in Addresses : x # o => slab'[x] = slab[x]
        /\ Tiles(B, slab')
        /\ \A p \in B : \A x \in Nat :
              p < x /\ x < p + slab[p + 1] => slab'[x] = slab[x]
    <2>1. /\ B \in SUBSET Addresses /\ Tiles(B, slab) /\ o \in B
          /\ m \in Nat
      BY <1>3, <1>6, SlabNumbers
    <2>2. slab' \in [Addresses -> Nat] /\ slab'[o] = m
      BY <1>2, <1>5, <2>1
    <2>4. \A x \in Addresses : x # o => slab'[x] = slab[x]
      BY <1>2, <1>5, <2>1
    <2>3. /\ Tiles(B, slab')
          /\ \A p \in B : \A x \in Nat :
                p < x /\ x < p + slab[p + 1] => slab'[x] = slab[x]
      BY ONLY <2>1, <2>4, Renamed
    <2> QED
      BY <2>2, <2>3, <2>4
  <1>8. ASSUME NEW i \in Slots, Live(i) PROVE SameBlock(i, slab')
    <2>1. offset[i] \in B
      BY <1>8, LiveBlock
    <2> QED
      BY <2>1, <1>7 DEF SameBlock
  <1>9. /\ offset'[m] = o /\ hashes'[m] = hashes[s] /\ len'[m] = len[s]
        /\ \A i \in Slots \ {m} : /\ offset'[i] = offset[i]
                                  /\ hashes'[i] = hashes[i]
                                  /\ len'[i] = len[i]
    BY <1>2, <1>3, <1>5
  <1> DEFINE Was(i) == IF i = m THEN s ELSE i
  <1>10. ASSUME NEW i \in Slots, Live(i)'
         PROVE  /\ Was(i) \in Slots /\ Live(Was(i))
                /\ offset'[i] = offset[Was(i)]
                /\ hashes'[i] = hashes[Was(i)]
                /\ len'[i] = len[Was(i)]
    BY <1>1, <1>3, <1>9, <1>10 DEF Live
  <1>11. ASSUME NEW i \in Slots, Live(i)' PROVE Owns(i, B)'
    <2>1. PICK w \in Slots : w = Was(i) /\ Live(w) /\ offset'[i] = offset[w]
                             /\ hashes'[i] = hashes[w] /\ len'[i] = len[w]
      BY <1>10, <1>11
    <2>2. /\ offset[w] \in B /\ slab[offset[w]] = w
      BY <1>2, <2>1, LiveBlock
    <2>3. PICK k \in Keys, v \in Values :
            /\ Holds(slab, offset[w], k)
            /\ hashes[w] = HashLow[k]
            /\ len[w] = Len(v)
            /\ Room(k, v) <= slab[offset[w] + 1]
      BY <2>1, LiveBlock
    <2>4. /\ Holds(slab', offset[w], k)
          /\ slab'[offset[w] + 1] = slab[offset[w] + 1]
      BY <1>8, <2>1, <2>3, SameBlockHolds
    <2>5. slab'[offset[w]] = i \/ i = s
      <3>1. CASE w = s
        BY <1>1, <1>7, <2>1, <3>1
      <3>2. CASE w # s
        <4>1. i = w
          BY <2>1, <3>2
        <4>2. offset[w] # o /\ offset[w] \in Addresses
          BY <1>6, <2>2, <3>2
        <4> QED
          BY <4>1, <4>2, <1>7, <2>2
      <3> QED
        BY <3>1, <3>2
    <2> QED
      BY <1>1, <1>2, <1>4, <2>1, <2>2, <2>3, <2>4, <2>5 DEF Owns
  <1>12. Blocks(B)'
    BY <1>2, <1>6, <1>7, <1>11 DEF Blocks
  <1>13. ASSUME NEW i \in Slots, Live(i)', NEW k \in Keys
         PROVE  Holds(slab', offset'[i], k)
                  <=> Holds(slab, offset[Was(i)], k)
    <2>1. PICK w \in Slots : w = Was(i) /\ Live(w) /\ offset'[i] = offset[w]
      BY <1>10, <1>13
    <2> QED
      BY <2>1, <1>8, SameBlockHolds
  <1>14. KeysUnique'
    <2> SUFFICES ASSUME NEW i \in Slots, NEW j \in Slots, Live(i)', Live(j)',
                        NEW k \in Keys,
                        Holds(slab', offset'[i], k), Holds(slab', offset'[j], k)
                 PROVE  i = j \/ Alias(i, j)'
      BY DEF KeysUnique
    <2>1. /\ Was(i) \in Slots /\ Was(j) \in Slots
          /\ Live(Was(i)) /\ Live(Was(j))
          /\ Holds(slab, offset[Was(i)], k) /\ Holds(slab, offset[Was(j)], k)
      BY <1>10, <1>13
    <2>2. Was(i) = Was(j)
      BY <1>2, <2>1 DEF SlabInv, KeysUnique, Alias
    <2>3. i = j \/ s \in {i, j}
      BY <2>2
    <2>4. offset'[i] = offset'[j] /\ len'[i] = len'[j]
      BY <1>10, <2>2
    <2> QED
      BY <1>1, <1>2, <1>4, <2>3, <2>4 DEF Alias
  <1>15. CallOK'
    <2>1. /\ key \in Keys /\ value \in Values /\ op.hash = HashLow[key]
          /\ \A i \in Slots : Live(i) /\ Holds(slab, offset[i], key)
                                => op.existing /\ i = op.slot
      BY <1>2 DEF SlabInv, CallOK
    <2>2. \A i \in Slots : Live(i)' => ~Holds(slab', offset'[i], key)
      BY <1>3, <1>10, <1>13, <2>1
    <2>3. key' = key /\ value' = value
      BY <1>2 DEF callVars
    <2> QED
      BY <1>2, <1>3, <1>4, <2>1, <2>2, <2>3 DEF CallOK
  <1>16. NewBlock(B)'
    <2>1. PICK n : n = op.new_offset
      OBVIOUS
    <2>2. /\ n \in B /\ slab[n] = op.slot /\ Holds(slab, n, key)
          /\ Room(key, value) <= slab[n + 1]
          /\ \A x \in 1 .. Len(value) :
                slab[n + 2 + Len(key) + x] = value[x]
          /\ \A i \in Slots : Live(i) => offset[i] # n
      BY <1>3, <2>1 DEF SlabInv, NewBlock
    <2>3. /\ n \in Nat /\ slab[n + 1] \in Nat /\ slab[n + 1] >= 3
          /\ n \in Addresses
      BY <1>6, <2>2, BlockBounds
    <2>4. /\ key \in Keys /\ value \in Values
      BY <1>2 DEF SlabInv, CallOK
    <2>5. /\ Len(key) \in Nat /\ Len(value) \in Nat
          /\ 3 + Len(key) + Len(value) <= slab[n + 1]
      BY <2>2, <2>4, Texts, SlabNumbers DEF Room
    <2>6. slab'[n + 1] = slab[n + 1] /\ slab'[n + 2] = slab[n + 2]
      BY <1>7, <2>2, <2>3
    <2>7. slab'[n] = slab[n]
      BY <1>1, <1>3, <1>7, <2>2, <2>3
    <2>8. ASSUME NEW x \in 1 .. Len(key) PROVE slab'[n + 2 + x] = key[x]
      <3>1. n + 2 + x \in Nat /\ n < n + 2 + x /\ n + 2 + x < n + slab[n + 1]
        BY <2>3, <2>5
      <3>2. slab[n + 2 + x] = key[x]
        BY <2>2 DEF Holds
      <3> QED
        BY <1>7, <2>2, <3>1, <3>2
    <2>9. ASSUME NEW x \in 1 .. Len(value)
          PROVE  slab'[n + 2 + Len(key) + x] = value[x]
      <3>1. /\ n + 2 + Len(key) + x \in Nat /\ n < n + 2 + Len(key) + x
            /\ n + 2 + Len(key) + x < n + slab[n + 1]
        BY <2>3, <2>5
      <3> QED
        BY <1>7, <2>2, <3>1
    <2>10. Holds(slab', n, key)
      BY <2>2, <2>6, <2>8 DEF Holds
    <2>11. \A i \in Slots : Live(i)' => offset'[i] # n
      BY <1>10, <2>2
    <2>12. key' = key /\ value' = value
      BY <1>2 DEF callVars
    <2> QED
      BY <1>2, <2>1, <2>2, <2>6, <2>7, <2>9, <2>10, <2>11, <2>12 DEF NewBlock
  <1>17. AllocOK(B)'
    <2>1. alloc' = NoAlloc
      BY <1>2, <1>3 DEF SlabInv, AllocOK
    <2> QED
      BY <1>4, <2>1, AllocReset
  <1>18. SlabTypes' /\ ReclaimIdle'
    BY <1>2, <1>3, <1>5, <1>7 DEF SlabInv, SlabTypes, ReclaimIdle
  <1>19. Promoted'
    BY <1>1, <1>2, <1>3, <1>9 DEF Promoted, Live
  <1> QED
    BY <1>1, <1>2, <1>3, <1>4, <1>8, <1>12, <1>14, <1>15, <1>16, <1>17, <1>18,
       <1>19
    DEF SlabInv

-----------------------------------------------------------------------------
(* Lookup.                                                                    *)

(* A set of natural numbers has a least member.                               *)
LEMMA LeastNumber ==
    ASSUME NEW T, T \in SUBSET Nat, T # {}
    PROVE  \E n \in T : \A m \in T : n <= m
  <1> DEFINE R == {ss \in Nat \X Nat : ss[1] < ss[2]}
  <1>1. IsWellFoundedOn(R, Nat)
    BY NatLessThanWellFounded DEF OpToRel
  <1> HIDE DEF R
  <1>2. PICK n \in T : \A m \in T : ~(<<m, n>> \in R)
    BY <1>1, WFMin
  <1>3. \A m, n1 \in Nat : <<m, n1>> \in R <=> m < n1
    BY DEF R
  <1>4. \A m \in T : ~(m < n)
    BY <1>2, <1>3
  <1> QED
    BY <1>4

(* What lookup() returns holds the key.                                       *)
LEMMA HitHolds ==
    ASSUME IInv, NEW B, NEW k, NEW i,
           SlabInv(B), k \in Keys, i \in Slots, LookupHit(k, i)
    PROVE  /\ Live(i) /\ Holds(slab, offset[i], k)
           /\ \E e \in Entries : table[e] = [hash_low |-> HashLow[k],
                                             slot_idx |-> i]
  <1>1. PICK d \in Entries : /\ table[Probe(HashLow[k], d)].slot_idx = i
                             /\ Matches(Probe(HashLow[k], d), k)
    BY DEF LookupHit
  <1>2. KeyEqualsOffset(i, k)
    BY <1>1 DEF Matches
  <1>3. Probe(HashLow[k], d) \in Entries
    <2>1. HashLow[k] \in Nat
      BY Texts, SizeAssumption
    <2>2. d \in Nat
      BY SizeAssumption DEF Entries
    <2> QED
      BY <2>1, <2>2, ProbeInTable
  <1>4. PICK e \in Entries : /\ table[e].slot_idx = i
                             /\ table[e].hash_low = HashLow[k]
    BY <1>1, <1>3 DEF Matches
  <1>5. table[e] = [hash_low |-> HashLow[k], slot_idx |-> i]
    BY <1>4 DEF IInv, TypeOK
  <1> QED
    BY <1>2, <1>5, KeyEqualsHolds

(* Between sets lookup() finds the slot that holds the key.                   *)
LEMMA HolderFound ==
    ASSUME IInv, NEW B, NEW k, NEW i,
           SlabInv(B), pc = "idle", k \in Keys, i \in Slots, Live(i),
           Holds(slab, offset[i], k)
    PROVE  LookupHit(k, i)
  <1> DEFINE T == {d \in Entries : Matches(Probe(HashLow[k], d), k)}
  <1>1. hashes[i] = HashLow[k] /\ HashLow[k] \in Nat
    <2>1. PICK l \in Keys : Holds(slab, offset[i], l) /\ hashes[i] = HashLow[l]
      BY LiveBlock
    <2> QED
      BY <2>1, OneKey, Texts, SizeAssumption
  <1>2. index_positions[i] # invalid_slot_idx
    BY DEF IInv, LiveIffIndexed
  <1>3. PICK d \in Entries :
          /\ index_positions[i] = Probe(HashLow[k], d)
          /\ \A c \in 0 .. d - 1 : ~IsEmpty(Probe(HashLow[k], c))
    BY <1>1, <1>2 DEF IInv, IndexOK, ProbeChains
  <1>4. table[index_positions[i]] = [hash_low |-> HashLow[k], slot_idx |-> i]
    BY <1>1, <1>2 DEF IInv, IndexOK, PositionsPointBack
  <1>5. d \in T
    <2>1. KeyEqualsOffset(i, k)
      BY KeyEqualsHolds
    <2>2. /\ table[Probe(HashLow[k], d)].slot_idx = i
          /\ table[Probe(HashLow[k], d)].hash_low = HashLow[k]
      BY <1>3, <1>4
    <2> QED
      BY <2>1, <2>2 DEF Matches
  <1>6. PICK n \in T : \A m \in T : n <= m
    <2>1. T \in SUBSET Nat /\ T # {}
      BY <1>5 DEF Entries
    <2> HIDE DEF T
    <2> QED
      BY <2>1, LeastNumber
  <1>7. /\ n \in Entries /\ Matches(Probe(HashLow[k], n), k)
        /\ n <= d /\ n \in Nat /\ d \in Nat /\ TableSize \in Nat
    BY <1>5, <1>6, SizeAssumption DEF Entries
  <1>8. ASSUME NEW c \in 0 .. n - 1
        PROVE  /\ ~IsEmpty(Probe(HashLow[k], c))
               /\ ~Matches(Probe(HashLow[k], c), k)
    <2>1. c \in 0 .. d - 1 /\ c \in Entries /\ ~(n <= c)
      BY <1>7 DEF Entries
    <2>2. c \notin T
      BY <1>6, <2>1
    <2> QED
      BY <1>3, <2>1, <2>2
  <1>9. PICK j \in Slots : j = table[Probe(HashLow[k], n)].slot_idx
    BY <1>7 DEF Matches
  <1>10. LookupHit(k, j)
    BY <1>7, <1>8, <1>9 DEF LookupHit
  <1>11. Live(j) /\ Holds(slab, offset[j], k)
    BY <1>10, HitHolds
  <1>12. j = i
    BY <1>11 DEF SlabInv, KeysUnique, Alias
  <1> QED
    BY <1>10, <1>12

-----------------------------------------------------------------------------
(* The steps between sets.                                                    *)

LEMMA SetBeginStep ==
    ASSUME IInv, NEW B, NEW k, NEW v,
           SlabInv(B), k \in Keys, v \in Values, CleanSet(k, v), SetBegin(k, v)
    PROVE  SlabInv(B)' /\ SetBegins /\ pc = "idle" /\ pc' = "allocate"
           /\ slotVars' = slotVars /\ len' = len /\ slab' = slab
           /\ key' = k /\ value' = v
  <1>1. /\ pc = "idle" /\ pc' = "allocate" /\ slotVars' = slotVars
        /\ key' = k /\ value' = v
        /\ len' = len /\ slabVars' = slabVars /\ alloc' = alloc
    BY DEF SetBegin, SetNew, SetExisting
  <1>2. /\ offset' = offset /\ hashes' = hashes
        /\ reclaim_offsets' = reclaim_offsets
        /\ slab' = slab /\ write_ptr' = write_ptr /\ reclaim_ptr' = reclaim_ptr
    BY <1>1 DEF slotVars, slabVars
  <1>3. Phase' = "allocate" /\ Phase = "idle"
    BY <1>1 DEF Phase
  <1>4. /\ SetBegins
        /\ op'.hash = HashLow[k]
        /\ \A i \in Slots : Live(i) /\ Holds(slab, offset[i], k)
                              => op'.existing /\ i = op'.slot
        /\ op'.existing => /\ op'.slot \in Slots /\ Live(op'.slot)
                           /\ Holds(slab, offset[op'.slot], k)
    <2>1. CASE LookupMiss(k) /\ SetNew(HashLow[k])
      <3>1. SetBegins
        BY <2>1, Texts DEF SetBegins
      <3>2. op'.hash = HashLow[k] /\ ~op'.existing
        BY <2>1 DEF SetNew, NoOp
      <3>3. \A i \in Slots : ~(Live(i) /\ Holds(slab, offset[i], k))
        BY <1>1, <2>1, HolderFound DEF LookupMiss
      <3> QED
        BY <3>1, <3>2, <3>3
    <2>2. CASE \E i \in Slots : LookupHit(k, i) /\ SetExisting(HashLow[k], i)
      <3>0. PICK i \in Slots : LookupHit(k, i) /\ SetExisting(HashLow[k], i)
        BY <2>2
      <3>1. SetBegins
        BY <3>0, Texts DEF SetBegins
      <3>2. op'.hash = HashLow[k] /\ op'.existing /\ op'.slot = i
        BY <3>0 DEF SetExisting, NoOp
      <3>3. Live(i) /\ Holds(slab, offset[i], k)
        BY <3>0, HitHolds
      <3>4. \A j \in Slots : Live(j) /\ Holds(slab, offset[j], k) => j = i
        BY <1>1, <3>3 DEF SlabInv, KeysUnique, Alias
      <3> QED
        BY <3>1, <3>2, <3>3, <3>4
    <2> QED
      BY <2>1, <2>2 DEF SetBegin
  <1>5. Blocks(B)' /\ KeysUnique'
    <2>1. SlotsKept
      BY <1>1, <1>2 DEF SlotsKept, Live
    <2> QED
      BY <1>1, <2>1, KeptBlocks
  <1>6. SlabTypes' /\ ReclaimIdle'
    BY <1>1, <1>2 DEF SlabInv, SlabTypes, ReclaimIdle
  <1>7. CallOK'
    BY <1>1, <1>2, <1>3, <1>4 DEF CallOK, Live
  <1>8. NewBlock(B)' /\ Promoted'
    BY <1>1, <1>3 DEF NewBlock, Promoted
  <1>9. AllocOK(B)'
    <2>1. alloc' = NoAlloc
      BY <1>1, <1>3 DEF SlabInv, AllocOK
    <2>2. /\ alloc'.at = "start" /\ alloc'.total = 0 /\ alloc'.scan = 0
          /\ alloc' \in [at : {"start", "wrap", "first", "scan"},
                         total : 0 .. SlabSize,
                         scan : 0 .. SlabSize \cup 0 .. TotalSlots]
      BY <2>1, SlabNumbers DEF NoAlloc
    <2>3. Room(k, v) > SlabSize - write_ptr /\ Room(k, v) <= SlabSize - HeaderSize
            => \A i \in Slots : Live(i) => offset[i] < write_ptr
      BY DEF CleanSet, Room
    <2> QED
      BY <1>1, <1>2, <1>3, <2>1, <2>2, <2>3 DEF AllocOK, Live
  <1> QED
    BY <1>1, <1>2, <1>4, <1>5, <1>6, <1>7, <1>8, <1>9 DEF SlabInv

LEMMA AllocFailStep ==
    ASSUME IInv, NEW B, SlabInv(B), AllocFail
    PROVE  SlabInv(B)' /\ AllocateFails /\ pc' = "idle"
           /\ slotVars' = slotVars /\ len' = len /\ slab' = slab
  <1>1. /\ pc = "allocate" /\ pc' = "idle" /\ slotVars' = slotVars
        /\ key' = NoCall /\ value' = NoCall
        /\ len' = len /\ slabVars' = slabVars /\ alloc' = NoAlloc
        /\ AllocateFails
    BY DEF AllocFail, AllocateFails
  <1>2. /\ offset' = offset /\ hashes' = hashes
        /\ reclaim_offsets' = reclaim_offsets
        /\ slab' = slab /\ write_ptr' = write_ptr /\ reclaim_ptr' = reclaim_ptr
    BY <1>1 DEF slotVars, slabVars
  <1>3. Phase' = "idle"
    BY <1>1 DEF Phase
  <1>4. Blocks(B)' /\ KeysUnique'
    <2>1. SlotsKept
      BY <1>1, <1>2 DEF SlotsKept, Live
    <2> QED
      BY <1>1, <2>1, KeptBlocks
  <1>5. SlabTypes' /\ ReclaimIdle'
    BY <1>1, <1>2 DEF SlabInv, SlabTypes, ReclaimIdle
  <1>6. CallOK' /\ NewBlock(B)' /\ Promoted'
    BY <1>1, <1>3 DEF CallOK, NewBlock, Promoted
  <1>7. AllocOK(B)'
    BY <1>1, <1>3, AllocReset
  <1> QED
    BY <1>1, <1>2, <1>4, <1>5, <1>6, <1>7 DEF SlabInv

(* A step that at most sets a visited bit.                                    *)
LEMMA TouchKeeps ==
    ASSUME NEW B, SlabInv(B), pc' = pc, op' = op, hashes' = hashes,
           offset' = offset, reclaim_offsets' = reclaim_offsets,
           len' = len, slabVars' = slabVars, callVars' = callVars,
           alloc' = alloc
    PROVE  SlabInv(B)'
  <1>1. /\ slab' = slab /\ write_ptr' = write_ptr /\ reclaim_ptr' = reclaim_ptr
        /\ key' = key /\ value' = value
    BY DEF slabVars, callVars
  <1>2. Phase' = Phase
    BY DEF Phase
  <1>3. SlabTypes' /\ ReclaimIdle'
    BY <1>1 DEF SlabInv, SlabTypes, ReclaimIdle
  <1>4. Blocks(B)'
    BY <1>1 DEF SlabInv, Blocks, Owns, Live
  <1>5. KeysUnique'
    BY <1>1 DEF SlabInv, KeysUnique, Live, Alias
  <1>6. CallOK'
    BY <1>1, <1>2 DEF SlabInv, CallOK, Live
  <1>7. NewBlock(B)' /\ Promoted'
    BY <1>1, <1>2 DEF SlabInv, NewBlock, Promoted, Live
  <1>8. AllocOK(B)'
    BY <1>1, <1>2 DEF SlabInv, AllocOK, Live
  <1> QED
    BY <1>3, <1>4, <1>5, <1>6, <1>7, <1>8 DEF SlabInv

(* The slot's metadata is pointed at the new block.                           *)
LEMMA SetEndStep ==
    ASSUME IInv, NEW B, SlabInv(B), SetEnd
    PROVE  /\ SlabInv(B)'
           /\ Publish \/ Store
           /\ pc' = "idle" /\ pc \in {"publish", "place", "store"}
           /\ op.slot \in Slots /\ key \in Keys /\ value \in Values
           /\ offset' = [offset EXCEPT ![op.slot] = op.new_offset]
           /\ len' = [len EXCEPT ![op.slot] = Len(value)]
           /\ slab' = slab /\ callVars' = <<NoCall, NoCall>>
           /\ op.new_offset # invalid_offset
           /\ Holds(slab, op.new_offset, key)
           /\ \A n \in 1 .. Len(value) :
                 slab[op.new_offset + 2 + Len(key) + n] = value[n]
           /\ \A i \in Slots \ {op.slot} :
                 Live(i) => ~Holds(slab, offset[i], key)
           /\ pc = "store" \/ (op.existing /\ pc = "publish") \/ ~Live(op.slot)
           /\ op.existing /\ Live(op.slot) => Holds(slab, offset[op.slot], key)
           /\ pc = "store" => ~op.existing /\ Promoted
  <1>1. PICK s, n : s = op.slot /\ n = op.new_offset
    OBVIOUS
  <1>2. /\ Publish \/ Store
        /\ pc' = "idle" /\ key' = NoCall /\ value' = NoCall
        /\ offset' = [offset EXCEPT ![s] = n]
        /\ len' = [len EXCEPT ![s] = Len(value)]
        /\ \/ hashes' = [hashes EXCEPT ![s] = op.hash]
           \/ hashes' = hashes /\ Live(s) /\ pc = "publish"
        /\ reclaim_offsets' = reclaim_offsets
        /\ slabVars' = slabVars /\ alloc' = alloc
    BY <1>1 DEF SetEnd, Publish, Store
  <1>3. /\ Phase = pc /\ Phase \in {"publish", "place", "store"}
        /\ pc = "publish" \/ pc = "store" \/ (pc = "place" /\ ~Live(s))
    BY <1>1 DEF SetEnd, Publish, Store, Phase
  <1>4. /\ slab' = slab /\ write_ptr' = write_ptr /\ reclaim_ptr' = reclaim_ptr
    BY <1>2 DEF slabVars
  <1>5. /\ offset \in [Slots -> Offsets \cup {invalid_offset}]
        /\ hashes \in [Slots -> HashLows]
        /\ len \in [Slots -> 0 .. SlabSize] /\ s \in Slots
        /\ n \in Offsets /\ n # invalid_offset
    <2>1. n \in Offsets
      BY <1>1, <1>3 DEF IInv, LocalsKnown
    <2> QED
      BY <1>1, <2>1, Sentinels DEF IInv, TypeOK, SlabInv, SlabTypes
  <1>6. /\ key \in Keys /\ value \in Values /\ op.hash = HashLow[key]
        /\ pc = "publish" => op.existing
        /\ pc = "store" => ~op.existing
        /\ \A i \in Slots \ {s} : Live(i) => ~Holds(slab, offset[i], key)
        /\ op.existing /\ Live(s) => Holds(slab, offset[s], key)
    BY <1>1, <1>3 DEF SlabInv, CallOK, IInv, LocalsKnown
  <1>7. /\ n \in B /\ slab[n] = s /\ Holds(slab, n, key)
        /\ Room(key, value) <= slab[n + 1]
        /\ \A x \in 1 .. Len(value) : slab[n + 2 + Len(key) + x] = value[x]
    BY <1>1, <1>3 DEF SlabInv, NewBlock
  <1>8. /\ offset'[s] = n /\ len'[s] = Len(value)
        /\ \A i \in Slots \ {s} : /\ offset'[i] = offset[i]
                                  /\ hashes'[i] = hashes[i]
                                  /\ len'[i] = len[i]
    BY <1>2, <1>5
  <1>9. hashes'[s] = op.hash
    <2>1. CASE hashes' = [hashes EXCEPT ![s] = op.hash]
      BY <2>1, <1>5
    <2>2. CASE hashes' = hashes /\ Live(s) /\ pc = "publish"
      <3>1. Holds(slab, offset[s], key)
        BY <2>2, <1>6
      <3>2. PICK k \in Keys : Holds(slab, offset[s], k) /\ hashes[s] = HashLow[k]
        BY <2>2, <1>5, LiveBlock
      <3>3. k = key
        BY <1>6, <3>1, <3>2, OneKey
      <3> QED
        BY <2>2, <3>2, <3>3, <1>6
    <2> QED
      BY <1>2, <2>1, <2>2
  <1>10. B \in SUBSET Addresses /\ Tiles(B, slab) /\ write_ptr \in B
    BY DEF SlabInv, Blocks
  <1>11. Len(value) \in 0 .. SlabSize
    <2>1. /\ n \in Nat /\ slab[n + 1] \in Nat /\ n + slab[n + 1] <= SlabSize
      BY <1>7, <1>10, BlockBounds
    <2>2. /\ Len(value) \in Nat /\ Len(key) \in Nat
          /\ 3 + Len(key) + Len(value) <= slab[n + 1]
      BY <1>6, <1>7, Texts, SlabNumbers DEF Room
    <2> QED
      BY <2>1, <2>2, SlabNumbers
  <1>12. ASSUME NEW i \in Slots, Live(i)' PROVE Owns(i, B)'
    <2>1. CASE i = s
      <3>1. /\ offset'[i] \in B /\ slab'[offset'[i]] = i
            /\ Holds(slab', offset'[i], key)
            /\ hashes'[i] = HashLow[key] /\ len'[i] = Len(value)
            /\ Room(key, value) <= slab'[offset'[i] + 1]
        BY <2>1, <1>4, <1>6, <1>7, <1>8, <1>9
      <3> QED
        BY <3>1, <1>6 DEF Owns
    <2>2. CASE i # s
      <3>1. /\ Live(i) /\ offset'[i] = offset[i] /\ hashes'[i] = hashes[i]
            /\ len'[i] = len[i]
        BY <1>8, <1>12, <2>2 DEF Live
      <3>2. Owns(i, B)
        BY <3>1 DEF SlabInv, Blocks
      <3> QED
        BY <1>1, <1>4, <2>2, <3>1, <3>2 DEF Owns
    <2> QED
      BY <2>1, <2>2
  <1>13. Blocks(B)'
    BY <1>4, <1>10, <1>12 DEF Blocks
  <1>14. KeysUnique'
    <2> SUFFICES ASSUME NEW i \in Slots, NEW j \in Slots, Live(i)', Live(j)',
                        NEW k \in Keys,
                        Holds(slab', offset'[i], k), Holds(slab', offset'[j], k)
                 PROVE  i = j
      BY DEF KeysUnique
    <2>1. CASE i # s /\ j # s
      <3>1. /\ Live(i) /\ Live(j)
            /\ Holds(slab, offset[i], k) /\ Holds(slab, offset[j], k)
        BY <1>4, <1>8, <2>1 DEF Live
      <3> QED
        BY <1>1, <2>1, <3>1 DEF SlabInv, KeysUnique, Alias
    <2>2. ASSUME NEW m \in Slots \ {s}, Live(m)', Holds(slab', offset'[m], k),
                 Holds(slab', offset'[s], k)
          PROVE  FALSE
      <3>1. k = key
        BY <1>4, <1>6, <1>7, <1>8, <2>2, OneKey
      <3>2. Live(m) /\ Holds(slab, offset[m], key)
        BY <1>4, <1>8, <2>2, <3>1 DEF Live
      <3> QED
        BY <1>6, <3>2
    <2> QED
      BY <2>1, <2>2
  <1>15. Phase' = "idle"
    BY <1>2 DEF Phase
  <1>16. CallOK' /\ NewBlock(B)' /\ Promoted'
    BY <1>2, <1>15 DEF CallOK, NewBlock, Promoted
  <1>17. AllocOK(B)'
    <2>1. alloc' = NoAlloc
      BY <1>2, <1>3 DEF SlabInv, AllocOK
    <2> QED
      BY <1>15, <2>1, AllocReset
  <1>18. SlabTypes' /\ ReclaimIdle'
    BY <1>2, <1>4, <1>5, <1>11 DEF SlabInv, SlabTypes, ReclaimIdle
  <1>19. SlabInv(B)'
    BY <1>13, <1>14, <1>16, <1>17, <1>18 DEF SlabInv
  <1>20. callVars' = <<NoCall, NoCall>>
    BY <1>2 DEF callVars
  <1>21. Promoted
    BY DEF SlabInv
  <1> QED
    BY <1>1, <1>2, <1>3, <1>4, <1>5, <1>6, <1>7, <1>19, <1>20, <1>21

-----------------------------------------------------------------------------
(* The invariant.                                                             *)

Inv == IInv /\ \E B \in SUBSET Addresses : SlabInv(B)

(* One free block covers the new slab.                                        *)
LEMMA SlabInit == ShardInit => Inv
  <1> SUFFICES ASSUME ShardInit PROVE Inv
    OBVIOUS
  <1>1. IInv
    BY InitInv DEF ShardInit
  <1> DEFINE B == {0}
             blank == [a \in Addresses |-> 0]
  <1>2. /\ offset = [i \in Slots |-> invalid_offset]
        /\ reclaim_offsets = [i \in Slots |-> invalid_offset]
        /\ pc = "idle" /\ Phase = "idle"
        /\ len = [i \in Slots |-> 0] /\ write_ptr = 0
        /\ reclaim_ptr = invalid_offset /\ key = NoCall /\ value = NoCall
        /\ alloc = NoAlloc
        /\ slab = WithHeader(blank, 0, invalid_slot_idx, SlabSize, 0)
    BY DEF ShardInit, Init, Phase
  <1>3. slab \in [Addresses -> Nat] /\ slab[1] = SlabSize
    <2>1. blank \in [Addresses -> Nat]
      OBVIOUS
    <2> HIDE DEF blank
    <2>2. PICK z \in Nat : z = 0
      OBVIOUS
    <2>3. /\ z + 3 <= SlabSize /\ invalid_slot_idx \in Nat /\ SlabSize \in Nat
          /\ slab = WithHeader(blank, z, invalid_slot_idx, SlabSize, z)
      BY <1>2, <2>2, SlabNumbers
    <2>4. slab \in [Addresses -> Nat] /\ slab[z + 1] = SlabSize
      BY ONLY <2>1, <2>2, <2>3, HeaderWritten
    <2>5. z + 1 = 1
      BY <2>2
    <2> QED
      BY <2>4, <2>5
  <1>4. \A i \in Slots : ~Live(i)
    BY <1>2 DEF Live
  <1>5. B \in SUBSET Addresses /\ Tiles(B, slab)
    <2>1. 0 \in Addresses
      BY SlabNumbers DEF Addresses
    <2>2. slab[0 + 1] \in HeaderSize .. SlabSize - 0 /\ 0 + slab[0 + 1] = SlabSize
      BY <1>3, SlabNumbers
    <2> QED
      BY <2>1, <2>2 DEF Tiles
  <1>6. Blocks(B) /\ KeysUnique
    BY <1>2, <1>4, <1>5 DEF Blocks, KeysUnique
  <1>7. SlabTypes /\ ReclaimIdle
    <2>1. 0 \in 0 .. SlabSize
      BY SlabNumbers
    <2>2. len \in [Slots -> 0 .. SlabSize]
      BY <1>2, <2>1
    <2> QED
      BY <1>2, <1>3, <2>2 DEF SlabTypes, ReclaimIdle
  <1>8. CallOK /\ NewBlock(B) /\ Promoted
    BY <1>2 DEF CallOK, NewBlock, Promoted
  <1>9. AllocOK(B)
    BY <1>2, SlabNumbers DEF AllocOK, NoAlloc
  <1> QED
    BY <1>1, <1>5, <1>6, <1>7, <1>8, <1>9 DEF Inv, SlabInv

(* Each step of the shard is a step of its index, or none.                    *)
LEMMA IndexStep ==
    ASSUME Inv, CleanNext
    PROVE  [Next]_vars
  <1>1. PICK B \in SUBSET Addresses : SlabInv(B)
    BY DEF Inv
  <1>2. IInv
    BY DEF Inv
  <1>3. CASE GetTouch
    BY <1>3 DEF GetTouch, Next
  <1>4. ASSUME NEW k \in Keys, NEW v \in Values, CleanSet(k, v), SetBegin(k, v)
        PROVE  Next
    BY <1>1, <1>2, <1>4, SetBeginStep DEF Next
  <1>5. CASE AllocStart \/ AllocWrap \/ AllocFirst \/ AllocMerge
             \/ AllocEvictPending
    BY <1>1, <1>2, <1>5, AllocStartStep, AllocWrapStep, AllocFirstStep,
       AllocMergeStep, AllocEvictPendingStep
  <1>6. CASE AllocEvictFirst \/ AllocEvictNext
    <2>1. PICK o : AllocEvict(o)
      BY <1>6 DEF AllocEvictFirst, AllocEvictNext
    <2>2. PICK i \in Slots : AllocateEvict(i)
      BY <2>1 DEF AllocEvict, IsSlotActive
    <2> QED
      BY <2>2 DEF Next, AllocatorSteps
  <1>7. CASE AllocFail
    BY <1>7 DEF AllocFail, Next, AllocatorSteps
  <1>8. CASE AllocWrite
    BY <1>1, <1>2, <1>8, AllocWriteStep DEF Next, AllocatorSteps
  <1>9. CASE SetIndexStep \/ SetEvictStep \/ SetPromoteMove \/ SetEnd
    BY <1>9 DEF SetIndexStep, SetEvictStep, SetPromoteMove, SetEnd, Next,
                IndexSteps
  <1> QED
    BY <1>3, <1>4, <1>5, <1>6, <1>7, <1>8, <1>9 DEF CleanNext, SetStep

(* Evictions of set() itself.                                                 *)
LEMMA SetEvictKeeps ==
    ASSUME IInv, IInv', NEW B, SlabInv(B), SetEvictStep
    PROVE  /\ SlabInv(B)' /\ Continues
           /\ \E i \in Slots : /\ Live(i) /\ ~Live(i)'
                               /\ \A j \in Slots \ {i} : Live(j)' <=> Live(j)
  <1>1. /\ len' = LenAfterEvict
        /\ slabVars' = slabVars /\ callVars' = callVars /\ alloc' = alloc
    BY DEF SetEvictStep
  <1>2. CASE PlaceEvict
    <2>1. op.slot \in Slots
      BY DEF IInv, TypeOK
    <2>2. pc = "place" /\ EvictSlot(op.slot, "place")
      BY <1>2 DEF PlaceEvict
    <2> QED
      BY <1>1, <2>1, <2>2, EvictKeeps
  <1>3. CASE PromoteEvict
    <2>1. op.main \in Slots
      BY <1>3, SizeAssumption
      DEF PromoteEvict, IInv, LocalsKnown, Phase, MainRing, Slots
    <2>2. pc = "promote" /\ EvictSlot(op.main, "promote")
      BY <1>3 DEF PromoteEvict
    <2> QED
      BY <1>1, <2>1, <2>2, EvictKeeps
  <1> QED
    BY <1>2, <1>3 DEF SetEvictStep

(* One case per action; only two of them change the set of block starts.      *)
LEMMA SlabStep == Inv /\ [CleanNext]_shardVars => Inv'
  <1> SUFFICES ASSUME Inv, [CleanNext]_shardVars PROVE Inv'
    OBVIOUS
  <1>1. PICK B \in SUBSET Addresses : SlabInv(B)
    BY DEF Inv
  <1>2. IInv
    BY DEF Inv
  <1>3. IInv'
    <2>1. [Next]_vars
      BY IndexStep DEF shardVars
    <2> QED
      BY <1>2, <2>1, StepInv
  <1>4. CASE SlabInv(B)'
    BY <1>3, <1>4 DEF Inv, Addresses
  <1>5. CASE GetTouch
    BY <1>1, <1>4, <1>5, TouchKeeps DEF GetTouch, Touch
  <1>6. ASSUME NEW k \in Keys, NEW v \in Values, CleanSet(k, v), SetBegin(k, v)
        PROVE  SlabInv(B)'
    BY <1>1, <1>2, <1>6, SetBeginStep
  <1>7. CASE AllocStart \/ AllocFirst \/ AllocMerge \/ AllocEvictPending
    BY <1>1, <1>2, <1>4, <1>7, AllocStartStep, AllocFirstStep,
       AllocMergeStep, AllocEvictPendingStep
  <1>8. CASE AllocWrap
    BY <1>1, <1>2, <1>3, <1>8, AllocWrapStep DEF Inv, Addresses
  <1>9. CASE AllocWrite
    BY <1>1, <1>2, <1>3, <1>9, AllocWriteStep DEF Inv, Addresses
  <1>10. CASE AllocEvictFirst \/ AllocEvictNext
    BY <1>1, <1>2, <1>3, <1>4, <1>10, AllocEvictStep
  <1>11. CASE AllocFail
    BY <1>1, <1>2, <1>4, <1>11, AllocFailStep
  <1>12. CASE SetIndexStep \/ SetEvictStep
    BY <1>1, <1>2, <1>3, <1>4, <1>12, SetIndexKeeps, SetEvictKeeps
  <1>13. CASE SetPromoteMove
    BY <1>1, <1>2, <1>3, <1>4, <1>13, SetPromoteMoveStep
  <1>14. CASE SetEnd
    BY <1>1, <1>2, <1>4, <1>14, SetEndStep
  <1>15. CASE UNCHANGED shardVars
    BY <1>1, <1>4, <1>15, TouchKeeps DEF shardVars, vars, slotVars
  <1> QED
    BY <1>4, <1>5, <1>6, <1>7, <1>8, <1>9, <1>10, <1>11, <1>12, <1>13, <1>14,
       <1>15
    DEF CleanNext, SetStep

LEMMA SlabHolds == CleanSpec => []Inv
  BY SlabInit, SlabStep, PTL DEF CleanSpec

-----------------------------------------------------------------------------
(* What follows from the invariant.                                           *)

(* The holders of a key are the live slots whose block holds it.              *)
LEMMA Holders ==
    ASSUME Inv, NEW k, k \in Keys
    PROVE  /\ HoldersOf(k) = {i \in Slots : Live(i) /\ Holds(slab, offset[i], k)}
           /\ \A i, j \in HoldersOf(k) : i = j \/ Alias(i, j)
           /\ \A l \in Keys : l # k => HoldersOf(k) \cap HoldersOf(l) = {}
  <1>1. PICK B : SlabInv(B)
    BY DEF Inv
  <1>2. \A l \in Keys : HoldersOf(l) =
                 {i \in Slots : Live(i) /\ Holds(slab, offset[i], l)}
    BY <1>1, KeyEqualsHolds DEF HoldersOf
  <1>3. \A i, j \in HoldersOf(k) : i = j \/ Alias(i, j)
    BY <1>1, <1>2 DEF SlabInv, KeysUnique
  <1>4. \A l \in Keys : l # k => HoldersOf(k) \cap HoldersOf(l) = {}
    BY <1>2, OneKey
  <1> QED
    BY <1>2, <1>3, <1>4

LEMMA TypesFollow == Inv => ShardTypeOK
  <1> SUFFICES ASSUME Inv PROVE ShardTypeOK
    OBVIOUS
  <1>1. PICK B \in SUBSET Addresses : SlabInv(B)
    BY DEF Inv
  <1>2. write_ptr \in Addresses
    BY <1>1 DEF SlabInv, Blocks
  <1>3. key \in Keys \cup {NoCall} /\ value \in Values \cup {NoCall}
    BY <1>1 DEF SlabInv, CallOK
  <1> QED
    BY <1>1, <1>2, <1>3
    DEF ShardTypeOK, SlabInv, SlabTypes, ReclaimIdle, AllocOK

LEMMA FindsFollow == Inv => IndexFindsKey
  <1> SUFFICES ASSUME Inv, pc = "idle", NEW k \in Keys
               PROVE  /\ Cardinality(HoldersOf(k)) <= 1
                      /\ \A i \in Slots : LookupHit(k, i) <=> i \in HoldersOf(k)
    BY DEF IndexFindsKey
  <1>1. PICK B : SlabInv(B)
    BY DEF Inv
  <1>2. \A i, j \in HoldersOf(k) : i = j
    BY Holders DEF Alias
  <1>3. Cardinality(HoldersOf(k)) <= 1
    <2>1. CASE HoldersOf(k) = {}
      BY <2>1, FS_EmptySet
    <2>2. CASE HoldersOf(k) # {}
      <3>1. PICK i : HoldersOf(k) = {i}
        BY <1>2, <2>2
      <3> QED
        BY <3>1, FS_Singleton
    <2> QED
      BY <2>1, <2>2
  <1>4. \A i \in Slots : LookupHit(k, i) <=> i \in HoldersOf(k)
    <2>1. ASSUME NEW i \in Slots, LookupHit(k, i) PROVE i \in HoldersOf(k)
      <3>1. Live(i) /\ Holds(slab, offset[i], k)
        BY <1>1, <2>1, HitHolds DEF Inv
      <3> QED
        BY <3>1, Holders
    <2>2. ASSUME NEW i \in Slots, i \in HoldersOf(k) PROVE LookupHit(k, i)
      BY <1>1, <2>2, HolderFound, Holders DEF Inv
    <2> QED
      BY <2>1, <2>2
  <1> QED
    BY <1>3, <1>4

(* The value that get() copies out of a block that holds key and value.       *)
LEMMA ValueRead ==
    ASSUME NEW k, NEW v, NEW i, k \in Keys, v \in Values,
           offset'[i] \in Nat, len'[i] = Len(v),
           \A x \in 1 .. Len(v) : slab'[offset'[i] + 2 + Len(k) + x] = v[x]
    PROVE  ValueAt(i, k)' = v
  <1>0. PICK n \in Nat : n = offset'[i]
    OBVIOUS
  <1>1. v \in Seq(Nat) /\ Len(k) \in Nat /\ Len(v) \in Nat
    BY SlabAssumption, Texts
  <1>2. v = [x \in 1 .. Len(v) |-> v[x]]
    BY <1>1
  <1>3. ASSUME NEW x \in 1 .. Len(v)
        PROVE  slab'[n + HeaderSize + Len(k) + x - 1] = v[x]
    <2>1. n + HeaderSize + Len(k) + x - 1 = n + 2 + Len(k) + x
      BY <1>1, SlabNumbers
    <2> QED
      BY <1>0, <2>1
  <1>4. ValueAt(i, k)' =
          [x \in 1 .. Len(v) |-> slab'[n + HeaderSize + Len(k) + x - 1]]
    BY <1>0 DEF ValueAt
  <1> QED
    BY <1>2, <1>3, <1>4

(* Only the end of a set() that has its block makes the shard idle again.     *)
LEMMA EndsOnce ==
    ASSUME Inv, Inv', [CleanNext]_shardVars, pc \notin {"idle", "allocate"},
           pc' = "idle"
    PROVE  SetEnd
  <1>1. PICK B : SlabInv(B)
    BY DEF Inv
  <1>2. IInv /\ IInv'
    BY DEF Inv
  <1>3. ~SetIndexStep
    BY <1>1, <1>2, SetIndexKeeps DEF Continues
  <1>4. ~SetEvictStep
    BY <1>1, <1>2, SetEvictKeeps DEF Continues
  <1>5. ~SetPromoteMove
    BY <1>1, <1>2, SetPromoteMoveStep
  <1>6. CleanNext
    BY DEF shardVars, vars
  <1>7. ~GetTouch /\ \A k \in Keys, v \in Values : ~SetBegin(k, v)
    BY DEF GetTouch, Touch, SetBegin, SetNew, SetExisting
  <1>8. ~(AllocStart \/ AllocWrap \/ AllocFirst \/ AllocMerge
          \/ AllocEvictPending \/ AllocEvictFirst \/ AllocEvictNext
          \/ AllocFail \/ AllocWrite)
    BY DEF AllocStart, AllocWrap, AllocFirst, AllocMerge, AllocEvictPending,
           AllocEvictFirst, AllocEvictNext, AllocFail, AllocWrite, Scanning,
           AllocateFails
  <1> QED
    BY <1>3, <1>4, <1>5, <1>6, <1>7, <1>8 DEF CleanNext, SetStep

(* After the end of a set() its slot i holds its key k and value v.           *)
LEMMA EndStores ==
    ASSUME Inv, SetEnd, NEW i, NEW k, NEW v, i = op.slot, k = key, v = value
    PROVE  /\ i \in Slots /\ k \in Keys /\ v \in Values
           /\ Live(i)'
           /\ Holds(slab', offset'[i], k)
           /\ ValueAt(i, k)' = v
  <1>1. PICK B \in SUBSET Addresses : SlabInv(B)
    BY DEF Inv
  <1>2. IInv
    BY DEF Inv
  <1>0. PICK n : n = op.new_offset
    OBVIOUS
  <1>3. /\ i \in Slots /\ k \in Keys /\ v \in Values
        /\ offset' = [offset EXCEPT ![i] = n]
        /\ len' = [len EXCEPT ![i] = Len(v)]
        /\ slab' = slab
        /\ n # invalid_offset
        /\ Holds(slab, n, k)
        /\ \A x \in 1 .. Len(v) : slab[n + 2 + Len(k) + x] = v[x]
    BY <1>0, <1>1, <1>2, SetEndStep
  <1>4. offset'[i] = n /\ len'[i] = Len(v) /\ n \in Nat
    BY <1>0, <1>1, <1>2, <1>3, SizeAssumption
    DEF IInv, TypeOK, SlabInv, SlabTypes
  <1>5. ValueAt(i, k)' = v
    <2>1. /\ offset'[i] \in Nat /\ len'[i] = Len(v)
          /\ \A x \in 1 .. Len(v) :
                slab'[offset'[i] + 2 + Len(k) + x] = v[x]
      BY <1>3, <1>4
    <2> QED
      BY ONLY <1>3, <2>1, ValueRead
  <1>6. Live(i)'
    BY <1>3, <1>4 DEF Live
  <1> QED
    BY <1>3, <1>4, <1>5, <1>6

(* Between sets lookup() finds every holder of a key.                         *)
FoundWhenIdle ==
    \A k \in Keys, i \in Slots :
        pc = "idle" /\ Live(i) /\ Holds(slab, offset[i], k) => LookupHit(k, i)

LEMMA FoundIdle == Inv => FoundWhenIdle
  BY HolderFound DEF Inv, FoundWhenIdle

LEMMA FoundIdleNext == Inv' => FoundWhenIdle'
  BY FoundIdle, PTL

(* A set() that ends is seen by the next lookup.                              *)
LEMMA WriteSeen ==
    Inv /\ Inv' /\ [CleanNext]_shardVars =>
      [\A k \in Keys, v \in Values :
         key = k /\ value = v /\ pc \notin {"idle", "allocate"} /\ pc' = "idle"
           => \E i \in Slots : LookupHit(k, i)' /\ ValueAt(i, k)' = v]_shardVars
  <1> SUFFICES ASSUME Inv, Inv', [CleanNext]_shardVars,
                      NEW k \in Keys, NEW v \in Values, key = k, value = v,
                      pc \notin {"idle", "allocate"}, pc' = "idle"
               PROVE  \E i \in Slots : LookupHit(k, i)' /\ ValueAt(i, k)' = v
    OBVIOUS
  <1>1. SetEnd
    BY EndsOnce
  <1>2. PICK i : i = op.slot
    OBVIOUS
  <1>3. /\ i \in Slots /\ Live(i)' /\ Holds(slab', offset'[i], k)
        /\ ValueAt(i, k)' = v
    BY <1>1, <1>2, EndStores
  <1>4. LookupHit(k, i)'
    BY <1>3, FoundIdleNext DEF FoundWhenIdle
  <1> QED
    BY <1>3, <1>4

-----------------------------------------------------------------------------
(* The walk over the headers.                                                 *)

(* What the walk of Boundaries does at offset o, if f is what it does further *)
(* on.                                                                        *)
WalkAt(f, o) ==
    IF \/ SlabSize - o < HeaderSize \/ Header(o).block_len < HeaderSize
       \/ Header(o).block_len > SlabSize - o
      THEN {o}
    ELSE {o} \cup (IF o + Header(o).block_len = SlabSize THEN {}
                   ELSE f[o + Header(o).block_len])

IsWalk(f) == f = [o \in Addresses |-> WalkAt(f, o)]

LEMMA WalkLooksAhead ==
    ASSUME SlabTypes, NEW f, NEW g, NEW o, o \in Addresses,
           \A p \in Addresses : p > o => f[p] = g[p]
    PROVE  WalkAt(f, o) = WalkAt(g, o)
  <1>1. o \in Nat /\ SlabSize \in Nat /\ HeaderSize = 3 /\ o < SlabSize
    BY SlabNumbers DEF Addresses
  <1> DEFINE n == Header(o).block_len
             stops == \/ SlabSize - o < HeaderSize \/ n < HeaderSize
                      \/ n > SlabSize - o
  <1>2. CASE stops
    BY <1>2 DEF WalkAt
  <1>3. CASE ~stops
    <2>1. o + 1 \in Addresses /\ n = slab[o + 1]
      BY <1>1, <1>3 DEF Header, Addresses
    <2>2. n \in Nat
      BY <2>1 DEF SlabTypes
    <2>3. o + n # SlabSize => o + n \in Addresses /\ o + n > o
      BY <1>1, <1>3, <2>2 DEF Addresses
    <2>4. o + n # SlabSize => f[o + n] = g[o + n]
      BY <2>3
    <2> QED
      BY <1>3, <2>4 DEF WalkAt
  <1> QED
    BY <1>2, <1>3

(* The walk is defined: it only looks at higher offsets.                      *)
WalksFrom(f, n) ==
    /\ f = [o \in Addresses |-> f[o]]
    /\ \A o \in Addresses : o >= SlabSize - n => f[o] = WalkAt(f, o)

LEMMA WalkFrom ==
    ASSUME SlabTypes
    PROVE  \A n \in Nat : n <= SlabSize => \E f : WalksFrom(f, n)
  <1> DEFINE T == {n \in Nat : n <= SlabSize /\ ~\E f : WalksFrom(f, n)}
  <1> SUFFICES ASSUME T # {} PROVE FALSE
    OBVIOUS
  <1>1. PICK n \in T : \A m \in T : n <= m
    <2>1. T \in SUBSET Nat
      OBVIOUS
    <2> HIDE DEF T
    <2> QED
      BY <2>1, LeastNumber
  <1>2. n \in Nat /\ n <= SlabSize /\ SlabSize \in Nat
    BY SlabNumbers
  <1>3. \A o \in Addresses : o \in Nat /\ o < SlabSize
    BY SlabNumbers DEF Addresses
  <1>4. n # 0
    <2>1. WalksFrom([o \in Addresses |-> 0], 0)
      BY <1>2, <1>3 DEF WalksFrom
    <2> QED
      BY <1>1, <2>1
  <1>5. n - 1 \in Nat /\ n - 1 <= SlabSize /\ ~(n <= n - 1)
    BY <1>2, <1>4
  <1>6. PICK f : WalksFrom(f, n - 1)
    BY <1>1, <1>5
  <1> DEFINE s == SlabSize - n
             g == [o \in Addresses |-> IF o = s THEN WalkAt(f, o) ELSE f[o]]
  <1>7. ASSUME NEW o \in Addresses, o >= s PROVE g[o] = WalkAt(g, o)
    <2>1. g[o] = WalkAt(f, o)
      <3>1. CASE o = s
        BY <3>1
      <3>2. CASE o # s
        <4>1. o >= SlabSize - (n - 1)
          BY <1>2, <1>3, <1>7, <3>2
        <4> QED
          BY <1>6, <3>2, <4>1 DEF WalksFrom
      <3> QED
        BY <3>1, <3>2
    <2>2. \A p \in Addresses : p > o => f[p] = g[p]
      <3> SUFFICES ASSUME NEW p \in Addresses, p > o PROVE f[p] = g[p]
        OBVIOUS
      <3>1. p # s
        BY <1>2, <1>3, <1>7
      <3> QED
        BY <3>1
    <2> HIDE DEF g
    <2>3. WalkAt(f, o) = WalkAt(g, o)
      BY <2>2, WalkLooksAhead
    <2> QED
      BY <2>1, <2>3
  <1>8. WalksFrom(g, n)
    BY <1>7 DEF WalksFrom
  <1> QED
    BY <1>1, <1>8

LEMMA WalkExists ==
    ASSUME SlabTypes
    PROVE  \E f : IsWalk(f) /\ Boundaries = f[0]
  <1>1. PICK f : WalksFrom(f, SlabSize)
    BY SlabNumbers, WalkFrom
  <1>2. \A o \in Addresses : o >= SlabSize - SlabSize
    BY SlabNumbers DEF Addresses
  <1>3. IsWalk(f)
    BY <1>1, <1>2 DEF WalksFrom, IsWalk
  <1> DEFINE W == CHOOSE g : g = [o \in Addresses |-> WalkAt(g, o)]
  <1>4. W = [o \in Addresses |-> WalkAt(W, o)]
    BY <1>3 DEF IsWalk
  <1>5. Boundaries = W[0]
    BY DEF Boundaries, WalkAt
  <1> QED
    BY <1>4, <1>5 DEF IsWalk

(* The walk meets the blocks of a tiling and nothing else.                    *)
LEMMA WalkTiles ==
    ASSUME SlabTypes, NEW B, B \in SUBSET Addresses, Tiles(B, slab),
           NEW f, IsWalk(f)
    PROVE  \A o \in B : f[o] = {p \in B : p >= o}
  <1> DEFINE T == {m \in Nat : \E o \in B : m = SlabSize - o
                                            /\ f[o] # {p \in B : p >= o}}
  <1>0. \A o \in B : o \in Nat /\ SlabSize - o \in Nat /\ o < SlabSize
    BY SlabNumbers DEF Addresses
  <1> SUFFICES ASSUME T # {} PROVE FALSE
    BY <1>0
  <1>1. PICK m \in T : \A x \in T : m <= x
    <2>1. T \in SUBSET Nat
      OBVIOUS
    <2> HIDE DEF T
    <2> QED
      BY <2>1, LeastNumber
  <1>2. PICK o \in B : m = SlabSize - o /\ f[o] # {p \in B : p >= o}
    BY <1>1
  <1>3. PICK n : n = slab[o + 1]
    OBVIOUS
  <1>4. /\ o \in Nat /\ n \in Nat /\ n >= 3 /\ o + n <= SlabSize
        /\ o + n \in B \cup {SlabSize}
        /\ \A p \in B : p > o => p >= o + n
    BY <1>3, BlockBounds
  <1>5. f[o] = {o} \cup (IF o + n = SlabSize THEN {} ELSE f[o + n])
    <2>1. f[o] = WalkAt(f, o)
      BY DEF IsWalk
    <2>2. /\ ~(SlabSize - o < HeaderSize) /\ ~(n < HeaderSize)
          /\ ~(n > SlabSize - o) /\ Header(o).block_len = n
      BY <1>3, <1>4, SlabNumbers DEF Header
    <2> QED
      BY <2>1, <2>2 DEF WalkAt
  <1>6. CASE o + n = SlabSize
    <2>1. \A p \in B : p >= o => p = o
      <3> SUFFICES ASSUME NEW p \in B, p >= o, p # o PROVE FALSE
        OBVIOUS
      <3>1. p \in Nat /\ p < SlabSize /\ p > o
        BY <1>0, <1>4
      <3>2. p >= o + n
        BY <1>4, <3>1
      <3> QED
        BY ONLY <1>6, <3>1, <3>2, <1>4
    <2>2. o >= o
      BY <1>4
    <2> QED
      BY <1>2, <1>5, <1>6, <2>1, <2>2
  <1>7. CASE o + n # SlabSize
    <2>1. PICK q \in B : q = o + n
      BY <1>4, <1>7
    <2>2. f[q] = {p \in B : p >= q}
      <3>1. SlabSize - q \in Nat /\ ~(m <= SlabSize - q)
        BY <1>0, <1>2, <1>4, <2>1, SlabNumbers
      <3>2. SlabSize - q \notin T
        BY <1>1, <3>1
      <3> QED
        BY <3>1, <3>2
    <2>3. \A p \in B : p >= o <=> p = o \/ p >= q
      BY <1>0, <1>4, <2>1
    <2>4. f[o] = {o} \cup {p \in B : p >= q}
      BY <1>5, <1>7, <2>1, <2>2
    <2> QED
      BY <1>2, <2>3, <2>4
  <1> QED
    BY <1>6, <1>7

LEMMA BoundariesAre ==
    ASSUME NEW B, B \in SUBSET Addresses, SlabInv(B)
    PROVE  Boundaries = B
  <1>1. SlabTypes /\ Tiles(B, slab)
    BY DEF SlabInv, Blocks
  <1>2. PICK f : IsWalk(f) /\ Boundaries = f[0]
    BY <1>1, WalkExists
  <1>3. 0 \in B /\ \A p \in B : p >= 0
    BY <1>1, SlabNumbers DEF Tiles
  <1>4. f[0] = {p \in B : p >= 0}
    BY <1>1, <1>2, <1>3, WalkTiles
  <1> QED
    BY <1>2, <1>3, <1>4

LEMMA TilingFollows == Inv => Tiling /\ LiveBlocksOwned
  <1> SUFFICES ASSUME Inv PROVE Tiling /\ LiveBlocksOwned
    OBVIOUS
  <1>1. PICK B \in SUBSET Addresses : SlabInv(B)
    BY DEF Inv
  <1>2. Boundaries = B /\ Tiles(B, slab) /\ write_ptr \in B
    BY <1>1, BoundariesAre DEF SlabInv, Blocks
  <1>3. ASSUME NEW o \in B
        PROVE  /\ SlabSize - o >= HeaderSize
               /\ Header(o).block_len >= HeaderSize
               /\ Header(o).block_len <= SlabSize - o
    <2>1. /\ o \in Nat /\ slab[o + 1] \in Nat /\ slab[o + 1] >= 3
          /\ o + slab[o + 1] <= SlabSize
      BY <1>2, BlockBounds
    <2>2. Header(o).block_len = slab[o + 1]
      BY DEF Header
    <2> QED
      BY <2>1, <2>2, SlabNumbers
  <1>4. Tiling
    BY <1>2, <1>3 DEF Tiling
  <1>5. ASSUME NEW i \in Slots, Live(i)
        PROVE  /\ offset[i] \in Boundaries
               /\ \/ Header(offset[i]).slot_idx = i
                  \/ pc = "store" /\ i = op.slot
               /\ HeaderSize + Header(offset[i]).key_len + len[i]
                    <= Header(offset[i]).block_len
    <2>1. /\ offset[i] \in B
          /\ slab[offset[i]] = i \/ (pc = "store" /\ i = op.slot)
      BY <1>1, <1>5, LiveBlock
    <2>2. PICK k \in Keys, v \in Values :
            /\ Holds(slab, offset[i], k)
            /\ len[i] = Len(v)
            /\ Room(k, v) <= slab[offset[i] + 1]
      BY <1>1, <1>5, LiveBlock
    <2>3. /\ Header(offset[i]).slot_idx = slab[offset[i]]
          /\ Header(offset[i]).block_len = slab[offset[i] + 1]
          /\ Header(offset[i]).key_len = Len(k)
      BY <2>2 DEF Header, Holds
    <2> QED
      BY <1>2, <2>1, <2>2, <2>3 DEF Room
  <1>6. LiveBlocksOwned
    BY <1>5 DEF LiveBlocksOwned
  <1> QED
    BY <1>4, <1>6

-----------------------------------------------------------------------------
(* The refinement of CacheSpec.                                               *)

Holder(i, k) == Live(i) /\ Holds(slab, offset[i], k)

(* The cache of CacheSpec, read off any holder of the key.                    *)
ViewRead ==
    /\ View = [k \in Keys |-> View[k]]
    /\ \A k \in Keys : /\ \A i \in Slots : Holder(i, k) => View[k] = ValueAt(i, k)
                       /\ (\A i \in Slots : ~Holder(i, k)) => View[k] = Absent

LEMMA ViewReads == Inv => ViewRead
  <1> SUFFICES ASSUME Inv, NEW k \in Keys
               PROVE  /\ \A i \in Slots : Holder(i, k) => View[k] = ValueAt(i, k)
                      /\ (\A i \in Slots : ~Holder(i, k)) => View[k] = Absent
    BY DEF ViewRead, View
  <1>1. /\ HoldersOf(k) = {i \in Slots : Holder(i, k)}
        /\ \A i, j \in HoldersOf(k) : i = j \/ Alias(i, j)
    BY Holders DEF Holder
  <1>2. View[k] = IF HoldersOf(k) = {} THEN Absent
                  ELSE ValueAt(CHOOSE i \in HoldersOf(k) : TRUE, k)
    BY DEF View
  <1>3. ASSUME NEW i \in Slots, Holder(i, k) PROVE View[k] = ValueAt(i, k)
    <2>1. PICK j \in HoldersOf(k) : View[k] = ValueAt(j, k)
      BY <1>1, <1>2, <1>3
    <2>2. i = j \/ (offset[i] = offset[j] /\ len[i] = len[j])
      BY <1>1, <1>3, <2>1 DEF Alias
    <2>3. ValueAt(i, k) = ValueAt(j, k)
      BY <2>2 DEF ValueAt
    <2> QED
      BY <2>1, <2>3
  <1>4. (\A i \in Slots : ~Holder(i, k)) => View[k] = Absent
    BY <1>1, <1>2
  <1> QED
    BY <1>3, <1>4

LEMMA ViewReadsNext == Inv' => ViewRead'
  BY ViewReads, PTL

(* A key keeps its value if each holder leaves one with the same value, and   *)
(* none appears.                                                              *)
LEMMA ViewKept ==
    ASSUME Inv, Inv', NEW k, k \in Keys,
           \A i \in Slots : Holder(i, k) =>
              \E j \in Slots : Holder(j, k)' /\ ValueAt(j, k)' = ValueAt(i, k),
           (\A i \in Slots : ~Holder(i, k)) => \A i \in Slots : ~Holder(i, k)'
    PROVE  View'[k] = View[k]
  <1>1. ViewRead /\ ViewRead'
    BY ViewReads, ViewReadsNext
  <1>2. CASE \E i \in Slots : Holder(i, k)
    <2>1. PICK i \in Slots : Holder(i, k)
      BY <1>2
    <2>2. PICK j \in Slots : Holder(j, k)' /\ ValueAt(j, k)' = ValueAt(i, k)
      BY <2>1
    <2>3. View[k] = ValueAt(i, k)
      BY <1>1, <2>1 DEF ViewRead
    <2>4. View'[k] = ValueAt(j, k)'
      BY <1>1, <2>2 DEF ViewRead
    <2> QED
      BY <2>2, <2>3, <2>4
  <1>3. CASE \A i \in Slots : ~Holder(i, k)
    <2>1. View[k] = Absent
      BY <1>1, <1>3 DEF ViewRead
    <2>2. \A i \in Slots : ~Holder(i, k)'
      BY <1>3
    <2>3. View'[k] = Absent
      BY <1>1, <2>2 DEF ViewRead
    <2> QED
      BY <2>1, <2>3
  <1> QED
    BY <1>2, <1>3

LEMMA ViewSame ==
    ASSUME Inv, Inv', \A k \in Keys : View'[k] = View[k]
    PROVE  View' = View
  <1>1. View = [k \in Keys |-> View[k]]
    BY ViewReads DEF ViewRead
  <1>2. View' = [k \in Keys |-> View'[k]]
    BY ViewReadsNext DEF ViewRead
  <1> QED
    BY <1>1, <1>2

LEMMA ViewExcept ==
    ASSUME Inv, Inv', NEW l, NEW w, l \in Keys, View'[l] = w,
           \A k \in Keys : k # l => View'[k] = View[k]
    PROVE  View' = [View EXCEPT ![l] = w]
  <1>1. View = [k \in Keys |-> View[k]]
    BY ViewReads DEF ViewRead
  <1>2. View' = [k \in Keys |-> View'[k]]
    BY ViewReadsNext DEF ViewRead
  <1> QED
    BY <1>1, <1>2

(* The value of a slot whose block stays as it was.                           *)
LEMMA SameBlockValue ==
    ASSUME NEW B, NEW i, NEW k, SlabInv(B), i \in Slots, k \in Keys,
           Live(i), SameBlock(i, slab'), offset'[i] = offset[i],
           len'[i] = len[i]
    PROVE  /\ Holder(i, k)' <=> Holder(i, k)
           /\ Holder(i, k) => ValueAt(i, k)' = ValueAt(i, k)
  <1>1. Holds(slab', offset[i], k) <=> Holds(slab, offset[i], k)
    BY SameBlockHolds
  <1>2. Live(i)'
    BY DEF Live
  <1>3. Holder(i, k)' <=> Holder(i, k)
    BY <1>1, <1>2 DEF Holder
  <1>4. ASSUME Holder(i, k) PROVE ValueAt(i, k)' = ValueAt(i, k)
    <2>1. PICK l \in Keys, v \in Values :
            /\ Holds(slab, offset[i], l)
            /\ len[i] = Len(v)
            /\ Room(l, v) <= slab[offset[i] + 1]
      BY LiveBlock
    <2>2. l = k
      BY <1>4, <2>1, OneKey DEF Holder
    <2>3. offset[i] \in Nat /\ slab[offset[i] + 1] \in Nat
      BY LiveBlock, BlockBounds
    <2>4. Len(k) \in Nat /\ Len(v) \in Nat
      BY Texts
    <2>5. PICK o, b, n, m : /\ o = offset[i] /\ b = slab[offset[i] + 1]
                            /\ n = len[i] /\ m = Len(k)
      OBVIOUS
    <2>6. 3 + m + n <= b /\ o \in Nat /\ b \in Nat /\ m \in Nat /\ n \in Nat
      BY <2>1, <2>2, <2>3, <2>4, <2>5, SlabNumbers DEF Room
    <2>7. ASSUME NEW x \in 1 .. n
          PROVE  slab'[o + HeaderSize + m + x - 1] = slab[o + HeaderSize + m + x - 1]
      <3>1. /\ o + HeaderSize + m + x - 1 \in Nat
            /\ o < o + HeaderSize + m + x - 1
            /\ o + HeaderSize + m + x - 1 < o + b
        BY <2>6, SlabNumbers
      <3> QED
        BY <2>5, <3>1 DEF SameBlock
    <2>8. ValueAt(i, k) = [x \in 1 .. n |-> slab[o + HeaderSize + m + x - 1]]
      BY <2>5 DEF ValueAt
    <2>9. ValueAt(i, k)' = [x \in 1 .. n |-> slab'[o + HeaderSize + m + x - 1]]
      BY <2>5 DEF ValueAt
    <2> QED
      BY <2>7, <2>8, <2>9
  <1> QED
    BY <1>3, <1>4

(* A step that leaves every live slot and its block alone.                    *)
LEMMA BlocksKept ==
    ASSUME Inv, Inv', offset' = offset, len' = len,
           \A i \in Slots : Live(i) => SameBlock(i, slab')
    PROVE  View' = View
  <1>1. PICK B : SlabInv(B)
    BY DEF Inv
  <1>2. ASSUME NEW k \in Keys PROVE View'[k] = View[k]
    <2>1. ASSUME NEW i \in Slots, Holder(i, k)
          PROVE  Holder(i, k)' /\ ValueAt(i, k)' = ValueAt(i, k)
      BY <1>1, <2>1, SameBlockValue DEF Holder
    <2>2. ASSUME NEW i \in Slots, Holder(i, k)' PROVE Holder(i, k)
      <3>1. Live(i)
        BY <2>2 DEF Holder, Live
      <3> QED
        BY <1>1, <2>2, <3>1, SameBlockValue
    <2> QED
      BY <2>1, <2>2, ViewKept
  <1> QED
    BY <1>2, ViewSame

(* A step that forgets one slot: its key loses its value, if it had one.      *)
LEMMA SlotForgotten ==
    ASSUME Inv, Inv', Continues, NEW i, i \in Slots, Live(i), ~Live(i)',
           \A j \in Slots \ {i} : Live(j)' <=> Live(j)
    PROVE  \E l \in Keys : View' = [View EXCEPT ![l] = Absent]
  <1>1. PICK B : SlabInv(B)
    BY DEF Inv
  <1>2. PICK l \in Keys : Holds(slab, offset[i], l)
    BY <1>1, LiveBlock
  <1>3. /\ slab' = slab /\ pc # "store"
        /\ \A j \in Slots : Live(j)' => /\ Live(j) /\ offset'[j] = offset[j]
                                        /\ len'[j] = len[j]
    BY DEF Continues, SlotsKept
  <1>4. ASSUME NEW j \in Slots, Live(j)', NEW k \in Keys
        PROVE  /\ Holder(j, k)' <=> Holder(j, k)
               /\ ValueAt(j, k)' = ValueAt(j, k)
    BY <1>3, <1>4 DEF Holder, ValueAt
  <1>5. \A j \in Slots \ {i} : ~Holder(j, l)
    BY <1>1, <1>2, <1>3 DEF SlabInv, KeysUnique, Alias, Holder
  <1>6. View'[l] = Absent
    <2>1. \A j \in Slots : ~Holder(j, l)'
      BY <1>4, <1>5 DEF Holder
    <2> QED
      BY <2>1, ViewReadsNext DEF ViewRead
  <1>7. ASSUME NEW k \in Keys, k # l PROVE View'[k] = View[k]
    <2>1. ~Holder(i, k)
      BY <1>2, <1>7, OneKey DEF Holder
    <2>2. ASSUME NEW j \in Slots, Holder(j, k)
          PROVE  Holder(j, k)' /\ ValueAt(j, k)' = ValueAt(j, k)
      <3>1. Live(j)'
        BY <2>1, <2>2 DEF Holder
      <3> QED
        BY <1>4, <2>2, <3>1
    <2>3. ASSUME NEW j \in Slots, Holder(j, k)' PROVE Holder(j, k)
      <3>1. Live(j)'
        BY <2>3 DEF Holder
      <3> QED
        BY <1>4, <2>3, <3>1
    <2> QED
      BY <2>2, <2>3, ViewKept
  <1> QED
    BY <1>6, <1>7, ViewExcept

(* The promotion: the main slot holds what the probationary one holds.        *)
LEMMA PromotionKeeps ==
    ASSUME Inv, Inv', SetPromoteMove
    PROVE  View' = View
  <1>1. PICK B : SlabInv(B)
    BY DEF Inv
  <1>2. PICK m, s : m = op.main /\ s = op.slot
    OBVIOUS
  <1>3. /\ m \in Slots /\ s \in Slots /\ m # s /\ Live(s) /\ ~Live(m)
        /\ offset' = [offset EXCEPT ![m] = offset[s]]
        /\ len' = [len EXCEPT ![m] = len[s]]
        /\ \A i \in Slots : Live(i) => SameBlock(i, slab')
    BY <1>1, <1>2, SetPromoteMoveStep DEF Inv
  <1>4. /\ offset \in [Slots -> Offsets \cup {invalid_offset}]
        /\ len \in [Slots -> 0 .. SlabSize]
    BY <1>1 DEF Inv, IInv, TypeOK, SlabInv, SlabTypes
  <1>5. /\ offset'[m] = offset[s]
        /\ \A i \in Slots : i # m => offset'[i] = offset[i] /\ len'[i] = len[i]
    BY <1>3, <1>4
  <1>6. ASSUME NEW k \in Keys PROVE View'[k] = View[k]
    <2>1. ASSUME NEW i \in Slots, Live(i)
          PROVE  /\ Holder(i, k)' <=> Holder(i, k)
                 /\ Holder(i, k) => ValueAt(i, k)' = ValueAt(i, k)
      <3>1. SameBlock(i, slab') /\ offset'[i] = offset[i] /\ len'[i] = len[i]
        BY <1>3, <1>5, <2>1
      <3> QED
        BY <1>1, <2>1, <3>1, SameBlockValue
    <2>2. \A i \in Slots : Holder(i, k)
             => Holder(i, k)' /\ ValueAt(i, k)' = ValueAt(i, k)
      BY <2>1 DEF Holder
    <2>3. ASSUME \A i \in Slots : ~Holder(i, k), NEW i \in Slots
          PROVE  ~Holder(i, k)'
      <3>1. CASE i # m
        <4>1. Live(i)' => Live(i)
          BY <1>5, <3>1 DEF Live
        <4> QED
          BY <2>1, <2>3, <4>1 DEF Holder
      <3>2. CASE i = m
        <4>1. ~Holder(s, k)'
          BY <1>3, <2>1, <2>3
        <4>2. offset'[m] = offset'[s]
          BY <1>3, <1>5
        <4> QED
          BY <3>2, <4>1, <4>2 DEF Holder, Live
      <3> QED
        BY <3>1, <3>2
    <2> QED
      BY <2>2, <2>3, ViewKept
  <1> QED
    BY <1>6, ViewSame

(* The end of a set() stores its pair and leaves the other keys alone.        *)
LEMMA EndFinishes ==
    ASSUME Inv, Inv', SetEnd
    PROVE  key \in Keys /\ View' = [View EXCEPT ![key] = value]
  <1>1. PICK B \in SUBSET Addresses : SlabInv(B)
    BY DEF Inv
  <1>2. PICK s, a, v, n : /\ s = op.slot /\ a = key /\ v = value
                          /\ n = op.new_offset
    OBVIOUS
  <1>3. /\ s \in Slots /\ a \in Keys
        /\ offset' = [offset EXCEPT ![s] = n]
        /\ len' = [len EXCEPT ![s] = Len(v)]
        /\ slab' = slab
        /\ pc = "store" \/ (op.existing /\ pc = "publish") \/ ~Live(s)
        /\ op.existing /\ Live(s) => Holds(slab, offset[s], a)
        /\ pc = "store" => Promoted
    BY <1>1, <1>2, SetEndStep DEF Inv
  <1>4. Live(s)' /\ Holds(slab', offset'[s], a) /\ ValueAt(s, a)' = v
    BY <1>2, EndStores
  <1>5. View'[a] = v
    BY <1>3, <1>4, ViewReadsNext DEF ViewRead, Holder
  <1>6. ASSUME NEW j \in Slots, j # s, NEW k \in Keys
        PROVE  /\ Holder(j, k)' <=> Holder(j, k)
               /\ ValueAt(j, k)' = ValueAt(j, k)
    <2>1. offset'[j] = offset[j] /\ len'[j] = len[j]
      BY <1>1, <1>3, <1>6 DEF Inv, IInv, TypeOK, SlabInv, SlabTypes
    <2> QED
      BY <1>3, <2>1 DEF Holder, ValueAt, Live
  <1>7. ASSUME NEW k \in Keys, k # a PROVE View'[k] = View[k]
    <2>1. ~Holder(s, k)'
      BY <1>3, <1>4, <1>7, OneKey DEF Holder
    <2>2. \A i \in Slots : Holder(i, k)' => Holder(i, k)
      BY <1>6, <2>1
    <2>3. ASSUME NEW i \in Slots, Holder(i, k)
          PROVE  \E j \in Slots : /\ Holder(j, k)'
                                  /\ ValueAt(j, k)' = ValueAt(i, k)
      <3>1. CASE i # s
        BY <1>6, <2>3, <3>1
      <3>2. CASE i = s
        <4>1. pc = "store"
          BY <1>3, <1>7, <2>3, <3>2, OneKey DEF Holder
        <4>2. PICK m : m = op.main
          OBVIOUS
        <4>3. /\ m \in Slots /\ m # s /\ Live(m)
              /\ offset[m] = offset[s] /\ len[m] = len[s]
          BY <1>2, <1>3, <4>1, <4>2 DEF Promoted
        <4>4. Holder(m, k) /\ ValueAt(m, k) = ValueAt(i, k)
          BY <2>3, <3>2, <4>3 DEF Holder, ValueAt
        <4> QED
          BY <1>6, <4>3, <4>4
      <3> QED
        BY <3>1, <3>2
    <2> QED
      BY <2>2, <2>3, ViewKept
  <1> QED
    BY <1>2, <1>3, <1>5, <1>7, ViewExcept

(* What a set() under way is for CacheSpec.                                   *)
Pending == IF pc = "idle" THEN Absent ELSE <<key, value>>

LEMMA PendingIs ==
    /\ pc # "idle" => Pending # Absent
    /\ pc # "idle" /\ pc' # "idle" /\ callVars' = callVars => Pending' = Pending
  <1>1. <<key, value>> # <<>>
    <2>1. Len(<<key, value>>) = 2 /\ Len(<<>>) = 0
      OBVIOUS
    <2> QED
      BY <2>1
  <1> QED
    BY <1>1 DEF Pending, Absent, callVars

(* Inside allocate(), up to the end that writes the block.                    *)
LEMMA AllocatorKeepsView ==
    ASSUME Inv, Inv',
           \/ AllocStart \/ AllocWrap \/ AllocFirst \/ AllocMerge
           \/ AllocEvictPending \/ AllocWrite
    PROVE  View' = View /\ Pending' = Pending
  <1>1. PICK B \in SUBSET Addresses : SlabInv(B)
    BY DEF Inv
  <1>2. IInv
    BY DEF Inv
  <1>3. pc = "allocate" /\ callVars' = callVars
    BY DEF AllocStart, AllocWrap, AllocFirst, AllocMerge, AllocEvictPending,
           AllocWrite, Scanning
  <1>4. ASSUME offset' = offset, len' = len, slab' = slab PROVE View' = View
    <2>1. \A i \in Slots : Live(i) => SameBlock(i, slab')
      BY <1>4 DEF SameBlock
    <2> QED
      BY <1>4, <2>1, BlocksKept
  <1>5. CASE AllocStart \/ AllocFirst \/ AllocMerge \/ AllocEvictPending
    <2>1. vars' = vars /\ len' = len
      BY <1>1, <1>2, <1>5, AllocStartStep, AllocFirstStep, AllocMergeStep,
         AllocEvictPendingStep
    <2>2. slab' = slab
      BY <1>5 DEF AllocStart, AllocFirst, AllocMerge, AllocEvictPending, slabVars
    <2>3. offset' = offset /\ pc' = pc
      BY <2>1 DEF vars, slotVars
    <2> QED
      BY <1>3, <1>4, <2>1, <2>2, <2>3, PendingIs
  <1>6. CASE AllocWrap
    <2>1. /\ vars' = vars /\ len' = len
          /\ \A i \in Slots : Live(i) => SameBlock(i, slab')
      BY <1>1, <1>2, <1>6, AllocWrapStep
    <2>2. offset' = offset /\ pc' = pc
      BY <2>1 DEF vars, slotVars
    <2> QED
      BY <1>3, <2>1, <2>2, BlocksKept, PendingIs
  <1>7. CASE AllocWrite
    <2>1. /\ AllocateReturns(write_ptr) /\ len' = len
          /\ \A i \in Slots : Live(i) => SameBlock(i, slab')
      BY <1>1, <1>2, <1>7, AllocWriteStep
    <2>2. offset' = offset /\ pc' # "idle"
      BY <2>1 DEF AllocateReturns, slotVars
    <2> QED
      BY <1>3, <2>1, <2>2, BlocksKept, PendingIs
  <1> QED
    BY <1>5, <1>6, <1>7

(* Each step of the shard is a step of the cache, or none.                    *)
LEMMA CacheStep ==
    ASSUME Inv, Inv', [CleanNext]_shardVars
    PROVE  [Cache!Next]_(Cache!vars)
  <1>1. PICK B \in SUBSET Addresses : SlabInv(B)
    BY DEF Inv
  <1>2. IInv /\ IInv'
    BY DEF Inv
  <1>3. ASSUME View' = View, Pending' = Pending
        PROVE  [Cache!Next]_(Cache!vars)
    BY <1>3 DEF Cache!vars, Pending
  <1>4. ASSUME pc # "idle", pc' # "idle", callVars' = callVars,
               NEW l \in Keys, View' = [View EXCEPT ![l] = Absent]
        PROVE  [Cache!Next]_(Cache!vars)
    <2>1. Pending # Absent /\ Pending' = Pending
      BY <1>4, PendingIs
    <2>2. CASE View[l] = Absent
      <3>1. View = [k \in Keys |-> View[k]]
        BY ViewReads DEF ViewRead
      <3>2. View' = View
        BY <1>4, <2>2, <3>1
      <3> QED
        BY <1>3, <2>1, <3>2
    <2>3. CASE View[l] # Absent
      <3>1. Cache!Forget(l)
        BY <1>4, <2>1, <2>3 DEF Cache!Forget, Pending
      <3> QED
        BY <3>1 DEF Cache!Next
    <2> QED
      BY <2>2, <2>3
  <1>5. CASE GetTouch
    <2>1. /\ offset' = offset /\ len' = len /\ slab' = slab /\ pc' = pc
          /\ callVars' = callVars
      BY <1>5 DEF GetTouch, Touch, slabVars
    <2>2. \A i \in Slots : Live(i) => SameBlock(i, slab')
      BY <2>1 DEF SameBlock
    <2> QED
      BY <1>3, <2>1, <2>2, BlocksKept DEF Pending, callVars
  <1>6. ASSUME NEW k \in Keys, NEW v \in Values, CleanSet(k, v), SetBegin(k, v)
        PROVE  [Cache!Next]_(Cache!vars)
    <2>1. /\ pc = "idle" /\ pc' = "allocate" /\ slotVars' = slotVars
          /\ len' = len /\ slab' = slab /\ key' = k /\ value' = v
      BY <1>1, <1>2, <1>6, SetBeginStep
    <2>2. \A i \in Slots : Live(i) => SameBlock(i, slab')
      BY <2>1 DEF SameBlock
    <2>3. View' = View
      BY <2>1, <2>2, BlocksKept DEF slotVars
    <2>4. Cache!Begin(k, v)
      BY <2>1, <2>3 DEF Cache!Begin
    <2> QED
      BY <2>4 DEF Cache!Next
  <1>7. CASE AllocStart \/ AllocWrap \/ AllocFirst \/ AllocMerge
             \/ AllocEvictPending \/ AllocWrite
    BY <1>3, <1>7, AllocatorKeepsView
  <1>8. CASE AllocEvictFirst \/ AllocEvictNext
    <2>1. PICK i \in Slots : /\ Live(i) /\ ~Live(i)'
                             /\ \A j \in Slots \ {i} : Live(j)' <=> Live(j)
      BY <1>1, <1>2, <1>8, AllocEvictStep
    <2>2. Continues
      BY <1>1, <1>2, <1>8, AllocEvictStep
    <2>3. PICK l \in Keys : View' = [View EXCEPT ![l] = Absent]
      BY <2>1, <2>2, SlotForgotten
    <2> QED
      BY <1>4, <2>2, <2>3 DEF Continues
  <1>9. CASE AllocFail
    <2>1. /\ pc = "allocate" /\ pc' = "idle" /\ slotVars' = slotVars
          /\ len' = len /\ slab' = slab
      BY <1>1, <1>2, <1>9, AllocFailStep DEF AllocateFails
    <2>2. \A i \in Slots : Live(i) => SameBlock(i, slab')
      BY <2>1 DEF SameBlock
    <2>3. View' = View
      BY <2>1, <2>2, BlocksKept DEF slotVars
    <2>4. /\ alloc.at = "start" /\ NeededLen > SlabSize - HeaderSize
          /\ key \in Keys /\ value \in Values
      BY <1>1, <1>2, <1>9, <2>1, NeverStuck, InAllocate DEF AllocFail
    <2>5. Cache!Fail
      BY <2>1, <2>3, <2>4 DEF Cache!Fail, Pending, NeededLen
    <2> QED
      BY <2>5 DEF Cache!Next
  <1>10. CASE SetIndexStep
    <2>1. Continues
      BY <1>1, <1>2, <1>10, SetIndexKeeps
    <2>2. offset' = offset /\ len' = len /\ slab' = slab
      BY <1>10 DEF SetIndexStep, slabVars, RebuildClear, RebuildInsert,
                   PlacePromote, SieveFound, SieveSkip, slotVars
    <2>3. \A i \in Slots : Live(i) => SameBlock(i, slab')
      BY <2>2 DEF SameBlock
    <2>4. View' = View
      BY <2>2, <2>3, BlocksKept
    <2>5. Pending' = Pending
      BY <2>1, PendingIs DEF Continues
    <2> QED
      BY <1>3, <2>4, <2>5
  <1>11. CASE SetEvictStep
    <2>1. PICK i \in Slots : /\ Live(i) /\ ~Live(i)'
                             /\ \A j \in Slots \ {i} : Live(j)' <=> Live(j)
      BY <1>1, <1>2, <1>11, SetEvictKeeps
    <2>2. Continues
      BY <1>1, <1>2, <1>11, SetEvictKeeps
    <2>3. PICK l \in Keys : View' = [View EXCEPT ![l] = Absent]
      BY <2>1, <2>2, SlotForgotten
    <2> QED
      BY <1>4, <2>2, <2>3 DEF Continues
  <1>12. CASE SetPromoteMove
    <2>1. pc = "promote" /\ pc' = "store" /\ callVars' = callVars
      BY <1>1, <1>2, <1>12, SetPromoteMoveStep
    <2> QED
      BY <1>3, <1>12, <2>1, PromotionKeeps, PendingIs
  <1>13. CASE SetEnd
    <2>1. pc' = "idle" /\ pc # "idle"
      BY <1>1, <1>2, <1>13, SetEndStep
    <2>2. View' = [View EXCEPT ![key] = value]
      BY <1>13, EndFinishes
    <2>3. Pending = <<key, value>> /\ Pending # Absent /\ Pending' = Absent
      BY <2>1, PendingIs DEF Pending
    <2>4. View' = [View EXCEPT ![Pending[1]] = Pending[2]]
      BY <2>2, <2>3
    <2>5. Cache!Finish
      BY <2>3, <2>4 DEF Cache!Finish, Pending
    <2> QED
      BY <2>5 DEF Cache!Next
  <1>14. CASE UNCHANGED shardVars
    <2>1. /\ offset' = offset /\ len' = len /\ slab' = slab /\ pc' = pc
          /\ callVars' = callVars
      BY <1>14 DEF shardVars, vars, slotVars, slabVars
    <2>2. \A i \in Slots : Live(i) => SameBlock(i, slab')
      BY <2>1 DEF SameBlock
    <2> QED
      BY <1>3, <2>1, <2>2, BlocksKept DEF Pending, callVars
  <1> QED
    BY <1>5, <1>6, <1>7, <1>8, <1>9, <1>10, <1>11, <1>12, <1>13, <1>14
    DEF CleanNext, SetStep

LEMMA CacheInit == ShardInit => Cache!Init
  <1> SUFFICES ASSUME ShardInit PROVE Cache!Init
    OBVIOUS
  <1>1. pc = "idle" /\ \A i \in Slots : ~Live(i)
    BY DEF ShardInit, Init, Live
  <1>2. ViewRead
    BY SlabInit, ViewReads
  <1>3. View = [k \in Keys |-> Absent]
    BY <1>1, <1>2 DEF ViewRead, Holder
  <1> QED
    BY <1>1, <1>3 DEF Cache!Init

-----------------------------------------------------------------------------
(* Values of one size need no rule for the environment.                       *)

SameRoom == \E room : \A k \in Keys, v \in Values : Room(k, v) = room

(* A block no longer than the one that does not fit behind write_ptr must     *)
(* begin before write_ptr.                                                    *)
LEMMA SameRoomClean ==
    ASSUME Inv, SameRoom, NEW k, NEW v, k \in Keys, v \in Values
    PROVE  CleanSet(k, v)
  <1>1. PICK B \in SUBSET Addresses : SlabInv(B)
    BY DEF Inv
  <1> SUFFICES ASSUME Room(k, v) > SlabSize - write_ptr,
                      NEW i \in Slots, Live(i)
               PROVE  offset[i] < write_ptr
    BY DEF CleanSet, Room
  <1>2. PICK l \in Keys, w \in Values : Room(l, w) <= slab[offset[i] + 1]
    BY <1>1, LiveBlock
  <1>3. Room(l, w) = Room(k, v)
    BY DEF SameRoom
  <1>4. /\ offset[i] \in Nat /\ slab[offset[i] + 1] \in Nat
        /\ offset[i] + slab[offset[i] + 1] <= SlabSize
    <2>1. offset[i] \in B /\ Tiles(B, slab)
      BY <1>1, LiveBlock
    <2> QED
      BY <1>1, <2>1, BlockBounds
  <1>5. Room(k, v) \in Nat /\ write_ptr \in Nat
    BY <1>1, Texts, SlabNumbers DEF SlabInv, Blocks
  <1> QED
    BY <1>2, <1>3, <1>4, <1>5, SlabNumbers

LEMMA SameRoomNext ==
    SameRoom => (Inv /\ [ShardNext]_shardVars => [CleanNext]_shardVars)
  BY SameRoomClean DEF ShardNext, CleanNext

-----------------------------------------------------------------------------
(* What holds whatever sets arrive, also when live blocks have been abandoned *)
(* behind a wrap and the headers no longer make sense: the numbers stay       *)
(* numbers, allocate() fits its block between write_ptr and the end, and the  *)
(* tail reclaim does nothing.                                                 *)
Loose ==
    /\ IInv
    /\ ReclaimIdle
    /\ slab \in [Addresses -> Nat]
    /\ write_ptr \in Nat
    /\ alloc \in [at : {"start", "wrap", "first", "scan"},
                  total : Nat, scan : Nat]
    /\ Phase # "allocate" => alloc = NoAlloc
    /\ Phase = "allocate" => key \in Keys /\ value \in Values
    /\ alloc.at # "start" => write_ptr <= SlabSize
    /\ alloc.at = "wrap" => NeededLen <= SlabSize - HeaderSize
    /\ alloc.at \in {"first", "scan"} => NeededLen <= SlabSize - write_ptr

(* A header written anywhere leaves numbers in the slab.                      *)
LEMMA HeaderIsNat ==
    ASSUME NEW mem \in [Addresses -> Nat], NEW o, NEW slot \in Nat,
           NEW block_len \in Nat, NEW key_len \in Nat
    PROVE  WithHeader(mem, o, slot, block_len, key_len) \in [Addresses -> Nat]
  <1> DEFINE m1 == [mem EXCEPT ![o] = slot]
             m2 == [m1 EXCEPT ![o + 1] = block_len]
  <1>1. m1 \in [Addresses -> Nat]
    OBVIOUS
  <1> HIDE DEF m1
  <1>2. m2 \in [Addresses -> Nat]
    BY <1>1
  <1> HIDE DEF m2
  <1>3. [m2 EXCEPT ![o + 2] = key_len] \in [Addresses -> Nat]
    BY <1>2
  <1> QED
    BY <1>3 DEF WithHeader, m1, m2

(* A step that leaves the allocator and the call alone.                       *)
LEMMA LooseKept ==
    ASSUME Loose, IInv', ReclaimIdle', slab' \in [Addresses -> Nat],
           write_ptr' = write_ptr, alloc' = alloc, callVars' = callVars,
           Phase' = Phase \/ (Phase # "allocate" /\ Phase' # "allocate")
    PROVE  Loose'
  <1>1. key' = key /\ value' = value /\ NeededLen' = NeededLen
    BY DEF callVars, NeededLen
  <1> QED
    BY <1>1 DEF Loose

(* What allocate() knows of the sizes.                                        *)
LEMMA LooseInAllocate ==
    ASSUME Loose, pc = "allocate"
    PROVE  /\ Phase = "allocate" /\ key \in Keys /\ value \in Values
           /\ NeededLen \in Nat /\ NeededLen >= 3
           /\ write_ptr \in Nat
           /\ alloc.total \in Nat /\ alloc.scan \in Nat
  <1>1. Phase = "allocate" /\ key \in Keys /\ value \in Values
    BY DEF Phase, Loose
  <1>2. NeededLen = Room(key, value)
    BY DEF NeededLen, Room
  <1> QED
    BY <1>1, <1>2, Texts DEF Loose

(* The start of allocate() marks nothing and moves nothing.                   *)
LEMMA LooseStart ==
    ASSUME Loose, AllocStart
    PROVE  vars' = vars /\ Loose'
  <1>1. pc = "allocate" /\ alloc.at = "start" /\ write_ptr \in 0 .. SlabSize
    BY SlabNumbers DEF AllocStart, Loose
  <1>2. reclaim_ptr' = reclaim_ptr /\ reclaim_offsets' = reclaim_offsets
    BY <1>1, NoReclaim DEF AllocStart, ReclaimIdle, Loose
  <1>3. /\ vars' = vars /\ slabVars' = slabVars /\ callVars' = callVars
    BY <1>2 DEF AllocStart, vars, indexVars, slotVars, ringVars, slabVars
  <1>4. /\ Phase' = Phase /\ slab' = slab /\ write_ptr' = write_ptr
        /\ key' = key /\ value' = value /\ NeededLen' = NeededLen
        /\ reclaim_ptr' = reclaim_ptr /\ reclaim_offsets' = reclaim_offsets
    BY <1>3 DEF Phase, vars, slotVars, slabVars, callVars, NeededLen
  <1>5. alloc' = [alloc EXCEPT !.at = IF NeededLen > SlabSize - write_ptr
                                        THEN "wrap" ELSE "first"]
    BY DEF AllocStart
  <1>6. /\ alloc' \in [at : {"start", "wrap", "first", "scan"},
                       total : Nat, scan : Nat]
        /\ alloc'.at \in {"wrap", "first"}
        /\ alloc'.at = "first" => ~(NeededLen > SlabSize - write_ptr)
    BY <1>5 DEF Loose
  <1>7. NeededLen \in Nat /\ Phase = "allocate"
    BY <1>1, LooseInAllocate
  <1>8. /\ alloc'.at = "first" => NeededLen <= SlabSize - write_ptr
        /\ NeededLen <= SlabSize - HeaderSize
    BY <1>1, <1>6, <1>7, SlabNumbers DEF AllocStart
  <1>9. IInv' /\ ReclaimIdle'
    <2>1. IInv'
      BY <1>3, StepInv DEF Loose
    <2> QED
      BY <1>4, <2>1 DEF Loose, ReclaimIdle
  <1> QED
    BY <1>1, <1>3, <1>4, <1>6, <1>7, <1>8, <1>9 DEF Loose

(* Nor has the wrap a slot to evict.                                          *)
LEMMA LooseWrap ==
    ASSUME Loose, AllocEvictPending \/ AllocWrap
    PROVE  vars' = vars /\ Loose'
  <1>1. pc = "allocate" /\ alloc.at = "wrap" /\ callVars' = callVars
    BY DEF AllocEvictPending, AllocWrap
  <1>2. /\ Phase = "allocate" /\ key \in Keys /\ value \in Values
        /\ write_ptr \in Nat /\ write_ptr <= SlabSize /\ alloc.scan \in Nat
        /\ NeededLen \in Nat
    BY <1>1, LooseInAllocate DEF Loose
  <1>3. vars' = vars
    <2>1. CASE AllocEvictPending
      <3>1. alloc.scan \in Slots
        BY <1>2, <2>1, SlabNumbers DEF AllocEvictPending, Slots
      <3> QED
        BY <2>1, <3>1 DEF AllocEvictPending, Loose, ReclaimIdle
    <2> QED
      BY <2>1 DEF AllocWrap
  <1>4. IInv'
    BY <1>3, StepInv DEF Loose
  <1>5. /\ Phase' = Phase /\ key' = key /\ value' = value
        /\ NeededLen' = NeededLen /\ reclaim_offsets' = reclaim_offsets
    BY <1>1, <1>3 DEF Phase, vars, slotVars, callVars, NeededLen
  <1>6. CASE AllocEvictPending
    <2>1. /\ slab' = slab /\ write_ptr' = write_ptr /\ reclaim_ptr' = reclaim_ptr
          /\ alloc' = [alloc EXCEPT !.scan = @ + 1]
      BY <1>6 DEF AllocEvictPending, slabVars
    <2>2. /\ alloc' \in [at : {"start", "wrap", "first", "scan"},
                         total : Nat, scan : Nat]
          /\ alloc'.at = "wrap"
      BY <1>1, <1>2, <2>1 DEF Loose
    <2>3. ReclaimIdle'
      BY <1>5, <2>1 DEF Loose, ReclaimIdle
    <2> QED
      BY <1>2, <1>3, <1>4, <1>5, <2>1, <2>2, <2>3 DEF Loose
  <1>7. CASE AllocWrap
    <2>1. /\ slab' = WithHeader(slab, write_ptr, invalid_slot_idx,
                                SlabSize - write_ptr, 0)
          /\ write_ptr' = 0 /\ reclaim_ptr' = invalid_offset
          /\ alloc' = [alloc EXCEPT !.at = "first", !.scan = 0]
      BY <1>7 DEF AllocWrap
    <2>2. slab' \in [Addresses -> Nat]
      BY <1>2, <2>1, HeaderIsNat, SlabNumbers DEF Loose
    <2>3. /\ alloc' \in [at : {"start", "wrap", "first", "scan"},
                         total : Nat, scan : Nat]
      BY <2>1 DEF Loose
    <2>4. ReclaimIdle'
      BY <1>5, <2>1 DEF Loose, ReclaimIdle
    <2>5. NeededLen <= SlabSize - HeaderSize
      BY <1>1 DEF Loose
    <2>6. NeededLen <= SlabSize - 0 /\ 0 <= SlabSize
      BY <1>2, <2>5, SlabNumbers
    <2> QED
      BY <1>2, <1>3, <1>4, <1>5, <2>1, <2>2, <2>3, <2>4, <2>6 DEF Loose
  <1> QED
    BY <1>3, <1>6, <1>7

(* Finding the first block, merging another, or writing the new one.          *)
LEMMA LooseScan ==
    ASSUME Loose, AllocFirst \/ AllocMerge
    PROVE  vars' = vars /\ Loose'
  <1>1. /\ pc = "allocate" /\ alloc.at \in {"first", "scan"}
        /\ vars' = vars /\ slabVars' = slabVars /\ callVars' = callVars
    BY DEF AllocFirst, AllocMerge, Scanning
  <1>2. IInv'
    BY <1>1, StepInv DEF Loose
  <1>3. /\ Phase' = Phase /\ slab' = slab /\ write_ptr' = write_ptr
        /\ key' = key /\ value' = value /\ NeededLen' = NeededLen
        /\ reclaim_ptr' = reclaim_ptr /\ reclaim_offsets' = reclaim_offsets
    BY <1>1 DEF Phase, vars, slotVars, slabVars, callVars, NeededLen
  <1>4. ReclaimIdle'
    BY <1>3 DEF Loose, ReclaimIdle
  <1>5. /\ write_ptr \in Nat /\ alloc.total \in Nat /\ alloc.scan \in Nat
        /\ NeededLen <= SlabSize - write_ptr /\ write_ptr <= SlabSize
    BY <1>1, LooseInAllocate DEF Loose
  <1>6. \A o \in Nat : InSlab(o) => Header(o).block_len \in Nat
    <2>1. \A o \in Nat : InSlab(o) => o + 1 \in Addresses
      BY SlabNumbers DEF InSlab, Addresses
    <2> QED
      BY <2>1 DEF Loose, Header
  <1>7. /\ alloc' \in [at : {"start", "wrap", "first", "scan"},
                       total : Nat, scan : Nat]
        /\ alloc'.at = "scan"
    <2>1. CASE AllocFirst
      <3>1. Header(write_ptr).block_len \in Nat
        BY <1>5, <1>6, <2>1 DEF AllocFirst
      <3> QED
        BY <1>5, <2>1, <3>1 DEF AllocFirst
    <2>2. CASE AllocMerge
      <3>1. Header(alloc.scan).block_len \in Nat
        BY <1>5, <1>6, <2>2 DEF AllocMerge, ScanGoesOn
      <3>2. PICK t \in Nat, u \in Nat :
              /\ t = alloc.total + Header(alloc.scan).block_len
              /\ u = alloc.scan + Header(alloc.scan).block_len
        BY <1>5, <3>1
      <3>3. alloc' = [alloc EXCEPT !.total = t, !.scan = u]
            /\ alloc.at = "scan"
        BY <2>2, <3>2 DEF AllocMerge, Scanning
      <3> QED
        BY <3>2, <3>3 DEF Loose
    <2> QED
      BY <2>1, <2>2
  <1> QED
    BY <1>1, <1>2, <1>3, <1>4, <1>5, <1>7, LooseInAllocate DEF Loose

LEMMA LooseWrite ==
    ASSUME Loose, AllocWrite
    PROVE  [Next]_vars /\ Loose'
  <1>1. /\ pc = "allocate" /\ alloc.at = "scan" /\ alloc.total >= NeededLen
        /\ AllocateReturns(write_ptr) /\ alloc' = NoAlloc
        /\ reclaim_ptr' = reclaim_ptr
    BY DEF AllocWrite
  <1>2. /\ key \in Keys /\ value \in Values /\ write_ptr \in Nat
        /\ NeededLen \in Nat /\ NeededLen >= 3 /\ alloc.total \in Nat
        /\ NeededLen <= SlabSize - write_ptr
    BY <1>1, LooseInAllocate DEF Loose
  <1>3. write_ptr \in Offsets
    BY <1>2, SlabNumbers DEF Addresses
  <1>4. Next
    BY <1>1, <1>3 DEF Next, AllocatorSteps
  <1>5. IInv'
    BY <1>4, StepInv DEF Loose
  <1> DEFINE rest == alloc.total - NeededLen
             block_len == IF Splits(rest) THEN NeededLen ELSE alloc.total
             own == WithHeader(slab, write_ptr, op.slot, block_len, Len(key))
             mem == IF Splits(rest)
                      THEN WithHeader(own, write_ptr + NeededLen,
                                      invalid_slot_idx, rest, 0)
                      ELSE own
  <1>6. /\ slab' = WithWords(mem, write_ptr + HeaderSize, key \o value)
        /\ write_ptr' = NextWrite(write_ptr + block_len)
    BY DEF AllocWrite
  <1>7. rest \in Nat /\ block_len \in Nat
    BY <1>1, <1>2
  <1>8. mem \in [Addresses -> Nat]
    <2>1. Len(key) \in Nat /\ op.slot \in Nat /\ invalid_slot_idx \in Nat
      BY <1>2, Texts, SlabNumbers DEF Loose, IInv, TypeOK
    <2> HIDE DEF rest, block_len
    <2>2. own \in [Addresses -> Nat]
      BY <1>7, <2>1, HeaderIsNat DEF Loose
    <2> HIDE DEF own
    <2> QED
      BY <1>7, <2>1, <2>2, HeaderIsNat
  <1>9. write_ptr' \in Nat
    BY <1>2, <1>6, <1>7 DEF NextWrite
  <1> HIDE DEF mem, rest, block_len, own
  <1>10. slab' \in [Addresses -> Nat]
    <2>1. \A n \in 1 .. Len(key \o value) : (key \o value)[n] \in Nat
      BY <1>2, PairWords
    <2> QED
      BY <1>6, <1>8, <2>1 DEF WithWords
  <1>11. /\ reclaim_offsets' = reclaim_offsets /\ Phase' # "allocate"
    BY <1>1 DEF AllocateReturns, slotVars, Phase
  <1>12. ReclaimIdle'
    BY <1>1, <1>11 DEF Loose, ReclaimIdle
  <1> QED
    BY <1>1, <1>4, <1>5, <1>9, <1>10, <1>11, <1>12 DEF Loose, NoAlloc

(* An eviction takes no mark away, for there is none.                         *)
LEMMA LooseEvict ==
    ASSUME Loose, NEW i \in Slots, NEW place, EvictSlot(i, place)
    PROVE  reclaim_offsets' = reclaim_offsets
  BY DEF EvictSlot, Loose, ReclaimIdle, Live

(* Every step of the shard, whatever the set that is under way.               *)
LEMMA LooseStep == Loose /\ [ShardNext]_shardVars => Loose'
  <1> SUFFICES ASSUME Loose, [ShardNext]_shardVars PROVE Loose'
    OBVIOUS
  <1>1. ASSUME Next, slab' = slab \/ slab' \in [Addresses -> Nat],
               reclaim_offsets' = reclaim_offsets, reclaim_ptr' = reclaim_ptr,
               write_ptr' = write_ptr, alloc' = alloc, callVars' = callVars,
               Phase' = Phase \/ (Phase # "allocate" /\ Phase' # "allocate")
        PROVE  Loose'
    <2>1. IInv'
      BY <1>1, StepInv DEF Loose
    <2>2. ReclaimIdle' /\ slab' \in [Addresses -> Nat]
      BY <1>1 DEF Loose, ReclaimIdle
    <2> QED
      BY <1>1, <2>1, <2>2, LooseKept
  <1>2. CASE GetTouch
    BY <1>1, <1>2 DEF GetTouch, Touch, Next, slabVars, Phase
  <1>3. ASSUME NEW k \in Keys, NEW v \in Values, SetBegin(k, v) PROVE Loose'
    <2>1. Next /\ pc = "idle" /\ pc' = "allocate"
      BY <1>3, Texts DEF SetBegin, SetNew, SetExisting, Next, SetBegins
    <2>2. /\ slab' = slab /\ write_ptr' = write_ptr /\ reclaim_ptr' = reclaim_ptr
          /\ reclaim_offsets' = reclaim_offsets /\ alloc' = alloc
          /\ key' = k /\ value' = v
      BY <1>3 DEF SetBegin, SetNew, SetExisting, slotVars, slabVars
    <2>3. IInv' /\ ReclaimIdle'
      BY <2>1, <2>2, StepInv DEF Loose, ReclaimIdle
    <2>4. Phase # "allocate" /\ alloc = NoAlloc
      BY <2>1 DEF Phase, Loose
    <2>5. Phase' = "allocate"
      BY <2>1 DEF Phase
    <2> QED
      BY <2>2, <2>3, <2>4, <2>5 DEF Loose, NoAlloc
  <1>4. CASE AllocStart \/ AllocWrap \/ AllocEvictPending \/ AllocFirst
             \/ AllocMerge \/ AllocWrite
    BY <1>4, LooseStart, LooseWrap, LooseScan, LooseWrite
  <1>5. CASE AllocEvictFirst \/ AllocEvictNext
    <2>1. PICK o : AllocEvict(o)
      BY <1>5 DEF AllocEvictFirst, AllocEvictNext
    <2>2. PICK i \in Slots : AllocateEvict(i)
      BY <2>1 DEF AllocEvict, IsSlotActive
    <2>3. Next /\ reclaim_offsets' = reclaim_offsets
      BY <2>2, LooseEvict DEF AllocateEvict, Next, AllocatorSteps
    <2>4. Phase' = Phase
      <3>1. /\ pc = "allocate" /\ op' = [op EXCEPT !.ret = "allocate"]
            /\ pc' \in {"rebuild", "allocate", "panic"}
        BY <2>2 DEF AllocateEvict, EvictSlot, GoTo
      <3>2. NoPanic'
        BY <2>3, StepInv DEF Loose, IInv
      <3>3. op'.ret = "allocate"
        BY <3>1 DEF Loose, IInv, TypeOK
      <3> QED
        BY <3>1, <3>2, <3>3 DEF Phase, NoPanic
    <2> QED
      BY <1>1, <2>1, <2>3, <2>4 DEF AllocEvict, slabVars
  <1>6. CASE AllocFail
    <2>1. /\ Next /\ pc' = "idle" /\ alloc' = NoAlloc
          /\ reclaim_offsets' = reclaim_offsets
          /\ slab' = slab /\ write_ptr' = write_ptr /\ reclaim_ptr' = reclaim_ptr
      BY <1>6 DEF AllocFail, AllocateFails, Next, AllocatorSteps, slotVars,
                  slabVars
    <2>2. IInv' /\ ReclaimIdle' /\ Phase' = "idle"
      BY <2>1, StepInv DEF Loose, ReclaimIdle, Phase
    <2> QED
      BY <2>1, <2>2 DEF Loose, NoAlloc
  <1>7. CASE SetIndexStep
    <2>1. /\ Next /\ reclaim_offsets' = reclaim_offsets
          /\ slab' = slab /\ write_ptr' = write_ptr /\ reclaim_ptr' = reclaim_ptr
          /\ alloc' = alloc /\ callVars' = callVars
      BY <1>7 DEF SetIndexStep, Next, IndexSteps, slabVars, slotVars,
                  RebuildClear, RebuildInsert, PlacePromote, SieveFound,
                  SieveSkip
    <2>2. Phase' = Phase \/ (Phase # "allocate" /\ Phase' # "allocate")
      <3>1. CASE RebuildClear \/ RebuildInsert
        <4>1. /\ pc \in {"rebuild", "reinsert"} /\ op'.ret = op.ret
              /\ pc' \in {"reinsert", op.ret}
          BY <3>1 DEF RebuildClear, RebuildInsert, Loose, IInv, TypeOK
        <4>2. op.ret \notin {"rebuild", "reinsert"}
          BY <4>1 DEF Loose, IInv, LocalsKnown, Phase
        <4> QED
          BY <4>1, <4>2 DEF Phase
      <3>2. CASE PlacePromote \/ SieveFound \/ SieveSkip
        BY <3>2 DEF PlacePromote, SieveFound, SieveSkip, Phase
      <3> QED
        BY <1>7, <3>1, <3>2 DEF SetIndexStep
    <2> QED
      BY <1>1, <2>1, <2>2
  <1>8. CASE SetEvictStep
    <2>1. PICK i \in Slots, place \in {"place", "promote"} :
            pc = place /\ EvictSlot(i, place)
      <3>1. CASE PlaceEvict
        BY <3>1 DEF PlaceEvict, Loose, IInv, TypeOK
      <3>2. CASE PromoteEvict
        <4>1. op.main \in Slots
          BY <3>2, SizeAssumption
          DEF PromoteEvict, Loose, IInv, LocalsKnown, Phase, MainRing, Slots
        <4> QED
          BY <3>2, <4>1 DEF PromoteEvict
      <3> QED
        BY <1>8, <3>1, <3>2 DEF SetEvictStep
    <2>2. Next /\ reclaim_offsets' = reclaim_offsets
      BY <1>8, <2>1, LooseEvict DEF SetEvictStep, Next, IndexSteps
    <2>3. Phase # "allocate" /\ Phase' # "allocate"
      <3>1. /\ op' = [op EXCEPT !.ret = place]
            /\ pc' \in {"rebuild", place, "panic"}
        BY <2>1 DEF EvictSlot, GoTo
      <3>2. op'.ret = place
        BY <3>1 DEF Loose, IInv, TypeOK
      <3> QED
        BY <2>1, <3>1, <3>2 DEF Phase
    <2> QED
      BY <1>1, <1>8, <2>2, <2>3 DEF SetEvictStep, slabVars
  <1>9. CASE SetPromoteMove
    <2>1. /\ PromoteMove /\ write_ptr' = write_ptr /\ reclaim_ptr' = reclaim_ptr
          /\ alloc' = alloc /\ callVars' = callVars
          /\ slab' = [slab EXCEPT ![offset[op.slot]] = op.main]
      BY <1>9 DEF SetPromoteMove
    <2>2. op.main \in Nat
      BY SizeAssumption DEF Loose, IInv, TypeOK, MainRing
    <2>3. slab' \in [Addresses -> Nat]
      BY <2>1, <2>2 DEF Loose
    <2>4. Next /\ reclaim_offsets' = reclaim_offsets
      BY <2>1 DEF Next, IndexSteps, PromoteMove
    <2>5. Phase # "allocate" /\ Phase' # "allocate"
      BY <2>1 DEF PromoteMove, GoTo, Phase
    <2> QED
      BY <1>1, <2>1, <2>3, <2>4, <2>5
  <1>10. CASE SetEnd
    <2>1. /\ Next /\ reclaim_offsets' = reclaim_offsets
          /\ slab' = slab /\ write_ptr' = write_ptr /\ reclaim_ptr' = reclaim_ptr
          /\ alloc' = alloc /\ pc' = "idle" /\ pc \in {"publish", "store", "place"}
      BY <1>10 DEF SetEnd, Next, IndexSteps, Publish, Store, slabVars
    <2>2. IInv' /\ ReclaimIdle'
      BY <2>1, StepInv DEF Loose, ReclaimIdle
    <2>3. Phase # "allocate" /\ Phase' # "allocate"
      BY <2>1 DEF Phase
    <2> QED
      BY <2>1, <2>2, <2>3 DEF Loose, NoAlloc
  <1>11. CASE UNCHANGED shardVars
    <2>1. IInv'
      BY <1>11, StepInv DEF Loose, shardVars
    <2>2. /\ reclaim_offsets' = reclaim_offsets /\ slab' = slab
          /\ write_ptr' = write_ptr /\ reclaim_ptr' = reclaim_ptr
          /\ alloc' = alloc /\ callVars' = callVars /\ Phase' = Phase
      BY <1>11 DEF shardVars, vars, slotVars, slabVars, Phase
    <2> QED
      BY <2>1, <2>2, LooseKept DEF Loose, ReclaimIdle
  <1> QED
    BY <1>2, <1>3, <1>4, <1>5, <1>6, <1>7, <1>8, <1>9, <1>10, <1>11
    DEF ShardNext, SetStep

LEMMA LooseInit == ShardInit => Loose
  <1> SUFFICES ASSUME ShardInit PROVE Loose
    OBVIOUS
  <1>1. IInv
    BY InitInv DEF ShardInit
  <1>2. /\ ReclaimIdle /\ write_ptr = 0 /\ alloc = NoAlloc /\ Phase = "idle"
    BY DEF ShardInit, Init, ReclaimIdle, Phase
  <1>3. slab \in [Addresses -> Nat]
    BY SlabInit DEF Inv, SlabInv, SlabTypes
  <1> QED
    BY <1>1, <1>2, <1>3 DEF Loose, NoAlloc

-----------------------------------------------------------------------------
(* What the shard guarantees.                                                 *)

(* Type correctness: every address, length and local of allocate() stays in   *)
(* range.                                                                     *)
THEOREM ShardTypesHold == CleanSpec => []ShardTypeOK
  BY SlabHolds, TypesFollow, PTL

(* The blocks that allocate() writes, merges and splits always tile the slab, *)
(* and write_ptr stands at the start of one of them.                          *)
THEOREM SlabTiled == CleanSpec => []Tiling
  BY SlabHolds, TilingFollows, PTL

(* The block of a live slot is one of those, names its slot, and is as long   *)
(* as what get() copies from it.                                              *)
THEOREM LiveSlotsOwn == CleanSpec => []LiveBlocksOwned
  BY SlabHolds, TilingFollows, PTL

(* Between sets lookup() finds a key exactly where its block is, and no key   *)
(* has two.                                                                   *)
THEOREM LookupIsExact == CleanSpec => []IndexFindsKey
  BY SlabHolds, FindsFollow, PTL

(* The loop of allocate() that merges blocks always finds another header      *)
(* inside the slab, of a block that has a length: SlabCorrupted is not        *)
(* returned.                                                                  *)
THEOREM NeverCorrupted == CleanSpec => [](Scanning => ScanGoesOn /\ ~ScanStuck)
  <1>1. Inv => (Scanning => ScanGoesOn /\ ~ScanStuck)
    BY NeverStuck DEF Inv
  <1> QED
    BY <1>1, SlabHolds, PTL

(* Whatever sets arrive: precleanTail(), finishTailReclaim() and              *)
(* evictPendingSlabBlocks() never have anything to do.  reclaim_ptr keeps the *)
(* largest u32, which is past the slab, and no slot is ever marked.           *)
THEOREM TailReclaimIdle == ShardSpec => []ReclaimIdle
  <1>1. Loose => ReclaimIdle
    BY DEF Loose
  <1> QED
    BY <1>1, LooseInit, LooseStep, PTL DEF ShardSpec

(* A set() that has returned is seen by the next lookup of its key.           *)
THEOREM WritesAreRead == CleanSpec => ReadYourWrite
  BY SlabHolds, WriteSeen, PTL DEF CleanSpec, ReadYourWrite

(* The shard is the cache of CacheSpec: it may forget, but it shows no value  *)
(* other than the last one stored.                                            *)
THEOREM ShardIsCache == CleanSpec => ImplementsCache
  <1>1. Inv /\ Inv' /\ [CleanNext]_shardVars => [Cache!Next]_(Cache!vars)
    BY CacheStep
  <1> QED
    BY <1>1, SlabHolds, CacheInit, PTL DEF CleanSpec, ImplementsCache, Cache!Spec

(* With pairs of one size the environment's rule holds by itself, and all of  *)
(* the above is true of the shard as the code has it.                         *)
THEOREM OneSizeIsClean == ASSUME SameRoom PROVE ShardSpec => CleanSpec
  <1>1. Inv /\ [ShardNext]_shardVars => [CleanNext]_shardVars
    BY SameRoomNext
  <1>2. Inv /\ [CleanNext]_shardVars => Inv'
    BY SlabStep
  <1> QED
    BY <1>1, <1>2, SlabInit, PTL DEF ShardSpec, CleanSpec

THEOREM OneSizeIsCache == ASSUME SameRoom PROVE ShardSpec => ImplementsCache
  BY OneSizeIsClean, ShardIsCache, PTL
=============================================================================

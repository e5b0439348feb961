# Verification of Caeneus

Caeneus is an in-process cache: `Engine` routes a key by its hash to one of a
power-of-two number of shards; a shard is an open-addressing index, a fixed
array of slots managed by SIEVE, and a ring-shaped slab that holds headers,
keys and values. Writers of a shard are serialised by a ticket lock. Readers
take no lock: they copy a value out and accept the copy if the shard's
sequence number has not moved. C, Python, Node and Go bindings sit on top.

This directory holds TLA+ models of that code, the TLC runs that check them on
small instances, and theorems proved with TLAPS for instances of any size.
Paths below are relative to the repository root.

## Inventory

| Part | State it keeps | Operations | What is hard about it |
|---|---|---|---|
| Ticket lock, `src/common.zig` | `next_ticket`, `now_serving` (u32, wrapping) | `lock`, `unlock` | any interleaving of callers, the wrap, starvation |
| Index and slots, `src/shard.zig` | `table`, `index_positions`, `tombstones`, `hashes`, `metadata` | insert, update, delete, rebuild, `evictSlot` | two copies of one relation; a rebuild can start inside an eviction inside an allocation; probe loops that end only at an empty entry |
| SIEVE, `src/shard.zig` | `visited`, `hand`, `probationary_head` | `sieveEvict`, promotion | readers set bits while the writer clears them; a late bit lands on a slot that has changed hands |
| Slab allocator, `src/slab.zig` | `buffer`, `write_ptr`, `reclaim_ptr`, `reclaim_offsets` | `allocate` and its tail reclaim | the same bytes are header, key or value depending on who looks; wraps, splits, merges, errors after evictions |
| `Shard.set` | all of the above | one call under the lock | what `lookup` found can be evicted by the `allocate` that follows |
| `Shard.get` | `seq` | ten optimistic attempts, then the lock | every load races with every store of a set |
| `Engine`, `src/engine.zig` | `shards` | routing, `getRequiredLen`, `init` | a second lookup after the first; allocation failure half-way |
| C ABI, `src/ffi.zig` | the handle | init, deinit, set, get | probe for a length, then read: two calls, one intention |
| CPython extension, `ext/python/caeneusmodule.c` | per object `handle`, `active_calls`, `concurrent_mode`, `gil_probe`; per thread a free list of two bytes objects and `my_get_capacity` | get, get_into, set, close, dealloc, `__init__` | `close` against running calls with the GIL released; bytes objects written to again when nobody refers to them |
| Node binding, `ext/node` | `handle`, `closed`, scratch buffer, cached view, string storage, two references | get, getInto, set, close, two finalizers | views into memory that the next call reuses; two text encodings; four ways in which native memory goes |
| Go client, `ext/go/caeneus.go` | the handle | Get, Set, Close | none of its own |
| Native library installers | files on disk | download, verify, stage | interruption between two files |
| Statistics, CLI, benchmarks, build, CI | none that the cache decides on | | |

Shards share nothing, so one shard is modelled. Within a shard the parts meet
in `set`: it takes the ticket lock, makes `seq` odd, looks the key up, calls
`allocate` (which calls back into the shard: `isSlotActive`, `evictSlot`,
`markSlabBlockPending`, `evictPendingSlabBlocks`), moves slots and index
entries, and makes `seq` even. `get` loads all of it with no lock and sets a
`visited` bit at the end.

What makes each part correct: the lock excludes and serves in order of
arrival; index and slots never disagree, so that the three panics are
unreachable, probes end, and every live slot is found; the slab is tiled by
blocks and every live slot owns one; the shard as a whole is a map that may
forget but never lies; a `get` beside a `set` returns something that was true.
The bindings must free an engine once, after the last call in it and not later
than its owner goes, and must hand out the value they read, whole, in memory
that stays what it was for as long as they promise.

## Modules

| Module | What it is |
|---|---|
| `TicketLock` | `lock()` as its `fetchAdd` and the load that ends the wait, `unlock()`; the mapping to `FifoLock` |
| `FifoLock` | the promise: a queue, first come first served |
| `TicketLockProofs` | theorems about `TicketLock` |
| `ShardIndex` | index table, slot offsets and SIEVE, one action per step of a `set` |
| `ShardIndexProofs` | theorems about `ShardIndex` |
| `Shard` | `ShardIndex` with the real allocator over a word-level slab |
| `CacheSpec` | the promise of a shard: a map that may forget |
| `MCShard` | keys and values for `Shard` |
| `ShardProofs` | theorems about `Shard`, among them that it implements `CacheSpec` |
| `Seqlock` | `get` load by load against `set` store by store |
| `MCSeqlock` | values for `Seqlock` |
| `SeqlockProofs` | theorems about `Seqlock` |
| `PyCalls` | a Python `Cache` object: calls, the GIL, `close`, dealloc, `__init__` |
| `PyCache` | `PyCalls` with `get`, its free list of bytes objects, `set` and `get_into` |
| `PyCallsProofs`, `PyCacheProofs`, `PyFreelistProofs` | theorems about them |
| `NodeCache` | a JavaScript `Cache` over either of its two addons |
| `MCNodeCache` | keys with their encodings, and values, for `NodeCache` |
| `NodeCacheProofs` | theorems about `NodeCache` |

Operators whose name begins with `Mutant` are faulty variants of the operator
that follows; nothing refers to them. Each is a bug the named property
detects, which shows that the property is not satisfied by any model at all.

### TicketLock

State: the two counters, each thread's `my_ticket`, and where the thread is.
Spinning and yielding change nothing, so they are stuttering. `TicketMod`
stands for 2^32. The only assumption is that there are no more threads than
ticket values.

### ShardIndex

`pc` says at which point the `set` that holds the lock stands, `op` holds its
locals. `EvictSlot` is `evictSlot` with `deleteIndexMap`; when the tombstones
reach the threshold, the rebuild runs as further steps (`RebuildClear`, then
one `RebuildInsert` per slot) and returns to `op.ret`, because readers look at
the table meanwhile and `EmptyEntryExists` and `ProbeChains` speak of those
moments too. `sieveEvict` is one step per turn of its loop. `GoTo` sends
control to `"panic"` where the code calls `std.debug.panic`.

What slab.zig decides is left open: any slot may be evicted or marked during
`allocate`, any offset or an error may come back. So what holds here holds
whatever the slab does, also when its blocks are corrupt. What a key comparison
says is left open too: a `set` may find any slot listed under its hash, or none.

`Touch(i)` is a reader's late `visited.setAtomic`. It can hit any slot at any
moment, because a reader holds nothing after its sequence check.

### Shard

Extends `ShardIndex`; the open choices are replaced by `allocate`: `AllocStart`
(size check, `precleanTail`, scan of `finishTailReclaim`), `AllocEvictPending`
(one slot of `evictPendingSlabBlocks`), `AllocWrap`, then eviction of the first
block's owner, the merging loop, and `AllocWrite`, which writes headers, key and
value. The unit is the 4-byte word to which block lengths are aligned; a header
is three words. Lookups read headers and keys from the slab at whatever offset
a slot names, so a slot that points into somebody else's block behaves as in
the program. Key and value words are different from header words of a sane
block (`SlabAssumption`); content that imitates a header is not modelled. The
allocator reads and writes headers without checking that they lie inside the
buffer; where one would not (`InSlab`), the model stops. With the sets of
`CleanSpec` it does not come to that: `SetTerminates` would fail, and for the
merging loop `NeverCorrupted` proves it.

`ImplementsCache` maps the shard to `CacheSpec`: the value under a key is what
the slot whose block holds the key says, without the help of the index;
`IndexFindsKey` adds that the index finds exactly that slot. An empty value
counts as no value, as on the lock-free path of `get`. In `CacheSpec` a `set`
ends by storing exactly its own pair, or, if the pair is larger than any block,
by storing nothing; only a `set` under way may make the map forget.

What a `get` changes is a visited bit, at any slot and any moment, also in the
middle of a `set` (`GetTouch`): on the lock-free path the bit is set after the
sequence check, when the slot may have changed hands, and on the fallback before
the buffer is measured. What a `get` reads is `LookupHit` and `ValueAt` of a
moment between sets, and `Seqlock` is the reason why it may be taken so.

### Seqlock

The cells a `get` reads (`seq`, the index entry, the metadata, header and words
of the blocks) are loaded one per step, in the order of `Shard.get`, while a
`set` makes its stores one per step. One slot, listed under the hash of every
key, and two blocks are enough for each kind of confusion: a value overwritten
in place, a slot that changes its key, an entry removed and put back, a block
reused while it is copied. The ticket lock appears as `holder`.

With `Weak = TRUE` a store may overtake earlier ones unless it is a release
store, and `seq2` may be loaded before the copy is finished: what the memory
orders in the code permit on the aarch64 targets of `tools/native-targets.json`.
This is a subset of the permitted reorderings. With `Weak = FALSE` loads and
stores happen in program order, as on x86-64.

`seen` and `committed` are not in the code: they record which values the key
had since the `get` began. `GetLinearizable` asks for one that explains the
result of a `get` that needed no lock, `LockedLinearizable` for one that explains
the result of a `get` that fell back to it. An empty value explains a miss and
not a hit: `ext/go/client_test.go:134` says that it is treated as absent on read
(finding 5). `committed` changes with the last store of a set.

### PyCalls and PyCache

Python code runs with the GIL, so what a thread does between taking the GIL and
giving it up is one action; a call of the engine begins and ends in actions of
its own, whether it keeps the GIL (`"held"`: nobody else runs Python code, but
calls that have released it go on) or not (`"released"`). `GilFree` guards
every action that needs the GIL. `ShortCall` is a call up to `gil_threshold`,
`LongCall` one beyond, with the decision of `should_release_gil`. `close` and
dealloc are `CloseBegins` or `Dealloc` (the handle is taken away), `WaitEnds`
(the load that ends the loop of `wait_for_native_calls`), `DeinitBegins` and
`DeinitEnds`. Python code is assumed to call `__init__` on an object only when
no call on it is under way.

`PyCache` gives each call its purpose (`job`). `get` of one thread, `Reader`, is
followed through its fast path (an object of the list that nobody refers to),
the first read of the fallback, and the attempts that follow when the value is
larger; the other threads change the value between any two of them, close and
re-open. The free list is thread-local, so one list is enough. A bytes object is
its allocated size, the capacity the extension notes for it, its `ob_size`, and
whether a caller refers to it. The three copies of the get code (ASCII key fast
path, generic key, `do_unicode_get`) do the same and are one here. Results that
the list does not keep are nobody's business afterwards and are dropped.

`PyCache` extends `PyCalls`, and `ImplementsCalls` proves that each of its steps
is one of `PyCalls` or leaves the object alone: the life-cycle theorems are
proved once, over nine actions, and hold for the whole.

### NodeCache

JavaScript runs one call at a time, so a call is an action. `runtime` chooses the
addon: `"node"` is `binding_fast.cpp`, where V8 may take the fast path for a
one-byte string and takes the slow one otherwise; `"bun"` is `binding.cpp`. A key
is a value with two encodings, `Latin1` and `Utf8`. A value has a length; `view`
records which view the caller holds and what `get` read into it, `content` what
each scratch buffer holds, and a scratch buffer is named by its size, since it is
replaced only by a larger one. Reading a string on Bun (`Stops`,
`ReadCapacity`, `SizeAfter`) is arithmetic over the capacity and the size the
storage was left with; a refused string leaves larger storage behind, so that
the same string may be accepted later, as in the code.

Garbage collection is `CollectCache` (the finalizer of the wrapper or external)
and `CollectScratch` (the free callback of the Node.js scratch Buffer); `Exit` is the
teardown of the environment, which calls what has not been called. The struct of
`binding_fast.cpp` contains the bytes of its scratch Buffer, so `FreeScratch`
deletes it and `FinalizeFast` must not.

## Runs

| Run | Result | States | What it shows |
|---|---|---|---|
| `ticket_lock` | pass | 364 | exclusion, the window of tickets, no starvation, refinement of `FifoLock` |
| `index_core` | pass | 297 000 | no panic, index and slots agree, probes end and reach, tombstones counted, an empty entry always remains, every set returns |
| `shard_clean` | pass | 165 000 | with values of sizes 0, 1, 3 and too large: tiling, ownership, the index, refinement of `CacheSpec`, read-your-write, every set returns |
| `shard_stale` | violation | | without the restriction of `shard_clean`: read-your-write fails (finding 1) |
| `seqlock` | pass | 1 900 000 | every lock-free result is linearizable in program order, also of empty values |
| `seqlock_empty` | violation | | an empty value is absent for a lock-free `get` and a hit for one that falls back (finding 5) |
| `seqlock_locked` | pass | 395 000 | with reordering: locked results are linearizable, every `get` returns |
| `seqlock_weak` | violation | | with reordering: a lock-free `get` returns what its key never had (finding 2) |
| `py_cache` | pass | 395 000 | no engine freed under a call, leaked or freed twice; `close` returns; no result written to, overrun or longer than its value |
| `py_value` | violation | | `get` returns a value cut short (finding 3) |
| `node` | pass | 203 000 | the last view shows the last `get`, hits are the latest value, memory is released once and in order, and is released |
| `node_keys` | violation | | a key outside ASCII is two entries on Node.js (finding 4) |

Bounds, and why they are enough:

* `ticket_lock`: three threads (holder, next, one more to be overtaken) on
  counters of three values, so that the counters wrap in every long behaviour
  and all ticket values can be in use at once.
* `index_core`: one probationary and two main slots in a table of eight with a
  threshold of two. That is the least that has a sieve with a choice, a
  promotion that evicts, and rebuilds inside allocations and inside promotions.
  Hashes 0 and 6: chains collide with each other and wrap around the table. The
  code's tables are larger and emptier; the ratio of slots to entries is the
  code's (`TableAssumption`). One offset suffices because offsets only compare
  as equal or invalid here.
* `shard_clean`: two keys, two slots, 12 words; sizes 4, 5, 7 and 11 words, so
  that allocations split, merge two blocks, absorb a rest of one or two words,
  end exactly at the end of the slab, wrap, and are refused.
* `shard_stale`: three keys, values of one and of three words, and 11 words, which
  is the least that shows the violation.
* `TailThreshold` and `ReclaimBudget` stand for 128 KiB and 16 KiB.
* `Seqlock`: `MaxSets = 3` (one to overwrite and one to fail each of
  `MaxAttempts = 2` attempts; the code has ten, and attempts do not differ),
  `SeqMod = 8` starting at 6, so that `seq` wraps inside the run. One reader:
  readers write nothing that another reader's result depends on. `seqlock` uses
  symmetry of keys and of blocks, which the safety properties do not tell
  apart; `seqlock_locked` checks liveness and uses none.
* `py_cache`, `py_value`: two threads, the one whose `get` is followed and one
  that does everything else; the proofs cover any number. One engine address,
  so that a re-opened object gets the address just freed. Lengths 1 to 3 with
  `GilThreshold = 1`, `ProbedGet = 2` and `MaxFreelistCapacity = 2` put one length
  on each side of every comparison; `StackSize = 1` makes the stack too small
  for two of them. `ProbePeriod = 2` stands for 1024, `MaxAttempts = 1` for 8:
  an attempt that is neither first nor last does not differ from the others.
* `node`: an ASCII key and one of two-byte characters; lengths 1, 2, 3 and 72
  against scratch buffers of 1 (Bun, growing to 3 at most) and 2 (Node.js), so
  that values fit, make the buffer grow, and are refused. With `MinCapacity = 1`
  a string of 72 is refused by eight attempts from fresh storage and accepted
  afterwards. `node_keys`: one key of one-byte characters outside ASCII.

### The restriction in shard_clean

`CleanSpec` admits a set only if the wrap it may cause leaves no live block
behind `write_ptr`. The code has no such rule: it relies on the tail reclaim,
which never runs (finding 1). The run therefore answers the question whether
anything else in the allocator is wrong. With pairs of one size no
restriction is needed, because such blocks leave only a free rest at the wrap:
that is proved for every configuration (`OneSizeIsClean`, `OneSizeIsCache`).

### Fairness

A thread inside the lock goes on (`WF` of the steps of a set and of a get):
nothing in the critical section blocks. A thread waiting for the lock gets it:
in `Seqlock` this is strong fairness of `LockedGet`, justified by
`NoStarvation` and `ImplementsFifo` of `TicketLock`, where only weak fairness
of the hand-over is assumed. Nobody is obliged to begin an operation. No
fairness is assumed of readers' visited bits: `SetTerminates` holds while
readers set them as fast as they like, which is the purpose of the full-lap
rule in `sieveEvict`. `GetTerminates` is about finitely many sets: with an
endless supply a reader may find `seq` odd at every look, and the code gives
it no bound (`shard.zig:231`).

In `PyCache` each thread has weak fairness of `Progress`: the engine returns (which
is what `GetTerminates` and `SetTerminates` say of it), the loop of `close` looks again, and
a thread that wants the GIL gets it once it stays free to take. Weak fairness is
enough because the handle is gone during the wait, so that calls end and none
begins: only that makes the GIL stay free. Nobody is obliged to begin a call.
In `NodeCache` only the garbage collector is fair: what JavaScript cannot reach
is collected some day. JavaScript engines do not promise this, so
`ReleasedEventually` reads: nothing in the bindings keeps memory from being
collected. `CHECK_DEADLOCK FALSE` in its configurations: the environment ends.

## Findings

1. **The tail reclaim never runs** (`src/slab.zig:141-164`, run `shard_stale`).
   `reclaim_ptr` begins as `invalid_offset`, larger than any offset;
   `precleanTail` leaves such a pointer alone, `finishTailReclaim` scans
   nothing, and the wrap sets it to `invalid_offset` again. A wrap thus covers
   the tail with one free block while slots still point into it. When the
   space is used again, those slots are not evicted, because the headers that
   named them are gone. If a new block begins at the same offset, two slots
   name one block; a set through the wrong one leaves two slots that hold the
   same key, and after an index rebuild changes the order of the probes, a get
   after a set returns the older value. In the counterexample three keys and
   values of one and three words are enough. With values of one size nothing
   happens, which is how the tests use the cache.
2. **The lock-free read is not ordered on aarch64** (`src/shard.zig:282`, `323`,
   run `seqlock_weak`). A compiler barrier and an acquire load do not keep the
   earlier copy before the load of `seq2`; a seq_cst store does not keep later
   plain stores behind it. A value the key never had, such as a word of the new one
   under the length of the old one, can pass the check.
3. **A result of `get` can be cut short** (`ext/python/caeneusmodule.c:642-646`,
   `675-679`, `747-751`, `785-789`, run `py_value`). The fast path reads into a
   bytes object of the list and shrinks it to the value when the value is
   shorter than the object's capacity; when the value fills the capacity it
   leaves `ob_size` alone, which may still be that of a shorter value read
   before. A `get` of a long value, one of a short one, and one of a long one again,
   served by the same object, are enough: the third result has the length of
   the second. `acquire_get_output` (240), on the other path, restores the size.
   `GetReturnsPrefix` holds: results are never too long.
4. **Keys outside ASCII on Node.js** (`ext/node/binding_fast.cpp:264`, run
   `node_keys`). V8 hands the fast path a one-byte string as Latin-1; the slow path
   reads it as UTF-8. A key such as "é" set from a Buffer on the fast path and
   from a string on the slow one is two entries, and a `get` after both returns
   whichever its own path names. `binding.cpp` takes care of this (129-166).
5. **An empty value is absent or not, depending on contention**
   (`src/shard.zig:296-314`, run `seqlock_empty`). "A zero-length value is treated
   as absent on read", says `ext/go/client_test.go:134`, and the lock-free path
   does so (248). The fallback does not look at the length: a `get` of an empty
   value whose attempts have all failed returns a hit of length 0.

With two probationary slots, simulation of `Shard` also shows finding 1
damaging the slab itself: promoting a slot whose abandoned block was
overwritten rewrites what is no longer a header, and `Tiling` fails. That
instance is too large for an exhaustive run.

## Proofs

`TicketLockProofs`, for any finite set of threads and any counter with a value
for each (`ThreadsAssumption`, `TicketAssumption`):

* `TypeCorrect`; `TicketsFormWindow`; `MutualExclusionHolds`.
  Mutual exclusion is not inductive: it follows from distinct tickets, which
  are distinct because they fill the window from `now_serving` to
  `next_ticket`, which holds one ticket per holder. `TicketWindow` says that
  and is inductive together with `TypeOK`. The cardinality of the set of
  holders and arithmetic modulo `TicketMod` are lemmas of their own.
* `FirstComeFirstServed`: the safety part of the refinement of `FifoLock`. The queue
  of the abstract lock is not in the code; the mapping orders the holders by the
  distance of their ticket from `now_serving` (`Ahead`). `TicketWindow` says that
  the distances are distinct and below the number of holders, `PlacesTaken` that
  each of them occurs, so that together they number the holders (`QueueOrdered`),
  and that whoever is inside has distance 0 (`HeadIsInside`). A draw then appends
  to the queue, an entry leaves it, and `unlock` moves everyone up by one, across
  the wrap of either counter.

`ShardIndexProofs`, for any numbers of slots, any table, hashes and offsets
(`SizeAssumption`), and any behaviour of the slab:

* `TypeCorrect`, `PositionsConsistent` (the table and `index_positions` are
  inverse), `LiveSlotsIndexed`, `PanicsUnreachable`, `ProbesReachSlots`.
  The inductive invariant joins these with what a set knows at each point: that
  the slot being promoted is live and indexed, that its target is in the main
  ring and is another slot, and where a rebuild may return to. The panics are
  unreachable because a live slot's position points back at it. Reachability by
  probing is preserved by deletion because a tombstone is not empty, by
  insertion because it takes an entry that is no further than the first empty
  one, and by the rebuild because it begins with an empty table.

* `TombstoneCountExact` (`TombstonesCounted`) and `ProbesEnd`
  (`EmptyEntryExists`). `TombstonesCounted` says that the counter is exact and
  below the threshold, except that it may equal it when the rebuild is the very
  next step; a second invariant, `CountInv`, adds that one slot has then just left
  the index. Entries are then of three kinds, at most `TotalSlots`
  listed ones, at most `Threshold` tombstones, and the empty ones, and a table
  of 10/6 the size of the slots (`TableAssumption`) has one more entry than the
  first two together.

`ShardProofs`, for any slab size, any slots and table, and any keys and values
(`SlabAssumption` with those of `ShardIndex`):

* Of `CleanSpec`: `ShardTypesHold` (`ShardTypeOK`), `SlabTiled` (`Tiling`), `LiveSlotsOwn`
  (`LiveBlocksOwned`), `LookupIsExact` (`IndexFindsKey`), `WritesAreRead`
  (`ReadYourWrite`), and `ShardIsCache` (`ImplementsCache`), the refinement of
  `CacheSpec` step by step. `NeverCorrupted`: the merging loop of `allocate`
  always stands on a header inside the slab whose length is not 0, so that it
  never returns SlabCorrupted. All of these suppose that no set arrives whose
  wrap would abandon a live block.
* Of `ShardSpec`, the code with no restriction: `TailReclaimIdle`, the tail reclaim
  never has anything to do, whatever sets arrive, which is the cause of finding 1
  for every configuration (up to a header outside the buffer, where the model
  stops and the behaviour of the code is undefined or a panic). Its invariant,
  `Loose`, says nothing of headers:
  `reclaim_ptr` never leaves the value it began with and no slot is ever marked.
* Of `ShardSpec` with pairs of one size: `OneSizeIsClean` says that with
  such pairs (`SameRoom`) its behaviours are those of `CleanSpec`, so that all
  of the above is true of it; `OneSizeIsCache` is the refinement.
  The hypothesis cannot be dropped: run `shard_stale` is the counterexample.

  None of the properties of `CleanSpec` is inductive. The chain of headers that tiles the slab is
  written down nowhere, so the invariant, `Inv`, says that there is a set B of block
  starts with `SlabInv(B)`: B tiles the slab and has `write_ptr` in it (`Tiles`); every
  live slot's block is in B, names the slot, and holds a key whose hash is the
  slot's and a value of the slot's length (`Owns`); two live slots hold one key
  only between the two halves of a promotion (`KeysUnique`, `Promoted`); a set under
  way knows that nobody but the slot `lookup` found holds its key (`CallOK`), that
  nothing live is left in the blocks it has merged and that they end at a member
  of B (`AllocOK`), and, after `allocate`, that the block it wrote is in B and no
  slot's (`NewBlock`). Only the wrap and the end of `allocate` change B;
  `RetiledTiles` is the lemma about both: cutting out the members between a and e
  and putting back a and one more start tiles the slab again. `Inv` contains the
  invariant of `ShardIndexProofs`, because each step of the shard is a step of
  the index or none. `Boundaries`, the walk of `Tiling` over the headers, is a
  recursive function: `WalkExists` shows by the least counterexample that there
  is one, and `WalkTiles` that it meets exactly B.

`SeqlockProofs`, for any keys, values, blocks, readers and attempts
(`SeqlockAssumption`, which also says that a `get` is not delayed by as many sets
as `seq` has values):

* `TypesHold` and `LockedReadsLinearize` (`LockedLinearizable`), on any processor; the
  second supposes that no value is empty, and finding 5 is what happens without it.
  `IInv` says that the stores a `set` has still to make lead from the memory of
  the moment, in any order they may be made, to a memory that holds what the
  `set` will commit; when none is left, and the lock says so, the two agree.
* `EvenIsCommitted` (`EvenMeansCommitted`) and `GetsLinearize` (`GetLinearizable`)
  in program order, empty values included. `OInv` adds where the stores to `seq` stand in what is left
  of a `set`, and what a reader has: as long as `seq` is what it began with,
  everything it has loaded is in memory still, so that the comparison at the
  end speaks for the whole copy. The hypothesis `~Weak` cannot be dropped: run
  `seqlock_weak` is the counterexample (finding 2).

`PyCallsProofs` and `PyCacheProofs`, for any finite set of threads, any engine
addresses and any limits (`ThreadsAssumption`, `EnginesAssumption`,
`LimitsAssumption`, `ReaderAssumption`):

* `CallsInvariant`, and from it `EnginesStayOpen`, `EnginesHaveOneOwner` and
  `ActiveCallsAreCounted` for `PySpec` through `ImplementsCalls`.
  That no engine is freed under a call is not inductive. `CallsInv` adds why: a
  call uses the object's engine or that of the one closer; while there is a
  closer the handle is NULL, so nobody begins a call; and a closer that has
  seen the counter at zero will find it there, because only callers raise it. A
  call that keeps the GIL is not counted, and is safe because the closer needs
  the GIL before it frees the engine.

`PyFreelistProofs`, from the same assumptions and for any lengths of values:

* `ReadsFit` (`BufferFits`), `HeldBytesAreLeft` (`NeverWritesHeld`) and
  `ResultsArePrefixes` (`GetReturnsPrefix`). `FreelistInv` adds what they rest on:
  the capacity noted for an object of the list is at most what was allocated for
  it; an object in the hands of a `get` is whole, held by no caller and in no
  slot, so no other thread can take it while the GIL is released; and the fast
  path, which leaves its object in the list while it reads, keeps the GIL until
  the read is over.
* `PyTypesHold` (`PyTypeOK`).

`NodeCacheProofs`, for any keys, values and sizes (`RuntimesAssumption`,
`KeysAssumption`, `SizesAssumption`):

* `MemoryIsSafe`, from `Ownership`: the engine is freed exactly when `closed` is
  set, `closed` follows the JavaScript flag as long as JavaScript has the cache,
  and the struct goes after it.
* `TypesOK` and `ViewsShowLastGet`, from `ViewInv`: the cached view lies in the
  scratch buffer of the moment, so that handing it out again shows what was
  just read. `TypeOK` contains that no value is stored cut short, which is a fact
  about the reading loop (`ReadWhole`) for every length and capacity.
* `HitsAreLatest`, assuming `DistinctKeys`: keys differ in the bytes of any path,
  and the two encodings of a key the fast path may see are the same. Finding 4 is
  what happens without it.

Every invariant and every action property of the passing runs is stated by one of
these theorems. Model-checked only: all liveness, which the proof system does not
handle (`NoStarvation` and the fairness of `ImplementsFifo`, `SetTerminates`,
`GetTerminates`, `CloseReturns`, `ReleasedEventually`).

## Not modelled

* Contents of keys and hashing: keys are model values or short word sequences
  with a given hash.
* The packing of visited bits into `u64` words: each bit is changed by one atomic
  operation.
* Statistics, prefetching, huge pages.
* A delay of a reader by 2^31 sets, after which `seq` repeats
  (`SeqlockAssumption`).
* `Engine` and the C ABI: routing by a mask, delegation, error codes; no state
  but the handle. Shards share nothing. The length probe of `ffi.zig:150` is
  reached by no call, because `Shard.get` sets `required_len` whenever it reports
  a buffer that is too small. `Shard.init` leaks on an OutOfMemory in its middle,
  which is plain from its source (`shard.zig:84-105`).
* The fallback's hit for an empty value (finding 5) in `Shard`, which takes such a
  value as absent; `Seqlock` has both paths as they are.
* Python: argument parsing, buffer views and what Python code run by them may do
  (`caeneusmodule.c:718`), contents of results, `__init__` on an object with
  calls under way (408), a bytearray resized under `get_into` (1238). The
  lists in the object itself (`get_freelist`) are only ever empty.
* Node: constructors that fail half-way, Node-API calls that fail, several
  threads, Bun keys too long to be read (which are refused), and keys of two-byte
  characters that Node-API's Latin-1 reading might turn into ASCII.
* The Go client, which is a handle and calls on it; the installers, whose file
  operations happen before any cache exists; the CLI and benchmarks.

## Plan

1. Done: the ticket lock, the index and SIEVE with proofs, the shard with its
   slab, the sequence lock, the Python object with proofs of its life cycle and
   free list, the JavaScript cache with proofs.
2. Done: proofs that count tombstones and empty entries, and that results of
   `get` beside `set` are linearizable.
3. Done: `Shard` proofs: the tiling and the ownership of blocks, the dead tail
   reclaim, and the refinement of `CacheSpec`, in the environment of `shard_clean`
   and, for pairs of one size, in any.
4. Done: the safety part of the refinement of `FifoLock`.
5. Variants for the loops of a set (a lap of the hand, a rebuild, a walk of the
   slab), as action properties: what makes `SetTerminates` true for every size.

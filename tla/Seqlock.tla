------------------------------ MODULE Seqlock -------------------------------
(* get() against set(): the sequence number, the lock-free read, and the      *)
(* locked read that follows when every attempt failed (shard.zig:226-381).    *)
(*                                                                            *)
(* Here a set() is what readers see of it: a series of stores to the cells of *)
(* shared memory that a get() loads, each its own step.  What decides the     *)
(* stores is in modules ShardIndex and Shard; for the readers it is enough    *)
(* that one slot, under whose hash all keys are listed, is moved between keys *)
(* and between the blocks of a small slab, so that any block may be           *)
(* overwritten while it is read.                                              *)
EXTENDS Integers, Sequences

CONSTANTS
    Readers,
    Keys,
    Values,        \* sequences of words
    Absent,        \* no value, or no key
    Words,         \* the words of values
    Blocks,        \* the blocks of the slab
    NoBlock,       \* invalid_offset
    Capacities,    \* buf.len
    SeqMod,        \* 2^32, the width of seq
    FirstSeq,      \* seq at the start
    MaxAttempts,   \* 10
    MaxSets,       \* bound: the sets that are made
    Weak           \* whether the processor reorders what the code leaves unordered

Writer == "set"
Free == "free"
MaxLen == 2

ASSUME SeqlockAssumption ==
    /\ NoBlock \notin Blocks /\ Absent \notin Keys \cup Values \cup {<<>>}
    /\ Values \subseteq UNION {[1 .. n -> Words] : n \in 0 .. MaxLen}
    /\ Capacities \subseteq 0 .. MaxLen
    /\ SeqMod \in Nat /\ SeqMod % 2 = 0
    /\ FirstSeq \in 0 .. SeqMod - 1 /\ FirstSeq % 2 = 0
    /\ MaxAttempts \in Nat \ {0}
    /\ MaxSets \in Nat /\ 2 * MaxSets < SeqMod
    /\ Writer \notin Readers /\ Free \notin Readers
    /\ Weak \in BOOLEAN

VARIABLES
    seq,          \* the sequence number
    entry,        \* whether the table lists the slot
    meta,         \* metadata[slot]: [offset, len]
    header,       \* block -> the key in its header
    words,        \* block -> its value words
    holder,       \* who holds the ticket lock
    stores,       \* the stores the set() has still to make, in program order
    committed,    \* key -> the value of its last set(), or Absent
    after,        \* committed when the set() under way is done
    sets,         \* the sets made
    pc,           \* where each get() is
    rd            \* its locals

memory == <<seq, entry, meta, header, words>>
setVars == <<stores, committed, after, sets>>
getVars == <<pc, rd>>
vars == <<memory, holder, setVars, getVars>>

NoMeta == [offset |-> NoBlock, len |-> 0]

(* What get() returns: a hit with the words copied out, BufferTooSmall with   *)
(* the required length, or a miss.                                            *)
NoOutcome == [kind |-> "none", words |-> <<>>, len |-> 0]
Miss == [kind |-> "miss", words |-> <<>>, len |-> 0]
TooSmall(n) == [kind |-> "small", words |-> <<>>, len |-> n]
Hit(w) == [kind |-> "hit", words |-> w, len |-> Len(w)]

(* seen is no local of the code: the values the key had since the get() began.*)
Idle == [key |-> Absent, cap |-> 0, attempts |-> 0, seq1 |-> 0, seq2 |-> 0,
         meta |-> NoMeta, copy |-> <<>>, outcome |-> NoOutcome, seen |-> {}]

(* seq is 0 in a new shard.  Sets that fail advance seq and nothing else, so  *)
(* that an empty shard may have any even FirstSeq.                            *)
Init ==
    /\ seq = FirstSeq
    /\ entry = FALSE
    /\ meta = NoMeta
    /\ header = [b \in Blocks |-> Absent]
    /\ words = [b \in Blocks |-> [j \in 1 .. MaxLen |-> 0]]
    /\ holder = Free
    /\ stores = <<>>
    /\ committed = [k \in Keys |-> Absent]
    /\ after = committed
    /\ sets = 0
    /\ pc = [r \in Readers |-> "idle"]
    /\ rd = [r \in Readers |-> Idle]

Even(n) == n % 2 = 0

-----------------------------------------------------------------------------
(* The stores of a set().  A release store comes after all stores before it;  *)
(* the others are plain or monotonic and are ordered by nothing.              *)

Store(cell, b, j, val, release) ==
    [cell |-> cell, b |-> b, j |-> j, val |-> val, release |-> release]

SeqStore(n) == Store("seq", NoBlock, 0, n, TRUE)
EntryStore(listed) == Store("entry", NoBlock, 0, listed, FALSE)
MetaStore(b, n) == Store("meta", NoBlock, 0, [offset |-> b, len |-> n], TRUE)

(* Mutant: the sequence number is advanced with an addition that does not     *)
(* wrap.                                                                      *)
MutantAdvanced(n) == n + 1

Advanced(n) == (n + 1) % SeqMod

(* deleteIndexMap() and evictSlot().                                          *)
EvictStores == <<EntryStore(FALSE), MetaStore(NoBlock, 0)>>

(* The end of allocate(): the header and the value of block b.                *)
BlockStores(k, v, b) ==
    <<Store("header", b, 0, k, FALSE)>>
      \o [j \in 1 .. Len(v) |-> Store("word", b, j, v[j], FALSE)]

LiveSlot == meta.offset # NoBlock
Finds(k) == entry /\ LiveSlot /\ header[meta.offset] = k

(* Mutant: the block is published before it is written.                       *)
MutantSetStores(k, v, b) ==
    LET owned == meta.offset = b
        evicts == owned \/ (LiveSlot /\ ~Finds(k))
    IN  (IF evicts THEN EvictStores ELSE <<>>)
          \o <<MetaStore(b, Len(v)), SeqStore(Advanced(Advanced(seq)))>>
          \o BlockStores(k, v, b)
          \o (IF evicts \/ ~LiveSlot THEN <<EntryStore(TRUE)>> ELSE <<>>)

(* A set() to which allocate() gives block b.  The slot is evicted when the   *)
(* allocation takes its own block, or when another key is moved in.           *)
SetStores(k, v, b) ==
    LET owned == meta.offset = b
        evicts == ~owned /\ LiveSlot /\ ~Finds(k)
    IN  (IF owned THEN EvictStores ELSE <<>>)
          \o BlockStores(k, v, b)
          \o (IF evicts THEN EvictStores ELSE <<>>)
          \o <<MetaStore(b, Len(v))>>
          \o (IF owned \/ evicts \/ ~LiveSlot THEN <<EntryStore(TRUE)>>
                                              ELSE <<>>)
          \o <<SeqStore(Advanced(Advanced(seq)))>>

SetBegins(todo, result) ==
    /\ holder = Free
    /\ sets < MaxSets
    /\ sets' = sets + 1
    /\ holder' = Writer
    /\ stores' = <<SeqStore(Advanced(seq))>> \o todo
    /\ after' = result
    /\ UNCHANGED <<memory, committed, getVars>>

SetBegin(k, v, b) ==
    SetBegins(SetStores(k, v, b),
              [c \in Keys |-> IF c = k THEN v ELSE Absent])

(* Mutant: an error return skips the second store to seq.                     *)
MutantSetFails == SetBegins(<<>>, committed)

(* allocate() returns ValueTooLarge; the deferred store to seq still runs.    *)
SetFails == SetBegins(<<SeqStore(Advanced(Advanced(seq)))>>, committed)

(* A store may be made before the ones it follows only on a weak processor,   *)
(* if it is not a release.                                                    *)
MayStore(i) ==
    \/ i = 1
    \/ /\ Weak
       /\ ~stores[i].release
       /\ \A h \in 1 .. i - 1 :
             [stores[h] EXCEPT !.val = 0] # [stores[i] EXCEPT !.val = 0]

Without(s, i) == SubSeq(s, 1, i - 1) \o SubSeq(s, i + 1, Len(s))

(* One store reaches memory; with the last one the set() has taken effect and *)
(* releases the lock.  A get() that is under way may see the new value.       *)
SetStore(i) ==
    /\ holder = Writer
    /\ MayStore(i)
    /\ LET s == stores[i] IN
       /\ seq' = IF s.cell = "seq" THEN s.val ELSE seq
       /\ entry' = IF s.cell = "entry" THEN s.val ELSE entry
       /\ meta' = IF s.cell = "meta" THEN s.val ELSE meta
       /\ header' = IF s.cell = "header" THEN [header EXCEPT ![s.b] = s.val]
                                         ELSE header
       /\ words' = IF s.cell = "word" THEN [words EXCEPT ![s.b][s.j] = s.val]
                                      ELSE words
    /\ stores' = Without(stores, i)
    /\ IF Len(stores) > 1
         THEN UNCHANGED <<holder, committed, rd>>
         ELSE /\ holder' = Free
              /\ committed' = after
              /\ rd' = [r \in Readers |->
                          IF pc[r] = "idle" THEN rd[r]
                          ELSE [rd[r] EXCEPT !.seen = @ \cup {after[rd[r].key]}]]
    /\ UNCHANGED <<after, sets, pc>>

-----------------------------------------------------------------------------
(* get(), one attempt.                                                        *)

Step(r, place, locals) ==
    /\ pc' = [pc EXCEPT ![r] = place]
    /\ rd' = [rd EXCEPT ![r] = locals]
    /\ UNCHANGED <<memory, holder, setVars>>

At(r, place) == pc[r] = place

(* The attempt failed; after MaxAttempts the get() asks for the lock.         *)
Retry(r) ==
    LET n == rd[r].attempts + 1 IN
    Step(r, IF n < MaxAttempts THEN "seq1" ELSE "lock",
         [rd[r] EXCEPT !.attempts = n, !.outcome = NoOutcome,
                       !.copy = <<>>, !.meta = NoMeta])

(* What the attempt found stands if seq has not changed.                      *)
Found(r, outcome) == Step(r, "validate", [rd[r] EXCEPT !.outcome = outcome])

GetBegin(r, k, cap) ==
    /\ At(r, "idle")
    /\ Step(r, "seq1", [Idle EXCEPT !.key = k, !.cap = cap,
                                    !.seen = {committed[k]}])

(* The reader spins while seq is odd.                                         *)
LoadSeq1(r) ==
    /\ At(r, "seq1")
    /\ Even(seq)
    /\ Step(r, "entry", [rd[r] EXCEPT !.seq1 = seq])

(* lookupHit() and keyEqualsOffset(): entry, metadata, header and key.        *)
LoadEntry(r) ==
    /\ At(r, "entry")
    /\ IF entry THEN Step(r, "offset", rd[r]) ELSE Found(r, Miss)

LoadOffset(r) ==
    /\ At(r, "offset")
    /\ IF LiveSlot THEN Step(r, "key", [rd[r] EXCEPT !.meta = meta])
                   ELSE Found(r, Miss)

LoadKey(r) ==
    /\ At(r, "key")
    /\ IF header[rd[r].meta.offset] = rd[r].key THEN Step(r, "meta", rd[r])
                                                 ELSE Found(r, Miss)

(* The second load of the metadata, and what it leads to: an empty value is   *)
(* a miss.                                                                    *)
LoadMeta(r) ==
    /\ At(r, "meta")
    /\ \/ (meta.len = 0 \/ ~LiveSlot) /\ Found(r, Miss)
       \/ /\ meta.len > rd[r].cap
          /\ Found(r, TooSmall(meta.len))
       \/ /\ meta.len \in 1 .. rd[r].cap
          /\ IF meta.offset = rd[r].meta.offset
               THEN Step(r, "copy", [rd[r] EXCEPT !.meta = meta])
               ELSE Retry(r)

(* The memcpy of the value, word by word.                                     *)
LoadWord(r) ==
    /\ At(r, "copy")
    /\ Len(rd[r].copy) < rd[r].meta.len
    /\ Step(r, "copy",
            [rd[r] EXCEPT !.copy =
               Append(@, words[rd[r].meta.offset][Len(@) + 1])])

LoadsDone(r) ==
    /\ At(r, "copy")
    /\ Len(rd[r].copy) = rd[r].meta.len
    /\ IF rd[r].outcome.kind = "early"
         THEN IF rd[r].seq1 = rd[r].seq2
                THEN Step(r, "done", [rd[r] EXCEPT !.outcome = Hit(rd[r].copy)])
                ELSE Retry(r)
         ELSE Found(r, Hit(rd[r].copy))

(* The memory clobber keeps the compiler from moving the copy below the load  *)
(* of seq2, and an acquire load does not wait for the loads before it: on a   *)
(* weak processor seq2 can be loaded while words are still to be copied.      *)
LoadSeq2Early(r) ==
    /\ Weak
    /\ At(r, "copy")
    /\ rd[r].outcome.kind = "none"
    /\ Step(r, "copy", [rd[r] EXCEPT !.seq2 = seq,
                                     !.outcome = [NoOutcome EXCEPT !.kind = "early"]])

(* Mutant: a miss is returned without looking at seq again.                   *)
MutantValidate(r) ==
    /\ At(r, "validate")
    /\ IF seq = rd[r].seq1 \/ rd[r].outcome = Miss THEN Step(r, "done", rd[r])
                                                   ELSE Retry(r)

Validate(r) ==
    /\ At(r, "validate")
    /\ IF seq = rd[r].seq1 THEN Step(r, "done", rd[r]) ELSE Retry(r)

-----------------------------------------------------------------------------
(* Mutant: the fallback reads without the lock.                               *)
MutantLockedGet(r) ==
    /\ At(r, "lock")
    /\ pc' = [pc EXCEPT ![r] = "locked"]
    /\ UNCHANGED <<memory, holder, setVars, rd>>

(* get(), the fallback: the same lookup with the lock held, and no rule for   *)
(* empty values.                                                              *)
LockedGet(r) ==
    /\ At(r, "lock")
    /\ holder = Free
    /\ holder' = r
    /\ pc' = [pc EXCEPT ![r] = "locked"]
    /\ UNCHANGED <<memory, setVars, rd>>

LockedOutcome(r) ==
    IF ~Finds(rd[r].key) THEN Miss
    ELSE IF rd[r].cap < meta.len THEN TooSmall(meta.len)
    ELSE Hit([j \in 1 .. meta.len |-> words[meta.offset][j]])

LockedReturn(r) ==
    /\ At(r, "locked")
    /\ holder' = Free
    /\ pc' = [pc EXCEPT ![r] = "done"]
    /\ rd' = [rd EXCEPT ![r].outcome = LockedOutcome(r)]
    /\ UNCHANGED <<memory, setVars>>

GetEnd(r) ==
    /\ At(r, "done")
    /\ Step(r, "idle", Idle)

-----------------------------------------------------------------------------
SetNext == \E i \in DOMAIN stores : SetStore(i)

GetNext(r) ==
    \/ LoadSeq1(r) \/ LoadEntry(r) \/ LoadOffset(r) \/ LoadKey(r)
    \/ LoadMeta(r) \/ LoadWord(r) \/ LoadsDone(r) \/ LoadSeq2Early(r)
    \/ Validate(r) \/ LockedReturn(r) \/ GetEnd(r)

Next ==
    \/ \E k \in Keys, v \in Values, b \in Blocks : SetBegin(k, v, b)
    \/ SetFails
    \/ SetNext
    \/ \E r \in Readers :
          \/ \E k \in Keys, cap \in Capacities : GetBegin(r, k, cap)
          \/ GetNext(r)
          \/ LockedGet(r)

(* A thread that has begun goes on, and the ticket lock is granted in the     *)
(* order of arrival (NoStarvation of module TicketLock).                      *)
Fairness ==
    /\ WF_vars(SetNext)
    /\ \A r \in Readers : WF_vars(GetNext(r)) /\ SF_vars(LockedGet(r))

Spec == Init /\ [][Next]_vars /\ Fairness

-----------------------------------------------------------------------------
TypeOK ==
    /\ seq \in 0 .. SeqMod - 1
    /\ entry \in BOOLEAN
    /\ meta \in [offset : Blocks \cup {NoBlock}, len : 0 .. MaxLen]
    /\ header \in [Blocks -> Keys \cup {Absent}]
    /\ words \in [Blocks -> [1 .. MaxLen -> Words \cup {0}]]
    /\ holder \in Readers \cup {Writer, Free}
    /\ sets \in 0 .. MaxSets
    /\ pc \in [Readers -> {"idle", "seq1", "entry", "offset", "key", "meta",
                           "copy", "validate", "lock", "locked", "done"}]
    /\ \A r \in Readers :
          /\ rd[r].attempts \in 0 .. MaxAttempts
          /\ rd[r].seq1 \in 0 .. SeqMod - 1

(* What the cells say is stored under a key.                                  *)
Stored(k) ==
    IF Finds(k) THEN [j \in 1 .. meta.len |-> words[meta.offset][j]]
                ELSE Absent

(* While seq is even the cells hold exactly the committed values: every store *)
(* of a set() to what a get() reads falls between its two stores to seq, also *)
(* when it fails.                                                             *)
EvenMeansCommitted ==
    Even(seq) => \A k \in Keys : Stored(k) = committed[k]

(* An empty value counts as none: "A zero-length value is treated as absent   *)
(* on read" (client_test.go:134).                                             *)
Explains(v, outcome) ==
    CASE outcome.kind = "hit" -> v = outcome.words /\ v # <<>>
      [] outcome.kind = "small" -> v # Absent /\ Len(v) = outcome.len
      [] outcome.kind = "miss" -> v = Absent \/ v = <<>>

(* Lock-free lookups are "safe from concurrent eviction overwrites"           *)
(* (README.md:35): what they return - a value, a length or a miss - was true  *)
(* of the key at one moment between the call and the return.                  *)
GetLinearizable ==
    \A r \in Readers : At(r, "done") /\ rd[r].attempts < MaxAttempts =>
        \E v \in rd[r].seen : Explains(v, rd[r].outcome)

(* The same of the gets that fell back to the lock.  It needs nothing of the  *)
(* order in which stores and loads reach memory but that a release store      *)
(* comes last; where values may be empty it does not hold (run                *)
(* seqlock_empty).                                                            *)
LockedLinearizable ==
    \A r \in Readers : At(r, "done") /\ rd[r].attempts = MaxAttempts =>
        \E v \in rd[r].seen : Explains(v, rd[r].outcome)

(* A get() returns, by its attempts or by the lock, once sets stop arriving.  *)
GetTerminates == \A r \in Readers : ~At(r, "idle") ~> At(r, "idle")
=============================================================================

--------------------------- MODULE SeqlockProofs ----------------------------
(* Proofs about module Seqlock, for every number of keys, values, blocks,     *)
(* readers and attempts.                                                      *)
(*                                                                            *)
(* On any processor (IInv): the stores that a set() has still to make lead,   *)
(* in whatever order they may be made, to a memory that says what will be     *)
(* committed.  So when none is left - the lock is free, or a get() holds it - *)
(* the memory says what is committed, and the locked read returns it.         *)
(*                                                                            *)
(* On a processor that keeps the order of the program (OInv): the stores are  *)
(* made between two that advance seq.  So the memory says what is committed   *)
(* whenever seq is even, and a get() that finds seq unchanged has loaded all  *)
(* of its cells from one such memory.                                         *)
EXTENDS Seqlock, SequenceTheorems, TLAPS

Content == Words \cup {0}
Metas == [offset : Blocks \cup {NoBlock}, len : 0 .. MaxLen]
Results == [Keys -> Values \cup {Absent}]
Headers == [Blocks -> Keys \cup {Absent}]
Contents == [Blocks -> [1 .. MaxLen -> Content]]

(* The stores a set() makes, by the cell they go to.                          *)
SeqStores == [cell : {"seq"}, b : {NoBlock}, j : {0},
              val : 0 .. SeqMod - 1, release : {TRUE}]
EntryStores == [cell : {"entry"}, b : {NoBlock}, j : {0},
                val : BOOLEAN, release : {FALSE}]
MetaStores == [cell : {"meta"}, b : {NoBlock}, j : {0},
               val : Metas, release : {TRUE}]
HeaderStores == [cell : {"header"}, b : Blocks, j : {0},
                 val : Keys, release : {FALSE}]
WordStores == [cell : {"word"}, b : Blocks, j : 1 .. MaxLen,
               val : Words, release : {FALSE}]
AnyStore == SeqStores \cup EntryStores \cup MetaStores
              \cup HeaderStores \cup WordStores

Hits(x, cell, b, j) == x.cell = cell /\ x.b = b /\ x.j = j

(* The stores of s, whatever order they are made in, take a cell from old to  *)
(* new: the last one to it decides.                                           *)
Leads(s, cell, b, j, old, new) ==
    \/ /\ new = old
       /\ \A i \in 1 .. Len(s) : ~Hits(s[i], cell, b, j)
    \/ \E i \in 1 .. Len(s) :
          /\ Hits(s[i], cell, b, j)
          /\ s[i].val = new
          /\ \A h \in i + 1 .. Len(s) : ~Hits(s[h], cell, b, j)

(* The cells that a get() reads besides seq.                                  *)
Memory == [entry : BOOLEAN, meta : Metas, header : Headers, words : Contents]
Now == [entry |-> entry, meta |-> meta, header |-> header, words |-> words]

(* The stores of s take the memory from x to y.                               *)
LeadsTo(s, x, y) ==
    /\ Leads(s, "entry", NoBlock, 0, x.entry, y.entry)
    /\ Leads(s, "meta", NoBlock, 0, x.meta, y.meta)
    /\ \A b \in Blocks : Leads(s, "header", b, 0, x.header[b], y.header[b])
    /\ \A b \in Blocks : \A j \in 1 .. MaxLen :
          Leads(s, "word", b, j, x.words[b][j], y.words[b][j])

(* Memory x says the values of result and no others.                          *)
FindsIn(x, k) ==
    x.entry /\ x.meta.offset # NoBlock /\ x.header[x.meta.offset] = k

Means(x, result) ==
    \A k \in Keys :
        IF FindsIn(x, k)
          THEN /\ result[k] =
                    [j \in 1 .. x.meta.len |-> x.words[x.meta.offset][j]]
               /\ result[k] \in Values
          ELSE result[k] = Absent

SetOK ==
    /\ stores \in Seq(AnyStore)
    /\ committed \in Results /\ after \in Results
    /\ holder = Writer <=> stores # <<>>
    /\ holder # Writer => committed = after
    /\ \E x \in Memory : LeadsTo(stores, Now, x) /\ Means(x, after)

Outcomes == [kind : {"none", "early", "miss", "small", "hit"},
             words : Seq(Content), len : Nat]
Locals == [key : Keys \cup {Absent}, cap : Capacities \cup {0},
           attempts : 0 .. MaxAttempts,
           seq1 : 0 .. SeqMod - 1, seq2 : 0 .. SeqMod - 1, meta : Metas,
           copy : Seq(Content), outcome : Outcomes,
           seen : SUBSET (Values \cup {Absent})]

(* What the fallback returns for value v: it has no rule for empty values.    *)
Agrees(v, outcome) ==
    Explains(v, outcome) \/ (v = <<>> /\ outcome = Hit(<<>>))
Explained(l) == \E v \in l.seen : Agrees(v, l.outcome)

(* What a get() knows in each place.                                          *)
PlaceOK(p, l) ==
    /\ p # "idle" => l.key \in Keys /\ committed[l.key] \in l.seen
    /\ p \in {"seq1", "entry", "offset", "key", "meta", "copy", "validate"}
          => l.attempts < MaxAttempts
    /\ p \in {"lock", "locked"} => l.attempts = MaxAttempts
    /\ p \in {"seq1", "entry", "offset", "key", "meta"}
          => l.copy = <<>> /\ l.outcome = NoOutcome
    /\ p \in {"key", "meta", "copy"} => l.meta.offset \in Blocks
    /\ p = "copy" => Len(l.copy) <= l.meta.len
    /\ p = "done" /\ l.attempts = MaxAttempts => Explained(l)

GetOK ==
    /\ rd \in [Readers -> Locals]
    /\ \A r \in Readers : PlaceOK(pc[r], rd[r])
    /\ \A r \in Readers : pc[r] = "locked" <=> holder = r

IInv == TypeOK /\ SetOK /\ GetOK

-----------------------------------------------------------------------------
(* What a sequence of stores leads to.                                        *)

LEMMA LeadsNowhere ==
    ASSUME NEW cell, NEW b, NEW j, NEW old, NEW new
    PROVE  Leads(<<>>, cell, b, j, old, new) <=> new = old
  BY DEF Leads

LEMMA LeadsOne ==
    ASSUME NEW x \in AnyStore, NEW cell, NEW b, NEW j, NEW old
    PROVE  /\ <<x>> \in Seq(AnyStore)
           /\ Leads(<<x>>, cell, b, j, old,
                    IF Hits(x, cell, b, j) THEN x.val ELSE old)
  BY DEF Leads

LEMMA LeadsConcat ==
    ASSUME NEW s \in Seq(AnyStore), NEW t \in Seq(AnyStore),
           NEW cell, NEW b, NEW j, NEW old, NEW mid, NEW new,
           Leads(s, cell, b, j, old, mid), Leads(t, cell, b, j, mid, new)
    PROVE  /\ s \o t \in Seq(AnyStore)
           /\ Leads(s \o t, cell, b, j, old, new)
  <1> DEFINE n == Len(s)  m == Len(t)  st == s \o t
  <1>1. /\ st \in Seq(AnyStore) /\ Len(st) = n + m /\ n \in Nat /\ m \in Nat
        /\ \A i \in 1 .. n : st[i] = s[i]
        /\ \A i \in 1 .. m : st[n + i] = t[i]
    BY ConcatProperties
  <1> HIDE DEF st
  <1>2. CASE \E i \in 1 .. m : /\ Hits(t[i], cell, b, j) /\ t[i].val = new
                               /\ \A h \in i + 1 .. m : ~Hits(t[h], cell, b, j)
    <2>1. PICK i \in 1 .. m :
            /\ Hits(t[i], cell, b, j) /\ t[i].val = new
            /\ \A h \in i + 1 .. m : ~Hits(t[h], cell, b, j)
      BY <1>2
    <2>2. n + i \in 1 .. Len(st) /\ st[n + i] = t[i]
      BY <1>1
    <2>3. \A h \in n + i + 1 .. Len(st) : ~Hits(st[h], cell, b, j)
      <3> TAKE h \in n + i + 1 .. Len(st)
      <3>1. PICK g \in i + 1 .. m : h = n + g
        <4>1. h - n \in i + 1 .. m /\ h = n + (h - n)
          BY <1>1
        <4> QED
          BY <4>1
      <3>2. g \in 1 .. m
        OBVIOUS
      <3> QED
        BY <1>1, <2>1, <3>1, <3>2
    <2> QED
      BY <1>1, <2>1, <2>2, <2>3 DEF Leads, st
  <1>3. CASE new = mid /\ \A i \in 1 .. m : ~Hits(t[i], cell, b, j)
    <2>1. ASSUME NEW h \in n + 1 .. Len(st)
          PROVE  ~Hits(st[h], cell, b, j)
      <3>1. h - n \in 1 .. m /\ n + (h - n) = h
        BY <1>1
      <3> QED
        BY <1>1, <1>3, <3>1
    <2>2. CASE mid = old /\ \A i \in 1 .. n : ~Hits(s[i], cell, b, j)
      <3>1. \A h \in 1 .. Len(st) : ~Hits(st[h], cell, b, j)
        BY <1>1, <2>1, <2>2
      <3> QED
        BY <1>1, <1>3, <2>2, <3>1 DEF Leads, st
    <2>3. CASE \E i \in 1 .. n : /\ Hits(s[i], cell, b, j) /\ s[i].val = mid
                                 /\ \A h \in i + 1 .. n : ~Hits(s[h], cell, b, j)
      <3>1. PICK i \in 1 .. n :
              /\ Hits(s[i], cell, b, j) /\ s[i].val = mid
              /\ \A h \in i + 1 .. n : ~Hits(s[h], cell, b, j)
        BY <2>3
      <3>2. i \in 1 .. Len(st) /\ st[i] = s[i]
        BY <1>1
      <3>3. ASSUME NEW h \in i + 1 .. Len(st)
            PROVE  ~Hits(st[h], cell, b, j)
        <4>1. CASE h <= n
          BY <1>1, <3>1, <4>1
        <4>2. CASE h > n
          BY <1>1, <2>1, <4>2
        <4> QED
          BY <1>1, <4>1, <4>2
      <3> QED
        BY <1>1, <1>3, <3>1, <3>2, <3>3 DEF Leads, st
    <2> QED
      BY <2>2, <2>3 DEF Leads
  <1> QED
    BY <1>2, <1>3 DEF Leads

LEMMA WithoutProperties ==
    ASSUME NEW s \in Seq(AnyStore), NEW i \in 1 .. Len(s)
    PROVE  /\ Without(s, i) \in Seq(AnyStore)
           /\ Len(Without(s, i)) = Len(s) - 1
           /\ \A h \in 1 .. Len(s) - 1 :
                Without(s, i)[h] = IF h < i THEN s[h] ELSE s[h + 1]
  <1> DEFINE n == Len(s)
             a == SubSeq(s, 1, i - 1)  c == SubSeq(s, i + 1, n)
  <1>0. n \in Nat /\ i \in Nat /\ i >= 1 /\ i <= n
    OBVIOUS
  <1>1. /\ a \in Seq(AnyStore) /\ Len(a) = i - 1
        /\ \A h \in 1 .. i - 1 : a[h] = s[h]
    <2>1. \A h \in 1 .. i - 1 : s[h] \in AnyStore
      BY <1>0, ElementOfSeq
    <2>2. /\ a \in Seq(AnyStore)
          /\ Len(a) = IF 1 <= i - 1 THEN i - 1 - 1 + 1 ELSE 0
          /\ \A h \in 1 .. i - 1 - 1 + 1 : a[h] = s[1 + h - 1]
      BY <1>0, <2>1, SubSeqProperties
    <2> QED
      BY <1>0, <2>2
  <1>2. /\ c \in Seq(AnyStore) /\ Len(c) = n - i
        /\ \A h \in 1 .. n - i : c[h] = s[i + h]
    <2>1. \A h \in i + 1 .. n : s[h] \in AnyStore
      BY <1>0, ElementOfSeq
    <2>2. /\ c \in Seq(AnyStore)
          /\ Len(c) = IF i + 1 <= n THEN n - (i + 1) + 1 ELSE 0
          /\ \A h \in 1 .. n - (i + 1) + 1 : c[h] = s[i + 1 + h - 1]
      BY <1>0, <2>1, SubSeqProperties
    <2> QED
      BY <1>0, <2>2
  <1>3. Without(s, i) = a \o c
    BY DEF Without
  <1> HIDE DEF a, c
  <1> DEFINE d == a \o c
  <1>4. /\ d \in Seq(AnyStore)
        /\ Len(d) = Len(a) + Len(c)
        /\ \A h \in 1 .. Len(a) + Len(c) :
             d[h] = IF h <= Len(a) THEN a[h] ELSE c[h - Len(a)]
    BY <1>1, <1>2, ConcatProperties
  <1> HIDE DEF d
  <1>5. ASSUME NEW h \in 1 .. n - 1
        PROVE  d[h] = IF h < i THEN s[h] ELSE s[h + 1]
    <2>1. CASE h < i
      <3>1. /\ h \in 1 .. Len(a) + Len(c) /\ h <= Len(a)
            /\ h \in 1 .. i - 1
        BY <1>0, <1>1, <1>2, <2>1
      <3> QED
        BY <1>1, <1>4, <2>1, <3>1
    <2>2. CASE h >= i
      <3>1. PICK g \in 1 .. n - i : h = g + i - 1
        <4>1. h - i + 1 \in 1 .. n - i /\ h = (h - i + 1) + i - 1
          BY <1>0, <2>2
        <4> QED
          BY <4>1
      <3>2. d[h] = c[g]
        <4>1. /\ h \in 1 .. Len(a) + Len(c) /\ ~(h <= Len(a))
              /\ h - Len(a) = g
          BY <1>0, <1>1, <1>2, <2>2, <3>1
        <4> QED
          BY <1>4, <4>1
      <3>3. c[g] = s[h + 1]
        BY <1>0, <1>2, <3>1
      <3> QED
        BY <1>0, <2>2, <3>2, <3>3
    <2> QED
      BY <1>0, <2>1, <2>2
  <1> QED
    BY <1>0, <1>1, <1>2, <1>3, <1>4, <1>5 DEF d

(* Making a store that no earlier one to its cell waits for does not change   *)
(* where the stores lead.                                                     *)
LEMMA LeadsStep ==
    ASSUME NEW s \in Seq(AnyStore), NEW i \in 1 .. Len(s),
           \A h \in 1 .. i - 1 : ~Hits(s[h], s[i].cell, s[i].b, s[i].j),
           NEW cell, NEW b, NEW j, NEW old, NEW new,
           Leads(s, cell, b, j, old, new)
    PROVE  Leads(Without(s, i), cell, b, j,
                 IF Hits(s[i], cell, b, j) THEN s[i].val ELSE old, new)
  <1> DEFINE n == Len(s)  t == Without(s, i)
  <1>0. n \in Nat /\ i \in Nat /\ i >= 1 /\ i <= n
    OBVIOUS
  <1>1. /\ Len(t) = n - 1
        /\ \A h \in 1 .. n - 1 : t[h] = IF h < i THEN s[h] ELSE s[h + 1]
    BY WithoutProperties
  <1> HIDE DEF t
  <1>2. CASE new = old /\ \A h \in 1 .. n : ~Hits(s[h], cell, b, j)
    <2>1. \A h \in 1 .. n - 1 : ~Hits(t[h], cell, b, j)
      BY <1>0, <1>1, <1>2
    <2> QED
      BY <1>1, <1>2, <2>1 DEF Leads, t
  <1>3. CASE \E g \in 1 .. n : /\ Hits(s[g], cell, b, j) /\ s[g].val = new
                               /\ \A h \in g + 1 .. n : ~Hits(s[h], cell, b, j)
    <2>1. PICK g \in 1 .. n :
            /\ Hits(s[g], cell, b, j) /\ s[g].val = new
            /\ \A h \in g + 1 .. n : ~Hits(s[h], cell, b, j)
      BY <1>3
    <2>2. CASE g = i
      <3>1. \A h \in 1 .. i - 1 : ~Hits(s[h], cell, b, j)
        BY <2>1, <2>2 DEF Hits
      <3>2. \A h \in 1 .. n - 1 : ~Hits(t[h], cell, b, j)
        BY <1>0, <1>1, <2>1, <2>2, <3>1
      <3> QED
        BY <1>1, <2>1, <2>2, <3>2 DEF Leads, t
    <2>3. CASE g < i
      <3>1. ~Hits(s[i], cell, b, j)
        BY <1>0, <2>1, <2>3
      <3>2. g \in 1 .. n - 1 /\ t[g] = s[g]
        BY <1>0, <1>1, <2>3
      <3>3. \A h \in g + 1 .. n - 1 : ~Hits(t[h], cell, b, j)
        BY <1>0, <1>1, <2>1
      <3> QED
        BY <1>1, <2>1, <3>1, <3>2, <3>3 DEF Leads, t
    <2>4. CASE g > i
      <3>1. g - 1 \in 1 .. n - 1 /\ t[g - 1] = s[g]
        BY <1>0, <1>1, <2>4
      <3>2. \A h \in (g - 1) + 1 .. n - 1 : ~Hits(t[h], cell, b, j)
        BY <1>0, <1>1, <2>1, <2>4
      <3> QED
        BY <1>1, <2>1, <3>1, <3>2 DEF Leads, t
    <2> QED
      BY <1>0, <2>1, <2>2, <2>3, <2>4
  <1> QED
    BY <1>2, <1>3 DEF Leads

(* A store overtakes none to its own cell.                                    *)
LEMMA FirstToItsCell ==
    ASSUME stores \in Seq(AnyStore), NEW i \in 1 .. Len(stores), MayStore(i)
    PROVE  \A h \in 1 .. i - 1 :
             ~Hits(stores[h], stores[i].cell, stores[i].b, stores[i].j)
  <1> SUFFICES ASSUME NEW h \in 1 .. i - 1,
                      Hits(stores[h], stores[i].cell, stores[i].b, stores[i].j)
               PROVE  FALSE
    OBVIOUS
  <1> DEFINE x == stores[h]  y == stores[i]
  <1>1. x \in AnyStore /\ y \in AnyStore
    BY ElementOfSeq
  <1>2. x.release = y.release
    <2>1. \A z \in AnyStore :
            \/ z.release = TRUE /\ z.cell \in {"seq", "meta"}
            \/ z.release = FALSE /\ z.cell \in {"entry", "header", "word"}
      BY DEF AnyStore, SeqStores, EntryStores, MetaStores, HeaderStores,
             WordStores
    <2> QED
      BY <1>1, <2>1 DEF Hits
  <1>3. [x EXCEPT !.val = 0] = [y EXCEPT !.val = 0]
    BY <1>1, <1>2 DEF Hits, AnyStore, SeqStores, EntryStores, MetaStores,
                HeaderStores, WordStores
  <1> QED
    BY <1>3 DEF MayStore

LEMMA LeadsToConcat ==
    ASSUME NEW s \in Seq(AnyStore), NEW t \in Seq(AnyStore),
           NEW x, NEW y, NEW z, LeadsTo(s, x, y), LeadsTo(t, y, z)
    PROVE  LeadsTo(s \o t, x, z)
  BY LeadsConcat DEF LeadsTo

NonSeq == EntryStores \cup MetaStores \cup HeaderStores \cup WordStores

(* A part of a set(): stores other than to seq.                               *)
Part(s, x, y) == s \in Seq(NonSeq) /\ LeadsTo(s, x, y)

LEMMA PartConcat ==
    ASSUME NEW s, NEW t, NEW x, NEW y, NEW z, Part(s, x, y), Part(t, y, z)
    PROVE  Part(s \o t, x, z)
  <1>1. s \in Seq(AnyStore) /\ t \in Seq(AnyStore)
    <2>1. NonSeq \subseteq AnyStore
      BY DEF NonSeq, AnyStore
    <2> QED
      BY <2>1, SeqMonotonic DEF Part
  <1>2. s \o t \in Seq(NonSeq)
    BY ConcatProperties DEF Part
  <1> QED
    BY <1>1, <1>2, LeadsToConcat DEF Part

LEMMA SinglePart ==
    ASSUME NEW st \in NonSeq
    PROVE  <<st>> \in Seq(NonSeq) /\ st \in AnyStore
  BY DEF NonSeq, AnyStore

LEMMA NoPart == ASSUME NEW x PROVE Part(<<>>, x, x)
  BY LeadsNowhere DEF Part, LeadsTo

LEMMA EntryPart ==
    ASSUME NEW x \in Memory, NEW listed \in BOOLEAN
    PROVE  /\ Part(<<EntryStore(listed)>>, x, [x EXCEPT !.entry = listed])
           /\ [x EXCEPT !.entry = listed] \in Memory
  <1> DEFINE st == EntryStore(listed)  y == [x EXCEPT !.entry = listed]
  <1>1. /\ st.cell = "entry" /\ st.b = NoBlock /\ st.j = 0 /\ st.val = listed
        /\ st \in EntryStores
    BY DEF EntryStore, Store, EntryStores
  <1>2. /\ y \in Memory /\ y.entry = listed /\ y.meta = x.meta
        /\ y.header = x.header /\ y.words = x.words
    BY DEF Memory
  <1>3. <<st>> \in Seq(NonSeq) /\ st \in AnyStore
    BY <1>1 DEF NonSeq, AnyStore
  <1> HIDE DEF st, y
  <1>4. LeadsTo(<<st>>, x, y)
    BY <1>1, <1>2, <1>3, LeadsOne DEF LeadsTo, Hits
  <1> QED
    BY <1>2, <1>3, <1>4 DEF Part, st, y

LEMMA MetaPart ==
    ASSUME NEW x \in Memory, NEW b \in Blocks \cup {NoBlock},
           NEW n \in 0 .. MaxLen
    PROVE  /\ Part(<<MetaStore(b, n)>>, x,
                   [x EXCEPT !.meta = [offset |-> b, len |-> n]])
           /\ [x EXCEPT !.meta = [offset |-> b, len |-> n]] \in Memory
  <1> DEFINE st == MetaStore(b, n)  m == [offset |-> b, len |-> n]
             y == [x EXCEPT !.meta = m]
  <1>1. /\ st.cell = "meta" /\ st.b = NoBlock /\ st.j = 0 /\ st.val = m
        /\ st \in MetaStores /\ m \in Metas
    BY DEF MetaStore, Store, MetaStores, Metas
  <1>2. /\ y \in Memory /\ y.entry = x.entry /\ y.meta = m
        /\ y.header = x.header /\ y.words = x.words
    BY <1>1 DEF Memory
  <1>3. <<st>> \in Seq(NonSeq) /\ st \in AnyStore
    BY <1>1 DEF NonSeq, AnyStore
  <1> HIDE DEF st, y, m
  <1>4. LeadsTo(<<st>>, x, y)
    BY <1>1, <1>2, <1>3, LeadsOne DEF LeadsTo, Hits
  <1> QED
    BY <1>2, <1>3, <1>4 DEF Part, st, y, m

(* A value is a short sequence of words.                                      *)
LEMMA ValueTyped ==
    ASSUME NEW v \in Values
    PROVE  /\ Len(v) \in 0 .. MaxLen /\ v \in [1 .. Len(v) -> Words]
           /\ v \in Seq(Words)
  <1>1. PICK n \in 0 .. MaxLen : v \in [1 .. n -> Words]
    BY SeqlockAssumption
  <1>2. n \in Nat
    BY DEF MaxLen
  <1>3. v \in Seq(Words)
    BY <1>1, <1>2, SeqDef
  <1>4. Len(v) = n
    BY <1>1, <1>2, <1>3, LenProperties
  <1> QED
    BY <1>1, <1>3, <1>4

Written(x, k, v, b) ==
    [x EXCEPT !.header = [x.header EXCEPT ![b] = k],
              !.words = [x.words EXCEPT ![b] =
                 [j \in 1 .. MaxLen |-> IF j <= Len(v) THEN v[j]
                                                       ELSE x.words[b][j]]]]

LEMMA BlockPart ==
    ASSUME NEW x \in Memory, NEW k \in Keys, NEW v \in Values, NEW b \in Blocks
    PROVE  Part(BlockStores(k, v, b), x, Written(x, k, v, b))
           /\ Written(x, k, v, b) \in Memory
  <1> DEFINE st == Store("header", b, 0, k, FALSE)
             ws == [j \in 1 .. Len(v) |-> Store("word", b, j, v[j], FALSE)]
             h == [x.header EXCEPT ![b] = k]
             w == [x.words EXCEPT ![b] =
                 [j \in 1 .. MaxLen |-> IF j <= Len(v) THEN v[j]
                                                       ELSE x.words[b][j]]]
             y == [x EXCEPT !.header = h]
             z == Written(x, k, v, b)
  <1>1. /\ Len(v) \in Nat /\ Len(v) \in 0 .. MaxLen
        /\ v \in [1 .. Len(v) -> Words]
    BY ValueTyped DEF MaxLen
  <1>2. /\ x.header \in Headers /\ x.words \in Contents
        /\ h \in Headers /\ h[b] = k
        /\ \A c \in Blocks \ {b} : h[c] = x.header[c]
    BY DEF Memory, Headers
  <1>3. /\ w \in Contents
        /\ \A j \in 1 .. MaxLen :
             w[b][j] = IF j <= Len(v) THEN v[j] ELSE x.words[b][j]
        /\ \A c \in Blocks \ {b} : w[c] = x.words[c]
    <2>1. ASSUME NEW j \in 1 .. MaxLen
          PROVE  (IF j <= Len(v) THEN v[j] ELSE x.words[b][j]) \in Content
      <3>1. CASE j <= Len(v)
        <4>1. j \in 1 .. Len(v)
          BY <1>1, <3>1
        <4> QED
          BY <1>1, <3>1, <4>1 DEF Content
      <3>2. CASE ~(j <= Len(v))
        BY <1>2, <3>2 DEF Contents
      <3> QED
        BY <3>1, <3>2
    <2> QED
      BY <1>2, <2>1 DEF Contents
  <1>4. /\ y.entry = x.entry /\ y.meta = x.meta /\ y.header = h
        /\ y.words = x.words /\ y \in Memory
    BY <1>2 DEF Memory
  <1>5. /\ z.entry = x.entry /\ z.meta = x.meta /\ z.header = h /\ z.words = w
        /\ z \in Memory
    BY <1>2, <1>3 DEF Memory, Written
  <1>6. Part(<<st>>, x, y)
    <2>1. /\ st.cell = "header" /\ st.b = b /\ st.j = 0 /\ st.val = k
          /\ st \in HeaderStores
      BY DEF Store, HeaderStores
    <2>2. <<st>> \in Seq(NonSeq) /\ st \in AnyStore
      <3>1. st \in NonSeq
        BY <2>1 DEF NonSeq
      <3> HIDE DEF st
      <3> QED
        BY <3>1, SinglePart
    <2> HIDE DEF st, y, h
    <2>3. LeadsTo(<<st>>, x, y)
      BY <1>2, <1>4, <2>1, <2>2, LeadsOne DEF LeadsTo, Hits
    <2> QED
      BY <2>2, <2>3 DEF Part
  <1>7. Part(ws, y, z)
    <2>1. \A j \in 1 .. Len(v) :
            /\ ws[j] \in WordStores /\ ws[j].cell = "word" /\ ws[j].b = b
            /\ ws[j].j = j /\ ws[j].val = v[j]
      BY <1>1 DEF Store, WordStores, MaxLen
    <2>2. ws \in [1 .. Len(v) -> NonSeq]
      BY <2>1 DEF NonSeq
    <2>3. ws \in Seq(NonSeq) /\ Len(ws) = Len(v)
      <3>1. ws \in Seq(NonSeq)
        BY <1>1, <2>2, SeqDef
      <3>2. DOMAIN ws = 1 .. Len(v)
        OBVIOUS
      <3> HIDE DEF ws
      <3> QED
        BY <1>1, <3>1, <3>2, LenProperties
    <2> HIDE DEF ws, y, z, h, w
    <2>4. ASSUME NEW c \in Blocks, NEW j \in 1 .. MaxLen
          PROVE  Leads(ws, "word", c, j, y.words[c][j], z.words[c][j])
      <3>1. CASE c = b /\ j <= Len(v)
        <4>1. j \in 1 .. Len(ws) /\ Hits(ws[j], "word", c, j)
              /\ ws[j].val = z.words[c][j]
          BY <1>3, <1>5, <2>1, <2>3, <3>1 DEF Hits
        <4>2. \A i \in j + 1 .. Len(ws) : ~Hits(ws[i], "word", c, j)
          BY <1>1, <2>1, <2>3 DEF Hits
        <4> QED
          BY <4>1, <4>2 DEF Leads
      <3>2. CASE ~(c = b /\ j <= Len(v))
        <4>1. z.words[c][j] = y.words[c][j]
          BY <1>3, <1>4, <1>5, <3>2
        <4>2. \A i \in 1 .. Len(ws) : ~Hits(ws[i], "word", c, j)
          BY <1>1, <2>1, <2>3, <3>2 DEF Hits
        <4> QED
          BY <4>1, <4>2 DEF Leads
      <3> QED
        BY <3>1, <3>2
    <2>5. LeadsTo(ws, y, z)
      BY <1>4, <1>5, <2>1, <2>3, <2>4 DEF LeadsTo, Leads, Hits
    <2> QED
      BY <2>3, <2>5 DEF Part
  <1> HIDE DEF st, ws, y, z, h, w
  <1>8. Part(<<st>> \o ws, x, z)
    BY <1>6, <1>7, PartConcat
  <1> QED
    BY <1>5, <1>8 DEF BlockStores, st, ws, z

LEMMA PairConcat ==
    ASSUME NEW a, NEW c
    PROVE  <<a>> \o <<c>> = <<a, c>>
  <1> DEFINE S == {a, c}
  <1>1. /\ <<a>> \in Seq(S) /\ <<c>> \in Seq(S) /\ <<a, c>> \in Seq(S)
        /\ Len(<<a>>) = 1 /\ Len(<<c>>) = 1 /\ Len(<<a, c>>) = 2
        /\ <<a>>[1] = a /\ <<c>>[1] = c
        /\ <<a, c>>[1] = a /\ <<a, c>>[2] = c
    OBVIOUS
  <1>2. /\ <<a>> \o <<c>> \in Seq(S)
        /\ Len(<<a>> \o <<c>>) = 2
        /\ (<<a>> \o <<c>>)[1] = a /\ (<<a>> \o <<c>>)[2] = c
    BY <1>1, ConcatProperties
  <1>3. \A i \in 1 .. 2 : (<<a>> \o <<c>>)[i] = <<a, c>>[i]
    <2>1. \A i \in 1 .. 2 : i = 1 \/ i = 2
      OBVIOUS
    <2> QED
      BY <1>1, <1>2, <2>1
  <1> QED
    BY <1>1, <1>2, <1>3, SeqEqual

LEMMA EvictPart ==
    ASSUME NEW x \in Memory
    PROVE  \E y \in Memory : /\ Part(EvictStores, x, y)
                             /\ y.header = x.header /\ y.words = x.words
  <1> DEFINE e == EntryStore(FALSE)  m == MetaStore(NoBlock, 0)
             y == [x EXCEPT !.entry = FALSE]
             z == [y EXCEPT !.meta = [offset |-> NoBlock, len |-> 0]]
  <1>1. Part(<<e>>, x, y) /\ y \in Memory
    BY EntryPart
  <1>2. /\ y.header = x.header /\ y.words = x.words
        /\ z.header = y.header /\ z.words = y.words
    BY DEF Memory
  <1> HIDE DEF y
  <1>3. Part(<<m>>, y, z) /\ z \in Memory
    <2>1. 0 \in 0 .. MaxLen /\ NoBlock \in Blocks \cup {NoBlock}
      BY DEF MaxLen
    <2> QED
      BY <1>1, <2>1, MetaPart
  <1> HIDE DEF z, e, m
  <1>4. Part(<<e>> \o <<m>>, x, z)
    BY <1>1, <1>3, PartConcat
  <1>5. <<e>> \o <<m>> = <<e, m>>
    BY PairConcat
  <1> QED
    BY <1>2, <1>3, <1>4, <1>5 DEF EvictStores, e, m

LEMMA NowInMemory == TypeOK => Now \in Memory
  BY DEF TypeOK, Now, Memory, Metas, Headers, Contents, Content

(* The stores of a set() before the one to seq that ends it.                  *)
SetBody(k, v, b) ==
    LET owned == meta.offset = b
        evicts == ~owned /\ LiveSlot /\ ~Finds(k)
    IN  (IF owned THEN EvictStores ELSE <<>>)
          \o BlockStores(k, v, b)
          \o (IF evicts THEN EvictStores ELSE <<>>)
          \o <<MetaStore(b, Len(v))>>
          \o (IF owned \/ evicts \/ ~LiveSlot THEN <<EntryStore(TRUE)>>
                                              ELSE <<>>)

SetResult(k, v) == [c \in Keys |-> IF c = k THEN v ELSE Absent]

(* They leave the value under its key and nothing under the others.           *)
LEMMA SetBodyMeans ==
    ASSUME TypeOK, NEW k \in Keys, NEW v \in Values, NEW b \in Blocks
    PROVE  /\ SetResult(k, v) \in Results
           /\ \E x \in Memory : /\ Part(SetBody(k, v, b), Now, x)
                                /\ Means(x, SetResult(k, v))
  <1> DEFINE owned == meta.offset = b
             evicts == ~owned /\ LiveSlot /\ ~Finds(k)
             p1 == IF owned THEN EvictStores ELSE <<>>
             p2 == BlockStores(k, v, b)
             p3 == IF evicts THEN EvictStores ELSE <<>>
             p4 == <<MetaStore(b, Len(v))>>
             p5 == IF owned \/ evicts \/ ~LiveSlot THEN <<EntryStore(TRUE)>>
                                                   ELSE <<>>
  <1>0. /\ Now \in Memory /\ Now.entry = entry
        /\ Len(v) \in 0 .. MaxLen /\ v \in [1 .. Len(v) -> Words]
        /\ Len(v) \in Nat
    BY NowInMemory, ValueTyped DEF Now, MaxLen
  <1>1. PICK x1 \in Memory : Part(p1, Now, x1) /\ (~owned => x1 = Now)
    BY <1>0, EvictPart, NoPart
  <1>2. PICK x2 \in Memory :
          Part(p2, x1, x2) /\ x2 = Written(x1, k, v, b)
    BY BlockPart
  <1>3. PICK x3 \in Memory :
          /\ Part(p3, x2, x3) /\ x3.header = x2.header /\ x3.words = x2.words
          /\ ~evicts => x3 = x2
    BY EvictPart, NoPart
  <1>4. PICK x4 \in Memory :
          /\ Part(p4, x3, x4)
          /\ x4 = [x3 EXCEPT !.meta = [offset |-> b, len |-> Len(v)]]
    BY <1>0, MetaPart
  <1>5. x4.entry = x3.entry /\ x4.header = x3.header /\ x4.words = x3.words
        /\ x4.meta = [offset |-> b, len |-> Len(v)]
    BY <1>4 DEF Memory
  <1>6. x2.entry = x1.entry /\ x2.header[b] = k
        /\ \A j \in 1 .. Len(v) : x2.words[b][j] = v[j]
    <2>1. /\ x1.header \in Headers /\ x1.words \in Contents
      BY DEF Memory
    <2>2. \A j \in 1 .. Len(v) : j \in 1 .. MaxLen /\ j <= Len(v)
      BY <1>0 DEF MaxLen
    <2> QED
      BY <1>2, <2>1, <2>2 DEF Memory, Written, Headers, Contents
  <1>7. PICK x5 \in Memory :
          /\ Part(p5, x4, x5)
          /\ x5.entry = TRUE /\ x5.meta = x4.meta /\ x5.header = x4.header
          /\ x5.words = x4.words
    <2>1. CASE owned \/ evicts \/ ~LiveSlot
      <3> DEFINE y == [x4 EXCEPT !.entry = TRUE]
      <3>1. Part(<<EntryStore(TRUE)>>, x4, y) /\ y \in Memory
        BY EntryPart
      <3>2. y.entry = TRUE /\ y.meta = x4.meta /\ y.header = x4.header
            /\ y.words = x4.words
        BY DEF Memory
      <3> HIDE DEF y
      <3> QED
        BY <2>1, <3>1, <3>2
    <2>2. CASE ~(owned \/ evicts \/ ~LiveSlot)
      <3>1. entry = TRUE
        BY <2>2 DEF Finds, TypeOK
      <3>2. x4.entry = TRUE
        BY <1>0, <1>1, <1>3, <1>5, <1>6, <2>2, <3>1
      <3> QED
        BY <2>2, <3>2, NoPart
    <2> QED
      BY <2>1, <2>2
  <1> HIDE DEF p1, p2, p3, p4, p5
  <1>8. Part(p1 \o p2 \o p3 \o p4 \o p5, Now, x5)
    <2>1. Part(p1 \o p2, Now, x2)
      BY <1>1, <1>2, PartConcat
    <2>2. Part(p1 \o p2 \o p3, Now, x3)
      BY <2>1, <1>3, PartConcat
    <2>3. Part(p1 \o p2 \o p3 \o p4, Now, x4)
      BY <2>2, <1>4, PartConcat
    <2> QED
      BY <2>3, <1>7, PartConcat
  <1>9. SetBody(k, v, b) = p1 \o p2 \o p3 \o p4 \o p5
    BY DEF SetBody, p1, p2, p3, p4, p5
  <1>10. SetResult(k, v) \in Results
    BY DEF SetResult, Results
  <1>11. Means(x5, SetResult(k, v))
    <2>1. x5.meta.offset = b /\ x5.meta.len = Len(v) /\ x5.header[b] = k
          /\ \A j \in 1 .. Len(v) : x5.words[b][j] = v[j]
      BY <1>3, <1>5, <1>6, <1>7
    <2>2. [j \in 1 .. Len(v) |-> x5.words[b][j]] = v
      BY <1>0, <2>1
    <2>3. b # NoBlock
      BY SeqlockAssumption
    <2>4. ASSUME NEW c \in Keys
          PROVE  IF FindsIn(x5, c)
                   THEN /\ SetResult(k, v)[c] =
                             [j \in 1 .. x5.meta.len |->
                                x5.words[x5.meta.offset][j]]
                        /\ SetResult(k, v)[c] \in Values
                   ELSE SetResult(k, v)[c] = Absent
      <3>1. FindsIn(x5, c) <=> c = k
        BY <1>7, <2>1, <2>3 DEF FindsIn
      <3> QED
        BY <2>1, <2>2, <3>1 DEF SetResult
    <2> QED
      BY <2>4 DEF Means
  <1> QED
    BY <1>8, <1>9, <1>10, <1>11

-----------------------------------------------------------------------------
(* A set() preserves the invariant.                                           *)

LEMMA AdvancedType == \A n \in Int : Advanced(n) \in 0 .. SeqMod - 1
  BY SeqlockAssumption DEF Advanced

LEMMA SeqPart ==
    ASSUME NEW n \in 0 .. SeqMod - 1, NEW x
    PROVE  /\ <<SeqStore(n)>> \in Seq(AnyStore)
           /\ LeadsTo(<<SeqStore(n)>>, x, x)
           /\ SeqStore(n) \in SeqStores
  <1> DEFINE st == SeqStore(n)
  <1>1. st \in SeqStores /\ st.cell = "seq"
    BY DEF SeqStore, Store, SeqStores
  <1>2. st \in AnyStore
    BY <1>1 DEF AnyStore
  <1> HIDE DEF st
  <1>3. <<st>> \in Seq(AnyStore) /\ Len(<<st>>) = 1 /\ <<st>>[1] = st
    BY <1>2
  <1>4. LeadsTo(<<st>>, x, x)
    BY <1>1, <1>3 DEF LeadsTo, Leads, Hits
  <1> QED
    BY <1>1, <1>3, <1>4 DEF st

LEMMA SameFunction ==
    ASSUME NEW S, NEW T, NEW f \in [S -> T], NEW g \in [S -> T],
           \A e \in S : f[e] = g[e]
    PROVE  f = g
  OBVIOUS

(* Once no store is pending the memory says what is committed.                *)
LEMMA Settled ==
    ASSUME TypeOK, SetOK, stores = <<>>
    PROVE  Means(Now, committed)
  <1>1. PICK x \in Memory : LeadsTo(<<>>, Now, x) /\ Means(x, after)
    BY DEF SetOK
  <1>2. Now \in Memory
    BY NowInMemory
  <1>3. x.entry = Now.entry /\ x.meta = Now.meta
    BY <1>1, LeadsNowhere DEF LeadsTo
  <1>4. x.header = Now.header
    <2>1. \A b \in Blocks : x.header[b] = Now.header[b]
      BY <1>1, LeadsNowhere DEF LeadsTo
    <2> QED
      BY <1>2, <2>1 DEF Memory, Headers
  <1>5. x.words = Now.words
    <2>1. \A b \in Blocks : \A j \in 1 .. MaxLen :
            x.words[b][j] = Now.words[b][j]
      BY <1>1, LeadsNowhere DEF LeadsTo
    <2>2. x.words \in Contents /\ Now.words \in Contents
      BY <1>2 DEF Memory
    <2>3. ASSUME NEW b \in Blocks PROVE x.words[b] = Now.words[b]
      <3>1. /\ x.words[b] \in [1 .. MaxLen -> Content]
            /\ Now.words[b] \in [1 .. MaxLen -> Content]
        BY <2>2 DEF Contents
      <3> QED
        <4>1. \A j \in 1 .. MaxLen : x.words[b][j] = Now.words[b][j]
          BY <2>1
        <4> DEFINE f == x.words[b]  g == Now.words[b]  S == 1 .. MaxLen
        <4>2. /\ f \in [S -> Content] /\ g \in [S -> Content]
              /\ \A j \in S : f[j] = g[j]
          BY <3>1, <4>1
        <4> HIDE DEF f, g, S
        <4>3. f = g
          BY <4>2, SameFunction
        <4> QED
          BY <4>3 DEF f, g
    <2> QED
      BY <2>2, <2>3 DEF Contents
  <1>6. x = Now
    BY <1>2, <1>3, <1>4, <1>5 DEF Memory
  <1>7. after = committed
    BY DEF SetOK
  <1> QED
    BY <1>1, <1>6, <1>7

(* Both kinds of set() are a store to seq, stores to other cells that lead to *)
(* the result, and a store to seq.                                            *)
LEMMA SetShape ==
    ASSUME TypeOK, SetOK,
           \/ \E k \in Keys, v \in Values, b \in Blocks : SetBegin(k, v, b)
           \/ SetFails
    PROVE  \E body \in Seq(NonSeq), result \in Results, x \in Memory :
              /\ Part(body, Now, x) /\ Means(x, result)
              /\ SetBegins(body \o <<SeqStore(Advanced(Advanced(seq)))>>,
                           result)
  <1>1. stores = <<>> /\ committed \in Results /\ Means(Now, committed)
    <2>1. holder = Free
      BY DEF SetBegin, SetFails, SetBegins
    <2>2. stores = <<>>
      BY <2>1 DEF SetOK, Free, Writer
    <2> QED
      BY <2>2, Settled DEF SetOK
  <1>2. CASE SetFails
    <2> DEFINE last == SeqStore(Advanced(Advanced(seq)))
    <2>1. Part(<<>>, Now, Now) /\ Now \in Memory /\ <<>> \in Seq(NonSeq)
      BY NoPart, NowInMemory DEF Part
    <2>2. <<>> \o <<last>> = <<last>>
      <3> HIDE DEF last
      <3>1. <<last>> \in Seq({last})
        OBVIOUS
      <3> QED
        BY <3>1, ConcatEmptySeq
    <2>3. SetBegins(<<>> \o <<last>>, committed)
      BY <1>2, <2>2 DEF SetFails
    <2> QED
      BY <1>1, <2>1, <2>3
  <1>3. CASE \E k \in Keys, v \in Values, b \in Blocks : SetBegin(k, v, b)
    <2>1. PICK k \in Keys, v \in Values, b \in Blocks : SetBegin(k, v, b)
      BY <1>3
    <2>2. PICK x \in Memory : /\ Part(SetBody(k, v, b), Now, x)
                              /\ Means(x, SetResult(k, v))
                              /\ SetResult(k, v) \in Results
      BY SetBodyMeans
    <2>3. SetStores(k, v, b)
            = SetBody(k, v, b) \o <<SeqStore(Advanced(Advanced(seq)))>>
      BY DEF SetStores, SetBody
    <2>4. SetBegins(SetBody(k, v, b)
                      \o <<SeqStore(Advanced(Advanced(seq)))>>,
                    SetResult(k, v))
      BY <2>1, <2>3 DEF SetBegin, SetResult
    <2> QED
      BY <2>2, <2>4 DEF Part
  <1> QED
    BY <1>2, <1>3

LEMMA SetBeginKeeps ==
    ASSUME IInv,
           \/ \E k \in Keys, v \in Values, b \in Blocks : SetBegin(k, v, b)
           \/ SetFails
    PROVE  IInv'
  <1> USE DEF IInv
  <1>1. PICK body \in Seq(NonSeq), result \in Results, x \in Memory :
          /\ Part(body, Now, x) /\ Means(x, result)
          /\ SetBegins(body \o <<SeqStore(Advanced(Advanced(seq)))>>, result)
    BY SetShape
  <1> DEFINE first == SeqStore(Advanced(seq))
             last == SeqStore(Advanced(Advanced(seq)))
  <1>2. /\ stores' = <<first>> \o (body \o <<last>>)
        /\ after' = result /\ holder = Free /\ holder' = Writer
        /\ sets' = sets + 1 /\ sets < MaxSets
        /\ UNCHANGED <<memory, committed, getVars>>
    BY <1>1 DEF SetBegins
  <1>3. /\ Advanced(seq) \in 0 .. SeqMod - 1
        /\ Advanced(Advanced(seq)) \in 0 .. SeqMod - 1
    BY AdvancedType DEF TypeOK
  <1>4. /\ <<first>> \in Seq(AnyStore) /\ LeadsTo(<<first>>, Now, Now)
        /\ <<last>> \in Seq(AnyStore) /\ LeadsTo(<<last>>, x, x)
    BY <1>3, SeqPart
  <1>5. body \in Seq(AnyStore) /\ LeadsTo(body, Now, x)
    <2>1. NonSeq \subseteq AnyStore
      BY DEF NonSeq, AnyStore
    <2> QED
      BY <1>1, <2>1, SeqMonotonic DEF Part
  <1> HIDE DEF first, last
  <1>6. body \o <<last>> \in Seq(AnyStore) /\ LeadsTo(body \o <<last>>, Now, x)
    BY <1>4, <1>5, ConcatProperties, LeadsToConcat
  <1>7. /\ stores' \in Seq(AnyStore) /\ stores' # <<>>
        /\ LeadsTo(stores', Now, x)
    <2>1. stores' \in Seq(AnyStore) /\ LeadsTo(stores', Now, x)
      BY <1>2, <1>4, <1>6, ConcatProperties, LeadsToConcat
    <2>2. Len(stores') = 1 + Len(body \o <<last>>)
          /\ Len(body \o <<last>>) \in Nat
      <3>1. Len(<<first>>) = 1
        OBVIOUS
      <3> QED
        BY <1>2, <1>4, <1>6, <3>1, ConcatProperties, LenProperties
    <2>3. stores' # <<>>
      BY <2>2
    <2> QED
      BY <2>1, <2>3
  <1>8. TypeOK'
    BY <1>2, SeqlockAssumption DEF TypeOK, memory, getVars
  <1>9. SetOK'
    <2>1. Now' = Now
      BY <1>2 DEF Now, memory
    <2>2. committed' \in Results
      BY <1>2 DEF SetOK
    <2> QED
      BY <1>1, <1>2, <1>7, <2>1, <2>2 DEF SetOK
  <1>10. GetOK'
    <2>1. \A r \in Readers : holder # r /\ holder' # r
      BY <1>2, SeqlockAssumption
    <2> QED
      BY <1>2, <2>1 DEF GetOK, PlaceOK, getVars
  <1> QED
    BY <1>8, <1>9, <1>10

LEMMA SetStoreKeeps ==
    ASSUME IInv, NEW i \in DOMAIN stores, SetStore(i)
    PROVE  IInv'
  <1> USE DEF IInv
  <1> DEFINE s == stores[i]
  <1>1. /\ stores \in Seq(AnyStore) /\ i \in 1 .. Len(stores)
        /\ Len(stores) \in Nat
    BY LenProperties DEF SetOK
  <1>2. s \in AnyStore
    BY <1>1, ElementOfSeq
  <1>3. /\ seq' = IF s.cell = "seq" THEN s.val ELSE seq
        /\ entry' = IF s.cell = "entry" THEN s.val ELSE entry
        /\ meta' = IF s.cell = "meta" THEN s.val ELSE meta
        /\ header' = IF s.cell = "header" THEN [header EXCEPT ![s.b] = s.val]
                                          ELSE header
        /\ words' = IF s.cell = "word" THEN [words EXCEPT ![s.b][s.j] = s.val]
                                       ELSE words
        /\ stores' = Without(stores, i) /\ holder = Writer
        /\ after' = after /\ sets' = sets /\ pc' = pc
    BY DEF SetStore
  <1>4. /\ Without(stores, i) \in Seq(AnyStore)
        /\ Len(Without(stores, i)) = Len(stores) - 1
    BY <1>1, WithoutProperties
  <1>5. /\ s.cell = "seq" => s.val \in 0 .. SeqMod - 1
        /\ s.cell = "entry" => s.val \in BOOLEAN /\ s.b = NoBlock /\ s.j = 0
        /\ s.cell = "meta" => s.val \in Metas /\ s.b = NoBlock /\ s.j = 0
        /\ s.cell = "header" => s.val \in Keys /\ s.b \in Blocks /\ s.j = 0
        /\ s.cell = "word" => s.val \in Words /\ s.b \in Blocks
                              /\ s.j \in 1 .. MaxLen
    BY <1>2 DEF AnyStore, SeqStores, EntryStores, MetaStores, HeaderStores,
                WordStores
  <1>6. PICK x \in Memory : LeadsTo(stores, Now, x) /\ Means(x, after)
    BY DEF SetOK
  <1>7. \A h \in 1 .. i - 1 : ~Hits(stores[h], s.cell, s.b, s.j)
    BY <1>1, FirstToItsCell DEF SetStore
  <1> HIDE DEF s
  <1>8. \A cell, b, j, old, new :
          Leads(stores, cell, b, j, old, new) =>
            Leads(Without(stores, i), cell, b, j,
                  IF Hits(s, cell, b, j) THEN s.val ELSE old, new)
    BY <1>1, <1>7, LeadsStep DEF s
  <1>9. LeadsTo(stores', Now', x)
    <2>1. Leads(stores', "entry", NoBlock, 0, entry', x.entry)
      <3>1. entry' = IF Hits(s, "entry", NoBlock, 0) THEN s.val ELSE entry
        BY <1>3, <1>5 DEF Hits
      <3> QED
        BY <1>3, <1>6, <1>8, <3>1 DEF LeadsTo, Now
    <2>2. Leads(stores', "meta", NoBlock, 0, meta', x.meta)
      <3>1. meta' = IF Hits(s, "meta", NoBlock, 0) THEN s.val ELSE meta
        BY <1>3, <1>5 DEF Hits
      <3> QED
        BY <1>3, <1>6, <1>8, <3>1 DEF LeadsTo, Now
    <2>3. ASSUME NEW b \in Blocks
          PROVE  Leads(stores', "header", b, 0, header'[b], x.header[b])
      <3>1. header'[b] = IF Hits(s, "header", b, 0) THEN s.val ELSE header[b]
        BY <1>3, <1>5 DEF Hits, TypeOK
      <3> QED
        BY <1>3, <1>6, <1>8, <3>1 DEF LeadsTo, Now
    <2>4. ASSUME NEW b \in Blocks, NEW j \in 1 .. MaxLen
          PROVE  Leads(stores', "word", b, j, words'[b][j], x.words[b][j])
      <3>1. words'[b][j] = IF Hits(s, "word", b, j) THEN s.val ELSE words[b][j]
        <4>1. words[b] \in [1 .. MaxLen -> Content]
          BY DEF TypeOK, Content
        <4>2. CASE s.cell = "word" /\ s.b = b
          <5>1. words' = [words EXCEPT ![b][s.j] = s.val]
            BY <1>3, <4>2
          <5>2. words'[b] = [words[b] EXCEPT ![s.j] = s.val]
            BY <5>1 DEF TypeOK
          <5> QED
            BY <1>5, <4>1, <4>2, <5>2 DEF Hits
        <4>3. CASE ~(s.cell = "word" /\ s.b = b)
          BY <1>3, <1>5, <4>3 DEF Hits, TypeOK
        <4> QED
          BY <4>2, <4>3
      <3> QED
        BY <1>3, <1>6, <1>8, <3>1 DEF LeadsTo, Now
    <2> QED
      BY <2>1, <2>2, <2>3, <2>4 DEF LeadsTo, Now
  <1>10. /\ Len(stores) > 1 =>
              /\ holder' = holder /\ committed' = committed /\ rd' = rd
         /\ ~(Len(stores) > 1) =>
              /\ holder' = Free /\ committed' = after
              /\ rd' = [r \in Readers |->
                          IF pc[r] = "idle" THEN rd[r]
                          ELSE [rd[r] EXCEPT !.seen = @ \cup {after[rd[r].key]}]]
    BY DEF SetStore
  <1>11. TypeOK'
    <2>1. /\ seq' \in 0 .. SeqMod - 1
          /\ entry' \in BOOLEAN
          /\ meta' \in [offset : Blocks \cup {NoBlock}, len : 0 .. MaxLen]
      BY <1>3, <1>5 DEF TypeOK, Metas
    <2>2. header' \in [Blocks -> Keys \cup {Absent}]
      BY <1>3, <1>5 DEF TypeOK
    <2>3. words' \in [Blocks -> [1 .. MaxLen -> Words \cup {0}]]
      <3>1. CASE s.cell = "word"
        <4>1. words' = [words EXCEPT ![s.b][s.j] = s.val]
          BY <1>3, <3>1
        <4> QED
          BY <1>5, <3>1, <4>1 DEF TypeOK
      <3> QED
        BY <1>3, <3>1 DEF TypeOK
    <2>4. holder' \in Readers \cup {Writer, Free}
      BY <1>3, <1>10
    <2>5. ASSUME NEW r \in Readers
          PROVE  rd'[r].attempts = rd[r].attempts /\ rd'[r].seq1 = rd[r].seq1
      <3>1. rd[r] \in Locals
        BY DEF GetOK
      <3> QED
        BY <1>10, <3>1 DEF Locals
    <2> QED
      BY <1>3, <2>1, <2>2, <2>3, <2>4, <2>5 DEF TypeOK
  <1>12. SetOK'
    <2>1. /\ stores' \in Seq(AnyStore) /\ after' \in Results
          /\ Len(stores') = Len(stores) - 1
      BY <1>3, <1>4 DEF SetOK
    <2>2. LeadsTo(stores, Now, x)' /\ Means(x, after)' <=>
          LeadsTo(stores', Now', x) /\ Means(x, after')
      BY DEF LeadsTo, Leads, Hits, Means, FindsIn
    <2>3. \E y \in Memory : LeadsTo(stores', Now', y) /\ Means(y, after')
      BY <1>3, <1>6, <1>9
    <2>4. CASE Len(stores) > 1
      <3>1. stores' # <<>> /\ committed' \in Results
        BY <1>10, <2>1, <2>4 DEF SetOK
      <3> QED
        BY <1>3, <1>10, <2>1, <2>3, <2>4, <3>1 DEF SetOK
    <2>5. CASE ~(Len(stores) > 1)
      <3>1. Len(stores') = 0
        BY <1>1, <2>1, <2>5
      <3>2. stores' = <<>>
        BY <2>1, <3>1, EmptySeq
      <3> QED
        BY <1>3, <1>10, <2>1, <2>3, <2>5, <3>2 DEF SetOK, Free, Writer
    <2> QED
      BY <2>4, <2>5
  <1>13. GetOK'
    <2>1. \A r \in Readers : pc'[r] = "locked" <=> holder' = r
      <3>1. \A r \in Readers : holder # r /\ holder' # r
        BY <1>3, <1>10, SeqlockAssumption
      <3> QED
        BY <1>3, <3>1 DEF GetOK
    <2>2. CASE Len(stores) > 1
      BY <1>3, <1>10, <2>1, <2>2 DEF GetOK, PlaceOK
    <2>3. CASE ~(Len(stores) > 1)
      <3>1. after \in Results
        BY DEF SetOK
      <3>2. ASSUME NEW r \in Readers
            PROVE  /\ rd'[r] \in Locals
                   /\ PlaceOK(pc[r], rd[r])'
        <4>1. rd[r] \in Locals /\ PlaceOK(pc[r], rd[r])
          BY DEF GetOK
        <4>2. CASE pc[r] = "idle"
          <5>1. rd'[r] = rd[r] /\ pc'[r] = "idle"
            BY <1>3, <1>10, <2>3, <4>2
          <5> QED
            BY <4>1, <4>2, <5>1 DEF PlaceOK
        <4>3. CASE pc[r] # "idle"
          <5>1. rd[r].key \in Keys
            BY <4>1, <4>3 DEF PlaceOK
          <5>2. rd'[r] = [rd[r] EXCEPT !.seen = @ \cup {after[rd[r].key]}]
            BY <1>10, <2>3, <4>3
          <5>3. after[rd[r].key] \in Values \cup {Absent}
            BY <3>1, <5>1 DEF Results
          <5>4. /\ rd'[r] \in Locals
                /\ rd'[r].seen = rd[r].seen \cup {after[rd[r].key]}
                /\ rd'[r].key = rd[r].key /\ rd'[r].attempts = rd[r].attempts
                /\ rd'[r].copy = rd[r].copy /\ rd'[r].meta = rd[r].meta
                /\ rd'[r].outcome = rd[r].outcome
            BY <4>1, <5>2, <5>3 DEF Locals
          <5>5. committed'[rd[r].key] \in rd'[r].seen
            BY <1>10, <2>3, <5>4
          <5>6. Explained(rd[r]) => Explained(rd'[r])
            BY <5>4 DEF Explained
          <5> QED
            BY <1>3, <4>1, <4>3, <5>4, <5>5, <5>6 DEF PlaceOK
        <4> QED
          BY <4>2, <4>3
      <3>3. rd' \in [Readers -> Locals]
        <4>1. rd' = [r \in Readers |-> rd'[r]]
          BY <1>10, <2>3
        <4> QED
          BY <3>2, <4>1
      <3> QED
        BY <2>1, <3>2, <3>3 DEF GetOK
    <2> QED
      BY <2>2, <2>3
  <1> QED
    BY <1>11, <1>12, <1>13

-----------------------------------------------------------------------------
(* The steps of a get() preserve the invariant.                               *)

Places == {"idle", "seq1", "entry", "offset", "key", "meta", "copy",
           "validate", "lock", "done"}

LEMMA StepKeeps ==
    ASSUME IInv, NEW r \in Readers, NEW place \in Places, NEW locals \in Locals,
           Step(r, place, locals), ~At(r, "locked"), PlaceOK(place, locals)
    PROVE  IInv'
  <1> USE DEF IInv
  <1>1. /\ pc' = [pc EXCEPT ![r] = place] /\ rd' = [rd EXCEPT ![r] = locals]
        /\ UNCHANGED <<memory, holder, setVars>>
    BY DEF Step
  <1>2. /\ seq' = seq /\ entry' = entry /\ meta' = meta /\ header' = header
        /\ words' = words /\ holder' = holder /\ stores' = stores
        /\ committed' = committed /\ after' = after /\ sets' = sets
    BY <1>1 DEF memory, setVars
  <1>3. rd \in [Readers -> Locals] /\ rd' \in [Readers -> Locals]
        /\ rd'[r] = locals /\ pc'[r] = place
        /\ \A q \in Readers \ {r} : rd'[q] = rd[q] /\ pc'[q] = pc[q]
    BY <1>1 DEF GetOK, TypeOK
  <1>4. TypeOK'
    <2>1. pc' \in [Readers -> Places \cup {"locked"}]
      BY <1>1 DEF TypeOK, Places
    <2>2. \A q \in Readers : /\ rd'[q].attempts \in 0 .. MaxAttempts
                             /\ rd'[q].seq1 \in 0 .. SeqMod - 1
      BY <1>3 DEF Locals
    <2> QED
      BY <1>2, <2>1, <2>2 DEF TypeOK, Places
  <1>5. SetOK'
    <2>1. Now' = Now
      BY <1>2 DEF Now
    <2> QED
      BY <1>2, <2>1 DEF SetOK
  <1>6. GetOK'
    <2>1. \A q \in Readers : PlaceOK(pc[q], rd[q])'
      <3> TAKE q \in Readers
      <3>1. CASE q = r
        BY <1>2, <1>3, <3>1 DEF PlaceOK
      <3>2. CASE q # r
        BY <1>2, <1>3, <3>2 DEF PlaceOK, GetOK
      <3> QED
        BY <3>1, <3>2
    <2>2. \A q \in Readers : pc'[q] = "locked" <=> holder' = q
      <3> TAKE q \in Readers
      <3>1. CASE q = r
        BY <1>2, <1>3, <3>1 DEF GetOK, Places, At
      <3>2. CASE q # r
        BY <1>2, <1>3, <3>2 DEF GetOK
      <3> QED
        BY <3>1, <3>2
    <2> QED
      BY <1>3, <2>1, <2>2 DEF GetOK
  <1> QED
    BY <1>4, <1>5, <1>6

LEMMA OutcomesTyped ==
    /\ NoOutcome \in Outcomes /\ Miss \in Outcomes
    /\ \A n \in Nat : TooSmall(n) \in Outcomes
    /\ \A w \in Seq(Content) : Hit(w) \in Outcomes
    /\ [NoOutcome EXCEPT !.kind = "early"] \in Outcomes
  <1>1. /\ "none" \in {"none", "early", "miss", "small", "hit"}
        /\ <<>> \in Seq(Content) /\ 0 \in Nat
    BY EmptySeq
  <1>2. \A w \in Seq(Content) : Len(w) \in Nat
    BY LenProperties
  <1> QED
    BY <1>1, <1>2 DEF NoOutcome, Miss, TooSmall, Hit, Outcomes

LEMMA IdleTyped == Idle \in Locals /\ NoMeta \in Metas
  <1>1. NoMeta \in Metas
    BY DEF NoMeta, Metas, MaxLen
  <1>2. <<>> \in Seq(Content) /\ 0 \in 0 .. MaxAttempts /\ 0 \in 0 .. SeqMod - 1
    BY EmptySeq, SeqlockAssumption
  <1> QED
    BY <1>1, <1>2, OutcomesTyped DEF Idle, Locals

LEMMA RetryKeeps ==
    ASSUME IInv, NEW r \in Readers, pc[r] \in {"meta", "copy", "validate"},
           Retry(r)
    PROVE  IInv'
  <1> USE DEF IInv
  <1> DEFINE n == rd[r].attempts + 1
             place == IF n < MaxAttempts THEN "seq1" ELSE "lock"
             l == [rd[r] EXCEPT !.attempts = n, !.outcome = NoOutcome,
                                !.copy = <<>>, !.meta = NoMeta]
  <1>1. rd[r] \in Locals /\ PlaceOK(pc[r], rd[r])
    BY DEF GetOK
  <1>2. /\ rd[r].attempts \in Nat /\ rd[r].attempts < MaxAttempts
        /\ MaxAttempts \in Nat
    BY <1>1, SeqlockAssumption DEF PlaceOK, Locals
  <1>3. /\ l \in Locals /\ l.attempts = n /\ l.outcome = NoOutcome
        /\ l.copy = <<>> /\ l.key = rd[r].key /\ l.seen = rd[r].seen
    <2>1. <<>> \in Seq(Content) /\ n \in 0 .. MaxAttempts
      BY <1>2, EmptySeq
    <2> QED
      BY <1>1, <2>1, OutcomesTyped, IdleTyped DEF Locals
  <1> HIDE DEF l
  <1>4. place \in Places /\ PlaceOK(place, l)
    <2>1. CASE n < MaxAttempts
      BY <1>1, <1>3, <2>1 DEF PlaceOK, Places
    <2>2. CASE ~(n < MaxAttempts)
      BY <1>1, <1>2, <1>3, <2>2 DEF PlaceOK, Places
    <2> QED
      BY <2>1, <2>2
  <1>5. Step(r, place, l)
    BY DEF Retry, l
  <1> HIDE DEF place
  <1> QED
    BY <1>3, <1>4, <1>5, StepKeeps DEF At

LEMMA FoundKeeps ==
    ASSUME IInv, NEW r \in Readers,
           pc[r] \in {"entry", "offset", "key", "meta", "copy"},
           NEW outcome \in Outcomes, Found(r, outcome)
    PROVE  IInv'
  <1> USE DEF IInv
  <1> DEFINE l == [rd[r] EXCEPT !.outcome = outcome]
  <1>1. rd[r] \in Locals /\ PlaceOK(pc[r], rd[r])
    BY DEF GetOK
  <1>2. /\ l \in Locals /\ l.attempts = rd[r].attempts /\ l.key = rd[r].key
        /\ l.seen = rd[r].seen
    BY <1>1 DEF Locals
  <1> HIDE DEF l
  <1>3. PlaceOK("validate", l)
    BY <1>1, <1>2 DEF PlaceOK
  <1>4. Step(r, "validate", l)
    BY DEF Found, l
  <1> QED
    BY <1>2, <1>3, <1>4, StepKeeps DEF At, Places

(* What the locked read returns is the committed value.                       *)
LEMMA LockedReads ==
    ASSUME IInv, NEW r \in Readers, At(r, "locked")
    PROVE  /\ LockedOutcome(r) \in Outcomes
           /\ Agrees(committed[rd[r].key], LockedOutcome(r))
  <1> USE DEF IInv
  <1> DEFINE k == rd[r].key
             copied == [j \in 1 .. meta.len |-> words[meta.offset][j]]
  <1>1. holder = r /\ stores = <<>> /\ k \in Keys
    BY SeqlockAssumption DEF GetOK, SetOK, PlaceOK, At
  <1>2. Means(Now, committed)
    BY <1>1, Settled
  <1>3. FindsIn(Now, k) <=> Finds(k)
    BY DEF FindsIn, Finds, LiveSlot, Now
  <1>4. CASE ~Finds(k)
    <2>1. committed[k] = Absent
      BY <1>1, <1>2, <1>3, <1>4 DEF Means
    <2> QED
      BY <1>4, <2>1, OutcomesTyped DEF LockedOutcome, Agrees, Explains, Miss
  <1>5. CASE Finds(k)
    <2>1. committed[k] = copied /\ committed[k] \in Values
      BY <1>1, <1>2, <1>3, <1>5 DEF Means, Now
    <2>2. meta.len \in 0 .. MaxLen /\ meta.len \in Nat
      BY DEF TypeOK, MaxLen
    <2>3. DOMAIN copied = 1 .. meta.len
      OBVIOUS
    <2> HIDE DEF copied
    <2>4. copied \in Seq(Words) /\ Len(copied) = meta.len
      <3>1. copied \in Seq(Words)
        BY <2>1, ValueTyped
      <3> QED
        BY <2>2, <2>3, <3>1, LenProperties
    <2>5. copied \in Seq(Content)
      BY <2>4, SeqMonotonic DEF Content
    <2>6. copied # Absent
      BY <2>1, SeqlockAssumption
    <2>7. LockedOutcome(r) = IF rd[r].cap < meta.len THEN TooSmall(meta.len)
                                                     ELSE Hit(copied)
      BY <1>5 DEF LockedOutcome, copied
    <2>8. TooSmall(meta.len) \in Outcomes /\ Hit(copied) \in Outcomes
      BY <2>2, <2>5, OutcomesTyped
    <2>9. /\ Agrees(committed[k], TooSmall(meta.len))
          /\ Agrees(committed[k], Hit(copied))
      <3>1. /\ committed[k] # Absent /\ Len(committed[k]) = meta.len
            /\ committed[k] = copied
        BY <2>1, <2>4, <2>6
      <3> QED
        BY <3>1 DEF Agrees, Explains, TooSmall, Hit
    <2> QED
      BY <2>7, <2>8, <2>9
  <1> QED
    BY <1>4, <1>5

LEMMA ReaderKeeps ==
    ASSUME IInv, NEW r \in Readers,
           \/ \E k \in Keys, cap \in Capacities : GetBegin(r, k, cap)
           \/ GetNext(r)
           \/ LockedGet(r)
    PROVE  IInv'
  <1> USE DEF IInv
  <1> DEFINE l == rd[r]
  <1>0. l \in Locals /\ PlaceOK(pc[r], l) /\ Miss \in Outcomes
    BY OutcomesTyped DEF GetOK
  <1>1. ASSUME NEW k \in Keys, NEW cap \in Capacities, GetBegin(r, k, cap)
        PROVE  IInv'
    <2> DEFINE m == [Idle EXCEPT !.key = k, !.cap = cap, !.seen = {committed[k]}]
    <2>1. /\ m \in Locals /\ m.attempts = 0 /\ m.copy = <<>>
          /\ m.outcome = NoOutcome /\ m.key = k /\ committed[k] \in m.seen
      <3>1. committed[k] \in Values \cup {Absent}
        BY DEF SetOK, Results
      <3>2. Idle.attempts = 0 /\ Idle.copy = <<>> /\ Idle.outcome = NoOutcome
        BY DEF Idle
      <3> QED
        BY <3>1, <3>2, IdleTyped DEF Locals
    <2> HIDE DEF m
    <2>2. PlaceOK("seq1", m)
      BY <2>1, SeqlockAssumption DEF PlaceOK
    <2>3. Step(r, "seq1", m) /\ ~At(r, "locked")
      BY <1>1 DEF GetBegin, At, m
    <2> QED
      BY <2>1, <2>2, <2>3, StepKeeps DEF Places
  <1>2. CASE LoadSeq1(r)
    <2> DEFINE m == [l EXCEPT !.seq1 = seq]
    <2>1. /\ m \in Locals /\ m.attempts = l.attempts /\ m.copy = l.copy
          /\ m.outcome = l.outcome /\ m.key = l.key /\ m.seen = l.seen
      BY <1>0 DEF Locals, TypeOK
    <2> HIDE DEF m
    <2>2. PlaceOK("entry", m) /\ ~At(r, "locked")
      BY <1>0, <1>2, <2>1 DEF PlaceOK, LoadSeq1, At
    <2>3. Step(r, "entry", m)
      BY <1>2 DEF LoadSeq1, m
    <2> QED
      BY <2>1, <2>2, <2>3, StepKeeps DEF Places
  <1>3. CASE LoadEntry(r)
    <2>1. CASE entry
      <3>1. Step(r, "offset", l) /\ PlaceOK("offset", l) /\ ~At(r, "locked")
        BY <1>0, <1>3, <2>1 DEF LoadEntry, At, PlaceOK
      <3> QED
        BY <1>0, <3>1, StepKeeps DEF Places
    <2>2. CASE ~entry
      BY <1>0, <1>3, <2>2, FoundKeeps DEF LoadEntry, At
    <2> QED
      BY <2>1, <2>2
  <1>4. CASE LoadOffset(r)
    <2>1. CASE LiveSlot
      <3> DEFINE m == [l EXCEPT !.meta = meta]
      <3>1. /\ m \in Locals /\ m.attempts = l.attempts /\ m.copy = l.copy
            /\ m.outcome = l.outcome /\ m.key = l.key /\ m.seen = l.seen
            /\ m.meta = meta /\ meta.offset \in Blocks
        BY <1>0, <2>1 DEF Locals, TypeOK, Metas, LiveSlot
      <3> HIDE DEF m
      <3>2. PlaceOK("key", m) /\ ~At(r, "locked")
        BY <1>0, <1>4, <3>1 DEF PlaceOK, LoadOffset, At
      <3>3. Step(r, "key", m)
        BY <1>4, <2>1 DEF LoadOffset, m
      <3> QED
        BY <3>1, <3>2, <3>3, StepKeeps DEF Places
    <2>2. CASE ~LiveSlot
      BY <1>0, <1>4, <2>2, FoundKeeps DEF LoadOffset, At
    <2> QED
      BY <2>1, <2>2
  <1>5. CASE LoadKey(r)
    <2>1. CASE header[l.meta.offset] = l.key
      <3>1. Step(r, "meta", l) /\ PlaceOK("meta", l) /\ ~At(r, "locked")
        BY <1>0, <1>5, <2>1 DEF LoadKey, At, PlaceOK
      <3> QED
        BY <1>0, <3>1, StepKeeps DEF Places
    <2>2. CASE header[l.meta.offset] # l.key
      BY <1>0, <1>5, <2>2, FoundKeeps DEF LoadKey, At
    <2> QED
      BY <2>1, <2>2
  <1>6. CASE LoadMeta(r)
    <2>1. CASE Found(r, Miss)
      BY <1>0, <1>6, <2>1, FoundKeeps DEF LoadMeta, At
    <2>2. CASE Found(r, TooSmall(meta.len))
      <3>1. meta.len \in Nat
        BY DEF TypeOK, MaxLen
      <3>2. TooSmall(meta.len) \in Outcomes
        BY <3>1, OutcomesTyped
      <3> QED
        BY <1>6, <2>2, <3>2, FoundKeeps DEF LoadMeta, At
    <2>3. CASE Retry(r)
      BY <1>6, <2>3, RetryKeeps DEF LoadMeta, At
    <2>4. CASE /\ meta.offset = l.meta.offset
               /\ Step(r, "copy", [l EXCEPT !.meta = meta])
      <3> DEFINE m == [l EXCEPT !.meta = meta]
      <3>1. /\ m \in Locals /\ m.attempts = l.attempts /\ m.copy = l.copy
            /\ m.outcome = l.outcome /\ m.key = l.key /\ m.seen = l.seen
            /\ m.meta = meta
        BY <1>0 DEF Locals, TypeOK, Metas
      <3>2. pc[r] = "meta" /\ meta.len \in Nat
        BY <1>6 DEF LoadMeta, At, TypeOK, MaxLen
      <3>3. m.copy = <<>> /\ Len(m.copy) = 0 /\ m.meta.offset \in Blocks
            /\ m.key \in Keys /\ committed[m.key] \in m.seen
            /\ m.attempts < MaxAttempts
        BY <1>0, <2>4, <3>1, <3>2 DEF PlaceOK
      <3> HIDE DEF m
      <3>4. PlaceOK("copy", m)
        BY <3>1, <3>2, <3>3 DEF PlaceOK
      <3>5. Step(r, "copy", m)
        BY <2>4 DEF m
      <3> QED
        BY <3>1, <3>2, <3>4, <3>5, StepKeeps DEF Places, At
    <2> QED
      BY <1>6, <2>1, <2>2, <2>3, <2>4 DEF LoadMeta
  <1>7. CASE LoadWord(r)
    <2> DEFINE c == Len(l.copy)
               w == words[l.meta.offset][c + 1]
               m == [l EXCEPT !.copy = Append(l.copy, w)]
    <2>1. /\ pc[r] = "copy" /\ c < l.meta.len
          /\ Step(r, "copy", m)
      BY <1>7 DEF LoadWord, At
    <2>2. /\ l.meta.offset \in Blocks /\ l.meta.len \in 0 .. MaxLen
          /\ c \in Nat /\ l.copy \in Seq(Content)
      BY <1>0, <2>1, LenProperties DEF PlaceOK, Locals, Metas
    <2>3. w \in Content
      <3>1. c + 1 \in 1 .. MaxLen
        BY <2>1, <2>2 DEF MaxLen
      <3> QED
        <4> DEFINE f == words[l.meta.offset]
        <4>1. f \in [1 .. MaxLen -> Content]
          BY <2>2 DEF TypeOK, Content
        <4> HIDE DEF f
        <4>2. f[c + 1] \in Content
          BY <3>1, <4>1
        <4> QED
          BY <4>2 DEF f
    <2> HIDE DEF w
    <2>4. Append(l.copy, w) \in Seq(Content) /\ Len(Append(l.copy, w)) = c + 1
      BY <2>2, <2>3
    <2>5. /\ m \in Locals /\ m.attempts = l.attempts
          /\ m.copy = Append(l.copy, w)
          /\ m.outcome = l.outcome /\ m.key = l.key /\ m.seen = l.seen
          /\ m.meta = l.meta
      BY <1>0, <2>4 DEF Locals
    <2> HIDE DEF m
    <2>6. Len(m.copy) <= m.meta.len
      BY <2>1, <2>2, <2>4, <2>5 DEF MaxLen
    <2>7. PlaceOK("copy", m)
      BY <1>0, <2>1, <2>5, <2>6 DEF PlaceOK
    <2> QED
      BY <2>1, <2>5, <2>7, StepKeeps DEF Places, At
  <1>8. CASE LoadsDone(r)
    <2>1. pc[r] = "copy" /\ Hit(l.copy) \in Outcomes
      BY <1>0, <1>8, OutcomesTyped DEF LoadsDone, At, Locals
    <2>2. CASE Retry(r)
      BY <2>1, <2>2, RetryKeeps
    <2>3. CASE Found(r, Hit(l.copy))
      BY <2>1, <2>3, FoundKeeps
    <2>4. CASE Step(r, "done", [l EXCEPT !.outcome = Hit(l.copy)])
      <3> DEFINE m == [l EXCEPT !.outcome = Hit(l.copy)]
      <3>1. /\ m \in Locals /\ m.attempts = l.attempts
            /\ m.key = l.key /\ m.seen = l.seen
        BY <1>0, <2>1 DEF Locals
      <3> HIDE DEF m
      <3>2. m.attempts # MaxAttempts
        BY <1>0, <2>1, <3>1, SeqlockAssumption DEF PlaceOK, Locals
      <3>3. PlaceOK("done", m)
        BY <1>0, <2>1, <3>1, <3>2 DEF PlaceOK
      <3>4. Step(r, "done", m)
        BY <2>4 DEF m
      <3> QED
        BY <2>1, <3>1, <3>3, <3>4, StepKeeps DEF Places, At
    <2> QED
      BY <1>8, <2>2, <2>3, <2>4 DEF LoadsDone
  <1>9. CASE LoadSeq2Early(r)
    <2> DEFINE o == [NoOutcome EXCEPT !.kind = "early"]
               m == [l EXCEPT !.seq2 = seq, !.outcome = o]
    <2>1. /\ m \in Locals /\ m.attempts = l.attempts /\ m.copy = l.copy
          /\ m.key = l.key /\ m.seen = l.seen /\ m.meta = l.meta
      BY <1>0, OutcomesTyped DEF Locals, TypeOK
    <2>2. pc[r] = "copy" /\ Step(r, "copy", m)
      BY <1>9 DEF LoadSeq2Early, At
    <2> HIDE DEF m
    <2>3. PlaceOK("copy", m)
      BY <1>0, <2>1, <2>2 DEF PlaceOK
    <2> QED
      BY <2>1, <2>2, <2>3, StepKeeps DEF Places, At
  <1>10. CASE Validate(r)
    <2>1. pc[r] = "validate"
      BY <1>10 DEF Validate, At
    <2>2. CASE Retry(r)
      BY <2>1, <2>2, RetryKeeps
    <2>3. CASE Step(r, "done", l)
      <3>1. l.attempts # MaxAttempts
        BY <1>0, <2>1, SeqlockAssumption DEF PlaceOK, Locals
      <3>2. PlaceOK("done", l)
        BY <1>0, <2>1, <3>1 DEF PlaceOK
      <3> QED
        BY <1>0, <2>1, <2>3, <3>2, StepKeeps DEF Places, At
    <2> QED
      BY <1>10, <2>2, <2>3 DEF Validate
  <1>11. CASE GetEnd(r)
    <2>1. Step(r, "idle", Idle) /\ ~At(r, "locked") /\ PlaceOK("idle", Idle)
      BY <1>11 DEF GetEnd, At, PlaceOK
    <2> QED
      BY <2>1, IdleTyped, StepKeeps DEF Places
  <1>12. CASE LockedGet(r)
    <2>1. /\ pc[r] = "lock" /\ holder = Free /\ holder' = r
          /\ pc' = [pc EXCEPT ![r] = "locked"]
          /\ UNCHANGED <<memory, setVars, rd>>
      BY <1>12 DEF LockedGet, At
    <2>2. TypeOK'
      BY <2>1 DEF TypeOK, memory, setVars
    <2>3. SetOK'
      <3>1. Now' = Now
        BY <2>1 DEF Now, memory
      <3>2. stores = <<>>
        BY <2>1 DEF SetOK, Free, Writer
      <3> QED
        BY <2>1, <3>1, <3>2, SeqlockAssumption DEF SetOK, setVars, Free, Writer
    <2>4. GetOK'
      <3>1. \A q \in Readers : PlaceOK(pc[q], rd[q])'
        <4> TAKE q \in Readers
        <4>1. CASE q = r
          <5>1. pc'[q] = "locked"
            BY <2>1, <4>1 DEF TypeOK
          <5> QED
            BY <1>0, <2>1, <4>1, <5>1 DEF PlaceOK, setVars
        <4>2. CASE q # r
          BY <2>1, <4>2 DEF PlaceOK, GetOK, setVars
        <4> QED
          BY <4>1, <4>2
      <3>2. \A q \in Readers : pc'[q] = "locked" <=> holder' = q
        BY <2>1, SeqlockAssumption DEF GetOK, TypeOK
      <3> QED
        BY <2>1, <3>1, <3>2 DEF GetOK
    <2> QED
      BY <2>2, <2>3, <2>4
  <1>13. CASE LockedReturn(r)
    <2> DEFINE o == LockedOutcome(r)
               m == [l EXCEPT !.outcome = o]
    <2>1. /\ pc[r] = "locked" /\ holder = r /\ holder' = Free
          /\ pc' = [pc EXCEPT ![r] = "done"]
          /\ rd' = [rd EXCEPT ![r] = m]
          /\ UNCHANGED <<memory, setVars>>
      BY <1>13 DEF LockedReturn, At, GetOK
    <2>2. o \in Outcomes /\ Agrees(committed[l.key], o)
      BY <2>1, LockedReads DEF At
    <2> HIDE DEF o
    <2>3. /\ m \in Locals /\ m.attempts = l.attempts /\ m.outcome = o
          /\ m.key = l.key /\ m.seen = l.seen
      BY <1>0, <2>2 DEF Locals
    <2> HIDE DEF m
    <2>4. rd'[r] = m /\ pc'[r] = "done" /\ rd' \in [Readers -> Locals]
          /\ \A q \in Readers \ {r} : rd'[q] = rd[q] /\ pc'[q] = pc[q]
      BY <2>1, <2>3 DEF GetOK, TypeOK
    <2>5. TypeOK'
      <3>1. \A q \in Readers : /\ rd'[q].attempts \in 0 .. MaxAttempts
                               /\ rd'[q].seq1 \in 0 .. SeqMod - 1
        BY <2>4 DEF Locals
      <3> QED
        BY <2>1, <3>1 DEF TypeOK, memory, setVars
    <2>6. SetOK'
      <3>1. Now' = Now
        BY <2>1 DEF Now, memory
      <3>2. stores = <<>>
        BY <2>1, SeqlockAssumption DEF SetOK
      <3> QED
        BY <2>1, <3>1, <3>2, SeqlockAssumption DEF SetOK, setVars, Free, Writer
    <2>7. GetOK'
      <3>1. \A q \in Readers : PlaceOK(pc[q], rd[q])'
        <4> TAKE q \in Readers
        <4>1. CASE q = r
          <5>1. Explained(m) /\ m.key \in Keys /\ committed[m.key] \in m.seen
            BY <1>0, <2>1, <2>2, <2>3 DEF PlaceOK, Explained
          <5> QED
            BY <2>1, <2>4, <4>1, <5>1 DEF PlaceOK, setVars
        <4>2. CASE q # r
          BY <2>1, <2>4, <4>2 DEF PlaceOK, GetOK, setVars
        <4> QED
          BY <4>1, <4>2
      <3>2. \A q \in Readers : pc'[q] = "locked" <=> holder' = q
        BY <2>1, <2>4, SeqlockAssumption DEF GetOK
      <3> QED
        BY <2>4, <3>1, <3>2 DEF GetOK
    <2> QED
      BY <2>5, <2>6, <2>7
  <1> QED
    BY <1>1, <1>2, <1>3, <1>4, <1>5, <1>6, <1>7, <1>8, <1>9, <1>10, <1>11,
       <1>12, <1>13 DEF GetNext

-----------------------------------------------------------------------------
LEMMA IInvInit == Init => IInv
  <1> SUFFICES ASSUME Init PROVE IInv
    OBVIOUS
  <1>1. TypeOK
    <2>1. seq \in 0 .. SeqMod - 1 /\ entry \in BOOLEAN /\ sets \in 0 .. MaxSets
      <3>1. MaxSets \in Nat /\ FirstSeq \in 0 .. SeqMod - 1
        BY SeqlockAssumption
      <3>2. seq \in 0 .. SeqMod - 1 /\ sets \in 0 .. MaxSets
        BY <3>1 DEF Init
      <3>3. entry \in BOOLEAN
        BY DEF Init
      <3> QED
        BY <3>2, <3>3
    <2>2. meta \in [offset : Blocks \cup {NoBlock}, len : 0 .. MaxLen]
      BY IdleTyped DEF Init, Metas
    <2>3. /\ header \in [Blocks -> Keys \cup {Absent}]
          /\ words \in [Blocks -> [1 .. MaxLen -> Words \cup {0}]]
      BY DEF Init
    <2>4. \A r \in Readers : /\ rd[r].attempts \in 0 .. MaxAttempts
                             /\ rd[r].seq1 \in 0 .. SeqMod - 1
      BY IdleTyped DEF Init, Locals
    <2> QED
      BY <2>1, <2>2, <2>3, <2>4 DEF Init, TypeOK, Free
  <1>2. SetOK
    <2>1. LeadsTo(<<>>, Now, Now) /\ Now \in Memory
      BY <1>1, NoPart, NowInMemory DEF Part
    <2>2. Means(Now, after)
      BY DEF Init, Means, FindsIn, Now
    <2>3. committed \in Results /\ after \in Results
      BY DEF Init, Results
    <2>4. stores = <<>> /\ <<>> \in Seq(AnyStore) /\ holder # Writer
          /\ committed = after
      BY DEF Init, Free, Writer
    <2> QED
      BY <2>1, <2>2, <2>3, <2>4 DEF SetOK
  <1>3. GetOK
    <2>1. rd \in [Readers -> Locals] /\ pc = [r \in Readers |-> "idle"]
          /\ holder = Free
      BY IdleTyped DEF Init
    <2>2. \A r \in Readers : PlaceOK(pc[r], rd[r])
      BY <2>1 DEF PlaceOK
    <2> QED
      BY <2>1, <2>2, SeqlockAssumption DEF GetOK
  <1> QED
    BY <1>1, <1>2, <1>3 DEF IInv

LEMMA IInvStep == IInv /\ [Next]_vars => IInv'
  <1> SUFFICES ASSUME IInv, [Next]_vars PROVE IInv'
    OBVIOUS
  <1>1. CASE \/ \E k \in Keys, v \in Values, b \in Blocks : SetBegin(k, v, b)
             \/ SetFails
    BY <1>1, SetBeginKeeps
  <1>2. CASE SetNext
    BY <1>2, SetStoreKeeps DEF SetNext
  <1>3. CASE \E r \in Readers :
               \/ \E k \in Keys, cap \in Capacities : GetBegin(r, k, cap)
               \/ GetNext(r)
               \/ LockedGet(r)
    BY <1>3, ReaderKeeps
  <1>4. CASE UNCHANGED vars
    <2>1. Now' = Now
      BY <1>4 DEF vars, memory, Now
    <2> QED
      BY <1>4, <2>1 DEF IInv, TypeOK, SetOK, GetOK, PlaceOK, vars, memory,
                        setVars, getVars
  <1> QED
    BY <1>1, <1>2, <1>3, <1>4 DEF Next

LEMMA IInvHolds == Spec => []IInv
  BY IInvInit, IInvStep, PTL DEF Spec

(* The variables keep their types, on any processor.                          *)
THEOREM TypesHold == Spec => []TypeOK
  <1>1. IInv => TypeOK
    BY DEF IInv
  <1> QED
    BY <1>1, IInvHolds, PTL

(* Where no value is empty, a get() that fell back to the lock returns what   *)
(* was true of its key during the call, on any processor.                     *)
THEOREM LockedReadsLinearize ==
    <<>> \notin Values => (Spec => []LockedLinearizable)
  <1> SUFFICES ASSUME <<>> \notin Values PROVE Spec => []LockedLinearizable
    OBVIOUS
  <1>1. IInv => LockedLinearizable
    <2> SUFFICES ASSUME IInv, NEW r \in Readers, pc[r] = "done",
                        rd[r].attempts = MaxAttempts
                 PROVE  \E v \in rd[r].seen : Explains(v, rd[r].outcome)
      BY DEF LockedLinearizable, At
    <2>1. Explained(rd[r]) /\ rd[r] \in Locals
      BY DEF IInv, GetOK, PlaceOK
    <2>2. rd[r].seen \subseteq Values \cup {Absent}
      BY <2>1 DEF Locals
    <2>3. <<>> \notin rd[r].seen
      BY <2>2, SeqlockAssumption
    <2> QED
      BY <2>1, <2>3 DEF Explained, Agrees
  <1> QED
    BY <1>1, IInvHolds, PTL

-----------------------------------------------------------------------------
(* What follows is about a processor that keeps the order of the program.     *)

(* The first store of the set() under way is made; how often seq has been     *)
(* advanced.                                                                  *)
Begun == stores # <<>> /\ ~(Len(stores) > 1 /\ stores[1].cell = "seq")
Version == IF stores = <<>> THEN 2 * sets
           ELSE IF Begun THEN 2 * sets - 1 ELSE 2 * sets - 2
SeqAt(n) == (FirstSeq + n) % SeqMod

(* The stores come between two stores to seq, the second of which is last.    *)
OrderOK ==
    /\ seq = SeqAt(Version)
    /\ ~Begun => Means(Now, committed)
    /\ stores # <<>> =>
          /\ sets > 0
          /\ stores[Len(stores)] = SeqStore(SeqAt(2 * sets))
          /\ \A i \in 2 .. Len(stores) - 1 : stores[i].cell # "seq"
          /\ ~Begun => stores[1] = SeqStore(SeqAt(2 * sets - 1))

Reading == {"entry", "offset", "key", "meta", "copy", "validate"}

(* What a get() has loaded is what the cells hold, if seq is what it was.     *)
Fresh(p, l) ==
    /\ p = "offset" => entry
    /\ p = "key" => entry /\ LiveSlot /\ l.meta = meta
    /\ p = "meta" => Finds(l.key) /\ l.meta = meta
    /\ p = "copy" => /\ Finds(l.key) /\ l.meta = meta /\ meta.len > 0
                     /\ \A j \in 1 .. Len(l.copy) :
                           l.copy[j] = words[meta.offset][j]
    /\ p = "validate" => Explains(committed[l.key], l.outcome)

ReadOK(p, l) ==
    /\ p \in Reading =>
          /\ Even(l.seq1)
          /\ \E n \in 0 .. Version : l.seq1 = SeqAt(n)
          /\ seq = l.seq1 => Fresh(p, l)
    /\ p = "copy" => l.outcome.kind = "none"
    /\ p = "done" /\ l.attempts < MaxAttempts =>
          \E v \in l.seen : Explains(v, l.outcome)

ReadsOK == \A r \in Readers : ReadOK(pc[r], rd[r])

OInv == IInv /\ OrderOK /\ ReadsOK

LEMMA Numbers ==
    /\ SeqMod \in Nat \ {0} /\ FirstSeq \in 0 .. SeqMod - 1
    /\ SeqMod % 2 = 0 /\ FirstSeq % 2 = 0
    /\ MaxSets \in Nat /\ 2 * MaxSets < SeqMod
  BY SeqlockAssumption

LEMMA WrapIs ==
    ASSUME NEW c \in 0 .. 2 * SeqMod - 1
    PROVE  c % SeqMod = IF c < SeqMod THEN c ELSE c - SeqMod
  <1>1. CASE c < SeqMod
    BY <1>1, Numbers
  <1>2. CASE c >= SeqMod
    <2>1. c - SeqMod \in 0 .. SeqMod - 1
      BY <1>2, Numbers
    <2>2. c = SeqMod * 1 + (c - SeqMod)
      BY <1>2, Numbers
    <2> QED
      BY <1>2, <2>1, <2>2, Numbers
  <1> QED
    BY <1>1, <1>2, Numbers

LEMMA SeqAtIs ==
    ASSUME NEW n \in 0 .. SeqMod - 1
    PROVE  SeqAt(n) = IF FirstSeq + n < SeqMod THEN FirstSeq + n
                                               ELSE FirstSeq + n - SeqMod
  <1>1. PICK c \in 0 .. 2 * SeqMod - 1 : c = FirstSeq + n
    BY Numbers
  <1>2. c % SeqMod = IF c < SeqMod THEN c ELSE c - SeqMod
    BY WrapIs
  <1>3. SeqAt(n) = c % SeqMod
    BY <1>1 DEF SeqAt
  <1> QED
    BY <1>1, <1>2, <1>3, Numbers

(* No two versions of a run have the same number.                             *)
LEMMA SeqAtDiffers ==
    ASSUME NEW m \in 0 .. SeqMod - 1, NEW n \in 0 .. SeqMod - 1, m < n
    PROVE  SeqAt(m) # SeqAt(n)
  BY SeqAtIs, Numbers

LEMMA SeqAtNext ==
    ASSUME NEW n \in 0 .. SeqMod - 2
    PROVE  Advanced(SeqAt(n)) = SeqAt(n + 1)
  <1>1. n \in 0 .. SeqMod - 1 /\ n + 1 \in 0 .. SeqMod - 1
    BY Numbers
  <1>2. /\ SeqAt(n) = IF FirstSeq + n < SeqMod THEN FirstSeq + n
                                               ELSE FirstSeq + n - SeqMod
        /\ SeqAt(n + 1) = IF FirstSeq + (n + 1) < SeqMod
                            THEN FirstSeq + (n + 1)
                            ELSE FirstSeq + (n + 1) - SeqMod
    BY <1>1, SeqAtIs
  <1>3. SeqAt(n) \in 0 .. SeqMod - 1
    BY <1>2, Numbers
  <1> DEFINE c == SeqAt(n) + 1
  <1>4. c \in 0 .. 2 * SeqMod - 1
    BY <1>3, Numbers
  <1> HIDE DEF c
  <1>5. c % SeqMod = IF c < SeqMod THEN c ELSE c - SeqMod
    BY <1>4, WrapIs
  <1>6. Advanced(SeqAt(n)) = c % SeqMod
    BY DEF Advanced, c
  <1> QED
    BY <1>2, <1>3, <1>5, <1>6, Numbers DEF c

LEMMA SeqAtParity ==
    ASSUME NEW n \in 0 .. SeqMod - 1
    PROVE  Even(SeqAt(n)) <=> Even(n)
  <1>1. /\ SeqAt(n) = FirstSeq + n \/ SeqAt(n) = FirstSeq + n - SeqMod
        /\ FirstSeq \in Int /\ SeqMod \in Int /\ n \in Int
    BY SeqAtIs, Numbers
  <1> QED
    BY <1>1, Numbers DEF Even

LEMMA VersionType ==
    ASSUME IInv, OrderOK
    PROVE  /\ Version \in 0 .. SeqMod - 1
           /\ sets \in Nat /\ 2 * sets \in 0 .. SeqMod - 1
           /\ stores = <<>> => Version = 2 * sets
           /\ stores # <<>> /\ Begun => Version = 2 * sets - 1
           /\ stores # <<>> /\ ~Begun => Version = 2 * sets - 2
           /\ Even(Version) <=> ~Begun
           /\ Even(seq) <=> ~Begun
  <1>1. sets \in Nat /\ sets <= MaxSets
    BY Numbers DEF IInv, TypeOK
  <1>2. stores # <<>> => sets > 0
    BY DEF OrderOK
  <1>3. /\ stores = <<>> => Version = 2 * sets
        /\ stores # <<>> /\ Begun => Version = 2 * sets - 1
        /\ stores # <<>> /\ ~Begun => Version = 2 * sets - 2
    BY DEF Version
  <1>4. stores = <<>> => ~Begun
    BY DEF Begun
  <1>5. /\ Version \in 0 .. SeqMod - 1
        /\ 2 * sets \in 0 .. SeqMod - 1
    BY <1>1, <1>2, <1>3, Numbers
  <1>6. Even(Version) <=> ~Begun
    BY <1>1, <1>2, <1>3, <1>4 DEF Even
  <1>7. Even(seq) <=> Even(Version)
    BY <1>5, SeqAtParity DEF OrderOK
  <1> QED
    BY <1>1, <1>3, <1>5, <1>6, <1>7

LEMMA SettledNext ==
    (TypeOK /\ SetOK /\ stores = <<>> => Means(Now, committed))'
  <1>1. TypeOK /\ SetOK /\ stores = <<>> => Means(Now, committed)
    BY Settled
  <1> QED
    BY <1>1, PTL

LEMMA OrderInit == Init => OrderOK
  <1> SUFFICES ASSUME Init PROVE OrderOK
    OBVIOUS
  <1>1. IInv /\ stores = <<>> /\ sets = 0 /\ seq = FirstSeq
    BY IInvInit DEF Init
  <1>2. Means(Now, committed)
    BY <1>1, Settled DEF IInv
  <1>3. SeqAt(0) = FirstSeq
    BY SeqAtIs, Numbers
  <1>4. Version = 0
    BY <1>1 DEF Version
  <1> QED
    BY <1>1, <1>2, <1>3, <1>4 DEF OrderOK

LEMMA OrderBegin ==
    ASSUME OInv,
           \/ \E k \in Keys, v \in Values, b \in Blocks : SetBegin(k, v, b)
           \/ SetFails
    PROVE  OrderOK' /\ ReadsOK'
  <1> USE DEF OInv
  <1>0. TypeOK /\ SetOK
    BY DEF IInv
  <1>1. PICK body \in Seq(NonSeq), result \in Results, x \in Memory :
          SetBegins(body \o <<SeqStore(Advanced(Advanced(seq)))>>, result)
    BY <1>0, SetShape
  <1> DEFINE first == SeqStore(Advanced(seq))
             last == SeqStore(Advanced(Advanced(seq)))
  <1>2. /\ stores' = <<first>> \o (body \o <<last>>)
        /\ holder = Free /\ sets' = sets + 1 /\ sets < MaxSets
        /\ UNCHANGED <<memory, committed, getVars>>
    BY <1>1 DEF SetBegins
  <1>3. stores = <<>> /\ ~Begun /\ Version = 2 * sets /\ sets \in Nat
    <2>1. stores = <<>>
      BY <1>0, <1>2 DEF SetOK, Free, Writer
    <2> QED
      BY <2>1, VersionType DEF Begun
  <1>4. /\ first = SeqStore(SeqAt(2 * sets' - 1))
        /\ last = SeqStore(SeqAt(2 * sets'))
    <2>1. /\ 2 * sets \in 0 .. SeqMod - 2 /\ 2 * sets + 1 \in 0 .. SeqMod - 2
          /\ 2 * sets + 1 + 1 = 2 * sets' /\ 2 * sets + 1 = 2 * sets' - 1
      BY <1>2, <1>3, Numbers
    <2>2. /\ Advanced(SeqAt(2 * sets)) = SeqAt(2 * sets + 1)
          /\ Advanced(SeqAt(2 * sets + 1)) = SeqAt(2 * sets + 1 + 1)
      BY <2>1, SeqAtNext
    <2>3. seq = SeqAt(2 * sets)
      BY <1>3 DEF OrderOK
    <2> QED
      BY <2>1, <2>2, <2>3
  <1> DEFINE n == Len(body)
  <1>5. /\ first.cell = "seq" /\ last.cell = "seq"
        /\ \A i \in 1 .. n : body[i].cell # "seq"
    <2>1. first.cell = "seq" /\ last.cell = "seq"
      BY DEF SeqStore, Store
    <2>2. \A i \in 1 .. n : body[i] \in NonSeq
      BY ElementOfSeq
    <2> QED
      BY <2>1, <2>2 DEF NonSeq, EntryStores, MetaStores, HeaderStores,
                        WordStores
  <1>6. /\ stores' # <<>> /\ Len(stores') = n + 2 /\ n \in Nat
        /\ stores'[1] = first /\ stores'[n + 2] = last
        /\ \A i \in 2 .. n + 1 : stores'[i].cell # "seq"
    <2> HIDE DEF first, last
    <2> DEFINE S == NonSeq \cup {first, last}
               tail == body \o <<last>>
    <2>1. /\ body \in Seq(S) /\ <<first>> \in Seq(S) /\ <<last>> \in Seq(S)
          /\ n \in Nat
      <3>1. body \in Seq(S)
        BY SeqMonotonic
      <3>2. first \in S /\ last \in S
        OBVIOUS
      <3> HIDE DEF S
      <3> QED
        BY <3>1, <3>2
    <2> HIDE DEF S
    <2>2. /\ tail \in Seq(S) /\ Len(tail) = n + 1 /\ tail[n + 1] = last
          /\ \A i \in 1 .. n : tail[i] = body[i]
      <3>1. /\ tail \in Seq(S) /\ Len(tail) = n + Len(<<last>>)
            /\ \A i \in 1 .. n + Len(<<last>>) :
                 tail[i] = IF i <= n THEN body[i] ELSE <<last>>[i - n]
        BY <2>1, ConcatProperties
      <3>2. Len(<<last>>) = 1 /\ <<last>>[1] = last
        OBVIOUS
      <3> HIDE DEF tail
      <3>3. tail[n + 1] = <<last>>[n + 1 - n]
        BY <2>1, <3>1, <3>2
      <3>4. n + 1 - n = 1
        BY <2>1
      <3> QED
        BY <2>1, <3>1, <3>2, <3>3, <3>4
    <2> HIDE DEF tail
    <2>3. /\ Len(stores') = n + 2 /\ stores'[1] = first
          /\ \A i \in 2 .. n + 2 : stores'[i] = tail[i - 1]
      <3>1. /\ Len(stores') = Len(<<first>>) + (n + 1)
            /\ \A i \in 1 .. Len(<<first>>) + (n + 1) :
                 stores'[i] = IF i <= Len(<<first>>) THEN <<first>>[i]
                                       ELSE tail[i - Len(<<first>>)]
        BY <1>2, <2>1, <2>2, ConcatProperties DEF tail
      <3>2. Len(<<first>>) = 1 /\ <<first>>[1] = first
        OBVIOUS
      <3>3. /\ Len(stores') = 1 + (n + 1)
            /\ \A i \in 1 .. 1 + (n + 1) :
                 stores'[i] = IF i <= 1 THEN <<first>>[i] ELSE tail[i - 1]
        BY <3>1, <3>2
      <3> QED
        BY <2>1, <3>2, <3>3
    <2>4. ASSUME NEW i \in 2 .. n + 1 PROVE stores'[i].cell # "seq"
      <3>1. i - 1 \in 1 .. n /\ i \in 2 .. n + 2
        BY <2>1
      <3> QED
        BY <1>5, <2>2, <2>3, <3>1
    <2>5. stores'[n + 2] = last
      <3>1. n + 2 \in 2 .. n + 2 /\ n + 2 - 1 = n + 1
        BY <2>1
      <3> QED
        BY <2>2, <2>3, <3>1
    <2>6. stores' # <<>>
      BY <2>1, <2>3
    <2> QED
      BY <2>1, <2>3, <2>4, <2>5, <2>6
  <1> HIDE DEF first, last, n
  <1>7. ~Begun' /\ Version' = Version
    <2>1. Len(stores') > 1
      BY <1>6
    <2>2. ~Begun'
      BY <1>5, <1>6, <2>1 DEF Begun
    <2> QED
      BY <1>2, <1>3, <1>6, <2>2 DEF Version
  <1>8. Now' = Now /\ committed' = committed /\ seq' = seq
        /\ pc' = pc /\ rd' = rd /\ entry' = entry /\ meta' = meta
        /\ header' = header /\ words' = words
    BY <1>2 DEF Now, memory, getVars
  <1>9. OrderOK'
    <2>1. seq' = SeqAt(Version')
      BY <1>7, <1>8 DEF OrderOK
    <2>2. Means(Now', committed')
      BY <1>3, <1>8 DEF OrderOK
    <2>3. sets' > 0
      BY <1>2, <1>3
    <2>4. \A i \in 2 .. Len(stores') - 1 : stores'[i].cell # "seq"
      BY <1>6
    <2> QED
      BY <1>4, <1>6, <2>1, <2>2, <2>3, <2>4 DEF OrderOK
  <1>10. ReadsOK'
    BY <1>7, <1>8 DEF ReadsOK, ReadOK, Fresh, Finds, LiveSlot
  <1> QED
    BY <1>9, <1>10

LEMMA OrderStore ==
    ASSUME ~Weak, OInv, IInv', NEW i \in DOMAIN stores, SetStore(i)
    PROVE  /\ OrderOK'
           /\ \/ Version' = Version /\ seq' = seq /\ Begun
              \/ Version' = Version + 1
  <1> USE DEF OInv
  <1>0. /\ stores \in Seq(AnyStore) /\ i \in 1 .. Len(stores)
        /\ Len(stores) \in Nat /\ stores # <<>>
    BY LenProperties DEF IInv, SetOK
  <1>1. i = 1
    BY DEF SetStore, MayStore
  <1>2. /\ seq' = IF stores[1].cell = "seq" THEN stores[1].val ELSE seq
        /\ stores' = Without(stores, 1) /\ sets' = sets
    BY <1>1 DEF SetStore
  <1>3. /\ stores' \in Seq(AnyStore) /\ Len(stores') = Len(stores) - 1
        /\ \A h \in 1 .. Len(stores) - 1 : stores'[h] = stores[h + 1]
    <2>1. /\ Without(stores, 1) \in Seq(AnyStore)
          /\ Len(Without(stores, 1)) = Len(stores) - 1
          /\ \A h \in 1 .. Len(stores) - 1 :
               Without(stores, 1)[h] = IF h < 1 THEN stores[h] ELSE stores[h + 1]
      BY <1>0, <1>1, WithoutProperties
    <2> QED
      BY <1>0, <1>2, <2>1
  <1>4. /\ seq = SeqAt(Version) /\ sets > 0 /\ sets \in Nat
        /\ stores[Len(stores)] = SeqStore(SeqAt(2 * sets))
        /\ \A h \in 2 .. Len(stores) - 1 : stores[h].cell # "seq"
        /\ ~Begun => stores[1] = SeqStore(SeqAt(2 * sets - 1))
        /\ Begun => Version = 2 * sets - 1
        /\ ~Begun => Version = 2 * sets - 2
    BY <1>0, VersionType DEF OrderOK
  <1>5. \A n : SeqStore(n).cell = "seq" /\ SeqStore(n).val = n
    BY DEF SeqStore, Store
  <1>6. CASE Len(stores) > 1
    <2>1. stores' # <<>> /\ Len(stores') \in Nat
      BY <1>0, <1>3, <1>6
    <2>2. Begun'
      <3>1. ASSUME Len(stores') > 1 PROVE stores'[1].cell # "seq"
        <4>1. stores'[1] = stores[2] /\ 2 \in 2 .. Len(stores) - 1
          BY <1>0, <1>3, <3>1
        <4> QED
          BY <1>4, <4>1
      <3> QED
        BY <2>1, <3>1 DEF Begun
    <2>3. Version' = 2 * sets - 1
      BY <1>2, <2>1, <2>2 DEF Version
    <2>4. stores'[Len(stores')] = SeqStore(SeqAt(2 * sets))
      <3>1. Len(stores') \in 1 .. Len(stores) - 1
            /\ Len(stores') + 1 = Len(stores)
        BY <1>0, <1>3, <1>6
      <3> QED
        BY <1>3, <1>4, <3>1
    <2>5. \A h \in 2 .. Len(stores') - 1 : stores'[h].cell # "seq"
      <3> TAKE h \in 2 .. Len(stores') - 1
      <3>1. h \in 1 .. Len(stores) - 1 /\ h + 1 \in 2 .. Len(stores) - 1
        BY <1>0, <1>3
      <3> QED
        BY <1>3, <1>4, <3>1
    <2>6. seq' = SeqAt(2 * sets - 1)
      <3>1. CASE Begun
        BY <1>2, <1>4, <1>6, <3>1 DEF Begun
      <3>2. CASE ~Begun
        BY <1>2, <1>4, <1>5, <3>2
      <3> QED
        BY <3>1, <3>2
    <2>7. OrderOK'
      BY <1>2, <1>4, <2>2, <2>3, <2>4, <2>5, <2>6 DEF OrderOK
    <2>8. CASE Begun
      BY <1>2, <1>4, <1>6, <2>3, <2>7, <2>8 DEF Begun
    <2>9. CASE ~Begun
      BY <1>4, <2>3, <2>7, <2>9
    <2> QED
      BY <2>8, <2>9
  <1>7. CASE ~(Len(stores) > 1)
    <2>1. Len(stores) = 1 /\ Begun
      BY <1>0, <1>7 DEF Begun
    <2>2. stores' = <<>>
      BY <1>3, <2>1, EmptySeq
    <2>3. Version' = 2 * sets
      BY <1>2, <2>2 DEF Version
    <2>4. seq' = SeqAt(2 * sets)
      BY <1>2, <1>4, <1>5, <2>1
    <2>5. Means(Now, committed)'
      BY <2>2, SettledNext DEF IInv
    <2>6. OrderOK'
      BY <2>2, <2>3, <2>4, <2>5 DEF OrderOK
    <2> QED
      BY <1>4, <2>1, <2>3, <2>6
  <1> QED
    BY <1>6, <1>7

LEMMA ReadsStore ==
    ASSUME ~Weak, OInv, IInv', NEW i \in DOMAIN stores, SetStore(i)
    PROVE  ReadsOK'
  <1> USE DEF OInv
  <1>1. OrderOK' /\ (\/ Version' = Version /\ seq' = seq /\ Begun
                     \/ Version' = Version + 1)
    BY OrderStore
  <1>2. /\ Version \in 0 .. SeqMod - 1
        /\ Even(seq) <=> ~Begun
    BY VersionType
  <1>3. Version' \in 0 .. SeqMod - 1 /\ seq' = SeqAt(Version')
    <2>1. Version' \in 0 .. SeqMod - 1
      <3>1. sets' \in Nat /\ sets' <= MaxSets
        BY Numbers DEF IInv, TypeOK
      <3>2. stores' # <<>> => sets' > 0
        BY <1>1 DEF OrderOK
      <3>3. \/ Version' = 2 * sets'
            \/ stores' # <<>> /\ Version' = 2 * sets' - 1
            \/ stores' # <<>> /\ Version' = 2 * sets' - 2
        BY DEF Version
      <3> QED
        BY <3>1, <3>2, <3>3, Numbers
    <2> QED
      BY <1>1, <2>1 DEF OrderOK
  <1>4. ASSUME NEW r \in Readers PROVE ReadOK(pc[r], rd[r])'
    <2> DEFINE l == rd[r]
    <2>1. l \in Locals /\ ReadOK(pc[r], l) /\ pc' = pc
      BY DEF IInv, GetOK, ReadsOK, SetStore
    <2>2. /\ rd'[r].seq1 = l.seq1 /\ rd'[r].outcome = l.outcome
          /\ rd'[r].attempts = l.attempts
          /\ l.seen \subseteq rd'[r].seen
      <3>1. \/ rd' = rd
            \/ rd' = [q \in Readers |->
                        IF pc[q] = "idle" THEN rd[q]
                        ELSE [rd[q] EXCEPT !.seen = @ \cup {after[rd[q].key]}]]
        BY DEF SetStore
      <3>2. CASE rd' = rd
        BY <3>2
      <3>3. CASE rd' # rd
        <4>1. rd'[r] = IF pc[r] = "idle" THEN l
                       ELSE [l EXCEPT !.seen = @ \cup {after[l.key]}]
          BY <3>1, <3>3
        <4> QED
          BY <2>1, <4>1 DEF Locals
      <3> QED
        BY <3>2, <3>3
    <2>3. CASE pc[r] \in Reading
      <3>1. PICK n \in 0 .. Version : l.seq1 = SeqAt(n)
        BY <2>1, <2>3 DEF ReadOK
      <3>2. Even(l.seq1)
        BY <2>1, <2>3 DEF ReadOK
      <3>3. seq' # l.seq1
        <4>1. CASE seq' = seq /\ Begun
          BY <1>2, <3>2, <4>1
        <4>2. CASE Version' = Version + 1
          <5>1. /\ n \in 0 .. SeqMod - 1 /\ n < Version'
            BY <1>2, <1>3, <4>2, Numbers
          <5> QED
            BY <1>3, <3>1, <5>1, SeqAtDiffers
        <4> QED
          BY <1>1, <4>1, <4>2
      <3>4. n \in 0 .. Version'
        BY <1>1, <1>2, <1>3
      <3> QED
        BY <2>1, <2>2, <2>3, <3>1, <3>2, <3>3, <3>4 DEF ReadOK, Reading
    <2>4. CASE pc[r] \notin Reading
      <3>1. (\E v \in l.seen : Explains(v, l.outcome))
              => \E v \in rd'[r].seen : Explains(v, rd'[r].outcome)
        BY <2>2
      <3> QED
        BY <2>1, <2>2, <2>4, <3>1 DEF ReadOK, Reading
    <2> QED
      BY <2>3, <2>4
  <1> QED
    BY <1>4 DEF ReadsOK

(* The steps of a get() that take no lock.                                    *)
LEMMA ReadsStep ==
    ASSUME OInv, NEW r \in Readers, NEW place, NEW locals,
           Step(r, place, locals), ReadOK(place, locals)
    PROVE  OrderOK' /\ ReadsOK'
  <1> USE DEF OInv
  <1>1. /\ pc' = [pc EXCEPT ![r] = place] /\ rd' = [rd EXCEPT ![r] = locals]
        /\ seq' = seq /\ entry' = entry /\ meta' = meta /\ header' = header
        /\ words' = words /\ stores' = stores
        /\ committed' = committed /\ sets' = sets
    BY DEF Step, memory, setVars
  <1>2. /\ rd'[r] = locals /\ pc'[r] = place
        /\ \A q \in Readers \ {r} : rd'[q] = rd[q] /\ pc'[q] = pc[q]
    BY <1>1 DEF IInv, GetOK, TypeOK
  <1>3. Now' = Now /\ Begun' = Begun /\ Version' = Version
    BY <1>1 DEF Now, Begun, Version
  <1>4. OrderOK'
    BY <1>1, <1>3 DEF OrderOK
  <1>5. ReadsOK'
    <2> SUFFICES ASSUME NEW q \in Readers PROVE ReadOK(pc[q], rd[q])'
      BY DEF ReadsOK
    <2>1. ReadOK(IF q = r THEN place ELSE pc[q], IF q = r THEN locals ELSE rd[q])
      BY DEF ReadsOK
    <2>2. /\ pc'[q] = IF q = r THEN place ELSE pc[q]
          /\ rd'[q] = IF q = r THEN locals ELSE rd[q]
      BY <1>2
    <2> QED
      BY <1>1, <1>3, <2>1, <2>2 DEF ReadOK, Fresh, Finds, LiveSlot
  <1> QED
    BY <1>4, <1>5

(* What a key that is found, or is not found, says of the committed values.   *)
LEMMA MemoryRead ==
    ASSUME IInv, Means(Now, committed), NEW k \in Keys
    PROVE  /\ ~Finds(k) => committed[k] = Absent
           /\ Finds(k) =>
                /\ committed[k] \in Seq(Words) /\ committed[k] # Absent
                /\ Len(committed[k]) = meta.len
                /\ \A j \in 1 .. meta.len :
                     committed[k][j] = words[meta.offset][j]
  <1> DEFINE copied == [j \in 1 .. meta.len |-> words[meta.offset][j]]
  <1>1. FindsIn(Now, k) <=> Finds(k)
    BY DEF FindsIn, Finds, LiveSlot, Now
  <1>2. CASE ~Finds(k)
    BY <1>1, <1>2 DEF Means
  <1>3. CASE Finds(k)
    <2>1. committed[k] = copied /\ committed[k] \in Values
      BY <1>1, <1>3 DEF Means, Now
    <2>2. meta.len \in Nat
      BY DEF IInv, TypeOK, MaxLen
    <2>3. DOMAIN copied = 1 .. meta.len
          /\ \A j \in 1 .. meta.len : copied[j] = words[meta.offset][j]
      OBVIOUS
    <2> HIDE DEF copied
    <2>4. copied \in Seq(Words) /\ Len(copied) = meta.len
      <3>1. copied \in Seq(Words)
        BY <2>1, ValueTyped
      <3> QED
        BY <2>2, <2>3, <3>1, LenProperties
    <2>5. copied # Absent
      BY <2>1, SeqlockAssumption
    <2> QED
      BY <1>3, <2>1, <2>3, <2>4, <2>5
  <1> QED
    BY <1>2, <1>3

LEMMA ReadsGet ==
    ASSUME ~Weak, OInv, NEW r \in Readers,
           \/ \E k \in Keys, cap \in Capacities : GetBegin(r, k, cap)
           \/ GetNext(r)
           \/ LockedGet(r)
    PROVE  OrderOK' /\ ReadsOK'
  <1> USE DEF OInv
  <1> DEFINE l == rd[r]
  <1>0. /\ l \in Locals /\ PlaceOK(pc[r], l) /\ ReadOK(pc[r], l)
        /\ l.seq1 \in 0 .. SeqMod - 1
    BY DEF IInv, GetOK, ReadsOK, Locals
  <1>e. ASSUME l.seq1 = seq, Even(l.seq1) PROVE Means(Now, committed)
    BY <1>e, VersionType DEF OrderOK
  <1>a. ASSUME Retry(r) PROVE OrderOK' /\ ReadsOK'
    <2>1. PICK place, m : place \in {"seq1", "lock"} /\ Step(r, place, m)
      BY <1>a DEF Retry
    <2>2. ReadOK(place, m)
      BY <2>1 DEF ReadOK, Reading
    <2> QED
      BY <2>1, <2>2, ReadsStep
  <1>b. ASSUME pc[r] \in Reading, NEW o \in Outcomes, Found(r, o),
               l.seq1 = seq /\ Means(Now, committed)
                 => Explains(committed[l.key], o)
        PROVE  OrderOK' /\ ReadsOK'
    <2> DEFINE m == [l EXCEPT !.outcome = o]
    <2>1. m.outcome = o /\ m.seq1 = l.seq1 /\ m.key = l.key
      BY <1>0 DEF Locals
    <2>2. Step(r, "validate", m)
      BY <1>b DEF Found
    <2> HIDE DEF m
    <2>3. Even(l.seq1) /\ \E n \in 0 .. Version : l.seq1 = SeqAt(n)
      BY <1>0, <1>b DEF ReadOK
    <2>4. seq = m.seq1 => Fresh("validate", m)
      BY <1>e, <1>b, <2>1, <2>3 DEF Fresh
    <2>5. ReadOK("validate", m)
      BY <2>1, <2>3, <2>4 DEF ReadOK, Reading
    <2> QED
      BY <2>2, <2>5, ReadsStep
  <1>c. ASSUME ~Finds(l.key), l.key \in Keys, Means(Now, committed)
        PROVE  Explains(committed[l.key], Miss)
    BY <1>c, MemoryRead DEF Explains, Miss
  <1>d. pc[r] \in {"entry", "offset", "key", "meta", "copy", "validate"} =>
          l.key \in Keys /\ committed[l.key] \in l.seen
    BY <1>0 DEF PlaceOK
  <1>1. ASSUME NEW k \in Keys, NEW cap \in Capacities, GetBegin(r, k, cap)
        PROVE  OrderOK' /\ ReadsOK'
    <2>1. PICK m : Step(r, "seq1", m)
      BY <1>1 DEF GetBegin
    <2>2. ReadOK("seq1", m)
      BY DEF ReadOK, Reading
    <2> QED
      BY <2>1, <2>2, ReadsStep
  <1>2. CASE LoadSeq1(r)
    <2> DEFINE m == [l EXCEPT !.seq1 = seq]
    <2>1. m.seq1 = seq /\ Even(seq) /\ Step(r, "entry", m)
      BY <1>0, <1>2 DEF Locals, LoadSeq1
    <2> HIDE DEF m
    <2>2. Version \in 0 .. Version /\ seq = SeqAt(Version)
      BY VersionType DEF OrderOK
    <2>3. ReadOK("entry", m)
      BY <2>1, <2>2 DEF ReadOK, Reading, Fresh
    <2> QED
      BY <2>1, <2>3, ReadsStep
  <1>3. CASE LoadEntry(r)
    <2>0. pc[r] = "entry"
      BY <1>3 DEF LoadEntry, At
    <2>1. CASE entry
      <3>1. Step(r, "offset", l) /\ ReadOK("offset", l)
        BY <1>0, <1>3, <2>0, <2>1 DEF LoadEntry, ReadOK, Reading, Fresh
      <3> QED
        BY <3>1, ReadsStep
    <2>2. CASE ~entry
      <3>1. ~Finds(l.key) /\ Found(r, Miss)
        BY <1>3, <2>2 DEF LoadEntry, Finds
      <3>2. Miss \in Outcomes /\ pc[r] \in Reading
        BY <2>0, OutcomesTyped DEF Reading
      <3> QED
        BY <1>b, <1>c, <1>d, <2>0, <3>1, <3>2
    <2> QED
      BY <2>1, <2>2
  <1>4. CASE LoadOffset(r)
    <2>0. pc[r] = "offset"
      BY <1>4 DEF LoadOffset, At
    <2>1. CASE LiveSlot
      <3> DEFINE m == [l EXCEPT !.meta = meta]
      <3>1. m.seq1 = l.seq1 /\ m.meta = meta /\ Step(r, "key", m)
        BY <1>0, <1>4, <2>1 DEF Locals, LoadOffset
      <3> HIDE DEF m
      <3>2. ReadOK("key", m)
        BY <1>0, <2>0, <2>1, <3>1 DEF ReadOK, Reading, Fresh
      <3> QED
        BY <3>1, <3>2, ReadsStep
    <2>2. CASE ~LiveSlot
      <3>1. ~Finds(l.key) /\ Found(r, Miss)
        BY <1>4, <2>2 DEF LoadOffset, Finds
      <3>2. Miss \in Outcomes /\ pc[r] \in Reading
        BY <2>0, OutcomesTyped DEF Reading
      <3> QED
        BY <1>b, <1>c, <1>d, <2>0, <3>1, <3>2
    <2> QED
      BY <2>1, <2>2
  <1>5. CASE LoadKey(r)
    <2>0. pc[r] = "key"
      BY <1>5 DEF LoadKey, At
    <2>1. CASE header[l.meta.offset] = l.key
      <3>1. Step(r, "meta", l)
        BY <1>5, <2>1 DEF LoadKey
      <3>2. ReadOK("meta", l)
        BY <1>0, <2>0, <2>1 DEF ReadOK, Reading, Fresh, Finds
      <3> QED
        BY <3>1, <3>2, ReadsStep
    <2>2. CASE header[l.meta.offset] # l.key
      <3>1. Found(r, Miss) /\ Miss \in Outcomes /\ pc[r] \in Reading
        BY <1>5, <2>0, <2>2, OutcomesTyped DEF LoadKey, Reading
      <3>2. ASSUME l.seq1 = seq, Means(Now, committed)
            PROVE  Explains(committed[l.key], Miss)
        <4>1. ~Finds(l.key)
          BY <1>0, <2>0, <2>2, <3>2 DEF ReadOK, Reading, Fresh, Finds
        <4> QED
          BY <1>c, <1>d, <2>0, <3>2, <4>1
      <3> QED
        BY <1>b, <3>1, <3>2
    <2> QED
      BY <2>1, <2>2
  <1>6. CASE LoadMeta(r)
    <2>0. pc[r] = "meta" /\ pc[r] \in Reading /\ meta.len \in Nat
          /\ Miss \in Outcomes /\ TooSmall(meta.len) \in Outcomes
      <3>1. meta.len \in Nat
        BY DEF IInv, TypeOK, MaxLen
      <3> QED
        BY <1>6, <3>1, OutcomesTyped DEF LoadMeta, At, Reading
    <2>f. seq = l.seq1 => Finds(l.key) /\ l.meta = meta
      BY <1>0, <2>0 DEF ReadOK, Fresh
    <2>1. CASE (meta.len = 0 \/ ~LiveSlot) /\ Found(r, Miss)
      <3>1. ASSUME l.seq1 = seq, Means(Now, committed)
            PROVE  Explains(committed[l.key], Miss)
        <4>1. CASE Finds(l.key) /\ meta.len = 0
          <5>1. committed[l.key] = <<>>
            BY <1>d, <2>0, <3>1, <4>1, MemoryRead, EmptySeq
          <5> QED
            BY <5>1 DEF Explains, Miss
        <4> QED
          BY <2>1, <2>f, <3>1, <4>1 DEF Finds
      <3> QED
        BY <1>b, <2>0, <2>1, <3>1
    <2>2. CASE Found(r, TooSmall(meta.len))
      <3>1. ASSUME l.seq1 = seq, Means(Now, committed)
            PROVE  Explains(committed[l.key], TooSmall(meta.len))
        <4>1. committed[l.key] # Absent /\ Len(committed[l.key]) = meta.len
          BY <1>d, <2>0, <2>f, <3>1, MemoryRead
        <4> QED
          BY <4>1 DEF Explains, TooSmall
      <3> QED
        BY <1>b, <2>0, <2>2, <3>1
    <2>3. CASE Retry(r)
      BY <1>a, <2>3
    <2>4. CASE /\ meta.offset = l.meta.offset /\ meta.len > 0
               /\ Step(r, "copy", [l EXCEPT !.meta = meta])
      <3> DEFINE m == [l EXCEPT !.meta = meta]
      <3>1. /\ m.seq1 = l.seq1 /\ m.meta = meta /\ m.key = l.key
            /\ m.outcome = NoOutcome /\ m.copy = <<>> /\ Step(r, "copy", m)
        BY <1>0, <2>0, <2>4 DEF Locals, PlaceOK
      <3> HIDE DEF m
      <3>2. m.outcome.kind = "none" /\ Len(m.copy) = 0
        BY <3>1 DEF NoOutcome
      <3>3. seq = m.seq1 => Fresh("copy", m)
        BY <2>f, <2>4, <3>1, <3>2 DEF Fresh
      <3>4. ReadOK("copy", m)
        BY <1>0, <2>0, <3>1, <3>2, <3>3 DEF ReadOK, Reading
      <3> QED
        BY <3>1, <3>4, ReadsStep
    <2>5. meta.len \in 1 .. l.cap => meta.len > 0
      BY <2>0
    <2> QED
      BY <1>6, <2>1, <2>2, <2>3, <2>4, <2>5 DEF LoadMeta
  <1>7. CASE LoadWord(r)
    <2> DEFINE c == Len(l.copy)
               w == words[l.meta.offset][c + 1]
               m == [l EXCEPT !.copy = Append(l.copy, w)]
    <2>1. /\ pc[r] = "copy" /\ c < l.meta.len
          /\ Step(r, "copy", m) /\ l.copy \in Seq(Content) /\ c \in Nat
      BY <1>0, <1>7, LenProperties DEF LoadWord, At, Locals
    <2>2. /\ m.seq1 = l.seq1 /\ m.meta = l.meta /\ m.key = l.key
          /\ m.outcome = l.outcome /\ m.copy = Append(l.copy, w)
      BY <1>0 DEF Locals
    <2>3. PICK u : u = w
      OBVIOUS
    <2>4. /\ Len(Append(l.copy, u)) = c + 1 /\ Append(l.copy, u)[c + 1] = u
          /\ \A j \in 1 .. c : Append(l.copy, u)[j] = l.copy[j]
      <3> DEFINE S == Content \cup {u}
      <3>1. l.copy \in Seq(S) /\ u \in S
        BY <2>1, SeqMonotonic
      <3> HIDE DEF S
      <3> QED
        BY <2>1, <3>1
    <2> HIDE DEF m, w
    <2>5. seq = m.seq1 => Fresh("copy", m)
      <3>1. ASSUME seq = l.seq1, NEW j \in 1 .. c + 1
            PROVE  Append(l.copy, u)[j] = words[meta.offset][j]
        <4>1. /\ l.meta = meta
              /\ \A i \in 1 .. c : l.copy[i] = words[meta.offset][i]
          BY <1>0, <2>1, <3>1 DEF ReadOK, Reading, Fresh
        <4>2. CASE j = c + 1
          BY <2>3, <2>4, <4>1, <4>2 DEF w
        <4>3. CASE j \in 1 .. c
          BY <2>4, <4>1, <4>3
        <4> QED
          BY <2>1, <3>1, <4>2, <4>3
      <3> QED
        BY <1>0, <2>1, <2>2, <2>3, <2>4, <3>1 DEF ReadOK, Reading, Fresh
    <2>6. ReadOK("copy", m)
      BY <1>0, <2>1, <2>2, <2>5 DEF ReadOK, Reading
    <2> QED
      BY <2>1, <2>6, ReadsStep
  <1>8. CASE LoadsDone(r)
    <2>1. /\ pc[r] = "copy" /\ pc[r] \in Reading /\ Len(l.copy) = l.meta.len
          /\ l.outcome.kind # "early"
      BY <1>0, <1>8 DEF LoadsDone, At, ReadOK, Reading
    <2>2. Found(r, Hit(l.copy)) /\ Hit(l.copy) \in Outcomes
      BY <1>0, <1>8, <2>1, OutcomesTyped DEF LoadsDone, Locals
    <2>3. ASSUME l.seq1 = seq, Means(Now, committed)
          PROVE  Explains(committed[l.key], Hit(l.copy))
      <3>1. /\ Finds(l.key) /\ l.meta = meta /\ meta.len > 0
            /\ \A j \in 1 .. Len(l.copy) : l.copy[j] = words[meta.offset][j]
        BY <1>0, <2>1, <2>3 DEF ReadOK, Fresh
      <3>2. /\ committed[l.key] \in Seq(Content)
            /\ Len(committed[l.key]) = meta.len
            /\ \A j \in 1 .. meta.len :
                 committed[l.key][j] = words[meta.offset][j]
        <4>1. Words \subseteq Content
          BY DEF Content
        <4> QED
          BY <1>d, <2>1, <2>3, <3>1, <4>1, MemoryRead, SeqMonotonic
      <3>3. l.copy \in Seq(Content)
        BY <1>0 DEF Locals
      <3>4. committed[l.key] = l.copy
        BY <2>1, <3>1, <3>2, <3>3, SeqEqual
      <3>5. committed[l.key] # <<>>
        BY <3>1, <3>2, EmptySeq
      <3> QED
        BY <3>4, <3>5 DEF Explains, Hit
    <2> QED
      BY <1>b, <2>1, <2>2, <2>3
  <1>9. CASE LoadSeq2Early(r)
    BY <1>9 DEF LoadSeq2Early
  <1>10. CASE Validate(r)
    <2>0. pc[r] = "validate"
      BY <1>10 DEF Validate, At
    <2>1. CASE Retry(r)
      BY <1>a, <2>1
    <2>2. CASE seq = l.seq1 /\ Step(r, "done", l)
      <3>1. Explains(committed[l.key], l.outcome)
        BY <1>0, <2>0, <2>2 DEF ReadOK, Reading, Fresh
      <3>2. ReadOK("done", l)
        BY <1>d, <2>0, <3>1 DEF ReadOK, Reading
      <3> QED
        BY <2>2, <3>2, ReadsStep
    <2> QED
      BY <1>10, <2>1, <2>2 DEF Validate
  <1>11. CASE GetEnd(r)
    <2>1. Step(r, "idle", Idle) /\ ReadOK("idle", Idle)
      BY <1>11 DEF GetEnd, ReadOK, Reading
    <2> QED
      BY <2>1, ReadsStep
  <1>12. CASE LockedGet(r) \/ LockedReturn(r)
    <2>1. /\ UNCHANGED <<memory, setVars>>
          /\ \A q \in Readers \ {r} : rd'[q] = rd[q] /\ pc'[q] = pc[q]
      BY <1>12 DEF LockedGet, LockedReturn, IInv, GetOK, TypeOK
    <2>2. /\ Now' = Now /\ Begun' = Begun /\ Version' = Version
          /\ seq' = seq /\ entry' = entry /\ meta' = meta /\ header' = header
          /\ words' = words /\ committed' = committed
          /\ stores' = stores /\ sets' = sets
      BY <2>1 DEF Now, Begun, Version, memory, setVars
    <2>3. OrderOK'
      BY <2>2 DEF OrderOK
    <2>4. ReadOK(pc[r], rd[r])'
      <3>1. CASE LockedGet(r)
        <4>1. pc'[r] = "locked"
          BY <3>1 DEF LockedGet, IInv, TypeOK
        <4> QED
          BY <4>1 DEF ReadOK, Reading
      <3>2. CASE LockedReturn(r)
        <4>1. pc'[r] = "done" /\ pc[r] = "locked"
              /\ rd'[r] = [l EXCEPT !.outcome = LockedOutcome(r)]
          BY <3>2 DEF LockedReturn, At, IInv, TypeOK, GetOK
        <4>2. rd'[r].attempts = l.attempts /\ l.attempts = MaxAttempts
          BY <1>0, <4>1 DEF Locals, PlaceOK
        <4>3. ~(rd'[r].attempts < MaxAttempts)
          BY <4>2, SeqlockAssumption
        <4> QED
          BY <4>1, <4>3 DEF ReadOK, Reading
      <3> QED
        BY <1>12, <3>1, <3>2
    <2>5. ReadsOK'
      <3> SUFFICES ASSUME NEW q \in Readers PROVE ReadOK(pc[q], rd[q])'
        BY DEF ReadsOK
      <3>1. CASE q = r
        BY <2>4, <3>1
      <3>2. CASE q # r
        <4>1. ReadOK(pc[q], rd[q]) /\ rd'[q] = rd[q] /\ pc'[q] = pc[q]
          BY <2>1, <3>2 DEF ReadsOK
        <4> QED
          BY <2>2, <4>1 DEF ReadOK, Fresh, Finds, LiveSlot
      <3> QED
        BY <3>1, <3>2
    <2> QED
      BY <2>3, <2>5
  <1> QED
    BY <1>1, <1>2, <1>3, <1>4, <1>5, <1>6, <1>7, <1>8, <1>9, <1>10, <1>11,
       <1>12 DEF GetNext

LEMMA OInvInit == Init => OInv
  <1>1. Init => ReadsOK
    BY DEF Init, ReadsOK, ReadOK, Reading
  <1> QED
    BY <1>1, IInvInit, OrderInit DEF OInv

LEMMA OInvStep == ~Weak => (OInv /\ [Next]_vars => OInv')
  <1> SUFFICES ASSUME ~Weak, OInv, [Next]_vars PROVE OInv'
    OBVIOUS
  <1>1. IInv'
    BY IInvStep DEF OInv
  <1>2. CASE \/ \E k \in Keys, v \in Values, b \in Blocks : SetBegin(k, v, b)
             \/ SetFails
    BY <1>1, <1>2, OrderBegin DEF OInv
  <1>3. CASE SetNext
    BY <1>1, <1>3, OrderStore, ReadsStore DEF SetNext, OInv
  <1>4. CASE \E r \in Readers :
               \/ \E k \in Keys, cap \in Capacities : GetBegin(r, k, cap)
               \/ GetNext(r)
               \/ LockedGet(r)
    BY <1>1, <1>4, ReadsGet DEF OInv
  <1>5. CASE UNCHANGED vars
    <2>1. Now' = Now /\ Begun' = Begun /\ Version' = Version
      BY <1>5 DEF vars, memory, setVars, Now, Begun, Version
    <2>2. OrderOK'
      BY <1>5, <2>1 DEF OInv, OrderOK, vars, memory, setVars
    <2>3. ReadsOK'
      BY <1>5, <2>1 DEF OInv, ReadsOK, ReadOK, Fresh, Finds, LiveSlot, vars,
                        memory, setVars, getVars
    <2> QED
      BY <1>1, <2>2, <2>3 DEF OInv
  <1> QED
    BY <1>2, <1>3, <1>4, <1>5 DEF Next

LEMMA OInvHolds == ~Weak => (Spec => []OInv)
  <1> SUFFICES ASSUME ~Weak PROVE Spec => []OInv
    OBVIOUS
  <1>1. OInv /\ [Next]_vars => OInv'
    BY OInvStep
  <1> QED
    BY <1>1, OInvInit, PTL DEF Spec

(* On a processor that keeps the order of the program an even seq means that  *)
(* the cells hold the committed values: no store of a set() that a get() can  *)
(* see lies outside its two stores to seq, also when it fails.                *)
THEOREM EvenIsCommitted == ~Weak => (Spec => []EvenMeansCommitted)
  <1> SUFFICES ASSUME ~Weak PROVE Spec => []EvenMeansCommitted
    OBVIOUS
  <1>1. OInv => EvenMeansCommitted
    <2> SUFFICES ASSUME OInv, Even(seq), NEW k \in Keys
                 PROVE  Stored(k) = committed[k]
      BY DEF EvenMeansCommitted
    <2>1. Means(Now, committed)
      BY VersionType DEF OInv, OrderOK
    <2>2. FindsIn(Now, k) <=> Finds(k)
      BY DEF FindsIn, Finds, LiveSlot, Now
    <2> QED
      BY <2>1, <2>2 DEF Means, Stored, Now
  <1> QED
    BY <1>1, OInvHolds, PTL

(* There every lock-free get() is linearizable: the hit, the length or the    *)
(* miss that it returns was true of its key during the call.                  *)
THEOREM GetsLinearize == ~Weak => (Spec => []GetLinearizable)
  <1> SUFFICES ASSUME ~Weak PROVE Spec => []GetLinearizable
    OBVIOUS
  <1>1. OInv => GetLinearizable
    BY DEF OInv, ReadsOK, ReadOK, GetLinearizable, At
  <1> QED
    BY <1>1, OInvHolds, PTL
=============================================================================

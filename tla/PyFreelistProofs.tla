-------------------------- MODULE PyFreelistProofs --------------------------
(* The bytes objects of get(): for any number of threads and any lengths and  *)
(* limits, the engine never writes into one that a caller holds or beyond its *)
(* end, and none is longer than the value it was given out for.               *)
(*                                                                            *)
(* What makes it inductive: the capacity noted for an object is never more    *)
(* than was allocated; an object in the hands of a get() is whole, is nobody  *)
(* else's and is in no slot of the list; and the one that the fast path reads *)
(* into stays in its slot because the GIL is kept until the read is over.     *)
EXTENDS PyCacheProofs

GoodBytes(b) ==
    /\ b \in Bytes
    /\ b.cap <= b.alloc
    /\ b.size <= b.cap
    /\ b.held => b.size <= b.given

GoodList(list) ==
    /\ list \in [FreelistSlots -> Bytes \cup {Null}]
    /\ \A i \in FreelistSlots : list[i] # Null => GoodBytes(list[i])

(* An object of n bytes that a get() has for itself.                          *)
GoodOutput(b, n) == GoodBytes(b) /\ ~b.held /\ b.size = n /\ b.cap = n

(* A call between its read and what it does with the answer.                  *)
Reads == [kind : {"get"}, out : Bytes \cup {Null}, length : Nat,
          attempt : Nat, found : Nat \cup {Null}]

GoodJob(j) == j # Null =>
    /\ j.kind = "set" => j.length \in Nat
    /\ j.kind = "again" => j.length \in Nat /\ j.attempt \in Nat
    /\ j.kind = "get" =>
         /\ j \in Reads
         /\ j.out # Null => GoodOutput(j.out, j.length)

GoodJobs ==
    /\ DOMAIN job = Threads
    /\ \A t \in Threads : GoodJob(job[t])

(* The fast path keeps the GIL, and its object stays in the list.             *)
FastRead == Reader \in Working("fast") =>
    /\ pc[Reader] = "held"
    /\ job[Reader].slot \in FreelistSlots
    /\ my_freelist[job[Reader].slot] # Null
    /\ ~my_freelist[job[Reader].slot].held

FreelistInv ==
    /\ value \in Nat \cup {Null}
    /\ my_get_capacity \in Nat
    /\ GoodList(my_freelist)
    /\ GoodJobs
    /\ FastRead

PcTyped == pc \in [Threads -> Places]

-----------------------------------------------------------------------------
(* The operations on the list.                                                *)

LEMMA FirstOfIn ==
    ASSUME NEW slots \in SUBSET FreelistSlots, slots # {}
    PROVE  FirstOf(slots) \in slots
  <1>1. \E i \in slots : \A j \in slots : i <= j
    <2>1. CASE 0 \in slots
      BY <2>1 DEF FreelistSlots
    <2>2. CASE 0 \notin slots
      <3>1. slots = {1}
        BY <2>2 DEF FreelistSlots
      <3> QED BY <3>1
    <2> QED BY <2>1, <2>2
  <1> QED
    BY <1>1 DEF FirstOf

(* A slot of the list takes an object.                                        *)
LEMMA PutGood ==
    ASSUME NEW list, GoodList(list), NEW i \in FreelistSlots, NEW b,
           b # Null => GoodBytes(b)
    PROVE  GoodList([list EXCEPT ![i] = b])
  BY DEF GoodList, GoodBytes

(* An object new or taken from the list is whole and has no other owner.      *)
LEMMA AcquireGood ==
    ASSUME GoodList(my_freelist), NEW n \in Nat
    PROVE  /\ GoodOutput(Acquired(n), Acquired(n).size)
           /\ Acquired(n).size \in Nat
           /\ GoodList(ListAfterAcquire(n))
  <1> DEFINE usable == {i \in FreelistSlots : Reusable(i, n)}
  <1>1. CASE usable = {}
    <2>1. Acquired(n) = NewBytes(n) /\ ListAfterAcquire(n) = my_freelist
      BY <1>1 DEF Acquired, ListAfterAcquire
    <2> QED
      BY <2>1 DEF NewBytes, GoodOutput, GoodBytes, Bytes
  <1>2. CASE usable # {}
    <2> DEFINE i == FirstOf(usable)
    <2>1. i \in FreelistSlots /\ my_freelist[i] # Null /\ ~my_freelist[i].held
      BY <1>2, FirstOfIn DEF Reusable
    <2>2. GoodBytes(my_freelist[i])
      BY <2>1 DEF GoodList
    <2>3. Acquired(n) = [my_freelist[i] EXCEPT !.size = my_freelist[i].cap]
      BY <1>2 DEF Acquired
    <2>4. ListAfterAcquire(n) = [my_freelist EXCEPT ![i] = Null]
      BY <1>2 DEF ListAfterAcquire
    <2> HIDE DEF i, usable
    <2>5. GoodList([my_freelist EXCEPT ![i] = Null])
      BY <2>1, PutGood
    <2>6. GoodOutput(Acquired(n), Acquired(n).size) /\ Acquired(n).size \in Nat
      BY <2>1, <2>2, <2>3 DEF GoodOutput, GoodBytes, Bytes
    <2> QED
      BY <2>4, <2>5, <2>6
  <1> QED
    BY <1>1, <1>2

LEMMA StoreGood ==
    ASSUME NEW list, GoodList(list), NEW b, GoodBytes(b)
    PROVE  GoodList(Store(list, b))
  <1> DEFINE free == {i \in FreelistSlots : list[i] # Null /\ ~list[i].held}
  <1>1. /\ EmptySlots(list) # {} => FirstOf(EmptySlots(list)) \in FreelistSlots
        /\ free # {} => FirstOf(free) \in FreelistSlots
    BY FirstOfIn DEF EmptySlots
  <1>2. \/ Store(list, b) = list
        \/ \E i \in FreelistSlots : Store(list, b) = [list EXCEPT ![i] = b]
    BY <1>1 DEF Store
  <1> QED
    BY <1>2, PutGood

LEMMA AbandonGood ==
    ASSUME NEW list, GoodList(list), NEW b, b # Null => GoodBytes(b)
    PROVE  GoodList(Abandon(list, b))
  <1>1. EmptySlots(list) # {} => FirstOf(EmptySlots(list)) \in FreelistSlots
    BY FirstOfIn DEF EmptySlots
  <1>2. \/ Abandon(list, b) = list
        \/ \E i \in FreelistSlots : Abandon(list, b) = [list EXCEPT ![i] = b]
    BY <1>1 DEF Abandon
  <1> QED
    BY <1>2, PutGood

(* An object is given out no longer than the value that was read into it.     *)
LEMMA GiveOutGood ==
    ASSUME NEW b, GoodBytes(b), NEW n \in Nat, n <= b.cap
    PROVE  GoodBytes(GiveOut(b, n))
  <1> DEFINE size == IF n < b.cap THEN n ELSE b.size
  <1>1. b \in Bytes /\ b.cap <= b.alloc /\ b.size <= b.cap
    BY DEF GoodBytes
  <1>2. size \in Nat /\ size <= b.cap /\ size <= n
    BY <1>1 DEF Bytes
  <1>3. GiveOut(b, n) = [b EXCEPT !.size = size, !.given = n, !.held = TRUE]
    BY DEF GiveOut
  <1> HIDE DEF size
  <1>4. GiveOut(b, n) \in Bytes
    BY <1>1, <1>2, <1>3 DEF Bytes
  <1>5. /\ GiveOut(b, n).alloc = b.alloc /\ GiveOut(b, n).cap = b.cap
        /\ GiveOut(b, n).size = size /\ GiveOut(b, n).given = n
    BY <1>1, <1>3 DEF Bytes
  <1> QED
    BY <1>1, <1>2, <1>4, <1>5 DEF GoodBytes
-----------------------------------------------------------------------------
(* What the steps of PyCalls leave alone.                                     *)

LEMMA OthersStay ==
    ASSUME PcTyped, NEW t \in Threads, NEW u \in Threads, u # t, NEW n, NEW place,
           \/ NativeSet(t, n) \/ NativeGet(t, n) \/ HeldReturns(t, place)
           \/ EngineReturns(t) \/ EndNativeCall(t, place)
    PROVE  pc'[u] = pc[u]
  <1>1. ASSUME ShortCall(t) PROVE pc'[u] = pc[u]
    BY <1>1 DEF ShortCall, EnterHeld, FindClosed, Move, PcTyped
  <1>2. ASSUME NEW probes \in BOOLEAN, LongCall(t, probes) PROVE pc'[u] = pc[u]
    BY <1>2 DEF LongCall, EnterHeld, FindClosed, BeginNativeCall, Move, PcTyped
  <1>3. (n > ProbedGet) \in BOOLEAN
    OBVIOUS
  <1>4. CASE NativeSet(t, n) \/ NativeGet(t, n)
    BY <1>1, <1>2, <1>3, <1>4 DEF NativeSet, NativeGet
  <1>5. CASE HeldReturns(t, place) \/ EngineReturns(t) \/ EndNativeCall(t, place)
    BY <1>5 DEF HeldReturns, EngineReturns, EndNativeCall, Move, PcTyped
  <1> QED
    BY <1>4, <1>5

(* close(), dealloc and __init__ are the business of threads in no call.      *)
LEMMA LifeLeavesHeld ==
    ASSUME PcTyped, NEW t \in Threads, LifeStep(t), NEW u \in Threads, pc[u] = "held"
    PROVE  pc'[u] = "held"
  <1>1. CASE CloseBegins(t) \/ WaitEnds(t) \/ DeinitBegins(t) \/ DeinitEnds(t)
             \/ InitReturns(t)
    BY <1>1 DEF CloseBegins, WaitEnds, DeinitBegins, DeinitEnds, InitReturns,
       Move, PcTyped
  <1>2. CASE Dealloc(t) \/ InitBegins(t)
    BY <1>2 DEF Dealloc, InitBegins, Quiescent
  <1> QED
    BY <1>1, <1>2 DEF LifeStep

LEMMA JobChange ==
    ASSUME GoodJobs, NEW t \in Threads, NEW j, GoodJob(j),
           job' = [job EXCEPT ![t] = j]
    PROVE  /\ GoodJobs'
           /\ job'[t] = j
           /\ \A u \in Threads : u # t => job'[u] = job[u]
  BY DEF GoodJobs, GoodJob, Reads, GoodOutput, GoodBytes, Bytes

(* A thread begins, goes on with or ends a call other than a fast read.       *)
LEMMA FastStays ==
    ASSUME FastRead, NEW t \in Threads, my_freelist' = my_freelist,
           t = Reader => Reader \notin Working("fast")',
           t # Reader => /\ pc'[Reader] = pc[Reader]
                         /\ job'[Reader] = job[Reader]
    PROVE  FastRead'
  BY ReaderAssumption DEF FastRead, Working
-----------------------------------------------------------------------------
(* One lemma per action.                                                      *)

LEMMA BeginsKeep ==
    ASSUME FreelistInv, PcTyped, NEW t \in Threads, NEW n \in Sizes,
           SetBegins(t, n) \/ GetIntoBegins(t, n)
    PROVE  FreelistInv'
  <1>1. PICK k : /\ k \in {[kind |-> "set", length |-> n], [kind |-> "get_into"]}
                 /\ job' = [job EXCEPT ![t] = k]
    BY DEF SetBegins, GetIntoBegins
  <1>2. GoodJob(k) /\ k.kind \notin {"fast"}
    BY <1>1, ReaderAssumption DEF GoodJob
  <1>3. GoodJobs' /\ job'[t] = k /\ \A u \in Threads : u # t => job'[u] = job[u]
    BY <1>1, <1>2, JobChange DEF FreelistInv
  <1>4. UNCHANGED <<value, readerVars>>
    BY DEF SetBegins, GetIntoBegins
  <1>5. t # Reader => pc'[Reader] = pc[Reader]
    BY OthersStay, ReaderAssumption DEF SetBegins, GetIntoBegins
  <1>6. t = Reader => Reader \notin Working("fast")'
    BY <1>2, <1>3 DEF Working
  <1>7. FastRead'
    BY <1>3, <1>4, <1>5, <1>6, FastStays, ReaderAssumption DEF FreelistInv, readerVars
  <1> QED
    BY <1>3, <1>4, <1>7 DEF FreelistInv, readerVars, GoodList

LEMMA OtherReturnsKeep ==
    ASSUME FreelistInv, PcTyped, NEW t \in Threads, SetReturns(t) \/ GetIntoReturns(t)
    PROVE  FreelistInv'
  <1>1. t \in Working("set") \/ t \in Working("get_into")
    BY DEF SetReturns, GetIntoReturns
  <1>2. job' = job \/ job' = [job EXCEPT ![t] = Null]
    BY DEF SetReturns, GetIntoReturns
  <1>3. /\ GoodJobs' /\ job'[t] \in {job[t], Null}
        /\ \A u \in Threads : u # t => job'[u] = job[u]
    <2>1. CASE job' = job
      BY <2>1 DEF FreelistInv, GoodJobs
    <2>2. CASE job' = [job EXCEPT ![t] = Null]
      BY <2>2, JobChange DEF FreelistInv, GoodJob
    <2> QED BY <1>2, <2>1, <2>2
  <1>4. value' \in Nat \cup {Null}
    <2>1. CASE SetReturns(t)
      <3>1. job[t].length \in Nat
        BY <2>1 DEF SetReturns, FreelistInv, GoodJobs, GoodJob, Working
      <3> QED BY <2>1, <3>1 DEF SetReturns, SetResults, FreelistInv
    <2>2. CASE GetIntoReturns(t)
      BY <2>2 DEF GetIntoReturns, FreelistInv
    <2> QED BY <2>1, <2>2
  <1>5. UNCHANGED readerVars
    BY DEF SetReturns, GetIntoReturns
  <1>6. t # Reader => pc'[Reader] = pc[Reader]
    BY OthersStay, ReaderAssumption DEF SetReturns, GetIntoReturns
  <1>7. t = Reader => Reader \notin Working("fast")'
    BY <1>1, <1>3 DEF Working
  <1>8. FastRead'
    BY <1>3, <1>5, <1>6, <1>7, FastStays, ReaderAssumption DEF FreelistInv, readerVars
  <1> QED
    BY <1>3, <1>4, <1>5, <1>8 DEF FreelistInv, readerVars, GoodList

LEMMA GetFastKeeps ==
    ASSUME FreelistInv, PcTyped, GetFast
    PROVE  FreelistInv'
  <1>1. PICK i \in FastSlots :
          /\ pc[Reader] = "idle" /\ ShortCall(Reader)
          /\ job' = [job EXCEPT ![Reader] = [kind |-> "fast", slot |-> i]]
          /\ UNCHANGED <<value, my_freelist, my_get_capacity>>
    BY DEF GetFast
  <1>2. GoodJob([kind |-> "fast", slot |-> i])
    BY DEF GoodJob
  <1>3. GoodJobs' /\ job'[Reader] = [kind |-> "fast", slot |-> i]
    BY <1>1, <1>2, JobChange, ReaderAssumption DEF FreelistInv
  <1>4. pc'[Reader] = "held"
    <2>1. handle # Null
      BY <1>1 DEF ShortCall, MayCall
    <2>2. Move(Reader, "held", handle)
      BY <1>1, <2>1 DEF ShortCall, EnterHeld, FindClosed
    <2> QED BY <2>2, ReaderAssumption DEF Move, PcTyped
  <1>5. i \in FreelistSlots /\ my_freelist[i] # Null /\ ~my_freelist[i].held
    BY DEF FastSlots, Reusable
  <1>6. FastRead'
    BY <1>1, <1>3, <1>4, <1>5 DEF FastRead
  <1> QED
    BY <1>1, <1>3, <1>6 DEF FreelistInv, GoodList

LEMMA GetFastReturnsKeeps ==
    ASSUME FreelistInv, GetFastReturns
    PROVE  FreelistInv'
  <1> DEFINE i == job[Reader].slot
  <1>1. /\ i \in FreelistSlots /\ my_freelist[i] # Null
        /\ GoodBytes(my_freelist[i])
    BY DEF GetFastReturns, FreelistInv, FastRead, GoodList
  <1>2. PICK found \in Answers :
          /\ \E j \in {[kind |-> "fallback"], Null} : job' = [job EXCEPT ![Reader] = j]
          /\ \/ /\ found # Null /\ found <= my_freelist[i].cap
                /\ my_freelist' = [my_freelist EXCEPT ![i] = GiveOut(my_freelist[i], found)]
                /\ my_get_capacity' = found
             \/ UNCHANGED <<my_freelist, my_get_capacity>>
    BY DEF GetFastReturns
  <1>3. found # Null => found \in Nat
    BY DEF Answers, FreelistInv
  <1>4. GoodList(my_freelist') /\ my_get_capacity' \in Nat
    <2>1. CASE UNCHANGED <<my_freelist, my_get_capacity>>
      BY <2>1 DEF FreelistInv
    <2>2. CASE /\ found # Null /\ found <= my_freelist[i].cap
               /\ my_freelist' = [my_freelist EXCEPT ![i] = GiveOut(my_freelist[i], found)]
               /\ my_get_capacity' = found
      <3>1. GoodBytes(GiveOut(my_freelist[i], found))
        BY <1>1, <1>3, <2>2, GiveOutGood
      <3> QED BY <1>1, <1>3, <2>2, <3>1, PutGood DEF FreelistInv
    <2> QED BY <1>2, <2>1, <2>2
  <1>5. PICK j \in {[kind |-> "fallback"], Null} : job' = [job EXCEPT ![Reader] = j]
    BY <1>2
  <1>6. GoodJob(j) /\ (j = Null \/ j.kind # "fast")
    BY <1>5 DEF GoodJob
  <1>7. GoodJobs' /\ job'[Reader] = j
    BY <1>5, <1>6, JobChange, ReaderAssumption DEF FreelistInv
  <1>8. FastRead'
    BY <1>6, <1>7 DEF FastRead, Working
  <1>9. value' = value
    BY DEF GetFastReturns
  <1> QED
    BY <1>4, <1>7, <1>8, <1>9 DEF FreelistInv, GoodList
(* A read into an object that the call has for itself, or into the stack.     *)
LEMMA ReadKeeps ==
    ASSUME FreelistInv, NEW bytes, NEW list, NEW attempt \in Nat,
           GoodList(list),
           bytes # Null => GoodOutput(bytes, bytes.size) /\ bytes.size \in Nat,
           Read(bytes, list, attempt)
    PROVE  FreelistInv'
  <1> DEFINE length == IF bytes = Null THEN StackSize ELSE bytes.size
             call == [kind |-> "get", out |-> bytes, length |-> length,
                      attempt |-> attempt, found |-> Null]
  <1>1. \/ job' = [job EXCEPT ![Reader] = Null] /\ my_freelist' = Abandon(list, bytes)
        \/ job' = [job EXCEPT ![Reader] = call] /\ my_freelist' = list
    BY DEF Read
  <1>2. length \in Nat
    BY ReaderAssumption
  <1>3. GoodJob(call)
    <2>1. bytes # Null => bytes \in Bytes /\ GoodOutput(bytes, length)
      BY DEF GoodOutput, GoodBytes
    <2>2. call \in Reads
      BY <1>2, <2>1 DEF Reads
    <2> QED BY <2>1, <2>2 DEF GoodJob
  <1>4. GoodList(my_freelist')
    BY <1>1, AbandonGood DEF GoodOutput
  <1> HIDE DEF length
  <1>5. PICK j \in {call, Null} : job' = [job EXCEPT ![Reader] = j]
    BY <1>1
  <1>6. GoodJob(j) /\ (j = Null \/ j.kind # "fast")
    BY <1>3, <1>5 DEF GoodJob
  <1>7. GoodJobs' /\ job'[Reader] = j
    BY <1>5, <1>6, JobChange, ReaderAssumption DEF FreelistInv
  <1>8. FastRead'
    BY <1>6, <1>7 DEF FastRead, Working
  <1>9. UNCHANGED <<value, my_get_capacity>>
    BY DEF Read
  <1> QED
    BY <1>4, <1>7, <1>8, <1>9 DEF FreelistInv, GoodList

LEMMA GetFallbackKeeps ==
    ASSUME FreelistInv, GetFallback \/ GetAgain
    PROVE  FreelistInv'
  <1>1. my_get_capacity \in Nat /\ GoodList(my_freelist)
    BY DEF FreelistInv
  <1>2. CASE GetFallback
    <2>1. CASE my_get_capacity > 0
      <3>1. Read(Acquired(my_get_capacity), ListAfterAcquire(my_get_capacity), 0)
        BY <1>2, <2>1 DEF GetFallback
      <3> QED BY <1>1, <3>1, AcquireGood, ReadKeeps
    <2>2. CASE ~(my_get_capacity > 0)
      <3>1. Read(Null, my_freelist, 0)
        BY <1>2, <2>2 DEF GetFallback
      <3> QED BY <1>1, <3>1, ReadKeeps
    <2> QED BY <2>1, <2>2
  <1>3. CASE GetAgain
    <2> DEFINE need == job[Reader].length
    <2>1. need \in Nat /\ job[Reader].attempt \in Nat
      BY <1>3, ReaderAssumption DEF GetAgain, Working, FreelistInv, GoodJobs, GoodJob
    <2>2. Read(Acquired(need), ListAfterAcquire(need), job[Reader].attempt)
      BY <1>3 DEF GetAgain
    <2> QED BY <1>1, <2>1, <2>2, AcquireGood, ReadKeeps
  <1> QED
    BY <1>2, <1>3

(* A call that has read, in the hands of the reader.                          *)
LEMMA ReadCall ==
    ASSUME FreelistInv, Reader \in Working("get")
    PROVE  /\ job[Reader] \in Reads
           /\ job[Reader].out # Null => GoodOutput(job[Reader].out, job[Reader].length)
  BY ReaderAssumption DEF FreelistInv, GoodJobs, GoodJob, Working

LEMMA GetAnsweredKeeps ==
    ASSUME FreelistInv, GetAnswered
    PROVE  FreelistInv'
  <1> DEFINE call == job[Reader]
  <1>1. PICK found \in Answers : job' = [job EXCEPT ![Reader].found = found]
    BY DEF GetAnswered
  <1> DEFINE answered == [call EXCEPT !.found = found]
  <1>2. /\ call \in Reads
        /\ call.out # Null => GoodOutput(call.out, call.length)
    BY ReadCall DEF GetAnswered
  <1>3. found \in Nat \cup {Null}
    BY DEF Answers, FreelistInv
  <1>4. /\ answered \in Reads /\ answered.out = call.out
        /\ answered.length = call.length /\ answered.kind = "get"
    BY <1>2, <1>3 DEF Reads
  <1>5. job' = [job EXCEPT ![Reader] = answered]
    BY <1>1
  <1> HIDE DEF answered
  <1>6. GoodJob(answered)
    BY <1>2, <1>4 DEF GoodJob
  <1>7. GoodJobs' /\ job'[Reader] = answered
    BY <1>5, <1>6, JobChange, ReaderAssumption DEF FreelistInv
  <1>8. FastRead'
    BY <1>4, <1>7 DEF FastRead, Working
  <1>9. UNCHANGED <<value, readerVars>>
    BY DEF GetAnswered
  <1> QED
    BY <1>7, <1>8, <1>9 DEF FreelistInv, GoodList, readerVars

LEMMA GoesOnKeeps ==
    ASSUME FreelistInv, Reader \in Working("get"), NEW found \in Nat \cup {Null},
           NEW place, GetGoesOn(found, place)
    PROVE  FreelistInv'
  <1> DEFINE call == job[Reader]
             fits == found # Null /\ found <= call.length
             next == [kind |-> "again", length |-> found, attempt |-> call.attempt + 1]
  <1>1. /\ call \in Reads
        /\ call.out # Null => GoodOutput(call.out, call.length)
    BY ReadCall
  <1>2. GoodList(my_freelist) /\ my_get_capacity \in Nat /\ value \in Nat \cup {Null}
    BY DEF FreelistInv
  <1>3. GoodList(my_freelist')
    <2>1. CASE fits /\ call.out # Null
      <3>1. GoodBytes(call.out) /\ found \in Nat /\ found <= call.out.cap
        BY <1>1, <2>1 DEF GoodOutput
      <3>2. my_freelist' = Store(my_freelist, GiveOut(call.out, found))
        BY <2>1 DEF GetGoesOn
      <3> QED BY <1>2, <3>1, <3>2, GiveOutGood, StoreGood
    <2>2. CASE ~(fits /\ call.out # Null)
      <3>1. my_freelist' = Abandon(my_freelist, call.out)
        BY <2>2 DEF GetGoesOn
      <3> QED BY <1>1, <1>2, <3>1, AbandonGood DEF GoodOutput
    <2> QED BY <2>1, <2>2
  <1>4. my_get_capacity' \in Nat /\ value' = value
    BY <1>2 DEF GetGoesOn
  <1>5. PICK j : /\ job' = [job EXCEPT ![Reader] = j]
                 /\ j = Null \/ (j = next /\ found # Null)
    BY DEF GetGoesOn
  <1>6. GoodJob(j) /\ (j = Null \/ j.kind # "fast")
    <2>1. call.attempt \in Nat
      BY <1>1 DEF Reads
    <2> QED BY <1>5, <2>1 DEF GoodJob
  <1>7. GoodJobs' /\ job'[Reader] = j
    BY <1>5, <1>6, JobChange, ReaderAssumption DEF FreelistInv
  <1>8. FastRead'
    BY <1>6, <1>7 DEF FastRead, Working
  <1> QED
    BY <1>2, <1>3, <1>4, <1>7, <1>8 DEF FreelistInv, GoodList

LEMMA GetReturnsKeeps ==
    ASSUME FreelistInv, GetReturns
    PROVE  FreelistInv'
  <1>1. \E found \in Answers \cup {job[Reader].found} :
          \E place \in {"idle", "between"} : GetGoesOn(found, place)
    BY DEF GetReturns
  <1>2. Reader \in Working("get")
    BY DEF GetReturns
  <1>3. Answers \cup {job[Reader].found} \subseteq Nat \cup {Null}
    BY <1>2, ReadCall DEF Answers, FreelistInv, Reads
  <1> QED
    BY <1>1, <1>2, <1>3, GoesOnKeeps

LEMMA DropKeeps ==
    ASSUME FreelistInv, NEW i \in FreelistSlots, Drop(i)
    PROVE  FreelistInv'
  <1> DEFINE b == my_freelist[i]
             dropped == [b EXCEPT !.held = FALSE, !.given = 0]
  <1>1. b # Null /\ b.held /\ GoodBytes(b)
    BY DEF Drop, FreelistInv, GoodList
  <1>2. my_freelist' = [my_freelist EXCEPT ![i] = dropped]
    BY DEF Drop
  <1>3. GoodBytes(dropped)
    BY <1>1 DEF GoodBytes, Bytes
  <1> HIDE DEF dropped
  <1>4. GoodList(my_freelist')
    BY <1>2, <1>3, PutGood DEF FreelistInv
  <1>5. UNCHANGED <<pc, value, my_get_capacity, job>>
    BY DEF Drop, callVars
  <1>6. FastRead'
    <2>1. \A s \in FreelistSlots : s # i => my_freelist'[s] = my_freelist[s]
      BY <1>2 DEF FreelistInv, GoodList
    <2> QED BY <1>1, <1>5, <2>1 DEF FastRead, Working, FreelistInv
  <1> QED
    BY <1>4, <1>5, <1>6 DEF FreelistInv, GoodList, GoodJobs

LEMMA LifeKeeps ==
    ASSUME FreelistInv, PcTyped, NEW t \in Threads, Life(t)
    PROVE  FreelistInv'
  <1>1. value' \in Nat \cup {Null} /\ UNCHANGED <<readerVars, job>>
    BY DEF Life, FreelistInv
  <1>2. pc[Reader] = "held" => pc'[Reader] = "held"
    BY LifeLeavesHeld, ReaderAssumption DEF Life
  <1>3. FastRead'
    BY <1>1, <1>2 DEF FastRead, Working, FreelistInv, readerVars
  <1> QED
    BY <1>1, <1>3 DEF FreelistInv, GoodList, GoodJobs, readerVars

-----------------------------------------------------------------------------
LEMMA FreelistInit == PyInit => FreelistInv
  BY ReaderAssumption DEF PyInit, FreelistInv, GoodList, GoodJobs, GoodJob,
     FastRead, Working

LEMMA FreelistStep ==
    ASSUME FreelistInv, PcTyped, [PyNext]_pyVars
    PROVE  FreelistInv'
  <1>1. CASE UNCHANGED pyVars
    BY <1>1 DEF pyVars, callVars, readerVars, FreelistInv, GoodList, GoodJobs,
       FastRead, Working
  <1>2. ASSUME NEW t \in Threads, NEW n \in Sizes, SetBegins(t, n) \/ GetIntoBegins(t, n)
        PROVE  FreelistInv'
    BY <1>2, BeginsKeep
  <1>3. CASE GetFast
    BY <1>3, GetFastKeeps
  <1>4. CASE GetFallback
    BY <1>4, GetFallbackKeeps
  <1>5. ASSUME NEW t \in Threads, Life(t) \/ Progress(t) PROVE FreelistInv'
    BY <1>5, LifeKeeps, OtherReturnsKeep, GetFastReturnsKeeps, GetAnsweredKeeps,
       GetReturnsKeeps, GetFallbackKeeps DEF Progress
  <1>6. ASSUME NEW i \in FreelistSlots, Drop(i) PROVE FreelistInv'
    BY <1>6, DropKeeps
  <1> QED
    BY <1>1, <1>2, <1>3, <1>4, <1>5, <1>6 DEF PyNext

LEMMA FreelistInvariant == PySpec => []FreelistInv
  <1>1. CallsInv => PcTyped
    BY DEF CallsInv, CallsTypeOK, PcTyped
  <1>2. PySpec => []PcTyped
    BY <1>1, ImplementsCalls, CallsInvariant, PTL
  <1>3. FreelistInv /\ PcTyped /\ [PyNext]_pyVars => FreelistInv'
    BY FreelistStep
  <1> QED
    BY <1>2, <1>3, FreelistInit, PTL DEF PySpec

(* The engine is never told of more bytes than the object it reads into has,  *)
(* however often the value grew while get() was at it.                        *)
THEOREM ReadsFit == PySpec => []BufferFits
  <1>1. FreelistInv => BufferFits
    <2> SUFFICES ASSUME FreelistInv, Output # Null
                 PROVE  Output.alloc >= IF Reader \in Working("fast") THEN Output.cap
                                                                 ELSE job[Reader].length
      BY DEF BufferFits
    <2>1. CASE Reader \in Working("fast")
      BY <2>1 DEF Output, FreelistInv, FastRead, GoodList, GoodBytes, Bytes
    <2>2. CASE Reader \notin Working("fast")
      <3>1. Reader \in Working("get") /\ Output = job[Reader].out
        BY <2>2 DEF Output
      <3>2. GoodOutput(Output, job[Reader].length)
        BY <3>1, ReadCall
      <3> QED BY <2>2, <3>2 DEF GoodOutput, GoodBytes, Bytes
    <2> QED BY <2>1, <2>2
  <1> QED
    BY <1>1, FreelistInvariant, PTL

(* The engine never writes into a bytes object that a caller of get() holds.  *)
THEOREM HeldBytesAreLeft == PySpec => []NeverWritesHeld
  <1>1. FreelistInv => NeverWritesHeld
    BY ReadCall DEF FreelistInv, FastRead, NeverWritesHeld, Output, GoodOutput
  <1> QED
    BY <1>1, FreelistInvariant, PTL

(* A result of get() has no bytes beyond those of the value that was read.    *)
THEOREM ResultsArePrefixes == PySpec => []GetReturnsPrefix
  <1>1. FreelistInv => GetReturnsPrefix
    BY DEF FreelistInv, GoodList, GoodBytes, GetReturnsPrefix
  <1> QED
    BY <1>1, FreelistInvariant, PTL

-----------------------------------------------------------------------------
(* The value is one that a set() brought, and the hint of get() a slot.       *)
Brought ==
    /\ value \in Sizes \cup {Null}
    /\ my_next_freelist_idx \in FreelistSlots
    /\ \A t \in Threads :
          job[t] # Null /\ job[t].kind = "set" => job[t].length \in Sizes

(* A call's record changes to one that sets nothing.                          *)
LEMMA NothingBrought ==
    ASSUME GoodJobs, Brought, NEW t \in Threads, NEW j,
           j # Null => j.kind # "set" \/ j.length \in Sizes,
           job' = [job EXCEPT ![t] = j],
           value' \in Sizes \cup {Null}, my_next_freelist_idx' \in FreelistSlots
    PROVE  Brought'
  <1>1. \A u \in Threads : job'[u] = IF u = t THEN j ELSE job[u]
    BY DEF GoodJobs
  <1> QED
    BY <1>1 DEF Brought

LEMMA BroughtStep ==
    ASSUME FreelistInv, Brought, [PyNext]_pyVars
    PROVE  Brought'
  <1>0. GoodJobs /\ Null \notin Sizes
    BY ReaderAssumption DEF FreelistInv
  <1>1. CASE UNCHANGED pyVars
    BY <1>1 DEF pyVars, readerVars, Brought
  <1>2. ASSUME NEW t \in Threads, NEW n \in Sizes,
               SetBegins(t, n) \/ GetIntoBegins(t, n)
        PROVE  Brought'
    <2>1. value' = value /\ my_next_freelist_idx' = my_next_freelist_idx
      BY <1>2 DEF SetBegins, GetIntoBegins, readerVars
    <2>2. CASE SetBegins(t, n)
      <3> DEFINE j == [kind |-> "set", length |-> n]
      <3>1. j.length \in Sizes /\ job' = [job EXCEPT ![t] = j]
        BY <2>2 DEF SetBegins
      <3> HIDE DEF j
      <3> QED
        BY <1>0, <2>1, <3>1, NothingBrought DEF Brought
    <2>3. CASE GetIntoBegins(t, n)
      <3> DEFINE j == [kind |-> "get_into"]
      <3>1. j.kind # "set" /\ job' = [job EXCEPT ![t] = j]
        BY <2>3 DEF GetIntoBegins
      <3> HIDE DEF j
      <3> QED
        BY <1>0, <2>1, <3>1, NothingBrought DEF Brought
    <2> QED
      BY <1>2, <2>2, <2>3
  <1>3. CASE GetFast
    <2>1. PICK i \in FastSlots :
            /\ my_next_freelist_idx' = Other(i) /\ value' = value
            /\ job' = [job EXCEPT ![Reader] = [kind |-> "fast", slot |-> i]]
      BY <1>3 DEF GetFast
    <2>2. Other(i) \in FreelistSlots
      BY <2>1 DEF FastSlots, FreelistSlots, Other
    <2> DEFINE j == [kind |-> "fast", slot |-> i]
    <2>3. j.kind # "set" /\ job' = [job EXCEPT ![Reader] = j]
      BY <2>1
    <2> HIDE DEF j
    <2> QED
      BY <1>0, <2>1, <2>2, <2>3, NothingBrought, ReaderAssumption DEF Brought
  <1>4. ASSUME NEW bytes, NEW list, NEW attempt, Read(bytes, list, attempt)
        PROVE  Brought'
    <2> DEFINE length == IF bytes = Null THEN StackSize ELSE bytes.size
               j == [kind |-> "get", out |-> bytes, length |-> length,
                     attempt |-> attempt, found |-> Null]
    <2>1. /\ value' = value /\ my_next_freelist_idx' = my_next_freelist_idx
          /\ \/ job' = [job EXCEPT ![Reader] = Null]
             \/ job' = [job EXCEPT ![Reader] = j]
      BY <1>4 DEF Read
    <2>2. j.kind # "set"
      OBVIOUS
    <2> HIDE DEF j
    <2> QED
      BY <1>0, <2>1, <2>2, NothingBrought, ReaderAssumption DEF Brought
  <1>5. CASE GetFallback \/ GetAgain
    BY <1>4, <1>5 DEF GetFallback, GetAgain
  <1>6. ASSUME NEW t \in Threads, SetReturns(t)
        PROVE  Brought'
    <2>1. job[t] # Null /\ job[t].kind = "set" /\ job[t].length \in Sizes
      BY <1>6 DEF SetReturns, Working, Brought
    <2>2. /\ value' = value \/ value' \in SetResults(job[t].length)
          /\ job' = job \/ job' = [job EXCEPT ![t] = Null]
          /\ my_next_freelist_idx' = my_next_freelist_idx
      BY <1>6 DEF SetReturns, readerVars
    <2>3. value' \in Sizes \cup {Null}
      BY <2>1, <2>2 DEF SetResults, Brought
    <2>4. CASE job' = job
      BY <2>2, <2>3, <2>4 DEF Brought
    <2>5. CASE job' = [job EXCEPT ![t] = Null]
      BY <1>0, <2>2, <2>3, <2>5, NothingBrought DEF Brought
    <2> QED
      BY <2>2, <2>4, <2>5
  <1>7. ASSUME NEW t \in Threads, GetIntoReturns(t)
        PROVE  Brought'
    <2>1. /\ value' = value /\ my_next_freelist_idx' = my_next_freelist_idx
          /\ job' = job \/ job' = [job EXCEPT ![t] = Null]
      BY <1>7 DEF GetIntoReturns, readerVars
    <2>2. CASE job' = job
      BY <2>1, <2>2 DEF Brought
    <2>3. CASE job' = [job EXCEPT ![t] = Null]
      BY <1>0, <2>1, <2>3, NothingBrought DEF Brought
    <2> QED
      BY <2>1, <2>2, <2>3
  <1>8. CASE GetFastReturns
    <2> DEFINE j == [kind |-> "fallback"]
    <2>1. /\ value' = value /\ my_next_freelist_idx' = my_next_freelist_idx
          /\ \/ job' = [job EXCEPT ![Reader] = Null]
             \/ job' = [job EXCEPT ![Reader] = j]
      BY <1>8 DEF GetFastReturns
    <2>2. j.kind # "set"
      OBVIOUS
    <2> HIDE DEF j
    <2> QED
      BY <1>0, <2>1, <2>2, NothingBrought, ReaderAssumption DEF Brought
  <1>9. CASE GetAnswered
    <2>1. PICK found \in Answers : job' = [job EXCEPT ![Reader].found = found]
      BY <1>9 DEF GetAnswered
    <2>2. PICK j : j = [job[Reader] EXCEPT !.found = found]
      OBVIOUS
    <2>3. j.kind # "set"
      <3>1. job[Reader] \in Reads /\ job[Reader].kind # "set"
        BY <1>9, ReadCall DEF GetAnswered, Working
      <3> QED
        BY <2>2, <3>1 DEF Reads
    <2>4. job' = [job EXCEPT ![Reader] = j]
      BY <2>1, <2>2
    <2>5. value' = value /\ my_next_freelist_idx' = my_next_freelist_idx
      BY <1>9 DEF GetAnswered, readerVars
    <2> QED
      BY <1>0, <2>3, <2>4, <2>5, NothingBrought, ReaderAssumption DEF Brought
  <1>10. CASE GetReturns
    <2>1. PICK found, place : GetGoesOn(found, place)
      BY <1>10 DEF GetReturns
    <2> DEFINE j == [kind |-> "again", length |-> found,
                     attempt |-> job[Reader].attempt + 1]
    <2>2. /\ value' = value /\ my_next_freelist_idx' = my_next_freelist_idx
          /\ \/ job' = [job EXCEPT ![Reader] = Null]
             \/ job' = [job EXCEPT ![Reader] = j]
      BY <2>1 DEF GetGoesOn
    <2>3. j.kind # "set"
      OBVIOUS
    <2> HIDE DEF j
    <2> QED
      BY <1>0, <2>2, <2>3, NothingBrought, ReaderAssumption DEF Brought
  <1>11. ASSUME NEW i \in FreelistSlots, Drop(i) PROVE Brought'
    BY <1>11 DEF Drop, Brought
  <1>12. ASSUME NEW t \in Threads, Life(t) PROVE Brought'
    BY <1>12 DEF Life, Brought, readerVars
  <1> QED
    BY <1>1, <1>2, <1>3, <1>5, <1>6, <1>7, <1>8, <1>9, <1>10, <1>11, <1>12
       DEF PyNext, Progress

(* The value in the engine, the list and what get() remembers keep their      *)
(* types, for any number of threads and any lengths.                          *)
THEOREM PyTypesHold == PySpec => []PyTypeOK
  <1>1. PyInit => Brought
    BY DEF PyInit, Brought, FreelistSlots
  <1>2. PySpec => []Brought
    <2>1. FreelistInv /\ Brought /\ [PyNext]_pyVars => Brought'
      BY BroughtStep
    <2> QED
      BY <1>1, <2>1, FreelistInvariant, PTL DEF PySpec
  <1>3. PySpec => []CallsTypeOK
    <2>1. CallsInv => CallsTypeOK
      BY DEF CallsInv
    <2> QED
      BY <2>1, ImplementsCalls, CallsInvariant, PTL
  <1>4. FreelistInv /\ Brought /\ CallsTypeOK => PyTypeOK
    BY DEF FreelistInv, Brought, GoodList, PyTypeOK
  <1> QED
    BY <1>2, <1>3, <1>4, FreelistInvariant, PTL
=============================================================================

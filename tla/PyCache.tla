------------------------------ MODULE PyCache -------------------------------
(* get() of the CPython extension (src/ext/python/caeneusmodule.c) and the    *)
(* bytes objects it keeps for reuse, on top of the call and life-cycle        *)
(* protocol of PyCalls.                                                       *)
(*                                                                            *)
(* The free list is thread-local: the list of one thread, Reader, is in the   *)
(* model, and the other threads set, read into buffers of their own, close    *)
(* and re-open.  A value is known by its length; one key is enough, because   *)
(* the list does not know which key a buffer served.                          *)
EXTENDS PyCalls

CONSTANTS
    Sizes,                \* lengths of values, and of buffers for get_into()
    Reader,               \* the thread whose get() and free list are modelled
    StackSize,            \* sizeof(stack_buf): 1024
    MaxFreelistCapacity,  \* MAX_FREELIST_CAPACITY
    MaxAttempts           \* attempts of the loop after the first read: 8

ASSUME ReaderAssumption ==
    /\ Reader \in Threads
    /\ Sizes \subseteq Nat
    /\ Null \notin Nat
    /\ {StackSize, MaxFreelistCapacity, MaxAttempts} \subseteq Nat \ {0}

VARIABLES
    value,         \* length of the value of the key in the engine, or Null
    my_freelist,   \* the bytes objects kept for reuse, or Null
    my_next_freelist_idx,
    my_get_capacity,
    job            \* the locals of each thread's call

readerVars == <<my_freelist, my_next_freelist_idx, my_get_capacity>>
pyVars == <<callVars, value, readerVars, job>>

FreelistSlots == {0, 1}

(* A bytes object: the bytes allocated; the capacity the extension notes for  *)
(* it (my_freelist_capacity or output_capacity); its length (ob_size); how    *)
(* long the value last given out in it is; whether a caller of get() still    *)
(* refers to it, that is, whether its reference count is more than the list's *)
(* or the call's own.                                                         *)
Bytes == [alloc : Nat, cap : Nat, size : Nat, given : Nat, held : BOOLEAN]

NewBytes(n) == [alloc |-> n, cap |-> n, size |-> n, given |-> 0, held |-> FALSE]

PyInit ==
    /\ CallsInit
    /\ value = Null
    /\ my_freelist = [i \in FreelistSlots |-> Null]
    /\ my_next_freelist_idx = 0
    /\ my_get_capacity = 0
    /\ job = [t \in Threads |-> Null]

Other(i) == 1 - i

FirstOf(slots) == CHOOSE i \in slots : \A j \in slots : i <= j

(* Mutant: the reference count is not looked at.                              *)
MutantReusable(i, n) == my_freelist[i] # Null /\ my_freelist[i].cap >= n

(* Not referred to by anyone else, and large enough.                          *)
Reusable(i, n) ==
    /\ my_freelist[i] # Null
    /\ ~my_freelist[i].held
    /\ my_freelist[i].cap >= n

(* acquire_get_output(): the object, and the list without it.                 *)
Acquired(n) ==
    LET usable == {i \in FreelistSlots : Reusable(i, n)}
        bytes  == my_freelist[FirstOf(usable)]
    IN  IF usable = {} THEN NewBytes(n) ELSE [bytes EXCEPT !.size = bytes.cap]

ListAfterAcquire(n) ==
    LET usable == {i \in FreelistSlots : Reusable(i, n)}
    IN  IF usable = {} THEN my_freelist
                       ELSE [my_freelist EXCEPT ![FirstOf(usable)] = Null]

EmptySlots(list) == {i \in FreelistSlots : list[i] = Null}

(* store_get_freelist(): an empty slot, or one whose object nobody refers to. *)
Store(list, bytes) ==
    LET free == {i \in FreelistSlots : list[i] # Null /\ ~list[i].held}
    IN  IF bytes.cap > MaxFreelistCapacity THEN list
        ELSE IF EmptySlots(list) # {}
          THEN [list EXCEPT ![FirstOf(EmptySlots(list))] = bytes]
        ELSE IF free # {} THEN [list EXCEPT ![FirstOf(free)] = bytes]
        ELSE list

(* abandon_get_output(): an object no value was given out in.                 *)
Abandon(list, bytes) ==
    IF \/ bytes = Null
       \/ bytes.cap > MaxFreelistCapacity
       \/ EmptySlots(list) = {}
      THEN list
      ELSE [list EXCEPT ![FirstOf(EmptySlots(list))] = bytes]

(* Mutant: the object keeps the length it had.                                *)
MutantGiveOut(bytes, n) == [bytes EXCEPT !.given = n, !.held = TRUE]

(* The object that was read into is cut to the value and returned.            *)
GiveOut(bytes, n) ==
    [bytes EXCEPT !.size = IF n < bytes.cap THEN n ELSE @,
                  !.given = n,
                  !.held = TRUE]

-----------------------------------------------------------------------------
(* What the engine may answer: the value, or a miss; an error of the engine   *)
(* ends a get() as a miss does.                                               *)
Answers == {value, Null}

(* A set() stores its value, fails, or its value is evicted again; a set() of *)
(* another key may evict the value.                                           *)
SetResults(n) == {n, value, Null}

Working(kind) == {t \in Threads : job[t] # Null /\ job[t].kind = kind}

(* cache_set_impl(), also behind cache[key] = value.                          *)
SetBegins(t, n) ==
    /\ pc[t] = "idle"
    /\ NativeSet(t, n)
    /\ job' = [job EXCEPT ![t] = [kind |-> "set", length |-> n]]
    /\ UNCHANGED <<value, readerVars>>

SetReturns(t) ==
    /\ t \in Working("set")
    /\ \/ /\ HeldReturns(t, "idle")
          /\ value' \in SetResults(job[t].length)
          /\ job' = [job EXCEPT ![t] = Null]
       \/ /\ EngineReturns(t)
          /\ value' \in SetResults(job[t].length)
          /\ UNCHANGED job
       \/ /\ EndNativeCall(t, "idle")
          /\ job' = [job EXCEPT ![t] = Null]
          /\ UNCHANGED value
    /\ UNCHANGED readerVars

(* cache_get_into(): one engine call into the caller's own buffer; a buffer   *)
(* that is too small is an error.                                             *)
GetIntoBegins(t, n) ==
    /\ pc[t] = "idle"
    /\ NativeGet(t, n)
    /\ job' = [job EXCEPT ![t] = [kind |-> "get_into"]]
    /\ UNCHANGED <<value, readerVars>>

GetIntoReturns(t) ==
    /\ t \in Working("get_into")
    /\ \/ /\ HeldReturns(t, "idle") \/ EndNativeCall(t, "idle")
          /\ job' = [job EXCEPT ![t] = Null]
       \/ EngineReturns(t) /\ UNCHANGED job
    /\ UNCHANGED <<value, readerVars>>

-----------------------------------------------------------------------------
(* cache_get_impl(), also behind cache[key]: the slots that serve its fast    *)
(* path, the next in turn before the other one.                               *)
FastSlots == {i \in FreelistSlots :
    /\ Reusable(i, my_get_capacity)
    /\ i # my_next_freelist_idx =>
          ~Reusable(my_next_freelist_idx, my_get_capacity)}

(* The engine reads straight into an object of the list, with the GIL kept    *)
(* whatever its size.                                                         *)
GetFast ==
    \E i \in FastSlots :
        /\ pc[Reader] = "idle"
        /\ ShortCall(Reader)
        /\ my_next_freelist_idx' = Other(i)
        /\ job' = [job EXCEPT ![Reader] = [kind |-> "fast", slot |-> i]]
        /\ UNCHANGED <<value, my_freelist, my_get_capacity>>

GetFastReturns ==
    /\ Reader \in Working("fast")
    /\ \E found \in Answers :
        LET i == job[Reader].slot
            fits == found # Null /\ found <= my_freelist[i].cap
            small == found # Null /\ ~fits
        IN  /\ HeldReturns(Reader, IF small THEN "between" ELSE "idle")
            /\ job' = [job EXCEPT ![Reader] =
                         IF small THEN [kind |-> "fallback"] ELSE Null]
            /\ IF fits
                 THEN /\ my_freelist' = [my_freelist EXCEPT ![i] = GiveOut(@, found)]
                      /\ my_get_capacity' = found
                 ELSE UNCHANGED <<my_freelist, my_get_capacity>>
    /\ UNCHANGED <<value, my_next_freelist_idx>>

(* native_get() into bytes (Null: the stack buffer); if the cache has been    *)
(* closed meanwhile the object is abandoned.                                  *)
Read(bytes, list, attempt) ==
    LET length == IF bytes = Null THEN StackSize ELSE bytes.size
    IN  /\ NativeGet(Reader, length)
        /\ IF pc'[Reader] = "idle"
             THEN /\ job' = [job EXCEPT ![Reader] = Null]
                  /\ my_freelist' = Abandon(list, bytes)
             ELSE /\ job' = [job EXCEPT ![Reader] =
                        [kind |-> "get", out |-> bytes, length |-> length,
                         attempt |-> attempt, found |-> Null]]
                  /\ my_freelist' = list
        /\ UNCHANGED <<value, my_next_freelist_idx, my_get_capacity>>

(* The first read of the fallback: as long as the last value, or the stack.   *)
GetFallback ==
    /\ \/ pc[Reader] = "idle" /\ FastSlots = {}
       \/ Reader \in Working("fallback")
    /\ IF my_get_capacity > 0
         THEN Read(Acquired(my_get_capacity),
                   ListAfterAcquire(my_get_capacity), 0)
         ELSE Read(Null, my_freelist, 0)

(* One turn of the loop: a buffer of the length that was asked for.           *)
GetAgain ==
    /\ Reader \in Working("again")
    /\ LET need == job[Reader].length
       IN  Read(Acquired(need), ListAfterAcquire(need), job[Reader].attempt)

(* The engine answers a call that has released the GIL.                       *)
GetAnswered ==
    /\ Reader \in Working("get")
    /\ EngineReturns(Reader)
    /\ \E found \in Answers : job' = [job EXCEPT ![Reader].found = found]
    /\ UNCHANGED <<value, readerVars>>

(* Mutant: an object that is too small is abandoned under the length that was *)
(* asked for.                                                                 *)
MutantGetGoesOn(found, place) ==
    LET call  == job[Reader]
        fits  == found # Null /\ found <= call.length
        again == found # Null /\ ~fits /\ call.attempt < MaxAttempts
    IN  /\ place = IF again THEN "between" ELSE "idle"
        /\ job' = [job EXCEPT ![Reader] =
                     IF again THEN [kind |-> "again", length |-> found,
                                    attempt |-> call.attempt + 1]
                              ELSE Null]
        /\ my_freelist' =
              IF fits /\ call.out # Null
                THEN Store(my_freelist, GiveOut(call.out, found))
                ELSE Abandon(my_freelist,
                             IF again /\ call.out # Null
                               THEN [call.out EXCEPT !.cap = found]
                               ELSE call.out)
        /\ my_get_capacity' = IF fits THEN found ELSE my_get_capacity
        /\ UNCHANGED <<value, my_next_freelist_idx>>

(* What get() does with an answer: a miss, a value, a value that needs more   *)
(* room and another attempt, or the error after the last one.                 *)
GetGoesOn(found, place) ==
    LET call  == job[Reader]
        fits  == found # Null /\ found <= call.length
        again == found # Null /\ ~fits /\ call.attempt < MaxAttempts
    IN  /\ place = IF again THEN "between" ELSE "idle"
        /\ job' = [job EXCEPT ![Reader] =
                     IF again THEN [kind |-> "again", length |-> found,
                                    attempt |-> call.attempt + 1]
                              ELSE Null]
        /\ my_freelist' =
              IF fits /\ call.out # Null
                THEN Store(my_freelist, GiveOut(call.out, found))
                ELSE Abandon(my_freelist, call.out)
        /\ my_get_capacity' = IF fits THEN found ELSE my_get_capacity
        /\ UNCHANGED <<value, my_next_freelist_idx>>

GetReturns ==
    /\ Reader \in Working("get")
    /\ \E place \in {"idle", "between"} :
         \/ \E found \in Answers :
               HeldReturns(Reader, place) /\ GetGoesOn(found, place)
         \/ EndNativeCall(Reader, place) /\ GetGoesOn(job[Reader].found, place)

(* Python code lets go of a result.                                           *)
Drop(i) ==
    /\ GilFree
    /\ my_freelist[i] # Null
    /\ my_freelist[i].held
    /\ my_freelist' = [my_freelist EXCEPT ![i].held = FALSE, ![i].given = 0]
    /\ UNCHANGED <<callVars, value, my_next_freelist_idx, my_get_capacity, job>>

(* close(), dealloc and __init__; a new engine is empty.                      *)
Life(t) ==
    /\ LifeStep(t)
    /\ value' = IF handle' \notin {handle, Null} THEN Null ELSE value
    /\ UNCHANGED <<readerVars, job>>

Progress(t) ==
    \/ SetReturns(t) \/ GetIntoReturns(t)
    \/ /\ t = Reader
       /\ \/ GetFastReturns \/ GetAnswered \/ GetReturns
          \/ pc[t] = "between" /\ (GetFallback \/ GetAgain)
    \/ pc[t] # "idle" /\ Life(t)

PyNext ==
    \/ \E t \in Threads, n \in Sizes : SetBegins(t, n) \/ GetIntoBegins(t, n)
    \/ GetFast
    \/ pc[Reader] = "idle" /\ GetFallback
    \/ \E t \in Threads : (pc[t] = "idle" /\ Life(t)) \/ Progress(t)
    \/ \E i \in FreelistSlots : Drop(i)

(* A call goes on: the engine returns, a thread that wants the GIL gets it    *)
(* when nobody wants it any more, the loop of close() looks again.            *)
PySpec == PyInit /\ [][PyNext]_pyVars /\ \A t \in Threads : WF_pyVars(Progress(t))

-----------------------------------------------------------------------------
PyTypeOK ==
    /\ CallsTypeOK
    /\ value \in Sizes \cup {Null}
    /\ my_freelist \in [FreelistSlots -> Bytes \cup {Null}]
    /\ my_next_freelist_idx \in FreelistSlots
    /\ my_get_capacity \in Nat

(* The bytes object that the engine is writing into, if any.                  *)
Output ==
    IF Reader \in Working("fast") THEN my_freelist[job[Reader].slot]
    ELSE IF Reader \in Working("get") THEN job[Reader].out
    ELSE Null

(* The engine never writes into a bytes object that a caller holds: to Python *)
(* bytes are immutable.                                                       *)
NeverWritesHeld == Output # Null => ~Output.held

(* The engine is never told of more bytes than the object has.                *)
BufferFits ==
    Output # Null =>
      Output.alloc >= IF Reader \in Working("fast") THEN Output.cap
                                                    ELSE job[Reader].length

(* A result has no bytes beyond those of its value.                           *)
GetReturnsPrefix ==
    \A i \in FreelistSlots :
        my_freelist[i] # Null /\ my_freelist[i].held
          => my_freelist[i].size <= my_freelist[i].given

(* A result is the whole value that was read, as the documentation of get()   *)
(* and test_caeneus.py have it.                                               *)
GetReturnsValue ==
    \A i \in FreelistSlots :
        my_freelist[i] # Null /\ my_freelist[i].held
          => my_freelist[i].size = my_freelist[i].given

(* close() and dealloc return: the calls they wait for end, and no new ones   *)
(* keep them waiting.                                                         *)
CloseReturns == \A t \in Threads : Closing(t) ~> pc[t] = "idle"
=============================================================================

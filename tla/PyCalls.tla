------------------------------ MODULE PyCalls -------------------------------
(* The life of one caeneus.Cache object of the CPython extension              *)
(* (src/ext/python/caeneusmodule.c): its handle to an engine, calls that keep *)
(* or release the GIL around the engine, and close(), dealloc and __init__.   *)
(*                                                                            *)
(* Everything but the loop of wait_for_native_calls() touches the object with *)
(* the GIL held, so what a thread does between taking the GIL and giving it   *)
(* up is one step; an engine call begins and ends in steps of its own.        *)
EXTENDS Naturals, FiniteSets

CONSTANTS
    Threads,        \* the Python threads that share the object
    Engines,        \* addresses caeneus_init() may return
    Null,           \* NULL
    GilThreshold,   \* the constructor argument gil_threshold
    ProbePeriod,    \* gil_probe starts here: 1024
    ProbedGet       \* a get() probes for buffers longer than this: 1024

ASSUME ThreadsAssumption == IsFiniteSet(Threads)
ASSUME EnginesAssumption == Null \notin Engines
ASSUME LimitsAssumption ==
    /\ {GilThreshold, ProbedGet} \subseteq Nat
    /\ ProbePeriod \in Nat \ {0}

VARIABLES
    exists,           \* Python code can reach the object
    handle,           \* self->handle
    open,             \* engines that caeneus_deinit() has not freed
    active_calls,     \* self->active_calls
    concurrent_mode,  \* self->concurrent_mode
    gil_probe,        \* self->gil_probe
    pc,               \* where each thread is, see Places
    eng               \* the local variable handle of each thread's call

objectVars == <<exists, handle, open, active_calls, concurrent_mode, gil_probe>>
callVars == <<objectVars, pc, eng>>

(* "idle": in no call.  "held": in the engine with the GIL.  "released": in   *)
(* the engine without it.  "ended": back from the engine, wants the GIL.      *)
(* "between": has the GIL between two engine calls of one get().  "waiting":  *)
(* close() in its loop.  "quiet": has seen no active call, wants the GIL.     *)
(* "deinit": in caeneus_deinit().  "init": in caeneus_init().                 *)
Places == {"idle", "held", "released", "ended", "between",
           "waiting", "quiet", "deinit", "init"}

GilFree == \A t \in Threads : pc[t] \notin {"held", "between"}

Quiescent == \A t \in Threads : pc[t] = "idle"

Move(t, place, engine) ==
    /\ pc' = [pc EXCEPT ![t] = place]
    /\ eng' = [eng EXCEPT ![t] = engine]

CallsInit ==
    /\ exists = FALSE
    /\ handle = Null
    /\ open = {}
    /\ active_calls = 0
    /\ concurrent_mode = FALSE
    /\ gil_probe = ProbePeriod
    /\ pc = [t \in Threads |-> "idle"]
    /\ eng = [t \in Threads |-> Null]

-----------------------------------------------------------------------------
(* A call may go on to the engine: a method has just seen an open handle, or  *)
(* a get() goes round its loop, which does not look at the handle.            *)
MayCall(t) ==
    \/ pc[t] = "idle" /\ exists /\ GilFree /\ handle # Null
    \/ pc[t] = "between"

(* The engine is called with the GIL kept.                                    *)
EnterHeld(t) ==
    /\ handle # Null
    /\ Move(t, "held", handle)
    /\ UNCHANGED active_calls

(* Mutant: the call is not counted.                                           *)
MutantBeginNativeCall(t) ==
    /\ handle # Null
    /\ UNCHANGED active_calls
    /\ Move(t, "released", handle)

(* begin_native_call() and the release of the GIL.                            *)
BeginNativeCall(t) ==
    /\ handle # Null
    /\ active_calls' = active_calls + 1
    /\ Move(t, "released", handle)

(* The object was closed since the call began: the handle read again is NULL. *)
FindClosed(t) ==
    /\ handle = Null
    /\ Move(t, "idle", Null)
    /\ UNCHANGED active_calls

(* The fast paths of set() and get(), and native_set() and native_get() up to *)
(* gil_threshold.                                                             *)
ShortCall(t) ==
    /\ MayCall(t)
    /\ EnterHeld(t) \/ FindClosed(t)
    /\ UNCHANGED <<exists, handle, open, concurrent_mode, gil_probe>>

(* Mutant: the probe counter is not wound up again.                           *)
MutantLongCall(t, probes) ==
    LET concurrent == concurrent_mode \/ active_calls # 0
        counts     == probes /\ ~concurrent
        release    == concurrent \/ (counts /\ gil_probe = 1)
    IN  /\ MayCall(t)
        /\ concurrent_mode' = concurrent
        /\ gil_probe' = IF counts /\ gil_probe > 0 THEN gil_probe - 1 ELSE gil_probe
        /\ \/ FindClosed(t)
           \/ ~release /\ EnterHeld(t)
           \/ release /\ BeginNativeCall(t)
        /\ UNCHANGED <<exists, handle, open>>

(* native_set() and native_get() beyond gil_threshold, with                   *)
(* should_release_gil(): once calls have overlapped the GIL is always         *)
(* released; before that, by every ProbePeriod-th call that probes.           *)
LongCall(t, probes) ==
    LET concurrent == concurrent_mode \/ active_calls # 0
        counts     == probes /\ ~concurrent
        release    == concurrent \/ (counts /\ gil_probe = 1)
    IN  /\ MayCall(t)
        /\ concurrent_mode' = concurrent
        /\ gil_probe' = IF ~counts THEN gil_probe
                        ELSE IF gil_probe = 1 THEN ProbePeriod ELSE gil_probe - 1
        /\ \/ FindClosed(t)
           \/ ~release /\ EnterHeld(t)
           \/ release /\ BeginNativeCall(t)
        /\ UNCHANGED <<exists, handle, open>>

NativeSet(t, length) ==
    IF length <= GilThreshold THEN ShortCall(t) ELSE LongCall(t, TRUE)

NativeGet(t, length) ==
    IF length <= GilThreshold THEN ShortCall(t)
                              ELSE LongCall(t, length > ProbedGet)

(* The engine returns to a call that kept the GIL, and the call returns or    *)
(* goes on with another attempt.                                              *)
HeldReturns(t, place) ==
    /\ pc[t] = "held"
    /\ Move(t, place, Null)
    /\ UNCHANGED objectVars

EngineReturns(t) ==
    /\ pc[t] = "released"
    /\ Move(t, "ended", Null)
    /\ UNCHANGED objectVars

(* Mutant: a call that will try again stays counted.                          *)
MutantEndNativeCall(t, place) ==
    /\ pc[t] = "ended"
    /\ GilFree
    /\ active_calls' = IF place = "idle" THEN active_calls - 1 ELSE active_calls
    /\ Move(t, place, Null)
    /\ UNCHANGED <<exists, handle, open, concurrent_mode, gil_probe>>

(* The GIL is taken back, then end_native_call().                             *)
EndNativeCall(t, place) ==
    /\ pc[t] = "ended"
    /\ GilFree
    /\ active_calls' = active_calls - 1
    /\ Move(t, place, Null)
    /\ UNCHANGED <<exists, handle, open, concurrent_mode, gil_probe>>

-----------------------------------------------------------------------------
(* Mutant: the handle is cleared when the wait is over.                       *)
MutantCloseBegins(t) ==
    /\ pc[t] = "idle" /\ exists /\ GilFree /\ handle # Null
    /\ Move(t, "waiting", handle)
    /\ handle' \in {handle, Null}
    /\ UNCHANGED <<exists, open, active_calls, concurrent_mode, gil_probe>>

(* close(): the handle is taken away before the wait for active calls.  On a  *)
(* closed object it does nothing.                                             *)
CloseBegins(t) ==
    /\ pc[t] = "idle" /\ exists /\ GilFree /\ handle # Null
    /\ Move(t, "waiting", handle)
    /\ handle' = Null
    /\ UNCHANGED <<exists, open, active_calls, concurrent_mode, gil_probe>>

(* cache_dealloc(): nobody holds a reference, so no call is under way.        *)
Dealloc(t) ==
    /\ exists
    /\ Quiescent
    /\ exists' = FALSE
    /\ handle' = Null
    /\ IF handle = Null THEN UNCHANGED <<pc, eng>>
                            ELSE Move(t, "waiting", handle)
    /\ UNCHANGED <<open, active_calls, concurrent_mode, gil_probe>>

(* Mutant: the wait is over when one call is left.                            *)
MutantWaitEnds(t) ==
    /\ pc[t] = "waiting"
    /\ active_calls <= 1
    /\ Move(t, "quiet", eng[t])
    /\ UNCHANGED objectVars

(* wait_for_native_calls(): the load that ends the loop.                      *)
WaitEnds(t) ==
    /\ pc[t] = "waiting"
    /\ active_calls = 0
    /\ Move(t, "quiet", eng[t])
    /\ UNCHANGED objectVars

(* The GIL is taken and released again around caeneus_deinit().               *)
DeinitBegins(t) ==
    /\ pc[t] = "quiet"
    /\ GilFree
    /\ open' = open \ {eng[t]}
    /\ Move(t, "deinit", Null)
    /\ UNCHANGED <<exists, handle, active_calls, concurrent_mode, gil_probe>>

DeinitEnds(t) ==
    /\ pc[t] = "deinit"
    /\ GilFree
    /\ Move(t, "idle", Null)
    /\ UNCHANGED objectVars

(* cache_vectorcall() on a new object, or cache_init() on a closed one, until *)
(* the GIL is released for caeneus_init().  The object is assumed to be in no *)
(* call when Python code calls __init__ on it again (the code does not check, *)
(* and resets active_calls).                                                  *)
InitBegins(t) ==
    /\ Quiescent
    /\ handle = Null
    /\ active_calls' = 0
    /\ gil_probe' = ProbePeriod
    /\ concurrent_mode' = FALSE
    /\ Move(t, "init", Null)
    /\ UNCHANGED <<exists, handle, open>>

(* caeneus_init() returns a new engine, or NULL.                              *)
InitReturns(t) ==
    /\ pc[t] = "init"
    /\ GilFree
    /\ Move(t, "idle", Null)
    /\ \/ UNCHANGED <<exists, handle, open>>
       \/ \E e \in Engines \ open :
             exists' = TRUE /\ handle' = e /\ open' = open \cup {e}
    /\ UNCHANGED <<active_calls, concurrent_mode, gil_probe>>

LifeStep(t) ==
    \/ CloseBegins(t)
    \/ Dealloc(t)
    \/ WaitEnds(t)
    \/ DeinitBegins(t)
    \/ DeinitEnds(t)
    \/ InitBegins(t)
    \/ InitReturns(t)

CallStep(t) ==
    \/ ShortCall(t)
    \/ \E probes \in BOOLEAN : LongCall(t, probes)
    \/ \E place \in {"idle", "between"} :
          HeldReturns(t, place) \/ EndNativeCall(t, place)
    \/ EngineReturns(t)

CallsNext == \E t \in Threads : LifeStep(t) \/ CallStep(t)

CallsSpec == CallsInit /\ [][CallsNext]_callVars

-----------------------------------------------------------------------------
Counted(t) == pc[t] \in {"released", "ended"}
Closing(t) == pc[t] \in {"waiting", "quiet"}

(* The calls that have released the GIL and have not taken it back.           *)
Callers == {t \in Threads : Counted(t)}

CallsTypeOK ==
    /\ exists \in BOOLEAN
    /\ handle \in Engines \cup {Null}
    /\ open \subseteq Engines
    /\ active_calls \in Nat
    /\ concurrent_mode \in BOOLEAN
    /\ gil_probe \in 1 .. ProbePeriod
    /\ pc \in [Threads -> Places]
    /\ eng \in [Threads -> Engines \cup {Null}]

(* caeneus_deinit() frees no engine that a call is using, whether the call    *)
(* keeps the GIL or has released it.                                          *)
EngineOpenDuringCalls ==
    \A t \in Threads : pc[t] \in {"held", "released"} => eng[t] \in open

(* active_calls is the number of calls that have released the GIL and have    *)
(* not come back: what close() waits for.                                     *)
ActiveCallsCounted == active_calls = Cardinality(Callers)

(* An engine that is not freed is the object's, or one call of close() or     *)
(* dealloc has it and will free it: none is leaked and none is freed twice.   *)
EnginesOwned ==
    /\ \A e \in open : e = handle \/ \E t \in Threads : Closing(t) /\ eng[t] = e
    /\ handle # Null => handle \in open
    /\ \A t \in Threads : Closing(t) =>
          /\ eng[t] \in open
          /\ eng[t] # handle
          /\ \A u \in Threads : Closing(u) /\ eng[u] = eng[t] => u = t
=============================================================================

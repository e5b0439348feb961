--------------------------- MODULE PyCallsProofs ----------------------------
(* close() and dealloc of the CPython extension against running calls, for    *)
(* any finite set of threads, any engines and any limits: no call loses its   *)
(* engine, no engine is leaked or freed twice.                                *)
(*                                                                            *)
(* What makes it inductive: a call uses the object's engine or the one that   *)
(* a closer is waiting to free; there is one closer at most, and while there  *)
(* is one the handle is NULL, so no call can begin; a closer that has seen    *)
(* active_calls at zero goes on to see it there.                              *)
EXTENDS PyCalls, FiniteSetTheorems, TLAPS

(* A call is in the engine of the object, or of the thread that closes it.    *)
CallsHaveEngine ==
    \A t \in Threads : pc[t] \in {"held", "released"} =>
        /\ eng[t] \in Engines
        /\ eng[t] = handle \/ \E u \in Threads : Closing(u) /\ eng[u] = eng[t]

(* The handle is away while somebody closes or opens the object.              *)
NoHandleMeanwhile ==
    \A t \in Threads : Closing(t) \/ pc[t] = "init" => handle = Null

OneCloser == \A t, u \in Threads : Closing(t) /\ Closing(u) => t = u

(* caeneus_init() runs for an object that nobody else uses.                   *)
InitAlone ==
    \A t, u \in Threads : pc[t] = "init" /\ u # t => pc[u] = "idle"

QuietStays == \A t \in Threads : pc[t] = "quiet" => active_calls = 0

(* The engines that are open are the object's and the closer's.               *)
EnginesKnown ==
    /\ \A e \in open : e = handle \/ \E t \in Threads : Closing(t) /\ eng[t] = e
    /\ handle # Null => handle \in open
    /\ \A t \in Threads : Closing(t) => eng[t] \in open

CallsInv ==
    /\ CallsTypeOK
    /\ ActiveCallsCounted
    /\ CallsHaveEngine
    /\ NoHandleMeanwhile
    /\ OneCloser
    /\ InitAlone
    /\ QuietStays
    /\ EnginesKnown

-----------------------------------------------------------------------------
(* There are finitely many counted calls; none when the counter is zero.      *)
LEMMA CallersFinite ==
    /\ IsFiniteSet(Callers)
    /\ Cardinality(Callers) \in Nat
    /\ Cardinality(Callers) = 0 <=> Callers = {}
  <1>1. Callers \in SUBSET Threads
    BY DEF Callers
  <1>2. IsFiniteSet(Callers)
    BY <1>1, ThreadsAssumption, FS_Subset
  <1> QED
    BY <1>2, FS_CardinalityType, FS_EmptySet

(* What a step of one thread does to the set of counted calls.                *)
LEMMA CallersChange ==
    ASSUME CallsTypeOK, NEW t \in Threads, NEW place \in Places, NEW e,
           Move(t, place, e)
    PROVE  /\ pc' \in [Threads -> Places]
           /\ pc'[t] = place /\ eng'[t] = e
           /\ \A u \in Threads : u # t => pc'[u] = pc[u] /\ eng'[u] = eng[u]
           /\ Callers' = IF place \in {"released", "ended"}
                           THEN Callers \cup {t} ELSE Callers \ {t}
  <1>1. /\ pc' \in [Threads -> Places]
        /\ pc'[t] = place /\ eng'[t] = e
        /\ \A u \in Threads : u # t => pc'[u] = pc[u] /\ eng'[u] = eng[u]
    BY DEF Move, CallsTypeOK
  <1>2. \A u \in Threads :
           u \in Callers' <=> IF u = t THEN place \in {"released", "ended"}
                                       ELSE u \in Callers
    BY <1>1 DEF Callers, Counted
  <1>3. Callers' \subseteq Threads /\ Callers \subseteq Threads
    BY DEF Callers
  <1> QED
    BY <1>1, <1>2, <1>3

LEMMA InitHolds == CallsInit => CallsInv
  <1> SUFFICES ASSUME CallsInit PROVE CallsInv
    OBVIOUS
  <1> USE DEF CallsInit
  <1>1. CallsTypeOK
    <2>1. gil_probe \in 1 .. ProbePeriod /\ active_calls \in Nat
      BY LimitsAssumption
    <2>2. pc \in [Threads -> Places] /\ eng \in [Threads -> Engines \cup {Null}]
      BY DEF Places
    <2> QED
      BY <2>1, <2>2 DEF CallsTypeOK
  <1>2. ActiveCallsCounted
    <2>1. Callers = {}
      BY DEF Callers, Counted
    <2> QED
      BY <2>1, CallersFinite DEF ActiveCallsCounted
  <1>3. /\ CallsHaveEngine /\ NoHandleMeanwhile /\ OneCloser /\ InitAlone
        /\ QuietStays /\ EnginesKnown
    BY DEF CallsHaveEngine, NoHandleMeanwhile, OneCloser, InitAlone,
           QuietStays, EnginesKnown, Closing
  <1> QED
    BY <1>1, <1>2, <1>3 DEF CallsInv

-----------------------------------------------------------------------------
(* A call that goes to the engine or finds the object closed.                 *)
LEMMA CallBegins ==
    ASSUME CallsInv, NEW t \in Threads, MayCall(t),
           EnterHeld(t) \/ FindClosed(t) \/ BeginNativeCall(t),
           UNCHANGED <<exists, handle, open>>,
           concurrent_mode' \in BOOLEAN, gil_probe' \in 1 .. ProbePeriod
    PROVE  CallsInv'
  <1>1. pc[t] \in {"idle", "between"} /\ t \notin Callers
    BY DEF MayCall, Callers, Counted
  <1>2. CASE EnterHeld(t)
    <2> USE <1>2
    <2>1. Move(t, "held", handle) /\ handle # Null /\ active_calls' = active_calls
      BY DEF EnterHeld
    <2>2. Callers' = Callers
      BY <1>1, <2>1, CallersChange DEF CallsInv, Places
    <2>3. \A u \in Threads : ~Closing(u) /\ pc[u] # "init"
      BY <2>1 DEF CallsInv, NoHandleMeanwhile
    <2>4. CallsTypeOK'
      BY <2>1 DEF CallsInv, CallsTypeOK, Move, Places
    <2>5. ActiveCallsCounted'
      BY <2>1, <2>2 DEF CallsInv, ActiveCallsCounted
    <2>6. CallsHaveEngine'
      BY <2>1, <2>3 DEF CallsInv, CallsTypeOK, CallsHaveEngine, Move, Closing
    <2>7. NoHandleMeanwhile' /\ OneCloser' /\ InitAlone' /\ QuietStays' /\ EnginesKnown'
      BY <2>1, <2>3 DEF CallsInv, CallsTypeOK, NoHandleMeanwhile, OneCloser,
         InitAlone, QuietStays, EnginesKnown, Move, Closing
    <2> QED
      BY <2>4, <2>5, <2>6, <2>7 DEF CallsInv
  <1>3. CASE FindClosed(t)
    <2> USE <1>3
    <2>1. Move(t, "idle", Null) /\ active_calls' = active_calls
      BY DEF FindClosed
    <2>2. Callers' = Callers
      BY <1>1, <2>1, CallersChange DEF CallsInv, Places
    <2>4. CallsTypeOK'
      BY <2>1 DEF CallsInv, CallsTypeOK, Move, Places
    <2>5. ActiveCallsCounted'
      BY <2>1, <2>2 DEF CallsInv, ActiveCallsCounted
    <2>6. CallsHaveEngine'
      BY <1>1, <2>1 DEF CallsInv, CallsTypeOK, CallsHaveEngine, Move, Closing
    <2>7. NoHandleMeanwhile' /\ OneCloser' /\ InitAlone' /\ QuietStays' /\ EnginesKnown'
      BY <1>1, <2>1 DEF CallsInv, CallsTypeOK, NoHandleMeanwhile, OneCloser,
         InitAlone, QuietStays, EnginesKnown, Move, Closing
    <2> QED
      BY <2>4, <2>5, <2>6, <2>7 DEF CallsInv
  <1>4. CASE BeginNativeCall(t)
    <2> USE <1>4
    <2>1. /\ Move(t, "released", handle) /\ handle # Null
          /\ active_calls' = active_calls + 1
      BY DEF BeginNativeCall
    <2>2. Callers' = Callers \cup {t}
      BY <2>1, CallersChange DEF CallsInv, Places
    <2>3. \A u \in Threads : ~Closing(u) /\ pc[u] # "init"
      BY <2>1 DEF CallsInv, NoHandleMeanwhile
    <2>4. CallsTypeOK'
      BY <2>1 DEF CallsInv, CallsTypeOK, Move, Places
    <2>5. ActiveCallsCounted'
      BY <1>1, <2>1, <2>2, CallersFinite, FS_AddElement
         DEF CallsInv, ActiveCallsCounted
    <2>6. CallsHaveEngine'
      BY <2>1, <2>3 DEF CallsInv, CallsTypeOK, CallsHaveEngine, Move, Closing
    <2>7. NoHandleMeanwhile' /\ OneCloser' /\ InitAlone' /\ QuietStays' /\ EnginesKnown'
      BY <2>1, <2>3 DEF CallsInv, CallsTypeOK, NoHandleMeanwhile, OneCloser,
         InitAlone, QuietStays, EnginesKnown, Move, Closing
    <2> QED
      BY <2>4, <2>5, <2>6, <2>7 DEF CallsInv
  <1> QED
    BY <1>2, <1>3, <1>4

(* A call comes back from the engine, or takes the GIL back, and returns or   *)
(* goes on.                                                                   *)
LEMMA CallEnds ==
    ASSUME CallsInv, NEW t \in Threads, NEW place \in {"idle", "between"},
           HeldReturns(t, place) \/ EndNativeCall(t, place)
    PROVE  CallsInv'
  <1>1. /\ pc[t] \in {"held", "ended"} /\ Move(t, place, Null)
        /\ UNCHANGED <<exists, handle, open, concurrent_mode, gil_probe>>
        /\ active_calls' = IF pc[t] = "held" THEN active_calls ELSE active_calls - 1
    BY DEF HeldReturns, EndNativeCall, objectVars
  <1>2. Callers' = Callers \ {t}
    BY <1>1, CallersChange DEF CallsInv, Places
  <1>3. t \in Callers <=> pc[t] = "ended"
    BY <1>1 DEF Callers, Counted
  <1>4. active_calls' \in Nat /\ active_calls' = Cardinality(Callers \ {t})
    <2>1. active_calls = Cardinality(Callers)
      BY DEF CallsInv, ActiveCallsCounted
    <2>2. Cardinality(Callers \ {t}) = IF t \in Callers THEN Cardinality(Callers) - 1
                                                       ELSE Cardinality(Callers)
      BY CallersFinite, FS_RemoveElement
    <2>3. Cardinality(Callers \ {t}) \in Nat
      BY CallersFinite, FS_RemoveElement, FS_CardinalityType
    <2> QED
      BY <1>1, <1>3, <2>1, <2>2, <2>3
  <1>5. CallsTypeOK'
    BY <1>1, <1>4 DEF CallsInv, CallsTypeOK, Move, Places
  <1>6. ActiveCallsCounted'
    BY <1>2, <1>4 DEF ActiveCallsCounted
  <1>7. CallsHaveEngine' /\ NoHandleMeanwhile' /\ OneCloser' /\ InitAlone' /\ EnginesKnown'
    BY <1>1 DEF CallsInv, CallsTypeOK, CallsHaveEngine, NoHandleMeanwhile,
       OneCloser, InitAlone, EnginesKnown, Move, Closing
  <1>8. QuietStays'
    <2>1. active_calls = 0 => Callers = {}
      BY CallersFinite DEF CallsInv, ActiveCallsCounted
    <2>2. active_calls = 0 => active_calls' = 0
      BY <1>1, <1>3, <2>1
    <2> QED
      BY <1>1, <2>2 DEF CallsInv, CallsTypeOK, QuietStays, Move
  <1> QED
    BY <1>5, <1>6, <1>7, <1>8 DEF CallsInv

LEMMA EngineReturnsKeeps ==
    ASSUME CallsInv, NEW t \in Threads, EngineReturns(t)
    PROVE  CallsInv'
  <1>1. pc[t] = "released" /\ Move(t, "ended", Null) /\ UNCHANGED objectVars
    BY DEF EngineReturns
  <1>2. Callers' = Callers
    <2>1. t \in Callers
      BY <1>1 DEF Callers, Counted
    <2> QED
      BY <1>1, <2>1, CallersChange DEF CallsInv, Places
  <1>3. CallsTypeOK'
    BY <1>1 DEF CallsInv, CallsTypeOK, Move, Places, objectVars
  <1>4. ActiveCallsCounted'
    BY <1>1, <1>2 DEF CallsInv, ActiveCallsCounted, objectVars
  <1>5. /\ CallsHaveEngine' /\ NoHandleMeanwhile' /\ OneCloser' /\ InitAlone'
        /\ QuietStays' /\ EnginesKnown'
    BY <1>1 DEF CallsInv, CallsTypeOK, CallsHaveEngine, NoHandleMeanwhile,
       OneCloser, InitAlone, QuietStays, EnginesKnown, Move, Closing, objectVars
  <1> QED
    BY <1>3, <1>4, <1>5 DEF CallsInv

-----------------------------------------------------------------------------
(* The engine passes from the object to a closer; there was none, since the   *)
(* handle was not NULL.                                                       *)
LEMMA CloserTakes ==
    ASSUME CallsInv, NEW t \in Threads, handle # Null, pc[t] = "idle",
           Move(t, "waiting", handle), handle' = Null, exists' \in BOOLEAN,
           UNCHANGED <<open, active_calls, concurrent_mode, gil_probe>>
    PROVE  CallsInv'
  <1>1. \A u \in Threads : ~Closing(u) /\ pc[u] # "init"
    BY DEF CallsInv, NoHandleMeanwhile
  <1>2. Callers' = Callers
    <2>1. t \notin Callers
      BY DEF Callers, Counted
    <2> QED
      BY <2>1, CallersChange DEF CallsInv, Places
  <1>3. CallsTypeOK'
    BY DEF CallsInv, CallsTypeOK, Move, Places
  <1>4. ActiveCallsCounted'
    BY <1>2 DEF CallsInv, ActiveCallsCounted
  <1>5. CallsHaveEngine'
    <2> SUFFICES ASSUME NEW u \in Threads, pc'[u] \in {"held", "released"}
                 PROVE  /\ eng'[u] \in Engines
                        /\ \E w \in Threads : Closing(w)' /\ eng'[w] = eng'[u]
      BY DEF CallsHaveEngine
    <2>1. u # t /\ eng'[u] = eng[u] /\ pc[u] \in {"held", "released"}
      BY DEF CallsInv, CallsTypeOK, Move
    <2>2. eng[u] = handle /\ eng[u] \in Engines
      BY <1>1, <2>1 DEF CallsInv, CallsHaveEngine
    <2>3. Closing(t)' /\ eng'[t] = handle
      BY DEF CallsInv, CallsTypeOK, Move, Closing
    <2> QED
      BY <2>1, <2>2, <2>3
  <1>6. EnginesKnown'
    <2>1. Closing(t)' /\ eng'[t] = handle
      BY DEF CallsInv, CallsTypeOK, Move, Closing
    <2>2. \A u \in Threads : Closing(u)' => u = t
      BY <1>1 DEF CallsInv, CallsTypeOK, Move, Closing
    <2> QED
      BY <1>1, <2>1, <2>2 DEF CallsInv, EnginesKnown
  <1>7. NoHandleMeanwhile' /\ OneCloser' /\ InitAlone' /\ QuietStays'
    BY <1>1 DEF CallsInv, CallsTypeOK, NoHandleMeanwhile, OneCloser, InitAlone,
       QuietStays, Move, Closing
  <1> QED
    BY <1>3, <1>4, <1>5, <1>6, <1>7 DEF CallsInv

LEMMA CloseBeginsKeeps ==
    ASSUME CallsInv, NEW t \in Threads, CloseBegins(t)
    PROVE  CallsInv'
  <1>1. exists' \in BOOLEAN
    BY DEF CloseBegins, CallsInv, CallsTypeOK
  <1> QED
    BY <1>1, CloserTakes DEF CloseBegins

LEMMA DeallocKeeps ==
    ASSUME CallsInv, NEW t \in Threads, Dealloc(t)
    PROVE  CallsInv'
  <1>1. CASE handle # Null
    BY <1>1, CloserTakes DEF Dealloc, Quiescent
  <1>2. CASE handle = Null
    <2>1. /\ UNCHANGED <<handle, open, active_calls, concurrent_mode, gil_probe, pc, eng>>
          /\ exists' = FALSE
      BY <1>2 DEF Dealloc
    <2> QED
      BY <2>1 DEF CallsInv, CallsTypeOK, ActiveCallsCounted, CallsHaveEngine,
         NoHandleMeanwhile, OneCloser, InitAlone, QuietStays, EnginesKnown,
         Closing, Callers, Counted
  <1> QED
    BY <1>1, <1>2

LEMMA WaitEndsKeeps ==
    ASSUME CallsInv, NEW t \in Threads, WaitEnds(t)
    PROVE  CallsInv'
  <1>1. /\ pc[t] = "waiting" /\ Move(t, "quiet", eng[t]) /\ active_calls = 0
        /\ UNCHANGED objectVars
    BY DEF WaitEnds
  <1>2. Callers' = Callers
    <2>1. t \notin Callers
      BY <1>1 DEF Callers, Counted
    <2> QED
      BY <1>1, <2>1, CallersChange DEF CallsInv, Places
  <1>3. CallsTypeOK'
    BY <1>1 DEF CallsInv, CallsTypeOK, Move, Places, objectVars
  <1>4. ActiveCallsCounted'
    BY <1>1, <1>2 DEF CallsInv, ActiveCallsCounted, objectVars
  <1>5. \A u \in Threads : (Closing(u)' <=> Closing(u)) /\ eng'[u] = eng[u]
    BY <1>1 DEF CallsInv, CallsTypeOK, Move, Closing
  <1>6. CallsHaveEngine' /\ NoHandleMeanwhile' /\ OneCloser' /\ EnginesKnown'
    BY <1>1, <1>5 DEF CallsInv, CallsTypeOK, CallsHaveEngine, NoHandleMeanwhile,
       OneCloser, EnginesKnown, Move, objectVars
  <1>7. InitAlone' /\ QuietStays'
    BY <1>1 DEF CallsInv, CallsTypeOK, InitAlone, QuietStays, Move, objectVars
  <1> QED
    BY <1>3, <1>4, <1>6, <1>7 DEF CallsInv

(* The engine goes; nobody is in it: not with the GIL, which is free, and not *)
(* without it, since no call is counted.                                      *)
LEMMA DeinitBeginsKeeps ==
    ASSUME CallsInv, NEW t \in Threads, DeinitBegins(t)
    PROVE  CallsInv'
  <1>1. /\ pc[t] = "quiet" /\ Move(t, "deinit", Null) /\ open' = open \ {eng[t]}
        /\ UNCHANGED <<exists, handle, active_calls, concurrent_mode, gil_probe>>
    BY DEF DeinitBegins
  <1>2. \A u \in Threads : pc[u] \notin {"held", "released", "ended"}
    <2>1. Callers = {}
      BY <1>1, CallersFinite DEF CallsInv, QuietStays, ActiveCallsCounted
    <2> QED
      BY <2>1 DEF DeinitBegins, GilFree, Callers, Counted
  <1>3. handle = Null /\ \A u \in Threads : Closing(u) => u = t
    BY <1>1 DEF CallsInv, NoHandleMeanwhile, OneCloser, Closing
  <1>4. Callers' = Callers
    <2>1. t \notin Callers
      BY <1>1 DEF Callers, Counted
    <2> QED
      BY <1>1, <2>1, CallersChange DEF CallsInv, Places
  <1>5. CallsTypeOK'
    BY <1>1 DEF CallsInv, CallsTypeOK, Move, Places
  <1>6. ActiveCallsCounted'
    BY <1>1, <1>4 DEF CallsInv, ActiveCallsCounted
  <1>7. CallsHaveEngine' /\ NoHandleMeanwhile' /\ OneCloser' /\ InitAlone' /\ QuietStays'
    BY <1>1, <1>2, <1>3 DEF CallsInv, CallsTypeOK, CallsHaveEngine,
       NoHandleMeanwhile, OneCloser, InitAlone, QuietStays, Move, Closing
  <1>8. EnginesKnown'
    <2>1. open = {} \/ open = {eng[t]}
      BY <1>3, EnginesAssumption DEF CallsInv, CallsTypeOK, EnginesKnown
    <2>2. \A u \in Threads : ~Closing(u)'
      BY <1>1, <1>3 DEF CallsInv, CallsTypeOK, Move, Closing
    <2> QED
      BY <1>1, <1>3, <2>1, <2>2 DEF EnginesKnown
  <1> QED
    BY <1>5, <1>6, <1>7, <1>8 DEF CallsInv

LEMMA DeinitEndsKeeps ==
    ASSUME CallsInv, NEW t \in Threads, DeinitEnds(t)
    PROVE  CallsInv'
  <1>1. pc[t] = "deinit" /\ Move(t, "idle", Null) /\ UNCHANGED objectVars
    BY DEF DeinitEnds
  <1>2. Callers' = Callers
    <2>1. t \notin Callers
      BY <1>1 DEF Callers, Counted
    <2> QED
      BY <1>1, <2>1, CallersChange DEF CallsInv, Places
  <1>3. CallsTypeOK'
    BY <1>1 DEF CallsInv, CallsTypeOK, Move, Places, objectVars
  <1>4. ActiveCallsCounted'
    BY <1>1, <1>2 DEF CallsInv, ActiveCallsCounted, objectVars
  <1>5. /\ CallsHaveEngine' /\ NoHandleMeanwhile' /\ OneCloser' /\ InitAlone'
        /\ QuietStays' /\ EnginesKnown'
    BY <1>1 DEF CallsInv, CallsTypeOK, CallsHaveEngine, NoHandleMeanwhile,
       OneCloser, InitAlone, QuietStays, EnginesKnown, Move, Closing, objectVars
  <1> QED
    BY <1>3, <1>4, <1>5 DEF CallsInv

-----------------------------------------------------------------------------
(* Nobody is counted when the counter is set to zero.                         *)
LEMMA InitBeginsKeeps ==
    ASSUME CallsInv, NEW t \in Threads, InitBegins(t)
    PROVE  CallsInv'
  <1>1. /\ handle = Null /\ Move(t, "init", Null) /\ active_calls' = 0
        /\ gil_probe' = ProbePeriod /\ concurrent_mode' = FALSE
        /\ UNCHANGED <<exists, handle, open>>
        /\ \A u \in Threads : pc[u] = "idle"
    BY DEF InitBegins, Quiescent
  <1>2. Callers' = {}
    <2>1. Callers = {}
      BY <1>1 DEF Callers, Counted
    <2> QED
      BY <1>1, <2>1, CallersChange DEF CallsInv, Places
  <1>3. CallsTypeOK'
    <2>1. gil_probe' \in 1 .. ProbePeriod /\ active_calls' \in Nat
      BY <1>1, LimitsAssumption
    <2> QED
      BY <1>1, <2>1 DEF CallsInv, CallsTypeOK, Move, Places
  <1>4. ActiveCallsCounted'
    BY <1>1, <1>2, FS_EmptySet DEF ActiveCallsCounted
  <1>5. /\ CallsHaveEngine' /\ NoHandleMeanwhile' /\ OneCloser' /\ InitAlone'
        /\ QuietStays' /\ EnginesKnown'
    BY <1>1 DEF CallsInv, CallsTypeOK, CallsHaveEngine, NoHandleMeanwhile,
       OneCloser, InitAlone, QuietStays, EnginesKnown, Move, Closing
  <1> QED
    BY <1>3, <1>4, <1>5 DEF CallsInv

LEMMA InitReturnsKeeps ==
    ASSUME CallsInv, NEW t \in Threads, InitReturns(t)
    PROVE  CallsInv'
  <1>1. /\ pc[t] = "init" /\ Move(t, "idle", Null)
        /\ UNCHANGED <<active_calls, concurrent_mode, gil_probe>>
    BY DEF InitReturns
  <1>2. handle = Null /\ \A u \in Threads : u # t => pc[u] = "idle"
    BY <1>1 DEF CallsInv, NoHandleMeanwhile, InitAlone
  <1>3. \A u \in Threads : pc'[u] = "idle"
    BY <1>1, <1>2 DEF CallsInv, CallsTypeOK, Move
  <1>4. open = {}
    BY <1>1, <1>2, EnginesAssumption
       DEF CallsInv, CallsTypeOK, EnginesKnown, Closing
  <1>5. /\ handle' \in Engines \cup {Null} /\ open' \subseteq Engines
        /\ open' = IF handle' = Null THEN {} ELSE {handle'}
        /\ exists' \in BOOLEAN
    BY <1>2, <1>4, EnginesAssumption DEF InitReturns, CallsInv, CallsTypeOK
  <1>6. CallsTypeOK'
    BY <1>1, <1>5 DEF CallsInv, CallsTypeOK, Move, Places
  <1>7. ActiveCallsCounted'
    <2>1. t \notin Callers
      BY <1>1 DEF Callers, Counted
    <2>2. Callers' = Callers
      BY <1>1, <2>1, CallersChange DEF CallsInv, Places
    <2> QED
      BY <1>1, <2>2 DEF CallsInv, ActiveCallsCounted
  <1>8. /\ CallsHaveEngine' /\ NoHandleMeanwhile' /\ OneCloser' /\ InitAlone'
        /\ QuietStays' /\ EnginesKnown'
    BY <1>3, <1>5 DEF CallsHaveEngine, NoHandleMeanwhile, OneCloser, InitAlone,
       QuietStays, EnginesKnown, Closing
  <1> QED
    BY <1>6, <1>7, <1>8 DEF CallsInv

-----------------------------------------------------------------------------
(* should_release_gil() keeps gil_probe between one and its start.            *)
LEMMA LongCallKeeps ==
    ASSUME CallsInv, NEW t \in Threads, NEW probes \in BOOLEAN,
           LongCall(t, probes)
    PROVE  CallsInv'
  <1>1. concurrent_mode' \in BOOLEAN
    BY DEF LongCall, CallsInv, CallsTypeOK
  <1>2. gil_probe' \in 1 .. ProbePeriod
    <2>1. gil_probe \in 1 .. ProbePeriod /\ ProbePeriod \in Nat \ {0}
      BY LimitsAssumption DEF CallsInv, CallsTypeOK
    <2>2. \/ gil_probe' = gil_probe
          \/ gil_probe = 1 /\ gil_probe' = ProbePeriod
          \/ gil_probe # 1 /\ gil_probe' = gil_probe - 1
      BY DEF LongCall
    <2> QED
      BY <2>1, <2>2
  <1>3. /\ MayCall(t)
        /\ EnterHeld(t) \/ FindClosed(t) \/ BeginNativeCall(t)
        /\ UNCHANGED <<exists, handle, open>>
    BY DEF LongCall
  <1> QED
    BY <1>1, <1>2, <1>3, CallBegins

LEMMA ShortCallKeeps ==
    ASSUME CallsInv, NEW t \in Threads, ShortCall(t)
    PROVE  CallsInv'
  <1>1. concurrent_mode' \in BOOLEAN /\ gil_probe' \in 1 .. ProbePeriod
    BY DEF ShortCall, CallsInv, CallsTypeOK
  <1> QED
    BY <1>1, CallBegins DEF ShortCall

(* The invariant is inductive.                                                *)
LEMMA StepKeeps ==
    ASSUME CallsInv, [CallsNext]_callVars
    PROVE  CallsInv'
  <1>1. CASE UNCHANGED callVars
    BY <1>1 DEF CallsInv, CallsTypeOK, ActiveCallsCounted, CallsHaveEngine,
       NoHandleMeanwhile, OneCloser, InitAlone, QuietStays, EnginesKnown,
       Closing, Callers, Counted, callVars, objectVars
  <1>2. ASSUME NEW t \in Threads, LifeStep(t) PROVE CallsInv'
    BY <1>2, CloseBeginsKeeps, DeallocKeeps, WaitEndsKeeps, DeinitBeginsKeeps,
       DeinitEndsKeeps, InitBeginsKeeps, InitReturnsKeeps DEF LifeStep
  <1>3. ASSUME NEW t \in Threads, CallStep(t) PROVE CallsInv'
    BY <1>3, ShortCallKeeps, LongCallKeeps, CallEnds, EngineReturnsKeeps
       DEF CallStep
  <1> QED
    BY <1>1, <1>2, <1>3 DEF CallsNext

(* The properties follow from it.                                             *)
LEMMA InvSuffices ==
    ASSUME CallsInv
    PROVE  EngineOpenDuringCalls /\ EnginesOwned
  <1>1. EngineOpenDuringCalls
    BY EnginesAssumption
       DEF CallsInv, CallsHaveEngine, EnginesKnown, EngineOpenDuringCalls
  <1>2. EnginesOwned
    <2>1. \A t \in Threads : Closing(t) => eng[t] \in open /\ eng[t] # handle
      BY EnginesAssumption DEF CallsInv, CallsTypeOK, EnginesKnown, NoHandleMeanwhile
    <2> QED
      BY <2>1 DEF CallsInv, EnginesKnown, OneCloser, EnginesOwned
  <1> QED
    BY <1>1, <1>2

(* In every behaviour of the object, whatever its callers do.                 *)
THEOREM CallsInvariant == CallsSpec => []CallsInv
  <1> QED
    BY InitHolds, StepKeeps, PTL DEF CallsSpec
=============================================================================

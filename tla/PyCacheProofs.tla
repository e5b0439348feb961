--------------------------- MODULE PyCacheProofs ----------------------------
(* PyCache takes the steps of PyCalls and no others on the object: the        *)
(* invariant of PyCallsProofs holds in it, for any lengths, limits and        *)
(* threads.                                                                   *)
EXTENDS PyCache, PyCallsProofs

(* native_set() and native_get() are steps of a call.                         *)
LEMMA NativeCallsStep ==
    ASSUME NEW t \in Threads, NEW n, NativeSet(t, n) \/ NativeGet(t, n)
    PROVE  CallsNext
  <1>1. ShortCall(t) \/ \E probes \in BOOLEAN : LongCall(t, probes)
    <2>1. (n > ProbedGet) \in BOOLEAN
      OBVIOUS
    <2> QED
      BY <2>1 DEF NativeSet, NativeGet
  <1> QED
    BY <1>1 DEF CallsNext, CallStep

LEMMA ReadSteps ==
    ASSUME NEW bytes, NEW list, NEW attempt, Read(bytes, list, attempt)
    PROVE  CallsNext
  BY NativeCallsStep, ReaderAssumption DEF Read

(* Every step of a call is one of PyCalls.                                    *)
LEMMA ProgressSteps ==
    ASSUME NEW t \in Threads, Progress(t)
    PROVE  CallsNext
  <1>1. CASE SetReturns(t) \/ GetIntoReturns(t)
    BY <1>1 DEF SetReturns, GetIntoReturns, CallsNext, CallStep
  <1>2. CASE GetFastReturns
    BY <1>2, ReaderAssumption DEF GetFastReturns, CallsNext, CallStep
  <1>3. CASE GetAnswered \/ GetReturns
    BY <1>3, ReaderAssumption DEF GetAnswered, GetReturns, CallsNext, CallStep
  <1>4. CASE GetFallback \/ GetAgain
    BY <1>4, ReadSteps DEF GetFallback, GetAgain
  <1>5. CASE Life(t)
    BY <1>5 DEF Life, CallsNext
  <1> QED
    BY <1>1, <1>2, <1>3, <1>4, <1>5 DEF Progress

LEMMA PySteps ==
    ASSUME [PyNext]_pyVars
    PROVE  [CallsNext]_callVars
  <1>1. CASE UNCHANGED pyVars
    BY <1>1 DEF pyVars
  <1>2. ASSUME NEW t \in Threads, NEW n \in Sizes,
               SetBegins(t, n) \/ GetIntoBegins(t, n)
        PROVE  CallsNext
    BY <1>2, NativeCallsStep DEF SetBegins, GetIntoBegins
  <1>3. CASE GetFast
    BY <1>3, ReaderAssumption DEF GetFast, CallsNext, CallStep
  <1>4. CASE GetFallback
    BY <1>4, ReadSteps DEF GetFallback
  <1>5. ASSUME NEW t \in Threads, Life(t) \/ Progress(t) PROVE CallsNext
    BY <1>5, ProgressSteps DEF Life, CallsNext
  <1>6. ASSUME NEW i \in FreelistSlots, Drop(i) PROVE UNCHANGED callVars
    BY <1>6 DEF Drop
  <1> QED
    BY <1>1, <1>2, <1>3, <1>4, <1>5, <1>6 DEF PyNext

(* get(), its free list and everything around it keep to the protocol of the  *)
(* object: PyCache implements PyCalls.                                        *)
THEOREM ImplementsCalls == PySpec => CallsSpec
  <1>1. PyInit => CallsInit
    BY DEF PyInit
  <1> QED
    BY <1>1, PySteps, PTL DEF PySpec, CallsSpec

(* caeneus_deinit() frees no engine that a set(), get() or get_into() is      *)
(* using, with the GIL or without it.                                         *)
THEOREM EnginesStayOpen == PySpec => []EngineOpenDuringCalls
  <1> QED
    BY ImplementsCalls, CallsInvariant, InvSuffices, PTL

(* Each engine is freed by exactly one close() or dealloc, and none is        *)
(* forgotten.                                                                 *)
THEOREM EnginesHaveOneOwner == PySpec => []EnginesOwned
  <1> QED
    BY ImplementsCalls, CallsInvariant, InvSuffices, PTL

(* close() waits for exactly the calls that are in the engine without the     *)
(* GIL.                                                                       *)
THEOREM ActiveCallsAreCounted == PySpec => []ActiveCallsCounted
  <1>1. CallsInv => ActiveCallsCounted
    BY DEF CallsInv
  <1> QED
    BY <1>1, ImplementsCalls, CallsInvariant, PTL
=============================================================================

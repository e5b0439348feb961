-------------------------- MODULE TicketLockProofs --------------------------
(* Mutual exclusion of the ticket lock for every number of threads and every  *)
(* counter width that is not smaller.                                         *)
(*                                                                            *)
(* TypeOK is not enough: what keeps two threads apart is that the tickets in  *)
(* use form a window of the counter as wide as the number of their holders    *)
(* (TicketWindow), and that there are never more holders than ticket values.  *)
EXTENDS TicketLock, Sequences, FiniteSetTheorems, TLAPS

(* What % does to the sum of a counter and a count of at most TicketMod: it   *)
(* wraps once.                                                                *)
LEMMA WrapIs ==
    ASSUME NEW c \in 0 .. 2 * TicketMod - 1
    PROVE  c % TicketMod = IF c < TicketMod THEN c ELSE c - TicketMod
  <1>1. CASE c < TicketMod
    BY <1>1, TicketAssumption
  <1>2. CASE c >= TicketMod
    <2>1. c - TicketMod \in 0 .. TicketMod - 1
      BY <1>2, TicketAssumption
    <2>2. c = TicketMod * 1 + (c - TicketMod)
      BY <1>2, TicketAssumption
    <2> QED
      BY <1>2, <2>1, <2>2, TicketAssumption
  <1> QED
    BY <1>1, <1>2, TicketAssumption

(* Stepping a counter by one keeps it a counter.                              *)
LEMMA AdvanceIs ==
    ASSUME NEW c \in Tickets
    PROVE  /\ Advance(c) \in Tickets
           /\ Advance(c) = IF c + 1 = TicketMod THEN 0 ELSE c + 1
  <1>1. c + 1 \in 0 .. 2 * TicketMod - 1
    BY TicketAssumption DEF Tickets
  <1> QED
    BY <1>1, WrapIs, TicketAssumption DEF Advance, Tickets

(* The sum of a ticket and a number of holders, as the code's % takes it.     *)
LEMMA WrapSum ==
    ASSUME NEW a \in Tickets, NEW n \in 0 .. TicketMod
    PROVE  (a + n) % TicketMod = IF a + n < TicketMod THEN a + n
                                                      ELSE a + n - TicketMod
  <1>1. a \in Nat /\ n \in Nat /\ TicketMod \in Nat
    BY TicketAssumption DEF Tickets
  <1>2. a + n \in 0 .. 2 * TicketMod - 1
    BY TicketAssumption DEF Tickets
  <1> QED
    BY <1>1, <1>2, WrapIs

(* The holders are finitely many, and no more than the ticket values.         *)
LEMMA HoldersBound ==
    /\ IsFiniteSet(Holders)
    /\ Cardinality(Holders) \in 0 .. TicketMod
  <1>1. Holders \in SUBSET Threads
    BY DEF Holders
  <1>2. /\ IsFiniteSet(Holders)
        /\ Cardinality(Holders) <= Cardinality(Threads)
    BY <1>1, ThreadsAssumption, FS_Subset
  <1>3. Cardinality(Holders) \in Nat /\ Cardinality(Threads) \in Nat
    BY <1>2, ThreadsAssumption, FS_CardinalityType
  <1> QED
    BY <1>2, <1>3, TicketAssumption

IInv == TypeOK /\ TicketWindow

LEMMA InitInv == Init => IInv
  <1> SUFFICES ASSUME Init PROVE IInv
    OBVIOUS
  <1>1. Holders = {}
    BY DEF Init, Holders
  <1>2. Cardinality(Holders) = 0
    BY <1>1, FS_EmptySet
  <1>3. 0 % TicketMod = 0
    BY TicketAssumption, WrapIs
  <1> QED
    BY <1>1, <1>2, <1>3, TicketAssumption
    DEF Init, IInv, TypeOK, TicketWindow, Tickets

LEMMA DrawTicketStep ==
    ASSUME IInv, NEW t \in Threads, DrawTicket(t)
    PROVE  /\ IInv'
           /\ t \notin Holders /\ Holders' = Holders \cup {t}
           /\ Cardinality(Holders') = Cardinality(Holders) + 1
           /\ Ahead(t)' = Cardinality(Holders) /\ pc'[t] = "waiting"
           /\ \A u \in Holders : Ahead(u)' = Ahead(u) /\ pc'[u] = pc[u]
  <1> DEFINE c == Cardinality(Holders)
  <1> HIDE DEF c
  <1>1. TypeOK'
    BY AdvanceIs DEF IInv, TypeOK, DrawTicket
  <1>2. t \notin Holders /\ Holders' = Holders \cup {t}
    BY DEF IInv, TypeOK, DrawTicket, Holders
  <1>3. c \in 0 .. TicketMod /\ IsFiniteSet(Holders)
    BY HoldersBound DEF c
  <1>4. Cardinality(Holders') = c + 1
    BY <1>2, <1>3, FS_AddElement DEF c
  <1>5. c + 1 <= TicketMod
    <2>1. Holders' \in SUBSET Threads
      BY DEF Holders
    <2>2. Cardinality(Holders') <= Cardinality(Threads)
      BY <2>1, ThreadsAssumption, FS_Subset
    <2>3. Cardinality(Threads) \in Nat
      BY ThreadsAssumption, FS_CardinalityType
    <2> QED
      BY <2>2, <2>3, <1>3, <1>4, TicketAssumption
  <1>6. /\ now_serving \in Tickets /\ next_ticket \in Tickets
        /\ now_serving' = now_serving
        /\ next_ticket = IF now_serving + c < TicketMod
                           THEN now_serving + c
                           ELSE now_serving + c - TicketMod
    <2>2. next_ticket = (now_serving + c) % TicketMod
      BY DEF IInv, TicketWindow, c
    <2>3. now_serving \in Tickets /\ next_ticket \in Tickets
      BY DEF IInv, TypeOK
    <2>4. next_ticket = IF now_serving + c < TicketMod
                          THEN now_serving + c
                          ELSE now_serving + c - TicketMod
      BY <1>3, <2>2, <2>3, WrapSum
    <2> QED
      BY <2>3, <2>4 DEF DrawTicket
  <1>7. Ahead(t)' = c
    BY <1>3, <1>5, <1>6, TicketAssumption
    DEF Ahead, DrawTicket, IInv, TypeOK, Tickets
  <1>8. \A u \in Holders : /\ my_ticket'[u] = my_ticket[u]
                           /\ pc'[u] = pc[u]
                           /\ Ahead(u)' = Ahead(u)
                           /\ Ahead(u) \in Nat /\ Ahead(u) < c
                           /\ my_ticket[u] # next_ticket
    <2> SUFFICES ASSUME NEW u \in Holders
                 PROVE  /\ my_ticket'[u] = my_ticket[u]
                        /\ pc'[u] = pc[u]
                        /\ Ahead(u)' = Ahead(u)
                        /\ Ahead(u) \in Nat /\ Ahead(u) < c
                        /\ my_ticket[u] # next_ticket
      OBVIOUS
    <2>1. u \in Threads /\ u # t
      BY <1>2 DEF Holders
    <2>2. my_ticket'[u] = my_ticket[u] /\ pc'[u] = pc[u]
      BY <2>1 DEF DrawTicket, IInv, TypeOK
    <2>3. Ahead(u)' = Ahead(u)
      BY <2>2, <1>6 DEF Ahead
    <2>4. Ahead(u) \in Nat /\ Ahead(u) < c
      BY <2>1, TicketAssumption
      DEF Ahead, IInv, TypeOK, TicketWindow, Tickets, c
    <2>5. my_ticket[u] # next_ticket
      BY <2>1, <2>4, <1>3, <1>5, <1>6, TicketAssumption
      DEF Ahead, IInv, TypeOK, Tickets
    <2> QED
      BY <2>2, <2>3, <2>4, <2>5
  <1>9. my_ticket'[t] = next_ticket /\ pc'[t] = "waiting"
    BY DEF DrawTicket, IInv, TypeOK
  <1>10. next_ticket' = (now_serving + (c + 1)) % TicketMod
    <2>1. next_ticket' = IF next_ticket + 1 = TicketMod
                           THEN 0 ELSE next_ticket + 1
      BY <1>6, AdvanceIs DEF DrawTicket
    <2>2. (now_serving + (c + 1)) % TicketMod =
            IF now_serving + (c + 1) < TicketMod
              THEN now_serving + (c + 1)
              ELSE now_serving + (c + 1) - TicketMod
      BY <1>3, <1>5, <1>6, WrapSum
    <2> QED
      BY <2>1, <2>2, <1>3, <1>5, <1>6, TicketAssumption DEF Tickets
  <1>11. TicketWindow'
    <2>1. \A u \in Holders' : Ahead(u)' < Cardinality(Holders')
      BY <1>2, <1>3, <1>4, <1>7, <1>8
    <2>2. \A u, v \in Holders' : my_ticket'[u] = my_ticket'[v] => u = v
      BY <1>2, <1>8, <1>9 DEF IInv, TicketWindow
    <2>3. next_ticket' = (now_serving' + Cardinality(Holders')) % TicketMod
      BY <1>4, <1>6, <1>10
    <2>4. \A u \in Holders' : pc'[u] = "critical"
                                => my_ticket'[u] = now_serving'
      BY <1>2, <1>6, <1>8, <1>9 DEF IInv, TicketWindow
    <2> QED
      BY <2>1, <2>2, <2>3, <2>4 DEF TicketWindow
  <1> QED
    BY <1>1, <1>2, <1>4, <1>7, <1>8, <1>9, <1>11 DEF IInv, c

LEMMA EnterStep ==
    ASSUME IInv, NEW t \in Threads, Enter(t)
    PROVE  /\ IInv'
           /\ Holders' = Holders
           /\ \A u \in Threads : Ahead(u)' = Ahead(u)
  <1>1. TypeOK'
    BY DEF IInv, TypeOK, Enter
  <1>2. Holders' = Holders
    BY DEF IInv, TypeOK, Enter, Holders
  <1>3. \A u \in Threads : Ahead(u)' = Ahead(u)
    BY DEF Enter, Ahead
  <1>4. \A u \in Holders : pc'[u] = "critical" => my_ticket[u] = now_serving
    BY DEF IInv, TypeOK, TicketWindow, Enter, Holders
  <1>5. TicketWindow'
    BY <1>2, <1>3, <1>4 DEF IInv, TicketWindow, Enter, Holders
  <1> QED
    BY <1>1, <1>2, <1>3, <1>5 DEF IInv

LEMMA UnlockStep ==
    ASSUME IInv, NEW t \in Threads, Unlock(t)
    PROVE  /\ IInv'
           /\ t \in Holders /\ Holders' = Holders \ {t}
           /\ Cardinality(Holders') = Cardinality(Holders) - 1
           /\ \A u \in Holders' : /\ Ahead(u) \in Nat
                                  /\ Ahead(u)' = Ahead(u) - 1
                                  /\ pc'[u] = pc[u] /\ pc[u] # "critical"
  <1> DEFINE c == Cardinality(Holders)
  <1>1. TypeOK'
    BY AdvanceIs DEF IInv, TypeOK, Unlock
  <1>2. t \in Holders /\ Holders' = Holders \ {t}
    BY DEF IInv, TypeOK, Unlock, Holders
  <1>3. c \in 0 .. TicketMod /\ IsFiniteSet(Holders)
    BY HoldersBound
  <1>4. Cardinality(Holders') = c - 1 /\ c >= 1
    <2>1. c # 0
      BY <1>2, <1>3, FS_EmptySet
    <2> QED
      BY <2>1, <1>2, <1>3, FS_RemoveElement
  <1>5. /\ my_ticket[t] = now_serving
        /\ my_ticket' = my_ticket
        /\ next_ticket' = next_ticket
        /\ now_serving \in Tickets
        /\ now_serving' = IF now_serving + 1 = TicketMod
                            THEN 0 ELSE now_serving + 1
    BY <1>2, AdvanceIs DEF IInv, TypeOK, TicketWindow, Unlock
  <1>6. \A u \in Holders' : /\ pc'[u] = pc[u] /\ pc[u] # "critical"
                            /\ Ahead(u) \in Nat /\ Ahead(u)' = Ahead(u) - 1
                            /\ Ahead(u)' < c - 1
    <2> SUFFICES ASSUME NEW u \in Holders'
                 PROVE  /\ pc'[u] = pc[u] /\ pc[u] # "critical"
                        /\ Ahead(u) \in Nat /\ Ahead(u)' = Ahead(u) - 1
                        /\ Ahead(u)' < c - 1
      OBVIOUS
    <2>1. u \in Threads /\ u \in Holders /\ u # t
      BY <1>2 DEF Holders
    <2>2. my_ticket[u] # now_serving
      BY <2>1, <1>2, <1>5 DEF IInv, TicketWindow
    <2>3. pc'[u] = pc[u] /\ pc[u] # "critical"
      BY <2>1, <2>2 DEF IInv, TypeOK, TicketWindow, Unlock
    <2>4. my_ticket[u] \in Tickets /\ Ahead(u) < c
      BY <2>1 DEF IInv, TypeOK, TicketWindow
    <2>5. Ahead(u) \in Nat /\ Ahead(u)' = Ahead(u) - 1
      BY <2>2, <2>4, <1>5, TicketAssumption DEF Ahead, Tickets
    <2>6. Ahead(u)' < c - 1
      BY <2>2, <2>4, <1>3, <1>5, TicketAssumption DEF Ahead, Tickets
    <2> QED
      BY <2>3, <2>5, <2>6
  <1>7. next_ticket' = (now_serving' + (c - 1)) % TicketMod
    <2>1. now_serving + c \in 0 .. 2 * TicketMod - 1
      BY <1>3, <1>5, TicketAssumption DEF Tickets
    <2>2. now_serving' + (c - 1) \in 0 .. 2 * TicketMod - 1
      BY <1>3, <1>4, <1>5, TicketAssumption DEF Tickets
    <2>3. next_ticket = (now_serving + c) % TicketMod
      BY DEF IInv, TicketWindow
    <2> QED
      BY <2>1, <2>2, <2>3, <1>3, <1>4, <1>5, WrapIs, TicketAssumption
      DEF Tickets
  <1> HIDE DEF c
  <1>8. TicketWindow'
    <2>1. \A u \in Holders' : Ahead(u)' < Cardinality(Holders')
      BY <1>4, <1>6
    <2>2. \A u, v \in Holders' : my_ticket'[u] = my_ticket'[v] => u = v
      BY <1>2, <1>5 DEF IInv, TicketWindow
    <2>3. next_ticket' = (now_serving' + Cardinality(Holders')) % TicketMod
      BY <1>4, <1>7
    <2>4. \A u \in Holders' : pc'[u] = "critical"
                                => my_ticket'[u] = now_serving'
      BY <1>6
    <2> QED
      BY <2>1, <2>2, <2>3, <2>4 DEF TicketWindow
  <1> QED
    BY <1>1, <1>2, <1>4, <1>6, <1>8 DEF IInv, c

LEMMA StepInv == IInv /\ [Next]_vars => IInv'
  <1> SUFFICES ASSUME IInv, [Next]_vars PROVE IInv'
    OBVIOUS
  <1>1. ASSUME NEW t \in Threads, DrawTicket(t) PROVE IInv'
    BY <1>1, DrawTicketStep
  <1>2. ASSUME NEW t \in Threads, Enter(t) PROVE IInv'
    BY <1>2, EnterStep
  <1>3. ASSUME NEW t \in Threads, Unlock(t) PROVE IInv'
    BY <1>3, UnlockStep
  <1>4. CASE UNCHANGED vars
    BY <1>4 DEF vars, IInv, TypeOK, TicketWindow, Holders, Ahead
  <1> QED
    BY <1>1, <1>2, <1>3, <1>4 DEF Next

LEMMA InvariantHolds == Spec => []IInv
  BY InitInv, StepInv, PTL DEF Spec

(* The counters stay in range and every thread is at a known place.           *)
THEOREM TypeCorrect == Spec => []TypeOK
  BY InvariantHolds, PTL DEF IInv

(* Tickets in use are a window of the counter with one holder each, whatever  *)
(* the number of threads and the width of the counter.                        *)
THEOREM TicketsFormWindow == Spec => []TicketWindow
  BY InvariantHolds, PTL DEF IInv

(* lock() and unlock() of common.zig give mutual exclusion, for every number  *)
(* of threads up to the number of ticket values, and across counter wrap.     *)
THEOREM MutualExclusionHolds == Spec => []MutualExclusion
  <1>1. IInv => MutualExclusion
    BY DEF IInv, TypeOK, TicketWindow, MutualExclusion, Holders
  <1> QED
    BY <1>1, InvariantHolds, PTL

-----------------------------------------------------------------------------
(* First come, first served.                                                  *)

(* Each place in the queue is taken.  With TicketWindow that makes Ahead a    *)
(* numbering of the holders.                                                  *)
PlacesTaken ==
    \A n \in 0 .. Cardinality(Holders) - 1 : \E t \in Holders : Ahead(t) = n

QInv == IInv /\ PlacesTaken

(* The queue numbers the holders: its members, and nobody twice.              *)
QueueOrdered ==
    /\ Cardinality(Holders) \in Nat
    /\ HolderQueue \in Seq(Holders)
    /\ Len(HolderQueue) = Cardinality(Holders)
    /\ \A t \in Holders : /\ Ahead(t) + 1 \in 1 .. Cardinality(Holders)
                          /\ HolderQueue[Ahead(t) + 1] = t
    /\ \A i \in 1 .. Cardinality(Holders) :
          HolderQueue[i] \in Holders /\ Ahead(HolderQueue[i]) = i - 1

LEMMA QueueNumbers == QInv => QueueOrdered
  <1> SUFFICES ASSUME QInv PROVE QueueOrdered
    OBVIOUS
  <1> DEFINE c == Cardinality(Holders)
  <1>1. c \in Nat
    BY HoldersBound
  <1>2. ASSUME NEW i \in 1 .. c
        PROVE  HolderQueue[i] \in Holders /\ Ahead(HolderQueue[i]) = i - 1
    <2>1. i - 1 \in 0 .. c - 1
      BY <1>1
    <2>2. PICK t \in Holders : Ahead(t) = i - 1
      BY <2>1 DEF QInv, PlacesTaken
    <2>3. t \in Threads
      BY DEF Holders
    <2>4. InTurn(i - 1) \in Holders /\ Ahead(InTurn(i - 1)) = i - 1
      BY <2>2, <2>3 DEF InTurn
    <2>5. HolderQueue[i] = InTurn(i - 1)
      BY DEF HolderQueue
    <2> QED
      BY <2>4, <2>5
  <1>3. \A t, u \in Holders : Ahead(t) = Ahead(u) => t = u
    <2> SUFFICES ASSUME NEW t \in Holders, NEW u \in Holders,
                        Ahead(t) = Ahead(u)
                 PROVE  my_ticket[t] = my_ticket[u]
      BY DEF QInv, IInv, TicketWindow
    <2>1. my_ticket[t] \in Tickets /\ my_ticket[u] \in Tickets
          /\ now_serving \in Tickets
      BY DEF QInv, IInv, TypeOK, Holders
    <2> QED
      BY <2>1, TicketAssumption DEF Ahead, Tickets
  <1>4. ASSUME NEW t \in Holders
        PROVE  Ahead(t) + 1 \in 1 .. c /\ HolderQueue[Ahead(t) + 1] = t
    <2>1. Ahead(t) \in Nat /\ Ahead(t) < c
      <3>1. my_ticket[t] \in Tickets /\ now_serving \in Tickets /\ Ahead(t) < c
        BY DEF QInv, IInv, TypeOK, TicketWindow, Holders
      <3> QED
        BY <3>1, TicketAssumption DEF Ahead, Tickets
    <2>2. PICK n \in Nat : n = Ahead(t) + 1
      BY <2>1
    <2>3. n \in 1 .. c /\ n - 1 = Ahead(t)
      BY <2>1, <2>2, <1>1
    <2>4. HolderQueue[n] \in Holders /\ Ahead(HolderQueue[n]) = Ahead(t)
      BY <1>2, <2>3
    <2> QED
      BY <1>3, <2>2, <2>3, <2>4
  <1>5. HolderQueue \in Seq(Holders) /\ Len(HolderQueue) = c
    <2>1. HolderQueue \in [1 .. c -> Holders]
      BY <1>2 DEF HolderQueue
    <2> QED
      BY <1>1, <2>1
  <1> QED
    BY <1>1, <1>2, <1>4, <1>5 DEF QueueOrdered

LEMMA QueueNumbersNext == QInv' => QueueOrdered'
  BY QueueNumbers, PTL

(* A thread inside the lock is the head of the queue.                         *)
HeadIsInside ==
    /\ \A t \in Threads : pc[t] = "critical" =>
          /\ t \in Holders /\ Ahead(t) = 0 /\ HeadEntered
    /\ HeadEntered => \E t \in Holders : pc[t] = "critical"

LEMMA InsideIsHead == QInv => HeadIsInside
  <1> SUFFICES ASSUME QInv PROVE HeadIsInside
    OBVIOUS
  <1>1. ASSUME NEW t \in Threads, pc[t] = "critical"
        PROVE  t \in Holders /\ Ahead(t) = 0 /\ HeadEntered
    <2>1. t \in Holders
      BY <1>1 DEF Holders
    <2>2. Ahead(t) = 0
      <3>1. my_ticket[t] = now_serving /\ now_serving \in Tickets
        BY <1>1, <2>1 DEF QInv, IInv, TypeOK, TicketWindow
      <3> QED
        BY <3>1, TicketAssumption DEF Ahead, Tickets
    <2>3. HolderQueue[1] = t
      <3>1. HolderQueue[0 + 1] = t
        BY <2>1, <2>2, QueueNumbers DEF QueueOrdered
      <3> QED
        BY <3>1
    <2> QED
      BY <1>1, <2>1, <2>2, <2>3 DEF HeadEntered
  <1>2. ASSUME HeadEntered PROVE \E t \in Holders : pc[t] = "critical"
    <2>1. Cardinality(Holders) # 0
      BY <1>2, HoldersBound, FS_EmptySet DEF HeadEntered
    <2>2. 1 \in 1 .. Cardinality(Holders)
      BY <2>1, QueueNumbers DEF QueueOrdered
    <2> QED
      BY <1>2, <2>2, QueueNumbers DEF HeadEntered, QueueOrdered
  <1> QED
    BY <1>1, <1>2 DEF HeadIsInside

LEMMA InsideIsHeadNext == QInv' => HeadIsInside'
  BY InsideIsHead, PTL

(* Every step keeps the places taken.                                         *)
LEMMA InitPlaces == Init => QInv
  <1> SUFFICES ASSUME Init PROVE QInv
    OBVIOUS
  <1>1. Holders = {}
    BY DEF Init, Holders
  <1>2. Cardinality(Holders) = 0
    BY <1>1, FS_EmptySet
  <1> QED
    BY <1>2, InitInv DEF QInv, PlacesTaken

LEMMA DrawTicketPlaces ==
    ASSUME QInv, NEW t \in Threads, DrawTicket(t)
    PROVE  QInv'
  <1> DEFINE c == Cardinality(Holders)
  <1>1. /\ IInv' /\ Holders' = Holders \cup {t}
        /\ Cardinality(Holders') = c + 1
        /\ Ahead(t)' = c
        /\ \A u \in Holders : Ahead(u)' = Ahead(u)
    BY DrawTicketStep DEF QInv
  <1>2. c \in Nat
    BY HoldersBound
  <1>3. ASSUME NEW n \in 0 .. c PROVE \E u \in Holders' : Ahead(u)' = n
    <2>1. CASE n = c
      BY <2>1, <1>1
    <2>2. CASE n # c
      <3>1. n \in 0 .. c - 1
        BY <2>2, <1>2
      <3>2. PICK u \in Holders : Ahead(u) = n
        BY <3>1 DEF QInv, PlacesTaken
      <3> QED
        BY <3>2, <1>1
    <2> QED
      BY <2>1, <2>2
  <1>4. 0 .. Cardinality(Holders') - 1 = 0 .. c
    BY <1>1, <1>2
  <1>5. PlacesTaken'
    BY <1>3, <1>4 DEF PlacesTaken
  <1> QED
    BY <1>1, <1>5 DEF QInv

LEMMA EnterPlaces ==
    ASSUME QInv, NEW t \in Threads, Enter(t)
    PROVE  QInv'
  <1>1. /\ IInv' /\ Holders' = Holders
        /\ \A u \in Threads : Ahead(u)' = Ahead(u)
    BY EnterStep DEF QInv
  <1>2. \A u \in Holders : Ahead(u)' = Ahead(u)
    BY <1>1 DEF Holders
  <1>3. PlacesTaken'
    BY <1>1, <1>2 DEF QInv, PlacesTaken
  <1> QED
    BY <1>1, <1>3 DEF QInv

LEMMA UnlockPlaces ==
    ASSUME QInv, NEW t \in Threads, Unlock(t)
    PROVE  QInv'
  <1> DEFINE c == Cardinality(Holders)
  <1>1. /\ IInv' /\ t \in Holders /\ Holders' = Holders \ {t}
        /\ Cardinality(Holders') = c - 1
        /\ \A u \in Holders' : Ahead(u)' = Ahead(u) - 1
    BY UnlockStep DEF QInv
  <1>2. c \in Nat
    BY HoldersBound
  <1>3. Ahead(t) = 0
    <2>1. pc[t] = "critical"
      BY DEF Unlock
    <2> QED
      BY <2>1, InsideIsHead DEF HeadIsInside
  <1>4. ASSUME NEW n \in 0 .. c - 2 PROVE \E u \in Holders' : Ahead(u)' = n
    <2>1. n + 1 \in 0 .. c - 1 /\ n \in Nat
      BY <1>2
    <2>2. PICK u \in Holders : Ahead(u) = n + 1
      BY <2>1 DEF QInv, PlacesTaken
    <2>3. u \in Holders'
      BY <2>1, <2>2, <1>1, <1>3
    <2>4. Ahead(u)' = n
      BY <2>1, <2>2, <2>3, <1>1
    <2> QED
      BY <2>3, <2>4
  <1>5. 0 .. Cardinality(Holders') - 1 = 0 .. c - 2
    BY <1>1, <1>2
  <1>6. PlacesTaken'
    BY <1>4, <1>5 DEF PlacesTaken
  <1> QED
    BY <1>1, <1>6 DEF QInv

LEMMA PlacesStep == QInv /\ [Next]_vars => QInv'
  <1> SUFFICES ASSUME QInv, [Next]_vars PROVE QInv'
    OBVIOUS
  <1>1. ASSUME NEW t \in Threads, DrawTicket(t) PROVE QInv'
    BY <1>1, DrawTicketPlaces
  <1>2. ASSUME NEW t \in Threads, Enter(t) PROVE QInv'
    BY <1>2, EnterPlaces
  <1>3. ASSUME NEW t \in Threads, Unlock(t) PROVE QInv'
    BY <1>3, UnlockPlaces
  <1>4. CASE UNCHANGED vars
    <2>1. IInv'
      BY <1>4, StepInv DEF QInv
    <2>2. PlacesTaken'
      BY <1>4 DEF QInv, PlacesTaken, vars, Holders, Ahead
    <2> QED
      BY <2>1, <2>2 DEF QInv
  <1> QED
    BY <1>1, <1>2, <1>3, <1>4 DEF Next

LEMMA QueueInvariant == Spec => []QInv
  BY InitPlaces, PlacesStep, PTL DEF Spec

(* Two sequences of the same length with the same elements are one.           *)
LEMMA SameSequence ==
    ASSUME NEW S, NEW p \in Seq(S), NEW q \in Seq(S), Len(p) = Len(q),
           \A i \in 1 .. Len(p) : p[i] = q[i]
    PROVE  p = q
  OBVIOUS

(* A draw puts the thread behind everyone who drew before it.                 *)
LEMMA DrawTicketQueues ==
    ASSUME QInv, QInv', NEW t \in Threads, DrawTicket(t)
    PROVE  Fifo!Request(t)
  <1> DEFINE c == Cardinality(Holders)
             q == HolderQueue
             r == HolderQueue'
  <1>1. /\ t \notin Holders /\ Holders' = Holders \cup {t}
        /\ Cardinality(Holders') = c + 1
        /\ Ahead(t)' = c /\ pc'[t] = "waiting"
        /\ \A u \in Holders : Ahead(u)' = Ahead(u) /\ pc'[u] = pc[u]
    BY DrawTicketStep DEF QInv
  <1>2. /\ c \in Nat /\ q \in Seq(Holders) /\ Len(q) = c
        /\ \A u \in Holders : Ahead(u) + 1 \in 1 .. c /\ q[Ahead(u) + 1] = u
        /\ \A i \in 1 .. c : q[i] \in Holders /\ Ahead(q[i]) = i - 1
    BY QueueNumbers DEF QueueOrdered
  <1>3. /\ r \in Seq(Holders') /\ Len(r) = c + 1
        /\ \A u \in Holders' : r[Ahead(u)' + 1] = u
    BY <1>1, QueueNumbersNext DEF QueueOrdered
  <1> HIDE DEF c, q, r
  <1>4. ASSUME NEW i \in 1 .. c PROVE r[i] = q[i]
    <2>1. PICK u \in Holders : u = q[i] /\ Ahead(u) = i - 1
      BY <1>2
    <2>2. u \in Holders' /\ Ahead(u)' = i - 1
      BY <2>1, <1>1
    <2>3. r[(i - 1) + 1] = u
      BY <2>2, <1>3
    <2>4. (i - 1) + 1 = i
      BY <1>2
    <2> QED
      BY <2>1, <2>3, <2>4
  <1>5. r[c + 1] = t
    BY <1>1, <1>3
  <1>6. r = Append(q, t)
    <2>1. Append(q, t) \in Seq(Holders') /\ Len(Append(q, t)) = c + 1
      BY <1>1, <1>2
    <2>2. \A i \in 1 .. c + 1 : r[i] = Append(q, t)[i]
      BY <1>2, <1>4, <1>5
    <2> QED
      BY <2>1, <2>2, <1>3, SameSequence
  <1>7. ~Fifo!Queued(t)
    <2>1. \A i \in 1 .. Len(q) : q[i] # t
      BY <1>1, <1>2
    <2> QED
      BY <2>1 DEF Fifo!Queued, q
  <1>8. HeadEntered' = HeadEntered
    <2>1. CASE HeadEntered
      <3>1. PICK u \in Holders : pc[u] = "critical"
        BY <2>1, InsideIsHead DEF HeadIsInside
      <3>2. u \in Threads /\ pc'[u] = "critical"
        BY <3>1, <1>1 DEF Holders
      <3> QED
        BY <2>1, <3>2, InsideIsHeadNext DEF HeadIsInside, HeadEntered
    <2>2. CASE HeadEntered'
      <3>1. PICK u \in Holders' : pc'[u] = "critical"
        BY <2>2, InsideIsHeadNext DEF HeadIsInside
      <3>2. u \in Threads /\ u \in Holders
        BY <3>1, <1>1 DEF Holders
      <3>3. pc[u] = "critical"
        BY <3>1, <3>2, <1>1
      <3> QED
        BY <2>2, <3>2, <3>3, InsideIsHead DEF HeadIsInside, HeadEntered
    <2>3. HeadEntered \in BOOLEAN /\ HeadEntered' \in BOOLEAN
      BY DEF HeadEntered
    <2> QED
      BY <2>1, <2>2, <2>3
  <1> QED
    BY <1>6, <1>7, <1>8 DEF Fifo!Request, q, r

(* Only the head of the queue gets in, and only when nobody is inside.        *)
LEMMA EnterGrants ==
    ASSUME QInv, QInv', NEW t \in Threads, Enter(t)
    PROVE  Fifo!Grant
  <1> DEFINE c == Cardinality(Holders)
             q == HolderQueue
             r == HolderQueue'
  <1>1. Holders' = Holders /\ \A u \in Threads : Ahead(u)' = Ahead(u)
    BY EnterStep DEF QInv
  <1>2. /\ c \in Nat /\ q \in Seq(Holders) /\ Len(q) = c
        /\ \A i \in 1 .. c : q[i] \in Holders /\ Ahead(q[i]) = i - 1
    BY QueueNumbers DEF QueueOrdered
  <1>3. /\ r \in Seq(Holders) /\ Len(r) = c
        /\ \A u \in Holders : r[Ahead(u)' + 1] = u
    BY <1>1, QueueNumbersNext DEF QueueOrdered
  <1>4. /\ t \in Holders /\ pc[t] = "waiting" /\ pc'[t] = "critical"
        /\ my_ticket[t] = now_serving
    BY DEF Enter, Holders, QInv, IInv, TypeOK
  <1>5. q # <<>>
    <2>1. c # 0
      BY <1>4, HoldersBound, FS_EmptySet
    <2> QED
      BY <2>1, <1>2
  <1>6. ~HeadEntered
    <2> SUFFICES ASSUME HeadEntered PROVE FALSE
      OBVIOUS
    <2>1. PICK u \in Holders : pc[u] = "critical"
      BY InsideIsHead DEF HeadIsInside
    <2>2. my_ticket[u] = now_serving
      BY <2>1 DEF QInv, IInv, TicketWindow
    <2>3. u = t
      BY <2>2, <1>4 DEF QInv, IInv, TicketWindow
    <2> QED
      BY <2>1, <2>3, <1>4
  <1>7. HeadEntered' = TRUE
    BY <1>4, InsideIsHeadNext DEF HeadIsInside, HeadEntered
  <1> HIDE DEF c, q, r
  <1>8. r = q
    <2>1. ASSUME NEW i \in 1 .. c PROVE r[i] = q[i]
      <3>1. PICK u \in Holders : u = q[i] /\ Ahead(u) = i - 1
        BY <1>2
      <3>2. u \in Threads
        BY DEF Holders
      <3>3. r[(i - 1) + 1] = u
        BY <3>1, <3>2, <1>1, <1>3
      <3>4. (i - 1) + 1 = i
        BY <1>2
      <3> QED
        BY <3>1, <3>3, <3>4
    <2> QED
      BY <2>1, <1>2, <1>3, SameSequence
  <1> QED
    BY <1>5, <1>6, <1>7, <1>8 DEF Fifo!Grant, q, r

(* unlock() takes the head off the queue and moves everyone up by one.        *)
LEMMA UnlockReleases ==
    ASSUME QInv, QInv', NEW t \in Threads, Unlock(t)
    PROVE  Fifo!Release
  <1> DEFINE c == Cardinality(Holders)
             q == HolderQueue
             r == HolderQueue'
  <1>1. /\ t \in Holders /\ Holders' = Holders \ {t}
        /\ Cardinality(Holders') = c - 1
        /\ \A u \in Holders' : /\ Ahead(u)' = Ahead(u) - 1
                               /\ pc'[u] = pc[u] /\ pc[u] # "critical"
    BY UnlockStep DEF QInv
  <1>2. /\ c \in Nat /\ q \in Seq(Holders) /\ Len(q) = c
        /\ \A u \in Holders : Ahead(u) + 1 \in 1 .. c /\ q[Ahead(u) + 1] = u
        /\ \A i \in 1 .. c : q[i] \in Holders /\ Ahead(q[i]) = i - 1
    BY QueueNumbers DEF QueueOrdered
  <1>3. /\ r \in Seq(Holders') /\ Len(r) = c - 1
        /\ \A u \in Holders' : r[Ahead(u)' + 1] = u
    BY <1>1, QueueNumbersNext DEF QueueOrdered
  <1>4. pc[t] = "critical" /\ HeadEntered /\ Ahead(t) = 0
    BY InsideIsHead DEF HeadIsInside, Unlock
  <1>5. HeadEntered' = FALSE
    <2> SUFFICES ASSUME HeadEntered' PROVE FALSE
      BY DEF HeadEntered
    <2>1. PICK u \in Holders' : pc'[u] = "critical"
      BY InsideIsHeadNext DEF HeadIsInside
    <2> QED
      BY <2>1, <1>1
  <1> HIDE DEF c, q, r
  <1>6. r = Tail(q)
    <2>1. c >= 1
      BY <1>1, <1>2
    <2>2. Tail(q) \in Seq(Holders) /\ Len(Tail(q)) = c - 1
      BY <2>1, <1>2
    <2>3. r \in Seq(Holders)
      BY <1>1, <1>3
    <2>4. ASSUME NEW i \in 1 .. c - 1 PROVE r[i] = Tail(q)[i]
      <3>1. i + 1 \in 1 .. c /\ i \in Nat
        BY <1>2
      <3>2. PICK u \in Holders : u = q[i + 1] /\ Ahead(u) = i
        BY <3>1, <1>2
      <3>3. u # t
        BY <3>1, <3>2, <1>4
      <3>4. u \in Holders' /\ Ahead(u)' = i - 1
        BY <3>2, <3>3, <1>1
      <3>5. r[(i - 1) + 1] = u
        BY <3>4, <1>3
      <3>6. (i - 1) + 1 = i
        BY <3>1
      <3>7. Tail(q)[i] = q[i + 1]
        BY <2>1, <1>2
      <3> QED
        BY <3>2, <3>5, <3>6, <3>7
    <2> QED
      BY <2>2, <2>3, <2>4, <1>3, SameSequence
  <1> QED
    BY <1>4, <1>5, <1>6 DEF Fifo!Release, q, r

(* The lock of common.zig serves threads first come, first served: for every  *)
(* number of threads up to the number of ticket values, and whatever wraps,   *)
(* each of its steps is the abstract lock's step on the queue of the holders, *)
(* or none.  (That the lock is granted and released in the end is a matter of *)
(* fairness and stays with TLC.)                                              *)
THEOREM FirstComeFirstServed == Spec => Fifo!Safety
  <1>1. Init => Fifo!Init
    <2> SUFFICES ASSUME Init PROVE Fifo!Init
      OBVIOUS
    <2>1. Holders = {}
      BY DEF Init, Holders
    <2>2. QueueOrdered /\ Cardinality(Holders) = 0
      BY <2>1, FS_EmptySet, InitPlaces, QueueNumbers
    <2>3. HolderQueue = <<>>
      BY <2>2 DEF QueueOrdered
    <2>4. HeadEntered = FALSE
      BY <2>1 DEF HeadEntered
    <2> QED
      BY <2>3, <2>4 DEF Fifo!Init
  <1>2. QInv /\ QInv' /\ [Next]_vars => [Fifo!Next]_(Fifo!vars)
    <2> SUFFICES ASSUME QInv, QInv', [Next]_vars
                 PROVE  [Fifo!Next]_(Fifo!vars)
      OBVIOUS
    <2>1. ASSUME NEW t \in Threads, DrawTicket(t) PROVE Fifo!Next
      BY <2>1, DrawTicketQueues DEF Fifo!Next
    <2>2. ASSUME NEW t \in Threads, Enter(t) PROVE Fifo!Next
      BY <2>2, EnterGrants DEF Fifo!Next
    <2>3. ASSUME NEW t \in Threads, Unlock(t) PROVE Fifo!Next
      BY <2>3, UnlockReleases DEF Fifo!Next
    <2>4. CASE UNCHANGED vars
      BY <2>4
      DEF Fifo!vars, vars, HolderQueue, HeadEntered, InTurn, Holders, Ahead
    <2> QED
      BY <2>1, <2>2, <2>3, <2>4 DEF Next
  <1> QED
    BY <1>1, <1>2, QueueInvariant, PTL DEF Spec, Fifo!Safety
=============================================================================

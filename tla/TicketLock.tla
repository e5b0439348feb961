----------------------------- MODULE TicketLock -----------------------------
(* The fair userspace lock of src/src/common.zig.  Every writer of a shard    *)
(* and every reader that gave up its optimistic attempts goes through it.     *)
(*                                                                            *)
(* lock() is two atomic operations: a fetchAdd that draws a ticket, then      *)
(* loads of now_serving until it shows that ticket.  A load that shows        *)
(* another ticket changes nothing, so the spinning is stuttering.  unlock()   *)
(* is one fetchAdd.  Both counters are u32 and wrap: TicketMod stands for     *)
(* 2^32.                                                                      *)
EXTENDS Naturals, FiniteSets

CONSTANTS
    Threads,      \* the threads that share one shard
    TicketMod     \* number of values of a ticket counter

(* Two waiters never hold equal tickets only while there are no more threads  *)
(* than ticket values.                                                        *)
ASSUME ThreadsAssumption == IsFiniteSet(Threads)
ASSUME TicketAssumption ==
    TicketMod \in Nat \ {0} /\ Cardinality(Threads) <= TicketMod

VARIABLES
    next_ticket,  \* the ticket the next caller of lock() draws
    now_serving,  \* the ticket that owns the lock
    my_ticket,    \* the local my_ticket of each thread's lock() call
    pc            \* where each thread is: "idle", "waiting" or "critical"

vars == <<next_ticket, now_serving, my_ticket, pc>>

Tickets == 0 .. TicketMod - 1

(* Mutant: a counter that does not wrap.                                      *)
MutantAdvance(counter) == counter + 1

(* fetchAdd(1) on a wrapping counter.                                         *)
Advance(counter) == (counter + 1) % TicketMod

Init ==
    /\ next_ticket = 0
    /\ now_serving = 0
    /\ my_ticket = [t \in Threads |-> 0]
    /\ pc = [t \in Threads |-> "idle"]

(* Mutant: the fetchAdd replaced by a load and a store that another caller's  *)
(* store overtakes while the lock is contended.                               *)
MutantDrawTicket(t) ==
    /\ pc[t] = "idle"
    /\ my_ticket' = [my_ticket EXCEPT ![t] = next_ticket]
    /\ next_ticket' \in {next_ticket, Advance(next_ticket)}
    /\ pc' = [pc EXCEPT ![t] = "waiting"]
    /\ UNCHANGED now_serving

(* lock(): the fetchAdd on next_ticket.                                       *)
DrawTicket(t) ==
    /\ pc[t] = "idle"
    /\ my_ticket' = [my_ticket EXCEPT ![t] = next_ticket]
    /\ next_ticket' = Advance(next_ticket)
    /\ pc' = [pc EXCEPT ![t] = "waiting"]
    /\ UNCHANGED now_serving

(* Mutant: the wait ends as soon as the ticket has been drawn a turn early.   *)
MutantEnter(t) ==
    /\ pc[t] = "waiting"
    /\ my_ticket[t] \in {now_serving, Advance(now_serving)}
    /\ pc' = [pc EXCEPT ![t] = "critical"]
    /\ UNCHANGED <<next_ticket, now_serving, my_ticket>>

(* lock(): the load of now_serving that ends the wait.                        *)
Enter(t) ==
    /\ pc[t] = "waiting"
    /\ now_serving = my_ticket[t]
    /\ pc' = [pc EXCEPT ![t] = "critical"]
    /\ UNCHANGED <<next_ticket, now_serving, my_ticket>>

(* Mutant: unlock() stores the releasing thread's own ticket.                 *)
MutantUnlock(t) ==
    /\ pc[t] = "critical"
    /\ now_serving' = my_ticket[t]
    /\ pc' = [pc EXCEPT ![t] = "idle"]
    /\ UNCHANGED <<next_ticket, my_ticket>>

(* unlock().                                                                  *)
Unlock(t) ==
    /\ pc[t] = "critical"
    /\ now_serving' = Advance(now_serving)
    /\ pc' = [pc EXCEPT ![t] = "idle"]
    /\ UNCHANGED <<next_ticket, my_ticket>>

Next == \E t \in Threads : DrawTicket(t) \/ Enter(t) \/ Unlock(t)

(* A waiting thread keeps loading now_serving (it spins, then yields), and a  *)
(* thread inside the lock runs a bounded critical section: Shard.set() and    *)
(* the locked part of Shard.get().  Nothing obliges a thread to ask for the   *)
(* lock.                                                                      *)
Fairness == \A t \in Threads : WF_vars(Enter(t)) /\ WF_vars(Unlock(t))

Spec == Init /\ [][Next]_vars /\ Fairness

-----------------------------------------------------------------------------
(* Threads that drew a ticket and have not given the lock back.               *)
Holders == {t \in Threads : pc[t] # "idle"}

(* How many unlock() calls come before thread t's turn.                       *)
Ahead(t) == IF my_ticket[t] >= now_serving
              THEN my_ticket[t] - now_serving
              ELSE my_ticket[t] + TicketMod - now_serving

TypeOK ==
    /\ next_ticket \in Tickets
    /\ now_serving \in Tickets
    /\ my_ticket \in [Threads -> Tickets]
    /\ pc \in [Threads -> {"idle", "waiting", "critical"}]

(* At most one thread is between lock() and unlock(), also after the u32      *)
(* counters have wrapped.                                                     *)
MutualExclusion ==
    \A t, u \in Threads : pc[t] = "critical" /\ pc[u] = "critical" => t = u

(* The tickets in use are exactly the ones from now_serving up to, not        *)
(* including, next_ticket, one holder each: why the counters may wrap.        *)
TicketWindow ==
    /\ \A t \in Holders : Ahead(t) < Cardinality(Holders)
    /\ \A t, u \in Holders : my_ticket[t] = my_ticket[u] => t = u
    /\ next_ticket = (now_serving + Cardinality(Holders)) % TicketMod
    /\ \A t \in Holders : pc[t] = "critical" => my_ticket[t] = now_serving

(* The comment of common.zig:3-4: no starvation.  Whoever drew a ticket       *)
(* enters.                                                                    *)
NoStarvation == \A t \in Threads : pc[t] = "waiting" ~> pc[t] = "critical"

-----------------------------------------------------------------------------
(* The holder that n others come before (any thread if there is none, which   *)
(* TicketWindow excludes for each n below the number of holders).             *)
InTurn(n) ==
    CHOOSE t \in Threads :
        (\E u \in Holders : Ahead(u) = n) => t \in Holders /\ Ahead(t) = n

(* The queue that the ticket lock implements: the holders by distance of      *)
(* their ticket from now_serving.                                             *)
HolderQueue == [i \in 1 .. Cardinality(Holders) |-> InTurn(i - 1)]

(* The head of the queue is inside the lock.                                  *)
HeadEntered == Holders # {} /\ pc[HolderQueue[1]] = "critical"

Fifo == INSTANCE FifoLock WITH queue <- HolderQueue, owner <- HeadEntered

(* The ticket lock implements a first-come-first-served lock, fairness        *)
(* included: threads enter in the order their fetchAdd on next_ticket took    *)
(* effect (src/src/common.zig:3-21).                                          *)
ImplementsFifo == Fifo!Spec
=============================================================================

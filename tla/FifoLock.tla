------------------------------ MODULE FifoLock ------------------------------
(* What a shard's lock promises: a queue of threads, first come first served. *)
(* "Serving threads in the order they requested the lock"                     *)
(* (src/src/common.zig:3-4), with no counter that could wrap.                 *)
EXTENDS Sequences, Naturals

CONSTANT Threads

VARIABLES
    queue,   \* the threads that asked for the lock, oldest first
    owner    \* TRUE when the head of the queue has noticed that it owns it

vars == <<queue, owner>>

Queued(t) == \E i \in 1 .. Len(queue) : queue[i] = t

Init == queue = <<>> /\ owner = FALSE

Request(t) ==
    /\ ~Queued(t)
    /\ queue' = Append(queue, t)
    /\ UNCHANGED owner

Grant ==
    /\ queue # <<>>
    /\ ~owner
    /\ owner' = TRUE
    /\ UNCHANGED queue

Release ==
    /\ owner
    /\ queue' = Tail(queue)
    /\ owner' = FALSE

Next == (\E t \in Threads : Request(t)) \/ Grant \/ Release

(* Order and exclusion, without the promise that anything happens.            *)
Safety == Init /\ [][Next]_vars

Spec == Safety /\ WF_vars(Grant) /\ WF_vars(Release)
=============================================================================

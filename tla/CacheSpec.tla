----------------------------- MODULE CacheSpec ------------------------------
(* What one shard promises its callers: a map from keys to values that may    *)
(* forget any key while a set() makes room, but that never shows a value      *)
(* other than the last one stored under the key.  set() calls take effect one *)
(* at a time: each ends by storing exactly its own pair, and only a pair that *)
(* is too large for any block may end without.                                *)
EXTENDS Naturals

CONSTANTS
    Keys, Values, Absent,
    TooLarge    \* the pairs that no block can hold

VARIABLES
    cache,      \* key -> its value, or Absent
    pending     \* the pair a set() is storing, or Absent

vars == <<cache, pending>>

Init ==
    /\ cache = [k \in Keys |-> Absent]
    /\ pending = Absent

Begin(k, v) ==
    /\ pending = Absent
    /\ pending' = <<k, v>>
    /\ UNCHANGED cache

(* Room is made for the pair that is being stored, and only for it.           *)
Forget(k) ==
    /\ pending # Absent
    /\ cache[k] # Absent
    /\ cache' = [cache EXCEPT ![k] = Absent]
    /\ UNCHANGED pending

Finish ==
    /\ pending # Absent
    /\ cache' = [cache EXCEPT ![pending[1]] = pending[2]]
    /\ pending' = Absent

(* ValueTooLarge.                                                             *)
Fail ==
    /\ pending \in TooLarge
    /\ pending' = Absent
    /\ UNCHANGED cache

Next == \/ \E k \in Keys : Forget(k) \/ \E v \in Values : Begin(k, v)
        \/ Finish
        \/ Fail

Spec == Init /\ [][Next]_vars
=============================================================================

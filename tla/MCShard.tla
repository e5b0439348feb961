------------------------------ MODULE MCShard -------------------------------
(* Keys and values for Shard.  Words 101.. are key bytes, 201.. value bytes.  *)
(* The keys collide in the index: 101 and 103 share a home, 102's is next.    *)
EXTENDS Shard

MCKeys == {<<101>>, <<102>>, <<103>>}
MCHashLow == [k \in MCKeys |-> IF k = <<102>> THEN 0 ELSE 7]

TwoKeys == {<<101>>, <<103>>}
TwoHashLow == [k \in TwoKeys |-> 3]

TwoSizes == {<<201>>, <<202, 203, 204>>}

(* An empty value, two sizes, and a value that no block can hold.             *)
ManySizes == {<<>>, <<201>>, <<202, 203, 204>>,
              <<211, 212, 213, 214, 215, 216, 217>>}
=============================================================================

----------------------------- MODULE MCSeqlock ------------------------------
(* Values for Seqlock: an empty one, a short one, and two that share no word, *)
(* so that a copy made of both is recognised.                                 *)
EXTENDS Seqlock, TLC

MCValues == {<<>>, <<1>>, <<1, 1>>, <<2, 2>>}
EmptyValues == {<<>>, <<1>>}
ShortValues == {<<1>>, <<2>>}
FullValues == {<<1>>, <<2, 2>>}

(* Nothing distinguishes one key, or one block, from another.                 *)
Symmetry == Permutations(Keys) \cup Permutations(Blocks)
=============================================================================

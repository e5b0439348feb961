---------------------------- MODULE MCNodeCache -----------------------------
(* NodeCache with three keys: "a" in ASCII; "e-acute", one byte per character *)
(* but not ASCII; "wide", of two bytes per character.                         *)
EXTENDS NodeCache, Sequences

CONSTANTS a, b, c, huge    \* values

MCLatin1 == [k \in Keys |-> IF k = "a" THEN "a" ELSE k \o " as Latin-1"]
MCUtf8 == [k \in Keys |-> IF k = "a" THEN "a" ELSE k \o " as UTF-8"]

(* Lengths: within every scratch buffer; more than the first of Bun; more     *)
(* than that of Node.js; beyond both, and a string of that length is refused  *)
(* while the storage has fewer than two bytes.                                *)
MCLength == [v \in Values |-> CASE v = a -> 1 [] v = b -> 2 [] v = c -> 3
                                [] v = huge -> 72]
=============================================================================

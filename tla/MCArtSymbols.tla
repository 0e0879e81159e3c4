---------------------------- MODULE MCArtSymbols ----------------------------
(* Every library of up to three symbols and two buckets.  The hashes of a   *)
(* and b differ only in the bit the end mark takes, so that a chain of one  *)
(* bucket confuses them; two buckets part b from a and c.                   *)
EXTENDS ArtSymbols

CONSTANTS a, b, c

MCHash == [n \in Names |-> CASE n = a -> 2 [] n = b -> 3 [] n = c -> 4]
=============================================================================

------------------------------ MODULE MCCaches ------------------------------
(* Instances of Caches for model checking.                                 *)
EXTENDS Caches

CONSTANTS h1, h2, h3

\* Two objects the cache has room for one of, and one larger than the cache.
MCOffsets == 1..3
MCHashAt == <<h1, h2, h3>>
MCSize == [h \in Hashes |-> IF h = h3 THEN 2 ELSE 1]
=============================================================================

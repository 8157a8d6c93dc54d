-------------------------- MODULE MC_ExtendibleHash --------------------------
(* Instantiates ExtendibleHash for TLC: buckets of two pairs and the keys *)
(* 0, 1, 2, 4 and 8.  0, 4 and 8 agree in their two low bits, so one      *)
(* Insert of the third of them splits the same bucket three times before  *)
(* the pair fits, doubling the directory up to global depth 3 (0 and 8    *)
(* differ only in bit 3); 1 and 2 give buckets split on bit 0 and bit 1.  *)
EXTENDS ExtendibleHash

MCKeys == {0, 1, 2, 4, 8}
====

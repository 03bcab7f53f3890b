---------------------------- MODULE MCGlobalStorage ----------------------------
(* GlobalStorage on two threads, two keys and two values.  The second value  *)
(* is longer than the first, and its bzip2 stream just fits the output       *)
(* buffer, so that its block is longer than the value itself.                *)
EXTENDS GlobalStorage, TLC

CONSTANTS c1, c2, k1, k2, v1, v2

MCValueLength == v1 :> 6 @@ v2 :> 8
MCBZ2Length == v1 :> 2 @@ v2 :> 7
=============================================================================

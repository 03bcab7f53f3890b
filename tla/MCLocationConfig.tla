---------------------------- MODULE MCLocationConfig ----------------------------
(* LocationConfig with three sections, two of them for the same location.    *)
EXTENDS LocationConfig, TLC

CONSTANTS s1, s2, s3, la, lb, v1, v2

MCLocationOf == [s \in Sections |-> IF s = s3 THEN lb ELSE la]

\* The arguments, and the two sections of one location, are interchangeable.
Interchangeable == Permutations({v1, v2}) \cup Permutations({s1, s2})
=============================================================================

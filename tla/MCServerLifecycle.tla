--------------------------- MODULE MCServerLifecycle ---------------------------
(* ServerLifecycle with three sections: one plain, one that asks for the APR *)
(* servers manager, and one for the same location as the first that asks for *)
(* it too but has no root.                                                   *)
EXTENDS ServerLifecycle

CONSTANTS a, b, c, la, lb

MCLocationOf == [s \in Sections |-> IF s = b THEN lb ELSE la]
=============================================================================

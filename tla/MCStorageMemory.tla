---------------------------- MODULE MCStorageMemory ----------------------------
(* StorageMemory with the two managers that GrassrootsPostConfig and the     *)
(* child init functions may set up in one pool.                              *)
EXTENDS StorageMemory

CONSTANTS jobs, servers
=============================================================================

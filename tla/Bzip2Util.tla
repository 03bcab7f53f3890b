------------------------------- MODULE Bzip2Util -------------------------------
(***************************************************************************)
(* src/src/bzip2_util.c: the pair of functions the managers hand to the    *)
(* global storage when the module is built with USE_BZIP2.  A value is a   *)
(* model value; what matters of it is how many bytes it has and how many   *)
(* bytes bzip2 makes of it.  A block is what lies in the shared cache: the *)
(* value it stands for, its length in bytes, and whether those bytes are a *)
(* bzip2 stream behind a length header or the value itself.                *)
(***************************************************************************)
EXTENDS Naturals

CONSTANTS Values,       \* the serialised jobs and servers that get stored
          NULL,         \* the C null pointer
          ValueLength,  \* ValueLength[v]: bytes of v, its terminator included
          BZ2Length     \* BZ2Length[v]: bytes of the bzip2 stream of v

Blocks == [value: Values, length: Nat, bz2: BOOLEAN]

ASSUME LengthsAssumption ==
  /\ ValueLength \in [Values -> Nat \ {0}]
  /\ BZ2Length \in [Values -> Nat \ {0}]

ASSUME NullAssumption == NULL \notin Values \cup Blocks

\* sizeof (unsigned int): the uncompressed length that precedes the stream.
LengthHeader == 4

\* The value as it is stored when no compress function is configured.
Plain(v) == [value |-> v, length |-> ValueLength[v], bz2 |-> FALSE]

\* The output buffer has room for as many payload bytes as the value has, so a
\* stream longer than the value is BZ_OUTBUFF_FULL and yields no block.
CompressToBZ2(v) ==
  IF BZ2Length[v] <= ValueLength[v]
    THEN [value |-> v, length |-> BZ2Length[v] + LengthHeader, bz2 |-> TRUE]
    ELSE NULL

\* A block that does not start with a stream is BZ_DATA_ERROR_MAGIC.
UncompressFromBZ2(b) == IF b.bz2 THEN b.value ELSE NULL
=============================================================================

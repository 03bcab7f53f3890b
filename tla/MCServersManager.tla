---------------------------- MODULE MCServersManager ----------------------------
(* ServersManager on two threads, two URIs and two servers.                  *)
EXTENDS ServersManager

CONSTANTS t1, t2, u1, u2, s1, s2
=============================================================================

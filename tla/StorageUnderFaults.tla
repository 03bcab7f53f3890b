--------------------------- MODULE StorageUnderFaults ---------------------------
(***************************************************************************)
(* What is left of StorageContract when any call below the storage may     *)
(* fail, but for the locking in Find, and processes may be killed.         *)
(* src/src/apr_global_storage.c goes on after some failures as if there    *)
(* had been none:                                                          *)
(*   Remove  drops an entry that could not be decompressed, and returns a  *)
(*           value that the provider failed to remove;                     *)
(*   Iterate returns true if it could not lock, having shown nothing.      *)
(* If calls are not fallible this is the contract.                         *)
(***************************************************************************)
EXTENDS StorageContract

ServeRemoveFaulty(c) ==
  /\ ask[c].op = "remove"
  /\ Answers(c, contents[ask[c].key], Nothing) \/ Answers(c, NULL, Nothing)
  /\ contents' \in {contents, [contents EXCEPT ![ask[c].key] = NULL]}

ServeIterateFaulty(c) ==
  /\ ask[c].op = "iterate"
  /\ Answers(c, TRUE, Nothing)
  /\ UNCHANGED contents

ServeFaulty(c) ==
  /\ fallible
  /\ phase[c] = "asked"
  /\ phase' = [phase EXCEPT ![c] = "answered"]
  /\ ServeRemoveFaulty(c) \/ ServeIterateFaulty(c)
  /\ UNCHANGED <<ask, fallible>>

\* The caller is killed: it never sees the answer.
Abandon(c) ==
  /\ fallible
  /\ phase[c] # "idle"
  /\ phase' = [phase EXCEPT ![c] = "idle"]
  /\ ask' = [ask EXCEPT ![c] = NoRequest]
  /\ answer' = [answer EXCEPT ![c] = NoAnswer]
  /\ UNCHANGED <<contents, fallible>>

FaultyNext == Next \/ \E c \in Clients : ServeFaulty(c) \/ Abandon(c)

FaultySpec == Init /\ [][FaultyNext]_vars

\* The answer, or a part of a list, is lost between the storage and the caller
\* of a manager: what was found could not be made an object of.
Lose(c) ==
  /\ fallible
  /\ phase[c] = "answered"
  /\ \/ ask[c].op \in {"get", "remove"} /\ Answers(c, NULL, Nothing)
     \/ /\ ask[c].op = "iterate"
        /\ \E shown \in SubMaps(answer[c].entries) : Answers(c, answer[c].result, shown)
  /\ UNCHANGED <<contents, phase, ask, fallible>>

LossyNext == FaultyNext \/ \E c \in Clients : Lose(c)

LossySpec == Init /\ [][LossyNext]_vars
=============================================================================

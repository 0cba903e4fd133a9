---------------------------- MODULE MCPathRouter ----------------------------
(***************************************************************************)
(* An instance of PathRouter for TLC: the client "m", another one, an id   *)
(* nobody has.                                                             *)
(***************************************************************************)
EXTENDS PathRouter

\* A visitor who never gets to the client "m" has nothing to do with its
\* connection: one kind of connection is enough for him.
Silence == [peer |-> "silent", role |-> "control", port |-> TRUE]
MCInit == Init /\ ((visitor.to = MyId /\ visitor.chunk = "line") \/ setup = Silence)

MCSpec == MCInit /\ [][Next]_vars /\ Fairness
=============================================================================

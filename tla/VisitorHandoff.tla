--------------------------- MODULE VisitorHandoff ---------------------------
(***************************************************************************)
(* What the relay promises a visitor, whatever happens between the relay   *)
(* and the tunnel clients: a visitor that asked for a client is handed to  *)
(* at most one data connection, that connection is one of that very        *)
(* client, and a visitor whose stream was dropped is never handed over.    *)
(*                                                                         *)
(* The specification is abstract: nothing is said about connection         *)
(* numbers, the pending table, notices or timers.  Pairing implements it.  *)
(***************************************************************************)
CONSTANTS Clients,    \* registered tunnel clients
          Visitors,   \* visitor connections
          NoClient    \* "no client at all"

VARIABLES fate,       \* where each visitor's stream is
          askedFor,   \* the client whose address the visitor opened
          servedBy    \* the client whose data connection got the stream

vars == <<fate, askedFor, servedBy>>

Fates == {"outside", "waiting", "served", "dropped"}

TypeOK ==
  /\ fate \in [Visitors -> Fates]
  /\ askedFor \in [Visitors -> Clients \cup {NoClient}]
  /\ servedBy \in [Visitors -> Clients \cup {NoClient}]

Init ==
  /\ fate = [v \in Visitors |-> "outside"]
  /\ askedFor = [v \in Visitors |-> NoClient]
  /\ servedBy = [v \in Visitors |-> NoClient]

\* A visitor opens the address of client c.
Arrive(v, c) ==
  /\ fate[v] = "outside"
  /\ fate' = [fate EXCEPT ![v] = "waiting"]
  /\ askedFor' = [askedFor EXCEPT ![v] = c]
  /\ UNCHANGED servedBy

\* The stream is joined to a data connection of the client it asked for.
Serve(v) ==
  /\ fate[v] = "waiting"
  /\ fate' = [fate EXCEPT ![v] = "served"]
  /\ servedBy' = [servedBy EXCEPT ![v] = askedFor[v]]
  /\ UNCHANGED askedFor

\* The streams of the visitors in S are dropped.
Drop(S) ==
  /\ \A v \in S : fate[v] = "waiting"
  /\ fate' = [v \in Visitors |-> IF v \in S THEN "dropped" ELSE fate[v]]
  /\ UNCHANGED <<askedFor, servedBy>>

Next ==
  \/ \E v \in Visitors, c \in Clients : Arrive(v, c)
  \/ \E v \in Visitors : Serve(v)
  \/ \E S \in SUBSET Visitors : Drop(S)

Spec == Init /\ [][Next]_vars
=============================================================================

----------------------------- MODULE PathRouter -----------------------------
(***************************************************************************)
(* The shared visitor port of the relay (run_path_router of                *)
(* crates/tunnel/src/server.rs) in front of a client's control connection: *)
(* a visitor's request is read as far as its first line, the client is     *)
(* looked up by the first segment of the path, and the visitor announced   *)
(* in the client's session, which may be ending meanwhile: until its       *)
(* listeners are joined it is in the map and takes notices nobody reads.   *)
(* The client that hears of the visitor dials back.                        *)
(***************************************************************************)
EXTENDS ControlWire

CONSTANTS MyId,        \* the id of the client behind the control connection
          OtherIds,    \* ids of other clients, all of them online
          Segments     \* the first segments visitors ask for

ASSUME RouterAssumption == MyId \notin OtherIds

VARIABLE visitor       \* step, the first segment of his request, what of it arrives

vars == <<setup, client, relay, toRelay, toClient, link, notices, kicked, visitor>>
Registered == {MyId} \cup OtherIds

\* A first block with the whole request line, a part of it, or no HTTP; or none.
Chunks == {"line", "part", "other", "none"}

TypeOK ==
  /\ WireTypeOK
  /\ visitor.step \in {"away", "read", "lookup", "send", "waiting", "piped", "gone"}
  /\ visitor.to \in Segments /\ visitor.chunk \in Chunks
  /\ visitor.status \in {0, 400, 404, 503}
  /\ notices + client.heard =< 1

Init ==
  /\ WireInit
  /\ visitor \in [step : {"away"}, to : Segments, chunk : Chunks, status : {0}]

-----------------------------------------------------------------------------
Moves(step) == visitor' = [visitor EXCEPT !.step = step]
Turned(status) == visitor' = [visitor EXCEPT !.step = "gone", !.status = status]

VisitorComes ==
  /\ visitor.step = "away"
  /\ Moves("read") /\ UNCHANGED wireVars

\* The first block is all that is looked at: first_path_segment.  Nothing
\* comes in time, or the TLS handshake fails: the connection is dropped.
RouterReads ==
  /\ visitor.step = "read"
  /\ CASE visitor.chunk = "none"              -> Moves("gone")
       [] visitor.chunk \in {"part", "other"} -> Turned(400)
       [] OTHER -> IF visitor.to \in Registered THEN Moves("lookup") ELSE Turned(404)
  /\ UNCHANGED wireVars

\* The session's sender is taken out of the map, and used when the lock is gone.
LookUp ==
  /\ visitor.step = "lookup"
  /\ IF visitor.to \in OtherIds \/ Listed THEN Moves("send") ELSE Turned(503)
  /\ UNCHANGED wireVars

\* dispatch_visitor: the channel takes the notice until run_control returns.
Dispatch ==
  /\ visitor.step = "send"
  /\ IF visitor.to # MyId THEN Moves("piped") /\ UNCHANGED wireVars
     ELSE IF relay.step \in {"loop", "closing"} THEN Moves("waiting") /\ Notified
     ELSE Moves("gone") /\ UNCHANGED wireVars

\* serve_conn: the client that heard of him dials back, also if its own session
\* has ended since.
ServeConn ==
  /\ visitor.step = "waiting" /\ client.heard > 0
  /\ Moves("piped") /\ UNCHANGED wireVars

Swept ==
  /\ visitor.step = "waiting"
  /\ Moves("gone") /\ UNCHANGED wireVars

VisitorStep ==
  \/ VisitorComes \/ RouterReads \/ LookUp \/ Dispatch \/ ServeConn \/ Swept

Next ==
  \/ WireStep /\ UNCHANGED visitor
  \/ VisitorStep

\* Nothing keeps the visitor's task waiting, and the table is swept.
Fairness == WireFairness /\ WF_vars(RouterReads \/ LookUp \/ Dispatch \/ Swept)

Spec == Init /\ [][Next]_vars /\ Fairness

-----------------------------------------------------------------------------
(* Properties.                                                             *)

\* A notice does not get lost between the path router and the client, whatever
\* the other branches of run_control's select do meanwhile: as long as the
\* session is in its loop, the connection whole and the client there, the
\* notice of a visitor who waits is in the channel, under way, or heard.
NoticeIsKept ==
  visitor.step = "waiting" /\ relay.step = "loop" /\ link = "whole" /\ client.step # "ended" =>
    \/ notices > 0 \/ client.heard > 0
    \/ \E i \in 1..Len(toClient) : toClient[i] = [part |-> "body", of |-> "NewConn"]

=============================================================================

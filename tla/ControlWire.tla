----------------------------- MODULE ControlWire -----------------------------
(***************************************************************************)
(* One connection to the control port of the relay, frame by frame: the    *)
(* handshake of both sides (handle_incoming of crates/tunnel/src/server.rs *)
(* and handshake of client.rs), the loops of a control session, and the    *)
(* frames of protocol.rs.                                                  *)
(*                                                                         *)
(* A frame is written as two pieces, its length and its text, and the two  *)
(* arrive one after the other.  The relay reads in a branch of a select:   *)
(* when another branch comes first, a length that was taken is forgotten,  *)
(* and the text that follows is read as a length.                          *)
(*                                                                         *)
(* ControlSessions has the sessions of a client and their ports, Pairing   *)
(* has the data connections after their handshake.  PathRouter puts this   *)
(* connection together with a visitor and has the specification.           *)
(***************************************************************************)
EXTENDS Naturals, Sequences, SequencesExt

CONSTANTS MaxMissed,   \* pings left unanswered before giving up (3)
          MaxAhead     \* bound: pieces under way when the relay says more

ASSUME WireAssumption == MaxMissed \in Nat \ {0} /\ MaxAhead \in Nat

VARIABLES
  setup,    \* who connects, as what, and if the port he asks for can be had
  client,   \* the client's side: step, head of a frame taken, how it ended
  relay,    \* the relay's side: the same, pings unanswered, port granted
  toRelay, toClient,  \* pieces under way
  link,     \* "whole", "cut" (both sides see it) or "dead" (nobody does)
  notices,  \* notices in the session's event channel
  kicked    \* kick_previous has taken the session out of the map

pieces == <<toRelay, toClient>>
wireVars == <<setup, client, relay, toRelay, toClient, link, notices, kicked>>

\* The client as it should be, one of another version, one with a wrong token,
\* one the relay does not know, someone who says nothing or the wrong thing.
Peers == {"right", "version", "token", "unknown", "silent", "babbler"}

Messages == {"Hello", "Auth", "Bind", "Pong", "Bye",
             "Challenge", "AuthOk", "AuthErr", "BindOk", "BindErr", "NewConn", "Ping"}
Pieces == [part : {"head", "body"}, of : Messages]

WireTypeOK ==
  /\ setup \in [peer : Peers, role : {"control", "data"}, port : BOOLEAN]
  /\ client.step \in {"start", "hello", "auth", "session", "serve", "other", "ended"}
  /\ client.end \in {"none", "bye", "fatal", "error", "stopped", "served"}
  /\ relay.step \in {"hello", "auth", "loop", "closing", "splice", "ended"}
  /\ relay.end \in {"none", "version", "denied", "timeout", "superseded", "silent",
                    "bye", "length", "lost", "dropped", "piped"}
  /\ relay.missed \in 0..MaxMissed
  /\ \A q \in {toRelay, toClient} : \A i \in 1..Len(q) : q[i] \in Pieces
  /\ link \in {"whole", "cut", "dead"}
  /\ notices \in Nat /\ client.heard \in Nat /\ kicked \in BOOLEAN

WireInit ==
  /\ setup \in [peer : Peers, role : {"control", "data"}, port : BOOLEAN]
  /\ client = [step |-> IF setup.peer \in {"silent", "babbler"} THEN "other" ELSE "start",
               head |-> FALSE, end |-> "none", online |-> FALSE, heard |-> 0]
  /\ relay = [step |-> "hello", head |-> FALSE, end |-> "none", missed |-> 0,
              granted |-> FALSE, refused |-> FALSE]
  /\ toRelay = IF setup.peer = "babbler" THEN <<[part |-> "body", of |-> "Hello"]>> ELSE <<>>
  /\ toClient = <<>>
  /\ link = "whole"
  /\ notices = 0
  /\ kicked = FALSE

-----------------------------------------------------------------------------
(* Frames.                                                                 *)

Frame(m) == <<[part |-> "head", of |-> m], [part |-> "body", of |-> m]>>

\* write_msg: what is written to a connection that is gone gets nowhere.
Written(q, m) == IF link = "whole" THEN q \o Frame(m) ELSE q

Arrived(q, part) == link # "dead" /\ q # <<>> /\ Head(q).part = part

\* No byte of a text comes near a length within the limit: it is out of bounds.
OutOfStep(head, q) == ~head /\ Arrived(q, "body")

-----------------------------------------------------------------------------
(* The relay.                                                              *)

Shaking == relay.step \in {"hello", "auth"}
Rest == UNCHANGED <<setup, link, notices, kicked>>

\* After the loop of a session comes the clean-up, with the connection open.
RelayEnds(why) ==
  relay' = [relay EXCEPT !.step = IF @ = "loop" THEN "closing" ELSE "ended",
                         !.end = why, !.head = FALSE]
RelaySays(m) == toClient' = Written(toClient, m)

RelayTakesHead ==
  /\ Shaking \/ relay.step = "loop"
  /\ ~relay.head /\ Arrived(toRelay, "head")
  /\ relay' = [relay EXCEPT !.head = TRUE]
  /\ toRelay' = Tail(toRelay)
  /\ UNCHANGED <<client, toClient>> /\ Rest

RelayLosesStep ==
  /\ Shaking \/ relay.step = "loop"
  /\ OutOfStep(relay.head, toRelay)
  /\ RelayEnds("length")
  /\ UNCHANGED <<client, pieces>> /\ Rest

\* The text of a frame after its length.
RelayHears(m) ==
  /\ relay.head /\ Arrived(toRelay, "body") /\ Head(toRelay).of = m
  /\ toRelay' = Tail(toRelay)
  /\ UNCHANGED client /\ Rest

\* Faulty: the connection is closed without a word.
RefuseSilently(why) == RelayEnds(why) /\ UNCHANGED toClient

Refuse(why) == RelayEnds(why) /\ RelaySays("AuthErr")

Proceed(step) == relay' = [relay EXCEPT !.step = step, !.head = FALSE]

\* An id the relay does not know is challenged all the same.
RelayGreeted ==
  /\ relay.step = "hello" /\ RelayHears("Hello")
  /\ IF setup.peer = "version" THEN Refuse("version")
     ELSE Proceed("auth") /\ RelaySays("Challenge")

\* The signature is right if the token is, for this id, role and nonce.
Verified == setup.peer = "right"

RelayAuthenticates ==
  /\ relay.step = "auth" /\ RelayHears("Auth")
  /\ IF Verified
     THEN /\ Proceed(IF setup.role = "control" THEN "loop" ELSE "splice")
          /\ RelaySays("AuthOk")
     ELSE Refuse("denied")


HandshakeTimesOut ==
  /\ Shaking
  /\ RelayEnds("timeout")
  /\ UNCHANGED <<client, pieces>> /\ Rest

\* End of file, also in the middle of a frame, or an error of the connection.
RelayLosesClient ==
  /\ relay.step \notin {"closing", "ended"}
  /\ \/ link = "cut"
     \/ link = "whole" /\ client.step = "ended" /\ toRelay = <<>>
  /\ RelayEnds("lost")
  /\ UNCHANGED <<client, pieces>> /\ Rest

\* Another connection of the client takes the session out of the map, whatever
\* it is doing, and tells it to end.
Listed == ~kicked /\ (relay.step \in {"loop", "closing"} \/ relay.end = "dropped")

Kicked ==
  /\ Listed
  /\ kicked' = TRUE
  /\ UNCHANGED <<setup, client, relay, toRelay, toClient, link, notices>>

\* The other branches of the select: read_msg is dropped where it is.
Superseded ==
  /\ relay.step = "loop" /\ kicked
  /\ RelayEnds("superseded") /\ RelaySays("Bye")
  /\ UNCHANGED <<client, toRelay>> /\ Rest

Room == link # "whole" \/ Len(toClient \o toRelay) =< MaxAhead

\* Faulty: the branch is left before the notice is written.
ForwardNoticeCancelled ==
  /\ relay.step = "loop" /\ notices > 0 /\ Room
  /\ notices' = notices - 1
  /\ RelaySays("NewConn") \/ UNCHANGED toClient
  /\ relay' = [relay EXCEPT !.head = FALSE]
  /\ UNCHANGED <<setup, client, toRelay, link, kicked>>

ForwardNotice ==
  /\ relay.step = "loop" /\ notices > 0 /\ Room
  /\ notices' = notices - 1
  /\ RelaySays("NewConn")
  /\ relay' = [relay EXCEPT !.head = FALSE]
  /\ UNCHANGED <<setup, client, toRelay, link, kicked>>

\* Faulty: the unanswered pings are not limited.
SendPingAlways ==
  /\ relay.step = "loop" /\ Room
  /\ relay' = [relay EXCEPT !.missed = @ + 1, !.head = FALSE]
  /\ RelaySays("Ping")
  /\ UNCHANGED <<client, toRelay>> /\ Rest

SendPing ==
  /\ relay.step = "loop" /\ relay.missed < MaxMissed /\ Room
  /\ relay' = [relay EXCEPT !.missed = @ + 1, !.head = FALSE]
  /\ RelaySays("Ping")
  /\ UNCHANGED <<client, toRelay>> /\ Rest

HeartbeatLost ==
  /\ relay.step = "loop" /\ relay.missed >= MaxMissed
  /\ RelayEnds("silent")
  /\ UNCHANGED <<client, pieces>> /\ Rest

RelayPonged ==
  /\ relay.step = "loop" /\ RelayHears("Pong")
  /\ relay' = [relay EXCEPT !.missed = 0, !.head = FALSE]
  /\ UNCHANGED toClient

RelayBinds ==
  /\ relay.step = "loop" /\ RelayHears("Bind")
  /\ relay' = [relay EXCEPT !.head = FALSE, !.granted = setup.port, !.refused = ~setup.port]
  /\ RelaySays(IF setup.port THEN "BindOk" ELSE "BindErr")

\* The answer to a Bind cannot be written: run_control returns where it is,
\* with no clean-up, and the session stays in the map.
BindAnswerFails ==
  /\ relay.step = "loop" /\ RelayHears("Bind")
  /\ link = "cut" \/ client.step = "ended"
  /\ relay' = [relay EXCEPT !.step = "ended", !.end = "dropped", !.head = FALSE]
  /\ UNCHANGED toClient

RelayHearsBye ==
  /\ relay.step = "loop" /\ RelayHears("Bye")
  /\ RelayEnds("bye")
  /\ UNCHANGED toClient

\* The listeners are joined and the session is taken out of the map; then the
\* connection and the event channel are dropped.
CleanedUp ==
  /\ relay.step = "closing"
  /\ relay' = [relay EXCEPT !.step = "ended"]
  /\ UNCHANGED <<client, pieces>> /\ Rest

\* splice finds no visitor, or the bytes of the visitor have come to their end.
SpliceEnds ==
  /\ relay.step = "splice"
  /\ RelayEnds("piped")
  /\ UNCHANGED <<client, pieces>> /\ Rest

\* A listener of this client, or the path router, sends its notice.
Notified ==
  /\ notices' = notices + 1
  /\ UNCHANGED <<setup, client, relay, toRelay, toClient, link, kicked>>

-----------------------------------------------------------------------------
(* The client.                                                             *)

Reading == client.step \in {"hello", "auth", "session"}
ClientEnds(why) == client' = [client EXCEPT !.step = "ended", !.end = why, !.head = FALSE]
ClientSays(m) == toRelay' = Written(toRelay, m)

ClientGreets ==
  /\ client.step = "start"
  /\ client' = [client EXCEPT !.step = "hello"]
  /\ ClientSays("Hello")
  /\ UNCHANGED <<relay, toClient>> /\ Rest

ClientTakesHead ==
  /\ Reading /\ ~client.head /\ Arrived(toClient, "head")
  /\ client' = [client EXCEPT !.head = TRUE]
  /\ toClient' = Tail(toClient)
  /\ UNCHANGED <<relay, toRelay>> /\ Rest

Carry(step) == client' = [client EXCEPT !.step = step, !.head = FALSE]

\* What handshake makes of a frame; a control connection then asks for its port.
HeardWhileShaking(m) ==
  CASE client.step = "hello" /\ m = "Challenge" -> Carry("auth") /\ ClientSays("Auth")
    [] client.step = "auth" /\ m = "AuthOk" ->
         IF setup.role = "control" THEN Carry("session") /\ ClientSays("Bind")
         ELSE Carry("serve") /\ UNCHANGED toRelay
    [] m = "AuthErr" -> ClientEnds("fatal") /\ UNCHANGED toRelay
    [] OTHER -> ClientEnds("error") /\ UNCHANGED toRelay

\* What the loop of session makes of it.
HeardInSession(m) ==
  CASE m = "Ping"    -> Carry("session") /\ ClientSays("Pong")
    [] m = "BindOk"  -> client' = [client EXCEPT !.online = TRUE, !.head = FALSE]
                        /\ UNCHANGED toRelay
    [] m = "NewConn" -> client' = [client EXCEPT !.heard = @ + 1, !.head = FALSE]
                        /\ UNCHANGED toRelay
    [] m = "Bye"     -> ClientEnds("bye") /\ UNCHANGED toRelay
    [] m \in {"BindErr", "AuthErr"} -> ClientEnds("fatal") /\ UNCHANGED toRelay
    [] OTHER         -> Carry("session") /\ UNCHANGED toRelay

ClientHears ==
  /\ Reading /\ client.head /\ Arrived(toClient, "body")
  /\ toClient' = Tail(toClient)
  /\ IF client.step = "session" THEN HeardInSession(Head(toClient).of)
     ELSE HeardWhileShaking(Head(toClient).of)
  /\ UNCHANGED relay /\ Rest

ClientLosesRelay ==
  /\ Reading \/ client.step = "serve"
  /\ \/ link = "cut"
     \/ link = "whole" /\ relay.step = "ended" /\ toClient = <<>>
  /\ ClientEnds(IF client.step = "serve" THEN "served" ELSE "error")
  /\ UNCHANGED <<relay, pieces>> /\ Rest

\* The user stops the tunnel: run drops session where it is, or session sees
\* the shutdown first and says Bye.
ClientStops ==
  /\ client.step \notin {"other", "ended", "serve"}
  /\ ClientEnds("stopped")
  /\ \/ UNCHANGED toRelay
     \/ client.step = "session" /\ ClientSays("Bye")
  /\ UNCHANGED <<relay, toClient>> /\ Rest

\* The file server has closed its side; a stranger goes away.
ClientDone ==
  /\ client.step \in {"serve", "other"}
  /\ ClientEnds("served")
  /\ UNCHANGED <<relay, pieces>> /\ Rest

-----------------------------------------------------------------------------
(* The network.                                                            *)

\* Who closes a connection with something unread, or is sent something after,
\* resets it: what the other side has not read yet may be lost.
Reset ==
  \/ /\ relay.step = "ended" /\ toRelay # <<>>
     /\ toClient' \in Prefixes(toClient) \ {toClient}
     /\ UNCHANGED <<setup, client, relay, toRelay, link, notices, kicked>>
  \/ /\ client.step = "ended" /\ toClient # <<>>
     /\ toRelay' \in Prefixes(toRelay) \ {toRelay}
     /\ UNCHANGED <<setup, client, relay, toClient, link, notices, kicked>>

LinkFails ==
  /\ link = "whole"
  /\ link' \in {"cut", "dead"}
  /\ UNCHANGED <<setup, client, relay, pieces, notices, kicked>>

-----------------------------------------------------------------------------
RelayReads ==
  \/ RelayTakesHead \/ RelayLosesStep \/ RelayGreeted \/ RelayAuthenticates
  \/ RelayPonged \/ RelayBinds \/ BindAnswerFails \/ RelayHearsBye \/ RelayLosesClient

ClientReads == ClientGreets \/ ClientTakesHead \/ ClientHears \/ ClientLosesRelay

WireStep ==
  \/ RelayReads \/ HandshakeTimesOut \/ Kicked \/ Superseded \/ ForwardNotice \/ SendPing
  \/ HeartbeatLost \/ CleanedUp \/ SpliceEnds
  \/ ClientReads \/ ClientStops \/ ClientDone
  \/ Reset \/ LinkFails

\* Both sides read what arrives, and the relay's clocks go on.  The clean-up
\* comes to its end because no listener finds the event channel full here
\* (ControlSessions has what happens when one does).
WireFairness ==
  /\ WF_wireVars(RelayReads) /\ WF_wireVars(ClientReads)
  /\ WF_wireVars(HandshakeTimesOut) /\ WF_wireVars(SendPing \/ HeartbeatLost)
  /\ WF_wireVars(CleanedUp)

-----------------------------------------------------------------------------
(* Properties.                                                             *)

\* The two sides mean the same.  The relay only goes on with a client whose
\* token it knows, in the role that client has.  The client gives up for good
\* (Fatal) only if the relay refused it or its port; who is refused for his
\* version or his token, on a link that stays whole, does not miss it.  It is
\* Online only by a grant of this very session.
SpeakersAgree ==
  /\ relay.step \in {"loop", "splice"} =>
       setup.peer = "right" /\ (relay.step = "loop" <=> setup.role = "control")
  /\ client.end = "fatal" => relay.end \in {"version", "denied"} \/ relay.refused
  /\ relay.end \in {"version", "denied"} /\ client.step = "ended" /\ link = "whole" =>
       client.end \in {"fatal", "stopped"}
  /\ client.online => relay.granted
  /\ client.end = "bye" => relay.end = "superseded"
  /\ relay.end = "bye" => client.end = "stopped"

\* Nobody is left alone without knowing: a handshake comes to its end, however
\* slow or silent the one who connected is; when the relay ends a connection
\* the client sees it unless the link is dead; when the client is gone, even
\* if nothing tells of it, the relay's session ends.  (A data connection on a
\* dead link has no clock on either side.)
EveryEndIsHeard ==
  /\ Shaking ~> ~Shaking
  /\ relay.step = "ended" ~> client.step \in {"ended", "other"} \/ link = "dead"
  /\ client.step = "ended" ~>
       relay.step = "ended" \/ (relay.step = "splice" /\ link = "dead")

\* "Three times no Pong, and the client is taken for gone": a session whose
\* client is there, on a connection that is whole, ends only if another takes
\* its place or if three pings are left unanswered.
HealthySessionLives ==
  [][relay.step = "loop" /\ relay'.step # "loop" =>
       \/ relay'.end \in {"superseded", "silent"}
       \/ client.step = "ended" \/ link # "whole"]_wireVars
=============================================================================

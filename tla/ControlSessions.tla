-------------------------- MODULE ControlSessions --------------------------
(***************************************************************************)
(* The control sessions of the relay (crates/tunnel/src/server.rs):        *)
(* run_control, kick_previous and the port listeners bind_public spawns.   *)
(*                                                                         *)
(* A control connection k of client c first kicks c's previous session     *)
(* (takes it off the map, tells it to shut down, waits at most five        *)
(* seconds for it to be done), then enters the map itself and runs its     *)
(* loop.  When the loop ends the session shuts its listeners down, waits   *)
(* for them, leaves the map and announces that it is done.  A failed write *)
(* of a Bind reply leaves run_control at once, without any of that.        *)
(*                                                                         *)
(* Three switches of the environment say which of the hard cases happen:   *)
(* two handshakes of one client at the same time, a kick that runs into    *)
(* its timeout, and a Bind reply that cannot be written.                   *)
(***************************************************************************)
EXTENDS Naturals, FiniteSets

CONSTANTS Clients,         \* registered clients
          Conns,           \* authenticated control connections
          NoConn,          \* "no connection"
          OwnerOf,         \* the client of each connection
          Ports,           \* public ports of the relay
          PortsOf,         \* ClientAuth.ports, the whitelist of each client
          PathRouted,      \* is path_router_port configured?
          ChanCap,         \* capacity of a session's event channel (64)
          MaxMissed,       \* pings left unanswered before giving up (3)
          MaxVisitors,     \* bound: visitors accepted on all ports together
          Overlap,         \* may two connections of a client be starting at once?
          KickTimesOut,    \* may a kick give up before the old session is done?
          BindReplyFails   \* may the write of a BindOk or BindErr fail?

ASSUME SessionsAssumption ==
  /\ NoConn \notin Conns
  /\ OwnerOf \in [Conns -> Clients]
  /\ PortsOf \in [Clients -> SUBSET Ports]
  /\ ChanCap \in Nat \ {0}
  /\ MaxMissed \in Nat \ {0}
  /\ MaxVisitors \in Nat
  /\ {PathRouted, Overlap, KickTimesOut, BindReplyFails} \subseteq BOOLEAN

VARIABLES
  pc,        \* per connection: where its run_control is
  old,       \* per connection: the session it kicked and waits for
  shut,      \* per connection: the value of its shutdown watch
  sessions,  \* Relay.sessions: the connection listed for each client
  missed,    \* per connection: missed_pongs
  chan,      \* per connection: notices in its event channel
  gone,      \* per connection: has the client vanished without a word?
  holder,    \* per port: the connection whose listener has it bound
  step,      \* per port: what the listener task is doing
  arrived    \* visitors accepted so far

sessionVars  == <<pc, old, shut, sessions>>
listenerVars == <<holder, step, arrived>>
vars == <<pc, old, shut, sessions, missed, chan, gone, holder, step, arrived>>

\* "ended" is a return after the clean-up, "dropped" one without it.
PCs == {"idle", "kick", "wait", "insert", "loop", "join", "ended", "dropped"}
Steps == {"closed", "accept", "tls", "send"}

TypeOK ==
  /\ pc \in [Conns -> PCs]
  /\ old \in [Conns -> Conns \cup {NoConn}]
  /\ shut \in [Conns -> BOOLEAN]
  /\ sessions \in [Clients -> Conns \cup {NoConn}]
  /\ missed \in [Conns -> 0..MaxMissed]
  /\ chan \in [Conns -> 0..ChanCap]
  /\ gone \in [Conns -> BOOLEAN]
  /\ holder \in [Ports -> Conns \cup {NoConn}]
  /\ step \in [Ports -> Steps]
  /\ arrived \in 0..MaxVisitors

Init ==
  /\ pc = [k \in Conns |-> "idle"]
  /\ old = [k \in Conns |-> NoConn]
  /\ shut = [k \in Conns |-> FALSE]
  /\ sessions = [c \in Clients |-> NoConn]
  /\ missed = [k \in Conns |-> 0]
  /\ chan = [k \in Conns |-> 0]
  /\ gone = [k \in Conns |-> FALSE]
  /\ holder = [p \in Ports |-> NoConn]
  /\ step = [p \in Ports |-> "closed"]
  /\ arrived = 0

Starting(k) == pc[k] \in {"kick", "wait", "insert"}
Returned(k) == pc[k] \in {"ended", "dropped"}
PortsHeldBy(k) == {p \in Ports : holder[p] = k}

-----------------------------------------------------------------------------
(* Taking over from the previous session.                                  *)

\* AuthOk is written and run_control is called.
Authenticated(k) ==
  /\ pc[k] = "idle"
  /\ Overlap \/ \A j \in Conns : OwnerOf[j] = OwnerOf[k] => ~Starting(j)
  /\ pc' = [pc EXCEPT ![k] = "kick"]
  /\ UNCHANGED <<old, shut, sessions, missed, chan, gone, listenerVars>>

KickPrevious(k) ==
  LET prev == sessions[OwnerOf[k]]
  IN /\ pc[k] = "kick"
     /\ sessions' = [sessions EXCEPT ![OwnerOf[k]] = NoConn]
     /\ old' = [old EXCEPT ![k] = prev]
     /\ IF prev = NoConn
        THEN /\ pc' = [pc EXCEPT ![k] = "insert"]
             /\ UNCHANGED shut
        ELSE /\ pc' = [pc EXCEPT ![k] = "wait"]
             /\ shut' = [shut EXCEPT ![prev] = TRUE]
     /\ UNCHANGED <<missed, chan, gone, listenerVars>>

\* Faulty: the old session is told to stop but not waited for.
OldMayLinger(k) ==
  /\ pc[k] = "wait"
  /\ pc' = [pc EXCEPT ![k] = "insert"]
  /\ UNCHANGED <<old, shut, sessions, missed, chan, gone, listenerVars>>

\* Faulty: only an announcement ends the wait, not a sender that is gone.
OldAnnounced(k) ==
  /\ pc[k] = "wait"
  /\ pc[old[k]] = "ended"
  /\ pc' = [pc EXCEPT ![k] = "insert"]
  /\ UNCHANGED <<old, shut, sessions, missed, chan, gone, listenerVars>>

\* done is announced, or its sender was dropped: wait_for returns either way.
OldIsDone(k) ==
  /\ pc[k] = "wait"
  /\ Returned(old[k])
  /\ pc' = [pc EXCEPT ![k] = "insert"]
  /\ UNCHANGED <<old, shut, sessions, missed, chan, gone, listenerVars>>

\* What can keep a session from finishing for five seconds: a loop stuck in a
\* write, a visitor's TLS handshake (up to ten seconds), a full channel.
HeldUp(j) == pc[j] = "loop" \/ \E p \in PortsHeldBy(j) : step[p] \in {"tls", "send"}

KickTimeout(k) ==
  /\ KickTimesOut
  /\ pc[k] = "wait"
  /\ HeldUp(old[k])
  /\ pc' = [pc EXCEPT ![k] = "insert"]
  /\ UNCHANGED <<old, shut, sessions, missed, chan, gone, listenerVars>>

Insert(k) ==
  /\ pc[k] = "insert"
  /\ sessions' = [sessions EXCEPT ![OwnerOf[k]] = k]
  /\ pc' = [pc EXCEPT ![k] = "loop"]
  /\ UNCHANGED <<old, shut, missed, chan, gone, listenerVars>>

-----------------------------------------------------------------------------
(* The session loop.                                                       *)

\* break, and the shutdown_tx.send(true) that follows it.
EndLoop(k) ==
  /\ pc' = [pc EXCEPT ![k] = "join"]
  /\ shut' = [shut EXCEPT ![k] = TRUE]

\* A write that succeeds lets the loop go on, one that fails ends it.
WriteOrBreak(k) == EndLoop(k) \/ UNCHANGED <<pc, shut>>

ShutdownSeen(k) ==
  /\ pc[k] = "loop"
  /\ shut[k]
  /\ EndLoop(k)
  /\ UNCHANGED <<old, sessions, missed, chan, gone, listenerVars>>

ForwardNotice(k) ==
  /\ pc[k] = "loop"
  /\ chan[k] > 0
  /\ chan' = [chan EXCEPT ![k] = @ - 1]
  /\ WriteOrBreak(k)
  /\ UNCHANGED <<old, sessions, missed, gone, listenerVars>>

SendPing(k) ==
  /\ pc[k] = "loop"
  /\ missed[k] < MaxMissed
  /\ missed' = [missed EXCEPT ![k] = @ + 1]
  /\ WriteOrBreak(k)
  /\ UNCHANGED <<old, sessions, chan, gone, listenerVars>>

\* Faulty: one ping too many is waited for.
HeartbeatLostLate(k) ==
  /\ pc[k] = "loop"
  /\ missed[k] > MaxMissed
  /\ EndLoop(k)
  /\ UNCHANGED <<old, sessions, missed, chan, gone, listenerVars>>

HeartbeatLost(k) ==
  /\ pc[k] = "loop"
  /\ missed[k] >= MaxMissed
  /\ EndLoop(k)
  /\ UNCHANGED <<old, sessions, missed, chan, gone, listenerVars>>

Pong(k) ==
  /\ pc[k] = "loop"
  /\ ~gone[k]
  /\ missed[k] > 0
  /\ missed' = [missed EXCEPT ![k] = 0]
  /\ UNCHANGED <<sessionVars, chan, gone, listenerVars>>

\* The reply is written, or run_control returns on the spot: its receiver is
\* dropped, its listeners are detached and the map is left as it is.
ReplyOrReturn(k) ==
  \/ UNCHANGED <<pc, chan>>
  \/ /\ BindReplyFails
     /\ pc' = [pc EXCEPT ![k] = "dropped"]
     /\ chan' = [chan EXCEPT ![k] = 0]

PathOnly(c) == PathRouted /\ PortsOf[c] = {}

CanBind(k, p) == p \in PortsOf[OwnerOf[k]] /\ holder[p] = NoConn

BindGranted(k, p) ==
  /\ pc[k] = "loop"
  /\ ~gone[k]
  /\ ~PathOnly(OwnerOf[k])
  /\ CanBind(k, p)
  /\ holder' = [holder EXCEPT ![p] = k]
  /\ step' = [step EXCEPT ![p] = "accept"]
  /\ ReplyOrReturn(k)
  /\ UNCHANGED <<old, shut, sessions, missed, gone, arrived>>

\* BindErr, or the BindOk with port 0 of a path-routed client.
BindWithoutPort(k, p) ==
  /\ pc[k] = "loop"
  /\ ~gone[k]
  /\ PathOnly(OwnerOf[k]) \/ ~CanBind(k, p)
  /\ ReplyOrReturn(k)
  /\ UNCHANGED <<old, shut, sessions, missed, gone, listenerVars>>

\* Bye, end of file, or an error on the control connection.
ClientLeaves(k) ==
  /\ pc[k] = "loop"
  /\ ~gone[k]
  /\ EndLoop(k)
  /\ UNCHANGED <<old, sessions, missed, chan, gone, listenerVars>>

\* The client's machine goes silent; TCP does not notice.
ClientVanishes(k) ==
  /\ pc[k] = "loop"
  /\ ~gone[k]
  /\ gone' = [gone EXCEPT ![k] = TRUE]
  /\ UNCHANGED <<sessionVars, missed, chan, listenerVars>>

-----------------------------------------------------------------------------
(* The end of a session.                                                   *)

\* Faulty: done is announced before the listeners are joined.
FinishEarly(k) ==
  /\ pc[k] = "join"
  /\ sessions' = [sessions EXCEPT ![OwnerOf[k]] = NoConn]
  /\ pc' = [pc EXCEPT ![k] = "ended"]
  /\ chan' = [chan EXCEPT ![k] = 0]
  /\ UNCHANGED <<old, shut, missed, gone, listenerVars>>

\* All listeners are joined: whatever session the map lists for this client
\* is removed, done is announced, and the receiver is dropped.
Finish(k) ==
  /\ pc[k] = "join"
  /\ PortsHeldBy(k) = {}
  /\ sessions' = [sessions EXCEPT ![OwnerOf[k]] = NoConn]
  /\ pc' = [pc EXCEPT ![k] = "ended"]
  /\ chan' = [chan EXCEPT ![k] = 0]
  /\ UNCHANGED <<old, shut, missed, gone, listenerVars>>

-----------------------------------------------------------------------------
(* The listener task of a port.                                            *)

Accept(p) ==
  /\ step[p] = "accept"
  /\ arrived < MaxVisitors
  /\ arrived' = arrived + 1
  /\ step' = [step EXCEPT ![p] = "tls"]
  /\ UNCHANGED <<sessionVars, missed, chan, gone, holder>>

VisitorTlsFails(p) ==
  /\ step[p] = "tls"
  /\ step' = [step EXCEPT ![p] = "accept"]
  /\ UNCHANGED <<sessionVars, missed, chan, gone, holder, arrived>>

\* The visitor is put on the pending table; what remains is its notice.
VisitorReady(p) ==
  /\ step[p] = "tls"
  /\ step' = [step EXCEPT ![p] = "send"]
  /\ UNCHANGED <<sessionVars, missed, chan, gone, holder, arrived>>

\* The receiver lives until run_control returns, the loop only reads it.
Notify(p) ==
  /\ step[p] = "send"
  /\ ~Returned(holder[p])
  /\ chan[holder[p]] < ChanCap
  /\ chan' = [chan EXCEPT ![holder[p]] = @ + 1]
  /\ step' = [step EXCEPT ![p] = "accept"]
  /\ UNCHANGED <<sessionVars, missed, gone, holder, arrived>>

CloseListener(p) ==
  /\ step' = [step EXCEPT ![p] = "closed"]
  /\ holder' = [holder EXCEPT ![p] = NoConn]
  /\ UNCHANGED <<sessionVars, missed, chan, gone, arrived>>

ReceiverGone(p) ==
  /\ step[p] = "send"
  /\ Returned(holder[p])
  /\ CloseListener(p)

\* The watch changed, or its last sender, the map's, was dropped.
StopListening(p) ==
  LET k == holder[p]
  IN /\ step[p] = "accept"
     /\ shut[k] \/ (Returned(k) /\ sessions[OwnerOf[k]] # k)
     /\ CloseListener(p)

-----------------------------------------------------------------------------
Start(k) ==
  \/ Authenticated(k) \/ KickPrevious(k) \/ OldIsDone(k)
  \/ KickTimeout(k) \/ Insert(k)

Loop(k) ==
  \/ ShutdownSeen(k) \/ ForwardNotice(k) \/ SendPing(k) \/ HeartbeatLost(k)
  \/ Pong(k) \/ ClientLeaves(k) \/ ClientVanishes(k)
  \/ \E p \in Ports : BindGranted(k, p) \/ BindWithoutPort(k, p)

Listener(p) ==
  \/ Accept(p) \/ VisitorTlsFails(p) \/ VisitorReady(p) \/ Notify(p)
  \/ ReceiverGone(p) \/ StopListening(p)

Next ==
  \/ \E k \in Conns : Start(k) \/ Loop(k) \/ Finish(k)
  \/ \E p \in Ports : Listener(p)

Spec == Init /\ [][Next]_vars

\* What the runtime guarantees: a task that can go on does (the handshake of
\* a visitor and a kick are bounded by timeouts), the heartbeat keeps ticking,
\* and select!, which polls its branches in random order, does not overlook
\* the shutdown forever.  Nothing is assumed of clients and visitors.
Fairness ==
  /\ \A k \in Conns :
       /\ WF_vars(KickPrevious(k) \/ OldIsDone(k) \/ KickTimeout(k) \/ Insert(k))
       /\ WF_vars(SendPing(k) \/ HeartbeatLost(k))
       /\ SF_vars(ShutdownSeen(k))
       /\ WF_vars(Finish(k))
  /\ \A p \in Ports :
       /\ WF_vars(VisitorTlsFails(p) \/ VisitorReady(p))
       /\ WF_vars(Notify(p) \/ ReceiverGone(p))
       /\ SF_vars(StopListening(p))

FairSpec == Spec /\ Fairness

-----------------------------------------------------------------------------
(* Safety.                                                                 *)

\* A port is only ever opened for a client that has it on its whitelist.
OnlyWhitelisted ==
  \A p \in Ports : holder[p] # NoConn => p \in PortsOf[OwnerOf[holder[p]]]

\* A session that announced it is done has given all its ports back: first
\* the listeners, then the announcement (end of run_control).
DoneMeansReleased ==
  \A k \in Conns : pc[k] = "ended" => PortsHeldBy(k) = {}

\* The map never lists a session that announced it is done.
NoEndedSessionListed ==
  \A c \in Clients : sessions[c] # NoConn => pc[sessions[c]] # "ended"

Live(k) == pc[k] = "loop" /\ ~shut[k]

\* A session that runs and was not told to stop is the one the map lists for
\* its client: the path router finds it and the next connection kicks it.
LiveSessionListed ==
  \A k \in Conns : Live(k) => sessions[OwnerOf[k]] = k

\* A client has at most one control session that is not being shut down.
SingleLiveSession ==
  \A j, k \in Conns : Live(j) /\ Live(k) /\ OwnerOf[j] = OwnerOf[k] => j = k

\* A session in its loop never finds a port of its client occupied by an
\* earlier session of that client (the purpose of kick_previous).
TakeoverFindsPortsFree ==
  \A k \in Conns : pc[k] = "loop" =>
    \A p \in Ports : holder[p] # NoConn /\ OwnerOf[holder[p]] = OwnerOf[k] => holder[p] = k

-----------------------------------------------------------------------------
(* Liveness.                                                               *)

\* A client that vanished without a word loses its ports: three unanswered
\* pings end the session, and the session closes its listeners.
VanishedClientFreesPorts ==
  \A k \in Conns : gone[k] ~> PortsHeldBy(k) = {}
=============================================================================

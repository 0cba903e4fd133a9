------------------------- MODULE MCControlSessions -------------------------
(***************************************************************************)
(* Instances of ControlSessions for TLC.                                   *)
(***************************************************************************)
EXTENDS OrderlySessions, TLC

CONSTANTS c1, c2, k1, k2, k3, p1, p2

\* One client that connects three times, with one port.
OneOwner == [k \in Conns |-> c1]
OnePort == [c \in {c1} |-> {p1}]
\* Two clients; one has port p1, the other is reached through the path router
\* alone, and p2 is on nobody's whitelist.
TwoOwners == (k1 :> c1) @@ (k2 :> c1) @@ (k3 :> c2)
PathPorts == (c1 :> {p1}) @@ (c2 :> {})

-----------------------------------------------------------------------------
(* Properties.                                                             *)

\* A listener of k waits for room in its session's channel.
Full(k) == \E p \in PortsHeldBy(k) : step[p] = "send" /\ chan[k] = ChanCap

\* Clients that vanished without a word lose their ports, whatever overlaps,
\* times out or fails: only a full channel can keep a port.
OnlyFullChannelsKeepPorts ==
  (\E k \in Conns : gone[k] /\ PortsHeldBy(k) # {} /\ ~Full(k))
    ~> (\A k \in Conns : gone[k] => PortsHeldBy(k) = {} \/ Full(k))

\* Connections are finitely many, so there comes a time when each one that was
\* authenticated has got its session, even if the one before does not finish.
EveryTakeoverSucceeds ==
  (\E k \in Conns : pc[k] = "kick") ~> (\A k \in Conns : ~Starting(k))
=============================================================================

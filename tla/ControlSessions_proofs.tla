----------------------- MODULE ControlSessions_proofs -----------------------
(***************************************************************************)
(* What holds of the relay's control sessions for any number of clients,   *)
(* connections, ports and visitors.                                        *)
(*                                                                         *)
(* The first part needs no assumption on the environment: a port is held   *)
(* only by a session that has not announced its end, and only if the       *)
(* client may have it.  The second part shows that a takeover works as     *)
(* kick_previous intends as long as connections of a client start one      *)
(* after the other, no kick is cut short by its timeout and Bind replies   *)
(* can be written, in an environment where that is always so; the third,   *)
(* that in any environment it works up to the first time it is not so.     *)
(***************************************************************************)
EXTENDS OrderlySessions, TLAPS

Running == {"loop", "join"}

\* A port is bound exactly while its listener task lives, by a session that
\* has not finished, of a client whose whitelist has the port.
HolderInv ==
  \A p \in Ports :
    /\ holder[p] = NoConn <=> step[p] = "closed"
    /\ holder[p] # NoConn => /\ pc[holder[p]] \in Running \cup {"dropped"}
                             /\ p \in PortsOf[OwnerOf[holder[p]]]

\* The map lists, under its own client, a session that has not finished.
MapInv ==
  /\ \A c \in Clients : sessions[c] # NoConn =>
       /\ OwnerOf[sessions[c]] = c
       /\ pc[sessions[c]] \in Running \cup {"dropped"}
  /\ \A k \in Conns : pc[k] = "wait" => old[k] # NoConn

Inv == TypeOK /\ HolderInv /\ MapInv

LEMMA InvInit == Init => Inv
BY SessionsAssumption DEF Init, Inv, TypeOK, HolderInv, MapInv, PCs, Steps

\* A step of a loop that goes on or ends disturbs neither port nor map.
LEMMA LoopStep ==
  ASSUME Inv, NEW k \in Conns, pc[k] = "loop",
         UNCHANGED <<old, sessions, holder, step>>,
         UNCHANGED <<pc, shut>> \/ EndLoop(k)
  PROVE  /\ HolderInv' /\ MapInv'
         /\ pc' \in [Conns -> PCs] /\ shut' \in [Conns -> BOOLEAN]
<1> USE SessionsAssumption DEF Inv, TypeOK, PCs
<1>1. pc' \in [Conns -> PCs] /\ shut' \in [Conns -> BOOLEAN]
  BY DEF EndLoop
<1>2. \A j \in Conns : /\ pc[j] \in Running \cup {"dropped"} => pc'[j] \in Running \cup {"dropped"}
                       /\ pc'[j] = "wait" => pc[j] = "wait"
  BY DEF EndLoop, Running
<1>3. HolderInv'
  BY <1>2 DEF HolderInv
<1>4. MapInv'
  BY <1>2 DEF MapInv
<1> QED
  BY <1>1, <1>3, <1>4

\* Each step of the relay keeps the types and the two invariants.
LEMMA InvStep == Inv /\ [Next]_vars => Inv'
<1> SUFFICES ASSUME Inv, [Next]_vars PROVE Inv'
  OBVIOUS
<1> USE SessionsAssumption DEF Inv, TypeOK, HolderInv, MapInv, PCs, Steps, Running,
        sessionVars, listenerVars
<1>1. ASSUME NEW k \in Conns, Authenticated(k) PROVE Inv'
  BY <1>1 DEF Authenticated
<1>2. ASSUME NEW k \in Conns, KickPrevious(k) PROVE Inv'
  <2> DEFINE prev == sessions[OwnerOf[k]]
  <2>1. /\ pc[k] = "kick"
        /\ sessions' = [sessions EXCEPT ![OwnerOf[k]] = NoConn]
        /\ old' = [old EXCEPT ![k] = prev]
        /\ UNCHANGED <<missed, chan, gone, holder, step, arrived>>
        /\ \/ prev = NoConn /\ pc' = [pc EXCEPT ![k] = "insert"] /\ shut' = shut
           \/ /\ prev \in Conns /\ pc' = [pc EXCEPT ![k] = "wait"]
              /\ shut' = [shut EXCEPT ![prev] = TRUE]
    BY <1>2 DEF KickPrevious
  <2>2. TypeOK'
    BY <2>1
  <2>3. HolderInv'
    BY <2>1
  <2>4. MapInv'
    BY <2>1
  <2> QED
    BY <2>2, <2>3, <2>4
<1>3. ASSUME NEW k \in Conns, OldIsDone(k) \/ KickTimeout(k) PROVE Inv'
  BY <1>3 DEF OldIsDone, KickTimeout
<1>4. ASSUME NEW k \in Conns, Insert(k) PROVE Inv'
  BY <1>4 DEF Insert
<1>5. ASSUME NEW k \in Conns, ShutdownSeen(k) PROVE Inv'
  <2>1. /\ pc[k] = "loop" /\ UNCHANGED <<old, sessions, holder, step, arrived>>
        /\ UNCHANGED <<pc, shut>> \/ EndLoop(k)
    BY <1>5 DEF ShutdownSeen
  <2>2. /\ missed' \in [Conns -> 0..MaxMissed] /\ chan' \in [Conns -> 0..ChanCap]
        /\ gone' \in [Conns -> BOOLEAN]
    BY <1>5 DEF ShutdownSeen
  <2> QED
    BY <2>1, <2>2, LoopStep
<1>6. ASSUME NEW k \in Conns, ForwardNotice(k) PROVE Inv'
  <2>1. /\ pc[k] = "loop" /\ UNCHANGED <<old, sessions, holder, step, arrived>>
        /\ UNCHANGED <<pc, shut>> \/ EndLoop(k)
    BY <1>6 DEF ForwardNotice, WriteOrBreak
  <2>2. /\ missed' \in [Conns -> 0..MaxMissed] /\ chan' \in [Conns -> 0..ChanCap]
        /\ gone' \in [Conns -> BOOLEAN]
    BY <1>6 DEF ForwardNotice, WriteOrBreak
  <2> QED
    BY <2>1, <2>2, LoopStep
<1>7. ASSUME NEW k \in Conns, SendPing(k) PROVE Inv'
  <2>1. /\ pc[k] = "loop" /\ UNCHANGED <<old, sessions, holder, step, arrived>>
        /\ UNCHANGED <<pc, shut>> \/ EndLoop(k)
    BY <1>7 DEF SendPing, WriteOrBreak
  <2>2. /\ missed' \in [Conns -> 0..MaxMissed] /\ chan' \in [Conns -> 0..ChanCap]
        /\ gone' \in [Conns -> BOOLEAN]
    BY <1>7 DEF SendPing, WriteOrBreak
  <2> QED
    BY <2>1, <2>2, LoopStep
<1>8. ASSUME NEW k \in Conns, HeartbeatLost(k) \/ ClientLeaves(k) PROVE Inv'
  <2>1. /\ pc[k] = "loop" /\ UNCHANGED <<old, sessions, holder, step, arrived>>
        /\ UNCHANGED <<pc, shut>> \/ EndLoop(k)
    BY <1>8 DEF HeartbeatLost, ClientLeaves
  <2>2. /\ missed' \in [Conns -> 0..MaxMissed] /\ chan' \in [Conns -> 0..ChanCap]
        /\ gone' \in [Conns -> BOOLEAN]
    BY <1>8 DEF HeartbeatLost, ClientLeaves
  <2> QED
    BY <2>1, <2>2, LoopStep
<1>9. ASSUME NEW k \in Conns, Pong(k) \/ ClientVanishes(k) PROVE Inv'
  <2>1. /\ pc[k] = "loop" /\ UNCHANGED <<old, sessions, holder, step, arrived>>
        /\ UNCHANGED <<pc, shut>> \/ EndLoop(k)
    BY <1>9 DEF Pong, ClientVanishes
  <2>2. /\ missed' \in [Conns -> 0..MaxMissed] /\ chan' \in [Conns -> 0..ChanCap]
        /\ gone' \in [Conns -> BOOLEAN]
    <3>1. CASE Pong(k)
      BY <3>1 DEF Pong
    <3>2. CASE ClientVanishes(k)
      BY <3>2 DEF ClientVanishes
    <3> QED
      BY <1>9, <3>1, <3>2
  <2> QED
    BY <2>1, <2>2, LoopStep
<1>10. ASSUME NEW k \in Conns, NEW p \in Ports, BindGranted(k, p) PROVE Inv'
  BY <1>10 DEF BindGranted, CanBind, ReplyOrReturn
<1>11. ASSUME NEW k \in Conns, NEW p \in Ports, BindWithoutPort(k, p) PROVE Inv'
  BY <1>11 DEF BindWithoutPort, ReplyOrReturn
<1>12. ASSUME NEW k \in Conns, Finish(k) PROVE Inv'
  BY <1>12 DEF Finish, PortsHeldBy
<1>13. ASSUME NEW p \in Ports, Accept(p) PROVE Inv'
  BY <1>13 DEF Accept
<1>14. ASSUME NEW p \in Ports, VisitorTlsFails(p) \/ VisitorReady(p) PROVE Inv'
  BY <1>14 DEF VisitorTlsFails, VisitorReady
<1>15. ASSUME NEW p \in Ports, Notify(p) PROVE Inv'
  BY <1>15 DEF Notify, Returned
<1>16. ASSUME NEW p \in Ports, ReceiverGone(p) \/ StopListening(p) PROVE Inv'
  BY <1>16 DEF ReceiverGone, StopListening, CloseListener
<1>17. CASE UNCHANGED vars
  BY <1>17 DEF vars
<1> QED
  BY <1>1, <1>2, <1>3, <1>4, <1>5, <1>6, <1>7, <1>8, <1>9, <1>10, <1>11, <1>12,
     <1>13, <1>14, <1>15, <1>16, <1>17 DEF Next, Start, Loop, Listener

\* The types and the ownership of ports and map entries are invariant.
THEOREM SessionsInvariant == Spec => []Inv
BY InvInit, InvStep, PTL DEF Spec

\* Every variable keeps its type, for all values of the constants.
THEOREM SessionsTypes == Spec => []TypeOK
BY SessionsInvariant, PTL DEF Inv

\* However connections, kicks and writes interleave and fail, a session that
\* has announced its end holds no port (the order at the end of run_control).
THEOREM DoneReleases == Spec => []DoneMeansReleased
<1>1. Inv => DoneMeansReleased
  BY SessionsAssumption DEF Inv, TypeOK, HolderInv, Running, DoneMeansReleased, PortsHeldBy
<1> QED
  BY <1>1, SessionsInvariant, PTL

\* No interleaving opens a port for a client that is not on its whitelist.
THEOREM WhitelistHolds == Spec => []OnlyWhitelisted
<1>1. Inv => OnlyWhitelisted
  BY DEF Inv, HolderInv, OnlyWhitelisted
<1> QED
  BY <1>1, SessionsInvariant, PTL

\* No interleaving leaves a finished session in the map.
THEOREM EndedIsUnlisted == Spec => []NoEndedSessionListed
<1>1. Inv => NoEndedSessionListed
  BY DEF Inv, MapInv, Running, NoEndedSessionListed
<1> QED
  BY <1>1, SessionsInvariant, PTL

-----------------------------------------------------------------------------
(* Takeover in an orderly environment.                                     *)

Orderly == ~Overlap /\ ~KickTimesOut /\ ~BindReplyFails

SameClient(j, k) == OwnerOf[j] = OwnerOf[k]

\* At most one connection of a client is starting.
OneStarting ==
  \A j, k \in Conns : Starting(j) /\ Starting(k) /\ SameClient(j, k) => j = k

\* At most one session of a client runs, and none does once the next one is
\* about to enter the map.
OneRunning ==
  \A j, k \in Conns :
    pc[j] \in Running /\ pc[k] \in Running \cup {"insert"} /\ SameClient(j, k) => j = k

\* A running session is on the map, or has been kicked and is waited for.
ListedOrKicked ==
  \A k \in Conns : pc[k] \in Running =>
    \/ sessions[OwnerOf[k]] = k
    \/ \E j \in Conns : SameClient(j, k) /\ pc[j] = "wait" /\ old[j] = k

\* Whoever waits has told the old session to shut down and taken it off the map.
WaitInv ==
  \A k \in Conns : pc[k] \in {"wait", "insert"} =>
    /\ sessions[OwnerOf[k]] = NoConn
    /\ pc[k] = "wait" => /\ old[k] \in Conns
                         /\ SameClient(old[k], k)
                         /\ shut[old[k]]
                         /\ pc[old[k]] \in Running \cup {"ended"}

NeverDropped == \A k \in Conns : pc[k] # "dropped"

SerialInv ==
  Inv /\ OneStarting /\ OneRunning /\ ListedOrKicked /\ WaitInv /\ NeverDropped

LEMMA SerialInit == Init => SerialInv
BY InvInit, SessionsAssumption
   DEF Init, SerialInv, OneStarting, OneRunning, ListedOrKicked, WaitInv, NeverDropped,
       Starting, Running

\* A loop that goes on or ends keeps the session running.
LEMMA SerialLoop ==
  ASSUME SerialInv, NEW k \in Conns, pc[k] = "loop", UNCHANGED <<old, sessions>>,
         UNCHANGED <<pc, shut>> \/ EndLoop(k)
  PROVE  OneStarting' /\ OneRunning' /\ ListedOrKicked' /\ WaitInv' /\ NeverDropped'
<1> USE SessionsAssumption DEF SerialInv, Inv, TypeOK
<1>1. \A j \in Conns : /\ pc'[j] \in Running <=> pc[j] \in Running
                       /\ pc[j] \notin Running => pc'[j] = pc[j]
                       /\ shut[j] => shut'[j]
  BY DEF EndLoop, Running
<1>2. \A j \in Conns : Starting(j)' <=> Starting(j)
  BY <1>1 DEF Starting, Running
<1>3. \A j \in Conns : pc'[j] \in {"wait", "insert", "ended"} <=> pc[j] \in {"wait", "insert", "ended"}
  BY <1>1 DEF Running
<1>4. \A j \in Conns : /\ pc'[j] = "wait" <=> pc[j] = "wait"
                       /\ pc'[j] = "insert" <=> pc[j] = "insert"
                       /\ pc'[j] = "ended" <=> pc[j] = "ended"
                       /\ pc'[j] # "dropped"
  BY <1>1 DEF Running, NeverDropped
<1>5. OneStarting'
  BY <1>2 DEF OneStarting, SameClient
<1>6. OneRunning'
  BY <1>1, <1>4 DEF OneRunning, SameClient
<1>7. ListedOrKicked'
  BY <1>1, <1>4 DEF ListedOrKicked, SameClient
<1>8. WaitInv'
  BY <1>1, <1>4 DEF WaitInv, SameClient
<1> QED
  BY <1>4, <1>5, <1>6, <1>7, <1>8 DEF NeverDropped

\* Takeovers stay serial in a step that is not a kick given up, if after it no two
\* connections of a client are starting and no session has left out its clean-up.
LEMMA SerialStep ==
  ASSUME SerialInv, [Next]_vars,
         \A k \in Conns : ~KickTimeout(k), OneStarting', NeverDropped'
  PROVE  SerialInv'
<1>i. Inv'
  BY InvStep DEF SerialInv
<1> DEFINE Parts == OneStarting /\ OneRunning /\ ListedOrKicked /\ WaitInv /\ NeverDropped
<1> USE SessionsAssumption DEF SerialInv, Inv, TypeOK, sessionVars, listenerVars
<1>1. ASSUME NEW k \in Conns, Authenticated(k) PROVE Parts'
  <2>1. pc[k] = "idle" /\ pc' = [pc EXCEPT ![k] = "kick"] /\ UNCHANGED <<old, shut, sessions>>
    BY <1>1 DEF Authenticated
  <2>2. \A j \in Conns : SameClient(j, k) => ~Starting(j)
    BY <2>1 DEF OneStarting, Starting, SameClient
  <2>3. OneStarting'
    BY <2>1, <2>2 DEF OneStarting, Starting, SameClient
  <2>4. OneRunning'
    BY <2>1 DEF OneRunning, Running, SameClient
  <2>5. ListedOrKicked'
    BY <2>1 DEF ListedOrKicked, Running, SameClient
  <2>6. WaitInv' /\ NeverDropped'
    BY <2>1 DEF WaitInv, NeverDropped, Running, SameClient
  <2> QED
    BY <2>3, <2>4, <2>5, <2>6
<1>2. ASSUME NEW k \in Conns, KickPrevious(k) PROVE Parts'
  <2> DEFINE prev == sessions[OwnerOf[k]]
  <2>1. /\ pc[k] = "kick"
        /\ sessions' = [sessions EXCEPT ![OwnerOf[k]] = NoConn]
        /\ old' = [old EXCEPT ![k] = prev]
    BY <1>2 DEF KickPrevious
  <2>2. \A j \in Conns : Starting(j) /\ SameClient(j, k) => j = k
    BY <2>1 DEF OneStarting, Starting, SameClient
  <2>3. CASE prev = NoConn
    <3>1. pc' = [pc EXCEPT ![k] = "insert"] /\ shut' = shut
      BY <1>2, <2>3 DEF KickPrevious
    <3>2. \A j \in Conns : SameClient(j, k) => pc[j] \notin Running
      BY <2>1, <2>2, <2>3 DEF ListedOrKicked, Starting, SameClient
    <3>3. OneStarting'
      BY <2>1, <2>2, <3>1 DEF OneStarting, Starting, SameClient
    <3>4. OneRunning'
      BY <3>1, <3>2 DEF OneRunning, Running, SameClient
    <3>5. ListedOrKicked'
      BY <2>1, <3>1, <3>2 DEF ListedOrKicked, Running, SameClient
    <3>6. WaitInv' /\ NeverDropped'
      BY <2>1, <3>1 DEF WaitInv, NeverDropped, Running, SameClient
    <3> QED
      BY <3>3, <3>4, <3>5, <3>6
  <2>4. CASE prev # NoConn
    <3>1. /\ prev \in Conns /\ SameClient(prev, k) /\ pc[prev] \in Running
      BY <2>4 DEF MapInv, NeverDropped, SameClient
    <3>2. pc' = [pc EXCEPT ![k] = "wait"] /\ shut' = [shut EXCEPT ![prev] = TRUE]
      BY <1>2, <2>4 DEF KickPrevious
    <3>3. \A j \in Conns : SameClient(j, k) /\ pc[j] \in Running => j = prev
      BY <2>1, <2>2 DEF ListedOrKicked, Starting, SameClient
    <3>4. OneStarting'
      BY <2>1, <2>2, <3>2 DEF OneStarting, Starting, SameClient
    <3>5. OneRunning'
      BY <3>2 DEF OneRunning, Running, SameClient
    <3>6. ListedOrKicked'
      BY <2>1, <3>1, <3>2, <3>3 DEF ListedOrKicked, Running, SameClient
    <3>7. ASSUME NEW j \in Conns, pc'[j] \in {"wait", "insert"}
          PROVE  /\ sessions'[OwnerOf[j]] = NoConn
                 /\ pc'[j] = "wait" => /\ old'[j] \in Conns /\ SameClient(old'[j], j)
                                       /\ shut'[old'[j]]
                                       /\ pc'[old'[j]] \in Running \cup {"ended"}
      <4>1. CASE j = k
        BY <2>1, <3>1, <3>2, <4>1 DEF Running
      <4>2. CASE j # k
        BY <2>1, <3>1, <3>2, <3>7, <4>2 DEF WaitInv, Running
      <4> QED
        BY <4>1, <4>2
    <3>8. WaitInv'
      BY <3>7 DEF WaitInv, SameClient
    <3>9. NeverDropped'
      BY <3>2 DEF NeverDropped
    <3> QED
      BY <3>4, <3>5, <3>6, <3>8, <3>9
  <2> QED
    BY <2>3, <2>4
<1>3. ASSUME NEW k \in Conns, OldIsDone(k) PROVE Parts'
  <2>1. /\ pc[k] = "wait" /\ pc' = [pc EXCEPT ![k] = "insert"]
        /\ UNCHANGED <<old, shut, sessions>>
    BY <1>3 DEF OldIsDone
  <2>2. pc[old[k]] = "ended"
    BY <1>3 DEF OldIsDone, Returned, WaitInv, NeverDropped
  <2>3. sessions[OwnerOf[k]] = NoConn
    BY <2>1 DEF WaitInv
  <2>4. \A j \in Conns : SameClient(j, k) => pc[j] \notin Running
    BY <2>1, <2>2, <2>3 DEF ListedOrKicked, OneStarting, Starting, SameClient, Running
  <2>5. OneStarting'
    BY <2>1 DEF OneStarting, Starting, SameClient
  <2>6. OneRunning'
    BY <2>1, <2>4 DEF OneRunning, Running, SameClient
  <2>7. ListedOrKicked'
    BY <2>1, <2>4 DEF ListedOrKicked, Running, SameClient
  <2>8. WaitInv' /\ NeverDropped'
    BY <2>1 DEF WaitInv, NeverDropped, Running, SameClient
  <2> QED
    BY <2>5, <2>6, <2>7, <2>8
<1>4. ASSUME NEW k \in Conns, KickTimeout(k) PROVE FALSE
  BY <1>4
<1>5. ASSUME NEW k \in Conns, Insert(k) PROVE Parts'
  <2>1. /\ pc[k] = "insert" /\ pc' = [pc EXCEPT ![k] = "loop"]
        /\ sessions' = [sessions EXCEPT ![OwnerOf[k]] = k]
        /\ UNCHANGED <<old, shut>>
    BY <1>5 DEF Insert
  <2>2. \A j \in Conns : Starting(j) /\ SameClient(j, k) => j = k
    BY <2>1 DEF OneStarting, Starting, SameClient
  <2>3. \A j \in Conns : SameClient(j, k) => pc[j] \notin Running
    BY <2>1 DEF OneRunning, Running, SameClient
  <2>4. OneStarting'
    BY <2>1 DEF OneStarting, Starting, SameClient
  <2>5. OneRunning'
    BY <2>1, <2>2, <2>3 DEF OneRunning, Starting, Running, SameClient
  <2>6. ListedOrKicked'
    BY <2>1, <2>3 DEF ListedOrKicked, Running, SameClient
  <2>7. WaitInv' /\ NeverDropped'
    BY <2>1, <2>2 DEF WaitInv, NeverDropped, Starting, Running, SameClient
  <2> QED
    BY <2>4, <2>5, <2>6, <2>7
<1>6. ASSUME NEW k \in Conns, Loop(k), pc[k] = "loop", UNCHANGED <<old, sessions>>,
             UNCHANGED <<pc, shut>> \/ EndLoop(k)
      PROVE  Parts'
  BY <1>6, SerialLoop
<1>7. ASSUME NEW k \in Conns, Loop(k)
      PROVE  pc[k] = "loop" /\ UNCHANGED <<old, sessions>> /\ (UNCHANGED <<pc, shut>> \/ EndLoop(k))
  <2>1. ASSUME ReplyOrReturn(k) PROVE UNCHANGED pc
    BY <2>1 DEF ReplyOrReturn, NeverDropped
  <2>2. ASSUME NEW p \in Ports, BindGranted(k, p) \/ BindWithoutPort(k, p)
        PROVE  pc[k] = "loop" /\ UNCHANGED <<pc, old, shut, sessions>>
    BY <2>1, <2>2 DEF BindGranted, BindWithoutPort
  <2> QED
    BY <1>7, <2>2 DEF Loop, ShutdownSeen, ForwardNotice, SendPing, HeartbeatLost, Pong,
                      ClientLeaves, ClientVanishes, WriteOrBreak
<1>8. ASSUME NEW k \in Conns, Finish(k) PROVE Parts'
  <2>1. /\ pc[k] = "join" /\ pc' = [pc EXCEPT ![k] = "ended"]
        /\ sessions' = [sessions EXCEPT ![OwnerOf[k]] = NoConn]
        /\ UNCHANGED <<old, shut>>
    BY <1>8 DEF Finish
  <2>2. \A j \in Conns : SameClient(j, k) /\ pc[j] \in Running => j = k
    BY <2>1 DEF OneRunning, Running, SameClient
  <2>3. OneStarting'
    BY <2>1 DEF OneStarting, Starting, SameClient
  <2>4. OneRunning'
    BY <2>1 DEF OneRunning, Running, SameClient
  <2>5. ListedOrKicked'
    BY <2>1, <2>2 DEF ListedOrKicked, Running, SameClient
  <2>6. WaitInv' /\ NeverDropped'
    BY <2>1 DEF WaitInv, NeverDropped, Running, SameClient
  <2> QED
    BY <2>3, <2>4, <2>5, <2>6
<1>9. ASSUME (\E p \in Ports : Listener(p)) \/ UNCHANGED vars PROVE Parts'
  <2>1. UNCHANGED <<pc, old, shut, sessions>>
    BY <1>9 DEF Listener, Accept, VisitorTlsFails, VisitorReady, Notify, ReceiverGone,
                StopListening, CloseListener, vars
  <2>2. OneStarting'
    BY <2>1 DEF OneStarting, Starting, SameClient
  <2>3. OneRunning'
    BY <2>1 DEF OneRunning, Running, SameClient
  <2>4. ListedOrKicked'
    BY <2>1 DEF ListedOrKicked, Running, SameClient
  <2>5. WaitInv' /\ NeverDropped'
    BY <2>1 DEF WaitInv, NeverDropped, Running, SameClient
  <2> QED
    BY <2>2, <2>3, <2>4, <2>5
<1> QED
  BY <1>i, <1>1, <1>2, <1>3, <1>4, <1>5, <1>6, <1>7, <1>8, <1>9 DEF Next, Start

\* The switches of an orderly environment exclude all that can go wrong in a step.
LEMMA OrderlyStep ==
  ASSUME Orderly, SerialInv, [Next]_vars
  PROVE  (\A k \in Conns : ~KickTimeout(k)) /\ OneStarting' /\ NeverDropped'
<1> USE SessionsAssumption DEF SerialInv, Inv, TypeOK, PCs, sessionVars, listenerVars
<1>1. \A k \in Conns : ~KickTimeout(k)
  BY DEF KickTimeout, Orderly
<1>2. ASSUME NEW k \in Conns, Authenticated(k) PROVE OneStarting' /\ NeverDropped'
  <2>1. pc' = [pc EXCEPT ![k] = "kick"] /\ \A j \in Conns : SameClient(j, k) => ~Starting(j)
    BY <1>2 DEF Authenticated, Orderly, SameClient
  <2> QED
    BY <2>1 DEF OneStarting, NeverDropped, Starting, SameClient
<1>3. ASSUME NEW k \in Conns, KickPrevious(k) \/ OldIsDone(k) \/ Insert(k)
      PROVE  OneStarting' /\ NeverDropped'
  <2>1. \E s \in {"wait", "insert", "loop"} : Starting(k) /\ pc' = [pc EXCEPT ![k] = s]
    BY <1>3 DEF KickPrevious, OldIsDone, Insert, Starting
  <2> QED
    BY <2>1 DEF OneStarting, NeverDropped, Starting, SameClient
<1>4. ASSUME NEW k \in Conns, Loop(k) \/ Finish(k) PROVE OneStarting' /\ NeverDropped'
  <2>1. ASSUME NEW p \in Ports, BindGranted(k, p) \/ BindWithoutPort(k, p)
        PROVE  UNCHANGED pc
    BY <2>1 DEF BindGranted, BindWithoutPort, ReplyOrReturn, Orderly
  <2>2. UNCHANGED pc \/ \E s \in {"join", "ended"} : pc' = [pc EXCEPT ![k] = s]
    BY <1>4, <2>1 DEF Loop, Finish, ShutdownSeen, ForwardNotice, SendPing, HeartbeatLost, Pong,
                      ClientLeaves, ClientVanishes, WriteOrBreak, EndLoop
  <2> QED
    BY <2>2 DEF OneStarting, NeverDropped, Starting, SameClient
<1>5. ASSUME (\E p \in Ports : Listener(p)) \/ UNCHANGED vars PROVE OneStarting' /\ NeverDropped'
  <2>1. UNCHANGED pc
    BY <1>5 DEF Listener, Accept, VisitorTlsFails, VisitorReady, Notify, ReceiverGone,
                StopListening, CloseListener, vars
  <2> QED
    BY <2>1 DEF OneStarting, NeverDropped, Starting, SameClient
<1> QED
  BY <1>1, <1>2, <1>3, <1>4, <1>5 DEF Next, Start

\* In an orderly environment takeovers are serial.
THEOREM SerialInvariant == Orderly /\ Spec => []SerialInv
<1> SUFFICES ASSUME Orderly PROVE Spec => []SerialInv
  OBVIOUS
<1> QED
  BY SerialInit, SerialStep, OrderlyStep, PTL DEF Spec

\* Serial takeovers work: the map lists the live session, there is only one, and it
\* finds its client's ports free.
LEMMA SerialTakeover ==
  SerialInv => LiveSessionListed /\ SingleLiveSession /\ TakeoverFindsPortsFree
<1> USE SessionsAssumption
<1>1. SerialInv => LiveSessionListed
  BY DEF SerialInv, ListedOrKicked, WaitInv, Running, LiveSessionListed, Live
<1>2. SerialInv => SingleLiveSession
  BY DEF SerialInv, OneRunning, Running, SameClient, SingleLiveSession, Live
<1>3. SerialInv => TakeoverFindsPortsFree
  BY DEF SerialInv, Inv, TypeOK, HolderInv, NeverDropped, OneRunning, Running, SameClient,
         TakeoverFindsPortsFree
<1> QED
  BY <1>1, <1>2, <1>3

\* In an orderly environment the map always lists the live session, a client
\* never has two, and its next session finds its ports free.
THEOREM OrderlyTakeover ==
  Orderly /\ Spec => [](LiveSessionListed /\ SingleLiveSession /\ TakeoverFindsPortsFree)
<1> SUFFICES ASSUME Orderly
             PROVE  Spec => [](LiveSessionListed /\ SingleLiveSession /\ TakeoverFindsPortsFree)
  OBVIOUS
<1> QED
  BY SerialTakeover, SerialInvariant, PTL

-----------------------------------------------------------------------------
(* Takeover in any environment, up to the first step that is not orderly.  *)

\* The general invariant holds always, the one of serial takeovers while all
\* takeovers were orderly.
HInv == orderly \in BOOLEAN /\ Inv /\ (orderly => SerialInv)

LEMMA HInvInit == HInit => HInv
BY InvInit, SerialInit DEF HInit, HInv

\* What is left of a step when it was not a disorder is what SerialStep asks for.
LEMMA NoDisorder ==
  ASSUME ~Disorder
  PROVE  (\A k \in Conns : ~KickTimeout(k)) /\ OneStarting' /\ NeverDropped'
BY DEF Disorder, Overlapping, OneStarting, NeverDropped, SameClient

LEMMA HInvStep == HInv /\ [HNext]_<<vars, orderly>> => HInv'
<1> SUFFICES ASSUME HInv, [HNext]_<<vars, orderly>> PROVE HInv'
  OBVIOUS
<1>1. [Next]_vars
  BY DEF HNext
<1>2. Inv'
  BY <1>1, InvStep DEF HInv
<1>3. CASE HNext
  <2>1. orderly' \in BOOLEAN /\ (orderly' => orderly /\ ~Disorder)
    BY <1>3 DEF HNext, HInv
  <2>2. ASSUME orderly' PROVE SerialInv'
    BY <1>1, <2>1, <2>2, NoDisorder, SerialStep DEF HInv
  <2> QED
    BY <1>2, <2>1, <2>2 DEF HInv
<1>4. CASE UNCHANGED <<vars, orderly>>
  <2>1. SerialInv => SerialInv'
    BY <1>2, <1>4 DEF vars, SerialInv, OneStarting, OneRunning, ListedOrKicked, WaitInv,
                      NeverDropped, Starting, Running, SameClient
  <2> QED
    BY <1>2, <1>4, <2>1 DEF HInv
<1> QED
  BY <1>3, <1>4

\* The invariant with the history of the takeovers.
THEOREM HistoryInvariant == HSpec => []HInv
BY HInvInit, HInvStep, PTL DEF HSpec

\* Until a takeover is disorderly, a live session is the one the map lists, so that
\* the path router finds it and the next connection kicks it (run_control).
THEOREM OrderlyListed == HSpec => []OrderlySessionsListed
<1>1. HInv => OrderlySessionsListed
  BY SerialTakeover DEF HInv, OrderlySessionsListed
<1> QED
  BY <1>1, HistoryInvariant, PTL

\* Until a takeover is disorderly, a session never finds a port of its client held by
\* the session before (kick_previous waits for it).
THEOREM OrderlyFree == HSpec => []OrderlyPortsFree
<1>1. HInv => OrderlyPortsFree
  BY SerialTakeover DEF HInv, OrderlyPortsFree
<1> QED
  BY <1>1, HistoryInvariant, PTL
=============================================================================

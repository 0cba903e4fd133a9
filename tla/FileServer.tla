----------------------------- MODULE FileServer -----------------------------
(***************************************************************************)
(* The life of the embedded file server: start_share and stop_share        *)
(* (src/engine.rs), serve, the accept loops, handle_stream and             *)
(* RunningServer.shutdown (crates/dufs-core/src/lib.rs).                   *)
(*                                                                         *)
(* A server is named by the call that started it.  It has an accept loop   *)
(* per address, a watch channel that tells loops and connections to end    *)
(* (by a value or by the death of its sender, which changed() reports      *)
(* alike) and a flag that long searches look at.  The file operations of a *)
(* connection are not modelled, only that it may search for a long time.   *)
(***************************************************************************)
EXTENDS Naturals, FiniteSets

CONSTANTS MaxCalls,   \* bound: calls of start_share and stop_share
          MaxAddrs,   \* bound: addresses to bind
          MaxVisits   \* bound: connections

ASSUME FileServerAssumption ==
  /\ MaxCalls \in Nat
  /\ MaxAddrs \in Nat
  /\ MaxVisits \in Nat

VARIABLES
  tls,      \* does the configuration have a certificate?
  call,     \* per call: what is asked, or what came of it
  wants,    \* per call: the addresses its server is to bind
  holder,   \* the call whose job holds the lock of the slot
  step,     \* where that job is
  old,      \* the server it took out of the slot
  bound,    \* the addresses it has bound
  slot,     \* SHARE: the call whose server it holds
  tx,       \* per call: its server's end of the shutdown channel
  running,  \* per call: its server's flag
  loop,     \* per call and address: the accept loop
  visit,    \* per visit: the connection
  host,     \* per visit: the accept loop that took it
  search    \* per visit: the search it asked for

jobVars    == <<holder, step, old, bound, slot>>
serverVars == <<tx, running>>
visitVars  == <<visit, host, search>>
vars == <<tls, call, wants, holder, step, old, bound, slot, tx, running, loop,
          visit, host, search>>

Calls  == 1..MaxCalls
NoCall == 0
Addrs  == 1..MaxAddrs
Visits == 1..MaxVisits
Nobody == [server |-> NoCall, addr |-> 0]
Loops  == [server : Calls, addr : Addrs]

TypeOK ==
  /\ tls \in BOOLEAN
  /\ call \in [Calls -> {"none", "start", "stop", "ok", "failed"}]
  /\ wants \in [Calls -> SUBSET Addrs]
  /\ holder \in Calls \cup {NoCall}
  /\ step \in {"idle", "await", "bind"}
  /\ step = "idle" <=> holder = NoCall
  /\ old \in Calls \cup {NoCall}
  /\ bound \in SUBSET Addrs
  /\ slot \in Calls \cup {NoCall}
  /\ tx \in [Calls -> {"none", "open", "sent", "dropped"}]
  /\ running \in [Calls -> BOOLEAN]
  /\ loop \in [Calls -> [Addrs -> {"none", "accept", "handshake", "over"}]]
  /\ visit \in [Visits -> {"none", "handshake", "served", "over"}]
  /\ host \in [Visits -> Loops \cup {Nobody}]
  /\ \A v \in Visits : visit[v] # "none" => host[v] \in Loops
  /\ search \in [Visits -> {"none", "walking", "over"}]

Init ==
  /\ tls \in BOOLEAN
  /\ call = [c \in Calls |-> "none"]
  /\ wants = [c \in Calls |-> {}]
  /\ holder = NoCall
  /\ step = "idle"
  /\ old = NoCall
  /\ bound = {}
  /\ slot = NoCall
  /\ tx = [c \in Calls |-> "none"]
  /\ running = [c \in Calls |-> FALSE]
  /\ loop = [c \in Calls |-> [a \in Addrs |-> "none"]]
  /\ visit = [v \in Visits |-> "none"]
  /\ host = [v \in Visits |-> Nobody]
  /\ search = [v \in Visits |-> "none"]

\* The listener of server s is open on a.
Listens(s, a) == loop[s][a] \in {"accept", "handshake"}

\* shutdown_rx.changed() has something to report.
Told(s) == tx[s] \in {"sent", "dropped"}

\* The addresses left to bind, one by one and in any order.
Unbound == wants[holder] \ bound

-----------------------------------------------------------------------------
(* The calls and their jobs, which run under the lock of the slot.         *)

\* Calls are numbered as they come.
New(c) == call[c] = "none" /\ \A b \in Calls : b < c => call[b] # "none"

AskStart(c, w) ==
  /\ New(c)
  /\ call' = [call EXCEPT ![c] = "start"]
  /\ wants' = [wants EXCEPT ![c] = w]
  /\ UNCHANGED <<tls, jobVars, serverVars, loop, visitVars>>

AskStop(c) ==
  /\ New(c)
  /\ call' = [call EXCEPT ![c] = "stop"]
  /\ UNCHANGED <<tls, wants, jobVars, serverVars, loop, visitVars>>

\* Faulty: the long searches are not told.
TakeOldStillRunning(c) ==
  /\ call[c] \in {"start", "stop"}
  /\ holder = NoCall
  /\ holder' = c
  /\ step' = "await"
  /\ old' = slot
  /\ slot' = NoCall
  /\ tx' = [s \in Calls |-> IF s = slot THEN "sent" ELSE tx[s]]
  /\ UNCHANGED <<tls, call, wants, bound, running, loop, visitVars>>

\* Faulty: accept loops and connections are not told.
TakeOldSilently(c) ==
  /\ call[c] \in {"start", "stop"}
  /\ holder = NoCall
  /\ holder' = c
  /\ step' = "await"
  /\ old' = slot
  /\ slot' = NoCall
  /\ running' = [s \in Calls |-> running[s] /\ s # slot]
  /\ UNCHANGED <<tls, call, wants, bound, tx, loop, visitVars>>

\* lock().await, take() and the beginning of shutdown.
TakeOld(c) ==
  /\ call[c] \in {"start", "stop"}
  /\ holder = NoCall
  /\ holder' = c
  /\ step' = "await"
  /\ old' = slot
  /\ slot' = NoCall
  /\ running' = [s \in Calls |-> running[s] /\ s # slot]
  /\ tx' = [s \in Calls |-> IF s = slot THEN "sent" ELSE tx[s]]
  /\ UNCHANGED <<tls, call, wants, bound, loop, visitVars>>

\* Faulty: the accept loops are told and not awaited.
NoWait == step = "await"

\* Every handle of the old server has been awaited.
OldIsDown ==
  /\ step = "await"
  /\ \A s \in Calls : s = old => \A a \in Addrs : ~Listens(s, a)

\* The job ends, its call returns r, and the lock is released.
Release(r) ==
  /\ call' = [call EXCEPT ![holder] = r]
  /\ holder' = NoCall
  /\ step' = "idle"
  /\ old' = NoCall
  /\ bound' = {}

StopReturns ==
  /\ OldIsDown
  /\ call[holder] = "stop"
  /\ Release("ok")
  /\ UNCHANGED <<tls, wants, slot, serverVars, loop, visitVars>>

\* Args::from_yaml, check_addrs or Server::init fails.
ServeFails ==
  /\ OldIsDown
  /\ call[holder] = "start"
  /\ Release("failed")
  /\ UNCHANGED <<tls, wants, slot, serverVars, loop, visitVars>>

\* The channel and the flag of the new server.
BeginServe ==
  /\ OldIsDown
  /\ call[holder] = "start"
  /\ step' = "bind"
  /\ tx' = [tx EXCEPT ![holder] = "open"]
  /\ running' = [running EXCEPT ![holder] = TRUE]
  /\ UNCHANGED <<tls, call, wants, holder, old, bound, slot, loop, visitVars>>

\* No server of this program listens on a.
Free(a) == \A s \in Calls : ~Listens(s, a)

\* Faulty: an address that is occupied is left out.
BindOrSkip(a) ==
  /\ step = "bind"
  /\ a \in Unbound
  /\ loop' = IF Free(a) THEN [loop EXCEPT ![holder][a] = "accept"] ELSE loop
  /\ bound' = bound \cup {a}
  /\ UNCHANGED <<tls, call, wants, holder, step, old, slot, serverVars, visitVars>>

\* create_listener, and the accept loop is spawned.
Bind(a) ==
  /\ step = "bind"
  /\ a \in Unbound
  /\ Free(a)
  /\ loop' = [loop EXCEPT ![holder][a] = "accept"]
  /\ bound' = bound \cup {a}
  /\ UNCHANGED <<tls, call, wants, holder, step, old, slot, serverVars, visitVars>>


\* Faulty: the sender outlives the failure.
BindFailsQuietly ==
  /\ step = "bind"
  /\ Unbound # {}
  /\ Release("failed")
  /\ UNCHANGED <<tls, wants, slot, serverVars, loop, visitVars>>

\* The address is occupied, by this or by another program, or cannot be bound
\* at all: serve returns, which detaches the loops it has spawned and drops
\* their sender.
BindFails ==
  /\ step = "bind"
  /\ Unbound # {}
  /\ tx' = [tx EXCEPT ![holder] = "dropped"]
  /\ Release("failed")
  /\ UNCHANGED <<tls, wants, slot, running, loop, visitVars>>

\* Faulty: the lock is not released.
ServedForgetful ==
  /\ step = "bind"
  /\ Unbound = {}
  /\ slot' = holder
  /\ call' = [call EXCEPT ![holder] = "ok"]
  /\ step' = "idle"
  /\ UNCHANGED <<tls, wants, holder, old, bound, serverVars, loop, visitVars>>

Served ==
  /\ step = "bind"
  /\ Unbound = {}
  /\ slot' = holder
  /\ Release("ok")
  /\ UNCHANGED <<tls, wants, serverVars, loop, visitVars>>

-----------------------------------------------------------------------------
(* The accept loops.                                                       *)

\* The select takes either branch when both are ready, so a loop may accept
\* after it was told to end.  It does the TLS handshake itself.
Accept(v, s, a) ==
  /\ visit[v] = "none"
  /\ loop[s][a] = "accept"
  /\ visit' = [visit EXCEPT ![v] = IF tls THEN "handshake" ELSE "served"]
  /\ host' = [host EXCEPT ![v] = [server |-> s, addr |-> a]]
  /\ loop' = [loop EXCEPT ![s][a] = IF tls THEN "handshake" ELSE "accept"]
  /\ UNCHANGED <<tls, call, wants, jobVars, serverVars, search>>

\* The handshake of visit v ends and leaves the connection in state r.
EndHandshake(v, r) ==
  /\ visit[v] = "handshake"
  /\ visit' = [visit EXCEPT ![v] = r]
  /\ loop' = [loop EXCEPT ![host[v].server][host[v].addr] = "accept"]
  /\ UNCHANGED <<tls, call, wants, jobVars, serverVars, host, search>>

Secured(v) == EndHandshake(v, "served")

\* It fails, or has taken ten seconds.
HandshakeFails(v) == EndHandshake(v, "over")

LoopEnds(s, a) ==
  /\ loop[s][a] = "accept"
  /\ Told(s)
  /\ loop' = [loop EXCEPT ![s][a] = "over"]
  /\ UNCHANGED <<tls, call, wants, jobVars, serverVars, visitVars>>

-----------------------------------------------------------------------------
(* The connections, each a task of its own, and the searches they ask for. *)

End(v) ==
  /\ visit[v] = "served"
  /\ visit' = [visit EXCEPT ![v] = "over"]
  /\ UNCHANGED <<tls, call, wants, jobVars, serverVars, loop, host, search>>

\* The peer is done or gone.
Leave(v) == End(v)

\* Dropped in the middle of whatever it does.
CutOff(v) == visit[v] = "served" /\ Told(host[v].server) /\ End(v)

\* A task that outlives the connection.
BeginSearch(v) ==
  /\ visit[v] = "served"
  /\ search[v] = "none"
  /\ search' = [search EXCEPT ![v] = "walking"]
  /\ UNCHANGED <<tls, call, wants, jobVars, serverVars, loop, visit, host>>

EndSearch(v) ==
  /\ search[v] = "walking"
  /\ search' = [search EXCEPT ![v] = "over"]
  /\ UNCHANGED <<tls, call, wants, jobVars, serverVars, loop, visit, host>>

\* There is nothing left to walk.
Searched(v) == EndSearch(v)

AbortSearch(v) == search[v] = "walking" /\ ~running[host[v].server] /\ EndSearch(v)

-----------------------------------------------------------------------------
Job ==
  \/ StopReturns \/ ServeFails \/ BeginServe \/ BindFails \/ Served
  \/ \E a \in Addrs : Bind(a)

Caller(c) == AskStop(c) \/ \E w \in SUBSET Addrs \ {{}} : AskStart(c, w)

Visit(v) ==
  \/ \E s \in Calls, a \in Addrs : Accept(v, s, a)
  \/ Secured(v) \/ HandshakeFails(v)
  \/ Leave(v) \/ CutOff(v) \/ BeginSearch(v) \/ Searched(v) \/ AbortSearch(v)

Next ==
  \/ \E c \in Calls : Caller(c) \/ TakeOld(c)
  \/ Job
  \/ \E v \in Visits : Visit(v)
  \/ \E s \in Calls, a \in Addrs : LoopEnds(s, a)

Spec == Init /\ [][Next]_vars

\* The runtime polls what is ready, the lock is granted in turn, a handshake
\* has ten seconds.  Visitors and searches may take as long as they like.
Fairness ==
  /\ WF_vars(Job)
  /\ \A c \in Calls : WF_vars(TakeOld(c))
  /\ \A s \in Calls, a \in Addrs : WF_vars(LoopEnds(s, a))
  /\ \A v \in Visits :
       WF_vars(HandshakeFails(v)) /\ WF_vars(CutOff(v)) /\ WF_vars(AbortSearch(v))

FairSpec == Spec /\ Fairness

-----------------------------------------------------------------------------
(* Properties.                                                             *)

\* On an address that is to be bound, no server this program stopped is
\* still listening; one can only be there that a start left behind when it failed at
\* another address (RunningServer: a start must not run into the program's
\* own old listener).
NoOwnListenerInTheWay ==
  step = "bind" =>
    \A s \in Calls, a \in Unbound :
      Listens(s, a) => call[s] = "failed" /\ wants[s] # {a}

\* The server in the slot serves every address it was to bind, and nobody
\* has told it to end (serve: a failure is returned, not left to a task).
SlotServesEverywhere ==
  slot # NoCall =>
    /\ running[slot]
    /\ tx[slot] = "open"
    /\ \A a \in wants[slot] : Listens(slot, a)

\* For those who call, a start or a stop happens at once and returns.
Slot == INSTANCE ShareSlot WITH server <- IF holder = NoCall THEN slot ELSE old
SlotSpec == Slot!Spec

\* A connection to a server that was stopped is cut off, and the search it
\* asked for is given up (handle_stream, shutdown).
StopCutsOff ==
  \A v \in Visits :
    host[v] # Nobody /\ tx[host[v].server] = "sent"
      ~> visit[v] = "over" /\ search[v] # "walking"

\* Neither a listener nor a connection remains of a start that failed.
FailedStartVanishes ==
  \A c \in Calls :
    call[c] = "failed" ~>
      /\ \A a \in Addrs : ~Listens(c, a)
      /\ \A v \in Visits : host[v].server = c => visit[v] = "over"
=============================================================================

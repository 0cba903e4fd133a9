------------------------------ MODULE Pairing ------------------------------
(***************************************************************************)
(* How the relay brings a visitor and a client's data connection together  *)
(* (crates/tunnel/src/server.rs).  A dispatching task (a port listener or  *)
(* a path-router task) numbers the visitor, lists it in the pending table  *)
(* and puts a NewConn notice into the channel of the client's control      *)
(* session.  The client answers a notice by dialling a data connection     *)
(* that names the number, and the relay splices the two.  A sweeper drops  *)
(* what nobody fetched.                                                    *)
(*                                                                         *)
(* The numbering starts again at 1 when the relay process restarts, while  *)
(* the clients' dials of its previous life may still be on their way.      *)
(***************************************************************************)
EXTENDS Naturals, Sequences, FiniteSets

CONSTANTS Clients,      \* registered tunnel clients
          Visitors,     \* visitor connections; each arrives at most once
          NoClient,     \* "no client at all"
          ChanCap,      \* capacity of a session's event channel (64 in the code)
          PairTimeout,  \* age, in ticks, at which a pending visitor is dropped
          SweepPeriod,  \* ticks between two sweeps
          MaxRestarts   \* bound: restarts of the relay process

ASSUME PairingAssumption ==
  /\ NoClient \notin Clients
  /\ ChanCap \in Nat \ {0}
  /\ PairTimeout \in Nat \ {0}
  /\ SweepPeriod \in Nat \ {0}
  /\ MaxRestarts \in Nat

VARIABLES
  task,        \* per visitor: the step its dispatching task has reached
  target,      \* per visitor: the client whose address it opened
  tx,          \* per visitor: is the receiver of the task's event_tx alive?
  connId,      \* per visitor: the number it was given, 0 for none
  pending,     \* Relay.pending: records [id, visitor, client]
  age,         \* per visitor: ticks since Pending.since
  sinceSweep,  \* ticks since the sweeper last ran
  nextConnId,  \* Relay.next_conn_id
  online,      \* per client: is there a control session whose loop runs?
  chan,        \* per client: numbers in the session's event channel
  dials,       \* data connections under way: records [client, id, epoch]
  spliced,     \* per visitor: the client whose data connection it was given
  restarts     \* restarts so far; tags the dials of each relay life

taskVars    == <<task, target, tx, connId>>
tableVars   == <<pending, age, sinceSweep>>
sessionVars == <<online, chan>>
vars == <<task, target, tx, connId, pending, age, sinceSweep, nextConnId,
          online, chan, dials, spliced, restarts>>

Tasks == {"outside", "accepted", "numbered", "listed", "withdrawing", "finished"}

TypeOK ==
  /\ task \in [Visitors -> Tasks]
  /\ target \in [Visitors -> Clients \cup {NoClient}]
  /\ tx \in [Visitors -> BOOLEAN]
  /\ connId \in [Visitors -> Nat]
  /\ pending \subseteq [id : Nat \ {0}, visitor : Visitors, client : Clients]
  /\ age \in [Visitors -> Nat]
  /\ sinceSweep \in 0..SweepPeriod
  /\ nextConnId \in Nat \ {0}
  /\ online \in [Clients -> BOOLEAN]
  /\ chan \in [Clients -> Seq(Nat \ {0})]
  /\ dials \subseteq [client : Clients, id : Nat \ {0}, epoch : Nat]
  /\ spliced \in [Visitors -> Clients \cup {NoClient}]
  /\ restarts \in Nat

Init ==
  /\ task = [v \in Visitors |-> "outside"]
  /\ target = [v \in Visitors |-> NoClient]
  /\ tx = [v \in Visitors |-> FALSE]
  /\ connId = [v \in Visitors |-> 0]
  /\ pending = {}
  /\ age = [v \in Visitors |-> 0]
  /\ sinceSweep = SweepPeriod      \* a tokio interval fires at once
  /\ nextConnId = 1
  /\ online = [c \in Clients |-> FALSE]
  /\ chan = [c \in Clients |-> <<>>]
  /\ dials = {}
  /\ spliced = [v \in Visitors |-> NoClient]
  /\ restarts = 0

-----------------------------------------------------------------------------
(* The dispatching task of a visitor: dispatch_visitor and its callers.    *)

\* A listener of client c accepts the visitor, or the path router finds c's
\* session in the map; either way the task holds a clone of its event_tx.
Visit(v, c) ==
  /\ task[v] = "outside"
  /\ online[c]
  /\ task' = [task EXCEPT ![v] = "accepted"]
  /\ target' = [target EXCEPT ![v] = c]
  /\ tx' = [tx EXCEPT ![v] = TRUE]
  /\ UNCHANGED <<connId, tableVars, nextConnId, sessionVars, dials, spliced, restarts>>

\* Faulty: the counter is read but not advanced.
TakeSameConnId(v) ==
  /\ task[v] = "accepted"
  /\ task' = [task EXCEPT ![v] = "numbered"]
  /\ connId' = [connId EXCEPT ![v] = nextConnId]
  /\ UNCHANGED <<target, tx, tableVars, nextConnId, sessionVars, dials, spliced, restarts>>

\* next_conn_id.fetch_add(1)
TakeConnId(v) ==
  /\ task[v] = "accepted"
  /\ task' = [task EXCEPT ![v] = "numbered"]
  /\ connId' = [connId EXCEPT ![v] = nextConnId]
  /\ nextConnId' = nextConnId + 1
  /\ UNCHANGED <<target, tx, tableVars, sessionVars, dials, spliced, restarts>>

\* A HashMap insert: an entry with the same number would be replaced.
ListPending(v) ==
  /\ task[v] = "numbered"
  /\ task' = [task EXCEPT ![v] = "listed"]
  /\ pending' = {p \in pending : p.id # connId[v]}
                  \cup {[id |-> connId[v], visitor |-> v, client |-> target[v]]}
  /\ age' = [age EXCEPT ![v] = 0]
  /\ UNCHANGED <<target, tx, connId, sinceSweep, nextConnId, sessionVars, dials, spliced, restarts>>

\* event_tx.send waits for room in the channel.
Announce(v) ==
  /\ task[v] = "listed"
  /\ tx[v]
  /\ Len(chan[target[v]]) < ChanCap
  /\ chan' = [chan EXCEPT ![target[v]] = Append(@, connId[v])]
  /\ task' = [task EXCEPT ![v] = "finished"]
  /\ UNCHANGED <<target, tx, connId, tableVars, nextConnId, online, dials, spliced, restarts>>

\* event_tx.send fails: the receiver is gone.
AnnounceFails(v) ==
  /\ task[v] = "listed"
  /\ ~tx[v]
  /\ task' = [task EXCEPT ![v] = "withdrawing"]
  /\ UNCHANGED <<target, tx, connId, tableVars, nextConnId, sessionVars, dials, spliced, restarts>>

\* The unannounced visitor is taken off the table again.
Withdraw(v) ==
  /\ task[v] = "withdrawing"
  /\ pending' = {p \in pending : p.id # connId[v]}
  /\ task' = [task EXCEPT ![v] = "finished"]
  /\ UNCHANGED <<target, tx, connId, age, sinceSweep, nextConnId, sessionVars, dials, spliced, restarts>>

-----------------------------------------------------------------------------
(* The control session and the client at its other end.                    *)

SessionUp(c) ==
  /\ ~online[c]
  /\ online' = [online EXCEPT ![c] = TRUE]
  /\ UNCHANGED <<taskVars, tableVars, nextConnId, chan, dials, spliced, restarts>>

\* run_control returns: event_rx is dropped with the notices still in it.
SessionDown(c) ==
  /\ online[c]
  /\ online' = [online EXCEPT ![c] = FALSE]
  /\ chan' = [chan EXCEPT ![c] = <<>>]
  /\ tx' = [v \in Visitors |-> tx[v] /\ target[v] # c]
  /\ UNCHANGED <<task, target, connId, tableVars, nextConnId, dials, spliced, restarts>>

\* The session writes the oldest notice and the client, reading it, spawns a
\* serve_conn task that dials the relay.
NewConn(c) ==
  /\ online[c]
  /\ chan[c] # <<>>
  /\ chan' = [chan EXCEPT ![c] = Tail(@)]
  /\ dials' = dials \cup {[client |-> c, id |-> Head(chan[c]), epoch |-> restarts]}
  /\ UNCHANGED <<taskVars, tableVars, nextConnId, online, spliced, restarts>>

\* The local service or the relay cannot be reached, or the handshake fails.
DialFails(d) ==
  /\ dials' = dials \ {d}
  /\ UNCHANGED <<taskVars, tableVars, nextConnId, sessionVars, spliced, restarts>>

\* Faulty: whoever names the number gets the visitor.
SpliceAnyone(d) ==
  LET found == {p \in pending : p.id = d.id}
  IN /\ dials' = dials \ {d}
     /\ pending' = pending \ found
     /\ spliced' = [v \in Visitors |->
                      IF \E p \in found : p.visitor = v THEN d.client ELSE spliced[v]]
     /\ UNCHANGED <<taskVars, age, sinceSweep, nextConnId, sessionVars, restarts>>

\* The entry with number i is taken off the table first; only then is its
\* owner compared with the client that dialled.
Splice(d) ==
  LET found == {p \in pending : p.id = d.id}
      mine  == {p \in found : p.client = d.client}
  IN /\ dials' = dials \ {d}
     /\ pending' = pending \ found
     /\ spliced' = [v \in Visitors |->
                      IF \E p \in mine : p.visitor = v THEN d.client ELSE spliced[v]]
     /\ UNCHANGED <<taskVars, age, sinceSweep, nextConnId, sessionVars, restarts>>

-----------------------------------------------------------------------------
(* Time, the sweeper and the life of the relay process.                    *)

Waiting == {p.visitor : p \in pending}

\* Faulty: the sweeper misses its time.
TickPastSweep ==
  /\ sinceSweep' = sinceSweep + 1
  /\ age' = [v \in Visitors |-> IF v \in Waiting THEN age[v] + 1 ELSE age[v]]
  /\ UNCHANGED <<taskVars, pending, nextConnId, sessionVars, dials, spliced, restarts>>

\* Time does not run past a due sweep: the sweeper is a task of its own that
\* waits for nothing but the table's lock, which nobody holds across an await.
Tick ==
  /\ sinceSweep < SweepPeriod
  /\ sinceSweep' = sinceSweep + 1
  /\ age' = [v \in Visitors |-> IF v \in Waiting THEN age[v] + 1 ELSE age[v]]
  /\ UNCHANGED <<taskVars, pending, nextConnId, sessionVars, dials, spliced, restarts>>

\* Faulty: an entry that is exactly as old as the timeout is kept.
SweepOneTooFew ==
  /\ sinceSweep = SweepPeriod
  /\ sinceSweep' = 0
  /\ pending' = {p \in pending : age[p.visitor] <= PairTimeout}
  /\ UNCHANGED <<taskVars, age, nextConnId, sessionVars, dials, spliced, restarts>>

\* Faulty: looking at an entry makes it new again.
SweepTouches ==
  /\ sinceSweep = SweepPeriod
  /\ sinceSweep' = 0
  /\ age' = [v \in Visitors |-> IF v \in Waiting THEN 0 ELSE age[v]]
  /\ UNCHANGED <<taskVars, pending, nextConnId, sessionVars, dials, spliced, restarts>>

Sweep ==
  /\ sinceSweep = SweepPeriod
  /\ sinceSweep' = 0
  /\ pending' = {p \in pending : age[p.visitor] < PairTimeout}
  /\ UNCHANGED <<taskVars, age, nextConnId, sessionVars, dials, spliced, restarts>>

\* The relay process dies and comes back: its memory is lost, the clients'
\* dials that had not reached it are not.
Restart ==
  /\ restarts < MaxRestarts
  /\ restarts' = restarts + 1
  /\ task' = [v \in Visitors |-> IF task[v] = "outside" THEN "outside" ELSE "finished"]
  /\ tx' = [v \in Visitors |-> FALSE]
  /\ connId' = [v \in Visitors |-> 0]
  /\ pending' = {}
  /\ sinceSweep' = SweepPeriod
  /\ nextConnId' = 1
  /\ online' = [c \in Clients |-> FALSE]
  /\ chan' = [c \in Clients |-> <<>>]
  /\ UNCHANGED <<target, age, dials, spliced>>

-----------------------------------------------------------------------------
Dispatch(v) ==
  \/ \E c \in Clients : Visit(v, c)
  \/ TakeConnId(v)
  \/ ListPending(v)
  \/ Announce(v)
  \/ AnnounceFails(v)
  \/ Withdraw(v)

Session(c) == SessionUp(c) \/ SessionDown(c) \/ NewConn(c)

Dial(d) == DialFails(d) \/ Splice(d)

Next ==
  \/ \E v \in Visitors : Dispatch(v)
  \/ \E c \in Clients : Session(c)
  \/ \E d \in dials : Dial(d)
  \/ Tick
  \/ Sweep
  \/ Restart

Spec == Init /\ [][Next]_vars

\* Tasks the runtime keeps scheduling: the two unblocked steps of a dispatch
\* and the sweeper's clock.  No client, network or channel is assumed fair.
Fairness ==
  /\ \A v \in Visitors : WF_vars(TakeConnId(v)) /\ WF_vars(ListPending(v))
  /\ WF_vars(Tick)
  /\ WF_vars(Sweep)

FairSpec == Spec /\ Fairness

-----------------------------------------------------------------------------
(* Properties.                                                             *)

\* Nobody is kept on the table longer than the timeout plus one sweep period,
\* even if its task is stuck in a full channel (sweep_pending).
BoundedWait ==
  \A v \in Waiting : age[v] <= PairTimeout + SweepPeriod - 1

\* A dial that answers a notice of this relay life can only meet a visitor
\* of its own client; only a dial left over from before a restart can take
\* somebody else's visitor off the table (dispatch_visitor, splice).
OwnDial ==
  \A d \in dials : d.epoch = restarts =>
    \A p \in pending : p.id = d.id => p.client = d.client

\* The mapping to what a visitor sees.
Fate(v) ==
  CASE spliced[v] # NoClient -> "served"
    [] spliced[v] = NoClient /\ task[v] = "outside" -> "outside"
    [] spliced[v] = NoClient /\ (task[v] \in {"accepted", "numbered"} \/ v \in Waiting) -> "waiting"
    [] OTHER -> "dropped"

Handoff == INSTANCE VisitorHandoff
             WITH fate <- [v \in Visitors |-> Fate(v)],
                  askedFor <- target,
                  servedBy <- spliced

\* Pairing implements VisitorHandoff: at most one data connection per
\* visitor, of the client it asked for, and none once it was dropped.
HandoffSpec == Handoff!Spec

\* Every visitor that was accepted is served or dropped in the end, whatever
\* clients, sessions and restarts do (the reason sweep_pending exists).
NobodyWaitsForever ==
  \A v \in Visitors : (task[v] = "accepted") ~> (Fate(v) \in {"served", "dropped"})
=============================================================================

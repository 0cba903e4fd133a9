--------------------------- MODULE Pairing_proofs ---------------------------
(***************************************************************************)
(* Pairing implements VisitorHandoff, for any clients, visitors, channel   *)
(* capacity, timeouts and number of restarts.                              *)
(*                                                                         *)
(* The argument needs to know of each entry of the pending table that it   *)
(* is the entry of a visitor which was listed under that very number and   *)
(* client and has not been spliced yet (TableInv), and that numbers of one *)
(* relay life are never used twice (NumberInv).                            *)
(***************************************************************************)
EXTENDS Pairing, TLAPS

Listed == {"listed", "withdrawing", "finished"}

\* Every entry of the table belongs to a visitor listed under its number and
\* client, which no data connection was given yet.
TableInv ==
  /\ \A p \in pending :
       /\ task[p.visitor] \in Listed
       /\ connId[p.visitor] = p.id
       /\ target[p.visitor] = p.client
       /\ spliced[p.visitor] = NoClient
  /\ \A v \in Visitors :
       /\ spliced[v] # NoClient => task[v] \in Listed
       /\ task[v] # "outside" => target[v] # NoClient
       /\ task[v] \in {"numbered", "listed", "withdrawing"} => connId[v] # 0

\* Numbers of the current relay life are below the counter and all different.
NumberInv ==
  /\ \A v \in Visitors : connId[v] < nextConnId
  /\ \A v, w \in Visitors : connId[v] = connId[w] /\ connId[v] # 0 => v = w
  /\ \A v \in Visitors : task[v] \in {"outside", "accepted"} => connId[v] = 0

Inv == TypeOK /\ TableInv /\ NumberInv

LEMMA InvInit == Init => Inv
BY PairingAssumption DEF Init, Inv, TypeOK, TableInv, NumberInv, Tasks, Listed

LEMMA TypeStep == Inv /\ [Next]_vars => TypeOK'
<1> SUFFICES ASSUME Inv, [Next]_vars PROVE TypeOK'
  OBVIOUS
<1> USE PairingAssumption DEF Inv, TypeOK, Tasks, taskVars, tableVars, sessionVars
<1>1. ASSUME NEW v \in Visitors, NEW c \in Clients, Visit(v, c) PROVE TypeOK'
  BY <1>1 DEF Visit
<1>2. ASSUME NEW v \in Visitors, TakeConnId(v) PROVE TypeOK'
  BY <1>2 DEF TakeConnId
<1>3. ASSUME NEW v \in Visitors, ListPending(v) PROVE TypeOK'
  BY <1>3 DEF ListPending, TableInv
<1>4. ASSUME NEW v \in Visitors, Announce(v) PROVE TypeOK'
  BY <1>4 DEF Announce, TableInv
<1>5. ASSUME NEW v \in Visitors, AnnounceFails(v) PROVE TypeOK'
  BY <1>5 DEF AnnounceFails
<1>6. ASSUME NEW v \in Visitors, Withdraw(v) PROVE TypeOK'
  BY <1>6 DEF Withdraw
<1>7. ASSUME NEW c \in Clients, SessionUp(c) PROVE TypeOK'
  BY <1>7 DEF SessionUp
<1>8. ASSUME NEW c \in Clients, SessionDown(c) PROVE TypeOK'
  BY <1>8 DEF SessionDown
<1>9. ASSUME NEW c \in Clients, NewConn(c) PROVE TypeOK'
  BY <1>9 DEF NewConn
<1>10. ASSUME NEW d \in dials, DialFails(d) PROVE TypeOK'
  BY <1>10 DEF DialFails
<1>11. ASSUME NEW d \in dials, Splice(d) PROVE TypeOK'
  BY <1>11 DEF Splice
<1>12. CASE Tick
  BY <1>12 DEF Tick
<1>13. CASE Sweep
  BY <1>13 DEF Sweep
<1>14. CASE Restart
  BY <1>14 DEF Restart
<1>15. CASE UNCHANGED vars
  BY <1>15 DEF vars
<1> QED
  BY <1>1, <1>2, <1>3, <1>4, <1>5, <1>6, <1>7, <1>8, <1>9, <1>10, <1>11,
     <1>12, <1>13, <1>14, <1>15 DEF Next, Dispatch, Session, Dial

LEMMA TableStep == Inv /\ [Next]_vars => TableInv'
<1> SUFFICES ASSUME Inv, [Next]_vars PROVE TableInv'
  OBVIOUS
<1>t. TypeOK'
  BY TypeStep
<1> USE PairingAssumption DEF Inv, TypeOK, TableInv, Tasks, Listed, taskVars, tableVars, sessionVars
<1>1. ASSUME NEW v \in Visitors, NEW c \in Clients, Visit(v, c) PROVE TableInv'
  BY <1>1 DEF Visit
<1>2. ASSUME NEW v \in Visitors, TakeConnId(v) PROVE TableInv'
  BY <1>2 DEF TakeConnId
<1>3. ASSUME NEW v \in Visitors, ListPending(v) PROVE TableInv'
  <2> DEFINE new == [id |-> connId[v], visitor |-> v, client |-> target[v]]
  <2>1. /\ pending' = {p \in pending : p.id # connId[v]} \cup {new}
        /\ task' = [task EXCEPT ![v] = "listed"]
        /\ task[v] = "numbered"
        /\ UNCHANGED <<target, connId, spliced>>
    BY <1>3 DEF ListPending
  <2>2. spliced[v] = NoClient
    BY <2>1
  <2>3. ASSUME NEW p \in pending'
        PROVE  /\ task'[p.visitor] \in Listed
               /\ connId'[p.visitor] = p.id
               /\ target'[p.visitor] = p.client
               /\ spliced'[p.visitor] = NoClient
    <3>1. CASE p = new
      BY <2>1, <2>2, <3>1
    <3>2. CASE p \in pending
      BY <2>1, <3>2
    <3> QED
      BY <2>1, <3>1, <3>2
  <2> QED
    BY <2>1, <2>3
<1>4. ASSUME NEW v \in Visitors, Announce(v) PROVE TableInv'
  BY <1>4 DEF Announce
<1>5. ASSUME NEW v \in Visitors, AnnounceFails(v) PROVE TableInv'
  BY <1>5 DEF AnnounceFails
<1>6. ASSUME NEW v \in Visitors, Withdraw(v) PROVE TableInv'
  BY <1>6 DEF Withdraw
<1>7. ASSUME NEW c \in Clients, SessionUp(c) PROVE TableInv'
  BY <1>7 DEF SessionUp
<1>8. ASSUME NEW c \in Clients, SessionDown(c) PROVE TableInv'
  BY <1>8 DEF SessionDown
<1>9. ASSUME NEW c \in Clients, NewConn(c) PROVE TableInv'
  BY <1>9 DEF NewConn
<1>10. ASSUME NEW d \in dials, DialFails(d) PROVE TableInv'
  BY <1>10 DEF DialFails
<1>11. ASSUME NEW d \in dials, Splice(d) PROVE TableInv'
  <2> DEFINE found == {p \in pending : p.id = d.id}
             mine == {p \in found : p.client = d.client}
  <2>1. /\ pending' = pending \ found
        /\ spliced' = [v \in Visitors |->
                         IF \E p \in mine : p.visitor = v THEN d.client ELSE spliced[v]]
        /\ UNCHANGED <<task, target, connId>>
    BY <1>11 DEF Splice
  <2>2. ASSUME NEW p \in pending' PROVE p \in pending /\ spliced'[p.visitor] = NoClient
    BY <2>1, <2>2
  <2>3. ASSUME NEW v \in Visitors, spliced'[v] # NoClient PROVE task[v] \in Listed
    BY <2>1, <2>3
  <2> QED
    BY <2>1, <2>2, <2>3
<1>12. CASE Tick
  BY <1>12 DEF Tick
<1>13. CASE Sweep
  BY <1>13 DEF Sweep
<1>14. CASE Restart
  BY <1>14 DEF Restart
<1>15. CASE UNCHANGED vars
  BY <1>15 DEF vars
<1> QED
  BY <1>1, <1>2, <1>3, <1>4, <1>5, <1>6, <1>7, <1>8, <1>9, <1>10, <1>11,
     <1>12, <1>13, <1>14, <1>15 DEF Next, Dispatch, Session, Dial

LEMMA NumberStep == Inv /\ [Next]_vars => NumberInv'
<1> SUFFICES ASSUME Inv, [Next]_vars PROVE NumberInv'
  OBVIOUS
<1> USE PairingAssumption DEF Inv, TypeOK, NumberInv, Tasks, taskVars, tableVars, sessionVars
<1>1. ASSUME NEW v \in Visitors, NEW c \in Clients, Visit(v, c) PROVE NumberInv'
  BY <1>1 DEF Visit
<1>2. ASSUME NEW v \in Visitors, TakeConnId(v) PROVE NumberInv'
  BY <1>2 DEF TakeConnId
<1>3. ASSUME NEW v \in Visitors, ListPending(v) PROVE NumberInv'
  BY <1>3 DEF ListPending
<1>4. ASSUME NEW v \in Visitors, Announce(v) PROVE NumberInv'
  BY <1>4 DEF Announce
<1>5. ASSUME NEW v \in Visitors, AnnounceFails(v) PROVE NumberInv'
  BY <1>5 DEF AnnounceFails
<1>6. ASSUME NEW v \in Visitors, Withdraw(v) PROVE NumberInv'
  BY <1>6 DEF Withdraw
<1>7. CASE \/ \E c \in Clients : Session(c)
           \/ \E d \in dials : Dial(d)
           \/ Tick \/ Sweep
           \/ UNCHANGED vars
  <2>1. UNCHANGED <<task, connId, nextConnId>>
    BY <1>7 DEF Session, SessionUp, SessionDown, NewConn, Dial, DialFails, Splice,
                Tick, Sweep, vars
  <2> QED
    BY <2>1
<1>8. CASE Restart
  BY <1>8 DEF Restart
<1> QED
  BY <1>1, <1>2, <1>3, <1>4, <1>5, <1>6, <1>7, <1>8 DEF Next, Dispatch

\* The type invariant, the contents of the pending table and the uniqueness
\* of connection numbers hold in every state the relay can reach.
THEOREM PairingInvariant == Spec => []Inv
<1>1. Init => Inv
  BY InvInit
<1>2. Inv /\ [Next]_vars => Inv'
  BY TypeStep, TableStep, NumberStep DEF Inv
<1> QED
  BY <1>1, <1>2, PTL DEF Spec

\* Every variable keeps its type, for all values of the constants.
THEOREM PairingTypes == Spec => []TypeOK
BY PairingInvariant, PTL DEF Inv

-----------------------------------------------------------------------------
(* The refinement.                                                         *)

LEMMA HandoffInit == Init => Handoff!Init
BY PairingAssumption DEF Init, Handoff!Init, Fate, Waiting

\* A step that leaves the visitors' streams where they are is a stutter.
LEMMA FatesKept ==
  ASSUME UNCHANGED <<target, spliced>>,
         \A v \in Visitors : Fate(v)' = Fate(v)
  PROVE  UNCHANGED Handoff!vars
<1>1. [v \in Visitors |-> Fate(v)]' = [v \in Visitors |-> Fate(v)]
  OBVIOUS
<1> QED
  BY <1>1 DEF Handoff!vars

\* A step that only takes streams off the table is an abstract drop.
LEMMA FatesDropped ==
  ASSUME UNCHANGED <<target, spliced>>,
         \A v \in Visitors :
           \/ Fate(v)' = Fate(v)
           \/ Fate(v) = "waiting" /\ Fate(v)' = "dropped"
  PROVE  Handoff!Next
<1> DEFINE S == {v \in Visitors : Fate(v)' # Fate(v)}
<1>1. \A v \in S : [w \in Visitors |-> Fate(w)][v] = "waiting"
  OBVIOUS
<1>2. [v \in Visitors |-> Fate(v)]'
        = [v \in Visitors |-> IF v \in S THEN "dropped" ELSE [w \in Visitors |-> Fate(w)][v]]
  OBVIOUS
<1>3. Handoff!Drop(S)
  BY <1>1, <1>2 DEF Handoff!Drop
<1>4. S \in SUBSET Visitors
  OBVIOUS
<1> QED
  BY <1>3, <1>4 DEF Handoff!Next

LEMMA HandoffStep == Inv /\ [Next]_vars => [Handoff!Next]_(Handoff!vars)
<1> SUFFICES ASSUME Inv, [Next]_vars PROVE [Handoff!Next]_(Handoff!vars)
  OBVIOUS
<1> USE PairingAssumption DEF Inv, TypeOK, TableInv, Tasks, Listed, Waiting,
        taskVars, tableVars, sessionVars
<1>1. ASSUME NEW v \in Visitors, NEW c \in Clients, Visit(v, c)
      PROVE  Handoff!Next
  <2> DEFINE F == [w \in Visitors |-> Fate(w)]
  <2>1. Fate(v) = "outside" /\ Fate(v)' = "waiting"
    BY <1>1 DEF Visit, Fate
  <2>2. \A w \in Visitors \ {v} : Fate(w)' = Fate(w)
    BY <1>1 DEF Visit, Fate
  <2>3. F' = [F EXCEPT ![v] = "waiting"] /\ F[v] = "outside"
    BY <2>1, <2>2
  <2>4. Handoff!Arrive(v, c)
    BY <1>1, <2>3 DEF Handoff!Arrive, Visit
  <2> QED
    BY <2>4 DEF Handoff!Next
<1>2. ASSUME NEW v \in Visitors, TakeConnId(v)
      PROVE  UNCHANGED Handoff!vars
  BY <1>2, FatesKept DEF TakeConnId, Fate
<1>3. ASSUME NEW v \in Visitors, ListPending(v)
      PROVE  Handoff!Next
  <2> DEFINE new == [id |-> connId[v], visitor |-> v, client |-> target[v]]
  <2>1. /\ pending' = {p \in pending : p.id # connId[v]} \cup {new}
        /\ task' = [task EXCEPT ![v] = "listed"]
        /\ task[v] = "numbered"
        /\ UNCHANGED <<target, spliced>>
    BY <1>3 DEF ListPending
  <2>2. Fate(v) = "waiting" /\ Fate(v)' = "waiting"
    <3>1. spliced[v] = NoClient /\ spliced'[v] = NoClient /\ task'[v] = "listed"
      BY <2>1
    <3>2. new \in pending' /\ new.visitor = v
      BY <2>1
    <3>3. v \in Waiting'
      BY <3>2
    <3> QED
      BY <2>1, <3>1, <3>3 DEF Fate
  <2>3. ASSUME NEW w \in Visitors \ {v}
        PROVE  \/ Fate(w)' = Fate(w)
               \/ Fate(w) = "waiting" /\ Fate(w)' = "dropped"
    <3>1. task'[w] = task[w] /\ spliced'[w] = spliced[w]
      BY <2>1
    <3>2. w \in Waiting' => w \in Waiting
      BY <2>1
    <3> QED
      BY <3>1, <3>2 DEF Fate
  <2> QED
    BY <2>1, <2>2, <2>3, FatesDropped
<1>4. ASSUME NEW v \in Visitors, Announce(v)
      PROVE  UNCHANGED Handoff!vars
  BY <1>4, FatesKept DEF Announce, Fate
<1>5. ASSUME NEW v \in Visitors, AnnounceFails(v)
      PROVE  UNCHANGED Handoff!vars
  BY <1>5, FatesKept DEF AnnounceFails, Fate
<1>6. ASSUME NEW v \in Visitors, Withdraw(v)
      PROVE  Handoff!Next
  <2>1. \A w \in Visitors : \/ Fate(w)' = Fate(w)
                            \/ Fate(w) = "waiting" /\ Fate(w)' = "dropped"
    BY <1>6 DEF Withdraw, Fate
  <2> QED
    BY <1>6, <2>1, FatesDropped DEF Withdraw
<1>7. ASSUME NEW c \in Clients, Session(c)
      PROVE  UNCHANGED Handoff!vars
  BY <1>7, FatesKept DEF Session, SessionUp, SessionDown, NewConn, Fate
<1>8. ASSUME NEW d \in dials, DialFails(d)
      PROVE  UNCHANGED Handoff!vars
  BY <1>8, FatesKept DEF DialFails, Fate
<1>9. ASSUME NEW d \in dials, Splice(d)
      PROVE  [Handoff!Next]_(Handoff!vars)
  <2> DEFINE found == {p \in pending : p.id = d.id}
             mine == {p \in found : p.client = d.client}
             F == [w \in Visitors |-> Fate(w)]
  <2>1. /\ pending' = pending \ found
        /\ spliced' = [v \in Visitors |->
                         IF \E p \in mine : p.visitor = v THEN d.client ELSE spliced[v]]
        /\ UNCHANGED <<task, target, connId>>
    BY <1>9 DEF Splice
  <2>2. CASE mine = {}
    <3>1. spliced' = spliced
      BY <2>1, <2>2
    <3>2. \A w \in Visitors : \/ Fate(w)' = Fate(w)
                              \/ Fate(w) = "waiting" /\ Fate(w)' = "dropped"
      BY <2>1, <3>1 DEF Fate
    <3> QED
      BY <2>1, <3>1, <3>2, FatesDropped
  <2>3. CASE mine # {}
    <3>1. PICK q \in mine : TRUE
      BY <2>3
    <3> DEFINE v == q.visitor
    <3>2. v \in Visitors /\ connId[v] = d.id /\ d.id # 0 /\ target[v] = d.client
      BY <3>1
    <3>3. \A p \in found : p.visitor = v
      BY <3>2 DEF NumberInv
    <3>4. spliced' = [spliced EXCEPT ![v] = target[v]]
      BY <2>1, <3>1, <3>2, <3>3
    <3>5. F[v] = "waiting"
      BY <3>1, <3>2 DEF Fate
    <3>6. d.client # NoClient /\ F'[v] = "served"
      BY <3>2, <3>4 DEF Fate
    <3>7. ASSUME NEW w \in Visitors \ {v} PROVE F'[w] = F[w]
      <4>1. spliced'[w] = spliced[w] /\ task'[w] = task[w]
        BY <2>1, <3>4
      <4>2. w \in Waiting' <=> w \in Waiting
        BY <2>1, <3>3
      <4> QED
        BY <4>1, <4>2 DEF Fate
    <3>8. F' = [F EXCEPT ![v] = "served"]
      BY <3>6, <3>7
    <3>9. Handoff!Serve(v)
      BY <2>1, <3>2, <3>4, <3>5, <3>8 DEF Handoff!Serve
    <3> QED
      BY <3>2, <3>9 DEF Handoff!Next
  <2> QED
    BY <2>2, <2>3
<1>10. CASE Tick
  BY <1>10, FatesKept DEF Tick, Fate
<1>11. CASE Sweep
  <2>1. \A w \in Visitors : \/ Fate(w)' = Fate(w)
                            \/ Fate(w) = "waiting" /\ Fate(w)' = "dropped"
    BY <1>11 DEF Sweep, Fate
  <2> QED
    BY <1>11, <2>1, FatesDropped DEF Sweep
<1>12. CASE Restart
  <2>1. \A w \in Visitors : \/ Fate(w)' = Fate(w)
                            \/ Fate(w) = "waiting" /\ Fate(w)' = "dropped"
    BY <1>12 DEF Restart, Fate
  <2> QED
    BY <1>12, <2>1, FatesDropped DEF Restart
<1>13. CASE UNCHANGED vars
  BY <1>13, FatesKept DEF vars, Fate
<1> QED
  BY <1>1, <1>2, <1>3, <1>4, <1>5, <1>6, <1>7, <1>8, <1>9, <1>10, <1>11,
     <1>12, <1>13 DEF Next, Dispatch, Dial

\* The relay keeps its promise to visitors: every behaviour of the pairing
\* machinery, restarts and stray dials included, is one of VisitorHandoff.
THEOREM PairingImplementsHandoff == Spec => HandoffSpec
<1>1. Init => Handoff!Init
  BY HandoffInit
<1>2. Inv /\ [Next]_vars => [Handoff!Next]_(Handoff!vars)
  BY HandoffStep
<1> QED
  BY <1>1, <1>2, PairingInvariant, PTL DEF Spec, HandoffSpec, Handoff!Spec

-----------------------------------------------------------------------------
(* Bounded waiting and ownership of dials.                                 *)

\* Between two sweeps an entry outgrows the timeout by at most the time that
\* has passed since the last sweep.
AgeInv == \A p \in pending : age[p.visitor] < PairTimeout + sinceSweep

\* Nobody stays on the pending table longer than the timeout plus one sweep
\* period, whatever its dispatching task and its client do (sweep_pending).
THEOREM WaitIsBounded == Spec => []BoundedWait
<1> USE PairingAssumption DEF taskVars, tableVars, sessionVars
<1>1. Init => AgeInv
  BY DEF Init, AgeInv
<1>2. Inv /\ AgeInv /\ [Next]_vars => AgeInv'
  <2> SUFFICES ASSUME Inv, AgeInv, [Next]_vars, NEW p \in pending'
               PROVE  age'[p.visitor] < PairTimeout + sinceSweep'
    BY DEF AgeInv
  <2>t. /\ age \in [Visitors -> Nat] /\ sinceSweep \in 0..SweepPeriod
        /\ pending \subseteq [id : Nat \ {0}, visitor : Visitors, client : Clients]
        /\ SweepPeriod \in Nat /\ PairTimeout \in Nat \ {0}
    BY DEF Inv, TypeOK
  <2>1. ASSUME NEW v \in Visitors, ListPending(v)
        PROVE  age'[p.visitor] < PairTimeout + sinceSweep'
    <3> DEFINE new == [id |-> connId[v], visitor |-> v, client |-> target[v]]
    <3>1. /\ pending' = {q \in pending : q.id # connId[v]} \cup {new}
          /\ age' = [age EXCEPT ![v] = 0]
          /\ sinceSweep' = sinceSweep
      BY <2>1 DEF ListPending
    <3>2. CASE p.visitor = v
      BY <3>1, <3>2, <2>t
    <3>3. CASE p.visitor # v
      <4>1. p \in pending /\ age'[p.visitor] = age[p.visitor]
        BY <3>1, <3>3, <2>t
      <4> QED
        BY <3>1, <4>1 DEF AgeInv
    <3> QED
      BY <3>2, <3>3
  <2>2. CASE Tick
    <3>1. /\ p \in pending /\ sinceSweep' = sinceSweep + 1
          /\ age'[p.visitor] = age[p.visitor] + 1
      BY <2>2, <2>t DEF Tick, Waiting
    <3>2. age[p.visitor] \in Nat
      BY <2>t, <3>1
    <3> QED
      BY <2>t, <3>1, <3>2 DEF AgeInv
  <2>3. CASE Sweep
    BY <2>3, <2>t DEF Sweep
  <2>4. CASE Restart
    BY <2>4 DEF Restart
  <2>5. CASE \/ \E v \in Visitors, c \in Clients : Visit(v, c)
             \/ \E v \in Visitors : \/ TakeConnId(v) \/ Announce(v)
                                    \/ AnnounceFails(v) \/ Withdraw(v)
             \/ \E c \in Clients : Session(c)
             \/ \E d \in dials : Dial(d)
             \/ UNCHANGED vars
    <3>1. UNCHANGED <<age, sinceSweep>> /\ pending' \subseteq pending
      BY <2>5 DEF Visit, TakeConnId, Announce, AnnounceFails, Withdraw, Session,
                  SessionUp, SessionDown, NewConn, Dial, DialFails, Splice, vars
    <3> QED
      BY <3>1 DEF AgeInv
  <2> QED
    BY <2>1, <2>2, <2>3, <2>4, <2>5 DEF Next, Dispatch
<1>3. Inv /\ AgeInv => BoundedWait
  <2> SUFFICES ASSUME Inv, AgeInv, NEW v \in Waiting
               PROVE  age[v] <= PairTimeout + SweepPeriod - 1
    BY DEF BoundedWait
  <2>1. PICK p \in pending : p.visitor = v
    BY DEF Waiting
  <2>2. v \in Visitors /\ age[v] \in Nat /\ sinceSweep \in 0..SweepPeriod
    BY <2>1 DEF Inv, TypeOK
  <2>3. age[v] < PairTimeout + sinceSweep
    BY <2>1 DEF AgeInv
  <2> QED
    BY <2>2, <2>3
<1> QED
  BY <1>1, <1>2, <1>3, PairingInvariant, PTL DEF Spec

\* The numbers of this relay life that no visitor of a client other than c got.
Owned(c) ==
  {i \in Nat \ {0} : i < nextConnId /\ \A v \in Visitors : connId[v] = i => target[v] = c}

ChanInv == \A c \in Clients : \A i \in 1..Len(chan[c]) : chan[c][i] \in Owned(c)

DialInv ==
  \A d \in dials : d.epoch <= restarts /\ (d.epoch = restarts => d.id \in Owned(d.client))

\* What is owned stays owned until the relay restarts.
LEMMA OwnedStep ==
  ASSUME Inv, [Next]_vars, ~Restart, NEW c \in Clients
  PROVE  Owned(c) \subseteq Owned(c)'
<1> USE DEF Inv, TypeOK, Owned, taskVars, tableVars, sessionVars
<1>1. ASSUME NEW v \in Visitors, NEW e \in Clients, Visit(v, e)
      PROVE  Owned(c) \subseteq Owned(c)'
  BY <1>1 DEF Visit, NumberInv
<1>2. ASSUME NEW v \in Visitors, TakeConnId(v) PROVE Owned(c) \subseteq Owned(c)'
  BY <1>2 DEF TakeConnId
<1>3. CASE \/ \E v \in Visitors : \/ ListPending(v) \/ Announce(v)
                                  \/ AnnounceFails(v) \/ Withdraw(v)
           \/ \E e \in Clients : Session(e)
           \/ \E d \in dials : Dial(d)
           \/ Tick \/ Sweep \/ UNCHANGED vars
  <2>1. UNCHANGED <<target, connId, nextConnId>>
    BY <1>3 DEF ListPending, Announce, AnnounceFails, Withdraw, Session, SessionUp,
                SessionDown, NewConn, Dial, DialFails, Splice, Tick, Sweep, vars
  <2> QED
    BY <2>1
<1> QED
  BY <1>1, <1>2, <1>3 DEF Next, Dispatch

\* The channels only carry numbers of visitors of their own client.
LEMMA ChanStep == Inv /\ ChanInv /\ [Next]_vars => ChanInv'
<1> SUFFICES ASSUME Inv, ChanInv, [Next]_vars, NEW c \in Clients, NEW i \in 1..Len(chan'[c])
             PROVE  chan'[c][i] \in Owned(c)'
  BY DEF ChanInv
<1> USE PairingAssumption DEF taskVars, tableVars, sessionVars
<1>t. chan \in [Clients -> Seq(Nat \ {0})]
  BY DEF Inv, TypeOK
<1>k. ASSUME ~Restart, NEW j \in 1..Len(chan[c]), chan'[c][i] = chan[c][j]
      PROVE  chan'[c][i] \in Owned(c)'
  BY <1>k, OwnedStep DEF ChanInv
<1>1. ASSUME NEW v \in Visitors, Announce(v) PROVE chan'[c][i] \in Owned(c)'
  <2>1. /\ chan' = [chan EXCEPT ![target[v]] = Append(@, connId[v])]
        /\ task[v] = "listed" /\ UNCHANGED restarts
    BY <1>1 DEF Announce
  <2>2. ~Restart
    BY <2>1 DEF Restart, Inv, TypeOK
  <2>3. target[v] \in Clients /\ connId[v] \in Nat \ {0} /\ connId[v] \in Owned(target[v])
    BY <2>1 DEF Inv, TypeOK, TableInv, NumberInv, Owned
  <2>4. CASE c = target[v] /\ i = Len(chan[c]) + 1
    <3>1. chan'[c][i] = connId[v]
      BY <1>t, <2>1, <2>3, <2>4
    <3> QED
      BY <2>2, <2>3, <2>4, <3>1, OwnedStep
  <2>5. CASE i \in 1..Len(chan[c])
    BY <1>t, <1>k, <2>1, <2>2, <2>3, <2>5
  <2>6. i \in 1..Len(chan[c]) \/ (c = target[v] /\ i = Len(chan[c]) + 1)
    BY <1>t, <2>1, <2>3
  <2> QED
    BY <2>4, <2>5, <2>6
<1>2. ASSUME NEW e \in Clients, NewConn(e) PROVE chan'[c][i] \in Owned(c)'
  <2>1. chan' = [chan EXCEPT ![e] = Tail(@)] /\ chan[e] # <<>> /\ UNCHANGED restarts
    BY <1>2 DEF NewConn
  <2>2. ~Restart
    BY <2>1 DEF Restart, Inv, TypeOK
  <2>3. CASE c = e
    <3>1. chan'[c] = Tail(chan[c]) /\ chan[c] \in Seq(Nat \ {0}) /\ chan[c] # <<>>
      BY <1>t, <2>1, <2>3
    <3>2. i + 1 \in 1..Len(chan[c]) /\ chan'[c][i] = chan[c][i + 1]
      BY <3>1
    <3> QED
      BY <1>k, <2>2, <3>2
  <2>4. CASE c # e
    BY <1>t, <1>k, <2>1, <2>2, <2>4
  <2> QED
    BY <2>3, <2>4
<1>3. ASSUME NEW e \in Clients, SessionDown(e) PROVE chan'[c][i] \in Owned(c)'
  <2>1. chan' = [chan EXCEPT ![e] = <<>>] /\ UNCHANGED restarts
    BY <1>3 DEF SessionDown
  <2>2. ~Restart
    BY <2>1 DEF Restart, Inv, TypeOK
  <2>3. chan'[c] = chan[c]
    BY <1>t, <2>1
  <2> QED
    BY <1>k, <2>2, <2>3
<1>4. CASE Restart
  BY <1>4 DEF Restart
<1>5. CASE /\ ~Restart
           /\ \/ \E v \in Visitors, e \in Clients : Visit(v, e)
              \/ \E v \in Visitors : \/ TakeConnId(v) \/ ListPending(v)
                                     \/ AnnounceFails(v) \/ Withdraw(v)
              \/ \E e \in Clients : SessionUp(e)
              \/ \E d \in dials : Dial(d)
              \/ Tick \/ Sweep \/ UNCHANGED vars
  <2>1. chan' = chan
    BY <1>5 DEF Visit, TakeConnId, ListPending, AnnounceFails, Withdraw, SessionUp,
                Dial, DialFails, Splice, Tick, Sweep, vars
  <2> QED
    BY <1>5, <1>k, <2>1
<1> QED
  BY <1>1, <1>2, <1>3, <1>4, <1>5 DEF Next, Dispatch, Session

\* So do the dials of the current relay life.
LEMMA DialStep == Inv /\ ChanInv /\ DialInv /\ [Next]_vars => DialInv'
<1> SUFFICES ASSUME Inv, ChanInv, DialInv, [Next]_vars, NEW d \in dials'
             PROVE  d.epoch <= restarts' /\ (d.epoch = restarts' => d.id \in Owned(d.client)')
  BY DEF DialInv
<1>t. /\ dials \subseteq [client : Clients, id : Nat \ {0}, epoch : Nat]
      /\ restarts \in Nat /\ chan \in [Clients -> Seq(Nat \ {0})]
  BY DEF Inv, TypeOK
<1> DEFINE Good == d.epoch <= restarts' /\ (d.epoch = restarts' => d.id \in Owned(d.client)')
<1>k. ASSUME ~Restart, d \in dials, restarts' = restarts PROVE Good
  BY <1>k, <1>t, OwnedStep DEF DialInv
<1>1. CASE Restart
  <2>1. dials' = dials /\ restarts' = restarts + 1
    BY <1>1 DEF Restart
  <2> QED
    BY <1>t, <2>1 DEF DialInv
<1>2. ASSUME NEW c \in Clients, NewConn(c) PROVE Good
  <2> DEFINE new == [client |-> c, id |-> Head(chan[c]), epoch |-> restarts]
  <2>1. /\ chan[c] # <<>> /\ dials' = dials \cup {new} /\ restarts' = restarts
    BY <1>2, <1>t DEF NewConn
  <2>2. ~Restart
    BY <1>t, <2>1 DEF Restart
  <2>3. Head(chan[c]) = chan[c][1] /\ 1 \in 1..Len(chan[c])
    BY <1>t, <2>1
  <2>4. Head(chan[c]) \in Owned(c)'
    BY <2>2, <2>3, OwnedStep DEF ChanInv
  <2>5. CASE d = new
    BY <2>1, <2>4, <2>5, <1>t
  <2>6. CASE d \in dials
    BY <1>k, <2>1, <2>2, <2>6
  <2> QED
    BY <2>1, <2>5, <2>6
<1>3. CASE ~Restart /\ ~\E c \in Clients : NewConn(c)
  <2>1. dials' \subseteq dials /\ restarts' = restarts
    BY <1>3 DEF Next, Dispatch, Session, Visit, TakeConnId, ListPending, Announce,
                AnnounceFails, Withdraw, SessionUp, SessionDown, Dial, DialFails,
                Splice, Tick, Sweep, vars
  <2> QED
    BY <1>3, <1>k, <2>1
<1> QED
  BY <1>1, <1>2, <1>3

\* Without a restart in between, no client's dial can take another client's
\* visitor off the table: only dials left over from an earlier relay life can.
THEOREM DialsMeetTheirOwn == Spec => []OwnDial
<1>1. Init => ChanInv /\ DialInv
  BY DEF Init, ChanInv, DialInv
<1>2. Inv /\ DialInv => OwnDial
  <2> SUFFICES ASSUME Inv, DialInv, NEW d \in dials, d.epoch = restarts,
                      NEW p \in pending, p.id = d.id
               PROVE  p.client = d.client
    BY DEF OwnDial
  <2>1. p.visitor \in Visitors /\ connId[p.visitor] = d.id /\ target[p.visitor] = p.client
    BY DEF Inv, TypeOK, TableInv
  <2>2. d.id \in Owned(d.client)
    BY DEF DialInv
  <2> QED
    BY <2>1, <2>2 DEF Owned
<1> QED
  BY <1>1, <1>2, ChanStep, DialStep, PairingInvariant, PTL DEF Spec
=============================================================================

-------------------------- MODULE FileServer_proofs --------------------------
(***************************************************************************)
(* Safety of FileServer for any number of calls, addresses and visits: an  *)
(* address to be bound is free of the program's own stopped servers, the   *)
(* server in the slot serves, and the calls implement ShareSlot.           *)
(***************************************************************************)
EXTENDS FileServer, TLAPS

\* The job that holds the lock: what it was asked, and what it has made.
JobInv ==
  /\ holder # NoCall => slot = NoCall /\ call[holder] \in {"start", "stop"}
  /\ holder = NoCall => old = NoCall
  /\ step # "bind" => bound = {}
  /\ step = "bind" =>
       /\ call[holder] = "start"
       /\ tx[holder] = "open"
       /\ running[holder]
       /\ bound \subseteq wants[holder]
       /\ \A a \in bound : Listens(holder, a)

\* A server that was given to the slot comes of a start that succeeded.
SlotInv == \A s \in {slot, old} \ {NoCall} : call[s] = "ok"

\* Whose listeners may be open: the server's in the slot, the one's that is
\* being shut down, the one's that is being built, and the remains of a
\* start that failed.
ListenInv ==
  \A s \in Calls, a \in Addrs :
    Listens(s, a) =>
      \/ s = slot
      \/ s = old /\ step = "await"
      \/ s = holder /\ step = "bind" /\ a \in bound
      \/ call[s] = "failed" /\ wants[s] # {a}

\* An accept loop is in the handshake of one visit at most.
HandshakeInv ==
  /\ \A v \in Visits :
       visit[v] = "handshake" => loop[host[v].server][host[v].addr] = "handshake"
  /\ \A v, w \in Visits :
       visit[v] = "handshake" /\ visit[w] = "handshake" /\ host[v] = host[w] => v = w

Inv ==
  /\ TypeOK
  /\ JobInv
  /\ SlotInv
  /\ ListenInv
  /\ HandshakeInv
  /\ SlotServesEverywhere

LEMMA NoCallIsNone == NoCall \notin Calls
  BY FileServerAssumption DEF NoCall, Calls

LEMMA InitInv == Init => Inv
<1> SUFFICES ASSUME Init PROVE Inv
  OBVIOUS
<1> USE NoCallIsNone DEF Init
<1>1. TypeOK
  BY DEF TypeOK, Loops
<1>2. JobInv /\ SlotInv /\ SlotServesEverywhere
  BY DEF JobInv, SlotInv, SlotServesEverywhere
<1>3. ListenInv
  BY DEF ListenInv, Listens
<1>4. HandshakeInv
  BY DEF HandshakeInv
<1> QED
  BY <1>1, <1>2, <1>3, <1>4 DEF Inv

\* A new call concerns no server yet.
LEMMA CallerInv == ASSUME Inv, NEW c \in Calls, Caller(c) PROVE Inv'
<1> PICK k \in {"start", "stop"}, w \in SUBSET Addrs :
      /\ call[c] = "none"
      /\ call' = [call EXCEPT ![c] = k]
      /\ wants' \in {wants, [wants EXCEPT ![c] = w]}
      /\ UNCHANGED <<tls, jobVars, serverVars, loop, visitVars>>
  BY DEF Caller, AskStart, AskStop, New
<1> USE DEF Inv, jobVars, serverVars, visitVars
<1>1. TypeOK'
  BY DEF TypeOK
<1>2. c # holder /\ c # slot /\ c # old
  <2>1. c # NoCall /\ call[c] = "none"
    BY NoCallIsNone
  <2>2. c # holder
    BY <2>1 DEF JobInv
  <2>3. c # slot /\ c # old
    BY <2>1 DEF SlotInv
  <2> QED
    BY <2>2, <2>3
<1>3. JobInv'
  BY <1>2, NoCallIsNone DEF JobInv, TypeOK, Listens
<1>4. SlotInv'
  BY <1>2 DEF SlotInv, TypeOK
<1>5. ListenInv'
  <2>1. \A s \in Calls : s # c => call'[s] = call[s] /\ wants'[s] = wants[s]
    BY DEF TypeOK
  <2>2. \A a \in Addrs : ~Listens(c, a)
    BY <1>2 DEF ListenInv
  <2>3. UNCHANGED <<loop, slot, old, step, holder, bound>>
    OBVIOUS
  <2> QED
    BY <2>1, <2>2, <2>3 DEF ListenInv, Listens
<1>6. HandshakeInv'
  BY DEF HandshakeInv, TypeOK
<1>7. SlotServesEverywhere'
  BY <1>2 DEF SlotServesEverywhere, TypeOK, Listens
<1> QED
  BY <1>1, <1>3, <1>4, <1>5, <1>6, <1>7

LEMMA TakeOldInv == ASSUME Inv, NEW c \in Calls, TakeOld(c) PROVE Inv'
<1> USE NoCallIsNone DEF Inv, TakeOld, visitVars
<1>1. TypeOK'
  BY DEF TypeOK
<1>2. JobInv'
  BY DEF JobInv, TypeOK
<1>3. SlotInv'
  BY DEF SlotInv
<1>4. ListenInv'
  BY DEF ListenInv, JobInv, TypeOK, Listens
<1>5. HandshakeInv'
  BY DEF HandshakeInv
<1>6. SlotServesEverywhere'
  BY DEF SlotServesEverywhere
<1> QED
  BY <1>1, <1>2, <1>3, <1>4, <1>5, <1>6

\* Between calls nothing listens but the server in the slot and remains of
\* failed starts; a job that returns before it has bound anything leaves it so.
LEMMA EarlyReturnInv ==
  ASSUME Inv, OldIsDown, NEW r \in {"ok", "failed"}, Release(r),
         UNCHANGED <<tls, wants, slot, serverVars, loop, visitVars>>
  PROVE  Inv'
<1> USE NoCallIsNone DEF Inv, OldIsDown, Release, serverVars, visitVars
<1>1. TypeOK'
  BY DEF TypeOK
<1>2. holder \in Calls /\ slot = NoCall
  BY DEF TypeOK, JobInv
<1>3. JobInv'
  BY DEF JobInv
<1>4. SlotInv' /\ SlotServesEverywhere'
  BY <1>2 DEF SlotInv, SlotServesEverywhere
<1>5. ListenInv'
  BY <1>2 DEF ListenInv, JobInv, TypeOK, Listens
<1>6. HandshakeInv'
  BY DEF HandshakeInv
<1> QED
  BY <1>1, <1>3, <1>4, <1>5, <1>6

LEMMA BeginServeInv == ASSUME Inv, BeginServe PROVE Inv'
<1> USE NoCallIsNone DEF Inv, BeginServe, OldIsDown, visitVars
<1>1. TypeOK'
  BY DEF TypeOK
<1>2. holder \in Calls /\ slot = NoCall /\ bound = {}
  BY DEF TypeOK, JobInv
<1>3. JobInv'
  BY <1>2 DEF JobInv, TypeOK
<1>4. SlotInv' /\ SlotServesEverywhere'
  BY <1>2 DEF SlotInv, SlotServesEverywhere
<1>5. ListenInv'
  BY <1>2 DEF ListenInv, TypeOK, Listens
<1>6. HandshakeInv'
  BY DEF HandshakeInv
<1> QED
  BY <1>1, <1>3, <1>4, <1>5, <1>6

LEMMA BindInv == ASSUME Inv, NEW a \in Addrs, Bind(a) PROVE Inv'
<1> USE NoCallIsNone DEF Inv, Bind, Unbound, serverVars, visitVars
<1>1. TypeOK'
  BY DEF TypeOK
<1>2. holder \in Calls /\ slot = NoCall
  BY DEF TypeOK, JobInv
<1>3. JobInv'
  BY <1>2 DEF JobInv, TypeOK, Listens
<1>4. SlotInv' /\ SlotServesEverywhere'
  BY <1>2 DEF SlotInv, SlotServesEverywhere
<1>5. ListenInv'
  BY <1>2 DEF ListenInv, TypeOK, Listens
<1>6. HandshakeInv'
  <2>1. loop[holder][a] # "handshake"
    BY <1>2 DEF Free, Listens
  <2>2. ASSUME NEW v \in Visits, visit[v] = "handshake"
        PROVE  host[v] \in Loops /\ loop'[host[v].server][host[v].addr] = "handshake"
    BY <1>2, <2>1, <2>2 DEF HandshakeInv, TypeOK, Loops
  <2> QED
    BY <2>2 DEF HandshakeInv
<1> QED
  BY <1>1, <1>3, <1>4, <1>5, <1>6

LEMMA BindFailsInv == ASSUME Inv, BindFails PROVE Inv'
<1> USE NoCallIsNone DEF Inv, BindFails, Release, visitVars
<1>1. TypeOK'
  BY DEF TypeOK
<1>2. holder \in Calls /\ slot = NoCall
  BY DEF TypeOK, JobInv
<1>3. JobInv'
  BY DEF JobInv
<1>4. SlotInv' /\ SlotServesEverywhere'
  BY <1>2 DEF SlotInv, SlotServesEverywhere
<1>5. \A a \in bound : wants[holder] # {a}
  BY DEF Unbound
<1>6. ListenInv'
  BY <1>2, <1>5 DEF ListenInv, TypeOK, Listens
<1>7. HandshakeInv'
  BY DEF HandshakeInv
<1> QED
  BY <1>1, <1>3, <1>4, <1>6, <1>7

LEMMA ServedInv == ASSUME Inv, Served PROVE Inv'
<1> USE NoCallIsNone DEF Inv, Served, Release, serverVars, visitVars
<1>1. TypeOK'
  BY DEF TypeOK
<1>2. holder \in Calls /\ slot = NoCall
  BY DEF TypeOK, JobInv
<1>3. JobInv'
  BY DEF JobInv
<1>4. SlotInv'
  BY <1>2 DEF SlotInv, TypeOK
<1>5. ListenInv'
  BY <1>2 DEF ListenInv, TypeOK, Listens
<1>6. HandshakeInv'
  BY DEF HandshakeInv
<1>7. SlotServesEverywhere'
  BY <1>2 DEF SlotServesEverywhere, JobInv, Unbound, Listens
<1> QED
  BY <1>1, <1>3, <1>4, <1>5, <1>6, <1>7

LEMMA JobStepInv == ASSUME Inv, Job PROVE Inv'
<1>1. CASE StopReturns
  BY <1>1, EarlyReturnInv DEF StopReturns
<1>2. CASE ServeFails
  BY <1>2, EarlyReturnInv DEF ServeFails
<1> QED
  BY <1>1, <1>2, BeginServeInv, BindInv, BindFailsInv, ServedInv DEF Job

\* Listeners stay as they are, so only the handshakes matter.
LEMMA SameListeners ==
  ASSUME Inv, UNCHANGED <<call, wants, jobVars, serverVars>>,
         \A s \in Calls, a \in Addrs : Listens(s, a)' <=> Listens(s, a)
  PROVE  JobInv' /\ SlotInv' /\ ListenInv' /\ SlotServesEverywhere'
<1> USE NoCallIsNone DEF Inv, jobVars, serverVars
<1>1. JobInv'
  BY DEF JobInv, TypeOK
<1>2. SlotInv'
  BY DEF SlotInv
<1>3. ListenInv'
  BY DEF ListenInv
<1>4. SlotServesEverywhere'
  BY DEF SlotServesEverywhere, TypeOK
<1> QED
  BY <1>1, <1>2, <1>3, <1>4

LEMMA AcceptInv ==
  ASSUME Inv, NEW v \in Visits, NEW s \in Calls, NEW a \in Addrs, Accept(v, s, a)
  PROVE  Inv'
<1> USE DEF Inv, Accept
<1>1. TypeOK'
  BY DEF TypeOK, Loops, jobVars, serverVars
<1>2. \A t \in Calls, b \in Addrs : Listens(t, b)' <=> Listens(t, b)
  BY DEF Listens, TypeOK
<1>3. HandshakeInv'
  <2> DEFINE l == [server |-> s, addr |-> a]
  <2>1. ASSUME NEW w \in Visits, visit[w] = "handshake"
        PROVE  /\ w # v
               /\ host[w] \in Loops
               /\ host[w] # l
               /\ loop'[host[w].server][host[w].addr] = "handshake"
    BY <2>1 DEF HandshakeInv, TypeOK, Loops
  <2>2. \A w \in Visits : w # v => visit'[w] = visit[w] /\ host'[w] = host[w]
    BY DEF TypeOK
  <2>3. host'[v] = l /\ (visit'[v] = "handshake" => loop'[s][a] = "handshake")
    BY DEF TypeOK
  <2> QED
    BY <2>1, <2>2, <2>3 DEF HandshakeInv
<1> QED
  BY <1>1, <1>2, <1>3, SameListeners

LEMMA EndHandshakeInv ==
  ASSUME Inv, NEW v \in Visits, NEW r \in {"served", "over"}, EndHandshake(v, r)
  PROVE  Inv'
<1> USE DEF Inv, EndHandshake
<1> DEFINE l == host[v]
<1>1. l \in Loops /\ loop[l.server][l.addr] = "handshake"
  BY DEF HandshakeInv, TypeOK
<1>2. TypeOK'
  BY <1>1 DEF TypeOK, Loops, jobVars, serverVars
<1>3. \A t \in Calls, b \in Addrs : Listens(t, b)' <=> Listens(t, b)
  BY <1>1 DEF Listens, TypeOK, Loops
<1>4. HandshakeInv'
  <2>1. ASSUME NEW w \in Visits, visit'[w] = "handshake"
        PROVE  /\ visit[w] = "handshake"
               /\ host[w] \in Loops
               /\ host[w] # l
    BY <2>1 DEF HandshakeInv, TypeOK
  <2>2. ASSUME NEW w \in Visits, visit'[w] = "handshake"
        PROVE  loop'[host[w].server][host[w].addr] = "handshake"
    <3>1. host[w].server # l.server \/ host[w].addr # l.addr
      BY <1>1, <2>1, <2>2 DEF Loops
    <3>2. loop[host[w].server][host[w].addr] = "handshake"
      BY <2>1, <2>2 DEF HandshakeInv
    <3> QED
      BY <1>1, <2>1, <2>2, <3>1, <3>2 DEF TypeOK, Loops
  <2> QED
    BY <2>1, <2>2 DEF HandshakeInv
<1> QED
  BY <1>2, <1>3, <1>4, SameListeners

\* What the tasks of connections and searches do.
LEMMA TaskInv ==
  ASSUME Inv, NEW v \in Visits,
         Leave(v) \/ CutOff(v) \/ BeginSearch(v) \/ Searched(v) \/ AbortSearch(v)
  PROVE  Inv'
<1> USE DEF Inv
<1>1. /\ UNCHANGED <<tls, call, wants, jobVars, serverVars, loop, host>>
      /\ visit' \in {visit, [visit EXCEPT ![v] = "over"]}
      /\ search' \in {search, [search EXCEPT ![v] = "walking"], [search EXCEPT ![v] = "over"]}
      /\ visit[v] = "none" => UNCHANGED visit
  BY DEF TypeOK, Leave, CutOff, End, BeginSearch, Searched, AbortSearch, EndSearch
<1>2. TypeOK'
  BY <1>1 DEF TypeOK, jobVars, serverVars
<1>3. \A t \in Calls, b \in Addrs : Listens(t, b)' <=> Listens(t, b)
  BY <1>1 DEF Listens
<1>4. HandshakeInv'
  <2>1. \A w \in Visits : visit'[w] = "handshake" => visit[w] = "handshake"
    BY <1>1 DEF TypeOK
  <2> QED
    BY <1>1, <2>1 DEF HandshakeInv
<1> QED
  BY <1>1, <1>2, <1>3, <1>4, SameListeners

LEMMA VisitInv == ASSUME Inv, NEW v \in Visits, Visit(v) PROVE Inv'
  BY AcceptInv, EndHandshakeInv, TaskInv DEF Visit, Secured, HandshakeFails

\* Only loops that were told end, and these are not in use.
LEMMA LoopEndsInv ==
  ASSUME Inv, NEW s \in Calls, NEW a \in Addrs, LoopEnds(s, a) PROVE Inv'
<1> USE NoCallIsNone DEF Inv, LoopEnds, jobVars, serverVars, visitVars
<1>1. TypeOK'
  BY DEF TypeOK
<1>2. s # slot /\ (step = "bind" => s # holder)
  BY DEF SlotServesEverywhere, JobInv, Told
<1>3. \A t \in Calls, b \in Addrs :
        /\ Listens(t, b)' => Listens(t, b)
        /\ t # s => (Listens(t, b)' <=> Listens(t, b))
  BY DEF Listens, TypeOK
<1>4. JobInv'
  BY <1>2, <1>3 DEF JobInv, TypeOK
<1>5. SlotInv'
  BY DEF SlotInv
<1>6. ListenInv'
  BY <1>3 DEF ListenInv
<1>7. HandshakeInv'
  BY DEF HandshakeInv, TypeOK, Loops
<1>8. SlotServesEverywhere'
  BY <1>2, <1>3 DEF SlotServesEverywhere, TypeOK
<1> QED
  BY <1>1, <1>4, <1>5, <1>6, <1>7, <1>8

LEMMA StutterInv == ASSUME Inv, UNCHANGED vars PROVE Inv'
  BY DEF Inv, vars, TypeOK, JobInv, SlotInv, ListenInv, HandshakeInv, SlotServesEverywhere, Listens

\* Whose listeners may be open, in every state.
THEOREM Invariance == Spec => []Inv
<1>1. Inv /\ [Next]_vars => Inv'
  BY CallerInv, TakeOldInv, JobStepInv, VisitInv, LoopEndsInv, StutterInv DEF Next
<1> QED
  BY <1>1, InitInv, PTL DEF Spec

\* Every variable keeps its type, and the lock is held while a job runs.
THEOREM TypeCorrect == Spec => []TypeOK
  BY Invariance, PTL DEF Inv

\* The server in the slot serves every address it was to bind and has not
\* been told to end (serve returns its failures).
THEOREM SlotServes == Spec => []SlotServesEverywhere
  BY Invariance, PTL DEF Inv

\* A start never runs into a listener of a server this program stopped, and
\* with a single address into none of its own (RunningServer).
THEOREM NoSelfConflict == Spec => []NoOwnListenerInTheWay
<1>1. Inv => NoOwnListenerInTheWay
  BY NoCallIsNone DEF Inv, JobInv, ListenInv, TypeOK, NoOwnListenerInTheWay, Unbound
<1> QED
  BY <1>1, Invariance, PTL

\* A step of a job is a call's return or leaves slot and calls as they seem.
LEMMA JobRefines == ASSUME Inv, Job PROVE [Slot!Next]_(Slot!vars)
<1> USE NoCallIsNone DEF Inv
<1>1. step # "idle"
  BY DEF Job, StopReturns, ServeFails, BeginServe, OldIsDown, BindFails, Served, Bind
<1>2. holder \in Calls /\ holder # NoCall /\ slot = NoCall
  BY <1>1 DEF TypeOK, JobInv
<1>3. CASE StopReturns
  <2>1. Slot!Stop(holder)
    BY <1>2, <1>3 DEF StopReturns, Release, Slot!Stop, Slot!Return
  <2> QED
    BY <1>2, <2>1 DEF Slot!Next
<1>4. CASE ServeFails
  <2>1. Slot!Start(holder)
    BY <1>2, <1>4 DEF ServeFails, Release, Slot!Start, Slot!Return
  <2> QED
    BY <1>2, <2>1 DEF Slot!Next
<1>5. CASE BindFails
  <2>1. Slot!Start(holder)
    BY <1>2, <1>5 DEF BindFails, JobInv, Release, Slot!Start, Slot!Return
  <2> QED
    BY <1>2, <2>1 DEF Slot!Next
<1>6. CASE Served
  <2>1. Slot!Start(holder)
    BY <1>2, <1>6 DEF Served, JobInv, Release, Slot!Start, Slot!Return
  <2> QED
    BY <1>2, <2>1 DEF Slot!Next
<1>7. CASE BeginServe \/ \E a \in Addrs : Bind(a)
  BY <1>7 DEF BeginServe, Bind, Slot!vars
<1> QED
  BY <1>3, <1>4, <1>5, <1>6, <1>7 DEF Job

LEMMA StepRefines == ASSUME Inv, [Next]_vars PROVE [Slot!Next]_(Slot!vars)
<1> USE DEF Slot!vars
<1>1. ASSUME NEW c \in Calls, Caller(c) PROVE [Slot!Next]_(Slot!vars)
  <2>1. Slot!Ask(c)
    BY <1>1 DEF Caller, AskStart, AskStop, New, Slot!Ask, jobVars
  <2> QED
    BY <2>1 DEF Slot!Next
<1>2. ASSUME NEW c \in Calls, TakeOld(c) PROVE UNCHANGED Slot!vars
  BY <1>2, NoCallIsNone DEF TakeOld
<1>3. ASSUME NEW v \in Visits, Visit(v) PROVE UNCHANGED Slot!vars
  BY <1>3 DEF Visit, Accept, Secured, HandshakeFails, EndHandshake, Leave, CutOff, End,
              BeginSearch, Searched, AbortSearch, EndSearch, jobVars
<1>4. ASSUME NEW s \in Calls, NEW a \in Addrs, LoopEnds(s, a) PROVE UNCHANGED Slot!vars
  BY <1>4 DEF LoopEnds, jobVars
<1>5. CASE UNCHANGED vars
  BY <1>5 DEF vars
<1> QED
  BY <1>1, <1>2, <1>3, <1>4, <1>5, JobRefines DEF Next

\* Every step is one of ShareSlot or leaves its state alone: calls take
\* effect at once, although a job shuts one server down before it builds the
\* next and may fail in between (start_share, stop_share).
THEOREM CallsAreAtomic == Spec => Slot!Init /\ [][Slot!Next]_(Slot!vars)
<1>1. Init => Slot!Init
  BY DEF Init, Slot!Init
<1>2. Inv /\ [Next]_vars => [Slot!Next]_(Slot!vars)
  BY StepRefines
<1> QED
  BY <1>1, <1>2, Invariance, PTL DEF Spec
=============================================================================

--------------------------- MODULE Desktop_proofs ---------------------------
(***************************************************************************)
(* Proofs about Desktop, for any number of calls: its types; that no       *)
(* tunnel is ever left running outside the slot, however the application   *)
(* is used; and that who waits for the display sees the share as it is.    *)
(***************************************************************************)
EXTENDS Desktop, TLAPS

\* The two halves of TypeOK: plain types, and steps that fit the kind of call.
PlainOK ==
  /\ user \in Users
  /\ tab \in {"share", "other"}
  /\ kind \in [Calls -> {"none", "start", "stop"}]
  /\ scope \in [Calls -> {"view", "app"}]
  /\ wish \in [Calls -> {"off", "on", "incomplete"}]
  /\ step \in [Calls -> {"unused", "new", "share", "tunnel", "untunnel", "unshare", "over"}]
  /\ job \in [Calls -> {"none", "startShare", "startTunnel", "stopTunnel", "stopShare", "ran"}]
  /\ ok \in [Calls -> BOOLEAN]
  /\ server \in Calls \cup {NoCall}
  /\ tunnel \in Calls \cup {NoCall}
  /\ status \in [Calls -> Statuses]
  /\ open \in [Calls -> BOOLEAN]
  /\ unseen \in [Calls -> BOOLEAN]
  /\ pump \in [Calls -> {"none", "on", "off"}]
  /\ share \in {"Stopped", "Starting", "Running", "Failed"}
  /\ relay \in Statuses

StepsOK == \A c \in Calls : step[c] \in StepsOf(kind[c])

LEMMA Halves == /\ TypeOK <=> PlainOK /\ StepsOK
                /\ TypeOK' <=> PlainOK' /\ StepsOK'
  BY DEF TypeOK, PlainOK, StepsOK

LEMMA StepsOfKinds ==
  /\ StepsOf("none") = {"unused"}
  /\ StepsOf("start") = {"new", "share", "tunnel", "over"}
  /\ StepsOf("stop") = {"new", "untunnel", "unshare", "over"}
  BY DEF StepsOf

\* A call that takes a step of its kind.
LEMMA OneStep ==
  ASSUME TypeOK, NEW c \in Calls, NEW s, kind' = kind, step' = [step EXCEPT ![c] = s],
         s \in StepsOf(kind[c])
  PROVE  StepsOK'
  BY Halves DEF PlainOK, StepsOK

\* Every call that was made can return.
LEMMA OverIsAStep ==
  ASSUME TypeOK, NEW c \in Calls, step[c] # "unused"
  PROVE  "over" \in StepsOf(kind[c])
  BY Halves, StepsOfKinds DEF PlainOK, StepsOK

LEMMA InitTypes == Init => TypeOK
<1> SUFFICES ASSUME Init PROVE TypeOK
  OBVIOUS
<1>1. PlainOK
  BY DesktopAssumption DEF Init, PlainOK, Calls, NoCall, Users, Statuses
<1>2. StepsOK
  BY StepsOfKinds DEF Init, StepsOK
<1> QED
  BY <1>1, <1>2, Halves

LEMMA UserTypes ==
  ASSUME TypeOK, NEW c \in Calls, User(c) PROVE TypeOK'
<1> PICK k \in {"start", "stop"}, s \in {"view", "app"}, w \in {"off", "on", "incomplete"} :
         Click(c, k, s, w)
  BY DEF User, ClickStart, ClickStop
<1>1. PlainOK'
  BY Halves DEF PlainOK, Click, engineVars
<1>2. "new" \in StepsOf(k)
  BY StepsOfKinds
<1>3. StepsOK'
  BY <1>2, Halves DEF PlainOK, StepsOK, Click
<1> QED
  BY <1>1, <1>3, Halves

LEMMA UiTypes ==
  ASSUME TypeOK, NEW c \in Calls, Ui(c) PROVE TypeOK'
<1> USE Halves DEF Return, Ask, callVars, engineVars
<1>1. CASE NoFolder(c)
  <2>1. PlainOK'
    BY <1>1 DEF NoFolder, PlainOK, Statuses
  <2>2. StepsOK'
    BY <1>1, OneStep, OverIsAStep DEF NoFolder
  <2> QED
    BY <2>1, <2>2
<1>2. CASE BeginStart(c)
  <2>1. PlainOK'
    BY <1>2 DEF BeginStart, PlainOK, Statuses
  <2>2. StepsOK'
    BY <1>2, OneStep, StepsOfKinds DEF BeginStart
  <2> QED
    BY <2>1, <2>2
<1>3. CASE ShareStarted(c)
  <2>1. PlainOK'
    BY <1>3 DEF ShareStarted, PlainOK, Statuses
  <2>2. kind[c] = "start"
    BY <1>3, StepsOfKinds DEF ShareStarted, PlainOK, StepsOK
  <2>3. PICK s \in {"tunnel", "over"} : step' = [step EXCEPT ![c] = s]
    BY <1>3 DEF ShareStarted
  <2>4. StepsOK'
    BY <1>3, <2>2, <2>3, OneStep, StepsOfKinds DEF ShareStarted
  <2> QED
    BY <2>1, <2>4
<1>4. CASE ShareFailed(c)
  <2>1. PlainOK'
    BY <1>4 DEF ShareFailed, PlainOK, Statuses
  <2>2. StepsOK'
    BY <1>4, OneStep, OverIsAStep DEF ShareFailed
  <2> QED
    BY <2>1, <2>2
<1>5. CASE TunnelStarted(c)
  <2>1. PlainOK'
    BY <1>5 DEF TunnelStarted, PlainOK, Statuses
  <2>2. StepsOK'
    BY <1>5, OneStep, OverIsAStep DEF TunnelStarted
  <2> QED
    BY <2>1, <2>2
<1>6. CASE BeginStop(c)
  <2>1. PlainOK'
    BY <1>6 DEF BeginStop, PlainOK, Statuses
  <2>2. StepsOK'
    BY <1>6, OneStep, StepsOfKinds DEF BeginStop
  <2> QED
    BY <2>1, <2>2
<1>7. CASE TunnelStopped(c)
  <2>1. PlainOK'
    BY <1>7 DEF TunnelStopped, PlainOK, Statuses
  <2>2. kind[c] = "stop"
    BY <1>7, StepsOfKinds DEF TunnelStopped, PlainOK, StepsOK
  <2>3. StepsOK'
    BY <1>7, <2>2, OneStep, StepsOfKinds DEF TunnelStopped
  <2> QED
    BY <2>1, <2>3
<1>8. CASE ShareStopped(c)
  <2>1. PlainOK'
    BY <1>8 DEF ShareStopped, PlainOK, Statuses
  <2>2. StepsOK'
    BY <1>8, OneStep, OverIsAStep DEF ShareStopped
  <2> QED
    BY <2>1, <2>2
<1>9. CASE ShowStatus(c)
  <2>1. PlainOK'
    BY <1>9 DEF ShowStatus, PlainOK
  <2>2. StepsOK'
    BY <1>9 DEF ShowStatus, StepsOK
  <2> QED
    BY <2>1, <2>2
<1>10. CASE PumpEnds(c)
  <2>1. PlainOK'
    BY <1>10 DEF PumpEnds, PlainOK
  <2>2. StepsOK'
    BY <1>10 DEF PumpEnds, StepsOK
  <2> QED
    BY <2>1, <2>2
<1> QED
  BY <1>1, <1>2, <1>3, <1>4, <1>5, <1>6, <1>7, <1>8, <1>9, <1>10 DEF Ui

LEMMA EngineTypes ==
  ASSUME TypeOK, NEW c \in Calls, Engine(c) PROVE TypeOK'
<1> USE Halves DEF PlainOK, Ran, callVars
<1>1. CASE RunStartShare(c)
  BY <1>1 DEF RunStartShare, StepsOK
<1>2. CASE RunStopShare(c)
  BY <1>2 DEF RunStopShare, StepsOK
<1>3. CASE RunStartTunnel(c)
  BY <1>3 DEF RunStartTunnel, Statuses, StepsOK
<1>4. CASE RunStopTunnel(c)
  BY <1>4 DEF RunStopTunnel, Statuses, StepsOK
<1> QED
  BY <1>1, <1>2, <1>3, <1>4 DEF Engine

LEMMA TypeStep == TypeOK /\ [Next]_vars => TypeOK'
<1> SUFFICES ASSUME TypeOK, [Next]_vars PROVE TypeOK'
  OBVIOUS
<1> USE Halves
<1>1. ASSUME NEW c \in Calls, Tunnel(c) PROVE TypeOK'
  <2>1. CASE GiveUp(c)
    BY <2>1 DEF GiveUp, PlainOK, StepsOK, Statuses, callVars
  <2>2. ASSUME NEW s \in {"Connecting", "Online", "Retrying"}, Report(c, s) PROVE TypeOK'
    <3>1. status' \in [Calls -> Statuses]
      BY <2>2 DEF Report, PlainOK, Statuses
    <3>2. unseen' \in [Calls -> BOOLEAN]
      BY <2>2 DEF Report, PlainOK
    <3> QED
      BY <2>2, <3>1, <3>2 DEF Report, PlainOK, StepsOK, callVars
  <2> QED
    BY <1>1, <2>1, <2>2 DEF Tunnel
<1>2. CASE LeavePage
  <2>1. PlainOK'
    BY <1>2 DEF LeavePage, PlainOK, engineVars
  <2>2. StepsOK'
    BY <1>2, OverIsAStep DEF LeavePage, PlainOK, StepsOK
  <2> QED
    BY <2>1, <2>2
<1>3. CASE ReturnToPage
  BY <1>3 DEF ReturnToPage, PlainOK, StepsOK, callVars, engineVars
<1>4. CASE UNCHANGED vars
  BY <1>4 DEF vars, PlainOK, StepsOK
<1> QED
  BY <1>1, <1>2, <1>3, <1>4, UserTypes, UiTypes, EngineTypes DEF Next

\* Type correctness of Desktop.
THEOREM DesktopTypes == Spec => []TypeOK
  BY InitTypes, TypeStep, PTL DEF Spec

-----------------------------------------------------------------------------
LEMMA OrphanStep == TypeOK /\ NoOrphanTunnel /\ [Next]_vars => NoOrphanTunnel'
<1> SUFFICES ASSUME TypeOK, NoOrphanTunnel, [Next]_vars PROVE NoOrphanTunnel'
  OBVIOUS
<1> USE DEF NoOrphanTunnel
<1>1. ASSUME NEW c \in Calls, User(c) PROVE UNCHANGED <<tunnel, open>>
  BY <1>1 DEF User, ClickStart, ClickStop, Click, engineVars
<1>2. ASSUME NEW c \in Calls, Ui(c) PROVE UNCHANGED <<tunnel, open>>
  BY <1>2 DEF Ui, NoFolder, BeginStart, ShareStarted, ShareFailed, TunnelStarted, BeginStop,
              TunnelStopped, ShareStopped, ShowStatus, PumpEnds, engineVars
<1>3. ASSUME NEW c \in Calls, RunStartShare(c) \/ RunStopShare(c) PROVE UNCHANGED <<tunnel, open>>
  BY <1>3 DEF RunStartShare, RunStopShare
<1>4. ASSUME NEW c \in Calls, RunStartTunnel(c) PROVE NoOrphanTunnel'
  \* The tunnel in the slot, the only one that can be running, is stopped.
  BY <1>4 DEF RunStartTunnel, ToStop
<1>5. ASSUME NEW c \in Calls, RunStopTunnel(c) PROVE NoOrphanTunnel'
  BY <1>5 DEF RunStopTunnel, ToStop
<1>6. ASSUME NEW c \in Calls, Tunnel(c) PROVE NoOrphanTunnel'
  <2>1. CASE GiveUp(c)
    BY <2>1 DEF GiveUp, TypeOK
  <2>2. CASE \E s \in {"Connecting", "Online", "Retrying"} : Report(c, s)
    BY <2>2 DEF Report
  <2> QED
    BY <1>6, <2>1, <2>2 DEF Tunnel
<1>7. CASE LeavePage \/ ReturnToPage \/ UNCHANGED vars
  BY <1>7 DEF LeavePage, ReturnToPage, engineVars, vars
<1> QED
  BY <1>1, <1>2, <1>3, <1>4, <1>5, <1>6, <1>7 DEF Next, Engine

\* Every running tunnel is the one in the slot: however calls interleave and
\* whichever tasks die with their page, a stop can reach it.
THEOREM NoTunnelIsOrphaned == Spec => []NoOrphanTunnel
<1>1. Init => NoOrphanTunnel
  BY DEF Init, NoOrphanTunnel
<1> QED
  BY <1>1, OrphanStep, DesktopTypes, PTL DEF Spec

-----------------------------------------------------------------------------
(* What a user sees who waits for the display.                             *)

Busy(c) == step[c] \notin {"unused", "over"}

\* Display, server and tunnel when nothing is under way.
Settled ==
  /\ share # "Starting"
  /\ share = "Running" <=> server # NoCall
  /\ share # "Running" => tunnel = NoCall

\* The same while call c is under way, from one await to the next.
Progress(c) ==
  /\ step[c] \in {"unused", "over"} => job[c] = "none"
  /\ step[c] = "new" =>
       job[c] = "none" /\ Settled /\ (kind[c] = "stop" <=> share = "Running")
  /\ step[c] = "share" =>
       /\ share = "Starting" /\ tunnel = NoCall
       /\ \/ job[c] = "startShare" /\ server = NoCall
          \/ job[c] = "ran" /\ (ok[c] <=> server # NoCall)
  /\ step[c] = "tunnel" =>
       share = "Running" /\ server # NoCall /\ job[c] \in {"startTunnel", "ran"}
  /\ step[c] = "untunnel" =>
       /\ share = "Running" /\ server # NoCall
       /\ job[c] = "stopTunnel" \/ (job[c] = "ran" /\ tunnel = NoCall)
  /\ step[c] = "unshare" =>
       /\ share = "Running" /\ tunnel = NoCall
       /\ \/ job[c] = "stopShare" /\ server # NoCall
          \/ job[c] = "ran" /\ server = NoCall

Waits == user.patient /\ user.stays

\* One call at a time is under way, and everything is where it has got to.
OneAtATime ==
  /\ \A b, c \in Calls : Busy(b) /\ Busy(c) => b = c
  /\ \A c \in Calls : Progress(c)
  /\ (\A c \in Calls : ~Busy(c)) => Settled

WaitingInv == Waits => OneAtATime

LEMMA WaitingInit == Init => WaitingInv
BY DEF Init, WaitingInv, OneAtATime, Busy, Progress, Settled

\* A step of the call that is under way, in which the others stay where they are.
LEMMA OneCallMoves ==
  ASSUME OneAtATime, NEW c \in Calls, Busy(c),
         \A b \in Calls \ {c} : step'[b] = step[b] /\ job'[b] = job[b],
         Progress(c)', Busy(c)' \/ Settled'
  PROVE  OneAtATime'
<1>1. \A b \in Calls \ {c} : ~Busy(b) /\ ~Busy(b)'
  BY DEF OneAtATime, Busy
<1>2. ASSUME NEW b \in Calls \ {c} PROVE Progress(b)'
  <2>1. job[b] = "none" /\ job'[b] = "none" /\ step'[b] \in {"unused", "over"}
    BY <1>1 DEF OneAtATime, Progress, Busy
  <2> QED
    BY <2>1 DEF Progress
<1>3. \A b \in Calls : Progress(b)'
  BY <1>2
<1> QED
  BY <1>1, <1>3 DEF OneAtATime

\* What a user who waits clicks on comes when nothing is under way.
LEMMA UserWaits ==
  ASSUME TypeOK, Waits, OneAtATime, NEW c \in Calls, User(c) PROVE OneAtATime'
<1> PICK k \in {"start", "stop"}, s \in {"view", "app"}, w \in {"off", "on", "incomplete"} :
         Click(c, k, s, w) /\ (k = "stop" <=> share = "Running")
  BY DEF User, ClickStart, ClickStop
<1>1. /\ step' = [step EXCEPT ![c] = "new"] /\ kind' = [kind EXCEPT ![c] = k]
      /\ UNCHANGED <<job, ok, server, tunnel, share>>
      /\ \A b \in Calls : step[b] \in {"unused", "over"}
  BY DEF Click, Waits, Quiet, engineVars
<1>2. Settled /\ Settled'
  BY <1>1 DEF OneAtATime, Busy, Settled
<1>3. /\ \A b \in Calls \ {c} : ~Busy(b)'
      /\ \A b \in Calls : job'[b] = "none"
  BY <1>1 DEF OneAtATime, Progress, Busy, TypeOK
<1>4. Progress(c)'
  BY <1>1, <1>2, <1>3 DEF Progress, TypeOK
<1>5. \A b \in Calls \ {c} : Progress(b)'
  BY <1>1, <1>3 DEF Progress, Busy
<1>6. Busy(c)'
  BY <1>1 DEF Busy, TypeOK
<1> QED
  BY <1>3, <1>4, <1>5, <1>6 DEF OneAtATime

\* The tasks of the display.
LEMMA UiWaits ==
  ASSUME TypeOK, OneAtATime, NEW c \in Calls, Ui(c) PROVE OneAtATime'
<1> DEFINE Others == \A b \in Calls \ {c} : step'[b] = step[b] /\ job'[b] = job[b]
           Rest == UNCHANGED <<server, tunnel, kind, ok>>
<1>1. Progress(c)
  BY DEF OneAtATime
<1> USE DEF engineVars, callVars
<1>2. CASE NoFolder(c)
  <2>1. /\ step[c] = "new" /\ kind[c] = "start" /\ share' = "Failed" /\ Others /\ Rest
        /\ step'[c] = "over" /\ job'[c] = "none"
    BY <1>2 DEF NoFolder, Return, TypeOK
  <2>2. Settled'
    BY <1>1, <2>1 DEF Progress, Settled
  <2> QED
    BY <2>1, <2>2, OneCallMoves DEF Busy, Progress
<1>3. CASE BeginStart(c)
  <2>1. /\ step[c] = "new" /\ kind[c] = "start" /\ share' = "Starting" /\ Others /\ Rest
        /\ step'[c] = "share" /\ job'[c] = "startShare"
    BY <1>3 DEF BeginStart, Ask, TypeOK
  <2>2. server = NoCall /\ tunnel = NoCall
    BY <1>1, <2>1 DEF Progress, Settled
  <2> QED
    BY <2>1, <2>2, OneCallMoves DEF Busy, Progress
<1>4. CASE ShareStarted(c)
  <2>1. /\ step[c] = "share" /\ job[c] = "ran" /\ ok[c] /\ share' = "Running" /\ Others /\ Rest
        /\ \/ step'[c] = "tunnel" /\ job'[c] = "startTunnel"
           \/ step'[c] = "over" /\ job'[c] = "none"
    BY <1>4 DEF ShareStarted, Ask, Return, TypeOK
  <2>2. server # NoCall /\ Settled'
    BY <1>1, <2>1 DEF Progress, Settled
  <2> QED
    BY <2>1, <2>2, OneCallMoves DEF Busy, Progress
<1>5. CASE ShareFailed(c)
  <2>1. /\ step[c] = "share" /\ job[c] = "ran" /\ ~ok[c] /\ share' = "Failed" /\ Others /\ Rest
        /\ step'[c] = "over" /\ job'[c] = "none"
    BY <1>5 DEF ShareFailed, Return, TypeOK
  <2>2. Settled'
    BY <1>1, <2>1 DEF Progress, Settled
  <2> QED
    BY <2>1, <2>2, OneCallMoves DEF Busy, Progress
<1>6. CASE TunnelStarted(c)
  <2>1. /\ step[c] = "tunnel" /\ job[c] = "ran" /\ UNCHANGED share /\ Others /\ Rest
        /\ step'[c] = "over" /\ job'[c] = "none"
    BY <1>6 DEF TunnelStarted, Return, TypeOK
  <2>2. Settled'
    BY <1>1, <2>1 DEF Progress, Settled
  <2> QED
    BY <2>1, <2>2, OneCallMoves DEF Busy, Progress
<1>7. CASE BeginStop(c)
  <2>1. /\ step[c] = "new" /\ kind[c] = "stop" /\ UNCHANGED share /\ Others /\ Rest
        /\ step'[c] = "untunnel" /\ job'[c] = "stopTunnel"
    BY <1>7 DEF BeginStop, Ask, TypeOK
  <2>2. share = "Running" /\ server # NoCall
    BY <1>1, <2>1 DEF Progress, Settled
  <2> QED
    BY <2>1, <2>2, OneCallMoves DEF Busy, Progress
<1>8. CASE TunnelStopped(c)
  <2>1. /\ step[c] = "untunnel" /\ job[c] = "ran" /\ UNCHANGED share /\ Others /\ Rest
        /\ step'[c] = "unshare" /\ job'[c] = "stopShare"
    BY <1>8 DEF TunnelStopped, Ask, TypeOK
  <2>2. share = "Running" /\ server # NoCall /\ tunnel = NoCall
    BY <1>1, <2>1 DEF Progress
  <2> QED
    BY <2>1, <2>2, OneCallMoves DEF Busy, Progress
<1>9. CASE ShareStopped(c)
  <2>1. /\ step[c] = "unshare" /\ job[c] = "ran" /\ share' = "Stopped" /\ Others /\ Rest
        /\ step'[c] = "over" /\ job'[c] = "none"
    BY <1>9 DEF ShareStopped, Return, TypeOK
  <2>2. Settled'
    BY <1>1, <2>1 DEF Progress, Settled
  <2> QED
    BY <2>1, <2>2, OneCallMoves DEF Busy, Progress
<1>10. CASE ShowStatus(c) \/ PumpEnds(c)
  <2>1. UNCHANGED <<kind, step, job, ok, server, tunnel, share>>
    BY <1>10 DEF ShowStatus, PumpEnds
  <2> QED
    BY <2>1 DEF OneAtATime, Busy, Progress, Settled
<1> QED
  BY <1>2, <1>3, <1>4, <1>5, <1>6, <1>7, <1>8, <1>9, <1>10 DEF Ui

\* The jobs of the engine, each asked by the call that is under way.
LEMMA EngineWaits ==
  ASSUME TypeOK, OneAtATime, NEW c \in Calls, Engine(c) PROVE OneAtATime'
<1> USE DEF callVars
<1>1. Progress(c) /\ c # NoCall
  BY DEF OneAtATime, Calls, NoCall
<1>2. /\ step[c] \in {"unused", "new", "share", "tunnel", "untunnel", "unshare", "over"}
      /\ job' = [job EXCEPT ![c] = "ran"] /\ UNCHANGED <<step, kind, share>>
      /\ job'[c] = "ran"
  BY DEF Engine, RunStartShare, RunStopShare, RunStartTunnel, RunStopTunnel, Ran, TypeOK
<1>3. CASE RunStartShare(c)
  <2>1. step[c] = "share"
    BY <1>1, <1>2, <1>3 DEF RunStartShare, Progress
  <2>2. UNCHANGED tunnel /\ (ok'[c] <=> server' # NoCall)
    BY <1>1, <1>3 DEF RunStartShare, TypeOK
  <2> QED
    BY <1>1, <1>2, <2>1, <2>2, OneCallMoves DEF Busy, Progress
<1>4. CASE RunStopShare(c)
  <2>1. step[c] = "unshare" /\ server' = NoCall /\ UNCHANGED tunnel
    BY <1>1, <1>2, <1>4 DEF RunStopShare, Progress
  <2> QED
    BY <1>1, <1>2, <2>1, OneCallMoves DEF Busy, Progress
<1>5. CASE RunStartTunnel(c)
  <2>1. step[c] = "tunnel" /\ UNCHANGED server
    BY <1>1, <1>2, <1>5 DEF RunStartTunnel, Progress
  <2> QED
    BY <1>1, <1>2, <2>1, OneCallMoves DEF Busy, Progress
<1>6. CASE RunStopTunnel(c)
  <2>1. step[c] = "untunnel" /\ tunnel' = NoCall /\ UNCHANGED server
    BY <1>1, <1>2, <1>6 DEF RunStopTunnel, Progress
  <2> QED
    BY <1>1, <1>2, <2>1, OneCallMoves DEF Busy, Progress
<1> QED
  BY <1>3, <1>4, <1>5, <1>6 DEF Engine

\* Who stays until nothing of the page is in use loses no task by leaving it.
LEMMA NothingIsCutOff ==
  ASSUME TypeOK, Waits, LeavePage PROVE UNCHANGED step
<1>1. \A c \in Calls : scope[c] = "view" => step[c] \in {"unused", "over"}
  BY DEF LeavePage, Waits, PageInUse
<1> QED
  BY <1>1 DEF LeavePage, TypeOK

LEMMA WaitingStep == TypeOK /\ WaitingInv /\ [Next]_vars => WaitingInv'
<1> SUFFICES ASSUME TypeOK, WaitingInv, [Next]_vars, Waits' PROVE OneAtATime'
  BY DEF WaitingInv
<1>1. UNCHANGED user
  BY DEF Next, Ui, Engine, User, Tunnel, ClickStart, ClickStop, Click, NoFolder, BeginStart,
         ShareStarted, ShareFailed, TunnelStarted, BeginStop, TunnelStopped, ShareStopped,
         ShowStatus, PumpEnds, RunStartShare, RunStopShare, RunStartTunnel, RunStopTunnel,
         GiveUp, Report, LeavePage, ReturnToPage, vars
<1>2. Waits /\ OneAtATime
  BY <1>1 DEF Waits, WaitingInv
<1>3. ASSUME UNCHANGED <<kind, step, job, ok, server, tunnel, share>> PROVE OneAtATime'
  BY <1>2, <1>3 DEF OneAtATime, Busy, Progress, Settled
<1>4. ASSUME NEW c \in Calls, Tunnel(c) PROVE OneAtATime'
  BY <1>3, <1>4 DEF Tunnel, GiveUp, Report, callVars
<1>5. CASE LeavePage
  BY <1>2, <1>3, <1>5, NothingIsCutOff DEF LeavePage, engineVars
<1>6. CASE ReturnToPage \/ UNCHANGED vars
  BY <1>3, <1>6 DEF ReturnToPage, callVars, engineVars, vars
<1> QED
  BY <1>2, <1>4, <1>5, <1>6, UserWaits, UiWaits, EngineWaits DEF Next

\* A user who waits for the display and stays on the page sees the share as it is
\* whenever nothing is under way, and a stopped share has no tunnel (do_start, do_stop).
THEOREM ShareIsShown == Spec => []ShareShownAsItIs
<1>1. WaitingInv => ShareShownAsItIs
  BY DEF WaitingInv, Waits, OneAtATime, Busy, Quiet, Settled, ShareShownAsItIs
<1>2. Spec => []WaitingInv
  BY WaitingInit, WaitingStep, DesktopTypes, PTL DEF Spec
<1> QED
  BY <1>1, <1>2, PTL
=============================================================================

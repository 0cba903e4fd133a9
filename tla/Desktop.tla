------------------------------ MODULE Desktop ------------------------------
(***************************************************************************)
(* The desktop application around the file server and the tunnel:          *)
(* do_start and do_stop (src/main.rs), the engine they call (src/engine.rs)*)
(* and the loop that carries the tunnel's status to the display.           *)
(*                                                                         *)
(* A call of do_start or do_stop is a task of the user interface; what it  *)
(* asks of the engine is a job on another runtime, done under the lock of  *)
(* the slot it concerns, also when the task that asked is gone.  Jobs are  *)
(* not ordered.  A task spawned from the share page, and the status loop   *)
(* spawned by such a task, die when the page is left: Dioxus ties a task   *)
(* to the component it was spawned in.                                     *)
(*                                                                         *)
(* A tunnel is what TunnelHandle promises, one per call that started one.  *)
(***************************************************************************)
EXTENDS Naturals

CONSTANTS MaxCalls,   \* bound: calls of do_start and do_stop
          MaxHasty    \* bound: those of a user who does not wait for the display

ASSUME DesktopAssumption == MaxCalls \in Nat /\ MaxHasty \in 0..MaxCalls

VARIABLES
  user,     \* how the user behaves, see Users
  tab,      \* the page on display
  kind,     \* per call: do_start or do_stop
  scope,    \* per call: the component its task belongs to
  wish,     \* per call of do_start: what the configuration says of the relay
  step,     \* per call: where it is
  job,      \* per call: what it asked of the engine
  ok,       \* per call: did start_share succeed?
  server,   \* the slot SHARE: the call whose server it holds
  tunnel,   \* the slot TUNNEL: the call whose tunnel it holds
  status,   \* per call: the status watch of its tunnel
  open,     \* per call: is its tunnel running?
  unseen,   \* per call: has the watch changed since the status loop looked?
  pump,     \* per call: its status loop
  share,    \* the displayed state of the share
  relay     \* the displayed state of the relay

callVars   == <<kind, scope, wish, step>>
engineVars == <<server, tunnel, status, open>>
vars == <<user, tab, kind, scope, wish, step, job, ok, server, tunnel, status, open,
          unseen, pump, share, relay>>

Calls == 1..MaxCalls
NoCall == 0

\* A patient user clicks when the display has caught up; one who stays does
\* not leave the share page while something started there is alive.
Users == [patient : BOOLEAN, stays : BOOLEAN]

Statuses == {"Connecting", "Online", "Retrying", "Fatal", "Idle"}

\* The steps of do_start and of do_stop.
StepsOf(k) ==
  CASE k = "none" -> {"unused"}
    [] k = "start" -> {"new", "share", "tunnel", "over"}
    [] k = "stop" -> {"new", "untunnel", "unshare", "over"}

TypeOK ==
  /\ user \in Users
  /\ tab \in {"share", "other"}
  /\ kind \in [Calls -> {"none", "start", "stop"}]
  /\ scope \in [Calls -> {"view", "app"}]
  /\ wish \in [Calls -> {"off", "on", "incomplete"}]
  /\ step \in [Calls -> {"unused", "new", "share", "tunnel", "untunnel", "unshare", "over"}]
  /\ \A c \in Calls : step[c] \in StepsOf(kind[c])
  /\ job \in [Calls -> {"none", "startShare", "startTunnel", "stopTunnel", "stopShare", "ran"}]
  /\ ok \in [Calls -> BOOLEAN]
  /\ server \in Calls \cup {NoCall}
  /\ tunnel \in Calls \cup {NoCall}
  /\ status \in [Calls -> Statuses]
  /\ open \in [Calls -> BOOLEAN]
  /\ unseen \in [Calls -> BOOLEAN]
  /\ pump \in [Calls -> {"none", "on", "off"}]
  /\ share \in {"Stopped", "Starting", "Running", "Failed"}
  /\ relay \in Statuses

Init ==
  /\ user \in Users
  /\ tab = "share"
  /\ kind = [c \in Calls |-> "none"]
  /\ scope = [c \in Calls |-> "app"]
  /\ wish = [c \in Calls |-> "off"]
  /\ step = [c \in Calls |-> "unused"]
  /\ job = [c \in Calls |-> "none"]
  /\ ok = [c \in Calls |-> FALSE]
  /\ server = NoCall
  /\ tunnel = NoCall
  /\ status = [c \in Calls |-> "Idle"]
  /\ open = [c \in Calls |-> FALSE]
  /\ unseen = [c \in Calls |-> FALSE]
  /\ pump = [c \in Calls |-> "none"]
  /\ share = "Stopped"
  /\ relay = "Idle"

\* No call is under way and the engine has nothing to do.
Quiet == \A c \in Calls : step[c] \in {"unused", "over"} /\ job[c] \in {"none", "ran"}

\* Every status loop has seen all there is to see.
CaughtUp == \A c \in Calls : pump[c] = "on" => open[c] /\ ~unseen[c]

\* Something spawned from the share page is alive.
PageInUse ==
  \E c \in Calls : scope[c] = "view" /\ (step[c] \notin {"unused", "over"} \/ pump[c] = "on")

-----------------------------------------------------------------------------
(* The user.                                                               *)

\* A button of the share page, or the tray menu or the automatic start.
Click(c, k, s, w) ==
  /\ step[c] = "unused"
  /\ \A b \in Calls : b < c => step[b] # "unused"
  /\ s = "view" => tab = "share"
  /\ IF user.patient THEN Quiet /\ CaughtUp ELSE c <= MaxHasty
  /\ kind' = [kind EXCEPT ![c] = k]
  /\ scope' = [scope EXCEPT ![c] = s]
  /\ wish' = [wish EXCEPT ![c] = w]
  /\ step' = [step EXCEPT ![c] = "new"]
  /\ UNCHANGED <<user, tab, job, ok, engineVars, unseen, pump, share, relay>>

\* Button and menu offer the start in these states.
ClickStart(c, s, w) == share \in {"Stopped", "Failed"} /\ Click(c, "start", s, w)

\* Both are disabled while the share is starting.
ClickStop(c, s) == share = "Running" /\ Click(c, "stop", s, "off")

\* The page is unmounted, and with it the tasks that belong to it.
LeavePage ==
  /\ tab = "share"
  /\ user.stays => ~PageInUse
  /\ tab' = "other"
  /\ step' = [c \in Calls |-> IF scope[c] = "view" /\ step[c] # "unused" THEN "over" ELSE step[c]]
  /\ pump' = [c \in Calls |-> IF scope[c] = "view" /\ pump[c] = "on" THEN "off" ELSE pump[c]]
  /\ UNCHANGED <<user, kind, scope, wish, job, ok, engineVars, unseen, share, relay>>

ReturnToPage ==
  /\ tab = "other"
  /\ tab' = "share"
  /\ UNCHANGED <<user, callVars, job, ok, engineVars, unseen, pump, share, relay>>

-----------------------------------------------------------------------------
(* do_start and do_stop, from one await to the next.                       *)

\* Call c asks the engine for j and awaits it at step s.
Ask(c, j, s) ==
  /\ job' = [job EXCEPT ![c] = j]
  /\ step' = [step EXCEPT ![c] = s]

Return(c) ==
  /\ job' = [job EXCEPT ![c] = "none"]
  /\ step' = [step EXCEPT ![c] = "over"]

\* No folder was chosen: button and automatic start check that, the tray does not.
NoFolder(c) ==
  /\ kind[c] = "start"
  /\ scope[c] = "app"
  /\ step[c] = "new"
  /\ share' = "Failed"
  /\ Return(c)
  /\ UNCHANGED <<user, tab, kind, scope, wish, ok, engineVars, unseen, pump, relay>>

BeginStart(c) ==
  /\ kind[c] = "start"
  /\ step[c] = "new"
  /\ share' = "Starting"
  /\ Ask(c, "startShare", "share")
  /\ UNCHANGED <<user, tab, kind, scope, wish, ok, engineVars, unseen, pump, relay>>

ShareStarted(c) ==
  /\ step[c] = "share"
  /\ job[c] = "ran"
  /\ ok[c]
  /\ share' = "Running"
  /\ \/ wish[c] = "on" /\ Ask(c, "startTunnel", "tunnel") /\ UNCHANGED relay
     \/ wish[c] = "off" /\ Return(c) /\ relay' = "Idle"
     \/ wish[c] = "incomplete" /\ Return(c) /\ relay' = "Fatal"
  /\ UNCHANGED <<user, tab, kind, scope, wish, ok, engineVars, unseen, pump>>

ShareFailed(c) ==
  /\ step[c] = "share"
  /\ job[c] = "ran"
  /\ ~ok[c]
  /\ share' = "Failed"
  /\ Return(c)
  /\ UNCHANGED <<user, tab, kind, scope, wish, ok, engineVars, unseen, pump, relay>>

\* Faulty: nobody follows the status.
TunnelStartedUnwatched(c) ==
  /\ step[c] = "tunnel"
  /\ job[c] = "ran"
  /\ relay' = status[c]
  /\ Return(c)
  /\ UNCHANGED <<user, tab, kind, scope, wish, ok, engineVars, unseen, pump, share>>

\* Shows the status of the new tunnel and leaves the rest to its loop.
TunnelStarted(c) ==
  /\ step[c] = "tunnel"
  /\ job[c] = "ran"
  /\ relay' = status[c]
  /\ pump' = [pump EXCEPT ![c] = "on"]
  /\ Return(c)
  /\ UNCHANGED <<user, tab, kind, scope, wish, ok, engineVars, unseen, share>>

\* Faulty: the tunnel is forgotten.
BeginStopShareOnly(c) ==
  /\ kind[c] = "stop"
  /\ step[c] = "new"
  /\ Ask(c, "stopShare", "unshare")
  /\ UNCHANGED <<user, tab, kind, scope, wish, ok, engineVars, unseen, pump, share, relay>>

\* Faulty: a start stops.
BeginStopAnyway(c) ==
  /\ step[c] = "new"
  /\ Ask(c, "stopTunnel", "untunnel")
  /\ UNCHANGED <<user, tab, kind, scope, wish, ok, engineVars, unseen, pump, share, relay>>

BeginStop(c) ==
  /\ kind[c] = "stop"
  /\ step[c] = "new"
  /\ Ask(c, "stopTunnel", "untunnel")
  /\ UNCHANGED <<user, tab, kind, scope, wish, ok, engineVars, unseen, pump, share, relay>>

TunnelStopped(c) ==
  /\ step[c] = "untunnel"
  /\ job[c] = "ran"
  /\ Ask(c, "stopShare", "unshare")
  /\ UNCHANGED <<user, tab, kind, scope, wish, ok, engineVars, unseen, pump, share, relay>>

ShareStopped(c) ==
  /\ step[c] = "unshare"
  /\ job[c] = "ran"
  /\ relay' = "Idle"
  /\ share' = "Stopped"
  /\ Return(c)
  /\ UNCHANGED <<user, tab, kind, scope, wish, ok, engineVars, unseen, pump>>

\* while rx.changed().await.is_ok()
ShowStatus(c) ==
  /\ pump[c] = "on"
  /\ unseen[c]
  /\ relay' = status[c]
  /\ unseen' = [unseen EXCEPT ![c] = FALSE]
  /\ UNCHANGED <<user, tab, callVars, job, ok, engineVars, pump, share>>

PumpEnds(c) ==
  /\ pump[c] = "on"
  /\ ~unseen[c]
  /\ ~open[c]
  /\ pump' = [pump EXCEPT ![c] = "off"]
  /\ UNCHANGED <<user, tab, callVars, job, ok, engineVars, unseen, share, relay>>

-----------------------------------------------------------------------------
(* The engine's jobs.                                                      *)

Ran(c) == job' = [job EXCEPT ![c] = "ran"]

\* start_share shuts the old server down and serves the new one, or fails.
RunStartShare(c) ==
  /\ job[c] = "startShare"
  /\ \/ server' = c /\ ok' = [ok EXCEPT ![c] = TRUE]
     \/ server' = NoCall /\ ok' = [ok EXCEPT ![c] = FALSE]
  /\ Ran(c)
  /\ UNCHANGED <<user, tab, callVars, tunnel, status, open, unseen, pump, share, relay>>

RunStopShare(c) ==
  /\ job[c] = "stopShare"
  /\ server' = NoCall
  /\ Ran(c)
  /\ UNCHANGED <<user, tab, callVars, ok, tunnel, status, open, unseen, pump, share, relay>>

\* old.stop().await: a tunnel that still runs says Idle and ends.
ToStop == {b \in Calls : b = tunnel /\ open[b]}

\* Faulty: the old tunnel is dropped from the slot, which does not stop it.
RunStartAnotherTunnel(c) ==
  /\ job[c] = "startTunnel"
  /\ tunnel' = c
  /\ open' = [open EXCEPT ![c] = TRUE]
  /\ status' = [status EXCEPT ![c] = "Connecting"]
  /\ unseen' = [unseen EXCEPT ![c] = FALSE]
  /\ Ran(c)
  /\ UNCHANGED <<user, tab, callVars, ok, server, pump, share, relay>>

RunStartTunnel(c) ==
  /\ job[c] = "startTunnel"
  /\ tunnel' = c
  /\ open' = [b \in Calls |-> b = c \/ (open[b] /\ b \notin ToStop)]
  /\ status' = [b \in Calls |-> IF b = c THEN "Connecting"
                                ELSE IF b \in ToStop THEN "Idle" ELSE status[b]]
  /\ unseen' = [b \in Calls |-> b # c /\ (unseen[b] \/ b \in ToStop)]
  /\ Ran(c)
  /\ UNCHANGED <<user, tab, callVars, ok, server, pump, share, relay>>

RunStopTunnel(c) ==
  /\ job[c] = "stopTunnel"
  /\ tunnel' = NoCall
  /\ open' = [b \in Calls |-> open[b] /\ b \notin ToStop]
  /\ status' = [b \in Calls |-> IF b \in ToStop THEN "Idle" ELSE status[b]]
  /\ unseen' = [b \in Calls |-> unseen[b] \/ b \in ToStop]
  /\ Ran(c)
  /\ UNCHANGED <<user, tab, callVars, ok, server, pump, share, relay>>

-----------------------------------------------------------------------------
(* A tunnel, as TunnelHandle has it.                                       *)

Report(c, s) ==
  /\ open[c]
  /\ status[c] # s
  /\ s = "Online" => status[c] = "Connecting"
  /\ status' = [status EXCEPT ![c] = s]
  /\ unseen' = [unseen EXCEPT ![c] = TRUE]
  /\ UNCHANGED <<user, tab, callVars, job, ok, server, tunnel, open, pump, share, relay>>

GiveUp(c) ==
  /\ open[c]
  /\ open' = [open EXCEPT ![c] = FALSE]
  /\ status' = [status EXCEPT ![c] = "Fatal"]
  /\ unseen' = [unseen EXCEPT ![c] = TRUE]
  /\ UNCHANGED <<user, tab, callVars, job, ok, server, tunnel, pump, share, relay>>

-----------------------------------------------------------------------------
Ui(c) ==
  \/ NoFolder(c) \/ BeginStart(c) \/ ShareStarted(c) \/ ShareFailed(c) \/ TunnelStarted(c)
  \/ BeginStop(c) \/ TunnelStopped(c) \/ ShareStopped(c) \/ ShowStatus(c) \/ PumpEnds(c)

Engine(c) == RunStartShare(c) \/ RunStopShare(c) \/ RunStartTunnel(c) \/ RunStopTunnel(c)

User(c) ==
  \E s \in {"view", "app"} :
    \/ \E w \in {"off", "on", "incomplete"} : ClickStart(c, s, w)
    \/ ClickStop(c, s)

Tunnel(c) == GiveUp(c) \/ \E s \in {"Connecting", "Online", "Retrying"} : Report(c, s)

Next ==
  \/ \E c \in Calls : Ui(c) \/ Engine(c) \/ User(c) \/ Tunnel(c)
  \/ LeavePage
  \/ ReturnToPage

Spec == Init /\ [][Next]_vars

\* Both runtimes keep running their tasks; users and tunnels do as they like.
Fairness ==
  \A c \in Calls :
    /\ WF_vars(NoFolder(c) \/ BeginStart(c) \/ ShareStarted(c) \/ ShareFailed(c)
               \/ TunnelStarted(c) \/ BeginStop(c) \/ TunnelStopped(c) \/ ShareStopped(c))
    /\ WF_vars(ShowStatus(c))
    /\ WF_vars(PumpEnds(c))
    /\ WF_vars(Engine(c))

FairSpec == Spec /\ Fairness

-----------------------------------------------------------------------------
(* Properties.                                                             *)

\* Every tunnel that runs is the one in the slot, so that the next stop or
\* start reaches it, whatever the user clicks and whichever tasks die.
NoOrphanTunnel == \A c \in Calls : open[c] => tunnel = c

\* For a user who waits for the display, once everything is quiet the share
\* is displayed as it is, and no tunnel is left running to a stopped share
\* (do_stop: both are stopped).
ShareShownAsItIs ==
  user.patient /\ user.stays /\ Quiet =>
    /\ share # "Starting"
    /\ share = "Running" <=> server # NoCall
    /\ share # "Running" => tunnel = NoCall

RelayShownAsItIs == tunnel # NoCall /\ Quiet => relay = status[tunnel]

\* For a user who waits and stays on the page, the display of the relay
\* catches up with the tunnel again and again (the status loop of do_start).
DisplayCatchesUp == user.patient /\ user.stays => []<>RelayShownAsItIs
=============================================================================

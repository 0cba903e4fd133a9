---------------------------- MODULE TunnelHandle ----------------------------
(***************************************************************************)
(* What a tunnel promises the desktop that holds its TunnelHandle: it      *)
(* reports how the connection to the relay is doing until it is asked to   *)
(* stop or gives up for good, and after that it is silent.  Idle is the    *)
(* last word of a tunnel that was asked to stop, Fatal of one that gave    *)
(* up, and neither is ever taken back.  Online is only reported out of an  *)
(* attempt to connect.                                                     *)
(*                                                                         *)
(* TunnelClient implements this specification.                             *)
(***************************************************************************)
VARIABLES status,   \* the value of the status watch
          asked,    \* was the tunnel asked to stop?
          running   \* is its task still running?

vars == <<status, asked, running>>

TypeOK ==
  /\ status \in {"Connecting", "Online", "Retrying", "Fatal", "Idle"}
  /\ asked \in BOOLEAN
  /\ running \in BOOLEAN

Init ==
  /\ status = "Connecting"
  /\ asked = FALSE
  /\ running = TRUE

AskToStop ==
  /\ ~asked
  /\ asked' = TRUE
  /\ UNCHANGED <<status, running>>

Report(s) ==
  /\ running
  /\ s = "Online" => status = "Connecting"
  /\ status' = s
  /\ UNCHANGED <<asked, running>>

GiveUp ==
  /\ running
  /\ running' = FALSE
  /\ status' = "Fatal"
  /\ UNCHANGED asked

Stop ==
  /\ running
  /\ asked
  /\ running' = FALSE
  /\ status' = "Idle"
  /\ UNCHANGED asked

Next ==
  \/ AskToStop
  \/ \E s \in {"Connecting", "Online", "Retrying"} : Report(s)
  \/ GiveUp
  \/ Stop

Spec == Init /\ [][Next]_vars
=============================================================================

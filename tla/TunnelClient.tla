---------------------------- MODULE TunnelClient ----------------------------
(***************************************************************************)
(* The tunnel client of the desktop (crates/tunnel/src/client.rs): the     *)
(* reconnection loop run, one control session after the other, and the     *)
(* stop of a TunnelHandle that may interrupt it anywhere.                  *)
(*                                                                         *)
(* The relay, the network and the configuration are the environment.  The  *)
(* configuration is right or wrong from the start; the relay may go down   *)
(* and come back, a connection may break, be ended with a Bye, or go dead  *)
(* without TCP noticing, and a public port may be occupied for a while.    *)
(***************************************************************************)
EXTENDS Integers

CONSTANTS BackoffStart,  \* BACKOFF_START_SECS (1)
          BackoffMax,    \* BACKOFF_MAX_SECS (30)
          MaxFaults,     \* bound: faults of relay and network
          MaxAttempts    \* bound: failed attempts while the relay is away

ASSUME ClientAssumption ==
  /\ BackoffStart \in Nat \ {0}
  /\ BackoffMax \in Nat
  /\ BackoffStart <= BackoffMax
  /\ MaxFaults \in Nat
  /\ MaxAttempts \in Nat

VARIABLES
  config,     \* which parts of the configuration are right
  step,       \* where run is
  status,     \* the value of the status watch
  attempt,    \* failed attempts since the last orderly end
  backoff,    \* seconds to wait after the next failure
  stop,       \* the value of the shutdown watch
  bindAsked,  \* does the session wait for the answer to its Bind?
  relayUp,    \* is there a relay to connect to?
  portBusy,   \* is the public port occupied?
  link,       \* the control connection
  faults      \* faults so far

envVars == <<relayUp, portBusy, faults>>
vars == <<config, step, status, attempt, backoff, stop, bindAsked, relayUp, portBusy, link, faults>>

Configs == [token : BOOLEAN, port : BOOLEAN, tls : BOOLEAN]
Right == [token |-> TRUE, port |-> TRUE, tls |-> TRUE]

\* "lost": the next read fails or ends.  "dead": the next read never returns.
Links == {"none", "open", "lost", "dead"}

TypeOK ==
  /\ config \in Configs
  /\ step \in {"top", "connect", "handshake", "session", "sleep", "ended"}
  /\ status \in {"Connecting", "Online", "Retrying", "Fatal", "Idle"}
  /\ attempt \in Nat
  /\ backoff \in BackoffStart..BackoffMax
  /\ stop \in BOOLEAN
  /\ bindAsked \in BOOLEAN
  /\ relayUp \in BOOLEAN
  /\ portBusy \in BOOLEAN
  /\ link \in Links
  /\ faults \in 0..MaxFaults

Init ==
  /\ config \in Configs
  /\ step = "top"
  /\ status = "Connecting"
  /\ attempt = 0
  /\ backoff = BackoffStart
  /\ stop = FALSE
  /\ bindAsked = FALSE
  /\ relayUp \in BOOLEAN
  /\ portBusy = FALSE
  /\ link = "none"
  /\ faults = 0

-----------------------------------------------------------------------------
(* How an iteration of run ends.                                           *)

\* break, and the Idle after the loop.  The control connection is dropped.
EndIdle ==
  /\ step' = "ended"
  /\ status' = "Idle"
  /\ link' = "none"
  /\ bindAsked' = FALSE
  /\ UNCHANGED <<attempt, backoff>>

\* Faulty: break instead of return, so that the Idle after the loop covers Fatal.
EndFatalIdle == EndIdle

\* return with Fatal left on display: retrying cannot help.
EndFatal ==
  /\ step' = "ended"
  /\ status' = "Fatal"
  /\ link' = "none"
  /\ bindAsked' = FALSE
  /\ UNCHANGED <<attempt, backoff>>

\* Err: show the failure and wait.
Retry ==
  /\ step' = "sleep"
  /\ status' = "Retrying"
  /\ attempt' = attempt + 1
  /\ link' = "none"
  /\ bindAsked' = FALSE
  /\ UNCHANGED backoff

\* Faulty: the backoff is not reset.
StartAfreshSlowly ==
  /\ step' = "top"
  /\ attempt' = 0
  /\ link' = "none"
  /\ bindAsked' = FALSE
  /\ UNCHANGED <<status, backoff>>

\* Ok: the relay said Bye, reconnect at once.
StartAfresh ==
  /\ step' = "top"
  /\ attempt' = 0
  /\ backoff' = BackoffStart
  /\ link' = "none"
  /\ bindAsked' = FALSE
  /\ UNCHANGED status

\* The shutdown is looked at before the result of the session is.
Unless(result) == IF stop THEN EndIdle ELSE result

-----------------------------------------------------------------------------
(* The loop of run.                                                        *)

\* The head of the loop.
Begin ==
  /\ step = "top"
  /\ IF stop
     THEN EndIdle
     ELSE /\ step' = "connect"
          /\ status' = "Connecting"
          /\ UNCHANGED <<attempt, backoff, link, bindAsked>>
  /\ UNCHANGED <<config, stop, envVars>>

\* Faulty: the backoff has no limit.
WakeUnlimited ==
  /\ step = "sleep"
  /\ step' = "top"
  /\ backoff' = backoff * 2
  /\ UNCHANGED <<config, status, attempt, stop, bindAsked, link, envVars>>

\* The sleep is over; the next one is twice as long, up to the limit.
Wake ==
  /\ step = "sleep"
  /\ step' = "top"
  /\ backoff' = IF backoff * 2 < BackoffMax THEN backoff * 2 ELSE BackoffMax
  /\ UNCHANGED <<config, status, attempt, stop, bindAsked, link, envVars>>

\* Faulty: a session waits for the relay's next message first.
InterruptOutsideSession ==
  /\ stop
  /\ step \in {"connect", "handshake", "sleep"}
  /\ EndIdle
  /\ UNCHANGED <<config, stop, envVars>>

\* A select of run or of session sees the shutdown; in a session a Bye may
\* get written first, the relay takes the end of the stream for one anyway.
Interrupt ==
  /\ stop
  /\ step \in {"connect", "handshake", "session", "sleep"}
  /\ EndIdle
  /\ UNCHANGED <<config, stop, envVars>>

-----------------------------------------------------------------------------
(* connect_relay, handshake and session.                                   *)

Connected ==
  /\ step = "connect"
  /\ relayUp
  /\ config.tls
  /\ step' = "handshake"
  /\ link' = "open"
  /\ UNCHANGED <<config, status, attempt, backoff, stop, bindAsked, envVars>>

\* Faulty: a relay that cannot be reached is taken for a wrong configuration.
ConnectFailsForGood ==
  /\ step = "connect"
  /\ ~relayUp \/ ~config.tls
  /\ attempt < MaxAttempts
  /\ Unless(EndFatal)
  /\ UNCHANGED <<config, stop, envVars>>

\* Refused, timed out, or no TLS where TLS is expected.
ConnectFails ==
  /\ step = "connect"
  /\ ~relayUp \/ ~config.tls
  /\ attempt < MaxAttempts
  /\ Unless(Retry)
  /\ UNCHANGED <<config, stop, envVars>>

\* AuthOk; the session asks for its port at once.
AuthOk ==
  /\ step = "handshake"
  /\ link = "open"
  /\ config.token
  /\ step' = "session"
  /\ bindAsked' = TRUE
  /\ UNCHANGED <<config, status, attempt, backoff, stop, link, envVars>>

AuthErr ==
  /\ step = "handshake"
  /\ link = "open"
  /\ ~config.token
  /\ Unless(EndFatal)
  /\ UNCHANGED <<config, stop, envVars>>

Granted == config.port /\ ~portBusy

BindOk ==
  /\ step = "session"
  /\ link = "open"
  /\ bindAsked
  /\ Granted
  /\ status' = "Online"
  /\ bindAsked' = FALSE
  /\ UNCHANGED <<config, step, attempt, backoff, stop, link, envVars>>

BindErr ==
  /\ step = "session"
  /\ link = "open"
  /\ bindAsked
  /\ ~Granted
  /\ Unless(EndFatal)
  /\ UNCHANGED <<config, stop, envVars>>

\* Another session of this client id took over.
Bye ==
  /\ step = "session"
  /\ link = "open"
  /\ faults < MaxFaults
  /\ faults' = faults + 1
  /\ Unless(StartAfresh)
  /\ UNCHANGED <<config, stop, relayUp, portBusy>>

\* Faulty: a broken connection ends the client.
LinkFailsForGood ==
  /\ step \in {"handshake", "session"}
  /\ link = "lost"
  /\ Unless(EndIdle)
  /\ UNCHANGED <<config, stop, envVars>>

\* A read or a write on the control connection fails.
LinkFails ==
  /\ step \in {"handshake", "session"}
  /\ link = "lost"
  /\ Unless(Retry)
  /\ UNCHANGED <<config, stop, envVars>>

-----------------------------------------------------------------------------
(* The environment: the user, the relay and the network.                   *)

\* TunnelHandle::stop
AskToStop ==
  /\ ~stop
  /\ stop' = TRUE
  /\ UNCHANGED <<config, step, status, attempt, backoff, bindAsked, link, envVars>>

Fault == faults < MaxFaults /\ faults' = faults + 1

Cut == IF link = "open" THEN "lost" ELSE link

RelayStops ==
  /\ Fault
  /\ relayUp
  /\ relayUp' = FALSE
  /\ link' = Cut
  /\ UNCHANGED <<config, step, status, attempt, backoff, stop, bindAsked, portBusy>>

RelayStarts ==
  /\ ~relayUp
  /\ relayUp' = TRUE
  /\ UNCHANGED <<config, step, status, attempt, backoff, stop, bindAsked, portBusy, link, faults>>

LinkBreaks ==
  /\ Fault
  /\ link = "open"
  /\ link' = "lost"
  /\ UNCHANGED <<config, step, status, attempt, backoff, stop, bindAsked, relayUp, portBusy>>

\* The other end disappears without a FIN or RST: a power cut, a NAT timeout.
LinkDies ==
  /\ Fault
  /\ link = "open"
  /\ link' = "dead"
  /\ UNCHANGED <<config, step, status, attempt, backoff, stop, bindAsked, relayUp, portBusy>>

\* Somebody else, or an earlier session of this client, has the port bound.
PortTaken ==
  /\ Fault
  /\ ~portBusy
  /\ portBusy' = TRUE
  /\ UNCHANGED <<config, step, status, attempt, backoff, stop, bindAsked, relayUp, link>>

PortFreed ==
  /\ portBusy
  /\ portBusy' = FALSE
  /\ UNCHANGED <<config, step, status, attempt, backoff, stop, bindAsked, relayUp, link, faults>>

-----------------------------------------------------------------------------
Run == Begin \/ Wake \/ Interrupt

Session ==
  \/ Connected \/ ConnectFails \/ AuthOk \/ AuthErr
  \/ BindOk \/ BindErr \/ Bye \/ LinkFails

Environment ==
  \/ AskToStop \/ RelayStops \/ RelayStarts \/ LinkBreaks \/ LinkDies
  \/ PortTaken \/ PortFreed

Next == Run \/ Session \/ Environment

Spec == Init /\ [][Next]_vars

\* The task runs when it can, timers expire, and a relay that is connected
\* answers.  Nothing is assumed of users and faults, and no relay must start.
Fairness ==
  /\ WF_vars(Begin) /\ WF_vars(Wake) /\ WF_vars(Interrupt)
  /\ WF_vars(Connected \/ ConnectFails)
  /\ WF_vars(AuthOk \/ AuthErr)
  /\ WF_vars(BindOk \/ BindErr)
  /\ WF_vars(LinkFails)

FairSpec == Spec /\ Fairness

-----------------------------------------------------------------------------
(* Properties.                                                             *)

\* The wait before the next retry is the first one doubled for every failed
\* attempt so far, up to the limit (the two assignments of backoff in run).
BackoffLaw ==
  LET failed == IF step = "sleep" THEN attempt - 1 ELSE attempt
      doubled == BackoffStart * 2^failed
  IN step # "ended" => backoff = IF doubled < BackoffMax THEN doubled ELSE BackoffMax

\* The client only gives up for good when its configuration is wrong, so that
\* trying again could not have helped (RelayStatus::Fatal).
FatalMeansHopeless == status = "Fatal" => ~config.token \/ ~config.port

\* The only thing that makes it give up otherwise is an occupied port.
OnlyBusyPortsMislead == []~portBusy => []FatalMeansHopeless

Handle == INSTANCE TunnelHandle WITH asked <- stop, running <- step # "ended"

\* The client implements TunnelHandle: it stops only when asked or for good,
\* Fatal is not covered by an Idle, and nothing is reported afterwards.
HandleSpec == Handle!Spec

\* stop() returns: wherever the client is, it ends once it is asked to.
StopEnds == stop ~> step = "ended"

\* With a right configuration, a relay that stays up in the end and a port
\* nobody else occupies, the client ends up online and stays it, whatever
\* broke before, unless a connection died without TCP noticing (run).
ComesBack ==
  (/\ config = Right
   /\ <>[]relayUp
   /\ [](~stop /\ ~portBusy /\ link # "dead"))
  => <>[](status = "Online")

\* A client whose control connection is gone does not stay Online.
LossIsNoticed == (status = "Online" /\ link # "open") ~> (status # "Online")
=============================================================================

------------------------------ MODULE ShareSlot ------------------------------
(***************************************************************************)
(* What start_share and stop_share (src/engine.rs) promise those who call  *)
(* them: each call takes effect at once, whatever runs beside it, and      *)
(* returns.  A start leaves its own server in the slot or none.  Desktop   *)
(* relies on this, FileServer implements it.                               *)
(***************************************************************************)
CONSTANTS Calls, NoCall

VARIABLES
  call,    \* per call: what is asked, or what came of it
  server   \* the slot SHARE: the call whose server it holds

vars == <<call, server>>

Init ==
  /\ call = [c \in Calls |-> "none"]
  /\ server = NoCall

Ask(c) ==
  /\ call[c] = "none"
  /\ \E k \in {"start", "stop"} : call' = [call EXCEPT ![c] = k]
  /\ UNCHANGED server

\* The call returns r and leaves s in the slot.
Return(c, r, s) ==
  /\ call' = [call EXCEPT ![c] = r]
  /\ server' = s

Start(c) == call[c] = "start" /\ (Return(c, "ok", c) \/ Return(c, "failed", NoCall))

Stop(c) == call[c] = "stop" /\ Return(c, "ok", NoCall)

Next == \E c \in Calls : Ask(c) \/ Start(c) \/ Stop(c)

Spec == Init /\ [][Next]_vars /\ \A c \in Calls : WF_vars(Start(c) \/ Stop(c))
=============================================================================

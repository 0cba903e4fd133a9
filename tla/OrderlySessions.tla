-------------------------- MODULE OrderlySessions --------------------------
(***************************************************************************)
(* ControlSessions with a history variable that says if all takeovers were *)
(* orderly so far: the conditions under which kick_previous keeps what it  *)
(* promises, until the first step that breaks them.                        *)
(***************************************************************************)
EXTENDS ControlSessions

VARIABLE orderly

\* Two connections of one client are starting at once.
Overlapping ==
  \E j, k \in Conns : j # k /\ Starting(j) /\ Starting(k) /\ OwnerOf[j] = OwnerOf[k]

\* A kick is given up, a session returns without its clean-up, or connections
\* overlap.
Disorder == \/ \E k \in Conns : KickTimeout(k) \/ pc'[k] = "dropped"
            \/ Overlapping'

HInit == Init /\ orderly = TRUE
HNext == Next /\ orderly' = (orderly /\ ~Disorder)
HSpec == HInit /\ [][HNext]_<<vars, orderly>> /\ Fairness

-----------------------------------------------------------------------------
(* Properties.                                                             *)

\* As long as handshakes come one after the other, kicks are waited for and
\* replies are written, a live session is the one the map lists: so it is the
\* only one of its client.
OrderlySessionsListed == orderly => LiveSessionListed

\* Under the same conditions a session never finds its own port occupied by the
\* session it took over from.
OrderlyPortsFree == orderly => TakeoverFindsPortsFree
=============================================================================

------------------------- MODULE PathRouter_proofs -------------------------
(***************************************************************************)
(* The two sides of a connection to the control port mean the same, for    *)
(* any number of pings and of pieces under way, and for a connection that  *)
(* is torn at any point; and the notice of a visitor of the path port does *)
(* not get lost on its way to the client, whatever else the session does.  *)
(*                                                                         *)
(* A frame is read in two steps, so a word that has been said is not yet   *)
(* heard: the invariant says what every word means while it is under way   *)
(* (WordsInv), what it meant to the one who heard it (MeaningInv), and,    *)
(* for somebody the relay is going to turn down, that handshake and answer *)
(* go in lockstep, so that the refusal is the only thing left to read when *)
(* the relay closes the connection (LockInv).  The lemmas about the wire   *)
(* come first; the notice, the visitor, and all together, at the end.      *)
(***************************************************************************)
EXTENDS PathRouter, SequenceTheorems, TLAPS

\* The words of which something is on the way.
Mentions(q) == {q[i].of : i \in 1..Len(q)}

\* One frame is on the way, whole or with its length read; nothing is.
Under(q, head, m) == (q = Frame(m) /\ ~head) \/ (q = Tail(Frame(m)) /\ head)
Idle(q, head) == q = <<>> /\ ~head

\* A babbler's bytes: never a length.
Texts(q) == \A i \in 1..Len(q) : q[i].part = "body"

-----------------------------------------------------------------------------
(* The invariant.                                                          *)

RelaySteps == {"hello", "auth", "loop", "closing", "splice", "ended"}
RelayEndings == {"none", "version", "denied", "timeout", "superseded", "silent",
                 "bye", "length", "lost", "dropped", "piped"}
ClientSteps == {"start", "hello", "auth", "session", "serve", "other", "ended"}
ClientEndings == {"none", "bye", "fatal", "error", "stopped", "served"}

Setups == [peer : Peers, role : {"control", "data"}, port : BOOLEAN]
ClientStates == [step : ClientSteps, head : BOOLEAN, end : ClientEndings,
                 online : BOOLEAN, heard : Nat]
RelayStates == [step : RelaySteps, head : BOOLEAN, end : RelayEndings,
                missed : 0..MaxMissed, granted : BOOLEAN, refused : BOOLEAN]

TypeInv ==
  /\ setup \in Setups /\ client \in ClientStates /\ relay \in RelayStates
  /\ toRelay \in Seq(Pieces) /\ toClient \in Seq(Pieces)
  /\ link \in {"whole", "cut", "dead"} /\ notices \in Nat /\ kicked \in BOOLEAN

EndsInv ==
  /\ relay.end # "none" <=> relay.step \in {"closing", "ended"}
  /\ client.end # "none" <=> client.step = "ended"

TurnedDown == relay.end \in {"version", "denied"}

\* What a word on the way tells of the one who said it.
WordsInv ==
  /\ "AuthErr" \in Mentions(toClient) => TurnedDown
  /\ "BindErr" \in Mentions(toClient) => relay.refused
  /\ "BindOk" \in Mentions(toClient) => relay.granted
  /\ "Bye" \in Mentions(toClient) => relay.end = "superseded"
  /\ "Bye" \in Mentions(toRelay) => client.end = "stopped"
  /\ relay.granted => setup.port
  /\ relay.refused => ~setup.port

\* What it told the one who heard it.
MeaningInv ==
  /\ client.end = "fatal" => TurnedDown \/ relay.refused
  /\ client.online => relay.granted
  /\ client.end = "bye" => relay.end = "superseded"
  /\ relay.end = "bye" => client.end = "stopped"

\* Whom the relay goes on with, and whom it turns down.
RoleInv ==
  /\ relay.step \in {"loop", "splice"} =>
       setup.peer = "right" /\ (relay.step = "loop" <=> setup.role = "control")
  /\ relay.step = "closing" => setup.peer = "right"
  /\ relay.end = "version" => setup.peer = "version"
  /\ relay.end = "denied" => setup.peer # "right"

\* Who says nothing, or nothing that is a frame, is never spoken to.
Mute == setup.peer \in {"silent", "babbler"}
MuteInv ==
  Mute => /\ client.step \in {"other", "ended"}
          /\ relay.step \in {"hello", "ended"} /\ ~relay.head
          /\ ~TurnedDown
          /\ Texts(toRelay)

\* Who will be turned down: he asks, he is asked, he answers, he is told.
Stranger == setup.peer \in {"version", "token", "unknown"}
LockInv ==
  Stranger /\ link = "whole" =>
    /\ client.step = "ended" =>
         client.end \in {"fatal", "stopped"} \/ (relay.step = "ended" /\ ~TurnedDown)
    /\ client.step # "ended" /\ relay.step = "hello" =>
         /\ Idle(toClient, client.head)
         /\ \/ client.step = "start" /\ Idle(toRelay, relay.head)
            \/ client.step = "hello" /\ Under(toRelay, relay.head, "Hello")
    /\ client.step # "ended" /\ relay.step = "auth" =>
         \/ /\ client.step = "hello" /\ Idle(toRelay, relay.head)
            /\ Under(toClient, client.head, "Challenge")
         \/ /\ client.step = "auth" /\ Idle(toClient, client.head)
            /\ Under(toRelay, relay.head, "Auth")
    /\ client.step # "ended" /\ TurnedDown =>
         /\ client.step \in {"hello", "auth"} /\ toRelay = <<>>
         /\ Under(toClient, client.head, "AuthErr")

Meant == EndsInv /\ WordsInv /\ MeaningInv /\ RoleInv
WireInv == TypeInv /\ Meant /\ MuteInv /\ LockInv

-----------------------------------------------------------------------------
(* Frames: what is on the way after one is written, read or lost.          *)

LEMMA FrameIsTwoPieces ==
  ASSUME NEW m \in Messages
  PROVE  /\ Frame(m) \in Seq(Pieces) /\ Len(Frame(m)) = 2
         /\ Frame(m)[1].part = "head" /\ Frame(m)[1].of = m
         /\ Frame(m)[2].part = "body" /\ Frame(m)[2].of = m
<1>1. [part |-> "head", of |-> m] \in Pieces /\ [part |-> "body", of |-> m] \in Pieces
  BY DEF Pieces
<1>. QED  BY <1>1 DEF Frame

LEMMA WrittenMentions ==
  ASSUME NEW q \in Seq(Pieces), NEW m \in Messages
  PROVE  /\ Written(q, m) \in Seq(Pieces)
         /\ Mentions(Written(q, m)) \subseteq Mentions(q) \cup {m}
<1>1. CASE link = "whole"
  <2> DEFINE f == Frame(m)
  <2>1. Written(q, m) = q \o f  BY <1>1 DEF Written
  <2>2. f \in Seq(Pieces) /\ Len(f) = 2 /\ f[1].of = m /\ f[2].of = m
    BY FrameIsTwoPieces
  <2> HIDE DEF f
  <2>3. /\ q \o f \in Seq(Pieces)
        /\ Len(q \o f) = Len(q) + Len(f)
        /\ \A i \in 1..Len(q) + Len(f) :
             (q \o f)[i] = IF i <= Len(q) THEN q[i] ELSE f[i - Len(q)]
    BY <2>2, ConcatProperties
  <2>4. Len(q) \in Nat  BY LenProperties
  <2>5. ASSUME NEW i \in 1..Len(q \o f)
        PROVE  (q \o f)[i].of \in Mentions(q) \cup {m}
    <3>1. CASE i <= Len(q)
      <4>1. i \in 1..Len(q) /\ (q \o f)[i] = q[i]  BY <3>1, <2>2, <2>3, <2>4
      <4>. QED  BY <4>1 DEF Mentions
    <3>2. CASE ~(i <= Len(q))
      <4>1. (q \o f)[i] = f[i - Len(q)]  BY <3>2, <2>2, <2>3, <2>4
      <4>2. i - Len(q) = 1 \/ i - Len(q) = 2  BY <3>2, <2>2, <2>3, <2>4
      <4>. QED  BY <4>1, <4>2, <2>2
    <3>. QED  BY <3>1, <3>2
  <2>. QED  BY <2>1, <2>3, <2>5 DEF Mentions
<1>2. CASE link # "whole"  BY <1>2 DEF Written
<1>. QED  BY <1>1, <1>2

LEMMA ReadMentions ==
  ASSUME NEW q \in Seq(Pieces), q # <<>>
  PROVE  /\ Tail(q) \in Seq(Pieces)
         /\ Mentions(Tail(q)) \subseteq Mentions(q)
         /\ Head(q).of \in Mentions(q) /\ Head(q).of \in Messages
         /\ Texts(q) => Texts(Tail(q)) /\ Head(q).part = "body"
<1>1. Len(q) \in Nat \ {0}  BY EmptySeq
<1>2. /\ Head(q) \in Pieces /\ Tail(q) \in Seq(Pieces) /\ Len(Tail(q)) = Len(q) - 1
      /\ \A i \in 1..Len(Tail(q)) : Tail(q)[i] = q[i + 1]
  BY HeadTailProperties
<1>3. \A i \in 1..Len(Tail(q)) : i + 1 \in 1..Len(q)  BY <1>1, <1>2
<1>4. Head(q) = q[1] /\ 1 \in 1..Len(q)  BY <1>1
<1>5. Head(q).of \in Messages  BY <1>2 DEF Pieces
<1>. QED  BY <1>2, <1>3, <1>4, <1>5 DEF Mentions, Texts

LEMMA PrefixMentions ==
  ASSUME NEW q \in Seq(Pieces), NEW p \in Prefixes(q)
  PROVE  /\ p \in Seq(Pieces)
         /\ Mentions(p) \subseteq Mentions(q)
         /\ Texts(q) => Texts(p)
         /\ p # q => q # <<>>
         /\ Len(p) =< Len(q) /\ \A i \in 1..Len(p) : p[i] = q[i]
<1>1. Len(q) \in Nat /\ \A i \in 1..Len(q) : q[i] \in Pieces  BY ElementOfSeq, LenProperties
<1>2. PICK l \in 0..Len(q) : p = SubSeq(q, 1, l)  BY DEF Prefixes
<1>3. l \in Nat /\ l =< Len(q)  BY <1>1, <1>2
<1>4. \A i \in 1..l : q[i] \in Pieces  BY <1>1, <1>3
<1>5. /\ p \in Seq(Pieces) /\ Len(p) = IF 1 <= l THEN l - 1 + 1 ELSE 0
      /\ \A i \in 1..l - 1 + 1 : p[i] = q[1 + i - 1]
  BY <1>2, <1>3, <1>4, SubSeqProperties
<1>6. Len(p) = l /\ \A i \in 1..l : i \in 1..Len(q) /\ p[i] = q[i]
  <2>1. Len(p) = l  BY <1>5, <1>3
  <2>2. \A i \in 1..l : i \in 1..Len(q) /\ i \in 1..l - 1 + 1 /\ 1 + i - 1 = i
    BY <1>1, <1>3
  <2>. QED  BY <2>1, <2>2, <1>5
<1>7. p # q => q # <<>>
  <2> SUFFICES ASSUME q = <<>> PROVE p = <<>>  OBVIOUS
  <2>1. l = 0  BY <1>3
  <2>. QED  BY <2>1, <1>2, SubSeqEmpty
<1>. QED  BY <1>3, <1>5, <1>6, <1>7 DEF Mentions, Texts

LEMMA FrameIsRead ==
  ASSUME NEW q, NEW head \in BOOLEAN, NEW m \in Messages, Under(q, head, m)
  PROVE  /\ q \in Seq(Pieces) /\ q # <<>>
         /\ ~head => Head(q).part = "head" /\ Under(Tail(q), TRUE, m)
         /\ head  => Head(q) = [part |-> "body", of |-> m] /\ Tail(q) = <<>>
<1>1. CASE q = Frame(m) /\ ~head
  BY <1>1, FrameIsTwoPieces DEF Under, Frame
<1>2. CASE q = Tail(Frame(m)) /\ head
  <2> DEFINE text == [part |-> "body", of |-> m]
  <2>1. q = <<text>>  BY <1>2 DEF Frame
  <2>2. text \in Pieces  BY DEF Pieces
  <2> HIDE DEF text
  <2>3. q \in Seq(Pieces) /\ q # <<>> /\ Head(q) = text /\ Tail(q) = <<>>
    BY <2>1, <2>2
  <2>. QED  BY <1>2, <2>3 DEF text
<1>. QED  BY <1>1, <1>2 DEF Under

LEMMA FrameIsWritten ==
  ASSUME NEW m \in Messages, link = "whole"
  PROVE  Under(Written(<<>>, m), FALSE, m)
BY FrameIsTwoPieces, ConcatEmptySeq DEF Under, Written

-----------------------------------------------------------------------------
(* What the operators on the records of the two sides leave alone.         *)

LEMMA RelayStopping ==
  ASSUME TypeInv, NEW step \in RelaySteps, NEW why \in RelayEndings,
         relay' = [relay EXCEPT !.step = step, !.end = why, !.head = FALSE]
  PROVE  /\ relay' \in RelayStates
         /\ relay'.step = step /\ relay'.end = why /\ relay'.head = FALSE
         /\ relay'.granted = relay.granted /\ relay'.refused = relay.refused
<1> DEFINE u == [relay EXCEPT !.step = step]
           v == [u EXCEPT !.end = why]
           w == [v EXCEPT !.head = FALSE]
<1>1. u \in RelayStates /\ u.step = step
      /\ u.granted = relay.granted /\ u.refused = relay.refused
  BY DEF TypeInv, RelayStates
<1>2. v \in RelayStates /\ v.step = step /\ v.end = why
      /\ v.granted = relay.granted /\ v.refused = relay.refused
  <2> HIDE DEF u
  <2>. QED  BY <1>1 DEF RelayStates
<1>3. w \in RelayStates /\ w.step = step /\ w.end = why /\ w.head = FALSE
      /\ w.granted = relay.granted /\ w.refused = relay.refused
  <2> HIDE DEF v
  <2>. QED  BY <1>2 DEF RelayStates
<1>4. relay' = w  OBVIOUS
<1> HIDE DEF w
<1>. QED  BY <1>3, <1>4

\* After its loop a session is cleaned up before it has ended.
LEMMA RelayEnding ==
  ASSUME TypeInv, NEW why \in RelayEndings, RelayEnds(why)
  PROVE  /\ relay' \in RelayStates
         /\ relay'.step = IF relay.step = "loop" THEN "closing" ELSE "ended"
         /\ relay'.end = why /\ relay'.head = FALSE
         /\ relay'.granted = relay.granted /\ relay'.refused = relay.refused
<1> DEFINE step == IF relay.step = "loop" THEN "closing" ELSE "ended"
<1>1. relay' = [relay EXCEPT !.step = step, !.end = why, !.head = FALSE]
  BY DEF RelayEnds, TypeInv, RelayStates
<1>2. step \in RelaySteps  BY DEF RelaySteps
<1> HIDE DEF step
<1>3. /\ relay' \in RelayStates
      /\ relay'.step = step /\ relay'.end = why /\ relay'.head = FALSE
      /\ relay'.granted = relay.granted /\ relay'.refused = relay.refused
  BY <1>1, <1>2, RelayStopping
<1>. QED  BY <1>3 DEF step

LEMMA Proceeding ==
  ASSUME TypeInv, NEW step \in RelaySteps, Proceed(step)
  PROVE  /\ relay' \in RelayStates
         /\ relay'.step = step /\ relay'.end = relay.end /\ relay'.head = FALSE
         /\ relay'.granted = relay.granted /\ relay'.refused = relay.refused
<1> DEFINE u == [relay EXCEPT !.step = step]
           w == [u EXCEPT !.head = FALSE]
<1>1. u \in RelayStates /\ u.step = step /\ u.end = relay.end
      /\ u.granted = relay.granted /\ u.refused = relay.refused
  BY DEF TypeInv, RelayStates
<1>2. w \in RelayStates /\ w.step = step /\ w.end = relay.end /\ w.head = FALSE
      /\ w.granted = relay.granted /\ w.refused = relay.refused
  <2> HIDE DEF u
  <2>. QED  BY <1>1 DEF RelayStates
<1>3. relay' = w  BY DEF Proceed
<1> HIDE DEF w
<1>. QED  BY <1>2, <1>3

\* The pings that are unanswered, counted up or started again.
LEMMA Counting ==
  ASSUME TypeInv, NEW n \in 0..MaxMissed,
         relay' = [relay EXCEPT !.missed = n, !.head = FALSE]
  PROVE  /\ relay' \in RelayStates
         /\ relay'.step = relay.step /\ relay'.end = relay.end /\ relay'.head = FALSE
         /\ relay'.granted = relay.granted /\ relay'.refused = relay.refused
<1> DEFINE u == [relay EXCEPT !.missed = n]
           w == [u EXCEPT !.head = FALSE]
<1>1. u \in RelayStates /\ u.step = relay.step /\ u.end = relay.end
      /\ u.granted = relay.granted /\ u.refused = relay.refused
  BY DEF TypeInv, RelayStates
<1>2. w \in RelayStates /\ w.step = relay.step /\ w.end = relay.end /\ w.head = FALSE
      /\ w.granted = relay.granted /\ w.refused = relay.refused
  <2> HIDE DEF u
  <2>. QED  BY <1>1 DEF RelayStates
<1>3. relay' = w  OBVIOUS
<1> HIDE DEF w
<1>. QED  BY <1>2, <1>3

LEMMA Granting ==
  ASSUME TypeInv,
         relay' = [relay EXCEPT !.head = FALSE, !.granted = setup.port,
                                !.refused = ~setup.port]
  PROVE  /\ relay' \in RelayStates
         /\ relay'.step = relay.step /\ relay'.end = relay.end /\ relay'.head = FALSE
         /\ relay'.granted = setup.port /\ relay'.refused = ~setup.port
<1> DEFINE u == [relay EXCEPT !.head = FALSE]
           v == [u EXCEPT !.granted = setup.port]
           w == [v EXCEPT !.refused = ~setup.port]
<1>. setup.port \in BOOLEAN  BY DEF TypeInv, Setups
<1>1. u \in RelayStates /\ u.step = relay.step /\ u.end = relay.end /\ u.head = FALSE
  BY DEF TypeInv, RelayStates
<1>2. v \in RelayStates /\ v.step = relay.step /\ v.end = relay.end /\ v.head = FALSE
      /\ v.granted = setup.port
  <2> HIDE DEF u
  <2>. QED  BY <1>1 DEF RelayStates
<1>3. w \in RelayStates /\ w.step = relay.step /\ w.end = relay.end /\ w.head = FALSE
      /\ w.granted = setup.port /\ w.refused = ~setup.port
  <2> HIDE DEF v
  <2>. QED  BY <1>2 DEF RelayStates
<1>4. relay' = w  OBVIOUS
<1> HIDE DEF w
<1>. QED  BY <1>3, <1>4

LEMMA ClientEnding ==
  ASSUME TypeInv, NEW why \in ClientEndings, ClientEnds(why)
  PROVE  /\ client' \in ClientStates
         /\ client'.step = "ended" /\ client'.end = why /\ client'.head = FALSE
         /\ client'.online = client.online /\ client'.heard = client.heard
<1> DEFINE u == [client EXCEPT !.step = "ended"]
           v == [u EXCEPT !.end = why]
           w == [v EXCEPT !.head = FALSE]
<1>1. u \in ClientStates /\ u.step = "ended"
      /\ u.online = client.online /\ u.heard = client.heard
  BY DEF TypeInv, ClientStates, ClientSteps
<1>2. v \in ClientStates /\ v.step = "ended" /\ v.end = why
      /\ v.online = client.online /\ v.heard = client.heard
  <2> HIDE DEF u
  <2>. QED  BY <1>1 DEF ClientStates
<1>3. w \in ClientStates /\ w.step = "ended" /\ w.end = why /\ w.head = FALSE
      /\ w.online = client.online /\ w.heard = client.heard
  <2> HIDE DEF v
  <2>. QED  BY <1>2 DEF ClientStates
<1>4. client' = w  BY DEF ClientEnds
<1> HIDE DEF w
<1>. QED  BY <1>3, <1>4

LEMMA Carrying ==
  ASSUME TypeInv, NEW step \in ClientSteps, Carry(step)
  PROVE  /\ client' \in ClientStates
         /\ client'.step = step /\ client'.end = client.end /\ client'.head = FALSE
         /\ client'.online = client.online /\ client'.heard = client.heard
<1> DEFINE u == [client EXCEPT !.step = step]
           w == [u EXCEPT !.head = FALSE]
<1>1. u \in ClientStates /\ u.step = step /\ u.end = client.end
      /\ u.online = client.online /\ u.heard = client.heard
  BY DEF TypeInv, ClientStates
<1>2. w \in ClientStates /\ w.step = step /\ w.end = client.end /\ w.head = FALSE
      /\ w.online = client.online /\ w.heard = client.heard
  <2> HIDE DEF u
  <2>. QED  BY <1>1 DEF ClientStates
<1>3. client' = w  BY DEF Carry
<1> HIDE DEF w
<1>. QED  BY <1>2, <1>3

\* The client goes Online, or hears of a visitor.
LEMMA Learning ==
  ASSUME TypeInv, NEW up \in BOOLEAN, NEW n \in Nat,
         \/ up /\ n = client.heard /\ client' = [client EXCEPT !.online = TRUE, !.head = FALSE]
         \/ up = client.online /\ client' = [client EXCEPT !.heard = n, !.head = FALSE]
  PROVE  /\ client' \in ClientStates
         /\ client'.step = client.step /\ client'.end = client.end /\ client'.head = FALSE
         /\ client'.online = up /\ client'.heard = n
<1> DEFINE u == [client EXCEPT !.online = up]
           v == [u EXCEPT !.heard = n]
           w == [v EXCEPT !.head = FALSE]
<1>1. u \in ClientStates /\ u.step = client.step /\ u.end = client.end /\ u.online = up
      /\ u.heard = client.heard
  BY DEF TypeInv, ClientStates
<1>2. v \in ClientStates /\ v.step = client.step /\ v.end = client.end /\ v.online = up
      /\ v.heard = n
  <2> HIDE DEF u
  <2>. QED  BY <1>1 DEF ClientStates
<1>3. w \in ClientStates /\ w.step = client.step /\ w.end = client.end /\ w.online = up
      /\ w.heard = n /\ w.head = FALSE
  <2> HIDE DEF v
  <2>. QED  BY <1>2 DEF ClientStates
<1>4. client' = w  
  BY DEF TypeInv, ClientStates
<1> HIDE DEF w
<1>. QED  BY <1>3, <1>4

\* A side says a word: at most that word is new on its way.
LEMMA RelaySaying ==
  ASSUME TypeInv, NEW m \in Messages, RelaySays(m)
  PROVE  /\ toClient' \in Seq(Pieces)
         /\ Mentions(toClient') \subseteq Mentions(toClient) \cup {m}
         /\ link = "whole" /\ toClient = <<>> => Under(toClient', FALSE, m)
<1>1. toClient' = Written(toClient, m) /\ toClient \in Seq(Pieces)
  BY DEF RelaySays, TypeInv
<1>. QED  BY <1>1, WrittenMentions, FrameIsWritten

LEMMA ClientSaying ==
  ASSUME TypeInv, NEW m \in Messages, ClientSays(m)
  PROVE  /\ toRelay' \in Seq(Pieces)
         /\ Mentions(toRelay') \subseteq Mentions(toRelay) \cup {m}
         /\ link = "whole" /\ toRelay = <<>> => Under(toRelay', FALSE, m)
<1>1. toRelay' = Written(toRelay, m) /\ toRelay \in Seq(Pieces)
  BY DEF ClientSays, TypeInv
<1>. QED  BY <1>1, WrittenMentions, FrameIsWritten

\* The relay reads the text of a frame; if it is the one frame under way,
\* nothing is left.
LEMMA RelayHearing ==
  ASSUME TypeInv, NEW m \in Messages, RelayHears(m)
  PROVE  /\ toRelay' \in Seq(Pieces) /\ relay.head /\ toRelay # <<>>
         /\ Mentions(toRelay') \subseteq Mentions(toRelay) /\ m \in Mentions(toRelay)
         /\ Texts(toRelay) => Texts(toRelay')
         /\ UNCHANGED <<client, setup, link, notices, kicked>>
         /\ \A w \in Messages : Under(toRelay, relay.head, w) => w = m /\ toRelay' = <<>>
<1>1. /\ relay.head = TRUE /\ toRelay # <<>> /\ Head(toRelay).of = m /\ toRelay' = Tail(toRelay)
      /\ UNCHANGED <<client, setup, link, notices, kicked>> /\ toRelay \in Seq(Pieces)
  BY DEF RelayHears, Arrived, Rest, TypeInv, RelayStates
<1>2. ASSUME NEW w \in Messages, Under(toRelay, relay.head, w)
      PROVE  w = m /\ toRelay' = <<>>
  <2>1. Head(toRelay) = [part |-> "body", of |-> w] /\ Tail(toRelay) = <<>>
    BY <1>1, <1>2, FrameIsRead
  <2>. QED  BY <1>1, <2>1
<1>. QED  BY <1>1, <1>2, ReadMentions

LEMMA ClientHearing ==
  ASSUME TypeInv, ClientHears
  PROVE  /\ toClient' \in Seq(Pieces) /\ client.head /\ toClient # <<>>
         /\ Mentions(toClient') \subseteq Mentions(toClient)
         /\ Head(toClient).of \in Mentions(toClient) /\ Head(toClient).of \in Messages
         /\ Reading /\ UNCHANGED <<relay, setup, link, notices, kicked>>
         /\ \A w \in Messages : Under(toClient, client.head, w) =>
              w = Head(toClient).of /\ toClient' = <<>>
<1>1. /\ client.head = TRUE /\ toClient # <<>> /\ toClient' = Tail(toClient) /\ Reading
      /\ UNCHANGED <<relay, setup, link, notices, kicked>> /\ toClient \in Seq(Pieces)
  BY DEF ClientHears, Arrived, Rest, TypeInv, ClientStates
<1>2. ASSUME NEW w \in Messages, Under(toClient, client.head, w)
      PROVE  w = Head(toClient).of /\ toClient' = <<>>
  <2>1. Head(toClient) = [part |-> "body", of |-> w] /\ Tail(toClient) = <<>>
    BY <1>1, <1>2, FrameIsRead
  <2>. QED  BY <1>1, <2>1
<1>. QED  BY <1>1, <1>2, ReadMentions

-----------------------------------------------------------------------------
\* Every connection begins with nothing said but a babbler's first bytes.
LEMMA WireStart == WireInit => WireInv
<1> SUFFICES ASSUME WireInit PROVE WireInv  OBVIOUS
<1>1. setup \in Setups  BY DEF WireInit, Setups
<1>2. /\ relay = [step |-> "hello", head |-> FALSE, end |-> "none", missed |-> 0,
                  granted |-> FALSE, refused |-> FALSE]
      /\ toClient = <<>> /\ link = "whole" /\ notices = 0 /\ kicked = FALSE
  BY DEF WireInit
<1>3. client \in ClientStates /\ client.head = FALSE /\ client.end = "none"
      /\ client.online = FALSE /\ client.step = IF Mute THEN "other" ELSE "start"
  BY DEF WireInit, ClientStates, ClientSteps, ClientEndings, Mute
<1>4. relay \in RelayStates /\ relay.step = "hello" /\ relay.end = "none" /\ relay.head = FALSE
      /\ relay.granted = FALSE /\ relay.refused = FALSE
  BY <1>2, WireAssumption DEF RelayStates, RelaySteps, RelayEndings
<1>5. /\ toRelay \in Seq(Pieces) /\ Texts(toRelay) /\ "Bye" \notin Mentions(toRelay)
      /\ setup.peer # "babbler" => toRelay = <<>>
  <2>1. CASE setup.peer = "babbler"
    <3> DEFINE text == [part |-> "body", of |-> "Hello"]
    <3>1. toRelay = <<text>>  BY <2>1 DEF WireInit
    <3>2. text \in Pieces /\ text.part = "body" /\ text.of = "Hello"  BY DEF Pieces, Messages
    <3> HIDE DEF text
    <3>. QED  BY <2>1, <3>1, <3>2 DEF Texts, Mentions
  <2>2. CASE setup.peer # "babbler"
    <3>1. toRelay = <<>>  BY <2>2 DEF WireInit
    <3>. QED  BY <2>2, <3>1 DEF Texts, Mentions
  <2>. QED  BY <2>1, <2>2
<1>6. toClient \in Seq(Pieces) /\ \A m : m \notin Mentions(toClient)
  BY <1>2 DEF Mentions
<1>7. TypeInv  BY <1>1, <1>2, <1>3, <1>4, <1>5, <1>6 DEF TypeInv
<1>8. Meant
  BY <1>3, <1>4, <1>5, <1>6
  DEF Meant, EndsInv, WordsInv, MeaningInv, RoleInv, TurnedDown
<1>9. MuteInv  BY <1>3, <1>4, <1>5 DEF MuteInv, TurnedDown
<1>10. LockInv
  BY <1>2, <1>3, <1>4, <1>5 DEF LockInv, Stranger, Idle, Mute, TurnedDown
<1>. QED  BY <1>7, <1>8, <1>9, <1>10 DEF WireInv


\* The ways the relay ends a connection without a word.
LEMMA RelayGoesSilently ==
  ASSUME WireInv, NEW why \in {"length", "timeout", "lost", "silent", "piped"},
         relay.step \notin {"closing", "ended"}, RelayEnds(why),
         UNCHANGED <<client, pieces>>, Rest
  PROVE  WireInv'
<1>1. /\ relay' \in RelayStates
      /\ relay'.step = IF relay.step = "loop" THEN "closing" ELSE "ended"
      /\ relay'.end = why /\ relay'.head = FALSE
      /\ relay'.granted = relay.granted /\ relay'.refused = relay.refused
  BY RelayEnding DEF WireInv, RelayEndings
<1>2. UNCHANGED <<setup, client, toRelay, toClient, link, notices, kicked>>  BY DEF pieces, Rest
<1>3. TypeInv'  BY <1>1, <1>2 DEF WireInv, TypeInv
<1>4. Meant'
  BY <1>1, <1>2 DEF WireInv, Meant, EndsInv, WordsInv, MeaningInv, RoleInv, TurnedDown
<1>5. MuteInv'  BY <1>1, <1>2 DEF WireInv, MuteInv, Mute, TurnedDown
<1>6. LockInv'
  BY <1>1, <1>2 DEF WireInv, Meant, RoleInv, LockInv, Stranger, TurnedDown
<1>. QED  BY <1>3, <1>4, <1>5, <1>6 DEF WireInv

\* A length is read: what is under way stays under way.
LEMMA RelayReadsLength == ASSUME WireInv, RelayTakesHead PROVE WireInv'
<1>. USE DEF WireInv
<1>1. /\ relay' \in RelayStates /\ relay'.step = relay.step /\ relay'.end = relay.end
      /\ relay'.head = TRUE /\ relay.head = FALSE
      /\ relay'.granted = relay.granted /\ relay'.refused = relay.refused
  BY DEF RelayTakesHead, TypeInv, RelayStates
<1>2. /\ UNCHANGED <<setup, client, toClient, link, notices, kicked>>
      /\ toRelay \in Seq(Pieces) /\ toRelay # <<>> /\ toRelay' = Tail(toRelay)
      /\ Head(toRelay).part = "head" /\ relay.step \in {"hello", "auth", "loop"}
  BY DEF RelayTakesHead, Arrived, Shaking, Rest, TypeInv
<1>3. /\ toRelay' \in Seq(Pieces) /\ Mentions(toRelay') \subseteq Mentions(toRelay)
      /\ ~Texts(toRelay)
  BY <1>2, ReadMentions
<1>4. \A m \in Messages : Under(toRelay, relay.head, m) => Under(toRelay', relay'.head, m)
  BY <1>1, <1>2, FrameIsRead
<1>5. TypeInv'  BY <1>1, <1>2, <1>3 DEF TypeInv
<1>6. Meant'
  BY <1>1, <1>2, <1>3 DEF Meant, EndsInv, WordsInv, MeaningInv, RoleInv, TurnedDown
<1>7. MuteInv'  BY <1>1, <1>2, <1>3 DEF MuteInv, Mute, TurnedDown
<1>8. LockInv'
  BY <1>1, <1>2, <1>4 DEF LockInv, Stranger, TurnedDown, Idle, Messages, Meant, RoleInv
<1>. QED  BY <1>5, <1>6, <1>7, <1>8

\* Hello is answered by a challenge, or by AuthErr to another version.
LEMMA RelayIsGreeted == ASSUME WireInv, RelayGreeted PROVE WireInv'
<1>. USE DEF WireInv
<1>1. RelayHears("Hello") /\ relay.step = "hello"  BY DEF RelayGreeted
<1>2. /\ toRelay' \in Seq(Pieces) /\ relay.head
      /\ Mentions(toRelay') \subseteq Mentions(toRelay)
      /\ UNCHANGED <<client, setup, link, notices, kicked>>
      /\ \A w \in Messages : Under(toRelay, relay.head, w) => w = "Hello" /\ toRelay' = <<>>
  BY <1>1, RelayHearing DEF Messages
<1>3. ~Mute  BY <1>2 DEF MuteInv
<1>4. CASE setup.peer = "version"
  <2>1. Refuse("version")  BY <1>4 DEF RelayGreeted
  <2>2. /\ relay' \in RelayStates /\ relay'.step = "ended" /\ relay'.end = "version"
        /\ relay'.head = FALSE
        /\ relay'.granted = relay.granted /\ relay'.refused = relay.refused
    BY <1>1, <2>1, RelayEnding DEF Refuse, RelayEndings
  <2>3. /\ toClient' \in Seq(Pieces)
        /\ Mentions(toClient') \subseteq Mentions(toClient) \cup {"AuthErr"}
        /\ link = "whole" /\ toClient = <<>> => Under(toClient', FALSE, "AuthErr")
    BY <2>1, RelaySaying DEF Refuse, Messages
  <2>4. TypeInv'  BY <1>2, <2>2, <2>3 DEF TypeInv
  <2>5. Meant'
    BY <1>1, <1>2, <1>4, <2>2, <2>3
    DEF Meant, EndsInv, WordsInv, MeaningInv, RoleInv, TurnedDown
  <2>6. MuteInv'  BY <1>2, <1>3 DEF MuteInv, Mute
  <2>7. LockInv'
    <3>1. ASSUME Stranger, link = "whole", client.step # "ended"
          PROVE  toRelay' = <<>> /\ toClient = <<>> /\ client.head = FALSE
                 /\ client.step = "hello"
      BY <1>1, <1>2, <3>1 DEF LockInv, Idle, Messages, TypeInv, ClientStates
    <3>2. ASSUME Stranger, link = "whole", client.step = "ended"
          PROVE  client.end \in {"fatal", "stopped"}
      BY <1>1, <3>2 DEF LockInv
    <3>. QED
      BY <1>2, <2>2, <2>3, <3>1, <3>2
      DEF LockInv, Stranger, TurnedDown, Idle
  <2>. QED  BY <2>4, <2>5, <2>6, <2>7
<1>5. CASE setup.peer # "version"
  <2>1. Proceed("auth") /\ RelaySays("Challenge")  BY <1>5 DEF RelayGreeted
  <2>2. /\ relay' \in RelayStates /\ relay'.step = "auth" /\ relay'.end = relay.end
        /\ relay'.head = FALSE
        /\ relay'.granted = relay.granted /\ relay'.refused = relay.refused
    BY <2>1, Proceeding DEF RelaySteps
  <2>3. /\ toClient' \in Seq(Pieces)
        /\ Mentions(toClient') \subseteq Mentions(toClient) \cup {"Challenge"}
        /\ link = "whole" /\ toClient = <<>> => Under(toClient', FALSE, "Challenge")
    BY <2>1, RelaySaying DEF Messages
  <2>4. TypeInv'  BY <1>2, <2>2, <2>3 DEF TypeInv
  <2>5. Meant'
    BY <1>1, <1>2, <2>2, <2>3
    DEF Meant, EndsInv, WordsInv, MeaningInv, RoleInv, TurnedDown
  <2>6. MuteInv'  BY <1>2, <1>3 DEF MuteInv, Mute
  <2>7. LockInv'
    <3>1. ASSUME Stranger, link = "whole", client.step # "ended"
          PROVE  toRelay' = <<>> /\ toClient = <<>> /\ client.head = FALSE
                 /\ client.step = "hello"
      BY <1>1, <1>2, <3>1 DEF LockInv, Idle, Messages, TypeInv, ClientStates
    <3>2. ASSUME Stranger, link = "whole", client.step = "ended"
          PROVE  client.end \in {"fatal", "stopped"}
      BY <1>1, <3>2 DEF LockInv
    <3>3. relay.end = "none"  BY <1>1 DEF Meant, EndsInv
    <3>. QED
      BY <1>2, <2>2, <2>3, <3>1, <3>2, <3>3
      DEF LockInv, Stranger, TurnedDown, Idle
  <2>. QED  BY <2>4, <2>5, <2>6, <2>7
<1>. QED  BY <1>4, <1>5

\* Auth is answered by AuthOk, or by AuthErr to who has the wrong token.
LEMMA RelayIsAnswered == ASSUME WireInv, RelayAuthenticates PROVE WireInv'
<1>. USE DEF WireInv
<1>1. RelayHears("Auth") /\ relay.step = "auth"  BY DEF RelayAuthenticates
<1>2. /\ toRelay' \in Seq(Pieces) /\ relay.head
      /\ Mentions(toRelay') \subseteq Mentions(toRelay)
      /\ UNCHANGED <<client, setup, link, notices, kicked>>
      /\ \A w \in Messages : Under(toRelay, relay.head, w) => w = "Auth" /\ toRelay' = <<>>
  BY <1>1, RelayHearing DEF Messages
<1>3. ~Mute  BY <1>2 DEF MuteInv
<1>4. CASE Verified
  <2> DEFINE next == IF setup.role = "control" THEN "loop" ELSE "splice"
  <2>1. Proceed(next) /\ RelaySays("AuthOk")  BY <1>4 DEF RelayAuthenticates
  <2>2. /\ relay' \in RelayStates /\ relay'.step = next /\ relay'.end = relay.end
        /\ relay'.head = FALSE
        /\ relay'.granted = relay.granted /\ relay'.refused = relay.refused
    BY <2>1, Proceeding DEF RelaySteps
  <2>3. /\ toClient' \in Seq(Pieces)
        /\ Mentions(toClient') \subseteq Mentions(toClient) \cup {"AuthOk"}
    BY <2>1, RelaySaying DEF Messages
  <2>4. TypeInv'  BY <1>2, <2>2, <2>3 DEF TypeInv
  <2>5. Meant'
    BY <1>1, <1>2, <1>4, <2>2, <2>3
    DEF Meant, EndsInv, WordsInv, MeaningInv, RoleInv, TurnedDown, Verified
  <2>6. MuteInv'  BY <1>2, <1>3 DEF MuteInv, Mute
  <2>7. LockInv'  BY <1>2, <1>4 DEF LockInv, Stranger, Verified
  <2>. QED  BY <2>4, <2>5, <2>6, <2>7
<1>5. CASE ~Verified
  <2>1. Refuse("denied")  BY <1>5 DEF RelayAuthenticates
  <2>2. /\ relay' \in RelayStates /\ relay'.step = "ended" /\ relay'.end = "denied"
        /\ relay'.head = FALSE
        /\ relay'.granted = relay.granted /\ relay'.refused = relay.refused
    BY <1>1, <2>1, RelayEnding DEF Refuse, RelayEndings
  <2>3. /\ toClient' \in Seq(Pieces)
        /\ Mentions(toClient') \subseteq Mentions(toClient) \cup {"AuthErr"}
        /\ link = "whole" /\ toClient = <<>> => Under(toClient', FALSE, "AuthErr")
    BY <2>1, RelaySaying DEF Refuse, Messages
  <2>4. TypeInv'  BY <1>2, <2>2, <2>3 DEF TypeInv
  <2>5. Meant'
    BY <1>1, <1>2, <1>5, <2>2, <2>3
    DEF Meant, EndsInv, WordsInv, MeaningInv, RoleInv, TurnedDown, Verified
  <2>6. MuteInv'  BY <1>2, <1>3 DEF MuteInv, Mute
  <2>7. LockInv'
    <3>1. ASSUME Stranger, link = "whole", client.step # "ended"
          PROVE  toRelay' = <<>> /\ toClient = <<>> /\ client.head = FALSE
                 /\ client.step = "auth"
      BY <1>1, <1>2, <3>1 DEF LockInv, Idle, Messages, TypeInv, ClientStates
    <3>2. ASSUME Stranger, link = "whole", client.step = "ended"
          PROVE  client.end \in {"fatal", "stopped"}
      BY <1>1, <3>2 DEF LockInv
    <3>. QED
      BY <1>2, <2>2, <2>3, <3>1, <3>2
      DEF LockInv, Stranger, TurnedDown, Idle
  <2>. QED  BY <2>4, <2>5, <2>6, <2>7
<1>. QED  BY <1>4, <1>5


\* In a control session there is no stranger: what is left to show
\* of a step there is that the words keep their meaning.
LEMMA InTheLoop ==
  ASSUME WireInv, relay.step \in {"loop", "closing"}, setup' = setup, TypeInv', Meant'
  PROVE  WireInv'
<1>1. setup.peer = "right"  BY DEF WireInv, Meant, RoleInv
<1>2. MuteInv' /\ LockInv'  BY <1>1 DEF MuteInv, Mute, LockInv, Stranger
<1>. QED  BY <1>2 DEF WireInv

LEMMA SessionIsSuperseded == ASSUME WireInv, Superseded PROVE WireInv'
<1>. USE DEF WireInv
<1>1. /\ relay' \in RelayStates /\ relay'.step = "closing" /\ relay'.end = "superseded"
      /\ relay'.granted = relay.granted /\ relay'.refused = relay.refused
  BY RelayEnding DEF Superseded, RelayEndings
<1>2. /\ toClient' \in Seq(Pieces)
      /\ Mentions(toClient') \subseteq Mentions(toClient) \cup {"Bye"}
  BY RelaySaying DEF Superseded, Messages
<1>3. UNCHANGED <<setup, client, toRelay, link, notices, kicked>> /\ relay.step = "loop"
  BY DEF Superseded, Rest
<1>4. TypeInv'  BY <1>1, <1>2, <1>3 DEF TypeInv
<1>5. Meant'
  BY <1>1, <1>2, <1>3 DEF Meant, EndsInv, WordsInv, MeaningInv, RoleInv, TurnedDown
<1>. QED  BY <1>3, <1>4, <1>5, InTheLoop

LEMMA NoticeIsForwarded == ASSUME WireInv, ForwardNotice PROVE WireInv'
<1>. USE DEF WireInv
<1>1. /\ relay' \in RelayStates /\ relay'.step = relay.step /\ relay'.end = relay.end
      /\ relay'.granted = relay.granted /\ relay'.refused = relay.refused
  BY DEF ForwardNotice, TypeInv, RelayStates
<1>2. /\ toClient' \in Seq(Pieces)
      /\ Mentions(toClient') \subseteq Mentions(toClient) \cup {"NewConn"}
  BY RelaySaying DEF ForwardNotice, Messages
<1>3. /\ UNCHANGED <<setup, client, toRelay, link, kicked>> /\ relay.step = "loop"
      /\ notices' \in Nat
  BY DEF ForwardNotice, TypeInv
<1>4. TypeInv'  BY <1>1, <1>2, <1>3 DEF TypeInv
<1>5. Meant'
  BY <1>1, <1>2, <1>3 DEF Meant, EndsInv, WordsInv, MeaningInv, RoleInv, TurnedDown
<1>. QED  BY <1>3, <1>4, <1>5, InTheLoop

LEMMA PingIsSent == ASSUME WireInv, SendPing PROVE WireInv'
<1>. USE DEF WireInv
<1>1. relay.missed + 1 \in 0..MaxMissed
  BY WireAssumption DEF SendPing, TypeInv, RelayStates
<1>2. /\ relay' \in RelayStates /\ relay'.step = relay.step /\ relay'.end = relay.end
      /\ relay'.granted = relay.granted /\ relay'.refused = relay.refused
  BY <1>1, Counting DEF SendPing
<1>3. /\ toClient' \in Seq(Pieces)
      /\ Mentions(toClient') \subseteq Mentions(toClient) \cup {"Ping"}
  BY RelaySaying DEF SendPing, Messages
<1>4. UNCHANGED <<setup, client, toRelay, link, notices, kicked>> /\ relay.step = "loop"
  BY DEF SendPing, Rest
<1>5. TypeInv'  BY <1>2, <1>3, <1>4 DEF TypeInv
<1>6. Meant'
  BY <1>2, <1>3, <1>4 DEF Meant, EndsInv, WordsInv, MeaningInv, RoleInv, TurnedDown
<1>. QED  BY <1>4, <1>5, <1>6, InTheLoop

LEMMA PongIsHeard == ASSUME WireInv, RelayPonged PROVE WireInv'
<1>. USE DEF WireInv
<1>1. 0 \in 0..MaxMissed  BY WireAssumption
<1>2. /\ relay' \in RelayStates /\ relay'.step = relay.step /\ relay'.end = relay.end
      /\ relay'.granted = relay.granted /\ relay'.refused = relay.refused
  BY <1>1, Counting DEF RelayPonged
<1>3. /\ toRelay' \in Seq(Pieces) /\ Mentions(toRelay') \subseteq Mentions(toRelay)
      /\ UNCHANGED <<client, setup, link, notices, kicked>>
  BY RelayHearing DEF RelayPonged, Messages
<1>4. relay.step = "loop" /\ toClient' = toClient  BY DEF RelayPonged
<1>5. TypeInv'  BY <1>2, <1>3, <1>4 DEF TypeInv
<1>6. Meant'
  BY <1>2, <1>3, <1>4 DEF Meant, EndsInv, WordsInv, MeaningInv, RoleInv, TurnedDown
<1>. QED  BY <1>3, <1>4, <1>5, <1>6, InTheLoop

LEMMA PortIsAsked == ASSUME WireInv, RelayBinds PROVE WireInv'
<1>. USE DEF WireInv
<1> DEFINE word == IF setup.port THEN "BindOk" ELSE "BindErr"
<1>1. /\ relay' \in RelayStates /\ relay'.step = relay.step /\ relay'.end = relay.end
      /\ relay'.granted = setup.port /\ relay'.refused = ~setup.port
  BY Granting DEF RelayBinds
<1>2. /\ toRelay' \in Seq(Pieces) /\ Mentions(toRelay') \subseteq Mentions(toRelay)
      /\ UNCHANGED <<client, setup, link, notices, kicked>>
  BY RelayHearing DEF RelayBinds, Messages
<1>3. /\ toClient' \in Seq(Pieces)
      /\ Mentions(toClient') \subseteq Mentions(toClient) \cup {word}
  <2>1. word \in Messages /\ RelaySays(word)  BY DEF RelayBinds, Messages
  <2>. QED  BY <2>1, RelaySaying
<1>4. relay.step = "loop"  BY DEF RelayBinds
<1>5. TypeInv'  BY <1>1, <1>2, <1>3 DEF TypeInv
<1>6. Meant'
  BY <1>1, <1>2, <1>3, <1>4
  DEF Meant, EndsInv, WordsInv, MeaningInv, RoleInv, TurnedDown
<1>. QED  BY <1>2, <1>4, <1>5, <1>6, InTheLoop

LEMMA ByeIsHeard == ASSUME WireInv, RelayHearsBye PROVE WireInv'
<1>. USE DEF WireInv
<1>1. /\ relay' \in RelayStates /\ relay'.step = "closing" /\ relay'.end = "bye"
      /\ relay'.granted = relay.granted /\ relay'.refused = relay.refused
  BY RelayEnding DEF RelayHearsBye, RelayEndings
<1>2. /\ toRelay' \in Seq(Pieces) /\ Mentions(toRelay') \subseteq Mentions(toRelay)
      /\ "Bye" \in Mentions(toRelay) /\ UNCHANGED <<client, setup, link, notices, kicked>>
  BY RelayHearing DEF RelayHearsBye, Messages
<1>3. relay.step = "loop" /\ toClient' = toClient  BY DEF RelayHearsBye
<1>4. TypeInv'  BY <1>1, <1>2, <1>3 DEF TypeInv
<1>5. Meant'
  BY <1>1, <1>2, <1>3 DEF Meant, EndsInv, WordsInv, MeaningInv, RoleInv, TurnedDown
<1>. QED  BY <1>2, <1>3, <1>4, <1>5, InTheLoop

LEMMA AnswerIsLost == ASSUME WireInv, BindAnswerFails PROVE WireInv'
<1>. USE DEF WireInv
<1>1. /\ relay' \in RelayStates /\ relay'.step = "ended" /\ relay'.end = "dropped"
      /\ relay'.granted = relay.granted /\ relay'.refused = relay.refused
  BY RelayStopping DEF BindAnswerFails, RelaySteps, RelayEndings
<1>2. /\ toRelay' \in Seq(Pieces) /\ Mentions(toRelay') \subseteq Mentions(toRelay)
      /\ UNCHANGED <<client, setup, link, notices, kicked>>
  BY RelayHearing DEF BindAnswerFails, Messages
<1>3. relay.step = "loop" /\ toClient' = toClient  BY DEF BindAnswerFails
<1>4. TypeInv'  BY <1>1, <1>2, <1>3 DEF TypeInv
<1>5. Meant'
  BY <1>1, <1>2, <1>3 DEF Meant, EndsInv, WordsInv, MeaningInv, RoleInv, TurnedDown
<1>. QED  BY <1>2, <1>3, <1>4, <1>5, InTheLoop

LEMMA SessionIsCleanedUp == ASSUME WireInv, CleanedUp PROVE WireInv'
<1>. USE DEF WireInv
<1>1. /\ relay' \in RelayStates /\ relay'.step = "ended" /\ relay'.end = relay.end
      /\ relay'.granted = relay.granted /\ relay'.refused = relay.refused
      /\ relay.step = "closing"
  BY DEF CleanedUp, TypeInv, RelayStates, RelaySteps
<1>2. UNCHANGED <<setup, client, toRelay, toClient, link, notices, kicked>>
  BY DEF CleanedUp, pieces, Rest
<1>3. TypeInv'  BY <1>1, <1>2 DEF TypeInv
<1>4. Meant'
  BY <1>1, <1>2 DEF Meant, EndsInv, WordsInv, MeaningInv, RoleInv, TurnedDown
<1>. QED  BY <1>1, <1>2, <1>3, <1>4, InTheLoop

-----------------------------------------------------------------------------
(* The client.                                                             *)

LEMMA ClientHasGreeted == ASSUME WireInv, ClientGreets PROVE WireInv'
<1>. USE DEF WireInv
<1>1. /\ client' \in ClientStates /\ client'.step = "hello" /\ client'.end = client.end
      /\ client'.head = client.head /\ client'.online = client.online
      /\ client.step = "start"
  BY DEF ClientGreets, TypeInv, ClientStates, ClientSteps
<1>2. /\ toRelay' \in Seq(Pieces)
      /\ Mentions(toRelay') \subseteq Mentions(toRelay) \cup {"Hello"}
      /\ link = "whole" /\ toRelay = <<>> => Under(toRelay', FALSE, "Hello")
  BY ClientSaying DEF ClientGreets, Messages
<1>3. UNCHANGED <<setup, relay, toClient, link, notices, kicked>>  BY DEF ClientGreets, Rest
<1>4. TypeInv'  BY <1>1, <1>2, <1>3 DEF TypeInv
<1>5. Meant'
  BY <1>1, <1>2, <1>3 DEF Meant, EndsInv, WordsInv, MeaningInv, RoleInv, TurnedDown
<1>6. MuteInv'  BY <1>1, <1>3 DEF MuteInv, Mute
<1>7. LockInv'
  <2>1. ASSUME Stranger, link = "whole"
        PROVE  /\ relay.step = "hello" =>
                    toRelay = <<>> /\ relay.head = FALSE /\ Idle(toClient, client.head)
               /\ relay.step # "auth" /\ ~TurnedDown
    BY <1>1, <2>1 DEF LockInv, Idle, TypeInv, RelayStates
  <2>. QED  BY <1>1, <1>2, <1>3, <2>1 DEF LockInv, Stranger, TurnedDown
<1>. QED  BY <1>4, <1>5, <1>6, <1>7

LEMMA ClientReadsLength == ASSUME WireInv, ClientTakesHead PROVE WireInv'
<1>. USE DEF WireInv
<1>1. /\ client' \in ClientStates /\ client'.step = client.step /\ client'.end = client.end
      /\ client'.head = TRUE /\ client.head = FALSE /\ client'.online = client.online
      /\ client.step \in {"hello", "auth", "session"}
  BY DEF ClientTakesHead, Reading, TypeInv, ClientStates
<1>2. /\ UNCHANGED <<setup, relay, toRelay, link, notices, kicked>>
      /\ toClient \in Seq(Pieces) /\ toClient # <<>> /\ toClient' = Tail(toClient)
  BY DEF ClientTakesHead, Arrived, Rest, TypeInv
<1>3. toClient' \in Seq(Pieces) /\ Mentions(toClient') \subseteq Mentions(toClient)
  BY <1>2, ReadMentions
<1>4. \A m \in Messages : Under(toClient, client.head, m) => Under(toClient', client'.head, m)
  BY <1>1, <1>2, FrameIsRead
<1>5. TypeInv'  BY <1>1, <1>2, <1>3 DEF TypeInv
<1>6. Meant'
  BY <1>1, <1>2, <1>3 DEF Meant, EndsInv, WordsInv, MeaningInv, RoleInv, TurnedDown
<1>7. MuteInv'  BY <1>1, <1>2 DEF MuteInv, Mute
<1>8. LockInv'
  BY <1>1, <1>2, <1>4 DEF LockInv, Stranger, TurnedDown, Idle, Messages
<1>. QED  BY <1>5, <1>6, <1>7, <1>8

\* The ways a client ends that are not an answer to a frame.
LEMMA ClientGoes ==
  ASSUME WireInv, client.step # "ended",
         NEW why \in {"error", "served", "stopped"}, ClientEnds(why),
         toRelay' \in Seq(Pieces),
         \/ Mentions(toRelay') \subseteq Mentions(toRelay)
         \/ Mentions(toRelay') \subseteq Mentions(toRelay) \cup {"Bye"} /\ why = "stopped",
         Mute => toRelay' = toRelay,
         UNCHANGED <<relay, toClient>>, Rest,
         Stranger /\ link = "whole" =>
           why = "stopped" \/ (relay.step = "ended" /\ ~TurnedDown)
  PROVE  WireInv'
<1>. USE DEF WireInv
<1>1. /\ client' \in ClientStates /\ client'.step = "ended" /\ client'.end = why
      /\ client'.online = client.online
  BY ClientEnding DEF ClientEndings
<1>2. UNCHANGED <<setup, relay, toClient, link, notices, kicked>>  BY DEF Rest
<1>3. TypeInv'  BY <1>1, <1>2 DEF TypeInv
<1>4. Meant'
  BY <1>1, <1>2 DEF Meant, EndsInv, WordsInv, MeaningInv, RoleInv, TurnedDown
<1>5. MuteInv'  BY <1>1, <1>2 DEF MuteInv, Mute, TurnedDown
<1>6. LockInv'  BY <1>1, <1>2 DEF LockInv, Stranger, TurnedDown
<1>. QED  BY <1>3, <1>4, <1>5, <1>6

LEMMA RelayIsLost == ASSUME WireInv, ClientLosesRelay PROVE WireInv'
<1>. USE DEF WireInv
<1> DEFINE why == IF client.step = "serve" THEN "served" ELSE "error"
<1>1. /\ client.step \in {"hello", "auth", "session", "serve"} /\ ClientEnds(why)
      /\ UNCHANGED <<relay, toRelay, toClient>> /\ Rest
      /\ link = "cut" \/ (link = "whole" /\ relay.step = "ended" /\ toClient = <<>>)
  BY DEF ClientLosesRelay, Reading, pieces
<1>2. ASSUME Stranger, link = "whole" PROVE relay.step = "ended" /\ ~TurnedDown
  <2>1. relay.step = "ended" /\ toClient = <<>> /\ client.step # "ended"
    BY <1>1, <1>2
  <2>2. client.head \in BOOLEAN /\ "AuthErr" \in Messages
    BY DEF TypeInv, ClientStates, Messages
  <2>3. ~Under(toClient, client.head, "AuthErr")  BY <2>1, <2>2, FrameIsRead
  <2>. QED  BY <1>2, <2>1, <2>3 DEF LockInv
<1>3. why \in {"error", "served", "stopped"}  OBVIOUS
<1>4. toRelay' \in Seq(Pieces) /\ Mentions(toRelay') \subseteq Mentions(toRelay)
  BY <1>1 DEF TypeInv
<1> HIDE DEF why
<1>. QED  BY <1>1, <1>2, <1>3, <1>4, ClientGoes

LEMMA ClientIsStopped == ASSUME WireInv, ClientStops PROVE WireInv'
<1>. USE DEF WireInv
<1>1. /\ client.step # "ended" /\ client.step # "other" /\ ClientEnds("stopped")
      /\ UNCHANGED <<relay, toClient>> /\ Rest /\ ~Mute
  BY DEF ClientStops, MuteInv
<1>2. CASE UNCHANGED toRelay
  BY <1>1, <1>2, ClientGoes DEF TypeInv
<1>3. CASE ClientSays("Bye")
  <2>1. /\ toRelay' \in Seq(Pieces)
        /\ Mentions(toRelay') \subseteq Mentions(toRelay) \cup {"Bye"}
    BY <1>3, ClientSaying DEF Messages
  <2>. QED  BY <1>1, <2>1, ClientGoes
<1>. QED  BY <1>2, <1>3 DEF ClientStops

LEMMA ClientIsDone == ASSUME WireInv, ClientDone PROVE WireInv'
<1>. USE DEF WireInv
<1>1. /\ client.step \in {"serve", "other"} /\ ClientEnds("served")
      /\ UNCHANGED <<relay, toRelay, toClient>> /\ Rest
  BY DEF ClientDone, pieces
<1>2. ASSUME Stranger, link = "whole" PROVE relay.step = "ended" /\ ~TurnedDown
  <2>1. relay.step \in {"hello", "auth", "ended"}
    BY <1>2 DEF TypeInv, RelayStates, RelaySteps, Meant, RoleInv, Stranger
  <2>. QED  BY <1>1, <1>2, <2>1 DEF LockInv
<1>3. toRelay' \in Seq(Pieces) /\ Mentions(toRelay') \subseteq Mentions(toRelay)
  BY <1>1 DEF TypeInv
<1>. QED  BY <1>1, <1>2, <1>3, ClientGoes

\* What a client may make of a frame without losing the meaning of its words.
LEMMA HeardRightly ==
  ASSUME WireInv, ClientHears,
         client' \in ClientStates, toRelay' \in Seq(Pieces),
         Mentions(toRelay') \subseteq Mentions(toRelay) \cup {"Auth", "Bind", "Pong"},
         client'.end # "none" <=> client'.step = "ended",
         client'.end \in {"none", "fatal", "error", "bye"},
         client'.end = "fatal" => Head(toClient).of \in {"AuthErr", "BindErr"},
         client'.end = "bye" => Head(toClient).of = "Bye",
         client'.online => client.online \/ Head(toClient).of = "BindOk"
  PROVE  TypeInv' /\ Meant' /\ MuteInv'
<1>. USE DEF WireInv
<1>1. /\ toClient' \in Seq(Pieces)
      /\ Mentions(toClient') \subseteq Mentions(toClient)
      /\ Head(toClient).of \in Mentions(toClient)
      /\ UNCHANGED <<relay, setup, link, notices, kicked>>
      /\ client.step \in {"hello", "auth", "session"}
  BY ClientHearing DEF Reading
<1>2. TypeInv'  BY <1>1 DEF TypeInv
<1>3. Meant'
  BY <1>1 DEF Meant, EndsInv, WordsInv, MeaningInv, RoleInv, TurnedDown
<1>4. MuteInv'  BY <1>1 DEF MuteInv, Mute
<1>. QED  BY <1>2, <1>3, <1>4

\* A stranger hears the challenge he has to answer, or that he is refused;
\* everything else ended the connection before.
LEMMA StrangerHears ==
  ASSUME WireInv, ClientHears, Stranger, link = "whole"
  PROVE  \/ /\ Head(toClient).of = "Challenge" /\ client.step = "hello"
            /\ relay.step = "auth" /\ toClient' = <<>>
            /\ toRelay = <<>> /\ relay.head = FALSE /\ relay.end = "none"
         \/ Head(toClient).of = "AuthErr" /\ client.step \in {"hello", "auth"}
         \/ relay.step = "ended" /\ ~TurnedDown
<1>. USE DEF WireInv
<1>1. /\ toClient # <<>> /\ client.step \in {"hello", "auth", "session"}
      /\ \A w \in Messages : Under(toClient, client.head, w) =>
           w = Head(toClient).of /\ toClient' = <<>>
  BY ClientHearing DEF Reading
<1>2. relay.step \in {"hello", "auth", "ended"} /\ relay.head \in BOOLEAN
  BY DEF TypeInv, RelayStates, RelaySteps, Meant, RoleInv, Stranger
<1>3. CASE relay.step = "hello"  BY <1>1, <1>3 DEF LockInv, Idle
<1>4. CASE relay.step = "auth"
  <2>1. /\ client.step = "hello" /\ Idle(toRelay, relay.head)
        /\ Under(toClient, client.head, "Challenge")
    BY <1>1, <1>4 DEF LockInv, Idle
  <2>. QED  BY <1>1, <1>2, <1>4, <2>1 DEF Idle, Messages, Meant, EndsInv
<1>5. CASE TurnedDown  BY <1>1, <1>5 DEF LockInv, Messages
<1>6. CASE relay.step = "ended" /\ ~TurnedDown  BY <1>6
<1>. QED  BY <1>2, <1>3, <1>4, <1>5, <1>6

\* The frames a client hears, by what handshake and session make of them.
LEMMA ClientHasHeard == ASSUME WireInv, ClientHears PROVE WireInv'
<1>. USE DEF WireInv
<1> DEFINE m == Head(toClient).of
<1>1. /\ m \in Messages /\ client.step \in {"hello", "auth", "session"}
      /\ UNCHANGED <<relay, setup, link, notices, kicked>>
      /\ client.end = "none" /\ toRelay \in Seq(Pieces)
  BY ClientHearing DEF Reading, Meant, EndsInv, TypeInv
<1>2. IF client.step = "session" THEN HeardInSession(m) ELSE HeardWhileShaking(m)
  BY DEF ClientHears
<1> HIDE DEF m
<1>3. CASE client.step = "hello" /\ m = "Challenge"
  <2>1. Carry("auth") /\ ClientSays("Auth")
    BY <1>2, <1>3 DEF HeardWhileShaking
  <2>2. /\ client' \in ClientStates /\ client'.step = "auth" /\ client'.end = client.end
        /\ client'.head = FALSE /\ client'.online = client.online
    BY <2>1, Carrying DEF ClientSteps
  <2>3. /\ toRelay' \in Seq(Pieces)
        /\ Mentions(toRelay') \subseteq Mentions(toRelay) \cup {"Auth"}
        /\ link = "whole" /\ toRelay = <<>> => Under(toRelay', FALSE, "Auth")
    BY <2>1, ClientSaying DEF Messages
  <2>4. TypeInv' /\ Meant' /\ MuteInv'
    BY <1>1, <2>2, <2>3, HeardRightly
  <2>5. LockInv'
    BY <1>1, <1>3, <2>2, <2>3, StrangerHears DEF LockInv, Stranger, TurnedDown, Idle, m
  <2>. QED  BY <2>4, <2>5
<1>4. CASE m = "AuthErr" \/ (m = "BindErr" /\ client.step = "session")
  <2>1. ClientEnds("fatal") /\ UNCHANGED toRelay
    BY <1>1, <1>2, <1>4 DEF HeardWhileShaking, HeardInSession
  <2>2. /\ client' \in ClientStates /\ client'.step = "ended" /\ client'.end = "fatal"
        /\ client'.online = client.online
    BY <2>1, ClientEnding DEF ClientEndings
  <2>3. TypeInv' /\ Meant' /\ MuteInv'
    BY <1>1, <1>4, <2>1, <2>2, HeardRightly DEF m
  <2>4. LockInv'  BY <1>1, <2>2 DEF LockInv, Stranger, TurnedDown
  <2>. QED  BY <2>3, <2>4
<1>5. CASE /\ ~(client.step = "hello" /\ m = "Challenge") /\ m # "AuthErr"
           /\ ~(m = "BindErr" /\ client.step = "session")
  <2>1. ASSUME Stranger, link = "whole" PROVE relay.step = "ended" /\ ~TurnedDown
    BY <1>5, <2>1, StrangerHears DEF m
  <2>2. ASSUME TypeInv', Meant', MuteInv' PROVE WireInv'
    <3>1. LockInv'
      BY <1>1, <2>1, <2>2 DEF LockInv, Stranger, TurnedDown, Meant, EndsInv
    <3>. QED  BY <2>2, <3>1
  <2>3. CASE client.step = "auth" /\ m = "AuthOk" /\ setup.role = "control"
    <3>1. Carry("session") /\ ClientSays("Bind")
      BY <1>2, <2>3 DEF HeardWhileShaking
    <3>2. /\ client' \in ClientStates /\ client'.step = "session"
          /\ client'.end = client.end /\ client'.online = client.online
      BY <3>1, Carrying DEF ClientSteps
    <3>3. /\ toRelay' \in Seq(Pieces)
          /\ Mentions(toRelay') \subseteq Mentions(toRelay) \cup {"Bind"}
      BY <3>1, ClientSaying DEF Messages
    <3>4. TypeInv' /\ Meant' /\ MuteInv'
      BY <1>1, <3>2, <3>3, HeardRightly
    <3>. QED  BY <2>2, <3>4
  <2>4. CASE client.step = "auth" /\ m = "AuthOk" /\ setup.role # "control"
    <3>1. Carry("serve") /\ UNCHANGED toRelay
      BY <1>2, <2>4 DEF HeardWhileShaking
    <3>2. /\ client' \in ClientStates /\ client'.step = "serve"
          /\ client'.end = client.end /\ client'.online = client.online
      BY <3>1, Carrying DEF ClientSteps
    <3>3. TypeInv' /\ Meant' /\ MuteInv'
      BY <1>1, <3>1, <3>2, HeardRightly
    <3>. QED  BY <2>2, <3>3
  <2>5. CASE client.step # "session" /\ ~(client.step = "auth" /\ m = "AuthOk")
    <3>1. ClientEnds("error") /\ UNCHANGED toRelay
      BY <1>2, <1>5, <2>5 DEF HeardWhileShaking
    <3>2. /\ client' \in ClientStates /\ client'.step = "ended" /\ client'.end = "error"
          /\ client'.online = client.online
      BY <3>1, ClientEnding DEF ClientEndings
    <3>3. TypeInv' /\ Meant' /\ MuteInv'
      BY <1>1, <3>1, <3>2, HeardRightly
    <3>. QED  BY <2>2, <3>3
  <2>6. CASE client.step = "session" /\ m = "Ping"
    <3>1. Carry("session") /\ ClientSays("Pong")
      BY <1>2, <2>6 DEF HeardInSession
    <3>2. /\ client' \in ClientStates /\ client'.step = "session"
          /\ client'.end = client.end /\ client'.online = client.online
      BY <3>1, Carrying DEF ClientSteps
    <3>3. /\ toRelay' \in Seq(Pieces)
          /\ Mentions(toRelay') \subseteq Mentions(toRelay) \cup {"Pong"}
      BY <3>1, ClientSaying DEF Messages
    <3>4. TypeInv' /\ Meant' /\ MuteInv'
      BY <1>1, <3>2, <3>3, HeardRightly
    <3>. QED  BY <2>2, <3>4
  <2>7. CASE client.step = "session" /\ m \in {"BindOk", "NewConn"}
    <3>1. client.online \in BOOLEAN /\ client.heard \in Nat /\ client.heard + 1 \in Nat
      BY DEF TypeInv, ClientStates
    <3>2. /\ \/ m = "BindOk" /\ client' = [client EXCEPT !.online = TRUE, !.head = FALSE]
             \/ client' = [client EXCEPT !.heard = client.heard + 1, !.head = FALSE]
          /\ UNCHANGED toRelay
      BY <1>2, <2>7 DEF HeardInSession
    <3>3. /\ client' \in ClientStates /\ client'.step = client.step
          /\ client'.end = client.end
          /\ client'.online => client.online \/ m = "BindOk"
      BY <3>1, <3>2, Learning
    <3>4. TypeInv' /\ Meant' /\ MuteInv'
      BY <1>1, <3>2, <3>3, HeardRightly DEF m
    <3>. QED  BY <2>2, <3>4
  <2>8. CASE client.step = "session" /\ m = "Bye"
    <3>1. ClientEnds("bye") /\ UNCHANGED toRelay
      BY <1>2, <2>8 DEF HeardInSession
    <3>2. /\ client' \in ClientStates /\ client'.step = "ended" /\ client'.end = "bye"
          /\ client'.online = client.online
      BY <3>1, ClientEnding DEF ClientEndings
    <3>3. TypeInv' /\ Meant' /\ MuteInv'
      BY <1>1, <2>8, <3>1, <3>2, HeardRightly DEF m
    <3>. QED  BY <2>2, <3>3
  <2>9. CASE client.step = "session" /\ m \notin {"Ping", "BindOk", "NewConn", "Bye"}
    <3>1. Carry("session") /\ UNCHANGED toRelay
      BY <1>2, <1>5, <2>9 DEF HeardInSession
    <3>2. /\ client' \in ClientStates /\ client'.step = "session"
          /\ client'.end = client.end /\ client'.online = client.online
      BY <3>1, Carrying DEF ClientSteps
    <3>3. TypeInv' /\ Meant' /\ MuteInv'
      BY <1>1, <3>1, <3>2, HeardRightly
    <3>. QED  BY <2>2, <3>3
  <2>. QED  BY <2>3, <2>4, <2>5, <2>6, <2>7, <2>8, <2>9
<1>. QED  BY <1>3, <1>4, <1>5

-----------------------------------------------------------------------------
(* The network, and all steps together.                                    *)

LEMMA ConnectionIsReset == ASSUME WireInv, Reset PROVE WireInv'
<1>. USE DEF WireInv
<1>1. CASE /\ relay.step = "ended" /\ toRelay # <<>>
           /\ toClient' \in Prefixes(toClient)
           /\ UNCHANGED <<setup, client, relay, toRelay, link, notices, kicked>>
  <2>1. toClient' \in Seq(Pieces) /\ Mentions(toClient') \subseteq Mentions(toClient)
    BY <1>1, PrefixMentions DEF TypeInv
  <2>2. TypeInv'  BY <1>1, <2>1 DEF TypeInv
  <2>3. Meant'
    BY <1>1, <2>1 DEF Meant, EndsInv, WordsInv, MeaningInv, RoleInv, TurnedDown
  <2>4. MuteInv'  BY <1>1 DEF MuteInv, Mute, TurnedDown
  <2>5. LockInv'  BY <1>1 DEF LockInv, Stranger, TurnedDown
  <2>. QED  BY <2>2, <2>3, <2>4, <2>5
<1>2. CASE /\ client.step = "ended"
           /\ toRelay' \in Prefixes(toRelay)
           /\ UNCHANGED <<setup, client, relay, toClient, link, notices, kicked>>
  <2>1. /\ toRelay' \in Seq(Pieces) /\ Mentions(toRelay') \subseteq Mentions(toRelay)
        /\ Texts(toRelay) => Texts(toRelay')
    BY <1>2, PrefixMentions DEF TypeInv
  <2>2. TypeInv'  BY <1>2, <2>1 DEF TypeInv
  <2>3. Meant'
    BY <1>2, <2>1 DEF Meant, EndsInv, WordsInv, MeaningInv, RoleInv, TurnedDown
  <2>4. MuteInv'  BY <1>2, <2>1 DEF MuteInv, Mute, TurnedDown
  <2>5. LockInv'  BY <1>2 DEF LockInv, Stranger, TurnedDown
  <2>. QED  BY <2>2, <2>3, <2>4, <2>5
<1>. QED  BY <1>1, <1>2 DEF Reset

\* The link fails, a notice comes, or nothing happens.
LEMMA SidesRest ==
  ASSUME WireInv, UNCHANGED <<setup, client, relay, toRelay, toClient>>,
         notices' \in Nat, kicked' \in BOOLEAN, link' = link \/ LinkFails
  PROVE  WireInv'
<1>. USE DEF WireInv
<1>1. link' = link \/ link' \in {"cut", "dead"}  BY DEF LinkFails
<1>2. TypeInv'  BY <1>1 DEF TypeInv
<1>3. Meant'  BY DEF Meant, EndsInv, WordsInv, MeaningInv, RoleInv, TurnedDown
<1>4. MuteInv'  BY DEF MuteInv, Mute, TurnedDown
<1>5. LockInv'  BY <1>1 DEF LockInv, Stranger, TurnedDown
<1>. QED  BY <1>2, <1>3, <1>4, <1>5

\* Every step of either side, and of the network, keeps the invariant.
LEMMA WireKeepsMeaning == ASSUME WireInv, WireStep PROVE WireInv'
<1>1. CASE RelayLosesStep
  BY <1>1, RelayGoesSilently DEF RelayLosesStep, Shaking
<1>2. CASE HandshakeTimesOut
  BY <1>2, RelayGoesSilently DEF HandshakeTimesOut, Shaking
<1>3. CASE RelayLosesClient  BY <1>3, RelayGoesSilently DEF RelayLosesClient
<1>4. CASE HeartbeatLost  BY <1>4, RelayGoesSilently DEF HeartbeatLost
<1>5. CASE SpliceEnds  BY <1>5, RelayGoesSilently DEF SpliceEnds
<1>6. CASE LinkFails
  BY <1>6, SidesRest DEF LinkFails, pieces, WireInv, TypeInv
<1>7. CASE Kicked
  BY <1>7, SidesRest DEF Kicked, WireInv, TypeInv
<1>. QED
  BY <1>1, <1>2, <1>3, <1>4, <1>5, <1>6, <1>7,
     RelayReadsLength, RelayIsGreeted, RelayIsAnswered, SessionIsSuperseded,
     NoticeIsForwarded, PingIsSent, PongIsHeard, PortIsAsked, ByeIsHeard,
     AnswerIsLost, SessionIsCleanedUp,
     ClientHasGreeted, ClientReadsLength, ClientHasHeard, RelayIsLost,
     ClientIsStopped, ClientIsDone, ConnectionIsReset
  DEF WireStep, RelayReads, ClientReads

\* What the invariant is for.
LEMMA MeaningIsShared == WireInv => SpeakersAgree
<1> SUFFICES ASSUME WireInv PROVE SpeakersAgree  OBVIOUS
<1>1. ASSUME TurnedDown, client.step = "ended", link = "whole"
      PROVE  client.end \in {"fatal", "stopped"}
  <2>1. setup.peer \in {"version", "token", "unknown"}
    BY <1>1 DEF WireInv, TypeInv, Setups, Peers, Meant, RoleInv, MuteInv, Mute, TurnedDown
  <2>. QED  BY <1>1, <2>1 DEF WireInv, LockInv, Stranger
<1>. QED
  BY <1>1 DEF WireInv, Meant, MeaningInv, RoleInv, TurnedDown, SpeakersAgree

\* And it has the types that TLC checks.
LEMMA WireIsTyped == WireInv => WireTypeOK
<1> SUFFICES ASSUME WireInv PROVE WireTypeOK  OBVIOUS
<1>. USE DEF WireInv, TypeInv
<1>1. /\ \A i \in 1..Len(toRelay) : toRelay[i] \in Pieces
      /\ \A i \in 1..Len(toClient) : toClient[i] \in Pieces
  BY ElementOfSeq
<1>2. setup \in [peer : Peers, role : {"control", "data"}, port : BOOLEAN]
  BY DEF Setups
<1>. QED
  BY <1>1, <1>2
  DEF WireTypeOK, ClientStates, ClientSteps, ClientEndings,
      RelayStates, RelaySteps, RelayEndings

-----------------------------------------------------------------------------
(* The notice of a visitor, on its way from the session's event channel to *)
(* the client's task.                                                      *)

NewConnAt(q) == {i \in 1..Len(q) : q[i].part = "body" /\ q[i].of = "NewConn"}

\* Of at most one notice, at most one is under way or heard of.
Unannounced == notices = 0 /\ client.heard = 0 /\ NewConnAt(toClient) = {}
NoticeInv ==
  /\ notices + client.heard =< 1
  /\ NewConnAt(toClient) # {} => notices = 0 /\ client.heard = 0
  /\ \A i, j \in NewConnAt(toClient) : i = j

LEMMA WrittenNotices ==
  ASSUME NEW q \in Seq(Pieces), NEW m \in Messages
  PROVE  /\ m # "NewConn" => NewConnAt(Written(q, m)) = NewConnAt(q)
         /\ NewConnAt(q) = {} => \A i, j \in NewConnAt(Written(q, m)) : i = j
         /\ m = "NewConn" /\ link = "whole" => NewConnAt(Written(q, m)) # {}
<1>1. CASE link = "whole"
  <2> DEFINE f == Frame(m)
  <2>1. Written(q, m) = q \o f  BY <1>1 DEF Written
  <2>2. /\ f \in Seq(Pieces) /\ Len(f) = 2
        /\ f[1].part = "head" /\ f[2].part = "body" /\ f[2].of = m
    BY FrameIsTwoPieces
  <2> HIDE DEF f
  <2>3. /\ Len(q \o f) = Len(q) + Len(f)
        /\ \A i \in 1..Len(q) + Len(f) :
             (q \o f)[i] = IF i <= Len(q) THEN q[i] ELSE f[i - Len(q)]
    BY <2>2, ConcatProperties
  <2>4. Len(q) \in Nat  BY LenProperties
  <2>5. ASSUME NEW i \in 1..Len(q)
        PROVE  i \in NewConnAt(q \o f) <=> i \in NewConnAt(q)
    BY <2>2, <2>3, <2>4 DEF NewConnAt
  <2>6. ASSUME NEW i \in NewConnAt(q \o f), i \notin 1..Len(q)
        PROVE  i = Len(q) + 2 /\ m = "NewConn"
    <3>1. /\ i \in 1..Len(q) + 2 /\ (q \o f)[i] = f[i - Len(q)]
          /\ (q \o f)[i].part = "body" /\ (q \o f)[i].of = "NewConn"
      BY <2>2, <2>3, <2>4, <2>6 DEF NewConnAt
    <3>2. i - Len(q) = 1 \/ i - Len(q) = 2  BY <2>4, <2>6, <3>1
    <3>3. i - Len(q) = 2  BY <2>2, <3>1, <3>2
    <3>. QED  BY <2>2, <2>4, <3>1, <3>3
  <2>7. NewConnAt(q) \subseteq 1..Len(q) /\ 1..Len(q) \subseteq 1..Len(q \o f)
    BY <2>2, <2>3, <2>4 DEF NewConnAt
  <2>8. m # "NewConn" => NewConnAt(q \o f) = NewConnAt(q)
    BY <2>5, <2>6, <2>7
  <2>9. ASSUME NewConnAt(q) = {}, NEW i \in NewConnAt(q \o f), NEW j \in NewConnAt(q \o f)
        PROVE  i = j
    BY <2>5, <2>6, <2>9
  <2>10. ASSUME m = "NewConn" PROVE Len(q) + 2 \in NewConnAt(q \o f)
    BY <2>2, <2>3, <2>4, <2>10 DEF NewConnAt
  <2>. QED  BY <2>1, <2>8, <2>9, <2>10
<1>2. CASE link # "whole"  BY <1>2 DEF Written
<1>. QED  BY <1>1, <1>2

LEMMA ReadNotices ==
  ASSUME NEW q \in Seq(Pieces), q # <<>>, \A i, j \in NewConnAt(q) : i = j
  PROVE  /\ NewConnAt(q) = {} => NewConnAt(Tail(q)) = {}
         /\ \A i, j \in NewConnAt(Tail(q)) : i = j
         /\ Head(q).part = "body" /\ Head(q).of = "NewConn" =>
              NewConnAt(q) # {} /\ NewConnAt(Tail(q)) = {}
         /\ ~(Head(q).part = "body" /\ Head(q).of = "NewConn") /\ NewConnAt(q) # {} =>
              NewConnAt(Tail(q)) # {}
<1>1. Len(q) \in Nat \ {0}  BY EmptySeq
<1>2. /\ Len(Tail(q)) = Len(q) - 1
      /\ \A i \in 1..Len(Tail(q)) : Tail(q)[i] = q[i + 1]
  BY HeadTailProperties
<1>3. ASSUME NEW i \in NewConnAt(Tail(q)) PROVE i \in Nat /\ i >= 1 /\ i + 1 \in NewConnAt(q)
  BY <1>1, <1>2 DEF NewConnAt
<1>4. Head(q).part = "body" /\ Head(q).of = "NewConn" => 1 \in NewConnAt(q)
  BY <1>1 DEF NewConnAt
<1>5. ASSUME NEW i \in NewConnAt(Tail(q)), NEW j \in NewConnAt(Tail(q)) PROVE i = j
  <2>1. i \in Nat /\ j \in Nat /\ i + 1 = j + 1  BY <1>3
  <2>. QED  BY <2>1
<1>6. ASSUME 1 \in NewConnAt(q), NEW i \in NewConnAt(Tail(q)) PROVE FALSE
  <2>1. i \in Nat /\ i >= 1 /\ i + 1 = 1  BY <1>3, <1>6
  <2>. QED  BY <2>1
<1>7. ASSUME NEW i \in NewConnAt(q), i # 1 PROVE i - 1 \in NewConnAt(Tail(q))
  BY <1>1, <1>2, <1>7 DEF NewConnAt
<1>8. 1 \in NewConnAt(q) => Head(q).part = "body" /\ Head(q).of = "NewConn"
  BY <1>1 DEF NewConnAt
<1>. QED  BY <1>3, <1>4, <1>5, <1>6, <1>7, <1>8

LEMMA PrefixNotices ==
  ASSUME NEW q \in Seq(Pieces), NEW p \in Prefixes(q)
  PROVE  NewConnAt(p) \subseteq NewConnAt(q)
<1>1. Len(p) \in Nat /\ Len(q) \in Nat /\ Len(p) =< Len(q) /\ \A i \in 1..Len(p) : p[i] = q[i]
  BY PrefixMentions, LenProperties
<1>. QED  BY <1>1 DEF NewConnAt

\* What a step on the wire does to the notices: nothing; a notice is written;
\* or the client reads it; or the connection has come to its end at one side.
LEMMA NoticeTravels ==
  ASSUME WireInv, WireStep
  PROVE  \/ /\ notices' = notices /\ client'.heard = client.heard
            /\ \/ toClient' = toClient
               \/ \E m \in Messages \ {"NewConn"} : toClient' = Written(toClient, m)
               \/ /\ toClient # <<>> /\ toClient' = Tail(toClient)
                  /\ Head(toClient).part = "body" /\ Head(toClient).of = "NewConn" =>
                       client'.step = "ended"
               \/ toClient' \in Prefixes(toClient) /\ relay'.step = "ended"
         \/ /\ notices > 0 /\ notices' = notices - 1 /\ client'.heard = client.heard
            /\ toClient' = Written(toClient, "NewConn")
         \/ /\ notices' = notices /\ client'.heard = client.heard + 1
            /\ toClient # <<>> /\ toClient' = Tail(toClient)
            /\ Head(toClient).part = "body" /\ Head(toClient).of = "NewConn"
<1>. USE DEF WireInv
<1>1. CASE \/ RelayTakesHead \/ RelayLosesStep \/ RelayPonged \/ RelayHearsBye
           \/ RelayLosesClient \/ HandshakeTimesOut \/ HeartbeatLost \/ SpliceEnds
           \/ BindAnswerFails \/ CleanedUp \/ Kicked \/ LinkFails
  BY <1>1
  DEF RelayTakesHead, RelayLosesStep, RelayPonged, RelayHearsBye, RelayHears,
      RelayLosesClient, HandshakeTimesOut, HeartbeatLost, SpliceEnds,
      BindAnswerFails, CleanedUp, Kicked, LinkFails, pieces, Rest
<1>2. CASE RelayGreeted
  <2>1. \E m \in {"AuthErr", "Challenge"} : RelaySays(m)
    BY <1>2 DEF RelayGreeted, Refuse
  <2>2. UNCHANGED <<client, notices>>  BY <1>2 DEF RelayGreeted, RelayHears, Rest
  <2>. QED  BY <2>1, <2>2 DEF RelaySays, Messages
<1>3. CASE RelayAuthenticates
  <2>1. \E m \in {"AuthErr", "AuthOk"} : RelaySays(m)
    BY <1>3 DEF RelayAuthenticates, Refuse
  <2>2. UNCHANGED <<client, notices>>  BY <1>3 DEF RelayAuthenticates, RelayHears, Rest
  <2>. QED  BY <2>1, <2>2 DEF RelaySays, Messages
<1>4. CASE RelayBinds
  <2>1. \E m \in {"BindOk", "BindErr"} : RelaySays(m)
    BY <1>4 DEF RelayBinds
  <2>2. UNCHANGED <<client, notices>>  BY <1>4 DEF RelayBinds, RelayHears, Rest
  <2>. QED  BY <2>1, <2>2 DEF RelaySays, Messages
<1>5. CASE Superseded  BY <1>5 DEF Superseded, RelaySays, Rest, Messages
<1>6. CASE SendPing  BY <1>6 DEF SendPing, RelaySays, Rest, Messages
<1>7. CASE ForwardNotice  BY <1>7 DEF ForwardNotice, RelaySays
<1>8. CASE ClientGreets
  BY <1>8 DEF ClientGreets, Rest, TypeInv, ClientStates
<1>9. CASE ClientTakesHead
  <2>1. /\ notices' = notices /\ client'.heard = client.heard
        /\ toClient # <<>> /\ toClient' = Tail(toClient) /\ Head(toClient).part = "head"
    BY <1>9 DEF ClientTakesHead, Arrived, Rest, TypeInv, ClientStates
  <2>. QED  BY <2>1
<1>10. CASE ClientHears
  <2> DEFINE m == Head(toClient).of
  <2>1. /\ toClient # <<>> /\ toClient' = Tail(toClient) /\ Head(toClient).part = "body"
        /\ notices' = notices
    BY <1>10 DEF ClientHears, Arrived, Rest
  <2>2. IF client.step = "session" THEN HeardInSession(m) ELSE HeardWhileShaking(m)
    BY <1>10 DEF ClientHears
  <2> HIDE DEF m
  <2>3. ASSUME NEW step \in ClientSteps, Carry(step) PROVE client'.heard = client.heard
    BY <2>3, Carrying
  <2>4. ASSUME NEW why \in ClientEndings, ClientEnds(why) PROVE client'.heard = client.heard
    BY <2>4, ClientEnding
  <2>5. CASE client.step # "session"
    <3>1. client'.heard = client.heard
      BY <2>2, <2>3, <2>4, <2>5 DEF HeardWhileShaking, ClientSteps, ClientEndings
    <3>2. m = "NewConn" => ClientEnds("error")
      BY <2>2, <2>5 DEF HeardWhileShaking
    <3>3. m = "NewConn" => client'.step = "ended"
      BY <3>2, ClientEnding DEF ClientEndings
    <3>. QED  BY <2>1, <3>1, <3>3 DEF m
  <2>6. CASE client.step = "session" /\ m \notin {"BindOk", "NewConn"}
    <3>1. client'.heard = client.heard
      BY <2>2, <2>3, <2>4, <2>6 DEF HeardInSession, ClientSteps, ClientEndings
    <3>. QED  BY <2>1, <2>6, <3>1 DEF m
  <2>7. CASE client.step = "session" /\ m = "BindOk"
    <3>1. client' = [client EXCEPT !.online = TRUE, !.head = FALSE]
      BY <2>2, <2>7 DEF HeardInSession
    <3>2. client.heard \in Nat /\ TRUE \in BOOLEAN  BY DEF TypeInv, ClientStates
    <3>3. client'.heard = client.heard  BY <3>1, <3>2, Learning
    <3>. QED  BY <2>1, <2>7, <3>3 DEF m
  <2>8. CASE client.step = "session" /\ m = "NewConn"
    <3>1. client' = [client EXCEPT !.heard = client.heard + 1, !.head = FALSE]
      BY <2>2, <2>8 DEF HeardInSession
    <3>2. client.heard + 1 \in Nat /\ client.online \in BOOLEAN  BY DEF TypeInv, ClientStates
    <3>3. client'.heard = client.heard + 1  BY <3>1, <3>2, Learning
    <3>. QED  BY <2>1, <2>8, <3>3 DEF m
  <2>. QED  BY <2>5, <2>6, <2>7, <2>8
<1>11. CASE ClientLosesRelay \/ ClientStops \/ ClientDone
  <2>1. /\ UNCHANGED <<toClient, notices>>
        /\ \E why \in {"served", "error", "stopped"} : ClientEnds(why)
    BY <1>11 DEF ClientLosesRelay, ClientStops, ClientDone, pieces, Rest
  <2>2. client'.heard = client.heard  BY <2>1, ClientEnding DEF ClientEndings
  <2>. QED  BY <2>1, <2>2
<1>12. CASE Reset  BY <1>12 DEF Reset
<1>. QED
  BY <1>1, <1>2, <1>3, <1>4, <1>5, <1>6, <1>7, <1>8, <1>9, <1>10, <1>11, <1>12
  DEF WireStep, RelayReads, ClientReads

LEMMA OneNoticeAtMost ==
  ASSUME WireInv, NoticeInv, WireStep
  PROVE  NoticeInv' /\ (Unannounced => Unannounced')
<1>1. /\ notices \in Nat /\ client.heard \in Nat /\ toClient \in Seq(Pieces)
      /\ "NewConn" \in Messages
  BY DEF WireInv, TypeInv, ClientStates, Messages
<1>. USE DEF NoticeInv, Unannounced
<1>2. CASE /\ notices' = notices /\ client'.heard = client.heard
           /\ toClient' = toClient
  BY <1>2
<1>3. CASE /\ notices' = notices /\ client'.heard = client.heard
           /\ \E m \in Messages \ {"NewConn"} : toClient' = Written(toClient, m)
  <2>1. NewConnAt(toClient') = NewConnAt(toClient)  BY <1>1, <1>3, WrittenNotices
  <2>. QED  BY <1>3, <2>1
<1>4. CASE /\ notices' = notices /\ client'.heard = client.heard
           /\ toClient # <<>> /\ toClient' = Tail(toClient)
  <2>1. /\ NewConnAt(toClient) = {} => NewConnAt(toClient') = {}
        /\ \A i, j \in NewConnAt(toClient') : i = j
    BY <1>1, <1>4, ReadNotices
  <2>. QED  BY <1>4, <2>1
<1>5. CASE /\ notices' = notices /\ client'.heard = client.heard
           /\ toClient' \in Prefixes(toClient)
  <2>1. NewConnAt(toClient') \subseteq NewConnAt(toClient)
    BY <1>1, <1>5, PrefixNotices
  <2>. QED  BY <1>5, <2>1
<1>6. CASE /\ notices > 0 /\ notices' = notices - 1 /\ client'.heard = client.heard
           /\ toClient' = Written(toClient, "NewConn")
  <2>1. NewConnAt(toClient) = {} /\ notices = 1 /\ client.heard = 0  BY <1>1, <1>6
  <2>2. \A i, j \in NewConnAt(toClient') : i = j
    BY <1>1, <1>6, <2>1, WrittenNotices
  <2>. QED  BY <1>6, <2>1, <2>2
<1>7. CASE /\ notices' = notices /\ client'.heard = client.heard + 1
           /\ toClient # <<>> /\ toClient' = Tail(toClient)
           /\ Head(toClient).part = "body" /\ Head(toClient).of = "NewConn"
  <2>1. NewConnAt(toClient) # {} /\ NewConnAt(toClient') = {}
    BY <1>1, <1>7, ReadNotices
  <2>. QED  BY <1>7, <2>1
<1>. QED  BY <1>2, <1>3, <1>4, <1>5, <1>6, <1>7, NoticeTravels

(* Where a session does not go back.                                       *)

\* A session that has begun is in its loop, cleaned up, or ended.
Late == {"loop", "closing", "ended"}

LEMMA NobodyComesBack ==
  ASSUME WireInv, WireStep
  PROVE  /\ relay.step \in Late => relay'.step \in Late
         /\ relay.step \in Late /\ relay'.step = "loop" => relay.step = "loop"
         /\ link' = "whole" => link = "whole"
         /\ client.step = "ended" => client'.step = "ended"
<1>. USE DEF WireInv
<1>1. relay' = relay \/ client' = client
  BY DEF WireStep, RelayReads, ClientReads, RelayTakesHead, RelayLosesStep, RelayGreeted,
         RelayAuthenticates, RelayPonged, RelayBinds, BindAnswerFails, RelayHearsBye,
         RelayHears, RelayLosesClient, HandshakeTimesOut, Kicked, Superseded, ForwardNotice,
         SendPing, HeartbeatLost, CleanedUp, SpliceEnds, ClientGreets, ClientTakesHead,
         ClientHears, ClientLosesRelay, ClientStops, ClientDone, Reset, LinkFails, pieces
<1>2. link' = "whole" => link = "whole"
  BY DEF WireStep, RelayReads, ClientReads, RelayTakesHead, RelayLosesStep, RelayGreeted,
         RelayAuthenticates, RelayPonged, RelayBinds, BindAnswerFails, RelayHearsBye,
         RelayHears, RelayLosesClient, HandshakeTimesOut, Kicked, Superseded, ForwardNotice,
         SendPing, HeartbeatLost, CleanedUp, SpliceEnds, ClientGreets, ClientTakesHead,
         ClientHears, ClientLosesRelay, ClientStops, ClientDone, Reset, LinkFails, Rest
<1>3. client.step = "ended" => client' = client
  BY DEF WireStep, RelayReads, ClientReads, RelayTakesHead, RelayLosesStep, RelayGreeted,
         RelayAuthenticates, RelayPonged, RelayBinds, BindAnswerFails, RelayHearsBye,
         RelayHears, RelayLosesClient, HandshakeTimesOut, Kicked, Superseded, ForwardNotice,
         SendPing, HeartbeatLost, CleanedUp, SpliceEnds, ClientGreets, ClientTakesHead,
         ClientHears, ClientLosesRelay, ClientStops, ClientDone, Reset, LinkFails, Reading
<1>4. relay.step \in Late =>
        \/ relay' = relay
        \/ relay.step = "loop" /\ relay'.step = "loop"
        \/ relay'.step \in {"closing", "ended"}
  <2>1. ASSUME NEW why \in RelayEndings, RelayEnds(why)
        PROVE  relay'.step \in {"closing", "ended"}
    BY <2>1, RelayEnding
  <2>2. CASE RelayTakesHead
    BY <2>2 DEF RelayTakesHead, TypeInv, RelayStates, Late, Shaking
  <2>3. CASE RelayLosesStep \/ RelayLosesClient \/ HandshakeTimesOut
             \/ HeartbeatLost \/ SpliceEnds \/ Superseded \/ RelayHearsBye
    BY <2>1, <2>3
    DEF RelayLosesStep, RelayLosesClient, HandshakeTimesOut, HeartbeatLost, SpliceEnds,
        Superseded, RelayHearsBye, RelayEndings
  <2>4. CASE RelayGreeted \/ RelayAuthenticates
    BY <2>4 DEF RelayGreeted, RelayAuthenticates, Late
  <2>5. CASE RelayPonged \/ RelayBinds \/ ForwardNotice \/ SendPing
    BY <2>5 DEF RelayPonged, RelayBinds, ForwardNotice, SendPing, TypeInv, RelayStates
  <2>6. CASE BindAnswerFails
    BY <2>6, RelayStopping DEF BindAnswerFails, RelaySteps, RelayEndings
  <2>7. CASE CleanedUp  BY <2>7 DEF CleanedUp, TypeInv, RelayStates
  <2>8. CASE ClientReads \/ ClientStops \/ ClientDone \/ Reset \/ LinkFails \/ Kicked
    BY <2>8
    DEF ClientReads, ClientGreets, ClientTakesHead, ClientHears, ClientLosesRelay,
        ClientStops, ClientDone, Reset, LinkFails, Kicked, pieces
  <2>. QED
    BY <2>2, <2>3, <2>4, <2>5, <2>6, <2>7, <2>8 DEF WireStep, RelayReads
<1>. QED  BY <1>2, <1>3, <1>4 DEF Late

-----------------------------------------------------------------------------
(* The visitor.                                                            *)

Steps == {"away", "read", "lookup", "send", "waiting", "piped", "gone"}
Statuses == {0, 400, 404, 503}
VisitorStates == [step : Steps, to : Segments, chunk : Chunks, status : Statuses]
VisitorInv == visitor \in VisitorStates

LEMMA Moving ==
  ASSUME VisitorInv, NEW step \in Steps, Moves(step)
  PROVE  VisitorInv' /\ visitor'.step = step
BY DEF Moves, VisitorInv, VisitorStates

\* A visitor who is turned away.
LEMMA TurnedAway ==
  ASSUME VisitorInv, NEW n \in Statuses, Turned(n)
  PROVE  VisitorInv' /\ visitor'.step = "gone"
<1> DEFINE v == [visitor EXCEPT !.step = "gone"]
           w == [v EXCEPT !.status = n]
<1>1. v \in VisitorStates /\ v.step = "gone"
  BY DEF VisitorInv, VisitorStates, Steps
<1>2. w \in VisitorStates /\ w.step = "gone"
  <2> HIDE DEF v
  <2>. QED  BY <1>1 DEF VisitorStates
<1>3. visitor' = w  BY DEF Turned
<1> HIDE DEF w
<1>. QED  BY <1>2, <1>3 DEF VisitorInv

-----------------------------------------------------------------------------
(* The visitor and the wire together.                                      *)

\* Until the router has dispatched him, nobody has heard of the visitor; and
\* who waits has been announced in a session that had begun.
Ahead == {"away", "read", "lookup", "send"}
AimInv ==
  /\ visitor.step \in Ahead => Unannounced
  /\ visitor.step = "waiting" => relay.step \in Late

\* The notice is in the channel, under way, or heard.
Kept == notices > 0 \/ client.heard > 0 \/ NewConnAt(toClient) # {}
KeptInv ==
  visitor.step = "waiting" /\ relay.step = "loop" /\ link = "whole" /\ client.step # "ended" =>
    Kept

WholeInv == VisitorInv /\ WireInv /\ NoticeInv /\ AimInv /\ KeptInv

\* In a session that goes on, on a whole connection, to a client who stays, a
\* notice is not lost by any step of the relay, the client or the network.
LEMMA NoticeStays ==
  ASSUME WireInv, NoticeInv, WireStep, Kept,
         link = "whole", relay'.step # "ended", client'.step # "ended"
  PROVE  Kept'
<1>1. /\ notices \in Nat /\ client.heard \in Nat /\ toClient \in Seq(Pieces)
      /\ "NewConn" \in Messages
  BY DEF WireInv, TypeInv, ClientStates, Messages
<1>. USE DEF Kept
<1>2. CASE /\ notices' = notices /\ client'.heard = client.heard
           /\ toClient' = toClient
  BY <1>2
<1>3. CASE /\ notices' = notices /\ client'.heard = client.heard
           /\ \E m \in Messages \ {"NewConn"} : toClient' = Written(toClient, m)
  <2>1. NewConnAt(toClient') = NewConnAt(toClient)  BY <1>1, <1>3, WrittenNotices
  <2>. QED  BY <1>3, <2>1
<1>4. CASE /\ notices' = notices /\ client'.heard = client.heard
           /\ toClient # <<>> /\ toClient' = Tail(toClient)
           /\ ~(Head(toClient).part = "body" /\ Head(toClient).of = "NewConn")
  <2>1. NewConnAt(toClient) # {} => NewConnAt(toClient') # {}
    BY <1>1, <1>4, ReadNotices DEF NoticeInv
  <2>. QED  BY <1>4, <2>1
<1>5. CASE toClient' = Written(toClient, "NewConn")
  <2>1. NewConnAt(toClient') # {}  BY <1>1, <1>5, WrittenNotices
  <2>. QED  BY <2>1
<1>6. CASE client'.heard = client.heard + 1  BY <1>1, <1>6
<1>. QED  BY <1>2, <1>3, <1>4, <1>5, <1>6, NoticeTravels

\* A step on the wire keeps all of it.
LEMMA WireKeepsNotices ==
  ASSUME WholeInv, WireStep, UNCHANGED visitor
  PROVE  WholeInv'
<1>1. WireInv' /\ NoticeInv' /\ (Unannounced => Unannounced')
  BY WireKeepsMeaning, OneNoticeAtMost DEF WholeInv
<1>2. VisitorInv'  BY DEF WholeInv, VisitorInv
<1>3. AimInv'  BY <1>1, NobodyComesBack DEF WholeInv, AimInv
<1>4. KeptInv'
  <2> SUFFICES ASSUME visitor.step = "waiting", relay'.step = "loop", link' = "whole",
                      client'.step # "ended"
               PROVE  Kept'
    BY DEF KeptInv
  <2>1. relay.step = "loop" /\ link = "whole" /\ client.step # "ended"
    BY NobodyComesBack DEF WholeInv, AimInv
  <2>2. Kept  BY <2>1 DEF WholeInv, KeptInv
  <2>. QED  BY <2>1, <2>2, NoticeStays DEF WholeInv
<1>. QED  BY <1>1, <1>2, <1>3, <1>4 DEF WholeInv

\* A visitor's steps but the dispatch do not touch the wire, and do not make
\* him wait.
LEMMA VisitorAlone ==
  ASSUME WholeInv, VisitorStep, ~(Dispatch /\ Notified)
  PROVE  WholeInv'
<1>1. UNCHANGED <<setup, client, relay, toRelay, toClient, link, notices, kicked>>
  BY DEF VisitorStep, VisitorComes, RouterReads, LookUp, Dispatch, ServeConn, Swept, wireVars
<1>2. WireInv'  BY <1>1, SidesRest DEF WholeInv, WireInv, TypeInv
<1>3. NoticeInv' /\ (Unannounced => Unannounced')
  BY <1>1 DEF WholeInv, NoticeInv, Unannounced
<1>4. /\ VisitorInv' /\ visitor'.step # "waiting"
      /\ visitor'.step \in Ahead => visitor.step \in Ahead
  <2>1. ASSUME NEW step \in Steps, Moves(step) PROVE VisitorInv' /\ visitor'.step = step
    BY <2>1, Moving DEF WholeInv
  <2>2. ASSUME NEW n \in Statuses, Turned(n) PROVE VisitorInv' /\ visitor'.step = "gone"
    BY <2>2, TurnedAway DEF WholeInv
  <2>3. CASE VisitorComes  BY <2>1, <2>3 DEF VisitorComes, Steps, Ahead
  <2>4. CASE RouterReads
    <3>1. Moves("gone") \/ Turned(400) \/ Turned(404) \/ Moves("lookup")
      BY <2>4 DEF RouterReads
    <3>. QED  BY <2>1, <2>2, <2>4, <3>1 DEF RouterReads, Steps, Statuses, Ahead
  <2>5. CASE LookUp
    <3>1. visitor.step = "lookup" /\ (Moves("send") \/ Turned(503))
      BY <2>5 DEF LookUp
    <3>. QED  BY <2>1, <2>2, <3>1 DEF Steps, Statuses, Ahead
  <2>6. CASE Dispatch
    <3>1. Moves("piped") \/ Moves("gone")  BY <2>6 DEF Dispatch
    <3>. QED  BY <2>1, <3>1 DEF Steps, Ahead
  <2>7. CASE ServeConn  BY <2>1, <2>7 DEF ServeConn, Steps, Ahead
  <2>8. CASE Swept  BY <2>1, <2>8 DEF Swept, Steps, Ahead
  <2>. QED  BY <2>3, <2>4, <2>5, <2>6, <2>7, <2>8 DEF VisitorStep
<1>5. AimInv' /\ KeptInv'  BY <1>3, <1>4 DEF WholeInv, AimInv, KeptInv
<1>. QED  BY <1>2, <1>3, <1>4, <1>5 DEF WholeInv

\* The dispatch puts the first notice into the session's channel.
LEMMA VisitorAnnounced ==
  ASSUME WholeInv, Dispatch, Notified
  PROVE  WholeInv'
<1>1. /\ UNCHANGED <<setup, client, relay, toRelay, toClient, link, kicked>>
      /\ notices' = notices + 1 /\ notices \in Nat
  BY DEF Notified, WholeInv, WireInv, TypeInv
<1>2. WireInv'  BY <1>1, SidesRest DEF WholeInv, WireInv, TypeInv
<1>3. visitor.step = "send" /\ Unannounced
  BY DEF Dispatch, WholeInv, AimInv, Ahead
<1>4. \/ Moves("waiting") /\ relay.step \in {"loop", "closing"}
      \/ Moves("piped") \/ Moves("gone")
  BY DEF Dispatch
<1>5. /\ VisitorInv' /\ visitor'.step \notin Ahead
      /\ visitor'.step = "waiting" => relay.step \in {"loop", "closing"}
  BY <1>4, Moving DEF WholeInv, Steps, Ahead
<1>6. NoticeInv' /\ Kept'  BY <1>1, <1>3 DEF NoticeInv, Unannounced, Kept
<1>7. AimInv' /\ KeptInv'  BY <1>1, <1>5, <1>6 DEF AimInv, KeptInv, Late
<1>. QED  BY <1>2, <1>5, <1>6, <1>7 DEF WholeInv

\* The invariant of connection and visitor together.
THEOREM WholeInvariant == Spec => []WholeInv
<1>1. Init => WholeInv
  <2> SUFFICES ASSUME Init PROVE WholeInv  OBVIOUS
  <2>1. VisitorInv /\ visitor.step = "away"
    BY DEF Init, VisitorInv, VisitorStates, Steps, Statuses
  <2>2. WireInv  BY WireStart DEF Init
  <2>3. notices = 0 /\ client.heard = 0 /\ NewConnAt(toClient) = {}
    BY DEF Init, WireInit, NewConnAt
  <2>4. NoticeInv /\ Unannounced  BY <2>3 DEF NoticeInv, Unannounced
  <2>5. AimInv /\ KeptInv  BY <2>1, <2>4 DEF AimInv, KeptInv
  <2>. QED  BY <2>1, <2>2, <2>4, <2>5 DEF WholeInv
<1>2. WholeInv /\ [Next]_vars => WholeInv'
  <2> SUFFICES ASSUME WholeInv, [Next]_vars PROVE WholeInv'
    OBVIOUS
  <2>1. CASE WireStep /\ UNCHANGED visitor  BY <2>1, WireKeepsNotices
  <2>2. CASE VisitorStep  BY <2>2, VisitorAlone, VisitorAnnounced
  <2>3. CASE UNCHANGED vars
    <3>1. WireInv'  BY <2>3, SidesRest DEF vars, WholeInv, WireInv, TypeInv
    <3>. QED
      BY <2>3, <3>1
      DEF vars, WholeInv, VisitorInv, NoticeInv, AimInv, Unannounced, KeptInv, Kept
  <2>. QED  BY <2>1, <2>2, <2>3 DEF Next
<1>. QED  BY <1>1, <1>2, PTL DEF Spec

\* Client and relay mean the same (handshake and session of client.rs,
\* handle_incoming and handle_control of server.rs): the relay goes on only with
\* a client whose token it knows, in its role; the client gives up for good only
\* if it was refused; who is refused for his version or his token, on a link
\* that stays whole, does not miss it; the client is Online only by a grant of
\* this session.
THEOREM SidesAgree == Spec => []SpeakersAgree
<1>1. WholeInv => SpeakersAgree  BY MeaningIsShared DEF WholeInv
<1>. QED  BY <1>1, WholeInvariant, PTL

\* As long as the session goes on, on a whole connection to a client who is
\* there, the notice of a visitor who waits does not get lost (dispatch_visitor
\* and the select of run_control, session of client.rs): for any number of
\* pings, frames under way and reads that are cancelled.
THEOREM NoticesAreKept == Spec => []NoticeIsKept
<1>1. WholeInv => NoticeIsKept
  <2> SUFFICES ASSUME WholeInv, visitor.step = "waiting", relay.step = "loop",
                      link = "whole", client.step # "ended",
                      NEW i \in NewConnAt(toClient)
               PROVE  toClient[i] = [part |-> "body", of |-> "NewConn"]
    BY DEF NoticeIsKept, WholeInv, KeptInv, Kept, NewConnAt
  <2>1. toClient \in Seq(Pieces) /\ i \in 1..Len(toClient)
        /\ toClient[i].part = "body" /\ toClient[i].of = "NewConn"
    BY DEF WholeInv, WireInv, TypeInv, NewConnAt
  <2>2. toClient[i] \in Pieces  BY <2>1, ElementOfSeq
  <2>. QED  BY <2>1, <2>2 DEF Pieces
<1>. QED  BY <1>1, WholeInvariant, PTL

\* The types of both sides and of what is under way; a visitor is announced in
\* his client's session once at most (dispatch_visitor).
THEOREM TypeCorrect == Spec => []TypeOK
<1>1. WholeInv => TypeOK
  <2> SUFFICES ASSUME WholeInv PROVE TypeOK  OBVIOUS
  <2>1. WireTypeOK  BY WireIsTyped DEF WholeInv
  <2>2. notices + client.heard =< 1  BY DEF WholeInv, NoticeInv
  <2>3. /\ visitor.step \in Steps /\ visitor.to \in Segments
        /\ visitor.chunk \in Chunks /\ visitor.status \in Statuses
    BY DEF WholeInv, VisitorInv, VisitorStates
  <2>. QED  BY <2>1, <2>2, <2>3 DEF TypeOK, Steps, Statuses
<1>. QED  BY <1>1, WholeInvariant, PTL
=============================================================================

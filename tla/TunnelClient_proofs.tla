------------------------ MODULE TunnelClient_proofs ------------------------
(***************************************************************************)
(* Proofs about TunnelClient: its types, that it implements TunnelHandle,  *)
(* why it gives up for good and the law of its backoff, for every pair of  *)
(* backoff limits, number of faults and number of attempts.                *)
(***************************************************************************)
EXTENDS TunnelClient, FiniteSetTheorems, FunctionTheorems, TLAPS

\* A final status is the mark of an ended task, and an attempt under way,
\* up to the answer to its Bind, shows Connecting.
StatusInv ==
  /\ step = "ended" <=> status \in {"Fatal", "Idle"}
  /\ step \in {"connect", "handshake"} => status = "Connecting"
  /\ step = "session" /\ bindAsked => status = "Connecting"

Inv == TypeOK /\ StatusInv

\* The two halves of TypeOK: the numbers and the rest.
NumbersOK ==
  /\ attempt \in Nat
  /\ backoff \in BackoffStart..BackoffMax
  /\ faults \in 0..MaxFaults

SortsOK ==
  /\ config \in Configs
  /\ step \in {"top", "connect", "handshake", "session", "sleep", "ended"}
  /\ status \in {"Connecting", "Online", "Retrying", "Fatal", "Idle"}
  /\ stop \in BOOLEAN
  /\ bindAsked \in BOOLEAN
  /\ relayUp \in BOOLEAN
  /\ portBusy \in BOOLEAN
  /\ link \in Links

LEMMA Halves == /\ TypeOK <=> NumbersOK /\ SortsOK
                /\ TypeOK' <=> NumbersOK' /\ SortsOK'
  BY DEF TypeOK, NumbersOK, SortsOK

LEMMA InvInit == Init => Inv
<1> SUFFICES ASSUME Init PROVE Inv
  OBVIOUS
<1>1. NumbersOK
  BY ClientAssumption DEF Init, NumbersOK
<1>2. SortsOK
  BY DEF Init, SortsOK, Links
<1>3. StatusInv
  BY DEF Init, StatusInv
<1> QED
  BY <1>1, <1>2, <1>3, Halves DEF Inv

\* What the four ways to end an iteration of run do to the variables.
LEMMA ResultTypes ==
  ASSUME TypeOK, UNCHANGED <<config, stop, relayUp, portBusy>>, faults' \in 0..MaxFaults,
         Unless(EndIdle) \/ Unless(EndFatal) \/ Unless(Retry) \/ Unless(StartAfresh)
  PROVE  TypeOK'
<1>1. NumbersOK'
  BY Halves, ClientAssumption DEF NumbersOK, Unless, EndIdle, EndFatal, Retry, StartAfresh
<1>2. SortsOK'
  BY Halves DEF SortsOK, Links, Unless, EndIdle, EndFatal, Retry, StartAfresh
<1> QED
  BY <1>1, <1>2, Halves

LEMMA ResultStatus ==
  ASSUME Inv, step # "ended", stop' = stop,
         Unless(EndIdle) \/ Unless(EndFatal) \/ Unless(Retry) \/ Unless(StartAfresh)
  PROVE  StatusInv'
  BY DEF Inv, StatusInv, Unless, EndIdle, EndFatal, Retry, StartAfresh

LEMMA InvStep == Inv /\ [Next]_vars => Inv'
<1> SUFFICES ASSUME Inv, [Next]_vars PROVE Inv'
  OBVIOUS
<1> USE ClientAssumption
<1>1. CASE Begin
  <2>1. TypeOK'
    BY <1>1 DEF Begin, EndIdle, Inv, TypeOK, Configs, Links, envVars
  <2>2. StatusInv'
    BY <1>1 DEF Begin, EndIdle, Inv, StatusInv
  <2> QED
    BY <2>1, <2>2 DEF Inv
<1>2. CASE Wake
  <2>1. TypeOK'
    BY <1>2 DEF Wake, Inv, TypeOK, Configs, Links, envVars
  <2>2. StatusInv'
    BY <1>2 DEF Wake, Inv, StatusInv
  <2> QED
    BY <2>1, <2>2 DEF Inv
<1>3. CASE Interrupt
  <2>1. TypeOK'
    BY <1>3 DEF Interrupt, EndIdle, Inv, TypeOK, Configs, Links, envVars
  <2>2. StatusInv'
    BY <1>3 DEF Interrupt, EndIdle, Inv, StatusInv
  <2> QED
    BY <2>1, <2>2 DEF Inv
<1>4. CASE Connected \/ AuthOk \/ BindOk
  <2>1. TypeOK'
    BY <1>4 DEF Connected, AuthOk, BindOk, Inv, TypeOK, Configs, Links, envVars
  <2>2. StatusInv'
    BY <1>4 DEF Connected, AuthOk, BindOk, Inv, StatusInv
  <2> QED
    BY <2>1, <2>2 DEF Inv
<1>5. CASE ConnectFails \/ AuthErr \/ BindErr \/ LinkFails
  <2>1. /\ UNCHANGED <<config, stop, relayUp, portBusy, faults>>
        /\ step # "ended"
        /\ Unless(EndFatal) \/ Unless(Retry)
    BY <1>5 DEF ConnectFails, AuthErr, BindErr, LinkFails, envVars
  <2>2. faults' \in 0..MaxFaults
    BY <2>1 DEF Inv, TypeOK
  <2> QED
    BY <2>1, <2>2, ResultTypes, ResultStatus DEF Inv
<1>6. CASE Bye
  <2>1. /\ UNCHANGED <<config, stop, relayUp, portBusy>>
        /\ step # "ended"
        /\ Unless(StartAfresh)
        /\ faults' \in 0..MaxFaults
    BY <1>6 DEF Bye, Inv, TypeOK
  <2> QED
    BY <2>1, ResultTypes, ResultStatus DEF Inv
<1>7. CASE Environment
  <2>1. TypeOK'
    <3>1. NumbersOK'
      BY <1>7, Halves DEF Environment, AskToStop, RelayStops, RelayStarts, LinkBreaks, LinkDies,
                          PortTaken, PortFreed, Fault, Cut, NumbersOK, Inv, envVars
    <3>2. UNCHANGED <<config, step, status, bindAsked>>
      BY <1>7 DEF Environment, AskToStop, RelayStops, RelayStarts, LinkBreaks, LinkDies, PortTaken,
                  PortFreed
    <3>3. link' \in Links /\ stop' \in BOOLEAN
      BY <1>7, Halves DEF Environment, AskToStop, RelayStops, RelayStarts, LinkBreaks, LinkDies,
                          PortTaken, PortFreed, Cut, SortsOK, Links, Inv
    <3>4. relayUp' \in BOOLEAN /\ portBusy' \in BOOLEAN
      BY <1>7, Halves DEF Environment, AskToStop, RelayStops, RelayStarts, LinkBreaks, LinkDies,
                          PortTaken, PortFreed, SortsOK, Inv, envVars
    <3>5. SortsOK'
      BY <3>2, <3>3, <3>4, Halves DEF SortsOK, Inv
    <3> QED
      BY <3>1, <3>5, Halves
  <2>2. UNCHANGED <<step, status, bindAsked>>
    BY <1>7 DEF Environment, AskToStop, RelayStops, RelayStarts, LinkBreaks, LinkDies, PortTaken,
                PortFreed
  <2> QED
    BY <2>1, <2>2 DEF Inv, StatusInv
<1>8. CASE UNCHANGED vars
  BY <1>8 DEF vars, Inv, TypeOK, StatusInv
<1> QED
  BY <1>1, <1>2, <1>3, <1>4, <1>5, <1>6, <1>7, <1>8 DEF Next, Run, Session

\* The types and what a status says of the step run is at, in every state.
THEOREM ClientInvariant == Spec => []Inv
  BY InvInit, InvStep, PTL DEF Spec

\* Type correctness; in particular the backoff never leaves its limits.
THEOREM ClientTypes == Spec => []TypeOK
<1>1. Inv => TypeOK
  BY DEF Inv
<1> QED
  BY <1>1, ClientInvariant, PTL

-----------------------------------------------------------------------------
(* TunnelClient implements TunnelHandle.                                   *)

LEMMA HandleInit == Init => Handle!Init
  BY DEF Init, Handle!Init

\* A failed iteration is a stop, a last word, or a report.
LEMMA ResultIsHandleStep ==
  ASSUME Inv, step # "ended", stop' = stop,
         Unless(EndFatal) \/ Unless(Retry) \/ Unless(StartAfresh)
  PROVE  [Handle!Next]_(Handle!vars)
<1>1. CASE stop
  <2>1. Handle!Stop
    BY <1>1 DEF Unless, EndIdle, Handle!Stop
  <2> QED
    BY <2>1 DEF Handle!Next
<1>2. CASE ~stop /\ EndFatal
  <2>1. Handle!GiveUp
    BY <1>2 DEF EndFatal, Handle!GiveUp
  <2> QED
    BY <2>1 DEF Handle!Next
<1>3. CASE ~stop /\ Retry
  <2>1. Handle!Report("Retrying")
    BY <1>3 DEF Retry, Handle!Report
  <2> QED
    BY <2>1 DEF Handle!Next
<1>4. CASE ~stop /\ StartAfresh
  BY <1>4 DEF StartAfresh, Handle!vars
<1> QED
  BY <1>1, <1>2, <1>3, <1>4 DEF Unless

LEMMA HandleStep == Inv /\ [Next]_vars => [Handle!Next]_(Handle!vars)
<1> SUFFICES ASSUME Inv, [Next]_vars PROVE [Handle!Next]_(Handle!vars)
  OBVIOUS
<1>1. CASE Begin
  <2>1. CASE stop
    <3>1. Handle!Stop
      BY <1>1, <2>1 DEF Begin, EndIdle, Handle!Stop
    <3> QED
      BY <3>1 DEF Handle!Next
  <2>2. CASE ~stop
    <3>1. Handle!Report("Connecting")
      BY <1>1, <2>2 DEF Begin, Handle!Report
    <3> QED
      BY <3>1 DEF Handle!Next
  <2> QED
    BY <2>1, <2>2
<1>2. CASE Interrupt
  <2>1. Handle!Stop
    BY <1>2 DEF Interrupt, EndIdle, Handle!Stop
  <2> QED
    BY <2>1 DEF Handle!Next
<1>3. CASE Wake \/ Connected \/ AuthOk
  BY <1>3 DEF Wake, Connected, AuthOk, Handle!vars
<1>4. CASE BindOk
  <2>1. Handle!Report("Online")
    BY <1>4 DEF BindOk, Handle!Report, Inv, StatusInv
  <2> QED
    BY <2>1 DEF Handle!Next
<1>5. CASE ConnectFails \/ AuthErr \/ BindErr \/ LinkFails \/ Bye
  <2>1. /\ stop' = stop /\ step # "ended"
        /\ Unless(EndFatal) \/ Unless(Retry) \/ Unless(StartAfresh)
    BY <1>5 DEF ConnectFails, AuthErr, BindErr, LinkFails, Bye
  <2> QED
    BY <2>1, ResultIsHandleStep
<1>6. CASE AskToStop
  <2>1. Handle!AskToStop
    BY <1>6 DEF AskToStop, Handle!AskToStop
  <2> QED
    BY <2>1 DEF Handle!Next
<1>7. CASE RelayStops \/ RelayStarts \/ LinkBreaks \/ LinkDies \/ PortTaken \/ PortFreed
  BY <1>7 DEF RelayStops, RelayStarts, LinkBreaks, LinkDies, PortTaken, PortFreed, Handle!vars
<1>8. CASE UNCHANGED vars
  BY <1>8 DEF vars, Handle!vars
<1> QED
  BY <1>1, <1>2, <1>3, <1>4, <1>5, <1>6, <1>7, <1>8 DEF Next, Run, Session, Environment

\* The client implements what the desktop may rely on: it stops only when
\* asked or for good, and a final status is never covered by another.
THEOREM ClientImplementsHandle == Spec => HandleSpec
<1> QED
  BY ClientInvariant, HandleInit, HandleStep, PTL DEF Spec, HandleSpec, Handle!Spec

-----------------------------------------------------------------------------
(* Why it gives up.                                                        *)

LEMMA FatalInit == Init => FatalMeansHopeless
  BY DEF Init, FatalMeansHopeless

\* Only two answers of the relay end in Fatal, and neither comes to a client
\* that is configured rightly while its port is free.
LEMMA FatalStep == FatalMeansHopeless /\ ~portBusy /\ [Next]_vars => FatalMeansHopeless'
<1> SUFFICES ASSUME FatalMeansHopeless, ~portBusy, [Next]_vars PROVE FatalMeansHopeless'
  OBVIOUS
<1>1. CASE AuthErr
  <2>1. ~config.token /\ config' = config
    BY <1>1 DEF AuthErr
  <2> QED
    BY <2>1 DEF FatalMeansHopeless
<1>2. CASE BindErr
  <2>1. ~config.port /\ config' = config
    BY <1>2 DEF BindErr, Granted
  <2> QED
    BY <2>1 DEF FatalMeansHopeless
<1>3. CASE ConnectFails \/ LinkFails \/ Bye
  <2>1. config' = config /\ (status' # "Fatal" \/ status' = status)
    BY <1>3 DEF ConnectFails, LinkFails, Bye, Unless, EndIdle, Retry, StartAfresh
  <2> QED
    BY <2>1 DEF FatalMeansHopeless
<1>4. CASE Run \/ Connected \/ AuthOk \/ BindOk
  <2>1. config' = config /\ (status' # "Fatal" \/ status' = status)
    BY <1>4 DEF Run, Begin, Wake, Interrupt, EndIdle, Connected, AuthOk, BindOk
  <2> QED
    BY <2>1 DEF FatalMeansHopeless
<1>5. CASE Environment \/ UNCHANGED vars
  <2>1. config' = config /\ status' = status
    BY <1>5 DEF Environment, AskToStop, RelayStops, RelayStarts, LinkBreaks, LinkDies, PortTaken,
                PortFreed, vars
  <2> QED
    BY <2>1 DEF FatalMeansHopeless
<1> QED
  BY <1>1, <1>2, <1>3, <1>4, <1>5 DEF Next, Session

\* A client whose port is never occupied gives up for good only when its
\* configuration is wrong: the relay refuses its token or will not grant its port.
THEOREM OnlyBusyPorts == Spec => OnlyBusyPortsMislead
<1> QED
  BY FatalInit, FatalStep, PTL DEF Spec, OnlyBusyPortsMislead

-----------------------------------------------------------------------------
(* The backoff.                                                            *)

\* The powers of two are natural numbers, each twice the one before: n elements
\* have 2^n subsets, and one more element doubles them.
LEMMA PowersOfTwo ==
  /\ 2^0 = 1
  /\ \A n \in Nat : 2^n \in Nat \ {0} /\ 2^(n+1) = 2 * 2^n
<1>1. ASSUME NEW n \in Nat
      PROVE  /\ IsFiniteSet(SUBSET (1..n)) /\ Cardinality(SUBSET (1..n)) = 2^n
             /\ 2^n \in Nat
  <2>1. IsFiniteSet(1..n) /\ Cardinality(1..n) = n
    BY FS_Interval
  <2>2. IsFiniteSet(SUBSET (1..n)) /\ Cardinality(SUBSET (1..n)) = 2^n
    BY <2>1, FS_SUBSET
  <2> QED
    BY <2>2, FS_CardinalityType
<1>2. ASSUME NEW n \in Nat PROVE 2^n # 0
  <2>1. SUBSET (1..n) # {}
    OBVIOUS
  <2> QED
    BY <1>1, <2>1, FS_EmptySet
<1>3. ASSUME NEW n \in Nat PROVE 2^(n+1) = 2 * 2^n
  <2> DEFINE Old == SUBSET (1..n)
             New == {T \cup {n+1} : T \in Old}
             f == [T \in Old |-> T \cup {n+1}]
  <2>1. SUBSET (1..(n+1)) = Old \cup New
    <3>1. 1..(n+1) = (1..n) \cup {n+1}
      OBVIOUS
    <3>2. ASSUME NEW T \in SUBSET (1..(n+1)), n+1 \in T PROVE T \in New
      <4>1. T \ {n+1} \in Old /\ T = (T \ {n+1}) \cup {n+1}
        BY <3>1, <3>2
      <4> QED
        BY <4>1, Zenon
    <3>3. ASSUME NEW T \in SUBSET (1..(n+1)), n+1 \notin T PROVE T \in Old
      BY <3>1, <3>3
    <3>4. Old \cup New \subseteq SUBSET (1..(n+1))
      BY <3>1
    <3> HIDE DEF Old, New
    <3> QED
      BY <3>2, <3>3, <3>4
  <2>2. Old \cap New = {}
    BY n+1 \notin 1..n
  <2>3. f \in Bijection(Old, New)
    <3>1. f \in [Old -> New]
      OBVIOUS
    <3>2. ASSUME NEW S \in Old, NEW T \in Old, f[S] = f[T] PROVE S = T
      <4>1. n+1 \notin S /\ n+1 \notin T /\ S \cup {n+1} = T \cup {n+1}
        BY <3>2
      <4> QED
        BY <4>1
    <3>3. \A t \in New : \E T \in Old : f[T] = t
      OBVIOUS
    <3> QED
      BY <3>1, <3>2, <3>3, Fun_IsBij
  <2>4. IsFiniteSet(Old) /\ Cardinality(Old) = 2^n /\ 2^n \in Nat
    BY <1>1
  <2>5. IsFiniteSet(New) /\ Cardinality(New) = 2^n
    <3>1. ExistsBijection(Old, New)
      BY <2>3 DEF ExistsBijection
    <3> HIDE DEF Old, New
    <3> QED
      BY <2>4, <3>1, FS_Bijection
  <2>6. Cardinality(Old \cup New) = 2^n + 2^n - 0
    <3>1. Cardinality(Old \cap New) = 0
      BY <2>2, FS_EmptySet
    <3> HIDE DEF Old, New
    <3> QED
      BY <2>4, <2>5, <3>1, FS_Union
  <2>7. Cardinality(SUBSET (1..(n+1))) = 2^(n+1)
    BY <1>1
  <2>8. Cardinality(Old \cup New) = 2^(n+1)
    BY <2>1, <2>7
  <2> HIDE DEF Old, New
  <2> QED
    BY <2>4, <2>6, <2>8
<1>4. 2^0 = 1
  OBVIOUS
<1> QED
  BY <1>1, <1>2, <1>3, <1>4

\* The wait after n failed attempts, as BackoffLaw has it.
Wait(n) == IF BackoffStart * 2^n < BackoffMax THEN BackoffStart * 2^n ELSE BackoffMax

\* A doubled wait is the next one: also a wait at the limit, which stays there.
LEMMA WaitDoubles ==
  ASSUME NEW n \in Nat
  PROVE  Wait(n+1) = IF Wait(n) * 2 < BackoffMax THEN Wait(n) * 2 ELSE BackoffMax
<1>1. 2^n \in Nat \ {0} /\ 2^(n+1) = 2 * 2^n
  BY PowersOfTwo
<1>2. PICK x \in Nat : x = BackoffStart * 2^n
  BY <1>1, ClientAssumption
<1>3. BackoffStart * 2^(n+1) = 2 * x
  BY <1>1, <1>2, ClientAssumption
<1> QED
  BY <1>2, <1>3, ClientAssumption DEF Wait

\* A client that sleeps has failed at least once.
BackoffInv ==
  /\ step = "sleep" => attempt >= 1 /\ backoff = Wait(attempt - 1)
  /\ step \notin {"sleep", "ended"} => backoff = Wait(attempt)

LEMMA BackoffInit == Init => BackoffInv
BY PowersOfTwo, ClientAssumption DEF Init, BackoffInv, Wait

LEMMA BackoffStep == TypeOK /\ BackoffInv /\ [Next]_vars => BackoffInv'
<1> SUFFICES ASSUME TypeOK, BackoffInv, [Next]_vars PROVE BackoffInv'
  OBVIOUS
<1> USE DEF BackoffInv
<1>1. CASE Wake
  <2>1. attempt \in Nat /\ attempt - 1 \in Nat /\ attempt = (attempt - 1) + 1
    BY <1>1 DEF Wake, TypeOK
  <2>2. Wait(attempt) = IF backoff * 2 < BackoffMax THEN backoff * 2 ELSE BackoffMax
    BY <1>1, <2>1, WaitDoubles DEF Wake
  <2> QED
    BY <1>1, <2>2 DEF Wake
<1>2. ASSUME step \notin {"sleep", "ended"}, Unless(EndIdle) \/ Unless(EndFatal) \/ Unless(Retry)
      PROVE  BackoffInv'
  <2>1. attempt \in Nat
    BY DEF TypeOK
  <2> QED
    BY <1>2, <2>1 DEF Unless, EndIdle, EndFatal, Retry
<1>3. CASE Bye
  <2>1. Wait(0) = BackoffStart
    BY PowersOfTwo, ClientAssumption DEF Wait
  <2> QED
    BY <1>3, <2>1 DEF Bye, Unless, EndIdle, StartAfresh
<1>4. CASE Begin \/ Interrupt
  BY <1>4 DEF Begin, Interrupt, EndIdle
<1>5. CASE Connected \/ AuthOk \/ BindOk
  BY <1>5 DEF Connected, AuthOk, BindOk
<1>6. CASE ConnectFails \/ AuthErr \/ BindErr \/ LinkFails
  BY <1>2, <1>6 DEF ConnectFails, AuthErr, BindErr, LinkFails
<1>7. CASE Environment
  BY <1>7 DEF Environment, AskToStop, RelayStops, RelayStarts, LinkBreaks, LinkDies, PortTaken,
              PortFreed
<1>8. CASE UNCHANGED vars
  BY <1>8 DEF vars
<1> QED
  BY <1>1, <1>3, <1>4, <1>5, <1>6, <1>7, <1>8 DEF Next, Run, Session

\* The wait before a retry is the first one doubled for every failed attempt since
\* the last orderly end, up to the limit (the assignments of backoff in run).
THEOREM BackoffDoubles == Spec => []BackoffLaw
<1>1. TypeOK /\ BackoffInv => BackoffLaw
  BY DEF BackoffInv, BackoffLaw, Wait
<1> QED
  BY <1>1, BackoffInit, BackoffStep, ClientTypes, PTL DEF Spec
=============================================================================

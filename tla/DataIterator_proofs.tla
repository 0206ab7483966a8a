------------------------- MODULE DataIterator_proofs -------------------------
(***************************************************************************)
(* Proofs about DataIterator for every set of clients, buffer size and     *)
(* data set length.                                                        *)
(***************************************************************************)
EXTENDS DataIterator, TLAPS

\* What the loader is doing with the batch in its local variable.
LoaderInv ==
    /\ loopPc \in {"deliver", "full"} /\ next # EndOfData => next = loaded
    /\ loopPc = "deliver" /\ next = EndOfData => loaded = NumBatches
    /\ loopPc = "full" => next # EndOfData
    /\ loopPc = "finished" => iterationFinished
    /\ iterationFinished => loopPc \in {"finished", "exited"}
    /\ handed + Len(buf) <= loaded

\* Who may sleep at all.
SleepInv ==
    \A c \in Clients : c \in asleep => pc[c] \in {"get", "termWait"}

\* The inductive invariant.
IInv == TypeOK /\ LoaderInv /\ SleepInv
        /\ StreamInOrder /\ EndIsTruthful /\ NoLostWakeup

LEMMA InitIInv == Init => IInv
  <1> SUFFICES ASSUME Init PROVE IInv
    OBVIOUS
  <1> USE IteratorAssumption DEF Init, EndOfData, NoAnswer
  <1>1. TypeOK
    <2>1. buf \in Seq(1..NumBatches) /\ Len(buf) = 0
      OBVIOUS
    <2>2. answer \in [Clients -> 0..NoAnswer]
      OBVIOUS
    <2>3. asleep \subseteq Threads /\ joining \subseteq Clients
      OBVIOUS
    <2>. QED
      <3>1. NumBatches \in Nat /\ BufSize \in Nat
        BY DEF IteratorAssumption
      <3>2. pc \in [Clients -> ClientStates] /\ loopPc \in LoopStates
        BY DEF ClientStates, LoopStates
      <3>3. loaded \in 0..NumBatches /\ next \in 0..NumBatches
        BY <3>1
      <3>4. handed \in 0..NumBatches /\ Len(buf) <= BufSize
        BY <2>1, <3>1
      <3>. QED
        BY <2>1, <2>2, <2>3, <3>2, <3>3, <3>4 DEF TypeOK
  <1>2. LoaderInv /\ SleepInv /\ NoLostWakeup
    BY DEF LoaderInv, SleepInv, NoLostWakeup
  <1>3. StreamInOrder /\ EndIsTruthful
    BY DEF StreamInOrder, EndIsTruthful, InFlight
  <1>. QED
    BY <1>1, <1>2, <1>3 DEF IInv

\* Popping the front of the buffer keeps the rest in place.
LEMMA TailOfBuffer ==
  ASSUME NEW T, NEW s \in Seq(T), s # <<>>
  PROVE  /\ Tail(s) \in Seq(T)
         /\ Len(Tail(s)) = Len(s) - 1
         /\ Len(s) \in Nat \ {0}
         /\ Head(s) = s[1]
         /\ s[1] \in T
         /\ \A i \in 1..Len(Tail(s)) : Tail(s)[i] = s[i + 1]
  OBVIOUS

\* Pushing at the back keeps what is in front.
LEMMA AppendToBuffer ==
  ASSUME NEW T, NEW s \in Seq(T), NEW e \in T
  PROVE  /\ Append(s, e) \in Seq(T)
         /\ Len(s) \in Nat
         /\ Len(Append(s, e)) = Len(s) + 1
         /\ \A i \in 1..Len(s) : Append(s, e)[i] = s[i]
         /\ Append(s, e)[Len(s) + 1] = e
  OBVIOUS

LEMMA GetNextIInv ==
  ASSUME IInv, NEW c \in Clients, GetNext(c)
  PROVE  IInv'
  <1> USE IteratorAssumption DEF IInv, GetNext, CanEnter, EndOfData, NoAnswer
  <1>1. CASE GetBatch(c)
    <2> USE <1>1 DEF GetBatch, NotifyAll
    <2>1. buf # <<>> /\ buf \in Seq(1..NumBatches)
      BY DEF TypeOK
    <2>2. /\ buf' \in Seq(1..NumBatches)
          /\ Len(buf') = Len(buf) - 1
          /\ Len(buf) \in Nat \ {0}
          /\ Head(buf) = buf[1]
          /\ buf[1] \in 1..NumBatches
          /\ \A i \in 1..Len(buf') : buf'[i] = buf[i + 1]
      BY <2>1, TailOfBuffer
    <2>3. buf[1] = handed + 1
      BY <2>2 DEF StreamInOrder
    <2>4. TypeOK'
      BY <2>2, <2>3 DEF TypeOK, ClientStates
    <2>5. LoaderInv'
      BY <2>2 DEF LoaderInv, TypeOK
    <2>6. SleepInv' /\ NoLostWakeup'
      BY DEF SleepInv, NoLostWakeup
    <2>7. StreamInOrder'
      <3>1. ASSUME NEW i \in 1..Len(buf')
            PROVE  buf'[i] = handed' + i
        <4>1. i + 1 \in 1..Len(buf)
          BY <2>2, <3>1
        <4>2. buf[i + 1] = handed + (i + 1)
          BY <4>1 DEF StreamInOrder
        <4>. QED
          BY <2>2, <4>2 DEF TypeOK
      <3>2. InFlight' = InFlight /\ InFlight \in 0..1
        BY DEF InFlight
      <3>3. handed' + Len(buf') = handed + Len(buf)
        BY <2>2 DEF TypeOK
      <3>. QED
        BY <3>1, <3>2, <3>3 DEF StreamInOrder
    <2>8. EndIsTruthful'
      <3>1. handed' + Len(buf') = handed + Len(buf)
        BY <2>2 DEF TypeOK
      <3>2. handed # NumBatches
        BY <2>2, <2>3 DEF TypeOK
      <3>3. ASSUME NEW d \in Clients
            PROVE  answer'[d] # EndOfData
        <4>1. answer[d] # EndOfData
          BY <3>2 DEF EndIsTruthful
        <4>2. answer'[d] = IF d = c THEN handed + 1 ELSE answer[d]
          BY <2>2, <2>3 DEF TypeOK
        <4>. QED
          BY <4>1, <4>2 DEF TypeOK
      <3>. QED
        BY <3>1, <3>3 DEF EndIsTruthful
    <2>. QED
      BY <2>4, <2>5, <2>6, <2>7, <2>8
  <1>2. CASE GetEnd(c)
    <2> USE <1>2 DEF GetEnd
    <2>1. handed = NumBatches
      BY DEF EndIsTruthful, TypeOK
    <2>2. TypeOK'
      BY DEF TypeOK, ClientStates
    <2>3. LoaderInv' /\ StreamInOrder'
      BY DEF LoaderInv, StreamInOrder, InFlight
    <2>4. SleepInv' /\ NoLostWakeup'
      BY DEF SleepInv, NoLostWakeup, TypeOK
    <2>5. EndIsTruthful'
      BY <2>1 DEF EndIsTruthful, TypeOK
    <2>. QED
      BY <2>2, <2>3, <2>4, <2>5
  <1>3. CASE GetWait(c)
    <2> USE <1>3 DEF GetWait
    <2>1. TypeOK'
      BY DEF TypeOK, Threads
    <2>2. LoaderInv' /\ StreamInOrder' /\ EndIsTruthful'
      BY DEF LoaderInv, StreamInOrder, EndIsTruthful, InFlight
    <2>3. SleepInv' /\ NoLostWakeup'
      BY DEF SleepInv, NoLostWakeup, TypeOK
    <2>. QED
      BY <2>1, <2>2, <2>3
  <1>. QED
    BY <1>1, <1>2, <1>3

LEMMA TerminateIInv ==
  ASSUME IInv, NEW c \in Clients, Terminate(c)
  PROVE  IInv'
  <1> USE IteratorAssumption DEF IInv, Terminate, CanEnter
  <1>1. TypeOK'
    BY DEF TypeOK, ClientStates, Threads
  <1>2. LoaderInv' /\ StreamInOrder' /\ EndIsTruthful'
    BY DEF LoaderInv, StreamInOrder, EndIsTruthful, InFlight
  <1>3. SleepInv' /\ NoLostWakeup'
    BY DEF SleepInv, NoLostWakeup, TypeOK
  <1>. QED
    BY <1>1, <1>2, <1>3

LEMMA TerminateWakeIInv ==
  ASSUME IInv, NEW c \in Clients, TerminateWake(c) \/ TerminateJoin(c)
  PROVE  IInv'
  <1> USE IteratorAssumption DEF IInv, TerminateWake, TerminateJoin, CanEnter
  <1>1. TypeOK'
    BY DEF TypeOK, ClientStates
  <1>2. LoaderInv' /\ StreamInOrder' /\ EndIsTruthful'
    BY DEF LoaderInv, StreamInOrder, EndIsTruthful, InFlight
  <1>3. c \notin asleep
    BY DEF SleepInv
  <1>4. SleepInv' /\ NoLostWakeup'
    BY <1>3 DEF SleepInv, NoLostWakeup, TypeOK
  <1>. QED
    BY <1>1, <1>2, <1>4

LEMMA CallIInv ==
  ASSUME IInv, NEW c \in Clients, Call(c)
  PROVE  IInv'
  <1> USE IteratorAssumption DEF IInv, Call
  <1>1. TypeOK'
    BY DEF TypeOK, ClientStates
  <1>2. LoaderInv' /\ StreamInOrder' /\ EndIsTruthful'
    BY DEF LoaderInv, StreamInOrder, EndIsTruthful, InFlight
  <1>3. c \notin asleep
    BY DEF SleepInv
  <1>4. SleepInv' /\ NoLostWakeup'
    BY <1>3 DEF SleepInv, NoLostWakeup, TypeOK
  <1>. QED
    BY <1>1, <1>2, <1>4

LEMMA LoadIInv ==
  ASSUME IInv, Load \/ Start
  PROVE  IInv'
  <1> USE IteratorAssumption DEF IInv, EndOfData
  <1>1. CASE Load
    <2> USE <1>1 DEF Load
    <2>1. TypeOK'
      BY DEF TypeOK, LoopStates
    <2>2. LoaderInv' /\ EndIsTruthful'
      BY DEF LoaderInv, EndIsTruthful, TypeOK
    <2>3. StreamInOrder'
      <3>1. InFlight = 0
        BY DEF InFlight
      <3>2. handed + Len(buf) = loaded
        BY <3>1 DEF StreamInOrder, TypeOK
      <3>3. loaded' = loaded + InFlight'
        BY DEF InFlight, TypeOK
      <3>. QED
        BY <3>2, <3>3 DEF StreamInOrder
    <2>4. SleepInv' /\ NoLostWakeup'
      BY DEF SleepInv, NoLostWakeup
    <2>. QED
      BY <2>1, <2>2, <2>3, <2>4
  <1>2. CASE Start
    BY <1>2 DEF Start, TypeOK, LoaderInv, SleepInv, StreamInOrder,
       EndIsTruthful, NoLostWakeup, InFlight, LoopStates
  <1>. QED
    BY <1>1, <1>2

LEMMA DeliverIInv ==
  ASSUME IInv, Deliver
  PROVE  IInv'
  <1> USE IteratorAssumption
      DEF IteratorAssumption, IInv, Deliver, CanEnter, Exit, NotifyAll,
          EndOfData
  <1>1. CASE DeliverEnd
    <2> USE <1>1 DEF DeliverEnd
    <2>1. loopPc = "deliver" /\ loaded = NumBatches
      BY DEF LoaderInv
    <2>2. handed + Len(buf) = loaded
      BY <2>1 DEF StreamInOrder, InFlight, TypeOK
    <2>3. TypeOK'
      BY DEF TypeOK, LoopStates, Threads
    <2>4. LoaderInv' /\ EndIsTruthful'
      BY <2>1, <2>2 DEF LoaderInv, EndIsTruthful
    <2>5. StreamInOrder'
      BY <2>2 DEF StreamInOrder, InFlight, TypeOK
    <2>6. SleepInv' /\ NoLostWakeup'
      BY DEF SleepInv, NoLostWakeup
    <2>. QED
      BY <2>3, <2>4, <2>5, <2>6
  <1>2. CASE Abandon
    <2> USE <1>2 DEF Abandon
    <2>1. TypeOK'
      BY DEF TypeOK, LoopStates
    <2>2. LoaderInv' /\ EndIsTruthful'
      BY DEF LoaderInv, EndIsTruthful
    <2>3. StreamInOrder'
      BY DEF StreamInOrder
    <2>4. SleepInv' /\ NoLostWakeup'
      BY DEF SleepInv, NoLostWakeup
    <2>. QED
      BY <2>1, <2>2, <2>3, <2>4
  <1>3. CASE PushOrWait
    <2> USE <1>3 DEF PushOrWait
    <2>1. next = loaded /\ InFlight = 1 /\ ~iterationFinished
      BY DEF LoaderInv, InFlight
    <2>2. handed + Len(buf) + 1 = loaded
      BY <2>1 DEF StreamInOrder
    <2>3. CASE Len(buf) = BufSize
      <3>1. InFlight' = 1
        BY <2>3 DEF InFlight
      <3>2. TypeOK'
        BY <2>3 DEF TypeOK, LoopStates, Threads
      <3>3. LoaderInv' /\ EndIsTruthful'
        BY <2>1, <2>3 DEF LoaderInv, EndIsTruthful
      <3>4. StreamInOrder'
        BY <2>1, <2>2, <2>3, <3>1 DEF StreamInOrder
      <3>5. SleepInv' /\ NoLostWakeup'
        BY <2>3 DEF SleepInv, NoLostWakeup
      <3>. QED
        BY <3>2, <3>3, <3>4, <3>5
    <2>4. CASE Len(buf) # BufSize
      <3>1. /\ Len(buf) \in Nat
            /\ next \in 1..NumBatches
            /\ buf' \in Seq(1..NumBatches)
            /\ Len(buf') = Len(buf) + 1
            /\ \A i \in 1..Len(buf) : buf'[i] = buf[i]
            /\ buf'[Len(buf) + 1] = next
        <4>1. buf \in Seq(1..NumBatches) /\ next \in 1..NumBatches
          BY DEF TypeOK
        <4>2. buf' = Append(buf, next)
          BY <2>4
        <4>. QED
          BY <4>1, <4>2, AppendToBuffer
      <3>3. TypeOK'
        BY <2>4, <3>1 DEF TypeOK, LoopStates
      <3>7. handed' + Len(buf') = loaded'
        BY <2>2, <3>1 DEF TypeOK
      <3>8. LoaderInv'
        BY <2>1, <2>4, <3>7 DEF LoaderInv, TypeOK
      <3>4. LoaderInv' /\ EndIsTruthful'
        BY <2>1, <2>4, <3>8 DEF EndIsTruthful
      <3>5. StreamInOrder'
        <4>1. ASSUME NEW i \in 1..Len(buf')
              PROVE  buf'[i] = handed' + i
          <5>1. CASE i \in 1..Len(buf)
            <6>1. buf[i] = handed + i
              BY <5>1 DEF StreamInOrder
            <6>2. buf'[i] = buf[i]
              BY <3>1, <5>1
            <6>. QED
              BY <6>1, <6>2
          <5>2. CASE i = Len(buf) + 1
            BY <2>1, <2>2, <3>1, <5>2 DEF TypeOK
          <5>. QED
            BY <3>1, <4>1, <5>1, <5>2
        <4>2. InFlight' = 0
          BY <2>4 DEF InFlight
        <4>3. handed' + Len(buf') + InFlight' = loaded'
          BY <2>2, <3>1, <4>2 DEF TypeOK
        <4>. QED
          BY <4>1, <4>3 DEF StreamInOrder
      <3>6. SleepInv' /\ NoLostWakeup'
        BY <2>4 DEF SleepInv, NoLostWakeup
      <3>. QED
        BY <3>3, <3>4, <3>5, <3>6
    <2>. QED
      BY <2>3, <2>4
  <1>. QED
    BY <1>1, <1>2, <1>3

LEMMA AwaitFinishIInv ==
  ASSUME IInv, AwaitFinish
  PROVE  IInv'
  <1> USE DEF IInv, AwaitFinish, CanEnter, Exit, NotifyAll
  <1>1. TypeOK'
    BY DEF TypeOK, LoopStates, Threads
  <1>2. LoaderInv' /\ EndIsTruthful'
    BY DEF LoaderInv, EndIsTruthful
  <1>3. StreamInOrder'
    BY DEF StreamInOrder, InFlight
  <1>4. SleepInv' /\ NoLostWakeup'
    BY IteratorAssumption DEF IteratorAssumption, SleepInv, NoLostWakeup
  <1>. QED
    BY <1>1, <1>2, <1>3, <1>4

LEMMA SpuriousIInv ==
  ASSUME IInv, NEW t \in Threads, SpuriousWakeup(t)
  PROVE  IInv'
  BY DEF IInv, SpuriousWakeup, TypeOK, LoaderInv, SleepInv, StreamInOrder,
     EndIsTruthful, NoLostWakeup, InFlight

LEMMA StutterIInv ==
  ASSUME IInv, UNCHANGED vars
  PROVE  IInv'
  BY DEF IInv, vars, TypeOK, LoaderInv, SleepInv, StreamInOrder,
     EndIsTruthful, NoLostWakeup, InFlight

LEMMA NextIInv == IInv /\ [Next]_vars => IInv'
  <1> SUFFICES ASSUME IInv, [Next]_vars PROVE IInv'
    OBVIOUS
  <1>1. CASE Start
    BY <1>1, LoadIInv
  <1>2. CASE LoopStep
    BY <1>2, LoadIInv, DeliverIInv, AwaitFinishIInv DEF LoopStep
  <1>3. ASSUME NEW c \in Clients, Call(c)
        PROVE  IInv'
    BY <1>3, CallIInv
  <1>4. ASSUME NEW c \in Clients, ClientStep(c)
        PROVE  IInv'
    BY <1>4, GetNextIInv, TerminateIInv, TerminateWakeIInv DEF ClientStep
  <1>5. ASSUME NEW t \in Threads, SpuriousWakeup(t)
        PROVE  IInv'
    BY <1>5, SpuriousIInv
  <1>6. CASE AllDone
    BY <1>6, StutterIInv DEF AllDone
  <1>7. CASE UNCHANGED vars
    BY <1>7, StutterIInv
  <1>. QED
    BY <1>1, <1>2, <1>3, <1>4, <1>5, <1>6, <1>7 DEF Next

\* The inductive invariant holds in every reachable state.
THEOREM Invariant == Spec => []IInv
  BY InitIInv, NextIInv, PTL DEF Spec

\* The types and the bound on the buffer (Loop never pushes into a full one).
THEOREM TypeCorrect == Spec => []TypeOK
  <1>1. IInv => TypeOK
    BY DEF IInv
  <1>. QED
    BY <1>1, Invariant, PTL

\* Batches are buffered in loading order, behind those handed out, and none is
\* lost while Loop runs.
THEOREM Fifo == Spec => []StreamInOrder
  <1>1. IInv => StreamInOrder
    BY DEF IInv
  <1>. QED
    BY <1>1, Invariant, PTL

\* GetNext returns {} only at the true end of the data set.
THEOREM TruthfulEnd == Spec => []EndIsTruthful
  <1>1. IInv => EndIsTruthful
    BY DEF IInv
  <1>. QED
    BY <1>1, Invariant, PTL

\* No thread sleeps in cond_.wait through the event it waits for.
THEOREM WakeupsArrive == Spec => []NoLostWakeup
  <1>1. IInv => NoLostWakeup
    BY DEF IInv
  <1>. QED
    BY <1>1, Invariant, PTL
-----------------------------------------------------------------------------
\* After should_finish_ is set the buffer never grows.
THEOREM NoLatePush == Spec => NothingPushedAfterFinish
  <1>1. ASSUME IInv, [Next]_vars, shouldFinish
        PROVE  Len(buf') <= Len(buf)
    <2> USE <1>1
    <2>1. Len(buf) \in Nat
      BY DEF IInv, TypeOK
    <2>2. CASE buf' = buf
      BY <2>1, <2>2
    <2>3. ASSUME NEW c \in Clients, GetNext(c)
          PROVE  Len(buf') <= Len(buf)
      <3>1. CASE buf # <<>> /\ buf' = Tail(buf)
        BY <2>1, <3>1, TailOfBuffer DEF IInv, TypeOK
      <3>. QED
        BY <2>2, <2>3, <3>1 DEF GetNext, GetBatch, GetEnd, GetWait
    <2>4. CASE Deliver
      BY <2>2, <2>4 DEF Deliver, DeliverEnd, Abandon, PushOrWait
    <2>5. CASE Start \/ Load \/ AwaitFinish
      BY <2>2, <2>5 DEF Start, Load, AwaitFinish
    <2>6. ASSUME NEW c \in Clients,
                 \/ Call(c) \/ Terminate(c)
                 \/ TerminateWake(c) \/ TerminateJoin(c)
          PROVE  Len(buf') <= Len(buf)
      BY <2>2, <2>6 DEF Call, Terminate, TerminateWake, TerminateJoin
    <2>7. ASSUME NEW t \in Threads, SpuriousWakeup(t)
          PROVE  Len(buf') <= Len(buf)
      BY <2>2, <2>7 DEF SpuriousWakeup
    <2>8. CASE AllDone \/ UNCHANGED vars
      BY <2>2, <2>8 DEF AllDone, vars
    <2>. QED
      BY <2>3, <2>4, <2>5, <2>6, <2>7, <2>8
      DEF Next, LoopStep, ClientStep
  <1>2. IInv /\ [Next]_vars
        => [shouldFinish => Len(buf') <= Len(buf)]_vars
    BY <1>1
  <1>. QED
    BY <1>2, Invariant, PTL DEF Spec, NothingPushedAfterFinish
-----------------------------------------------------------------------------
Asking == {c \in Clients : pc[c] = "get"}

\* Every step is a step of the abstract stream or leaves it alone.
LEMMA StepSimulation ==
  ASSUME IInv, [Next]_vars
  PROVE  [Stream!StreamNext]_<<Asking, handed, answer, shouldFinish>>
  <1> USE IteratorAssumption DEF IteratorAssumption
  <1> DEFINE AbsVars == <<Asking, handed, answer, shouldFinish>>
  <1>1. ASSUME UNCHANGED <<pc, handed, answer, shouldFinish>>
        PROVE  UNCHANGED AbsVars
    BY <1>1 DEF Asking
  <1>2. CASE Start \/ LoopStep
    <2>1. UNCHANGED <<pc, handed, answer, shouldFinish>>
      BY <1>2 DEF Start, LoopStep, Load, Deliver, AwaitFinish
    <2>. QED
      BY <2>1, <1>1
  <1>3. ASSUME NEW c \in Clients, Call(c)
        PROVE  [Stream!StreamNext]_AbsVars
    <2> USE <1>3 DEF Call
    <2>1. CASE pc' = [pc EXCEPT ![c] = "get"]
      <3>1. c \notin Asking /\ Asking' = Asking \cup {c}
        BY <2>1 DEF Asking, IInv, TypeOK
      <3>. QED
        BY <3>1 DEF Asking, Stream!StreamNext, Stream!Ask
    <2>2. CASE pc' = [pc EXCEPT ![c] = "term"]
      <3>1. Asking' = Asking
        BY <2>2 DEF Asking, IInv, TypeOK
      <3>. QED
        BY <3>1
    <2>. QED
      BY <2>1, <2>2
  <1>4. ASSUME NEW c \in Clients, GetNext(c)
        PROVE  [Stream!StreamNext]_AbsVars
    <2> USE <1>4 DEF GetNext
    <2>1. CASE GetWait(c)
      BY <2>1, <1>1 DEF GetWait
    <2>2. CASE GetBatch(c) \/ GetEnd(c)
      <3>1. c \in Asking /\ Asking' = Asking \ {c}
        BY <2>2 DEF Asking, GetBatch, GetEnd, IInv, TypeOK
      <3>2. CASE GetBatch(c)
        <4>1. buf # <<>> /\ buf \in Seq(1..NumBatches)
          BY <3>2 DEF GetBatch, IInv, TypeOK
        <4>2. Head(buf) = buf[1] /\ buf[1] \in 1..NumBatches /\ 1 \in 1..Len(buf)
          BY <4>1, TailOfBuffer
        <4>3. buf[1] = handed + 1
          BY <4>2 DEF IInv, StreamInOrder
        <4>4. handed < NumBatches
          BY <4>2, <4>3 DEF IInv, TypeOK
        <4>5. Stream!HandOut(c)
          BY <3>2, <4>2, <4>3, <4>4 DEF GetBatch, Stream!HandOut
        <4>. QED
          BY <3>1, <4>5 DEF Asking, Stream!StreamNext, Stream!Answer
      <3>3. CASE GetEnd(c)
        <4>1. handed = NumBatches
          BY <3>3 DEF GetEnd, IInv, EndIsTruthful, TypeOK
        <4>2. Stream!ReportEnd(c)
          BY <3>3, <4>1
          DEF GetEnd, Stream!ReportEnd, EndOfData, Stream!EndOfData
        <4>. QED
          BY <3>1, <4>2 DEF Asking, Stream!StreamNext, Stream!Answer
      <3>. QED
        BY <2>2, <3>2, <3>3
    <2>. QED
      BY <2>1, <2>2
  <1>5. ASSUME NEW c \in Clients, Terminate(c)
        PROVE  [Stream!StreamNext]_AbsVars
    <2>1. Asking' = Asking
      BY <1>5 DEF Terminate, Asking, IInv, TypeOK
    <2>. QED
      BY <2>1, <1>5
      DEF Terminate, Asking, Stream!StreamNext, Stream!Close
  <1>6. ASSUME NEW c \in Clients, TerminateWake(c) \/ TerminateJoin(c)
        PROVE  [Stream!StreamNext]_AbsVars
    <2>1. Asking' = Asking
      BY <1>6 DEF TerminateWake, TerminateJoin, Asking, IInv, TypeOK
    <2>. QED
      BY <2>1, <1>6 DEF TerminateWake, TerminateJoin
  <1>7. ASSUME NEW t \in Threads, SpuriousWakeup(t)
        PROVE  [Stream!StreamNext]_AbsVars
    BY <1>1, <1>7 DEF SpuriousWakeup
  <1>8. CASE AllDone \/ UNCHANGED vars
    BY <1>1, <1>8 DEF AllDone, vars
  <1>. QED
    BY <1>2, <1>3, <1>4, <1>5, <1>6, <1>7, <1>8 DEF Next, ClientStep

\* DataIterator implements the abstract stream: every GetNext answers with the
\* next batch, or with {} after the last one.
THEOREM Refinement == Spec => StreamIsSafe
  <1>1. Init => Stream!StreamInit
    BY DEF Init, Stream!StreamInit, NoAnswer, Stream!NoAnswer
  <1>2. IInv /\ [Next]_vars
        => [Stream!StreamNext]_<<Asking, handed, answer, shouldFinish>>
    BY StepSimulation
  <1>. QED
    BY <1>1, <1>2, Invariant, PTL
    DEF Spec, StreamIsSafe, Stream!StreamSafety, Stream!streamVars, Asking
-----------------------------------------------------------------------------
(* Terminate with a single client and no spurious wakeups, the way the     *)
(* trainer and the tests use the iterator.                                 *)

\* A client awake again in Terminate was woken by Loop on its way out.
TerminateInv ==
    /\ joining = {c \in Clients : pc[c] = "join"}
    /\ \A c \in Clients : pc[c] = "termWait" =>
          shouldFinish /\ (c \notin asleep => loopPc = "exited")
    /\ joining # {} => loopPc = "exited"

LEMMA TerminateInvStep ==
  ASSUME \A c, d \in Clients : c = d, Spurious = FALSE,
         IInv, TerminateInv, [Next]_vars
  PROVE  TerminateInv'
  <1> USE IteratorAssumption DEF IteratorAssumption, TerminateInv
  <1>1. CASE Start
    BY <1>1 DEF Start, IInv, NoLostWakeup
  <1>2. CASE LoopStep
    BY <1>2 DEF LoopStep, Load, Deliver, DeliverEnd, Abandon, PushOrWait,
       AwaitFinish, Exit, NotifyAll
  <1>3. ASSUME NEW c \in Clients, Call(c)
        PROVE  TerminateInv'
    BY <1>3 DEF Call, IInv, TypeOK
  <1>4. ASSUME NEW c \in Clients, GetNext(c)
        PROVE  TerminateInv'
    BY <1>4 DEF GetNext, GetBatch, GetEnd, GetWait, NotifyAll, IInv, TypeOK
  <1>5. ASSUME NEW c \in Clients, Terminate(c)
        PROVE  TerminateInv'
    BY <1>5 DEF Terminate, IInv, TypeOK
  <1>6. ASSUME NEW c \in Clients, TerminateWake(c)
        PROVE  TerminateInv'
    BY <1>6 DEF TerminateWake, CanEnter, IInv, TypeOK
  <1>7. ASSUME NEW c \in Clients, TerminateJoin(c)
        PROVE  TerminateInv'
    BY <1>7 DEF TerminateJoin, IInv, TypeOK
  <1>8. CASE AllDone \/ UNCHANGED vars
    BY <1>8 DEF AllDone, vars
  <1>. QED
    BY <1>1, <1>2, <1>3, <1>4, <1>5, <1>6, <1>7, <1>8
    DEF Next, ClientStep, SpuriousWakeup

\* The only client never blocks in join holding the mutex that the loader
\* needs to leave Loop.
THEOREM JoinNeverBlocks ==
  ASSUME \A c, d \in Clients : c = d, Spurious = FALSE
  PROVE  Spec => []JoinAfterExit
  <1>1. Init => TerminateInv
    BY DEF Init, TerminateInv
  <1>2. IInv /\ TerminateInv /\ [Next]_vars => TerminateInv'
    BY TerminateInvStep
  <1>3. TerminateInv => JoinAfterExit
    BY DEF TerminateInv, JoinAfterExit
  <1>. QED
    BY <1>1, <1>2, <1>3, Invariant, PTL DEF Spec
=============================================================================

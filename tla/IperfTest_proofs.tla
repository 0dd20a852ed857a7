--------------------------- MODULE IperfTest_proofs ---------------------------
(***************************************************************************)
(* Proofs about the control plane (IperfTest), for every number of streams,*)
(* protocol, retry limit, duration and set of faults.                      *)
(***************************************************************************)
EXTENDS IperfTest, FiniteSetTheorems, TLAPS

USE DEF ioVars, stopVars

-----------------------------------------------------------------------------
(* Queues of messages.                                                     *)

(* What is in flight after a message is taken was in flight before.        *)
LEMMA InFlightTail ==
  ASSUME NEW S, NEW q \in Seq(S), q # <<>>, NEW m, InFlight(Tail(q), m)
  PROVE  InFlight(q, m)
  BY DEF InFlight

(* The message taken was in flight.                                        *)
LEMMA InFlightHead ==
  ASSUME NEW S, NEW q \in Seq(S), q # <<>>
  PROVE  InFlight(q, Head(q))
  BY DEF InFlight

(* What is in flight after a message is sent.                              *)
LEMMA InFlightAppend ==
  ASSUME NEW S, NEW q \in Seq(S), NEW x \in S, NEW m, InFlight(Append(q, x), m)
  PROVE  x = m \/ InFlight(q, m)
  BY DEF InFlight

(* Taking a message duplicates nothing.                                    *)
LEMMA AtMostOneTail ==
  ASSUME NEW S, NEW q \in Seq(S), q # <<>>, NEW m, AtMostOne(q, m)
  PROVE  AtMostOne(Tail(q), m)
  BY DEF AtMostOne

(* Taking the only copy of a message leaves none.                          *)
LEMMA OnlyOneTaken ==
  ASSUME NEW S, NEW q \in Seq(S), q # <<>>, AtMostOne(q, Head(q))
  PROVE  ~InFlight(Tail(q), Head(q))
  BY DEF AtMostOne, InFlight

(* Sending a message that is not in flight duplicates nothing.             *)
LEMMA AtMostOneAppend ==
  ASSUME NEW S, NEW q \in Seq(S), NEW x \in S, NEW m, AtMostOne(q, m), x # m \/ ~InFlight(q, m)
  PROVE  AtMostOne(Append(q, x), m)
  BY DEF AtMostOne, InFlight

(* An empty queue has nothing in flight.                                   *)
LEMMA EmptyQueue ==
  ASSUME NEW m
  PROVE  ~InFlight(<<>>, m) /\ AtMostOne(<<>>, m)
  BY DEF AtMostOne, InFlight

-----------------------------------------------------------------------------
(* Type correctness.                                                       *)

(* passed_ticks_ only moves in the sending loop, and OnSentFinished stores *)
(* to a stream of the list; with this the bounds of TypeOK are inductive.  *)
TicksInv ==
    /\ pc = "stopping" => finAt < NumStreams
    /\ pc \in {"start", "ready"} => ticks = 0
    /\ pc = "loop" => ticks <= TestTicks + 1

TypeInv == TypeOK /\ TicksInv

(* Each part of TypeOK only depends on its own variables.                  *)
LEMMA SenderFrame ==
  ASSUME SenderTypeOK, TicksInv, UNCHANGED mainVars, UNCHANGED testVars
  PROVE  SenderTypeOK' /\ TicksInv'
  BY DEF SenderTypeOK, TicksInv, mainVars, testVars

LEMMA StreamFrame ==
  ASSUME StreamTypeOK, UNCHANGED strVars
  PROVE  StreamTypeOK'
  BY DEF StreamTypeOK, strVars

LEMMA ChannelFrame ==
  ASSUME ChannelTypeOK, UNCHANGED chanVars, UNCHANGED envVars
  PROVE  ChannelTypeOK'
  BY DEF ChannelTypeOK, chanVars, envVars

LEMMA ReceiverFrame ==
  ASSUME ReceiverTypeOK, UNCHANGED recvVars
  PROVE  ReceiverTypeOK'
  BY DEF ReceiverTypeOK, recvVars

(* Stopping streams keeps their types.                                     *)
LEMMA StopType ==
  ASSUME StreamTypeOK, NEW S, StopStreams(S)
  PROVE  /\ strStopped' \in [Streams -> BOOLEAN]
         /\ strState' \in [Streams -> StreamState]
         /\ strConn' \in [Streams -> ConnectionState]
  <1>1. strStopped' \in [Streams -> BOOLEAN]
    BY DEF StopStreams, StreamTypeOK
  <1>2. strState' \in [Streams -> StreamState]
    BY DEF StopStreams, StreamTypeOK, StreamState
  <1>3. strConn' \in [Streams -> ConnectionState]
    BY DEF StopStreams, StreamTypeOK, ConnectionState
  <1> QED
    BY <1>1, <1>2, <1>3

(* Whoever calls Stop.                                                     *)
LEMMA BeginType ==
  ASSUME SenderTypeOK, NEW who \in {"main", "io"}, BeginStop(who)
  PROVE  /\ stopped' \in BOOLEAN /\ stopper' \in {"none", "main", "io"}
         /\ stopAt' \in {"out", "store", "streams", "swap", "join"}
  BY DEF BeginStop, SenderTypeOK

(* The steps of Stop.                                                      *)
LEMMA StopStepsType ==
  ASSUME TypeInv, StopSteps
  PROVE  TypeInv'
  <1> USE ConstantsAssumption DEF TypeInv, TypeOK
  <1>1. CASE StoreDone
    <2>1. SenderTypeOK' /\ TicksInv'
      BY <1>1 DEF StoreDone, SenderTypeOK, TicksInv, TestState, mainVars
    <2> QED
      BY <1>1, <2>1, StreamFrame, ChannelFrame, ReceiverFrame DEF StoreDone
  <1>2. CASE StopTestStreams
    <2>1. SenderTypeOK' /\ TicksInv'
      BY <1>2 DEF StopTestStreams, SenderTypeOK, TicksInv, mainVars
    <2>2. StreamTypeOK'
      <3>1. PICK S : StopStreams(S)
        BY <1>2 DEF StopTestStreams
      <3> QED
        BY <1>2, <3>1, StopType DEF StopTestStreams, StreamTypeOK
    <2> QED
      BY <1>2, <2>1, <2>2, ChannelFrame, ReceiverFrame DEF StopTestStreams
  <1>3. CASE ReleaseStreams
    <2>1. SenderTypeOK' /\ TicksInv'
      BY <1>3 DEF ReleaseStreams, SenderTypeOK, TicksInv, mainVars
    <2>2. strState' \in [Streams -> StreamState]
      BY <1>3 DEF ReleaseStreams, StreamTypeOK, StreamState
    <2>3. strConn' \in [Streams -> ConnectionState]
      BY <1>3 DEF ReleaseStreams, StreamTypeOK, ConnectionState
    <2>4. StreamTypeOK'
      BY <1>3, <2>2, <2>3 DEF ReleaseStreams, StreamTypeOK
    <2> QED
      BY <1>3, <2>1, <2>4, ChannelFrame, ReceiverFrame DEF ReleaseStreams
  <1>4. CASE EndStop
    <2>1. SenderTypeOK' /\ TicksInv'
      BY <1>4 DEF EndStop, SenderTypeOK, TicksInv, mainVars
    <2> QED
      BY <1>4, <2>1, StreamFrame, ChannelFrame, ReceiverFrame DEF EndStop
  <1> QED
    BY <1>1, <1>2, <1>3, <1>4 DEF StopSteps

(* The main thread of the sender.                                          *)
LEMMA MainType == TypeInv /\ Main => TypeInv'
  <1> SUFFICES ASSUME TypeInv, Main PROVE TypeInv'
    OBVIOUS
  <1> USE ConstantsAssumption DEF TypeInv, TypeOK
  <1>1. CASE Start
    <2>1. SenderTypeOK' /\ TicksInv'
      BY <1>1 DEF Start, SenderTypeOK, TicksInv, MainPc, testVars
    <2>2. StreamTypeOK'
      BY <1>1, StreamFrame DEF Start
    <2>3. ChannelTypeOK'
      BY <1>1 DEF Start, ChannelTypeOK, Fault
    <2>4. ReceiverTypeOK'
      BY <1>1, ReceiverFrame DEF Start
    <2> QED
      BY <2>1, <2>2, <2>3, <2>4
  <1>2. CASE WaitReady
    <2>1. SenderTypeOK' /\ TicksInv'
      BY <1>2 DEF WaitReady, SenderTypeOK, TicksInv, MainPc, ReadyFlagAfterCheck, IsStreamReady, AllConnected
    <2>2. StreamTypeOK'
      BY <1>2, StreamFrame DEF WaitReady
    <2>3. ChannelTypeOK'
      BY <1>2, ChannelFrame DEF WaitReady
    <2>4. ReceiverTypeOK'
      BY <1>2, ReceiverFrame DEF WaitReady
    <2> QED
      BY <2>1, <2>2, <2>3, <2>4
  <1>3. CASE SenderInterval
    <2>1. SenderTypeOK' /\ TicksInv'
      BY <1>3 DEF SenderInterval, SenderTypeOK, TicksInv, MainPc, TestState, TestFinishState, TimeIsUp
    <2>2. StreamTypeOK'
      BY <1>3, StreamFrame DEF SenderInterval
    <2>3. ChannelTypeOK'
      BY <1>3, ChannelFrame DEF SenderInterval
    <2>4. ReceiverTypeOK'
      BY <1>3, ReceiverFrame DEF SenderInterval
    <2> QED
      BY <2>1, <2>2, <2>3, <2>4
  <1>4. CASE FinishReport
    <2>1. SenderTypeOK' /\ TicksInv'
      BY <1>4 DEF FinishReport, SenderTypeOK, TicksInv, MainPc, testVars
    <2>2. StreamTypeOK'
      BY <1>4, StreamFrame DEF FinishReport
    <2>3. ChannelTypeOK'
      BY <1>4 DEF FinishReport, Dies, ChannelTypeOK
    <2>4. ReceiverTypeOK'
      BY <1>4, ReceiverFrame DEF FinishReport
    <2> QED
      BY <2>1, <2>2, <2>3, <2>4
  <1>10. CASE StoreStop
    <2>1. SenderTypeOK' /\ TicksInv'
      BY <1>10 DEF StoreStop, SenderTypeOK, TicksInv, MainPc, testVars
    <2>2. StreamTypeOK'
      BY <1>10 DEF StoreStop, StreamTypeOK, StreamState
    <2>3. ChannelTypeOK'
      BY <1>10 DEF StoreStop, Dies, ChannelTypeOK
    <2>4. ReceiverTypeOK'
      BY <1>10, ReceiverFrame DEF StoreStop
    <2> QED
      BY <2>1, <2>2, <2>3, <2>4
  <1>5. CASE SendTestSummary
    <2>1. SenderTypeOK' /\ TicksInv'
      BY <1>5 DEF SendTestSummary, SenderTypeOK, TicksInv, MainPc, testVars
    <2>2. StreamTypeOK'
      BY <1>5, StreamFrame DEF SendTestSummary
    <2>3. ChannelTypeOK'
      BY <1>5 DEF SendTestSummary, ChannelTypeOK, SendCtrl, envVars
    <2>4. ReceiverTypeOK'
      BY <1>5, ReceiverFrame DEF SendTestSummary
    <2> QED
      BY <2>1, <2>2, <2>3, <2>4
  <1>6. CASE StoreExchangeReports
    <2>1. SenderTypeOK' /\ TicksInv'
      BY <1>6 DEF StoreExchangeReports, SenderTypeOK, TicksInv, MainPc, TestState
    <2>2. StreamTypeOK'
      BY <1>6, StreamFrame DEF StoreExchangeReports
    <2>3. ChannelTypeOK'
      BY <1>6, ChannelFrame DEF StoreExchangeReports
    <2>4. ReceiverTypeOK'
      BY <1>6, ReceiverFrame DEF StoreExchangeReports
    <2> QED
      BY <2>1, <2>2, <2>3, <2>4
  <1>7. CASE WaitDone
    <2>1. SenderTypeOK' /\ TicksInv'
      BY <1>7 DEF WaitDone, SenderTypeOK, TicksInv, MainPc, testVars
    <2>2. StreamTypeOK'
      BY <1>7, StreamFrame DEF WaitDone
    <2>3. ChannelTypeOK'
      BY <1>7, ChannelFrame DEF WaitDone
    <2>4. ReceiverTypeOK'
      BY <1>7, ReceiverFrame DEF WaitDone
    <2> QED
      BY <2>1, <2>2, <2>3, <2>4
  <1>8. CASE StopAll
    <2>1. SenderTypeOK' /\ TicksInv'
      <3>1. UNCHANGED stopVars \/ BeginStop("main")
        BY <1>8 DEF StopAll
      <3>2. /\ stopped' \in BOOLEAN /\ stopper' \in {"none", "main", "io"}
            /\ stopAt' \in {"out", "store", "streams", "swap", "join"}
        BY <3>1, BeginType DEF SenderTypeOK
      <3>3. /\ pc' = "leave" /\ sigint' \in BOOLEAN /\ apiStopped' \in BOOLEAN
            /\ UNCHANGED <<waits, ticks, finAt, ioVars, state, listed, readyFlag>>
        BY <1>8 DEF StopAll, SenderTypeOK
      <3> QED
        BY <3>2, <3>3 DEF SenderTypeOK, TicksInv, MainPc
    <2>2. StreamTypeOK'
      BY <1>8, StreamFrame DEF StopAll
    <2>3. ChannelTypeOK'
      BY <1>8, ChannelFrame DEF StopAll
    <2>4. ReceiverTypeOK'
      BY <1>8, ReceiverFrame DEF StopAll
    <2> QED
      BY <2>1, <2>2, <2>3, <2>4
  <1>9. CASE Exit
    <2>1. SenderTypeOK' /\ TicksInv'
      BY <1>9 DEF Exit, SenderTypeOK, TicksInv, MainPc, testVars
    <2>2. StreamTypeOK'
      BY <1>9, StreamFrame DEF Exit
    <2>3. ChannelTypeOK'
      BY <1>9 DEF Exit, ChannelTypeOK, envVars
    <2>4. ReceiverTypeOK'
      BY <1>9, ReceiverFrame DEF Exit
    <2> QED
      BY <2>1, <2>2, <2>3, <2>4
  <1> QED
    BY <1>1, <1>2, <1>3, <1>4, <1>5, <1>6, <1>7, <1>8, <1>9, <1>10 DEF Main

(* The sender's handlers of control channel events.                        *)
LEMMA CtrlType == TypeInv /\ (CtrlChannel \/ CtrlFailed) => TypeInv'
  <1> SUFFICES ASSUME TypeInv, (CtrlChannel \/ CtrlFailed) PROVE TypeInv'
    OBVIOUS
  <1> USE ConstantsAssumption DEF TypeInv, TypeOK
  <1>1. CASE CtrlEstablished
    <2>1. SenderTypeOK' /\ TicksInv'
      BY <1>1 DEF CtrlEstablished, SenderTypeOK, TicksInv, TestState, mainVars
    <2>2. StreamTypeOK'
      BY <1>1, StreamFrame DEF CtrlEstablished
    <2>3. ChannelTypeOK'
      BY <1>1 DEF CtrlEstablished, ChannelTypeOK, envVars
    <2>4. ReceiverTypeOK'
      BY <1>1, ReceiverFrame DEF CtrlEstablished
    <2> QED
      BY <2>1, <2>2, <2>3, <2>4
  <1>2. CASE CtrlClosed
    <2>1. SenderTypeOK' /\ TicksInv'
      <3>1. /\ stopped' \in BOOLEAN /\ stopper' \in {"none", "main", "io"}
            /\ stopAt' \in {"out", "store", "streams", "swap", "join"}
        BY <1>2, BeginType DEF CtrlClosed
      <3> QED
        BY <1>2, <3>1 DEF CtrlClosed, SenderTypeOK, TicksInv, mainVars
    <2>2. StreamTypeOK'
      BY <1>2, StreamFrame DEF CtrlClosed
    <2>3. ChannelTypeOK'
      BY <1>2 DEF CtrlClosed, ChannelTypeOK, envVars
    <2>4. ReceiverTypeOK'
      BY <1>2, ReceiverFrame DEF CtrlClosed
    <2> QED
      BY <2>1, <2>2, <2>3, <2>4
  <1>3. CASE HandleAckMessage
    <2>1. SenderTypeOK' /\ TicksInv'
      <3>1. state' \in TestState /\ listed' \in BOOLEAN
        BY <1>3 DEF HandleAckMessage, SenderTypeOK, TestState
      <3> QED
        BY <1>3, <3>1 DEF HandleAckMessage, SenderTypeOK, TicksInv, mainVars
    <2>2. StreamTypeOK'
      BY <1>3 DEF HandleAckMessage, StreamTypeOK, StartSend, StreamState, ConnectionState, ThreadPc
    <2>3. ChannelTypeOK'
      BY <1>3 DEF HandleAckMessage, ChannelTypeOK, envVars
    <2>4. ReceiverTypeOK'
      BY <1>3, ReceiverFrame DEF HandleAckMessage
    <2> QED
      BY <2>1, <2>2, <2>3, <2>4
  <1>4. CASE HandleReadyMessage
    <2>1. SenderTypeOK' /\ TicksInv'
      BY <1>4 DEF HandleReadyMessage, SenderTypeOK, TicksInv
    <2>2. StreamTypeOK'
      BY <1>4, StreamFrame DEF HandleReadyMessage
    <2>3. ChannelTypeOK'
      BY <1>4 DEF HandleReadyMessage, ChannelTypeOK, envVars
    <2>4. ReceiverTypeOK'
      BY <1>4, ReceiverFrame DEF HandleReadyMessage
    <2> QED
      BY <2>1, <2>2, <2>3, <2>4
  <1>5. CASE CtrlFailed
    <2>1. SenderTypeOK' /\ TicksInv'
      BY <1>5, SenderFrame DEF CtrlFailed
    <2>2. StreamTypeOK'
      BY <1>5, StreamFrame DEF CtrlFailed
    <2>3. ChannelTypeOK'
      BY <1>5 DEF CtrlFailed, ChannelTypeOK, Fault
    <2>4. ReceiverTypeOK'
      BY <1>5, ReceiverFrame DEF CtrlFailed
    <2> QED
      BY <2>1, <2>2, <2>3, <2>4
  <1>6. CASE StartNext
    <2>1. SenderTypeOK' /\ TicksInv'
      BY <1>6 DEF StartNext, SenderTypeOK, TicksInv, testVars
    <2>2. StreamTypeOK'
      BY <1>6 DEF StartNext, StreamTypeOK, StartSend, StreamState, ThreadPc
    <2>3. ChannelTypeOK'
      BY <1>6 DEF StartNext, Dies, ChannelTypeOK
    <2>4. ReceiverTypeOK'
      BY <1>6, ReceiverFrame DEF StartNext
    <2> QED
      BY <2>1, <2>2, <2>3, <2>4
  <1> QED
    BY <1>1, <1>2, <1>3, <1>4, <1>5, <1>6 DEF CtrlChannel

(* The sender's handlers of data channel events.                           *)
LEMMA CallbackType ==
  ASSUME TypeInv, NEW s \in Streams, ConnectionCallback(s)
  PROVE  TypeInv'
  <1> USE ConstantsAssumption DEF TypeInv, TypeOK
  <1>1. CASE DataEstablished(s)
    <2>1. SenderTypeOK' /\ TicksInv'
      BY <1>1, SenderFrame DEF DataEstablished
    <2>2. StreamTypeOK'
      BY <1>1 DEF DataEstablished, StreamTypeOK, ConnectionState
    <2>3. ChannelTypeOK'
      BY <1>1, ChannelFrame DEF DataEstablished
    <2>4. ReceiverTypeOK'
      BY <1>1, ReceiverFrame DEF DataEstablished
    <2> QED
      BY <2>1, <2>2, <2>3, <2>4
  <1>2. CASE DataConnectFailed(s)
    <2>1. SenderTypeOK' /\ TicksInv'
      BY <1>2, SenderFrame DEF DataConnectFailed
    <2>2. StreamTypeOK'
      BY <1>2 DEF DataConnectFailed, StreamTypeOK, Attempts
    <2>3. ChannelTypeOK'
      BY <1>2 DEF DataConnectFailed, ChannelTypeOK, Fault, chanVars
    <2>4. ReceiverTypeOK'
      BY <1>2, ReceiverFrame DEF DataConnectFailed
    <2> QED
      BY <2>1, <2>2, <2>3, <2>4
  <1>3. CASE DataClosed(s)
    <2>1. SenderTypeOK' /\ TicksInv'
      BY <1>3, SenderFrame DEF DataClosed
    <2>2. StreamTypeOK'
      BY <1>3 DEF DataClosed, StreamTypeOK, ConnectionState
    <2>3. ChannelTypeOK'
      BY <1>3 DEF DataClosed, ChannelTypeOK, Fault, chanVars
    <2>4. ReceiverTypeOK'
      BY <1>3, ReceiverFrame DEF DataClosed
    <2> QED
      BY <2>1, <2>2, <2>3, <2>4
  <1>4. CASE SendDataError(s)
    <2>1. SenderTypeOK' /\ TicksInv'
      BY <1>4, SenderFrame DEF SendDataError
    <2>2. StreamTypeOK'
      BY <1>4 DEF SendDataError, StreamTypeOK
    <2>3. ChannelTypeOK'
      BY <1>4 DEF SendDataError, ChannelTypeOK, Fault, chanVars
    <2>4. ReceiverTypeOK'
      BY <1>4, ReceiverFrame DEF SendDataError
    <2> QED
      BY <2>1, <2>2, <2>3, <2>4
  <1>5. CASE FinAckReceived(s)
    <2>1. SenderTypeOK' /\ TicksInv'
      BY <1>5, SenderFrame DEF FinAckReceived
    <2>2. StreamTypeOK'
      BY <1>5 DEF FinAckReceived, StreamTypeOK, StreamState, Wire
    <2>3. ChannelTypeOK'
      BY <1>5, ChannelFrame DEF FinAckReceived
    <2>4. ReceiverTypeOK'
      BY <1>5, ReceiverFrame DEF FinAckReceived
    <2> QED
      BY <2>1, <2>2, <2>3, <2>4
  <1> QED
    BY <1>1, <1>2, <1>3, <1>4, <1>5 DEF ConnectionCallback

(* The sending threads.                                                    *)
LEMMA ThreadType ==
  ASSUME TypeInv, NEW s \in Streams, SendingThread(s)
  PROVE  TypeInv'
  <1> USE ConstantsAssumption DEF TypeInv, TypeOK
  <1>1. CASE ThreadBegin(s)
    <2>1. SenderTypeOK' /\ TicksInv'
      BY <1>1, SenderFrame DEF ThreadBegin
    <2>2. StreamTypeOK'
      <3>1. CASE strConn[s] = "CONNECTED"
        BY <1>1, <3>1 DEF ThreadBegin, StreamTypeOK, ThreadPc
      <3>2. CASE strConn[s] # "CONNECTED"
        <4>1. /\ thr' \in [Streams -> ThreadPc]
              /\ StopStreams({s})
              /\ UNCHANGED <<strRetry, strErr, wire>>
          BY <1>1, <3>2 DEF ThreadBegin, StreamTypeOK, ThreadPc
        <4> QED
          BY <4>1 DEF StopStreams, StreamTypeOK, StreamState, ConnectionState
      <3> QED
        BY <3>1, <3>2
    <2>3. ChannelTypeOK'
      BY <1>1, ChannelFrame DEF ThreadBegin
    <2>4. ReceiverTypeOK'
      BY <1>1, ReceiverFrame DEF ThreadBegin
    <2> QED
      BY <2>1, <2>2, <2>3, <2>4
  <1>2. CASE ThreadLoop(s)
    <2>1. SenderTypeOK' /\ TicksInv'
      BY <1>2, SenderFrame DEF ThreadLoop
    <2>2. StreamTypeOK'
      BY <1>2 DEF ThreadLoop, StreamTypeOK, StreamState, ThreadPc
    <2>3. ChannelTypeOK'
      BY <1>2, ChannelFrame DEF ThreadLoop
    <2>4. ReceiverTypeOK'
      BY <1>2, ReceiverFrame DEF ThreadLoop
    <2> QED
      BY <2>1, <2>2, <2>3, <2>4
  <1>3. CASE ThreadSend(s)
    <2>1. SenderTypeOK' /\ TicksInv'
      BY <1>3, SenderFrame DEF ThreadSend
    <2>2. StreamTypeOK'
      BY <1>3 DEF ThreadSend, StreamTypeOK, NullDataConn, Dies, ThreadPc, Wire
    <2>3. ChannelTypeOK'
      BY <1>3 DEF ThreadSend, ChannelTypeOK, NullDataConn, Dies
    <2>4. ReceiverTypeOK'
      BY <1>3, ReceiverFrame DEF ThreadSend
    <2> QED
      BY <2>1, <2>2, <2>3, <2>4
  <1>4. CASE ThreadRetry(s)
    <2>1. SenderTypeOK' /\ TicksInv'
      BY <1>4, SenderFrame DEF ThreadRetry
    <2>2. StreamTypeOK'
      BY <1>4 DEF ThreadRetry, StreamTypeOK, ThreadPc
    <2>3. ChannelTypeOK'
      BY <1>4, ChannelFrame DEF ThreadRetry
    <2>4. ReceiverTypeOK'
      BY <1>4, ReceiverFrame DEF ThreadRetry
    <2> QED
      BY <2>1, <2>2, <2>3, <2>4
  <1>5. CASE SendFIN(s)
    <2>1. SenderTypeOK' /\ TicksInv'
      BY <1>5, SenderFrame DEF SendFIN
    <2>2. StreamTypeOK'
      BY <1>5 DEF SendFIN, StreamTypeOK, NullDataConn, Dies, ThreadPc, Wire
    <2>3. ChannelTypeOK'
      BY <1>5 DEF SendFIN, ChannelTypeOK, NullDataConn, Dies
    <2>4. ReceiverTypeOK'
      BY <1>5, ReceiverFrame DEF SendFIN
    <2> QED
      BY <2>1, <2>2, <2>3, <2>4
  <1>6. CASE SendFINRetry(s)
    <2>1. SenderTypeOK' /\ TicksInv'
      BY <1>6, SenderFrame DEF SendFINRetry
    <2>2. StreamTypeOK'
      BY <1>6 DEF SendFINRetry, StreamTypeOK, ThreadPc
    <2>3. ChannelTypeOK'
      BY <1>6, ChannelFrame DEF SendFINRetry
    <2>4. ReceiverTypeOK'
      BY <1>6, ReceiverFrame DEF SendFINRetry
    <2> QED
      BY <2>1, <2>2, <2>3, <2>4
  <1> QED
    BY <1>1, <1>2, <1>3, <1>4, <1>5, <1>6 DEF SendingThread

(* The receiver.                                                           *)
LEMMA ReceiverType ==
  ASSUME TypeInv, ReceiverIO \/ ReceiverInterval
  PROVE  TypeInv'
  <1> USE ConstantsAssumption DEF TypeInv, TypeOK
  <1>1. CASE AcceptCtrl
    <2>1. SenderTypeOK' /\ TicksInv'
      BY <1>1, SenderFrame DEF AcceptCtrl
    <2>2. StreamTypeOK'
      BY <1>1, StreamFrame DEF AcceptCtrl
    <2>3. ChannelTypeOK'
      BY <1>1, ChannelFrame DEF AcceptCtrl
    <2>4. ReceiverTypeOK'
      BY <1>1 DEF AcceptCtrl, ReceiverTypeOK
    <2> QED
      BY <2>1, <2>2, <2>3, <2>4
  <1>2. CASE HandleTestParameters
    <2>1. SenderTypeOK' /\ TicksInv'
      BY <1>2, SenderFrame DEF HandleTestParameters
    <2>2. StreamTypeOK'
      BY <1>2, StreamFrame DEF HandleTestParameters
    <2>3. ChannelTypeOK'
      BY <1>2 DEF HandleTestParameters, ChannelTypeOK, SendAck, SendCtrl, envVars
    <2>4. ReceiverTypeOK'
      BY <1>2 DEF HandleTestParameters, ReceiverTypeOK, SendAck, AckedState
    <2> QED
      BY <2>1, <2>2, <2>3, <2>4
  <1>3. CASE HandleSummaryMessage
    <2>1. SenderTypeOK' /\ TicksInv'
      BY <1>3, SenderFrame DEF HandleSummaryMessage
    <2>2. StreamTypeOK'
      BY <1>3, StreamFrame DEF HandleSummaryMessage
    <2>3. ChannelTypeOK'
      <3>1. toRecv' \in Seq({"PARAMS", "SUMMARY"})
        BY <1>3 DEF HandleSummaryMessage, ChannelTypeOK
      <3>2. toSend' \in Seq({"ACK", "READY"})
        BY <1>3 DEF HandleSummaryMessage, ChannelTypeOK, SendAck, SendCtrl
      <3> QED
        BY <1>3, <3>1, <3>2 DEF HandleSummaryMessage, ChannelTypeOK, envVars
    <2>4. ReceiverTypeOK'
      BY <1>3 DEF HandleSummaryMessage, ReceiverTypeOK, SendAck, AckedState
    <2> QED
      BY <2>1, <2>2, <2>3, <2>4
  <1>4. CASE ReceiverCtrlClosed
    <2>1. SenderTypeOK' /\ TicksInv'
      BY <1>4, SenderFrame DEF ReceiverCtrlClosed
    <2>2. StreamTypeOK'
      BY <1>4, StreamFrame DEF ReceiverCtrlClosed
    <2>3. ChannelTypeOK'
      BY <1>4 DEF ReceiverCtrlClosed, ChannelTypeOK, envVars
    <2>4. ReceiverTypeOK'
      BY <1>4 DEF ReceiverCtrlClosed, ReceiverTypeOK, ReceiverStop
    <2> QED
      BY <2>1, <2>2, <2>3, <2>4
  <1>5. CASE \E s \in Streams, k \in Attempts : DataListenCallback(s, k)
    <2>1. SenderTypeOK' /\ TicksInv'
      BY <1>5, SenderFrame DEF DataListenCallback
    <2>2. StreamTypeOK'
      BY <1>5, StreamFrame DEF DataListenCallback
    <2>3. ChannelTypeOK'
      BY <1>5 DEF DataListenCallback, ChannelTypeOK, SendCtrl, envVars
    <2>4. ReceiverTypeOK'
      BY <1>5 DEF DataListenCallback, ReceiverTypeOK
    <2> QED
      BY <2>1, <2>2, <2>3, <2>4
  <1>6. CASE \E s \in Streams : OnReceivedFIN(s)
    <2>1. SenderTypeOK' /\ TicksInv'
      BY <1>6, SenderFrame DEF OnReceivedFIN
    <2>2. StreamTypeOK'
      BY <1>6 DEF OnReceivedFIN, StreamTypeOK, Wire
    <2>3. ChannelTypeOK'
      BY <1>6, ChannelFrame DEF OnReceivedFIN
    <2>4. ReceiverTypeOK'
      BY <1>6 DEF OnReceivedFIN, ReceiverTypeOK, Attempts
    <2> QED
      BY <2>1, <2>2, <2>3, <2>4
  <1>7. CASE ReceiverInterval
    <2>1. SenderTypeOK' /\ TicksInv'
      BY <1>7, SenderFrame DEF ReceiverInterval
    <2>2. StreamTypeOK'
      BY <1>7, StreamFrame DEF ReceiverInterval
    <2>3. ChannelTypeOK'
      BY <1>7, ChannelFrame DEF ReceiverInterval
    <2>4. ReceiverTypeOK'
      BY <1>7 DEF ReceiverInterval, ReceiverTypeOK
    <2> QED
      BY <2>1, <2>2, <2>3, <2>4
  <1> QED
    BY <1>1, <1>2, <1>3, <1>4, <1>5, <1>6, <1>7 DEF ReceiverIO

(* The environment.                                                        *)
LEMMA EnvironmentType ==
  ASSUME TypeInv, Interrupt \/ InterruptStops \/ BreakCtrl \/ ServerExit
  PROVE  TypeInv'
  <1> USE ConstantsAssumption DEF TypeInv, TypeOK
  <1>1. CASE Interrupt
    <2>1. SenderTypeOK' /\ TicksInv'
      BY <1>1 DEF Interrupt, SenderTypeOK, TicksInv, testVars
    <2>2. StreamTypeOK'
      BY <1>1, StreamFrame DEF Interrupt
    <2>3. ChannelTypeOK'
      BY <1>1 DEF Interrupt, ChannelTypeOK, Fault, chanVars
    <2>4. ReceiverTypeOK'
      BY <1>1, ReceiverFrame DEF Interrupt
    <2> QED
      BY <2>1, <2>2, <2>3, <2>4
  <1>2. CASE BreakCtrl
    <2>1. SenderTypeOK' /\ TicksInv'
      BY <1>2, SenderFrame DEF BreakCtrl
    <2>2. StreamTypeOK'
      BY <1>2, StreamFrame DEF BreakCtrl
    <2>3. ChannelTypeOK'
      <3>1. Fault("ctrl") /\ netUp' = FALSE /\ UNCHANGED <<sLink, toRecv, toSend, crashed>>
        BY <1>2 DEF BreakCtrl
      <3>2. faults' \in 0..MaxFaults
        BY <3>1 DEF ChannelTypeOK, Fault
      <3> QED
        BY <3>1, <3>2 DEF ChannelTypeOK
    <2>4. ReceiverTypeOK'
      BY <1>2, ReceiverFrame DEF BreakCtrl
    <2> QED
      BY <2>1, <2>2, <2>3, <2>4
  <1>3. CASE ServerExit
    <2>1. SenderTypeOK' /\ TicksInv'
      BY <1>3, SenderFrame DEF ServerExit
    <2>2. StreamTypeOK'
      BY <1>3, StreamFrame DEF ServerExit
    <2>3. ChannelTypeOK'
      <3>1. Fault("server") /\ netUp' = FALSE /\ toRecv' = <<>> /\ UNCHANGED <<sLink, toSend, crashed>>
        BY <1>3 DEF ServerExit
      <3>2. faults' \in 0..MaxFaults
        BY <3>1 DEF ChannelTypeOK, Fault
      <3>3. <<>> \in Seq({"PARAMS", "SUMMARY"})
        OBVIOUS
      <3> QED
        BY <3>1, <3>2, <3>3, Zenon DEF ChannelTypeOK
    <2>4. ReceiverTypeOK'
      BY <1>3 DEF ServerExit, ReceiverTypeOK
    <2> QED
      BY <2>1, <2>2, <2>3, <2>4
  <1>4. CASE InterruptStops
    <2>1. SenderTypeOK' /\ TicksInv'
      <3>1. UNCHANGED stopVars \/ BeginStop("io")
        BY <1>4 DEF InterruptStops
      <3>2. /\ stopped' \in BOOLEAN /\ stopper' \in {"none", "main", "io"}
            /\ stopAt' \in {"out", "store", "streams", "swap", "join"}
        BY <3>1, BeginType DEF SenderTypeOK
      <3>3. /\ apiStopped' = TRUE /\ signalled' = FALSE
            /\ UNCHANGED <<pc, waits, ticks, sigint, finAt, startAt, state, listed, readyFlag>>
        BY <1>4 DEF InterruptStops
      <3> QED
        BY <3>2, <3>3 DEF SenderTypeOK, TicksInv
    <2> QED
      BY <1>4, <2>1, StreamFrame, ChannelFrame, ReceiverFrame DEF InterruptStops
  <1> QED
    BY <1>1, <1>2, <1>3, <1>4

(* Every step of the control plane keeps every variable in its type, and   *)
(* passed_ticks_, the waiting counters and connect_retry_cnt_ within the   *)
(* bounds the code gives them.                                             *)
THEOREM TypeCorrect == Spec => []TypeOK
  <1>1. Init => TypeInv
    <2> SUFFICES ASSUME Init PROVE TypeInv
      OBVIOUS
    <2> USE ConstantsAssumption
    <2>1. SenderTypeOK /\ TicksInv
      <3>1. 0 \in 0..(ReadyWaits + DoneWaits) /\ 0 \in 0..(TestTicks + 2) /\ 0 \in 0..NumStreams
        OBVIOUS
      <3>2. pc = "start" /\ waits = 0 /\ ticks = 0 /\ state = "NONE"
        BY DEF Init
      <3>3. /\ sigint = FALSE /\ stopped = FALSE /\ listed = FALSE /\ readyFlag = FALSE
            /\ apiStopped = FALSE /\ signalled = FALSE /\ finAt = 0 /\ startAt = 0
            /\ stopper = "none" /\ stopAt = "out"
        BY DEF Init
      <3>4. TicksInv
        BY <3>2 DEF TicksInv
      <3> QED
        BY <3>1, <3>2, <3>3, <3>4, Zenon DEF SenderTypeOK, MainPc, TestState
    <2>2. StreamTypeOK
      BY DEF Init, StreamTypeOK, StreamState, ConnectionState, Attempts, ThreadPc, Wire
    <2>3. ChannelTypeOK
      <3>1. <<>> \in Seq({"PARAMS", "SUMMARY"}) /\ <<>> \in Seq({"ACK", "READY"})
        OBVIOUS
      <3>2. 0 \in 0..MaxFaults
        OBVIOUS
      <3> QED
        BY <3>1, <3>2, Zenon DEF Init, ChannelTypeOK
    <2>4. ReceiverTypeOK
      BY DEF Init, ReceiverTypeOK
    <2> QED
      BY <2>1, <2>2, <2>3, <2>4 DEF TypeInv, TypeOK
  <1>2. TypeInv /\ [Next]_vars => TypeInv'
    <2> SUFFICES ASSUME TypeInv, [Next]_vars PROVE TypeInv'
      OBVIOUS
    <2>1. CASE UNCHANGED vars
      BY <2>1, SenderFrame, StreamFrame, ChannelFrame, ReceiverFrame DEF TypeInv, TypeOK, vars
    <2>2. CASE Next
      BY <2>2, MainType, StopStepsType, CtrlType, CallbackType, ThreadType, ReceiverType, EnvironmentType DEF Next
    <2> QED
      BY <2>1, <2>2
  <1>3. TypeInv => TypeOK
    BY DEF TypeInv
  <1> QED
    BY <1>1, <1>2, <1>3, PTL DEF Spec

==============================================================================

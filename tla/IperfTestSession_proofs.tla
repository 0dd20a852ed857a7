------------------------ MODULE IperfTestSession_proofs ------------------------
(***************************************************************************)
(* The session invariant of the control plane (IperfTest), for every       *)
(* number of streams, protocol, retry limit, duration and set of faults:   *)
(* what the messages in flight say about the two peers.  From it follow    *)
(* that no message finds its test missing, that no running sending thread  *)
(* is replaced, that the control plane implements IperfSession, and that a *)
(* client that ends well is right about its server.                        *)
(***************************************************************************)
EXTENDS IperfTest_proofs

USE DEF ioVars, stopVars

-----------------------------------------------------------------------------
(* Each part of SessionInv is kept by a step that leaves its variables     *)
(* alone.                                                                  *)
LEMMA OpeningFrame ==
  ASSUME OpeningInv, UNCHANGED <<pc, state, sLink, netUp, toRecv, toSend, rLink>>
  PROVE  OpeningInv'
  BY DEF OpeningInv

LEMMA ReceiverInvFrame ==
  ASSUME ReceiverInv, UNCHANGED <<rState, rPhase, rLink, rAccepted>>,
         pc \in AfterSummary => pc' \in AfterSummary
  PROVE  ReceiverInv'
  BY DEF ReceiverInv

LEMMA RequestFrame ==
  ASSUME RequestInv, UNCHANGED <<toRecv, rState, rLink>>,
         pc \in AfterSummary => pc' \in AfterSummary
  PROVE  RequestInv'
  BY DEF RequestInv

LEMMA AckFrame ==
  ASSUME AckInv, UNCHANGED <<toSend, rState>>,
         Acked' => Acked /\ state' # "EXCHANGE_PARAMETERS"
  PROVE  AckInv'
  BY DEF AckInv

LEMMA StopFrame ==
  ASSUME StopInv, UNCHANGED <<signalled, stopAt>>,
         sigint => sigint', sLink = "closed" => sLink' = "closed"
  PROVE  StopInv'
  BY DEF StopInv

LEMMA ReadyFrame ==
  ASSUME ReadyInv, UNCHANGED <<startAt, toSend, thr, rLink, rAccepted>>
  PROVE  ReadyInv'
  BY DEF ReadyInv

LEMMA SessionFrame ==
  ASSUME SessionInv,
         UNCHANGED <<pc, sigint, ioVars, state, stopAt, listed, sLink, netUp, toRecv, toSend, thr,
                     rState, rPhase, rLink, rAccepted>>
  PROVE  SessionInv'
  <1>1. Acked' => Acked /\ state' # "EXCHANGE_PARAMETERS"
    BY DEF SessionInv, AckInv, Acked
  <1> QED
    BY <1>1, OpeningFrame, ReceiverInvFrame, RequestFrame, AckFrame, StopFrame, ReadyFrame DEF SessionInv

(* Until the sender's end is up, the receiver has not joined.              *)
LEMMA NotJoined ==
  ASSUME SessionInv, sLink \in {"none", "connecting"}
  PROVE  rState = "NONE" /\ ~Acked
  BY DEF SessionInv, OpeningInv, ReceiverInv, AckInv

(* A step of the sender that only moves its main thread on or gives up.    *)
LEMMA SenderMoves ==
  ASSUME TypeOK, SessionInv,
         UNCHANGED <<startAt, toRecv, toSend, sLink, thr, rState, rPhase, rLink, rAccepted>>,
         StopInv',
         netUp' => netUp,
         pc' # "start" \/ pc' = pc,
         pc \in AfterSummary => pc' \in AfterSummary,
         state' \in {state, "DONE"},
         state = "EXCHANGE_REPORTS" => pc \in Quitting \/ pc' \in {"wait"} \cup Quitting,
         pc \in Quitting => pc' \in Quitting,
         Acked' => Acked
  PROVE  SessionInv'
  <1>1. OpeningInv'
    BY DEF SessionInv, OpeningInv, TypeOK, ChannelTypeOK
  <1>2. ReceiverInv' /\ RequestInv' /\ ReadyInv'
    BY ReceiverInvFrame, RequestFrame, ReadyFrame DEF SessionInv
  <1>3. AckInv'
    BY AckFrame DEF SessionInv, AckInv
  <1> QED
    BY <1>1, <1>2, <1>3 DEF SessionInv

-----------------------------------------------------------------------------
(* The main thread of the sender.                                          *)
LEMMA MainSession == TypeOK /\ SessionInv /\ Main => SessionInv'
  <1> SUFFICES ASSUME TypeOK, SessionInv, Main PROVE SessionInv'
    OBVIOUS
  <1>1. CASE Start
    <2>1. sLink = "none" /\ pc' = "ready" /\ sLink' \in {"none", "connecting"}
      BY <1>1 DEF Start, SessionInv, OpeningInv
    <2>2. UNCHANGED <<state, sigint, ioVars, stopAt, listed, netUp, toRecv, toSend, thr,
                      rState, rPhase, rLink, rAccepted>>
      BY <1>1 DEF Start, testVars, strVars, recvVars
    <2>3. OpeningInv'
      BY <2>1, <2>2 DEF SessionInv, OpeningInv
    <2>4. ReceiverInv' /\ RequestInv'
      BY <1>1, <2>2, ReceiverInvFrame, RequestFrame DEF Start, SessionInv, AfterSummary, Quitting
    <2>5. AckInv'
      BY <2>1, <2>2, NotJoined, AckFrame DEF SessionInv, Acked
    <2>6. StopInv' /\ ReadyInv'
      BY <2>1, <2>2, StopFrame, ReadyFrame DEF SessionInv
    <2> QED
      BY <2>3, <2>4, <2>5, <2>6 DEF SessionInv
  <1>2. CASE WaitReady
    <2>1. Acked' => Acked
      BY <1>2 DEF WaitReady, Acked, IsStreamReady
    <2>2. StopInv'
      BY <1>2, StopFrame DEF WaitReady, SessionInv, chanVars
    <2> QED
      BY <1>2, <2>1, <2>2, SenderMoves DEF WaitReady, AfterSummary, Quitting, SessionInv, OpeningInv,
           strVars, chanVars, recvVars
  <1>3. CASE SenderInterval
    <2>1. Acked' => Acked
      BY <1>3 DEF SenderInterval, TestFinishState, Acked
    <2>2. StopInv'
      BY <1>3, StopFrame DEF SenderInterval, SessionInv, chanVars
    <2> QED
      BY <1>3, <2>1, <2>2, SenderMoves DEF SenderInterval, TestFinishState, AfterSummary, Quitting,
           SessionInv, OpeningInv, strVars, chanVars, recvVars
  <1>4. CASE FinishReport \/ StoreStop
    <2>1. pc \in {"finish", "stopping"} /\ pc' \in {"finish", "stopping", "summary"}
      BY <1>4 DEF FinishReport, StoreStop
    <2>2. UNCHANGED <<sigint, ioVars, state, stopAt, listed, toRecv, toSend, sLink, thr,
                      rState, rPhase, rLink, rAccepted>>
      BY <1>4 DEF FinishReport, StoreStop, testVars, strVars, recvVars
    <2>3. netUp' => netUp
      BY <1>4 DEF FinishReport, StoreStop, Dies
    <2>4. Acked' => Acked
      BY <2>1, <2>2 DEF Acked
    <2>5. StopInv'
      BY <2>2, StopFrame DEF SessionInv
    <2>6. state # "EXCHANGE_REPORTS"
      BY <2>1 DEF SessionInv, OpeningInv, Quitting
    <2> QED
      BY <2>1, <2>2, <2>3, <2>4, <2>5, <2>6, SenderMoves DEF AfterSummary, Quitting
  <1>5. CASE SendTestSummary
    <2>1. UNCHANGED <<sigint, ioVars, state, stopAt, listed, sLink, netUp, toSend, thr,
                      rState, rPhase, rLink, rAccepted>>
      BY <1>5 DEF SendTestSummary, testVars, strVars, recvVars
    <2>2. pc = "summary" /\ pc' \in {"wait", "store"}
      BY <1>5 DEF SendTestSummary
    <2>3. Acked /\ (Acked' => Acked)
      BY <2>2 DEF Acked
    <2>4. rState # "NONE" /\ state # "EXCHANGE_PARAMETERS" /\ ~InFlight(toRecv, "PARAMS")
          /\ ~InFlight(toRecv, "SUMMARY") /\ sLink \notin {"none", "connecting"}
      BY <2>2, <2>3, NotJoined DEF SessionInv, AckInv, RequestInv, AfterSummary, Quitting
    <2>5. rLink = "open" => rState = "START"
      BY <2>2, <2>4 DEF SessionInv, ReceiverInv, AfterSummary, Quitting, TypeOK, ReceiverTypeOK
    <2>6. toRecv' = toRecv \/ (sLink = "open" /\ toRecv' = Append(toRecv, "SUMMARY"))
      BY <1>5 DEF SendTestSummary, SendCtrl
    <2>7. OpeningInv'
      BY <2>1, <2>2, <2>4, <2>6 DEF SessionInv, OpeningInv, Quitting
    <2>8. ReceiverInv' /\ AckInv' /\ StopInv' /\ ReadyInv'
      BY <2>1, <2>2, <2>3, <2>4, ReceiverInvFrame, AckFrame, StopFrame, ReadyFrame
         DEF SessionInv, AfterSummary, Quitting
    <2>9. RequestInv'
      <3>1. ~InFlight(toRecv', "PARAMS") /\ AtMostOne(toRecv', "PARAMS") /\ AtMostOne(toRecv', "SUMMARY")
        <4>1. toRecv \in Seq({"PARAMS", "SUMMARY"}) /\ "SUMMARY" \in {"PARAMS", "SUMMARY"}
          BY DEF TypeOK, ChannelTypeOK
        <4>2. CASE toRecv' = toRecv
          BY <2>4, <4>2 DEF SessionInv, RequestInv
        <4>3. CASE toRecv' = Append(toRecv, "SUMMARY")
          <5>1. ~InFlight(Append(toRecv, "SUMMARY"), "PARAMS")
            BY <2>4, <4>1, InFlightAppend
          <5>2. /\ AtMostOne(Append(toRecv, "SUMMARY"), "PARAMS")
                /\ AtMostOne(Append(toRecv, "SUMMARY"), "SUMMARY")
            BY <2>4, <4>1, AtMostOneAppend DEF SessionInv, RequestInv
          <5> QED
            BY <4>3, <5>1, <5>2
        <4> QED
          BY <2>6, <4>2, <4>3
      <3> QED
        BY <3>1, <2>1, <2>2, <2>4, <2>5 DEF RequestInv, AfterSummary
    <2> QED
      BY <2>7, <2>8, <2>9 DEF SessionInv
  <1>6. CASE StoreExchangeReports
    <2>1. UNCHANGED <<sigint, ioVars, stopAt, listed, sLink, netUp, toRecv, toSend, thr,
                      rState, rPhase, rLink, rAccepted>>
      BY <1>6 DEF StoreExchangeReports, strVars, chanVars, recvVars
    <2>2. pc = "store" /\ pc' = "wait" /\ state' = "EXCHANGE_REPORTS"
      BY <1>6 DEF StoreExchangeReports
    <2>3. Acked /\ sLink \notin {"none", "connecting"}
      BY <2>2, NotJoined DEF Acked
    <2>4. OpeningInv'
      BY <2>1, <2>2, <2>3 DEF SessionInv, OpeningInv
    <2>5. ReceiverInv' /\ RequestInv' /\ AckInv' /\ StopInv' /\ ReadyInv'
      BY <2>1, <2>2, <2>3, ReceiverInvFrame, RequestFrame, AckFrame, StopFrame, ReadyFrame
         DEF SessionInv, AfterSummary
    <2> QED
      BY <2>4, <2>5 DEF SessionInv
  <1>7. CASE WaitDone
    <2>1. Acked' => Acked
      BY <1>7 DEF WaitDone, Acked, testVars
    <2>2. StopInv'
      BY <1>7, StopFrame DEF WaitDone, SessionInv, testVars, chanVars
    <2> QED
      BY <1>7, <2>1, <2>2, SenderMoves
         DEF WaitDone, AfterSummary, Quitting, testVars, strVars, chanVars, recvVars
  <1>8. CASE StopAll
    <2>1. Acked' => Acked
      BY <1>8 DEF StopAll, Acked
    <2>2. StopInv'
      BY <1>8 DEF StopAll, SessionInv, StopInv, chanVars
    <2> QED
      BY <1>8, <2>1, <2>2, SenderMoves DEF StopAll, AfterSummary, Quitting, strVars, chanVars, recvVars
  <1>9. CASE Exit
    <2>1. Acked' => Acked
      BY <1>9 DEF Exit, Acked, testVars
    <2>2. StopInv'
      BY <1>9, StopFrame DEF Exit, SessionInv, testVars
    <2> QED
      BY <1>9, <2>1, <2>2, SenderMoves DEF Exit, AfterSummary, Quitting, testVars, strVars, recvVars
  <1> QED
    BY <1>1, <1>2, <1>3, <1>4, <1>5, <1>6, <1>7, <1>8, <1>9 DEF Main

(* The rest of Stop gives the test up and forgets its streams.             *)
LEMMA StopStepsSession == TypeOK /\ SessionInv /\ StopSteps => SessionInv'
  <1> SUFFICES ASSUME TypeOK, SessionInv, StopSteps PROVE SessionInv'
    OBVIOUS
  <1>1. UNCHANGED <<mainVars, chanVars, thr, recvVars>>
    BY DEF StopSteps, StoreDone, StopTestStreams, ReleaseStreams, EndStop, strVars
  <1>2. state' \in {state, "DONE"} /\ (listed' => listed) /\ stopAt # "out"
    BY DEF StopSteps, StoreDone, StopTestStreams, ReleaseStreams, EndStop
  <1>3. Acked' => Acked
    BY <1>1, <1>2 DEF Acked, mainVars
  <1>4. StopInv'
    BY <1>1, <1>2 DEF SessionInv, StopInv, mainVars, chanVars
  <1>5. state = "EXCHANGE_REPORTS" => pc \in {"wait"} \cup Quitting
    BY DEF SessionInv, OpeningInv
  <1> QED
    BY <1>1, <1>2, <1>3, <1>4, <1>5, SenderMoves DEF mainVars, chanVars, recvVars

(* The sender's handlers of control channel events.                        *)
LEMMA CtrlSession == TypeOK /\ SessionInv /\ (CtrlChannel \/ CtrlFailed) => SessionInv'
  <1> SUFFICES ASSUME TypeOK, SessionInv, CtrlChannel \/ CtrlFailed PROVE SessionInv'
    OBVIOUS
  <1>q. toSend \in Seq({"ACK", "READY"})
    BY DEF TypeOK, ChannelTypeOK
  <1>1. CASE CtrlEstablished
    <2>1. UNCHANGED <<pc, sigint, ioVars, stopAt, listed, toSend, thr, rState, rPhase, rLink, rAccepted>>
      BY <1>1 DEF CtrlEstablished, mainVars, strVars, recvVars
    <2>2. sLink = "connecting" /\ sLink' = "open" /\ state' = "EXCHANGE_PARAMETERS"
      BY <1>1 DEF CtrlEstablished
    <2>3. rState = "NONE" /\ ~Acked /\ ~Acked'
      BY <2>1, <2>2, NotJoined DEF Acked
    <2>4. toRecv = <<>> /\ toRecv' = <<"PARAMS">>
      BY <1>1 DEF CtrlEstablished, SessionInv, OpeningInv
    <2>5. OpeningInv'
      BY <2>1, <2>2 DEF SessionInv, OpeningInv
    <2>6. ReceiverInv' /\ AckInv' /\ StopInv' /\ ReadyInv'
      BY <2>1, <2>2, <2>3, ReceiverInvFrame, AckFrame, StopFrame, ReadyFrame DEF SessionInv
    <2>7. RequestInv'
      BY <2>1, <2>3, <2>4 DEF RequestInv, InFlight, AtMostOne
    <2> QED
      BY <2>5, <2>6, <2>7 DEF SessionInv
  <1>2. CASE CtrlClosed
    <2>1. UNCHANGED <<pc, sigint, ioVars, state, listed, netUp, toRecv, thr, rState, rPhase, rLink, rAccepted>>
      BY <1>2 DEF CtrlClosed, mainVars, strVars, recvVars
    <2>2. sLink = "open" /\ ~netUp /\ sLink' = "closed" /\ toSend' = <<>>
      BY <1>2 DEF CtrlClosed
    <2>3. Acked' => Acked
      BY <2>1 DEF Acked
    <2>4. OpeningInv'
      BY <2>1, <2>2 DEF SessionInv, OpeningInv
    <2>5. ReceiverInv' /\ RequestInv'
      BY <2>1, ReceiverInvFrame, RequestFrame DEF SessionInv
    <2>6. AckInv'
      BY <2>1, <2>2, <2>3, EmptyQueue DEF SessionInv, AckInv
    <2>7. StopInv' /\ ReadyInv'
      BY <2>1, <2>2, EmptyQueue DEF SessionInv, StopInv, ReadyInv
    <2> QED
      BY <2>4, <2>5, <2>6, <2>7 DEF SessionInv
  <1>3. CASE HandleAckMessage
    <2>1. UNCHANGED <<pc, sigint, ioVars, stopAt, sLink, netUp, toRecv, rState, rPhase, rLink, rAccepted>>
          /\ startAt = 0
      BY <1>3 DEF HandleAckMessage, IOFree, mainVars, recvVars
    <2>2. sLink = "open" /\ toSend # <<>> /\ Head(toSend) = "ACK" /\ toSend' = Tail(toSend)
      BY <1>3 DEF HandleAckMessage
    <2>3. rState # "NONE"
      BY <1>q, <2>2, InFlightHead DEF SessionInv, AckInv
    <2>4. \/ /\ state = "EXCHANGE_PARAMETERS" /\ state' = "START"
             /\ StartSend(IF IsUdp THEN Streams ELSE {})
          \/ /\ state' \in {state, "DONE"} /\ UNCHANGED <<listed, thr>>
             /\ state # "EXCHANGE_PARAMETERS"
      BY <1>3 DEF HandleAckMessage
    <2>5. OpeningInv'
      BY <2>1, <2>2, <2>4 DEF SessionInv, OpeningInv
    <2>6. ReceiverInv' /\ RequestInv'
      BY <2>1, ReceiverInvFrame, RequestFrame DEF SessionInv
    <2>7. AckInv'
      <3>1. InFlight(Tail(toSend), "ACK") => InFlight(toSend, "ACK")
        BY <1>q, <2>2, InFlightTail
      <3>2. AtMostOne(Tail(toSend), "ACK") \/ rState = "DONE"
        BY <1>q, <2>2, AtMostOneTail DEF SessionInv, AckInv
      <3>3. InFlight(Tail(toSend), "ACK") => rState = "DONE"
        BY <1>q, <2>2, OnlyOneTaken DEF SessionInv, AckInv
      <3>4. state' # "EXCHANGE_PARAMETERS"
        BY <2>4
      <3> QED
        BY <2>1, <2>2, <2>3, <3>1, <3>2, <3>3, <3>4 DEF AckInv
    <2>8. ReadyInv'
      <3>1. InFlight(Tail(toSend), "READY") => InFlight(toSend, "READY")
        BY <1>q, <2>2, InFlightTail
      <3>2. AtMostOne(Tail(toSend), "READY")
        BY <1>q, <2>2, AtMostOneTail DEF SessionInv, ReadyInv
      <3>3. IsUdp \/ thr' = thr
        BY <2>4 DEF StartSend, TypeOK, StreamTypeOK
      <3> QED
        BY <2>1, <2>2, <3>1, <3>2, <3>3 DEF SessionInv, ReadyInv, IsUdp
    <2>9. StopInv'
      BY <2>1, StopFrame DEF SessionInv
    <2> QED
      BY <2>5, <2>6, <2>7, <2>8, <2>9 DEF SessionInv
  <1>4. CASE HandleReadyMessage
    <2>1. UNCHANGED <<pc, sigint, signalled, state, stopAt, listed, sLink, netUp, toRecv, thr,
                      rState, rPhase, rLink, rAccepted>>
      BY <1>4 DEF HandleReadyMessage, strVars, recvVars
    <2>2. sLink = "open" /\ toSend # <<>> /\ Head(toSend) = "READY" /\ toSend' = Tail(toSend)
      BY <1>4 DEF HandleReadyMessage
    <2>3. OpeningInv'
      BY <2>1, <2>2 DEF SessionInv, OpeningInv
    <2>4. ReceiverInv' /\ RequestInv'
      BY <2>1, ReceiverInvFrame, RequestFrame DEF SessionInv
    <2>5. AckInv'
      <3>1. InFlight(Tail(toSend), "ACK") => InFlight(toSend, "ACK")
        BY <1>q, <2>2, InFlightTail
      <3>2. AtMostOne(Tail(toSend), "ACK") \/ rState = "DONE"
        BY <1>q, <2>2, AtMostOneTail DEF SessionInv, AckInv
      <3>3. Acked' = Acked
        BY <2>1 DEF Acked
      <3> QED
        BY <2>1, <2>2, <3>1, <3>2, <3>3 DEF SessionInv, AckInv
    <2>6. ReadyInv'
      <3>1. InFlight(toSend, "READY")
        BY <1>q, <2>2, InFlightHead
      <3>2. ~IsUdp /\ (rLink = "closed" \/ rAccepted # {}) /\ \A s \in Streams : thr[s] = "off"
        BY <3>1 DEF SessionInv, ReadyInv
      <3>3. ~InFlight(Tail(toSend), "READY")
        BY <1>q, <2>2, OnlyOneTaken DEF SessionInv, ReadyInv
      <3>4. AtMostOne(Tail(toSend), "READY")
        BY <1>q, <2>2, AtMostOneTail DEF SessionInv, ReadyInv
      <3> QED
        BY <2>1, <2>2, <3>2, <3>3, <3>4 DEF ReadyInv
    <2>7. StopInv'
      BY <2>1, StopFrame DEF SessionInv
    <2> QED
      BY <2>3, <2>4, <2>5, <2>6, <2>7 DEF SessionInv
  <1>5. CASE StartNext
    <2>1. UNCHANGED <<pc, sigint, signalled, state, stopAt, listed, sLink, toRecv, toSend,
                      rState, rPhase, rLink, rAccepted>>
      BY <1>5 DEF StartNext, testVars, recvVars
    <2>2. (netUp' => netUp) /\ startAt > 0 /\ startAt \in 0..NumStreams
      BY <1>5 DEF StartNext, Dies, TypeOK, SenderTypeOK
    <2>3. OpeningInv'
      BY <2>1, <2>2 DEF SessionInv, OpeningInv
    <2>4. ReceiverInv' /\ RequestInv' /\ StopInv'
      BY <2>1, ReceiverInvFrame, RequestFrame, StopFrame DEF SessionInv
    <2>5. AckInv'
      BY <2>1, AckFrame DEF SessionInv, AckInv, Acked
    <2>6. ~InFlight(toSend, "READY") /\ ~IsUdp /\ (rLink = "closed" \/ rAccepted # {})
          /\ \A s \in Streams : startAt <= s => thr[s] = "off"
      BY <2>2 DEF SessionInv, ReadyInv
    <2>7. startAt' > 0 => \A s \in Streams : startAt' <= s => thr'[s] = "off"
      <3>1. CASE UNCHANGED <<startAt, thr>> \/ startAt' = 0
        BY <2>6, <3>1
      <3>2. CASE listed
        <4>1. StartSend({startAt}) /\ startAt' = IF startAt = NumStreams THEN 0 ELSE startAt + 1
          BY <1>5, <3>2 DEF StartNext
        <4>2. \A s \in Streams : s # startAt => thr'[s] = thr[s]
          BY <4>1 DEF StartSend
        <4> QED
          BY <2>2, <2>6, <4>1, <4>2, ConstantsAssumption DEF Streams
      <3> QED
        BY <1>5, <3>1, <3>2 DEF StartNext
    <2>8. ReadyInv'
      BY <2>1, <2>6, <2>7 DEF SessionInv, ReadyInv, IsUdp
    <2> QED
      BY <2>3, <2>4, <2>5, <2>8 DEF SessionInv
  <1>6. CASE CtrlFailed
    <2>1. UNCHANGED <<pc, sigint, ioVars, state, stopAt, listed, netUp, toRecv, toSend, thr, rState, rPhase, rLink, rAccepted>>
      BY <1>6 DEF CtrlFailed, mainVars, testVars, strVars, recvVars
    <2>2. sLink = "connecting" /\ sLink' = "closed"
      BY <1>6 DEF CtrlFailed
    <2>3. OpeningInv'
      BY <2>1, <2>2 DEF SessionInv, OpeningInv
    <2>4. ReceiverInv' /\ RequestInv' /\ StopInv' /\ ReadyInv'
      BY <2>1, <2>2, ReceiverInvFrame, RequestFrame, StopFrame, ReadyFrame DEF SessionInv
    <2>5. AckInv'
      BY <2>1, AckFrame DEF SessionInv, AckInv, Acked
    <2> QED
      BY <2>3, <2>4, <2>5 DEF SessionInv
  <1> QED
    BY <1>1, <1>2, <1>3, <1>4, <1>5, <1>6 DEF CtrlChannel

(* The sender's handlers of data channel events touch nothing the          *)
(* invariant is about.                                                     *)
LEMMA CallbackSession ==
  ASSUME SessionInv, NEW s \in Streams, ConnectionCallback(s)
  PROVE  SessionInv'
  BY SessionFrame
     DEF ConnectionCallback, DataEstablished, DataConnectFailed, DataClosed, SendDataError,
         FinAckReceived, mainVars, testVars, chanVars, recvVars

(* A sending thread that takes a step was running, so no ready signal is   *)
(* in flight.                                                              *)
LEMMA ThreadSession ==
  ASSUME TypeOK, SessionInv, NEW s \in Streams, SendingThread(s)
  PROVE  SessionInv'
  <1>1. UNCHANGED <<pc, sigint, ioVars, state, stopAt, listed, sLink, toRecv, toSend, rState, rPhase, rLink, rAccepted>>
    BY DEF SendingThread, ThreadBegin, ThreadLoop, ThreadSend, ThreadRetry, SendFIN, SendFINRetry,
           mainVars, testVars, chanVars, recvVars
  <1>2. thr[s] # "off"
    BY DEF SendingThread, ThreadBegin, ThreadLoop, ThreadSend, ThreadRetry, SendFIN, SendFINRetry
  <1>3. netUp' => netUp
    BY DEF SendingThread, ThreadBegin, ThreadLoop, ThreadSend, ThreadRetry, SendFIN, SendFINRetry,
           NullDataConn, Dies, chanVars
  <1>4. OpeningInv'
    BY <1>1, <1>3 DEF SessionInv, OpeningInv
  <1>5. ReceiverInv' /\ RequestInv' /\ StopInv'
    BY <1>1, ReceiverInvFrame, RequestFrame, StopFrame DEF SessionInv
  <1>6. AckInv'
    BY <1>1, AckFrame DEF SessionInv, AckInv, Acked
  <1>7. \A u \in Streams : thr'[u] = thr[u] \/ (u = s /\ thr'[u] # "off")
    BY DEF SendingThread, ThreadBegin, ThreadLoop, ThreadSend, ThreadRetry, SendFIN, SendFINRetry,
           NullDataConn, TypeOK, StreamTypeOK
  <1>8. ReadyInv'
    BY <1>1, <1>2, <1>7 DEF SessionInv, ReadyInv
  <1> QED
    BY <1>4, <1>5, <1>6, <1>8 DEF SessionInv

-----------------------------------------------------------------------------
(* The receiver.                                                           *)

(* The connections that can be accepted are finitely many.                 *)
LEMMA AcceptedFinite ==
  ASSUME ReceiverTypeOK
  PROVE  IsFiniteSet(rAccepted)
  <1>1. IsFiniteSet(Streams) /\ IsFiniteSet(Attempts)
    BY FS_Interval, ConstantsAssumption DEF Streams, Attempts
  <1>2. IsFiniteSet(Streams \X Attempts)
    BY <1>1, FS_Product
  <1> QED
    BY <1>2, FS_Subset DEF ReceiverTypeOK

(* The ready signal is sent for the first connection accepted.             *)
LEMMA ReadyForFirst ==
  ASSUME ReceiverTypeOK, NEW c, c \notin rAccepted, SignalsReady(rAccepted \cup {c})
  PROVE  rAccepted = {} /\ ~IsUdp /\ rLink = "open"
  <1>1. IsFiniteSet(rAccepted)
    BY AcceptedFinite
  <1>2. Cardinality(rAccepted \cup {c}) = Cardinality(rAccepted) + 1
    BY <1>1, FS_AddElement
  <1>3. Cardinality(rAccepted) \in Nat
    BY <1>1, FS_CardinalityType
  <1>4. Cardinality(rAccepted) = 0
    BY <1>2, <1>3 DEF SignalsReady, ReceiverNumStreams
  <1> QED
    BY <1>1, <1>4, FS_EmptySet DEF SignalsReady

(* The receiver's handlers of control and data channel events.             *)
LEMMA ReceiverSession == TypeOK /\ SessionInv /\ ReceiverIO => SessionInv'
  <1> SUFFICES ASSUME TypeOK, SessionInv, ReceiverIO PROVE SessionInv'
    OBVIOUS
  <1>q. toRecv \in Seq({"PARAMS", "SUMMARY"}) /\ toSend \in Seq({"ACK", "READY"})
    BY DEF TypeOK, ChannelTypeOK
  <1>1. CASE AcceptCtrl
    <2>1. UNCHANGED <<pc, sigint, ioVars, state, stopAt, listed, sLink, netUp, toRecv, toSend, thr, rState, rPhase, rAccepted>>
      BY <1>1 DEF AcceptCtrl, mainVars, testVars, strVars, chanVars
    <2>2. netUp /\ rLink = "none" /\ rLink' = "open" /\ rState = "NONE" /\ rPhase = "none"
      BY <1>1 DEF AcceptCtrl, SessionInv, ReceiverInv
    <2>3. OpeningInv' /\ ReceiverInv' /\ RequestInv' /\ StopInv' /\ ReadyInv'
      BY <2>1, <2>2, StopFrame DEF SessionInv, OpeningInv, ReceiverInv, RequestInv, ReadyInv
    <2>4. AckInv'
      BY <2>1, AckFrame DEF SessionInv, AckInv, Acked
    <2> QED
      BY <2>3, <2>4 DEF SessionInv
  <1>2. CASE HandleTestParameters
    <2>1. UNCHANGED <<pc, sigint, ioVars, state, stopAt, listed, sLink, netUp, thr, rLink, rAccepted>>
      BY <1>2 DEF HandleTestParameters, mainVars, testVars, strVars
    <2>2. /\ rLink = "open" /\ rPhase = "none" /\ rPhase' = "table"
          /\ toRecv # <<>> /\ Head(toRecv) = "PARAMS" /\ toRecv' = Tail(toRecv)
      BY <1>2 DEF HandleTestParameters
    <2>3. rState = "NONE" /\ rState' = "START"
      BY <1>2, <2>2 DEF HandleTestParameters, SendAck, AckedState, SessionInv, ReceiverInv
    <2>4. toSend' = toSend \/ toSend' = Append(toSend, "ACK")
      BY <1>2 DEF HandleTestParameters, SendAck, SendCtrl
    <2>5. ~Acked /\ ~Acked' /\ ~InFlight(toSend, "ACK") /\ ~InFlight(toRecv, "SUMMARY")
      BY <2>1, <2>3 DEF SessionInv, AckInv, RequestInv, Acked
    <2>6. OpeningInv'
      BY <2>1, <2>2 DEF SessionInv, OpeningInv
    <2>7. ReceiverInv'
      BY <2>1, <2>2, <2>3 DEF ReceiverInv
    <2>8. RequestInv'
      <3>1. ~InFlight(Tail(toRecv), "SUMMARY")
        BY <1>q, <2>2, <2>5, InFlightTail
      <3>2. ~InFlight(Tail(toRecv), "PARAMS")
        BY <1>q, <2>2, OnlyOneTaken DEF SessionInv, RequestInv
      <3>3. AtMostOne(Tail(toRecv), "PARAMS") /\ AtMostOne(Tail(toRecv), "SUMMARY")
        BY <1>q, <2>2, AtMostOneTail DEF SessionInv, RequestInv
      <3> QED
        BY <2>2, <3>1, <3>2, <3>3 DEF RequestInv
    <2>9. AckInv'
      <3>1. AtMostOne(toSend, "ACK")
        BY <2>3 DEF SessionInv, AckInv
      <3>2. AtMostOne(Append(toSend, "ACK"), "ACK")
        BY <1>q, <2>5, <3>1, AtMostOneAppend
      <3> QED
        BY <2>3, <2>4, <2>5, <3>1, <3>2 DEF AckInv
    <2>10. ReadyInv'
      <3>1. InFlight(Append(toSend, "ACK"), "READY") => InFlight(toSend, "READY")
        BY <1>q, InFlightAppend
      <3>2. AtMostOne(Append(toSend, "ACK"), "READY")
        BY <1>q, AtMostOneAppend DEF SessionInv, ReadyInv
      <3> QED
        BY <2>1, <2>4, <3>1, <3>2 DEF SessionInv, ReadyInv
    <2>11. StopInv'
      BY <2>1, StopFrame DEF SessionInv
    <2> QED
      BY <2>6, <2>7, <2>8, <2>9, <2>10, <2>11 DEF SessionInv
  <1>3. CASE HandleSummaryMessage
    <2>1. UNCHANGED <<pc, sigint, ioVars, state, stopAt, listed, sLink, netUp, thr, rPhase, rLink, rAccepted>>
      BY <1>3 DEF HandleSummaryMessage, mainVars, testVars, strVars
    <2>2. /\ rLink = "open" /\ rPhase = "table"
          /\ toRecv # <<>> /\ Head(toRecv) = "SUMMARY" /\ toRecv' = Tail(toRecv)
      BY <1>3 DEF HandleSummaryMessage
    <2>3. rState = "START" /\ pc \in AfterSummary
      BY <1>q, <2>2, InFlightHead DEF SessionInv, RequestInv
    <2>4. rState' = "DONE"
      BY <1>3, <2>3 DEF HandleSummaryMessage, SendAck, AckedState
    <2>5. toSend' = toSend \/ toSend' = Append(toSend, "ACK")
      BY <1>3 DEF HandleSummaryMessage, SendAck, SendCtrl
    <2>6. OpeningInv'
      BY <2>1, <2>2 DEF SessionInv, OpeningInv
    <2>7. ReceiverInv'
      BY <2>1, <2>2, <2>3, <2>4 DEF ReceiverInv
    <2>8. RequestInv'
      <3>1. ~InFlight(toRecv, "PARAMS")
        BY <2>3 DEF SessionInv, RequestInv
      <3>2. ~InFlight(Tail(toRecv), "PARAMS")
        BY <1>q, <2>2, <3>1, InFlightTail
      <3>3. ~InFlight(Tail(toRecv), "SUMMARY")
        BY <1>q, <2>2, OnlyOneTaken DEF SessionInv, RequestInv
      <3>4. AtMostOne(Tail(toRecv), "PARAMS") /\ AtMostOne(Tail(toRecv), "SUMMARY")
        BY <1>q, <2>2, AtMostOneTail DEF SessionInv, RequestInv
      <3> QED
        BY <2>2, <3>2, <3>3, <3>4 DEF RequestInv
    <2>9. AckInv'
      BY <2>1, <2>4 DEF SessionInv, AckInv, Acked
    <2>10. ReadyInv'
      <3>1. InFlight(Append(toSend, "ACK"), "READY") => InFlight(toSend, "READY")
        BY <1>q, InFlightAppend
      <3>2. AtMostOne(Append(toSend, "ACK"), "READY")
        BY <1>q, AtMostOneAppend DEF SessionInv, ReadyInv
      <3> QED
        BY <2>1, <2>5, <3>1, <3>2 DEF SessionInv, ReadyInv
    <2>11. StopInv'
      BY <2>1, StopFrame DEF SessionInv
    <2> QED
      BY <2>6, <2>7, <2>8, <2>9, <2>10, <2>11 DEF SessionInv
  <1>4. CASE ReceiverCtrlClosed
    <2>1. UNCHANGED <<pc, sigint, ioVars, state, stopAt, listed, sLink, netUp, toSend, thr, rPhase>>
      BY <1>4 DEF ReceiverCtrlClosed, mainVars, testVars, strVars
    <2>2. rLink = "open" /\ rLink' = "closed" /\ toRecv' = <<>>
      BY <1>4 DEF ReceiverCtrlClosed
    <2>3. \/ rPhase = "table" /\ rState' = "DONE"
          \/ rPhase # "table" /\ UNCHANGED <<rState, rAccepted>>
      BY <1>4 DEF ReceiverCtrlClosed, ReceiverStop
    <2>4. OpeningInv'
      BY <2>1, <2>2 DEF SessionInv, OpeningInv
    <2>5. ReceiverInv'
      BY <2>1, <2>2, <2>3 DEF SessionInv, ReceiverInv
    <2>6. RequestInv'
      BY <2>2, EmptyQueue DEF RequestInv
    <2>7. AckInv'
      BY <2>1, <2>3 DEF SessionInv, AckInv, Acked
    <2>8. StopInv' /\ ReadyInv'
      BY <2>1, <2>2, StopFrame DEF SessionInv, ReadyInv
    <2> QED
      BY <2>4, <2>5, <2>6, <2>7, <2>8 DEF SessionInv
  <1>5. ASSUME NEW s \in Streams, NEW k \in Attempts, DataListenCallback(s, k) PROVE SessionInv'
    <2>1. UNCHANGED <<pc, sigint, ioVars, state, stopAt, listed, sLink, netUp, toRecv, thr, rState, rPhase, rLink>>
      BY <1>5 DEF DataListenCallback, mainVars, testVars, strVars
    <2>2. /\ rPhase \in {"table", "dying"} /\ <<s, k>> \notin rAccepted
          /\ rAccepted' = rAccepted \cup {<<s, k>>}
      BY <1>5 DEF DataListenCallback
    <2>3. \/ toSend' = toSend
          \/ SignalsReady(rAccepted \cup {<<s, k>>}) /\ toSend' = Append(toSend, "READY")
      BY <1>5, <2>2 DEF DataListenCallback, SendCtrl, SignalsReady, IsUdp
    <2>4. OpeningInv'
      BY <2>1, <2>2 DEF SessionInv, OpeningInv, ReceiverInv
    <2>5. ReceiverInv' /\ RequestInv' /\ StopInv'
      BY <2>1, <2>2, RequestFrame, StopFrame DEF SessionInv, ReceiverInv
    <2>6. AckInv'
      <3>1. InFlight(Append(toSend, "READY"), "ACK") => InFlight(toSend, "ACK")
        BY <1>q, InFlightAppend
      <3>2. AtMostOne(toSend, "ACK") => AtMostOne(Append(toSend, "READY"), "ACK")
        BY <1>q, AtMostOneAppend
      <3> QED
        BY <2>1, <2>3, <3>1, <3>2 DEF SessionInv, AckInv, Acked
    <2>7. ReadyInv'
      <3>1. CASE toSend' = toSend
        BY <2>1, <2>2, <3>1 DEF SessionInv, ReadyInv
      <3>2. CASE SignalsReady(rAccepted \cup {<<s, k>>}) /\ toSend' = Append(toSend, "READY")
        <4>1. rAccepted = {} /\ ~IsUdp /\ rLink = "open"
          BY <2>2, <3>2, ReadyForFirst DEF TypeOK
        <4>2. ~InFlight(toSend, "READY") /\ ~(startAt > 0) /\ \A u \in Streams : thr[u] = "off"
          BY <4>1 DEF SessionInv, ReadyInv
        <4>3. AtMostOne(Append(toSend, "READY"), "READY")
          BY <1>q, <4>2, AtMostOneAppend DEF SessionInv, ReadyInv
        <4> QED
          BY <2>1, <2>2, <3>2, <4>1, <4>2, <4>3 DEF ReadyInv, TypeOK, SenderTypeOK
      <3> QED
        BY <2>3, <3>1, <3>2
    <2> QED
      BY <2>4, <2>5, <2>6, <2>7 DEF SessionInv
  <1>6. ASSUME NEW s \in Streams, OnReceivedFIN(s) PROVE SessionInv'
    BY <1>6, SessionFrame DEF OnReceivedFIN, mainVars, testVars, chanVars
  <1> QED
    BY <1>1, <1>2, <1>3, <1>4, <1>5, <1>6 DEF ReceiverIO

(* The server's loop and the environment.                                  *)
LEMMA EnvironmentSession ==
  ASSUME TypeOK, SessionInv,
         ReceiverInterval \/ Interrupt \/ InterruptStops \/ BreakCtrl \/ ServerExit
  PROVE  SessionInv'
  <1>1. CASE ReceiverInterval
    <2>1. UNCHANGED <<pc, sigint, ioVars, state, stopAt, listed, sLink, netUp, toRecv, toSend, thr, rState, rLink, rAccepted>>
      BY <1>1 DEF ReceiverInterval, mainVars, testVars, strVars, chanVars
    <2>2. rPhase \in {"table", "dying"} /\ rPhase' \in {"dying", "gone"} /\ rState = "DONE"
      BY <1>1 DEF ReceiverInterval, SessionInv, ReceiverInv
    <2>3. ReceiverInv'
      BY <2>1, <2>2 DEF SessionInv, ReceiverInv
    <2>4. AckInv'
      BY <2>1, AckFrame DEF SessionInv, AckInv, Acked
    <2> QED
      BY <2>1, <2>3, <2>4, OpeningFrame, RequestFrame, StopFrame, ReadyFrame DEF SessionInv
  <1>2. CASE Interrupt \/ InterruptStops
    <2>1. Acked' => Acked
      BY <1>2 DEF Interrupt, InterruptStops, Acked, testVars
    <2>2. StopInv'
      BY <1>2 DEF Interrupt, InterruptStops, BeginStop, SessionInv, StopInv, testVars, chanVars
    <2> QED
      BY <1>2, <2>1, <2>2, SenderMoves DEF Interrupt, InterruptStops, testVars, strVars, chanVars, recvVars,
           SessionInv, OpeningInv
  <1>3. CASE BreakCtrl
    <2>1. Acked' => Acked
      BY <1>3 DEF BreakCtrl, Acked, mainVars, testVars
    <2>2. StopInv'
      BY <1>3, StopFrame DEF BreakCtrl, SessionInv, mainVars, testVars
    <2> QED
      BY <1>3, <2>1, <2>2, SenderMoves
         DEF BreakCtrl, mainVars, testVars, strVars, recvVars, SessionInv, OpeningInv
  <1>4. CASE ServerExit
    <2>1. UNCHANGED <<pc, sigint, ioVars, state, stopAt, listed, sLink, toSend, thr>>
      BY <1>4 DEF ServerExit, mainVars, testVars, strVars
    <2>2. /\ rLink = "open" /\ rLink' = "closed" /\ ~netUp' /\ toRecv' = <<>> /\ rPhase' = "gone"
          /\ rState' = IF rPhase = "table" THEN "DONE" ELSE rState
      BY <1>4 DEF ServerExit
    <2>3. OpeningInv'
      BY <2>1, <2>2 DEF SessionInv, OpeningInv
    <2>4. ReceiverInv'
      BY <2>1, <2>2 DEF SessionInv, ReceiverInv
    <2>5. RequestInv'
      BY <2>2, EmptyQueue DEF RequestInv
    <2>6. AckInv'
      BY <2>1, <2>2 DEF SessionInv, AckInv, Acked
    <2>7. StopInv' /\ ReadyInv'
      BY <2>1, <2>2, StopFrame DEF SessionInv, ReadyInv
    <2> QED
      BY <2>3, <2>4, <2>5, <2>6, <2>7 DEF SessionInv
  <1> QED
    BY <1>1, <1>2, <1>3, <1>4

-----------------------------------------------------------------------------
(* In every state the control plane reaches, the messages in flight and    *)
(* the states of the two peers agree as SessionInv says, whatever the      *)
(* number of streams, their retries and the faults.                        *)
THEOREM SessionInvariant == Spec => []SessionInv
  <1>1. Init => SessionInv
    <2> SUFFICES ASSUME Init PROVE SessionInv
      OBVIOUS
    <2>1. OpeningInv /\ ReceiverInv
      BY DEF Init, OpeningInv, ReceiverInv
    <2>2. RequestInv /\ AckInv /\ StopInv /\ ReadyInv
      BY EmptyQueue DEF Init, RequestInv, AckInv, StopInv, ReadyInv, Acked
    <2> QED
      BY <2>1, <2>2 DEF SessionInv
  <1>2. TypeOK /\ SessionInv /\ [Next]_vars => SessionInv'
    <2> SUFFICES ASSUME TypeOK, SessionInv, [Next]_vars PROVE SessionInv'
      OBVIOUS
    <2>1. CASE UNCHANGED vars
      BY <2>1, SessionFrame DEF vars, mainVars, testVars, strVars, chanVars, recvVars
    <2>2. CASE Next
      BY <2>2, MainSession, StopStepsSession, CtrlSession, CallbackSession, ThreadSession,
         ReceiverSession, EnvironmentSession DEF Next
    <2> QED
      BY <2>1, <2>2
  <1> QED
    BY <1>1, <1>2, TypeCorrect, PTL DEF Spec

(* StartSend never assigns to a running sending_thread_: no ready signal   *)
(* is on its way to a sender whose threads were started, and none of the   *)
(* streams HandleReadyMessage has still to start runs one.                 *)
THEOREM ThreadsStartOnce == Spec => []NoThreadRestart
  <1>1. TypeOK /\ SessionInv => NoThreadRestart
    BY ConstantsAssumption
       DEF SessionInv, ReadyInv, NoThreadRestart, InFlight, TypeOK, SenderTypeOK, Streams
  <1> QED
    BY <1>1, TypeCorrect, SessionInvariant, PTL

(* IperfBatsApi::HandleControlMessage finds a summary's test in test_tbl_, *)
(* and no test yet for parameters, however the server's loop interleaves.  *)
THEOREM MessagesFindTheirTest == Spec => []MessageHasTest
  <1>1. TypeOK /\ SessionInv => MessageHasTest
    <2> SUFFICES ASSUME TypeOK, SessionInv, rLink = "open", toRecv # <<>>
                 PROVE  rPhase = (IF Head(toRecv) = "PARAMS" THEN "none" ELSE "table")
      BY DEF MessageHasTest
    <2>1. InFlight(toRecv, Head(toRecv)) /\ Head(toRecv) \in {"PARAMS", "SUMMARY"}
      BY InFlightHead DEF TypeOK, ChannelTypeOK
    <2>2. CASE Head(toRecv) = "PARAMS"
      BY <2>1, <2>2 DEF SessionInv, RequestInv, ReceiverInv, TypeOK, ReceiverTypeOK
    <2>3. CASE Head(toRecv) = "SUMMARY"
      BY <2>1, <2>3 DEF SessionInv, RequestInv, ReceiverInv
    <2> QED
      BY <2>1, <2>2, <2>3
  <1> QED
    BY <1>1, TypeCorrect, SessionInvariant, PTL

-----------------------------------------------------------------------------
(* The control plane implements the session state machine drawn in         *)
(* iperf_test.h (IperfSession): its initial states are initial states of   *)
(* the session, and each of its steps is a step of the session or leaves   *)
(* the session alone.                                                      *)

Finished == pc \in Finishing \cup Quitting
Broken == sLink \in {"open", "closed"} /\ ~netUp
IsQuitting == sigint \/ pc \in Quitting

SessionStep == Session!Next \/ UNCHANGED Session!vars

(* A step that moves neither state_ nor what the session knows of the      *)
(* sender and the connection.                                              *)
LEMMA Stutter ==
  ASSUME UNCHANGED <<state, rState>>, Finished' = Finished, Broken' = Broken, IsQuitting' = IsQuitting
  PROVE  SessionStep
  BY DEF SessionStep, Session!vars, Finished, Broken, IsQuitting

(* The sender tears down, or is told to.                                   *)
LEMMA Quits ==
  ASSUME UNCHANGED rState, state' \in {state, "DONE"}, Broken' = Broken,
         IsQuitting' = TRUE, Finished' \in {Finished, TRUE}
  PROVE  SessionStep
  BY DEF SessionStep, Session!Next, Session!Quit, Finished, Broken, IsQuitting

(* The control connection is lost, if there was one.                       *)
LEMMA Breaks ==
  ASSUME TypeOK, UNCHANGED <<state, rState, sLink>>, netUp' = FALSE \/ netUp' = netUp,
         Finished' = Finished, IsQuitting' = IsQuitting
  PROVE  SessionStep
  <1>1. CASE Broken' = TRUE
    BY <1>1 DEF SessionStep, Session!Next, Session!Break, Finished, Broken, IsQuitting
  <1>2. CASE Broken' = FALSE
    <2>1. Broken = FALSE
      BY <1>2, Zenon DEF Broken
    <2> QED
      BY <1>2, <2>1, Stutter
  <1> QED
    BY <1>1, <1>2, Zenon DEF Broken

-----------------------------------------------------------------------------
(* The main thread of the sender.                                          *)
LEMMA MainRefines == TypeOK /\ SessionInv /\ Main => SessionStep
  <1> SUFFICES ASSUME TypeOK, SessionInv, Main PROVE SessionStep
    OBVIOUS
  <1>1. CASE Start
    <2>1. UNCHANGED <<state, rState>> /\ IsQuitting' = IsQuitting /\ Finished' = Finished
      BY <1>1 DEF Start, testVars, recvVars, IsQuitting, Finished, Finishing, Quitting
    <2>2. ~Broken /\ ~Broken'
      BY <1>1 DEF Start, SessionInv, OpeningInv, Broken
    <2> QED
      BY <2>1, <2>2, Stutter DEF Broken
  <1>2. CASE WaitReady
    <2>1. UNCHANGED <<state, rState>> /\ Broken' = Broken
      BY <1>2 DEF WaitReady, chanVars, recvVars, Broken
    <2>2. CASE pc' \in {"stop", "leave"}
      BY <1>2, <2>1, <2>2, Quits DEF IsQuitting, Finished, Quitting
    <2>3. CASE pc' \notin {"stop", "leave"}
      BY <1>2, <2>1, <2>3, Stutter DEF WaitReady, IsQuitting, Finished, Finishing, Quitting
    <2> QED
      BY <2>2, <2>3
  <1>3. CASE SenderInterval
    <2>1. UNCHANGED <<rState, sigint>> /\ Broken' = Broken /\ pc = "loop"
      BY <1>3 DEF SenderInterval, chanVars, recvVars, Broken
    <2>2. CASE sigint
      BY <1>3, <2>1, <2>2, Quits DEF SenderInterval, IsQuitting, Finished, Quitting
    <2>3. CASE ~sigint
      <3>1. pc' \in {"loop", "finish"} /\ state' \in {state, "DONE"}
        BY <1>3, <2>3 DEF SenderInterval, TestFinishState
      <3>2. Finished' = Finished /\ IsQuitting' = IsQuitting
        BY <2>1, <3>1 DEF IsQuitting, Finished, Finishing, Quitting
      <3>3. state # "EXCHANGE_REPORTS"
        BY <2>1 DEF SessionInv, OpeningInv, Quitting
      <3>4. CASE state' = state
        BY <2>1, <3>2, <3>4, Stutter
      <3>5. CASE state' = "DONE"
        BY <2>1, <3>2, <3>3, <3>5
           DEF SessionStep, Session!Next, Session!SenderGivesUp, Finished, Broken, IsQuitting
      <3> QED
        BY <3>1, <3>4, <3>5
    <2> QED
      BY <2>2, <2>3
  <1>4. CASE FinishReport \/ StoreStop
    <2>1. UNCHANGED <<state, rState, sigint, sLink>> /\ pc \in {"finish", "stopping"}
          /\ pc' \in {"finish", "stopping", "summary"}
      BY <1>4 DEF FinishReport, StoreStop, testVars, recvVars
    <2>2. IsQuitting' = IsQuitting
      BY <2>1 DEF IsQuitting, Quitting
    <2>3. CASE pc' = "summary"
      <3>1. Broken' = Broken /\ Finished' = TRUE
        BY <1>4, <2>1, <2>3 DEF FinishReport, StoreStop, Broken, Finished, Finishing
      <3>2. state # "EXCHANGE_PARAMETERS" /\ rState # "NONE"
        BY <2>1 DEF SessionInv, AckInv, Acked
      <3> QED
        BY <2>1, <2>2, <3>1, <3>2 DEF SessionStep, Session!Next, Session!Finish, Finished, Broken, IsQuitting
    <2>4. CASE pc' # "summary"
      <3>1. Finished' = Finished
        BY <2>1, <2>4 DEF Finished, Finishing, Quitting
      <3>2. netUp' = FALSE \/ netUp' = netUp
        BY <1>4 DEF FinishReport, StoreStop, Dies
      <3> QED
        BY <2>1, <2>2, <3>1, <3>2, Breaks
    <2> QED
      BY <2>3, <2>4
  <1>5. CASE SendTestSummary
    <2>1. UNCHANGED <<state, rState>> /\ Broken' = Broken
      BY <1>5 DEF SendTestSummary, testVars, recvVars, Broken
    <2>2. Finished' = Finished /\ IsQuitting' = IsQuitting
      BY <1>5 DEF SendTestSummary, Finished, Finishing, IsQuitting, Quitting
    <2> QED
      BY <2>1, <2>2, Stutter
  <1>6. CASE StoreExchangeReports
    <2>1. UNCHANGED rState /\ Broken' = Broken /\ state' = "EXCHANGE_REPORTS" /\ pc = "store"
      BY <1>6 DEF StoreExchangeReports, chanVars, recvVars, Broken
    <2>2. Finished = TRUE /\ Finished' = Finished /\ IsQuitting' = IsQuitting
      BY <1>6 DEF StoreExchangeReports, Finished, Finishing, IsQuitting, Quitting
    <2>3. rState # "NONE"
      BY <2>1 DEF SessionInv, AckInv, Acked
    <2> QED
      BY <2>1, <2>2, <2>3 DEF SessionStep, Session!Next, Session!Report, Finished, Broken, IsQuitting
  <1>7. CASE WaitDone
    <2>1. UNCHANGED <<state, rState>> /\ Broken' = Broken
      BY <1>7 DEF WaitDone, testVars, chanVars, recvVars, Broken
    <2>2. CASE pc' = "stop"
      BY <1>7, <2>1, <2>2, Quits DEF IsQuitting, Finished, Quitting
    <2>3. CASE pc' # "stop"
      BY <1>7, <2>1, <2>3, Stutter DEF WaitDone, IsQuitting, Finished, Finishing, Quitting
    <2> QED
      BY <2>2, <2>3
  <1>8. CASE StopAll
    <2>1. UNCHANGED <<state, rState>> /\ Broken' = Broken
      BY <1>8 DEF StopAll, chanVars, recvVars, Broken
    <2>2. IsQuitting' = TRUE /\ Finished' = TRUE
      BY <1>8 DEF StopAll, IsQuitting, Finished, Quitting
    <2> QED
      BY <2>1, <2>2, Quits
  <1>9. CASE Exit
    <2>1. UNCHANGED <<state, rState, sLink>> /\ netUp' = FALSE
      BY <1>9 DEF Exit, testVars, recvVars
    <2>2. Finished' = Finished /\ IsQuitting' = IsQuitting
      BY <1>9 DEF Exit, IsQuitting, Finished, Quitting
    <2> QED
      BY <2>1, <2>2, Breaks
  <1> QED
    BY <1>1, <1>2, <1>3, <1>4, <1>5, <1>6, <1>7, <1>8, <1>9 DEF Main

(* The rest of Stop: the sender gives up, having been told to quit or      *)
(* having lost its connection.                                             *)
LEMMA StopStepsRefines == TypeOK /\ SessionInv /\ StopSteps => SessionStep
  <1> SUFFICES ASSUME TypeOK, SessionInv, StopSteps PROVE SessionStep
    OBVIOUS
  <1>1. UNCHANGED <<mainVars, sLink, netUp, rState>> /\ stopAt # "out"
    BY DEF StopSteps, StoreDone, StopTestStreams, ReleaseStreams, EndStop, chanVars, recvVars
  <1>2. Finished' = Finished /\ IsQuitting' = IsQuitting /\ Broken' = Broken
    BY <1>1 DEF mainVars, Finished, IsQuitting, Broken
  <1>3. CASE state' = state
    BY <1>1, <1>2, <1>3, Stutter
  <1>4. CASE state' = "DONE"
    <2>1. IsQuitting \/ Broken
      BY <1>1 DEF SessionInv, StopInv, OpeningInv, IsQuitting, Broken
    <2> QED
      BY <1>1, <1>2, <1>4, <2>1
         DEF SessionStep, Session!Next, Session!SenderGivesUp, Finished, Broken, IsQuitting
  <1> QED
    BY <1>3, <1>4 DEF StopSteps, StoreDone, StopTestStreams, ReleaseStreams, EndStop

(* The sender's handlers of control channel events.                        *)
LEMMA CtrlRefines == TypeOK /\ SessionInv /\ (CtrlChannel \/ CtrlFailed) => SessionStep
  <1> SUFFICES ASSUME TypeOK, SessionInv, CtrlChannel \/ CtrlFailed PROVE SessionStep
    OBVIOUS
  <1>m. UNCHANGED <<pc, sigint, rState>>
    BY DEF CtrlChannel, CtrlFailed, CtrlEstablished, CtrlClosed, HandleAckMessage, HandleReadyMessage,
           StartNext, mainVars, recvVars
  <1>q. Finished' = Finished /\ IsQuitting' = IsQuitting
    BY <1>m DEF Finished, IsQuitting
  <1>1. CASE CtrlEstablished
    <2>1. state \in {"NONE", "DONE"} /\ rState = "NONE" /\ state' = "EXCHANGE_PARAMETERS"
      BY <1>1, NotJoined DEF CtrlEstablished, SessionInv, OpeningInv
    <2>2. Broken = FALSE /\ Broken' = FALSE
      BY <1>1 DEF CtrlEstablished, Broken
    <2> QED
      BY <1>m, <1>q, <2>1, <2>2
         DEF SessionStep, Session!Next, Session!SendParameters, Finished, Broken, IsQuitting
  <1>2. CASE CtrlClosed
    <2>1. Broken = TRUE /\ Broken' = TRUE /\ UNCHANGED state
      BY <1>2 DEF CtrlClosed, Broken
    <2> QED
      BY <1>m, <1>q, <2>1, Stutter
  <1>3. CASE HandleAckMessage
    <2>1. Broken' = Broken
      BY <1>3 DEF HandleAckMessage, Broken
    <2>2. InFlight(toSend, "ACK")
      BY <1>3, InFlightHead DEF HandleAckMessage, TypeOK, ChannelTypeOK
    <2>3. CASE state = "EXCHANGE_PARAMETERS" /\ state' = "START"
      <3>1. rState # "NONE"
        BY <2>2 DEF SessionInv, AckInv
      <3> QED
        BY <1>m, <1>q, <2>1, <2>3, <3>1
           DEF SessionStep, Session!Next, Session!StartSending, Finished, Broken, IsQuitting
    <2>4. CASE state = "EXCHANGE_REPORTS" /\ state' = "DONE"
      <3>1. rState = "DONE"
        BY <2>2, <2>4 DEF SessionInv, AckInv, Acked
      <3> QED
        BY <1>m, <1>q, <2>1, <2>4, <3>1
           DEF SessionStep, Session!Next, Session!AckReport, Finished, Broken, IsQuitting
    <2>5. CASE state' = state
      BY <1>m, <1>q, <2>1, <2>5, Stutter
    <2> QED
      BY <1>3, <2>3, <2>4, <2>5 DEF HandleAckMessage
  <1>4. CASE HandleReadyMessage
    BY <1>4, <1>m, <1>q, Stutter DEF HandleReadyMessage, Broken
  <1>5. CASE StartNext
    <2>1. UNCHANGED <<state, sLink>> /\ (netUp' = FALSE \/ netUp' = netUp)
      BY <1>5 DEF StartNext, Dies, testVars
    <2> QED
      BY <1>m, <1>q, <2>1, Breaks
  <1>6. CASE CtrlFailed
    <2>1. UNCHANGED state /\ Broken' = TRUE
      BY <1>6 DEF CtrlFailed, testVars, SessionInv, OpeningInv, Broken
    <2> QED
      BY <1>m, <1>q, <2>1
         DEF SessionStep, Session!Next, Session!Break, Finished, Broken, IsQuitting
  <1> QED
    BY <1>1, <1>2, <1>3, <1>4, <1>5, <1>6 DEF CtrlChannel

(* Data channel events leave the session alone.                            *)
LEMMA CallbackRefines ==
  ASSUME NEW s \in Streams, ConnectionCallback(s)
  PROVE  SessionStep
  <1>1. UNCHANGED <<mainVars, state, sLink, netUp, rState>>
    BY DEF ConnectionCallback, DataEstablished, DataConnectFailed, DataClosed, SendDataError,
           FinAckReceived, testVars, chanVars, recvVars
  <1> QED
    BY <1>1, Stutter DEF mainVars, Finished, Broken, IsQuitting

(* A sending thread can only bring the process down.                       *)
LEMMA ThreadRefines ==
  ASSUME TypeOK, NEW s \in Streams, SendingThread(s)
  PROVE  SessionStep
  <1>1. UNCHANGED <<mainVars, state, sLink, rState>>
    BY DEF SendingThread, ThreadBegin, ThreadLoop, ThreadSend, ThreadRetry, SendFIN, SendFINRetry,
           testVars, chanVars, recvVars
  <1>2. netUp' = FALSE \/ netUp' = netUp
    BY DEF SendingThread, ThreadBegin, ThreadLoop, ThreadSend, ThreadRetry, SendFIN, SendFINRetry,
           NullDataConn, Dies, chanVars
  <1> QED
    BY <1>1, <1>2, Breaks DEF mainVars, Finished, IsQuitting

(* The receiver's handlers of control and data channel events.             *)
LEMMA ReceiverRefines == TypeOK /\ SessionInv /\ ReceiverIO => SessionStep
  <1> SUFFICES ASSUME TypeOK, SessionInv, ReceiverIO PROVE SessionStep
    OBVIOUS
  <1>m. UNCHANGED <<mainVars, state, sLink, netUp>>
    BY DEF ReceiverIO, AcceptCtrl, HandleTestParameters, HandleSummaryMessage, ReceiverCtrlClosed,
           OnReceivedFIN, DataListenCallback, testVars, chanVars
  <1>q. Finished' = Finished /\ IsQuitting' = IsQuitting /\ Broken' = Broken
    BY <1>m DEF mainVars, Finished, IsQuitting, Broken
  <1>1. CASE HandleTestParameters
    <2>1. state # "NONE" /\ rState = "NONE"
      BY <1>1 DEF HandleTestParameters, SessionInv, OpeningInv, ReceiverInv
    <2>2. rState' = "START"
      BY <1>1, <2>1 DEF HandleTestParameters, SendAck, AckedState
    <2> QED
      BY <1>m, <1>q, <2>1, <2>2
         DEF SessionStep, Session!Next, Session!StartReceiving, Finished, Broken, IsQuitting
  <1>2. CASE HandleSummaryMessage
    <2>1. InFlight(toRecv, "SUMMARY") /\ rLink = "open"
      BY <1>2, InFlightHead DEF HandleSummaryMessage, TypeOK, ChannelTypeOK
    <2>2. rState = "START" /\ Finished = TRUE
      BY <2>1 DEF SessionInv, RequestInv, Finished, Finishing, AfterSummary
    <2>3. rState' = "DONE"
      BY <1>2, <2>2 DEF HandleSummaryMessage, SendAck, AckedState
    <2> QED
      BY <1>m, <1>q, <2>2, <2>3
         DEF SessionStep, Session!Next, Session!ReceiveReport, Finished, Broken, IsQuitting
  <1>3. CASE ReceiverCtrlClosed
    <2>1. Broken = TRUE
      BY <1>3 DEF ReceiverCtrlClosed, SessionInv, OpeningInv, Broken, TypeOK, ChannelTypeOK
    <2>2. CASE rState' = rState
      BY <1>m, <1>q, <2>2, Stutter
    <2>3. CASE rState' = "DONE"
      BY <1>m, <1>q, <2>1, <2>3
         DEF SessionStep, Session!Next, Session!ReceiverGivesUp, Finished, Broken, IsQuitting
    <2> QED
      BY <1>3, <2>2, <2>3 DEF ReceiverCtrlClosed, ReceiverStop
  <1>4. CASE UNCHANGED rState
    BY <1>m, <1>q, <1>4, Stutter
  <1> QED
    BY <1>1, <1>2, <1>3, <1>4 DEF ReceiverIO, AcceptCtrl, OnReceivedFIN, DataListenCallback

(* The server's loop and the environment.                                  *)
LEMMA EnvironmentRefines ==
  ASSUME TypeOK, SessionInv,
         ReceiverInterval \/ Interrupt \/ InterruptStops \/ BreakCtrl \/ ServerExit
  PROVE  SessionStep
  <1>1. CASE ReceiverInterval
    BY <1>1, Stutter DEF ReceiverInterval, mainVars, testVars, chanVars, Finished, Broken, IsQuitting
  <1>2. CASE Interrupt
    <2>1. UNCHANGED <<state, rState>> /\ Broken' = Broken
      BY <1>2 DEF Interrupt, testVars, chanVars, recvVars, Broken
    <2>2. IsQuitting' = TRUE /\ Finished' = Finished
      BY <1>2 DEF Interrupt, IsQuitting, Finished
    <2> QED
      BY <2>1, <2>2, Quits
  <1>3. CASE InterruptStops
    BY <1>3, Stutter DEF InterruptStops, chanVars, recvVars, Finished, Broken, IsQuitting
  <1>4. CASE BreakCtrl
    BY <1>4, Breaks DEF BreakCtrl, mainVars, testVars, recvVars, Finished, IsQuitting
  <1>5. CASE ServerExit
    <2>1. UNCHANGED <<mainVars, state>> /\ rState' \in {rState, "DONE"}
      BY <1>5 DEF ServerExit, testVars
    <2>2. Broken' = TRUE
      BY <1>5 DEF ServerExit, SessionInv, OpeningInv, Broken, TypeOK, ChannelTypeOK
    <2>3. Finished' = Finished /\ IsQuitting' = IsQuitting
      BY <2>1 DEF mainVars, Finished, IsQuitting
    <2> QED
      BY <2>1, <2>2, <2>3
         DEF SessionStep, Session!Next, Session!ServerLeaves, Finished, Broken, IsQuitting
  <1> QED
    BY <1>1, <1>2, <1>3, <1>4, <1>5

-----------------------------------------------------------------------------
(* The control plane follows the state machine drawn in iperf_test.h:      *)
(* neither peer gets ahead of the other, whatever the interleaving of the  *)
(* main thread, the IO threads, the sending threads and the messages.      *)
THEOREM ImplementsSession == Spec => SessionSpec
  <1>1. Init => Session!Init
    BY DEF Init, Session!Init, Finishing, Quitting
  <1>2. TypeOK /\ SessionInv /\ [Next]_vars => [Session!Next]_(Session!vars)
    <2> SUFFICES ASSUME TypeOK, SessionInv, [Next]_vars PROVE SessionStep
      BY DEF SessionStep
    <2>1. CASE UNCHANGED vars
      BY <2>1, Stutter DEF vars, mainVars, testVars, chanVars, recvVars, Finished, Broken, IsQuitting
    <2>2. CASE Next
      BY <2>2, MainRefines, StopStepsRefines, CtrlRefines, CallbackRefines, ThreadRefines,
         ReceiverRefines, EnvironmentRefines DEF Next
    <2> QED
      BY <2>1, <2>2
  <1> QED
    BY <1>1, <1>2, TypeCorrect, SessionInvariant, PTL DEF Spec, SessionSpec, Session!Spec

-----------------------------------------------------------------------------
(* A client that ends well is right about its server.  As long as nothing  *)
(* failed and the main thread has not turned to its end, no connection is  *)
(* lost, a stream that has a running thread is connected, and a stream     *)
(* that is DONE has its FIN-ACK.                                           *)
Undisturbed == faults = 0 /\ pc \notin Quitting

AfterReady == {"loop", "finish", "stopping", "summary", "store", "wait"}
Running == {"loop", "send", "retry", "fin", "finretry"}

LinkInv ==
    /\ ~stopped /\ stopAt = "out" /\ ~signalled /\ ~crashed
    /\ sLink # "closed" /\ (sLink = "open" => netUp)
    /\ listed => sLink = "open"
    /\ startAt > 0 => listed
    /\ state \in {"NONE", "EXCHANGE_PARAMETERS"} => ~listed
    /\ pc \in AfterReady => listed

StreamAt(s) ==
    /\ ~strErr[s]
    /\ ~listed => thr[s] = "off"
    /\ strStopped[s] => thr[s] = "exit"
    /\ strConn[s] = "DISCONNECTED" <=> strStopped[s]
    /\ thr[s] \in Running \/ pc \in AfterReady => strConn[s] = "CONNECTED"
    /\ thr[s] # "exit" => wire[s] \in {"idle", "data"}
    /\ strState[s] = "DONE" => wire[s] = "end" \/ strStopped[s]
    /\ wire[s] \in {"finack", "end"} => <<s, strRetry[s]>> \in rDone

EndInv == pc = "wait" /\ state = "DONE" => rState = "DONE"

Settled == LinkInv /\ (\A s \in Streams : StreamAt(s)) /\ EndInv
MutualInv == Undisturbed => Settled

(* What was disturbed stays so.                                            *)
LEMMA StaysDisturbed ==
  ASSUME TypeOK, Next, Undisturbed'
  PROVE  Undisturbed
  <1>1. CASE Main
    BY <1>1 DEF Main, Start, WaitReady, SenderInterval, FinishReport, StoreStop, SendTestSummary,
       StoreExchangeReports, WaitDone, StopAll, Exit, Fault, Undisturbed, Quitting, envVars, TypeOK,
       ChannelTypeOK
  <1>2. CASE CtrlChannel \/ CtrlFailed
    BY <1>2 DEF CtrlChannel, CtrlFailed, CtrlEstablished, CtrlClosed, HandleAckMessage,
       HandleReadyMessage, StartNext, Fault, Undisturbed, mainVars, envVars, TypeOK, ChannelTypeOK
  <1>3. ASSUME NEW s \in Streams, ConnectionCallback(s) PROVE Undisturbed
    BY <1>3 DEF ConnectionCallback, DataEstablished, DataConnectFailed, DataClosed, SendDataError,
       FinAckReceived, Fault, Undisturbed, mainVars, envVars, TypeOK, ChannelTypeOK
  <1>4. ASSUME NEW s \in Streams, SendingThread(s) PROVE Undisturbed
    BY <1>4 DEF SendingThread, ThreadBegin, ThreadLoop, ThreadSend, ThreadRetry, SendFIN, SendFINRetry,
       Undisturbed, mainVars, envVars
  <1>5. CASE ReceiverIO \/ ReceiverInterval
    BY <1>5 DEF ReceiverIO, AcceptCtrl, HandleTestParameters, HandleSummaryMessage, ReceiverCtrlClosed,
       OnReceivedFIN, DataListenCallback, ReceiverInterval, Undisturbed, mainVars, envVars
  <1>6. CASE Interrupt \/ InterruptStops \/ BreakCtrl \/ ServerExit
    BY <1>6 DEF Interrupt, InterruptStops, BreakCtrl, ServerExit, Fault, Undisturbed, mainVars, envVars,
       TypeOK, ChannelTypeOK
  <1>7. CASE StopSteps
    BY <1>7 DEF StopSteps, StoreDone, StopTestStreams, ReleaseStreams, EndStop, Undisturbed, mainVars, envVars
  <1> QED
    BY <1>1, <1>2, <1>3, <1>4, <1>5, <1>6, <1>7 DEF Next

(* A step that changes nothing of the streams.                             *)
LEMMA StreamsFrame ==
  ASSUME \A s \in Streams : StreamAt(s),
         UNCHANGED <<listed, strState, strConn, strRetry, strStopped, strErr, thr, wire>>,
         rDone \subseteq rDone', pc' \in AfterReady => pc \in AfterReady
  PROVE  \A s \in Streams : StreamAt(s)'
  BY DEF StreamAt

(* A step of one stream, at either end.                                    *)
LEMMA OneStream ==
  ASSUME Settled, UNCHANGED <<mainVars, testVars, chanVars, rState, crashed>>,
         NEW s \in Streams, StreamAt(s)',
         \A u \in Streams \ {s} :
            UNCHANGED <<strState[u], strConn[u], strRetry[u], strStopped[u], strErr[u], thr[u], wire[u]>>,
         rDone \subseteq rDone'
  PROVE  Settled'
  <1>1. LinkInv' /\ EndInv'
    BY DEF Settled, LinkInv, EndInv, mainVars, testVars, chanVars
  <1>2. \A u \in Streams \ {s} : StreamAt(u)'
    BY DEF Settled, StreamAt, mainVars, testVars
  <1> QED
    BY <1>1, <1>2 DEF Settled

LEMMA MainMutual ==
  ASSUME TypeOK, SessionInv, Settled, Undisturbed, Undisturbed', Main
  PROVE  Settled'
  <1>1. CASE Start
    <2>1. faults' = 0 /\ sLink' = "connecting" /\ pc = "start" /\ pc' = "ready"
      BY <1>1 DEF Start, Undisturbed, Fault
    <2>2. sLink = "none" /\ ~netUp /\ ~listed
      BY <2>1 DEF SessionInv, OpeningInv, Settled, LinkInv
    <2>3. LinkInv' /\ EndInv'
      BY <1>1, <2>1, <2>2 DEF Start, Settled, LinkInv, EndInv, testVars, AfterReady
    <2>4. \A s \in Streams : StreamAt(s)'
      BY <1>1, <2>1, StreamsFrame DEF Start, Settled, testVars, strVars, recvVars, AfterReady
    <2> QED
      BY <2>3, <2>4 DEF Settled
  <1>2. CASE WaitReady
    <2>1. pc' \in AfterReady => listed /\ AllConnected
      BY <1>2 DEF WaitReady, IsStreamReady, AfterReady
    <2>2. pc' # "wait"
      BY <1>2 DEF WaitReady
    <2>3. LinkInv' /\ EndInv'
      BY <1>2, <2>1, <2>2 DEF WaitReady, Settled, LinkInv, EndInv, strVars, chanVars, envVars
    <2>4. \A s \in Streams : StreamAt(s)'
      BY <1>2, <2>1 DEF WaitReady, Settled, StreamAt, AllConnected, strVars, recvVars
    <2> QED
      BY <2>3, <2>4 DEF Settled
  <1>3. CASE SenderInterval
    <2>1. pc = "loop" /\ pc' \in {"loop", "finish"}
      BY <1>3 DEF SenderInterval, TestFinishState, Undisturbed, Quitting
    <2>2. state' \in {state, "DONE"}
      BY <1>3 DEF SenderInterval, TestFinishState
    <2>3. LinkInv' /\ EndInv'
      BY <1>3, <2>1, <2>2 DEF SenderInterval, Settled, LinkInv, EndInv, chanVars, envVars, AfterReady
    <2>4. \A s \in Streams : StreamAt(s)'
      BY <1>3, <2>1, StreamsFrame DEF SenderInterval, Settled, strVars, recvVars, AfterReady
    <2> QED
      BY <2>3, <2>4 DEF Settled
  <1>4. CASE FinishReport \/ StoreStop
    <2>1. pc \in {"finish", "stopping"} /\ pc' \in {"finish", "stopping", "summary"}
      BY <1>4 DEF FinishReport, StoreStop
    <2>2. listed
      BY <2>1 DEF Settled, LinkInv, AfterReady
    <2>3. UNCHANGED <<testVars, chanVars, recvVars, ioVars, crashed>>
          /\ UNCHANGED <<strConn, strRetry, strStopped, strErr, thr, wire>>
      BY <1>4, <2>2 DEF FinishReport, StoreStop, chanVars, strVars, envVars
    <2>4. \A s \in Streams : strState'[s] \in {strState[s], "STOP"}
      BY <1>4, <2>2 DEF FinishReport, StoreStop, strVars, TypeOK, StreamTypeOK
    <2>5. LinkInv' /\ EndInv'
      BY <2>1, <2>2, <2>3 DEF Settled, LinkInv, EndInv, testVars, chanVars, AfterReady
    <2>6. \A s \in Streams : StreamAt(s)'
      BY <2>1, <2>3, <2>4 DEF Settled, StreamAt, testVars, recvVars, AfterReady
    <2> QED
      BY <2>5, <2>6 DEF Settled
  <1>5. CASE SendTestSummary
    <2>1. pc = "summary" /\ pc' = "store"
      BY <1>5 DEF SendTestSummary, Settled, LinkInv, AfterReady
    <2>2. LinkInv' /\ EndInv'
      BY <1>5, <2>1 DEF SendTestSummary, Settled, LinkInv, EndInv, testVars, envVars, AfterReady
    <2>3. \A s \in Streams : StreamAt(s)'
      BY <1>5, <2>1, StreamsFrame DEF SendTestSummary, Settled, testVars, strVars, recvVars, AfterReady
    <2> QED
      BY <2>2, <2>3 DEF Settled
  <1>6. CASE StoreExchangeReports
    <2>1. pc = "store" /\ pc' = "wait" /\ state' = "EXCHANGE_REPORTS"
      BY <1>6 DEF StoreExchangeReports
    <2>2. LinkInv' /\ EndInv'
      BY <1>6, <2>1 DEF StoreExchangeReports, Settled, LinkInv, EndInv, chanVars, envVars, AfterReady
    <2>3. \A s \in Streams : StreamAt(s)'
      BY <1>6, <2>1, StreamsFrame DEF StoreExchangeReports, Settled, strVars, recvVars, AfterReady
    <2> QED
      BY <2>2, <2>3 DEF Settled
  <1>7. CASE WaitDone
    <2>1. pc = "wait" /\ pc' = "wait"
      BY <1>7 DEF WaitDone, Undisturbed, Quitting
    <2>2. LinkInv' /\ EndInv'
      BY <1>7, <2>1 DEF WaitDone, Settled, LinkInv, EndInv, testVars, chanVars, recvVars, envVars
    <2>3. \A s \in Streams : StreamAt(s)'
      BY <1>7, <2>1, StreamsFrame DEF WaitDone, Settled, testVars, strVars, recvVars
    <2> QED
      BY <2>2, <2>3 DEF Settled
  <1>8. CASE StopAll \/ Exit
    BY <1>8 DEF StopAll, Exit, Undisturbed, Quitting
  <1> QED
    BY <1>1, <1>2, <1>3, <1>4, <1>5, <1>6, <1>7, <1>8 DEF Main

LEMMA CtrlMutual ==
  ASSUME TypeOK, SessionInv, Settled, Undisturbed, Undisturbed', CtrlChannel \/ CtrlFailed
  PROVE  Settled'
  <1>q. toSend \in Seq({"ACK", "READY"})
    BY DEF TypeOK, ChannelTypeOK
  <1>1. CASE CtrlEstablished
    <2>1. ~listed /\ pc' = pc /\ pc # "wait"
      BY <1>1 DEF CtrlEstablished, Settled, LinkInv, AfterReady, mainVars
    <2>2. LinkInv' /\ EndInv'
      BY <1>1, <2>1 DEF CtrlEstablished, Settled, LinkInv, EndInv, mainVars, envVars
    <2>3. \A s \in Streams : StreamAt(s)'
      BY <1>1, StreamsFrame DEF CtrlEstablished, Settled, mainVars, strVars, recvVars
    <2> QED
      BY <2>2, <2>3 DEF Settled
  <1>2. CASE CtrlClosed \/ CtrlFailed
    BY <1>2 DEF CtrlClosed, CtrlFailed, Settled, LinkInv, Undisturbed, Fault
  <1>3. CASE HandleAckMessage
    <2>1. UNCHANGED <<pc, ioVars, stopped, stopAt, crashed, sLink, netUp, rState, rDone>> /\ sLink = "open"
      BY <1>3 DEF HandleAckMessage, mainVars, recvVars, envVars
    <2>2. UNCHANGED <<strRetry, strStopped, strErr, wire>>
      BY <1>3 DEF HandleAckMessage
    <2>3. CASE state = "EXCHANGE_PARAMETERS"
      <3>1. state' = "START" /\ listed' /\ strConn' = [s \in Streams |-> "CONNECTING"]
            /\ StartSend(IF IsUdp THEN Streams ELSE {})
        BY <1>3, <2>3 DEF HandleAckMessage
      <3>2. ~listed /\ pc \notin AfterReady
        BY <2>3 DEF Settled, LinkInv
      <3>3. LinkInv' /\ EndInv'
        BY <2>1, <3>1, <3>2 DEF Settled, LinkInv, EndInv
      <3>4. ASSUME NEW s \in Streams PROVE StreamAt(s)'
        <4>1. StreamAt(s) /\ thr[s] = "off" /\ ~strStopped[s]
          BY <3>2 DEF Settled, StreamAt
        <4>2. strConn'[s] = "CONNECTING" /\ thr'[s] \in {"off", "begin"} /\ strState'[s] \in {"START", strState[s]}
          BY <3>1, <4>1 DEF StartSend
        <4> QED
          BY <2>1, <2>2, <3>1, <3>2, <4>1, <4>2 DEF StreamAt, Running
      <3> QED
        BY <3>3, <3>4 DEF Settled
    <2>4. CASE state # "EXCHANGE_PARAMETERS"
      <3>1. UNCHANGED <<listed, strConn, strState, thr>>
        BY <1>3, <2>4 DEF HandleAckMessage
      <3>2. \/ state' = state
            \/ state = "EXCHANGE_REPORTS" /\ state' = "DONE"
        BY <1>3, <2>4 DEF HandleAckMessage
      <3>3. state = "EXCHANGE_REPORTS" => rState = "DONE"
        <4>1. InFlight(toSend, "ACK")
          BY <1>3, <1>q, InFlightHead DEF HandleAckMessage
        <4> QED
          BY <4>1 DEF SessionInv, AckInv, Acked
      <3>4. LinkInv' /\ EndInv'
        BY <2>1, <3>1, <3>2, <3>3 DEF Settled, LinkInv, EndInv
      <3>5. \A s \in Streams : StreamAt(s)'
        BY <2>1, <2>2, <3>1, StreamsFrame DEF Settled
      <3> QED
        BY <3>4, <3>5 DEF Settled
    <2> QED
      BY <2>3, <2>4
  <1>4. CASE HandleReadyMessage
    <2>1. UNCHANGED <<pc, signalled, state, stopVars, listed, strVars, crashed, sLink, netUp, rState, rDone>>
      BY <1>4 DEF HandleReadyMessage, recvVars, envVars
    <2>2. LinkInv' /\ EndInv'
      BY <1>4, <2>1 DEF HandleReadyMessage, Settled, LinkInv, EndInv
    <2>3. \A s \in Streams : StreamAt(s)'
      BY <2>1, StreamsFrame DEF Settled, strVars
    <2> QED
      BY <2>2, <2>3 DEF Settled
  <1>5. CASE StartNext
    <2>1. listed
      BY <1>5 DEF StartNext, Settled, LinkInv
    <2>2. UNCHANGED <<pc, signalled, testVars, chanVars, recvVars, crashed>>
          /\ UNCHANGED <<strConn, strRetry, strStopped, strErr, wire>>
          /\ StartSend({startAt}) /\ startAt > 0
      BY <1>5, <2>1 DEF StartNext, chanVars
    <2>3. LinkInv' /\ EndInv'
      BY <2>1, <2>2 DEF Settled, LinkInv, EndInv, testVars, chanVars, recvVars
    <2>4. ASSUME NEW s \in Streams PROVE StreamAt(s)'
      <3>1. StreamAt(s)
        BY DEF Settled
      <3>2. CASE s # startAt
        <4>1. thr'[s] = thr[s] /\ strState'[s] = strState[s]
          BY <2>2, <3>2 DEF StartSend
        <4> QED
          BY <2>2, <3>1, <4>1 DEF StreamAt, testVars, recvVars
      <3>3. CASE s = startAt
        <4>1. thr[s] = "off"
          BY <2>2, <3>3, ConstantsAssumption DEF SessionInv, ReadyInv, Streams
        <4>2. thr'[s] = "begin" /\ strState'[s] = "START"
          BY <2>2, <3>3 DEF StartSend
        <4> QED
          BY <2>1, <2>2, <3>1, <4>1, <4>2 DEF StreamAt, Running, testVars, recvVars
      <3> QED
        BY <3>2, <3>3
    <2> QED
      BY <2>3, <2>4 DEF Settled
  <1> QED
    BY <1>1, <1>2, <1>3, <1>4, <1>5 DEF CtrlChannel

LEMMA CallbackMutual ==
  ASSUME TypeOK, Settled, Undisturbed, Undisturbed', NEW s \in Streams, ConnectionCallback(s)
  PROVE  Settled'
  <1>s. StreamAt(s)
    BY DEF Settled
  <1>t. s \in DOMAIN strConn /\ s \in DOMAIN strState /\ s \in DOMAIN wire
    BY DEF TypeOK, StreamTypeOK
  <1>1. CASE DataEstablished(s)
    <2>1. UNCHANGED <<mainVars, testVars, chanVars, recvVars, envVars>>
          /\ UNCHANGED <<strState, strRetry, strStopped, strErr, thr, wire>>
      BY <1>1 DEF DataEstablished
    <2>2. strConn' = [strConn EXCEPT ![s] = "CONNECTED"] /\ ~strStopped[s]
      BY <1>1 DEF DataEstablished
    <2>3. StreamAt(s)'
      BY <1>s, <1>t, <2>1, <2>2 DEF StreamAt, mainVars, testVars, recvVars
    <2> QED
      BY <2>1, <2>2, <2>3, OneStream DEF recvVars, envVars
  <1>2. CASE FinAckReceived(s)
    <2>1. UNCHANGED <<mainVars, testVars, chanVars, recvVars, envVars>>
          /\ UNCHANGED <<strConn, strRetry, strStopped, strErr, thr>>
      BY <1>2 DEF FinAckReceived
    <2>2. /\ wire[s] = "finack" /\ wire' = [wire EXCEPT ![s] = "end"]
          /\ strState' = [strState EXCEPT ![s] = "DONE"]
      BY <1>2 DEF FinAckReceived
    <2>3. StreamAt(s)'
      BY <1>s, <1>t, <2>1, <2>2 DEF StreamAt, mainVars, testVars, recvVars
    <2> QED
      BY <2>1, <2>2, <2>3, OneStream DEF recvVars, envVars
  <1>3. CASE DataConnectFailed(s) \/ DataClosed(s) \/ SendDataError(s)
    BY <1>3 DEF DataConnectFailed, DataClosed, SendDataError, Undisturbed, Fault
  <1> QED
    BY <1>1, <1>2, <1>3 DEF ConnectionCallback

(* A running thread of an undisturbed client has its connection, so it     *)
(* neither dies on a null data_conn_ nor is told of an error.              *)
LEMMA ThreadMutual ==
  ASSUME TypeOK, SessionInv, Settled, Undisturbed, Undisturbed', NEW s \in Streams, SendingThread(s)
  PROVE  Settled'
  <1>s. StreamAt(s)
    BY DEF Settled
  <1>t. /\ s \in DOMAIN strConn /\ s \in DOMAIN strState /\ s \in DOMAIN wire /\ s \in DOMAIN thr
        /\ s \in DOMAIN strErr /\ s \in DOMAIN strStopped
    BY DEF TypeOK, StreamTypeOK
  <1>c. thr[s] \in Running => HasDataConn(s) /\ strConn[s] = "CONNECTED"
    BY <1>s DEF StreamAt, HasDataConn
  <1>1. CASE ThreadBegin(s)
    <2>1. UNCHANGED <<mainVars, testVars, chanVars, recvVars, envVars, strRetry, strErr, wire>>
          /\ thr[s] = "begin"
      BY <1>1 DEF ThreadBegin
    <2>2. CASE strConn[s] = "CONNECTED"
      <3>1. thr' = [thr EXCEPT ![s] = "loop"] /\ UNCHANGED <<strStopped, strState, strConn>>
        BY <1>1, <2>2 DEF ThreadBegin
      <3>2. StreamAt(s)'
        BY <1>s, <1>t, <2>1, <2>2, <3>1 DEF StreamAt, mainVars, testVars, recvVars
      <3> QED
        BY <2>1, <3>1, <3>2, OneStream DEF recvVars, envVars
    <2>3. CASE strConn[s] # "CONNECTED"
      <3>1. thr' = [thr EXCEPT ![s] = "exit"] /\ StopStreams({s})
        BY <1>1, <2>3 DEF ThreadBegin
      <3>2. pc \notin AfterReady /\ ~strStopped[s] /\ listed
        BY <1>s, <2>1, <2>3 DEF StreamAt
      <3>3. strStopped'[s] /\ strConn'[s] = "DISCONNECTED" /\ thr'[s] = "exit"
        BY <1>t, <3>1, <3>2 DEF StopStreams
      <3>4. \A u \in Streams \ {s} : strStopped'[u] = strStopped[u] /\ strState'[u] = strState[u]
                                      /\ strConn'[u] = strConn[u] /\ thr'[u] = thr[u]
        <4> TAKE u \in Streams \ {s}
        <4>1. strState'[u] = strState[u] /\ strConn'[u] = strConn[u] /\ thr'[u] = thr[u]
          BY <3>1 DEF StopStreams
        <4>2. strStopped'[u] = (strStopped[u] \/ u \in {w \in {s} : ~strStopped[w]})
          BY <3>1 DEF StopStreams
        <4>3. strStopped[u] \in BOOLEAN
          BY DEF TypeOK, StreamTypeOK
        <4>4. u \notin {w \in {s} : ~strStopped[w]}
          OBVIOUS
        <4>5. strStopped'[u] = strStopped[u]
          <5>1. CASE strStopped[u] = TRUE
            BY <4>2, <5>1
          <5>2. CASE strStopped[u] = FALSE
            BY <4>2, <4>4, <5>2
          <5> QED
            BY <4>3, <5>1, <5>2
        <4> QED
          BY <4>1, <4>5
      <3>5. StreamAt(s)'
        BY <1>s, <2>1, <3>2, <3>3 DEF StreamAt, Running, mainVars, testVars, recvVars
      <3> QED
        BY <2>1, <3>4, <3>5, OneStream DEF recvVars, envVars
    <2> QED
      BY <2>2, <2>3
  <1>2. CASE ThreadLoop(s)
    <2>1. UNCHANGED <<mainVars, testVars, chanVars, recvVars, envVars>>
          /\ UNCHANGED <<strConn, strRetry, strStopped, wire>> /\ thr[s] = "loop"
      BY <1>2 DEF ThreadLoop
    <2>2. ~strErr[s] /\ strErr[s] \in BOOLEAN
      BY <1>s DEF StreamAt, TypeOK, StreamTypeOK
    <2>3. /\ \E p \in {"send", "fin"} : thr' = [thr EXCEPT ![s] = p]
          /\ strState' = [strState EXCEPT ![s] = @]
      BY <1>2, <2>2 DEF ThreadLoop
    <2>4. ~strErr'[s] /\ \A u \in Streams \ {s} : strErr'[u] = strErr[u]
      <3>1. strErr' = [strErr EXCEPT ![s] = strErr[s] /\ ~(strConn[s] = "CONNECTED" /\ strState[s] = "START")]
        BY <1>2 DEF ThreadLoop
      <3>2. strErr'[s] = (strErr[s] /\ ~(strConn[s] = "CONNECTED" /\ strState[s] = "START"))
        BY <1>t, <3>1
      <3>3. \A u \in Streams \ {s} : strErr'[u] = strErr[u]
        BY <3>1 DEF TypeOK, StreamTypeOK
      <3> QED
        BY <2>2, <3>2, <3>3
    <2>5. \A u \in Streams \ {s} : strState'[u] = strState[u] /\ thr'[u] = thr[u]
      BY <2>3 DEF TypeOK, StreamTypeOK
    <2>6. strState'[s] = strState[s] /\ thr'[s] \in {"send", "fin"}
      BY <1>t, <2>3
    <2>7. StreamAt(s)'
      BY <1>s, <1>c, <2>1, <2>4, <2>6 DEF StreamAt, Running, mainVars, testVars, recvVars
    <2> QED
      BY <2>1, <2>4, <2>5, <2>7, OneStream DEF recvVars, envVars
  <1>3. CASE ThreadSend(s) \/ ThreadRetry(s) \/ SendFIN(s) \/ SendFINRetry(s)
    <2>1. thr[s] \in Running
      BY <1>3 DEF ThreadSend, ThreadRetry, SendFIN, SendFINRetry, Running
    <2>2. UNCHANGED <<mainVars, testVars, strState, strConn, strRetry, strStopped, strErr, recvVars>>
          /\ UNCHANGED <<chanVars, crashed>>
      BY <1>3, <1>c, <2>1 DEF ThreadSend, ThreadRetry, SendFIN, SendFINRetry, chanVars, envVars
    <2>3. \/ wire' = wire
          \/ wire' = [wire EXCEPT ![s] = "data"]
          \/ wire' = [wire EXCEPT ![s] = "fin"] /\ thr' = [thr EXCEPT ![s] = "exit"]
      BY <1>3, <1>c, <2>1 DEF ThreadSend, ThreadRetry, SendFIN, SendFINRetry
    <2>4. \E p \in Running \cup {"exit"} : thr' = [thr EXCEPT ![s] = p]
      BY <1>3, <1>c, <2>1 DEF ThreadSend, ThreadRetry, SendFIN, SendFINRetry, Running
    <2>5. wire[s] \in {"idle", "data"} /\ strState[s] # "DONE" /\ strConn[s] = "CONNECTED"
      BY <1>s, <1>c, <2>1 DEF StreamAt, Running
    <2>6. thr'[s] \in Running \cup {"exit"} /\ wire'[s] \in {"idle", "data", "fin"}
          /\ (wire'[s] = "fin" => thr'[s] = "exit")
      BY <1>t, <2>3, <2>4, <2>5
    <2>7. StreamAt(s)'
      <3>1. listed /\ ~strErr[s] /\ ~strStopped[s]
        BY <1>s, <2>1, <2>5 DEF StreamAt, Running
      <3>2. listed' /\ ~strErr'[s] /\ ~strStopped'[s] /\ strConn'[s] = "CONNECTED" /\ strState'[s] # "DONE"
        BY <2>2, <2>5, <3>1 DEF testVars
      <3> QED
        BY <2>6, <3>2 DEF StreamAt, Running
    <2>8. \A u \in Streams \ {s} : thr'[u] = thr[u] /\ wire'[u] = wire[u]
      BY <2>3, <2>4 DEF TypeOK, StreamTypeOK
    <2> QED
      BY <2>2, <2>7, <2>8, OneStream DEF recvVars
  <1> QED
    BY <1>1, <1>2, <1>3 DEF SendingThread

LEMMA ServerMutual ==
  ASSUME TypeOK, SessionInv, Settled, Undisturbed, Undisturbed', ReceiverIO \/ ReceiverInterval
  PROVE  Settled'
  <1>1. CASE AcceptCtrl \/ ReceiverInterval
    <2>1. UNCHANGED <<mainVars, testVars, strVars, chanVars, envVars, rState, rDone>>
      BY <1>1 DEF AcceptCtrl, ReceiverInterval
    <2>2. \A s \in Streams : StreamAt(s)'
      BY <2>1, StreamsFrame DEF Settled, mainVars, testVars, strVars
    <2> QED
      BY <2>1, <2>2 DEF Settled, LinkInv, EndInv, mainVars, testVars, chanVars, envVars
  <1>2. CASE HandleTestParameters \/ HandleSummaryMessage
    <2>1. UNCHANGED <<mainVars, testVars, strVars, sLink, netUp, envVars, rDone>>
      BY <1>2 DEF HandleTestParameters, HandleSummaryMessage
    <2>2. rState = "DONE" => rState' = "DONE"
      BY <1>2 DEF HandleTestParameters, HandleSummaryMessage, SendAck, AckedState
    <2>3. \A s \in Streams : StreamAt(s)'
      BY <2>1, StreamsFrame DEF Settled, mainVars, testVars, strVars
    <2> QED
      BY <2>1, <2>2, <2>3 DEF Settled, LinkInv, EndInv, mainVars, testVars, envVars
  <1>3. CASE ReceiverCtrlClosed
    <2>1. sLink \in {"none", "connecting"} /\ rLink = "open"
      BY <1>3 DEF ReceiverCtrlClosed, Settled, LinkInv, TypeOK, ChannelTypeOK
    <2> QED
      BY <2>1 DEF SessionInv, OpeningInv
  <1>4. ASSUME NEW s \in Streams, NEW k \in Attempts, DataListenCallback(s, k) PROVE Settled'
    <2>1. UNCHANGED <<mainVars, testVars, strVars, sLink, netUp, envVars, rState, rDone>>
      BY <1>4 DEF DataListenCallback
    <2>2. \A u \in Streams : StreamAt(u)'
      BY <2>1, StreamsFrame DEF Settled, mainVars, testVars, strVars
    <2> QED
      BY <2>1, <2>2 DEF Settled, LinkInv, EndInv, mainVars, testVars, envVars
  <1>5. ASSUME NEW s \in Streams, OnReceivedFIN(s) PROVE Settled'
    <2>1. UNCHANGED <<mainVars, testVars, chanVars, rState, envVars>>
          /\ UNCHANGED <<strState, strConn, strRetry, strStopped, strErr, thr>>
      BY <1>5 DEF OnReceivedFIN
    <2>2. /\ wire[s] = "fin" /\ wire' = [wire EXCEPT ![s] = "finack"]
          /\ rDone' = rDone \cup {<<s, strRetry[s]>>}
      BY <1>5 DEF OnReceivedFIN
    <2>3. wire'[s] = "finack" /\ \A u \in Streams \ {s} : wire'[u] = wire[u]
      BY <2>2 DEF TypeOK, StreamTypeOK
    <2>4. StreamAt(s)'
      BY <2>1, <2>2, <2>3 DEF Settled, StreamAt, mainVars, testVars
    <2> QED
      BY <2>1, <2>2, <2>3, <2>4, OneStream DEF envVars
  <1> QED
    BY <1>1, <1>2, <1>3, <1>4, <1>5 DEF ReceiverIO

(* When nothing failed and the client leaves its last loop as DONE, the    *)
(* server has its summary and the FIN of every stream, for every number of *)
(* streams, protocol and schedule of the threads.                          *)
THEOREM EndsAgree == Spec => []SuccessIsMutual
  <1>1. Init => MutualInv
    BY DEF Init, MutualInv, Settled, LinkInv, StreamAt, EndInv, AfterReady, Running
  <1>2. TypeOK /\ SessionInv /\ MutualInv /\ [Next]_vars => MutualInv'
    <2> SUFFICES ASSUME TypeOK, SessionInv, MutualInv, [Next]_vars, Undisturbed' PROVE Settled'
      BY DEF MutualInv
    <2>1. CASE UNCHANGED vars
      <3>1. Settled
        BY <2>1 DEF MutualInv, Undisturbed, vars, mainVars, envVars
      <3>2. \A s \in Streams : StreamAt(s)'
        BY <2>1, <3>1, StreamsFrame DEF Settled, vars, mainVars, testVars, strVars, recvVars
      <3> QED
        BY <2>1, <3>1, <3>2 DEF Settled, LinkInv, EndInv, vars, mainVars, testVars, chanVars, recvVars, envVars
    <2>2. CASE Interrupt \/ BreakCtrl \/ ServerExit
      BY <2>2 DEF Interrupt, BreakCtrl, ServerExit, Fault, Undisturbed, TypeOK, ChannelTypeOK
    <2>3. CASE StopSteps \/ InterruptStops
      <3>1. Undisturbed
        BY <2>3, StaysDisturbed DEF Next
      <3>2. LinkInv
        BY <3>1 DEF MutualInv, Settled
      <3> QED
        BY <2>3, <3>2 DEF StopSteps, StoreDone, StopTestStreams, ReleaseStreams, EndStop, InterruptStops, LinkInv
    <2>4. CASE Main \/ CtrlChannel \/ CtrlFailed \/ ReceiverIO \/ ReceiverInterval
               \/ \E s \in Streams : ConnectionCallback(s) \/ SendingThread(s)
      <3>1. Undisturbed
        BY <2>4, StaysDisturbed DEF Next
      <3>2. Settled
        BY <3>1 DEF MutualInv
      <3> QED
        BY <2>4, <3>1, <3>2, MainMutual, CtrlMutual, ServerMutual, CallbackMutual, ThreadMutual
    <2> QED
      BY <2>1, <2>2, <2>3, <2>4 DEF Next
  <1>3. TypeOK /\ MutualInv => SuccessIsMutual
    <2> SUFFICES ASSUME TypeOK, MutualInv, faults = 0, pc = "wait", state = "DONE", listed, IsStreamDone
                 PROVE  rState = "DONE" /\ \A s \in Streams : <<s, strRetry[s]>> \in rDone
      BY DEF SuccessIsMutual
    <2>1. Settled
      BY DEF MutualInv, Undisturbed, Quitting
    <2>2. rState = "DONE"
      BY <2>1 DEF Settled, EndInv
    <2>3. ASSUME NEW s \in Streams PROVE <<s, strRetry[s]>> \in rDone
      <3>1. strState[s] = "DONE" /\ StreamAt(s) /\ pc \in AfterReady
        BY <2>1 DEF IsStreamDone, Settled, AfterReady
      <3>2. strConn[s] = "CONNECTED" /\ ~strStopped[s]
        BY <3>1 DEF StreamAt
      <3> QED
        BY <3>1, <3>2 DEF StreamAt
    <2> QED
      BY <2>2, <2>3
  <1> QED
    BY <1>1, <1>2, <1>3, TypeCorrect, SessionInvariant, PTL DEF Spec

================================================================================

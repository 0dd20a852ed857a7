------------------------------ MODULE IperfTest ------------------------------
(***************************************************************************)
(* The control plane of bats_iperf: one throughput test between a sender   *)
(* (the client process: its main thread, its IO thread and one sending     *)
(* thread per data stream) and a receiver (the server process: its IO      *)
(* thread and its 10 Hz loop).                                             *)
(*                                                                         *)
(* The two peers share a control channel (TCP: reliable, FIFO) and one     *)
(* data channel per stream.  What a data channel carries is abstracted to  *)
(* the steps the test depends on: accepted, first datagram, FIN, FIN-ACK.  *)
(* IperfStream models the content of the data channel.                     *)
(*                                                                         *)
(* A handler of an IO thread is one action unless another thread can come  *)
(* between two of its accesses to shared state: IperfTest::Stop, which the *)
(* main thread or the IO thread runs, the walk of HandleReadyMessage over  *)
(* the streams and the signal callback take several.  So do the walk of    *)
(* OnSentFinished and SendTestSummary in the main thread.                  *)
(***************************************************************************)
EXTENDS Integers, Sequences, FiniteSets

CONSTANTS
    NumStreams,      \* -P: the sender's test_config_.num_streams
    Protocol,        \* -m: 0 BTP, 1 BRTP, 2 BRCTP, 10 TCP, 11 UDP, 12 QUIC
    MaxConnectRetry, \* IperfStream::max_connect_retry (3 in the code)
    TestTicks,       \* time * resolution
    IntervalTicks,   \* round(interval * resolution)
    ReadyWaits,      \* max_timeout_cnt of RunTest (10000 in the code)
    DoneWaits,       \* max_wait_time of EnterSenderIntervalLoop (15)
    DyingTicks,      \* ticks a finished test is kept by the server (10)
    FaultKinds,      \* which faults the environment may inject
    MaxFaults        \* and how many of them in one behaviour

AllFaults == {"nokey", "sigint", "ctrl", "connfail", "dataclosed", "senderr", "server"}

ASSUME ConstantsAssumption ==
    /\ NumStreams \in Nat \ {0}
    /\ Protocol \in {0, 1, 2, 10, 11, 12}
    /\ MaxConnectRetry \in Nat
    /\ TestTicks \in Nat
    /\ IntervalTicks \in Nat \ {0}
    /\ ReadyWaits \in Nat
    /\ DoneWaits \in Nat
    /\ DyingTicks \in Nat
    /\ FaultKinds \subseteq AllFaults
    /\ MaxFaults \in Nat

VARIABLES
    \* sender: main thread
    pc,          \* where RunTest / EnterSenderIntervalLoop is
    waits,       \* iterations of the waiting loop it is in
    ticks,       \* passed_ticks_
    sigint,      \* stop_signal_value = SIGINT
    apiStopped,  \* is_stopped_ of IperfBatsApi
    finAt,       \* streams OnSentFinished is done with
    \* sender: IO thread
    signalled,   \* in the signal callback, before StopAll
    startAt,     \* the stream HandleReadyMessage starts next, 0 outside of it
    \* sender: IperfTest
    state,       \* state_
    stopped,     \* is_stopped_
    stopper,     \* the thread that runs Stop
    stopAt,      \* ... and what it does next
    listed,      \* test_streams_ holds the streams (Stop swaps it empty)
    readyFlag,   \* is_ready_received_
    \* sender: IperfStream of each data stream
    strState,    \* state_
    strConn,     \* conn_state_
    strRetry,    \* connect_retry_cnt_
    strStopped,  \* is_stopped_
    strErr,      \* has_err_in_send_
    thr,         \* where sending_thread_ is
    wire,        \* how far the data channel has got
    \* control channel
    sLink,       \* the sender's end
    netUp,       \* the TCP connection is up
    toRecv,      \* messages in flight to the receiver
    toSend,      \* messages in flight to the sender
    \* receiver
    rState,      \* state_ of the server's IperfTest
    rPhase,      \* where that test is: nowhere, test_tbl_, dying_tests, erased
    rCnt,        \* its count in dying_tests
    rLink,       \* the server's end; "open" is is_ctrl_chn_connected_
    rAccepted,   \* test_streams_: accepted connections <<stream, attempt>>
    rDone,       \* those of them in STREAM_DONE
    \* environment
    faults,      \* faults injected so far
    crashed      \* the sender process died on a bad pointer

ioVars   == <<signalled, startAt>>
stopVars == <<stopped, stopper, stopAt>>
mainVars == <<pc, waits, ticks, sigint, apiStopped, finAt, ioVars>>
testVars == <<state, stopVars, listed, readyFlag>>
strVars  == <<strState, strConn, strRetry, strStopped, strErr, thr, wire>>
chanVars == <<sLink, netUp, toRecv, toSend>>
recvVars == <<rState, rPhase, rCnt, rLink, rAccepted, rDone>>
envVars  == <<faults, crashed>>
vars == <<mainVars, testVars, strVars, chanVars, recvVars, envVars>>

Streams == 1..NumStreams
Attempts == 0..MaxConnectRetry

TestState == {"NONE", "EXCHANGE_PARAMETERS", "START", "EXCHANGE_REPORTS", "DONE"}
StreamState == {"NONE", "START", "STOP", "DONE"}
ConnectionState == {"NONE", "CONNECTING", "CONNECTED", "DISCONNECTED"}
MainPc == {"start", "ready", "loop", "finish", "stopping", "summary", "store", "wait", "stop", "leave", "end"}
ThreadPc == {"off", "begin", "loop", "send", "retry", "fin", "finretry", "exit"}
Wire == {"idle", "data", "fin", "finack", "end"}

IsReliableProtocol == Protocol \in {1, 2, 10}
IsUdp == Protocol = 11

(* TestConfig::Serialize leaves num_streams out, so the receiver's copy of *)
(* the parameters keeps the default.                                       *)
ReceiverNumStreams == 1

SenderTypeOK ==
    /\ pc \in MainPc
    /\ waits \in 0..(ReadyWaits + DoneWaits)
    /\ ticks \in 0..(TestTicks + 2)
    /\ sigint \in BOOLEAN /\ apiStopped \in BOOLEAN /\ signalled \in BOOLEAN
    /\ finAt \in 0..NumStreams /\ startAt \in 0..NumStreams
    /\ stopper \in {"none", "main", "io"}
    /\ stopAt \in {"out", "store", "streams", "swap", "join"}
    /\ state \in TestState
    /\ stopped \in BOOLEAN
    /\ listed \in BOOLEAN
    /\ readyFlag \in BOOLEAN

StreamTypeOK ==
    /\ strState \in [Streams -> StreamState]
    /\ strConn \in [Streams -> ConnectionState]
    /\ strRetry \in [Streams -> Attempts]
    /\ strStopped \in [Streams -> BOOLEAN]
    /\ strErr \in [Streams -> BOOLEAN]
    /\ thr \in [Streams -> ThreadPc]
    /\ wire \in [Streams -> Wire]

ChannelTypeOK ==
    /\ sLink \in {"none", "connecting", "open", "closed"}
    /\ netUp \in BOOLEAN
    /\ toRecv \in Seq({"PARAMS", "SUMMARY"})
    /\ toSend \in Seq({"ACK", "READY"})
    /\ faults \in 0..MaxFaults
    /\ crashed \in BOOLEAN

ReceiverTypeOK ==
    /\ rState \in {"NONE", "START", "DONE"}
    /\ rPhase \in {"none", "table", "dying", "gone"}
    /\ rCnt \in 0..(DyingTicks + 1)
    /\ rLink \in {"none", "open", "closed"}
    /\ rAccepted \subseteq Streams \X Attempts
    /\ rDone \subseteq Streams \X Attempts

TypeOK == SenderTypeOK /\ StreamTypeOK /\ ChannelTypeOK /\ ReceiverTypeOK

Init ==
    /\ pc = "start" /\ waits = 0 /\ ticks = 0 /\ sigint = FALSE /\ apiStopped = FALSE /\ finAt = 0
    /\ signalled = FALSE /\ startAt = 0
    /\ state = "NONE" /\ stopped = FALSE /\ stopper = "none" /\ stopAt = "out"
    /\ listed = FALSE /\ readyFlag = FALSE
    /\ strState = [s \in Streams |-> "NONE"]
    /\ strConn = [s \in Streams |-> "NONE"]
    /\ strRetry = [s \in Streams |-> 0]
    /\ strStopped = [s \in Streams |-> FALSE]
    /\ strErr = [s \in Streams |-> FALSE]
    /\ thr = [s \in Streams |-> "off"]
    /\ wire = [s \in Streams |-> "idle"]
    /\ sLink = "none" /\ netUp = FALSE /\ toRecv = <<>> /\ toSend = <<>>
    /\ rState = "NONE" /\ rPhase = "none" /\ rCnt = 0 /\ rLink = "none"
    /\ rAccepted = {} /\ rDone = {}
    /\ faults = 0 /\ crashed = FALSE

-----------------------------------------------------------------------------
(* Building blocks.                                                        *)

SenderAlive == pc # "end" /\ ~crashed

(* The sender's IO thread can take the next event.                         *)
IOFree == SenderAlive /\ stopper # "io" /\ ~signalled /\ startAt = 0

Fault(kind) ==
    /\ kind \in FaultKinds
    /\ faults < MaxFaults
    /\ faults' = faults + 1

(* SendData on the control channel: what is written to a broken connection *)
(* is lost.                                                                *)
SendCtrl(queue, m) == IF netUp THEN Append(queue, m) ELSE queue

(* data_conn_ is set when the connection is established and cleared by     *)
(* IperfStream::Stop.                                                      *)
HasDataConn(s) == ~strStopped[s] /\ strConn[s] \in {"CONNECTED", "DISCONNECTED"}

(* IperfStream::Stop of the streams S of the sender; a stream already      *)
(* stopped is left alone.                                                  *)
StopStreams(S) ==
    LET T == {s \in S : ~strStopped[s]}
    IN  /\ strStopped' = [s \in Streams |-> strStopped[s] \/ s \in T]
        /\ strState' = [s \in Streams |-> IF s \in T THEN "DONE" ELSE strState[s]]
        /\ strConn' = [s \in Streams |-> IF s \in T THEN "DISCONNECTED" ELSE strConn[s]]

(* IperfTest::Stop at the sender: only the first call does anything.       *)
BeginStop(who) ==
    \/ stopped /\ UNCHANGED stopVars
    \/ ~stopped /\ stopped' = TRUE /\ stopper' = who /\ stopAt' = "store"

(* Use of a stream that Stop has released, or of a list it has swapped     *)
(* away, is undefined: the process dies, or gets through.                  *)
Dies ==
    /\ crashed' = TRUE
    /\ netUp' = FALSE

AllConnected == \A s \in Streams : strConn[s] = "CONNECTED"

(* The early return leaves the flag alone; otherwise                       *)
(*   return is_ready_received_ = true && expected_num_streams == 0;        *)
(* assigns it, so the ready signal takes no part in the answer.            *)
IsStreamReady == listed /\ AllConnected
ReadyFlagAfterCheck == IF listed /\ ~AllConnected THEN readyFlag ELSE IsStreamReady

(* Mutant: a stream that was only told to stop counts as done.             *)
IsStreamDone_Stopping == ~listed \/ \A s \in Streams : strState[s] \in {"STOP", "DONE"}

IsStreamDone == ~listed \/ \A s \in Streams : strState[s] = "DONE"

-----------------------------------------------------------------------------
(* Sender, main thread.                                                    *)

(* RunTest calls Start; without its key files Start gives up, and RunTest  *)
(* ignores that.                                                           *)
Start ==
    /\ pc = "start" /\ ~crashed
    /\ pc' = "ready"
    /\ \/ sLink' = "connecting" /\ UNCHANGED faults
       \/ Fault("nokey") /\ UNCHANGED sLink
    /\ UNCHANGED <<waits, ticks, sigint, apiStopped, finAt, ioVars, testVars, strVars, netUp, toRecv, toSend,
                   recvVars, crashed>>

(* One round of the loop of RunTest that waits for the streams.  SIGINT    *)
(* leads through the loops of EnterSenderIntervalLoop to its StopAll;      *)
(* giving up returns from RunTest and from main without it.                *)
WaitReady ==
    /\ pc = "ready" /\ ~crashed
    /\ readyFlag' = ReadyFlagAfterCheck
    /\ \/ /\ IsStreamReady /\ ~sigint
          /\ pc' = "loop" /\ waits' = 0
       \/ /\ sigint
          /\ pc' = "stop" /\ waits' = 0
       \/ /\ ~IsStreamReady /\ ~sigint
          /\ IF waits + 1 > ReadyWaits
             THEN pc' = "leave" /\ waits' = 0
             ELSE pc' = "ready" /\ waits' = waits + 1
    /\ UNCHANGED <<ticks, sigint, apiStopped, finAt, ioVars, state, stopVars, listed, strVars, chanVars, recvVars,
                   envVars>>

(* TestFinishState at the sender: the test ends when it is DONE, when its  *)
(* time is up, or when an interval ends with every stream dead.            *)
TimeIsUp == ticks > TestTicks
AllDead == ~listed \/ \A s \in Streams : strState[s] = "DONE"
DeadAtInterval == (ticks + 1) % IntervalTicks = 0 /\ AllDead

TestFinishState ==
    \/ /\ state = "DONE"
       /\ pc' = "finish" /\ UNCHANGED <<ticks, state>>
    \/ /\ state # "DONE" /\ TimeIsUp
       /\ pc' = "finish" /\ ticks' = ticks + 1 /\ UNCHANGED state
    \/ /\ state # "DONE" /\ ~TimeIsUp /\ DeadAtInterval
       /\ pc' = "finish" /\ ticks' = ticks + 1 /\ state' = "DONE"
    \/ /\ state # "DONE" /\ ~TimeIsUp /\ ~DeadAtInterval
       /\ pc' = "loop" /\ ticks' = ticks + 1 /\ UNCHANGED state

(* One round of the sending loop of EnterSenderIntervalLoop; on SIGINT     *)
(* both of its loops are left at once and StopAll is next.                 *)
SenderInterval ==
    /\ pc = "loop" /\ ~crashed
    /\ \/ /\ sigint
          /\ pc' = "stop" /\ UNCHANGED <<ticks, state>>
       \/ /\ ~sigint
          /\ TestFinishState
    /\ UNCHANGED <<waits, sigint, apiStopped, finAt, ioVars, stopVars, listed, readyFlag, strVars, chanVars,
                   recvVars, envVars>>

(* OnSentFinished walks the list, without a lock, and FinishReport stops   *)
(* every stream that is not DONE: the check of its state, ...              *)
FinishReport ==
    /\ pc = "finish" /\ ~crashed
    /\ \/ /\ listed /\ finAt < NumStreams /\ strState[finAt + 1] # "DONE"
          /\ pc' = "stopping" /\ UNCHANGED <<finAt, crashed, netUp>>
       \/ /\ listed /\ finAt < NumStreams /\ strState[finAt + 1] = "DONE"
          /\ finAt' = finAt + 1 /\ UNCHANGED <<pc, crashed, netUp>>
       \/ /\ ~listed \/ finAt = NumStreams
          /\ pc' = "summary" /\ UNCHANGED <<finAt, crashed, netUp>>
       \/ /\ ~listed /\ finAt > 0
          /\ Dies /\ UNCHANGED <<pc, finAt>>
    /\ UNCHANGED <<waits, ticks, sigint, apiStopped, ioVars, testVars, strVars, sLink, toRecv, toSend, recvVars, faults>>

(* ... and the store that follows it, by which time the IO thread may have *)
(* stopped and released the stream.                                        *)
StoreStop ==
    /\ pc = "stopping" /\ ~crashed
    /\ \/ /\ pc' = "finish" /\ finAt' = finAt + 1
          /\ strState' = [strState EXCEPT ![finAt + 1] = "STOP"]
          /\ UNCHANGED <<crashed, netUp>>
       \/ /\ ~listed /\ Dies
          /\ UNCHANGED <<pc, finAt, strState>>
    /\ UNCHANGED <<waits, ticks, sigint, apiStopped, ioVars, testVars, strConn, strRetry, strStopped, strErr, thr, wire,
                   sLink, toRecv, toSend, recvVars, faults>>

(* SendTestSummary, up to and including SendData.                          *)
SendTestSummary ==
    /\ pc = "summary" /\ ~crashed
    /\ \/ /\ sLink # "open"
          /\ pc' = "wait" /\ UNCHANGED toRecv
       \/ /\ sLink = "open"
          /\ toRecv' = SendCtrl(toRecv, "SUMMARY")
          /\ pc' = "store"
    /\ UNCHANGED <<waits, ticks, sigint, apiStopped, finAt, ioVars, testVars, strVars, sLink, netUp, toSend, recvVars,
                   envVars>>

(* ... and the store to state_ that follows it.                            *)
StoreExchangeReports ==
    /\ pc = "store" /\ ~crashed
    /\ pc' = "wait"
    /\ state' = "EXCHANGE_REPORTS"
    /\ UNCHANGED <<waits, ticks, sigint, apiStopped, finAt, ioVars, stopVars, listed, readyFlag, strVars, chanVars,
                   recvVars, envVars>>

(* Mutants: max_wait_time is not looked at; the rounds are not counted.    *)
WaitDone_NoLimit ==
    /\ pc = "wait" /\ ~crashed
    /\ IF sigint \/ (state = "DONE" /\ IsStreamDone)
       THEN pc' = "stop" /\ UNCHANGED waits
       ELSE pc' = "wait" /\ waits' = waits + 1
    /\ UNCHANGED <<ticks, sigint, apiStopped, finAt, ioVars, testVars, strVars, chanVars, recvVars, envVars>>

WaitDone_NoCount ==
    /\ pc = "wait" /\ ~crashed
    /\ pc' = IF sigint \/ (state = "DONE" /\ IsStreamDone) \/ waits >= DoneWaits THEN "stop" ELSE "wait"
    /\ UNCHANGED <<waits, ticks, sigint, apiStopped, finAt, ioVars, testVars, strVars, chanVars, recvVars, envVars>>

(* One round of the loop that waits for TEST_DONE and the FIN-ACKs.        *)
WaitDone ==
    /\ pc = "wait" /\ ~crashed
    /\ IF sigint \/ (state = "DONE" /\ IsStreamDone) \/ waits >= DoneWaits
       THEN pc' = "stop" /\ UNCHANGED waits
       ELSE pc' = "wait" /\ waits' = waits + 1
    /\ UNCHANGED <<ticks, sigint, apiStopped, finAt, ioVars, testVars, strVars, chanVars, recvVars, envVars>>

(* StopAll: the signal callback or a closed control channel may have come  *)
(* first.                                                                  *)
StopAll ==
    /\ pc = "stop" /\ ~crashed
    /\ pc' = "leave"
    /\ \/ apiStopped /\ UNCHANGED <<sigint, apiStopped, stopVars>>
       \/ ~apiStopped /\ apiStopped' = TRUE /\ sigint' = TRUE /\ BeginStop("main")
    /\ UNCHANGED <<waits, ticks, finAt, ioVars, state, listed, readyFlag, strVars, chanVars, recvVars, envVars>>

(* The main thread waits only for a Stop of its own; then the process ends *)
(* and its connections are closed.                                         *)
Exit ==
    /\ pc = "leave" /\ ~crashed /\ stopper # "main"
    /\ pc' = "end"
    /\ netUp' = FALSE
    /\ UNCHANGED <<waits, ticks, sigint, apiStopped, finAt, ioVars, testVars, strVars, sLink, toRecv, toSend, recvVars,
                   envVars>>

Main ==
    \/ Start \/ WaitReady \/ SenderInterval \/ FinishReport \/ StoreStop \/ SendTestSummary
    \/ StoreExchangeReports \/ WaitDone \/ StopAll \/ Exit

-----------------------------------------------------------------------------
(* Sender, the rest of IperfTest::Stop, in the thread that got there first.*)

StoreDone ==
    /\ SenderAlive /\ stopAt = "store"
    /\ stopAt' = "streams"
    /\ state' = "DONE"
    /\ UNCHANGED <<mainVars, stopped, stopper, listed, readyFlag, strVars, chanVars, recvVars, envVars>>

StopTestStreams ==
    /\ SenderAlive /\ stopAt = "streams"
    /\ stopAt' = "swap"
    /\ StopStreams(IF listed THEN Streams ELSE {})
    /\ UNCHANGED <<mainVars, state, stopped, stopper, listed, readyFlag, strRetry, strErr, thr, wire, chanVars, recvVars,
                   envVars>>

(* The list is swapped away, and ~IperfStream of each stream in it that    *)
(* was stopped stores DONE and CONN_NONE, ...                              *)
ReleaseStreams ==
    /\ SenderAlive /\ stopAt = "swap"
    /\ stopAt' = "join"
    /\ listed' = FALSE
    /\ strState' = [s \in Streams |-> IF listed /\ strStopped[s] THEN "DONE" ELSE strState[s]]
    /\ strConn' = [s \in Streams |-> IF listed /\ strStopped[s] THEN "NONE" ELSE strConn[s]]
    /\ UNCHANGED <<mainVars, state, stopped, stopper, readyFlag, strRetry, strStopped, strErr, thr, wire, chanVars,
                   recvVars, envVars>>

(* ... and joins its sending thread.                                       *)
EndStop ==
    /\ SenderAlive /\ stopAt = "join"
    /\ \A s \in Streams : strStopped[s] => thr[s] \in {"off", "exit"}
    /\ stopper' = "none" /\ stopAt' = "out"
    /\ UNCHANGED <<mainVars, state, stopped, listed, readyFlag, strVars, chanVars, recvVars, envVars>>

StopSteps == StoreDone \/ StopTestStreams \/ ReleaseStreams \/ EndStop

-----------------------------------------------------------------------------
(* Sender, IO thread: control channel.                                     *)

(* ESTABLISHED: SendTestParameters sends and then sets state_; the ack is  *)
(* handled by this same thread, so nothing comes in between.               *)
CtrlEstablished ==
    /\ IOFree /\ sLink = "connecting"
    /\ sLink' = "open" /\ netUp' = TRUE
    /\ toRecv' = Append(toRecv, "PARAMS")
    /\ state' = "EXCHANGE_PARAMETERS"
    /\ UNCHANGED <<mainVars, stopVars, listed, readyFlag, strVars, toSend, recvVars, envVars>>

(* FAILED only prints; the main thread finds out by its timeout.           *)
CtrlFailed ==
    /\ IOFree /\ sLink = "connecting"
    /\ Fault("ctrl")
    /\ sLink' = "closed"
    /\ UNCHANGED <<mainVars, testVars, strVars, netUp, toRecv, toSend, recvVars, crashed>>

(* CLOSED and SHUTDOWN_BY_PEER: CloseCtrlChannel, Stop.                    *)
CtrlClosed ==
    /\ IOFree /\ sLink = "open" /\ ~netUp
    /\ sLink' = "closed" /\ toSend' = <<>>
    /\ BeginStop("io")
    /\ UNCHANGED <<mainVars, state, listed, readyFlag, strVars, netUp, toRecv, recvVars, envVars>>

(* The part of StartSend that creates the sending thread, for the streams  *)
(* S.                                                                      *)
StartSend(S) ==
    /\ strState' = [s \in Streams |-> IF s \in S THEN "START" ELSE strState[s]]
    /\ thr' = [s \in Streams |-> IF s \in S THEN "begin" ELSE thr[s]]

HandleAckMessage ==
    /\ IOFree /\ sLink = "open" /\ toSend # <<>> /\ Head(toSend) = "ACK"
    /\ toSend' = Tail(toSend)
    /\ \/ /\ state = "EXCHANGE_PARAMETERS"
          /\ state' = "START"
          /\ listed' = TRUE
          /\ strConn' = [s \in Streams |-> "CONNECTING"]
          /\ StartSend(IF IsUdp THEN Streams ELSE {})
       \/ /\ state = "EXCHANGE_REPORTS"
          /\ state' = "DONE"
          /\ UNCHANGED <<listed, strConn, strState, thr>>
       \/ /\ state \notin {"EXCHANGE_PARAMETERS", "EXCHANGE_REPORTS"}
          /\ UNCHANGED <<state, listed, strConn, strState, thr>>
    /\ UNCHANGED <<mainVars, stopVars, readyFlag, strRetry, strStopped, strErr, wire,
                   sLink, netUp, toRecv, recvVars, envVars>>

(* The check of state_; the streams are started one by one after it.       *)
HandleReadyMessage ==
    /\ IOFree /\ sLink = "open" /\ toSend # <<>> /\ Head(toSend) = "READY"
    /\ toSend' = Tail(toSend)
    /\ readyFlag' = TRUE
    /\ startAt' = IF state = "START" /\ listed THEN 1 ELSE 0
    /\ UNCHANGED <<pc, waits, ticks, sigint, apiStopped, finAt, signalled, state, stopVars, listed, strVars,
                   sLink, netUp, toRecv, recvVars, envVars>>

(* One stream of that walk; the main thread may stop the stream before it, *)
(* or swap the list away.                                                  *)
StartNext ==
    /\ SenderAlive /\ startAt > 0
    /\ \/ /\ listed
          /\ StartSend({startAt})
          /\ startAt' = IF startAt = NumStreams THEN 0 ELSE startAt + 1
          /\ UNCHANGED <<crashed, netUp>>
       \/ /\ ~listed
          /\ startAt' = 0 /\ UNCHANGED <<strState, thr, crashed, netUp>>
       \/ /\ ~listed
          /\ Dies /\ UNCHANGED <<startAt, strState, thr>>
    /\ UNCHANGED <<pc, waits, ticks, sigint, apiStopped, finAt, signalled, testVars, strConn, strRetry, strStopped, strErr,
                   wire, sLink, toRecv, toSend, recvVars, faults>>

CtrlChannel == CtrlEstablished \/ CtrlClosed \/ HandleAckMessage \/ HandleReadyMessage \/ StartNext

-----------------------------------------------------------------------------
(* Sender, IO thread: ConnectionCallback of stream s.                      *)

DataEstablished(s) ==
    /\ IOFree /\ ~strStopped[s] /\ strConn[s] = "CONNECTING"
    /\ rPhase \in {"table", "dying"}
    /\ strConn' = [strConn EXCEPT ![s] = "CONNECTED"]
    /\ UNCHANGED <<mainVars, testVars, strState, strRetry, strStopped, strErr, thr, wire,
                   chanVars, recvVars, envVars>>

(* FAILED and TIMEOUT: reconnect, max_connect_retry times.                 *)
DataConnectFailed(s) ==
    /\ IOFree /\ ~strStopped[s] /\ strConn[s] = "CONNECTING"
    /\ Fault("connfail")
    /\ strRetry' = [strRetry EXCEPT ![s] = IF @ < MaxConnectRetry THEN @ + 1 ELSE @]
    /\ UNCHANGED <<mainVars, testVars, strState, strConn, strStopped, strErr, thr, wire,
                   chanVars, recvVars, crashed>>

DataClosed(s) ==
    /\ IOFree /\ ~strStopped[s] /\ strConn[s] = "CONNECTED"
    /\ Fault("dataclosed")
    /\ strConn' = [strConn EXCEPT ![s] = "DISCONNECTED"]
    /\ UNCHANGED <<mainVars, testVars, strState, strRetry, strStopped, strErr, thr, wire,
                   chanVars, recvVars, crashed>>

SendDataError(s) ==
    /\ IOFree /\ HasDataConn(s) /\ ~strErr[s]
    /\ Fault("senderr")
    /\ strErr' = [strErr EXCEPT ![s] = TRUE]
    /\ UNCHANGED <<mainVars, testVars, strState, strConn, strRetry, strStopped, thr, wire,
                   chanVars, recvVars, crashed>>

(* UpdateReceived with last and ack set.                                   *)
FinAckReceived(s) ==
    /\ IOFree /\ ~strStopped[s] /\ strConn[s] = "CONNECTED" /\ wire[s] = "finack"
    /\ wire' = [wire EXCEPT ![s] = "end"]
    /\ strState' = [strState EXCEPT ![s] = "DONE"]
    /\ UNCHANGED <<mainVars, testVars, strConn, strRetry, strStopped, strErr, thr,
                   chanVars, recvVars, envVars>>

ConnectionCallback(s) ==
    \/ DataEstablished(s) \/ DataConnectFailed(s) \/ DataClosed(s) \/ SendDataError(s)
    \/ FinAckReceived(s)

-----------------------------------------------------------------------------
(* Sender, sending thread of stream s.                                     *)

(* A stream that is not connected when its thread starts is stopped.       *)
ThreadBegin(s) ==
    /\ SenderAlive /\ thr[s] = "begin"
    /\ IF strConn[s] = "CONNECTED"
       THEN thr' = [thr EXCEPT ![s] = "loop"] /\ UNCHANGED <<strStopped, strState, strConn>>
       ELSE thr' = [thr EXCEPT ![s] = "exit"] /\ StopStreams({s})
    /\ UNCHANGED <<mainVars, testVars, strRetry, strErr, wire, chanVars, recvVars, envVars>>

(* The head of the sending loop; a send error ends it with STREAM_DONE.    *)
ThreadLoop(s) ==
    /\ SenderAlive /\ thr[s] = "loop"
    /\ LET go == strConn[s] = "CONNECTED" /\ strState[s] = "START"
       IN  /\ thr' = [thr EXCEPT ![s] = IF go /\ ~strErr[s] THEN "send" ELSE "fin"]
           /\ strErr' = [strErr EXCEPT ![s] = @ /\ ~go]
           /\ strState' = [strState EXCEPT ![s] = IF go /\ strErr[s] THEN "DONE" ELSE @]
    /\ UNCHANGED <<mainVars, testVars, strConn, strRetry, strStopped, wire, chanVars, recvVars, envVars>>

(* Calling through a null data_conn_ kills the process.                    *)
NullDataConn == Dies /\ UNCHANGED <<thr, wire>>

(* SendData may succeed only while connected; a full buffer refuses too.   *)
ThreadSend(s) ==
    /\ SenderAlive /\ thr[s] = "send"
    /\ \/ ~HasDataConn(s) /\ NullDataConn
       \/ /\ HasDataConn(s) /\ strConn[s] = "CONNECTED"
          /\ thr' = [thr EXCEPT ![s] = "loop"]
          /\ wire' = [wire EXCEPT ![s] = "data"]
          /\ UNCHANGED <<netUp, crashed>>
       \/ /\ HasDataConn(s)
          /\ thr' = [thr EXCEPT ![s] = "retry"]
          /\ UNCHANGED <<wire, netUp, crashed>>
    /\ UNCHANGED <<mainVars, testVars, strState, strConn, strRetry, strStopped, strErr,
                   sLink, toRecv, toSend, recvVars, faults>>

(* The retry loop after a refused SendData.                                *)
ThreadRetry(s) ==
    /\ SenderAlive /\ thr[s] = "retry"
    /\ thr' = [thr EXCEPT ![s] = IF strState[s] # "START" \/ strErr[s] THEN "loop" ELSE "send"]
    /\ UNCHANGED <<mainVars, testVars, strState, strConn, strRetry, strStopped, strErr, wire,
                   chanVars, recvVars, envVars>>

(* SendFIN: nothing is sent on an unreliable protocol; otherwise the first *)
(* SendData is made whatever the state of the stream is.                   *)
SendFIN(s) ==
    /\ SenderAlive /\ thr[s] = "fin"
    /\ \/ /\ ~IsReliableProtocol
          /\ thr' = [thr EXCEPT ![s] = "exit"]
          /\ UNCHANGED <<wire, netUp, crashed>>
       \/ IsReliableProtocol /\ ~HasDataConn(s) /\ NullDataConn
       \/ /\ IsReliableProtocol /\ HasDataConn(s) /\ strConn[s] = "CONNECTED"
          /\ thr' = [thr EXCEPT ![s] = "exit"]
          /\ wire' = [wire EXCEPT ![s] = "fin"]
          /\ UNCHANGED <<netUp, crashed>>
       \/ /\ IsReliableProtocol /\ HasDataConn(s)
          /\ thr' = [thr EXCEPT ![s] = "finretry"]
          /\ UNCHANGED <<wire, netUp, crashed>>
    /\ UNCHANGED <<mainVars, testVars, strState, strConn, strRetry, strStopped, strErr,
                   sLink, toRecv, toSend, recvVars, faults>>

SendFINRetry(s) ==
    /\ SenderAlive /\ thr[s] = "finretry"
    /\ thr' = [thr EXCEPT ![s] = IF strState[s] = "DONE" \/ strErr[s] THEN "exit" ELSE "fin"]
    /\ UNCHANGED <<mainVars, testVars, strState, strConn, strRetry, strStopped, strErr, wire,
                   chanVars, recvVars, envVars>>

SendingThread(s) ==
    ThreadBegin(s) \/ ThreadLoop(s) \/ ThreadSend(s) \/ ThreadRetry(s) \/ SendFIN(s) \/ SendFINRetry(s)

-----------------------------------------------------------------------------
(* Receiver: IO thread of the server.                                      *)

(* ControlChannelListenCallback.                                           *)
AcceptCtrl ==
    /\ netUp /\ rLink = "none"
    /\ rLink' = "open"
    /\ UNCHANGED <<mainVars, testVars, strVars, chanVars, rState, rPhase, rCnt, rAccepted, rDone, envVars>>

(* Mutant: the second ack does not end the receiver's test.                *)
AckedState_Stuck == IF rState = "NONE" THEN "START" ELSE rState

(* SendAck sends the ack and moves the receiver's state on.                *)
AckedState == CASE rState = "NONE" -> "START" [] rState = "START" -> "DONE" [] OTHER -> rState
SendAck ==
    /\ toSend' = SendCtrl(toSend, "ACK")
    /\ rState' = AckedState

(* IperfBatsApi::HandleControlMessage creates the test (0x02 is the only   *)
(* code it can do that for here), which listens and acknowledges.          *)
HandleTestParameters ==
    /\ rLink = "open" /\ rPhase = "none"
    /\ toRecv # <<>> /\ Head(toRecv) = "PARAMS"
    /\ toRecv' = Tail(toRecv)
    /\ SendAck
    /\ rPhase' = "table"
    /\ UNCHANGED <<mainVars, testVars, strVars, sLink, netUp, rCnt, rLink, rAccepted, rDone, envVars>>

(* The reports it carries are the subject of IperfStream.                  *)
HandleSummaryMessage ==
    /\ rLink = "open" /\ rPhase = "table"
    /\ toRecv # <<>> /\ Head(toRecv) = "SUMMARY"
    /\ toRecv' = Tail(toRecv)
    /\ IF rState = "DONE" THEN UNCHANGED <<toSend, rState>> ELSE SendAck
    /\ UNCHANGED <<mainVars, testVars, strVars, sLink, netUp, rPhase, rCnt, rLink, rAccepted, rDone, envVars>>

(* Mutant: Stop releases the streams and leaves state_ alone.              *)
ReceiverStop_KeepsState ==
    /\ rAccepted' = {} /\ rDone' = {}
    /\ UNCHANGED rState

(* IperfTest::Stop of the server's test, if it is still in test_tbl_.      *)
ReceiverStop ==
    IF rPhase = "table"
    THEN rState' = "DONE" /\ rAccepted' = {} /\ rDone' = {}
    ELSE UNCHANGED <<rState, rAccepted, rDone>>

(* IperfBatsApi::ControlChannelConnectionCallback, CLOSED and SHUTDOWN.    *)
ReceiverCtrlClosed ==
    /\ rLink = "open" /\ ~netUp
    /\ rLink' = "closed" /\ toRecv' = <<>>
    /\ ReceiverStop
    /\ UNCHANGED <<mainVars, testVars, strVars, sLink, netUp, toSend, rPhase, rCnt, envVars>>

(* Mutant: the ready signal for every connection from num_streams on.      *)
SignalsReady_AtLeast(accepted) ==
    ~IsUdp /\ Cardinality(accepted) >= ReceiverNumStreams /\ rLink = "open"

(* DataListenCallback, NEW_CONNECTION, for attempt k of stream s, which    *)
(* may be accepted late: the listener lives as long as the test.  The      *)
(* ready signal goes out when the number of accepted streams equals the    *)
(* receiver's num_streams.  UDP has no accept before its first datagram,   *)
(* and no ready signal.                                                    *)
SignalsReady(accepted) == ~IsUdp /\ Cardinality(accepted) = ReceiverNumStreams /\ rLink = "open"

DataListenCallback(s, k) ==
    /\ rPhase \in {"table", "dying"}
    /\ strConn[s] # "NONE" \/ strStopped[s]
    /\ k <= strRetry[s] /\ <<s, k>> \notin rAccepted
    /\ IsUdp => wire[s] # "idle" /\ k = strRetry[s]
    /\ rAccepted' = rAccepted \cup {<<s, k>>}
    /\ toSend' = IF SignalsReady(rAccepted') THEN SendCtrl(toSend, "READY") ELSE toSend
    /\ UNCHANGED <<mainVars, testVars, strVars, sLink, netUp, toRecv, rState, rPhase, rCnt, rLink, rDone, envVars>>

(* UpdateReceived with last set: answer FIN-ACK, finish, STREAM_DONE.      *)
OnReceivedFIN(s) ==
    /\ wire[s] = "fin" /\ <<s, strRetry[s]>> \in rAccepted
    /\ wire' = [wire EXCEPT ![s] = "finack"]
    /\ rDone' = rDone \cup {<<s, strRetry[s]>>}
    /\ UNCHANGED <<mainVars, testVars, strState, strConn, strRetry, strStopped, strErr, thr,
                   chanVars, rState, rPhase, rCnt, rLink, rAccepted, envVars>>

(* Receiver: one round of EnterReceiverIntervalLoop.  A finished test goes *)
(* to dying_tests and is looked at there in the same round.                *)
ReceiverStreamsDone ==
    \/ rAccepted = {}
    \/ rAccepted \subseteq rDone /\ Cardinality(rAccepted) = ReceiverNumStreams

(* Mutant: the state of the test is not looked at.                         *)
ReceiverInterval_AnyState ==
    /\ \/ /\ rPhase = "table" /\ ReceiverStreamsDone
          /\ IF rLink # "open" THEN rPhase' = "gone" /\ UNCHANGED rCnt
                               ELSE rPhase' = "dying" /\ rCnt' = 1
       \/ /\ rPhase = "dying"
          /\ IF rLink # "open" \/ rCnt > DyingTicks
             THEN rPhase' = "gone" /\ UNCHANGED rCnt
             ELSE rPhase' = "dying" /\ rCnt' = rCnt + 1
    /\ UNCHANGED <<mainVars, testVars, strVars, chanVars, rState, rLink, rAccepted, rDone, envVars>>

ReceiverInterval ==
    /\ \/ /\ rPhase = "table" /\ rState = "DONE" /\ ReceiverStreamsDone
          /\ IF rLink # "open" THEN rPhase' = "gone" /\ UNCHANGED rCnt
                               ELSE rPhase' = "dying" /\ rCnt' = 1
       \/ /\ rPhase = "dying"
          /\ IF rLink # "open" \/ rCnt > DyingTicks
             THEN rPhase' = "gone" /\ UNCHANGED rCnt
             ELSE rPhase' = "dying" /\ rCnt' = rCnt + 1
    /\ UNCHANGED <<mainVars, testVars, strVars, chanVars, rState, rLink, rAccepted, rDone, envVars>>

ReceiverIO ==
    \/ AcceptCtrl \/ HandleTestParameters \/ HandleSummaryMessage \/ ReceiverCtrlClosed
    \/ \E s \in Streams : OnReceivedFIN(s) \/ \E k \in Attempts : DataListenCallback(s, k)

-----------------------------------------------------------------------------
(* Environment.                                                            *)

(* The user interrupts the client: the signal callback, in the IO thread,  *)
(* stores the signal ...                                                   *)
Interrupt ==
    /\ IOFree /\ ~sigint
    /\ Fault("sigint")
    /\ sigint' = TRUE /\ signalled' = TRUE
    /\ UNCHANGED <<pc, waits, ticks, apiStopped, finAt, startAt, testVars, strVars, chanVars, recvVars, crashed>>

(* ... and calls StopAll, if the main thread has not seen the signal and   *)
(* done so.                                                                *)
InterruptStops ==
    /\ SenderAlive /\ signalled
    /\ signalled' = FALSE /\ apiStopped' = TRUE
    /\ \/ apiStopped /\ UNCHANGED stopVars
       \/ ~apiStopped /\ BeginStop("io")
    /\ UNCHANGED <<pc, waits, ticks, sigint, finAt, startAt, state, listed, readyFlag, strVars, chanVars, recvVars, envVars>>

(* The control connection breaks.                                          *)
BreakCtrl ==
    /\ netUp
    /\ Fault("ctrl")
    /\ netUp' = FALSE
    /\ UNCHANGED <<mainVars, testVars, strVars, sLink, toRecv, toSend, recvVars, crashed>>

(* The server is interrupted: StopAll, and the process ends.               *)
ServerExit ==
    /\ rLink = "open"
    /\ Fault("server")
    /\ rLink' = "closed" /\ netUp' = FALSE /\ toRecv' = <<>>
    /\ rState' = IF rPhase = "table" THEN "DONE" ELSE rState
    /\ rAccepted' = {} /\ rDone' = {}
    /\ rPhase' = "gone"
    /\ UNCHANGED <<mainVars, testVars, strVars, sLink, toSend, rCnt, crashed>>

Next ==
    \/ Main \/ StopSteps
    \/ CtrlChannel \/ CtrlFailed
    \/ \E s \in Streams : ConnectionCallback(s) \/ SendingThread(s)
    \/ ReceiverIO
    \/ ReceiverInterval
    \/ Interrupt \/ InterruptStops \/ BreakCtrl \/ ServerExit

Spec == Init /\ [][Next]_vars

(* Both processes keep running their threads and the network delivers what *)
(* it has not lost; nothing obliges the environment to break anything, nor *)
(* a connection to come up.                                                *)
Fairness ==
    /\ WF_vars(Main) /\ WF_vars(StopSteps)
    /\ WF_vars(CtrlClosed \/ HandleAckMessage \/ HandleReadyMessage \/ StartNext \/ InterruptStops)
    /\ \A s \in Streams : WF_vars(SendingThread(s))
    /\ WF_vars(ReceiverIO)
    /\ WF_vars(ReceiverInterval)

FairSpec == Spec /\ Fairness

-----------------------------------------------------------------------------
(* Properties.                                                             *)

(* The control plane implements the state machine drawn in iperf_test.h    *)
(* (IperfSession): neither peer gets ahead of the other, whatever the      *)
(* interleaving of main thread, IO threads and messages.  The sender is    *)
(* finished once OnSentFinished has stopped the streams.                   *)
Finishing == {"summary", "store", "wait"}
Quitting == {"stop", "leave", "end"}

Session ==
    INSTANCE IperfSession WITH
        s <- state, r <- rState,
        finished <- pc \in Finishing \cup Quitting,
        broken <- sLink \in {"open", "closed"} /\ ~netUp,
        quitting <- sigint \/ pc \in Quitting

SessionSpec == Session!Spec

(* StartSend assigns sending_thread_; doing so to a running thread calls   *)
(* std::terminate.  So a ready signal on its way must find no sending      *)
(* thread, and the walk over the streams that follows it none either: the  *)
(* receiver sends it once, whatever connections are retried.               *)
NoThreadRestart ==
    /\ \A i \in DOMAIN toSend : toSend[i] = "READY" => \A s \in Streams : thr[s] = "off"
    /\ \A s \in Streams : startAt \in 1..s => thr[s] = "off"

(* IperfBatsApi::HandleControlMessage dereferences a null received_test    *)
(* for a summary whose test is not in test_tbl_, and would create a second *)
(* test for parameters of one that is.  Neither happens: a test leaves the *)
(* table only when no message for it can come any more.                    *)
MessageHasTest ==
    rLink = "open" /\ toRecv # <<>> =>
        rPhase = (IF Head(toRecv) = "PARAMS" THEN "none" ELSE "table")

(* When nothing failed and EnterSenderIntervalLoop leaves its last loop    *)
(* because it is DONE, the receiver has the summary and, on a reliable     *)
(* protocol, has seen the FIN of every stream.                             *)
SuccessIsMutual ==
    faults = 0 /\ pc = "wait" /\ state = "DONE" /\ listed /\ IsStreamDone =>
        /\ rState = "DONE"
        /\ \A s \in Streams : <<s, strRetry[s]>> \in rDone

(* RunTest always comes to an end (or the process has died): each of its   *)
(* loops is bounded and ~IperfStream does not wait for a thread forever.   *)
SenderTerminates == <>(pc = "end" \/ crashed)

(* A test created by the server is erased again, so neither test_tbl_ nor  *)
(* dying_tests grows for ever.  The exception is a connection accepted     *)
(* between Stop and the next round of the server's loop.                   *)
AcceptedAfterStop == rPhase = "table" /\ rLink = "closed" /\ rAccepted # {}
ReceiverCleansUp == rPhase = "table" ~> (rPhase = "gone" \/ AcceptedAfterStop)

-----------------------------------------------------------------------------
(* The inductive invariant behind the safety properties: what the messages *)
(* in flight say about the two peers.                                      *)

AfterSummary == {"store", "wait"} \cup Quitting

InFlight(queue, m) == \E i \in DOMAIN queue : queue[i] = m
AtMostOne(queue, m) == \A i, j \in DOMAIN queue : queue[i] = m /\ queue[j] = m => i = j

(* The sender has acted on the first ack.                                  *)
Acked ==
    \/ listed
    \/ pc \in {"loop", "finish", "stopping", "summary", "store"}
    \/ state \in {"START", "EXCHANGE_REPORTS"}

(* Before the control channel is up nothing has happened at the receiver.  *)
OpeningInv ==
    /\ sLink \in {"none", "connecting"} =>
          /\ ~netUp /\ rLink = "none" /\ toRecv = <<>> /\ toSend = <<>>
          /\ state \in {"NONE", "DONE"}
    /\ pc = "start" => sLink = "none"
    /\ sLink = "closed" => ~netUp
    /\ sLink = "open" \/ toRecv # <<>> => state # "NONE"
    /\ state = "EXCHANGE_REPORTS" => pc \in {"wait"} \cup Quitting

(* The server's test: its place in the server's tables and its state.      *)
ReceiverInv ==
    /\ rLink = "none" => rPhase = "none"
    /\ rPhase = "none" => rState = "NONE" /\ rAccepted = {}
    /\ rPhase = "table" => rState # "NONE"
    /\ rPhase = "dying" => rState = "DONE"
    /\ rPhase = "gone" => rLink = "closed" \/ rState = "DONE"
    /\ rState = "START" => rPhase = "table" /\ rLink = "open"
    /\ rState = "DONE" /\ rLink = "open" => pc \in AfterSummary

(* Messages on their way to the receiver.                                  *)
RequestInv ==
    /\ InFlight(toRecv, "PARAMS") => rState = "NONE"
    /\ InFlight(toRecv, "SUMMARY") =>
          /\ pc \in AfterSummary /\ rState # "NONE"
          /\ rLink = "open" => rState = "START"
    /\ AtMostOne(toRecv, "PARAMS")
    /\ AtMostOne(toRecv, "SUMMARY")

(* Acks on their way to the sender: a second one means DONE.               *)
AckInv ==
    /\ Acked => rState # "NONE" /\ state # "EXCHANGE_PARAMETERS"
    /\ InFlight(toSend, "ACK") => rState # "NONE"
    /\ Acked /\ InFlight(toSend, "ACK") => rState = "DONE"
    /\ AtMostOne(toSend, "ACK") \/ rState = "DONE"

(* Somebody stops the sender's test for a reason.                          *)
StopInv ==
    /\ signalled => sigint
    /\ stopAt # "out" => sigint \/ sLink = "closed"

(* The ready signal: sent once, for the first stream accepted.             *)
ReadyInv ==
    /\ IsUdp => ~InFlight(toSend, "READY")
    /\ AtMostOne(toSend, "READY")
    /\ InFlight(toSend, "READY") => startAt = 0 /\ \A s \in Streams : thr[s] = "off"
    /\ startAt > 0 => ~IsUdp /\ \A s \in Streams : startAt <= s => thr[s] = "off"
    /\ ~IsUdp /\ (InFlight(toSend, "READY") \/ startAt > 0 \/ \E s \in Streams : thr[s] # "off") =>
          rLink = "closed" \/ rAccepted # {}

SessionInv == OpeningInv /\ ReceiverInv /\ RequestInv /\ AckInv /\ StopInv /\ ReadyInv

-----------------------------------------------------------------------------
(* What comments of the code say and the code does not do.                 *)

(* iperf_test.cc, SendTestReady: the signal indicates that all the test    *)
(* streams are ready (accepted).                                           *)
ReadyMeansAllAccepted ==
    \A i \in DOMAIN toSend : toSend[i] = "READY" =>
        \/ rLink # "open"
        \/ \A s \in Streams : \E k \in Attempts : <<s, k>> \in rAccepted

(* iperf_test.h: the ack of the reports ends the exchange.  Once the       *)
(* receiver is DONE and its ack has been handled, the sender is not left   *)
(* in EXCHANGE_REPORTS.                                                    *)
AckEndsExchange ==
    rState = "DONE" /\ netUp /\ toSend = <<>> => state # "EXCHANGE_REPORTS"

(* iperf_test.cc, TestFinishState: "can't proceed the test, mark the test  *)
(* as done": a test whose main thread found it DONE stays DONE.            *)
DoneIsTerminal ==
    [][state = "DONE" /\ pc \in {"finish", "stopping", "summary", "store"} => state' = "DONE"]_vars

(* iperf_stream.cc, SendFIN: a stream that is terminated has no need to    *)
(* send FIN, so ending the test does not make it use its null data_conn_.  *)
NoNullDataConn == \A s \in Streams : thr[s] = "fin" /\ IsReliableProtocol => HasDataConn(s)

(* iperf_stream.cc, FinishReport: "gen summary(FinishReport-> stop send)   *)
(* -> send summary": no stream is sending when the summary is out.         *)
QuietAfterSummary ==
    pc \in {"store", "wait"} => \A s \in Streams : strState[s] # "START"

(* iperf_test.cc, Stop: "release all the streams": a stopped test holds    *)
(* none.                                                                   *)
StoppedHoldsNoStream == ~AcceptedAfterStop

(* iperf_stream.cc, Stop: "eliminate circular reference": a test is not    *)
(* torn down while a stream that finished was never stopped.               *)
TornDownStreamsStopped == rPhase = "gone" => rDone = {}
=============================================================================

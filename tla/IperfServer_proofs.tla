-------------------------- MODULE IperfServer_proofs --------------------------
(***************************************************************************)
(* Proofs about one server with any number of clients (IperfServer).       *)
(***************************************************************************)
EXTENDS IperfServer, TLAPS

InFlight(q, m) == \E k \in 1..Len(q) : q[k] = m
AtMostOne(q, m) == \A k, l \in 1..Len(q) : q[k] = m /\ q[l] = m => k = l

-----------------------------------------------------------------------------
(* The inductive invariants.                                               *)

(* The loop has nothing in hand outside its rounds, and before SIGINT      *)
(* StopAll is not entered and no walk was cut.                             *)
ThreadInv ==
    /\ mpc # "visit" => todo = {} /\ walking = Null
    /\ ~sig => ioPc = "free" /\ mpc \in {"sleep", "visit"} /\ at = Null
    /\ ~sig => ~cut

(* A client sends its parameters once, and has no test before.             *)
ParamsInv(c) ==
    /\ \A k \in 1..Len(toServer[c]) : toServer[c][k] = "PARAMS" => k = 1
    /\ c \in tbl \cup dying => cli[c] # "off" /\ ~InFlight(toServer[c], "PARAMS")
    /\ cli[c] = "off" => toServer[c] = <<>>

BaseInv == TypeOK /\ ThreadInv /\ \A c \in Clients : ParamsInv(c)

(* As long as no two clients have the same id, each client has the test of *)
(* its own name for itself.                                                *)
IdsDiffer == \A c, d \in Clients : IdOf[c] = IdOf[d] => c = d

(* The control connection: whose end is up, and what is lost with it.      *)
ChannelInv(c) ==
    /\ netUp[c] <=> cli[c] \notin {"off", "left"}
    /\ ~netUp[c] => toClient[c] = <<>>
    /\ cli[c] = "off" => conn[c] = "none"
    /\ conn[c] = "closed" => cli[c] = "left" /\ toServer[c] = <<>>
    /\ tChn[c] \in {Null, c}

(* What the state of a test says of its place in the tables, of its        *)
(* channel and of the messages that can still come for it.                 *)
TestInv(c) ==
    /\ tState[c] = "NONE" =>
        /\ c \notin tbl \cup dying /\ tChn[c] = Null /\ user[c] = Null /\ ~tStopped[c]
        /\ toServer[c] \in {<<>>, <<"PARAMS">>}
        /\ cli[c] \in {"off", "params", "left"}
    /\ tState[c] = "START" =>
        /\ c \in tbl /\ tChn[c] = c /\ ~tStopped[c]
        /\ conn[c] = "open"
        /\ cli[c] \in {"params", "acked", "summary", "left"}
        /\ toServer[c] \in {<<>>, <<"SUMMARY">>}
        /\ cli[c] \in {"params", "acked"} => toServer[c] = <<>>
    /\ tState[c] = "DONE" =>
        /\ toServer[c] = <<>>
        /\ cli[c] \in {"summary", "done", "left"}
    /\ tState[c] # "NONE" => user[c] = IdOf[c]

(* Acks: at most one is under way, and which one it is.                    *)
AckInv(c) ==
    /\ AtMostOne(toClient[c], "ACK")
    /\ InFlight(toClient[c], "ACK") =>
        \/ cli[c] = "params" /\ tState[c] = "START"
        \/ cli[c] = "summary" /\ tState[c] = "DONE"

SessionInv(c) == ChannelInv(c) /\ TestInv(c) /\ AckInv(c)

ServerInv == ~sig => ~crashed /\ \A c \in Clients : SessionInv(c)

-----------------------------------------------------------------------------
(* Queues.                                                                 *)

LEMMA QueueOfOne ==
  ASSUME NEW x
  PROVE  Head(<<x>>) = x /\ Tail(<<x>>) = <<>> /\ <<x>> # <<>> /\ Append(<<>>, x) = <<x>>
  OBVIOUS

LEMMA TailFlight ==
  ASSUME NEW S, NEW q \in Seq(S), q # <<>>, NEW m
  PROVE  /\ Tail(q) \in Seq(S)
         /\ InFlight(q, Head(q))
         /\ InFlight(Tail(q), m) => InFlight(q, m)
         /\ AtMostOne(q, m) => AtMostOne(Tail(q), m)
         /\ AtMostOne(q, Head(q)) => ~InFlight(Tail(q), Head(q))
  BY DEF InFlight, AtMostOne

LEMMA AppendFlight ==
  ASSUME NEW S, NEW q \in Seq(S), NEW x \in S, NEW m
  PROVE  /\ Append(q, x) \in Seq(S)
         /\ InFlight(Append(q, x), m) => x = m \/ InFlight(q, m)
         /\ AtMostOne(q, m) /\ (x # m \/ ~InFlight(q, m)) => AtMostOne(Append(q, x), m)
  BY DEF InFlight, AtMostOne

LEMMA EmptyFlight ==
  ASSUME NEW m
  PROVE  ~InFlight(<<>>, m) /\ AtMostOne(<<>>, m)
  BY DEF InFlight, AtMostOne

(* An ack on a channel that carries none, or on one that is down.          *)
LEMMA AckSent ==
  ASSUME NEW q \in Seq({"ACK", "READY"}), AtMostOne(q, "ACK"), ~InFlight(q, "ACK"), NEW up, NEW r,
         r = IF up THEN Append(q, "ACK") ELSE q
  PROVE  AtMostOne(r, "ACK") /\ (InFlight(r, "ACK") => up)
  BY DEF InFlight, AtMostOne

(* A message whose only place is the first is gone when it is taken.       *)
LEMMA FirstOnlyTail ==
  ASSUME NEW S, NEW q \in Seq(S), q # <<>>, NEW m, \A k \in 1..Len(q) : q[k] = m => k = 1
  PROVE  ~InFlight(Tail(q), m) /\ \A k \in 1..Len(Tail(q)) : Tail(q)[k] = m => k = 1
  BY DEF InFlight

LEMMA FirstOnlyAppend ==
  ASSUME NEW S, NEW q \in Seq(S), NEW x \in S, NEW m, x # m, \A k \in 1..Len(q) : q[k] = m => k = 1
  PROVE  \A k \in 1..Len(Append(q, x)) : Append(q, x)[k] = m => k = 1
  OBVIOUS

-----------------------------------------------------------------------------
(* What each part of BaseInv depends on.                                   *)

LEMMA ClientFrame ==
  ASSUME ClientTypeOK, UNCHANGED clientVars
  PROVE  ClientTypeOK'
  BY DEF ClientTypeOK, clientVars

LEMMA ConnFrame ==
  ASSUME ConnTypeOK, UNCHANGED connVars
  PROVE  ConnTypeOK'
  BY DEF ConnTypeOK, connVars

LEMMA TestFrame ==
  ASSUME TestTypeOK, UNCHANGED testVars
  PROVE  TestTypeOK'
  BY DEF TestTypeOK, testVars

LEMMA TableFrame ==
  ASSUME TableTypeOK, UNCHANGED tableVars
  PROVE  TableTypeOK'
  BY DEF TableTypeOK, tableVars

LEMMA ThreadFrame ==
  ASSUME ThreadTypeOK, ThreadInv, UNCHANGED <<tbl, mainVars, stopVars, outcome>>
  PROVE  ThreadTypeOK' /\ ThreadInv'
  BY DEF ThreadTypeOK, ThreadInv, mainVars, stopVars, outcome

LEMMA ParamsFrame ==
  ASSUME \A c \in Clients : ParamsInv(c), UNCHANGED <<cli, toServer>>, (tbl \cup dying)' \subseteq tbl \cup dying
  PROVE  \A c \in Clients : ParamsInv(c)'
  BY DEF ParamsInv

-----------------------------------------------------------------------------
(* BaseInv holds for any ids.                                              *)

LEMMA InitBase == Init => BaseInv
  <1> SUFFICES ASSUME Init PROVE BaseInv
    OBVIOUS
  <1> USE ServerAssumption
  <1>1. ClientTypeOK
    BY DEF Init, ClientTypeOK
  <1>2. ConnTypeOK
    BY DEF Init, ConnTypeOK
  <1>3. TestTypeOK
    BY DEF Init, TestTypeOK
  <1>4. TableTypeOK
    BY DEF Init, TableTypeOK
  <1>5. ThreadTypeOK /\ ThreadInv
    BY DEF Init, ThreadTypeOK, ThreadInv
  <1>6. \A c \in Clients : ParamsInv(c)
    BY DEF Init, ParamsInv
  <1> QED
    BY <1>1, <1>2, <1>3, <1>4, <1>5, <1>6 DEF BaseInv, TypeOK

(* The clients touch only their own side.                                  *)
LEMMA ClientBase ==
  ASSUME BaseInv, NEW c \in Clients, Client(c)
  PROVE  BaseInv'
  <1> USE DEF BaseInv, TypeOK
  <1>1. UNCHANGED <<connVars, testVars, tableVars, mainVars, stopVars, outcome>>
    BY DEF Client, Connect, ClientAck, ClientReady, SendSummary, SendFin, FinAckReceived, Leave
  <1>2. ConnTypeOK' /\ TestTypeOK' /\ TableTypeOK'
    BY <1>1, ConnFrame, TestFrame, TableFrame
  <1>3. ThreadTypeOK' /\ ThreadInv'
    BY <1>1, ThreadFrame DEF tableVars
  <1>4. ClientTypeOK' /\ \A d \in Clients : ParamsInv(d)'
    <2> USE DEF ClientTypeOK
    <2>1. CASE Connect(c)
      <3>1. ClientTypeOK'
        BY <2>1 DEF Connect
      <3>2. \A d \in Clients : d # c => ParamsInv(d)'
        BY <1>1, <2>1 DEF Connect, ParamsInv, tableVars
      <3>3. ParamsInv(c)'
        BY <1>1, <2>1 DEF Connect, ParamsInv, tableVars
      <3> QED
        BY <3>1, <3>2, <3>3
    <2>2. CASE ClientAck(c)
      <3>1. ClientTypeOK'
        BY <2>2, TailFlight DEF ClientAck
      <3>2. \A d \in Clients : ParamsInv(d)'
        BY <1>1, <2>2 DEF ClientAck, ParamsInv, tableVars
      <3> QED
        BY <3>1, <3>2
    <2>3. CASE ClientReady(c)
      BY <1>1, <2>3, TailFlight, ParamsFrame DEF ClientReady, tableVars
    <2>4. CASE SendSummary(c)
      <3>1. ClientTypeOK'
        BY <2>4 DEF SendSummary
      <3>2. toServer'[c] = toServer[c] \/ toServer'[c] = Append(toServer[c], "SUMMARY")
        BY <2>4 DEF SendSummary
      <3>3. \A d \in Clients : d # c => ParamsInv(d)'
        BY <1>1, <2>4 DEF SendSummary, ParamsInv, tableVars
      <3>4. ParamsInv(c)'
        <4>0. toServer[c] \in Seq({"PARAMS", "SUMMARY"}) /\ "SUMMARY" \in {"PARAMS", "SUMMARY"}
          OBVIOUS
        <4>1. ~InFlight(toServer[c], "PARAMS") => ~InFlight(toServer'[c], "PARAMS")
          <5>1. InFlight(Append(toServer[c], "SUMMARY"), "PARAMS") =>
                  "SUMMARY" = "PARAMS" \/ InFlight(toServer[c], "PARAMS")
            BY <4>0, AppendFlight
          <5>2. CASE toServer'[c] = toServer[c]
            BY <5>2 DEF InFlight
          <5>3. CASE toServer'[c] = Append(toServer[c], "SUMMARY")
            BY <5>1, <5>3 DEF InFlight
          <5> QED
            BY <3>2, <5>2, <5>3
        <4>2. \A k \in 1..Len(toServer'[c]) : toServer'[c][k] = "PARAMS" => k = 1
          <5>1. \A k \in 1..Len(toServer[c]) : toServer[c][k] = "PARAMS" => k = 1
            BY DEF ParamsInv
          <5>2. \A k \in 1..Len(Append(toServer[c], "SUMMARY")) :
                  Append(toServer[c], "SUMMARY")[k] = "PARAMS" => k = 1
            BY <4>0, <5>1, FirstOnlyAppend
          <5> QED
            BY <3>2, <5>1, <5>2
        <4> QED
          BY <1>1, <2>4, <4>1, <4>2 DEF SendSummary, ParamsInv, tableVars
      <3> QED
        BY <3>1, <3>3, <3>4
    <2>5. CASE SendFin(c)
      BY <1>1, <2>5, ParamsFrame DEF SendFin, tableVars
    <2>6. CASE FinAckReceived(c)
      BY <1>1, <2>6, ParamsFrame DEF FinAckReceived, tableVars
    <2>7. CASE Leave(c)
      <3>1. ClientTypeOK'
        BY <2>7 DEF Leave
      <3>2. \A d \in Clients : ParamsInv(d)'
        BY <1>1, <2>7 DEF Leave, ParamsInv, tableVars
      <3> QED
        BY <3>1, <3>2
    <2> QED
      BY <2>1, <2>2, <2>3, <2>4, <2>5, <2>6, <2>7 DEF Client
  <1> QED
    BY <1>2, <1>3, <1>4

(* Stop, of any tests, when no thread walks the streams of one of them.    *)
LEMMA StopBase ==
  ASSUME TestTypeOK, cut \in BOOLEAN, NEW T \in SUBSET Clients, Stop(T),
         UNCHANGED <<listens, fin>>,
         tChn' \in [Clients -> Clients \cup {Null}]
  PROVE  TestTypeOK' /\ (walking = Null => cut' = cut)
  <1>1. TestTypeOK'
    BY DEF Stop, TestTypeOK
  <1>2. walking = Null => cut' = cut
    <2>1. \A t \in T : t # Null
      BY ServerAssumption
    <2> QED
      BY <2>1 DEF Stop
  <1> QED
    BY <1>1, <1>2

(* A control message: its test, the ack and the listener.                  *)
LEMMA HandlesType ==
  ASSUME ClientTypeOK, TestTypeOK, NEW t \in Clients, NEW c \in Clients, NEW m, TestHandles(t, c, m),
         UNCHANGED <<tStopped, streams, fin, released>>
  PROVE  TestTypeOK' /\ toClient' \in [Clients -> Seq({"ACK", "READY"})]
  <1> DEFINE chn == IF tChn[t] = Null THEN c ELSE tChn[t]
  <1>1. chn \in Clients
    BY DEF TestTypeOK
  <1>2. tChn' \in [Clients -> Clients \cup {Null}]
    BY <1>1 DEF TestHandles, TestTypeOK
  <1>3. CASE tState[t] = "DONE"
    BY <1>2, <1>3 DEF TestHandles, TestTypeOK, ClientTypeOK
  <1>4. CASE tState[t] # "DONE"
    <2>1. SendAck(t, chn) /\ (StartListen(t) \/ UNCHANGED listens)
      BY <1>4 DEF TestHandles
    <2>2. tState' \in [Clients -> {"NONE", "START", "DONE"}]
      BY <2>1 DEF SendAck, TestTypeOK
    <2>3. listens' \in [Clients -> BOOLEAN]
      BY <2>1 DEF StartListen, TestTypeOK
    <2>4. toClient' \in [Clients -> Seq({"ACK", "READY"})]
      BY <1>1, <2>1 DEF SendAck, SendCtrl, ClientTypeOK
    <2> QED
      BY <1>2, <2>2, <2>3, <2>4 DEF TestTypeOK
  <1> QED
    BY <1>3, <1>4

(* The callbacks of the IO thread.                                         *)
LEMMA ServerIOBase ==
  ASSUME BaseInv, ServerIO
  PROVE  BaseInv'
  <1> USE DEF BaseInv, TypeOK
  <1> PICK c \in Clients :
        \/ ControlChannelListenCallback(c) \/ HandleControlMessage(c) \/ ControlChannelClosed(c)
        \/ OnReceivedFIN(c) \/ \E t \in Clients : DataListenCallback(t, c)
    BY DEF ServerIO
  <1>1. CASE ControlChannelListenCallback(c)
    <2>1. ConnTypeOK'
      BY <1>1 DEF ControlChannelListenCallback, ConnTypeOK
    <2>2. ClientTypeOK' /\ TestTypeOK' /\ TableTypeOK'
      BY <1>1, ClientFrame, TestFrame, TableFrame DEF ControlChannelListenCallback
    <2>3. ThreadTypeOK' /\ ThreadInv'
      BY <1>1, ThreadFrame DEF ControlChannelListenCallback, tableVars
    <2>4. \A d \in Clients : ParamsInv(d)'
      BY <1>1, ParamsFrame DEF ControlChannelListenCallback, tableVars, clientVars
    <2> QED
      BY <2>1, <2>2, <2>3, <2>4
  <1>2. CASE HandleControlMessage(c)
    <2>1. /\ toServer[c] \in Seq({"PARAMS", "SUMMARY"}) /\ toServer[c] # <<>>
          /\ toServer' = [toServer EXCEPT ![c] = Tail(toServer[c])]
          /\ UNCHANGED <<cli, ready, data, netUp, conn, isConnected, tStopped, streams, fin,
                         released, dying, cnt, mainVars, stopVars, nullConn, cut>>
          /\ mpc # "visit"
      BY <1>2 DEF HandleControlMessage, ClientTypeOK, LockFree
    <2>2. /\ ~InFlight(toServer'[c], "PARAMS")
          /\ \A k \in 1..Len(toServer'[c]) : toServer'[c][k] = "PARAMS" => k = 1
          /\ toServer'[c] \in Seq({"PARAMS", "SUMMARY"})
          /\ InFlight(toServer[c], Head(toServer[c]))
      BY <2>1, FirstOnlyTail, TailFlight DEF ParamsInv, ClientTypeOK
    <2>3. TestTypeOK' /\ toClient' \in [Clients -> Seq({"ACK", "READY"})]
      <3>1. CASE \E t \in Find(IdOf[c]) : TestHandles(t, c, Head(toServer[c]))
        BY <2>1, <3>1, HandlesType DEF Find, TableTypeOK
      <3>2. CASE TestHandles(c, c, "PARAMS")
        BY <2>1, <3>2, HandlesType
      <3>3. CASE UNCHANGED <<toClient, tState, listens, tChn>>
        BY <2>1, <3>3 DEF TestTypeOK, ClientTypeOK
      <3> QED
        BY <1>2, <3>1, <3>2, <3>3 DEF HandleControlMessage
    <2>4. ClientTypeOK'
      BY <2>1, <2>2, <2>3 DEF ClientTypeOK
    <2>5. /\ tbl' = tbl \/ (tbl' = tbl \cup {c} /\ Head(toServer[c]) = "PARAMS")
          /\ user' = user \/ user' = [user EXCEPT ![c] = IdOf[c]]
          /\ crashed' = crashed \/ crashed' = TRUE
      BY <1>2 DEF HandleControlMessage
    <2>6. ConnTypeOK'
      BY <2>1, <2>5 DEF ConnTypeOK
    <2>7. TableTypeOK'
      BY <2>1, <2>2, <2>5 DEF TableTypeOK, ParamsInv
    <2>8. ThreadTypeOK' /\ ThreadInv'
      BY <2>1, <2>5 DEF ThreadTypeOK, ThreadInv, mainVars, stopVars
    <2>9. \A d \in Clients : ParamsInv(d)'
      <3>1. ASSUME NEW d \in Clients, d # c PROVE ParamsInv(d)'
        BY <2>1, <2>5, <3>1 DEF ParamsInv, ClientTypeOK
      <3>2. ParamsInv(c)'
        BY <2>1, <2>2, <2>5, EmptyFlight DEF ParamsInv
      <3> QED
        BY <3>1, <3>2
    <2> QED
      BY <2>3, <2>4, <2>6, <2>7, <2>8, <2>9
  <1>3. CASE ControlChannelClosed(c)
    <2>1. ClosedTests(c) \in SUBSET Clients /\ (ClosedTests(c) # {} => walking = Null)
      BY <1>3, ServerAssumption DEF ControlChannelClosed, ClosedTests, CloseHasLock, LockFree,
         TableTypeOK, ThreadInv
    <2>2. tChn' \in [Clients -> Clients \cup {Null}]
      BY <1>3 DEF ControlChannelClosed, TestTypeOK
    <2>3. TestTypeOK' /\ cut' = cut
      <3>1. TestTypeOK' /\ (walking = Null => cut' = cut)
        BY <1>3, <2>1, <2>2, StopBase DEF ControlChannelClosed, ThreadTypeOK
      <3>2. ClosedTests(c) = {} => cut' = cut
        BY <1>3 DEF ControlChannelClosed, Stop, ThreadTypeOK
      <3> QED
        BY <2>1, <3>1, <3>2
    <2>4. ClientTypeOK'
      BY <1>3 DEF ControlChannelClosed, ClientTypeOK
    <2>8. ConnTypeOK'
      BY <1>3 DEF ControlChannelClosed, ConnTypeOK
    <2>5. TableTypeOK'
      BY <1>3, TableFrame DEF ControlChannelClosed
    <2>6. ThreadTypeOK' /\ ThreadInv'
      BY <1>3, <2>3, ThreadFrame DEF ControlChannelClosed, tableVars, outcome
    <2>7. \A d \in Clients : ParamsInv(d)'
      BY <1>3, EmptyFlight DEF ControlChannelClosed, ParamsInv, tableVars, ClientTypeOK
    <2> QED
      BY <2>3, <2>4, <2>5, <2>6, <2>7, <2>8
  <1>4. CASE OnReceivedFIN(c)
    <2>1. ClientTypeOK' /\ TestTypeOK'
      <3>1. UNCHANGED <<cli, ready, netUp, toServer, toClient, tState, tChn, tStopped, listens,
                        streams, released>>
        BY <1>4 DEF OnReceivedFIN
      <3>2. data' \in [Clients -> {"none", "connecting", "open", "fin", "finack", "end"}]
        BY <1>4 DEF OnReceivedFIN, ClientTypeOK
      <3>3. fin' \subseteq Clients
        BY <1>4 DEF OnReceivedFIN, TestTypeOK
      <3>4. ClientTypeOK'
        BY <3>1, <3>2 DEF ClientTypeOK
      <3>5. TestTypeOK'
        BY <3>1, <3>3 DEF TestTypeOK
      <3> QED
        BY <3>4, <3>5
    <2>2. ConnTypeOK' /\ TableTypeOK'
      BY <1>4, ConnFrame, TableFrame DEF OnReceivedFIN
    <2>3. ThreadTypeOK' /\ ThreadInv'
      BY <1>4 DEF OnReceivedFIN, ThreadTypeOK, ThreadInv, tableVars, mainVars, stopVars
    <2>4. \A d \in Clients : ParamsInv(d)'
      BY <1>4, ParamsFrame DEF OnReceivedFIN, tableVars
    <2> QED
      BY <2>1, <2>2, <2>3, <2>4
  <1>5. ASSUME NEW t \in Clients, DataListenCallback(t, c) PROVE BaseInv'
    <2>1. ClientTypeOK'
      <3>1. tChn[t] # Null => tChn[t] \in Clients
        BY DEF TestTypeOK
      <3>2. toClient' \in [Clients -> Seq({"ACK", "READY"})]
        <4>1. CASE UNCHANGED toClient
          BY <4>1 DEF ClientTypeOK
        <4>2. CASE tChn[t] # Null /\ SendCtrl(tChn[t], "READY")
          <5> DEFINE d == tChn[t]
          <5>1. d \in Clients /\ toClient[d] \in Seq({"ACK", "READY"})
            BY <3>1, <4>2 DEF ClientTypeOK
          <5>2. Append(toClient[d], "READY") \in Seq({"ACK", "READY"})
            BY <5>1
          <5> QED
            BY <4>2, <5>1, <5>2 DEF SendCtrl, ClientTypeOK
        <4> QED
          BY <1>5, <4>1, <4>2 DEF DataListenCallback
      <3> QED
        BY <1>5, <3>2 DEF DataListenCallback, ClientTypeOK
    <2>2. TestTypeOK'
      BY <1>5 DEF DataListenCallback, TestTypeOK
    <2>3. ConnTypeOK' /\ TableTypeOK'
      BY <1>5, ConnFrame, TableFrame DEF DataListenCallback
    <2>4. ThreadTypeOK' /\ ThreadInv'
      BY <1>5, ThreadFrame DEF DataListenCallback, tableVars
    <2>5. \A d \in Clients : ParamsInv(d)'
      BY <1>5, ParamsFrame DEF DataListenCallback, tableVars
    <2> QED
      BY <2>1, <2>2, <2>3, <2>4, <2>5
  <1> QED
    BY <1>1, <1>2, <1>3, <1>4, <1>5

(* The rounds of the main thread.                                          *)
LEMMA LoopBase ==
  ASSUME BaseInv, ReceiverLoop
  PROVE  BaseInv'
  <1> USE DEF BaseInv, TypeOK
  <1>1. CASE LockTable
    <2>1. ClientTypeOK' /\ ConnTypeOK' /\ TestTypeOK' /\ TableTypeOK'
      BY <1>1, ClientFrame, ConnFrame, TestFrame, TableFrame DEF LockTable
    <2>2. ThreadTypeOK' /\ ThreadInv'
      BY <1>1 DEF LockTable, ThreadTypeOK, ThreadInv, tableVars, stopVars, outcome
    <2>3. \A d \in Clients : ParamsInv(d)'
      BY <1>1, ParamsFrame DEF LockTable, tableVars, clientVars
    <2> QED
      BY <2>1, <2>2, <2>3
  <1>2. ASSUME NEW t \in Clients, CheckStreamIntervalReceive(t) PROVE BaseInv'
    <2>1. ClientTypeOK' /\ ConnTypeOK' /\ TestTypeOK' /\ TableTypeOK'
      BY <1>2, ClientFrame, ConnFrame, TestFrame, TableFrame DEF CheckStreamIntervalReceive
    <2>2. ThreadTypeOK' /\ ThreadInv'
      BY <1>2 DEF CheckStreamIntervalReceive, ThreadTypeOK, ThreadInv, tableVars, stopVars, outcome
    <2>3. \A d \in Clients : ParamsInv(d)'
      BY <1>2, ParamsFrame DEF CheckStreamIntervalReceive, tableVars, clientVars
    <2> QED
      BY <2>1, <2>2, <2>3
  <1>3. ASSUME NEW t \in Clients, VisitTest(t) PROVE BaseInv'
    <2>1. ClientTypeOK' /\ ConnTypeOK' /\ TestTypeOK'
      BY <1>3, ClientFrame, ConnFrame, TestFrame DEF VisitTest
    <2>2. TableTypeOK'
      BY <1>3, ServerAssumption DEF VisitTest, TableTypeOK, tableVars
    <2>3. ThreadTypeOK'
      BY <1>3 DEF VisitTest, ThreadTypeOK, tableVars, stopVars
    <2>4. ThreadInv'
      BY <1>3, ServerAssumption DEF VisitTest, ThreadInv, ThreadTypeOK, stopVars
    <2>5. \A d \in Clients : ParamsInv(d)'
      <3>1. (tbl \cup dying)' \subseteq tbl \cup dying
        BY <1>3 DEF VisitTest, ThreadTypeOK, tableVars
      <3> QED
        BY <1>3, <3>1, ParamsFrame DEF VisitTest, clientVars
    <2> QED
      BY <2>1, <2>2, <2>3, <2>4, <2>5
  <1>4. CASE SweepDying
    <2>1. ClientTypeOK' /\ ConnTypeOK'
      BY <1>4, ClientFrame, ConnFrame DEF SweepDying
    <2>2. TestTypeOK'
      BY <1>4 DEF SweepDying, TestTypeOK
    <2>3. TableTypeOK'
      <3>1. \A t \in dying \ TornDown : cnt[t] <= DyingTicks
        BY ServerAssumption DEF TornDown, TableTypeOK
      <3> QED
        BY <1>4, <3>1, ServerAssumption DEF SweepDying, TableTypeOK
    <2>4. ThreadTypeOK'
      BY <1>4 DEF SweepDying, LoopCondition, ThreadTypeOK, outcome
    <2>5. ThreadInv'
      BY <1>4 DEF SweepDying, LoopCondition, ThreadInv, ThreadTypeOK, outcome
    <2>6. \A d \in Clients : ParamsInv(d)'
      BY <1>4, ParamsFrame DEF SweepDying, clientVars
    <2> QED
      BY <2>1, <2>2, <2>3, <2>4, <2>5, <2>6
  <1> QED
    BY <1>1, <1>2, <1>3, <1>4 DEF ReceiverLoop

(* SIGINT, after which anything may happen to a walk.                      *)
LEMMA StopAllBase ==
  ASSUME BaseInv, Interrupt \/ StopAll
  PROVE  BaseInv'
  <1> USE DEF BaseInv, TypeOK
  <1>1. ClientTypeOK' /\ ConnTypeOK' /\ TableTypeOK'
    BY ClientFrame, ConnFrame, TableFrame
       DEF Interrupt, StopAll, EnterStopAll, StopTest, NextTest, LeaveStopAll
  <1>2. \A d \in Clients : ParamsInv(d)'
    BY ParamsFrame DEF Interrupt, StopAll, EnterStopAll, StopTest, NextTest, LeaveStopAll,
       clientVars, tableVars
  <1>3. CASE Interrupt
    BY <1>1, <1>2, <1>3, TestFrame
       DEF Interrupt, ThreadTypeOK, ThreadInv, mainVars, tableVars, outcome
  <1>4. CASE EnterStopAll
    <2>1. TestTypeOK'
      BY <1>4, TestFrame DEF EnterStopAll
    <2>2. ThreadTypeOK' /\ ThreadInv'
      BY <1>4 DEF EnterStopAll, ThreadTypeOK, ThreadInv, mainVars, tableVars, outcome
    <2> QED
      BY <1>1, <1>2, <2>1, <2>2
  <1>5. ASSUME NEW t \in Clients, StopTest(t) PROVE BaseInv'
    <2>1. TestTypeOK'
      BY <1>5, StopBase DEF StopTest, TestTypeOK, ThreadTypeOK
    <2>2. cut' \in BOOLEAN
      BY <1>5 DEF StopTest, Stop, ThreadTypeOK
    <2>3. ThreadTypeOK' /\ ThreadInv'
      BY <1>5, <2>2 DEF StopTest, InStopAll, ThreadTypeOK, ThreadInv, mainVars, tableVars
    <2> QED
      BY <1>1, <1>2, <2>1, <2>3
  <1>6. CASE NextTest \/ LeaveStopAll
    <2>1. TestTypeOK'
      BY <1>6, TestFrame DEF NextTest, LeaveStopAll
    <2>2. ThreadTypeOK'
      BY <1>6 DEF NextTest, LeaveStopAll, ThreadTypeOK, mainVars, tableVars, outcome
    <2>3. ThreadInv'
      BY <1>6 DEF NextTest, LeaveStopAll, InStopAll, ThreadTypeOK, ThreadInv, mainVars, outcome
    <2> QED
      BY <1>1, <1>2, <2>1, <2>2, <2>3
  <1> QED
    BY <1>3, <1>4, <1>5, <1>6 DEF StopAll

LEMMA NextBase == BaseInv /\ [Next]_vars => BaseInv'
  <1> SUFFICES ASSUME BaseInv, [Next]_vars PROVE BaseInv'
    OBVIOUS
  <1>1. CASE UNCHANGED vars
    BY <1>1, ClientFrame, ConnFrame, TestFrame, TableFrame, ThreadFrame, ParamsFrame
       DEF BaseInv, TypeOK, vars, tableVars, clientVars
  <1> QED
    BY <1>1, ClientBase, ServerIOBase, LoopBase, StopAllBase DEF Next

LEMMA BaseInvariance == Spec => []BaseInv
  BY InitBase, NextBase, PTL DEF Spec

(* Every variable of the server keeps its type, whatever ids the clients   *)
(* take from their clocks: in particular no test is in test_tbl_ and in    *)
(* dying_tests at once, and what the loop has still to visit is in the     *)
(* table.                                                                  *)
THEOREM TypeCorrect == Spec => []TypeOK
  <1>1. BaseInv => TypeOK
    BY DEF BaseInv
  <1> QED
    BY <1>1, BaseInvariance, PTL

(* Until SIGINT, no thread releases an element another one stands on, for  *)
(* any ids: Stop of a test in the table waits for the lock of the round.   *)
THEOREM WalksAreNotCut == Spec => []NoWalkCut
  <1>1. BaseInv => NoWalkCut
    BY DEF BaseInv, ThreadInv, NoWalkCut
  <1> QED
    BY <1>1, BaseInvariance, PTL

-----------------------------------------------------------------------------
(* ServerInv holds if the ids differ.                                      *)

LEMMA SessionFrame ==
  ASSUME NEW d \in Clients, SessionInv(d),
         UNCHANGED <<cli[d], netUp[d], toServer[d], toClient[d], conn[d], user[d],
                     tState[d], tChn[d], tStopped[d]>>,
         d \in tbl => d \in tbl' \/ tState[d] # "START",
         d \in (tbl \cup dying)' => d \in tbl \cup dying
  PROVE  SessionInv(d)'
  BY DEF SessionInv, ChannelInv, TestInv, AckInv

LEMMA InitServer == Init => ServerInv
  BY EmptyFlight DEF Init, ServerInv, SessionInv, ChannelInv, TestInv, AckInv

LEMMA ClientSession ==
  ASSUME BaseInv, ServerInv, ~sig, NEW c \in Clients, Client(c)
  PROVE  ServerInv'
  <1>1. UNCHANGED <<connVars, testVars, tableVars, mainVars, stopVars, outcome>>
    BY DEF Client, Connect, ClientAck, ClientReady, SendSummary, SendFin, FinAckReceived, Leave
  <1>2. UNCHANGED <<conn, user, tState, tChn, tStopped, tbl, dying, crashed>>
    BY <1>1 DEF connVars, testVars, tableVars, outcome
  <1>3. /\ cli \in [Clients -> {"off", "params", "acked", "summary", "done", "left"}]
        /\ netUp \in [Clients -> BOOLEAN]
        /\ toServer \in [Clients -> Seq({"PARAMS", "SUMMARY"})]
        /\ toClient \in [Clients -> Seq({"ACK", "READY"})]
        /\ tState[c] \in {"NONE", "START", "DONE"}
        /\ conn[c] \in {"none", "open", "closed"}
    BY DEF BaseInv, TypeOK, ClientTypeOK, TestTypeOK, ConnTypeOK
  <1>4. ~crashed /\ \A d \in Clients : SessionInv(d)
    BY DEF ServerInv
  <1>5. ASSUME NEW d \in Clients, d # c PROVE SessionInv(d)'
    <2>1. UNCHANGED <<cli[d], netUp[d], toServer[d], toClient[d]>>
      BY <1>3, <1>5 DEF Client, Connect, ClientAck, ClientReady, SendSummary, SendFin, FinAckReceived, Leave
    <2> QED
      BY <1>2, <1>4, <2>1, SessionFrame
  <1>6. SessionInv(c)'
    <2>0. ChannelInv(c) /\ TestInv(c) /\ AckInv(c)
      BY <1>4 DEF SessionInv
    <2> USE <1>2, <1>3, <2>0
    <2>1. CASE Connect(c)
      <3>1. /\ cli[c] = "off" /\ cli'[c] = "params" /\ netUp'[c] = TRUE
            /\ toServer'[c] = <<"PARAMS">> /\ UNCHANGED toClient
        BY <2>1 DEF Connect
      <3>2. tState[c] = "NONE" /\ toClient[c] = <<>> /\ conn[c] = "none"
        BY <3>1 DEF ChannelInv, TestInv
      <3> QED
        BY <3>1, <3>2, EmptyFlight DEF SessionInv, ChannelInv, TestInv, AckInv
    <2>2. CASE ClientAck(c)
      <3>1. /\ toClient[c] # <<>> /\ Head(toClient[c]) = "ACK" /\ cli[c] # "left"
            /\ toClient'[c] = Tail(toClient[c])
            /\ UNCHANGED <<netUp, toServer>>
            /\ cli[c] = "params" => cli'[c] = "acked"
            /\ cli[c] = "summary" => cli'[c] = "done"
        BY <2>2 DEF ClientAck
      <3>2. InFlight(toClient[c], "ACK") /\ ~InFlight(Tail(toClient[c]), "ACK")
            /\ AtMostOne(Tail(toClient[c]), "ACK")
        BY <3>1, TailFlight DEF AckInv
      <3>3. \/ cli[c] = "params" /\ tState[c] = "START"
            \/ cli[c] = "summary" /\ tState[c] = "DONE"
        BY <3>2 DEF AckInv
      <3>4. netUp[c] /\ conn[c] # "closed"
        BY <3>1, <3>3 DEF ChannelInv
      <3>5. ChannelInv(c)' /\ TestInv(c)'
        BY <3>1, <3>3, <3>4 DEF ChannelInv, TestInv
      <3> QED
        BY <3>1, <3>2, <3>5 DEF SessionInv, AckInv
    <2>3. CASE ClientReady(c)
      <3>1. /\ toClient[c] # <<>> /\ toClient'[c] = Tail(toClient[c])
            /\ UNCHANGED <<cli, netUp, toServer>>
        BY <2>3 DEF ClientReady
      <3>2. /\ InFlight(Tail(toClient[c]), "ACK") => InFlight(toClient[c], "ACK")
            /\ AtMostOne(Tail(toClient[c]), "ACK")
        BY <3>1, TailFlight DEF AckInv
      <3>3. ChannelInv(c)' /\ TestInv(c)'
        BY <3>1 DEF ChannelInv, TestInv
      <3> QED
        BY <3>1, <3>2, <3>3 DEF SessionInv, AckInv
    <2>4. CASE SendSummary(c)
      <3>1. /\ cli[c] = "acked" /\ cli'[c] = "summary" /\ UNCHANGED <<netUp, toClient>>
            /\ netUp[c] => toServer'[c] = Append(toServer[c], "SUMMARY")
        BY <2>4 DEF SendSummary
      <3>2. tState[c] = "START" /\ toServer[c] = <<>> /\ netUp[c] /\ conn[c] = "open"
        BY <3>1 DEF ChannelInv, TestInv
      <3>3. toServer'[c] = <<"SUMMARY">> /\ ~InFlight(toClient[c], "ACK")
        BY <3>1, <3>2, QueueOfOne DEF AckInv
      <3> QED
        BY <3>1, <3>2, <3>3 DEF SessionInv, ChannelInv, TestInv, AckInv
    <2>5. CASE SendFin(c) \/ FinAckReceived(c)
      BY <1>4, <2>5, SessionFrame DEF SendFin, FinAckReceived
    <2>6. CASE Leave(c)
      <3>1. /\ cli[c] \notin {"off", "left"} /\ cli'[c] = "left" /\ netUp'[c] = FALSE
            /\ toClient'[c] = <<>> /\ UNCHANGED toServer
        BY <2>6 DEF Leave
      <3>2. ChannelInv(c)' /\ TestInv(c)'
        BY <3>1 DEF ChannelInv, TestInv
      <3> QED
        BY <3>1, <3>2, EmptyFlight DEF SessionInv, AckInv
    <2> QED
      BY <2>1, <2>2, <2>3, <2>4, <2>5, <2>6 DEF Client
  <1> QED
    BY <1>2, <1>4, <1>5, <1>6 DEF ServerInv

(* The message for a test finds it, and is the one it waits for.           *)
LEMMA MessageSession ==
  ASSUME IdsDiffer, BaseInv, ServerInv, ~sig, NEW c \in Clients, HandleControlMessage(c)
  PROVE  ServerInv'
  <1>1. /\ conn[c] = "open" /\ toServer[c] # <<>> /\ toServer'[c] = Tail(toServer[c])
        /\ \A d \in Clients \ {c} : toServer'[d] = toServer[d]
        /\ UNCHANGED <<cli, netUp, conn, tStopped, dying, sig>>
    BY DEF HandleControlMessage, stopVars, BaseInv, TypeOK, ClientTypeOK
  <1>2. /\ toClient \in [Clients -> Seq({"ACK", "READY"})]
        /\ tState \in [Clients -> {"NONE", "START", "DONE"}]
        /\ tChn \in [Clients -> Clients \cup {Null}]
        /\ user \in [Clients -> {IdOf[d] : d \in Clients} \cup {Null}]
        /\ tbl \subseteq Clients
        /\ cli[c] \in {"off", "params", "acked", "summary", "done", "left"}
        /\ netUp[c] \in BOOLEAN
    BY DEF BaseInv, TypeOK, ClientTypeOK, TestTypeOK, TableTypeOK, ConnTypeOK
  <1>3. ~crashed /\ \A d \in Clients : SessionInv(d)
    BY DEF ServerInv
  <1>4. ChannelInv(c) /\ TestInv(c) /\ AckInv(c)
    BY <1>3 DEF SessionInv
  <1>5. Find(IdOf[c]) = tbl \cap {c}
    BY <1>2 DEF Find, IdsDiffer
  <1>6. cli[c] # "off"
    BY <1>1, <1>4 DEF ChannelInv
  <1>7. CASE c \in tbl
    <2>1. tState[c] = "START" /\ tChn[c] = c /\ toServer[c] = <<"SUMMARY">>
          /\ cli[c] \in {"summary", "left"} /\ ~tStopped[c]
      BY <1>1, <1>2, <1>4, <1>7 DEF TestInv
    <2>2. TestHandles(c, c, "SUMMARY") /\ UNCHANGED <<tbl, user, crashed>>
      BY <1>5, <1>7, <2>1, QueueOfOne DEF HandleControlMessage
    <2>3. /\ UNCHANGED tChn
          /\ tState' = [tState EXCEPT ![c] = "DONE"]
          /\ toClient' = [toClient EXCEPT ![c] = IF netUp[c] THEN Append(@, "ACK") ELSE @]
      BY <1>2, <2>1, <2>2, ServerAssumption DEF TestHandles, SendAck, SendCtrl
    <2>4. toServer'[c] = <<>>
      BY <1>1, <2>1, QueueOfOne
    <2>5. ~InFlight(toClient[c], "ACK")
      BY <1>4, <2>1 DEF AckInv
    <2>6. AckInv(c)'
      <3>1. /\ toClient'[c] = IF netUp[c] THEN Append(toClient[c], "ACK") ELSE toClient[c]
            /\ tState'[c] = "DONE" /\ toClient[c] \in Seq({"ACK", "READY"})
        BY <1>2, <2>3
      <3>2. AtMostOne(toClient'[c], "ACK") /\ (InFlight(toClient'[c], "ACK") => netUp[c])
        BY <1>4, <2>5, <3>1, AckSent DEF AckInv
      <3>3. netUp[c] => cli[c] = "summary"
        BY <1>4, <2>1 DEF ChannelInv
      <3> QED
        BY <1>1, <3>1, <3>2, <3>3 DEF AckInv
    <2>7. tState'[c] = "DONE" /\ (~netUp[c] => toClient'[c] = toClient[c])
      BY <1>2, <2>3
    <2>8. SessionInv(c)'
      BY <1>1, <1>4, <2>1, <2>2, <2>3, <2>4, <2>6, <2>7 DEF SessionInv, ChannelInv, TestInv
    <2>9. ASSUME NEW d \in Clients, d # c PROVE SessionInv(d)'
      <3>1. UNCHANGED <<toServer[d], toClient[d], tState[d]>>
        BY <1>1, <1>2, <2>3, <2>9
      <3> QED
        BY <1>1, <1>3, <2>2, <2>3, <3>1, SessionFrame
    <2> QED
      BY <1>3, <2>2, <2>8, <2>9 DEF ServerInv
  <1>8. CASE c \notin tbl
    <2>1. tState[c] = "NONE" /\ toServer[c] = <<"PARAMS">> /\ tChn[c] = Null /\ c \notin dying
          /\ cli[c] \in {"params", "left"} /\ ~tStopped[c]
      BY <1>1, <1>2, <1>4, <1>6, <1>8 DEF TestInv
    <2>2. TestHandles(c, c, "PARAMS") /\ tbl' = tbl \cup {c}
          /\ user' = [user EXCEPT ![c] = IdOf[c]] /\ UNCHANGED crashed
      BY <1>5, <1>8, <2>1, QueueOfOne DEF HandleControlMessage
    <2>3. /\ tChn' = [tChn EXCEPT ![c] = c]
          /\ tState' = [tState EXCEPT ![c] = "START"]
          /\ toClient' = [toClient EXCEPT ![c] = IF netUp[c] THEN Append(@, "ACK") ELSE @]
      BY <1>2, <2>1, <2>2 DEF TestHandles, SendAck, SendCtrl
    <2>4. toServer'[c] = <<>>
      BY <1>1, <2>1, QueueOfOne
    <2>5. ~InFlight(toClient[c], "ACK")
      BY <1>4, <2>1 DEF AckInv
    <2>6. AckInv(c)'
      <3>1. /\ toClient'[c] = IF netUp[c] THEN Append(toClient[c], "ACK") ELSE toClient[c]
            /\ tState'[c] = "START" /\ toClient[c] \in Seq({"ACK", "READY"})
        BY <1>2, <2>3
      <3>2. AtMostOne(toClient'[c], "ACK") /\ (InFlight(toClient'[c], "ACK") => netUp[c])
        BY <1>4, <2>5, <3>1, AckSent DEF AckInv
      <3>3. netUp[c] => cli[c] = "params"
        BY <1>4, <2>1 DEF ChannelInv
      <3> QED
        BY <1>1, <3>1, <3>2, <3>3 DEF AckInv
    <2>7. /\ tState'[c] = "START" /\ tChn'[c] = c /\ user'[c] = IdOf[c] /\ c \in tbl'
          /\ ~netUp[c] => toClient'[c] = toClient[c]
      BY <1>2, <2>2, <2>3
    <2>8. SessionInv(c)'
      BY <1>1, <1>4, <2>1, <2>4, <2>6, <2>7 DEF SessionInv, ChannelInv, TestInv
    <2>9. ASSUME NEW d \in Clients, d # c PROVE SessionInv(d)'
      <3>1. UNCHANGED <<toServer[d], toClient[d], tState[d], tChn[d], user[d]>>
        BY <1>1, <1>2, <2>2, <2>3, <2>9
      <3> QED
        BY <1>1, <1>3, <2>2, <2>9, <3>1, SessionFrame
    <2> QED
      BY <1>3, <2>2, <2>8, <2>9 DEF ServerInv
  <1> QED
    BY <1>7, <1>8

(* The end of a control channel ends the test of its own client only.      *)
LEMMA ClosedSession ==
  ASSUME IdsDiffer, BaseInv, ServerInv, ~sig, NEW c \in Clients, ControlChannelClosed(c)
  PROVE  ServerInv'
  <1>1. /\ conn[c] = "open" /\ ~netUp[c] /\ toServer'[c] = <<>> /\ conn'[c] = "closed"
        /\ \A d \in Clients \ {c} : toServer'[d] = toServer[d] /\ conn'[d] = conn[d]
        /\ UNCHANGED <<cli, netUp, toClient, user, tbl, dying, sig, crashed>>
    BY DEF ControlChannelClosed, stopVars, tableVars, BaseInv, TypeOK, ClientTypeOK, ConnTypeOK
  <1>2. ~crashed /\ \A d \in Clients : SessionInv(d)
    BY DEF ServerInv
  <1>3. ChannelInv(c) /\ TestInv(c) /\ AckInv(c)
    BY <1>2 DEF SessionInv
  <1>4. tState[c] \in {"NONE", "START", "DONE"} /\ tbl \subseteq Clients
    BY DEF BaseInv, TypeOK, TestTypeOK, TableTypeOK
  <1>5. user[c] = (IF tState[c] = "NONE" THEN Null ELSE IdOf[c])
    BY <1>3 DEF TestInv
  <1>6. ClosedTests(c) = IF tState[c] = "NONE" THEN {} ELSE tbl \cap {c}
    BY <1>4, <1>5, ServerAssumption DEF ClosedTests, IdsDiffer
  <1>7. /\ tStopped' = [t \in Clients |-> tStopped[t] \/ (t \in ClosedTests(c) /\ ~tStopped[t])]
        /\ tState' = [t \in Clients |-> IF t \in ClosedTests(c) /\ ~tStopped[t] THEN "DONE" ELSE tState[t]]
        /\ tChn' = [t \in Clients |-> IF t \in ClosedTests(c) THEN Null ELSE tChn[t]]
    BY DEF ControlChannelClosed, Stop
  <1>8. SessionInv(c)'
    <2>1. cli[c] = "left"
      <3>1. cli[c] \in {"off", "params", "acked", "summary", "done", "left"}
        BY DEF BaseInv, TypeOK, ClientTypeOK
      <3> QED
        BY <1>1, <1>3, <3>1 DEF ChannelInv
    <2>2. CASE tState[c] = "NONE"
      <3>1. tState'[c] = "NONE" /\ tChn'[c] = tChn[c] /\ tStopped'[c] = (tStopped[c] \/ FALSE)
        BY <1>6, <1>7, <2>2
      <3> QED
        BY <1>1, <1>3, <2>1, <2>2, <3>1 DEF SessionInv, ChannelInv, TestInv, AckInv
    <2>3. CASE tState[c] # "NONE"
      <3>1. tState'[c] = "DONE"
        BY <1>3, <1>4, <1>6, <1>7, <2>3 DEF TestInv
      <3>2. tChn'[c] \in {Null, c}
        BY <1>3, <1>7 DEF ChannelInv
      <3> QED
        BY <1>1, <1>3, <2>1, <2>3, <3>1, <3>2 DEF SessionInv, ChannelInv, TestInv, AckInv
    <2> QED
      BY <2>2, <2>3
  <1>9. ASSUME NEW d \in Clients, d # c PROVE SessionInv(d)'
    <2>1. tState'[d] = tState[d] /\ tChn'[d] = tChn[d]
      BY <1>6, <1>7, <1>9
    <2>2. tStopped'[d] = tStopped[d]
      BY <1>6, <1>7, <1>9 DEF BaseInv, TypeOK, TestTypeOK
    <2> QED
      BY <1>1, <1>2, <1>9, <2>1, <2>2, SessionFrame
  <1> QED
    BY <1>1, <1>2, <1>8, <1>9 DEF ServerInv

(* Every step before SIGINT.                                               *)
LEMMA NextServer ==
  ASSUME IdsDiffer, BaseInv, ServerInv, [Next]_vars
  PROVE  ServerInv'
  <1> SUFFICES ASSUME ~sig' PROVE ServerInv'
    BY DEF ServerInv
  <1>1. ~sig
    BY DEF Next, Client, Connect, ClientAck, ClientReady, SendSummary, SendFin, FinAckReceived, Leave,
       ServerIO, ControlChannelListenCallback, HandleControlMessage, ControlChannelClosed, OnReceivedFIN,
       DataListenCallback, ReceiverLoop, LockTable, SweepDying, CheckStreamIntervalReceive, VisitTest,
       Interrupt, StopAll, EnterStopAll, NextTest, LeaveStopAll, StopTest, stopVars, vars
  <1>2. ~crashed /\ \A d \in Clients : SessionInv(d)
    BY <1>1 DEF ServerInv
  <1>3. ioPc = "free" /\ mpc \in {"sleep", "visit"}
    BY <1>1 DEF BaseInv, ThreadInv
  <1>4. CASE UNCHANGED vars
    BY <1>2, <1>4, SessionFrame DEF vars, clientVars, connVars, testVars, tableVars, outcome, ServerInv
  <1>5. ASSUME NEW c \in Clients, ControlChannelListenCallback(c) PROVE ServerInv'
    <2>1. /\ UNCHANGED <<cli, netUp, toServer, toClient, user, tState, tChn, tStopped, tbl, dying, crashed>>
          /\ conn[c] = "none" /\ netUp[c] /\ conn'[c] = "open"
          /\ \A d \in Clients \ {c} : conn'[d] = conn[d]
      BY <1>5 DEF ControlChannelListenCallback, clientVars, testVars, tableVars, outcome,
         BaseInv, TypeOK, ConnTypeOK
    <2>2. SessionInv(c)'
      BY <1>2, <2>1 DEF SessionInv, ChannelInv, TestInv, AckInv
    <2>3. \A d \in Clients \ {c} : SessionInv(d)'
      BY <1>2, <2>1, SessionFrame
    <2> QED
      BY <1>2, <2>1, <2>2, <2>3 DEF ServerInv
  <1>6. ASSUME NEW c \in Clients, OnReceivedFIN(c) PROVE ServerInv'
    BY <1>2, <1>6, SessionFrame DEF OnReceivedFIN, connVars, tableVars, outcome, ServerInv
  <1>7. ASSUME NEW t \in Clients, NEW c \in Clients, DataListenCallback(t, c) PROVE ServerInv'
    <2>1. UNCHANGED <<cli, netUp, toServer, conn, user, tState, tChn, tStopped, tbl, dying, crashed>>
      BY <1>7 DEF DataListenCallback, connVars, tableVars, outcome
    <2>2. toClient \in [Clients -> Seq({"ACK", "READY"})]
      BY DEF BaseInv, TypeOK, ClientTypeOK
    <2>3. \/ UNCHANGED toClient
          \/ toClient' = [toClient EXCEPT ![t] = IF netUp[t] THEN Append(@, "READY") ELSE @]
      BY <1>2, <1>7 DEF DataListenCallback, SendCtrl, SessionInv, ChannelInv
    <2>4. ASSUME NEW d \in Clients PROVE SessionInv(d)'
      <3>1. CASE toClient'[d] = toClient[d]
        BY <1>2, <2>1, <3>1, SessionFrame
      <3>2. CASE netUp[d] /\ toClient'[d] = Append(toClient[d], "READY")
        <4>1. toClient[d] \in Seq({"ACK", "READY"}) /\ "READY" \in {"ACK", "READY"}
          BY <2>2
        <4>2. /\ InFlight(toClient'[d], "ACK") => InFlight(toClient[d], "ACK")
              /\ AtMostOne(toClient[d], "ACK") => AtMostOne(toClient'[d], "ACK")
          BY <3>2, <4>1, AppendFlight
        <4> QED
          BY <1>2, <2>1, <3>2, <4>2 DEF SessionInv, ChannelInv, TestInv, AckInv
      <3> QED
        BY <2>2, <2>3, <3>1, <3>2
    <2> QED
      BY <1>2, <2>1, <2>4 DEF ServerInv
  <1>8. ASSUME LockTable \/ \E t \in Clients : CheckStreamIntervalReceive(t) PROVE ServerInv'
    BY <1>2, <1>8, SessionFrame DEF LockTable, CheckStreamIntervalReceive, clientVars, connVars, testVars,
       tableVars, outcome, ServerInv
  <1>9. ASSUME NEW t \in Clients, VisitTest(t) PROVE ServerInv'
    <2>1. UNCHANGED <<cli, netUp, toServer, toClient, conn, user, tState, tChn, tStopped, crashed>>
      BY <1>9 DEF VisitTest, clientVars, connVars, testVars
    <2>2. /\ (tbl \cup dying)' \subseteq tbl \cup dying
          /\ \A d \in tbl : d \in tbl' \/ tState[d] = "DONE"
      BY <1>9 DEF VisitTest, Finished, tableVars, BaseInv, TypeOK, ThreadTypeOK
    <2> QED
      BY <1>2, <2>1, <2>2, SessionFrame DEF ServerInv
  <1>10. CASE SweepDying
    BY <1>2, <1>10, SessionFrame DEF SweepDying, clientVars, connVars, outcome, ServerInv
  <1>11. ~Interrupt /\ ~StopAll
    BY <1>1, <1>3 DEF Interrupt, StopAll, EnterStopAll, NextTest, LeaveStopAll, StopTest, InStopAll
  <1> QED
    BY <1>1, <1>4, <1>5, <1>6, <1>7, <1>8, <1>9, <1>10, <1>11, ClientSession, MessageSession, ClosedSession
       DEF Next, ServerIO, ReceiverLoop

LEMMA ServerInvariance == Spec => [](IdsDiffer => ServerInv)
  <1>1. Init => (IdsDiffer => ServerInv)
    BY InitServer
  <1>2. BaseInv /\ (IdsDiffer => ServerInv) /\ [Next]_vars => (IdsDiffer => ServerInv)'
    BY NextServer DEF IdsDiffer
  <1> QED
    BY <1>1, <1>2, BaseInvariance, PTL DEF Spec

(* Clients with different ids do not disturb each other, however many they *)
(* are: until SIGINT, a client whose test was started has its own test,    *)
(* running, with its own control channel, and one that was told its test   *)
(* is over has one that is.                                                *)
THEOREM ClientsHaveTheirOwnTest == Spec => [](IdsDiffer => OwnTest)
  <1>1. BaseInv /\ (IdsDiffer => ServerInv) => (IdsDiffer => OwnTest)
    <2> SUFFICES ASSUME BaseInv, ServerInv, ~sig, NEW c \in Clients
                 PROVE  /\ cli[c] = "acked" /\ conn[c] = "open" =>
                             c \in tbl /\ tState[c] = "START" /\ tChn[c] = c
                        /\ cli[c] = "done" => tState[c] = "DONE"
      BY DEF OwnTest
    <2> QED
      BY DEF BaseInv, TypeOK, TestTypeOK, ServerInv, SessionInv, TestInv
  <1> QED
    BY <1>1, BaseInvariance, ServerInvariance, PTL

(* With different ids, HandleControlMessage never dereferences a null      *)
(* received_test before SIGINT: a summary always finds the test its        *)
(* parameters created.                                                     *)
THEOREM NoMessageWithoutTest == Spec => [](IdsDiffer => MessagesFindTheirTest)
  <1>1. (IdsDiffer => ServerInv) => (IdsDiffer => MessagesFindTheirTest)
    BY DEF ServerInv, MessagesFindTheirTest
  <1> QED
    BY <1>1, ServerInvariance, PTL
=============================================================================

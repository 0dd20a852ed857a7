----------------------------- MODULE IperfServer -----------------------------
(***************************************************************************)
(* One bats_iperf server and several clients, each with a throughput test  *)
(* over a reliable protocol: the tables of tests, the lock on them, the    *)
(* flag all control channels share, and the three threads of control that  *)
(* meet there: the IO thread, the 10 Hz loop, and StopAll, which either of *)
(* them may run.                                                           *)
(*                                                                         *)
(* A test object is named after the client whose parameters created it.    *)
(* The client's own life is reduced to what the server sees of it;         *)
(* IperfTest models it in full.                                            *)
(*                                                                         *)
(* The loop holds test_tbl_mutex_ for a whole round, but a round is not    *)
(* one step: what does not take that lock comes between its parts.         *)
(***************************************************************************)
EXTENDS Integers, Sequences, FiniteSets

CONSTANTS
    Clients,     \* the control connections made to this server
    Null,        \* a null pointer
    IdOf,        \* test_id_ of each client: the milliseconds of its clock
    DataPort,    \* where its data connections go: -p is the same for all,
                 \* the transport depends on -m
    DyingTicks,  \* rounds a finished test is kept (10 in the code)
    MaxInterrupted \* bound: SIGINT is explored with at most so many clients

ASSUME ServerAssumption ==
    /\ IsFiniteSet(Clients)
    /\ Null \notin Clients /\ \A c \in Clients : IdOf[c] # Null
    /\ DyingTicks \in Nat
    /\ MaxInterrupted \in Nat

VARIABLES
    \* clients
    cli,        \* how far the client is
    ready,      \* it has the ready signal
    data,       \* its data connection
    netUp,      \* its control connection is up
    toServer,   \* messages in flight on it
    toClient,
    \* server: control connections
    conn,       \* the server's end
    user,       \* its user context: a test id or Null
    isConnected,\* is_ctrl_chn_connected_
    \* server: test objects
    tbl,        \* test_tbl_ (at most one test per id)
    dying,      \* dying_tests
    cnt,        \* the counts in it
    tState,     \* state_
    tChn,       \* ctrl_chn_
    tStopped,   \* is_stopped_
    listens,    \* data_chn_listener_ got the port
    streams,    \* test_streams_: the data connections accepted
    fin,        \* those of them in STREAM_DONE
    released,   \* those whose stream was stopped: data_conn_ is null
    \* server: threads
    mpc,        \* the main thread's place
    todo,       \* tests this round has not visited yet
    walking,    \* the test whose test_streams_ it is walking
    ioPc,       \* the IO thread: free, in the signal callback, in StopAll
    sig,        \* stop_signal_value = SIGINT
    allStopped, \* is_stopped_ of IperfBatsApi
    at,         \* the entry of test_tbl_ StopAll is at
    visited,    \* the entries it has left behind
    \* outcomes
    crashed,    \* null received_test dereferenced
    nullConn,   \* null data_conn_ used to answer a FIN
    cut         \* an element was released under the thread standing on it

clientVars == <<cli, ready, data, netUp, toServer, toClient>>
connVars   == <<conn, user, isConnected>>
testVars   == <<tState, tChn, tStopped, listens, streams, fin, released>>
tableVars  == <<tbl, dying, cnt>>
mainVars   == <<mpc, todo, walking>>
stopVars   == <<ioPc, sig, allStopped, at, visited>>
outcome    == <<crashed, nullConn, cut>>
vars == <<clientVars, connVars, testVars, tableVars, mainVars, stopVars, outcome>>

ClientTypeOK ==
    /\ cli \in [Clients -> {"off", "params", "acked", "summary", "done", "left"}]
    /\ ready \in [Clients -> BOOLEAN]
    /\ data \in [Clients -> {"none", "connecting", "open", "fin", "finack", "end"}]
    /\ netUp \in [Clients -> BOOLEAN]
    /\ toServer \in [Clients -> Seq({"PARAMS", "SUMMARY"})]
    /\ toClient \in [Clients -> Seq({"ACK", "READY"})]

ConnTypeOK ==
    /\ conn \in [Clients -> {"none", "open", "closed"}]
    /\ user \in [Clients -> {IdOf[c] : c \in Clients} \cup {Null}]
    /\ isConnected \in BOOLEAN

TestTypeOK ==
    /\ tState \in [Clients -> {"NONE", "START", "DONE"}]
    /\ tChn \in [Clients -> Clients \cup {Null}]
    /\ tStopped \in [Clients -> BOOLEAN]
    /\ listens \in [Clients -> BOOLEAN]
    /\ streams \in [Clients -> SUBSET Clients]
    /\ fin \subseteq Clients /\ released \subseteq Clients

TableTypeOK ==
    /\ tbl \subseteq Clients /\ dying \subseteq Clients \ tbl
    /\ cnt \in [Clients -> 0..(DyingTicks + 1)]

ThreadTypeOK ==
    /\ mpc \in {"sleep", "visit", "stop", "end"}
    /\ todo \subseteq tbl
    /\ walking \in todo \cup {Null}
    /\ ioPc \in {"free", "signal", "stop"}
    /\ sig \in BOOLEAN /\ allStopped \in BOOLEAN
    /\ at \in Clients \cup {Null} /\ visited \subseteq Clients
    /\ crashed \in BOOLEAN /\ nullConn \in BOOLEAN /\ cut \in BOOLEAN

TypeOK == ClientTypeOK /\ ConnTypeOK /\ TestTypeOK /\ TableTypeOK /\ ThreadTypeOK

Init ==
    /\ cli = [c \in Clients |-> "off"]
    /\ ready = [c \in Clients |-> FALSE]
    /\ data = [c \in Clients |-> "none"]
    /\ netUp = [c \in Clients |-> FALSE]
    /\ toServer = [c \in Clients |-> <<>>]
    /\ toClient = [c \in Clients |-> <<>>]
    /\ conn = [c \in Clients |-> "none"]
    /\ user = [c \in Clients |-> Null]
    /\ isConnected = FALSE
    /\ tbl = {} /\ dying = {} /\ cnt = [c \in Clients |-> 0]
    /\ tState = [c \in Clients |-> "NONE"]
    /\ tChn = [c \in Clients |-> Null]
    /\ tStopped = [c \in Clients |-> FALSE]
    /\ listens = [c \in Clients |-> FALSE]
    /\ streams = [c \in Clients |-> {}]
    /\ fin = {} /\ released = {}
    /\ mpc = "sleep" /\ todo = {} /\ walking = Null
    /\ ioPc = "free" /\ sig = FALSE /\ allStopped = FALSE /\ at = Null /\ visited = {}
    /\ crashed = FALSE /\ nullConn = FALSE /\ cut = FALSE

-----------------------------------------------------------------------------
(* After SIGINT has run its course, or undefined behaviour, the server is  *)
(* not followed further.                                                   *)
Running == mpc # "end" /\ ~crashed /\ ~nullConn /\ ~cut

Connected == {c \in Clients : cli[c] # "off"}

(* Clients, as the server sees them.                                       *)

Connect(c) ==
    /\ cli[c] = "off"
    /\ sig => Cardinality(Connected) < MaxInterrupted
    /\ cli' = [cli EXCEPT ![c] = "params"]
    /\ netUp' = [netUp EXCEPT ![c] = TRUE]
    /\ toServer' = [toServer EXCEPT ![c] = <<"PARAMS">>]
    /\ UNCHANGED <<ready, data, toClient, connVars, testVars, tableVars, mainVars, stopVars, outcome>>

(* HandleAckMessage: the first ack starts the stream, the one that answers *)
(* the summary ends the test, any other is ignored.                        *)
ClientAck(c) ==
    /\ cli[c] # "left" /\ toClient[c] # <<>> /\ Head(toClient[c]) = "ACK"
    /\ toClient' = [toClient EXCEPT ![c] = Tail(@)]
    /\ cli' = [cli EXCEPT ![c] = CASE @ = "params" -> "acked" [] @ = "summary" -> "done" [] OTHER -> @]
    /\ data' = [data EXCEPT ![c] = IF cli[c] = "params" THEN "connecting" ELSE @]
    /\ UNCHANGED <<ready, netUp, toServer, connVars, testVars, tableVars, mainVars, stopVars, outcome>>

ClientReady(c) ==
    /\ cli[c] # "left" /\ toClient[c] # <<>> /\ Head(toClient[c]) = "READY"
    /\ toClient' = [toClient EXCEPT ![c] = Tail(@)]
    /\ ready' = [ready EXCEPT ![c] = TRUE]
    /\ UNCHANGED <<cli, data, netUp, toServer, connVars, testVars, tableVars, mainVars, stopVars, outcome>>

(* The time of the test is up: the summary on the control channel, and a   *)
(* FIN on the data connection of a stream that was told to send.           *)
SendSummary(c) ==
    /\ cli[c] = "acked"
    /\ cli' = [cli EXCEPT ![c] = "summary"]
    /\ toServer' = [toServer EXCEPT ![c] = IF netUp[c] THEN Append(@, "SUMMARY") ELSE @]
    /\ UNCHANGED <<ready, data, netUp, toClient, connVars, testVars, tableVars, mainVars, stopVars, outcome>>

SendFin(c) ==
    /\ cli[c] \in {"summary", "done"} /\ ready[c] /\ data[c] = "open"
    /\ data' = [data EXCEPT ![c] = "fin"]
    /\ UNCHANGED <<cli, ready, netUp, toServer, toClient, connVars, testVars, tableVars, mainVars, stopVars, outcome>>

FinAckReceived(c) ==
    /\ cli[c] # "left" /\ data[c] = "finack"
    /\ data' = [data EXCEPT ![c] = "end"]
    /\ UNCHANGED <<cli, ready, netUp, toServer, toClient, connVars, testVars, tableVars, mainVars, stopVars, outcome>>

(* The client exits, gives up or dies.  A connection it was setting up and *)
(* a FIN on its way still arrive.                                          *)
Leave(c) ==
    /\ cli[c] \notin {"off", "left"}
    /\ cli' = [cli EXCEPT ![c] = "left"]
    /\ netUp' = [netUp EXCEPT ![c] = FALSE]
    /\ toClient' = [toClient EXCEPT ![c] = <<>>]
    /\ ready' = [ready EXCEPT ![c] = FALSE]
    /\ data' = [data EXCEPT ![c] = IF @ \in {"open", "finack"} THEN "end" ELSE @]
    /\ UNCHANGED <<toServer, connVars, testVars, tableVars, mainVars, stopVars, outcome>>

Client(c) ==
    /\ Running
    /\ \/ Connect(c) \/ ClientAck(c) \/ ClientReady(c) \/ SendSummary(c)
       \/ SendFin(c) \/ FinAckReceived(c) \/ Leave(c)

-----------------------------------------------------------------------------
(* Server, IO thread.                                                      *)

IoFree == Running /\ ioPc = "free"
LockFree == mpc # "visit"

(* What a client that is gone is sent is lost.                             *)
SendCtrl(c, m) ==
    toClient' = [toClient EXCEPT ![c] = IF netUp[c] THEN Append(@, m) ELSE @]

(* test_tbl_.find                                                          *)
Find(id) == {t \in tbl : IdOf[t] = id}

(* ControlChannelListenCallback, NEW_CONNECTION.                           *)
ControlChannelListenCallback(c) ==
    /\ IoFree /\ conn[c] = "none" /\ netUp[c]
    /\ conn' = [conn EXCEPT ![c] = "open"]
    /\ isConnected' = TRUE
    /\ UNCHANGED <<user, clientVars, testVars, tableVars, mainVars, stopVars, outcome>>

(* StartListen on a port that another test of this server listens on may   *)
(* fail; the failure is only logged.                                       *)
StartListen(t) ==
    \E ok \in BOOLEAN :
        /\ (\A u \in (tbl \cup dying) \ {t} : listens[u] => DataPort[u] # DataPort[t]) => ok
        /\ listens' = [listens EXCEPT ![t] = ok]

(* IperfTest::SendAck of test t, whose control channel is that of client c.*)
SendAck(t, c) ==
    /\ SendCtrl(c, "ACK")
    /\ tState' = [tState EXCEPT ![t] =
                    CASE @ = "NONE" -> "START" [] @ = "START" -> "DONE" [] OTHER -> @]

(* IperfTest::HandleControlMessage of test t: ctrl_chn_ is set only if it  *)
(* is null; a test that is DONE ignores the message.                       *)
TestHandles(t, c, m) ==
    LET chn == IF tChn[t] = Null THEN c ELSE tChn[t]
    IN  /\ tChn' = [tChn EXCEPT ![t] = chn]
        /\ IF tState[t] = "DONE"
           THEN UNCHANGED <<toClient, tState, listens>>
           ELSE /\ SendAck(t, chn)
                /\ IF m = "PARAMS" THEN StartListen(t) ELSE UNCHANGED listens

(* IperfBatsApi::HandleControlMessage: a known id goes to its test; an     *)
(* unknown one creates a test if the message is one that can (0x02 here),  *)
(* and otherwise received_test is null.                                    *)
HandleControlMessage(c) ==
    /\ IoFree /\ LockFree /\ conn[c] = "open" /\ toServer[c] # <<>>
    /\ toServer' = [toServer EXCEPT ![c] = Tail(@)]
    /\ \/ \E t \in Find(IdOf[c]) :
            /\ TestHandles(t, c, Head(toServer[c]))
            /\ UNCHANGED <<tbl, user, crashed>>
       \/ /\ Find(IdOf[c]) = {} /\ Head(toServer[c]) = "PARAMS"
          /\ TestHandles(c, c, "PARAMS")
          /\ tbl' = tbl \cup {c}
          /\ user' = [user EXCEPT ![c] = IdOf[c]]
          /\ UNCHANGED crashed
       \/ /\ Find(IdOf[c]) = {} /\ Head(toServer[c]) = "SUMMARY"
          /\ crashed' = TRUE
          /\ UNCHANGED <<toClient, tState, listens, tChn, tbl, user>>
    /\ UNCHANGED <<cli, ready, data, netUp, conn, isConnected, tStopped, streams, fin, released, dying, cnt,
                   mainVars, stopVars, nullConn, cut>>

(* IperfTest::Stop of the tests T (none or one): DONE, its streams are     *)
(* stopped, which clears their data_conn_, and their list is swapped away, *)
(* without streams_mutex_.                                                 *)
Stop(T) ==
    LET S == {t \in T : ~tStopped[t]}
    IN  /\ tStopped' = [t \in Clients |-> tStopped[t] \/ t \in S]
        /\ tState' = [t \in Clients |-> IF t \in S THEN "DONE" ELSE tState[t]]
        /\ streams' = [t \in Clients |-> IF t \in S THEN {} ELSE streams[t]]
        /\ released' = released \cup UNION {streams[t] : t \in S}
        /\ cut' = (cut \/ \E t \in S : walking = t /\ streams[t] # {})

(* Mutants: every test is stopped; none is; the lock is not taken.         *)
ClosedTests_All(c) == IF user[c] = Null THEN {} ELSE tbl
ClosedTests_None(c) == {}
CloseHasLock_Not(c) == TRUE

(* ControlChannelConnectionCallback, CLOSED and SHUTDOWN_BY_PEER: the test *)
(* of the user context, if it is in the table, is stopped under the lock;  *)
(* the flag falls for every client.                                        *)
ClosedTests(c) == {t \in tbl : IdOf[t] = user[c]}
CloseHasLock(c) == user[c] # Null => LockFree

ControlChannelClosed(c) ==
    /\ IoFree /\ conn[c] = "open" /\ ~netUp[c]
    /\ CloseHasLock(c)
    /\ conn' = [conn EXCEPT ![c] = "closed"]
    /\ toServer' = [toServer EXCEPT ![c] = <<>>]
    /\ tChn' = [t \in Clients |-> IF t \in ClosedTests(c) THEN Null ELSE tChn[t]]
    /\ Stop(ClosedTests(c))
    /\ isConnected' = FALSE
    /\ UNCHANGED <<user, cli, ready, data, netUp, toClient, listens, fin, tableVars, mainVars, stopVars,
                   crashed, nullConn>>

(* IperfTest::DataListenCallback of test t, for the data connection of     *)
(* client c: whichever test listens on the port accepts it, also one that  *)
(* was stopped.  The parameters leave num_streams out, so the receiver     *)
(* expects one stream.                                                     *)
DataListenCallback(t, c) ==
    /\ IoFree /\ t \in tbl \cup dying /\ listens[t] /\ DataPort[t] = DataPort[c]
    /\ data[c] = "connecting"
    /\ data' = [data EXCEPT ![c] = "open"]
    /\ streams' = [streams EXCEPT ![t] = @ \cup {c}]
    /\ IF Cardinality(streams'[t]) = 1 /\ tChn[t] # Null
       THEN SendCtrl(tChn[t], "READY") ELSE UNCHANGED toClient
    /\ UNCHANGED <<cli, ready, netUp, toServer, connVars, tState, tChn, tStopped, listens, fin, released,
                   tableVars, mainVars, stopVars, outcome>>

(* IperfStream::OnReceivedFIN of the stream that holds the connection.     *)
(* Stop does not close an accepted connection, it only drops it.  If that  *)
(* takes the connection away the FIN is lost; if not, OnReceivedFIN        *)
(* answers through the null data_conn_.                                    *)
OnReceivedFIN(c) ==
    /\ IoFree /\ data[c] = "fin"
    /\ \/ /\ c \notin released
          /\ data' = [data EXCEPT ![c] = "finack"]
          /\ fin' = fin \cup {c}
          /\ UNCHANGED nullConn
       \/ /\ c \in released
          /\ data' = [data EXCEPT ![c] = "end"]
          /\ UNCHANGED <<fin, nullConn>>
       \/ /\ c \in released
          /\ nullConn' = TRUE
          /\ UNCHANGED <<data, fin>>
    /\ UNCHANGED <<cli, ready, netUp, toServer, toClient, connVars, tState, tChn, tStopped, listens,
                   streams, released, tableVars, mainVars, stopVars, crashed, cut>>

ServerIO ==
    \E c \in Clients :
        \/ ControlChannelListenCallback(c) \/ HandleControlMessage(c) \/ ControlChannelClosed(c)
        \/ OnReceivedFIN(c) \/ \E t \in Clients : DataListenCallback(t, c)

-----------------------------------------------------------------------------
(* Server, main thread: EnterReceiverIntervalLoop.                         *)

(* The thread wakes up and takes the lock; SIGINT may have come while it   *)
(* slept.                                                                  *)
LockTable ==
    /\ Running /\ mpc = "sleep"
    /\ mpc' = "visit" /\ todo' = tbl
    /\ UNCHANGED <<clientVars, connVars, testVars, tableVars, walking, stopVars, outcome>>

(* CheckStreamIntervalReceive walks test_streams_ at the end of an         *)
(* interval, without streams_mutex_; the walk ends with VisitTest.         *)
CheckStreamIntervalReceive(t) ==
    /\ Running /\ mpc = "visit" /\ t \in todo /\ walking = Null /\ streams[t] # {}
    /\ walking' = t
    /\ UNCHANGED <<clientVars, connVars, testVars, tableVars, mpc, todo, stopVars, outcome>>

IsStreamDone(t) == streams[t] = {} \/ (streams[t] \subseteq fin /\ Cardinality(streams[t]) = 1)

(* Mutant: a test leaves the table when its streams are done, whatever     *)
(* state it is in.                                                         *)
Finished_AnyState(t) == IsStreamDone(t)

Finished(t) == tState[t] = "DONE" /\ IsStreamDone(t)

(* The rest of the visit: a finished test moves to dying_tests; erasing    *)
(* its entry frees the node StopAll may stand on.                          *)
VisitTest(t) ==
    /\ Running /\ mpc = "visit" /\ t \in todo /\ walking \in {t, Null}
    /\ walking' = Null /\ todo' = todo \ {t}
    /\ IF Finished(t)
       THEN /\ tbl' = tbl \ {t} /\ dying' = dying \cup {t} /\ cnt' = [cnt EXCEPT ![t] = 0]
            /\ cut' = (cut \/ at = t)
       ELSE UNCHANGED <<tableVars, cut>>
    /\ UNCHANGED <<clientVars, connVars, testVars, mpc, stopVars, crashed, nullConn>>

(* The round over dying_tests, the end of the lock, and the condition of   *)
(* the loop: to sleep again, or to StopAll.  An erased test takes its      *)
(* listener with it.  Mutants: one round more; the loop waits for its      *)
(* tests.                                                                  *)
TornDown_Late == {t \in dying : ~isConnected \/ cnt[t] > DyingTicks + 1}

TornDown == {t \in dying : ~isConnected \/ cnt[t] > DyingTicks}

LoopCondition_WhileTests ==
    IF sig /\ tbl = {} THEN mpc' = (IF allStopped THEN "end" ELSE "stop") /\ allStopped' = TRUE
                       ELSE mpc' = "sleep" /\ UNCHANGED allStopped

LoopCondition ==
    IF sig THEN mpc' = (IF allStopped THEN "end" ELSE "stop") /\ allStopped' = TRUE
           ELSE mpc' = "sleep" /\ UNCHANGED allStopped

SweepDying ==
    /\ Running /\ mpc = "visit" /\ todo = {}
    /\ dying' = dying \ TornDown
    /\ cnt' = [t \in Clients |-> IF t \in dying \ TornDown THEN cnt[t] + 1 ELSE cnt[t]]
    /\ listens' = [t \in Clients |-> listens[t] /\ t \notin TornDown]
    /\ streams' = [t \in Clients |-> IF t \in TornDown THEN {} ELSE streams[t]]
    /\ LoopCondition
    /\ UNCHANGED <<clientVars, connVars, tState, tChn, tStopped, fin, released, tbl, todo, walking,
                   ioPc, sig, at, visited, outcome>>

ReceiverLoop ==
    \/ LockTable \/ SweepDying
    \/ \E t \in Clients : CheckStreamIntervalReceive(t) \/ VisitTest(t)

-----------------------------------------------------------------------------
(* SIGINT and StopAll.                                                     *)

(* The signal callback, in the IO thread: the store to stop_signal_value   *)
(* comes before the call of StopAll.                                       *)
Interrupt ==
    /\ IoFree /\ ~sig /\ Cardinality(Connected) <= MaxInterrupted
    /\ sig' = TRUE /\ ioPc' = "signal"
    /\ UNCHANGED <<clientVars, connVars, testVars, tableVars, mainVars, allStopped, at, visited, outcome>>

(* is_stopped_.exchange(true): the second caller returns at once.          *)
EnterStopAll ==
    /\ Running /\ ioPc = "signal"
    /\ ioPc' = (IF allStopped THEN "free" ELSE "stop")
    /\ allStopped' = TRUE
    /\ UNCHANGED <<clientVars, connVars, testVars, tableVars, mainVars, sig, at, visited, outcome>>

InStopAll == Running /\ (ioPc = "stop" \/ mpc = "stop")

(* The walk over test_tbl_, in its own order and without the lock.         *)
StopTest(t) ==
    /\ InStopAll /\ at = Null /\ t \in tbl \ visited
    /\ at' = t
    /\ Stop({t})
    /\ UNCHANGED <<clientVars, connVars, tChn, listens, fin, tableVars, mainVars, ioPc, sig, allStopped,
                   visited, crashed, nullConn>>

NextTest ==
    /\ InStopAll /\ at # Null
    /\ visited' = visited \cup {at} /\ at' = Null
    /\ UNCHANGED <<clientVars, connVars, testVars, tableVars, mainVars, ioPc, sig, allStopped, outcome>>

LeaveStopAll ==
    /\ InStopAll /\ at = Null /\ tbl \subseteq visited
    /\ IF mpc = "stop" THEN mpc' = "end" /\ UNCHANGED ioPc ELSE ioPc' = "free" /\ UNCHANGED mpc
    /\ UNCHANGED <<clientVars, connVars, testVars, tableVars, todo, walking, sig, allStopped, at, visited, outcome>>

StopAll == EnterStopAll \/ NextTest \/ LeaveStopAll \/ \E t \in Clients : StopTest(t)

Next == (\E c \in Clients : Client(c)) \/ ServerIO \/ ReceiverLoop \/ Interrupt \/ StopAll

Spec == Init /\ [][Next]_vars

(* The server's threads keep running.  The clients owe it nothing.  The    *)
(* loop's lock is free again and again, but not for ever, while it runs:   *)
(* std::mutex is assumed not to starve the IO thread, which waits for it   *)
(* ten times a second for a few microseconds.                              *)
Fairness ==
    /\ SF_vars(ServerIO)
    /\ WF_vars(ReceiverLoop)
    /\ WF_vars(StopAll)

FairSpec == Spec /\ Fairness

-----------------------------------------------------------------------------
(* Properties.                                                             *)

(* Clients do not disturb each other (as long as the server is not         *)
(* interrupted): a client whose test has been started and whose control    *)
(* channel is open has its own test in test_tbl_, running; one that was    *)
(* told its test is over has one that is.  test_tbl_ is keyed by an id     *)
(* that each client takes from its own clock.                              *)
OwnTest ==
    ~sig => \A c \in Clients :
        /\ cli[c] = "acked" /\ conn[c] = "open" => c \in tbl /\ tState[c] = "START" /\ tChn[c] = c
        /\ cli[c] = "done" => tState[c] = "DONE"

(* IperfBatsApi::HandleControlMessage never finds a message without a test *)
(* (a null received_test), although another thread erases tests and other  *)
(* clients' streams may end up in them.                                    *)
MessagesFindTheirTest == sig \/ ~crashed

(* No thread walks a list or a table from which another releases the       *)
(* element it stands on, before SIGINT: test_tbl_mutex_ keeps Stop, which  *)
(* swaps test_streams_ away, out of the loop's rounds.                     *)
NoWalkCut == sig \/ ~cut

(* A test whose client has left is erased from both tables, whatever the   *)
(* other clients do.  The exception is a connection accepted after Stop    *)
(* had emptied test_streams_, which nobody will finish.                    *)
AcceptedAfterStop(t) == tStopped[t] /\ streams[t] # {}

AbandonedTestsGo ==
    \A c \in Clients :
        cli[c] = "left" /\ c \in tbl \cup dying ~>
            c \notin tbl \cup dying \/ AcceptedAfterStop(c) \/ ~Running

(* SIGINT ends the server, whichever thread gets to StopAll first and      *)
(* whatever clients are doing.                                             *)
InterruptEndsServer == sig ~> ~Running

-----------------------------------------------------------------------------
(* What comments of the code say and the code does not do.                 *)

(* EnterReceiverIntervalLoop, "avoid to close connection before sender     *)
(* receives the FIN ack": a test is not torn down before its time while    *)
(* its client is connected and the FIN-ACK is still on its way.            *)
FinAckBeforeTeardown ==
    [][\A t \in dying \ dying' : cnt[t] <= DyingTicks /\ conn[t] = "open" => data[t] # "finack"]_vars

(* StopAll, "may invoked by multiple threads": the walk of the thread that *)
(* does the work is not cut by the other.                                  *)
StopAllWalkSafe == ~cut

(* iperf_stream.cc, OnReceivedFIN: a stream that is terminated has "no     *)
(* need to send FIN-ACK", so a FIN that comes after Stop is not answered   *)
(* through a null data_conn_.                                              *)
NoNullFinAck == ~nullConn

(* DataListenCallback, "All data streams are connected": the streams a     *)
(* test counts, times and reports are those of its own client.             *)
OwnStreams == \A t \in Clients : streams[t] \subseteq {t}
=============================================================================

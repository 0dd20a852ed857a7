----------------------------- MODULE IperfStream -----------------------------
(***************************************************************************)
(* The data plane of bats_iperf: what the two IperfStream objects of one   *)
(* established data channel do.                                            *)
(*                                                                         *)
(* At the sender the main thread takes a snapshot per interval and ends    *)
(* the test, the sending thread numbers, colours and sends datagrams, and  *)
(* the IO thread runs ConnectionCallback.  The receiver's IO thread counts *)
(* datagrams, works out the loss of an interval when the colour changes,   *)
(* and answers FIN.  The summary comes over the control channel, so it may *)
(* overtake the data or be overtaken.                                      *)
(*                                                                         *)
(* Bytes and datagrams move together in the code and are one counter here. *)
(* Wall-clock time is replaced by the choices it decides: whether enough   *)
(* of an interval has passed.  The receiver's own snapshots only feed what *)
(* it prints, and are left out.                                            *)
(***************************************************************************)
EXTENDS Integers, FiniteSets

CONSTANTS
    Protocol,      \* -m: 0 BTP, 1 BRTP, 2 BRCTP, 10 TCP, 11 UDP, 12 QUIC
    Threshold,     \* iperf_stream_seq_reorder_threshold (128 in the code)
    HasShaper,     \* max_allowed_sending_rate > 0
    MaxDatagrams,  \* bound: datagrams the sending loop sends
    MaxSnapshots,  \* bound: snapshots the sender takes
    MaxFull,       \* bound: how often the sender's buffer fills up
    MayFail,       \* the sender's connection may report SEND_DATA_ERROR
    PeerMayFill,   \* the receiver's connection may refuse its FIN-ACK
    PeerMayStop    \* the receiver's test may be stopped

ASSUME StreamAssumption ==
    /\ Protocol \in {0, 1, 2, 10, 11, 12}
    /\ Threshold \in Nat
    /\ MaxDatagrams \in Nat \ {0}
    /\ MaxSnapshots \in Nat
    /\ MaxFull \in Nat
    /\ {HasShaper, MayFail, PeerMayFill, PeerMayStop} \subseteq BOOLEAN

VARIABLES
    \* sender
    mpc,         \* main thread: sending loop, FinishReport done, summary sent
    tpc,         \* sending thread
    sState,      \* state_
    sWritable,   \* is_writable_
    sErr,        \* has_err_in_send_
    sent,        \* sender_report.summary.datagrams
    snapCnt,     \* sender_report.snapshot_cnt
    snapAt,      \* datagrams at the last snapshot (GetLastSnapshot)
    interval,    \* the last interval (GetLastInterval): start_seq, datagrams
    hdr,         \* the header and interval data in iperf_data_
    lastGrp,     \* last_grp_id of the sending thread
    \* the connections
    full,        \* the sender's send buffer is full
    fills,       \* how often it has been
    net,         \* datagrams in flight
    finAck,      \* the FIN-ACK is in flight
    summary,     \* the summary on the control channel; -1: none
    \* receiver
    rpc,         \* IO thread: idle, or in the loop of OnReceivedFIN
    rState,      \* state_
    rWritable,   \* is_writable_
    rFull,       \* its connection refuses data
    rStopped,    \* is_stopped_
    rCount,      \* receiver_report.summary.datagrams
    rLost,       \* receiver_report.summary.lost_datagrams
    rPeer,       \* sender_report.summary.datagrams, as the receiver keeps it
    rKnown,      \* stream_identifier_ # 0
    rGrp,        \* last_grp_id_
    rChanged,    \* seq_of_last_changed_grp_id_
    rRecorded,   \* recv_seq_recorder_
    rInterval,   \* what was last printed: start_seq, datagrams, lost_datagrams
    rFin,        \* is_fin_received_
    rSum,        \* is_sum_received_
    rExit,       \* the server called exit(EXIT_FAILURE)
    rNull,       \* ... or died answering a FIN through a null data_conn_
    rGot         \* history: the sequence numbers received

mainVars == <<mpc, snapCnt, snapAt, interval>>
thrVars  == <<tpc, sent, hdr, lastGrp>>
flagVars == <<sWritable, sErr, full, fills>>
chanVars == <<net, finAck, summary>>
rIOVars  == <<rpc, rWritable, rFull, rKnown, rGrp, rChanged, rRecorded, rInterval, rGot, rExit>>
rRepVars == <<rState, rStopped, rCount, rLost, rPeer, rFin, rSum, rNull>>
senderVars == <<mainVars, thrVars, sState, flagVars>>
vars == <<senderVars, chanVars, rIOVars, rRepVars>>

IsReliableProtocol == Protocol \in {1, 2, 10}
ChecksFirstSeq == Protocol \in {1, 10}

Interval == [start : Nat, n : Nat]
NoInterval == [start |-> 0, n |-> 0]
Packet == [seq : Nat, grp : {0, 1}, has : BOOLEAN, last : BOOLEAN, int : Interval]
StreamState == {"NONE", "START", "STOP", "DONE"}
ThreadPc == {"off", "loop", "wait", "prep", "send", "retry", "count", "fin", "finretry", "fincount", "exit"}

(* Beyond MaxDatagrams there is at most the FIN.  The receiver's counts    *)
(* have no bound of their own: it also counts what is delivered twice.     *)
SenderTypeOK ==
    /\ mpc \in {"run", "finished", "done"} /\ tpc \in ThreadPc
    /\ sState \in StreamState
    /\ sWritable \in BOOLEAN /\ sErr \in BOOLEAN
    /\ full \in BOOLEAN /\ fills \in 0..MaxFull
    /\ sent \in 0..(MaxDatagrams + 1) /\ snapCnt \in 0..MaxSnapshots
    /\ snapAt \in 0..sent /\ interval \in Interval /\ interval.start + interval.n = snapAt
    /\ hdr \in Packet /\ lastGrp \in {0, 1}

ChannelTypeOK ==
    /\ net \subseteq Packet /\ finAck \in BOOLEAN /\ summary \in -1..(MaxDatagrams + 1)

ReceiverTypeOK ==
    /\ rpc \in {"idle", "finack"} /\ rState \in StreamState
    /\ rWritable \in BOOLEAN /\ rFull \in BOOLEAN /\ rStopped \in BOOLEAN /\ rKnown \in BOOLEAN
    /\ rFin \in BOOLEAN /\ rSum \in BOOLEAN /\ rExit \in BOOLEAN /\ rNull \in BOOLEAN
    /\ rCount \in Nat /\ rLost \in Nat /\ rPeer \in Nat

RecordTypeOK ==
    /\ rGrp \in {-1, 0, 1} /\ rChanged \in 0..sent
    /\ rGot \subseteq 0..sent /\ rRecorded \subseteq rGot
    /\ rInterval \in [start : Nat, n : Nat, lost : Nat]

TypeOK == SenderTypeOK /\ ChannelTypeOK /\ ReceiverTypeOK /\ RecordTypeOK

(* The buffer is filled with 0x77, whose has_interval bit is clear.        *)
Init ==
    /\ mpc = "run" /\ tpc = "off" /\ sState = "NONE"
    /\ sWritable = FALSE /\ sErr = FALSE /\ full = FALSE /\ fills = 0
    /\ sent = 0 /\ snapCnt = 0 /\ snapAt = 0 /\ interval = NoInterval
    /\ hdr = [seq |-> 0, grp |-> 1, has |-> FALSE, last |-> TRUE, int |-> NoInterval]
    /\ lastGrp = 0
    /\ net = {} /\ finAck = FALSE /\ summary = -1
    /\ rpc = "idle" /\ rState = "NONE" /\ rWritable = FALSE /\ rFull = FALSE /\ rStopped = FALSE
    /\ rCount = 0 /\ rLost = 0 /\ rPeer = 0
    /\ rKnown = FALSE /\ rGrp = -1 /\ rChanged = 0 /\ rRecorded = {} /\ rGot = {}
    /\ rInterval = [start |-> 0, n |-> 0, lost |-> 0]
    /\ rFin = FALSE /\ rSum = FALSE /\ rExit = FALSE /\ rNull = FALSE

-----------------------------------------------------------------------------
(* Sender, main thread.                                                    *)

(* Mutant: the end of the last snapshot is not kept.                       *)
Snapshot_NotKept ==
    /\ mpc = "run" /\ sState # "DONE" /\ snapCnt < MaxSnapshots
    /\ interval' = [start |-> snapAt, n |-> sent - snapAt]
    /\ snapCnt' = snapCnt + 1
    /\ UNCHANGED <<mpc, snapAt, thrVars, sState, flagVars, chanVars, rIOVars, rRepVars>>

(* SnapshotReport, when enough of the interval has passed.  The loop that  *)
(* calls it starts when the streams are connected, be they started or not. *)
Snapshot ==
    /\ mpc = "run" /\ sState # "DONE" /\ snapCnt < MaxSnapshots
    /\ interval' = [start |-> snapAt, n |-> sent - snapAt]
    /\ snapAt' = sent
    /\ snapCnt' = snapCnt + 1
    /\ UNCHANGED <<mpc, thrVars, sState, flagVars, chanVars, rIOVars, rRepVars>>

(* FinishReport of a sender.                                               *)
FinishReport ==
    /\ mpc = "run"
    /\ mpc' = "finished"
    /\ sState' = IF sState = "DONE" THEN "DONE" ELSE "STOP"
    /\ UNCHANGED <<snapCnt, snapAt, interval, thrVars, flagVars, chanVars, rIOVars, rRepVars>>

(* SerializeReport into the summary message, which is sent.                *)
SerializeReport ==
    /\ mpc = "finished"
    /\ mpc' = "done"
    /\ summary' = sent
    /\ UNCHANGED <<snapCnt, snapAt, interval, thrVars, sState, flagVars, net, finAck, rIOVars, rRepVars>>

SenderMain == Snapshot \/ FinishReport \/ SerializeReport

-----------------------------------------------------------------------------
(* Sender, sending thread.                                                 *)

(* StartSend, by the IO thread; the stream is connected.                   *)
StartSend ==
    /\ tpc = "off"
    /\ tpc' = "loop" /\ sState' = "START"
    /\ UNCHANGED <<mainVars, sent, hdr, lastGrp, flagVars, chanVars, rIOVars, rRepVars>>

(* The loop condition and the check for an error; MaxDatagrams makes the   *)
(* thread wait here for the end of the test.                               *)
ThreadLoop ==
    /\ tpc = "loop"
    /\ sent < MaxDatagrams \/ sState # "START" \/ sErr
    /\ LET failed == sState = "START" /\ sErr
       IN  /\ sErr' = (sErr /\ ~failed)
           /\ sState' = IF failed THEN "DONE" ELSE sState
           /\ tpc' = IF sState = "START" /\ ~failed THEN "wait" ELSE "fin"
    /\ UNCHANGED <<mainVars, sent, hdr, lastGrp, sWritable, full, fills, chanVars, rIOVars, rRepVars>>

(* The wait for is_writable_ falls through when the test is over, and so   *)
(* one more datagram is prepared.  The shaper may send it back.            *)
ThreadWait ==
    /\ tpc = "wait"
    /\ sWritable \/ sState # "START" \/ sErr
    /\ tpc' \in (IF HasShaper THEN {"prep", "loop"} ELSE {"prep"})
    /\ UNCHANGED <<mainVars, sent, hdr, lastGrp, sState, flagVars, chanVars, rIOVars, rRepVars>>

(* Under snapshot_mutex_: number and colour the datagram.  The first one   *)
(* of a colour puts the last interval into the buffer, where it stays for  *)
(* the others.                                                             *)
PrepareHeader ==
    LET grp == snapCnt % 2
        changed == snapCnt > 0 /\ lastGrp # grp
    IN  [seq |-> sent, grp |-> grp, last |-> FALSE,
         has |-> snapCnt > 0 /\ (changed \/ hdr.has),
         int |-> IF changed THEN interval ELSE hdr.int]

ThreadPrepare ==
    /\ tpc = "prep"
    /\ tpc' = "send"
    /\ hdr' = PrepareHeader
    /\ lastGrp' = IF snapCnt > 0 THEN snapCnt % 2 ELSE lastGrp
    /\ UNCHANGED <<mainVars, sent, sState, flagVars, chanVars, rIOVars, rRepVars>>

(* SendData (external): a full buffer refuses, otherwise it is accepted.   *)
SendData(p) == net' = IF full THEN net ELSE net \cup {p}

(* Mutant: a refused datagram is not tried again.                          *)
ThreadSend_NoRetry ==
    /\ tpc = "send"
    /\ SendData(hdr)
    /\ tpc' = "count"
    /\ UNCHANGED <<mainVars, sent, hdr, lastGrp, sState, flagVars, finAck, summary, rIOVars, rRepVars>>

ThreadSend ==
    /\ tpc = "send"
    /\ SendData(hdr)
    /\ tpc' = IF full THEN "retry" ELSE "count"
    /\ UNCHANGED <<mainVars, sent, hdr, lastGrp, sState, flagVars, finAck, summary, rIOVars, rRepVars>>

(* The retry loop; at the end of the test the datagram is given up, and    *)
(* counted all the same.                                                   *)
ThreadRetry ==
    /\ tpc = "retry"
    /\ \/ /\ sState # "START" \/ sErr
          /\ tpc' = "count" /\ UNCHANGED net
       \/ /\ sState = "START" /\ ~sErr /\ sWritable
          /\ SendData(hdr)
          /\ tpc' = IF full THEN "retry" ELSE "count"
    /\ UNCHANGED <<mainVars, sent, hdr, lastGrp, sState, flagVars, finAck, summary, rIOVars, rRepVars>>

ThreadCount ==
    /\ tpc = "count"
    /\ tpc' = "loop" /\ sent' = sent + 1
    /\ UNCHANGED <<mainVars, hdr, lastGrp, sState, flagVars, chanVars, rIOVars, rRepVars>>

(* SendFIN.                                                                *)
FinHeader == [hdr EXCEPT !.seq = sent, !.grp = snapCnt % 2, !.last = TRUE, !.has = FALSE]

SendFIN ==
    /\ tpc = "fin"
    /\ \/ /\ ~IsReliableProtocol
          /\ tpc' = "exit" /\ UNCHANGED <<hdr, net>>
       \/ /\ IsReliableProtocol
          /\ hdr' = FinHeader
          /\ SendData(FinHeader)
          /\ tpc' = IF full THEN "finretry" ELSE "fincount"
    /\ UNCHANGED <<mainVars, sent, lastGrp, sState, flagVars, finAck, summary, rIOVars, rRepVars>>

(* Mutant: a refused FIN is given up once the stream is not in START.      *)
SendFINRetry_GivesUp ==
    /\ tpc = "finretry"
    /\ \/ /\ sState # "START" \/ sErr
          /\ tpc' = "exit" /\ UNCHANGED net
       \/ /\ sState = "START" /\ ~sErr /\ sWritable
          /\ SendData(hdr)
          /\ tpc' = IF full THEN "finretry" ELSE "fincount"
    /\ UNCHANGED <<mainVars, sent, hdr, lastGrp, sState, flagVars, finAck, summary, rIOVars, rRepVars>>

SendFINRetry ==
    /\ tpc = "finretry"
    /\ \/ /\ sState = "DONE" \/ sErr
          /\ tpc' = "exit" /\ UNCHANGED net
       \/ /\ sState # "DONE" /\ ~sErr /\ sWritable
          /\ SendData(hdr)
          /\ tpc' = IF full THEN "finretry" ELSE "fincount"
    /\ UNCHANGED <<mainVars, sent, hdr, lastGrp, sState, flagVars, finAck, summary, rIOVars, rRepVars>>

SendFINCount ==
    /\ tpc = "fincount"
    /\ tpc' = "exit" /\ sent' = sent + 1
    /\ UNCHANGED <<mainVars, hdr, lastGrp, sState, flagVars, chanVars, rIOVars, rRepVars>>

SendingThread ==
    \/ ThreadLoop \/ ThreadWait \/ ThreadPrepare \/ ThreadSend \/ ThreadRetry \/ ThreadCount
    \/ SendFIN \/ SendFINRetry \/ SendFINCount

-----------------------------------------------------------------------------
(* Sender, IO thread: ConnectionCallback.                                  *)

(* BATS_CONNECTION_BUFFER_FULL sets is_writable_, as WRITABLE does.        *)
BufferFull ==
    /\ ~full /\ fills < MaxFull
    /\ full' = TRUE /\ fills' = fills + 1
    /\ sWritable' = TRUE
    /\ UNCHANGED <<mainVars, thrVars, sState, sErr, chanVars, rIOVars, rRepVars>>

Writable ==
    /\ full \/ ~sWritable
    /\ full' = FALSE
    /\ sWritable' = TRUE
    /\ UNCHANGED <<mainVars, thrVars, sState, sErr, fills, chanVars, rIOVars, rRepVars>>

SendDataError ==
    /\ MayFail /\ ~sErr /\ tpc # "exit"
    /\ sErr' = TRUE
    /\ UNCHANGED <<mainVars, thrVars, sState, sWritable, full, fills, chanVars, rIOVars, rRepVars>>

(* UpdateReceived with last and ack set.                                   *)
FinAckReceived ==
    /\ finAck
    /\ finAck' = FALSE
    /\ sState' = "DONE"
    /\ UNCHANGED <<mainVars, thrVars, flagVars, net, summary, rIOVars, rRepVars>>

-----------------------------------------------------------------------------
(* Receiver.                                                               *)

ServerUp == ~rExit /\ ~rNull

(* Mutant: a FIN is expected among the datagrams of every protocol.        *)
GenReceiveSummary_WithFIN(peer, count) ==
    /\ rLost' = IF peer + 1 > count THEN peer + 1 - count ELSE 0
    /\ rCount' = peer

(* FinishReport and GenReceiveSummary of a receiver, for the sender's      *)
(* count of datagrams and its own, which is overwritten.                   *)
GenReceiveSummary(peer, count) ==
    /\ rLost' = IF peer > count THEN peer - count ELSE 0
    /\ rCount' = peer

(* HasNewGrpId; a change is believed only some way behind the last one.    *)
HasNewGrpId(p) == rGrp = -1 \/ (rGrp # p.grp /\ rChanged + Threshold < p.seq)

(* Mutant: the number at which the next interval starts is discarded.      *)
OnReceivedIntervalData_CutsOneMore(p, early) ==
    LET recorded == rRecorded \cup {p.seq}
        end == p.int.start + p.int.n
        received == Cardinality({i \in recorded : p.int.start <= i /\ i < end})
    IN  /\ rChanged' = end
        /\ rRecorded' = {i \in recorded : i > end}
        /\ rInterval' = IF early THEN rInterval
                        ELSE [start |-> p.int.start, n |-> p.int.n, lost |-> p.int.n - received]

(* OnReceivedIntervalData, with ResetSeqRecord: the record is cut at the   *)
(* end of the interval, and the loss is reported unless the interval came  *)
(* early.                                                                  *)
OnReceivedIntervalData(p, early) ==
    LET recorded == rRecorded \cup {p.seq}
        end == p.int.start + p.int.n
        received == Cardinality({i \in recorded : p.int.start <= i /\ i < end})
    IN  /\ rChanged' = end
        /\ rRecorded' = {i \in recorded : i >= end}
        /\ rInterval' = IF early THEN rInterval
                        ELSE [start |-> p.int.start, n |-> p.int.n, lost |-> p.int.n - received]

(* OnReceivedFIN when SendData takes the FIN-ACK, which is counted as a    *)
(* datagram of the sender; otherwise the IO thread stays in its loop.      *)
(* Stop has cleared the data_conn_ it sends on.                            *)
OnReceivedFIN(count) ==
    \/ /\ ~rStopped /\ ~rFull
       /\ finAck' = TRUE
       /\ rPeer' = rPeer + 1
       /\ GenReceiveSummary(rPeer + 1, count)
       /\ rFin' = TRUE /\ rState' = "DONE"
       /\ UNCHANGED <<rpc, rNull>>
    \/ /\ ~rStopped /\ rFull
       /\ rpc' = "finack"
       /\ rCount' = count
       /\ UNCHANGED <<finAck, rPeer, rLost, rFin, rState, rNull>>
    \/ /\ rStopped
       /\ rNull' = TRUE
       /\ rCount' = count
       /\ UNCHANGED <<finAck, rPeer, rLost, rFin, rState, rpc>>

(* UpdateReceived.  A first datagram that is not number 0 makes a server   *)
(* on a reliable protocol exit.                                            *)
UpdateReceived(p, early) ==
    /\ rGot' = rGot \cup {p.seq}
    /\ rKnown' = TRUE
    /\ rExit' = (~rKnown /\ p.seq # 0 /\ ChecksFirstSeq)
    /\ IF p.last THEN OnReceivedFIN(rCount + 1)
                 ELSE rCount' = rCount + 1 /\ UNCHANGED <<finAck, rPeer, rLost, rFin, rState, rpc, rNull>>
    /\ rGrp' = IF HasNewGrpId(p) THEN p.grp ELSE rGrp
    /\ IF HasNewGrpId(p) /\ p.has
       THEN OnReceivedIntervalData(p, early)
       ELSE rRecorded' = rRecorded \cup {p.seq} /\ UNCHANGED <<rChanged, rInterval>>

(* A reliable protocol delivers in order; any other delivers what it likes *)
(* and may deliver it again (as long as MaxDatagrams is not reached).      *)
(* What it never delivers is lost.  Stop does not close the connection, so *)
(* data may also come after it.                                            *)
DataReceived(p) ==
    /\ rpc = "idle" /\ ServerUp
    /\ p \in net
    /\ \/ /\ IsReliableProtocol /\ \A q \in net : p.seq <= q.seq
          /\ net' = net \ {p}
       \/ /\ ~IsReliableProtocol
          /\ net' = net \ {p}
       \/ /\ ~IsReliableProtocol /\ rCount < MaxDatagrams
          /\ UNCHANGED net
    /\ \E early \in BOOLEAN : UpdateReceived(p, early)
    /\ UNCHANGED <<senderVars, summary, rWritable, rFull, rStopped, rSum>>

(* The loop of OnReceivedFIN, and what follows it.                         *)
FinAckLoop ==
    /\ rpc = "finack" /\ ServerUp
    /\ \/ /\ rState = "DONE"
          /\ GenReceiveSummary(rPeer, rCount)
          /\ UNCHANGED <<finAck, rPeer>>
       \/ /\ rState # "DONE" /\ rWritable /\ ~rFull
          /\ finAck' = TRUE
          /\ rPeer' = rPeer + 1
          /\ GenReceiveSummary(rPeer + 1, rCount)
    /\ rpc' = "idle" /\ rFin' = TRUE /\ rState' = "DONE"
    /\ UNCHANGED <<senderVars, net, summary, rWritable, rFull, rKnown, rGrp, rChanged, rRecorded,
                   rInterval, rGot, rExit, rStopped, rSum, rNull>>

(* HandleSummaryMessage: the stream is found by the identifier that came   *)
(* with its first datagram; an unreliable protocol finishes here.          *)
HandleSummaryMessage ==
    /\ rpc = "idle" /\ ServerUp /\ summary # -1
    /\ summary' = -1
    /\ \/ /\ rKnown /\ ~rStopped
          /\ rPeer' = summary /\ rSum' = TRUE
          /\ IF IsReliableProtocol THEN UNCHANGED <<rState, rCount, rLost>>
                                   ELSE rState' = "STOP" /\ GenReceiveSummary(summary, rCount)
       \/ /\ ~rKnown \/ rStopped
          /\ UNCHANGED <<rPeer, rSum, rState, rCount, rLost>>
    /\ UNCHANGED <<senderVars, net, finAck, rIOVars, rStopped, rFin, rNull>>

(* Stop, by the control channel's callback or by the main thread; the      *)
(* latter may clear data_conn_ under the loop of OnReceivedFIN.            *)
Stop ==
    /\ PeerMayStop /\ ~rStopped /\ ServerUp
    /\ rNull' \in {FALSE, rpc = "finack"}
    /\ rStopped' = TRUE
    /\ IF rFin THEN UNCHANGED <<rLost, rCount>> ELSE GenReceiveSummary(rPeer, rCount)
    /\ rState' = "DONE"
    /\ UNCHANGED <<senderVars, chanVars, rIOVars, rPeer, rFin, rSum>>

(* The receiver's connection (external) refuses data while it is closed or *)
(* its buffer is full; the events that say so set is_writable_ and need    *)
(* the IO thread.                                                          *)
PeerRefuses ==
    /\ PeerMayFill /\ ~rFull /\ ~rFin
    /\ rFull' = TRUE
    /\ UNCHANGED <<senderVars, chanVars, rpc, rWritable, rKnown, rGrp, rChanged, rRecorded, rInterval,
                   rGot, rExit, rRepVars>>

PeerDrains ==
    /\ rFull
    /\ rFull' = FALSE
    /\ UNCHANGED <<senderVars, chanVars, rpc, rWritable, rKnown, rGrp, rChanged, rRecorded, rInterval,
                   rGot, rExit, rRepVars>>

PeerWritable ==
    /\ PeerMayFill /\ rpc = "idle" /\ ~rWritable
    /\ rWritable' = TRUE
    /\ UNCHANGED <<senderVars, chanVars, rpc, rFull, rKnown, rGrp, rChanged, rRecorded, rInterval, rGot,
                   rExit, rRepVars>>

Receive == \E p \in net : DataReceived(p)

Next ==
    \/ SenderMain \/ StartSend \/ SendingThread
    \/ BufferFull \/ Writable \/ SendDataError \/ FinAckReceived
    \/ Receive \/ FinAckLoop \/ HandleSummaryMessage \/ Stop
    \/ PeerRefuses \/ PeerDrains \/ PeerWritable

Spec == Init /\ [][Next]_vars

(* The threads run, a full buffer drains, and a reliable protocol          *)
(* delivers; nothing obliges the user to stop or a buffer to fill.         *)
Fairness ==
    /\ WF_vars(FinishReport \/ SerializeReport)
    /\ WF_vars(SendingThread)
    /\ WF_vars(Writable)
    /\ WF_vars(FinAckReceived)
    /\ WF_vars(Receive)
    /\ WF_vars(FinAckLoop)
    /\ WF_vars(PeerWritable)

FairSpec == Spec /\ Fairness

-----------------------------------------------------------------------------
(* Properties.                                                             *)

(* The loss printed for an interval is exactly the number of its datagrams *)
(* that have not arrived by then: whatever is lost, late or sent twice,    *)
(* and whatever colour changes went unseen, ResetSeqRecord never discards  *)
(* a number that a later interval needs.                                   *)
IntervalLossExact ==
    [][rInterval' # rInterval =>
         rInterval'.lost =
            Cardinality({i \in rInterval'.start..(rInterval'.start + rInterval'.n - 1) : i \notin rGot'})]_vars

(* On a reliable protocol no interval is printed with a loss, although     *)
(* the sending thread counts a datagram after sending it and outside       *)
(* snapshot_mutex_, and counts also one that it gave up sending.           *)
ReliableIntervalsLoseNothing == IsReliableProtocol => rInterval.lost = 0

(* Every datagram has its own number and names an interval that ended      *)
(* before it, so a snapshot never cuts through what is under way.          *)
IntervalBehindMarker ==
    \A p \in net :
        /\ p.has => p.int.start + p.int.n <= p.seq
        /\ \A q \in net : p.seq = q.seq => p = q

(* On an unreliable protocol the summary never claims more losses than     *)
(* there are datagrams the receiver has not seen.                          *)
SummaryLossBounded ==
    [][~IsReliableProtocol /\ rLost' > rLost =>
         rLost' <= Cardinality({i \in 0..(rPeer' - 1) : i \notin rGot})]_vars

(* A stopped stream of a reliable protocol becomes DONE (time is up, stop  *)
(* send, FIN, FIN-ACK, DONE), also through a buffer that fills up; unless  *)
(* sending failed, the receiver was stopped or exited, or its IO thread is *)
(* caught in OnReceivedFIN.                                                *)
StopLeadsToDone ==
    (sState = "STOP" /\ tpc # "off") ~>
        (sState = "DONE" \/ sErr \/ rStopped \/ rExit \/ rpc = "finack")

-----------------------------------------------------------------------------
(* What comments of the code say and the code does not do.                 *)

(* iperf_stream.cc: "wait only if not writable": a sending thread whose    *)
(* datagram was refused by a full buffer waits, and does not spin.         *)
WaitsWhileFull == full /\ tpc = "retry" => ~sWritable

(* UpdateReceived: exit on a first number other than 0 "indicates disorder *)
(* in data receiving": on an ordered channel it does not happen.           *)
NoFalseDisorder == ~rExit

(* GenReceiveSummary: the summary of the receiver is given the total       *)
(* datagrams sent by the sender.                                           *)
SummaryNamesTotal == rFin /\ rSum => rCount = rPeer

(* GenReceiveSummary: the sender may send one or two packets more than the *)
(* number in the report, never fewer: a reliable channel shows no loss.    *)
ReliableSummaryLosesNothing == IsReliableProtocol => rLost = 0

(* bats_connection.h: "Don't block in the callback function": the loop of  *)
(* OnReceivedFIN is left.                                                  *)
FinAckReturns == rpc = "finack" ~> rpc = "idle"
=============================================================================

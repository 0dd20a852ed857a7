-------------------------- MODULE IperfFileTransfer --------------------------
(***************************************************************************)
(* A file transfer (bats_iperf -c ... -f ...) over a reliable protocol:    *)
(* the client's main thread, its IO thread and one transfer thread per     *)
(* stream, which take files from a shared queue and send them block by     *)
(* block; and the server, which writes what it receives and retires the    *)
(* transfer in its 10 Hz loop.                                             *)
(*                                                                         *)
(* A file is a number of blocks and a base name, under which the server    *)
(* writes its copy; what a block contains, its compression and the         *)
(* checksum that may come with it are abstracted away.  The control        *)
(* channel carries one request and one response, so its queues are the     *)
(* values of ctrl.                                                         *)
(***************************************************************************)
EXTENDS Integers, Sequences, FiniteSets

CONSTANTS
    NumStreams,  \* -P: test_config_.num_streams
    NumFiles,    \* test_config_.files.size(); at least NumStreams
    MaxBlocks,   \* the longest file, in blocks
    IntBits,     \* width of the int that holds a file's length, in blocks
    MaxRetry,    \* connection attempts after the first (3 in the code)
    ReadyWaits,  \* max_timeout_cnt of RunTest
    DoneWaits,   \* max_wait_time of EnterSenderIntervalLoop
    FaultKinds,  \* which faults the environment may inject
    MaxFaults    \* and how many of them in one behaviour

AllFaults == {"nokey", "sigint", "ctrl", "denied", "connfail", "dataclosed", "senderr", "full", "open", "disk",
              "decompress"}

ASSUME ConstantsAssumption ==
    /\ NumStreams \in Nat \ {0}
    /\ NumFiles \in Nat /\ NumFiles >= NumStreams
    /\ MaxBlocks \in Nat /\ IntBits \in Nat \ {0}
    /\ MaxRetry \in Nat /\ ReadyWaits \in Nat /\ DoneWaits \in Nat
    /\ FaultKinds \subseteq AllFaults /\ MaxFaults \in Nat

VARIABLES
    size,      \* blocks of each listed file, Skipped if it is not queued
    name,      \* its base name: the first listed file that has the same one
    \* client: main thread and IperfFileTransfer
    pc, waits,
    sigint,    \* stop_signal_value is SIGINT
    apiDone,   \* IperfBatsApi's is_stopped_
    ioAt,      \* the IO thread: idle, after storing SIGINT, waiting for streams_mutex_
    state,     \* state_
    stopped,   \* is_stopped_
    stopper,   \* the thread inside Stop, ...
    stopAt,    \* ... and what it does next
    listed,    \* streams_ holds the streams
    queue,     \* pending_files_
    \* client: FileStream of each stream
    conn,      \* its connection: is_connected, and whether stream is null
    retry,     \* retry_cnt
    writable,  \* is_writable
    isDone,    \* is_done
    allAcked,  \* all_acked
    sendErr,   \* has_err_in_send
    thr,       \* where its transfer thread is
    cur, pos,  \* the file it sends and the blocks of it taken so far
    \* the connections
    ctrl,      \* control channel: how far request and response have got
    full,      \* the send buffer of the data connection is full
    wire,      \* blocks in flight on the data connection
    ackDue,    \* something was sent since the last ALL_DATA_ACKED
    \* server
    rPhase,    \* nowhere, test_tbl_, dying_tests, erased
    rState,    \* state_
    rGranted,  \* the request was accepted: data_chn_listener_ listens
    rClosed,   \* the control channel is closed here
    rFiles,    \* test_config_.num_files
    rAccepted, \* streams_: accepted connections <<stream, attempt>>
    rReleased, \* accepted connections whose stream was released by Stop
    rOpen,     \* the file file_writer of each stream was created for, or NoFile
    rWriter,   \* that file_writer: null, good, never opened, or with badbit set
    rCopy,     \* what is stored under each name: the first k blocks of f, or Spoilt
    rComplete, \* files reported as received and counted
    rGot,      \* history: blocks of each file handed to HandleReceivedFileData
    rFaulty,   \* history: files whose writing met an error
    \* environment
    faults,
    crashed    \* why the client process died: "no", or the null or stale object

mainVars == <<pc, waits, sigint, apiDone, ioAt>>
fileVars == <<size, name, queue>>
stopVars == <<stopped, stopper, stopAt>>
testVars == <<fileVars, state, stopVars, listed>>
flagVars == <<writable, isDone, allAcked, sendErr>>
thrVars  == <<thr, cur, pos>>
netVars  == <<full, wire, ackDue>>
copyVars == <<rOpen, rWriter, rCopy, rComplete, rGot, rFaulty>>
recvVars == <<rPhase, rState, rGranted, rClosed, rFiles, rAccepted, rReleased, copyVars>>
vars == <<mainVars, testVars, conn, retry, flagVars, thrVars, ctrl, netVars, recvVars, faults, crashed>>

Streams == 1..NumStreams
Files == 1..NumFiles
Attempts == 0..MaxRetry
NoFile == 0
Skipped == -1
Spoilt == <<NoFile, 0>>

(* What is sent: block blk of a file, the first of which is flagged syn    *)
(* and carries the file's meta data.                                       *)
Block == [file : Files, blk : 1..MaxBlocks, fin : BOOLEAN]

ClientTypeOK ==
    /\ size \in [Files -> -1..MaxBlocks] /\ name \in [Files -> Files]
    /\ pc \in {"start", "ready", "loop", "wait", "stop", "join", "end"}
    /\ waits \in 0..(ReadyWaits + DoneWaits)
    /\ sigint \in BOOLEAN /\ apiDone \in BOOLEAN /\ ioAt \in {"idle", "signal", "blocked"}
    /\ stopped \in BOOLEAN /\ listed \in BOOLEAN
    /\ state \in {"NONE", "EXCHANGE_PARAMETERS", "DONE"}
    /\ stopper \in {"none", "main", "io"} /\ stopAt \in {"out", "store", "lock", "join"}
    /\ queue \subseteq Files
    /\ faults \in 0..MaxFaults /\ crashed \in {"no", "null", "stale"}

StreamTypeOK ==
    /\ conn \in [Streams -> {"none", "connecting", "up", "null"}]
    /\ retry \in [Streams -> Attempts]
    /\ writable \in [Streams -> BOOLEAN] /\ isDone \in [Streams -> BOOLEAN]
    /\ allAcked \in [Streams -> BOOLEAN] /\ sendErr \in [Streams -> BOOLEAN]
    /\ thr \in [Streams -> {"off", "fetch", "read", "wait", "send", "retry", "exit"}]
    /\ cur \in [Streams -> Files \cup {NoFile}] /\ pos \in [Streams -> 0..MaxBlocks]

NetTypeOK ==
    /\ ctrl \in {"none", "connecting", "request", "ok", "denied", "open", "broken", "closed"}
    /\ full \in [Streams -> BOOLEAN] /\ ackDue \in [Streams -> BOOLEAN]
    /\ wire \in [Streams -> Seq(Block)]

ServerTypeOK ==
    /\ rPhase \in {"none", "table", "dying", "gone"} /\ rState \in {"NONE", "DONE"}
    /\ rGranted \in BOOLEAN /\ rClosed \in BOOLEAN /\ rFiles \in 0..NumFiles
    /\ rAccepted \subseteq Streams \X Attempts /\ rReleased \subseteq Streams \X Attempts
    /\ rOpen \in [Streams -> Files \cup {NoFile}]
    /\ rWriter \in [Streams -> {"null", "good", "unopened", "bad"}]
    /\ rCopy \in [Files -> (Files \cup {NoFile}) \X (0..MaxBlocks)]
    /\ rComplete \subseteq Files /\ rGot \in [Files -> 0..MaxBlocks] /\ rFaulty \subseteq Files

TypeOK == ClientTypeOK /\ StreamTypeOK /\ NetTypeOK /\ ServerTypeOK

(* The constructor of the sender queues every listed file it has not seen  *)
(* before and can read, in the order of the list.  Files only leave the    *)
(* queue, at its head: it is the set of the ones that are left, and its    *)
(* head the first of them.                                                 *)
Queued == {f \in Files : size[f] # Skipped}
IsHead(f) == f \in queue /\ \A g \in queue : f <= g

Init ==
    /\ size \in [Files -> -1..MaxBlocks]
    /\ name \in [Files -> Files] /\ \A f \in Files : name[f] <= f
    /\ pc = "start" /\ waits = 0 /\ sigint = FALSE /\ apiDone = FALSE /\ ioAt = "idle"
    /\ state = "NONE" /\ stopped = FALSE /\ stopper = "none" /\ stopAt = "out" /\ listed = FALSE
    /\ queue = Queued
    /\ conn = [s \in Streams |-> "none"] /\ retry = [s \in Streams |-> 0]
    /\ writable = [s \in Streams |-> TRUE] /\ isDone = [s \in Streams |-> FALSE]
    /\ allAcked = [s \in Streams |-> FALSE] /\ sendErr = [s \in Streams |-> FALSE]
    /\ thr = [s \in Streams |-> "off"] /\ cur = [s \in Streams |-> NoFile]
    /\ pos = [s \in Streams |-> 0]
    /\ ctrl = "none"
    /\ full = [s \in Streams |-> FALSE] /\ wire = [s \in Streams |-> <<>>]
    /\ ackDue = [s \in Streams |-> FALSE]
    /\ rPhase = "none" /\ rState = "NONE" /\ rGranted = FALSE /\ rClosed = FALSE
    /\ rFiles = 0 /\ rAccepted = {} /\ rReleased = {}
    /\ rOpen = [s \in Streams |-> NoFile] /\ rWriter = [s \in Streams |-> "null"]
    /\ rCopy = [n \in Files |-> Spoilt] /\ rComplete = {}
    /\ rGot = [f \in Files |-> 0] /\ rFaulty = {}
    /\ faults = 0 /\ crashed = "no"

-----------------------------------------------------------------------------
(* Building blocks.                                                        *)

Alive == pc # "end" /\ crashed = "no"
IOFree == Alive /\ stopper # "io" /\ ioAt = "idle"
Unlocked == stopAt # "join"

Fault(kind) ==
    /\ kind \in FaultKinds
    /\ faults < MaxFaults
    /\ faults' = faults + 1

(* Stop: only the first call does anything.  Its steps are the exchange of *)
(* is_stopped_, ...                                                        *)
BeginStop(who) ==
    \/ stopped /\ UNCHANGED stopVars
    \/ ~stopped /\ stopped' = TRUE /\ stopper' = who /\ stopAt' = "store"

IsConnected(s) == conn[s] \in {"up", "null"}
IsInActive(s) == IsConnected(s) /\ state # "DONE"

IsStreamReady ==
    \/ state = "DONE" /\ ~listed
    \/ listed /\ \A s \in Streams : IsConnected(s)

StreamFinished(s) == sendErr[s] \/ (isDone[s] /\ allAcked[s])
IsStreamDone ==
    \/ state = "DONE" /\ ~listed
    \/ listed /\ \A s \in Streams : StreamFinished(s)

(* Mutant: the length is one block short.                                  *)
TotalFileLength_OneShort(f) == size[f] - 1

(* const int total_file_length = cur_file.file_sz                          *)
AsInt(n) ==
    LET m == n % 2^IntBits
    IN  IF m >= 2^(IntBits - 1) THEN m - 2^IntBits ELSE m
TotalFileLength(f) == AsInt(size[f])

-----------------------------------------------------------------------------
(* Client, main thread: RunTest and EnterSenderIntervalLoop.               *)

Start ==
    /\ pc = "start" /\ Alive
    /\ pc' = "ready"
    /\ \/ ctrl' = "connecting" /\ UNCHANGED faults
       \/ Fault("nokey") /\ UNCHANGED ctrl
    /\ UNCHANGED <<waits, sigint, apiDone, ioAt, testVars, conn, retry, flagVars, thrVars, netVars, recvVars, crashed>>

(* Giving up returns from RunTest and from main, without StopAll.          *)
WaitReady ==
    /\ pc = "ready" /\ Alive /\ Unlocked
    /\ \/ /\ IsStreamReady \/ sigint
          /\ pc' = "loop" /\ waits' = 0
       \/ /\ ~IsStreamReady /\ ~sigint
          /\ IF waits + 1 > ReadyWaits
             THEN pc' = "end" /\ waits' = 0
             ELSE pc' = "ready" /\ waits' = waits + 1
    /\ UNCHANGED <<sigint, apiDone, ioAt, testVars, conn, retry, flagVars, thrVars, ctrl, netVars, recvVars, faults, crashed>>

(* The sending loop ends on TestFinishState, which is IsStreamDone and     *)
(* marks the transfer as done; there is no time limit.                     *)
SenderInterval ==
    /\ pc = "loop" /\ Alive
    /\ \/ sigint /\ pc' = "wait" /\ UNCHANGED state
       \/ ~sigint /\ Unlocked /\ IsStreamDone /\ pc' = "wait" /\ state' = "DONE"
    /\ UNCHANGED <<waits, sigint, apiDone, ioAt, fileVars, stopVars, listed, conn, retry, flagVars, thrVars,
                   ctrl, netVars, recvVars, faults, crashed>>

WaitDone ==
    /\ pc = "wait" /\ Alive /\ (sigint \/ Unlocked)
    /\ IF sigint \/ (state = "DONE" /\ IsStreamDone) \/ waits >= DoneWaits
       THEN pc' = "stop" /\ UNCHANGED waits
       ELSE pc' = "wait" /\ waits' = waits + 1
    /\ UNCHANGED <<sigint, apiDone, ioAt, testVars, conn, retry, flagVars, thrVars, ctrl, netVars, recvVars, faults, crashed>>

(* Either is_stopped_ may be set already, by StopAll or Stop in the IO     *)
(* thread; then nothing is left to do here.                                *)
StopAll ==
    /\ pc = "stop" /\ Alive
    /\ pc' = "join"
    /\ \/ apiDone /\ UNCHANGED <<sigint, apiDone, stopVars>>
       \/ ~apiDone /\ apiDone' = TRUE /\ sigint' = TRUE /\ BeginStop("main")
    /\ UNCHANGED <<waits, ioAt, fileVars, state, listed, conn, retry, flagVars, thrVars, ctrl, netVars, recvVars,
                   faults, crashed>>

(* ... the store of TEST_DONE, which the IO thread may overwrite, ...      *)
StoreDone ==
    /\ Alive /\ stopAt = "store"
    /\ state' = "DONE" /\ stopAt' = "lock"
    /\ UNCHANGED <<mainVars, fileVars, stopped, stopper, listed, conn, retry, flagVars, thrVars, ctrl, netVars,
                   recvVars, faults, crashed>>

(* ... the lock of streams_mutex_, ...                                     *)
LockStreams ==
    /\ Alive /\ stopAt = "lock"
    /\ stopAt' = "join"
    /\ UNCHANGED <<mainVars, fileVars, state, stopped, stopper, listed, conn, retry, flagVars, thrVars, ctrl, netVars,
                   recvVars, faults, crashed>>

(* ... and the rest: every transfer thread is woken and joined, and the    *)
(* streams are released.  A connection that is still being set up is not   *)
(* cancelled.                                                              *)
EndStop ==
    /\ Alive /\ stopAt = "join"
    /\ \A s \in Streams : thr[s] \in {"off", "exit"}
    /\ stopper' = "none" /\ stopAt' = "out" /\ listed' = FALSE
    /\ ioAt' = IF ioAt = "blocked" THEN "idle" ELSE ioAt
    /\ conn' = [s \in Streams |-> IF conn[s] = "connecting" THEN "connecting" ELSE "none"]
    /\ writable' = [s \in Streams |-> FALSE]
    /\ isDone' = [s \in Streams |-> TRUE]
    /\ UNCHANGED <<pc, waits, sigint, apiDone, fileVars, state, stopped, retry, allAcked, sendErr, thrVars, ctrl,
                   netVars, recvVars, faults, crashed>>

StopSteps == StoreDone \/ LockStreams \/ EndStop

(* The main thread waits only for a Stop of its own.                       *)
Exit ==
    /\ pc = "join" /\ Alive /\ stopper # "main"
    /\ pc' = "end"
    /\ UNCHANGED <<waits, sigint, apiDone, ioAt, testVars, conn, retry, flagVars, thrVars, ctrl, netVars, recvVars,
                   faults, crashed>>

Main == Start \/ WaitReady \/ SenderInterval \/ WaitDone \/ StopAll \/ Exit

-----------------------------------------------------------------------------
(* Client, IO thread: control channel.                                     *)

(* SendFileTransferRequest.                                                *)
CtrlEstablished ==
    /\ IOFree /\ ctrl = "connecting"
    /\ ctrl' = "request" /\ state' = "EXCHANGE_PARAMETERS"
    /\ UNCHANGED <<mainVars, fileVars, stopVars, listed, conn, retry, flagVars, thrVars, netVars, recvVars, faults,
                   crashed>>

CtrlFailed ==
    /\ IOFree /\ ctrl = "connecting"
    /\ Fault("ctrl")
    /\ ctrl' = "closed"
    /\ UNCHANGED <<mainVars, testVars, conn, retry, flagVars, thrVars, netVars, recvVars, crashed>>

(* The request was granted: create the streams and connect them.           *)
OnRecvResponse ==
    /\ IOFree /\ Unlocked /\ ctrl = "ok"
    /\ ctrl' = "open" /\ listed' = TRUE
    /\ conn' = [s \in Streams |-> "connecting"]
    /\ writable' = [s \in Streams |-> TRUE] /\ isDone' = [s \in Streams |-> FALSE]
    /\ UNCHANGED <<mainVars, fileVars, state, stopVars, retry, allAcked, sendErr, thrVars, netVars, recvVars, faults,
                   crashed>>

(* The request was denied, or the control channel is closed:               *)
(* CloseCtrlChannel and Stop, in the IO thread.                            *)
CtrlClosed ==
    /\ IOFree /\ ctrl \in {"denied", "broken"}
    /\ ctrl' = "closed"
    /\ BeginStop("io")
    /\ UNCHANGED <<mainVars, fileVars, state, listed, conn, retry, flagVars, thrVars, netVars, recvVars, faults,
                   crashed>>

(* A callback that needs streams_mutex_ finds it held by the main thread,  *)
(* which is joining the transfer threads: the IO thread waits as well.     *)
IOBlocks ==
    /\ IOFree /\ stopper = "main" /\ stopAt = "join"
    /\ ctrl = "ok" \/ \E s \in Streams : conn[s] = "up" \/ (conn[s] = "connecting" /\ rGranted)
    /\ ioAt' = "blocked"
    /\ UNCHANGED <<pc, waits, sigint, apiDone, testVars, conn, retry, flagVars, thrVars, ctrl, netVars, recvVars,
                   faults, crashed>>

CtrlChannel == OnRecvResponse \/ CtrlClosed

-----------------------------------------------------------------------------
(* Client, IO thread: ConnectionCallback of the data connection of s.      *)

(* ESTABLISHED: store the connection and create the transfer thread; the   *)
(* entry of streams_ is used unchecked, and Stop may have released it.     *)
DataEstablished(s) ==
    /\ IOFree /\ Unlocked /\ conn[s] = "connecting" /\ rGranted
    /\ IF listed
       THEN /\ conn' = [conn EXCEPT ![s] = "up"]
            /\ thr' = [thr EXCEPT ![s] = "fetch"]
            /\ UNCHANGED crashed
       ELSE crashed' = "stale" /\ UNCHANGED <<conn, thr>>
    /\ UNCHANGED <<mainVars, testVars, retry, flagVars, cur, pos, ctrl, netVars, recvVars, faults>>

(* Mutant: the attempts are counted and not limited.                       *)
DataTimeout_NoLimit(s) ==
    /\ IOFree /\ conn[s] = "connecting" /\ listed
    /\ Fault("connfail")
    /\ retry' = [retry EXCEPT ![s] = @ + 1]
    /\ UNCHANGED <<conn, crashed, mainVars, testVars, flagVars, thrVars, ctrl, netVars, recvVars>>

(* TIMEOUT: connect again, three times; streams_.at throws once Stop has   *)
(* released the streams.                                                   *)
DataTimeout(s) ==
    /\ IOFree /\ conn[s] = "connecting"
    /\ Fault("connfail")
    /\ IF listed
       THEN /\ retry' = [retry EXCEPT ![s] = IF @ < MaxRetry THEN @ + 1 ELSE @]
            /\ conn' = [conn EXCEPT ![s] = IF retry[s] < MaxRetry THEN @ ELSE "none"]
            /\ UNCHANGED crashed
       ELSE crashed' = "stale" /\ UNCHANGED <<retry, conn>>
    /\ UNCHANGED <<mainVars, testVars, flagVars, thrVars, ctrl, netVars, recvVars>>

(* FAILED only prints.                                                     *)
DataFailed(s) ==
    /\ IOFree /\ conn[s] = "connecting"
    /\ Fault("connfail")
    /\ conn' = [conn EXCEPT ![s] = "none"]
    /\ UNCHANGED <<mainVars, testVars, retry, flagVars, thrVars, ctrl, netVars, recvVars, crashed>>

(* CLOSED and SHUTDOWN_BY_PEER clear stream and nothing else.              *)
DataClosed(s) ==
    /\ IOFree /\ Unlocked /\ listed /\ conn[s] = "up"
    /\ Fault("dataclosed")
    /\ conn' = [conn EXCEPT ![s] = "null"]
    /\ UNCHANGED <<mainVars, testVars, retry, flagVars, thrVars, ctrl, netVars, recvVars, crashed>>

SendDataError(s) ==
    /\ IOFree /\ conn[s] = "up" /\ ~sendErr[s]
    /\ Fault("senderr")
    /\ sendErr' = [sendErr EXCEPT ![s] = TRUE]
    /\ UNCHANGED <<mainVars, testVars, conn, retry, writable, isDone, allAcked, thrVars, ctrl, netVars, recvVars, crashed>>

(* The send buffer fills; BUFFER_FULL says so, WRITABLE ends it.           *)
Fill(s) ==
    /\ Alive /\ conn[s] = "up" /\ ~full[s]
    /\ Fault("full")
    /\ full' = [full EXCEPT ![s] = TRUE]
    /\ UNCHANGED <<mainVars, testVars, conn, retry, flagVars, thrVars, ctrl, wire, ackDue, recvVars, crashed>>

BufferFull(s) ==
    /\ IOFree /\ conn[s] = "up" /\ full[s] /\ writable[s]
    /\ writable' = [writable EXCEPT ![s] = FALSE]
    /\ UNCHANGED <<mainVars, testVars, conn, retry, isDone, allAcked, sendErr, thrVars, ctrl, netVars, recvVars,
                   faults, crashed>>

Writable(s) ==
    /\ IOFree /\ conn[s] = "up" /\ full[s] /\ ~writable[s]
    /\ full' = [full EXCEPT ![s] = FALSE]
    /\ writable' = [writable EXCEPT ![s] = TRUE]
    /\ UNCHANGED <<mainVars, testVars, conn, retry, isDone, allAcked, sendErr, thrVars, ctrl, wire, ackDue, recvVars,
                   faults, crashed>>

(* Mutant: the notification is believed before the last file is sent.      *)
AllDataAcked_Anytime(s) ==
    /\ IOFree /\ conn[s] = "up" /\ ackDue[s]
    /\ ackDue' = [ackDue EXCEPT ![s] = FALSE]
    /\ allAcked' = [allAcked EXCEPT ![s] = TRUE]
    /\ UNCHANGED <<mainVars, testVars, conn, retry, writable, isDone, sendErr, thrVars, ctrl, full, wire, recvVars,
                   faults, crashed>>

(* ALL_DATA_ACKED: the peer's transport has acked everything sent, which   *)
(* need not have reached the server's callback.  It is believed only after *)
(* the thread has set is_done.                                             *)
AllDataAcked(s) ==
    /\ IOFree /\ conn[s] = "up" /\ ackDue[s]
    /\ ackDue' = [ackDue EXCEPT ![s] = FALSE]
    /\ allAcked' = [allAcked EXCEPT ![s] = @ \/ isDone[s]]
    /\ UNCHANGED <<mainVars, testVars, conn, retry, writable, isDone, sendErr, thrVars, ctrl, full, wire, recvVars,
                   faults, crashed>>

ConnectionCallback(s) == BufferFull(s) \/ Writable(s) \/ AllDataAcked(s)

-----------------------------------------------------------------------------
(* Client, transfer thread of stream s.                                    *)

(* The head of the outer loop: fetch a file and open it; one that cannot   *)
(* be opened any more is passed over.                                      *)
FetchFile(s) ==
    /\ Alive /\ thr[s] = "fetch"
    /\ \/ /\ state = "DONE" \/ sendErr[s]
          /\ thr' = [thr EXCEPT ![s] = "exit"]
          /\ UNCHANGED <<size, isDone, queue, cur, pos, faults>>
       \/ /\ state # "DONE" /\ ~sendErr[s] /\ queue = {}
          /\ thr' = [thr EXCEPT ![s] = "exit"]
          /\ isDone' = [isDone EXCEPT ![s] = TRUE]
          /\ UNCHANGED <<size, queue, cur, pos, faults>>
       \/ \E f \in Files :
          /\ state # "DONE" /\ ~sendErr[s] /\ IsHead(f)
          /\ queue' = queue \ {f}
          /\ \/ /\ thr' = [thr EXCEPT ![s] = "read"]
                /\ cur' = [cur EXCEPT ![s] = f]
                /\ pos' = [pos EXCEPT ![s] = 0]
                /\ UNCHANGED <<size, faults>>
             \/ /\ Fault("open")
                /\ size' = [size EXCEPT ![f] = Skipped]
                /\ UNCHANGED <<thr, cur, pos>>
          /\ UNCHANGED isDone
    /\ UNCHANGED <<mainVars, name, state, stopVars, listed, conn, retry, writable, allAcked, sendErr, ctrl, netVars,
                   recvVars, crashed>>

(* The head of the inner loop: end of file, inactive, or an error.         *)
ReadBlock(s) ==
    /\ Alive /\ thr[s] = "read"
    /\ LET over == pos[s] >= size[cur[s]] \/ ~IsInActive(s) \/ sendErr[s]
       IN  thr' = [thr EXCEPT ![s] = IF over THEN "fetch" ELSE "wait"]
    /\ UNCHANGED <<mainVars, testVars, conn, retry, flagVars, cur, pos, ctrl, netVars, recvVars, faults, crashed>>

(* EmptyWait while not writable.                                           *)
WaitWritable(s) ==
    /\ Alive /\ thr[s] = "wait"
    /\ writable[s] \/ ~IsInActive(s) \/ sendErr[s]
    /\ thr' = [thr EXCEPT ![s] = "send"]
    /\ UNCHANGED <<mainVars, testVars, conn, retry, flagVars, cur, pos, ctrl, netVars, recvVars, faults, crashed>>

(* SendData, refused when the buffer is full; CLOSED may have cleared the  *)
(* pointer it is called through.                                           *)
SendBlock(s) ==
    /\ Alive /\ thr[s] = "send"
    /\ LET b == [file |-> cur[s], blk |-> pos[s] + 1, fin |-> pos[s] + 1 = TotalFileLength(cur[s])]
       IN  \/ /\ conn[s] = "up" /\ ~full[s]
              /\ wire' = [wire EXCEPT ![s] = Append(@, b)]
              /\ ackDue' = [ackDue EXCEPT ![s] = TRUE]
              /\ pos' = [pos EXCEPT ![s] = @ + 1]
              /\ thr' = [thr EXCEPT ![s] = "read"]
              /\ UNCHANGED crashed
           \/ /\ conn[s] = "up" /\ full[s]
              /\ thr' = [thr EXCEPT ![s] = "retry"]
              /\ UNCHANGED <<wire, ackDue, pos, crashed>>
           \/ /\ conn[s] = "null"
              /\ crashed' = "null"
              /\ UNCHANGED <<wire, ackDue, pos, thr>>
    /\ UNCHANGED <<mainVars, testVars, conn, retry, flagVars, cur, ctrl, full, recvVars, faults>>

(* Mutant: the loop that sends a refused block again does not look at the  *)
(* state of the test.                                                      *)
RetryBlock_Spins(s) ==
    /\ Alive /\ thr[s] = "retry"
    /\ \/ sendErr[s] /\ pos' = [pos EXCEPT ![s] = @ + 1] /\ thr' = [thr EXCEPT ![s] = "read"]
       \/ ~sendErr[s] /\ writable[s] /\ thr' = [thr EXCEPT ![s] = "send"] /\ UNCHANGED pos
    /\ UNCHANGED <<mainVars, testVars, conn, retry, flagVars, cur, ctrl, netVars, recvVars, faults, crashed>>

(* The retry loop after a refused SendData; giving up still counts the     *)
(* block as sent.                                                          *)
RetryBlock(s) ==
    /\ Alive /\ thr[s] = "retry"
    /\ \/ /\ ~IsInActive(s) \/ sendErr[s]
          /\ pos' = [pos EXCEPT ![s] = @ + 1]
          /\ thr' = [thr EXCEPT ![s] = "read"]
       \/ /\ IsInActive(s) /\ ~sendErr[s] /\ writable[s]
          /\ thr' = [thr EXCEPT ![s] = "send"] /\ UNCHANGED pos
    /\ UNCHANGED <<mainVars, testVars, conn, retry, flagVars, cur, ctrl, netVars, recvVars, faults, crashed>>

TransferThread(s) == FetchFile(s) \/ ReadBlock(s) \/ WaitWritable(s) \/ SendBlock(s) \/ RetryBlock(s)

-----------------------------------------------------------------------------
(* Server.                                                                 *)

(* The request creates the test; it is granted if there is disk space.     *)
HandleFileTransferRequest ==
    /\ ctrl = "request" /\ rPhase = "none"
    /\ rPhase' = "table"
    /\ \/ ctrl' = "ok" /\ rGranted' = TRUE /\ rFiles' = NumFiles /\ UNCHANGED faults
       \/ Fault("denied") /\ ctrl' = "denied" /\ UNCHANGED <<rGranted, rFiles>>
    /\ UNCHANGED <<mainVars, testVars, conn, retry, flagVars, thrVars, netVars, rState, rClosed, rAccepted,
                   rReleased, copyVars, crashed>>

(* CLOSED on the control channel: Stop, if the test is in test_tbl_.       *)
ReceiverCtrlClosed ==
    /\ rPhase # "none" /\ ~rClosed
    /\ ctrl \in {"broken", "closed"} \/ ~Alive
    /\ rClosed' = TRUE
    /\ IF rPhase = "table"
       THEN rState' = "DONE" /\ rReleased' = rReleased \cup rAccepted /\ rAccepted' = {}
       ELSE UNCHANGED <<rState, rReleased, rAccepted>>
    /\ UNCHANGED <<mainVars, testVars, conn, retry, flagVars, thrVars, ctrl, netVars, rPhase, rGranted, rFiles,
                   copyVars, faults, crashed>>

(* DataListenCallback; the listener's callback keeps the test alive.       *)
DataListenCallback(s, k) ==
    /\ rGranted /\ Alive /\ conn[s] # "none" /\ k <= retry[s]
    /\ <<s, k>> \notin rAccepted \cup rReleased
    /\ rAccepted' = rAccepted \cup {<<s, k>>}
    /\ UNCHANGED <<mainVars, testVars, conn, retry, flagVars, thrVars, ctrl, netVars, rPhase, rState, rGranted,
                   rClosed, rFiles, rReleased, copyVars, faults, crashed>>

(* What HandleReceivedFileData does with block b on stream s.  The first   *)
(* block of a file replaces file_writer, and the name it is opened by is   *)
(* the file's base name.                                                   *)
WriterFor(s, b) == IF b.blk = 1 THEN "good" ELSE rWriter[s]
Store(b, c) == rCopy' = [rCopy EXCEPT ![name[b.file]] = c]
Keeps(s, b, w) == rOpen' = [rOpen EXCEPT ![s] = b.file] /\ rWriter' = [rWriter EXCEPT ![s] = w]
Harmed(b) == rFaulty' = rFaulty \cup {b.file}

(* The file cannot be opened: the writer stays, although it is not open.   *)
OpenFails(s, b) ==
    /\ b.blk = 1 /\ Fault("disk")
    /\ Keeps(s, b, "unopened") /\ Harmed(b)
    /\ UNCHANGED <<rCopy, rComplete, rFiles, rState>>

(* The block is dropped, with the fin it may carry; opening the file has   *)
(* emptied the copy.                                                       *)
DecompressFails(s, b) ==
    /\ Fault("decompress")
    /\ Keeps(s, b, WriterFor(s, b)) /\ Harmed(b)
    /\ IF b.blk = 1 THEN Store(b, <<b.file, 0>>) ELSE UNCHANGED rCopy
    /\ UNCHANGED <<rComplete, rFiles, rState>>

(* badbit stays, so that the later blocks of the file, the one with fin    *)
(* too, are dropped here as well.                                          *)
WriteFails(s, b) ==
    /\ \/ WriterFor(s, b) = "good" /\ Fault("disk") /\ Store(b, Spoilt)
       \/ WriterFor(s, b) = "bad" /\ UNCHANGED <<rCopy, faults>>
    /\ Keeps(s, b, "bad") /\ Harmed(b)
    /\ UNCHANGED <<rComplete, rFiles, rState>>

(* write: through a writer that is not open it does nothing, and bad() is  *)
(* false.  What close returns is not looked at.                            *)
WriteData(s, b) ==
    \/ /\ WriterFor(s, b) = "good"
       /\ Store(b, IF b.blk = 1 \/ rCopy[name[b.file]] = <<b.file, b.blk - 1>> THEN <<b.file, b.blk>> ELSE Spoilt)
       /\ UNCHANGED <<rFaulty, faults>>
    \/ /\ WriterFor(s, b) = "good" /\ b.fin /\ Fault("disk")
       /\ Store(b, Spoilt) /\ Harmed(b)
    \/ /\ WriterFor(s, b) = "unopened"
       /\ UNCHANGED <<rCopy, rFaulty, faults>>

(* Mutant: a file is counted when it is opened and when it is closed.      *)
FinishFile_CountsSyn(s, b) ==
    /\ rOpen' = [rOpen EXCEPT ![s] = IF b.fin THEN NoFile ELSE b.file]
    /\ rWriter' = [rWriter EXCEPT ![s] = IF b.fin THEN "null" ELSE WriterFor(s, b)]
    /\ rComplete' = IF b.fin THEN rComplete \cup {b.file} ELSE rComplete
    /\ rFiles' = IF (b.fin \/ b.blk = 1) /\ rFiles > 0 THEN rFiles - 1 ELSE rFiles
    /\ rState' = IF b.fin /\ rFiles' = 0 THEN "DONE" ELSE rState

(* After the write: fin closes the file and counts it.                     *)
FinishFile(s, b) ==
    /\ rOpen' = [rOpen EXCEPT ![s] = IF b.fin THEN NoFile ELSE b.file]
    /\ rWriter' = [rWriter EXCEPT ![s] = IF b.fin THEN "null" ELSE WriterFor(s, b)]
    /\ rComplete' = IF b.fin THEN rComplete \cup {b.file} ELSE rComplete
    /\ rFiles' = IF b.fin /\ rFiles > 0 THEN rFiles - 1 ELSE rFiles
    /\ rState' = IF b.fin /\ rFiles' = 0 THEN "DONE" ELSE rState

WriteBlock(s, b) ==
    /\ b.blk = 1 \/ rOpen[s] = b.file
    /\ rGot' = [rGot EXCEPT ![b.file] = IF b.blk = 1 THEN 1 ELSE @ + 1]
    /\ OpenFails(s, b) \/ DecompressFails(s, b) \/ WriteFails(s, b) \/ (WriteData(s, b) /\ FinishFile(s, b))

(* DATA_RECEIVED: dropped when Stop has released the stream.               *)
HandleReceivedFileData(s) ==
    /\ wire[s] # <<>> /\ <<s, retry[s]>> \in rAccepted \cup rReleased
    /\ wire' = [wire EXCEPT ![s] = Tail(@)]
    /\ IF <<s, retry[s]>> \in rAccepted
       THEN WriteBlock(s, Head(wire[s]))
       ELSE UNCHANGED <<copyVars, rFiles, rState, faults>>
    /\ UNCHANGED <<mainVars, testVars, conn, retry, flagVars, thrVars, ctrl, full, ackDue, rPhase, rGranted,
                   rClosed, rAccepted, rReleased, crashed>>

(* IsStreamDone at the server.  Its role is ROLE_RECEIVER, so nothing is   *)
(* asked of a stream, and num_streams is the default 1, so one accepted    *)
(* stream is enough to make the test done.                                 *)
ReceiverStreamsDone ==
    \/ rState = "DONE" /\ rAccepted = {}
    \/ Cardinality(rAccepted) = 1

(* EnterReceiverIntervalLoop; a dying test is kept for a second at most.   *)
ReceiverInterval ==
    /\ \/ rPhase = "table" /\ ReceiverStreamsDone /\ rPhase' = "dying" /\ rState' = "DONE"
       \/ rPhase = "dying" /\ rPhase' = "gone" /\ UNCHANGED rState
    /\ UNCHANGED <<mainVars, testVars, conn, retry, flagVars, thrVars, ctrl, netVars, rGranted, rClosed, rFiles,
                   rAccepted, rReleased, copyVars, faults, crashed>>

Receiver ==
    \/ HandleFileTransferRequest \/ ReceiverCtrlClosed
    \/ \E s \in Streams : HandleReceivedFileData(s) \/ \E k \in Attempts : DataListenCallback(s, k)

-----------------------------------------------------------------------------
(* Environment.                                                            *)

(* The signal callback, in the IO thread, stores the signal, ...           *)
Interrupt ==
    /\ IOFree /\ ~sigint
    /\ Fault("sigint")
    /\ sigint' = TRUE /\ ioAt' = "signal"
    /\ UNCHANGED <<pc, waits, apiDone, testVars, conn, retry, flagVars, thrVars, ctrl, netVars, recvVars, crashed>>

(* ... and calls StopAll, which the main thread may have called by now.    *)
InterruptStops ==
    /\ Alive /\ ioAt = "signal"
    /\ ioAt' = "idle" /\ apiDone' = TRUE
    /\ \/ apiDone /\ UNCHANGED stopVars
       \/ ~apiDone /\ BeginStop("io")
    /\ UNCHANGED <<pc, waits, sigint, fileVars, state, listed, conn, retry, flagVars, thrVars, ctrl, netVars, recvVars,
                   faults, crashed>>

BreakCtrl ==
    /\ ctrl \in {"request", "ok", "denied", "open"}
    /\ Fault("ctrl")
    /\ ctrl' = "broken"
    /\ UNCHANGED <<mainVars, testVars, conn, retry, flagVars, thrVars, netVars, recvVars, crashed>>

Next ==
    \/ Main \/ StopSteps \/ InterruptStops \/ IOBlocks
    \/ CtrlChannel \/ CtrlEstablished \/ CtrlFailed
    \/ \E s \in Streams :
          \/ DataEstablished(s) \/ DataTimeout(s) \/ DataFailed(s) \/ DataClosed(s)
          \/ SendDataError(s) \/ Fill(s)
          \/ ConnectionCallback(s)
          \/ TransferThread(s)
    \/ Receiver \/ ReceiverInterval
    \/ Interrupt \/ BreakCtrl

Spec == Init /\ [][Next]_vars

(* The threads of both processes run, and the network delivers what was    *)
(* sent; nothing obliges a connection to come up or a fault to happen.     *)
Fairness ==
    /\ WF_vars(Main) /\ WF_vars(StopSteps) /\ WF_vars(InterruptStops)
    /\ WF_vars(CtrlChannel)
    /\ \A s \in Streams : WF_vars(ConnectionCallback(s)) /\ WF_vars(TransferThread(s))
    /\ WF_vars(Receiver) /\ WF_vars(ReceiverInterval)

FairSpec == Spec /\ Fairness

-----------------------------------------------------------------------------
(* Properties.                                                             *)

(* The transfer implements FileDelivery: whichever thread takes a file and *)
(* however often a block is refused and sent again, the server is handed   *)
(* each block of it once and in order; what it stores under a name changes *)
(* only then, and by what came before unless an error spoils it; and it    *)
(* counts a file once, at its last block.                                  *)
Delivery ==
    INSTANCE FileDelivery WITH
        granted <- rGranted, togo <- rFiles, got <- rGot, copy <- rCopy, complete <- rComplete, harmed <- rFaulty

DeliverySpec == Delivery!Spec

(* A file the server reports as received, whose writing met no error and   *)
(* whose base name no other listed file has, is stored with all its        *)
(* blocks and in order, in whatever way full buffers, send errors and a    *)
(* Stop have interrupted the threads that sent it and errors have hit the  *)
(* other files.                                                            *)
Sole(f) == \A g \in Files : name[g] = name[f] => g = f
Intact(f) == rCopy[name[f]] = <<f, size[f]>>
FileIntact == \A f \in rComplete : f \notin rFaulty /\ Sole(f) => Intact(f)

(* "All the files were received!": num_files reaches zero only when the    *)
(* last block of every file of the request has been handled, each file     *)
(* counted once; with the errors and the names FileIntact excepts they     *)
(* need not all be intact.                                                 *)
AllFilesReceived ==
    rGranted /\ rFiles = 0 => \A f \in Files : f \in rComplete /\ (f \notin rFaulty /\ Sole(f) => Intact(f))

(* A client that leaves its sending loop because every stream is done and  *)
(* acked has nothing left to send or to have acked: each readable file was *)
(* handed to the server up to its last block, or that block is among what  *)
(* the server's transport has acked and not yet delivered to its callback. *)
(* is_done, all_acked and the queue are set by three threads without a     *)
(* lock.  Excepted are an interrupt, a send error, and a server that was   *)
(* told to stop.                                                           *)
OnItsWay(f) == \E s \in Streams : \E i \in DOMAIN wire[s] : wire[s][i].file = f /\ wire[s][i].fin
FinishedMeansAcked ==
    pc = "wait" /\ listed /\ ~sigint /\ ~rClosed /\ (\A s \in Streams : ~sendErr[s]) =>
        /\ \A s \in Streams : ~ackDue[s]
        /\ \A f \in Files : size[f] <= 0 \/ rGot[f] = size[f] \/ OnItsWay(f)

(* Interrupting the client ends it: Stop, which joins the transfer threads *)
(* while it holds streams_mutex_, does not wait for ever.  Excepted is a   *)
(* Stop whose TEST_DONE was overwritten by the IO thread before it took    *)
(* the lock, so that it joins threads that were not told to end.           *)
JoinsUntold == stopAt = "join" /\ state # "DONE" /\ \E s \in Streams : thr[s] \notin {"off", "exit"}
InterruptEnds == sigint ~> (pc = "end" \/ crashed # "no" \/ JoinsUntold)

-----------------------------------------------------------------------------
(* What comments and logs of the code say and the code does not do.        *)

(* TestFinishState: "wait for the last ACK from server and exit then":     *)
(* without a fault a transfer of readable files with content comes to an   *)
(* end once its streams are connected.                                     *)
AllHaveContent == \A f \in Files : size[f] > 0
SenderFinishes == pc = "loop" /\ AllHaveContent ~> pc = "end"

(* ValidateClientConfig: no more streams than files, "since some streams   *)
(* will be idle": with enough files every stream gets one.                 *)
NoIdleStream == AllHaveContent => \A s \in Streams : isDone[s] /\ listed => cur[s] # NoFile

(* IsStreamDone: "has error or finished": the server retires a transfer    *)
(* when its streams are finished.                                          *)
RetiredMeansReceived ==
    rPhase = "dying" => rClosed \/ \A f \in Files : size[f] <= 0 \/ f \in rComplete

(* BATS_SEND_FLAG_FIN: "the last data to be sent of current connection".   *)
FinIsLast ==
    \A s \in Streams : \A i \in DOMAIN wire[s] : wire[s][i].fin => i = Len(wire[s])

(* file_length: "> PB": the block flagged fin is the last one of its file, *)
(* however long.                                                           *)
FinEndsFile ==
    \A s \in Streams : \A i \in DOMAIN wire[s] : wire[s][i].fin <=> wire[s][i].blk = size[wire[s][i].file]

(* SendData: returns false when the connection is closed, so a thread      *)
(* whose connection closes goes on to its checks.                          *)
NoNullStream == crashed # "null"

(* "finished receiving file": a file that is reported so is stored whole.  *)
ReportedMeansIntact == \A f \in rComplete : Intact(f)

(* Stop: "state_ = TestState::TEST_DONE" before the threads are joined:    *)
(* each of them has been told to end.                                      *)
JoinedAreTold == ~JoinsUntold

(* CLOSED: "unexpected stream id {} from callback": an event that comes    *)
(* after Stop has released the streams finds no stream, and is ignored.    *)
NoStaleStream == crashed # "stale"
=============================================================================

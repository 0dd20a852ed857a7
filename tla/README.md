# A TLA+ model of bats_iperf and the API examples

This directory holds TLA+ modules, TLC configurations and TLAPS proofs for the
programs of the repository: `bats_iperf` (`src/example/iperf-bats`), a
throughput tester and file sender that runs over the BATS transport library,
and the examples of its API in `src/example/simple`. The library itself is
closed source. The repository has only its headers (`src/include`), and the models
use a connection the way those headers and the program's callbacks describe it.

## 1. The system

| part | source | state it keeps | operations |
|---|---|---|---|
| Control plane of a test | `iperf_test.cc`, `iperf_test.h` | `state_`, `is_stopped_`, `test_streams_`, `is_ready_received_` | Start, SendTestParameters, HandleTestParameters, SendAck, HandleAckMessage, SendTestReady, HandleReadyMessage, SendTestSummary, HandleSummaryMessage, Stop, IsStreamReady, IsStreamDone, TestFinishState |
| Data stream | `iperf_stream.cc` | `state_`, `conn_state_`, `connect_retry_cnt_`, `is_writable_`, `has_err_in_send_`, sender and receiver reports, `last_grp_id_`, `recv_seq_recorder_` | connect and retry, StartSend and its thread, snapshots, SendFIN, UpdateReceived, OnReceivedFIN, GenReceiveSummary, Stop |
| File transfer | `iperf_file_transfer.cc` | `pending_files_`, `streams_` with `is_done`, `all_acked`, `is_writable`, `has_err_in_send`, and the receiver's open files | request and response, transfer thread, HandleReceivedFileData, Stop |
| Session driver | `iperf_bats_api.cc`, `iperf.cc` | `test_role_`, `user_input_config`, `stop_signal_value`, `is_ctrl_chn_connected_`, `test_tbl_`, `dying_tests` | InitFromArgs, RunTest, RunServer, EnterSenderIntervalLoop, EnterReceiverIntervalLoop, StopAll, the control channel callbacks |
| Parameters and reports | `iperf_common.h`, `iperf_common.cc` | `TestConfig`, interval and snapshot slots | Serialize, GetLastInterval, GetLastSnapshot |
| Simple examples | `bats_client_example.cc`, `bats_server_c_example.c`, `bats_server_example.cc` | `is_connected`, `is_connect_failed`, `is_writable`, `bats_connection`, `send_quota`; the server's handles and `is_stopped` | StartConnect, StartSend, ConnectionCallback; create, listen, echo, destroy |
| Sequence recorder | only its test, `seq_recorder_test.cc` | the numbers received | record, count a half-open range, reset |

**How the parts interact.** A client and a server share a control connection
(TCP: reliable and in order) and one data connection per stream. The client has
a main thread (`RunTest` and its loops), an IO thread that runs every callback,
and a sending or transfer thread per stream. The server has an IO thread and a
10 Hz loop (`EnterReceiverIntervalLoop`) that retires finished tests; it serves
several clients at a time, whose tests share its tables, one lock on them, one
connected flag and one data port. A
throughput test goes

    client: parameters -> server: ack -> client connects its data streams
    server: ready -> client: sending threads run -> time is up, streams STOP
    client: summary -> server: ack      (control connection)
    client: FIN -> server: FIN-ACK      (each reliable data connection)

The threads of a process share the objects above. Some fields are guarded by
`streams_mutex_`, `snapshot_mutex_` or a condition variable, most are plain or
atomic flags written by one thread and polled by another.

**What is hard here.** A store made after the message that provokes the answer;
flags read in one thread and set in another in the wrong order; Stop called
from two threads while a third one uses what it clears; the summary and the
FIN on two connections that overtake each other; UDP datagrams lost, repeated
or late around a colour change; full buffers at each of four retry loops; waits
that must be bounded; a server that must not keep, nor too early forget, a
test. `PROJECT.json` lists each of these under `hazards`, at its line.

## 2. The modules

| module | models | role |
|---|---|---|
| `IperfSession` | the state machine drawn in `iperf_test.h` | abstract specification: how the `state_` of both peers may move |
| `IperfTest` | control plane and session driver of one throughput test | detailed specification; implements `IperfSession` |
| `IperfStream` | the two `IperfStream` objects of one established data channel | data plane: numbering, colours, intervals, FIN, loss |
| `IperfFileTransfer` | a file transfer, client and server | its own control plane, transfer threads, writer; implements `FileDelivery` |
| `FileDelivery` | what a transfer does to the files of the server | abstract specification: how blocks are handed over, stored, spoilt and counted |
| `IperfServer` | one server and several clients | the tables of tests and the threads that meet there |
| `MCIperfServer` | | the ids and ports of an instance of `IperfServer` |
| `IperfSummary` | the summary message of several streams | layout, and finding one's way through it |
| `IperfArgs` | `InitFromArgs`, the validation, `main` | from a command line to a role and a test |
| `SimpleExample` | the simple client with a simple server | the API used at its smallest |
| `IperfTest_proofs` | | queue lemmas, type correctness |
| `IperfTestSession_proofs` | | the session invariant, the refinement of `IperfSession`, `SuccessIsMutual` |
| `IperfStream_proofs` | | markers, losses of intervals and of the whole test |
| `IperfFileTransfer_proofs` | | files are intact, counted and sent to their end; the refinement of `FileDelivery` |
| `IperfServer_proofs` | | clients keep to their own tests; walks are not cut |
| `IperfSummary_proofs` | | reports reach their streams |
| `IperfArgs_proofs` | | the role is the one asked for; what is accepted can run |
| `SimpleExample_proofs` | | the flag, the connection, the handles |

### IperfTest

State: the client's main thread is `pc` with its loop counters `waits` and
`ticks` (`passed_ticks_`) and its place `finAt` in the walk of `OnSentFinished`;
its IO thread is in the signal callback (`signalled`), in the walk of
`HandleReadyMessage` (`startAt`) or free; the client's test is `state`,
`stopped`, the thread that runs `Stop` (`stopper`) and what it does next
(`stopAt`), `listed` (whether `test_streams_` still holds the streams) and
`readyFlag`; each stream
has `strState`, `strConn`, `strRetry`, `strStopped`, `strErr` and the place
`thr` of its sending thread; the control connection is `sLink`, `rLink`,
`netUp` and the two queues; the server's test is `rState`, its table `rPhase`,
its accepted connections `rAccepted` and those of them that are DONE.

Actions: a callback is one action unless another thread can come between two
of its accesses to what they share. These are cut: `IperfTest::Stop`, in
whichever thread runs it (check of `is_stopped_`; store of TEST_DONE; Stop of
the streams; release of the list, with the stores of `~IperfStream`; join of
the sending threads); the signal callback (the store of the signal, then
`StopAll`); the ready signal (the check of `state_`, then one `StartSend` after
the other); `OnSentFinished` (for each stream the check of its state and the
store of STREAM_STOP); and `SendTestSummary`, *between* `SendData` and the store
to `state_`. The main thread is cut at each round of a loop as well, a sending
thread before each use of `data_conn_`. When the wait for the streams runs out,
`RunTest` returns without `StopAll`, and so does the model. A walk over a list
that Stop has swapped away, or a store into a stream it has released, is
undefined: the process dies or gets through. Kept as one step are
`HandleAckMessage` and the walks that only read (`TestFinishState`,
`SendTestSummary`), and the Stop and the destructor of all streams together:
the streams share nothing, so their order cannot be told. What a data channel
carries is reduced to the steps the
test depends on (first datagram, FIN, FIN-ACK).

Two lines are modelled as they are written, not as they were meant:
`IsStreamReady` assigns `is_ready_received_` (`= true &&`), and the serialised
parameters leave `num_streams` out, so the server's copy is 1.

Faults, at most `MaxFaults` of the kinds in `FaultKinds`: missing key files,
SIGINT, a broken or refused control connection, failed data connections, a
closed data connection, a send error, a server that is interrupted. A call
through a null `data_conn_` ends the client (`crashed`).

### IperfStream

The sender's main thread takes snapshots and ends the test, its sending thread
numbers and colours a datagram under the mutex, sends it and counts it
afterwards, its IO thread delivers events. On an unreliable protocol `net` is a
set: a datagram may be delivered in any order, again, or never. On a reliable
one the lowest number comes first. The receiver's IO thread counts, works out
an interval's loss when the colour changes, discards the numbers behind it
(`ResetSeqRecord`), and answers FIN. The summary is on another connection and
may come at any moment. The receiver's Stop does not close its connection, so
datagrams keep coming after it; a FIN among them is lost, or answered through
the null `data_conn_` (`rNull`). `rGot` is a history variable, the numbers that
really
arrived, against which the printed losses are compared. Bytes and datagrams
move together and are one counter; jitter, bit rates and the receiver's own
snapshots only feed what is printed.

### IperfFileTransfer

Client: request and response, `pending_files_` as the set of files left, which
the transfer threads share and take in order (files are numbered as they were
queued), each thread's steps fetch, read, wait until writable, send,
retry; `Stop`, which either thread runs, in steps: the check of `is_stopped_`,
the store of TEST_DONE, the lock of `streams_mutex_`, and the joins under it.
`CtrlEstablished` may overwrite TEST_DONE before the lock is taken. An event
that needs the lock while the main thread holds it blocks the IO thread
(`ioAt`). The signal callback is two steps as in `IperfTest`.

Server: creating the transfer, accepting connections, writing blocks,
retiring. A file is a number of blocks; its length is kept in `IntBits` bits, as
`total_file_length` is an `int`. `name` gives each file its base name, the same
one perhaps, and `rCopy` is what is stored under a name: the first blocks of a
file, or spoilt. `WriteBlock` has the error paths of `HandleReceivedFileData`:
a failed open leaves a writer that is not open, through which later writes do
nothing while the fin still counts; a failed decompression drops the block, and
the fin with it if it carries one; a failed write leaves badbit, so the rest of
the file is dropped; what `close` returns is not looked at. `rFaulty` is a
history variable: the files that met such an error.

Assumed of the library (marked external in the map): a data connection is
reliable and in order; `ALL_DATA_ACKED` is emitted once each time everything
sent so far is acknowledged *by the peer's transport*, whether or not the
server's callback has been handed it; a connection that was released delivers
no more events, but one still being set up is not cancelled by Stop. The content
of blocks is abstracted. The server is not interrupted in this module.

`FileDelivery` is what remains when the streams, the threads, the queue and the
connections are taken away: the request is granted once; a file is handed over
block by block from its beginning, each block once; a block is appended to what
is stored under the file's name, or an error harms the file, and only what is
stored under that name; a file is counted with its last block, and only a harmed
one may not be; a file that has vanished is passed over, but only if nothing of
it was handed over. It does not say that anything arrives: a transfer may stop.
The mapping takes `rGranted`, `rFiles`, `rGot`, `rCopy`, `rComplete` and
`rFaulty` for its variables.

### IperfServer

State: of each client what the server can see (`cli`, `ready`, `data` and its
two message queues); of the server the control connections with their user
contexts, the one flag `is_ctrl_chn_connected_`, `test_tbl_` and `dying_tests`
as sets, every test object (`state_`, `ctrl_chn_`, `is_stopped_`, its listener,
its streams), and the places of the threads. A test is named after the client
whose parameters created it; the id it is filed under is a constant `IdOf`, the
millisecond of the client's clock, so that equal ids can be asked about.

Actions: the callbacks of the IO thread are one step each, and are disabled
while another thread holds the lock they take. A round of the 10 Hz loop holds
`test_tbl_mutex_` but is cut where the callbacks that do not take it can come
between: at each test visited and on the way through that test's streams.
`StopAll` may be run by the IO thread (in the signal callback) or by the main
thread and
walks `test_tbl_` without the lock, one entry at a time. A listener that does
not get its port is modelled (`listens`), so the streams of one client can be
accepted by the test of another. Stop does not close the accepted connections:
a FIN that comes after it is lost, or is answered through the null `data_conn_`
(`nullConn`). `cut`, `crashed` and `nullConn` mark undefined behaviour;
nothing is followed beyond it.

### IperfSummary

The body of the message is a sequence of words of eight bytes, four for a
report; `pos` is the read pointer of `HandleSummaryMessage`, `over` the highest
word written or read. Streams are accepted, and learn their identifier from
their first datagram, in any order before the summary is handled: that is on
other connections. The buffer has `BodyWords` words behind its header: what the
sender writes past its end is not sent, and may kill the process (`crash`); what
the receiver reads past it is any word of `Behind`. The bit rate is sent in
hundredths and scaled back, and
loses a decimal; the number of streams is a `uint8_t`.

### IperfArgs

A command line is read a word at a time, chosen from a small set in which one
word stands for all options treated alike. `InitFromArgs` is an action per kind
of option, then one for what follows the loop (roles, validation, creating the
test, and opening the log file, which throws if its name has no directory);
`main` and the checks at the head of `RunTest` and `RunServer` follow.
`Meaning` says, without any loop, what a whole line asks for.

### SimpleExample

The client's `main` and its callback thread share three atomic flags and two
plain fields without a lock; `ESTABLISHED` is cut into its assignments, since
`StartSend` polls between them. `TIMEOUT` falls to the default branch and sets no
flag. `WRITABLE` and `BUFFER_FULL` follow the buffer,
late. The server in C is cut at every creation and destruction of a handle, with
its error paths; the one in C++ is the instance with `EchoServer = FALSE`.
Events of a connection (external) come in the order the headers describe, at
any time.

## 3. What TLC checks

Every configuration sets `CHECK_DEADLOCK FALSE`: both processes of a model
really end.

| run | instance | properties |
|---|---|---|
| `IperfTest_faults` | 1 stream, BRTP, any 2 faults | `TypeOK`, `NoThreadRestart`, `MessageHasTest`, `SessionSpec`, `SenderTerminates`, `ReceiverCleansUp` |
| `IperfTest_streams` | 2 streams, BRTP, any 1 fault | `SessionInv`, `SuccessIsMutual` |
| `IperfTest_udp` | 1 stream, UDP, any 2 faults | `SenderTerminates` |
| `IperfStream_reliable` | BRTP, 2 datagrams, 2 snapshots, buffers fill, send error, peer stops | `TypeOK`, `ReliableIntervalsLoseNothing`, `StopLeadsToDone` |
| `IperfStream_udp` | UDP, 4 datagrams, 2 snapshots | `IntervalLossExact`, `SummaryLossBounded` |
| `IperfFileTransfer_faults` | 1 stream, 1 file of up to 2 blocks, any 2 faults | `TypeOK`, `FileIntact`, `InterruptEnds` |
| `IperfFileTransfer_streams` | 2 streams, 2 files of up to 2 blocks, any base names, 1 full buffer, vanished file or failing disk | `FileIntact`, `AllFilesReceived`, `FinishedMeansAcked`, `DeliverySpec` |
| `IperfServer_clients` | 2 clients, distinct ids, one data port, SIGINT while at most 1 client came | `TypeOK`, `OwnTest`, `MessagesFindTheirTest`, `NoWalkCut`, `AbandonedTestsGo`, `InterruptEndsServer` |
| `IperfSummary_streams` | 3 streams, unreliable, a buffer for 2 reports and a word, 2 byte counts, 2 rates | `TypeOK`, `ReportsInStepArrive` |
| `IperfArgs_lines` | every line of up to 8 words out of 12 options and operands, 4 values | `TypeOK`, `RoleAsAsked`, `AcceptedIsRunnable` |
| `SimpleExample_echo` | 3 attempts, quota 1, the server in C | `TypeOK`, `ReadyWhenConnected`, `HandlesNest`, `ConnectionStable`, `FailureIsRetried`, `ClientEnds`, `ServerFollowsClient` |

What they say:

- `SessionSpec`: the control plane implements `IperfSession`, so neither peer
  gets ahead of the other: data is sent only to a receiver that joined, the
  receiver is done only after the sender stopped its streams, and the sender is
  acked only after the receiver is done. Beyond the drawing, `IperfSession` lets a
  sender that is DONE go back to an exchange, because the code does so
  (`IperfTest_done_terminal`); the property excludes neither that nor a lost ack.
- `NoThreadRestart`: no ready signal reaches a sender whose threads were
  started (assigning to a running `std::thread` ends the process). It holds
  although the comparison in `DataListenCallback` is against the wrong number,
  because it is an equality and the list only grows.
- `MessageHasTest`: `HandleControlMessage` never finds a null `received_test`.
- `SuccessIsMutual`: without a fault, a client that leaves its last loop as DONE
  is right about the server: it has the summary and, on a reliable protocol,
  every FIN (on the others a stream is DONE with the summary).
- `SenderTerminates`, `ReceiverCleansUp`: `RunTest` comes to its end,
  also when OnSentFinished or the ready signal store into a stream that Stop ended
  between their check and their store, since `~IperfStream` stores DONE itself
  before it joins; a test
  leaves the server's tables, except in the one case the property names.
- `ReliableIntervalsLoseNothing`, `IntervalLossExact`: counting outside the mutex
  and guessing colour changes by a threshold never makes a printed interval loss
  wrong. This is about `OnReceivedIntervalData`; `PrintLastInterval` prints the rest
  of a test with a loss of 0.
- `SummaryLossBounded`: the UDP summary never claims more than was not seen.
- `StopLeadsToDone`: stop, FIN, FIN-ACK, DONE goes through full buffers.
- `FileIntact`: a file the server reports as received is whole, if its own
  writing met no error and no other listed file has its base name. Errors of the
  other files, full buffers, send errors and Stop do not matter.
- `AllFilesReceived`: `num_files` reaches zero only when the last block of every
  file was handled, each counted once.
- `FinishedMeansAcked`: a client that ends by its streams' `is_done` and
  `all_acked` waits for no ack, and each file it could read was handed to the
  server's callback to its end, or its last block is in the server's transport.
  It does not mean that the server has written it: that is not what an ack says.
- `DeliverySpec`: the transfer implements `FileDelivery`, whichever stream takes
  which file and whatever is refused, retried or given up on the way.
- `InterruptEnds`: Stop joins threads under a lock, and returns. Excepted is a
  Stop whose TEST_DONE was overwritten before it took the lock (`JoinsUntold`),
  which `IperfFileTransfer_crash` shows to happen.
- `OwnTest`, `MessagesFindTheirTest`: as long as the ids differ, a client keeps
  its own test, and every message finds one, whatever the other client does:
  finish, vanish, or have its streams accepted by the wrong test.
- `NoWalkCut`: until SIGINT the one lock is enough, no thread walks a list
  another empties under it. `AbandonedTestsGo`: a test whose client vanished
  leaves both tables, except in the one case the property names.
  `InterruptEndsServer`: whichever thread comes to `StopAll` first.
- `ReportsInStepArrive`: up to the first stream that is not known yet every
  report inside the buffer reaches its own stream, whatever the order of the list;
  nothing behind the sender's reports is read.
- `RoleAsAsked`: options in any order mean the same; `AcceptedIsRunnable`: what
  `InitFromArgs` accepts is not refused later, and a transfer has a file
  for every stream.
- `ConnectionStable`, `ReadyWhenConnected`: the retry in
  `StartSend` and the callback never have two connections open, never swap the
  one in use, and set the flag last. `HandlesNest`: the error paths leak nothing.
  `FailureIsRetried`, `ClientEnds`, `ServerFollowsClient`: both programs get on and end.

**Bounds.** Counters of the code (10000 rounds, 15 rounds, 10 ticks, 3 retries)
are constants; the runs use 1, which has a round that waits and one that gives
up. One interval boundary inside the test (`TestTicks` 1, `IntervalTicks` 2) is
enough for the dead-stream exit. Two streams are the least that tell "one" from
"all", and one retry gives a stream two connections at the server. Two faults
cover a failure while handling another. Four UDP datagrams with two snapshots
give two colour changes, each of which can be lost or come late. `Threshold` is
0 where the code has 128: with a handful of datagrams 128 would hide every
change, and 0 accepts the most changes, so it is the harder case for the loss
count. Two blocks are the least file with a first and a last block; an empty and
a skipped file are among the sizes, and equal base names among the names. Two
clients are the least that can take
something from each other; SIGINT is explored with one client, since `StopAll`
over a table that other clients fill is what `IperfServer_stopall` shows to go
wrong. `DyingTicks` 0 still has one round in `dying_tests`. Three streams have
one before, at and behind an unknown one; the buffer of `IperfSummary_streams` is
scaled to hold two of three reports and a word, as the real one holds 33 and a
word, so that its end lies inside the summary. Eight words hold the longest line
that matters (`-c`, `-f` with two files, `-P 2`) with one option to spare, and a
value `-s` that
is not the option; `0`, a log file in a directory and `-i` are left to the
configurations of section 4. Three attempts
have a first, a retry, and a retry after a retry; `MaxQuota` stands for the
largest `uint64_t`.

**Fairness.** Weak fairness of the main thread, of each sending or transfer
thread, of the callbacks that deliver what has arrived, of the server's loop,
and of a full buffer draining: the operating system runs runnable threads and
a live connection delivers. Nothing is assumed of the environment: no
connection has to come up, no fault has to happen, no user has to stop a test.
In `IperfServer` the IO thread is strongly fair, because it waits for a lock
that the loop takes again and again: `std::mutex` promises no fairness, but the
loop holds it for microseconds out of every 100 ms. In `SimpleExample` the four
threads are weakly fair, which includes that the library answers an attempt (up
or failed), that a buffer drains and says so, and that a server learns when its
client has gone; that a connection stays up, or that data arrives, is not.

## 4. Where the code and its comments disagree

One run is expected to be violated: `IperfFileTransfer_finishes`. The last
`ALL_DATA_ACKED` comes before `is_done` is set and is ignored, so a transfer
without a fault never ends, although the sending loop is to "wait for the last
ACK from server and exit then" (`iperf_file_transfer.cc:265`).

### Further disagreements

Met while modelling, and kept as configurations that show them
(`tlc -config <name>.cfg <module>`, with `MCIperfServer` as the module of
`IperfServer_*`; TLC reports the named property violated):

| configuration | property | what happens |
|---|---|---|
| `IperfTest_ack_lost` | `AckEndsExchange` | the ack of the summary is handled between `SendData` and the store of `TEST_EXCHANGE_REPORTS`, and is dropped; the client waits out its limit (`iperf_test.cc:348`) |
| `IperfTest_null_conn` | `NoNullDataConn` | Stop clears `data_conn_` while the sending thread is about to send on it (`iperf_stream.cc:639`) |
| `IperfTest_quiet` | `QuietAfterSummary` | a late ready signal starts the streams after the test was finished and summarised, since `IsStreamReady` does not wait for it (`iperf_test.cc:433`) |
| `IperfTest_ready_all` | `ReadyMeansAllAccepted` | with two streams the ready signal ("all the test streams are ready") is sent for the first (`iperf_test.cc:123`) |
| `IperfTest_done_terminal` | `DoneIsTerminal` | a test "mark[ed] as done" goes back to exchanging reports (`iperf_test.cc:348`) |
| `IperfTest_stopped_streams` | `StoppedHoldsNoStream` | a connection accepted after Stop keeps the stopped test in `test_tbl_` (`iperf_test.cc:119`) |
| `IperfTest_torn_down` | `TornDownStreamsStopped` | a finished test is erased without Stop, so the reference cycle of its streams stays (`iperf_bats_api.cc:530`) |
| `IperfStream_lost` | `ReliableSummaryLosesNothing` | a reliable stream is reported with a lost datagram, because the FIN-ACK and a datagram given up on are counted as sent (`iperf_stream.cc:436`) |
| `IperfStream_full` | `WaitsWhileFull` | `BUFFER_FULL` stores true into `is_writable_`; the sending thread spins (`iperf_stream.cc:581`) |
| `IperfStream_disorder` | `NoFalseDisorder` | if the first datagram was given up on, the FIN has number 1 and the server exits (`iperf_stream.cc:764`) |
| `IperfStream_total` | `SummaryNamesTotal` | FIN before the summary: the report names a total of 1 (`iperf_stream.cc:850`) |
| `IperfStream_finack_blocks` | `FinAckReturns` | `OnReceivedFIN` waits, in the IO thread, for an event of the IO thread (`iperf_stream.cc:829`) |
| `IperfFileTransfer_idle` | `NoIdleStream` | an early stream takes all files; the other never gets an ack (`iperf_file_transfer.cc:729`) |
| `IperfFileTransfer_retired` | `RetiredMeansReceived` | the server retires a transfer as soon as a stream is accepted (`iperf_file_transfer.cc:247`) |
| `IperfFileTransfer_fin_last` | `FinIsLast` | the next file follows the FIN flag on the same connection (`iperf_file_transfer.cc:883`) |
| `IperfFileTransfer_length` | `FinEndsFile` | a length that does not fit an `int` is never reached (`iperf_file_transfer.cc:780`) |
| `IperfFileTransfer_crash` | `NoNullStream` | CLOSED clears the connection a transfer thread is using (`iperf_file_transfer.cc:305`) |
| `IperfFileTransfer_crash` | `NoStaleStream` | ESTABLISHED after Stop indexes the emptied `streams_` (`iperf_file_transfer.cc:324`) |
| `IperfFileTransfer_crash` | `ReportedMeansIntact` | a file is reported as received, and counted, although it could not be opened, or shares its base name with another (`iperf_file_transfer.cc:625`, `:746`) |
| `IperfFileTransfer_crash` | `JoinedAreTold` | TEST_DONE of Stop is overwritten by `SendFileTransferRequest` before Stop has the lock (`iperf_file_transfer.cc:177`, `:509`), and the threads it joins were not told to end; `tlc -continue` reports all four |
| `IperfServer_finack` | `FinAckBeforeTeardown` | when another client leaves it clears the one flag `is_ctrl_chn_connected_`, and the wait that is to "avoid to close connection before sender receives the FIN ack" is skipped for the others (`iperf_bats_api.cc:526`) |
| `IperfServer_stopall` | `StopAllWalkSafe` | `StopAll`, which "may invoked by multiple threads", walks `test_tbl_` without the lock while the IO thread changes it (`iperf_bats_api.cc:587`) |
| `IperfServer_stopall` | `NoNullFinAck` | a FIN after Stop is answered through the cleared `data_conn_`, although a terminated stream has "no need to send FIN-ACK" (`iperf_stream.cc:827`); `tlc -continue` reports both |
| `IperfServer_same_id` | `MessagesFindTheirTest` | two clients that start in the same millisecond share an id; the second test replaces the first, and a summary finds none (`iperf_bats_api.cc:363`) |
| `IperfServer_port` | `OwnStreams` | the streams of the second client are accepted by the first one's listener (`iperf_test.cc:316`) |
| `IperfSummary_unknown` | `KnownGetTheirReport` | an identifier that matches no stream is skipped without its report, and the reports behind it are read from the wrong place (`iperf_test.cc:257`) |
| `IperfSummary_overflow` | `InsideBuffer` | the 1100 byte buffer has room for 33 reports; `-P 34` writes behind it (`iperf_test.cc:331`) |
| `IperfArgs_missing_value` | `ValuesAreThere` | `-t` or `-i` as the last word reads the null pointer behind `argv` (`iperf_bats_api.cc:150`) |
| `IperfArgs_missing_value` | `LogFileIsUsed` | `-l name` without a directory: `create_directories` of the empty parent path throws, and nothing catches it (`iperf_bats_api.cc:235`); `tlc -continue` reports both |
| `IperfArgs_zero` | `TestHasStream`, `IntervalHasTicks` | `-P 0` is accepted (`iperf_bats_api.cc:423`), and so is `-i 0`, by which `TestFinishState` computes a remainder (`iperf_test.cc:515`); TLC stops at one of the two, and shows the other without it |
| `SimpleExample_echo_heard` | `EchoHeard` | the client waits a second "for receiving echo back data", not for the data (`bats_client_example.cc:172`) |
| `SimpleExample_waiting` | `WaitingTries` | TIMEOUT, and a CLOSED of a connection that was up between two polls, set no `is_connect_failed`: the client waits for ever (`bats_client_example.cc:42`, `:71`) |
| `SimpleExample_late_callback` | `NoLateCallback` | `bats_sender` is destroyed before `protocol`, whose callbacks use it (`bats_client_example.cc:167`) |

Remarks without a model: the signal callback captures a `shared_ptr` to the
object that holds it, so `IperfBatsApi` is never destroyed; `-r` (reverse) is
parsed and serialised but nothing reads it.

## 5. What is proved

Every theorem holds for every value of the constants that meets the assumption
of its module: any number of streams, clients, files, datagrams, retries and
ticks, any set and number of faults. The assumptions say that the numbers are
naturals, that there is at least one stream, that a protocol is one of the code,
that an interval has a tick, that a transfer has a file for every stream (which
`InitFromArgs` checks), and that the sets are not empty. Two
hypotheses that the code does not establish are stated in the theorems that need
them, not among the assumptions:

- `LengthFits` (`IperfFileTransfer_proofs`): the `int` that holds a file's length
  holds it. `IperfFileTransfer_length` shows what happens otherwise.
- `IdsDiffer` (`IperfServer_proofs`): no two clients took the same millisecond
  as their id. `IperfServer_same_id` shows what happens otherwise.

The theorems of a module are consequences of an inductive invariant, which was
checked with TLC before it was proved.

**The control plane** (`IperfTest_proofs`, `IperfTestSession_proofs`).

- `TypeCorrect`: `TypeOK` bounds `ticks` by `TestTicks + 2`, which is not
  inductive: `TicksInv` adds that the clock stands at 0 before the sending loop
  and is at most `TestTicks + 1` in it.
- `SessionInvariant`: `SessionInv` has six parts. *Opening*: before the
  sender's end of the control connection is up nothing has happened anywhere.
  *Receiver*: the place of the server's test in its tables fits its state, and
  a receiver that is DONE over an open connection has a sender past its summary.
  *Request*: parameters are in flight only to a receiver in NONE, a summary only
  to one in START, each once. *Ack*: a sender that acted on the first ack has a
  receiver that joined, and a further ack in flight means DONE. *Stop*: a thread that is in Stop
  or in the signal callback has a reason, a signal or a closed connection.
  *Ready*: the signal is in flight at most once, only while no sending thread has
  started, and only after the first connection was accepted; once its handler
  walks the streams, those it has not come to have no thread. The parts need each other:
  that the summary finds its test in the table needs Ack (the sender got to its
  summary, so it was acked, so the receiver joined) and Receiver (it has not
  been DONE, since that needs the summary).
- `ThreadsStartOnce`, `MessagesFindTheirTest`: `NoThreadRestart` and
  `MessageHasTest`, from it. The first rests on a cardinality argument: the set
  of accepted connections is finite, and becomes a singleton only from empty.
- `ImplementsSession`: `Spec => SessionSpec`. Each action maps to one session
  step or to a stutter: the establishing callback to SendParameters,
  `HandleTestParameters` to StartReceiving, `HandleAckMessage` to StartSending
  or AckReport, the end of the walk of `OnSentFinished` to Finish, the store in `SendTestSummary` to
  Report, `HandleSummaryMessage` to ReceiveReport, leaving a loop early or a
  signal to Quit, and so on.
- `EndsAgree`: `SuccessIsMutual`, also for the protocols without a FIN. As long as
  nothing failed and the main thread has not turned to its end (`Undisturbed`),
  the connection is up and the test not stopped (`LinkInv`), a stream whose
  thread runs is connected, so it meets neither an error nor a null
  `data_conn_`, and a stream that is DONE was either stopped before it had
  connected or has its FIN-ACK (`StreamAt`). The first of these never gets past
  `IsStreamReady`. That the state DONE is the server's too is the Ack part of
  `SessionInv`.

**The data stream** (`IperfStream_proofs`). `TypeCorrect`, `MarkersAreBehind`,
`NoLossOnReliable`, `LossIsExact` and `SummaryLossIsBounded`, for every threshold
and every way to lose, delay and repeat datagrams. The difficulty is that the
receiver sees one bit of colour and may miss a change. `Behind(g, e)` says of a
colour `g` that came with an interval ending at `e`: whatever of the other colour
the sender still numbers names an interval that starts at `e` or later.
`ColourInv` says so of every datagram that may still arrive (`Live`: in flight or
in the thread's hands) and orders them pairwise, `RecordInv` of the change the
receiver saw last; so the record is never cut above the start of an interval to
come. `CompleteInv` (reliable): below a datagram in flight all numbers have
arrived or are in flight, and a datagram is given up only when none but the FIN
follows. `CountInv` (unreliable): the counter is at least the number of distinct
datagrams. Proving it showed that the type of `rCount`, `rLost` and `rPeer` was
bounded too tightly for unreliable protocols, where a repeated datagram counts
again; they are naturals now.

**The file transfer** (`IperfFileTransfer_proofs`). `TypeCorrect` for any
lengths; `FilesAreIntact`, `CountIsExact` and `DoneIsAcked` under
`LengthFits`. Parts of the invariant: the life of a stream (`LifeInv`); the block
in a thread's hands, and every block in flight, follows its predecessor in
flight or the last one handed over (`ThreadsInv`, `BlocksInv`); a file belongs to
one stream, and what is queued comes after what was taken (`OwnInv`); nothing of
a file is handed over before its first block has been sent (`FreshInv`); nothing
of a complete file is still to come (`CompleteInv`); `num_files` is the number of
files not complete (`CountInv`); a file without errors and with a name of its own
is stored as far as it was handed over, and a writer that is not good has an
error behind it (`CopyInv`); undisturbed, every file is queued, handed over to
its end, being sent, or has its last block in flight (`DeliverInv`); `is_done`
and `all_acked` mean an exited thread, an empty queue and no ack to wait for
(`DoneInv`). Steps of the threads and of the writer are grouped by what they do
to the data (`DataStep`: takes a file, passes over it, sends, gives up, writes,
drops).
`ImplementsDelivery`: `Spec => (LengthFits => DeliverySpec)`. Accepting the
request maps to Grant, `FetchFile` on a file that has vanished to PassOver,
handling a block to Extend, Close or Miss, everything else to a stutter. That
the block handled is the next one of its file, the last one exactly when it has
the FIN flag, and not of a counted file is the invariant above.

**The server** (`IperfServer_proofs`). `TypeCorrect` and `WalksAreNotCut` for
any ids, from `BaseInv`: outside its rounds the loop holds nothing, and
parameters are the first message of a client, so its test is created once.
`ClientsHaveTheirOwnTest` and `NoMessageWithoutTest` under `IdsDiffer`, from
`ServerInv`, which says of each client what its connection (`ChannelInv`), the
state of its test (`TestInv`) and an ack under way (`AckInv`) say of each other.

**The others.** `IperfSummary_proofs`: `TypeCorrect`, `ReportsReachTheirStreams`,
for any number of streams, also beyond 255, where the count wraps, and any size
of the buffer: what is said is about the reports inside it.
`SimpleExample_proofs`: `TypeCorrect`, `FlagIsAPromise`,
`ConnectionIsStable`, `HandlesAreNested`; only the newest attempt can be open
(`LinkInv`), the callback is about it (`CallbackInv`), and the flag is raised
last (`ConnectedInv`). `IperfArgs_proofs`, for
command lines of any length: `TypeCorrect`; `AcceptedRuns`, since between the
validation and the second check nothing changes the role, the files or the test;
and `RoleIsAsked`. There `Meaning` speaks of the whole line, and whether a word is
an option or a value depends on all words before it (`IsValue` is a recursive
function). What the proof needs of it is that `IsValue` of a word does not change
when the line grows; instead of an induction, it takes the least position where
it would (the naturals are well-founded) and finds none. `ParsedInv` then says of
the words read so far what they have set.

Only model-checked:

- the liveness properties (`SenderTerminates`, `ReceiverCleansUp`,
  `StopLeadsToDone`, `InterruptEnds`, `AbandonedTestsGo`, `InterruptEndsServer`,
  `FailureIsRetried`, `ClientEnds`, `ServerFollowsClient`): the prover has no
  reasoning about fairness;
- that 2^31 is where `LengthFits` ends: the prover knows nothing of powers, and
  `AsInt` is evaluated by TLC only.

## 6. What is not modelled

- All printing, logging (but for the directory of the log file) and progress
  bars; the formatting of numbers and addresses.
- Jitter, bit rates and the validation of the payload: floating point that only
  feeds what is printed. `IperfSummary` takes a rate as any number.
- Compression: a wrapper around a library; only that decompressing may fail is
  modelled. The `.sha256sum` file, which nothing reads back.
- The file extension table (`bats_file.h`), which nothing includes, and the
  generated version header.
- The BATS library behind its headers, and the sequence recorder, of which the
  repository has only the test: both are used as the code uses them.
- The client's `HandleAckMessage` and its read-only walks over `test_streams_` are
  one step each of `IperfTest`; a walk is cut only at the server.
- File transfers of several clients at one server: `IperfServer` has throughput
  tests only, whose life in the tables is the same.

## 7. Where it stands

Every component with logic of its own has a module. Every invariant, every
action property and both refinements that a run checks are theorems, for all
values of the constants (so they are not checked again in every run); liveness
is left to TLC. What could be added:

1. File transfers of several clients at one server, in the tables of
   `IperfServer`.
2. The configurations of section 4 as runs that pass, each as its code is
   corrected.

----------------------- MODULE IperfFileTransfer_proofs -----------------------
(***************************************************************************)
(* What a file transfer guarantees for any number of streams, files,       *)
(* blocks, retries and faults: a file that the server reports as received, *)
(* that met no error and shares its name with none, is stored whole; the   *)
(* server's count of files is exact; a client that finds its streams done  *)
(* has had every file it could read acked up to its last block; and the    *)
(* transfer implements FileDelivery.                                       *)
(***************************************************************************)
EXTENDS IperfFileTransfer, FiniteSetTheorems, TLAPS

USE DEF fileVars, stopVars, copyVars

(* The int that holds a file's length is wide enough for every file.       *)
LengthFits == \A n \in -1..MaxBlocks : AsInt(n) = n

Opened == ctrl \in {"open", "broken", "closed"}
Active(s) == thr[s] \in {"fetch", "read", "wait", "send", "retry"}
InFile(s) == thr[s] \in {"read", "wait", "send", "retry"}
Doomed(s) == state = "DONE" \/ sendErr[s]
Held(s) == <<s, retry[s]>> \notin rReleased

(* The life of a stream: the response creates it, its connection creates   *)
(* its thread, and Stop releases it after the thread has exited.           *)
LifeOf(s) ==
    /\ thr[s] # "off" => conn[s] # "connecting" /\ Opened
    /\ conn[s] # "none" => Opened
    /\ conn[s] \in {"up", "null"} => listed /\ thr[s] # "off"
    /\ Active(s) => conn[s] \in {"up", "null"}
    /\ thr[s] = "off" => wire[s] = <<>> /\ cur[s] = NoFile
LifeInv ==
    /\ pc = "start" => ctrl = "none"
    /\ listed => Opened
    /\ \A s \in Streams : LifeOf(s)

(* The thread has the file that follows what is in flight.  Before a block *)
(* that is not the first comes the one before it: in flight, or as the     *)
(* last one written to the open file.                                      *)
ThreadAt(s) ==
    /\ InFile(s) => cur[s] \in Files
    /\ thr[s] \in {"wait", "send", "retry"} => pos[s] < size[cur[s]]
    /\ InFile(s) /\ (thr[s] = "read" => ~Doomed(s)) /\ pos[s] > 0 =>
          IF wire[s] = <<>>
          THEN Held(s) /\ rOpen[s] = cur[s] => rGot[cur[s]] = pos[s]
          ELSE wire[s][Len(wire[s])].file = cur[s] /\ wire[s][Len(wire[s])].blk = pos[s]
BlockAt(s, i) ==
    LET b == wire[s][i]
    IN  /\ b.blk <= size[b.file]
        /\ LengthFits => (b.fin <=> b.blk = size[b.file])
        /\ b.file < cur[s] \/ (b.file = cur[s] /\ b.blk <= pos[s])
        /\ i > 1 /\ b.blk > 1 => wire[s][i - 1].file = b.file /\ wire[s][i - 1].blk = b.blk - 1
        /\ i = 1 /\ b.blk > 1 /\ Held(s) /\ rOpen[s] = b.file => rGot[b.file] = b.blk - 1
        /\ \A j \in DOMAIN wire[s] : i < j =>
              b.file < wire[s][j].file \/ (b.file = wire[s][j].file /\ b.blk < wire[s][j].blk)
ThreadsInv == \A s \in Streams : ThreadAt(s)
BlocksInv == \A s \in Streams : \A i \in DOMAIN wire[s] : BlockAt(s, i)

(* A file is sent by one stream: it has left the queue, which is taken in  *)
(* the order of the files, and no other stream has it.                     *)
Apart(s, t) ==
    /\ cur[s] = cur[t] => cur[s] = NoFile
    /\ \A i \in DOMAIN wire[s] : wire[s][i].file # cur[t]
    /\ \A i \in DOMAIN wire[s] : \A j \in DOMAIN wire[t] : wire[s][i].file # wire[t][j].file
OwnInv ==
    /\ \A s \in Streams : \A g \in queue : cur[s] < g
    /\ \A s, t \in Streams : s # t => Apart(s, t)

(* Nothing of a complete file is still to come.                            *)
CompleteAt(f) ==
    /\ rGot[f] = size[f] /\ rGot[f] > 0
    /\ f \notin queue
    /\ \A s \in Streams : cur[s] = f => pos[s] >= size[f]
    /\ \A s \in Streams : \A i \in DOMAIN wire[s] : wire[s][i].file # f
CompleteInv == \A f \in rComplete : CompleteAt(f)

(* The server counts the files down as it completes them.                  *)
CountInv ==
    /\ ~rGranted => rComplete = {} /\ rAccepted = {}
    /\ rPhase = "none" => ~rGranted
    /\ rAccepted \cap rReleased = {}
    /\ LengthFits /\ rGranted => rFiles = NumFiles - Cardinality(rComplete)

(* Nothing of a file has reached the server before its first block does:   *)
(* while it is queued, while the thread that took it has sent nothing of   *)
(* it, and while its first block is in flight.                             *)
FreshQueue == \A f \in queue : rGot[f] = 0
FreshFile(s) == cur[s] \in Files /\ pos[s] = 0 => rGot[cur[s]] = 0
FreshBlock(s, i) == wire[s][i].blk = 1 => rGot[wire[s][i].file] = 0
FreshInv ==
    /\ FreshQueue
    /\ \A s \in Streams : FreshFile(s)
    /\ \A s \in Streams : \A i \in DOMAIN wire[s] : FreshBlock(s, i)

(* A file without errors and with a name of its own is stored as far as it *)
(* was received, and a writer that is not good has an error behind it.     *)
StoredAt(f) == f \notin rFaulty /\ Sole(f) /\ rGot[f] > 0 => rCopy[name[f]] = <<f, rGot[f]>>
WriterAt(s) == rOpen[s] \in Files \ rFaulty => rWriter[s] = "good"
CopyInv == (\A f \in Files : StoredAt(f)) /\ (\A s \in Streams : WriterAt(s))

(* A file that has left the queue and not come to its end at the server is *)
(* being sent, or its last block is in flight, unless a thread that was    *)
(* told to give up did so, and such a thread does not set is_done.         *)
Sending(s, f) ==
    \/ cur[s] = f /\ InFile(s) /\ pos[s] < size[f]
    \/ \E i \in DOMAIN wire[s] : wire[s][i].file = f /\ wire[s][i].fin
Quits(s) == thr[s] # "off" /\ Doomed(s) /\ ~isDone[s]
Cared(f) == size[f] <= 0 \/ f \in queue \/ rGot[f] = size[f] \/ \E s \in Streams : Sending(s, f)
DeliverInv ==
    /\ LengthFits /\ listed /\ ~rClosed => (\A f \in Files : Cared(f)) \/ (\E s \in Streams : Quits(s))
    /\ ~Opened => \A f \in Files : size[f] <= 0 \/ f \in queue
    /\ rReleased # {} => rClosed

(* What is_done and all_acked mean, and when the state is DONE.            *)
FinishedAt(s) ==
    /\ listed /\ isDone[s] => thr[s] = "exit" /\ queue = {}
    /\ listed /\ allAcked[s] => isDone[s] /\ ~ackDue[s]
    /\ ~Opened => ~allAcked[s]
StopInv ==
    /\ stopAt # "out" => stopped
    /\ ioAt = "signal" => sigint
    /\ state = "DONE" /\ pc \in {"start", "ready", "loop"} => stopped
    /\ stopped /\ ~sigint => ctrl = "closed"
    /\ pc = "wait" /\ ~sigint /\ ~listed => ctrl = "closed"
Received(f) == size[f] <= 0 \/ rGot[f] = size[f] \/ OnItsWay(f)
DoneInv ==
    /\ StopInv
    /\ \A s \in Streams : FinishedAt(s)
    /\ pc = "wait" /\ listed /\ ~sigint /\ (\A s \in Streams : ~sendErr[s]) =>
          /\ \A s \in Streams : allAcked[s]
          /\ LengthFits /\ ~rClosed => \A f \in Files : Received(f)

BaseInv == TypeOK /\ LifeInv /\ ThreadsInv /\ BlocksInv /\ OwnInv /\ FreshInv
Inv == BaseInv /\ CopyInv /\ (LengthFits => CompleteInv) /\ CountInv /\ DeliverInv /\ DoneInv

-----------------------------------------------------------------------------
(* Sequences: a block is appended to be sent and taken off to be received. *)

LEMMA Appended ==
  ASSUME NEW S, NEW q \in Seq(S), NEW b \in S
  PROVE  /\ Append(q, b) \in Seq(S) /\ Append(q, b) # <<>>
         /\ Len(q) \in Nat /\ Len(Append(q, b)) = Len(q) + 1
         /\ DOMAIN Append(q, b) = 1..(Len(q) + 1) /\ DOMAIN q = 1..Len(q)
         /\ \A i \in DOMAIN q : Append(q, b)[i] = q[i]
         /\ Append(q, b)[Len(q) + 1] = b
  OBVIOUS

LEMMA Elements ==
  ASSUME NEW S, NEW q \in Seq(S)
  PROVE  /\ Len(q) \in Nat /\ DOMAIN q = 1..Len(q) /\ \A i \in DOMAIN q : q[i] \in S
         /\ q = <<>> <=> Len(q) = 0
  OBVIOUS

LEMMA Taken ==
  ASSUME NEW S, NEW q \in Seq(S), q # <<>>
  PROVE  /\ Head(q) \in S /\ Head(q) = q[1] /\ Tail(q) \in Seq(S)
         /\ Len(q) \in Nat /\ Len(q) >= 1 /\ Len(Tail(q)) = Len(q) - 1
         /\ DOMAIN q = 1..Len(q) /\ DOMAIN Tail(q) = 1..(Len(q) - 1)
         /\ \A i \in DOMAIN Tail(q) : Tail(q)[i] = q[i + 1]
         /\ Tail(q) = <<>> <=> Len(q) = 1
  <1>1. /\ Head(q) \in S /\ Head(q) = q[1] /\ Tail(q) \in Seq(S)
        /\ Len(q) \in Nat /\ Len(q) >= 1 /\ Len(Tail(q)) = Len(q) - 1
        /\ DOMAIN q = 1..Len(q) /\ DOMAIN Tail(q) = 1..(Len(q) - 1)
        /\ \A i \in DOMAIN Tail(q) : Tail(q)[i] = q[i + 1]
    OBVIOUS
  <1>2. Tail(q) = <<>> <=> Len(Tail(q)) = 0
    BY <1>1, Elements, Zenon
  <1> QED
    BY <1>1, <1>2

LEMMA BlockType ==
  ASSUME NEW b \in Block
  PROVE  b.file \in Files /\ b.blk \in 1..MaxBlocks /\ b.fin \in BOOLEAN
         /\ b.file \in Nat /\ b.blk \in Nat
  BY ConstantsAssumption DEF Block, Files

(* Types of what is compared.                                              *)
LEMMA StreamType ==
  ASSUME TypeOK, NEW s \in Streams
  PROVE  /\ cur[s] \in Nat /\ pos[s] \in Nat /\ cur[s] \in Files \cup {NoFile} /\ pos[s] \in 0..MaxBlocks
         /\ wire[s] \in Seq(Block) /\ Len(wire[s]) \in Nat /\ DOMAIN wire[s] = 1..Len(wire[s])
         /\ wire[s] = <<>> <=> Len(wire[s]) = 0
         /\ \A i \in DOMAIN wire[s] : wire[s][i] \in Block
         /\ \A i \in DOMAIN wire[s] : wire[s][i].file \in Files /\ wire[s][i].file \in Nat /\ wire[s][i].file # NoFile
                                      /\ wire[s][i].blk \in Nat /\ wire[s][i].fin \in BOOLEAN
  <1>1. /\ cur[s] \in Nat /\ pos[s] \in Nat /\ cur[s] \in Files \cup {NoFile} /\ pos[s] \in 0..MaxBlocks
    BY ConstantsAssumption DEF TypeOK, StreamTypeOK, Files, NoFile
  <1>2. wire[s] \in Seq(Block)
    BY DEF TypeOK, NetTypeOK
  <1>3. /\ Len(wire[s]) \in Nat /\ DOMAIN wire[s] = 1..Len(wire[s])
        /\ wire[s] = <<>> <=> Len(wire[s]) = 0
        /\ \A i \in DOMAIN wire[s] : wire[s][i] \in Block
    BY <1>2, Elements
  <1>4. \A i \in DOMAIN wire[s] : wire[s][i].file \in Files /\ wire[s][i].file \in Nat
                                  /\ wire[s][i].blk \in Nat /\ wire[s][i].fin \in BOOLEAN
    BY <1>3, BlockType
  <1>5. \A f \in Files : f # NoFile
    BY ConstantsAssumption DEF Files, NoFile
  <1> QED
    BY <1>1, <1>2, <1>3, <1>4, <1>5

LEMMA FileType ==
  ASSUME TypeOK, NEW f \in Files
  PROVE  size[f] \in -1..MaxBlocks /\ size[f] \in Int /\ rGot[f] \in Nat /\ f \in Nat /\ f # NoFile
  BY ConstantsAssumption DEF TypeOK, ClientTypeOK, ServerTypeOK, Files, NoFile

-----------------------------------------------------------------------------
(* Types.                                                                  *)

clientVars == <<mainVars, testVars, faults, crashed>>
streamVars == <<conn, retry, writable, isDone, allAcked, sendErr, thr, cur, pos>>
channelVars == <<ctrl, full, wire, ackDue>>

LEMMA TypeFrame ==
  ASSUME TypeOK
  PROVE  /\ UNCHANGED clientVars => ClientTypeOK'
         /\ UNCHANGED streamVars => StreamTypeOK'
         /\ UNCHANGED channelVars => NetTypeOK'
         /\ UNCHANGED recvVars => ServerTypeOK'
  <1>1. UNCHANGED clientVars => ClientTypeOK'
    BY DEF TypeOK, ClientTypeOK, clientVars, mainVars, testVars
  <1>2. UNCHANGED streamVars => StreamTypeOK'
    BY DEF TypeOK, StreamTypeOK, streamVars
  <1>3. UNCHANGED channelVars => NetTypeOK'
    BY DEF TypeOK, NetTypeOK, channelVars
  <1>4. UNCHANGED recvVars => ServerTypeOK'
    BY DEF TypeOK, ServerTypeOK, recvVars
  <1> QED
    BY <1>1, <1>2, <1>3, <1>4

LEMMA FaultType ==
  ASSUME TypeOK, NEW k, Fault(k)
  PROVE  faults' \in 0..MaxFaults
  BY ConstantsAssumption DEF TypeOK, ClientTypeOK, Fault

(* The steps of the client's main and IO thread and of the control channel *)
(* leave the transfer threads, the data connections and the server alone,  *)
(* and TEST_DONE is only overwritten before the request is sent.           *)
ControlStep ==
    \/ Main \/ StopSteps \/ InterruptStops \/ IOBlocks
    \/ CtrlChannel \/ CtrlEstablished \/ CtrlFailed \/ Interrupt \/ BreakCtrl

LEMMA ControlFrame ==
  ASSUME ControlStep
  PROVE  UNCHANGED <<fileVars, retry, allAcked, sendErr, thrVars, netVars, recvVars>>
  <1>1. CASE Main
    BY <1>1 DEF Main, Start, WaitReady, SenderInterval, WaitDone, StopAll, Exit, testVars, flagVars
  <1>2. CASE StopSteps \/ InterruptStops \/ IOBlocks
    BY <1>2 DEF StopSteps, StoreDone, LockStreams, EndStop, InterruptStops, IOBlocks, testVars, flagVars
  <1>3. CASE CtrlChannel \/ CtrlEstablished \/ CtrlFailed \/ Interrupt \/ BreakCtrl
    BY <1>3 DEF CtrlChannel, OnRecvResponse, CtrlClosed, CtrlEstablished, CtrlFailed, Interrupt, BreakCtrl,
       testVars, flagVars
  <1> QED
    BY <1>1, <1>2, <1>3 DEF ControlStep

LEMMA DoneStays ==
  ASSUME ControlStep, state = "DONE", ctrl # "connecting"
  PROVE  state' = "DONE"
  <1>1. CASE Main
    BY <1>1 DEF Main, Start, WaitReady, SenderInterval, WaitDone, StopAll, Exit, testVars
  <1>2. CASE StopSteps \/ InterruptStops \/ IOBlocks
    BY <1>2 DEF StopSteps, StoreDone, LockStreams, EndStop, InterruptStops, IOBlocks, testVars
  <1>3. CASE CtrlChannel \/ CtrlEstablished \/ CtrlFailed \/ Interrupt \/ BreakCtrl
    BY <1>3 DEF CtrlChannel, OnRecvResponse, CtrlClosed, CtrlEstablished, CtrlFailed, Interrupt, BreakCtrl, testVars
  <1> QED
    BY <1>1, <1>2, <1>3 DEF ControlStep

LEMMA InitType ==
  ASSUME Init
  PROVE  TypeOK
  <1>1. ClientTypeOK
    <2>1. size \in [Files -> -1..MaxBlocks] /\ name \in [Files -> Files] /\ queue \subseteq Files
      BY DEF Init, Queued
    <2>2. waits \in 0..(ReadyWaits + DoneWaits) /\ faults \in 0..MaxFaults
      BY ConstantsAssumption DEF Init
    <2> QED
      BY <2>1, <2>2 DEF Init, ClientTypeOK
  <1>2. StreamTypeOK
    BY ConstantsAssumption DEF Init, StreamTypeOK, Attempts
  <1>3. NetTypeOK
    BY DEF Init, NetTypeOK
  <1>4. ServerTypeOK
    <2>1. rFiles \in 0..NumFiles /\ rGot \in [Files -> 0..MaxBlocks]
      BY ConstantsAssumption DEF Init
    <2>2. rAccepted \subseteq Streams \X Attempts /\ rReleased \subseteq Streams \X Attempts /\ rComplete \subseteq Files
          /\ rOpen \in [Streams -> Files \cup {NoFile}] /\ rFaulty \subseteq Files
          /\ rWriter \in [Streams -> {"null", "good", "unopened", "bad"}]
      BY DEF Init
    <2>3. rCopy \in [Files -> (Files \cup {NoFile}) \X (0..MaxBlocks)]
      <3>1. Spoilt \in (Files \cup {NoFile}) \X (0..MaxBlocks)
        BY ConstantsAssumption DEF Spoilt
      <3> QED
        BY <3>1 DEF Init
    <2> QED
      BY <2>1, <2>2, <2>3 DEF Init, ServerTypeOK
  <1> QED
    BY <1>1, <1>2, <1>3, <1>4 DEF TypeOK


LEMMA ClientTypeStep ==
  ASSUME TypeOK, Next
  PROVE  ClientTypeOK'
  <1> USE DEF mainVars, testVars
  <1>1. CASE Main
    <2>1. CASE Start
      BY <2>1, FaultType, ConstantsAssumption DEF Start, TypeOK, ClientTypeOK
    <2>2. CASE WaitReady
      BY <2>2, ConstantsAssumption DEF WaitReady, TypeOK, ClientTypeOK
    <2>3. CASE SenderInterval
      BY <2>3 DEF SenderInterval, TypeOK, ClientTypeOK
    <2>5. CASE StopAll
      BY <2>5 DEF StopAll, BeginStop, TypeOK, ClientTypeOK
    <2>6. CASE Exit
      BY <2>6 DEF Exit, TypeOK, ClientTypeOK
    <2>4. CASE WaitDone
      BY <2>4, ConstantsAssumption DEF WaitDone, TypeOK, ClientTypeOK
    <2> QED
      BY <1>1, <2>1, <2>2, <2>3, <2>4, <2>5, <2>6 DEF Main
  <1>2. CASE StopSteps \/ InterruptStops \/ IOBlocks
    <2>1. CASE StoreDone
      BY <2>1 DEF StoreDone, TypeOK, ClientTypeOK
    <2>2. CASE LockStreams
      BY <2>2 DEF LockStreams, TypeOK, ClientTypeOK
    <2>3. CASE EndStop
      BY <2>3 DEF EndStop, TypeOK, ClientTypeOK
    <2>4. CASE InterruptStops
      <3>1. /\ ioAt' = "idle" /\ apiDone' = TRUE
            /\ UNCHANGED <<pc, waits, sigint, fileVars, state, listed, conn, retry, flagVars, thrVars, faults, crashed>>
        BY <2>4 DEF InterruptStops
      <3>2. UNCHANGED stopVars \/ BeginStop("io")
        BY <2>4 DEF InterruptStops
      <3>3. stopped' \in BOOLEAN /\ stopper' \in {"none", "main", "io"} /\ stopAt' \in {"out", "store", "lock", "join"}
        BY <3>2 DEF BeginStop, TypeOK, ClientTypeOK
      <3> QED
        BY <3>1, <3>3 DEF flagVars, thrVars, TypeOK, ClientTypeOK
    <2>5. CASE IOBlocks
      BY <2>5 DEF IOBlocks, TypeOK, ClientTypeOK
    <2> QED
      BY <1>2, <2>1, <2>2, <2>3, <2>4, <2>5 DEF StopSteps
  <1>7. CASE CtrlChannel \/ CtrlEstablished
    BY <1>7 DEF CtrlChannel, OnRecvResponse, CtrlClosed, BeginStop, CtrlEstablished, TypeOK, ClientTypeOK
  <1>3. CASE CtrlFailed \/ Interrupt \/ BreakCtrl
    <2>1. faults' \in 0..MaxFaults
      BY <1>3, FaultType DEF CtrlFailed, Interrupt, BreakCtrl
    <2>2. UNCHANGED <<pc, waits, apiDone, testVars, crashed>> /\ sigint' \in BOOLEAN /\ ioAt' \in {"idle", "signal", "blocked"}
      BY <1>3 DEF CtrlFailed, Interrupt, BreakCtrl, TypeOK, ClientTypeOK
    <2> QED
      BY <2>1, <2>2 DEF TypeOK, ClientTypeOK
  <1>4. ASSUME NEW s \in Streams,
               \/ DataEstablished(s) \/ DataTimeout(s) \/ DataFailed(s) \/ DataClosed(s)
               \/ SendDataError(s) \/ Fill(s) \/ ConnectionCallback(s)
        PROVE  ClientTypeOK'
    BY <1>4, FaultType DEF DataEstablished, DataTimeout, DataFailed, DataClosed, SendDataError, Fill,
       ConnectionCallback, BufferFull, Writable, AllDataAcked, TypeOK, ClientTypeOK
  <1>5. ASSUME NEW s \in Streams, TransferThread(s)
        PROVE  ClientTypeOK'
    <2>1. CASE FetchFile(s)
      BY <2>1, FaultType, ConstantsAssumption DEF FetchFile, Skipped, TypeOK, ClientTypeOK
    <2>2. CASE ReadBlock(s) \/ WaitWritable(s) \/ SendBlock(s) \/ RetryBlock(s)
      BY <2>2 DEF ReadBlock, WaitWritable, SendBlock, RetryBlock, TypeOK, ClientTypeOK
    <2> QED
      BY <1>5, <2>1, <2>2 DEF TransferThread
  <1>6. CASE Receiver \/ ReceiverInterval
    <2>1. CASE HandleFileTransferRequest
      BY <2>1, FaultType DEF HandleFileTransferRequest, TypeOK, ClientTypeOK
    <2>2. CASE ReceiverCtrlClosed \/ ReceiverInterval
      BY <2>2 DEF ReceiverCtrlClosed, ReceiverInterval, TypeOK, ClientTypeOK
    <2>3. ASSUME NEW s \in Streams, NEW k \in Attempts, DataListenCallback(s, k)
          PROVE  ClientTypeOK'
      BY <2>3, TypeFrame DEF DataListenCallback, clientVars
    <2>4. ASSUME NEW s \in Streams, HandleReceivedFileData(s)
          PROVE  ClientTypeOK'
      <3>1. UNCHANGED <<mainVars, testVars, crashed>>
        BY <2>4 DEF HandleReceivedFileData
      <3>2. UNCHANGED faults \/ Fault("disk") \/ Fault("decompress")
        BY <2>4 DEF HandleReceivedFileData, WriteBlock, OpenFails, DecompressFails, WriteFails, WriteData
      <3>3. faults' \in 0..MaxFaults
        BY <3>2, FaultType DEF TypeOK, ClientTypeOK
      <3> QED
        BY <3>1, <3>3 DEF TypeOK, ClientTypeOK
    <2> QED
      BY <1>6, <2>1, <2>2, <2>3, <2>4 DEF Receiver
  <1> QED
    BY <1>1, <1>2, <1>3, <1>4, <1>5, <1>6, <1>7 DEF Next

LEMMA StreamTypeStep ==
  ASSUME TypeOK, ThreadsInv, Next
  PROVE  StreamTypeOK'
  <1> USE DEF flagVars, thrVars
  <1>1. CASE Main \/ CtrlEstablished \/ CtrlFailed \/ CtrlClosed \/ Interrupt \/ BreakCtrl
    BY <1>1, TypeFrame DEF Main, Start, WaitReady, SenderInterval, WaitDone, StopAll, Exit, CtrlEstablished,
       CtrlFailed, CtrlClosed, Interrupt, BreakCtrl, streamVars
  <1>6. CASE StoreDone \/ LockStreams \/ InterruptStops \/ IOBlocks
    BY <1>6, TypeFrame DEF StoreDone, LockStreams, InterruptStops, IOBlocks, streamVars
  <1>2. CASE EndStop \/ OnRecvResponse
    <2>1. UNCHANGED <<retry, allAcked, sendErr, thr, cur, pos>>
      BY <1>2 DEF EndStop, OnRecvResponse
    <2>2. conn' \in [Streams -> {"none", "connecting", "up", "null"}]
      <3>1. CASE EndStop
        BY <3>1 DEF EndStop
      <3>2. CASE OnRecvResponse
        BY <3>2 DEF OnRecvResponse
      <3> QED
        BY <1>2, <3>1, <3>2
    <2>3. writable' \in [Streams -> BOOLEAN]
      <3>1. \E w \in BOOLEAN : writable' = [s \in Streams |-> w]
        BY <1>2 DEF EndStop, OnRecvResponse
      <3> QED
        BY <3>1
    <2>4. isDone' \in [Streams -> BOOLEAN]
      <3>1. \E d \in BOOLEAN : isDone' = [s \in Streams |-> d]
        BY <1>2 DEF EndStop, OnRecvResponse
      <3> QED
        BY <3>1
    <2> QED
      BY <2>1, <2>2, <2>3, <2>4 DEF TypeOK, StreamTypeOK
  <1>3. ASSUME NEW s \in Streams,
               \/ DataEstablished(s) \/ DataTimeout(s) \/ DataFailed(s) \/ DataClosed(s)
               \/ SendDataError(s) \/ Fill(s) \/ ConnectionCallback(s)
        PROVE  StreamTypeOK'
    <2>1. CASE DataTimeout(s)
      BY <2>1, ConstantsAssumption DEF DataTimeout, Attempts, TypeOK, StreamTypeOK
    <2>2. CASE DataEstablished(s) \/ DataFailed(s) \/ DataClosed(s) \/ SendDataError(s)
      BY <2>2 DEF DataEstablished, DataFailed, DataClosed, SendDataError, TypeOK, StreamTypeOK
    <2>3. CASE Fill(s) \/ BufferFull(s) \/ Writable(s)
      BY <2>3 DEF Fill, BufferFull, Writable, TypeOK, StreamTypeOK
    <2>4. CASE AllDataAcked(s)
      BY <2>4 DEF AllDataAcked, TypeOK, StreamTypeOK
    <2> QED
      BY <1>3, <2>1, <2>2, <2>3, <2>4 DEF ConnectionCallback
  <1>4. ASSUME NEW s \in Streams, TransferThread(s)
        PROVE  StreamTypeOK'
    <2>1. CASE FetchFile(s)
      <3>1. thr' \in [Streams -> {"off", "fetch", "read", "wait", "send", "retry", "exit"}]
        <4>1. thr' = thr \/ thr' = [thr EXCEPT ![s] = "exit"] \/ thr' = [thr EXCEPT ![s] = "read"]
          BY <2>1 DEF FetchFile
        <4> QED
          BY <4>1 DEF TypeOK, StreamTypeOK
      <3>3. cur' \in [Streams -> Files \cup {NoFile}]
        <4>1. cur' = cur \/ \E f \in Files : cur' = [cur EXCEPT ![s] = f]
          BY <2>1 DEF FetchFile
        <4> QED
          BY <4>1 DEF TypeOK, StreamTypeOK
      <3>4. isDone' \in [Streams -> BOOLEAN]
        <4>1. isDone' = isDone \/ isDone' = [isDone EXCEPT ![s] = TRUE]
          BY <2>1 DEF FetchFile
        <4> QED
          BY <4>1 DEF TypeOK, StreamTypeOK
      <3>5. UNCHANGED <<conn, retry, writable, allAcked, sendErr>>
        BY <2>1 DEF FetchFile
      <3>2. pos' \in [Streams -> 0..MaxBlocks]
        BY <2>1, ConstantsAssumption DEF FetchFile, TypeOK, StreamTypeOK
      <3> QED
        BY <3>1, <3>2, <3>3, <3>4, <3>5 DEF TypeOK, StreamTypeOK
    <2>3. CASE ReadBlock(s) \/ WaitWritable(s)
      BY <2>3 DEF ReadBlock, WaitWritable, TypeOK, StreamTypeOK
    <2>2. CASE SendBlock(s) \/ RetryBlock(s)
      <3>1. thr[s] \in {"send", "retry"}
        BY <2>2 DEF SendBlock, RetryBlock
      <3>2. pos[s] < size[cur[s]] /\ cur[s] \in Files
        BY <3>1 DEF ThreadsInv, ThreadAt, InFile
      <3>3. pos[s] + 1 \in 0..MaxBlocks
        BY <3>2, StreamType, FileType, ConstantsAssumption
      <3>4. thr' \in [Streams -> {"off", "fetch", "read", "wait", "send", "retry", "exit"}]
            /\ (pos' = pos \/ pos' = [pos EXCEPT ![s] = pos[s] + 1])
        BY <2>2 DEF SendBlock, RetryBlock, TypeOK, StreamTypeOK
      <3>5. pos' \in [Streams -> 0..MaxBlocks]
        BY <3>3, <3>4 DEF TypeOK, StreamTypeOK
      <3>6. UNCHANGED <<conn, retry, writable, isDone, allAcked, sendErr, cur>>
        BY <2>2 DEF SendBlock, RetryBlock
      <3> QED
        BY <3>4, <3>5, <3>6 DEF TypeOK, StreamTypeOK
    <2> QED
      BY <1>4, <2>1, <2>2, <2>3 DEF TransferThread
  <1>5. CASE Receiver \/ ReceiverInterval
    BY <1>5, TypeFrame DEF Receiver, ReceiverInterval, HandleFileTransferRequest, ReceiverCtrlClosed,
       HandleReceivedFileData, DataListenCallback, streamVars
  <1> QED
    BY <1>1, <1>2, <1>3, <1>4, <1>5, <1>6 DEF Next, StopSteps, CtrlChannel

LEMMA NetTypeStep ==
  ASSUME TypeOK, ThreadsInv, Next
  PROVE  NetTypeOK'
  <1> USE DEF netVars
  <1>1. CASE Main \/ StopSteps \/ InterruptStops \/ IOBlocks \/ CtrlChannel
    <2>1. UNCHANGED netVars
      BY <1>1, ControlFrame DEF ControlStep
    <2>2. ctrl' \in {ctrl, "connecting", "open", "closed"}
      BY <1>1 DEF Main, Start, WaitReady, SenderInterval, WaitDone, StopAll, Exit, StopSteps, StoreDone, LockStreams,
         EndStop, InterruptStops, IOBlocks, CtrlChannel, OnRecvResponse, CtrlClosed
    <2> QED
      BY <2>1, <2>2 DEF TypeOK, NetTypeOK
  <1>2. CASE CtrlEstablished \/ CtrlFailed \/ Interrupt \/ BreakCtrl \/ ReceiverInterval
    BY <1>2 DEF CtrlEstablished, CtrlFailed, Interrupt, BreakCtrl, ReceiverInterval, TypeOK, NetTypeOK
  <1>3. ASSUME NEW s \in Streams,
               \/ DataEstablished(s) \/ DataTimeout(s) \/ DataFailed(s) \/ DataClosed(s)
               \/ SendDataError(s) \/ Fill(s) \/ ConnectionCallback(s)
        PROVE  NetTypeOK'
    <2>1. CASE Fill(s) \/ BufferFull(s) \/ Writable(s) \/ AllDataAcked(s)
      BY <2>1 DEF Fill, BufferFull, Writable, AllDataAcked, TypeOK, NetTypeOK
    <2>2. CASE DataEstablished(s) \/ DataTimeout(s) \/ DataFailed(s) \/ DataClosed(s) \/ SendDataError(s)
      BY <2>2, TypeFrame DEF DataEstablished, DataTimeout, DataFailed, DataClosed, SendDataError, channelVars
    <2> QED
      BY <1>3, <2>1, <2>2 DEF ConnectionCallback
  <1>4. ASSUME NEW s \in Streams, TransferThread(s)
        PROVE  NetTypeOK'
    <2>1. CASE FetchFile(s) \/ ReadBlock(s) \/ WaitWritable(s) \/ RetryBlock(s)
      BY <2>1, TypeFrame DEF FetchFile, ReadBlock, WaitWritable, RetryBlock, channelVars
    <2>2. CASE SendBlock(s)
      <3> DEFINE b == [file |-> cur[s], blk |-> pos[s] + 1, fin |-> pos[s] + 1 = TotalFileLength(cur[s])]
      <3>1. pos[s] < size[cur[s]] /\ cur[s] \in Files
        BY <2>2 DEF ThreadsInv, ThreadAt, InFile, SendBlock
      <3>2. pos[s] + 1 \in 1..MaxBlocks
        BY <3>1, StreamType, FileType, ConstantsAssumption
      <3>3. b \in Block
        BY <3>1, <3>2 DEF Block
      <3> HIDE DEF b
      <3>4. wire[s] \in Seq(Block)
        BY DEF TypeOK, NetTypeOK
      <3>5. Append(wire[s], b) \in Seq(Block)
        BY <3>3, <3>4, Appended
      <3>6. wire' = [wire EXCEPT ![s] = Append(@, b)] \/ UNCHANGED wire
        BY <2>2 DEF SendBlock, b
      <3>7. wire' \in [Streams -> Seq(Block)]
        BY <3>5, <3>6 DEF TypeOK, NetTypeOK
      <3> QED
        BY <2>2, <3>7 DEF SendBlock, TypeOK, NetTypeOK
    <2> QED
      BY <1>4, <2>1, <2>2 DEF TransferThread
  <1>5. CASE HandleFileTransferRequest \/ ReceiverCtrlClosed
    BY <1>5 DEF HandleFileTransferRequest, ReceiverCtrlClosed, TypeOK, NetTypeOK
  <1>6. ASSUME NEW s \in Streams, HandleReceivedFileData(s) \/ \E k \in Attempts : DataListenCallback(s, k)
        PROVE  NetTypeOK'
    <2>1. CASE HandleReceivedFileData(s)
      <3>1. wire[s] \in Seq(Block) /\ wire[s] # <<>>
        BY <2>1 DEF TypeOK, NetTypeOK, HandleReceivedFileData
      <3>2. Tail(wire[s]) \in Seq(Block)
        BY <3>1, Taken
      <3> QED
        BY <2>1, <3>2 DEF HandleReceivedFileData, TypeOK, NetTypeOK
    <2>2. CASE \E k \in Attempts : DataListenCallback(s, k)
      BY <2>2, TypeFrame DEF DataListenCallback, channelVars
    <2> QED
      BY <1>6, <2>1, <2>2
  <1> QED
    BY <1>1, <1>2, <1>3, <1>4, <1>5, <1>6 DEF Next, Receiver

(* What a received block, which is the next one of its file, does to the   *)
(* server's files.                                                         *)
LEMMA WriteType ==
  ASSUME TypeOK, BlocksInv, FreshInv, NEW s \in Streams, HandleReceivedFileData(s), <<s, retry[s]>> \in rAccepted,
         Held(s)
  PROVE  LET b == wire[s][1]
         IN  /\ b \in Block /\ 1 \in DOMAIN wire[s] /\ WriteBlock(s, b)
             /\ rGot[b.file] + 1 = b.blk /\ rGot' = [rGot EXCEPT ![b.file] = b.blk]
             /\ rOpen' = [rOpen EXCEPT ![s] = NoFile] \/ rOpen' = [rOpen EXCEPT ![s] = b.file]
             /\ \/ UNCHANGED <<rComplete, rFiles>>
                \/ b.fin /\ rComplete' = rComplete \cup {b.file} /\ rFiles' = IF rFiles > 0 THEN rFiles - 1 ELSE rFiles
             /\ rState' \in {rState, "DONE"}
  <1> DEFINE b == wire[s][1]
  <1>1. wire[s] \in Seq(Block) /\ wire[s] # <<>>
    BY DEF TypeOK, NetTypeOK, HandleReceivedFileData
  <1>2. Head(wire[s]) = b /\ b \in Block /\ 1 \in DOMAIN wire[s]
    BY <1>1, Taken
  <1>3. WriteBlock(s, b)
    BY <1>2 DEF HandleReceivedFileData
  <1>4. b.file \in Files /\ b.blk \in Nat /\ b.blk >= 1
    BY <1>2, BlockType
  <1>5. b.blk > 1 /\ rOpen[s] = b.file => rGot[b.file] = b.blk - 1
    BY <1>2 DEF BlocksInv, BlockAt
  <1>6. b.blk = 1 => rGot[b.file] = 0
    BY <1>2 DEF FreshInv, FreshBlock
  <1> HIDE DEF b
  <1>7. rGot \in [Files -> 0..MaxBlocks] /\ rGot[b.file] \in Nat
    BY <1>4, FileType DEF TypeOK, ServerTypeOK
  <1>8. rGot' = [rGot EXCEPT ![b.file] = IF b.blk = 1 THEN 1 ELSE @ + 1] /\ (b.blk = 1 \/ rOpen[s] = b.file)
    BY <1>3 DEF WriteBlock
  <1>9. rGot[b.file] + 1 = b.blk
    BY <1>4, <1>5, <1>6, <1>7, <1>8
  <1>10. rGot' = [rGot EXCEPT ![b.file] = b.blk]
    <2>1. (IF b.blk = 1 THEN 1 ELSE rGot[b.file] + 1) = b.blk
      BY <1>9
    <2>2. rGot' = [rGot EXCEPT ![b.file] = IF b.blk = 1 THEN 1 ELSE rGot[b.file] + 1]
      BY <1>4, <1>7, <1>8
    <2> QED
      BY <2>1, <2>2
  <1>11. CASE OpenFails(s, b) \/ DecompressFails(s, b) \/ WriteFails(s, b)
    <2>1. rOpen' = [rOpen EXCEPT ![s] = b.file] /\ UNCHANGED <<rComplete, rFiles, rState>>
      BY <1>11 DEF OpenFails, DecompressFails, WriteFails, Keeps
    <2> QED
      BY <1>2, <1>3, <1>9, <1>10, <2>1 DEF b
  <1>12. CASE FinishFile(s, b)
    <2>1. rOpen' = [rOpen EXCEPT ![s] = NoFile] \/ rOpen' = [rOpen EXCEPT ![s] = b.file]
      BY <1>12 DEF FinishFile
    <2>2. \/ UNCHANGED <<rComplete, rFiles>>
          \/ b.fin /\ rComplete' = rComplete \cup {b.file} /\ rFiles' = IF rFiles > 0 THEN rFiles - 1 ELSE rFiles
      BY <1>12 DEF FinishFile
    <2>3. rState' \in {rState, "DONE"}
      BY <1>12 DEF FinishFile
    <2> QED
      BY <1>2, <1>3, <1>9, <1>10, <2>1, <2>2, <2>3 DEF b
  <1> QED
    BY <1>3, <1>11, <1>12 DEF WriteBlock

(* And what it does to the stored copy and to the writer: an error harms   *)
(* no file but its own, and without one the block is written.              *)
LEMMA WriteCopy ==
  ASSUME TypeOK, NEW s \in Streams, NEW b \in Block, WriteBlock(s, b)
  PROVE  /\ rFaulty \subseteq rFaulty' /\ rFaulty' \subseteq rFaulty \cup {b.file}
         /\ \E c \in (Files \cup {NoFile}) \X (0..MaxBlocks) : rCopy' = [rCopy EXCEPT ![name[b.file]] = c]
         /\ \E w \in {"null", "good", "unopened", "bad"} : rWriter' = [rWriter EXCEPT ![s] = w]
         /\ b.file \notin rFaulty' =>
               /\ WriterFor(s, b) \in {"good", "unopened"} /\ FinishFile(s, b)
               /\ WriterFor(s, b) = "good" =>
                     rCopy'[name[b.file]] = IF b.blk = 1 \/ rCopy[name[b.file]] = <<b.file, b.blk - 1>>
                                            THEN <<b.file, b.blk>> ELSE Spoilt
         /\ b.file \in rFaulty' \/ ~b.fin \/ rComplete' = rComplete \cup {b.file}
  <1> DEFINE Copies == (Files \cup {NoFile}) \X (0..MaxBlocks)
             n == name[b.file]
  <1>1. b.file \in Files /\ b.blk \in 1..MaxBlocks /\ n \in Files
    BY BlockType DEF TypeOK, ClientTypeOK
  <1>2. rCopy \in [Files -> Copies] /\ rWriter \in [Streams -> {"null", "good", "unopened", "bad"}]
    BY DEF TypeOK, ServerTypeOK
  <1>3. WriterFor(s, b) \in {"null", "good", "unopened", "bad"}
    BY <1>2 DEF WriterFor
  <1>4. Spoilt \in Copies /\ <<b.file, 0>> \in Copies /\ <<b.file, b.blk>> \in Copies /\ rCopy[n] \in Copies
    BY <1>1, <1>2, ConstantsAssumption DEF Spoilt
  <1>5. rCopy = [rCopy EXCEPT ![n] = rCopy[n]]
    BY <1>1, <1>2
  <1> HIDE DEF Copies
  <1>6. ASSUME NEW c \in Copies, Store(b, c)
        PROVE  \E d \in Copies : rCopy' = [rCopy EXCEPT ![n] = d]
    BY <1>6 DEF Store
  <1>7. ASSUME UNCHANGED rCopy
        PROVE  \E d \in Copies : rCopy' = [rCopy EXCEPT ![n] = d]
    BY <1>4, <1>5, <1>7
  <1>8. CASE OpenFails(s, b) \/ DecompressFails(s, b) \/ WriteFails(s, b)
    <2>1. rFaulty' = rFaulty \cup {b.file}
      BY <1>8 DEF OpenFails, DecompressFails, WriteFails, Harmed
    <2>2. \E w \in {"null", "good", "unopened", "bad"} : rWriter' = [rWriter EXCEPT ![s] = w]
      BY <1>3, <1>8 DEF OpenFails, DecompressFails, WriteFails, Keeps
    <2>3. Store(b, <<b.file, 0>>) \/ Store(b, Spoilt) \/ UNCHANGED rCopy
      BY <1>8 DEF OpenFails, DecompressFails, WriteFails
    <2>4. \E d \in Copies : rCopy' = [rCopy EXCEPT ![n] = d]
      BY <1>4, <1>6, <1>7, <2>3
    <2> QED
      BY <2>1, <2>2, <2>4 DEF Copies
  <1>9. CASE WriteData(s, b) /\ FinishFile(s, b)
    <2> DEFINE a == IF b.blk = 1 \/ rCopy[n] = <<b.file, b.blk - 1>> THEN <<b.file, b.blk>> ELSE Spoilt
    <2>1. a \in Copies
      BY <1>4
    <2>2. rFaulty' = rFaulty \/ rFaulty' = rFaulty \cup {b.file}
      BY <1>9 DEF WriteData, Harmed
    <2>3. \E w \in {"null", "good", "unopened", "bad"} : rWriter' = [rWriter EXCEPT ![s] = w]
      BY <1>3, <1>9 DEF FinishFile
    <2>4. Store(b, a) \/ Store(b, Spoilt) \/ UNCHANGED rCopy
      BY <1>9 DEF WriteData
    <2>5. \E d \in Copies : rCopy' = [rCopy EXCEPT ![n] = d]
      <3> HIDE DEF a
      <3> QED
        BY <1>4, <1>6, <1>7, <2>1, <2>4
    <2>6. b.file \notin rFaulty' => WriterFor(s, b) \in {"good", "unopened"} /\ (WriterFor(s, b) = "good" => Store(b, a))
      BY <1>9 DEF WriteData, Harmed
    <2>7. Store(b, a) => rCopy'[n] = a
      BY <1>1, <1>2 DEF Store
    <2>8. ~b.fin \/ rComplete' = rComplete \cup {b.file}
      BY <1>9 DEF FinishFile
    <2> QED
      BY <1>9, <2>2, <2>3, <2>5, <2>6, <2>7, <2>8 DEF Copies
  <1> QED
    BY <1>8, <1>9 DEF WriteBlock

LEMMA ServerTypeStep ==
  ASSUME TypeOK, BlocksInv, FreshInv, CountInv, Next
  PROVE  ServerTypeOK'
  <1>1. CASE ControlStep
    BY <1>1, TypeFrame, ControlFrame
  <1>3. ASSUME NEW s \in Streams,
               \/ DataEstablished(s) \/ DataTimeout(s) \/ DataFailed(s) \/ DataClosed(s)
               \/ SendDataError(s) \/ Fill(s) \/ ConnectionCallback(s) \/ TransferThread(s)
        PROVE  ServerTypeOK'
    BY <1>3, TypeFrame DEF DataEstablished, DataTimeout, DataFailed, DataClosed, SendDataError, Fill,
       ConnectionCallback, BufferFull, Writable, AllDataAcked, TransferThread, FetchFile, ReadBlock, WaitWritable,
       SendBlock, RetryBlock
  <1>4. CASE HandleFileTransferRequest \/ ReceiverCtrlClosed \/ ReceiverInterval
    <2>1. CASE HandleFileTransferRequest
      <3>1. rFiles' \in 0..NumFiles
        BY <2>1, ConstantsAssumption DEF HandleFileTransferRequest, TypeOK, ServerTypeOK
      <3> QED
        BY <2>1, <3>1 DEF HandleFileTransferRequest, TypeOK, ServerTypeOK
    <2>2. CASE ReceiverCtrlClosed
      <3>1. rAccepted' \subseteq Streams \X Attempts /\ rReleased' \subseteq Streams \X Attempts
        BY <2>2 DEF ReceiverCtrlClosed, TypeOK, ServerTypeOK
      <3> QED
        BY <2>2, <3>1 DEF ReceiverCtrlClosed, TypeOK, ServerTypeOK
    <2>3. CASE ReceiverInterval
      BY <2>3 DEF ReceiverInterval, TypeOK, ServerTypeOK
    <2> QED
      BY <1>4, <2>1, <2>2, <2>3
  <1>5. ASSUME NEW s \in Streams, HandleReceivedFileData(s)
        PROVE  ServerTypeOK'
    <2>1. CASE <<s, retry[s]>> \in rAccepted
      <3> DEFINE b == wire[s][1]
      <3>1. Held(s)
        BY <2>1 DEF Held, CountInv
      <3>2. /\ b \in Block /\ WriteBlock(s, b) /\ rGot' = [rGot EXCEPT ![b.file] = b.blk]
            /\ rOpen' = [rOpen EXCEPT ![s] = NoFile] \/ rOpen' = [rOpen EXCEPT ![s] = b.file]
            /\ \/ UNCHANGED <<rComplete, rFiles>>
               \/ rComplete' = rComplete \cup {b.file} /\ rFiles' = IF rFiles > 0 THEN rFiles - 1 ELSE rFiles
            /\ rState' \in {rState, "DONE"}
        BY <1>5, <2>1, <3>1, WriteType
      <3>3. b.file \in Files /\ b.blk \in 1..MaxBlocks /\ name[b.file] \in Files
        BY <3>2, BlockType DEF TypeOK, ClientTypeOK
      <3>4. UNCHANGED <<rPhase, rGranted, rClosed, rAccepted, rReleased>>
        BY <1>5 DEF HandleReceivedFileData
      <3> HIDE DEF b
      <3>5. rGot' \in [Files -> 0..MaxBlocks] /\ rOpen' \in [Streams -> Files \cup {NoFile}] /\ rComplete' \subseteq Files
        BY <3>2, <3>3 DEF TypeOK, ServerTypeOK
      <3>6. rFiles' \in 0..NumFiles /\ rState' \in {"NONE", "DONE"}
        BY <3>2, ConstantsAssumption DEF TypeOK, ServerTypeOK
      <3>7. /\ rFaulty' \subseteq rFaulty \cup {b.file}
            /\ \E c \in (Files \cup {NoFile}) \X (0..MaxBlocks) : rCopy' = [rCopy EXCEPT ![name[b.file]] = c]
            /\ \E w \in {"null", "good", "unopened", "bad"} : rWriter' = [rWriter EXCEPT ![s] = w]
        BY <3>2, WriteCopy
      <3>8. rCopy' \in [Files -> (Files \cup {NoFile}) \X (0..MaxBlocks)]
        BY <3>3, <3>7 DEF TypeOK, ServerTypeOK
      <3>9. rWriter' \in [Streams -> {"null", "good", "unopened", "bad"}] /\ rFaulty' \subseteq Files
        BY <3>3, <3>7 DEF TypeOK, ServerTypeOK
      <3> QED
        BY <3>4, <3>5, <3>6, <3>8, <3>9 DEF TypeOK, ServerTypeOK
    <2>2. CASE <<s, retry[s]>> \notin rAccepted
      BY <1>5, <2>2 DEF HandleReceivedFileData, TypeOK, ServerTypeOK
    <2> QED
      BY <2>1, <2>2
  <1>6. ASSUME NEW s \in Streams, NEW k \in Attempts, DataListenCallback(s, k)
        PROVE  ServerTypeOK'
    BY <1>6 DEF DataListenCallback, TypeOK, ServerTypeOK
  <1> QED
    BY <1>1, <1>3, <1>4, <1>5, <1>6 DEF Next, ControlStep, Receiver

-----------------------------------------------------------------------------
(* The life of a stream.                                                   *)

LEMMA LifeFrame ==
  ASSUME LifeInv, UNCHANGED <<pc, listed, ctrl, thr, conn, wire, cur>>
  PROVE  LifeInv'
  BY DEF LifeInv, LifeOf, Opened, Active

(* A step of one stream leaves the others alone.                           *)
LEMMA LifeOfStream ==
  ASSUME LifeInv, UNCHANGED <<pc, listed, ctrl>>, NEW s \in Streams, LifeOf(s)',
         \A t \in Streams \ {s} : /\ thr'[t] = thr[t] /\ conn'[t] = conn[t] /\ wire'[t] = wire[t] /\ cur'[t] = cur[t]
  PROVE  LifeInv'
  <1>1. ASSUME NEW t \in Streams \ {s} PROVE LifeOf(t)'
    BY DEF LifeInv, LifeOf, Opened, Active
  <1> QED
    BY <1>1 DEF LifeInv, Opened

LEMMA LifeStep ==
  ASSUME TypeOK, LifeInv, CountInv, Next
  PROVE  LifeInv'
  <1> USE DEF mainVars, testVars, thrVars, netVars
  <1>1. CASE Main
    <2>1. CASE Start
      BY <2>1 DEF Start, LifeInv, LifeOf, Opened, Active
    <2>2. CASE WaitReady \/ SenderInterval \/ WaitDone \/ StopAll \/ Exit
      BY <2>2 DEF WaitReady, SenderInterval, WaitDone, StopAll, Exit, LifeInv, LifeOf, Opened, Active
    <2> QED
      BY <1>1, <2>1, <2>2 DEF Main
  <1>2. CASE EndStop
    BY <1>2 DEF EndStop, TypeOK, StreamTypeOK, LifeInv, LifeOf, Opened, Active
  <1>11. CASE StoreDone \/ LockStreams \/ InterruptStops \/ IOBlocks
    BY <1>11, LifeFrame DEF StoreDone, LockStreams, InterruptStops, IOBlocks
  <1>3. CASE OnRecvResponse
    BY <1>3 DEF OnRecvResponse, LifeInv, LifeOf, Opened, Active
  <1>4. CASE CtrlClosed \/ CtrlEstablished \/ CtrlFailed \/ BreakCtrl
    BY <1>4 DEF CtrlClosed, CtrlEstablished, CtrlFailed, BreakCtrl, LifeInv, LifeOf, Opened, Active
  <1>5. CASE HandleFileTransferRequest
    BY <1>5 DEF HandleFileTransferRequest, LifeInv, LifeOf, Opened, Active
  <1>6. CASE Interrupt \/ ReceiverInterval \/ ReceiverCtrlClosed
    BY <1>6, LifeFrame DEF Interrupt, ReceiverInterval, ReceiverCtrlClosed
  <1>7. ASSUME NEW s \in Streams,
               \/ SendDataError(s) \/ Fill(s) \/ ConnectionCallback(s) \/ \E k \in Attempts : DataListenCallback(s, k)
        PROVE  LifeInv'
    BY <1>7, LifeFrame DEF SendDataError, Fill, ConnectionCallback, BufferFull, Writable, AllDataAcked,
       DataListenCallback
  <1>8. ASSUME NEW s \in Streams, DataEstablished(s) \/ DataTimeout(s) \/ DataFailed(s) \/ DataClosed(s)
        PROVE  LifeInv'
    <2>1. UNCHANGED <<pc, listed, ctrl>> /\ \A t \in Streams \ {s} : /\ thr'[t] = thr[t] /\ conn'[t] = conn[t]
                                                                   /\ wire'[t] = wire[t] /\ cur'[t] = cur[t]
      BY <1>8 DEF DataEstablished, DataTimeout, DataFailed, DataClosed, TypeOK, StreamTypeOK
    <2>2. LifeOf(s)'
      BY <1>8 DEF DataEstablished, DataTimeout, DataFailed, DataClosed, TypeOK, StreamTypeOK, LifeInv, LifeOf,
         Opened, Active
    <2> QED
      BY <2>1, <2>2, LifeOfStream
  <1>9. ASSUME NEW s \in Streams, TransferThread(s)
        PROVE  LifeInv'
    <2>1. UNCHANGED <<pc, listed, ctrl, conn>> /\ thr[s] # "off" /\ thr'[s] # "off" /\ Active(s)
          /\ \A t \in Streams \ {s} : thr'[t] = thr[t] /\ cur'[t] = cur[t]
      BY <1>9 DEF TransferThread, FetchFile, ReadBlock, WaitWritable, SendBlock, RetryBlock, TypeOK, StreamTypeOK,
         Active
    <2>2. \A t \in Streams \ {s} : wire'[t] = wire[t]
      BY <1>9 DEF TransferThread, FetchFile, ReadBlock, WaitWritable, SendBlock, RetryBlock, TypeOK, NetTypeOK
    <2>3. LifeOf(s)'
      BY <2>1 DEF LifeInv, LifeOf, Opened, Active
    <2> QED
      BY <2>1, <2>2, <2>3, LifeOfStream
  <1>10. ASSUME NEW s \in Streams, HandleReceivedFileData(s)
         PROVE  LifeInv'
    <2>1. wire[s] # <<>> /\ UNCHANGED <<pc, listed, ctrl, thr, conn, cur>>
          /\ \A t \in Streams \ {s} : wire'[t] = wire[t]
      BY <1>10 DEF HandleReceivedFileData, TypeOK, NetTypeOK
    <2>2. LifeOf(s)'
      BY <2>1 DEF LifeInv, LifeOf, Opened, Active
    <2> QED
      BY <2>1, <2>2, LifeOfStream
  <1> QED
    BY <1>1, <1>2, <1>3, <1>4, <1>5, <1>6, <1>7, <1>8, <1>9, <1>10, <1>11 DEF Next, StopSteps, CtrlChannel, Receiver

(* A thread that has been told to give up stays so, and the server does    *)
(* not take back a stream it has released.                                 *)
LEMMA StaysDoomed ==
  ASSUME TypeOK, LifeInv, Next, NEW s \in Streams, thr[s] # "off", Doomed(s)
  PROVE  Doomed(s)'
  <1> USE DEF testVars, flagVars
  <1>0. ctrl # "connecting"
    BY DEF LifeInv, LifeOf, Opened
  <1>1. CASE ControlStep
    BY <1>0, <1>1, ControlFrame, DoneStays DEF Doomed
  <1>2. ASSUME NEW t \in Streams,
               \/ DataEstablished(t) \/ DataTimeout(t) \/ DataFailed(t) \/ DataClosed(t)
               \/ SendDataError(t) \/ Fill(t) \/ ConnectionCallback(t)
        PROVE  Doomed(s)'
    BY <1>2 DEF DataEstablished, DataTimeout, DataFailed, DataClosed, SendDataError, Fill, ConnectionCallback,
       BufferFull, Writable, AllDataAcked, TypeOK, StreamTypeOK, Doomed
  <1>3. ASSUME NEW t \in Streams, TransferThread(t)
        PROVE  Doomed(s)'
    BY <1>3 DEF TransferThread, FetchFile, ReadBlock, WaitWritable, SendBlock, RetryBlock, Doomed
  <1>4. CASE Receiver \/ ReceiverInterval
    BY <1>4 DEF Receiver, ReceiverInterval, HandleFileTransferRequest, ReceiverCtrlClosed,
       HandleReceivedFileData, DataListenCallback, Doomed
  <1> QED
    BY <1>1, <1>2, <1>3, <1>4 DEF Next, ControlStep

LEMMA StaysReleased ==
  ASSUME TypeOK, LifeInv, Next, NEW s \in Streams, thr[s] # "off"
  PROVE  retry'[s] = retry[s] /\ (Held(s)' => Held(s))
  <1>1. retry'[s] = retry[s]
    <2>0. conn[s] # "connecting"
      BY DEF LifeInv, LifeOf
    <2>1. CASE ControlStep
      BY <2>1, ControlFrame
    <2>2. ASSUME NEW t \in Streams,
                 \/ DataEstablished(t) \/ DataTimeout(t) \/ DataFailed(t) \/ DataClosed(t)
                 \/ SendDataError(t) \/ Fill(t) \/ ConnectionCallback(t)
          PROVE  retry'[s] = retry[s]
      BY <2>0, <2>2 DEF DataEstablished, DataTimeout, DataFailed, DataClosed, SendDataError, Fill,
         ConnectionCallback, BufferFull, Writable, AllDataAcked, TypeOK, StreamTypeOK
    <2>3. ASSUME NEW t \in Streams, TransferThread(t)
          PROVE  retry'[s] = retry[s]
      BY <2>3 DEF TransferThread, FetchFile, ReadBlock, WaitWritable, SendBlock, RetryBlock
    <2>4. CASE Receiver \/ ReceiverInterval
      BY <2>4 DEF Receiver, ReceiverInterval, HandleFileTransferRequest, ReceiverCtrlClosed,
         HandleReceivedFileData, DataListenCallback
    <2> QED
      BY <2>1, <2>2, <2>3, <2>4 DEF Next, ControlStep
  <1>2. rReleased \subseteq rReleased'
    <2> USE DEF recvVars
    <2>1. CASE ControlStep
      BY <2>1, ControlFrame
    <2>2. ASSUME NEW t \in Streams,
                 \/ DataEstablished(t) \/ DataTimeout(t) \/ DataFailed(t) \/ DataClosed(t)
                 \/ SendDataError(t) \/ Fill(t) \/ ConnectionCallback(t) \/ TransferThread(t)
          PROVE  rReleased \subseteq rReleased'
      BY <2>2 DEF DataEstablished, DataTimeout, DataFailed, DataClosed, SendDataError, Fill,
         ConnectionCallback, BufferFull, Writable, AllDataAcked, TransferThread, FetchFile, ReadBlock,
         WaitWritable, SendBlock, RetryBlock
    <2>3. CASE Receiver \/ ReceiverInterval
      BY <2>3 DEF Receiver, ReceiverInterval, HandleFileTransferRequest, ReceiverCtrlClosed,
         HandleReceivedFileData, DataListenCallback
    <2> QED
      BY <2>1, <2>2, <2>3 DEF Next, ControlStep
  <1> QED
    BY <1>1, <1>2 DEF Held

-----------------------------------------------------------------------------
(* What the steps do to the data: a thread takes a file, passes over one,  *)
(* sends a block or gives one up; the server writes a block or drops it.   *)

dataVars == <<size, queue, cur, pos, wire, rOpen, rGot, rComplete>>
giveUpVars == <<state, sendErr, retry, rReleased>>

TakesFile(s, f) ==
    /\ f \in queue /\ (\A g \in queue : f <= g) /\ queue' = queue \ {f}
    /\ thr[s] = "fetch" /\ thr' = [thr EXCEPT ![s] = "read"]
    /\ cur' = [cur EXCEPT ![s] = f] /\ pos' = [pos EXCEPT ![s] = 0]
    /\ UNCHANGED <<size, wire, rOpen, rGot, rComplete, giveUpVars>>
PassesOver(f) ==
    /\ f \in queue /\ queue' = queue \ {f} /\ (\E s \in Streams : thr[s] = "fetch")
    /\ size' = [size EXCEPT ![f] = Skipped]
    /\ UNCHANGED <<thr, cur, pos, wire, rOpen, rGot, rComplete, giveUpVars>>
NextBlock(s) == [file |-> cur[s], blk |-> pos[s] + 1, fin |-> pos[s] + 1 = TotalFileLength(cur[s])]
Sends(s) ==
    /\ thr[s] = "send" /\ thr' = [thr EXCEPT ![s] = "read"]
    /\ wire' = [wire EXCEPT ![s] = Append(wire[s], NextBlock(s))] /\ pos' = [pos EXCEPT ![s] = pos[s] + 1]
    /\ UNCHANGED <<size, queue, cur, rOpen, rGot, rComplete, giveUpVars>>
GivesUp(s) ==
    /\ thr[s] = "retry" /\ Doomed(s) /\ thr' = [thr EXCEPT ![s] = "read"]
    /\ pos' = [pos EXCEPT ![s] = pos[s] + 1]
    /\ UNCHANGED <<size, queue, cur, wire, rOpen, rGot, rComplete, giveUpVars>>
Writes(s) ==
    LET b == wire[s][1]
    IN  /\ wire[s] # <<>> /\ wire' = [wire EXCEPT ![s] = Tail(wire[s])]
        /\ <<s, retry[s]>> \in rAccepted
        /\ rGot[b.file] + 1 = b.blk /\ rGot' = [rGot EXCEPT ![b.file] = b.blk]
        /\ rOpen' = [rOpen EXCEPT ![s] = NoFile] \/ rOpen' = [rOpen EXCEPT ![s] = b.file]
        /\ UNCHANGED rComplete \/ (b.fin /\ rComplete' = rComplete \cup {b.file})
        /\ UNCHANGED <<size, queue, cur, pos, thr, giveUpVars>>
Drops(s) ==
    /\ wire[s] # <<>> /\ wire' = [wire EXCEPT ![s] = Tail(wire[s])]
    /\ ~Held(s)
    /\ UNCHANGED <<size, queue, cur, pos, thr, rOpen, rGot, rComplete, giveUpVars>>

(* Any other step: a thread comes to a file only by taking it, goes on     *)
(* from the head of its inner loop only if there is a block to send, and   *)
(* leaves a file it has not sent only when it gives up.                    *)
GoesOn(s) ==
    thr'[s] \in {"read", "wait", "send", "retry"} =>
        /\ thr[s] = "read" \/ (thr[s] \in {"wait", "send", "retry"} /\ thr'[s] # "read")
        /\ thr[s] = "read" /\ thr'[s] # "read" => pos[s] < size[cur[s]] /\ ~Doomed(s)
StaysIn(s) ==
    InFile(s) /\ pos[s] < size[cur[s]] /\ ~Doomed(s) => thr'[s] \in {"read", "wait", "send", "retry"}
Quiet == UNCHANGED dataVars /\ \A s \in Streams : GoesOn(s) /\ StaysIn(s)

LEMMA DataStep ==
  ASSUME TypeOK, LifeInv, ThreadsInv, BlocksInv, FreshInv, CountInv, Next
  PROVE  \/ Quiet
         \/ \E s \in Streams : \/ Sends(s) \/ GivesUp(s) \/ Writes(s) \/ Drops(s)
                               \/ \E f \in Files : TakesFile(s, f)
         \/ \E f \in Files : PassesOver(f)
  <1> USE DEF testVars, thrVars, netVars, recvVars
  <1>1. ASSUME UNCHANGED <<dataVars, thr>> PROVE Quiet
    BY <1>1 DEF Quiet, GoesOn, StaysIn, InFile, dataVars
  <1>2. CASE ControlStep
    <2>1. UNCHANGED <<dataVars, thr>>
      BY <1>2, ControlFrame DEF dataVars
    <2> QED
      BY <1>1, <2>1
  <1>3. ASSUME NEW s \in Streams,
               \/ DataTimeout(s) \/ DataFailed(s) \/ DataClosed(s) \/ SendDataError(s) \/ Fill(s)
               \/ ConnectionCallback(s) \/ \E k \in Attempts : DataListenCallback(s, k)
        PROVE  Quiet
    <2>1. UNCHANGED <<dataVars, thr>>
      BY <1>3 DEF DataTimeout, DataFailed, DataClosed, SendDataError, Fill, ConnectionCallback, BufferFull,
         Writable, AllDataAcked, DataListenCallback, dataVars
    <2> QED
      BY <1>1, <2>1
  <1>4. ASSUME NEW s \in Streams, DataEstablished(s)
        PROVE  Quiet
    <2>1. UNCHANGED dataVars
      BY <1>4 DEF DataEstablished, dataVars
    <2>2. \A t \in Streams : thr'[t] = thr[t] \/ (thr'[t] = "fetch" /\ thr[t] = "off")
      BY <1>4 DEF DataEstablished, TypeOK, StreamTypeOK, LifeInv, LifeOf
    <2> QED
      BY <2>1, <2>2 DEF Quiet, GoesOn, StaysIn, InFile
  <1>5. ASSUME NEW s \in Streams, FetchFile(s)
        PROVE  Quiet \/ \E f \in Files : TakesFile(s, f) \/ PassesOver(f)
    <2>1. CASE thr' = [thr EXCEPT ![s] = "exit"] /\ UNCHANGED <<size, queue, cur, pos>>
      <3>1. UNCHANGED dataVars
        BY <1>5, <2>1 DEF FetchFile, dataVars
      <3>2. \A t \in Streams : thr'[t] = thr[t] \/ (thr'[t] = "exit" /\ thr[t] = "fetch")
        BY <1>5, <2>1 DEF FetchFile, TypeOK, StreamTypeOK
      <3> QED
        BY <3>1, <3>2 DEF Quiet, GoesOn, StaysIn, InFile
    <2>2. ASSUME NEW f \in Files, IsHead(f), queue' = queue \ {f},
                 thr' = [thr EXCEPT ![s] = "read"], cur' = [cur EXCEPT ![s] = f], pos' = [pos EXCEPT ![s] = 0],
                 UNCHANGED size
          PROVE  TakesFile(s, f)
      BY <1>5, <2>2 DEF FetchFile, IsHead, TakesFile, giveUpVars
    <2>3. ASSUME NEW f \in Files, IsHead(f), queue' = queue \ {f}, size' = [size EXCEPT ![f] = Skipped],
                 UNCHANGED <<thr, cur, pos>>
          PROVE  PassesOver(f)
      BY <1>5, <2>3 DEF FetchFile, IsHead, PassesOver, giveUpVars
    <2> QED
      BY <1>5, <2>1, <2>2, <2>3 DEF FetchFile
  <1>6. ASSUME NEW s \in Streams, ReadBlock(s) \/ WaitWritable(s)
        PROVE  Quiet
    <2>1. UNCHANGED dataVars
      BY <1>6 DEF ReadBlock, WaitWritable, dataVars
    <2>2. \A t \in Streams \ {s} : thr'[t] = thr[t]
      BY <1>6 DEF ReadBlock, WaitWritable, TypeOK, StreamTypeOK
    <2>3. GoesOn(s) /\ StaysIn(s)
      <3>1. CASE WaitWritable(s)
        BY <3>1 DEF WaitWritable, GoesOn, StaysIn, InFile, TypeOK, StreamTypeOK
      <3>2. CASE ReadBlock(s)
        <4>1. thr[s] = "read" /\ cur[s] \in Files
          BY <3>2 DEF ReadBlock, ThreadsInv, ThreadAt, InFile
        <4>2. pos[s] \in Int /\ size[cur[s]] \in Int
          BY <4>1, StreamType, FileType
        <4>3. thr'[s] = IF pos[s] >= size[cur[s]] \/ ~IsInActive(s) \/ sendErr[s] THEN "fetch" ELSE "wait"
          BY <3>2 DEF ReadBlock, TypeOK, StreamTypeOK
        <4>4. IsConnected(s)
          BY <4>1 DEF LifeInv, LifeOf, Active, IsConnected
        <4> QED
          BY <4>1, <4>2, <4>3, <4>4 DEF GoesOn, StaysIn, Doomed, IsInActive
      <3> QED
        BY <1>6, <3>1, <3>2
    <2> QED
      BY <2>1, <2>2, <2>3 DEF Quiet, GoesOn, StaysIn, InFile
  <1>7. ASSUME NEW s \in Streams, SendBlock(s)
        PROVE  Quiet \/ Sends(s)
    <2>1. CASE conn[s] = "up" /\ ~full[s]
      BY <1>7, <2>1 DEF SendBlock, Sends, NextBlock, giveUpVars, flagVars
    <2>2. CASE ~(conn[s] = "up" /\ ~full[s])
      <3>1. UNCHANGED dataVars /\ thr[s] = "send"
        BY <1>7, <2>2 DEF SendBlock, dataVars
      <3>2. thr' = thr \/ thr' = [thr EXCEPT ![s] = "retry"]
        BY <1>7, <2>2 DEF SendBlock
      <3> QED
        BY <3>1, <3>2 DEF Quiet, GoesOn, StaysIn, InFile, TypeOK, StreamTypeOK
    <2> QED
      BY <2>1, <2>2
  <1>8. ASSUME NEW s \in Streams, RetryBlock(s)
        PROVE  Quiet \/ GivesUp(s)
    <2>1. CASE ~IsInActive(s) \/ sendErr[s]
      <3>1. Doomed(s)
        BY <1>8, <2>1 DEF RetryBlock, LifeInv, LifeOf, Active, IsInActive, IsConnected, Doomed
      <3> QED
        BY <1>8, <2>1, <3>1 DEF RetryBlock, GivesUp, giveUpVars, flagVars
    <2>2. CASE ~(~IsInActive(s) \/ sendErr[s])
      <3>1. UNCHANGED dataVars /\ thr[s] = "retry"
        BY <1>8, <2>2 DEF RetryBlock, dataVars
      <3>2. thr' = [thr EXCEPT ![s] = "send"]
        BY <1>8, <2>2 DEF RetryBlock
      <3> QED
        BY <3>1, <3>2 DEF Quiet, GoesOn, StaysIn, InFile, TypeOK, StreamTypeOK
    <2> QED
      BY <2>1, <2>2
  <1>9. ASSUME NEW s \in Streams, HandleReceivedFileData(s)
        PROVE  Writes(s) \/ Drops(s)
    <2>1. wire[s] # <<>> /\ wire' = [wire EXCEPT ![s] = Tail(wire[s])]
          /\ UNCHANGED <<size, queue, cur, pos, thr, giveUpVars>>
      BY <1>9 DEF HandleReceivedFileData, giveUpVars, flagVars
    <2>2. CASE <<s, retry[s]>> \in rAccepted
      <3>1. Held(s)
        BY <2>2 DEF Held, CountInv
      <3> QED
        BY <1>9, <2>1, <2>2, <3>1, WriteType DEF Writes
    <2>3. CASE <<s, retry[s]>> \notin rAccepted
      BY <1>9, <2>1, <2>3 DEF HandleReceivedFileData, Drops, Held
    <2> QED
      BY <2>2, <2>3
  <1>10. CASE HandleFileTransferRequest \/ ReceiverCtrlClosed \/ ReceiverInterval
    <2>1. UNCHANGED <<dataVars, thr>>
      BY <1>10 DEF HandleFileTransferRequest, ReceiverCtrlClosed, ReceiverInterval, dataVars
    <2> QED
      BY <1>1, <2>1
  <1> QED
    BY <1>2, <1>3, <1>4, <1>5, <1>6, <1>7, <1>8, <1>9, <1>10 DEF Next, ControlStep, Receiver, TransferThread

-----------------------------------------------------------------------------
(* The threads and the blocks in flight.                                   *)

LEMMA SentBlock ==
  ASSUME TypeOK, ThreadsInv, NEW s \in Streams, Sends(s)
  PROVE  /\ NextBlock(s) \in Block /\ cur[s] \in Files /\ pos[s] < size[cur[s]]
         /\ NextBlock(s).file = cur[s] /\ NextBlock(s).blk = pos[s] + 1
         /\ LengthFits => (NextBlock(s).fin <=> pos[s] + 1 = size[cur[s]])
  <1>1. pos[s] < size[cur[s]] /\ cur[s] \in Files
    BY DEF ThreadsInv, ThreadAt, InFile, Sends
  <1>2. pos[s] + 1 \in 1..MaxBlocks
    BY <1>1, StreamType, FileType, ConstantsAssumption
  <1>3. NextBlock(s) \in Block
    BY <1>1, <1>2 DEF Block, NextBlock
  <1>4. LengthFits => TotalFileLength(cur[s]) = size[cur[s]]
    BY <1>1, FileType DEF LengthFits, TotalFileLength
  <1> QED
    BY <1>1, <1>3, <1>4 DEF NextBlock

LEMMA ThreadsStep ==
  ASSUME TypeOK, LifeInv, ThreadsInv, BlocksInv, OwnInv, FreshInv, CountInv, Next
  PROVE  ThreadsInv'
  <1>1. CASE Quiet
    <2> SUFFICES ASSUME NEW s \in Streams, InFile(s)' PROVE ThreadAt(s)'
      BY DEF ThreadsInv, ThreadAt, InFile
    <2>1. UNCHANGED <<size, cur, pos, wire, rOpen, rGot>> /\ GoesOn(s)
      BY <1>1 DEF Quiet, dataVars
    <2>2. InFile(s) /\ thr[s] # "off" /\ ThreadAt(s)
      BY <2>1 DEF GoesOn, InFile, ThreadsInv
    <2>3. Held(s)' => Held(s)
      BY <2>2, StaysReleased
    <2>4. Doomed(s) => Doomed(s)'
      BY <2>2, StaysDoomed
    <2> QED
      BY <2>1, <2>2, <2>3, <2>4 DEF ThreadAt, GoesOn, InFile
  <1>2. ASSUME NEW s \in Streams, NEW f \in Files, TakesFile(s, f)
        PROVE  ThreadsInv'
    <2>1. \A t \in Streams \ {s} : thr'[t] = thr[t] /\ cur'[t] = cur[t] /\ pos'[t] = pos[t]
      BY <1>2 DEF TakesFile, TypeOK, StreamTypeOK
    <2>2. thr'[s] = "read" /\ cur'[s] = f /\ pos'[s] = 0
      BY <1>2 DEF TakesFile, TypeOK, StreamTypeOK
    <2>3. UNCHANGED <<size, wire, rOpen, rGot, state, sendErr, retry, rReleased>>
      BY <1>2 DEF TakesFile, giveUpVars
    <2>4. ASSUME NEW t \in Streams \ {s} PROVE ThreadAt(t)'
      BY <2>1, <2>3 DEF ThreadsInv, ThreadAt, InFile, Doomed, Held
    <2>5. ThreadAt(s)'
      BY <2>2 DEF ThreadAt, InFile
    <2> QED
      BY <2>4, <2>5 DEF ThreadsInv
  <1>3. ASSUME NEW f \in Files, PassesOver(f)
        PROVE  ThreadsInv'
    <2> SUFFICES ASSUME NEW s \in Streams PROVE ThreadAt(s)'
      BY DEF ThreadsInv
    <2>1. UNCHANGED <<thr, cur, pos, wire, rOpen, rGot, state, sendErr, retry, rReleased>>
      BY <1>3 DEF PassesOver, giveUpVars
    <2>2. cur[s] # f
      BY <1>3, StreamType, FileType DEF PassesOver, OwnInv
    <2>3. cur[s] \in Files => size'[cur[s]] = size[cur[s]]
      BY <1>3, <2>2 DEF PassesOver, TypeOK, ClientTypeOK
    <2> QED
      BY <2>1, <2>3 DEF ThreadsInv, ThreadAt, InFile, Doomed, Held
  <1>4. ASSUME NEW s \in Streams, Sends(s)
        PROVE  ThreadsInv'
    <2>1. \A t \in Streams \ {s} : thr'[t] = thr[t] /\ wire'[t] = wire[t] /\ pos'[t] = pos[t]
      BY <1>4 DEF Sends, TypeOK, StreamTypeOK, NetTypeOK
    <2>2. thr'[s] = "read" /\ pos'[s] = pos[s] + 1 /\ wire'[s] = Append(wire[s], NextBlock(s))
      BY <1>4 DEF Sends, TypeOK, StreamTypeOK, NetTypeOK
    <2>3. UNCHANGED <<size, cur, rOpen, rGot, state, sendErr, retry, rReleased>>
      BY <1>4 DEF Sends, giveUpVars
    <2>4. ASSUME NEW t \in Streams \ {s} PROVE ThreadAt(t)'
      BY <2>1, <2>3 DEF ThreadsInv, ThreadAt, InFile, Doomed, Held
    <2>5. NextBlock(s).file = cur[s] /\ NextBlock(s).blk = pos[s] + 1 /\ NextBlock(s) \in Block /\ cur[s] \in Files
      BY <1>4, SentBlock
    <2>6. wire[s] \in Seq(Block)
      BY StreamType
    <2>7. wire'[s] # <<>> /\ wire'[s][Len(wire'[s])] = NextBlock(s)
      BY <2>2, <2>5, <2>6, Appended
    <2>8. ThreadAt(s)'
      BY <2>2, <2>3, <2>5, <2>7 DEF ThreadAt, InFile
    <2> QED
      BY <2>4, <2>8 DEF ThreadsInv
  <1>5. ASSUME NEW s \in Streams, GivesUp(s)
        PROVE  ThreadsInv'
    <2>1. \A t \in Streams \ {s} : thr'[t] = thr[t] /\ pos'[t] = pos[t]
      BY <1>5 DEF GivesUp, TypeOK, StreamTypeOK
    <2>2. thr[s] = "retry" /\ thr'[s] = "read" /\ Doomed(s)
      BY <1>5 DEF GivesUp, TypeOK, StreamTypeOK
    <2>3. UNCHANGED <<size, cur, wire, rOpen, rGot, state, sendErr, retry, rReleased>>
      BY <1>5 DEF GivesUp, giveUpVars
    <2>4. ASSUME NEW t \in Streams \ {s} PROVE ThreadAt(t)'
      BY <2>1, <2>3 DEF ThreadsInv, ThreadAt, InFile, Doomed, Held
    <2>5. ThreadAt(s)'
      BY <2>2, <2>3 DEF ThreadsInv, ThreadAt, InFile, Doomed
    <2> QED
      BY <2>4, <2>5 DEF ThreadsInv
  <1>6. ASSUME NEW s \in Streams, Writes(s)
        PROVE  ThreadsInv'
    <2> DEFINE b == wire[s][1]
    <2>1. UNCHANGED <<size, cur, pos, thr, state, sendErr, retry, rReleased>>
      BY <1>6 DEF Writes, giveUpVars
    <2>2. wire[s] \in Seq(Block) /\ wire[s] # <<>> /\ wire'[s] = Tail(wire[s]) /\ \A t \in Streams \ {s} : wire'[t] = wire[t]
      BY <1>6, StreamType DEF Writes, TypeOK, NetTypeOK
    <2>3. b \in Block /\ 1 \in DOMAIN wire[s] /\ b.file \in Files
      BY <2>2, Taken, BlockType
    <2>4. rGot'[b.file] = b.blk /\ \A f \in Files \ {b.file} : rGot'[f] = rGot[f]
      BY <1>6, <2>3 DEF Writes, TypeOK, ServerTypeOK
    <2>5. \A t \in Streams \ {s} : rOpen'[t] = rOpen[t]
      BY <1>6 DEF Writes, TypeOK, ServerTypeOK
    <2>6. ASSUME NEW t \in Streams \ {s} PROVE ThreadAt(t)'
      <3>1. cur[t] # b.file
        BY <2>3 DEF OwnInv, Apart
      <3>2. cur[t] \in Files => rGot'[cur[t]] = rGot[cur[t]]
        BY <2>4, <3>1
      <3> QED
        BY <2>1, <2>2, <2>5, <3>2 DEF ThreadsInv, ThreadAt, InFile, Doomed, Held
    <2>7. ThreadAt(s)'
      <3>1. Len(wire[s]) \in Nat /\ Len(wire'[s]) = Len(wire[s]) - 1 /\ Len(wire[s]) >= 1
            /\ (wire'[s] = <<>> <=> Len(wire[s]) = 1)
        BY <2>2, Taken
      <3>2. CASE wire'[s] = <<>>
        <4>1. wire[s][Len(wire[s])] = b
          BY <3>1, <3>2
        <4> QED
          BY <2>1, <2>2, <2>4, <3>2, <4>1 DEF ThreadsInv, ThreadAt, InFile, Doomed, Held
      <3>3. CASE wire'[s] # <<>>
        <4>1. Len(wire'[s]) \in DOMAIN Tail(wire[s])
          BY <2>2, <3>1, <3>3, Taken
        <4>2. wire'[s][Len(wire'[s])] = wire[s][Len(wire[s])]
          BY <2>2, <3>1, <4>1, Taken
        <4> QED
          BY <2>1, <2>2, <3>3, <4>2 DEF ThreadsInv, ThreadAt, InFile, Doomed, Held
      <3> QED
        BY <3>2, <3>3
    <2> QED
      BY <2>6, <2>7 DEF ThreadsInv
  <1>7. ASSUME NEW s \in Streams, Drops(s)
        PROVE  ThreadsInv'
    <2>1. UNCHANGED <<size, cur, pos, thr, rOpen, rGot, state, sendErr, retry, rReleased>> /\ ~Held(s)
      BY <1>7 DEF Drops, giveUpVars
    <2>2. wire[s] \in Seq(Block) /\ wire[s] # <<>> /\ wire'[s] = Tail(wire[s]) /\ \A t \in Streams \ {s} : wire'[t] = wire[t]
      BY <1>7, StreamType DEF Drops, TypeOK, NetTypeOK
    <2>3. ASSUME NEW t \in Streams \ {s} PROVE ThreadAt(t)'
      BY <2>1, <2>2 DEF ThreadsInv, ThreadAt, InFile, Doomed, Held
    <2>4. ThreadAt(s)'
      <3>1. Len(wire[s]) \in Nat /\ Len(wire'[s]) = Len(wire[s]) - 1 /\ Len(wire[s]) >= 1
            /\ (wire'[s] = <<>> <=> Len(wire[s]) = 1)
        BY <2>2, Taken
      <3>2. CASE wire'[s] = <<>>
        BY <2>1, <3>2 DEF ThreadsInv, ThreadAt, InFile, Doomed, Held
      <3>3. CASE wire'[s] # <<>>
        <4>1. Len(wire'[s]) \in DOMAIN Tail(wire[s])
          BY <2>2, <3>1, <3>3, Taken
        <4>2. wire'[s][Len(wire'[s])] = wire[s][Len(wire[s])]
          BY <2>2, <3>1, <4>1, Taken
        <4> QED
          BY <2>1, <2>2, <3>3, <4>2 DEF ThreadsInv, ThreadAt, InFile, Doomed, Held
      <3> QED
        BY <3>2, <3>3
    <2> QED
      BY <2>3, <2>4 DEF ThreadsInv
  <1> QED
    BY <1>1, <1>2, <1>3, <1>4, <1>5, <1>6, <1>7, DataStep

(* A block in flight on a stream that the step leaves alone.               *)
LEMMA BlockFrame ==
  ASSUME TypeOK, BlocksInv, NEW t \in Streams, NEW i \in DOMAIN wire[t], wire'[t] = wire[t],
         cur'[t] = cur[t], pos'[t] \in Nat, pos'[t] >= pos[t], rOpen'[t] = rOpen[t], Held(t)' => Held(t),
         size'[wire[t][i].file] = size[wire[t][i].file], rGot'[wire[t][i].file] = rGot[wire[t][i].file]
  PROVE  BlockAt(t, i)'
  <1>1. BlockAt(t, i) /\ wire[t][i].blk \in Nat /\ pos[t] \in Nat
    BY StreamType DEF BlocksInv
  <1> QED
    BY <1>1 DEF BlockAt, LengthFits, AsInt

LEMMA BlocksStep ==
  ASSUME TypeOK, LifeInv, ThreadsInv, BlocksInv, OwnInv, FreshInv, CountInv, Next
  PROVE  BlocksInv'
  <1>1. CASE Quiet
    <2> SUFFICES ASSUME NEW t \in Streams, NEW i \in DOMAIN wire'[t] PROVE BlockAt(t, i)'
      BY DEF BlocksInv
    <2>1. UNCHANGED <<size, cur, pos, wire, rOpen, rGot>>
      BY <1>1 DEF Quiet, dataVars
    <2>2. wire[t] # <<>> /\ i \in DOMAIN wire[t] /\ pos[t] \in Nat
      BY <2>1, StreamType
    <2>3. Held(t)' => Held(t)
      BY <2>2, StaysReleased DEF LifeInv, LifeOf
    <2> QED
      BY <2>1, <2>2, <2>3, BlockFrame
  <1>2. ASSUME NEW s \in Streams, NEW f \in Files, TakesFile(s, f)
        PROVE  BlocksInv'
    <2> SUFFICES ASSUME NEW t \in Streams, NEW i \in DOMAIN wire'[t] PROVE BlockAt(t, i)'
      BY DEF BlocksInv
    <2>1. UNCHANGED <<size, wire, rOpen, rGot, state, sendErr, retry, rReleased>>
      BY <1>2 DEF TakesFile, giveUpVars
    <2>2. i \in DOMAIN wire[t] /\ (Held(t)' => Held(t)) /\ pos[t] \in Nat
      BY <2>1, StreamType DEF Held
    <2>3. CASE t # s
      <3>1. cur'[t] = cur[t] /\ pos'[t] = pos[t]
        BY <1>2, <2>3 DEF TakesFile, TypeOK, StreamTypeOK
      <3> QED
        BY <2>1, <2>2, <3>1, BlockFrame
    <2>4. CASE t = s
      <3>1. cur'[t] = f /\ cur[t] < f
        BY <1>2, <2>4 DEF TakesFile, TypeOK, StreamTypeOK, OwnInv
      <3>2. BlockAt(t, i) /\ wire[t][i].file \in Nat /\ cur[t] \in Nat /\ f \in Nat
        BY <2>2, StreamType, FileType DEF BlocksInv
      <3>3. wire[t][i].file < f
        BY <3>1, <3>2 DEF BlockAt
      <3> QED
        BY <2>1, <2>2, <3>1, <3>2, <3>3 DEF BlockAt, LengthFits, AsInt
    <2> QED
      BY <2>3, <2>4
  <1>3. ASSUME NEW f \in Files, PassesOver(f)
        PROVE  BlocksInv'
    <2> SUFFICES ASSUME NEW t \in Streams, NEW i \in DOMAIN wire'[t] PROVE BlockAt(t, i)'
      BY DEF BlocksInv
    <2>1. UNCHANGED <<cur, pos, wire, rOpen, rGot, state, sendErr, retry, rReleased>>
      BY <1>3 DEF PassesOver, giveUpVars
    <2>2. i \in DOMAIN wire[t] /\ (Held(t)' => Held(t)) /\ pos[t] \in Nat
      BY <2>1, StreamType DEF Held
    <2>3. BlockAt(t, i) /\ wire[t][i].file \in Nat /\ wire[t][i].file \in Files /\ cur[t] \in Nat /\ f \in Nat
      BY <2>2, StreamType, FileType DEF BlocksInv
    <2>4. cur[t] < f
      BY <1>3 DEF PassesOver, OwnInv
    <2>5. wire[t][i].file # f
      BY <2>3, <2>4 DEF BlockAt
    <2>6. size'[wire[t][i].file] = size[wire[t][i].file]
      BY <1>3, <2>3, <2>5 DEF PassesOver, TypeOK, ClientTypeOK
    <2> QED
      BY <2>1, <2>2, <2>6, BlockFrame
  <1>4. ASSUME NEW s \in Streams, Sends(s)
        PROVE  BlocksInv'
    <2> SUFFICES ASSUME NEW t \in Streams, NEW i \in DOMAIN wire'[t] PROVE BlockAt(t, i)'
      BY DEF BlocksInv
    <2>1. UNCHANGED <<size, cur, rOpen, rGot, state, sendErr, retry, rReleased>> /\ (Held(t)' <=> Held(t))
      BY <1>4 DEF Sends, giveUpVars, Held
    <2>2. CASE t # s
      <3>1. wire'[t] = wire[t] /\ pos'[t] = pos[t] /\ pos[t] \in Nat
        BY <1>4, <2>2, StreamType DEF Sends, TypeOK, StreamTypeOK, NetTypeOK
      <3> QED
        BY <2>1, <3>1, BlockFrame
    <2>3. CASE t = s
      <3> DEFINE b == NextBlock(s)
                 n == Len(wire[s])
      <3>1. wire'[s] = Append(wire[s], b) /\ pos'[s] = pos[s] + 1
        BY <1>4 DEF Sends, TypeOK, StreamTypeOK, NetTypeOK
      <3>2. /\ b \in Block /\ b.file = cur[s] /\ b.blk = pos[s] + 1 /\ cur[s] \in Files /\ pos[s] < size[cur[s]]
            /\ LengthFits => (b.fin <=> pos[s] + 1 = size[cur[s]])
        BY <1>4, SentBlock
      <3> HIDE DEF b
      <3>3. wire[s] \in Seq(Block) /\ pos[s] \in Nat /\ cur[s] \in Nat /\ size[cur[s]] \in Int
        BY <3>2, StreamType, FileType
      <3>4. /\ n \in Nat /\ DOMAIN wire'[s] = 1..(n + 1) /\ DOMAIN wire[s] = 1..n
            /\ \A k \in DOMAIN wire[s] : wire'[s][k] = wire[s][k]
            /\ wire'[s][n + 1] = b
        BY <3>1, <3>2, <3>3, Appended
      <3>5. CASE i \in DOMAIN wire[s]
        <4> DEFINE c == wire[s][i]
        <4>1. BlockAt(s, i) /\ wire'[s][i] = c /\ c.file \in Nat /\ c.blk \in Nat
          BY <3>4, <3>5, StreamType DEF BlocksInv
        <4>2. c.blk <= size'[c.file] /\ (LengthFits' => (c.fin <=> c.blk = size'[c.file]))
          BY <2>1, <4>1 DEF BlockAt, LengthFits, AsInt
        <4>3. c.file < cur'[s] \/ (c.file = cur'[s] /\ c.blk <= pos'[s])
          BY <2>1, <3>1, <3>3, <4>1 DEF BlockAt
        <4>4. i > 1 /\ c.blk > 1 => wire'[s][i - 1].file = c.file /\ wire'[s][i - 1].blk = c.blk - 1
          <5>1. i > 1 => i - 1 \in DOMAIN wire[s]
            BY <3>4, <3>5
          <5> QED
            BY <3>4, <4>1, <5>1 DEF BlockAt
        <4>5. i = 1 /\ c.blk > 1 /\ Held(s)' /\ rOpen'[s] = c.file => rGot'[c.file] = c.blk - 1
          BY <2>1, <2>3, <4>1 DEF BlockAt
        <4>6. ASSUME NEW j \in DOMAIN wire'[s], i < j
              PROVE  c.file < wire'[s][j].file \/ (c.file = wire'[s][j].file /\ c.blk < wire'[s][j].blk)
          <5>1. CASE j \in DOMAIN wire[s]
            BY <3>4, <4>1, <4>6, <5>1 DEF BlockAt
          <5>2. CASE j = n + 1
            <6>1. c.file < cur[s] \/ (c.file = cur[s] /\ c.blk <= pos[s])
              BY <4>1 DEF BlockAt
            <6>2. wire'[s][j] = b
              BY <3>4, <5>2
            <6> HIDE DEF c
            <6>3. CASE c.file < cur[s]
              BY <3>2, <6>2, <6>3
            <6>4. CASE c.file = cur[s] /\ c.blk <= pos[s]
              BY <3>2, <3>3, <4>1, <6>2, <6>4
            <6> QED
              BY <6>1, <6>3, <6>4
          <5> QED
            BY <3>4, <5>1, <5>2
        <4> HIDE DEF c
        <4> QED
          BY <2>3, <4>1, <4>2, <4>3, <4>4, <4>5, <4>6 DEF BlockAt
      <3>6. CASE i = n + 1
        <4>1. wire'[s][i] = b /\ ~(\E j \in DOMAIN wire'[s] : i < j)
          BY <3>4, <3>6
        <4>2. b.blk <= size'[b.file] /\ (LengthFits' => (b.fin <=> b.blk = size'[b.file]))
          <5>1. LengthFits' <=> LengthFits
            BY DEF LengthFits, AsInt
          <5> QED
            BY <2>1, <3>2, <3>3, <5>1
        <4>3. b.file = cur'[s] /\ b.blk <= pos'[s]
          BY <2>1, <3>1, <3>2, <3>3
        <4>4. thr[s] = "send" /\ ThreadAt(s)
          BY <1>4 DEF Sends, ThreadsInv
        <4>5. i > 1 /\ b.blk > 1 => wire'[s][i - 1].file = b.file /\ wire'[s][i - 1].blk = b.blk - 1
          <5>1. i > 1 => n \in DOMAIN wire[s] /\ wire[s] # <<>> /\ i - 1 = n
            BY <3>4, <3>6
          <5>2. b.blk > 1 => pos[s] > 0
            BY <3>2, <3>3
          <5>3. i > 1 /\ pos[s] > 0 => wire[s][n].file = cur[s] /\ wire[s][n].blk = pos[s]
            BY <4>4, <5>1 DEF ThreadAt, InFile
          <5>4. i > 1 => wire'[s][i - 1] = wire[s][n]
            BY <3>4, <5>1
          <5>5. b.blk - 1 = pos[s]
            BY <3>2, <3>3
          <5> QED
            BY <3>2, <5>2, <5>3, <5>4, <5>5
        <4>6. i = 1 /\ b.blk > 1 /\ Held(s)' /\ rOpen'[s] = b.file => rGot'[b.file] = b.blk - 1
          <5>1. i = 1 => wire[s] = <<>>
            BY <3>4, <3>6, StreamType
          <5> QED
            BY <2>1, <2>3, <3>2, <3>3, <4>4, <5>1 DEF ThreadAt, InFile
        <4> QED
          BY <2>3, <4>1, <4>2, <4>3, <4>5, <4>6 DEF BlockAt
      <3> QED
        BY <2>3, <3>4, <3>5, <3>6
    <2> QED
      BY <2>2, <2>3
  <1>5. ASSUME NEW s \in Streams, GivesUp(s)
        PROVE  BlocksInv'
    <2> SUFFICES ASSUME NEW t \in Streams, NEW i \in DOMAIN wire'[t] PROVE BlockAt(t, i)'
      BY DEF BlocksInv
    <2>1. UNCHANGED <<size, cur, wire, rOpen, rGot, state, sendErr, retry, rReleased>> /\ (Held(t)' <=> Held(t))
      BY <1>5 DEF GivesUp, giveUpVars, Held
    <2>2. pos'[t] = pos[t] \/ pos'[t] = pos[t] + 1
      BY <1>5 DEF GivesUp, TypeOK, StreamTypeOK
    <2>3. pos'[t] \in Nat /\ pos'[t] >= pos[t]
      BY <2>2, StreamType
    <2> QED
      BY <2>1, <2>3, BlockFrame
  <1>6. ASSUME NEW s \in Streams, Writes(s) \/ Drops(s)
        PROVE  BlocksInv'
    <2> SUFFICES ASSUME NEW t \in Streams, NEW i \in DOMAIN wire'[t] PROVE BlockAt(t, i)'
      BY DEF BlocksInv
    <2> DEFINE b == wire[s][1]
    <2>1. UNCHANGED <<size, cur, pos, thr, state, sendErr, retry, rReleased>> /\ (Held(t)' <=> Held(t))
      BY <1>6 DEF Writes, Drops, giveUpVars, Held
    <2>2. wire[s] \in Seq(Block) /\ wire[s] # <<>> /\ wire'[s] = Tail(wire[s])
          /\ \A u \in Streams \ {s} : wire'[u] = wire[u] /\ rOpen'[u] = rOpen[u]
      BY <1>6, StreamType DEF Writes, Drops, TypeOK, NetTypeOK, ServerTypeOK
    <2>3. b \in Block /\ 1 \in DOMAIN wire[s] /\ b.file \in Files
      BY <2>2, Taken, BlockType
    <2>4. \A f \in Files \ {b.file} : rGot'[f] = rGot[f]
      BY <1>6, <2>3 DEF Writes, Drops, TypeOK, ServerTypeOK
    <2>5. rGot'[b.file] = b.blk \/ ~Held(s)
      BY <1>6, <2>3 DEF Writes, Drops, TypeOK, ServerTypeOK
    <2>6. CASE t # s
      <3>1. wire'[t] = wire[t] /\ rOpen'[t] = rOpen[t] /\ pos[t] \in Nat
        BY <2>2, <2>6, StreamType
      <3>2. wire[t][i].file # b.file /\ wire[t][i].file \in Files
        BY <2>3, <2>6, <3>1, StreamType DEF OwnInv, Apart
      <3> QED
        BY <2>1, <2>4, <3>1, <3>2, BlockFrame
    <2>7. CASE t = s
      <3> DEFINE n == Len(wire[s])
      <3>1. /\ n \in Nat /\ n >= 1 /\ DOMAIN wire[s] = 1..n /\ DOMAIN wire'[s] = 1..(n - 1)
            /\ \A k \in DOMAIN wire'[s] : wire'[s][k] = wire[s][k + 1]
        BY <2>2, Taken
      <3> DEFINE c == wire[s][i + 1]
      <3>2. i \in Nat /\ i >= 1 /\ i + 1 \in DOMAIN wire[s] /\ wire'[s][i] = c
        BY <2>7, <3>1
      <3>3. BlockAt(s, i + 1) /\ c.file \in Files /\ c.blk \in Nat
        BY <3>2, StreamType DEF BlocksInv
      <3>4. c.blk <= size'[c.file] /\ (LengthFits' => (c.fin <=> c.blk = size'[c.file]))
        BY <2>1, <3>3 DEF BlockAt, LengthFits, AsInt
      <3>5. c.file < cur'[s] \/ (c.file = cur'[s] /\ c.blk <= pos'[s])
        BY <2>1, <3>3 DEF BlockAt
      <3>6. c.blk > 1 => wire[s][i].file = c.file /\ wire[s][i].blk = c.blk - 1
        <4>1. i + 1 > 1 /\ (i + 1) - 1 = i
          BY <3>2
        <4> QED
          BY <3>3, <4>1 DEF BlockAt
      <3>7. i > 1 /\ c.blk > 1 => wire'[s][i - 1].file = c.file /\ wire'[s][i - 1].blk = c.blk - 1
        <4>1. i > 1 => i - 1 \in DOMAIN wire'[s] /\ (i - 1) + 1 = i
          BY <3>1, <3>2
        <4>2. i > 1 => wire'[s][i - 1] = wire[s][i]
          BY <3>1, <4>1
        <4> QED
          BY <3>6, <4>2
      <3>8. i = 1 /\ c.blk > 1 /\ Held(s)' /\ rOpen'[s] = c.file => rGot'[c.file] = c.blk - 1
        BY <2>1, <2>5, <2>7, <3>6
      <3>9. ASSUME NEW j \in DOMAIN wire'[s], i < j
            PROVE  c.file < wire'[s][j].file \/ (c.file = wire'[s][j].file /\ c.blk < wire'[s][j].blk)
        <4>1. j + 1 \in DOMAIN wire[s] /\ i + 1 < j + 1 /\ wire'[s][j] = wire[s][j + 1]
          BY <3>1, <3>2, <3>9
        <4> QED
          BY <3>3, <4>1 DEF BlockAt
      <3> HIDE DEF c
      <3> QED
        BY <2>7, <3>2, <3>4, <3>5, <3>7, <3>8, <3>9 DEF BlockAt
    <2> QED
      BY <2>6, <2>7
  <1> QED
    BY <1>1, <1>2, <1>3, <1>4, <1>5, <1>6, DataStep

(* Two streams never have the same file.                                   *)
LEMMA OwnStep ==
  ASSUME TypeOK, LifeInv, ThreadsInv, BlocksInv, OwnInv, FreshInv, CountInv, Next
  PROVE  OwnInv'
  <1>1. CASE Quiet \/ \E s \in Streams : GivesUp(s)
    BY <1>1 DEF Quiet, GivesUp, dataVars, OwnInv, Apart
  <1>2. ASSUME NEW f \in Files, PassesOver(f)
        PROVE  OwnInv'
    BY <1>2 DEF PassesOver, OwnInv, Apart
  <1>3. ASSUME NEW s \in Streams, NEW f \in Files, TakesFile(s, f)
        PROVE  OwnInv'
    <2>1. UNCHANGED wire /\ cur'[s] = f /\ \A t \in Streams \ {s} : cur'[t] = cur[t]
      BY <1>3 DEF TakesFile, TypeOK, StreamTypeOK
    <2>2. \A t \in Streams : cur[t] < f /\ cur[t] \in Nat /\ f \in Nat /\ f # NoFile
      BY <1>3, StreamType, FileType DEF TakesFile, OwnInv
    <2>3. \A t \in Streams : \A i \in DOMAIN wire[t] : wire[t][i].file # f
      <3> SUFFICES ASSUME NEW t \in Streams, NEW i \in DOMAIN wire[t] PROVE wire[t][i].file # f
        OBVIOUS
      <3>1. BlockAt(t, i) /\ wire[t][i].file \in Nat
        BY StreamType DEF BlocksInv
      <3> QED
        BY <2>2, <3>1 DEF BlockAt
    <2>4. \A g \in queue' : f < g /\ g \in queue
      <3> SUFFICES ASSUME NEW g \in queue' PROVE f < g /\ g \in queue
        OBVIOUS
      <3>1. g \in queue /\ g # f /\ f <= g /\ g \in Files
        BY <1>3 DEF TakesFile, TypeOK, ClientTypeOK
      <3> QED
        BY <2>2, <3>1, FileType
    <2>5. \A t \in Streams : \A g \in queue' : cur'[t] < g
      BY <2>1, <2>4 DEF OwnInv
    <2>6. ASSUME NEW t \in Streams, NEW u \in Streams, t # u PROVE Apart(t, u)'
      <3>1. Apart(t, u)
        BY <2>6 DEF OwnInv
      <3>2. cur'[t] = cur'[u] => cur'[t] = NoFile
        BY <2>1, <2>2, <2>6, <3>1 DEF Apart
      <3>3. \A i \in DOMAIN wire'[t] : wire'[t][i].file # cur'[u]
        BY <2>1, <2>3, <3>1 DEF Apart
      <3> QED
        BY <2>1, <3>1, <3>2, <3>3 DEF Apart
    <2> QED
      BY <2>5, <2>6 DEF OwnInv
  <1>4. ASSUME NEW s \in Streams, Sends(s)
        PROVE  OwnInv'
    <2>1. UNCHANGED <<cur, queue>> /\ wire'[s] = Append(wire[s], NextBlock(s)) /\ \A t \in Streams \ {s} : wire'[t] = wire[t]
      BY <1>4 DEF Sends, TypeOK, NetTypeOK
    <2>2. NextBlock(s) \in Block /\ NextBlock(s).file = cur[s] /\ cur[s] # NoFile /\ wire[s] \in Seq(Block)
      BY <1>4, SentBlock, FileType, StreamType
    <2>3. \A i \in DOMAIN wire'[s] : (i \in DOMAIN wire[s] /\ wire'[s][i] = wire[s][i]) \/ wire'[s][i].file = cur[s]
      BY <2>1, <2>2, Appended
    <2>4. ASSUME NEW t \in Streams, NEW u \in Streams, t # u PROVE Apart(t, u)'
      <3>1. Apart(t, u) /\ Apart(u, t)
        BY <2>4 DEF OwnInv
      <3>2. CASE t = s
        <4>1. wire'[u] = wire[u] /\ cur[s] # cur[u] /\ \A j \in DOMAIN wire[u] : wire[u][j].file # cur[s]
          BY <2>1, <2>2, <2>4, <3>1, <3>2 DEF Apart
        <4>2. ASSUME NEW i \in DOMAIN wire'[s]
              PROVE  wire'[s][i].file # cur[u] /\ \A j \in DOMAIN wire[u] : wire'[s][i].file # wire[u][j].file
          <5>1. CASE wire'[s][i].file = cur[s]
            BY <4>1, <5>1
          <5>2. CASE i \in DOMAIN wire[s] /\ wire'[s][i] = wire[s][i]
            BY <3>1, <3>2, <5>2 DEF Apart
          <5> QED
            BY <2>3, <5>1, <5>2
        <4> QED
          BY <2>1, <3>2, <4>1, <4>2 DEF Apart
      <3>3. CASE u = s
        <4>1. wire'[t] = wire[t] /\ cur[s] # cur[t] /\ \A j \in DOMAIN wire[t] : wire[t][j].file # cur[s]
          BY <2>1, <2>2, <2>4, <3>1, <3>3 DEF Apart
        <4>2. ASSUME NEW i \in DOMAIN wire'[s], NEW j \in DOMAIN wire[t]
              PROVE  wire[t][j].file # wire'[s][i].file
          <5>1. CASE wire'[s][i].file = cur[s]
            BY <4>1, <5>1
          <5>2. CASE i \in DOMAIN wire[s] /\ wire'[s][i] = wire[s][i]
            BY <3>1, <3>3, <5>2 DEF Apart
          <5> QED
            BY <2>3, <5>1, <5>2
        <4> QED
          BY <2>1, <3>3, <4>1, <4>2 DEF Apart
      <3>4. CASE t # s /\ u # s
        BY <2>1, <3>1, <3>4 DEF Apart
      <3> QED
        BY <3>2, <3>3, <3>4
    <2> QED
      BY <2>1, <2>4 DEF OwnInv
  <1>5. ASSUME NEW s \in Streams, Writes(s) \/ Drops(s)
        PROVE  OwnInv'
    <2>1. UNCHANGED <<cur, queue>> /\ wire[s] # <<>> /\ wire'[s] = Tail(wire[s]) /\ \A t \in Streams \ {s} : wire'[t] = wire[t]
      BY <1>5 DEF Writes, Drops, TypeOK, NetTypeOK
    <2>2. wire[s] \in Seq(Block)
      BY StreamType
    <2>3. \A t \in Streams : \A i \in DOMAIN wire'[t] : \E j \in DOMAIN wire[t] : wire'[t][i] = wire[t][j]
      <3> SUFFICES ASSUME NEW t \in Streams, NEW i \in DOMAIN wire'[t]
                   PROVE  \E j \in DOMAIN wire[t] : wire'[t][i] = wire[t][j]
        OBVIOUS
      <3>1. CASE t # s
        BY <2>1, <3>1
      <3>2. CASE t = s
        <4>1. i + 1 \in DOMAIN wire[s] /\ wire'[s][i] = wire[s][i + 1]
          <5>1. /\ i \in DOMAIN Tail(wire[s]) /\ Len(wire[s]) \in Nat /\ DOMAIN wire[s] = 1..Len(wire[s])
                /\ DOMAIN Tail(wire[s]) = 1..(Len(wire[s]) - 1)
                /\ \A k \in DOMAIN Tail(wire[s]) : Tail(wire[s])[k] = wire[s][k + 1]
            BY <2>1, <2>2, <3>2, Taken
          <5> QED
            BY <2>1, <5>1
        <4> QED
          BY <3>2, <4>1
      <3> QED
        BY <3>1, <3>2
    <2> QED
      BY <2>1, <2>3 DEF OwnInv, Apart
  <1> QED
    BY <1>1, <1>2, <1>3, <1>4, <1>5, DataStep

LEMMA FreshStep ==
  ASSUME TypeOK, LifeInv, ThreadsInv, BlocksInv, OwnInv, FreshInv, CountInv, Next
  PROVE  FreshInv'
  <1>1. CASE Quiet
    BY <1>1 DEF Quiet, dataVars, FreshInv, FreshQueue, FreshFile, FreshBlock
  <1>2. ASSUME NEW f \in Files, PassesOver(f)
        PROVE  FreshInv'
    BY <1>2 DEF PassesOver, FreshInv, FreshQueue, FreshFile, FreshBlock
  <1>3. ASSUME NEW s \in Streams, NEW f \in Files, TakesFile(s, f)
        PROVE  FreshInv'
    <2>1. UNCHANGED <<wire, rGot>> /\ queue' \subseteq queue /\ f \in queue
      BY <1>3 DEF TakesFile
    <2>2. cur'[s] = f /\ \A t \in Streams \ {s} : cur'[t] = cur[t] /\ pos'[t] = pos[t]
      BY <1>3 DEF TakesFile, TypeOK, StreamTypeOK
    <2>3. \A t \in Streams : FreshFile(t)'
      BY <2>1, <2>2 DEF FreshInv, FreshQueue, FreshFile
    <2> QED
      BY <2>1, <2>3 DEF FreshInv, FreshQueue, FreshBlock
  <1>4. ASSUME NEW s \in Streams, Sends(s)
        PROVE  FreshInv'
    <2>1. UNCHANGED <<queue, cur, rGot>>
      BY <1>4 DEF Sends
    <2>2. /\ wire'[s] = Append(wire[s], NextBlock(s)) /\ pos'[s] = pos[s] + 1
          /\ \A t \in Streams \ {s} : wire'[t] = wire[t] /\ pos'[t] = pos[t]
      BY <1>4 DEF Sends, TypeOK, NetTypeOK, StreamTypeOK
    <2>3. /\ NextBlock(s) \in Block /\ NextBlock(s).file = cur[s] /\ NextBlock(s).blk = pos[s] + 1
          /\ cur[s] \in Files /\ pos[s] \in Nat /\ wire[s] \in Seq(Block)
      BY <1>4, SentBlock, StreamType
    <2>4. \A t \in Streams : FreshFile(t)'
      <3>1. pos'[s] # 0
        BY <2>2, <2>3
      <3> QED
        BY <2>1, <2>2, <3>1 DEF FreshInv, FreshFile
    <2>5. \A i \in DOMAIN wire'[s] :
             (i \in DOMAIN wire[s] /\ wire'[s][i] = wire[s][i]) \/ wire'[s][i] = NextBlock(s)
      BY <2>2, <2>3, Appended
    <2>6. NextBlock(s).blk = 1 => rGot[cur[s]] = 0
      <3>1. NextBlock(s).blk = 1 => pos[s] = 0
        BY <2>3
      <3> QED
        BY <2>3, <3>1 DEF FreshInv, FreshFile
    <2>7. \A t \in Streams : \A i \in DOMAIN wire'[t] : FreshBlock(t, i)'
      <3> SUFFICES ASSUME NEW t \in Streams, NEW i \in DOMAIN wire'[t] PROVE FreshBlock(t, i)'
        OBVIOUS
      <3>1. CASE i \in DOMAIN wire[t] /\ wire'[t][i] = wire[t][i]
        BY <2>1, <3>1 DEF FreshInv, FreshBlock
      <3>2. CASE t = s /\ wire'[s][i] = NextBlock(s)
        BY <2>1, <2>3, <2>6, <3>2 DEF FreshBlock
      <3> QED
        BY <2>2, <2>5, <3>1, <3>2
    <2> QED
      BY <2>1, <2>4, <2>7 DEF FreshInv, FreshQueue
  <1>5. ASSUME NEW s \in Streams, GivesUp(s)
        PROVE  FreshInv'
    <2>1. UNCHANGED <<queue, cur, wire, rGot>> /\ pos'[s] = pos[s] + 1 /\ \A t \in Streams \ {s} : pos'[t] = pos[t]
      BY <1>5 DEF GivesUp, TypeOK, StreamTypeOK
    <2>2. pos'[s] # 0
      BY <2>1, StreamType
    <2> QED
      BY <2>1, <2>2 DEF FreshInv, FreshQueue, FreshFile, FreshBlock
  <1>6. ASSUME NEW s \in Streams, Writes(s) \/ Drops(s)
        PROVE  FreshInv'
    <2> DEFINE b == wire[s][1]
    <2>1. UNCHANGED <<queue, cur, pos>>
      BY <1>6 DEF Writes, Drops
    <2>2. wire[s] \in Seq(Block) /\ wire[s] # <<>> /\ wire'[s] = Tail(wire[s])
          /\ \A t \in Streams \ {s} : wire'[t] = wire[t]
      BY <1>6, StreamType DEF Writes, Drops, TypeOK, NetTypeOK
    <2>3. /\ Len(wire[s]) \in Nat /\ DOMAIN wire[s] = 1..Len(wire[s])
          /\ DOMAIN wire'[s] = 1..(Len(wire[s]) - 1) /\ 1 \in DOMAIN wire[s]
          /\ \A i \in DOMAIN wire'[s] : wire'[s][i] = wire[s][i + 1]
      BY <2>2, Taken
    <2>4. \A i \in DOMAIN wire'[s] : i + 1 \in DOMAIN wire[s] /\ 1 < i + 1 /\ wire'[s][i] = wire[s][i + 1]
      BY <2>3
    <2>5. b \in Block /\ b.file \in Files /\ b.blk \in 1..MaxBlocks /\ b.blk \in Nat /\ b.file \in Nat /\ BlockAt(s, 1)
          /\ cur[s] \in Nat /\ pos[s] \in Nat
      BY <2>3, StreamType, BlockType DEF BlocksInv
    <2>6. \A f \in Files : f # b.file => rGot'[f] = rGot[f]
      BY <1>6, <2>5 DEF Writes, Drops, TypeOK, ServerTypeOK
    <2>7. b.file < cur[s] \/ (b.file = cur[s] /\ b.blk <= pos[s])
      BY <2>5 DEF BlockAt
    <2>8. ASSUME NEW f \in queue PROVE rGot'[f] = 0
      <3>1. f \in Files /\ cur[s] < f /\ f \in Nat
        BY FileType DEF TypeOK, ClientTypeOK, OwnInv
      <3>2. f # b.file
        BY <2>5, <2>7, <3>1
      <3> QED
        BY <2>6, <3>1, <3>2 DEF FreshInv, FreshQueue
    <2>9. ASSUME NEW t \in Streams PROVE FreshFile(t)'
      <3> SUFFICES ASSUME cur[t] \in Files, pos[t] = 0 PROVE rGot'[cur[t]] = 0
        BY <2>1 DEF FreshFile
      <3>1. cur[t] # b.file
        <4>1. CASE t = s
          BY <2>5, <2>7, <4>1
        <4>2. CASE t # s
          BY <2>3, <4>2 DEF OwnInv, Apart
        <4> QED
          BY <4>1, <4>2
      <3> QED
        BY <2>6, <3>1 DEF FreshInv, FreshFile
    <2>10. ASSUME NEW t \in Streams, NEW i \in DOMAIN wire'[t], wire'[t][i].blk = 1
           PROVE  rGot'[wire'[t][i].file] = 0
      <3>1. CASE t = s
        <4> DEFINE c == wire[s][i + 1]
        <4>1. i + 1 \in DOMAIN wire[s] /\ 1 < i + 1 /\ wire'[s][i] = c
          BY <2>4, <3>1
        <4>2. b.file < c.file \/ (b.file = c.file /\ b.blk < c.blk)
          BY <2>5, <4>1 DEF BlockAt
        <4>3. c.file \in Files /\ c.file \in Nat /\ c.blk = 1
          BY <2>10, <3>1, <4>1, StreamType
        <4>4. c.file # b.file
          BY <2>5, <4>2, <4>3
        <4>5. rGot[c.file] = 0
          BY <4>1, <4>3 DEF FreshInv, FreshBlock
        <4> QED
          BY <2>6, <3>1, <4>1, <4>3, <4>4, <4>5
      <3>2. CASE t # s
        <4>1. wire'[t] = wire[t] /\ wire[t][i].file # b.file /\ wire[t][i].file \in Files
          BY <2>2, <2>3, <2>10, <3>2, StreamType DEF OwnInv, Apart
        <4>2. rGot[wire[t][i].file] = 0
          BY <2>10, <4>1 DEF FreshInv, FreshBlock
        <4> QED
          BY <2>6, <4>1, <4>2
      <3> QED
        BY <3>1, <3>2
    <2> QED
      BY <2>1, <2>8, <2>9, <2>10 DEF FreshInv, FreshQueue, FreshBlock
  <1> QED
    BY <1>1, <1>2, <1>3, <1>4, <1>5, <1>6, DataStep

-----------------------------------------------------------------------------
(* The stored copies.                                                      *)

LEMMA CopyFrame ==
  ASSUME CopyInv, UNCHANGED <<name, rGot, rOpen, rWriter, rCopy, rFaulty>>
  PROVE  CopyInv'
  BY DEF CopyInv, StoredAt, WriterAt, Sole

LEMMA CopyStep ==
  ASSUME TypeOK, BlocksInv, FreshInv, CountInv, CopyInv, Next
  PROVE  CopyInv'
  <1> USE DEF testVars, recvVars
  <1>1. CASE ControlStep
    BY <1>1, ControlFrame, CopyFrame
  <1>2. ASSUME NEW s \in Streams,
               \/ DataEstablished(s) \/ DataTimeout(s) \/ DataFailed(s) \/ DataClosed(s)
               \/ SendDataError(s) \/ Fill(s) \/ ConnectionCallback(s)
        PROVE  CopyInv'
    BY <1>2, CopyFrame DEF DataEstablished, DataTimeout, DataFailed, DataClosed, SendDataError, Fill,
       ConnectionCallback, BufferFull, Writable, AllDataAcked
  <1>3. ASSUME NEW s \in Streams, TransferThread(s) \/ \E k \in Attempts : DataListenCallback(s, k)
        PROVE  CopyInv'
    BY <1>3, CopyFrame DEF TransferThread, FetchFile, ReadBlock, WaitWritable, SendBlock, RetryBlock, DataListenCallback
  <1>4. CASE HandleFileTransferRequest \/ ReceiverCtrlClosed \/ ReceiverInterval
    BY <1>4, CopyFrame DEF HandleFileTransferRequest, ReceiverCtrlClosed, ReceiverInterval
  <1>5. ASSUME NEW s \in Streams, HandleReceivedFileData(s)
        PROVE  CopyInv'
    <2>1. CASE <<s, retry[s]>> \notin rAccepted
      BY <1>5, <2>1, CopyFrame DEF HandleReceivedFileData
    <2>2. CASE <<s, retry[s]>> \in rAccepted
      <3> DEFINE b == wire[s][1]
      <3>1. Held(s)
        BY <2>2 DEF Held, CountInv
      <3>2. /\ b \in Block /\ WriteBlock(s, b) /\ rGot[b.file] + 1 = b.blk
            /\ rGot' = [rGot EXCEPT ![b.file] = b.blk] /\ UNCHANGED name
            /\ rOpen' = [rOpen EXCEPT ![s] = NoFile] \/ rOpen' = [rOpen EXCEPT ![s] = b.file]
        BY <1>5, <2>2, <3>1, WriteType DEF HandleReceivedFileData
      <3> HIDE DEF b
      <3>3. b.file \in Files /\ b.blk \in Nat /\ b.blk >= 1 /\ name[b.file] \in Files /\ rGot[b.file] \in Nat
        BY <3>2, BlockType, FileType DEF TypeOK, ClientTypeOK
      <3>4. b.blk = 1 \/ rOpen[s] = b.file
        BY <3>2 DEF WriteBlock
      <3>5. /\ rFaulty \subseteq rFaulty' /\ rFaulty' \subseteq rFaulty \cup {b.file}
            /\ \E c \in (Files \cup {NoFile}) \X (0..MaxBlocks) : rCopy' = [rCopy EXCEPT ![name[b.file]] = c]
            /\ \E w \in {"null", "good", "unopened", "bad"} : rWriter' = [rWriter EXCEPT ![s] = w]
            /\ b.file \notin rFaulty' =>
                  /\ WriterFor(s, b) \in {"good", "unopened"} /\ FinishFile(s, b)
                  /\ WriterFor(s, b) = "good" =>
                        rCopy'[name[b.file]] = IF b.blk = 1 \/ rCopy[name[b.file]] = <<b.file, b.blk - 1>>
                                               THEN <<b.file, b.blk>> ELSE Spoilt
        BY <3>2, WriteCopy
      <3>6. b.file \notin rFaulty' => WriterFor(s, b) = "good"
        BY <3>3, <3>4, <3>5 DEF WriterFor, CopyInv, WriterAt
      <3>7. ASSUME NEW f \in Files PROVE StoredAt(f)'
        <4> SUFFICES ASSUME f \notin rFaulty', Sole(f), rGot'[f] > 0 PROVE rCopy'[name[f]] = <<f, rGot'[f]>>
          BY <3>2 DEF StoredAt, Sole
        <4>1. CASE f = b.file
          <5>1. rCopy'[name[f]] = IF b.blk = 1 \/ rCopy[name[f]] = <<f, b.blk - 1>> THEN <<f, b.blk>> ELSE Spoilt
            BY <3>5, <3>6, <4>1
          <5>2. rGot'[f] = b.blk
            BY <3>2, <3>3, <4>1 DEF TypeOK, ServerTypeOK
          <5>3. b.blk # 1 => rCopy[name[f]] = <<f, b.blk - 1>>
            <6>1. rGot[f] = b.blk - 1 /\ (b.blk # 1 => rGot[f] > 0)
              BY <3>2, <3>3, <4>1
            <6> QED
              BY <3>5, <6>1 DEF CopyInv, StoredAt
          <5> QED
            BY <5>1, <5>2, <5>3
        <4>2. CASE f # b.file
          <5>1. name[f] # name[b.file] /\ name[f] \in Files
            BY <3>3, <4>2 DEF Sole, TypeOK, ClientTypeOK
          <5>2. rCopy'[name[f]] = rCopy[name[f]]
            BY <3>5, <5>1 DEF TypeOK, ServerTypeOK
          <5>3. rGot'[f] = rGot[f]
            BY <3>2, <4>2 DEF TypeOK, ServerTypeOK
          <5> QED
            BY <3>5, <5>2, <5>3 DEF CopyInv, StoredAt
        <4> QED
          BY <4>1, <4>2
      <3>8. ASSUME NEW t \in Streams PROVE WriterAt(t)'
        <4>1. CASE t # s
          <5>1. rOpen'[t] = rOpen[t] /\ rWriter'[t] = rWriter[t]
            BY <3>2, <3>5, <4>1 DEF TypeOK, ServerTypeOK
          <5> QED
            BY <3>5, <5>1 DEF CopyInv, WriterAt
        <4>2. CASE t = s
          <5> SUFFICES ASSUME rOpen'[s] \in Files \ rFaulty' PROVE rWriter'[s] = "good"
            BY <4>2 DEF WriterAt
          <5>1. rOpen'[s] \in {NoFile, b.file} /\ NoFile \notin Files
            BY <3>2, FileType DEF TypeOK, ServerTypeOK
          <5>2. FinishFile(s, b) /\ WriterFor(s, b) = "good"
            BY <3>5, <3>6, <5>1
          <5>3. rWriter'[s] = (IF b.fin THEN "null" ELSE "good") /\ rOpen'[s] = (IF b.fin THEN NoFile ELSE b.file)
            BY <5>2 DEF FinishFile, TypeOK, ServerTypeOK
          <5> QED
            BY <5>1, <5>3
        <4> QED
          BY <4>1, <4>2
      <3> QED
        BY <3>7, <3>8 DEF CopyInv
    <2> QED
      BY <2>1, <2>2
  <1> QED
    BY <1>1, <1>2, <1>3, <1>4, <1>5 DEF Next, ControlStep, Receiver

-----------------------------------------------------------------------------
(* Complete files.                                                         *)

LEMMA CompleteStep ==
  ASSUME TypeOK, LifeInv, ThreadsInv, BlocksInv, OwnInv, FreshInv, CountInv, Next, LengthFits, CompleteInv
  PROVE  CompleteInv'
  <1>0. rComplete \subseteq Files
    BY DEF TypeOK, ServerTypeOK
  <1>1. CASE Quiet
    BY <1>1 DEF Quiet, dataVars, CompleteInv, CompleteAt
  <1>2. ASSUME NEW f \in Files, PassesOver(f)
        PROVE  CompleteInv'
    <2>1. UNCHANGED <<cur, pos, wire, rGot, rComplete>> /\ f \notin rComplete /\ queue' \subseteq queue
      BY <1>2 DEF PassesOver, CompleteInv, CompleteAt
    <2>2. \A g \in rComplete : size'[g] = size[g]
      BY <1>0, <1>2, <2>1 DEF PassesOver, TypeOK, ClientTypeOK
    <2> QED
      BY <2>1, <2>2 DEF CompleteInv, CompleteAt
  <1>3. ASSUME NEW s \in Streams, NEW f \in Files, TakesFile(s, f)
        PROVE  CompleteInv'
    <2>1. UNCHANGED <<size, wire, rGot, rComplete>> /\ f \notin rComplete /\ queue' \subseteq queue
      BY <1>3 DEF TakesFile, CompleteInv, CompleteAt
    <2>2. cur'[s] = f /\ \A t \in Streams \ {s} : cur'[t] = cur[t] /\ pos'[t] = pos[t]
      BY <1>3 DEF TakesFile, TypeOK, StreamTypeOK
    <2> QED
      BY <2>1, <2>2 DEF CompleteInv, CompleteAt
  <1>4. ASSUME NEW s \in Streams, Sends(s)
        PROVE  CompleteInv'
    <2>1. UNCHANGED <<size, queue, cur, rGot, rComplete>>
      BY <1>4 DEF Sends
    <2>2. /\ wire'[s] = Append(wire[s], NextBlock(s)) /\ pos'[s] = pos[s] + 1
          /\ \A t \in Streams \ {s} : wire'[t] = wire[t] /\ pos'[t] = pos[t]
      BY <1>4 DEF Sends, TypeOK, NetTypeOK, StreamTypeOK
    <2>3. NextBlock(s) \in Block /\ NextBlock(s).file = cur[s] /\ cur[s] \in Files /\ pos[s] < size[cur[s]]
          /\ wire[s] \in Seq(Block)
      BY <1>4, SentBlock, StreamType
    <2>4. cur[s] \notin rComplete
      BY <2>3, StreamType, FileType DEF CompleteInv, CompleteAt
    <2>5. \A i \in DOMAIN wire'[s] : (i \in DOMAIN wire[s] /\ wire'[s][i] = wire[s][i]) \/ wire'[s][i].file = cur[s]
      BY <2>2, <2>3, Appended
    <2> SUFFICES ASSUME NEW f \in rComplete PROVE CompleteAt(f)'
      BY <2>1 DEF CompleteInv
    <2>6. CompleteAt(f) /\ cur[s] # f
      BY <2>4 DEF CompleteInv
    <2>7. \A t \in Streams : cur'[t] = f => pos'[t] >= size'[f]
      BY <2>1, <2>2, <2>6 DEF CompleteAt
    <2>8. \A i \in DOMAIN wire'[s] : wire'[s][i].file # f
      BY <2>5, <2>6 DEF CompleteAt
    <2> QED
      BY <2>1, <2>2, <2>6, <2>7, <2>8 DEF CompleteAt
  <1>5. ASSUME NEW s \in Streams, GivesUp(s)
        PROVE  CompleteInv'
    <2>1. UNCHANGED <<size, queue, cur, wire, rGot, rComplete>>
      BY <1>5 DEF GivesUp
    <2>2. \A t \in Streams : pos'[t] = pos[t] \/ pos'[t] = pos[t] + 1
      BY <1>5 DEF GivesUp, TypeOK, StreamTypeOK
    <2> SUFFICES ASSUME NEW f \in rComplete PROVE CompleteAt(f)'
      BY <2>1 DEF CompleteInv
    <2>3. CompleteAt(f) /\ size[f] \in Int
      BY <1>0, FileType DEF CompleteInv
    <2>4. ASSUME NEW t \in Streams, cur'[t] = f PROVE pos'[t] >= size'[f]
      <3>1. pos[t] >= size[f] /\ pos[t] \in Nat
        BY <2>1, <2>3, <2>4, StreamType DEF CompleteAt
      <3> QED
        BY <2>1, <2>2, <2>3, <3>1
    <2> QED
      BY <2>1, <2>3, <2>4 DEF CompleteAt
  <1>6. ASSUME NEW s \in Streams, Writes(s) \/ Drops(s)
        PROVE  CompleteInv'
    <2> DEFINE b == wire[s][1]
    <2>1. UNCHANGED <<size, queue, cur, pos>>
      BY <1>6 DEF Writes, Drops
    <2>2. wire[s] \in Seq(Block) /\ wire[s] # <<>> /\ wire'[s] = Tail(wire[s])
          /\ \A t \in Streams \ {s} : wire'[t] = wire[t]
      BY <1>6, StreamType DEF Writes, Drops, TypeOK, NetTypeOK
    <2>3. /\ Len(wire[s]) \in Nat /\ DOMAIN wire[s] = 1..Len(wire[s])
          /\ DOMAIN wire'[s] = 1..(Len(wire[s]) - 1) /\ 1 \in DOMAIN wire[s]
          /\ \A i \in DOMAIN wire'[s] : wire'[s][i] = wire[s][i + 1]
      BY <2>2, Taken
    <2>4. \A i \in DOMAIN wire'[s] : i + 1 \in DOMAIN wire[s] /\ 1 < i + 1 /\ wire'[s][i] = wire[s][i + 1]
      BY <2>3
    <2>5. b.file \in Files /\ b.blk \in Nat /\ b.file \notin rComplete /\ BlockAt(s, 1)
      BY <2>3, StreamType DEF CompleteInv, CompleteAt, BlocksInv
    <2>6. ASSUME NEW f \in rComplete PROVE CompleteAt(f)'
      <3>1. CompleteAt(f) /\ f # b.file
        BY <2>5 DEF CompleteInv
      <3>2. rGot'[f] = rGot[f]
        BY <1>0, <1>6, <2>5, <3>1 DEF Writes, Drops, TypeOK, ServerTypeOK
      <3>3. \A t \in Streams : \A i \in DOMAIN wire'[t] : wire'[t][i].file # f
        <4>1. \A i \in DOMAIN wire'[s] : wire'[s][i].file # f
          BY <2>4, <3>1 DEF CompleteAt
        <4>2. \A t \in Streams \ {s} : \A i \in DOMAIN wire'[t] : wire'[t][i].file # f
          BY <2>2, <3>1 DEF CompleteAt
        <4> QED
          BY <4>1, <4>2
      <3> QED
        BY <2>1, <3>1, <3>2, <3>3 DEF CompleteAt
    <2>7. ASSUME Writes(s), b.fin, NEW f \in Files, f = b.file PROVE CompleteAt(f)'
      <3>1. b.blk = size[b.file] /\ rGot'[b.file] = b.blk /\ b.blk > 0
        <4>1. b.blk \in 1..MaxBlocks
          BY <2>3, StreamType, BlockType
        <4> QED
          BY <2>5, <2>7, <4>1 DEF Writes, BlockAt, TypeOK, ServerTypeOK
      <3>2. b.file \in Nat /\ cur[s] \in Nat /\ pos[s] \in Nat /\ size[b.file] \in Int
        BY <2>5, StreamType, FileType
      <3>3. b.file < cur[s] \/ (b.file = cur[s] /\ b.blk <= pos[s])
        BY <2>5 DEF BlockAt
      <3>4. b.file \notin queue
        <4> SUFFICES ASSUME b.file \in queue PROVE FALSE
          OBVIOUS
        <4>1. cur[s] < b.file
          BY DEF OwnInv
        <4> QED
          BY <3>2, <3>3, <4>1
      <3>5. ASSUME NEW t \in Streams, cur[t] = b.file PROVE pos[t] >= size[b.file]
        <4>1. t = s
          BY <2>3, <3>5 DEF OwnInv, Apart
        <4> QED
          BY <3>1, <3>2, <3>3, <3>5, <4>1
      <3>6. ASSUME NEW i \in DOMAIN wire'[s] PROVE wire'[s][i].file # b.file
        <4> DEFINE c == wire[s][i + 1]
        <4>1. i + 1 \in DOMAIN wire[s] /\ 1 < i + 1 /\ wire'[s][i] = c
          BY <2>4
        <4>2. b.file < c.file \/ (b.file = c.file /\ b.blk < c.blk)
          BY <2>5, <4>1 DEF BlockAt
        <4>3. c.blk <= size[c.file] /\ c.blk \in Nat /\ c.file \in Nat
          BY <4>1, StreamType DEF BlocksInv, BlockAt
        <4> QED
          BY <3>1, <3>2, <4>1, <4>2, <4>3
      <3>7. ASSUME NEW t \in Streams \ {s}, NEW i \in DOMAIN wire'[t] PROVE wire'[t][i].file # b.file
        BY <2>2, <2>3, <3>7 DEF OwnInv, Apart
      <3> HIDE DEF b
      <3>8. \A t \in Streams : \A i \in DOMAIN wire'[t] : wire'[t][i].file # f
        BY <2>7, <3>6, <3>7
      <3> QED
        BY <2>1, <2>7, <3>1, <3>4, <3>5, <3>8 DEF CompleteAt
    <2>8. rComplete' = rComplete \/ (Writes(s) /\ b.fin /\ rComplete' = rComplete \cup {b.file})
      BY <1>6 DEF Writes, Drops
    <2> HIDE DEF b
    <2> QED
      BY <2>5, <2>6, <2>7, <2>8 DEF CompleteInv
  <1> QED
    BY <1>1, <1>2, <1>3, <1>4, <1>5, <1>6, DataStep

-----------------------------------------------------------------------------
(* The server's count of files.                                            *)

LEMMA CountFrame ==
  ASSUME CountInv, UNCHANGED recvVars
  PROVE  CountInv'
  BY DEF CountInv, recvVars, LengthFits, AsInt

LEMMA CompleteSize ==
  ASSUME TypeOK
  PROVE  /\ IsFiniteSet(rComplete) /\ Cardinality(rComplete) \in Nat
         /\ \A f \in Files \ rComplete : Cardinality(rComplete \cup {f}) = Cardinality(rComplete) + 1
                                         /\ Cardinality(rComplete) < NumFiles
         /\ Cardinality(rComplete) >= NumFiles => rComplete = Files
  <1>1. IsFiniteSet(Files) /\ Cardinality(Files) = NumFiles
    <2>1. NumFiles \in Nat
      BY ConstantsAssumption
    <2>2. /\ IsFiniteSet(1..NumFiles) /\ Cardinality(1..NumFiles) = IF 1 > NumFiles THEN 0 ELSE NumFiles - 1 + 1
      BY <2>1, FS_Interval
    <2>3. (IF 1 > NumFiles THEN 0 ELSE NumFiles - 1 + 1) = NumFiles
      BY <2>1
    <2> QED
      BY <2>2, <2>3 DEF Files
  <1>2. rComplete \in SUBSET Files
    BY DEF TypeOK, ServerTypeOK
  <1>0. /\ IsFiniteSet(rComplete) /\ Cardinality(rComplete) <= Cardinality(Files)
        /\ Cardinality(Files) = Cardinality(rComplete) => Files = rComplete
    BY <1>1, <1>2, FS_Subset
  <1>4. Cardinality(rComplete) \in Nat /\ Cardinality(Files) \in Nat
    BY <1>0, <1>1, FS_CardinalityType
  <1>3. IsFiniteSet(rComplete) /\ (rComplete = Files \/ Cardinality(rComplete) < Cardinality(Files))
    BY <1>0, <1>4
  <1>5. ASSUME NEW f \in Files \ rComplete
        PROVE  Cardinality(rComplete \cup {f}) = Cardinality(rComplete) + 1
    BY <1>3, FS_AddElement
  <1>6. ASSUME NEW f \in Files \ rComplete
        PROVE  Cardinality(rComplete) < NumFiles
    BY <1>1, <1>3
  <1>7. Cardinality(rComplete) >= NumFiles => rComplete = Files
    BY <1>1, <1>3, <1>4, ConstantsAssumption
  <1> QED
    BY <1>3, <1>4, <1>5, <1>6, <1>7

LEMMA CountStep ==
  ASSUME TypeOK, BlocksInv, FreshInv, LengthFits => CompleteInv, CountInv, Next
  PROVE  CountInv'
  <1>0. LengthFits' <=> LengthFits
    BY DEF LengthFits, AsInt
  <1>1. CASE ControlStep
    BY <1>1, CountFrame, ControlFrame
  <1>2. ASSUME NEW s \in Streams,
               \/ DataEstablished(s) \/ DataTimeout(s) \/ DataFailed(s) \/ DataClosed(s)
               \/ SendDataError(s) \/ Fill(s) \/ ConnectionCallback(s) \/ TransferThread(s)
        PROVE  CountInv'
    BY <1>2, CountFrame DEF DataEstablished, DataTimeout, DataFailed, DataClosed, SendDataError, Fill,
       ConnectionCallback, BufferFull, Writable, AllDataAcked, TransferThread, FetchFile, ReadBlock, WaitWritable,
       SendBlock, RetryBlock
  <1>3. CASE HandleFileTransferRequest
    <2>1. ~rGranted /\ rComplete = {} /\ rAccepted = {} /\ UNCHANGED <<rComplete, rAccepted, rReleased>> /\ rPhase' = "table"
      BY <1>3 DEF HandleFileTransferRequest, CountInv
    <2>2. rGranted' => rFiles' = NumFiles
      BY <1>3, <2>1 DEF HandleFileTransferRequest
    <2>3. NumFiles = NumFiles - Cardinality(rComplete)
      <3>1. Cardinality({}) = 0
        BY FS_EmptySet
      <3> QED
        BY <2>1, <3>1, ConstantsAssumption
    <2> QED
      BY <2>1, <2>2, <2>3 DEF CountInv
  <1>4. CASE ReceiverCtrlClosed
    BY <1>0, <1>4 DEF ReceiverCtrlClosed, CountInv
  <1>5. CASE ReceiverInterval
    BY <1>0, <1>5 DEF ReceiverInterval, CountInv
  <1>6. ASSUME NEW s \in Streams, NEW k \in Attempts, DataListenCallback(s, k)
        PROVE  CountInv'
    BY <1>0, <1>6 DEF DataListenCallback, CountInv
  <1>7. ASSUME NEW s \in Streams, HandleReceivedFileData(s)
        PROVE  CountInv'
    <2>1. UNCHANGED <<rPhase, rGranted, rAccepted, rReleased>>
      BY <1>7 DEF HandleReceivedFileData
    <2>2. CASE <<s, retry[s]>> \notin rAccepted
      BY <1>0, <1>7, <2>1, <2>2 DEF HandleReceivedFileData, CountInv
    <2>3. CASE <<s, retry[s]>> \in rAccepted
      <3> DEFINE b == wire[s][1]
      <3>1. Held(s) /\ rGranted
        BY <2>3 DEF Held, CountInv
      <3>2. /\ 1 \in DOMAIN wire[s] /\ b \in Block
            /\ \/ UNCHANGED <<rComplete, rFiles>>
               \/ b.fin /\ rComplete' = rComplete \cup {b.file} /\ rFiles' = IF rFiles > 0 THEN rFiles - 1 ELSE rFiles
        BY <1>7, <2>3, <3>1, WriteType
      <3>3. ASSUME LengthFits PROVE rFiles' = NumFiles - Cardinality(rComplete')
        <4>1. rFiles = NumFiles - Cardinality(rComplete)
          BY <3>1, <3>3 DEF CountInv
        <4>2. CASE rComplete' = rComplete \cup {b.file} /\ rFiles' = IF rFiles > 0 THEN rFiles - 1 ELSE rFiles
          <5>1. b.file \in Files \ rComplete
            BY <3>2, <3>3, BlockType DEF CompleteInv, CompleteAt
          <5>2. Cardinality(rComplete) \in Nat /\ Cardinality(rComplete') = Cardinality(rComplete) + 1
                /\ Cardinality(rComplete) < NumFiles
            BY <4>2, <5>1, CompleteSize
          <5> QED
            BY <4>1, <4>2, <5>2, ConstantsAssumption
        <4>3. CASE UNCHANGED <<rComplete, rFiles>>
          BY <4>1, <4>3
        <4> QED
          BY <3>2, <4>2, <4>3
      <3> QED
        BY <1>0, <2>1, <3>1, <3>3 DEF CountInv
    <2> QED
      BY <2>2, <2>3
  <1> QED
    BY <1>1, <1>2, <1>3, <1>4, <1>5, <1>6, <1>7 DEF Next, ControlStep, Receiver

-----------------------------------------------------------------------------
(* Deliveries.                                                             *)

(* What stays so once it is so.                                            *)
LEMMA Stays ==
  ASSUME TypeOK, LifeInv, Next
  PROVE  /\ Opened => Opened' /\ (state' # "DONE" => state # "DONE")
         /\ sigint => sigint'
         /\ rClosed => rClosed'
         /\ \A s \in Streams : (sendErr[s] => sendErr'[s]) /\ (allAcked[s] => allAcked'[s])
         /\ listed' => listed \/ OnRecvResponse
  <1> USE DEF mainVars, testVars, flagVars, recvVars
  <1>1. CASE Main
    BY <1>1 DEF Main, Start, WaitReady, SenderInterval, WaitDone, StopAll, Exit, LifeInv, Opened
  <1>8. CASE StopSteps \/ InterruptStops \/ IOBlocks
    BY <1>8 DEF StopSteps, StoreDone, LockStreams, EndStop, InterruptStops, IOBlocks, Opened
  <1>2. CASE CtrlChannel \/ CtrlEstablished \/ CtrlFailed \/ Interrupt \/ BreakCtrl
    BY <1>2 DEF CtrlChannel, OnRecvResponse, CtrlClosed, CtrlEstablished, CtrlFailed, Interrupt, BreakCtrl, Opened
  <1>3. ASSUME NEW s \in Streams,
               \/ DataEstablished(s) \/ DataTimeout(s) \/ DataFailed(s) \/ DataClosed(s)
               \/ SendDataError(s) \/ Fill(s) \/ ConnectionCallback(s)
        PROVE  UNCHANGED <<ctrl, state, sigint, rClosed, listed>> /\ \A t \in Streams : (sendErr[t] => sendErr'[t]) /\ (allAcked[t] => allAcked'[t])
    BY <1>3 DEF DataEstablished, DataTimeout, DataFailed, DataClosed, SendDataError, Fill,
       ConnectionCallback, BufferFull, Writable, AllDataAcked, TypeOK, StreamTypeOK
  <1>4. ASSUME NEW s \in Streams, TransferThread(s)
        PROVE  UNCHANGED <<ctrl, state, sigint, rClosed, listed, sendErr, allAcked>>
    BY <1>4 DEF TransferThread, FetchFile, ReadBlock, WaitWritable, SendBlock, RetryBlock
  <1>5. CASE HandleFileTransferRequest
    BY <1>5 DEF HandleFileTransferRequest, Opened
  <1>6. CASE ReceiverCtrlClosed \/ ReceiverInterval
    BY <1>6 DEF ReceiverCtrlClosed, ReceiverInterval, Opened
  <1>7. ASSUME NEW s \in Streams, HandleReceivedFileData(s) \/ \E k \in Attempts : DataListenCallback(s, k)
        PROVE  UNCHANGED <<ctrl, state, sigint, rClosed, listed, sendErr, allAcked>>
    BY <1>7 DEF HandleReceivedFileData, DataListenCallback
  <1> QED
    BY <1>1, <1>2, <1>3, <1>4, <1>5, <1>6, <1>7, <1>8 DEF Next, Receiver, Opened

LEMMA ReleasedIsClosed ==
  ASSUME TypeOK, rReleased # {} => rClosed, Next
  PROVE  rReleased' # {} => rClosed'
  <1> USE DEF recvVars
  <1>1. CASE ControlStep
    BY <1>1, ControlFrame
  <1>2. ASSUME NEW s \in Streams,
               \/ DataEstablished(s) \/ DataTimeout(s) \/ DataFailed(s) \/ DataClosed(s)
               \/ SendDataError(s) \/ Fill(s) \/ ConnectionCallback(s) \/ TransferThread(s)
        PROVE  UNCHANGED <<rReleased, rClosed>>
    BY <1>2 DEF DataEstablished, DataTimeout, DataFailed, DataClosed, SendDataError, Fill, ConnectionCallback,
       BufferFull, Writable, AllDataAcked, TransferThread, FetchFile, ReadBlock, WaitWritable, SendBlock, RetryBlock
  <1>3. CASE Receiver \/ ReceiverInterval
    BY <1>3 DEF Receiver, ReceiverInterval, HandleFileTransferRequest, ReceiverCtrlClosed,
       HandleReceivedFileData, DataListenCallback
  <1> QED
    BY <1>1, <1>2, <1>3 DEF Next, ControlStep

(* Before the response nothing has left the queue.                         *)
LEMMA NothingTaken ==
  ASSUME TypeOK, LifeInv, ThreadsInv, BlocksInv, FreshInv, CountInv, Next, ~Opened
  PROVE  Quiet
  <1>1. \A s \in Streams : thr[s] = "off" /\ wire[s] = <<>>
    BY DEF LifeInv, LifeOf
  <1> QED
    BY <1>1, DataStep DEF Sends, GivesUp, Writes, Drops, TakesFile, PassesOver

(* A file that has come to its end stays so, and its last block ends it.   *)
LEMMA WrittenStays ==
  ASSUME TypeOK, BlocksInv, LengthFits, NEW s \in Streams, Writes(s), NEW f \in Files
  PROVE  LET b == wire[s][1]
         IN  (rGot[f] = size[f] => rGot'[f] = size'[f]) /\ (b.file = f /\ b.fin => rGot'[f] = size'[f])
  <1> DEFINE b == wire[s][1]
  <1>1. wire[s] \in Seq(Block) /\ wire[s] # <<>>
    BY StreamType DEF Writes
  <1>2. 1 \in DOMAIN wire[s] /\ b.file \in Files /\ b.blk \in Nat /\ BlockAt(s, 1)
    BY <1>1, Taken, BlockType DEF BlocksInv
  <1>3. b.blk <= size[b.file] /\ (b.fin <=> b.blk = size[b.file])
    BY <1>2 DEF BlockAt
  <1>4. rGot[b.file] + 1 = b.blk /\ rGot' = [rGot EXCEPT ![b.file] = b.blk] /\ UNCHANGED size
    BY DEF Writes
  <1> HIDE DEF b
  <1>5. rGot[f] \in Nat /\ size[f] \in Int /\ rGot'[f] = IF f = b.file THEN b.blk ELSE rGot[f]
    BY <1>2, <1>4, FileType DEF TypeOK, ServerTypeOK
  <1>6. (rGot[f] = size[f] => rGot'[f] = size'[f]) /\ (b.file = f /\ b.fin => rGot'[f] = size'[f])
    BY <1>2, <1>3, <1>4, <1>5
  <1> QED
    BY <1>6 DEF b

(* A thread that was told to give up never sets is_done.                   *)
LEMMA QuitsStays ==
  ASSUME TypeOK, LifeInv, Next, listed, listed', NEW s \in Streams, Quits(s)
  PROVE  Quits(s)'
  <1> USE DEF testVars, flagVars, thrVars
  <1>1. Doomed(s)' /\ thr[s] # "off" /\ ctrl # "ok"
    BY StaysDoomed DEF Quits, LifeInv, LifeOf, Opened
  <1>2. CASE ControlStep
    <2>1. UNCHANGED thr
      BY <1>2, ControlFrame
    <2>2. UNCHANGED isDone
      <3>1. CASE Main
        BY <3>1 DEF Main, Start, WaitReady, SenderInterval, WaitDone, StopAll, Exit
      <3>2. CASE StopSteps \/ InterruptStops \/ IOBlocks
        BY <3>2 DEF StopSteps, StoreDone, LockStreams, EndStop, InterruptStops, IOBlocks
      <3>3. CASE CtrlChannel \/ CtrlEstablished \/ CtrlFailed \/ Interrupt \/ BreakCtrl
        BY <1>1, <3>3 DEF CtrlChannel, OnRecvResponse, CtrlClosed, CtrlEstablished, CtrlFailed, Interrupt, BreakCtrl
      <3> QED
        BY <1>2, <3>1, <3>2, <3>3 DEF ControlStep
    <2> QED
      BY <1>1, <2>1, <2>2 DEF Quits
  <1>3. ASSUME NEW t \in Streams,
               \/ DataEstablished(t) \/ DataTimeout(t) \/ DataFailed(t) \/ DataClosed(t)
               \/ SendDataError(t) \/ Fill(t) \/ ConnectionCallback(t)
        PROVE  Quits(s)'
    BY <1>1, <1>3 DEF DataEstablished, DataTimeout, DataFailed, DataClosed, SendDataError, Fill,
       ConnectionCallback, BufferFull, Writable, AllDataAcked, TypeOK, StreamTypeOK, Quits
  <1>4. ASSUME NEW t \in Streams, FetchFile(t)
        PROVE  Quits(s)'
    <2>1. thr[t] = "fetch" /\ (UNCHANGED isDone \/ (~Doomed(t) /\ isDone' = [isDone EXCEPT ![t] = TRUE]))
      BY <1>4 DEF FetchFile, Doomed
    <2>2. thr'[s] # "off"
      BY <1>1, <1>4 DEF FetchFile, TypeOK, StreamTypeOK
    <2> QED
      BY <1>1, <2>1, <2>2 DEF Quits, TypeOK, StreamTypeOK
  <1>5. ASSUME NEW t \in Streams, ReadBlock(t) \/ WaitWritable(t) \/ SendBlock(t) \/ RetryBlock(t)
        PROVE  Quits(s)'
    BY <1>1, <1>5 DEF ReadBlock, WaitWritable, SendBlock, RetryBlock, TypeOK, StreamTypeOK, Quits
  <1>6. CASE Receiver \/ ReceiverInterval
    BY <1>1, <1>6 DEF Receiver, ReceiverInterval, HandleFileTransferRequest, ReceiverCtrlClosed,
       HandleReceivedFileData, DataListenCallback, Quits
  <1> QED
    BY <1>2, <1>3, <1>4, <1>5, <1>6 DEF Next, ControlStep, TransferThread

LEMMA DeliverStep ==
  ASSUME TypeOK, LifeInv, ThreadsInv, BlocksInv, OwnInv, FreshInv, CountInv, DeliverInv, Next,
         \A s \in Streams : FinishedAt(s)
  PROVE  DeliverInv'
  <1>0. LengthFits' <=> LengthFits
    BY DEF LengthFits, AsInt
  <1>1. rReleased' # {} => rClosed'
    BY ReleasedIsClosed DEF DeliverInv
  <1>2. CASE ~Opened
    <2>1. UNCHANGED <<size, queue>>
      BY <1>2, NothingTaken DEF Quiet, dataVars
    <2>2. \A f \in Files : size'[f] <= 0 \/ f \in queue'
      BY <1>2, <2>1 DEF DeliverInv
    <2> QED
      BY <1>1, <2>2 DEF DeliverInv, Cared
  <1>3. CASE Opened
    <2>1. Opened'
      BY <1>3, Stays
    <2>0. listed' => listed
      BY <1>3, Stays DEF OnRecvResponse, Opened
    <2>11. ASSUME listed', NEW s \in Streams, Quits(s) PROVE DeliverInv'
      BY <1>1, <2>0, <2>1, <2>11, QuitsStays DEF DeliverInv
    <2> SUFFICES ASSUME LengthFits, listed', ~rClosed', ~\E s \in Streams : Quits(s)
                 PROVE  \A f \in Files : Cared(f)'
      BY <1>0, <1>1, <2>1, <2>11 DEF DeliverInv
    <2>2. ~rClosed /\ \A s \in Streams : InFile(s) => ~Doomed(s)
      BY <2>0, Stays DEF Quits, InFile, FinishedAt
    <2>3. \A f \in Files : Cared(f)
      BY <2>0, <2>2 DEF DeliverInv
    <2>4. CASE Quiet
      <3> SUFFICES ASSUME NEW f \in Files PROVE Cared(f)'
        OBVIOUS
      <3>1. UNCHANGED <<size, queue, cur, pos, wire, rGot>>
        BY <2>4 DEF Quiet, dataVars
      <3>2. ASSUME NEW s \in Streams, Sending(s, f) PROVE Sending(s, f)'
        <4>1. CASE cur[s] = f /\ InFile(s) /\ pos[s] < size[f]
          <5>1. ~Doomed(s)
            BY <2>2, <4>1
          <5>2. InFile(s)'
            BY <2>4, <4>1, <5>1 DEF Quiet, StaysIn, InFile
          <5> QED
            BY <3>1, <4>1, <5>2 DEF Sending
        <4>2. CASE \E i \in DOMAIN wire[s] : wire[s][i].file = f /\ wire[s][i].fin
          BY <3>1, <4>2 DEF Sending
        <4> QED
          BY <3>2, <4>1, <4>2 DEF Sending
      <3> QED
        BY <2>3, <3>1, <3>2 DEF Cared
    <2>5. ASSUME NEW s \in Streams, NEW g \in Files, TakesFile(s, g)
          PROVE  \A f \in Files : Cared(f)'
      <3> SUFFICES ASSUME NEW f \in Files PROVE Cared(f)'
        OBVIOUS
      <3>1. UNCHANGED <<size, wire, rGot>> /\ queue' = queue \ {g} /\ thr[s] = "fetch"
        BY <2>5 DEF TakesFile
      <3>2. thr'[s] = "read" /\ cur'[s] = g /\ pos'[s] = 0
            /\ \A t \in Streams \ {s} : thr'[t] = thr[t] /\ cur'[t] = cur[t] /\ pos'[t] = pos[t]
        BY <2>5 DEF TakesFile, TypeOK, StreamTypeOK
      <3>3. CASE f = g
        <4>1. size[f] \in Int
          BY FileType
        <4>2. size'[f] <= 0 \/ pos'[s] < size'[f]
          BY <3>1, <3>2, <4>1
        <4> QED
          BY <3>2, <3>3, <4>2 DEF Cared, Sending, InFile
      <3>4. CASE f # g
        <4>1. ASSUME NEW t \in Streams, Sending(t, f) PROVE Sending(t, f)'
          BY <3>1, <3>2, <4>1 DEF Sending, InFile
        <4> QED
          BY <2>3, <3>1, <3>4, <4>1 DEF Cared
      <3> QED
        BY <3>3, <3>4
    <2>6. ASSUME NEW g \in Files, PassesOver(g)
          PROVE  \A f \in Files : Cared(f)'
      <3> SUFFICES ASSUME NEW f \in Files PROVE Cared(f)'
        OBVIOUS
      <3>1. UNCHANGED <<thr, cur, pos, wire, rGot>> /\ queue' = queue \ {g}
        BY <2>6 DEF PassesOver
      <3>2. size'[f] = IF f = g THEN -1 ELSE size[f]
        BY <2>6 DEF PassesOver, Skipped, TypeOK, ClientTypeOK
      <3>3. CASE f = g
        BY <3>2, <3>3 DEF Cared
      <3>4. CASE f # g
        <4>1. ASSUME NEW t \in Streams, Sending(t, f) PROVE Sending(t, f)'
          BY <3>1, <3>2, <3>4, <4>1 DEF Sending, InFile
        <4> QED
          BY <2>3, <3>1, <3>2, <3>4, <4>1 DEF Cared
      <3> QED
        BY <3>3, <3>4
    <2>7. ASSUME NEW s \in Streams, Sends(s)
          PROVE  \A f \in Files : Cared(f)'
      <3> SUFFICES ASSUME NEW f \in Files PROVE Cared(f)'
        OBVIOUS
      <3> DEFINE b == NextBlock(s)
                 n == Len(wire[s])
      <3>1. UNCHANGED <<size, queue, cur, rGot>>
        BY <2>7 DEF Sends
      <3>2. thr'[s] = "read" /\ pos'[s] = pos[s] + 1 /\ wire'[s] = Append(wire[s], b)
            /\ \A t \in Streams \ {s} : thr'[t] = thr[t] /\ pos'[t] = pos[t] /\ wire'[t] = wire[t]
        BY <2>7 DEF Sends, TypeOK, StreamTypeOK, NetTypeOK
      <3>3. /\ b \in Block /\ b.file = cur[s] /\ (b.fin <=> pos[s] + 1 = size[cur[s]]) /\ cur[s] \in Files
            /\ pos[s] < size[cur[s]]
        BY <2>7, SentBlock
      <3> HIDE DEF b
      <3>4. wire[s] \in Seq(Block)
        BY StreamType
      <3>5. n + 1 \in DOMAIN wire'[s] /\ wire'[s][n + 1] = b
            /\ \A i \in DOMAIN wire[s] : i \in DOMAIN wire'[s] /\ wire'[s][i] = wire[s][i]
        BY <3>2, <3>3, <3>4, Appended
      <3>6. ASSUME NEW t \in Streams, Sending(t, f) PROVE Sending(t, f)'
        <4>1. CASE t # s
          BY <3>1, <3>2, <3>6, <4>1 DEF Sending, InFile
        <4>2. CASE t = s /\ \E i \in DOMAIN wire[s] : wire[s][i].file = f /\ wire[s][i].fin
          BY <3>5, <4>2 DEF Sending
        <4>3. CASE t = s /\ cur[s] = f
          <5>1. pos[s] \in Nat /\ size[f] \in Int
            BY StreamType, FileType
          <5>2. CASE b.fin
            BY <3>3, <3>5, <4>3, <5>2 DEF Sending
          <5>3. CASE ~b.fin
            <6>1. pos'[s] < size'[f]
              BY <3>1, <3>2, <3>3, <4>3, <5>1, <5>3
            <6> QED
              BY <3>1, <3>2, <4>3, <6>1 DEF Sending, InFile
          <5> QED
            BY <5>2, <5>3
        <4> QED
          BY <3>6, <4>1, <4>2, <4>3 DEF Sending
      <3> QED
        BY <2>3, <3>1, <3>6 DEF Cared
    <2>8. ASSUME NEW s \in Streams, GivesUp(s)
          PROVE  FALSE
      BY <2>2, <2>8 DEF GivesUp, InFile
    <2>9. ASSUME NEW s \in Streams, Drops(s)
          PROVE  FALSE
      BY <2>2, <2>9 DEF Drops, Held, DeliverInv
    <2>10. ASSUME NEW s \in Streams, Writes(s)
           PROVE  \A f \in Files : Cared(f)'
      <3> SUFFICES ASSUME NEW f \in Files PROVE Cared(f)'
        OBVIOUS
      <3> DEFINE b == wire[s][1]
      <3>1. UNCHANGED <<size, queue, cur, pos, thr>>
        BY <2>10 DEF Writes
      <3>2. wire[s] \in Seq(Block) /\ wire[s] # <<>> /\ wire'[s] = Tail(wire[s])
            /\ \A t \in Streams \ {s} : wire'[t] = wire[t]
        BY <2>10, StreamType DEF Writes, TypeOK, NetTypeOK
      <3>3. /\ Len(wire[s]) \in Nat /\ DOMAIN wire[s] = 1..Len(wire[s])
            /\ DOMAIN wire'[s] = 1..(Len(wire[s]) - 1)
            /\ \A i \in DOMAIN wire'[s] : wire'[s][i] = wire[s][i + 1]
        BY <3>2, Taken
      <3>5. (rGot[f] = size[f] => rGot'[f] = size'[f]) /\ (b.file = f /\ b.fin => rGot'[f] = size'[f])
        BY <2>10, WrittenStays
      <3>4. ASSUME NEW t \in Streams, Sending(t, f) PROVE Cared(f)'
        <4>1. CASE t # s
          <5>1. Sending(t, f)'
            BY <3>1, <3>2, <3>4, <4>1 DEF Sending, InFile
          <5> QED
            BY <5>1 DEF Cared
        <4>2. CASE cur[t] = f /\ InFile(t) /\ pos[t] < size[f]
          <5>1. Sending(t, f)'
            BY <3>1, <4>2 DEF Sending, InFile
          <5> QED
            BY <5>1 DEF Cared
        <4>3. CASE t = s /\ \E i \in DOMAIN wire[s] : wire[s][i].file = f /\ wire[s][i].fin
          <5>1. PICK i \in DOMAIN wire[s] : wire[s][i].file = f /\ wire[s][i].fin
            BY <4>3
          <5>2. CASE i = 1
            BY <3>5, <5>1, <5>2 DEF Cared
          <5>3. CASE i # 1
            <6>1. i - 1 \in DOMAIN wire'[s] /\ (i - 1) + 1 = i
              BY <3>3, <5>3
            <6>2. wire'[s][i - 1] = wire[s][i]
              BY <3>3, <6>1
            <6>3. Sending(s, f)'
              BY <5>1, <6>1, <6>2 DEF Sending
            <6> QED
              BY <6>3 DEF Cared
          <5> QED
            BY <5>2, <5>3
        <4> QED
          BY <3>4, <4>1, <4>2, <4>3 DEF Sending
      <3> QED
        BY <2>3, <3>1, <3>4, <3>5 DEF Cared
    <2> QED
      BY <2>4, <2>5, <2>6, <2>7, <2>8, <2>9, <2>10, DataStep
  <1> QED
    BY <1>2, <1>3

-----------------------------------------------------------------------------
(* Stopping and finishing.                                                 *)

LEMMA StopStep ==
  ASSUME TypeOK, LifeInv, StopInv, Next
  PROVE  StopInv'
  <1> USE DEF mainVars, testVars
  <1> DEFINE seen == <<pc, sigint, ioAt, state, stopped, stopAt, listed, ctrl>>
  <1>1. CASE Main
    <2>1. CASE Start \/ WaitReady \/ WaitDone \/ Exit
      BY <2>1 DEF Start, WaitReady, WaitDone, Exit, StopInv, LifeInv, Opened
    <2>2. CASE SenderInterval
      BY <2>2 DEF SenderInterval, IsStreamDone, StopInv
    <2>3. CASE StopAll
      BY <2>3 DEF StopAll, BeginStop, StopInv
    <2> QED
      BY <1>1, <2>1, <2>2, <2>3 DEF Main
  <1>2. CASE StopSteps
    <2>1. CASE StoreDone \/ LockStreams
      BY <2>1 DEF StoreDone, LockStreams, StopInv
    <2>2. CASE EndStop
      BY <2>2 DEF EndStop, StopInv
    <2> QED
      BY <1>2, <2>1, <2>2 DEF StopSteps
  <1>3. CASE CtrlClosed
    BY <1>3 DEF CtrlClosed, BeginStop, StopInv
  <1>4. CASE OnRecvResponse
    BY <1>4 DEF OnRecvResponse, StopInv
  <1>5. CASE Interrupt \/ InterruptStops
    <2>1. CASE Interrupt
      BY <2>1 DEF Interrupt, StopInv
    <2>2. CASE InterruptStops
      BY <2>2 DEF InterruptStops, BeginStop, StopInv
    <2> QED
      BY <1>5, <2>1, <2>2
  <1>11. CASE IOBlocks
    BY <1>11 DEF IOBlocks, StopInv
  <1>12. CASE CtrlEstablished \/ CtrlFailed \/ BreakCtrl
    <2>1. CASE CtrlEstablished
      BY <2>1 DEF CtrlEstablished, StopInv
    <2>2. CASE CtrlFailed
      BY <2>2 DEF CtrlFailed, StopInv
    <2>3. CASE BreakCtrl
      BY <2>3 DEF BreakCtrl, StopInv
    <2> QED
      BY <1>12, <2>1, <2>2, <2>3
  <1>6. ASSUME NEW s \in Streams,
               \/ DataEstablished(s) \/ DataTimeout(s) \/ DataFailed(s) \/ DataClosed(s)
               \/ SendDataError(s) \/ Fill(s) \/ ConnectionCallback(s) \/ TransferThread(s)
        PROVE  UNCHANGED seen
    BY <1>6 DEF DataEstablished, DataTimeout, DataFailed, DataClosed, SendDataError, Fill, ConnectionCallback,
       BufferFull, Writable, AllDataAcked, TransferThread, FetchFile, ReadBlock, WaitWritable, SendBlock, RetryBlock
  <1>7. CASE HandleFileTransferRequest
    BY <1>7 DEF HandleFileTransferRequest, StopInv
  <1>8. CASE ReceiverCtrlClosed \/ ReceiverInterval
    BY <1>8 DEF ReceiverCtrlClosed, ReceiverInterval, StopInv
  <1>9. ASSUME NEW s \in Streams, HandleReceivedFileData(s) \/ \E k \in Attempts : DataListenCallback(s, k)
        PROVE  UNCHANGED seen
    BY <1>9 DEF HandleReceivedFileData, DataListenCallback
  <1>10. ASSUME UNCHANGED seen PROVE StopInv'
    BY <1>10 DEF StopInv
  <1> HIDE DEF seen
  <1> QED
    BY <1>1, <1>2, <1>3, <1>4, <1>5, <1>6, <1>7, <1>8, <1>9, <1>10, <1>11, <1>12 DEF Next, CtrlChannel, Receiver

LEMMA FinishedStep ==
  ASSUME TypeOK, LifeInv, Next, NEW s \in Streams, FinishedAt(s)
  PROVE  FinishedAt(s)'
  <1> USE DEF testVars, flagVars, thrVars, netVars
  <1>0. ASSUME UNCHANGED <<listed, isDone, allAcked, thr, queue, ackDue>> PROVE FinishedAt(s)'
    BY <1>0, Stays DEF FinishedAt
  <1>1. CASE \/ Main \/ CtrlClosed \/ CtrlEstablished \/ CtrlFailed \/ Interrupt \/ BreakCtrl
             \/ StoreDone \/ LockStreams \/ InterruptStops \/ IOBlocks
    <2>1. UNCHANGED <<listed, isDone, allAcked, thr, queue, ackDue>>
      <3>1. CASE Main
        BY <3>1 DEF Main, Start, WaitReady, SenderInterval, WaitDone, StopAll, Exit
      <3>2. CASE CtrlClosed \/ CtrlEstablished \/ CtrlFailed \/ Interrupt \/ BreakCtrl
        BY <3>2 DEF CtrlClosed, CtrlEstablished, CtrlFailed, Interrupt, BreakCtrl
      <3>3. CASE StoreDone \/ LockStreams \/ InterruptStops \/ IOBlocks
        BY <3>3 DEF StoreDone, LockStreams, InterruptStops, IOBlocks
      <3> QED
        BY <1>1, <3>1, <3>2, <3>3
    <2> QED
      BY <1>0, <2>1
  <1>2. CASE EndStop
    BY <1>2, Stays DEF EndStop, FinishedAt
  <1>3. CASE OnRecvResponse
    BY <1>3 DEF OnRecvResponse, FinishedAt, Opened
  <1>4. ASSUME NEW t \in Streams,
               \/ DataTimeout(t) \/ DataFailed(t) \/ DataClosed(t) \/ SendDataError(t) \/ Fill(t)
               \/ BufferFull(t) \/ Writable(t)
        PROVE  FinishedAt(s)'
    <2>1. UNCHANGED <<listed, isDone, allAcked, thr, queue, ackDue>>
      BY <1>4 DEF DataTimeout, DataFailed, DataClosed, SendDataError, Fill, BufferFull, Writable
    <2> QED
      BY <1>0, <2>1
  <1>5. ASSUME NEW t \in Streams, DataEstablished(t)
        PROVE  FinishedAt(s)'
    <2>1. UNCHANGED <<listed, isDone, allAcked, queue, ackDue>>
      BY <1>5 DEF DataEstablished
    <2>2. thr[s] = "exit" => thr'[s] = "exit"
      BY <1>5 DEF DataEstablished, LifeInv, LifeOf, TypeOK, StreamTypeOK
    <2> QED
      BY <2>1, <2>2, Stays DEF FinishedAt
  <1>6. ASSUME NEW t \in Streams, AllDataAcked(t)
        PROVE  FinishedAt(s)'
    <2>1. UNCHANGED <<listed, isDone, thr, queue, ctrl>> /\ Opened
      BY <1>6 DEF AllDataAcked, LifeInv, LifeOf
    <2>2. /\ allAcked'[s] => allAcked[s] \/ (s = t /\ isDone[s])
          /\ ackDue'[s] => ackDue[s] /\ s # t
      BY <1>6 DEF AllDataAcked, TypeOK, StreamTypeOK, NetTypeOK
    <2> QED
      BY <2>1, <2>2 DEF FinishedAt, Opened
  <1>7. ASSUME NEW t \in Streams, FetchFile(t)
        PROVE  FinishedAt(s)'
    <2>1. UNCHANGED <<listed, allAcked, ackDue, ctrl>> /\ thr[t] = "fetch" /\ listed
      BY <1>7 DEF FetchFile, LifeInv, LifeOf, Active
    <2>2. queue' = queue \/ \E f \in Files : f \in queue /\ queue' = queue \ {f}
      BY <1>7 DEF FetchFile, IsHead
    <2>3. CASE s # t
      <3>1. thr'[s] = thr[s] /\ isDone'[s] = isDone[s]
        BY <1>7, <2>3 DEF FetchFile, TypeOK, StreamTypeOK
      <3> QED
        BY <2>1, <2>2, <3>1 DEF FinishedAt, Opened
    <2>4. CASE s = t
      <3>1. ~isDone[s] /\ ~allAcked[s]
        BY <2>1, <2>4 DEF FinishedAt
      <3>2. isDone'[s] => thr'[s] = "exit" /\ queue' = {}
        BY <1>7, <2>4, <3>1 DEF FetchFile, TypeOK, StreamTypeOK
      <3> QED
        BY <2>1, <3>1, <3>2 DEF FinishedAt
    <2> QED
      BY <2>3, <2>4
  <1>8. ASSUME NEW t \in Streams, ReadBlock(t) \/ WaitWritable(t) \/ SendBlock(t) \/ RetryBlock(t)
        PROVE  FinishedAt(s)'
    <2>1. UNCHANGED <<listed, isDone, allAcked, queue, ctrl>> /\ Active(t) /\ thr[t] # "exit" /\ listed
      BY <1>8 DEF ReadBlock, WaitWritable, SendBlock, RetryBlock, LifeInv, LifeOf, Active
    <2>2. \A u \in Streams \ {t} : thr'[u] = thr[u] /\ ackDue'[u] = ackDue[u]
      BY <1>8 DEF ReadBlock, WaitWritable, SendBlock, RetryBlock, TypeOK, StreamTypeOK, NetTypeOK
    <2>3. s = t => ~isDone[s] /\ ~allAcked[s]
      BY <2>1 DEF FinishedAt
    <2> QED
      BY <2>1, <2>2, <2>3 DEF FinishedAt, Opened
  <1>10. CASE HandleFileTransferRequest \/ ReceiverCtrlClosed \/ ReceiverInterval
              \/ (\E t \in Streams : HandleReceivedFileData(t)) \/ \E t \in Streams, k \in Attempts : DataListenCallback(t, k)
    <2>1. UNCHANGED <<listed, isDone, allAcked, thr, queue, ackDue>>
      BY <1>10 DEF HandleFileTransferRequest, ReceiverCtrlClosed, ReceiverInterval, HandleReceivedFileData,
         DataListenCallback
    <2> QED
      BY <1>0, <2>1
  <1> QED
    BY <1>1, <1>2, <1>3, <1>4, <1>5, <1>6, <1>7, <1>8, <1>10
       DEF Next, StopSteps, CtrlChannel, Receiver, ConnectionCallback, TransferThread

(* The client enters its last wait when it has seen its streams done.      *)
LEMMA EntersWait ==
  ASSUME Next, pc' = "wait"
  PROVE  pc = "wait" \/ SenderInterval
  <1> USE DEF mainVars
  <1>1. CASE Main
    BY <1>1 DEF Main, Start, WaitReady, WaitDone, StopAll, Exit
  <1>2. CASE CtrlChannel \/ CtrlEstablished \/ CtrlFailed \/ Interrupt \/ BreakCtrl
    BY <1>2 DEF CtrlChannel, OnRecvResponse, CtrlClosed, CtrlEstablished, CtrlFailed, Interrupt, BreakCtrl
  <1>5. CASE StopSteps \/ InterruptStops \/ IOBlocks
    BY <1>5 DEF StopSteps, StoreDone, LockStreams, EndStop, InterruptStops, IOBlocks
  <1>3. ASSUME NEW s \in Streams,
               \/ DataEstablished(s) \/ DataTimeout(s) \/ DataFailed(s) \/ DataClosed(s)
               \/ SendDataError(s) \/ Fill(s) \/ ConnectionCallback(s) \/ TransferThread(s)
        PROVE  UNCHANGED pc
    BY <1>3 DEF DataEstablished, DataTimeout, DataFailed, DataClosed, SendDataError, Fill, ConnectionCallback,
       BufferFull, Writable, AllDataAcked, TransferThread, FetchFile, ReadBlock, WaitWritable, SendBlock, RetryBlock
  <1>4. CASE Receiver \/ ReceiverInterval
    BY <1>4 DEF Receiver, ReceiverInterval, HandleFileTransferRequest, ReceiverCtrlClosed,
       HandleReceivedFileData, DataListenCallback
  <1> QED
    BY <1>1, <1>2, <1>3, <1>4, <1>5 DEF Next

LEMMA ReceivedStays ==
  ASSUME TypeOK, LifeInv, ThreadsInv, BlocksInv, FreshInv, CountInv, rReleased # {} => rClosed, Next,
         LengthFits, ~rClosed, NEW f \in Files, Received(f)
  PROVE  Received(f)'
  <1>1. CASE Quiet
    BY <1>1 DEF Quiet, dataVars, Received, OnItsWay
  <1>2. ASSUME NEW s \in Streams, GivesUp(s) \/ \E g \in Files : TakesFile(s, g)
        PROVE  Received(f)'
    BY <1>2 DEF GivesUp, TakesFile, Received, OnItsWay
  <1>3. ASSUME NEW s \in Streams, Sends(s)
        PROVE  Received(f)'
    <2>1. UNCHANGED <<size, rGot>> /\ wire'[s] = Append(wire[s], NextBlock(s)) /\ \A t \in Streams \ {s} : wire'[t] = wire[t]
      BY <1>3 DEF Sends, TypeOK, NetTypeOK
    <2>2. wire[s] \in Seq(Block) /\ NextBlock(s) \in Block
      BY <1>3, StreamType, SentBlock
    <2>3. \A i \in DOMAIN wire[s] : i \in DOMAIN wire'[s] /\ wire'[s][i] = wire[s][i]
      BY <2>1, <2>2, Appended
    <2>4. OnItsWay(f) => OnItsWay(f)'
      BY <2>1, <2>3 DEF OnItsWay
    <2> QED
      BY <2>1, <2>4 DEF Received
  <1>4. ASSUME NEW s \in Streams, Writes(s)
        PROVE  Received(f)'
    <2> DEFINE b == wire[s][1]
    <2>1. UNCHANGED size /\ wire[s] # <<>> /\ wire'[s] = Tail(wire[s]) /\ \A t \in Streams \ {s} : wire'[t] = wire[t]
      BY <1>4 DEF Writes, TypeOK, NetTypeOK
    <2>2. (rGot[f] = size[f] => rGot'[f] = size'[f]) /\ (b.file = f /\ b.fin => rGot'[f] = size'[f])
      BY <1>4, WrittenStays
    <2>3. /\ Len(wire[s]) \in Nat /\ DOMAIN wire[s] = 1..Len(wire[s])
          /\ DOMAIN wire'[s] = 1..(Len(wire[s]) - 1)
          /\ \A i \in DOMAIN wire'[s] : wire'[s][i] = wire[s][i + 1]
      BY <2>1, StreamType, Taken
    <2>4. ASSUME NEW t \in Streams, NEW i \in DOMAIN wire[t], wire[t][i].file = f, wire[t][i].fin
          PROVE  Received(f)'
      <3>1. CASE t # s
        BY <2>1, <2>4, <3>1 DEF Received, OnItsWay
      <3>2. CASE t = s /\ i = 1
        BY <2>2, <2>4, <3>2 DEF Received
      <3>3. CASE t = s /\ i # 1
        <4>1. i - 1 \in DOMAIN wire'[s] /\ (i - 1) + 1 = i
          BY <2>3, <3>3
        <4>2. wire'[s][i - 1] = wire[s][i]
          BY <2>3, <4>1
        <4> QED
          BY <2>4, <3>3, <4>1, <4>2 DEF Received, OnItsWay
      <3> QED
        BY <3>1, <3>2, <3>3
    <2> QED
      BY <2>1, <2>2, <2>4 DEF Received, OnItsWay
  <1>5. ASSUME NEW s \in Streams, Drops(s)
        PROVE  FALSE
    BY <1>5 DEF Drops, Held
  <1>6. ASSUME NEW g \in Files, PassesOver(g)
        PROVE  Received(f)'
    <2>1. UNCHANGED <<rGot, wire>> /\ size'[f] = IF f = g THEN -1 ELSE size[f]
      BY <1>6 DEF PassesOver, Skipped, TypeOK, ClientTypeOK
    <2> QED
      BY <2>1 DEF Received, OnItsWay
  <1> QED
    BY <1>1, <1>2, <1>3, <1>4, <1>5, <1>6, DataStep

LEMMA DoneStep ==
  ASSUME TypeOK, LifeInv, ThreadsInv, BlocksInv, FreshInv, CountInv, DeliverInv, DoneInv, Next
  PROVE  DoneInv'
  <1>1. StopInv'
    BY StopStep DEF DoneInv
  <1>2. \A s \in Streams : FinishedAt(s)'
    BY FinishedStep DEF DoneInv
  <1>3. LengthFits' <=> LengthFits
    BY DEF LengthFits, AsInt
  <1>4. ASSUME pc' = "wait", listed', ~sigint', \A s \in Streams : ~sendErr'[s]
        PROVE  /\ \A s \in Streams : allAcked'[s]
               /\ LengthFits /\ ~rClosed' => \A f \in Files : Received(f)'
    <2>1. ~sigint /\ (\A s \in Streams : ~sendErr[s]) /\ (rClosed => rClosed')
      BY <1>4, Stays
    <2>2. (\A s \in Streams : allAcked[s]) /\ (LengthFits /\ ~rClosed => \A f \in Files : Received(f))
      <3>1. CASE pc = "wait"
        <4>1. ~listed => ctrl = "closed"
          BY <2>1, <3>1 DEF DoneInv, StopInv
        <4>2. listed
          BY <1>4, <4>1, Stays DEF OnRecvResponse
        <4> QED
          BY <2>1, <3>1, <4>2 DEF DoneInv
      <3>2. CASE SenderInterval
        <4>1. IsStreamDone /\ listed
          BY <1>4, <2>1, <3>2 DEF SenderInterval
        <4>2. \A s \in Streams : isDone[s] /\ allAcked[s]
          BY <2>1, <4>1 DEF IsStreamDone, StreamFinished
        <4>3. \A s \in Streams : thr[s] = "exit" /\ queue = {}
          BY <4>1, <4>2 DEF DoneInv, FinishedAt
        <4>4. 1 \in Streams
          BY ConstantsAssumption DEF Streams
        <4>5. ~\E s \in Streams : Quits(s)
          BY <4>2 DEF Quits
        <4>6. LengthFits /\ ~rClosed => \A f \in Files : Cared(f)
          BY <4>1, <4>5 DEF DeliverInv
        <4>7. \A f \in Files : Cared(f) => Received(f)
          BY <4>3, <4>4 DEF Cared, Received, Sending, InFile, OnItsWay
        <4> QED
          BY <4>2, <4>6, <4>7
      <3> QED
        BY <1>4, <3>1, <3>2, EntersWait
    <2>3. \A s \in Streams : allAcked'[s]
      BY <2>2, Stays
    <2>4. ASSUME LengthFits, ~rClosed', NEW f \in Files PROVE Received(f)'
      BY <2>1, <2>2, <2>4, ReceivedStays DEF DeliverInv
    <2> QED
      BY <2>3, <2>4
  <1> QED
    BY <1>1, <1>2, <1>3, <1>4 DEF DoneInv

-----------------------------------------------------------------------------
(* The invariant.                                                          *)

LEMMA InitInv ==
  ASSUME Init
  PROVE  Inv
  <1>1. TypeOK
    BY InitType
  <1>2. LifeInv
    BY DEF Init, LifeInv, LifeOf, Opened, Active
  <1>3. ThreadsInv
    BY DEF Init, ThreadsInv, ThreadAt, InFile
  <1>4. \A s \in Streams : DOMAIN wire[s] = {} /\ cur[s] = NoFile
    BY DEF Init
  <1>5. BlocksInv
    BY <1>4 DEF BlocksInv
  <1>6. OwnInv
    <2>1. \A s \in Streams : \A g \in queue : cur[s] < g
      <3>1. queue \subseteq Files
        BY <1>1 DEF TypeOK, ClientTypeOK
      <3>2. \A g \in Files : 0 < g
        BY ConstantsAssumption DEF Files
      <3> QED
        BY <1>4, <3>1, <3>2 DEF NoFile
    <2> QED
      BY <1>4, <2>1 DEF OwnInv, Apart
  <1>7. CompleteInv /\ CountInv
    BY DEF Init, CompleteInv, CountInv
  <1>10. FreshInv /\ CopyInv
    <2>1. FreshInv
      BY <1>1, <1>4 DEF Init, Queued, FreshInv, FreshQueue, FreshFile
    <2>2. NoFile \notin Files /\ \A f \in Files : rGot[f] = 0
      BY ConstantsAssumption DEF Init, NoFile, Files
    <2>3. CopyInv
      BY <2>2 DEF Init, CopyInv, StoredAt, WriterAt
    <2> QED
      BY <2>1, <2>3
  <1>8. DeliverInv
    <2>1. \A f \in Files : size[f] <= 0 \/ f \in queue
      <3> SUFFICES ASSUME NEW f \in Files PROVE size[f] <= 0 \/ f \in queue
        OBVIOUS
      <3>1. size[f] = -1 \/ f \in queue
        BY DEF Init, Queued, Skipped
      <3> QED
        BY <3>1
    <2> QED
      BY <2>1 DEF Init, DeliverInv, Cared
  <1>9. DoneInv
    BY DEF Init, DoneInv, StopInv, FinishedAt
  <1> QED
    BY <1>1, <1>2, <1>3, <1>5, <1>6, <1>7, <1>8, <1>9, <1>10 DEF Inv, BaseInv

LEMMA NextInv ==
  ASSUME Inv, Next
  PROVE  Inv'
  <1>1. TypeOK /\ LifeInv /\ ThreadsInv /\ BlocksInv /\ OwnInv /\ FreshInv /\ CopyInv /\ CountInv /\ DeliverInv
        /\ DoneInv /\ (LengthFits => CompleteInv)
    BY DEF Inv, BaseInv
  <1>2. TypeOK'
    BY <1>1, ClientTypeStep, StreamTypeStep, NetTypeStep, ServerTypeStep DEF TypeOK
  <1>3. LifeInv'
    BY <1>1, LifeStep
  <1>4. ThreadsInv'
    BY <1>1, ThreadsStep
  <1>5. BlocksInv'
    BY <1>1, BlocksStep
  <1>6. OwnInv'
    BY <1>1, OwnStep
  <1>7. (LengthFits => CompleteInv)'
    <2>1. LengthFits' <=> LengthFits
      BY DEF LengthFits, AsInt
    <2> QED
      BY <1>1, <2>1, CompleteStep
  <1>8. CountInv'
    BY <1>1, CountStep
  <1>9. DeliverInv'
    BY <1>1, DeliverStep DEF DoneInv
  <1>10. DoneInv'
    BY <1>1, DoneStep
  <1>11. FreshInv' /\ CopyInv'
    BY <1>1, FreshStep, CopyStep
  <1> QED
    BY <1>2, <1>3, <1>4, <1>5, <1>6, <1>7, <1>8, <1>9, <1>10, <1>11 DEF Inv, BaseInv

LEMMA StutterInv ==
  ASSUME Inv, UNCHANGED vars
  PROVE  Inv'
  <1> USE DEF vars, mainVars, testVars, flagVars, thrVars, netVars, recvVars
  <1>1. TypeOK'
    BY TypeFrame DEF Inv, BaseInv, TypeOK, clientVars, streamVars, channelVars
  <1>2. LifeInv'
    BY LifeFrame DEF Inv, BaseInv
  <1>3. ThreadsInv' /\ BlocksInv'
    BY DEF Inv, BaseInv, ThreadsInv, ThreadAt, InFile, Doomed, Held, BlocksInv, BlockAt, LengthFits, AsInt
  <1>4. OwnInv'
    BY DEF Inv, BaseInv, OwnInv, Apart
  <1>5. (LengthFits => CompleteInv)' /\ CountInv'
    BY DEF Inv, LengthFits, AsInt, CompleteInv, CompleteAt, CountInv
  <1>6. DeliverInv'
    BY DEF Inv, DeliverInv, Cared, Sending, InFile, Quits, Doomed, Opened, LengthFits, AsInt
  <1>7. DoneInv'
    BY DEF Inv, DoneInv, StopInv, FinishedAt, Received, OnItsWay, Opened, LengthFits, AsInt
  <1>8. FreshInv' /\ CopyInv'
    BY CopyFrame DEF Inv, BaseInv, FreshInv, FreshQueue, FreshFile, FreshBlock
  <1> QED
    BY <1>1, <1>2, <1>3, <1>4, <1>5, <1>6, <1>7, <1>8 DEF Inv, BaseInv

LEMMA Invariance == Spec => []Inv
  <1>1. Init => Inv
    BY InitInv
  <1>2. Inv /\ [Next]_vars => Inv'
    BY NextInv, StutterInv
  <1> QED
    BY <1>1, <1>2, PTL DEF Spec

-----------------------------------------------------------------------------
(* Every state the transfer reaches is well typed: in particular a thread  *)
(* never counts more blocks than its file has, also when it gives up on a  *)
(* refused block, and the server's counts stay in range.                   *)
THEOREM TypeCorrect == Spec => []TypeOK
  <1>1. Inv => TypeOK
    BY DEF Inv, BaseInv
  <1> QED
    BY <1>1, Invariance, PTL

(* A file that the server reports as received, whose writing met no error  *)
(* (HandleReceivedFileData) and whose base name no other listed file has,  *)
(* is stored with all its blocks and in order, whatever full buffers, send *)
(* errors, Stop and errors with the other files do, if its length fits the *)
(* int that holds it.                                                      *)
LEMMA CompleteIsIntact ==
  ASSUME Inv, LengthFits, NEW f \in rComplete, f \notin rFaulty, Sole(f)
  PROVE  Intact(f)
  <1>1. TypeOK /\ f \in Files
    BY DEF Inv, BaseInv, TypeOK, ServerTypeOK
  <1>2. rGot[f] = size[f] /\ rGot[f] > 0
    BY <1>1 DEF Inv, CompleteInv, CompleteAt
  <1> QED
    BY <1>1, <1>2 DEF Inv, CopyInv, StoredAt, Intact

THEOREM FilesAreIntact == Spec => [](LengthFits => FileIntact)
  <1>1. Inv => (LengthFits => FileIntact)
    BY CompleteIsIntact DEF FileIntact
  <1> QED
    BY <1>1, Invariance, PTL

(* The server says that all the files were received only when the last     *)
(* block of each file of the request was handled, each file counted once;  *)
(* the files that met no error and share no name are intact.               *)
THEOREM CountIsExact == Spec => [](LengthFits => AllFilesReceived)
  <1>1. Inv => (LengthFits => AllFilesReceived)
    <2> SUFFICES ASSUME Inv, LengthFits, rGranted, rFiles = 0 PROVE rComplete = Files
      BY CompleteIsIntact DEF AllFilesReceived
    <2>1. TypeOK /\ rFiles = NumFiles - Cardinality(rComplete)
      BY DEF Inv, BaseInv, CountInv
    <2>2. Cardinality(rComplete) \in Nat /\ (Cardinality(rComplete) >= NumFiles => rComplete = Files)
      BY <2>1, CompleteSize
    <2>3. Cardinality(rComplete) >= NumFiles
      BY <2>1, <2>2, ConstantsAssumption
    <2> QED
      BY <2>2, <2>3
  <1> QED
    BY <1>1, Invariance, PTL

(* A client that leaves its sending loop because every stream is done and  *)
(* acked has nothing left to send or to have acked: every file it could    *)
(* read was handed to the server to its end, or the end is among what the  *)
(* server's transport has acked.                                           *)
THEOREM DoneIsAcked == Spec => [](LengthFits => FinishedMeansAcked)
  <1>1. Inv => (LengthFits => FinishedMeansAcked)
    <2> SUFFICES ASSUME Inv, LengthFits, pc = "wait", listed, ~sigint, ~rClosed, \A s \in Streams : ~sendErr[s]
                 PROVE  /\ \A s \in Streams : ~ackDue[s]
                        /\ \A f \in Files : Received(f)
      BY DEF FinishedMeansAcked, Received
    <2>1. (\A s \in Streams : allAcked[s]) /\ \A f \in Files : Received(f)
      BY DEF Inv, DoneInv
    <2> QED
      BY <2>1 DEF Inv, DoneInv, FinishedAt
  <1> QED
    BY <1>1, Invariance, PTL

-----------------------------------------------------------------------------
(* The refinement of FileDelivery.                                         *)

DeliveryStep == [Delivery!Next]_(Delivery!vars)
deliveryVars == <<size, name, rGranted, rFiles, rGot, rCopy, rComplete, rFaulty>>

LEMMA DeliveryStutter ==
  ASSUME UNCHANGED deliveryVars
  PROVE  DeliveryStep
  BY DEF DeliveryStep, deliveryVars, Delivery!vars

(* A thread that takes or passes over a file changes no copy of it.        *)
LEMMA FetchRefines ==
  ASSUME LengthFits, Inv, NEW s \in Streams, FetchFile(s)
  PROVE  DeliveryStep
  <1>1. UNCHANGED <<name, rGranted, rFiles, rGot, rCopy, rComplete, rFaulty>>
    BY DEF FetchFile, recvVars
  <1>2. CASE UNCHANGED size
    BY <1>1, <1>2, DeliveryStutter DEF deliveryVars
  <1>3. ASSUME NEW f \in Files, f \in queue, size' = [size EXCEPT ![f] = Skipped]
        PROVE  DeliveryStep
    <2>1. rGot[f] = 0 /\ f \notin rComplete
      BY <1>3 DEF FreshInv, FreshQueue, Inv, BaseInv, CompleteInv, CompleteAt
    <2>2. Delivery!PassOver(f)
      BY <1>1, <1>3, <2>1 DEF Delivery!PassOver, Delivery!Unreadable, Skipped
    <2> QED
      BY <2>2 DEF DeliveryStep, Delivery!Next, Delivery!Files, Files
  <1> QED
    BY <1>2, <1>3 DEF FetchFile, IsHead

(* The block that is received is the next one of its file.                 *)
LEMMA ReceiveRefines ==
  ASSUME LengthFits, Inv, NEW s \in Streams, HandleReceivedFileData(s)
  PROVE  DeliveryStep
  <1>1. TypeOK /\ BlocksInv /\ FreshInv /\ CompleteInv /\ CountInv /\ CopyInv
    BY DEF Inv, BaseInv
  <1>2. UNCHANGED <<size, name, rGranted>>
    BY DEF HandleReceivedFileData, testVars
  <1>3. CASE <<s, retry[s]>> \notin rAccepted
    BY <1>2, <1>3, DeliveryStutter DEF HandleReceivedFileData, deliveryVars
  <1>4. CASE <<s, retry[s]>> \in rAccepted
    <2> DEFINE b == wire[s][1]
               f == b.file
    <2>1. Held(s) /\ rGranted
      BY <1>1, <1>4 DEF Held, CountInv
    <2>2. /\ b \in Block /\ 1 \in DOMAIN wire[s] /\ WriteBlock(s, b)
          /\ rGot[f] + 1 = b.blk /\ rGot' = [rGot EXCEPT ![f] = b.blk]
          /\ \/ UNCHANGED <<rComplete, rFiles>>
             \/ b.fin /\ rComplete' = rComplete \cup {f} /\ rFiles' = IF rFiles > 0 THEN rFiles - 1 ELSE rFiles
      BY <1>1, <1>4, <2>1, WriteType
    <2>3. f \in Files /\ b.fin \in BOOLEAN /\ b.blk \in Nat /\ name[f] \in Files
      BY <1>1, <2>2, BlockType DEF TypeOK, ClientTypeOK
    <2>4. f \notin rComplete /\ b.blk <= size[f] /\ (b.fin <=> b.blk = size[f])
      BY <1>1, <2>2 DEF CompleteInv, CompleteAt, BlocksInv, BlockAt
    <2>5. b.blk = 1 \/ rOpen[s] = f
      BY <2>2 DEF WriteBlock
    <2> HIDE DEF b, f
    <2>6. size[f] \in Int /\ rGot[f] \in Nat /\ rCopy \in [Files -> (Files \cup {NoFile}) \X (0..MaxBlocks)]
      BY <1>1, <2>3, FileType DEF TypeOK, ServerTypeOK
    <2>7. rFiles > 0 /\ rFiles \in Nat
      <3>1. rFiles = NumFiles - Cardinality(rComplete)
        BY <1>1, <2>1 DEF CountInv
      <3>2. Cardinality(rComplete) \in Nat /\ Cardinality(rComplete) < NumFiles
        BY <1>1, <2>3, <2>4, CompleteSize
      <3> QED
        BY <3>1, <3>2, ConstantsAssumption
    <2>8. /\ rFaulty \subseteq rFaulty' /\ rFaulty' \subseteq rFaulty \cup {f}
          /\ \E c \in (Files \cup {NoFile}) \X (0..MaxBlocks) : rCopy' = [rCopy EXCEPT ![name[f]] = c]
          /\ f \notin rFaulty' =>
                /\ WriterFor(s, b) \in {"good", "unopened"}
                /\ WriterFor(s, b) = "good" =>
                      rCopy'[name[f]] = IF b.blk = 1 \/ rCopy[name[f]] = <<f, b.blk - 1>> THEN <<f, b.blk>> ELSE Spoilt
          /\ f \in rFaulty' \/ ~b.fin \/ rComplete' = rComplete \cup {f}
      BY <1>1, <2>2, WriteCopy DEF f
    <2>9. PICK c : rCopy' = [rCopy EXCEPT ![name[f]] = c]
      BY <2>8
    <2>10. rCopy'[name[f]] = c /\ \A n \in Files : n # name[f] => rCopy'[n] = rCopy[n]
      BY <2>3, <2>6, <2>9
    <2>11. \/ f \notin rFaulty /\ UNCHANGED rFaulty /\ rCopy' = [rCopy EXCEPT ![name[f]] = Delivery!Appended(f)]
           \/ rFaulty' = rFaulty \cup {f} /\ \A n \in Files : n # name[f] => rCopy'[n] = rCopy[n]
      <3>1. CASE f \in rFaulty'
        BY <2>8, <2>10, <3>1
      <3>2. CASE f \notin rFaulty'
        <4>1. f \notin rFaulty /\ rFaulty' = rFaulty
          BY <2>8, <3>2
        <4>2. WriterFor(s, b) = "good"
          BY <1>1, <2>3, <2>5, <2>8, <3>2, <4>1 DEF WriterFor, CopyInv, WriterAt
        <4>3. b.blk - 1 = rGot[f]
          BY <2>2, <2>3, <2>6
        <4>4. Delivery!Appended(f) = IF b.blk = 1 \/ rCopy[name[f]] = <<f, b.blk - 1>> THEN <<f, b.blk>> ELSE Spoilt
          BY <2>2, <4>3 DEF Delivery!Appended, Delivery!Next1, Delivery!Spoilt, Spoilt, NoFile
        <4>5. c = Delivery!Appended(f)
          BY <2>8, <2>10, <3>2, <4>2, <4>4
        <4> QED
          BY <2>9, <4>1, <4>5
      <3> QED
        BY <3>1, <3>2
    <2>12. Delivery!Receive(f)
      <3>1. rGot' = [rGot EXCEPT ![f] = rGot[f] + 1]
        BY <2>2, <2>3, <2>6
      <3>2. rGot[f] < size[f]
        BY <2>2, <2>3, <2>4, <2>6
      <3> QED
        BY <1>2, <2>1, <2>4, <2>11, <3>1, <3>2 DEF Delivery!Receive, Delivery!Files, Files
    <2>13. CASE b.fin /\ rComplete' = rComplete \cup {f} /\ rFiles' = IF rFiles > 0 THEN rFiles - 1 ELSE rFiles
      <3>1. Delivery!Close(f)
        BY <2>2, <2>4, <2>7, <2>12, <2>13 DEF Delivery!Close, Delivery!Next1
      <3> QED
        BY <2>3, <3>1 DEF DeliveryStep, Delivery!Next, Delivery!Files, Files
    <2>14. CASE b.fin /\ UNCHANGED <<rComplete, rFiles>>
      <3>1. f \in rFaulty'
        BY <2>4, <2>8, <2>14
      <3>2. Delivery!Miss(f)
        BY <2>2, <2>4, <2>12, <2>14, <3>1 DEF Delivery!Miss, Delivery!Next1
      <3> QED
        BY <2>3, <3>2 DEF DeliveryStep, Delivery!Next, Delivery!Files, Files
    <2>15. CASE ~b.fin /\ UNCHANGED <<rComplete, rFiles>>
      <3>1. rGot[f] + 1 < size[f]
        BY <2>2, <2>3, <2>4, <2>6, <2>15
      <3>2. Delivery!Extend(f)
        BY <2>12, <2>15, <3>1 DEF Delivery!Extend, Delivery!Next1
      <3> QED
        BY <2>3, <3>2 DEF DeliveryStep, Delivery!Next, Delivery!Files, Files
    <2> QED
      BY <2>2, <2>3, <2>13, <2>14, <2>15
  <1> QED
    BY <1>3, <1>4

LEMMA RequestRefines ==
  ASSUME Inv, HandleFileTransferRequest
  PROVE  DeliveryStep
  <1>1. UNCHANGED <<size, name, rGot, rCopy, rComplete, rFaulty>> /\ ~rGranted
    BY DEF HandleFileTransferRequest, testVars, Inv, CountInv
  <1>2. CASE UNCHANGED <<rGranted, rFiles>>
    BY <1>1, <1>2, DeliveryStutter DEF deliveryVars
  <1>3. CASE rGranted' = TRUE /\ rFiles' = NumFiles
    <2>1. Delivery!Grant
      BY <1>1, <1>3 DEF Delivery!Grant
    <2> QED
      BY <2>1 DEF DeliveryStep, Delivery!Next
  <1> QED
    BY <1>2, <1>3 DEF HandleFileTransferRequest

LEMMA OthersRefine ==
  ASSUME \/ ControlStep
         \/ ReceiverCtrlClosed \/ ReceiverInterval
         \/ \E s \in Streams :
               \/ DataEstablished(s) \/ DataTimeout(s) \/ DataFailed(s) \/ DataClosed(s)
               \/ SendDataError(s) \/ Fill(s) \/ ConnectionCallback(s)
               \/ ReadBlock(s) \/ WaitWritable(s) \/ SendBlock(s) \/ RetryBlock(s)
               \/ \E k \in Attempts : DataListenCallback(s, k)
  PROVE  DeliveryStep
  <1> USE DEF testVars, recvVars
  <1>1. CASE ControlStep
    BY <1>1, DeliveryStutter, ControlFrame DEF deliveryVars
  <1>2. CASE ReceiverCtrlClosed \/ ReceiverInterval
    BY <1>2, DeliveryStutter DEF ReceiverCtrlClosed, ReceiverInterval, deliveryVars
  <1>3. ASSUME NEW s \in Streams,
               \/ DataEstablished(s) \/ DataTimeout(s) \/ DataFailed(s) \/ DataClosed(s)
               \/ SendDataError(s) \/ Fill(s) \/ ConnectionCallback(s)
        PROVE  DeliveryStep
    BY <1>3, DeliveryStutter DEF DataEstablished, DataTimeout, DataFailed, DataClosed, SendDataError, Fill,
       ConnectionCallback, BufferFull, Writable, AllDataAcked, deliveryVars
  <1>4. ASSUME NEW s \in Streams,
               \/ ReadBlock(s) \/ WaitWritable(s) \/ SendBlock(s) \/ RetryBlock(s)
               \/ \E k \in Attempts : DataListenCallback(s, k)
        PROVE  DeliveryStep
    BY <1>4, DeliveryStutter DEF ReadBlock, WaitWritable, SendBlock, RetryBlock, DataListenCallback, deliveryVars
  <1> QED
    BY <1>1, <1>2, <1>3, <1>4

(* The transfer implements FileDelivery, for any number of streams, files, *)
(* blocks and faults, if lengths fit the int that holds them: whichever    *)
(* thread takes a file, the server is handed each block of it once and in  *)
(* order; what is stored under a name changes only then, and by what came  *)
(* before unless an error harms it; and a file is counted once, at its     *)
(* last block.                                                             *)
THEOREM ImplementsDelivery == Spec => (LengthFits => DeliverySpec)
  <1>1. Init => Delivery!Init
    BY DEF Init, Spoilt, NoFile, Delivery!Init, Delivery!Files, Delivery!Spoilt, Files
  <1>3. LengthFits /\ Inv /\ [Next]_vars => [Delivery!Next]_(Delivery!vars)
    <2> SUFFICES ASSUME LengthFits, Inv, [Next]_vars PROVE DeliveryStep
      BY DEF DeliveryStep
    <2>1. CASE UNCHANGED vars
      BY <2>1, DeliveryStutter DEF vars, testVars, recvVars, deliveryVars
    <2>2. CASE Next
      BY <2>2, FetchRefines, ReceiveRefines, RequestRefines, OthersRefine DEF Next, ControlStep, Receiver, TransferThread
    <2> QED
      BY <2>1, <2>2
  <1>4. LengthFits => LengthFits'
    BY DEF LengthFits, AsInt
  <1>5. LengthFits => []LengthFits
    BY <1>4, PTL
  <1> QED
    BY <1>1, <1>3, <1>5, Invariance, PTL DEF Spec, DeliverySpec, Delivery!Spec

=============================================================================

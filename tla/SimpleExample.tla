---------------------------- MODULE SimpleExample ----------------------------
(***************************************************************************)
(* The two simple examples together: bats_client_example, which connects,  *)
(* retries, sends and leaves, and the server examples, which serve until   *)
(* a connection ends.  The server in C echoes what it receives and checks  *)
(* every creation; the one in C++ does neither.                            *)
(*                                                                         *)
(* The client has two threads: main (StartConnect, StartSend) and the I/O  *)
(* thread that runs ConnectionCallback.  They share three atomic flags.    *)
(* The connections are external: they are seen by the events they emit.    *)
(***************************************************************************)
EXTENDS Integers, FiniteSets

CONSTANTS
    SendCnt,       \* the first argument; 0: no limit
    MaxQuota,      \* bound: stands for the largest uint64_t
    MaxTimeoutCnt, \* max_timeout_cnt_
    MaxAttempts,   \* bound: calls of StartConnect
    EchoServer     \* TRUE: bats_server_c_example, FALSE: bats_server_example

ASSUME SimpleAssumption ==
    /\ SendCnt \in Nat /\ MaxQuota \in Nat \ {0} /\ SendCnt <= MaxQuota
    /\ MaxTimeoutCnt \in Nat \ {0}
    /\ MaxAttempts \in Nat \ {0}
    /\ EchoServer \in BOOLEAN

Conns == 1..MaxAttempts

VARIABLES
    cpc,         \* main of the client
    isConnected, isConnectFailed, isWritable,
    conn,        \* bats_connection; 0: nullptr
    idealLength, \* cur_ideal_length; its value does not matter once set
    sendQuota, timeoutCnt,
    csig,        \* stop_signal_value of the client
    cb,          \* <<step, connection>> of ESTABLISHED while it runs
    attempts,    \* calls of StartConnect so far
    cl,          \* each connection as the client's protocol sees it
    full, told,  \* send buffer of the connection, and the last event about it
    sent, echoes,\* data, and echoes of it, on their way
    sv,          \* each connection as the server's protocol sees it
    spc,         \* main of the server
    handles,     \* context, config and protocol of the server
    isStopped, ssig

mainVars == <<cpc, sendQuota, timeoutCnt>>
flagVars == <<isConnected, isConnectFailed, isWritable, conn, idealLength>>
linkVars == <<cl, full, told>>
dataVars == <<sent, echoes>>
serverVars == <<spc, handles, isStopped>>
vars == <<cpc, isConnected, isConnectFailed, isWritable, conn, idealLength,
          sendQuota, timeoutCnt, csig, cb, attempts, cl, full, told,
          sent, echoes, sv, spc, handles, isStopped, ssig>>

NoCallback == <<"none", 0>>

MainTypeOK ==
    /\ cpc \in {"connect", "wait", "slept", "reconnect", "send", "sending",
                "linger", "destroyed", "exit"}
    /\ sendQuota \in 0..MaxQuota
    /\ timeoutCnt \in 0..MaxTimeoutCnt
    /\ attempts \in 0..MaxAttempts
    /\ csig \in BOOLEAN

FlagTypeOK ==
    /\ isConnected \in BOOLEAN /\ isConnectFailed \in BOOLEAN /\ isWritable \in BOOLEAN
    /\ conn \in 0..attempts
    /\ idealLength \in {0, 1}
    /\ cb \in {NoCallback} \cup ({"conn", "length", "flag"} \X Conns)

LinkTypeOK ==
    /\ cl \in [Conns -> {"none", "connecting", "up", "shut", "ended"}]
    /\ full \in BOOLEAN /\ told \in {"none", "full", "writable"}
    /\ sent \in 0..MaxQuota /\ echoes \in 0..MaxQuota

ServerTypeOK ==
    /\ sv \in [Conns -> {"none", "up", "ended"}]
    /\ spc \in {"context", "config", "protocol", "listen", "run", "destroyProtocol",
                "destroyConfig", "destroyContext", "exit"}
    /\ handles \subseteq {"context", "config", "protocol"}
    /\ isStopped \in BOOLEAN /\ ssig \in BOOLEAN

TypeOK == MainTypeOK /\ FlagTypeOK /\ LinkTypeOK /\ ServerTypeOK

Init ==
    /\ cpc = "connect"
    /\ isConnected = FALSE /\ isConnectFailed = FALSE /\ isWritable = FALSE
    /\ conn = 0 /\ idealLength = 0
    /\ sendQuota = SendCnt /\ timeoutCnt = 0
    /\ csig = FALSE /\ ssig = FALSE
    /\ cb = NoCallback
    /\ attempts = 0
    /\ cl = [n \in Conns |-> "none"]
    /\ full = FALSE /\ told = "none"
    /\ sent = 0 /\ echoes = 0
    /\ sv = [n \in Conns |-> "none"]
    /\ spc = "context" /\ handles = {} /\ isStopped = FALSE

-----------------------------------------------------------------------------
(* The client's main thread.                                               *)

(* The call returns at once; what becomes of the attempt is an event.      *)
StartConnect ==
    /\ attempts < MaxAttempts
    /\ attempts' = attempts + 1
    /\ cl' = [cl EXCEPT ![attempts + 1] = "connecting"]

ClientConnects ==
    /\ cpc = "connect"
    /\ StartConnect
    /\ cpc' = "wait"
    /\ UNCHANGED <<sendQuota, timeoutCnt, flagVars, csig, cb, full, told, dataVars,
                   sv, serverVars, ssig>>

KeepWaiting == ~isConnected /\ ~csig

(* The condition of the first loop of StartSend, and the 100 ms; behind    *)
(* the loop a quota of 0 becomes the largest one.                          *)
WaitRound ==
    /\ cpc = "wait"
    /\ IF KeepWaiting
       THEN cpc' = "slept" /\ UNCHANGED sendQuota
       ELSE cpc' = "send" /\ sendQuota' = IF sendQuota = 0 THEN MaxQuota ELSE sendQuota
    /\ UNCHANGED <<timeoutCnt, flagVars, csig, cb, attempts, linkVars, dataVars,
                   sv, serverVars, ssig>>

(* Only timeout_cnt_ >= max_timeout_cnt_ is ever asked, so the counter     *)
(* stops at the maximum.                                                   *)
Tick(n) == IF n < MaxTimeoutCnt THEN n + 1 ELSE n

(* Once the bound on the attempts is reached the client keeps waiting.      *)
RetryDue == isConnectFailed /\ timeoutCnt >= MaxTimeoutCnt /\ attempts < MaxAttempts

WaitTick ==
    /\ cpc = "slept" /\ ~RetryDue
    /\ timeoutCnt' = Tick(timeoutCnt)
    /\ cpc' = "wait"
    /\ UNCHANGED <<sendQuota, flagVars, csig, cb, attempts, linkVars, dataVars,
                   sv, serverVars, ssig>>

(* Mutants: the failure is not cleared; it is cleared again when           *)
(* StartConnect has returned.                                              *)
ClearedBefore_Never == isConnectFailed
ClearedAfter_Late == FALSE

(* is_connect_failed before and after StartConnect in the retry.           *)
ClearedBefore == FALSE
ClearedAfter == isConnectFailed

WaitRetry ==
    /\ cpc = "slept" /\ RetryDue
    /\ timeoutCnt' = 0
    /\ isConnectFailed' = ClearedBefore
    /\ StartConnect
    /\ cpc' = "reconnect"
    /\ UNCHANGED <<sendQuota, isConnected, isWritable, conn, idealLength, csig, cb,
                   full, told, dataVars, sv, serverVars, ssig>>

(* The line behind StartConnect, an event or more later.                   *)
RetryReturns ==
    /\ cpc = "reconnect"
    /\ isConnectFailed' = ClearedAfter
    /\ timeoutCnt' = Tick(timeoutCnt)
    /\ cpc' = "wait"
    /\ UNCHANGED <<sendQuota, isConnected, isWritable, conn, idealLength, csig, cb,
                   attempts, linkVars, dataVars, sv, serverVars, ssig>>

(* Mutant: the second loop does not look at the quota.                     *)
KeepSending_NoQuota == isConnected /\ ~csig

KeepSending == isConnected /\ sendQuota # 0 /\ ~csig

(* The second loop: its condition, and the check of is_writable.           *)
SendRound ==
    /\ cpc = "send"
    /\ cpc' = IF ~KeepSending THEN "linger"
              ELSE IF isWritable THEN "sending" ELSE "send"
    /\ UNCHANGED <<sendQuota, timeoutCnt, flagVars, csig, cb, attempts, linkVars, dataVars,
                   sv, serverVars, ssig>>

(* SendData takes the data unless the connection is gone or its buffer is  *)
(* full, which this data may have made it.                                 *)
SendData ==
    /\ cpc = "sending"
    /\ LET accepted == cl[conn] = "up" /\ ~full
       IN  /\ sendQuota' = IF accepted THEN sendQuota - 1 ELSE sendQuota
           /\ sent' = IF accepted THEN sent + 1 ELSE sent
           /\ IF accepted THEN full' \in BOOLEAN ELSE UNCHANGED full
    /\ cpc' = "send"
    /\ UNCHANGED <<timeoutCnt, flagVars, csig, cb, attempts, cl, told, echoes,
                   sv, serverVars, ssig>>

(* main: after the last second bats_sender is destroyed, before protocol.  *)
DestroySender ==
    /\ cpc = "linger"
    /\ cpc' = "destroyed"
    /\ UNCHANGED <<sendQuota, timeoutCnt, flagVars, csig, cb, attempts, linkVars, dataVars,
                   sv, serverVars, ssig>>

(* The destructor of protocol closes what is open and ends the events.     *)
ClientExits ==
    /\ cpc = "destroyed"
    /\ cpc' = "exit"
    /\ cl' = [n \in Conns |-> IF cl[n] = "none" THEN "none" ELSE "ended"]
    /\ cb' = NoCallback
    /\ UNCHANGED <<sendQuota, timeoutCnt, flagVars, csig, attempts, full, told, dataVars,
                   sv, serverVars, ssig>>

ClientMain ==
    \/ ClientConnects \/ WaitRound \/ WaitTick \/ WaitRetry \/ RetryReturns
    \/ SendRound \/ SendData \/ DestroySender \/ ClientExits

-----------------------------------------------------------------------------
(* ConnectionCallback, on the client's I/O thread: one event at a time.    *)

Idle == cb = NoCallback /\ cpc # "exit"
KeepMain == UNCHANGED <<cpc, sendQuota, timeoutCnt, csig, attempts, sv, serverVars, ssig>>

(* FAILED: the attempt came to nothing.                                    *)
OnFailed(n) ==
    /\ Idle /\ cl[n] = "connecting"
    /\ cl' = [cl EXCEPT ![n] = "ended"]
    /\ isConnectFailed' = TRUE
    /\ UNCHANGED <<isConnected, isWritable, conn, idealLength, cb, full, told, dataVars>>
    /\ KeepMain

(* TIMEOUT: no answer in time.  It falls to default, which sets no flag.   *)
OnTimeout(n) ==
    /\ Idle /\ cl[n] = "connecting"
    /\ cl' = [cl EXCEPT ![n] = "ended"]
    /\ UNCHANGED <<flagVars, cb, full, told, dataVars>>
    /\ KeepMain

(* Mutant: the flag goes up before the connection is there.                *)
EstablishedOrder_Flag == <<"flag", "conn", "length">>

(* ESTABLISHED: the order in which its three assignments are made.         *)
EstablishedOrder == <<"conn", "length", "flag">>

OnEstablished(n) ==
    /\ Idle /\ cl[n] = "connecting" /\ sv[n] # "none"
    /\ cl' = [cl EXCEPT ![n] = "up"]
    /\ full' = FALSE /\ told' = "none"
    /\ cb' = <<EstablishedOrder[1], n>>
    /\ UNCHANGED <<flagVars, dataVars>>
    /\ KeepMain

EstablishedStep ==
    /\ cb # NoCallback
    /\ conn' = IF cb[1] = "conn" THEN cb[2] ELSE conn
    /\ idealLength' = IF cb[1] = "length" THEN 1 ELSE idealLength
    /\ isConnected' = (cb[1] = "flag" \/ isConnected)
    /\ LET k == CHOOSE j \in 1..3 : EstablishedOrder[j] = cb[1]
       IN  cb' = IF k = 3 THEN NoCallback ELSE <<EstablishedOrder[k + 1], cb[2]>>
    /\ UNCHANGED <<isConnectFailed, isWritable, linkVars, dataVars>>
    /\ KeepMain

(* SHUTDOWN_BY_PEER.                                                       *)
OnShutdownByPeer(n) ==
    /\ Idle /\ cl[n] = "up" /\ sv[n] = "ended"
    /\ cl' = [cl EXCEPT ![n] = "shut"]
    /\ isConnected' = FALSE /\ isConnectFailed' = TRUE
    /\ UNCHANGED <<isWritable, conn, idealLength, cb, full, told, dataVars>>
    /\ KeepMain

(* CLOSED: of a connection the network dropped, or late, of one the peer   *)
(* shut down.                                                              *)
OnClosed(n) ==
    /\ Idle /\ cl[n] \in {"up", "shut"}
    /\ cl' = [cl EXCEPT ![n] = "ended"]
    /\ isConnected' = FALSE
    /\ UNCHANGED <<isConnectFailed, isWritable, conn, idealLength, cb, full, told, dataVars>>
    /\ KeepMain

(* BUFFER_FULL.                                                            *)
OnBufferFull(n) ==
    /\ Idle /\ cl[n] = "up" /\ full /\ told # "full"
    /\ told' = "full"
    /\ isWritable' = FALSE
    /\ UNCHANGED <<isConnected, isConnectFailed, conn, idealLength, cb, cl, full, dataVars>>
    /\ KeepMain

(* Mutant: WRITABLE is not heeded.                                         *)
WritableFlag_Kept == isWritable

WritableFlag == TRUE

(* WRITABLE: the first after ESTABLISHED, then one for every BUFFER_FULL.  *)
OnWritable(n) ==
    /\ Idle /\ cl[n] = "up" /\ ~full /\ told # "writable"
    /\ told' = "writable"
    /\ isWritable' = WritableFlag
    /\ UNCHANGED <<isConnected, isConnectFailed, conn, idealLength, cb, cl, full, dataVars>>
    /\ KeepMain

(* DATA_RECEIVED: an echo, which is printed (or was lost on the way).      *)
OnDataReceived(n) ==
    /\ Idle /\ cl[n] = "up" /\ echoes > 0
    /\ echoes' = echoes - 1
    /\ UNCHANGED <<flagVars, cb, linkVars, sent>>
    /\ KeepMain

(* The connection: the buffer empties.                                     *)
Drain(n) ==
    /\ cl[n] = "up" /\ full
    /\ full' = FALSE
    /\ UNCHANGED <<flagVars, cb, cl, told, dataVars>>
    /\ KeepMain

-----------------------------------------------------------------------------
(* The server: its main, which creates three handles and undoes what it    *)
(* created when the next step fails.                                       *)

KeepClient == UNCHANGED <<mainVars, flagVars, csig, cb, attempts, linkVars, ssig>>

Create(here, next) ==
    /\ spc = here
    /\ handles' = handles \cup {here}
    /\ spc' = next
    /\ UNCHANGED <<isStopped, sv, dataVars>>
    /\ KeepClient

(* Mutant: a failed creation of the protocol leaves the config behind.     *)
FailsTo_Leaks ==
    [context |-> "exit", config |-> "destroyContext", protocol |-> "destroyContext",
     listen |-> "destroyProtocol"]

(* Where the error path of each step begins.                               *)
FailsTo ==
    [context |-> "exit", config |-> "destroyContext", protocol |-> "destroyConfig",
     listen |-> "destroyProtocol"]

CreateFails ==
    /\ EchoServer
    /\ spc \in DOMAIN FailsTo
    /\ spc' = FailsTo[spc]
    /\ UNCHANGED <<handles, isStopped, sv, dataVars>>
    /\ KeepClient

(* A listener that fails later only prints, and so looks like one nobody   *)
(* can reach.                                                              *)
StartListen ==
    /\ spc = "listen"
    /\ spc' = "run"
    /\ UNCHANGED <<handles, isStopped, sv, dataVars>>
    /\ KeepClient

(* The loop that looks once a second.                                      *)
ServerLeaves ==
    /\ spc = "run" /\ (ssig \/ isStopped)
    /\ spc' = "destroyProtocol"
    /\ UNCHANGED <<handles, isStopped, sv, dataVars>>
    /\ KeepClient

(* Destroying the protocol ends its connections, without an event here.    *)
DestroyProtocol ==
    /\ spc = "destroyProtocol"
    /\ spc' = "destroyConfig"
    /\ handles' = handles \ {"protocol"}
    /\ sv' = [n \in Conns |-> IF sv[n] = "none" THEN "none" ELSE "ended"]
    /\ UNCHANGED <<isStopped, dataVars>>
    /\ KeepClient

Destroy(here, handle, next) ==
    /\ spc = here
    /\ spc' = next
    /\ handles' = handles \ {handle}
    /\ UNCHANGED <<isStopped, sv, dataVars>>
    /\ KeepClient

ServerMain ==
    \/ Create("context", "config") \/ Create("config", "protocol")
    \/ Create("protocol", "listen") \/ CreateFails \/ StartListen
    \/ ServerLeaves \/ DestroyProtocol
    \/ Destroy("destroyConfig", "config", "destroyContext")
    \/ Destroy("destroyContext", "context", "exit")

-----------------------------------------------------------------------------
(* The server's callbacks.                                                 *)

Serving == spc \in {"run", "destroyProtocol"}

(* NEW_CONNECTION: the callback is set in the listener's callback.         *)
OnNewConnection(n) ==
    /\ Serving /\ cl[n] = "connecting" /\ sv[n] = "none"
    /\ sv' = [sv EXCEPT ![n] = "up"]
    /\ UNCHANGED <<serverVars, dataVars>>
    /\ KeepClient

(* Data: echoed by the server in C, which does not look at the result of   *)
(* bats_connection_send_data; or it was lost on the way.                   *)
OnServerData(n) ==
    /\ Serving /\ sv[n] = "up" /\ sent > 0
    /\ sent' = sent - 1
    /\ \/ EchoServer /\ echoes' = echoes + 1
       \/ UNCHANGED echoes
    /\ UNCHANGED <<serverVars, sv>>
    /\ KeepClient

(* Mutant: only a connection that CLOSED ends the server.                  *)
StopsOn_Closed(event) == event = "closed"

StopsOn(event) == event \in {"closed", "shutdown"}

(* SHUTDOWN_BY_PEER when the client has gone, CLOSED otherwise.            *)
OnServerEnd(n) ==
    /\ Serving /\ sv[n] = "up"
    /\ sv' = [sv EXCEPT ![n] = "ended"]
    /\ isStopped' = (isStopped \/ StopsOn(IF cl[n] = "ended" THEN "shutdown" ELSE "closed"))
    /\ UNCHANGED <<spc, handles, dataVars>>
    /\ KeepClient

(* SIGINT, to either.                                                      *)
Interrupt ==
    /\ \/ cpc # "exit" /\ ~csig /\ csig' = TRUE /\ UNCHANGED ssig
       \/ spc # "exit" /\ ~ssig /\ ssig' = TRUE /\ UNCHANGED csig
    /\ UNCHANGED <<mainVars, flagVars, cb, attempts, linkVars, dataVars, sv, serverVars>>

-----------------------------------------------------------------------------
ClientEvent ==
    \/ \E n \in Conns : \/ OnFailed(n) \/ OnTimeout(n) \/ OnEstablished(n)
                        \/ OnShutdownByPeer(n) \/ OnClosed(n) \/ OnBufferFull(n) \/ OnWritable(n)
                        \/ OnDataReceived(n) \/ Drain(n)
    \/ EstablishedStep

ServerEvent ==
    \E n \in Conns : OnNewConnection(n) \/ OnServerData(n) \/ OnServerEnd(n)

Next == ClientMain \/ ClientEvent \/ ServerMain \/ ServerEvent \/ Interrupt

(* What the two protocols owe: an attempt is answered; a buffer empties    *)
(* and says so; and each side learns that the other has gone.              *)
ClientIO ==
    \/ EstablishedStep
    \/ \E n \in Conns : OnFailed(n) \/ OnTimeout(n) \/ OnEstablished(n) \/ Drain(n) \/ OnWritable(n)
                       \/ OnShutdownByPeer(n)

ServerIO == \E n \in Conns : cl[n] = "ended" /\ OnServerEnd(n)

(* The four threads run.                                                   *)
Fairness ==
    /\ WF_vars(ClientMain) /\ WF_vars(ServerMain)
    /\ WF_vars(ClientIO) /\ WF_vars(ServerIO)

Spec == Init /\ [][Next]_vars /\ Fairness

-----------------------------------------------------------------------------
(* Properties.                                                             *)

(* ConnectionCallback and StartSend share no lock: whatever StartSend can  *)
(* see, the newest connection and its block length are there before        *)
(* is_connected says so, and a retry has left no other attempt open.       *)
ReadyWhenConnected ==
    isConnected =>
        /\ conn = attempts /\ idealLength > 0
        /\ \A n \in Conns \ {conn} : cl[n] \notin {"connecting", "up"}

(* bats_connection, a plain shared_ptr, is never written while StartSend   *)
(* uses it.                                                                *)
ConnectionStable ==
    [][(cpc = "send" /\ isConnected) \/ cpc = "sending" => conn' = conn]_vars

(* The error paths and the end of the server's main: whatever fails, every *)
(* handle is destroyed in the end, and none before one that depends on it. *)
HandlesNest ==
    /\ spc = "exit" => handles = {}
    /\ "protocol" \in handles => "config" \in handles
    /\ "config" \in handles => "context" \in handles

(* StartSend: an attempt that FAILED, or a connection the peer shut down   *)
(* while StartSend still waits, is followed by another attempt.  (One that *)
(* ends in TIMEOUT is not: WaitingTries.)                                  *)
FailureIsRetried ==
    \A k \in 1..(MaxAttempts - 1) :
        (attempts = k /\ isConnectFailed /\ cpc \in {"wait", "slept", "reconnect"})
            ~> (attempts > k \/ csig \/ cpc = "send")

(* StartSend: the loop that sends ends by itself, all sent or the          *)
(* connection gone, and so does the program; SIGINT ends it anywhere.      *)
ClientEnds == (cpc = "send" \/ csig) ~> cpc = "exit"

(* The client's leaving ends a server that had accepted it.                *)
ServerFollowsClient ==
    (cpc = "exit" /\ spc = "run" /\ \E n \in Conns : sv[n] = "up") ~> spc = "exit"

-----------------------------------------------------------------------------
(* What the code, or a comment of it, suggests and it does not do.         *)

(* "wait for receiving echo back data": no data and no echo is under way   *)
(* when the client leaves.                                                 *)
EchoHeard == cpc = "destroyed" /\ ~csig /\ isConnected => sent = 0 /\ echoes = 0

(* "simple timeout reconnect": a client that waits for a connection gets   *)
(* one, tries again or is interrupted.  Not after TIMEOUT, nor after a     *)
(* CLOSED that takes is_connected back before StartSend has seen it.       *)
WaitingTries ==
    \A k \in 1..(MaxAttempts - 1) :
        (attempts = k /\ cpc = "wait") ~> (attempts > k \/ csig \/ cpc = "send")

(* ConnectionCallback runs on a sender that exists: nothing of it changes  *)
(* once it is destroyed.                                                   *)
NoLateCallback == [][cpc = "destroyed" => UNCHANGED flagVars]_vars
=============================================================================

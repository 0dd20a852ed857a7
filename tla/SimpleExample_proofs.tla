------------------------- MODULE SimpleExample_proofs -------------------------
(***************************************************************************)
(* Proofs about the simple client and server (SimpleExample), for every    *)
(* quota, number of attempts and retry limit, and for either server.       *)
(***************************************************************************)
EXTENDS SimpleExample, TLAPS

-----------------------------------------------------------------------------
(* The inductive invariant, in parts.                                      *)

BeforeSending == {"connect", "wait", "slept", "reconnect"}

(* What is sent comes out of the quota, which is replaced only before      *)
(* anything is sent.                                                       *)
QuotaInv ==
    /\ sendQuota + sent + echoes <= MaxQuota
    /\ cpc \in BeforeSending => sent = 0 /\ echoes = 0
    /\ cpc = "sending" => sendQuota > 0

(* Only the newest attempt can be open.  A failure is one of the newest    *)
(* attempt, and a retry forgets it.                                        *)
LinkInv ==
    /\ \A n \in Conns : n > attempts => cl[n] = "none"
    /\ \A n \in Conns : n < attempts => cl[n] \in {"shut", "ended"}
    /\ isConnectFailed => attempts > 0 /\ cl[attempts] \in {"shut", "ended"}
    /\ cpc = "connect" <=> attempts = 0

(* ESTABLISHED is about the newest attempt, which stays up while it runs,  *)
(* and the flag is raised last.                                            *)
CallbackInv ==
    cb # NoCallback =>
        /\ cpc # "exit"
        /\ cb[2] = attempts /\ attempts > 0 /\ cl[attempts] = "up"
        /\ cb[1] \in {"length", "flag"} => conn = attempts
        /\ cb[1] = "flag" => idealLength = 1

(* What the flag tells main, and what main still relies on while it sends  *)
(* after the flag was lowered.                                             *)
ConnectedInv ==
    /\ isConnected =>
        /\ attempts > 0 /\ conn = attempts /\ idealLength = 1
        /\ cl[attempts] = "up" \/ cpc = "exit"
    /\ cpc = "sending" => attempts > 0 /\ conn = attempts

ClientInv == QuotaInv /\ LinkInv /\ CallbackInv /\ ConnectedInv

(* The handles that exist at each place of the server's main.              *)
HandlesAt(place) ==
    CASE place \in {"context", "exit"} -> {}
      [] place \in {"config", "destroyContext"} -> {"context"}
      [] place \in {"protocol", "destroyConfig"} -> {"context", "config"}
      [] OTHER -> {"context", "config", "protocol"}

ServerInv == handles = HandlesAt(spc)

Inv == TypeOK /\ ClientInv /\ ServerInv

ClientTypeOK == MainTypeOK /\ FlagTypeOK /\ LinkTypeOK

(* Each part of the invariant depends on its own variables.                *)
LEMMA ServerFrame ==
  ASSUME ServerTypeOK, ServerInv, UNCHANGED <<sv, serverVars, ssig>>
  PROVE  ServerTypeOK' /\ ServerInv'
  BY DEF ServerTypeOK, ServerInv, serverVars

LEMMA ClientFrame ==
  ASSUME ClientTypeOK, ClientInv,
         UNCHANGED <<mainVars, flagVars, csig, cb, attempts, linkVars, dataVars>>
  PROVE  ClientTypeOK' /\ ClientInv'
  BY DEF ClientTypeOK, MainTypeOK, FlagTypeOK, LinkTypeOK, ClientInv, QuotaInv, LinkInv,
     CallbackInv, ConnectedInv, mainVars, flagVars, linkVars, dataVars

LEMMA InitInv == Init => Inv
  <1> SUFFICES ASSUME Init PROVE Inv
    OBVIOUS
  <1>0. /\ csig \in BOOLEAN /\ full \in BOOLEAN
        /\ isConnected \in BOOLEAN /\ isConnectFailed \in BOOLEAN /\ isWritable \in BOOLEAN
    BY DEF Init
  <1>1. MainTypeOK
    BY <1>0, SimpleAssumption DEF Init, MainTypeOK
  <1>2. FlagTypeOK
    BY <1>0 DEF Init, FlagTypeOK
  <1>3. LinkTypeOK
    BY <1>0, SimpleAssumption DEF Init, LinkTypeOK
  <1>4. ServerTypeOK /\ ServerInv
    BY DEF Init, ServerTypeOK, ServerInv, HandlesAt
  <1>5. ClientInv
    BY SimpleAssumption DEF Init, ClientInv, QuotaInv, LinkInv, CallbackInv, ConnectedInv,
       BeforeSending, Conns
  <1> QED
    BY <1>1, <1>2, <1>3, <1>4, <1>5 DEF Inv, TypeOK

(* The main thread of the client.                                          *)
LEMMA MainKeepsInv == Inv /\ ClientMain => Inv'
  <1> SUFFICES ASSUME Inv, ClientMain PROVE Inv'
    OBVIOUS
  <1> USE SimpleAssumption DEF Inv, TypeOK, ClientInv, Conns, flagVars, linkVars, dataVars, serverVars
  <1>1. CASE ClientConnects
    <2>1. MainTypeOK'
      BY <1>1 DEF ClientConnects, StartConnect, MainTypeOK, QuotaInv
    <2>2. FlagTypeOK'
      BY <1>1 DEF ClientConnects, StartConnect, MainTypeOK, FlagTypeOK, CallbackInv
    <2>3. LinkTypeOK'
      BY <1>1 DEF ClientConnects, StartConnect, MainTypeOK, LinkTypeOK, QuotaInv
    <2>4. ClientInv'
      BY <1>1 DEF ClientConnects, StartConnect, MainTypeOK, FlagTypeOK, LinkTypeOK, QuotaInv,
         LinkInv, CallbackInv, ConnectedInv, BeforeSending, NoCallback
    <2>5. ServerTypeOK' /\ ServerInv'
      BY <1>1, ServerFrame DEF ClientConnects, StartConnect
    <2> QED
      BY <2>1, <2>2, <2>3, <2>4, <2>5
  <1>2. CASE WaitRound
    <2>1. MainTypeOK'
      BY <1>2 DEF WaitRound, KeepWaiting, MainTypeOK, QuotaInv
    <2>2. FlagTypeOK'
      BY <1>2 DEF WaitRound, KeepWaiting, MainTypeOK, FlagTypeOK, CallbackInv
    <2>3. LinkTypeOK'
      BY <1>2 DEF WaitRound, KeepWaiting, MainTypeOK, LinkTypeOK, QuotaInv
    <2>4. ClientInv'
      BY <1>2 DEF WaitRound, KeepWaiting, MainTypeOK, FlagTypeOK, LinkTypeOK, QuotaInv, LinkInv,
         CallbackInv, ConnectedInv, BeforeSending, NoCallback
    <2>5. ServerTypeOK' /\ ServerInv'
      BY <1>2, ServerFrame DEF WaitRound, KeepWaiting
    <2> QED
      BY <2>1, <2>2, <2>3, <2>4, <2>5
  <1>3. CASE WaitTick
    <2>1. MainTypeOK'
      BY <1>3 DEF WaitTick, Tick, MainTypeOK, QuotaInv
    <2>2. FlagTypeOK'
      BY <1>3 DEF WaitTick, Tick, MainTypeOK, FlagTypeOK, CallbackInv
    <2>3. LinkTypeOK'
      BY <1>3 DEF WaitTick, Tick, MainTypeOK, LinkTypeOK, QuotaInv
    <2>4. ClientInv'
      BY <1>3 DEF WaitTick, Tick, MainTypeOK, FlagTypeOK, LinkTypeOK, QuotaInv, LinkInv,
         CallbackInv, ConnectedInv, BeforeSending, NoCallback
    <2>5. ServerTypeOK' /\ ServerInv'
      BY <1>3, ServerFrame DEF WaitTick, Tick
    <2> QED
      BY <2>1, <2>2, <2>3, <2>4, <2>5
  <1>4. CASE WaitRetry
    <2>1. MainTypeOK'
      BY <1>4 DEF WaitRetry, RetryDue, StartConnect, ClearedBefore, MainTypeOK, QuotaInv
    <2>0. isConnectFailed' \in BOOLEAN
      BY <1>4 DEF WaitRetry, ClearedBefore
    <2>2. FlagTypeOK'
      BY <1>4, <2>0 DEF WaitRetry, StartConnect, MainTypeOK, FlagTypeOK
    <2>3. LinkTypeOK'
      BY <1>4 DEF WaitRetry, RetryDue, StartConnect, ClearedBefore, MainTypeOK, LinkTypeOK,
         QuotaInv
    <2>4. ClientInv'
      BY <1>4 DEF WaitRetry, RetryDue, StartConnect, ClearedBefore, MainTypeOK, FlagTypeOK,
         LinkTypeOK, QuotaInv, LinkInv, CallbackInv, ConnectedInv, BeforeSending, NoCallback
    <2>5. ServerTypeOK' /\ ServerInv'
      BY <1>4, ServerFrame DEF WaitRetry, RetryDue, StartConnect, ClearedBefore
    <2> QED
      BY <2>1, <2>2, <2>3, <2>4, <2>5
  <1>5. CASE RetryReturns
    <2>1. MainTypeOK'
      BY <1>5 DEF RetryReturns, ClearedAfter, Tick, MainTypeOK, QuotaInv
    <2>2. FlagTypeOK'
      BY <1>5 DEF RetryReturns, ClearedAfter, Tick, MainTypeOK, FlagTypeOK, CallbackInv
    <2>3. LinkTypeOK'
      BY <1>5 DEF RetryReturns, ClearedAfter, Tick, MainTypeOK, LinkTypeOK, QuotaInv
    <2>4. ClientInv'
      BY <1>5 DEF RetryReturns, ClearedAfter, Tick, MainTypeOK, FlagTypeOK, LinkTypeOK, QuotaInv,
         LinkInv, CallbackInv, ConnectedInv, BeforeSending, NoCallback
    <2>5. ServerTypeOK' /\ ServerInv'
      BY <1>5, ServerFrame DEF RetryReturns, ClearedAfter, Tick
    <2> QED
      BY <2>1, <2>2, <2>3, <2>4, <2>5
  <1>6. CASE SendRound
    <2>1. MainTypeOK'
      BY <1>6 DEF SendRound, KeepSending, MainTypeOK, QuotaInv
    <2>2. FlagTypeOK'
      BY <1>6 DEF SendRound, KeepSending, MainTypeOK, FlagTypeOK, CallbackInv
    <2>3. LinkTypeOK'
      BY <1>6 DEF SendRound, KeepSending, MainTypeOK, LinkTypeOK, QuotaInv
    <2>4. ClientInv'
      BY <1>6 DEF SendRound, KeepSending, MainTypeOK, FlagTypeOK, LinkTypeOK, QuotaInv, LinkInv,
         CallbackInv, ConnectedInv, BeforeSending, NoCallback
    <2>5. ServerTypeOK' /\ ServerInv'
      BY <1>6, ServerFrame DEF SendRound, KeepSending
    <2> QED
      BY <2>1, <2>2, <2>3, <2>4, <2>5
  <1>7. CASE SendData
    <2>1. MainTypeOK'
      BY <1>7 DEF SendData, MainTypeOK, QuotaInv
    <2>2. FlagTypeOK'
      BY <1>7 DEF SendData, MainTypeOK, FlagTypeOK, CallbackInv
    <2>3. LinkTypeOK'
      BY <1>7 DEF SendData, MainTypeOK, LinkTypeOK, QuotaInv
    <2>4. ClientInv'
      BY <1>7 DEF SendData, MainTypeOK, FlagTypeOK, LinkTypeOK, QuotaInv, LinkInv, CallbackInv,
         ConnectedInv, BeforeSending, NoCallback
    <2>5. ServerTypeOK' /\ ServerInv'
      BY <1>7, ServerFrame DEF SendData
    <2> QED
      BY <2>1, <2>2, <2>3, <2>4, <2>5
  <1>8. CASE DestroySender
    <2>1. MainTypeOK'
      BY <1>8 DEF DestroySender, MainTypeOK, QuotaInv
    <2>2. FlagTypeOK'
      BY <1>8 DEF DestroySender, MainTypeOK, FlagTypeOK, CallbackInv
    <2>3. LinkTypeOK'
      BY <1>8 DEF DestroySender, MainTypeOK, LinkTypeOK, QuotaInv
    <2>4. ClientInv'
      BY <1>8 DEF DestroySender, MainTypeOK, FlagTypeOK, LinkTypeOK, QuotaInv, LinkInv,
         CallbackInv, ConnectedInv, BeforeSending, NoCallback
    <2>5. ServerTypeOK' /\ ServerInv'
      BY <1>8, ServerFrame DEF DestroySender
    <2> QED
      BY <2>1, <2>2, <2>3, <2>4, <2>5
  <1>9. CASE ClientExits
    <2>1. MainTypeOK'
      BY <1>9 DEF ClientExits, MainTypeOK, QuotaInv
    <2>2. FlagTypeOK'
      BY <1>9 DEF ClientExits, MainTypeOK, FlagTypeOK, CallbackInv
    <2>3. LinkTypeOK'
      BY <1>9 DEF ClientExits, MainTypeOK, LinkTypeOK, QuotaInv
    <2>4. ClientInv'
      BY <1>9 DEF ClientExits, MainTypeOK, FlagTypeOK, LinkTypeOK, QuotaInv, LinkInv, CallbackInv,
         ConnectedInv, BeforeSending, NoCallback
    <2>5. ServerTypeOK' /\ ServerInv'
      BY <1>9, ServerFrame DEF ClientExits
    <2> QED
      BY <2>1, <2>2, <2>3, <2>4, <2>5
  <1> QED
    BY <1>1, <1>2, <1>3, <1>4, <1>5, <1>6, <1>7, <1>8, <1>9 DEF ClientMain

(* ConnectionCallback.                                                     *)
LEMMA EventKeepsInv == Inv /\ ClientEvent => Inv'
  <1> SUFFICES ASSUME Inv, ClientEvent PROVE Inv'
    OBVIOUS
  <1> USE SimpleAssumption DEF Inv, TypeOK, ClientInv, Conns, flagVars, linkVars, dataVars, serverVars
  <1>1. ASSUME NEW n \in Conns, OnFailed(n) PROVE Inv'
    <2>1. MainTypeOK'
      BY <1>1 DEF OnFailed, Idle, KeepMain, MainTypeOK, QuotaInv
    <2>2. FlagTypeOK'
      BY <1>1 DEF OnFailed, Idle, KeepMain, MainTypeOK, FlagTypeOK, CallbackInv
    <2>3. LinkTypeOK'
      BY <1>1 DEF OnFailed, Idle, KeepMain, MainTypeOK, LinkTypeOK, QuotaInv
    <2>4. ClientInv'
      BY <1>1 DEF OnFailed, Idle, KeepMain, MainTypeOK, FlagTypeOK, LinkTypeOK, QuotaInv, LinkInv,
         CallbackInv, ConnectedInv, BeforeSending, NoCallback
    <2>5. ServerTypeOK' /\ ServerInv'
      BY <1>1, ServerFrame DEF OnFailed, Idle, KeepMain
    <2> QED
      BY <2>1, <2>2, <2>3, <2>4, <2>5
  <1>2. ASSUME NEW n \in Conns, OnEstablished(n) PROVE Inv'
    <2>1. MainTypeOK'
      BY <1>2 DEF OnEstablished, Idle, KeepMain, EstablishedOrder, MainTypeOK, QuotaInv
    <2>2. FlagTypeOK'
      BY <1>2 DEF OnEstablished, Idle, KeepMain, EstablishedOrder, MainTypeOK, FlagTypeOK,
         CallbackInv
    <2>3. LinkTypeOK'
      BY <1>2 DEF OnEstablished, Idle, KeepMain, EstablishedOrder, MainTypeOK, LinkTypeOK,
         QuotaInv
    <2>4. ClientInv'
      BY <1>2 DEF OnEstablished, Idle, KeepMain, EstablishedOrder, MainTypeOK, FlagTypeOK,
         LinkTypeOK, QuotaInv, LinkInv, CallbackInv, ConnectedInv, BeforeSending, NoCallback
    <2>5. ServerTypeOK' /\ ServerInv'
      BY <1>2, ServerFrame DEF OnEstablished, Idle, KeepMain, EstablishedOrder
    <2> QED
      BY <2>1, <2>2, <2>3, <2>4, <2>5
  <1>3. ASSUME NEW n \in Conns, OnShutdownByPeer(n) PROVE Inv'
    <2>1. MainTypeOK'
      BY <1>3 DEF OnShutdownByPeer, Idle, KeepMain, MainTypeOK, QuotaInv
    <2>2. FlagTypeOK'
      BY <1>3 DEF OnShutdownByPeer, Idle, KeepMain, MainTypeOK, FlagTypeOK, CallbackInv
    <2>3. LinkTypeOK'
      BY <1>3 DEF OnShutdownByPeer, Idle, KeepMain, MainTypeOK, LinkTypeOK, QuotaInv
    <2>4. ClientInv'
      BY <1>3 DEF OnShutdownByPeer, Idle, KeepMain, MainTypeOK, FlagTypeOK, LinkTypeOK, QuotaInv,
         LinkInv, CallbackInv, ConnectedInv, BeforeSending, NoCallback
    <2>5. ServerTypeOK' /\ ServerInv'
      BY <1>3, ServerFrame DEF OnShutdownByPeer, Idle, KeepMain
    <2> QED
      BY <2>1, <2>2, <2>3, <2>4, <2>5
  <1>4. ASSUME NEW n \in Conns, OnClosed(n) PROVE Inv'
    <2>1. MainTypeOK'
      BY <1>4 DEF OnClosed, Idle, KeepMain, MainTypeOK, QuotaInv
    <2>2. FlagTypeOK'
      BY <1>4 DEF OnClosed, Idle, KeepMain, MainTypeOK, FlagTypeOK, CallbackInv
    <2>3. LinkTypeOK'
      BY <1>4 DEF OnClosed, Idle, KeepMain, MainTypeOK, LinkTypeOK, QuotaInv
    <2>4. ClientInv'
      BY <1>4 DEF OnClosed, Idle, KeepMain, MainTypeOK, FlagTypeOK, LinkTypeOK, QuotaInv, LinkInv,
         CallbackInv, ConnectedInv, BeforeSending, NoCallback
    <2>5. ServerTypeOK' /\ ServerInv'
      BY <1>4, ServerFrame DEF OnClosed, Idle, KeepMain
    <2> QED
      BY <2>1, <2>2, <2>3, <2>4, <2>5
  <1>5. ASSUME NEW n \in Conns, OnBufferFull(n) PROVE Inv'
    <2>1. MainTypeOK'
      BY <1>5 DEF OnBufferFull, Idle, KeepMain, MainTypeOK, QuotaInv
    <2>2. FlagTypeOK'
      BY <1>5 DEF OnBufferFull, Idle, KeepMain, MainTypeOK, FlagTypeOK, CallbackInv
    <2>3. LinkTypeOK'
      BY <1>5 DEF OnBufferFull, Idle, KeepMain, MainTypeOK, LinkTypeOK, QuotaInv
    <2>4. ClientInv'
      BY <1>5 DEF OnBufferFull, Idle, KeepMain, MainTypeOK, FlagTypeOK, LinkTypeOK, QuotaInv,
         LinkInv, CallbackInv, ConnectedInv, BeforeSending, NoCallback
    <2>5. ServerTypeOK' /\ ServerInv'
      BY <1>5, ServerFrame DEF OnBufferFull, Idle, KeepMain
    <2> QED
      BY <2>1, <2>2, <2>3, <2>4, <2>5
  <1>6. ASSUME NEW n \in Conns, OnWritable(n) PROVE Inv'
    <2>1. MainTypeOK'
      BY <1>6 DEF OnWritable, Idle, KeepMain, WritableFlag, MainTypeOK, QuotaInv
    <2>2. FlagTypeOK'
      BY <1>6 DEF OnWritable, Idle, KeepMain, WritableFlag, MainTypeOK, FlagTypeOK, CallbackInv
    <2>3. LinkTypeOK'
      BY <1>6 DEF OnWritable, Idle, KeepMain, WritableFlag, MainTypeOK, LinkTypeOK, QuotaInv
    <2>4. ClientInv'
      BY <1>6 DEF OnWritable, Idle, KeepMain, WritableFlag, MainTypeOK, FlagTypeOK, LinkTypeOK,
         QuotaInv, LinkInv, CallbackInv, ConnectedInv, BeforeSending, NoCallback
    <2>5. ServerTypeOK' /\ ServerInv'
      BY <1>6, ServerFrame DEF OnWritable, Idle, KeepMain, WritableFlag
    <2> QED
      BY <2>1, <2>2, <2>3, <2>4, <2>5
  <1>7. ASSUME NEW n \in Conns, OnDataReceived(n) PROVE Inv'
    <2>1. MainTypeOK'
      BY <1>7 DEF OnDataReceived, Idle, KeepMain, MainTypeOK, QuotaInv
    <2>2. FlagTypeOK'
      BY <1>7 DEF OnDataReceived, Idle, KeepMain, MainTypeOK, FlagTypeOK, CallbackInv
    <2>3. LinkTypeOK'
      BY <1>7 DEF OnDataReceived, Idle, KeepMain, MainTypeOK, LinkTypeOK, QuotaInv
    <2>4. ClientInv'
      BY <1>7 DEF OnDataReceived, Idle, KeepMain, MainTypeOK, FlagTypeOK, LinkTypeOK, QuotaInv,
         LinkInv, CallbackInv, ConnectedInv, BeforeSending, NoCallback
    <2>5. ServerTypeOK' /\ ServerInv'
      BY <1>7, ServerFrame DEF OnDataReceived, Idle, KeepMain
    <2> QED
      BY <2>1, <2>2, <2>3, <2>4, <2>5
  <1>8. ASSUME NEW n \in Conns, Drain(n) PROVE Inv'
    <2>1. MainTypeOK'
      BY <1>8 DEF Drain, KeepMain, MainTypeOK, QuotaInv
    <2>2. FlagTypeOK'
      BY <1>8 DEF Drain, KeepMain, MainTypeOK, FlagTypeOK, CallbackInv
    <2>3. LinkTypeOK'
      BY <1>8 DEF Drain, KeepMain, MainTypeOK, LinkTypeOK, QuotaInv
    <2>4. ClientInv'
      BY <1>8 DEF Drain, KeepMain, MainTypeOK, FlagTypeOK, LinkTypeOK, QuotaInv, LinkInv,
         CallbackInv, ConnectedInv, BeforeSending, NoCallback
    <2>5. ServerTypeOK' /\ ServerInv'
      BY <1>8, ServerFrame DEF Drain, KeepMain
    <2> QED
      BY <2>1, <2>2, <2>3, <2>4, <2>5
  <1>10. ASSUME NEW n \in Conns, OnTimeout(n) PROVE Inv'
    <2>1. MainTypeOK'
      BY <1>10 DEF OnTimeout, Idle, KeepMain, MainTypeOK, QuotaInv
    <2>2. FlagTypeOK'
      BY <1>10 DEF OnTimeout, Idle, KeepMain, MainTypeOK, FlagTypeOK, CallbackInv
    <2>3. LinkTypeOK'
      BY <1>10 DEF OnTimeout, Idle, KeepMain, MainTypeOK, LinkTypeOK, QuotaInv
    <2>4. ClientInv'
      BY <1>10 DEF OnTimeout, Idle, KeepMain, MainTypeOK, FlagTypeOK, LinkTypeOK, QuotaInv, LinkInv,
         CallbackInv, ConnectedInv, BeforeSending, NoCallback
    <2>5. ServerTypeOK' /\ ServerInv'
      BY <1>10, ServerFrame DEF OnTimeout, Idle, KeepMain
    <2> QED
      BY <2>1, <2>2, <2>3, <2>4, <2>5
  <1>9. CASE EstablishedStep
    <2>1. MainTypeOK'
      BY <1>9 DEF EstablishedStep, EstablishedOrder, KeepMain, MainTypeOK, QuotaInv
    <2>2. FlagTypeOK'
      BY <1>9 DEF EstablishedStep, EstablishedOrder, KeepMain, MainTypeOK, FlagTypeOK, CallbackInv
    <2>3. LinkTypeOK'
      BY <1>9 DEF EstablishedStep, EstablishedOrder, KeepMain, MainTypeOK, LinkTypeOK, QuotaInv
    <2>4. ClientInv'
      BY <1>9 DEF EstablishedStep, EstablishedOrder, KeepMain, MainTypeOK, FlagTypeOK, LinkTypeOK,
         QuotaInv, LinkInv, CallbackInv, ConnectedInv, BeforeSending, NoCallback
    <2>5. ServerTypeOK' /\ ServerInv'
      BY <1>9, ServerFrame DEF EstablishedStep, EstablishedOrder, KeepMain
    <2> QED
      BY <2>1, <2>2, <2>3, <2>4, <2>5
  <1> QED
    BY <1>1, <1>2, <1>3, <1>4, <1>5, <1>6, <1>7, <1>8, <1>9, <1>10 DEF ClientEvent

(* Wherever main of the server stands, it holds what that place says.      *)
LEMMA ServerMainKeepsInv == Inv /\ ServerMain => Inv'
  <1> SUFFICES ASSUME Inv, ServerMain PROVE Inv'
    OBVIOUS
  <1> USE DEF Inv, TypeOK
  <1>1. ClientTypeOK' /\ ClientInv'
    BY ClientFrame DEF ServerMain, Create, CreateFails, StartListen, ServerLeaves,
       DestroyProtocol, Destroy, KeepClient, ClientTypeOK
  <1>2. ServerTypeOK'
    <2>1. UNCHANGED <<isStopped, ssig>>
      BY DEF ServerMain, Create, CreateFails, StartListen, ServerLeaves, DestroyProtocol,
         Destroy, KeepClient
    <2>2. sv' \in [Conns -> {"none", "up", "ended"}]
      BY DEF ServerMain, Create, CreateFails, StartListen, ServerLeaves, DestroyProtocol,
         Destroy, ServerTypeOK
    <2>3. handles' \subseteq {"context", "config", "protocol"}
      BY DEF ServerMain, Create, CreateFails, StartListen, ServerLeaves, DestroyProtocol,
         Destroy, ServerTypeOK
    <2>4. spc' \in {"context", "config", "protocol", "listen", "run", "destroyProtocol",
                    "destroyConfig", "destroyContext", "exit"}
      BY DEF ServerMain, Create, CreateFails, FailsTo, StartListen, ServerLeaves,
         DestroyProtocol, Destroy
    <2> QED
      BY <2>1, <2>2, <2>3, <2>4 DEF ServerTypeOK
  <1>3. ServerInv'
    BY DEF ServerMain, Create, CreateFails, FailsTo, StartListen, ServerLeaves, DestroyProtocol,
       Destroy, KeepClient, ServerTypeOK, ServerInv, HandlesAt
  <1> QED
    BY <1>1, <1>2, <1>3 DEF ClientTypeOK

(* The callbacks of the server: an echo takes the place of its data.       *)
LEMMA ServerEventKeepsInv == Inv /\ ServerEvent => Inv'
  <1> SUFFICES ASSUME Inv, NEW n \in Conns, OnNewConnection(n) \/ OnServerData(n) \/ OnServerEnd(n)
               PROVE  Inv'
    BY DEF ServerEvent
  <1> USE DEF Inv, TypeOK, ClientTypeOK
  <1>1. CASE OnNewConnection(n)
    <2>1. ClientTypeOK' /\ ClientInv'
      BY <1>1, ClientFrame DEF OnNewConnection, KeepClient
    <2>2. ServerTypeOK' /\ ServerInv'
      BY <1>1 DEF OnNewConnection, ServerTypeOK, ServerInv, serverVars, KeepClient
    <2> QED
      BY <2>1, <2>2
  <1>2. CASE OnServerData(n)
    <2>1. MainTypeOK' /\ FlagTypeOK'
      BY <1>2 DEF OnServerData, KeepClient, MainTypeOK, FlagTypeOK, mainVars, flagVars
    <2>2. LinkTypeOK' /\ QuotaInv'
      BY <1>2, SimpleAssumption DEF OnServerData, KeepClient, MainTypeOK, LinkTypeOK, ClientInv,
         QuotaInv, mainVars, linkVars
    <2>3. LinkInv' /\ CallbackInv' /\ ConnectedInv'
      BY <1>2 DEF OnServerData, KeepClient, ClientInv, LinkInv, CallbackInv, ConnectedInv,
         mainVars, flagVars, linkVars
    <2>4. ServerTypeOK' /\ ServerInv'
      BY <1>2, ServerFrame DEF OnServerData, KeepClient
    <2> QED
      BY <2>1, <2>2, <2>3, <2>4 DEF ClientInv
  <1>3. CASE OnServerEnd(n)
    <2>1. ClientTypeOK' /\ ClientInv'
      BY <1>3, ClientFrame DEF OnServerEnd, KeepClient
    <2>2. ServerTypeOK' /\ ServerInv'
      BY <1>3 DEF OnServerEnd, ServerTypeOK, ServerInv, KeepClient
    <2> QED
      BY <2>1, <2>2
  <1> QED
    BY <1>1, <1>2, <1>3

LEMMA NextKeepsInv == Inv /\ [Next]_vars => Inv'
  <1> SUFFICES ASSUME Inv, [Next]_vars PROVE Inv'
    OBVIOUS
  <1> USE DEF Inv, TypeOK, ClientTypeOK
  <1>1. CASE Interrupt
    <2>1. MainTypeOK' /\ ServerTypeOK'
      BY <1>1 DEF Interrupt, MainTypeOK, ServerTypeOK, mainVars, serverVars
    <2>2. FlagTypeOK' /\ LinkTypeOK'
      BY <1>1 DEF Interrupt, FlagTypeOK, LinkTypeOK, flagVars, linkVars, dataVars
    <2>3. ClientInv' /\ ServerInv'
      BY <1>1 DEF Interrupt, ClientInv, QuotaInv, LinkInv, CallbackInv, ConnectedInv, ServerInv,
         mainVars, flagVars, linkVars, dataVars, serverVars
    <2> QED
      BY <2>1, <2>2, <2>3
  <1>2. CASE UNCHANGED vars
    <2>1. ClientTypeOK' /\ ClientInv'
      BY <1>2, ClientFrame DEF vars, mainVars, flagVars, linkVars, dataVars
    <2>2. ServerTypeOK' /\ ServerInv'
      BY <1>2, ServerFrame DEF vars, serverVars
    <2> QED
      BY <2>1, <2>2
  <1> QED
    BY <1>1, <1>2, MainKeepsInv, EventKeepsInv, ServerMainKeepsInv, ServerEventKeepsInv DEF Next

LEMMA Invariance == Spec => []Inv
  BY InitInv, NextKeepsInv, PTL DEF Spec

-----------------------------------------------------------------------------
(* What follows.                                                           *)

(* Every variable of the two programs stays in its type.                   *)
THEOREM TypeCorrect == Spec => []TypeOK
  BY Invariance, PTL DEF Inv

(* is_connected is a promise main can rely on without a lock: the newest   *)
(* connection and its block length are there, and no other is open.        *)
THEOREM FlagIsAPromise == Spec => []ReadyWhenConnected
  <1>1. Inv => ReadyWhenConnected
    BY SimpleAssumption DEF Inv, TypeOK, MainTypeOK, ClientInv, LinkInv, ConnectedInv,
       ReadyWhenConnected, Conns
  <1> QED
    BY <1>1, Invariance, PTL

(* bats_connection does not change under a main that sends.                *)
THEOREM ConnectionIsStable == Spec => ConnectionStable
  <1>1. Inv /\ [Next]_vars =>
          [(cpc = "send" /\ isConnected) \/ cpc = "sending" => conn' = conn]_vars
    <2> SUFFICES ASSUME Inv, Next, (cpc = "send" /\ isConnected) \/ cpc = "sending"
                 PROVE  conn' = conn
      BY DEF vars
    <2>1. CASE EstablishedStep
      BY <2>1 DEF EstablishedStep, Inv, ClientInv, CallbackInv, ConnectedInv
    <2>2. CASE ~EstablishedStep
      BY <2>2 DEF Next, ClientMain, ClientConnects, WaitRound, WaitTick, WaitRetry, RetryReturns,
         SendRound, SendData, DestroySender, ClientExits, ClientEvent, OnFailed, OnTimeout, OnEstablished,
         OnShutdownByPeer, OnClosed, OnBufferFull, OnWritable, OnDataReceived, Drain, ServerMain,
         Create, CreateFails, StartListen, ServerLeaves, DestroyProtocol, Destroy, ServerEvent,
         OnNewConnection, OnServerData, OnServerEnd, Interrupt, KeepClient, flagVars
    <2> QED
      BY <2>1, <2>2
  <1> QED
    BY <1>1, Invariance, PTL DEF Spec, ConnectionStable

(* Whatever step of its set-up fails, the server destroys what it created, *)
(* in order.                                                               *)
THEOREM HandlesAreNested == Spec => []HandlesNest
  <1>1. Inv => HandlesNest
    BY DEF Inv, ServerInv, HandlesAt, HandlesNest
  <1> QED
    BY <1>1, Invariance, PTL
=============================================================================

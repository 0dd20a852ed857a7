-------------------------- MODULE IperfStream_proofs --------------------------
(***************************************************************************)
(* Proofs about a data stream (IperfStream), for every protocol, threshold *)
(* and bound: what the colours of the datagrams guarantee about the losses *)
(* that a receiver prints for an interval.                                 *)
(***************************************************************************)
EXTENDS IperfStream, FiniteSetTheorems, TLAPS

-----------------------------------------------------------------------------
(* The inductive invariant.                                                *)

End(int) == int.start + int.n

(* Where the sending thread is bounds what it has sent and says whether    *)
(* the datagram in the buffer is the one under way.                        *)
ThreadInv ==
    /\ tpc = "off" => sent = 0
    /\ tpc \in {"loop", "fin", "finretry", "fincount"} => sent <= MaxDatagrams
    /\ tpc \in {"wait", "prep", "send", "retry", "count"} => sent < MaxDatagrams
    /\ tpc \in {"send", "retry", "count"} => hdr.seq = sent /\ ~hdr.last /\ hdr.grp = lastGrp
    /\ tpc \in {"finretry", "fincount"} => hdr.seq = sent /\ hdr.last /\ ~hdr.has /\ IsReliableProtocol
    /\ snapCnt = 0 => lastGrp = 0

(* Datagrams in flight: numbered once, an interval behind its number, and  *)
(* nothing after the FIN.                                                  *)
SeqInv ==
    \A p \in net :
        /\ p.seq < sent \/ (p.seq = sent /\ tpc \in {"count", "fincount"} /\ p = hdr)
        /\ p.has => End(p.int) <= p.seq /\ ~p.last
        /\ p.last => IsReliableProtocol /\ tpc \in {"fincount", "exit"} /\ \A q \in net : q.seq <= p.seq
        /\ \A q \in net : p.seq = q.seq => p = q

(* The datagrams that may still be received, the one under way included.   *)
Live == net \cup (IF tpc \in {"send", "retry"} THEN {hdr} ELSE {})

Sending == tpc \notin {"finretry", "fincount", "exit"}

(* A colour g that came with an interval ending at e is behind the sender: *)
(* a datagram of the other colour that it numbers from now on names an     *)
(* interval that starts at e or later.                                     *)
Behind(g, e) ==
    Sending =>
        /\ snapCnt > 0
        /\ e <= snapAt
        /\ g # snapCnt % 2 => e <= interval.start
        /\ g # lastGrp => hdr.has /\ e <= hdr.int.start

(* After the interval of q has been processed, p is either not taken for a *)
(* change of colour or names a later interval.                             *)
Ordered(p, g, e) == e < p.seq /\ p.grp # g => p.has /\ e <= p.int.start

ColourInv ==
    /\ hdr.has => Behind(lastGrp, End(hdr.int))
    /\ \A p \in Live : ~p.last =>
        /\ p.has => Behind(p.grp, End(p.int))
        /\ p.seq > snapAt => p.grp = snapCnt % 2
        /\ hdr.has /\ End(hdr.int) < p.seq => p.grp = lastGrp
        /\ \A q \in Live : q.has => Ordered(p, q.grp, End(q.int))

(* The same for the change of colour the receiver saw last; until it has   *)
(* seen one with an interval, rChanged is 0.  Nothing at or above rChanged *)
(* is missing from the record.                                             *)
RecordInv ==
    /\ rGrp = -1 => rChanged = 0
    /\ \A i \in rGot : i >= rChanged => i \in rRecorded
    /\ rChanged # 0 => Behind(rGrp, rChanged)
    /\ \A p \in Live : ~p.last => rChanged = 0 \/ Ordered(p, rGrp, rChanged)

(* On a reliable protocol, all numbers below that of a datagram have been  *)
(* sent; a datagram is given up only when none but the FIN follows.        *)
Arrives(i) == i \in rGot \/ \E q \in net : q.seq = i
UpTo(n) == \A i \in 0..(n - 1) : Arrives(i)
GivesUp == sState # "START" \/ sErr

CompleteInv ==
    IsReliableProtocol =>
        /\ \A p \in net : ~p.last => UpTo(p.seq)
        /\ tpc \in {"wait", "prep", "send", "retry", "count"} => UpTo(sent)
        /\ tpc = "count" => GivesUp \/ Arrives(sent)
        /\ tpc = "loop" => GivesUp \/ UpTo(sent)
        /\ rInterval.lost = 0

(* On an unreliable protocol, the receiver has counted what it has got.    *)
CountInv ==
    ~IsReliableProtocol =>
        /\ rpc = "idle"
        /\ mpc # "done" => summary = -1 /\ ~rSum
        /\ rSum => summary = -1
        /\ ~rSum /\ ~rStopped => rCount >= Cardinality(rGot)
        /\ rCount >= Cardinality(rGot \cap 0..(rPeer - 1))

Inv == TypeOK /\ ThreadInv /\ SeqInv /\ ColourInv /\ RecordInv /\ CompleteInv /\ CountInv

-----------------------------------------------------------------------------
(* Types of what is compared.                                              *)

LEMMA PacketType ==
  ASSUME NEW p \in Packet
  PROVE  /\ p.seq \in Nat /\ p.grp \in {0, 1} /\ p.has \in BOOLEAN /\ p.last \in BOOLEAN
         /\ p.int.start \in Nat /\ p.int.n \in Nat /\ End(p.int) \in Nat
  BY DEF Packet, Interval, End

LEMMA SenderType ==
  ASSUME SenderTypeOK
  PROVE  /\ sent \in Nat /\ snapCnt \in Nat /\ snapAt \in Nat /\ snapAt <= sent
         /\ interval.start \in Nat /\ End(interval) = snapAt /\ interval.start <= snapAt
         /\ snapCnt % 2 \in {0, 1} /\ hdr \in Packet /\ lastGrp \in {0, 1}
  BY StreamAssumption DEF SenderTypeOK, Interval, End

LEMMA LiveType ==
  ASSUME TypeOK, NEW p \in Live
  PROVE  p \in Packet
  BY DEF TypeOK, SenderTypeOK, ChannelTypeOK, Live

(* A range of n numbers has n elements, and one number more makes a set no *)
(* larger than that.                                                       *)
LEMMA RangeSize ==
  ASSUME NEW a \in Nat, NEW n \in Nat
  PROVE  IsFiniteSet(a..(a + n - 1)) /\ Cardinality(a..(a + n - 1)) = n
  <1>1. a \in Int /\ a + n - 1 \in Int
    OBVIOUS
  <1>2. /\ IsFiniteSet(a..(a + n - 1))
        /\ Cardinality(a..(a + n - 1)) = IF a > a + n - 1 THEN 0 ELSE (a + n - 1) - a + 1
    BY <1>1, FS_Interval
  <1>3. (IF a > a + n - 1 THEN 0 ELSE (a + n - 1) - a + 1) = n
    OBVIOUS
  <1> QED
    BY <1>2, <1>3

LEMMA AddOne ==
  ASSUME NEW S, NEW x, NEW T, IsFiniteSet(S), T = S \/ T = S \cup {x}
  PROVE  Cardinality(S) \in Nat /\ Cardinality(T) \in Nat /\ Cardinality(T) <= Cardinality(S) + 1
  <1>1. Cardinality(S) \in Nat
    BY FS_CardinalityType
  <1>2. Cardinality(S \cup {x}) = IF x \in S THEN Cardinality(S) ELSE Cardinality(S) + 1
    BY FS_AddElement
  <1>3. CASE T = S
    BY <1>1, <1>3
  <1>4. CASE T = S \cup {x}
    <2>1. Cardinality(T) = IF x \in S THEN Cardinality(S) ELSE Cardinality(S) + 1
      BY <1>2, <1>4
    <2> QED
      BY <1>1, <2>1
  <1> QED
    BY <1>3, <1>4

(* There are n numbers below n.                                            *)
LEMMA GotBelow ==
  ASSUME NEW S, NEW n \in Nat
  PROVE  /\ IsFiniteSet(S \cap 0..(n - 1)) /\ Cardinality(S \cap 0..(n - 1)) \in Nat
         /\ Cardinality(S \cap 0..(n - 1)) <= n
         /\ Cardinality(0..(n - 1) \ S) = n - Cardinality(S \cap 0..(n - 1))
  <1>1. IsFiniteSet(0..(n - 1)) /\ Cardinality(0..(n - 1)) = n
    BY FS_Interval
  <1> DEFINE B == 0..(n - 1)
             T == S \cap B
  <1>2. T \in SUBSET B /\ B \cap S = T
    OBVIOUS
  <1> HIDE DEF B
  <1>3. IsFiniteSet(T) /\ Cardinality(T) <= Cardinality(B)
    BY <1>1, <1>2, FS_Subset DEF B
  <1>4. Cardinality(T) \in Nat
    BY <1>3, FS_CardinalityType
  <1>5. Cardinality(B \ S) = Cardinality(B) - Cardinality(B \cap S)
    BY <1>1, FS_Difference DEF B
  <1> QED
    BY <1>1, <1>2, <1>3, <1>4, <1>5 DEF B

-----------------------------------------------------------------------------
(* What each part of the invariant depends on.                             *)

coreVars == <<net, tpc, sent, hdr, lastGrp, snapCnt, snapAt, interval>>
recordVars == <<rGrp, rChanged, rRecorded, rGot, rInterval>>
countVars == <<rpc, mpc, summary, rSum, rStopped, rCount, rGot, rPeer>>

LEMMA CoreFrame ==
  ASSUME ThreadInv, SeqInv, ColourInv, UNCHANGED coreVars
  PROVE  ThreadInv' /\ SeqInv' /\ ColourInv'
  <1>1. ThreadInv'
    BY DEF ThreadInv, coreVars
  <1>2. SeqInv'
    BY DEF SeqInv, coreVars
  <1>3. UNCHANGED <<Live, Sending>>
    BY DEF Live, Sending, coreVars
  <1>4. ColourInv'
    BY <1>3 DEF ColourInv, Behind, coreVars
  <1> QED
    BY <1>1, <1>2, <1>4

(* Datagrams leave, or the FIN joins them, and colours stay.               *)
LEMMA ColourMove ==
  ASSUME ColourInv, UNCHANGED <<snapCnt, snapAt>>,
         \A p \in Live' : p \in Live \/ (p.last /\ ~p.has),
         \/ (UNCHANGED <<hdr, lastGrp, interval>> /\ (Sending' => Sending))
         \/ ~Sending' /\ ~hdr'.has
  PROVE  ColourInv'
  <1>1. ASSUME NEW g, NEW e, Behind(g, e) PROVE Behind(g, e)'
    BY <1>1 DEF Behind
  <1>2. (hdr.has => Behind(lastGrp, End(hdr.int)))'
    BY <1>1 DEF ColourInv, Behind
  <1>3. ASSUME NEW p \in Live', ~p.last
        PROVE  /\ p.has => Behind(p.grp, End(p.int))'
               /\ p.seq > snapAt' => p.grp = snapCnt' % 2
               /\ hdr'.has /\ End(hdr'.int) < p.seq => p.grp = lastGrp'
               /\ \A q \in Live' : q.has => Ordered(p, q.grp, End(q.int))
    <2>1. p \in Live
      BY <1>3
    <2>2. p.has => Behind(p.grp, End(p.int))'
      BY <1>1, <1>3, <2>1 DEF ColourInv
    <2>3. /\ p.seq > snapAt' => p.grp = snapCnt' % 2
          /\ hdr'.has /\ End(hdr'.int) < p.seq => p.grp = lastGrp'
      BY <1>3, <2>1 DEF ColourInv
    <2>4. \A q \in Live' : q.has => Ordered(p, q.grp, End(q.int))
      BY <1>3, <2>1 DEF ColourInv
    <2> QED
      BY <2>2, <2>3, <2>4
  <1> QED
    BY <1>2, <1>3 DEF ColourInv, Ordered, End

LEMMA RecordMove ==
  ASSUME RecordInv, UNCHANGED <<snapCnt, snapAt, rGrp, rChanged, rRecorded, rGot>>,
         \A p \in Live' : p \in Live \/ p.last,
         \/ (UNCHANGED <<hdr, lastGrp, interval>> /\ (Sending' => Sending))
         \/ ~Sending'
  PROVE  RecordInv'
  <1>1. rChanged # 0 => Behind(rGrp, rChanged)'
    BY DEF RecordInv, Behind
  <1> QED
    BY <1>1 DEF RecordInv, Ordered

LEMMA CompleteFrame ==
  ASSUME CompleteInv, UNCHANGED <<net, tpc, sent, rGot, rInterval>>, GivesUp => GivesUp'
  PROVE  CompleteInv'
  BY DEF CompleteInv, UpTo, Arrives

LEMMA CountFrame ==
  ASSUME CountInv, UNCHANGED countVars
  PROVE  CountInv'
  BY DEF CountInv, countVars

LEMMA ReceiverFrame ==
  ASSUME ReceiverTypeOK, RecordTypeOK, UNCHANGED <<rIOVars, rRepVars, sent>>
  PROVE  ReceiverTypeOK' /\ RecordTypeOK'
  BY DEF ReceiverTypeOK, RecordTypeOK, rIOVars, rRepVars

-----------------------------------------------------------------------------
LEMMA InitInv == Init => Inv
  <1> SUFFICES ASSUME Init PROVE Inv
    OBVIOUS
  <1> USE StreamAssumption
  <1>0. NoInterval \in Interval /\ NoInterval.start + NoInterval.n = 0
    BY DEF Interval, NoInterval
  <1>1. SenderTypeOK
    <2>1. hdr \in Packet
      BY <1>0 DEF Init, Packet
    <2>2. sent \in 0..(MaxDatagrams + 1) /\ snapCnt \in 0..MaxSnapshots /\ snapAt \in 0..sent /\ fills \in 0..MaxFull
      BY DEF Init
    <2> QED
      BY <1>0, <2>1, <2>2 DEF Init, SenderTypeOK, ThreadPc, StreamState
  <1>2. ChannelTypeOK /\ ReceiverTypeOK /\ RecordTypeOK
    <2>1. summary \in -1..(MaxDatagrams + 1) /\ rChanged \in 0..sent
      BY DEF Init
    <2>2. rInterval \in [start : Nat, n : Nat, lost : Nat]
      BY DEF Init
    <2> QED
      BY <2>1, <2>2 DEF Init, ChannelTypeOK, ReceiverTypeOK, RecordTypeOK, StreamState
  <1>3. ThreadInv /\ SeqInv
    BY DEF Init, ThreadInv, SeqInv
  <1>4. ColourInv /\ RecordInv
    BY DEF Init, ColourInv, RecordInv, Live
  <1>5. CompleteInv
    BY DEF Init, CompleteInv
  <1>6. CountInv
    BY FS_EmptySet DEF Init, CountInv
  <1> QED
    BY <1>1, <1>2, <1>3, <1>4, <1>5, <1>6 DEF Inv, TypeOK

-----------------------------------------------------------------------------
(* The sender's main thread.                                               *)

LEMMA SnapshotInv ==
  ASSUME Inv, Snapshot
  PROVE  Inv'
  <1> USE DEF Inv, TypeOK
  <1>1. /\ interval' = [start |-> snapAt, n |-> sent - snapAt] /\ snapAt' = sent
        /\ snapCnt' = snapCnt + 1 /\ snapCnt < MaxSnapshots
        /\ UNCHANGED <<mpc, thrVars, sState, flagVars, chanVars, rIOVars, rRepVars>>
    BY DEF Snapshot
  <1>2. UNCHANGED <<net, tpc, sent, hdr, lastGrp, Live, Sending>>
    BY <1>1 DEF thrVars, chanVars, Live, Sending
  <1>3. SenderTypeOK'
    BY <1>1, SenderType, StreamAssumption DEF SenderTypeOK, thrVars, flagVars, Interval
  <1>4. ChannelTypeOK' /\ ReceiverTypeOK' /\ RecordTypeOK'
    BY <1>1, <1>2, ReceiverFrame DEF ChannelTypeOK, chanVars
  <1>5. ThreadInv' /\ SeqInv'
    BY <1>1, <1>2, SenderType DEF ThreadInv, SeqInv
  <1>6. ASSUME NEW g, NEW e \in Nat, Behind(g, e) PROVE Behind(g, e)'
    <2>1. Sending' => Sending /\ snapCnt' > 0 /\ e <= snapAt' /\ e <= interval'.start
      BY <1>1, <1>2, <1>6, SenderType DEF Behind
    <2> QED
      BY <1>2, <1>6, <2>1 DEF Behind
  <1>7. \A p \in Live : p.seq <= sent
    BY LiveType, PacketType, SenderType DEF SeqInv, ThreadInv, Live, ChannelTypeOK
  <1>8. ColourInv'
    <2>1. (hdr.has => Behind(lastGrp, End(hdr.int)))'
      BY <1>2, <1>6, SenderType, PacketType DEF ColourInv
    <2>2. ASSUME NEW p \in Live, ~p.last
          PROVE  /\ p.has => Behind(p.grp, End(p.int))'
                 /\ p.seq > snapAt' => p.grp = snapCnt' % 2
                 /\ hdr'.has /\ End(hdr'.int) < p.seq => p.grp = lastGrp'
                 /\ \A q \in Live : q.has => Ordered(p, q.grp, End(q.int))
      <3>1. p.has => Behind(p.grp, End(p.int))'
        BY <1>6, <2>2, LiveType, PacketType DEF ColourInv
      <3>2. ~(p.seq > snapAt')
        BY <1>1, <1>7, <2>2, LiveType, PacketType, SenderType
      <3> QED
        BY <1>2, <2>2, <3>1, <3>2 DEF ColourInv
    <2> QED
      BY <1>2, <2>1, <2>2 DEF ColourInv, Ordered, End
  <1>9. RecordInv'
    <2>1. UNCHANGED <<rGrp, rChanged, rRecorded, rGot, rInterval>> /\ rChanged \in Nat
      BY <1>1, SenderType DEF rIOVars, RecordTypeOK
    <2>2. rChanged # 0 => Behind(rGrp, rChanged)'
      BY <1>6, <2>1 DEF RecordInv
    <2> QED
      BY <1>2, <2>1, <2>2 DEF RecordInv, Ordered
  <1>10. CompleteInv'
    BY <1>1, <1>2, CompleteFrame DEF rIOVars, flagVars, GivesUp
  <1>11. CountInv'
    BY <1>1, CountFrame DEF countVars, rIOVars, rRepVars, chanVars
  <1> QED
    BY <1>3, <1>4, <1>5, <1>8, <1>9, <1>10, <1>11

(* What changes neither the numbering nor the record.                      *)
LEMMA QuietStep ==
  ASSUME Inv, UNCHANGED <<coreVars, recordVars>>, GivesUp => GivesUp'
  PROVE  ThreadInv' /\ SeqInv' /\ ColourInv' /\ RecordInv' /\ CompleteInv'
  <1> USE DEF Inv
  <1>1. ThreadInv' /\ SeqInv' /\ ColourInv'
    BY CoreFrame
  <1>2. RecordInv'
    BY RecordMove DEF coreVars, recordVars, Live, Sending
  <1>3. CompleteInv'
    BY CompleteFrame DEF coreVars, recordVars
  <1> QED
    BY <1>1, <1>2, <1>3

LEMMA MainInv ==
  ASSUME Inv, FinishReport \/ SerializeReport
  PROVE  Inv'
  <1> USE DEF Inv, TypeOK
  <1>1. UNCHANGED <<coreVars, recordVars>> /\ (GivesUp => GivesUp') /\ UNCHANGED <<rIOVars, rRepVars>>
    BY DEF FinishReport, SerializeReport, coreVars, recordVars, GivesUp, thrVars, flagVars, chanVars, rIOVars
  <1>2. ThreadInv' /\ SeqInv' /\ ColourInv' /\ RecordInv' /\ CompleteInv'
    BY <1>1, QuietStep
  <1>3. SenderTypeOK' /\ ChannelTypeOK'
    BY SenderType, StreamAssumption DEF FinishReport, SerializeReport, SenderTypeOK, ChannelTypeOK, thrVars, flagVars, chanVars, StreamState
  <1>4. ReceiverTypeOK' /\ RecordTypeOK'
    BY <1>1, ReceiverFrame DEF coreVars
  <1>5. CountInv'
    <2>1. mpc # "done" /\ UNCHANGED <<rpc, rSum, rStopped, rCount, rGot, rPeer>>
      BY DEF FinishReport, SerializeReport, rIOVars, rRepVars
    <2>2. summary' = summary \/ mpc' = "done"
      BY DEF FinishReport, SerializeReport, chanVars
    <2> QED
      BY <2>1, <2>2 DEF CountInv
  <1> QED
    BY <1>2, <1>3, <1>4, <1>5

-----------------------------------------------------------------------------
(* The IO threads, where they touch neither the numbering nor the record.  *)

LEMMA SenderIOInv ==
  ASSUME Inv, BufferFull \/ Writable \/ SendDataError \/ FinAckReceived
  PROVE  Inv'
  <1> USE DEF Inv, TypeOK
  <1>1. UNCHANGED <<coreVars, recordVars, countVars, rIOVars, rRepVars>> /\ (GivesUp => GivesUp')
    BY DEF BufferFull, Writable, SendDataError, FinAckReceived, coreVars, recordVars, countVars, GivesUp,
       mainVars, thrVars, flagVars, chanVars, rIOVars, rRepVars
  <1>2. ThreadInv' /\ SeqInv' /\ ColourInv' /\ RecordInv' /\ CompleteInv'
    BY <1>1, QuietStep
  <1>3. SenderTypeOK'
    <2>1. fills' \in 0..MaxFull
      BY StreamAssumption DEF BufferFull, Writable, SendDataError, FinAckReceived, flagVars, SenderTypeOK
    <2> QED
      BY <2>1 DEF BufferFull, Writable, SendDataError, FinAckReceived, SenderTypeOK, mainVars, thrVars,
         flagVars, StreamState
  <1>4. ChannelTypeOK'
    BY DEF BufferFull, Writable, SendDataError, FinAckReceived, ChannelTypeOK, chanVars
  <1>5. ReceiverTypeOK' /\ RecordTypeOK'
    BY <1>1, ReceiverFrame DEF coreVars
  <1>6. CountInv'
    BY <1>1, CountFrame
  <1> QED
    BY <1>2, <1>3, <1>4, <1>5, <1>6

LEMMA PeerInv ==
  ASSUME Inv, PeerRefuses \/ PeerDrains \/ PeerWritable
  PROVE  Inv'
  <1> USE DEF Inv, TypeOK
  <1>1. UNCHANGED <<senderVars, chanVars>>
    BY DEF PeerRefuses, PeerDrains, PeerWritable
  <1>2. UNCHANGED <<recordVars, countVars>>
    BY DEF PeerRefuses, PeerDrains, PeerWritable, recordVars, countVars, senderVars, mainVars, chanVars, rRepVars
  <1>3. UNCHANGED coreVars /\ (GivesUp => GivesUp')
    BY <1>1 DEF coreVars, GivesUp, senderVars, mainVars, thrVars, flagVars, chanVars
  <1>4. ThreadInv' /\ SeqInv' /\ ColourInv' /\ RecordInv' /\ CompleteInv'
    BY <1>2, <1>3, QuietStep
  <1>5. SenderTypeOK' /\ ChannelTypeOK'
    BY <1>1 DEF SenderTypeOK, ChannelTypeOK, senderVars, mainVars, thrVars, flagVars, chanVars
  <1>6. ReceiverTypeOK' /\ RecordTypeOK'
    <2>1. UNCHANGED <<rpc, rKnown, rExit, rState, rStopped, rNull, rCount, rLost, rPeer, rFin, rSum>>
      BY DEF PeerRefuses, PeerDrains, PeerWritable, rRepVars
    <2>2. rFull' \in BOOLEAN /\ rWritable' \in BOOLEAN
      BY DEF PeerRefuses, PeerDrains, PeerWritable, ReceiverTypeOK
    <2>3. ReceiverTypeOK'
      BY <2>1, <2>2 DEF ReceiverTypeOK
    <2>4. RecordTypeOK'
      BY <1>2, <1>3 DEF RecordTypeOK, recordVars, coreVars
    <2> QED
      BY <2>3, <2>4
  <1>7. CountInv'
    BY <1>2, CountFrame
  <1> QED
    BY <1>4, <1>5, <1>6, <1>7

(* Changes of the receiver's reports by the FIN-ACK loop, the summary and  *)
(* Stop.                                                                   *)
LEMMA ReportInv ==
  ASSUME Inv, FinAckLoop \/ HandleSummaryMessage \/ Stop
  PROVE  Inv'
  <1> USE DEF Inv, TypeOK
  <1>1. UNCHANGED <<senderVars, net, recordVars>>
    BY DEF FinAckLoop, HandleSummaryMessage, Stop, recordVars, chanVars, rIOVars
  <1>2. UNCHANGED coreVars /\ (GivesUp => GivesUp')
    BY <1>1 DEF coreVars, GivesUp, senderVars, mainVars, thrVars, flagVars
  <1>3. ThreadInv' /\ SeqInv' /\ ColourInv' /\ RecordInv' /\ CompleteInv'
    BY <1>1, <1>2, QuietStep
  <1>4. SenderTypeOK'
    BY <1>1 DEF SenderTypeOK, senderVars, mainVars, thrVars, flagVars
  <1>5. ChannelTypeOK'
    <2>1. -1 \in -1..(MaxDatagrams + 1)
      BY StreamAssumption
    <2>2. finAck' \in BOOLEAN
      BY DEF ChannelTypeOK, FinAckLoop, HandleSummaryMessage, Stop, chanVars
    <2>3. summary' = summary \/ summary' = -1
      BY DEF FinAckLoop, HandleSummaryMessage, Stop, chanVars
    <2> QED
      BY <1>1, <2>1, <2>2, <2>3 DEF ChannelTypeOK
  <1>6. RecordTypeOK'
    BY <1>1, <1>2 DEF RecordTypeOK, recordVars, coreVars
  <1>7. ReceiverTypeOK'
    <2> USE DEF ReceiverTypeOK
    <2>1. ASSUME NEW peer \in Nat, NEW count \in Nat, GenReceiveSummary(peer, count)
          PROVE  rLost' \in Nat /\ rCount' \in Nat
      BY <2>1 DEF GenReceiveSummary
    <2>2. CASE FinAckLoop
      <3>1. rPeer' \in Nat
        BY <2>2 DEF FinAckLoop
      <3>2. rLost' \in Nat /\ rCount' \in Nat
        BY <2>1, <2>2 DEF FinAckLoop
      <3> QED
        BY <2>2, <3>1, <3>2 DEF FinAckLoop, StreamState
    <2>3. CASE HandleSummaryMessage
      <3>1. summary \in Nat
        BY <2>3, StreamAssumption DEF HandleSummaryMessage, ChannelTypeOK
      <3>2. rLost' \in Nat /\ rCount' \in Nat
        BY <2>1, <2>3, <3>1 DEF HandleSummaryMessage
      <3> QED
        BY <2>3, <3>1, <3>2 DEF HandleSummaryMessage, StreamState, rIOVars
    <2>4. CASE Stop
      <3>1. rLost' \in Nat /\ rCount' \in Nat
        BY <2>1, <2>4 DEF Stop
      <3> QED
        BY <2>4, <3>1 DEF Stop, StreamState, rIOVars
    <2> QED
      BY <2>2, <2>3, <2>4
  <1>8. CountInv'
    <2> SUFFICES ASSUME ~IsReliableProtocol PROVE CountInv'
      BY DEF CountInv, IsReliableProtocol
    <2>1. UNCHANGED <<rGot, mpc>>
      BY <1>1 DEF recordVars, senderVars, mainVars
    <2>2. \A n \in Nat : n >= Cardinality(rGot \cap 0..(n - 1))
      BY <2>1, GotBelow
    <2>3. ~FinAckLoop
      BY DEF CountInv, FinAckLoop
    <2>4. CASE HandleSummaryMessage /\ rKnown /\ ~rStopped
      <3>1. rPeer' = summary /\ rCount' = summary /\ summary \in Nat /\ rSum' = TRUE /\ summary' = -1
            /\ UNCHANGED <<rpc, rStopped>> /\ summary # -1
        BY <2>4, StreamAssumption DEF HandleSummaryMessage, GenReceiveSummary, ChannelTypeOK, rIOVars
      <3>2. mpc = "done"
        BY <3>1 DEF CountInv
      <3> QED
        BY <2>1, <2>2, <3>1, <3>2 DEF CountInv
    <2>5. CASE HandleSummaryMessage /\ (~rKnown \/ rStopped)
      <3>1. UNCHANGED <<rPeer, rSum, rCount, rpc, rStopped>> /\ summary' = -1
        BY <2>5 DEF HandleSummaryMessage, rIOVars
      <3> QED
        BY <2>1, <3>1 DEF CountInv
    <2>6. CASE Stop
      <3>1. UNCHANGED <<rPeer, rSum, rpc, summary>> /\ rStopped'
        BY <2>6 DEF Stop, rIOVars, chanVars
      <3>2. rCount' = rCount \/ rCount' = rPeer
        BY <2>6 DEF Stop, GenReceiveSummary
      <3> QED
        BY <2>1, <2>2, <3>1, <3>2 DEF CountInv, ReceiverTypeOK
    <2> QED
      BY <2>3, <2>4, <2>5, <2>6 DEF HandleSummaryMessage
  <1> QED
    BY <1>3, <1>4, <1>5, <1>6, <1>7, <1>8

-----------------------------------------------------------------------------
(* The sending thread.                                                     *)

(* What is left to show of a step of it.                                   *)
LEMMA ThreadStep ==
  ASSUME Inv, UNCHANGED <<mainVars, sWritable, full, fills, finAck, summary, rIOVars, rRepVars>>,
         tpc' \in ThreadPc, sState' \in StreamState, sErr' \in BOOLEAN,
         hdr' \in Packet, lastGrp' \in {0, 1}, net' \subseteq Packet,
         sent' = sent \/ (sent' = sent + 1 /\ sent <= MaxDatagrams),
         ThreadInv', SeqInv', ColourInv', RecordInv', CompleteInv'
  PROVE  Inv'
  <1> USE DEF Inv, TypeOK
  <1>1. sent' \in 0..(MaxDatagrams + 1) /\ sent <= sent' /\ sent \in Nat /\ sent' \in Nat
    BY StreamAssumption, SenderType DEF SenderTypeOK
  <1>2. SenderTypeOK'
    <2>1. snapAt' \in 0..sent'
      BY <1>1, SenderType DEF mainVars
    <2> QED
      BY <1>1, <2>1 DEF SenderTypeOK, mainVars
  <1>3. ChannelTypeOK' /\ ReceiverTypeOK'
    BY DEF ChannelTypeOK, ReceiverTypeOK, rIOVars, rRepVars
  <1>4. RecordTypeOK'
    <2>1. \A i \in 0..sent : i \in 0..sent'
      BY <1>1
    <2> QED
      BY <2>1 DEF RecordTypeOK, rIOVars
  <1>5. CountInv'
    BY CountFrame DEF countVars, mainVars, rIOVars, rRepVars
  <1> QED
    BY <1>2, <1>3, <1>4, <1>5

LEMMA StartInv ==
  ASSUME Inv, StartSend \/ ThreadLoop \/ ThreadWait
  PROVE  Inv'
  <1> USE DEF Inv, TypeOK
  <1>1. /\ UNCHANGED <<mainVars, sent, hdr, lastGrp, sWritable, full, fills, chanVars, rIOVars, rRepVars>>
        /\ tpc \in {"off", "loop", "wait"} /\ tpc' \in {"loop", "wait", "prep", "fin"}
        /\ sState' \in StreamState /\ sErr' \in BOOLEAN
    BY DEF StartSend, ThreadLoop, ThreadWait, SenderTypeOK, flagVars, StreamState
  <1>2. UNCHANGED <<net, Live, Sending, snapCnt, snapAt, interval>>
    BY <1>1 DEF chanVars, Live, Sending, mainVars
  <1>3. ThreadInv'
    <2>1. CASE StartSend
      BY <1>1, <1>2, <2>1, StreamAssumption DEF StartSend, ThreadInv
    <2>2. CASE ThreadLoop
      BY <1>1, <1>2, <2>2 DEF ThreadLoop, ThreadInv
    <2>3. CASE ThreadWait
      <3>1. sent < MaxDatagrams /\ sent <= MaxDatagrams
        BY <2>3, SenderType, StreamAssumption DEF ThreadWait, ThreadInv
      <3> QED
        BY <1>1, <1>2, <3>1 DEF ThreadInv
    <2> QED
      BY <2>1, <2>2, <2>3
  <1>4. SeqInv'
    BY <1>1, <1>2 DEF SeqInv
  <1>5. ColourInv' /\ RecordInv'
    BY <1>1, <1>2, ColourMove, RecordMove DEF rIOVars
  <1>6. CompleteInv'
    <2>1. UNCHANGED <<rGot, rInterval>>
      BY <1>1 DEF rIOVars
    <2>2. \A n : UpTo(n) <=> UpTo(n)'
      BY <1>2, <2>1 DEF UpTo, Arrives
    <2>3. \A p \in net' : IsReliableProtocol /\ ~p.last => UpTo(p.seq)'
      BY <1>2, <2>2 DEF CompleteInv
    <2>4. IsReliableProtocol => tpc' = "fin" \/ UpTo(sent)' \/ (tpc' = "loop" /\ GivesUp')
      <3>1. CASE StartSend
        <4>1. sent = 0
          BY <3>1 DEF StartSend, ThreadInv
        <4> QED
          BY <1>1, <4>1 DEF UpTo
      <3>2. CASE ThreadLoop
        BY <1>1, <2>2, <3>2 DEF ThreadLoop, CompleteInv, GivesUp, SenderTypeOK
      <3>3. CASE ThreadWait
        BY <1>1, <2>2, <3>3 DEF ThreadWait, CompleteInv
      <3> QED
        BY <3>1, <3>2, <3>3
    <2> QED
      BY <1>1, <2>1, <2>3, <2>4 DEF CompleteInv, IsReliableProtocol
  <1>7. tpc' \in ThreadPc /\ hdr' \in Packet /\ lastGrp' \in {0, 1} /\ net' \subseteq Packet
        /\ UNCHANGED <<finAck, summary>>
    BY <1>1, <1>2 DEF ThreadPc, SenderTypeOK, ChannelTypeOK, chanVars
  <1>8. UNCHANGED <<mainVars, sWritable, full, fills, finAck, summary, rIOVars, rRepVars>>
    BY <1>1, <1>7
  <1> HIDE DEF Inv, TypeOK
  <1> QED
    BY <1>1, <1>3, <1>4, <1>5, <1>6, <1>7, <1>8, ThreadStep

(* Numbering and colouring a datagram.                                     *)
LEMMA PrepareInv ==
  ASSUME Inv, ThreadPrepare
  PROVE  Inv'
  <1> USE DEF Inv, TypeOK
  <1> DEFINE g == snapCnt % 2
             changed == snapCnt > 0 /\ lastGrp # g
  <1>1. /\ tpc = "prep" /\ tpc' = "send" /\ hdr' = PrepareHeader
        /\ lastGrp' = (IF snapCnt > 0 THEN g ELSE lastGrp)
        /\ UNCHANGED <<mainVars, sent, sState, flagVars, chanVars, rIOVars, rRepVars>>
    BY DEF ThreadPrepare
  <1>2. UNCHANGED <<net, snapCnt, snapAt, interval>> /\ Live = net /\ Live' = net \cup {hdr'}
        /\ Sending /\ Sending'
    BY <1>1 DEF chanVars, mainVars, Live, Sending
  <1>3. /\ hdr' \in Packet /\ hdr'.seq = sent /\ hdr'.grp = g /\ ~hdr'.last
        /\ hdr'.has <=> snapCnt > 0 /\ (changed \/ hdr.has)
        /\ hdr'.int = IF changed THEN interval ELSE hdr.int
    <2>1. /\ sent \in Nat /\ g \in {0, 1} /\ interval \in Interval /\ hdr.int \in Interval /\ hdr.has \in BOOLEAN
      BY SenderType, PacketType DEF SenderTypeOK, Packet
    <2>2. (snapCnt > 0 /\ (changed \/ hdr.has)) \in BOOLEAN
      OBVIOUS
    <2> HIDE DEF g, changed
    <2>3. PrepareHeader = [seq |-> sent, grp |-> g, last |-> FALSE, has |-> snapCnt > 0 /\ (changed \/ hdr.has),
                           int |-> IF changed THEN interval ELSE hdr.int]
      BY DEF PrepareHeader, g, changed
    <2> QED
      BY <1>1, <2>1, <2>2, <2>3 DEF Packet
  <1>4. lastGrp' = g /\ lastGrp' \in {0, 1} /\ g \in {0, 1} /\ snapCnt \in Nat
    BY <1>1, SenderType DEF ThreadInv
  <1> HIDE DEF g
  <1>5. ThreadInv'
    <2>1. snapCnt' = 0 => lastGrp' = 0
      BY <1>1, <1>2, <1>4 DEF ThreadInv
    <2>2. sent < MaxDatagrams
      BY <1>1 DEF ThreadInv
    <2> QED
      BY <1>1, <1>3, <1>4, <2>1, <2>2 DEF ThreadInv
  <1>6. SeqInv'
    BY <1>1, <1>2 DEF SeqInv
  <1>7. ASSUME NEW h, NEW e, Behind(h, e) PROVE Behind(h, e)' /\ Ordered(hdr', h, e)
    BY <1>1, <1>2, <1>3, <1>4, <1>7 DEF Behind, g, Ordered
  <1>8. (hdr.has => Behind(lastGrp, End(hdr.int)))'
    <2>1. CASE changed
      <3>1. End(hdr'.int) = snapAt /\ snapAt' = snapAt /\ lastGrp' = snapCnt' % 2 /\ snapCnt' > 0 /\ snapAt <= snapAt
        BY <1>2, <1>3, <1>4, <2>1, SenderType DEF g
      <3> QED
        BY <3>1 DEF Behind
    <2>2. CASE ~changed /\ hdr'.has
      <3>1. hdr.has /\ hdr'.int = hdr.int /\ lastGrp' = lastGrp
        BY <1>3, <1>4, <2>2
      <3>2. Behind(lastGrp, End(hdr.int))
        BY <3>1 DEF ColourInv
      <3> DEFINE h == lastGrp
                 e == End(hdr.int)
      <3>3. h' = h /\ e' = e
        BY <3>1 DEF End
      <3> QED
        BY <1>1, <1>2, <1>3, <1>4, <3>1, <3>2, <3>3 DEF Behind
    <2> QED
      BY <2>1, <2>2
  <1>9. ASSUME NEW p \in net, ~p.last, hdr'.has, End(hdr'.int) < p.seq PROVE p.grp = g
    <2>1. CASE changed
      BY <1>2, <1>3, <1>9, <2>1, SenderType, PacketType DEF ColourInv, g, ChannelTypeOK
    <2>2. CASE ~changed
      BY <1>2, <1>3, <1>4, <1>9, <2>2 DEF ColourInv, g
    <2> QED
      BY <2>1, <2>2
  <1>10. ColourInv'
    <2>1. ASSUME NEW p \in net \cup {hdr'}, ~p.last
          PROVE  /\ p.has => Behind(p.grp, End(p.int))'
                 /\ p.seq > snapAt' => p.grp = snapCnt' % 2
                 /\ hdr'.has /\ End(hdr'.int) < p.seq => p.grp = lastGrp'
      <3>1. CASE p \in net
        BY <1>2, <1>4, <1>7, <1>9, <2>1, <3>1 DEF ColourInv
      <3>2. CASE p = hdr'
        <4>1. p.grp = lastGrp' /\ p.grp = snapCnt' % 2
          BY <1>2, <1>3, <1>4, <3>2 DEF g
        <4>2. hdr'.has => Behind(p.grp, End(p.int))'
          BY <1>8, <3>2, <4>1 DEF Behind
        <4> QED
          BY <3>2, <4>1, <4>2
      <3> QED
        BY <2>1, <3>1, <3>2
    <2>2. ASSUME NEW p \in net \cup {hdr'}, ~p.last, NEW q \in net \cup {hdr'}, q.has
          PROVE  Ordered(p, q.grp, End(q.int))
      <3>1. CASE p \in net /\ q \in net
        BY <1>2, <2>2, <3>1 DEF ColourInv
      <3>2. CASE p = hdr' /\ q \in net
        <4>1. ~q.last
          BY <2>2, <3>2 DEF SeqInv
        <4>2. Behind(q.grp, End(q.int))
          BY <1>2, <2>2, <3>2, <4>1 DEF ColourInv
        <4> QED
          BY <1>7, <3>2, <4>2
      <3>3. CASE p \in net /\ q = hdr'
        BY <1>3, <1>9, <2>2, <3>3 DEF Ordered
      <3>4. CASE p = hdr' /\ q = hdr'
        BY <3>4 DEF Ordered
      <3> QED
        BY <2>2, <3>1, <3>2, <3>3, <3>4
    <2> QED
      BY <1>2, <1>4, <1>8, <2>1, <2>2 DEF ColourInv, Ordered, End
  <1>11. RecordInv'
    <2>1. UNCHANGED <<rGrp, rChanged, rRecorded, rGot>>
      BY <1>1 DEF rIOVars
    <2>2. rChanged # 0 => Behind(rGrp, rChanged)' /\ Ordered(hdr', rGrp, rChanged)
      <3>1. rChanged # 0 => Behind(rGrp, rChanged)
        BY DEF RecordInv
      <3>2. rChanged # 0 => Ordered(hdr', rGrp, rChanged)
        BY <1>7, <3>1
      <3> QED
        BY <1>1, <1>2, <1>3, <1>4, <2>1, <3>1, <3>2 DEF Behind, g
    <2> QED
      BY <1>2, <2>1, <2>2 DEF RecordInv, Ordered
  <1>12. CompleteInv'
    <2>1. UNCHANGED <<rGot, rInterval>>
      BY <1>1 DEF rIOVars
    <2>2. \A n : UpTo(n) <=> UpTo(n)'
      BY <1>2, <2>1 DEF UpTo, Arrives
    <2> QED
      BY <1>1, <1>2, <2>1, <2>2 DEF CompleteInv, IsReliableProtocol
  <1>13. tpc' \in ThreadPc /\ sState' \in StreamState /\ sErr' \in BOOLEAN /\ net' \subseteq Packet
         /\ UNCHANGED <<finAck, summary, sWritable, full, fills>>
    BY <1>1, <1>2 DEF ThreadPc, SenderTypeOK, ChannelTypeOK, chanVars, flagVars
  <1>14. UNCHANGED <<mainVars, sWritable, full, fills, finAck, summary, rIOVars, rRepVars>>
    BY <1>1, <1>13
  <1> HIDE DEF Inv, TypeOK
  <1> QED
    BY <1>1, <1>3, <1>4, <1>5, <1>6, <1>10, <1>11, <1>12, <1>13, <1>14, ThreadStep

(* A datagram handed to the connection, refused or given up.               *)
LEMMA SendInv ==
  ASSUME Inv, ThreadSend \/ ThreadRetry
  PROVE  Inv'
  <1> USE DEF Inv, TypeOK
  <1>1. /\ UNCHANGED <<mainVars, sent, hdr, lastGrp, sState, flagVars, finAck, summary, rIOVars, rRepVars>>
        /\ tpc \in {"send", "retry"} /\ tpc' \in {"retry", "count"}
        /\ \/ net' = net \cup {hdr} /\ tpc' = "count"
           \/ net' = net /\ (tpc' = "count" => GivesUp)
    BY DEF ThreadSend, ThreadRetry, SendData, GivesUp
  <1>2. UNCHANGED <<snapCnt, snapAt, interval, rGrp, rChanged, rRecorded, rGot, rInterval>>
        /\ (GivesUp => GivesUp')
    BY <1>1 DEF mainVars, rIOVars, flagVars, GivesUp
  <1>3. Live' \subseteq Live /\ Sending /\ Sending' /\ hdr \in Live
    BY <1>1 DEF Live, Sending
  <1>4. hdr \in Packet /\ hdr.seq = sent /\ ~hdr.last /\ (hdr.has => End(hdr.int) <= sent) /\ sent \in Nat
    <2>1. hdr.seq = sent /\ ~hdr.last
      BY <1>1 DEF ThreadInv
    <2>2. hdr.has => End(hdr.int) <= snapAt
      BY <1>3 DEF ColourInv, Behind
    <2> QED
      BY <2>1, <2>2, SenderType, PacketType
  <1>5. ThreadInv'
    BY <1>1, <1>2 DEF ThreadInv
  <1>6. SeqInv'
    <2>1. \A p \in net : p.seq < sent /\ ~p.last /\ p.seq \in Nat
      BY <1>1, PacketType DEF SeqInv, ChannelTypeOK
    <2>2. ASSUME NEW p \in net, NEW q \in net PROVE p.seq = q.seq => p = q
      BY DEF SeqInv
    <2>3. ASSUME NEW p \in net PROVE p.seq # hdr.seq
      BY <1>4, <2>1
    <2>4. ASSUME NEW p \in net PROVE p.has => End(p.int) <= p.seq /\ ~p.last
      BY DEF SeqInv
    <2>5. \A p, q \in net' : p.seq = q.seq => p = q
      BY <1>1, <2>2, <2>3
    <2>6. \A p \in net' : p.seq < sent \/ (p.seq = sent /\ tpc' = "count" /\ p = hdr)
      BY <1>1, <1>4, <2>1
    <2>7. \A p \in net' : (p.has => End(p.int) <= p.seq /\ ~p.last) /\ ~p.last
      BY <1>1, <1>4, <2>1, <2>4
    <2> QED
      BY <1>1, <2>5, <2>6, <2>7 DEF SeqInv, End
  <1>7. ColourInv' /\ RecordInv'
    BY <1>1, <1>2, <1>3, ColourMove, RecordMove
  <1>8. CompleteInv'
    <2>1. \A i : Arrives(i) => Arrives(i)'
      BY <1>1, <1>2 DEF Arrives
    <2>2. \A n : UpTo(n) => UpTo(n)'
      BY <2>1 DEF UpTo
    <2>3. IsReliableProtocol => UpTo(sent)
      BY <1>1 DEF CompleteInv
    <2>4. IsReliableProtocol => \A p \in net' : ~p.last => UpTo(p.seq)'
      BY <1>1, <1>4, <2>2, <2>3 DEF CompleteInv
    <2>5. tpc' = "count" => GivesUp' \/ Arrives(sent)'
      BY <1>1, <1>2, <1>4 DEF Arrives
    <2>6. IsReliableProtocol => UpTo(sent)'
      BY <1>1, <2>2, <2>3
    <2> QED
      BY <1>1, <1>2, <2>4, <2>5, <2>6 DEF CompleteInv, IsReliableProtocol
  <1>9. tpc' \in ThreadPc /\ sState' \in StreamState /\ sErr' \in BOOLEAN /\ net' \subseteq Packet
        /\ hdr' \in Packet /\ lastGrp' \in {0, 1}
    BY <1>1, <1>4 DEF ThreadPc, SenderTypeOK, ChannelTypeOK, flagVars
  <1>10. UNCHANGED <<mainVars, sWritable, full, fills, finAck, summary, rIOVars, rRepVars>>
    BY <1>1 DEF flagVars
  <1> HIDE DEF Inv, TypeOK
  <1> QED
    BY <1>1, <1>5, <1>6, <1>7, <1>8, <1>9, <1>10, ThreadStep

(* A datagram, sent or given up, is counted.                               *)
LEMMA CountedInv ==
  ASSUME Inv, ThreadCount \/ SendFINCount
  PROVE  Inv'
  <1> USE DEF Inv, TypeOK
  <1>1. /\ UNCHANGED <<mainVars, hdr, lastGrp, sState, flagVars, chanVars, rIOVars, rRepVars>>
        /\ sent' = sent + 1
        /\ \/ tpc = "count" /\ tpc' = "loop"
           \/ tpc = "fincount" /\ tpc' = "exit"
    BY DEF ThreadCount, SendFINCount
  <1>2. UNCHANGED <<net, snapCnt, snapAt, interval, rGrp, rChanged, rRecorded, rGot, rInterval>>
        /\ (GivesUp => GivesUp')
    BY <1>1 DEF mainVars, rIOVars, flagVars, chanVars, GivesUp
  <1>3. sent \in Nat /\ sent <= MaxDatagrams /\ (tpc = "count" => sent < MaxDatagrams)
    BY <1>1, SenderType, StreamAssumption DEF ThreadInv
  <1>4. ThreadInv'
    BY <1>1, <1>2, <1>3, StreamAssumption DEF ThreadInv
  <1>5. SeqInv'
    <2>1. \A p \in net : p.seq < sent'
      BY <1>1, <1>3, PacketType DEF SeqInv, ChannelTypeOK
    <2> QED
      BY <1>1, <1>2, <2>1 DEF SeqInv
  <1>6. Live' = Live /\ (Sending' => Sending)
    BY <1>1, <1>2 DEF Live, Sending
  <1>7. ColourInv' /\ RecordInv'
    BY <1>1, <1>2, <1>6, ColourMove, RecordMove
  <1>8. CompleteInv'
    <2>1. \A n : UpTo(n) <=> UpTo(n)'
      BY <1>2 DEF UpTo, Arrives
    <2>2. IsReliableProtocol /\ tpc = "count" => GivesUp \/ UpTo(sent + 1)
      <3>1. IsReliableProtocol /\ tpc = "count" => UpTo(sent) /\ (GivesUp \/ Arrives(sent))
        BY DEF CompleteInv
      <3>2. UpTo(sent) /\ Arrives(sent) => UpTo(sent + 1)
        BY <1>3 DEF UpTo
      <3> QED
        BY <3>1, <3>2
    <2> QED
      BY <1>1, <1>2, <2>1, <2>2 DEF CompleteInv, IsReliableProtocol
  <1>9. tpc' \in ThreadPc /\ sState' \in StreamState /\ sErr' \in BOOLEAN /\ net' \subseteq Packet
        /\ hdr' \in Packet /\ lastGrp' \in {0, 1}
    BY <1>1, <1>2 DEF ThreadPc, SenderTypeOK, ChannelTypeOK, flagVars
  <1>10. UNCHANGED <<mainVars, sWritable, full, fills, finAck, summary, rIOVars, rRepVars>>
    BY <1>1 DEF flagVars, chanVars
  <1> HIDE DEF Inv, TypeOK
  <1> QED
    BY <1>1, <1>3, <1>4, <1>5, <1>7, <1>8, <1>9, <1>10, ThreadStep

(* The FIN.                                                                *)
LEMMA FinInv ==
  ASSUME Inv, SendFIN \/ SendFINRetry
  PROVE  Inv'
  <1> USE DEF Inv, TypeOK
  <1>1. /\ UNCHANGED <<mainVars, sent, lastGrp, sState, flagVars, finAck, summary, rIOVars, rRepVars>>
        /\ tpc \in {"fin", "finretry"} /\ tpc' \in {"exit", "finretry", "fincount"}
        /\ \/ net' = net \cup {hdr'} /\ tpc' = "fincount"
           \/ net' = net /\ tpc' \in {"exit", "finretry"}
        /\ \/ ~IsReliableProtocol /\ UNCHANGED <<hdr, net>> /\ tpc' = "exit"
           \/ IsReliableProtocol /\ hdr' = FinHeader
           \/ tpc = "finretry" /\ hdr' = hdr
    BY DEF SendFIN, SendFINRetry, SendData
  <1>2. UNCHANGED <<snapCnt, snapAt, interval, rGrp, rChanged, rRecorded, rGot, rInterval>>
    BY <1>1 DEF mainVars, rIOVars
  <1>3. /\ hdr' \in Packet
        /\ \/ ~IsReliableProtocol /\ UNCHANGED <<hdr, net>> /\ tpc' = "exit"
           \/ IsReliableProtocol /\ hdr'.seq = sent /\ hdr'.last /\ ~hdr'.has
    <2>1. hdr \in Packet /\ sent \in Nat /\ snapCnt % 2 \in {0, 1}
      BY SenderType
    <2>2. FinHeader \in Packet /\ FinHeader.seq = sent /\ FinHeader.last = TRUE /\ FinHeader.has = FALSE
      BY <2>1 DEF FinHeader, Packet
    <2>3. tpc = "finretry" => hdr.seq = sent /\ hdr.last /\ ~hdr.has /\ IsReliableProtocol
      BY DEF ThreadInv
    <2> QED
      BY <1>1, <2>1, <2>2, <2>3
  <1>4. \A p \in net : p.seq < sent /\ ~p.last /\ p.seq \in Nat
    BY <1>1, PacketType DEF SeqInv, ChannelTypeOK
  <1>5. ThreadInv'
    BY <1>1, <1>2, <1>3 DEF ThreadInv, IsReliableProtocol
  <1>6. SeqInv'
    <2>1. ASSUME NEW p \in net, NEW q \in net PROVE p.seq = q.seq => p = q
      BY DEF SeqInv
    <2>2. ASSUME NEW p \in net PROVE p.has => End(p.int) <= p.seq /\ ~p.last
      BY DEF SeqInv
    <2>3. CASE net' = net
      BY <1>1, <1>4, <2>1, <2>2, <2>3 DEF SeqInv
    <2>4. CASE net' = net \cup {hdr'} /\ tpc' = "fincount"
      <3>1. IsReliableProtocol /\ hdr'.seq = sent /\ hdr'.last /\ ~hdr'.has /\ sent \in Nat
        BY <1>3, <2>4, SenderType
      <3>2. \A p, q \in net' : p.seq = q.seq => p = q
        BY <1>4, <2>1, <2>4, <3>1
      <3>3. \A p \in net' : p.seq <= sent
        BY <1>4, <2>4, <3>1
      <3>4. \A p \in net' : p.last => p = hdr'
        BY <1>4, <2>4
      <3>5. \A p \in net' : p.seq < sent \/ (p.seq = sent /\ p = hdr')
        BY <1>4, <2>4, <3>1
      <3>6. \A p \in net' : p.has => End(p.int) <= p.seq /\ ~p.last
        BY <2>2, <2>4, <3>1
      <3> QED
        BY <1>1, <2>4, <3>1, <3>2, <3>3, <3>4, <3>5, <3>6 DEF SeqInv, End, IsReliableProtocol
    <2> QED
      BY <1>1, <2>3, <2>4
  <1>7. ColourInv' /\ RecordInv'
    <2>1. ~Sending' /\ \A p \in Live' : p \in Live \/ (p.last /\ ~p.has)
      BY <1>1, <1>3 DEF Live, Sending
    <2>2. UNCHANGED <<hdr, lastGrp, interval>> \/ ~hdr'.has
      BY <1>1, <1>2, <1>3
    <2> QED
      BY <1>2, <2>1, <2>2, ColourMove, RecordMove
  <1>8. CompleteInv'
    <2>1. \A n : UpTo(n) => UpTo(n)'
      BY <1>1, <1>2 DEF UpTo, Arrives
    <2>2. IsReliableProtocol => \A p \in net' : ~p.last => UpTo(p.seq)'
      BY <1>1, <1>3, <2>1 DEF CompleteInv
    <2> QED
      BY <1>1, <1>2, <2>2 DEF CompleteInv, IsReliableProtocol
  <1>9. tpc' \in ThreadPc /\ sState' \in StreamState /\ sErr' \in BOOLEAN /\ net' \subseteq Packet
        /\ lastGrp' \in {0, 1}
    BY <1>1, <1>3 DEF ThreadPc, SenderTypeOK, ChannelTypeOK, flagVars
  <1>10. UNCHANGED <<mainVars, sWritable, full, fills, finAck, summary, rIOVars, rRepVars>>
    BY <1>1 DEF flagVars
  <1> HIDE DEF Inv, TypeOK
  <1> QED
    BY <1>1, <1>3, <1>5, <1>6, <1>7, <1>8, <1>9, <1>10, ThreadStep

-----------------------------------------------------------------------------
(* A datagram arrives.                                                     *)

(* The numbers of an interval that are not in a set.                       *)
Missing(int, got) == Cardinality({i \in int.start..(End(int) - 1) : i \notin got})

(* An interval that is taken from a datagram starts where the record was   *)
(* cut last, or later.                                                     *)
LEMMA TakenIsLater ==
  ASSUME Inv, NEW p \in net, HasNewGrpId(p), p.has
  PROVE  rChanged <= p.int.start /\ End(p.int) <= p.seq /\ ~p.last
  <1> USE DEF Inv, TypeOK
  <1>1. p \in Packet /\ p \in Live /\ rChanged \in Nat /\ Threshold \in Nat
    BY SenderType, StreamAssumption DEF ChannelTypeOK, Live, RecordTypeOK
  <1>2. End(p.int) <= p.seq /\ ~p.last
    BY DEF SeqInv
  <1>3. rGrp = -1 \/ (rGrp # p.grp /\ rChanged < p.seq)
    BY <1>1, PacketType DEF HasNewGrpId
  <1>4. rChanged = 0 \/ rChanged <= p.int.start
    BY <1>1, <1>2, <1>3 DEF RecordInv, Ordered
  <1> QED
    BY <1>1, <1>2, <1>4, PacketType

(* The loss printed is what is missing, because the record still holds     *)
(* every number of the interval that has arrived.                          *)
LEMMA LossIsMissing ==
  ASSUME Inv, NEW p \in net, HasNewGrpId(p), p.has
  PROVE  LET recorded == rRecorded \cup {p.seq}
             received == Cardinality({i \in recorded : p.int.start <= i /\ i < End(p.int)})
         IN  /\ p.int.n - received \in Nat
             /\ p.int.n - received = Missing(p.int, rGot \cup {p.seq})
  <1> USE DEF Inv, TypeOK
  <1> DEFINE A == p.int.start..(End(p.int) - 1)
             got == rGot \cup {p.seq}
             N == {i \in rRecorded \cup {p.seq} : p.int.start <= i /\ i < End(p.int)}
  <1>1. p \in Packet /\ sent \in Nat /\ rGot \subseteq Nat /\ rRecorded \subseteq rGot
    BY SenderType DEF ChannelTypeOK, RecordTypeOK
  <1>2. p.int.start \in Nat /\ p.int.n \in Nat /\ p.seq \in Nat /\ End(p.int) = p.int.start + p.int.n
        /\ rChanged \in Nat
    BY <1>1, PacketType, SenderType DEF End, RecordTypeOK
  <1>3. rChanged <= p.int.start
    BY TakenIsLater
  <1>4. N = A \cap got
    <2>1. \A i \in N : i \in A /\ i \in got
      BY <1>1, <1>2
    <2>2. \A i \in A \cap got : i \in N
      <3> SUFFICES ASSUME NEW i \in A, i \in got PROVE i \in N
        OBVIOUS
      <3>1. i \in Nat /\ p.int.start <= i /\ i < End(p.int) /\ rChanged <= i
        BY <1>2, <1>3
      <3>2. i \in rRecorded \cup {p.seq}
        BY <3>1 DEF RecordInv
      <3> QED
        BY <3>1, <3>2
    <2> QED
      BY <2>1, <2>2
  <1>5. IsFiniteSet(A) /\ Cardinality(A) = p.int.n
    <2> DEFINE a == p.int.start
               n == p.int.n
    <2>1. a \in Nat /\ n \in Nat /\ End(p.int) - 1 = a + n - 1
      BY <1>2
    <2>2. A = a..(a + n - 1)
      BY <2>1
    <2> HIDE DEF a, n, A
    <2>3. IsFiniteSet(a..(a + n - 1)) /\ Cardinality(a..(a + n - 1)) = n
      BY <2>1, RangeSize
    <2>4. IsFiniteSet(A) /\ Cardinality(A) = n
      BY <2>2, <2>3
    <2> QED
      BY <2>4 DEF n
  <1>6. {i \in A : i \notin got} = A \ got
    OBVIOUS
  <1> HIDE DEF A, N, got
  <1>7. IsFiniteSet(A \ got) /\ Cardinality(A \ got) = p.int.n - Cardinality(N)
    BY <1>4, <1>5, FS_Difference
  <1>8. Cardinality(A \ got) \in Nat
    BY <1>7, FS_CardinalityType
  <1> QED
    BY <1>6, <1>7, <1>8 DEF Missing, A, N, got

(* On a reliable protocol nothing is missing.                              *)
LEMMA NothingMissing ==
  ASSUME Inv, IsReliableProtocol, NEW p \in net, HasNewGrpId(p), p.has, \A q \in net : p.seq <= q.seq
  PROVE  Missing(p.int, rGot \cup {p.seq}) = 0
  <1> USE DEF Inv, TypeOK
  <1>1. p \in Packet /\ p.seq \in Nat /\ p.int.start \in Nat /\ End(p.int) \in Nat
    BY PacketType DEF ChannelTypeOK
  <1>2. End(p.int) <= p.seq /\ ~p.last
    BY TakenIsLater
  <1>3. UpTo(p.seq)
    BY <1>2 DEF CompleteInv
  <1>4. ASSUME NEW i \in p.int.start..(End(p.int) - 1) PROVE i \in rGot
    <2>1. i \in 0..(p.seq - 1)
      BY <1>1, <1>2
    <2>2. Arrives(i)
      BY <1>3, <2>1 DEF UpTo
    <2>3. \A q \in net : q.seq # i
      BY <1>1, <2>1, PacketType DEF ChannelTypeOK
    <2> QED
      BY <2>2, <2>3 DEF Arrives
  <1>5. {i \in p.int.start..(End(p.int) - 1) : i \notin rGot \cup {p.seq}} = {}
    BY <1>4
  <1> QED
    BY <1>5, FS_EmptySet DEF Missing

(* What DataReceived does, as far as the invariant is concerned.           *)
Takes(p) == HasNewGrpId(p) /\ p.has

LEMMA ReceivedFacts ==
  ASSUME NEW p \in net, DataReceived(p), TypeOK
  PROVE  /\ UNCHANGED <<senderVars, summary, rWritable, rFull, rStopped, rSum>>
         /\ net' \subseteq net
         /\ IsReliableProtocol => net' = net \ {p} /\ \A q \in net : p.seq <= q.seq
         /\ \A q \in net : q \in net' \/ q = p
         /\ rGot' = rGot \cup {p.seq}
         /\ rGrp' = IF HasNewGrpId(p) THEN p.grp ELSE rGrp
         /\ Takes(p) =>
              /\ rChanged' = End(p.int)
              /\ rRecorded' = {i \in rRecorded \cup {p.seq} : i >= End(p.int)}
              /\ \/ rInterval' = rInterval
                 \/ rInterval' = [start |-> p.int.start, n |-> p.int.n, lost |-> p.int.n -
                      Cardinality({i \in rRecorded \cup {p.seq} : p.int.start <= i /\ i < End(p.int)})]
         /\ ~Takes(p) =>
              rRecorded' = rRecorded \cup {p.seq} /\ UNCHANGED <<rChanged, rInterval>>
  <1>1. PICK early \in BOOLEAN : UpdateReceived(p, early)
    BY DEF DataReceived
  <1>2. /\ UNCHANGED <<senderVars, summary, rWritable, rFull, rStopped, rSum>>
        /\ net' \subseteq net
        /\ IsReliableProtocol => net' = net \ {p} /\ \A q \in net : p.seq <= q.seq
        /\ \A q \in net : q \in net' \/ q = p
    BY DEF DataReceived
  <1>3. /\ rGot' = rGot \cup {p.seq}
        /\ rGrp' = IF HasNewGrpId(p) THEN p.grp ELSE rGrp
        /\ ~Takes(p) => rRecorded' = rRecorded \cup {p.seq} /\ UNCHANGED <<rChanged, rInterval>>
    BY <1>1 DEF UpdateReceived, Takes
  <1>4. Takes(p) => OnReceivedIntervalData(p, early)
    BY <1>1 DEF UpdateReceived, Takes
  <1> QED
    BY <1>2, <1>3, <1>4 DEF OnReceivedIntervalData, End

LEMMA DataReceivedInv ==
  ASSUME Inv, NEW p \in net, DataReceived(p)
  PROVE  Inv'
  <1> USE DEF Inv, TypeOK
  <1>1. /\ UNCHANGED <<senderVars, summary, rWritable, rFull, rStopped, rSum>>
        /\ net' \subseteq net
        /\ IsReliableProtocol => net' = net \ {p} /\ \A q \in net : p.seq <= q.seq
        /\ \A q \in net : q \in net' \/ q = p
        /\ rGot' = rGot \cup {p.seq}
        /\ rGrp' = IF HasNewGrpId(p) THEN p.grp ELSE rGrp
    BY ReceivedFacts
  <1>2. UNCHANGED <<tpc, sent, hdr, lastGrp, snapCnt, snapAt, interval, mpc, sState, sErr>>
    BY <1>1 DEF senderVars, mainVars, thrVars, flagVars
  <1>3. Live' \subseteq Live /\ Sending' = Sending /\ p \in Live
    BY <1>1, <1>2 DEF Live, Sending
  <1>4. p \in Packet /\ p.seq \in Nat /\ p.seq <= sent /\ sent \in Nat /\ rChanged \in Nat
    BY PacketType, SenderType DEF ChannelTypeOK, SeqInv, RecordTypeOK
  <1>5. SenderTypeOK'
    BY <1>1 DEF SenderTypeOK, senderVars, mainVars, thrVars, flagVars
  <1>6. ThreadInv' /\ SeqInv'
    <2>1. ThreadInv'
      BY <1>2 DEF ThreadInv
    <2>2. SeqInv'
      BY <1>1, <1>2 DEF SeqInv
    <2> QED
      BY <2>1, <2>2
  <1>7. ColourInv'
    BY <1>2, <1>3, ColourMove
  <1>8. ChannelTypeOK' /\ ReceiverTypeOK'
    <2>1. PICK early \in BOOLEAN : UpdateReceived(p, early)
      BY DEF DataReceived
    <2>2. rKnown' \in BOOLEAN /\ rExit' \in BOOLEAN
      BY <2>1 DEF UpdateReceived
    <2>3. CASE p.last
      <3>1. OnReceivedFIN(rCount + 1)
        BY <2>1, <2>3 DEF UpdateReceived
      <3>2. rPeer' \in Nat /\ rCount' \in Nat /\ rLost' \in Nat
        BY <3>1 DEF OnReceivedFIN, GenReceiveSummary, ReceiverTypeOK
      <3>3. finAck' \in BOOLEAN /\ rFin' \in BOOLEAN /\ rState' \in StreamState /\ rpc' \in {"idle", "finack"}
            /\ rNull' \in BOOLEAN
        BY <3>1 DEF OnReceivedFIN, ReceiverTypeOK, ChannelTypeOK, StreamState
      <3> QED
        BY <1>1, <2>2, <3>2, <3>3 DEF ReceiverTypeOK, ChannelTypeOK
    <2>4. CASE ~p.last
      <3>1. rCount' = rCount + 1 /\ UNCHANGED <<finAck, rPeer, rLost, rFin, rState, rpc, rNull>>
        BY <2>1, <2>4 DEF UpdateReceived
      <3> QED
        BY <1>1, <2>2, <3>1 DEF ReceiverTypeOK, ChannelTypeOK
    <2> QED
      BY <2>3, <2>4
  <1>9. /\ RecordTypeOK' /\ RecordInv'
        /\ IsReliableProtocol => rInterval'.lost = 0
    <2>1. rGot' \subseteq 0..sent /\ rGrp' \in {-1, 0, 1}
      <3>1. p.seq \in 0..sent /\ p.grp \in {0, 1}
        BY <1>4, PacketType
      <3> QED
        BY <1>1, <3>1 DEF RecordTypeOK
    <2>2. CASE Takes(p)
      <3>1. HasNewGrpId(p) /\ p.has
        BY <2>2 DEF Takes
      <3>2. rChanged <= p.int.start /\ End(p.int) <= p.seq /\ ~p.last
        BY <3>1, TakenIsLater
      <3>3. rGrp' = p.grp /\ rChanged' = End(p.int)
            /\ rRecorded' = {i \in rRecorded \cup {p.seq} : i >= End(p.int)}
        BY <1>1, <2>2, <3>1, ReceivedFacts
      <3>4. End(p.int) \in Nat /\ rChanged <= End(p.int) /\ p.int.start \in Nat /\ p.int.n \in Nat
            /\ p.grp \in {0, 1}
        BY <1>4, <3>2, PacketType DEF End
      <3>5. /\ rInterval' \in [start : Nat, n : Nat, lost : Nat]
            /\ IsReliableProtocol => rInterval'.lost = 0
        <4> DEFINE loss == p.int.n - Cardinality({i \in rRecorded \cup {p.seq} : p.int.start <= i /\ i < End(p.int)})
        <4>1. loss \in Nat /\ loss = Missing(p.int, rGot \cup {p.seq})
          BY <3>1, LossIsMissing
        <4>2. IsReliableProtocol => loss = 0
          BY <1>1, <3>1, <4>1, NothingMissing
        <4>3. rInterval' = rInterval \/ rInterval' = [start |-> p.int.start, n |-> p.int.n, lost |-> loss]
          BY <2>2, ReceivedFacts
        <4>4. rInterval \in [start : Nat, n : Nat, lost : Nat] /\ (IsReliableProtocol => rInterval.lost = 0)
          BY DEF RecordTypeOK, CompleteInv
        <4> HIDE DEF loss
        <4> QED
          BY <3>4, <4>1, <4>2, <4>3, <4>4
      <3>6. RecordTypeOK'
        <4>1. rChanged' \in 0..sent
          BY <1>4, <3>2, <3>3, <3>4
        <4>2. rRecorded' \subseteq rGot'
          BY <1>1, <3>3 DEF RecordTypeOK
        <4> QED
          BY <1>2, <2>1, <3>5, <4>1, <4>2 DEF RecordTypeOK
      <3>7. \A i \in rGot' : i >= rChanged' => i \in rRecorded'
        <4> SUFFICES ASSUME NEW i \in rGot', i >= rChanged' PROVE i \in rRecorded'
          OBVIOUS
        <4>1. i \in Nat /\ i >= End(p.int)
          BY <2>1, <3>3
        <4>2. i \in rRecorded \cup {p.seq}
          BY <1>1, <1>4, <3>4, <4>1 DEF RecordInv
        <4> QED
          BY <3>3, <4>1, <4>2
      <3>8. Behind(rGrp, rChanged)'
        <4>1. Behind(p.grp, End(p.int))
          BY <1>3, <3>1, <3>2 DEF ColourInv
        <4> QED
          BY <1>2, <1>3, <3>3, <4>1 DEF Behind
      <3>9. \A q \in Live' : ~q.last => Ordered(q, rGrp', rChanged')
        BY <1>3, <3>1, <3>3 DEF ColourInv
      <3> QED
        BY <3>3, <3>4, <3>5, <3>6, <3>7, <3>8, <3>9 DEF RecordInv, Ordered
    <2>3. CASE ~Takes(p)
      <3>1. rRecorded' = rRecorded \cup {p.seq} /\ UNCHANGED <<rChanged, rInterval>>
        BY <2>3, ReceivedFacts
      <3>2. RecordTypeOK'
        BY <1>1, <1>2, <2>1, <3>1 DEF RecordTypeOK
      <3>3. \A i \in rGot' : i >= rChanged' => i \in rRecorded'
        BY <1>1, <3>1 DEF RecordInv
      <3>4. rGrp' = -1 => rChanged' = 0
        BY <1>1, <1>4, <3>1, PacketType DEF RecordInv
      <3>5. /\ rChanged' # 0 => Behind(rGrp, rChanged)'
            /\ \A q \in Live' : ~q.last => rChanged' = 0 \/ Ordered(q, rGrp', rChanged')
        <4>1. CASE rChanged = 0
          BY <3>1, <4>1
        <4>2. CASE rChanged # 0 /\ ~HasNewGrpId(p)
          <5>1. rGrp' = rGrp
            BY <1>1, <4>2
          <5> QED
            BY <1>2, <1>3, <3>1, <4>2, <5>1 DEF RecordInv, Behind
        <4>3. CASE rChanged # 0 /\ HasNewGrpId(p)
          <5>1. rGrp # p.grp /\ rChanged < p.seq /\ ~p.has
            <6>1. rGrp # -1
              BY <4>3 DEF RecordInv
            <6> QED
              BY <1>4, <2>3, <4>3, <6>1, StreamAssumption DEF HasNewGrpId, Takes
          <5>2. p.last
            BY <1>3, <4>3, <5>1 DEF RecordInv, Ordered
          <5>3. IsReliableProtocol /\ tpc \in {"fincount", "exit"} /\ \A q \in net : q.seq <= p.seq
            BY <5>2 DEF SeqInv
          <5>4. \A q \in net : q = p
            <6> SUFFICES ASSUME NEW q \in net PROVE q = p
              OBVIOUS
            <6>1. q.seq <= p.seq /\ p.seq <= q.seq /\ q.seq \in Nat
              BY <1>1, <5>3, PacketType DEF ChannelTypeOK
            <6> QED
              BY <1>4, <6>1 DEF SeqInv
          <5>5. Live' = {} /\ ~Sending'
            BY <1>1, <1>2, <5>3, <5>4 DEF Live, Sending
          <5> QED
            BY <5>5 DEF Behind
        <4> QED
          BY <4>1, <4>2, <4>3
      <3>6. RecordInv'
        BY <3>3, <3>4, <3>5 DEF RecordInv, Ordered
      <3> QED
        BY <3>1, <3>2, <3>6 DEF CompleteInv
    <2> QED
      BY <2>2, <2>3
  <1>10. CompleteInv'
    <2>1. \A i : Arrives(i) => Arrives(i)'
      BY <1>1 DEF Arrives
    <2>2. \A n : UpTo(n) => UpTo(n)'
      BY <2>1 DEF UpTo
    <2>3. UpTo(sent) => UpTo(sent)'
      BY <1>2, <2>2
    <2>4. Arrives(sent) => Arrives(sent)'
      BY <1>2, <2>1
    <2>5. IsReliableProtocol => \A q \in net' : ~q.last => UpTo(q.seq)'
      BY <1>1, <2>2 DEF CompleteInv
    <2> QED
      BY <1>2, <1>9, <2>3, <2>4, <2>5 DEF CompleteInv, GivesUp, IsReliableProtocol
  <1>11. CountInv'
    <2> SUFFICES ASSUME ~IsReliableProtocol PROVE CountInv'
      BY DEF CountInv, IsReliableProtocol
    <2>1. ~p.last
      BY DEF SeqInv
    <2>2. rCount' = rCount + 1 /\ UNCHANGED <<rPeer, rpc>>
      BY <2>1 DEF DataReceived, UpdateReceived
    <2>3. IsFiniteSet(rGot)
      <3>1. IsFiniteSet(0..sent)
        BY <1>4, FS_Interval
      <3> QED
        BY <3>1, FS_Subset DEF RecordTypeOK
    <2>4. Cardinality(rGot) \in Nat /\ Cardinality(rGot') <= Cardinality(rGot) + 1 /\ Cardinality(rGot') \in Nat
      BY <1>1, <2>3, AddOne
    <2>5. Cardinality((rGot \cap 0..(rPeer - 1))') <= Cardinality(rGot \cap 0..(rPeer - 1)) + 1
          /\ Cardinality(rGot \cap 0..(rPeer - 1)) \in Nat /\ Cardinality((rGot \cap 0..(rPeer - 1))') \in Nat
      <3> DEFINE B == rGot \cap 0..(rPeer - 1)
                 C == rGot' \cap 0..(rPeer - 1)
      <3>1. IsFiniteSet(B) /\ Cardinality(B) \in Nat
        BY GotBelow DEF ReceiverTypeOK
      <3>2. C = B \/ C = B \cup {p.seq}
        BY <1>1
      <3>3. (rGot \cap 0..(rPeer - 1))' = C
        BY <2>2
      <3> HIDE DEF B, C
      <3>4. Cardinality(C) <= Cardinality(B) + 1 /\ Cardinality(C) \in Nat
        BY <3>1, <3>2, AddOne
      <3> QED
        BY <3>1, <3>3, <3>4 DEF B
    <2> QED
      BY <1>1, <1>2, <2>2, <2>4, <2>5 DEF CountInv, ReceiverTypeOK
  <1> QED
    BY <1>5, <1>6, <1>7, <1>8, <1>9, <1>10, <1>11

-----------------------------------------------------------------------------
LEMMA NextInv == Inv /\ [Next]_vars => Inv'
  <1> SUFFICES ASSUME Inv, [Next]_vars PROVE Inv'
    OBVIOUS
  <1>1. CASE UNCHANGED vars
    <2>1. UNCHANGED <<coreVars, recordVars, countVars, rIOVars, rRepVars>> /\ (GivesUp => GivesUp')
      BY <1>1 DEF vars, senderVars, coreVars, recordVars, countVars, GivesUp, mainVars, thrVars, flagVars,
         chanVars, rIOVars, rRepVars
    <2>2. SenderTypeOK' /\ ChannelTypeOK'
      BY <1>1 DEF Inv, TypeOK, SenderTypeOK, ChannelTypeOK, vars, senderVars, mainVars, thrVars, flagVars, chanVars
    <2>3. ReceiverTypeOK' /\ RecordTypeOK'
      BY <2>1, ReceiverFrame DEF Inv, TypeOK, coreVars
    <2>4. ThreadInv' /\ SeqInv' /\ ColourInv' /\ RecordInv' /\ CompleteInv'
      BY <2>1, QuietStep
    <2>5. CountInv'
      BY <2>1, CountFrame DEF Inv
    <2> QED
      BY <2>2, <2>3, <2>4, <2>5 DEF Inv, TypeOK
  <1>2. CASE Receive
    BY <1>2, DataReceivedInv DEF Receive
  <1> QED
    BY <1>1, <1>2, SnapshotInv, MainInv, SenderIOInv, PeerInv, ReportInv, StartInv, PrepareInv, SendInv,
       CountedInv, FinInv DEF Next, SenderMain, SendingThread

LEMMA Invariance == Spec => []Inv
  BY InitInv, NextInv, PTL DEF Spec

(* Every state of a stream is well typed, for every protocol and bound: a  *)
(* sender never counts more than the FIN beyond its last datagram, and a   *)
(* loss that the receiver computes is never negative.                      *)
THEOREM TypeCorrect == Spec => []TypeOK
  <1>1. Inv => TypeOK
    BY DEF Inv
  <1> QED
    BY <1>1, Invariance, PTL

(* However snapshots fall between numbering, sending and counting, every   *)
(* datagram has a number of its own and names an interval that ended       *)
(* before it.                                                              *)
THEOREM MarkersAreBehind == Spec => []IntervalBehindMarker
  <1>1. Inv => IntervalBehindMarker
    BY DEF Inv, SeqInv, IntervalBehindMarker, End
  <1> QED
    BY <1>1, Invariance, PTL

(* On BRTP, BRCTP and TCP no interval is printed with a loss, although the *)
(* sending thread also counts datagrams it gave up.                        *)
THEOREM NoLossOnReliable == Spec => []ReliableIntervalsLoseNothing
  <1>1. Inv => ReliableIntervalsLoseNothing
    BY DEF Inv, CompleteInv, ReliableIntervalsLoseNothing
  <1> QED
    BY <1>1, Invariance, PTL

(* The loss that OnReceivedIntervalData prints is the number of datagrams  *)
(* of that interval that have not arrived, for every threshold and however *)
(* datagrams are lost, delayed or duplicated: the record was never cut     *)
(* above the start of an interval that is still to come.                   *)
THEOREM LossIsExact == Spec => IntervalLossExact
  <1>1. ASSUME Inv, [Next]_vars
        PROVE  [rInterval' # rInterval =>
                  rInterval'.lost = Cardinality({i \in rInterval'.start..(rInterval'.start + rInterval'.n - 1) :
                                                   i \notin rGot'})]_vars
    <2> SUFFICES ASSUME rInterval' # rInterval
                 PROVE  rInterval'.lost = Cardinality({i \in rInterval'.start..(rInterval'.start + rInterval'.n - 1) :
                                                         i \notin rGot'})
      OBVIOUS
    <2>1. PICK p \in net : DataReceived(p)
      <3>1. CASE UNCHANGED vars
        BY <3>1 DEF vars, rIOVars
      <3>2. CASE Receive
        BY <3>2 DEF Receive
      <3>3. CASE SenderMain \/ StartSend \/ SendingThread
        BY <3>3 DEF SenderMain, Snapshot, FinishReport, SerializeReport, StartSend, SendingThread, ThreadLoop,
           ThreadWait, ThreadPrepare, ThreadSend, ThreadRetry, ThreadCount, SendFIN, SendFINRetry, SendFINCount,
           rIOVars
      <3>4. CASE BufferFull \/ Writable \/ SendDataError \/ FinAckReceived
        BY <3>4 DEF BufferFull, Writable, SendDataError, FinAckReceived, rIOVars
      <3>5. CASE FinAckLoop \/ HandleSummaryMessage \/ Stop \/ PeerRefuses \/ PeerDrains \/ PeerWritable
        BY <3>5 DEF FinAckLoop, HandleSummaryMessage, Stop, PeerRefuses, PeerDrains, PeerWritable, rIOVars
      <3> QED
        BY <1>1, <3>1, <3>2, <3>3, <3>4, <3>5 DEF Next
    <2> DEFINE loss == p.int.n - Cardinality({i \in rRecorded \cup {p.seq} : p.int.start <= i /\ i < End(p.int)})
    <2>2. Takes(p) /\ rGot' = rGot \cup {p.seq}
          /\ rInterval' = [start |-> p.int.start, n |-> p.int.n, lost |-> loss]
      BY <1>1, <2>1, ReceivedFacts DEF Inv
    <2>3. loss = Missing(p.int, rGot \cup {p.seq})
      BY <1>1, <2>2, LossIsMissing DEF Takes
    <2> HIDE DEF loss
    <2>4. rInterval'.lost = loss /\ rInterval'.start = p.int.start /\ rInterval'.n = p.int.n
      BY <2>2
    <2>5. {i \in p.int.start..(End(p.int) - 1) : i \notin rGot \cup {p.seq}}
            = {i \in rInterval'.start..(rInterval'.start + rInterval'.n - 1) : i \notin rGot'}
      <3>1. rInterval'.start..(rInterval'.start + rInterval'.n - 1) = p.int.start..(End(p.int) - 1)
        <4>1. p.int.start \in Nat /\ p.int.n \in Nat
          BY <1>1, PacketType DEF Inv, TypeOK, ChannelTypeOK
        <4>2. rInterval'.start \in Nat /\ rInterval'.n \in Nat
          BY <2>4, <4>1
        <4>3. rInterval'.start + rInterval'.n - 1 = End(p.int) - 1
          BY <2>4, <4>1, <4>2 DEF End
        <4> QED
          BY <2>4, <4>3
      <3> QED
        BY <2>2, <3>1
    <2>6. rInterval'.lost = Cardinality({i \in p.int.start..(End(p.int) - 1) : i \notin rGot \cup {p.seq}})
      BY <2>3, <2>4 DEF Missing
    <2> QED
      BY <2>5, <2>6
  <1> QED
    BY <1>1, Invariance, PTL DEF Spec, IntervalLossExact

(* On an unreliable protocol, the summary of the receiver, which is worked *)
(* out from two counters, never shows more losses than there are datagrams *)
(* it has not seen, also if it counted some of them twice.                 *)
THEOREM SummaryLossIsBounded == Spec => SummaryLossBounded
  <1>1. ASSUME Inv, [Next]_vars
        PROVE  [~IsReliableProtocol /\ rLost' > rLost =>
                  rLost' <= Cardinality({i \in 0..(rPeer' - 1) : i \notin rGot})]_vars
    <2> SUFFICES ASSUME ~IsReliableProtocol, rLost' > rLost
                 PROVE  rLost' <= Cardinality({i \in 0..(rPeer' - 1) : i \notin rGot})
      OBVIOUS
    <2>1. rLost \in Nat /\ rCount \in Nat /\ rPeer \in Nat /\ rpc = "idle"
      BY <1>1 DEF Inv, TypeOK, ReceiverTypeOK, CountInv
    <2>2. rLost' # rLost
      BY <2>1
    <2>3. Stop \/ HandleSummaryMessage
      <3>1. CASE UNCHANGED vars
        BY <2>2, <3>1 DEF vars, rRepVars
      <3>2. CASE Receive
        <4>1. PICK p \in net : DataReceived(p)
          BY <3>2 DEF Receive
        <4>2. ~p.last
          BY <1>1 DEF Inv, SeqInv
        <4> QED
          BY <2>2, <4>1, <4>2 DEF DataReceived, UpdateReceived
      <3>3. CASE SenderMain \/ StartSend \/ SendingThread
        BY <2>2, <3>3 DEF SenderMain, Snapshot, FinishReport, SerializeReport, StartSend, SendingThread, ThreadLoop,
           ThreadWait, ThreadPrepare, ThreadSend, ThreadRetry, ThreadCount, SendFIN, SendFINRetry, SendFINCount,
           rRepVars
      <3>4. CASE BufferFull \/ Writable \/ SendDataError \/ FinAckReceived
        BY <2>2, <3>4 DEF BufferFull, Writable, SendDataError, FinAckReceived, rRepVars
      <3>5. CASE FinAckLoop \/ PeerRefuses \/ PeerDrains \/ PeerWritable
        BY <2>1, <2>2, <3>5 DEF FinAckLoop, PeerRefuses, PeerDrains, PeerWritable, rRepVars
      <3> QED
        BY <1>1, <3>1, <3>2, <3>3, <3>4, <3>5 DEF Next
    <2>4. ASSUME NEW n \in Nat, NEW k \in Nat, k >= Cardinality(rGot \cap 0..(n - 1)),
                 rLost' = IF n > k THEN n - k ELSE 0, rPeer' = n
          PROVE  rLost' <= Cardinality({i \in 0..(rPeer' - 1) : i \notin rGot})
      <3>1. {i \in 0..(n - 1) : i \notin rGot} = 0..(n - 1) \ rGot
        OBVIOUS
      <3>2. /\ Cardinality(rGot \cap 0..(n - 1)) \in Nat /\ Cardinality(rGot \cap 0..(n - 1)) <= n
            /\ Cardinality(0..(n - 1) \ rGot) = n - Cardinality(rGot \cap 0..(n - 1))
        BY GotBelow
      <3>3. rLost' <= Cardinality(0..(n - 1) \ rGot)
        BY <2>4, <3>2
      <3> QED
        BY <2>4, <3>1, <3>3
    <2>5. CASE Stop
      BY <1>1, <2>1, <2>2, <2>4, <2>5 DEF Stop, GenReceiveSummary, Inv, CountInv
    <2>6. CASE HandleSummaryMessage
      <3>1. /\ rPeer' = summary /\ summary # -1 /\ ~rStopped
            /\ rLost' = IF summary > rCount THEN summary - rCount ELSE 0
        BY <2>2, <2>6 DEF HandleSummaryMessage, GenReceiveSummary
      <3>2. summary \in Nat
        BY <1>1, <3>1, StreamAssumption DEF Inv, TypeOK, ChannelTypeOK
      <3>3. rCount >= Cardinality(rGot)
        BY <1>1, <3>1 DEF Inv, CountInv
      <3>4. Cardinality(rGot \cap 0..(summary - 1)) <= Cardinality(rGot)
            /\ Cardinality(rGot) \in Nat /\ Cardinality(rGot \cap 0..(summary - 1)) \in Nat
        <4>1. sent \in Int /\ rGot \in SUBSET (0..sent)
          BY <1>1, SenderType DEF Inv, TypeOK, RecordTypeOK
        <4>0. IsFiniteSet(0..sent)
          BY <4>1, FS_Interval
        <4>2. IsFiniteSet(rGot)
          BY <4>0, <4>1, FS_Subset
        <4>3. (rGot \cap 0..(summary - 1)) \in SUBSET rGot
          OBVIOUS
        <4> QED
          BY <3>2, <4>2, <4>3, FS_Subset, FS_CardinalityType
      <3>5. rCount >= Cardinality(rGot \cap 0..(summary - 1))
        BY <2>1, <3>3, <3>4
      <3> QED
        BY <2>1, <2>4, <3>1, <3>2, <3>5
    <2> QED
      BY <2>3, <2>5, <2>6
  <1> QED
    BY <1>1, Invariance, PTL DEF Spec, SummaryLossBounded
=============================================================================

---------------------------- MODULE IperfSummary ----------------------------
(***************************************************************************)
(* The summary message of a test with several streams: how the sender lays *)
(* out one report per stream, and how the receiver finds its way through   *)
(* them by the identifiers of the streams it knows.                        *)
(*                                                                         *)
(* The message is counted in words of eight bytes.  The header takes four, *)
(* a report four: identifier, bytes, datagrams and bit rate.  A stream of  *)
(* the receiver learns its identifier from its first datagram, on another  *)
(* connection than the summary; until then its identifier is 0.            *)
(***************************************************************************)
EXTENDS Integers, FiniteSets

CONSTANTS
    NumStreams,  \* -P
    Reliable,    \* IsReliableProtocol(test_config_.protocol)
    Bytes,       \* values of summary.bytes
    Rates,       \* values of summary.bitrate, in thousandths of a byte/sec
    BodyWords,   \* words of the 1100 byte buffer behind the header (133)
    Behind,      \* values of the words that lie behind the buffer
    FirstId      \* the clock, in ms, that identifiers are made from

Streams == 1..NumStreams

(* Identifiers are clock values plus the number of the stream, hence       *)
(* distinct; nothing keeps a count from being equal to one.                *)
ASSUME SummaryAssumption ==
    /\ NumStreams \in Nat \ {0}
    /\ Reliable \in BOOLEAN
    /\ Bytes \subseteq Nat /\ Rates \subseteq Nat
    /\ Bytes # {} /\ Rates # {}
    /\ BodyWords \in Nat
    /\ Behind \subseteq Nat /\ Behind # {}
    /\ FirstId \in Nat

VARIABLES
    rep,      \* the sender's report_.sender_report.summary of each stream
    accepted, \* how many streams of the receiver's list come before; 0: none
    known,    \* streams of the receiver with an identifier
    pc,       \* run, sent, parse, acked; crash: the heap gave way
    i,        \* the loop counter of HandleSummaryMessage
    pos,      \* data: the next word to read
    got,      \* sender_report of the receiver's streams, once set
    finished, \* streams whose FinishReport was called on the way
    over      \* highest word written or read behind the header

vars == <<rep, accepted, known, pc, i, pos, got, finished, over>>

(* Bytes and datagrams move together; the datagrams are the bytes plus one *)
(* so that the two words can be told apart.                                *)
Report == [bytes : Bytes, rate : Rates]
Received == [bytes : Nat, datagrams : Nat, rate : Nat]
NoReport == [bytes |-> 0, datagrams |-> 0, rate |-> 0]

Identifier(s) == FirstId + s

TypeOK ==
    /\ rep \in [Streams -> Report]
    /\ accepted \in [Streams -> 0..NumStreams]
    /\ known \subseteq {s \in Streams : accepted[s] > 0}
    /\ pc \in {"run", "sent", "parse", "acked", "crash"}
    /\ i \in 0..(NumStreams % 256)
    /\ pos \in Nat \ {0} /\ pos <= over + 1
    /\ got \in [Streams -> Received]
    /\ finished \subseteq Streams
    /\ over \in Nat

Init ==
    /\ rep \in [Streams -> Report]
    /\ accepted = [s \in Streams |-> 0]
    /\ known = {}
    /\ pc = "run" /\ i = 0 /\ pos = 1
    /\ got = [s \in Streams |-> NoReport]
    /\ finished = {}
    /\ over = 0

-----------------------------------------------------------------------------
(* The data connections.                                                   *)

Accepted == {s \in Streams : accepted[s] > 0}

(* DataListenCallback: push_back.                                          *)
Accept(s) ==
    /\ pc # "parse" /\ accepted[s] = 0
    /\ accepted' = [accepted EXCEPT ![s] = Cardinality(Accepted) + 1]
    /\ UNCHANGED <<rep, known, pc, i, pos, got, finished, over>>

(* UpdateReceived takes the identifier from the first datagram.            *)
FirstDatagram(s) ==
    /\ pc # "parse" /\ s \in Accepted \ known
    /\ known' = known \cup {s}
    /\ UNCHANGED <<rep, accepted, pc, i, pos, got, finished, over>>

-----------------------------------------------------------------------------
(* The sender: SendTestSummary and SerializeReport.                        *)

(* Word p of the message: the reports one after the other, then zeros, up  *)
(* to the end of the buffer.  The bit rate is sent in hundredths.  What    *)
(* the sender wrote behind the buffer is not sent, and what the receiver   *)
(* reads behind it is junk.                                                *)
Word(p, junk) ==
    LET s == (p - 1) \div 4 + 1
        field == (p - 1) % 4
    IN  IF p > BodyWords THEN junk[p]
        ELSE IF s > NumStreams THEN 0
        ELSE CASE field = 0 -> Identifier(s)
               [] field = 1 -> rep[s].bytes
               [] field = 2 -> rep[s].bytes + (IF rep[s].bytes = 0 THEN 0 ELSE 1)
               [] OTHER -> rep[s].rate \div 10

FitsBuffer(n) == 4 * n <= BodyWords

(* The reports are written without a look at the size of the buffer: past  *)
(* its end they hit the heap, which the program may or may not survive.    *)
SendTestSummary ==
    /\ pc = "run"
    /\ pc' \in {"sent"} \cup (IF FitsBuffer(NumStreams) THEN {} ELSE {"crash"})
    /\ over' = 4 * NumStreams
    /\ UNCHANGED <<rep, accepted, known, i, pos, got, finished>>

-----------------------------------------------------------------------------
(* The receiver: HandleSummaryMessage.                                     *)

StreamIdentifier(s) == IF s \in known THEN Identifier(s) ELSE 0

(* num_of_streams is a uint8_t.                                            *)
NumOfStreams == NumStreams % 256

HandleSummaryMessage ==
    /\ pc = "sent"
    /\ pc' = "parse" /\ i' = 0 /\ pos' = 1
    /\ UNCHANGED <<rep, accepted, known, got, finished, over>>

(* The words behind the buffer that a round of the loop can come to.       *)
Junk == [(BodyWords + 1)..(pos + 3 * NumStreams) -> Behind]

(* Mutant: the rate is not scaled back.                                    *)
DeserializeReport_Scale(p, junk) ==
    [bytes |-> Word(p, junk), datagrams |-> Word(p + 1, junk), rate |-> Word(p + 2, junk)]

DeserializeReport(p, junk) ==
    [bytes |-> Word(p, junk), datagrams |-> Word(p + 1, junk), rate |-> 10 * Word(p + 2, junk)]

(* The streams of the receiver that the identifier at pos belongs to, and  *)
(* how many of them the list has before s.                                 *)
Matching(junk) == {s \in Accepted : StreamIdentifier(s) = Word(pos, junk)}
Before(s, junk) == Cardinality({u \in Matching(junk) : accepted[u] < accepted[s]})

(* Mutant: the loop runs once more.                                        *)
MoreReports_OneMore == i <= NumOfStreams

(* Each stream that matches reads a report; an identifier that matches     *)
(* none is skipped, and its report is not.                                 *)
ReportAt(s, junk) == pos + 1 + 3 * Before(s, junk)
MoreReports == i < NumOfStreams

ParseReport ==
    /\ pc = "parse" /\ MoreReports
    /\ i' = i + 1
    /\ \E junk \in Junk :
        LET match == Matching(junk)
        IN  /\ got' = [s \in Streams |->
                         IF s \in match THEN DeserializeReport(ReportAt(s, junk), junk) ELSE got[s]]
            /\ pos' = pos + 1 + 3 * Cardinality(match)
            /\ finished' = IF Reliable THEN finished ELSE finished \cup match
    /\ over' = IF pos' - 1 > over THEN pos' - 1 ELSE over
    /\ UNCHANGED <<rep, accepted, known, pc>>

SendAck ==
    /\ pc = "parse" /\ ~MoreReports
    /\ pc' = "acked"
    /\ UNCHANGED <<rep, accepted, known, i, pos, got, finished, over>>

Next ==
    \/ \E s \in Streams : Accept(s) \/ FirstDatagram(s)
    \/ SendTestSummary \/ HandleSummaryMessage \/ ParseReport \/ SendAck

Spec == Init /\ [][Next]_vars

-----------------------------------------------------------------------------
(* Properties.                                                             *)

(* What the receiver should have of the report of s: its rate loses the    *)
(* third decimal.                                                          *)
Expected(s) ==
    [bytes |-> rep[s].bytes,
     datagrams |-> rep[s].bytes + (IF rep[s].bytes = 0 THEN 0 ELSE 1),
     rate |-> (rep[s].rate \div 10) * 10]

(* Streams in front of the first one the receiver does not know when it    *)
(* handles the summary.                                                    *)
InStep(s) == 1..s \subseteq known

(* HandleSummaryMessage: while every report so far belonged to a stream    *)
(* that is known and lay in the buffer, also when later ones overrun it,   *)
(* each stream has its own report, no other was touched, and, unreliable,  *)
(* exactly those were finished; and nothing behind the reports of the      *)
(* sender was read.                                                        *)
ReportsInStepArrive ==
    pc = "parse" /\ InStep(i) /\ FitsBuffer(i) =>
        /\ \A s \in Streams : got[s] = IF s <= i THEN Expected(s) ELSE NoReport
        /\ finished = IF Reliable THEN {} ELSE 1..i
        /\ pos = 4 * i + 1 /\ over = 4 * NumStreams

-----------------------------------------------------------------------------
(* What comments of the code say and the code does not do.                 *)

(* HandleSummaryMessage, "match stream via identifier": a stream that is   *)
(* known when the summary is handled has its own report afterwards.        *)
KnownGetTheirReport ==
    [][pc = "parse" /\ pc' = "acked" => \A s \in known : got[s] = Expected(s)]_vars

(* SendTestSummary and HandleSummaryMessage stay inside the buffer: from   *)
(* 34 streams on they do not.                                              *)
InsideBuffer == over <= BodyWords
=============================================================================

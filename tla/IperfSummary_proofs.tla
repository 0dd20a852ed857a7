-------------------------- MODULE IperfSummary_proofs --------------------------
(***************************************************************************)
(* Proofs about the summary message (IperfSummary), for every number of    *)
(* streams and every size of the buffer.                                   *)
(***************************************************************************)
EXTENDS IperfSummary, FiniteSetTheorems, TLAPS

-----------------------------------------------------------------------------
(* The inductive invariant: nothing is delivered before the message is     *)
(* parsed, and until then what was written is what SendTestSummary wrote.  *)
QuietInv ==
    /\ pc \in {"run", "sent"} =>
        /\ got = [s \in Streams |-> NoReport]
        /\ finished = {}
        /\ pos = 1
    /\ pc = "sent" => over = 4 * NumStreams

Inv == TypeOK /\ QuietInv /\ ReportsInStepArrive

-----------------------------------------------------------------------------
(* Sets of streams.                                                        *)

LEMMA StreamsFinite == IsFiniteSet(Streams) /\ Cardinality(Streams) = NumStreams
  <1>1. 1 \in Int /\ NumStreams \in Int /\ NumStreams >= 1
    BY SummaryAssumption
  <1> QED
    BY <1>1, FS_Interval DEF Streams

LEMMA SubsetCounts ==
  ASSUME NEW S \in SUBSET Streams
  PROVE  /\ Cardinality(S) \in 0..NumStreams
         /\ S # Streams => Cardinality(S) < NumStreams
  <1>1. IsFiniteSet(S) /\ Cardinality(S) <= NumStreams
        /\ (Cardinality(S) = NumStreams => S = Streams)
    BY StreamsFinite, FS_Subset
  <1>2. Cardinality(S) \in Nat
    BY <1>1, FS_CardinalityType
  <1> QED
    BY <1>1, <1>2, SummaryAssumption

-----------------------------------------------------------------------------
(* The layout of the message.                                              *)

(* The words a round of the loop comes to are numbers, junk or not.        *)
LEMMA WordType ==
  ASSUME TypeOK, NEW junk \in Junk, NEW p \in 1..(pos + 3 * NumStreams)
  PROVE  Word(p, junk) \in Nat
  <1> DEFINE s == (p - 1) \div 4 + 1
  <1>0. /\ p \in Nat \ {0}
        /\ p > BodyWords => junk[p] \in Nat
    <2>1. pos \in Nat /\ NumStreams \in Nat /\ BodyWords \in Nat
      BY SummaryAssumption DEF TypeOK
    <2>2. p \in Nat \ {0} /\ p <= pos + 3 * NumStreams
      BY <2>1
    <2>3. ASSUME p > BodyWords PROVE p \in (BodyWords + 1)..(pos + 3 * NumStreams)
      BY <2>1, <2>2, <2>3
    <2>4. ASSUME p > BodyWords PROVE junk[p] \in Behind
      BY <2>3, <2>4 DEF Junk
    <2> QED
      BY <2>2, <2>4, SummaryAssumption
  <1>3. CASE p > BodyWords
    BY <1>0, <1>3 DEF Word
  <1>1. CASE ~(p > BodyWords) /\ s > NumStreams
    BY <1>1 DEF Word
  <1>2. CASE ~(p > BodyWords) /\ s <= NumStreams
    <2>1. s \in Streams
      BY <1>0, <1>2, SummaryAssumption DEF Streams
    <2>2. rep[s] \in Report
      BY <2>1 DEF TypeOK
    <2>3. rep[s].bytes \in Nat /\ rep[s].rate \in Nat
      BY <2>2, SummaryAssumption DEF Report
    <2>4. rep[s].rate \div 10 \in Nat /\ Identifier(s) \in Nat
      BY <2>1, <2>3, SummaryAssumption DEF Identifier, Streams
    <2> QED
      BY <1>2, <2>1, <2>3, <2>4, SummaryAssumption DEF Word
  <1> QED
    BY <1>0, <1>1, <1>2, <1>3, SummaryAssumption

(* Where the report of a stream is, if it is inside the buffer.            *)
LEMMA WordsOfReport ==
  ASSUME NEW junk, NEW s \in Streams, FitsBuffer(s)
  PROVE  /\ Word(4 * (s - 1) + 1, junk) = Identifier(s)
         /\ Word(4 * (s - 1) + 2, junk) = rep[s].bytes
         /\ Word(4 * (s - 1) + 3, junk) = rep[s].bytes + (IF rep[s].bytes = 0 THEN 0 ELSE 1)
         /\ Word(4 * (s - 1) + 4, junk) = rep[s].rate \div 10
  <1>1. s \in Int /\ s >= 1 /\ s <= NumStreams /\ NumStreams \in Int
    BY SummaryAssumption DEF Streams
  <1>2. \A f \in 0..3 : /\ (4 * (s - 1) + 1 + f - 1) \div 4 + 1 = s
                        /\ (4 * (s - 1) + 1 + f - 1) % 4 = f
    BY <1>1
  <1>4. \A f \in 0..3 : ~(4 * (s - 1) + 1 + f > BodyWords)
    BY <1>1, SummaryAssumption DEF FitsBuffer
  <1>3. \A f \in 0..3 :
          Word(4 * (s - 1) + 1 + f, junk) =
            CASE f = 0 -> Identifier(s)
              [] f = 1 -> rep[s].bytes
              [] f = 2 -> rep[s].bytes + (IF rep[s].bytes = 0 THEN 0 ELSE 1)
              [] OTHER -> rep[s].rate \div 10
    BY <1>1, <1>2, <1>4 DEF Word
  <1> QED
    BY <1>1, <1>3

(* A report read from its place is the one that was meant.                 *)
LEMMA ReportIsExpected ==
  ASSUME TypeOK, NEW junk, NEW s \in Streams, FitsBuffer(s)
  PROVE  DeserializeReport(4 * (s - 1) + 2, junk) = Expected(s)
  <1>1. /\ 4 * (s - 1) + 2 + 1 = 4 * (s - 1) + 3
        /\ 4 * (s - 1) + 2 + 2 = 4 * (s - 1) + 4
    BY SummaryAssumption DEF Streams
  <1>2. rep[s] \in Report
    BY DEF TypeOK
  <1>3. rep[s].rate \in Nat
    BY <1>2, SummaryAssumption DEF Report
  <1>4. 10 * (rep[s].rate \div 10) = (rep[s].rate \div 10) * 10
    BY <1>3
  <1> QED
    BY <1>1, <1>4, WordsOfReport DEF DeserializeReport, Expected

-----------------------------------------------------------------------------
(* One round of HandleSummaryMessage that is in step.                      *)

(* An identifier belongs to one stream only, and to no stream that is not  *)
(* known, whose identifier is 0.                                           *)
LEMMA MatchingIsOne ==
  ASSUME TypeOK, NEW junk, NEW s \in known, FitsBuffer(s), pos = 4 * (s - 1) + 1
  PROVE  Matching(junk) = {s} /\ Before(s, junk) = 0
  <1>1. s \in Streams /\ s \in Accepted
    BY DEF TypeOK, Accepted
  <1>2. Word(pos, junk) = Identifier(s)
    BY <1>1, WordsOfReport
  <1>3. \A u \in Streams : StreamIdentifier(u) = Identifier(s) => u = s
    BY <1>1, SummaryAssumption DEF StreamIdentifier, Identifier, Streams
  <1>4. StreamIdentifier(s) = Identifier(s)
    BY DEF StreamIdentifier
  <1>5. Matching(junk) = {s}
    BY <1>1, <1>2, <1>3, <1>4 DEF Matching, Accepted
  <1>6. {u \in Matching(junk) : accepted[u] < accepted[s]} = {}
    BY <1>1, <1>5, SummaryAssumption DEF TypeOK
  <1> QED
    BY <1>5, <1>6, FS_EmptySet DEF Before

(* Such a round gives the report to its stream and to no other, finishes   *)
(* it if the protocol is unreliable, and leaves the reader in front of the *)
(* next one.                                                               *)
LEMMA RoundInStep ==
  ASSUME TypeOK, ParseReport, ReportsInStepArrive, InStep(i + 1), FitsBuffer(i + 1)
  PROVE  ReportsInStepArrive'
  <1>1. i \in Nat /\ i + 1 \in Streams /\ i' = i + 1
    <2>1. NumStreams \in Nat /\ NumStreams % 256 \in Nat /\ NumStreams % 256 <= NumStreams
      BY SummaryAssumption
    <2>2. i \in Nat /\ i < NumStreams % 256 /\ i' = i + 1
      BY <2>1 DEF ParseReport, MoreReports, NumOfStreams, TypeOK
    <2> QED
      BY <2>1, <2>2 DEF Streams
  <1>2. i + 1 \in known /\ InStep(i) /\ FitsBuffer(i)
    BY <1>1, SummaryAssumption DEF InStep, FitsBuffer
  <1> PICK junk \in Junk :
        /\ got' = [s \in Streams |-> IF s \in Matching(junk)
                                     THEN DeserializeReport(ReportAt(s, junk), junk) ELSE got[s]]
        /\ pos' = pos + 1 + 3 * Cardinality(Matching(junk))
        /\ finished' = IF Reliable THEN finished ELSE finished \cup Matching(junk)
    BY DEF ParseReport
  <1>3. pc = "parse" /\ pc' = "parse" /\ UNCHANGED <<rep, known>>
    BY DEF ParseReport
  <1>4. /\ \A s \in Streams : got[s] = IF s <= i THEN Expected(s) ELSE NoReport
        /\ finished = IF Reliable THEN {} ELSE 1..i
        /\ pos = 4 * i + 1 /\ over = 4 * NumStreams
    BY <1>2, <1>3 DEF ReportsInStepArrive
  <1>5. Matching(junk) = {i + 1} /\ Before(i + 1, junk) = 0
    <2>1. pos = 4 * ((i + 1) - 1) + 1
      BY <1>1, <1>4
    <2> QED
      BY <1>2, <2>1, MatchingIsOne
  <1>6. DeserializeReport(ReportAt(i + 1, junk), junk) = Expected(i + 1)
    <2>1. ReportAt(i + 1, junk) = 4 * ((i + 1) - 1) + 2
      BY <1>1, <1>4, <1>5 DEF ReportAt
    <2> QED
      BY <1>1, <2>1, ReportIsExpected
  <1>7. \A s \in Streams : got'[s] = IF s <= i + 1 THEN Expected(s) ELSE NoReport
    BY <1>1, <1>4, <1>5, <1>6, SummaryAssumption DEF Streams
  <1>8. finished' = IF Reliable THEN {} ELSE 1..(i + 1)
    <2>1. 1..(i + 1) = 1..i \cup {i + 1}
      BY <1>1
    <2>2. finished' = IF Reliable THEN finished ELSE finished \cup {i + 1}
      BY <1>5
    <2> QED
      BY <1>4, <2>1, <2>2
  <1>9. pos' = 4 * (i + 1) + 1 /\ over' = 4 * NumStreams
    <2>1. Cardinality(Matching(junk)) = 1
      BY <1>5, FS_Singleton
    <2>2. pos' = pos + 1 + 3 * 1
      BY <2>1
    <2> QED
      BY <1>1, <1>4, <2>2, SummaryAssumption DEF ParseReport, Streams
  <1>10. \A s \in Streams : Expected(s)' = Expected(s)
    BY <1>3 DEF Expected
  <1> QED
    BY <1>1, <1>3, <1>7, <1>8, <1>9, <1>10 DEF ReportsInStepArrive

-----------------------------------------------------------------------------
(* Invariance.                                                             *)

LEMMA InitInv == Init => Inv
  <1> SUFFICES ASSUME Init PROVE Inv
    OBVIOUS
  <1>1. TypeOK
    BY SummaryAssumption DEF Init, TypeOK, Streams, Received, NoReport
  <1>2. QuietInv /\ ReportsInStepArrive
    BY DEF Init, QuietInv, ReportsInStepArrive
  <1> QED
    BY <1>1, <1>2 DEF Inv

LEMMA NextKeepsInv == Inv /\ [Next]_vars => Inv'
  <1> SUFFICES ASSUME Inv, [Next]_vars PROVE Inv'
    OBVIOUS
  <1> USE SummaryAssumption DEF Inv
  <1>1. ASSUME NEW s \in Streams, Accept(s) PROVE Inv'
    <2>1. Cardinality(Accepted) + 1 \in 0..NumStreams
      <3>1. Accepted \in SUBSET Streams /\ s \notin Accepted
        BY <1>1 DEF Accept, Accepted, TypeOK
      <3> QED
        BY <3>1, SubsetCounts
    <2>2. accepted' \in [Streams -> 0..NumStreams]
      BY <1>1, <2>1 DEF Accept, TypeOK
    <2>3. known' \subseteq {u \in Streams : accepted'[u] > 0}
      BY <1>1, <2>1 DEF Accept, TypeOK
    <2>4. TypeOK'
      BY <1>1, <2>2, <2>3 DEF Accept, TypeOK
    <2>5. QuietInv'
      BY <1>1 DEF Accept, QuietInv
    <2>6. ReportsInStepArrive'
      BY <1>1 DEF Accept, ReportsInStepArrive
    <2> QED
      BY <2>4, <2>5, <2>6
  <1>2. ASSUME NEW s \in Streams, FirstDatagram(s) PROVE Inv'
    <2>1. TypeOK'
      BY <1>2 DEF FirstDatagram, TypeOK, Accepted
    <2>2. QuietInv' /\ ReportsInStepArrive'
      BY <1>2 DEF FirstDatagram, QuietInv, ReportsInStepArrive
    <2> QED
      BY <2>1, <2>2
  <1>3. CASE SendTestSummary
    <2>1. TypeOK'
      BY <1>3 DEF SendTestSummary, TypeOK, QuietInv
    <2>2. QuietInv' /\ ReportsInStepArrive'
      BY <1>3 DEF SendTestSummary, QuietInv, ReportsInStepArrive
    <2> QED
      BY <2>1, <2>2
  <1>4. CASE HandleSummaryMessage
    <2>1. TypeOK'
      BY <1>4 DEF HandleSummaryMessage, TypeOK
    <2>2. QuietInv'
      BY <1>4 DEF HandleSummaryMessage, QuietInv
    <2>3. 1..0 = {}
      OBVIOUS
    <2>4. ReportsInStepArrive'
      BY <1>4, <2>3 DEF HandleSummaryMessage, QuietInv, ReportsInStepArrive, Streams
    <2> QED
      BY <2>1, <2>2, <2>4
  <1>5. CASE ParseReport
    <2> PICK junk \in Junk :
          /\ got' = [s \in Streams |-> IF s \in Matching(junk)
                                       THEN DeserializeReport(ReportAt(s, junk), junk) ELSE got[s]]
          /\ pos' = pos + 1 + 3 * Cardinality(Matching(junk))
          /\ finished' = IF Reliable THEN finished ELSE finished \cup Matching(junk)
      BY <1>5 DEF ParseReport
    <2>1. Matching(junk) \in SUBSET Streams
      BY DEF Matching, Accepted
    <2>2. Cardinality(Matching(junk)) \in Nat
      BY <2>1, SubsetCounts
    <2>3. \A s \in Matching(junk) : Before(s, junk) \in 0..(NumStreams - 1)
      <3> TAKE s \in Matching(junk)
      <3>1. /\ {u \in Matching(junk) : accepted[u] < accepted[s]} \in SUBSET Streams
            /\ {u \in Matching(junk) : accepted[u] < accepted[s]} # Streams
        BY <2>1 DEF TypeOK
      <3> QED
        BY <3>1, SubsetCounts DEF Before
    <2>4. got' \in [Streams -> Received]
      <3>1. \A s \in Matching(junk) : DeserializeReport(ReportAt(s, junk), junk) \in Received
        <4> TAKE s \in Matching(junk)
        <4> DEFINE p == ReportAt(s, junk)
        <4>1. \A f \in 0..2 : p + f \in 1..(pos + 3 * NumStreams)
          BY <2>3 DEF TypeOK, ReportAt
        <4>2. Word(p, junk) \in Nat /\ Word(p + 1, junk) \in Nat /\ Word(p + 2, junk) \in Nat
          <5>1. p \in 1..(pos + 3 * NumStreams) /\ p + 1 \in 1..(pos + 3 * NumStreams)
                /\ p + 2 \in 1..(pos + 3 * NumStreams)
            BY <2>3 DEF TypeOK, ReportAt
          <5> QED
            BY <5>1, WordType
        <4> QED
          BY <4>2 DEF DeserializeReport, Received
      <3> QED
        BY <3>1 DEF TypeOK
    <2>5. TypeOK'
      BY <1>5, <2>1, <2>2, <2>4 DEF ParseReport, TypeOK, MoreReports, NumOfStreams
    <2>6. QuietInv'
      BY <1>5 DEF ParseReport, QuietInv
    <2>7. ReportsInStepArrive'
      <3>1. CASE InStep(i + 1) /\ FitsBuffer(i + 1)
        BY <1>5, <3>1, RoundInStep
      <3>2. CASE ~(InStep(i + 1) /\ FitsBuffer(i + 1))
        BY <1>5, <3>2 DEF ParseReport, ReportsInStepArrive, InStep, FitsBuffer
      <3> QED
        BY <3>1, <3>2
    <2> QED
      BY <2>5, <2>6, <2>7
  <1>6. CASE SendAck
    <2>1. TypeOK'
      BY <1>6 DEF SendAck, TypeOK
    <2>2. QuietInv' /\ ReportsInStepArrive'
      BY <1>6 DEF SendAck, QuietInv, ReportsInStepArrive
    <2> QED
      BY <2>1, <2>2
  <1>7. CASE UNCHANGED vars
    <2>1. TypeOK'
      BY <1>7 DEF vars, TypeOK
    <2>2. QuietInv' /\ ReportsInStepArrive'
      BY <1>7 DEF vars, QuietInv, ReportsInStepArrive, InStep, Expected
    <2> QED
      BY <2>1, <2>2
  <1> QED
    BY <1>1, <1>2, <1>3, <1>4, <1>5, <1>6, <1>7 DEF Next

LEMMA Invariance == Spec => []Inv
  BY InitInv, NextKeepsInv, PTL DEF Spec

(* The variables of the exchange stay in their types; in particular the    *)
(* reader is never more than one word behind what was written or read.     *)
THEOREM TypeCorrect == Spec => []TypeOK
  BY Invariance, PTL DEF Inv

(* HandleSummaryMessage, for every number of streams and every size of the *)
(* buffer: while the reports belong to known streams and lie inside the    *)
(* buffer, each goes to its own stream and to no other, and nothing is     *)
(* read that the sender did not write.  Nothing is claimed of a report     *)
(* that the buffer does not hold (1100 bytes: the 34th stream and on).     *)
THEOREM ReportsReachTheirStreams == Spec => []ReportsInStepArrive
  BY Invariance, PTL DEF Inv
=============================================================================

--------------------------- MODULE IperfArgs_proofs ---------------------------
(***************************************************************************)
(* Type correctness of the parser (IperfArgs), that what InitFromArgs      *)
(* accepts is not refused later, and that it returns the role the whole    *)
(* line asks for, for command lines of every length and every choice of    *)
(* the words that are tried.                                               *)
(***************************************************************************)
EXTENDS IperfArgs, FiniteSetTheorems, SequenceTheorems, WellFoundedInduction, TLAPS

Fields == {"time", "interval", "streams", "protocol", "rate", "host", "files"}

(* What the parts of the program know when they are reached: until         *)
(* InitFromArgs returns there is no test; a role it returns is the one it  *)
(* validated, with the test it created.                                    *)
Early == pc \in {"parse", "configure", "crashed"}

EarlyInv == Early => returned = "" /\ tests = {}

ConfiguredInv ==
    /\ pc = "parse" => role \in {"NONE", "SENDER", "RECEIVER"}
    /\ pc = "configure" /\ role = "SENDER" => config.files = <<>>

ReturnedInv ==
    /\ returned \in Senders =>
        /\ role = returned /\ tests = {returned}
        /\ IF returned = "FILE_SENDER" THEN Len(config.files) >= config.streams
           ELSE config.files = <<>>
    /\ returned \in Receivers => role = returned /\ tests = {}

PlaceInv ==
    /\ pc = "RunTest" => returned \in Senders
    /\ pc = "RunServer" => returned \in Receivers

Inv == TypeOK /\ EarlyInv /\ ConfiguredInv /\ ReturnedInv /\ PlaceInv

-----------------------------------------------------------------------------
(* The parts of TypeOK.                                                    *)
ArgvOK == argv \in Seq(Words) /\ Len(argv) <= MaxArgs
ConfigOK ==
    /\ DOMAIN config = Fields
    /\ config.time \in Nat /\ config.interval \in Nat /\ config.streams \in Nat
    /\ config.protocol \in Nat /\ config.rate \in Nat
    /\ config.host \in Words \cup {""} /\ config.files \in Seq(Words)
RestOK ==
    /\ pc \in {"parse", "configure", "main", "RunTest", "RunServer", "done", "crashed"}
    /\ role \in Roles \ {"OBSERVER"}
    /\ interface \in Words \cup {""} /\ logFile \in Words \cup {""}
    /\ reading \in BOOLEAN
    /\ returned \in Roles \cup {""}
TestsOK == tests \subseteq Senders /\ Cardinality(tests) <= 1

LEMMA TypeParts == TypeOK <=> ArgvOK /\ ConfigOK /\ RestOK /\ TestsOK
  <1>1. DOMAIN DefaultConfig = Fields
    BY DEF DefaultConfig, Fields
  <1>2. {config.time, config.interval, config.streams, config.protocol, config.rate} \subseteq Nat
        <=> /\ config.time \in Nat /\ config.interval \in Nat /\ config.streams \in Nat
            /\ config.protocol \in Nat /\ config.rate \in Nat
    OBVIOUS
  <1> QED
    BY <1>1, <1>2 DEF TypeOK, ArgvOK, ConfigOK, RestOK, TestsOK

(* Reading a word, or two.                                                 *)
LEMMA ReadOK ==
  ASSUME ArgvOK, NEW w \in Words, Read(w)
  PROVE  ArgvOK'
  BY ArgsAssumption DEF ArgvOK, Read

LEMMA ReadWithValueOK ==
  ASSUME ArgvOK, NEW w \in Words, NEW v \in Words, ReadWithValue(w, v)
  PROVE  ArgvOK'
  <1>1. <<w, v>> \in Seq(Words) /\ Len(<<w, v>>) = 2
    OBVIOUS
  <1>2. argv \o <<w, v>> \in Seq(Words) /\ Len(argv \o <<w, v>>) = Len(argv) + 2
    BY <1>1, ConcatProperties DEF ArgvOK
  <1>3. Len(argv) + 1 < MaxArgs /\ argv' = argv \o <<w, v>> /\ Len(argv) \in Nat /\ MaxArgs \in Nat
    BY ArgsAssumption DEF ArgvOK, ReadWithValue
  <1> QED
    BY <1>2, <1>3 DEF ArgvOK

(* Storing a number, the host or a file.                                   *)
LEMMA NumberOK ==
  ASSUME ConfigOK, NEW w \in Floats \cup Ints, NEW v, IsNumber(v),
         config' = [config EXCEPT ![NumberField[w]] = NumberOf[v]]
  PROVE  ConfigOK' /\ config'.files = config.files
  <1>1. NumberField[w] \in {"time", "interval", "streams", "protocol", "rate"}
    BY DEF NumberField, Floats, Ints
  <1>2. NumberOf[v] \in Nat
    BY DEF IsNumber, NumberOf
  <1> QED
    BY <1>1, <1>2 DEF ConfigOK, Fields

LEMMA HostOK ==
  ASSUME ConfigOK, NEW v \in Words, config' = [config EXCEPT !.host = v]
  PROVE  ConfigOK' /\ config'.files = config.files
  BY DEF ConfigOK, Fields

LEMMA FilesOK ==
  ASSUME ConfigOK, NEW v \in Words, config' = [config EXCEPT !.files = Append(@, v)]
  PROVE  ConfigOK'
  <1>1. config.files \in Seq(Words)
    BY DEF ConfigOK
  <1>2. Append(config.files, v) \in Seq(Words)
    BY <1>1, AppendProperties
  <1> QED
    BY <1>2 DEF ConfigOK, Fields

(* A step of the parser that goes on, dies or returns without a role.      *)
LEMMA ParseStep ==
  ASSUME Inv, pc = "parse", ArgvOK', ConfigOK', UNCHANGED tests,
         interface' \in Words \cup {""}, logFile' \in Words \cup {""}, reading' \in BOOLEAN,
         \/ pc' \in {"parse", "crashed"} /\ UNCHANGED returned
            /\ role' \in {"NONE", "SENDER", "RECEIVER"}
         \/ pc' = "main" /\ returned' \in {"NONE", "OBSERVER"} /\ UNCHANGED role
  PROVE  Inv'
  <1>1. returned = "" /\ tests = {} /\ role \in {"NONE", "SENDER", "RECEIVER"}
    BY DEF Inv, EarlyInv, Early, ConfiguredInv
  <1>2. TypeOK'
    <2>1. RestOK'
      BY <1>1 DEF RestOK, Roles, Senders, Receivers
    <2>2. TestsOK'
      BY TypeParts DEF Inv, TestsOK
    <2>3. (TypeOK <=> ArgvOK /\ ConfigOK /\ RestOK /\ TestsOK)'
      BY TypeParts, PTL
    <2> QED
      BY <2>1, <2>2, <2>3
  <1> QED
    BY <1>1, <1>2 DEF Inv, EarlyInv, Early, ConfiguredInv, ReturnedInv, PlaceInv, Senders, Receivers

LEMMA WordsRead ==
  /\ Floats \subseteq Words /\ Ints \subseteq Words /\ ValueOptions \subseteq Words
  /\ Singles \subseteq Words /\ Operands \subseteq Words /\ Values \subseteq Words
  BY ArgsAssumption DEF Words, Options, ValueOptions

LEMMA ParserInv ==
  ASSUME Inv,
         \/ Help \/ Flag \/ NumberArg \/ FloatOverrun \/ Server \/ Client \/ FileArg
         \/ StringArg \/ LogArg \/ MissingValue \/ OtherArg
  PROVE  Inv'
  <1>t. /\ ArgvOK /\ ConfigOK
        /\ interface \in Words \cup {""} /\ logFile \in Words \cup {""} /\ reading \in BOOLEAN
    BY TypeParts DEF Inv, RestOK
  <1>r. pc = "parse" => role \in {"NONE", "SENDER", "RECEIVER"}
    BY DEF Inv, ConfiguredInv
  <1>c. UNCHANGED config => ConfigOK'
    BY <1>t DEF ConfigOK
  <1>1. CASE Help
    <2>1. ArgvOK'
      BY <1>1, <1>t, WordsRead, ReadOK DEF Help, Singles
    <2> QED
      BY <1>1, <1>t, <1>c, <2>1, ParseStep DEF Help, Parsing, Return
  <1>2. CASE Flag
    <2>1. ArgvOK'
      BY <1>2, <1>t, WordsRead, ReadOK DEF Flag, Singles
    <2> QED
      BY <1>2, <1>t, <1>r, <1>c, <2>1, ParseStep DEF Flag, Parsing
  <1>3. CASE NumberArg
    <2>1. PICK w \in Floats \cup Ints, v \in Values :
            /\ ReadWithValue(w, v)
            /\ IF IsNumber(v)
               THEN config' = [config EXCEPT ![NumberField[w]] = NumberOf[v]] /\ UNCHANGED pc
               ELSE pc' = "crashed" /\ UNCHANGED config
      BY <1>3 DEF NumberArg
    <2>2. w \in Words /\ v \in Words
      BY WordsRead
    <2>3. ArgvOK'
      BY <1>t, <2>1, <2>2, ReadWithValueOK
    <2>4. ConfigOK'
      BY <1>t, <1>c, <2>1, NumberOK
    <2> QED
      BY <1>3, <1>t, <1>r, <2>1, <2>3, <2>4, ParseStep DEF NumberArg, Parsing
  <1>4. CASE FloatOverrun
    <2>1. ArgvOK'
      BY <1>4, <1>t, WordsRead, ReadOK DEF FloatOverrun
    <2> QED
      BY <1>4, <1>t, <1>r, <1>c, <2>1, ParseStep DEF FloatOverrun, Parsing
  <1>5. CASE Server
    <2>1. ArgvOK'
      BY <1>5, <1>t, WordsRead, ReadOK DEF Server, Singles
    <2> QED
      BY <1>5, <1>t, <1>r, <1>c, <2>1, ParseStep DEF Server, Parsing, SetRole, Return
  <1>6. CASE Client
    <2>1. PICK v \in Values : ReadWithValue("-c", v) /\ config' = [config EXCEPT !.host = v]
      BY <1>6 DEF Client
    <2>2. v \in Words /\ "-c" \in Words
      BY WordsRead DEF ValueOptions
    <2>3. ArgvOK' /\ ConfigOK'
      BY <1>t, <2>1, <2>2, ReadWithValueOK, HostOK
    <2> QED
      BY <1>6, <1>t, <1>r, <2>3, ParseStep DEF Client, Parsing, SetRole, Return
  <1>7. CASE FileArg
    <2>1. PICK v \in Values : ReadWithValue("-f", v) /\ config' = [config EXCEPT !.files = Append(@, v)]
      BY <1>7 DEF FileArg
    <2>2. v \in Words /\ "-f" \in Words
      BY WordsRead DEF ValueOptions
    <2>3. ArgvOK' /\ ConfigOK'
      BY <1>t, <2>1, <2>2, ReadWithValueOK, FilesOK
    <2> QED
      BY <1>7, <1>t, <1>r, <2>3, ParseStep DEF FileArg, Parsing
  <1>8. CASE StringArg
    <2>1. PICK v \in Values : ReadWithValue("-I", v) /\ interface' = v
      BY <1>8 DEF StringArg
    <2>2. v \in Words /\ "-I" \in Words
      BY WordsRead DEF ValueOptions
    <2>3. ArgvOK'
      BY <1>t, <2>1, <2>2, ReadWithValueOK
    <2> QED
      BY <1>8, <1>t, <1>r, <1>c, <2>1, <2>2, <2>3, ParseStep DEF StringArg, Parsing
  <1>11. CASE LogArg
    <2>1. PICK v \in Values : ReadWithValue("-l", v) /\ logFile' = v
      BY <1>11 DEF LogArg
    <2>2. v \in Words /\ "-l" \in Words
      BY WordsRead DEF ValueOptions
    <2>3. ArgvOK'
      BY <1>t, <2>1, <2>2, ReadWithValueOK
    <2> QED
      BY <1>11, <1>t, <1>r, <1>c, <2>1, <2>2, <2>3, ParseStep DEF LogArg, Parsing
  <1>9. CASE MissingValue
    <2>1. ArgvOK'
      BY <1>9, <1>t, WordsRead, ReadOK DEF MissingValue
    <2> QED
      BY <1>9, <1>t, <1>c, <2>1, ParseStep DEF MissingValue, Parsing, Return
  <1>10. CASE OtherArg
    <2>1. PICK w \in Operands : Read(w) /\ BareWord(w)
      BY <1>10 DEF OtherArg
    <2>2. w \in Words
      BY WordsRead
    <2>3. ArgvOK'
      BY <1>t, <2>1, <2>2, ReadOK
    <2>4. ConfigOK'
      BY <1>t, <1>c, <2>1, <2>2, FilesOK DEF BareWord
    <2> QED
      BY <1>10, <1>t, <1>r, <2>1, <2>3, <2>4, ParseStep DEF OtherArg, Parsing, BareWord, Return
  <1> QED
    BY <1>1, <1>2, <1>3, <1>4, <1>5, <1>6, <1>7, <1>8, <1>9, <1>10, <1>11

(* The steps behind the loop change neither argv nor the configuration.    *)
LEMMA LaterType ==
  ASSUME TypeOK, UNCHANGED <<argv, config, interface, logFile, reading>>, TestsOK',
         pc' \in {"configure", "main", "RunTest", "RunServer", "done", "crashed"},
         role' \in Roles \ {"OBSERVER"}, returned' \in Roles \cup {""}
  PROVE  TypeOK'
  <1>1. (TypeOK <=> ArgvOK /\ ConfigOK /\ RestOK /\ TestsOK)'
    BY TypeParts, PTL
  <1>2. ArgvOK' /\ ConfigOK' /\ RestOK'
    BY TypeParts DEF ArgvOK, ConfigOK, RestOK
  <1> QED
    BY <1>1, <1>2

LEMMA LaterInv ==
  ASSUME Inv, EndOfArgs \/ LogFails \/ Configure \/ Main \/ Run
  PROVE  Inv'
  <1>t. TypeOK /\ RestOK /\ TestsOK
    BY TypeParts DEF Inv
  <1>k. UNCHANGED tests => TestsOK'
    BY <1>t DEF TestsOK
  <1>1. CASE EndOfArgs
    <2>1. /\ pc = "parse" /\ UNCHANGED <<argv, config, interface, logFile, reading, tests>>
          /\ returned = "" /\ tests = {} /\ role \in {"NONE", "SENDER", "RECEIVER"}
      BY <1>1 DEF EndOfArgs, Parsing, Inv, EarlyInv, Early, ConfiguredInv
    <2>2. \/ pc' = "main" /\ returned' = "NONE" /\ role' = role
          \/ pc' = "configure" /\ returned' = "" /\ role' = FinalRole
      BY <1>1, <2>1 DEF EndOfArgs, Return
    <2>3. FinalRole \in {"NONE", "SENDER", "RECEIVER", "FILE_SENDER"}
          /\ (FinalRole = "SENDER" => config.files = <<>>)
      BY <2>1 DEF FinalRole
    <2>4. TypeOK'
      BY <1>t, <1>k, <2>1, <2>2, <2>3, LaterType DEF Roles, Senders, Receivers
    <2> QED
      BY <2>1, <2>2, <2>3, <2>4 DEF Inv, EarlyInv, Early, ConfiguredInv, ReturnedInv, PlaceInv,
         Senders, Receivers
  <1>2. CASE Configure
    <2>1. /\ pc = "configure" /\ pc' = "main" /\ UNCHANGED <<argv, role, config, interface, logFile, reading>>
          /\ tests' = (IF Valid THEN TestsCreated ELSE {})
          /\ returned' = (IF Valid THEN role ELSE "NONE")
      BY <1>2 DEF Configure, Return
    <2>2. role \in Roles
      BY <1>t DEF RestOK
    <2>3. TestsOK'
      <3>1. TestsCreated \subseteq {role} /\ TestsCreated \subseteq Senders
        BY DEF TestsCreated
      <3>2. TestsCreated = {} \/ TestsCreated = {role}
        BY <3>1
      <3>3. Cardinality({}) = 0 /\ Cardinality({role}) = 1
        BY FS_EmptySet, FS_Singleton
      <3>4. Cardinality(TestsCreated) <= 1
        BY <3>2, <3>3
      <3> QED
        BY <2>1, <3>1, <3>3, <3>4 DEF TestsOK
    <2>4. TypeOK'
      BY <1>t, <2>1, <2>2, <2>3, LaterType DEF Roles, Senders, Receivers, RestOK
    <2>5. ReturnedInv'
      <3>1. CASE Valid
        <4>1. returned' = role /\ tests' = TestsCreated /\ role' = role /\ config' = config
          BY <2>1, <3>1
        <4>2. role \in Senders => tests' = {role}
          BY <4>1 DEF TestsCreated
        <4>3. role \in Receivers => tests' = {}
          BY <4>1 DEF TestsCreated, Senders, Receivers
        <4>4. role = "FILE_SENDER" => Len(config.files) >= config.streams
          BY <3>1 DEF Valid, ValidateClientConfig, Receivers
        <4>5. role = "SENDER" => config.files = <<>>
          BY <2>1 DEF Inv, ConfiguredInv
        <4> QED
          BY <4>1, <4>2, <4>3, <4>4, <4>5 DEF ReturnedInv, Senders
      <3>2. CASE ~Valid
        BY <2>1, <3>2 DEF ReturnedInv, Senders, Receivers
      <3> QED
        BY <3>1, <3>2
    <2> QED
      BY <2>1, <2>4, <2>5 DEF Inv, EarlyInv, Early, ConfiguredInv, PlaceInv
  <1>3. CASE Main
    <2>1. /\ UNCHANGED <<argv, role, config, interface, logFile, reading, tests, returned>>
          /\ pc' = IF returned \in Senders THEN "RunTest"
                   ELSE IF returned \in Receivers THEN "RunServer" ELSE "done"
      BY <1>3 DEF Main
    <2>2. TypeOK'
      BY <1>t, <1>k, <2>1, LaterType DEF RestOK
    <2> QED
      BY <2>1, <2>2 DEF Inv, EarlyInv, Early, ConfiguredInv, ReturnedInv, PlaceInv
  <1>4. CASE Run
    <2>1. UNCHANGED <<argv, role, config, interface, logFile, reading, tests, returned>> /\ pc' = "done"
      BY <1>4 DEF Run
    <2>2. TypeOK'
      BY <1>t, <1>k, <2>1, LaterType DEF RestOK
    <2> QED
      BY <2>1, <2>2 DEF Inv, EarlyInv, Early, ConfiguredInv, ReturnedInv, PlaceInv
  <1>5. CASE LogFails
    <2>1. /\ UNCHANGED <<argv, role, config, interface, logFile, reading, tests, returned>>
          /\ pc = "configure" /\ pc' = "crashed"
      BY <1>5 DEF LogFails
    <2>2. TypeOK'
      BY <1>t, <1>k, <2>1, LaterType DEF RestOK
    <2> QED
      BY <2>1, <2>2 DEF Inv, EarlyInv, Early, ConfiguredInv, ReturnedInv, PlaceInv
  <1> QED
    BY <1>1, <1>2, <1>3, <1>4, <1>5

LEMMA InitInv ==
  ASSUME Init
  PROVE  Inv
  <1>1. ArgvOK
    <2>1. argv = <<>>
      BY DEF Init
    <2>2. <<>> \in Seq(Words) /\ Len(<<>>) = 0
      BY EmptySeq
    <2> QED
      BY <2>1, <2>2, ArgsAssumption DEF ArgvOK
  <1>2. ConfigOK
    <2>1. config = DefaultConfig
      BY DEF Init
    <2>2. <<>> \in Seq(Words)
      BY EmptySeq
    <2> QED
      BY <2>1, <2>2 DEF ConfigOK, DefaultConfig, Fields
  <1>3. RestOK
    BY DEF Init, RestOK, Roles
  <1>4. TestsOK
    <2>1. tests = {} /\ Cardinality({}) = 0
      BY FS_EmptySet DEF Init
    <2> QED
      BY <2>1 DEF TestsOK
  <1> QED
    BY <1>1, <1>2, <1>3, <1>4, TypeParts DEF Init, Inv, EarlyInv, ConfiguredInv, ReturnedInv, PlaceInv,
       Senders, Receivers

LEMMA Invariance == Spec => []Inv
  <1>1. Init => Inv
    BY InitInv
  <1>2. Inv /\ [Next]_vars => Inv'
    <2> SUFFICES ASSUME Inv, [Next]_vars PROVE Inv'
      OBVIOUS
    <2>1. CASE UNCHANGED vars
      BY <2>1 DEF vars, Inv, TypeOK, EarlyInv, Early, ConfiguredInv, ReturnedInv, PlaceInv
    <2> QED
      BY <2>1, ParserInv, LaterInv DEF Next
  <1> QED
    BY <1>1, <1>2, PTL DEF Spec

-----------------------------------------------------------------------------
(* What the parser has read so far says what the fields hold.  No option   *)
(* waits for its value and no word stops the reading;                      *)
Whole == argv # <<>> => argv[Len(argv)] \notin ValueOptions \/ IsValue[Len(argv)]
ReadInv == Whole /\ \A k \in Positions : ~Stops(k)

(* the role, the flags and the fields are those of the options in argv;    *)
SaidInv ==
    /\ role \in Senders <=> Has("-c")
    /\ role = "RECEIVER" <=> Has("-s")
    /\ role # "FILE_RECEIVER"
    /\ reading <=> Has("-f")
    /\ config.host # "" <=> Has("-c")
    /\ interface = ValueOf("-I", "")
    /\ config.streams = NumberGiven("-P", 1)
    /\ config.protocol = NumberGiven("-m", 0)
    /\ config.rate = NumberGiven("-b", 0)

(* and the list has the files that argv names, each once.                  *)
FilesInv ==
    /\ Len(config.files) = Cardinality(FilePositions)
    /\ \A k \in 1..Len(config.files) : \E p \in FilePositions : argv[p] = config.files[k]
    /\ \A p \in FilePositions : \E k \in 1..Len(config.files) : argv[p] = config.files[k]

ParsedInv ==
    /\ pc \in {"parse", "configure"} => ReadInv /\ SaidInv /\ FilesInv
    /\ pc = "configure" => argv # <<>> /\ (role = "FILE_SENDER" <=> role \in Senders /\ config.files # <<>>)

(* Every set of naturals has a least element; inductions are by it.        *)
LEMMA LeastNumber ==
  ASSUME NEW T, T \subseteq Nat, T # {}
  PROVE  \E n \in T : \A m \in T : n <= m
  <1> DEFINE R == OpToRel(<, Nat)
  <1>1. IsWellFoundedOn(R, Nat)
    BY NatLessThanWellFounded
  <1>2. \A n, m \in Nat : m < n => <<m, n>> \in R
    BY DEF OpToRel
  <1> HIDE DEF R
  <1>3. PICK n \in T : \A m \in T : <<m, n>> \notin R
    BY <1>1, WFMin
  <1>4. ASSUME NEW m \in T PROVE n <= m
    <2>1. n \in Nat /\ m \in Nat /\ ~(m < n)
      BY <1>2, <1>3
    <2> QED
      BY <2>1
  <1> QED
    BY <1>4

(* IsValue is defined by recursion: there is a function that satisfies its *)
(* equation.                                                               *)
ValueStep(f, A, k) == k > 1 /\ A[k - 1] \in ValueOptions /\ ~f[k - 1]

LEMMA ValueFcnExists ==
  ASSUME NEW A, NEW N \in Nat
  PROVE  \E f : f = [k \in 1..N |-> ValueStep(f, A, k)]
  <1> DEFINE Good(n) == \E f : f = [k \in 1..n |-> ValueStep(f, A, k)]
             T == {n \in Nat : ~Good(n)}
  <1>1. SUFFICES ASSUME T # {} PROVE FALSE
    BY <1>1
  <1>2. PICK n \in T : \A m \in T : n <= m
    BY <1>1, LeastNumber
  <1>3. n \in Nat /\ ~Good(n)
    BY <1>2
  <1>4. CASE n = 0
    <2>1. [k \in 1..0 |-> FALSE] = [k \in 1..0 |-> ValueStep([j \in 1..0 |-> FALSE], A, k)]
      OBVIOUS
    <2> QED
      BY <1>3, <1>4, <2>1
  <1>5. CASE n # 0
    <2>1. n - 1 \in Nat /\ n - 1 \notin T
      BY <1>2, <1>3, <1>5
    <2>2. PICK g : g = [k \in 1..(n - 1) |-> ValueStep(g, A, k)]
      BY <2>1
    <2> DEFINE h == [k \in 1..n |-> IF k = n THEN ValueStep(g, A, n) ELSE g[k]]
    <2>3. \A k \in 1..n : h[k] = ValueStep(h, A, k)
      <3> SUFFICES ASSUME NEW k \in 1..n PROVE h[k] = ValueStep(h, A, k)
        OBVIOUS
      <3>1. k > 1 => k - 1 \in 1..n /\ k - 1 # n
        BY <1>3
      <3>2. k > 1 => h[k - 1] = g[k - 1]
        BY <3>1
      <3>3. ValueStep(h, A, k) = ValueStep(g, A, k)
        BY <3>2 DEF ValueStep
      <3>4. k # n => k \in 1..(n - 1)
        BY <1>3
      <3>5. k # n => g[k] = ValueStep(g, A, k)
        BY <3>4, <2>2
      <3> QED
        BY <3>3, <3>5
    <2>4. h = [k \in 1..n |-> ValueStep(h, A, k)]
      BY <2>3
    <2> QED
      BY <1>3, <2>4
  <1> QED
    BY <1>4, <1>5, <1>3

LEMMA IsValueDef ==
  \A k \in 1..MaxArgs : IsValue[k] <=> k > 1 /\ argv[k - 1] \in ValueOptions /\ ~IsValue[k - 1]
  <1> DEFINE D(f) == f = [k \in 1..MaxArgs |-> k > 1 /\ argv[k - 1] \in ValueOptions /\ ~f[k - 1]]
  <1>1. IsValue = CHOOSE f : D(f)
    BY DEF IsValue
  <1>2. \E f : D(f)
    <2>1. MaxArgs \in Nat
      BY ArgsAssumption
    <2>2. PICK f : f = [k \in 1..MaxArgs |-> ValueStep(f, argv, k)]
      BY <2>1, ValueFcnExists
    <2>3. f = [k \in 1..MaxArgs |-> k > 1 /\ argv[k - 1] \in ValueOptions /\ ~f[k - 1]]
      BY <2>2 DEF ValueStep
    <2> QED
      BY <2>3
  <1> HIDE DEF D
  <1>3. D(IsValue)
    BY <1>1, <1>2
  <1> QED
    BY <1>3 DEF D

(* More words do not change what the words before them are.                *)
Longer ==
    /\ Len(argv) \in Nat /\ Len(argv') \in Nat /\ Len(argv) < Len(argv') /\ Len(argv') <= MaxArgs
    /\ \A k \in 1..Len(argv) : argv'[k] = argv[k] /\ (IsValue'[k] <=> IsValue[k])
    /\ ~IsValue'[Len(argv) + 1]

LEMMA LongerLine ==
  ASSUME ArgvOK, ArgvOK', Whole, Len(argv) < Len(argv'),
         \A k \in 1..Len(argv) : argv'[k] = argv[k]
  PROVE  Longer
  <1> DEFINE n == Len(argv)
  <1>1. n \in Nat /\ Len(argv') \in Nat /\ Len(argv') <= MaxArgs /\ MaxArgs \in Nat
    BY ArgsAssumption DEF ArgvOK
  <1>2. \A k \in 1..MaxArgs : IsValue[k] <=> k > 1 /\ argv[k - 1] \in ValueOptions /\ ~IsValue[k - 1]
    BY IsValueDef
  <1>3. \A k \in 1..MaxArgs : IsValue'[k] <=> k > 1 /\ argv'[k - 1] \in ValueOptions /\ ~IsValue'[k - 1]
    <2>1. (\A k \in 1..MaxArgs : IsValue[k] <=> k > 1 /\ argv[k - 1] \in ValueOptions /\ ~IsValue[k - 1])'
      BY IsValueDef, PTL
    <2> QED
      BY <2>1
  <1>4. \A k \in 1..n : IsValue'[k] <=> IsValue[k]
    <2> DEFINE T == {k \in 1..n : ~(IsValue'[k] <=> IsValue[k])}
    <2>1. SUFFICES ASSUME T # {} PROVE FALSE
      OBVIOUS
    <2>2. PICK m \in T : \A j \in T : m <= j
      <3>1. T \subseteq Nat
        BY <1>1
      <3> HIDE DEF T
      <3> QED
        BY <2>1, <3>1, LeastNumber
    <2>3. m \in 1..n /\ m \in 1..MaxArgs /\ ~(IsValue'[m] <=> IsValue[m])
      BY <1>1, <2>2
    <2>4. m > 1 => m - 1 \in 1..n /\ m - 1 \notin T
      BY <1>1, <2>2, <2>3
    <2>5. m > 1 => (IsValue'[m - 1] <=> IsValue[m - 1]) /\ argv'[m - 1] = argv[m - 1]
      BY <2>4
    <2> HIDE DEF T
    <2> QED
      BY <1>2, <1>3, <2>3, <2>5
  <1>5. ~IsValue'[n + 1]
    <2>1. n + 1 \in 1..MaxArgs /\ (n + 1) - 1 = n
      BY <1>1
    <2>2. IsValue'[n + 1] => n + 1 > 1 /\ argv'[n] \in ValueOptions /\ ~IsValue'[n]
      BY <1>3, <2>1
    <2>3. n + 1 > 1 => n \in 1..n /\ argv # <<>>
      BY <1>1
    <2>4. n + 1 > 1 => argv'[n] = argv[n] /\ (IsValue'[n] <=> IsValue[n])
      BY <1>4, <2>3
    <2> QED
      BY <2>2, <2>3, <2>4 DEF Whole
  <1> QED
    BY <1>1, <1>4, <1>5 DEF Longer

LEMMA OneMore ==
  ASSUME ArgvOK, Whole, NEW w \in Words, Read(w)
  PROVE  /\ Longer /\ ArgvOK'
         /\ Len(argv') = Len(argv) + 1 /\ argv'[Len(argv) + 1] = w
  <1>1. ArgvOK' /\ argv' = Append(argv, w) /\ argv \in Seq(Words)
    BY ReadOK DEF Read, ArgvOK
  <1>2. Len(argv') = Len(argv) + 1 /\ Len(argv) \in Nat /\ argv'[Len(argv) + 1] = w
        /\ \A k \in 1..Len(argv) : argv'[k] = argv[k]
    BY <1>1, AppendProperties
  <1>3. Len(argv) < Len(argv')
    BY <1>2
  <1> QED
    BY <1>1, <1>2, <1>3, LongerLine

LEMMA TwoMore ==
  ASSUME ArgvOK, Whole, NEW w \in ValueOptions, NEW v \in Words, ReadWithValue(w, v)
  PROVE  /\ Longer /\ ArgvOK'
         /\ Len(argv') = Len(argv) + 2 /\ argv'[Len(argv) + 1] = w /\ argv'[Len(argv) + 2] = v
         /\ IsValue'[Len(argv) + 2]
  <1>0. w \in Words
    BY WordsRead
  <1>1. ArgvOK' /\ argv' = argv \o <<w, v>> /\ argv \in Seq(Words) /\ <<w, v>> \in Seq(Words)
    <2>1. ArgvOK'
      BY <1>0, ReadWithValueOK
    <2> QED
      BY <1>0, <2>1 DEF ReadWithValue, ArgvOK
  <1>2. Len(argv') = Len(argv) + 2 /\ Len(argv) \in Nat
        /\ argv'[Len(argv) + 1] = w /\ argv'[Len(argv) + 2] = v
        /\ \A k \in 1..Len(argv) : argv'[k] = argv[k]
    BY <1>1
  <1>3. Len(argv) < Len(argv')
    BY <1>2
  <1>4. Longer
    BY <1>1, <1>2, <1>3, LongerLine
  <1>5. IsValue'[Len(argv) + 2]
    <2>1. (\A k \in 1..MaxArgs : IsValue[k] <=> k > 1 /\ argv[k - 1] \in ValueOptions /\ ~IsValue[k - 1])'
      BY IsValueDef, PTL
    <2>2. Len(argv) + 2 \in 1..MaxArgs /\ (Len(argv) + 2) - 1 = Len(argv) + 1 /\ Len(argv) + 2 > 1
      BY <1>2, <1>4, ArgsAssumption DEF Longer
    <2> QED
      BY <1>2, <1>4, <2>1, <2>2 DEF Longer
  <1> QED
    BY <1>1, <1>2, <1>4, <1>5

(* What the words read before say is still said.  Position k has the value *)
(* of option x, or names a file.                                           *)
ValueAt(k, x) == IsValue[k] /\ argv[k - 1] = x
FileAt(k) == ValueAt(k, "-f") \/ (~IsValue[k] /\ argv[k] \in Operands)

LEMMA StillSays ==
  ASSUME Longer, NEW k \in 1..Len(argv)
  PROVE  /\ \A x : At(k, x)' <=> At(k, x)
         /\ \A x : ValueAt(k, x)' <=> ValueAt(k, x)
         /\ FileAt(k)' <=> FileAt(k)
  <1>1. argv'[k] = argv[k] /\ (IsValue'[k] <=> IsValue[k])
    BY DEF Longer
  <1>2. IsValue[k] => k - 1 \in 1..Len(argv)
    <2>1. k \in 1..MaxArgs
      BY ArgsAssumption DEF Longer
    <2> QED
      BY <2>1, IsValueDef
  <1>3. IsValue[k] => argv'[k - 1] = argv[k - 1]
    BY <1>2 DEF Longer
  <1>4. \A x : ValueAt(k, x)' <=> ValueAt(k, x)
    BY <1>1, <1>3 DEF ValueAt
  <1> QED
    BY <1>1, <1>4 DEF At, FileAt

(* Stops, in these terms.                                                  *)
RoleAt(k) == At(k, "-s") \/ ValueAt(k, "-c")
NumberAt(k) == ValueAt(k, "-t") \/ ValueAt(k, "-i") \/ ValueAt(k, "-P") \/ ValueAt(k, "-m") \/ ValueAt(k, "-b")

LEMMA StopsIs ==
  ASSUME NEW k
  PROVE  Stops(k) <=>
           \/ At(k, "-h")
           \/ k = Len(argv) /\ ~IsValue[k] /\ argv[k] \in ValueOptions
           \/ RoleAt(k) /\ \E j \in 1..(k - 1) : RoleAt(j)
           \/ ~IsValue[k] /\ argv[k] \in Operands /\ ~\E j \in 1..(k - 1) : At(j, "-f")
           \/ NumberAt(k) /\ ~IsNumber(argv[k])
  BY DEF Stops, RoleAt, NumberAt, ValueAt, Floats, Ints

LEMMA StopsIsPrime ==
  ASSUME NEW k
  PROVE  Stops(k)' <=>
           \/ At(k, "-h")'
           \/ k = Len(argv') /\ ~IsValue'[k] /\ argv'[k] \in ValueOptions
           \/ RoleAt(k)' /\ \E j \in 1..(k - 1) : RoleAt(j)'
           \/ ~IsValue'[k] /\ argv'[k] \in Operands /\ ~\E j \in 1..(k - 1) : At(j, "-f")'
           \/ NumberAt(k)' /\ ~IsNumber(argv'[k])
  BY DEF Stops, RoleAt, NumberAt, ValueAt, Floats, Ints

LEMMA StillReads ==
  ASSUME Longer, ReadInv, NEW k \in 1..Len(argv)
  PROVE  ~Stops(k)'
  <1>1. ~Stops(k) /\ k # Len(argv')
    BY DEF ReadInv, Positions, Longer
  <1>2. argv'[k] = argv[k] /\ (IsValue'[k] <=> IsValue[k]) /\ (At(k, "-h")' <=> At(k, "-h"))
    BY StillSays DEF Longer
  <1>3. (RoleAt(k)' <=> RoleAt(k)) /\ (NumberAt(k)' <=> NumberAt(k))
    BY StillSays DEF RoleAt, NumberAt
  <1>4. \A j \in 1..(k - 1) : (RoleAt(j)' <=> RoleAt(j)) /\ (At(j, "-f")' <=> At(j, "-f"))
    <2>1. Len(argv) \in Nat
      BY DEF Longer
    <2>2. \A j \in 1..(k - 1) : j \in 1..Len(argv)
      BY <2>1
    <2> QED
      BY <2>2, StillSays DEF RoleAt
  <1> QED
    BY <1>1, <1>2, <1>3, <1>4, StopsIs, StopsIsPrime

(* A role was given by -s, or by -c with its value.                        *)
LEMMA RoleGiven ==
  ASSUME ArgvOK, Whole
  PROVE  (\E j \in 1..Len(argv) : RoleAt(j)) <=> Has("-s") \/ Has("-c")
  <1> DEFINE n == Len(argv)
  <1>1. n \in Nat /\ n <= MaxArgs /\ MaxArgs \in Nat
    BY ArgsAssumption DEF ArgvOK
  <1>2. ASSUME NEW j \in 1..n, ValueAt(j, "-c") PROVE Has("-c")
    <2>1. j \in 1..MaxArgs
      BY <1>1
    <2>2. j > 1 /\ ~IsValue[j - 1] /\ argv[j - 1] = "-c"
      BY <1>2, <2>1, IsValueDef DEF ValueAt
    <2>3. j - 1 \in 1..n
      BY <1>1, <2>2
    <2> QED
      BY <2>2, <2>3 DEF Has, At, Positions
  <1>3. ASSUME NEW j \in 1..n, At(j, "-c") PROVE \E i \in 1..n : ValueAt(i, "-c")
    <2>1. "-c" \in ValueOptions /\ argv # <<>>
      BY <1>1 DEF ValueOptions
    <2>2. j # n
      BY <1>3, <2>1 DEF Whole, At
    <2>3. j + 1 \in 1..n /\ j + 1 \in 1..MaxArgs /\ j + 1 > 1 /\ (j + 1) - 1 = j
      BY <1>1, <2>2
    <2>4. IsValue[j + 1] <=> argv[j] \in ValueOptions /\ ~IsValue[j]
      BY <2>3, IsValueDef
    <2>5. ValueAt(j + 1, "-c")
      BY <1>3, <2>1, <2>3, <2>4 DEF At, ValueAt
    <2> QED
      BY <2>3, <2>5
  <1>4. \A x : Has(x) <=> \E j \in 1..n : At(j, x)
    BY DEF Has, Positions
  <1> HIDE DEF n
  <1>5. (\E j \in 1..n : RoleAt(j)) <=> Has("-s") \/ Has("-c")
    BY <1>2, <1>3, <1>4 DEF RoleAt
  <1> QED
    BY <1>5 DEF n

(* Options and files of a line with a word more, and with an option and    *)
(* its value more.                                                         *)
LEMMA OneMoreSays ==
  ASSUME Longer, NEW n \in Nat, n = Len(argv), NEW w, Len(argv') = n + 1, argv'[n + 1] = w
  PROVE  /\ \A x : Has(x)' <=> Has(x) \/ x = w
         /\ FilePositions' = FilePositions \cup (IF w \in Operands THEN {n + 1} ELSE {})
  <1>1. n \in Nat /\ 1..Len(argv') = (1..n) \cup {n + 1} /\ ~IsValue'[n + 1]
    BY DEF Longer
  <1>2. (\A x : At(n + 1, x)' <=> x = w) /\ (FileAt(n + 1)' <=> w \in Operands)
    BY <1>1 DEF At, FileAt, ValueAt
  <1>3. \A k \in 1..n : (\A x : At(k, x)' <=> At(k, x)) /\ (FileAt(k)' <=> FileAt(k))
    BY StillSays
  <1>4. /\ FilePositions = {k \in 1..n : FileAt(k)}
        /\ FilePositions' = {k \in 1..Len(argv') : FileAt(k)'}
    BY DEF FilePositions, Positions, FileAt, ValueAt
  <1>5. /\ \A x : Has(x) <=> \E k \in 1..n : At(k, x)
        /\ \A x : Has(x)' <=> \E k \in 1..Len(argv') : At(k, x)'
    BY DEF Has, Positions
  <1>6. \A x : Has(x)' <=> Has(x) \/ x = w
    BY <1>1, <1>2, <1>3, <1>5
  <1>7. FilePositions' = FilePositions \cup (IF w \in Operands THEN {n + 1} ELSE {})
    BY <1>1, <1>2, <1>3, <1>4
  <1> QED
    BY <1>6, <1>7

LEMMA TwoMoreSays ==
  ASSUME Longer, NEW n \in Nat, n = Len(argv), NEW w \in ValueOptions, NEW v, Len(argv') = n + 2,
         argv'[n + 1] = w, argv'[n + 2] = v, IsValue'[n + 2]
  PROVE  /\ \A x : Has(x)' <=> Has(x) \/ x = w
         /\ FilePositions' = FilePositions \cup (IF w = "-f" THEN {n + 2} ELSE {})
  <1>1. n \in Nat /\ 1..Len(argv') = (1..n) \cup {n + 1, n + 2} /\ ~IsValue'[n + 1]
    BY DEF Longer
  <1>2. (\A x : At(n + 1, x)' <=> x = w) /\ ~FileAt(n + 1)'
    BY <1>1 DEF At, FileAt, ValueAt, Operands, ValueOptions, Floats, Ints
  <1>3. (\A x : ~At(n + 2, x)') /\ (FileAt(n + 2)' <=> w = "-f")
    <2>1. (n + 2) - 1 = n + 1
      BY <1>1
    <2> QED
      BY <2>1 DEF At, FileAt, ValueAt
  <1>4. \A k \in 1..n : (\A x : At(k, x)' <=> At(k, x)) /\ (FileAt(k)' <=> FileAt(k))
    BY StillSays
  <1>5. /\ FilePositions = {k \in 1..n : FileAt(k)}
        /\ FilePositions' = {k \in 1..Len(argv') : FileAt(k)'}
    BY DEF FilePositions, Positions, FileAt, ValueAt
  <1>6. /\ \A x : Has(x) <=> \E k \in 1..n : At(k, x)
        /\ \A x : Has(x)' <=> \E k \in 1..Len(argv') : At(k, x)'
    BY DEF Has, Positions
  <1>7. \A x : Has(x)' <=> Has(x) \/ x = w
    BY <1>1, <1>2, <1>3, <1>4, <1>6
  <1>8. FilePositions' = FilePositions \cup (IF w = "-f" THEN {n + 2} ELSE {})
    BY <1>1, <1>2, <1>3, <1>4, <1>5
  <1> QED
    BY <1>7, <1>8

(* The value of an option is the one given last.                           *)
Given(x) == {k \in Positions : k < Len(argv) /\ At(k, x)}
Last(S) == CHOOSE k \in S : \A j \in S : j <= k

LEMMA LastIs ==
  ASSUME NEW n \in Nat, NEW S, S \subseteq 1..n, S # {}
  PROVE  Last(S) \in S /\ \A j \in S : j <= Last(S)
  <1> DEFINE T == {m \in Nat : \A j \in S : j <= m}
  <1>1. n \in T
    OBVIOUS
  <1>2. PICK m \in T : \A i \in T : m <= i
    <2> HIDE DEF T
    <2>1. T \subseteq Nat
      BY DEF T
    <2> QED
      BY <1>1, <2>1, LeastNumber
  <1>3. m \in S
    <2>1. SUFFICES ASSUME m \notin S PROVE FALSE
      OBVIOUS
    <2>2. \A j \in S : j \in Nat /\ j >= 1 /\ j <= m - 1
      BY <1>2, <2>1
    <2>3. m - 1 \in Nat
      <3>1. PICK j \in S : j >= 1 /\ j <= m - 1 /\ j \in Nat
        BY <2>2
      <3> QED
        BY <1>2, <3>1
    <2>4. m - 1 \in T
      BY <2>2, <2>3
    <2> QED
      BY <1>2, <2>4
  <1>4. \E k \in S : \A j \in S : j <= k
    BY <1>2, <1>3
  <1> QED
    BY <1>4 DEF Last

LEMMA ValueOfIs ==
  ASSUME NEW x, NEW d
  PROVE  ValueOf(x, d) = IF Given(x) = {} THEN d ELSE argv[Last(Given(x)) + 1]
  BY DEF ValueOf, Given, Last

LEMMA OneMoreValue ==
  ASSUME Longer, Whole, NEW n \in Nat, n = Len(argv), Len(argv') = n + 1, NEW x \in ValueOptions, NEW d
  PROVE  ValueOf(x, d)' = ValueOf(x, d)
  <1>1. n \in Nat /\ \A k \in 1..n : At(k, x)' <=> At(k, x)
    BY StillSays DEF Longer
  <1>2. n \in 1..n => ~At(n, x)
    <2>1. n \in 1..n => argv # <<>>
      OBVIOUS
    <2> QED
      BY <2>1 DEF Whole, At
  <1>3. Given(x) = {k \in 1..n : k < n /\ At(k, x)}
    BY DEF Given, Positions
  <1>4. Given(x)' = {k \in 1..(n + 1) : k < n + 1 /\ At(k, x)'}
    BY DEF Given, Positions
  <1>5. Given(x)' = Given(x)
    <2>1. ASSUME NEW k PROVE k \in Given(x)' <=> k \in Given(x)
      <3>1. k \in Given(x)' <=> k \in 1..n /\ At(k, x)'
        BY <1>1, <1>4
      <3>2. k \in Given(x) <=> k \in 1..n /\ At(k, x)
        BY <1>1, <1>2, <1>3
      <3> QED
        BY <1>1, <3>1, <3>2
    <2> QED
      BY <2>1
  <1>6. Given(x) # {} => Last(Given(x)) + 1 \in 1..n
    <2>1. Given(x) \subseteq 1..n
      BY <1>3
    <2>2. Given(x) # {} => Last(Given(x)) \in Given(x)
      BY <1>1, <2>1, LastIs
    <2> QED
      BY <1>1, <1>3, <2>2
  <1>7. Given(x) # {} => argv'[Last(Given(x)) + 1] = argv[Last(Given(x)) + 1]
    BY <1>6 DEF Longer
  <1>8. ValueOf(x, d)' = IF Given(x)' = {} THEN d ELSE argv'[Last(Given(x)') + 1]
    BY DEF ValueOf, Given, Last
  <1> QED
    BY <1>5, <1>7, <1>8, ValueOfIs

LEMMA TwoMoreValue ==
  ASSUME Longer, Whole, NEW n \in Nat, n = Len(argv), NEW w \in ValueOptions, NEW v,
         Len(argv') = n + 2, argv'[n + 1] = w, argv'[n + 2] = v, NEW x \in ValueOptions, NEW d
  PROVE  ValueOf(x, d)' = IF x = w THEN v ELSE ValueOf(x, d)
  <1>1. n \in Nat /\ (\A k \in 1..n : At(k, x)' <=> At(k, x)) /\ (At(n + 1, x)' <=> x = w)
    BY StillSays DEF Longer, At
  <1>2. n \in 1..n => ~At(n, x)
    <2>1. n \in 1..n => argv # <<>>
      OBVIOUS
    <2> QED
      BY <2>1 DEF Whole, At
  <1>3. Given(x) = {k \in 1..n : k < n /\ At(k, x)}
    BY DEF Given, Positions
  <1>4. Given(x)' = {k \in 1..(n + 2) : k < n + 2 /\ At(k, x)'}
    BY DEF Given, Positions
  <1>8. ValueOf(x, d)' = IF Given(x)' = {} THEN d ELSE argv'[Last(Given(x)') + 1]
    BY DEF ValueOf, Given, Last
  <1>5. CASE x # w
    <2>1. Given(x)' = Given(x)
      <3>1. ASSUME NEW k PROVE k \in Given(x)' <=> k \in Given(x)
        <4>1. k \in Given(x)' <=> k \in 1..(n + 1) /\ At(k, x)'
          BY <1>1, <1>4
        <4>2. k \in Given(x)' <=> k \in 1..n /\ At(k, x)'
          BY <1>1, <1>5, <4>1
        <4>3. k \in Given(x) <=> k \in 1..n /\ At(k, x)
          BY <1>1, <1>2, <1>3
        <4> QED
          BY <1>1, <4>2, <4>3
      <3> QED
        BY <3>1
    <2>2. Given(x) # {} => Last(Given(x)) + 1 \in 1..n
      <3>1. Given(x) \subseteq 1..n
        BY <1>3
      <3>2. Given(x) # {} => Last(Given(x)) \in Given(x)
        BY <1>1, <3>1, LastIs
      <3> QED
        BY <1>1, <1>3, <3>2
    <2>3. Given(x) # {} => argv'[Last(Given(x)) + 1] = argv[Last(Given(x)) + 1]
      BY <2>2 DEF Longer
    <2> QED
      BY <1>5, <1>8, <2>1, <2>3, ValueOfIs
  <1>6. CASE x = w
    <2> DEFINE G == Given(x)'
    <2>1. n + 1 \in G /\ G \subseteq 1..(n + 1)
      BY <1>1, <1>4, <1>6
    <2> HIDE DEF G
    <2>2. Last(G) \in G /\ n + 1 <= Last(G)
      <3>1. n + 1 \in Nat /\ G # {}
        BY <1>1, <2>1
      <3>2. Last(G) \in G /\ \A j \in G : j <= Last(G)
        BY <2>1, <3>1, LastIs
      <3> QED
        BY <2>1, <3>2
    <2>3. Last(G) = n + 1
      <3>1. Last(G) \in 1..(n + 1)
        BY <2>1, <2>2
      <3> QED
        BY <1>1, <2>2, <3>1
    <2>4. ValueOf(x, d)' = argv'[Last(G) + 1]
      BY <1>8, <2>1 DEF G
    <2>5. (n + 1) + 1 = n + 2
      BY <1>1
    <2> QED
      BY <1>6, <2>3, <2>4, <2>5
  <1> QED
    BY <1>5, <1>6

-----------------------------------------------------------------------------
(* Which new words stop the reading.                                       *)
LEMMA OneMoreStops ==
  ASSUME ArgvOK, ReadInv, NEW n \in Nat, n = Len(argv), NEW w \in Words, Read(w)
  PROVE  /\ Len(argv') = n + 1
         /\ \A k \in 1..n : ~Stops(k)'
         /\ Stops(n + 1)' <=>
              \/ w = "-h" \/ w \in ValueOptions
              \/ w = "-s" /\ (Has("-s") \/ Has("-c"))
              \/ w \in Operands /\ ~Has("-f")
         /\ At(n + 1, "-h")' <=> w = "-h"
         /\ Whole' <=> w \notin ValueOptions
  <1>1. /\ Longer /\ Len(argv') = n + 1 /\ argv'[n + 1] = w /\ argv' # <<>> /\ ~IsValue'[n + 1]
    BY OneMore DEF ReadInv, Longer
  <1>2. \A x : At(n + 1, x)' <=> x = w
    BY <1>1 DEF At
  <1>3. ~NumberAt(n + 1)' /\ (RoleAt(n + 1)' <=> w = "-s")
    BY <1>1, <1>2 DEF NumberAt, RoleAt, ValueAt
  <1>4. \A j \in 1..n : (RoleAt(j)' <=> RoleAt(j)) /\ (At(j, "-f")' <=> At(j, "-f"))
    BY <1>1, StillSays DEF RoleAt
  <1>5. (\E j \in 1..n : RoleAt(j)) <=> Has("-s") \/ Has("-c")
    BY RoleGiven DEF ReadInv
  <1>6. (\E j \in 1..n : At(j, "-f")) <=> Has("-f")
    BY DEF Has, Positions
  <1>7. (n + 1) - 1 = n
    OBVIOUS
  <1>8. Stops(n + 1)' <=>
              \/ w = "-h" \/ w \in ValueOptions
              \/ w = "-s" /\ (Has("-s") \/ Has("-c"))
              \/ w \in Operands /\ ~Has("-f")
    BY <1>1, <1>2, <1>3, <1>4, <1>5, <1>6, <1>7, StopsIsPrime
  <1>9. \A k \in 1..n : ~Stops(k)'
    BY <1>1, StillReads
  <1>10. Whole' <=> w \notin ValueOptions
    BY <1>1 DEF Whole
  <1> QED
    BY <1>1, <1>2, <1>8, <1>9, <1>10

LEMMA TwoMoreStops ==
  ASSUME ArgvOK, ReadInv, NEW n \in Nat, n = Len(argv), NEW w \in ValueOptions, NEW v \in Words,
         ReadWithValue(w, v)
  PROVE  /\ Len(argv') = n + 2
         /\ \A k \in 1..(n + 1) : ~Stops(k)'
         /\ Stops(n + 2)' <=>
              \/ w = "-c" /\ (Has("-s") \/ Has("-c"))
              \/ w \in Floats \cup Ints /\ ~IsNumber(v)
         /\ ~At(n + 2, "-h")'
         /\ Whole'
  <1>1. /\ Longer /\ Len(argv') = n + 2 /\ argv'[n + 1] = w /\ argv'[n + 2] = v
        /\ ~IsValue'[n + 1] /\ IsValue'[n + 2]
    BY TwoMore DEF ReadInv, Longer
  <1>2. (\A x : At(n + 1, x)' <=> x = w) /\ (\A x : ~ValueAt(n + 1, x)')
    BY <1>1 DEF At, ValueAt
  <1>3. (\A x : ~At(n + 2, x)') /\ (\A x : ValueAt(n + 2, x)' <=> x = w)
    <2>1. (n + 2) - 1 = n + 1
      OBVIOUS
    <2> QED
      BY <1>1, <2>1 DEF At, ValueAt
  <1>4. w # "-h" /\ w # "-s" /\ w \notin Operands
    BY DEF ValueOptions, Floats, Ints, Operands
  <1>5. ~RoleAt(n + 1)' /\ ~NumberAt(n + 1)' /\ (RoleAt(n + 2)' <=> w = "-c")
        /\ (NumberAt(n + 2)' <=> w \in Floats \cup Ints)
    BY <1>2, <1>3, <1>4 DEF NumberAt, RoleAt, Floats, Ints
  <1>6. \A j \in 1..n : RoleAt(j)' <=> RoleAt(j)
    BY <1>1, StillSays DEF RoleAt
  <1>7. (\E j \in 1..n : RoleAt(j)) <=> Has("-s") \/ Has("-c")
    BY RoleGiven DEF ReadInv
  <1>8. (\E j \in 1..((n + 2) - 1) : RoleAt(j)') <=> Has("-s") \/ Has("-c")
    <2>1. 1..((n + 2) - 1) = (1..n) \cup {n + 1}
      OBVIOUS
    <2> QED
      BY <1>5, <1>6, <1>7, <2>1
  <1>9. ~Stops(n + 1)'
    <2>1. n + 1 # n + 2
      OBVIOUS
    <2> QED
      BY <1>1, <1>2, <1>4, <1>5, <2>1, StopsIsPrime
  <1>10. Stops(n + 2)' <=>
              \/ w = "-c" /\ (Has("-s") \/ Has("-c"))
              \/ w \in Floats \cup Ints /\ ~IsNumber(v)
    BY <1>1, <1>3, <1>5, <1>8, StopsIsPrime
  <1>11. \A k \in 1..(n + 1) : ~Stops(k)'
    <2>1. \A k \in 1..(n + 1) : k = n + 1 \/ k \in 1..n
      OBVIOUS
    <2> QED
      BY <1>1, <1>9, <2>1, StillReads
  <1>12. Whole'
    BY <1>1 DEF Whole
  <1> QED
    BY <1>1, <1>3, <1>10, <1>11, <1>12

(* A line that goes on, and one that is given up.                          *)
LEMMA OneMoreRead ==
  ASSUME ArgvOK, ReadInv, NEW w \in Words, Read(w), w # "-h", w \notin ValueOptions,
         w = "-s" => ~Has("-s") /\ ~Has("-c"), w \in Operands => Has("-f")
  PROVE  ReadInv'
  <1>1. PICK n \in Nat : n = Len(argv)
    BY DEF ArgvOK
  <1>2. Len(argv') = n + 1 /\ (\A k \in 1..n : ~Stops(k)') /\ ~Stops(n + 1)' /\ Whole'
    BY <1>1, OneMoreStops
  <1>3. \A k \in 1..Len(argv') : k \in 1..n \/ k = n + 1
    BY <1>2
  <1>4. \A k \in 1..Len(argv') : ~Stops(k)'
    BY <1>2, <1>3
  <1> QED
    BY <1>2, <1>4 DEF ReadInv, Positions

LEMMA TwoMoreRead ==
  ASSUME ArgvOK, ReadInv, NEW w \in ValueOptions, NEW v \in Words, ReadWithValue(w, v),
         w = "-c" => ~Has("-s") /\ ~Has("-c"), w \in Floats \cup Ints => IsNumber(v)
  PROVE  ReadInv'
  <1>1. PICK n \in Nat : n = Len(argv)
    BY DEF ArgvOK
  <1>2. Len(argv') = n + 2 /\ (\A k \in 1..(n + 1) : ~Stops(k)') /\ ~Stops(n + 2)' /\ Whole'
    BY <1>1, TwoMoreStops
  <1>3. \A k \in 1..Len(argv') : k \in 1..(n + 1) \/ k = n + 2
    BY <1>2
  <1>4. \A k \in 1..Len(argv') : ~Stops(k)'
    BY <1>2, <1>3
  <1> QED
    BY <1>2, <1>4 DEF ReadInv, Positions

LEMMA OneMoreLast ==
  ASSUME ArgvOK, ReadInv, NEW w \in Words, Read(w)
  PROVE  /\ \A k \in 1..(Len(argv') - 1) : ~Stops(k)'
         /\ \/ w = "-h" \/ w \in ValueOptions
            \/ w = "-s" /\ (Has("-s") \/ Has("-c"))
            \/ w \in Operands /\ ~Has("-f")
            => Meaning' = IF w = "-h" THEN "OBSERVER" ELSE "NONE"
  <1>1. PICK n \in Nat : n = Len(argv)
    BY DEF ArgvOK
  <1>2. Len(argv') = n + 1 /\ (\A k \in 1..n : ~Stops(k)') /\ (At(n + 1, "-h")' <=> w = "-h")
    BY <1>1, OneMoreStops
  <1>3. Len(argv') - 1 = n /\ n + 1 \in 1..Len(argv')
    BY <1>2
  <1>4. CASE \/ w = "-h" \/ w \in ValueOptions
             \/ w = "-s" /\ (Has("-s") \/ Has("-c"))
             \/ w \in Operands /\ ~Has("-f")
    <2>1. Stops(n + 1)'
      BY <1>1, <1>4, OneMoreStops
    <2>2. \E k \in 1..Len(argv') : Stops(k)'
      BY <1>3, <2>1
    <2>3. At(Len(argv), "-h")' <=> w = "-h"
      BY <1>2 DEF At
    <2>4. Meaning' = IF w = "-h" THEN "OBSERVER" ELSE "NONE"
      BY <2>2, <2>3 DEF Meaning, Positions
    <2> QED
      BY <1>2, <1>3, <2>4
  <1> QED
    BY <1>2, <1>3, <1>4

LEMMA TwoMoreLast ==
  ASSUME ArgvOK, ReadInv, NEW w \in ValueOptions, NEW v \in Words, ReadWithValue(w, v)
  PROVE  /\ \A k \in 1..(Len(argv') - 1) : ~Stops(k)'
         /\ w = "-c" /\ (Has("-s") \/ Has("-c")) => Meaning' = "NONE"
  <1>1. PICK n \in Nat : n = Len(argv)
    BY DEF ArgvOK
  <1>2. Len(argv') = n + 2 /\ (\A k \in 1..(n + 1) : ~Stops(k)') /\ ~At(n + 2, "-h")'
    BY <1>1, TwoMoreStops
  <1>3. Len(argv') - 1 = n + 1 /\ n + 2 \in 1..Len(argv')
    BY <1>2
  <1>4. CASE w = "-c" /\ (Has("-s") \/ Has("-c"))
    <2>1. Stops(n + 2)'
      BY <1>1, <1>4, TwoMoreStops
    <2>2. \E k \in 1..Len(argv') : Stops(k)'
      BY <1>3, <2>1
    <2>3. ~At(Len(argv), "-h")'
      BY <1>2 DEF At
    <2>4. Meaning' = "NONE"
      BY <2>2, <2>3 DEF Meaning, Positions
    <2> QED
      BY <1>2, <1>3, <2>4
  <1> QED
    BY <1>2, <1>3, <1>4

-----------------------------------------------------------------------------
(* The fields say what the line says.                                      *)
SameFields == \A f \in Fields \ {"files"} : config'[f] = config[f]

LEMMA OneMoreSaid ==
  ASSUME ArgvOK, Whole, SaidInv, role \in {"NONE", "SENDER", "RECEIVER"},
         NEW w \in Words \ ValueOptions, Read(w),
         UNCHANGED <<reading, interface>>, SameFields,
         IF w = "-s" THEN role = "NONE" /\ role' = "RECEIVER" ELSE role' = role
  PROVE  SaidInv'
  <1>1. PICK n \in Nat : n = Len(argv)
    BY DEF ArgvOK
  <1>2. Longer /\ Len(argv') = n + 1 /\ argv'[n + 1] = w
    BY <1>1, OneMore
  <1>3. \A x : Has(x)' <=> Has(x) \/ x = w
    BY <1>1, <1>2, OneMoreSays
  <1>4. \A x \in ValueOptions : \A d : ValueOf(x, d)' = ValueOf(x, d)
    BY <1>1, <1>2, OneMoreValue
  <1>5. {"-c", "-f", "-I", "-P", "-m", "-b"} \subseteq ValueOptions
    BY DEF ValueOptions, Ints
  <1>6. (Has("-c")' <=> Has("-c")) /\ (Has("-f")' <=> Has("-f")) /\ (Has("-s")' <=> Has("-s") \/ w = "-s")
    BY <1>3, <1>5
  <1>7. \A x \in {"-P", "-m", "-b"} : \A d : NumberGiven(x, d)' = NumberGiven(x, d)
    BY <1>4, <1>5 DEF NumberGiven
  <1>8. /\ config'.host = config.host /\ config'.streams = config.streams
        /\ config'.protocol = config.protocol /\ config'.rate = config.rate
    BY DEF SameFields, Fields
  <1>9. (role' \in Senders <=> Has("-c")') /\ (role' = "RECEIVER" <=> Has("-s")') /\ role' # "FILE_RECEIVER"
    BY <1>6 DEF SaidInv, Senders, Receivers
  <1>10. ValueOf("-I", "")' = ValueOf("-I", "")
    BY <1>4, <1>5
  <1>11. /\ NumberGiven("-P", 1)' = NumberGiven("-P", 1) /\ NumberGiven("-m", 0)' = NumberGiven("-m", 0)
         /\ NumberGiven("-b", 0)' = NumberGiven("-b", 0)
    BY <1>7
  <1> QED
    BY <1>6, <1>8, <1>9, <1>10, <1>11 DEF SaidInv

(* Which field an option sets.                                             *)
SetsField(w, v) ==
    /\ config'.host = IF w = "-c" THEN v ELSE config.host
    /\ interface' = IF w = "-I" THEN v ELSE interface
    /\ config'.streams = IF w = "-P" THEN NumberOf[v] ELSE config.streams
    /\ config'.protocol = IF w = "-m" THEN NumberOf[v] ELSE config.protocol
    /\ config'.rate = IF w = "-b" THEN NumberOf[v] ELSE config.rate

LEMMA TwoMoreSaid ==
  ASSUME ArgvOK, Whole, SaidInv, role \in {"NONE", "SENDER", "RECEIVER"},
         NEW w \in ValueOptions, NEW v \in Words, ReadWithValue(w, v),
         reading' <=> reading \/ w = "-f", SetsField(w, v), w \in Ints => IsNumber(v),
         IF w = "-c" THEN role = "NONE" /\ role' = "SENDER" ELSE role' = role
  PROVE  SaidInv'
  <1>1. PICK n \in Nat : n = Len(argv)
    BY DEF ArgvOK
  <1>2. Longer /\ Len(argv') = n + 2 /\ argv'[n + 1] = w /\ argv'[n + 2] = v /\ IsValue'[n + 2]
    BY <1>1, TwoMore
  <1>3. \A x : Has(x)' <=> Has(x) \/ x = w
    BY <1>1, <1>2, TwoMoreSays
  <1>4. \A x \in ValueOptions : \A d : ValueOf(x, d)' = IF x = w THEN v ELSE ValueOf(x, d)
    BY <1>1, <1>2, TwoMoreValue
  <1>5. {"-c", "-f", "-I", "-P", "-m", "-b"} \subseteq ValueOptions /\ {"-P", "-m", "-b"} = Ints
    BY DEF ValueOptions, Ints
  <1>6. w # "-s" /\ v # ""
    BY DEF ValueOptions, Floats, Ints, Words, Options, Singles, Operands
  <1>7. \A x \in {"-P", "-m", "-b"} : \A d :
          NumberGiven(x, d)' = IF x = w THEN NumberOf[v] ELSE NumberGiven(x, d)
    <2> SUFFICES ASSUME NEW x \in {"-P", "-m", "-b"}, NEW d
                 PROVE  NumberGiven(x, d)' = IF x = w THEN NumberOf[v] ELSE NumberGiven(x, d)
      OBVIOUS
    <2>1. ValueOf(x, "")' = IF x = w THEN v ELSE ValueOf(x, "")
      BY <1>4, <1>5
    <2>2. x = w => IsNumber(v)
      BY <1>5
    <2> QED
      BY <2>1, <2>2 DEF NumberGiven
  <1>8. (role' \in Senders <=> Has("-c")') /\ (role' = "RECEIVER" <=> Has("-s")') /\ role' # "FILE_RECEIVER"
    BY <1>3, <1>6 DEF SaidInv, Senders, Receivers
  <1>9. (reading' <=> Has("-f")') /\ (config'.host # "" <=> Has("-c")')
    BY <1>3, <1>6 DEF SaidInv, SetsField
  <1>10. interface' = ValueOf("-I", "")'
    BY <1>4, <1>5 DEF SaidInv, SetsField
  <1>11. /\ config'.streams = NumberGiven("-P", 1)' /\ config'.protocol = NumberGiven("-m", 0)'
         /\ config'.rate = NumberGiven("-b", 0)'
    BY <1>7 DEF SaidInv, SetsField
  <1> QED
    BY <1>8, <1>9, <1>10, <1>11 DEF SaidInv

(* The list of files.                                                      *)
LEMMA FilesFinite ==
  ASSUME ArgvOK
  PROVE  IsFiniteSet(FilePositions) /\ FilePositions \subseteq 1..Len(argv)
  <1>1. Len(argv) \in Nat
    BY DEF ArgvOK
  <1>2. IsFiniteSet(1..Len(argv))
    BY <1>1, FS_Interval
  <1>3. FilePositions \subseteq 1..Len(argv)
    BY DEF FilePositions, Positions
  <1> QED
    BY <1>2, <1>3, FS_Subset

LEMMA SameFiles ==
  ASSUME ArgvOK, FilesInv, Longer, FilePositions' = FilePositions, config'.files = config.files
  PROVE  FilesInv'
  <1>1. \A p \in FilePositions : argv'[p] = argv[p]
    BY FilesFinite DEF Longer
  <1> QED
    BY <1>1 DEF FilesInv

LEMMA MoreFiles ==
  ASSUME ArgvOK, ConfigOK, FilesInv, Longer, NEW p \in Nat, p > Len(argv), NEW v, argv'[p] = v,
         FilePositions' = FilePositions \cup {p}, config'.files = Append(config.files, v), v \in Words
  PROVE  FilesInv'
  <1> DEFINE F == config.files
             m == Len(F)
  <1>0. F \in Seq(Words)
    BY DEF ConfigOK
  <1>1. F \in Seq(Words) /\ m \in Nat
    BY <1>0, LenProperties
  <1>2. /\ Len(config'.files) = m + 1 /\ config'.files[m + 1] = v
        /\ \A k \in 1..m : config'.files[k] = F[k]
    BY <1>1, AppendProperties
  <1>3. \A q \in FilePositions : argv'[q] = argv[q] /\ q # p
    BY FilesFinite DEF Longer
  <1>4. Cardinality(FilePositions') = Cardinality(FilePositions) + 1
    BY <1>3, FilesFinite, FS_AddElement
  <1>5. /\ m = Cardinality(FilePositions)
        /\ \A k \in 1..m : \E q \in FilePositions : argv[q] = F[k]
        /\ \A q \in FilePositions : \E k \in 1..m : argv[q] = F[k]
    BY DEF FilesInv
  <1> HIDE DEF F, m
  <1>6. \A k \in 1..(m + 1) : k \in 1..m \/ k = m + 1
    BY <1>1
  <1>7. \A k \in 1..m : k \in 1..(m + 1)
    BY <1>1
  <1>8. m + 1 \in 1..(m + 1)
    BY <1>1
  <1>9. \A k \in 1..(m + 1) : \E q \in FilePositions' : argv'[q] = config'.files[k]
    BY <1>2, <1>3, <1>5, <1>6
  <1>10. \A q \in FilePositions' : \E k \in 1..(m + 1) : argv'[q] = config'.files[k]
    BY <1>2, <1>3, <1>5, <1>7, <1>8
  <1>11. Len(config'.files) = Cardinality(FilePositions')
    BY <1>2, <1>4, <1>5
  <1>12. /\ \A k \in 1..Len(config'.files) : \E q \in FilePositions' : argv'[q] = config'.files[k]
         /\ \A q \in FilePositions' : \E k \in 1..Len(config'.files) : argv'[q] = config'.files[k]
    BY <1>2, <1>9, <1>10
  <1> QED
    BY <1>11, <1>12 DEF FilesInv

-----------------------------------------------------------------------------
(* The invariant.                                                          *)
AskedInv == Inv /\ ParsedInv /\ RoleAsAsked

LEMMA Shorter ==
  ASSUME NEW n \in Nat, NEW k \in 1..(n - 1)
  PROVE  k \in 1..n
  OBVIOUS

(* A word is read and the line goes on; a word is read that ends it.       *)
LEMMA GoesOn ==
  ASSUME Inv', pc' = "parse", returned' = "", ReadInv', SaidInv', FilesInv'
  PROVE  AskedInv'
  <1>1. Len(argv') \in Nat
    <2>1. argv' \in Seq(Words)
      BY DEF Inv, TypeOK
    <2> QED
      BY <2>1, LenProperties
  <1>2. \A k \in 1..(Len(argv') - 1) : k \in 1..Len(argv')
    <2>1. PICK n \in Nat : n = Len(argv')
      BY <1>1
    <2> QED
      BY <2>1, Shorter
  <1>3. RoleAsAsked'
    BY <1>2 DEF ReadInv, RoleAsAsked, Positions
  <1> QED
    BY <1>3 DEF AskedInv, ParsedInv

LEMMA Ends ==
  ASSUME Inv', pc' \in {"main", "crashed"}, \A k \in 1..(Len(argv') - 1) : ~Stops(k)',
         pc' = "main" => returned' = Meaning', returned' # "FILE_SENDER"
  PROVE  AskedInv'
  BY DEF AskedInv, ParsedInv, RoleAsAsked

LEMMA ParserAsked ==
  ASSUME AskedInv,
         \/ Help \/ Flag \/ NumberArg \/ FloatOverrun \/ Server \/ Client \/ FileArg
         \/ StringArg \/ LogArg \/ MissingValue \/ OtherArg
  PROVE  AskedInv'
  <1>i. Inv'
    BY ParserInv DEF AskedInv
  <1>p. pc = "parse"
    BY DEF Help, Flag, NumberArg, FloatOverrun, Server, Client, FileArg, StringArg, LogArg, MissingValue,
       OtherArg, Parsing
  <1>t. /\ ArgvOK /\ ConfigOK /\ reading \in BOOLEAN
        /\ ReadInv /\ Whole /\ SaidInv /\ FilesInv
        /\ returned = "" /\ role \in {"NONE", "SENDER", "RECEIVER"}
    BY <1>p, TypeParts DEF AskedInv, ParsedInv, ReadInv, Inv, RestOK, EarlyInv, Early, ConfiguredInv
  <1>n. PICK n \in Nat : n = Len(argv)
    <2>1. argv \in Seq(Words)
      BY <1>t DEF ArgvOK
    <2> QED
      BY <2>1, LenProperties
  <1>r. (role = "NONE" <=> ~Has("-s") /\ ~Has("-c")) /\ (reading <=> Has("-f"))
    BY <1>t DEF SaidInv, Senders, Receivers
  <1>u. UNCHANGED config => SameFields /\ config'.files = config.files
    BY DEF SameFields
  <1>f1. ASSUME NEW w \in Words \ Operands, Read(w) PROVE FilePositions' = FilePositions
    <2>1. Longer /\ Len(argv') = n + 1 /\ argv'[n + 1] = w
      BY <1>t, <1>n, <1>f1, OneMore
    <2> QED
      BY <1>n, <2>1, OneMoreSays
  <1>f2. ASSUME NEW w \in ValueOptions \ {"-f"}, NEW v \in Words, ReadWithValue(w, v)
         PROVE  FilePositions' = FilePositions
    <2>1. Longer /\ Len(argv') = n + 2 /\ argv'[n + 1] = w /\ argv'[n + 2] = v /\ IsValue'[n + 2]
      BY <1>t, <1>n, <1>f2, TwoMore
    <2> QED
      BY <1>n, <2>1, TwoMoreSays
  <1>1. CASE Help
    <2>1. Read("-h") /\ "-h" \in Words
      BY <1>1, WordsRead DEF Help, Singles
    <2>2. (\A k \in 1..(Len(argv') - 1) : ~Stops(k)') /\ Meaning' = "OBSERVER"
      BY <1>t, <2>1, OneMoreLast
    <2> QED
      BY <1>i, <1>1, <2>2, Ends DEF Help, Return
  <1>2. CASE Flag
    <2>1. Read("-d") /\ "-d" \in Words /\ "-d" \notin ValueOptions /\ "-d" \notin Operands
      BY <1>2, WordsRead DEF Flag, Singles, ValueOptions, Floats, Ints, Operands
    <2>2. ReadInv'
      BY <1>t, <2>1, OneMoreRead
    <2>3. SaidInv'
      BY <1>t, <1>u, <1>2, <2>1, OneMoreSaid DEF Flag
    <2>4. FilesInv'
      <3>1. FilePositions' = FilePositions
        BY <1>f1, <2>1
      <3>2. Longer
        BY <1>t, <2>1, OneMore
      <3> QED
        BY <1>t, <1>u, <1>2, <3>1, <3>2, SameFiles DEF Flag
    <2> QED
      BY <1>i, <1>p, <1>t, <1>2, <2>2, <2>3, <2>4, GoesOn DEF Flag
  <1>3. CASE NumberArg
    <2>1. PICK w \in Floats \cup Ints, v \in Values :
            /\ ReadWithValue(w, v)
            /\ IF IsNumber(v)
               THEN config' = [config EXCEPT ![NumberField[w]] = NumberOf[v]] /\ UNCHANGED pc
               ELSE pc' = "crashed" /\ UNCHANGED config
      BY <1>3 DEF NumberArg
    <2>2. w \in ValueOptions \ {"-f"} /\ v \in Words /\ w # "-c" /\ w # "-I"
      BY WordsRead DEF ValueOptions, Floats, Ints
    <2>3. CASE IsNumber(v)
      <3>1. config' = [config EXCEPT ![NumberField[w]] = NumberOf[v]] /\ pc' = "parse"
            /\ UNCHANGED <<role, interface, logFile, reading, tests, returned>>
        BY <1>p, <1>3, <2>1, <2>3 DEF NumberArg
      <3>2. config'.files = config.files
        BY <1>t, <2>3, <3>1, NumberOK
      <3>3. SetsField(w, v)
        <4>1. DOMAIN config = Fields
          BY <1>t DEF ConfigOK
        <4> QED
          BY <2>2, <3>1, <4>1 DEF SetsField, NumberField, Floats, Ints, Fields
      <3>4. ReadInv'
        BY <1>t, <2>1, <2>2, <2>3, TwoMoreRead
      <3>5. SaidInv'
        BY <1>t, <2>1, <2>2, <2>3, <3>1, <3>3, TwoMoreSaid
      <3>6. FilesInv'
        <4>1. FilePositions' = FilePositions
          BY <1>f2, <2>1, <2>2
        <4>2. Longer
          BY <1>t, <2>1, <2>2, TwoMore
        <4> QED
          BY <1>t, <3>2, <4>1, <4>2, SameFiles
      <3> QED
        BY <1>i, <1>t, <3>1, <3>4, <3>5, <3>6, GoesOn
    <2>4. CASE ~IsNumber(v)
      <3>1. \A k \in 1..(Len(argv') - 1) : ~Stops(k)'
        BY <1>t, <2>1, <2>2, TwoMoreLast
      <3> QED
        BY <1>i, <1>t, <1>3, <2>1, <2>4, <3>1, Ends DEF NumberArg
    <2> QED
      BY <2>3, <2>4
  <1>4. CASE FloatOverrun
    <2>1. PICK w \in Floats : Read(w)
      BY <1>4 DEF FloatOverrun
    <2>2. w \in Words
      BY WordsRead
    <2>3. \A k \in 1..(Len(argv') - 1) : ~Stops(k)'
      BY <1>t, <2>1, <2>2, OneMoreLast
    <2> QED
      BY <1>i, <1>t, <1>4, <2>3, Ends DEF FloatOverrun
  <1>5. CASE Server
    <2>1. /\ Read("-s") /\ "-s" \in Words /\ "-s" \notin ValueOptions /\ "-s" \notin Operands
          /\ UNCHANGED <<config, interface, logFile, reading, tests>>
      BY <1>5, WordsRead DEF Server, Singles, ValueOptions, Floats, Ints, Operands
    <2>2. CASE role = "NONE"
      <3>1. role' = "RECEIVER" /\ pc' = "parse" /\ returned' = ""
        BY <1>p, <1>t, <1>5, <2>2 DEF Server, SetRole
      <3>2. ReadInv'
        BY <1>t, <1>r, <2>1, <2>2, OneMoreRead
      <3>3. SaidInv'
        BY <1>t, <1>u, <2>1, <2>2, <3>1, OneMoreSaid
      <3>4. FilesInv'
        <4>1. FilePositions' = FilePositions
          BY <1>f1, <2>1
        <4>2. Longer
          BY <1>t, <2>1, OneMore
        <4> QED
          BY <1>t, <1>u, <2>1, <4>1, <4>2, SameFiles
      <3> QED
        BY <1>i, <3>1, <3>2, <3>3, <3>4, GoesOn
    <2>3. CASE role # "NONE"
      <3>1. (\A k \in 1..(Len(argv') - 1) : ~Stops(k)') /\ Meaning' = "NONE"
        BY <1>t, <1>r, <2>1, <2>3, OneMoreLast
      <3> QED
        BY <1>i, <1>5, <2>3, <3>1, Ends DEF Server, SetRole, Return
    <2> QED
      BY <2>2, <2>3
  <1>6. CASE Client
    <2>1. PICK v \in Values : ReadWithValue("-c", v) /\ config' = [config EXCEPT !.host = v]
      BY <1>6 DEF Client
    <2>2. v \in Words /\ "-c" \in ValueOptions \ {"-f"} /\ "-c" \notin Floats \cup Ints
      BY WordsRead DEF ValueOptions, Floats, Ints
    <2>3. CASE role = "NONE"
      <3>1. role' = "SENDER" /\ pc' = "parse" /\ returned' = "" /\ UNCHANGED <<interface, logFile, reading>>
        BY <1>p, <1>t, <1>6, <2>3 DEF Client, SetRole
      <3>2. SetsField("-c", v) /\ config'.files = config.files
        <4>1. DOMAIN config = Fields
          BY <1>t DEF ConfigOK
        <4> QED
          BY <2>1, <3>1, <4>1 DEF SetsField, Fields
      <3>3. ReadInv'
        BY <1>t, <1>r, <2>1, <2>2, <2>3, TwoMoreRead
      <3>4. SaidInv'
        BY <1>t, <2>1, <2>2, <2>3, <3>1, <3>2, TwoMoreSaid
      <3>5. FilesInv'
        <4>1. FilePositions' = FilePositions
          BY <1>f2, <2>1, <2>2
        <4>2. Longer
          BY <1>t, <2>1, <2>2, TwoMore
        <4> QED
          BY <1>t, <3>2, <4>1, <4>2, SameFiles
      <3> QED
        BY <1>i, <3>1, <3>3, <3>4, <3>5, GoesOn
    <2>4. CASE role # "NONE"
      <3>1. (\A k \in 1..(Len(argv') - 1) : ~Stops(k)') /\ Meaning' = "NONE"
        BY <1>t, <1>r, <2>1, <2>2, <2>4, TwoMoreLast
      <3> QED
        BY <1>i, <1>6, <2>4, <3>1, Ends DEF Client, SetRole, Return
    <2> QED
      BY <2>3, <2>4
  <1>7. CASE FileArg
    <2>1. PICK v \in Values : ReadWithValue("-f", v) /\ config' = [config EXCEPT !.files = Append(@, v)]
      BY <1>7 DEF FileArg
    <2>2. v \in Words /\ "-f" \in ValueOptions /\ "-f" \notin Floats \cup Ints
      BY WordsRead DEF ValueOptions, Floats, Ints
    <2>3. reading' = TRUE /\ pc' = "parse" /\ returned' = "" /\ UNCHANGED <<role, interface>>
      BY <1>p, <1>t, <1>7 DEF FileArg
    <2>4. SetsField("-f", v) /\ config'.files = Append(config.files, v)
      <3>1. DOMAIN config = Fields
        BY <1>t DEF ConfigOK
      <3> QED
        BY <2>1, <2>3, <3>1 DEF SetsField, Fields
    <2>5. ReadInv'
      BY <1>t, <2>1, <2>2, TwoMoreRead
    <2>6. SaidInv'
      BY <1>t, <2>1, <2>2, <2>3, <2>4, TwoMoreSaid DEF Ints
    <2>7. FilesInv'
      <3>1. Longer /\ Len(argv') = n + 2 /\ argv'[n + 1] = "-f" /\ argv'[n + 2] = v /\ IsValue'[n + 2]
        BY <1>t, <1>n, <2>1, <2>2, TwoMore
      <3>2. FilePositions' = FilePositions \cup {n + 2}
        BY <1>n, <2>2, <3>1, TwoMoreSays
      <3>3. n + 2 \in Nat /\ n + 2 > Len(argv)
        BY <1>n
      <3> QED
        BY <1>t, <2>2, <2>4, <3>1, <3>2, <3>3, MoreFiles
    <2> QED
      BY <1>i, <2>3, <2>5, <2>6, <2>7, GoesOn
  <1>8. CASE StringArg
    <2>1. PICK v \in Values : ReadWithValue("-I", v) /\ interface' = v
      BY <1>8 DEF StringArg
    <2>2. v \in Words /\ "-I" \in ValueOptions \ {"-f"} /\ "-I" \notin Floats \cup Ints
      BY WordsRead DEF ValueOptions, Floats, Ints
    <2>3. pc' = "parse" /\ returned' = "" /\ UNCHANGED <<role, config, reading>>
      BY <1>p, <1>t, <1>8 DEF StringArg
    <2>4. SetsField("-I", v)
      BY <2>1, <2>3 DEF SetsField
    <2>5. ReadInv'
      BY <1>t, <2>1, <2>2, TwoMoreRead
    <2>6. SaidInv'
      BY <1>t, <2>1, <2>2, <2>3, <2>4, TwoMoreSaid
    <2>7. FilesInv'
      <3>1. FilePositions' = FilePositions
        BY <1>f2, <2>1, <2>2
      <3>2. Longer
        BY <1>t, <2>1, <2>2, TwoMore
      <3> QED
        BY <1>t, <1>u, <2>3, <3>1, <3>2, SameFiles
    <2> QED
      BY <1>i, <2>3, <2>5, <2>6, <2>7, GoesOn
  <1>11. CASE LogArg
    <2>1. PICK v \in Values : ReadWithValue("-l", v)
      BY <1>11 DEF LogArg
    <2>2. v \in Words /\ "-l" \in ValueOptions \ {"-f"} /\ "-l" \notin Floats \cup Ints
      BY WordsRead DEF ValueOptions, Floats, Ints
    <2>3. pc' = "parse" /\ returned' = "" /\ UNCHANGED <<role, config, interface, reading>>
      BY <1>p, <1>t, <1>11 DEF LogArg
    <2>4. SetsField("-l", v)
      BY <2>1, <2>3 DEF SetsField
    <2>5. ReadInv'
      BY <1>t, <2>1, <2>2, TwoMoreRead
    <2>6. SaidInv'
      BY <1>t, <2>1, <2>2, <2>3, <2>4, TwoMoreSaid
    <2>7. FilesInv'
      <3>1. FilePositions' = FilePositions
        BY <1>f2, <2>1, <2>2
      <3>2. Longer
        BY <1>t, <2>1, <2>2, TwoMore
      <3> QED
        BY <1>t, <1>u, <2>3, <3>1, <3>2, SameFiles
    <2> QED
      BY <1>i, <2>3, <2>5, <2>6, <2>7, GoesOn
  <1>9. CASE MissingValue
    <2>1. PICK w \in ValueOptions \ Floats : Read(w)
      BY <1>9 DEF MissingValue
    <2>2. w \in Words /\ w # "-h"
      BY WordsRead DEF ValueOptions, Floats, Ints
    <2>3. (\A k \in 1..(Len(argv') - 1) : ~Stops(k)') /\ Meaning' = "NONE"
      BY <1>t, <2>1, <2>2, OneMoreLast
    <2> QED
      BY <1>i, <1>9, <2>3, Ends DEF MissingValue, Return
  <1>10. CASE OtherArg
    <2>1. PICK w \in Operands : Read(w) /\ BareWord(w)
      BY <1>10 DEF OtherArg
    <2>2. w \in Words /\ w \notin ValueOptions /\ w # "-h" /\ w # "-s"
      BY WordsRead DEF Operands, ValueOptions, Floats, Ints
    <2>3. UNCHANGED <<role, interface, logFile, reading>>
      BY <1>10 DEF OtherArg
    <2>4. CASE reading
      <3>1. config' = [config EXCEPT !.files = Append(@, w)] /\ pc' = "parse" /\ returned' = ""
        BY <1>p, <1>t, <2>1, <2>4 DEF BareWord
      <3>2. SameFields /\ config'.files = Append(config.files, w)
        <4>1. DOMAIN config = Fields
          BY <1>t DEF ConfigOK
        <4> QED
          BY <3>1, <4>1 DEF SameFields, Fields
      <3>3. ReadInv'
        BY <1>t, <1>r, <2>1, <2>2, <2>4, OneMoreRead
      <3>4. SaidInv'
        BY <1>t, <2>1, <2>2, <2>3, <3>2, OneMoreSaid
      <3>5. FilesInv'
        <4>1. Longer /\ Len(argv') = n + 1 /\ argv'[n + 1] = w
          BY <1>t, <1>n, <2>1, <2>2, OneMore
        <4>2. FilePositions' = FilePositions \cup {n + 1}
          BY <1>n, <4>1, OneMoreSays
        <4>3. n + 1 \in Nat /\ n + 1 > Len(argv)
          BY <1>n
        <4> QED
          BY <1>t, <2>2, <3>2, <4>1, <4>2, <4>3, MoreFiles
      <3> QED
        BY <1>i, <3>1, <3>3, <3>4, <3>5, GoesOn
    <2>5. CASE ~reading
      <3>1. (\A k \in 1..(Len(argv') - 1) : ~Stops(k)') /\ Meaning' = "NONE"
        BY <1>t, <1>r, <2>1, <2>2, <2>5, OneMoreLast
      <3> QED
        BY <1>i, <2>1, <2>5, <3>1, Ends DEF BareWord, Return
    <2> QED
      BY <2>4, <2>5
  <1> QED
    BY <1>1, <1>2, <1>3, <1>4, <1>5, <1>6, <1>7, <1>8, <1>9, <1>10, <1>11

(* The steps behind the loop leave the line as it is.                      *)
LEMMA SameLine ==
  ASSUME UNCHANGED argv
  PROVE  /\ \A k : Stops(k)' <=> Stops(k)
         /\ \A x : Has(x)' <=> Has(x)
         /\ \A x, d : ValueOf(x, d)' = ValueOf(x, d)
         /\ \A x, d : NumberGiven(x, d)' = NumberGiven(x, d)
         /\ FilePositions' = FilePositions /\ Meaning' = Meaning
         /\ ReadInv' <=> ReadInv
  <1>1. IsValue' = IsValue
    BY DEF IsValue
  <1>2. /\ \A k : Stops(k)' <=> Stops(k)
        /\ \A k, x : At(k, x)' <=> At(k, x)
        /\ \A x : Has(x)' <=> Has(x)
    BY <1>1 DEF Stops, At, Has, Positions
  <1>3. FilePositions' = FilePositions
    BY <1>1 DEF FilePositions, Positions
  <1>4. \A x, d : ValueOf(x, d)' = ValueOf(x, d)
    BY <1>1 DEF ValueOf, At, Positions
  <1>5. \A x, d : NumberGiven(x, d)' = NumberGiven(x, d)
    BY <1>4 DEF NumberGiven
  <1>6. (ServerLine' <=> ServerLine) /\ (ClientLine' <=> ClientLine) /\ (FileLine' <=> FileLine)
    BY <1>2, <1>3, <1>4, <1>5 DEF ServerLine, ClientLine, FileLine
  <1>7. Meaning' = Meaning
    BY <1>2, <1>6 DEF Meaning, Positions
  <1>8. ReadInv' <=> ReadInv
    BY <1>1, <1>2 DEF ReadInv, Whole, Positions
  <1> QED
    BY <1>2, <1>3, <1>4, <1>5, <1>7, <1>8

(* A line read to its end asks for what Configure finds valid.             *)
LEMMA ConfigureReturns ==
  ASSUME Inv, ParsedInv, pc = "configure"
  PROVE  Meaning = IF Valid THEN role ELSE "NONE"
  <1>1. ReadInv /\ SaidInv /\ FilesInv /\ argv # <<>>
        /\ (role = "FILE_SENDER" <=> role \in Senders /\ config.files # <<>>)
    BY DEF ParsedInv
  <1>2. ~\E k \in Positions : Stops(k)
    BY <1>1 DEF ReadInv
  <1>3. ConfigOK /\ ArgvOK /\ role \in Roles \ {"OBSERVER"}
    BY TypeParts DEF Inv, RestOK
  <1>4. /\ config.files \in Seq(Words) /\ config.streams \in Nat /\ config.rate \in Nat
        /\ config.protocol \in Nat
    BY <1>3 DEF ConfigOK
  <1>5. config.files = <<>> <=> FilePositions = {}
    <2>1. Len(config.files) = Cardinality(FilePositions)
      BY <1>1 DEF FilesInv
    <2>2. config.files = <<>> <=> Len(config.files) = 0
      BY <1>4, EmptySeq
    <2>3. FilePositions = {} <=> Cardinality(FilePositions) = 0
      BY <1>3, FilesFinite, FS_EmptySet
    <2> QED
      BY <2>1, <2>2, <2>3
  <1>6. CASE role \in Receivers
    <2>1. Has("-s") /\ ~Has("-c")
      BY <1>1, <1>6 DEF SaidInv, Senders, Receivers
    <2>3. role = "RECEIVER" /\ role \notin Senders
      BY <1>1, <1>6 DEF SaidInv, Senders, Receivers
    <2>4. HasAddress(interface) <=> ValueOf("-I", "") = "lo"
      BY <1>1 DEF SaidInv, HasAddress
    <2>5. config.rate <= 0 <=> NumberGiven("-b", 0) = 0
      <3>1. config.rate <= 0 <=> config.rate = 0
        BY <1>4
      <3> QED
        BY <1>1, <3>1 DEF SaidInv
    <2>2. Valid <=> ServerLine
      BY <1>5, <1>6, <2>1, <2>3, <2>4, <2>5 DEF Valid, ValidateServerConfig, ServerLine
    <2> QED
      BY <1>2, <2>1, <2>2, <2>3 DEF Meaning, ClientLine, FileLine
  <1>7. CASE role = "SENDER"
    <2>1. Has("-c") /\ ~Has("-s") /\ config.host # ""
      BY <1>1, <1>7 DEF SaidInv, Senders, Receivers
    <2>2. Valid /\ ~ServerLine
      BY <1>7, <2>1 DEF Valid, ValidateClientConfig, ServerLine, Senders
    <2>3. ClientLine
      BY <1>1, <1>5, <1>7, <2>1 DEF ClientLine, Senders
    <2> QED
      BY <1>2, <1>7, <2>2, <2>3 DEF Meaning
  <1>8. CASE role = "FILE_SENDER"
    <2>1. Has("-c") /\ ~Has("-s") /\ config.host # ""
      BY <1>1, <1>8 DEF SaidInv, Senders, Receivers
    <2>2. ~ServerLine /\ ~ClientLine
      BY <1>1, <1>5, <1>8, <2>1 DEF ServerLine, ClientLine, Senders
    <2>3. (\E k \in 1..Len(config.files) : config.files[k] = "file") <=> (\E p \in FilePositions : argv[p] = "file")
      BY <1>1 DEF FilesInv
    <2>4. Len(config.files) = Cardinality(FilePositions) /\ Len(config.files) \in Nat
      BY <1>1, <1>4, LenProperties DEF FilesInv
    <2>5. config.protocol = NumberGiven("-m", 0) /\ config.streams = NumberGiven("-P", 1)
      BY <1>1 DEF SaidInv
    <2>6. Cardinality(FilePositions) \in NumberGiven("-P", 1)..MaxFiles
          <=> Len(config.files) <= MaxFiles /\ Len(config.files) >= config.streams
      BY <1>4, <2>4, <2>5 DEF MaxFiles
    <2>7. ValidateClientConfig <=> FileLine
      BY <1>8, <2>1, <2>3, <2>5, <2>6 DEF ValidateClientConfig, FileLine, Exists
    <2>8. Valid <=> FileLine
      BY <1>8, <2>7 DEF Valid, Senders, Receivers
    <2> QED
      BY <1>2, <1>8, <2>2, <2>8 DEF Meaning
  <1>9. CASE role = "NONE"
    <2>1. ~Has("-c") /\ ~Has("-s") /\ ~Valid
      BY <1>1, <1>9 DEF SaidInv, Senders, Receivers, Valid
    <2> QED
      BY <1>2, <1>9, <2>1 DEF Meaning, ServerLine, ClientLine, FileLine
  <1> QED
    BY <1>3, <1>6, <1>7, <1>8, <1>9 DEF Roles, Senders

LEMMA LaterAsked ==
  ASSUME AskedInv, EndOfArgs \/ LogFails \/ Configure \/ Main \/ Run
  PROVE  AskedInv'
  <1>i. Inv' /\ Inv
    BY LaterInv DEF AskedInv
  <1>a. UNCHANGED <<argv, config, interface, logFile, reading>>
    BY DEF EndOfArgs, LogFails, Configure, Main, Run
  <1>s. /\ \A k : Stops(k)' <=> Stops(k)
        /\ \A x : Has(x)' <=> Has(x)
        /\ \A x, d : ValueOf(x, d)' = ValueOf(x, d)
        /\ \A x, d : NumberGiven(x, d)' = NumberGiven(x, d)
        /\ FilePositions' = FilePositions /\ Meaning' = Meaning
        /\ ReadInv' <=> ReadInv
    BY <1>a, SameLine
  <1>f. FilesInv' <=> FilesInv
    BY <1>a, <1>s DEF FilesInv
  <1>k. \A k \in 1..(Len(argv') - 1) : ~Stops(k)'
    BY <1>a, <1>s DEF AskedInv, RoleAsAsked
  <1>1. CASE EndOfArgs
    <2>1. /\ pc = "parse" /\ returned = "" /\ role \in {"NONE", "SENDER", "RECEIVER"}
          /\ ReadInv /\ SaidInv /\ FilesInv
      BY <1>1 DEF EndOfArgs, Parsing, AskedInv, Inv, EarlyInv, Early, ConfiguredInv, ParsedInv
    <2>2. CASE argv = <<>>
      <3>1. pc' = "main" /\ returned' = "NONE"
        BY <1>1, <2>2 DEF EndOfArgs, Return
      <3>2. Positions = {}
        <4>1. Len(argv) = 0
          BY <2>2, EmptySeq
        <4> QED
          BY <4>1 DEF Positions
      <3>3. Meaning = "NONE"
        BY <3>2 DEF Meaning, ServerLine, ClientLine, FileLine, Has
      <3> QED
        BY <1>i, <1>s, <1>k, <3>1, <3>3, Ends
    <2>3. CASE argv # <<>>
      <3>1. pc' = "configure" /\ returned' = "" /\ role' = FinalRole
        BY <1>1, <2>1, <2>3 DEF EndOfArgs
      <3>2. /\ role' \in Senders <=> role \in Senders
            /\ role' = "RECEIVER" <=> role = "RECEIVER"
            /\ role' # "FILE_RECEIVER"
            /\ role' = "FILE_SENDER" <=> role' \in Senders /\ config.files # <<>>
        BY <2>1, <3>1 DEF FinalRole, Senders, Receivers
      <3>3. SaidInv'
        BY <1>a, <1>s, <2>1, <3>2 DEF SaidInv
      <3>4. ParsedInv'
        BY <1>a, <1>s, <1>f, <2>1, <2>3, <3>1, <3>2, <3>3 DEF ParsedInv
      <3> QED
        BY <1>i, <1>k, <3>1, <3>4 DEF AskedInv, RoleAsAsked
    <2> QED
      BY <2>2, <2>3
  <1>2. CASE Configure
    <2>1. pc = "configure" /\ pc' = "main" /\ returned' = (IF Valid THEN role ELSE "NONE")
      BY <1>2 DEF Configure, Return
    <2>2. returned' = Meaning'
      BY <1>i, <1>s, <2>1, ConfigureReturns DEF AskedInv
    <2>3. FilesInv'
      BY <1>f, <2>1 DEF AskedInv, ParsedInv
    <2> QED
      BY <1>i, <1>k, <2>1, <2>2, <2>3 DEF AskedInv, ParsedInv, FilesInv, RoleAsAsked
  <1>3. CASE Main \/ Run
    <2>1. pc' \in {"RunTest", "RunServer", "done"} /\ returned' = returned
      BY <1>3 DEF Main, Run
    <2> QED
      BY <1>i, <1>a, <1>s, <1>k, <2>1 DEF AskedInv, ParsedInv, RoleAsAsked
  <1>4. CASE LogFails
    <2>1. pc = "configure" /\ pc' = "crashed" /\ returned' = returned
      BY <1>4 DEF LogFails
    <2>2. returned' = ""
      BY <1>i, <2>1 DEF Inv, EarlyInv, Early
    <2> QED
      BY <1>i, <1>k, <2>1, <2>2, Ends
  <1> QED
    BY <1>1, <1>2, <1>3, <1>4

LEMMA AskedInvariance == Spec => []AskedInv
  <1>1. Init => AskedInv
    <2> SUFFICES ASSUME Init PROVE AskedInv
      OBVIOUS
    <2>1. Inv
      BY InitInv
    <2>2. Len(argv) = 0 /\ argv = <<>> /\ Positions = {}
      <3>1. argv = <<>> /\ Len(<<>>) = 0
        BY EmptySeq DEF Init
      <3> QED
        BY <3>1 DEF Positions
    <2>3. ReadInv
      BY <2>2 DEF ReadInv, Whole
    <2>4. (\A x : ~Has(x)) /\ (\A x, d : ValueOf(x, d) = d) /\ FilePositions = {}
      BY <2>2 DEF Has, ValueOf, FilePositions
    <2>5. \A x, d : NumberGiven(x, d) = d
      <3>1. ~IsNumber("")
        BY DEF IsNumber, NumberOf
      <3>2. \A x : ValueOf(x, "") = ""
        BY <2>4
      <3> QED
        BY <3>1, <3>2 DEF NumberGiven
    <2>6. SaidInv
      BY <2>4, <2>5 DEF Init, DefaultConfig, SaidInv, Senders, Receivers
    <2>7. FilesInv
      <3>1. config.files = <<>> /\ Len(<<>>) = 0 /\ Cardinality({}) = 0
        BY EmptySeq, FS_EmptySet DEF Init, DefaultConfig
      <3> QED
        BY <2>4, <3>1 DEF FilesInv
    <2>8. 1..(Len(argv) - 1) = {}
      BY <2>2
    <2>9. pc = "parse" /\ returned = ""
      BY DEF Init
    <2> QED
      BY <2>1, <2>3, <2>6, <2>7, <2>8, <2>9 DEF AskedInv, ParsedInv, RoleAsAsked
  <1>2. AskedInv /\ [Next]_vars => AskedInv'
    <2> SUFFICES ASSUME AskedInv, [Next]_vars PROVE AskedInv'
      OBVIOUS
    <2>1. CASE UNCHANGED vars
      <3>1. Inv'
        BY <2>1 DEF vars, AskedInv, Inv, TypeOK, EarlyInv, Early, ConfiguredInv, ReturnedInv, PlaceInv
      <3>2. /\ \A k : Stops(k)' <=> Stops(k)
            /\ \A x : Has(x)' <=> Has(x)
            /\ \A x, d : ValueOf(x, d)' = ValueOf(x, d)
            /\ \A x, d : NumberGiven(x, d)' = NumberGiven(x, d)
            /\ FilePositions' = FilePositions /\ Meaning' = Meaning
            /\ ReadInv' <=> ReadInv
        BY <2>1, SameLine DEF vars
      <3>3. (SaidInv' <=> SaidInv) /\ (FilesInv' <=> FilesInv)
        BY <2>1, <3>2 DEF vars, SaidInv, FilesInv
      <3>4. ParsedInv'
        BY <2>1, <3>2, <3>3 DEF vars, AskedInv, ParsedInv
      <3> QED
        BY <2>1, <3>1, <3>2, <3>4 DEF vars, AskedInv, RoleAsAsked
    <2> QED
      BY <2>1, ParserAsked, LaterAsked DEF Next
  <1> QED
    BY <1>1, <1>2, PTL DEF Spec

-----------------------------------------------------------------------------
(* Whatever the words of a command line are, the fields they set have      *)
(* their types and there is at most one test.                              *)
THEOREM TypeCorrect == Spec => []TypeOK
  BY Invariance, PTL DEF Inv

(* A role that InitFromArgs has returned is not refused by RunTest or      *)
(* RunServer, which check it a second time, and its test is the one that   *)
(* was validated: a transfer has a file for every stream.                  *)
THEOREM AcceptedRuns == Spec => []AcceptedIsRunnable
  <1>1. Inv => AcceptedIsRunnable
    <2> SUFFICES ASSUME Inv PROVE AcceptedIsRunnable
      OBVIOUS
    <2>1. Cardinality({returned}) = 1
      BY FS_Singleton
    <2> QED
      BY <2>1 DEF Inv, PlaceInv, ReturnedInv, AcceptedIsRunnable, RunTestRefuses, RunServerRefuses
  <1> QED
    BY <1>1, Invariance, PTL

(* InitFromArgs returns the role that the whole line asks for, whatever    *)
(* the order of its options and however values look like options, with     *)
(* the files the line names; and it stops reading at the first word it     *)
(* cannot accept.                                                          *)
THEOREM RoleIsAsked == Spec => []RoleAsAsked
  BY AskedInvariance, PTL DEF AskedInv

==============================================================================

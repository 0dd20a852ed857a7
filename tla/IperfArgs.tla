------------------------------ MODULE IperfArgs ------------------------------
(***************************************************************************)
(* From the command line to the running program: InitFromArgs reads the    *)
(* arguments one by one, validates what they ask for and creates the test  *)
(* of a client; main then calls RunTest or RunServer, each of which checks *)
(* again what it was given.                                                *)
(*                                                                         *)
(* Arguments are words.  One word stands for all options that are treated  *)
(* alike: -d for -d, -r, -C and -T, -I for -I and -L, -P for -P and -p.    *)
(* The operands are two numbers, a file that exists, the name of an        *)
(* interface, a word that is none of these, and a path with a directory.   *)
(***************************************************************************)
EXTENDS Integers, Sequences, FiniteSets

CONSTANTS
    MaxArgs,  \* bound: arguments behind the name of the program
    Offered,  \* words tried where an option can be
    Values    \* words tried as the value of an option

Floats == {"-t", "-i"}
Ints == {"-P", "-m", "-b"}
Singles == {"-h", "-d", "-s"}
ValueOptions == Floats \cup Ints \cup {"-f", "-I", "-l", "-c"}
Options == Singles \cup ValueOptions
Operands == {"0", "2", "file", "lo", "word", "path"}
Words == Options \cup Operands

ASSUME ArgsAssumption ==
    MaxArgs \in Nat /\ Offered \subseteq Words /\ Values \subseteq Words

NumberOf == [w \in {"0", "2"} |-> IF w = "0" THEN 0 ELSE 2]
IsNumber(w) == w \in DOMAIN NumberOf

VARIABLES
    argv,      \* the words read so far
    pc,        \* parse, configure, main, RunTest, RunServer, done, crashed
    role,      \* test_role_
    config,    \* the fields of user_input_config that are asked about
    interface, \* interface_name_; "": not set
    logFile,   \* log_file_; "": not set
    reading,   \* is_reading_vec
    tests,     \* test_tbl_: the roles of the tests in it
    returned   \* what InitFromArgs returned; "": it has not

vars == <<argv, pc, role, config, interface, logFile, reading, tests, returned>>

Senders == {"SENDER", "FILE_SENDER"}
Receivers == {"RECEIVER", "FILE_RECEIVER"}
Roles == Senders \cup Receivers \cup {"NONE", "OBSERVER"}

(* The defaults of TestConfig.                                             *)
DefaultConfig ==
    [time |-> 10, interval |-> 1, streams |-> 1, protocol |-> 0, rate |-> 0,
     host |-> "", files |-> <<>>]

TypeOK ==
    /\ argv \in Seq(Words) /\ Len(argv) <= MaxArgs
    /\ pc \in {"parse", "configure", "main", "RunTest", "RunServer", "done", "crashed"}
    /\ role \in Roles \ {"OBSERVER"}
    /\ DOMAIN config = DOMAIN DefaultConfig
    /\ {config.time, config.interval, config.streams, config.protocol, config.rate} \subseteq Nat
    /\ config.host \in Words \cup {""} /\ config.files \in Seq(Words)
    /\ interface \in Words \cup {""} /\ logFile \in Words \cup {""}
    /\ reading \in BOOLEAN
    /\ tests \subseteq Senders /\ Cardinality(tests) <= 1
    /\ returned \in Roles \cup {""}

Init ==
    /\ argv = <<>> /\ pc = "parse"
    /\ role = "NONE" /\ config = DefaultConfig /\ interface = "" /\ logFile = ""
    /\ reading = FALSE /\ tests = {} /\ returned = ""

-----------------------------------------------------------------------------
(* The loop over argv.  Every action reads one word, or two.               *)

Parsing == pc = "parse"
Return(r) == pc' = "main" /\ returned' = r

(* Read w, and its value v.                                                *)
Read(w) == w \in Offered /\ Len(argv) < MaxArgs /\ argv' = Append(argv, w)
ReadWithValue(w, v) ==
    w \in Offered /\ Len(argv) + 1 < MaxArgs /\ argv' = argv \o <<w, v>>

(* Mutant: -h sets the role and goes on.                                   *)
Help_SetsRole ==
    /\ Parsing /\ Read("-h")
    /\ role' = "OBSERVER"
    /\ UNCHANGED <<pc, config, interface, logFile, reading, tests, returned>>

Help ==
    /\ Parsing /\ Read("-h")
    /\ Return("OBSERVER")
    /\ UNCHANGED <<role, config, interface, logFile, reading, tests>>

Flag ==
    /\ Parsing /\ Read("-d")
    /\ UNCHANGED <<pc, role, config, interface, logFile, reading, tests, returned>>

(* The numbers, by std::stof and std::stoi (int_args_tbl); an exception of *)
(* theirs is not caught.                                                   *)
NumberField ==
    [w \in Floats \cup Ints |->
        CASE w = "-t" -> "time" [] w = "-i" -> "interval" [] w = "-P" -> "streams"
          [] w = "-m" -> "protocol" [] w = "-b" -> "rate"]

NumberArg ==
    /\ Parsing
    /\ \E w \in Floats \cup Ints, v \in Values :
        /\ ReadWithValue(w, v)
        /\ IF IsNumber(v)
           THEN config' = [config EXCEPT ![NumberField[w]] = NumberOf[v]] /\ UNCHANGED pc
           ELSE pc' = "crashed" /\ UNCHANGED config
    /\ UNCHANGED <<role, interface, logFile, reading, tests, returned>>

(* Only -t and -i do not look whether there is a value: std::stof of the   *)
(* null pointer that ends argv.                                            *)
FloatOverrun ==
    /\ Parsing
    /\ \E w \in Floats : Read(w)
    /\ pc' = "crashed"
    /\ UNCHANGED <<role, config, interface, logFile, reading, tests, returned>>

(* Mutant: the second of -s and -c wins.                                   *)
SetRole_Overwrite(r) == role' = r /\ UNCHANGED <<pc, returned>>

(* A role can be set once.                                                 *)
SetRole(r) ==
    IF role = "NONE" THEN role' = r /\ UNCHANGED <<pc, returned>>
    ELSE Return("NONE") /\ UNCHANGED role

Server ==
    /\ Parsing /\ Read("-s")
    /\ SetRole("RECEIVER")
    /\ UNCHANGED <<config, interface, logFile, reading, tests>>

Client ==
    /\ Parsing
    /\ \E v \in Values :
        /\ ReadWithValue("-c", v)
        /\ config' = [config EXCEPT !.host = v]
    /\ SetRole("SENDER")
    /\ UNCHANGED <<interface, logFile, reading, tests>>

(* vec_args_tbl: -f takes the word behind it, whatever it is.              *)
FileArg ==
    /\ Parsing
    /\ \E v \in Values :
        /\ ReadWithValue("-f", v)
        /\ config' = [config EXCEPT !.files = Append(@, v)]
    /\ reading' = TRUE
    /\ UNCHANGED <<pc, role, interface, logFile, tests, returned>>

(* str_args_tbl.                                                           *)
StringArg ==
    /\ Parsing
    /\ \E v \in Values : ReadWithValue("-I", v) /\ interface' = v
    /\ UNCHANGED <<pc, role, config, logFile, reading, tests, returned>>

LogArg ==
    /\ Parsing
    /\ \E v \in Values : ReadWithValue("-l", v) /\ logFile' = v
    /\ UNCHANGED <<pc, role, config, interface, reading, tests, returned>>

MissingValue ==
    /\ Parsing
    /\ \E w \in ValueOptions \ Floats : Read(w)
    /\ Return("NONE")
    /\ UNCHANGED <<role, config, interface, logFile, reading, tests>>

(* Once there was a -f, bare words anywhere are files.                     *)
BareWord(w) ==
    IF reading THEN config' = [config EXCEPT !.files = Append(@, w)] /\ UNCHANGED <<pc, returned>>
    ELSE Return("NONE") /\ UNCHANGED config

OtherArg ==
    /\ Parsing
    /\ \E w \in Operands : Read(w) /\ BareWord(w)
    /\ UNCHANGED <<role, interface, logFile, reading, tests>>

(* With files a sender is a file sender.  Without arguments the function   *)
(* has returned at once.                                                   *)
FinalRole == IF config.files # <<>> /\ role = "SENDER" THEN "FILE_SENDER" ELSE role

EndOfArgs ==
    /\ Parsing
    /\ IF argv = <<>> THEN Return("NONE") /\ UNCHANGED role
       ELSE pc' = "configure" /\ role' = FinalRole /\ UNCHANGED returned
    /\ UNCHANGED <<argv, config, interface, logFile, reading, tests>>

-----------------------------------------------------------------------------
(* The log file, validation, and the test of a client.                     *)

(* The directory of the log file is there or is created.  create_          *)
(* directories throws if it cannot, and for a bare name, whose directory   *)
(* is the empty path; nothing catches it.                                  *)
HasDirectory(w) == w = "path"

LogFails ==
    /\ pc = "configure" /\ logFile # ""
    /\ pc' = "crashed"
    /\ UNCHANGED <<argv, role, config, interface, logFile, reading, tests, returned>>

Exists(w) == w = "file"
MaxFiles == 10

ValidateClientConfig ==
    /\ config.host # ""
    /\ role = "FILE_SENDER" =>
        /\ config.protocol \in {1, 2}
        /\ Len(config.files) <= MaxFiles
        /\ \E k \in 1..Len(config.files) : Exists(config.files[k])
        /\ Len(config.files) >= config.streams

(* ReadIPAddress: "" unless the interface is there.                        *)
HasAddress(w) == w = "lo"

ValidateServerConfig ==
    /\ HasAddress(interface)
    /\ config.files = <<>>
    /\ config.rate <= 0

Valid ==
    \/ role \in Receivers /\ ValidateServerConfig
    \/ role \in Senders /\ ValidateClientConfig

(* Mutant: no test is created for a file sender.                           *)
TestsCreated_Plain == {"SENDER"} \cap {role}

(* A sender of either kind has one test, a receiver has none yet.          *)
TestsCreated == Senders \cap {role}

Configure ==
    /\ pc = "configure"
    /\ logFile = "" \/ HasDirectory(logFile)
    /\ tests' = IF Valid THEN TestsCreated ELSE {}
    /\ Return(IF Valid THEN role ELSE "NONE")
    /\ UNCHANGED <<argv, role, config, interface, logFile, reading>>

-----------------------------------------------------------------------------
(* main of iperf.cc, and the checks of RunTest and RunServer.              *)

Main ==
    /\ pc = "main"
    /\ pc' = IF returned \in Senders THEN "RunTest"
             ELSE IF returned \in Receivers THEN "RunServer" ELSE "done"
    /\ UNCHANGED <<argv, role, config, interface, logFile, reading, tests, returned>>

RunTestRefuses == role \notin Senders \/ Cardinality(tests) # 1
RunServerRefuses == role \notin Receivers

(* What they do then is the other modules' subject.                        *)
Run ==
    /\ pc \in {"RunTest", "RunServer"}
    /\ pc' = "done"
    /\ UNCHANGED <<argv, role, config, interface, logFile, reading, tests, returned>>

Next ==
    \/ Help \/ Flag \/ NumberArg \/ FloatOverrun \/ Server \/ Client \/ FileArg
    \/ StringArg \/ LogArg \/ MissingValue \/ OtherArg \/ EndOfArgs
    \/ LogFails \/ Configure \/ Main \/ Run

Spec == Init /\ [][Next]_vars

-----------------------------------------------------------------------------
(* What a command line means, said of all of it at once.                   *)

(* Position k is the value of the option before it.                        *)
IsValue[k \in 1..MaxArgs] == k > 1 /\ argv[k - 1] \in ValueOptions /\ ~IsValue[k - 1]

At(k, w) == argv[k] = w /\ ~IsValue[k]
Positions == 1..Len(argv)
Has(w) == \E k \in Positions : At(k, w)

(* The last value given to option w.                                       *)
ValueOf(w, default) ==
    LET given == {k \in Positions : k < Len(argv) /\ At(k, w)}
    IN  IF given = {} THEN default
        ELSE argv[(CHOOSE k \in given : \A j \in given : j <= k) + 1]

NumberGiven(w, default) ==
    LET v == ValueOf(w, "") IN IF IsNumber(v) THEN NumberOf[v] ELSE default

(* The words that name files: those behind -f, and every bare word.        *)
FilePositions ==
    {k \in Positions : (IsValue[k] /\ argv[k - 1] = "-f") \/ (~IsValue[k] /\ argv[k] \in Operands)}

(* A word that stops the reading.                                          *)
Stops(k) ==
    \/ At(k, "-h")
    \/ k = Len(argv) /\ ~IsValue[k] /\ argv[k] \in ValueOptions
    \/ /\ At(k, "-s") \/ (IsValue[k] /\ argv[k - 1] = "-c")
       /\ \E j \in 1..(k - 1) : At(j, "-s") \/ (IsValue[j] /\ argv[j - 1] = "-c")
    \/ ~IsValue[k] /\ argv[k] \in Operands /\ ~\E j \in 1..(k - 1) : At(j, "-f")
    \/ IsValue[k] /\ argv[k - 1] \in Floats \cup Ints /\ ~IsNumber(argv[k])

(* A command line for a server, a client, and a client that sends files.   *)
ServerLine == Has("-s") /\ ValueOf("-I", "") = "lo" /\ FilePositions = {} /\ NumberGiven("-b", 0) = 0
ClientLine == Has("-c") /\ FilePositions = {}
FileLine ==
    /\ Has("-c")
    /\ NumberGiven("-m", 0) \in {1, 2}
    /\ \E k \in FilePositions : argv[k] = "file"
    /\ Cardinality(FilePositions) \in NumberGiven("-P", 1)..MaxFiles

Meaning ==
    IF \E k \in Positions : Stops(k) THEN IF At(Len(argv), "-h") THEN "OBSERVER" ELSE "NONE"
    ELSE IF ServerLine THEN "RECEIVER"
    ELSE IF ClientLine THEN "SENDER"
    ELSE IF FileLine THEN "FILE_SENDER"
    ELSE "NONE"

-----------------------------------------------------------------------------
(* Properties.                                                             *)

(* InitFromArgs returns the role the whole command line asks for, in       *)
(* whatever order its options are given, with the files it names; and it   *)
(* stops reading at the first word it cannot accept.                       *)
RoleAsAsked ==
    /\ \A k \in 1..(Len(argv) - 1) : ~Stops(k)
    /\ pc = "main" => returned = Meaning
    /\ returned = "FILE_SENDER" =>
        /\ Len(config.files) = Cardinality(FilePositions)
        /\ \A k \in 1..Len(config.files) : \E p \in FilePositions : argv[p] = config.files[k]

(* Once InitFromArgs has returned a role, RunTest and RunServer do not     *)
(* refuse it, and the test that was created is of that role: a transfer    *)
(* with a file to send for every stream, a throughput test without files.  *)
AcceptedIsRunnable ==
    /\ pc = "RunTest" =>
        /\ ~RunTestRefuses /\ tests = {returned}
        /\ IF returned = "FILE_SENDER" THEN Len(config.files) >= config.streams
           ELSE config.files = <<>>
    /\ pc = "RunServer" => ~RunServerRefuses /\ tests = {}

-----------------------------------------------------------------------------
(* What the code does not do.                                              *)

(* Usage, "-t <time>": no option takes a value that is not there.          *)
ValuesAreThere == pc = "crashed" => argv[Len(argv)] \notin ValueOptions \/ IsValue[Len(argv)]

(* "-l <logfile> : Log file to write iperf output": a command line that    *)
(* names a log file without a directory is read to its end.                *)
LogFileIsUsed == pc = "crashed" /\ logFile # "" => HasDirectory(logFile)

(* "-P <num_streams> : Number of parallel streams": a test that runs has   *)
(* a stream.                                                               *)
TestHasStream == pc = "RunTest" => config.streams > 0

(* "-i <interval>": the ticks in an interval, by which TestFinishState and *)
(* CheckStreamIntervalReceive divide, are not 0.                           *)
IntervalHasTicks == pc = "RunTest" /\ returned = "SENDER" => config.interval > 0
=============================================================================

----------------------------- MODULE MCUtilities -----------------------------
(***************************************************************************)
(* The sequential components in one model for TLC: configuration, logging, *)
(* buffers, timers, texts.  They share nothing here: the initial state     *)
(* selects one, the others do not run, and so the same variables serve all *)
(* of them.                                                                *)
(***************************************************************************)
EXTENDS Integers, Sequences

CONSTANTS
    Names, LoggingNames, Values, MaxLines, IntOf,       \* Config and Main
    LoggerNames, Types, SinkNames, Levels, MaxLoads,    \* Log
    Buffers, Bytes, MaxSize,                            \* MessageBuffer
    Half, MaxTick, MaxPeriod, MaxNow,                   \* Timer
    Minute, Hour, Hours, MaxTime, MaxClock, Offsets, PackedDays     \* LocalTime

VARIABLES part, u1, u2, u3, u4, u5, u6, u7, u8, u9

utilitiesVars == <<part, u1, u2, u3, u4, u5, u6, u7, u8, u9>>

\* Main extends Config, which is used alone, too.
Main == INSTANCE Main WITH
    configOptions <- u1, usingDistConfig <- u2, load <- u3, outcome <- u4, text <- u5, before <- u6,
    pc <- u7, port <- u8

Log == INSTANCE Log WITH
    loggers <- u1, sinkList <- u2, lowestLogLevel <- u3, pc <- u4, keys <- u5, loads <- u6,
    named <- u7, made <- u8

MessageBuffer == INSTANCE MessageBuffer WITH buffer <- u1, unread <- u2

ByteBuffer == INSTANCE ByteBuffer WITH
    Base <- 4, GuidBytes <- 2, NotUtf8 <- {3}, MaxSize <- 4,
    storage <- u1, rpos <- u2, wpos <- u3, stream <- u4, values <- u5, result <- u6, placed <- u7

Timer == INSTANCE Timer WITH
    now <- u1, last <- u2, elapsed <- u3, interval <- u4, small <- u5, periodic <- u6,
    start <- u7, long <- u8, wide <- u9

\* Small radixes, so that every pattern of zero parts occurs.
TimeString == INSTANCE TimeString WITH
    Radix <- <<3, 3, 2, 2, 3>>, Word <- 1024, Half <- 32,
    asked <- u1, duration <- u2, unit <- u3, out <- u4

LocalTime == INSTANCE LocalTime WITH
    MaxNow <- MaxClock,
    now <- u1, zone <- u2, time <- u3, read <- u4, call <- u5, stamp <- u6, packed <- u7, unpacked <- u8,
    moment <- u9

Tokenize == INSTANCE Tokenize WITH
    Letters <- {"a", "b"}, MaxLength <- 6,
    str <- u1, keepEmpty <- u2, start <- u3, tokens <- u4, done <- u5

StringConvert == INSTANCE StringConvert WITH
    MaxLength <- 4, Word <- 256,
    asked <- u1, text <- u2, base <- u3, step <- u4, result <- u5

ASSUME UtilitiesAssumption ==
    /\ Main!MainAssumption
    /\ Log!LogAssumption
    /\ MessageBuffer!BufferAssumption
    /\ Timer!TimerAssumption
    /\ LocalTime!LocalTimeAssumption

NotUsed == <<>>

UtilitiesInit ==
    \/ part = "Config" /\ Main!Init /\ u7 = NotUsed /\ u8 = NotUsed /\ u9 = NotUsed
    \/ part = "Main" /\ Main!MainInit /\ u9 = NotUsed
    \/ part = "Log" /\ Log!Init /\ u9 = NotUsed
    \/ /\ part = "MessageBuffer" /\ MessageBuffer!Init
       /\ u3 = NotUsed /\ u4 = NotUsed /\ u5 = NotUsed /\ u6 = NotUsed /\ u7 = NotUsed /\ u8 = NotUsed /\ u9 = NotUsed
    \/ part = "ByteBuffer" /\ ByteBuffer!Init /\ u8 = NotUsed /\ u9 = NotUsed
    \/ part = "Timer" /\ Timer!Init
    \/ /\ part = "TimeString" /\ TimeString!Init
       /\ u5 = NotUsed /\ u6 = NotUsed /\ u7 = NotUsed /\ u8 = NotUsed /\ u9 = NotUsed
    \/ part = "LocalTime" /\ LocalTime!Init
    \/ part = "Tokenize" /\ Tokenize!Init /\ u6 = NotUsed /\ u7 = NotUsed /\ u8 = NotUsed /\ u9 = NotUsed
    \/ part = "StringConvert" /\ StringConvert!Init /\ u6 = NotUsed /\ u7 = NotUsed /\ u8 = NotUsed /\ u9 = NotUsed

UtilitiesNext ==
    /\ \/ part = "Config" /\ Main!Next /\ UNCHANGED <<u7, u8, u9>>
       \/ part = "Main" /\ Main!MainNext /\ UNCHANGED u9
       \/ part = "Log" /\ Log!Next /\ UNCHANGED u9
       \/ part = "MessageBuffer" /\ MessageBuffer!Next /\ UNCHANGED <<u3, u4, u5, u6, u7, u8, u9>>
       \/ part = "ByteBuffer" /\ ByteBuffer!Next /\ UNCHANGED <<u8, u9>>
       \/ part = "Timer" /\ Timer!Tick
       \/ part = "TimeString" /\ TimeString!Next /\ UNCHANGED <<u5, u6, u7, u8, u9>>
       \/ part = "LocalTime" /\ LocalTime!Next
       \/ part = "Tokenize" /\ Tokenize!Next /\ UNCHANGED <<u6, u7, u8, u9>>
       \/ part = "StringConvert" /\ StringConvert!Next /\ UNCHANGED <<u6, u7, u8, u9>>
    /\ UNCHANGED part

UtilitiesSpec == UtilitiesInit /\ [][UtilitiesNext]_utilitiesVars

-----------------------------------------------------------------------------
\* When LoadAppConfigs has ended well, the options are the layers of its two
\* files, in whatever order an unordered_map gives their entries out.  When
\* LoadAdditionalFile fails, after whatever it has read, it has changed no
\* option; LoadInitial, failing, leaves none.
ConfigLayered == part = "Config" => Main!Layered /\ Main!AllOrNothing

\* A server that listens has read a whole .dist file, and its port is the one
\* the two files ask for, in the range of TCP's ports (0 among them), or main()'s
\* default.
PortAsConfigured == part = "Main" => Main!PortAsConfigured

\* A message is judged by the level of the most specific logger registered for
\* its type: the shortcut by lowestLogLevel silences no logger, whatever the
\* order in which loggers were made, also in the middle of a reload, but for
\* the moment between the two first lines of LoadFromConfig.
MessagesJudged == part = "Log" => Log!MostSpecificLogger /\ Log!ShortcutSound

\* No sink is lost on its way from _sinkList to a logger that lists it.
SinksServed == part = "Log" => Log!SinkServed

\* Any sequence of operations on two MessageBuffers, among them moving and
\* growing, leaves exactly the unread bytes between positions in the storage.
UnreadKept == part = "MessageBuffer" => MessageBuffer!InBounds /\ MessageBuffer!UnreadIntact

\* What was written to a ByteBuffer is what is read, kind by kind, and no read
\* of any bytes at any position, one behind the end included, moves the read
\* position out of the storage.
BytesComeBack == part = "ByteBuffer" => ByteBuffer!RoundTrip /\ ByteBuffer!ReadsInside

\* Over several wraps of the millisecond clock, with ticks of any length below
\* its range: the loop loses one millisecond a wrap, interval timers do not
\* drift, trackers pass exactly at their time, and a periodic timer is not due
\* twice at once; the two with int32 times as long as no tick was too long for
\* one.  The next local hour is after the time asked about and at most a day
\* away, and the local clock shows it there, but for a change of the offset in
\* between.  Fields read one after the other belong to one moment; where that
\* is now, as long as no hour begins.  A time packed into a buffer comes back
\* as its minute, but for summer time and the 32 years.
TimersExact ==
    /\ part = "Timer" => /\ Timer!OneLostPerWrap /\ Timer!IntervalNoDrift
                         /\ Timer!TrackersExact /\ Timer!PeriodicDue
    /\ part = "LocalTime" =>
           LocalTime!NextHour /\ LocalTime!HourSharp /\ LocalTime!FieldsOfOneMoment
           /\ LocalTime!PackedTimeBack

\* Tokens put together give the string, or are its runs; only a whole numeral
\* in the range of the type is converted, to its value; and the text of a
\* duration that fits its word never overstates it, leaves out less than the
\* smallest unit it shows, and, where it names the units, can be read in one
\* way only.
TextExact ==
    /\ part = "Tokenize" => Tokenize!JoinGivesString /\ Tokenize!TokensAreRuns
    /\ part = "StringConvert" => StringConvert!AcceptedIsNumeral /\ StringConvert!RoundTrip
    /\ part = "TimeString" => TimeString!ShownIsFloor /\ TimeString!PartsInRange
-----------------------------------------------------------------------------
(* Values for TLC.  Numbers as values of options: a word, zero, a port,    *)
(* and one that is too large.  Loggers: the root, one and another below    *)
(* it, and types of one and of three parts.  Offsets: a zone that is       *)
(* behind, one that is ahead, and the change between them.                 *)
MCIntOf == [word |-> {}, zero |-> {0}, port |-> {6000}, large |-> {70000}]
MCLoggerNames == {<<"root">>, <<"network">>, <<"network", "buffer">>}
MCOffsets == {-4, 0, 4}
MCTypes == MCLoggerNames \cup {<<"config">>, <<"network", "buffer", "read">>}
=============================================================================

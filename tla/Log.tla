--------------------------------- MODULE Log ---------------------------------
(***************************************************************************)
(* Log: loggers and sinks made from the options Sink.* and Logger.*, and   *)
(* the choice of a logger for a message.  LoadFromConfig runs on one       *)
(* thread, but the options come out of an unordered_map, in any order, so  *)
(* each option is a step; other threads may ask for a logger between any   *)
(* two of them.  The options may be others at each load; what an option    *)
(* says is chosen when it is looked at.                                    *)
(*                                                                         *)
(* A logger's name, and the type of a message, is the sequence of its      *)
(* parts, <<"network", "buffer">> for "network.buffer".  The loggers are   *)
(* those of spdlog's registry.  A sink is an object that has the console   *)
(* or a file open, known by its name and the load that made it.            *)
(***************************************************************************)
EXTENDS Naturals, SequencesExt

CONSTANTS
    LoggerNames,    \* names of loggers that options may define
    Types,          \* the types of messages, closed under dropping the last part
    SinkNames,      \* names of sinks that options may define
    Levels,         \* the levels that options of loggers give; LevelMax for a wrong one
    MaxLoads        \* bound on the number of loads

Root == <<"root">>

LogAssumption ==
    /\ Types \subseteq Seq(STRING) /\ <<>> \notin Types /\ Root \in Types
    /\ \A t \in Types : Len(t) > 1 => Front(t) \in Types
    /\ LoggerNames \subseteq Seq(STRING) /\ <<>> \notin LoggerNames
    /\ Levels \subseteq 0..7
    /\ MaxLoads \in Nat

None == <<>>
Trace == 0
Critical == 5
Disabled == 6
LevelMax == 7

VARIABLES
    loggers,        \* the registered loggers: level and sinks
    sinkList,       \* _sinkList: the sink that the pointer of each name holds
    lowestLogLevel, \* lowestLogLevel
    pc,             \* where LoadFromConfig is, "idle", or "aborted"
    keys,           \* the options LoadFromConfig has still to look at
    loads,          \* how often LoadFromConfig was called
    named,          \* history: the sinks that the option of each registered logger names
    made            \* history: the sinks of this load that were made

vars == <<loggers, sinkList, lowestLogLevel, pc, keys, loads, named, made>>

Null == [name |-> "", load |-> 0]       \* a null shared_ptr
Sinks == [name : SinkNames, load : 1..MaxLoads]
Nothing == [n \in {} |-> Null]

(* What can be wrong with the option of a sink: nothing, for either type;  *)
(* something that is reported and skipped (too few or too many parts, an   *)
(* unknown type or level, no pattern); an empty Option2, and anything else *)
(* among Option1 to Option4 of a file sink.                                *)
SinkOptions == {"console", "file", "wrong", "no rotate", "bad file"}

TypeOK ==
    /\ DOMAIN loggers \subseteq LoggerNames
    /\ \A l \in DOMAIN loggers : /\ loggers[l].level \in Trace..Disabled
                                 /\ loggers[l].sinks \subseteq Sinks
    /\ DOMAIN sinkList \subseteq SinkNames
    /\ \A s \in DOMAIN sinkList : sinkList[s] \in Sinks \cup {Null}
    /\ lowestLogLevel \in Trace..Critical
    /\ pc \in {"idle", "clear", "sinks", "loggers", "aborted"}
    /\ keys \subseteq SinkNames \/ keys \subseteq LoggerNames
    /\ loads \in 0..MaxLoads
    /\ DOMAIN named = DOMAIN loggers
    /\ made \subseteq Sinks

Init ==
    /\ loggers = Nothing
    /\ sinkList = Nothing
    /\ lowestLogLevel = Critical
    /\ pc = "idle"
    /\ keys = {}
    /\ loads = 0
    /\ named = Nothing
    /\ made = {}

-----------------------------------------------------------------------------
LoadFromConfig ==
    /\ pc = "idle" /\ loads < MaxLoads
    /\ loads' = loads + 1
    /\ lowestLogLevel' = Critical
    /\ made' = {}
    /\ pc' = "clear"
    /\ UNCHANGED <<loggers, sinkList, keys, named>>

(* spdlog::shutdown() drops the loggers, and with them their sinks.        *)
Clear ==
    /\ pc = "clear"
    /\ loggers' = Nothing /\ sinkList' = Nothing /\ named' = Nothing
    /\ \E found \in SUBSET SinkNames : keys' = found
    /\ pc' = "sinks"
    /\ UNCHANGED <<lowestLogLevel, loads, made>>

AddSink(name, sink) ==
    sinkList' = IF name \in DOMAIN sinkList
                THEN sinkList
                ELSE [s \in DOMAIN sinkList \cup {name} |->
                        IF s = name THEN sink ELSE sinkList[s]]

(* CreateSinksFromConfig: the file or the console may fail to open, which  *)
(* is reported and leaves no sink; a bad file option ends the process.     *)
CreateSinksFromConfig ==
    /\ pc = "sinks"
    /\ \E name \in keys, option \in SinkOptions, opens \in BOOLEAN :
         LET sink == [name |-> name, load |-> loads] IN
         /\ keys' = keys \ {name}
         /\ IF option \in {"console", "file"} /\ opens
            THEN AddSink(name, sink) /\ made' = made \cup {sink}
            ELSE UNCHANGED <<sinkList, made>>
         /\ IF option \in {"no rotate", "bad file"}
            THEN pc' = "aborted"
            ELSE UNCHANGED pc
    /\ UNCHANGED <<loggers, lowestLogLevel, loads, named>>

\* Mutant of ReadSinksEnds: the list is cleared too early.
ReadSinksEndsClears ==
    /\ pc = "sinks" /\ keys = {}
    /\ \E found \in SUBSET LoggerNames : keys' = found
    /\ pc' = "loggers"
    /\ sinkList' = Nothing
    /\ UNCHANGED <<loggers, lowestLogLevel, loads, named, made>>

ReadSinksEnds ==
    /\ pc = "sinks" /\ keys = {}
    /\ \E found \in SUBSET LoggerNames : keys' = found
    /\ pc' = "loggers"
    /\ UNCHANGED <<loggers, sinkList, lowestLogLevel, loads, named, made>>

-----------------------------------------------------------------------------
(* GetSink moves the pointer out of _sinkList: who asks again, for another *)
(* logger or because a name is twice in the list, gets null, which is left *)
(* out.  The sinks of a logger are those of the names in its list that no  *)
(* logger has taken yet.                                                   *)

GetSink(name) == IF name \in DOMAIN sinkList THEN sinkList[name] ELSE Null

Taken(list) == {GetSink(name) : name \in list} \ {Null}

SinksTaken(list) == [s \in DOMAIN sinkList |-> IF s \in list THEN Null ELSE sinkList[s]]

Registered(name, logger) ==
    [l \in DOMAIN loggers \cup {name} |-> IF l = name THEN logger ELSE loggers[l]]

\* Mutant of Lower: the comparison is the wrong way round.
LowerInverted(level) == IF level > lowestLogLevel THEN level ELSE lowestLogLevel

Lower(level) == IF level < lowestLogLevel THEN level ELSE lowestLogLevel

(* An empty option, one with fewer than two parts and one with a wrong     *)
(* level are reported and skipped.  lowestLogLevel is lowered before the   *)
(* logger is registered.                                                   *)
CreateLoggerFromConfig ==
    /\ pc = "loggers"
    /\ \E name \in keys, level \in Levels, list \in SUBSET SinkNames :
         /\ keys' = keys \ {name}
         /\ IF level < LevelMax
            THEN /\ lowestLogLevel' = Lower(level)
                 /\ loggers' = Registered(name, [level |-> level, sinks |-> Taken(list)])
                 /\ named' = [l \in DOMAIN named \cup {name} |->
                                IF l = name THEN list ELSE named[l]]
                 /\ sinkList' = SinksTaken(list)
            ELSE UNCHANGED <<lowestLogLevel, loggers, named, sinkList>>
    /\ UNCHANGED <<pc, loads, made>>

(* LoadFromConfig clears the list: the sinks that no logger took are       *)
(* closed.                                                                 *)
LoadEnds ==
    /\ pc = "loggers" /\ keys = {}
    /\ sinkList' = Nothing
    /\ pc' = "idle"
    /\ UNCHANGED <<loggers, lowestLogLevel, keys, loads, named, made>>

Next ==
    \/ LoadFromConfig
    \/ Clear
    \/ CreateSinksFromConfig
    \/ ReadSinksEnds
    \/ CreateLoggerFromConfig
    \/ LoadEnds

Spec == Init /\ [][Next]_vars

-----------------------------------------------------------------------------
(* GetLoggerByType: the logger of that name, or of what is left of the     *)
(* name without its last part, and so on, and in the end the root.         *)

GetLoggerByType(type) ==
    LET get[t \in Types] ==
            IF t \in DOMAIN loggers THEN t
            ELSE IF t = Root THEN None
            ELSE IF Len(t) > 1 THEN get[Front(t)] ELSE get[Root]
    IN get[type]

Enabled(name, level) ==
    /\ name # None
    /\ loggers[name].level # Disabled
    /\ loggers[name].level <= level

ShouldLog(type, level) ==
    /\ level >= lowestLogLevel
    /\ Enabled(GetLoggerByType(type), level)

-----------------------------------------------------------------------------
(* ShouldLog does not look for a logger when the level is below            *)
(* lowestLogLevel.  That never silences a logger, whatever the order in    *)
(* which loggers were made, in the middle of a load and after reloading,   *)
(* but for one moment: LoadFromConfig raises lowestLogLevel before it      *)
(* drops the loggers, and until it does those of the last load are silent  *)
(* below Critical.                                                         *)
ShortcutSound ==
    pc # "clear" =>
        \A type \in Types, level \in Trace..Critical :
            Enabled(GetLoggerByType(type), level) => ShouldLog(type, level)

(* A message goes to the registered logger whose name is its longest       *)
(* prefix, to the root only when there is none, and nowhere only when      *)
(* there is no root either.                                                *)
MostSpecificLogger ==
    \A type \in Types :
        LET prefixes == {l \in DOMAIN loggers : IsPrefix(l, type)}
            logger == GetLoggerByType(type)
        IN IF prefixes # {} THEN /\ logger \in prefixes
                                 /\ \A l \in prefixes : Len(l) <= Len(logger)
           ELSE logger = IF Root \in DOMAIN loggers THEN Root ELSE None

(* When a load has ended, a sink that was made and that the option of some *)
(* logger names is held by one of the loggers that name it.                *)
SinkServed ==
    pc = "idle" =>
        \A s \in made :
            (\E l \in DOMAIN loggers : s.name \in named[l]) =>
                \E l \in DOMAIN loggers : s.name \in named[l] /\ s \in loggers[l].sinks

(* The configuration file says that the sinks a logger lists are linked to *)
(* it: when a load has ended, each logger has those of its sinks that were *)
(* made.                                                                   *)
SinksLinked ==
    pc = "idle" =>
        \A l \in DOMAIN loggers, s \in made : s.name \in named[l] => s \in loggers[l].sinks

=============================================================================

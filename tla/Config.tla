------------------------------- MODULE Config -------------------------------
(***************************************************************************)
(* ConfigMgr: the options of the server, read from a .dist file with every *)
(* option and from the administrator's .conf file, which may change them.  *)
(* A load holds _configLock from its beginning to its end; it is cut into  *)
(* steps because the options of a file are added in the order of an        *)
(* unordered_map, which is any order.  Files may change between loads, so  *)
(* what a file contains is chosen line by line while it is read.           *)
(*                                                                         *)
(* A line is an option with its value (white space, quotes and a trailing  *)
(* comment removed), a line that is skipped (empty, comment, section, or   *)
(* without '='), or one on which the stream breaks.                        *)
(***************************************************************************)
EXTENDS Naturals, Sequences

CONSTANTS
    Names,          \* the names of options
    LoggingNames,   \* those that contain "Sink." or "Logger."
    Values,         \* their values
    MaxLines        \* bound on the length of a file

ConfigAssumption == LoggingNames \subseteq Names /\ MaxLines \in Nat

VARIABLES
    configOptions,      \* _configOptions
    usingDistConfig,    \* _usingDistConfig
    load,               \* the load in progress, or Idle
    outcome,            \* what the last LoadAppConfigs, or the last load, did
    text,               \* history: what the call in progress, or the last one, read of each file
    before              \* history: the options when that call began

vars == <<configOptions, usingDistConfig, load, outcome, text, before>>

Dist == "dist"
Conf == "conf"
Skipped == [kind |-> "skipped"]
Unreadable == [kind |-> "unreadable"]
Idle == [phase |-> "idle"]
Missing == <<[kind |-> "missing"]>>
NotRead == [f \in {Dist, Conf} |-> <<>>]
NoOptions == [n \in {} |-> ""]

Entries == [kind : {"option"}, name : Names, value : Values]
Lines == Entries \cup {Skipped, Unreadable}
Texts == {Missing} \cup UNION {[1..n -> Lines] : n \in 0..MaxLines}
Options == UNION {[N -> Values] : N \in SUBSET Names}
Outcomes == {"none", "appConfigs", "loaded", "failed", "wiped"}
Phases == {"reading", "adding"}
Calls == {"app", "initial", "additional"}
Loads == [phase : Phases, call : Calls, file : {Dist, Conf}, isOptional : BOOLEAN,
          isReload : BOOLEAN, fileConfigs : Options]

TypeOK ==
    /\ configOptions \in Options
    /\ usingDistConfig \in BOOLEAN
    /\ load \in Loads \cup {Idle}
    /\ outcome \in Outcomes
    /\ text \in [{Dist, Conf} -> Texts]
    /\ before \in Options

IsLoggingSystemOptions(name) == name \in LoggingNames

Init ==
    /\ configOptions = NoOptions
    /\ usingDistConfig = FALSE
    /\ load = Idle
    /\ outcome = "none"
    /\ text = NotRead
    /\ before = NoOptions

-----------------------------------------------------------------------------
(* LoadFile returned false.  LoadAppConfigs gives up when the .dist file   *)
(* fails, and only remembers it when the .conf file does.  LoadInitial has *)
(* cleared the options by then.                                            *)
LoadFailed(call, file) ==
    /\ load' = Idle
    /\ usingDistConfig' = (usingDistConfig \/ (call = "app" /\ file = Conf))
    /\ outcome' = CASE call = "additional" -> "failed"
                    [] call = "app" /\ file = Conf -> "appConfigs"
                    [] OTHER -> "wiped"

(* ParseFile opens the file.  An optional file may be missing; any other   *)
(* missing one throws, which LoadFile turns into false as well.            *)
LoadFile(call, file, isOptional, isReload, read) ==
    \/ /\ load' = [phase |-> "reading", call |-> call, file |-> file, isOptional |-> isOptional,
                    isReload |-> isReload, fileConfigs |-> NoOptions]
       /\ outcome' = "none"
       /\ text' = [read EXCEPT ![file] = <<>>]
       /\ UNCHANGED usingDistConfig
    \/ /\ LoadFailed(call, file)
       /\ text' = [read EXCEPT ![file] = Missing]

LoadInitial(call, isReload) ==
    /\ load = Idle
    /\ before' = configOptions
    /\ configOptions' = NoOptions
    /\ LoadFile(call, Dist, FALSE, isReload, NotRead)

LoadAdditionalFile(file, isOptional, isReload) ==
    /\ load = Idle
    /\ before' = configOptions
    /\ LoadFile("additional", file, isOptional, isReload, NotRead)
    /\ UNCHANGED configOptions

-----------------------------------------------------------------------------
(* The lines of the file, into fileConfigs: the first entry of an option   *)
(* counts, a later one is reported and skipped.                            *)

WithEntry(options, name, value) ==
    [n \in DOMAIN options \cup {name} |-> IF n = name THEN value ELSE options[n]]

AddLine(line) ==
    IF line \in Entries /\ line.name \notin DOMAIN load.fileConfigs
    THEN WithEntry(load.fileConfigs, line.name, line.value)
    ELSE load.fileConfigs

MoreLines == Len(text[load.file]) < MaxLines

ReadLine ==
    /\ load.phase = "reading" /\ MoreLines
    /\ \E line \in Lines \ {Unreadable} :
         /\ text' = [text EXCEPT ![load.file] = Append(@, line)]
         /\ load' = [load EXCEPT !.fileConfigs = AddLine(line)]
    /\ UNCHANGED <<configOptions, usingDistConfig, outcome, before>>

(* The stream breaks, which throws.                                        *)
ReadBreaks ==
    /\ load.phase = "reading" /\ MoreLines
    /\ text' = [text EXCEPT ![load.file] = Append(@, Unreadable)]
    /\ LoadFailed(load.call, load.file)
    /\ UNCHANGED <<configOptions, before>>

(* The file ended without an option: that throws too, unless it is         *)
(* optional, where the load just returns false.                            *)
ReadNothing ==
    /\ load.phase = "reading" /\ load.fileConfigs = NoOptions
    /\ LoadFailed(load.call, load.file)
    /\ UNCHANGED <<configOptions, text, before>>

ReadEnds ==
    /\ load.phase = "reading" /\ load.fileConfigs # NoOptions
    /\ load' = [load EXCEPT !.phase = "adding"]
    /\ UNCHANGED <<configOptions, usingDistConfig, outcome, text, before>>

\* Mutant of AddKey: an option that exists already is not replaced.
AddKeyKeeps(name) ==
    IF /\ load.isOptional /\ name \notin DOMAIN configOptions
       /\ ~IsLoggingSystemOptions(name) /\ ~load.isReload
    THEN configOptions
    ELSE IF name \in DOMAIN configOptions THEN configOptions
    ELSE WithEntry(configOptions, name, load.fileConfigs[name])

(* An optional file must not bring options that nobody knows, except       *)
(* loggers and sinks, and except when reloading.                           *)
AddKey(name) ==
    IF /\ load.isOptional /\ name \notin DOMAIN configOptions
       /\ ~IsLoggingSystemOptions(name) /\ ~load.isReload
    THEN configOptions
    ELSE WithEntry(configOptions, name, load.fileConfigs[name])

AddEntry ==
    /\ load.phase = "adding"
    /\ \E name \in DOMAIN load.fileConfigs :
         /\ configOptions' = AddKey(name)
         /\ load' = [load EXCEPT !.fileConfigs =
                        [n \in DOMAIN load.fileConfigs \ {name} |-> load.fileConfigs[n]]]
    /\ UNCHANGED <<usingDistConfig, outcome, text, before>>

(* LoadFile returned true.  LoadAppConfigs goes on with the .conf file.    *)
LoadEnds ==
    /\ load.phase = "adding" /\ load.fileConfigs = NoOptions
    /\ IF load.call = "app" /\ load.file = Dist
       THEN LoadFile("app", Conf, TRUE, FALSE, text)
       ELSE /\ load' = Idle
            /\ outcome' = IF load.call = "app" THEN "appConfigs" ELSE "loaded"
            /\ UNCHANGED <<usingDistConfig, text>>
    /\ UNCHANGED <<configOptions, before>>

LoadAppConfigs == LoadInitial("app", FALSE)

Next ==
    \/ LoadAppConfigs
    \/ \E r \in BOOLEAN : LoadInitial("initial", r)
    \/ \E f \in {Dist, Conf}, o, r \in BOOLEAN : LoadAdditionalFile(f, o, r)
    \/ ReadLine
    \/ ReadBreaks
    \/ ReadNothing
    \/ ReadEnds
    \/ AddEntry
    \/ LoadEnds

Spec == Init /\ [][Next]_vars

-----------------------------------------------------------------------------
(* What a file says: it is usable when it opens, reads to its end and      *)
(* has an option; an option has the value of its first line.               *)
EntriesOf(lines, n) == {i \in DOMAIN lines : lines[i] \in Entries /\ lines[i].name = n}
Usable(lines) ==
    /\ lines # Missing
    /\ \A i \in DOMAIN lines : lines[i] # Unreadable
    /\ \E n \in Names : EntriesOf(lines, n) # {}
Defines(lines, n) == Usable(lines) /\ EntriesOf(lines, n) # {}
ValueIn(lines, n) ==
    lines[CHOOSE i \in EntriesOf(lines, n) : \A j \in EntriesOf(lines, n) : i <= j].value

(* After LoadAppConfigs the options are those of the .dist file, and the   *)
(* loggers and sinks of the .conf file; where both give a value the .conf  *)
(* file wins; the order in which keys were added does not show.            *)
Layered ==
    outcome = "appConfigs" =>
        LET known == {n \in Names : Defines(text[Dist], n)}
            extra == {n \in LoggingNames : Defines(text[Conf], n)}
        IN configOptions = [n \in known \cup extra |->
              IF Defines(text[Conf], n) THEN ValueIn(text[Conf], n) ELSE ValueIn(text[Dist], n)]

(* LoadAdditionalFile adds the options only when it has read the whole     *)
(* file: when it fails, at whatever line, all are as they were when it was *)
(* called.  LoadInitial, and LoadAppConfigs for its .dist file, promise no *)
(* such thing: they clear the options first, and leave none.               *)
AllOrNothing ==
    /\ outcome = "failed" => configOptions = before
    /\ outcome = "wiped" => configOptions = NoOptions

=============================================================================

-------------------------------- MODULE Main --------------------------------
(***************************************************************************)
(* main(): arguments, configuration, logging, the port, the network.  The  *)
(* loading of the configuration is module Config, step by step; what       *)
(* StartNetwork does, and what runs afterwards, is module SocketMgr.       *)
(***************************************************************************)
EXTENDS Config, Integers

CONSTANT
    IntOf       \* what StringTo<int32> makes of a value, an optional: the set of its number, or {}

MainAssumption ==
    /\ ConfigAssumption
    /\ "ServerPort" \in Names \ LoggingNames
    /\ \A v \in Values : IntOf[v] \subseteq Int /\ \A i, j \in IntOf[v] : i = j

VARIABLES
    pc,         \* where main() is
    port        \* the local variable port

mainVars == <<pc, port>>
allVars == <<vars, mainVars>>

DefaultPort == 5001
MaxPort == 65535
Steps == {"arguments", "configuration", "logging", "options", "range", "network",
          "running", "returned"}

MainTypeOK ==
    /\ TypeOK
    /\ pc \in Steps
    /\ port \in {DefaultPort} \cup UNION {IntOf[v] : v \in Values}

MainInit == Init /\ pc = "arguments" /\ port = DefaultPort

Continue(step) == pc' = step /\ UNCHANGED port

(* main() returns 1. *)
Return1 == Continue("returned")

(* Whichever file -c names is the one that is read; -c as the last         *)
(* argument ends the program.                                              *)
Arguments ==
    /\ pc = "arguments"
    /\ \/ Return1 /\ UNCHANGED vars
       \/ Continue("configuration") /\ LoadAppConfigs

LoadStep ==
    /\ pc = "configuration"
    /\ ReadLine \/ ReadBreaks \/ ReadNothing \/ ReadEnds \/ AddEntry \/ LoadEnds
    /\ UNCHANGED mainVars

Configured ==
    /\ pc = "configuration" /\ load = Idle
    /\ IF outcome = "appConfigs" THEN Continue("logging") ELSE Return1
    /\ UNCHANGED vars

(* sLog->Initialize() reads the options and changes none of this state.    *)
Logging == pc = "logging" /\ Continue("options") /\ UNCHANGED vars

ValueOr(optional, default) == IF optional = {} THEN default ELSE CHOOSE v \in optional : TRUE

(* GetOption<int32>: the default for a missing option and for a bad value. *)
GetOption(name, default) ==
    IF name \in DOMAIN configOptions THEN ValueOr(IntOf[configOptions[name]], default) ELSE default

GetPort ==
    /\ pc = "options"
    /\ port' = GetOption("ServerPort", DefaultPort)
    /\ pc' = "range"
    /\ UNCHANGED vars

\* Mutant of PortRange: only one end of the range is checked.
PortRangeLow ==
    /\ pc = "range"
    /\ IF port < 0 THEN Return1 ELSE Continue("network")
    /\ UNCHANGED vars

PortRange ==
    /\ pc = "range"
    /\ IF port < 0 \/ port > MaxPort THEN Return1 ELSE Continue("network")
    /\ UNCHANGED vars

StartNetwork ==
    /\ pc = "network"
    /\ Return1 \/ Continue("running")
    /\ UNCHANGED vars

MainNext == Arguments \/ LoadStep \/ Configured \/ Logging \/ GetPort \/ PortRange \/ StartNetwork

MainSpec == MainInit /\ [][MainNext]_allVars

-----------------------------------------------------------------------------
(* The server listens only after it has read a whole .dist file, on the    *)
(* port the files ask for, which is one that TCP has: the .conf file's, if *)
(* it has one the .dist file knows of, else the .dist file's, and          *)
(* DefaultPort if that is not a number.  That is 5001 in main(), where     *)
(* WarheadFix.conf.dist says 3724; and 0 is let through, where the message *)
(* for a wrong port says 1-65535.                                          *)
PortAsConfigured ==
    pc = "running" =>
        /\ port \in 0..MaxPort
        /\ Usable(text[Dist])
        /\ LET source == IF Defines(text[Conf], "ServerPort") THEN Conf ELSE Dist
               wanted == IF Defines(text[Dist], "ServerPort")
                         THEN IntOf[ValueIn(text[source], "ServerPort")] ELSE {}
           IN wanted \in {{}, {port}} /\ (wanted = {} => port = DefaultPort)

=============================================================================

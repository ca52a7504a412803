----------------------------- MODULE CrashReport -----------------------------
(***************************************************************************)
(* How a crash ends the process: the ways to crash of                      *)
(* common/Debugging/Errors.cpp and the exception filter of                 *)
(* common/Debugging/WheatyExceptionReport.cpp, which the Windows build     *)
(* has.  Any number of threads crash, at any moment; one of them writes    *)
(* the report, with the stacks of all threads and then once more with      *)
(* their variables, which module SymbolDump shows one by one.              *)
(*                                                                         *)
(* Of the system it is assumed that a stack is finite and that what        *)
(* crashes inside the filter itself, outside its two __try blocks, is not  *)
(* brought before the filter again.                                        *)
(***************************************************************************)
EXTENDS SymbolDump, FiniteSets

CONSTANTS
    Threads,     \* the threads of the process
    MaxFrames    \* bound: frames of a stack

ASSUME CrashAssumption == IsFiniteSet(Threads) /\ MaxFrames \in Nat

VARIABLES
    thread,          \* of each thread: what it is doing
    alreadyCrashed,  \* alreadyCrashed
    reportFile,      \* m_hReportFile: "none", "open" or "closed"
    step,            \* where the thread that holds alreadyCrashedLock is
    variables,       \* bWriteVariables
    stacks,          \* stacks of the snapshot yet to be walked
    frames,          \* frames of this stack walked so far
    unseen,          \* symbols of this frame yet to be enumerated, in order
    ended            \* the process has ended

reportVars == <<alreadyCrashed, reportFile, step, variables, stacks, frames, unseen>>
vars == <<thread, reportVars, ended, dumpVars>>

Init ==
    /\ thread = [t \in Threads |-> "running"]
    /\ alreadyCrashed = FALSE
    /\ reportFile = "none"
    /\ step = "none"
    /\ variables = FALSE /\ stacks = 0 /\ frames = 0 /\ unseen = <<>>
    /\ ended = FALSE
    /\ DumpInit

Becomes(t, doing) == thread' = [thread EXCEPT ![t] = doing]

-----------------------------------------------------------------------------
(* Crashing                                                                *)

\* A fault, a bad argument of the C library, Assert, Abort and AbortHandler
\* raise an exception at once.
Raise(t) ==
    /\ thread[t] = "running"
    /\ Becomes(t, "raised")
    /\ UNCHANGED <<reportVars, ended, dumpVars>>

\* Fatal and Error sleep ten seconds before they do.
Error(t) ==
    /\ thread[t] = "running"
    /\ Becomes(t, "sleeping")
    /\ UNCHANGED <<reportVars, ended, dumpVars>>

Crash(t) ==
    /\ thread[t] = "sleeping"
    /\ Becomes(t, "raised")
    /\ UNCHANGED <<reportVars, ended, dumpVars>>

\* Mutant of LockFree: the lock is not held while the report is written.
LockFreeAlways == TRUE

\* alreadyCrashedLock is held until the filter returns.
LockFree == \A t \in Threads : thread[t] # "filter"

\* The filter has the lock: only the first exception is reported.
Filter(t) ==
    /\ thread[t] = "raised"
    /\ LockFree
    /\ alreadyCrashed' = TRUE
    /\ IF alreadyCrashed
       THEN Becomes(t, "returned") /\ UNCHANGED step
       ELSE Becomes(t, "filter") /\ step' = "folder"
    /\ UNCHANGED <<reportFile, variables, stacks, frames, unseen, ended, dumpVars>>

\* Whatever the filter, or the one installed before it, has answered, the
\* system ends the process.
EndProcess(t) ==
    /\ thread[t] = "returned"
    /\ ended' = TRUE
    /\ UNCHANGED <<thread, reportVars, dumpVars>>

-----------------------------------------------------------------------------
(* Writing the report                                                      *)

\* The folder cannot be made: the filter returns without a report.
FolderFails(t) ==
    /\ step = "folder"
    /\ Becomes(t, "returned")
    /\ step' = "none"
    /\ UNCHANGED <<alreadyCrashed, reportFile, variables, stacks, frames, unseen, ended, dumpVars>>

\* The folder, the two files and the minidump.  A file that cannot be created
\* has an invalid handle, which is not 0: the report is written all the same.
Files(t) ==
    /\ step = "folder"
    /\ reportFile' = "open"
    /\ step' = "banner"
    /\ UNCHANGED <<thread, alreadyCrashed, variables, stacks, frames, unseen, ended, dumpVars>>

\* GenerateExceptionReport up to the stack of the crashing thread.
Banner(t) ==
    /\ step = "banner"
    /\ step' = "walk"
    /\ variables' = FALSE /\ stacks' = 0 /\ frames' = 0
    /\ UNCHANGED <<thread, alreadyCrashed, reportFile, unseen, ended, dumpVars>>

\* WriteStackDetails: the next frame, and its variables if they are wanted.
WalkFrame(t) ==
    /\ step = "walk" /\ frames < MaxFrames
    /\ frames' = frames + 1
    /\ IF variables THEN step' = "symbols" /\ unseen' = Symbols ELSE UNCHANGED <<step, unseen>>
    /\ UNCHANGED <<thread, alreadyCrashed, reportFile, variables, stacks, ended, dumpVars>>

\* The stack ends: that of the crashing thread before the snapshot is taken,
\* the others before the next thread.
WalkEnds(t) ==
    /\ step = "walk"
    /\ step' = IF stacks = 0 THEN "snapshot" ELSE "threads"
    /\ UNCHANGED <<thread, alreadyCrashed, reportFile, variables, stacks, frames, unseen, ended, dumpVars>>

\* SymEnumSymbols calls back for each symbol, and then the walk goes on.
Enumerate(t) ==
    /\ step = "symbols" /\ ~dumping
    /\ IF unseen # <<>>
       THEN EnumerateSymbolsCallback(Head(unseen)) /\ unseen' = Tail(unseen) /\ UNCHANGED step
       ELSE step' = "walk" /\ UNCHANGED <<unseen, dumpVars>>
    /\ UNCHANGED <<thread, alreadyCrashed, reportFile, variables, stacks, frames, ended>>

ShowSymbol(t) ==
    /\ step = "symbols" /\ DumpStep
    /\ UNCHANGED <<thread, reportVars, ended>>

\* printTracesForAllThreads: there is no snapshot, or it has all the threads.
Snapshot(t) ==
    /\ step = "snapshot"
    /\ \E n \in {0, Cardinality(Threads)} : stacks' = n + 1
    /\ step' = "threads"
    /\ UNCHANGED <<thread, alreadyCrashed, reportFile, variables, frames, unseen, ended, dumpVars>>

\* Mutant of NextStack: the thread is not taken off the list.
NextStackAgain(t) ==
    /\ step = "threads" /\ stacks > 1
    /\ frames' = 0
    /\ step' \in {"walk", "threads"}
    /\ UNCHANGED <<thread, alreadyCrashed, reportFile, variables, stacks, unseen, ended, dumpVars>>

\* The next thread of the list; it cannot be opened, or its stack is walked.
NextStack(t) ==
    /\ step = "threads" /\ stacks > 1
    /\ stacks' = stacks - 1 /\ frames' = 0
    /\ step' \in {"walk", "threads"}
    /\ UNCHANGED <<thread, alreadyCrashed, reportFile, variables, unseen, ended, dumpVars>>

\* The first time round, everything once more with the variables.
StacksEnd(t) ==
    /\ step = "threads" /\ stacks = 1
    /\ stacks' = 0 /\ frames' = 0
    /\ variables' = TRUE
    /\ step' = IF variables THEN "close" ELSE "walk"
    /\ UNCHANGED <<thread, alreadyCrashed, reportFile, unseen, ended, dumpVars>>

\* An exception in GenerateExceptionReport itself breaks the report off.
BreakOff(t) ==
    /\ step \in {"banner", "walk", "symbols", "snapshot", "threads"} /\ ~dumping
    /\ step' = "close"
    /\ UNCHANGED <<thread, alreadyCrashed, reportFile, variables, stacks, frames, unseen, ended, dumpVars>>

Close(t) ==
    /\ step = "close"
    /\ reportFile' = "closed"
    /\ Becomes(t, "returned")
    /\ step' = "none"
    /\ UNCHANGED <<alreadyCrashed, variables, stacks, frames, unseen, ended, dumpVars>>

Report(t) ==
    /\ thread[t] = "filter"
    /\ \/ FolderFails(t) \/ Files(t) \/ Banner(t)
       \/ WalkFrame(t) \/ WalkEnds(t) \/ Enumerate(t) \/ ShowSymbol(t)
       \/ Snapshot(t) \/ NextStack(t) \/ StacksEnd(t)
       \/ BreakOff(t) \/ Close(t)

-----------------------------------------------------------------------------

Next ==
    /\ ~ended
    /\ \E t \in Threads :
          Raise(t) \/ Error(t) \/ Crash(t) \/ Filter(t) \/ Report(t) \/ EndProcess(t)

Spec == Init /\ [][Next]_vars

\* A thread that crashes goes on: it wakes up, gets the lock when it is free
\* and does its next step.  No thread ever has to crash.
FairSpec ==
    /\ Spec
    /\ \A t \in Threads : WF_vars(~ended /\ (Crash(t) \/ Filter(t) \/ Report(t) \/ EndProcess(t)))

-----------------------------------------------------------------------------
(* Properties                                                              *)

\* The process never ends with a report half written, although a second thread
\* that crashes meanwhile asks the system to end it, and a third one too.
ReportWhole == ended => reportFile # "open"

\* A crash ends the process: no structure in memory, no thread that cannot be
\* opened, no second crash and no exception in the dump keeps the report from
\* its end.
CrashEnds == (\E t \in Threads : thread[t] # "running") ~> ended
=============================================================================

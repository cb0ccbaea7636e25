---------------------------- MODULE ExtensionRun ----------------------------
(***************************************************************************)
(* One run of an extension, from the fork of its process to its verdict:   *)
(* Executor.Execute with the goroutine that waits for the process and the  *)
(* one that reads its standard output (extension/executor.go), the timeout *)
(* guard (extension/timeout.go) and the process itself.                    *)
(*                                                                         *)
(* A run whose process cannot be prepared or forked fails at once and is   *)
(* not modelled; standard error, which is only copied to a log, is not     *)
(* either. A timer may fire at any time after it is set.                   *)
(***************************************************************************)
EXTENDS Integers

CONSTANTS
    ChanCap,        \* the capacity of protocolCh, 64 in the code
    MaxLines        \* the ::result:: lines a process prints: bounds the run of TLC

ASSUME ChanCapAssumption == ChanCap \in Nat
ASSUME MaxLinesAssumption == MaxLines \in Nat

VARIABLES
    proc,           \* how the process ended, if it has
    stubborn,       \* the process ignores SIGTERM
    signals,        \* the signals supd has sent it while it lived
    written,        \* the ::result:: lines it has printed
    lastLine,       \* the status of the last of them
    reaped,         \* cmd.Wait has returned: waitCh is filled, the pipes are closed
    reader,         \* where the reader of standard output is
    read,           \* the lines it has taken from the pipe
    chan,           \* the number of updates in protocolCh
    chanLast,       \* the status in the last of them
    ctx,            \* the run's context is cancelled
    guard,          \* where the timeout guard is
    stop,           \* guard.stopCh is filled
    timedOut,       \* guard.timedOut
    exec,           \* where Execute is
    result          \* RunResult.State

\* History: what first decided that the process had to end.
VARIABLE cause

procVars   == <<proc, stubborn, signals, written, lastLine>>
readerVars == <<reader, read, chan, chanLast>>
guardVars  == <<guard, stop, timedOut>>
runVars == <<procVars, reaped, readerVars, ctx, guardVars, exec, result, cause>>

Status == {"success", "error"}      \* a warning is a success to the verdict

\* A process exits with code 0, with another code or by a signal.
Exit == {"zero", "code", "SIGTERM", "SIGKILL", "crash"}

Verdict == {"success", "failed", "timeout", "canceled", "killed"}

RunTypeOK ==
    /\ proc \in {"alive"} \cup Exit
    /\ stubborn \in BOOLEAN
    /\ signals \subseteq {"SIGTERM", "SIGKILL"}
    /\ written \in 0..MaxLines
    /\ lastLine \in Status \cup {"none"}
    /\ reaped \in BOOLEAN
    /\ reader \in {"reading", "sending", "done"}
    /\ read \in 0..written
    /\ chan \in 0..ChanCap
    /\ chanLast \in Status \cup {"none"}
    /\ ctx \in BOOLEAN
    /\ guard \in {"watch", "grace", "off"}
    /\ stop \in BOOLEAN
    /\ timedOut \in BOOLEAN
    /\ exec \in {"select", "timedOut", "cancelled", "cancelGrace", "killed", "drain", "ended"}
    /\ result \in Verdict \cup {"running"}
    /\ cause \in {"none", "timeout", "cancel"}

RunInit ==
    /\ proc = "alive"
    /\ stubborn \in BOOLEAN
    /\ signals = {}
    /\ written = 0
    /\ lastLine = "none"
    /\ reaped = FALSE
    /\ reader = "reading"
    /\ read = 0
    /\ chan = 0
    /\ chanLast = "none"
    /\ ctx = FALSE
    /\ guard = "watch"
    /\ stop = FALSE
    /\ timedOut = FALSE
    /\ exec = "select"
    /\ result = "running"
    /\ cause = "none"

\* A signal to the process group; nobody is there to receive it once the process
\* has ended.
Send(signal) ==
    signals' = IF proc = "alive" THEN signals \cup {signal} ELSE signals

\* The end of the process is decided, if nothing else has decided it.
Decide(why) ==
    cause' = IF cause = "none" /\ proc = "alive" THEN why ELSE cause

-----------------------------------------------------------------------------
(* The process. *)

PrintResult(status) ==
    /\ proc = "alive"
    /\ written < MaxLines
    /\ written' = written + 1
    /\ lastLine' = status
    /\ UNCHANGED <<proc, stubborn, signals, reaped, readerVars, ctx, guardVars, exec, result,
                   cause>>

\* It ends by itself, by a handler of SIGTERM, or by a signal from elsewhere.
EndBySelf(exit) ==
    /\ proc = "alive"
    /\ proc' = exit
    /\ UNCHANGED <<stubborn, signals, written, lastLine, reaped, readerVars, ctx, guardVars,
                   exec, result, cause>>

ObeySignal ==
    /\ proc = "alive"
    /\ \/ "SIGKILL" \in signals /\ proc' = "SIGKILL"
       \/ "SIGTERM" \in signals /\ ~stubborn /\ proc' = "SIGTERM"
    /\ UNCHANGED <<stubborn, signals, written, lastLine, reaped, readerVars, ctx, guardVars,
                   exec, result, cause>>

\* cmd.Wait returns, having closed the read ends of the pipes.
Reap ==
    /\ proc # "alive"
    /\ ~reaped
    /\ reaped' = TRUE
    /\ UNCHANGED <<procVars, readerVars, ctx, guardVars, exec, result, cause>>

-----------------------------------------------------------------------------
(* The reader of standard output. *)

\* ReadLines gives the next line to the callback, after cmd.Wait too if the line is in
\* its buffer. (Only what the last line printed says is kept.)
ReadLine ==
    /\ reader = "reading"
    /\ read < written
    /\ read' = read + 1
    /\ reader' = "sending"
    /\ UNCHANGED <<procVars, reaped, chan, chanLast, ctx, guardVars, exec, result, cause>>

\* A bug variant of SendUpdate: protocolCh never blocks.
SendUpdateUnbounded ==
    /\ reader = "sending"
    /\ chan' = chan + 1
    /\ chanLast' \in Status
    /\ reader' = "reading"
    /\ UNCHANGED <<procVars, reaped, read, ctx, guardVars, exec, result, cause>>

\* The callback sends an update; protocolCh is emptied only after the reader is done.
SendUpdate ==
    /\ reader = "sending"
    /\ chan < ChanCap
    /\ chan' = chan + 1
    /\ \/ read = written /\ chanLast' = lastLine
       \/ read < written /\ chanLast' \in Status
    /\ reader' = "reading"
    /\ UNCHANGED <<procVars, reaped, read, ctx, guardVars, exec, result, cause>>

\* The end of the output, or a pipe closed by cmd.Wait with lines still in it.
ReaderDone ==
    /\ reader = "reading"
    /\ \/ reaped
       \/ proc # "alive" /\ read = written
    /\ reader' = "done"
    /\ UNCHANGED <<procVars, reaped, read, chan, chanLast, ctx, guardVars, exec, result, cause>>

-----------------------------------------------------------------------------
(* The timeout guard. *)

\* timeout_seconds is over.
GuardTimesOut ==
    /\ guard = "watch"
    /\ guard' = "grace"
    /\ timedOut' = TRUE
    /\ Send("SIGTERM")
    /\ Decide("timeout")
    /\ UNCHANGED <<proc, stubborn, written, lastLine, reaped, readerVars, ctx, stop, exec,
                   result>>

\* A bug variant of GuardKills: the five seconds end without a SIGKILL.
GuardGivesUp ==
    /\ guard \in {"watch", "grace"}
    /\ guard' = "off"
    /\ timedOut' = TRUE
    /\ Decide("timeout")
    /\ UNCHANGED <<procVars, reaped, readerVars, ctx, stop, exec, result>>

\* The hard limit is over, or the five seconds after SIGTERM.
GuardKills ==
    /\ guard \in {"watch", "grace"}
    /\ guard' = "off"
    /\ timedOut' = TRUE
    /\ Send("SIGKILL")
    /\ Decide("timeout")
    /\ UNCHANGED <<proc, stubborn, written, lastLine, reaped, readerVars, ctx, stop, exec,
                   result>>

GuardReturns ==
    /\ guard # "off"
    /\ ctx \/ stop
    /\ guard' = "off"
    /\ UNCHANGED <<procVars, reaped, readerVars, ctx, stop, timedOut, exec, result, cause>>

-----------------------------------------------------------------------------
(* Execute. *)

\* The user, a replacing run or a caller cancels the context.
Cancel ==
    /\ exec # "ended"
    /\ ~ctx
    /\ ctx' = TRUE
    /\ UNCHANGED <<procVars, reaped, readerVars, guardVars, exec, result, cause>>

\* A bug variant of ExecCancelled: the timeout is not looked at.
ExecCancelledUnchecked ==
    /\ exec = "select"
    /\ ctx
    /\ stop' = TRUE
    /\ exec' = "cancelled"
    /\ Decide("cancel")
    /\ UNCHANGED <<procVars, reaped, readerVars, ctx, guard, timedOut, result>>

\* The select takes ctx.Done: the guard is stopped, and a run that has timed out is
\* left to it.
ExecCancelled ==
    /\ exec = "select"
    /\ ctx
    /\ stop' = TRUE
    /\ IF timedOut
       THEN exec' = "timedOut" /\ result' = "timeout" /\ UNCHANGED cause
       ELSE exec' = "cancelled" /\ Decide("cancel") /\ UNCHANGED result
    /\ UNCHANGED <<procVars, reaped, readerVars, ctx, guard, timedOut>>

ExecTerminates ==
    /\ exec = "cancelled"
    /\ exec' = "cancelGrace"
    /\ Send("SIGTERM")
    /\ UNCHANGED <<proc, stubborn, written, lastLine, reaped, readerVars, ctx, guardVars, result,
                   cause>>

\* The five seconds of a cancelled run are over.
ExecKills ==
    /\ exec = "cancelGrace"
    /\ exec' = "killed"
    /\ Send("SIGKILL")
    /\ UNCHANGED <<proc, stubborn, written, lastLine, reaped, readerVars, ctx, guardVars, result,
                   cause>>

\* waitCh is received, by the select or by the branch it took.
ExecExited ==
    /\ exec \in {"select", "timedOut", "cancelGrace", "killed"}
    /\ reaped
    /\ exec' = "drain"
    /\ stop' = (stop \/ exec = "select")
    /\ result' =
        CASE exec = "timedOut"    -> "timeout"
          [] exec = "cancelGrace" -> "canceled"
          [] exec = "killed"      -> "killed"
          [] exec = "select" /\ timedOut -> "timeout"
          [] exec = "select" /\ ~timedOut /\ proc = "SIGKILL" -> "killed"
          [] exec = "select" /\ ~timedOut /\ proc \in {"SIGTERM", "crash"} -> "canceled"
          [] OTHER -> result
    /\ UNCHANGED <<procVars, reaped, readerVars, ctx, guard, timedOut, cause>>

\* determineFinalState: the verdict there is, then the protocol, then the exit code.
FinalState ==
    IF result # "running" THEN result
    ELSE IF chan > 0 THEN (IF chanLast = "error" THEN "failed" ELSE "success")
    ELSE IF proc = "zero" THEN "success" ELSE "failed"

\* The reader is done, protocolCh is emptied and the result is stored.
ExecEnds ==
    /\ exec = "drain"
    /\ reader = "done"
    /\ exec' = "ended"
    /\ result' = FinalState
    /\ UNCHANGED <<procVars, reaped, readerVars, ctx, guardVars, cause>>

-----------------------------------------------------------------------------
ReaderStep == ReadLine \/ SendUpdate \/ ReaderDone

GuardStep == GuardTimesOut \/ GuardKills \/ GuardReturns

ExecStep == ExecCancelled \/ ExecTerminates \/ ExecKills \/ ExecExited \/ ExecEnds

RunNext ==
    \/ \E status \in Status : PrintResult(status)
    \/ \E exit \in Exit : EndBySelf(exit)
    \/ ObeySignal \/ Reap \/ ReaderStep \/ GuardStep \/ Cancel \/ ExecStep

RunSpec == RunInit /\ [][RunNext]_runVars

\* Goroutines run, timers fire, SIGKILL ends a process and SIGTERM ends one that does
\* not ignore it. Nothing makes a process end by itself or a user cancel.
RunFairness ==
    /\ WF_runVars(ObeySignal)
    /\ WF_runVars(Reap)
    /\ WF_runVars(ReaderStep)
    /\ WF_runVars(GuardStep)
    /\ WF_runVars(ExecStep)

RunFairSpec == RunSpec /\ RunFairness

-----------------------------------------------------------------------------
\* The verdict goes by what first decided that the process had to end, whichever
\* of the guard, the user and the process was last to move: a run the guard had
\* warned is a timeout though it was cancelled too, a cancelled run is canceled or
\* killed though its time ran out, and only a run that nobody ended and no signal
\* hit is a success or a failure of its own.
VerdictFollowsCause ==
    exec = "ended" =>
        /\ cause = "timeout" => result = "timeout"
        /\ cause = "cancel" => result \in {"canceled", "killed"}
        /\ result \in {"success", "failed"} => cause = "none" /\ proc \in {"zero", "code"}

\* A run nobody cancels in its grace period, and that prints no more ::result::
\* lines than protocolCh has room for, comes to its end, ignore SIGTERM as it may.
LeftToTheGuard == exec = "timedOut" /\ guard = "off" /\ "SIGKILL" \notin signals

RunsEndUnlessStuck == <>(exec = "ended" \/ LeftToTheGuard \/ written > ChanCap)

=============================================================================

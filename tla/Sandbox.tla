------------------------------- MODULE Sandbox -------------------------------
(***************************************************************************)
(* One run of WasmerCliExecutor::execute, src/infra/wasmer/src/lib.rs: the *)
(* wasmer child process, a bounded pipe and a capture thread per output    *)
(* stream, and the thread that polls the child until the deadline.  The    *)
(* staging directory is created and removed inside the steps that start    *)
(* and end the run.  Nothing but the child holds a write end of the pipes, *)
(* and reading from them does not fail.                                    *)
(***************************************************************************)
EXTENDS Integers

CONSTANTS
    Streams,         \* stdout and stderr
    PipeCapacity,    \* bytes a pipe holds before a write to it blocks
    MaxOutput        \* bound: bytes the guest writes to one stream

ASSUME SandboxAssumption == PipeCapacity \in Nat \ {0} /\ MaxOutput \in Nat

VARIABLES
    child,      \* the wasmer process
    written,    \* bytes it has written to each stream
    drained,    \* bytes the capture thread has read from each
    kept,       \* kept.len() of each capture thread
    cut,        \* its `truncated`
    reading,    \* it has not seen the end of the stream
    waited,     \* where wait_with_timeout stands
    result      \* the ExecutionResult, once there is one

sandbox == <<child, written, drained, kept, cut, reading, waited, result>>

Smaller(a, b) == IF a < b THEN a ELSE b

Failures == {"none", "InvalidRequest", "RuntimeUnavailable", "TimedOut", "Io"}

\* ExecutionResult without the duration: the output is counted, not spelled out.
Result == [ exited : BOOLEAN, failure : Failures,
            kept : [Streams -> 0 .. MaxOutput], truncated : BOOLEAN ]

NoResult == [exited |-> FALSE, failure |-> "pending",
             kept |-> [s \in Streams |-> 0], truncated |-> FALSE]

\* ExecutionResult::failed
Failed(kind) == [NoResult EXCEPT !.failure = kind]

SandboxIdle ==
    /\ child = "none" /\ waited = "no" /\ result = NoResult
    /\ written = [s \in Streams |-> 0] /\ drained = written /\ kept = written
    /\ cut = [s \in Streams |-> FALSE] /\ reading = cut

Reset ==
    /\ child' = "none" /\ waited' = "no" /\ result' = NoResult
    /\ written' = [s \in Streams |-> 0] /\ drained' = written' /\ kept' = written'
    /\ cut' = [s \in Streams |-> FALSE] /\ reading' = cut'

--------------------------------------------------------------------------------
\* execute gives up before there is a child: the request is refused, or wasmer
\* cannot be spawned.
GiveUp(kind) ==
    /\ SandboxIdle
    /\ result' = Failed(kind)
    /\ UNCHANGED <<child, written, drained, kept, cut, reading, waited>>

\* The staging directory or one of the files cannot be created.
StagingFails == GiveUp("Io")

\* The child runs, both capture threads read, the caller starts waiting.
Spawn ==
    /\ SandboxIdle
    /\ child' = "alive" /\ waited' = "waiting"
    /\ reading' = [s \in Streams |-> TRUE]
    /\ UNCHANGED <<written, drained, kept, cut, result>>

\* The guest prints a byte; with the pipe full, the write blocks.
Write(s) ==
    /\ child = "alive"
    /\ written[s] - drained[s] < PipeCapacity /\ written[s] < MaxOutput
    /\ written' = [written EXCEPT ![s] = @ + 1]
    /\ UNCHANGED <<child, drained, kept, cut, reading, waited, result>>

\* With a code, or by a signal that is not ours.
Exit(how) ==
    /\ child = "alive" /\ how \in {"exited", "crashed"}
    /\ child' = how
    /\ UNCHANGED <<written, drained, kept, cut, reading, waited, result>>

DrainUntilFull(s, limit) ==    \* mutant
    /\ reading[s] /\ drained[s] < written[s] /\ kept[s] < limit
    /\ \E n \in 1 .. written[s] - drained[s] :
          /\ drained' = [drained EXCEPT ![s] = @ + n]
          /\ kept' = [kept EXCEPT ![s] = @ + Smaller(n, limit - kept[s])]
          /\ cut' = [cut EXCEPT ![s] = @ \/ n >= limit - kept[s]]
    /\ UNCHANGED <<child, written, reading, waited, result>>

\* capture: what is past the limit is read all the same, and dropped.
Drain(s, limit) ==
    /\ reading[s] /\ drained[s] < written[s]
    /\ \E n \in 1 .. written[s] - drained[s] :
          /\ drained' = [drained EXCEPT ![s] = @ + n]
          /\ kept' = [kept EXCEPT ![s] = @ + Smaller(n, limit - kept[s])]
          /\ cut' = [cut EXCEPT ![s] = @ \/ n > limit - kept[s]]
    /\ UNCHANGED <<child, written, reading, waited, result>>

\* Ok(0): the pipe is empty and its only writer is gone.
EndOfStream(s) ==
    /\ reading[s] /\ drained[s] = written[s] /\ child # "alive"
    /\ reading' = [reading EXCEPT ![s] = FALSE]
    /\ UNCHANGED <<child, written, drained, kept, cut, waited, result>>

\* try_wait finds the child gone.
SeeExit ==
    /\ waited = "waiting" /\ child # "alive"
    /\ waited' = "status"
    /\ UNCHANGED <<child, written, drained, kept, cut, reading, result>>

DeadlineAfterOutput ==    \* mutant
    /\ waited = "waiting" /\ child = "alive" /\ \A s \in Streams : ~ reading[s]
    /\ waited' = "late"
    /\ UNCHANGED <<child, written, drained, kept, cut, reading, result>>

\* try_wait finds it alive and the deadline has passed ...
DeadlinePasses ==
    /\ waited = "waiting" /\ child = "alive"
    /\ waited' = "late"
    /\ UNCHANGED <<child, written, drained, kept, cut, reading, result>>

\* ... so it is killed, unless it has just gone by itself.
Kill ==
    /\ waited = "late"
    /\ child' = IF child = "alive" THEN "killed" ELSE child
    /\ waited' = "timeout"
    /\ UNCHANGED <<written, drained, kept, cut, reading, result>>

\* try_wait itself fails: the child is killed and reaped all the same.
WaitFails ==
    /\ waited = "waiting"
    /\ child' = IF child = "alive" THEN "killed" ELSE child
    /\ waited' = "error"
    /\ UNCHANGED <<written, drained, kept, cut, reading, result>>

\* Both capture threads are joined, the result is put together and the staging
\* directory removed.
Join ==
    /\ waited \in {"status", "timeout", "error"} /\ \A s \in Streams : ~ reading[s]
    /\ result = NoResult
    /\ result' = [ exited |-> waited = "status" /\ child = "exited",
                   failure |-> CASE waited = "timeout"  -> "TimedOut"
                                 [] waited = "status" /\ child = "exited" -> "none"
                                 [] OTHER -> "Io",
                   kept |-> kept,
                   truncated |-> \E s \in Streams : cut[s] ]
    /\ UNCHANGED <<child, written, drained, kept, cut, reading, waited>>

SandboxStep(limit) ==
    \/ \E s \in Streams : Write(s) \/ Drain(s, limit) \/ EndOfStream(s)
    \/ \E how \in {"exited", "crashed"} : Exit(how)
    \/ SeeExit \/ DeadlinePasses \/ Kill \/ WaitFails \/ Join

--------------------------------------------------------------------------------
SandboxTypeOK ==
    /\ child \in {"none", "alive", "exited", "crashed", "killed"}
    /\ waited \in {"no", "waiting", "status", "late", "timeout", "error"}
    /\ written \in [Streams -> 0 .. MaxOutput] /\ drained \in [Streams -> 0 .. MaxOutput]
    /\ kept \in [Streams -> 0 .. MaxOutput]
    /\ cut \in [Streams -> BOOLEAN] /\ reading \in [Streams -> BOOLEAN]
    /\ result \in Result \cup {NoResult}
    /\ \A s \in Streams : drained[s] <= written[s] /\ kept[s] <= drained[s]
================================================================================

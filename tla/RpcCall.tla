------------------------------ MODULE RpcCall -------------------------------
(***************************************************************************)
(* rpc() of view-only-ui/server.js: one radiant-cli call as an ssh child   *)
(* process, its two output streams collected chunk by chunk, and the       *)
(* promise settled by whichever of the child's events comes first.         *)
(*                                                                         *)
(* Output is counted in units; the pipe of a stream holds at most PipeSize *)
(* of them, and what is in the pipes when the child dies is still          *)
(* delivered before the close event.  The cap is on standard output only.  *)
(***************************************************************************)
EXTENDS Integers

CONSTANTS
  MaxRpcBytes,  \* MAX_RPC_BYTES
  PipeSize,     \* what the operating system buffers
  MaxOutput,    \* bound: what the child would ever print
  MaxErrors     \* bound: what the child would ever write to standard error

ASSUME SizeAssumption ==
  /\ MaxRpcBytes \in Nat /\ PipeSize \in Nat \ {0}
  /\ MaxOutput \in Nat /\ MaxErrors \in Nat

VARIABLES
  child,     \* "running", "exited" (code 0), "failed" (any other), "closed"
  written,   \* units the child has printed
  pipe,      \* units printed and not yet delivered
  total,     \* units counted by the data handler
  chunks,    \* units kept in memory
  errWritten, errPipe, errChunks,   \* the same of standard error
  killed,
  promise    \* "pending", "resolved", "rejected"

out == <<written, pipe, total, chunks>>
err == <<errWritten, errPipe, errChunks>>
vars == <<child, out, err, killed, promise>>

Init ==
  /\ child = "running"
  /\ written = 0 /\ pipe = 0 /\ total = 0 /\ chunks = 0
  /\ errWritten = 0 /\ errPipe = 0 /\ errChunks = 0
  /\ killed = FALSE
  /\ promise = "pending"

\* A settled promise stays as it is.
Settle(outcome) == promise' = IF promise = "pending" THEN outcome ELSE promise

ChildWrites(n) ==
  /\ child = "running"
  /\ pipe + n <= PipeSize
  /\ written + n <= MaxOutput
  /\ written' = written + n
  /\ pipe' = pipe + n
  /\ UNCHANGED <<child, total, chunks, err, killed, promise>>

ChildComplains(n) ==
  /\ child = "running"
  /\ errPipe + n <= PipeSize
  /\ errWritten + n <= MaxErrors
  /\ errWritten' = errWritten + n
  /\ errPipe' = errPipe + n
  /\ UNCHANGED <<child, out, errChunks, killed, promise>>

ChildExits ==
  /\ child = "running"
  /\ child' \in {"exited", "failed"}
  /\ UNCHANGED <<out, err, killed, promise>>

\* Mutant: the call is given up but the child is left running.
AfterOverflowKeep(c) == c

\* p.kill("SIGKILL")
AfterOverflow(c) == IF c = "running" THEN "failed" ELSE c

\* Mutant: chunks are counted instead of what they hold.
CountedAsOne(n) == total + 1

Counted(n) == total + n

\* Mutant: the child is killed and the caller is not told.
OverflowOutcomeNone == "pending"

OverflowOutcome == "rejected"

\* The first chunk over the cap kills the child and is dropped.
DataOverCap(n) ==
  /\ n <= pipe
  /\ Counted(n) > MaxRpcBytes
  /\ ~ killed
  /\ pipe' = pipe - n
  /\ total' = Counted(n)
  /\ killed' = TRUE
  /\ child' = AfterOverflow(child)
  /\ Settle(OverflowOutcome)
  /\ UNCHANGED <<written, chunks, err>>

\* Any other chunk is kept, those that arrive after the kill too.
DataKept(n) ==
  /\ n <= pipe
  /\ Counted(n) <= MaxRpcBytes \/ killed
  /\ pipe' = pipe - n
  /\ total' = Counted(n)
  /\ chunks' = chunks + n
  /\ UNCHANGED <<child, written, err, killed, promise>>

\* Whatever arrives on standard error is kept; nothing counts it.
ErrData(n) ==
  /\ n <= errPipe
  /\ errPipe' = errPipe - n
  /\ errChunks' = errChunks + n
  /\ UNCHANGED <<child, out, errWritten, killed, promise>>

\* ssh cannot be spawned: the error event, instead of any output.
SpawnError ==
  /\ child = "running"
  /\ written = 0 /\ errWritten = 0
  /\ child' = "closed"
  /\ Settle("rejected")
  /\ UNCHANGED <<out, err, killed>>

\* Mutant: the exit code is not looked at.
CloseOutcomeAny(c) == "resolved"

CloseOutcome(c) == IF c = "exited" THEN "resolved" ELSE "rejected"

\* Mutant: the promise settled on the exit event, before the output is in.
DeliveredOrNot == TRUE

Delivered == pipe = 0 /\ errPipe = 0

\* The close event comes once the child is gone and its output delivered.
Close ==
  /\ child \in {"exited", "failed"}
  /\ Delivered
  /\ child' = "closed"
  /\ IF killed THEN UNCHANGED promise ELSE Settle(CloseOutcome(child))
  /\ UNCHANGED <<out, err, killed>>

Data == \E n \in 1 .. PipeSize : DataOverCap(n) \/ DataKept(n) \/ ErrData(n)

Next ==
  \/ \E n \in 1 .. PipeSize : ChildWrites(n) \/ ChildComplains(n)
  \/ ChildExits
  \/ Data
  \/ SpawnError
  \/ Close

Spec == Init /\ [][Next]_vars

\* The event loop delivers what the operating system reports; the child itself
\* may run for ever, because rpc() sets no timeout.
FairSpec == Spec /\ WF_vars(Data) /\ WF_vars(Close)

-----------------------------------------------------------------------------
\* Type invariant.
TypeOK ==
  /\ child \in {"running", "exited", "failed", "closed"}
  /\ promise \in {"pending", "resolved", "rejected"}
  /\ killed \in BOOLEAN
  /\ written \in 0 .. MaxOutput /\ pipe \in 0 .. PipeSize
  /\ total \in 0 .. MaxOutput /\ chunks \in 0 .. total
  /\ errWritten \in 0 .. MaxErrors /\ errPipe \in 0 .. PipeSize
  /\ errChunks \in 0 .. errWritten

\* The caller is given output only if the child succeeded and nothing of what
\* it printed is missing, however the events were interleaved; a failed child
\* never resolves the promise.
ResolvedIsWhole ==
  promise = "resolved" => ~ killed /\ chunks = written /\ chunks <= MaxRpcBytes

\* A child that failed, by itself or by the kill, never leaves its partial output
\* with a caller, and by its close event all it wrote to standard error is in, so
\* that the message of the rejection is whole.
FailureRejects ==
  [][child = "failed" /\ child' = "closed" =>
       promise' = "rejected" /\ errChunks = errWritten]_vars

\* What stays of standard output exceeds the cap by no more than the pipe held: once
\* the child is killed, only what it had written before still arrives.  That is all of
\* the "hard cap on upstream RPC output" there is: what stays of standard error
\* (errChunks) has no bound but MaxErrors, which is the model's.
StdoutBounded == chunks <= MaxRpcBytes + PipeSize

\* Once the child is gone, the caller is answered.
SettledAfterExit == child \in {"exited", "failed"} ~> promise # "pending"
=============================================================================

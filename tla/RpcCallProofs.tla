---------------------------- MODULE RpcCallProofs ----------------------------
(***************************************************************************)
(* rpc() for every cap, pipe and output: what it resolves with is the      *)
(* whole output of a child that succeeded, and what it keeps of standard   *)
(* output is bounded.                                                      *)
(***************************************************************************)
EXTENDS RpcCall, TLAPS

States == {"running", "exited", "failed", "closed"}

CountsInv ==
  /\ written \in Nat /\ pipe \in Nat /\ total \in Nat /\ chunks \in Nat
  /\ pipe <= PipeSize /\ written <= MaxOutput /\ chunks <= total
  /\ errWritten \in Nat /\ errPipe \in Nat /\ errChunks \in Nat
  /\ errPipe <= PipeSize /\ errWritten <= MaxErrors

\* No unit is lost or made up between the child and the data handlers; until the
\* kill all of them are kept; a killed child writes no more, so that all it can
\* still add is what the pipe held.
CallInv ==
  /\ CountsInv
  /\ child \in States
  /\ killed \in BOOLEAN
  /\ promise \in {"pending", "resolved", "rejected"}
  /\ written = total + pipe
  /\ errWritten = errChunks + errPipe
  /\ ~ killed => chunks = total /\ total <= MaxRpcBytes
  /\ killed => promise = "rejected" /\ child # "running"
  /\ killed => chunks + pipe <= MaxRpcBytes + PipeSize
  /\ child = "closed" => pipe = 0 /\ errPipe = 0
  /\ promise = "resolved" => child = "closed" /\ ~ killed

\* The invariant holds when the child is spawned.
LEMMA InitCall == Init => CallInv
<1>. SUFFICES ASSUME Init PROVE CallInv
  OBVIOUS
<1>1. CountsInv /\ written = total + pipe /\ chunks = total /\ total <= MaxRpcBytes
      /\ errWritten = errChunks + errPipe
  BY SizeAssumption DEF Init, CountsInv
<1>2. ~ killed /\ killed \in BOOLEAN
  BY Zenon DEF Init
<1>3. child = "running" /\ promise = "pending"
  BY DEF Init
<1>. QED  BY <1>1, <1>2, <1>3 DEF CallInv, States

\* Every event preserves the invariant.
LEMMA StepCall == CallInv /\ [Next]_vars => CallInv'
<1>. SUFFICES ASSUME CallInv, [Next]_vars PROVE CallInv'
  OBVIOUS
<1>. USE SizeAssumption DEF CallInv, CountsInv, States, out, err
<1>1. CASE UNCHANGED vars
  BY <1>1 DEF vars
<1>2. ASSUME NEW n \in 1 .. PipeSize, ChildWrites(n) PROVE CallInv'
  BY <1>2 DEF ChildWrites
<1>3. ASSUME NEW n \in 1 .. PipeSize, ChildComplains(n) PROVE CallInv'
  BY <1>3 DEF ChildComplains
<1>4. CASE ChildExits
  BY <1>4 DEF ChildExits
<1>5. ASSUME NEW n \in 1 .. PipeSize, DataOverCap(n) PROVE CallInv'
  <2>1. promise' = "rejected"
    BY <1>5 DEF DataOverCap, Settle, OverflowOutcome
  <2>2. pipe > 0 /\ child # "closed" /\ promise # "resolved"
    BY <1>5 DEF DataOverCap
  <2>. QED  BY <1>5, <2>1, <2>2 DEF DataOverCap, Counted, AfterOverflow
<1>6. ASSUME NEW n \in 1 .. PipeSize, DataKept(n) PROVE CallInv'
  BY <1>6 DEF DataKept, Counted
<1>7. ASSUME NEW n \in 1 .. PipeSize, ErrData(n) PROVE CallInv'
  BY <1>7 DEF ErrData
<1>8. CASE SpawnError
  <2>1. pipe = 0 /\ errPipe = 0 /\ promise # "resolved"
    BY <1>8 DEF SpawnError
  <2>2. promise' \in {promise, "rejected"}
    BY <1>8 DEF SpawnError, Settle
  <2>. QED  BY <1>8, <2>1, <2>2 DEF SpawnError
<1>9. CASE Close
  BY <1>9 DEF Close, Delivered, Settle, CloseOutcome
<1>. QED
  BY <1>1, <1>2, <1>3, <1>4, <1>5, <1>6, <1>7, <1>8, <1>9 DEF Next, Data

\* The events of a call never lead out of the invariant.
THEOREM CallInvariant == Spec => []CallInv
  BY InitCall, StepCall, PTL DEF Spec

\* What the child prints, what the pipe holds, what is counted and what is kept
\* stay numbers in their ranges.
THEOREM TypeCorrect == Spec => []TypeOK
<1>1. CallInv => TypeOK
  BY SizeAssumption DEF CallInv, CountsInv, States, TypeOK
<1>. QED  BY <1>1, CallInvariant, PTL

\* The caller is given output only if nothing of what the child printed is
\* missing, in whatever order exit, data and close arrive.
THEOREM ResolvesWhole == Spec => []ResolvedIsWhole
<1>1. CallInv => ResolvedIsWhole
  BY DEF CallInv, CountsInv, ResolvedIsWhole
<1>. QED  BY <1>1, CallInvariant, PTL

\* Of standard output one call keeps at most the cap and a pipe's worth in memory,
\* with a child that prints as much as it likes.
THEOREM StdoutIsBounded == Spec => []StdoutBounded
<1>1. CallInv => StdoutBounded
  BY SizeAssumption DEF CallInv, CountsInv, StdoutBounded
<1>. QED  BY <1>1, CallInvariant, PTL

\* A child that failed never leaves its partial output with a caller, and all it
\* wrote to standard error is in when its close event comes.
THEOREM FailureAlwaysRejects == Spec => FailureRejects
<1>1. CallInv /\ [Next]_vars =>
        [child = "failed" /\ child' = "closed" =>
           promise' = "rejected" /\ errChunks = errWritten]_vars
  <2>. SUFFICES ASSUME CallInv, Next, child = "failed", child' = "closed"
                PROVE  promise' = "rejected" /\ errChunks = errWritten
    BY DEF vars
  <2>1. Close
    BY DEF Next, Data, ChildWrites, ChildComplains, ChildExits, DataOverCap, DataKept, ErrData,
           SpawnError, AfterOverflow
  <2>2. killed => promise = "rejected"
    BY DEF CallInv
  <2>3. errChunks = errWritten
    BY <2>1 DEF Close, Delivered, CallInv, CountsInv
  <2>. QED  BY <2>1, <2>2, <2>3 DEF Close, Settle, CloseOutcome, CallInv
<1>. QED  BY <1>1, CallInvariant, PTL DEF Spec, FailureRejects
=============================================================================

--------------------------- MODULE ForwardReaderAt ---------------------------
(***************************************************************************)
(* What streamReaderAt (lib/zipslicer/directory.go) promises its callers:  *)
(* an io.ReaderAt over a stream that can only move forward.  A ReadAt at   *)
(* p either returns 1..len(d) bytes taken from offset p, after which       *)
(* offsets before the end of those bytes are gone, or returns no data;     *)
(* returning no data is allowed only when p is behind the stream or at or  *)
(* past its end, and in the latter case the rest of the stream is gone.    *)
(***************************************************************************)
EXTENDS Naturals

CONSTANTS StreamLen, MaxRead, MaxCalls

VARIABLES
    next,   \* the first offset the stream can still deliver
    calls,  \* ReadAt calls made so far
    last    \* the last call: [p, want, n, from, err]

Init ==
    /\ next = 0
    /\ calls = 0
    /\ last = [p |-> 0, want |-> 0, n |-> 0, from |-> 0, err |-> "none"]

Deliver(p, want) ==
    /\ next <= p /\ p < StreamLen
    /\ \E k \in 1..want, err \in {"nil", "EOF"} :
          /\ p + k <= StreamLen
          /\ err = "EOF" => p + k = StreamLen
          /\ next' = p + k
          /\ last' = [p |-> p, want |-> want, n |-> k, from |-> p, err |-> err]

NoData(p, want) ==
    /\ p < next \/ p >= StreamLen
    /\ next' = IF p >= StreamLen THEN StreamLen ELSE next
    /\ last' = [p |-> p, want |-> want, n |-> 0, from |-> 0, err |-> "fail"]

Next ==
    /\ calls < MaxCalls
    /\ calls' = calls + 1
    /\ \E p \in 0..StreamLen, want \in 1..MaxRead : Deliver(p, want) \/ NoData(p, want)

Spec == Init /\ [][Next]_<<next, calls, last>>

=============================================================================

--------------------------- MODULE StreamReaderAt ---------------------------
(***************************************************************************)
(* streamReaderAt (lib/zipslicer/directory.go), the io.ReaderAt that       *)
(* ReadStream wraps around a forward-only io.Reader: a ReadAt skips ahead  *)
(* to p by discarding, refuses to go back, and then makes one Read of the  *)
(* underlying reader.                                                      *)
(*                                                                         *)
(* The underlying stream holds StreamLen bytes, byte j being the value j,  *)
(* so the data a read returns is identified by its first position.  Its    *)
(* Read may return fewer bytes than asked for, as the io.Reader contract   *)
(* allows (a network body or a pipe does).                                 *)
(***************************************************************************)
EXTENDS Naturals

CONSTANTS
    StreamLen,  \* bytes in the underlying stream
    MaxRead,    \* largest buffer a caller passes to ReadAt
    MaxCalls    \* ReadAt calls a behaviour makes

ASSUME StreamLen \in Nat /\ MaxRead \in Nat \ {0} /\ MaxCalls \in Nat

VARIABLES
    pos,        \* r.pos: the offset the wrapper believes the stream is at
    consumed,   \* bytes the underlying reader has actually delivered
    calls,      \* ReadAt calls made so far
    last        \* the last call: [p, want, n, from, err]

vars == <<pos, consumed, calls, last>>

Min2(a, b) == IF a <= b THEN a ELSE b

Init ==
    /\ pos = 0
    /\ consumed = 0
    /\ calls = 0
    /\ last = [p |-> 0, want |-> 0, n |-> 0, from |-> 0, err |-> "none"]

\* r.r.Read(d) with len(d) = want, once the stream has delivered at
\* bytes: some k bytes, 0 < k <= want, while it has data, the last of
\* them possibly with EOF; 0 bytes and EOF once it has none.
ReadResultsAt(at, want) ==
    IF at = StreamLen THEN {[k |-> 0, err |-> "EOF"]}
    ELSE {r \in [k : 1..Min2(want, StreamLen - at), err : {"nil", "EOF"}] :
            r.err = "EOF" => r.k = StreamLen - at}

Failed(p, want, why) == [p |-> p, want |-> want, n |-> 0, from |-> 0, err |-> why]

\* Mutant: the skip does not set r.pos = p.
ReadAtNoSeek(p, want) ==
    /\ calls < MaxCalls
    /\ calls' = calls + 1
    /\ CASE p < pos ->
              /\ last' = Failed(p, want, "backwards")
              /\ UNCHANGED <<pos, consumed>>
         [] consumed + (p - pos) > StreamLen ->
              /\ last' = Failed(p, want, "EOF")
              /\ consumed' = StreamLen
              /\ UNCHANGED pos
         [] OTHER ->
              LET at == consumed + (p - pos) IN
              \E r \in ReadResultsAt(at, want) :
                  /\ consumed' = at + r.k
                  /\ pos' = pos + r.k
                  /\ last' = [p |-> p, want |-> want, n |-> r.k, from |-> at, err |-> r.err]

\* Mutant: r.pos advanced by len(d) rather than by the count Read returned.
ReadAtAdvanceWant(p, want) ==
    /\ calls < MaxCalls
    /\ calls' = calls + 1
    /\ CASE p < pos ->
              /\ last' = Failed(p, want, "backwards")
              /\ UNCHANGED <<pos, consumed>>
         [] consumed + (p - pos) > StreamLen ->
              /\ last' = Failed(p, want, "EOF")
              /\ consumed' = StreamLen
              /\ UNCHANGED pos
         [] OTHER ->
              LET at == consumed + (p - pos) IN
              \E r \in ReadResultsAt(at, want) :
                  /\ consumed' = at + r.k
                  /\ pos' = p + want
                  /\ last' = [p |-> p, want |-> want, n |-> r.k, from |-> at, err |-> r.err]

\* ReadAt(d, p) with len(d) = want: a backward p is refused; a forward p
\* is reached by io.CopyN to ioutil.Discard, which on hitting the end of
\* the stream has consumed what was left and leaves r.pos where it was;
\* then one r.r.Read(d), whose count advances r.pos.
ReadAt(p, want) ==
    /\ calls < MaxCalls
    /\ calls' = calls + 1
    /\ CASE p < pos ->
              /\ last' = Failed(p, want, "backwards")
              /\ UNCHANGED <<pos, consumed>>
         [] consumed + (p - pos) > StreamLen ->
              /\ last' = Failed(p, want, "EOF")
              /\ consumed' = StreamLen
              /\ UNCHANGED pos
         [] OTHER ->
              LET at == consumed + (p - pos) IN
              \E r \in ReadResultsAt(at, want) :
                  /\ consumed' = at + r.k
                  /\ pos' = p + r.k
                  /\ last' = [p |-> p, want |-> want, n |-> r.k, from |-> at, err |-> r.err]

Next == \E p \in 0..StreamLen, want \in 1..MaxRead : ReadAt(p, want)

Spec == Init /\ [][Next]_vars

-----------------------------------------------------------------------------
(* Properties.                                                             *)

TypeOK ==
    /\ pos \in 0..StreamLen /\ consumed \in 0..StreamLen /\ calls \in 0..MaxCalls
    /\ last.err \in {"none", "nil", "EOF", "backwards"}
    /\ last.n \in 0..last.want

\* The result of the last call as the abstract specification sees it: a
\* call that returned no bytes, whatever its error, returned no data.
AbsLast ==
    IF last.err = "none" \/ last.n > 0 THEN last
    ELSE [last EXCEPT !.from = 0, !.err = "fail"]

Forward == INSTANCE ForwardReaderAt WITH next <- consumed, last <- AbsLast

\* streamReaderAt implements a forward-only io.ReaderAt: whatever sequence
\* of offsets the caller reads at, through skips, short reads and a skip
\* that ran off the end (after which r.pos lags the stream), every byte a
\* ReadAt returns is the stream's byte at the offset asked for, and a call
\* returns no data only behind the stream or at its end.
ImplementsForwardReaderAt == Forward!Spec

\* The io.ReaderAt contract: when ReadAt returns fewer bytes than len(d),
\* it returns a non-nil error saying why.
ReaderAtContract ==
    last.err = "nil" => last.n = last.want

=============================================================================

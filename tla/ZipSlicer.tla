------------------------------ MODULE ZipSlicer ------------------------------
(***************************************************************************)
(* A caller of lib/zipslicer: it reads an input archive (Read), copies     *)
(* its entries into one or more new directories (AddFileContents, which    *)
(* ends in AddFile), writes their central directories (WriteDirectory),    *)
(* and may instead cut the input after its first n entries (Truncate).     *)
(*                                                                         *)
(* The *File objects Read returns are shared: AddFileContents appends the  *)
(* very same *File to the destination and overwrites its Offset, so the    *)
(* heap of File objects, fobj, is one variable that the source directory   *)
(* and every destination point into.                                       *)
(***************************************************************************)
EXTENDS ZipFormat, FiniteSets

CONSTANTS
    Inputs,     \* the archives the caller may be given
    Dsts,       \* the new directories the caller builds from the input
    MinWritten, \* the fewest entries of an archive the caller writes
    KeepAll     \* the caller may Truncate at n = len(File), keeping every entry

VARIABLES
    input,      \* the input archive, bytes of the io.ReaderAt
    src,        \* the Directory Read returned: its state and end records
    fobj,       \* the *File objects: fobj[i] is src.File[i]
    dst,        \* dst[d]: the Directory being built, File as indices into fobj
    body,       \* body[d]: what AddFileContents wrote to d's output
    out,        \* out[d]: the whole archive once WriteDirectory has run
    trunc       \* the output of Truncate on the source, once called

vars == <<input, src, fobj, dst, body, out, trunc>>

-----------------------------------------------------------------------------

Init ==
    /\ input \in Inputs
    /\ src = [state |-> "unread", dir |-> FailDir]
    /\ fobj = <<>>
    /\ dst = [d \in Dsts |-> [state |-> "open", file |-> <<>>, dirLoc |-> 0]]
    /\ body = [d \in Dsts |-> <<>>]
    /\ out = [d \in Dsts |-> <<>>]
    /\ trunc = [state |-> "none", n |-> 0, out |-> <<>>]

\* Read(r, size): FindDirectory, then ReadWithDirectory on the bytes from
\* the directory to the end.
ReadInput ==
    /\ src.state = "unread"
    /\ LET d == Read(input)
       IN /\ src' = [state |-> IF d.ok THEN "ok" ELSE "failed", dir |-> d]
          /\ fobj' = d.files
    /\ UNCHANGED <<input, dst, body, out, trunc>>

\* AddFile(f) for fobj[i] whose entry is size bytes long: it moves to the
\* load position, dropping its cached header if that changes its offset.
AddFile(d, i, size) ==
    LET offset == dst[d].dirLoc
    IN /\ fobj' = [fobj EXCEPT ![i].raw = IF fobj[i].off # offset THEN NoRec ELSE @,
                               ![i].off = offset]
       /\ dst' = [dst EXCEPT ![d].dirLoc = @ + size, ![d].file = Append(@, i)]

\* Mutant: AddFile before the copy, so the copy reads at the new offset.
AddFileContentsLate(d, i) ==
    /\ src.state = "ok"
    /\ dst[d].state = "open"
    /\ i \notin ToSet(dst[d].file)
    /\ LET lfh == RecordAt(input, dst[d].dirLoc)
       IN IF lfh.kind # "local"
          THEN /\ dst' = [dst EXCEPT ![d].state = "failed"]
               /\ UNCHANGED <<fobj, body>>
          ELSE /\ body' = [body EXCEPT ![d] = Append(@, lfh)]
               /\ AddFile(d, i, RecordAt(input, fobj[i].off).len)
    /\ UNCHANGED <<input, src, out, trunc>>

\* AddFileContents(f, w): reads f's local header at f.Offset from f's
\* reader, writes header, data and descriptor to w, then AddFile(f).  The
\* caller copies an entry into a given output at most once.
AddFileContents(d, i) ==
    /\ src.state = "ok"
    /\ dst[d].state = "open"
    /\ i \notin ToSet(dst[d].file)
    /\ LET lfh == RecordAt(input, fobj[i].off)
       IN IF lfh.kind # "local"
          THEN /\ dst' = [dst EXCEPT ![d].state = "failed"]
               /\ UNCHANGED <<fobj, body>>
          ELSE /\ body' = [body EXCEPT ![d] = Append(@, lfh)]
               /\ AddFile(d, i, lfh.len)
    /\ UNCHANGED <<input, src, out, trunc>>

\* WriteDirectory(w, w, forceZip64) after the entries written to w.
WriteDir(d, forceZip64) ==
    /\ dst[d].state = "open"
    /\ Len(dst[d].file) >= MinWritten
    /\ dst' = [dst EXCEPT ![d].state = "written"]
    /\ out' = [out EXCEPT ![d] =
                 body[d] \o WriteDirectory([k \in DOMAIN dst[d].file |-> fobj[dst[d].file[k]]],
                                           dst[d].dirLoc, forceZip64)]
    /\ UNCHANGED <<input, src, fobj, body, trunc>>

\* Truncate(n, w, w) on the freshly read source; n indexes src.File, and
\* is the number of entries kept.
TruncateSrc(n) ==
    /\ src.state = "ok"
    /\ trunc.state = "none"
    /\ \A d \in Dsts : dst[d].file = <<>>
    /\ n \in MinWritten..Len(fobj) - (IF KeepAll THEN 0 ELSE 1)
    /\ LET r == Truncate(src.dir, fobj, n, input)
       IN trunc' = [state |-> IF r.ok THEN "ok" ELSE "failed", n |-> n, out |-> r.out]
    /\ UNCHANGED <<input, src, fobj, dst, body, out>>

Next ==
    \/ ReadInput
    \/ \E d \in Dsts, i \in DOMAIN fobj : AddFileContents(d, i)
    \/ \E d \in Dsts, force \in BOOLEAN : WriteDir(d, force)
    \/ \E n \in 0..Len(fobj) : TruncateSrc(n)

Spec == Init /\ [][Next]_vars

-----------------------------------------------------------------------------
(* Properties.                                                             *)

\* The entries of an archive, in the order they are stored.
Entries(arch) == SelectSeq(arch, LAMBDA r : r.kind = "local")

Names(s) == [k \in DOMAIN s |-> s[k].name]

\* A directory entry e describes the bytes of arch at its offset.
Describes(arch, e) ==
    LET l == RecordAt(arch, e.off)
    IN l.kind = "local" /\ l.name = e.name /\ l.csize = e.csize /\ l.usize = e.usize

\* Read of a well-formed input archive succeeds, and every *File it
\* returns gives the name, sizes and offset of an entry of the input, in
\* order (ReadWithDirectory's ZIP64 extra decoding, FindDirectory).
ReadAcceptsInput ==
    src.state # "unread" =>
        /\ src.state = "ok"
        /\ Names(src.dir.files) = Names(Entries(input))
        /\ \A k \in DOMAIN src.dir.files : Describes(input, src.dir.files[k])

\* What AddFileContents writes for an entry is the content of the *File it
\* was given: the k-th entry written to output d is the k-th file added.
CopyFaithful ==
    \A d \in Dsts : \A k \in DOMAIN body[d] :
        body[d][k].name = fobj[dst[d].file[k]].name

\* Reading back an archive that AddFileContents and WriteDirectory wrote
\* yields the entries that were added, in order, each pointing at its own
\* content (Read(Write(Z)) = Z, across the ZIP64 thresholds).
WriteRoundTrip ==
    \A d \in Dsts : dst[d].state = "written" =>
        LET r == Read(out[d])
        IN /\ r.ok
           /\ r.dirLoc = SizeOf(body[d])
           /\ Names(r.files) = [k \in DOMAIN dst[d].file |-> fobj[dst[d].file[k]].name]
           /\ \A k \in DOMAIN r.files : Describes(out[d], r.files[k])

\* Truncate(n) of a read archive succeeds and re-reading its output gives
\* the first n entries of the input with their contents unchanged.
TruncateRoundTrip ==
    trunc.state # "none" =>
        LET r == Read(trunc.out)
        IN /\ trunc.state = "ok"
           /\ r.ok
           /\ Names(r.files) = SubSeq(Names(src.dir.files), 1, trunc.n)
           /\ \A k \in DOMAIN r.files : Describes(trunc.out, r.files[k])

\* When WriteDirectory emits a ZIP64 end record, its version-needed is at
\* least every entry's reader version (spec 4.7: the maximum of the
\* entries' versions and 4.5).
Zip64VersionCoversEntries ==
    \A d \in Dsts : dst[d].state = "written" =>
        \A j \in DOMAIN out[d] : out[d][j].kind = "end64" =>
            \A k \in DOMAIN dst[d].file : out[d][j].rv >= fobj[dst[d].file[k]].rv

=============================================================================

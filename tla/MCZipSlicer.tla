----------------------------- MODULE MCZipSlicer -----------------------------
(***************************************************************************)
(* Model values for ZipSlicer.  The input archives are those other ZIP     *)
(* writers produce: entries stored back to back after an optional leading  *)
(* stub, ZIP64 records wherever a field does not fit.  AllFields chooses   *)
(* how a writer fills a ZIP64 extra: Go's archive/zip stores all three     *)
(* 64-bit values and sets every 32-bit field to the sentinel; Info-ZIP and *)
(* APPNOTE 4.5.3 store only the values whose 32-bit field overflowed.      *)
(* ExactFits models writers for which an uncompressed size of exactly      *)
(* 0xFFFFFFFF still fits a 32-bit field.                                   *)
(***************************************************************************)
EXTENDS ZipSlicer

CONSTANTS
    CSizes,         \* compressed sizes an entry may have
    USizes,         \* uncompressed sizes an entry may have
    ReaderVersions, \* version-needed values an entry may carry
    MaxEntries,     \* at most this many entries per input
    Stubs,          \* lengths of leading data before the first entry
    AllFields,      \* TRUE: Go-style ZIP64 extras, FALSE: APPNOTE-style
    ExactFits       \* TRUE: a size of exactly 0xFFFFFFFF is stored as is, in
                    \* a 32-bit field with no ZIP64 extra (older zip32 writers)

\* The entries an input may hold.
EntryKinds == [csize : CSizes, usize : USizes, rv : ReaderVersions]

Fit(v, big) == IF big THEN uint32Max ELSE v

\* The archive a writer produces for entries ents after a stub of length gap.
InputArchive(gap, ents) ==
    LET n      == Len(ents)
        locals == [i \in 1..n |-> LocalRec(i, ents[i].csize, ents[i].usize)]
        off(i) == gap + SizeOf(SubSeq(locals, 1, i - 1))
        hdr(i) ==
            LET u == ents[i].usize  c == ents[i].csize  o == off(i)
                bu == IF ExactFits THEN u > uint32Max ELSE u >= uint32Max
                bc == c >= uint32Max  bo == o >= uint32Max
                any == bu \/ bc \/ bo
                extra == IF AllFields
                         THEN IF any THEN <<u, c, o>> ELSE <<>>
                         ELSE (IF bu THEN <<u>> ELSE <<>>) \o (IF bc THEN <<c>> ELSE <<>>)
                              \o (IF bo THEN <<o>> ELSE <<>>)
                sent(v, b) == Fit(v, IF AllFields THEN any ELSE b)
            IN HeaderRec(i, ents[i].rv, sent(c, bc), sent(u, bu), sent(o, bo), extra)
        hdrs   == [i \in 1..n |-> hdr(i)]
        cdoff  == gap + SizeOf(locals)
        cdsize == SizeOf(hdrs)
        z64    == n >= uint16Max \/ cdsize >= uint32Max \/ cdoff >= uint32Max
        e16(v) == IF (AllFields /\ z64) \/ v >= uint16Max THEN uint16Max ELSE v
        e32(v) == IF (AllFields /\ z64) \/ v >= uint32Max THEN uint32Max ELSE v
        eocd   == IF z64
                  THEN << End64Rec(n, cdsize, cdoff, zip45), Loc64Rec(cdoff + cdsize),
                          EndRec(e16(n), e32(cdsize), e32(cdoff)) >>
                  ELSE << EndRec(n, cdsize, cdoff) >>
    IN (IF gap > 0 THEN <<GapRec(gap)>> ELSE <<>>) \o locals \o hdrs \o eocd

MCInputs ==
    {InputArchive(g, ents) : g \in Stubs, ents \in UNION {[1..n -> EntryKinds] : n \in 1..MaxEntries}}

=============================================================================

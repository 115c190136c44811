------------------------------ MODULE ZipFormat ------------------------------
(***************************************************************************)
(* The ZIP layout as lib/zipslicer/directory.go reads and writes it.       *)
(*                                                                         *)
(* An archive is a sequence of records: a local entry (local file header,  *)
(* data and data descriptor, as one record), a central-directory header,   *)
(* the ZIP64 end record, the ZIP64 locator and the end record.  Every      *)
(* record carries its length, so positions in the archive are sums of     *)
(* lengths and a ReadAt at a position finds the record that starts there,  *)
(* or nothing (wrong signature).  Names, CRCs, comments and the byte       *)
(* encoding are abstracted away; an entry's name is a number.              *)
(*                                                                         *)
(* The 16- and 32-bit fields keep a width, W16 and W32, scaled down so     *)
(* that TLC reaches the sentinel values 0xFFFF and 0xFFFFFFFF.             *)
(***************************************************************************)
EXTENDS Integers, Sequences, SequencesExt

CONSTANTS
    W16,        \* width standing for the 16-bit count fields
    W32,        \* width standing for the 32-bit size and offset fields
    LfhLen,     \* length of a local header plus data descriptor
    HdrLen,     \* length of a central-directory header without a ZIP64 extra
    End64Len,   \* length of the ZIP64 end-of-central-directory record
    Loc64Len,   \* length of the ZIP64 end locator
    EndLen      \* length of the end-of-central-directory record (no comment)

ASSUME /\ W16 \in Nat \ {0} /\ W32 \in Nat \ {0} /\ W16 <= W32
       /\ \A l \in {LfhLen, HdrLen, End64Len, Loc64Len, EndLen} : l \in Nat \ {0}

uint16Max == 2^W16 - 1
uint32Max == 2^W32 - 1
zip20 == 20
zip45 == 45

\* Go's uint16(x) and uint32(x) conversions.
Uint16(x) == x % 2^W16

Uint32(x) == x % 2^W32

MaxOf(S) == CHOOSE m \in S : \A x \in S : x <= m

-----------------------------------------------------------------------------
(* Records.  Every record has every field, unused ones zero.               *)

NoRec == [kind |-> "none", len |-> 0, name |-> 0, rv |-> 0, count |-> 0,
          csize |-> 0, usize |-> 0, off |-> 0, extra |-> <<>>]

Records == [kind : {"none", "local", "gap", "cdh", "end64", "loc64", "end"},
            len : Nat, name : Nat, rv : Nat, count : Nat, csize : Nat,
            usize : Nat, off : Nat, extra : Seq(Nat)]

LocalRec(name, csize, usize) ==
    [NoRec EXCEPT !.kind = "local", !.len = LfhLen + csize, !.name = name,
                  !.csize = csize, !.usize = usize]

GapRec(len) == [NoRec EXCEPT !.kind = "gap", !.len = len]

\* A central-directory header.  extra is the data of its ZIP64 extra
\* block (tag 0x0001) as a sequence of 64-bit values, <<>> when absent.
HeaderRec(name, rv, csize, usize, off, extra) ==
    [NoRec EXCEPT !.kind = "cdh", !.len = HdrLen + Len(extra), !.name = name,
                  !.rv = rv, !.csize = csize, !.usize = usize, !.off = off,
                  !.extra = extra]

End64Rec(count, size, off, rv) ==
    [NoRec EXCEPT !.kind = "end64", !.len = End64Len, !.count = count,
                  !.csize = size, !.off = off, !.rv = rv]

Loc64Rec(off) == [NoRec EXCEPT !.kind = "loc64", !.len = Loc64Len, !.off = off]

EndRec(count, size, off) ==
    [NoRec EXCEPT !.kind = "end", !.len = EndLen, !.count = count,
                  !.csize = size, !.off = off]

-----------------------------------------------------------------------------
(* Positions.                                                              *)

SizeOf(s) == FoldSeq(LAMBDA r, acc : r.len + acc, 0, s)

Position(arch, k) == SizeOf(SubSeq(arch, 1, k - 1))

IndexAt(arch, p) == {k \in DOMAIN arch : Position(arch, k) = p /\ arch[k].len > 0}

\* ReadAt(p): the record starting at p, NoRec if none does.
RecordAt(arch, p) ==
    IF IndexAt(arch, p) = {} THEN NoRec ELSE arch[CHOOSE k \in IndexAt(arch, p) : TRUE]

\* The bytes from p to the end of the archive.
RecordsFrom(arch, p) ==
    IF IndexAt(arch, p) = {} THEN <<>>
    ELSE SubSeq(arch, CHOOSE k \in IndexAt(arch, p) : TRUE, Len(arch))

-----------------------------------------------------------------------------
(* Reading (FindDirectory, ReadWithDirectory, Read).                       *)

\* A *File as ReadWithDirectory builds it; raw is the cached header.
FileRec(name, rv, csize, usize, off, raw) ==
    [name |-> name, rv |-> rv, csize |-> csize, usize |-> usize, off |-> off, raw |-> raw]

FailDir == [ok |-> FALSE, files |-> <<>>, size |-> 0, dirLoc |-> 0,
            end64 |-> NoRec, loc64 |-> NoRec, end |-> NoRec]

\* The offset of the central directory, or -1 for an error.
FindDirectory(arch) ==
    LET pos   == SizeOf(arch) - EndLen - Loc64Len
        loc64 == RecordAt(arch, pos)
        end   == RecordAt(arch, pos + Loc64Len)
    IN CASE pos < 0 \/ end.kind # "end" -> -1
         [] end.count = uint16Max \/ end.csize = uint32Max \/ end.off = uint32Max ->
              IF loc64.kind = "loc64" /\ RecordAt(arch, loc64.off).kind = "end64"
              THEN RecordAt(arch, loc64.off).off
              ELSE -1
         [] OTHER -> end.off

\* Mutant: the compressed and uncompressed sizes taken from each other's
\* slot of the ZIP64 extra.
DecodeHeaderSwapped(h) ==
    LET e == h.extra
    IN [file |-> FileRec(h.name, h.rv,
                         IF h.csize = uint32Max /\ Len(e) >= 1 THEN e[1] ELSE h.csize,
                         IF h.usize = uint32Max /\ Len(e) >= 2 THEN e[2] ELSE h.usize,
                         IF h.off = uint32Max /\ Len(e) >= 3 THEN e[3] ELSE h.off,
                         h),
        missing |-> (h.csize = uint32Max /\ Len(e) < 1) \/ (h.off = uint32Max /\ Len(e) < 3)]

\* Mutant: a missing ZIP64 uncompressed size is an error too, as APPNOTE
\* 4.5.3 requires, so a size of exactly 0xFFFFFFFF in a zip32 header fails.
DecodeHeaderStrictUSize(h) ==
    LET e == h.extra
    IN [file |-> FileRec(h.name, h.rv,
                         IF h.csize = uint32Max /\ Len(e) >= 2 THEN e[2] ELSE h.csize,
                         IF h.usize = uint32Max /\ Len(e) >= 1 THEN e[1] ELSE h.usize,
                         IF h.off = uint32Max /\ Len(e) >= 3 THEN e[3] ELSE h.off,
                         h),
        missing |-> (h.usize = uint32Max /\ Len(e) < 1) \/ (h.csize = uint32Max /\ Len(e) < 2)
                    \/ (h.off = uint32Max /\ Len(e) < 3)]

\* One central-directory header: the sentinel fields are taken from the
\* ZIP64 extra at the fixed positions 8, 16 and 24 of its data.
DecodeHeader(h) ==
    LET needUSize == h.usize = uint32Max
        needCSize == h.csize = uint32Max
        needOffset == h.off = uint32Max
        e == h.extra
    IN [file |-> FileRec(h.name, h.rv,
                         IF needCSize /\ Len(e) >= 2 THEN e[2] ELSE h.csize,
                         IF needUSize /\ Len(e) >= 1 THEN e[1] ELSE h.usize,
                         IF needOffset /\ Len(e) >= 3 THEN e[3] ELSE h.off,
                         h),
        missing |-> (needCSize /\ Len(e) < 2) \/ (needOffset /\ Len(e) < 3)]

LeadingHeaders(cd) ==
    MaxOf({k \in 0..Len(cd) : \A j \in 1..k : cd[j].kind = "cdh"})

ReadWithDirectory(size, cd) ==
    LET nh    == LeadingHeaders(cd)
        dec   == [k \in 1..nh |-> DecodeHeader(cd[k])]
        files == [k \in 1..nh |-> dec[k].file]
        at(k) == IF k <= Len(cd) THEN cd[k] ELSE NoRec
        dir(e64, l64, end) == [ok |-> TRUE, files |-> files, size |-> size,
                               dirLoc |-> size - SizeOf(cd),
                               end64 |-> e64, loc64 |-> l64, end |-> end]
    IN CASE \E k \in 1..nh : dec[k].missing -> FailDir
         [] at(nh + 1).kind = "end64" -> dir(at(nh + 1), at(nh + 2), at(nh + 3))
         [] at(nh + 1).kind = "end"   -> dir(NoRec, NoRec, at(nh + 1))
         [] OTHER -> FailDir

Read(arch) ==
    LET loc == FindDirectory(arch)
    IN IF loc < 0 \/ loc > SizeOf(arch) THEN FailDir
       ELSE ReadWithDirectory(SizeOf(arch), RecordsFrom(arch, loc))

-----------------------------------------------------------------------------
(* Writing (GetDirectoryHeader, WriteDirectory, Truncate).                 *)

\* File.GetDirectoryHeader (file.go): the cached header when there is one;
\* otherwise a fresh one, whose 32-bit fields all become sentinels and
\* whose ZIP64 extra holds all three 64-bit values when any exceeds them.
EncodeHeader(f) ==
    LET big == f.csize >= uint32Max \/ f.usize >= uint32Max \/ f.off >= uint32Max
        f32(v) == IF big THEN uint32Max ELSE v
    IN HeaderRec(f.name, f.rv, f32(f.csize), f32(f.usize), f32(f.off),
                 IF big THEN <<f.usize, f.csize, f.off>> ELSE <<>>)

GetDirectoryHeader(f) == IF f.raw # NoRec THEN f.raw ELSE EncodeHeader(f)

\* Mutant: the count compared with > instead of >=.
NeedZip64Strict(count, size, cdoff, forceZip64) ==
    count > uint16Max \/ size >= uint32Max \/ cdoff >= uint32Max \/ forceZip64

NeedZip64(count, size, cdoff, forceZip64) ==
    count >= uint16Max \/ size >= uint32Max \/ cdoff >= uint32Max \/ forceZip64

\* Directory.WriteDirectory for the files fs, with the directory at cdoff:
\* the headers followed by the end records, as one sequence.
WriteDirectory(fs, cdoff, forceZip64) ==
    LET hs    == [k \in DOMAIN fs |-> GetDirectoryHeader(fs[k])]
        count == Len(fs)
        size  == SizeOf(hs)
        minVersion == IF NeedZip64(count, size, cdoff, forceZip64) THEN zip45
                      ELSE MaxOf({zip20} \cup {fs[k].rv : k \in DOMAIN fs})
    IN hs \o
       IF minVersion = zip45
       THEN << End64Rec(count, size, cdoff, minVersion),
               Loc64Rec(cdoff + size),
               EndRec(uint16Max, uint32Max, uint32Max) >>
       ELSE << EndRec(Uint16(count), Uint32(size), Uint32(cdoff)) >>

\* Mutant: the ZIP64 locator pointing at the directory instead of past it.
TruncateLocAtDir(d, fs, n, arch) ==
    LET body     == [i \in 1..n |-> RecordAt(arch, fs[i].off)]
        cdOffset == fs[n + 1].off
        hs       == [i \in 1..n |-> GetDirectoryHeader(fs[i])]
        size     == SizeOf(hs)
    IN CASE \E i \in 1..n : body[i].kind # "local" -> [ok |-> FALSE, out |-> <<>>]
         [] n = Len(fs) -> [ok |-> FALSE, out |-> body]  \* d.File[n]: index out of range
         [] d.end64.kind = "end64" ->
              [ok |-> TRUE,
               out |-> body \o hs \o
                       << [d.end64 EXCEPT !.count = n, !.csize = size, !.off = cdOffset],
                          [d.loc64 EXCEPT !.off = cdOffset],
                          d.end >>]
         [] cdOffset >= uint32Max \/ n >= uint16Max -> [ok |-> FALSE, out |-> <<>>]
         [] OTHER ->
              [ok |-> TRUE,
               out |-> body \o hs \o
                       << [d.end EXCEPT !.count = Uint16(n), !.csize = Uint32(size),
                                        !.off = Uint32(cdOffset)] >>]

\* Directory.Truncate(n, body, dir) with body and dir the same writer, for
\* a directory d read from arch: [ok, out] with out the bytes written.
Truncate(d, fs, n, arch) ==
    LET body     == [i \in 1..n |-> RecordAt(arch, fs[i].off)]
        cdOffset == fs[n + 1].off
        hs       == [i \in 1..n |-> GetDirectoryHeader(fs[i])]
        size     == SizeOf(hs)
    IN CASE \E i \in 1..n : body[i].kind # "local" -> [ok |-> FALSE, out |-> <<>>]
         [] n = Len(fs) -> [ok |-> FALSE, out |-> body]  \* d.File[n]: index out of range
         [] d.end64.kind = "end64" ->
              [ok |-> TRUE,
               out |-> body \o hs \o
                       << [d.end64 EXCEPT !.count = n, !.csize = size, !.off = cdOffset],
                          [d.loc64 EXCEPT !.off = cdOffset + size],
                          d.end >>]
         [] cdOffset >= uint32Max \/ n >= uint16Max -> [ok |-> FALSE, out |-> <<>>]
         [] OTHER ->
              [ok |-> TRUE,
               out |-> body \o hs \o
                       << [d.end EXCEPT !.count = Uint16(n), !.csize = Uint32(size),
                                        !.off = Uint32(cdOffset)] >>]

=============================================================================

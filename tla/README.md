# TLA+ models of relic's ZIP slicer and timestamp code

The repository holds three source files:

| file | what it is |
|---|---|
| `src/lib/zipslicer/directory.go` | the ZIP central-directory reader and writer (package `zipslicer`) |
| `src/unnamed/part_001` | PKCS#9 timestamp attachment and verification (package `pkcs9`) |
| `src/unnamed/part_000` | an example server configuration (YAML, no code) |

`spec.md` describes a larger signing server. It covers token backends, the worker pool, a key-info cache, the timestamper client, signer plugins, authorization and the HTTP router. None of that code is in the repository.

## 1. Inventory

### ZIP slicer, `directory.go`
- **State.** A `Directory` holds:
  - `File []*File`: shared pointers, each with Offset, sizes, ReaderVersion and a cached raw central-directory header `raw`.
  - `Size`.
  - `DirLoc`: the offset of the directory, which is also the load position for AddFile.
  - the reader `r`.
  - the parsed end records `end64`, `loc64` and `end`.

  `streamReaderAt` holds the underlying reader and `pos`.
- **Operations.**
  - `FindDirectory`: reads the end record at a fixed distance from the end, then follows the ZIP64 locator when a field is a sentinel.
  - `ReadWithDirectory`: parses the central-directory headers, including the ZIP64 extra, then the end records.
  - `Read` and `ReadStream`.
  - `Truncate(n)`: writes the first n entries, their headers and patched end records.
  - `WriteDirectory(force)`: writes the headers and chooses 32-bit or ZIP64 end records.
  - `AddFile`: moves a File to the load position and drops its cached header if the offset changes.
  - `AddFileContents`: copies local header, data and descriptor from the File's reader, then calls AddFile.
  - `streamReaderAt.ReadAt`: skips forward, refuses to go back, then makes one underlying Read.
- **Interactions.**
  - File objects are shared by pointer between the directory they were read from and every directory they are added to.
  - `Truncate` and `AddFileContents` read entry bytes through the File's reader. With `ReadStream` that reader is the forward-only shim.
  - `GetDirectoryHeader`, `GetTotalSize` and `GetLocalHeader` belong to `file.go`, which is not in the repository.
- **Hard parts.**
  - Boundaries at the 16- and 32-bit sentinels.
  - Agreement between the writer's ZIP64 choice and the reader's sentinel test.
  - Aliasing of `*File` between directories.
  - Cached headers that may be stale.
  - Archives with leading data.
  - Short reads and skips that fail part way on a stream.
- **Correctness.**
  - Read accepts every well-formed archive and returns its entries.
  - Read(Write(Z)) = Z.
  - Truncate(n) followed by Read gives the first n entries unchanged.
  - A copy copies the given entry.
  - ZIP64 version-needed covers every entry.
  - The stream shim returns the bytes at the offset asked for and keeps the io.ReaderAt contract.

### Timestamp attachment, `part_001`
- **State.** The `SignerInfo` of a PKCS#7 `SignedData`, and in particular its unauthenticated attributes.
- **Operations.**
  - `TimestampAndMarshal`: obtains a token, attaches it under the RFC 3161 or the Authenticode OID, self-verifies, then marshals.
  - `VerifyPkcs7`: looks up the RFC 3161 OID, then the Authenticode OID, then a legacy counter-signature.
  - `VerifyOptionalTimestamp`, the two `VerifyChain`s, and `VerifyMicrosoftToken`, which only warns when the content does not match.
- **Interactions.** The Timestamper is called across the network under a context. The SignerInfo belongs to the caller and is changed in place.
- **Hard parts.**
  - The attribute is added before the self-check, so a failed call leaves a changed SignerInfo behind, and a retry stamps it twice.
  - The OID lookup order decides which token is verified.
- **Correctness.**
  - A successful call returns the counter-signature of the token just obtained.
  - A failed call leaves the SignerInfo as it was.
  - The timestamp's time is the one used for chain validation.

### Configuration, `part_000`
This is YAML data that documents tokens, keys, aliases and roles. It contains no operations to model.

## 2. Plan

1. **ZipFormat + ZipSlicer + StreamReaderAt.** Done. This is the code that changes bytes that other tools must read back.
2. **ForwardReaderAt.** Done. It is the abstract promise of the stream shim, which `StreamReaderAt` is checked to refine.
3. **Timestamp.** Done. It models `TimestampAndMarshal`, the OID lookup of `VerifyPkcs7`, and `VerifyChain`, with a caller that retries after an error.
4. **Left:**
   - Read order of the consumers in stream mode, which needs `file.go`.
   - Malformed inputs. The one malformed-looking case the code deliberately accepts, a bare 0xFFFFFFFF uncompressed size, is covered by `zip_exact_fits`.

   The worker pool, key-info cache and other server components of `spec.md` are dropped from the plan. Their code is not in this repository, and a model of the spec alone would not be a model of this program (see section 5).

## 3. Modules

### `ZipFormat.tla`: the byte layout and the pure operations
An archive is a sequence of records:
- `local`: one entry's local header, data and descriptor;
- `gap`: leading data;
- `cdh`: a central-directory header;
- `end64`, `loc64` and `end`: the end records.

Each record carries its length. A position is a sum of lengths, and `RecordAt(arch, p)` is `ReadAt` at p: the record that starts there, or none, which corresponds to a signature mismatch. A header's `extra` is the data of its ZIP64 extra block as a sequence of 64-bit values.

The fixed-width fields keep their width, scaled down. Go's `uint16(x)` and `uint32(x)` are `x % 2^W16` and `x % 2^W32`, and the sentinels are `2^W - 1`.

| Operator | Code |
|---|---|
| `FindDirectory` | `FindDirectory`, 42-73 |
| `DecodeHeader`, `LeadingHeaders`, `ReadWithDirectory` | `ReadWithDirectory`, 76-158 |
| `Read` | `Read`, 161-171 |
| `NeedZip64`, `WriteDirectory` | `WriteDirectory`, 235-310 |
| `Truncate` | `Truncate`, 183-228 |

`GetDirectoryHeader` and `EncodeHeader` come from `file.go`, which is absent, so they follow spec §4.7: the cached header if there is one, otherwise all 32-bit fields become sentinels and the ZIP64 extra holds all three values once any of them overflows.

### `ZipSlicer.tla`: a caller of the package
**Variables:**
- `input`: the archive behind the io.ReaderAt;
- `src`: what `Read` returned;
- `fobj`: the heap of `*File` objects, shared by all directories;
- `dst[d]`: a Directory under construction, with its `File` as indices into `fobj`, plus `DirLoc` and its state;
- `body[d]`: what the copies wrote to d's output;
- `out[d]`: the archive once WriteDirectory has run;
- `trunc`: the output of Truncate.

**Actions:**
- `ReadInput`;
- `AddFileContents(d, i)`, whose last step is `AddFile`. If no local header is found at the File's offset, the action fails and d is marked failed;
- `WriteDir(d, force)`;
- `TruncateSrc(n)`.

The caller may copy entries in any order, copies an entry into a given output at most once, and writes an archive with at least `MinWritten` entries. `TruncateSrc` runs on the freshly read directory, because copying rewrites the shared Files (see `source_reuse`).

`MCZipSlicer.tla` enumerates the inputs as archives written by other ZIP writers:
- entries stored back to back after an optional stub of length `Stubs`;
- ZIP64 end records whenever a count, size or offset does not fit;
- with `AllFields = TRUE`, a Go-style ZIP64 extra with all three values and all-sentinel fields;
- with `AllFields = FALSE`, an APPNOTE/Info-ZIP extra holding only the overflowed values;
- with `ExactFits = TRUE`, an uncompressed size of exactly the 32-bit sentinel stored as is, with no extra, as older zip32 writers do.

### `StreamReaderAt.tla` and `ForwardReaderAt.tla`: the forward-only shim
**Variables:**
- `pos` (`r.pos`);
- `consumed`: the bytes the underlying reader has actually delivered;
- `calls`;
- `last`, the last call's result: the offset asked for, the length wanted, the count returned, the stream position the data came from, and the error.

`ReadAt(p, want)` has three cases:
- a backward p is refused;
- a skip that runs past the end consumes the rest of the stream and leaves `pos` where it was;
- otherwise one underlying Read returns any count from 1 to want, possibly with EOF on the last bytes, as io.Reader allows.

`ForwardReaderAt` is the abstract specification: what the shim promises, without `pos`. A call either delivers 1..want bytes taken from offset p, which needs p at or after the first offset still available, or returns no data, which is allowed only behind the stream or at its end.

The refinement mapping is:
- the abstract `next` is `consumed`;
- a concrete result with no bytes is the abstract "no data", whatever its error.

The mapping holds even after a skip off the end, where `r.pos` lags the stream.

### `Timestamp.tla`: timestamp attachment and verification (`part_001`)
**Variables:**
- `call`: the arguments, which are fixed for a behaviour. They are whether there is a timestamper, whether the digest algorithm is known, whether the primary signature verifies, and whether the call is Authenticode.
- `attrs`: the SignerInfo's unauthenticated attributes, as `[oid, tok]`.
- `tokens`: the tokens the timestamper issued, each with its time and whether it verifies.
- `res`: the last call's error, the token it obtained, and the counter-signature it returned.
- `chk`: the last `VerifyChain` of the returned signature.
- a clock, `now`.

**Actions:**
- `Sign`: the caller's call of `TimestampAndMarshal`, the whole function as one step. It runs the digest check, the network call (error / valid token / invalid token), `AddStampTo*`, the self-check (`Content.Verify`, then `VerifyOptionalTimestamp` → `VerifyPkcs7`), and `Marshal`. Each early return is an error value. The caller calls once and again after each error, up to `MaxAttempts` calls. With `ReusePsd` it passes the same SignedData, which keeps the attributes the failed call added; otherwise it passes a fresh one.
- `Tick`: advances the clock.
- `CheckChain`: a relying party runs `TimestampedSignature.VerifyChain` now.

The certificates' NotAfter are `CertExpiry` and `TsaExpiry`.

`Add` and `GetOne` of `lib/pkcs7` and the token `Verify` are not in the repository. They follow spec 4.5: `Add` appends an attribute, `GetOne` returns the first with the OID, and a token verifies or not. A timestamp token stored under the legacy counter-signature OID does not decode as the SignerInfo `VerifyPkcs7` expects there, so that branch reports an error.

### `MicrosoftToken.tla`: legacy Authenticode token check (`part_001`)
`VerifyMicrosoftToken` is a pure function, so the module's initial states are every token it may be given: whether the token's signature verifies, whether its content parses, whether the content equals the encrypted digest, the signer's digest algorithm (known or not), and the signing time, absent or 1..2. One action, `Verify`, runs the whole function. `Timestamp` instantiates the module and adds the check as the action `VerifyMs`. The check shares no state with the signing calls, so the `timestamp` run covers it. The function:
- verify, then parse the content, each failing with an error;
- a content mismatch only logged (the `return` at line 186 is commented out);
- `PkixDigestToHash` with its error discarded, so an unknown algorithm gives the zero hash;
- the signing time, whose absence is an error.

## 4. Runs

| run | cfg | expect | what it shows |
|---|---|---|---|
| zip_rewrite | MCZipSlicer.cfg | pass | ReadAcceptsInput, CopyFaithful, WriteRoundTrip, TruncateRoundTrip: see below. 50,742 states. |
| zip_exact_fits | MCZipSlicer_exact.cfg | pass | ReadAcceptsInput, WriteRoundTrip, TruncateRoundTrip on archives from writers that store an uncompressed size of exactly 0xFFFFFFFF (7 at these widths) in the 32-bit field, with no ZIP64 extra. The reader accepts such entries, as Go's archive/zip does, although spec 4.7 calls a missing ZIP64 field malformed. Moving such an entry puts its size into a ZIP64 extra. 22,258 states. |
| zip_appnote_extra | MCZipSlicer_appnote.cfg | violation | Read rejects a valid ZIP64 extra that holds only the overflowed fields. |
| zip64_version | MCZipSlicer_version.cfg | violation | A forced or needed ZIP64 end record declares version 4.5 below an entry's 6.3. |
| truncate_stub | MCZipSlicer_stub.cfg | violation | Truncate of an archive with a leading stub writes offsets that miss their entries. |
| source_reuse | MCZipSlicer_reuse.cfg | violation | Copying entry 2 into `d1` moves the shared File to offset 0. Copying it into `d2` then writes entry 1's bytes. |
| empty_archive | MCZipSlicer_empty.cfg | violation | An archive with no entries, from WriteDirectory or Truncate(0), cannot be read back. |
| truncate_all | MCZipSlicer_all.cfg | violation | Truncate(n) with n = len(File), which keeps every entry, writes the entries' bytes and then panics on `d.File[n]`. |
| stream_reads | MCStreamReaderAt.cfg | pass | TypeOK, ImplementsForwardReaderAt: the shim refines the abstract forward-only ReaderAt. Whatever the read order, short reads or skips off the end, the data returned is the data at p. |
| stream_short_read | MCStreamReaderAt_short.cfg | violation | A short Read gives ReadAt n < len(d) with a nil error. |
| timestamp | MCTimestamp.cfg | pass | TypeOK, StampIsFresh, SelfCheckBlamesThisCall, MsTokenSound, StampOutlivesCert: see below. 562,176 states. |
| timestamp_retry | MCTimestamp_reuse.cfg | violation | A retry on the SignedData of a failed call keeps the rejected token first. The self-check then rejects the retry even though it obtained a valid token. |

What the zip_rewrite properties say (there is no type invariant for the ZIP model: every field value written passes through its Go `uint16`/`uint32` conversion, so no plausible code change yields an ill-typed state, and such an invariant would check nothing about the code):
- **ReadAcceptsInput:** every entry Read returns is named, sized and placed as in the input.
- **CopyFaithful:** the k-th entry written is the k-th File added.
- **WriteRoundTrip:** Read of what WriteDirectory wrote returns the added entries, in order, each pointing at its own bytes, and the directory offset equals the bytes written.
- **TruncateRoundTrip:** Truncate never fails on a read archive, and Read of its output gives the first n entries with their bytes.

What the timestamp properties say:
- **StampIsFresh:** a successful call returns the counter-signature of the token that call obtained (spec 8.4), and that token verifies.
- **SelfCheckBlamesThisCall:** the self-check fails only for a bad primary signature or a bad token of this call.
- **MsTokenSound:** `VerifyMicrosoftToken` returns a CounterSignature only for a token that verified and parsed. It carries that token's signing time and never the zero time, which `TimestampedSignature.VerifyChain` would read as "now". A token that does not match the signature is accepted, as spec 4.5 intends, so the property does not claim the binding.
- **StampOutlivesCert** (an action property): checking the returned timestamped signature again later gives the same answer, even after the signer certificate has expired (the doc comment of `VerifyChain`).

**Bounds.**
- `W16 = 2` and `W32 = 3` put the sentinels at 3 and 7.
- Entries have compressed size 1 or 6 (local record length 2 or 7), uncompressed size 1 or 8, and reader version 20 or 45.
- An input has up to 3 entries.

With these bounds the model reaches a count equal to the 16-bit sentinel, offsets and directory sizes at and past the 32-bit sentinel, and entries with sizes past it. Every mutant in PROJECT.json was found violating its property at these bounds. The timestamp model uses 3 calls, a clock of 0..3, and a signer certificate that expires at 1 and a TSA certificate at 2. This is enough for:
- a bad token followed by a good one;
- a stamp made before expiry and checked after it;
- a stamp made after expiry.

Every combination of the four call arguments is an initial state. The Microsoft-token check enumerates all 48 token shapes: two digest algorithms, one known and one not, and a signing time that is absent, 1 or 2. `zip_exact_fits` uses uncompressed sizes 1, 7 and 8 and a single reader version, so that it stays within the same time as the main run. The stream model uses a 5-byte stream, buffers of up to 3 bytes and 4 calls, which covers skips, short reads, EOF with data, and a skip past the end followed by more calls.

**Deadlock** is not checked: a rewrite session ends when its outputs are written, the stream model stops after `MaxCalls`. The timestamp caller stops after a success or `MaxAttempts` calls. No liveness property is stated, because every operation in the repository is a sequential call. Nothing in the code makes one step wait on another.

## 5. Not modelled, and why
- **Archive comments.** `FindDirectory` reads the end record at a fixed distance from the end, as spec 4.7.1 says, so an archive with a trailing comment is rejected. This is listed as a hazard. No input has a comment.
- **Names, CRCs, comments and extra fields other than ZIP64.** They are abstracted. An entry is identified by its name number, and its bytes by the local record found at its offset.
- **`file.go`.** It is not in the repository. Its header encoding follows the spec, and File objects that do not come from a read archive are not built, so AddFile is reached only through AddFileContents.
- **The consumers' read order in stream mode.** `GetLocalHeader`, `GetDataDescriptor` and `GetTotalSize` are in `file.go`, which is absent.
- **The configuration file.** It is data.
- **The server components of spec.md** (worker pool, key-info cache, timestamper client, plugins, authorization, router). Their code is not in this repository. A model written from the spec alone would check the design document, not this program, so none is built. Without them there is no concurrency, and no fairness or liveness property is justified: every modelled operation is a sequential call that returns.

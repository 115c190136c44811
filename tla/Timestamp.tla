------------------------------ MODULE Timestamp ------------------------------
(***************************************************************************)
(* pkcs9 (src/unnamed/part_001): TimestampAndMarshal attaches a timestamp  *)
(* token to the first SignerInfo of a PKCS#7 SignedData, self-checks the   *)
(* result and marshals it; VerifyPkcs7 finds the token again, and          *)
(* VerifyChain validates the signature's chain at the token's time.        *)
(*                                                                         *)
(* A caller signs once and, when TimestampAndMarshal returns an error, may *)
(* call it again (ReusePsd: on the same SignedData, which the call changed *)
(* in place; otherwise on a freshly assembled one).  A clock advances      *)
(* between calls, so a certificate can expire after a signature is made.   *)
(***************************************************************************)
EXTENDS Naturals, Sequences, SequencesExt

CONSTANTS
    MaxAttempts,  \* calls of TimestampAndMarshal the caller makes
    MaxTime,      \* the last instant of the clock
    CertExpiry,   \* the signer certificate's NotAfter
    TsaExpiry,    \* the timestamping certificate's NotAfter
    ReusePsd,     \* a retry passes the SignedData of the failed call
    MsAlgs,       \* digest algorithms a legacy token's signer may name
    MsKnown,      \* those PkixDigestToHash knows
    MsTimes       \* signing times a legacy token may carry

ASSUME MaxAttempts \in Nat \ {0} /\ {MaxTime, CertExpiry, TsaExpiry} \subseteq Nat
ASSUME ReusePsd \in BOOLEAN

\* The attribute OIDs the code stores and looks up.
OIDs == {"AttributeTimeStampToken", "SpcTimeStampToken", "AttributeCounterSign"}

\* What timestamper.Timestamp gives back: an error, or a token that does or
\* does not verify against the request's digest.
TsOutcomes == {"error", "good", "bad"}

VARIABLES
    now,       \* the clock
    call,      \* the caller's fixed arguments and the state of its SignedData
    attrs,     \* SignerInfos[0].UnauthenticatedAttributes: <<[oid, tok]>>
    tokens,    \* tokens[t]: the t-th token issued, [time, good]
    attempts,  \* calls made so far
    res,       \* the last call's result: [err, tok obtained, cs returned]
    chk,       \* the last VerifyChain of the returned signature: [done, ok]
    msTok,     \* a legacy Authenticode token a relying party checks
    msRes      \* VerifyMicrosoftToken's result for it

vars == <<now, call, attrs, tokens, attempts, res, chk, msTok, msRes>>

\* VerifyMicrosoftToken, on a token of its own: it shares no state with
\* the calls above.
MS == INSTANCE MicrosoftToken
        WITH token <- msTok, res <- msRes,
             Algs <- MsAlgs, Known <- MsKnown, Times <- MsTimes

NoResult == [err |-> "none", tok |-> 0, cs |-> 0]

Init ==
    /\ now = 0
    /\ call \in [timestamper : BOOLEAN,  \* timestamper != nil
                 hashOK : BOOLEAN,       \* PkixDigestToHash(DigestAlgorithm) ok
                 primaryOK : BOOLEAN,    \* the primary signature verifies
                 authenticode : BOOLEAN]
    /\ attrs = <<>>
    /\ tokens = <<>>
    /\ attempts = 0
    /\ res = NoResult
    /\ chk = [done |-> FALSE, ok |-> FALSE]
    /\ MS!Init

-----------------------------------------------------------------------------
(* pkcs7 attribute lists and token verification (lib/pkcs7, not in the     *)
(* repository): Add appends an attribute, GetOne finds the first one with  *)
(* the OID (0 when there is none, ErrNoAttribute).                         *)

Add(as, oid, t) == Append(as, [oid |-> oid, tok |-> t])

GetOne(as, oid) ==
    LET m == SelectSeq(as, LAMBDA a : a.oid = oid)
    IN IF m = <<>> THEN 0 ELSE Head(m).tok

\* Verify(&tst, EncryptedDigest, ...) of the t-th token of toks: its
\* signature and its imprint of the primary signature.
Verify(toks, t) == IF toks[t].good THEN [err |-> FALSE, cs |-> t]
                   ELSE [err |-> TRUE, cs |-> 0]

\* Mutant: the RFC 3161 stamp stored under another pkcs7 attribute OID.
AddStampSigningTime(as, t) == Add(as, "AttributeSigningTime", t)

AddStampToSignedData(as, t) == Add(as, "AttributeTimeStampToken", t)

\* Mutant: the Authenticode stamp stored under the counter-signature OID.
AddStampCounterSign(as, t) == Add(as, "AttributeCounterSign", t)

AddStampToSignedAuthenticode(as, t) == Add(as, "SpcTimeStampToken", t)

\* VerifyPkcs7: the RFC 3161 OID, then the Authenticode OID; when neither
\* is there, a legacy counter-signature (a bare SignerInfo, which a
\* timestamp token stored under that OID does not decode as), and with no
\* timestamp at all nil, nil.
VerifyPkcs7(toks, as) ==
    LET tst == LET t1 == GetOne(as, "AttributeTimeStampToken")
               IN IF t1 # 0 THEN t1 ELSE GetOne(as, "SpcTimeStampToken")
    IN CASE tst # 0 -> Verify(toks, tst)
         [] GetOne(as, "AttributeCounterSign") # 0 -> [err |-> TRUE, cs |-> 0]
         [] OTHER -> [err |-> FALSE, cs |-> 0]

\* Mutant: the counter-signature found is not stored in the result.
VerifyOptionalTimestampDrop(toks, as) ==
    [VerifyPkcs7(toks, as) EXCEPT !.cs = 0]

\* VerifyOptionalTimestamp: the signature with its CounterSignature.
VerifyOptionalTimestamp(toks, as) == VerifyPkcs7(toks, as)

-----------------------------------------------------------------------------
(* TimestampAndMarshal(ctx, psd, timestamper, authenticode), with the      *)
(* outcomes of the network call, of the attribute encoding and of Marshal  *)
(* chosen by \E.  The caller's SignedData is psd: its attribute list is    *)
(* changed in place before the self-check.                                 *)

TimestampAndMarshal(ts, addOK, marshalOK) ==
    LET as0    == IF ReusePsd THEN attrs ELSE <<>>
        asked  == call.timestamper /\ call.hashOK
        got    == asked /\ ts # "error"
        t      == IF got THEN Len(tokens) + 1 ELSE 0
        as1    == IF got /\ addOK
                  THEN IF call.authenticode THEN AddStampToSignedAuthenticode(as0, t)
                       ELSE AddStampToSignedData(as0, t)
                  ELSE as0
        toks   == IF got THEN Append(tokens, [time |-> now, good |-> ts = "good"])
                  ELSE tokens
        v      == VerifyOptionalTimestamp(toks, as1)
        err    == CASE call.timestamper /\ ~call.hashOK -> "digest"
                    [] asked /\ ts = "error"            -> "timestamp"
                    [] got /\ ~addOK                    -> "add"
                    [] ~call.primaryOK                  -> "selfcheck"
                    [] v.err                            -> "selfcheck"
                    [] ~marshalOK                       -> "marshal"
                    [] OTHER                            -> "ok"
    IN /\ tokens' = toks
       /\ attrs' = as1
       /\ res' = [err |-> err, tok |-> t, cs |-> IF err = "ok" THEN v.cs ELSE 0]

\* The caller: a first call, and another after each error.
Sign ==
    /\ attempts < MaxAttempts
    /\ res.err # "ok"
    /\ attempts' = attempts + 1
    /\ \E ts \in TsOutcomes, addOK, marshalOK \in BOOLEAN :
          TimestampAndMarshal(ts, addOK, marshalOK)
    /\ chk' = [done |-> FALSE, ok |-> FALSE]
    /\ UNCHANGED <<now, call, msTok, msRes>>

Tick ==
    /\ now < MaxTime
    /\ now' = now + 1
    /\ UNCHANGED <<call, attrs, tokens, attempts, res, chk, msTok, msRes>>

\* Mutant: the primary chain is checked at the current time even when a
\* counter-signature gives a signing time.
ChainAtNow(cs, at) ==
    /\ cs # 0 => tokens[cs].time <= TsaExpiry
    /\ at <= CertExpiry

\* TimestampedSignature.VerifyChain at time at: the counter-signature's
\* chain at its SigningTime (CounterSignature.VerifyChain), then the
\* primary chain at that SigningTime, or at the current time when there is
\* no counter-signature (a zero time.Time).
VerifyChain(cs, at) ==
    LET signingTime == IF cs # 0 THEN tokens[cs].time ELSE at
    IN /\ cs # 0 => tokens[cs].time <= TsaExpiry
       /\ signingTime <= CertExpiry

\* A relying party validates the returned signature now.
CheckChain ==
    /\ res.err = "ok"
    /\ chk' = [done |-> TRUE, ok |-> VerifyChain(res.cs, now)]
    /\ UNCHANGED <<now, call, attrs, tokens, attempts, res, msTok, msRes>>

\* A relying party checks a legacy Authenticode timestamp token.
VerifyMs ==
    /\ MS!Verify
    /\ UNCHANGED <<now, call, attrs, tokens, attempts, res, chk>>

Next == Sign \/ Tick \/ CheckChain \/ VerifyMs

Spec == Init /\ [][Next]_vars


-----------------------------------------------------------------------------
(* Properties.                                                             *)

TypeOK ==
    /\ now \in 0..MaxTime
    /\ attrs \in Seq([oid : OIDs, tok : DOMAIN tokens])
    /\ tokens \in Seq([time : 0..MaxTime, good : BOOLEAN])
    /\ attempts \in 0..MaxAttempts
    /\ res.err \in {"none", "digest", "timestamp", "add", "selfcheck", "marshal", "ok"}
    /\ {res.tok, res.cs} \subseteq 0..Len(tokens)
    /\ chk \in [done : BOOLEAN, ok : BOOLEAN]
    /\ msTok \in MS!Tokens

\* Spec 8, invariant 4: the counter-signature a successful call returns is
\* the token that call obtained (its SigningTime lies within this call),
\* and it verifies; with no timestamper there is none.
StampIsFresh ==
    res.err = "ok" =>
        /\ res.cs = res.tok
        /\ res.tok # 0 => tokens[res.tok].good

\* The self-check of TimestampAndMarshal fails only for something wrong in
\* this call: the primary signature, or the token this call obtained.  A
\* call that obtained a valid token for a valid signature is not rejected
\* (whichever OID the stamp was stored under).
SelfCheckBlamesThisCall ==
    res.err = "selfcheck" =>
        \/ ~call.primaryOK
        \/ res.tok # 0 /\ ~tokens[res.tok].good

\* VerifyMicrosoftToken returns a CounterSignature only for a token whose
\* signature verified and whose content parsed, with that token's signing
\* time and never the zero time (see MicrosoftToken).
MsTokenSound == MS!MsTokenSound

\* TimestampedSignature.VerifyChain: once a timestamped signature has been
\* returned, checking its chain again later gives the same answer, so a
\* signature valid when stamped stays valid after its certificate expires.
StampOutlivesCert ==
    [][chk.done /\ chk'.done /\ res' = res /\ res.cs # 0 => chk'.ok = chk.ok]_vars

=============================================================================

---------------------------- MODULE MicrosoftToken ----------------------------
(***************************************************************************)
(* VerifyMicrosoftToken (src/unnamed/part_001): a legacy Authenticode      *)
(* timestamp token, checked against the encrypted digest of the signature  *)
(* it is meant to stamp.  Every token a server may return is an initial    *)
(* state; one step runs the function on it.                                *)
(*                                                                         *)
(* The cryptographic checks are abstracted to what they decide: whether    *)
(* the token's own signature verifies, whether its content parses, whether *)
(* that content equals the encrypted digest, its signer's digest algorithm *)
(* and its authenticated signing time, if any.                             *)
(***************************************************************************)
EXTENDS Naturals

CONSTANTS
    Algs,    \* digest algorithms a token signer may name
    Known,   \* those PkixDigestToHash knows
    Times    \* signing times a token may carry

ASSUME Known \subseteq Algs /\ Times \subseteq Nat \ {0}

NoTime == 0   \* time.Time{}: no signing-time attribute

Tokens == [sigOK : BOOLEAN, bytesOK : BOOLEAN, matches : BOOLEAN,
           alg : Algs, time : Times \cup {NoTime}]

VARIABLES
    token,   \* the token passed in
    res      \* the result: [state, err, hash, time]

vars == <<token, res>>

Init ==
    /\ token \in Tokens
    /\ res = [state |-> "pending", err |-> "none", hash |-> "none", time |-> NoTime]

\* x509tools.PkixDigestToHash, its ok result discarded: an unknown
\* algorithm gives the zero crypto.Hash.
PkixDigestToHash(alg) == IF alg \in Known THEN alg ELSE "zero"

Fail(why) == [state |-> "done", err |-> why, hash |-> "none", time |-> NoTime]

\* Mutant: a missing signing-time attribute is not an error; the zero time
\* is returned as the SigningTime.
VerifyMicrosoftTokenNoTimeCheck(t) ==
    CASE ~t.sigOK   -> Fail("verify")
      [] ~t.bytesOK -> Fail("content")
      [] OTHER      -> [state |-> "done", err |-> "nil",
                        hash |-> PkixDigestToHash(t.alg), time |-> t.time]

\* VerifyMicrosoftToken(token, encryptedDigest): the token's signature,
\* its content, a content mismatch only logged, the digest algorithm with
\* its error ignored, and the authenticated signing time, which is
\* required.
VerifyMicrosoftToken(t) ==
    CASE ~t.sigOK          -> Fail("verify")
      [] ~t.bytesOK        -> Fail("content")
      [] t.time = NoTime   -> Fail("signingTime")
      [] OTHER             -> [state |-> "done", err |-> "nil",
                               hash |-> PkixDigestToHash(t.alg), time |-> t.time]

Verify ==
    /\ res.state = "pending"
    /\ res' = VerifyMicrosoftToken(token)
    /\ UNCHANGED token

Spec == Init /\ [][Verify]_vars

-----------------------------------------------------------------------------
(* Properties.                                                             *)

\* A CounterSignature VerifyMicrosoftToken returns comes from a token whose
\* signature verified and whose content parsed, and its SigningTime is the
\* token's authenticated signing time, never the zero time, which
\* TimestampedSignature.VerifyChain would take as "now".  It does not say
\* that the token stamps this signature: a mismatch is only logged.
MsTokenSound ==
    res.err = "nil" =>
        /\ token.sigOK /\ token.bytesOK
        /\ res.time = token.time /\ res.time # NoTime

=============================================================================

----------------------------- MODULE Certificate -----------------------------
(***************************************************************************)
(* The life of a certificate: a profile file is edited and sealed by the   *)
(* issuer, signed by whoever has a key, rendered into an immutable         *)
(* ConfigMap by the operator, and revalidated by the launcher on the node, *)
(* each by a clock of its own.  Files can be edited by hand at any time.   *)
(*                                                                         *)
(* SHA-256 and Ed25519 are ideal: a digest is what was hashed, and a       *)
(* signature is the key and the message it was made of.  Base64, PEM and   *)
(* RFC 3339 texts lose nothing and are left out.                           *)
(***************************************************************************)
EXTENDS Integers, FiniteSets

CONSTANTS
    Artifact,  \* digests of artifacts
    Model,     \* calibrated models
    Key,       \* signing keys, by their keyID
    Trusted,   \* the issuer key that is pinned in the runner image
    Skew,      \* the five minutes of allowed clock skew, in units of time
    Drift,     \* how far a clock may really be ahead of the slowest one
    Draft,     \* the profiles somebody writes, without their seals
    Time,      \* the times somebody gives with --at, or writes into a signature file
    MaxNow,    \* bound of the time
    MaxEdits,  \* bound of the number of edits by hand
    MaxSigned, \* bound of the number of signatures
    None

ASSUME CertificateAssumption ==
    /\ Trusted \in Key
    /\ Skew \in Nat /\ Drift \in Nat /\ MaxNow \in Nat
    /\ Time \subseteq Int
    /\ MaxEdits \in Nat /\ MaxSigned \in Nat

Party == {"issuer", "signer", "operator", "node"}

VARIABLES
    now,       \* the time
    drift,     \* party -> how far its clock is ahead
    profile,   \* the profile file
    envelope,  \* the signature file
    config,    \* the rendered ConfigMap
    launched,  \* what the launcher accepted in the last step, at which time, by which
               \* key its signature was verified, and whether one was required
    signed,    \* every profile that was signed, with the envelope
    edits      \* edits by hand so far

vars == <<now, drift, profile, envelope, config, launched, signed, edits>>

Clock(party) == now + drift[party]

\* The times a command of that party may go by: --at, or what its clock reads.
EvaluationTime(party) == {Clock(party)} \cup Time

-----------------------------------------------------------------------------
\* The typed fields of a profile that its life depends on, its seal apart.
Terms == [created: Int, calibrated: Int, expires: Int, maxAge: Nat \ {0},
          artifact: Artifact, model: Model]

ASSUME DraftAssumption == Draft \subseteq Terms

\* ContractDigest covers every field but the seal.
ContractDigest(terms) == terms

\* ModelDigest covers the latency certificate, with its times, and the rest
\* of what was calibrated; it covers neither the artifact nor the validity.
ModelDigest(terms) == <<terms.calibrated, terms.maxAge, terms.model>>

Seal == [contract: Draft, model: Int \X Nat \X Model, at: Int]

Profile == [terms: Draft, seal: Seal \cup {None}]

Message == [keyID: Key, contract: Draft, artifact: Artifact, at: Int]

\* A signature made with key over message.
Signature == [key: Key, message: Message]

Envelope == [header: Message, signature: Signature]

ASSUME NoneAssumption ==
    /\ None \notin Seal
    /\ None \notin Envelope
    /\ None \notin [profile: Profile, envelope: Envelope]
    /\ None \notin [terms: Draft, at: Int, by: Key \cup {None}, required: BOOLEAN]
    /\ None \notin Key

\* validateProfileBase, as far as it concerns these fields.
ValidTerms(t) ==
    /\ t.created < t.expires
    /\ t.calibrated <= t.created + Skew
    /\ t.calibrated < t.expires

\* Faulty variant: only the model digest is recomputed.
VerifySealModelOnly(p) ==
    /\ p.seal # None
    /\ p.terms.created - Skew <= p.seal.at /\ p.seal.at < p.terms.expires
    /\ p.seal.model = ModelDigest(p.terms)

VerifySeal(p) ==
    /\ p.seal # None
    /\ p.terms.created - Skew <= p.seal.at /\ p.seal.at < p.terms.expires
    /\ p.seal.contract = ContractDigest(p.terms)
    /\ p.seal.model = ModelDigest(p.terms)

ValidateProfile(p, requireSeal) ==
    /\ ValidTerms(p.terms)
    /\ requireSeal \/ p.seal # None => VerifySeal(p)

\* Faulty variant: the skew is granted to creation and calibration only.
CertificateFreshStrictSeal(p, t) ==
    /\ p.terms.created - Skew <= t
    /\ p.seal # None => p.seal.at <= t
    /\ t < p.terms.expires
    /\ p.terms.calibrated - Skew <= t
    /\ t - p.terms.calibrated <= p.terms.maxAge

\* The planner's test of a profile's times.
CertificateFresh(p, t) ==
    /\ p.terms.created - Skew <= t
    /\ p.seal # None => p.seal.at - Skew <= t
    /\ t < p.terms.expires
    /\ p.terms.calibrated - Skew <= t
    /\ t - p.terms.calibrated <= p.terms.maxAge

VerifyProfileSignature(p, env, key, t) ==
    /\ ValidateProfile(p, TRUE)
    /\ env # None
    /\ env.header.keyID = key
    /\ env.header.contract = p.seal.contract
    /\ env.header.artifact = p.terms.artifact
    /\ p.terms.created - Skew <= env.header.at /\ env.header.at < p.terms.expires
    /\ env.header.at <= t + Skew
    /\ p.seal.at - Skew <= env.header.at
    /\ env.signature = [key |-> key, message |-> env.header]

\* launcher.Run up to the artifact, on one reading of the clock: a signature and a
\* key are verified if they are given, and given they must be if that is required.
Accepts(p, env, key, required, t) ==
    /\ ValidateProfile(p, TRUE)
    /\ CertificateFresh(p, t)
    /\ required => env # None
    /\ env # None <=> key # None
    /\ env # None => VerifyProfileSignature(p, env, key, t)

-----------------------------------------------------------------------------
Init ==
    /\ now = 0
    /\ drift \in [Party -> 0..Drift]
    /\ profile \in [terms: Draft, seal: {None}]
    /\ envelope = None
    /\ config = None
    /\ launched = None
    /\ signed = {}
    /\ edits = 0

Tick ==
    /\ now < MaxNow
    /\ now' = now + 1
    /\ launched' = None
    /\ UNCHANGED <<drift, profile, envelope, config, signed, edits>>

\* Somebody edits the profile file; the seal stays as it was or is taken out.
EditProfile ==
    /\ edits < MaxEdits
    /\ edits' = edits + 1
    /\ \E t \in Draft, s \in {profile.seal, None} :
         profile' = [terms |-> t, seal |-> s]
    /\ launched' = None
    /\ UNCHANGED <<now, drift, envelope, config, signed>>

\* Somebody edits the signature file: its header can be made to say anything,
\* its signature stays one that was made.
EditEnvelope ==
    /\ edits < MaxEdits
    /\ edits' = edits + 1
    /\ envelope # None
    /\ \E k \in Key, t \in {profile.terms, envelope.header.contract}, at \in Time :
         envelope' = [envelope EXCEPT !.header =
             [keyID |-> k, contract |-> t, artifact |-> t.artifact, at |-> at]]
    /\ launched' = None
    /\ UNCHANGED <<now, drift, profile, config, signed>>

\* Faulty variant: the old seal is hashed along.
SealProfileOverSealed ==
    LET t == profile.terms IN
    /\ ValidateProfile(profile, FALSE)
    /\ \E at \in EvaluationTime("issuer") :
         /\ t.created - Skew <= at /\ at < t.expires
         /\ profile' = [profile EXCEPT !.seal =
              [contract |-> ContractDigest(profile), model |-> ModelDigest(t), at |-> at]]
    /\ launched' = None
    /\ UNCHANGED <<now, drift, envelope, config, signed, edits>>

\* c2k seal: the file must load, sealed or not, and is sealed anew.
SealProfile ==
    LET t == profile.terms IN
    /\ ValidateProfile(profile, FALSE)
    /\ \E at \in EvaluationTime("issuer") :
         /\ t.created - Skew <= at /\ at < t.expires
         /\ profile' = [profile EXCEPT !.seal =
              [contract |-> ContractDigest(t), model |-> ModelDigest(t), at |-> at]]
    /\ launched' = None
    /\ UNCHANGED <<now, drift, envelope, config, signed, edits>>

\* c2k sign, with any key.
SignProfile ==
    /\ Cardinality(signed) < MaxSigned
    /\ ValidateProfile(profile, TRUE)
    /\ \E k \in Key, at \in EvaluationTime("signer") :
         /\ profile.seal.at - Skew <= at
         /\ at < profile.terms.expires
         /\ LET message == [keyID |-> k, contract |-> profile.seal.contract,
                         artifact |-> profile.terms.artifact, at |-> at]
            IN  envelope' = [header |-> message,
                             signature |-> [key |-> k, message |-> message]]
    /\ signed' = signed \cup {[profile |-> profile, envelope |-> envelope']}
    /\ launched' = None
    /\ UNCHANGED <<now, drift, profile, config, edits>>

\* c2k render-k8s: the signature is verified, freshness is left to the node.
Render ==
    /\ ValidateProfile(profile, TRUE)
    /\ \E t \in EvaluationTime("operator") :
         VerifyProfileSignature(profile, envelope, Trusted, t)
    /\ config' = [profile |-> profile, envelope |-> envelope]
    /\ launched' = None
    /\ UNCHANGED <<now, drift, profile, envelope, signed, edits>>

Launch(p, env, key, required, t) ==
    /\ Accepts(p, env, key, required, t)
    /\ launched' = [terms |-> p.terms, at |-> t, by |-> key, required |-> required]
    /\ UNCHANGED <<now, drift, profile, envelope, config, signed, edits>>

\* c2k launch by hand: a signature file, a key of the caller's choice,
\* --require-signature and --at may be given or not.
LaunchFiles ==
    \E env \in {envelope, None}, key \in Key \cup {None}, required \in BOOLEAN,
       t \in EvaluationTime("node") :
        Launch(profile, env, key, required, t)

\* The command line of a rendered job, on the ConfigMap and the pinned key.
LaunchJob ==
    config # None /\ Launch(config.profile, config.envelope, Trusted, TRUE, Clock("node"))

Next ==
    \/ Tick \/ EditProfile \/ EditEnvelope \/ SealProfile \/ SignProfile
    \/ Render \/ LaunchFiles \/ LaunchJob

Spec == Init /\ [][Next]_vars

-----------------------------------------------------------------------------
Pairs == [profile: Profile, envelope: Envelope]

\* Type correctness.
TypeOK ==
    /\ now \in 0..MaxNow
    /\ drift \in [Party -> 0..Drift]
    /\ profile \in Profile
    /\ envelope \in Envelope \cup {None}
    /\ config \in Pairs \cup {None}
    /\ launched \in [terms: Draft, at: Int, by: Key \cup {None}, required: BOOLEAN]
                   \cup {None}
    /\ signed \subseteq Pairs
    /\ edits \in 0..MaxEdits

\* What runs on a signature, as it always does if one is required, is what somebody
\* with that key signed, field by field, not earlier than it was signed by more than
\* the skew; what runs without one is protected by nothing but its own seal.  Both
\* run within the validity and the age they state, at the time the launcher goes by:
\* no edit of either file, no new seal over old signatures, no delay between
\* rendering and launching changes that (digest.go:82-119, signature.go:105-142,
\* validate.go:607-644, launcher.go:66-86; docs/CONTRACT_SPEC.md section 2).
LaunchAuthentic ==
    launched # None =>
        LET t == launched.terms IN
        /\ t.created - Skew <= launched.at /\ launched.at < t.expires
        /\ launched.at - t.calibrated <= t.maxAge
        /\ launched.required => launched.by # None
        /\ launched.by # None =>
             \E s \in signed :
                /\ s.envelope.header.keyID = launched.by
                /\ s.profile.terms = t
                /\ s.envelope.header.at - Skew <= launched.at

\* No false rejection for a matter of clocks: what was sealed and signed is accepted,
\* with the key it was signed with, by a node whose clock is between its creation
\* and its expiry and not too far from its calibration, as long as no clock is
\* more than the skew ahead of the node's and nobody has dated ahead of his own
\* with --at.  The premise that the signature is
\* not older than the creation by more than the skew is needed: SignProfile
\* allows the skew twice, once below the seal and once below the creation.
LawfulAccepted ==
    \A s \in signed :
        LET t == s.profile.terms
            c == Clock("node")
        IN
        ( /\ \A q \in {"issuer", "signer"} : Clock(q) <= c + Skew
          /\ s.profile.seal.at <= Clock("issuer")
          /\ s.envelope.header.at <= Clock("signer")
          /\ t.created - Skew <= s.envelope.header.at
          /\ t.created <= c /\ c < t.expires
          /\ c - t.calibrated <= t.maxAge )
        => Accepts(s.profile, s.envelope, s.envelope.header.keyID, TRUE, c)
=============================================================================

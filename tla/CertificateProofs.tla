-------------------------- MODULE CertificateProofs --------------------------
(***************************************************************************)
(* Proofs about the life of a certificate, for any profiles, keys, skew,   *)
(* drift of the clocks and any number of edits, seals and signatures.      *)
(***************************************************************************)
EXTENDS Certificate, TLAPS

\* A profile that was signed was valid, and its envelope says what was signed.
SignedOK(s) ==
    LET h == s.envelope.header IN
    /\ ValidateProfile(s.profile, TRUE)
    /\ s.envelope.signature = [key |-> h.keyID, message |-> h]
    /\ h.contract = s.profile.terms /\ h.artifact = s.profile.terms.artifact
    /\ s.profile.seal.at - Skew <= h.at /\ h.at < s.profile.terms.expires

HistoryInv == \A s \in signed : SignedOK(s)

\* Signatures are not made up: each is one that was made.
Genuine(env) ==
    env # None => \E s \in signed : s.envelope.signature = env.signature

GenuineInv == Genuine(envelope) /\ (config # None => Genuine(config.envelope))

IInv == TypeOK /\ HistoryInv /\ GenuineInv /\ LaunchAuthentic

USE CertificateAssumption, DraftAssumption, NoneAssumption

LEMMA ClockType ==
    TypeOK => \A q \in Party : Clock(q) \in Int /\ EvaluationTime(q) \subseteq Int
BY DEF TypeOK, Clock, EvaluationTime

LEMMA TermsType == \A t \in Draft :
    /\ t.created \in Int /\ t.calibrated \in Int /\ t.expires \in Int
    /\ t.maxAge \in Nat /\ t.artifact \in Artifact /\ t.model \in Model
BY DEF Terms

LEMMA SealType == \A s \in Seal : s # None /\ s.at \in Int
BY DEF Seal

\* A seal of a profile that is made now has its type.
LEMMA NewSealType ==
    ASSUME NEW t \in Draft, NEW at \in Int
    PROVE  [contract |-> ContractDigest(t), model |-> ModelDigest(t), at |-> at]
              \in Seal
BY TermsType DEF Seal, ContractDigest, ModelDigest

-----------------------------------------------------------------------------
\* A step that signs nothing.
LEMMA HistoryKept == ASSUME HistoryInv, UNCHANGED signed PROVE HistoryInv'
BY DEF HistoryInv, SignedOK, ValidateProfile, VerifySeal

\* A step that launches nothing.
LEMMA LaunchKept == ASSUME launched' = None PROVE LaunchAuthentic'
BY DEF LaunchAuthentic

LEMMA InitInv == Init => IInv
<1> SUFFICES ASSUME Init PROVE IInv
  OBVIOUS
<1>1. TypeOK
  BY DEF Init, TypeOK, Profile
<1>2. HistoryInv /\ GenuineInv /\ LaunchAuthentic
  BY DEF Init, HistoryInv, GenuineInv, Genuine, LaunchAuthentic
<1>. QED BY <1>1, <1>2 DEF IInv

LEMMA TickInv == IInv /\ Tick => IInv'
<1> SUFFICES ASSUME IInv, Tick PROVE IInv'
  OBVIOUS
<1>0. now \in Int /\ now' = now + 1 /\ now' \in 0..MaxNow
  BY DEF IInv, TypeOK, Tick
<1>1. TypeOK'
  BY <1>0 DEF IInv, TypeOK, Tick
<1>2. HistoryInv'
  BY <1>0, HistoryKept DEF IInv, Tick
<1>3. GenuineInv'
  BY DEF IInv, GenuineInv, Genuine, Tick
<1>5. LaunchAuthentic'
  BY LaunchKept DEF IInv, Tick
<1>. QED BY <1>1, <1>2, <1>3, <1>5 DEF IInv

LEMMA EditProfileInv == IInv /\ EditProfile => IInv'
<1> SUFFICES ASSUME IInv, EditProfile PROVE IInv'
  OBVIOUS
<1>. PICK t \in Draft, s \in {profile.seal, None} :
        profile' = [terms |-> t, seal |-> s]
  BY DEF EditProfile
<1>0. s \in Seal \cup {None} /\ edits' \in 0..MaxEdits
  BY DEF IInv, TypeOK, Profile, EditProfile
<1>1. TypeOK'
  BY <1>0 DEF IInv, TypeOK, Profile, EditProfile
<1>2. HistoryInv'
  BY HistoryKept DEF IInv, EditProfile
<1>3. GenuineInv'
  BY DEF IInv, GenuineInv, Genuine, EditProfile
<1>5. LaunchAuthentic'
  BY LaunchKept DEF IInv, EditProfile
<1>. QED BY <1>1, <1>2, <1>3, <1>5 DEF IInv

LEMMA EditEnvelopeInv == IInv /\ EditEnvelope => IInv'
<1> SUFFICES ASSUME IInv, EditEnvelope PROVE IInv'
  OBVIOUS
<1>. PICK k \in Key, t \in {profile.terms, envelope.header.contract}, at \in Time :
        envelope' = [envelope EXCEPT !.header =
            [keyID |-> k, contract |-> t, artifact |-> t.artifact, at |-> at]]
  BY DEF EditEnvelope
<1>0. envelope \in Envelope /\ edits' \in 0..MaxEdits
  BY DEF IInv, TypeOK, EditEnvelope
<1>a. t \in Draft
  BY <1>0 DEF IInv, TypeOK, Profile, Envelope, Message
<1>b. envelope' \in Envelope /\ envelope'.signature = envelope.signature
  BY <1>0, <1>a, TermsType DEF Envelope, Message
<1>1. TypeOK'
  BY <1>0, <1>b DEF IInv, TypeOK, EditEnvelope
<1>2. HistoryInv'
  BY HistoryKept DEF IInv, EditEnvelope
<1>3. GenuineInv'
  BY <1>b DEF IInv, GenuineInv, Genuine, EditEnvelope
<1>5. LaunchAuthentic'
  BY LaunchKept DEF IInv, EditEnvelope
<1>. QED BY <1>1, <1>2, <1>3, <1>5 DEF IInv

LEMMA SealProfileInv == IInv /\ SealProfile => IInv'
<1> SUFFICES ASSUME IInv, SealProfile PROVE IInv'
  OBVIOUS
<1>. PICK at \in EvaluationTime("issuer") :
        profile' = [profile EXCEPT !.seal =
          [contract |-> ContractDigest(profile.terms),
           model |-> ModelDigest(profile.terms), at |-> at]]
  BY DEF SealProfile
<1>. DEFINE seal == [contract |-> ContractDigest(profile.terms),
                     model |-> ModelDigest(profile.terms), at |-> at]
<1>0. at \in Int /\ profile.terms \in Draft /\ profile \in Profile
  BY ClockType DEF IInv, TypeOK, Profile, Party
<1>a. seal \in Seal
  BY <1>0, NewSealType
<1>b. profile' = [profile EXCEPT !.seal = seal]
  OBVIOUS
<1>c. profile' \in Profile
  BY <1>0, <1>a, <1>b DEF Profile
<1>1. TypeOK'
  BY <1>c DEF IInv, TypeOK, SealProfile
<1>2. HistoryInv'
  BY HistoryKept DEF IInv, SealProfile
<1>3. GenuineInv'
  BY DEF IInv, GenuineInv, Genuine, SealProfile
<1>5. LaunchAuthentic'
  BY LaunchKept DEF IInv, SealProfile
<1>. QED BY <1>1, <1>2, <1>3, <1>5 DEF IInv

LEMMA SignProfileInv == IInv /\ SignProfile => IInv'
<1> SUFFICES ASSUME IInv, SignProfile PROVE IInv'
  OBVIOUS
<1>. PICK k \in Key, at \in EvaluationTime("signer") :
        /\ profile.seal.at - Skew <= at /\ at < profile.terms.expires
        /\ envelope' =
             [header |-> [keyID |-> k, contract |-> profile.seal.contract,
                          artifact |-> profile.terms.artifact, at |-> at],
              signature |-> [key |-> k, message |->
                 [keyID |-> k, contract |-> profile.seal.contract,
                  artifact |-> profile.terms.artifact, at |-> at]]]
  BY DEF SignProfile
<1>. DEFINE new == [profile |-> profile, envelope |-> envelope']
<1>0. /\ ValidateProfile(profile, TRUE)
      /\ profile.seal.at - Skew <= at /\ at < profile.terms.expires
      /\ signed' = signed \cup {new}
      /\ launched' = None
      /\ UNCHANGED <<now, drift, profile, config, edits>>
  BY DEF SignProfile
<1>a. /\ profile.seal # None /\ profile.seal.contract = profile.terms
      /\ profile \in Profile /\ profile.terms \in Draft /\ at \in Int
  BY <1>0, ClockType
  DEF ValidateProfile, VerifySeal, ContractDigest, IInv, TypeOK, Profile, Party
<1>b. envelope' \in Envelope
  BY <1>a, TermsType DEF Envelope, Message, Signature
<1>c. new \in Pairs
  BY <1>a, <1>b DEF Pairs
<1>1. TypeOK'
  BY <1>0, <1>b, <1>c DEF IInv, TypeOK
<1>2. HistoryInv'
  <2> SUFFICES ASSUME NEW s \in signed' PROVE SignedOK(s)'
    BY DEF HistoryInv
  <2>1. CASE s \in signed
    BY <2>1, <1>0 DEF IInv, HistoryInv, SignedOK, ValidateProfile, VerifySeal
  <2>2. CASE s = new
    <3>1. s.profile = profile /\ s.envelope = envelope'
      BY <2>2
    <3>. QED BY <1>0, <1>a, <3>1 DEF SignedOK, ValidateProfile, VerifySeal
  <2>. QED BY <1>0, <2>1, <2>2
<1>3. GenuineInv'
  <2>1. Genuine(envelope)'
    <3>1. new \in signed' /\ new.envelope = envelope'
      BY <1>0
    <3>. QED BY <3>1 DEF Genuine
  <2>2. (config # None => Genuine(config.envelope))'
    BY <1>0 DEF IInv, GenuineInv, Genuine
  <2>. QED BY <2>1, <2>2 DEF GenuineInv
<1>5. LaunchAuthentic'
  BY <1>0, LaunchKept DEF IInv
<1>. QED BY <1>1, <1>2, <1>3, <1>5 DEF IInv

LEMMA RenderInv == IInv /\ Render => IInv'
<1> SUFFICES ASSUME IInv, Render PROVE IInv'
  OBVIOUS
<1>0. envelope # None
  BY DEF Render, VerifyProfileSignature
<1>1. TypeOK'
  BY <1>0 DEF IInv, TypeOK, Pairs, Render
<1>2. HistoryInv'
  BY HistoryKept DEF IInv, Render
<1>3. GenuineInv'
  BY DEF IInv, GenuineInv, Genuine, Render
<1>5. LaunchAuthentic'
  BY LaunchKept DEF IInv, Render
<1>. QED BY <1>1, <1>2, <1>3, <1>5 DEF IInv

-----------------------------------------------------------------------------
\* The heart of it: an accepted pair of files leads back to what was signed.
LEMMA AcceptedWasSigned ==
    ASSUME IInv, NEW p \in Profile, NEW env, Genuine(env), NEW key \in Key, NEW t \in Int,
           NEW required, Accepts(p, env, key, required, t)
    PROVE  \E s \in signed :
              /\ s.envelope.header.keyID = key
              /\ p.terms = s.profile.terms
              /\ s.envelope.header.at - Skew <= t
<1>1. /\ env # None
      /\ env.signature = [key |-> key, message |-> env.header]
      /\ env.header.contract = p.seal.contract
      /\ env.header.at <= t + Skew
  BY DEF Accepts, VerifyProfileSignature
<1>2. p.seal.contract = p.terms
  BY DEF Accepts, ValidateProfile, VerifySeal, ContractDigest
<1>3. PICK s \in signed : s.envelope.signature = env.signature
  BY <1>1 DEF Genuine
<1>4. /\ s.envelope.signature =
           [key |-> s.envelope.header.keyID, message |-> s.envelope.header]
      /\ s.envelope.header.contract = s.profile.terms
  BY DEF IInv, HistoryInv, SignedOK
<1>5. s.envelope.header = env.header /\ s.envelope.header.keyID = key
  <2>1. s.envelope.signature.message = s.envelope.header
        /\ s.envelope.signature.key = s.envelope.header.keyID
    BY <1>4
  <2>2. env.signature.message = env.header /\ env.signature.key = key
    BY <1>1
  <2>. QED BY <1>3, <2>1, <2>2
<1>6. s.envelope.header.at \in Int
  BY DEF IInv, TypeOK, Pairs, Envelope, Message
<1>. QED BY <1>1, <1>2, <1>4, <1>5, <1>6

LEMMA LaunchInv ==
    ASSUME IInv, NEW p \in Profile, NEW env, Genuine(env), NEW key \in Key \cup {None},
           NEW required \in BOOLEAN, NEW t \in Int, Launch(p, env, key, required, t)
    PROVE  IInv'
<1>0. /\ Accepts(p, env, key, required, t)
      /\ launched' = [terms |-> p.terms, at |-> t, by |-> key, required |-> required]
      /\ UNCHANGED <<now, drift, profile, envelope, config, signed, edits>>
      /\ p.terms \in Draft
  BY DEF Launch, Profile
<1>1. TypeOK'
  BY <1>0 DEF IInv, TypeOK
<1>2. HistoryInv'
  BY <1>0, HistoryKept DEF IInv
<1>3. GenuineInv'
  BY <1>0 DEF IInv, GenuineInv, Genuine
<1>5. LaunchAuthentic'
  <2>1. ASSUME key # None
        PROVE  \E s \in signed :
                  /\ s.envelope.header.keyID = key
                  /\ s.profile.terms = p.terms
                  /\ s.envelope.header.at - Skew <= t
    BY <1>0, <2>1, AcceptedWasSigned
  <2>2. /\ p.terms.created - Skew <= t /\ t < p.terms.expires
        /\ t - p.terms.calibrated <= p.terms.maxAge
        /\ required => key # None
    BY <1>0 DEF Accepts, CertificateFresh
  <2>. QED BY <1>0, <2>1, <2>2 DEF LaunchAuthentic
<1>. QED BY <1>1, <1>2, <1>3, <1>5 DEF IInv

LEMMA LaunchFilesInv == IInv /\ LaunchFiles => IInv'
<1> SUFFICES ASSUME IInv, LaunchFiles PROVE IInv'
  OBVIOUS
<1>1. PICK env \in {envelope, None}, key \in Key \cup {None}, required \in BOOLEAN,
           t \in EvaluationTime("node") : Launch(profile, env, key, required, t)
  BY DEF LaunchFiles
<1>2. t \in Int /\ profile \in Profile /\ Genuine(env)
  BY ClockType DEF IInv, TypeOK, Party, GenuineInv, Genuine
<1>. QED BY <1>1, <1>2, LaunchInv

LEMMA LaunchJobInv == IInv /\ LaunchJob => IInv'
<1> SUFFICES ASSUME IInv, LaunchJob PROVE IInv'
  OBVIOUS
<1>1. /\ config # None
      /\ Launch(config.profile, config.envelope, Trusted, TRUE, Clock("node"))
  BY DEF LaunchJob
<1>2. /\ config.profile \in Profile /\ Genuine(config.envelope)
      /\ Clock("node") \in Int
  BY <1>1, ClockType DEF IInv, TypeOK, Pairs, GenuineInv, Party
<1>. QED BY <1>1, <1>2, LaunchInv

LEMMA StutterInv == IInv /\ UNCHANGED vars => IInv'
<1> SUFFICES ASSUME IInv, UNCHANGED vars PROVE IInv'
  OBVIOUS
<1>1. TypeOK'
  BY DEF IInv, TypeOK, vars
<1>2. HistoryInv'
  BY HistoryKept DEF IInv, vars
<1>3. GenuineInv'
  BY DEF IInv, GenuineInv, Genuine, vars
<1>4. LaunchAuthentic'
  BY DEF IInv, LaunchAuthentic, vars
<1>. QED BY <1>1, <1>2, <1>3, <1>4 DEF IInv

\* The inductive invariant holds in every behaviour.
THEOREM Invariance == Spec => []IInv
<1>1. IInv /\ [Next]_vars => IInv'
  BY TickInv, EditProfileInv, EditEnvelopeInv, SealProfileInv, SignProfileInv,
     RenderInv, LaunchFilesInv, LaunchJobInv, StutterInv DEF Next
<1>. QED BY InitInv, <1>1, PTL DEF Spec

\* The files, the history and the clocks stay within their types.
THEOREM TypeCorrect == Spec => []TypeOK
<1>1. IInv => TypeOK
  BY DEF IInv
<1>. QED BY Invariance, <1>1, PTL

\* Whatever is edited, resealed, re-signed, redated or delayed, what the launcher
\* accepts on a signature is what the holder of the key signed, a signature there is
\* whenever one is required, and every launch is within the validity that is stated.
THEOREM Authenticity == Spec => []LaunchAuthentic
<1>1. IInv => LaunchAuthentic
  BY DEF IInv
<1>. QED BY Invariance, <1>1, PTL

-----------------------------------------------------------------------------
LEMMA LawfulStep == IInv => LawfulAccepted
<1>. DEFINE c == Clock("node")
<1> SUFFICES ASSUME IInv, NEW s \in signed,
                    \A q \in {"issuer", "signer"} : Clock(q) <= c + Skew,
                    s.profile.seal.at <= Clock("issuer"),
                    s.envelope.header.at <= Clock("signer"),
                    s.profile.terms.created - Skew <= s.envelope.header.at,
                    s.profile.terms.created <= c, c < s.profile.terms.expires,
                    c - s.profile.terms.calibrated <= s.profile.terms.maxAge
             PROVE  Accepts(s.profile, s.envelope, s.envelope.header.keyID, TRUE, c)
  BY DEF LawfulAccepted
<1>. DEFINE t == s.profile.terms
            h == s.envelope.header
<1>1. SignedOK(s)
  BY DEF IInv, HistoryInv
<1>2. VerifySeal(s.profile) /\ ValidTerms(t) /\ ValidateProfile(s.profile, TRUE)
  BY <1>1 DEF SignedOK, ValidateProfile
<1>3. /\ s.profile.seal \in Seal /\ s.envelope \in Envelope /\ t \in Draft
      /\ h \in Message
  BY <1>2 DEF IInv, TypeOK, Pairs, Profile, Envelope, VerifySeal
<1>4. /\ s.profile.seal.at \in Int /\ h.at \in Int
      /\ t.created \in Int /\ t.calibrated \in Int /\ t.expires \in Int
      /\ t.maxAge \in Nat
      /\ c \in Int /\ Clock("issuer") \in Int /\ Clock("signer") \in Int
  BY <1>3, TermsType, ClockType DEF Seal, Message, IInv, Party
<1>5. s.profile.seal.at - Skew <= c /\ h.at <= c + Skew
  BY <1>4
<1>6. CertificateFresh(s.profile, c)
  BY <1>2, <1>4, <1>5 DEF CertificateFresh, ValidTerms
<1>7. VerifyProfileSignature(s.profile, s.envelope, h.keyID, c)
  BY <1>1, <1>2, <1>3, <1>4, <1>5
  DEF VerifyProfileSignature, SignedOK, VerifySeal, ContractDigest
<1>8. s.envelope # None /\ h.keyID # None
  BY <1>3 DEF Message
<1>. QED BY <1>2, <1>6, <1>7, <1>8 DEF Accepts

\* Nobody who kept to the rules is turned away over a matter of clocks.
THEOREM NoFalseRejection == Spec => []LawfulAccepted
BY Invariance, LawfulStep, PTL
=============================================================================

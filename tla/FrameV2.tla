------------------------------ MODULE FrameV2 ------------------------------
(* Frames and their verification: crates/codec, crates/transcript,           *)
(* crates/mldsa44 and crates/core.  A frame is mu_pre, T_E and a signature.  *)
(* Hashes are perfect: the hash of x is x in a tuple.  Signatures are too:   *)
(* one is the key it was made with and what it was made over, and a value    *)
(* that is neither is Garbled, as is any other field, or whole frame, whose  *)
(* bytes mean nothing.  sid, n_d, n_s and policy_hash, which are hashed with *)
(* mu_pre and read by nobody, are the one field rest.                        *)
EXTENDS Naturals, Sequences

CONSTANTS
  Garbled,      \* bytes that are no value of the field they stand in
  OqsBackend,   \* built with liboqs: otherwise the stub passes any signature
  EngineUp      \* liboqs knows ML-DSA-44

ASSUME BackendAssumption == OqsBackend \in BOOLEAN /\ EngineUp \in BOOLEAN

None == <<>>
Some(x) == <<x>>

MU_PRE_VERSION_VAL == 1
DOMAIN_SEP == 1
ZeroRest == 0

Shake256(x) == <<x>>

\* The set of all T_E over given parts.
TE(Key, Epoch, Device) == [key : Key, epoch : Epoch, device_id16 : Device]

Mu(muPre) == Shake256(muPre)
Sign(key, mu) == [by |-> key, over |-> mu]

PackFrameV2(muPre, te, sig) == [mu_pre |-> muPre, te |-> te, sig |-> sig]

-----------------------------------------------------------------------------
(* The checks.                                                               *)

Least(S) == CHOOSE m \in S : \A n \in S : m <= n

\* What the first check that fails reports, and good when none does.
FirstFailing(checks, good) ==
  LET failing == {k \in DOMAIN checks : ~checks[k][2]}
  IN  IF failing = {} THEN good ELSE checks[Least(failing)][1]

\* Directive A.
ParseMuPreHeader(muPre) ==
  muPre.version = MU_PRE_VERSION_VAL /\ muPre.domain_sep = DOMAIN_SEP

CheckPkHashBinding(muPre, te) == muPre.pk_hash = Shake256(te)

\* Directive B.
CheckEpochCorrelation(muPre, te) == muPre.epoch = te.epoch

DeviceId32(id16) == Shake256(id16)

\* Directive E.
CheckDeviceIdDuality(muPre, te) == muPre.device_id32 = DeviceId32(te.device_id16)

VerifyPk(key, mu, sig) == OqsBackend => sig = Sign(key, mu)

VerifyVnext(f) ==
  FirstFailing(
    << <<"MuPreMalformed", ParseMuPreHeader(f.mu_pre)>>,
       <<"PkHashMismatch", CheckPkHashBinding(f.mu_pre, f.te)>>,
       <<"EpochMismatch", CheckEpochCorrelation(f.mu_pre, f.te)>>,
       <<"DeviceIdMismatch", CheckDeviceIdDuality(f.mu_pre, f.te)>>,
       <<"Internal", OqsBackend => EngineUp>>,
       <<"SignatureInvalid", VerifyPk(f.te.key, Mu(f.mu_pre), f.sig)>> >>, "Ok")

\* Bytes of another length are no frame.
VerifyFrameV2(bytes) ==
  IF bytes = Garbled THEN "LengthMismatch" ELSE VerifyVnext(bytes)

=============================================================================

----------------------------- MODULE SealVerify -----------------------------
(* Sealing a file and verifying a seal: crates/pipeline and                  *)
(* crates/andna-seal.  A bundle is a manifest and a frame whose ctx_hash is  *)
(* the manifest's hash.  Of the manifest's fields, schema, size, name and    *)
(* policy are hashed and read back by nobody: they are the one field about.  *)
EXTENDS R2Policy

(* The pipeline.                                                             *)

FactsOf(frame) ==
  [device_id16 |-> frame.te.device_id16, device_id32 |-> frame.mu_pre.device_id32,
   epoch |-> frame.mu_pre.epoch, te_hash |-> frame.mu_pre.pk_hash]

Stage1(bytes) ==
  IF VerifyFrameV2(bytes) = "Ok" THEN Some(FactsOf(bytes)) ELSE None

\* verify_error is "Ok" when R1 accepts.
VerifyAndAuthorize(bytes, registry) ==
  [verify_error |-> VerifyFrameV2(bytes), frame_hash |-> Sha3(bytes),
   r2 |-> Authorize(Stage1(bytes), registry)]

-----------------------------------------------------------------------------
(* Manifests.                                                                *)

DIGEST_ALGORITHM == 1

ManifestFor(name, data, contentType) ==
  [digest_algorithm |-> DIGEST_ALGORITHM, file_hash |-> Sha3(data),
   content_type |-> contentType, about |-> name]

\* The file hash a manifest declares: None for another algorithm or bad hex.
DeclaredHash(manifest) ==
  IF manifest.digest_algorithm # DIGEST_ALGORITHM \/ manifest.file_hash = Garbled
  THEN None
  ELSE Some(manifest.file_hash)

\* An absent content type is hashed as the empty text.
ManifestBytes(manifest) ==
  [manifest EXCEPT !.content_type = IF @ = None THEN Some("") ELSE @]

ManifestHash(manifest) == Sha3(ManifestBytes(manifest))

-----------------------------------------------------------------------------
(* Sealing.  A signer is a key (its seed), a device id and an epoch.         *)

BuildTE(signer) ==
  [key |-> signer.key, epoch |-> signer.epoch, device_id16 |-> signer.device_id16]

BuildMuPre(te, manifestHash) ==
  [pk_hash |-> Shake256(te), domain_sep |-> DOMAIN_SEP,
   version |-> MU_PRE_VERSION_VAL, device_id32 |-> DeviceId32(te.device_id16),
   epoch |-> te.epoch, ctx_hash |-> manifestHash, rest |-> ZeroRest]

SealFile(name, data, contentType, signer) ==
  LET manifest == ManifestFor(name, data, contentType)
      te       == BuildTE(signer)
      muPre    == BuildMuPre(te, ManifestHash(manifest))
  IN  [manifest |-> manifest,
       frame |-> PackFrameV2(muPre, te, Sign(signer.key, Mu(muPre)))]

\* The registry written next to a fresh seal: its signer, and nobody else.
RegistryFor(bundle) ==
  LET facts == FactsOf(bundle.frame)
  IN  [stamp |-> 1,
       entries |-> << [device_id16 |-> facts.device_id16,
                       device_id32 |-> facts.device_id32,
                       authorized_te_hashes |-> {facts.te_hash},
                       current_epoch |-> facts.epoch, revoked |-> FALSE,
                       frozen |-> FALSE, recovery_hold |-> FALSE] >>]

-----------------------------------------------------------------------------
(* Verifying.                                                                *)

\* Mutant of Unchanged: the manifest is not compared with the frame.
UnchangedNoManifest(bundle, data) ==
  FirstFailing(
    << <<"file_hash_mismatch", DeclaredHash(bundle.manifest) = Some(Sha3(data))>> >>,
    "yes")

\* "yes", or the unchanged_detail of a "no".
Unchanged(bundle, data) ==
  FirstFailing(
    << <<"manifest_hash_mismatch",
         ManifestHash(bundle.manifest) = bundle.frame.mu_pre.ctx_hash>>,
       <<"file_hash_mismatch", DeclaredHash(bundle.manifest) = Some(Sha3(data))>> >>,
    "yes")

VerifySealed(bundle, data, registry) ==
  LET combined   == VerifyAndAuthorize(bundle.frame, registry)
      authentic  == combined.verify_error = "Ok"
      unchanged  == IF authentic THEN Unchanged(bundle, data) ELSE "not_evaluated"
      authorized == combined.r2.stage2
  IN  [authentic |-> authentic, unchanged |-> unchanged, authorized |-> authorized,
       overall_accept |->
         authentic /\ unchanged = "yes" /\ authorized = "AUTHORIZED",
       file_hash |-> Sha3(data),
       manifest_hash |-> IF authentic THEN Some(ManifestHash(bundle.manifest)) ELSE None,
       frame_ctx_hash |-> IF authentic THEN Some(bundle.frame.mu_pre.ctx_hash) ELSE None,
       combined |-> combined]

\* Mutant of EvidenceOf: the verdict in it is that of the file and its manifest.
EvidenceOfUnchanged(result, moment) ==
  LET stated == [result EXCEPT !.overall_accept = result.unchanged = "yes"]
  IN  [deterministic |-> stated, evidence_digest |-> Sha3(stated), runtime |-> moment]

\* The evidence of a verification, made at a moment: the deterministic part is
\* the result, whose fields it copies (but device_id16, which device_id32
\* determines), and alone enters the digest.
EvidenceOf(result, moment) ==
  [deterministic |-> result, evidence_digest |-> Sha3(result), runtime |-> moment]

=============================================================================

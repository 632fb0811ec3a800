------------------------------ MODULE R2Policy ------------------------------
(* The policy engine: crates/andna-r2.  A registry file lists devices; what  *)
(* is authorized is what the one entry of the device grants.  The snapshot's *)
(* number, time and policy texts are carried into the digests and compared   *)
(* with nothing: they are the one field stamp.  A hash listed twice in an    *)
(* entry is not told from one listed once.                                   *)
EXTENDS FrameV2

Sha3(x) == <<x>>

NoDeviceTwice(entries) ==
  \A i, j \in DOMAIN entries :
    entries[i].device_id32 = entries[j].device_id32 => i = j

\* Mutant of FromJson: the same device may be listed again.
FromJsonKeepsDuplicates(file) == Some(file)

\* A parsed registry file, unless a device is listed twice.
FromJson(file) == IF NoDeviceTwice(file.entries) THEN Some(file) ELSE None

\* The first entry of the device, in a set of at most one.
LookupByDeviceId32(registry, id32) ==
  LET found == {i \in DOMAIN registry.entries : registry.entries[i].device_id32 = id32}
  IN  {registry.entries[i] : i \in {j \in found : \A k \in found : j <= k}}

\* Entries are hashed in the order of their device ids, and an id has one
\* entry: the sorted list is the set.
CanonicalBytes(registry) ==
  [stamp |-> registry.stamp,
   entries |-> {registry.entries[i] : i \in DOMAIN registry.entries}]

SnapshotHash(registry) == Sha3(CanonicalBytes(registry))

-----------------------------------------------------------------------------

\* Mutant of Reason: any epoch up to the current one passes.
ReasonKeepsOldEpochs(facts, registry) ==
  LET entry == LookupByDeviceId32(registry, facts.device_id32)
  IN  FirstFailing(
        << <<"no_registry_entry", entry # {}>>,
           <<"device_id16_mismatch", \A e \in entry : e.device_id16 = facts.device_id16>>,
           <<"device_revoked", \A e \in entry : ~e.revoked>>,
           <<"lineage_frozen", \A e \in entry : ~e.frozen>>,
           <<"recovery_hold", \A e \in entry : ~e.recovery_hold>>,
           <<"epoch_stale", \A e \in entry : facts.epoch <= e.current_epoch>>,
           <<"te_not_authorized",
             \A e \in entry : facts.te_hash \in e.authorized_te_hashes>> >>,
        "registry_entry_valid")

\* The reason of the first condition that fails, in the order of authorize.
Reason(facts, registry) ==
  LET entry == LookupByDeviceId32(registry, facts.device_id32)
  IN  FirstFailing(
        << <<"no_registry_entry", entry # {}>>,
           <<"device_id16_mismatch", \A e \in entry : e.device_id16 = facts.device_id16>>,
           <<"device_revoked", \A e \in entry : ~e.revoked>>,
           <<"lineage_frozen", \A e \in entry : ~e.frozen>>,
           <<"recovery_hold", \A e \in entry : ~e.recovery_hold>>,
           <<"epoch_stale", \A e \in entry : facts.epoch = e.current_epoch>>,
           <<"te_not_authorized",
             \A e \in entry : facts.te_hash \in e.authorized_te_hashes>> >>,
        "registry_entry_valid")

\* A frame that was rejected is never evaluated, and has no facts.
NotEvaluated(registry) ==
  [stage1 |-> "CRYPTO_REJECT", stage2 |-> "NOT_EVALUATED",
   reason |-> "stage1_reject", facts |-> None,
   snapshot_hash |-> SnapshotHash(registry), policy_digest |-> None]

Evaluated(facts, registry) ==
  LET reason == Reason(facts, registry)
      stage2 == IF reason = "registry_entry_valid" THEN "AUTHORIZED"
                                                   ELSE "NOT_AUTHORIZED"
  IN  [stage1 |-> "CRYPTO_ACCEPT", stage2 |-> stage2, reason |-> reason,
       facts |-> Some(facts), snapshot_hash |-> SnapshotHash(registry),
       policy_digest |->
         Some(Sha3(<<SnapshotHash(registry), stage2, reason, facts>>))]

\* stage1 is None when the frame was rejected, Some(facts) when accepted.
Authorize(stage1, registry) ==
  IF stage1 = None THEN NotEvaluated(registry)
                   ELSE Evaluated(stage1[1], registry)

=============================================================================

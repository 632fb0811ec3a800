--------------------------- MODULE R2Policy_proofs ---------------------------
EXTENDS R2Policy, TLAPS

(***************************************************************************)
(* When R1 accepts a frame and when R2 authorizes it: the chains of checks *)
(* that return at the first failure, turned into the conjunction of what   *)
(* they check, in both directions. The proofs about seals and about epoch  *)
(* keys rest on these lemmas.                                              *)
(* At the end, what a registry file decides, in whatever order it lists    *)
(* its devices.                                                            *)
(***************************************************************************)

\* Least finds a member: the first of the at most seven checks that fail.
LEMMA LeastOfSeven ==
  ASSUME NEW S \in SUBSET (1..7), S # {}
  PROVE  Least(S) \in S
<1>1. \E m \in S : \A n \in S : m <= n
  <2>1. CASE 1 \in S  BY <2>1
  <2>2. CASE 2 \in S /\ S \cap 1..1 = {}  BY <2>2
  <2>3. CASE 3 \in S /\ S \cap 1..2 = {}  BY <2>3
  <2>4. CASE 4 \in S /\ S \cap 1..3 = {}  BY <2>4
  <2>5. CASE 5 \in S /\ S \cap 1..4 = {}  BY <2>5
  <2>6. CASE 6 \in S /\ S \cap 1..5 = {}  BY <2>6
  <2>7. CASE 7 \in S /\ S \cap 1..6 = {}  BY <2>7
  <2>8. \/ 1 \in S \/ 2 \in S \/ 3 \in S \/ 4 \in S \/ 5 \in S \/ 6 \in S \/ 7 \in S
    <3>1. PICK n \in S : n \in 1..7
      OBVIOUS
    <3>2. n = 1 \/ n = 2 \/ n = 3 \/ n = 4 \/ n = 5 \/ n = 6 \/ n = 7
      BY <3>1
    <3> QED  BY <3>1, <3>2
  <2> QED  BY <2>1, <2>2, <2>3, <2>4, <2>5, <2>6, <2>7, <2>8
<1> QED  BY <1>1 DEF Least

\* The chains of checks that return at the first failure (core.rs, r2.rs,
\* lib.rs of andna-seal): the good answer means every check held.
LEMMA FirstFailingGood ==
  ASSUME NEW checks, NEW good, DOMAIN checks \subseteq 1..7,
         \A k \in DOMAIN checks : checks[k][1] # good,
         FirstFailing(checks, good) = good
  PROVE  \A k \in DOMAIN checks : checks[k][2]
<1> DEFINE failing == {k \in DOMAIN checks : ~checks[k][2]}
<1>1. CASE failing = {}
  BY <1>1
<1>2. CASE failing # {}
  <2>1. Least(failing) \in failing
    BY <1>2, LeastOfSeven
  <2>2. FirstFailing(checks, good) = checks[Least(failing)][1]
    BY <1>2 DEF FirstFailing
  <2> QED  BY <2>1, <2>2
<1> QED  BY <1>1, <1>2

\* verify_vnext answers Ok only of a frame whose header is bound to its TE and,
\* in a build with liboqs, whose signature is the TE's key's over that header.
LEMMA FrameOk ==
  ASSUME NEW f, VerifyVnext(f) = "Ok"
  PROVE  /\ ParseMuPreHeader(f.mu_pre)
         /\ CheckPkHashBinding(f.mu_pre, f.te)
         /\ CheckEpochCorrelation(f.mu_pre, f.te)
         /\ CheckDeviceIdDuality(f.mu_pre, f.te)
         /\ OqsBackend = TRUE => f.sig = Sign(f.te.key, Mu(f.mu_pre))
<1> DEFINE checks ==
    << <<"MuPreMalformed", ParseMuPreHeader(f.mu_pre)>>,
       <<"PkHashMismatch", CheckPkHashBinding(f.mu_pre, f.te)>>,
       <<"EpochMismatch", CheckEpochCorrelation(f.mu_pre, f.te)>>,
       <<"DeviceIdMismatch", CheckDeviceIdDuality(f.mu_pre, f.te)>>,
       <<"Internal", OqsBackend => EngineUp>>,
       <<"SignatureInvalid", VerifyPk(f.te.key, Mu(f.mu_pre), f.sig)>> >>
<1>1. DOMAIN checks = 1..6
  OBVIOUS
<1>2. \A k \in DOMAIN checks : checks[k][1] # "Ok"
  OBVIOUS
<1>3. FirstFailing(checks, "Ok") = "Ok"
  BY DEF VerifyVnext
<1>4. \A k \in DOMAIN checks : checks[k][2]
  <2> HIDE DEF checks
  <2> QED  BY <1>1, <1>2, <1>3, FirstFailingGood
<1>5. /\ checks[1][2] /\ checks[2][2] /\ checks[3][2]
      /\ checks[4][2] /\ checks[5][2] /\ checks[6][2]
  BY <1>1, <1>4
<1> QED  BY <1>5 DEF VerifyPk

\* authorize answers registry_entry_valid only if an entry of the registry
\* names the device, is not withdrawn and authorizes the TE at its epoch.
LEMMA GrantedReason ==
  ASSUME NEW facts, NEW registry,
         Reason(facts, registry) = "registry_entry_valid"
  PROVE  \E i \in DOMAIN registry.entries :
           LET e == registry.entries[i]
           IN  /\ e.device_id32 = facts.device_id32
               /\ e.device_id16 = facts.device_id16
               /\ ~e.revoked /\ ~e.frozen /\ ~e.recovery_hold
               /\ facts.epoch = e.current_epoch
               /\ facts.te_hash \in e.authorized_te_hashes
<1> DEFINE entry == LookupByDeviceId32(registry, facts.device_id32)
           checks ==
    << <<"no_registry_entry", entry # {}>>,
       <<"device_id16_mismatch", \A e \in entry : e.device_id16 = facts.device_id16>>,
       <<"device_revoked", \A e \in entry : ~e.revoked>>,
       <<"lineage_frozen", \A e \in entry : ~e.frozen>>,
       <<"recovery_hold", \A e \in entry : ~e.recovery_hold>>,
       <<"epoch_stale", \A e \in entry : facts.epoch = e.current_epoch>>,
       <<"te_not_authorized",
         \A e \in entry : facts.te_hash \in e.authorized_te_hashes>> >>
<1> HIDE DEF entry
<1>1. DOMAIN checks = 1..7
  OBVIOUS
<1>2. \A k \in DOMAIN checks : checks[k][1] # "registry_entry_valid"
  OBVIOUS
<1>3. FirstFailing(checks, "registry_entry_valid") = "registry_entry_valid"
  BY DEF Reason, entry
<1>4. \A k \in DOMAIN checks : checks[k][2]
  <2> HIDE DEF checks
  <2> QED  BY <1>1, <1>2, <1>3, FirstFailingGood
<1>5. /\ checks[1][2] /\ checks[2][2] /\ checks[3][2] /\ checks[4][2]
      /\ checks[5][2] /\ checks[6][2] /\ checks[7][2]
  <2> HIDE DEF checks
  <2> QED  BY <1>1, <1>4
<1>6. PICK e \in entry : TRUE
  BY <1>5
<1>7. PICK i \in DOMAIN registry.entries :
        registry.entries[i] = e /\ e.device_id32 = facts.device_id32
  BY <1>6 DEF entry, LookupByDeviceId32
<1>8. /\ e.device_id16 = facts.device_id16
      /\ ~e.revoked /\ ~e.frozen /\ ~e.recovery_hold
      /\ facts.epoch = e.current_epoch
      /\ facts.te_hash \in e.authorized_te_hashes
  BY <1>5, <1>6
<1> QED  BY <1>7, <1>8

\* When every check holds the answer is the good one.
LEMMA FirstFailingNone ==
  ASSUME NEW checks, NEW good, \A k \in DOMAIN checks : checks[k][2]
  PROVE  FirstFailing(checks, good) = good
<1>1. {k \in DOMAIN checks : ~checks[k][2]} = {}
  OBVIOUS
<1> QED  BY <1>1 DEF FirstFailing

\* A frame whose parts are bound to each other and whose signature is its key's
\* is accepted (core.rs, verify_vnext).
LEMMA FrameAccepted ==
  ASSUME NEW f, EngineUp,
         ParseMuPreHeader(f.mu_pre), CheckPkHashBinding(f.mu_pre, f.te),
         CheckEpochCorrelation(f.mu_pre, f.te), CheckDeviceIdDuality(f.mu_pre, f.te),
         f.sig = Sign(f.te.key, Mu(f.mu_pre))
  PROVE  VerifyVnext(f) = "Ok"
<1> DEFINE checks ==
    << <<"MuPreMalformed", ParseMuPreHeader(f.mu_pre)>>,
       <<"PkHashMismatch", CheckPkHashBinding(f.mu_pre, f.te)>>,
       <<"EpochMismatch", CheckEpochCorrelation(f.mu_pre, f.te)>>,
       <<"DeviceIdMismatch", CheckDeviceIdDuality(f.mu_pre, f.te)>>,
       <<"Internal", OqsBackend => EngineUp>>,
       <<"SignatureInvalid", VerifyPk(f.te.key, Mu(f.mu_pre), f.sig)>> >>
<1>1. DOMAIN checks = 1..6
  OBVIOUS
<1>2. VerifyPk(f.te.key, Mu(f.mu_pre), f.sig)
  BY DEF VerifyPk
<1>3. /\ checks[1][2] /\ checks[2][2] /\ checks[3][2]
      /\ checks[4][2] /\ checks[5][2] /\ checks[6][2]
  BY <1>2
<1>4. \A k \in DOMAIN checks : checks[k][2]
  <2> HIDE DEF checks
  <2>1. \A k \in 1..6 : k = 1 \/ k = 2 \/ k = 3 \/ k = 4 \/ k = 5 \/ k = 6
    OBVIOUS
  <2> QED  BY <1>1, <1>3, <2>1
<1>5. FirstFailing(checks, "Ok") = "Ok"
  <2> HIDE DEF checks
  <2> QED  BY <1>4, FirstFailingNone
<1> QED  BY <1>5 DEF VerifyVnext

\* In a registry that lists each device once, an entry that names the device,
\* is not withdrawn and lists the TE at its epoch authorizes it.
LEMMA ReasonGranted ==
  ASSUME NEW facts, NEW registry, NoDeviceTwice(registry.entries),
         NEW i \in DOMAIN registry.entries, DOMAIN registry.entries \subseteq Nat,
         LET e == registry.entries[i]
         IN  /\ e.device_id32 = facts.device_id32
             /\ e.device_id16 = facts.device_id16
             /\ ~e.revoked /\ ~e.frozen /\ ~e.recovery_hold
             /\ facts.epoch = e.current_epoch
             /\ facts.te_hash \in e.authorized_te_hashes
  PROVE  Reason(facts, registry) = "registry_entry_valid"
<1> DEFINE entry == LookupByDeviceId32(registry, facts.device_id32)
           checks ==
    << <<"no_registry_entry", entry # {}>>,
       <<"device_id16_mismatch", \A e \in entry : e.device_id16 = facts.device_id16>>,
       <<"device_revoked", \A e \in entry : ~e.revoked>>,
       <<"lineage_frozen", \A e \in entry : ~e.frozen>>,
       <<"recovery_hold", \A e \in entry : ~e.recovery_hold>>,
       <<"epoch_stale", \A e \in entry : facts.epoch = e.current_epoch>>,
       <<"te_not_authorized",
         \A e \in entry : facts.te_hash \in e.authorized_te_hashes>> >>
<1>1. entry = {registry.entries[i]}
  BY DEF LookupByDeviceId32, NoDeviceTwice
<1> HIDE DEF entry
<1>2. DOMAIN checks = 1..7
  OBVIOUS
<1>3. /\ checks[1][2] /\ checks[2][2] /\ checks[3][2] /\ checks[4][2]
      /\ checks[5][2] /\ checks[6][2] /\ checks[7][2]
  BY <1>1
<1>4. \A k \in DOMAIN checks : checks[k][2]
  <2> HIDE DEF checks
  <2>1. \A k \in 1..7 : k = 1 \/ k = 2 \/ k = 3 \/ k = 4 \/ k = 5 \/ k = 6 \/ k = 7
    OBVIOUS
  <2> QED  BY <1>2, <1>3, <2>1
<1>5. FirstFailing(checks, "registry_entry_valid") = "registry_entry_valid"
  <2> HIDE DEF checks
  <2> QED  BY <1>4, FirstFailingNone
<1> QED  BY <1>5 DEF Reason, entry
-----------------------------------------------------------------------------
(* What a registry file decides.                                             *)

\* The TE of these facts is granted by some entry of the registry.
GrantedBy(registry, facts) ==
  \E i \in DOMAIN registry.entries :
    LET e == registry.entries[i]
    IN  /\ e.device_id32 = facts.device_id32
        /\ e.device_id16 = facts.device_id16
        /\ ~e.revoked /\ ~e.frozen /\ ~e.recovery_hold
        /\ facts.epoch = e.current_epoch
        /\ facts.te_hash \in e.authorized_te_hashes

\* authorize stops at the first of seven checks, on the first entry it finds;
\* of a registry that from_json let through it authorizes exactly what some
\* entry grants, whatever the order of checks and entries (policy.rs, authorize).
THEOREM AuthorizedIffGranted ==
  ASSUME NEW registry, DOMAIN registry.entries \subseteq Nat,
         FromJson(registry) # None, NEW facts
  PROVE  Authorize(Some(facts), registry).stage2 = "AUTHORIZED" <=> GrantedBy(registry, facts)
<1>1. NoDeviceTwice(registry.entries)
  BY DEF FromJson
<1>2. Authorize(Some(facts), registry).stage2 = "AUTHORIZED"
        <=> Reason(facts, registry) = "registry_entry_valid"
  BY DEF Authorize, Evaluated, Some, None
<1>3. Reason(facts, registry) = "registry_entry_valid" => GrantedBy(registry, facts)
  BY GrantedReason DEF GrantedBy
<1>4. ASSUME GrantedBy(registry, facts)
      PROVE  Reason(facts, registry) = "registry_entry_valid"
  BY <1>1, <1>4, ReasonGranted DEF GrantedBy
<1> QED  BY <1>2, <1>3, <1>4

\* The lookup of a device does not depend on the order of the entries.
LEMMA LookupIsAnywhere ==
  ASSUME NEW registry, DOMAIN registry.entries \subseteq Nat,
         NoDeviceTwice(registry.entries), NEW id32
  PROVE  LookupByDeviceId32(registry, id32)
           = {e \in CanonicalBytes(registry).entries : e.device_id32 = id32}
<1> DEFINE found == {i \in DOMAIN registry.entries : registry.entries[i].device_id32 = id32}
<1>1. \A j, k \in found : j = k
  BY DEF NoDeviceTwice
<1>2. {j \in found : \A k \in found : j <= k} = found
  <2>1. \A j \in found : j <= j
    OBVIOUS
  <2> QED  BY <1>1, <2>1
<1>3. LookupByDeviceId32(registry, id32) = {registry.entries[i] : i \in found}
  BY <1>2 DEF LookupByDeviceId32
<1>4. CanonicalBytes(registry).entries = {registry.entries[i] : i \in DOMAIN registry.entries}
  BY DEF CanonicalBytes
<1> QED  BY <1>3, <1>4

\* The snapshot hash stands for the registry: two files with one hash decide
\* everything alike, to the reason and the digest, in whatever order their
\* entries are listed (registry.rs, canonical_bytes; policy.rs, authorize).
THEOREM SnapshotDecides ==
  ASSUME NEW r1, NEW r2,
         DOMAIN r1.entries \subseteq Nat, FromJson(r1) # None,
         DOMAIN r2.entries \subseteq Nat, FromJson(r2) # None,
         SnapshotHash(r1) = SnapshotHash(r2), NEW stage1
  PROVE  Authorize(stage1, r1) = Authorize(stage1, r2)
<1>1. NoDeviceTwice(r1.entries) /\ NoDeviceTwice(r2.entries)
  BY DEF FromJson
<1>2. CanonicalBytes(r1) = CanonicalBytes(r2)
  BY DEF SnapshotHash, Sha3
<1>3. \A id32 : LookupByDeviceId32(r1, id32) = LookupByDeviceId32(r2, id32)
  BY <1>1, <1>2, LookupIsAnywhere
<1>4. \A facts : Reason(facts, r1) = Reason(facts, r2)
  <2> SUFFICES ASSUME NEW facts
               PROVE  Reason(facts, r1) = Reason(facts, r2)
    OBVIOUS
  <2>1. LookupByDeviceId32(r1, facts.device_id32) = LookupByDeviceId32(r2, facts.device_id32)
    BY <1>3
  <2> QED  BY <2>1, Zenon DEF Reason
<1>5. \A facts : Evaluated(facts, r1) = Evaluated(facts, r2)
  BY <1>4 DEF Evaluated
<1>6. NotEvaluated(r1) = NotEvaluated(r2)
  BY DEF NotEvaluated
<1> QED  BY <1>5, <1>6 DEF Authorize
=============================================================================

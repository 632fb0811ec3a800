------------------------------ MODULE FileSeal ------------------------------
(* The commands init-sealer, seal-file and verify-file of ffi_cli as         *)
(* processes that share files: profiles, files to seal (evidence records     *)
(* among them), seals and registries.  A file is Absent, Garbled (created    *)
(* and not yet, or only partly, written, or two writes mixed up) or what was *)
(* written to it.  Between the steps of a command others run, and people     *)
(* edit files, registries and seals.                                         *)
EXTENDS SealVerify, FiniteSets

CONSTANTS
  Process,
  Key, DeviceId16, Epoch,
  Data,          \* what a person puts into a file
  Mime,          \* a content type
  Absent,        \* no such file, and no such argument
  Profiles, Docs, Evidences, Seals, Registries,   \* paths
  Job,           \* the command lines that are given
  MayFail,       \* files cannot be created or fully written
  MayCrash,      \* processes are killed
  MayAlter,      \* seals and evidence are changed by hand
  MaxStarts, MaxEdits

ASSUME SizesAssumption == MaxStarts \in Nat /\ MaxEdits \in Nat
\* What the argument parser asks for: verify-file may go without a profile,
\* and then attests nothing.
ASSUME JobAssumption ==
  \A job \in Job :
    \/ job.cmd \in {"init-sealer", "seal-file"} /\ job.profile \in Profiles
    \/ /\ job.cmd = "verify-file" /\ job.profile \in Profiles \cup {Absent}
       /\ job.seal \in Seals /\ job.registry \in Registries
\* Evidence goes to paths of its own.
ASSUME PathsAssumption ==
  /\ Docs \cap Evidences = {}
  /\ \A job \in Job : job.cmd = "verify-file" => job.evidence \in Evidences \cup {Absent}
ASSUME FlagsAssumption == {MayFail, MayCrash, MayAlter} \subseteq BOOLEAN

VARIABLES
  profiles, files, seals, registries,
  proc,       \* where each process is, and what it holds
  starts,     \* commands started
  edits,      \* changes made by people
  made,       \* the identities init-sealer made: keys and device ids are fresh
  sealings,   \* every seal ever made: who sealed what
  decided,    \* every evidence record ever made
  accepted    \* whom and what verify-file ever accepted, against which registry

disk == <<profiles, files, seals, registries>>
history == <<made, sealings, decided, accepted>>
vars == <<disk, proc, starts, edits, history>>

Files == Docs \cup Evidences

Signer == [key : Key, device_id16 : DeviceId16, epoch : Epoch]

ASSUME SignerAssumption == Garbled \notin Signer

\* A process between commands: what it ran last, and its exit code.
Idle(job, code) ==
  [pc |-> "idle", job |-> job, code |-> code, moment |-> 0, signer |-> Garbled,
   data |-> Garbled, bundle |-> Garbled, result |-> Garbled]

Init ==
  /\ profiles = [f \in Profiles |-> Absent]
  /\ files \in [Files -> Data \cup {Absent}]
  /\ \A f \in Files : files[f] = Absent <=> f \in Evidences
  /\ seals = [f \in Seals |-> Absent]
  /\ registries = [f \in Registries |-> Absent]
  /\ proc = [p \in Process |-> Idle(Absent, 0)]
  /\ starts = 0
  /\ edits = 0
  /\ made = {}
  /\ sealings = {}
  /\ decided = {}
  /\ accepted = {}

-----------------------------------------------------------------------------
(* Steps.  At(p, here) is the control point of p; Go moves it, Exit ends the *)
(* command.                                                                  *)

At(p, here) == proc[p].pc = here

Exit(p, code) == proc' = [proc EXCEPT ![p] = Idle(proc[p].job, code)]

\* Mutant of ExitCode: an unchanged file that is not authorized has a code of its
\* own.
ExitCodePerReason(result) ==
  IF result.overall_accept THEN 0 ELSE IF result.unchanged = "yes" THEN 3 ELSE 1

ExitCode(result) == IF result.overall_accept THEN 0 ELSE 1

FirstStep(cmd) ==
  CASE cmd = "init-sealer" -> "create_profile"
    [] cmd = "seal-file"   -> "read_profile"
    [] cmd = "verify-file" -> "read_file"

\* init-sealer draws its key and device id at random: they are new.
FreshSigner(job) ==
  IF job.cmd # "init-sealer" THEN {Garbled}
  ELSE {s \in Signer : /\ s.epoch = job.epoch
                       /\ \A m \in made : m.key # s.key /\ m.device_id16 # s.device_id16}

Start(p) ==
  /\ At(p, "idle")
  /\ starts < MaxStarts
  /\ starts' = starts + 1
  /\ \E job \in Job : \E signer \in FreshSigner(job) :
       /\ proc' = [proc EXCEPT ![p] =
            [Idle(job, 0) EXCEPT !.pc = FirstStep(job.cmd), !.moment = starts + 1,
                                 !.signer = signer]]
       /\ made' = IF signer = Garbled THEN made ELSE made \cup {signer}
  /\ UNCHANGED <<disk, edits, sealings, decided, accepted>>

\* fs::write creates or truncates, then writes.  If another process has
\* written the file in between, the longer of the two leaves its tail.
Outcomes(found, mine) == IF found = Garbled THEN {mine} ELSE {mine, Garbled}

\* What can be read and parsed as the JSON the command wants.
Readable(content) == content \notin {Absent, Garbled}

\* A file cannot be read or created: the command ends, nothing has changed.
OpenFails(p) ==
  /\ MayFail
  /\ proc[p].pc \in {"read_profile", "read_file", "read_evidence", "read_seal",
                     "read_registry", "create_profile", "create_evidence",
                     "create_seal", "create_registry"}
  /\ Exit(p, 2)
  /\ UNCHANGED <<disk, starts, edits, history>>

\* A file is written in part or not at all: it stays as its creation, or the
\* other writer, left it.
WriteFails(p) ==
  /\ MayFail
  /\ proc[p].pc \in {"write_profile", "write_evidence", "write_seal",
                     "write_registry"}
  /\ Exit(p, 2)
  /\ UNCHANGED <<disk, starts, edits, history>>

-----------------------------------------------------------------------------
(* init-sealer                                                               *)

CreateProfile(p) ==
  /\ At(p, "create_profile")
  /\ profiles' = [profiles EXCEPT ![proc[p].job.profile] = Garbled]
  /\ proc' = [proc EXCEPT ![p].pc = "write_profile"]
  /\ UNCHANGED <<files, seals, registries, starts, edits, history>>

WriteProfile(p) ==
  /\ At(p, "write_profile")
  /\ \E out \in Outcomes(profiles[proc[p].job.profile], proc[p].signer) :
       profiles' = [profiles EXCEPT ![proc[p].job.profile] = out]
  /\ Exit(p, 0)
  /\ UNCHANGED <<files, seals, registries, starts, edits, history>>

-----------------------------------------------------------------------------
(* Sealing, which is seal-file and the attestation at the end of             *)
(* verify-file: a signer, the bytes to seal, then the seal and, when asked   *)
(* for, a registry.                                                          *)

ReadProfile(p) ==
  /\ At(p, "read_profile")
  /\ LET found == profiles[proc[p].job.profile]
     IN  IF Readable(found)
         THEN proc' = [proc EXCEPT ![p].signer = found, ![p].pc =
                         IF proc[p].job.cmd = "seal-file" THEN "read_file"
                                                          ELSE "read_evidence"]
         ELSE Exit(p, 2)
  /\ UNCHANGED <<disk, starts, edits, history>>

\* Mutant of SealBytes: the path is hashed where the content belongs.
SealBytesOfName(p, path, data) ==
  /\ proc' = [proc EXCEPT ![p].pc = "create_seal", ![p].bundle =
                SealFile(path, path, proc[p].job.content_type, proc[p].signer)]
  /\ sealings' = sealings \cup
       {[name |-> path, data |-> data, content_type |-> proc[p].job.content_type,
         signer |-> proc[p].signer]}

\* The seal is made in memory.
SealBytes(p, path, data) ==
  /\ proc' = [proc EXCEPT ![p].pc = "create_seal", ![p].bundle =
                SealFile(path, data, proc[p].job.content_type, proc[p].signer)]
  /\ sealings' = sealings \cup
       {[name |-> path, data |-> data, content_type |-> proc[p].job.content_type,
         signer |-> proc[p].signer]}

\* The bytes are read as they are, half a file as well as a whole one.
ReadFile(p) ==
  /\ At(p, "read_file")
  /\ LET path == proc[p].job.file
         data == files[path]
     IN  IF data = Absent THEN Exit(p, 2) /\ UNCHANGED sealings
         ELSE IF proc[p].job.cmd = "seal-file" THEN SealBytes(p, path, data)
         ELSE /\ proc' = [proc EXCEPT ![p].pc = "read_seal", ![p].data = data]
              /\ UNCHANGED sealings
  /\ UNCHANGED <<disk, starts, edits, made, decided, accepted>>

\* The evidence is read back from the file and sealed as it is found.
ReadEvidence(p) ==
  /\ At(p, "read_evidence")
  /\ LET path == proc[p].job.evidence
     IN  IF files[path] = Absent THEN Exit(p, 2) /\ UNCHANGED sealings
                                 ELSE SealBytes(p, path, files[path])
  /\ UNCHANGED <<disk, starts, edits, made, decided, accepted>>

\* After the seal: 0 for seal-file, the verdict for verify-file.
Done(p) ==
  Exit(p, IF proc[p].job.cmd = "seal-file" THEN 0 ELSE ExitCode(proc[p].result))

CreateSeal(p) ==
  /\ At(p, "create_seal")
  /\ seals' = [seals EXCEPT ![proc[p].job.out] = Garbled]
  /\ proc' = [proc EXCEPT ![p].pc = "write_seal"]
  /\ UNCHANGED <<profiles, files, registries, starts, edits, history>>

WriteSeal(p) ==
  /\ At(p, "write_seal")
  /\ \E out \in Outcomes(seals[proc[p].job.out], proc[p].bundle) :
       seals' = [seals EXCEPT ![proc[p].job.out] = out]
  /\ IF proc[p].job.registry_out = Absent THEN Done(p)
     ELSE proc' = [proc EXCEPT ![p].pc = "create_registry"]
  /\ UNCHANGED <<profiles, files, registries, starts, edits, history>>

CreateRegistry(p) ==
  /\ At(p, "create_registry")
  /\ registries' = [registries EXCEPT ![proc[p].job.registry_out] = Garbled]
  /\ proc' = [proc EXCEPT ![p].pc = "write_registry"]
  /\ UNCHANGED <<profiles, files, seals, starts, edits, history>>

WriteRegistry(p) ==
  /\ At(p, "write_registry")
  /\ \E out \in Outcomes(registries[proc[p].job.registry_out],
                         RegistryFor(proc[p].bundle)) :
       registries' = [registries EXCEPT ![proc[p].job.registry_out] = out]
  /\ Done(p)
  /\ UNCHANGED <<profiles, files, seals, starts, edits, history>>

-----------------------------------------------------------------------------
(* verify-file                                                               *)

ReadSeal(p) ==
  /\ At(p, "read_seal")
  /\ LET found == seals[proc[p].job.seal]
     IN  IF Readable(found)
         THEN proc' = [proc EXCEPT ![p].pc = "read_registry", ![p].bundle = found]
         ELSE Exit(p, 2)
  /\ UNCHANGED <<disk, starts, edits, history>>

Reads(found) == IF Readable(found) THEN FromJson(found) ELSE None

\* The registry is the last file read; the verdict is reached and shown, then
\* the evidence is written when asked for.
ReadRegistry(p) ==
  /\ At(p, "read_registry")
  /\ LET job      == proc[p].job
         registry == Reads(registries[job.registry])
     IN  IF registry = None THEN Exit(p, 2) /\ UNCHANGED accepted
         ELSE LET result == VerifySealed(proc[p].bundle, proc[p].data, registry[1])
              IN  /\ accepted' =
                       IF ~result.overall_accept THEN accepted
                       ELSE accepted \cup {<< <<proc[p].bundle.frame.te, proc[p].data>>,
                                              job.registry>>}
                  /\ IF job.evidence = Absent THEN Exit(p, ExitCode(result))
                     ELSE proc' = [proc EXCEPT ![p].pc = "create_evidence",
                                               ![p].result = result]
  /\ UNCHANGED <<disk, starts, edits, made, sealings, decided>>

CreateEvidence(p) ==
  /\ At(p, "create_evidence")
  /\ files' = [files EXCEPT ![proc[p].job.evidence] = Garbled]
  /\ decided' = decided \cup {EvidenceOf(proc[p].result, proc[p].moment)}
  /\ proc' = [proc EXCEPT ![p].pc = "write_evidence"]
  /\ UNCHANGED <<profiles, seals, registries, starts, edits, made, sealings, accepted>>

WriteEvidence(p) ==
  /\ At(p, "write_evidence")
  /\ \E out \in Outcomes(files[proc[p].job.evidence],
                         EvidenceOf(proc[p].result, proc[p].moment)) :
       files' = [files EXCEPT ![proc[p].job.evidence] = out]
  /\ IF proc[p].job.profile = Absent THEN Exit(p, ExitCode(proc[p].result))
     ELSE proc' = [proc EXCEPT ![p].pc = "read_profile"]
  /\ UNCHANGED <<profiles, seals, registries, starts, edits, history>>

Crash(p) ==
  /\ MayCrash
  /\ ~At(p, "idle")
  /\ proc' = [proc EXCEPT ![p] = Idle(Absent, 0)]
  /\ UNCHANGED <<disk, starts, edits, history>>

-----------------------------------------------------------------------------
(* What people do to the files.                                              *)

EditFile ==
  /\ edits < MaxEdits
  /\ edits' = edits + 1
  /\ \E f \in Docs, d \in Data : files' = [files EXCEPT ![f] = d]
  /\ UNCHANGED <<profiles, seals, registries, proc, starts, history>>

EditedEntries(e) ==
  {[e EXCEPT !.revoked = TRUE], [e EXCEPT !.frozen = ~@],
   [e EXCEPT !.recovery_hold = ~@], [e EXCEPT !.authorized_te_hashes = {}]}
    \cup {[e EXCEPT !.current_epoch = n] : n \in Epoch}

EditedRegistries(reg) ==
  UNION {{[reg EXCEPT !.entries[i] = e] : e \in EditedEntries(reg.entries[i])} :
           i \in DOMAIN reg.entries}

Merged(reg) ==
  {[reg EXCEPT !.entries = @ \o other.entries] :
     other \in UNION {{registries[g]} \cup EditedRegistries(registries[g]) :
                        g \in {h \in Registries : Readable(registries[h])}}}

\* The registry is nobody's but its administrator's: an entry is changed, or
\* the entries of another registry are added, one of them perhaps changed: the
\* same device may stand there already.
EditRegistry ==
  /\ edits < MaxEdits
  /\ edits' = edits + 1
  /\ \E f \in Registries :
       /\ Readable(registries[f])
       /\ \E reg \in EditedRegistries(registries[f]) \cup Merged(registries[f]) :
            registries' = [registries EXCEPT ![f] = reg]
  /\ UNCHANGED <<profiles, files, seals, proc, starts, history>>

Bundles == {seals[f] : f \in {g \in Seals : Readable(seals[g])}}
Frames == {b.frame : b \in Bundles} \ {Garbled}

AlteredManifests(m) ==
  {[m EXCEPT !.file_hash = h] : h \in {Garbled} \cup {Sha3(d) : d \in Data}}
    \cup {[m EXCEPT !.content_type = c] : c \in {None, Some(""), Some(Mime)}}
    \cup {[m EXCEPT !.about = Garbled], [m EXCEPT !.digest_algorithm = 2]}

AlteredMuPres(m) ==
  {[m EXCEPT !.pk_hash = h] : h \in {Garbled} \cup {f.mu_pre.pk_hash : f \in Frames}}
    \cup {[m EXCEPT !.device_id32 = h] : h \in {f.mu_pre.device_id32 : f \in Frames}}
    \cup {[m EXCEPT !.ctx_hash = h] : h \in {f.mu_pre.ctx_hash : f \in Frames}}
    \cup {[m EXCEPT !.epoch = n] : n \in Epoch}
    \cup {[m EXCEPT !.domain_sep = 0], [m EXCEPT !.version = 2], [m EXCEPT !.rest = 1]}

AlteredTEs(te) ==
  {[te EXCEPT !.key = k] : k \in {Garbled} \cup {f.te.key : f \in Frames}}
    \cup {[te EXCEPT !.device_id16 = d] : d \in {f.te.device_id16 : f \in Frames}}
    \cup {[te EXCEPT !.epoch = n] : n \in Epoch}

\* One field of a seal is damaged, or replaced by what another seal has there.
AlteredBundles(b) ==
  {[b EXCEPT !.manifest = m] :
     m \in AlteredManifests(b.manifest) \cup {c.manifest : c \in Bundles}}
    \cup {[b EXCEPT !.frame = f] : f \in {Garbled} \cup Frames}
    \cup IF b.frame = Garbled THEN {} ELSE
           {[b EXCEPT !.frame.mu_pre = m] :
              m \in AlteredMuPres(b.frame.mu_pre) \cup {f.mu_pre : f \in Frames}}
             \cup {[b EXCEPT !.frame.te = te] :
                     te \in AlteredTEs(b.frame.te) \cup {f.te : f \in Frames}}
             \cup {[b EXCEPT !.frame.sig = sig] :
                     sig \in {Garbled} \cup {f.sig : f \in Frames}}

AlterSeal ==
  /\ MayAlter
  /\ edits < MaxEdits
  /\ edits' = edits + 1
  /\ \E f \in Seals :
       /\ Readable(seals[f])
       /\ \E b \in AlteredBundles(seals[f]) : seals' = [seals EXCEPT ![f] = b]
  /\ UNCHANGED <<profiles, files, registries, proc, starts, history>>

\* Evidence is changed between commands: the verdict in it is turned round,
\* with its digest or without.
AlterEvidence ==
  /\ MayAlter
  /\ edits < MaxEdits
  /\ edits' = edits + 1
  /\ \A p \in Process : At(p, "idle")
  /\ \E f \in Evidences :
       /\ Readable(files[f])
       /\ LET turned == [files[f] EXCEPT !.deterministic.overall_accept = ~@]
          IN  \E e \in {turned, EvidenceOf(turned.deterministic, turned.runtime)} :
                files' = [files EXCEPT ![f] = e]
  /\ UNCHANGED <<profiles, seals, registries, proc, starts, history>>

-----------------------------------------------------------------------------

Step(p) ==
  \/ OpenFails(p) \/ WriteFails(p)
  \/ CreateProfile(p) \/ WriteProfile(p)
  \/ ReadProfile(p) \/ ReadFile(p) \/ ReadEvidence(p)
  \/ CreateSeal(p) \/ WriteSeal(p) \/ CreateRegistry(p) \/ WriteRegistry(p)
  \/ ReadSeal(p) \/ ReadRegistry(p) \/ CreateEvidence(p) \/ WriteEvidence(p)

Next ==
  \/ \E p \in Process : Start(p) \/ Step(p) \/ Crash(p)
  \/ EditFile \/ EditRegistry \/ AlterSeal \/ AlterEvidence

Spec == Init /\ [][Next]_vars

-----------------------------------------------------------------------------
(* What must hold.                                                           *)

SealOf(s) == SealFile(s.name, s.data, s.content_type, s.signer)

\* What a registry file grants an identity, said without the order of
\* authorize: no device stands in it twice, and an entry of the device has
\* nothing against it and lists the identity.
Grants(registry, te) ==
  /\ NoDeviceTwice(registry.entries)
  /\ \E i \in DOMAIN registry.entries :
       LET e == registry.entries[i]
       IN  /\ e.device_id16 = te.device_id16
           /\ e.device_id32 = DeviceId32(te.device_id16)
           /\ Shake256(te) \in e.authorized_te_hashes
           /\ te.epoch = e.current_epoch
           /\ ~e.revoked /\ ~e.frozen /\ ~e.recovery_hold

\* Some seal ever made has this frame; and this manifest, but for the
\* difference between no content type and an empty one.
SealedAs(bundle) ==
  {s \in sealings : /\ bundle.frame = SealOf(s).frame
                    /\ ManifestBytes(bundle.manifest) = ManifestBytes(SealOf(s).manifest)}

\* The contents, bundles and registries that verify-file can read now.
Contents == {files[f] : f \in Files} \ {Absent}
Readables == {registries[f] : f \in {g \in Registries : Readable(registries[g])}}

TypeOK ==
  /\ \A f \in Profiles : profiles[f] \in Signer \cup {Absent, Garbled}
  /\ \A f \in Docs : files[f] \in Data
  /\ \A f \in Evidences :
       Readable(files[f]) => /\ files[f].runtime \in 1..MaxStarts
                             /\ MayAlter \/ files[f] \in decided
  /\ made \subseteq Signer
  /\ \A s \in sealings : s.signer \in made
  /\ \A p \in Process : proc[p].code \in 0..2
  /\ starts \in 0..MaxStarts
  /\ edits \in 0..MaxEdits

\* verify-file accepts a file exactly when the bytes, the manifest and the
\* frame are those of one seal that was made, by an identity that the registry
\* grants: no damage and no mix of several seals passes, nothing whole is
\* refused, and a device that any entry revokes has no other entry to pass by
\* (verify_sealed, verify_vnext, authorize, from_json).
AcceptsExactly ==
  \A data \in Contents, b \in Bundles, r \in Readables :
    (FromJson(r) # None /\ VerifySealed(b, data, r).overall_accept)
      <=> /\ \E s \in SealedAs(b) : s.data = data
          /\ Grants(r, b.frame.te)

\* The report names what is wrong: a changed frame is not authentic and then
\* nothing else is judged; a changed manifest and a changed file are told
\* apart; and neither of these has a say in the authorization
\* (andna-seal/src/lib.rs, failure isolation).
FailureIsolation ==
  \A data \in Contents, b \in Bundles, r \in Readables :
    LET v == VerifySealed(b, data, r)
    IN  /\ v.authentic <=> \E s \in sealings : b.frame = SealOf(s).frame
        /\ ~v.authentic => /\ v.unchanged = "not_evaluated"
                           /\ v.authorized = "NOT_EVALUATED"
                           /\ v.combined.r2.facts = None
        /\ v.authentic =>
             /\ v.unchanged = "manifest_hash_mismatch" <=> SealedAs(b) = {}
             /\ v.unchanged = "yes" <=> \E s \in SealedAs(b) : s.data = data
             /\ NoDeviceTwice(r.entries) =>
                  (v.authorized = "AUTHORIZED" <=> Grants(r, b.frame.te))

\* An evidence record tells of an acceptance: of these bytes, from that identity.
TellsOf(record, acceptance) ==
  LET det == record.deterministic
  IN  /\ det.file_hash = Sha3(acceptance[1][2])
      /\ det.combined.r2.facts # None
      /\ det.combined.r2.facts[1].te_hash = Shake256(acceptance[1][1])

\* The evidence is read back from the disk to be attested, where another command
\* may have written its own or just truncated it, and may have been killed.  What
\* is sealed is the half of a record, which is no record, or one that some
\* verify-file decided, whole and as it decided it; and no record that says
\* ACCEPT is sealed unless verify-file did accept those very bytes from that
\* identity (cmd_verify_file, --attest-profile).
AttestedWasDecided ==
  \A s \in sealings :
    s.name \in Evidences /\ s.data # Garbled =>
      /\ s.data \in decided
      /\ s.data.deterministic.overall_accept => \E a \in accepted : TellsOf(s.data, a)

\* A command that sealed and wrote a registry, and ended well, leaves files
\* that verify-file accepts (cmd_seal_file --registry-out, cmd_verify_file
\* --attest-registry-out).
RoundTrip ==
  \A p \in Process :
    LET job == proc[p].job
    IN  (/\ At(p, "idle") /\ edits = 0
         /\ job # Absent /\ job.registry_out # Absent /\ proc[p].code # 2)
        => LET sealed == IF job.cmd = "seal-file" THEN job.file ELSE job.evidence
           IN  /\ Readable(seals[job.out]) /\ Readable(registries[job.registry_out])
               /\ VerifySealed(seals[job.out], files[sealed],
                               registries[job.registry_out]).overall_accept

\* The commands implement the promise.  Who was accepted for what is recorded
\* where the registry is read, which is when it has to grant.
Promise == INSTANCE SealPromise WITH
  Identity <- TE(Key, Epoch, DeviceId16),
  sealed   <- {<<BuildTE(s.signer), s.data>> : s \in sealings},
  granted  <- [f \in Registries |->
                 {te \in TE(Key, Epoch, DeviceId16) :
                    Readable(registries[f]) /\ Grants(registries[f], te)}]

KeepsPromise == Promise!Spec

=============================================================================

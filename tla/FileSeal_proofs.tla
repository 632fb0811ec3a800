--------------------------- MODULE FileSeal_proofs ---------------------------
EXTENDS FileSeal, R2Policy_proofs, SequenceTheorems

(***************************************************************************)
(* What the sealing commands promise, proved for every set of processes,   *)
(* files and keys.                                                         *)
(*                                                                         *)
(* The inductive invariant SealInv says where signatures come from: every  *)
(* seal that reads as one carries garbled bytes or a signature some        *)
(* sealing of the history made, and so does the bundle a command holds     *)
(* between reading a seal, or making one, and using it. It is needed       *)
(* because an accepting verification looks at the copy it read steps ago,  *)
(* while files are rewritten and altered under it.                         *)
(*                                                                         *)
(* From SealInv: a frame that verifies is signed over a header a sealing   *)
(* made (AuthenticFrame), the header binds the manifest and the manifest   *)
(* the bytes (AcceptedWasSealed), and the registry read in the accepting   *)
(* step grants the identity (AcceptedIsGranted): the step is Accept of     *)
(* SealPromise, and every other step is Seal, Regrant or a stutter.        *)
(*                                                                         *)
(* The report of a verification is read both ways from SealInv and         *)
(* RegistriesInv, that a file which parses as a registry is one: a check   *)
(* fails exactly if what it names was changed, the signature was not made  *)
(* or the registry does not grant the identity (ReportOf).                 *)
(*                                                                         *)
(* Types follow the copies: FilesInv and Carries say what every file and   *)
(* every command holds. What is attested is a decided record, or the half  *)
(* of one: evidence is not altered while a command runs. A record that     *)
(* says ACCEPT is of an acceptance from where the verdict is reached on    *)
(* (BackedInv).                                                            *)
(*                                                                         *)
(* That a whole round is accepted is said of one command at a time: what   *)
(* it holds and has written, step by step, is of one sealing (Proceeds).   *)
(*                                                                         *)
(* Hypotheses, where a theorem names them: the build has liboqs, for       *)
(* without it VerifyPk accepts test signatures anyone makes, and its       *)
(* engine starts; bytes that do not parse are not the signature, the frame *)
(* or the hash of anything; nobody gives evidence to seal-file.            *)
(***************************************************************************)

\* Bytes that are no signature of any header by any key.
GarbledIsNoSignature == \A key, mu : Garbled # Sign(key, mu)

\* A frame whose signature is no other than one of those made.
FrameFrom(frame, S) ==
  \/ frame = Garbled
  \/ \E mp, te, sig :
       /\ frame = [mu_pre |-> mp, te |-> te, sig |-> sig]
       /\ \/ sig = Garbled
          \/ \E s \in S : sig = SealOf(s).frame.sig

\* What the manifest of a bundle that parses has.
IsManifest(m) ==
  \E alg, hash, type, about :
    m = [digest_algorithm |-> alg, file_hash |-> hash,
         content_type |-> type, about |-> about]

\* A bundle that parses, signed by one of the sealings or by nobody.
FromSealings(bundle, S) ==
  \E m, f : /\ bundle = [manifest |-> m, frame |-> f]
            /\ IsManifest(m)
            /\ FrameFrom(f, S)

\* A frame that verifies, of a bundle with no signature but those made, has
\* the header and the TE of one sealing: nobody signs but the sealer.
LEMMA AuthenticFrame ==
  ASSUME NEW f, NEW S, OqsBackend = TRUE, GarbledIsNoSignature,
         VerifyFrameV2(f) = "Ok",
         NEW b, b.frame = f, FromSealings(b, S)
  PROVE  \E s \in S : f.mu_pre = SealOf(s).frame.mu_pre /\ f.te = BuildTE(s.signer)
<1>1. f # Garbled /\ VerifyVnext(f) = "Ok"
  BY DEF VerifyFrameV2
<1>2. CheckPkHashBinding(f.mu_pre, f.te) /\ f.sig = Sign(f.te.key, Mu(f.mu_pre))
  BY <1>1, FrameOk
<1>3. PICK s \in S : f.sig = SealOf(s).frame.sig
  <2>1. FrameFrom(f, S)
    BY DEF FromSealings
  <2> QED  BY <1>1, <1>2, <2>1 DEF FrameFrom, GarbledIsNoSignature
<1> DEFINE mp == SealOf(s).frame.mu_pre
<1>4. SealOf(s).frame.sig = Sign(s.signer.key, Mu(mp))
  BY DEF SealOf, SealFile, PackFrameV2
<1>5. Mu(f.mu_pre) = Mu(mp)
  <2> HIDE DEF mp
  <2> QED  BY <1>2, <1>3, <1>4 DEF Sign
<1>6. f.mu_pre = mp
  <2> HIDE DEF mp
  <2> QED  BY <1>5 DEF Mu, Shake256
<1>7. mp.pk_hash = Shake256(BuildTE(s.signer))
  BY DEF SealOf, SealFile, PackFrameV2, BuildMuPre
<1>8. f.te = BuildTE(s.signer)
  <2> HIDE DEF mp
  <2> QED  BY <1>2, <1>6, <1>7 DEF CheckPkHashBinding, Shake256
<1> QED  BY <1>6, <1>8

\* verify_sealed accepts only bytes that were sealed, by the identity of the
\* frame, and only what the registry grants that identity.
LEMMA AcceptedWasSealed ==
  ASSUME NEW b, NEW data, NEW registry, NEW S,
         OqsBackend = TRUE, GarbledIsNoSignature, FromSealings(b, S),
         VerifySealed(b, data, registry).overall_accept
  PROVE  /\ \E s \in S : b.frame.te = BuildTE(s.signer) /\ s.data = data
         /\ Reason(FactsOf(b.frame), registry) = "registry_entry_valid"
         /\ FactsOf(b.frame) = [device_id16 |-> b.frame.te.device_id16,
                                device_id32 |-> DeviceId32(b.frame.te.device_id16),
                                epoch |-> b.frame.te.epoch,
                                te_hash |-> Shake256(b.frame.te)]
<1> DEFINE combined == VerifyAndAuthorize(b.frame, registry)
<1>1. /\ combined.verify_error = "Ok"
      /\ Unchanged(b, data) = "yes"
      /\ combined.r2.stage2 = "AUTHORIZED"
  BY DEF VerifySealed
<1>2. VerifyFrameV2(b.frame) = "Ok"
  BY <1>1 DEF VerifyAndAuthorize
<1>4. PICK s \in S : /\ b.frame.mu_pre = SealOf(s).frame.mu_pre
                     /\ b.frame.te = BuildTE(s.signer)
  BY <1>2, AuthenticFrame
<1>5. combined.r2 = Authorize(Some(FactsOf(b.frame)), registry)
  BY <1>2 DEF VerifyAndAuthorize, Stage1
<1>6. Reason(FactsOf(b.frame), registry) = "registry_entry_valid"
  BY <1>1, <1>5 DEF Authorize, Some, None, Evaluated
<1> DEFINE checks ==
    << <<"manifest_hash_mismatch",
         ManifestHash(b.manifest) = b.frame.mu_pre.ctx_hash>>,
       <<"file_hash_mismatch", DeclaredHash(b.manifest) = Some(Sha3(data))>> >>
<1>7. checks[1][2] /\ checks[2][2]
  <2>1. DOMAIN checks = 1..2 /\ \A k \in DOMAIN checks : checks[k][1] # "yes"
    OBVIOUS
  <2>2. FirstFailing(checks, "yes") = "yes"
    BY <1>1 DEF Unchanged
  <2> HIDE DEF checks
  <2> QED  BY <2>1, <2>2, FirstFailingGood
<1> DEFINE m == SealOf(s).manifest
<1>8. SealOf(s).frame.mu_pre.ctx_hash = ManifestHash(m)
  BY DEF SealOf, SealFile, PackFrameV2, BuildMuPre
<1>9. ManifestBytes(b.manifest) = ManifestBytes(m)
  <2> HIDE DEF m
  <2>1. ManifestHash(b.manifest) = ManifestHash(m)
    BY <1>4, <1>7, <1>8
  <2> QED  BY <2>1 DEF ManifestHash, Sha3
<1>10. b.manifest.file_hash = Sha3(data)
  BY <1>7 DEF DeclaredHash, Some, None
<1>11. ManifestBytes(b.manifest).file_hash = b.manifest.file_hash
  <2>1. PICK alg, hash, type, about :
          b.manifest = [digest_algorithm |-> alg, file_hash |-> hash,
                        content_type |-> type, about |-> about]
    <3>1. IsManifest(b.manifest)
      BY DEF FromSealings
    <3> QED  BY <3>1 DEF IsManifest
  <2> DEFINE n == [digest_algorithm |-> alg, file_hash |-> hash,
                   content_type |-> type, about |-> about]
  <2>2. ManifestBytes(n).file_hash = n.file_hash
    BY DEF ManifestBytes
  <2> QED
    <3> HIDE DEF n
    <3>1. b.manifest = n
      BY <2>1 DEF n
    <3> QED  BY <2>2, <3>1
<1>12. m.file_hash = Sha3(s.data)
  BY DEF SealOf, SealFile, ManifestFor
<1>13. ManifestBytes(m).file_hash = m.file_hash
  BY DEF ManifestBytes, SealOf, SealFile, ManifestFor
<1>14. s.data = data
  <2>1. Sha3(s.data) = Sha3(data)
    <3> HIDE DEF m
    <3> QED  BY <1>9, <1>10, <1>11, <1>12, <1>13
  <2> QED  BY <2>1 DEF Sha3
<1>15. FactsOf(b.frame) = [device_id16 |-> b.frame.te.device_id16,
                           device_id32 |-> DeviceId32(b.frame.te.device_id16),
                           epoch |-> b.frame.te.epoch,
                           te_hash |-> Shake256(b.frame.te)]
  <2> DEFINE te == BuildTE(s.signer)
             mp == SealOf(s).frame.mu_pre
  <2>1. /\ mp.device_id32 = DeviceId32(te.device_id16) /\ mp.epoch = te.epoch
        /\ mp.pk_hash = Shake256(te)
    BY DEF SealOf, SealFile, PackFrameV2, BuildMuPre
  <2> HIDE DEF te, mp
  <2>2. b.frame.te = te /\ b.frame.mu_pre = mp
    BY <1>4 DEF te, mp
  <2> QED  BY <2>1, <2>2 DEF FactsOf
<1> QED  BY <1>4, <1>6, <1>14, <1>15

-----------------------------------------------------------------------------

\* A further sealing takes nothing from what a bundle comes from.
LEMMA MoreSealings ==
  ASSUME NEW b, NEW S, NEW T, S \subseteq T, FromSealings(b, S)
  PROVE  FromSealings(b, T)
BY DEF FromSealings, FrameFrom

\* Whoever edits a seal in its file, swaps parts between seals or garbles them,
\* makes no signature.
LEMMA AlteredFromSealings ==
  ASSUME NEW S, NEW b, FromSealings(b, S), NEW c \in AlteredBundles(b),
         \A f \in Seals : Readable(seals[f]) => FromSealings(seals[f], S)
  PROVE  FromSealings(c, S)
<1>1. PICK m, f : /\ b = [manifest |-> m, frame |-> f]
                  /\ IsManifest(m) /\ FrameFrom(f, S)
  BY DEF FromSealings
<1>2. \A d \in Bundles : FromSealings(d, S)
  BY DEF Bundles
<1>3. \A d \in Bundles : IsManifest(d.manifest) /\ FrameFrom(d.frame, S)
  BY <1>2 DEF FromSealings
<1>4. \A g \in Frames : FrameFrom(g, S) /\ g # Garbled
  BY <1>3 DEF Frames
<1>5. \A g \in Frames : g.sig = Garbled \/ \E s \in S : g.sig = SealOf(s).frame.sig
  BY <1>4 DEF FrameFrom
<1>6. ASSUME NEW n \in AlteredManifests(b.manifest) \cup {d.manifest : d \in Bundles},
             c = [b EXCEPT !.manifest = n]
      PROVE  FromSealings(c, S)
  <2>1. CASE n \in {d.manifest : d \in Bundles}
    BY <1>1, <1>3, <1>6, <2>1 DEF FromSealings
  <2>2. CASE n \in AlteredManifests(b.manifest)
    <3>1. IsManifest(n)
      BY <1>1, <2>2 DEF AlteredManifests, IsManifest
    <3> QED  BY <1>1, <1>6, <3>1 DEF FromSealings
  <2> QED  BY <2>1, <2>2
<1>7. ASSUME NEW g \in {Garbled} \cup Frames, c = [b EXCEPT !.frame = g]
      PROVE  FromSealings(c, S)
  <2>1. FrameFrom(g, S)
    BY <1>4 DEF FrameFrom
  <2> QED  BY <1>1, <1>7, <2>1 DEF FromSealings
<1>8. ASSUME b.frame # Garbled,
             \/ \E n : c = [b EXCEPT !.frame.mu_pre = n]
             \/ \E te : c = [b EXCEPT !.frame.te = te]
             \/ \E sig \in {Garbled} \cup {g.sig : g \in Frames} :
                  c = [b EXCEPT !.frame.sig = sig]
      PROVE  FromSealings(c, S)
  <2>1. PICK mp, te, sig :
          /\ f = [mu_pre |-> mp, te |-> te, sig |-> sig]
          /\ sig = Garbled \/ \E s \in S : sig = SealOf(s).frame.sig
    BY <1>1, <1>8 DEF FrameFrom
  <2>2. CASE \E n : c = [b EXCEPT !.frame.mu_pre = n]
    <3>1. PICK n : c = [b EXCEPT !.frame.mu_pre = n]
      BY <2>2
    <3>2. c = [manifest |-> m, frame |-> [mu_pre |-> n, te |-> te, sig |-> sig]]
      BY <1>1, <2>1, <3>1
    <3>3. FrameFrom([mu_pre |-> n, te |-> te, sig |-> sig], S)
      BY <2>1 DEF FrameFrom
    <3> QED  BY <1>1, <3>2, <3>3 DEF FromSealings
  <2>3. CASE \E t : c = [b EXCEPT !.frame.te = t]
    <3>1. PICK t : c = [b EXCEPT !.frame.te = t]
      BY <2>3
    <3>2. c = [manifest |-> m, frame |-> [mu_pre |-> mp, te |-> t, sig |-> sig]]
      BY <1>1, <2>1, <3>1
    <3>3. FrameFrom([mu_pre |-> mp, te |-> t, sig |-> sig], S)
      BY <2>1 DEF FrameFrom
    <3> QED  BY <1>1, <3>2, <3>3 DEF FromSealings
  <2>4. CASE \E x \in {Garbled} \cup {g.sig : g \in Frames} :
               c = [b EXCEPT !.frame.sig = x]
    <3>1. PICK x \in {Garbled} \cup {g.sig : g \in Frames} :
               c = [b EXCEPT !.frame.sig = x]
      BY <2>4
    <3>2. c = [manifest |-> m, frame |-> [mu_pre |-> mp, te |-> te, sig |-> x]]
      BY <1>1, <2>1, <3>1
    <3>3. FrameFrom([mu_pre |-> mp, te |-> te, sig |-> x], S)
      <4>1. x = Garbled \/ \E s \in S : x = SealOf(s).frame.sig
        BY <1>5, <3>1
      <4> QED  BY <4>1 DEF FrameFrom
    <3> QED  BY <1>1, <3>2, <3>3 DEF FromSealings
  <2> QED  BY <1>8, <2>2, <2>3, <2>4
<1> QED  BY <1>6, <1>7, <1>8 DEF AlteredBundles

\* The bundle seal_file returns carries the signature of that sealing.
LEMMA SealedFromSealings ==
  ASSUME NEW s, NEW S, s \in S
  PROVE  FromSealings(SealOf(s), S)
<1>1. IsManifest(SealOf(s).manifest)
  BY DEF SealOf, SealFile, ManifestFor, IsManifest
<1>2. FrameFrom(SealOf(s).frame, S)
  <2>1. PICK mp, te, sig :
          SealOf(s).frame = [mu_pre |-> mp, te |-> te, sig |-> sig]
    BY DEF SealOf, SealFile, PackFrameV2
  <2> QED  BY <2>1 DEF FrameFrom
<1>3. SealOf(s) = [manifest |-> SealOf(s).manifest, frame |-> SealOf(s).frame]
  BY DEF SealOf, SealFile
<1> QED  BY <1>1, <1>2, <1>3 DEF FromSealings

-----------------------------------------------------------------------------

\* The domains of the state's functions, which no step changes.
Fields == {"pc", "job", "code", "moment", "signer", "data", "bundle", "result"}

Shapes ==
  /\ DOMAIN proc = Process
  /\ \A p \in Process : DOMAIN proc[p] = Fields
  /\ DOMAIN profiles = Profiles
  /\ DOMAIN seals = Seals

\* What a command holds, by the step it is at.
Holds(r, S) ==
  /\ r.pc # "idle" => r.job \in Job
  /\ r.pc = "read_profile" => r.job.profile \in Profiles
  /\ r.pc \in {"create_profile", "write_profile", "read_evidence"} => r.signer \in Signer
  /\ r.pc = "read_file" => /\ r.job.cmd \in {"seal-file", "verify-file"}
                           /\ r.job.cmd = "seal-file" => r.signer \in Signer
  /\ r.pc \in {"read_seal", "read_registry"} => r.job.cmd = "verify-file"
  /\ r.pc \in {"create_seal", "write_seal", "read_registry"} => FromSealings(r.bundle, S)

\* The inductive invariant.
SealInv ==
  /\ Shapes
  /\ \A s \in sealings : s.signer \in Signer
  /\ \A f \in Profiles : profiles[f] \in Signer \cup {Absent, Garbled}
  /\ \A f \in Seals : Readable(seals[f]) => FromSealings(seals[f], sealings)
  /\ \A p \in Process : Holds(proc[p], sealings)

\* Before any command there is no seal.
LEMMA SealInit == Init => SealInv
BY DEF Init, SealInv, Shapes, Fields, Holds, Idle, Readable

\* A step of one process, from what it does to each part of the state.
LEMMA StepOfOne ==
  ASSUME SealInv, NEW p \in Process,
         DOMAIN proc' = Process,
         \A q \in Process \ {p} : proc'[q] = proc[q],
         DOMAIN proc'[p] = Fields, Holds(proc'[p], sealings'),
         sealings \subseteq sealings', \A s \in sealings' : s.signer \in Signer,
         DOMAIN profiles' = Profiles,
         \A f \in Profiles : profiles'[f] \in Signer \cup {Absent, Garbled},
         DOMAIN seals' = Seals,
         \A f \in Seals : Readable(seals'[f]) => FromSealings(seals'[f], sealings')
  PROVE  SealInv'
<1>1. Shapes'
  BY DEF SealInv, Shapes
<1>2. ASSUME NEW q \in Process
      PROVE  Holds(proc'[q], sealings')
  <2>1. CASE q = p
    BY <2>1
  <2>2. CASE q # p
    <3>1. proc'[q] = proc[q] /\ Holds(proc[q], sealings)
      BY <2>2 DEF SealInv
    <3>2. FromSealings(proc[q].bundle, sealings)
            => FromSealings(proc[q].bundle, sealings')
      BY MoreSealings
    <3> QED  BY <3>1, <3>2 DEF Holds
  <2> QED  BY <2>1, <2>2
<1> QED  BY <1>1, <1>2 DEF SealInv, Readable

\* The same for a step that leaves profiles, seals and sealings alone.
LEMMA StepInside ==
  ASSUME SealInv, NEW p \in Process,
         DOMAIN proc' = Process,
         \A q \in Process \ {p} : proc'[q] = proc[q],
         DOMAIN proc'[p] = Fields, Holds(proc'[p], sealings),
         UNCHANGED <<profiles, seals, sealings>>
  PROVE  SealInv'
BY StepOfOne DEF SealInv, Shapes

\* A process between commands holds nothing.
LEMMA IdleHolds ==
  ASSUME NEW job, NEW code, NEW S
  PROVE  DOMAIN Idle(job, code) = Fields /\ Holds(Idle(job, code), S)
BY DEF Idle, Fields, Holds

\* What a command's exit leaves of its process.
LEMMA ExitStep ==
  ASSUME SealInv, NEW p \in Process, NEW code, Exit(p, code)
  PROVE  /\ DOMAIN proc' = Process
         /\ \A q \in Process \ {p} : proc'[q] = proc[q]
         /\ DOMAIN proc'[p] = Fields
         /\ \A S : Holds(proc'[p], S)
<1>1. proc' = [proc EXCEPT ![p] = Idle(proc[p].job, code)]
  BY DEF Exit
<1>2. /\ DOMAIN proc' = Process
      /\ \A q \in Process \ {p} : proc'[q] = proc[q]
      /\ proc'[p] = Idle(proc[p].job, code)
  BY <1>1 DEF SealInv, Shapes
<1> QED  BY <1>2, IdleHolds

-----------------------------------------------------------------------------

\* A command starts with what its arguments name.
LEMMA StartHolds ==
  ASSUME SealInv, NEW p \in Process, Start(p)
  PROVE  SealInv'
<1>a. PICK job \in Job : \E signer \in FreshSigner(job) :
        proc' = [proc EXCEPT ![p] =
                  [Idle(job, 0) EXCEPT !.pc = FirstStep(job.cmd),
                                       !.moment = starts + 1, !.signer = signer]]
  BY DEF Start
<1>1. PICK signer \in FreshSigner(job) :
        proc' = [proc EXCEPT ![p] =
                  [Idle(job, 0) EXCEPT !.pc = FirstStep(job.cmd),
                                       !.moment = starts + 1, !.signer = signer]]
  BY <1>a
<1> DEFINE r == [Idle(job, 0) EXCEPT !.pc = FirstStep(job.cmd),
                                     !.moment = starts + 1, !.signer = signer]
<1>2. /\ DOMAIN r = Fields /\ r.job = job /\ r.pc = FirstStep(job.cmd)
      /\ r.signer = signer
  BY DEF Idle, Fields
<1>3. /\ DOMAIN proc' = Process
      /\ \A q \in Process \ {p} : proc'[q] = proc[q]
      /\ proc'[p] = r
  <2> HIDE DEF r
  <2> QED  BY <1>1 DEF SealInv, Shapes, r
<1>4. job.cmd = "init-sealer" => signer \in Signer
  BY DEF FreshSigner
<1>5. Holds(r, sealings)
  <2> HIDE DEF r
  <2>1. /\ job.cmd \in {"init-sealer", "seal-file", "verify-file"}
        /\ job.cmd # "verify-file" => job.profile \in Profiles
    BY JobAssumption
  <2> QED  BY <1>2, <1>4, <2>1 DEF Holds, FirstStep
<1> QED
  <2> HIDE DEF r
  <2>1. UNCHANGED <<profiles, seals, sealings>>
    BY DEF Start, disk
  <2> QED  BY <1>2, <1>3, <1>5, <2>1, StepInside

\* The steps that end the command and change no profile, seal or sealing.
LEMMA ExitHolds ==
  ASSUME SealInv, NEW p \in Process, NEW code, Exit(p, code),
         UNCHANGED <<profiles, seals, sealings>>
  PROVE  SealInv'
BY ExitStep, StepInside

\* init-sealer writes the profile it made: created, then filled.
LEMMA ProfileHolds ==
  ASSUME SealInv, NEW p \in Process, CreateProfile(p) \/ WriteProfile(p)
  PROVE  SealInv'
<1>1. proc[p].pc \in {"create_profile", "write_profile"}
  BY DEF CreateProfile, WriteProfile, At
<1>2. proc[p].signer \in Signer /\ proc[p].job \in Job
  BY <1>1 DEF SealInv, Holds
<1>3. UNCHANGED <<seals, sealings>>
  BY DEF CreateProfile, WriteProfile, history
<1>4. /\ DOMAIN profiles' = Profiles
      /\ \A f \in Profiles : profiles'[f] \in Signer \cup {Absent, Garbled}
  BY <1>2 DEF CreateProfile, WriteProfile, Outcomes, SealInv, Shapes
<1>5. /\ DOMAIN proc' = Process
      /\ \A q \in Process \ {p} : proc'[q] = proc[q]
      /\ DOMAIN proc'[p] = Fields /\ Holds(proc'[p], sealings)
  <2>1. CASE CreateProfile(p)
    <3>1. proc' = [proc EXCEPT ![p].pc = "write_profile"]
      BY <2>1 DEF CreateProfile
    <3>2. /\ DOMAIN proc' = Process
          /\ \A q \in Process \ {p} : proc'[q] = proc[q]
          /\ DOMAIN proc'[p] = Fields
          /\ proc'[p].pc = "write_profile"
          /\ proc'[p].job = proc[p].job /\ proc'[p].signer = proc[p].signer
      BY <3>1 DEF SealInv, Shapes, Fields
    <3> QED  BY <1>2, <3>2 DEF Holds
  <2>2. CASE WriteProfile(p)
    BY <2>2, ExitStep DEF WriteProfile
  <2> QED  BY <2>1, <2>2
<1> QED  BY <1>3, <1>4, <1>5, StepOfOne DEF SealInv, Shapes

\* The profile read is a signer, or the command ends.
LEMMA ReadProfileHolds ==
  ASSUME SealInv, NEW p \in Process, ReadProfile(p)
  PROVE  SealInv'
<1> DEFINE found == profiles[proc[p].job.profile]
<1>1. /\ proc[p].pc = "read_profile" /\ proc[p].job \in Job
      /\ UNCHANGED <<profiles, seals, sealings>>
  BY DEF ReadProfile, At, SealInv, Holds, disk, history
<1>2. CASE ~Readable(found)
  BY <1>1, <1>2, ExitHolds DEF ReadProfile
<1>3. CASE Readable(found)
  <2>1. PICK to \in {"read_file", "read_evidence"} :
          /\ proc' = [proc EXCEPT ![p].signer = found, ![p].pc = to]
          /\ to = "read_file" => proc[p].job.cmd = "seal-file"
    BY <1>3 DEF ReadProfile
  <2>2. /\ DOMAIN proc' = Process
        /\ \A q \in Process \ {p} : proc'[q] = proc[q]
        /\ DOMAIN proc'[p] = Fields
        /\ proc'[p].pc = to /\ proc'[p].signer = found
        /\ proc'[p].job = proc[p].job
    BY <2>1 DEF SealInv, Shapes, Fields
  <2>3. found \in Signer
    <3>1. proc[p].job.profile \in Profiles
      BY <1>1 DEF SealInv, Holds
    <3> QED  BY <1>3, <3>1 DEF SealInv, Readable
  <2>4. Holds(proc'[p], sealings)
    BY <1>1, <2>1, <2>2, <2>3 DEF Holds
  <2> QED  BY <1>1, <2>2, <2>4, StepInside
<1> QED  BY <1>2, <1>3

\* What sealing bytes adds, and to what it moves.
LEMMA SealBytesHolds ==
  ASSUME SealInv, NEW p \in Process, NEW path, NEW data, SealBytes(p, path, data),
         proc[p].signer \in Signer, proc[p].job \in Job,
         UNCHANGED <<profiles, seals>>
  PROVE  SealInv'
<1> DEFINE s == [name |-> path, data |-> data,
                 content_type |-> proc[p].job.content_type, signer |-> proc[p].signer]
<1>1. SealOf(s) = SealFile(path, data, proc[p].job.content_type, proc[p].signer)
  BY DEF SealOf
<1>2. /\ sealings' = sealings \cup {s}
      /\ proc' = [proc EXCEPT ![p].pc = "create_seal", ![p].bundle = SealOf(s)]
  BY <1>1 DEF SealBytes
<1>3. s.signer \in Signer
  OBVIOUS
<1> HIDE DEF s
<1>4. /\ DOMAIN proc' = Process
      /\ \A q \in Process \ {p} : proc'[q] = proc[q]
      /\ DOMAIN proc'[p] = Fields
      /\ proc'[p].pc = "create_seal" /\ proc'[p].bundle = SealOf(s)
      /\ proc'[p].job = proc[p].job
  BY <1>2 DEF SealInv, Shapes, Fields
<1>5. Holds(proc'[p], sealings')
  <2>1. FromSealings(SealOf(s), sealings')
    BY <1>2, SealedFromSealings
  <2> QED  BY <1>4, <2>1 DEF Holds
<1>6. \A f \in Seals : Readable(seals'[f]) => FromSealings(seals'[f], sealings')
  BY <1>2, MoreSealings DEF SealInv
<1>7. sealings \subseteq sealings' /\ \A t \in sealings' : t.signer \in Signer
  BY <1>2, <1>3 DEF SealInv
<1> QED  BY <1>4, <1>5, <1>6, <1>7, StepOfOne DEF SealInv, Shapes

\* Reading the file seals it or goes on to its seal.
LEMMA ReadFileHolds ==
  ASSUME SealInv, NEW p \in Process, ReadFile(p)
  PROVE  SealInv'
<1> DEFINE data == files[proc[p].job.file]
<1>1. /\ proc[p].pc = "read_file" /\ proc[p].job \in Job
      /\ proc[p].job.cmd \in {"seal-file", "verify-file"}
      /\ proc[p].job.cmd = "seal-file" => proc[p].signer \in Signer
      /\ UNCHANGED <<profiles, seals>>
  BY DEF ReadFile, At, SealInv, Holds, disk
<1>2. CASE data = Absent
  BY <1>1, <1>2, ExitHolds DEF ReadFile
<1>3. CASE data # Absent /\ proc[p].job.cmd = "seal-file"
  BY <1>1, <1>3, SealBytesHolds DEF ReadFile
<1>4. CASE data # Absent /\ proc[p].job.cmd # "seal-file"
  <2>1. /\ proc' = [proc EXCEPT ![p].pc = "read_seal", ![p].data = data]
        /\ UNCHANGED sealings
    BY <1>4 DEF ReadFile
  <2>2. /\ DOMAIN proc' = Process
        /\ \A q \in Process \ {p} : proc'[q] = proc[q]
        /\ DOMAIN proc'[p] = Fields
        /\ proc'[p].pc = "read_seal" /\ proc'[p].job = proc[p].job
    BY <2>1 DEF SealInv, Shapes, Fields
  <2>3. Holds(proc'[p], sealings)
    BY <1>1, <1>4, <2>2 DEF Holds
  <2> QED  BY <1>1, <2>1, <2>2, <2>3, StepInside
<1> QED  BY <1>2, <1>3, <1>4

\* Reading the evidence to attest seals it.
LEMMA ReadEvidenceHolds ==
  ASSUME SealInv, NEW p \in Process, ReadEvidence(p)
  PROVE  SealInv'
<1> DEFINE data == files[proc[p].job.evidence]
<1>1. /\ proc[p].pc = "read_evidence" /\ proc[p].job \in Job
      /\ proc[p].signer \in Signer
      /\ UNCHANGED <<profiles, seals>>
  BY DEF ReadEvidence, At, SealInv, Holds, disk
<1>2. CASE data = Absent
  BY <1>1, <1>2, ExitHolds DEF ReadEvidence
<1>3. CASE data # Absent
  BY <1>1, <1>3, SealBytesHolds DEF ReadEvidence
<1> QED  BY <1>2, <1>3

\* The steps of writing a seal.
LEMMA WritingSealHolds ==
  ASSUME SealInv, NEW p \in Process, CreateSeal(p) \/ WriteSeal(p)
  PROVE  SealInv'
<1>1. /\ proc[p].pc \in {"create_seal", "write_seal"} /\ proc[p].job \in Job
      /\ FromSealings(proc[p].bundle, sealings)
      /\ UNCHANGED <<profiles, sealings>>
  BY DEF CreateSeal, WriteSeal, At, SealInv, Holds, history
<1>2. /\ DOMAIN seals' = Seals
      /\ \A f \in Seals : Readable(seals'[f]) => FromSealings(seals'[f], sealings)
  BY <1>1 DEF CreateSeal, WriteSeal, Outcomes, SealInv, Shapes, Readable
<1>3. /\ DOMAIN proc' = Process
      /\ \A q \in Process \ {p} : proc'[q] = proc[q]
      /\ DOMAIN proc'[p] = Fields /\ Holds(proc'[p], sealings)
  <2>1. CASE WriteSeal(p) /\ proc[p].job.registry_out = Absent
    BY <2>1, ExitStep DEF WriteSeal, Done
  <2>2. CASE ~(WriteSeal(p) /\ proc[p].job.registry_out = Absent)
    <3>1. PICK to \in {"write_seal", "create_registry"} :
            proc' = [proc EXCEPT ![p].pc = to]
      BY <2>2 DEF CreateSeal, WriteSeal
    <3>2. /\ DOMAIN proc' = Process
          /\ \A q \in Process \ {p} : proc'[q] = proc[q]
          /\ DOMAIN proc'[p] = Fields
          /\ proc'[p].pc = to /\ proc'[p].job = proc[p].job
          /\ proc'[p].bundle = proc[p].bundle
      BY <3>1 DEF SealInv, Shapes, Fields
    <3> QED  BY <1>1, <3>2 DEF Holds
  <2> QED  BY <2>1, <2>2
<1> QED  BY <1>1, <1>2, <1>3, StepOfOne DEF SealInv, Shapes

\* The steps of writing a registry, and evidence, to the next or to the end.
LEMMA WritingHolds ==
  ASSUME SealInv, NEW p \in Process,
         CreateRegistry(p) \/ WriteRegistry(p) \/ CreateEvidence(p) \/ WriteEvidence(p)
  PROVE  SealInv'
<1>1. /\ proc[p].pc # "idle" /\ proc[p].job \in Job
      /\ UNCHANGED <<profiles, seals, sealings>>
  BY DEF CreateRegistry, WriteRegistry, CreateEvidence, WriteEvidence, At, SealInv,
         Holds, history
<1>2. CASE WriteRegistry(p) \/ (WriteEvidence(p) /\ proc[p].job.profile = Absent)
  BY <1>1, <1>2, ExitHolds DEF WriteRegistry, WriteEvidence, Done
<1>3. CASE CreateRegistry(p) \/ CreateEvidence(p)
             \/ (WriteEvidence(p) /\ proc[p].job.profile # Absent)
  <2>1. PICK to \in {"write_registry", "write_evidence", "read_profile"} :
          /\ proc' = [proc EXCEPT ![p].pc = to]
          /\ to = "read_profile" => proc[p].job.profile # Absent
    BY <1>3 DEF CreateRegistry, CreateEvidence, WriteEvidence
  <2>2. /\ DOMAIN proc' = Process
        /\ \A q \in Process \ {p} : proc'[q] = proc[q]
        /\ DOMAIN proc'[p] = Fields
        /\ proc'[p].pc = to /\ proc'[p].job = proc[p].job
    BY <2>1 DEF SealInv, Shapes, Fields
  <2>3. to = "read_profile" => proc[p].job.profile \in Profiles
    BY <1>1, <2>1, JobAssumption
  <2>4. Holds(proc'[p], sealings)
    BY <1>1, <2>2, <2>3 DEF Holds
  <2> QED  BY <1>1, <2>2, <2>4, StepInside
<1> QED  BY <1>2, <1>3

\* verify-file keeps the seal as it read it.
LEMMA ReadSealHolds ==
  ASSUME SealInv, NEW p \in Process, ReadSeal(p)
  PROVE  SealInv'
<1> DEFINE found == seals[proc[p].job.seal]
<1>1. /\ proc[p].pc = "read_seal" /\ proc[p].job \in Job
      /\ proc[p].job.cmd = "verify-file"
      /\ UNCHANGED <<profiles, seals, sealings>>
  BY DEF ReadSeal, At, SealInv, Holds, disk, history
<1>2. CASE ~Readable(found)
  BY <1>1, <1>2, ExitHolds DEF ReadSeal
<1>3. CASE Readable(found)
  <2>1. proc' = [proc EXCEPT ![p].pc = "read_registry", ![p].bundle = found]
    BY <1>3 DEF ReadSeal
  <2>2. /\ DOMAIN proc' = Process
        /\ \A q \in Process \ {p} : proc'[q] = proc[q]
        /\ DOMAIN proc'[p] = Fields
        /\ proc'[p].pc = "read_registry" /\ proc'[p].bundle = found
        /\ proc'[p].job = proc[p].job
    BY <2>1 DEF SealInv, Shapes, Fields
  <2>3. FromSealings(found, sealings)
    <3>1. proc[p].job.seal \in Seals
      BY <1>1, JobAssumption
    <3> QED  BY <1>3, <3>1 DEF SealInv
  <2>4. Holds(proc'[p], sealings)
    BY <1>1, <2>2, <2>3 DEF Holds
  <2> QED  BY <1>1, <2>2, <2>4, StepInside
<1> QED  BY <1>2, <1>3

\* The verification itself changes no seal.
LEMMA ReadRegistryHolds ==
  ASSUME SealInv, NEW p \in Process, ReadRegistry(p)
  PROVE  SealInv'
<1>1. /\ proc[p].pc = "read_registry" /\ proc[p].job \in Job
      /\ UNCHANGED <<profiles, seals, sealings>>
  BY DEF ReadRegistry, At, SealInv, Holds, disk
<1>2. (\E code : Exit(p, code))
        \/ \E result : proc' = [proc EXCEPT ![p].pc = "create_evidence",
                                            ![p].result = result]
  BY DEF ReadRegistry
<1>3. CASE \E code : Exit(p, code)
  BY <1>1, <1>3, ExitHolds
<1>4. CASE \E result : proc' = [proc EXCEPT ![p].pc = "create_evidence",
                                            ![p].result = result]
  <2>1. /\ DOMAIN proc' = Process
        /\ \A q \in Process \ {p} : proc'[q] = proc[q]
        /\ DOMAIN proc'[p] = Fields
        /\ proc'[p].pc = "create_evidence" /\ proc'[p].job = proc[p].job
    BY <1>4 DEF SealInv, Shapes, Fields
  <2>2. Holds(proc'[p], sealings)
    BY <1>1, <2>1 DEF Holds
  <2> QED  BY <1>1, <2>1, <2>2, StepInside
<1> QED  BY <1>2, <1>3, <1>4

\* Where a command is killed or cannot write.
LEMMA EndingHolds ==
  ASSUME SealInv, NEW p \in Process, OpenFails(p) \/ WriteFails(p) \/ Crash(p)
  PROVE  SealInv'
<1>1. UNCHANGED <<profiles, seals, sealings>>
  BY DEF OpenFails, WriteFails, Crash, disk, history
<1>2. CASE OpenFails(p) \/ WriteFails(p)
  BY <1>1, <1>2, ExitHolds DEF OpenFails, WriteFails
<1>3. CASE Crash(p)
  <2>1. /\ DOMAIN proc' = Process
        /\ \A q \in Process \ {p} : proc'[q] = proc[q]
        /\ proc'[p] = Idle(Absent, 0)
    BY <1>3 DEF Crash, SealInv, Shapes
  <2> QED  BY <1>1, <2>1, IdleHolds, StepInside
<1> QED  BY <1>2, <1>3

\* What others do to the files.
LEMMA EditsHold ==
  ASSUME SealInv, EditFile \/ EditRegistry \/ AlterSeal \/ AlterEvidence
  PROVE  SealInv'
<1>1. UNCHANGED <<proc, profiles, sealings>>
  BY DEF EditFile, EditRegistry, AlterSeal, AlterEvidence, history
<1>2. /\ DOMAIN seals' = Seals
      /\ \A f \in Seals : Readable(seals'[f]) => FromSealings(seals'[f], sealings)
  <2>1. CASE AlterSeal
    <3>1. PICK f \in Seals : /\ Readable(seals[f])
                             /\ \E b \in AlteredBundles(seals[f]) :
                                  seals' = [seals EXCEPT ![f] = b]
      BY <2>1 DEF AlterSeal
    <3>2. PICK b \in AlteredBundles(seals[f]) : seals' = [seals EXCEPT ![f] = b]
      BY <3>1
    <3>3. FromSealings(b, sealings)
      BY <3>1, AlteredFromSealings DEF SealInv
    <3> QED  BY <3>2, <3>3 DEF SealInv, Shapes
  <2>2. CASE ~AlterSeal
    <3>1. UNCHANGED seals
      BY <2>2 DEF EditFile, EditRegistry, AlterEvidence
    <3> QED  BY <3>1 DEF SealInv, Shapes
  <2> QED  BY <2>1, <2>2
<1> QED  BY <1>1, <1>2 DEF SealInv, Shapes, Readable

\* Every step keeps the invariant.
LEMMA SealStep == SealInv /\ [Next]_vars => SealInv'
<1> SUFFICES ASSUME SealInv, [Next]_vars
             PROVE  SealInv'
  OBVIOUS
<1>1. ASSUME NEW p \in Process, Start(p) \/ Step(p) \/ Crash(p)
      PROVE  SealInv'
  BY <1>1, StartHolds, ProfileHolds, ReadProfileHolds, ReadFileHolds,
     ReadEvidenceHolds, WritingSealHolds, WritingHolds, ReadSealHolds,
     ReadRegistryHolds, EndingHolds DEF Step
<1>2. CASE UNCHANGED vars
  BY <1>2 DEF vars, disk, history, SealInv, Shapes, Readable
<1> QED  BY <1>1, <1>2, EditsHold DEF Next

\* Every signature found in a seal, or in a bundle a command has read or made,
\* is garbled or made by a sealing, whatever is written, altered, lost in a
\* crash or read between two of a command's steps.
THEOREM SealsAreSealings == Spec => []SealInv
BY SealInit, SealStep, PTL DEF Spec

-----------------------------------------------------------------------------

\* At first nothing is sealed, granted or accepted.
LEMMA PromiseInit == Init => Promise!Init
BY DEF Init, Promise!Init, Readable

\* What is read as a registry and accepts grants the identity.
LEMMA AcceptedIsGranted ==
  ASSUME OqsBackend = TRUE, GarbledIsNoSignature,
         NEW found, NEW b, NEW data, NEW S, FromSealings(b, S),
         Reads(found) # None, VerifySealed(b, data, Reads(found)[1]).overall_accept
  PROVE  /\ Readable(found) /\ Grants(found, b.frame.te)
         /\ \E s \in S : b.frame.te = BuildTE(s.signer) /\ s.data = data
<1>1. Readable(found) /\ NoDeviceTwice(found.entries) /\ Reads(found)[1] = found
  BY DEF Reads, FromJson, Some, None
<1> DEFINE te == b.frame.te
           facts == [device_id16 |-> te.device_id16,
                     device_id32 |-> DeviceId32(te.device_id16),
                     epoch |-> te.epoch, te_hash |-> Shake256(te)]
<1> HIDE DEF te
<1>2. /\ Reason(facts, found) = "registry_entry_valid"
      /\ \E s \in S : te = BuildTE(s.signer) /\ s.data = data
  BY <1>1, AcceptedWasSealed DEF te
<1>3. PICK i \in DOMAIN found.entries :
        LET e == found.entries[i]
        IN  /\ e.device_id32 = facts.device_id32
            /\ e.device_id16 = facts.device_id16
            /\ ~e.revoked /\ ~e.frozen /\ ~e.recovery_hold
            /\ facts.epoch = e.current_epoch
            /\ facts.te_hash \in e.authorized_te_hashes
  BY <1>2, GrantedReason
<1>4. Grants(found, te)
  BY <1>1, <1>3 DEF Grants
<1> QED  BY <1>1, <1>2, <1>4 DEF te

\* The accepting step of verify-file is Accept of the promise.
LEMMA ReadRegistryKeeps ==
  ASSUME OqsBackend = TRUE, GarbledIsNoSignature, SealInv,
         NEW p \in Process, ReadRegistry(p)
  PROVE  Promise!Accept \/ UNCHANGED Promise!vars
<1> DEFINE job   == proc[p].job
           found == registries[job.registry]
           b     == proc[p].bundle
           data  == proc[p].data
<1>1. /\ proc[p].pc = "read_registry" /\ job.registry \in Registries
      /\ FromSealings(b, sealings)
      /\ UNCHANGED <<registries, sealings>>
  <2>1. proc[p].pc = "read_registry" /\ UNCHANGED <<registries, sealings>>
    BY DEF ReadRegistry, At, disk
  <2>2. job \in Job /\ job.cmd = "verify-file" /\ FromSealings(b, sealings)
    BY <2>1 DEF SealInv, Holds
  <2> QED  BY <2>1, <2>2, JobAssumption
<1>2. CASE UNCHANGED accepted
  BY <1>1, <1>2 DEF Promise!vars
<1>3. CASE ~UNCHANGED accepted
  <2>1. /\ Reads(found) # None
        /\ VerifySealed(b, data, Reads(found)[1]).overall_accept
        /\ accepted' = accepted \cup {<< <<b.frame.te, data>>, job.registry>>}
    BY <1>3 DEF ReadRegistry
  <2>2. /\ Readable(found) /\ Grants(found, b.frame.te)
        /\ \E s \in sealings : b.frame.te = BuildTE(s.signer) /\ s.data = data
    <3> HIDE DEF found, b, data
    <3>1. FromSealings(b, sealings)
      BY <1>1
    <3>2. Reads(found) # None
      BY <2>1
    <3>3. VerifySealed(b, data, Reads(found)[1]).overall_accept
      BY <2>1
    <3> QED  BY <3>1, <3>2, <3>3, AcceptedIsGranted
  <2>3. PICK s \in sealings : b.frame.te = BuildTE(s.signer) /\ s.data = data
    BY <2>2
  <2>4. BuildTE(s.signer) \in TE(Key, Epoch, DeviceId16)
    BY DEF SealInv, Signer, TE, BuildTE
  <2> DEFINE pair == <<BuildTE(s.signer), s.data>>
             sealed == {<<BuildTE(t.signer), t.data>> : t \in sealings}
             granted == [f \in Registries |->
                           {te \in TE(Key, Epoch, DeviceId16) :
                              Readable(registries[f]) /\ Grants(registries[f], te)}]
  <2>5. pair \in sealed /\ pair[1] \in granted[job.registry]
    BY <1>1, <2>2, <2>3, <2>4
  <2>6. accepted' = accepted \cup {<<pair, job.registry>>}
    BY <2>1, <2>3
  <2>7. UNCHANGED <<sealed, granted>>
    BY <1>1 DEF Readable
  <2> QED  BY <1>1, <2>5, <2>6, <2>7 DEF Promise!Accept
<1> QED  BY <1>2, <1>3

\* Every step is one of the promise's, or a stutter of it.
LEMMA PromiseStep ==
  ASSUME OqsBackend = TRUE, GarbledIsNoSignature, SealInv, [Next]_vars
  PROVE  [Promise!Next]_(Promise!vars)
<1>1. CASE UNCHANGED <<registries, sealings, accepted>>
  BY <1>1 DEF Promise!vars, Readable
<1>2. CASE UNCHANGED <<registries, accepted>> /\ sealings \subseteq sealings'
  BY <1>2 DEF Promise!Next, Promise!Seal, Readable
<1>3. CASE UNCHANGED <<sealings, accepted>>
  BY <1>3 DEF Promise!Next, Promise!Regrant
<1>4. ASSUME NEW p \in Process, Start(p) \/ Step(p) \/ Crash(p)
      PROVE  [Promise!Next]_(Promise!vars)
  <2>1. CASE ReadRegistry(p)
    BY <2>1, ReadRegistryKeeps DEF Promise!Next
  <2>2. CASE ReadFile(p) \/ ReadEvidence(p)
    <3>1. UNCHANGED <<registries, accepted>> /\ sealings \subseteq sealings'
      BY <2>2 DEF ReadFile, ReadEvidence, SealBytes, disk
    <3> QED  BY <1>2, <3>1
  <2>3. CASE CreateRegistry(p) \/ WriteRegistry(p)
    <3>1. UNCHANGED <<sealings, accepted>>
      BY <2>3 DEF CreateRegistry, WriteRegistry, history
    <3> QED  BY <1>3, <3>1
  <2>4. CASE \/ Start(p) \/ Crash(p) \/ OpenFails(p) \/ WriteFails(p)
             \/ CreateProfile(p) \/ WriteProfile(p) \/ ReadProfile(p)
             \/ CreateSeal(p) \/ WriteSeal(p) \/ ReadSeal(p)
             \/ CreateEvidence(p) \/ WriteEvidence(p)
    <3>1. UNCHANGED <<registries, sealings, accepted>>
      BY <2>4 DEF Start, Crash, OpenFails, WriteFails, CreateProfile, WriteProfile,
         ReadProfile, CreateSeal, WriteSeal, ReadSeal, CreateEvidence, WriteEvidence,
         disk, history
    <3> QED  BY <1>1, <3>1
  <2> QED  BY <1>4, <2>1, <2>2, <2>3, <2>4 DEF Step
<1>5. CASE EditFile \/ EditRegistry \/ AlterSeal \/ AlterEvidence
  <2>1. UNCHANGED <<sealings, accepted>>
    BY <1>5 DEF EditFile, EditRegistry, AlterSeal, AlterEvidence, history
  <2> QED  BY <1>3, <2>1
<1>6. CASE UNCHANGED vars
  BY <1>1, <1>6 DEF vars, disk, history
<1> QED  BY <1>4, <1>5, <1>6 DEF Next

\* The commands implement the promise, in a build with liboqs and as long as
\* garbled bytes are no signature.
THEOREM PromiseKept ==
  ASSUME OqsBackend = TRUE, GarbledIsNoSignature
  PROVE  Spec => KeepsPromise
<1>1. Init => Promise!Init
  BY PromiseInit
<1>2. SealInv /\ [Next]_vars => [Promise!Next]_(Promise!vars)
  BY PromiseStep
<1> QED  BY <1>1, <1>2, SealsAreSealings, PTL DEF Spec, KeepsPromise, Promise!Spec

-----------------------------------------------------------------------------
(* What is accepted, and what the report names.                              *)

\* Bytes that parse neither as a frame nor as a hash.
GarbledIsNoFrame == \A mp, te, sig : Garbled # [mu_pre |-> mp, te |-> te, sig |-> sig]
GarbledIsNoHash == \A x : Garbled # Sha3(x)

\* A registry that parses has its entries in a list.
IsRegistry(reg) ==
  \E stamp, S : \E es \in Seq(S) : reg = [stamp |-> stamp, entries |-> es]

RegistriesInv ==
  /\ DOMAIN registries = Registries
  /\ \A f \in Registries : Readable(registries[f]) => IsRegistry(registries[f])

\* A list may be read as one over more values.
LEMMA SeqOver ==
  ASSUME NEW S, NEW T, S \subseteq T, NEW s \in Seq(S)
  PROVE  s \in Seq(T)
<1>1. Len(s) \in Nat /\ s \in [1..Len(s) -> S]
  OBVIOUS
<1>2. s \in [1..Len(s) -> T]
  BY <1>1
<1> QED  BY <1>1, <1>2

\* An edit leaves a registry a registry.
LEMMA EditedIsRegistry ==
  ASSUME NEW reg, IsRegistry(reg), NEW edited \in EditedRegistries(reg)
  PROVE  IsRegistry(edited)
<1>1. PICK stamp, S : \E es \in Seq(S) : reg = [stamp |-> stamp, entries |-> es]
  BY DEF IsRegistry
<1>2. PICK es \in Seq(S) : reg = [stamp |-> stamp, entries |-> es]
  BY <1>1
<1>3. PICK i \in DOMAIN reg.entries :
        \E e \in EditedEntries(reg.entries[i]) : edited = [reg EXCEPT !.entries[i] = e]
  BY DEF EditedRegistries
<1>4. PICK e : edited = [reg EXCEPT !.entries[i] = e]
  BY <1>3
<1>5. edited = [stamp |-> stamp, entries |-> [es EXCEPT ![i] = e]]
  BY <1>2, <1>4
<1>6. [es EXCEPT ![i] = e] \in Seq(S \cup {e})
  <2>1. Len(es) \in Nat /\ es \in [1..Len(es) -> S]
    OBVIOUS
  <2>2. [es EXCEPT ![i] = e] \in [1..Len(es) -> S \cup {e}]
    BY <2>1
  <2> QED  BY <2>1, <2>2
<1> QED  BY <1>5, <1>6 DEF IsRegistry

\* So does adding the entries of another one.
LEMMA MergedIsRegistry ==
  ASSUME RegistriesInv, NEW reg, IsRegistry(reg), NEW merged \in Merged(reg)
  PROVE  IsRegistry(merged)
<1>1. PICK other : /\ IsRegistry(other)
                   /\ merged = [reg EXCEPT !.entries = @ \o other.entries]
  <2>1. PICK g \in Registries : /\ Readable(registries[g])
          /\ \E other \in {registries[g]} \cup EditedRegistries(registries[g]) :
               merged = [reg EXCEPT !.entries = @ \o other.entries]
    BY DEF Merged
  <2>2. IsRegistry(registries[g])
    BY <2>1 DEF RegistriesInv
  <2> QED  BY <2>1, <2>2, EditedIsRegistry
<1>2. PICK stamp, S : \E es \in Seq(S) : reg = [stamp |-> stamp, entries |-> es]
  BY DEF IsRegistry
<1>3. PICK es \in Seq(S) : reg = [stamp |-> stamp, entries |-> es]
  BY <1>2
<1>4. PICK stamp2, T : \E fs \in Seq(T) : other = [stamp |-> stamp2, entries |-> fs]
  BY <1>1 DEF IsRegistry
<1>5. PICK fs \in Seq(T) : other = [stamp |-> stamp2, entries |-> fs]
  BY <1>4
<1>6. es \in Seq(S \cup T) /\ fs \in Seq(S \cup T)
  BY SeqOver
<1>7. merged = [stamp |-> stamp, entries |-> es \o fs]
  BY <1>1, <1>3, <1>5
<1>8. es \o fs \in Seq(S \cup T)
  BY <1>6, ConcatProperties
<1> QED  BY <1>7, <1>8 DEF IsRegistry

LEMMA RegistriesInit == Init => RegistriesInv
BY DEF Init, RegistriesInv, Readable

LEMMA RegistriesStep == RegistriesInv /\ [Next]_vars => RegistriesInv'
<1> SUFFICES ASSUME RegistriesInv, [Next]_vars
             PROVE  RegistriesInv'
  OBVIOUS
<1>1. CASE UNCHANGED registries
  BY <1>1 DEF RegistriesInv, Readable
<1>2. ASSUME NEW p \in Process, Start(p) \/ Step(p) \/ Crash(p)
      PROVE  RegistriesInv'
  <2>1. CASE CreateRegistry(p)
    BY <2>1 DEF CreateRegistry, RegistriesInv, Readable
  <2>2. CASE WriteRegistry(p)
    <3> DEFINE mine == RegistryFor(proc[p].bundle)
    <3>1. IsRegistry(mine)
      <4>1. PICK e : mine = [stamp |-> 1, entries |-> <<e>>]
        BY DEF RegistryFor
      <4>2. <<e>> \in Seq({e})
        OBVIOUS
      <4> HIDE DEF mine
      <4> QED  BY <4>1, <4>2 DEF IsRegistry
    <3> HIDE DEF mine
    <3>2. PICK out \in {mine, Garbled} :
            registries' = [registries EXCEPT ![proc[p].job.registry_out] = out]
      BY <2>2 DEF WriteRegistry, Outcomes, mine
    <3> QED  BY <3>1, <3>2 DEF RegistriesInv, Readable
  <2>3. CASE ~CreateRegistry(p) /\ ~WriteRegistry(p)
    <3>1. UNCHANGED registries
      BY <1>2, <2>3 DEF Step, Start, Crash, OpenFails, WriteFails, CreateProfile,
         WriteProfile, ReadProfile, ReadFile, ReadEvidence, CreateSeal, WriteSeal,
         ReadSeal, ReadRegistry, CreateEvidence, WriteEvidence, disk
    <3> QED  BY <1>1, <3>1
  <2> QED  BY <2>1, <2>2, <2>3
<1>3. CASE EditRegistry
  <2>1. PICK f \in Registries :
          /\ Readable(registries[f])
          /\ \E reg \in EditedRegistries(registries[f]) \cup Merged(registries[f]) :
               registries' = [registries EXCEPT ![f] = reg]
    BY <1>3 DEF EditRegistry
  <2>2. PICK reg \in EditedRegistries(registries[f]) \cup Merged(registries[f]) :
          registries' = [registries EXCEPT ![f] = reg]
    BY <2>1
  <2>3. IsRegistry(reg)
    BY <2>1, EditedIsRegistry, MergedIsRegistry DEF RegistriesInv
  <2> QED  BY <2>2, <2>3 DEF RegistriesInv
<1>4. CASE EditFile \/ AlterSeal \/ AlterEvidence
  BY <1>1, <1>4 DEF EditFile, AlterSeal, AlterEvidence
<1>5. CASE UNCHANGED vars
  BY <1>1, <1>5 DEF vars, disk
<1> QED  BY <1>2, <1>3, <1>4, <1>5 DEF Next

\* A frame is authentic exactly if it is, field by field, one a sealing made.
LEMMA AuthenticIsSealed ==
  ASSUME OqsBackend = TRUE, EngineUp = TRUE, GarbledIsNoSignature, GarbledIsNoFrame,
         NEW S, NEW b, FromSealings(b, S)
  PROVE  VerifyFrameV2(b.frame) = "Ok" <=> \E s \in S : b.frame = SealOf(s).frame
<1>1. ASSUME VerifyFrameV2(b.frame) = "Ok"
      PROVE  \E s \in S : b.frame = SealOf(s).frame
  <2>1. b.frame # Garbled /\ VerifyVnext(b.frame) = "Ok"
    BY <1>1 DEF VerifyFrameV2
  <2>2. PICK s \in S : b.frame.mu_pre = SealOf(s).frame.mu_pre /\ b.frame.te = BuildTE(s.signer)
    BY <1>1, AuthenticFrame
  <2>3. b.frame.sig = Sign(b.frame.te.key, Mu(b.frame.mu_pre))
    BY <2>1, FrameOk
  <2>4. PICK mp, te, sig : b.frame = [mu_pre |-> mp, te |-> te, sig |-> sig]
    BY <2>1 DEF FromSealings, FrameFrom
  <2> DEFINE frame == SealOf(s).frame
  <2>5. /\ frame = [mu_pre |-> frame.mu_pre, te |-> BuildTE(s.signer),
                    sig |-> Sign(s.signer.key, Mu(frame.mu_pre))]
        /\ BuildTE(s.signer).key = s.signer.key
    BY DEF SealOf, SealFile, PackFrameV2, BuildTE
  <2> HIDE DEF frame
  <2>6. b.frame = frame
    BY <2>2, <2>3, <2>4, <2>5 DEF frame
  <2> QED  BY <2>6 DEF frame
<1>2. ASSUME NEW s \in S, b.frame = SealOf(s).frame
      PROVE  VerifyFrameV2(b.frame) = "Ok"
  <2> DEFINE te == BuildTE(s.signer)
             mp == BuildMuPre(te, ManifestHash(SealOf(s).manifest))
             f  == [mu_pre |-> mp, te |-> te, sig |-> Sign(s.signer.key, Mu(mp))]
  <2>1. SealOf(s).frame = f
    BY DEF SealOf, SealFile, PackFrameV2
  <2>2. f # Garbled
    BY DEF GarbledIsNoFrame
  <2>3. te.key = s.signer.key
    BY DEF BuildTE
  <2>4. /\ ParseMuPreHeader(mp) /\ CheckPkHashBinding(mp, te)
        /\ CheckEpochCorrelation(mp, te) /\ CheckDeviceIdDuality(mp, te)
    BY DEF ParseMuPreHeader, CheckPkHashBinding, CheckEpochCorrelation,
           CheckDeviceIdDuality, BuildMuPre
  <2>5. f.mu_pre = mp /\ f.te = te /\ f.sig = Sign(te.key, Mu(mp))
    BY <2>3
  <2> HIDE DEF f, mp, te
  <2>6. VerifyVnext(f) = "Ok"
    BY <2>4, <2>5, FrameAccepted
  <2> QED  BY <1>2, <2>1, <2>2, <2>6 DEF VerifyFrameV2
<1> QED  BY <1>1, <1>2

\* Unchanged names the first of its two checks that fails.
LEMMA UnchangedTells ==
  ASSUME NEW b, NEW data
  PROVE  LET A == ManifestHash(b.manifest) = b.frame.mu_pre.ctx_hash
             B == DeclaredHash(b.manifest) = Some(Sha3(data))
         IN  /\ Unchanged(b, data) = "manifest_hash_mismatch" <=> ~A
             /\ Unchanged(b, data) = "yes" <=> A /\ B
<1> DEFINE A == ManifestHash(b.manifest) = b.frame.mu_pre.ctx_hash
           B == DeclaredHash(b.manifest) = Some(Sha3(data))
           checks == << <<"manifest_hash_mismatch", A>>, <<"file_hash_mismatch", B>> >>
           failing == {k \in DOMAIN checks : ~checks[k][2]}
<1>1. Unchanged(b, data) = FirstFailing(checks, "yes")
  BY DEF Unchanged
<1> HIDE DEF A, B
<1>2. /\ DOMAIN checks = {1, 2} /\ checks[1][2] = A /\ checks[2][2] = B
      /\ checks[1][1] = "manifest_hash_mismatch" /\ checks[2][1] = "file_hash_mismatch"
  OBVIOUS
<1> HIDE DEF checks
<1>3. FirstFailing(checks, "yes") = IF failing = {} THEN "yes" ELSE checks[Least(failing)][1]
  BY DEF FirstFailing
<1>4. CASE A /\ B
  <2>1. failing = {}
    BY <1>2, <1>4
  <2> QED  BY <1>1, <1>3, <1>4, <2>1 DEF A, B
<1>5. CASE A /\ ~B
  <2>1. failing = {2}
    BY <1>2, <1>5
  <2>2. Least({2}) = 2
    BY DEF Least
  <2> QED  BY <1>1, <1>2, <1>3, <1>5, <2>1, <2>2 DEF A, B
<1>6. CASE ~A
  <2>1. failing = {1} \/ failing = {1, 2}
    BY <1>2, <1>6
  <2>2. Least({1}) = 1 /\ Least({1, 2}) = 1
    BY DEF Least
  <2>3. FirstFailing(checks, "yes") = "manifest_hash_mismatch"
    <3> HIDE DEF failing
    <3>1. failing # {} /\ Least(failing) = 1
      BY <2>1, <2>2
    <3> QED  BY <1>2, <1>3, <3>1
  <2> QED  BY <1>1, <1>6, <2>3 DEF A, B
<1> QED  BY <1>4, <1>5, <1>6 DEF A, B

\* Beside a frame that a sealing made, the two checks say whether the manifest,
\* and the file, are of that sealing.
LEMMA UnchangedIsSealed ==
  ASSUME GarbledIsNoHash, NEW S, NEW b, FromSealings(b, S),
         NEW s \in S, b.frame = SealOf(s).frame
  PROVE  LET same == ManifestBytes(b.manifest) = ManifestBytes(SealOf(s).manifest)
         IN  /\ ManifestHash(b.manifest) = b.frame.mu_pre.ctx_hash <=> same
             /\ \A data : same => (DeclaredHash(b.manifest) = Some(Sha3(data)) <=> s.data = data)
<1> DEFINE m == SealOf(s).manifest
<1>1. b.frame.mu_pre.ctx_hash = ManifestHash(m)
  BY DEF SealOf, SealFile, PackFrameV2, BuildMuPre
<1>2. m.file_hash = Sha3(s.data) /\ m.digest_algorithm = DIGEST_ALGORITHM
  BY DEF SealOf, SealFile, ManifestFor
<1>3. /\ ManifestBytes(m).file_hash = m.file_hash
      /\ ManifestBytes(m).digest_algorithm = m.digest_algorithm
  BY DEF ManifestBytes, SealOf, SealFile, ManifestFor
<1>4. /\ ManifestBytes(b.manifest).file_hash = b.manifest.file_hash
      /\ ManifestBytes(b.manifest).digest_algorithm = b.manifest.digest_algorithm
  <2>1. PICK alg, hash, type, about :
          b.manifest = [digest_algorithm |-> alg, file_hash |-> hash,
                        content_type |-> type, about |-> about]
    <3>1. IsManifest(b.manifest)
      BY DEF FromSealings
    <3> QED  BY <3>1 DEF IsManifest
  <2> DEFINE n == [digest_algorithm |-> alg, file_hash |-> hash,
                   content_type |-> type, about |-> about]
  <2>2. /\ ManifestBytes(n).file_hash = n.file_hash
        /\ ManifestBytes(n).digest_algorithm = n.digest_algorithm
    BY DEF ManifestBytes
  <2> HIDE DEF n
  <2>3. b.manifest = n
    BY <2>1 DEF n
  <2> QED  BY <2>2, <2>3
<1> HIDE DEF m
<1>5. ManifestHash(b.manifest) = b.frame.mu_pre.ctx_hash
        <=> ManifestBytes(b.manifest) = ManifestBytes(m)
  BY <1>1 DEF ManifestHash, Sha3
<1>6. ASSUME ManifestBytes(b.manifest) = ManifestBytes(m), NEW data
      PROVE  DeclaredHash(b.manifest) = Some(Sha3(data)) <=> s.data = data
  <2>1. b.manifest.file_hash = Sha3(s.data) /\ b.manifest.digest_algorithm = DIGEST_ALGORITHM
    BY <1>2, <1>3, <1>4, <1>6
  <2>2. DeclaredHash(b.manifest) = Some(Sha3(s.data))
    BY <2>1 DEF DeclaredHash, GarbledIsNoHash
  <2> QED  BY <2>2 DEF Some, Sha3
<1> QED  BY <1>5, <1>6 DEF m

\* A registry without a device listed twice authorizes exactly what it grants.
LEMMA AuthorizedIsGranted ==
  ASSUME NEW S, NEW s \in S, NEW reg, IsRegistry(reg), NoDeviceTwice(reg.entries)
  PROVE  Reason(FactsOf(SealOf(s).frame), reg) = "registry_entry_valid"
           <=> Grants(reg, SealOf(s).frame.te)
<1> DEFINE te == BuildTE(s.signer)
           facts == [device_id16 |-> te.device_id16, device_id32 |-> DeviceId32(te.device_id16),
                     epoch |-> te.epoch, te_hash |-> Shake256(te)]
<1>1. SealOf(s).frame.te = te /\ FactsOf(SealOf(s).frame) = facts
  BY DEF SealOf, SealFile, PackFrameV2, BuildMuPre, FactsOf
<1>2. DOMAIN reg.entries \subseteq Nat
  BY DEF IsRegistry
<1> HIDE DEF te
<1>3. Reason(facts, reg) = "registry_entry_valid" => Grants(reg, te)
  BY GrantedReason DEF Grants
<1>4. Grants(reg, te) => Reason(facts, reg) = "registry_entry_valid"
  <2> SUFFICES ASSUME Grants(reg, te)
               PROVE  Reason(facts, reg) = "registry_entry_valid"
    OBVIOUS
  <2>1. PICK i \in DOMAIN reg.entries :
          LET e == reg.entries[i]
          IN  /\ e.device_id32 = facts.device_id32
              /\ e.device_id16 = facts.device_id16
              /\ ~e.revoked /\ ~e.frozen /\ ~e.recovery_hold
              /\ facts.epoch = e.current_epoch
              /\ facts.te_hash \in e.authorized_te_hashes
    BY DEF Grants
  <2> HIDE DEF facts
  <2> QED  BY <1>2, <2>1, ReasonGranted
<1> QED  BY <1>1, <1>3, <1>4

\* What the report has of a frame that verifies, and of one that does not.
LEMMA ReportOf ==
  ASSUME NEW b, NEW data, NEW reg
  PROVE  LET v == VerifySealed(b, data, reg)
         IN  /\ v.authentic <=> VerifyFrameV2(b.frame) = "Ok"
             /\ ~v.authentic => /\ v.unchanged = "not_evaluated"
                                /\ v.authorized = "NOT_EVALUATED"
                                /\ v.combined.r2.facts = None
             /\ v.authentic =>
                  /\ v.unchanged = Unchanged(b, data)
                  /\ v.authorized = "AUTHORIZED"
                       <=> Reason(FactsOf(b.frame), reg) = "registry_entry_valid"
             /\ v.overall_accept <=>
                  v.authentic /\ v.unchanged = "yes" /\ v.authorized = "AUTHORIZED"
<1> DEFINE v == VerifySealed(b, data, reg)
           c == VerifyAndAuthorize(b.frame, reg)
<1>1. /\ v.authentic = (c.verify_error = "Ok")
      /\ v.unchanged = IF c.verify_error = "Ok" THEN Unchanged(b, data) ELSE "not_evaluated"
      /\ v.authorized = c.r2.stage2 /\ v.combined = c
      /\ v.overall_accept =
           (v.authentic /\ v.unchanged = "yes" /\ v.authorized = "AUTHORIZED")
  BY DEF VerifySealed
<1> HIDE DEF v
<1>2. c.verify_error = VerifyFrameV2(b.frame) /\ c.r2 = Authorize(Stage1(b.frame), reg)
  BY DEF VerifyAndAuthorize
<1> HIDE DEF c
<1>3. CASE VerifyFrameV2(b.frame) = "Ok"
  <2>1. c.r2 = Evaluated(FactsOf(b.frame), reg)
    BY <1>2, <1>3 DEF Stage1, Authorize, Some, None
  <2>2. c.r2.stage2 = "AUTHORIZED"
          <=> Reason(FactsOf(b.frame), reg) = "registry_entry_valid"
    BY <2>1 DEF Evaluated
  <2> QED  BY <1>1, <1>2, <1>3, <2>2 DEF v
<1>4. CASE VerifyFrameV2(b.frame) # "Ok"
  <2>1. c.r2 = NotEvaluated(reg)
    BY <1>2, <1>4 DEF Stage1, Authorize, None
  <2>2. c.r2.stage2 = "NOT_EVALUATED" /\ c.r2.facts = None
    BY <2>1 DEF NotEvaluated
  <2> QED  BY <1>1, <1>2, <1>4, <2>2 DEF v
<1> QED  BY <1>3, <1>4

\* The report of a seal that can be read, in the terms of the history.
LEMMA ReportIsolates ==
  ASSUME OqsBackend = TRUE, EngineUp = TRUE,
         GarbledIsNoSignature, GarbledIsNoFrame, GarbledIsNoHash,
         NEW b, FromSealings(b, sealings), NEW data, NEW reg, IsRegistry(reg)
  PROVE  LET v == VerifySealed(b, data, reg)
         IN  /\ v.authentic <=> \E s \in sealings : b.frame = SealOf(s).frame
             /\ v.authentic =>
                  /\ v.unchanged = "manifest_hash_mismatch" <=> SealedAs(b) = {}
                  /\ v.unchanged = "yes" <=> \E s \in SealedAs(b) : s.data = data
                  /\ NoDeviceTwice(reg.entries) =>
                       (v.authorized = "AUTHORIZED" <=> Grants(reg, b.frame.te))
<1> DEFINE v == VerifySealed(b, data, reg)
<1>1. v.authentic <=> \E s \in sealings : b.frame = SealOf(s).frame
  BY ReportOf, AuthenticIsSealed
<1> HIDE DEF v
<1>2. ASSUME v.authentic
      PROVE  /\ v.unchanged = "manifest_hash_mismatch" <=> SealedAs(b) = {}
             /\ v.unchanged = "yes" <=> \E s \in SealedAs(b) : s.data = data
             /\ NoDeviceTwice(reg.entries) =>
                  (v.authorized = "AUTHORIZED" <=> Grants(reg, b.frame.te))
  <2> DEFINE A == ManifestHash(b.manifest) = b.frame.mu_pre.ctx_hash
             B == DeclaredHash(b.manifest) = Some(Sha3(data))
             Of(s) == ManifestBytes(b.manifest) = ManifestBytes(SealOf(s).manifest)
  <2>1. PICK s \in sealings : b.frame = SealOf(s).frame
    BY <1>1, <1>2
  <2>2. /\ v.unchanged = Unchanged(b, data)
        /\ v.authorized = "AUTHORIZED"
             <=> Reason(FactsOf(b.frame), reg) = "registry_entry_valid"
    BY <1>2, ReportOf DEF v
  <2>3. /\ Unchanged(b, data) = "manifest_hash_mismatch" <=> ~A
        /\ Unchanged(b, data) = "yes" <=> A /\ B
    BY UnchangedTells
  <2>4. \A t \in sealings : b.frame = SealOf(t).frame =>
          /\ A <=> Of(t)
          /\ Of(t) => (B <=> t.data = data)
    BY UnchangedIsSealed
  <2>5. SealedAs(b) = {t \in sealings : b.frame = SealOf(t).frame /\ Of(t)}
    BY DEF SealedAs
  <2> HIDE DEF A, B, Of
  <2>6. SealedAs(b) = {} <=> ~A
    BY <2>1, <2>4, <2>5
  <2>7. (\E t \in SealedAs(b) : t.data = data) <=> A /\ B
    BY <2>1, <2>4, <2>5
  <2>8. NoDeviceTwice(reg.entries) =>
          (v.authorized = "AUTHORIZED" <=> Grants(reg, b.frame.te))
    BY <2>1, <2>2, AuthorizedIsGranted
  <2> QED  BY <2>2, <2>3, <2>6, <2>7, <2>8
<1> QED  BY <1>1, <1>2 DEF v

\* The seals and the registries that can be read.
LEMMA ReadableAreGood ==
  ASSUME SealInv, RegistriesInv
  PROVE  /\ \A b \in Bundles : FromSealings(b, sealings)
         /\ \A reg \in Readables : IsRegistry(reg)
BY DEF SealInv, RegistriesInv, Bundles, Readables

\* The report names what is wrong with a seal, and nothing that is not, for any
\* number of seals, edits and commands (andna-seal/src/lib.rs, failure
\* isolation).
THEOREM ReportNamesTheFault ==
  ASSUME OqsBackend = TRUE, EngineUp = TRUE,
         GarbledIsNoSignature, GarbledIsNoFrame, GarbledIsNoHash
  PROVE  Spec => []FailureIsolation
<1>1. ASSUME SealInv, RegistriesInv
      PROVE  FailureIsolation
  <2> SUFFICES ASSUME NEW data \in Contents, NEW b \in Bundles, NEW r \in Readables
      PROVE  LET v == VerifySealed(b, data, r)
             IN  /\ v.authentic <=> \E s \in sealings : b.frame = SealOf(s).frame
                 /\ ~v.authentic => /\ v.unchanged = "not_evaluated"
                                    /\ v.authorized = "NOT_EVALUATED"
                                    /\ v.combined.r2.facts = None
                 /\ v.authentic =>
                      /\ v.unchanged = "manifest_hash_mismatch" <=> SealedAs(b) = {}
                      /\ v.unchanged = "yes" <=> \E s \in SealedAs(b) : s.data = data
                      /\ NoDeviceTwice(r.entries) =>
                           (v.authorized = "AUTHORIZED" <=> Grants(r, b.frame.te))
    BY DEF FailureIsolation
  <2> DEFINE v == VerifySealed(b, data, r)
  <2>1. FromSealings(b, sealings) /\ IsRegistry(r)
    BY <1>1, ReadableAreGood
  <2>2. ~v.authentic => /\ v.unchanged = "not_evaluated"
                        /\ v.authorized = "NOT_EVALUATED"
                        /\ v.combined.r2.facts = None
    BY ReportOf
  <2> QED  BY <2>1, <2>2, ReportIsolates
<1> QED  BY <1>1, SealInit, SealStep, RegistriesInit, RegistriesStep, PTL DEF Spec

\* A file is accepted exactly if its bytes, the manifest and the frame are those
\* of one sealing, and the registry grants its identity: nothing damaged or mixed
\* passes and nothing whole is refused (verify_sealed, verify_vnext, authorize,
\* from_json).
THEOREM AcceptedExactlyIfWhole ==
  ASSUME OqsBackend = TRUE, EngineUp = TRUE,
         GarbledIsNoSignature, GarbledIsNoFrame, GarbledIsNoHash
  PROVE  Spec => []AcceptsExactly
<1>1. ASSUME SealInv, RegistriesInv
      PROVE  AcceptsExactly
  <2> SUFFICES ASSUME NEW data \in Contents, NEW b \in Bundles, NEW r \in Readables
      PROVE  (FromJson(r) # None /\ VerifySealed(b, data, r).overall_accept)
               <=> /\ \E s \in SealedAs(b) : s.data = data
                   /\ Grants(r, b.frame.te)
    BY DEF AcceptsExactly
  <2> DEFINE v == VerifySealed(b, data, r)
  <2>1. FromSealings(b, sealings) /\ IsRegistry(r)
    BY <1>1, ReadableAreGood
  <2>2. v.overall_accept <=> v.authentic /\ v.unchanged = "yes" /\ v.authorized = "AUTHORIZED"
    BY ReportOf
  <2>3. /\ v.authentic <=> \E s \in sealings : b.frame = SealOf(s).frame
        /\ v.authentic =>
             /\ v.unchanged = "yes" <=> \E s \in SealedAs(b) : s.data = data
             /\ NoDeviceTwice(r.entries) =>
                  (v.authorized = "AUTHORIZED" <=> Grants(r, b.frame.te))
    BY <2>1, ReportIsolates
  <2>4. FromJson(r) # None <=> NoDeviceTwice(r.entries)
    BY DEF FromJson, Some, None
  <2>5. Grants(r, b.frame.te) => NoDeviceTwice(r.entries)
    BY DEF Grants
  <2>6. (\E s \in SealedAs(b) : s.data = data) => \E s \in sealings : b.frame = SealOf(s).frame
    BY DEF SealedAs
  <2> HIDE DEF v
  <2> QED  BY <2>2, <2>3, <2>4, <2>5, <2>6 DEF v
<1> QED  BY <1>1, SealInit, SealStep, RegistriesInit, RegistriesStep, PTL DEF Spec

-----------------------------------------------------------------------------
(* Files and evidence.                                                       *)

\* Whoever seals gives seal-file no evidence, and puts none into his files.
NobodySealsEvidence == \A job \in Job : job.cmd = "seal-file" => job.file \in Docs

IsEvidence(x) ==
  \E d, h : \E m \in 1..MaxStarts :
    x = [deterministic |-> d, evidence_digest |-> h, runtime |-> m]

\* What is in the files, if dec was decided.
FilesGood(fs, dec) ==
  /\ DOMAIN fs = Files
  /\ \A f \in Docs : fs[f] \in Data
  /\ \A f \in Evidences :
       Readable(fs[f]) => IsEvidence(fs[f]) /\ (MayAlter \/ fs[f] \in dec)

ProfilesGood(prof, mk) == \A f \in Profiles : prof[f] \in mk \cup {Absent, Garbled}

SealingsGood(sl, mk, dec) ==
  \A s \in sl : /\ s.signer \in mk
                /\ NobodySealsEvidence /\ s.name \in Evidences
                     => s.data \in dec \cup {Garbled}

\* A command that wrote its evidence and is about to seal it.
Attests(r) ==
  r.pc = "read_evidence" \/ (r.pc = "read_profile" /\ r.job.cmd # "seal-file")

\* What a command carries, by the step it is at.  Evidence is not altered while
\* it runs: what it attests is its own record, another command's, or half of one.
Carries(r, fs, mk, dec, n) ==
  /\ r.code \in 0..2
  /\ r.pc # "idle" => r.moment \in 1..n
  /\ r.pc \in {"create_profile", "write_profile", "read_evidence"} => r.signer \in mk
  /\ r.pc = "read_file" /\ r.job.cmd = "seal-file" => r.signer \in mk
  /\ r.pc \in {"create_evidence", "write_evidence"} => r.job.evidence \in Evidences
  /\ r.pc = "write_evidence" => EvidenceOf(r.result, r.moment) \in dec
  /\ Attests(r) => r.job.evidence \in Evidences /\ fs[r.job.evidence] \in dec \cup {Garbled}

FilesInv ==
  /\ FilesGood(files, decided)
  /\ ProfilesGood(profiles, made)
  /\ made \subseteq Signer
  /\ SealingsGood(sealings, made, decided)
  /\ starts \in 0..MaxStarts /\ edits \in 0..MaxEdits
  /\ \A p \in Process : Carries(proc[p], files, made, decided, starts)

LEMMA FilesInit == Init => FilesInv
<1> SUFFICES ASSUME Init  PROVE FilesInv
  OBVIOUS
<1>1. FilesGood(files, decided)
  BY PathsAssumption DEF Init, FilesGood, Files, Readable
<1>2. ProfilesGood(profiles, made) /\ SealingsGood(sealings, made, decided)
  BY DEF Init, ProfilesGood, SealingsGood
<1>3. \A p \in Process : Carries(proc[p], files, made, decided, starts)
  BY DEF Init, Carries, Attests, Idle
<1> QED  BY <1>1, <1>2, <1>3, SizesAssumption DEF Init, FilesInv

\* What a command carries, it carries on when others make, decide and start
\* more, and write to the evidence only what was decided.
LEMMA CarriesOn ==
  ASSUME NEW r, NEW fs, NEW gs, NEW mk, NEW mk2, NEW dec, NEW dec2, NEW n \in Nat, NEW n2 \in Nat,
         Carries(r, fs, mk, dec, n), mk \subseteq mk2, dec \subseteq dec2, n <= n2,
         \A f \in Evidences : gs[f] = fs[f] \/ gs[f] \in dec2 \cup {Garbled}
  PROVE  Carries(r, gs, mk2, dec2, n2)
<1>1. \A m \in 1..n : m \in 1..n2
  OBVIOUS
<1>2. Attests(r) => gs[r.job.evidence] \in dec2 \cup {Garbled}
  BY DEF Carries
<1> QED  BY <1>1, <1>2 DEF Carries

\* A step of one process, from what it does to each part of the state.
LEMMA FilesOfOne ==
  ASSUME SealInv, FilesInv, NEW p \in Process,
         \A q \in Process \ {p} : proc'[q] = proc[q],
         Carries(proc'[p], files', made', decided', starts'),
         FilesGood(files', decided'),
         \A f \in Evidences : files'[f] = files[f] \/ files'[f] \in decided' \cup {Garbled},
         ProfilesGood(profiles', made'),
         SealingsGood(sealings', made', decided'),
         made \subseteq made', made' \subseteq Signer, decided \subseteq decided',
         starts' \in 0..MaxStarts, starts <= starts', UNCHANGED edits
  PROVE  FilesInv'
<1>1. starts \in Nat /\ starts' \in Nat
  BY SizesAssumption DEF FilesInv
<1>2. ASSUME NEW q \in Process
      PROVE  Carries(proc'[q], files', made', decided', starts')
  <2>1. CASE q = p
    BY <2>1
  <2>2. CASE q # p
    <3>1. proc'[q] = proc[q] /\ Carries(proc[q], files, made, decided, starts)
      BY <2>2 DEF FilesInv
    <3> QED  BY <1>1, <3>1, CarriesOn
  <2> QED  BY <2>1, <2>2
<1>3. edits' \in 0..MaxEdits
  BY DEF FilesInv
<1> QED
  <2>1. FilesGood(files, decided)' /\ ProfilesGood(profiles, made)'
        /\ SealingsGood(sealings, made, decided)'
    BY DEF FilesGood, ProfilesGood, SealingsGood, Readable, IsEvidence
  <2>2. (\A q \in Process : Carries(proc[q], files, made, decided, starts))'
    BY <1>2
  <2> QED  BY <1>3, <2>1, <2>2 DEF FilesInv

\* The same for a step that only moves the process.
LEMMA FilesInside ==
  ASSUME SealInv, FilesInv, NEW p \in Process,
         \A q \in Process \ {p} : proc'[q] = proc[q],
         Carries(proc'[p], files, made, decided, starts),
         UNCHANGED <<profiles, files, made, sealings, decided, starts, edits>>
  PROVE  FilesInv'
BY FilesOfOne, SizesAssumption DEF FilesInv

\* A command that ends carries nothing but its exit code.
LEMMA ExitCarries ==
  ASSUME SealInv, NEW p \in Process, NEW code \in 0..2, Exit(p, code)
  PROVE  /\ \A q \in Process \ {p} : proc'[q] = proc[q]
         /\ \A fs, mk, dec, n : Carries(proc'[p], fs, mk, dec, n)
<1>1. /\ \A q \in Process \ {p} : proc'[q] = proc[q]
      /\ proc'[p] = Idle(proc[p].job, code)
  BY DEF Exit, SealInv, Shapes
<1> QED  BY <1>1 DEF Idle, Carries, Attests

\* What a move leaves of its process.
LEMMA MoveOf ==
  ASSUME SealInv, NEW p \in Process, NEW to, proc' = [proc EXCEPT ![p].pc = to]
  PROVE  /\ \A q \in Process \ {p} : proc'[q] = proc[q]
         /\ proc'[p].pc = to /\ proc'[p].job = proc[p].job /\ proc'[p].code = proc[p].code
         /\ proc'[p].moment = proc[p].moment /\ proc'[p].signer = proc[p].signer
         /\ proc'[p].result = proc[p].result /\ proc'[p].bundle = proc[p].bundle
BY DEF SealInv, Shapes, Fields

\* Moves to steps at which a command needs nothing.
Light == {"read_seal", "read_registry", "create_seal", "write_seal", "create_registry",
          "write_registry"}

LEMMA LightCarries ==
  ASSUME NEW r, NEW r2, NEW fs, NEW mk, NEW dec, NEW n, Carries(r, fs, mk, dec, n),
         r.pc # "idle", r2.pc \in Light, r2.code = r.code, r2.moment = r.moment
  PROVE  \A gs, mk2, dec2 : Carries(r2, gs, mk2, dec2, n)
BY DEF Light, Carries, Attests

LEMMA StartFiles ==
  ASSUME SealInv, FilesInv, NEW p \in Process, Start(p)
  PROVE  FilesInv'
<1>1. /\ starts < MaxStarts /\ starts' = starts + 1
      /\ UNCHANGED <<profiles, files, sealings, decided, edits>>
  BY DEF Start, disk
<1>2. PICK job \in Job : \E signer \in FreshSigner(job) :
        /\ proc' = [proc EXCEPT ![p] =
             [Idle(job, 0) EXCEPT !.pc = FirstStep(job.cmd), !.moment = starts + 1,
                                  !.signer = signer]]
        /\ made' = IF signer = Garbled THEN made ELSE made \cup {signer}
  BY DEF Start
<1>3. PICK signer \in FreshSigner(job) :
        /\ proc' = [proc EXCEPT ![p] =
             [Idle(job, 0) EXCEPT !.pc = FirstStep(job.cmd), !.moment = starts + 1,
                                  !.signer = signer]]
        /\ made' = IF signer = Garbled THEN made ELSE made \cup {signer}
  BY <1>2
<1> DEFINE r == [Idle(job, 0) EXCEPT !.pc = FirstStep(job.cmd), !.moment = starts + 1,
                                     !.signer = signer]
<1>4. /\ r.pc = FirstStep(job.cmd) /\ r.job = job /\ r.code = 0
      /\ r.moment = starts + 1 /\ r.signer = signer
  BY DEF Idle
<1>5. proc'[p] = r /\ \A q \in Process \ {p} : proc'[q] = proc[q]
  <2> HIDE DEF r
  <2> QED  BY <1>3 DEF SealInv, Shapes, r
<1>6. starts' \in 0..MaxStarts /\ starts <= starts' /\ starts' \in 1..starts'
  BY <1>1, SizesAssumption DEF FilesInv
<1>7. /\ signer # Garbled => signer \in Signer
      /\ job.cmd = "init-sealer" => signer \in Signer
  BY <1>3 DEF FreshSigner
<1>8. /\ made \subseteq made' /\ made' \subseteq Signer
      /\ job.cmd = "init-sealer" => signer \in made'
  BY <1>3, <1>7, SignerAssumption DEF FilesInv
<1>9. Carries(r, files, made', decided, starts')
  <2> HIDE DEF r
  <2>1. job.cmd \in {"init-sealer", "seal-file", "verify-file"}
    BY JobAssumption
  <2>2. /\ r.pc \in {"create_profile", "read_profile", "read_file"}
        /\ r.pc = "create_profile" => job.cmd = "init-sealer"
        /\ r.pc = "read_profile" => job.cmd = "seal-file"
        /\ r.pc = "read_file" => job.cmd = "verify-file"
    BY <1>4, <2>1 DEF FirstStep
  <2> QED  BY <1>1, <1>4, <1>6, <1>8, <2>2 DEF Carries, Attests
<1>10. ProfilesGood(profiles', made')
  BY <1>1, <1>8 DEF FilesInv, ProfilesGood
<1>11. SealingsGood(sealings', made', decided')
  BY <1>1, <1>8 DEF FilesInv, SealingsGood
<1> QED
  <2> HIDE DEF r
  <2>1. Carries(proc'[p], files', made', decided', starts')
    BY <1>1, <1>5, <1>9
  <2>2. FilesGood(files', decided')
    BY <1>1 DEF FilesInv
  <2> QED  BY <1>1, <1>5, <1>6, <1>8, <1>10, <1>11, <2>1, <2>2, FilesOfOne

\* Ends that write nothing.
LEMMA EndingFiles ==
  ASSUME SealInv, FilesInv, NEW p \in Process, OpenFails(p) \/ WriteFails(p) \/ Crash(p)
  PROVE  FilesInv'
<1>1. UNCHANGED <<profiles, files, made, sealings, decided, starts, edits>>
  BY DEF OpenFails, WriteFails, Crash, disk, history
<1>2. CASE OpenFails(p) \/ WriteFails(p)
  <2>1. Exit(p, 2)
    BY <1>2 DEF OpenFails, WriteFails
  <2> QED  BY <1>1, <2>1, ExitCarries, FilesInside
<1>3. CASE Crash(p)
  <2>1. /\ \A q \in Process \ {p} : proc'[q] = proc[q]
        /\ proc'[p] = Idle(Absent, 0)
    BY <1>3 DEF Crash, SealInv, Shapes
  <2>2. Carries(proc'[p], files, made, decided, starts)
    BY <2>1 DEF Idle, Carries, Attests
  <2> QED  BY <1>1, <2>1, <2>2, FilesInside
<1> QED  BY <1>2, <1>3

LEMMA ProfileFiles ==
  ASSUME SealInv, FilesInv, NEW p \in Process, CreateProfile(p) \/ WriteProfile(p)
  PROVE  FilesInv'
<1>1. UNCHANGED <<files, made, sealings, decided, starts, edits>>
  BY DEF CreateProfile, WriteProfile, history
<1>2. proc[p].pc \in {"create_profile", "write_profile"}
  BY DEF CreateProfile, WriteProfile, At
<1>3. /\ Carries(proc[p], files, made, decided, starts)
      /\ proc[p].signer \in made
  BY <1>2 DEF FilesInv, Carries
<1>4. ProfilesGood(profiles', made')
  BY <1>1, <1>3 DEF CreateProfile, WriteProfile, Outcomes, FilesInv, ProfilesGood,
     SealInv, Shapes
<1>5. /\ \A q \in Process \ {p} : proc'[q] = proc[q]
      /\ Carries(proc'[p], files, made, decided, starts)
  <2>1. CASE CreateProfile(p)
    <3>1. proc' = [proc EXCEPT ![p].pc = "write_profile"]
      BY <2>1 DEF CreateProfile
    <3> QED  BY <1>2, <1>3, <3>1, MoveOf DEF Carries, Attests
  <2>2. CASE WriteProfile(p)
    BY <2>2, ExitCarries DEF WriteProfile
  <2> QED  BY <2>1, <2>2
<1> QED
  <2>1. /\ FilesGood(files', decided') /\ SealingsGood(sealings', made', decided')
        /\ Carries(proc'[p], files', made', decided', starts')
        /\ made' \subseteq Signer /\ starts' \in 0..MaxStarts
    BY <1>1, <1>5 DEF FilesInv
  <2> QED  BY <1>1, <1>4, <1>5, <2>1, FilesOfOne, SizesAssumption DEF FilesInv

LEMMA ReadProfileFiles ==
  ASSUME SealInv, FilesInv, NEW p \in Process, ReadProfile(p)
  PROVE  FilesInv'
<1> DEFINE job == proc[p].job
           found == profiles[job.profile]
<1>1. /\ proc[p].pc = "read_profile" /\ job.profile \in Profiles
      /\ Carries(proc[p], files, made, decided, starts)
      /\ UNCHANGED <<profiles, files, made, sealings, decided, starts, edits>>
  BY DEF ReadProfile, At, SealInv, Holds, FilesInv, disk, history
<1>2. CASE ~Readable(found)
  <2>1. Exit(p, 2)
    BY <1>2 DEF ReadProfile
  <2> QED  BY <1>1, <2>1, ExitCarries, FilesInside
<1>3. CASE Readable(found)
  <2>1. found \in made
    BY <1>1, <1>3 DEF FilesInv, ProfilesGood, Readable
  <2> DEFINE to == IF job.cmd = "seal-file" THEN "read_file" ELSE "read_evidence"
  <2>2. proc' = [proc EXCEPT ![p].signer = found, ![p].pc = to]
    BY <1>3 DEF ReadProfile
  <2> HIDE DEF to
  <2>3. /\ \A q \in Process \ {p} : proc'[q] = proc[q]
        /\ proc'[p].pc = to /\ proc'[p].signer = found /\ proc'[p].job = job
        /\ proc'[p].code = proc[p].code /\ proc'[p].moment = proc[p].moment
    BY <2>2 DEF SealInv, Shapes, Fields
  <2>4. Carries(proc'[p], files, made, decided, starts)
    BY <1>1, <2>1, <2>3 DEF Carries, Attests, to
  <2> QED  BY <1>1, <2>3, <2>4, FilesInside
<1> QED  BY <1>2, <1>3

\* Sealing what may be sealed.
LEMMA SealBytesFiles ==
  ASSUME SealInv, FilesInv, NEW p \in Process, NEW path, NEW data, SealBytes(p, path, data),
         proc[p].pc # "idle", proc[p].signer \in made,
         NobodySealsEvidence /\ path \in Evidences => data \in decided \cup {Garbled},
         UNCHANGED <<profiles, files, made, decided, starts, edits>>
  PROVE  FilesInv'
<1> DEFINE s == [name |-> path, data |-> data,
                 content_type |-> proc[p].job.content_type, signer |-> proc[p].signer]
           b == SealFile(path, data, proc[p].job.content_type, proc[p].signer)
<1>1. /\ sealings' = sealings \cup {s}
      /\ proc' = [proc EXCEPT ![p].pc = "create_seal", ![p].bundle = b]
  BY DEF SealBytes
<1>2. s.signer = proc[p].signer /\ s.data = data /\ s.name = path
  OBVIOUS
<1> HIDE DEF s, b
<1>3. SealingsGood(sealings', made', decided')
  BY <1>1, <1>2 DEF FilesInv, SealingsGood
<1>4. /\ \A q \in Process \ {p} : proc'[q] = proc[q]
      /\ proc'[p].pc = "create_seal"
      /\ proc'[p].code = proc[p].code /\ proc'[p].moment = proc[p].moment
  BY <1>1 DEF SealInv, Shapes, Fields
<1>5. Carries(proc'[p], files', made', decided', starts')
  <2>1. Carries(proc[p], files, made, decided, starts)
    BY DEF FilesInv
  <2> QED  BY <1>4, <2>1, LightCarries DEF Light
<1>6. /\ FilesGood(files', decided') /\ ProfilesGood(profiles', made')
      /\ made' \subseteq Signer /\ starts' \in 0..MaxStarts /\ starts <= starts'
  BY SizesAssumption DEF FilesInv
<1> QED  BY <1>3, <1>4, <1>5, <1>6, FilesOfOne

LEMMA ReadFileFiles ==
  ASSUME SealInv, FilesInv, NEW p \in Process, ReadFile(p)
  PROVE  FilesInv'
<1> DEFINE job == proc[p].job
           data == files[job.file]
<1>1. /\ proc[p].pc = "read_file" /\ job \in Job
      /\ Carries(proc[p], files, made, decided, starts)
      /\ UNCHANGED <<profiles, files, made, decided, starts, edits>>
  BY DEF ReadFile, At, SealInv, Holds, FilesInv, disk
<1>2. CASE data = Absent
  <2>1. Exit(p, 2) /\ UNCHANGED sealings
    BY <1>2 DEF ReadFile
  <2> QED  BY <1>1, <2>1, ExitCarries, FilesInside
<1>3. CASE data # Absent /\ job.cmd = "seal-file"
  <2>1. SealBytes(p, job.file, data)
    BY <1>3 DEF ReadFile
  <2>2. proc[p].signer \in made
    BY <1>1, <1>3 DEF Carries
  <2>3. NobodySealsEvidence => job.file \notin Evidences
    BY <1>1, <1>3, PathsAssumption DEF NobodySealsEvidence
  <2> QED  BY <1>1, <2>1, <2>2, <2>3, SealBytesFiles
<1>4. CASE data # Absent /\ job.cmd # "seal-file"
  <2>1. /\ proc' = [proc EXCEPT ![p].pc = "read_seal", ![p].data = data]
        /\ UNCHANGED sealings
    BY <1>4 DEF ReadFile
  <2>2. /\ \A q \in Process \ {p} : proc'[q] = proc[q]
        /\ proc'[p].pc = "read_seal"
        /\ proc'[p].code = proc[p].code /\ proc'[p].moment = proc[p].moment
    BY <2>1 DEF SealInv, Shapes, Fields
  <2>3. Carries(proc'[p], files, made, decided, starts)
    BY <1>1, <2>2, LightCarries DEF Light
  <2> QED  BY <1>1, <2>1, <2>2, <2>3, FilesInside
<1> QED  BY <1>2, <1>3, <1>4

\* What is attested is what the command decided, or another one, or half of it.
LEMMA ReadEvidenceFiles ==
  ASSUME SealInv, FilesInv, NEW p \in Process, ReadEvidence(p)
  PROVE  FilesInv'
<1> DEFINE path == proc[p].job.evidence
<1>1. /\ proc[p].pc = "read_evidence"
      /\ Carries(proc[p], files, made, decided, starts)
      /\ UNCHANGED <<profiles, files, made, decided, starts, edits>>
  BY DEF ReadEvidence, At, FilesInv, disk
<1>2. proc[p].signer \in made /\ files[path] \in decided \cup {Garbled}
  BY <1>1 DEF Carries, Attests
<1>3. CASE files[path] = Absent
  <2>1. Exit(p, 2) /\ UNCHANGED sealings
    BY <1>3 DEF ReadEvidence
  <2> QED  BY <1>1, <2>1, ExitCarries, FilesInside
<1>4. CASE files[path] # Absent
  <2>1. SealBytes(p, path, files[path])
    BY <1>4 DEF ReadEvidence
  <2> QED  BY <1>1, <1>2, <2>1, SealBytesFiles
<1> QED  BY <1>3, <1>4

\* The exit code of a command that sealed.
LEMMA ExitCodes ==
  ASSUME NEW p, NEW result
  PROVE  /\ ExitCode(result) \in 0..2
         /\ Done(p) => \E code \in 0..2 : Exit(p, code)
BY DEF ExitCode, Done

LEMMA WritingSealFiles ==
  ASSUME SealInv, FilesInv, NEW p \in Process,
         \/ CreateSeal(p) \/ WriteSeal(p) \/ CreateRegistry(p) \/ WriteRegistry(p)
  PROVE  FilesInv'
<1>1. /\ UNCHANGED <<profiles, files, made, sealings, decided, starts, edits>>
      /\ proc[p].pc # "idle" /\ Carries(proc[p], files, made, decided, starts)
  BY DEF CreateSeal, WriteSeal, CreateRegistry, WriteRegistry, At, FilesInv, history
<1>2. CASE Done(p)
  BY <1>1, <1>2, ExitCodes, ExitCarries, FilesInside
<1>3. CASE ~Done(p)
  <2>1. PICK to \in Light : proc' = [proc EXCEPT ![p].pc = to]
    BY <1>3 DEF CreateSeal, WriteSeal, CreateRegistry, WriteRegistry, Light
  <2>2. /\ \A q \in Process \ {p} : proc'[q] = proc[q]
        /\ proc'[p].pc = to
        /\ proc'[p].code = proc[p].code /\ proc'[p].moment = proc[p].moment
    BY <2>1, MoveOf
  <2>3. Carries(proc'[p], files, made, decided, starts)
    BY <1>1, <2>1, <2>2, LightCarries
  <2> QED  BY <1>1, <2>2, <2>3, FilesInside
<1> QED  BY <1>2, <1>3

LEMMA ReadSealFiles ==
  ASSUME SealInv, FilesInv, NEW p \in Process, ReadSeal(p)
  PROVE  FilesInv'
<1> DEFINE found == seals[proc[p].job.seal]
<1>1. /\ UNCHANGED <<profiles, files, made, sealings, decided, starts, edits>>
      /\ proc[p].pc # "idle" /\ Carries(proc[p], files, made, decided, starts)
  BY DEF ReadSeal, At, FilesInv, disk, history
<1>2. CASE ~Readable(found)
  <2>1. Exit(p, 2)
    BY <1>2 DEF ReadSeal
  <2> QED  BY <1>1, <2>1, ExitCarries, FilesInside
<1>3. CASE Readable(found)
  <2>1. proc' = [proc EXCEPT ![p].pc = "read_registry", ![p].bundle = found]
    BY <1>3 DEF ReadSeal
  <2>2. /\ \A q \in Process \ {p} : proc'[q] = proc[q]
        /\ proc'[p].pc = "read_registry"
        /\ proc'[p].code = proc[p].code /\ proc'[p].moment = proc[p].moment
    BY <2>1 DEF SealInv, Shapes, Fields
  <2>3. Carries(proc'[p], files, made, decided, starts)
    BY <1>1, <2>2, LightCarries DEF Light
  <2> QED  BY <1>1, <2>2, <2>3, FilesInside
<1> QED  BY <1>2, <1>3

LEMMA ReadRegistryFiles ==
  ASSUME SealInv, FilesInv, NEW p \in Process, ReadRegistry(p)
  PROVE  FilesInv'
<1>1. /\ UNCHANGED <<profiles, files, made, sealings, decided, starts, edits>>
      /\ proc[p].pc = "read_registry" /\ Carries(proc[p], files, made, decided, starts)
      /\ proc[p].job \in Job /\ proc[p].job.cmd = "verify-file"
  BY DEF ReadRegistry, At, SealInv, Holds, FilesInv, disk
<1>2. (\E code \in 0..2 : Exit(p, code))
        \/ /\ proc[p].job.evidence # Absent
           /\ \E result : proc' = [proc EXCEPT ![p].pc = "create_evidence",
                                               ![p].result = result]
  BY ExitCodes DEF ReadRegistry
<1>3. CASE \E code \in 0..2 : Exit(p, code)
  BY <1>1, <1>3, ExitCarries, FilesInside
<1>4. CASE /\ proc[p].job.evidence # Absent
           /\ \E result : proc' = [proc EXCEPT ![p].pc = "create_evidence",
                                               ![p].result = result]
  <2>1. /\ \A q \in Process \ {p} : proc'[q] = proc[q]
        /\ proc'[p].pc = "create_evidence" /\ proc'[p].job = proc[p].job
        /\ proc'[p].code = proc[p].code /\ proc'[p].moment = proc[p].moment
    BY <1>4 DEF SealInv, Shapes, Fields
  <2>2. proc[p].job.evidence \in Evidences
    BY <1>1, <1>4, PathsAssumption
  <2>3. Carries(proc'[p], files, made, decided, starts)
    BY <1>1, <2>1, <2>2 DEF Carries, Attests
  <2> QED  BY <1>1, <2>1, <2>3, FilesInside
<1> QED  BY <1>2, <1>3, <1>4

\* More decisions change nothing that is good.
LEMMA MoreDecided ==
  ASSUME NEW fs, NEW sl, NEW mk, NEW dec, NEW dec2, dec \subseteq dec2
  PROVE  /\ FilesGood(fs, dec) => FilesGood(fs, dec2)
         /\ SealingsGood(sl, mk, dec) => SealingsGood(sl, mk, dec2)
BY DEF FilesGood, SealingsGood

LEMMA CreateEvidenceFiles ==
  ASSUME SealInv, FilesInv, NEW p \in Process, CreateEvidence(p)
  PROVE  FilesInv'
<1> DEFINE path == proc[p].job.evidence
           e == EvidenceOf(proc[p].result, proc[p].moment)
<1>1. /\ files' = [files EXCEPT ![path] = Garbled]
      /\ decided' = decided \cup {e}
      /\ proc' = [proc EXCEPT ![p].pc = "write_evidence"]
      /\ UNCHANGED <<profiles, made, sealings, starts, edits>>
      /\ proc[p].pc = "create_evidence" /\ Carries(proc[p], files, made, decided, starts)
  BY DEF CreateEvidence, At, FilesInv
<1>2. path \in Evidences
  BY <1>1 DEF Carries
<1>3. /\ DOMAIN files' = DOMAIN files /\ files'[path] \in {files[path], Garbled}
      /\ \A f : f # path => files'[f] = files[f]
  BY <1>1
<1>4. FilesGood(files', decided')
  <2>1. DOMAIN files' = Files /\ path \notin Docs
    BY <1>2, <1>3, PathsAssumption DEF FilesInv, FilesGood
  <2>2. files'[path] = Garbled
    BY <1>1, <1>2, <2>1 DEF FilesInv, FilesGood, Files
  <2> QED  BY <1>1, <1>3, <2>1, <2>2 DEF FilesInv, FilesGood, Readable
<1>5. Carries(proc'[p], files', made', decided', starts')
  <2>1. /\ proc'[p].pc = "write_evidence" /\ proc'[p].job = proc[p].job
        /\ proc'[p].code = proc[p].code /\ proc'[p].moment = proc[p].moment
        /\ proc'[p].result = proc[p].result
    BY <1>1, MoveOf
  <2> QED  BY <1>1, <1>2, <2>1 DEF Carries, Attests
<1>6. SealingsGood(sealings', made', decided')
  BY <1>1, MoreDecided DEF FilesInv
<1>7. \A q \in Process \ {p} : proc'[q] = proc[q]
  BY <1>1, MoveOf
<1>8. \A f \in Evidences : files'[f] = files[f] \/ files'[f] \in decided' \cup {Garbled}
  BY <1>3
<1>9. /\ ProfilesGood(profiles', made') /\ made \subseteq made' /\ made' \subseteq Signer
      /\ decided \subseteq decided' /\ starts' \in 0..MaxStarts /\ starts <= starts'
      /\ UNCHANGED edits
  BY <1>1, SizesAssumption DEF FilesInv
<1> QED
  <2> HIDE DEF e, path
  <2> QED  BY <1>4, <1>5, <1>6, <1>7, <1>8, <1>9, FilesOfOne

LEMMA WriteEvidenceFiles ==
  ASSUME SealInv, FilesInv, NEW p \in Process, WriteEvidence(p)
  PROVE  FilesInv'
<1> DEFINE path == proc[p].job.evidence
           e == EvidenceOf(proc[p].result, proc[p].moment)
<1>1. /\ UNCHANGED <<profiles, made, sealings, decided, starts, edits>>
      /\ proc[p].pc = "write_evidence" /\ Carries(proc[p], files, made, decided, starts)
  BY DEF WriteEvidence, At, FilesInv, history
<1>2. /\ path \in Evidences /\ e \in decided
      /\ proc[p].moment \in 1..MaxStarts
  BY <1>1, SizesAssumption DEF Carries, FilesInv
<1>3. PICK out \in {e, Garbled} : files' = [files EXCEPT ![path] = out]
  BY DEF WriteEvidence, Outcomes
<1>4. IsEvidence(e)
  BY <1>2 DEF IsEvidence, EvidenceOf
<1> HIDE DEF e
<1>5. /\ DOMAIN files' = Files /\ files'[path] = out /\ path \notin Docs
      /\ \A f : f # path => files'[f] = files[f]
  BY <1>2, <1>3, PathsAssumption DEF FilesInv, FilesGood, Files
<1>6. FilesGood(files', decided')
  BY <1>1, <1>2, <1>4, <1>5 DEF FilesInv, FilesGood, Readable
<1>7. /\ \A q \in Process \ {p} : proc'[q] = proc[q]
      /\ Carries(proc'[p], files', made', decided', starts')
  <2>1. CASE proc[p].job.profile = Absent
    <3>1. \E code \in 0..2 : Exit(p, code)
      BY <2>1, ExitCodes DEF WriteEvidence
    <3> QED  BY <3>1, ExitCarries
  <2>2. CASE proc[p].job.profile # Absent
    <3>1. proc' = [proc EXCEPT ![p].pc = "read_profile"]
      BY <2>2 DEF WriteEvidence
    <3>2. /\ proc'[p].pc = "read_profile" /\ proc'[p].job = proc[p].job
          /\ proc'[p].code = proc[p].code /\ proc'[p].moment = proc[p].moment
      BY <3>1, MoveOf
    <3>3. files'[proc'[p].job.evidence] \in decided \cup {Garbled}
      BY <1>2, <1>5, <3>2
    <3> QED  BY <1>1, <1>2, <3>1, <3>2, <3>3, MoveOf DEF Carries, Attests
  <2> QED  BY <2>1, <2>2
<1>8. \A f \in Evidences : files'[f] = files[f] \/ files'[f] \in decided' \cup {Garbled}
  BY <1>1, <1>2, <1>5
<1>9. /\ ProfilesGood(profiles', made') /\ SealingsGood(sealings', made', decided')
      /\ made' \subseteq Signer /\ starts' \in 0..MaxStarts /\ starts <= starts'
  BY <1>1, SizesAssumption DEF FilesInv
<1> QED
  <2> HIDE DEF path
  <2> QED  BY <1>1, <1>6, <1>7, <1>8, <1>9, FilesOfOne

\* Evidence that is changed is evidence still.
LEMMA TurnedEvidence ==
  ASSUME NEW x, IsEvidence(x)
  PROVE  LET turned == [x EXCEPT !.deterministic.overall_accept = ~@]
         IN  IsEvidence(turned) /\ IsEvidence(EvidenceOf(turned.deterministic, turned.runtime))
<1>1. PICK d, h : \E m \in 1..MaxStarts :
        x = [deterministic |-> d, evidence_digest |-> h, runtime |-> m]
  BY DEF IsEvidence
<1>2. PICK m \in 1..MaxStarts : x = [deterministic |-> d, evidence_digest |-> h, runtime |-> m]
  BY <1>1
<1> DEFINE turned == [x EXCEPT !.deterministic.overall_accept = ~@]
           d2 == [d EXCEPT !.overall_accept = ~@]
<1>3. turned = [deterministic |-> d2, evidence_digest |-> h, runtime |-> m]
  BY <1>2
<1> HIDE DEF turned, d2
<1>4. IsEvidence(turned) /\ turned.runtime = m
  BY <1>3 DEF IsEvidence
<1>5. IsEvidence(EvidenceOf(turned.deterministic, m))
  BY DEF IsEvidence, EvidenceOf
<1> QED  BY <1>4, <1>5 DEF turned

LEMMA EditsFiles ==
  ASSUME SealInv, FilesInv, EditFile \/ EditRegistry \/ AlterSeal \/ AlterEvidence
  PROVE  FilesInv'
<1>1. /\ UNCHANGED <<profiles, proc, made, sealings, decided, starts>>
      /\ edits' \in 0..MaxEdits
  BY SizesAssumption DEF EditFile, EditRegistry, AlterSeal, AlterEvidence, history, FilesInv
<1>2. /\ FilesGood(files', decided)
      /\ \A p \in Process : Carries(proc[p], files', made, decided, starts)
  <2>1. CASE EditFile
    <3>1. PICK g \in Docs, d \in Data : files' = [files EXCEPT ![g] = d]
      BY <2>1 DEF EditFile
    <3>2. /\ DOMAIN files' = Files /\ files'[g] = d
          /\ \A f : f # g => files'[f] = files[f]
      BY <3>1 DEF FilesInv, FilesGood, Files
    <3>3. FilesGood(files', decided)
      BY <3>2, PathsAssumption DEF FilesInv, FilesGood
    <3>4. \A f \in Evidences : files'[f] = files[f]
      BY <3>2, PathsAssumption
    <3> QED  BY <3>3, <3>4, CarriesOn, SizesAssumption DEF FilesInv
  <2>2. CASE AlterEvidence
    <3> DEFINE turned(f) == [files[f] EXCEPT !.deterministic.overall_accept = ~@]
    <3>1. /\ MayAlter = TRUE
          /\ \A p \in Process : proc[p].pc = "idle"
      BY <2>2, FlagsAssumption DEF AlterEvidence, At
    <3>2. PICK g \in Evidences :
            /\ Readable(files[g])
            /\ \E e \in {turned(g), EvidenceOf(turned(g).deterministic, turned(g).runtime)} :
                 files' = [files EXCEPT ![g] = e]
      BY <2>2 DEF AlterEvidence
    <3>3. PICK e \in {turned(g), EvidenceOf(turned(g).deterministic, turned(g).runtime)} :
            files' = [files EXCEPT ![g] = e]
      BY <3>2
    <3>4. IsEvidence(e)
      <4>1. IsEvidence(files[g])
        BY <3>2 DEF FilesInv, FilesGood
      <4> QED  BY <4>1, TurnedEvidence
    <3> HIDE DEF turned
    <3>5. /\ DOMAIN files' = Files /\ files'[g] = e
          /\ \A f : f # g => files'[f] = files[f]
      BY <3>3 DEF FilesInv, FilesGood, Files
    <3>6. FilesGood(files', decided)
      BY <3>1, <3>4, <3>5, PathsAssumption DEF FilesInv, FilesGood
    <3>7. \A p \in Process : Carries(proc[p], files', made, decided, starts)
      BY <3>1 DEF FilesInv, Carries, Attests
    <3> QED  BY <3>6, <3>7
  <2>3. CASE EditRegistry \/ AlterSeal
    <3>1. UNCHANGED files
      BY <2>3 DEF EditRegistry, AlterSeal
    <3> QED  BY <3>1 DEF FilesInv
  <2> QED  BY <2>1, <2>2, <2>3
<1> QED
  <2>1. FilesGood(files, decided)' /\ ProfilesGood(profiles, made)'
        /\ SealingsGood(sealings, made, decided)'
    BY <1>1, <1>2 DEF FilesInv, FilesGood, ProfilesGood, SealingsGood, Readable, IsEvidence
  <2>2. (\A p \in Process : Carries(proc[p], files, made, decided, starts))'
    BY <1>1, <1>2
  <2> QED  BY <1>1, <2>1, <2>2 DEF FilesInv

LEMMA FilesStep == SealInv /\ FilesInv /\ [Next]_vars => FilesInv'
<1> SUFFICES ASSUME SealInv, FilesInv, [Next]_vars
             PROVE  FilesInv'
  OBVIOUS
<1>1. ASSUME NEW p \in Process, Start(p) \/ Step(p) \/ Crash(p)
      PROVE  FilesInv'
  BY <1>1, StartFiles, EndingFiles, ProfileFiles, ReadProfileFiles, ReadFileFiles,
     ReadEvidenceFiles, WritingSealFiles, ReadSealFiles, ReadRegistryFiles,
     CreateEvidenceFiles, WriteEvidenceFiles DEF Step
<1>2. CASE UNCHANGED vars
  <2>1. UNCHANGED <<profiles, files, proc, starts, edits, made, sealings, decided>>
    BY <1>2 DEF vars, disk, history
  <2>2. FilesGood(files, decided)' /\ ProfilesGood(profiles, made)'
        /\ SealingsGood(sealings, made, decided)'
    BY <2>1 DEF FilesInv, FilesGood, ProfilesGood, SealingsGood, Readable, IsEvidence
  <2>3. (\A p \in Process : Carries(proc[p], files, made, decided, starts))'
    BY <2>1 DEF FilesInv
  <2> QED  BY <2>1, <2>2, <2>3 DEF FilesInv
<1> QED  BY <1>1, <1>2, EditsFiles DEF Next

\* Files, profiles, exit codes and the history keep their types, whatever is
\* written by half, altered or lost.
THEOREM SealTyped == Spec => []TypeOK
<1>1. FilesInv => TypeOK
  <2> SUFFICES ASSUME FilesInv  PROVE TypeOK
    OBVIOUS
  <2>1. \A f \in Profiles : profiles[f] \in Signer \cup {Absent, Garbled}
    BY DEF FilesInv, ProfilesGood
  <2>2. /\ \A f \in Docs : files[f] \in Data
        /\ \A f \in Evidences :
             Readable(files[f]) => /\ files[f].runtime \in 1..MaxStarts
                                   /\ MayAlter \/ files[f] \in decided
    <3>1. \A x : IsEvidence(x) => x.runtime \in 1..MaxStarts
      BY DEF IsEvidence
    <3> QED  BY <3>1 DEF FilesInv, FilesGood
  <2>3. \A s \in sealings : s.signer \in made
    BY DEF FilesInv, SealingsGood
  <2>4. \A p \in Process : proc[p].code \in 0..2
    BY DEF FilesInv, Carries
  <2> QED  BY <2>1, <2>2, <2>3, <2>4 DEF FilesInv, TypeOK
<1> QED  BY <1>1, SealInit, SealStep, FilesInit, FilesStep, PTL DEF Spec

\* A record that says ACCEPT tells of an acceptance.
Backed(record, acc) ==
  record.deterministic.overall_accept => \E a \in acc : TellsOf(record, a)

\* What was decided is backed, and what a command is about to decide.
BackedInv ==
  /\ \A e \in decided : Backed(e, accepted)
  /\ \A p \in Process :
       At(p, "create_evidence") => Backed(EvidenceOf(proc[p].result, proc[p].moment), accepted)

LEMMA BackedInit == Init => BackedInv
BY DEF Init, BackedInv, At, Idle

\* The record of a verification that accepts is of the bytes and the identity
\* that it was given.
LEMMA AcceptTells ==
  ASSUME NEW b, NEW data, NEW registry, NEW moment, NEW path,
         VerifySealed(b, data, registry).overall_accept
  PROVE  TellsOf(EvidenceOf(VerifySealed(b, data, registry), moment),
                 << <<b.frame.te, data>>, path>>)
<1> DEFINE v == VerifySealed(b, data, registry)
           f == b.frame
<1>1. /\ VerifyFrameV2(f) = "Ok"
      /\ v.file_hash = Sha3(data)
      /\ v.combined.r2 = Authorize(Stage1(f), registry)
  BY DEF VerifySealed, VerifyAndAuthorize
<1>2. CheckPkHashBinding(f.mu_pre, f.te)
  <2>1. VerifyVnext(f) = "Ok"
    BY <1>1 DEF VerifyFrameV2
  <2> QED  BY <2>1, FrameOk
<1>3. Authorize(Stage1(f), registry).facts = Some(FactsOf(f))
  <2>1. Stage1(f) # None /\ Stage1(f)[1] = FactsOf(f)
    BY <1>1 DEF Stage1, Some, None
  <2> QED  BY <2>1 DEF Authorize, Evaluated
<1>4. v.combined.r2.facts # None /\ v.combined.r2.facts[1].te_hash = f.mu_pre.pk_hash
  <2>1. v.combined.r2.facts = Some(FactsOf(f))
    BY <1>1, <1>3
  <2> QED  BY <2>1 DEF FactsOf, Some, None
<1> HIDE DEF v
<1>5. EvidenceOf(v, moment).deterministic = v
  BY DEF EvidenceOf
<1>6. TellsOf(EvidenceOf(v, moment), << <<f.te, data>>, path>>)
  BY <1>1, <1>2, <1>4, <1>5 DEF TellsOf, CheckPkHashBinding
<1> QED  BY <1>6 DEF v

\* Where the verdict is reached, an ACCEPT is an acceptance from then on.
LEMMA ReadRegistryBacked ==
  ASSUME SealInv, BackedInv, NEW p \in Process, ReadRegistry(p)
  PROVE  BackedInv'
<1> DEFINE job == proc[p].job
           registry == Reads(registries[job.registry])
           result == VerifySealed(proc[p].bundle, proc[p].data, registry[1])
           new == << <<proc[p].bundle.frame.te, proc[p].data>>, job.registry>>
<1>1. decided' = decided /\ accepted \subseteq accepted'
  BY DEF ReadRegistry
<1>2. ASSUME NEW record, Backed(record, accepted)
      PROVE  Backed(record, accepted')
  BY <1>1, <1>2 DEF Backed
<1>3. \A e \in decided' : Backed(e, accepted')
  BY <1>1, <1>2 DEF BackedInv
<1>4. ASSUME NEW q \in Process, proc'[q].pc = "create_evidence"
      PROVE  Backed(EvidenceOf(proc'[q].result, proc'[q].moment), accepted')
  <2>1. CASE proc'[q] = proc[q]
    <3>1. Backed(EvidenceOf(proc[q].result, proc[q].moment), accepted)
      BY <1>4, <2>1 DEF BackedInv, At
    <3> QED  BY <1>2, <2>1, <3>1
  <2>2. CASE proc'[q] # proc[q]
    <3>1. \A code : ~Exit(p, code)
      <4> SUFFICES ASSUME NEW code, Exit(p, code)  PROVE FALSE
        OBVIOUS
      <4>1. q = p /\ proc'[p] = Idle(proc[p].job, code)
        BY <2>2 DEF Exit, SealInv, Shapes
      <4> QED  BY <1>4, <4>1 DEF Idle
    <3>2. /\ accepted' = IF ~result.overall_accept THEN accepted ELSE accepted \cup {new}
          /\ proc' = [proc EXCEPT ![p].pc = "create_evidence", ![p].result = result]
      <4> HIDE DEF result, new, registry
      <4>1. registry # None
        BY <3>1 DEF ReadRegistry, registry
      <4>2. /\ accepted' = IF ~result.overall_accept THEN accepted ELSE accepted \cup {new}
            /\ \/ job.evidence = Absent /\ Exit(p, ExitCode(result))
               \/ proc' = [proc EXCEPT ![p].pc = "create_evidence", ![p].result = result]
        BY <4>1 DEF ReadRegistry, registry, result, new
      <4> QED  BY <3>1, <4>2
    <3> HIDE DEF result
    <3>3. q = p /\ proc'[p].result = result
      BY <2>2, <3>2 DEF SealInv, Shapes, Fields
    <3>4. result.overall_accept
            => TellsOf(EvidenceOf(result, proc'[p].moment), new) /\ new \in accepted'
      BY <3>2, AcceptTells DEF result
    <3>5. EvidenceOf(result, proc'[p].moment).deterministic = result
      BY DEF EvidenceOf
    <3> HIDE DEF new
    <3> QED  BY <3>3, <3>4, <3>5 DEF Backed
  <2> QED  BY <2>1, <2>2
<1> QED  BY <1>3, <1>4 DEF BackedInv, At

LEMMA CreateEvidenceBacked ==
  ASSUME SealInv, BackedInv, NEW p \in Process, CreateEvidence(p)
  PROVE  BackedInv'
<1> DEFINE e == EvidenceOf(proc[p].result, proc[p].moment)
<1>1. /\ decided' = decided \cup {e} /\ UNCHANGED accepted
      /\ Backed(e, accepted)
      /\ proc' = [proc EXCEPT ![p].pc = "write_evidence"]
  BY DEF CreateEvidence, BackedInv
<1>2. \A q \in Process : q # p => proc'[q] = proc[q]
  BY <1>1, MoveOf
<1>3. proc'[p].pc = "write_evidence"
  BY <1>1, MoveOf
<1> HIDE DEF e
<1> QED  BY <1>1, <1>2, <1>3 DEF BackedInv, At

\* Any other step decides, accepts and is about to decide nothing new.
LEMMA BesideBacked ==
  ASSUME BackedInv, UNCHANGED <<decided, accepted>>,
         \A p \in Process :
           proc'[p] = proc[p] \/ proc'[p].pc # "create_evidence"
  PROVE  BackedInv'
<1>1. \A e \in decided' : Backed(e, accepted')
  BY DEF BackedInv, Backed
<1>2. ASSUME NEW p \in Process, proc'[p].pc = "create_evidence"
      PROVE  Backed(EvidenceOf(proc'[p].result, proc'[p].moment), accepted')
  <2>1. proc'[p] = proc[p]
    BY <1>2
  <2>2. Backed(EvidenceOf(proc[p].result, proc[p].moment), accepted)
    BY <1>2, <2>1 DEF BackedInv, At
  <2> QED  BY <2>1, <2>2
<1> QED  BY <1>1, <1>2 DEF BackedInv, At

LEMMA BackedStep == SealInv /\ BackedInv /\ [Next]_vars => BackedInv'
<1> SUFFICES ASSUME SealInv, BackedInv, [Next]_vars
             PROVE  BackedInv'
  OBVIOUS
<1>1. ASSUME NEW p \in Process, Start(p) \/ Step(p) \/ Crash(p)
      PROVE  BackedInv'
  <2>1. ASSUME NEW q \in Process, NEW job, NEW code, proc' = [proc EXCEPT ![p] = Idle(job, code)]
        PROVE  proc'[q] = proc[q] \/ proc'[q].pc # "create_evidence"
    BY <2>1 DEF SealInv, Shapes, Idle
  <2>2. ASSUME NEW q \in Process, NEW to, to # "create_evidence",
               proc' = [proc EXCEPT ![p].pc = to]
        PROVE  proc'[q] = proc[q] \/ proc'[q].pc # "create_evidence"
    BY <2>2, MoveOf
  <2>3. CASE Start(p)
    <3>1. PICK job \in Job : \E signer :
            proc' = [proc EXCEPT ![p] =
              [Idle(job, 0) EXCEPT !.pc = FirstStep(job.cmd), !.moment = starts + 1,
                                   !.signer = signer]]
      BY <2>3 DEF Start
    <3>2. FirstStep(job.cmd) # "create_evidence"
      BY JobAssumption DEF FirstStep
    <3>3. \A q \in Process : proc'[q] = proc[q] \/ proc'[q].pc = FirstStep(job.cmd)
      BY <3>1 DEF SealInv, Shapes, Idle
    <3> QED  BY <2>3, <3>2, <3>3, BesideBacked DEF Start
  <2>4. CASE Crash(p) \/ OpenFails(p) \/ WriteFails(p) \/ WriteProfile(p)
    <3>1. UNCHANGED <<decided, accepted>>
      BY <2>4 DEF Crash, OpenFails, WriteFails, WriteProfile, history
    <3>2. \E job, code : proc' = [proc EXCEPT ![p] = Idle(job, code)]
      BY <2>4 DEF Crash, OpenFails, WriteFails, WriteProfile, Exit
    <3> QED  BY <2>1, <3>1, <3>2, BesideBacked
  <2>5. CASE CreateProfile(p) \/ CreateSeal(p) \/ CreateRegistry(p)
    <3>1. UNCHANGED <<decided, accepted>>
      BY <2>5 DEF CreateProfile, CreateSeal, CreateRegistry, history
    <3>2. \E to : to # "create_evidence" /\ proc' = [proc EXCEPT ![p].pc = to]
      BY <2>5 DEF CreateProfile, CreateSeal, CreateRegistry
    <3> QED  BY <2>2, <3>1, <3>2, BesideBacked
  <2>6. CASE WriteSeal(p) \/ WriteRegistry(p) \/ WriteEvidence(p)
    <3>1. UNCHANGED <<decided, accepted>>
      BY <2>6 DEF WriteSeal, WriteRegistry, WriteEvidence, history
    <3>2. \/ \E job, code : proc' = [proc EXCEPT ![p] = Idle(job, code)]
          \/ \E to : to # "create_evidence" /\ proc' = [proc EXCEPT ![p].pc = to]
      BY <2>6 DEF WriteSeal, WriteRegistry, WriteEvidence, Done, Exit
    <3> QED  BY <2>1, <2>2, <3>1, <3>2, BesideBacked
  <2>7. CASE ReadProfile(p) \/ ReadSeal(p) \/ ReadFile(p) \/ ReadEvidence(p)
    <3>1. UNCHANGED <<decided, accepted>>
      BY <2>7 DEF ReadProfile, ReadSeal, ReadFile, ReadEvidence, history
    <3>2. \/ \E job, code : proc' = [proc EXCEPT ![p] = Idle(job, code)]
          \/ \E signer, to : to \in {"read_file", "read_evidence"} /\
                proc' = [proc EXCEPT ![p].signer = signer, ![p].pc = to]
          \/ \E bundle, to : to \in {"read_registry", "create_seal"} /\
                proc' = [proc EXCEPT ![p].pc = to, ![p].bundle = bundle]
          \/ \E data : proc' = [proc EXCEPT ![p].pc = "read_seal", ![p].data = data]
      BY <2>7 DEF ReadProfile, ReadSeal, ReadFile, ReadEvidence, SealBytes, Exit
    <3>3. \A q \in Process : proc'[q] = proc[q] \/ proc'[q].pc # "create_evidence"
      BY <2>1, <3>2 DEF SealInv, Shapes, Fields
    <3> QED  BY <3>1, <3>3, BesideBacked
  <2> QED  BY <1>1, <2>3, <2>4, <2>5, <2>6, <2>7, ReadRegistryBacked, CreateEvidenceBacked
           DEF Step
<1>2. CASE EditFile \/ EditRegistry \/ AlterSeal \/ AlterEvidence
  <2>1. UNCHANGED <<proc, decided, accepted>>
    BY <1>2 DEF EditFile, EditRegistry, AlterSeal, AlterEvidence, history
  <2> QED  BY <2>1, BesideBacked
<1>3. CASE UNCHANGED vars
  BY <1>3, BesideBacked DEF vars, history
<1> QED  BY <1>1, <1>2, <1>3 DEF Next

\* Any set of commands at once, killed at any step: what is attested is the half
\* of a record or a record verify-file decided, and one that says ACCEPT is of an
\* acceptance, provided that nobody gives evidence to seal-file: evidence is not
\* altered while a command runs, so what is read back to be sealed is what some
\* command wrote or has only begun to (cmd_verify_file, --attest-profile).
THEOREM AttestedIsDecided ==
  ASSUME NobodySealsEvidence
  PROVE  Spec => []AttestedWasDecided
<1>1. ASSUME FilesInv, BackedInv
      PROVE  AttestedWasDecided
  <2> SUFFICES ASSUME NEW s \in sealings, s.name \in Evidences, s.data # Garbled
               PROVE  /\ s.data \in decided
                      /\ s.data.deterministic.overall_accept
                           => \E a \in accepted : TellsOf(s.data, a)
    BY DEF AttestedWasDecided
  <2>1. s.data \in decided
    BY <1>1 DEF FilesInv, SealingsGood
  <2> QED  BY <1>1, <2>1 DEF BackedInv, Backed
<1> QED
  BY <1>1, SealInit, SealStep, FilesInit, FilesStep, BackedInit, BackedStep, PTL DEF Spec

-----------------------------------------------------------------------------
(* One command at a time, and no edits.                                      *)

OneAtATime == \A p, q \in Process : p = q

\* Who asks for a registry asks for all that leads to it.
RegistryAskedWhole ==
  \A job \in Job : job.registry_out # Absent =>
    /\ job.cmd \in {"seal-file", "verify-file"}
    /\ job.out \in Seals /\ job.registry_out \in Registries
    /\ job.cmd = "seal-file" => job.file \in Files
    /\ job.cmd = "verify-file" => job.evidence # Absent /\ job.profile # Absent

\* A seal and its registry are not taken for a missing or a broken file.
WholeIsReadable ==
  \A s : Readable(SealOf(s)) /\ Readable(RegistryFor(SealOf(s)))

Asked(job) == job # Absent /\ job.registry_out # Absent
SealedPath(job) == IF job.cmd = "seal-file" THEN job.file ELSE job.evidence
SealingSteps == {"create_seal", "write_seal", "create_registry", "write_registry"}

\* The sealing s is of what the file of job still is.
OfFile(s, job) == files[SealedPath(job)] = s.data /\ s.data # Absent

\* What a command holds and has written that is asked for a registry.
Proceeds(r) ==
  /\ r.pc = "idle" => r.job \in Job \cup {Absent}
  /\ r.pc \in {"create_profile", "write_profile"} => r.job.cmd = "init-sealer"
  /\ r.pc \in {"create_evidence", "write_evidence", "read_evidence"} => r.job.cmd # "seal-file"
  /\ Asked(r.job) =>
       /\ r.pc \in SealingSteps => \E s \in sealings : r.bundle = SealOf(s) /\ OfFile(s, r.job)
       /\ r.pc = "write_seal" => seals[r.job.out] = Garbled
       /\ r.pc \in {"create_registry", "write_registry"} => seals[r.job.out] = r.bundle
       /\ r.pc = "write_registry" => registries[r.job.registry_out] = Garbled
       /\ r.pc = "idle" /\ r.code # 2 =>
            \E s \in sealings : /\ OfFile(s, r.job)
                                /\ seals[r.job.out] = SealOf(s)
                                /\ registries[r.job.registry_out] = RegistryFor(SealOf(s))

AloneInv ==
  /\ DOMAIN registries = Registries
  /\ edits \in Nat
  /\ edits = 0 => \A p \in Process : Proceeds(proc[p])

\* A command that fails or is killed.
LEMMA GivesUp ==
  ASSUME SealInv, NEW p \in Process, proc[p].pc # "idle",
         Exit(p, 2) \/ proc' = [proc EXCEPT ![p] = Idle(Absent, 0)]
  PROVE  Proceeds(proc[p])'
<1>1. proc[p].job \in Job /\ DOMAIN proc = Process
  BY DEF SealInv, Shapes, Holds
<1>2. proc'[p] = Idle(proc[p].job, 2) \/ proc'[p] = Idle(Absent, 0)
  BY <1>1 DEF Exit
<1> QED  BY <1>1, <1>2 DEF Idle, Proceeds, Asked, SealingSteps

\* A step to a label before the sealing.
LEMMA ToEarly ==
  ASSUME NEW p \in Process,
         proc'[p].pc \in {"write_profile", "read_profile", "read_file", "read_evidence",
                          "read_seal", "read_registry", "create_evidence", "write_evidence"},
         proc'[p].pc = "write_profile" => proc'[p].job.cmd = "init-sealer",
         proc'[p].pc \in {"create_evidence", "write_evidence", "read_evidence"}
           => proc'[p].job.cmd # "seal-file"
  PROVE  Proceeds(proc[p])'
BY DEF Proceeds, SealingSteps

LEMMA StartProceeds ==
  ASSUME SealInv, NEW p \in Process, Start(p)
  PROVE  Proceeds(proc[p])'
<1>1. PICK job \in Job : \E signer \in FreshSigner(job) :
        proc' = [proc EXCEPT ![p] =
                  [Idle(job, 0) EXCEPT !.pc = FirstStep(job.cmd),
                                       !.moment = starts + 1, !.signer = signer]]
  BY DEF Start
<1>2. PICK signer : proc'[p] = [Idle(job, 0) EXCEPT !.pc = FirstStep(job.cmd),
                                                    !.moment = starts + 1, !.signer = signer]
  BY <1>1 DEF SealInv, Shapes
<1>3. proc'[p].pc = FirstStep(job.cmd) /\ proc'[p].job = job
  BY <1>2 DEF Idle
<1>4. job.cmd \in {"init-sealer", "seal-file", "verify-file"}
  BY JobAssumption
<1> QED  BY <1>3, <1>4 DEF FirstStep, Proceeds, SealingSteps

\* Before anything is sealed: profiles, what is read, evidence.
LEMMA EarlyProceeds ==
  ASSUME SealInv, RegistryAskedWhole, NEW p \in Process, Proceeds(proc[p]),
         \/ CreateProfile(p) \/ WriteProfile(p) \/ ReadProfile(p) \/ ReadSeal(p)
         \/ ReadRegistry(p) \/ CreateEvidence(p) \/ WriteEvidence(p)
  PROVE  Proceeds(proc[p])'
<1> DEFINE x == proc[p]
           y == proc'[p]
<1>0. /\ DOMAIN proc = Process /\ DOMAIN x = Fields /\ Holds(x, sealings)
  BY SMTT(30) DEF SealInv, Shapes
<1>1. x.pc # "idle" /\ x.job \in Job
  BY <1>0 DEF Holds, CreateProfile, WriteProfile, ReadProfile, ReadSeal, ReadRegistry,
              CreateEvidence, WriteEvidence, At
<1>2. ASSUME Exit(p, 2)  PROVE Proceeds(proc[p])'
  BY <1>1, <1>2, GivesUp
<1>3. ASSUME NEW code, Exit(p, code), ~Asked(x.job)  PROVE Proceeds(proc[p])'
  <2>1. y = Idle(x.job, code)
    BY <1>0, <1>3 DEF Exit
  <2> QED  BY <1>1, <1>3, <2>1 DEF Idle, Proceeds, SealingSteps
<1>4. CASE CreateProfile(p)
  <2>1. y.pc = "write_profile" /\ y.job = x.job /\ x.pc = "create_profile"
    BY <1>4, MoveOf DEF CreateProfile, At
  <2> QED  BY <2>1, ToEarly DEF Proceeds
<1>5. CASE WriteProfile(p)
  <2>1. Exit(p, 0) /\ x.job.cmd = "init-sealer"
    BY <1>5 DEF WriteProfile, Proceeds, At
  <2>2. ~Asked(x.job)
    BY <1>1, <2>1 DEF RegistryAskedWhole, Asked
  <2> QED  BY <1>3, <2>1, <2>2
<1>6. CASE ReadProfile(p)
  <2>1. CASE Exit(p, 2)
    BY <1>2, <2>1
  <2>2. CASE ~Exit(p, 2)
    <3> DEFINE to == IF x.job.cmd = "seal-file" THEN "read_file" ELSE "read_evidence"
    <3>1. PICK found : proc' = [proc EXCEPT ![p].signer = found, ![p].pc = to]
      BY <1>6, <2>2 DEF ReadProfile
    <3> HIDE DEF to
    <3>2. y.pc = to /\ y.job = x.job
      BY <1>0, <3>1 DEF Fields
    <3> QED  BY <3>2, ToEarly DEF to
  <2> QED  BY <2>1, <2>2
<1>7. CASE ReadSeal(p)
  <2>1. CASE Exit(p, 2)
    BY <1>2, <2>1
  <2>2. CASE ~Exit(p, 2)
    <3>1. PICK found : proc' = [proc EXCEPT ![p].pc = "read_registry", ![p].bundle = found]
      BY <1>7, <2>2 DEF ReadSeal
    <3>2. y.pc = "read_registry"
      BY <1>0, <3>1 DEF Fields
    <3> QED  BY <3>2, ToEarly
  <2> QED  BY <2>1, <2>2
<1>8. CASE ReadRegistry(p)
  <2>1. x.job.cmd = "verify-file"
    BY <1>0, <1>8 DEF ReadRegistry, At, Holds
  <2>2. CASE Exit(p, 2)
    BY <1>2, <2>2
  <2>3. CASE ~Exit(p, 2)
    <3>1. \E result :
            IF x.job.evidence = Absent THEN Exit(p, ExitCode(result))
            ELSE proc' = [proc EXCEPT ![p].pc = "create_evidence", ![p].result = result]
      BY <1>8, <2>3 DEF ReadRegistry
    <3>2. PICK result :
            IF x.job.evidence = Absent THEN Exit(p, ExitCode(result))
            ELSE proc' = [proc EXCEPT ![p].pc = "create_evidence", ![p].result = result]
      BY <3>1
    <3>3. CASE x.job.evidence = Absent
      BY <1>1, <1>3, <2>1, <3>2, <3>3 DEF RegistryAskedWhole, Asked
    <3>4. CASE x.job.evidence # Absent
      <4>1. y.pc = "create_evidence" /\ y.job = x.job
        BY <1>0, <3>2, <3>4 DEF Fields
      <4> QED  BY <2>1, <4>1, ToEarly
    <3> QED  BY <3>3, <3>4, Zenon
  <2> QED  BY <2>2, <2>3
<1>9. CASE CreateEvidence(p)
  <2>1. y.pc = "write_evidence" /\ y.job = x.job /\ x.pc = "create_evidence"
    BY <1>9, MoveOf DEF CreateEvidence, At
  <2> QED  BY <2>1, ToEarly DEF Proceeds
<1>10. CASE WriteEvidence(p)
  <2>1. x.job.cmd # "seal-file"
    BY <1>10 DEF WriteEvidence, Proceeds, At
  <2>2. CASE x.job.profile = Absent
    <3>1. \E code : Exit(p, code)
      BY <1>10, <2>2 DEF WriteEvidence
    <3>2. ~Asked(x.job)
      BY <1>1, <2>1, <2>2 DEF RegistryAskedWhole, Asked
    <3> QED  BY <1>3, <3>1, <3>2
  <2>3. CASE x.job.profile # Absent
    <3>1. y.pc = "read_profile"
      BY <1>10, <2>3, MoveOf DEF WriteEvidence
    <3> QED  BY <3>1, ToEarly
  <2> QED  BY <2>2, <2>3
<1> QED  BY <1>4, <1>5, <1>6, <1>7, <1>8, <1>9, <1>10

\* What is sealed is the file as it is.
LEMMA ReadingProceeds ==
  ASSUME SealInv, FilesInv, RegistryAskedWhole, NEW p \in Process, Proceeds(proc[p]),
         ReadFile(p) \/ ReadEvidence(p)
  PROVE  Proceeds(proc[p])'
<1> DEFINE x == proc[p]
           y == proc'[p]
<1>0. /\ DOMAIN proc = Process /\ DOMAIN x = Fields /\ Holds(x, sealings)
  BY DEF SealInv, Shapes
<1>1. x.pc \in {"read_file", "read_evidence"} /\ x.job \in Job
  BY <1>0 DEF Holds, ReadFile, ReadEvidence, At
<1>2. UNCHANGED files
  BY DEF ReadFile, ReadEvidence, disk
<1>3. ASSUME NEW path, files[path] # Absent, SealBytes(p, path, files[path]),
             path = SealedPath(x.job)
      PROVE  Proceeds(proc[p])'
  <2> DEFINE s == [name |-> path, data |-> files[path],
                   content_type |-> x.job.content_type, signer |-> x.signer]
  <2>1. s \in sealings' /\ SealOf(s) = SealFile(path, files[path], x.job.content_type, x.signer)
    BY <1>3 DEF SealBytes, SealOf
  <2>2. proc' = [proc EXCEPT ![p].pc = "create_seal", ![p].bundle = SealOf(s)]
    BY <1>3, <2>1 DEF SealBytes
  <2>3. s.data = files[path]
    OBVIOUS
  <2> HIDE DEF s
  <2>4. y.pc = "create_seal" /\ y.bundle = SealOf(s) /\ y.job = x.job
    BY <1>0, <2>2 DEF Fields
  <2>5. files'[SealedPath(x.job)] = s.data /\ s.data # Absent
    BY <1>2, <1>3, <2>3
  <2>6. /\ y.pc = "create_seal" /\ y.job = x.job
        /\ \E t \in sealings' : /\ y.bundle = SealOf(t)
                               /\ files'[SealedPath(x.job)] = t.data /\ t.data # Absent
    BY <2>1, <2>4, <2>5
  <2> QED  BY <2>6 DEF Proceeds, SealingSteps, OfFile
<1>4. ASSUME Exit(p, 2)  PROVE Proceeds(proc[p])'
  BY <1>1, <1>4, GivesUp
<1>5. CASE ReadFile(p)
  <2>1. CASE files[x.job.file] = Absent
    BY <1>4, <1>5, <2>1 DEF ReadFile
  <2>2. CASE files[x.job.file] # Absent /\ x.job.cmd = "seal-file"
    BY <1>3, <1>5, <2>2 DEF ReadFile, SealedPath
  <2>3. CASE files[x.job.file] # Absent /\ x.job.cmd # "seal-file"
    <3>1. PICK data : proc' = [proc EXCEPT ![p].pc = "read_seal", ![p].data = data]
      BY <1>5, <2>3 DEF ReadFile
    <3>2. y.pc = "read_seal"
      BY <1>0, <3>1 DEF Fields
    <3> QED  BY <3>2, ToEarly
  <2> QED  BY <2>1, <2>2, <2>3
<1>6. CASE ReadEvidence(p)
  <2>1. x.job.cmd # "seal-file"
    BY <1>6 DEF ReadEvidence, Proceeds, At
  <2>2. CASE files[x.job.evidence] = Absent
    BY <1>4, <1>6, <2>2 DEF ReadEvidence
  <2>3. CASE files[x.job.evidence] # Absent
    BY <1>3, <1>6, <2>1, <2>3 DEF ReadEvidence, SealedPath
  <2> QED  BY <2>2, <2>3
<1> QED  BY <1>5, <1>6

\* The seal and the registry are written, and nobody writes between.
LEMMA WritingProceeds ==
  ASSUME SealInv, RegistryAskedWhole, DOMAIN registries = Registries,
         NEW p \in Process, Proceeds(proc[p]),
         CreateSeal(p) \/ WriteSeal(p) \/ CreateRegistry(p) \/ WriteRegistry(p)
  PROVE  Proceeds(proc[p])'
<1> DEFINE x == proc[p]
           y == proc'[p]
           job == x.job
<1>0. /\ DOMAIN proc = Process /\ DOMAIN x = Fields /\ DOMAIN seals = Seals
      /\ x.pc \in SealingSteps /\ job \in Job
  BY DEF SealInv, Shapes, Holds, CreateSeal, WriteSeal, CreateRegistry, WriteRegistry, At,
         SealingSteps
<1>1. UNCHANGED <<files, sealings>>
  BY DEF CreateSeal, WriteSeal, CreateRegistry, WriteRegistry, history
<1>2. ASSUME ~Asked(job), y.job = job, y.pc \in SealingSteps
      PROVE  Proceeds(proc[p])'
  BY <1>2 DEF Proceeds, SealingSteps
<1>3. ASSUME ~Asked(job), NEW code, Exit(p, code)
      PROVE  Proceeds(proc[p])'
  <2>1. y = Idle(job, code)
    BY <1>0, <1>3 DEF Exit
  <2> QED  BY <1>0, <1>3, <2>1 DEF Idle, Proceeds, SealingSteps
<1>4. Done(p) => \E code : Exit(p, code)
  BY DEF Done
<1>5. CASE ~Asked(job)
  <2>1. ASSUME NEW to, proc' = [proc EXCEPT ![p].pc = to]
        PROVE  y.job = job /\ y.pc = to
    BY <2>1, MoveOf
  <2>2. \/ \E code : Exit(p, code)
        \/ \E to \in SealingSteps : proc' = [proc EXCEPT ![p].pc = to]
    BY <1>4 DEF CreateSeal, WriteSeal, CreateRegistry, WriteRegistry, SealingSteps
  <2> QED  BY <1>2, <1>3, <1>5, <2>1, <2>2
<1>6. CASE Asked(job)
  <2>1. job.out \in Seals /\ job.registry_out \in Registries
        /\ job.cmd \in {"seal-file", "verify-file"}
    BY <1>0, <1>6 DEF RegistryAskedWhole, Asked
  <2>2. PICK s \in sealings : x.bundle = SealOf(s) /\ OfFile(s, job)
    BY <1>0, <1>6 DEF Proceeds
  <2>3. s \in sealings' /\ files'[SealedPath(job)] = s.data /\ s.data # Absent
    BY <1>1, <2>2 DEF OfFile
  <2>4. CASE CreateSeal(p)
    <3>1. /\ y.pc = "write_seal" /\ y.job = job /\ y.bundle = x.bundle
          /\ seals'[job.out] = Garbled
      BY <1>0, <2>1, <2>4, MoveOf DEF CreateSeal
    <3> QED  BY <2>2, <2>3, <3>1 DEF Proceeds, SealingSteps, OfFile
  <2>5. CASE WriteSeal(p)
    <3>1. seals[job.out] = Garbled
      BY <1>6, <2>5 DEF WriteSeal, At, Proceeds
    <3>2. seals' = [seals EXCEPT ![job.out] = x.bundle]
      BY <2>5, <3>1 DEF WriteSeal, Outcomes
    <3>3. y.pc = "create_registry" /\ y.job = job /\ y.bundle = x.bundle
      BY <1>6, <2>5, MoveOf DEF WriteSeal, Asked
    <3>4. seals'[job.out] = x.bundle
      BY <1>0, <2>1, <3>2
    <3> QED  BY <2>2, <2>3, <3>3, <3>4 DEF Proceeds, SealingSteps, OfFile
  <2>6. CASE CreateRegistry(p)
    <3>1. seals[job.out] = x.bundle /\ UNCHANGED seals
      BY <1>6, <2>6 DEF CreateRegistry, At, Proceeds
    <3>2. /\ y.pc = "write_registry" /\ y.job = job /\ y.bundle = x.bundle
          /\ registries'[job.registry_out] = Garbled
      BY <2>1, <2>6, MoveOf DEF CreateRegistry
    <3> QED  BY <2>2, <2>3, <3>1, <3>2 DEF Proceeds, SealingSteps, OfFile
  <2>7. CASE WriteRegistry(p)
    <3>1. /\ seals[job.out] = x.bundle /\ UNCHANGED seals
          /\ registries[job.registry_out] = Garbled
      BY <1>6, <2>7 DEF WriteRegistry, At, Proceeds
    <3>2. registries' = [registries EXCEPT ![job.registry_out] = RegistryFor(x.bundle)]
      BY <2>7, <3>1 DEF WriteRegistry, Outcomes
    <3>3. registries'[job.registry_out] = RegistryFor(SealOf(s))
      BY <2>1, <2>2, <3>2
    <3>4. PICK code : y = Idle(job, code)
      BY <1>0, <2>7 DEF WriteRegistry, Done, Exit
    <3>5. y.pc = "idle" /\ y.job = job
      BY <3>4 DEF Idle
    <3>6. seals'[job.out] = SealOf(s)
      BY <2>2, <3>1
    <3>7. \E t \in sealings' : /\ files'[SealedPath(job)] = t.data /\ t.data # Absent
                               /\ seals'[job.out] = SealOf(t)
                               /\ registries'[job.registry_out] = RegistryFor(SealOf(t))
      BY <2>3, <3>3, <3>6
    <3> QED  BY <1>0, <3>5, <3>7 DEF Proceeds, SealingSteps, OfFile
  <2> QED  BY <2>4, <2>5, <2>6, <2>7
<1> QED  BY <1>5, <1>6

LEMMA AloneInit == Init => AloneInv
BY DEF Init, AloneInv, Proceeds, Asked, SealingSteps, Idle

LEMMA AloneStep ==
  ASSUME OneAtATime, RegistryAskedWhole, SealInv, FilesInv, AloneInv, [Next]_vars
  PROVE  AloneInv'
<1>1. CASE UNCHANGED vars
  <2>1. UNCHANGED <<files, seals, registries, proc, edits, sealings>>
    BY <1>1 DEF vars, disk, history
  <2> QED  BY <2>1 DEF AloneInv, Proceeds, OfFile
<1>2. CASE EditFile \/ EditRegistry \/ AlterSeal \/ AlterEvidence
  <2>1. edits' = edits + 1 /\ edits \in Nat
    BY <1>2 DEF EditFile, EditRegistry, AlterSeal, AlterEvidence, AloneInv
  <2>2. DOMAIN registries' = Registries
    BY <1>2 DEF EditFile, EditRegistry, AlterSeal, AlterEvidence, AloneInv
  <2> QED  BY <2>1, <2>2 DEF AloneInv
<1>3. ASSUME NEW p \in Process, Start(p) \/ Step(p) \/ Crash(p)
      PROVE  AloneInv'
  <2>1. UNCHANGED edits /\ DOMAIN registries' = Registries
    BY <1>3 DEF AloneInv, Start, Step, Crash, OpenFails, WriteFails, CreateProfile,
       WriteProfile, ReadProfile, ReadFile, ReadEvidence, CreateSeal, WriteSeal, CreateRegistry,
       WriteRegistry, ReadSeal, ReadRegistry, CreateEvidence, WriteEvidence, disk
  <2>2. ASSUME edits = 0  PROVE Proceeds(proc[p])'
    <3>1. Proceeds(proc[p]) /\ DOMAIN registries = Registries
      BY <2>2 DEF AloneInv
    <3>2. CASE Start(p)
      BY <3>2, StartProceeds
    <3>3. CASE Crash(p) \/ OpenFails(p) \/ WriteFails(p)
      <4>1. proc[p].pc # "idle"
        BY <3>3 DEF Crash, OpenFails, WriteFails, At
      <4>2. Exit(p, 2) \/ proc' = [proc EXCEPT ![p] = Idle(Absent, 0)]
        BY <3>3 DEF Crash, OpenFails, WriteFails
      <4> QED  BY <4>1, <4>2, GivesUp
    <3> QED  BY <1>3, <3>1, <3>2, <3>3, EarlyProceeds, ReadingProceeds, WritingProceeds DEF Step
  <2>3. \A q \in Process : q = p
    BY DEF OneAtATime
  <2> QED  BY <2>1, <2>2, <2>3 DEF AloneInv
<1> QED  BY <1>1, <1>2, <1>3 DEF Next

\* The registry written next to a seal grants its signer.
LEMMA OwnRegistryGrants ==
  ASSUME NEW s
  PROVE  Grants(RegistryFor(SealOf(s)), SealOf(s).frame.te)
<1> DEFINE b == SealOf(s)
           r == RegistryFor(b)
<1>1. /\ b.frame.te = BuildTE(s.signer)
      /\ b.frame.mu_pre.device_id32 = DeviceId32(b.frame.te.device_id16)
      /\ b.frame.mu_pre.epoch = b.frame.te.epoch
      /\ b.frame.mu_pre.pk_hash = Shake256(b.frame.te)
  BY DEF SealOf, SealFile, PackFrameV2, BuildMuPre, BuildTE
<1>2. /\ Len(r.entries) = 1 /\ DOMAIN r.entries = {1}
      /\ r.entries[1] = [device_id16 |-> b.frame.te.device_id16,
                         device_id32 |-> b.frame.mu_pre.device_id32,
                         authorized_te_hashes |-> {b.frame.mu_pre.pk_hash},
                         current_epoch |-> b.frame.mu_pre.epoch, revoked |-> FALSE,
                         frozen |-> FALSE, recovery_hold |-> FALSE]
  BY DEF RegistryFor, FactsOf
<1> HIDE DEF b, r
<1>3. NoDeviceTwice(r.entries)
  BY <1>2 DEF NoDeviceTwice
<1>4. Grants(r, b.frame.te)
  BY <1>1, <1>2, <1>3 DEF Grants
<1> QED  BY <1>4 DEF b, r

\* RoundTrip: with one command at a time and no edits, what a command sealed and
\* wrote a registry for is accepted (cmd_seal_file --registry-out,
\* cmd_verify_file --attest-registry-out).
THEOREM SealsGoThrough ==
  ASSUME OqsBackend = TRUE, EngineUp = TRUE,
         GarbledIsNoSignature, GarbledIsNoFrame, GarbledIsNoHash,
         OneAtATime, RegistryAskedWhole, WholeIsReadable
  PROVE  Spec => []RoundTrip
<1>1. ASSUME AcceptsExactly, FilesInv, AloneInv
      PROVE  RoundTrip
  <2> SUFFICES ASSUME NEW p \in Process, At(p, "idle"), edits = 0, proc[p].job # Absent,
                      proc[p].job.registry_out # Absent, proc[p].code # 2
               PROVE  LET job == proc[p].job
                      IN  /\ Readable(seals[job.out]) /\ Readable(registries[job.registry_out])
                          /\ VerifySealed(seals[job.out], files[SealedPath(job)],
                                          registries[job.registry_out]).overall_accept
    BY DEF RoundTrip, SealedPath
  <2> DEFINE job == proc[p].job
             path == SealedPath(job)
  <2>1. PICK s \in sealings :
          /\ OfFile(s, job) /\ seals[job.out] = SealOf(s)
          /\ registries[job.registry_out] = RegistryFor(SealOf(s))
    BY <1>1 DEF AloneInv, Proceeds, Asked, At
  <2>2. job \in Job
    BY <1>1 DEF AloneInv, Proceeds, At
  <2>3. /\ job.out \in Seals /\ job.registry_out \in Registries
        /\ job.cmd = "seal-file" => job.file \in Files
        /\ job.cmd # "seal-file" => job.evidence \in Files
    BY <2>2, PathsAssumption DEF RegistryAskedWhole, Files
  <2> DEFINE b == SealOf(s)
             r == RegistryFor(b)
  <2>4. Readable(b) /\ Readable(r)
    BY DEF WholeIsReadable
  <2>5. b \in Bundles /\ r \in Readables
    BY <2>1, <2>3, <2>4 DEF Bundles, Readables
  <2>6. path \in Files /\ files[path] = s.data /\ s.data # Absent
    BY <2>1, <2>3 DEF OfFile, SealedPath
  <2>7. s.data \in Contents
    BY <2>6 DEF Contents
  <2>8. s \in SealedAs(b)
    BY DEF SealedAs
  <2>9. Grants(r, b.frame.te)
    BY OwnRegistryGrants
  <2> HIDE DEF b, r
  <2>10. VerifySealed(b, s.data, r).overall_accept
    BY <1>1, <2>5, <2>7, <2>8, <2>9 DEF AcceptsExactly
  <2> QED  BY <2>1, <2>4, <2>6, <2>10 DEF b, r
<1>2. Spec => []AcceptsExactly
  BY AcceptedExactlyIfWhole
<1> QED  BY <1>1, <1>2, SealInit, SealStep, FilesInit, FilesStep, AloneInit, AloneStep, PTL
         DEF Spec
-----------------------------------------------------------------------------
(* What the evidence of a verification commits to.                           *)

\* Manifests with the same canonical form declare the same file.
LEMMA SameBytesSameDeclared ==
  ASSUME NEW m1, NEW m2, IsManifest(m1), IsManifest(m2),
         ManifestBytes(m1) = ManifestBytes(m2)
  PROVE  /\ ManifestHash(m1) = ManifestHash(m2)
         /\ DeclaredHash(m1) = DeclaredHash(m2)
<1>1. \A m : IsManifest(m) => /\ ManifestBytes(m).digest_algorithm = m.digest_algorithm
                              /\ ManifestBytes(m).file_hash = m.file_hash
  BY DEF IsManifest, ManifestBytes
<1>2. m1.digest_algorithm = m2.digest_algorithm /\ m1.file_hash = m2.file_hash
  BY <1>1
<1> QED  BY <1>2 DEF ManifestHash, DeclaredHash

\* Two verifications were of one thing: the same bytes, the same frame and the
\* same registry in whatever order; and, if the frame verifies, the same
\* manifest but for no content type and an empty one. The manifest of a frame
\* that does not verify is not looked at (verify.rs:96-120).
SameVerification(b1, data1, reg1, b2, data2, reg2) ==
  /\ data1 = data2 /\ b1.frame = b2.frame
  /\ SnapshotHash(reg1) = SnapshotHash(reg2)
  /\ VerifyFrameV2(b1.frame) = "Ok" => ManifestBytes(b1.manifest) = ManifestBytes(b2.manifest)

\* One evidence digest stands for one verification, wherever and whenever it was
\* made: equal digests are of the same file, frame, registry and manifest, and
\* verifying those again gives the same digest, also from a registry file with
\* its entries in another order (evidence.rs:8-16, a pure function of bundle,
\* bytes and snapshot).
THEOREM DigestStandsForVerification ==
  ASSUME NEW b1, IsManifest(b1.manifest), NEW data1, NEW moment1,
         NEW reg1, IsRegistry(reg1), FromJson(reg1) # None,
         NEW b2, IsManifest(b2.manifest), NEW data2, NEW moment2,
         NEW reg2, IsRegistry(reg2), FromJson(reg2) # None
  PROVE  EvidenceOf(VerifySealed(b1, data1, reg1), moment1).evidence_digest
           = EvidenceOf(VerifySealed(b2, data2, reg2), moment2).evidence_digest
         <=> SameVerification(b1, data1, reg1, b2, data2, reg2)
<1> DEFINE v1 == VerifySealed(b1, data1, reg1)
           v2 == VerifySealed(b2, data2, reg2)
<1>1. EvidenceOf(v1, moment1).evidence_digest = EvidenceOf(v2, moment2).evidence_digest
        <=> v1 = v2
  <2> HIDE DEF v1, v2
  <2> QED  BY DEF EvidenceOf, Sha3
<1>2. \A b, data, reg :
        LET v == VerifySealed(b, data, reg)
        IN  /\ v.file_hash = Sha3(data)
            /\ v.combined.frame_hash = Sha3(b.frame)
            /\ v.combined.r2.snapshot_hash = SnapshotHash(reg)
            /\ VerifyFrameV2(b.frame) = "Ok" => v.manifest_hash = Some(ManifestHash(b.manifest))
  <2> SUFFICES ASSUME NEW b, NEW data, NEW reg
               PROVE  LET v == VerifySealed(b, data, reg)
                      IN  /\ v.file_hash = Sha3(data)
                          /\ v.combined.frame_hash = Sha3(b.frame)
                          /\ v.combined.r2.snapshot_hash = SnapshotHash(reg)
                          /\ VerifyFrameV2(b.frame) = "Ok"
                               => v.manifest_hash = Some(ManifestHash(b.manifest))
    OBVIOUS
  <2> DEFINE c == VerifyAndAuthorize(b.frame, reg)
  <2>1. /\ c.verify_error = VerifyFrameV2(b.frame)
        /\ c.frame_hash = Sha3(b.frame)
        /\ c.r2 = Authorize(Stage1(b.frame), reg)
    BY DEF VerifyAndAuthorize
  <2>2. c.r2.snapshot_hash = SnapshotHash(reg)
    BY <2>1 DEF Authorize, Evaluated, NotEvaluated
  <2> HIDE DEF c
  <2> QED  BY <2>1, <2>2 DEF VerifySealed, c
<1>3. ASSUME v1 = v2
      PROVE  SameVerification(b1, data1, reg1, b2, data2, reg2)
  <2> HIDE DEF v1, v2
  <2>1. data1 = data2 /\ b1.frame = b2.frame
    BY <1>2, <1>3 DEF v1, v2, Sha3
  <2>2. SnapshotHash(reg1) = SnapshotHash(reg2)
    BY <1>2, <1>3 DEF v1, v2
  <2>3. ASSUME VerifyFrameV2(b1.frame) = "Ok"
        PROVE  ManifestBytes(b1.manifest) = ManifestBytes(b2.manifest)
    <3>1. Some(ManifestHash(b1.manifest)) = Some(ManifestHash(b2.manifest))
      BY <1>2, <1>3, <2>1, <2>3 DEF v1, v2
    <3> QED  BY <3>1 DEF Some, ManifestHash, Sha3
  <2> QED  BY <2>1, <2>2, <2>3 DEF SameVerification
<1>4. ASSUME SameVerification(b1, data1, reg1, b2, data2, reg2)
      PROVE  v1 = v2
  <2>1. data1 = data2 /\ b1.frame = b2.frame /\ SnapshotHash(reg1) = SnapshotHash(reg2)
    BY <1>4 DEF SameVerification
  <2>2. DOMAIN reg1.entries \subseteq Nat /\ DOMAIN reg2.entries \subseteq Nat
    BY DEF IsRegistry
  <2>3. VerifyAndAuthorize(b1.frame, reg1) = VerifyAndAuthorize(b2.frame, reg2)
    <3>1. Authorize(Stage1(b1.frame), reg1) = Authorize(Stage1(b1.frame), reg2)
      BY <2>1, <2>2, SnapshotDecides
    <3> QED  BY <2>1, <3>1 DEF VerifyAndAuthorize
  <2>4. VerifyAndAuthorize(b1.frame, reg1).verify_error = VerifyFrameV2(b1.frame)
    BY DEF VerifyAndAuthorize
  <2>5. CASE VerifyFrameV2(b1.frame) = "Ok"
    <3>1. ManifestHash(b1.manifest) = ManifestHash(b2.manifest)
          /\ DeclaredHash(b1.manifest) = DeclaredHash(b2.manifest)
      BY <1>4, <2>5, SameBytesSameDeclared DEF SameVerification
    <3>2. Unchanged(b1, data1) = Unchanged(b2, data2)
      BY <2>1, <3>1, Zenon DEF Unchanged
    <3> QED  BY <2>1, <2>3, <3>1, <3>2, Zenon DEF VerifySealed
  <2>6. CASE VerifyFrameV2(b1.frame) # "Ok"
    BY <2>1, <2>3, <2>4, <2>6 DEF VerifySealed
  <2> QED  BY <2>5, <2>6
<1> QED  BY <1>1, <1>3, <1>4
=============================================================================

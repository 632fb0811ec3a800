----------------------------- MODULE MCFileSeal -----------------------------
(* Instances of FileSeal for TLC: the command lines that are given.  Two     *)
(* sealers a and b with a profile, a seal and a registry each, one document, *)
(* and one evidence file that the second of them attests.                    *)
EXTENDS FileSeal, TLC

CONSTANTS p1, p2, profileA, profileB, doc, evidence, sealA, sealB, regA, regB

NoArgs ==
  [cmd |-> "", file |-> Absent, profile |-> Absent, seal |-> Absent,
   registry |-> Absent, evidence |-> Absent, out |-> Absent,
   registry_out |-> Absent, content_type |-> None, epoch |-> 1]

InitSealer(profile) == [NoArgs EXCEPT !.cmd = "init-sealer", !.profile = profile]

Sealing(profile, out, reg, type) ==
  [NoArgs EXCEPT !.cmd = "seal-file", !.file = doc, !.profile = profile, !.out = out,
                 !.registry_out = reg, !.content_type = type]

Verifying(file, seal, reg) ==
  [NoArgs EXCEPT !.cmd = "verify-file", !.file = file, !.seal = seal, !.registry = reg]

\* Verifying with an attestation of the evidence.
Attesting(profile, file, seal, reg) ==
  [Verifying(file, seal, reg) EXCEPT
     !.evidence = evidence, !.profile = profile, !.out = sealB,
     !.registry_out = regB, !.content_type = Some(Mime)]

\* One seals, the other attests what was decided; somebody checks that.
Jobs ==
  {InitSealer(profileA), InitSealer(profileB), Sealing(profileA, sealA, regA, None),
   Attesting(profileB, doc, sealA, regA), Verifying(evidence, sealB, regB)}

\* One sealer does it all, so that two attest the one evidence file at once.
RaceJobs ==
  {InitSealer(profileA), Sealing(profileA, sealA, regA, None),
   Attesting(profileA, doc, sealA, regA), Verifying(evidence, sealB, regB)}

\* Processes, contents, keys and devices are told apart by nothing.
Symm ==
  UNION {Permutations(Process), Permutations(Data), Permutations(Key), Permutations(DeviceId16)}

=============================================================================

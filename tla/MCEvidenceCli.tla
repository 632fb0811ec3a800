--------------------------- MODULE MCEvidenceCli ----------------------------
(* EvidenceCli for TLC: a frame that is accepted and its tampered form.      *)
EXTENDS EvidenceCli, TLC

CONSTANTS f1, f2, sample, tampered

MCFrame == {f1, f2}
MCTime == 1..MaxStarts
MCVerdict == (f1 :> "Ok") @@ (f2 :> "SigInvalid")
MCGenerated == {f1}
MCFlip == (f1 :> f2) @@ (f2 :> f1)

JobOf(cmd, in, out) == [cmd |-> cmd, in |-> in, out |-> out]

\* The commands of the demo, on any of the files: tamper in place and into
\* the other one; verify-frame where verify stands too.
DemoJobs ==
  {JobOf("gen", Absent, sample), JobOf("tamper", sample, tampered),
   JobOf("tamper", tampered, tampered), JobOf("replay", Absent, Absent),
   JobOf("export", Absent, Absent), JobOf("verify-frame", tampered, Absent)}
  \cup {JobOf(cmd, in, Absent) : cmd \in {"verify", "replay"}, in \in Path}
NoFrames == [q \in Path |-> IF q = tampered THEN BadFile ELSE Absent]

\* The commands that share the logs, on frames that are there; one of them may
\* be tampered with in place meanwhile.
LogJobs ==
  {JobOf("export", Absent, Absent), JobOf("tamper", sample, sample)}
  \cup {JobOf(cmd, in, Absent) : cmd \in {"verify", "replay"}, in \in Path}
TwoFrames == (sample :> f1) @@ (tampered :> f2)

Symmetry == Permutations(Process)
=============================================================================

---------------------------- MODULE MCPythonCli -----------------------------
(* PythonCli for TLC: one file, at first absent or with a frame whose epochs *)
(* agree, or differ.                                                         *)
EXTENDS PythonCli, TLC

CONSTANT file

MCFrameOf(epoch) ==
  LET te == [key |-> 1, epoch |-> 1, device_id16 |-> 1]
      muPre == [pk_hash |-> Shake256(te), domain_sep |-> DOMAIN_SEP,
                version |-> MU_PRE_VERSION_VAL,
                device_id32 |-> DeviceId32(te.device_id16), epoch |-> epoch,
                ctx_hash |-> <<>>, rest |-> ZeroRest]
  IN  PackFrameV2(muPre, te, Sign(te.key, Mu(muPre)))

MCGiven == {file :> Absent} \cup {file :> MCFrameOf(epoch) : epoch \in {1, 2}}

Symmetry == Permutations(Process)
=============================================================================

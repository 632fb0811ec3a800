----------------------------- MODULE MCAndnaFfi -----------------------------
(* AndnaFfi for TLC: two frames, one accepted and one refused.               *)
EXTENDS AndnaFfi, TLC

CONSTANTS f1, f2

MCFrame == {f1, f2}
MCTime == {0}
MCVerdict == f1 :> "Ok" @@ f2 :> "SigInvalid"
MCFrame1 == {f1}
MCVerdict1 == f1 :> "Ok"
MCAllOps == {"andna_verify_vnext", "andna_parse_mu_pre_header", "andna_gen_test_frame"}
MCNoOps == {}

Symmetry == Permutations(Thread)
=============================================================================

---------------------------- MODULE MCAuditSink -----------------------------
(* AuditSink for TLC: inputs with a frame, with an injected hash and a       *)
(* reserved flag, and with neither frame nor hash.                           *)
EXTENDS AuditSink

MCTime == {0, 1}

MCInput ==
  { [ts |-> 0, decision |-> 1, err_code |-> "Ok", notes_flags |-> {},
     frame_bytes |-> Some("f1"), frame_hash |-> None],
    [ts |-> 1, decision |-> 0, err_code |-> "SigInvalid",
     notes_flags |-> {"RESERVED", "REPLAY_REJECT"},
     frame_bytes |-> Some("f1"), frame_hash |-> Some(Sha3("f2"))],
    [ts |-> 1, decision |-> 0, err_code |-> "Length", notes_flags |-> {"HAS_FRAME"},
     frame_bytes |-> None, frame_hash |-> None] }
=============================================================================

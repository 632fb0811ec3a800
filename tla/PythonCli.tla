----------------------------- MODULE PythonCli ------------------------------
(* The commands gen, tamper, verify, replay --frame and export of            *)
(* python/andna, each a process with the engine that VERIFY_ENGINE names,    *)
(* over the frame files and the session log verification_log.json that they  *)
(* share without a lock.                                                     *)
(*                                                                           *)
(* Frames are those of FrameV2: the Python engine makes the same checks but  *)
(* that of the signature. The Rust engine is the C ABI, loaded into the      *)
(* process. An exception nobody catches ends a command with code 1.          *)
EXTENDS FrameV2

CONSTANTS
  Process,      \* places for running commands: as many run at once
  Path,         \* the frame files
  Absent,       \* no file there
  Given,        \* what the frame files may hold at first, from elsewhere
  Engine,       \* the values of VERIFY_ENGINE
  MayFail,      \* files may not be readable or writable, the native library not be found
  MayCrash,     \* a process may be killed
  MaxStarts     \* bound: commands begun

ASSUME PythonBoundAssumption ==
  MaxStarts \in Nat /\ {MayFail, MayCrash} \subseteq BOOLEAN
ASSUME GivenAssumption == \A given \in Given : DOMAIN given = Path

VARIABLES
  frames,     \* what is in the frame files
  session,    \* verification_log.json
  bundle,     \* the directory each place exports into
  proc,       \* what runs in each place
  starts,     \* how many commands were begun
  verdicts,   \* history: every verdict an engine gave, oldest first
  captured    \* history: which verdicts were captured, in the order of their run ids

vars == <<frames, session, bundle, proc, starts, verdicts, captured>>

-----------------------------------------------------------------------------
(* The engines.                                                              *)

\* Mutant of PythonVerify: the epochs are not compared.
PythonVerifyAnyEpoch(bytes) ==
  IF bytes = Garbled THEN "Length"
  ELSE FirstFailing(
         << <<"MuPre", ParseMuPreHeader(bytes.mu_pre)>>,
            <<"PkHashMismatch", CheckPkHashBinding(bytes.mu_pre, bytes.te)>>,
            <<"DeviceIdMismatch", CheckDeviceIdDuality(bytes.mu_pre, bytes.te)>> >>, "Ok")

\* PythonEngine: the binding checks, and a stub for the signature.
PythonVerify(bytes) ==
  IF bytes = Garbled THEN "Length"
  ELSE FirstFailing(
         << <<"MuPre", ParseMuPreHeader(bytes.mu_pre)>>,
            <<"PkHashMismatch", CheckPkHashBinding(bytes.mu_pre, bytes.te)>>,
            <<"EpochMismatch", CheckEpochCorrelation(bytes.mu_pre, bytes.te)>>,
            <<"DeviceIdMismatch", CheckDeviceIdDuality(bytes.mu_pre, bytes.te)>> >>, "Ok")

\* The code of the C ABI for an error of the core.
ToAndnaErr(error) ==
  CASE error = "LengthMismatch"   -> "Length"
    [] error = "MuPreMalformed"   -> "MuPre"
    [] error = "SignatureInvalid" -> "SigInvalid"
    [] OTHER                      -> error

\* andna_verify_frame_v2: the length, the gate of the module, the core.
NativeVerify(moduleState, bytes) ==
  IF bytes = Garbled THEN "Length"
  ELSE IF moduleState # "APPROVED" THEN "Internal"
  ELSE ToAndnaErr(VerifyFrameV2(bytes))

\* The bindings have no andna_init: the module stays as it was loaded.
LoadedModule == "UNINITIALIZED"

EngineVerify(engine, bytes) ==
  IF engine = "rust" THEN NativeVerify(LoadedModule, bytes) ELSE PythonVerify(bytes)

\* Whether get_engine may return one: the name is known, the library found.
MayHave(engine) == engine \in {"python", "rust"}
MayLack(engine) == engine \notin {"python", "rust"} \/ (engine = "rust" /\ MayFail)

\* Mutant of ExitCode: the error code is handed on.
ExitCodeOfError(code) == IF code = "Ok" THEN 0 ELSE 100

ExitCode(code) == IF code = "Ok" THEN 0 ELSE 1
Decision(code) == IF code = "Ok" THEN "ACCEPT" ELSE "REJECT"

-----------------------------------------------------------------------------
(* Frames.                                                                   *)

\* cmd_gen: gen_test_frame raises without an approved module, and the frame is
\* built here, over a T_E of zeros and without a signature.
DummyFrame ==
  LET te == [key |-> 0, epoch |-> 0, device_id16 |-> 0]
  IN  PackFrameV2([pk_hash |-> Shake256(te), domain_sep |-> DOMAIN_SEP,
                   version |-> MU_PRE_VERSION_VAL,
                   device_id32 |-> DeviceId32(te.device_id16), epoch |-> 0,
                   ctx_hash |-> <<>>, rest |-> ZeroRest], te, Garbled)

\* Flipping the bits of a byte of a hash, twice is not at all.
Flipped(hash) == IF Len(hash) = 1 THEN Append(hash, "flipped") ELSE <<hash[1]>>

\* cmd_tamper: byte 0 is in pk_hash.
Tampered(frame) == [frame EXCEPT !.mu_pre.pk_hash = Flipped(@)]

-----------------------------------------------------------------------------
(* The session log: a JSON document, which parses whole or not at all.       *)

NoLog == [state |-> "absent", records |-> <<>>]
LogOf(records) == [state |-> "whole", records |-> records]
EmptyLog == [state |-> "empty", records |-> <<>>]
CutLog == [state |-> "cut", records |-> <<>>]

\* _load_or_create_session_log: what is absent, does not parse or cannot be read,
\* were it intact, is empty.
LoadedRecords == {session.records} \cup (IF MayFail THEN {<<>>} ELSE {})

\* Writing over what another process has written since the truncation: where
\* that is longer it shows behind the new log, which then does not parse. Logs
\* of as many records differ by a few bytes, and a part of one may be longer.
Overwritten(records) ==
  LET longer == Len(session.records) > Len(records)
      asLong == session.state = "cut"
                  \/ (session.state = "whole" /\ Len(session.records) = Len(records))
  IN  (IF longer THEN {} ELSE {LogOf(records)})
        \cup (IF longer \/ asLong THEN {CutLog} ELSE {})

-----------------------------------------------------------------------------
(* Processes.                                                                *)

Off == [pc |-> "off", path |-> Absent, engine |-> "python",
        verdict |-> 0, records |-> <<>>, rc |-> None]

NoBundle == [evidence |-> NoLog, manifest |-> None]

Init ==
  /\ frames \in Given
  /\ session = NoLog
  /\ bundle = [p \in Process |-> NoBundle]
  /\ proc = [p \in Process |-> Off]
  /\ starts = 0
  /\ verdicts = <<>>
  /\ captured = <<>>

At(p, pc) == proc[p].pc = pc
Goes(p, next) == proc' = [proc EXCEPT ![p].pc = next]

\* Process p ends with the exit code rc, which stays for its caller to see.
Exits(p, rc) == proc' = [proc EXCEPT ![p] = [Off EXCEPT !.rc = Some(rc)]]

Begin(p) == At(p, "off") /\ starts < MaxStarts /\ starts' = starts + 1

Start(p, path, engine, pc) ==
  /\ Begin(p)
  /\ proc' = [proc EXCEPT ![p] = [Off EXCEPT !.pc = pc,
                                             !.path = path, !.engine = engine]]
  /\ UNCHANGED <<frames, session, bundle, verdicts, captured>>

\* A frame file written, or left or cut where that failed: what a kill leaves
\* too, and what a reader sees that comes in between.
WriteFrame(p, path, frame) ==
  /\ \/ frames' = [frames EXCEPT ![path] = frame]
        /\ Exits(p, 0)
     \/ /\ MayFail
        /\ \E left \in {frames[path], Garbled} : frames' = [frames EXCEPT ![path] = left]
        /\ Exits(p, 1)
  /\ UNCHANGED <<session, bundle, verdicts, captured>>

Gen(p, path) == Begin(p) /\ WriteFrame(p, path, DummyFrame)

Tamper(p, from, to) ==
  /\ Begin(p)
  /\ IF frames[from] \in {Absent, Garbled}
       THEN /\ Exits(p, 2)
            /\ UNCHANGED <<frames, session, bundle, verdicts, captured>>
       ELSE WriteFrame(p, to, Tampered(frames[from]))

-----------------------------------------------------------------------------
(* verify.                                                                   *)

VerifyImpossible(p) ==
  /\ At(p, "verify")
  /\ \/ frames[proc[p].path] = Absent /\ Exits(p, 2)
     \/ frames[proc[p].path] # Absent /\ (MayFail \/ MayLack(proc[p].engine)) /\ Exits(p, 1)
  /\ UNCHANGED <<frames, session, bundle, starts, verdicts, captured>>

Verify(p) ==
  /\ At(p, "verify")
  /\ frames[proc[p].path] # Absent
  /\ MayHave(proc[p].engine)
  /\ LET frame == frames[proc[p].path]
         verdict == [frame |-> frame, code |-> EngineVerify(proc[p].engine, frame),
                     engine |-> proc[p].engine]
     IN  verdicts' = Append(verdicts, verdict)
  /\ proc' = [proc EXCEPT ![p].pc = "capture", ![p].verdict = Len(verdicts) + 1]
  /\ UNCHANGED <<frames, session, bundle, starts, captured>>

\* Mutant of Record: the hash is taken of the file once more.
RecordOfFile(p) ==
  [frame |-> frames[proc[p].path], code |-> verdicts[proc[p].verdict].code,
   engine |-> proc[p].engine, run |-> Len(captured) + 1]

\* The record of the verdict of p: the hash is of the bytes that were verified,
\* the run id is the time, in nanoseconds: no two are the same.
Record(p) ==
  LET verdict == verdicts[proc[p].verdict]
  IN  [frame |-> verdict.frame, code |-> verdict.code, engine |-> verdict.engine,
       run |-> Len(captured) + 1]

\* The session log is loaded, and the record captured in it.
Capture(p) ==
  /\ At(p, "capture")
  /\ \E loaded \in LoadedRecords :
       proc' = [proc EXCEPT ![p].pc = "create_log", ![p].records = Append(loaded, Record(p))]
  /\ captured' = Append(captured, proc[p].verdict)
  /\ UNCHANGED <<frames, session, bundle, starts, verdicts>>

\* _save_session_log: truncated, then written.
CreateLog(p) ==
  /\ At(p, "create_log")
  /\ \/ session' = EmptyLog /\ Goes(p, "write_log")
     \/ MayFail /\ Exits(p, 1) /\ UNCHANGED session
  /\ UNCHANGED <<frames, bundle, starts, verdicts, captured>>

WriteLog(p) ==
  /\ At(p, "write_log")
  /\ \/ /\ session' \in Overwritten(proc[p].records)
        /\ Exits(p, ExitCode(verdicts[proc[p].verdict].code))
     \/ MayFail /\ session' = CutLog /\ Exits(p, 1)
  /\ UNCHANGED <<frames, bundle, starts, verdicts, captured>>

-----------------------------------------------------------------------------
(* replay --frame: the frame is verified again, and the decision compared    *)
(* with that of its first record.                                            *)

LoadReplay(p) ==
  /\ At(p, "load_replay")
  /\ \/ IF session.state \in {"empty", "cut"} THEN Exits(p, 1)
        ELSE IF session.records = <<>> THEN Exits(p, 2)
        ELSE proc' = [proc EXCEPT ![p].pc = "replay", ![p].records = session.records]
     \/ MayFail /\ session.state # "absent" /\ Exits(p, 1)
  /\ UNCHANGED <<frames, session, bundle, starts, verdicts, captured>>

\* Mutant of Matching: a record matches by the length of its frame.
MatchingLength(records, frame) ==
  {i \in DOMAIN records : (records[i].frame = Garbled) = (frame = Garbled)}

Matching(records, frame) == {i \in DOMAIN records : records[i].frame = frame}

ReplayImpossible(p) ==
  /\ At(p, "replay")
  /\ LET frame == frames[proc[p].path]
         found == Matching(proc[p].records, frame)
     IN  \/ frame = Absent /\ Exits(p, 2)
         \/ /\ frame # Absent
            /\ MayFail \/ found = {} \/ MayLack(proc[p].engine)
            /\ Exits(p, 1)
  /\ UNCHANGED <<frames, session, bundle, starts, verdicts, captured>>

Replay(p) ==
  /\ At(p, "replay")
  /\ frames[proc[p].path] # Absent
  /\ MayHave(proc[p].engine)
  /\ LET frame == frames[proc[p].path]
         found == Matching(proc[p].records, frame)
         code == EngineVerify(proc[p].engine, frame)
     IN  /\ found # {}
         /\ verdicts' = Append(verdicts, [frame |-> frame, code |-> code,
                                          engine |-> proc[p].engine])
         /\ Exits(p, IF Decision(proc[p].records[Least(found)].code) = Decision(code)
                      THEN 0 ELSE 1)
  /\ UNCHANGED <<frames, session, bundle, starts, captured>>

-----------------------------------------------------------------------------
(* export: the evidence, and a manifest over it.                             *)

LoadExport(p) ==
  /\ At(p, "load_export")
  /\ \E loaded \in LoadedRecords :
       IF loaded = <<>> THEN Exits(p, 2)
       ELSE proc' = [proc EXCEPT ![p].pc = "write_evidence", ![p].records = loaded]
  /\ UNCHANGED <<frames, session, bundle, starts, verdicts, captured>>

WriteEvidence(p) ==
  /\ At(p, "write_evidence")
  /\ \/ bundle' = [bundle EXCEPT ![p].evidence = LogOf(proc[p].records)]
        /\ Goes(p, "write_manifest")
     \/ /\ MayFail
        /\ \E left \in {bundle[p].evidence, CutLog} :
             bundle' = [bundle EXCEPT ![p].evidence = left]
        /\ Exits(p, 1)
  /\ UNCHANGED <<frames, session, starts, verdicts, captured>>

\* compute_verification_digest: over the frame and the code of each record.
VerificationDigest(records) ==
  [i \in DOMAIN records |-> <<records[i].frame, records[i].code>>]

\* Mutant of DigestOf: the digest is of the session log as it is now.
DigestOfSession(p) == VerificationDigest(session.records)

DigestOf(p) == VerificationDigest(proc[p].records)

\* The digest of the evidence is of the file, read back.
WriteManifest(p) ==
  /\ At(p, "write_manifest")
  /\ \/ /\ bundle' = [bundle EXCEPT ![p].manifest =
                        Some([record_count |-> Len(proc[p].records),
                              evidence_sha256 |-> bundle[p].evidence,
                              verification_digest |-> DigestOf(p)])]
        /\ Exits(p, 0)
     \/ /\ MayFail
        /\ \E left \in {bundle[p].manifest, None} :
             bundle' = [bundle EXCEPT ![p].manifest = left]
        /\ Exits(p, 1)
  /\ UNCHANGED <<frames, session, starts, verdicts, captured>>

-----------------------------------------------------------------------------
\* A process is killed: what it was writing is cut.
Crash(p) ==
  /\ MayCrash
  /\ ~At(p, "off")
  /\ proc' = [proc EXCEPT ![p] = Off]
  /\ \/ UNCHANGED bundle
     \/ At(p, "write_evidence") /\ bundle' = [bundle EXCEPT ![p].evidence = CutLog]
     \/ At(p, "write_manifest") /\ bundle' = [bundle EXCEPT ![p].manifest = None]
  /\ UNCHANGED <<frames, session, starts, verdicts, captured>>

Step(p) ==
  \/ VerifyImpossible(p) \/ Verify(p) \/ Capture(p) \/ CreateLog(p) \/ WriteLog(p)
  \/ LoadReplay(p) \/ ReplayImpossible(p) \/ Replay(p)
  \/ LoadExport(p) \/ WriteEvidence(p) \/ WriteManifest(p)

Begins(p) ==
  \/ \E path \in Path, engine \in Engine :
       \/ Start(p, path, engine, "verify")
       \/ Start(p, path, engine, "load_replay")
  \/ Start(p, Absent, "python", "load_export")
  \/ \E path \in Path : Gen(p, path)
  \/ \E from, to \in Path : Tamper(p, from, to)

Next == \E p \in Process : Begins(p) \/ Step(p) \/ Crash(p)

Spec == Init /\ [][Next]_vars

-----------------------------------------------------------------------------
(* Properties.                                                               *)

Codes ==
  {"Ok", "Length", "MuPre", "PkHashMismatch", "SigInvalid", "EpochMismatch",
   "DeviceIdMismatch", "Internal"}

IsVerdict(v) == v.code \in Codes /\ v.engine \in {"python", "rust"}

IsLog(log) ==
  /\ log.state \in {"absent", "whole", "empty", "cut"}
  /\ log.state # "whole" => log.records = <<>>
  /\ \A i \in DOMAIN log.records :
       IsVerdict(log.records[i]) /\ log.records[i].run \in DOMAIN captured

\* The type of the state: what is a code, an engine, a place in a history.
TypeOK ==
  /\ DOMAIN frames = Path
  /\ IsLog(session) /\ \A p \in Process : IsLog(bundle[p].evidence)
  /\ \A p \in Process :
       /\ proc[p].path \in Path \cup {Absent} /\ proc[p].engine \in Engine \cup {"python"}
       /\ proc[p].pc \in {"capture", "create_log", "write_log"}
            => proc[p].verdict \in DOMAIN verdicts
       /\ proc[p].rc \in {None, Some(0), Some(1), Some(2)}
  /\ starts \in 0..MaxStarts
  /\ \A i \in DOMAIN verdicts : IsVerdict(verdicts[i])
  /\ \A i \in DOMAIN captured : captured[i] \in DOMAIN verdicts

\* Whatever runs at the same time, is killed or fails, and whatever becomes of
\* the frame files meanwhile, a session log that parses, and evidence, has
\* nothing but verdicts that were given, each of the bytes it was given on,
\* none twice, in the order of their run ids (cli.py:121-124, replay.py:81-112).
HonestLog ==
  \A log \in {session} \cup {bundle[p].evidence : p \in Process} :
    \A i \in DOMAIN log.records :
      LET r == log.records[i]
      IN  /\ verdicts[captured[r.run]] =
               [frame |-> r.frame, code |-> r.code, engine |-> r.engine]
          /\ \A j \in 1..i - 1 :
               /\ log.records[j].run < r.run
               /\ captured[log.records[j].run] # captured[r.run]

\* Whatever verifications run meanwhile, a bundle that export has just finished
\* is of one moment: evidence, count and verification digest are of the same
\* records (replay.py:139-182).
BundleIsWhole ==
  [][\A p \in Process :
       At(p, "write_manifest") /\ proc'[p].rc = Some(0) =>
         LET manifest == bundle'[p].manifest[1]
             records == bundle'[p].evidence.records
         IN  /\ manifest.evidence_sha256 = bundle'[p].evidence
             /\ manifest.record_count = Len(records) /\ records # <<>>
             /\ manifest.verification_digest = VerificationDigest(records)]_vars

\* replay finds a decision not deterministic only when the frame's first record
\* is another engine's: an engine never contradicts itself, whatever else is in
\* the log (cli.py:186-226).
ReplayBlamesEngine ==
  [][\A p \in Process :
       At(p, "replay") /\ verdicts' # verdicts /\ proc'[p].rc = Some(1) =>
         \E i \in DOMAIN proc[p].records :
           /\ proc[p].records[i].frame = frames[proc[p].path]
           /\ proc[p].records[i].engine # proc[p].engine
           /\ \A j \in 1..i - 1 : proc[p].records[j].frame # frames[proc[p].path]]_vars

\* What the Python engine answers is what the core answers of the same bytes, to
\* the code, but for the signature, which it takes as good (engine.py:102-181,
\* core/src/lib.rs).
VerdictsAgree ==
  \A i \in DOMAIN verdicts :
    LET v == verdicts[i]
        core == ToAndnaErr(VerifyFrameV2(v.frame))
    IN  v.engine = "python" =>
          v.code = IF core \in {"SigInvalid", "Internal"} THEN "Ok" ELSE core

-----------------------------------------------------------------------------
(* What tests say, and the code does not do.                                 *)

\* python/tests/test_integration.py:302-305: the Rust engine gives the verdicts
\* of the core.
RustEngineVerifies ==
  \A i \in DOMAIN verdicts :
    verdicts[i].engine = "rust" =>
      verdicts[i].code = ToAndnaErr(VerifyFrameV2(verdicts[i].frame))
=============================================================================

---------------------------- MODULE EvidenceCli -----------------------------
(* The commands gen, tamper, verify, verify-frame, replay and export of      *)
(* ffi_cli, each run as a process of its own, over the files they share:     *)
(* frames, the session log verification_log.json, the audit log              *)
(* andna_audit.jsonl and the directory of an evidence bundle.  A process may *)
(* die at any step, a file operation may fail, and with more than one        *)
(* Process commands run at the same time: nothing locks the files.           *)
(*                                                                           *)
(* fs::write is two steps, the truncation and the writing.  A process has    *)
(* one thread, so the sink is a part of its own memory.                      *)
EXTENDS AuditChain

CONSTANTS Process,    \* places for running commands: as many run at once
          Path,       \* frame files
          BadFile,    \* the content of a file that is not of a frame's length
          Absent,     \* no such file, and no such argument
          Verdict,    \* [Frame -> AndnaErr]: the verdict on each frame
          Generated,  \* the frames gen makes, with fresh keys
          Flip,       \* [Frame -> Frame]: the first byte inverted
          Placed,     \* [Path -> FrameFile]: the frame files at the beginning
          Job,        \* the command lines that are given
          MayFail,    \* file operations, andna_init and the backend may fail
          MayCrash,   \* a process may be killed
          MaxStarts,  \* bound: commands begun
          MaxFaults   \* bound: failures and kills

\* What a frame file may hold.
FrameFile == Frame \cup {BadFile, Absent}

ASSUME BadFileAssumption == {BadFile, Absent} \cap Frame = {} /\ BadFile # Absent
ASSUME CliVerdictAssumption ==
  /\ Verdict \in [Frame -> AndnaErr \ {"Length", "Internal"}]
  /\ Generated \subseteq {f \in Frame : Verdict[f] = "Ok"}
ASSUME FlipAssumption == \A f \in Frame : Flip[f] \in Frame \ {f} /\ Flip[Flip[f]] = f
ASSUME PlacedAssumption == Placed \in [Path -> FrameFile]
\* What the argument parser asks for.
ASSUME CliJobAssumption ==
  \A job \in Job :
    \/ job.cmd \in {"export", "replay"} /\ job.in = Absent
    \/ job.cmd \in {"verify", "verify-frame", "replay"} /\ job.in \in Path
    \/ job.cmd = "tamper" /\ job.in \in Path /\ job.out \in Path
    \/ job.cmd = "gen" /\ job.out \in Path
ASSUME CliBoundAssumption ==
  {MaxStarts, MaxFaults} \subseteq Nat /\ {MayFail, MayCrash} \subseteq BOOLEAN
ASSUME TimeAssumption == 1..MaxStarts \subseteq Time

VARIABLES frames,    \* the frame files
          session,   \* verification_log.json
          audit,     \* andna_audit.jsonl
          bundle,    \* the files of the output directory of export
          proc,      \* what runs in each place
          starts,    \* how many commands were begun
          faults,    \* how many failures and kills there were
          verdicts,  \* history: the verdicts of the verify commands, oldest first
          flushed    \* history: the records of the last export that was written whole

count == <<starts, faults>>
vars == <<frames, session, audit, bundle, proc, count, verdicts, flushed>>

-----------------------------------------------------------------------------
(* The session log: a JSON document, which parses whole or not at all.       *)

Input == Frame \cup {BadFile}
VerificationRecord == [file : Input, code : AndnaErr, run : Nat]
ReplayFile == [exists : BOOLEAN, recs : Seq(VerificationRecord), torn : BOOLEAN]

NoLog == [exists |-> FALSE, recs |-> <<>>, torn |-> FALSE]
LogOf(recs) == [exists |-> TRUE, recs |-> recs, torn |-> FALSE]
TornLog == [exists |-> TRUE, recs |-> <<>>, torn |-> TRUE]

Decision(code) == IF code = "Ok" THEN "ACCEPT" ELSE "REJECT"

\* load_log: an absent file is an empty log, a file that does not parse an error.
LoadLog(log) == IF log.torn THEN None ELSE Some(log.recs)

\* cmd_verify begins a new log when the old one does not parse.
LoadedOrNew(log) == IF LoadLog(log) = None THEN <<>> ELSE LoadLog(log)[1]

\* Writing recs over a log from its start: what is longer and stays behind the
\* document makes it unreadable. Logs of as many records differ by a few bytes.
OverwrittenLog(recs, old) ==
  IF Len(old.recs) > Len(recs) THEN {TornLog}
  ELSE {LogOf(recs)} \cup (IF Len(old.recs) = Len(recs) THEN {TornLog} ELSE {})

\* Writing the lines of new over the audit log from its start: where new is not
\* the longer one, lines of the old log follow it, or the rest of one.
OverwrittenAudit(new, old) ==
  IF Len(old.recs) < Len(new.recs) \/ old = FileOf(<<>>) THEN {new}
  ELSE {[new EXCEPT !.torn = TRUE]}
         \cup (IF new.torn THEN {}
               ELSE {[old EXCEPT !.recs = new.recs
                        \o SubSeq(@, Len(new.recs) + 1, Len(@))]})

-----------------------------------------------------------------------------
(* Processes.                                                                *)

NoBundle ==
  [evidence |-> NoLog, audit |-> NoFile, validate |-> None, manifest |-> None]

NoJob == [cmd |-> "none", in |-> Absent, out |-> Absent]

Off == [pc |-> "off", job |-> NoJob, file |-> Absent, run |-> 0, code |-> "Ok",
        log |-> <<>>, sink |-> None, outcome |-> "Ok", rc |-> None]

Init ==
  /\ frames = Placed
  /\ session = NoLog
  /\ audit = NoFile
  /\ bundle = NoBundle
  /\ proc = [p \in Process |-> Off]
  /\ starts = 0
  /\ faults = 0
  /\ verdicts = <<>>
  /\ flushed = <<>>

\* One command runs at a time.
Alone == \A p, q \in Process : p = q

\* The process p is at pc and goes on at the step next.
At(p, pc) == proc[p].pc = pc
Goes(p, next) == proc' = [proc EXCEPT ![p].pc = next]

\* Process p ends with the exit code rc, which stays for its caller to see.
Exits(p, rc) == proc' = [proc EXCEPT ![p] = [Off EXCEPT !.rc = Some(rc)]]

Fault == faults < MaxFaults /\ faults' = faults + 1
Fails == MayFail /\ Fault
NoFault == UNCHANGED faults

\* Mutant of ExitCode: the code is handed on as it is.
ExitCodeNegative(code) == IF code = "Ok" THEN 0 ELSE 255

\* The exit code that tells a verdict.
ExitCode(code) == IF code = "Ok" THEN 0 ELSE 1

FirstStep(cmd) ==
  CASE cmd = "gen" -> "generate"
    [] cmd \in {"tamper", "verify", "verify-frame"} -> "read_frame"
    [] cmd = "replay" -> "load_replay"
    [] cmd = "export" -> "load_export"

Start(p) ==
  /\ At(p, "off")
  /\ starts < MaxStarts
  /\ starts' = starts + 1
  /\ \E job \in Job :
       proc' = [proc EXCEPT ![p] = [Off EXCEPT !.pc = FirstStep(job.cmd),
                                      !.job = job, !.run = starts + 1]]
  /\ UNCHANGED <<frames, session, audit, bundle, faults, verdicts, flushed>>

Cmd(p) == proc[p].job.cmd
In(p) == proc[p].job.in
Out(p) == proc[p].job.out

\* A verification of file answers code; a backend that fails is a fault.
Answers(file, code) ==
  \/ code = (IF file = BadFile THEN "Length" ELSE Verdict[file]) /\ NoFault
  \/ code = "Internal" /\ file # BadFile /\ Fails

\* The sink of a process that has opened it, or opens it now from what it finds.
OpenedSink(p, found) ==
  IF proc[p].sink = None THEN InitSink(proc[p].run, found) ELSE proc[p].sink[1]

-----------------------------------------------------------------------------
(* Frame files: read by verify, verify-frame, replay and tamper, written by  *)
(* gen and tamper.                                                           *)

AfterRead(cmd) == IF cmd = "tamper" THEN "create_frame" ELSE cmd

\* What tamper writes for what it has read.
Tampered(content) == IF content = BadFile THEN BadFile ELSE Flip[content]

ReadFrame(p) ==
  /\ At(p, "read_frame")
  /\ frames[In(p)] # Absent
  /\ LET content == frames[In(p)]
     IN  proc' = [proc EXCEPT ![p].pc = AfterRead(Cmd(p)),
                    ![p].file = IF Cmd(p) = "tamper" THEN Tampered(content) ELSE content]
  /\ NoFault
  /\ UNCHANGED <<frames, session, audit, bundle, starts, verdicts, flushed>>

\* There is no such file, it cannot be read, or tamper finds it empty.
ReadFrameFails(p) ==
  /\ At(p, "read_frame")
  /\ \/ frames[In(p)] = Absent /\ NoFault
     \/ frames[In(p)] = BadFile /\ Cmd(p) = "tamper" /\ NoFault
     \/ Fails
  /\ Exits(p, 2)
  /\ UNCHANGED <<frames, session, audit, bundle, starts, verdicts, flushed>>

\* gen makes a frame in memory; without a self-tested module or a real backend
\* it ends.
Generate(p) ==
  /\ At(p, "generate")
  /\ \/ /\ \E f \in Generated :
             proc' = [proc EXCEPT ![p].pc = "create_frame", ![p].file = f]
        /\ NoFault
     \/ Fails /\ Exits(p, 1)
  /\ UNCHANGED <<frames, session, audit, bundle, starts, verdicts, flushed>>

\* fs::write of the frame file: the truncation, then the writing.
CreateFrame(p) ==
  /\ At(p, "create_frame")
  /\ \/ frames' = [frames EXCEPT ![Out(p)] = BadFile] /\ Goes(p, "write_frame") /\ NoFault
     \/ Fails /\ Exits(p, 2) /\ UNCHANGED frames
  /\ UNCHANGED <<session, audit, bundle, starts, verdicts, flushed>>

WriteFrame(p) ==
  /\ At(p, "write_frame")
  /\ \/ /\ \E written \in {proc[p].file} \cup (IF Alone THEN {} ELSE {BadFile}) :
             frames' = [frames EXCEPT ![Out(p)] = written]
        /\ Exits(p, 0)
        /\ NoFault
     \/ Fails /\ Exits(p, 2) /\ frames' = [frames EXCEPT ![Out(p)] = BadFile]
  /\ UNCHANGED <<session, audit, bundle, starts, verdicts, flushed>>

-----------------------------------------------------------------------------
(* verify, and verify-frame, which answers and leaves no record behind.      *)

\* A self-test fails: nothing is recorded.
InitFails(p) ==
  /\ proc[p].pc \in {"verify", "verify-frame"}
  /\ Fails
  /\ Exits(p, 1)
  /\ UNCHANGED <<frames, session, audit, bundle, starts, verdicts, flushed>>

\* The sink of the process, where the verdict is recorded, is never written.
VerifyFrame(p) ==
  /\ At(p, "verify-frame")
  /\ \E code \in AndnaErr : Answers(proc[p].file, code) /\ Exits(p, ExitCode(code))
  /\ UNCHANGED <<frames, session, audit, bundle, starts, verdicts, flushed>>

\* Mutant of VerifyEvent: the decision is recorded and its code is not.
VerifyEventNoCode(file, code) ==
  [ts |-> Len(verdicts) + 1, decision |-> IF code = "Ok" THEN 1 ELSE 0,
   err_code |-> "Ok", notes_flags |-> {}, frame_bytes |-> Some(file), frame_hash |-> None]

\* What the sink is given; the clock is the number of verdicts.
VerifyEvent(file, code) ==
  [ts |-> Len(verdicts) + 1, decision |-> IF code = "Ok" THEN 1 ELSE 0,
   err_code |-> code, notes_flags |-> {}, frame_bytes |-> Some(file), frame_hash |-> None]

\* What a verification of file answers, and finds of the audit log where it then
\* opens the sink: a log that cannot be read is taken as none.
AnswersFinding(file, code, found) ==
  \/ Answers(file, code) /\ found = audit
  \/ file # BadFile /\ code \in {Verdict[file], "Internal"} /\ found = NoFile /\ Fails

\* andna_verify_frame_v2: a frame of the right length is recorded in the sink.
Verify(p) ==
  /\ At(p, "verify")
  /\ \E code \in AndnaErr, found \in {audit, NoFile} :
       LET recorded == AppendVerify(OpenedSink(p, found), VerifyEvent(proc[p].file, code))
       IN  /\ AnswersFinding(proc[p].file, code, found)
           /\ proc' = [proc EXCEPT
                         ![p].pc = "load_log", ![p].code = code,
                         ![p].sink = IF code = "Length" THEN @ ELSE Some(recorded)]
           /\ verdicts' = IF code = "Length" THEN verdicts
                          ELSE Append(verdicts, <<proc[p].file, code>>)
  /\ UNCHANGED <<frames, session, audit, bundle, starts, flushed>>

\* Mutant of ExtendedLog: the record is saved alone.
ExtendedLogAlone(p, recs) ==
  <<[file |-> proc[p].file, code |-> proc[p].code, run |-> proc[p].run]>>

\* The records of a session log, and that of process p.
ExtendedLog(p, recs) ==
  Append(recs, [file |-> proc[p].file, code |-> proc[p].code, run |-> proc[p].run])

\* The session log is loaded and the record added to it, in memory: whatever
\* keeps it from being loaded, were it only that an intact file cannot be read,
\* a new log takes its place.
ExtendLog(p) ==
  /\ At(p, "load_log")
  /\ \E recs \in {LoadedOrNew(session), <<>>} :
       /\ \/ recs = LoadedOrNew(session) /\ NoFault
          \/ recs = <<>> /\ Fails
       /\ proc' = [proc EXCEPT ![p].pc = "create_log", ![p].log = ExtendedLog(p, recs)]
  /\ UNCHANGED <<frames, session, audit, bundle, starts, verdicts, flushed>>

\* save_log: truncated, then written; either may fail, and ends the command.
CreateLog(p) ==
  /\ At(p, "create_log")
  /\ \/ session' = TornLog /\ Goes(p, "write_log") /\ NoFault
     \/ Fails /\ Exits(p, 2) /\ UNCHANGED session
  /\ UNCHANGED <<frames, audit, bundle, starts, verdicts, flushed>>

WriteLog(p) ==
  /\ At(p, "write_log")
  /\ session' \in OverwrittenLog(proc[p].log, session)
  /\ Goes(p, "open_sink")
  /\ UNCHANGED <<frames, audit, bundle, count, verdicts, flushed>>

\* Mutant of WriteLogFails: the error is printed and the command goes on.
WriteLogFailsSilently(p) ==
  /\ At(p, "write_log")
  /\ Fails
  /\ session' = TornLog
  /\ Goes(p, "open_sink")
  /\ UNCHANGED <<frames, audit, bundle, starts, verdicts, flushed>>

WriteLogFails(p) ==
  /\ At(p, "write_log")
  /\ Fails
  /\ session' = TornLog
  /\ Exits(p, 2)
  /\ UNCHANGED <<frames, audit, bundle, starts, verdicts, flushed>>

\* andna_audit_export_jsonl opens the sink when no verification has.
OpenSink(p) ==
  /\ At(p, "open_sink")
  /\ \E found \in {audit, NoFile} :
       /\ \/ found = audit /\ NoFault
          \/ found = NoFile /\ proc[p].sink = None /\ Fails
       /\ proc' = [proc EXCEPT ![p].pc = "create_audit",
                               ![p].sink = Some(OpenedSink(p, found))]
  /\ UNCHANGED <<frames, session, audit, bundle, starts, verdicts, flushed>>

\* The audit log is written likewise; that it failed is not looked at.
CreateAudit(p) ==
  /\ At(p, "create_audit")
  /\ \/ audit' = FileOf(<<>>) /\ Goes(p, "write_audit") /\ NoFault
     \/ Fails /\ Exits(p, ExitCode(proc[p].code)) /\ UNCHANGED audit
  /\ UNCHANGED <<frames, session, bundle, starts, verdicts, flushed>>

WriteAudit(p) ==
  /\ At(p, "write_audit")
  /\ audit' \in OverwrittenAudit(FileOf(proc[p].sink[1].records), audit)
  /\ flushed' = proc[p].sink[1].records
  /\ Exits(p, ExitCode(proc[p].code))
  /\ UNCHANGED <<frames, session, bundle, count, verdicts>>

\* What may be left when the writing ends early.
PartWritten(p) ==
  UNION {OverwrittenAudit(part, audit) : part \in PartialFiles(proc[p].sink[1].records)}

WriteAuditFails(p) ==
  /\ At(p, "write_audit")
  /\ Fails
  /\ audit' \in PartWritten(p)
  /\ Exits(p, ExitCode(proc[p].code))
  /\ UNCHANGED <<frames, session, bundle, starts, verdicts, flushed>>

-----------------------------------------------------------------------------
(* replay: with a frame, it is verified again and the decision compared with *)
(* that of the first record of it; without one, the form of each record is   *)
(* looked at, which that of a record of verify passes.  The process's sink   *)
(* is not written.                                                           *)

LoadReplay(p) ==
  /\ At(p, "load_replay")
  /\ IF LoadLog(session) \in {None, Some(<<>>)} THEN Exits(p, 2)
     ELSE IF In(p) = Absent THEN Exits(p, 0)
     ELSE proc' = [proc EXCEPT ![p].pc = "read_frame", ![p].log = session.recs]
  /\ UNCHANGED <<frames, session, audit, bundle, count, verdicts, flushed>>

\* The session log of replay or export cannot be read.
LoadFails(p) ==
  /\ proc[p].pc \in {"load_replay", "load_export"}
  /\ Fails
  /\ Exits(p, 2)
  /\ UNCHANGED <<frames, session, audit, bundle, starts, verdicts, flushed>>

\* Mutant of Matching: records are told apart by the length of their frame.
MatchingLength(log, file) ==
  {i \in 1..Len(log) : (log[i].file = BadFile) = (file = BadFile)}

\* The records of the log that have the hash of file.
Matching(log, file) == {i \in 1..Len(log) : log[i].file = file}

Replay(p) ==
  /\ At(p, "replay")
  /\ LET found == Matching(proc[p].log, proc[p].file)
     IN  IF found = {}
           THEN Exits(p, 1) /\ NoFault
           ELSE \E code \in AndnaErr :
                  /\ Answers(proc[p].file, code)
                  /\ Exits(p, IF Decision(code) = Decision(proc[p].log[Least(found)].code)
                                THEN 0 ELSE 1)
  /\ UNCHANGED <<frames, session, audit, bundle, starts, verdicts, flushed>>

\* A record was found, and a self-test fails.
ReplayImpossible(p) ==
  /\ At(p, "replay")
  /\ Matching(proc[p].log, proc[p].file) # {}
  /\ Fails
  /\ Exits(p, 1)
  /\ UNCHANGED <<frames, session, audit, bundle, starts, verdicts, flushed>>

-----------------------------------------------------------------------------
(* export: evidence.json, a copy of the audit log, the outcome of the        *)
(* validator, and a manifest over evidence.json.                             *)

LoadExport(p) ==
  /\ At(p, "load_export")
  /\ IF LoadLog(session) \in {None, Some(<<>>)}
       THEN Exits(p, 2)
       ELSE proc' = [proc EXCEPT ![p].pc = "save_evidence", ![p].log = session.recs]
  /\ UNCHANGED <<frames, session, audit, bundle, count, verdicts, flushed>>

SaveEvidence(p) ==
  /\ At(p, "save_evidence")
  /\ bundle' = [bundle EXCEPT !.evidence = LogOf(proc[p].log)]
  /\ Goes(p, "copy_audit")
  /\ UNCHANGED <<frames, session, audit, count, verdicts, flushed>>

SaveEvidenceFails(p) ==
  /\ At(p, "save_evidence")
  /\ Fails
  /\ \E left \in {bundle.evidence, TornLog} : bundle' = [bundle EXCEPT !.evidence = left]
  /\ Exits(p, 2)
  /\ UNCHANGED <<frames, session, audit, starts, verdicts, flushed>>

\* The outcome written when the audit log is absent or could not be copied or read.
NoAuditLog == "No audit log found"

\* Mutant of CopyAudit: a copy that is already there is kept.
CopyAuditOnce(p) ==
  /\ At(p, "copy_audit")
  /\ IF audit.exists
       THEN /\ bundle' = [bundle EXCEPT !.audit = IF @.exists THEN @ ELSE audit]
            /\ Goes(p, "validate_audit")
       ELSE /\ proc' = [proc EXCEPT ![p].pc = "write_validate", ![p].outcome = NoAuditLog]
            /\ UNCHANGED bundle
  /\ UNCHANGED <<frames, session, audit, count, verdicts, flushed>>

CopyAudit(p) ==
  /\ At(p, "copy_audit")
  /\ IF audit.exists
       THEN /\ bundle' = [bundle EXCEPT !.audit = audit]
            /\ Goes(p, "validate_audit")
       ELSE /\ proc' = [proc EXCEPT ![p].pc = "write_validate", ![p].outcome = NoAuditLog]
            /\ UNCHANGED bundle
  /\ UNCHANGED <<frames, session, audit, count, verdicts, flushed>>

CopyAuditFails(p) ==
  /\ At(p, "copy_audit")
  /\ audit.exists
  /\ Fails
  /\ \E left \in {bundle.audit} \cup PartialFiles(audit.recs) :
       bundle' = [bundle EXCEPT !.audit = left]
  /\ proc' = [proc EXCEPT ![p].pc = "write_validate", ![p].outcome = NoAuditLog]
  /\ UNCHANGED <<frames, session, audit, starts, verdicts, flushed>>

\* The audit log itself, read a second time, is validated, not its copy.
ValidateAudit(p) ==
  /\ At(p, "validate_audit")
  /\ proc' = [proc EXCEPT ![p].pc = "write_validate",
                          ![p].outcome = ValidateJsonl(audit)]
  /\ UNCHANGED <<frames, session, audit, bundle, count, verdicts, flushed>>

ValidateAuditFails(p) ==
  /\ At(p, "validate_audit")
  /\ Fails
  /\ proc' = [proc EXCEPT ![p].pc = "write_validate", ![p].outcome = NoAuditLog]
  /\ UNCHANGED <<frames, session, audit, bundle, starts, verdicts, flushed>>

\* audit_validate.json; that writing it failed does not end the command.
WriteValidate(p) ==
  /\ At(p, "write_validate")
  /\ Goes(p, "write_manifest")
  /\ \/ bundle' = [bundle EXCEPT !.validate = Some(proc[p].outcome)] /\ NoFault
     \/ /\ Fails
        /\ \E left \in {bundle.validate, None} : bundle' = [bundle EXCEPT !.validate = left]
  /\ UNCHANGED <<frames, session, audit, starts, verdicts, flushed>>

\* Hashes are perfect: the digest of a file is the file, that of the verdicts
\* is what compute_verification_digest hashes of each record.
VerificationDigest(recs) == [i \in 1..Len(recs) |-> <<recs[i].file, recs[i].code>>]

WriteManifest(p) ==
  /\ At(p, "write_manifest")
  /\ \/ /\ bundle' = [bundle EXCEPT !.manifest =
                        Some([record_count |-> Len(proc[p].log),
                              evidence_digest |-> bundle.evidence,
                              verification_digest |-> VerificationDigest(proc[p].log)])]
        /\ Exits(p, 0)
        /\ NoFault
     \/ /\ Fails
        /\ \E left \in {bundle.manifest, None} : bundle' = [bundle EXCEPT !.manifest = left]
        /\ Exits(p, 2)
  /\ UNCHANGED <<frames, session, audit, starts, verdicts, flushed>>

-----------------------------------------------------------------------------
(* A process is killed. What it was writing may be cut: the session log is   *)
(* unreadable from its truncation on, the audit log may hold some lines.     *)
Crash(p) ==
  /\ MayCrash
  /\ Fault
  /\ ~At(p, "off")
  /\ proc' = [proc EXCEPT ![p] = Off]
  /\ \/ UNCHANGED <<frames, audit, bundle>>
     \/ At(p, "write_audit") /\ audit' \in PartWritten(p) /\ UNCHANGED bundle
     \/ At(p, "save_evidence") /\ bundle' = [bundle EXCEPT !.evidence = TornLog] /\ UNCHANGED audit
     \/ /\ At(p, "copy_audit") /\ audit.exists /\ UNCHANGED audit
        /\ \E left \in PartialFiles(audit.recs) : bundle' = [bundle EXCEPT !.audit = left]
  /\ UNCHANGED <<frames, session, starts, verdicts, flushed>>

FrameStep(p) ==
  \/ ReadFrame(p) \/ ReadFrameFails(p)
  \/ Generate(p) \/ CreateFrame(p) \/ WriteFrame(p)

VerifyStep(p) ==
  \/ InitFails(p) \/ VerifyFrame(p) \/ Verify(p) \/ ExtendLog(p)
  \/ CreateLog(p) \/ WriteLog(p) \/ WriteLogFails(p)
  \/ OpenSink(p) \/ CreateAudit(p) \/ WriteAudit(p) \/ WriteAuditFails(p)

ReplayStep(p) == LoadReplay(p) \/ LoadFails(p) \/ ReplayImpossible(p) \/ Replay(p)

ExportStep(p) ==
  \/ LoadExport(p) \/ SaveEvidence(p) \/ SaveEvidenceFails(p)
  \/ CopyAudit(p) \/ CopyAuditFails(p)
  \/ ValidateAudit(p) \/ ValidateAuditFails(p)
  \/ WriteValidate(p) \/ WriteManifest(p)

Next ==
  \E p \in Process :
    \/ Start(p) \/ FrameStep(p) \/ VerifyStep(p) \/ ReplayStep(p) \/ ExportStep(p) \/ Crash(p)

Spec == Init /\ [][Next]_vars

-----------------------------------------------------------------------------
(* Properties.                                                               *)

Labels ==
  {"off", "generate", "read_frame", "create_frame", "write_frame", "verify-frame",
   "verify", "load_log", "create_log", "write_log", "open_sink",
   "create_audit", "write_audit", "load_replay", "replay", "load_export",
   "save_evidence", "copy_audit", "validate_audit", "write_validate", "write_manifest"}

TypeOK ==
  /\ frames \in [Path -> FrameFile]
  /\ session \in ReplayFile
  /\ audit \in AuditFile
  /\ bundle.evidence \in ReplayFile /\ bundle.audit \in AuditFile
  /\ \A p \in Process :
       /\ proc[p].pc \in Labels
       /\ proc[p].file \in FrameFile
       /\ proc[p].code \in AndnaErr
       /\ proc[p].log \in Seq(VerificationRecord)
       /\ proc[p].sink # None => proc[p].sink[1] \in AuditSinkState
       /\ proc[p].rc \in {None, Some(0), Some(1), Some(2)}
  /\ starts \in 0..MaxStarts /\ faults \in 0..MaxFaults
  /\ verdicts \in Seq(Frame \X AndnaErr)
  /\ flushed \in Seq(AuditRecord)

\* The verdicts a log tells of, on files of a frame's length.
AuditVerdicts(recs) ==
  [i \in 1..Len(recs) |-> <<recs[i].content.frame_hash[1], recs[i].content.err_code>>]

\* The records of a session log on such files tell the verdicts V in their order.
SessionTells(recs, V) ==
  \E at \in [1..Len(V) -> 1..Len(recs)] :
    /\ \A i \in 1..Len(V) : V[i] = <<recs[at[i]].file, recs[at[i]].code>>
    /\ \A i, j \in 1..Len(V) : i < j => at[i] < at[j]
    /\ \A k \in 1..Len(recs) : recs[k].file # BadFile <=> \E i \in 1..Len(V) : at[i] = k

\* One command runs at a time, none is killed and nothing fails.
Undisturbed == Alone /\ faults = 0

Quiet == \A p \in Process : At(p, "off")

\* Commands that run one after the other, none killed and nothing failing,
\* leave two logs that tell the same verdicts in the same order, those given:
\* the chain goes on from process to process, and what is not recorded in the
\* sink, a file of another length, is only in the session log (main.rs:218-279).
LogsAgree ==
  Undisturbed /\ Quiet =>
    /\ SessionTells(session.recs, verdicts)
    /\ AuditVerdicts(audit.recs) = verdicts

\* Whatever is killed or fails, and however commands interleave on the unlocked
\* files, an audit log that passes the validator tells verdicts that were given,
\* in the order they were given (time stands for their places): some may be
\* missing, none is invented, altered, repeated or out of order. It holds of
\* the copy in a bundle too (sink.rs:149-158, main.rs:265-267, 435).
ValidAuditTellsHistory ==
  \A log \in {audit, bundle.audit} :
    ValidateJsonl(log) = "Ok" =>
      LET place(i) == log.recs[i].content.ts
      IN  \A i \in 1..Len(log.recs) :
            /\ verdicts[place(i)] = AuditVerdicts(log.recs)[i]
            /\ i > 1 => place(i - 1) < place(i)

\* A verify command that exits with the code of a verdict has saved it: the
\* session log is readable and ends with its record, whatever failed or was
\* killed before it and even if its audit log could not be written, as long as
\* no other command runs (main.rs:259-278).
SavedBeforeAnswer ==
  [][\A p \in Process :
       /\ Alone /\ Cmd(p) = "verify" /\ proc[p].pc \notin {"read_frame", "verify"}
       /\ proc'[p].pc = "off" /\ proc'[p].rc \in {Some(0), Some(1)}
       => /\ ~session'.torn /\ session'.recs # <<>>
          /\ session'.recs[Len(session'.recs)] =
               [file |-> proc[p].file, code |-> proc[p].code, run |-> proc[p].run]
          /\ proc'[p].rc = Some(0) <=> proc[p].code = "Ok"]_vars

\* One command at a time and nothing failing: replay of a frame succeeds exactly
\* when a verify has given a verdict on it, accepted or not, and so never calls
\* a verdict non-deterministic (main.rs:347-400).
ReplayKnowsVerdicts ==
  [][\A p \in Process :
       Undisturbed /\ faults' = 0 /\ At(p, "replay") /\ proc'[p].pc = "off" /\ proc[p].file \in Frame
       => (proc'[p].rc = Some(0) <=> \E i \in 1..Len(verdicts) : verdicts[i][1] = proc[p].file)]_vars

\* One command at a time and nothing failing, a bundle is of one moment: its
\* manifest is of its evidence, its evidence and its audit log tell the same
\* verdicts, and its outcome is that of its own audit log (main.rs:402-495).
BundleOfOneMoment ==
  Undisturbed /\ Quiet /\ bundle.manifest # None =>
    LET manifest == bundle.manifest[1]
        recs == bundle.evidence.recs
    IN  /\ manifest.evidence_digest = bundle.evidence
        /\ manifest.record_count = Len(recs)
        /\ manifest.verification_digest = VerificationDigest(recs)
        /\ SessionTells(recs, AuditVerdicts(bundle.audit.recs))
        /\ bundle.validate = Some(ValidateJsonl(bundle.audit))

\* What the validator says of logs that nobody has tampered with.
Untampered == {"Ok", "Empty", "JsonParse"}

\* One command at a time, whatever fails or is killed: verify does not look at
\* whether its audit log was exported (main.rs:270) and starts from whatever it
\* finds (sink.rs:149-158), yet the log it leaves is a chain, whole, empty or
\* cut. Neither the validator's outcome for it, nor that for its copy in a
\* bundle, nor the outcome export has written ever accuses anybody of tampering.
NoFalseAlarm ==
  Alone =>
    /\ \A log \in {audit, bundle.audit} : ValidateJsonl(log) \in Untampered
    /\ bundle.validate \in {None, Some(NoAuditLog)} \cup {Some(o) : o \in Untampered}

\* One command at a time, none killed and nothing failing: whatever a process
\* begins with goes on from all that was ever exported, the very records, as
\* sink.rs:149 says (ChainAcrossRuns says it of every behaviour).
ChainGoesOn ==
  [][\A p \in Process :
       Undisturbed /\ faults' = 0 /\ proc[p].sink = None /\ proc'[p].sink # None
         => IsPrefixOf(flushed, proc'[p].sink[1].records)]_vars

-----------------------------------------------------------------------------
(* What comments and documents say, and the code does not do.                *)

\* sink.rs:149: the state is restored from the log, if it exists, to maintain
\* the chain across CLI runs; here, whatever was exported whole is restored.
ChainAcrossRuns ==
  [][\A p \in Process :
       proc[p].sink = None /\ proc'[p].sink # None
         => IsPrefixOf(flushed, proc'[p].sink[1].records)]_vars

\* docs/product/r1_evidence_artifacts.md:7-8: audit_validate.json is the
\* validator's outcome for andna_audit.jsonl; here, of a bundle that export has
\* just finished: a PASS is of the audit log that lies beside it.
PassIsOfTheBundle ==
  [][\A p \in Process :
       At(p, "write_manifest") /\ proc'[p].rc = Some(0) /\ bundle.validate = Some("Ok")
         => ValidateJsonl(bundle.audit) = "Ok"]_vars
=============================================================================

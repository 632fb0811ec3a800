------------------------- MODULE EvidenceCli_proofs -------------------------
(* The commands of ffi_cli on the files they share, for any number of        *)
(* processes, files and commands, any failures and kills.                    *)
(*                                                                           *)
(* Whoever writes last decides what is in the audit log, and two writers     *)
(* may leave a mixture, so no invariant says which records are there.        *)
(* What holds of each record wherever it is: its hash covers a history,      *)
(* contents that tell verdicts that were given, each a later one than the    *)
(* content before it (Told).  The validator accepts a list of records only   *)
(* if the hash of each covers those before it.                               *)
(*                                                                           *)
(* More holds of a command that runs alone, and more still if nothing fails: *)
(* the last parts are about these.                                           *)
EXTENDS EvidenceCli, AuditChain_proofs, FiniteSetTheorems

\* The content c tells a verdict of V, and names its place.
Tells(V, c) ==
  /\ c.ts \in 1..Len(V)
  /\ V[c.ts] = <<c.frame_hash[1], c.err_code>>

History(V) ==
  {h \in Seq(Content) :
     \A i \in 1..Len(h) : Tells(V, h[i]) /\ (i > 1 => h[i-1].ts < h[i].ts)}

Told(V) ==
  {r \in AuditRecord : /\ r.record_hash = ComputeRecordHash(r)
                       /\ r.record_hash \in History(V)}

ToldFile(V) == [exists : BOOLEAN, recs : Seq(Told(V)), torn : BOOLEAN]
ToldSink(V) == [run_id : Nat, next_seq : Nat, last_hash : History(V), records : Seq(Told(V))]

PlaceFields == {"pc", "job", "file", "run", "code", "log", "sink", "outcome", "rc"}
Logs == Seq(VerificationRecord)
ExitStatus == {None, Some(0), Some(1), Some(2)}

\* What a place holds, and at which label.
Sound(V, x) ==
  /\ DOMAIN x = PlaceFields
  /\ x.pc \in Labels
  /\ x.file \in FrameFile
  /\ x.run \in Nat
  /\ x.code \in AndnaErr
  /\ x.log \in Logs
  /\ x.sink # None => x.sink[1] \in ToldSink(V)
  /\ x.rc \in ExitStatus
  /\ x.pc \in {"verify", "verify-frame", "load_log", "replay"} => x.file \in Input
  /\ x.pc \in {"create_audit", "write_audit"} => x.sink # None
  /\ x.pc = "read_frame" =>
       x.job.cmd \in {"verify", "verify-frame", "replay", "tamper"} /\ x.job.in \in Path
  /\ x.pc = "load_replay" => x.job.cmd = "replay" /\ x.job.in \in Path \cup {Absent}

FilesInv ==
  /\ frames \in [Path -> FrameFile]
  /\ session \in ReplayFile
  /\ audit \in ToldFile(verdicts)
  /\ DOMAIN bundle = {"evidence", "audit", "validate", "manifest"}
  /\ bundle.evidence \in ReplayFile
  /\ bundle.audit \in ToldFile(verdicts)
  /\ flushed \in Seq(AuditRecord)
  /\ faults \in 0..MaxFaults

\* A command that may still give a verdict.
Waits(x) == x.pc \in {"load_replay", "read_frame", "verify"}
Waiting == {p \in Process : Waits(proc[p])}

\* A command gives at most one verdict, so that there is a time for each.
CountInv ==
  /\ starts \in 0..MaxStarts
  /\ verdicts \in Seq(Frame \X AndnaErr)
  /\ IsFiniteSet(Waiting)
  /\ Len(verdicts) + Cardinality(Waiting) <= starts

ProcInv ==
  /\ proc = [p \in Process |-> proc[p]]
  /\ \A p \in Process : Sound(verdicts, proc[p])

CliInv == FilesInv /\ ProcInv /\ CountInv

-----------------------------------------------------------------------------
(* Records that tell the history.                                            *)

LEMMA SeqOfMore ==
  ASSUME NEW S, NEW T, S \subseteq T
  PROVE  Seq(S) \subseteq Seq(T)
<1> SUFFICES ASSUME NEW s \in Seq(S)  PROVE s \in Seq(T)
  OBVIOUS
<1>1. Len(s) \in Nat /\ s \in [1..Len(s) -> S]
  BY LenProperties
<1> QED  BY <1>1

LEMMA ToldTypes ==
  ASSUME NEW V
  PROVE  /\ Told(V) \subseteq AuditRecord /\ Seq(Told(V)) \subseteq Seq(AuditRecord)
         /\ ToldFile(V) \subseteq AuditFile
         /\ ToldSink(V) \subseteq AuditSinkState
<1>1. Told(V) \subseteq AuditRecord /\ History(V) \subseteq Seq(Content)
  BY DEF Told, History
<1>2. Seq(Told(V)) \subseteq Seq(AuditRecord)
  BY <1>1, SeqOfMore
<1>3. ToldFile(V) \subseteq AuditFile
  BY <1>2 DEF ToldFile, AuditFile
<1>4. ToldSink(V) \subseteq AuditSinkState
  BY <1>1, <1>2 DEF ToldSink, AuditSinkState
<1> QED  BY <1>1, <1>2, <1>3, <1>4

LEMMA FilesTold ==
  ASSUME NEW V
  PROVE  /\ NoFile \in ToldFile(V)
         /\ \A rs \in Seq(Told(V)) : FileOf(rs) \in ToldFile(V)
<1>1. <<>> \in Seq(Told(V))
  BY EmptySeq
<1> QED  BY <1>1 DEF NoFile, FileOf, ToldFile

LEMMA PartTold ==
  ASSUME NEW V, NEW rs \in Seq(Told(V))
  PROVE  PartialFiles(rs) \subseteq ToldFile(V)
<1> SUFFICES ASSUME NEW k \in 0..Len(rs), NEW cut \in BOOLEAN
             PROVE  PartialFile(rs, k, cut) \in ToldFile(V)
  <2>1. Len(rs) \in Nat
    BY LenProperties
  <2>2. 0..Len(rs) - 1 \subseteq 0..Len(rs)
    BY <2>1
  <2> QED  BY <2>2, Zenon DEF PartialFiles
<1>1. Len(rs) \in Nat /\ \A i \in 1..Len(rs) : rs[i] \in Told(V)
  BY LenProperties
<1>2. \A i \in 1..k : rs[i] \in Told(V)
  BY <1>1
<1>3. SubSeq(rs, 1, k) \in Seq(Told(V))
  BY <1>1, <1>2, SubSeqProperties, 1 \in Int, k \in Int
<1> QED  BY <1>3 DEF PartialFile, ToldFile

\* Two writers leave lines of both, each as its writer made it.
LEMMA OverwrittenTold ==
  ASSUME NEW V, NEW new \in ToldFile(V), NEW old \in ToldFile(V)
  PROVE  OverwrittenAudit(new, old) \subseteq ToldFile(V)
<1> DEFINE rest == SubSeq(old.recs, Len(new.recs) + 1, Len(old.recs))
<1>1. /\ new.recs \in Seq(Told(V)) /\ old.recs \in Seq(Told(V))
      /\ Len(new.recs) \in Nat /\ Len(old.recs) \in Nat
  BY LenProperties DEF ToldFile
<1>2. \A i \in Len(new.recs) + 1..Len(old.recs) : old.recs[i] \in Told(V)
  BY <1>1, LenProperties
<1>3. rest \in Seq(Told(V))
  BY <1>1, <1>2, SubSeqProperties, Len(new.recs) + 1 \in Int, Len(old.recs) \in Int
<1>4. new.recs \o rest \in Seq(Told(V))
  BY <1>1, <1>3, ConcatProperties
<1> HIDE DEF rest
<1>5. /\ [new EXCEPT !.torn = TRUE] \in ToldFile(V)
      /\ [old EXCEPT !.recs = new.recs \o rest] \in ToldFile(V)
  BY <1>4 DEF ToldFile
<1> QED  BY <1>5 DEF OverwrittenAudit, rest

LEMMA OpenedTold ==
  ASSUME NEW V, NEW run \in Nat, NEW f \in ToldFile(V)
  PROVE  InitSink(run, f) \in ToldSink(V)
<1>1. f \in AuditFile
  BY ToldTypes
<1>2. CASE InitSink(run, f) = NewSink(run)
  <2>1. ZeroHash \in History(V)
    BY EmptySeq DEF History, ZeroHash
  <2>2. <<>> \in Seq(Told(V))
    BY EmptySeq
  <2> QED  BY <1>2, <2>1, <2>2 DEF NewSink, ToldSink
<1>3. CASE InitSink(run, f) # NewSink(run)
  <2> DEFINE recs == f.recs
             last == recs[Len(recs)]
  <2>1. recs \in Seq(Told(V))
    BY DEF ToldFile
  <2>2. /\ recs # <<>>
        /\ InitSink(run, f) = [run_id |-> last.content.run_id, next_seq |-> last.content.seq + 1,
                               last_hash |-> last.record_hash, records |-> recs]
    BY <1>1, <1>3, InitSinkCases
  <2> HIDE DEF recs
  <2>3. Len(recs) \in 1..Len(recs)
    BY <2>1, <2>2, EmptySeq, LenProperties
  <2>4. last \in Told(V)
    BY <2>1, <2>3, ElementOfSeq
  <2> HIDE DEF last
  <2>5. /\ last.record_hash \in History(V) /\ last.content.run_id \in Nat
        /\ last.content.seq + 1 \in Nat
    BY <2>4 DEF Told, AuditRecord, Content
  <2> QED  BY <2>1, <2>2, <2>5 DEF ToldSink
<1> QED  BY <1>2, <1>3

\* What tells the verdicts given so far tells them when one more is given.
LEMMA ToldGrows ==
  ASSUME NEW V \in Seq(Frame \X AndnaErr), NEW v \in Frame \X AndnaErr
  PROVE  /\ History(V) \subseteq History(Append(V, v))
         /\ Told(V) \subseteq Told(Append(V, v))
         /\ ToldFile(V) \subseteq ToldFile(Append(V, v))
         /\ ToldSink(V) \subseteq ToldSink(Append(V, v))
<1> DEFINE W == Append(V, v)
<1>1. /\ Len(V) \in Nat /\ Len(W) = Len(V) + 1
      /\ \A i \in 1..Len(V) : W[i] = V[i]
  BY AppendProperties, LenProperties
<1> HIDE DEF W
<1>2. ASSUME NEW c, Tells(V, c)  PROVE Tells(W, c)
  BY <1>1, <1>2 DEF Tells
<1>3. History(V) \subseteq History(W)
  BY <1>2 DEF History
<1>4. Told(V) \subseteq Told(W)
  BY <1>3 DEF Told
<1>5. Seq(Told(V)) \subseteq Seq(Told(W))
  BY <1>4, SeqOfMore
<1>6. ToldFile(V) \subseteq ToldFile(W)
  BY <1>5 DEF ToldFile
<1>7. ToldSink(V) \subseteq ToldSink(W)
  BY <1>3, <1>5 DEF ToldSink
<1> QED  BY <1>3, <1>4, <1>6, <1>7 DEF W

\* A verdict recorded by a sink that tells what was told before it.
LEMMA RecordedTold ==
  ASSUME NEW V \in Seq(Frame \X AndnaErr), NEW f \in Frame, NEW code \in AndnaErr,
         NEW sink \in ToldSink(V), NEW inp \in VerifyEventInput,
         inp.ts = Len(V) + 1, inp.err_code = code,
         inp.frame_hash = None, inp.frame_bytes = Some(f)
  PROVE  AppendVerify(sink, inp) \in ToldSink(Append(V, <<f, code>>))
<1> DEFINE W == Append(V, <<f, code>>)
           c == NextContent(sink, inp)
           h == Append(sink.last_hash, c)
           r == NextRecord(sink, inp)
<1>1. sink \in AuditSinkState
  BY ToldTypes
<1>2. c \in Content /\ r \in AuditRecord
  BY <1>1, NextRecordType
<1>3. c.ts = Len(V) + 1 /\ c.err_code = code /\ c.frame_hash = <<f>>
  BY DEF NextContent, FrameHash, None, Some, Sha3
<1>4. r = [content |-> c, prev_hash |-> sink.last_hash, record_hash |-> h]
  BY DEF NextRecord
<1> HIDE DEF c, r
<1>5. /\ Len(V) \in Nat /\ Len(W) = Len(V) + 1 /\ W[Len(V) + 1] = <<f, code>>
  BY AppendProperties, LenProperties
<1>6. Tells(W, c)
  BY <1>3, <1>5 DEF Tells
<1> DEFINE old == sink.last_hash
<1>7. old \in History(V) /\ old \in History(W)
  BY ToldGrows DEF ToldSink
<1>8. /\ old \in Seq(Content) /\ Len(old) \in Nat
      /\ \A i \in 1..Len(old) : Tells(W, old[i]) /\ (i > 1 => old[i-1].ts < old[i].ts)
      /\ \A i \in 1..Len(old) : old[i].ts < Len(V) + 1
  BY <1>5, <1>7, LenProperties, SMTT(30) DEF History, Tells
<1> HIDE DEF old, W
<1>9. h = Append(old, c)
  BY DEF old
<1>10. /\ h \in Seq(Content) /\ Len(h) = Len(old) + 1 /\ h[Len(old) + 1] = c
       /\ \A i \in 1..Len(old) : h[i] = old[i]
  BY <1>2, <1>8, <1>9, AppendProperties
<1> HIDE DEF h
<1>11. ASSUME NEW i \in 1..Len(h)
       PROVE  Tells(W, h[i]) /\ (i > 1 => h[i-1].ts < h[i].ts)
  <2>1. CASE i \in 1..Len(old)
    <3>1. h[i] = old[i] /\ (i > 1 => h[i-1] = old[i-1])
      BY <1>8, <1>10, <2>1, SMTT(30)
    <3> QED  BY <1>8, <2>1, <3>1
  <2>2. CASE i = Len(old) + 1
    <3>1. h[i] = c /\ (i > 1 => h[i-1] = old[i-1] /\ i-1 \in 1..Len(old))
      BY <1>8, <1>10, <2>2
    <3> QED  BY <1>3, <1>6, <1>8, <3>1
  <2> QED  BY <1>8, <1>10, <2>1, <2>2
<1>12. h \in History(W)
  BY <1>10, <1>11 DEF History
<1>13. r \in Told(W)
  BY <1>2, <1>4, <1>9, <1>12 DEF Told, ComputeRecordHash, old
<1>14. /\ Append(sink.records, r) \in Seq(Told(W))
       /\ sink.run_id \in Nat /\ sink.next_seq + 1 \in Nat
  <2>1. sink.records \in Seq(Told(V)) /\ sink.run_id \in Nat /\ sink.next_seq \in Nat
    BY DEF ToldSink
  <2>2. sink.records \in Seq(Told(W))
    BY <2>1, ToldGrows, SeqOfMore DEF W
  <2> QED  BY <1>13, <2>1, <2>2, AppendProperties
<1>15. AppendVerify(sink, inp) = [run_id |-> sink.run_id, next_seq |-> sink.next_seq + 1,
                                 last_hash |-> h, records |-> Append(sink.records, r)]
  BY <1>4 DEF AppendVerify, PushRecord, r
<1> QED  BY <1>12, <1>14, <1>15 DEF ToldSink, W

-----------------------------------------------------------------------------
(* Steps.                                                                    *)

LEMMA FaultType ==
  ASSUME FilesInv, NoFault \/ Fault
  PROVE  faults' \in 0..MaxFaults
<1>1. MaxFaults \in Nat /\ faults \in 0..MaxFaults
  BY CliBoundAssumption DEF FilesInv
<1> QED  BY <1>1 DEF NoFault, Fault

\* A step of p that gives no verdict.
Moved(p) ==
  /\ proc' = [q \in Process |-> IF q = p THEN proc'[p] ELSE proc[q]]
  /\ UNCHANGED <<starts, verdicts>>

LEMMA Moves ==
  ASSUME CliInv, NEW p \in Process, Moved(p), Sound(verdicts, proc'[p]),
         Waits(proc'[p]) => Waits(proc[p])
  PROVE  ProcInv' /\ CountInv'
<1>1. ASSUME NEW q \in Process, q # p  PROVE proc'[q] = proc[q]
  BY <1>1 DEF Moved
<1>2. ProcInv'
  <2>1. proc' = [q \in Process |-> proc'[q]]
    BY DEF Moved
  <2>2. ASSUME NEW q \in Process  PROVE Sound(verdicts, proc'[q])
    BY <1>1, <2>2 DEF CliInv, ProcInv
  <2> QED  BY <2>1, <2>2 DEF Moved, ProcInv
<1>3. Waiting' \subseteq Waiting
  BY <1>1 DEF Waiting
<1>4. IsFiniteSet(Waiting') /\ Cardinality(Waiting') <= Cardinality(Waiting)
  BY <1>3, FS_Subset DEF CliInv, CountInv
<1>5. Cardinality(Waiting) \in Nat /\ Cardinality(Waiting') \in Nat
  BY <1>4, FS_CardinalityType DEF CliInv, CountInv
<1>6. CountInv'
  <2>1. Len(verdicts) \in Nat /\ starts \in Nat
    BY LenProperties, CliBoundAssumption DEF CliInv, CountInv
  <2> QED  BY <1>4, <1>5, <2>1 DEF Moved, CliInv, CountInv
<1> QED  BY <1>2, <1>6

\* A step to the next label.
LEMMA Going ==
  ASSUME CliInv, NEW p \in Process, NEW next \in Labels, Goes(p, next),
         UNCHANGED <<starts, verdicts>>,
         next \notin {"verify", "verify-frame", "load_log", "replay", "create_audit",
                     "read_frame", "load_replay"},
         next = "write_audit" => proc[p].sink # None
  PROVE  ProcInv' /\ CountInv'
<1>1. Moved(p) /\ proc'[p] = [proc[p] EXCEPT !.pc = next]
  BY DEF CliInv, ProcInv, Goes, Moved
<1>2. Sound(verdicts, proc[p])
  BY DEF CliInv, ProcInv
<1>3. Sound(verdicts, proc'[p]) /\ ~Waits(proc'[p])
  BY <1>1, <1>2 DEF Sound, PlaceFields, Waits
<1> QED  BY <1>1, <1>3, Moves

LEMMA OffSound ==
  ASSUME NEW V
  PROVE  /\ Sound(V, Off) /\ Off.pc = "off"
         /\ \A rc \in {0, 1, 2} : LET e == [Off EXCEPT !.rc = Some(rc)]
                                IN  Sound(V, e) /\ e.pc = "off"
<1>1. <<>> \in Logs
  BY EmptySeq DEF Logs
<1>2. DOMAIN Off = PlaceFields /\ \A rc : DOMAIN [Off EXCEPT !.rc = Some(rc)] = PlaceFields
  BY DEF Off, PlaceFields
<1> QED
  BY <1>1, <1>2 DEF Sound, Off, Labels, FrameFile, AndnaErr, ExitStatus, None

LEMMA Exiting ==
  ASSUME CliInv, NEW p \in Process, NEW rc \in {0, 1, 2}, Exits(p, rc),
         UNCHANGED <<starts, verdicts>>
  PROVE  ProcInv' /\ CountInv'
<1>1. Moved(p) /\ proc'[p] = [Off EXCEPT !.rc = Some(rc)]
  BY DEF CliInv, ProcInv, Exits, Moved
<1>2. Sound(verdicts, proc'[p]) /\ ~Waits(proc'[p])
  BY <1>1, OffSound DEF Waits
<1> QED  BY <1>1, <1>2, Moves

LEMMA ExitCodes == ASSUME NEW code PROVE ExitCode(code) \in {0, 1, 2}
BY DEF ExitCode

\* The files are as they were.
LEMMA FilesKept ==
  ASSUME FilesInv, UNCHANGED <<frames, session, audit, bundle, flushed, verdicts>>,
         NoFault \/ Fault
  PROVE  FilesInv'
BY FaultType DEF FilesInv

LEMMA Inputs ==
  /\ Input = FrameFile \ {Absent} /\ Input \subseteq FrameFile /\ Frame \subseteq Input
  /\ \A content \in Input : Tampered(content) \in FrameFile
BY BadFileAssumption, FlipAssumption DEF Input, FrameFile, Tampered

LEMMA FrameSteps ==
  ASSUME CliInv, NEW p \in Process, FrameStep(p)
  PROVE  CliInv'
<1> USE DEF CliInv
<1>0. Sound(verdicts, proc[p])
  BY DEF ProcInv
<1>1. CASE ReadFrame(p)
  <2> DEFINE content == frames[In(p)]
  <2>1. In(p) \in Path /\ Cmd(p) \in {"verify", "verify-frame", "replay", "tamper"}
    BY <1>0, <1>1 DEF ReadFrame, At, In, Cmd, Sound
  <2>2. content \in Input
    BY <1>1, <2>1, Inputs DEF ReadFrame, FilesInv
  <2> DEFINE file == IF Cmd(p) = "tamper" THEN Tampered(content) ELSE content
  <2>3. file \in FrameFile /\ (Cmd(p) # "tamper" => file \in Input)
    BY <2>2, Inputs
  <2>4. proc' = [proc EXCEPT ![p].pc = AfterRead(Cmd(p)), ![p].file = file]
    BY <1>1 DEF ReadFrame
  <2> HIDE DEF file, content
  <2>5. Moved(p) /\ proc'[p] = [proc[p] EXCEPT !.pc = AfterRead(Cmd(p)), !.file = file]
    BY <1>1, <2>4 DEF ReadFrame, ProcInv, Moved
  <2>6. /\ AfterRead(Cmd(p)) \in {"create_frame", "verify", "verify-frame", "replay"}
        /\ AfterRead(Cmd(p)) # "create_frame" => file \in Input
    BY <2>1, <2>3 DEF AfterRead
  <2>7. Sound(verdicts, proc'[p])
    BY <1>0, <2>3, <2>5, <2>6 DEF Sound, PlaceFields, Labels
  <2>8. Waits(proc[p])
    BY <1>1 DEF ReadFrame, At, Waits
  <2>9. FilesInv'
    BY <1>1, FilesKept DEF ReadFrame
  <2> QED  BY <2>5, <2>7, <2>8, <2>9, Moves
<1>2. CASE ReadFrameFails(p)
  BY <1>2, Exiting, FilesKept DEF ReadFrameFails, Fails
<1>3. CASE Generate(p)
  <2>1. FilesInv'
    BY <1>3, FilesKept DEF Generate, Fails
  <2>2. CASE Exits(p, 1)
    BY <1>3, <2>1, <2>2, Exiting DEF Generate
  <2>3. CASE ~Exits(p, 1)
    <3>1. PICK f \in Generated : proc' = [proc EXCEPT ![p].pc = "create_frame", ![p].file = f]
      BY <1>3, <2>3 DEF Generate
    <3>2. Moved(p) /\ proc'[p] = [proc[p] EXCEPT !.pc = "create_frame", !.file = f]
      BY <1>3, <3>1 DEF Generate, ProcInv, Moved
    <3>3. f \in FrameFile
      BY CliVerdictAssumption DEF FrameFile
    <3>4. Sound(verdicts, proc'[p]) /\ ~Waits(proc'[p])
      BY <1>0, <3>2, <3>3 DEF Sound, PlaceFields, Labels, Waits
    <3> QED  BY <2>1, <3>2, <3>4, Moves
  <2> QED  BY <2>2, <2>3
<1>4. CASE CreateFrame(p)
  <2>1. frames' \in [Path -> FrameFile]
    BY <1>4 DEF CreateFrame, FilesInv, FrameFile
  <2>2. FilesInv'
    BY <1>4, <2>1, FaultType DEF CreateFrame, Fails, FilesInv
  <2> QED
    BY <1>4, <2>2, Going, Exiting DEF CreateFrame, Labels
<1>5. CASE WriteFrame(p)
  <2>1. proc[p].file \in FrameFile
    BY <1>0 DEF Sound
  <2>2. frames' \in [Path -> FrameFile]
    BY <1>5, <2>1 DEF WriteFrame, FilesInv, FrameFile
  <2>3. FilesInv'
    BY <1>5, <2>2, FaultType DEF WriteFrame, Fails, FilesInv
  <2> QED
    BY <1>5, <2>3, Exiting DEF WriteFrame
<1> QED  BY <1>1, <1>2, <1>3, <1>4, <1>5 DEF FrameStep

LEMMA ReplaySteps ==
  ASSUME CliInv, NEW p \in Process, ReplayStep(p)
  PROVE  CliInv'
<1> USE DEF CliInv
<1>0. Sound(verdicts, proc[p])
  BY DEF ProcInv
<1>1. CASE LoadReplay(p)
  <2>1. FilesInv'
    BY <1>1 DEF LoadReplay, count, FilesInv
  <2>2. CASE Exits(p, 2) \/ Exits(p, 0)
    BY <1>1, <2>1, <2>2, Exiting DEF LoadReplay, count
  <2>3. CASE ~(Exits(p, 2) \/ Exits(p, 0))
    <3>1. /\ In(p) # Absent
          /\ proc' = [proc EXCEPT ![p].pc = "read_frame", ![p].log = session.recs]
      BY <1>1, <2>3 DEF LoadReplay
    <3>2. Moved(p) /\ proc'[p] = [proc[p] EXCEPT !.pc = "read_frame", !.log = session.recs]
      BY <1>1, <3>1 DEF LoadReplay, count, ProcInv, Moved
    <3>3. session.recs \in Logs
      BY DEF FilesInv, ReplayFile, Logs
    <3>4. proc[p].pc = "load_replay" /\ Waits(proc[p])
      BY <1>1 DEF LoadReplay, At, Waits
    <3>5. proc[p].job.cmd = "replay" /\ proc[p].job.in \in Path
      BY <1>0, <3>1, <3>4 DEF Sound, In
    <3>6. /\ DOMAIN proc'[p] = PlaceFields /\ proc'[p].pc = "read_frame"
          /\ proc'[p].log = session.recs
          /\ \A field \in PlaceFields \ {"pc", "log"} : proc'[p][field] = proc[p][field]
      BY <1>0, <3>2 DEF Sound, PlaceFields
    <3>7. Sound(verdicts, proc'[p])
      BY <1>0, <3>3, <3>5, <3>6 DEF Sound, PlaceFields, Labels
    <3> QED  BY <2>1, <3>2, <3>4, <3>7, Moves
  <2> QED  BY <2>2, <2>3
<1>2. CASE ReplayImpossible(p)
  BY <1>2, Exiting, FilesKept DEF ReplayImpossible, Fails
<1>3. CASE Replay(p)
  <2>1. NoFault \/ Fault
    BY <1>3 DEF Replay, Answers, Fails
  <2>2. Exits(p, 0) \/ Exits(p, 1)
    BY <1>3 DEF Replay
  <2> QED  BY <1>3, <2>1, <2>2, Exiting, FilesKept DEF Replay
<1>4. CASE LoadFails(p)
  BY <1>4, Exiting, FilesKept DEF LoadFails, Fails
<1> QED  BY <1>1, <1>2, <1>3, <1>4 DEF ReplayStep

\* The sink a command has, or opens from what it finds, were it nothing.
LEMMA SinkTold ==
  ASSUME CliInv, NEW p \in Process, NEW found \in {audit, NoFile}
  PROVE  /\ OpenedSink(p, found) \in ToldSink(verdicts)
         /\ Some(OpenedSink(p, found)) # None
         /\ Some(OpenedSink(p, found))[1] = OpenedSink(p, found)
<1>1. /\ proc[p].run \in Nat /\ audit \in ToldFile(verdicts)
      /\ proc[p].sink # None => proc[p].sink[1] \in ToldSink(verdicts)
  BY DEF CliInv, FilesInv, ProcInv, Sound
<1>2. found \in ToldFile(verdicts)
  BY <1>1, EmptySeq, FilesTold
<1>3. OpenedSink(p, found) \in ToldSink(verdicts)
  BY <1>1, <1>2, OpenedTold DEF OpenedSink
<1> QED  BY <1>3 DEF Some, None

\* A verdict is recorded: the history grows by what the new record tells.
LEMMA VerdictStep ==
  ASSUME CliInv, NEW p \in Process, Verify(p)
  PROVE  CliInv'
<1> USE DEF CliInv
<1> DEFINE file == proc[p].file
<1>0. Sound(verdicts, proc[p]) /\ proc[p].pc = "verify" /\ file \in Input
  BY DEF ProcInv, Verify, At, Sound
<1>1. PICK code \in AndnaErr, found \in {audit, NoFile} :
        /\ AnswersFinding(file, code, found)
        /\ proc' = [proc EXCEPT ![p].pc = "load_log", ![p].code = code,
                     ![p].sink = IF code = "Length" THEN @
                                 ELSE Some(AppendVerify(OpenedSink(p, found), VerifyEvent(file, code)))]
        /\ verdicts' = IF code = "Length" THEN verdicts ELSE Append(verdicts, <<file, code>>)
        /\ UNCHANGED <<frames, session, audit, bundle, starts, flushed>>
  BY Zenon DEF Verify
<1>2. NoFault \/ Fault
  BY <1>1 DEF AnswersFinding, Answers, Fails
<1> DEFINE recorded == AppendVerify(OpenedSink(p, found), VerifyEvent(file, code))
           sink == IF code = "Length" THEN proc[p].sink ELSE Some(recorded)
<1>3. /\ proc' = [q \in Process |-> IF q = p THEN proc'[p] ELSE proc[q]]
      /\ proc'[p] = [proc[p] EXCEPT !.pc = "load_log", !.code = code, !.sink = sink]
  <2> HIDE DEF recorded
  <2>1. proc' = [proc EXCEPT ![p].pc = "load_log", ![p].code = code,
                  ![p].sink = IF code = "Length" THEN @ ELSE Some(recorded)]
    BY <1>1 DEF recorded
  <2>2. proc = [q \in Process |-> proc[q]] /\ DOMAIN proc[p] = PlaceFields
    BY <1>0 DEF ProcInv, Sound
  <2> QED  BY <2>1, <2>2 DEF PlaceFields
<1> HIDE DEF sink
<1>4. /\ DOMAIN proc'[p] = PlaceFields /\ proc'[p].pc = "load_log" /\ proc'[p].code = code
      /\ proc'[p].sink = sink
      /\ \A field \in PlaceFields \ {"pc", "code", "sink"} : proc'[p][field] = proc[p][field]
  BY <1>0, <1>3 DEF Sound, PlaceFields
<1>5. CASE code = "Length"
  <2>1. sink = proc[p].sink /\ verdicts' = verdicts
    BY <1>1, <1>5 DEF sink
  <2>2. Moved(p)
    BY <1>1, <1>3, <2>1 DEF Moved
  <2>3. Sound(verdicts, proc'[p]) /\ ~Waits(proc'[p])
    BY <1>0, <1>4, <2>1 DEF Sound, PlaceFields, Labels, Waits
  <2>4. FilesInv'
    BY <1>1, <1>2, <2>1, FilesKept
  <2> QED  BY <2>2, <2>3, <2>4, Moves
<1>6. CASE code # "Length"
  <2> DEFINE W == Append(verdicts, <<file, code>>)
  <2>1. file \in Frame
    BY <1>0, <1>1, <1>6 DEF AnswersFinding, Answers, Input
  <2>2. verdicts' = W /\ verdicts \in Seq(Frame \X AndnaErr) /\ Len(verdicts) \in Nat
    BY <1>1, <1>6, LenProperties DEF CountInv
  <2>3. W \in Seq(Frame \X AndnaErr) /\ Len(W) = Len(verdicts) + 1
    BY <2>1, <2>2, AppendProperties
  <2>4. p \in Waiting /\ IsFiniteSet(Waiting)
    BY <1>0 DEF Waiting, Waits, CountInv
  <2>5. Cardinality(Waiting) \in Nat /\ Cardinality(Waiting \ {p}) = Cardinality(Waiting) - 1
        /\ IsFiniteSet(Waiting \ {p}) /\ Cardinality(Waiting \ {p}) \in Nat
    BY <2>4, FS_RemoveElement, FS_CardinalityType
  <2>6. Len(verdicts) + 1 \in 1..MaxStarts
    BY <2>2, <2>5, CliBoundAssumption DEF CountInv
  <2> DEFINE inp == VerifyEvent(file, code)
  <2>7. /\ inp \in VerifyEventInput /\ inp.ts = Len(verdicts) + 1 /\ inp.err_code = code
        /\ inp.frame_hash = None /\ inp.frame_bytes = Some(file)
    <3>1. Len(verdicts) + 1 \in Time /\ {} \in SUBSET Flags
      BY <2>6, TimeAssumption
    <3>2. Some(file) \in {Some(f) : f \in Frame}
      BY <2>1
    <3> QED  BY <3>1, <3>2 DEF VerifyEvent, VerifyEventInput
  <2>8. recorded \in ToldSink(W)
    <3> HIDE DEF inp, file
    <3>1. AppendVerify(OpenedSink(p, found), inp) \in ToldSink(W)
      BY <2>1, <2>2, <2>7, SinkTold, RecordedTold
    <3> QED  BY <3>1 DEF inp, file
  <2> HIDE DEF recorded
  <2>9. sink # None /\ sink[1] = recorded
    BY <1>6 DEF sink, Some, None
  <2>10. ToldFile(verdicts) \subseteq ToldFile(W) /\ ToldSink(verdicts) \subseteq ToldSink(W)
    BY <2>1, <2>2, ToldGrows
  <2> HIDE DEF W
  <2>11. FilesInv'
    <3>1. faults' \in 0..MaxFaults
      BY <1>2, FaultType
    <3> QED  BY <1>1, <2>2, <2>10, <3>1 DEF FilesInv
  <2>12. ASSUME NEW q \in Process  PROVE Sound(W, proc'[q])
    <3>1. CASE q = p
      BY <1>0, <1>4, <2>8, <2>9, <3>1 DEF Sound, PlaceFields, Labels
    <3>2. CASE q # p
      <4>1. proc'[q] = proc[q]
        BY <1>3, <3>2
      <4>2. Sound(verdicts, proc[q])
        BY DEF ProcInv
      <4> QED  BY <2>10, <4>1, <4>2 DEF Sound
    <3> QED  BY <3>1, <3>2
  <2>13. ProcInv'
    <3>1. proc' = [q \in Process |-> proc'[q]]
      BY <1>3
    <3> QED  BY <2>2, <2>12, <3>1 DEF ProcInv
  <2>14. Waiting' = Waiting \ {p}
    BY <1>3, <1>4 DEF Waiting, Waits
  <2>15. CountInv'
    BY <1>1, <2>2, <2>3, <2>5, <2>14 DEF CountInv
  <2> QED  BY <2>11, <2>13, <2>15
<1> QED  BY <1>5, <1>6

\* The lines a command writes, all or some of them, over those that are there.
LEMMA AuditWritten ==
  ASSUME CliInv, NEW p \in Process, proc[p].pc = "write_audit"
  PROVE  /\ OverwrittenAudit(FileOf(proc[p].sink[1].records), audit) \subseteq ToldFile(verdicts)
         /\ PartWritten(p) \subseteq ToldFile(verdicts)
         /\ proc[p].sink[1].records \in Seq(AuditRecord)
<1> DEFINE rs == proc[p].sink[1].records
<1>1. rs \in Seq(Told(verdicts)) /\ audit \in ToldFile(verdicts)
  BY DEF CliInv, ProcInv, Sound, ToldSink, FilesInv
<1> HIDE DEF rs
<1>2. FileOf(rs) \in ToldFile(verdicts) /\ PartialFiles(rs) \subseteq ToldFile(verdicts)
  BY <1>1, FilesTold, PartTold
<1>3. OverwrittenAudit(FileOf(rs), audit) \subseteq ToldFile(verdicts)
  BY <1>1, <1>2, OverwrittenTold
<1>4. \A part \in PartialFiles(rs) : OverwrittenAudit(part, audit) \subseteq ToldFile(verdicts)
  BY <1>1, <1>2, OverwrittenTold
<1>5. PartWritten(p) \subseteq ToldFile(verdicts)
  BY <1>4 DEF PartWritten, rs
<1>6. rs \in Seq(AuditRecord)
  BY <1>1, ToldTypes
<1> QED  BY <1>3, <1>5, <1>6 DEF rs

LEMMA SessionWritten ==
  /\ TornLog \in ReplayFile
  /\ \A recs \in Logs : \A old :
       LogOf(recs) \in ReplayFile /\ OverwrittenLog(recs, old) \subseteq ReplayFile
<1>1. TornLog \in ReplayFile /\ NoLog \in ReplayFile
  BY EmptySeq DEF TornLog, NoLog, ReplayFile
<1>2. \A recs \in Logs : LogOf(recs) \in ReplayFile
  BY DEF LogOf, Logs, ReplayFile
<1> QED  BY <1>1, <1>2 DEF OverwrittenLog

LEMMA VerifySteps ==
  ASSUME CliInv, NEW p \in Process, VerifyStep(p)
  PROVE  CliInv'
<1> USE DEF CliInv
<1>0. Sound(verdicts, proc[p])
  BY DEF ProcInv
<1>1. CASE InitFails(p)
  BY <1>1, Exiting, FilesKept DEF InitFails, Fails
<1>2. CASE VerifyFrame(p)
  <2>1. PICK code \in AndnaErr : Answers(proc[p].file, code) /\ Exits(p, ExitCode(code))
    BY <1>2 DEF VerifyFrame
  <2>2. NoFault \/ Fault
    BY <2>1 DEF Answers, Fails
  <2> QED  BY <1>2, <2>1, <2>2, ExitCodes, Exiting, FilesKept DEF VerifyFrame
<1>3. CASE Verify(p)
  BY <1>3, VerdictStep
<1>4. CASE ExtendLog(p)
  <2>1. PICK recs \in {LoadedOrNew(session), <<>>} :
          /\ NoFault \/ Fault
          /\ proc' = [proc EXCEPT ![p].pc = "create_log", ![p].log = ExtendedLog(p, recs)]
    BY <1>4 DEF ExtendLog, Fails
  <2> DEFINE rec == [file |-> proc[p].file, code |-> proc[p].code, run |-> proc[p].run]
             log == Append(recs, rec)
  <2>2. rec \in VerificationRecord
    BY <1>0, <1>4 DEF ExtendLog, At, Sound, VerificationRecord
  <2>3. recs \in Logs
    BY EmptySeq DEF LoadedOrNew, LoadLog, FilesInv, ReplayFile, Logs, Some, None
  <2>4. log \in Logs
    BY <2>2, <2>3, AppendProperties DEF Logs
  <2>8. proc' = [proc EXCEPT ![p].pc = "create_log", ![p].log = log]
    BY <2>1 DEF ExtendedLog
  <2> HIDE DEF log
  <2>5. Moved(p) /\ proc'[p] = [proc[p] EXCEPT !.pc = "create_log", !.log = log]
    BY <1>4, <2>8 DEF ExtendLog, ProcInv, Moved
  <2>6. Sound(verdicts, proc'[p]) /\ ~Waits(proc'[p])
    BY <1>0, <2>4, <2>5 DEF Sound, PlaceFields, Labels, Waits
  <2>7. FilesInv'
    BY <1>4, <2>1, FaultType DEF ExtendLog, FilesInv
  <2> QED  BY <2>5, <2>6, <2>7, Moves
<1>5. CASE CreateLog(p)
  <2>1. FilesInv'
    BY <1>5, FaultType, SessionWritten DEF CreateLog, Fails, FilesInv
  <2> QED  BY <1>5, <2>1, Going, Exiting DEF CreateLog, Labels
<1>6. CASE WriteLog(p)
  <2>1. session' \in ReplayFile
    BY <1>0, <1>6, SessionWritten DEF WriteLog, Sound
  <2>2. FilesInv'
    BY <1>6, <2>1 DEF WriteLog, count, FilesInv
  <2> QED  BY <1>6, <2>2, Going DEF WriteLog, count, Labels
<1>7. CASE WriteLogFails(p)
  <2>1. FilesInv'
    BY <1>7, FaultType, SessionWritten DEF WriteLogFails, Fails, FilesInv
  <2> QED  BY <1>7, <2>1, Exiting DEF WriteLogFails
<1>8. CASE OpenSink(p)
  <2>6. PICK found \in {audit, NoFile} :
          /\ NoFault \/ Fault
          /\ proc' = [proc EXCEPT ![p].pc = "create_audit",
                                  ![p].sink = Some(OpenedSink(p, found))]
    BY <1>8 DEF OpenSink, Fails
  <2> DEFINE sink == Some(OpenedSink(p, found))
  <2>1. sink # None /\ sink[1] \in ToldSink(verdicts)
    BY SinkTold
  <2>2. proc' = [proc EXCEPT ![p].pc = "create_audit", ![p].sink = sink]
    BY <2>6
  <2> HIDE DEF sink
  <2>3. Moved(p) /\ proc'[p] = [proc[p] EXCEPT !.pc = "create_audit", !.sink = sink]
    BY <1>8, <2>2 DEF OpenSink, ProcInv, Moved
  <2>4. Sound(verdicts, proc'[p]) /\ ~Waits(proc'[p])
    BY <1>0, <2>1, <2>3 DEF Sound, PlaceFields, Labels, Waits
  <2>5. FilesInv'
    BY <1>8, <2>6, FaultType DEF OpenSink, FilesInv
  <2> QED  BY <2>3, <2>4, <2>5, Moves
<1>9. CASE CreateAudit(p)
  <2>1. FileOf(<<>>) \in ToldFile(verdicts)
    BY EmptySeq, FilesTold
  <2>2. FilesInv'
    BY <1>9, <2>1, FaultType DEF CreateAudit, Fails, FilesInv
  <2>3. proc[p].sink # None
    BY <1>0, <1>9 DEF CreateAudit, At, Sound
  <2> QED  BY <1>9, <2>2, <2>3, Going, Exiting, ExitCodes DEF CreateAudit, Labels
<1>10. CASE WriteAudit(p)
  <2>1. audit' \in ToldFile(verdicts) /\ flushed' \in Seq(AuditRecord)
    BY <1>10, AuditWritten DEF WriteAudit, At
  <2>2. FilesInv'
    BY <1>10, <2>1 DEF WriteAudit, count, FilesInv
  <2> QED  BY <1>10, <2>2, Exiting, ExitCodes DEF WriteAudit, count
<1>11. CASE WriteAuditFails(p)
  <2>1. audit' \in ToldFile(verdicts)
    BY <1>11, AuditWritten DEF WriteAuditFails, At
  <2>2. FilesInv'
    BY <1>11, <2>1, FaultType DEF WriteAuditFails, Fails, FilesInv
  <2> QED  BY <1>11, <2>2, Exiting, ExitCodes DEF WriteAuditFails
<1> QED
  BY <1>1, <1>2, <1>3, <1>4, <1>5, <1>6, <1>7, <1>8, <1>9, <1>10, <1>11 DEF VerifyStep

\* The copies of the audit log, whole or not, tell what it tells.
LEMMA CopiesTold ==
  ASSUME CliInv
  PROVE  PartialFiles(audit.recs) \subseteq ToldFile(verdicts)
BY PartTold DEF CliInv, FilesInv, ToldFile

\* Changing one file of the bundle.
LEMMA BundleFiles ==
  ASSUME CliInv,
         \/ \E e \in ReplayFile : bundle' = [bundle EXCEPT !.evidence = e]
         \/ \E a \in ToldFile(verdicts) : bundle' = [bundle EXCEPT !.audit = a]
         \/ \E v : bundle' = [bundle EXCEPT !.validate = v]
         \/ \E m : bundle' = [bundle EXCEPT !.manifest = m]
         \/ UNCHANGED bundle,
         UNCHANGED <<frames, session, verdicts, flushed>>, NoFault \/ Fault,
         audit' \in ToldFile(verdicts)
  PROVE  FilesInv'
<1>1. FilesInv /\ faults' \in 0..MaxFaults
  BY FaultType DEF CliInv
<1>2. /\ DOMAIN bundle' = {"evidence", "audit", "validate", "manifest"}
      /\ bundle'.evidence \in ReplayFile /\ bundle'.audit \in ToldFile(verdicts)
  BY <1>1 DEF FilesInv
<1> QED  BY <1>1, <1>2 DEF FilesInv

LEMMA ExportSteps ==
  ASSUME CliInv, NEW p \in Process, ExportStep(p)
  PROVE  CliInv'
<1> USE DEF CliInv
<1>0. Sound(verdicts, proc[p]) /\ audit \in ToldFile(verdicts)
  BY DEF ProcInv, FilesInv
<1>10. ASSUME NEW o, Moved(p),
             proc'[p] = [proc[p] EXCEPT !.pc = "write_validate", !.outcome = o]
      PROVE  ProcInv' /\ CountInv'
  <2>1. Sound(verdicts, proc'[p]) /\ ~Waits(proc'[p])
    BY <1>0, <1>10 DEF Sound, PlaceFields, Labels, Waits
  <2> QED  BY <1>10, <2>1, Moves
<1>1. CASE LoadExport(p)
  <2>1. FilesInv'
    BY <1>1 DEF LoadExport, count, FilesInv
  <2>2. CASE Exits(p, 2)
    BY <1>1, <2>1, <2>2, Exiting DEF LoadExport, count
  <2>3. CASE ~Exits(p, 2)
    <3>1. Moved(p) /\ proc'[p] = [proc[p] EXCEPT !.pc = "save_evidence", !.log = session.recs]
      BY <1>1, <2>3 DEF LoadExport, count, ProcInv, Moved
    <3>2. session.recs \in Logs
      BY DEF FilesInv, ReplayFile, Logs
    <3>3. Sound(verdicts, proc'[p]) /\ ~Waits(proc'[p])
      BY <1>0, <3>1, <3>2 DEF Sound, PlaceFields, Labels, Waits
    <3> QED  BY <2>1, <3>1, <3>3, Moves
  <2> QED  BY <2>2, <2>3
<1>2. CASE SaveEvidence(p)
  <2>1. LogOf(proc[p].log) \in ReplayFile
    BY <1>0, SessionWritten DEF Sound
  <2>2. FilesInv'
    BY <1>0, <1>2, <2>1, BundleFiles DEF SaveEvidence, count, NoFault
  <2> QED  BY <1>2, <2>2, Going DEF SaveEvidence, count, Labels
<1>3. CASE SaveEvidenceFails(p)
  <2>1. bundle.evidence \in ReplayFile /\ TornLog \in ReplayFile
    BY SessionWritten DEF FilesInv
  <2>2. FilesInv'
    BY <1>0, <1>3, <2>1, BundleFiles DEF SaveEvidenceFails, Fails
  <2> QED  BY <1>3, <2>2, Exiting DEF SaveEvidenceFails
<1>4. CASE CopyAudit(p)
  <2>1. FilesInv'
    BY <1>0, <1>4, BundleFiles DEF CopyAudit, count, NoFault
  <2>2. CASE Goes(p, "validate_audit")
    BY <1>4, <2>1, <2>2, Going DEF CopyAudit, count, Labels
  <2>3. CASE ~Goes(p, "validate_audit")
    <3>1. Moved(p) /\ proc'[p] = [proc[p] EXCEPT !.pc = "write_validate", !.outcome = NoAuditLog]
      BY <1>4, <2>3 DEF CopyAudit, count, ProcInv, Moved
    <3> QED  BY <2>1, <3>1, <1>10
  <2> QED  BY <2>2, <2>3
<1>5. CASE CopyAuditFails(p)
  <2>1. bundle.audit \in ToldFile(verdicts)
    BY DEF FilesInv
  <2>2. FilesInv'
    BY <1>0, <1>5, <2>1, CopiesTold, BundleFiles DEF CopyAuditFails, Fails
  <2>3. Moved(p) /\ proc'[p] = [proc[p] EXCEPT !.pc = "write_validate", !.outcome = NoAuditLog]
    BY <1>5 DEF CopyAuditFails, ProcInv, Moved
  <2> QED  BY <2>2, <2>3, <1>10
<1>6. CASE ValidateAudit(p)
  <2> DEFINE o == ValidateJsonl(audit)
  <2>1. proc' = [proc EXCEPT ![p].pc = "write_validate", ![p].outcome = o]
    BY <1>6 DEF ValidateAudit
  <2> HIDE DEF o
  <2>2. Moved(p) /\ proc'[p] = [proc[p] EXCEPT !.pc = "write_validate", !.outcome = o]
    BY <1>6, <2>1 DEF ValidateAudit, count, ProcInv, Moved
  <2>3. FilesInv'
    BY <1>6 DEF ValidateAudit, count, FilesInv
  <2> QED  BY <2>2, <2>3, <1>10
<1>7. CASE ValidateAuditFails(p)
  <2>1. FilesInv'
    BY <1>7, FilesKept DEF ValidateAuditFails, Fails
  <2>2. Moved(p) /\ proc'[p] = [proc[p] EXCEPT !.pc = "write_validate", !.outcome = NoAuditLog]
    BY <1>7 DEF ValidateAuditFails, ProcInv, Moved
  <2> QED  BY <2>1, <2>2, <1>10
<1>8. CASE WriteValidate(p)
  <2>1. FilesInv'
    BY <1>0, <1>8, BundleFiles DEF WriteValidate, Fails
  <2> QED  BY <1>8, <2>1, Going DEF WriteValidate, Labels
<1>9. CASE WriteManifest(p)
  <2>1. FilesInv'
    BY <1>0, <1>9, BundleFiles DEF WriteManifest, Fails
  <2> QED  BY <1>9, <2>1, Exiting DEF WriteManifest
<1> QED
  BY <1>1, <1>2, <1>3, <1>4, <1>5, <1>6, <1>7, <1>8, <1>9 DEF ExportStep

LEMMA CrashStep ==
  ASSUME CliInv, NEW p \in Process, Crash(p)
  PROVE  CliInv'
<1> USE DEF CliInv
<1>1. Moved(p) /\ proc'[p] = Off
  BY DEF Crash, ProcInv, Moved
<1>2. ProcInv' /\ CountInv'
  <2>1. Sound(verdicts, proc'[p]) /\ ~Waits(proc'[p])
    BY <1>1, OffSound DEF Waits
  <2> QED  BY <1>1, <2>1, Moves
<1>3. FilesInv'
  <2>1. CASE UNCHANGED <<frames, audit, bundle>>
    BY <2>1, FilesKept DEF Crash
  <2>2. CASE At(p, "write_audit") /\ audit' \in PartWritten(p) /\ UNCHANGED bundle
    <3>1. audit' \in ToldFile(verdicts)
      BY <2>2, AuditWritten DEF At
    <3> QED  BY <2>2, <3>1, BundleFiles DEF Crash
  <2>3. CASE bundle' = [bundle EXCEPT !.evidence = TornLog] /\ UNCHANGED audit
    <3>1. audit' \in ToldFile(verdicts)
      BY <2>3 DEF FilesInv
    <3> QED  BY <2>3, <3>1, SessionWritten, BundleFiles DEF Crash
  <2>4. CASE /\ UNCHANGED audit
             /\ \E left \in PartialFiles(audit.recs) : bundle' = [bundle EXCEPT !.audit = left]
    <3>1. audit' \in ToldFile(verdicts)
      BY <2>4 DEF FilesInv
    <3> QED  BY <2>4, <3>1, CopiesTold, BundleFiles DEF Crash
  <2> QED  BY <2>1, <2>2, <2>3, <2>4 DEF Crash
<1> QED  BY <1>2, <1>3

\* A command begins, and with it the time for one more verdict.
LEMMA StartStep ==
  ASSUME CliInv, NEW p \in Process, Start(p)
  PROVE  CliInv'
<1> USE DEF CliInv
<1>1. PICK job \in Job :
        proc' = [proc EXCEPT ![p] = [Off EXCEPT !.pc = FirstStep(job.cmd), !.job = job,
                                        !.run = starts + 1]]
  BY DEF Start
<1>2. /\ starts' = starts + 1 /\ starts < MaxStarts
      /\ UNCHANGED <<frames, session, audit, bundle, faults, verdicts, flushed>>
      /\ starts \in Nat /\ MaxStarts \in Nat
  BY CliBoundAssumption DEF Start, CountInv
<1>3. /\ proc' = [q \in Process |-> IF q = p THEN proc'[p] ELSE proc[q]]
      /\ proc'[p] = [Off EXCEPT !.pc = FirstStep(job.cmd), !.job = job, !.run = starts + 1]
  BY <1>1 DEF ProcInv
<1>4. /\ DOMAIN proc'[p] = PlaceFields /\ proc'[p].pc = FirstStep(job.cmd)
      /\ proc'[p].job = job /\ proc'[p].run = starts + 1
      /\ \A field \in PlaceFields \ {"pc", "job", "run"} : proc'[p][field] = Off[field]
  BY <1>3 DEF Off, PlaceFields
<1>5. /\ FirstStep(job.cmd) \in {"generate", "read_frame", "load_replay", "load_export"}
      /\ FirstStep(job.cmd) = "read_frame" =>
           job.cmd \in {"verify", "verify-frame", "replay", "tamper"} /\ job.in \in Path
      /\ FirstStep(job.cmd) = "load_replay" => job.cmd = "replay" /\ job.in \in Path \cup {Absent}
  BY CliJobAssumption DEF FirstStep
<1>6. Sound(verdicts, proc'[p])
  BY <1>2, <1>4, <1>5, OffSound DEF Sound, PlaceFields, Labels
<1>7. ProcInv'
  <2>1. ASSUME NEW q \in Process  PROVE Sound(verdicts, proc'[q])
    BY <1>3, <1>6 DEF ProcInv
  <2>2. proc' = [q \in Process |-> proc'[q]]
    BY <1>3
  <2> QED  BY <1>2, <2>1, <2>2 DEF ProcInv
<1>8. CountInv'
  <2>1. Waiting' \subseteq Waiting \cup {p}
    BY <1>3 DEF Waiting
  <2>2. /\ IsFiniteSet(Waiting \cup {p}) /\ Cardinality(Waiting) \in Nat
        /\ Cardinality(Waiting \cup {p}) <= Cardinality(Waiting) + 1
        /\ Cardinality(Waiting \cup {p}) \in Nat
    <3>1. IsFiniteSet(Waiting)
      BY DEF CountInv
    <3>2. /\ IsFiniteSet(Waiting \cup {p})
          /\ Cardinality(Waiting \cup {p}) =
               IF p \in Waiting THEN Cardinality(Waiting) ELSE Cardinality(Waiting) + 1
      BY <3>1, FS_AddElement
    <3>3. Cardinality(Waiting) \in Nat /\ Cardinality(Waiting \cup {p}) \in Nat
      BY <3>1, <3>2, FS_CardinalityType
    <3> QED  BY <3>2, <3>3
  <2>3. /\ IsFiniteSet(Waiting') /\ Cardinality(Waiting') \in Nat
        /\ Cardinality(Waiting') <= Cardinality(Waiting \cup {p})
    BY <2>1, <2>2, FS_Subset, FS_CardinalityType
  <2>4. Len(verdicts) \in Nat
    BY LenProperties DEF CountInv
  <2> QED  BY <1>2, <2>2, <2>3, <2>4 DEF CountInv
<1>9. FilesInv'
  BY <1>2 DEF FilesInv
<1> QED  BY <1>7, <1>8, <1>9

LEMMA CliInit == Init => CliInv
<1> SUFFICES ASSUME Init  PROVE CliInv
  OBVIOUS
<1>1. /\ NoFile \in ToldFile(verdicts) /\ NoLog \in ReplayFile
      /\ <<>> \in Seq(AuditRecord) /\ <<>> \in Seq(Frame \X AndnaErr) /\ Len(<<>>) = 0
  BY EmptySeq, FilesTold DEF NoLog, ReplayFile
<1>2. FilesInv
  BY <1>1, PlacedAssumption, CliBoundAssumption DEF Init, NoBundle, FilesInv
<1>3. ProcInv
  BY OffSound DEF Init, ProcInv
<1>4. CountInv
  <2>1. Waiting = {}
    BY OffSound DEF Init, Waiting, Waits
  <2> QED  BY <1>1, <2>1, FS_EmptySet, CliBoundAssumption DEF Init, CountInv
<1> QED  BY <1>2, <1>3, <1>4 DEF CliInv

LEMMA CliAlways == Spec => []CliInv
<1>1. CliInv /\ [Next]_vars => CliInv'
  <2> SUFFICES ASSUME CliInv, [Next]_vars  PROVE CliInv'
    OBVIOUS
  <2>1. CASE UNCHANGED vars
    BY <2>1 DEF vars, count, CliInv, FilesInv, ProcInv, CountInv, Waiting
  <2>2. CASE Next
    <3>1. PICK p \in Process :
            Start(p) \/ FrameStep(p) \/ VerifyStep(p) \/ ReplayStep(p) \/ ExportStep(p) \/ Crash(p)
      BY <2>2 DEF Next
    <3> QED
      BY <3>1, StartStep, FrameSteps, VerifySteps, ReplaySteps, ExportSteps, CrashStep
  <2> QED  BY <2>1, <2>2
<1> QED  BY CliInit, <1>1, PTL DEF Spec

-----------------------------------------------------------------------------
(* Theorems.                                                                 *)

\* What the validator accepts of records that tell the history is in its order:
\* the hash of each record covers the one before it.
LEMMA ChainTells ==
  ASSUME NEW V, NEW rs \in Seq(Told(V)), Chained(rs), NEW i \in 1..Len(rs)
  PROVE  /\ Tells(V, rs[i].content)
         /\ i > 1 => rs[i-1].content.ts < rs[i].content.ts
<1>1. /\ rs[i] \in Told(V)
      /\ i > 1 => rs[i-1] \in Told(V) /\ i # 1
      /\ rs[i].prev_hash = ExpectedPrev(rs, i)
  <2>1. Len(rs) \in Nat
    BY LenProperties
  <2>2. RecordOk(rs, i)
    BY PassesIsRecordOk DEF Chained
  <2>3. i > 1 => i - 1 \in 1..Len(rs)
    BY <2>1
  <2> QED  BY <2>2, <2>3, ElementOfSeq DEF RecordOk
<1>2. ASSUME NEW r \in Told(V)
      PROVE  LET n == Len(r.prev_hash)
             IN  /\ n \in Nat /\ r.record_hash = Append(r.prev_hash, r.content)
                 /\ Len(r.record_hash) = n + 1 /\ r.record_hash[n + 1] = r.content
                 /\ \A j \in 1..n : r.record_hash[j] = r.prev_hash[j]
                 /\ r.record_hash \in History(V)
  <2> DEFINE c == r.content  prev == r.prev_hash
  <2>1. c \in Content /\ prev \in Seq(Content)
    BY DEF Told, AuditRecord
  <2>2. r.record_hash = Append(prev, c) /\ r.record_hash \in History(V)
    BY DEF Told, ComputeRecordHash
  <2> HIDE DEF c, prev
  <2>3. /\ Len(prev) \in Nat /\ Len(Append(prev, c)) = Len(prev) + 1
        /\ Append(prev, c)[Len(prev) + 1] = c
        /\ \A j \in 1..Len(prev) : Append(prev, c)[j] = prev[j]
    BY <2>1, AppendProperties, LenProperties
  <2> QED  BY <2>2, <2>3 DEF c, prev
<1> DEFINE r == rs[i]
           n == Len(r.prev_hash)
<1>3. /\ n \in Nat /\ Len(r.record_hash) = n + 1 /\ r.record_hash[n + 1] = r.content
      /\ \A j \in 1..n : r.record_hash[j] = r.prev_hash[j]
      /\ \A j \in 1..n + 1 :
           Tells(V, r.record_hash[j]) /\ (j > 1 => r.record_hash[j-1].ts < r.record_hash[j].ts)
  BY <1>1, <1>2 DEF History
<1>4. Tells(V, r.content)
  <2>1. n + 1 \in 1..n + 1
    BY <1>3
  <2> QED  BY <1>3, <2>1
<1>5. ASSUME i > 1  PROVE rs[i-1].content.ts < r.content.ts
  <2>1. r.prev_hash = rs[i-1].record_hash
    BY <1>1, <1>5 DEF ExpectedPrev
  <2>2. n > 0 /\ r.prev_hash[n] = rs[i-1].content
    BY <1>1, <1>2, <1>5, <2>1
  <2>3. r.record_hash[n] = rs[i-1].content
    BY <1>3, <2>2, SMTT(30)
  <2>4. n + 1 \in 1..n + 1 /\ n + 1 > 1 /\ (n + 1) - 1 = n
    BY <1>3, <2>2
  <2>5. r.record_hash[n].ts < r.record_hash[n + 1].ts
    BY <1>3, <2>4
  <2> QED  BY <1>3, <2>3, <2>5
<1> QED  BY <1>4, <1>5

\* However commands interleave on the unlocked files, are killed and fail, an
\* audit log that passes the validator, or its copy in a bundle, tells verdicts
\* that were given, in their order (sink.rs:149-158, main.rs:265-267, 435).
THEOREM ValidLogIsHistory == Spec => []ValidAuditTellsHistory
<1>1. CliInv => ValidAuditTellsHistory
  <2> SUFFICES ASSUME CliInv, NEW log \in {audit, bundle.audit}, ValidateJsonl(log) = "Ok",
                      NEW i \in 1..Len(log.recs)
               PROVE  /\ verdicts[log.recs[i].content.ts] = AuditVerdicts(log.recs)[i]
                      /\ i > 1 => log.recs[i-1].content.ts < log.recs[i].content.ts
    BY DEF ValidAuditTellsHistory
  <2> DEFINE rs == log.recs
  <2>1. log \in ToldFile(verdicts)
    BY DEF CliInv, FilesInv
  <2>2. rs \in Seq(Told(verdicts)) /\ ValidateRecords(rs) = "Ok"
    BY <2>1 DEF ToldFile, ValidateJsonl
  <2>3. AuditVerdicts(rs)[i] = <<rs[i].content.frame_hash[1], rs[i].content.err_code>>
    BY DEF AuditVerdicts
  <2> HIDE DEF rs
  <2>4. Chained(rs)
    BY <2>2, LenProperties, ValidatedIsChained
  <2>5. /\ Tells(verdicts, rs[i].content)
        /\ i > 1 => rs[i-1].content.ts < rs[i].content.ts
    BY <2>2, <2>4, ChainTells DEF rs
  <2> QED  BY <2>3, <2>5 DEF Tells, rs
<1> QED  BY <1>1, CliAlways, PTL

\* The files and the places of the commands keep their types.
THEOREM CliTyped == Spec => []TypeOK
<1>1. CliInv => TypeOK
  <2> SUFFICES ASSUME CliInv  PROVE TypeOK
    OBVIOUS
  <2>1. audit \in AuditFile /\ bundle.audit \in AuditFile
    BY ToldTypes DEF CliInv, FilesInv
  <2>2. ASSUME NEW p \in Process
        PROVE  /\ proc[p].pc \in Labels
               /\ proc[p].file \in FrameFile
               /\ proc[p].code \in AndnaErr
               /\ proc[p].log \in Seq(VerificationRecord)
               /\ proc[p].sink # None => proc[p].sink[1] \in AuditSinkState
               /\ proc[p].rc \in {None, Some(0), Some(1), Some(2)}
    <3>1. Sound(verdicts, proc[p])
      BY DEF CliInv, ProcInv
    <3> QED  BY <3>1, ToldTypes DEF Sound, Logs, ExitStatus
  <2> QED  BY <2>1, <2>2 DEF TypeOK, CliInv, FilesInv, CountInv
<1> QED  BY <1>1, CliAlways, PTL

-----------------------------------------------------------------------------
(* One command at a time.  What the one process holds and what is in the     *)
(* files then fit together; nothing is said of several.                      *)

Saving == {"create_log", "write_log", "open_sink", "create_audit", "write_audit"}
VerifyLabels == {"read_frame", "verify", "load_log"} \cup Saving

\* The record verify saves.
RecordOf(x) == [file |-> x.file, code |-> x.code, run |-> x.run]

\* From the loading of the log on, a verify holds the log with its record, which
\* is in the file once it is written.
Saved(x) ==
  /\ x.job.cmd = "verify" => x.pc \in VerifyLabels
  /\ x.pc \in Saving => x.log # <<>> /\ x.log[Len(x.log)] = RecordOf(x)
  /\ x.pc = "write_log" => session = TornLog
  /\ x.pc \in {"open_sink", "create_audit", "write_audit"} => session = LogOf(x.log)

SavedInv == Alone => \A p \in Process : Saved(proc[p])

\* A command that ends, or is killed.
LEMMA OffSaved ==
  /\ Saved(Off)'
  /\ \A rc : Saved([Off EXCEPT !.rc = Some(rc)])'
BY DEF Saved, Off, NoJob, Saving

LEMMA ExitSaved ==
  ASSUME CliInv, NEW p \in Process, NEW rc, Exits(p, rc)
  PROVE  /\ Saved(proc[p])' /\ proc'[p].pc = "off" /\ proc'[p].rc = Some(rc)
         /\ proc'[p].sink = None
<1>1. proc'[p] = [Off EXCEPT !.rc = Some(rc)]
  BY DEF Exits, CliInv, ProcInv
<1> QED  BY <1>1, OffSaved DEF Off

\* What the commands on frame files do to their process.
LEMMA FrameEffects ==
  ASSUME CliInv, NEW p \in Process, FrameStep(p)
  PROVE  LET x == proc[p]
             y == proc'[p]
         IN  /\ UNCHANGED <<session, audit, bundle, verdicts>>
             /\ x.pc \in {"read_frame", "generate", "create_frame", "write_frame"}
             /\ \/ y.pc = "off" /\ Saved(proc[p])' /\ y.sink = None
                \/ /\ y.job = x.job /\ y.log = x.log /\ y.sink = x.sink
                   /\ \/ x.pc = "read_frame" /\ y.pc = AfterRead(x.job.cmd)
                         /\ x.job.cmd \in {"verify", "verify-frame", "replay", "tamper"}
                      \/ x.pc = "generate" /\ y.pc = "create_frame"
                      \/ x.pc = "create_frame" /\ y.pc = "write_frame"
<1>0. DOMAIN proc = Process /\ DOMAIN proc[p] = PlaceFields /\ Sound(verdicts, proc[p])
  BY DEF CliInv, ProcInv, Sound
<1>1. CASE ReadFrame(p)
  <2>1. \E file : proc' = [proc EXCEPT ![p].pc = AfterRead(proc[p].job.cmd), ![p].file = file]
    BY <1>1 DEF ReadFrame, Cmd
  <2>2. proc[p].pc = "read_frame"
    BY <1>1 DEF ReadFrame, At
  <2>3. proc[p].job.cmd \in {"verify", "verify-frame", "replay", "tamper"}
    BY <1>0, <2>2 DEF Sound
  <2>4. /\ proc'[p].job = proc[p].job /\ proc'[p].log = proc[p].log
        /\ proc'[p].sink = proc[p].sink /\ proc'[p].pc = AfterRead(proc[p].job.cmd)
    BY <1>0, <2>1 DEF PlaceFields
  <2> QED  BY <1>1, <2>2, <2>3, <2>4 DEF ReadFrame
<1>2. CASE ReadFrameFails(p)
  BY <1>2, ExitSaved DEF ReadFrameFails, At
<1>3. CASE Generate(p)
  <2>1. proc[p].pc = "generate" /\ UNCHANGED <<session, audit, bundle, verdicts>>
    BY <1>3 DEF Generate, At
  <2>2. CASE Exits(p, 1)
    BY <2>1, <2>2, ExitSaved
  <2>3. CASE \E f : proc' = [proc EXCEPT ![p].pc = "create_frame", ![p].file = f]
    <3>1. /\ proc'[p].job = proc[p].job /\ proc'[p].log = proc[p].log
          /\ proc'[p].sink = proc[p].sink /\ proc'[p].pc = "create_frame"
      BY <1>0, <2>3 DEF PlaceFields
    <3> QED  BY <2>1, <3>1
  <2> QED  BY <1>3, <2>2, <2>3 DEF Generate
<1>4. CASE CreateFrame(p)
  <2>1. proc[p].pc = "create_frame" /\ UNCHANGED <<session, audit, bundle, verdicts>>
    BY <1>4 DEF CreateFrame, At
  <2>2. CASE Exits(p, 2)
    BY <2>1, <2>2, ExitSaved
  <2>3. CASE Goes(p, "write_frame")
    <3>1. /\ proc'[p].job = proc[p].job /\ proc'[p].log = proc[p].log
          /\ proc'[p].sink = proc[p].sink /\ proc'[p].pc = "write_frame"
      BY <1>0, <2>3 DEF PlaceFields, Goes
    <3> QED  BY <2>1, <3>1
  <2> QED  BY <1>4, <2>2, <2>3 DEF CreateFrame
<1>5. CASE WriteFrame(p)
  BY <1>5, ExitSaved DEF WriteFrame, At
<1> QED  BY <1>1, <1>2, <1>3, <1>4, <1>5 DEF FrameStep

\* A command that begins.
LEMMA StartEffects ==
  ASSUME CliInv, NEW p \in Process, Start(p)
  PROVE  LET y == proc'[p]
         IN  /\ UNCHANGED <<session, audit, bundle, verdicts>>
             /\ proc[p].pc = "off"
             /\ y.pc = FirstStep(y.job.cmd) /\ y.job \in Job
             /\ y.log = <<>> /\ y.sink = None
             /\ y.pc \in {"generate", "read_frame", "load_replay", "load_export"}
             /\ y.job.cmd = "verify" => y.pc = "read_frame"
             /\ y.pc = "read_frame" /\ y.job.cmd = "replay" => FALSE
<1>1. PICK job \in Job :
        proc' = [proc EXCEPT ![p] = [Off EXCEPT !.pc = FirstStep(job.cmd), !.job = job,
                                        !.run = starts + 1]]
  BY DEF Start
<1>2. proc'[p] = [Off EXCEPT !.pc = FirstStep(job.cmd), !.job = job, !.run = starts + 1]
  BY <1>1 DEF CliInv, ProcInv
<1>3. /\ proc'[p].pc = FirstStep(job.cmd) /\ proc'[p].job = job
      /\ proc'[p].log = <<>> /\ proc'[p].sink = None
  BY <1>2 DEF Off
<1>4. /\ FirstStep(job.cmd) \in {"generate", "read_frame", "load_replay", "load_export"}
      /\ job.cmd = "verify" => FirstStep(job.cmd) = "read_frame"
      /\ job.cmd = "replay" => FirstStep(job.cmd) = "load_replay"
  BY CliJobAssumption DEF FirstStep
<1> QED  BY <1>3, <1>4 DEF Start, At

\* The fields of a process that only goes to another label.
LEMMA GoesEffects ==
  ASSUME CliInv, NEW p \in Process, NEW pc, Goes(p, pc)
  PROVE  /\ proc'[p].pc = pc /\ proc'[p].job = proc[p].job /\ proc'[p].file = proc[p].file
         /\ proc'[p].code = proc[p].code /\ proc'[p].run = proc[p].run
         /\ proc'[p].log = proc[p].log /\ proc'[p].sink = proc[p].sink
         /\ proc'[p].outcome = proc[p].outcome
<1>1. DOMAIN proc = Process /\ DOMAIN proc[p] = PlaceFields
  BY DEF CliInv, ProcInv, Sound
<1> QED  BY <1>1 DEF Goes, PlaceFields

\* Steps that come to no label of saving.
LEMMA NotSaving ==
  ASSUME NEW p \in Process, proc'[p].pc \notin Saving,
         proc'[p].job.cmd = "verify" => proc'[p].pc \in VerifyLabels
  PROVE  Saved(proc[p])'
BY DEF Saved, Saving

\* The verification and the loading of the log.
LEMMA VerifyEffects ==
  ASSUME CliInv, NEW p \in Process, Verify(p)
  PROVE  /\ UNCHANGED <<session, audit, bundle>> /\ proc[p].pc = "verify"
         /\ \E code \in AndnaErr, found \in {audit, NoFile} :
              LET x == proc[p]
                  y == proc'[p]
              IN  /\ AnswersFinding(x.file, code, found)
                  /\ y.pc = "load_log" /\ y.job = x.job /\ y.file = x.file /\ y.run = x.run
                  /\ y.code = code
                  /\ y.sink = IF code = "Length" THEN x.sink
                              ELSE Some(AppendVerify(OpenedSink(p, found),
                                                     VerifyEvent(x.file, code)))
                  /\ verdicts' = IF code = "Length" THEN verdicts
                                 ELSE Append(verdicts, <<x.file, code>>)
<1>0. DOMAIN proc = Process /\ DOMAIN proc[p] = PlaceFields
  BY DEF CliInv, ProcInv, Sound
<1>1. PICK code \in AndnaErr, found \in {audit, NoFile} :
        /\ AnswersFinding(proc[p].file, code, found)
        /\ proc' = [proc EXCEPT ![p].pc = "load_log", ![p].code = code,
                     ![p].sink = IF code = "Length" THEN @
                                 ELSE Some(AppendVerify(OpenedSink(p, found),
                                                        VerifyEvent(proc[p].file, code)))]
        /\ verdicts' = IF code = "Length" THEN verdicts
                       ELSE Append(verdicts, <<proc[p].file, code>>)
  BY Zenon DEF Verify
<1> DEFINE recorded == Some(AppendVerify(OpenedSink(p, found), VerifyEvent(proc[p].file, code)))
<1>2. proc' = [proc EXCEPT ![p].pc = "load_log", ![p].code = code,
                           ![p].sink = IF code = "Length" THEN @ ELSE recorded]
  BY <1>1
<1> HIDE DEF recorded
<1>3. /\ proc'[p].pc = "load_log" /\ proc'[p].job = proc[p].job
      /\ proc'[p].file = proc[p].file /\ proc'[p].run = proc[p].run /\ proc'[p].code = code
      /\ proc'[p].sink = IF code = "Length" THEN proc[p].sink ELSE recorded
  BY <1>0, <1>2 DEF PlaceFields
<1>4. UNCHANGED <<session, audit, bundle>> /\ proc[p].pc = "verify"
  BY DEF Verify, At
<1> QED  BY <1>1, <1>3, <1>4 DEF recorded

LEMMA ExtendEffects ==
  ASSUME CliInv, NEW p \in Process, ExtendLog(p)
  PROVE  LET x == proc[p]
             y == proc'[p]
         IN  /\ UNCHANGED <<session, audit, bundle, verdicts>>
             /\ x.pc = "load_log" /\ y.pc = "create_log"
             /\ y.job = x.job /\ y.file = x.file /\ y.code = x.code /\ y.run = x.run
             /\ y.sink = x.sink
             /\ \E recs \in Logs :
                  /\ recs = LoadedOrNew(session) \/ Fault
                  /\ y.log = Append(recs, RecordOf(x))
             /\ LoadedOrNew(session) \in Logs /\ RecordOf(x) \in VerificationRecord
             /\ RecordOf(y) = RecordOf(x)
<1>0. DOMAIN proc = Process /\ DOMAIN proc[p] = PlaceFields /\ Sound(verdicts, proc[p])
  BY DEF CliInv, ProcInv, Sound
<1>6. PICK recs \in {LoadedOrNew(session), <<>>} :
        /\ recs = LoadedOrNew(session) \/ Fault
        /\ proc' = [proc EXCEPT ![p].pc = "create_log", ![p].log = ExtendedLog(p, recs)]
  BY DEF ExtendLog, Fails
<1> DEFINE log == Append(recs, RecordOf(proc[p]))
<1>1. proc' = [proc EXCEPT ![p].pc = "create_log", ![p].log = log]
  BY <1>6 DEF ExtendedLog, RecordOf
<1> HIDE DEF log
<1>2. /\ proc'[p].pc = "create_log" /\ proc'[p].job = proc[p].job
      /\ proc'[p].file = proc[p].file /\ proc'[p].code = proc[p].code
      /\ proc'[p].run = proc[p].run /\ proc'[p].sink = proc[p].sink /\ proc'[p].log = log
  BY <1>0, <1>1 DEF PlaceFields
<1>3. UNCHANGED <<session, audit, bundle, verdicts>> /\ proc[p].pc = "load_log"
  BY DEF ExtendLog, At
<1>4. LoadedOrNew(session) \in Logs /\ recs \in Logs
  <2>1. session.recs \in Logs
    BY DEF CliInv, FilesInv, ReplayFile, Logs
  <2>2. <<>> \in Logs
    BY EmptySeq DEF Logs
  <2> QED  BY <2>1, <2>2 DEF LoadedOrNew, LoadLog, Some, None
<1>5. RecordOf(proc[p]) \in VerificationRecord
  BY <1>0, <1>3 DEF Sound, RecordOf, VerificationRecord
<1> QED  BY <1>2, <1>3, <1>4, <1>5, <1>6 DEF log, RecordOf

\* What is written over a log that was truncated is the whole of it.
LEMMA WrittenWhole ==
  ASSUME NEW recs \in Logs, recs # <<>>
  PROVE  OverwrittenLog(recs, TornLog) = {LogOf(recs)}
<1>1. Len(recs) \in Nat /\ Len(recs) # 0 /\ Len(TornLog.recs) = 0
  BY EmptySeq, LenProperties DEF Logs, TornLog
<1> QED  BY <1>1 DEF OverwrittenLog

LEMMA VerifySaved ==
  ASSUME CliInv, NEW p \in Process, Saved(proc[p]), VerifyStep(p)
  PROVE  Saved(proc[p])'
<1>0. Sound(verdicts, proc[p])
  BY DEF CliInv, ProcInv
<1>1. CASE InitFails(p) \/ VerifyFrame(p)
  BY <1>1, ExitSaved DEF InitFails, VerifyFrame
<1>2. CASE Verify(p)
  BY <1>2, VerifyEffects, NotSaving DEF Saving, VerifyLabels
<1>3. CASE ExtendLog(p)
  <2> DEFINE rec == RecordOf(proc[p])
  <2>1. PICK old \in Logs :
          /\ proc'[p].pc = "create_log" /\ proc'[p].log = Append(old, rec)
          /\ rec \in VerificationRecord /\ RecordOf(proc'[p]) = rec
    BY <1>3, ExtendEffects
  <2> HIDE DEF rec
  <2>2. /\ Append(old, rec) # <<>> /\ Append(old, rec)[Len(Append(old, rec))] = rec
    BY <2>1, AppendProperties DEF Logs
  <2> QED  BY <2>1, <2>2 DEF Saved, Saving, VerifyLabels, RecordOf
<1>4. CASE CreateLog(p)
  <2>1. CASE Exits(p, 2)
    BY <2>1, ExitSaved
  <2>2. CASE session' = TornLog /\ Goes(p, "write_log")
    <3>1. proc[p].pc = "create_log"
      BY <1>4 DEF CreateLog, At
    <3> QED  BY <2>2, <3>1, GoesEffects DEF Saved, Saving, VerifyLabels, RecordOf
  <2> QED  BY <1>4, <2>1, <2>2 DEF CreateLog
<1>5. CASE WriteLog(p)
  <2>1. proc[p].pc = "write_log" /\ session' \in OverwrittenLog(proc[p].log, session)
        /\ Goes(p, "open_sink")
    BY <1>5 DEF WriteLog, At
  <2>2. session' = LogOf(proc[p].log)
    BY <1>0, <2>1, WrittenWhole DEF Saved, Saving, Sound
  <2> QED  BY <2>1, <2>2, GoesEffects DEF Saved, Saving, VerifyLabels, RecordOf
<1>6. CASE WriteLogFails(p)
  BY <1>6, ExitSaved DEF WriteLogFails
<1>7. CASE OpenSink(p)
  <2>1. PICK opened :
          /\ proc[p].pc = "open_sink" /\ UNCHANGED session
          /\ proc' = [proc EXCEPT ![p].pc = "create_audit", ![p].sink = opened]
    BY <1>7 DEF OpenSink, At
  <2>2. DOMAIN proc = Process /\ DOMAIN proc[p] = PlaceFields
    BY DEF CliInv, ProcInv, Sound
  <2>3. /\ proc'[p].pc = "create_audit" /\ proc'[p].job = proc[p].job
        /\ proc'[p].file = proc[p].file /\ proc'[p].code = proc[p].code
        /\ proc'[p].run = proc[p].run /\ proc'[p].log = proc[p].log
    BY <2>1, <2>2 DEF PlaceFields
  <2> QED  BY <2>1, <2>3 DEF Saved, Saving, VerifyLabels, RecordOf
<1>8. CASE CreateAudit(p)
  <2>1. CASE Exits(p, ExitCode(proc[p].code))
    BY <2>1, ExitSaved
  <2>2. CASE Goes(p, "write_audit")
    <3>1. proc[p].pc = "create_audit" /\ UNCHANGED session
      BY <1>8 DEF CreateAudit, At
    <3> QED  BY <2>2, <3>1, GoesEffects DEF Saved, Saving, VerifyLabels, RecordOf
  <2> QED  BY <1>8, <2>1, <2>2 DEF CreateAudit
<1>9. CASE WriteAudit(p) \/ WriteAuditFails(p)
  BY <1>9, ExitSaved DEF WriteAudit, WriteAuditFails
<1> QED
  BY <1>1, <1>2, <1>3, <1>4, <1>5, <1>6, <1>7, <1>8, <1>9 DEF VerifyStep

\* What replay and export do to their process.
LEMMA ReadEffects ==
  ASSUME CliInv, NEW p \in Process, ReplayStep(p) \/ ExportStep(p)
  PROVE  LET x == proc[p]
             y == proc'[p]
         IN  /\ UNCHANGED <<session, audit, verdicts>>
             /\ x.pc \in {"load_replay", "replay", "load_export", "save_evidence", "copy_audit",
                         "validate_audit", "write_validate", "write_manifest"}
             /\ \/ y.pc = "off" /\ Saved(proc[p])' /\ y.sink = None
                \/ /\ y.job = x.job /\ y.sink = x.sink
                   /\ y.pc \in {"read_frame", "save_evidence", "copy_audit", "validate_audit",
                               "write_validate", "write_manifest"}
<1>0. DOMAIN proc = Process /\ DOMAIN proc[p] = PlaceFields
  BY DEF CliInv, ProcInv, Sound
<1>1. UNCHANGED <<session, audit, verdicts>>
  BY DEF ReplayStep, ExportStep, LoadReplay, LoadFails, ReplayImpossible, Replay, LoadExport,
         SaveEvidence, SaveEvidenceFails, CopyAudit, CopyAuditFails, ValidateAudit,
         ValidateAuditFails, WriteValidate, WriteManifest
<1>2. proc[p].pc \in {"load_replay", "replay", "load_export", "save_evidence", "copy_audit",
                     "validate_audit", "write_validate", "write_manifest"}
  BY DEF ReplayStep, ExportStep, LoadReplay, LoadFails, ReplayImpossible, Replay, LoadExport,
         SaveEvidence, SaveEvidenceFails, CopyAudit, CopyAuditFails, ValidateAudit,
         ValidateAuditFails, WriteValidate, WriteManifest, At
<1>3. ASSUME NEW rc, Exits(p, rc)
      PROVE  proc'[p].pc = "off" /\ Saved(proc[p])' /\ proc'[p].sink = None
  BY <1>3, ExitSaved
<1>4. ASSUME NEW pc, NEW log, proc' = [proc EXCEPT ![p].pc = pc, ![p].log = log]
      PROVE  proc'[p].job = proc[p].job /\ proc'[p].sink = proc[p].sink /\ proc'[p].pc = pc
  BY <1>0, <1>4 DEF PlaceFields
<1>5. ASSUME NEW pc, NEW outcome, proc' = [proc EXCEPT ![p].pc = pc, ![p].outcome = outcome]
      PROVE  proc'[p].job = proc[p].job /\ proc'[p].sink = proc[p].sink /\ proc'[p].pc = pc
  BY <1>0, <1>5 DEF PlaceFields
<1>6. CASE \/ LoadFails(p) \/ ReplayImpossible(p) \/ Replay(p)
           \/ SaveEvidenceFails(p) \/ WriteManifest(p)
  BY <1>1, <1>2, <1>3, <1>6
  DEF LoadFails, ReplayImpossible, Replay, SaveEvidenceFails, WriteManifest
<1>7. CASE LoadReplay(p) \/ LoadExport(p)
  BY <1>1, <1>2, <1>3, <1>4, <1>7 DEF LoadReplay, LoadExport
<1>8. CASE SaveEvidence(p) \/ WriteValidate(p)
  BY <1>1, <1>2, <1>8, GoesEffects DEF SaveEvidence, WriteValidate
<1>9. CASE CopyAudit(p)
  BY <1>1, <1>2, <1>5, <1>9, GoesEffects DEF CopyAudit
<1>10. CASE CopyAuditFails(p) \/ ValidateAudit(p) \/ ValidateAuditFails(p)
  BY <1>1, <1>2, <1>5, <1>10 DEF CopyAuditFails, ValidateAudit, ValidateAuditFails
<1> QED  BY <1>6, <1>7, <1>8, <1>9, <1>10 DEF ReplayStep, ExportStep

LEMMA SavedStep ==
  ASSUME CliInv, SavedInv, [Next]_vars
  PROVE  SavedInv'
<1> SUFFICES ASSUME Alone, NEW p \in Process  PROVE Saved(proc[p])'
  BY DEF SavedInv, Alone
<1>0. Saved(proc[p])
  BY DEF SavedInv
<1>1. CASE UNCHANGED vars
  BY <1>0, <1>1 DEF vars, Saved
<1>2. CASE Next
  <2>1. Start(p) \/ FrameStep(p) \/ VerifyStep(p) \/ ReplayStep(p) \/ ExportStep(p) \/ Crash(p)
    BY <1>2 DEF Next, Alone
  <2>2. CASE Start(p)
    BY <2>2, StartEffects, NotSaving DEF Saving, VerifyLabels
  <2>3. CASE FrameStep(p)
    <3>1. CASE proc'[p].pc # "off"
      BY <1>0, <2>3, <3>1, FrameEffects, NotSaving DEF Saving, VerifyLabels, AfterRead, Saved
    <3> QED  BY <2>3, <3>1, FrameEffects DEF AfterRead
  <2>4. CASE VerifyStep(p)
    BY <1>0, <2>4, VerifySaved
  <2>5. CASE ReplayStep(p) \/ ExportStep(p)
    <3>1. CASE proc'[p].job = proc[p].job /\ proc'[p].pc \notin Saving
      BY <1>0, <2>5, <3>1, ReadEffects, NotSaving DEF Saving, VerifyLabels, Saved
    <3> QED  BY <2>5, <3>1, ReadEffects DEF Saving
  <2>6. CASE Crash(p)
    <3>1. proc'[p] = Off
      BY <2>6 DEF Crash, CliInv, ProcInv
    <3> QED  BY <3>1, OffSaved
  <2> QED  BY <2>1, <2>2, <2>3, <2>4, <2>5, <2>6
<1> QED  BY <1>1, <1>2

LEMMA InitSaved == Init => SavedInv
<1>1. ASSUME Init, NEW p \in Process  PROVE Saved(proc[p])
  BY <1>1 DEF Init, Saved, Off, NoJob, Saving
<1> QED  BY <1>1 DEF SavedInv

\* SavedBeforeAnswer: a verify that answers has saved its record (main.rs:259-278).
THEOREM AnswerIsSaved == Spec => SavedBeforeAnswer
<1>1. CliInv /\ SavedInv /\ [Next]_vars =>
        [\A p \in Process :
           /\ Alone /\ Cmd(p) = "verify" /\ proc[p].pc \notin {"read_frame", "verify"}
           /\ proc'[p].pc = "off" /\ proc'[p].rc \in {Some(0), Some(1)}
           => /\ ~session'.torn /\ session'.recs # <<>>
              /\ session'.recs[Len(session'.recs)] =
                   [file |-> proc[p].file, code |-> proc[p].code, run |-> proc[p].run]
              /\ proc'[p].rc = Some(0) <=> proc[p].code = "Ok"]_vars
  <2> SUFFICES ASSUME CliInv, SavedInv, Next, NEW p \in Process, Alone,
                      Cmd(p) = "verify", proc[p].pc \notin {"read_frame", "verify"},
                      proc'[p].pc = "off", proc'[p].rc \in {Some(0), Some(1)}
               PROVE  /\ ~session'.torn /\ session'.recs # <<>>
                      /\ session'.recs[Len(session'.recs)] = RecordOf(proc[p])
                      /\ proc'[p].rc = Some(0) <=> proc[p].code = "Ok"
    BY DEF RecordOf
  <2>1. Saved(proc[p])
    BY DEF SavedInv
  <2>2. proc[p].pc \in {"load_log"} \cup Saving
    BY <2>1 DEF Saved, VerifyLabels, Cmd
  <2>3. Some(2) \notin {Some(0), Some(1)} /\ None \notin {Some(0), Some(1)} /\ Some(0) # Some(1)
    BY DEF Some, None
  <2>4. Start(p) \/ FrameStep(p) \/ VerifyStep(p) \/ ReplayStep(p) \/ ExportStep(p) \/ Crash(p)
    BY DEF Next, Alone
  <2>5. ~Start(p) /\ ~FrameStep(p) /\ ~ReplayStep(p) /\ ~ExportStep(p)
    BY <2>2, StartEffects, FrameEffects, ReadEffects DEF Saving
  <2>6. ~Crash(p)
    <3>1. Crash(p) => proc'[p] = Off
      BY DEF Crash, CliInv, ProcInv
    <3> QED  BY <2>3, <3>1 DEF Off
  <2>7. ~InitFails(p) /\ ~VerifyFrame(p) /\ ~Verify(p)
    BY <2>2 DEF InitFails, VerifyFrame, Verify, At, Saving
  <2>8. ~ExtendLog(p)
    BY ExtendEffects
  <2>9. \A pc : Goes(p, pc) => pc = "off"
    BY GoesEffects
  <2>10. ~WriteLog(p) /\ ~OpenSink(p)
    <3>1. ~WriteLog(p)
      BY <2>9 DEF WriteLog
    <3>2. ASSUME OpenSink(p)  PROVE FALSE
      <4>1. PICK opened : proc' = [proc EXCEPT ![p].pc = "create_audit", ![p].sink = opened]
        BY <3>2 DEF OpenSink
      <4>2. DOMAIN proc = Process /\ DOMAIN proc[p] = PlaceFields
        BY DEF CliInv, ProcInv, Sound
      <4> QED  BY <4>1, <4>2 DEF PlaceFields
    <3> QED  BY <3>1, <3>2
  <2>11. ~Exits(p, 2)
    BY <2>3, ExitSaved
  <2>12. CreateAudit(p) \/ WriteAudit(p) \/ WriteAuditFails(p)
    <3>1. ~CreateLog(p) /\ ~WriteLogFails(p)
      BY <2>9, <2>11 DEF CreateLog, WriteLogFails
    <3> QED  BY <2>4, <2>5, <2>6, <2>7, <2>8, <2>10, <3>1 DEF VerifyStep
  <2>13. /\ proc[p].pc \in {"create_audit", "write_audit"} /\ UNCHANGED session
         /\ Exits(p, ExitCode(proc[p].code))
    BY <2>9, <2>12 DEF CreateAudit, WriteAudit, WriteAuditFails, At
  <2>14. proc'[p].rc = Some(ExitCode(proc[p].code))
    BY <2>13, ExitSaved
  <2>15. session' = LogOf(proc[p].log) /\ proc[p].log # <<>>
         /\ proc[p].log[Len(proc[p].log)] = RecordOf(proc[p])
    BY <2>1, <2>13 DEF Saved, Saving
  <2> QED  BY <2>3, <2>14, <2>15 DEF LogOf, ExitCode
<1> QED  BY <1>1, CliAlways, InitSaved, SavedStep, PTL DEF Spec, SavedBeforeAnswer

-----------------------------------------------------------------------------
(* Logs that tell the same.                                                  *)

\* A record on a file of another length tells no verdict.
LEMMA TellsNoMore ==
  ASSUME NEW S, NEW recs \in Seq(S), NEW rec \in S, NEW T, NEW V \in Seq(T),
         SessionTells(recs, V), rec.file = BadFile
  PROVE  SessionTells(Append(recs, rec), V)
<1> DEFINE longer == Append(recs, rec)
           n == Len(recs)
<1>1. /\ n \in Nat /\ Len(longer) = n + 1 /\ longer[n + 1] = rec
      /\ \A i \in 1..n : longer[i] = recs[i]
  BY AppendProperties, LenProperties
<1>2. PICK at \in [1..Len(V) -> 1..n] :
        /\ \A i \in 1..Len(V) : V[i] = <<recs[at[i]].file, recs[at[i]].code>>
        /\ \A i, j \in 1..Len(V) : i < j => at[i] < at[j]
        /\ \A k \in 1..n : recs[k].file # BadFile <=> \E i \in 1..Len(V) : at[i] = k
  BY DEF SessionTells
<1> HIDE DEF longer, n
<1>3. at \in [1..Len(V) -> 1..Len(longer)]
  BY <1>1
<1>4. \A i \in 1..Len(V) : V[i] = <<longer[at[i]].file, longer[at[i]].code>>
  BY <1>1, <1>2
<1>5. \A k \in 1..Len(longer) : longer[k].file # BadFile <=> \E i \in 1..Len(V) : at[i] = k
  <2>1. \A i \in 1..Len(V) : at[i] # n + 1
    BY <1>1
  <2> QED  BY <1>1, <1>2, <2>1
<1>6. SessionTells(longer, V)
  BY <1>2, <1>3, <1>4, <1>5 DEF SessionTells
<1> QED  BY <1>6 DEF longer

\* A record on a frame tells one verdict more.
LEMMA TellsOneMore ==
  ASSUME NEW S, NEW recs \in Seq(S), NEW rec \in S, NEW T, NEW V \in Seq(T),
         NEW v \in T, SessionTells(recs, V), rec.file # BadFile,
         v = <<rec.file, rec.code>>
  PROVE  SessionTells(Append(recs, rec), Append(V, v))
<1> DEFINE longer == Append(recs, rec)
           n == Len(recs)
           W == Append(V, v)
           m == Len(V)
<1>1. /\ n \in Nat /\ Len(longer) = n + 1 /\ longer[n + 1] = rec
      /\ \A i \in 1..n : longer[i] = recs[i]
      /\ m \in Nat /\ Len(W) = m + 1 /\ W[m + 1] = v
      /\ \A i \in 1..m : W[i] = V[i]
  BY AppendProperties, LenProperties
<1>2. PICK at \in [1..m -> 1..n] :
        /\ \A i \in 1..m : V[i] = <<recs[at[i]].file, recs[at[i]].code>>
        /\ \A i, j \in 1..m : i < j => at[i] < at[j]
        /\ \A k \in 1..n : recs[k].file # BadFile <=> \E i \in 1..m : at[i] = k
  BY DEF SessionTells
<1> HIDE DEF longer, n, W, m
<1> DEFINE to == [i \in 1..m + 1 |-> IF i = m + 1 THEN n + 1 ELSE at[i]]
<1>3. to \in [1..Len(W) -> 1..Len(longer)]
  BY <1>1
<1>4. to[m + 1] = n + 1 /\ \A i \in 1..m : to[i] = at[i] /\ to[i] \in 1..n
  BY <1>1
<1> HIDE DEF to
<1>5. \A i \in 1..Len(W) : W[i] = <<longer[to[i]].file, longer[to[i]].code>>
  <2>1. ASSUME NEW i \in 1..m
        PROVE  W[i] = <<longer[to[i]].file, longer[to[i]].code>>
    <3>1. V[i] = <<recs[at[i]].file, recs[at[i]].code>> /\ W[i] = V[i]
      BY <1>1, <1>2
    <3>2. to[i] = at[i] /\ to[i] \in 1..n
      BY <1>4
    <3>3. longer[to[i]] = recs[at[i]]
      BY <1>1, <3>2
    <3> QED  BY <3>1, <3>3
  <2>2. W[m + 1] = <<longer[to[m + 1]].file, longer[to[m + 1]].code>>
    BY <1>1, <1>4
  <2>3. \A i \in 1..Len(W) : i \in 1..m \/ i = m + 1
    BY <1>1
  <2> QED  BY <2>1, <2>2, <2>3
<1>6. ASSUME NEW i \in 1..Len(W), NEW j \in 1..Len(W), i < j
      PROVE  to[i] < to[j]
  <2>1. i \in 1..m /\ to[i] = at[i] /\ to[i] \in 1..n
    BY <1>1, <1>4, <1>6
  <2>2. CASE j = m + 1
    BY <1>1, <1>4, <2>1, <2>2
  <2>3. CASE j \in 1..m
    <3>1. at[i] < at[j] /\ to[j] = at[j]
      BY <1>2, <1>4, <1>6, <2>1, <2>3
    <3> QED  BY <2>1, <3>1
  <2> QED  BY <1>1, <2>2, <2>3
<1>7. ASSUME NEW k \in 1..Len(longer)
      PROVE  longer[k].file # BadFile <=> \E i \in 1..Len(W) : to[i] = k
  <2>1. CASE k = n + 1
    <3>1. m + 1 \in 1..Len(W)
      BY <1>1
    <3> QED  BY <1>1, <1>4, <2>1, <3>1
  <2>2. CASE k \in 1..n
    <3>1. longer[k].file # BadFile <=> \E i \in 1..m : at[i] = k
      BY <1>1, <1>2, <2>2
    <3>2. to[m + 1] # k
      BY <1>1, <1>4, <2>2
    <3>3. \A i \in 1..Len(W) : to[i] = k => i \in 1..m /\ at[i] = k
      <4>1. \A i \in 1..Len(W) : i \in 1..m \/ i = m + 1
        BY <1>1
      <4> QED  BY <1>4, <3>2, <4>1
    <3>4. \A i \in 1..m : i \in 1..Len(W) /\ to[i] = at[i]
      BY <1>1, <1>4
    <3> QED  BY <3>1, <3>3, <3>4
  <2>3. k \in 1..n \/ k = n + 1
    BY <1>1
  <2> QED  BY <2>1, <2>2, <2>3
<1>8. SessionTells(longer, W)
  BY <1>3, <1>5, <1>6, <1>7 DEF SessionTells
<1> QED  BY <1>8 DEF longer, W

\* No records tell no verdicts.
LEMMA TellsNone == SessionTells(<<>>, <<>>) /\ AuditVerdicts(<<>>) = <<>>
<1>1. Len(<<>>) = 0 /\ 1..0 = {}
  OBVIOUS
<1>2. [i \in {} |-> 0] \in [{} -> {}]
  OBVIOUS
<1>3. SessionTells(<<>>, <<>>)
  BY <1>1, <1>2 DEF SessionTells
<1>4. AuditVerdicts(<<>>) = <<>>
  BY <1>1 DEF AuditVerdicts
<1> QED  BY <1>3, <1>4

\* A record more in the audit log tells one verdict more.
LEMMA AuditTellsOneMore ==
  ASSUME NEW rs \in Seq(AuditRecord), NEW r \in AuditRecord
  PROVE  AuditVerdicts(Append(rs, r)) =
           Append(AuditVerdicts(rs), <<r.content.frame_hash[1], r.content.err_code>>)
<1> DEFINE longer == Append(rs, r)
           n == Len(rs)
           W == AuditVerdicts(rs)
           v == <<r.content.frame_hash[1], r.content.err_code>>
           T == {<<rs[i].content.frame_hash[1], rs[i].content.err_code>> : i \in 1..n} \cup {v}
<1>1. /\ n \in Nat /\ Len(longer) = n + 1 /\ longer[n + 1] = r
      /\ \A i \in 1..n : longer[i] = rs[i]
  BY AppendProperties, LenProperties
<1>2. W \in [1..n -> T] /\ v \in T
  BY DEF AuditVerdicts
<1>3. W \in Seq(T)
  BY <1>1, <1>2, SeqDef
<1>4. Len(W) = n
  BY <1>1, <1>2, <1>3, LenProperties
<1> HIDE DEF T, longer, n
<1>5. \A i \in 1..n : W[i] = <<rs[i].content.frame_hash[1], rs[i].content.err_code>>
  BY DEF AuditVerdicts, n
<1> HIDE DEF W, v
<1>6. /\ Append(W, v) \in Seq(T) /\ Len(Append(W, v)) = n + 1 /\ Append(W, v)[n + 1] = v
      /\ \A i \in 1..n : Append(W, v)[i] = W[i]
  BY <1>2, <1>3, <1>4, AppendProperties
<1>7. Append(W, v) = [i \in 1..n + 1 |-> Append(W, v)[i]]
  BY <1>6, LenProperties
<1>8. \A i \in 1..n + 1 : Append(W, v)[i] =
                            <<longer[i].content.frame_hash[1], longer[i].content.err_code>>
  <2>1. \A i \in 1..n : Append(W, v)[i] =
                          <<longer[i].content.frame_hash[1], longer[i].content.err_code>>
    BY <1>1, <1>5, <1>6
  <2>2. Append(W, v)[n + 1] =
          <<longer[n + 1].content.frame_hash[1], longer[n + 1].content.err_code>>
    BY <1>1, <1>6 DEF v
  <2>3. \A i \in 1..n + 1 : i \in 1..n \/ i = n + 1
    BY <1>1
  <2> QED  BY <2>1, <2>2, <2>3
<1>9. AuditVerdicts(longer) = Append(W, v)
  BY <1>1, <1>7, <1>8 DEF AuditVerdicts
<1> QED  BY <1>9 DEF longer, W, v

-----------------------------------------------------------------------------
(* One command at a time, whatever fails or is killed: the lines of the      *)
(* audit log are a chain in every file and every sink, from the truncation   *)
(* of the log to its last line.                                              *)

Outcomes == {None, Some(NoAuditLog)} \cup {Some(o) : o \in Untampered}

ChainsKept ==
  /\ Chained(audit.recs) /\ Chained(bundle.audit.recs)
  /\ bundle.validate \in Outcomes

\* What the command at x holds of the audit log.
HoldsChain(x) ==
  /\ x.sink # None => GoodSink(x.sink[1])
  /\ x.pc = "write_audit" => audit = FileOf(<<>>)
  /\ x.pc = "write_validate" => Some(x.outcome) \in Outcomes

ChainInv == Alone => ChainsKept /\ \A p \in Process : HoldsChain(proc[p])

\* A chain is Ok to the validator, or it is empty or cut.
LEMMA ChainIsUntampered ==
  ASSUME NEW f \in AuditFile, Chained(f.recs)
  PROVE  ValidateJsonl(f) \in Untampered
<1>1. CASE f.torn
  BY <1>1 DEF ValidateJsonl, Untampered
<1>2. CASE ~f.torn /\ f.recs = <<>>
  BY <1>2 DEF ValidateJsonl, ValidateRecords, Untampered
<1>3. CASE ~f.torn /\ f.recs # <<>>
  <2>1. Len(f.recs) \in Nat
    BY LenProperties DEF AuditFile
  <2> QED  BY <1>3, <2>1, ValidatedIsChained DEF ValidateJsonl, Untampered
<1> QED  BY <1>1, <1>2, <1>3

\* What a writing leaves of a chain, whole or not, is a chain.
LEMMA PartsChained ==
  ASSUME NEW rs \in Seq(AuditRecord), Chained(rs), NEW f \in PartialFiles(rs)
  PROVE  Chained(f.recs)
<1>1. f.recs \in Seq(AuditRecord) /\ IsPrefixOf(f.recs, rs)
  BY PartialFileFacts DEF AuditFile
<1> QED  BY <1>1, PrefixChained, LenProperties

LEMMA OverNothing == \A new : OverwrittenAudit(new, FileOf(<<>>)) = {new}
BY DEF OverwrittenAudit

LEMMA ChainTypes ==
  ASSUME CliInv
  PROVE  /\ audit \in AuditFile /\ bundle.audit \in AuditFile
         /\ DOMAIN bundle = {"evidence", "audit", "validate", "manifest"}
         /\ DOMAIN proc = Process
         /\ \A p \in Process :
              /\ DOMAIN proc[p] = PlaceFields /\ proc[p].run \in Nat
              /\ proc[p].sink # None => /\ proc[p].sink[1] \in AuditSinkState
                                        /\ proc[p].sink[1].records \in Seq(AuditRecord)
              /\ proc[p].pc \in {"create_audit", "write_audit"} => proc[p].sink # None
<1>1. audit \in AuditFile /\ bundle.audit \in AuditFile
  BY ToldTypes DEF CliInv, FilesInv
<1>2. ASSUME NEW p \in Process, proc[p].sink # None
      PROVE  proc[p].sink[1] \in AuditSinkState /\ proc[p].sink[1].records \in Seq(AuditRecord)
  <2>1. proc[p].sink[1] \in AuditSinkState
    BY <1>2, ToldTypes DEF CliInv, ProcInv, Sound
  <2> QED  BY <2>1 DEF AuditSinkState
<1> QED  BY <1>1, <1>2 DEF CliInv, FilesInv, ProcInv, Sound

\* Each command is given one verdict at most, so that there is a time for it.
LEMMA VerdictHasTime ==
  ASSUME CliInv, NEW p \in Process, Waits(proc[p])
  PROVE  Len(verdicts) + 1 \in Time
<1>1. p \in Waiting /\ IsFiniteSet(Waiting)
  BY DEF Waiting, CliInv, CountInv
<1>2. Cardinality(Waiting) \in Nat /\ Cardinality(Waiting) # 0
  BY <1>1, FS_CardinalityType, FS_EmptySet
<1>3. Len(verdicts) \in Nat
  BY LenProperties DEF CliInv, CountInv
<1>4. Len(verdicts) + 1 \in 1..MaxStarts
  BY <1>2, <1>3, CliBoundAssumption DEF CliInv, CountInv
<1> QED  BY <1>4, TimeAssumption

\* The sink a command has, or opens, is good.
LEMMA OpenedGood ==
  ASSUME CliInv, ChainsKept, NEW p \in Process, HoldsChain(proc[p]),
         NEW found \in {audit, NoFile}
  PROVE  OpenedSink(p, found) \in AuditSinkState /\ GoodSink(OpenedSink(p, found))
<1>1. found \in AuditFile /\ Chained(found.recs)
  <2>1. NoFile \in AuditFile /\ Chained(NoFile.recs)
    BY EmptySeq DEF NoFile, AuditFile, Chained
  <2> QED  BY <2>1, ChainTypes DEF ChainsKept
<1> QED  BY <1>1, ChainTypes, InitSinkType, InitSinkGood DEF OpenedSink, HoldsChain

\* A command that ends, is killed, or goes to a label nothing is said of.
LEMMA HoldsOn ==
  ASSUME NEW p \in Process, HoldsChain(proc[p]),
         proc'[p].sink \in {None, proc[p].sink},
         proc'[p].pc \notin {"write_audit", "write_validate"}
  PROVE  HoldsChain(proc[p])'
BY DEF HoldsChain

LEMMA SameChains ==
  ASSUME ChainsKept, UNCHANGED <<audit, bundle>>
  PROVE  ChainsKept'
BY DEF ChainsKept

\* verify: its verdict is appended to a good sink, its log is written whole or
\* in part over nothing.
LEMMA VerifyChains ==
  ASSUME CliInv, ChainsKept, NEW p \in Process, HoldsChain(proc[p]), VerifyStep(p)
  PROVE  ChainsKept' /\ HoldsChain(proc[p])'
<1> DEFINE x == proc[p]
           y == proc'[p]
<1>0. DOMAIN proc = Process /\ DOMAIN x = PlaceFields
  BY ChainTypes
<1>1. CASE InitFails(p) \/ VerifyFrame(p) \/ WriteLogFails(p)
  BY <1>1, ExitSaved, HoldsOn, SameChains DEF InitFails, VerifyFrame, WriteLogFails
<1>2. CASE Verify(p)
  <2>1. PICK code \in AndnaErr, found \in {audit, NoFile} :
          /\ UNCHANGED <<audit, bundle>> /\ x.pc = "verify"
          /\ AnswersFinding(x.file, code, found) /\ y.pc = "load_log"
          /\ y.sink = IF code = "Length" THEN x.sink
                      ELSE Some(AppendVerify(OpenedSink(p, found), VerifyEvent(x.file, code)))
    BY <1>2, VerifyEffects
  <2>2. CASE code = "Length"
    BY <2>1, <2>2, HoldsOn, SameChains
  <2>3. CASE code # "Length"
    <3> DEFINE sink == OpenedSink(p, found)
               inp == VerifyEvent(x.file, code)
    <3>1. x.file \in Frame
      BY <2>1, <2>3 DEF AnswersFinding, Answers, CliInv, ProcInv, Sound, Input
    <3>2. inp \in VerifyEventInput
      <4>1. Len(verdicts) + 1 \in Time /\ {} \in SUBSET Flags
        BY <2>1, VerdictHasTime DEF Waits
      <4> QED  BY <3>1, <4>1 DEF VerifyEvent, VerifyEventInput
    <3>3. sink \in AuditSinkState /\ GoodSink(sink)
      BY OpenedGood
    <3>4. y.sink = Some(AppendVerify(sink, inp))
      BY <2>1, <2>3
    <3> HIDE DEF sink, inp
    <3>5. GoodSink(AppendVerify(sink, inp))
      BY <3>2, <3>3, NextRecordType, NextRecordFits, PushKeepsGood DEF AppendVerify
    <3>6. GoodSink(y.sink[1])
      BY <3>4, <3>5 DEF Some
    <3> QED  BY <2>1, <3>6, SameChains DEF HoldsChain
  <2> QED  BY <2>2, <2>3
<1>3. CASE ExtendLog(p)
  BY <1>3, ExtendEffects, HoldsOn, SameChains
<1>4. CASE CreateLog(p)
  <2>1. UNCHANGED <<audit, bundle>> /\ (Exits(p, 2) \/ Goes(p, "write_log"))
    BY <1>4 DEF CreateLog
  <2> QED  BY <2>1, ExitSaved, GoesEffects, HoldsOn, SameChains
<1>5. CASE WriteLog(p)
  BY <1>5, GoesEffects, HoldsOn, SameChains DEF WriteLog
<1>6. CASE OpenSink(p)
  <2>4. PICK found \in {audit, NoFile} :
          /\ UNCHANGED <<audit, bundle>>
          /\ proc' = [proc EXCEPT ![p].pc = "create_audit",
                                  ![p].sink = Some(OpenedSink(p, found))]
    BY <1>6 DEF OpenSink
  <2> DEFINE opened == Some(OpenedSink(p, found))
  <2>1. /\ UNCHANGED <<audit, bundle>>
        /\ proc' = [proc EXCEPT ![p].pc = "create_audit", ![p].sink = opened]
    BY <2>4
  <2>2. GoodSink(opened[1])
    BY OpenedGood DEF Some
  <2> HIDE DEF opened
  <2>3. y.pc = "create_audit" /\ y.sink = opened
    BY <1>0, <2>1 DEF PlaceFields
  <2> QED  BY <2>1, <2>2, <2>3, SameChains DEF HoldsChain
<1>7. CASE CreateAudit(p)
  <2>1. CASE Exits(p, ExitCode(x.code)) /\ UNCHANGED audit
    BY <1>7, <2>1, ExitSaved, HoldsOn, SameChains DEF CreateAudit
  <2>2. CASE audit' = FileOf(<<>>) /\ Goes(p, "write_audit")
    <3>1. y.pc = "write_audit" /\ y.sink = x.sink /\ bundle' = bundle
      BY <1>7, <2>2, GoesEffects DEF CreateAudit
    <3>2. Chained(audit'.recs)
      BY <2>2 DEF FileOf, Chained
    <3> QED  BY <2>2, <3>1, <3>2 DEF ChainsKept, HoldsChain
  <2> QED  BY <1>7, <2>1, <2>2 DEF CreateAudit
<1>8. CASE WriteAudit(p) \/ WriteAuditFails(p)
  <2> DEFINE rs == x.sink[1].records
  <2>1. /\ bundle' = bundle /\ x.pc = "write_audit" /\ Exits(p, ExitCode(x.code))
        /\ audit' \in OverwrittenAudit(FileOf(rs), audit) \cup PartWritten(p)
    BY <1>8 DEF WriteAudit, WriteAuditFails, At
  <2>2. audit = FileOf(<<>>) /\ Chained(rs) /\ rs \in Seq(AuditRecord)
    BY <2>1, ChainTypes DEF HoldsChain, GoodSink
  <2>3. audit' \in {FileOf(rs)} \cup PartialFiles(rs)
    BY <2>1, <2>2, OverNothing DEF PartWritten
  <2> HIDE DEF rs
  <2>4. Chained(audit'.recs)
    BY <2>2, <2>3, PartsChained DEF FileOf
  <2> QED  BY <2>1, <2>4, ExitSaved, HoldsOn DEF ChainsKept
<1> QED
  BY <1>1, <1>2, <1>3, <1>4, <1>5, <1>6, <1>7, <1>8 DEF VerifyStep

\* export: what it copies and validates is the chain that stands there.
LEMMA ExportChains ==
  ASSUME CliInv, ChainsKept, NEW p \in Process, HoldsChain(proc[p]), ExportStep(p)
  PROVE  ChainsKept' /\ HoldsChain(proc[p])'
<1> DEFINE x == proc[p]
           y == proc'[p]
<1>0. /\ DOMAIN proc = Process /\ DOMAIN x = PlaceFields
      /\ DOMAIN bundle = {"evidence", "audit", "validate", "manifest"}
      /\ audit \in AuditFile /\ audit' = audit
      /\ y.sink \in {None, x.sink} /\ y.pc # "write_audit"
  BY ChainTypes, ReadEffects
<1>1. ASSUME NEW outcome, Some(outcome) \in Outcomes,
             proc' = [proc EXCEPT ![p].pc = "write_validate", ![p].outcome = outcome]
      PROVE  HoldsChain(proc[p])'
  <2>1. y.pc = "write_validate" /\ y.outcome = outcome
    BY <1>0, <1>1 DEF PlaceFields
  <2> QED  BY <1>0, <1>1, <2>1 DEF HoldsChain
<1>2. Some(NoAuditLog) \in Outcomes /\ Some(ValidateJsonl(audit)) \in Outcomes
  BY <1>0, ChainIsUntampered DEF Outcomes, ChainsKept
<1>3. CASE LoadExport(p)
  <2>1. bundle' = bundle /\ y.pc # "write_validate"
    <3>1. CASE Exits(p, 2)
      BY <1>3, <3>1, ExitSaved DEF LoadExport
    <3>2. CASE proc' = [proc EXCEPT ![p].pc = "save_evidence", ![p].log = session.recs]
      BY <1>0, <1>3, <3>2 DEF LoadExport, PlaceFields
    <3> QED  BY <1>3, <3>1, <3>2 DEF LoadExport
  <2> QED  BY <1>0, <2>1, HoldsOn, SameChains
<1>4. CASE SaveEvidence(p) \/ SaveEvidenceFails(p)
  <2>1. /\ bundle'.audit = bundle.audit /\ bundle'.validate = bundle.validate
        /\ y.pc # "write_validate"
    BY <1>0, <1>4, ExitSaved, GoesEffects DEF SaveEvidence, SaveEvidenceFails
  <2> QED  BY <1>0, <2>1, HoldsOn DEF ChainsKept
<1>5. CASE CopyAudit(p)
  <2>1. CASE bundle' = [bundle EXCEPT !.audit = audit] /\ Goes(p, "validate_audit")
    <3>1. bundle'.audit = audit /\ bundle'.validate = bundle.validate /\ y.pc = "validate_audit"
      BY <1>0, <2>1, GoesEffects
    <3> QED  BY <1>0, <3>1, HoldsOn DEF ChainsKept
  <2>2. CASE /\ proc' = [proc EXCEPT ![p].pc = "write_validate", ![p].outcome = NoAuditLog]
             /\ UNCHANGED bundle
    BY <1>0, <1>1, <1>2, <2>2, SameChains
  <2> QED  BY <1>5, <2>1, <2>2 DEF CopyAudit
<1>6. CASE CopyAuditFails(p)
  <2>1. PICK left \in {bundle.audit} \cup PartialFiles(audit.recs) :
          bundle' = [bundle EXCEPT !.audit = left]
    BY <1>6 DEF CopyAuditFails
  <2>2. Chained(left.recs)
    BY <1>0, PartsChained DEF ChainsKept, AuditFile
  <2>3. bundle'.audit = left /\ bundle'.validate = bundle.validate
    BY <1>0, <2>1
  <2>4. HoldsChain(proc[p])'
    BY <1>1, <1>2, <1>6 DEF CopyAuditFails
  <2> QED  BY <1>0, <2>2, <2>3, <2>4 DEF ChainsKept
<1>7. CASE ValidateAudit(p) \/ ValidateAuditFails(p)
  <2>1. /\ bundle' = bundle
        /\ \E outcome \in {ValidateJsonl(audit), NoAuditLog} :
             proc' = [proc EXCEPT ![p].pc = "write_validate", ![p].outcome = outcome]
    BY <1>7 DEF ValidateAudit, ValidateAuditFails
  <2> QED  BY <1>0, <1>1, <1>2, <2>1, SameChains
<1>8. CASE WriteValidate(p)
  <2>1. /\ x.pc = "write_validate" /\ Goes(p, "write_manifest")
        /\ \E said \in {Some(x.outcome), bundle.validate, None} :
             bundle' = [bundle EXCEPT !.validate = said]
    BY <1>8 DEF WriteValidate, At
  <2>2. bundle'.audit = bundle.audit /\ bundle'.validate \in Outcomes
    BY <1>0, <2>1 DEF HoldsChain, ChainsKept, Outcomes
  <2> QED  BY <1>0, <2>1, <2>2, GoesEffects, HoldsOn DEF ChainsKept
<1>9. CASE WriteManifest(p)
  <2>1. /\ bundle'.audit = bundle.audit /\ bundle'.validate = bundle.validate
        /\ y.pc = "off"
    BY <1>0, <1>9, ExitSaved DEF WriteManifest
  <2> QED  BY <1>0, <2>1, HoldsOn DEF ChainsKept
<1> QED
  BY <1>3, <1>4, <1>5, <1>6, <1>7, <1>8, <1>9 DEF ExportStep

\* A kill leaves a part of what was being written.
LEMMA CrashChains ==
  ASSUME CliInv, ChainsKept, NEW p \in Process, HoldsChain(proc[p]), Crash(p)
  PROVE  ChainsKept' /\ HoldsChain(proc[p])'
<1>1. proc'[p] = Off
  BY ChainTypes DEF Crash
<1>2. HoldsChain(proc[p])'
  BY <1>1, HoldsOn DEF Off
<1>3. DOMAIN bundle = {"evidence", "audit", "validate", "manifest"} /\ audit \in AuditFile
  BY ChainTypes
<1>4. CASE UNCHANGED <<audit, bundle>>
  BY <1>2, <1>4, SameChains
<1>5. CASE At(p, "write_audit") /\ audit' \in PartWritten(p) /\ UNCHANGED bundle
  <2> DEFINE rs == proc[p].sink[1].records
  <2>1. audit = FileOf(<<>>) /\ Chained(rs) /\ rs \in Seq(AuditRecord)
    BY <1>5, ChainTypes DEF HoldsChain, GoodSink, At
  <2>2. audit' \in PartialFiles(rs)
    BY <1>5, <2>1, OverNothing DEF PartWritten
  <2> HIDE DEF rs
  <2>3. Chained(audit'.recs)
    BY <2>1, <2>2, PartsChained
  <2> QED  BY <1>2, <1>5, <2>3 DEF ChainsKept
<1>6. CASE bundle' = [bundle EXCEPT !.evidence = TornLog] /\ UNCHANGED audit
  <2>1. bundle'.audit = bundle.audit /\ bundle'.validate = bundle.validate
    BY <1>3, <1>6
  <2> QED  BY <1>2, <1>6, <2>1 DEF ChainsKept
<1>7. CASE /\ UNCHANGED audit
           /\ \E left \in PartialFiles(audit.recs) : bundle' = [bundle EXCEPT !.audit = left]
  <2>1. PICK left \in PartialFiles(audit.recs) : bundle' = [bundle EXCEPT !.audit = left]
    BY <1>7
  <2>2. Chained(left.recs)
    BY <1>3, PartsChained DEF ChainsKept, AuditFile
  <2>3. bundle'.audit = left /\ bundle'.validate = bundle.validate
    BY <1>3, <2>1
  <2> QED  BY <1>2, <1>7, <2>2, <2>3 DEF ChainsKept
<1> QED  BY <1>4, <1>5, <1>6, <1>7 DEF Crash

LEMMA ChainStep ==
  ASSUME CliInv, ChainInv, [Next]_vars
  PROVE  ChainInv'
<1>1. CASE UNCHANGED vars
  BY <1>1 DEF vars, ChainInv, ChainsKept, HoldsChain, Alone
<1>2. CASE Next
  <2> SUFFICES ASSUME Alone
               PROVE  ChainsKept' /\ \A p \in Process : HoldsChain(proc[p])'
    BY DEF ChainInv, Alone
  <2>1. PICK p \in Process :
          Start(p) \/ FrameStep(p) \/ VerifyStep(p) \/ ReplayStep(p) \/ ExportStep(p) \/ Crash(p)
    BY <1>2 DEF Next
  <2>2. ChainsKept /\ HoldsChain(proc[p])
    BY DEF ChainInv
  <2>3. ASSUME Start(p)  PROVE ChainsKept' /\ HoldsChain(proc[p])'
    BY <2>2, <2>3, StartEffects, HoldsOn, SameChains
  <2>4. ASSUME FrameStep(p)  PROVE ChainsKept' /\ HoldsChain(proc[p])'
    <3>1. /\ UNCHANGED <<audit, bundle>> /\ proc'[p].sink \in {None, proc[p].sink}
          /\ proc'[p].pc \notin {"write_audit", "write_validate"}
      BY <2>4, FrameEffects DEF AfterRead
    <3> QED  BY <2>2, <3>1, HoldsOn, SameChains
  <2>5. ASSUME ReplayStep(p)  PROVE ChainsKept' /\ HoldsChain(proc[p])'
    <3>1. UNCHANGED <<audit, bundle>>
      BY <2>5 DEF ReplayStep, LoadReplay, LoadFails, ReplayImpossible, Replay
    <3>2. \/ \E rc : Exits(p, rc)
          \/ proc' = [proc EXCEPT ![p].pc = "read_frame", ![p].log = session.recs]
      BY <2>5 DEF ReplayStep, LoadReplay, LoadFails, ReplayImpossible, Replay
    <3>3. proc'[p].sink \in {None, proc[p].sink} /\ proc'[p].pc \in {"off", "read_frame"}
      BY <3>2, ChainTypes, ExitSaved DEF PlaceFields
    <3> QED  BY <2>2, <3>1, <3>3, HoldsOn, SameChains
  <2>6. ChainsKept' /\ HoldsChain(proc[p])'
    BY <2>1, <2>2, <2>3, <2>4, <2>5, VerifyChains, ExportChains, CrashChains
  <2> QED  BY <2>6 DEF Alone
<1> QED  BY <1>1, <1>2

LEMMA InitChains == Init => ChainInv
<1> SUFFICES ASSUME Init  PROVE ChainsKept /\ \A p \in Process : HoldsChain(proc[p])
  BY DEF ChainInv
<1>1. ChainsKept
  BY DEF Init, ChainsKept, NoFile, NoBundle, Chained, Outcomes
<1>2. \A p \in Process : HoldsChain(proc[p])
  BY DEF Init, HoldsChain, Off
<1> QED  BY <1>1, <1>2

LEMMA ChainAlways == Spec => [](CliInv /\ ChainInv)
BY InitChains, CliAlways, ChainStep, PTL DEF Spec

\* NoFalseAlarm: a failure or a kill that nobody looks at never shows as
\* tampering (main.rs:270, 435; sink.rs:149-158).
THEOREM NobodyIsAccused == Spec => []NoFalseAlarm
<1>1. CliInv /\ ChainInv => NoFalseAlarm
  BY ChainTypes, ChainIsUntampered DEF ChainInv, ChainsKept, NoFalseAlarm, Outcomes
<1> QED  BY <1>1, ChainAlways, PTL

-----------------------------------------------------------------------------
(* One command at a time, none killed and nothing failing.                   *)

Extending == {"load_log", "create_log", "write_log"}
Recording == Extending \cup {"open_sink", "create_audit", "write_audit"}
Bundling == {"copy_audit", "validate_audit", "write_validate", "write_manifest"}

SessionAgrees == ~session.torn /\ SessionTells(session.recs, verdicts)
AuditAgrees == ~audit.torn /\ AuditVerdicts(audit.recs) = verdicts
AuditKept == session.recs # <<>> => audit.exists

BundleWhole ==
  bundle.manifest # None =>
    LET manifest == bundle.manifest[1]
        recs == bundle.evidence.recs
    IN  /\ manifest.evidence_digest = bundle.evidence
        /\ manifest.record_count = Len(recs)
        /\ manifest.verification_digest = VerificationDigest(recs)
        /\ SessionTells(recs, AuditVerdicts(bundle.audit.recs))
        /\ bundle.validate = Some(ValidateJsonl(bundle.audit))

\* What a verify holds, from its verdict on, that is not yet in the logs.
Verifying(x) ==
  /\ x.pc \in {"load_replay", "read_frame", "verify"} => x.sink = None
  /\ x.pc = "load_log" =>
       ~session.torn /\ SessionTells(Append(session.recs, RecordOf(x)), verdicts)
  /\ x.pc \in {"create_log", "write_log"} => SessionTells(x.log, verdicts)
  /\ x.pc \in Recording =>
       IF x.sink = None THEN AuditAgrees ELSE AuditVerdicts(x.sink[1].records) = verdicts
  /\ x.pc = "write_audit" => audit = FileOf(<<>>)

\* What a replay or an export holds of the logs, and has put into the bundle.
Reading(x) ==
  /\ x.pc = "replay" \/ (x.pc = "read_frame" /\ x.job.cmd = "replay") => x.log = session.recs
  /\ x.pc \in {"save_evidence"} \cup Bundling => x.log = session.recs /\ x.log # <<>>
  /\ x.pc \in Bundling => bundle.evidence = LogOf(x.log)
  /\ x.pc \in Bundling \ {"copy_audit"} => bundle.audit = audit
  /\ x.pc \in {"write_validate", "write_manifest"} => x.outcome = ValidateJsonl(audit)
  /\ x.pc = "write_manifest" => bundle.validate = Some(x.outcome)

\* The command at x, and the files.
InOrder(x) ==
  /\ x.pc \notin Extending => SessionAgrees
  /\ x.pc \notin Recording => AuditAgrees /\ AuditKept
  /\ x.pc \notin Bundling => BundleWhole
  /\ Verifying(x) /\ Reading(x)

\* Nothing failed, so that each verdict is that of the frame.
TrueVerdicts == \A i \in 1..Len(verdicts) : verdicts[i][2] = Verdict[verdicts[i][1]]

OrderInv ==
  Undisturbed =>
    /\ TrueVerdicts
    /\ \A p \in Process : InOrder(proc[p])
    /\ Process = {} => InOrder(Off)

\* No step takes a failure back.
LEMMA FaultsStay ==
  ASSUME CliInv, NEW p \in Process,
         Start(p) \/ FrameStep(p) \/ VerifyStep(p) \/ ReplayStep(p) \/ ExportStep(p) \/ Crash(p)
  PROVE  faults' = faults \/ faults' = faults + 1
BY DEF Start, FrameStep, ReadFrame, ReadFrameFails, Generate, CreateFrame, WriteFrame,
       VerifyStep, InitFails, VerifyFrame, Verify, ExtendLog, CreateLog, WriteLog,
       WriteLogFails, OpenSink, CreateAudit, WriteAudit, WriteAuditFails,
       ReplayStep, LoadReplay, LoadFails, ReplayImpossible, Replay,
       ExportStep, LoadExport, SaveEvidence, SaveEvidenceFails, CopyAudit, CopyAuditFails,
       ValidateAudit, ValidateAuditFails, WriteValidate, WriteManifest, Crash,
       AnswersFinding, Answers, Fails, Fault, NoFault, count

LEMMA NoFaultNow == ASSUME faults = 0, faults' = 0 PROVE ~Fault /\ ~Fails
BY DEF Fault, Fails

\* A command that has ended leaves the files in order.
LEMMA EndsInOrder ==
  ASSUME NEW p \in Process, proc'[p].pc = "off",
         SessionAgrees', AuditAgrees', AuditKept', BundleWhole'
  PROVE  InOrder(proc[p])'
BY DEF InOrder, Verifying, Reading, Extending, Recording, Bundling

LEMMA SameFiles ==
  ASSUME UNCHANGED <<session, audit, bundle, verdicts>>
  PROVE  /\ SessionAgrees' = SessionAgrees /\ AuditAgrees' = AuditAgrees
         /\ AuditKept' = AuditKept /\ BundleWhole' = BundleWhole
         /\ TrueVerdicts' = TrueVerdicts
BY DEF SessionAgrees, AuditAgrees, AuditKept, BundleWhole, TrueVerdicts

\* A sink opened from an audit log that tells the verdicts tells them.
LEMMA OpenedTells ==
  ASSUME CliInv, NEW run \in Nat, AuditAgrees
  PROVE  AuditVerdicts(InitSink(run, audit).records) = verdicts
<1>1. audit \in AuditFile
  BY ToldTypes DEF CliInv, FilesInv
<1>2. InitSink(run, audit).records = audit.recs
  BY <1>1 DEF AuditAgrees, InitSink, ParseJsonl, NewSink, None, Some
<1> QED  BY <1>2 DEF AuditAgrees

LEMMA StartInOrder ==
  ASSUME CliInv, NEW p \in Process, InOrder(proc[p]), Start(p)
  PROVE  InOrder(proc[p])'
<1>1. SessionAgrees /\ AuditAgrees /\ AuditKept /\ BundleWhole
  BY StartEffects DEF InOrder, Extending, Recording, Bundling
<1>2. SessionAgrees' /\ AuditAgrees' /\ AuditKept' /\ BundleWhole'
  BY <1>1, StartEffects, SameFiles
<1> QED  BY <1>2, StartEffects DEF InOrder, Verifying, Reading, Extending, Recording, Bundling

LEMMA FrameInOrder ==
  ASSUME CliInv, NEW p \in Process, InOrder(proc[p]), FrameStep(p)
  PROVE  InOrder(proc[p])'
<1>1. SessionAgrees /\ AuditAgrees /\ AuditKept /\ BundleWhole
  BY FrameEffects DEF InOrder, Extending, Recording, Bundling
<1>2. SessionAgrees' /\ AuditAgrees' /\ AuditKept' /\ BundleWhole'
  BY <1>1, FrameEffects, SameFiles
<1>3. CASE proc'[p].pc = "off"
  BY <1>2, <1>3, EndsInOrder
<1>4. CASE proc'[p].pc # "off"
  <2>1. /\ proc'[p].job = proc[p].job /\ proc'[p].log = proc[p].log
        /\ proc'[p].sink = proc[p].sink /\ UNCHANGED session
        /\ \/ proc[p].pc = "read_frame" /\ proc'[p].pc = AfterRead(proc[p].job.cmd)
                /\ proc[p].job.cmd \in {"verify", "verify-frame", "replay", "tamper"}
           \/ proc'[p].pc \in {"create_frame", "write_frame"}
    BY <1>4, FrameEffects
  <2>2. CASE proc'[p].pc \in {"create_frame", "write_frame"}
    BY <1>2, <2>2 DEF InOrder, Verifying, Reading, Extending, Recording, Bundling
  <2>3. CASE proc[p].pc = "read_frame" /\ proc'[p].pc = AfterRead(proc[p].job.cmd)
               /\ proc[p].job.cmd \in {"verify", "verify-frame", "replay", "tamper"}
    <3>1. /\ proc[p].sink = None
          /\ proc[p].job.cmd = "replay" => proc[p].log = session.recs
      BY <2>3 DEF InOrder, Verifying, Reading
    <3>2. /\ proc'[p].pc \in {"create_frame", "verify", "verify-frame", "replay"}
          /\ proc'[p].pc = "replay" => proc[p].job.cmd = "replay"
      BY <2>3 DEF AfterRead
    <3> QED  BY <1>2, <2>1, <3>1, <3>2
             DEF InOrder, Verifying, Reading, Extending, Recording, Bundling
  <2> QED  BY <2>1, <2>2, <2>3
<1> QED  BY <1>3, <1>4

\* The verdict, on a frame or on a file of another length.
LEMMA VerdictInOrder ==
  ASSUME CliInv, NEW p \in Process, InOrder(proc[p]), TrueVerdicts, ~Fails, Verify(p)
  PROVE  InOrder(proc[p])' /\ TrueVerdicts'
<1> DEFINE x == proc[p]
           y == proc'[p]
<1>1. PICK code \in AndnaErr, found \in {audit, NoFile} :
        /\ UNCHANGED <<session, audit, bundle>> /\ x.pc = "verify"
        /\ AnswersFinding(x.file, code, found)
        /\ y.pc = "load_log" /\ y.job = x.job /\ y.file = x.file /\ y.run = x.run
        /\ y.code = code
        /\ y.sink = IF code = "Length" THEN x.sink
                    ELSE Some(AppendVerify(OpenedSink(p, found), VerifyEvent(x.file, code)))
        /\ verdicts' = IF code = "Length" THEN verdicts
                       ELSE Append(verdicts, <<x.file, code>>)
  BY VerifyEffects
<1>2. found = audit /\ code = IF x.file = BadFile THEN "Length" ELSE Verdict[x.file]
  BY <1>1 DEF AnswersFinding, Answers, Fails
<1>3. x.file \in Input /\ x.run \in Nat /\ Sound(verdicts, x)
  BY <1>1 DEF CliInv, ProcInv, Sound
<1>4. /\ SessionAgrees /\ AuditAgrees /\ AuditKept /\ BundleWhole /\ x.sink = None
  BY <1>1 DEF InOrder, Verifying, Extending, Recording, Bundling
<1>5. /\ session.recs \in Seq(VerificationRecord) /\ verdicts \in Seq(Frame \X AndnaErr)
      /\ bundle' = bundle
  BY <1>1 DEF CliInv, FilesInv, CountInv, ReplayFile
<1>6. RecordOf(y) = [file |-> x.file, code |-> code, run |-> x.run]
  BY <1>1 DEF RecordOf
<1>7. RecordOf(y) \in VerificationRecord
  BY <1>3, <1>6 DEF VerificationRecord
<1>8. BundleWhole'
  BY <1>4, <1>5 DEF BundleWhole
<1> HIDE DEF x, y
<1>9. /\ SessionTells(Append(session.recs, RecordOf(y)), verdicts')
      /\ IF y.sink = None THEN AuditAgrees' ELSE AuditVerdicts(y.sink[1].records) = verdicts'
      /\ TrueVerdicts'
  <2>1. CASE x.file = BadFile
    <3>1. verdicts' = verdicts /\ y.sink = None /\ RecordOf(y).file = BadFile
      BY <1>1, <1>2, <1>4, <1>6, <2>1
    <3>2. SessionTells(Append(session.recs, RecordOf(y)), verdicts)
      BY <1>4, <1>5, <1>7, <3>1, TellsNoMore DEF SessionAgrees
    <3>3. AuditAgrees' /\ TrueVerdicts'
      BY <1>1, <1>4, <3>1 DEF AuditAgrees, TrueVerdicts
    <3> QED  BY <3>1, <3>2, <3>3
  <2>2. CASE x.file # BadFile
    <3> DEFINE sink == InitSink(x.run, audit)
               inp == VerifyEvent(x.file, code)
               v == <<x.file, code>>
    <3>1. /\ x.file \in Frame /\ code = Verdict[x.file] /\ code \notin {"Length", "Internal"}
      BY <1>2, <1>3, <2>2, CliVerdictAssumption DEF Input
    <3>2. /\ verdicts' = Append(verdicts, v)
          /\ y.sink = Some(AppendVerify(sink, inp))
      BY <1>1, <1>2, <1>4, <3>1 DEF OpenedSink, x
    <3>3. v \in Frame \X AndnaErr /\ v = <<RecordOf(y).file, RecordOf(y).code>>
          /\ RecordOf(y).file # BadFile
      BY <1>6, <2>2, <3>1
    <3>4. SessionTells(Append(session.recs, RecordOf(y)), verdicts')
      BY <1>4, <1>5, <1>7, <3>2, <3>3, TellsOneMore DEF SessionAgrees
    <3>5. sink \in AuditSinkState /\ AuditVerdicts(sink.records) = verdicts
      <4>1. audit \in ToldFile(verdicts)
        BY DEF CliInv, FilesInv
      <4> QED  BY <1>3, <1>4, <4>1, OpenedTold, OpenedTells, ToldTypes
    <3>6. inp \in VerifyEventInput
      <4>1. Len(verdicts) + 1 \in Time /\ {} \in SUBSET Flags
        BY <1>1, VerdictHasTime DEF Waits, x
      <4> QED  BY <3>1, <4>1 DEF VerifyEvent, VerifyEventInput
    <3>7. NextRecord(sink, inp) \in AuditRecord /\ sink.records \in Seq(AuditRecord)
      BY <3>5, <3>6, NextRecordType DEF AuditSinkState
    <3>8. /\ NextRecord(sink, inp).content.frame_hash = <<x.file>>
          /\ NextRecord(sink, inp).content.err_code = code
      BY DEF NextRecord, NextContent, FrameHash, VerifyEvent, None, Some, Sha3
    <3>9. y.sink # None /\ y.sink[1].records = Append(sink.records, NextRecord(sink, inp))
      BY <3>2 DEF Some, None, AppendVerify, PushRecord
    <3> HIDE DEF sink, inp
    <3>10. AuditVerdicts(y.sink[1].records) = verdicts'
      BY <3>2, <3>5, <3>7, <3>8, <3>9, AuditTellsOneMore
    <3>11. TrueVerdicts'
      <4>1. /\ Len(verdicts) \in Nat /\ Len(verdicts') = Len(verdicts) + 1
            /\ verdicts'[Len(verdicts) + 1] = v
            /\ \A i \in 1..Len(verdicts) : verdicts'[i] = verdicts[i]
        BY <1>5, <3>2, <3>3, AppendProperties, LenProperties
      <4>2. \A i \in 1..Len(verdicts) + 1 : i \in 1..Len(verdicts) \/ i = Len(verdicts) + 1
        BY <4>1
      <4>3. v[2] = Verdict[v[1]]
        BY <3>1
      <4> HIDE DEF v
      <4> QED  BY <4>1, <4>2, <4>3 DEF TrueVerdicts
    <3> QED  BY <3>4, <3>9, <3>10, <3>11
  <2> QED  BY <2>1, <2>2
<1>10. ~session'.torn /\ session' = session /\ y.pc = "load_log"
  BY <1>1, <1>4 DEF SessionAgrees
<1>11. InOrder(proc[p])'
  BY <1>8, <1>9, <1>10 DEF InOrder, Verifying, Reading, Extending, Recording, Bundling, y, RecordOf
<1> QED  BY <1>9, <1>11

\* The steps of verify around and after the verdict.
LEMMA SavingInOrder ==
  ASSUME CliInv, NEW p \in Process, Saved(proc[p]), InOrder(proc[p]), ~Fault, ~Fails,
         VerifyStep(p), ~Verify(p)
  PROVE  InOrder(proc[p])'
<1> DEFINE x == proc[p]
           y == proc'[p]
<1>0. Sound(verdicts, x) /\ DOMAIN proc = Process /\ DOMAIN x = PlaceFields
  BY DEF CliInv, ProcInv, Sound
<1>1. ~InitFails(p) /\ ~WriteLogFails(p) /\ ~WriteAuditFails(p)
  BY DEF InitFails, WriteLogFails, WriteAuditFails
<1>2. CASE VerifyFrame(p)
  <2>1. y.pc = "off" /\ UNCHANGED <<session, audit, bundle, verdicts>> /\ x.pc = "verify-frame"
    BY <1>2, ExitSaved DEF VerifyFrame, At
  <2>2. SessionAgrees /\ AuditAgrees /\ AuditKept /\ BundleWhole
    BY <2>1 DEF InOrder, Extending, Recording, Bundling
  <2> QED  BY <2>1, <2>2, SameFiles, EndsInOrder
<1>3. CASE ExtendLog(p)
  <2>1. /\ UNCHANGED <<session, audit, bundle, verdicts>>
        /\ x.pc = "load_log" /\ y.pc = "create_log" /\ y.sink = x.sink
        /\ y.log = Append(LoadedOrNew(session), RecordOf(x))
    BY <1>3, ExtendEffects
  <2>2. LoadedOrNew(session) = session.recs /\ SessionTells(y.log, verdicts) /\ BundleWhole
    BY <2>1 DEF InOrder, Verifying, LoadedOrNew, LoadLog, Some, None, Bundling
  <2>3. IF y.sink = None THEN AuditAgrees' ELSE AuditVerdicts(y.sink[1].records) = verdicts'
    BY <2>1, SameFiles DEF InOrder, Verifying, Recording, Extending
  <2>4. BundleWhole' /\ verdicts' = verdicts
    BY <2>1, <2>2, SameFiles
  <2> QED  BY <2>1, <2>2, <2>3, <2>4
           DEF InOrder, Verifying, Reading, Extending, Recording, Bundling
<1>4. CASE CreateLog(p)
  <2>1. /\ session' = TornLog /\ UNCHANGED <<audit, bundle, verdicts>>
        /\ x.pc = "create_log" /\ Goes(p, "write_log")
    BY <1>4 DEF CreateLog, At
  <2>2. y.pc = "write_log" /\ y.sink = x.sink /\ y.log = x.log
    BY <2>1, GoesEffects
  <2>3. SessionTells(x.log, verdicts) /\ BundleWhole
    BY <2>1 DEF InOrder, Verifying, Bundling
  <2>4. IF x.sink = None THEN AuditAgrees' ELSE AuditVerdicts(x.sink[1].records) = verdicts'
    BY <2>1 DEF InOrder, Verifying, Recording, Extending, AuditAgrees
  <2>5. BundleWhole'
    BY <2>1, <2>3 DEF BundleWhole
  <2> QED  BY <2>1, <2>2, <2>3, <2>4, <2>5
           DEF InOrder, Verifying, Reading, Extending, Recording, Bundling
<1>5. CASE WriteLog(p)
  <2>1. /\ session' \in OverwrittenLog(x.log, session) /\ UNCHANGED <<audit, bundle, verdicts>>
        /\ x.pc = "write_log" /\ Goes(p, "open_sink")
    BY <1>5 DEF WriteLog, At
  <2>2. y.pc = "open_sink" /\ y.sink = x.sink
    BY <2>1, GoesEffects
  <2>3. session' = LogOf(x.log)
    BY <1>0, <2>1, WrittenWhole DEF Saved, Saving, Sound
  <2>4. SessionTells(x.log, verdicts) /\ BundleWhole
    BY <2>1 DEF InOrder, Verifying, Bundling
  <2>5. IF x.sink = None THEN AuditAgrees' ELSE AuditVerdicts(x.sink[1].records) = verdicts'
    BY <2>1 DEF InOrder, Verifying, Recording, Extending, AuditAgrees
  <2>6. BundleWhole' /\ SessionAgrees'
    BY <2>1, <2>3, <2>4 DEF BundleWhole, SessionAgrees, LogOf
  <2> QED  BY <2>1, <2>2, <2>5, <2>6
           DEF InOrder, Verifying, Reading, Extending, Recording, Bundling
<1>6. CASE OpenSink(p)
  <2> DEFINE opened == Some(OpenedSink(p, audit))
  <2>1. /\ x.pc = "open_sink" /\ UNCHANGED <<session, audit, bundle, verdicts>>
        /\ proc' = [proc EXCEPT ![p].pc = "create_audit", ![p].sink = opened]
    BY <1>6 DEF OpenSink, Fails, At
  <2>2. AuditVerdicts(OpenedSink(p, audit).records) = verdicts
    <3>1. x.run \in Nat
      BY <1>0 DEF Sound
    <3>2. IF x.sink = None THEN AuditAgrees ELSE AuditVerdicts(x.sink[1].records) = verdicts
      BY <2>1 DEF InOrder, Verifying, Recording
    <3>3. CASE x.sink = None
      BY <3>1, <3>2, <3>3, OpenedTells DEF OpenedSink
    <3> QED  BY <3>2, <3>3 DEF OpenedSink
  <2>3. opened # None /\ opened[1] = OpenedSink(p, audit)
    BY DEF Some, None
  <2> HIDE DEF opened
  <2>4. y.pc = "create_audit" /\ y.sink = opened
    BY <1>0, <2>1 DEF PlaceFields
  <2>5. SessionAgrees /\ BundleWhole
    BY <2>1 DEF InOrder, Extending, Bundling
  <2>6. SessionAgrees' /\ BundleWhole' /\ verdicts' = verdicts
    BY <2>1, <2>5, SameFiles
  <2> QED  BY <2>2, <2>3, <2>4, <2>6
           DEF InOrder, Verifying, Reading, Extending, Recording, Bundling
<1>7. CASE CreateAudit(p)
  <2>1. /\ audit' = FileOf(<<>>) /\ UNCHANGED <<session, bundle, verdicts>>
        /\ x.pc = "create_audit" /\ Goes(p, "write_audit")
    BY <1>7 DEF CreateAudit, At
  <2>2. y.pc = "write_audit" /\ y.sink = x.sink
    BY <2>1, GoesEffects
  <2>3. /\ x.sink # None /\ AuditVerdicts(x.sink[1].records) = verdicts
        /\ SessionAgrees /\ BundleWhole
    BY <1>0, <2>1 DEF InOrder, Verifying, Extending, Recording, Bundling, Sound
  <2>4. SessionAgrees' /\ BundleWhole'
    BY <2>1, <2>3 DEF SessionAgrees, BundleWhole
  <2> QED  BY <2>1, <2>2, <2>3, <2>4
           DEF InOrder, Verifying, Reading, Extending, Recording, Bundling
<1>8. CASE WriteAudit(p)
  <2> DEFINE new == FileOf(x.sink[1].records)
  <2>1. /\ audit' \in OverwrittenAudit(new, audit) /\ UNCHANGED <<session, bundle, verdicts>>
        /\ x.pc = "write_audit" /\ y.pc = "off"
    BY <1>8, ExitSaved DEF WriteAudit, At
  <2>2. /\ x.sink # None /\ AuditVerdicts(x.sink[1].records) = verdicts
        /\ audit = FileOf(<<>>) /\ SessionAgrees /\ BundleWhole
    BY <1>0, <2>1 DEF InOrder, Verifying, Extending, Recording, Bundling, Sound
  <2>3. audit' = new
    BY <2>1, <2>2 DEF OverwrittenAudit
  <2>4. AuditAgrees' /\ AuditKept'
    BY <2>1, <2>2, <2>3 DEF AuditAgrees, AuditKept, FileOf
  <2>5. SessionAgrees' /\ BundleWhole'
    BY <2>1, <2>2 DEF SessionAgrees, BundleWhole
  <2> QED  BY <2>1, <2>4, <2>5, EndsInOrder
<1> QED
  BY <1>1, <1>2, <1>3, <1>4, <1>5, <1>6, <1>7, <1>8 DEF VerifyStep

\* What is loaded is the whole of the log that stands there.
LEMMA ReplayInOrder ==
  ASSUME CliInv, NEW p \in Process, InOrder(proc[p]), ~Fails, ReplayStep(p)
  PROVE  InOrder(proc[p])'
<1> DEFINE x == proc[p]
           y == proc'[p]
<1>1. x.pc \in {"load_replay", "replay"} /\ UNCHANGED <<session, audit, bundle, verdicts>>
  BY DEF ReplayStep, LoadReplay, LoadFails, Replay, ReplayImpossible, At
<1>2. SessionAgrees /\ AuditAgrees /\ AuditKept /\ BundleWhole
  BY <1>1 DEF InOrder, Extending, Recording, Bundling
<1>3. SessionAgrees' /\ AuditAgrees' /\ AuditKept' /\ BundleWhole'
  BY <1>1, <1>2, SameFiles
<1>4. CASE y.pc = "off"
  BY <1>3, <1>4, EndsInOrder
<1>5. CASE y.pc # "off"
  <2>1. ASSUME NEW rc  PROVE ~Exits(p, rc)
    BY <1>5, ExitSaved
  <2>2. x.pc = "load_replay" /\ proc' = [proc EXCEPT ![p].pc = "read_frame", ![p].log = session.recs]
    BY <2>1 DEF ReplayStep, LoadReplay, LoadFails, Replay, ReplayImpossible, At
  <2>3. DOMAIN proc = Process /\ DOMAIN x = PlaceFields
    BY DEF CliInv, ProcInv, Sound
  <2>4. y.pc = "read_frame" /\ y.log = session.recs /\ y.sink = x.sink
    BY <2>2, <2>3 DEF PlaceFields
  <2>5. y.sink = None /\ session' = session
    BY <1>1, <2>2, <2>4 DEF InOrder, Verifying
  <2> QED  BY <1>3, <2>4, <2>5 DEF InOrder, Verifying, Reading, Extending, Recording, Bundling
<1> QED  BY <1>4, <1>5

\* The bundle is put together from files nobody writes meanwhile.
LEMMA ExportInOrder ==
  ASSUME CliInv, NEW p \in Process, InOrder(proc[p]), ~Fault, ~Fails, ExportStep(p)
  PROVE  InOrder(proc[p])'
<1> DEFINE x == proc[p]
           y == proc'[p]
<1>0. /\ DOMAIN proc = Process /\ DOMAIN x = PlaceFields
      /\ DOMAIN bundle = {"evidence", "audit", "validate", "manifest"}
  BY DEF CliInv, FilesInv, ProcInv, Sound
<1>1. ~SaveEvidenceFails(p) /\ ~CopyAuditFails(p) /\ ~ValidateAuditFails(p)
  BY DEF SaveEvidenceFails, CopyAuditFails, ValidateAuditFails
<1>2. /\ x.pc \in {"load_export", "save_evidence"} \cup Bundling
      /\ UNCHANGED <<session, audit, verdicts>>
  BY <1>1 DEF ExportStep, LoadExport, SaveEvidence, CopyAudit, ValidateAudit, WriteValidate,
              WriteManifest, At, Bundling
<1>3. SessionAgrees /\ AuditAgrees /\ AuditKept
  BY <1>2 DEF InOrder, Extending, Recording, Bundling
<1>4. SessionAgrees' /\ AuditAgrees' /\ AuditKept'
  BY <1>2, <1>3 DEF SessionAgrees, AuditAgrees, AuditKept
<1>5. Reading(x)
  BY DEF InOrder
<1>6. ASSUME BundleWhole', y.pc = "save_evidence", y.log = session.recs, y.log # <<>>
      PROVE  InOrder(proc[p])'
  BY <1>2, <1>4, <1>6 DEF InOrder, Verifying, Reading, Extending, Recording, Bundling
<1>7. ASSUME y.pc \in Bundling, Reading(proc[p])'
      PROVE  InOrder(proc[p])'
  BY <1>4, <1>7 DEF InOrder, Verifying, Extending, Recording, Bundling
<1>8. CASE LoadExport(p)
  <2>1. x.pc = "load_export" /\ bundle' = bundle
    BY <1>8 DEF LoadExport, At
  <2>2. BundleWhole'
    BY <1>2, <2>1, SameFiles DEF InOrder, Bundling
  <2>3. CASE Exits(p, 2)
    BY <1>4, <2>2, <2>3, EndsInOrder, ExitSaved
  <2>4. CASE ~Exits(p, 2)
    <3>1. /\ LoadLog(session) # Some(<<>>) /\ LoadLog(session) # None
          /\ proc' = [proc EXCEPT ![p].pc = "save_evidence", ![p].log = session.recs]
      BY <1>8, <2>4 DEF LoadExport
    <3>2. session.recs # <<>>
      BY <3>1 DEF LoadLog
    <3>3. y.pc = "save_evidence" /\ y.log = session.recs
      BY <1>0, <3>1 DEF PlaceFields
    <3> QED  BY <1>6, <2>2, <3>2, <3>3
  <2> QED  BY <2>3, <2>4
<1>9. CASE SaveEvidence(p)
  <2>1. /\ x.pc = "save_evidence" /\ Goes(p, "copy_audit")
        /\ bundle' = [bundle EXCEPT !.evidence = LogOf(x.log)]
    BY <1>9 DEF SaveEvidence, At
  <2>2. y.pc = "copy_audit" /\ y.log = x.log /\ bundle'.evidence = LogOf(x.log)
    BY <1>0, <2>1, GoesEffects
  <2>3. Reading(proc[p])'
    BY <1>2, <1>5, <2>1, <2>2 DEF Reading, Bundling
  <2> QED  BY <1>7, <2>2, <2>3 DEF Bundling
<1>10. CASE CopyAudit(p)
  <2>1. x.pc = "copy_audit"
    BY <1>10 DEF CopyAudit, At
  <2>2. /\ x.log = session.recs /\ x.log # <<>> /\ bundle.evidence = LogOf(x.log)
    BY <1>5, <2>1 DEF Reading, Bundling
  <2>3. audit.exists
    BY <1>3, <2>2 DEF AuditKept
  <2>4. bundle' = [bundle EXCEPT !.audit = audit] /\ Goes(p, "validate_audit")
    BY <1>10, <2>3 DEF CopyAudit
  <2>5. /\ y.pc = "validate_audit" /\ y.log = x.log
        /\ bundle'.audit = audit /\ bundle'.evidence = bundle.evidence
    BY <1>0, <2>4, GoesEffects
  <2>6. Reading(proc[p])'
    BY <1>2, <2>2, <2>5 DEF Reading, Bundling
  <2> QED  BY <1>7, <2>5, <2>6 DEF Bundling
<1>11. CASE ValidateAudit(p)
  <2> DEFINE outcome == ValidateJsonl(audit)
  <2>1. /\ x.pc = "validate_audit" /\ bundle' = bundle
        /\ proc' = [proc EXCEPT ![p].pc = "write_validate", ![p].outcome = outcome]
    BY <1>11 DEF ValidateAudit, At
  <2> HIDE DEF outcome
  <2>2. y.pc = "write_validate" /\ y.log = x.log /\ y.outcome = outcome
    BY <1>0, <2>1 DEF PlaceFields
  <2>3. Reading(proc[p])'
    BY <1>2, <1>5, <2>1, <2>2 DEF Reading, Bundling, outcome
  <2> QED  BY <1>7, <2>2, <2>3 DEF Bundling
<1>12. CASE WriteValidate(p)
  <2>1. /\ x.pc = "write_validate" /\ Goes(p, "write_manifest")
        /\ bundle' = [bundle EXCEPT !.validate = Some(x.outcome)]
    BY <1>12 DEF WriteValidate, At
  <2>2. /\ y.pc = "write_manifest" /\ y.log = x.log /\ y.outcome = x.outcome
        /\ bundle'.validate = Some(x.outcome)
        /\ bundle'.evidence = bundle.evidence /\ bundle'.audit = bundle.audit
    BY <1>0, <2>1, GoesEffects
  <2>3. Reading(proc[p])'
    BY <1>2, <1>5, <2>1, <2>2 DEF Reading, Bundling
  <2> QED  BY <1>7, <2>2, <2>3 DEF Bundling
<1>13. CASE WriteManifest(p)
  <2> DEFINE manifest == [record_count |-> Len(x.log), evidence_digest |-> bundle.evidence,
                          verification_digest |-> VerificationDigest(x.log)]
  <2>1. /\ x.pc = "write_manifest" /\ Exits(p, 0)
        /\ bundle' = [bundle EXCEPT !.manifest = Some(manifest)]
    BY <1>13 DEF WriteManifest, At
  <2>2. /\ bundle'.manifest = Some(manifest) /\ bundle'.evidence = bundle.evidence
        /\ bundle'.audit = bundle.audit /\ bundle'.validate = bundle.validate
    BY <1>0, <2>1
  <2>3. /\ bundle.evidence = LogOf(x.log) /\ bundle.audit = audit /\ x.log = session.recs
        /\ bundle.validate = Some(ValidateJsonl(audit))
    BY <1>5, <2>1 DEF Reading, Bundling
  <2>4. bundle'.evidence.recs = x.log
    BY <2>2, <2>3 DEF LogOf
  <2>5. SessionTells(x.log, AuditVerdicts(audit.recs))
    BY <1>3, <2>3 DEF SessionAgrees, AuditAgrees
  <2>6. Some(manifest)[1] = manifest
    BY DEF Some
  <2>7. BundleWhole'
    BY <2>2, <2>3, <2>4, <2>5, <2>6 DEF BundleWhole
  <2> QED  BY <1>4, <2>1, <2>7, ExitSaved, EndsInOrder
<1> QED
  BY <1>1, <1>8, <1>9, <1>10, <1>11, <1>12, <1>13 DEF ExportStep

LEMMA OrderStep ==
  ASSUME CliInv, SavedInv, OrderInv, [Next]_vars
  PROVE  OrderInv'
<1>1. CASE UNCHANGED vars
  <2>1. /\ UNCHANGED <<session, audit, bundle, verdicts, proc, faults>>
    BY <1>1 DEF vars, count
  <2> QED  BY <2>1 DEF OrderInv, Undisturbed, Alone, TrueVerdicts, InOrder, Verifying, Reading,
                       SessionAgrees, AuditAgrees, AuditKept, BundleWhole
<1>2. CASE Next
  <2> SUFFICES ASSUME Alone, faults' = 0
               PROVE  /\ TrueVerdicts'
                      /\ \A p \in Process : InOrder(proc[p])'
                      /\ Process # {}
    BY DEF OrderInv, Undisturbed, Alone
  <2>1. PICK p \in Process :
          Start(p) \/ FrameStep(p) \/ VerifyStep(p) \/ ReplayStep(p) \/ ExportStep(p) \/ Crash(p)
    BY <1>2 DEF Next
  <2>2. faults = 0
    <3>1. faults \in Nat
      BY CliBoundAssumption DEF CliInv, FilesInv
    <3> QED  BY <2>1, <3>1, FaultsStay
  <2>3. ~Fault /\ ~Fails
    BY <2>2, NoFaultNow
  <2>4. Saved(proc[p]) /\ InOrder(proc[p]) /\ TrueVerdicts
    BY <2>2 DEF SavedInv, OrderInv, Undisturbed
  <2>5. InOrder(proc[p])' /\ TrueVerdicts'
    <3>1. CASE Start(p)
      BY <2>4, <3>1, StartInOrder, StartEffects, SameFiles
    <3>2. CASE FrameStep(p)
      BY <2>4, <3>2, FrameInOrder, FrameEffects, SameFiles
    <3>3. CASE Verify(p)
      BY <2>3, <2>4, <3>3, VerdictInOrder
    <3>4. CASE VerifyStep(p) /\ ~Verify(p)
      <4>1. UNCHANGED verdicts
        BY <3>4 DEF VerifyStep, InitFails, VerifyFrame, ExtendLog, CreateLog, WriteLog,
                    WriteLogFails, OpenSink, CreateAudit, WriteAudit, WriteAuditFails
      <4> QED  BY <2>3, <2>4, <3>4, <4>1, SavingInOrder DEF TrueVerdicts
    <3>5. CASE ReplayStep(p)
      BY <2>3, <2>4, <3>5, ReplayInOrder, ReadEffects DEF TrueVerdicts
    <3>6. CASE ExportStep(p)
      BY <2>3, <2>4, <3>6, ExportInOrder, ReadEffects DEF TrueVerdicts
    <3>7. ~Crash(p)
      BY <2>3 DEF Crash
    <3> QED  BY <2>1, <3>1, <3>2, <3>3, <3>4, <3>5, <3>6, <3>7
  <2>6. \A q \in Process : q = p
    BY DEF Alone
  <2> QED  BY <2>5, <2>6
<1> QED  BY <1>1, <1>2

LEMMA InitInOrder == Init => OrderInv
<1> SUFFICES ASSUME Init  PROVE OrderInv
  OBVIOUS
<1>1. SessionAgrees /\ AuditAgrees /\ AuditKept /\ BundleWhole
  BY TellsNone DEF Init, NoLog, NoFile, NoBundle, None, SessionAgrees, AuditAgrees, AuditKept,
                   BundleWhole
<1>2. TrueVerdicts
  BY DEF Init, TrueVerdicts
<1>3. InOrder(Off)
  BY <1>1 DEF InOrder, Verifying, Reading, Off, Extending, Recording, Bundling
<1>4. \A p \in Process : proc[p] = Off
  BY DEF Init
<1> QED  BY <1>2, <1>3, <1>4 DEF OrderInv

LEMMA OrderAlways == Spec => [](CliInv /\ SavedInv /\ OrderInv)
BY InitSaved, InitInOrder, CliAlways, SavedStep, OrderStep, PTL DEF Spec

\* At rest every part is in order.
LEMMA QuietIsInOrder ==
  ASSUME OrderInv, Undisturbed, Quiet
  PROVE  SessionAgrees /\ AuditAgrees /\ BundleWhole
<1>1. CASE Process = {}
  BY <1>1 DEF OrderInv, InOrder, Off, Extending, Recording, Bundling
<1>2. CASE Process # {}
  <2>1. PICK p \in Process : proc[p].pc = "off"
    BY <1>2 DEF Quiet, At
  <2> QED  BY <2>1 DEF OrderInv, InOrder, Extending, Recording, Bundling
<1> QED  BY <1>1, <1>2

\* LogsAgree: commands one after the other leave two logs that tell the same
\* verdicts, however many there are (main.rs:218-279).
THEOREM LogsTellTheSame == Spec => []LogsAgree
<1>1. OrderInv => LogsAgree
  BY QuietIsInOrder DEF LogsAgree, SessionAgrees, AuditAgrees
<1> QED  BY <1>1, OrderAlways, PTL

\* BundleOfOneMoment: a bundle made with nothing else running is of one moment
\* (main.rs:402-495).
THEOREM BundleFitsTogether == Spec => []BundleOfOneMoment
<1>1. OrderInv => BundleOfOneMoment
  BY QuietIsInOrder DEF BundleOfOneMoment, BundleWhole
<1> QED  BY <1>1, OrderAlways, PTL

\* ReplayKnowsVerdicts: replay of a frame succeeds exactly when it was verified
\* (main.rs:347-400).
THEOREM ReplayFindsVerdicts == Spec => ReplayKnowsVerdicts
<1>1. CliInv /\ OrderInv /\ [Next]_vars =>
        [\A p \in Process :
           Undisturbed /\ faults' = 0 /\ At(p, "replay") /\ proc'[p].pc = "off"
             /\ proc[p].file \in Frame
           => (proc'[p].rc = Some(0) <=>
                 \E i \in 1..Len(verdicts) : verdicts[i][1] = proc[p].file)]_vars
  <2> SUFFICES ASSUME CliInv, OrderInv, Next, NEW p \in Process, Undisturbed, faults' = 0,
                      At(p, "replay"), proc'[p].pc = "off", proc[p].file \in Frame
               PROVE  proc'[p].rc = Some(0) <=>
                        \E i \in 1..Len(verdicts) : verdicts[i][1] = proc[p].file
    OBVIOUS
  <2> DEFINE log == proc[p].log
             file == proc[p].file
             found == {k \in 1..Len(log) : log[k].file = file}
  <2>1. ~Fault /\ ~Fails
    BY NoFaultNow DEF Undisturbed
  <2>2. Replay(p)
    <3>1. Start(p) \/ FrameStep(p) \/ VerifyStep(p) \/ ReplayStep(p) \/ ExportStep(p) \/ Crash(p)
      BY DEF Next, Alone, Undisturbed
    <3>2. proc[p].pc = "replay"
      BY DEF At
    <3>3. ~Start(p) /\ ~FrameStep(p)
      BY <3>2, StartEffects, FrameEffects
    <3>4. ~VerifyStep(p) /\ ~ExportStep(p) /\ ~LoadReplay(p)
      BY <3>2 DEF VerifyStep, InitFails, VerifyFrame, Verify, ExtendLog, CreateLog, WriteLog,
                  WriteLogFails, OpenSink, CreateAudit, WriteAudit, WriteAuditFails,
                  ExportStep, LoadExport, SaveEvidence, SaveEvidenceFails, CopyAudit,
                  CopyAuditFails, ValidateAudit, ValidateAuditFails, WriteValidate,
                  WriteManifest, LoadReplay, At
    <3>5. ~Crash(p) /\ ~LoadFails(p) /\ ~ReplayImpossible(p)
      BY <2>1 DEF Crash, LoadFails, ReplayImpossible
    <3> QED  BY <3>1, <3>3, <3>4, <3>5 DEF ReplayStep
  <2>3. /\ TrueVerdicts /\ SessionTells(log, verdicts)
    <3>1. TrueVerdicts /\ InOrder(proc[p]) /\ proc[p].pc = "replay"
      BY DEF OrderInv, At
    <3>2. log = session.recs /\ SessionTells(session.recs, verdicts)
      BY <3>1 DEF InOrder, Reading, Extending, SessionAgrees
    <3> QED  BY <3>1, <3>2
  <2>4. log \in Seq(VerificationRecord) /\ Len(log) \in Nat
    BY LenProperties DEF CliInv, ProcInv, Sound, Logs
  <2>5. file # BadFile
    BY BadFileAssumption
  <2>6. PICK at \in [1..Len(verdicts) -> 1..Len(log)] :
          /\ \A i \in 1..Len(verdicts) : verdicts[i] = <<log[at[i]].file, log[at[i]].code>>
          /\ \A k \in 1..Len(log) : log[k].file # BadFile
                                      <=> \E i \in 1..Len(verdicts) : at[i] = k
    BY <2>3 DEF SessionTells
  <2> HIDE DEF log, file
  <2>7. found = {} <=> ~\E i \in 1..Len(verdicts) : verdicts[i][1] = file
    <3>1. ASSUME NEW k \in found  PROVE \E i \in 1..Len(verdicts) : verdicts[i][1] = file
      <4>1. PICK i \in 1..Len(verdicts) : at[i] = k
        BY <2>5, <2>6
      <4>2. verdicts[i] = <<file, log[k].code>>
        BY <2>6, <4>1
      <4> QED  BY <4>2
    <3>2. ASSUME NEW i \in 1..Len(verdicts), verdicts[i][1] = file  PROVE at[i] \in found
      <4>1. at[i] \in 1..Len(log) /\ verdicts[i] = <<log[at[i]].file, log[at[i]].code>>
        BY <2>6
      <4> QED  BY <3>2, <4>1
    <3> QED  BY <3>1, <3>2
  <2>8. \A k \in found : log[k].code = Verdict[file]
    <3> SUFFICES ASSUME NEW k \in found  PROVE log[k].code = Verdict[file]
      OBVIOUS
    <3>1. PICK i \in 1..Len(verdicts) : at[i] = k
      BY <2>5, <2>6
    <3>2. verdicts[i] = <<file, log[k].code>>
      BY <2>6, <3>1
    <3>3. verdicts[i][2] = Verdict[verdicts[i][1]]
      BY <2>3 DEF TrueVerdicts
    <3> QED  BY <3>2, <3>3
  <2>9. found # {} => Least(found) \in found
    <3>1. found \in SUBSET Nat
      BY <2>4
    <3> QED  BY <3>1, LeastNat
  <2>10. Some(0) # Some(1)
    BY DEF Some
  <2>11. CASE found = {}
    <3>1. Exits(p, 1)
      BY <2>2, <2>11 DEF Replay, Matching, log, file
    <3>2. proc'[p].rc = Some(1)
      BY <3>1, ExitSaved
    <3> QED  BY <2>7, <2>10, <2>11, <3>2 DEF file
  <2>12. CASE found # {}
    <3>1. PICK code \in AndnaErr :
            /\ Answers(file, code)
            /\ Exits(p, IF Decision(code) = Decision(log[Least(found)].code) THEN 0 ELSE 1)
      BY <2>2, <2>12 DEF Replay, Matching, log, file
    <3>2. code = Verdict[file]
      BY <2>1, <2>5, <3>1 DEF Answers
    <3>3. Exits(p, 0)
      BY <2>8, <2>9, <2>12, <3>1, <3>2
    <3>4. proc'[p].rc = Some(0)
      BY <3>3, ExitSaved
    <3> QED  BY <2>7, <2>12, <3>4 DEF file
  <2> QED  BY <2>11, <2>12
<1> QED  BY <1>1, OrderAlways, PTL DEF Spec, ReplayKnowsVerdicts

\* Nothing failing, the audit log is what was exported last, but while it is
\* written again.
ExportStands(x) == x.pc # "write_audit" => ~audit.torn /\ audit.recs = flushed

ExportInv == Undisturbed => \A p \in Process : ExportStands(proc[p])

LEMMA ExportKept ==
  ASSUME CliInv, ChainInv, ExportInv, [Next]_vars
  PROVE  ExportInv'
<1>1. CASE UNCHANGED vars
  BY <1>1 DEF vars, count, ExportInv, ExportStands, Undisturbed, Alone
<1>2. CASE Next
  <2> SUFFICES ASSUME Alone, faults' = 0, NEW p \in Process  PROVE ExportStands(proc[p])'
    BY DEF ExportInv, Undisturbed, Alone
  <2>1. Start(p) \/ FrameStep(p) \/ VerifyStep(p) \/ ReplayStep(p) \/ ExportStep(p) \/ Crash(p)
    BY <1>2 DEF Next, Alone
  <2>2. faults = 0
    <3>1. faults \in Nat
      BY CliBoundAssumption DEF CliInv, FilesInv
    <3> QED  BY <2>1, <3>1, FaultsStay
  <2>3. ~Fault /\ ~Fails
    BY <2>2, NoFaultNow
  <2>4. ExportStands(proc[p]) /\ HoldsChain(proc[p])
    BY <2>2 DEF ExportInv, ChainInv, Undisturbed
  <2>5. CASE WriteAudit(p)
    <3> DEFINE rs == proc[p].sink[1].records
    <3>1. audit' \in OverwrittenAudit(FileOf(rs), audit) /\ flushed' = rs /\ audit = FileOf(<<>>)
      BY <2>4, <2>5 DEF WriteAudit, At, HoldsChain
    <3>2. audit' = FileOf(rs)
      BY <3>1, OverNothing
    <3> QED  BY <3>1, <3>2 DEF ExportStands, FileOf
  <2>6. CASE CreateAudit(p)
    <3>1. proc'[p].pc = "write_audit"
      BY <2>3, <2>6, GoesEffects DEF CreateAudit
    <3> QED  BY <3>1 DEF ExportStands
  <2>7. CASE ~WriteAudit(p) /\ ~CreateAudit(p)
    <3>1. UNCHANGED <<audit, flushed>> /\ proc[p].pc # "write_audit"
      <4>1. CASE Start(p) \/ FrameStep(p)
        BY <4>1 DEF Start, FrameStep, ReadFrame, ReadFrameFails, Generate, CreateFrame,
                    WriteFrame, At
      <4>2. CASE VerifyStep(p)
        BY <2>3, <2>7, <4>2 DEF VerifyStep, InitFails, VerifyFrame, Verify, ExtendLog, CreateLog,
                    WriteLog, WriteLogFails, OpenSink, WriteAuditFails, At
      <4>3. CASE ReplayStep(p)
        BY <4>3 DEF ReplayStep, LoadReplay, LoadFails, ReplayImpossible, Replay, At
      <4>4. CASE ExportStep(p)
        BY <4>4 DEF ExportStep, LoadExport, SaveEvidence, SaveEvidenceFails, CopyAudit,
                    CopyAuditFails, ValidateAudit, ValidateAuditFails, WriteValidate,
                    WriteManifest, At
      <4>5. ~Crash(p)
        BY <2>3 DEF Crash
      <4> QED  BY <2>1, <4>1, <4>2, <4>3, <4>4, <4>5
    <3> QED  BY <2>4, <3>1 DEF ExportStands
  <2> QED  BY <2>5, <2>6, <2>7
<1> QED  BY <1>1, <1>2

LEMMA ExportAlways == Spec => [](CliInv /\ ChainInv /\ ExportInv)
<1>1. Init => ExportInv
  BY DEF Init, NoFile, ExportInv, ExportStands
<1> QED  BY <1>1, InitChains, CliAlways, ChainStep, ExportKept, PTL DEF Spec

\* ChainGoesOn: as long as nothing fails, the chain goes on from process to
\* process, which is what the comment at sink.rs:149 promises of every run.
THEOREM ChainHolds == Spec => ChainGoesOn
<1>1. CliInv /\ ExportInv /\ [Next]_vars =>
        [\A p \in Process :
           Undisturbed /\ faults' = 0 /\ proc[p].sink = None /\ proc'[p].sink # None
             => IsPrefixOf(flushed, proc'[p].sink[1].records)]_vars
  <2> SUFFICES ASSUME CliInv, ExportInv, Next, NEW p \in Process, Undisturbed, faults' = 0,
                      proc[p].sink = None, proc'[p].sink # None
               PROVE  IsPrefixOf(flushed, proc'[p].sink[1].records)
    OBVIOUS
  <2>1. Start(p) \/ FrameStep(p) \/ VerifyStep(p) \/ ReplayStep(p) \/ ExportStep(p) \/ Crash(p)
    BY DEF Next, Alone, Undisturbed
  <2>2. Verify(p) \/ OpenSink(p)
    <3>1. ~Start(p) /\ ~FrameStep(p) /\ ~ReplayStep(p) /\ ~ExportStep(p)
      BY StartEffects, FrameEffects, ReadEffects
    <3>2. ~Crash(p)
      BY ChainTypes DEF Crash, Off
    <3>3. ASSUME NEW rc  PROVE ~Exits(p, rc)
      BY ExitSaved
    <3>4. ASSUME NEW pc  PROVE ~Goes(p, pc)
      BY GoesEffects
    <3>5. ~ExtendLog(p)
      BY ExtendEffects
    <3> QED
      BY <2>1, <3>1, <3>2, <3>3, <3>4, <3>5
      DEF VerifyStep, InitFails, VerifyFrame, CreateLog, WriteLog, WriteLogFails, CreateAudit,
          WriteAudit, WriteAuditFails
  <2> DEFINE opened == InitSink(proc[p].run, audit)
  <2>8. ~Fails
    BY NoFaultNow DEF Undisturbed
  <2>3. /\ OpenedSink(p, audit) = opened /\ opened \in AuditSinkState
        /\ proc[p].pc \in {"verify", "open_sink"}
    BY <2>2, ChainTypes, InitSinkType DEF OpenedSink, Verify, OpenSink, At
  <2>4. opened.records = flushed
    <3>1. ~audit.torn /\ audit.recs = flushed
      BY <2>3 DEF ExportInv, ExportStands
    <3> QED  BY <3>1 DEF InitSink, ParseJsonl, NewSink, None, Some
  <2>5. flushed \in Seq(AuditRecord) /\ Len(flushed) \in Nat
    BY LenProperties DEF CliInv, FilesInv
  <2> HIDE DEF opened
  <2>6. CASE OpenSink(p)
    <3>1. proc'[p].sink = Some(opened)
      BY <2>3, <2>6, <2>8, ChainTypes DEF OpenSink, PlaceFields
    <3>2. proc'[p].sink[1].records = flushed
      BY <2>4, <3>1 DEF Some
    <3> QED  BY <2>5, <3>2 DEF IsPrefixOf
  <2>7. CASE Verify(p)
    <3>1. PICK code \in AndnaErr :
            proc'[p].sink =
              IF code = "Length" THEN proc[p].sink
              ELSE Some(AppendVerify(OpenedSink(p, audit), VerifyEvent(proc[p].file, code)))
      BY <2>7, <2>8, VerifyEffects DEF AnswersFinding
    <3> DEFINE rec == NextRecord(opened, VerifyEvent(proc[p].file, code))
    <3>2. proc'[p].sink = Some(PushRecord(opened, rec))
      BY <2>3, <3>1 DEF AppendVerify
    <3> HIDE DEF rec
    <3>3. proc'[p].sink[1].records = Append(flushed, rec)
      BY <2>4, <3>2 DEF PushRecord, Some
    <3>4. /\ Len(Append(flushed, rec)) = Len(flushed) + 1
          /\ \A i \in 1..Len(flushed) : Append(flushed, rec)[i] = flushed[i]
      BY <2>5
    <3> QED  BY <2>5, <3>3, <3>4 DEF IsPrefixOf
  <2> QED  BY <2>2, <2>6, <2>7
<1> QED  BY <1>1, ExportAlways, PTL DEF Spec, ChainGoesOn
=============================================================================

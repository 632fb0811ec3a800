-------------------------- MODULE PythonCli_proofs --------------------------
(* What is proved of the Python commands, for any set of processes, files,   *)
(* first contents and engines, any failures and any bound on the commands:   *)
(* the Python engine answers what the core answers, logs are honest, a       *)
(* bundle is of one log, and only another engine contradicts a decision.     *)
EXTENDS PythonCli, TLAPS, WellFoundedInduction

-----------------------------------------------------------------------------
(* Checks in a row.                                                          *)

\* A chain of at most six checks that returns at the first failure reports the
\* one that fails with none before it.
LEMMA FirstFails ==
  ASSUME NEW checks, NEW good, DOMAIN checks \subseteq 1..6,
         NEW k \in DOMAIN checks, ~checks[k][2],
         \A j \in DOMAIN checks : j < k => checks[j][2]
  PROVE  FirstFailing(checks, good) = checks[k][1]
<1> DEFINE failing == {i \in DOMAIN checks : ~checks[i][2]}
<1>1. k \in failing /\ \A n \in failing : k <= n
  OBVIOUS
<1>2. Least(failing) = k
  <2>1. \A m \in failing : (\A n \in failing : m <= n) => m = k
    BY <1>1
  <2> HIDE DEF failing
  <2> QED  BY <1>1, <2>1 DEF Least
<1>3. failing # {}
  BY <1>1
<1> QED
  <2>1. FirstFailing(checks, good) = checks[Least(failing)][1]
    BY <1>3 DEF FirstFailing
  <2> HIDE DEF failing
  <2> QED  BY <1>2, <2>1

\* It gives the good answer if none fails.
LEMMA NoneFails ==
  ASSUME NEW checks, NEW good, \A j \in DOMAIN checks : checks[j][2]
  PROVE  FirstFailing(checks, good) = good
BY DEF FirstFailing

\* Two chains whose first four checks come out alike report the same of these
\* four, or none of them.
LEMMA SameFirst ==
  ASSUME NEW short, NEW long, DOMAIN short = 1..4, DOMAIN long = 1..6,
         \A i \in 1..4 : short[i][2] <=> long[i][2]
  PROVE  \/ \E k \in 1..4 : /\ FirstFailing(short, "Ok") = short[k][1]
                            /\ FirstFailing(long, "Ok") = long[k][1]
         \/ /\ FirstFailing(short, "Ok") = "Ok"
            /\ FirstFailing(long, "Ok") \in {"Ok", long[5][1], long[6][1]}
<1>1. ASSUME NEW k \in 1..4, ~short[k][2], \A j \in 1..4 : j < k => short[j][2]
      PROVE  /\ FirstFailing(short, "Ok") = short[k][1]
             /\ FirstFailing(long, "Ok") = long[k][1]
  <2>1. k \in DOMAIN short /\ k \in DOMAIN long
    OBVIOUS
  <2>2. DOMAIN short \subseteq 1..6 /\ DOMAIN long \subseteq 1..6
    OBVIOUS
  <2>3. ~long[k][2]
    BY <1>1
  <2>4. \A j \in DOMAIN short : j < k => short[j][2]
    BY <1>1
  <2>5. \A j \in DOMAIN long : j < k => long[j][2]
    BY <1>1
  <2>6. FirstFailing(short, "Ok") = short[k][1]
    BY <1>1, <2>1, <2>2, <2>4, FirstFails
  <2>7. FirstFailing(long, "Ok") = long[k][1]
    BY <2>1, <2>2, <2>3, <2>5, FirstFails
  <2> QED  BY <2>6, <2>7
<1>2. CASE \A j \in 1..4 : short[j][2]
  <2>1. FirstFailing(short, "Ok") = "Ok"
    BY <1>2, NoneFails
  <2>2. \A j \in 1..4 : long[j][2]
    BY <1>2
  <2>3. CASE ~long[5][2]
    <3>1. 5 \in DOMAIN long /\ DOMAIN long \subseteq 1..6
      OBVIOUS
    <3>2. \A j \in DOMAIN long : j < 5 => long[j][2]
      BY <2>2
    <3>3. FirstFailing(long, "Ok") = long[5][1]
      BY <2>3, <3>1, <3>2, FirstFails
    <3> QED  BY <2>1, <3>3
  <2>4. CASE long[5][2] /\ ~long[6][2]
    <3>1. 6 \in DOMAIN long /\ DOMAIN long \subseteq 1..6
      OBVIOUS
    <3>2. \A j \in DOMAIN long : j < 6 => long[j][2]
      BY <2>2, <2>4
    <3>3. FirstFailing(long, "Ok") = long[6][1]
      BY <2>4, <3>1, <3>2, FirstFails
    <3> QED  BY <2>1, <3>3
  <2>5. CASE long[5][2] /\ long[6][2]
    <3>1. \A j \in DOMAIN long : long[j][2]
      BY <2>2, <2>5
    <3>2. FirstFailing(long, "Ok") = "Ok"
      BY <3>1, NoneFails
    <3> QED  BY <2>1, <3>2
  <2> QED  BY <2>3, <2>4, <2>5
<1>3. CASE \E j \in 1..4 : ~short[j][2]
  <2>1. \E k \in 1..4 : ~short[k][2] /\ \A j \in 1..4 : j < k => short[j][2]
    BY <1>3
  <2> QED  BY <1>1, <2>1
<1> QED  BY <1>2, <1>3

-----------------------------------------------------------------------------
(* The engines agree.                                                        *)

\* What the Python engine should answer of bytes on which the core answers core.
Expected(core) == IF core \in {"SigInvalid", "Internal"} THEN "Ok" ELSE core

\* The Python engine answers as the core does, but for the signature.
LEMMA PythonAgrees ==
  ASSUME NEW bytes
  PROVE  PythonVerify(bytes) = Expected(ToAndnaErr(VerifyFrameV2(bytes)))
<1>1. CASE bytes = Garbled
  <2>1. VerifyFrameV2(bytes) = "LengthMismatch" /\ PythonVerify(bytes) = "Length"
    BY <1>1 DEF PythonVerify, VerifyFrameV2
  <2> QED  BY <2>1 DEF ToAndnaErr, Expected
<1>2. CASE bytes # Garbled
  <2> DEFINE a == ParseMuPreHeader(bytes.mu_pre)
             b == CheckPkHashBinding(bytes.mu_pre, bytes.te)
             c == CheckEpochCorrelation(bytes.mu_pre, bytes.te)
             d == CheckDeviceIdDuality(bytes.mu_pre, bytes.te)
             e == OqsBackend => EngineUp
             s == VerifyPk(bytes.te.key, Mu(bytes.mu_pre), bytes.sig)
             py == << <<"MuPre", a>>, <<"PkHashMismatch", b>>,
                      <<"EpochMismatch", c>>, <<"DeviceIdMismatch", d>> >>
             co == << <<"MuPreMalformed", a>>, <<"PkHashMismatch", b>>,
                      <<"EpochMismatch", c>>, <<"DeviceIdMismatch", d>>,
                      <<"Internal", e>>, <<"SignatureInvalid", s>> >>
  <2>1. /\ PythonVerify(bytes) = FirstFailing(py, "Ok")
        /\ VerifyFrameV2(bytes) = FirstFailing(co, "Ok")
    BY <1>2 DEF PythonVerify, VerifyFrameV2, VerifyVnext
  <2> HIDE DEF a, b, c, d, e, s
  <2>2. DOMAIN py = 1..4 /\ DOMAIN co = 1..6
    OBVIOUS
  <2>3. /\ py[1][1] = "MuPre" /\ py[2][1] = "PkHashMismatch"
        /\ py[3][1] = "EpochMismatch" /\ py[4][1] = "DeviceIdMismatch"
        /\ co[1][1] = "MuPreMalformed" /\ co[2][1] = "PkHashMismatch"
        /\ co[3][1] = "EpochMismatch" /\ co[4][1] = "DeviceIdMismatch"
        /\ co[5][1] = "Internal" /\ co[6][1] = "SignatureInvalid"
    OBVIOUS
  <2>4. /\ py[1][2] = a /\ py[2][2] = b /\ py[3][2] = c /\ py[4][2] = d
        /\ co[1][2] = a /\ co[2][2] = b /\ co[3][2] = c /\ co[4][2] = d
    OBVIOUS
  <2> HIDE DEF py, co
  <2>5. \A i \in 1..4 : py[i][2] = co[i][2]
    BY <2>4
  <2>6. \A i \in 1..4 : py[i][2] <=> co[i][2]
    BY <2>5
  <2>7. \A i \in 1..4 : py[i][1] = Expected(ToAndnaErr(co[i][1]))
    BY <2>3 DEF ToAndnaErr, Expected
  <2>8. \A code \in {"Ok", co[5][1], co[6][1]} : Expected(ToAndnaErr(code)) = "Ok"
    BY <2>3 DEF ToAndnaErr, Expected
  <2>9. \/ \E k \in 1..4 : /\ FirstFailing(py, "Ok") = py[k][1]
                           /\ FirstFailing(co, "Ok") = co[k][1]
        \/ /\ FirstFailing(py, "Ok") = "Ok"
           /\ FirstFailing(co, "Ok") \in {"Ok", co[5][1], co[6][1]}
    BY <2>2, <2>6, SameFirst
  <2> QED  BY <2>1, <2>7, <2>8, <2>9
<1> QED  BY <1>1, <1>2

-----------------------------------------------------------------------------
(* Histories.                                                                *)

\* A sequence of anything.
ASeq(s) == \E S : s \in Seq(S)

\* What Append does to a sequence of anything.
LEMMA AppendASeq ==
  ASSUME NEW s, ASeq(s), NEW e
  PROVE  /\ ASeq(Append(s, e))
         /\ Len(s) \in Nat /\ DOMAIN s = 1..Len(s)
         /\ DOMAIN Append(s, e) = 1..Len(s) + 1
         /\ \A i \in DOMAIN s : Append(s, e)[i] = s[i]
         /\ Append(s, e)[Len(s) + 1] = e
<1>1. PICK S : s \in Seq(S)
  BY DEF ASeq
<1> DEFINE T == S \cup {e}
<1>2. s \in Seq(T)
  BY <1>1
<1> HIDE DEF T
<1>3. e \in T
  BY DEF T
<1>4. Append(s, e) \in Seq(T)
  BY <1>2, <1>3
<1>5. ASeq(Append(s, e))
  BY <1>4 DEF ASeq
<1>6. /\ Len(s) \in Nat /\ DOMAIN s = 1..Len(s)
      /\ DOMAIN Append(s, e) = 1..Len(s) + 1
      /\ \A i \in DOMAIN s : Append(s, e)[i] = s[i]
      /\ Append(s, e)[Len(s) + 1] = e
  BY <1>2, <1>3
<1> QED  BY <1>5, <1>6

\* The empty sequence is one.
LEMMA EmptyASeq == ASeq(<<>>) /\ DOMAIN <<>> = {}
<1>1. <<>> \in Seq({})
  OBVIOUS
<1> QED  BY <1>1 DEF ASeq

\* A verdict of an engine on a frame.
VerdictOf(frame, engine) ==
  [frame |-> frame, code |-> EngineVerify(engine, frame), engine |-> engine]

\* A step gives one verdict at most, and it is an engine's.
LEMMA VerdictSteps ==
  ASSUME [Next]_vars
  PROVE  \/ UNCHANGED verdicts
         \/ \E frame, engine : verdicts' = Append(verdicts, VerdictOf(frame, engine))
<1>1. CASE UNCHANGED vars
  BY <1>1, Zenon DEF vars
<1>2. ASSUME NEW p \in Process, Begins(p)
      PROVE  UNCHANGED verdicts
  BY <1>2 DEF Begins, Start, Gen, Tamper, WriteFrame
<1>3. ASSUME NEW p \in Process, Verify(p) \/ Replay(p)
      PROVE  \E frame, engine : verdicts' = Append(verdicts, VerdictOf(frame, engine))
  BY <1>3 DEF Verify, Replay, VerdictOf
<1>4. ASSUME NEW p \in Process, Crash(p)
      PROVE  UNCHANGED verdicts
  BY <1>4 DEF Crash
<1>5. ASSUME NEW p \in Process, Step(p), ~Verify(p), ~Replay(p)
      PROVE  UNCHANGED verdicts
  BY <1>5 DEF Step, VerifyImpossible, Capture, CreateLog, WriteLog, LoadReplay,
              ReplayImpossible, LoadExport, WriteEvidence, WriteManifest
<1> QED
  <2>1. CASE Next
    BY <2>1, <1>2, <1>3, <1>4, <1>5 DEF Next
  <2> QED  BY <1>1, <2>1

\* VerdictsAgree: the Python engine answers what the core answers, whatever else
\* runs (engine.py:102-181).
THEOREM EnginesAgree == Spec => []VerdictsAgree
<1> DEFINE Inv == ASeq(verdicts) /\ VerdictsAgree
<1>1. Init => Inv
  <2> SUFFICES ASSUME Init PROVE Inv
    OBVIOUS
  <2>1. verdicts = <<>>
    BY DEF Init
  <2> QED  BY <2>1, EmptyASeq DEF VerdictsAgree
<1>2. Inv /\ [Next]_vars => Inv'
  <2> SUFFICES ASSUME Inv, [Next]_vars PROVE Inv'
    OBVIOUS
  <2>1. CASE UNCHANGED verdicts
    BY <2>1 DEF VerdictsAgree
  <2>2. ASSUME NEW frame, NEW engine,
               verdicts' = Append(verdicts, VerdictOf(frame, engine))
        PROVE  Inv'
    <3> DEFINE v == VerdictOf(frame, engine)
    <3>1. v.engine = "python" => v.code = Expected(ToAndnaErr(VerifyFrameV2(v.frame)))
      <4>1. v.engine = engine /\ v.frame = frame /\ v.code = EngineVerify(engine, frame)
        BY DEF VerdictOf
      <4>2. EngineVerify("python", frame) = PythonVerify(frame)
        BY DEF EngineVerify
      <4> QED  BY <4>1, <4>2, PythonAgrees
    <3> HIDE DEF v
    <3>2. /\ ASeq(Append(verdicts, v))
          /\ Len(verdicts) \in Nat /\ DOMAIN verdicts = 1..Len(verdicts)
          /\ DOMAIN Append(verdicts, v) = 1..Len(verdicts) + 1
          /\ \A i \in DOMAIN verdicts : Append(verdicts, v)[i] = verdicts[i]
          /\ Append(verdicts, v)[Len(verdicts) + 1] = v
      BY AppendASeq
    <3>3. verdicts' = Append(verdicts, v)
      BY <2>2 DEF v
    <3>4. ASSUME NEW i \in DOMAIN verdicts'
          PROVE  verdicts'[i].engine = "python" =>
                   verdicts'[i].code = Expected(ToAndnaErr(VerifyFrameV2(verdicts'[i].frame)))
      <4>1. CASE i \in DOMAIN verdicts
        BY <4>1, <3>2, <3>3 DEF VerdictsAgree, Expected
      <4>2. CASE i = Len(verdicts) + 1
        BY <4>2, <3>1, <3>2, <3>3
      <4> QED  BY <4>1, <4>2, <3>2, <3>3
    <3> QED  BY <3>2, <3>3, <3>4 DEF VerdictsAgree, Expected
  <2> QED  BY <2>1, <2>2, VerdictSteps
<1>3. Inv => VerdictsAgree
  OBVIOUS
<1> QED  BY <1>1, <1>2, <1>3, PTL DEF Spec

-----------------------------------------------------------------------------
(* Honest logs.                                                              *)

\* The fields of a process, and which functions the variables are.
Fields == {"pc", "path", "engine", "verdict", "records", "rc"}

Shape ==
  /\ DOMAIN proc = Process
  /\ \A p \in Process : DOMAIN proc[p] = Fields
  /\ DOMAIN bundle = Process
  /\ \A p \in Process : DOMAIN bundle[p] = {"evidence", "manifest"}

\* A verdict has nothing but these fields.
IsVerdictRecord(v) == v = [frame |-> v.frame, code |-> v.code, engine |-> v.engine]

\* The histories: what is captured is a verdict, and captured once.
Told ==
  /\ ASeq(verdicts) /\ ASeq(captured)
  /\ \A i \in DOMAIN verdicts : IsVerdictRecord(verdicts[i])
  /\ \A i \in DOMAIN captured : captured[i] \in DOMAIN verdicts
  /\ \A i, j \in DOMAIN captured : captured[i] = captured[j] => i = j

\* A verdict about to be captured is nobody else's, and not captured yet.
OwnVerdict ==
  \A p \in Process :
    At(p, "capture") =>
      /\ proc[p].verdict \in DOMAIN verdicts
      /\ \A i \in DOMAIN captured : captured[i] # proc[p].verdict
      /\ \A q \in Process :
           At(q, "capture") /\ q # p => proc[q].verdict # proc[p].verdict

\* Records of the verdicts v that were captured, by their numbers, in c.
Honest(records, v, c) ==
  /\ ASeq(records)
  /\ \A i \in DOMAIN records :
       /\ records[i].run \in DOMAIN c
       /\ c[records[i].run] \in DOMAIN v
       /\ v[c[records[i].run]] = [frame |-> records[i].frame, code |-> records[i].code,
                                  engine |-> records[i].engine]
       /\ \A j \in DOMAIN records : j < i => records[j].run < records[i].run

HonestRecords ==
  /\ Honest(session.records, verdicts, captured)
  /\ \A p \in Process : Honest(bundle[p].evidence.records, verdicts, captured)
  /\ \A p \in Process : Honest(proc[p].records, verdicts, captured)

HonestInv == Shape /\ Told /\ OwnVerdict /\ HonestRecords

\* No records are honest.
LEMMA HonestEmpty ==
  ASSUME NEW v, NEW c
  PROVE  Honest(<<>>, v, c)
BY EmptyASeq DEF Honest

\* Honest records stay so while the histories grow.
LEMMA HonestStays ==
  ASSUME NEW records, NEW v, NEW c, NEW w, NEW d, Honest(records, v, c),
         DOMAIN v \subseteq DOMAIN w, \A i \in DOMAIN v : w[i] = v[i],
         DOMAIN c \subseteq DOMAIN d, \A i \in DOMAIN c : d[i] = c[i]
  PROVE  Honest(records, w, d)
<1>1. ASSUME NEW i \in DOMAIN records
      PROVE  /\ records[i].run \in DOMAIN d
             /\ d[records[i].run] = c[records[i].run]
             /\ d[records[i].run] \in DOMAIN w
             /\ w[d[records[i].run]] = v[c[records[i].run]]
  <2>1. records[i].run \in DOMAIN c /\ c[records[i].run] \in DOMAIN v
    BY DEF Honest
  <2> QED  BY <2>1
<1> QED  BY <1>1 DEF Honest

\* Processes hand on the records they have, or load those of the session log, and
\* none comes to have something to capture.
Onwards ==
  /\ DOMAIN proc' = Process
  /\ \A q \in Process :
       /\ DOMAIN proc'[q] = Fields
       /\ proc'[q].records \in {<<>>, proc[q].records, session.records}
       /\ proc'[q].pc = "capture" =>
            proc[q].pc = "capture" /\ proc'[q].verdict = proc[q].verdict

\* Bundles keep their evidence, or get that of their process.
BundlesOnwards ==
  /\ DOMAIN bundle' = Process
  /\ \A q \in Process :
       /\ DOMAIN bundle'[q] = {"evidence", "manifest"}
       /\ bundle'[q].evidence.records
            \in {<<>>, proc[q].records, bundle[q].evidence.records}

\* A step that gives no verdict and captures none hands records on, and leaves
\* no process more to capture.
LEMMA QuietStep ==
  ASSUME HonestInv, Onwards, BundlesOnwards, UNCHANGED <<verdicts, captured>>,
         \/ session'.records \in {<<>>, session.records}
         \/ \E p \in Process : session'.records = proc[p].records
  PROVE  HonestInv'
<1>0. Shape'
  BY DEF Shape, Onwards, BundlesOnwards
<1>1. Told'
  BY DEF HonestInv, Told
<1>2. OwnVerdict'
  BY DEF HonestInv, OwnVerdict, At, Onwards
<1>3. HonestRecords'
  <2> DEFINE Good(r) == Honest(r, verdicts, captured)
  <2>1. /\ Good(<<>>) /\ Good(session.records)
        /\ \A q \in Process : Good(proc[q].records) /\ Good(bundle[q].evidence.records)
    BY HonestEmpty DEF HonestInv, HonestRecords
  <2> HIDE DEF Good
  <2>2. Good(session'.records)
    BY <2>1
  <2>3. \A q \in Process : Good(proc'[q].records)
    BY <2>1 DEF Onwards
  <2>4. \A q \in Process : Good(bundle'[q].evidence.records)
    BY <2>1 DEF BundlesOnwards
  <2>5. verdicts' = verdicts /\ captured' = captured
    OBVIOUS
  <2> QED  BY <2>2, <2>3, <2>4, <2>5 DEF Good, HonestRecords
<1> QED  BY <1>0, <1>1, <1>2, <1>3 DEF HonestInv

\* One process has gone on, and not to its capture.
LEMMA OneGoesOn ==
  ASSUME Shape, NEW p \in Process, NEW r, DOMAIN r = Fields, r.pc # "capture",
         r.records \in {<<>>, proc[p].records, session.records},
         proc' = [proc EXCEPT ![p] = r]
  PROVE  Onwards
<1>1. DOMAIN proc' = Process /\ \A q \in Process : proc'[q] = IF q = p THEN r ELSE proc[q]
  BY DEF Shape
<1> QED  BY <1>1 DEF Shape, Onwards

\* A process that ends has gone on.
LEMMA ExitsGoesOn ==
  ASSUME Shape, NEW p \in Process, NEW rc, Exits(p, rc)
  PROVE  Onwards
<1> DEFINE r == [Off EXCEPT !.rc = Some(rc)]
<1>1. DOMAIN r = Fields /\ r.pc = "off" /\ r.records = <<>>
  BY DEF Off, Fields
<1>2. proc' = [proc EXCEPT ![p] = r]
  BY DEF Exits
<1> HIDE DEF r
<1> QED  BY <1>1, <1>2, OneGoesOn

\* Going on with records loaded.
LEMMA MovesGoesOn ==
  ASSUME Shape, NEW p \in Process, NEW pc, pc # "capture",
         NEW records \in {proc[p].records, session.records},
         proc' = [proc EXCEPT ![p].pc = pc, ![p].records = records]
  PROVE  Onwards
<1> DEFINE r == [proc[p] EXCEPT !.pc = pc, !.records = records]
<1>1. DOMAIN proc[p] = Fields /\ DOMAIN proc = Process
  BY DEF Shape
<1>2. DOMAIN r = Fields /\ r.pc = pc /\ r.records = records
  BY <1>1 DEF Fields
<1>3. proc' = [proc EXCEPT ![p] = r]
  BY <1>1
<1> HIDE DEF r
<1> QED  BY <1>2, <1>3, OneGoesOn

\* Going on with what it has.
LEMMA GoesGoesOn ==
  ASSUME Shape, NEW p \in Process, NEW pc, pc # "capture", Goes(p, pc)
  PROVE  Onwards
<1> DEFINE r == [proc[p] EXCEPT !.pc = pc]
<1>1. DOMAIN proc[p] = Fields /\ DOMAIN proc = Process
  BY DEF Shape
<1>2. DOMAIN r = Fields /\ r.pc = pc /\ r.records = proc[p].records
  BY <1>1 DEF Fields
<1>3. proc' = [proc EXCEPT ![p] = r]
  BY DEF Goes
<1> HIDE DEF r
<1> QED  BY <1>2, <1>3, OneGoesOn

\* A step that leaves the bundles alone.
LEMMA BundlesStay ==
  ASSUME Shape, UNCHANGED bundle
  PROVE  BundlesOnwards
BY DEF Shape, BundlesOnwards

\* Beginning a command.
LEMMA BeginsKeepsHonest ==
  ASSUME HonestInv, NEW p \in Process, Begins(p)
  PROVE  HonestInv'
<1>1. Shape
  BY Zenon DEF HonestInv
<1>2. UNCHANGED <<session, bundle, verdicts, captured>>
  BY DEF Begins, Start, Gen, Tamper, WriteFrame
<1>3. ASSUME NEW path, NEW engine, NEW pc, pc # "capture", Start(p, path, engine, pc)
      PROVE  Onwards
  <2> DEFINE r == [Off EXCEPT !.pc = pc, !.path = path, !.engine = engine]
  <2>1. DOMAIN r = Fields /\ r.pc = pc /\ r.records = <<>>
    BY DEF Off, Fields
  <2>2. proc' = [proc EXCEPT ![p] = r]
    BY <1>3 DEF Start
  <2> HIDE DEF r
  <2> QED  BY <1>1, <1>3, <2>1, <2>2, OneGoesOn
<1>4. ASSUME NEW path, NEW frame, WriteFrame(p, path, frame)
      PROVE  Onwards
  BY <1>1, <1>4, ExitsGoesOn DEF WriteFrame
<1>5. ASSUME NEW from, NEW to, Tamper(p, from, to)
      PROVE  Onwards
  BY <1>1, <1>4, <1>5, ExitsGoesOn DEF Tamper
<1>6. Onwards
  BY <1>3, <1>4, <1>5 DEF Begins, Gen
<1> QED
  <2>1. BundlesOnwards
    BY <1>1, <1>2, BundlesStay
  <2>2. session'.records \in {<<>>, session.records}
    BY <1>2
  <2> QED  BY <1>2, <1>6, <2>1, <2>2, QuietStep

\* The steps of verify but the verification and the capture.
LEMMA SavingKeepsHonest ==
  ASSUME HonestInv, NEW p \in Process,
         VerifyImpossible(p) \/ CreateLog(p) \/ WriteLog(p)
  PROVE  HonestInv'
<1>1. Shape
  BY DEF HonestInv
<1>2. UNCHANGED <<bundle, verdicts, captured>>
  BY DEF VerifyImpossible, CreateLog, WriteLog
<1>3. BundlesOnwards
  BY <1>1, <1>2, BundlesStay
<1>4. CASE VerifyImpossible(p)
  <2>1. Onwards
    BY <1>1, <1>4, ExitsGoesOn DEF VerifyImpossible
  <2>2. session'.records \in {<<>>, session.records}
    BY <1>4 DEF VerifyImpossible
  <2> QED  BY <1>2, <1>3, <2>1, <2>2, QuietStep
<1>5. CASE CreateLog(p)
  <2>1. Onwards
    BY <1>1, <1>5, ExitsGoesOn, GoesGoesOn DEF CreateLog
  <2>2. session'.records \in {<<>>, session.records}
    BY <1>5 DEF CreateLog, EmptyLog
  <2> QED  BY <1>2, <1>3, <2>1, <2>2, QuietStep
<1>6. CASE WriteLog(p)
  <2>1. Onwards
    BY <1>1, <1>6, ExitsGoesOn DEF WriteLog
  <2>2. session'.records = <<>> \/ session'.records = proc[p].records
    BY <1>6 DEF WriteLog, Overwritten, LogOf, CutLog
  <2> QED  BY <1>2, <1>3, <2>1, <2>2, QuietStep
<1> QED  BY <1>4, <1>5, <1>6

\* The steps of replay but the verification, and of export.
LEMMA ReadingKeepsHonest ==
  ASSUME HonestInv, NEW p \in Process,
         \/ LoadReplay(p) \/ ReplayImpossible(p)
         \/ LoadExport(p) \/ WriteEvidence(p) \/ WriteManifest(p)
  PROVE  HonestInv'
<1>1. Shape
  BY DEF HonestInv
<1>2. UNCHANGED <<session, verdicts, captured>>
  BY DEF LoadReplay, ReplayImpossible, LoadExport, WriteEvidence, WriteManifest
<1>3. Onwards
  <2>1. CASE LoadReplay(p)
    BY <1>1, <2>1, ExitsGoesOn, MovesGoesOn DEF LoadReplay
  <2>2. CASE ReplayImpossible(p)
    BY <1>1, <2>2, ExitsGoesOn DEF ReplayImpossible
  <2>3. CASE LoadExport(p)
    BY <1>1, <2>3, ExitsGoesOn, MovesGoesOn DEF LoadExport, LoadedRecords
  <2>4. CASE WriteEvidence(p)
    BY <1>1, <2>4, ExitsGoesOn, GoesGoesOn DEF WriteEvidence
  <2>5. CASE WriteManifest(p)
    BY <1>1, <2>5, ExitsGoesOn DEF WriteManifest
  <2> QED  BY <2>1, <2>2, <2>3, <2>4, <2>5
<1>4. BundlesOnwards
  <2>1. CASE UNCHANGED bundle
    BY <1>1, <2>1, BundlesStay
  <2>3. ASSUME NEW manifest, bundle' = [bundle EXCEPT ![p].manifest = manifest]
        PROVE  BundlesOnwards
    BY <1>1, <2>3 DEF Shape, BundlesOnwards
  <2>4. CASE WriteEvidence(p)
    <3>1. /\ LogOf(proc[p].records).records = proc[p].records
          /\ CutLog.records = <<>>
      BY DEF LogOf, CutLog
    <3>2. PICK log \in {LogOf(proc[p].records), bundle[p].evidence, CutLog} :
            bundle' = [bundle EXCEPT ![p].evidence = log]
      BY <2>4 DEF WriteEvidence
    <3>3. log.records \in {<<>>, proc[p].records, bundle[p].evidence.records}
      BY <3>1, <3>2
    <3> QED  BY <1>1, <3>2, <3>3 DEF Shape, BundlesOnwards
  <2>5. CASE WriteManifest(p)
    BY <2>3, <2>5 DEF WriteManifest
  <2> QED  BY <2>1, <2>4, <2>5 DEF LoadReplay, ReplayImpossible, LoadExport
<1> QED
  <2>1. session'.records \in {<<>>, session.records}
    BY <1>2
  <2> QED  BY <1>2, <1>3, <1>4, <2>1, QuietStep

\* A process killed leaves its bundle as it was, or cut.
LEMMA CrashKeepsHonest ==
  ASSUME HonestInv, NEW p \in Process, Crash(p)
  PROVE  HonestInv'
<1>1. Shape
  BY DEF HonestInv
<1>2. Onwards
  <2>1. DOMAIN Off = Fields /\ Off.pc # "capture" /\ Off.records = <<>>
    BY DEF Off, Fields
  <2>2. proc' = [proc EXCEPT ![p] = Off]
    BY DEF Crash
  <2> QED  BY <1>1, <2>1, <2>2, OneGoesOn
<1>3. BundlesOnwards
  <2>1. CASE UNCHANGED bundle
    BY <1>1, <2>1, BundlesStay
  <2>2. CASE bundle' = [bundle EXCEPT ![p].evidence = CutLog]
    <3>1. CutLog.records = <<>>
      BY DEF CutLog
    <3> QED  BY <1>1, <2>2, <3>1 DEF Shape, BundlesOnwards
  <2>3. CASE bundle' = [bundle EXCEPT ![p].manifest = None]
    BY <1>1, <2>3 DEF Shape, BundlesOnwards
  <2> QED  BY <2>1, <2>2, <2>3 DEF Crash
<1> QED
  <2>1. UNCHANGED <<session, verdicts, captured>>
    BY DEF Crash
  <2>2. session'.records \in {<<>>, session.records}
    BY <2>1
  <2> QED  BY <1>2, <1>3, <2>1, <2>2, QuietStep

\* A verdict is given: the histories only grow.
LEMMA VerdictsGrow ==
  ASSUME HonestInv, NEW v, IsVerdictRecord(v), verdicts' = Append(verdicts, v),
         UNCHANGED captured
  PROVE  /\ Told'
         /\ Len(verdicts) \in Nat /\ DOMAIN verdicts = 1..Len(verdicts)
         /\ DOMAIN verdicts' = 1..Len(verdicts) + 1
         /\ \A records : Honest(records, verdicts, captured)
                           => Honest(records, verdicts', captured')
<1>1. ASeq(verdicts)
  BY DEF HonestInv, Told
<1>2. /\ ASeq(verdicts')
      /\ Len(verdicts) \in Nat /\ DOMAIN verdicts = 1..Len(verdicts)
      /\ DOMAIN verdicts' = 1..Len(verdicts) + 1
      /\ \A i \in DOMAIN verdicts : verdicts'[i] = verdicts[i]
      /\ verdicts'[Len(verdicts) + 1] = v
  BY <1>1, AppendASeq
<1>3. DOMAIN verdicts \subseteq DOMAIN verdicts'
  BY <1>2
<1>4. Told'
  <2>1. \A i \in DOMAIN verdicts' : IsVerdictRecord(verdicts'[i])
    <3>1. \A i \in DOMAIN verdicts : IsVerdictRecord(verdicts[i])
      BY DEF HonestInv, Told
    <3> QED  BY <1>2, <3>1
  <2> QED  BY <1>2, <1>3, <2>1 DEF HonestInv, Told
<1>5. ASSUME NEW records, Honest(records, verdicts, captured)
      PROVE  Honest(records, verdicts', captured')
  <2>1. DOMAIN captured \subseteq DOMAIN captured'
    OBVIOUS
  <2>2. \A i \in DOMAIN captured : captured'[i] = captured[i]
    OBVIOUS
  <2> QED  BY <1>2, <1>3, <1>5, <2>1, <2>2, HonestStays
<1> QED  BY <1>2, <1>4, <1>5

\* The verification: its verdict is new, so nobody else is about to capture it.
LEMMA VerifyKeepsHonest ==
  ASSUME HonestInv, NEW p \in Process, Verify(p)
  PROVE  HonestInv'
<1> DEFINE r == [proc[p] EXCEPT !.pc = "capture", !.verdict = Len(verdicts) + 1]
<1>1. Shape
  BY DEF HonestInv
<1>2. DOMAIN proc[p] = Fields /\ DOMAIN proc = Process
  BY <1>1 DEF Shape
<1>3. /\ DOMAIN r = Fields /\ r.pc = "capture"
      /\ r.verdict = Len(verdicts) + 1 /\ r.records = proc[p].records
  BY <1>2 DEF Fields
<1>4. proc' = [proc EXCEPT ![p] = r]
  BY DEF Verify
<1> HIDE DEF r
<1>5. DOMAIN proc' = Process /\ \A q \in Process : proc'[q] = IF q = p THEN r ELSE proc[q]
  BY <1>2, <1>4
<1>6. \E v : IsVerdictRecord(v) /\ verdicts' = Append(verdicts, v)
  BY DEF Verify, IsVerdictRecord
<1>7. UNCHANGED <<session, bundle, captured>>
  BY DEF Verify
<1>8. /\ Told'
      /\ Len(verdicts) \in Nat /\ DOMAIN verdicts = 1..Len(verdicts)
      /\ DOMAIN verdicts' = 1..Len(verdicts) + 1
      /\ \A records : Honest(records, verdicts, captured)
                        => Honest(records, verdicts', captured')
  BY <1>6, <1>7, VerdictsGrow
<1>9. Shape'
  BY <1>1, <1>3, <1>5, <1>7 DEF Shape
<1>10. OwnVerdict'
  <2>1. Len(verdicts) + 1 \in DOMAIN verdicts' /\ Len(verdicts) + 1 \notin DOMAIN verdicts
    BY <1>8
  <2>2. \A i \in DOMAIN captured : captured[i] \in DOMAIN verdicts
    BY DEF HonestInv, Told
  <2>3. \A q \in Process \ {p} : proc[q].pc = "capture" => proc[q].verdict \in DOMAIN verdicts
    BY DEF HonestInv, OwnVerdict, At
  <2>4. DOMAIN verdicts \subseteq DOMAIN verdicts'
    BY <1>8
  <2>5. ASSUME NEW q \in Process, q # p, proc'[q].pc = "capture"
        PROVE  /\ proc'[q].verdict \in DOMAIN verdicts'
               /\ \A i \in DOMAIN captured' : captured'[i] # proc'[q].verdict
               /\ \A s \in Process :
                    proc'[s].pc = "capture" /\ s # q => proc'[s].verdict # proc'[q].verdict
    <3>1. proc'[q] = proc[q]
      BY <1>5, <2>5
    <3>2. /\ proc[q].verdict \in DOMAIN verdicts
          /\ \A i \in DOMAIN captured : captured[i] # proc[q].verdict
          /\ \A s \in Process :
               proc[s].pc = "capture" /\ s # q => proc[s].verdict # proc[q].verdict
      BY <2>5, <3>1 DEF HonestInv, OwnVerdict, At
    <3>3. ASSUME NEW s \in Process, proc'[s].pc = "capture", s # q
          PROVE  proc'[s].verdict # proc'[q].verdict
      <4>1. CASE s = p
        BY <4>1, <1>3, <1>5, <2>1, <3>1, <3>2
      <4>2. CASE s # p
        BY <4>2, <1>5, <3>1, <3>2, <3>3
      <4> QED  BY <4>1, <4>2
    <3> QED  BY <1>7, <2>4, <3>1, <3>2, <3>3
  <2>6. /\ proc'[p].verdict \in DOMAIN verdicts'
        /\ \A i \in DOMAIN captured' : captured'[i] # proc'[p].verdict
        /\ \A s \in Process :
             proc'[s].pc = "capture" /\ s # p => proc'[s].verdict # proc'[p].verdict
    BY <1>3, <1>5, <1>7, <2>1, <2>2, <2>3
  <2> QED  BY <2>5, <2>6 DEF OwnVerdict, At
<1>11. HonestRecords'
  <2>1. \A q \in Process : proc'[q].records = proc[q].records
    BY <1>3, <1>5
  <2> QED  BY <1>7, <1>8, <2>1 DEF HonestInv, HonestRecords
<1> QED  BY <1>8, <1>9, <1>10, <1>11 DEF HonestInv

\* The verification of replay, whose verdict nobody captures.
LEMMA ReplayKeepsHonest ==
  ASSUME HonestInv, NEW p \in Process, Replay(p)
  PROVE  HonestInv'
<1>1. Shape
  BY DEF HonestInv
<1>2. Onwards
  BY <1>1, ExitsGoesOn DEF Replay
<1>3. \E v : IsVerdictRecord(v) /\ verdicts' = Append(verdicts, v)
  BY DEF Replay, IsVerdictRecord
<1>4. UNCHANGED <<session, bundle, captured>>
  BY DEF Replay
<1>5. /\ Told'
      /\ Len(verdicts) \in Nat /\ DOMAIN verdicts = 1..Len(verdicts)
      /\ DOMAIN verdicts' = 1..Len(verdicts) + 1
      /\ \A records : Honest(records, verdicts, captured)
                        => Honest(records, verdicts', captured')
  BY <1>3, <1>4, VerdictsGrow
<1>6. Shape'
  BY <1>1, <1>2, <1>4 DEF Shape, Onwards
<1>7. OwnVerdict'
  <2>1. DOMAIN verdicts \subseteq DOMAIN verdicts'
    BY <1>5
  <2> QED  BY <1>2, <1>4, <2>1 DEF HonestInv, OwnVerdict, At, Onwards
<1>8. HonestRecords'
  <2>1. /\ Honest(<<>>, verdicts, captured) /\ Honest(session.records, verdicts, captured)
        /\ \A q \in Process : /\ Honest(proc[q].records, verdicts, captured)
                              /\ Honest(bundle[q].evidence.records, verdicts, captured)
    BY HonestEmpty DEF HonestInv, HonestRecords
  <2>2. \A q \in Process : Honest(proc'[q].records, verdicts', captured')
    BY <1>2, <1>5, <2>1 DEF Onwards
  <2> QED  BY <1>4, <1>5, <2>1, <2>2 DEF HonestRecords
<1> QED  BY <1>5, <1>6, <1>7, <1>8 DEF HonestInv

\* The record of a captured verdict, behind records that are honest.
LEMMA HonestAppend ==
  ASSUME NEW records, NEW v, NEW c, Honest(records, v, c), NEW r, NEW n \in Nat,
         DOMAIN c = 1..n + 1, r.run = n + 1, c[n + 1] \in DOMAIN v,
         v[c[n + 1]] = [frame |-> r.frame, code |-> r.code, engine |-> r.engine],
         \A i \in DOMAIN records : records[i].run \in 1..n
  PROVE  Honest(Append(records, r), v, c)
<1> DEFINE longer == Append(records, r)
<1>1. /\ ASeq(longer)
      /\ Len(records) \in Nat /\ DOMAIN records = 1..Len(records)
      /\ DOMAIN longer = 1..Len(records) + 1
      /\ \A i \in DOMAIN records : longer[i] = records[i]
      /\ longer[Len(records) + 1] = r
  <2>1. ASeq(records)
    BY DEF Honest
  <2> QED  BY <2>1, AppendASeq
<1> HIDE DEF longer
<1>2. ASSUME NEW i \in DOMAIN longer
      PROVE  /\ longer[i].run \in DOMAIN c
             /\ c[longer[i].run] \in DOMAIN v
             /\ v[c[longer[i].run]] = [frame |-> longer[i].frame, code |-> longer[i].code,
                                       engine |-> longer[i].engine]
             /\ \A j \in DOMAIN longer : j < i => longer[j].run < longer[i].run
  <2>1. CASE i \in DOMAIN records
    <3>1. longer[i] = records[i]
      BY <1>1, <2>1
    <3>2. \A j \in DOMAIN longer : j < i => j \in DOMAIN records
      BY <1>1, <2>1
    <3>3. /\ records[i].run \in DOMAIN c
          /\ c[records[i].run] \in DOMAIN v
          /\ v[c[records[i].run]] = [frame |-> records[i].frame, code |-> records[i].code,
                                     engine |-> records[i].engine]
          /\ \A j \in DOMAIN records : j < i => records[j].run < records[i].run
      BY <2>1 DEF Honest
    <3> QED  BY <1>1, <3>1, <3>2, <3>3
  <2>2. CASE i = Len(records) + 1
    <3>1. longer[i] = r
      BY <1>1, <2>2
    <3>2. \A j \in DOMAIN longer : j < i => j \in DOMAIN records
      BY <1>1, <2>2
    <3>3. \A j \in DOMAIN longer : j < i => longer[j].run < r.run
      BY <1>1, <3>2
    <3> QED  BY <3>1, <3>3
  <2> QED  BY <1>1, <2>1, <2>2
<1>3. Honest(longer, v, c)
  BY <1>1, <1>2 DEF Honest
<1> QED  BY <1>3 DEF longer

\* The capture: the record is put behind those of the session log, all of which have
\* smaller numbers, or behind none, and its verdict is captured for the first time.
LEMMA CaptureKeepsHonest ==
  ASSUME HonestInv, NEW p \in Process, Capture(p)
  PROVE  HonestInv'
<1>17. PICK loaded \in {session.records, <<>>} :
         proc' = [proc EXCEPT ![p].pc = "create_log", ![p].records = Append(loaded, Record(p))]
  BY DEF Capture, LoadedRecords
<1> DEFINE n == Len(captured)
           rec == Record(p)
           records == Append(loaded, rec)
           r == [proc[p] EXCEPT !.pc = "create_log", !.records = records]
<1>1. Shape
  BY DEF HonestInv
<1>2. DOMAIN proc[p] = Fields /\ DOMAIN proc = Process
  BY <1>1 DEF Shape
<1>3. proc' = [proc EXCEPT ![p] = r]
  BY <1>17
<1>4. /\ rec.run = n + 1 /\ rec.frame = verdicts[proc[p].verdict].frame
      /\ rec.code = verdicts[proc[p].verdict].code
      /\ rec.engine = verdicts[proc[p].verdict].engine
  BY DEF Record
<1> HIDE DEF rec
<1>5. UNCHANGED <<session, bundle, verdicts>>
  BY DEF Capture
<1>6. captured' = Append(captured, proc[p].verdict)
  BY DEF Capture
<1>7. /\ ASeq(captured')
      /\ n \in Nat /\ DOMAIN captured = 1..n /\ DOMAIN captured' = 1..n + 1
      /\ \A i \in DOMAIN captured : captured'[i] = captured[i]
      /\ captured'[n + 1] = proc[p].verdict
  <2>1. ASeq(captured)
    BY DEF HonestInv, Told
  <2> QED  BY <1>6, <2>1, AppendASeq
<1> HIDE DEF n
<1>8. /\ proc[p].pc = "capture"
      /\ proc[p].verdict \in DOMAIN verdicts
      /\ \A i \in DOMAIN captured : captured[i] # proc[p].verdict
      /\ \A q \in Process :
           proc[q].pc = "capture" /\ q # p => proc[q].verdict # proc[p].verdict
  BY DEF HonestInv, OwnVerdict, At, Capture
<1> HIDE DEF records
<1>9. DOMAIN r = Fields /\ r.pc = "create_log" /\ r.records = records
  BY <1>2 DEF Fields
<1> HIDE DEF r
<1>10. DOMAIN proc' = Process /\ \A q \in Process : proc'[q] = IF q = p THEN r ELSE proc[q]
  BY <1>2, <1>3
<1>11. Shape'
  BY <1>1, <1>5, <1>9, <1>10 DEF Shape
<1>12. Told'
  <2>1. \A i \in DOMAIN captured' : captured'[i] \in DOMAIN verdicts'
    BY <1>5, <1>7, <1>8 DEF HonestInv, Told
  <2>2. ASSUME NEW i \in DOMAIN captured', NEW j \in DOMAIN captured',
               captured'[i] = captured'[j]
        PROVE  i = j
    <3>1. \A k, m \in DOMAIN captured : captured[k] = captured[m] => k = m
      BY DEF HonestInv, Told
    <3> QED  BY <1>7, <1>8, <2>2, <3>1
  <2>3. ASeq(verdicts') /\ \A i \in DOMAIN verdicts' : IsVerdictRecord(verdicts'[i])
    BY <1>5 DEF HonestInv, Told
  <2> QED  BY <1>7, <2>1, <2>2, <2>3 DEF Told
<1>13. OwnVerdict'
  <2>1. \A q \in Process :
          proc'[q].pc = "capture" => q # p /\ proc'[q] = proc[q]
    BY <1>9, <1>10
  <2>2. ASSUME NEW q \in Process, proc'[q].pc = "capture"
        PROVE  /\ proc'[q].verdict \in DOMAIN verdicts'
               /\ \A i \in DOMAIN captured' : captured'[i] # proc'[q].verdict
               /\ \A s \in Process :
                    proc'[s].pc = "capture" /\ s # q => proc'[s].verdict # proc'[q].verdict
    <3>1. q # p /\ proc'[q] = proc[q]
      BY <2>1, <2>2
    <3>2. /\ proc[q].verdict \in DOMAIN verdicts
          /\ \A i \in DOMAIN captured : captured[i] # proc[q].verdict
          /\ \A s \in Process :
               proc[s].pc = "capture" /\ s # q => proc[s].verdict # proc[q].verdict
      BY <2>2, <3>1 DEF HonestInv, OwnVerdict, At
    <3>3. \A i \in DOMAIN captured' : captured'[i] # proc[q].verdict
      BY <1>7, <1>8, <2>2, <3>1, <3>2
    <3> QED  BY <1>5, <2>1, <3>1, <3>2, <3>3
  <2> QED  BY <2>2 DEF OwnVerdict, At
<1>14. \A rs : Honest(rs, verdicts, captured) => Honest(rs, verdicts', captured')
  <2>1. DOMAIN captured \subseteq DOMAIN captured'
    BY <1>7
  <2> QED  BY <1>5, <1>7, <2>1, HonestStays
<1>15. Honest(records, verdicts', captured')
  <2>1. Honest(loaded, verdicts, captured)
    BY HonestEmpty DEF HonestInv, HonestRecords
  <2>2. Honest(loaded, verdicts', captured')
    BY <1>14, <2>1
  <2>3. \A i \in DOMAIN loaded : loaded[i].run \in 1..n
    BY <1>7, <2>1 DEF Honest
  <2>4. verdicts'[captured'[n + 1]]
          = [frame |-> rec.frame, code |-> rec.code, engine |-> rec.engine]
    <3>1. IsVerdictRecord(verdicts[proc[p].verdict])
      BY <1>8 DEF HonestInv, Told
    <3> QED  BY <1>4, <1>5, <1>7, <3>1 DEF IsVerdictRecord
  <2>5. captured'[n + 1] \in DOMAIN verdicts'
    BY <1>5, <1>7, <1>8
  <2>6. n \in Nat /\ DOMAIN captured' = 1..n + 1
    BY <1>7
  <2> QED  BY <1>4, <2>2, <2>3, <2>4, <2>5, <2>6, HonestAppend DEF records
<1>16. HonestRecords'
  <2>1. \A q \in Process :
          proc'[q].records = IF q = p THEN records ELSE proc[q].records
    BY <1>9, <1>10
  <2>2. \A q \in Process : Honest(proc'[q].records, verdicts', captured')
    BY <1>14, <1>15, <2>1 DEF HonestInv, HonestRecords
  <2> QED  BY <1>5, <1>14, <2>2 DEF HonestInv, HonestRecords
<1> QED  BY <1>11, <1>12, <1>13, <1>16 DEF HonestInv

\* At first nothing is recorded.
LEMMA InitHonest == Init => HonestInv
<1> SUFFICES ASSUME Init PROVE HonestInv
  OBVIOUS
<1>1. Shape
  BY DEF Init, Shape, Off, Fields, NoBundle
<1>2. verdicts = <<>> /\ captured = <<>>
  BY DEF Init
<1>3. Told
  BY <1>2, EmptyASeq DEF Told
<1>4. \A p \in Process : proc[p].pc = "off" /\ proc[p].records = <<>>
  BY DEF Init, Off
<1>5. OwnVerdict
  BY <1>4 DEF OwnVerdict, At
<1>6. session.records = <<>> /\ \A p \in Process : bundle[p].evidence.records = <<>>
  BY DEF Init, NoLog, NoBundle
<1>7. HonestRecords
  BY <1>4, <1>6, HonestEmpty DEF HonestRecords
<1> QED  BY <1>1, <1>3, <1>5, <1>7 DEF HonestInv

\* The inductive step.
LEMMA HonestStep == HonestInv /\ [Next]_vars => HonestInv'
<1> SUFFICES ASSUME HonestInv, [Next]_vars PROVE HonestInv'
  OBVIOUS
<1>1. ASSUME NEW p \in Process, Step(p)
      PROVE  HonestInv'
  BY <1>1, VerifyKeepsHonest, CaptureKeepsHonest, SavingKeepsHonest, ReplayKeepsHonest,
     ReadingKeepsHonest DEF Step
<1>2. CASE Next
  BY <1>1, <1>2, BeginsKeepsHonest, CrashKeepsHonest DEF Next
<1>3. CASE UNCHANGED vars
  BY <1>3 DEF vars, HonestInv, Shape, Told, OwnVerdict, At, HonestRecords
<1> QED  BY <1>2, <1>3

\* HonestLog: a session log that parses, and evidence, tells nothing but verdicts
\* that were given, on the bytes they were given on, none twice, in the order of
\* their run ids, whatever runs, fails or is killed (cli.py:121-124,
\* replay.py:81-112).
THEOREM LogsAreHonest == Spec => []HonestLog
<1>1. HonestInv => HonestLog
  <2> SUFFICES ASSUME HonestInv,
                      NEW records, Honest(records, verdicts, captured),
                      NEW i \in DOMAIN records
               PROVE  LET r == records[i]
                      IN  /\ verdicts[captured[r.run]] =
                               [frame |-> r.frame, code |-> r.code, engine |-> r.engine]
                          /\ \A j \in 1..i - 1 :
                               /\ records[j].run < r.run
                               /\ captured[records[j].run] # captured[r.run]
    BY DEF HonestInv, HonestRecords, HonestLog
  <2>1. ASeq(records) /\ ASeq(captured)
    BY DEF Honest, HonestInv, Told
  <2>2. /\ Len(records) \in Nat /\ DOMAIN records = 1..Len(records)
        /\ Len(captured) \in Nat /\ DOMAIN captured = 1..Len(captured)
    BY <2>1, AppendASeq
  <2>3. \A j \in DOMAIN records : records[j].run \in DOMAIN captured
    BY DEF Honest
  <2>4. \A j \in 1..i - 1 : j \in DOMAIN records /\ j < i
    BY <2>2
  <2>5. \A j \in DOMAIN records : j < i => records[j].run < records[i].run
    BY DEF Honest
  <2>6. \A k, m \in DOMAIN captured : captured[k] = captured[m] => k = m
    BY DEF HonestInv, Told
  <2>7. \A j \in 1..i - 1 : /\ records[j].run < records[i].run
                            /\ captured[records[j].run] # captured[records[i].run]
    BY <2>2, <2>3, <2>4, <2>5, <2>6
  <2> QED  BY <2>7 DEF Honest
<1> QED  BY InitHonest, HonestStep, <1>1, PTL DEF Spec
-----------------------------------------------------------------------------
(* Types, and what the steps of a command find of their own.                 *)

\* A set of numbers has a least one.
LEMMA LeastOfSome ==
  ASSUME NEW S, S \subseteq Nat, S # {}
  PROVE  Least(S) \in S /\ \A n \in S : Least(S) <= n
<1>1. PICK m \in S : \A n \in S : ~ (<<n, m>> \in OpToRel(<, Nat))
  BY NatLessThanWellFounded, WFMin
<1>2. \A n \in S : m <= n
  <2> SUFFICES ASSUME NEW n \in S  PROVE m <= n
    OBVIOUS
  <2>1. ~ (n < m)
    BY <1>1 DEF OpToRel
  <2> QED  BY <2>1
<1> QED  BY <1>1, <1>2 DEF Least

\* A chain of four checks reports one of them, or the good answer.
LEMMA OneOfFour ==
  ASSUME NEW checks, DOMAIN checks = 1..4
  PROVE  \/ FirstFailing(checks, "Ok") = "Ok"
         \/ \E k \in 1..4 : FirstFailing(checks, "Ok") = checks[k][1]
<1>1. CASE \A k \in 1..4 : checks[k][2]
  BY <1>1, NoneFails
<1>2. CASE \E k \in 1..4 : ~checks[k][2]
  <2>1. PICK k \in 1..4 : ~checks[k][2] /\ \A j \in 1..4 : j < k => checks[j][2]
    BY <1>2
  <2>2. DOMAIN checks \subseteq 1..6 /\ k \in DOMAIN checks
    OBVIOUS
  <2>3. \A j \in DOMAIN checks : j < k => checks[j][2]
    BY <2>1
  <2>4. FirstFailing(checks, "Ok") = checks[k][1]
    BY <2>1, <2>2, <2>3, FirstFails
  <2> QED  BY <2>4
<1> QED  BY <1>1, <1>2

\* What an engine answers is a code.
LEMMA EngineCodes ==
  ASSUME NEW engine, NEW frame
  PROVE  EngineVerify(engine, frame) \in Codes
<1>1. PythonVerify(frame) \in Codes
  <2> DEFINE a == ParseMuPreHeader(frame.mu_pre)
             b == CheckPkHashBinding(frame.mu_pre, frame.te)
             c == CheckEpochCorrelation(frame.mu_pre, frame.te)
             d == CheckDeviceIdDuality(frame.mu_pre, frame.te)
             py == << <<"MuPre", a>>, <<"PkHashMismatch", b>>,
                      <<"EpochMismatch", c>>, <<"DeviceIdMismatch", d>> >>
  <2>1. PythonVerify(frame) = IF frame = Garbled THEN "Length" ELSE FirstFailing(py, "Ok")
    BY DEF PythonVerify
  <2> HIDE DEF a, b, c, d
  <2>2. DOMAIN py = 1..4
    OBVIOUS
  <2>3. /\ py[1][1] = "MuPre" /\ py[2][1] = "PkHashMismatch"
        /\ py[3][1] = "EpochMismatch" /\ py[4][1] = "DeviceIdMismatch"
    OBVIOUS
  <2> HIDE DEF py
  <2>4. \A k \in 1..4 : py[k][1] \in Codes
    BY <2>3 DEF Codes
  <2>5. {"Ok", "Length"} \subseteq Codes
    BY DEF Codes
  <2> QED  BY <2>1, <2>2, <2>4, <2>5, OneOfFour
<1>2. NativeVerify(LoadedModule, frame) \in {"Length", "Internal"}
  BY DEF NativeVerify, LoadedModule
<1> QED  BY <1>1, <1>2 DEF EngineVerify, Codes

\* What runs in a place with this evidence in its bundle, if n verdicts were given.
Placed(s, evidence, n) ==
  /\ s.path \in Path \cup {Absent} /\ s.engine \in Engine \cup {"python"}
  /\ s.pc \in {"capture", "create_log", "write_log"} => s.verdict \in 1..n
  /\ s.rc \in {None, Some(0), Some(1), Some(2)}
  /\ s.pc # "off" => s.rc = None
  /\ s.pc \in {"write_evidence", "write_manifest"} => s.records # <<>>
  /\ s.pc = "write_manifest" => evidence = LogOf(s.records)

\* Only a log that parses has records.
IsSaved(log) ==
  /\ log.state \in {"absent", "whole", "empty", "cut"}
  /\ log.state # "whole" => log.records = <<>>

PlacedInv ==
  /\ DOMAIN frames = Path /\ starts \in 0..MaxStarts
  /\ IsSaved(session) /\ \A p \in Process : IsSaved(bundle[p].evidence)
  /\ \A p \in Process : Placed(proc[p], bundle[p].evidence, Len(verdicts))
  /\ \A i \in DOMAIN verdicts :
       /\ verdicts[i].engine \in {"python", "rust"}
       /\ verdicts[i].code = EngineVerify(verdicts[i].engine, verdicts[i].frame)

\* A command that has just ended.
LEMMA EndedIsPlaced ==
  ASSUME NEW rc \in {0, 1, 2}, NEW evidence, NEW n
  PROVE  /\ Placed([Off EXCEPT !.rc = Some(rc)], evidence, n)
         /\ Placed(Off, evidence, n)
BY DEF Placed, Off, Some, None

\* One process has gone on, and the others keep their places.
LEMMA OneIsPlaced ==
  ASSUME Shape, PlacedInv, NEW p \in Process, NEW r, proc' = [proc EXCEPT ![p] = r],
         \A q \in Process \ {p} : bundle'[q] = bundle[q],
         ASeq(verdicts), ASeq(verdicts'), Len(verdicts) <= Len(verdicts)',
         Placed(r, bundle'[p].evidence, Len(verdicts)')
  PROVE  \A q \in Process : Placed(proc'[q], bundle'[q].evidence, Len(verdicts)')
<1>1. \A q \in Process : proc'[q] = IF q = p THEN r ELSE proc[q]
  BY DEF Shape
<1>2. Len(verdicts) \in Nat /\ Len(verdicts)' \in Nat
  <2>1. \A s : ASeq(s) => Len(s) \in Nat
    BY DEF ASeq
  <2> QED  BY <2>1
<1>3. ASSUME NEW q \in Process \ {p}
      PROVE  Placed(proc[q], bundle[q].evidence, Len(verdicts)')
  BY <1>2 DEF PlacedInv, Placed
<1> QED  BY <1>1, <1>3

\* What a step leaves as it was: the frames a directory of the same files, the
\* history of verdicts a sequence.
LEMMA QuietHistory ==
  ASSUME PlacedInv, HonestInv, UNCHANGED verdicts
  PROVE  /\ ASeq(verdicts) /\ ASeq(verdicts') /\ Len(verdicts) <= Len(verdicts)'
         /\ \A i \in DOMAIN verdicts' :
              /\ verdicts'[i].engine \in {"python", "rust"}
              /\ verdicts'[i].code = EngineVerify(verdicts'[i].engine, verdicts'[i].frame)
<1>1. ASeq(verdicts)
  BY DEF HonestInv, Told
<1>2. Len(verdicts) \in Nat
  BY <1>1 DEF ASeq
<1> QED  BY <1>1, <1>2 DEF PlacedInv

\* A step that gives no verdict and leaves the frames, and the evidence of others.
LEMMA QuietPlaced ==
  ASSUME PlacedInv, HonestInv, UNCHANGED verdicts,
         NEW p \in Process, NEW r, proc' = [proc EXCEPT ![p] = r],
         \A q \in Process \ {p} : bundle'[q] = bundle[q],
         DOMAIN frames' = Path, starts' \in 0..MaxStarts,
         IsSaved(session'), IsSaved(bundle'[p].evidence),
         Placed(r, bundle'[p].evidence, Len(verdicts))
  PROVE  PlacedInv'
<1>1. /\ ASeq(verdicts) /\ ASeq(verdicts') /\ Len(verdicts) <= Len(verdicts)'
      /\ \A i \in DOMAIN verdicts' :
           /\ verdicts'[i].engine \in {"python", "rust"}
           /\ verdicts'[i].code = EngineVerify(verdicts'[i].engine, verdicts'[i].frame)
  BY QuietHistory
<1>2. Shape
  BY DEF HonestInv
<1>3. Placed(r, bundle'[p].evidence, Len(verdicts)')
  OBVIOUS
<1>4. \A q \in Process : Placed(proc'[q], bundle'[q].evidence, Len(verdicts)')
  BY <1>1, <1>2, <1>3, OneIsPlaced
<1>5. \A q \in Process : IsSaved(bundle'[q].evidence)
  BY DEF PlacedInv
<1> QED  BY <1>1, <1>4, <1>5 DEF PlacedInv

\* Beginning a command; gen and tamper end with it.
LEMMA BeginsKeepsPlaced ==
  ASSUME HonestInv, PlacedInv, NEW p \in Process, Begins(p)
  PROVE  PlacedInv'
<1>1. UNCHANGED <<session, bundle, verdicts>>
  BY DEF Begins, Start, Gen, Tamper, WriteFrame
<1>2. starts' \in 0..MaxStarts
  <2>1. starts < MaxStarts /\ starts' = starts + 1
    BY Zenon DEF Begins, Begin, Start, Gen, Tamper
  <2> QED  BY <2>1, PythonBoundAssumption, SMTT(30) DEF PlacedInv
<1>3. DOMAIN frames' = Path
  BY DEF PlacedInv, Begins, Start, Gen, Tamper, WriteFrame
<1>4. \E r : proc' = [proc EXCEPT ![p] = r] /\ Placed(r, bundle[p].evidence, Len(verdicts))
  <2>1. ASSUME NEW path \in Path \cup {Absent}, NEW engine \in Engine \cup {"python"},
               NEW pc \in {"verify", "load_replay", "load_export"}, Start(p, path, engine, pc)
        PROVE  \E r : proc' = [proc EXCEPT ![p] = r]
                        /\ Placed(r, bundle[p].evidence, Len(verdicts))
    <3> DEFINE r == [Off EXCEPT !.pc = pc, !.path = path, !.engine = engine]
    <3>1. r.pc = pc /\ r.path = path /\ r.engine = engine /\ r.rc = None
      BY DEF Off
    <3>2. proc' = [proc EXCEPT ![p] = r]
      BY <2>1 DEF Start
    <3> HIDE DEF r
    <3>3. Placed(r, bundle[p].evidence, Len(verdicts))
      BY <3>1 DEF Placed
    <3> QED  BY <3>2, <3>3
  <2>2. ASSUME NEW rc \in {0, 1, 2}, Exits(p, rc)
        PROVE  \E r : proc' = [proc EXCEPT ![p] = r]
                        /\ Placed(r, bundle[p].evidence, Len(verdicts))
    BY <2>2, EndedIsPlaced DEF Exits
  <2>3. \/ \E path \in Path, engine \in Engine :
              Start(p, path, engine, "verify") \/ Start(p, path, engine, "load_replay")
        \/ Start(p, Absent, "python", "load_export")
        \/ Exits(p, 0) \/ Exits(p, 1) \/ Exits(p, 2)
    BY DEF Begins, Gen, Tamper, WriteFrame
  <2> QED  BY <2>1, <2>2, <2>3
<1>5. IsSaved(session') /\ IsSaved(bundle'[p].evidence)
  BY <1>1 DEF PlacedInv
<1> QED  BY <1>1, <1>2, <1>3, <1>4, <1>5, QuietPlaced

\* A step of a running command that gives no verdict.
LEMMA QuietStepPlaced ==
  ASSUME HonestInv, PlacedInv, NEW p \in Process, UNCHANGED <<verdicts, frames, starts>>,
         NEW r, proc' = [proc EXCEPT ![p] = r],
         \A q \in Process \ {p} : bundle'[q] = bundle[q],
         IsSaved(session'), IsSaved(bundle'[p].evidence),
         Placed(r, bundle'[p].evidence, Len(verdicts))
  PROVE  PlacedInv'
<1>1. DOMAIN frames' = Path /\ starts' \in 0..MaxStarts
  BY DEF PlacedInv
<1> QED  BY <1>1, QuietPlaced

\* A command that ends keeps the types of what it leaves.
LEMMA ExitsPlaced ==
  ASSUME HonestInv, PlacedInv, NEW p \in Process, UNCHANGED <<verdicts, frames, starts>>,
         NEW rc \in {0, 1, 2}, Exits(p, rc),
         \A q \in Process \ {p} : bundle'[q] = bundle[q],
         IsSaved(session'), IsSaved(bundle'[p].evidence)
  PROVE  PlacedInv'
<1>1. proc' = [proc EXCEPT ![p] = [Off EXCEPT !.rc = Some(rc)]]
  BY DEF Exits
<1>2. Placed([Off EXCEPT !.rc = Some(rc)], bundle'[p].evidence, Len(verdicts))
  BY EndedIsPlaced
<1> QED  BY <1>1, <1>2, QuietStepPlaced

\* A command that goes on with what it has.
LEMMA GoesPlaced ==
  ASSUME HonestInv, PlacedInv, NEW p \in Process, UNCHANGED <<verdicts, frames, starts>>,
         NEW pc, ~At(p, "off"), Goes(p, pc),
         pc \in {"capture", "create_log", "write_log"}
            => proc[p].pc \in {"capture", "create_log", "write_log"},
         pc \in {"write_evidence", "write_manifest"} => proc[p].records # <<>>,
         pc = "write_manifest" => bundle'[p].evidence = LogOf(proc[p].records),
         \A q \in Process \ {p} : bundle'[q] = bundle[q],
         IsSaved(session'), IsSaved(bundle'[p].evidence)
  PROVE  PlacedInv'
<1> DEFINE r == [proc[p] EXCEPT !.pc = pc]
<1>1. DOMAIN proc[p] = Fields
  BY DEF HonestInv, Shape
<1>2. /\ r.pc = pc /\ r.path = proc[p].path /\ r.engine = proc[p].engine
      /\ r.verdict = proc[p].verdict /\ r.records = proc[p].records /\ r.rc = proc[p].rc
  BY <1>1 DEF Fields
<1>3. proc' = [proc EXCEPT ![p] = r]
  BY DEF Goes
<1> HIDE DEF r
<1>4. Placed(proc[p], bundle[p].evidence, Len(verdicts))
  BY DEF PlacedInv
<1>5. Placed(r, bundle'[p].evidence, Len(verdicts))
  BY <1>2, <1>4 DEF Placed, At
<1> QED  BY <1>3, <1>5, QuietStepPlaced

\* A command that goes on with records it has loaded.
LEMMA MovesPlaced ==
  ASSUME HonestInv, PlacedInv, NEW p \in Process,
         UNCHANGED <<verdicts, frames, starts, session, bundle>>,
         NEW pc, ~At(p, "off"), NEW records,
         proc' = [proc EXCEPT ![p].pc = pc, ![p].records = records],
         pc \in {"capture", "create_log", "write_log"}
            => proc[p].pc \in {"capture", "create_log", "write_log"},
         pc = "write_evidence" => records # <<>>, pc # "write_manifest"
  PROVE  PlacedInv'
<1> DEFINE r == [proc[p] EXCEPT !.pc = pc, !.records = records]
<1>1. DOMAIN proc[p] = Fields /\ DOMAIN proc = Process
  BY DEF HonestInv, Shape
<1>2. /\ r.pc = pc /\ r.path = proc[p].path /\ r.engine = proc[p].engine
      /\ r.verdict = proc[p].verdict /\ r.records = records /\ r.rc = proc[p].rc
  BY <1>1 DEF Fields
<1>3. proc' = [proc EXCEPT ![p] = r]
  BY <1>1
<1> HIDE DEF r
<1>4. Placed(proc[p], bundle[p].evidence, Len(verdicts))
  BY DEF PlacedInv
<1>5. Placed(r, bundle'[p].evidence, Len(verdicts))
  BY <1>2, <1>4 DEF Placed, At
<1>6. IsSaved(session') /\ IsSaved(bundle'[p].evidence)
  BY DEF PlacedInv
<1> QED  BY <1>3, <1>5, <1>6, QuietStepPlaced
\* The steps of verify but the verification, of replay but its own, and of export.
LEMMA SavingKeepsPlaced ==
  ASSUME HonestInv, PlacedInv, NEW p \in Process,
         VerifyImpossible(p) \/ Capture(p) \/ CreateLog(p) \/ WriteLog(p)
  PROVE  PlacedInv'
<1>1. UNCHANGED <<bundle, verdicts, frames, starts>>
  BY DEF VerifyImpossible, Capture, CreateLog, WriteLog
<1>2. \A q \in Process : bundle'[q] = bundle[q]
  BY <1>1
<1>3. IsSaved(session) /\ IsSaved(bundle'[p].evidence)
  BY <1>1 DEF PlacedInv
<1>4. CASE VerifyImpossible(p)
  <2>1. UNCHANGED session /\ (Exits(p, 1) \/ Exits(p, 2))
    BY <1>4 DEF VerifyImpossible
  <2> QED  BY <1>1, <1>2, <1>3, <2>1, ExitsPlaced
<1>5. CASE Capture(p)
  <2>1. PICK records :
          /\ proc' = [proc EXCEPT ![p].pc = "create_log", ![p].records = records]
          /\ proc[p].pc = "capture" /\ ~At(p, "off") /\ UNCHANGED session
    BY <1>5 DEF Capture, At
  <2>2. UNCHANGED <<verdicts, frames, starts, session, bundle>>
    BY <1>1, <2>1
  <2>3. /\ "create_log" \in {"capture", "create_log", "write_log"}
             => proc[p].pc \in {"capture", "create_log", "write_log"}
        /\ "create_log" = "write_evidence" => records # <<>>
        /\ "create_log" # "write_manifest"
    BY <2>1
  <2> QED  BY <2>1, <2>2, <2>3, MovesPlaced
<1>6. CASE CreateLog(p)
  <2>1. IsSaved(EmptyLog)
    BY DEF IsSaved, EmptyLog
  <2>2. proc[p].pc = "create_log"
    BY <1>6 DEF CreateLog, At
  <2>3. \/ session' = EmptyLog /\ Goes(p, "write_log")
        \/ session' = session /\ Exits(p, 1)
    BY <1>6 DEF CreateLog
  <2>4. CASE session' = EmptyLog /\ Goes(p, "write_log")
    <3>1. ~At(p, "off") /\ IsSaved(session')
      BY <2>1, <2>2, <2>4 DEF At
    <3> QED  BY <1>1, <1>2, <1>3, <2>2, <2>4, <3>1, GoesPlaced
  <2>5. CASE session' = session /\ Exits(p, 1)
    BY <1>1, <1>2, <1>3, <2>5, ExitsPlaced
  <2> QED  BY <2>3, <2>4, <2>5
<1>7. CASE WriteLog(p)
  <2>1. \A records : IsSaved(LogOf(records)) /\ IsSaved(CutLog)
    BY DEF IsSaved, LogOf, CutLog
  <2>2. session' = LogOf(proc[p].records) \/ session' = CutLog
    BY <1>7 DEF WriteLog, Overwritten
  <2>3. Exits(p, 0) \/ Exits(p, 1)
    BY <1>7 DEF WriteLog, ExitCode
  <2>4. IsSaved(session')
    BY <2>1, <2>2
  <2> QED  BY <1>1, <1>2, <1>3, <2>3, <2>4, ExitsPlaced
<1> QED  BY <1>4, <1>5, <1>6, <1>7

LEMMA ReadingKeepsPlaced ==
  ASSUME HonestInv, PlacedInv, NEW p \in Process,
         \/ LoadReplay(p) \/ ReplayImpossible(p)
         \/ LoadExport(p) \/ WriteEvidence(p) \/ WriteManifest(p)
  PROVE  PlacedInv'
<1>1. UNCHANGED <<session, verdicts, frames, starts>>
  BY DEF LoadReplay, ReplayImpossible, LoadExport, WriteEvidence, WriteManifest
<1>2. /\ DOMAIN bundle = Process
      /\ \A q \in Process : DOMAIN bundle[q] = {"evidence", "manifest"}
  BY DEF HonestInv, Shape
<1>3. IsSaved(session') /\ IsSaved(bundle[p].evidence)
  BY <1>1 DEF PlacedInv
<1>4. CASE LoadReplay(p)
  <2>1. UNCHANGED bundle /\ ~At(p, "off")
    BY <1>4 DEF LoadReplay, At
  <2>2. \/ Exits(p, 1) \/ Exits(p, 2)
        \/ proc' = [proc EXCEPT ![p].pc = "replay", ![p].records = session.records]
    BY <1>4 DEF LoadReplay
  <2>3. CASE proc' = [proc EXCEPT ![p].pc = "replay", ![p].records = session.records]
    BY <1>1, <2>1, <2>3, MovesPlaced
  <2> QED  BY <1>1, <1>3, <2>1, <2>2, <2>3, ExitsPlaced
<1>5. CASE ReplayImpossible(p)
  BY <1>1, <1>3, <1>5, ExitsPlaced DEF ReplayImpossible
<1>6. CASE LoadExport(p)
  <2>1. UNCHANGED bundle /\ ~At(p, "off")
    BY <1>6 DEF LoadExport, At
  <2>2. PICK records :
          \/ Exits(p, 2)
          \/ /\ records # <<>>
             /\ proc' = [proc EXCEPT ![p].pc = "write_evidence", ![p].records = records]
    BY <1>6 DEF LoadExport
  <2>3. CASE /\ records # <<>>
             /\ proc' = [proc EXCEPT ![p].pc = "write_evidence", ![p].records = records]
    <3> DEFINE pc == "write_evidence"
    <3>1. proc' = [proc EXCEPT ![p].pc = pc, ![p].records = records]
      BY <2>3
    <3>2. UNCHANGED <<verdicts, frames, starts, session, bundle>>
      BY <1>1, <2>1
    <3>3. /\ pc \in {"capture", "create_log", "write_log"}
               => proc[p].pc \in {"capture", "create_log", "write_log"}
          /\ pc = "write_evidence" => records # <<>>
          /\ pc # "write_manifest"
      BY <2>3
    <3> HIDE DEF pc
    <3> QED  BY <2>1, <3>1, <3>2, <3>3, MovesPlaced
  <2> QED  BY <1>1, <1>3, <2>1, <2>2, <2>3, ExitsPlaced
<1>7. CASE WriteEvidence(p)
  <2>1. proc[p].pc = "write_evidence" /\ ~At(p, "off")
    BY <1>7 DEF WriteEvidence, At
  <2>2. proc[p].records # <<>>
    BY <2>1 DEF PlacedInv, Placed
  <2>3. ASSUME NEW log, bundle' = [bundle EXCEPT ![p].evidence = log]
        PROVE  bundle'[p].evidence = log /\ \A q \in Process \ {p} : bundle'[q] = bundle[q]
    BY <1>2, <2>3
  <2>4. IsSaved(LogOf(proc[p].records)) /\ IsSaved(CutLog)
    BY DEF IsSaved, LogOf, CutLog
  <2>5. \/ bundle' = [bundle EXCEPT ![p].evidence = LogOf(proc[p].records)]
           /\ Goes(p, "write_manifest")
        \/ /\ \E left \in {bundle[p].evidence, CutLog} :
                bundle' = [bundle EXCEPT ![p].evidence = left]
           /\ Exits(p, 1)
    BY <1>7 DEF WriteEvidence
  <2>6. CASE bundle' = [bundle EXCEPT ![p].evidence = LogOf(proc[p].records)]
             /\ Goes(p, "write_manifest")
    <3>1. /\ bundle'[p].evidence = LogOf(proc[p].records)
          /\ \A q \in Process \ {p} : bundle'[q] = bundle[q]
      BY <2>3, <2>6
    <3> QED  BY <1>1, <1>3, <2>1, <2>2, <2>4, <2>6, <3>1, GoesPlaced
  <2>7. CASE /\ \E left \in {bundle[p].evidence, CutLog} :
                  bundle' = [bundle EXCEPT ![p].evidence = left]
             /\ Exits(p, 1)
    <3>1. /\ bundle'[p].evidence \in {bundle[p].evidence, CutLog}
          /\ \A q \in Process \ {p} : bundle'[q] = bundle[q]
      BY <2>3, <2>7
    <3> QED  BY <1>1, <1>3, <2>4, <2>7, <3>1, ExitsPlaced
  <2> QED  BY <2>5, <2>6, <2>7
<1>8. CASE WriteManifest(p)
  <2>1. ASSUME NEW manifest, bundle' = [bundle EXCEPT ![p].manifest = manifest]
        PROVE  /\ bundle'[p].evidence = bundle[p].evidence
               /\ \A q \in Process \ {p} : bundle'[q] = bundle[q]
    BY <1>2, <2>1
  <2>2. Exits(p, 0) \/ Exits(p, 1)
    BY <1>8 DEF WriteManifest
  <2>3. /\ bundle'[p].evidence = bundle[p].evidence
        /\ \A q \in Process \ {p} : bundle'[q] = bundle[q]
    BY <1>8, <2>1 DEF WriteManifest
  <2> QED  BY <1>1, <1>3, <2>2, <2>3, ExitsPlaced
<1> QED  BY <1>4, <1>5, <1>6, <1>7, <1>8

\* A process killed.
LEMMA CrashKeepsPlaced ==
  ASSUME HonestInv, PlacedInv, NEW p \in Process, Crash(p)
  PROVE  PlacedInv'
<1>1. UNCHANGED <<session, verdicts, frames, starts>> /\ proc' = [proc EXCEPT ![p] = Off]
  BY DEF Crash
<1>2. /\ DOMAIN bundle = Process
      /\ \A q \in Process : DOMAIN bundle[q] = {"evidence", "manifest"}
  BY DEF HonestInv, Shape
<1>3. IsSaved(session') /\ IsSaved(bundle[p].evidence) /\ IsSaved(CutLog)
  BY <1>1 DEF PlacedInv, IsSaved, CutLog
<1>4. /\ bundle'[p].evidence \in {bundle[p].evidence, CutLog}
      /\ \A q \in Process \ {p} : bundle'[q] = bundle[q]
  BY <1>2 DEF Crash
<1>5. Placed(Off, bundle'[p].evidence, Len(verdicts))
  BY EndedIsPlaced
<1>6. IsSaved(bundle'[p].evidence)
  BY <1>3, <1>4
<1> QED  BY <1>1, <1>3, <1>4, <1>5, <1>6, QuietStepPlaced

\* The verifications, which give a verdict each.
LEMMA VerdictKeepsPlaced ==
  ASSUME HonestInv, PlacedInv, NEW p \in Process, Verify(p) \/ Replay(p)
  PROVE  PlacedInv'
<1> DEFINE n == Len(verdicts)
<1>1. UNCHANGED <<frames, session, bundle, starts>>
  BY DEF Verify, Replay
<1>2. PICK frame, engine :
        /\ engine \in {"python", "rust"}
        /\ verdicts' = Append(verdicts, [frame |-> frame,
                                         code |-> EngineVerify(engine, frame),
                                         engine |-> engine])
  <2>1. proc[p].engine \in {"python", "rust"}
    BY DEF Verify, Replay, MayHave
  <2>2. verdicts' = Append(verdicts, [frame |-> frames[proc[p].path],
                                      code |-> EngineVerify(proc[p].engine,
                                                            frames[proc[p].path]),
                                      engine |-> proc[p].engine])
    BY DEF Verify, Replay
  <2> QED  BY <2>1, <2>2
<1> DEFINE v == [frame |-> frame, code |-> EngineVerify(engine, frame), engine |-> engine]
<1>3. v.frame = frame /\ v.engine = engine /\ v.code = EngineVerify(engine, frame)
  OBVIOUS
<1>4. verdicts' = Append(verdicts, v)
  BY <1>2
<1> HIDE DEF v
<1>5. ASeq(verdicts)
  BY DEF HonestInv, Told
<1>6. /\ ASeq(verdicts') /\ n \in Nat /\ DOMAIN verdicts = 1..n
      /\ DOMAIN verdicts' = 1..n + 1
      /\ \A i \in DOMAIN verdicts : verdicts'[i] = verdicts[i]
      /\ verdicts'[n + 1] = v
  BY <1>4, <1>5, AppendASeq
<1>7. Len(verdicts') = n + 1
  <2>1. Len(verdicts') \in Nat /\ DOMAIN verdicts' = 1..Len(verdicts')
    BY <1>6, AppendASeq
  <2> QED  BY <1>6, <2>1
<1> HIDE DEF n
<1>8. \A i \in DOMAIN verdicts' :
        /\ verdicts'[i].engine \in {"python", "rust"}
        /\ verdicts'[i].code = EngineVerify(verdicts'[i].engine, verdicts'[i].frame)
  <2>1. \A i \in DOMAIN verdicts :
          /\ verdicts[i].engine \in {"python", "rust"}
          /\ verdicts[i].code = EngineVerify(verdicts[i].engine, verdicts[i].frame)
    BY DEF PlacedInv
  <2> QED  BY <1>2, <1>3, <1>6, <2>1
<1>9. \E r : proc' = [proc EXCEPT ![p] = r] /\ Placed(r, bundle'[p].evidence, n + 1)
  <2>1. CASE Verify(p)
    <3> DEFINE r == [proc[p] EXCEPT !.pc = "capture", !.verdict = n + 1]
    <3>1. DOMAIN proc[p] = Fields /\ DOMAIN proc = Process
      BY DEF HonestInv, Shape
    <3>2. /\ r.pc = "capture" /\ r.path = proc[p].path /\ r.engine = proc[p].engine
          /\ r.verdict = n + 1 /\ r.rc = proc[p].rc
      BY <3>1 DEF Fields
    <3>3. proc' = [proc EXCEPT ![p] = r]
      BY <2>1, <3>1 DEF Verify, n
    <3> HIDE DEF r
    <3>4. proc[p].pc = "verify" /\ Placed(proc[p], bundle[p].evidence, n)
      BY <2>1 DEF Verify, At, PlacedInv, n
    <3>5. n + 1 \in 1..n + 1
      BY <1>6
    <3>6. Placed(r, bundle'[p].evidence, n + 1)
      BY <3>2, <3>4, <3>5 DEF Placed
    <3> QED  BY <3>3, <3>6
  <2>2. CASE Replay(p)
    <3>1. Exits(p, 0) \/ Exits(p, 1)
      BY <2>2 DEF Replay
    <3> QED  BY <3>1, EndedIsPlaced DEF Exits
  <2> QED  BY <2>1, <2>2
<1>10. \A q \in Process : Placed(proc'[q], bundle'[q].evidence, Len(verdicts)')
  <2>1. Shape /\ \A q \in Process \ {p} : bundle'[q] = bundle[q]
    BY <1>1 DEF HonestInv
  <2>2. Len(verdicts) <= Len(verdicts)' /\ Len(verdicts)' = n + 1
    BY <1>6, <1>7 DEF n
  <2> QED  BY <1>5, <1>6, <1>9, <2>1, <2>2, OneIsPlaced
<1> QED  BY <1>1, <1>8, <1>10 DEF PlacedInv

LEMMA InitPlaced == Init => PlacedInv
<1> SUFFICES ASSUME Init PROVE PlacedInv
  OBVIOUS
<1>1. DOMAIN frames = Path /\ starts \in 0..MaxStarts
  BY PythonBoundAssumption, GivenAssumption DEF Init
<1>2. IsSaved(session) /\ \A p \in Process : IsSaved(bundle[p].evidence)
  BY DEF Init, NoLog, NoBundle, IsSaved
<1>3. \A p \in Process : Placed(proc[p], bundle[p].evidence, Len(verdicts))
  BY EndedIsPlaced DEF Init
<1>4. verdicts = <<>>
  BY DEF Init
<1> QED  BY <1>1, <1>2, <1>3, <1>4, EmptyASeq DEF PlacedInv

LEMMA PlacedStep == HonestInv /\ PlacedInv /\ [Next]_vars => PlacedInv'
<1> SUFFICES ASSUME HonestInv, PlacedInv, [Next]_vars PROVE PlacedInv'
  OBVIOUS
<1>1. ASSUME NEW p \in Process, Step(p)
      PROVE  PlacedInv'
  BY <1>1, VerdictKeepsPlaced, SavingKeepsPlaced, ReadingKeepsPlaced DEF Step
<1>2. CASE Next
  BY <1>1, <1>2, BeginsKeepsPlaced, CrashKeepsPlaced DEF Next
<1>3. CASE UNCHANGED vars
  BY <1>3 DEF vars, PlacedInv
<1> QED  BY <1>2, <1>3

\* Codes, engines, exit codes and places in the histories are what they should be,
\* whatever runs, fails or is killed.
THEOREM PythonTyped == Spec => []TypeOK
<1>1. HonestInv /\ PlacedInv => TypeOK
  <2> SUFFICES ASSUME HonestInv, PlacedInv PROVE TypeOK
    OBVIOUS
  <2>1. \A i \in DOMAIN verdicts : IsVerdict(verdicts[i])
    BY EngineCodes DEF PlacedInv, IsVerdict
  <2>2. ASSUME NEW log, IsSaved(log), Honest(log.records, verdicts, captured)
        PROVE  IsLog(log)
    <3>1. ASSUME NEW i \in DOMAIN log.records
          PROVE  IsVerdict(log.records[i]) /\ log.records[i].run \in DOMAIN captured
      <4> DEFINE r == log.records[i]
                 v == verdicts[captured[r.run]]
      <4>1. /\ r.run \in DOMAIN captured /\ captured[r.run] \in DOMAIN verdicts
            /\ v = [frame |-> r.frame, code |-> r.code, engine |-> r.engine]
        BY <2>2 DEF Honest
      <4>2. v.code = r.code /\ v.engine = r.engine
        BY <4>1
      <4> QED  BY <2>1, <4>1, <4>2 DEF IsVerdict
    <3> QED  BY <2>2, <3>1 DEF IsSaved, IsLog
  <2>3. IsLog(session) /\ \A p \in Process : IsLog(bundle[p].evidence)
    BY <2>2 DEF HonestInv, HonestRecords, PlacedInv
  <2>4. DOMAIN verdicts = 1..Len(verdicts)
    BY AppendASeq DEF HonestInv, Told
  <2>5. \A i \in DOMAIN captured : captured[i] \in DOMAIN verdicts
    BY DEF HonestInv, Told
  <2> QED  BY <2>1, <2>3, <2>4, <2>5 DEF PlacedInv, Placed, TypeOK
<1> QED  BY <1>1, InitHonest, HonestStep, InitPlaced, PlacedStep, PTL DEF Spec

\* A step is of one process, and the others stay as they are.
LEMMA OthersStay ==
  ASSUME Shape, NEW p \in Process, NEW q \in Process, q # p, Begins(q) \/ Step(q) \/ Crash(q)
  PROVE  proc'[p] = proc[p]
<1>1. ASSUME NEW r, proc' = [proc EXCEPT ![q] = r]
      PROVE  proc'[p] = proc[p]
  BY <1>1 DEF Shape
<1>2. ASSUME NEW rc, Exits(q, rc)
      PROVE  proc'[p] = proc[p]
  BY <1>1, <1>2 DEF Exits
<1>3. ASSUME NEW pc, Goes(q, pc)
      PROVE  proc'[p] = proc[p]
  BY <1>3, Zenon DEF Goes, Shape
<1>4. CASE Begins(q)
  BY <1>1, <1>2, <1>4, Zenon DEF Begins, Start, Gen, Tamper, WriteFrame
<1>5. CASE Crash(q)
  BY <1>1, <1>5 DEF Crash
<1>6. CASE Verify(q) \/ Capture(q) \/ LoadReplay(q) \/ LoadExport(q)
  BY <1>2, <1>6 DEF Verify, Capture, LoadReplay, LoadExport, Shape
<1>7. CASE VerifyImpossible(q) \/ CreateLog(q) \/ WriteLog(q)
  BY <1>2, <1>3, <1>7 DEF VerifyImpossible, CreateLog, WriteLog
<1>8. CASE ReplayImpossible(q) \/ Replay(q) \/ WriteEvidence(q) \/ WriteManifest(q)
  BY <1>2, <1>3, <1>8 DEF ReplayImpossible, Replay, WriteEvidence, WriteManifest
<1> QED  BY <1>4, <1>5, <1>6, <1>7, <1>8 DEF Step

\* What ends with a code in a step made that step.
LEMMA EndsByItself ==
  ASSUME HonestInv, PlacedInv, NEW p \in Process, ~At(p, "off"), proc'[p].rc # None, Next
  PROVE  Step(p)
<1>1. proc[p].rc = None
  BY DEF PlacedInv, Placed, At
<1>2. PICK q \in Process : Begins(q) \/ Step(q) \/ Crash(q)
  BY DEF Next
<1>3. q = p
  BY <1>1, <1>2, OthersStay, Zenon DEF HonestInv
<1>4. ~Begins(p)
  BY DEF Begins, Begin, Start, Gen, Tamper
<1>5. ~Crash(p)
  <2>1. Crash(p) => proc'[p] = Off
    BY DEF Crash, HonestInv, Shape
  <2> QED  BY <2>1 DEF Off
<1> QED  BY <1>2, <1>3, <1>4, <1>5

\* A process that ends has its code.
LEMMA EndsWith ==
  ASSUME Shape, NEW p \in Process, NEW rc, Exits(p, rc)
  PROVE  proc'[p].rc = Some(rc)
BY DEF Shape, Exits, Off

\* BundleIsWhole: what export has just finished is of one moment, whatever verify
\* has saved meanwhile (replay.py:139-182).
THEOREM BundleOfOneLog == Spec => BundleIsWhole
<1>1. HonestInv /\ PlacedInv /\ [Next]_vars =>
        [\A p \in Process :
           At(p, "write_manifest") /\ proc'[p].rc = Some(0) =>
             LET manifest == bundle'[p].manifest[1]
                 records == bundle'[p].evidence.records
             IN  /\ manifest.evidence_sha256 = bundle'[p].evidence
                 /\ manifest.record_count = Len(records) /\ records # <<>>
                 /\ manifest.verification_digest = VerificationDigest(records)]_vars
  <2> SUFFICES ASSUME HonestInv, PlacedInv, Next,
                      NEW p \in Process, At(p, "write_manifest"), proc'[p].rc = Some(0)
               PROVE  LET manifest == bundle'[p].manifest[1]
                          records == bundle'[p].evidence.records
                      IN  /\ manifest.evidence_sha256 = bundle'[p].evidence
                          /\ manifest.record_count = Len(records) /\ records # <<>>
                          /\ manifest.verification_digest = VerificationDigest(records)
    OBVIOUS
  <2>1. Some(0) # None /\ Some(1) # Some(0)
    BY DEF Some, None
  <2>2. Step(p)
    BY <2>1, EndsByItself DEF At
  <2>3. WriteManifest(p)
    BY <2>2 DEF Step, VerifyImpossible, Verify, Capture, CreateLog, WriteLog, LoadReplay,
                ReplayImpossible, Replay, LoadExport, WriteEvidence, At
  <2>4. bundle' = [bundle EXCEPT ![p].manifest =
                     Some([record_count |-> Len(proc[p].records),
                           evidence_sha256 |-> bundle[p].evidence,
                           verification_digest |-> DigestOf(p)])]
    <3>1. ~Exits(p, 1)
      BY <2>1, EndsWith DEF HonestInv
    <3> QED  BY <2>3, <3>1 DEF WriteManifest
  <2> DEFINE m == [record_count |-> Len(proc[p].records),
                   evidence_sha256 |-> bundle[p].evidence,
                   verification_digest |-> DigestOf(p)]
  <2>5. /\ m.record_count = Len(proc[p].records) /\ m.evidence_sha256 = bundle[p].evidence
        /\ m.verification_digest = VerificationDigest(proc[p].records)
    BY DEF DigestOf
  <2> HIDE DEF m
  <2>6. bundle'[p].manifest = Some(m) /\ bundle'[p].evidence = bundle[p].evidence
    BY <2>4 DEF m, HonestInv, Shape
  <2>7. bundle[p].evidence = LogOf(proc[p].records) /\ proc[p].records # <<>>
    BY DEF PlacedInv, Placed, At
  <2>8. bundle'[p].evidence.records = proc[p].records /\ bundle'[p].manifest[1] = m
    BY <2>6, <2>7 DEF LogOf, Some
  <2> QED  BY <2>5, <2>6, <2>7, <2>8
<1> QED  BY <1>1, InitHonest, HonestStep, InitPlaced, PlacedStep, PTL
         DEF Spec, BundleIsWhole

\* ReplayBlamesEngine: what contradicts a decision is another engine than that which
\* made it, since records are honest and an engine answers alike whenever it is
\* asked (cli.py:186-226).
THEOREM OnlyEnginesDiffer == Spec => ReplayBlamesEngine
<1>1. HonestInv /\ PlacedInv /\ [Next]_vars =>
        [\A p \in Process :
           At(p, "replay") /\ verdicts' # verdicts /\ proc'[p].rc = Some(1) =>
             \E i \in DOMAIN proc[p].records :
               /\ proc[p].records[i].frame = frames[proc[p].path]
               /\ proc[p].records[i].engine # proc[p].engine
               /\ \A j \in 1..i - 1 :
                    proc[p].records[j].frame # frames[proc[p].path]]_vars
  <2> SUFFICES ASSUME HonestInv, PlacedInv, Next, NEW p \in Process,
                      At(p, "replay"), verdicts' # verdicts, proc'[p].rc = Some(1)
               PROVE  \E i \in DOMAIN proc[p].records :
                        /\ proc[p].records[i].frame = frames[proc[p].path]
                        /\ proc[p].records[i].engine # proc[p].engine
                        /\ \A j \in 1..i - 1 :
                             proc[p].records[j].frame # frames[proc[p].path]
    OBVIOUS
  <2> DEFINE records == proc[p].records
             frame == frames[proc[p].path]
             found == Matching(records, frame)
             code == EngineVerify(proc[p].engine, frame)
             i == Least(found)
  <2>1. Some(1) # None /\ Some(1) # Some(0)
    BY DEF Some, None
  <2>2. Step(p)
    BY <2>1, EndsByItself DEF At
  <2>3. Replay(p)
    BY <2>2 DEF Step, VerifyImpossible, Verify, Capture, CreateLog, WriteLog, LoadReplay,
                ReplayImpossible, LoadExport, WriteEvidence, WriteManifest, At
  <2>4. found # {} /\ Exits(p, IF Decision(records[i].code) = Decision(code) THEN 0 ELSE 1)
    BY <2>3 DEF Replay
  <2>5. Decision(records[i].code) # Decision(code)
    <3>1. ~Exits(p, 0)
      BY <2>1, EndsWith DEF HonestInv
    <3> QED  BY <2>4, <3>1
  <2>6. Honest(records, verdicts, captured)
    BY DEF HonestInv, HonestRecords
  <2>7. /\ Len(records) \in Nat /\ DOMAIN records = 1..Len(records)
    BY <2>6, AppendASeq DEF Honest
  <2>8. found \subseteq Nat
    BY <2>7 DEF Matching
  <2>9. i \in found /\ \A n \in found : i <= n
    BY <2>4, <2>8, LeastOfSome
  <2> HIDE DEF i
  <2>10. i \in DOMAIN records /\ records[i].frame = frame
    BY <2>9 DEF Matching
  <2>11. \A j \in 1..i - 1 : records[j].frame # frame
    <3> SUFFICES ASSUME NEW j \in 1..i - 1, records[j].frame = frame PROVE FALSE
      OBVIOUS
    <3>1. j \in DOMAIN records
      BY <2>7, <2>10
    <3>2. j \in found
      BY <3>1 DEF Matching
    <3>3. i <= j /\ i \in Nat
      BY <2>8, <2>9, <3>2
    <3> QED  BY <3>3
  <2>12. records[i].code = EngineVerify(records[i].engine, records[i].frame)
    <3> DEFINE v == verdicts[captured[records[i].run]]
    <3>1. /\ captured[records[i].run] \in DOMAIN verdicts
          /\ v = [frame |-> records[i].frame, code |-> records[i].code,
                  engine |-> records[i].engine]
      BY <2>6, <2>10 DEF Honest
    <3>2. v.code = EngineVerify(v.engine, v.frame)
      BY <3>1 DEF PlacedInv
    <3>3. /\ v.code = records[i].code /\ v.engine = records[i].engine
          /\ v.frame = records[i].frame
      BY <3>1
    <3> QED  BY <3>2, <3>3
  <2>13. records[i].engine # proc[p].engine
    BY <2>5, <2>10, <2>12
  <2> QED  BY <2>10, <2>11, <2>13
<1> QED  BY <1>1, InitHonest, HonestStep, InitPlaced, PlacedStep, PTL
         DEF Spec, ReplayBlamesEngine
=============================================================================

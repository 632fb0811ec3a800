-------------------------- MODULE AndnaFfi_proofs ---------------------------
(* AndnaFfi for every set of threads and of frames, every build lane and     *)
(* every bound: its types, what its log and its file are, the verdicts that  *)
(* are in the log, the gate of the self-tests, that calls go on and a panic  *)
(* closes the log for good, and the ledger of verdicts the module implements.*)
EXTENDS AndnaFfi, AuditChain_proofs, FiniteSetTheorems

-----------------------------------------------------------------------------
(* Types.  A thread's call has the shape its label needs.                    *)

CallShape(t) ==
  /\ pc[t] \in VerifyLabels =>
       call[t].op = Some("andna_verify_frame_v2") /\ call[t].frame # None
  /\ pc[t] \in SinkLabels =>
       \/ call[t].op = Some("andna_verify_frame_v2") /\ call[t].frame # None
       \/ call[t].op = Some("andna_audit_export_jsonl")
  /\ pc[t] = "compute" => call[t].op \in {Some(op) : op \in CryptoOps}
  /\ pc[t] = "push" => call[t].rec \in {Some(r) : r \in AuditRecord}
  /\ pc[t] \in {"lock", "append", "push", "unlock"} \cup ExportLabels => sink # None

TypeInv == TypeOK /\ \A t \in Thread : CallShape(t)

LEMMA SomeProperties ==
  /\ None = <<>>
  /\ \A x : Some(x) # None /\ Some(x)[1] = x
  /\ \A x, y : Some(x) = Some(y) => x = y
BY DEF Some, None

LEMMA TestFacts ==
  /\ Tests[1] = "hmac_cast" /\ Tests[2] = "shake256_kat"
  /\ Tests[3] = "mldsa44_kat" /\ Tests[4] = "integrity"
  /\ FirstTest \in {1, 2}
  /\ TestNames = {"hmac_cast", "shake256_kat", "mldsa44_kat", "integrity"}
<1>1. /\ Tests[1] = "hmac_cast" /\ Tests[2] = "shake256_kat"
      /\ Tests[3] = "mldsa44_kat" /\ Tests[4] = "integrity"
  BY DEF Tests
<1>2. FirstTest \in {1, 2}
  BY DEF FirstTest
<1>3. 1..4 = {1, 2, 3, 4}
  OBVIOUS
<1>4. QED  BY <1>1, <1>2, <1>3 DEF TestNames

LEMMA TypeInit == Init => TypeInv
<1> SUFFICES ASSUME Init  PROVE TypeInv
  OBVIOUS
<1>1. NoFile \in AuditFile
  BY EmptySeq DEF NoFile, AuditFile
<1>2. NoCall \in Calls
  BY EmptySeq DEF NoCall, Calls, AndnaErr, None
<1>3. TypeOK
  <2>1. pc \in [Thread -> Labels] /\ call \in [Thread -> Calls]
    BY <1>2 DEF Init, Labels
  <2>2. calls \in [Thread -> 0..MaxCalls] /\ restarts \in 0..MaxRestarts
    BY BoundAssumption DEF Init
  <2>3. answered \in [Frame \X AndnaErr -> Nat] /\ base \in Nat
    BY DEF Init
  <2>4. file \in AuditFile /\ sink = None
    BY <1>1 DEF Init
  <2>5. QED
    BY <2>1, <2>2, <2>3, <2>4 DEF Init, TypeOK, ModuleState
<1>4. \A t \in Thread : CallShape(t)
  BY DEF Init, CallShape, VerifyLabels, SinkLabels, ExportLabels
<1>5. QED  BY <1>3, <1>4 DEF TypeInv

\* A call that returns, goes on, or ends where it began keeps the other
\* threads' labels and calls.
LEMMA ReturnType ==
  ASSUME TypeInv, NEW t \in Thread, NEW code \in AndnaErr, Return(t, code),
         sink # None => sink' # None
  PROVE  /\ pc' \in [Thread -> Labels]
         /\ call' \in [Thread -> Calls]
         /\ \A u \in Thread : CallShape(u)'
<1>1. pc' \in [Thread -> Labels] /\ pc'[t] = "idle"
  BY DEF Return, Goto, TypeInv, TypeOK, Labels
<1>2. call' \in [Thread -> Calls]
  <2>1. call[t] \in Calls /\ call \in [Thread -> Calls]
    BY DEF TypeInv, TypeOK
  <2>2. [call[t] EXCEPT !.code = code, !.frame = None, !.rec = None, !.snap = <<>>] \in Calls
    BY <2>1, EmptySeq DEF Calls, None
  <2> QED  BY <2>1, <2>2 DEF Return
<1>3. \A u \in Thread \ {t} : pc'[u] = pc[u] /\ call'[u] = call[u]
  BY DEF Return, Goto, TypeInv, TypeOK
<1>4. CallShape(t)'
  BY <1>1 DEF CallShape, VerifyLabels, SinkLabels, ExportLabels
<1>5. \A u \in Thread \ {t} : CallShape(u)'
  BY <1>3 DEF CallShape, TypeInv
<1>6. QED  BY <1>1, <1>2, <1>4, <1>5

LEMMA BeganType ==
  ASSUME TypeInv, NEW t \in Thread, NEW op \in Ops, NEW code \in AndnaErr,
         NEW frame \in {None} \cup {Some(f) : f \in Frame}, MayCall(t)
  PROVE  /\ [calls EXCEPT ![t] = @ + 1] \in [Thread -> 0..MaxCalls]
         /\ [NoCall EXCEPT !.op = Some(op), !.frame = frame] \in Calls
         /\ [NoCall EXCEPT !.op = Some(op), !.code = code] \in Calls
<1>1. calls[t] + 1 \in 0..MaxCalls
  BY BoundAssumption DEF TypeInv, TypeOK, MayCall
<1>2. QED
  BY <1>1, EmptySeq DEF TypeInv, TypeOK, NoCall, Calls, None, AndnaErr

\* A step that moves t to a label and changes only its own call.
LEMMA MovedOthers ==
  ASSUME TypeInv, NEW t \in Thread, NEW label, NEW c,
         pc' = [pc EXCEPT ![t] = label],
         call' = [call EXCEPT ![t] = c],
         sink # None => sink' # None
  PROVE  \A u \in Thread \ {t} : CallShape(u)'
<1>1. \A u \in Thread \ {t} : pc'[u] = pc[u] /\ call'[u] = call[u]
  BY DEF TypeInv, TypeOK
<1>2. QED  BY <1>1 DEF CallShape, TypeInv

\* A call that begins, and goes on at a label or returns at once.
LEMMA BeginType ==
  ASSUME TypeInv, NEW t \in Thread, NEW op \in Ops, NEW code \in AndnaErr, MayCall(t),
         sink # None => sink' # None,
         BeganAndReturned(t, op, code)
  PROVE  /\ pc' \in [Thread -> Labels]
         /\ call' \in [Thread -> Calls]
         /\ calls' \in [Thread -> 0..MaxCalls]
         /\ \A u \in Thread : CallShape(u)'
<1>1. /\ calls' \in [Thread -> 0..MaxCalls]
      /\ [NoCall EXCEPT !.op = Some(op), !.code = code] \in Calls
  BY BeganType DEF BeganAndReturned
<1>2. call' \in [Thread -> Calls] /\ pc' \in [Thread -> Labels]
  BY <1>1 DEF BeganAndReturned, TypeInv, TypeOK
<1>3. pc[t] = "idle" /\ pc' = [pc EXCEPT ![t] = "idle"]
  BY DEF BeganAndReturned, MayCall, TypeInv, TypeOK
<1>4. \A u \in Thread \ {t} : CallShape(u)'
  BY <1>3, MovedOthers DEF BeganAndReturned
<1>5. CallShape(t)'
  BY <1>3 DEF CallShape, VerifyLabels, SinkLabels, ExportLabels, TypeInv, TypeOK
<1>6. QED  BY <1>1, <1>2, <1>4, <1>5

LEMMA GateType ==
  ASSUME TypeInv, NEW t \in Thread, NEW op \in Ops, NEW label \in {"compute", "verify"},
         NEW frame \in {None} \cup {Some(f) : f \in Frame},
         label = "compute" => op \in CryptoOps,
         label = "verify" => op = "andna_verify_frame_v2" /\ frame # None,
         Gate(t, op, frame, label)
  PROVE  TypeInv'
<1> USE DEF Gate, GateOpen
<1>1. PICK s \in Readable(t) :
        /\ seen' = [seen EXCEPT ![t] = s]
        /\ IF s = "APPROVED"
             THEN Began(t, op, frame) /\ Goto(t, label)
             ELSE BeganAndReturned(t, op, "Internal")
  OBVIOUS
<1>2. seen' \in [Thread -> ModuleState]
  BY <1>1 DEF Readable, ModuleState, TypeInv, TypeOK
<1>3. CASE s = "APPROVED"
  <2>1. /\ calls' \in [Thread -> 0..MaxCalls]
        /\ [NoCall EXCEPT !.op = Some(op), !.frame = frame] \in Calls
    BY <1>1, <1>3, BeganType DEF Began, AndnaErr
  <2>2. pc' \in [Thread -> Labels] /\ call' \in [Thread -> Calls]
    BY <1>1, <1>3, <2>1 DEF Began, Goto, TypeInv, TypeOK, Labels, VerifyLabels
  <2>3. \A u \in Thread \ {t} : CallShape(u)'
    BY <1>1, <1>3, MovedOthers DEF Began, Goto, sinkVars
  <2>4. pc'[t] = label /\ call'[t].op = Some(op) /\ call'[t].frame = frame
    <3>1. pc'[t] = label
      BY <1>1, <1>3 DEF Goto, TypeInv, TypeOK
    <3>2. call'[t] = [NoCall EXCEPT !.op = Some(op), !.frame = frame]
      BY <1>1, <1>3 DEF Began, TypeInv, TypeOK
    <3>3. QED  BY <3>1, <3>2 DEF NoCall
  <2>5. CallShape(t)'
    BY <2>4 DEF CallShape, VerifyLabels, SinkLabels, ExportLabels
  <2>6. QED
    BY <1>2, <2>1, <2>2, <2>3, <2>5 DEF TypeInv, TypeOK, sinkVars
<1>4. CASE s # "APPROVED"
  <2>1. BeganAndReturned(t, op, "Internal")
    BY <1>1, <1>4
  <2>2. sink' = sink /\ "Internal" \in AndnaErr
    BY DEF sinkVars, AndnaErr
  <2>3. /\ pc' \in [Thread -> Labels]
        /\ call' \in [Thread -> Calls]
        /\ calls' \in [Thread -> 0..MaxCalls]
        /\ \A u \in Thread : CallShape(u)'
    BY <2>1, <2>2, BeginType
  <2>4. QED
    BY <1>2, <2>3 DEF TypeInv, TypeOK, sinkVars
<1>5. QED  BY <1>3, <1>4

LEMMA BeginStepType ==
  ASSUME TypeInv, NEW t \in Thread, Begin(t)
  PROVE  TypeInv'
<1>1. CASE CallInit(t)
  <2>1. PICK s \in Readable(t) :
          /\ seen' = [seen EXCEPT ![t] = s]
          /\ IF s = "APPROVED"
               THEN /\ BeganAndReturned(t, "andna_init", "Ok")
                    /\ inited' = inited \cup {t}
               ELSE /\ Began(t, "andna_init", None)
                    /\ Goto(t, "compare_exchange")
                    /\ UNCHANGED inited
    BY <1>1 DEF CallInit
  <2>2. /\ seen' \in [Thread -> ModuleState]
        /\ "andna_init" \in Ops /\ "Ok" \in AndnaErr /\ MayCall(t) /\ sink' = sink
    BY <1>1, <2>1 DEF CallInit, Readable, ModuleState, TypeInv, TypeOK, Ops, AndnaErr, sinkVars
  <2>3. CASE s = "APPROVED"
    <3>1. /\ pc' \in [Thread -> Labels]
          /\ call' \in [Thread -> Calls]
          /\ calls' \in [Thread -> 0..MaxCalls]
          /\ \A u \in Thread : CallShape(u)'
      BY <2>1, <2>2, <2>3, BeginType
    <3>2. QED
      BY <1>1, <2>1, <2>2, <2>3, <3>1 DEF CallInit, TypeInv, TypeOK, sinkVars
  <2>4. CASE s # "APPROVED"
    <3>1. /\ calls' \in [Thread -> 0..MaxCalls]
          /\ [NoCall EXCEPT !.op = Some("andna_init"), !.frame = None] \in Calls
      BY <2>1, <2>2, <2>4, BeganType DEF Began
    <3>2. pc' \in [Thread -> Labels] /\ call' \in [Thread -> Calls]
      BY <2>1, <2>4, <3>1 DEF Began, Goto, TypeInv, TypeOK, Labels, InitLabels
    <3>3. \A u \in Thread \ {t} : CallShape(u)'
      BY <2>1, <2>2, <2>4, MovedOthers DEF Began, Goto
    <3>4. CallShape(t)'
      BY <2>1, <2>4 DEF CallShape, Goto, TypeInv, TypeOK, VerifyLabels, SinkLabels, ExportLabels
    <3>5. QED
      BY <1>1, <2>1, <2>2, <2>4, <3>1, <3>2, <3>3, <3>4
      DEF CallInit, TypeInv, TypeOK, sinkVars
  <2>5. QED  BY <2>3, <2>4
<1>2. CASE CallExport(t)
  <2>1. /\ calls' \in [Thread -> 0..MaxCalls]
        /\ [NoCall EXCEPT !.op = Some("andna_audit_export_jsonl"), !.frame = None] \in Calls
        /\ sink' = sink
    BY <1>2, BeganType DEF CallExport, Began, Ops, sinkVars, AndnaErr
  <2>2. pc' \in [Thread -> Labels] /\ call' \in [Thread -> Calls]
    BY <1>2, <2>1 DEF CallExport, Began, Goto, TypeInv, TypeOK, Labels, SinkLabels
  <2>3. \A u \in Thread \ {t} : CallShape(u)'
    BY <1>2, <2>1, MovedOthers DEF CallExport, Began, Goto
  <2>4. pc'[t] = "init_sink" /\ call'[t].op = Some("andna_audit_export_jsonl")
    BY <1>2 DEF CallExport, Began, Goto, TypeInv, TypeOK, NoCall
  <2>5. CallShape(t)'
    BY <2>4 DEF CallShape, VerifyLabels, SinkLabels, ExportLabels
  <2>6. QED
    BY <1>2, <2>1, <2>2, <2>3, <2>5 DEF CallExport, TypeInv, TypeOK, sinkVars, moduleVars
<1>3. ASSUME NEW f \in Frame, CallVerifyFrame(t, f)  PROVE TypeInv'
  BY <1>3, GateType, SomeProperties DEF CallVerifyFrame, Ops
<1>4. ASSUME NEW op \in CryptoOps, CallCrypto(t, op)  PROVE TypeInv'
  BY <1>4, GateType DEF CallCrypto, Ops
<1>5. ASSUME NEW op \in Ops, CallBadArguments(t, op)  PROVE TypeInv'
  <2>1. /\ pc' \in [Thread -> Labels]
        /\ call' \in [Thread -> Calls]
        /\ calls' \in [Thread -> 0..MaxCalls]
        /\ \A u \in Thread : CallShape(u)'
    BY <1>5, BeginType DEF CallBadArguments, sinkVars, AndnaErr
  <2>2. QED
    BY <1>5, <2>1 DEF CallBadArguments, TypeInv, TypeOK, sinkVars, moduleVars
<1>6. QED  BY <1>1, <1>2, <1>3, <1>4, <1>5 DEF Begin

LEMMA InitStepType ==
  ASSUME TypeInv, NEW t \in Thread, InitStep(t)
  PROVE  TypeInv'
<1>1. CASE CompareExchange(t)
  <2>1. CASE state = "PRE_INIT"
    <3>1. pc' = [pc EXCEPT ![t] = Tests[FirstTest]] /\ call' = call
      BY <1>1, <2>1 DEF CompareExchange, TakesInit, LosesWith, Goto
    <3>2. Tests[FirstTest] \in Labels
                \ (VerifyLabels \cup SinkLabels \cup ExportLabels \cup {"compute"})
      BY TestFacts DEF Labels, InitLabels, VerifyLabels, SinkLabels, ExportLabels
    <3>3. \A u \in Thread : CallShape(u)'
      BY <1>1, <3>1, <3>2
      DEF CompareExchange, TakesInit, LosesWith, sinkVars, TypeInv, TypeOK, CallShape, VerifyLabels, SinkLabels, ExportLabels
    <3>4. TypeOK'
      BY <1>1, <2>1, <3>1, <3>2 DEF CompareExchange, TakesInit, LosesWith, sinkVars, TypeInv, TypeOK, ModuleState
    <3>5. QED  BY <3>3, <3>4 DEF TypeInv
  <2>2. CASE state # "PRE_INIT"
    <3>1. PICK code \in AndnaErr : Return(t, code)
      BY <1>1, <2>2 DEF CompareExchange, TakesInit, LosesWith, AndnaErr
    <3>2. /\ pc' \in [Thread -> Labels]
          /\ call' \in [Thread -> Calls]
          /\ \A u \in Thread : CallShape(u)'
      BY <1>1, <3>1, ReturnType DEF CompareExchange, TakesInit, LosesWith, sinkVars
    <3>3. QED
      BY <1>1, <2>2, <3>2 DEF CompareExchange, TakesInit, LosesWith, sinkVars, TypeInv, TypeOK, ModuleState
  <2>3. QED  BY <2>1, <2>2
<1>2. CASE StoreApproved(t)
  <2>1. /\ pc' \in [Thread -> Labels]
        /\ call' \in [Thread -> Calls]
        /\ \A u \in Thread : CallShape(u)'
    BY <1>2, ReturnType DEF StoreApproved, sinkVars, AndnaErr
  <2>2. QED
    BY <1>2, <2>1 DEF StoreApproved, sinkVars, TypeInv, TypeOK, ModuleState
<1>3. ASSUME NEW k \in 1..4, PassTest(t, k)  PROVE TypeInv'
  <2> DEFINE label == IF k < 4 THEN Tests[k+1] ELSE "store_approved"
  <2>1. label \in TestNames \cup {"store_approved"} /\ pc' = [pc EXCEPT ![t] = label]
    BY <1>3 DEF PassTest, Goto, TestNames
  <2> HIDE DEF label
  <2>2. label \in Labels \ (VerifyLabels \cup SinkLabels \cup ExportLabels \cup {"compute"})
    BY <2>1, TestFacts DEF Labels, InitLabels, VerifyLabels, SinkLabels, ExportLabels
  <2>3. \A u \in Thread : CallShape(u)'
    BY <1>3, <2>1, <2>2
    DEF PassTest, sinkVars, TypeInv, TypeOK, CallShape, VerifyLabels, SinkLabels, ExportLabels
  <2>4. passed' \subseteq TestNames
    BY <1>3 DEF PassTest, TypeInv, TypeOK, TestNames
  <2>5. QED
    BY <1>3, <2>1, <2>2, <2>3, <2>4 DEF PassTest, sinkVars, TypeInv, TypeOK
<1>4. ASSUME NEW k \in 1..4, FailTest(t, k)  PROVE TypeInv'
  <2>1. /\ pc' \in [Thread -> Labels]
        /\ call' \in [Thread -> Calls]
        /\ \A u \in Thread : CallShape(u)'
    BY <1>4, ReturnType DEF FailTest, sinkVars, AndnaErr
  <2>2. QED
    BY <1>4, <2>1 DEF FailTest, sinkVars, TypeInv, TypeOK, ModuleState
<1>5. QED  BY <1>1, <1>2, <1>3, <1>4 DEF InitStep

\* A call that answers keeps the count of the answers.
LEMMA AnswerType ==
  ASSUME TypeInv, NEW t \in Thread, NEW code \in AndnaErr, Answer(t, code),
         pc[t] \in VerifyLabels \cup SinkLabels,
         pc[t] \in SinkLabels => call[t].op = Some("andna_verify_frame_v2")
  PROVE  answered' \in [Frame \X AndnaErr -> Nat]
<1> DEFINE v == <<call[t].frame[1], code>>
<1>1. call[t].frame # None /\ call[t].frame \in {None} \cup {Some(f) : f \in Frame}
  BY SomeProperties DEF TypeInv, TypeOK, CallShape, VerifyLabels, SinkLabels, Calls
<1>2. v \in Frame \X AndnaErr
  BY <1>1, SomeProperties
<1>3. answered \in [Frame \X AndnaErr -> Nat] /\ answered' = [answered EXCEPT ![v] = @ + 1]
  BY DEF TypeInv, TypeOK, Answer
<1> HIDE DEF v
<1>4. answered[v] + 1 \in Nat
  BY <1>2, <1>3
<1>5. QED  BY <1>3, <1>4

LEMMA VerifyStepType ==
  ASSUME TypeInv, NEW t \in Thread, VerifyStep(t)
  PROVE  TypeInv'
<1>1. CASE Compute(t)
  <2>1. PICK op \in CryptoOps : call[t].op = Some(op)
    BY <1>1 DEF Compute, TypeInv, CallShape
  <2>2. CryptoCodes[call[t].op[1]] \subseteq AndnaErr
    BY <2>1, SomeProperties, OpsAssumption DEF CryptoCodes, AndnaErr
  <2>3. PICK code \in AndnaErr : Return(t, code)
    BY <1>1, <2>2 DEF Compute
  <2>4. /\ pc' \in [Thread -> Labels]
        /\ call' \in [Thread -> Calls]
        /\ \A u \in Thread : CallShape(u)'
    BY <1>1, <2>3, ReturnType DEF Compute, sinkVars
  <2>5. QED
    BY <1>1, <2>4 DEF Compute, sinkVars, moduleVars, TypeInv, TypeOK
<1>2. CASE VerifyPanics(t)
  <2>1. /\ pc' \in [Thread -> Labels]
        /\ call' \in [Thread -> Calls]
        /\ \A u \in Thread : CallShape(u)'
    BY <1>2, ReturnType DEF VerifyPanics, AndnaErr
  <2>2. answered' \in [Frame \X AndnaErr -> Nat]
    BY <1>2, AnswerType DEF VerifyPanics, VerifyLabels, SinkLabels, AndnaErr
  <2>3. QED
    BY <1>2, <2>1, <2>2 DEF VerifyPanics, moduleVars, TypeInv, TypeOK
<1>3. CASE VerifyFrame(t)
  <2>1. /\ call[t].op = Some("andna_verify_frame_v2") /\ call[t].frame # None
        /\ call[t].frame \in {Some(f) : f \in Frame}
    BY <1>3 DEF VerifyFrame, TypeInv, TypeOK, CallShape, VerifyLabels, Calls
  <2>2. call[t].frame[1] \in Frame
    BY <2>1, SomeProperties
  <2>3. PICK code \in AndnaErr : call' = [call EXCEPT ![t].code = code]
    BY <1>3, <2>2, VerdictAssumption DEF VerifyFrame, AndnaErr
  <2>4. call' \in [Thread -> Calls] /\ pc' \in [Thread -> Labels]
    <3>1. call \in [Thread -> Calls] /\ [call[t] EXCEPT !.code = code] \in Calls
      BY <2>3 DEF TypeInv, TypeOK, Calls
    <3>2. pc' \in [Thread -> Labels]
      BY <1>3 DEF VerifyFrame, Goto, TypeInv, TypeOK, Labels, SinkLabels
    <3> QED  BY <2>3, <3>1, <3>2
  <2>5. \A u \in Thread \ {t} : CallShape(u)'
    BY <1>3, <2>3, MovedOthers DEF VerifyFrame, Goto, sinkVars
  <2>6. /\ pc'[t] = "init_sink"
        /\ call'[t].op = call[t].op /\ call'[t].frame = call[t].frame
    BY <1>3, <2>3 DEF VerifyFrame, Goto, TypeInv, TypeOK, Calls
  <2>7. CallShape(t)'
    BY <2>1, <2>6 DEF CallShape, VerifyLabels, SinkLabels, ExportLabels
  <2>8. QED
    BY <1>3, <2>4, <2>5, <2>7 DEF VerifyFrame, sinkVars, moduleVars, TypeInv, TypeOK
<1>4. QED  BY <1>1, <1>2, <1>3 DEF VerifyStep

\* What a thread hands to the sink.
LEMMA VerifyEventType ==
  ASSUME TypeInv, NEW t \in Thread, NEW now \in Time, pc[t] = "append"
  PROVE  VerifyEvent(t, now) \in VerifyEventInput
<1>1. call[t].frame # None /\ call[t] \in Calls
  BY DEF TypeInv, TypeOK, CallShape, VerifyLabels
<1>2. QED
  BY <1>1 DEF VerifyEvent, VerifyEventInput, Calls

LEMMA SinkType ==
  ASSUME TypeInv, sink # None
  PROVE  /\ sink[1] \in AuditSinkState
         /\ sink[1].records \in Seq(AuditRecord)
BY DEF TypeInv, TypeOK, AuditSinkState

LEMMA SinkStepType ==
  ASSUME TypeInv, NEW t \in Thread, SinkStep(t)
  PROVE  TypeInv'
<1>1. CASE InitSinkIfNeeded(t)
  <2> DEFINE opened == InitSink(restarts, file)
  <2>1. opened \in AuditSinkState /\ Len(opened.records) \in Nat
    <3>1. restarts \in Nat /\ file \in AuditFile
      BY BoundAssumption DEF TypeInv, TypeOK
    <3>2. opened \in AuditSinkState
      BY <3>1, InitSinkType
    <3>3. QED  BY <3>2, LenProperties DEF AuditSinkState
  <2>2. /\ sink' # None /\ sink' = Some(sink'[1]) /\ sink'[1] \in AuditSinkState
        /\ base' \in Nat
    <3> HIDE DEF opened
    <3>1. CASE sink = None
      BY <1>1, <2>1, <3>1, SomeProperties DEF InitSinkIfNeeded, opened
    <3>2. CASE sink # None
      BY <1>1, <3>2 DEF InitSinkIfNeeded, TypeInv, TypeOK
    <3>3. QED  BY <3>1, <3>2
  <2>3. pc' = [pc EXCEPT ![t] = "lock"] /\ call' = call
    BY <1>1 DEF InitSinkIfNeeded, Goto
  <2>4. pc' \in [Thread -> Labels]
    BY <2>3 DEF TypeInv, TypeOK, Labels, SinkLabels
  <2>5. \A u \in Thread : CallShape(u)'
    BY <1>1, <2>2, <2>3
    DEF InitSinkIfNeeded, CallShape, TypeInv, TypeOK, VerifyLabels, SinkLabels, ExportLabels
  <2>6. QED
    BY <1>1, <2>2, <2>3, <2>4, <2>5 DEF InitSinkIfNeeded, moduleVars, TypeInv, TypeOK
<1>2. CASE Lock(t)
  <2>1. CASE poisoned
    <3>1. /\ pc' \in [Thread -> Labels]
          /\ call' \in [Thread -> Calls]
          /\ \A u \in Thread : CallShape(u)'
      BY <1>2, <2>1, ReturnType DEF Lock, MutexFree, PoisonedCode, AndnaErr
    <3>2. answered' \in [Frame \X AndnaErr -> Nat]
      <4>1. CASE call[t].op = Some("andna_verify_frame_v2")
        BY <1>2, <2>1, <4>1, AnswerType DEF Lock, MutexFree, PoisonedCode, SinkLabels, AndnaErr
      <4>2. CASE call[t].op # Some("andna_verify_frame_v2")
        BY <1>2, <2>1, <4>2 DEF Lock, MutexFree, PoisonedCode, TypeInv, TypeOK
      <4>3. QED  BY <4>1, <4>2
    <3>3. QED
      BY <1>2, <2>1, <3>1, <3>2 DEF Lock, MutexFree, PoisonedCode, moduleVars, TypeInv, TypeOK
  <2>2. CASE ~poisoned
    <3>1. /\ call' = call /\ sink' = sink
          /\ \/ /\ pc' = [pc EXCEPT ![t] = "append"]
                /\ call[t].op = Some("andna_verify_frame_v2")
             \/ /\ pc' = [pc EXCEPT ![t] = "snapshot"]
                /\ call[t].op # Some("andna_verify_frame_v2")
      BY <1>2, <2>2 DEF Lock, MutexFree, PoisonedCode, Goto
    <3>2. pc' \in [Thread -> Labels]
      BY <3>1 DEF TypeInv, TypeOK, Labels, VerifyLabels, ExportLabels
    <3>3. /\ sink # None
          /\ call[t].op = Some("andna_verify_frame_v2") => call[t].frame # None
      BY <1>2, SomeProperties DEF Lock, MutexFree, PoisonedCode, TypeInv, CallShape, SinkLabels
    <3>4. \A u \in Thread : CallShape(u)'
      BY <3>1, <3>3
      DEF CallShape, TypeInv, TypeOK, VerifyLabels, SinkLabels, ExportLabels
    <3>5. QED
      BY <1>2, <2>2, <3>1, <3>2, <3>4 DEF Lock, MutexFree, PoisonedCode, moduleVars, TypeInv, TypeOK
  <2>3. QED  BY <2>1, <2>2
<1>3. CASE MakeRecord(t)
  <2>1. PICK now \in Time :
          call' = [call EXCEPT ![t].rec = Some(NextRecord(sink[1], VerifyEvent(t, now)))]
    BY <1>3 DEF MakeRecord
  <2>2. sink # None /\ pc[t] = "append"
    BY <1>3 DEF MakeRecord, TypeInv, CallShape
  <2> DEFINE rec == NextRecord(sink[1], VerifyEvent(t, now))
  <2>3. rec \in AuditRecord
    BY <2>2, SinkType, VerifyEventType, NextRecordType
  <2> HIDE DEF rec
  <2>4. call' = [call EXCEPT ![t].rec = Some(rec)] /\ pc' = [pc EXCEPT ![t] = "push"]
    BY <1>3, <2>1 DEF MakeRecord, Goto, rec
  <2>5. Some(rec) \in Seq(AuditRecord)
    BY <2>3, EmptySeq DEF Some
  <2>6. call' \in [Thread -> Calls] /\ pc' \in [Thread -> Labels]
    BY <2>4, <2>5 DEF TypeInv, TypeOK, Calls, Labels, VerifyLabels
  <2>7. /\ call'[t].op = call[t].op /\ call'[t].frame = call[t].frame
        /\ call'[t].rec = Some(rec) /\ pc'[t] = "push"
    BY <2>4 DEF TypeInv, TypeOK, Calls
  <2>8. CallShape(t)'
    BY <1>3, <2>2, <2>3, <2>7
    DEF MakeRecord, sinkVars, CallShape, TypeInv, VerifyLabels, SinkLabels, ExportLabels
  <2>9. \A u \in Thread \ {t} : CallShape(u)'
    BY <1>3, <2>4, MovedOthers DEF MakeRecord, sinkVars
  <2>10. QED
    BY <1>3, <2>6, <2>8, <2>9 DEF MakeRecord, sinkVars, moduleVars, TypeInv, TypeOK
<1>4. CASE Push(t)
  <2>1. sink # None /\ call[t].rec[1] \in AuditRecord
    BY <1>4, SomeProperties DEF Push, TypeInv, CallShape
  <2>2. PushRecord(sink[1], call[t].rec[1]) \in AuditSinkState
    BY <2>1, SinkType, PushRecordType
  <2>3. sink' # None /\ sink' = Some(sink'[1]) /\ sink'[1] \in AuditSinkState
    BY <1>4, <2>2, SomeProperties DEF Push
  <2>4. pc' = [pc EXCEPT ![t] = "unlock"] /\ call' = call
    BY <1>4 DEF Push, Goto
  <2>5. pc' \in [Thread -> Labels]
    BY <2>4 DEF TypeInv, TypeOK, Labels, VerifyLabels
  <2>6. \A u \in Thread : CallShape(u)'
    BY <1>4, <2>3, <2>4
    DEF Push, CallShape, TypeInv, TypeOK, VerifyLabels, SinkLabels, ExportLabels
  <2>7. QED
    BY <1>4, <2>3, <2>4, <2>5, <2>6 DEF Push, moduleVars, TypeInv, TypeOK
<1>5. CASE PushPanics(t)
  <2>1. sink # None /\ call[t].rec[1] \in AuditRecord /\ sink[1] \in AuditSinkState
    BY <1>5, SomeProperties, SinkType DEF PushPanics, TypeInv, CallShape
  <2>2. [sink[1] EXCEPT !.last_hash = call[t].rec[1].record_hash] \in AuditSinkState
    BY <2>1 DEF AuditSinkState, AuditRecord
  <2>3. sink' # None /\ sink' = Some(sink'[1]) /\ sink'[1] \in AuditSinkState
    BY <1>5, <2>2, SomeProperties DEF PushPanics
  <2>4. /\ pc' \in [Thread -> Labels]
        /\ call' \in [Thread -> Calls]
        /\ \A u \in Thread : CallShape(u)'
    BY <1>5, <2>3, ReturnType DEF PushPanics, AndnaErr
  <2>5. answered' \in [Frame \X AndnaErr -> Nat]
    BY <1>5, AnswerType DEF PushPanics, VerifyLabels, SinkLabels, AndnaErr
  <2>6. QED
    BY <1>5, <2>3, <2>4, <2>5 DEF PushPanics, moduleVars, TypeInv, TypeOK
<1>6. CASE Unlock(t)
  <2>1. call[t].code \in AndnaErr
    BY DEF TypeInv, TypeOK, Calls
  <2>2. /\ pc' \in [Thread -> Labels]
        /\ call' \in [Thread -> Calls]
        /\ \A u \in Thread : CallShape(u)'
    BY <1>6, <2>1, ReturnType DEF Unlock
  <2>3. answered' \in [Frame \X AndnaErr -> Nat]
    BY <1>6, <2>1, AnswerType DEF Unlock, VerifyLabels, SinkLabels
  <2>4. QED
    BY <1>6, <2>2, <2>3 DEF Unlock, moduleVars, TypeInv, TypeOK
<1>7. CASE Snapshot(t)
  <2>1. sink # None /\ sink[1].records \in Seq(AuditRecord)
    BY <1>7, SinkType DEF Snapshot, TypeInv, CallShape, ExportLabels
  <2>2. /\ call' = [call EXCEPT ![t].snap = sink[1].records]
        /\ pc' = [pc EXCEPT ![t] = "create_file"]
    BY <1>7 DEF Snapshot, Goto
  <2>3. call' \in [Thread -> Calls] /\ pc' \in [Thread -> Labels]
    BY <2>1, <2>2 DEF TypeInv, TypeOK, Calls, Labels, ExportLabels
  <2>4. \A u \in Thread \ {t} : CallShape(u)'
    BY <1>7, <2>2, MovedOthers DEF Snapshot
  <2>5. CallShape(t)'
    BY <1>7, <2>1, <2>2
    DEF Snapshot, CallShape, TypeInv, TypeOK, VerifyLabels, SinkLabels, ExportLabels
  <2>6. QED
    BY <1>7, <2>3, <2>4, <2>5 DEF Snapshot, moduleVars, TypeInv, TypeOK
<1>8. QED
  BY <1>1, <1>2, <1>3, <1>4, <1>5, <1>6, <1>7 DEF SinkStep

LEMMA FileStepType ==
  ASSUME TypeInv, NEW t \in Thread, FileStep(t)
  PROVE  TypeInv'
<1>1. CASE CreateFile(t)
  <2>1. file' \in AuditFile
    BY <1>1, EmptySeq DEF CreateFile, FileOf, AuditFile
  <2>2. pc' = [pc EXCEPT ![t] = "write_file"] /\ call' = call
    BY <1>1 DEF CreateFile, Goto
  <2>3. pc' \in [Thread -> Labels]
    BY <2>2 DEF TypeInv, TypeOK, Labels, ExportLabels
  <2>4. \A u \in Thread : CallShape(u)'
    BY <1>1, <2>2
    DEF CreateFile, sinkVars, CallShape, TypeInv, TypeOK, VerifyLabels, SinkLabels, ExportLabels
  <2>5. QED
    BY <1>1, <2>1, <2>2, <2>3, <2>4 DEF CreateFile, sinkVars, moduleVars, TypeInv, TypeOK
<1>2. ASSUME NEW code \in AndnaErr, Return(t, code), file' \in AuditFile,
             UNCHANGED <<moduleVars, sinkVars, calls, restarts>>
      PROVE TypeInv'
  <2>1. /\ pc' \in [Thread -> Labels]
        /\ call' \in [Thread -> Calls]
        /\ \A u \in Thread : CallShape(u)'
    BY <1>2, ReturnType DEF sinkVars
  <2>2. QED
    BY <1>2, <2>1 DEF sinkVars, moduleVars, TypeInv, TypeOK
<1>3. file \in AuditFile /\ call[t].snap \in Seq(AuditRecord)
  BY DEF TypeInv, TypeOK, Calls
<1>4. CASE CreateFileFails(t)
  BY <1>2, <1>3, <1>4 DEF CreateFileFails, AndnaErr
<1>5. CASE WriteFile(t)
  <2>1. file' \in AuditFile
    BY <1>3, <1>5 DEF WriteFile, Overwrite, FileOf, AuditFile
  <2>2. QED  BY <1>2, <1>5, <2>1 DEF WriteFile, AndnaErr
<1>6. CASE WriteFileFails(t)
  <2>1. file' \in AuditFile
    BY <1>3, <1>6, PartialFileFacts DEF WriteFileFails, Overwrite
  <2>2. QED  BY <1>2, <1>6, <2>1 DEF WriteFileFails, AndnaErr
<1>7. QED  BY <1>1, <1>4, <1>5, <1>6 DEF FileStep

LEMMA RestartType ==
  ASSUME TypeInv, Restart
  PROVE  TypeInv'
<1>1. file' \in AuditFile
  <2>1. ASSUME NEW t \in Thread, NEW part \in PartialFiles(call[t].snap),
               file' = Overwrite(part, file)
        PROVE file' \in AuditFile
    BY <2>1, PartialFileFacts DEF TypeInv, TypeOK, Calls, Overwrite
  <2>2. QED  BY <2>1 DEF Restart, TypeInv, TypeOK
<1>2. NoCall \in Calls
  BY EmptySeq DEF NoCall, Calls, AndnaErr, None
<1>3. /\ pc' \in [Thread -> Labels] /\ call' \in [Thread -> Calls]
      /\ calls' \in [Thread -> 0..MaxCalls] /\ restarts' \in 0..MaxRestarts
  BY <1>2, BoundAssumption DEF Restart, TypeInv, TypeOK, Labels
<1>4. /\ answered' \in [Frame \X AndnaErr -> Nat]
      /\ seen' \in [Thread -> ModuleState] /\ state' \in ModuleState
  BY DEF Restart, ModuleState
<1>5. TypeOK'
  BY <1>1, <1>3, <1>4 DEF Restart, TypeOK
<1>6. \A u \in Thread : CallShape(u)'
  BY DEF Restart, CallShape, VerifyLabels, SinkLabels, ExportLabels
<1>7. QED  BY <1>5, <1>6 DEF TypeInv

LEMMA TypeStep == TypeInv /\ [Next]_vars => TypeInv'
<1> SUFFICES ASSUME TypeInv, [Next]_vars  PROVE TypeInv'
  OBVIOUS
<1>1. CASE Restart
  BY <1>1, RestartType
<1>2. ASSUME NEW t \in Thread, Begin(t) \/ Step(t)  PROVE TypeInv'
  BY <1>2, BeginStepType, InitStepType, VerifyStepType, SinkStepType, FileStepType DEF Step
<1>3. CASE UNCHANGED vars
  BY <1>3 DEF vars, TypeInv, TypeOK, CallShape
<1>4. QED  BY <1>1, <1>2, <1>3 DEF Next

\* Every variable keeps its type, and every call has the shape its label needs.
THEOREM TypeCorrect == Spec => []TypeOK
<1>1. TypeInv => TypeOK
  BY DEF TypeInv
<1>2. QED  BY <1>1, TypeInit, TypeStep, PTL DEF Spec

-----------------------------------------------------------------------------
(* First parts of lists of records.                                          *)

LEMMA PrefixFacts ==
  ASSUME NEW rs \in Seq(AuditRecord)
  PROVE  /\ Len(rs) \in Nat
         /\ IsPrefixOf(<<>>, rs) /\ IsPrefixOf(rs, rs)
         /\ \A a, b : IsPrefixOf(a, b) /\ IsPrefixOf(b, rs) /\ Len(a) \in Nat /\ Len(b) \in Nat
                        => IsPrefixOf(a, rs)
         /\ \A a : \A r \in AuditRecord :
              IsPrefixOf(a, rs) /\ Len(a) \in Nat => IsPrefixOf(a, Append(rs, r))
<1>1. Len(rs) \in Nat
  BY LenProperties
<1>2. IsPrefixOf(<<>>, rs) /\ IsPrefixOf(rs, rs)
  BY <1>1, EmptySeq DEF IsPrefixOf
<1>3. ASSUME NEW a, NEW b, IsPrefixOf(a, b), IsPrefixOf(b, rs), Len(a) \in Nat, Len(b) \in Nat
      PROVE  IsPrefixOf(a, rs)
  BY <1>1, <1>3 DEF IsPrefixOf
<1>4. ASSUME NEW a, NEW r \in AuditRecord, IsPrefixOf(a, rs), Len(a) \in Nat
      PROVE  IsPrefixOf(a, Append(rs, r))
  <2>1. /\ Len(Append(rs, r)) = Len(rs) + 1
        /\ \A i \in 1..Len(rs) : Append(rs, r)[i] = rs[i]
    BY AppendProperties
  <2> QED  BY <1>1, <1>4, <2>1 DEF IsPrefixOf
<1> QED  BY <1>1, <1>2, <1>3, <1>4

-----------------------------------------------------------------------------
(* The log.                                                                  *)

Holding == {"append", "push", "unlock", "snapshot"}
Writing == {"create_file", "write_file"}

\* Thread t verifies, and has its verdict.
Judged(t) ==
  \/ pc[t] \in {"append", "push", "unlock"}
  \/ pc[t] \in SinkLabels /\ call[t].op = Some("andna_verify_frame_v2")

\* The mutex is its holder's, and a panic has not poisoned it; the record about
\* to be pushed is the sink's next, of the frame and the verdict of the call;
\* what is about to be written is a part of the log.
CallLog(t) ==
  /\ pc[t] \in Holding => owner = t /\ ~poisoned
  /\ pc[t] = "push" =>
       /\ Fits(sink[1], call[t].rec[1])
       /\ call[t].rec[1].content.frame_hash = Sha3(call[t].frame[1])
       /\ call[t].rec[1].content.err_code = call[t].code
  /\ pc[t] \in Writing => IsPrefixOf(call[t].snap, Log)
  /\ Judged(t) => call[t].code \in {Verdict[call[t].frame[1]], "Internal"}

LogInv ==
  /\ LogStaysValid
  /\ Chained(file.recs)
  /\ FileFollowsLog
  /\ \A t \in Thread : CallLog(t)

LEMMA LogInit == Init => LogInv
<1> SUFFICES ASSUME Init  PROVE LogInv
  OBVIOUS
<1>1. Chained(file.recs)
  BY EmptySeq DEF Init, NoFile, Chained
<1>2. LogStaysValid /\ FileFollowsLog
  BY DEF Init, LogStaysValid, FileFollowsLog
<1>3. \A t \in Thread : CallLog(t)
  BY DEF Init, CallLog, Holding, Writing, Judged, SinkLabels
<1> QED  BY <1>1, <1>2, <1>3 DEF LogInv

LEMMA LogTyped ==
  ASSUME TypeInv
  PROVE  Log \in Seq(AuditRecord) /\ Len(Log) \in Nat /\ Len(file.recs) \in Nat
<1>1. Log \in Seq(AuditRecord)
  BY EmptySeq, SinkType DEF Log
<1>2. file.recs \in Seq(AuditRecord)
  BY DEF TypeInv, TypeOK, AuditFile
<1> QED  BY <1>1, <1>2, LenProperties

\* A step of t that leaves the sink and the file alone, and takes the mutex only
\* when it is free.
LEMMA BesideLog ==
  ASSUME LogInv, NEW t \in Thread,
         UNCHANGED <<sink, file, poisoned>>,
         owner' = owner \/ owner \in {t, NoThread},
         \A u \in Thread \ {t} : pc'[u] = pc[u] /\ call'[u] = call[u],
         pc'[t] # "write_file",
         CallLog(t)'
  PROVE  LogInv'
<1>1. Log' = Log
  BY DEF Log
<1>2. \A u \in Thread \ {t} : CallLog(u)'
  <2> SUFFICES ASSUME NEW u \in Thread \ {t} PROVE CallLog(u)'
    OBVIOUS
  <2>1. CallLog(u) /\ (Judged(u)' => Judged(u))
    BY DEF LogInv, Judged
  <2>2. pc[u] \in Holding => owner' = u
    BY <2>1, NoThreadAssumption DEF CallLog
  <2> QED  BY <1>1, <2>1, <2>2 DEF CallLog
<1>3. FileFollowsLog'
  BY <1>1, <1>2 DEF LogInv, FileFollowsLog, CallLog, Writing
<1>4. LogStaysValid' /\ Chained(file.recs)'
  BY DEF LogInv, LogStaysValid
<1> QED  BY <1>2, <1>3, <1>4 DEF LogInv

\* A thread outside the labels the log speaks of.
LEMMA IdleLog ==
  ASSUME NEW t \in Thread,
         pc'[t] \notin Holding \cup Writing,
         pc'[t] \in SinkLabels => call'[t].op # Some("andna_verify_frame_v2")
  PROVE  CallLog(t)'
BY DEF CallLog, Judged, Holding, Writing

LEMMA ReturnLog ==
  ASSUME TypeInv, LogInv, NEW t \in Thread, NEW code, Return(t, code),
         UNCHANGED <<sink, file, poisoned>>,
         owner' = owner \/ owner \in {t, NoThread}
  PROVE  LogInv'
<1>1. /\ pc'[t] = "idle"
      /\ \A u \in Thread \ {t} : pc'[u] = pc[u] /\ call'[u] = call[u]
  BY DEF Return, Goto, TypeInv, TypeOK
<1>2. CallLog(t)'
  BY <1>1, IdleLog DEF Holding, Writing, SinkLabels
<1> QED  BY <1>1, <1>2, BesideLog

LEMMA BeginLog ==
  ASSUME TypeInv, LogInv, NEW t \in Thread, Begin(t)
  PROVE  LogInv'
<1>1. UNCHANGED <<sink, file, owner, poisoned>>
  BY DEF Begin, CallInit, CallExport, CallVerifyFrame, CallCrypto, CallBadArguments, Gate, sinkVars
<1>2. /\ \A u \in Thread \ {t} : pc'[u] = pc[u] /\ call'[u] = call[u]
      /\ \/ pc'[t] \in {"idle", "compare_exchange", "compute", "verify"}
         \/ pc'[t] = "init_sink" /\ call'[t].op = Some("andna_audit_export_jsonl")
  <2>1. ASSUME NEW op, NEW code, BeganAndReturned(t, op, code), MayCall(t)
        PROVE  /\ \A u \in Thread \ {t} : pc'[u] = pc[u] /\ call'[u] = call[u]
               /\ pc'[t] = "idle"
    BY <2>1 DEF BeganAndReturned, MayCall, TypeInv, TypeOK
  <2>2. ASSUME NEW op, NEW frame, NEW label, Began(t, op, frame), Goto(t, label)
        PROVE  /\ \A u \in Thread \ {t} : pc'[u] = pc[u] /\ call'[u] = call[u]
               /\ pc'[t] = label /\ call'[t].op = Some(op)
    <3>1. call'[t] = [NoCall EXCEPT !.op = Some(op), !.frame = frame]
      BY <2>2 DEF Began, TypeInv, TypeOK
    <3> QED  BY <2>2, <3>1 DEF Began, Goto, TypeInv, TypeOK, NoCall
  <2>3. CASE CallInit(t)
    BY <2>1, <2>2, <2>3 DEF CallInit
  <2>4. CASE CallExport(t)
    BY <2>2, <2>4 DEF CallExport
  <2>5. ASSUME NEW f \in Frame, CallVerifyFrame(t, f)
        PROVE  /\ \A u \in Thread \ {t} : pc'[u] = pc[u] /\ call'[u] = call[u]
               /\ pc'[t] \in {"idle", "verify"}
    BY <2>1, <2>2, <2>5 DEF CallVerifyFrame, Gate
  <2>6. ASSUME NEW op \in CryptoOps, CallCrypto(t, op)
        PROVE  /\ \A u \in Thread \ {t} : pc'[u] = pc[u] /\ call'[u] = call[u]
               /\ pc'[t] \in {"idle", "compute"}
    BY <2>1, <2>2, <2>6 DEF CallCrypto, Gate
  <2>7. ASSUME NEW op \in Ops, CallBadArguments(t, op)
        PROVE  /\ \A u \in Thread \ {t} : pc'[u] = pc[u] /\ call'[u] = call[u]
               /\ pc'[t] = "idle"
    BY <2>1, <2>7 DEF CallBadArguments
  <2> QED  BY <2>3, <2>4, <2>5, <2>6, <2>7 DEF Begin
<1>3. Some("andna_audit_export_jsonl") # Some("andna_verify_frame_v2")
  BY SomeProperties
<1>4. CallLog(t)'
  BY <1>2, <1>3, IdleLog DEF Holding, Writing, SinkLabels
<1> QED  BY <1>1, <1>2, <1>4, BesideLog

LEMMA InitStepLog ==
  ASSUME TypeInv, LogInv, NEW t \in Thread, InitStep(t)
  PROVE  LogInv'
<1>1. UNCHANGED <<sink, file, owner, poisoned>>
  BY DEF InitStep, CompareExchange, StoreApproved, PassTest, FailTest, sinkVars
<1>2. CASE \E code : Return(t, code)
  BY <1>1, <1>2, ReturnLog
<1>3. ASSUME NEW label \in TestNames \cup {"store_approved"}, Goto(t, label), call' = call
      PROVE  LogInv'
  <2>1. /\ \A u \in Thread \ {t} : pc'[u] = pc[u] /\ call'[u] = call[u]
        /\ pc'[t] = label
    BY <1>3 DEF Goto, TypeInv, TypeOK
  <2>2. label \notin Holding \cup Writing \cup SinkLabels
    BY TestFacts DEF Holding, Writing, SinkLabels
  <2> QED  BY <1>1, <2>1, <2>2, BesideLog, IdleLog DEF Writing
<1>4. \A k \in 1..4 : Tests[k] \in TestNames
  BY DEF TestNames
<1>5. CASE CompareExchange(t)
  BY <1>2, <1>3, <1>4, <1>5, TestFacts DEF CompareExchange
<1>6. CASE StoreApproved(t)
  BY <1>2, <1>6 DEF StoreApproved
<1>7. ASSUME NEW k \in 1..4, PassTest(t, k)  PROVE LogInv'
  <2>1. k < 4 => k + 1 \in 1..4
    OBVIOUS
  <2> QED  BY <1>3, <1>4, <1>7, <2>1 DEF PassTest
<1>8. ASSUME NEW k \in 1..4, FailTest(t, k)  PROVE LogInv'
  BY <1>2, <1>8 DEF FailTest
<1> QED  BY <1>5, <1>6, <1>7, <1>8 DEF InitStep

LEMMA VerifyStepLog ==
  ASSUME TypeInv, LogInv, NEW t \in Thread, VerifyStep(t)
  PROVE  LogInv'
<1>1. CASE Compute(t) \/ VerifyPanics(t)
  BY <1>1, ReturnLog DEF Compute, VerifyPanics, sinkVars
<1>2. CASE VerifyFrame(t)
  <2>1. PICK code \in {Verdict[call[t].frame[1]], "Internal"} :
          call' = [call EXCEPT ![t].code = code]
    BY <1>2 DEF VerifyFrame
  <2>2. /\ \A u \in Thread \ {t} : pc'[u] = pc[u] /\ call'[u] = call[u]
        /\ pc'[t] = "init_sink"
        /\ call'[t].code = code /\ call'[t].frame = call[t].frame
    BY <1>2, <2>1 DEF VerifyFrame, Goto, TypeInv, TypeOK, Calls
  <2>3. CallLog(t)'
    BY <2>1, <2>2 DEF CallLog, Holding, Writing
  <2> QED  BY <1>2, <2>2, <2>3, BesideLog DEF VerifyFrame, sinkVars
<1> QED  BY <1>1, <1>2 DEF VerifyStep

\* What a sink is opened with is the file's own lines, unless the last is cut.
LEMMA OpenedFollows ==
  ASSUME NEW run \in Nat, NEW f \in AuditFile
  PROVE  f.torn \/ InitSink(run, f).records = f.recs
<1>1. InitSink(run, f).records = <<>> \/ InitSink(run, f).records = f.recs
  <2>1. CASE InitSink(run, f) = NewSink(run)
    BY <2>1 DEF NewSink
  <2>2. CASE InitSink(run, f) # NewSink(run)
    BY <2>2, InitSinkCases
  <2> QED  BY <2>1, <2>2
<1>2. CASE ~f.torn /\ f.recs = <<>>
  BY <1>1, <1>2
<1>3. CASE ~f.torn /\ f.recs # <<>>
  BY <1>3, SomeProperties DEF InitSink, ParseJsonl
<1> QED  BY <1>2, <1>3

LEMMA InitSinkLog ==
  ASSUME TypeInv, LogInv, NEW t \in Thread, InitSinkIfNeeded(t)
  PROVE  LogInv'
<1>1. /\ call' = call /\ UNCHANGED <<file, owner, poisoned>>
      /\ pc[t] = "init_sink" /\ pc' = [pc EXCEPT ![t] = "lock"]
  BY DEF InitSinkIfNeeded, Goto
<1>2. pc \in [Thread -> Labels] /\ restarts \in Nat /\ file \in AuditFile
  BY BoundAssumption DEF TypeInv, TypeOK
<1>3. CASE sink # None
  <2>1. sink' = sink /\ \A u \in Thread \ {t} : pc'[u] = pc[u]
    BY <1>1, <1>2, <1>3 DEF InitSinkIfNeeded
  <2>2. CallLog(t)'
    BY <1>1, <1>2 DEF LogInv, CallLog, Judged, Holding, Writing, SinkLabels
  <2> QED  BY <1>1, <1>2, <2>1, <2>2, BesideLog
<1>4. CASE sink = None
  <2> DEFINE opened == InitSink(restarts, file)
  <2>1. GoodSink(opened) /\ (file.torn \/ opened.records = file.recs)
    BY <1>2, InitSinkGood, OpenedFollows DEF LogInv
  <2> HIDE DEF opened
  <2>2. sink' = Some(opened)
    BY <1>4 DEF InitSinkIfNeeded, opened
  <2>3. sink'[1] = opened /\ sink' # None
    BY <2>2, SomeProperties
  <2>4. Log' = opened.records
    BY <2>3 DEF Log
  <2>5. \A u \in Thread : pc'[u] \notin Holding \cup Writing
    BY <1>1, <1>2, <1>4 DEF TypeInv, CallShape, ExportLabels, Holding, Writing
  <2>6. \A u \in Thread : CallLog(u)'
    BY <1>1, <1>2, <2>5 DEF LogInv, CallLog, Judged, Holding, Writing, SinkLabels
  <2>7. Chained(opened.records) /\ LogStaysValid'
    BY <2>1, <2>3 DEF LogStaysValid, GoodSink
  <2>8. FileFollowsLog'
    <3>1. file.recs \in Seq(AuditRecord)
      BY <1>2 DEF AuditFile
    <3>2. IsPrefixOf(file.recs, file.recs)
      BY <3>1, PrefixFacts
    <3> QED  BY <1>1, <2>1, <2>4, <2>5, <3>2 DEF FileFollowsLog, Writing
  <2> QED  BY <1>1, <2>6, <2>7, <2>8 DEF LogInv
<1> QED  BY <1>3, <1>4

LEMMA LockLog ==
  ASSUME TypeInv, LogInv, NEW t \in Thread, Lock(t)
  PROVE  LogInv'
<1>1. /\ owner = NoThread /\ pc[t] = "lock"
      /\ UNCHANGED <<sink, file, poisoned>>
  BY DEF Lock, MutexFree
<1>2. CASE poisoned
  BY <1>1, <1>2, ReturnLog DEF Lock
<1>3. CASE ~poisoned
  <2> DEFINE verifies == call[t].op = Some("andna_verify_frame_v2")
             label == IF verifies THEN "append" ELSE "snapshot"
  <2>1. owner' = t /\ call' = call /\ pc' = [pc EXCEPT ![t] = label]
    BY <1>3 DEF Lock, Goto
  <2>2. pc'[t] = label /\ \A u \in Thread \ {t} : pc'[u] = pc[u]
    BY <2>1 DEF TypeInv, TypeOK
  <2>3. CallLog(t)'
    BY <1>1, <1>3, <2>1, <2>2
    DEF LogInv, CallLog, Judged, Holding, Writing, SinkLabels
  <2> QED  BY <1>1, <2>1, <2>2, <2>3, BesideLog
<1> QED  BY <1>2, <1>3

LEMMA MakeRecordLog ==
  ASSUME TypeInv, LogInv, NEW t \in Thread, MakeRecord(t)
  PROVE  LogInv'
<1>1. PICK now \in Time :
        call' = [call EXCEPT ![t].rec = Some(NextRecord(sink[1], VerifyEvent(t, now)))]
  BY DEF MakeRecord
<1> DEFINE rec == NextRecord(sink[1], VerifyEvent(t, now))
<1>2. /\ pc[t] = "append" /\ sink # None /\ call[t].frame # None
      /\ UNCHANGED <<sink, file, owner, poisoned>>
  BY DEF MakeRecord, sinkVars, TypeInv, CallShape, VerifyLabels
<1>3. Fits(sink[1], rec)
  BY <1>2, SinkType, VerifyEventType, NextRecordFits
<1>4. /\ rec.content.frame_hash = Sha3(call[t].frame[1])
      /\ rec.content.err_code = call[t].code
  BY <1>2 DEF NextRecord, NextContent, VerifyEvent, FrameHash
<1> HIDE DEF rec
<1>5. /\ pc' = [pc EXCEPT ![t] = "push"]
      /\ call' = [call EXCEPT ![t].rec = Some(rec)]
  BY <1>1 DEF MakeRecord, Goto, rec
<1>6. /\ pc'[t] = "push" /\ call'[t].rec = Some(rec)
      /\ call'[t].code = call[t].code /\ call'[t].frame = call[t].frame
      /\ \A u \in Thread \ {t} : pc'[u] = pc[u] /\ call'[u] = call[u]
  BY <1>5 DEF TypeInv, TypeOK, Calls
<1>7. CallLog(t)
  BY DEF LogInv
<1>8. CallLog(t)'
  BY <1>2, <1>3, <1>4, <1>6, <1>7, SomeProperties
  DEF CallLog, Judged, Holding, Writing
<1> QED  BY <1>2, <1>6, <1>8, BesideLog

\* The holder of the mutex is alone with the sink.
LEMMA HolderAlone ==
  ASSUME LogInv, NEW t \in Thread, pc[t] \in Holding
  PROVE  /\ owner = t /\ ~poisoned
         /\ \A u \in Thread \ {t} : pc[u] \notin Holding
BY DEF LogInv, CallLog

LEMMA PushLog ==
  ASSUME TypeInv, LogInv, NEW t \in Thread, Push(t)
  PROVE  LogInv'
<1>1. /\ pc[t] = "push" /\ call' = call /\ UNCHANGED <<file, owner, poisoned>>
      /\ pc' = [pc EXCEPT ![t] = "unlock"]
      /\ sink' = Some(PushRecord(sink[1], call[t].rec[1]))
  BY DEF Push, Goto
<1> DEFINE rec == call[t].rec[1]
<1>2. /\ owner = t /\ ~poisoned
      /\ \A u \in Thread \ {t} : pc[u] \notin Holding
  BY <1>1, HolderAlone DEF Holding
<1>3. sink # None /\ sink[1] \in AuditSinkState /\ rec \in AuditRecord
  BY <1>1, SinkType, SomeProperties DEF TypeInv, CallShape
<1>4. GoodSink(PushRecord(sink[1], rec))
  BY <1>1, <1>2, <1>3, PushKeepsGood DEF LogInv, LogStaysValid, CallLog
<1>5. /\ sink' # None /\ sink'[1] = PushRecord(sink[1], rec)
      /\ Log' = Append(Log, rec)
  <2>1. sink' # None /\ sink'[1] = PushRecord(sink[1], rec)
    BY <1>1, SomeProperties
  <2>2. PushRecord(sink[1], rec).records = Append(sink[1].records, rec)
    BY DEF PushRecord
  <2> QED  BY <1>3, <2>1, <2>2 DEF Log
<1>6. \A a : IsPrefixOf(a, Log) /\ Len(a) \in Nat => IsPrefixOf(a, Log')
  BY <1>3, <1>5, LogTyped, PrefixFacts
<1>7. LogStaysValid'
  BY <1>1, <1>2, <1>4, <1>5 DEF LogStaysValid
<1>8. pc'[t] = "unlock" /\ \A u \in Thread \ {t} : pc'[u] = pc[u]
  BY <1>1 DEF TypeInv, TypeOK
<1>9. \A u \in Thread : CallLog(u)'
  <2> SUFFICES ASSUME NEW u \in Thread PROVE CallLog(u)'
    OBVIOUS
  <2>1. CallLog(u) /\ Len(call[u].snap) \in Nat
    BY LenProperties DEF LogInv, TypeInv, TypeOK, Calls
  <2>2. CASE u = t
    BY <1>1, <1>2, <1>8, <2>1, <2>2 DEF CallLog, Holding, Writing, Judged
  <2>3. CASE u # t
    BY <1>1, <1>2, <1>6, <1>8, <2>1, <2>3
    DEF CallLog, Holding, Writing, Judged
  <2> QED  BY <2>2, <2>3
<1>10. FileFollowsLog'
  BY <1>1, <1>3, <1>5, <1>6, <1>8, <1>9, LogTyped
  DEF LogInv, FileFollowsLog, CallLog, Writing
<1> QED  BY <1>1, <1>7, <1>9, <1>10 DEF LogInv

LEMMA PushPanicsLog ==
  ASSUME TypeInv, LogInv, NEW t \in Thread, PushPanics(t)
  PROVE  LogInv'
<1>1. /\ pc[t] = "push" /\ file' = file /\ poisoned'
      /\ sink' = Some([sink[1] EXCEPT !.last_hash = call[t].rec[1].record_hash])
  BY DEF PushPanics
<1>2. /\ owner = t /\ ~poisoned
      /\ \A u \in Thread \ {t} : pc[u] \notin Holding
  BY <1>1, HolderAlone DEF Holding
<1>3. sink # None /\ sink[1] \in AuditSinkState
  BY <1>1, SinkType DEF TypeInv, CallShape
<1>4. sink' # None /\ sink'[1].records = sink[1].records /\ Log' = Log
  BY <1>1, <1>3, SomeProperties DEF Log, AuditSinkState
<1>5. /\ pc'[t] = "idle"
      /\ \A u \in Thread \ {t} : pc'[u] = pc[u] /\ call'[u] = call[u]
  BY DEF PushPanics, Return, Goto, TypeInv, TypeOK
<1>6. LogStaysValid'
  BY <1>1, <1>2, <1>3, <1>4 DEF LogInv, LogStaysValid, GoodSink
<1>7. \A u \in Thread : CallLog(u)'
  <2> SUFFICES ASSUME NEW u \in Thread PROVE CallLog(u)'
    OBVIOUS
  <2>1. CASE u = t
    BY <1>5, <2>1, IdleLog DEF Holding, Writing, SinkLabels
  <2>2. CASE u # t
    BY <1>2, <1>4, <1>5, <2>2 DEF LogInv, CallLog, Holding, Writing, Judged
  <2> QED  BY <2>1, <2>2
<1>8. FileFollowsLog'
  BY <1>1, <1>3, <1>4, <1>7, <1>5 DEF LogInv, FileFollowsLog, CallLog, Writing
<1> QED  BY <1>1, <1>6, <1>7, <1>8 DEF LogInv

LEMMA SinkStepLog ==
  ASSUME TypeInv, LogInv, NEW t \in Thread, SinkStep(t)
  PROVE  LogInv'
<1>1. CASE Unlock(t)
  <2>1. owner = t
    BY <1>1, HolderAlone DEF Unlock, Holding
  <2> QED  BY <1>1, <2>1, ReturnLog DEF Unlock
<1>2. CASE Snapshot(t)
  <2>1. owner = t /\ pc[t] = "snapshot" /\ sink # None
    BY <1>2, HolderAlone DEF Snapshot, Holding, TypeInv, CallShape, ExportLabels
  <2>2. /\ pc'[t] = "create_file" /\ call'[t].snap = Log
        /\ \A u \in Thread \ {t} : pc'[u] = pc[u] /\ call'[u] = call[u]
    BY <1>2, <2>1 DEF Snapshot, Goto, TypeInv, TypeOK, Calls, Log
  <2>3. Log' = Log /\ IsPrefixOf(Log, Log)
    BY <1>2, LogTyped, PrefixFacts DEF Snapshot, Log
  <2>4. CallLog(t)'
    BY <2>2, <2>3 DEF CallLog, Holding, Writing, Judged, SinkLabels
  <2> QED  BY <1>2, <2>1, <2>2, <2>4, BesideLog DEF Snapshot
<1> QED
  BY <1>1, <1>2, InitSinkLog, LockLog, MakeRecordLog, PushLog, PushPanicsLog DEF SinkStep

-----------------------------------------------------------------------------
(* The file.                                                                 *)

\* What is written over a first part of the log with a first part of it.
LEMMA OverwriteFollows ==
  ASSUME NEW rs, NEW a, NEW b, IsPrefixOf(a.recs, rs), IsPrefixOf(b.recs, rs)
  PROVE  IsPrefixOf(Overwrite(a, b).recs, rs)
BY DEF Overwrite

LEMMA WrittenFile ==
  ASSUME TypeInv, LogInv, NEW t \in Thread, pc[t] = "write_file",
         NEW part \in PartialFiles(call[t].snap) \cup {FileOf(call[t].snap)}
  PROVE  /\ sink # None
         /\ IsPrefixOf(Overwrite(part, file).recs, Log)
         /\ Len(Overwrite(part, file).recs) \in Nat
<1>1. sink # None /\ call[t].snap \in Seq(AuditRecord) /\ Len(call[t].snap) \in Nat
  BY LenProperties DEF TypeInv, TypeOK, CallShape, ExportLabels, Calls
<1>2. IsPrefixOf(part.recs, call[t].snap) /\ Len(part.recs) \in Nat
  <2>1. CASE part \in PartialFiles(call[t].snap)
    BY <1>1, <2>1, PartialFileFacts, LenProperties DEF AuditFile
  <2>2. CASE part = FileOf(call[t].snap)
    BY <1>1, <2>2, PrefixFacts DEF FileOf
  <2> QED  BY <2>1, <2>2
<1>3. IsPrefixOf(call[t].snap, Log) /\ IsPrefixOf(file.recs, Log)
  BY DEF LogInv, FileFollowsLog
<1>4. IsPrefixOf(part.recs, Log)
  BY <1>1, <1>2, <1>3, LogTyped, PrefixFacts
<1>5. Len(Overwrite(part, file).recs) \in Nat
  BY <1>2, LogTyped DEF Overwrite
<1> QED  BY <1>1, <1>3, <1>4, <1>5, OverwriteFollows

\* The records of the log pass the validator, so any first part of it does.
LEMMA LogChained ==
  ASSUME TypeInv, LogInv, NEW rs, Len(rs) \in Nat, IsPrefixOf(rs, Log)
  PROVE  Chained(rs)
<1>1. Chained(Log)
  BY EmptySeq DEF LogInv, LogStaysValid, GoodSink, Log, Chained
<1> QED  BY <1>1, LogTyped, PrefixChained

\* A step that leaves the file with a first part of the log.
LEMMA FileMoveLog ==
  ASSUME TypeInv, LogInv, NEW t \in Thread,
         UNCHANGED <<sink, owner, poisoned>>,
         \A u \in Thread \ {t} : pc'[u] = pc[u] /\ call'[u] = call[u],
         CallLog(t)',
         Len(file'.recs) \in Nat, IsPrefixOf(file'.recs, Log)
  PROVE  LogInv'
<1>1. Log' = Log
  BY DEF Log
<1>2. \A u \in Thread : CallLog(u)'
  BY <1>1 DEF LogInv, CallLog, Judged
<1>3. FileFollowsLog'
  BY <1>1, <1>2 DEF FileFollowsLog, CallLog, Writing
<1>4. Chained(file'.recs)
  BY LogChained
<1> QED  BY <1>2, <1>3, <1>4 DEF LogInv, LogStaysValid

LEMMA FileStepLog ==
  ASSUME TypeInv, LogInv, NEW t \in Thread, FileStep(t)
  PROVE  LogInv'
<1>1. CASE CreateFile(t)
  <2>1. /\ pc[t] = "create_file" /\ pc'[t] = "write_file" /\ call' = call
        /\ \A u \in Thread \ {t} : pc'[u] = pc[u]
        /\ UNCHANGED <<sink, owner, poisoned>>
    BY <1>1 DEF CreateFile, Goto, TypeInv, TypeOK, sinkVars
  <2>2. file'.recs = <<>> /\ Len(file'.recs) \in Nat /\ IsPrefixOf(file'.recs, Log)
    BY <1>1, LogTyped, PrefixFacts DEF CreateFile, FileOf
  <2>3. CallLog(t)'
    BY <2>1 DEF LogInv, CallLog, Holding, Writing, Judged, SinkLabels, Log
  <2> QED  BY <2>1, <2>2, <2>3, FileMoveLog
<1>2. CASE CreateFileFails(t)
  BY <1>2, ReturnLog DEF CreateFileFails, sinkVars
<1>3. ASSUME NEW code, Return(t, code), pc[t] = "write_file",
             UNCHANGED <<sink, owner, poisoned>>,
             NEW part \in PartialFiles(call[t].snap) \cup {FileOf(call[t].snap)},
             file' = Overwrite(part, file)
      PROVE  LogInv'
  <2>1. /\ pc'[t] = "idle"
        /\ \A u \in Thread \ {t} : pc'[u] = pc[u] /\ call'[u] = call[u]
    BY <1>3 DEF Return, Goto, TypeInv, TypeOK
  <2>2. CallLog(t)'
    BY <2>1, IdleLog DEF Holding, Writing, SinkLabels
  <2>3. Len(file'.recs) \in Nat /\ IsPrefixOf(file'.recs, Log)
    BY <1>3, WrittenFile
  <2> QED  BY <1>3, <2>1, <2>2, <2>3, FileMoveLog
<1>4. CASE WriteFile(t)
  BY <1>3, <1>4 DEF WriteFile, sinkVars
<1>5. CASE WriteFileFails(t)
  BY <1>3, <1>5 DEF WriteFileFails, sinkVars
<1> QED  BY <1>1, <1>2, <1>4, <1>5 DEF FileStep

LEMMA RestartLog ==
  ASSUME TypeInv, LogInv, Restart
  PROVE  LogInv'
<1>1. Chained(file'.recs)
  <2>1. CASE file' = file
    BY <2>1 DEF LogInv
  <2>2. ASSUME NEW t \in Thread, pc[t] = "write_file",
               NEW part \in PartialFiles(call[t].snap), file' = Overwrite(part, file)
        PROVE  Chained(file'.recs)
    BY <2>2, WrittenFile, LogChained
  <2> QED  BY <2>1, <2>2 DEF Restart
<1>2. sink' = None /\ \A t \in Thread : pc'[t] = "idle"
  BY DEF Restart
<1>3. LogStaysValid' /\ FileFollowsLog'
  BY <1>2 DEF LogStaysValid, FileFollowsLog
<1>4. \A t \in Thread : CallLog(t)'
  BY <1>2, IdleLog DEF Holding, Writing, SinkLabels
<1> QED  BY <1>1, <1>3, <1>4 DEF LogInv

LEMMA LogStep == TypeInv /\ LogInv /\ [Next]_vars => LogInv'
<1> SUFFICES ASSUME TypeInv, LogInv, [Next]_vars  PROVE LogInv'
  OBVIOUS
<1>1. ASSUME NEW t \in Thread, Begin(t) \/ Step(t)  PROVE LogInv'
  BY <1>1, BeginLog, InitStepLog, VerifyStepLog, SinkStepLog, FileStepLog DEF Step
<1>2. CASE UNCHANGED vars
  BY <1>2 DEF vars, LogInv, LogStaysValid, FileFollowsLog, CallLog, Judged, Log
<1> QED  BY <1>1, <1>2, RestartLog DEF Next

LEMMA LogAlways == Spec => [](TypeInv /\ LogInv)
BY TypeInit, TypeStep, LogInit, LogStep, PTL DEF Spec

\* Whatever the threads, panics, cut files and restarts, the log in memory
\* passes the validator, and a sink nobody has poisoned is ready for the next
\* record.
THEOREM LogValid == Spec => []LogStaysValid
<1>1. LogInv => LogStaysValid
  BY DEF LogInv
<1> QED  BY <1>1, LogAlways, PTL

\* The file holds a first part of the log in memory unless a crash cut it, and
\* concurrent exports never mix two logs in it.
THEOREM FileFollows == Spec => []FileFollowsLog
<1>1. LogInv => FileFollowsLog
  BY DEF LogInv
<1> QED  BY <1>1, LogAlways, PTL

-----------------------------------------------------------------------------
(* The records added in this life are the verdicts given in it.              *)

\* Where the log has the verdict of this life that f got code, and who is about
\* to return it.
LoggedAt(f, code) ==
  {i \in base+1..Len(Log) : /\ Log[i].content.frame_hash = Sha3(f)
                            /\ Log[i].content.err_code = code}
Unlocking(f, code) ==
  {t \in Thread : pc[t] = "unlock" /\ call[t].frame = Some(f) /\ call[t].code = code}

Given(f, code) == answered[<<f, code>>] + Cardinality(Unlocking(f, code))

CountOf(f, code) ==
  /\ Logged(f, code) <= Given(f, code)
  /\ code # "Internal" => Logged(f, code) = Given(f, code)

CountInv ==
  /\ sink # None => base <= Len(Log)
  /\ \A f \in Frame, code \in AndnaErr : CountOf(f, code)

LEMMA LoggedFinite ==
  ASSUME TypeInv, NEW f, NEW code
  PROVE  /\ IsFiniteSet(LoggedAt(f, code))
         /\ Logged(f, code) = Cardinality(LoggedAt(f, code))
         /\ Logged(f, code) \in Nat
<1>1. base \in Nat /\ Len(Log) \in Nat
  BY LogTyped DEF TypeInv, TypeOK
<1>2. IsFiniteSet(base+1..Len(Log))
  BY <1>1, FS_Interval, base + 1 \in Int, Len(Log) \in Int
<1>3. IsFiniteSet(LoggedAt(f, code))
  BY <1>2, FS_Subset, LoggedAt(f, code) \subseteq base+1..Len(Log) DEF LoggedAt
<1> QED  BY <1>3, FS_CardinalityType DEF Logged, LoggedAt

\* Only the holder of the mutex may be at its unlock.
LEMMA OneUnlocks ==
  ASSUME LogInv, NEW f, NEW code
  PROVE  /\ IsFiniteSet(Unlocking(f, code))
         /\ Cardinality(Unlocking(f, code)) \in Nat
<1>1. Unlocking(f, code) \subseteq {owner}
  BY DEF LogInv, CallLog, Holding, Unlocking
<1>2. IsFiniteSet({owner})
  BY FS_Singleton
<1>3. IsFiniteSet(Unlocking(f, code))
  BY <1>1, <1>2, FS_Subset
<1> QED  BY <1>3, FS_CardinalityType

LEMMA GivenType ==
  ASSUME TypeInv, LogInv, NEW f \in Frame, NEW code \in AndnaErr
  PROVE  Given(f, code) \in Nat /\ answered[<<f, code>>] \in Nat
<1>1. answered[<<f, code>>] \in Nat
  BY DEF TypeInv, TypeOK
<1> QED  BY <1>1, OneUnlocks DEF Given

LEMMA CountInit == Init => CountInv
<1> SUFFICES ASSUME Init  PROVE CountInv
  OBVIOUS
<1>1. base+1..Len(Log) = {} /\ sink = None
  BY EmptySeq DEF Init, Log
<1>2. ASSUME NEW f \in Frame, NEW code \in AndnaErr  PROVE CountOf(f, code)
  <2>1. {i \in base+1..Len(Log) : /\ Log[i].content.frame_hash = Sha3(f)
                                  /\ Log[i].content.err_code = code} = {}
    BY <1>1
  <2>2. Logged(f, code) = 0
    BY <2>1, FS_EmptySet DEF Logged
  <2>3. Unlocking(f, code) = {} /\ answered[<<f, code>>] = 0
    BY DEF Init, Unlocking
  <2> QED  BY <2>2, <2>3, FS_EmptySet DEF CountOf, Given
<1> QED  BY <1>1, <1>2 DEF CountInv

\* What one answer adds.
LEMMA AnswerAdds ==
  ASSUME TypeInv, NEW t \in Thread, NEW c \in AndnaErr, Answer(t, c),
         NEW f \in Frame, NEW code \in AndnaErr
  PROVE  answered'[<<f, code>>] =
           IF f = call[t].frame[1] /\ code = c
             THEN answered[<<f, code>>] + 1 ELSE answered[<<f, code>>]
BY DEF TypeInv, TypeOK, Answer

\* A step of t beside the log: nobody comes to or leaves the unlock, and only
\* Internal may be answered.
LEMMA BesideCount ==
  ASSUME TypeInv, LogInv, CountInv, NEW t \in Thread,
         Log' = Log, base' = base, sink' # None => sink # None,
         pc[t] # "unlock", pc'[t] # "unlock",
         \A u \in Thread \ {t} : pc'[u] = pc[u] /\ call'[u] = call[u],
         answered' = answered \/ Answer(t, "Internal")
  PROVE  CountInv'
<1>1. ASSUME NEW f \in Frame, NEW code \in AndnaErr  PROVE CountOf(f, code)'
  <2>1. Unlocking(f, code)' = Unlocking(f, code)
    BY DEF Unlocking
  <2>2. Logged(f, code)' = Logged(f, code)
    <3>1. {i \in base'+1..Len(Log') : /\ Log'[i].content.frame_hash = Sha3(f)
                                      /\ Log'[i].content.err_code = code}
            = {i \in base+1..Len(Log) : /\ Log[i].content.frame_hash = Sha3(f)
                                        /\ Log[i].content.err_code = code}
      OBVIOUS
    <3> QED  BY <3>1 DEF Logged
  <2>3. /\ answered'[<<f, code>>] \in {answered[<<f, code>>], answered[<<f, code>>] + 1}
        /\ code # "Internal" => answered'[<<f, code>>] = answered[<<f, code>>]
    <3>1. CASE answered' = answered
      BY <3>1
    <3>2. CASE Answer(t, "Internal")
      <4>1. "Internal" \in AndnaErr
        BY DEF AndnaErr
      <4> QED  BY <3>2, <4>1, AnswerAdds
    <3> QED  BY <3>1, <3>2
  <2>4. /\ answered[<<f, code>>] \in Nat /\ Logged(f, code) \in Nat
        /\ Cardinality(Unlocking(f, code)) \in Nat
    BY GivenType, LoggedFinite, OneUnlocks
  <2>5. Given(f, code)' = answered'[<<f, code>>] + Cardinality(Unlocking(f, code))
    BY <2>1 DEF Given
  <2> QED  BY <2>2, <2>3, <2>4, <2>5 DEF CountInv, CountOf, Given
<1> QED  BY <1>1 DEF CountInv

LEMMA ReturnCount ==
  ASSUME TypeInv, LogInv, CountInv, NEW t \in Thread, NEW code, Return(t, code),
         Log' = Log, base' = base, sink' # None => sink # None,
         pc[t] # "unlock", answered' = answered \/ Answer(t, "Internal")
  PROVE  CountInv'
<1>1. /\ pc'[t] = "idle"
      /\ \A u \in Thread \ {t} : pc'[u] = pc[u] /\ call'[u] = call[u]
  BY DEF Return, Goto, TypeInv, TypeOK
<1> QED  BY <1>1, BesideCount

LEMMA BeginOthersCount ==
  ASSUME TypeInv, NEW t \in Thread, Begin(t)
  PROVE  /\ UNCHANGED <<sink, base, answered>> /\ pc[t] = "idle" /\ pc'[t] # "unlock"
         /\ \A u \in Thread \ {t} : pc'[u] = pc[u] /\ call'[u] = call[u]
<1>1. ASSUME NEW op, NEW code, BeganAndReturned(t, op, code), MayCall(t)
      PROVE  /\ pc'[t] = "idle"
             /\ \A u \in Thread \ {t} : pc'[u] = pc[u] /\ call'[u] = call[u]
  BY <1>1 DEF BeganAndReturned, MayCall, TypeInv, TypeOK
<1>2. ASSUME NEW op, NEW frame, NEW label, Began(t, op, frame), Goto(t, label)
      PROVE  /\ pc'[t] = label
             /\ \A u \in Thread \ {t} : pc'[u] = pc[u] /\ call'[u] = call[u]
  BY <1>2 DEF Began, Goto, TypeInv, TypeOK
<1>3. CASE CallInit(t)
  BY <1>1, <1>2, <1>3 DEF CallInit, sinkVars, MayCall
<1>4. CASE CallExport(t)
  BY <1>2, <1>4 DEF CallExport, sinkVars, MayCall
<1>5. ASSUME NEW f \in Frame, CallVerifyFrame(t, f)
      PROVE  /\ UNCHANGED <<sink, base, answered>> /\ pc[t] = "idle" /\ pc'[t] # "unlock"
             /\ \A u \in Thread \ {t} : pc'[u] = pc[u] /\ call'[u] = call[u]
  BY <1>1, <1>2, <1>5 DEF CallVerifyFrame, Gate, sinkVars, MayCall
<1>6. ASSUME NEW op \in CryptoOps, CallCrypto(t, op)
      PROVE  /\ UNCHANGED <<sink, base, answered>> /\ pc[t] = "idle" /\ pc'[t] # "unlock"
             /\ \A u \in Thread \ {t} : pc'[u] = pc[u] /\ call'[u] = call[u]
  BY <1>1, <1>2, <1>6 DEF CallCrypto, Gate, sinkVars, MayCall
<1>7. ASSUME NEW op \in Ops, CallBadArguments(t, op)
      PROVE  /\ UNCHANGED <<sink, base, answered>> /\ pc[t] = "idle" /\ pc'[t] # "unlock"
             /\ \A u \in Thread \ {t} : pc'[u] = pc[u] /\ call'[u] = call[u]
  BY <1>1, <1>7 DEF CallBadArguments, sinkVars, MayCall
<1> QED  BY <1>3, <1>4, <1>5, <1>6, <1>7 DEF Begin

LEMMA InitVerifyCount ==
  ASSUME TypeInv, LogInv, CountInv, NEW t \in Thread, InitStep(t) \/ VerifyStep(t)
  PROVE  CountInv'
<1>1. /\ UNCHANGED <<sink, base>> /\ Log' = Log
      /\ pc[t] # "unlock"
      /\ answered' = answered \/ Answer(t, "Internal")
  BY TestFacts
  DEF InitStep, CompareExchange, StoreApproved, PassTest, FailTest, sinkVars, Log,
      VerifyStep, Compute, VerifyFrame, VerifyPanics
<1>2. ASSUME NEW code, Return(t, code)  PROVE CountInv'
  BY <1>1, <1>2, ReturnCount
<1>3. ASSUME NEW label, label # "unlock", Goto(t, label), call' = call  PROVE CountInv'
  <2>1. pc'[t] # "unlock" /\ \A u \in Thread \ {t} : pc'[u] = pc[u] /\ call'[u] = call[u]
    BY <1>3 DEF Goto, TypeInv, TypeOK
  <2> QED  BY <1>1, <2>1, BesideCount
<1>4. \A k \in 1..4 : Tests[k] # "unlock" /\ (k < 4 => Tests[k+1] # "unlock")
  BY TestFacts
<1>5. CASE CompareExchange(t)
  BY <1>2, <1>3, <1>4, <1>5, TestFacts DEF CompareExchange
<1>6. CASE StoreApproved(t) \/ \E k \in 1..4 : FailTest(t, k)
  BY <1>2, <1>6 DEF StoreApproved, FailTest
<1>7. ASSUME NEW k \in 1..4, PassTest(t, k)  PROVE CountInv'
  BY <1>3, <1>4, <1>7 DEF PassTest
<1>8. CASE Compute(t) \/ VerifyPanics(t)
  BY <1>2, <1>8 DEF Compute, VerifyPanics
<1>9. CASE VerifyFrame(t)
  <2>1. PICK code : call' = [call EXCEPT ![t].code = code]
    BY <1>9 DEF VerifyFrame
  <2>2. pc'[t] # "unlock" /\ \A u \in Thread \ {t} : pc'[u] = pc[u] /\ call'[u] = call[u]
    BY <1>9, <2>1 DEF VerifyFrame, Goto, TypeInv, TypeOK
  <2> QED  BY <1>1, <2>2, BesideCount
<1> QED  BY <1>5, <1>6, <1>7, <1>8, <1>9 DEF InitStep, VerifyStep

LEMMA InitSinkCount ==
  ASSUME TypeInv, LogInv, CountInv, NEW t \in Thread, InitSinkIfNeeded(t)
  PROVE  CountInv'
<1>1. /\ pc[t] = "init_sink" /\ pc' = [pc EXCEPT ![t] = "lock"]
      /\ UNCHANGED <<call, answered>>
  BY DEF InitSinkIfNeeded, Goto
<1>2. pc'[t] = "lock" /\ \A u \in Thread \ {t} : pc'[u] = pc[u] /\ call'[u] = call[u]
  BY <1>1 DEF TypeInv, TypeOK
<1>3. CASE sink # None
  BY <1>1, <1>2, <1>3, BesideCount DEF InitSinkIfNeeded, Log
<1>4. CASE sink = None
  <2> DEFINE opened == InitSink(restarts, file)
  <2>1. /\ sink' # None /\ sink'[1] = opened /\ base' = Len(opened.records)
    BY <1>4, SomeProperties DEF InitSinkIfNeeded
  <2> HIDE DEF opened
  <2>2. Log' = opened.records /\ base' = Len(Log') /\ Log = <<>>
    BY <1>4, <2>1 DEF Log
  <2>3. TypeInv'
    BY SinkStepType DEF SinkStep
  <2>4. base' \in Nat /\ base \in Nat
    BY <2>3 DEF TypeInv, TypeOK
  <2>5. ASSUME NEW f \in Frame, NEW code \in AndnaErr  PROVE CountOf(f, code)'
    <3>1. {i \in base'+1..Len(Log') : /\ Log'[i].content.frame_hash = Sha3(f)
                                      /\ Log'[i].content.err_code = code} = {}
      BY <2>2, <2>4
    <3>2. Logged(f, code)' = 0
      BY <3>1, FS_EmptySet DEF Logged
    <3>3. {i \in base+1..Len(Log) : /\ Log[i].content.frame_hash = Sha3(f)
                                    /\ Log[i].content.err_code = code} = {}
      BY <2>2, <2>4, EmptySeq
    <3>4. Logged(f, code) = 0
      BY <3>3, FS_EmptySet DEF Logged
    <3>5. Unlocking(f, code)' = Unlocking(f, code)
      BY <1>1, <1>2 DEF Unlocking
    <3>6. Given(f, code)' = Given(f, code)
      BY <1>1, <3>5 DEF Given
    <3> QED  BY <3>2, <3>4, <3>6 DEF CountInv, CountOf
  <2> QED  BY <2>2, <2>4, <2>5 DEF CountInv
<1> QED  BY <1>3, <1>4

LEMMA PushCount ==
  ASSUME TypeInv, LogInv, CountInv, NEW t \in Thread, Push(t)
  PROVE  CountInv'
<1> DEFINE rec == call[t].rec[1]
           n == Len(Log) + 1
<1>1. /\ pc[t] = "push" /\ pc' = [pc EXCEPT ![t] = "unlock"]
      /\ UNCHANGED <<call, base, answered>>
      /\ sink' = Some(PushRecord(sink[1], rec))
  BY DEF Push, Goto
<1>2. /\ sink # None /\ rec \in AuditRecord
      /\ call[t].frame = Some(call[t].frame[1])
  BY <1>1, SomeProperties DEF TypeInv, TypeOK, CallShape, VerifyLabels, Calls
<1>3. /\ rec.content.frame_hash = call[t].frame
      /\ rec.content.err_code = call[t].code
  BY <1>1, <1>2 DEF LogInv, CallLog, Sha3, Some
<1>4. Log' = Append(Log, rec) /\ sink' # None
  <2>1. sink' # None /\ sink'[1] = PushRecord(sink[1], rec)
    BY <1>1, SomeProperties
  <2>2. PushRecord(sink[1], rec).records = Append(sink[1].records, rec)
    BY DEF PushRecord
  <2> QED  BY <1>2, <2>1, <2>2 DEF Log
<1> HIDE DEF rec
<1>5. /\ Len(Log') = n /\ n \in Nat /\ base \in Nat /\ base < n
      /\ \A i \in base+1..Len(Log) : Log'[i] = Log[i]
      /\ Log'[n] = rec
  <2>1. Log \in Seq(AuditRecord) /\ base \in Nat /\ Len(Log) \in Nat /\ base <= Len(Log)
    BY <1>2, LogTyped DEF TypeInv, TypeOK, CountInv
  <2>2. /\ Len(Log') = n /\ Log'[n] = rec
        /\ \A i \in 1..Len(Log) : Log'[i] = Log[i]
    BY <1>2, <1>4, <2>1, AppendProperties
  <2> QED  BY <2>1, <2>2
<1>6. \A u \in Thread \ {t} : pc[u] # "unlock" /\ pc'[u] # "unlock"
  BY <1>1, HolderAlone DEF Holding, TypeInv, TypeOK
<1>7. ASSUME NEW f \in Frame, NEW code \in AndnaErr  PROVE CountOf(f, code)'
  <2> DEFINE hit == call[t].frame = Some(f) /\ call[t].code = code
  <2>1. n \notin LoggedAt(f, code)
    BY <1>5 DEF LoggedAt
  <2>2. LoggedAt(f, code)' = IF hit THEN LoggedAt(f, code) \cup {n} ELSE LoggedAt(f, code)
    <3>1. base+1..Len(Log') = (base+1..Len(Log)) \cup {n}
      BY <1>5
    <3>2. \A i : i \in LoggedAt(f, code)' <=> /\ i \in base+1..Len(Log')
                                             /\ Log'[i].content.frame_hash = Sha3(f)
                                             /\ Log'[i].content.err_code = code
      BY <1>1 DEF LoggedAt
    <3>3. hit <=> /\ Log'[n].content.frame_hash = Sha3(f)
                  /\ Log'[n].content.err_code = code
      BY <1>3, <1>5 DEF Sha3, Some
    <3> HIDE DEF hit, n
    <3>4. \A i : i \in LoggedAt(f, code)' <=> i \in LoggedAt(f, code) \/ (hit /\ i = n)
      BY <1>5, <3>1, <3>2, <3>3 DEF LoggedAt
    <3> QED  BY <3>4
  <2>3. Logged(f, code)' = IF hit THEN Logged(f, code) + 1 ELSE Logged(f, code)
    <3> HIDE DEF hit, n
    <3>1. Logged(f, code)' = Cardinality(LoggedAt(f, code)')
      BY DEF Logged, LoggedAt
    <3>2. /\ IsFiniteSet(LoggedAt(f, code))
          /\ Logged(f, code) = Cardinality(LoggedAt(f, code))
      BY LoggedFinite
    <3>3. Cardinality(LoggedAt(f, code) \cup {n}) = Logged(f, code) + 1
      BY <2>1, <3>2, FS_AddElement
    <3> QED  BY <2>2, <3>1, <3>2, <3>3
  <2>4. Unlocking(f, code) = {} /\ Unlocking(f, code)' = IF hit THEN {t} ELSE {}
    BY <1>1, <1>6 DEF Unlocking, TypeInv, TypeOK
  <2>5. Given(f, code)' = IF hit THEN Given(f, code) + 1 ELSE Given(f, code)
    <3>1. /\ Cardinality(Unlocking(f, code)) = 0
          /\ Cardinality(Unlocking(f, code)') = IF hit THEN 1 ELSE 0
      BY <2>4, FS_EmptySet, FS_Singleton
    <3>2. answered[<<f, code>>] \in Nat
      BY GivenType
    <3> QED  BY <1>1, <3>1, <3>2 DEF Given
  <2>6. Logged(f, code) \in Nat /\ Given(f, code) \in Nat /\ CountOf(f, code)
    BY LoggedFinite, GivenType DEF CountInv
  <2> HIDE DEF hit
  <2> QED  BY <2>3, <2>5, <2>6 DEF CountOf
<1>8. base' <= Len(Log')
  BY <1>1, <1>5
<1> QED  BY <1>7, <1>8 DEF CountInv

LEMMA UnlockCount ==
  ASSUME TypeInv, LogInv, CountInv, NEW t \in Thread, Unlock(t)
  PROVE  CountInv'
<1>1. /\ pc[t] = "unlock" /\ UNCHANGED <<sink, base>>
      /\ Answer(t, call[t].code) /\ Return(t, call[t].code)
  BY DEF Unlock
<1>2. Log' = Log /\ pc'[t] = "idle"
  BY <1>1 DEF Log, Return, Goto, TypeInv, TypeOK
<1>3. \A u \in Thread \ {t} : pc[u] # "unlock" /\ pc'[u] # "unlock"
  BY <1>1, HolderAlone DEF Holding, Return, Goto, TypeInv, TypeOK
<1>4. /\ call[t].frame = Some(call[t].frame[1]) /\ call[t].frame[1] \in Frame
      /\ call[t].code \in AndnaErr
  BY <1>1, SomeProperties DEF TypeInv, TypeOK, CallShape, VerifyLabels, Calls
<1>5. ASSUME NEW f \in Frame, NEW code \in AndnaErr  PROVE CountOf(f, code)'
  <2> DEFINE hit == call[t].frame = Some(f) /\ call[t].code = code
  <2>1. Unlocking(f, code) = (IF hit THEN {t} ELSE {}) /\ Unlocking(f, code)' = {}
    BY <1>1, <1>2, <1>3 DEF Unlocking
  <2>2. /\ Cardinality(Unlocking(f, code)') = 0
        /\ Cardinality(Unlocking(f, code)) = IF hit THEN 1 ELSE 0
    BY <2>1, FS_EmptySet, FS_Singleton
  <2>3. answered'[<<f, code>>] =
          IF hit THEN answered[<<f, code>>] + 1 ELSE answered[<<f, code>>]
    BY <1>1, <1>4, AnswerAdds, SomeProperties
  <2>4. answered[<<f, code>>] \in Nat
    BY GivenType
  <2>5. Given(f, code)' = Given(f, code)
    BY <2>2, <2>3, <2>4 DEF Given
  <2>6. Logged(f, code)' = Logged(f, code)
    <3>1. {i \in base'+1..Len(Log') : /\ Log'[i].content.frame_hash = Sha3(f)
                                      /\ Log'[i].content.err_code = code}
            = {i \in base+1..Len(Log) : /\ Log[i].content.frame_hash = Sha3(f)
                                        /\ Log[i].content.err_code = code}
      BY <1>1, <1>2
    <3> QED  BY <3>1 DEF Logged
  <2> QED  BY <2>5, <2>6 DEF CountInv, CountOf
<1> QED  BY <1>1, <1>2, <1>5 DEF CountInv

LEMMA SinkStepCount ==
  ASSUME TypeInv, LogInv, CountInv, NEW t \in Thread, SinkStep(t)
  PROVE  CountInv'
<1>1. CASE Lock(t)
  <2>1. /\ pc[t] = "lock" /\ UNCHANGED <<sink, base>> /\ Log' = Log
        /\ answered' = answered \/ Answer(t, "Internal")
    BY <1>1 DEF Lock, PoisonedCode, Log
  <2>2. CASE poisoned
    BY <1>1, <2>1, <2>2, ReturnCount DEF Lock
  <2>3. CASE ~poisoned
    <3>1. pc'[t] # "unlock" /\ \A u \in Thread \ {t} : pc'[u] = pc[u] /\ call'[u] = call[u]
      BY <1>1, <2>3 DEF Lock, Goto, TypeInv, TypeOK
    <3> QED  BY <2>1, <3>1, BesideCount
  <2> QED  BY <2>2, <2>3
<1>2. CASE MakeRecord(t) \/ Snapshot(t)
  <2>1. /\ UNCHANGED <<sink, base, answered>> /\ Log' = Log /\ pc[t] # "unlock"
    BY <1>2 DEF MakeRecord, Snapshot, sinkVars, Log
  <2>2. pc'[t] # "unlock" /\ \A u \in Thread \ {t} : pc'[u] = pc[u] /\ call'[u] = call[u]
    BY <1>2 DEF MakeRecord, Snapshot, Goto, TypeInv, TypeOK
  <2> QED  BY <2>1, <2>2, BesideCount
<1>3. CASE PushPanics(t)
  <2>1. /\ pc[t] = "push" /\ base' = base
        /\ Answer(t, "Internal") /\ Return(t, "Internal")
        /\ sink' = Some([sink[1] EXCEPT !.last_hash = call[t].rec[1].record_hash])
    BY <1>3 DEF PushPanics
  <2>2. sink # None /\ sink[1] \in AuditSinkState
    BY <2>1, SinkType DEF TypeInv, CallShape
  <2>3. Log' = Log
    BY <2>1, <2>2, SomeProperties DEF Log, AuditSinkState
  <2> QED  BY <2>1, <2>2, <2>3, ReturnCount
<1> QED
  BY <1>1, <1>2, <1>3, InitSinkCount, PushCount, UnlockCount DEF SinkStep

LEMMA FileStepCount ==
  ASSUME TypeInv, LogInv, CountInv, NEW t \in Thread, FileStep(t)
  PROVE  CountInv'
<1>1. UNCHANGED <<sink, base, answered>> /\ Log' = Log /\ pc[t] # "unlock"
  BY DEF FileStep, CreateFile, CreateFileFails, WriteFile, WriteFileFails, sinkVars, Log
<1>2. CASE CreateFile(t)
  <2>1. pc'[t] # "unlock" /\ \A u \in Thread \ {t} : pc'[u] = pc[u] /\ call'[u] = call[u]
    BY <1>2 DEF CreateFile, Goto, TypeInv, TypeOK
  <2> QED  BY <1>1, <2>1, BesideCount
<1>3. CASE \E code : Return(t, code)
  BY <1>1, <1>3, ReturnCount
<1> QED
  BY <1>2, <1>3 DEF FileStep, CreateFileFails, WriteFile, WriteFileFails

LEMMA RestartCount ==
  ASSUME TypeInv, CountInv, Restart
  PROVE  CountInv'
<1>1. /\ sink' = None /\ base' = 0 /\ answered' = [v \in Frame \X AndnaErr |-> 0]
      /\ \A t \in Thread : pc'[t] = "idle"
  BY DEF Restart
<1>2. Log' = <<>> /\ base'+1..Len(Log') = {}
  BY <1>1, EmptySeq DEF Log
<1>3. ASSUME NEW f \in Frame, NEW code \in AndnaErr  PROVE CountOf(f, code)'
  <2>1. {i \in base'+1..Len(Log') : /\ Log'[i].content.frame_hash = Sha3(f)
                                    /\ Log'[i].content.err_code = code} = {}
    BY <1>2
  <2>2. Logged(f, code)' = 0
    BY <2>1, FS_EmptySet DEF Logged
  <2>3. Unlocking(f, code)' = {} /\ answered'[<<f, code>>] = 0
    BY <1>1 DEF Unlocking
  <2> QED  BY <2>2, <2>3, FS_EmptySet DEF CountOf, Given
<1> QED  BY <1>1, <1>3 DEF CountInv

LEMMA CountStep == TypeInv /\ LogInv /\ CountInv /\ [Next]_vars => CountInv'
<1> SUFFICES ASSUME TypeInv, LogInv, CountInv, [Next]_vars  PROVE CountInv'
  OBVIOUS
<1>1. ASSUME NEW t \in Thread, Begin(t)  PROVE CountInv'
  BY <1>1, BeginOthersCount, BesideCount DEF Log
<1>2. ASSUME NEW t \in Thread, Step(t)  PROVE CountInv'
  BY <1>2, InitVerifyCount, SinkStepCount, FileStepCount DEF Step
<1>3. CASE UNCHANGED vars
  BY <1>3 DEF vars, CountInv, CountOf, Logged, Given, Unlocking, Log
<1> QED  BY <1>1, <1>2, <1>3, RestartCount DEF Next

\* The records added in a life of the process are the verdicts given in it, one
\* for one, but for an Internal that may have no record.
THEOREM LoggedOnce == Spec => []VerdictsLoggedOnce
<1>1. CountInv => VerdictsLoggedOnce
  BY DEF CountInv, CountOf, Given, Unlocking, VerdictsLoggedOnce
<1>2. Spec => []CountInv
  BY LogAlways, CountInit, CountStep, PTL DEF Spec
<1> QED  BY <1>1, <1>2, PTL

-----------------------------------------------------------------------------
(* The gate: one thread runs the self-tests, no cryptography runs before all *)
(* of them have passed, and what a thread was told by andna_init the Relaxed *)
(* loads of the gate never contradict.                                       *)

\* No thread has seen a value the module does not have or has not had.
SeenInv ==
  \A t \in Thread :
    seen[t] \in {"PRE_INIT", "IN_PROGRESS", state} /\ Rank(seen[t]) <= Rank(state)

\* The tests passed are those before the one the testing thread is at.
TestsInv ==
  /\ state = "PRE_INIT" => passed = {}
  /\ \A t \in Thread, k \in 1..4 :
       pc[t] = Tests[k] => k >= FirstTest /\ passed = {Tests[j] : j \in FirstTest..k-1}
  /\ \A t \in Thread : pc[t] = "store_approved" => passed = Required
  /\ "mldsa44_kat" \in passed => OqsBackend
  /\ state = "APPROVED" => passed = Required

\* A thread past the gate is in an approved module, and a thread that was told
\* Ok has also seen it.
OpenInv ==
  \A t \in Thread :
    /\ PastGate(t) => state = "APPROVED"
    /\ t \in inited => state = "APPROVED" /\ seen[t] = "APPROVED"

GateInv == OneInitOwner /\ SeenInv /\ TestsInv /\ OpenInv

\* Thread t moves without testing, and does not get past the gate.
Quiet(t) ==
  /\ UNCHANGED moduleVars
  /\ \A u \in Thread \ {t} : pc'[u] = pc[u] /\ call'[u].op = call[u].op
  /\ ~Testing(t) /\ ~Testing(t)'
  /\ PastGate(t)' => PastGate(t)

LEMMA LabelsApart ==
  /\ TestNames \cup {"store_approved"} \subseteq Labels
  /\ (TestNames \cup {"store_approved"})
       \cap ({"idle", "compute", "compare_exchange"} \cup VerifyLabels \cup SinkLabels
               \cup ExportLabels) = {}
  /\ {"idle", "compare_exchange"} \cap ({"compute"} \cup VerifyLabels \cup SinkLabels) = {}
  /\ ExportLabels \cap ({"idle", "compute"} \cup VerifyLabels \cup SinkLabels) = {}
BY TestFacts DEF Labels, InitLabels, VerifyLabels, SinkLabels, ExportLabels

LEMMA RequiredHasKat == "mldsa44_kat" \in Required
BY TestFacts DEF Required

LEMMA GateInit == Init => GateInv
<1> SUFFICES ASSUME Init  PROVE GateInv
  OBVIOUS
<1>1. \A t \in Thread : ~Testing(t) /\ ~PastGate(t)
  BY LabelsApart DEF Init, Testing, PastGate
<1>2. OneInitOwner /\ SeenInv /\ OpenInv
  BY <1>1 DEF Init, OneInitOwner, SeenInv, OpenInv, Rank
<1>3. TestsInv
  BY TestFacts DEF Init, TestsInv
<1>4. QED  BY <1>2, <1>3 DEF GateInv

LEMMA QuietStep ==
  ASSUME GateInv, NEW t \in Thread, Quiet(t)
  PROVE  GateInv'
<1>1. \A u \in Thread : (Testing(u)' <=> Testing(u)) /\ (PastGate(u)' => PastGate(u))
  <2>1. \A u \in Thread \ {t} : (Testing(u)' <=> Testing(u)) /\ (PastGate(u)' => PastGate(u))
    BY DEF Quiet, Testing, PastGate
  <2>2. QED  BY <2>1 DEF Quiet
<1>2. UNCHANGED <<state, seen, passed, inited>>
  BY DEF Quiet, moduleVars
<1>3. OneInitOwner'
  BY <1>1, <1>2 DEF GateInv, OneInitOwner
<1>4. SeenInv' /\ OpenInv'
  BY <1>1, <1>2 DEF GateInv, SeenInv, OpenInv
<1>5. TestsInv'
  <2>1. \A u \in Thread : pc'[u] \in TestNames \cup {"store_approved"} => pc'[u] = pc[u]
    BY DEF Quiet, Testing
  <2>2. \A k \in 1..4 : Tests[k] \in TestNames
    BY DEF TestNames
  <2>3. QED  BY <1>2, <2>1, <2>2 DEF GateInv, TestsInv
<1>6. QED  BY <1>3, <1>4, <1>5 DEF GateInv

\* A call that returns without touching the module's state.
LEMMA ReturnQuiet ==
  ASSUME TypeInv, NEW t \in Thread, NEW code, Return(t, code), ~Testing(t),
         UNCHANGED moduleVars
  PROVE  Quiet(t)
<1>1. pc'[t] = "idle" /\ \A u \in Thread \ {t} : pc'[u] = pc[u] /\ call'[u].op = call[u].op
  BY DEF Return, Goto, TypeInv, TypeOK
<1>2. ~Testing(t)' /\ ~PastGate(t)'
  BY <1>1, LabelsApart DEF Testing, PastGate
<1>3. QED  BY <1>1, <1>2 DEF Quiet

-----------------------------------------------------------------------------
(* The steps, one lemma for each group of them.                              *)

LEMMA VerifyStepQuiet ==
  ASSUME TypeInv, NEW t \in Thread, VerifyStep(t)
  PROVE  Quiet(t)
<1>1. ~Testing(t)
  BY LabelsApart DEF VerifyStep, Compute, VerifyFrame, VerifyPanics, Testing, VerifyLabels
<1>2. CASE Compute(t) \/ VerifyPanics(t)
  BY <1>1, <1>2, ReturnQuiet DEF Compute, VerifyPanics
<1>3. CASE VerifyFrame(t)
  <2>1. PICK code : call' = [call EXCEPT ![t].code = code]
    BY <1>3 DEF VerifyFrame
  <2>2. pc' = [pc EXCEPT ![t] = "init_sink"]
    BY <1>3 DEF VerifyFrame, Goto
  <2>3. \A u \in Thread \ {t} : pc'[u] = pc[u] /\ call'[u].op = call[u].op
    BY <2>1, <2>2 DEF TypeInv, TypeOK
  <2>4. pc'[t] = "init_sink" /\ PastGate(t)
    BY <1>3, <2>2 DEF VerifyFrame, PastGate, TypeInv, TypeOK, VerifyLabels
  <2>5. ~Testing(t)'
    BY <2>4, LabelsApart DEF Testing, SinkLabels
  <2>6. QED  BY <1>1, <1>3, <2>3, <2>4, <2>5 DEF Quiet, VerifyFrame
<1>4. QED  BY <1>2, <1>3 DEF VerifyStep

\* A step of the sink that moves t to a label.
LEMMA SinkMoveQuiet ==
  ASSUME TypeInv, NEW t \in Thread, ~Testing(t), UNCHANGED moduleVars,
         NEW label \in VerifyLabels \cup SinkLabels \cup ExportLabels,
         pc' = [pc EXCEPT ![t] = label],
         \A u \in Thread : call'[u].op = call[u].op,
         \/ PastGate(t) \/ label \in ExportLabels
         \/ label \in SinkLabels /\ call[t].op # Some("andna_verify_frame_v2")
  PROVE  Quiet(t)
<1>1. pc'[t] = label /\ \A u \in Thread \ {t} : pc'[u] = pc[u]
  BY DEF TypeInv, TypeOK
<1>2. ~Testing(t)'
  BY <1>1, LabelsApart DEF Testing
<1>3. PastGate(t)' => PastGate(t)
  BY <1>1, LabelsApart DEF PastGate, VerifyLabels, SinkLabels
<1>4. QED  BY <1>1, <1>2, <1>3 DEF Quiet

LEMMA SinkStepQuiet ==
  ASSUME TypeInv, NEW t \in Thread, SinkStep(t)
  PROVE  Quiet(t)
<1>1. ~Testing(t) /\ UNCHANGED moduleVars
  BY LabelsApart
  DEF SinkStep, InitSinkIfNeeded, Lock, MutexFree, PoisonedCode, MakeRecord, Push, PushPanics, Unlock, Snapshot,
      Testing, VerifyLabels, SinkLabels, ExportLabels
<1>2. CASE InitSinkIfNeeded(t)
  <2>1. pc' = [pc EXCEPT ![t] = "lock"] /\ call' = call /\ pc[t] = "init_sink"
    BY <1>2 DEF InitSinkIfNeeded, Goto
  <2>2. PastGate(t) \/ call[t].op # Some("andna_verify_frame_v2")
    BY <2>1 DEF PastGate, SinkLabels
  <2>3. "lock" \in SinkLabels
    BY DEF SinkLabels
  <2>4. QED  BY <1>1, SinkMoveQuiet, <2>1, <2>2, <2>3
<1>3. CASE Lock(t)
  <2>1. CASE poisoned
    BY <1>1, <1>3, <2>1, ReturnQuiet DEF Lock, MutexFree, PoisonedCode
  <2>2. CASE ~poisoned
    <3>1. call' = call /\ pc[t] = "lock"
      BY <1>3, <2>2 DEF Lock, MutexFree, PoisonedCode
    <3>2. CASE call[t].op = Some("andna_verify_frame_v2")
      <4>1. pc' = [pc EXCEPT ![t] = "append"] /\ PastGate(t) /\ "append" \in VerifyLabels
        BY <1>3, <2>2, <3>2 DEF Lock, MutexFree, PoisonedCode, Goto, PastGate, SinkLabels, VerifyLabels
      <4>2. QED  BY <1>1, SinkMoveQuiet, <3>1, <4>1
    <3>3. CASE call[t].op # Some("andna_verify_frame_v2")
      <4>1. pc' = [pc EXCEPT ![t] = "snapshot"] /\ "snapshot" \in ExportLabels
        BY <1>3, <2>2, <3>3 DEF Lock, MutexFree, PoisonedCode, Goto, ExportLabels
      <4>2. QED  BY <1>1, SinkMoveQuiet, <3>1, <4>1
    <3>4. QED  BY <3>2, <3>3
  <2>3. QED  BY <2>1, <2>2
<1>4. CASE MakeRecord(t)
  <2>1. \A u \in Thread : call'[u].op = call[u].op
    BY <1>4 DEF MakeRecord, TypeInv, TypeOK, Calls
  <2>2. pc' = [pc EXCEPT ![t] = "push"] /\ PastGate(t) /\ "push" \in VerifyLabels
    BY <1>4 DEF MakeRecord, Goto, VerifyLabels, PastGate
  <2>3. QED  BY <1>1, SinkMoveQuiet, <2>1, <2>2
<1>5. CASE Push(t)
  <2>1. pc' = [pc EXCEPT ![t] = "unlock"] /\ PastGate(t) /\ "unlock" \in VerifyLabels
    BY <1>5 DEF Push, Goto, VerifyLabels, PastGate
  <2>2. QED  BY <1>1, SinkMoveQuiet, <1>5, <2>1 DEF Push
<1>6. CASE PushPanics(t)
  BY <1>1, <1>6, ReturnQuiet DEF PushPanics
<1>7. CASE Unlock(t)
  BY <1>1, <1>7, ReturnQuiet DEF Unlock
<1>8. CASE Snapshot(t)
  <2>1. \A u \in Thread : call'[u].op = call[u].op
    BY <1>8 DEF Snapshot, TypeInv, TypeOK, Calls
  <2>2. pc' = [pc EXCEPT ![t] = "create_file"] /\ "create_file" \in ExportLabels
    BY <1>8 DEF Snapshot, Goto, ExportLabels
  <2>3. QED  BY <1>1, SinkMoveQuiet, <2>1, <2>2
<1>9. QED
  BY <1>2, <1>3, <1>4, <1>5, <1>6, <1>7, <1>8 DEF SinkStep

LEMMA FileStepQuiet ==
  ASSUME TypeInv, NEW t \in Thread, FileStep(t)
  PROVE  Quiet(t)
<1>1. ~Testing(t) /\ UNCHANGED moduleVars
  BY LabelsApart
  DEF FileStep, CreateFile, CreateFileFails, WriteFile, WriteFileFails, Testing, ExportLabels
<1>2. CASE CreateFile(t)
  <2>1. pc'[t] = "write_file" /\ call' = call /\ \A u \in Thread \ {t} : pc'[u] = pc[u]
    BY <1>2 DEF CreateFile, Goto, TypeInv, TypeOK
  <2>2. ~Testing(t)' /\ ~PastGate(t)'
    BY <2>1, LabelsApart DEF Testing, PastGate, ExportLabels
  <2>3. QED  BY <1>1, <2>1, <2>2 DEF Quiet
<1>3. CASE CreateFileFails(t) \/ WriteFile(t) \/ WriteFileFails(t)
  BY <1>1, <1>3, ReturnQuiet DEF CreateFileFails, WriteFile, WriteFileFails
<1>4. QED  BY <1>2, <1>3 DEF FileStep

\* A thread that has seen APPROVED reads nothing else.
LEMMA ReadableFacts ==
  ASSUME GateInv, NEW t \in Thread
  PROVE  /\ \A s \in Readable(t) : s \in {"PRE_INIT", "IN_PROGRESS", state}
                                    /\ Rank(s) <= Rank(state)
         /\ \A s \in Readable(t) : s = "APPROVED" => state = "APPROVED"
         /\ t \in inited => Readable(t) = {"APPROVED"}
BY DEF Readable, GateInv, OpenInv, Rank

\* A first step that loads s: it gets past the gate, or is told Ok, only when
\* s is APPROVED.
LEMMA LoadStep ==
  ASSUME TypeInv, GateInv, NEW t \in Thread, NEW s \in Readable(t),
         seen' = [seen EXCEPT ![t] = s], UNCHANGED <<state, passed>>,
         inited' \subseteq inited \cup {t}, t \in inited' => s = "APPROVED" \/ t \in inited,
         \A u \in Thread \ {t} : pc'[u] = pc[u] /\ call'[u].op = call[u].op,
         ~Testing(t), ~Testing(t)', PastGate(t)' => s = "APPROVED"
  PROVE  GateInv'
<1>1. /\ \A u \in Thread \ {t} : seen'[u] = seen[u]
      /\ seen'[t] = s
  BY DEF TypeInv, TypeOK
<1>2. \A u \in Thread \ {t} : (Testing(u)' <=> Testing(u)) /\ (PastGate(u)' <=> PastGate(u))
  BY DEF Testing, PastGate
<1>3. OneInitOwner'
  BY <1>2 DEF GateInv, OneInitOwner
<1>4. SeenInv'
  BY <1>1, ReadableFacts DEF GateInv, SeenInv
<1>5. TestsInv'
  <2>1. \A u \in Thread : pc'[u] \in TestNames \cup {"store_approved"} => pc'[u] = pc[u]
    BY DEF Testing
  <2>2. \A k \in 1..4 : Tests[k] \in TestNames
    BY DEF TestNames
  <2>3. QED  BY <2>1, <2>2 DEF GateInv, TestsInv
<1>6. OpenInv'
  <2>1. ASSUME NEW u \in Thread \ {t}
        PROVE  /\ PastGate(u)' => state' = "APPROVED"
               /\ u \in inited' => state' = "APPROVED" /\ seen'[u] = "APPROVED"
    BY <1>1, <1>2 DEF GateInv, OpenInv
  <2>2. PastGate(t)' => state' = "APPROVED"
    BY ReadableFacts
  <2>3. t \in inited' => state' = "APPROVED" /\ seen'[t] = "APPROVED"
    BY <1>1, ReadableFacts DEF GateInv, OpenInv
  <2>4. QED  BY <2>1, <2>2, <2>3 DEF OpenInv
<1>7. QED  BY <1>3, <1>4, <1>5, <1>6 DEF GateInv

LEMMA BeginOthers ==
  ASSUME TypeInv, NEW t \in Thread, NEW op, NEW code, MayCall(t),
         BeganAndReturned(t, op, code)
  PROVE  /\ pc'[t] = "idle"
         /\ \A u \in Thread \ {t} : pc'[u] = pc[u] /\ call'[u].op = call[u].op
         /\ ~Testing(t) /\ ~Testing(t)' /\ ~PastGate(t)'
<1>1. /\ pc'[t] = "idle" /\ pc[t] = "idle"
      /\ \A u \in Thread \ {t} : pc'[u] = pc[u] /\ call'[u].op = call[u].op
  BY DEF BeganAndReturned, MayCall, TypeInv, TypeOK
<1>2. QED  BY <1>1, LabelsApart DEF Testing, PastGate

LEMMA WentOn ==
  ASSUME TypeInv, NEW t \in Thread, NEW op, NEW frame, NEW label, MayCall(t),
         Began(t, op, frame), Goto(t, label),
         label \in {"compare_exchange", "compute"} \cup VerifyLabels \cup SinkLabels
  PROVE  /\ pc'[t] = label /\ call'[t].op = Some(op)
         /\ \A u \in Thread \ {t} : pc'[u] = pc[u] /\ call'[u].op = call[u].op
         /\ ~Testing(t) /\ ~Testing(t)'
<1>1. /\ pc'[t] = label /\ pc[t] = "idle"
      /\ \A u \in Thread \ {t} : pc'[u] = pc[u] /\ call'[u].op = call[u].op
  BY DEF Began, Goto, MayCall, TypeInv, TypeOK
<1>2. call'[t].op = Some(op)
  BY DEF Began, NoCall, TypeInv, TypeOK
<1>3. QED  BY <1>1, <1>2, LabelsApart DEF Testing

LEMMA GateStepGate ==
  ASSUME TypeInv, GateInv, NEW t \in Thread, NEW op, NEW frame,
         NEW label \in {"compute", "verify"}, Gate(t, op, frame, label)
  PROVE  GateInv'
<1>1. PICK s \in Readable(t) :
        /\ seen' = [seen EXCEPT ![t] = s]
        /\ IF s = "APPROVED"
             THEN Began(t, op, frame) /\ Goto(t, label)
             ELSE BeganAndReturned(t, op, "Internal")
  BY DEF Gate, GateOpen
<1>2. MayCall(t) /\ UNCHANGED <<state, passed, inited>>
  BY DEF Gate, GateOpen
<1>3. /\ \A u \in Thread \ {t} : pc'[u] = pc[u] /\ call'[u].op = call[u].op
      /\ ~Testing(t) /\ ~Testing(t)' /\ (PastGate(t)' => s = "APPROVED")
  <2>1. CASE s = "APPROVED"
    BY <1>1, <1>2, <2>1, WentOn DEF VerifyLabels
  <2>2. CASE s # "APPROVED"
    BY <1>1, <1>2, <2>2, BeginOthers
  <2>3. QED  BY <2>1, <2>2
<1>4. QED  BY <1>1, <1>2, <1>3, LoadStep

LEMMA BeginGate ==
  ASSUME TypeInv, GateInv, NEW t \in Thread, Begin(t)
  PROVE  GateInv'
<1>1. CASE CallInit(t)
  <2>1. PICK s \in Readable(t) :
          /\ seen' = [seen EXCEPT ![t] = s]
          /\ IF s = "APPROVED"
               THEN /\ BeganAndReturned(t, "andna_init", "Ok")
                    /\ inited' = inited \cup {t}
               ELSE /\ Began(t, "andna_init", None)
                    /\ Goto(t, "compare_exchange")
                    /\ UNCHANGED inited
    BY <1>1 DEF CallInit
  <2>2. MayCall(t) /\ UNCHANGED <<state, passed>>
    BY <1>1 DEF CallInit
  <2>3. /\ \A u \in Thread \ {t} : pc'[u] = pc[u] /\ call'[u].op = call[u].op
        /\ ~Testing(t) /\ ~Testing(t)' /\ ~PastGate(t)'
    <3>1. CASE s = "APPROVED"
      BY <2>1, <2>2, <3>1, BeginOthers
    <3>2. CASE s # "APPROVED"
      BY <2>1, <2>2, <3>2, WentOn, LabelsApart DEF PastGate
    <3>3. QED  BY <3>1, <3>2
  <2>4. inited' \subseteq inited \cup {t} /\ (t \in inited' => s = "APPROVED" \/ t \in inited)
    BY <2>1
  <2>5. QED  BY <2>1, <2>2, <2>3, <2>4, LoadStep
<1>2. CASE CallExport(t)
  <2>1. /\ MayCall(t) /\ Began(t, "andna_audit_export_jsonl", None)
        /\ Goto(t, "init_sink") /\ UNCHANGED moduleVars
    BY <1>2 DEF CallExport
  <2>2. /\ pc'[t] = "init_sink" /\ call'[t].op = Some("andna_audit_export_jsonl")
        /\ \A u \in Thread \ {t} : pc'[u] = pc[u] /\ call'[u].op = call[u].op
        /\ ~Testing(t) /\ ~Testing(t)'
    BY <2>1, WentOn DEF SinkLabels
  <2>3. ~PastGate(t)'
    BY <2>2, SomeProperties DEF PastGate, SinkLabels, VerifyLabels
  <2>4. QED  BY <2>1, <2>2, <2>3, QuietStep DEF Quiet
<1>3. ASSUME NEW f \in Frame, CallVerifyFrame(t, f)  PROVE GateInv'
  BY <1>3, GateStepGate DEF CallVerifyFrame
<1>4. ASSUME NEW op \in CryptoOps, CallCrypto(t, op)  PROVE GateInv'
  BY <1>4, GateStepGate DEF CallCrypto
<1>5. ASSUME NEW op \in Ops, CallBadArguments(t, op)  PROVE GateInv'
  BY <1>5, BeginOthers, QuietStep DEF CallBadArguments, Quiet
<1>6. QED  BY <1>1, <1>2, <1>3, <1>4, <1>5 DEF Begin

LEMMA ReturnOthers ==
  ASSUME TypeInv, NEW t \in Thread, NEW code, Return(t, code)
  PROVE  /\ pc'[t] = "idle" /\ ~Testing(t)' /\ ~PastGate(t)'
         /\ \A u \in Thread \ {t} : pc'[u] = pc[u] /\ call'[u].op = call[u].op
<1>1. /\ pc'[t] = "idle"
      /\ \A u \in Thread \ {t} : pc'[u] = pc[u] /\ call'[u].op = call[u].op
  BY DEF Return, Goto, TypeInv, TypeOK
<1>2. ~Testing(t)' /\ ~PastGate(t)'
  BY <1>1, LabelsApart DEF Testing, PastGate
<1>3. QED  BY <1>1, <1>2

\* The step that ends the tests: the only thread that tests returns.
LEMMA SettleGate ==
  ASSUME TypeInv, GateInv, NEW t \in Thread, Testing(t), state' \in Settled,
         NEW code, Return(t, code), seen' = [seen EXCEPT ![t] = state'],
         UNCHANGED passed, state' = "APPROVED" => passed = Required,
         inited' \subseteq inited \cup {t}, t \in inited' => state' = "APPROVED"
  PROVE  GateInv'
<1>1. state = "IN_PROGRESS" /\ \A u \in Thread \ {t} : ~Testing(u)
  BY DEF GateInv, OneInitOwner
<1>2. \A u \in Thread : ~Testing(u)'
  <2>1. \A u \in Thread \ {t} : ~Testing(u)'
    BY <1>1, ReturnOthers DEF Testing
  <2>2. QED  BY <2>1, ReturnOthers
<1>3. OneInitOwner'
  BY <1>2 DEF OneInitOwner, Settled
<1>4. /\ seen'[t] = state'
      /\ \A u \in Thread \ {t} : seen'[u] = seen[u]
  BY DEF TypeInv, TypeOK
<1>5. SeenInv'
  BY <1>1, <1>4 DEF GateInv, SeenInv, Settled, Rank
<1>6. TestsInv'
  <2>1. \A k \in 1..4 : Tests[k] \in TestNames
    BY DEF TestNames
  <2>2. \A u \in Thread : pc'[u] \notin TestNames \cup {"store_approved"}
    BY <1>2 DEF Testing
  <2>3. QED  BY <2>1, <2>2 DEF GateInv, TestsInv, Settled
<1>7. \A u \in Thread : ~PastGate(u) /\ u \notin inited
  BY <1>1 DEF GateInv, OpenInv
<1>8. OpenInv'
  <2>1. \A u \in Thread \ {t} : ~PastGate(u)'
    BY <1>7, ReturnOthers DEF PastGate
  <2>2. QED  BY <1>4, <1>7, <2>1, ReturnOthers DEF OpenInv
<1>9. QED  BY <1>3, <1>5, <1>6, <1>8 DEF GateInv

LEMMA CompareExchangeGate ==
  ASSUME TypeInv, GateInv, NEW t \in Thread, CompareExchange(t)
  PROVE  GateInv'
<1>1. pc[t] = "compare_exchange" /\ ~Testing(t) /\ ~PastGate(t)
  BY LabelsApart DEF CompareExchange, TakesInit, LosesWith, Testing, PastGate
<1>2. /\ \A u \in Thread \ {t} : seen'[u] = seen[u]
      /\ passed' = passed
  BY DEF CompareExchange, TakesInit, LosesWith, TypeInv, TypeOK
<1>3. CASE state = "PRE_INIT"
  <2>1. /\ state' = "IN_PROGRESS" /\ seen'[t] = "IN_PROGRESS"
        /\ pc'[t] = Tests[FirstTest] /\ call' = call /\ inited' = inited
        /\ \A u \in Thread \ {t} : pc'[u] = pc[u]
    BY <1>3 DEF CompareExchange, TakesInit, LosesWith, Goto, TypeInv, TypeOK
  <2>2. Tests[FirstTest] \in TestNames /\ FirstTest \in 1..4
    BY TestFacts
  <2>3. \A u \in Thread : ~Testing(u) /\ ~PastGate(u) /\ u \notin inited
    BY <1>3 DEF GateInv, OneInitOwner, OpenInv
  <2>4. Testing(t)' /\ ~PastGate(t)'
    BY <2>1, <2>2, LabelsApart DEF Testing, PastGate
  <2>5. \A u \in Thread \ {t} : ~Testing(u)' /\ ~PastGate(u)'
    BY <2>1, <2>3 DEF Testing, PastGate
  <2>6. OneInitOwner' /\ OpenInv'
    BY <2>1, <2>3, <2>4, <2>5 DEF OneInitOwner, OpenInv
  <2>7. SeenInv'
    BY <1>2, <1>3, <2>1 DEF GateInv, SeenInv, Rank
  <2>8. TestsInv'
    <3>1. passed = {}
      BY <1>3 DEF GateInv, TestsInv
    <3>2. \A u \in Thread \ {t} : \A k \in 1..4 : pc'[u] # Tests[k] /\ pc'[u] # "store_approved"
      BY <2>5 DEF Testing, TestNames
    <3>3. pc'[t] # "store_approved"
      BY <2>1, <2>2, TestFacts
    <3>4. ASSUME NEW k \in 1..4, pc'[t] = Tests[k]
          PROVE  k >= FirstTest /\ passed = {Tests[j] : j \in FirstTest..k-1}
      <4>1. k = FirstTest
        <5>1. \A i, j \in 1..4 : Tests[i] = Tests[j] => i = j
          BY TestFacts
        <5>2. QED  BY <2>1, <2>2, <3>4, <5>1
      <4>2. FirstTest..k-1 = {}
        BY <4>1, <2>2
      <4>3. QED  BY <3>1, <4>1, <4>2, <2>2
    <3>5. /\ \A u \in Thread, k \in 1..4 :
               pc'[u] = Tests[k] => k >= FirstTest /\ passed = {Tests[j] : j \in FirstTest..k-1}
          /\ \A u \in Thread : pc'[u] # "store_approved"
      <4>1. \A u \in Thread \ {t} : pc'[u] # "store_approved"
        BY <2>5 DEF Testing
      <4>2. QED  BY <3>2, <3>3, <3>4, <4>1
    <3>6. QED  BY <1>2, <2>1, <3>1, <3>5 DEF TestsInv
  <2>9. QED  BY <2>6, <2>7, <2>8 DEF GateInv
<1>4. CASE state # "PRE_INIT"
  <2>1. /\ state' = state /\ seen' = [seen EXCEPT ![t] = state]
        /\ inited' \subseteq inited \cup {t}
        /\ t \in inited' => state = "APPROVED" \/ t \in inited
    BY <1>4 DEF CompareExchange, TakesInit, LosesWith
  <2>2. PICK code : Return(t, code)
    BY <1>4 DEF CompareExchange, TakesInit, LosesWith
  <2>3. seen'[t] = state
    BY <2>1 DEF TypeInv, TypeOK
  <2>4. \A u \in Thread : Testing(u)' <=> Testing(u)
    <3>1. \A u \in Thread \ {t} : Testing(u)' <=> Testing(u)
      BY <2>2, ReturnOthers DEF Testing
    <3>2. ~Testing(t)'
      BY <2>2, ReturnOthers
    <3>3. QED  BY <1>1, <3>1, <3>2
  <2>5. OneInitOwner'
    BY <2>1, <2>4 DEF GateInv, OneInitOwner
  <2>6. SeenInv'
    BY <1>2, <2>1, <2>3 DEF GateInv, SeenInv, Rank
  <2>7. TestsInv'
    <3>1. \A u \in Thread : pc'[u] \in TestNames \cup {"store_approved"} => pc'[u] = pc[u]
      <4>1. pc'[t] \notin TestNames \cup {"store_approved"}
        BY <2>2, ReturnOthers DEF Testing
      <4>2. \A u \in Thread \ {t} : pc'[u] = pc[u]
        BY <2>2, ReturnOthers
      <4>3. QED  BY <4>1, <4>2
    <3>2. \A k \in 1..4 : Tests[k] \in TestNames
      BY DEF TestNames
    <3>3. QED  BY <1>2, <2>1, <3>1, <3>2 DEF GateInv, TestsInv
  <2>8. OpenInv'
    <3>1. ASSUME NEW u \in Thread \ {t}
          PROVE  /\ PastGate(u)' => state' = "APPROVED"
                 /\ u \in inited' => state' = "APPROVED" /\ seen'[u] = "APPROVED"
      <4>1. PastGate(u)' => PastGate(u)
        BY <2>2, ReturnOthers DEF PastGate
      <4>2. QED  BY <1>2, <2>1, <4>1 DEF GateInv, OpenInv
    <3>2. ~PastGate(t)'
      BY <2>2, ReturnOthers
    <3>3. t \in inited' => state' = "APPROVED" /\ seen'[t] = "APPROVED"
      BY <2>1, <2>3 DEF GateInv, OpenInv
    <3>4. QED  BY <3>1, <3>2, <3>3 DEF OpenInv
  <2>9. QED  BY <2>5, <2>6, <2>7, <2>8 DEF GateInv
<1>5. QED  BY <1>3, <1>4

LEMMA PassTestGate ==
  ASSUME TypeInv, GateInv, NEW t \in Thread, NEW k \in 1..4, PassTest(t, k)
  PROVE  GateInv'
<1> DEFINE label == IF k < 4 THEN Tests[k+1] ELSE "store_approved"
<1>1. /\ pc[t] = Tests[k] /\ Testing(t) /\ passed' = passed \cup {Tests[k]}
      /\ pc'[t] = label /\ UNCHANGED <<state, seen, inited, call>>
      /\ \A u \in Thread \ {t} : pc'[u] = pc[u]
  BY DEF PassTest, Goto, Testing, TestNames, TypeInv, TypeOK
<1>2. label \in TestNames \cup {"store_approved"}
  BY DEF TestNames
<1>3. \A u \in Thread \ {t} : ~Testing(u) /\ ~Testing(u)'
  BY <1>1 DEF GateInv, OneInitOwner, Testing
<1>4. Testing(t)' /\ ~PastGate(t)'
  BY <1>1, <1>2, LabelsApart DEF Testing, PastGate
<1>5. state = "IN_PROGRESS"
  BY <1>1 DEF GateInv, OneInitOwner
<1>6. OneInitOwner' /\ SeenInv'
  BY <1>1, <1>3, <1>4, <1>5 DEF GateInv, OneInitOwner, SeenInv
<1>7. OpenInv'
  BY <1>1, <1>4, <1>5 DEF GateInv, OpenInv, PastGate
<1>8. k >= FirstTest /\ passed' = {Tests[j] : j \in FirstTest..k}
  <2>1. k >= FirstTest /\ passed = {Tests[j] : j \in FirstTest..k-1}
    BY <1>1 DEF GateInv, TestsInv
  <2>2. FirstTest..k = (FirstTest..k-1) \cup {k}
    BY <2>1, TestFacts
  <2>3. QED  BY <1>1, <2>1, <2>2
<1>9. TestsInv'
  <2>1. \A u \in Thread \ {t} : \A j \in 1..4 : pc'[u] # Tests[j] /\ pc'[u] # "store_approved"
    BY <1>3 DEF Testing, TestNames
  <2>2. ASSUME NEW j \in 1..4, pc'[t] = Tests[j]
        PROVE  j >= FirstTest /\ passed' = {Tests[i] : i \in FirstTest..j-1}
    <3>1. k < 4 /\ j = k + 1
      BY <1>1, <2>2, TestFacts
    <3>2. j - 1 = k
      BY <3>1
    <3>3. QED  BY <1>8, <3>1, <3>2, TestFacts
  <2>3. pc'[t] = "store_approved" => passed' = Required
    <3>1. pc'[t] = "store_approved" => k = 4
      BY <1>1, TestFacts
    <3>2. QED  BY <1>8, <3>1 DEF Required
  <2>4. "mldsa44_kat" \in passed' => OqsBackend
    BY <1>1 DEF PassTest, CanPass, GateInv, TestsInv
  <2>5. QED  BY <1>1, <1>5, <2>1, <2>2, <2>3, <2>4 DEF TestsInv
<1>10. QED  BY <1>6, <1>7, <1>9 DEF GateInv

LEMMA InitStepGate ==
  ASSUME TypeInv, GateInv, NEW t \in Thread, InitStep(t)
  PROVE  GateInv'
<1>1. CASE StoreApproved(t)
  <2>1. /\ Testing(t) /\ state' = "APPROVED" /\ Return(t, "Ok")
        /\ seen' = [seen EXCEPT ![t] = state'] /\ UNCHANGED passed
        /\ inited' \subseteq inited \cup {t}
    BY <1>1 DEF StoreApproved, Testing
  <2>2. passed = Required
    BY <1>1 DEF StoreApproved, GateInv, TestsInv
  <2>3. QED  BY <2>1, <2>2, SettleGate DEF Settled
<1>2. ASSUME NEW k \in 1..4, FailTest(t, k)  PROVE GateInv'
  <2>1. /\ Testing(t) /\ state' = "ERROR" /\ Return(t, "Internal")
        /\ seen' = [seen EXCEPT ![t] = state'] /\ UNCHANGED <<passed, inited>>
    BY <1>2 DEF FailTest, Testing, TestNames
  <2>2. t \notin inited
    BY <2>1 DEF GateInv, OneInitOwner, OpenInv
  <2>3. QED  BY <2>1, <2>2, SettleGate DEF Settled
<1>3. QED  BY <1>1, <1>2, CompareExchangeGate, PassTestGate DEF InitStep

LEMMA GateStep == TypeInv /\ GateInv /\ [Next]_vars => GateInv'
<1> SUFFICES ASSUME TypeInv, GateInv, [Next]_vars  PROVE GateInv'
  OBVIOUS
<1>1. CASE Restart
  <2>1. \A t \in Thread : ~Testing(t)' /\ ~PastGate(t)'
    BY <1>1, LabelsApart DEF Restart, Testing, PastGate
  <2>2. OneInitOwner' /\ SeenInv' /\ OpenInv'
    BY <1>1, <2>1 DEF Restart, OneInitOwner, SeenInv, OpenInv, Rank
  <2>3. TestsInv'
    BY <1>1, TestFacts DEF Restart, TestsInv
  <2>4. QED  BY <2>2, <2>3 DEF GateInv
<1>2. ASSUME NEW t \in Thread, Begin(t) \/ Step(t)  PROVE GateInv'
  BY <1>2, BeginGate, InitStepGate, VerifyStepQuiet, SinkStepQuiet, FileStepQuiet, QuietStep
  DEF Step
<1>3. CASE UNCHANGED vars
  BY <1>3
  DEF vars, GateInv, OneInitOwner, SeenInv, TestsInv, OpenInv, Testing, PastGate
<1>4. QED  BY <1>1, <1>2, <1>3 DEF Next

-----------------------------------------------------------------------------
(* The theorems.                                                             *)

LEMMA GateAlways == Spec => [](TypeInv /\ GateInv)
BY TypeInit, TypeStep, GateInit, GateStep, PTL DEF Spec

\* One thread runs the self-tests, exactly while the module is IN_PROGRESS.
THEOREM OneOwner == Spec => []OneInitOwner
<1>1. GateInv => OneInitOwner
  BY DEF GateInv
<1>2. QED  BY <1>1, GateAlways, PTL

\* No thread is past the gate, or was told Ok by andna_init, in a process
\* whose required self-tests have not all passed.
THEOREM TestsBeforeCrypto == Spec => []NoCryptoBeforeTests
<1>1. GateInv => NoCryptoBeforeTests
  <2> SUFFICES ASSUME GateInv, NEW t \in Thread, PastGate(t) \/ t \in inited
               PROVE  state = "APPROVED" /\ passed = Required /\ OqsBackend
    BY DEF NoCryptoBeforeTests
  <2>1. state = "APPROVED"
    BY DEF GateInv, OpenInv
  <2>2. QED  BY <2>1, RequiredHasKat DEF GateInv, TestsInv
<1>2. QED  BY <1>1, GateAlways, PTL

\* A thread whose andna_init returned Ok is never refused by the gate.
THEOREM OkOpensGate == Spec => []InitOkOpensGate
<1>1. TypeInv /\ GateInv => InitOkOpensGate
  <2> SUFFICES ASSUME TypeInv, GateInv, NEW t \in inited  PROVE Readable(t) = {"APPROVED"}
    BY DEF InitOkOpensGate
  <2>1. t \in Thread
    BY DEF TypeInv, TypeOK
  <2>2. QED  BY <2>1, ReadableFacts
<1>2. QED  BY <1>1, GateAlways, PTL

\* APPROVED and ERROR are left only by the death of the process.
THEOREM Settles == Spec => SettledForGood
<1>1. TypeInv /\ GateInv /\ [Next]_vars
        => [(state \in Settled /\ restarts' = restarts) => (state' = state)]_vars
  <2> SUFFICES ASSUME TypeInv, GateInv, Next, state \in Settled, restarts' = restarts
               PROVE  state' = state
    OBVIOUS
  <2>1. CASE Restart
    BY <2>1 DEF Restart, TypeInv, TypeOK
  <2>2. ASSUME NEW t \in Thread, Begin(t)  PROVE state' = state
    BY <2>2
    DEF Begin, CallInit, CallExport, CallVerifyFrame, CallCrypto, Gate, GateOpen, CallBadArguments,
        moduleVars
  <2>3. ASSUME NEW t \in Thread, InitStep(t)  PROVE state' = state
    <3>1. CASE CompareExchange(t)
      BY <3>1 DEF CompareExchange, TakesInit, LosesWith, Settled
    <3>2. ASSUME NEW k \in 1..4, PassTest(t, k)  PROVE state' = state
      BY <3>2 DEF PassTest
    <3>3. ~Testing(t)
      BY DEF GateInv, OneInitOwner, Settled
    <3>4. QED
      BY <2>3, <3>1, <3>2, <3>3 DEF InitStep, StoreApproved, FailTest, Testing, TestNames
  <2>4. ASSUME NEW t \in Thread, VerifyStep(t) \/ SinkStep(t) \/ FileStep(t)
        PROVE  state' = state
    BY <2>4, VerifyStepQuiet, SinkStepQuiet, FileStepQuiet DEF Quiet, moduleVars
  <2>5. QED  BY <2>1, <2>2, <2>3, <2>4 DEF Next, Step
<1>2. QED  BY <1>1, GateAlways, PTL DEF Spec, SettledForGood

-----------------------------------------------------------------------------
(* Calls go on and return.                                                   *)

\* How many steps a thread at a label has at most before it until its call returns.
StepsLeft ==
  [label \in Labels |->
    CASE label = "idle" -> 0
      [] label \in {"compute", "store_approved", "unlock", "write_file"} -> 1
      [] label \in {"integrity", "push", "create_file"} -> 2
      [] label \in {"mldsa44_kat", "append", "snapshot"} -> 3
      [] label \in {"shake256_kat", "lock"} -> 4
      [] label \in {"hmac_cast", "init_sink"} -> 5
      [] label \in {"compare_exchange", "verify"} -> 6]

\* No call goes round in circles: each step taken inside calls is of one thread,
\* which it brings nearer to its return, and it sets no other thread back.
CallsAdvance ==
  [][calls' = calls /\ restarts' = restarts =>
       \E t \in Thread :
         /\ StepsLeft[pc'[t]] < StepsLeft[pc[t]]
         /\ \A u \in Thread \ {t} : pc'[u] = pc[u]]_vars

LEMMA StepsLeftOf ==
  /\ StepsLeft["idle"] = 0 /\ StepsLeft["compute"] = 1
  /\ StepsLeft["verify"] = 6 /\ StepsLeft["init_sink"] = 5 /\ StepsLeft["lock"] = 4
  /\ StepsLeft["append"] = 3 /\ StepsLeft["push"] = 2 /\ StepsLeft["unlock"] = 1
  /\ StepsLeft["snapshot"] = 3 /\ StepsLeft["create_file"] = 2 /\ StepsLeft["write_file"] = 1
  /\ StepsLeft["compare_exchange"] = 6 /\ StepsLeft["store_approved"] = 1
  /\ \A k \in 1..4 : StepsLeft[Tests[k]] = 6 - k
<1>1. Labels = {"idle", "compute", "compare_exchange", "store_approved",
                "hmac_cast", "shake256_kat", "mldsa44_kat", "integrity",
                "verify", "append", "push", "unlock", "snapshot", "create_file",
                "write_file", "init_sink", "lock"}
  BY TestFacts DEF Labels, InitLabels, VerifyLabels, ExportLabels, SinkLabels
<1>2. /\ StepsLeft["hmac_cast"] = 5 /\ StepsLeft["shake256_kat"] = 4
      /\ StepsLeft["mldsa44_kat"] = 3 /\ StepsLeft["integrity"] = 2
  BY <1>1 DEF StepsLeft
<1>3. \A k \in 1..4 : k = 1 \/ k = 2 \/ k = 3 \/ k = 4
  OBVIOUS
<1>4. \A k \in 1..4 : StepsLeft[Tests[k]] = 6 - k
  BY <1>2, <1>3, TestFacts
<1>5. /\ StepsLeft["idle"] = 0 /\ StepsLeft["compute"] = 1
      /\ StepsLeft["verify"] = 6 /\ StepsLeft["init_sink"] = 5 /\ StepsLeft["lock"] = 4
      /\ StepsLeft["append"] = 3 /\ StepsLeft["push"] = 2 /\ StepsLeft["unlock"] = 1
  BY <1>1 DEF StepsLeft
<1>6. /\ StepsLeft["snapshot"] = 3 /\ StepsLeft["create_file"] = 2 /\ StepsLeft["write_file"] = 1
      /\ StepsLeft["compare_exchange"] = 6 /\ StepsLeft["store_approved"] = 1
  BY <1>1 DEF StepsLeft
<1> QED  BY <1>4, <1>5, <1>6

\* Thread t moves to a label nearer to its return, and it alone.
Nearer(t) ==
  /\ StepsLeft[pc'[t]] < StepsLeft[pc[t]]
  /\ \A u \in Thread \ {t} : pc'[u] = pc[u]

LEMMA GoesNearer ==
  ASSUME TypeInv, NEW t \in Thread, NEW label, Goto(t, label),
         StepsLeft[label] < StepsLeft[pc[t]]
  PROVE  Nearer(t)
BY DEF Goto, Nearer, TypeInv, TypeOK

LEMMA ReturnNearer ==
  ASSUME TypeInv, NEW t \in Thread, NEW code, Return(t, code), StepsLeft[pc[t]] > 0
  PROVE  Nearer(t)
BY GoesNearer, StepsLeftOf DEF Return

LEMMA InitStepNearer ==
  ASSUME TypeInv, NEW t \in Thread, InitStep(t)
  PROVE  Nearer(t)
<1>1. CASE CompareExchange(t)
  <2>1. pc[t] = "compare_exchange"
    BY <1>1 DEF CompareExchange
  <2>2. CASE TakesInit(state)
    <3>1. Goto(t, Tests[FirstTest]) /\ FirstTest \in 1..4
      BY <1>1, <2>2, TestFacts DEF CompareExchange
    <3>2. StepsLeft[Tests[FirstTest]] < StepsLeft[pc[t]]
      BY <2>1, <3>1, StepsLeftOf
    <3> QED  BY <3>1, <3>2, GoesNearer
  <2>3. CASE ~TakesInit(state)
    BY <1>1, <2>1, <2>3, ReturnNearer, StepsLeftOf DEF CompareExchange
  <2> QED  BY <2>2, <2>3
<1>2. ASSUME NEW k \in 1..4, PassTest(t, k)
      PROVE  Nearer(t)
  <2>1. pc[t] = Tests[k] /\ Goto(t, IF k < 4 THEN Tests[k+1] ELSE "store_approved")
    BY <1>2 DEF PassTest
  <2>2. CASE k < 4
    <3>1. k + 1 \in 1..4
      BY <2>2
    <3>2. StepsLeft[Tests[k+1]] < StepsLeft[pc[t]]
      BY <2>1, <3>1, StepsLeftOf
    <3> QED  BY <2>1, <2>2, <3>2, GoesNearer
  <2>3. CASE k = 4
    <3>1. StepsLeft["store_approved"] < StepsLeft[pc[t]]
      BY <2>1, <2>3, StepsLeftOf
    <3> QED  BY <2>1, <2>3, <3>1, GoesNearer
  <2> QED  BY <2>2, <2>3
<1>3. ASSUME NEW k \in 1..4, FailTest(t, k)
      PROVE  Nearer(t)
  BY <1>3, ReturnNearer, StepsLeftOf DEF FailTest
<1>4. CASE StoreApproved(t)
  BY <1>4, ReturnNearer, StepsLeftOf DEF StoreApproved
<1> QED  BY <1>1, <1>2, <1>3, <1>4 DEF InitStep

LEMMA OtherStepNearer ==
  ASSUME TypeInv, NEW t \in Thread, VerifyStep(t) \/ SinkStep(t) \/ FileStep(t)
  PROVE  Nearer(t)
<1>1. CASE VerifyFrame(t) \/ InitSinkIfNeeded(t) \/ MakeRecord(t) \/ Push(t) \/ Snapshot(t) \/ CreateFile(t)
  BY <1>1, GoesNearer, StepsLeftOf
  DEF VerifyFrame, InitSinkIfNeeded, MakeRecord, Push, Snapshot, CreateFile
<1>2. CASE \/ Compute(t) \/ VerifyPanics(t) \/ PushPanics(t) \/ Unlock(t)
           \/ CreateFileFails(t) \/ WriteFile(t) \/ WriteFileFails(t)
  BY <1>2, ReturnNearer, StepsLeftOf
  DEF Compute, VerifyPanics, PushPanics, Unlock, CreateFileFails, WriteFile, WriteFileFails
<1>3. CASE Lock(t)
  <2>1. pc[t] = "lock"
    BY <1>3 DEF Lock
  <2>2. CASE poisoned
    BY <1>3, <2>1, <2>2, ReturnNearer, StepsLeftOf DEF Lock
  <2>3. CASE ~poisoned
    <3>1. PICK label \in {"append", "snapshot"} : Goto(t, label)
      BY <1>3, <2>3 DEF Lock
    <3> QED  BY <2>1, <3>1, GoesNearer, StepsLeftOf
  <2> QED  BY <2>2, <2>3
<1> QED  BY <1>1, <1>2, <1>3 DEF VerifyStep, SinkStep, FileStep

LEMMA StepNearer ==
  ASSUME TypeInv, NEW t \in Thread, Step(t)
  PROVE  Nearer(t)
BY InitStepNearer, OtherStepNearer DEF Step

\* Each step taken inside calls brings one of them nearer to its return and
\* moves no other: no call goes round in circles or sets another one back.
THEOREM EachAdvances == Spec => CallsAdvance
<1>1. TypeInv /\ [Next]_vars
        => [calls' = calls /\ restarts' = restarts => \E t \in Thread : Nearer(t)]_vars
  <2> SUFFICES ASSUME TypeInv, Next, calls' = calls, restarts' = restarts
               PROVE  \E t \in Thread : Nearer(t)
    OBVIOUS
  <2>1. ~Restart
    BY DEF Restart, TypeInv, TypeOK
  <2>2. ASSUME NEW t \in Thread, Begin(t)
        PROVE  FALSE
    <3>1. calls' = [calls EXCEPT ![t] = @ + 1]
      BY <2>2
      DEF Begin, CallInit, CallExport, CallVerifyFrame, CallCrypto, Gate, CallBadArguments,
          Began, BeganAndReturned
    <3> QED  BY <3>1 DEF TypeInv, TypeOK
  <2> QED  BY <2>1, <2>2, StepNearer DEF Next
<1> QED  BY <1>1, TypeInit, TypeStep, PTL DEF Spec, CallsAdvance, Nearer

-----------------------------------------------------------------------------
(* The mutex.                                                                *)

\* Who holds the mutex is at a step after which it has given it up or holds it on,
\* and a mutex that a panic has poisoned is that of a sink.
HeldInv ==
  /\ owner # NoThread => pc[owner] \in Holding
  /\ poisoned => sink # None

LEMMA WaitsForHolder ==
  ASSUME TypeInv, HeldInv
  PROVE  NobodyStuck
<1> SUFFICES ASSUME NEW t \in Thread, pc[t] # "idle"
             PROVE  \E u \in Thread : Unhindered(u)
  BY DEF NobodyStuck
<1>1. CASE owner = NoThread
  BY <1>1 DEF Unhindered, MutexFree
<1>2. CASE owner # NoThread
  <2>1. owner \in Thread /\ pc[owner] \in Holding
    BY <1>2 DEF TypeInv, TypeOK, HeldInv
  <2> QED  BY <2>1 DEF Unhindered, Holding
<1> QED  BY <1>1, <1>2

\* A step of t that neither holds the mutex before nor after it.
LEMMA BesideMutex ==
  ASSUME TypeInv, HeldInv, NEW t \in Thread, owner' = owner, pc[t] \notin Holding,
         \A u \in Thread \ {t} : pc'[u] = pc[u],
         poisoned' = poisoned, sink # None => sink' # None
  PROVE  HeldInv'
BY DEF HeldInv, TypeInv, TypeOK

LEMMA HeldStep == TypeInv /\ HeldInv /\ [Next]_vars => HeldInv'
<1> SUFFICES ASSUME TypeInv, HeldInv, [Next]_vars  PROVE HeldInv'
  OBVIOUS
<1>1. CASE Restart
  BY <1>1 DEF Restart, HeldInv
<1>2. ASSUME NEW t \in Thread, Begin(t)
      PROVE  HeldInv'
  <2>1. pc[t] = "idle" /\ UNCHANGED <<owner, poisoned, sink>>
    BY <1>2
    DEF Begin, CallInit, CallExport, CallVerifyFrame, CallCrypto, CallBadArguments, Gate, MayCall, sinkVars
  <2>2. \A u \in Thread \ {t} : pc'[u] = pc[u]
    BY <1>2, BeginOthersCount
  <2> QED  BY <2>1, <2>2, BesideMutex DEF Holding
<1>3. ASSUME NEW t \in Thread, Step(t)
      PROVE  HeldInv'
  <2>1. \A u \in Thread \ {t} : pc'[u] = pc[u]
    BY <1>3, StepNearer DEF Nearer
  <2>2. CASE InitStep(t) \/ VerifyStep(t) \/ FileStep(t) \/ InitSinkIfNeeded(t)
    <3>1. UNCHANGED <<owner, poisoned>> /\ (sink # None => sink' # None)
      BY <2>2
      DEF InitStep, CompareExchange, PassTest, FailTest, StoreApproved, VerifyStep, Compute, VerifyFrame,
          VerifyPanics, FileStep, CreateFile, CreateFileFails, WriteFile, WriteFileFails, InitSinkIfNeeded,
          sinkVars
    <3>2. pc[t] \notin Holding
      BY <2>2, TestFacts
      DEF Holding, InitStep, CompareExchange, PassTest, FailTest, StoreApproved, VerifyStep, Compute,
          VerifyFrame, VerifyPanics, FileStep, CreateFile, CreateFileFails, WriteFile, WriteFileFails,
          InitSinkIfNeeded, TestNames
    <3> QED  BY <2>1, <3>1, <3>2, BesideMutex
  <2>3. CASE Lock(t)
    <3>1. CASE poisoned
      BY <2>1, <2>3, <3>1, BesideMutex DEF Lock, Holding
    <3>2. CASE ~poisoned
      BY <2>3, <3>2 DEF Lock, Goto, HeldInv, Holding, TypeInv, TypeOK
    <3> QED  BY <3>1, <3>2
  <2>4. CASE MakeRecord(t) \/ Push(t)
    <3>1. sink # None => sink' # None
      BY <2>4, SomeProperties DEF MakeRecord, Push, sinkVars
    <3> QED
      BY <2>1, <2>4, <3>1 DEF MakeRecord, Push, Goto, HeldInv, Holding, TypeInv, TypeOK, sinkVars
  <2>5. CASE PushPanics(t) \/ Unlock(t) \/ Snapshot(t)
    BY <2>5, SomeProperties DEF PushPanics, Unlock, Snapshot, HeldInv
  <2> QED  BY <1>3, <2>2, <2>3, <2>4, <2>5 DEF Step, SinkStep
<1>4. CASE UNCHANGED vars
  BY <1>4 DEF vars, HeldInv
<1> QED  BY <1>1, <1>2, <1>3, <1>4 DEF Next

LEMMA HeldAlways == Spec => [](TypeInv /\ HeldInv)
<1>1. Init => HeldInv
  BY DEF Init, HeldInv
<1> QED  BY <1>1, HeldStep, TypeInit, TypeStep, PTL DEF Spec

\* As long as a call is open some thread in a call waits for nobody.
THEOREM SomebodyGoesOn == Spec => []NobodyStuck
BY HeldAlways, WaitsForHolder, PTL

\* After a panic under the mutex the sink is never written again in this
\* process, and nothing is answered but Internal.
THEOREM PanicFailsClosed == Spec => FailsClosed
<1> DEFINE Closed ==
      /\ poisoned' /\ sink' = sink
      /\ \A f \in Frame, code \in AndnaErr \ {"Internal"} :
           answered'[<<f, code>>] = answered[<<f, code>>]
<1>1. TypeInv /\ LogInv /\ HeldInv /\ [Next]_vars
        => [poisoned /\ restarts' = restarts => Closed]_vars
  <2> SUFFICES ASSUME TypeInv, LogInv, HeldInv, Next, poisoned, restarts' = restarts
               PROVE  Closed
    OBVIOUS
  <2>1. ~Restart
    BY DEF Restart, TypeInv, TypeOK
  <2>2. ASSUME NEW t \in Thread, Begin(t)
        PROVE  Closed
    BY <2>2
    DEF Begin, CallInit, CallExport, CallVerifyFrame, CallCrypto, CallBadArguments, Gate, sinkVars
  <2>3. ASSUME NEW t \in Thread, Answer(t, "Internal"), call[t].frame # None
        PROVE  \A f \in Frame, code \in AndnaErr \ {"Internal"} :
                 answered'[<<f, code>>] = answered[<<f, code>>]
    BY <2>3 DEF Answer, TypeInv, TypeOK
  <2>4. ASSUME NEW t \in Thread, Step(t)
        PROVE  Closed
    <3>1. pc[t] \notin Holding
      BY DEF LogInv, CallLog
    <3>2. CASE InitStep(t) \/ Compute(t) \/ VerifyFrame(t) \/ FileStep(t)
      BY <3>2
      DEF InitStep, CompareExchange, PassTest, FailTest, StoreApproved, Compute, VerifyFrame, FileStep,
          CreateFile, CreateFileFails, WriteFile, WriteFileFails, sinkVars
    <3>3. CASE VerifyPanics(t)
      BY <2>3, <3>3 DEF VerifyPanics, TypeInv, CallShape, VerifyLabels
    <3>4. CASE InitSinkIfNeeded(t)
      BY <3>4 DEF InitSinkIfNeeded, HeldInv
    <3>5. CASE Lock(t)
      <4>1. CASE call[t].op = Some("andna_verify_frame_v2")
        <5>1. call[t].frame # None /\ Answer(t, "Internal") /\ poisoned' = poisoned /\ sink' = sink
          BY <3>5, <4>1, SomeProperties DEF Lock, PoisonedCode, TypeInv, CallShape, SinkLabels
        <5> QED  BY <2>3, <5>1
      <4>2. CASE call[t].op # Some("andna_verify_frame_v2")
        BY <3>5, <4>2 DEF Lock
      <4> QED  BY <4>1, <4>2
    <3> QED
      BY <2>4, <3>1, <3>2, <3>3, <3>4, <3>5
      DEF Step, VerifyStep, SinkStep, MakeRecord, Push, PushPanics, Unlock, Snapshot, Holding
  <2> QED  BY <2>1, <2>2, <2>4 DEF Next
<1> QED  BY <1>1, LogAlways, HeldAlways, PTL DEF Spec, FailsClosed

-----------------------------------------------------------------------------
(* The refinement of the ledger of verdicts.                                 *)

Pairs == ({ZeroHash} \cup {Sha3(f) : f \in Frame}) \X AndnaErr

LEMMA EntriesFacts ==
  ASSUME NEW rs \in Seq(AuditRecord)
  PROVE  /\ Entries(rs) \in Seq(Pairs) /\ Len(Entries(rs)) = Len(rs)
         /\ \A i \in 1..Len(rs) :
              Entries(rs)[i] = <<rs[i].content.frame_hash, rs[i].content.err_code>>
<1>1. \A i \in 1..Len(rs) :
        <<rs[i].content.frame_hash, rs[i].content.err_code>> \in Pairs
  <2> SUFFICES ASSUME NEW i \in 1..Len(rs)
               PROVE  <<rs[i].content.frame_hash, rs[i].content.err_code>> \in Pairs
    OBVIOUS
  <2>1. rs[i] \in AuditRecord
    BY LenProperties
  <2>2. rs[i].content \in Content
    BY <2>1 DEF AuditRecord
  <2> QED  BY <2>2 DEF Content, Pairs
<1>2. Len(rs) \in Nat
  BY LenProperties
<1> QED  BY <1>1, <1>2 DEF Entries

LEMMA EntriesEmpty == Entries(<<>>) = <<>>
<1>1. <<>> \in Seq(AuditRecord) /\ Len(<<>>) = 0
  BY EmptySeq
<1>2. Entries(<<>>) \in Seq(Pairs) /\ Len(Entries(<<>>)) = 0
  BY <1>1, EntriesFacts
<1> QED  BY <1>2, EmptySeq

LEMMA EntriesAppend ==
  ASSUME NEW rs \in Seq(AuditRecord), NEW r \in AuditRecord
  PROVE  Entries(Append(rs, r)) =
           Append(Entries(rs), <<r.content.frame_hash, r.content.err_code>>)
<1> DEFINE e == <<r.content.frame_hash, r.content.err_code>>
           a == Append(rs, r)
           b == Append(Entries(rs), e)
<1>1. e \in Pairs
  BY DEF Pairs, AuditRecord, Content
<1>2. /\ a \in Seq(AuditRecord) /\ Len(a) = Len(rs) + 1 /\ Len(rs) \in Nat
      /\ \A i \in 1..Len(rs) : a[i] = rs[i]
      /\ a[Len(rs) + 1] = r
  BY AppendProperties, LenProperties
<1>3. /\ Entries(rs) \in Seq(Pairs) /\ Len(Entries(rs)) = Len(rs)
      /\ \A i \in 1..Len(rs) :
           Entries(rs)[i] = <<rs[i].content.frame_hash, rs[i].content.err_code>>
  BY EntriesFacts
<1> HIDE DEF a
<1>4. /\ Entries(a) \in Seq(Pairs) /\ Len(Entries(a)) = Len(rs) + 1
      /\ \A i \in 1..Len(rs) + 1 :
           Entries(a)[i] = <<a[i].content.frame_hash, a[i].content.err_code>>
  BY <1>2, EntriesFacts
<1> HIDE DEF e
<1>5. /\ b \in Seq(Pairs) /\ Len(b) = Len(rs) + 1 /\ b[Len(rs) + 1] = e
      /\ \A i \in 1..Len(rs) : b[i] = Entries(rs)[i]
  BY <1>1, <1>3, AppendProperties
<1> HIDE DEF b
<1>6. \A i \in 1..Len(rs) + 1 : Entries(a)[i] = b[i]
  <2> SUFFICES ASSUME NEW i \in 1..Len(rs) + 1 PROVE Entries(a)[i] = b[i]
    OBVIOUS
  <2>1. CASE i = Len(rs) + 1
    BY <1>2, <1>4, <1>5, <2>1 DEF e
  <2>2. CASE i # Len(rs) + 1
    <3>1. i \in 1..Len(rs)
      BY <1>2, <2>2
    <3> QED  BY <1>2, <1>3, <1>4, <1>5, <3>1
  <2> QED  BY <2>1, <2>2
<1>7. Entries(a) = b
  BY <1>4, <1>5, <1>6, SeqEqual
<1> QED  BY <1>7 DEF a, b, e

LEMMA EntriesFirst ==
  ASSUME NEW a \in Seq(AuditRecord), NEW rs \in Seq(AuditRecord), IsPrefixOf(a, rs)
  PROVE  Entries(a) \in Ledger!FirstParts(Entries(rs))
<1> DEFINE part == SubSeq(Entries(rs), 1, Len(a))
<1>1. /\ Len(a) \in Nat /\ Len(rs) \in Nat /\ Len(a) <= Len(rs)
      /\ \A i \in 1..Len(a) : a[i] = rs[i]
  BY LenProperties DEF IsPrefixOf
<1>2. /\ Entries(rs) \in Seq(Pairs) /\ Len(Entries(rs)) = Len(rs)
      /\ \A i \in 1..Len(rs) :
           Entries(rs)[i] = <<rs[i].content.frame_hash, rs[i].content.err_code>>
      /\ Entries(a) \in Seq(Pairs) /\ Len(Entries(a)) = Len(a)
      /\ \A i \in 1..Len(a) :
           Entries(a)[i] = <<a[i].content.frame_hash, a[i].content.err_code>>
  BY EntriesFacts
<1>3. \A i \in 1..Len(a) : Entries(rs)[i] \in Pairs
  BY <1>1, <1>2, LenProperties
<1>4. /\ part \in Seq(Pairs) /\ Len(part) = Len(a)
      /\ \A i \in 1..Len(a) : part[i] = Entries(rs)[i]
  <2>1. /\ part \in Seq(Pairs)
        /\ Len(part) = IF 1 <= Len(a) THEN Len(a) - 1 + 1 ELSE 0
        /\ \A i \in 1..Len(a) - 1 + 1 : part[i] = Entries(rs)[1 + i - 1]
    BY <1>1, <1>3, SubSeqProperties, 1 \in Int, Len(a) \in Int
  <2> HIDE DEF part
  <2> QED  BY <1>1, <2>1
<1> HIDE DEF part
<1>5. \A i \in 1..Len(a) : Entries(a)[i] = part[i]
  <2> SUFFICES ASSUME NEW i \in 1..Len(a) PROVE Entries(a)[i] = part[i]
    OBVIOUS
  <2>1. i \in 1..Len(rs) /\ a[i] = rs[i]
    BY <1>1
  <2> QED  BY <1>2, <1>4, <2>1
<1>6. Entries(a) = part
  BY <1>2, <1>4, <1>5, SeqEqual
<1>7. Len(a) \in 0..Len(Entries(rs))
  BY <1>1, <1>2
<1> QED  BY <1>6, <1>7, Zenon DEF Ledger!FirstParts, part

LEMMA OpenedRecords ==
  ASSUME NEW run \in Nat, NEW f \in AuditFile
  PROVE  InitSink(run, f).records \in {<<>>, f.recs}
<1>1. CASE InitSink(run, f) = NewSink(run)
  BY <1>1 DEF NewSink
<1>2. CASE InitSink(run, f) # NewSink(run)
  BY <1>2, InitSinkCases
<1> QED  BY <1>1, <1>2

\* A step the ledger does not see.
LedgerStutters == UNCHANGED <<state, sink, file>>

LEMMA Stutters ==
  ASSUME LedgerStutters
  PROVE  UNCHANGED Ledger!ledgerVars
BY DEF LedgerStutters, Ledger!ledgerVars, LedgerMode, Log, Entries

LEMMA LogInSeq ==
  ASSUME TypeInv
  PROVE  Log \in Seq(AuditRecord) /\ file.recs \in Seq(AuditRecord)
BY LogTyped DEF TypeInv, TypeOK, AuditFile

LEMMA LedgerInit == Init => Ledger!LedgerInit
<1> SUFFICES ASSUME Init  PROVE Ledger!LedgerInit
  OBVIOUS
<1>1. LedgerMode = "closed" /\ Log = <<>> /\ file.recs = <<>>
  BY DEF Init, LedgerMode, Log, NoFile
<1> QED  BY <1>1, EntriesEmpty DEF Ledger!LedgerInit

LEMMA InitStepLedger ==
  ASSUME TypeInv, GateInv, NEW t \in Thread, InitStep(t)
  PROVE  [Ledger!LedgerNext]_(Ledger!ledgerVars)
<1>1. /\ Entries(Log)' = Entries(Log) /\ Entries(file.recs)' = Entries(file.recs)
      /\ UNCHANGED <<sink, file>>
  BY DEF InitStep, CompareExchange, StoreApproved, PassTest, FailTest, sinkVars, Log, Entries
<1>2. CASE state' = state
  BY <1>1, <1>2, Stutters DEF LedgerStutters
<1>3. CASE CompareExchange(t) /\ state' # state
  <2>1. LedgerMode = "closed" /\ LedgerMode' = "testing"
    BY <1>3 DEF CompareExchange, TakesInit, LedgerMode
  <2> QED  BY <1>1, <2>1 DEF Ledger!LedgerNext, Ledger!Begin
<1>4. CASE Testing(t) /\ state' \in {"APPROVED", "ERROR"}
  <2>1. LedgerMode = "testing" /\ LedgerMode' \in {"open", "failed"}
    BY <1>4 DEF GateInv, OneInitOwner, LedgerMode
  <2> QED  BY <1>1, <2>1 DEF Ledger!LedgerNext, Ledger!Settle
<1>5. StoreApproved(t) => Testing(t) /\ state' = "APPROVED"
  BY DEF StoreApproved, Testing
<1>6. ASSUME NEW k \in 1..4
      PROVE  /\ PassTest(t, k) => state' = state
             /\ FailTest(t, k) => Testing(t) /\ state' = "ERROR"
  BY DEF PassTest, FailTest, moduleVars, Testing, TestNames
<1> QED  BY <1>2, <1>3, <1>4, <1>5, <1>6 DEF InitStep

LEMMA PushLedger ==
  ASSUME TypeInv, GateInv, LogInv, NEW t \in Thread, Push(t)
  PROVE  Ledger!LedgerNext
<1> DEFINE rec == call[t].rec[1]
           f == call[t].frame[1]
<1>1. /\ pc[t] = "push" /\ sink' = Some(PushRecord(sink[1], rec))
      /\ UNCHANGED <<state, file>>
  BY DEF Push, moduleVars
<1>2. sink # None /\ rec \in AuditRecord /\ f \in Frame
  BY <1>1, SomeProperties DEF TypeInv, TypeOK, CallShape, VerifyLabels, Calls
<1>3. /\ rec.content.frame_hash = Sha3(f)
      /\ rec.content.err_code \in {Verdict[f], "Internal"}
  BY <1>1 DEF LogInv, CallLog, Judged, Holding
<1>4. LedgerMode = "open" /\ LedgerMode' = LedgerMode
  BY <1>1 DEF GateInv, OpenInv, PastGate, VerifyLabels, LedgerMode
<1> DEFINE e == <<rec.content.frame_hash, rec.content.err_code>>
<1>5. e \in UNION {{<<Sha3(g), Verdict[g]>>, <<Sha3(g), "Internal">>} : g \in Frame}
  BY <1>2, <1>3
<1>6. Entries(Log)' = Append(Entries(Log), e)
  <2>1. sink' # None /\ sink'[1] = PushRecord(sink[1], rec)
    BY <1>1, SomeProperties
  <2>2. PushRecord(sink[1], rec).records = Append(sink[1].records, rec)
    BY DEF PushRecord
  <2>3. Log' = Append(Log, rec)
    BY <1>2, <2>1, <2>2 DEF Log
  <2> QED  BY <1>2, <2>3, LogInSeq, EntriesAppend DEF Entries
<1>7. Entries(file.recs)' = Entries(file.recs)
  BY <1>1 DEF Entries
<1> QED  BY <1>4, <1>5, <1>6, <1>7 DEF Ledger!LedgerNext, Ledger!Enter

LEMMA SinkStepLedger ==
  ASSUME TypeInv, GateInv, LogInv, NEW t \in Thread, SinkStep(t)
  PROVE  [Ledger!LedgerNext]_(Ledger!ledgerVars)
<1>1. CASE Lock(t) \/ MakeRecord(t) \/ Unlock(t) \/ Snapshot(t)
  <2>1. LedgerStutters
    BY <1>1 DEF Lock, MakeRecord, Unlock, Snapshot, LedgerStutters, sinkVars, moduleVars
  <2> QED  BY <2>1, Stutters
<1>2. CASE InitSinkIfNeeded(t)
  <2>1. UNCHANGED <<state, file>>
    BY <1>2 DEF InitSinkIfNeeded, moduleVars
  <2>2. CASE sink # None
    BY <1>2, <2>1, <2>2, Stutters DEF InitSinkIfNeeded, LedgerStutters
  <2>3. CASE sink = None
    <3> DEFINE opened == InitSink(restarts, file)
    <3>1. opened.records = <<>> \/ opened.records = file.recs
      <4>1. restarts \in Nat /\ file \in AuditFile
        BY BoundAssumption DEF TypeInv, TypeOK
      <4> QED  BY <4>1, OpenedRecords
    <3>2. sink' = Some(opened)
      BY <1>2, <2>3 DEF InitSinkIfNeeded
    <3> HIDE DEF opened
    <3>3. sink' # None /\ sink'[1] = opened
      BY <3>2, SomeProperties
    <3>4. Log = <<>> /\ Log' = opened.records
      BY <2>3, <3>3 DEF Log
    <3>5. LedgerMode' = LedgerMode /\ Entries(file.recs)' = Entries(file.recs)
      BY <2>1 DEF LedgerMode, Entries
    <3>6. Entries(Log) = <<>>
      BY <3>4, EntriesEmpty
    <3>7. CASE opened.records = <<>>
      BY <3>4, <3>5, <3>7 DEF Ledger!ledgerVars, Entries
    <3>8. CASE opened.records = file.recs
      <4>1. Entries(Log)' = Entries(file.recs)
        BY <3>4, <3>8 DEF Entries
      <4> QED  BY <3>5, <3>6, <4>1 DEF Ledger!LedgerNext, Ledger!Resume
    <3> QED  BY <3>1, <3>7, <3>8
  <2> QED  BY <2>2, <2>3
<1>3. CASE PushPanics(t)
  <2>1. /\ UNCHANGED <<state, file>> /\ pc[t] = "push"
        /\ sink' = Some([sink[1] EXCEPT !.last_hash = call[t].rec[1].record_hash])
    BY <1>3 DEF PushPanics, moduleVars
  <2>2. sink # None /\ sink[1] \in AuditSinkState
    BY <2>1, SinkType DEF TypeInv, CallShape
  <2>3. sink' # None /\ Log' = Log
    BY <2>1, <2>2, SomeProperties DEF Log, AuditSinkState
  <2> QED  BY <2>1, <2>3 DEF Ledger!ledgerVars, LedgerMode, Entries
<1> QED  BY <1>1, <1>2, <1>3, PushLedger DEF SinkStep

\* The file is left with a first part of the log: it is what the ledger keeps.
LEMMA KeepLedger ==
  ASSUME TypeInv, TypeInv', UNCHANGED <<state, sink>>, IsPrefixOf(file'.recs, Log)
  PROVE  Ledger!Keep
<1>1. LedgerMode' = LedgerMode /\ Entries(Log)' = Entries(Log)
  BY DEF LedgerMode, Log, Entries
<1>2. file'.recs \in Seq(AuditRecord)
  BY DEF TypeInv, TypeOK, AuditFile
<1>3. Entries(file'.recs) \in Ledger!FirstParts(Entries(Log))
  BY <1>2, LogInSeq, EntriesFirst
<1>4. Entries(file.recs)' = Entries(file'.recs)
  BY DEF Entries
<1> QED  BY <1>1, <1>3, <1>4 DEF Ledger!Keep

LEMMA FileStepLedger ==
  ASSUME TypeInv, TypeInv', LogInv, NEW t \in Thread, FileStep(t)
  PROVE  [Ledger!LedgerNext]_(Ledger!ledgerVars)
<1>1. UNCHANGED <<state, sink>>
  BY DEF FileStep, CreateFile, CreateFileFails, WriteFile, WriteFileFails, moduleVars, sinkVars
<1>2. CASE CreateFileFails(t)
  BY <1>1, <1>2, Stutters DEF CreateFileFails, LedgerStutters
<1>3. CASE IsPrefixOf(file'.recs, Log)
  BY <1>1, <1>3, KeepLedger DEF Ledger!LedgerNext
<1>4. CreateFile(t) => IsPrefixOf(file'.recs, Log)
  BY LogTyped, PrefixFacts DEF CreateFile, FileOf
<1>5. WriteFile(t) \/ WriteFileFails(t) => IsPrefixOf(file'.recs, Log)
  BY WrittenFile DEF WriteFile, WriteFileFails
<1> QED  BY <1>2, <1>3, <1>4, <1>5 DEF FileStep

LEMMA RestartLedger ==
  ASSUME TypeInv, TypeInv', LogInv, Restart
  PROVE  Ledger!Crash
<1>1. LedgerMode' = "closed" /\ Log' = <<>>
  BY DEF Restart, LedgerMode, Log
<1>2. Entries(Log)' = <<>>
  BY <1>1, EntriesEmpty DEF Entries
<1>3. Entries(file.recs)' = Entries(file'.recs)
  BY DEF Entries
<1>4. Entries(file'.recs) \in {Entries(file.recs)} \cup Ledger!FirstParts(Entries(Log))
  <2>1. CASE file' = file
    BY <2>1
  <2>2. ASSUME NEW t \in Thread, pc[t] = "write_file",
               NEW part \in PartialFiles(call[t].snap), file' = Overwrite(part, file)
        PROVE  Entries(file'.recs) \in Ledger!FirstParts(Entries(Log))
    <3>1. IsPrefixOf(file'.recs, Log)
      BY <2>2, WrittenFile
    <3>2. file'.recs \in Seq(AuditRecord)
      BY DEF TypeInv, TypeOK, AuditFile
    <3> QED  BY <3>1, <3>2, LogInSeq, EntriesFirst
  <2> QED  BY <2>1, <2>2 DEF Restart
<1> QED  BY <1>1, <1>2, <1>3, <1>4 DEF Ledger!Crash

LEMMA LedgerStep ==
  TypeInv /\ TypeInv' /\ GateInv /\ LogInv /\ [Next]_vars
    => [Ledger!LedgerNext]_(Ledger!ledgerVars)
<1> SUFFICES ASSUME TypeInv, TypeInv', GateInv, LogInv, [Next]_vars
             PROVE  [Ledger!LedgerNext]_(Ledger!ledgerVars)
  OBVIOUS
<1>1. CASE UNCHANGED vars
  BY <1>1, Stutters DEF vars, LedgerStutters
<1>2. CASE Restart
  BY <1>2, RestartLedger DEF Ledger!LedgerNext
<1>3. ASSUME NEW t \in Thread, Begin(t) \/ VerifyStep(t)
      PROVE  [Ledger!LedgerNext]_(Ledger!ledgerVars)
  <2>1. LedgerStutters
    BY <1>3
    DEF LedgerStutters, Begin, CallInit, CallExport, CallVerifyFrame, CallCrypto, Gate,
        CallBadArguments, VerifyStep, Compute, VerifyFrame, VerifyPanics, moduleVars, sinkVars
  <2> QED  BY <2>1, Stutters
<1> QED
  BY <1>1, <1>2, <1>3, InitStepLedger, SinkStepLedger, FileStepLedger DEF Next, Step

\* The module implements the ledger: verdicts are entered only in a process
\* whose self-tests passed, at the end of a log that is never rewritten while
\* the process lives; the disk keeps a first part of it, and a process starts
\* from what was kept or from nothing.
THEOREM LedgerImplemented == Spec => ImplementsLedger
<1>1. Spec => [](TypeInv /\ GateInv /\ LogInv)
  BY GateAlways, LogAlways, PTL
<1> QED  BY <1>1, LedgerInit, LedgerStep, PTL DEF Spec, ImplementsLedger, Ledger!LedgerSpec
=============================================================================

------------------------------ MODULE AndnaFfi ------------------------------
(* The C ABI of crates/ffi as the threads of one process use it: the         *)
(* MODULE_STATE gate and its power-up self-tests (andna_init), the gated     *)
(* cryptographic calls, the audit sink behind its OnceLock and its Mutex,    *)
(* and the export of the log to andna_audit.jsonl.  The process may die at   *)
(* any step and start again with the file it left.                           *)
(*                                                                           *)
(* MODULE_STATE is written by a compare-exchange and by SeqCst stores, and   *)
(* read by Relaxed loads.  Such a load may return any value of the           *)
(* modification order that is not older than the last one its thread has     *)
(* seen (Readable); a failed compare-exchange is a SeqCst load and returns   *)
(* the last one.  A call's first step, its argument checks and first load,   *)
(* is one action: nothing before that load touches shared state.             *)
EXTENDS AuditChain, FiniteSets

CONSTANTS Thread,
          NoThread,     \* no owner of the sink's mutex
          Verdict,      \* [Frame -> AndnaErr]: andna_core::verify_frame_v2
          HmacLane,     \* the build has fips-integrity-hmac
          OqsBackend,   \* the build has oqs-backend (not stub)
          CryptoOps,    \* the gated calls, but andna_verify_frame_v2, in use
          MayPanic,     \* Rust panics inside a call are explored
          MaxCalls,     \* bound: calls a thread begins in one life of the process
          MaxRestarts   \* bound: how often the process dies

ASSUME NoThreadAssumption == NoThread \notin Thread
ASSUME VerdictAssumption == Verdict \in [Frame -> AndnaErr \ {"Length", "Internal"}]
ASSUME LaneAssumption == {HmacLane, OqsBackend, MayPanic} \subseteq BOOLEAN
ASSUME OpsAssumption ==
  CryptoOps \subseteq {"andna_verify_vnext", "andna_parse_mu_pre_header",
                       "andna_gen_test_frame"}
ASSUME BoundAssumption == MaxCalls \in Nat /\ MaxRestarts \in Nat

VARIABLES
  state,     \* MODULE_STATE
  seen,      \* the last value of MODULE_STATE each thread has read or written
  passed,    \* history: the self-tests passed in this life of the process
  sink,      \* GLOBAL: None, or Some(sink)
  owner,     \* the thread holding the sink's mutex
  poisoned,  \* a thread panicked holding it
  file,      \* andna_audit.jsonl
  pc,        \* what each thread is about to do
  call,      \* the call it is in, or its last one, and what that call holds
  calls,     \* history: how many calls it has begun in this life
  inited,    \* history: the threads whose andna_init returned Ok in this life
  base,      \* history: how many records the sink was opened with
  answered,  \* history: what calls past the gate answered in this life, per frame and code
  restarts   \* how often the process has died

moduleVars == <<state, seen, passed, inited>>
sinkVars == <<sink, owner, poisoned, base, answered>>
vars == <<state, seen, passed, sink, owner, poisoned, file, pc, call, calls,
          inited, base, answered, restarts>>

-----------------------------------------------------------------------------
(* MODULE_STATE.                                                             *)

ModuleState == {"PRE_INIT", "IN_PROGRESS", "APPROVED", "ERROR"}
Settled == {"APPROVED", "ERROR"}

\* The place of a value in the modification order.
Rank(s) == IF s = "PRE_INIT" THEN 0 ELSE IF s = "IN_PROGRESS" THEN 1 ELSE 2

\* The values a Relaxed load of thread t may return.
Readable(t) ==
  {s \in {"PRE_INIT", "IN_PROGRESS", state} :
     Rank(seen[t]) <= Rank(s) /\ Rank(s) <= Rank(state)}

\* The self-tests, in their locked order. The ML-DSA KAT of a build without a
\* backend always fails; the integrity test of a stub build always passes.
Tests == <<"hmac_cast", "shake256_kat", "mldsa44_kat", "integrity">>
TestNames == {Tests[k] : k \in 1..4}
FirstTest == IF HmacLane THEN 1 ELSE 2
Required == {Tests[k] : k \in FirstTest..4}
CanPass(test) == test = "mldsa44_kat" => OqsBackend
CanFail(test) == test = "integrity" => HmacLane

-----------------------------------------------------------------------------
(* Calls.                                                                    *)

\* The gated calls that leave no audit record, with the codes each may return
\* once past the gate (SigInvalid stands for every refusal of a signature).
CryptoCodes ==
  [andna_verify_vnext |-> {"Ok", "SigInvalid", "Internal"},
   andna_parse_mu_pre_header |-> {"Ok", "MuPre", "Internal"},
   andna_gen_test_frame |-> {"Ok", "Internal"}]
Ops == CryptoOps \cup {"andna_init", "andna_verify_frame_v2", "andna_audit_export_jsonl"}

NoCall == [op |-> None, frame |-> None, code |-> "Ok", rec |-> None, snap |-> <<>>]

\* Thread t is free to begin a call.
MayCall(t) == pc[t] = "idle" /\ calls[t] < MaxCalls

Began(t, op, frame) ==
  /\ calls' = [calls EXCEPT ![t] = @ + 1]
  /\ call' = [call EXCEPT ![t] = [NoCall EXCEPT !.op = Some(op), !.frame = frame]]

\* The call of t goes on at the step named by label.
Goto(t, label) == pc' = [pc EXCEPT ![t] = label]

\* The call of t returns code to its caller.
Return(t, code) ==
  /\ Goto(t, "idle")
  /\ call' = [call EXCEPT ![t].code = code, ![t].frame = None, ![t].rec = None,
                           ![t].snap = <<>>]

\* The call, andna_verify_frame_v2 past the gate, answers code for its frame.
Answer(t, code) ==
  answered' = [answered EXCEPT ![<<call[t].frame[1], code>>] = @ + 1]

\* A call that returns in its first step.
BeganAndReturned(t, op, code) ==
  /\ calls' = [calls EXCEPT ![t] = @ + 1]
  /\ call' = [call EXCEPT ![t] = [NoCall EXCEPT !.op = Some(op), !.code = code]]
  /\ UNCHANGED pc

Init ==
  /\ state = "PRE_INIT"
  /\ seen = [t \in Thread |-> "PRE_INIT"]
  /\ passed = {}
  /\ sink = None
  /\ owner = NoThread
  /\ poisoned = FALSE
  /\ file = NoFile
  /\ pc = [t \in Thread |-> "idle"]
  /\ call = [t \in Thread |-> NoCall]
  /\ calls = [t \in Thread |-> 0]
  /\ inited = {}
  /\ base = 0
  /\ answered = [v \in Frame \X AndnaErr |-> 0]
  /\ restarts = 0

\* A null pointer, a wrong length or a path that is not UTF-8: every call that
\* takes arguments returns Length before it looks at the module state.
CallBadArguments(t, op) ==
  /\ MayCall(t)
  /\ op # "andna_init"
  /\ BeganAndReturned(t, op, "Length")
  /\ UNCHANGED <<moduleVars, sinkVars, file, restarts>>

-----------------------------------------------------------------------------
(* andna_init.                                                               *)

\* The fast path: a Relaxed load that returns APPROVED ends the call.
CallInit(t) ==
  /\ MayCall(t)
  /\ \E s \in Readable(t) :
       /\ seen' = [seen EXCEPT ![t] = s]
       /\ IF s = "APPROVED"
            THEN /\ BeganAndReturned(t, "andna_init", "Ok")
                 /\ inited' = inited \cup {t}
            ELSE /\ Began(t, "andna_init", None)
                 /\ Goto(t, "compare_exchange")
                 /\ UNCHANGED inited
  /\ UNCHANGED <<state, passed, sinkVars, file, restarts>>

\* Mutant of TakesInit: the tests may be run again after a failure.
TakesInitAgain(s) == s \in {"PRE_INIT", "ERROR"}

\* The value the compare-exchange expects.
TakesInit(s) == s = "PRE_INIT"

\* Mutant of LosesWith: a thread that finds the tests running is told Ok.
LosesWithOkWhenBusy(s) == IF s = "ERROR" THEN "Internal" ELSE "Ok"

\* What a thread whose compare-exchange found s returns.
LosesWith(s) == IF s = "APPROVED" THEN "Ok" ELSE "Internal"

\* One thread takes PRE_INIT to IN_PROGRESS and owns the self-tests; the others
\* return by what they find.
CompareExchange(t) ==
  /\ pc[t] = "compare_exchange"
  /\ IF TakesInit(state)
       THEN /\ state' = "IN_PROGRESS"
            /\ seen' = [seen EXCEPT ![t] = "IN_PROGRESS"]
            /\ Goto(t, Tests[FirstTest])
            /\ UNCHANGED <<call, inited>>
       ELSE /\ seen' = [seen EXCEPT ![t] = state]
            /\ Return(t, LosesWith(state))
            /\ inited' = IF LosesWith(state) = "Ok" THEN inited \cup {t} ELSE inited
            /\ UNCHANGED state
  /\ UNCHANGED <<passed, sinkVars, file, calls, restarts>>

\* Self-test k passes, and the next one is run or the module is approved.
PassTest(t, k) ==
  /\ pc[t] = Tests[k]
  /\ CanPass(Tests[k])
  /\ passed' = passed \cup {Tests[k]}
  /\ Goto(t, IF k < 4 THEN Tests[k+1] ELSE "store_approved")
  /\ UNCHANGED <<state, seen, inited, sinkVars, file, call, calls, restarts>>

\* Mutant of FailTest: the failure is returned but not stored.
FailTestNotStored(t, k) ==
  /\ pc[t] = Tests[k]
  /\ CanFail(Tests[k])
  /\ Return(t, "Internal")
  /\ UNCHANGED <<state, seen, passed, inited, sinkVars, file, calls, restarts>>

\* Self-test k fails: the module goes to ERROR and the call returns.
FailTest(t, k) ==
  /\ pc[t] = Tests[k]
  /\ CanFail(Tests[k])
  /\ state' = "ERROR"
  /\ seen' = [seen EXCEPT ![t] = "ERROR"]
  /\ Return(t, "Internal")
  /\ UNCHANGED <<passed, inited, sinkVars, file, calls, restarts>>

StoreApproved(t) ==
  /\ pc[t] = "store_approved"
  /\ state' = "APPROVED"
  /\ seen' = [seen EXCEPT ![t] = "APPROVED"]
  /\ inited' = inited \cup {t}
  /\ Return(t, "Ok")
  /\ UNCHANGED <<passed, sinkVars, file, calls, restarts>>

-----------------------------------------------------------------------------
(* The gated calls.                                                          *)

\* Mutant of GateOpen: only ERROR is refused.
GateOpenUnlessError(s) == s # "ERROR"

GateOpen(s) == s = "APPROVED"

\* require_approved!: a Relaxed load; past the gate the call goes on at label.
Gate(t, op, frame, label) ==
  /\ MayCall(t)
  /\ \E s \in Readable(t) :
       /\ seen' = [seen EXCEPT ![t] = s]
       /\ IF GateOpen(s)
            THEN Began(t, op, frame) /\ Goto(t, label)
            ELSE BeganAndReturned(t, op, "Internal")
  /\ UNCHANGED <<state, passed, inited, sinkVars, file, restarts>>

CallCrypto(t, op) == Gate(t, op, None, "compute")

Compute(t) ==
  /\ pc[t] = "compute"
  /\ \E code \in CryptoCodes[call[t].op[1]] : Return(t, code)
  /\ UNCHANGED <<moduleVars, sinkVars, file, calls, restarts>>

CallVerifyFrame(t, f) == Gate(t, "andna_verify_frame_v2", Some(f), "verify")

\* The verdict on the frame, or Internal when the backend cannot be set up.
VerifyFrame(t) ==
  /\ pc[t] = "verify"
  /\ \E code \in {Verdict[call[t].frame[1]], "Internal"} :
       call' = [call EXCEPT ![t].code = code]
  /\ Goto(t, "init_sink")
  /\ UNCHANGED <<moduleVars, sinkVars, file, calls, restarts>>

\* A panic before the sink is reached is caught by ffi_guard.
VerifyPanics(t) ==
  /\ MayPanic
  /\ pc[t] = "verify"
  /\ Answer(t, "Internal") /\ Return(t, "Internal")
  /\ UNCHANGED <<moduleVars, sink, owner, poisoned, base, file, calls, restarts>>

-----------------------------------------------------------------------------
(* The audit sink, for andna_verify_frame_v2 and andna_audit_export_jsonl.   *)

CallExport(t) ==
  /\ MayCall(t)
  /\ Began(t, "andna_audit_export_jsonl", None)
  /\ Goto(t, "init_sink")
  /\ UNCHANGED <<moduleVars, sinkVars, file, restarts>>

\* OnceLock::get_or_init: the first thread here opens the sink from the file;
\* no other thread can be writing the file, as writing it needs the sink.
InitSinkIfNeeded(t) ==
  /\ pc[t] = "init_sink"
  /\ IF sink = None
       THEN LET opened == InitSink(restarts, file)
            IN  sink' = Some(opened) /\ base' = Len(opened.records)
       ELSE UNCHANGED <<sink, base>>
  /\ Goto(t, "lock")
  /\ UNCHANGED <<moduleVars, owner, poisoned, answered, file, call, calls, restarts>>

\* Mutant of MutexFree: the mutex does not exclude.
MutexIgnored == TRUE

MutexFree == owner = NoThread

\* Mutant of PoisonedCode: the verdict is returned though it was not recorded.
PoisonedCodeOpen(t) == call[t].code

\* A poisoned mutex fails the call closed.
PoisonedCode(t) == "Internal"

Lock(t) ==
  /\ pc[t] = "lock"
  /\ MutexFree
  /\ LET verifies == call[t].op = Some("andna_verify_frame_v2")
     IN  IF poisoned
           THEN /\ IF verifies THEN Answer(t, PoisonedCode(t)) ELSE UNCHANGED answered
                /\ Return(t, PoisonedCode(t))
                /\ UNCHANGED owner
           ELSE /\ owner' = t
                /\ Goto(t, IF verifies THEN "append" ELSE "snapshot")
                /\ UNCHANGED <<call, answered>>
  /\ UNCHANGED <<moduleVars, sink, poisoned, base, file, calls, restarts>>

\* What andna_verify_frame_v2 hands to the sink.
VerifyEvent(t, now) ==
  [ts |-> now, decision |-> IF call[t].code = "Ok" THEN 1 ELSE 0,
   err_code |-> call[t].code, notes_flags |-> {},
   frame_bytes |-> call[t].frame, frame_hash |-> None]

\* The record is made from the sink's counter and last hash, then pushed.
MakeRecord(t) ==
  /\ pc[t] = "append"
  /\ \E now \in Time :
       call' = [call EXCEPT ![t].rec = Some(NextRecord(sink[1], VerifyEvent(t, now)))]
  /\ Goto(t, "push")
  /\ UNCHANGED <<moduleVars, sinkVars, file, calls, restarts>>

Push(t) ==
  /\ pc[t] = "push"
  /\ sink' = Some(PushRecord(sink[1], call[t].rec[1]))
  /\ Goto(t, "unlock")
  /\ UNCHANGED <<moduleVars, owner, poisoned, base, answered, file, call, calls, restarts>>

\* Mutant of PushPanics: the unwinding does not release the mutex.
PushPanicsHolding(t) ==
  /\ MayPanic
  /\ pc[t] = "push"
  /\ sink' = Some([sink[1] EXCEPT !.last_hash = call[t].rec[1].record_hash])
  /\ poisoned' = TRUE
  /\ Answer(t, "Internal") /\ Return(t, "Internal")
  /\ UNCHANGED <<moduleVars, owner, base, file, calls, restarts>>

\* The one place append_verify may panic is the increment of next_seq in a
\* build with overflow checks: last_hash has moved, no record is pushed, the
\* mutex is poisoned and ffi_guard turns the panic into Internal.
PushPanics(t) ==
  /\ MayPanic
  /\ pc[t] = "push"
  /\ sink' = Some([sink[1] EXCEPT !.last_hash = call[t].rec[1].record_hash])
  /\ poisoned' = TRUE
  /\ owner' = NoThread
  /\ Answer(t, "Internal") /\ Return(t, "Internal")
  /\ UNCHANGED <<moduleVars, base, file, calls, restarts>>

\* The guard is dropped and the verdict returned.
Unlock(t) ==
  /\ pc[t] = "unlock"
  /\ owner' = NoThread
  /\ Answer(t, call[t].code) /\ Return(t, call[t].code)
  /\ UNCHANGED <<moduleVars, sink, poisoned, base, file, calls, restarts>>

\* The records are copied and the guard dropped before the file is written.
Snapshot(t) ==
  /\ pc[t] = "snapshot"
  /\ call' = [call EXCEPT ![t].snap = sink[1].records]
  /\ owner' = NoThread
  /\ Goto(t, "create_file")
  /\ UNCHANGED <<moduleVars, sink, poisoned, base, answered, file, calls, restarts>>

\* Mutant of CreateFile: the file is opened without being truncated.
CreateFileKeepsOld(t) ==
  /\ pc[t] = "create_file"
  /\ Goto(t, "write_file")
  /\ UNCHANGED <<moduleVars, sinkVars, file, call, calls, restarts>>

\* fs::write: the file is truncated, then written from its start.
CreateFile(t) ==
  /\ pc[t] = "create_file"
  /\ file' = FileOf(<<>>)
  /\ Goto(t, "write_file")
  /\ UNCHANGED <<moduleVars, sinkVars, call, calls, restarts>>

CreateFileFails(t) ==
  /\ pc[t] = "create_file"
  /\ Return(t, "Internal")
  /\ UNCHANGED <<moduleVars, sinkVars, file, calls, restarts>>

\* Writing a over b from its start, both of them first parts of one log's
\* lines: the longer one is left.
Overwrite(a, b) ==
  IF Len(a.recs) > Len(b.recs) \/ (Len(a.recs) = Len(b.recs) /\ a.torn) THEN a ELSE b

WriteFile(t) ==
  /\ pc[t] = "write_file"
  /\ file' = Overwrite(FileOf(call[t].snap), file)
  /\ Return(t, "Ok")
  /\ UNCHANGED <<moduleVars, sinkVars, calls, restarts>>

\* The write ends early with an error, anywhere in the lines.
WriteFileFails(t) ==
  /\ pc[t] = "write_file"
  /\ \E part \in PartialFiles(call[t].snap) : file' = Overwrite(part, file)
  /\ Return(t, "Internal")
  /\ UNCHANGED <<moduleVars, sinkVars, calls, restarts>>

-----------------------------------------------------------------------------
(* The process dies and is started again: only the file survives, cut short  *)
(* when a thread was writing it.                                             *)
Restart ==
  /\ restarts < MaxRestarts
  /\ restarts' = restarts + 1
  /\ state' = "PRE_INIT"
  /\ seen' = [t \in Thread |-> "PRE_INIT"]
  /\ passed' = {}
  /\ sink' = None
  /\ owner' = NoThread
  /\ poisoned' = FALSE
  /\ pc' = [t \in Thread |-> "idle"]
  /\ call' = [t \in Thread |-> NoCall]
  /\ calls' = [t \in Thread |-> 0]
  /\ inited' = {}
  /\ base' = 0
  /\ answered' = [v \in Frame \X AndnaErr |-> 0]
  /\ \/ UNCHANGED file
     \/ \E t \in Thread :
          /\ pc[t] = "write_file"
          /\ \E part \in PartialFiles(call[t].snap) : file' = Overwrite(part, file)

InitStep(t) ==
  \/ CompareExchange(t) \/ StoreApproved(t)
  \/ \E k \in 1..4 : PassTest(t, k) \/ FailTest(t, k)

VerifyStep(t) == Compute(t) \/ VerifyFrame(t) \/ VerifyPanics(t)

SinkStep(t) ==
  \/ InitSinkIfNeeded(t) \/ Lock(t)
  \/ MakeRecord(t) \/ Push(t) \/ PushPanics(t) \/ Unlock(t)
  \/ Snapshot(t)

FileStep(t) ==
  CreateFile(t) \/ CreateFileFails(t) \/ WriteFile(t) \/ WriteFileFails(t)

\* What thread t does inside a call.
Step(t) == InitStep(t) \/ VerifyStep(t) \/ SinkStep(t) \/ FileStep(t)

Begin(t) ==
  \/ CallInit(t) \/ CallExport(t)
  \/ \E f \in Frame : CallVerifyFrame(t, f)
  \/ \E op \in CryptoOps : CallCrypto(t, op)
  \/ \E op \in Ops : CallBadArguments(t, op)

Next == Restart \/ \E t \in Thread : Begin(t) \/ Step(t)

Spec == Init /\ [][Next]_vars

\* Once begun, a call is run by a live thread until it returns.
FairSpec == Spec /\ \A t \in Thread : WF_vars(Step(t))

-----------------------------------------------------------------------------
(* Properties.                                                               *)

InitLabels == {"compare_exchange", "store_approved"} \cup TestNames
VerifyLabels == {"verify", "append", "push", "unlock"}
ExportLabels == {"snapshot", "create_file", "write_file"}
SinkLabels == {"init_sink", "lock"}
Labels == {"idle", "compute"} \cup InitLabels \cup VerifyLabels \cup ExportLabels \cup SinkLabels

Calls ==
  [op : {None} \cup {Some(op) : op \in Ops}, frame : {None} \cup {Some(f) : f \in Frame},
   code : AndnaErr, rec : Seq(AuditRecord), snap : Seq(AuditRecord)]

Log == IF sink = None THEN <<>> ELSE sink[1].records

TypeOK ==
  /\ state \in ModuleState
  /\ seen \in [Thread -> ModuleState]
  /\ passed \subseteq TestNames
  /\ sink # None => sink = Some(sink[1]) /\ sink[1] \in AuditSinkState
  /\ owner \in Thread \cup {NoThread}
  /\ poisoned \in BOOLEAN
  /\ file \in AuditFile
  /\ pc \in [Thread -> Labels]
  /\ call \in [Thread -> Calls]
  /\ calls \in [Thread -> 0..MaxCalls]
  /\ inited \subseteq Thread
  /\ base \in Nat
  /\ answered \in [Frame \X AndnaErr -> Nat]
  /\ restarts \in 0..MaxRestarts

\* Thread t runs the self-tests: from its compare-exchange to its last store.
Testing(t) == pc[t] \in TestNames \cup {"store_approved"}

\* Thread t is past the gate of a cryptographic call.
PastGate(t) ==
  \/ pc[t] \in {"compute"} \cup VerifyLabels
  \/ pc[t] \in SinkLabels /\ call[t].op = Some("andna_verify_frame_v2")

\* At most one thread runs the self-tests, and one does exactly while the
\* module is IN_PROGRESS: two first calls cannot both own them, and no failure
\* leaves the module IN_PROGRESS for good (andna_init, lib.rs:1094-1152).
OneInitOwner ==
  /\ \A t, u \in Thread : Testing(t) /\ Testing(u) => t = u
  /\ state = "IN_PROGRESS" <=> \E t \in Thread : Testing(t)

\* A thread past the gate, or told Ok by andna_init, is in a process whose
\* module is approved by its own self-tests, all those the build requires: no
\* stale load, no race of two inits and no earlier life lets one through
\* (lib.rs:1080-1081, require_approved!).
NoCryptoBeforeTests ==
  (\E t \in Thread : PastGate(t) \/ t \in inited)
    => state = "APPROVED" /\ passed = Required /\ OqsBackend

\* APPROVED and ERROR are for the life of the process (lib.rs:57).
SettledForGood ==
  [][(state \in Settled /\ restarts' = restarts) => (state' = state)]_vars

\* A thread whose andna_init returned Ok is never refused by the gate, though
\* the gate's load is Relaxed: neither on the fast path nor after losing the
\* race can it read a value older than APPROVED (lib.rs:1085-1089).
InitOkOpensGate == \A t \in inited : Readable(t) = {"APPROVED"}

\* Whatever the threads, panics, cut files and restarts, the records in memory
\* pass the validator, and while the mutex is not poisoned and nobody is
\* between computing a record and pushing it the sink is ready for the next one.
LogStaysValid ==
  sink # None =>
    IF poisoned THEN Chained(sink[1].records) ELSE GoodSink(sink[1])

\* How many records of this life say that frame f got code.
Logged(f, code) ==
  Cardinality({i \in base+1..Len(Log) : /\ Log[i].content.frame_hash = Sha3(f)
                                        /\ Log[i].content.err_code = code})

\* The records added in this life are the verdicts given in it, one for one:
\* for each frame and code, as many as were returned and are about to be. No
\* verdict is returned unrecorded, none is recorded twice or with another code,
\* even by the calls that meet a panic or a poisoned mutex: only Internal may
\* be answered without a record (andna_verify_frame_v2, lib.rs:1230-1263).
VerdictsLoggedOnce ==
  \A f \in Frame, code \in AndnaErr :
    LET given == answered[<<f, code>>]
                   + Cardinality({t \in Thread : /\ pc[t] = "unlock"
                                                 /\ call[t].frame = Some(f)
                                                 /\ call[t].code = code})
    IN  Logged(f, code) <= given /\ (code # "Internal" => Logged(f, code) = given)

\* The file holds the first lines of the log in memory, unless a crash cut it
\* and nobody has written it since; whoever is about to write has a snapshot
\* that is such a part too. So concurrent exports, whose writes the mutex does
\* not cover, can make the file shorter but never mix logs (lib.rs:1463-1477).
FileFollowsLog ==
  /\ sink # None => file.torn \/ IsPrefixOf(file.recs, Log)
  /\ \A t \in Thread :
       pc[t] \in {"create_file", "write_file"} => IsPrefixOf(call[t].snap, Log)
  /\ (\E t \in Thread : pc[t] = "write_file") => IsPrefixOf(file.recs, Log)

\* Every call returns: a thread that waits for the mutex gets it, and nobody
\* waits for a thread that will not move. (Callers begin finitely many calls.)
CallsReturn == \A t \in Thread : pc[t] # "idle" ~> pc[t] = "idle"

\* Thread t is in a call and waits for nobody.
Unhindered(t) == pc[t] # "idle" /\ (pc[t] = "lock" => MutexFree)

\* Threads never all wait for each other: as long as a call is open some thread
\* in a call can go on, for who holds the mutex is on its way to give it up,
\* by a return or by the unwinding of a panic (lib.rs:1246-1262, 1463-1467).
NobodyStuck ==
  (\E t \in Thread : pc[t] # "idle") => \E t \in Thread : Unhindered(t)

\* A panic inside append_verify is for the life of the process: the sink it left
\* half updated is never written again, by no thread, not even one that was
\* waiting for the mutex, and no verdict leaves the module any more
\* (fail closed, lib.rs:1246-1249).
FailsClosed ==
  [][poisoned /\ restarts' = restarts =>
       /\ poisoned' /\ sink' = sink
       /\ \A f \in Frame, code \in AndnaErr \ {"Internal"} :
            answered'[<<f, code>>] = answered[<<f, code>>]]_vars

\* The module implements the ledger of verdicts: a record is the entry of its
\* frame and code, and the ledger is the log of the sink once it is opened.
Entries(rs) ==
  [i \in 1..Len(rs) |-> <<rs[i].content.frame_hash, rs[i].content.err_code>>]

LedgerMode ==
  CASE state = "PRE_INIT" -> "closed"
    [] state = "IN_PROGRESS" -> "testing"
    [] state = "APPROVED" -> "open"
    [] state = "ERROR" -> "failed"

Ledger ==
  INSTANCE VerdictLedger WITH
    Entry <- UNION {{<<Sha3(f), Verdict[f]>>, <<Sha3(f), "Internal">>} : f \in Frame},
    mode <- LedgerMode,
    ledger <- Entries(Log),
    kept <- Entries(file.recs)

ImplementsLedger == Ledger!LedgerSpec
=============================================================================

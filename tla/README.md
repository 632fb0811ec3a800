# AN-DNA core: TLA+ models, model checking and proofs

AN-DNA verifies signed 4030-byte frames, keeps a hash-chained audit log of the
verdicts, and seals and inspects files with the same machinery. This directory
holds TLA+ models of that system, the TLC configurations that check them on
small instances, and proofs of the most important results that TLAPS checks for
every value of the constants. `PROJECT.json` lists the runs, the mutants that
show each property can fail, the source lines behind each definition, the
hazards and the theorems.

    tlc -workers 2 -config MCAndnaFfi.cfg MCAndnaFfi.tla     # a run
    tlapm AndnaFfi_proofs.tla                                # a proof module

## The system

| Part | State | Operations | Meets |
|---|---|---|---|
| `crates/audit` | the sink (run id, next sequence number, last hash, records), behind `OnceLock<Mutex<_>>`; the file `andna_audit.jsonl` | `append_verify`, `reset_run`, `snapshot`, `init_sink_if_needed`, `to_jsonl`, `parse_jsonl`, `validate_records` | `crates/ffi`, the CLI |
| `crates/ffi` | `MODULE_STATE`, an atomic | `andna_init`, three gated cryptographic calls, `andna_verify_frame_v2` (gated, recorded), `andna_audit_export_jsonl` (not gated) | every caller in C, Rust, Python |
| `crates/core`, `codec`, `transcript`, `mldsa44`, `contracts` | none | parse a frame, check its bindings in a locked order, verify the signature | `crates/ffi`, `crates/andna-seal`, `crates/pipeline` |
| `crates/andna-r2` | none (a registry is parsed per call) | authorize a request, digest the decision | `crates/pipeline`, `ffi_cli` |
| `crates/pipeline` | none | D0 signing, R1 verification, R2 authorization in a row | |
| `crates/andna-seal` | none | seal a file, verify a seal, build evidence | `ffi_cli` |
| `crates/andna-d0` | none of its own: the caller holds secret states and key pairs, zeroised when dropped | provision, ratchet, derive a T_E or a key pair, sign, validate a record | `crates/core` and `andna-r2`, which judge what it makes |
| `ffi_cli` | `verification_log.json` (session log), `andna_audit.jsonl`, seals and evidence bundles | gen, tamper, verify, verify-frame, replay, export, init-sealer, seal-file, verify-file | `crates/ffi` |
| `python/andna` | an engine chosen at start; frame files; `verification_log.json`; bundles | gen, tamper, verify, replay, export, an HTTP service | `crates/ffi` through ctypes |

How they meet: a caller calls the C ABI from any thread; the C ABI checks its
arguments, then the module state with a Relaxed load, and runs under
`catch_unwind`; `andna_verify_frame_v2` then opens the sink if nobody has (from
the file an earlier process left), takes its mutex and appends. The export
copies the records under the mutex and writes the file after releasing it.

What is hard there: the race of two first `andna_init` calls; Relaxed loads that
may return old values; a panic while the mutex is held; exports that write one
file without a lock; a process that dies while writing; the chain that has to go
on across processes; two CLI processes on the same two files; a caller of the
ratchet who names the epoch of each call himself, and may have an old state back.

What makes each part correct:
  - the gate: no cryptography before all self-tests passed in this process, one
    thread runs them, a verdict of the self-tests is for good, who was told `Ok`
    is never refused;
  - the log: it always passes its own validator; each verdict is in it once, with
    its code; what is on disk is the first part of a log, or recognisably cut;
    a change of it in place is seen;
  - every call returns;
  - seals: a file is accepted exactly when its bytes, manifest and frame are those
    of one seal and the registry grants its identity; the report names what failed;
  - policy: what is authorized is what the registry, read as a whole, grants;
  - attestations: what is attested is a record that `verify-file` decided or the half of
    one, and says ACCEPT only of what was accepted;
  - the two logs of the CLI: they agree with each other and with what was answered;
  - the Python package: its records are of the bytes that were verified, its bundles
    of one moment, its two engines agree;
  - the ratchet: a key that was given up is never had again, and only frames of the
    publishing state, in the registry's epoch, are authorized.

## Modules

**AuditChain** (constants only): records, the chain, the sink's operators, the
validator with its eight checks in the order of the code, and files of lines.
A hash is perfect: the hash of a record is the previous hash followed by the
record's content, so it is the sequence of the contents so far. A frame's hash
is the frame in a tuple, the zero hash is the empty tuple. `notes_flags` is the
set of its bits. A file holds whole lines and perhaps a cut last one, which is
what `parse_jsonl` tells apart.

**AuditSink**: the sink as `crates/audit` offers it. `Open` is
`init_sink_if_needed`, from the file or, if it cannot be read, from nothing; `Record` is `append_verify` for any input a caller may
build (reserved bits, an injected hash, no frame), `Reset` is `reset_run`,
`Export` writes all or a first part of the lines, `Restart` ends the process.
`Alter` is somebody who changes the file while no process runs: a record changed, its
hash left as it is, a line dropped, repeated or cut, two exchanged. The sink parses
such a file and goes on from it without validating it.

**AndnaFfi**: the threads of a process in the C ABI. A thread's program counter
names the next thing its call does to shared state: the compare-exchange, each
self-test, the store, the gate's load, the verification, `get_or_init`, the
lock, hashing a record, pushing it, unlocking, the snapshot, truncating and
writing the file. `Restart` is the death of the process at any of these points.
  - `MODULE_STATE`: a Relaxed load returns any value between the last one the
    thread has seen and the current one (`Readable`), which is what coherence
    gives; the value written by a compare-exchange or a store, or found by a
    failed compare-exchange, is the thread's last seen.
  - A failed self-test stores `ERROR` and returns in one action: nothing of the
    module's is read in between. Which tests exist depends on the build: the HMAC
    test on `fips-integrity-hmac`, and without `oqs-backend` the ML-DSA test
    always fails, so that build is never approved.
  - A panic inside `ffi_guard` ends the call with `Internal`; under the mutex it
    also poisons it. `andna_init` and the export are outside `ffi_guard`; nothing
    in them panics but a failed allocation, which ends the process (`Restart`).
  - The first use of the sink is taken to find the file as it is. That its read may fail
    though the file is whole is in `AuditSink` and `EvidenceCli`: the chain then starts
    anew, and `FileFollowsLog` and the ledger's `kept` would compare it with a file it
    has nothing to do with until the next export.
  - The export is taken to write `andna_audit.jsonl`, the file the next process
    opens; with another path the file simply does not change.

**VerdictLedger**: what the module promises, seen from outside: verdicts only
from a tested process, entered once at the end of a ledger that is not rewritten
while the process lives; on disk the first part of a ledger; a process starts
from what was kept or from nothing. `AndnaFfi` implements it with `mode` read
off `MODULE_STATE`, `ledger` the records in memory, `kept` those in the file.

**EvidenceCli**: `gen`, `tamper`, `verify`, `verify-frame`, `replay` with and
without a frame, and `export` of `ffi_cli` as processes that share two frame files,
the session log, the audit log and the bundle directory. Nothing in the code locks
them. Each process holds what the command has in its local variables; a step is
what happens between two accesses to a file. `std::fs::write` is two steps, the
truncation and the write, and a second writer in between leaves either file whole
or the two overlaid: the longer one's tail stays behind the shorter one
(`OverwrittenLog`, `OverwrittenAudit`). A line with bytes of both is taken as a cut
line, because it does not parse. Any read, write or call may fail, and a process may
be killed at any step; `MaxFaults` bounds both together. Two failing reads do not end
the command: a `verify` that cannot read the session log goes on with an empty one
(`main.rs:247`) and writes over it, and a sink whose audit log cannot be read starts a
new chain (`sink.rs:150`, `AnswersFinding`).

**FrameV2**, **R2Policy**, **SealVerify** (definitions only): frames and their
verification in the code's order of checks; registries and the decision with its
reason; manifests, sealing, `verify_sealed` and evidence. Hashes and signatures
are perfect: a signature is the key and what was signed, and anything else is
`Garbled`. Fields that are hashed and never read back are one field (`rest`,
`stamp`, `about`). Checks in a row are a sequence of pairs of an error and a
condition, and `FirstFailing` is the early return. `OqsBackend` and `EngineUp`
say how the code was built and whether liboqs starts.

**FileSeal**: `init-sealer`, `seal-file` and `verify-file` as processes over
profiles, files, seals and registries, with the same two steps of `fs::write`.
The attestation that `verify-file --attest-profile` makes of its evidence goes
through the steps of sealing: the evidence is read back from the file, which another
`verify-file` may be rewriting. People edit: files at any time, registries at any
time (an entry is revoked, frozen, held, moved to another epoch, stripped of its
T_E hashes, or all entries of a registry are appended to one), seals field by
field or with parts of other seals, and evidence while no command runs.

**Lineage**: the keys of `crates/andna-d0` under the calls of its API in any order,
with the verifier and the policy that their signatures are for (it composes
`FrameV2`, `SealVerify` and `R2Policy`). A secret state is the root it was
provisioned with and the epochs it was ratcheted at, since a sampled polynomial is
told by what it was sampled from. A process holds states in slots and key pairs
apart from them, publishes T_E, signs headers with any context string and in any
epoch, and drops what it holds; `Snapshot` and `Restore` are a copy of its memory
and the return to it; an operator authorizes T_E, moves epochs and revokes.
`Obtainable` says from what a key can be had: a state, alive or saved, that leads to
the one it was derived of, or a pair that was kept.

**SealPromise**: what sealing promises. Identities seal contents; registry files
grant identities; an acceptance needs a seal that was made and a grant at that
moment. `FileSeal` implements it, with `granted` read off the registry files by
`Grants`, a description of the policy that knows nothing of the order of
`authorize`.

**PythonCli**: `gen`, `tamper`, `verify`, `replay --frame` and `export` of
`python/andna` as processes over frame files and one session log, each with the
engine its `VERIFY_ENGINE` names. `PythonVerify` makes the checks of
`PythonEngine` on the frames of `FrameV2`; the Rust engine is `NativeVerify`, with
the state of the module as the package leaves it (`LoadedModule`). An exception
that nobody catches is an exit with 1. The session log is a JSON document: it
parses whole or not at all, and what does not parse, or cannot be read, is taken as
empty (`LoadedRecords`; `cli.py:69-74` catches every exception). Histories
keep every verdict and which of them were captured.

`MCAuditSink`, `MCAndnaFfi`, `MCEvidenceCli`, `MCFileSeal`, `MCPythonCli` and
`MCLineage` give the constants for TLC. Operators whose comment says *Mutant of* are
wrong versions of the next definition; nothing uses them but the mutant table of
`PROJECT.json`.

## Runs

| Run | Question | Bounds |
|---|---|---|
| `audit_sink` | Does the log always pass the validator, over restores, resets, cut files and odd inputs? Does the validator see every change in place, and does a log that validates have only records the sink made, though the file was changed from outside? Can whoever noted one hash tell the log from every forgery that validates? | 3 kinds of input, 3 records, 2 run ids, 1 change from outside |
| `ffi_safety` | Do the gate, the log and the file stay sound under every interleaving, with panics, failing writes and a crash, and does the C ABI implement the ledger? Does a panic close the log for good, and can some open call always go on? | 2 threads, 2 calls each per life, 2 frames (accepted, refused), 1 restart |
| `ffi_liveness` | Does every call return? | 2 threads, 2 calls each, every exported function, no restart |
| `cli_alone` | One command after the other, failing or killed: do the two logs, the replay and the bundle agree with the answers, does the chain go on from one process to the next, has a command that answered saved its verdict, and does no failure ever look like tampering? | 6 commands, 2 faults |
| `cli_race` | Does an audit log that validates tell a true history when two commands run at once? | 2 processes, 3 commands, 2 kills or failing calls |
| `chain_across_runs` | Does the chain go on across CLI runs, as sink.rs:149 says? Not after a command died while rewriting the log. | 1 process, 4 commands, 1 crash |
| `pass_is_of_the_bundle` | Is a PASS in a bundle about the log in the bundle? Not if `verify` runs between the copy and the validation. | 2 processes |
| `file_seal` | Is a seal accepted exactly if it is whole and granted, and does the report name what is wrong? Does what was written well verify? | 2 sealers, 5 commands in a row with failing files, 1 edit of a file, registry, seal or evidence |
| `seal_race` | Do the commands implement the promise when two run at once, and is what they attest a decided record or the half of one, the ACCEPT in it of an acceptance? | 2 processes, each may be killed, 4 commands, 1 sealer, 1 edit of a file or registry |
| `python_cli` | Do the logs and bundles of the Python commands tell only what happened, do its two engines stay apart in replays, and does the Python one answer as the core? | 2 processes, each may be killed, 4 commands, 1 frame file |
| `lineage` | Is a key that was given up never had again, are exactly the frames of the publishing derivation authorized, and do the validators tell the records apart? | 2 slots, 2 roots, 2 epochs, 2 devices, 2 ratchet steps, 6 calls and edits |
| `rust_engine` | Does the Rust engine give the verdicts of the core, as test_integration.py:302-305 expects? Not of a frame of the right length. | 1 process, 2 commands |

Why the bounds are enough. Two threads give every race the code can have between
a first and a second caller: the compare-exchange and the mutex tell one thread
from the others and nothing counts threads. Two calls each are enough for one
thread to initialise and verify while the other verifies and exports, so that two
records are in the log when a file is cut between them; after the restart both
may open, append and export again, which is the shortest history in which a
restored chain can break. Three records in `audit_sink` are the shortest log with
a first, a middle and a last record, which the tampering property needs.
One change from outside, at any line and in any life, is
what all later appends and exports then build on. `MaxCalls`, `MaxRestarts`,
`MaxRecords`, `MaxRuns` and `MaxAlters` are the only bounds, each in the guard of one
action. Deadlock is not checked in these runs because the bounds
let the system stop: callers make finitely many calls.

For the commands: six in a row let a frame be made, tampered with and verified, a log
be written, read back, replayed, exported and exported again after a further
verification; the second of two faults may fall on what the first one left. In the
race the frames are there at first, and three commands are two that overlap and a
third that reads what they left; two faults are a failing write and a kill, or a kill
and a read that fails on what it left.
`LogsAgree`, `ChainGoesOn`, `BundleOfOneMoment` and `ReplayKnowsVerdicts` speak of
commands that run alone until the first fault: they say the steps fit together, and no
crash or race can violate them. What crashes, failing calls and races may not do is in
`SavedBeforeAnswer`, `NoFalseAlarm` and `ValidAuditTellsHistory`, and what they do do in
the two violated runs.
For the ratchet: authorizing one frame takes four calls (provision, publish, sign,
authorize), so six leave two for what may go wrong in between: a ratchet step, a copy put
back, another epoch, a revocation. Two roots and two devices are one that is
right and one that is not; two ratchet steps tell an older state from an oldest.
For the seals: two sealers are what
a mix of two seals needs; one edit can add a device to a registry a second time
with one of the two entries revoked. An attestation that is verified needs five commands:
two profiles, a seal, the verification that attests, and the verification of that.
What a crash leaves in the files a failed write leaves too, so `file_seal` has
only the latter and one process, as what a failed write leaves is then determined by
its own creation of the file. In `seal_race` one sealer does it all: its profile, a seal
and two `verify-file` that attest one evidence file are four commands, so that one may
read back what the other has truncated, written or left by dying. Failing files are off
there, a kill being the failure that leaves most. Processes, contents, keys and devices
are symmetric, since nothing tells them apart. Seals are not altered in it, so that
`KeepsPromise` and `AttestedWasDecided` are about the commands.
For the Python commands: four are a frame made or tampered with while another
verifies, then a replay or an export of what was recorded; two verifications that
save over each other and an export after them. The file holds at first nothing, a
frame that verifies, or one whose epochs differ (wrong in one way), and tampering
makes one wrong in two.
Keys and device ids of `init-sealer` are random and taken as new. Nobody seals
evidence but `verify-file` (a person may; nothing is claimed of that).

Fairness. `FairSpec` asks that a thread inside a call goes on when it can
(`WF_vars(Step(t))`): the operating system runs live threads. Nothing is asked of
the callers, nor that self-tests pass. Weak fairness is enough for the mutex too
because a thread calls finitely often; with unbounded callers `std::sync::Mutex`
gives no such promise and neither does the model.

Where a document or a test and the code differ, a violated run shows it. Six more
that the models show and that no run is kept for: the deletion of the last line of
an audit log passes its validator (`validator.rs:30`, while
docs/product/r1_integrity_lock.md:15 and 20 say that a deletion must fail), which is
why `TamperEvident` is about the other lines; in the Error State the export
succeeds, since it is not gated (`ffi/src/lib.rs:1452`, while README.md:189 says all
calls return `Internal`); there `andna_verify_frame_v2` answers a wrong length with
`Length`, before the gate (`ffi/src/lib.rs:1221`, against
`fips/security_policy_draft.md:350`); and a manifest without a content type and one
with an empty one have the same hash (`manifest.rs:94`, while
`binding_faithfulness.rs:7` says that a change of any field changes it), which is
why `FileSeal` compares manifests by `ManifestBytes`; nothing checks the healing
slot on the way to a ratchet step (`ratchet_deterministic`, `derive.rs`, passes
zeros and does not call `check_deterministic_healing`, while
docs/threat-model/02-d0-state-custody-and-clone.md says at line 39 that this guard
is enforced before), which is why that slot is left out; and a second `tamper`
restores the frame (the flip is its own inverse) though `main.rs:568` prints that a
REJECT is to be expected.

## Proofs

`AuditChain_proofs` has the lemmas on the constant-level operators: what they
return (`NextRecordType`, `InitSinkType`), that a record made from a good sink
and pushed keeps it good (`NextRecordFits`, `PushKeepsGood`), that a sink opened
from a chained file is good (`InitSinkGood`), that first parts of chained logs
are chained (`PrefixChained`).

Two more say what the validator's `Ok` means (`ValidatedIsChained`: it is given of
exactly the lists with a record whose records all pass their checks) and what a
hash tells (`HashTells`: it is of one previous hash and one content only). From both
follows `SameHashSameLog`: two logs that validate and have one hash in common are the
same up to that line, so one hash commits to a whole history. The
validator reports the first check that fails, so the former needs that a set of
numbers with a member has a least one (`LeastNat`, from the library's well-founded
order).

`AuditSink_proofs` proves all five invariants of its run. `LogAndFileValid` is not
inductive alone, since a restart throws the sink away and the next one is made from
the file: the inductive invariant, `SinkInv`, adds that the file's records are
chained as long as nobody has changed them. After a change nothing of the kind
holds; what `SinkInv` still says is that every line, changed or moved, carries the
hash of a record the sink made. A hash is of one record only, so a line that passes
the check of its own hash is that record: hence `OwnRecordsOnly`. `TamperSeen`: a
changed line has another content and so another hash, which the next line, or its
own stored hash, contradicts. `AnchorTells` is of the forgeries the validator cannot
see, a log cut at its end or made a chain again (`Reissued`): by `SameHashSameLog` they
share no hash with the log but in what they have left of it as it was. It is what the
anchoring planned in docs/threat-model/06-audit-chain-and-split-world.md rests on.

`AndnaFfi_proofs` proves every safety property of the C ABI, by five invariants, each
resting on the ones before.
  - `TypeInv`, with `CallShape`: what a call holds at each label (a frame while
    verifying, a record to push at `push`, an open sink from `lock` on). Without it
    an element of an Option could not be typed.
  - `LogInv`, for `LogValid` and `FileFollows`: who is between `lock` and `unlock`
    owns the mutex, so the record made from the sink still fits when it is
    pushed; every snapshot in a call, and every whole file, is a first part of the log.
  - `CountInv`, for `LoggedOnce`: the records of this life are as many, per frame and
    code, as the answers given and the threads that have pushed and not yet answered.
  - `GateInv`, for the four gate results: one owner; no thread has seen a value
    beyond the current one; the tests passed are exactly those before the one being
    run; a thread past the gate, or told `Ok`, is in an approved module. Most steps do
    not touch the gate: they are shown `Quiet` once, and `QuietStep` does the rest.
  - `HeldInv`, for `NobodyStuck` and `FailsClosed`: who owns the mutex is between the lock
    and the unlock, and a mutex is poisoned only once there is a sink. So who waits for the mutex waits for a thread that can go on.

Of `CallsReturn` this leaves only the fairness to TLC. `EachAdvances` gives every label a
number, the steps its call has left at most (`StepsLeft`), and shows that each step
inside calls lowers that of one thread and changes no other's; `SomebodyGoesOn`, that as
long as a call is open there is such a step to take. A label that leads back, such as a
compare-exchange that spins until the other thread has finished, has no such numbers.
`PanicFailsClosed` is about the whole time after a panic under the mutex: the sink, whose
last hash may be ahead of its records, is never written again, and nothing but
`Internal` is answered, also to threads that were already waiting for the mutex.

`LedgerImplemented` then shows each step to be a step of `VerdictLedger` or a
stutter, action by action, from the first, the second and the fourth of these.

`EvidenceCli_proofs` proves all properties of its run. `ValidLogIsHistory`: two
processes may each extend an old copy of the log and overlay their files, so no
invariant of the file's lines survives the race. What survives is what a record's hash
covers: wherever a record is, in memory, in a file or in a copy, the contents its hash
stands for tell verdicts that were given, each a later one than the content before it
(`Told`). A log that validates is a chain, so its last record's hash covers all of it.
The two other parts of the inductive invariant, `CliInv`, say what a command holds at
each label (`Sound`) and that a command gives at most one verdict, so that there is a
time for each (`CountInv`, over the commands that still wait for theirs).

`AnswerIsSaved` speaks of a command that runs alone, which is no part of the state: its
invariant, `SavedInv`, follows what a `verify` holds against what is in the session log,
label by label, under the hypothesis that there is one place for commands (`Alone`).
What is written over a truncated log is then the whole of it (`WrittenWhole`).

If besides nothing is killed and nothing fails, both logs and the bundle stay in order.
`OrderInv` says how, label by label: where the one command is not extending a log, the
log tells the verdicts given; where it is, what it holds in memory tells them; where it
is not writing a bundle, the bundle is whole. `LogsTellTheSame` and `BundleFitsTogether`
are this invariant read at rest, `ReplayFindsVerdicts` at the label of the comparison.
A record on a file of another length tells no verdict and one on a frame tells one more
(`TellsNoMore`, `TellsOneMore`); the audit log gets one more with each
(`AuditTellsOneMore`).

Two results say how far that goes on when something does fail. `NobodyIsAccused`, for one
command at a time but any number of faults: the audit log and its copy are always a chain,
whole, empty or cut. `ChainInv` says so of the two files, of the sink a command holds (what
it will write goes on from what it found) and of an outcome that was computed and not yet
written; a truncated file is written only by the command that truncated it (`Alone`).
Thus what `verify` does not look at, the result of its export (`main.rs:270`), and a chain
that starts anew after a crash lose records but never show as tampering. `ChainHolds`
proves what the comment at sink.rs:149 promises, under the hypothesis the run
`chain_across_runs` shows to be needed: nothing killed and nothing failing
(`ExportInv`: between two commands the file is all that was exported).

`Lineage_proofs` proves all four results of its run. `KeysApart`: the keys of two
derivations are the same only if state, epoch and device are. `GivenUpForGood` needs
it, and that leading to a state is transitive: whatever a step makes of a state was
obtainable before. `OnlyOwnEpoch` goes through the chains of checks of the verifier
and of the policy in both directions (`R2Policy_proofs`, shared with the seals). It
assumes that garbled bytes are no frame, `RecordsValidated` that they are no record.

`FileSeal_proofs` proves `PromiseKept`: `Spec => KeepsPromise`, that the sealing
commands implement `SealPromise`. The verification that accepts looks at a copy
of a seal read steps before, out of files that other commands write and anyone may
alter, so the promise is not inductive. The inductive invariant, `SealInv`
(`SealsAreSealings`), says where signatures come from: every seal that can be read,
and every bundle a command holds, has garbled bytes for a signature or one that a
sealing made. Three lemmas do the rest: a frame that verifies is signed over the
header of one sealing (`AuthenticFrame`), that header binds the manifest and the
manifest the bytes (`AcceptedWasSealed`), and the registry read in that same step
grants the identity (`AcceptedIsGranted`). The hypotheses are a build with liboqs,
since the stub accepts signatures anyone can make, and that garbled bytes are the
signature of nothing.

The reports are proved in both directions. `AcceptedExactlyIfWhole` and
`ReportNamesTheFault` also need that nothing whole is refused, hence a build whose
engine starts (`andna_init` does not fail) and that garbled bytes are no frame and no
hash either; and they need `RegistriesInv`, that a file which parses as a registry is
one, since registries are rewritten and altered too. One lemma, `ReportOf`, says what
each entry of the report depends on; the two theorems read it off.

Three results are of the operators alone, for every registry, frame and manifest.
`AuthorizedIffGranted`: the chain of seven checks on the first entry found is the one
condition that some entry grants. `SnapshotDecides`: registries with one snapshot hash
decide alike, in any order of their entries, since a device has one entry
(`LookupIsAnywhere`). `DigestStandsForVerification` joins them: evidence digests are equal
exactly if the same file, frame, registry and manifest were verified, which is what
evidence.rs:8-16 asks of them, with the two exceptions the code has: an absent content
type is an empty one, and the manifest of a frame that does not verify is not covered.

`SealTyped` rests on `FilesInv`, which follows the copies: what each file may hold, and
for every command in flight what it carries (`Carries`). `AttestedIsDecided` is of any
commands at once, killed anywhere, and needs only that nobody gives evidence to
`seal-file` (`NobodySealsEvidence`): the evidence is not altered while a command runs, so
what is read back is what some command wrote or has only begun to (`FilesInv`).
`BackedInv` adds that a decided record which says ACCEPT has an acceptance with its file
hash and its T_E hash, which `verify_sealed` gives when it reports one.

`SealsGoThrough` proves `RoundTrip` of one command at a time and as long as nobody edits
a file, though commands may fail and be killed: `Proceeds` follows the one sealing from
the making of the bundle to the two files, and the registry made from a bundle grants its
signer (`OwnRegistryGrants`); `AcceptedExactlyIfWhole` does the rest. It assumes that a
command asked for a registry is given the other arguments too (`RegistryAskedWhole`) and
that a whole file does not read as a missing or broken one (`WholeIsReadable`).

`PythonCli_proofs` proves all five results of its run. `EnginesAgree`: the chains of checks of the
two engines come out alike in their first four places (`SameFirst`), whatever the
build, so the first failure is the same. `LogsAreHonest`: the logs are rewritten by
whoever saves last, so the inductive invariant, `HonestInv`, speaks of all the
copies: those in the processes, in the session log and in the bundles are honest;
a verdict about to be captured is nobody else's and was not captured before, which
is why no log tells one twice. Most steps only hand copies on (`QuietStep`); the
capture puts a new record behind the ones loaded (`HonestAppend`). `PythonTyped`,
`BundleOfOneLog` and `OnlyEnginesDiffer` need a second one, `PlacedInv`: what a command
holds at each label, that the evidence in a bundle being finished is what its command
loaded, and that every verdict given is what its engine answers of its frame. Honest
records and an engine that answers alike leave another engine as the only reason for
a contradiction.

The assumptions are those of the modules: the owner of no mutex is not a thread,
verdicts are codes a verification can return, the build flags are Booleans, the
bounds are natural numbers, a command has the arguments the parser requires of it
(`JobAssumption`), documents and evidence are different files (`PathsAssumption`),
a garbled profile is no signer (`SignerAssumption`), and the frames given at first are a
content for every frame file (`GivenAssumption`). TLC evaluates them on each run.
The hypotheses of single theorems, such as the build with liboqs, stand in their
`ASSUME`.

Every safety property of the passing runs is proved. The liveness of the C ABI,
`CallsReturn`, is out of the prover's reach, since it needs fairness and ENABLED: it stays
with TLC, and the proofs have its two halves that are about steps and states
(`EachAdvances`, `SomebodyGoesOn`). The disagreements the three other runs find stay with
TLC too.

## Not modelled

The arithmetic of hashes, sampling and signatures, byte layouts, hexadecimal and JSON
syntax; allocation failures; failures of key generation and context strings over 255
bytes, which return an error and change nothing; the healing slot, zero in every call;
overflow of the sequence number (2^64 records). Of `ffi_cli`, `seal-file` with the
seed on the command line, which is `seal-file` without the reading of a profile, and
`version`, `smoke` and `inspect-seal`, which write nothing. Of `python/andna`, the HTTP
service: one event loop over the engine and the log that `PythonCli` has. Build
tools, code generation and the demo keep no state of the system.

## Plan

What the first plan listed is done but for two parts: the HTTP service, with its log
in memory, and `seal-file` with a seed on the command line.

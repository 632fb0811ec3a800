------------------------------- MODULE Lineage -------------------------------
(* The epoch keys of a device: crates/andna-d0, with the verifier and the    *)
(* policy they are for.  A process holds secret states P, ratchets them,     *)
(* derives the key of an epoch from one, publishes its T_E and signs; an     *)
(* operator keeps the registry.  The process chooses the epoch of every      *)
(* call: a state does not know its own.                                      *)
(*                                                                           *)
(* Sampling is perfect, as hashes are: a sampled state is told by the state  *)
(* and the epoch it was sampled from, so a state is its root and the epochs  *)
(* it was ratcheted at.  The healing slot is zero in every call and is left  *)
(* out.  The key pair made from a seed is the seed.                          *)
EXTENDS SealVerify, FiniteSets

CONSTANTS
  Slot,          \* places of the process that hold a state
  Root,          \* coefficients drawn at provisioning, all in range
  Epoch, DeviceId16,
  Context,       \* the pairs of an epoch and a device id a caller derives for
  SigCtx,        \* context strings a caller signs with
  Absent,        \* a slot that holds no state
  CtxHash,       \* what the frames are about
  Enrolled,      \* the devices of the registry, in its order
  MayRestore,    \* the memory of the process may be copied and put back
  MaxDepth,      \* bound: ratchet steps from a root
  MaxCalls       \* bound: calls and edits in all

State == [root : Root, path : Seq(Epoch)]
AnyContext == [epoch : Epoch, device_id16 : DeviceId16]

ASSUME LineageNames == Garbled \notin Root /\ Absent \notin State
ASSUME LineageEpochs ==
  0 \in Epoch /\ Context \subseteq AnyContext
ASSUME EnrolledOnce ==
  /\ Enrolled \in Seq(DeviceId16)
  /\ \A i, j \in DOMAIN Enrolled : Enrolled[i] = Enrolled[j] => i = j
ASSUME LineageBounds ==
  {MaxDepth, MaxCalls} \subseteq Nat /\ MayRestore \in BOOLEAN

VARIABLES
  states,     \* the state in each slot
  held,       \* key pairs the process keeps
  saved,      \* copies of states outside the process
  roots,      \* the roots that were ever provisioned
  published,  \* the T_E it made known, each with the state it was derived of
  signed,     \* every signature it made, and what it was made with
  registry,   \* the policy registry
  calls       \* how many calls and edits there were

secrets == <<states, held, saved, roots>>
vars == <<secrets, published, signed, registry, calls>>

-----------------------------------------------------------------------------
(* Records, and their validation.  A record of another length is Garbled, and *)
(* so is a polynomial with a coefficient out of range.                       *)

D0_SPEC_VERSION == 2
D0_P_PROFILE_ID == 2

StateRecord(P) ==
  [version |-> D0_SPEC_VERSION, profile |-> D0_P_PROFILE_ID, reserved |-> 0, poly |-> P]

\* Mutant of EpochRecord: the epoch is not in it.
EpochRecordNoEpoch(P, ctx) ==
  [version |-> D0_SPEC_VERSION, profile |-> D0_P_PROFILE_ID, reserved |-> 0,
   epoch |-> 0, device_id16 |-> ctx.device_id16, poly |-> P]

EpochRecord(P, ctx) ==
  [version |-> D0_SPEC_VERSION, profile |-> D0_P_PROFILE_ID, reserved |-> 0,
   epoch |-> ctx.epoch, device_id16 |-> ctx.device_id16, poly |-> P]

\* Mutant of ValidateFields: the reserved bytes are not looked at.
ValidateFieldsNoReserved(rec) ==
  FirstFailing(
    << <<"Version", rec.version = D0_SPEC_VERSION>>,
       <<"Profile", rec.profile = D0_P_PROFILE_ID>>,
       <<"PolyCoeffRange", rec.poly # Garbled>> >>, "Ok")

ValidateFields(rec) ==
  FirstFailing(
    << <<"Version", rec.version = D0_SPEC_VERSION>>,
       <<"Profile", rec.profile = D0_P_PROFILE_ID>>,
       <<"ReservedNonzero", rec.reserved = 0>>,
       <<"PolyCoeffRange", rec.poly # Garbled>> >>, "Ok")

StateFields == {"version", "profile", "reserved", "poly"}
EpochFields == StateFields \cup {"epoch", "device_id16"}

\* Records of other fields are of another length.
ValidateStateRecord(rec) ==
  IF rec = Garbled \/ DOMAIN rec # StateFields THEN "StateRecordLength"
  ELSE ValidateFields(rec)

ValidateEpochRecord(rec) ==
  IF rec = Garbled \/ DOMAIN rec # EpochFields THEN "EpochRecordLength"
  ELSE ValidateFields(rec)

-----------------------------------------------------------------------------
(* Derivation.                                                               *)

\* Mutant of FromCoeffs: the range is not checked.
FromCoeffsUnchecked(coeffs) == Some([root |-> coeffs, path |-> <<>>])

FromCoeffs(coeffs) ==
  IF coeffs = Garbled THEN None ELSE Some([root |-> coeffs, path |-> <<>>])

\* The coefficients sampled from an epoch and a whole state record.
SampleCoeffs(epoch, rec) == [rec.poly EXCEPT !.path = Append(@, epoch)]

\* Mutant of RatchetDeterministic: the state record is not sampled from.
RatchetForgets(P, epoch) == [P EXCEPT !.path = <<epoch>>]

RatchetDeterministic(P, epoch) == SampleCoeffs(epoch, StateRecord(P))

SeedE(P, ctx) == Shake256(<<"ANDNA-D0-EPOCH-SEED", EpochRecord(P, ctx)>>)
XiFromSeed(seed) == Shake256(<<"ANDNA-D0-MLDSA-SEED", seed>>)
DeriveXi(P, ctx) == XiFromSeed(SeedE(P, ctx))

KeygenInternal(P, ctx) == DeriveXi(P, ctx)

AssembleTE(pk, ctx) ==
  [key |-> pk, epoch |-> ctx.epoch, device_id16 |-> ctx.device_id16]

\* What is signed is the message framed by the context string, and liboqs
\* verifies with the empty one.
NoContext == ""
TrySign(key, msg, sigCtx) ==
  Sign(key, IF sigCtx = NoContext THEN msg ELSE <<sigCtx, msg>>)

MessageFor(te) == Mu(BuildMuPre(te, CtxHash))

-----------------------------------------------------------------------------

\* A device is enrolled, and none of its T_E authorized yet.
NewEntry(d) ==
  [device_id16 |-> d, device_id32 |-> DeviceId32(d), authorized_te_hashes |-> {},
   current_epoch |-> 0, revoked |-> FALSE, frozen |-> FALSE, recovery_hold |-> FALSE]

Init ==
  /\ states = [s \in Slot |-> Absent]
  /\ held = {} /\ saved = {} /\ roots = {}
  /\ published = {}
  /\ signed = {}
  /\ registry = [stamp |-> 1,
                  entries |-> [i \in DOMAIN Enrolled |-> NewEntry(Enrolled[i])]]
  /\ calls = 0

\* from_coeffs on fresh coefficients, out of range or not.
Provision(s, coeffs) ==
  /\ coeffs \notin roots
  /\ FromCoeffs(coeffs) # None
  /\ states' = [states EXCEPT ![s] = FromCoeffs(coeffs)[1]]
  /\ roots' = roots \cup {coeffs}
  /\ UNCHANGED <<held, saved, published, signed, registry>>

\* The old state stays where it is, unless the new one takes its place.
Ratchet(from, to, epoch) ==
  /\ states[from] # Absent
  /\ Len(states[from].path) < MaxDepth
  /\ states' = [states EXCEPT ![to] = RatchetDeterministic(states[from], epoch)]
  /\ UNCHANGED <<held, saved, roots, published, signed, registry>>

DropState(s) ==
  /\ states[s] # Absent
  /\ states' = [states EXCEPT ![s] = Absent]
  /\ UNCHANGED <<held, saved, roots, published, signed, registry>>

DeriveEpochPublic(s, ctx) ==
  /\ states[s] # Absent
  /\ published' = published \cup
       {[te |-> AssembleTE(KeygenInternal(states[s], ctx), ctx), of |-> states[s]]}
  /\ UNCHANGED <<secrets, signed, registry>>

DeriveEpochKeypair(s, ctx) ==
  /\ states[s] # Absent
  /\ held' = held \cup {[key |-> KeygenInternal(states[s], ctx), of |-> states[s], ctx |-> ctx]}
  /\ UNCHANGED <<states, saved, roots, published, signed, registry>>

DropKeypair(pair) ==
  /\ held' = held \ {pair}
  /\ UNCHANGED <<states, saved, roots, published, signed, registry>>

\* A signature over the frame header of te, by the key of P and ctx.
Signs(key, P, ctx, te, sigCtx) ==
  /\ signed' = signed \cup
       {[sig |-> TrySign(key, MessageFor(te), sigCtx), of |-> P, ctx |-> ctx,
         te |-> te, sig_ctx |-> sigCtx]}
  /\ UNCHANGED <<secrets, published, registry>>

\* The key is derived again to sign: of the state that is there now.
SignInEpoch(s, ctx, te, sigCtx) ==
  /\ states[s] # Absent
  /\ Signs(KeygenInternal(states[s], ctx), states[s], ctx, te, sigCtx)

SignWithKeypair(pair, te, sigCtx) == Signs(pair.key, pair.of, pair.ctx, te, sigCtx)

\* A snapshot of the machine, and the return to it.
Snapshot(s) ==
  /\ MayRestore
  /\ states[s] # Absent
  /\ saved' = saved \cup {states[s]}
  /\ UNCHANGED <<states, held, roots, published, signed, registry>>

Restore(s, P) ==
  /\ states' = [states EXCEPT ![s] = P]
  /\ UNCHANGED <<held, saved, roots, published, signed, registry>>

\* The operator authorizes a T_E, moves the epoch, withdraws a device.
Edit(i, entry) ==
  /\ registry' = [registry EXCEPT !.entries[i] = entry]
  /\ UNCHANGED <<secrets, published, signed>>

AuthorizeTE(i, te) ==
  Edit(i, [registry.entries[i] EXCEPT !.authorized_te_hashes = @ \cup {Shake256(te)}])
SetEpoch(i, epoch) == Edit(i, [registry.entries[i] EXCEPT !.current_epoch = epoch])
Revoke(i) == Edit(i, [registry.entries[i] EXCEPT !.revoked = TRUE])

Call ==
  \E s \in Slot :
    \/ \E coeffs \in Root \cup {Garbled} : Provision(s, coeffs)
    \/ \E to \in Slot, epoch \in Epoch : Ratchet(s, to, epoch)
    \/ DropState(s)
    \/ \E ctx \in Context : DeriveEpochPublic(s, ctx) \/ DeriveEpochKeypair(s, ctx)
    \/ \E ctx \in Context, pub \in published, sigCtx \in SigCtx :
         SignInEpoch(s, ctx, pub.te, sigCtx)

PairCall ==
  \E pair \in held :
    \/ DropKeypair(pair)
    \/ \E pub \in published, sigCtx \in SigCtx : SignWithKeypair(pair, pub.te, sigCtx)

Rollback == \E s \in Slot : Snapshot(s) \/ \E P \in saved : Restore(s, P)

RegistryEdit ==
  \E i \in DOMAIN Enrolled :
    \/ \E pub \in published : AuthorizeTE(i, pub.te)
    \/ \E epoch \in Epoch : SetEpoch(i, epoch)
    \/ Revoke(i)

Next ==
  /\ calls < MaxCalls
  /\ calls' = calls + 1
  /\ Call \/ PairCall \/ Rollback \/ RegistryEdit

Spec == Init /\ [][Next]_vars

-----------------------------------------------------------------------------
(* Properties.                                                               *)

Live == {states[s] : s \in Slot} \ {Absent}

TypeOK ==
  /\ states \in [Slot -> State \cup {Absent}]
  /\ saved \subseteq State
  /\ roots \subseteq Root
  /\ \A d \in held \cup signed : d.of \in State /\ d.ctx \in Context
  /\ \A pub \in published : pub.of \in State
  /\ registry.entries \in
       [DOMAIN Enrolled ->
          [device_id16 : DeviceId16, device_id32 : {DeviceId32(d) : d \in DeviceId16},
           authorized_te_hashes : SUBSET {Shake256(pub.te) : pub \in published},
           current_epoch : Epoch, revoked : BOOLEAN, frozen : {FALSE},
           recovery_hold : {FALSE}]]

\* Ratcheting P leads to Q: Q was ratcheted at the epochs of P, and at more.
LeadsTo(P, Q) ==
  /\ P.root = Q.root
  /\ Len(P.path) <= Len(Q.path)
  /\ \A i \in 1..Len(P.path) : P.path[i] = Q.path[i]

\* The key of a derivation d can be had again: from a state that leads to its
\* state, here or in a copy, or in a pair that was kept.
Obtainable(d) ==
  \/ \E P \in Live \cup saved : LeadsTo(P, d.of)
  \/ \E pair \in held : pair.key = KeygenInternal(d.of, d.ctx)

ContextOf(te) == [epoch |-> te.epoch, device_id16 |-> te.device_id16]

\* Every derivation that was used.
Derivations ==
  {[of |-> d.of, ctx |-> d.ctx] : d \in held \cup signed}
  \cup {[of |-> pub.of, ctx |-> ContextOf(pub.te)] : pub \in published}

\* Forward secrecy of the ratchet: once the state a key was derived of has been
\* ratcheted away or dropped, with the pairs that held the key and the copies
\* of what leads to it, no sequence of calls has the key again, whatever epoch
\* and device the caller names, and whatever other states are alive; and what
\* is signed is signed by a key that could be had (derive.rs:223-243,
\* mldsa.rs:90-143).
NeverAgain ==
  [][/\ \A d \in Derivations : Obtainable(d)' => Obtainable(d)
     /\ \A d \in signed' \ signed : Obtainable(d)]_vars

FrameOf(te1, te2, sig) == PackFrameV2(BuildMuPre(te1, CtxHash), te2, sig)

\* D0 with R1 and R2: of the frames put together from the headers and the T_E
\* that were published and the signatures that were made, exactly those are
\* authorized whose parts are of one T_E, signed with the empty context by the
\* derivation that T_E was published from, for an epoch that is the registry's
\* now, on an entry that lists this T_E and is not revoked. So a state that was
\* ratcheted, or restored, between publishing and signing, or a caller that
\* names another epoch or device, yields frames that are refused, and moving the
\* epoch on refuses the frames of all keys of earlier ones.
AuthorizedExactly ==
  OqsBackend /\ EngineUp =>
    \A pub1, pub2 \in published, s \in signed :
      VerifyAndAuthorize(FrameOf(pub1.te, pub2.te, s.sig), registry).r2.stage2 = "AUTHORIZED"
      <=> /\ pub1.te = pub2.te /\ s.te = pub2.te
          /\ s.sig_ctx = NoContext
          /\ s.of = pub2.of /\ s.ctx = ContextOf(pub2.te)
          /\ \E i \in DOMAIN registry.entries :
               LET e == registry.entries[i]
               IN  /\ e.device_id16 = s.ctx.device_id16
                   /\ e.current_epoch = s.ctx.epoch
                   /\ Shake256(pub2.te) \in e.authorized_te_hashes
                   /\ ~e.revoked

\* A record, and what it is with one field damaged.
Damaged(rec) ==
  {rec, [rec EXCEPT !.version = 1], [rec EXCEPT !.profile = 1],
   [rec EXCEPT !.reserved = 1], [rec EXCEPT !.poly = Garbled]}

\* The validators accept what the crate writes and nothing near it: of the state
\* record and the epoch record behind a published T_E, whole, damaged in one
\* field or of another length, each accepts its own kind, whole
\* (derive.rs:122-149, 256-301).
ValidatorsExact ==
  \A pub \in published :
    LET stateRec == StateRecord(pub.of)
        epochRec == EpochRecord(pub.of, ContextOf(pub.te))
        recs     == Damaged(stateRec) \cup Damaged(epochRec) \cup {Garbled}
    IN  /\ {rec \in recs : ValidateStateRecord(rec) = "Ok"} = {stateRec}
        /\ {rec \in recs : ValidateEpochRecord(rec) = "Ok"} = {epochRec}
=============================================================================

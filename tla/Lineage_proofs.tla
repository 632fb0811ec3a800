--------------------------- MODULE Lineage_proofs ---------------------------
EXTENDS Lineage, R2Policy_proofs

(***************************************************************************)
(* Epoch keys, proved for every set of states, epochs and devices and any  *)
(* number of calls.                                                        *)
(*                                                                         *)
(* LineageInv says that every key in use is the derivation it is recorded  *)
(* with: a pair that is kept, a T_E that was published and a signature     *)
(* that was made are of KeygenInternal of their state and context, and the *)
(* states are of roots that were provisioned.  Perfect hashes make the     *)
(* derivation one to one (KeysApart), so a key tells the state, the epoch  *)
(* and the device it was derived of.  NeverAgain then asks of each step    *)
(* only that it brings no state that leads where no state led before: a    *)
(* ratchet step leads on from its own state, provisioning draws a root     *)
(* that is new.  AuthorizedExactly is the checks of R1 and R2 read through *)
(* KeysApart.                                                              *)
(***************************************************************************)

\* Different derivations give different keys: the seed binds the version, the
\* state, the epoch and the device (derive.rs:133-218).
LEMMA KeysApart ==
  ASSUME NEW P, NEW Q, NEW c \in AnyContext, NEW d \in AnyContext,
         KeygenInternal(P, c) = KeygenInternal(Q, d)
  PROVE  P = Q /\ c = d
<1>1. EpochRecord(P, c) = EpochRecord(Q, d)
  BY DEF KeygenInternal, DeriveXi, XiFromSeed, SeedE, Shake256
<1>2. P = Q /\ c.epoch = d.epoch /\ c.device_id16 = d.device_id16
  BY <1>1 DEF EpochRecord
<1> QED  BY <1>2 DEF AnyContext

\* Signatures with the empty context are told apart from the others, and from
\* those over another header.
LEMMA SignaturesApart ==
  ASSUME NEW k1, NEW k2, NEW te1, NEW te2, NEW sigCtx,
         TrySign(k1, MessageFor(te1), sigCtx) = Sign(k2, MessageFor(te2))
  PROVE  k1 = k2 /\ te1 = te2 /\ sigCtx = NoContext
<1>1. /\ k1 = k2
      /\ (IF sigCtx = NoContext THEN MessageFor(te1) ELSE <<sigCtx, MessageFor(te1)>>)
           = MessageFor(te2)
  BY DEF TrySign, Sign
<1>2. \A x : <<sigCtx, x>> # MessageFor(te2)
  BY DEF MessageFor, Mu, Shake256
<1>3. sigCtx = NoContext /\ MessageFor(te1) = MessageFor(te2)
  BY <1>1, <1>2
<1>4. te1 = te2
  BY <1>3 DEF MessageFor, Mu, Shake256, BuildMuPre
<1> QED  BY <1>1, <1>3, <1>4

-----------------------------------------------------------------------------

LineageInv ==
  /\ states \in [Slot -> State \cup {Absent}]
  /\ saved \subseteq State
  /\ roots \subseteq Root
  /\ \A P \in Live \cup saved : P.root \in roots
  /\ \A pair \in held : /\ pair.of \in State /\ pair.of.root \in roots
                        /\ pair.ctx \in Context
                        /\ pair.key = KeygenInternal(pair.of, pair.ctx)
  /\ \A pub \in published : /\ pub.of \in State /\ pub.of.root \in roots
                            /\ ContextOf(pub.te) \in AnyContext
                            /\ pub.te = AssembleTE(KeygenInternal(pub.of, ContextOf(pub.te)),
                                                   ContextOf(pub.te))
  /\ \A s \in signed : /\ s.of \in State /\ s.of.root \in roots
                       /\ s.ctx \in Context
                       /\ s.sig = TrySign(KeygenInternal(s.of, s.ctx),
                                          MessageFor(s.te), s.sig_ctx)

Entries ==
  [device_id16 : DeviceId16, device_id32 : {DeviceId32(d) : d \in DeviceId16},
   authorized_te_hashes : SUBSET {Shake256(pub.te) : pub \in published},
   current_epoch : Epoch, revoked : BOOLEAN, frozen : {FALSE}, recovery_hold : {FALSE}]

\* The registry lists the devices that were enrolled, each once.
RegistryInv ==
  /\ registry = [stamp |-> registry.stamp, entries |-> registry.entries]
  /\ registry.entries \in [DOMAIN Enrolled -> Entries]
  /\ \A i \in DOMAIN Enrolled :
       /\ registry.entries[i].device_id16 = Enrolled[i]
       /\ registry.entries[i].device_id32 = DeviceId32(Enrolled[i])

LEMMA LineageInit == Init => LineageInv /\ RegistryInv
<1> SUFFICES ASSUME Init PROVE LineageInv /\ RegistryInv
  OBVIOUS
<1>1. Live = {}
  BY DEF Init, Live
<1>2. LineageInv
  BY <1>1 DEF Init, LineageInv
<1>3. RegistryInv
  BY EnrolledOnce, LineageEpochs DEF Init, RegistryInv, NewEntry, Entries
<1> QED  BY <1>2, <1>3

\* What a slot holds after a step that fills it with P, or empties it.
LEMMA LiveAfter ==
  ASSUME LineageInv, NEW s \in Slot, NEW P,
         states' = [states EXCEPT ![s] = P]
  PROVE  Live' \subseteq Live \cup ({P} \ {Absent})
BY DEF LineageInv, Live

\* A ratchet step gives a state, of the same root, that its own leads to, and
\* whatever it leads to its own did too.
LEMMA RatchetLeadsOn ==
  ASSUME NEW P \in State, NEW epoch \in Epoch
  PROVE  /\ RatchetDeterministic(P, epoch) \in State
         /\ RatchetDeterministic(P, epoch).root = P.root
         /\ \A Q \in State : LeadsTo(RatchetDeterministic(P, epoch), Q) => LeadsTo(P, Q)
<1> DEFINE N == RatchetDeterministic(P, epoch)
<1>1. N.root = P.root /\ N.path = Append(P.path, epoch) /\ N \in State
  BY DEF RatchetDeterministic, SampleCoeffs, StateRecord, State
<1>2. ASSUME NEW Q \in State, LeadsTo(N, Q)
      PROVE  LeadsTo(P, Q)
  <2>1. P.path \in Seq(Epoch) /\ Q.path \in Seq(Epoch)
    BY DEF State
  <2>2. Len(N.path) = Len(P.path) + 1 /\ \A i \in 1..Len(P.path) : N.path[i] = P.path[i]
    BY <1>1, <2>1
  <2> QED  BY <1>1, <1>2, <2>1, <2>2 DEF LeadsTo
<1> QED  BY <1>1, <1>2

\* The keys that can be had after a step that adds at most states which led
\* nowhere new, and no pairs: one that could not be had before still cannot.
LEMMA NothingNew ==
  ASSUME NEW d,
         \A P \in (Live \cup saved)' : LeadsTo(P, d.of) => \E Q \in Live \cup saved : LeadsTo(Q, d.of),
         held' \subseteq held
  PROVE  Obtainable(d)' => Obtainable(d)
BY DEF Obtainable

\* A state, and one it leads to: whoever holds the state can derive any key of it.
LEMMA LeadsToItself ==
  ASSUME NEW P \in State
  PROVE  LeadsTo(P, P)
BY DEF LeadsTo, State

DerivationsInv ==
  \A d \in Derivations : d.of \in State /\ d.of.root \in roots /\ d.ctx \in AnyContext

LEMMA DerivationsAreOurs == LineageInv => DerivationsInv
BY LineageEpochs DEF LineageInv, DerivationsInv, Derivations

\* What a step of the process or of the registry does to the invariant and to
\* the keys that can be had.
Keeps ==
  /\ LineageInv'
  /\ \A d \in Derivations : Obtainable(d)' => Obtainable(d)
  /\ \A d \in signed' \ signed : Obtainable(d)

LEMMA QuietKeeps ==
  ASSUME LineageInv, UNCHANGED <<states, held, saved, roots, published, signed>>
  PROVE  Keeps
<1>1. Live' = Live
  BY DEF Live
<1>2. LineageInv'
  BY <1>1 DEF LineageInv
<1>3. \A d : Obtainable(d)' <=> Obtainable(d)
  BY <1>1 DEF Obtainable
<1> QED  BY <1>2, <1>3 DEF Keeps

LEMMA ProvisionKeeps ==
  ASSUME LineageInv, NEW s \in Slot, NEW coeffs \in Root \cup {Garbled},
         Provision(s, coeffs)
  PROVE  Keeps
<1> DEFINE P == [root |-> coeffs, path |-> <<>>]
<1>1. /\ coeffs \in Root /\ coeffs \notin roots
      /\ states' = [states EXCEPT ![s] = P]
      /\ roots' = roots \cup {coeffs}
      /\ UNCHANGED <<held, saved, published, signed>>
  BY DEF Provision, FromCoeffs, Some, None
<1>2. P \in State /\ P.root = coeffs
  BY <1>1 DEF State
<1> HIDE DEF P
<1>3. Live' \subseteq Live \cup {P}
  BY <1>1, LiveAfter
<1>4. LineageInv'
  BY <1>1, <1>2, <1>3 DEF LineageInv
<1>5. ASSUME NEW d \in Derivations, Obtainable(d)'
      PROVE  Obtainable(d)
  <2>1. d.of.root \in roots
    BY DerivationsAreOurs DEF DerivationsInv
  <2>2. ~LeadsTo(P, d.of)
    BY <1>1, <1>2, <2>1 DEF LeadsTo
  <2>3. \A Q \in (Live \cup saved)' : LeadsTo(Q, d.of) => \E R \in Live \cup saved : LeadsTo(R, d.of)
    BY <1>1, <1>3, <2>2
  <2> QED  BY <1>1, <1>5, <2>3, NothingNew
<1> QED  BY <1>1, <1>4, <1>5 DEF Keeps

LEMMA RatchetKeeps ==
  ASSUME LineageInv, NEW from \in Slot, NEW to \in Slot, NEW epoch \in Epoch,
         Ratchet(from, to, epoch)
  PROVE  Keeps
<1> DEFINE P == states[from]
           N == RatchetDeterministic(P, epoch)
<1>1. /\ P \in Live /\ P \in State
      /\ states' = [states EXCEPT ![to] = N]
      /\ UNCHANGED <<held, saved, roots, published, signed>>
  BY DEF Ratchet, LineageInv, Live
<1> HIDE DEF P
<1>2. N \in State /\ N.root = P.root /\ \A Q \in State : LeadsTo(N, Q) => LeadsTo(P, Q)
  BY <1>1, RatchetLeadsOn
<1> HIDE DEF N
<1>3. Live' \subseteq Live \cup {N}
  BY <1>1, LiveAfter
<1>4. LineageInv'
  BY <1>1, <1>2, <1>3 DEF LineageInv
<1>5. ASSUME NEW d \in Derivations, Obtainable(d)'
      PROVE  Obtainable(d)
  <2>1. d.of \in State
    BY DerivationsAreOurs DEF DerivationsInv
  <2>2. \A Q \in (Live \cup saved)' : LeadsTo(Q, d.of) => \E R \in Live \cup saved : LeadsTo(R, d.of)
    BY <1>1, <1>2, <1>3, <2>1
  <2> QED  BY <1>1, <1>5, <2>2, NothingNew
<1> QED  BY <1>1, <1>4, <1>5 DEF Keeps

\* A state is dropped, copied, or put back from a copy.
LEMMA MovedKeeps ==
  ASSUME LineageInv, NEW s \in Slot,
         DropState(s) \/ Snapshot(s) \/ \E P \in saved : Restore(s, P)
  PROVE  Keeps
<1>1. CASE DropState(s)
  <2>1. Live' \subseteq Live /\ states' \in [Slot -> State \cup {Absent}]
    BY <1>1, LiveAfter DEF DropState, LineageInv
  <2>2. LineageInv'
    BY <1>1, <2>1 DEF DropState, LineageInv
  <2>3. \A d : Obtainable(d)' => Obtainable(d)
    BY <1>1, <2>1 DEF DropState, Obtainable
  <2> QED  BY <1>1, <2>2, <2>3 DEF DropState, Keeps
<1>2. CASE Snapshot(s)
  <2>1. Live' = Live /\ saved' \subseteq Live \cup saved /\ saved' \subseteq State
    BY <1>2 DEF Snapshot, Live, LineageInv
  <2>2. LineageInv'
    BY <1>2, <2>1 DEF Snapshot, LineageInv
  <2>3. \A d : Obtainable(d)' => Obtainable(d)
    BY <1>2, <2>1 DEF Snapshot, Obtainable
  <2> QED  BY <1>2, <2>2, <2>3 DEF Snapshot, Keeps
<1>3. ASSUME NEW P \in saved, Restore(s, P)
      PROVE  Keeps
  <2>1. P \in State /\ states' = [states EXCEPT ![s] = P] /\ saved' = saved
    BY <1>3 DEF Restore, LineageInv
  <2>2. Live' \subseteq Live \cup saved
    BY <1>3, <2>1, LiveAfter
  <2>3. LineageInv'
    BY <1>3, <2>1, <2>2 DEF Restore, LineageInv
  <2>4. \A d : Obtainable(d)' => Obtainable(d)
    BY <1>3, <2>2 DEF Restore, Obtainable
  <2> QED  BY <1>3, <2>3, <2>4 DEF Restore, Keeps
<1> QED  BY <1>1, <1>2, <1>3

\* A T_E is published.
LEMMA PublishKeeps ==
  ASSUME LineageInv, NEW s \in Slot, NEW ctx \in Context, DeriveEpochPublic(s, ctx)
  PROVE  Keeps
<1> DEFINE te == AssembleTE(KeygenInternal(states[s], ctx), ctx)
<1>1. /\ states[s] \in State /\ states[s] \in Live /\ ctx \in AnyContext
      /\ published' = published \cup {[te |-> te, of |-> states[s]]}
      /\ UNCHANGED <<states, held, saved, roots, signed>>
  BY LineageEpochs DEF DeriveEpochPublic, LineageInv, Live, secrets
<1>2. Live' = Live
  BY <1>1 DEF Live
<1>3. ContextOf(te) = ctx
  BY <1>1 DEF ContextOf, AssembleTE, AnyContext
<1>4. LineageInv'
  BY <1>1, <1>2, <1>3 DEF LineageInv
<1>5. \A d : Obtainable(d)' <=> Obtainable(d)
  BY <1>1, <1>2 DEF Obtainable
<1> QED  BY <1>1, <1>4, <1>5 DEF Keeps

\* A pair is derived: its key is one of a state that is there.
LEMMA PairKeeps ==
  ASSUME LineageInv, NEW s \in Slot, NEW ctx \in Context, DeriveEpochKeypair(s, ctx)
  PROVE  Keeps
<1> DEFINE pair == [key |-> KeygenInternal(states[s], ctx), of |-> states[s], ctx |-> ctx]
<1>1. /\ states[s] \in State /\ states[s] \in Live /\ ctx \in AnyContext
      /\ held' = held \cup {pair}
      /\ UNCHANGED <<states, saved, roots, published, signed>>
  BY LineageEpochs DEF DeriveEpochKeypair, LineageInv, Live
<1>2. Live' = Live
  BY <1>1 DEF Live
<1>3. LineageInv'
  BY <1>1, <1>2 DEF LineageInv
<1>4. ASSUME NEW d \in Derivations, Obtainable(d)'
      PROVE  Obtainable(d)
  <2>1. d.of \in State /\ d.ctx \in AnyContext
    BY DerivationsAreOurs DEF DerivationsInv
  <2>2. CASE pair.key = KeygenInternal(d.of, d.ctx)
    <3>1. d.of = states[s]
      BY <1>1, <2>1, <2>2, KeysApart
    <3> QED  BY <1>1, <3>1, LeadsToItself DEF Obtainable
  <2>3. CASE pair.key # KeygenInternal(d.of, d.ctx)
    BY <1>1, <1>2, <1>4, <2>3 DEF Obtainable
  <2> QED  BY <2>2, <2>3
<1> QED  BY <1>1, <1>3, <1>4 DEF Keeps

LEMMA DropPairKeeps ==
  ASSUME LineageInv, NEW pair \in held, DropKeypair(pair)
  PROVE  Keeps
<1>1. Live' = Live /\ held' \subseteq held
  BY DEF DropKeypair, Live
<1>2. LineageInv'
  BY <1>1 DEF DropKeypair, LineageInv
<1>3. \A d : Obtainable(d)' => Obtainable(d)
  BY <1>1 DEF DropKeypair, Obtainable
<1> QED  BY <1>2, <1>3 DEF DropKeypair, Keeps

\* A signature by a key that can be had.
LEMMA SignsKeeps ==
  ASSUME LineageInv, NEW P \in State, P.root \in roots, NEW ctx \in Context,
         NEW te, NEW sigCtx, Signs(KeygenInternal(P, ctx), P, ctx, te, sigCtx),
         Obtainable([of |-> P, ctx |-> ctx])
  PROVE  Keeps
<1> DEFINE s == [sig |-> TrySign(KeygenInternal(P, ctx), MessageFor(te), sigCtx), of |-> P,
                 ctx |-> ctx, te |-> te, sig_ctx |-> sigCtx]
<1>1. /\ signed' = signed \cup {s}
      /\ UNCHANGED <<states, held, saved, roots, published>>
  BY DEF Signs, secrets
<1>2. Live' = Live
  BY <1>1 DEF Live
<1>3. LineageInv'
  BY <1>1, <1>2 DEF LineageInv
<1>4. \A d : Obtainable(d)' <=> Obtainable(d)
  BY <1>1, <1>2 DEF Obtainable
<1>5. Obtainable(s)
  BY DEF Obtainable
<1> QED  BY <1>1, <1>3, <1>4, <1>5 DEF Keeps

LEMMA SignInEpochKeeps ==
  ASSUME LineageInv, NEW s \in Slot, NEW ctx \in Context, NEW te, NEW sigCtx,
         SignInEpoch(s, ctx, te, sigCtx)
  PROVE  Keeps
<1> DEFINE P == states[s]
<1>1. /\ P \in State /\ P \in Live /\ P.root \in roots
      /\ Signs(KeygenInternal(P, ctx), P, ctx, te, sigCtx)
  BY DEF SignInEpoch, LineageInv, Live
<1> HIDE DEF P
<1>2. Obtainable([of |-> P, ctx |-> ctx])
  BY <1>1, LeadsToItself DEF Obtainable
<1> QED  BY <1>1, <1>2, SignsKeeps

LEMMA SignWithKeypairKeeps ==
  ASSUME LineageInv, NEW pair \in held, NEW te, NEW sigCtx,
         SignWithKeypair(pair, te, sigCtx)
  PROVE  Keeps
<1>1. /\ pair.of \in State /\ pair.of.root \in roots /\ pair.ctx \in Context
      /\ Signs(KeygenInternal(pair.of, pair.ctx), pair.of, pair.ctx, te, sigCtx)
  BY DEF SignWithKeypair, LineageInv
<1>2. Obtainable([of |-> pair.of, ctx |-> pair.ctx])
  BY DEF Obtainable, LineageInv
<1> QED  BY <1>1, <1>2, SignsKeeps

LEMMA LineageStep ==
  ASSUME LineageInv, [Next]_vars
  PROVE  Keeps
<1>1. CASE UNCHANGED vars
  BY <1>1, QuietKeeps DEF vars, secrets
<1>2. CASE Call
  BY <1>2, ProvisionKeeps, RatchetKeeps, MovedKeeps, PublishKeeps, PairKeeps,
     SignInEpochKeeps DEF Call
<1>3. CASE PairCall
  BY <1>3, DropPairKeeps, SignWithKeypairKeeps DEF PairCall
<1>4. CASE Rollback
  BY <1>4, MovedKeeps DEF Rollback
<1>5. CASE RegistryEdit
  BY <1>5, QuietKeeps DEF RegistryEdit, AuthorizeTE, SetEpoch, Revoke, Edit, secrets
<1> QED  BY <1>1, <1>2, <1>3, <1>4, <1>5 DEF Next

-----------------------------------------------------------------------------

\* An edit that leaves an entry an entry of its device leaves the registry one
\* that lists the devices that were enrolled.
LEMMA EditKeeps ==
  ASSUME RegistryInv, NEW i \in DOMAIN Enrolled, NEW entry,
         Edit(i, entry), entry \in Entries,
         entry.device_id16 = registry.entries[i].device_id16,
         entry.device_id32 = registry.entries[i].device_id32
  PROVE  RegistryInv'
<1>1. /\ registry'.entries = [registry.entries EXCEPT ![i] = entry]
      /\ registry' = [stamp |-> registry'.stamp, entries |-> registry'.entries]
      /\ published' = published
  <2>1. registry' = [registry EXCEPT !.entries = [registry.entries EXCEPT ![i] = entry]]
    BY DEF Edit
  <2>2. registry = [stamp |-> registry.stamp, entries |-> registry.entries]
    BY DEF RegistryInv
  <2> QED  BY <2>1, <2>2 DEF Edit
<1>2. Entries' = Entries
  BY <1>1 DEF Entries
<1> QED  BY <1>1, <1>2 DEF RegistryInv

LEMMA RegistryStep ==
  ASSUME RegistryInv, [Next]_vars
  PROVE  RegistryInv'
<1>1. CASE registry' = registry /\ published \subseteq published'
  <2>1. \A e \in Entries : e \in Entries'
    BY <1>1 DEF Entries
  <2> QED  BY <1>1, <2>1 DEF RegistryInv
<1>2. CASE RegistryEdit
  <2>1. PICK i \in DOMAIN Enrolled :
          \/ \E pub \in published : AuthorizeTE(i, pub.te)
          \/ \E epoch \in Epoch : SetEpoch(i, epoch)
          \/ Revoke(i)
    BY <1>2 DEF RegistryEdit
  <2> DEFINE e == registry.entries[i]
  <2>2. e \in Entries
    BY DEF RegistryInv
  <2>3. ASSUME NEW pub \in published, AuthorizeTE(i, pub.te)
        PROVE  RegistryInv'
    <3> DEFINE hashes == e.authorized_te_hashes \cup {Shake256(pub.te)}
               new == [e EXCEPT !.authorized_te_hashes = hashes]
    <3>1. Edit(i, new)
      BY <2>3 DEF AuthorizeTE
    <3>2. hashes \in SUBSET {Shake256(p.te) : p \in published}
      BY <2>2 DEF Entries
    <3> HIDE DEF e, hashes
    <3>3. /\ new \in Entries
          /\ new.device_id16 = e.device_id16 /\ new.device_id32 = e.device_id32
      BY <2>2, <3>2 DEF Entries
    <3> QED  BY <3>1, <3>3, EditKeeps DEF e
  <2>4. ASSUME NEW epoch \in Epoch, SetEpoch(i, epoch)
        PROVE  RegistryInv'
    <3> DEFINE new == [e EXCEPT !.current_epoch = epoch]
    <3>1. Edit(i, new)
      BY <2>4 DEF SetEpoch
    <3> HIDE DEF e
    <3>2. /\ new \in Entries
          /\ new.device_id16 = e.device_id16 /\ new.device_id32 = e.device_id32
      BY <2>2 DEF Entries
    <3> QED  BY <3>1, <3>2, EditKeeps DEF e
  <2>5. ASSUME Revoke(i)
        PROVE  RegistryInv'
    <3> DEFINE new == [e EXCEPT !.revoked = TRUE]
    <3>1. Edit(i, new)
      BY <2>5 DEF Revoke
    <3> HIDE DEF e
    <3>2. /\ new \in Entries
          /\ new.device_id16 = e.device_id16 /\ new.device_id32 = e.device_id32
      BY <2>2 DEF Entries
    <3> QED  BY <3>1, <3>2, EditKeeps DEF e
  <2> QED  BY <2>1, <2>3, <2>4, <2>5
<1>3. CASE UNCHANGED vars
  BY <1>1, <1>3 DEF vars
<1>4. CASE Call
  BY <1>1, <1>4 DEF Call, Provision, Ratchet, DropState, DeriveEpochPublic,
     DeriveEpochKeypair, SignInEpoch, Signs, secrets
<1>5. CASE PairCall
  BY <1>1, <1>5 DEF PairCall, DropKeypair, SignWithKeypair, Signs
<1>6. CASE Rollback
  BY <1>1, <1>6 DEF Rollback, Snapshot, Restore
<1> QED  BY <1>2, <1>3, <1>4, <1>5, <1>6 DEF Next

-----------------------------------------------------------------------------

\* What is no frame is the frame of nothing.
GarbledIsNoFrame == \A muPre, te, sig : Garbled # PackFrameV2(muPre, te, sig)

\* A signature that was made is the key's of a published T_E over its header
\* exactly when it was made with the empty context, for this T_E and by the
\* derivation the T_E is of.
LEMMA SignatureTells ==
  ASSUME LineageInv, NEW pub \in published, NEW s \in signed
  PROVE  s.sig = Sign(pub.te.key, MessageFor(pub.te))
           <=> /\ s.te = pub.te /\ s.sig_ctx = NoContext
               /\ s.of = pub.of /\ s.ctx = ContextOf(pub.te)
<1> DEFINE c == ContextOf(pub.te)
<1>1. /\ s.ctx \in AnyContext /\ c \in AnyContext
      /\ s.sig = TrySign(KeygenInternal(s.of, s.ctx), MessageFor(s.te), s.sig_ctx)
      /\ pub.te = AssembleTE(KeygenInternal(pub.of, c), c)
  BY LineageEpochs DEF LineageInv
<1> HIDE DEF c
<1>2. pub.te.key = KeygenInternal(pub.of, c)
  BY <1>1 DEF AssembleTE
<1>3. ASSUME s.sig = Sign(pub.te.key, MessageFor(pub.te))
      PROVE  s.te = pub.te /\ s.sig_ctx = NoContext /\ s.of = pub.of /\ s.ctx = c
  <2>1. TrySign(KeygenInternal(s.of, s.ctx), MessageFor(s.te), s.sig_ctx)
          = Sign(KeygenInternal(pub.of, c), MessageFor(pub.te))
    BY <1>1, <1>2, <1>3
  <2>2. /\ KeygenInternal(s.of, s.ctx) = KeygenInternal(pub.of, c)
        /\ s.te = pub.te /\ s.sig_ctx = NoContext
    <3> DEFINE k1 == KeygenInternal(s.of, s.ctx)
               k2 == KeygenInternal(pub.of, c)
    <3> HIDE DEF k1, k2
    <3> QED  BY <2>1, SignaturesApart DEF k1, k2
  <2> QED  BY <1>1, <2>2, KeysApart
<1>4. ASSUME s.te = pub.te, s.sig_ctx = NoContext, s.of = pub.of, s.ctx = c
      PROVE  s.sig = Sign(pub.te.key, MessageFor(pub.te))
  BY <1>1, <1>2, <1>4 DEF TrySign
<1> QED  BY <1>3, <1>4 DEF c

\* R1 accepts a frame of published parts exactly when header and T_E are of one
\* T_E and the signature is its key's over the header.
LEMMA AcceptedIs ==
  ASSUME OqsBackend, EngineUp, GarbledIsNoFrame, NEW te1, NEW te2, NEW sig
  PROVE  VerifyFrameV2(FrameOf(te1, te2, sig)) = "Ok"
           <=> te1 = te2 /\ sig = Sign(te2.key, MessageFor(te2))
<1> DEFINE f == FrameOf(te1, te2, sig)
           mp == BuildMuPre(te1, CtxHash)
<1>1. f.mu_pre = mp /\ f.te = te2 /\ f.sig = sig /\ f # Garbled
  BY DEF FrameOf, PackFrameV2, GarbledIsNoFrame
<1>2. /\ mp.pk_hash = Shake256(te1) /\ mp.epoch = te1.epoch
      /\ mp.device_id32 = DeviceId32(te1.device_id16)
      /\ ParseMuPreHeader(mp)
  BY DEF BuildMuPre, ParseMuPreHeader
<1>3. MessageFor(te1) = Mu(mp)
  BY DEF MessageFor
<1> HIDE DEF f, mp
<1>4. OqsBackend = TRUE
  BY BackendAssumption
<1>5. ASSUME VerifyFrameV2(f) = "Ok"
      PROVE  te1 = te2 /\ sig = Sign(te2.key, MessageFor(te2))
  <2>1. CheckPkHashBinding(mp, te2) /\ sig = Sign(te2.key, Mu(mp))
    BY <1>1, <1>4, <1>5, FrameOk DEF VerifyFrameV2
  <2>2. te1 = te2
    BY <1>2, <2>1 DEF CheckPkHashBinding, Shake256
  <2> QED  BY <1>3, <2>1, <2>2
<1>6. ASSUME te1 = te2, sig = Sign(te2.key, MessageFor(te2))
      PROVE  VerifyFrameV2(f) = "Ok"
  <2>1. /\ CheckPkHashBinding(mp, te2) /\ CheckEpochCorrelation(mp, te2)
        /\ CheckDeviceIdDuality(mp, te2) /\ sig = Sign(te2.key, Mu(mp))
    BY <1>2, <1>3, <1>6 DEF CheckPkHashBinding, CheckEpochCorrelation, CheckDeviceIdDuality
  <2>2. VerifyVnext(f) = "Ok"
    BY <1>1, <1>2, <2>1, FrameAccepted
  <2> QED  BY <1>1, <2>2 DEF VerifyFrameV2
<1> QED  BY <1>5, <1>6 DEF f

\* The registry lists each device once, under either of its names.
LEMMA DevicesOnce ==
  ASSUME RegistryInv
  PROVE  /\ NoDeviceTwice(registry.entries)
         /\ DOMAIN registry.entries = DOMAIN Enrolled
         /\ DOMAIN registry.entries \subseteq Nat
         /\ \A i \in DOMAIN registry.entries :
              /\ registry.entries[i].device_id32 = DeviceId32(registry.entries[i].device_id16)
              /\ registry.entries[i].frozen = FALSE
              /\ registry.entries[i].recovery_hold = FALSE
<1>1. DOMAIN registry.entries = DOMAIN Enrolled /\ DOMAIN Enrolled \subseteq Nat
  BY EnrolledOnce DEF RegistryInv
<1>2. \A i \in DOMAIN Enrolled :
        /\ registry.entries[i].device_id32 = DeviceId32(Enrolled[i])
        /\ registry.entries[i].device_id16 = Enrolled[i]
        /\ registry.entries[i].frozen = FALSE
        /\ registry.entries[i].recovery_hold = FALSE
  BY DEF RegistryInv, Entries
<1>3. NoDeviceTwice(registry.entries)
  BY <1>1, <1>2, EnrolledOnce DEF NoDeviceTwice, DeviceId32, Shake256
<1> QED  BY <1>1, <1>2, <1>3

\* R2 authorizes the facts of a frame of one T_E exactly when the entry of its
\* device lists it, for the epoch that is now, and is not revoked.
LEMMA GrantedIs ==
  ASSUME RegistryInv, NEW te, NEW sig
  PROVE  Reason(FactsOf(FrameOf(te, te, sig)), registry) = "registry_entry_valid"
           <=> \E i \in DOMAIN registry.entries :
                 LET e == registry.entries[i]
                 IN  /\ e.device_id16 = te.device_id16
                     /\ e.current_epoch = te.epoch
                     /\ Shake256(te) \in e.authorized_te_hashes
                     /\ ~e.revoked
<1> DEFINE facts == FactsOf(FrameOf(te, te, sig))
           Grants(e) == /\ e.device_id16 = te.device_id16
                        /\ e.current_epoch = te.epoch
                        /\ Shake256(te) \in e.authorized_te_hashes
                        /\ ~e.revoked
<1>1. /\ facts.device_id16 = te.device_id16
      /\ facts.device_id32 = DeviceId32(te.device_id16)
      /\ facts.epoch = te.epoch /\ facts.te_hash = Shake256(te)
  BY DEF FactsOf, FrameOf, PackFrameV2, BuildMuPre
<1> HIDE DEF facts
<1>2. ASSUME Reason(facts, registry) = "registry_entry_valid"
      PROVE  \E i \in DOMAIN registry.entries : Grants(registry.entries[i])
  BY <1>1, <1>2, GrantedReason
<1>3. ASSUME NEW i \in DOMAIN registry.entries, Grants(registry.entries[i])
      PROVE  Reason(facts, registry) = "registry_entry_valid"
  <2> DEFINE e == registry.entries[i]
  <2>1. /\ e.device_id32 = facts.device_id32 /\ e.device_id16 = facts.device_id16
        /\ ~e.revoked /\ ~e.frozen /\ ~e.recovery_hold
        /\ facts.epoch = e.current_epoch /\ facts.te_hash \in e.authorized_te_hashes
    BY <1>1, <1>3, DevicesOnce
  <2> QED  BY <2>1, DevicesOnce, ReasonGranted
<1> QED  BY <1>2, <1>3 DEF facts

\* What VerifyAndAuthorize answers of stage 2.
LEMMA Stage2Is ==
  ASSUME NEW f
  PROVE  VerifyAndAuthorize(f, registry).r2.stage2 = "AUTHORIZED"
           <=> /\ VerifyFrameV2(f) = "Ok"
               /\ Reason(FactsOf(f), registry) = "registry_entry_valid"
<1>1. VerifyAndAuthorize(f, registry).r2 = Authorize(Stage1(f), registry)
  BY DEF VerifyAndAuthorize
<1>2. CASE VerifyFrameV2(f) = "Ok"
  <2>1. Authorize(Stage1(f), registry) = Evaluated(FactsOf(f), registry)
    BY <1>2 DEF Stage1, Authorize, Some, None
  <2> QED  BY <1>1, <1>2, <2>1 DEF Evaluated
<1>3. CASE VerifyFrameV2(f) # "Ok"
  <2>1. Authorize(Stage1(f), registry) = NotEvaluated(registry)
    BY <1>3 DEF Stage1, Authorize, None
  <2> QED  BY <1>1, <1>3, <2>1 DEF NotEvaluated
<1> QED  BY <1>2, <1>3

LEMMA LineageAuthorizes ==
  ASSUME LineageInv, RegistryInv, GarbledIsNoFrame
  PROVE  AuthorizedExactly
<1> SUFFICES ASSUME OqsBackend, EngineUp,
                    NEW pub1 \in published, NEW pub2 \in published, NEW s \in signed
             PROVE  VerifyAndAuthorize(FrameOf(pub1.te, pub2.te, s.sig), registry).r2.stage2
                      = "AUTHORIZED"
                    <=> /\ pub1.te = pub2.te /\ s.te = pub2.te
                        /\ s.sig_ctx = NoContext
                        /\ s.of = pub2.of /\ s.ctx = ContextOf(pub2.te)
                        /\ \E i \in DOMAIN registry.entries :
                             LET e == registry.entries[i]
                             IN  /\ e.device_id16 = s.ctx.device_id16
                                 /\ e.current_epoch = s.ctx.epoch
                                 /\ Shake256(pub2.te) \in e.authorized_te_hashes
                                 /\ ~e.revoked
  BY DEF AuthorizedExactly
<1> DEFINE te == pub2.te
           f  == FrameOf(pub1.te, te, s.sig)
           Granted(dev, epoch) ==
             \E i \in DOMAIN registry.entries :
               LET e == registry.entries[i]
               IN  /\ e.device_id16 = dev /\ e.current_epoch = epoch
                   /\ Shake256(te) \in e.authorized_te_hashes /\ ~e.revoked
<1>1. VerifyFrameV2(f) = "Ok"
        <=> pub1.te = te /\ s.sig = Sign(te.key, MessageFor(te))
  BY AcceptedIs
<1>2. s.sig = Sign(te.key, MessageFor(te))
        <=> /\ s.te = te /\ s.sig_ctx = NoContext
            /\ s.of = pub2.of /\ s.ctx = ContextOf(te)
  BY SignatureTells
<1>3. pub1.te = te => (Reason(FactsOf(f), registry) = "registry_entry_valid"
                         <=> Granted(te.device_id16, te.epoch))
  BY GrantedIs
<1>4. s.ctx = ContextOf(te) => s.ctx.device_id16 = te.device_id16 /\ s.ctx.epoch = te.epoch
  BY DEF ContextOf
<1>5. VerifyAndAuthorize(f, registry).r2.stage2 = "AUTHORIZED"
        <=> VerifyFrameV2(f) = "Ok" /\ Reason(FactsOf(f), registry) = "registry_entry_valid"
  BY Stage2Is
<1> HIDE DEF f, te
<1>6. VerifyAndAuthorize(f, registry).r2.stage2 = "AUTHORIZED"
        <=> /\ pub1.te = te /\ s.te = te /\ s.sig_ctx = NoContext
            /\ s.of = pub2.of /\ s.ctx = ContextOf(te)
            /\ Granted(s.ctx.device_id16, s.ctx.epoch)
  <2> HIDE DEF Granted
  <2> QED  BY <1>1, <1>2, <1>3, <1>4, <1>5
<1> QED  BY <1>6 DEF f, te

LEMMA LineageTypes ==
  ASSUME LineageInv, RegistryInv
  PROVE  TypeOK
<1>1. /\ states \in [Slot -> State \cup {Absent}]
      /\ saved \subseteq State /\ roots \subseteq Root
      /\ \A d \in held \cup signed : d.of \in State /\ d.ctx \in Context
      /\ \A pub \in published : pub.of \in State
  BY DEF LineageInv
<1>2. registry.entries \in [DOMAIN Enrolled -> Entries]
  BY DEF RegistryInv
<1> QED  BY <1>1, <1>2 DEF TypeOK, Entries

-----------------------------------------------------------------------------

LEMMA LineageAlways == Spec => [](LineageInv /\ RegistryInv)
<1>1. LineageInv /\ RegistryInv /\ [Next]_vars => (LineageInv /\ RegistryInv)'
  BY LineageStep, RegistryStep DEF Keeps
<1> QED  BY <1>1, LineageInit, PTL DEF Spec

\* Every state of the process, every T_E and every registry is one the code can
\* make: roots that were drawn, devices that were enrolled, hashes of T_E that
\* were published.
THEOREM LineageTyped == Spec => []TypeOK
<1>1. LineageInv /\ RegistryInv => TypeOK
  BY LineageTypes
<1> QED  BY <1>1, LineageAlways, PTL

\* A key that was given up is not had again, and nothing is signed by a key that
\* cannot be had (derive.rs:223-243, mldsa.rs:90-143).
THEOREM GivenUpForGood == Spec => NeverAgain
<1>1. LineageInv /\ [Next]_vars
        => [/\ \A d \in Derivations : Obtainable(d)' => Obtainable(d)
            /\ \A d \in signed' \ signed : Obtainable(d)]_vars
  BY LineageStep DEF Keeps
<1> QED  BY <1>1, LineageAlways, PTL DEF Spec, NeverAgain

\* The verifier and the registry authorize exactly the frames of the derivation,
\* the epoch and the T_E that the registry lists now (core.rs, r2.rs over
\* derive.rs and mldsa.rs).
THEOREM OnlyOwnEpoch ==
  ASSUME GarbledIsNoFrame
  PROVE  Spec => []AuthorizedExactly
<1>1. LineageInv /\ RegistryInv => AuthorizedExactly
  BY LineageAuthorizes
<1> QED  BY <1>1, LineageAlways, PTL

-----------------------------------------------------------------------------
(* The validators of records.                                                *)

\* Bytes of another length are no record, and out of range is no state.
GarbledIsNoRecord ==
  /\ Garbled \notin State
  /\ \A P \in State, ctx \in AnyContext :
       Garbled # StateRecord(P) /\ Garbled # EpochRecord(P, ctx)

\* Of a record in range and its damaged forms, all that its fields allow is the
\* record itself.
LEMMA FieldsTell ==
  ASSUME NEW rec,
         rec.version = D0_SPEC_VERSION, rec.profile = D0_P_PROFILE_ID,
         rec.reserved = 0, rec.poly # Garbled,
         {"version", "profile", "reserved", "poly"} \subseteq DOMAIN rec
  PROVE  /\ ValidateFields(rec) = "Ok"
         /\ \A r \in Damaged(rec) : DOMAIN r = DOMAIN rec
         /\ \A r \in Damaged(rec) : ValidateFields(r) = "Ok" => r = rec
<1> DEFINE checks(r) ==
      << <<"Version", r.version = D0_SPEC_VERSION>>,
         <<"Profile", r.profile = D0_P_PROFILE_ID>>,
         <<"ReservedNonzero", r.reserved = 0>>,
         <<"PolyCoeffRange", r.poly # Garbled>> >>
<1>1. ASSUME NEW r
      PROVE  ValidateFields(r) = FirstFailing(checks(r), "Ok")
  BY DEF ValidateFields
<1>2. ASSUME NEW r, ValidateFields(r) = "Ok"
      PROVE  /\ r.version = D0_SPEC_VERSION /\ r.profile = D0_P_PROFILE_ID
             /\ r.reserved = 0 /\ r.poly # Garbled
  <2>1. DOMAIN checks(r) = 1..4
    OBVIOUS
  <2>2. \A k \in 1..4 : checks(r)[k][1] # "Ok"
    OBVIOUS
  <2>3. \A k \in 1..4 : checks(r)[k][2]
    <3>1. FirstFailing(checks(r), "Ok") = "Ok"
      BY <1>1, <1>2
    <3> HIDE DEF checks
    <3> QED  BY <2>1, <2>2, <3>1, FirstFailingGood
  <2>4. /\ checks(r)[1][2] = (r.version = D0_SPEC_VERSION)
        /\ checks(r)[2][2] = (r.profile = D0_P_PROFILE_ID)
        /\ checks(r)[3][2] = (r.reserved = 0)
        /\ checks(r)[4][2] = (r.poly # Garbled)
    OBVIOUS
  <2>5. checks(r)[1][2] /\ checks(r)[2][2] /\ checks(r)[3][2] /\ checks(r)[4][2]
    <3> HIDE DEF checks
    <3> QED  BY <2>3
  <2> HIDE DEF checks
  <2> QED  BY <2>4, <2>5
<1>3. ValidateFields(rec) = "Ok"
  <2>1. DOMAIN checks(rec) = 1..4
    OBVIOUS
  <2>2. \A k \in 1..4 : checks(rec)[k][2]
    <3>1. checks(rec)[1][2] /\ checks(rec)[2][2] /\ checks(rec)[3][2] /\ checks(rec)[4][2]
      OBVIOUS
    <3>2. \A k \in 1..4 : k = 1 \/ k = 2 \/ k = 3 \/ k = 4
      OBVIOUS
    <3> HIDE DEF checks
    <3> QED  BY <3>1, <3>2
  <2>3. FirstFailing(checks(rec), "Ok") = "Ok"
    <3> HIDE DEF checks
    <3> QED  BY <2>1, <2>2, FirstFailingNone
  <2> QED  BY <1>1, <2>3
<1>4. \A r \in Damaged(rec) : DOMAIN r = DOMAIN rec
  BY DEF Damaged
<1>5. ASSUME NEW r \in Damaged(rec), ValidateFields(r) = "Ok"
      PROVE  r = rec
  <2>1. CASE r = [rec EXCEPT !.version = 1]
    BY <1>2, <1>5, <2>1 DEF D0_SPEC_VERSION
  <2>2. CASE r = [rec EXCEPT !.profile = 1]
    BY <1>2, <1>5, <2>2 DEF D0_P_PROFILE_ID
  <2>3. CASE r = [rec EXCEPT !.reserved = 1]
    BY <1>2, <1>5, <2>3
  <2>4. CASE r = [rec EXCEPT !.poly = Garbled]
    BY <1>2, <1>5, <2>4
  <2> QED  BY <1>5, <2>1, <2>2, <2>3, <2>4 DEF Damaged
<1> QED  BY <1>3, <1>4, <1>5

\* Of the records of a state and of a derivation from it, whole, damaged or of
\* another length, each validator lets the whole one of its kind pass
\* (derive.rs:259-303).
LEMMA ValidatorsTell ==
  ASSUME GarbledIsNoRecord, NEW P \in State, NEW ctx \in AnyContext
  PROVE  LET recs == Damaged(StateRecord(P)) \cup Damaged(EpochRecord(P, ctx)) \cup {Garbled}
         IN  /\ {rec \in recs : ValidateStateRecord(rec) = "Ok"} = {StateRecord(P)}
             /\ {rec \in recs : ValidateEpochRecord(rec) = "Ok"} = {EpochRecord(P, ctx)}
<1> DEFINE s == StateRecord(P)
           e == EpochRecord(P, ctx)
<1>1. /\ s.version = D0_SPEC_VERSION /\ s.profile = D0_P_PROFILE_ID
      /\ s.reserved = 0 /\ s.poly = P /\ DOMAIN s = StateFields
  BY DEF StateRecord, StateFields
<1>2. /\ e.version = D0_SPEC_VERSION /\ e.profile = D0_P_PROFILE_ID
      /\ e.reserved = 0 /\ e.poly = P /\ DOMAIN e = EpochFields
  BY DEF EpochRecord, StateFields, EpochFields
<1>3. P # Garbled /\ s # Garbled /\ e # Garbled
  BY DEF GarbledIsNoRecord
<1>4. StateFields # EpochFields
  BY DEF StateFields, EpochFields
<1> HIDE DEF s, e
<1>5. /\ ValidateFields(s) = "Ok" /\ \A r \in Damaged(s) : DOMAIN r = DOMAIN s
      /\ \A r \in Damaged(s) : ValidateFields(r) = "Ok" => r = s
  BY <1>1, <1>3, FieldsTell DEF StateFields
<1>6. /\ ValidateFields(e) = "Ok" /\ \A r \in Damaged(e) : DOMAIN r = DOMAIN e
      /\ \A r \in Damaged(e) : ValidateFields(r) = "Ok" => r = e
  BY <1>2, <1>3, FieldsTell DEF StateFields, EpochFields
<1>7. s \in Damaged(s) /\ e \in Damaged(e)
  BY DEF Damaged
<1>8. ASSUME NEW r \in Damaged(s) \cup Damaged(e) \cup {Garbled}
      PROVE  /\ ValidateStateRecord(r) = "Ok" <=> r = s
             /\ ValidateEpochRecord(r) = "Ok" <=> r = e
  BY <1>1, <1>2, <1>3, <1>4, <1>5, <1>6 DEF ValidateStateRecord, ValidateEpochRecord
<1>9. /\ {r \in Damaged(s) \cup Damaged(e) \cup {Garbled} : ValidateStateRecord(r) = "Ok"} = {s}
      /\ {r \in Damaged(s) \cup Damaged(e) \cup {Garbled} : ValidateEpochRecord(r) = "Ok"} = {e}
  BY <1>7, <1>8
<1> QED  BY <1>9 DEF s, e

\* The validators accept of every record behind a published T_E the whole one of
\* their own kind, and of its damaged forms none (derive.rs:122-149, 256-301).
THEOREM RecordsValidated ==
  ASSUME GarbledIsNoRecord
  PROVE  Spec => []ValidatorsExact
<1>1. LineageInv => ValidatorsExact
  BY ValidatorsTell DEF LineageInv, ValidatorsExact
<1> QED  BY <1>1, LineageAlways, PTL
=============================================================================

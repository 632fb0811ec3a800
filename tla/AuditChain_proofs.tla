------------------------- MODULE AuditChain_proofs --------------------------
(* Lemmas about the operators of AuditChain.                                 *)
EXTENDS AuditChain, SequenceTheorems, WellFoundedInduction, TLAPS

\* The checks of the validator, spelt out.
RecordOk(rs, i) ==
  /\ rs[i].content.magic = MAGIC
  /\ rs[i].content.version = VERSION
  /\ rs[i].content.run_id = rs[1].content.run_id
  /\ rs[i].content.seq = i - 1
  /\ rs[i].prev_hash = ExpectedPrev(rs, i)
  /\ "RESERVED" \notin rs[i].content.notes_flags
  /\ "HAS_FRAME" \in rs[i].content.notes_flags \/ rs[i].content.frame_hash = ZeroHash
  /\ ComputeRecordHash(rs[i]) = rs[i].record_hash

LEMMA PassesIsRecordOk ==
  ASSUME NEW rs, NEW i
  PROVE  Passes(rs, i) <=> RecordOk(rs, i)
<1>1. Passes(rs, i) <=> /\ Checks(rs, i)[1][2] /\ Checks(rs, i)[2][2]
                        /\ Checks(rs, i)[3][2] /\ Checks(rs, i)[4][2]
                        /\ Checks(rs, i)[5][2] /\ Checks(rs, i)[6][2]
                        /\ Checks(rs, i)[7][2] /\ Checks(rs, i)[8][2]
  BY DEF Passes
<1>2. QED  BY <1>1 DEF Checks, RecordOk

LEMMA NextRecordType ==
  ASSUME NEW s \in AuditSinkState, NEW inp \in VerifyEventInput
  PROVE  NextContent(s, inp) \in Content /\ NextRecord(s, inp) \in AuditRecord
<1>1. EnforcedFlags(inp) \in SUBSET Flags
  BY DEF EnforcedFlags, VerifyEventInput, Flags
<1>2. FrameHash(inp) \in {ZeroHash} \cup {Sha3(f) : f \in Frame}
  <2>1. CASE inp.frame_hash # None
    BY <2>1 DEF FrameHash, VerifyEventInput, Some, None
  <2>2. CASE inp.frame_hash = None /\ inp.frame_bytes # None
    BY <2>2 DEF FrameHash, VerifyEventInput, Some, None
  <2>3. CASE inp.frame_hash = None /\ inp.frame_bytes = None
    BY <2>3 DEF FrameHash
  <2>4. QED  BY <2>1, <2>2, <2>3
<1>3. VERSION \in Nat
  BY DEF VERSION
<1>4. NextContent(s, inp) \in Content
  BY <1>1, <1>2, <1>3 DEF NextContent, Content, AuditSinkState, VerifyEventInput
<1>5. s.last_hash \in Seq(Content)
  BY DEF AuditSinkState
<1>6. Append(s.last_hash, NextContent(s, inp)) \in Seq(Content)
  BY <1>4, <1>5, AppendProperties
<1>7. QED  BY <1>4, <1>5, <1>6 DEF NextRecord, AuditRecord

LEMMA PushRecordType ==
  ASSUME NEW s \in AuditSinkState, NEW rec \in AuditRecord
  PROVE  PushRecord(s, rec) \in AuditSinkState
<1>1. Append(s.records, rec) \in Seq(AuditRecord)
  BY AppendProperties DEF AuditSinkState
<1>2. rec.record_hash \in Seq(Content)
  BY DEF AuditRecord
<1>3. s.next_seq + 1 \in Nat /\ s.run_id \in Nat
  BY DEF AuditSinkState
<1>4. QED  BY <1>1, <1>2, <1>3 DEF PushRecord, AuditSinkState

LEMMA NewSinkType ==
  ASSUME NEW run \in Nat
  PROVE  NewSink(run) \in AuditSinkState
BY EmptySeq DEF NewSink, AuditSinkState, ZeroHash

\* What init_sink_if_needed opens is a new chain or the chain of the file.
LEMMA InitSinkCases ==
  ASSUME NEW run \in Nat, NEW f \in AuditFile
  PROVE  \/ InitSink(run, f) = NewSink(run)
         \/ /\ f.recs # <<>>
            /\ InitSink(run, f) =
                 [run_id |-> f.recs[Len(f.recs)].content.run_id,
                  next_seq |-> f.recs[Len(f.recs)].content.seq + 1,
                  last_hash |-> f.recs[Len(f.recs)].record_hash,
                  records |-> f.recs]
BY DEF InitSink, NewSink

LEMMA InitSinkType ==
  ASSUME NEW run \in Nat, NEW f \in AuditFile
  PROVE  InitSink(run, f) \in AuditSinkState
<1>1. CASE InitSink(run, f) = NewSink(run)
  BY <1>1, NewSinkType
<1>2. CASE InitSink(run, f) # NewSink(run)
  <2>1. f.recs \in Seq(AuditRecord) /\ f.recs # <<>>
    BY <1>2, InitSinkCases DEF AuditFile
  <2>2. f.recs[Len(f.recs)] \in AuditRecord
    BY <2>1, EmptySeq, LenProperties, ElementOfSeq
  <2>3. /\ f.recs[Len(f.recs)].content.run_id \in Nat
        /\ f.recs[Len(f.recs)].content.seq + 1 \in Nat
        /\ f.recs[Len(f.recs)].record_hash \in Seq(Content)
    BY <2>2 DEF AuditRecord, Content
  <2>4. QED  BY <1>2, <2>1, <2>3, InitSinkCases DEF AuditSinkState
<1>3. QED  BY <1>1, <1>2

-----------------------------------------------------------------------------
(* Chains.                                                                   *)

\* A record made for the state the sink is in.
Fits(s, rec) ==
  /\ rec.content.magic = MAGIC
  /\ rec.content.version = VERSION
  /\ rec.content.run_id = s.run_id
  /\ rec.content.seq = s.next_seq
  /\ rec.prev_hash = s.last_hash
  /\ "RESERVED" \notin rec.content.notes_flags
  /\ "HAS_FRAME" \in rec.content.notes_flags \/ rec.content.frame_hash = ZeroHash
  /\ ComputeRecordHash(rec) = rec.record_hash

LEMMA NextRecordFits ==
  ASSUME NEW s \in AuditSinkState, NEW inp \in VerifyEventInput
  PROVE  Fits(s, NextRecord(s, inp))
<1>1. "RESERVED" \notin EnforcedFlags(inp)
  BY DEF EnforcedFlags
<1>2. "HAS_FRAME" \in EnforcedFlags(inp) \/ FrameHash(inp) = ZeroHash
  BY DEF EnforcedFlags, FrameHash
<1>3. QED
  BY <1>1, <1>2 DEF Fits, NextRecord, NextContent, ComputeRecordHash

\* Pushing a record that fits keeps the sink good.
LEMMA PushKeepsGood ==
  ASSUME NEW s \in AuditSinkState, NEW rec \in AuditRecord, GoodSink(s), Fits(s, rec)
  PROVE  GoodSink(PushRecord(s, rec))
<1> DEFINE old == s.records
           new == Append(s.records, rec)
<1>1. /\ old \in Seq(AuditRecord) /\ Len(old) \in Nat
      /\ Len(new) = Len(old) + 1
      /\ \A i \in 1..Len(old) : new[i] = old[i]
      /\ new[Len(old) + 1] = rec
  BY AppendProperties, LenProperties DEF AuditSinkState
<1>2. /\ \A i \in 1..Len(old) : RecordOk(old, i)
      /\ s.next_seq = Len(old)
      /\ s.last_hash = ExpectedPrev(old, Len(old) + 1)
      /\ old # <<>> => s.run_id = old[1].content.run_id
  BY PassesIsRecordOk DEF GoodSink, Chained
<1>3. old = <<>> <=> Len(old) = 0
  BY <1>1, EmptySeq
<1>4. \A i \in 1..Len(new) : ExpectedPrev(new, i) = ExpectedPrev(old, i)
  BY <1>1 DEF ExpectedPrev
<1>5. new[1].content.run_id = s.run_id
  BY <1>1, <1>2, <1>3 DEF Fits
<1>6. ASSUME NEW i \in 1..Len(new)  PROVE Passes(new, i)
  <2>1. CASE i \in 1..Len(old)
    <3>1. new[1] = old[1] /\ new[i] = old[i]
      BY <1>1, <2>1
    <3>2. QED  BY <3>1, <2>1, <1>2, <1>4, PassesIsRecordOk DEF RecordOk
  <2>2. CASE i = Len(old) + 1
    <3>1. new[i] = rec
      BY <1>1, <2>2
    <3>2. rec.content.seq = i - 1
      BY <1>1, <1>2, <2>2 DEF Fits
    <3>3. rec.prev_hash = ExpectedPrev(new, i)
      BY <1>2, <1>4, <2>2 DEF Fits
    <3>4. RecordOk(new, i)
      BY <1>5, <3>1, <3>2, <3>3 DEF RecordOk, Fits
    <3>5. QED  BY <3>4, PassesIsRecordOk
  <2>3. QED  BY <1>1, <2>1, <2>2
<1>7. rec.record_hash = ExpectedPrev(new, Len(new) + 1)
  BY <1>1 DEF ExpectedPrev
<1>8. QED
  BY <1>1, <1>2, <1>5, <1>6, <1>7 DEF GoodSink, Chained, PushRecord

LEMMA NewSinkGood == ASSUME NEW run \in Nat PROVE GoodSink(NewSink(run))
BY EmptySeq DEF NewSink, GoodSink, Chained, ExpectedPrev

\* A sink opened from a file whose lines are chained is good.
LEMMA InitSinkGood ==
  ASSUME NEW run \in Nat, NEW f \in AuditFile, Chained(f.recs)
  PROVE  GoodSink(InitSink(run, f))
<1>1. CASE InitSink(run, f) = NewSink(run)
  BY <1>1, NewSinkGood
<1>2. CASE InitSink(run, f) # NewSink(run)
  <2>1. f.recs \in Seq(AuditRecord) /\ f.recs # <<>>
    BY <1>2, InitSinkCases DEF AuditFile
  <2>2. Len(f.recs) \in Nat \ {0}
    BY <2>1, EmptySeq, LenProperties
  <2>3. RecordOk(f.recs, Len(f.recs))
    BY <2>2, PassesIsRecordOk DEF Chained
  <2>4. /\ f.recs[Len(f.recs)].content.run_id = f.recs[1].content.run_id
        /\ f.recs[Len(f.recs)].content.seq + 1 = Len(f.recs)
        /\ f.recs[Len(f.recs)].record_hash = ExpectedPrev(f.recs, Len(f.recs) + 1)
    BY <2>2, <2>3 DEF RecordOk, ExpectedPrev
  <2>5. QED  BY <1>2, <2>4, InitSinkCases DEF GoodSink
<1>3. QED  BY <1>1, <1>2

\* A first part of a chain is a chain.
LEMMA PrefixChained ==
  ASSUME NEW rs, NEW p, Len(rs) \in Nat, Len(p) \in Nat, Chained(rs), IsPrefixOf(p, rs)
  PROVE  Chained(p)
<1> SUFFICES ASSUME NEW i \in 1..Len(p)  PROVE Passes(p, i)
  BY DEF Chained
<1>1. RecordOk(rs, i)
  BY PassesIsRecordOk DEF Chained, IsPrefixOf
<1>2. p[i] = rs[i] /\ p[1] = rs[1] /\ (i # 1 => p[i-1] = rs[i-1])
  BY DEF IsPrefixOf
<1>3. ExpectedPrev(p, i) = ExpectedPrev(rs, i)
  BY <1>2 DEF ExpectedPrev
<1>4. QED  BY <1>1, <1>2, <1>3, PassesIsRecordOk DEF RecordOk

\* A file a write left, whole or cut, holds first lines of what was written.
LEMMA PartialFileFacts ==
  ASSUME NEW rs \in Seq(AuditRecord), NEW f \in PartialFiles(rs)
  PROVE  f \in AuditFile /\ f.exists /\ IsPrefixOf(f.recs, rs)
<1>1. PICK k \in 0..Len(rs), cut \in BOOLEAN : f = PartialFile(rs, k, cut)
  <2>1. CASE f \in {PartialFile(rs, k, FALSE) : k \in 0..Len(rs)}
    BY <2>1, Zenon
  <2>2. CASE f \in {PartialFile(rs, k, TRUE) : k \in 0..Len(rs) - 1}
    <3>1. PICK k \in 0..Len(rs) - 1 : f = PartialFile(rs, k, TRUE)
      BY <2>2, Zenon
    <3>2. k \in 0..Len(rs)
      BY LenProperties
    <3>3. QED  BY <3>1, <3>2, Zenon
  <2>3. QED  BY <2>1, <2>2, Zenon DEF PartialFiles
<1>2. /\ SubSeq(rs, 1, k) \in Seq(AuditRecord)
      /\ Len(SubSeq(rs, 1, k)) = k
      /\ \A i \in 1..k : SubSeq(rs, 1, k)[i] = rs[i]
  BY SubSeqProperties, LenProperties
<1>3. QED  BY <1>1, <1>2, LenProperties DEF PartialFile, AuditFile, IsPrefixOf

\* Least finds the least member of a set of naturals that has one.
LEMMA LeastNat ==
  ASSUME NEW S \in SUBSET Nat, S # {}
  PROVE  Least(S) \in S /\ \A m \in S : Least(S) <= m
<1> DEFINE R == {ss \in Nat \X Nat : ss[1] < ss[2]}
<1>1. IsWellFoundedOn(R, Nat)
  BY NatLessThanWellFounded DEF OpToRel
<1>2. PICK x \in S : \A y \in S : ~(<<y, x>> \in R)
  <2> HIDE DEF R
  <2> QED  BY <1>1, WFMin
<1>3. ASSUME NEW y \in S
      PROVE  x <= y
  <2>1. x \in Nat /\ y \in Nat
    OBVIOUS
  <2>2. y < x => <<y, x>> \in R
    <3>1. <<y, x>> \in Nat \X Nat /\ <<y, x>>[1] = y /\ <<y, x>>[2] = x
      BY <2>1
    <3> QED  BY <3>1, Zenon
  <2> QED  BY <1>2, <2>1, <2>2
<1> QED  BY <1>3 DEF Least

\* The validator answers Ok of a list of records exactly when it has one and
\* each passes its checks: no check that fails is reported as Ok.
LEMMA ValidatedIsChained ==
  ASSUME NEW rs, Len(rs) \in Nat
  PROVE  ValidateRecords(rs) = "Ok" <=> rs # <<>> /\ Chained(rs)
<1> DEFINE bad == {j \in 1..Len(rs) : ~Passes(rs, j)}
           failing(i) == {j \in 1..8 : ~Checks(rs, i)[j][2]}
<1>1. CASE bad = {}
  BY <1>1 DEF ValidateRecords, Chained
<1>2. CASE bad # {} /\ rs # <<>>
  <2> DEFINE i == Least(bad)
             k == Least(failing(i))
  <2>1. i \in bad
    <3> HIDE DEF bad
    <3>1. bad \in SUBSET Nat
      BY DEF bad
    <3> QED  BY <1>2, <3>1, LeastNat
  <2> HIDE DEF i
  <2>2. failing(i) # {} /\ failing(i) \in SUBSET Nat
    BY <2>1 DEF Passes
  <2>3. k \in 1..8
    <3>1. k \in failing(i)
      <4> HIDE DEF failing
      <4> QED  BY <2>2, LeastNat
    <3> QED  BY <3>1
  <2>4. ValidateRecords(rs) = Checks(rs, i)[k][1]
    BY <1>2, <2>1 DEF ValidateRecords, i
  <2> HIDE DEF k
  <2>5. Checks(rs, i)[k][1] # "Ok"
    <3>1. k = 1 \/ k = 2 \/ k = 3 \/ k = 4 \/ k = 5 \/ k = 6 \/ k = 7 \/ k = 8
      BY <2>3
    <3> QED  BY <3>1 DEF Checks
  <2>6. ~Chained(rs)
    BY <2>1 DEF Chained
  <2> QED  BY <2>4, <2>5, <2>6
<1>3. CASE rs = <<>>
  BY <1>3 DEF ValidateRecords
<1> QED  BY <1>1, <1>2, <1>3

-----------------------------------------------------------------------------
\* A record's hash is of that record only.
LEMMA HashTells ==
  ASSUME NEW a \in AuditRecord, NEW b \in AuditRecord,
         ComputeRecordHash(a) = ComputeRecordHash(b)
  PROVE  /\ a.prev_hash = b.prev_hash /\ a.content = b.content
         /\ a.record_hash = b.record_hash => a = b
<1> DEFINE p == a.prev_hash  q == b.prev_hash  c == a.content  d == b.content
<1>1. p \in Seq(Content) /\ q \in Seq(Content) /\ c \in Content /\ d \in Content
  BY DEF AuditRecord
<1>2. Append(p, c) = Append(q, d)
  BY DEF ComputeRecordHash
<1> HIDE DEF p, q, c, d
<1>3. p = q /\ c = d
  BY <1>1, <1>2, AppendInjective
<1>4. \A x \in AuditRecord :
        x = [content |-> x.content, prev_hash |-> x.prev_hash, record_hash |-> x.record_hash]
  BY DEF AuditRecord
<1> QED  BY <1>3, <1>4 DEF p, q, c, d

\* Two logs that validate and share the hash of a line agree on that line's place
\* and on everything up to it: one hash commits to a whole history.
THEOREM SameHashSameLog ==
  ASSUME NEW a \in Seq(AuditRecord), NEW b \in Seq(AuditRecord), Chained(a), Chained(b),
         NEW i \in 1..Len(a), NEW k \in 1..Len(b), a[i].record_hash = b[k].record_hash
  PROVE  k = i /\ \A j \in 1..i : b[j] = a[j]
<1>1. ASSUME NEW x \in Seq(AuditRecord), Chained(x)
      PROVE  /\ Len(x) \in Nat
             /\ \A j \in 1..Len(x) : x[j] \in AuditRecord /\ RecordOk(x, j)
  BY <1>1, LenProperties, ElementOfSeq, PassesIsRecordOk DEF Chained
<1>2. ASSUME NEW m \in 1..Len(a), NEW n \in 1..Len(b), a[m].record_hash = b[n].record_hash
      PROVE  a[m] = b[n] /\ n = m
  <2>1. /\ a[m] \in AuditRecord /\ b[n] \in AuditRecord
        /\ ComputeRecordHash(a[m]) = a[m].record_hash /\ a[m].content.seq = m - 1
        /\ ComputeRecordHash(b[n]) = b[n].record_hash /\ b[n].content.seq = n - 1
    BY <1>1 DEF RecordOk
  <2>2. a[m] = b[n]
    BY <1>2, <2>1, HashTells
  <2> QED  BY <2>1, <2>2
<1>3. k = i /\ a[i] = b[i]
  BY <1>2
<1> DEFINE apart == {d \in Nat : d < i /\ a[i-d] # b[i-d]}
<1>4. ASSUME apart # {}  PROVE FALSE
  <2>1. PICK d \in apart : \A e \in apart : d <= e
    BY <1>4, LeastNat
  <2>2. d \in Nat /\ d < i /\ a[i-d] # b[i-d] /\ i \in Nat
    BY <1>1
  <2>3. d > 0 /\ d - 1 \in Nat /\ d - 1 < i /\ d - 1 \notin apart
    BY <1>3, <2>1, <2>2
  <2> DEFINE m == i - d
  <2>4. m \in 1..Len(a) /\ m \in 1..Len(b) /\ m + 1 \in 1..Len(a) /\ m + 1 \in 1..Len(b)
    BY <1>1, <1>3, <2>2, <2>3
  <2>5. m + 1 = i - (d - 1) /\ (m + 1) - 1 = m /\ m + 1 # 1
    BY <2>2, <2>4
  <2> HIDE DEF m
  <2>6. a[m+1] = b[m+1]
    BY <2>3, <2>5
  <2>7. a[m+1].prev_hash = a[m].record_hash /\ b[m+1].prev_hash = b[m].record_hash
    <3>1. RecordOk(a, m + 1) /\ RecordOk(b, m + 1)
      BY <1>1, <2>4
    <3> QED  BY <2>5, <3>1 DEF RecordOk, ExpectedPrev
  <2>8. a[m] = b[m]
    BY <1>2, <2>4, <2>6, <2>7
  <2> QED  BY <2>2, <2>8 DEF m
<1>5. ASSUME NEW j \in 1..i  PROVE b[j] = a[j]
  <2>1. i - j \in Nat /\ i - j < i /\ i - (i - j) = j
    BY <1>1
  <2> QED  BY <1>4, <2>1
<1> QED  BY <1>3, <1>5
=============================================================================

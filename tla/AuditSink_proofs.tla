-------------------------- MODULE AuditSink_proofs --------------------------
EXTENDS AuditSink, AuditChain_proofs

(***************************************************************************)
(* The audit sink, proved for every set of frames, of inputs and of time   *)
(* stamps and for every bound.                                             *)
(*                                                                         *)
(* As long as the file is the program's own, SinkInv says that what a      *)
(* restart will open is chained, too.  Once it is changed from outside     *)
(* nothing of the kind holds, for the file is opened as it is; what does   *)
(* hold is that every line, changed or moved, carries the hash of a record *)
(* the sink made (Ours).  A hash is of one record only, so a line that     *)
(* passes the check of its own hash is that record.                        *)
(***************************************************************************)

\* A record with the hash of one the sink made.
Ours(r) == \E a \in appended : a.record_hash = r.record_hash

AllOurs(rs) == \A i \in 1..Len(rs) : Ours(rs[i])

SinkInv ==
  /\ TypeOK
  /\ \A a \in appended : ComputeRecordHash(a) = a.record_hash
  /\ sink # None => AllOurs(sink[1].records)
  /\ AllOurs(file.recs)
  /\ SinkStaysValid
  /\ Unaltered => Chained(file.recs)

LEMMA SinkInit == Init => SinkInv
<1> SUFFICES ASSUME Init  PROVE SinkInv
  OBVIOUS
<1>1. file = NoFile /\ sink = None /\ runs = 0 /\ alters = 0 /\ appended = {}
  BY DEF Init
<1>2. NoFile \in AuditFile /\ Chained(NoFile.recs) /\ AllOurs(NoFile.recs)
  BY EmptySeq DEF NoFile, AuditFile, Chained, AllOurs
<1> QED  BY <1>1, <1>2, BoundsAssumption DEF SinkInv, TypeOK, SinkStaysValid

-----------------------------------------------------------------------------
(* Changes from outside.                                                     *)

\* A record changed in one place is a record, with the hash it had.
LEMMA ChangeFacts ==
  ASSUME NEW r \in AuditRecord, NEW s \in Change(r)
  PROVE  s \in AuditRecord /\ s.record_hash = r.record_hash
<1> DEFINE c == r.content
<1>1. c \in Content
  BY DEF AuditRecord
<1>2. ASSUME NEW d \in Content, s = [r EXCEPT !.content = d]
      PROVE  s \in AuditRecord /\ s.record_hash = r.record_hash
  BY <1>2 DEF AuditRecord
<1>3. CASE s = [r EXCEPT !.prev_hash = ZeroHash]
  BY <1>3, EmptySeq DEF AuditRecord, ZeroHash
<1>4. /\ [c EXCEPT !.version = @ + 1] \in Content /\ [c EXCEPT !.run_id = @ + 1] \in Content
      /\ [c EXCEPT !.seq = @ + 1] \in Content /\ [c EXCEPT !.decision = 1 - @] \in Content
      /\ [c EXCEPT !.notes_flags = @ \ {"HAS_FRAME"}] \in Content
      /\ \A t \in Time : [c EXCEPT !.ts = t] \in Content
      /\ \A e \in {"Ok", "SigInvalid"} : [c EXCEPT !.err_code = e] \in Content
      /\ \A b \in Flags : [c EXCEPT !.notes_flags = @ \cup {b}] \in Content
      /\ \A h \in {ZeroHash} \cup {Sha3(f) : f \in Frame} : [c EXCEPT !.frame_hash = h] \in Content
  <2> HIDE DEF c
  <2>1. [c EXCEPT !.version = @ + 1] \in Content
    BY <1>1 DEF Content
  <2>2. [c EXCEPT !.run_id = @ + 1] \in Content
    BY <1>1 DEF Content
  <2>3. [c EXCEPT !.seq = @ + 1] \in Content
    BY <1>1 DEF Content
  <2>4. [c EXCEPT !.decision = 1 - @] \in Content
    BY <1>1 DEF Content
  <2>5. [c EXCEPT !.notes_flags = @ \ {"HAS_FRAME"}] \in Content
    BY <1>1 DEF Content
  <2>6. \A t \in Time : [c EXCEPT !.ts = t] \in Content
    BY <1>1 DEF Content
  <2>7. \A e \in {"Ok", "SigInvalid"} : [c EXCEPT !.err_code = e] \in Content
    BY <1>1 DEF Content, AndnaErr
  <2>8. \A b \in Flags : [c EXCEPT !.notes_flags = @ \cup {b}] \in Content
    BY <1>1 DEF Content
  <2>9. \A h \in {ZeroHash} \cup {Sha3(f) : f \in Frame} : [c EXCEPT !.frame_hash = h] \in Content
    BY <1>1 DEF Content
  <2> QED  BY <2>1, <2>2, <2>3, <2>4, <2>5, <2>6, <2>7, <2>8, <2>9
<1> QED  BY <1>2, <1>3, <1>4 DEF Change

\* The lines of a changed file: each has the hash of a line that was there.
Drawn(new, old) ==
  /\ new \in Seq(AuditRecord)
  /\ \A i \in 1..Len(new) : \E j \in 1..Len(old) : new[i].record_hash = old[j].record_hash

LEMMA ConcatDraws ==
  ASSUME NEW rs \in Seq(AuditRecord), NEW a \in 1..Len(rs)+1, NEW b \in 0..Len(rs)
  PROVE  Drawn(SubSeq(rs, 1, b) \o SubSeq(rs, a, Len(rs)), rs)
<1> DEFINE n == Len(rs)
           s == SubSeq(rs, 1, b)
           t == SubSeq(rs, a, n)
<1>1. n \in Nat /\ \A i \in 1..n : rs[i] \in AuditRecord
  BY LenProperties, ElementOfSeq
<1>2. s \in Seq(AuditRecord) /\ Len(s) = b /\ \A i \in 1..b : s[i] = rs[i]
  <2>1. \A i \in 1..b : rs[i] \in AuditRecord
    BY <1>1
  <2>2. /\ s \in Seq(AuditRecord) /\ Len(s) = IF 1 <= b THEN b - 1 + 1 ELSE 0
        /\ \A i \in 1..b - 1 + 1 : s[i] = rs[1 + i - 1]
    <3>1. 1 \in Int /\ b \in Int
      OBVIOUS
    <3> QED  BY <2>1, <3>1, SubSeqProperties
  <2> QED  BY <1>1, <2>2
<1>3. /\ t \in Seq(AuditRecord) /\ Len(t) = n - a + 1
      /\ \A i \in 1..n - a + 1 : t[i] = rs[a + i - 1]
  <2>1. \A i \in a..n : rs[i] \in AuditRecord
    BY <1>1
  <2>2. /\ t \in Seq(AuditRecord) /\ Len(t) = IF a <= n THEN n - a + 1 ELSE 0
        /\ \A i \in 1..n - a + 1 : t[i] = rs[a + i - 1]
    <3>1. a \in Int /\ n \in Int
      BY <1>1
    <3> QED  BY <2>1, <3>1, SubSeqProperties
  <2> QED  BY <1>1, <2>2
<1> HIDE DEF s, t, n
<1>4. /\ s \o t \in Seq(AuditRecord) /\ Len(s \o t) = Len(s) + Len(t)
      /\ \A i \in 1..Len(s) + Len(t) :
           (s \o t)[i] = IF i <= Len(s) THEN s[i] ELSE t[i - Len(s)]
  BY <1>2, <1>3, ConcatProperties
<1>5. ASSUME NEW i \in 1..Len(s \o t)
      PROVE  \E j \in 1..n : (s \o t)[i] = rs[j]
  <2>0. a \in 1..n+1 /\ b \in 0..n
    BY DEF n
  <2>1. CASE i <= b
    BY <1>1, <1>2, <1>3, <1>4, <2>0, <2>1
  <2>2. CASE ~(i <= b)
    <3>1. i - b \in 1..n - a + 1 /\ a + (i - b) - 1 \in 1..n
      BY <1>1, <1>2, <1>3, <1>4, <2>0, <2>2
    <3>2. (s \o t)[i] = rs[a + (i - b) - 1]
      BY <1>2, <1>3, <1>4, <2>2, <3>1
    <3> QED  BY <3>1, <3>2
  <2> QED  BY <2>1, <2>2
<1> QED  BY <1>4, <1>5 DEF Drawn, s, t, n

\* What may be put in the place of a log has lines with the log's hashes.
LEMMA AlteredDraws ==
  ASSUME NEW rs \in Seq(AuditRecord), NEW i \in 1..Len(rs), NEW new \in Altered(rs, i)
  PROVE  Drawn(new, rs)
<1>0. Len(rs) \in Nat
  BY LenProperties
<1>1. ASSUME NEW r \in Change(rs[i]), new = [rs EXCEPT ![i] = r]
      PROVE  Drawn(new, rs)
  <2>1. rs[i] \in AuditRecord
    BY ElementOfSeq
  <2>2. r \in AuditRecord /\ r.record_hash = rs[i].record_hash
    BY <2>1, ChangeFacts
  <2>3. /\ new \in Seq(AuditRecord) /\ Len(new) = Len(rs)
        /\ \A k \in 1..Len(rs) : new[k] = IF k = i THEN r ELSE rs[k]
    BY <1>1, <2>2, ExceptSeq
  <2> QED  BY <2>2, <2>3 DEF Drawn
<1>2. CASE new = Dropped(rs, i)
  <2>1. i + 1 \in 1..Len(rs)+1 /\ i - 1 \in 0..Len(rs)
    BY <1>0
  <2> QED  BY <1>0, <1>2, <2>1, ConcatDraws DEF Dropped
<1>3. CASE new = Repeated(rs, i)
  <2>1. i \in 1..Len(rs)+1 /\ i \in 0..Len(rs)
    BY <1>0
  <2> QED  BY <1>0, <1>3, <2>1, ConcatDraws DEF Repeated
<1>4. ASSUME NEW j \in 1..Len(rs), new = Swapped(rs, i, j)
      PROVE  Drawn(new, rs)
  <2> DEFINE one == [rs EXCEPT ![i] = rs[j]]
             two == [one EXCEPT ![j] = rs[i]]
  <2>1. rs[i] \in AuditRecord /\ rs[j] \in AuditRecord
    BY ElementOfSeq
  <2>2. /\ one \in Seq(AuditRecord) /\ Len(one) = Len(rs)
        /\ \A k \in 1..Len(rs) : one[k] = IF k = i THEN rs[j] ELSE rs[k]
    BY <2>1, ExceptSeq
  <2>3. /\ two \in Seq(AuditRecord) /\ Len(two) = Len(rs)
        /\ \A k \in 1..Len(rs) : two[k] = IF k = j THEN rs[i] ELSE one[k]
    <3> HIDE DEF one
    <3> QED  BY <2>1, <2>2, ExceptSeq
  <2>4. Swapped(rs, i, j) = two
    BY DEF Swapped
  <2>5. Drawn(two, rs)
    <3> HIDE DEF one, two
    <3> QED  BY <2>2, <2>3 DEF Drawn
  <2> QED  BY <1>4, <2>4, <2>5
<1> QED  BY <1>1, <1>2, <1>3, <1>4 DEF Altered

LEMMA AlterDraws ==
  ASSUME file \in AuditFile, Alter
  PROVE  file' \in AuditFile /\ Drawn(file'.recs, file.recs)
<1> DEFINE rs == file.recs
<1>0. rs \in Seq(AuditRecord) /\ Len(rs) \in Nat
  BY LenProperties DEF AuditFile
<1>1. ASSUME NEW i \in 1..Len(rs), NEW new \in Altered(rs, i),
             file' = [file EXCEPT !.recs = new]
      PROVE  file' \in AuditFile /\ Drawn(file'.recs, file.recs)
  <2>1. Drawn(new, rs)
    BY <1>0, AlteredDraws
  <2> QED  BY <1>1, <2>1 DEF AuditFile, Drawn
<1>2. PICK i \in 1..Len(rs), j \in 1..Len(rs) :
        \/ \E r \in Change(rs[i]) : file' = [file EXCEPT !.recs[i] = r]
        \/ file' = [file EXCEPT !.recs = Dropped(@, i)]
        \/ file' = [file EXCEPT !.recs = Repeated(@, i)]
        \/ file' = [file EXCEPT !.recs = Swapped(@, i, j)]
        \/ file' = [file EXCEPT !.torn = TRUE]
  BY DEF Alter
<1>3. CASE file' = [file EXCEPT !.torn = TRUE]
  BY <1>0, <1>3 DEF AuditFile, Drawn
<1>4. ASSUME ~(file' = [file EXCEPT !.torn = TRUE])
      PROVE  \E new \in Altered(rs, i) : file' = [file EXCEPT !.recs = new]
  BY <1>2, <1>4 DEF Altered
<1> QED  BY <1>1, <1>3, <1>4

-----------------------------------------------------------------------------
(* The invariant.                                                            *)

LEMMA SinkStep == SinkInv /\ [Next]_vars => SinkInv'
<1> SUFFICES ASSUME SinkInv, [Next]_vars  PROVE SinkInv'
  OBVIOUS
<1>0. \A x : Some(x) # None /\ Some(x)[1] = x
  BY DEF Some, None
<1>a. /\ runs \in Nat /\ file \in AuditFile /\ AllOurs(file.recs)
      /\ file.recs \in Seq(AuditRecord) /\ Len(file.recs) \in Nat
      /\ MaxRuns \in Nat /\ MaxAlters \in Nat
  BY BoundsAssumption, LenProperties DEF SinkInv, TypeOK, AuditFile
<1>b. sink # None => /\ sink[1] \in AuditSinkState
                     /\ AllOurs(sink[1].records)
                     /\ sink[1].records \in Seq(AuditRecord)
                     /\ Len(sink[1].records) \in Nat
                     /\ Unaltered => GoodSink(sink[1]) /\ Chained(sink[1].records)
  BY LenProperties DEF SinkInv, TypeOK, SinkStaysValid, AuditSinkState, GoodSink
<1>1. CASE Open
  <2>5. PICK found \in {file, NoFile} : sink' = Some(InitSink(runs, found))
    BY <1>1 DEF Open
  <2>6. /\ found \in AuditFile /\ AllOurs(found.recs)
        /\ Unaltered => Chained(found.recs)
    <3>1. NoFile \in AuditFile /\ AllOurs(NoFile.recs) /\ Chained(NoFile.recs)
      BY EmptySeq DEF NoFile, AuditFile, Chained, AllOurs
    <3> QED  BY <1>a, <3>1 DEF SinkInv
  <2>1. InitSink(runs, found) \in AuditSinkState
    BY <1>a, <2>6, InitSinkType
  <2>2. AllOurs(InitSink(runs, found).records)
    <3>1. InitSink(runs, found).records \in {<<>>, found.recs}
      <4>1. CASE InitSink(runs, found) = NewSink(runs)
        BY <4>1 DEF NewSink
      <4>2. CASE InitSink(runs, found) # NewSink(runs)
        BY <4>2, <1>a, <2>6, InitSinkCases
      <4> QED  BY <4>1, <4>2
    <3> QED  BY <2>6, <3>1, EmptySeq DEF AllOurs
  <2>3. Unaltered => GoodSink(InitSink(runs, found))
    BY <1>a, <2>6, InitSinkGood
  <2>4. /\ sink' = Some(InitSink(runs, found)) /\ runs' = runs + 1 /\ runs < MaxRuns
        /\ UNCHANGED <<file, alters, appended>>
    BY <1>1, <2>5 DEF Open
  <2> QED
    BY <1>0, <1>a, <2>1, <2>2, <2>3, <2>4
    DEF SinkInv, TypeOK, SinkStaysValid, Unaltered, AllOurs, Ours
<1>2. CASE Reset
  <2>1. NewSink(runs) \in AuditSinkState /\ GoodSink(NewSink(runs))
    BY <1>a, NewSinkType, NewSinkGood
  <2>2. AllOurs(NewSink(runs).records)
    BY EmptySeq DEF NewSink, AllOurs
  <2>3. /\ sink' = Some(NewSink(runs)) /\ runs' = runs + 1 /\ runs < MaxRuns
        /\ UNCHANGED <<file, alters, appended>>
    BY <1>2 DEF Reset
  <2> QED
    BY <1>0, <1>a, <2>1, <2>2, <2>3
    DEF SinkInv, TypeOK, SinkStaysValid, Unaltered, AllOurs, Ours
<1>3. CASE Export
  <2>1. file' \in AuditFile /\ IsPrefixOf(file'.recs, sink[1].records)
    BY <1>3, <1>b, PartialFileFacts DEF Export
  <2>2. Len(file'.recs) \in Nat
    BY <2>1, LenProperties DEF AuditFile
  <2>3. Unaltered => Chained(file'.recs)
    BY <2>1, <2>2, <1>3, <1>b, PrefixChained DEF Export
  <2>4. AllOurs(file'.recs)
    BY <2>1, <2>2, <1>3, <1>b DEF Export, IsPrefixOf, AllOurs
  <2>5. UNCHANGED <<sink, runs, alters, appended>>
    BY <1>3 DEF Export
  <2> QED
    BY <2>1, <2>3, <2>4, <2>5 DEF SinkInv, TypeOK, SinkStaysValid, Unaltered, AllOurs, Ours
<1>4. CASE Restart
  BY <1>4 DEF Restart, SinkInv, TypeOK, SinkStaysValid, Unaltered, AllOurs, Ours
<1>5. CASE Alter
  <2>1. file' \in AuditFile /\ Drawn(file'.recs, file.recs)
    BY <1>5, <1>a, AlterDraws
  <2>2. AllOurs(file'.recs)
    BY <2>1, <1>a DEF Drawn, AllOurs, Ours
  <2>3. /\ alters' = alters + 1 /\ alters < MaxAlters /\ alters \in Nat
        /\ sink = None /\ UNCHANGED <<sink, runs, appended>>
    BY <1>5 DEF Alter, SinkInv, TypeOK
  <2>4. ~Unaltered' /\ alters' \in 0..MaxAlters
    BY <2>3, <1>a DEF Unaltered
  <2> QED
    BY <2>1, <2>2, <2>3, <2>4 DEF SinkInv, TypeOK, SinkStaysValid, AllOurs, Ours
<1>6. ASSUME NEW inp \in Input, Record(inp)  PROVE SinkInv'
  <2> DEFINE s == sink[1]
             rec == NextRecord(s, inp)
  <2>0. /\ sink # None /\ sink' = Some(AppendVerify(s, inp))
        /\ appended' = appended \cup {rec}
        /\ UNCHANGED <<file, runs, alters>>
    BY <1>6 DEF Record
  <2>1. inp \in VerifyEventInput
    BY InputAssumption
  <2>2. rec \in AuditRecord /\ Fits(s, rec) /\ ComputeRecordHash(rec) = rec.record_hash
    BY <2>0, <1>b, <2>1, NextRecordType, NextRecordFits DEF NextRecord, ComputeRecordHash
  <2>3. AppendVerify(s, inp) \in AuditSinkState
    BY <2>0, <1>b, <2>2, PushRecordType DEF AppendVerify
  <2>4. Unaltered => GoodSink(AppendVerify(s, inp))
    BY <2>0, <1>b, <2>2, PushKeepsGood DEF AppendVerify
  <2>5. AppendVerify(s, inp).records = Append(s.records, rec)
    BY DEF AppendVerify, PushRecord
  <2> HIDE DEF rec, s
  <2>6. \A i \in 1..Len(sink'[1].records) :
          \E a \in appended' : a.record_hash = sink'[1].records[i].record_hash
    <3>1. /\ Len(Append(s.records, rec)) = Len(s.records) + 1
          /\ \A i \in 1..Len(s.records) + 1 :
               Append(s.records, rec)[i] = IF i <= Len(s.records) THEN s.records[i] ELSE rec
      BY <2>0, <1>b, <2>2, AppendProperties DEF s
    <3>2. ASSUME NEW i \in 1..Len(s.records) + 1
          PROVE  \E a \in appended' : a.record_hash = Append(s.records, rec)[i].record_hash
      <4>1. CASE i <= Len(s.records)
        <5>1. i \in 1..Len(s.records)
          BY <4>1, <2>0, <1>b DEF s
        <5> QED  BY <5>1, <4>1, <3>1, <2>0, <1>b DEF AllOurs, Ours, s
      <4>2. CASE ~(i <= Len(s.records))
        BY <4>2, <3>1, <2>0
      <4> QED  BY <4>1, <4>2
    <3>3. \A i \in 1..Len(Append(s.records, rec)) :
            \E a \in appended' : a.record_hash = Append(s.records, rec)[i].record_hash
      BY <3>1, <3>2
    <3>4. Append(s.records, rec) = sink'[1].records
      BY <1>0, <2>0, <2>5
    <3> QED  BY <3>3, <3>4
  <2>7. TypeOK'
    BY <1>0, <2>0, <2>2, <2>3 DEF SinkInv, TypeOK
  <2>8. (\A a \in appended : ComputeRecordHash(a) = a.record_hash)'
    BY <2>0, <2>2 DEF SinkInv
  <2>9. SinkStaysValid'
    BY <1>0, <2>0, <2>4 DEF SinkStaysValid, Unaltered
  <2>10. AllOurs(file.recs)'
    BY <2>0, <1>a DEF AllOurs, Ours
  <2>11. (Unaltered => Chained(file.recs))'
    BY <2>0 DEF SinkInv, Unaltered
  <2>12. (sink # None => AllOurs(sink[1].records))'
    BY <2>6 DEF AllOurs, Ours
  <2> QED  BY <2>7, <2>8, <2>9, <2>10, <2>11, <2>12 DEF SinkInv
<1>7. CASE UNCHANGED vars
  BY <1>7 DEF vars, SinkInv, TypeOK, SinkStaysValid, Unaltered, AllOurs, Ours
<1> QED
  BY <1>1, <1>2, <1>3, <1>4, <1>5, <1>6, <1>7 DEF Next

LEMMA SinkAlways == Spec => []SinkInv
BY SinkInit, SinkStep, PTL DEF Spec

\* A list of records with hashes of ours that validates has only ours.
LEMMA OursOnly ==
  ASSUME NEW rs \in Seq(AuditRecord), AllOurs(rs), SinkInv,
         ValidateRecords(rs) = "Ok", NEW i \in 1..Len(rs)
  PROVE  rs[i] \in appended
<1>1. ComputeRecordHash(rs[i]) = rs[i].record_hash
  <2>1. Chained(rs)
    BY LenProperties, ValidatedIsChained
  <2> QED  BY <2>1, PassesIsRecordOk DEF Chained, RecordOk
<1>2. PICK a \in appended : a.record_hash = rs[i].record_hash
  BY DEF AllOurs, Ours
<1>3. ComputeRecordHash(a) = ComputeRecordHash(rs[i]) /\ a \in AuditRecord
  BY <1>1, <1>2 DEF SinkInv, TypeOK
<1>4. rs[i] \in AuditRecord
  BY ElementOfSeq
<1>5. a = rs[i]
  BY <1>2, <1>3, <1>4, HashTells
<1> QED  BY <1>5

-----------------------------------------------------------------------------

\* The sink, the file and the records keep their types, whatever is done to the
\* file from outside.
THEOREM SinkTyped == Spec => []TypeOK
<1>1. SinkInv => TypeOK
  BY DEF SinkInv
<1> QED  BY <1>1, SinkAlways, PTL

\* Whatever is recorded, exported, cut and restored, the log in memory passes
\* the validator and the sink is ready for the next record, as long as the file
\* is the program's own.
THEOREM SinkValid == Spec => []SinkStaysValid
<1>1. SinkInv => SinkStaysValid
  BY DEF SinkInv
<1> QED  BY <1>1, SinkAlways, PTL

\* A file of the program's own validates exactly when it has lines, all whole.
THEOREM FileJudged == Spec => []FileVerdict
<1>1. SinkInv => FileVerdict
  <2> SUFFICES ASSUME SinkInv, Unaltered, ~file.torn
               PROVE  ValidateRecords(file.recs) = IF file.recs = <<>> THEN "Empty" ELSE "Ok"
    BY DEF FileVerdict, ValidateJsonl
  <2>1. Len(file.recs) \in Nat /\ Chained(file.recs)
    BY LenProperties DEF SinkInv, TypeOK, AuditFile
  <2>2. CASE file.recs = <<>>
    BY <2>2 DEF ValidateRecords
  <2>3. CASE file.recs # <<>>
    BY <2>1, <2>3, ValidatedIsChained
  <2> QED  BY <2>2, <2>3
<1> QED  BY <1>1, SinkAlways, PTL

\* The two together, for any inputs, runs and cut files.
THEOREM LogAndFileValid == Spec => []LogAndFileStayValid
BY SinkValid, FileJudged, PTL DEF LogAndFileStayValid

\* However often the file is changed from outside, and however long the program
\* goes on from it, what validates has only records the sink made.
THEOREM OwnRecordsOnly == Spec => []ValidatesOnlyOwn
<1>1. SinkInv => ValidatesOnlyOwn
  <2> SUFFICES ASSUME SinkInv PROVE ValidatesOnlyOwn
    OBVIOUS
  <2>1. Log \in Seq(AuditRecord) /\ AllOurs(Log)
    <3>1. CASE sink = None
      BY <3>1, EmptySeq DEF Log, AllOurs
    <3>2. CASE sink # None
      BY <3>2 DEF Log, SinkInv, TypeOK, AuditSinkState
    <3> QED  BY <3>1, <3>2
  <2>2. file.recs \in Seq(AuditRecord) /\ AllOurs(file.recs)
    BY DEF SinkInv, TypeOK, AuditFile
  <2>3. ValidateJsonl(file) = "Ok" => ValidateRecords(file.recs) = "Ok"
    BY DEF ValidateJsonl
  <2> QED  BY <2>1, <2>2, <2>3, OursOnly DEF ValidatesOnlyOwn
<1> QED  BY <1>1, SinkAlways, PTL

-----------------------------------------------------------------------------
(* What is done to a chained list of records is seen.                        *)

\* A record that fails one of its checks is refused with its list.
LEMMA Refused ==
  ASSUME NEW rs, Len(rs) \in Nat, NEW i \in 1..Len(rs), ~RecordOk(rs, i)
  PROVE  ValidateRecords(rs) # "Ok"
BY ValidatedIsChained, PassesIsRecordOk DEF Chained

LEMMA ChainedFacts ==
  ASSUME NEW rs \in Seq(AuditRecord), Chained(rs), NEW i \in 1..Len(rs)
  PROVE  /\ Len(rs) \in Nat /\ rs[i] \in AuditRecord /\ RecordOk(rs, i)
         /\ rs[i].content.seq = i - 1
         /\ i > 1 => rs[i].prev_hash = rs[i-1].record_hash
<1>1. RecordOk(rs, i)
  BY PassesIsRecordOk DEF Chained
<1> QED  BY <1>1, LenProperties, ElementOfSeq DEF RecordOk, ExpectedPrev

\* A changed record does not have its own hash, and with its hash recomputed the
\* next record does not follow it.
LEMMA ChangeSeen ==
  ASSUME NEW rs \in Seq(AuditRecord), Chained(rs), NEW i \in 1..Len(rs),
         NEW r \in Change(rs[i])
  PROVE  /\ ValidateRecords([rs EXCEPT ![i] = r]) # "Ok"
         /\ i < Len(rs) => ValidateRecords([rs EXCEPT ![i] = Rehash(r)]) # "Ok"
<1>1. Len(rs) \in Nat /\ rs[i] \in AuditRecord /\ RecordOk(rs, i)
  BY ChainedFacts
<1>2. r \in AuditRecord /\ r.record_hash = rs[i].record_hash /\ r # rs[i]
  BY <1>1, ChangeFacts DEF Change
<1>3. ComputeRecordHash(r) # rs[i].record_hash
  BY <1>1, <1>2, HashTells DEF RecordOk
<1>4. \A x \in {r, Rehash(r)} :
        /\ Len([rs EXCEPT ![i] = x]) = Len(rs)
        /\ [rs EXCEPT ![i] = x][i] = x
        /\ \A j \in 1..Len(rs) \ {i} : [rs EXCEPT ![i] = x][j] = rs[j]
  BY LenProperties
<1>5. ~RecordOk([rs EXCEPT ![i] = r], i)
  BY <1>2, <1>3, <1>4 DEF RecordOk
<1>6. ASSUME i < Len(rs)  PROVE ~RecordOk([rs EXCEPT ![i] = Rehash(r)], i + 1)
  <2>1. i + 1 \in 1..Len(rs) \ {i} /\ i + 1 # 1 /\ (i + 1) - 1 = i
    BY <1>1, <1>6
  <2>2. rs[i+1].prev_hash = rs[i].record_hash
    BY <1>6, <2>1, ChainedFacts
  <2>3. Rehash(r).record_hash = ComputeRecordHash(r)
    BY <1>2 DEF Rehash, AuditRecord
  <2> QED  BY <1>3, <1>4, <2>1, <2>2, <2>3 DEF RecordOk, ExpectedPrev
<1>7. i < Len(rs) => i + 1 \in 1..Len(rs)
  BY <1>1
<1> QED  BY <1>1, <1>4, <1>5, <1>6, <1>7, Refused

\* Records that moved do not have the numbers of their places.
LEMMA MoveSeen ==
  ASSUME NEW rs \in Seq(AuditRecord), Chained(rs), NEW i \in 1..Len(rs)
  PROVE  /\ i < Len(rs) => ValidateRecords(Dropped(rs, i)) # "Ok"
         /\ ValidateRecords(Repeated(rs, i)) # "Ok"
         /\ \A j \in 1..Len(rs) \ {i} : ValidateRecords(Swapped(rs, i, j)) # "Ok"
<1>1. /\ Len(rs) \in Nat
      /\ \A k \in 1..Len(rs) : rs[k] \in AuditRecord /\ rs[k].content.seq = k - 1
  BY ChainedFacts
<1>2. ASSUME i < Len(rs)  PROVE ValidateRecords(Dropped(rs, i)) # "Ok"
  <2> DEFINE a == SubSeq(rs, 1, i-1)  b == SubSeq(rs, i+1, Len(rs))
  <2>1. a \in Seq(AuditRecord) /\ Len(a) = i - 1
    BY <1>1, SubSeqProperties, \A k \in 1..i-1 : rs[k] \in AuditRecord
  <2>2. /\ b \in Seq(AuditRecord) /\ Len(b) = Len(rs) - i
        /\ b[1] = rs[i+1]
    <3>1. \A k \in i+1..Len(rs) : rs[k] \in AuditRecord
      BY <1>1
    <3>2. /\ b \in Seq(AuditRecord)
          /\ Len(b) = IF i+1 <= Len(rs) THEN Len(rs) - (i+1) + 1 ELSE 0
          /\ \A k \in 1..Len(rs) - (i+1) + 1 : b[k] = rs[(i+1) + k - 1]
      BY <1>1, <3>1, SubSeqProperties, i + 1 \in Int, Len(rs) \in Int
    <3> HIDE DEF b
    <3> QED  BY <1>1, <1>2, <3>2
  <2> DEFINE new == a \o b
  <2>3. Len(new) = Len(rs) - 1 /\ new[i] = rs[i+1]
    <3> HIDE DEF a, b
    <3>1. /\ Len(new) = Len(a) + Len(b)
          /\ \A k \in 1..Len(a) + Len(b) : new[k] = IF k <= Len(a) THEN a[k] ELSE b[k - Len(a)]
      BY <2>1, <2>2, ConcatProperties
    <3> HIDE DEF new
    <3>2. i \in 1..Len(a) + Len(b) /\ ~(i <= Len(a)) /\ i - Len(a) = 1
      BY <1>1, <1>2, <2>1, <2>2
    <3> QED  BY <1>1, <2>1, <2>2, <3>1, <3>2
  <2> HIDE DEF a, b, new
  <2>4. ~RecordOk(new, i)
    <3>1. i + 1 \in 1..Len(rs)
      BY <1>1, <1>2
    <3>2. new[i].content.seq = (i + 1) - 1
      BY <1>1, <2>3, <3>1
    <3>3. new[i].content.seq # i - 1
      BY <3>2
    <3> QED  BY <3>3 DEF RecordOk
  <2>5. ValidateRecords(new) # "Ok"
    BY <1>1, <1>2, <2>3, <2>4, Refused
  <2> QED  BY <2>5 DEF a, b, new, Dropped
<1>3. ValidateRecords(Repeated(rs, i)) # "Ok"
  <2> DEFINE a == SubSeq(rs, 1, i)  b == SubSeq(rs, i, Len(rs))
  <2>1. a \in Seq(AuditRecord) /\ Len(a) = i
    BY <1>1, SubSeqProperties, \A k \in 1..i : rs[k] \in AuditRecord
  <2>2. b \in Seq(AuditRecord) /\ Len(b) = Len(rs) - i + 1 /\ b[1] = rs[i]
    <3>1. \A k \in i..Len(rs) : rs[k] \in AuditRecord
      BY <1>1
    <3>2. /\ b \in Seq(AuditRecord)
          /\ Len(b) = IF i <= Len(rs) THEN Len(rs) - i + 1 ELSE 0
          /\ \A k \in 1..Len(rs) - i + 1 : b[k] = rs[i + k - 1]
      BY <1>1, <3>1, SubSeqProperties, i \in Int, Len(rs) \in Int
    <3> HIDE DEF b
    <3> QED  BY <1>1, <3>2
  <2> DEFINE new == a \o b
  <2>3. Len(new) = Len(rs) + 1 /\ new[i+1] = rs[i]
    <3> HIDE DEF a, b
    <3>1. /\ Len(new) = Len(a) + Len(b)
          /\ \A k \in 1..Len(a) + Len(b) : new[k] = IF k <= Len(a) THEN a[k] ELSE b[k - Len(a)]
      BY <2>1, <2>2, ConcatProperties
    <3> HIDE DEF new
    <3>2. i+1 \in 1..Len(a) + Len(b) /\ ~(i+1 <= Len(a)) /\ i+1 - Len(a) = 1
      BY <1>1, <2>1, <2>2
    <3> QED  BY <1>1, <2>1, <2>2, <3>1, <3>2
  <2> HIDE DEF a, b, new
  <2>4. ~RecordOk(new, i + 1)
    BY <1>1, <2>3 DEF RecordOk
  <2>5. ValidateRecords(new) # "Ok"
    BY <1>1, <2>3, <2>4, Refused
  <2> QED  BY <2>5 DEF a, b, new, Repeated
<1>4. ASSUME NEW j \in 1..Len(rs) \ {i}  PROVE ValidateRecords(Swapped(rs, i, j)) # "Ok"
  <2> DEFINE new == Swapped(rs, i, j)
  <2>1. Len(new) = Len(rs) /\ new[i] = rs[j]
    BY LenProperties DEF Swapped
  <2> HIDE DEF new
  <2>2. ~RecordOk(new, i)
    BY <1>1, <2>1 DEF RecordOk
  <2>3. ValidateRecords(new) # "Ok"
    BY <1>1, <2>1, <2>2, Refused
  <2> QED  BY <2>3 DEF new
<1> QED  BY <1>2, <1>3, <1>4

\* What is done in one place to a log of the program's own, but at its end, the
\* validator refuses.
THEOREM TamperSeen == Spec => []TamperEvident
<1>1. SinkInv => TamperEvident
  <2> SUFFICES ASSUME SinkInv, Unaltered, NEW i \in 1..Len(Log)
               PROVE  /\ \A r \in Change(Log[i]) :
                           /\ ValidateRecords([Log EXCEPT ![i] = r]) # "Ok"
                           /\ i < Len(Log) =>
                                ValidateRecords([Log EXCEPT ![i] = Rehash(r)]) # "Ok"
                      /\ i < Len(Log) => ValidateRecords(Dropped(Log, i)) # "Ok"
                      /\ ValidateRecords(Repeated(Log, i)) # "Ok"
                      /\ \A j \in 1..Len(Log) \ {i} : ValidateRecords(Swapped(Log, i, j)) # "Ok"
    BY DEF TamperEvident
  <2>1. sink # None
    BY EmptySeq DEF Log
  <2>2. Log \in Seq(AuditRecord) /\ Chained(Log)
    BY <2>1 DEF Log, SinkInv, TypeOK, AuditSinkState, SinkStaysValid, GoodSink
  <2> HIDE DEF Log
  <2> QED  BY <2>2, ChangeSeen, MoveSeen
<1> QED  BY <1>1, SinkAlways, PTL

-----------------------------------------------------------------------------
(* One hash of a log tells the log up to there.                              *)

\* The lines issued again over changed contents are records.
LEMMA ReissuedType ==
  ASSUME NEW rs \in Seq(AuditRecord)
  PROVE  Reissued(rs) \in Seq(AuditRecord)
<1> DEFINE n == Len(rs)
           contents == [k \in 1..n |-> [rs[k].content EXCEPT !.seq = k - 1]]
           line(k) == [content |-> contents[k],
                       prev_hash |-> SubSeq(contents, 1, k - 1),
                       record_hash |-> SubSeq(contents, 1, k)]
<1>1. n \in Nat /\ \A k \in 1..n : rs[k] \in AuditRecord
  BY LenProperties, ElementOfSeq
<1>2. ASSUME NEW k \in 1..n  PROVE contents[k] \in Content
  <2>1. rs[k].content \in Content /\ k - 1 \in Nat
    BY <1>1 DEF AuditRecord
  <2>2. [rs[k].content EXCEPT !.seq = k - 1] \in Content
    BY <2>1 DEF Content
  <2>3. contents[k] = [rs[k].content EXCEPT !.seq = k - 1]
    OBVIOUS
  <2> QED  BY <2>2, <2>3
<1>3. contents \in Seq(Content) /\ Len(contents) = n
  BY <1>1, <1>2, IsASeq
<1> HIDE DEF n, contents
<1>4. ASSUME NEW k \in 0..n  PROVE SubSeq(contents, 1, k) \in Seq(Content)
  <2>1. \A j \in 1..k : contents[j] \in Content
    BY <1>1, <1>2
  <2> QED  BY <2>1, SubSeqProperties
<1>5. ASSUME NEW k \in 1..n  PROVE line(k) \in AuditRecord
  BY <1>1, <1>2, <1>4 DEF AuditRecord
<1>6. [k \in 1..n |-> line(k)] \in Seq(AuditRecord)
  <2> HIDE DEF line
  <2> QED  BY <1>1, <1>5, IsASeq
<1> QED  BY <1>6 DEF Reissued, contents, n

\* A forgery that validates and has a hash of a chained log is the log up to it.
LEMMA ForgeryTold ==
  ASSUME NEW rs \in Seq(AuditRecord), Chained(rs), NEW forged \in Seq(AuditRecord)
  PROVE  Distinguished(rs, forged)
<1> SUFFICES ASSUME NEW i \in 1..Len(rs), NEW k \in 1..Len(forged),
                    forged[k].record_hash = rs[i].record_hash,
                    ~(k = i /\ SameUpTo(rs, forged, i)),
                    ValidateRecords(forged) = "Ok"
             PROVE  FALSE
  BY DEF Distinguished
<1>1. Chained(forged)
  BY LenProperties, ValidatedIsChained
<1>2. k = i /\ \A j \in 1..i : forged[j] = rs[j]
  BY <1>1, SameHashSameLog
<1> QED  BY <1>2 DEF SameUpTo

\* Whoever holds one hash of a log of the program's own can tell the log, up to
\* the line with that hash, from every forgery of it, also from those that are
\* made a chain again.
THEOREM AnchorTells == Spec => []AnchorTellsLog
<1>1. SinkInv => AnchorTellsLog
  <2> SUFFICES ASSUME SinkInv, Unaltered, NEW i \in 1..Len(Log), NEW forged \in Altered(Log, i)
               PROVE  Distinguished(Log, forged) /\ Distinguished(Log, Reissued(forged))
    BY DEF AnchorTellsLog
  <2>1. sink # None
    BY EmptySeq DEF Log
  <2>2. Log \in Seq(AuditRecord) /\ Chained(Log)
    BY <2>1 DEF Log, SinkInv, TypeOK, AuditSinkState, SinkStaysValid, GoodSink
  <2>3. forged \in Seq(AuditRecord)
    <3> HIDE DEF Log
    <3> QED  BY <2>2, AlteredDraws DEF Drawn
  <2> HIDE DEF Log
  <2> QED  BY <2>2, <2>3, ReissuedType, ForgeryTold
<1> QED  BY <1>1, SinkAlways, PTL
=============================================================================

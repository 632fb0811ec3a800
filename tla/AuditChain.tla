----------------------------- MODULE AuditChain -----------------------------
(* The hash-chained audit record of crates/audit: how a record is hashed,    *)
(* how the sink appends one, how the validator judges a list of them, how a  *)
(* file of them is written and read back.                                    *)
(*                                                                           *)
(* Hashes are perfect.  A frame's hash is <<frame>>.  A record's hash is     *)
(* what SHA3-256 commits to: the previous hash followed by the content of    *)
(* the record, that is, the contents of all the records up to this one.      *)
(* Neither is ever the zero hash, <<>>.  An Option is <<>> (None) or <<x>>   *)
(* (Some(x)).  notes_flags is the set of the bits that are on; "RESERVED"    *)
(* stands for any bit of FLAG_RESERVED_MASK.  The fields engine,             *)
(* contracts_hash and lib_version_hash never differ between the records of   *)
(* one build and are left out.                                               *)
EXTENDS Integers, Sequences

CONSTANTS Frame,      \* the frames of FRAME_V2_LEN bytes that callers verify
          Time,       \* the time stamps records carry
          CryptoReal  \* the build has the oqs-backend feature

ASSUME CryptoRealAssumption == CryptoReal \in BOOLEAN

AndnaErr == { "Ok", "Length", "MuPre", "Te", "Sig", "PkHashMismatch",
              "SigInvalid", "EpochMismatch", "DeviceIdMismatch", "Internal" }

None == <<>>
Some(x) == <<x>>

MAGIC == "ANDNALOG"
VERSION == 1
Flags == {"HAS_FRAME", "CRYPTO_REAL", "REPLAY_REJECT", "EPOCH_ADVANCED", "RESERVED"}

ZeroHash == <<>>
Sha3(f) == <<f>>

\* What a record holds besides the two hashes that chain it.
Content ==
  [magic : {MAGIC}, version : Nat, run_id : Nat, seq : Nat, ts : Time,
   decision : {0, 1}, err_code : AndnaErr, notes_flags : SUBSET Flags,
   frame_hash : {ZeroHash} \cup {Sha3(f) : f \in Frame}]

AuditRecord ==
  [content : Content, prev_hash : Seq(Content), record_hash : Seq(Content)]

\* The hash of a record covers its content and prev_hash, not record_hash.
ComputeRecordHash(r) == Append(r.prev_hash, r.content)

-----------------------------------------------------------------------------
(* The sink.                                                                 *)

\* What append_verify is given.
VerifyEventInput ==
  [ts : Time, decision : {0, 1}, err_code : AndnaErr, notes_flags : SUBSET Flags,
   frame_bytes : {None} \cup {Some(f) : f \in Frame},
   frame_hash : {None} \cup {Some(Sha3(f)) : f \in Frame}]

AuditSinkState ==
  [run_id : Nat, next_seq : Nat, last_hash : Seq(Content), records : Seq(AuditRecord)]

NewSink(run) ==
  [run_id |-> run, next_seq |-> 0, last_hash |-> ZeroHash, records |-> <<>>]

\* Mutant of EnforcedFlags: reserved bits are let through.
EnforcedFlagsKeepsReserved(inp) ==
  (inp.notes_flags \ {"CRYPTO_REAL", "HAS_FRAME"})
    \cup (IF CryptoReal THEN {"CRYPTO_REAL"} ELSE {})
    \cup (IF inp.frame_hash = None /\ inp.frame_bytes = None THEN {} ELSE {"HAS_FRAME"})

\* Reserved bits are cleared, CRYPTO_REAL follows the build, and HAS_FRAME the
\* presence of a frame or of its hash.
EnforcedFlags(inp) ==
  (inp.notes_flags \ {"RESERVED", "CRYPTO_REAL", "HAS_FRAME"})
    \cup (IF CryptoReal THEN {"CRYPTO_REAL"} ELSE {})
    \cup (IF inp.frame_hash = None /\ inp.frame_bytes = None THEN {} ELSE {"HAS_FRAME"})

\* A hash given directly wins over the bytes; without either it is zero.
FrameHash(inp) ==
  IF inp.frame_hash # None THEN inp.frame_hash[1]
  ELSE IF inp.frame_bytes # None THEN Sha3(inp.frame_bytes[1])
  ELSE ZeroHash

NextContent(sink, inp) ==
  [magic |-> MAGIC, version |-> VERSION, run_id |-> sink.run_id,
   seq |-> sink.next_seq, ts |-> inp.ts, decision |-> inp.decision,
   err_code |-> inp.err_code, notes_flags |-> EnforcedFlags(inp),
   frame_hash |-> FrameHash(inp)]

NextRecord(sink, inp) ==
  [content |-> NextContent(sink, inp), prev_hash |-> sink.last_hash,
   record_hash |-> Append(sink.last_hash, NextContent(sink, inp))]

PushRecord(sink, rec) ==
  [run_id |-> sink.run_id, next_seq |-> sink.next_seq + 1,
   last_hash |-> rec.record_hash, records |-> Append(sink.records, rec)]

AppendVerify(sink, inp) == PushRecord(sink, NextRecord(sink, inp))

-----------------------------------------------------------------------------
(* The validator.                                                            *)

ExpectedPrev(rs, i) == IF i = 1 THEN ZeroHash ELSE rs[i-1].record_hash

\* The checks of record i in the order of the code: the error, and the
\* condition that must hold.
Checks(rs, i) ==
  LET r == rs[i]
      c == rs[i].content
  IN  << <<"BadMagic", c.magic = MAGIC>>,
         <<"BadVersion", c.version = VERSION>>,
         <<"RunIdMismatch", c.run_id = rs[1].content.run_id>>,
         <<"SeqGap", c.seq = i - 1>>,
         <<"PrevHashMismatch", r.prev_hash = ExpectedPrev(rs, i)>>,
         <<"ReservedBitsSet", "RESERVED" \notin c.notes_flags>>,
         <<"MissingFrameConstraintViolation",
           "HAS_FRAME" \in c.notes_flags \/ c.frame_hash = ZeroHash>>,
         <<"RecordHashMismatch", ComputeRecordHash(r) = r.record_hash>> >>

\* Mutant of Passes: the record hash is not recomputed.
PassesWithoutRehash(rs, i) ==
  LET checks == Checks(rs, i) IN \A k \in 1..7 : checks[k][2]

Passes(rs, i) == LET checks == Checks(rs, i) IN \A k \in 1..8 : checks[k][2]

Least(S) == CHOOSE m \in S : \A n \in S : m <= n

\* The error of the first check that fails, of the first record that has one.
ValidateRecords(rs) ==
  IF rs = <<>> THEN "Empty"
  ELSE IF \A i \in 1..Len(rs) : Passes(rs, i) THEN "Ok"
  ELSE LET i == Least({j \in 1..Len(rs) : ~Passes(rs, j)})
           k == Least({j \in 1..8 : ~Checks(rs, i)[j][2]})
       IN  Checks(rs, i)[k][1]

\* Every record passes its checks: ValidateRecords gives Ok, or Empty.
Chained(rs) == \A i \in 1..Len(rs) : Passes(rs, i)

\* The log of the sink is chained, and its counter and last hash are those of
\* the log's end, so that the next record will chain too.
GoodSink(s) ==
  /\ Chained(s.records)
  /\ s.next_seq = Len(s.records)
  /\ s.last_hash = ExpectedPrev(s.records, Len(s.records) + 1)
  /\ s.records # <<>> => s.run_id = s.records[1].content.run_id

IsPrefixOf(a, b) == Len(a) <= Len(b) /\ \A i \in 1..Len(a) : a[i] = b[i]

-----------------------------------------------------------------------------
(* The file.  It holds whole lines (recs) and perhaps a last line that was   *)
(* cut (torn): an absent file reads as an empty one wherever its records are *)
(* wanted, and exists says which it is.                                      *)

AuditFile == [exists : BOOLEAN, recs : Seq(AuditRecord), torn : BOOLEAN]

NoFile == [exists |-> FALSE, recs |-> <<>>, torn |-> FALSE]
FileOf(rs) == [exists |-> TRUE, recs |-> rs, torn |-> FALSE]

\* What is in a file that holds only a first part of the lines of rs: k of
\* them, and when cut a part of the next one.
PartialFile(rs, k, cut) ==
  [exists |-> TRUE, recs |-> SubSeq(rs, 1, k), torn |-> cut]
PartialFiles(rs) ==
  {PartialFile(rs, k, FALSE) : k \in 0..Len(rs)}
    \cup {PartialFile(rs, k, TRUE) : k \in 0..Len(rs) - 1}

\* Reading the lines back: a cut line is a JsonParse error.
ParseJsonl(file) == IF file.torn THEN None ELSE Some(file.recs)

ValidateJsonl(file) ==
  IF file.torn THEN "JsonParse" ELSE ValidateRecords(file.recs)

\* Mutants of InitSink: the counter goes back, the last hash is not restored,
\* the last record is lost.
InitSinkRewinds(run, file) ==
  IF file.torn \/ file.recs = <<>> THEN NewSink(run)
  ELSE LET last == file.recs[Len(file.recs)]
       IN  [run_id |-> last.content.run_id, next_seq |-> last.content.seq - 1,
            last_hash |-> last.record_hash, records |-> file.recs]

InitSinkForgetsHash(run, file) ==
  IF file.torn \/ file.recs = <<>> THEN NewSink(run)
  ELSE LET last == file.recs[Len(file.recs)]
       IN  [run_id |-> last.content.run_id, next_seq |-> last.content.seq + 1,
            last_hash |-> ZeroHash, records |-> file.recs]

InitSinkDropsLast(run, file) ==
  IF file.torn \/ file.recs = <<>> THEN NewSink(run)
  ELSE LET last == file.recs[Len(file.recs)]
       IN  [run_id |-> last.content.run_id, next_seq |-> last.content.seq + 1,
            last_hash |-> last.record_hash,
            records |-> SubSeq(file.recs, 1, Len(file.recs) - 1)]

\* The sink a process starts from: the records of the file, which are not
\* validated, or a new chain when the file is absent, empty or does not parse.
InitSink(run, file) ==
  LET parsed == ParseJsonl(file)
      fresh  == NewSink(run)
  IN  IF parsed = None \/ file.recs = <<>> THEN fresh
      ELSE LET last == file.recs[Len(file.recs)]
           IN  [fresh EXCEPT !.run_id = last.content.run_id,
                             !.next_seq = last.content.seq + 1,
                             !.last_hash = last.record_hash,
                             !.records = file.recs]
=============================================================================

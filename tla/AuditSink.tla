----------------------------- MODULE AuditSink ------------------------------
(* The audit sink as its crate offers it: opened from the file a previous    *)
(* process left, appended to with any input a caller may give, reset,        *)
(* exported (perhaps only in part), and lost with the process.  While no     *)
(* process runs the file may be changed from outside.                        *)
EXTENDS AuditChain, FiniteSets

CONSTANTS Input,      \* the VerifyEventInput values callers pass
          MaxRecords, \* bound: no append to a sink that holds this many records
          MaxRuns,    \* bound: number of run ids handed out (make_run_id)
          MaxAlters   \* bound: changes of the file from outside

ASSUME InputAssumption == Input \subseteq VerifyEventInput
ASSUME BoundsAssumption == {MaxRecords, MaxRuns, MaxAlters} \subseteq Nat

VARIABLES sink,  \* GLOBAL: None before init_sink_if_needed, then Some(sink)
          file,  \* andna_audit.jsonl
          runs,  \* run ids handed out so far
          alters,    \* how often the file was changed from outside
          appended   \* history: the records the sink made

vars == <<sink, file, runs, alters, appended>>

Init ==
  /\ sink = None
  /\ file = NoFile
  /\ runs = 0
  /\ alters = 0
  /\ appended = {}

\* A file that cannot be read, intact as it may be, is taken as none.
Open ==
  /\ sink = None
  /\ runs < MaxRuns
  /\ runs' = runs + 1
  /\ \E found \in {file, NoFile} : sink' = Some(InitSink(runs, found))
  /\ UNCHANGED <<file, alters, appended>>

Record(inp) ==
  /\ sink # None
  /\ Len(sink[1].records) < MaxRecords
  /\ sink' = Some(AppendVerify(sink[1], inp))
  /\ appended' = appended \cup {NextRecord(sink[1], inp)}
  /\ UNCHANGED <<file, runs, alters>>

Reset ==
  /\ sink # None
  /\ runs < MaxRuns
  /\ runs' = runs + 1
  /\ sink' = Some(NewSink(runs))
  /\ UNCHANGED <<file, alters, appended>>

Export ==
  /\ sink # None
  /\ file' \in PartialFiles(sink[1].records)
  /\ UNCHANGED <<sink, runs, alters, appended>>

Restart ==
  /\ sink # None
  /\ sink' = None
  /\ UNCHANGED <<file, runs, alters, appended>>

\* Every way of changing a record in one place.
Change(r) ==
  LET c == r.content
      contents == { [c EXCEPT !.version = @ + 1], [c EXCEPT !.run_id = @ + 1],
                    [c EXCEPT !.seq = @ + 1], [c EXCEPT !.decision = 1 - @],
                    [c EXCEPT !.notes_flags = @ \ {"HAS_FRAME"}] }
                  \cup {[c EXCEPT !.ts = t] : t \in Time}
                  \cup {[c EXCEPT !.err_code = e] : e \in {"Ok", "SigInvalid"}}
                  \cup {[c EXCEPT !.notes_flags = @ \cup {b}] : b \in Flags}
                  \cup {[c EXCEPT !.frame_hash = h] : h \in {ZeroHash} \cup {Sha3(f) : f \in Frame}}
  IN  ({[r EXCEPT !.content = d] : d \in contents} \cup {[r EXCEPT !.prev_hash = ZeroHash]}) \ {r}

Dropped(rs, i) == SubSeq(rs, 1, i-1) \o SubSeq(rs, i+1, Len(rs))
Repeated(rs, i) == SubSeq(rs, 1, i) \o SubSeq(rs, i, Len(rs))
Swapped(rs, i, j) == [rs EXCEPT ![i] = rs[j], ![j] = rs[i]]

\* A record of the file is changed, its hash left as it is, or the lines are
\* moved, or one no longer parses.
Alter ==
  /\ sink = None
  /\ alters < MaxAlters
  /\ alters' = alters + 1
  /\ \E i, j \in 1..Len(file.recs) :
       \/ \E r \in Change(file.recs[i]) : file' = [file EXCEPT !.recs[i] = r]
       \/ file' = [file EXCEPT !.recs = Dropped(@, i)]
       \/ file' = [file EXCEPT !.recs = Repeated(@, i)]
       \/ file' = [file EXCEPT !.recs = Swapped(@, i, j)]
       \/ file' = [file EXCEPT !.torn = TRUE]
  /\ UNCHANGED <<sink, runs, appended>>

Next ==
  \/ Open \/ Reset \/ Export \/ Restart \/ Alter
  \/ \E inp \in Input : Record(inp)

Spec == Init /\ [][Next]_vars

-----------------------------------------------------------------------------
TypeOK ==
  /\ sink # None => sink = Some(sink[1]) /\ sink[1] \in AuditSinkState
  /\ file \in AuditFile
  /\ runs \in 0..MaxRuns
  /\ alters \in 0..MaxAlters
  /\ appended \subseteq AuditRecord

Log == IF sink = None THEN <<>> ELSE sink[1].records

Unaltered == alters = 0

\* As long as the file is the program's own, the log in memory is empty or
\* passes the validator, and the sink that holds it is ready for the next
\* record: over restores from whole and cut files, resets, and inputs with
\* reserved flags or no frame (sink.rs, validator.rs).
SinkStaysValid == Unaltered /\ sink # None => GoodSink(sink[1])

\* A file of the program's own, cut or not, never validates unless its lines are
\* whole, and when its lines are whole and there is one, it validates.
FileVerdict ==
  Unaltered =>
    ValidateJsonl(file) =
      (IF file.torn THEN "JsonParse" ELSE IF file.recs = <<>> THEN "Empty" ELSE "Ok")

\* What the program wrote itself stays good, in memory and on the disk, though
\* each process goes on from what an earlier one left there.
LogAndFileStayValid == SinkStaysValid /\ FileVerdict

\* A changed file is opened like any other: its records are parsed and not
\* validated, and the chain is continued from its last line.  Still no number
\* of later records, exports and restarts makes the change pass: a log or a
\* file that validates has no record but those the sink made (sink.rs:145-163,
\* validator.rs:30-64).
ValidatesOnlyOwn ==
  /\ ValidateRecords(Log) = "Ok" => \A i \in 1..Len(Log) : Log[i] \in appended
  /\ ValidateJsonl(file) = "Ok" =>
       \A i \in 1..Len(file.recs) : file.recs[i] \in appended

Rehash(r) == [r EXCEPT !.record_hash = ComputeRecordHash(r)]

\* Records changed in place, with or without their hash recomputed, dropped
\* from the front or the middle, swapped or repeated are all refused by the
\* validator.  What it cannot see, by design of an unsigned chain, is a log cut
\* at its end or a rewritten last record: those are left out here.
TamperEvident ==
  Unaltered =>
    \A i \in 1..Len(Log) :
      /\ \A r \in Change(Log[i]) :
           /\ ValidateRecords([Log EXCEPT ![i] = r]) # "Ok"
           /\ i < Len(Log) => ValidateRecords([Log EXCEPT ![i] = Rehash(r)]) # "Ok"
      /\ i < Len(Log) => ValidateRecords(Dropped(Log, i)) # "Ok"
      /\ ValidateRecords(Repeated(Log, i)) # "Ok"
      /\ \A j \in 1..Len(Log) \ {i} : ValidateRecords(Swapped(Log, i, j)) # "Ok"

\* Every record numbered and hashed anew, from the first one on.
Reissued(rs) ==
  LET contents == [i \in 1..Len(rs) |-> [rs[i].content EXCEPT !.seq = i - 1]]
  IN  [i \in 1..Len(rs) |-> [content |-> contents[i],
                             prev_hash |-> SubSeq(contents, 1, i - 1),
                             record_hash |-> SubSeq(contents, 1, i)]]

\* What may be put in the place of a log by a change at line i.
Altered(rs, i) ==
  {[rs EXCEPT ![i] = r] : r \in Change(rs[i])}
    \cup {Dropped(rs, i), Repeated(rs, i)} \cup {Swapped(rs, i, j) : j \in 1..Len(rs)}

\* Two lists of records are one up to line i.
SameUpTo(rs, qs, i) == \A j \in 1..i : qs[j] = rs[j]

\* A forgery with the hash of a line of the log, which is not the log up to that
\* line, does not validate.
Distinguished(rs, forged) ==
  (\E i \in 1..Len(rs), k \in 1..Len(forged) :
     forged[k].record_hash = rs[i].record_hash /\ ~(k = i /\ SameUpTo(rs, forged, i)))
    => ValidateRecords(forged) # "Ok"

\* Whoever has noted one hash of a log of the program's own can tell it from
\* every forgery that validates, also from those TamperEvident leaves out and
\* from those that are made a chain again: a log with that hash in it is the
\* same up to there.  So an anchor makes truncation and forking detectable
\* (docs/threat-model/06-audit-chain-and-split-world.md:59-61; validator.rs:30-64).
AnchorTellsLog ==
  Unaltered =>
    \A i \in 1..Len(Log) :
      \A forged \in Altered(Log, i) :
        Distinguished(Log, forged) /\ Distinguished(Log, Reissued(forged))
=============================================================================

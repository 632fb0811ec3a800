--------------------------- MODULE VerdictLedger ----------------------------
(* What the verification module promises, seen from outside: verdicts come   *)
(* only from a process whose self-tests passed, each one is entered at the   *)
(* end of a ledger that is never rewritten while the process lives, what is  *)
(* kept on disk is the first part of a ledger, and a process starts either   *)
(* from what was kept or from nothing.                                       *)
EXTENDS Sequences, Naturals

CONSTANT Entry  \* the entries a true verdict may leave: a frame and its code

VARIABLES mode,    \* "closed", "testing", "open" or "failed"
          ledger,  \* the verdicts given, oldest first
          kept     \* the part of a ledger that is on disk

ledgerVars == <<mode, ledger, kept>>

FirstParts(s) == {SubSeq(s, 1, k) : k \in 0..Len(s)}

LedgerInit == mode = "closed" /\ ledger = <<>> /\ kept = <<>>

Begin == mode = "closed" /\ mode' = "testing" /\ UNCHANGED <<ledger, kept>>

Settle == mode = "testing" /\ mode' \in {"open", "failed"} /\ UNCHANGED <<ledger, kept>>

Resume == ledger = <<>> /\ ledger' = kept /\ UNCHANGED <<mode, kept>>

Enter(e) == mode = "open" /\ ledger' = Append(ledger, e) /\ UNCHANGED <<mode, kept>>

Keep == kept' \in FirstParts(ledger) /\ UNCHANGED <<mode, ledger>>

Crash ==
  /\ mode' = "closed"
  /\ ledger' = <<>>
  /\ kept' \in {kept} \cup FirstParts(ledger)

LedgerNext ==
  \/ Begin \/ Settle \/ Resume \/ Keep \/ Crash
  \/ \E e \in Entry : Enter(e)

LedgerSpec == LedgerInit /\ [][LedgerNext]_ledgerVars
=============================================================================

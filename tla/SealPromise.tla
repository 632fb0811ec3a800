----------------------------- MODULE SealPromise -----------------------------
(* What sealing promises, whatever happens to files, seals and registries:   *)
(* a file is accepted only if some identity sealed that content and the      *)
(* registry in use grants that identity at the moment it is read.            *)
CONSTANTS
  Identity,   \* key, epoch and device, as T_E puts them together
  Registries  \* the registry files

VARIABLES
  sealed,     \* who sealed what, ever
  granted,    \* whom each registry file grants now
  accepted    \* who was accepted for what, against which registry file

vars == <<sealed, granted, accepted>>

Init ==
  /\ sealed = {}
  /\ granted \in [Registries -> SUBSET Identity]
  /\ accepted = {}

\* Seals are made, and none is ever unmade.
Seal ==
  /\ sealed \subseteq sealed'
  /\ UNCHANGED <<granted, accepted>>

\* An administrator, or a fresh seal's own registry.
Regrant ==
  /\ granted' \in [Registries -> SUBSET Identity]
  /\ UNCHANGED <<sealed, accepted>>

Accept ==
  \E s \in sealed, r \in Registries :
    /\ s[1] \in granted[r]
    /\ accepted' = accepted \cup {<<s, r>>}
    /\ UNCHANGED <<sealed, granted>>

Next == Seal \/ Regrant \/ Accept

Spec == Init /\ [][Next]_vars

=============================================================================

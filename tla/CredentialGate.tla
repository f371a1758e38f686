--------------------------- MODULE CredentialGate ---------------------------
(***************************************************************************)
(* What the ingestion side promises about credentials, whatever caches and *)
(* counters it uses: it honours a grant only after having seen it valid,   *)
(* and once a grant has ceased to be valid it can only forget it.          *)
(*                                                                         *)
(* A grant is an API key, a channel and the device they stand for.  The    *)
(* registry changes the valid grants as it likes.                          *)
(***************************************************************************)
CONSTANT Grants

VARIABLES valid,     \* the grants the registry's database accepts
          honoured   \* the grants a request may be accepted on

GateTypeOK == valid \in SUBSET Grants /\ honoured \in SUBSET Grants

GateInit == valid \in SUBSET Grants /\ honoured = {}

\* The registry provisions, rotates, blocks, deletes, relinks.
Administer ==
  /\ valid' \in SUBSET Grants
  /\ UNCHANGED honoured

\* The registry answers for one grant, which is valid at that moment.
Learn(g) ==
  /\ g \in valid
  /\ honoured' = honoured \cup {g}
  /\ UNCHANGED valid

\* A request ends, an entry expires or is overwritten.
Forget ==
  /\ honoured' \subseteq honoured
  /\ UNCHANGED valid

GateNext == Administer \/ Forget \/ \E g \in Grants : Learn(g)

GateSpec == GateInit /\ [][GateNext]_<<valid, honoured>>
=============================================================================

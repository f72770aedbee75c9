-------------------------- MODULE BilateralAgreement --------------------------
(***************************************************************************)
(* What a bilateral contract promises, without saying how.                 *)
(*                                                                         *)
(* Each participant's consent is to one content.  A revision enters the    *)
(* history exactly when every participant consents to that content, the    *)
(* history only grows, work is done under the last revision, consent given *)
(* in one negotiation is worth nothing in the next, and a contract that    *)
(* has ended stays ended.                                                  *)
(***************************************************************************)
EXTENDS Integers, Sequences

CONSTANTS Participants, Terms, None

VARIABLES
    phase,      \* where the contract is
    consent,    \* consent[p]: the content p consents to now, or None
    history     \* the contents agreed so far, oldest first

vars == <<phase, consent, history>>

Phase == { "forming", "working", "amending", "reviewing",
           "settled", "rejected", "withdrawn", "noagreement" }

Negotiating == {"forming", "amending"}

NoConsent == [p \in Participants |-> None]

Init ==
    /\ phase = "forming"
    /\ consent = NoConsent
    /\ history = <<>>

\* p consents to content c; everyone else's consent stands.
Consent(p, c) ==
    /\ phase \in Negotiating
    /\ consent' = [consent EXCEPT ![p] = c]
    /\ UNCHANGED <<phase, history>>

\* The offer changed, or its consents can no longer be trusted.
Forget ==
    /\ consent' = NoConsent
    /\ UNCHANGED <<phase, history>>

\* Everyone consents to c, p perhaps only in this very step.
Adopt(p, c) ==
    /\ phase \in Negotiating
    /\ \A q \in Participants \ {p} : consent[q] = c
    /\ history' = Append(history, c)
    /\ consent' = NoConsent
    /\ phase' = "working"

\* Every other move starts or ends with no consent on record.
Moves ==
    { <<"forming", "withdrawn">>, <<"forming", "noagreement">>,
      <<"working", "amending">>, <<"working", "reviewing">>,
      <<"amending", "working">>, <<"amending", "noagreement">>,
      <<"reviewing", "working">>, <<"reviewing", "settled">>,
      <<"reviewing", "rejected">> }

Move ==
    /\ <<phase, phase'>> \in Moves
    /\ consent' = NoConsent
    /\ UNCHANGED history

Next ==
    \/ \E p \in Participants, c \in Terms : Consent(p, c) \/ Adopt(p, c)
    \/ Forget
    \/ Move

Spec == Init /\ [][Next]_vars
================================================================================

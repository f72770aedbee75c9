------------------------------ MODULE Escalation -------------------------------
(***************************************************************************)
(* One dispute: Escalation in src/src/v2/escalation.rs, over the chart of  *)
(* OrgChart.  Escalations share nothing but the chart.                     *)
(*                                                                         *)
(* Raising reads the chart unchecked, referring walks it checked, and the  *)
(* host may have replaced it in between.                                   *)
(***************************************************************************)
EXTENDS OrgChart

VARIABLES
    stage,    \* EscalationStage, "none" before it is raised
    parties,  \* in raise order
    mediator, \* the shared supervisor; after referral whom it was referred to
    arbiter,
    ruling

escalation == <<stage, parties, mediator, arbiter, ruling>>
dispute == <<org, escalation>>

\* What a ruling names (an agent, a time) is not looked at.
Ruling == {"split", "reassign", "deadline"}
EscalationStage == {"raised", "referred", "resolved", "no_agreement"}

\* The parties of a dispute that has been raised.
Disputing == {parties[i] : i \in DOMAIN parties}

\* Who mediates: the supervisor of siblings, or of the parent of a parent and
\* its child; None when there is no such agent.
StageOneMediator(a, b) ==
    IF Siblings(a, b) THEN org[a]
    ELSE IF org[a] = b THEN org[b]
    ELSE IF org[b] = a THEN org[a] ELSE None

Raise(a, b) ==
    /\ stage = "none"
    /\ a # b
    /\ StageOneMediator(a, b) # None
    /\ stage' = "raised"
    /\ parties' = <<a, b>>
    /\ mediator' = StageOneMediator(a, b)
    /\ UNCHANGED <<org, arbiter, ruling>>

\* mutant: the dispute goes to the lowest common supervisor, mediator or not.
StayWithLca(lca) == lca

\* One level above the lowest common supervisor if that one has mediated
\* already, unless it is a root.
Climb(lca) == IF lca = mediator /\ org[lca] # None THEN org[lca] ELSE lca

Refer ==
    /\ stage = "raised"
    /\ Lca(parties[1], parties[2]) # None
    /\ stage' = "referred"
    /\ mediator' = Climb(Lca(parties[1], parties[2]))
    /\ UNCHANGED <<org, parties, arbiter, ruling>>

\* invoke_arbiter: at either open stage, and again; any third agent.
InvokeArbiter(x) ==
    /\ stage \in {"raised", "referred"}
    /\ x \notin Disputing
    /\ arbiter' = x
    /\ UNCHANGED <<org, stage, parties, mediator, ruling>>

Resolve(r) ==
    /\ stage = "referred"
    /\ stage' = "resolved"
    /\ ruling' = r
    /\ UNCHANGED <<org, parties, mediator, arbiter>>

ConcludeNoAgreement ==
    /\ stage \in {"raised", "referred"}
    /\ stage' = "no_agreement"
    /\ UNCHANGED <<org, parties, mediator, arbiter, ruling>>

DisputeInit ==
    /\ ChartInit
    /\ stage = "none" /\ parties = <<>>
    /\ mediator = None /\ arbiter = None /\ ruling = None

DisputeNext ==
    \/ \E a, b \in Agents : Raise(a, b)
    \/ Refer
    \/ \E x \in Agents : InvokeArbiter(x)
    \/ \E r \in Ruling : Resolve(r)
    \/ ConcludeNoAgreement
    \/ Reorganise /\ UNCHANGED escalation

DisputeSpec == DisputeInit /\ [][DisputeNext]_dispute

-----------------------------------------------------------------------------
(* Properties *)

\* HACP-2.0-draft.md section 11: who rules is "the nearest agent that supervises
\* both, never a party itself".  Whatever became of the chart, malformed at the
\* time of raising included, no party has a referred dispute in its hands and no
\* party arbitrates; before referral this needs a well-formed chart
\* (escalation.rs:115).
ThirdPartiesDecide ==
    /\ stage \in {"referred", "resolved"} => mediator \notin Disputing
    /\ stage # "none" => arbiter \notin Disputing

\* Section 11: referral hands the dispute to an agent above both parties, and
\* while the mediator is still the one whom the chart makes mediate, to one
\* above the mediator, unless that is a root (escalation.rs:162).
ReferralClimbs ==
    [][(stage = "raised" /\ stage' = "referred") =>
           LET a == parties[1]
               b == parties[2]
           IN  /\ mediator' \in Supervisors(a) \cap Supervisors(b)
               /\ StageOneMediator(a, b) = mediator =>
                      IF org[mediator] = None THEN mediator' = mediator
                      ELSE mediator' \in Supervisors(mediator)]_dispute
=============================================================================

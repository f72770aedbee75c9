---------------------------- MODULE AtMostOnceCall ----------------------------
(***************************************************************************)
(* What remote execution over HACP Secure promises a requester: a call is  *)
(* carried out at most once, one at a time, under a contract and within    *)
(* the policy, or it is denied, or it is lost; the answer that comes back, *)
(* if any does, is the verdict reached on that very call.                  *)
(***************************************************************************)
CONSTANTS
    Calls,
    Terms,                           \* what a call may ask, and under which contract
    Allowed,                         \* the terms a call may be carried out on
    Results, Refusals, None

VARIABLES
    stage,       \* "idle", "requested", "running", "judged" or "lost"
    terms,       \* what the call asks, once it is made
    verdict,
    answer       \* what the requester was returned

vars == <<stage, terms, verdict, answer>>

Init ==
    /\ stage = [c \in Calls |-> "idle"]
    /\ terms \in [Calls -> Terms]
    /\ verdict = [c \in Calls |-> None]
    /\ answer = [c \in Calls |-> None]

Request(c, t) ==
    /\ stage[c] = "idle"
    /\ stage' = [stage EXCEPT ![c] = "requested"]
    /\ terms' = [terms EXCEPT ![c] = t]
    /\ UNCHANGED <<verdict, answer>>

Run(c) ==
    /\ stage[c] = "requested" /\ terms[c] \in Allowed
    /\ \A d \in Calls : stage[d] # "running"
    /\ stage' = [stage EXCEPT ![c] = "running"]
    /\ UNCHANGED <<terms, verdict, answer>>

Judge(c) ==
    /\ \/ stage[c] = "running" /\ verdict'[c] \in Results
       \/ stage[c] = "requested" /\ verdict'[c] \in Refusals
    /\ verdict' = [verdict EXCEPT ![c] = verdict'[c]]
    /\ stage' = [stage EXCEPT ![c] = "judged"]
    /\ UNCHANGED <<terms, answer>>

Lose(calls) ==
    /\ \A c \in calls : stage[c] \in {"requested", "running"}
    /\ stage' = [c \in Calls |-> IF c \in calls THEN "lost" ELSE stage[c]]
    /\ UNCHANGED <<terms, verdict, answer>>

Return(c) ==
    /\ verdict[c] # None /\ answer[c] = None
    /\ answer' = [answer EXCEPT ![c] = verdict[c]]
    /\ UNCHANGED <<stage, terms, verdict>>

Next ==
    \/ \E c \in Calls : (\E t \in Terms : Request(c, t))
                        \/ Run(c) \/ Judge(c) \/ Return(c)
    \/ \E calls \in SUBSET Calls : Lose(calls)

Spec == Init /\ [][Next]_vars
================================================================================

--------------------------- MODULE BilateralSession ---------------------------
(***************************************************************************)
(* One bilateral session: Session in src/src/v2/session.rs, from the       *)
(* moment `open` has built it.  Only one feature is told apart, the one    *)
(* that lets observers in; what an observer is granted is not.             *)
(***************************************************************************)
EXTENDS AgentUrns

CONSTANTS
    Opener,    \* participants[0]
    Acceptor,  \* participants[1]
    Declarers, \* bound: participants that ever declare `observer-events`
    Onlookers  \* bound: agents that are ever proposed as observers

ASSUME SessionConstants ==
    /\ Opener \in Agents /\ Acceptor \in Agents /\ Opener # Acceptor
    /\ Declarers \subseteq {Opener, Acceptor} /\ Onlookers \subseteq Agents

VARIABLES
    session,   \* Session.state
    declared,  \* participants that declared `observer-events`
    observers  \* keys of Session.observers

talk == <<session, declared, observers>>

SessionState == {"Opening", "Active", "Closed", "Abandoned"}
Ended == {"Closed", "Abandoned"}

SessionParties == {Opener, Acceptor}

\* authorize_author: participants, and no observer among them.
MayAuthor(who) == who \in SessionParties \ observers

\* The opener cannot accept what it opened.
Accept(by) ==
    /\ MayAuthor(by) /\ by # Opener
    /\ session = "Opening"
    /\ session' = "Active"
    /\ UNCHANGED <<declared, observers>>

DeclareAnyTime(who) ==    \* mutant
    /\ MayAuthor(who)
    /\ declared' = declared \cup {who}
    /\ UNCHANGED <<session, observers>>
DeclareFeatures(who) ==
    /\ MayAuthor(who)
    /\ session \notin Ended
    /\ declared' = declared \cup {who}
    /\ UNCHANGED <<session, observers>>

\* feature_available: both sides declared it.
FeatureOfOne == declared # {}    \* mutant
FeatureAvailable == SessionParties \subseteq declared

GrantObserver(who) ==
    /\ session = "Active"
    /\ who \notin SessionParties
    /\ FeatureAvailable
    /\ observers' = observers \cup {who}
    /\ UNCHANGED <<session, declared>>

\* close and close_for_capability_mismatch.
CloseSession ==
    /\ session = "Active"
    /\ session' = "Closed"
    /\ UNCHANGED <<declared, observers>>

AbandonSession ==
    /\ session \notin Ended
    /\ session' = "Abandoned"
    /\ UNCHANGED <<declared, observers>>

SessionInit == session = "Opening" /\ declared = {} /\ observers = {}

SessionNext ==
    \/ \E by \in SessionParties : Accept(by)
    \/ \E who \in Declarers : DeclareFeatures(who)
    \/ \E who \in Onlookers : GrantObserver(who)
    \/ \E by \in SessionParties : MayAuthor(by) /\ CloseSession
    \/ AbandonSession

SessionSpec == SessionInit /\ [][SessionNext]_talk

-----------------------------------------------------------------------------
(* Properties *)

SessionTypeOK ==
    /\ session \in SessionState
    /\ declared \subseteq SessionParties
    /\ observers \subseteq Agents

\* Nobody listens whom both participants did not let in: an observer is a third
\* agent, and there is one only in a session that was accepted and in which both
\* sides declared the feature (session.rs:176).
ObserversAreLetIn ==
    observers # {} =>
        /\ observers \cap SessionParties = {}
        /\ SessionParties \subseteq declared
        /\ session # "Opening"
================================================================================

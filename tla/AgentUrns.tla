------------------------------- MODULE AgentUrns -------------------------------
(* The agents that charts, grants, sessions and escalations name. *)
EXTENDS FiniteSets

CONSTANTS
    Agents, \* agent URNs
    None    \* an absent value

ASSUME AgentConstants == IsFiniteSet(Agents) /\ None \notin Agents
================================================================================

---------------------------- MODULE MCSecureHandshake ----------------------------
(* Instances of SecureHandshake for TLC. *)
EXTENDS SecureHandshake, TLC

CONSTANTS a, b, c1, c2

AgentSymmetry == Permutations(Agents)
==================================================================================

-------------------------- MODULE MCBilateralContract --------------------------
(* Instances of BilateralContract, as guardians observe it, for TLC. *)
EXTENDS ContractObservation
================================================================================

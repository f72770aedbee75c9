----------------------------- MODULE ContractView -----------------------------
(***************************************************************************)
(* What a guardian's observation of the contract snapshot lets pass:       *)
(* ContractView::check in src/src/secure/transport.rs.                     *)
(*                                                                         *)
(* A view is a record [current, superseded, bootstrap, sound].  Bootstrap  *)
(* and Pending have no current revision; Frozen has one and nothing else;  *)
(* Observed is the general case.  `sound` is false when a current entry's  *)
(* digest is not that of its content.                                      *)
(***************************************************************************)
CONSTANT NoBinding    \* the empty contract field of bootstrap traffic

NothingFrozen(view) == view.bootstrap \/ view.current = {}

\* Ok(()): deliver, or seal.
Permits(view, claimed) ==
    /\ view.sound
    /\ claimed \notin view.superseded
    /\ claimed \in view.current \/ (claimed = NoBinding /\ NothingFrozen(view))

\* ContractPending: hold, or seal for later.
Postpones(view, claimed) ==
    /\ view.sound
    /\ claimed \notin view.superseded \cup view.current \cup {NoBinding}
    /\ NothingFrozen(view)

\* ContractMismatch: abort the session.
Contradicts(view, claimed) == ~ Permits(view, claimed) /\ ~ Postpones(view, claimed)
================================================================================

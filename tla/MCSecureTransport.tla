--------------------------- MODULE MCSecureTransport ---------------------------
(* Instances of SecureTransport for TLC. *)
EXTENDS SecureTransport

CONSTANTS d1, d2        \* the digests of revisions 1 and 2 of one contract

\* Observations of a contract before its first freeze, under revision 1, under
\* revision 1 with a second contract still being proposed, under revision 2,
\* and of a record whose digest does not fit its content.
Bootstrap == [current |-> {}, superseded |-> {}, bootstrap |-> TRUE, sound |-> TRUE]
Revision1 == [current |-> {d1}, superseded |-> {}, bootstrap |-> FALSE, sound |-> TRUE]
Proposing == [current |-> {d1}, superseded |-> {}, bootstrap |-> TRUE, sound |-> TRUE]
Revision2 == [current |-> {d2}, superseded |-> {d1}, bootstrap |-> FALSE, sound |-> TRUE]
Unsound   == [current |-> {d1}, superseded |-> {}, bootstrap |-> FALSE, sound |-> FALSE]

FrozenViews == {Bootstrap, Proposing}

AllViews == {Bootstrap, Revision1, Proposing, Revision2, Unsound}

\* Signed envelopes that do not open, in the middle of the stream and at u64::MAX.
NotOpening(n) == [seq |-> n, contract |-> NoBinding, payload |-> MaxSeq, opens |-> FALSE]
Middle == {NotOpening(1)}
MiddleAndEnd == {NotOpening(1), NotOpening(MaxSeq)}
================================================================================

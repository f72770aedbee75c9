---------------------------- MODULE OrderedDelivery ----------------------------
(***************************************************************************)
(* What the secure transport promises for one direction of one session:    *)
(* the receiver is handed a prefix of what the sender sealed, in order and *)
(* without repetition, and nothing any more once it has closed.            *)
(***************************************************************************)
EXTENDS Integers, Sequences

CONSTANT Message

VARIABLES
    sent,            \* what the sender sealed, in order
    got,             \* what the receiver handed to its agent, in order
    sender_open, receiver_open

vars == <<sent, got, sender_open, receiver_open>>

Init == sent = <<>> /\ got = <<>> /\ sender_open = TRUE /\ receiver_open = TRUE

Send(m) ==
    /\ sender_open
    /\ sent' = Append(sent, m)
    /\ sender_open' \in BOOLEAN          \* sealing may be the session's last act
    /\ UNCHANGED <<got, receiver_open>>

\* Hand over everything up to the n-th message.
Deliver(n) ==
    /\ receiver_open
    /\ n \in Len(got) .. Len(sent)
    /\ got' = SubSeq(sent, 1, n)
    /\ UNCHANGED <<sent, sender_open, receiver_open>>

CloseSender   == sender_open' = FALSE /\ UNCHANGED <<sent, got, receiver_open>>
CloseReceiver == receiver_open' = FALSE /\ UNCHANGED <<sent, got, sender_open>>

Next ==
    \/ \E m \in Message : Send(m)
    \/ \E n \in Len(got) .. Len(sent) : Deliver(n)
    \/ CloseSender \/ CloseReceiver

Spec == Init /\ [][Next]_vars
================================================================================

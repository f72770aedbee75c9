--------------------------- MODULE SecureTransport ---------------------------
(***************************************************************************)
(* The secure transport, src/src/secure/transport.rs, with the part of the *)
(* session manager (src/src/secure/session.rs) it works on: one direction  *)
(* of one established session.                                             *)
(*                                                                         *)
(* The sender's guardian seals; the envelopes lie on an untrusted edge;    *)
(* the receiver's guardian is handed any of them, in any order, any number *)
(* of times or never, and consults the local contract snapshot -- the view *)
(* -- at every call.  Both guardians are single-threaded, so each request  *)
(* is one step.  Envelopes that fail validation, routing or the signature  *)
(* are dropped before the window is looked at and are not modelled; those  *)
(* that carry a good signature and still do not open are (Garbled).        *)
(***************************************************************************)
EXTENDS Integers, Sequences, FiniteSets, ContractView

CONSTANTS
    Bindings,    \* contract digests an envelope may claim, NoBinding included
    Views,       \* the observations of .hacp/session.json that may occur
    FinalView,   \* the one the snapshot settles on (fairness only)
    Garbled,     \* signed envelopes on the edge whose ciphertext does not open
    HoldLimit,   \* 64 in transport.rs
    MaxSeq       \* u64::MAX: the sequence number that is never used

ASSUME BindingsAssumption == NoBinding \in Bindings
ASSUME BoundsAssumption == HoldLimit \in Nat /\ MaxSeq \in Nat

\* `payload` identifies the plaintext; `opens` says whether the AEAD tag holds.
Envelope ==
    [seq : 0 .. MaxSeq, contract : Bindings, payload : 0 .. MaxSeq, opens : BOOLEAN]

ASSUME GarbledAssumption ==
    Garbled \subseteq Envelope /\ \A env \in Garbled : ~ env.opens

\* A ContractView, as module ContractView describes it.
View == [ current : SUBSET Bindings, superseded : SUBSET Bindings,
          bootstrap : BOOLEAN, sound : BOOLEAN ]

ASSUME ViewsAssumption == Views \subseteq View /\ FinalView \in Views

VARIABLES
    \* the sender's guardian
    sender_open,     \* SessionManager knows the session
    send_seq,        \* Window.send_seq
    manager_seq,     \* SessionInfo.send_seq
    sealed,          \* every envelope sealed so far, in order (read by no guard)
    missing,         \* the positions in it whose envelope was never written
    \* the receiver's guardian
    session,         \* SessionInfo.state, or "closed"
    high,            \* Window.high, -1 for None
    delivery_next,   \* Window.delivery_next
    held,            \* Window.held: the envelopes, keyed by their seq
    delivered        \* the envelopes handed out in reports, in order

sender   == <<sender_open, send_seq, manager_seq, sealed, missing>>
receiver == <<session, high, delivery_next, held, delivered>>
vars     == <<sender, receiver>>

--------------------------------------------------------------------------------
(***************************************************************************)
(* The sender.                                                             *)
(***************************************************************************)
Init ==
    /\ sender_open = TRUE /\ send_seq = 0 /\ manager_seq = 0
    /\ sealed = <<>> /\ missing = {}
    /\ session \in {"AckSent", "Established"}
    /\ high = -1 /\ delivery_next = 0 /\ held = {} /\ delivered = <<>>

DropWindowOnly == send_seq' = 0 /\ manager_seq' = 0 /\ UNCHANGED sender_open    \* mutant
DropSender ==
    sender_open' = FALSE /\ send_seq' = 0 /\ manager_seq' = 0

NextSealed(contract) ==
    [seq |-> send_seq, contract |-> contract, payload |-> Len(sealed), opens |-> TRUE]

SpentTooLate == send_seq > MaxSeq \/ manager_seq > MaxSeq    \* mutant
SequenceSpent == send_seq = MaxSeq \/ manager_seq = MaxSeq

\* Transport::seal and SessionManager::seal: both counters are committed before
\* the guardian writes the envelope (write_message), so a write that fails leaves
\* a hole nothing fills, in a session that stays open.
Seal(contract, view) ==
    /\ sender_open
    /\ ~ Contradicts(view, contract)
    /\ ~ SequenceSpent
    /\ send_seq = manager_seq
    /\ sealed' = Append(sealed, NextSealed(contract))
    /\ missing' \in {missing, missing \cup {Len(sealed) + 1}}
    /\ send_seq' = send_seq + 1
    /\ manager_seq' = manager_seq + 1
    /\ UNCHANGED <<sender_open, receiver>>

\* Encryption spent the nonce, then signing failed: the session is removed.
SealFails(contract, view) ==
    /\ sender_open
    /\ ~ Contradicts(view, contract)
    /\ ~ SequenceSpent
    /\ send_seq = manager_seq
    /\ DropSender
    /\ UNCHANGED <<sealed, missing, receiver>>

\* A contradicted contract or a spent sequence closes the sender's session; so
\* does a close request, and so does a restart, which loses every session.
SealRefused(contract, view) ==
    /\ sender_open
    /\ Contradicts(view, contract) \/ send_seq = MaxSeq
    /\ DropSender
    /\ UNCHANGED <<sealed, missing, receiver>>

CloseSender == sender_open /\ DropSender /\ UNCHANGED <<sealed, missing, receiver>>

--------------------------------------------------------------------------------
(***************************************************************************)
(* The receiver.                                                           *)
(***************************************************************************)
next == high + 1

SeqsOf(envelopes) == {env.seq : env \in envelopes}

At(envelopes, n) == CHOOSE env \in envelopes : env.seq = n

QueueFull == Cardinality(held) >= HoldLimit

\* abort and close: the window and the session go, and with them whatever the
\* report had collected.
Abort ==
    /\ session' = "closed"
    /\ high' = -1 /\ delivery_next' = 0 /\ held' = {}
    /\ UNCHANGED <<sender, delivered>>

\* The window's high mark once the held envelopes that follow `from` without a
\* gap have been opened: it stops at the first one missing or not opening.
OpensUpTo(envelopes, from, top) ==
    LET opening == {env.seq : env \in {e \in envelopes : e.opens}}
    IN  from + 1 .. top \subseteq opening /\ top + 1 \notin opening

\* Delivery runs from delivery_next while the view permits what is held.
DeliversUpTo(envelopes, top, view, last) ==
    LET permitted == {env.seq : env \in {e \in envelopes : Permits(view, e.contract)}}
    IN  /\ delivery_next .. last \subseteq permitted
        /\ last = top \/ last + 1 \notin permitted

FirstContradicts(view, opened) ==    \* mutant
    \E env \in opened : env.seq = delivery_next /\ Contradicts(view, env.contract)
AnyContradicts(view, opened) ==
    \E env \in opened : Contradicts(view, env.contract)

ReportNewestFirst(envelopes, last) ==    \* mutant
    [i \in 1 .. last + 1 - delivery_next |-> At(envelopes, last + 1 - i)]

\* The part of the queue a report hands out, in order.
Report(envelopes, last) ==
    [i \in 1 .. last + 1 - delivery_next |-> At(envelopes, delivery_next + i - 1)]

\* drain: open what has become contiguous, dropping the one that does not open;
\* abort if anything opened contradicts the view, even behind a postponed
\* envelope; otherwise deliver in order as far as the view permits.
Drain(envelopes, from, view) ==
    \E top \in from .. MaxSeq :
        LET kept   == {env \in envelopes : env.seq # top + 1}
            opened == {env \in kept : env.seq <= top}
        IN  /\ OpensUpTo(envelopes, from, top)
            /\ \/ AnyContradicts(view, opened) /\ Abort
               \/ /\ ~ AnyContradicts(view, opened)
                  /\ \E last \in delivery_next - 1 .. top :
                        /\ DeliversUpTo(kept, top, view, last)
                        /\ delivery_next' = last + 1
                        /\ held' = {env \in kept : env.seq > last}
                        /\ delivered' = delivered \o Report(kept, last)
                  /\ high' = top
                  /\ session' = IF top > high THEN "Established" ELSE session
                  /\ UNCHANGED sender

HoldLast(env) ==    \* mutant
    held' = {env} /\ UNCHANGED <<sender, session, high, delivery_next, delivered>>
Hold(env) ==
    /\ held' = held \cup {env}
    /\ UNCHANGED <<sender, session, high, delivery_next, delivered>>

\* An envelope ahead of the window waits, unless the queue is full
\* (HoldOverflow) or it is newer than everything waiting for the same hole
\* (SequenceGap).
ReceiveAhead(env) ==
    LET waiting == SeqsOf(held) \cap next .. MaxSeq
        refused == \/ QueueFull
                   \/ waiting # {} /\ \A n \in waiting : env.seq > n
    IN  /\ env.seq > next
        /\ (refused /\ Abort) \/ (~ refused /\ Hold(env))

\* The envelope the window waits for; one that does not open is rejected
\* (TamperDetected) and leaves the window alone.
ReceiveNext(env, view) ==
    LET refused == Contradicts(view, env.contract) \/ QueueFull
    IN  /\ env.seq = next /\ env.opens
        /\ (refused /\ Abort) \/ (~ refused /\ Drain(held \cup {env}, env.seq, view))

\* receive, for an envelope that passed verify_message; a sequence number that
\* was accepted or is being held is rejected (ReplayRejected).
Receive(env, view) ==
    /\ session # "closed"
    /\ env.seq > high /\ env.seq \notin SeqsOf(held)
    /\ \/ env.seq = MaxSeq /\ Abort                  \* SessionExhausted
       \/ env.seq < MaxSeq /\ (ReceiveAhead(env) \/ ReceiveNext(env, view))

\* The guardian looks at the contract snapshot again without new traffic.
Observe(view) == session # "closed" /\ Drain(held, high, view)

\* A close request, eviction of a session that never opened anything, an abort
\* of the whole context, or a restart.
CloseReceiver == session # "closed" /\ Abort

OnEdge == {sealed[i] : i \in DOMAIN sealed \ missing} \cup Garbled

Next ==
    \/ \E contract \in Bindings, view \in Views :
          Seal(contract, view) \/ SealFails(contract, view) \/ SealRefused(contract, view)
    \/ CloseSender
    \/ \E env \in OnEdge, view \in Views : Receive(env, view)
    \/ \E view \in Views : Observe(view)
    \/ CloseReceiver

Spec == Init /\ [][Next]_vars

(***************************************************************************)
(* The guardian's recv request reads every file of the session's directory *)
(* and ends with an observation, and agents poll it: each envelope that    *)
(* was written stays on the edge and is offered again and again, and what  *)
(* the contract snapshot settles on (FinalView) is eventually observed.    *)
(* That an envelope is written is promised by nothing.                     *)
(***************************************************************************)
Offer(i) ==
    i \in DOMAIN sealed \ missing /\ \E view \in Views : Receive(sealed[i], view)

FairSpec ==
    /\ Spec
    /\ \A i \in 1 .. MaxSeq : WF_vars(Offer(i))
    /\ WF_vars(Observe(FinalView))

--------------------------------------------------------------------------------
(***************************************************************************)
(* Properties.                                                             *)
(***************************************************************************)

\* The fields have the types of transport.rs and session.rs.
TypeOK ==
    /\ sender_open \in BOOLEAN
    /\ send_seq \in 0 .. MaxSeq /\ manager_seq \in 0 .. MaxSeq
    /\ sealed \in Seq(Envelope) /\ missing \subseteq DOMAIN sealed
    /\ session \in {"AckSent", "Established", "closed"}
    /\ high \in -1 .. MaxSeq
    /\ delivery_next \in 0 .. MaxSeq + 1
    /\ held \subseteq Envelope
    /\ delivered \in Seq(Envelope)

\* No nonce is spent twice: the sequence number is the AEAD nonce, and failed
\* seals, refusals and re-opened windows never bring an old one back.
NonceNeverReused ==
    /\ \A i, j \in DOMAIN sealed : sealed[i].seq = sealed[j].seq => i = j
    /\ sender_open => send_seq = manager_seq /\ send_seq = Len(sealed)

\* Exactly once, in order, nothing invented: what the agent was handed is a
\* prefix of what was sealed, whatever the edge dropped, repeated or reordered.
DeliveredIsPrefix ==
    /\ Len(delivered) <= Len(sealed)
    /\ \A i \in DOMAIN delivered : delivered[i] = sealed[i]
    /\ session # "closed" => delivery_next = Len(delivered)

\* Nothing is lost inside the window: what was accepted (seq <= high) and not
\* yet handed out is still held, genuine, and no two envelopes share a slot.
AcceptedIsHeld ==
    session # "closed" =>
        /\ delivery_next <= next
        /\ \A n \in delivery_next .. high : \E env \in held : env.seq = n /\ env.opens
        /\ \A env \in held : env.seq >= delivery_next /\ env.seq < MaxSeq
        /\ \A e, f \in held : e.seq = f.seq => e = f

\* The queue shared by gaps and postponed contracts stays within its limit, and
\* the slot the window waits for is empty, so the missing envelope gets in.
QueueBounded ==
    /\ Cardinality(held) <= HoldLimit
    /\ session # "closed" => next \notin SeqsOf(held)

\* A report never hands out plaintext while anything opened in the window, sent
\* earlier or later, contradicts the observation it was made under.
NothingDeliveredOverContradiction ==
    [][ \A view \in Views :
          /\ Observe(view) \/ \E env \in OnEdge : Receive(env, view)
          /\ delivered' # delivered
          => \A env \in held' \cup {delivered'[i] : i \in DOMAIN delivered'
                                                    \ DOMAIN delivered} :
                env.seq <= high' => ~ Contradicts(view, env.contract) ]_vars

\* Everything sealed before the first envelope that was not written reaches the
\* agent unless the session closes, however the edge reorders, when the receiver's
\* observation permits it.  What is sealed behind such a hole (transport.rs:181,
\* then guardian.rs:370 failing) never does, and nothing ends that session.
SealedIsDelivered ==
    \A n \in 1 .. MaxSeq :
        Len(sealed) >= n /\ missing \cap 1 .. n = {}
            ~> (Len(delivered) >= n \/ session = "closed")

(***************************************************************************)
(* The transport implements OrderedDelivery.                               *)
(***************************************************************************)
Channel == INSTANCE OrderedDelivery WITH
    Message <- Envelope, sent <- sealed, got <- delivered,
    receiver_open <- session # "closed"

ImplementsChannel == Channel!Spec

(***************************************************************************)
(* docs/hacp-secure.md, section 6, says of the receiver: a digest "Not yet *)
(* observed" is held and re-evaluated, it does not abort.                  *)
(***************************************************************************)
UnobservedIsHeld ==
    [][ \A view \in Views, env \in OnEdge :
          /\ Receive(env, view)
          /\ env.opens /\ env.seq = next /\ ~ QueueFull
          /\ view.sound /\ \A e \in held \cup {env} :
                e.contract \notin view.superseded \cup view.current \cup {NoBinding}
          => session' # "closed" ]_vars
================================================================================

------------------------- MODULE SecureTransportProofs -------------------------
(***************************************************************************)
(* Proofs about SecureTransport, for every set of bindings, observations   *)
(* and garbled envelopes, every queue limit and every sequence space.      *)
(***************************************************************************)
EXTENDS SecureTransport, FiniteSetTheorems, SequenceTheorems, WellFoundedInduction, TLAPS

\* The i-th envelope sealed carries the sequence number i - 1.
Numbered ==
    /\ \A i \in 1 .. Len(sealed) : sealed[i].seq = i - 1 /\ sealed[i].opens
    /\ Len(sealed) <= MaxSeq
    /\ sender_open => send_seq = Len(sealed) /\ manager_seq = Len(sealed)

\* What a set of envelopes in the window, `high` at h and delivery at d, is like.
WindowOf(envelopes, h, d) ==
    /\ envelopes \subseteq Envelope
    /\ \A e \in envelopes : d <= e.seq /\ e.seq < MaxSeq
    /\ \A e, f \in envelopes : e.seq = f.seq => e = f
    /\ \A e \in envelopes :
          e.opens => e.seq + 1 \in 1 .. Len(sealed) /\ e = sealed[e.seq + 1]
    /\ h \in -1 .. MaxSeq - 1 /\ d \in 0 .. h + 1
    /\ \A n \in d .. h : \E e \in envelopes : e.seq = n /\ e.opens

Prefix ==
    /\ delivered \in Seq(Envelope)
    /\ Len(delivered) <= Len(sealed)
    /\ \A i \in 1 .. Len(delivered) : delivered[i] = sealed[i]

\* While the session lives the window is in order and its next slot is free;
\* afterwards it is gone.
Window ==
    /\ WindowOf(held, high, delivery_next)
    /\ next \notin SeqsOf(held)
    /\ session # "closed" => Len(delivered) = delivery_next
    /\ session = "closed" => high = -1 /\ delivery_next = 0 /\ held = {}

SenderTypeOK ==
    /\ sender_open \in BOOLEAN
    /\ send_seq \in 0 .. MaxSeq /\ manager_seq \in 0 .. MaxSeq
    /\ sealed \in Seq(Envelope) /\ missing \subseteq 1 .. Len(sealed)

TInv ==
    /\ SenderTypeOK
    /\ session \in {"AckSent", "Established", "closed"}
    /\ Numbered
    /\ Prefix
    /\ Window

--------------------------------------------------------------------------------
(***************************************************************************)
(* The sender's steps.                                                     *)
(***************************************************************************)

\* Appending to a sequence, as a fact about its members.
LEMMA Appended ==
    ASSUME NEW S, NEW s \in Seq(S), NEW e \in S, NEW t, t = Append(s, e)
    PROVE  /\ t \in Seq(S) /\ Len(s) \in Nat /\ Len(t) = Len(s) + 1
           /\ \A i \in 1 .. Len(s) : t[i] = s[i]
           /\ t[Len(s) + 1] = e
BY AppendProperties

\* Sealing one more envelope disturbs nothing the receiver's window relies on.
LEMMA LongerStream ==
    ASSUME SenderTypeOK, Prefix, Window, UNCHANGED receiver,
           sealed' \in Seq(Envelope), Len(sealed') >= Len(sealed),
           \A i \in 1 .. Len(sealed) : sealed'[i] = sealed[i]
    PROVE  Prefix' /\ Window'
<1>0. /\ UNCHANGED <<session, high, delivery_next, held, delivered>>
      /\ Len(sealed) \in Nat /\ Len(sealed') \in Nat
  BY DEF receiver, SenderTypeOK
<1>1. Prefix'
  BY <1>0 DEF Prefix
<1>2. WindowOf(held, high, delivery_next)'
  <2>1. ASSUME NEW e \in held, e.opens
        PROVE  e.seq + 1 \in 1 .. Len(sealed') /\ e = sealed'[e.seq + 1]
    <3>1. e.seq + 1 \in 1 .. Len(sealed) /\ e = sealed[e.seq + 1]
      BY <2>1 DEF Window, WindowOf
    <3> QED
      BY <1>0, <3>1
  <2> QED
    BY <1>0, <2>1 DEF Window, WindowOf
<1>3. next' = next /\ SeqsOf(held)' = SeqsOf(held)
  BY <1>0 DEF next, SeqsOf
<1> QED
  BY <1>0, <1>1, <1>2, <1>3 DEF Window

LEMMA SealStep ==
    ASSUME TInv, NEW contract \in Bindings, NEW view \in Views, Seal(contract, view)
    PROVE  TInv'
<1> USE DEF TInv
<1>1. /\ send_seq = Len(sealed) /\ manager_seq = Len(sealed)
      /\ Len(sealed) \in Nat /\ Len(sealed) < MaxSeq
  BY BoundsAssumption DEF Seal, SequenceSpent, Numbered, SenderTypeOK
<1>2. NextSealed(contract) \in Envelope
  BY <1>1, BoundsAssumption DEF NextSealed, Envelope
<1>3. /\ sealed' \in Seq(Envelope) /\ Len(sealed') = Len(sealed) + 1
      /\ \A i \in 1 .. Len(sealed) : sealed'[i] = sealed[i]
      /\ sealed'[Len(sealed) + 1] = NextSealed(contract)
  BY <1>2, Appended DEF Seal, SenderTypeOK
<1>4. send_seq' = Len(sealed') /\ manager_seq' = Len(sealed') /\ UNCHANGED sender_open
  BY <1>1, <1>3 DEF Seal
<1>5. SenderTypeOK'
  <2>1. missing \subseteq 1 .. Len(sealed)
    BY DEF SenderTypeOK
  <2>2. missing' \subseteq missing \cup {Len(sealed) + 1}
    BY DEF Seal
  <2>3. missing' \subseteq 1 .. Len(sealed')
    BY <1>1, <1>3, <2>1, <2>2
  <2> QED
    BY <1>1, <1>3, <1>4, <2>3, BoundsAssumption DEF SenderTypeOK
<1>6. Numbered'
  <2>1. ASSUME NEW i \in 1 .. Len(sealed') PROVE sealed'[i].seq = i - 1 /\ sealed'[i].opens
    <3>1. CASE i = Len(sealed) + 1
      BY <1>1, <1>3, <3>1 DEF NextSealed
    <3>2. CASE i \in 1 .. Len(sealed)
      BY <1>3, <3>2 DEF Numbered
    <3> QED
      BY <1>1, <1>3, <3>1, <3>2
  <2> QED
    BY <1>1, <1>3, <1>4, <2>1, BoundsAssumption DEF Numbered
<1>7. UNCHANGED receiver
  BY DEF Seal
<1>8. Len(sealed') >= Len(sealed)
  BY <1>1, <1>3
<1>9. Prefix' /\ Window'
  BY <1>3, <1>7, <1>8, LongerStream
<1>10. session' = session
  BY <1>7 DEF receiver
<1> QED
  BY <1>5, <1>6, <1>9, <1>10

\* Losing the sender's session leaves the stream as it is.
LEMMA DropSenderStep ==
    ASSUME TInv, DropSender, UNCHANGED <<sealed, missing, receiver>>
    PROVE  TInv'
<1> USE DEF TInv
<1>1. SenderTypeOK'
  <2>1. sender_open' \in BOOLEAN
    BY DEF DropSender
  <2>2. send_seq' = 0 /\ manager_seq' = 0 /\ sealed' = sealed /\ missing' = missing
    BY DEF DropSender
  <2> QED
    BY <2>1, <2>2, BoundsAssumption DEF SenderTypeOK
<1>2. Numbered'
  BY DEF DropSender, Numbered
<1>3. Prefix' /\ Window' /\ session' = session
  <2>1. UNCHANGED receiver /\ sealed' = sealed /\ sealed' \in Seq(Envelope)
    BY DEF SenderTypeOK
  <2>2. Len(sealed') >= Len(sealed)
    BY <2>1
  <2> QED
    BY <2>1, <2>2, LongerStream DEF receiver
<1> QED
  BY <1>1, <1>2, <1>3

--------------------------------------------------------------------------------
(***************************************************************************)
(* The receiver's steps.                                                   *)
(***************************************************************************)

\* What the sender's invariant says is untouched by a step of the receiver.
LEMMA SenderKept ==
    ASSUME TInv, UNCHANGED sender
    PROVE  SenderTypeOK' /\ Numbered'
<1>1. sender_open' = sender_open
  BY DEF sender
<1>2. UNCHANGED <<send_seq, manager_seq, sealed, missing>>
  BY DEF sender
<1>3. SenderTypeOK'
  BY <1>1, <1>2 DEF TInv, SenderTypeOK
<1>4. Numbered'
  BY <1>1, <1>2 DEF TInv, Numbered
<1> QED
  BY <1>3, <1>4

LEMMA AbortStep ==
    ASSUME TInv, Abort
    PROVE  TInv'
<1>1. SenderTypeOK' /\ Numbered'
  BY SenderKept DEF Abort
<1>2. /\ session' = "closed" /\ high' = -1 /\ delivery_next' = 0 /\ held' = {}
      /\ UNCHANGED <<sealed, delivered>>
  BY DEF Abort, sender
<1>3. Prefix'
  BY <1>2 DEF TInv, Prefix
<1>4. Window'
  <2>1. WindowOf(held, high, delivery_next)'
    BY <1>2, BoundsAssumption DEF WindowOf
  <2>2. (next \notin SeqsOf(held))'
    BY <1>2 DEF SeqsOf
  <2> QED
    BY <1>2, <2>1, <2>2 DEF Window
<1> QED
  BY <1>1, <1>2, <1>3, <1>4 DEF TInv

\* An envelope on the edge is genuine or does not open.
LEMMA EdgeEnvelope ==
    ASSUME TInv, NEW env \in OnEdge
    PROVE  /\ env \in Envelope /\ env.seq \in 0 .. MaxSeq
           /\ env.opens => env.seq + 1 \in 1 .. Len(sealed) /\ env = sealed[env.seq + 1]
<1>1. CASE env \in Garbled
  <2>1. env \in Envelope /\ ~ env.opens
    BY <1>1, GarbledAssumption
  <2> QED
    BY <2>1 DEF Envelope
<1>2. CASE env \notin Garbled
  <2>1. PICK i \in DOMAIN sealed : env = sealed[i]
    BY <1>2 DEF OnEdge
  <2>2. sealed \in Seq(Envelope) /\ Len(sealed) \in Nat /\ i \in 1 .. Len(sealed)
    BY <2>1 DEF TInv, SenderTypeOK
  <2>3. env.seq = i - 1 /\ env \in Envelope
    BY <2>1, <2>2 DEF TInv, Numbered
  <2>4. env.seq \in 0 .. MaxSeq
    BY <2>3 DEF Envelope
  <2> QED
    BY <2>1, <2>2, <2>3, <2>4
<1> QED
  BY <1>1, <1>2

\* Adding to the window an envelope at a free place keeps it in order.
LEMMA Added ==
    ASSUME TInv, NEW env \in OnEdge, env.seq > high, env.seq \notin SeqsOf(held),
           env.seq < MaxSeq
    PROVE  WindowOf(held \cup {env}, high, delivery_next)
<1> DEFINE more == held \cup {env}
<1>1. WindowOf(held, high, delivery_next)
  BY DEF TInv, Window
<1>2. /\ env \in Envelope /\ env.seq \in 0 .. MaxSeq
      /\ env.opens => env.seq + 1 \in 1 .. Len(sealed) /\ env = sealed[env.seq + 1]
  BY EdgeEnvelope
<1>3. high \in -1 .. MaxSeq - 1 /\ delivery_next \in 0 .. high + 1
  BY <1>1 DEF WindowOf
<1>4. more \subseteq Envelope
  BY <1>1, <1>2 DEF WindowOf
<1>5. \A e \in more : delivery_next <= e.seq /\ e.seq < MaxSeq
  BY <1>1, <1>2, <1>3, BoundsAssumption DEF WindowOf
<1>6. \A e, f \in more : e.seq = f.seq => e = f
  BY <1>1 DEF WindowOf, SeqsOf
<1>7. \A e \in more :
         e.opens => e.seq + 1 \in 1 .. Len(sealed) /\ e = sealed[e.seq + 1]
  BY <1>1, <1>2 DEF WindowOf
<1>8. \A n \in delivery_next .. high : \E e \in more : e.seq = n /\ e.opens
  BY <1>1 DEF WindowOf
<1> QED
  BY <1>3, <1>4, <1>5, <1>6, <1>7, <1>8 DEF WindowOf

LEMMA HoldStep ==
    ASSUME TInv, NEW env \in OnEdge, session # "closed",
           env.seq > next, env.seq \notin SeqsOf(held), env.seq < MaxSeq, Hold(env)
    PROVE  TInv'
<1>1. SenderTypeOK' /\ Numbered'
  BY SenderKept DEF Hold
<1>2. /\ UNCHANGED <<session, high, delivery_next, delivered, sealed>>
      /\ held' = held \cup {env}
  BY DEF Hold, sender
<1>3. high \in -1 .. MaxSeq - 1 /\ env.seq \in 0 .. MaxSeq
  BY EdgeEnvelope DEF TInv, Window, WindowOf
<1>4. env.seq > high
  BY <1>3, BoundsAssumption DEF next
<1>5. WindowOf(held, high, delivery_next)'
  BY <1>2, <1>4, Added DEF WindowOf
<1>6. (next \notin SeqsOf(held))'
  BY <1>2, <1>3, BoundsAssumption DEF next, SeqsOf, TInv, Window
<1>7. Prefix'
  BY <1>2 DEF TInv, Prefix
<1>8. Window'
  BY <1>2, <1>5, <1>6 DEF TInv, Window
<1> QED
  BY <1>1, <1>2, <1>7, <1>8 DEF TInv

\* What is in order up to `from` and opens up to `top` is in order up to `top`,
\* the envelope that did not open aside, and the slot after it is free.
LEMMA OpenedWindow ==
    ASSUME NEW more, NEW from, NEW top \in from .. MaxSeq,
           WindowOf(more, from, delivery_next), OpensUpTo(more, from, top)
    PROVE  LET kept == {env \in more : env.seq # top + 1}
           IN  WindowOf(kept, top, delivery_next) /\ top + 1 \notin SeqsOf(kept)
<1> DEFINE kept == {env \in more : env.seq # top + 1}
<1>1. from \in -1 .. MaxSeq - 1 /\ delivery_next \in 0 .. from + 1 /\ top \in Int
  BY BoundsAssumption DEF WindowOf
<1>2. \A n \in from + 1 .. top : \E e \in more : e.seq = n /\ e.opens
  BY DEF OpensUpTo
<1>3. \A e \in more : e.seq \in Int /\ delivery_next <= e.seq /\ e.seq < MaxSeq
  BY BoundsAssumption DEF WindowOf, Envelope
<1>4. top \in -1 .. MaxSeq - 1
  <2>1. CASE top = from
    BY <1>1, <2>1
  <2>2. CASE top # from
    <3>1. top \in from + 1 .. top
      BY <1>1, <2>2
    <3> QED
      BY <1>1, <1>2, <1>3, <3>1, BoundsAssumption
  <2> QED
    BY <2>1, <2>2
<1>5. ASSUME NEW n \in delivery_next .. top
      PROVE  \E e \in kept : e.seq = n /\ e.opens
  <2>1. \E e \in more : e.seq = n /\ e.opens
    <3>1. CASE n \in from + 1 .. top
      BY <1>2, <3>1
    <3>2. CASE n \in delivery_next .. from
      BY <3>2 DEF WindowOf
    <3> QED
      BY <1>1, <3>1, <3>2
  <2> QED
    BY <1>1, <2>1
<1>6. delivery_next \in 0 .. top + 1
  BY <1>1
<1>7. WindowOf(kept, top, delivery_next)
  BY <1>4, <1>5, <1>6 DEF WindowOf
<1>8. top + 1 \notin SeqsOf(kept)
  BY DEF SeqsOf
<1> QED
  BY <1>7, <1>8

\* The envelope found at an accepted place is the one that was sealed for it.
LEMMA Genuine ==
    ASSUME NEW kept, NEW h, WindowOf(kept, h, delivery_next),
           NEW n \in delivery_next .. h
    PROVE  At(kept, n) \in Envelope /\ n + 1 \in 1 .. Len(sealed) /\ At(kept, n) = sealed[n + 1]
<1>1. PICK e \in kept : e.seq = n /\ e.opens
  BY DEF WindowOf
<1>2. At(kept, n) \in kept /\ At(kept, n).seq = n
  BY <1>1 DEF At
<1>3. At(kept, n) = e
  BY <1>1, <1>2 DEF WindowOf
<1> QED
  BY <1>1, <1>3 DEF WindowOf

\* A function on 1 .. n is a sequence of that length.
LEMMA FunctionIsSeq ==
    ASSUME NEW S, NEW n \in Nat, NEW f \in [1 .. n -> S]
    PROVE  f \in Seq(S) /\ Len(f) = n
OBVIOUS

\* The batch a report hands out continues the prefix.
LEMMA Batch ==
    ASSUME TInv, session # "closed", NEW kept, NEW h, WindowOf(kept, h, delivery_next),
           NEW last \in delivery_next - 1 .. h
    PROVE  /\ delivered \o Report(kept, last) \in Seq(Envelope)
           /\ Len(delivered \o Report(kept, last)) = last + 1 /\ last + 1 <= Len(sealed)
           /\ \A i \in 1 .. last + 1 : (delivered \o Report(kept, last))[i] = sealed[i]
<1> DEFINE batch == Report(kept, last)
<1> DEFINE size == last + 1 - delivery_next
<1>1. /\ delivery_next \in Nat /\ h \in Int /\ last \in Int /\ size \in Nat
      /\ Len(delivered) = delivery_next /\ delivered \in Seq(Envelope)
      /\ Len(sealed) \in Nat /\ Len(delivered) <= Len(sealed)
  <2>1. /\ delivery_next \in Nat /\ Len(delivered) = delivery_next
        /\ delivered \in Seq(Envelope)
        /\ Len(sealed) \in Nat /\ Len(delivered) <= Len(sealed)
    BY BoundsAssumption DEF TInv, SenderTypeOK, Prefix, Window
  <2>2. h \in Int
    BY <2>1, BoundsAssumption DEF WindowOf
  <2>3. last \in Int /\ delivery_next - 1 <= last
    BY <2>1, <2>2
  <2>4. last + 1 - delivery_next \in Nat
    BY <2>1, <2>3
  <2> QED
    BY <2>1, <2>2, <2>3, <2>4
<1>2. \A i \in 1 .. size : At(kept, delivery_next + i - 1) \in Envelope
                          /\ delivery_next + i <= Len(sealed)
                          /\ At(kept, delivery_next + i - 1) = sealed[delivery_next + i]
  <2> SUFFICES ASSUME NEW i \in 1 .. size
               PROVE  /\ At(kept, delivery_next + i - 1) \in Envelope
                      /\ delivery_next + i <= Len(sealed)
                      /\ At(kept, delivery_next + i - 1) = sealed[delivery_next + i]
    OBVIOUS
  <2> DEFINE n == delivery_next + i - 1
  <2>1. n \in delivery_next .. h /\ n + 1 = delivery_next + i
    BY <1>1
  <2>2. At(kept, n) \in Envelope /\ n + 1 \in 1 .. Len(sealed) /\ At(kept, n) = sealed[n + 1]
    BY <2>1, Genuine
  <2> QED
    BY <1>1, <2>1, <2>2
<1>3. batch \in Seq(Envelope) /\ Len(batch) = size
      /\ \A i \in 1 .. size : batch[i] = At(kept, delivery_next + i - 1)
  <2>1. batch \in [1 .. size -> Envelope]
    BY <1>2 DEF Report
  <2>2. batch \in Seq(Envelope) /\ Len(batch) = size
    <3> HIDE DEF size
    <3> QED
      BY <1>1, <2>1, FunctionIsSeq
  <2> QED
    BY <2>2 DEF Report
<1>4. /\ delivered \o Report(kept, last) \in Seq(Envelope)
      /\ Len(delivered \o Report(kept, last)) = delivery_next + size
      /\ \A i \in 1 .. delivery_next + size :
            (delivered \o Report(kept, last))[i] =
                IF i <= delivery_next THEN delivered[i] ELSE batch[i - delivery_next]
  BY <1>1, <1>3, ConcatProperties
<1>5. delivery_next + size = last + 1
  BY <1>1
<1>6. last + 1 <= Len(sealed)
  <2>1. CASE size = 0
    BY <1>1, <2>1
  <2>2. CASE size # 0
    <3>1. size \in 1 .. size
      BY <1>1, <2>2
    <3> QED
      BY <1>2, <1>5, <3>1
  <2> QED
    BY <2>1, <2>2
<1>7. ASSUME NEW i \in 1 .. last + 1
      PROVE  (delivered \o Report(kept, last))[i] = sealed[i]
  <2>1. CASE i <= delivery_next
    <3>1. (delivered \o Report(kept, last))[i] = delivered[i] /\ i \in 1 .. Len(delivered)
      BY <1>1, <1>4, <1>5, <2>1
    <3> QED
      BY <3>1 DEF TInv, Prefix
  <2>2. CASE ~ (i <= delivery_next)
    <3>1. i - delivery_next \in 1 .. size
      BY <1>1, <2>2
    <3>2. (delivered \o Report(kept, last))[i] = batch[i - delivery_next]
      BY <1>4, <1>5, <2>2
    <3>3. batch[i - delivery_next] = sealed[delivery_next + (i - delivery_next)]
      BY <1>2, <1>3, <3>1
    <3>4. delivery_next + (i - delivery_next) = i
      BY <1>1
    <3> QED
      BY <3>2, <3>3, <3>4
  <2> QED
    BY <2>1, <2>2
<1> QED
  BY <1>4, <1>5, <1>6, <1>7

\* What a report that is not an abort does: the stream it has handed out can only
\* grow, out of envelopes the view does not contradict.
Advance(more, view) ==
    /\ UNCHANGED sender /\ session # "closed" /\ session' # "closed"
    /\ held' \subseteq more
    /\ Len(delivered') >= Len(delivered)
    /\ \A e \in held' : e.seq <= high' => ~ Contradicts(view, e.contract)
    /\ \A i \in DOMAIN delivered' \ DOMAIN delivered :
          ~ Contradicts(view, delivered'[i].contract)

LEMMA DrainStep ==
    ASSUME TInv, session # "closed", NEW more, NEW from, NEW view,
           WindowOf(more, from, delivery_next), Drain(more, from, view)
    PROVE  TInv' /\ (Abort \/ Advance(more, view))
<1>1. PICK top \in from .. MaxSeq :
         LET kept   == {env \in more : env.seq # top + 1}
             opened == {env \in kept : env.seq <= top}
         IN  /\ OpensUpTo(more, from, top)
             /\ \/ AnyContradicts(view, opened) /\ Abort
                \/ /\ ~ AnyContradicts(view, opened)
                   /\ \E last \in delivery_next - 1 .. top :
                         /\ DeliversUpTo(kept, top, view, last)
                         /\ delivery_next' = last + 1
                         /\ held' = {env \in kept : env.seq > last}
                         /\ delivered' = delivered \o Report(kept, last)
                   /\ high' = top
                   /\ session' = IF top > high THEN "Established" ELSE session
                   /\ UNCHANGED sender
  BY DEF Drain
<1> DEFINE kept == {env \in more : env.seq # top + 1}
<1>2. CASE Abort
  BY <1>2, AbortStep
<1>3. CASE ~ Abort
  <2>0. \A env \in kept : env.seq <= top => ~ Contradicts(view, env.contract)
    BY <1>1, <1>3 DEF AnyContradicts
  <2>1. PICK last \in delivery_next - 1 .. top :
           /\ delivery_next' = last + 1
           /\ held' = {env \in kept : env.seq > last}
           /\ delivered' = delivered \o Report(kept, last)
    BY <1>1, <1>3
  <2>2. /\ high' = top
        /\ session' = IF top > high THEN "Established" ELSE session
        /\ UNCHANGED sender
    BY <1>1, <1>3
  <2>3. WindowOf(kept, top, delivery_next) /\ top + 1 \notin SeqsOf(kept)
    BY <1>1, OpenedWindow
  <2>4. /\ delivered' \in Seq(Envelope)
        /\ Len(delivered') = last + 1 /\ last + 1 <= Len(sealed)
        /\ \A i \in 1 .. last + 1 : delivered'[i] = sealed[i]
    <3> HIDE DEF kept
    <3> QED
      BY <2>1, <2>3, Batch
  <2>5. SenderTypeOK' /\ Numbered' /\ sealed' = sealed
    BY <2>2, SenderKept DEF sender
  <2>6. session' \in {"AckSent", "Established"}
    BY <2>2 DEF TInv
  <2>7. Prefix'
    BY <2>4, <2>5 DEF Prefix
  <2>8. WindowOf(held, high, delivery_next)'
    <3>1. top \in -1 .. MaxSeq - 1 /\ delivery_next \in 0 .. top + 1
          /\ MaxSeq \in Nat /\ last \in Int
      BY <2>3, BoundsAssumption DEF WindowOf
    <3>2. held' \subseteq kept /\ \A e \in kept : e.seq > last => e \in held'
      BY <2>1
    <3>3. \A e \in held' : e.seq \in Int /\ e.seq > last /\ e.seq < MaxSeq
      BY <2>1, <2>3, BoundsAssumption DEF WindowOf, Envelope
    <3>4. delivery_next' \in 0 .. high' + 1
      BY <2>1, <2>2, <3>1
    <3>5. ASSUME NEW n \in delivery_next' .. high'
          PROVE  \E e \in held' : e.seq = n /\ e.opens
      <4>1. n \in delivery_next .. top /\ n > last
        BY <2>1, <2>2, <3>1
      <4> QED
        BY <2>3, <3>2, <4>1 DEF WindowOf
    <3>6. \A e \in held' : delivery_next' <= e.seq
      BY <2>1, <3>1, <3>3
    <3> HIDE DEF kept
    <3> QED
      BY <2>2, <2>3, <2>5, <3>1, <3>2, <3>3, <3>4, <3>5, <3>6 DEF WindowOf
  <2>9. (next \notin SeqsOf(held))'
    BY <2>1, <2>2, <2>3 DEF next, SeqsOf
  <2>10. Window'
    BY <2>1, <2>4, <2>6, <2>8, <2>9 DEF Window
  <2>11. ASSUME NEW i \in DOMAIN delivered' \ DOMAIN delivered
         PROVE  ~ Contradicts(view, delivered'[i].contract)
    <3>1. /\ Len(delivered) = delivery_next /\ delivered \in Seq(Envelope)
          /\ delivery_next \in Nat /\ last \in Int /\ top \in Int
      BY <2>3, BoundsAssumption DEF TInv, Prefix, Window, WindowOf
    <3>2. i \in delivery_next + 1 .. last + 1
      BY <2>4, <3>1
    <3>3. i - 1 \in delivery_next .. top /\ (i - 1) + 1 = i
      BY <3>1, <3>2
    <3>4. PICK e \in kept : e.seq = i - 1 /\ e = sealed[i]
      <4>1. PICK e \in kept : e.seq = i - 1 /\ e.opens
        BY <2>3, <3>3 DEF WindowOf
      <4>2. e = sealed[e.seq + 1]
        BY <2>3, <4>1 DEF WindowOf
      <4> QED
        BY <3>3, <4>1, <4>2
    <3>5. ~ Contradicts(view, e.contract)
      BY <2>0, <3>3, <3>4
    <3>6. delivered'[i] = e
      BY <2>4, <3>1, <3>2, <3>4
    <3> QED
      BY <3>5, <3>6
  <2>12. Advance(more, view)
    <3>1. Len(delivered') >= Len(delivered) /\ held' \subseteq kept /\ kept \subseteq more
      BY <2>1, <2>3, <2>4, BoundsAssumption DEF TInv, Window, WindowOf
    <3>2. \A e \in held' : e.seq <= high' => ~ Contradicts(view, e.contract)
      BY <2>0, <2>2, <3>1
    <3>3. session' # "closed"
      BY <2>6
    <3> HIDE DEF kept
    <3> QED
      BY <2>2, <2>11, <3>1, <3>2, <3>3 DEF Advance
  <2> QED
    BY <2>5, <2>6, <2>7, <2>10, <2>12 DEF TInv
<1> QED
  BY <1>2, <1>3

LEMMA ReceiveStep ==
    ASSUME TInv, NEW env \in OnEdge, NEW view, Receive(env, view)
    PROVE  /\ TInv'
           /\ \/ Abort \/ Hold(env)
              \/ Advance(held \cup {env}, view) /\ ~ QueueFull
<1>1. session # "closed" /\ env.seq > high /\ env.seq \notin SeqsOf(held)
  BY DEF Receive
<1>2. CASE Abort
  BY <1>2, AbortStep
<1>3. CASE env.seq < MaxSeq /\ env.seq > next /\ Hold(env)
  BY <1>1, <1>3, HoldStep
<1>4. CASE env.seq < MaxSeq /\ env.seq = next /\ env.opens
           /\ Drain(held \cup {env}, env.seq, view) /\ ~ QueueFull
  <2> DEFINE more == held \cup {env}
  <2>1. WindowOf(more, high, delivery_next)
    BY <1>1, <1>4, Added
  <2>2. env.seq = high + 1 /\ high \in -1 .. MaxSeq - 1 /\ delivery_next \in 0 .. high + 1
    BY <1>4, <2>1 DEF next, WindowOf
  <2>3. env.seq \in -1 .. MaxSeq - 1 /\ delivery_next \in 0 .. env.seq + 1
    BY <1>4, <2>2, BoundsAssumption
  <2>4. \A n \in delivery_next .. env.seq : \E e \in more : e.seq = n /\ e.opens
    <3> SUFFICES ASSUME NEW n \in delivery_next .. env.seq
                 PROVE  \E e \in more : e.seq = n /\ e.opens
      OBVIOUS
    <3>1. CASE n = env.seq
      BY <1>4, <3>1
    <3>2. CASE n # env.seq
      BY <2>1, <2>2, <3>2, BoundsAssumption DEF WindowOf
    <3> QED
      BY <3>1, <3>2
  <2>5. WindowOf(more, env.seq, delivery_next)
    BY <2>1, <2>3, <2>4 DEF WindowOf
  <2>6. TInv' /\ (Abort \/ Advance(more, view))
    BY <1>1, <1>4, <2>5, DrainStep
  <2> QED
    BY <1>4, <2>6
<1> QED
  BY <1>2, <1>3, <1>4 DEF Receive, ReceiveAhead, ReceiveNext

LEMMA ObserveStep ==
    ASSUME TInv, NEW view, Observe(view)
    PROVE  TInv' /\ (Abort \/ Advance(held, view))
<1>1. WindowOf(held, high, delivery_next)
  BY DEF TInv, Window
<1> QED
  BY <1>1, DrainStep DEF Observe

--------------------------------------------------------------------------------
(***************************************************************************)
(* The invariant, and what it gives.                                       *)
(***************************************************************************)
LEMMA InitInv == Init => TInv
<1> SUFFICES ASSUME Init PROVE TInv
  OBVIOUS
<1>1. /\ send_seq = 0 /\ manager_seq = 0 /\ sealed = <<>> /\ Len(sealed) = 0
      /\ high = -1 /\ delivery_next = 0 /\ held = {}
      /\ delivered = <<>> /\ Len(delivered) = 0
      /\ session \in {"AckSent", "Established"}
  BY DEF Init
<1>2. sender_open \in BOOLEAN /\ missing = {}
  BY DEF Init
<1>3. SenderTypeOK
  BY <1>1, <1>2, BoundsAssumption DEF SenderTypeOK
<1>4. Numbered /\ Prefix
  BY <1>1, BoundsAssumption DEF Numbered, Prefix
<1>5. WindowOf(held, high, delivery_next)
  BY <1>1, BoundsAssumption DEF WindowOf
<1>6. Window
  BY <1>1, <1>5 DEF Window, SeqsOf
<1> QED
  BY <1>1, <1>3, <1>4, <1>6 DEF TInv

LEMMA NextInv == TInv /\ [Next]_vars => TInv'
<1> SUFFICES ASSUME TInv, [Next]_vars PROVE TInv'
  OBVIOUS
<1>1. ASSUME NEW contract \in Bindings, NEW view \in Views,
             Seal(contract, view) \/ SealFails(contract, view) \/ SealRefused(contract, view)
      PROVE  TInv'
  <2>1. CASE Seal(contract, view)
    BY <2>1, SealStep
  <2>2. CASE SealFails(contract, view)
    BY <2>2, DropSenderStep DEF SealFails
  <2>3. CASE SealRefused(contract, view)
    BY <2>3, DropSenderStep DEF SealRefused
  <2> QED
    BY <1>1, <2>1, <2>2, <2>3
<1>2. CASE CloseSender
  BY <1>2, DropSenderStep DEF CloseSender
<1>3. ASSUME NEW env \in OnEdge, NEW view \in Views, Receive(env, view)
      PROVE  TInv'
  BY <1>3, ReceiveStep
<1>4. ASSUME NEW view \in Views, Observe(view)
      PROVE  TInv'
  BY <1>4, ObserveStep
<1>5. CASE CloseReceiver
  BY <1>5, AbortStep DEF CloseReceiver
<1>6. CASE UNCHANGED vars
  <2>1. UNCHANGED sender /\ UNCHANGED receiver
    BY <1>6 DEF vars
  <2>2. SenderTypeOK' /\ Numbered'
    BY <2>1, SenderKept
  <2>3. sealed' = sealed /\ session' = session
    BY <2>1 DEF sender, receiver
  <2>4. Len(sealed) \in Nat /\ sealed \in Seq(Envelope)
    BY DEF TInv, SenderTypeOK
  <2>5. Prefix' /\ Window'
    BY <2>1, <2>3, <2>4, LongerStream DEF TInv
  <2> QED
    BY <2>2, <2>3, <2>5 DEF TInv
<1> QED
  BY <1>1, <1>2, <1>3, <1>4, <1>5, <1>6 DEF Next

THEOREM TransportInvariant == Spec => []TInv
BY InitInv, NextInv, PTL DEF Spec

\* The counters, the window and both records keep the types of the source.
THEOREM TransportTypes == Spec => []TypeOK
<1>1. TInv => TypeOK
  <2> SUFFICES ASSUME TInv PROVE TypeOK
    OBVIOUS
  <2>1. held \subseteq Envelope /\ high \in -1 .. MaxSeq - 1 /\ delivery_next \in 0 .. high + 1
    BY DEF TInv, Window, WindowOf
  <2>2. high \in -1 .. MaxSeq /\ delivery_next \in 0 .. MaxSeq + 1
    BY <2>1, BoundsAssumption
  <2> QED
    BY <2>1, <2>2 DEF TInv, SenderTypeOK, Prefix, TypeOK
<1> QED
  BY <1>1, TransportInvariant, PTL

\* Failed seals, refusals and re-opened windows never bring a nonce back.
THEOREM NoncesUnique == Spec => []NonceNeverReused
<1>1. TInv => NonceNeverReused
  <2> SUFFICES ASSUME TInv PROVE NonceNeverReused
    OBVIOUS
  <2>1. DOMAIN sealed = 1 .. Len(sealed) /\ Len(sealed) \in Nat
    BY DEF TInv, SenderTypeOK
  <2>2. \A i \in DOMAIN sealed : sealed[i].seq = i - 1
    BY <2>1 DEF TInv, Numbered
  <2>3. \A i, j \in DOMAIN sealed : sealed[i].seq = sealed[j].seq => i = j
    BY <2>1, <2>2
  <2>4. sender_open => send_seq = manager_seq /\ send_seq = Len(sealed)
    BY DEF TInv, Numbered
  <2> QED
    BY <2>3, <2>4 DEF NonceNeverReused
<1> QED
  BY <1>1, TransportInvariant, PTL

\* Exactly once and in order, whatever the edge does.
THEOREM InOrder == Spec => []DeliveredIsPrefix
<1>1. TInv => DeliveredIsPrefix
  <2> SUFFICES ASSUME TInv PROVE DeliveredIsPrefix
    OBVIOUS
  <2>1. DOMAIN delivered = 1 .. Len(delivered)
    BY DEF TInv, Prefix
  <2> QED
    BY <2>1 DEF TInv, Prefix, Window, DeliveredIsPrefix
<1> QED
  BY <1>1, TransportInvariant, PTL

\* Nothing accepted is lost before it is handed out.
THEOREM NothingLost == Spec => []AcceptedIsHeld
<1>1. TInv => AcceptedIsHeld
  <2> SUFFICES ASSUME TInv PROVE AcceptedIsHeld
    OBVIOUS
  <2>1. WindowOf(held, high, delivery_next) /\ delivery_next <= next
    BY BoundsAssumption DEF TInv, Window, WindowOf, next
  <2>2. \A env \in held : env.seq >= delivery_next /\ env.seq < MaxSeq
    BY <2>1, BoundsAssumption DEF WindowOf, Envelope
  <2> QED
    BY <2>1, <2>2 DEF WindowOf, AcceptedIsHeld
<1> QED
  BY <1>1, TransportInvariant, PTL

--------------------------------------------------------------------------------
(***************************************************************************)
(* The bound of the queue.                                                 *)
(***************************************************************************)
Bounded == IsFiniteSet(held) /\ Cardinality(held) <= HoldLimit

LEMMA OneMore ==
    ASSUME NEW S, NEW x, IsFiniteSet(S), ~ (Cardinality(S) >= HoldLimit),
           NEW T \in SUBSET (S \cup {x})
    PROVE  IsFiniteSet(T) /\ Cardinality(T) <= HoldLimit
<1>1. /\ IsFiniteSet(S \cup {x}) /\ Cardinality(S) \in Nat
      /\ Cardinality(S \cup {x}) = Cardinality(S) \/ Cardinality(S \cup {x}) = Cardinality(S) + 1
  BY FS_AddElement, FS_CardinalityType
<1>2. /\ IsFiniteSet(T) /\ Cardinality(T) <= Cardinality(S \cup {x})
      /\ Cardinality(T) \in Nat
  BY <1>1, FS_Subset, FS_CardinalityType
<1> QED
  BY <1>1, <1>2, BoundsAssumption

LEMMA NotMore ==
    ASSUME NEW S, IsFiniteSet(S), Cardinality(S) <= HoldLimit, NEW T \in SUBSET S
    PROVE  IsFiniteSet(T) /\ Cardinality(T) <= HoldLimit
<1>1. /\ IsFiniteSet(T) /\ Cardinality(T) <= Cardinality(S)
      /\ Cardinality(T) \in Nat /\ Cardinality(S) \in Nat
  BY FS_Subset, FS_CardinalityType
<1> QED
  BY <1>1, BoundsAssumption

\* What a call on the receiver may do to the queue.
LEMMA QueueStep ==
    TInv /\ [Next]_vars =>
        \/ held' \in SUBSET held
        \/ ~ QueueFull /\ \E env \in OnEdge : held' \in SUBSET (held \cup {env})
<1> SUFFICES ASSUME TInv, [Next]_vars
             PROVE  \/ held' \in SUBSET held
                    \/ /\ ~ QueueFull
                       /\ \E env \in OnEdge : held' \in SUBSET (held \cup {env})
  OBVIOUS
<1>1. ASSUME UNCHANGED receiver \/ Abort PROVE held' \in SUBSET held
  BY <1>1 DEF receiver, Abort
<1>2. ASSUME NEW env \in OnEdge, NEW view \in Views, Receive(env, view), ~ Abort
      PROVE  ~ QueueFull /\ held' \in SUBSET (held \cup {env})
  <2>1. Hold(env) \/ Advance(held \cup {env}, view)
    BY <1>2, ReceiveStep
  <2>2. held' \in SUBSET (held \cup {env})
    BY <2>1 DEF Hold, Advance
  <2>3. ~ QueueFull
    BY <1>2 DEF Receive, ReceiveAhead, ReceiveNext
  <2> QED
    BY <2>2, <2>3
<1>3. ASSUME NEW view \in Views, Observe(view), ~ Abort
      PROVE  held' \in SUBSET held
  BY <1>3, ObserveStep DEF Advance
<1>4. ASSUME NEW contract \in Bindings, NEW view \in Views,
             Seal(contract, view) \/ SealFails(contract, view) \/ SealRefused(contract, view)
      PROVE  UNCHANGED receiver
  BY <1>4 DEF Seal, SealFails, SealRefused
<1>5. CASE CloseSender
  BY <1>1, <1>5 DEF CloseSender
<1>6. CASE UNCHANGED vars
  BY <1>1, <1>6 DEF vars
<1> QED
  BY <1>1, <1>2, <1>3, <1>4, <1>5, <1>6 DEF Next, CloseReceiver

\* The queue shared by gaps and postponed contracts never exceeds its limit.
THEOREM Queue == Spec => []QueueBounded
<1>1. Init => Bounded
  BY FS_EmptySet, BoundsAssumption DEF Init, Bounded
<1>2. TInv /\ Bounded /\ [Next]_vars => Bounded'
  <2> SUFFICES ASSUME TInv, Bounded, [Next]_vars PROVE Bounded'
    OBVIOUS
  <2>1. CASE held' \in SUBSET held
    BY <2>1, NotMore DEF Bounded
  <2>2. CASE ~ QueueFull
             /\ \E env \in OnEdge : held' \in SUBSET (held \cup {env})
    BY <2>2, OneMore DEF Bounded, QueueFull
  <2> QED
    BY <2>1, <2>2, QueueStep
<1>3. TInv /\ Bounded => QueueBounded
  BY DEF TInv, Window, Bounded, QueueBounded
<1> QED
  BY <1>1, <1>2, <1>3, TransportInvariant, PTL DEF Spec

--------------------------------------------------------------------------------
(***************************************************************************)
(* Action properties: what a report may hand out, and the refinement.      *)
(***************************************************************************)
LEMMA ReportStep ==
    ASSUME TInv, NEW view \in Views,
           Observe(view) \/ \E env \in OnEdge : Receive(env, view),
           delivered' # delivered
    PROVE  \A env \in held' \cup {delivered'[i] : i \in DOMAIN delivered' \ DOMAIN delivered} :
               env.seq <= high' => ~ Contradicts(view, env.contract)
<1>1. \E more : Advance(more, view)
  <2>1. ~ Abort /\ \A env : ~ Hold(env)
    BY DEF Abort, Hold
  <2>2. CASE Observe(view)
    BY <2>1, <2>2, ObserveStep
  <2>3. CASE \E env \in OnEdge : Receive(env, view)
    BY <2>1, <2>3, ReceiveStep
  <2> QED
    BY <2>2, <2>3
<1> QED
  BY <1>1 DEF Advance

\* No report hands out plaintext while anything opened contradicts the view.
THEOREM FailsClosed == Spec => NothingDeliveredOverContradiction
<1>1. TInv /\ [Next]_vars =>
        [\A view \in Views :
           /\ Observe(view) \/ \E env \in OnEdge : Receive(env, view)
           /\ delivered' # delivered
           => \A env \in held' \cup {delivered'[i] : i \in DOMAIN delivered'
                                                     \ DOMAIN delivered} :
                 env.seq <= high' => ~ Contradicts(view, env.contract)]_vars
  BY ReportStep
<1> QED
  BY <1>1, TransportInvariant, PTL DEF Spec, NothingDeliveredOverContradiction

\* A prefix handed out is the part of the stream the abstract channel hands out.
LEMMA PrefixIsSubSeq ==
    ASSUME NEW S, NEW s \in Seq(S), NEW d \in Seq(S), Len(d) <= Len(s),
           \A i \in 1 .. Len(d) : d[i] = s[i]
    PROVE  d = SubSeq(s, 1, Len(d))
<1>1. Len(d) \in Nat /\ Len(s) \in Nat
  OBVIOUS
<1>2. /\ SubSeq(s, 1, Len(d)) \in Seq(S) /\ Len(SubSeq(s, 1, Len(d))) = Len(d)
      /\ \A i \in 1 .. Len(d) : SubSeq(s, 1, Len(d))[i] = s[i]
  BY <1>1
<1> QED
  BY <1>2, SeqEqual

LEMMA AdvanceDelivers ==
    ASSUME TInv, TInv', NEW more, NEW view, Advance(more, view)
    PROVE  \E n \in Len(delivered) .. Len(sealed) : Channel!Deliver(n)
<1> DEFINE n == Len(delivered')
<1>1. UNCHANGED <<sealed, sender_open>> /\ Len(delivered') >= Len(delivered)
  BY DEF Advance, sender
<1>2. /\ sealed \in Seq(Envelope) /\ delivered' \in Seq(Envelope) /\ Len(delivered) \in Nat
      /\ n \in Nat /\ Len(sealed) \in Nat /\ n <= Len(sealed)
      /\ \A i \in 1 .. n : delivered'[i] = sealed[i]
  BY <1>1 DEF TInv, SenderTypeOK, Prefix
<1>3. delivered' = SubSeq(sealed, 1, n)
  BY <1>2, PrefixIsSubSeq
<1>4. n \in Len(delivered) .. Len(sealed)
  BY <1>1, <1>2
<1>5. (session # "closed") /\ (session # "closed")' = (session # "closed")
  BY DEF Advance
<1>6. Channel!Deliver(n)
  <2> HIDE DEF n
  <2> QED
    BY <1>1, <1>3, <1>4, <1>5 DEF Channel!Deliver
<1> QED
  BY <1>4, <1>6

LEMMA AbortCloses == ASSUME Abort PROVE Channel!CloseReceiver
<1>1. (session # "closed")' = FALSE
  BY DEF Abort
<1>2. UNCHANGED sealed /\ UNCHANGED delivered /\ UNCHANGED sender_open
  BY DEF Abort, sender
<1> QED
  BY <1>1, <1>2 DEF Channel!CloseReceiver

LEMMA DropCloses ==
    ASSUME DropSender, UNCHANGED <<sealed, receiver>> PROVE Channel!CloseSender
<1>1. (session # "closed")' = (session # "closed")
  BY DEF receiver
<1>2. sender_open' = FALSE /\ UNCHANGED sealed /\ UNCHANGED delivered
  BY DEF DropSender, receiver
<1> QED
  BY <1>1, <1>2 DEF Channel!CloseSender

LEMMA SealSends ==
    ASSUME TInv, NEW contract \in Bindings, NEW view, Seal(contract, view)
    PROVE  Channel!Next
<1>1. NextSealed(contract) \in Envelope
  BY BoundsAssumption DEF TInv, SenderTypeOK, Numbered, Seal, NextSealed, Envelope
<1>2. (session # "closed")' = (session # "closed")
  BY DEF Seal, receiver
<1>3. /\ sealed' = Append(sealed, NextSealed(contract)) /\ UNCHANGED delivered
      /\ UNCHANGED sender_open
  BY DEF Seal, receiver
<1>4. sender_open /\ sender_open' \in BOOLEAN
  BY <1>3 DEF Seal
<1>5. Channel!Send(NextSealed(contract))
  BY <1>2, <1>3, <1>4 DEF Channel!Send
<1> QED
  BY <1>1, <1>5 DEF Channel!Next

LEMMA QuietChannel ==
    ASSUME UNCHANGED sealed, UNCHANGED delivered, UNCHANGED sender_open,
           (session # "closed")' = (session # "closed")
    PROVE  UNCHANGED Channel!vars
BY DEF Channel!vars

LEMMA ChannelStep ==
    TInv /\ TInv' /\ [Next]_vars => [Channel!Next]_(Channel!vars)
<1> SUFFICES ASSUME TInv, TInv', [Next]_vars
             PROVE  Channel!Next \/ UNCHANGED Channel!vars
  OBVIOUS
<1>1. ASSUME NEW contract \in Bindings, NEW view \in Views,
             Seal(contract, view) \/ SealFails(contract, view) \/ SealRefused(contract, view)
      PROVE  Channel!Next
  <2>1. CASE Seal(contract, view)
    BY <2>1, SealSends
  <2>2. CASE SealFails(contract, view) \/ SealRefused(contract, view)
    BY <2>2, DropCloses DEF SealFails, SealRefused, Channel!Next
  <2> QED
    BY <1>1, <2>1, <2>2
<1>2. CASE CloseSender
  BY <1>2, DropCloses DEF CloseSender, Channel!Next
<1>3. ASSUME Abort PROVE Channel!Next
  BY <1>3, AbortCloses DEF Channel!Next
<1>4. ASSUME NEW more, NEW view, Advance(more, view) PROVE Channel!Next
  BY <1>4, AdvanceDelivers DEF Channel!Next
<1>5. ASSUME NEW env, Hold(env) PROVE UNCHANGED Channel!vars
  BY <1>5, QuietChannel DEF Hold, sender
<1>6. ASSUME NEW env \in OnEdge, NEW view \in Views, Receive(env, view)
      PROVE  Channel!Next \/ UNCHANGED Channel!vars
  BY <1>3, <1>4, <1>5, <1>6, ReceiveStep
<1>7. ASSUME NEW view \in Views, Observe(view)
      PROVE  Channel!Next
  BY <1>3, <1>4, <1>7, ObserveStep
<1>8. CASE CloseReceiver
  BY <1>3, <1>8 DEF CloseReceiver
<1>9. CASE UNCHANGED vars
  BY <1>9, QuietChannel DEF vars, sender, receiver
<1> QED
  BY <1>1, <1>2, <1>6, <1>7, <1>8, <1>9 DEF Next

\* The transport keeps the channel's promise: the agent is handed a prefix of
\* what the sender sealed, in order, and nothing after the session closed.
THEOREM TransportRefinement == Spec => ImplementsChannel
<1>1. Init => Channel!Init
  <2> SUFFICES ASSUME Init PROVE Channel!Init
    OBVIOUS
  <2>1. session = "AckSent" \/ session = "Established"
    BY DEF Init
  <2>2. (session # "closed") = TRUE
    BY <2>1
  <2>3. sealed = <<>> /\ delivered = <<>>
    BY DEF Init
  <2>4. sender_open = TRUE
    BY DEF Init
  <2> QED
    BY <2>2, <2>3, <2>4 DEF Channel!Init
<1>2. TInv /\ TInv' /\ [Next]_vars => [Channel!Next]_(Channel!vars)
  BY ChannelStep
<1> QED
  BY <1>1, <1>2, TransportInvariant, PTL DEF Spec, ImplementsChannel, Channel!Spec

--------------------------------------------------------------------------------
(***************************************************************************)
(* The window goes on.  What SealedIsDelivered rests on besides fairness:  *)
(* a drain always comes to an end and to only one, accepting the missing   *)
(* envelope moves the window, and a report stops only where nothing more   *)
(* was accepted or where the view postpones what comes next.               *)
(***************************************************************************)
LEMMA LeastOf ==
    ASSUME NEW S \in SUBSET Nat, S # {}
    PROVE  \E i \in S : \A j \in S : i <= j
<1> DEFINE below == {pair \in Nat \X Nat : pair[1] < pair[2]}
<1>1. IsWellFoundedOn(below, Nat)
  BY NatLessThanWellFounded, Zenon DEF OpToRel
<1>2. PICK i \in S : \A j \in S : ~ (<<j, i>> \in below)
  BY <1>1, WFMin
<1>3. \A j \in S : ~ (j < i)
  BY <1>2
<1> QED
  BY <1>3

\* From a to b, a set of numbers has exactly one first gap.
LEMMA FirstGap ==
    ASSUME NEW S, NEW a \in Int, NEW b \in Int, a <= b
    PROVE  \E t \in a .. b :
              /\ a + 1 .. t \subseteq S /\ (t = b \/ t + 1 \notin S)
              /\ \A u \in a .. b : a + 1 .. u \subseteq S /\ (u = b \/ u + 1 \notin S) => u = t
<1> DEFINE gaps == {n \in 0 .. b - a : a + n = b \/ a + n + 1 \notin S}
<1>1. gaps \in SUBSET Nat /\ b - a \in gaps
  OBVIOUS
<1>2. PICK k \in gaps : \A n \in gaps : k <= n
  BY <1>1, LeastOf
<1> DEFINE t == a + k
<1>3. k \in 0 .. b - a /\ t \in a .. b /\ (t = b \/ t + 1 \notin S)
  OBVIOUS
<1>4. ASSUME NEW m \in a + 1 .. t PROVE m \in S
  <2>1. m - a - 1 \in 0 .. b - a /\ m - a - 1 < k /\ a + (m - a - 1) + 1 = m
    BY <1>3, <1>4
  <2>2. m - a - 1 \notin gaps
    <3>1. \A n \in gaps : ~ (n < k)
      BY <1>1, <1>2
    <3> HIDE DEF gaps
    <3> QED
      BY <2>1, <3>1
  <2> QED
    BY <2>1, <2>2
<1>5. ASSUME NEW u \in a .. b, a + 1 .. u \subseteq S, u = b \/ u + 1 \notin S
      PROVE  u = t
  <2>1. u - a \in gaps
    <3>1. u - a \in 0 .. b - a /\ a + (u - a) = u
      BY <1>5
    <3> QED
      BY <1>5, <3>1
  <2>2. t <= u
    <3>1. k <= u - a
      BY <1>2, <2>1
    <3> QED
      BY <1>3, <1>5, <3>1
  <2>3. CASE t < u
    <3>1. t + 1 \in a + 1 .. u /\ t # b
      BY <1>3, <2>3
    <3> QED
      BY <1>3, <1>5, <3>1
  <2> QED
    BY <1>3, <2>2, <2>3
<1> QED
  BY <1>3, <1>4, <1>5

\* Where a drain of these envelopes stops: the new high mark, and the last one handed out.
Stops(envelopes, from, view, top, last) ==
    /\ OpensUpTo(envelopes, from, top)
    /\ DeliversUpTo({env \in envelopes : env.seq # top + 1}, top, view, last)

\* There is exactly one such place.
OneStop(envelopes, from, view) ==
    \E top \in from .. MaxSeq : \E last \in delivery_next - 1 .. top :
        /\ Stops(envelopes, from, view, top, last)
        /\ \A t \in from .. MaxSeq : \A l \in delivery_next - 1 .. t :
              Stops(envelopes, from, view, t, l) => t = top /\ l = last

LEMMA DrainStops ==
    ASSUME NEW more, NEW from, NEW view, WindowOf(more, from, delivery_next)
    PROVE  OneStop(more, from, view)
<1> DEFINE opening == {env.seq : env \in {e \in more : e.opens}}
           kept(top) == {env \in more : env.seq # top + 1}
           permitted(top) == {env.seq : env \in {e \in kept(top) : Permits(view, e.contract)}}
<1>1. /\ from \in -1 .. MaxSeq - 1 /\ delivery_next \in 0 .. from + 1 /\ MaxSeq \in Nat
      /\ \A e \in more : e.seq \in Int /\ e.seq < MaxSeq
  BY BoundsAssumption DEF WindowOf, Envelope
<1>2. MaxSeq + 1 \notin opening
  BY <1>1
<1>3. PICK top \in from .. MaxSeq :
          /\ from + 1 .. top \subseteq opening /\ top + 1 \notin opening
          /\ \A t \in from .. MaxSeq :
                from + 1 .. t \subseteq opening /\ t + 1 \notin opening => t = top
  <2> HIDE DEF opening
  <2>1. from \in Int /\ MaxSeq \in Int /\ from <= MaxSeq
    BY <1>1
  <2>2. PICK top \in from .. MaxSeq :
          /\ from + 1 .. top \subseteq opening /\ (top = MaxSeq \/ top + 1 \notin opening)
          /\ \A u \in from .. MaxSeq :
                from + 1 .. u \subseteq opening /\ (u = MaxSeq \/ u + 1 \notin opening)
                   => u = top
    BY <2>1, FirstGap
  <2> QED
    BY <1>2, <2>2
<1>4. PICK last \in delivery_next - 1 .. top :
          /\ delivery_next .. last \subseteq permitted(top)
          /\ last = top \/ last + 1 \notin permitted(top)
          /\ \A l \in delivery_next - 1 .. top :
                /\ delivery_next .. l \subseteq permitted(top)
                /\ l = top \/ l + 1 \notin permitted(top)
                => l = last
  <2> DEFINE S == permitted(top)
             a == delivery_next - 1
  <2>1. a \in Int /\ top \in Int /\ a <= top /\ a + 1 = delivery_next
    BY <1>1
  <2> HIDE DEF S, a
  <2>2. \E l \in a .. top :
          /\ a + 1 .. l \subseteq S /\ (l = top \/ l + 1 \notin S)
          /\ \A u \in a .. top : a + 1 .. u \subseteq S /\ (u = top \/ u + 1 \notin S) => u = l
    BY <2>1, FirstGap
  <2> QED
    BY <2>1, <2>2 DEF S, a
<1>5. \A t : OpensUpTo(more, from, t)
                <=> from + 1 .. t \subseteq opening /\ t + 1 \notin opening
  BY DEF OpensUpTo
<1>6. \A l : DeliversUpTo(kept(top), top, view, l)
                <=> /\ delivery_next .. l \subseteq permitted(top)
                    /\ l = top \/ l + 1 \notin permitted(top)
  BY DEF DeliversUpTo
<1> HIDE DEF opening, permitted
<1>7. Stops(more, from, view, top, last)
  BY <1>3, <1>4, <1>5, <1>6 DEF Stops
<1>8. ASSUME NEW t \in from .. MaxSeq, NEW l \in delivery_next - 1 .. t,
             Stops(more, from, view, t, l)
      PROVE  t = top /\ l = last
  <2>1. t = top
    BY <1>3, <1>5, <1>8 DEF Stops
  <2>2. DeliversUpTo(kept(top), top, view, l)
    BY <1>8, <2>1 DEF Stops
  <2> QED
    BY <1>4, <1>6, <1>8, <2>1, <2>2
<1> QED
  BY <1>7, <1>8 DEF OneStop

\* The envelope the window waits for, come with `from` its place, makes the window to drain.
LEMMA Filled ==
    ASSUME TInv, NEW env \in OnEdge, session # "closed", env.seq = next, env.opens,
           env.seq < MaxSeq, env.seq \notin SeqsOf(held)
    PROVE  WindowOf(held \cup {env}, env.seq, delivery_next)
<1> DEFINE more == held \cup {env}
<1>1. high \in -1 .. MaxSeq - 1 /\ env.seq = high + 1
  BY DEF TInv, Window, WindowOf, next
<1>2. WindowOf(more, high, delivery_next)
  BY <1>1, Added, BoundsAssumption
<1>3. env.seq \in -1 .. MaxSeq - 1 /\ delivery_next \in 0 .. env.seq + 1
  BY <1>1, <1>2, BoundsAssumption DEF WindowOf
<1>4. ASSUME NEW n \in delivery_next .. env.seq PROVE \E e \in more : e.seq = n /\ e.opens
  <2>1. CASE n = env.seq
    BY <2>1
  <2>2. CASE n # env.seq
    <3>1. n \in delivery_next .. high
      BY <1>1, <1>3, <2>2, BoundsAssumption
    <3> QED
      BY <1>2, <3>1 DEF WindowOf
  <2> QED
    BY <2>1, <2>2
<1> QED
  BY <1>2, <1>3, <1>4 DEF WindowOf

\* A drain never wedges: whatever the guardian observes, there is one place, and
\* only one, where opening the held envelopes stops and delivery stops (the two
\* loops of SecureTransport::drain in transport.rs).
DrainIsDetermined ==
    session # "closed" => \A view \in Views :
        /\ OneStop(held, high, view)
        /\ \A env \in OnEdge :
              env.seq = next /\ env.opens /\ env.seq < MaxSeq
                 => OneStop(held \cup {env}, env.seq, view)

THEOREM DrainDetermined == Spec => []DrainIsDetermined
<1>1. TInv => DrainIsDetermined
  <2> SUFFICES ASSUME TInv, session # "closed", NEW view \in Views
               PROVE  /\ OneStop(held, high, view)
                      /\ \A env \in OnEdge :
                            env.seq = next /\ env.opens /\ env.seq < MaxSeq
                               => OneStop(held \cup {env}, env.seq, view)
    BY DEF DrainIsDetermined
  <2>1. WindowOf(held, high, delivery_next) /\ next \notin SeqsOf(held)
    BY DEF TInv, Window
  <2>2. OneStop(held, high, view)
    BY <2>1, DrainStops
  <2>3. ASSUME NEW env \in OnEdge, env.seq = next, env.opens, env.seq < MaxSeq
        PROVE  OneStop(held \cup {env}, env.seq, view)
    <3>1. WindowOf(held \cup {env}, env.seq, delivery_next)
      BY <2>1, <2>3, Filled
    <3> QED
      BY <3>1, DrainStops
  <2> QED
    BY <2>2, <2>3
<1> QED
  BY <1>1, TransportInvariant, PTL

\* What a report leaves in the window: nothing accepted, or first an envelope the
\* view postpones; and what it hands out the view permits.
Reported(view) ==
    /\ \/ Len(delivered') = next'
       \/ \E env \in held' :
             env.seq = Len(delivered') /\ env.opens /\ Postpones(view, env.contract)
    /\ \A i \in Len(delivered) + 1 .. Len(delivered') : Permits(view, delivered'[i].contract)

LEMMA DrainReports ==
    ASSUME TInv, session # "closed", NEW more, NEW from, NEW view,
           WindowOf(more, from, delivery_next), Drain(more, from, view)
    PROVE  session' = "closed" \/ (high' >= from /\ Reported(view))
<1>1. PICK top \in from .. MaxSeq :
         LET kept   == {env \in more : env.seq # top + 1}
             opened == {env \in kept : env.seq <= top}
         IN  /\ OpensUpTo(more, from, top)
             /\ \/ AnyContradicts(view, opened) /\ Abort
                \/ /\ ~ AnyContradicts(view, opened)
                   /\ \E last \in delivery_next - 1 .. top :
                         /\ DeliversUpTo(kept, top, view, last)
                         /\ delivery_next' = last + 1
                         /\ held' = {env \in kept : env.seq > last}
                         /\ delivered' = delivered \o Report(kept, last)
                   /\ high' = top
                   /\ session' = IF top > high THEN "Established" ELSE session
                   /\ UNCHANGED sender
  BY DEF Drain
<1> DEFINE kept == {env \in more : env.seq # top + 1}
<1> SUFFICES ASSUME session' # "closed" PROVE high' >= from /\ Reported(view)
  OBVIOUS
<1>2. ~ Abort
  BY DEF Abort
<1>3. \A env \in kept : env.seq <= top => ~ Contradicts(view, env.contract)
  BY <1>1, <1>2 DEF AnyContradicts
<1>4. PICK last \in delivery_next - 1 .. top :
         /\ DeliversUpTo(kept, top, view, last)
         /\ held' = {env \in kept : env.seq > last}
         /\ delivered' = delivered \o Report(kept, last)
  BY <1>1, <1>2
<1>5. high' = top
  BY <1>1, <1>2
<1>6. WindowOf(kept, top, delivery_next)
  BY <1>1, OpenedWindow
<1>7. /\ from \in Int /\ top \in Int /\ last \in Int /\ delivery_next \in Nat
      /\ Len(delivered) = delivery_next
  BY <1>6, BoundsAssumption DEF WindowOf, TInv, Window
<1> HIDE DEF kept
<1>8. /\ Len(delivered') = last + 1
      /\ \A i \in 1 .. last + 1 : delivered'[i] = sealed[i]
  BY <1>4, <1>6, Batch
<1>9. ASSUME NEW n \in delivery_next .. top
      PROVE  \E e \in kept : e.seq = n /\ e.opens /\ e = sealed[n + 1]
  <2>1. PICK e \in kept : e.seq = n /\ e.opens
    BY <1>6, <1>9 DEF WindowOf
  <2>2. e = sealed[e.seq + 1]
    BY <1>6, <2>1 DEF WindowOf
  <2> QED
    BY <2>1, <2>2
<1>10. \/ Len(delivered') = next'
       \/ \E env \in held' :
             env.seq = Len(delivered') /\ env.opens /\ Postpones(view, env.contract)
  <2>1. CASE last = top
    BY <1>5, <1>8, <2>1 DEF next
  <2>2. CASE last # top
    <3>1. last + 1 \in delivery_next .. top
      BY <1>7, <2>2
    <3>2. PICK e \in kept : e.seq = last + 1 /\ e.opens
      BY <1>9, <3>1
    <3>3. last + 1 \notin {env.seq : env \in {e2 \in kept : Permits(view, e2.contract)}}
      BY <1>4, <2>2 DEF DeliversUpTo
    <3>4. ~ Permits(view, e.contract)
      BY <3>2, <3>3
    <3>5. ~ Contradicts(view, e.contract)
      BY <1>3, <1>7, <3>1, <3>2
    <3>6. Postpones(view, e.contract)
      BY <3>4, <3>5 DEF Contradicts
    <3>7. e \in held'
      BY <1>4, <1>7, <3>2
    <3> QED
      BY <1>8, <3>2, <3>6, <3>7
  <2> QED
    BY <2>1, <2>2
<1>11. ASSUME NEW i \in Len(delivered) + 1 .. Len(delivered')
       PROVE  Permits(view, delivered'[i].contract)
  <2>1. i - 1 \in delivery_next .. last /\ i - 1 \in delivery_next .. top
        /\ i \in 1 .. last + 1 /\ (i - 1) + 1 = i
    BY <1>7, <1>8
  <2>2. PICK e \in kept : e.seq = i - 1 /\ Permits(view, e.contract)
    BY <1>4, <2>1 DEF DeliversUpTo
  <2>3. PICK f \in kept : f.seq = i - 1 /\ f = sealed[i]
    BY <1>9, <2>1
  <2>4. e = f
    BY <1>6, <2>2, <2>3 DEF WindowOf
  <2> QED
    BY <1>8, <2>1, <2>2, <2>3, <2>4
<1> QED
  BY <1>5, <1>7, <1>10, <1>11 DEF Reported

\* An accepted envelope moves the window, and a report goes on until nothing that
\* was accepted is left or the view postpones what comes next: delivery stops for
\* no other reason while the session lives (SecureTransport::receive and observe).
ReportsGoOn ==
    [][ \A view \in Views :
          /\ \A env \in OnEdge : env.seq = next /\ Receive(env, view) =>
                session' = "closed" \/ (high' > high /\ Reported(view))
          /\ Observe(view) => session' = "closed" \/ Reported(view) ]_vars

THEOREM ReportsStopForCause == Spec => ReportsGoOn
<1>1. ASSUME TInv, NEW view \in Views, NEW env \in OnEdge, env.seq = next, Receive(env, view)
      PROVE  session' = "closed" \/ (high' > high /\ Reported(view))
  <2>1. CASE Abort
    BY <2>1 DEF Abort
  <2>2. CASE ~ Abort
    <3>1. high \in Int /\ next = high + 1
      BY <1>1, BoundsAssumption DEF TInv, Window, WindowOf, next
    <3>2. /\ session # "closed" /\ env.seq < MaxSeq /\ env.seq \notin SeqsOf(held)
          /\ env.opens /\ Drain(held \cup {env}, env.seq, view)
      <4>1. /\ session # "closed" /\ env.seq < MaxSeq /\ env.seq \notin SeqsOf(held)
            /\ ReceiveAhead(env) \/ ReceiveNext(env, view)
        BY <1>1, <2>2 DEF Receive
      <4>2. ~ (env.seq > next)
        BY <1>1, <3>1
      <4>3. ReceiveNext(env, view)
        BY <4>1, <4>2 DEF ReceiveAhead
      <4>4. env.opens /\ Drain(held \cup {env}, env.seq, view)
        BY <2>2, <4>3 DEF ReceiveNext
      <4> QED
        BY <4>1, <4>4
    <3>3. WindowOf(held \cup {env}, env.seq, delivery_next)
      BY <1>1, <3>2, Filled
    <3>4. session' = "closed" \/ (high' >= env.seq /\ Reported(view))
      BY <1>1, <3>2, <3>3, DrainReports
    <3>5. high' >= env.seq /\ session' # "closed" => high' > high
      <4>1. ASSUME session' # "closed" PROVE high' \in Int
        <5>1. TInv'
          BY <1>1, ReceiveStep
        <5> QED
          BY <5>1, BoundsAssumption DEF TInv, Window, WindowOf
      <4> QED
        BY <1>1, <3>1, <4>1
    <3> QED
      BY <3>4, <3>5
  <2> QED
    BY <2>1, <2>2
<1>2. ASSUME TInv, NEW view \in Views, Observe(view)
      PROVE  session' = "closed" \/ Reported(view)
  <2>1. WindowOf(held, high, delivery_next)
    BY <1>2 DEF TInv, Window
  <2> QED
    BY <1>2, <2>1, DrainReports DEF Observe
<1>3. TInv /\ [Next]_vars =>
        [\A view \in Views :
           /\ \A env \in OnEdge : env.seq = next /\ Receive(env, view) =>
                 session' = "closed" \/ (high' > high /\ Reported(view))
           /\ Observe(view) => session' = "closed" \/ Reported(view)]_vars
  BY <1>1, <1>2
<1> QED
  BY <1>3, TransportInvariant, PTL DEF Spec, ReportsGoOn

================================================================================

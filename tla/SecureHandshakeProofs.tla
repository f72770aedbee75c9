------------------------ MODULE SecureHandshakeProofs ------------------------
(***************************************************************************)
(* Proofs about SecureHandshake, for any number of guardians, contexts,    *)
(* hellos, restarts and failures.                                          *)
(*                                                                         *)
(* HandshakeInv is inductive.  OneSessionPerHello needs it because a new   *)
(* hello must differ from every hello a manager, the edge or a running     *)
(* scan still knows (Numbered), and because the two roles must not be      *)
(* confused (Owned, Routed); DowngradeIsFinal needs to know that a scan    *)
(* that still has hellos to answer is not one of a closed context          *)
(* (ScansOpen).                                                            *)
(***************************************************************************)
EXTENDS SecureHandshake, RateBudget, FiniteSetTheorems, SequenceTheorems,
        WellFoundedInduction, TLAPS

ScanType == [ctx : Contexts \cup {"none"}, acks : SUBSET Ack, hellos : SUBSET Hello,
             plain : BOOLEAN]

ScansTyped ==
    /\ scan \in [Agents -> ScanType]
    /\ \A a \in Agents : scan[a].plain => scan[a].ctx \in Contexts

Types ==
    /\ TypeOK
    /\ ScansTyped
    /\ IsFiniteSet(answered)

\* Hellos are numbered in the order they are made.
Numbered ==
    /\ \A h \in hellos : h.n <= made
    /\ \A a \in Agents : /\ \A p \in pending[a] : p.hello.n <= made
                         /\ \A s \in active[a] : s.ack.hello.n <= made
                         /\ \A h \in scan[a].hellos : h.n <= made

\* What a manager initiated is its own, and of this life.
Owned ==
    \A a \in Agents : /\ \A p \in pending[a] : p.hello.from = a /\ p.hello.life = lives[a]
                      /\ \A s \in active[a] : Initiated(a, s) => s.ack.hello.life = lives[a]

\* Hellos reach the one they are addressed to, in their context.
Routed ==
    /\ \A h \in hellos : h.from # h.to
    /\ \A a \in Agents : \A h \in scan[a].hellos :
           h.to = a /\ h.from # a /\ h.ctx = scan[a].ctx

\* A scan with hellos left to answer is one of an open context.
ScansOpen == \A a \in Agents : scan[a].hellos # {} => scan[a].ctx \notin blocked[a]

HandshakeInv ==
    /\ Types /\ Numbered /\ Owned /\ Routed /\ ScansOpen
    /\ OneSessionPerHello /\ DowngradeIsFinal

-----------------------------------------------------------------------------
(* Types *)

\* The memory of hellos stays within its limit, and in type.
LEMMA RememberType ==
    ASSUME NEW a \in Agents, NEW h \in Hello, TypeOK
    PROVE  Remember(a, h) \in Seq(Hello) /\ Len(Remember(a, h)) <= SeenLimit
<1> DEFINE longer == Append(seen[a], h)
<1>1. seen[a] \in Seq(Hello) /\ Len(seen[a]) <= SeenLimit
  BY DEF TypeOK
<1>2. longer \in Seq(Hello) /\ Len(longer) = Len(seen[a]) + 1
  BY <1>1
<1>3. CASE h \in Range(seen[a])
  BY <1>1, <1>3 DEF Remember
<1>4. CASE h \notin Range(seen[a]) /\ Len(longer) > SeenLimit
  <2>1. Tail(longer) \in Seq(Hello) /\ Len(Tail(longer)) = Len(longer) - 1
    BY <1>2
  <2>2. Remember(a, h) = Tail(longer)
    BY <1>4 DEF Remember
  <2> QED
    BY <1>1, <1>2, <2>1, <2>2, HandshakeBounds
<1>5. CASE h \notin Range(seen[a]) /\ ~ Len(longer) > SeenLimit
  <2>1. Remember(a, h) = longer
    BY <1>5 DEF Remember
  <2> QED
    BY <1>2, <1>5, <2>1, HandshakeBounds
<1> QED
  BY <1>3, <1>4, <1>5

\* The next ack is within its numbers.
LEMMA NextAck ==
    ASSUME IsFiniteSet(answered), Cardinality(answered) < MaxAnswers
    PROVE  Cardinality(answered) + 1 \in 1 .. MaxAnswers
BY FS_CardinalityType, HandshakeBounds

LEMMA InitInv == Init => HandshakeInv
<1> SUFFICES ASSUME Init
             PROVE  HandshakeInv
  OBVIOUS
<1>1. TypeOK
  BY HandshakeBounds DEF Init, TypeOK, Idle
<1>2. /\ ScansTyped
      /\ IsFiniteSet(answered)
  BY FS_EmptySet DEF Init, Idle, ScansTyped, ScanType
<1> QED
  BY <1>1, <1>2 DEF Init, HandshakeInv, Types, Numbered, Owned, Routed, ScansOpen,
     OneSessionPerHello, DowngradeIsFinal, Idle

\* Every step keeps the types.
LEMMA TypesStep == HandshakeInv /\ [Next]_vars => Types'
<1> SUFFICES ASSUME HandshakeInv, [Next]_vars
             PROVE  Types'
  OBVIOUS
<1> USE HandshakeBounds
<1>0. Types
  BY DEF HandshakeInv
<1>1. ASSUME NEW a \in Agents, NEW peer \in Agents, NEW c \in Contexts, Initiate(a, peer, c)
      PROVE  Types'
  <2> DEFINE h   == [from |-> a, to |-> peer, ctx |-> c, n |-> made + 1, life |-> lives[a]]
             new == [hello |-> h, order |-> order[a] + 1]
  <2>1. h \in Hello
    BY <1>0, <1>1 DEF Types, ScansTyped, TypeOK, Initiate, Hello
  <2>2. new \in Pending
    BY <1>0, <2>1 DEF Types, ScansTyped, TypeOK, Pending
  <2>3. /\ pending' = [pending EXCEPT ![a] = (pending[a] \ Evicted(a, peer)) \cup {new}]
        /\ active' = [active EXCEPT ![a] = @ \ Evicted(a, peer)]
        /\ order' = [order EXCEPT ![a] = @ + 1]
        /\ made' = made + 1 /\ made < MaxHellos
        /\ UNCHANGED <<seen, blocked, scan, acks, plaintext, spoken, answered, lives>>
        /\ \/ hellos' = hellos \cup {h} /\ UNCHANGED failures
           \/ failures < MaxFailures /\ failures' = failures + 1 /\ UNCHANGED hellos
    BY <1>1 DEF Initiate, WriteHello
  <2>4. pending' \in [Agents -> SUBSET Pending] /\ active' \in [Agents -> SUBSET Session]
    BY <1>0, <2>2, <2>3 DEF Types, ScansTyped, TypeOK
  <2>5. hellos' \subseteq Hello /\ failures' \in 0 .. MaxFailures /\ made' \in 0 .. MaxHellos
    <3>1. hellos \subseteq Hello /\ failures \in 0 .. MaxFailures /\ made \in 0 .. MaxHellos
      BY <1>0 DEF Types, TypeOK
    <3>2. hellos' \subseteq Hello
      BY <2>1, <2>3, <3>1
    <3>3. failures' \in 0 .. MaxFailures
      BY <2>3, <3>1
    <3>4. made' \in 0 .. MaxHellos
      BY <2>3, <3>1
    <3> QED
      BY <3>2, <3>3, <3>4
  <2>6. order' \in [Agents -> Nat]
    <3>1. order \in [Agents -> Nat]
      BY <1>0 DEF Types, TypeOK
    <3>2. order[a] + 1 \in Nat
      BY <3>1
    <3> QED
      BY <2>3, <3>1, <3>2
  <2> QED
    BY <1>0, <2>3, <2>4, <2>5, <2>6 DEF Types, ScansTyped, TypeOK
<1>2. ASSUME NEW a \in Agents, NEW c \in Contexts, StartOpen(a, c)
      PROVE  Types'
  <2> DEFINE new == [ctx    |-> c,
                     acks   |-> {k \in acks : k.hello.from = a /\ k.hello.ctx = c},
                     hellos |-> {h \in hellos : h.to = a /\ h.ctx = c},
                     plain  |-> c \in plaintext]
  <2>1. new \in ScanType
    BY <1>0 DEF Types, TypeOK, ScansTyped, ScanType
  <2>2. scan' = [scan EXCEPT ![a] = new]
    BY <1>2 DEF StartOpen
  <2>3. ScansTyped'
    BY <1>0, <2>1, <2>2 DEF Types, ScansTyped, ScanType
  <2> QED
    BY <1>0, <1>2, <2>3 DEF Types, ScansTyped, TypeOK, StartOpen, edge, history
<1>3. ASSUME NEW a \in Agents, Complete(a)
      PROVE  Types'
  <2>0. PICK k \in scan[a].acks : \E p \in Completing(a, k) :
            /\ pending' = [pending EXCEPT ![a] = @ \ {p}]
            /\ active' = [active EXCEPT ![a] =
                   @ \cup {[ack |-> k, state |-> "Established", order |-> p.order]}]
            /\ scan' = [scan EXCEPT ![a].acks = @ \ {k}]
    BY <1>3 DEF Complete
  <2>1. PICK p \in Completing(a, k) :
            /\ pending' = [pending EXCEPT ![a] = @ \ {p}]
            /\ active' = [active EXCEPT ![a] =
                   @ \cup {[ack |-> k, state |-> "Established", order |-> p.order]}]
            /\ scan' = [scan EXCEPT ![a].acks = @ \ {k}]
    BY <2>0
  <2>2. k \in Ack /\ p \in Pending
    BY <1>0, <2>1 DEF Types, TypeOK, ScansTyped, ScanType, Completing
  <2>3. [ack |-> k, state |-> "Established", order |-> p.order] \in Session
    BY <2>2 DEF Session, Pending
  <2>4. pending' \in [Agents -> SUBSET Pending] /\ active' \in [Agents -> SUBSET Session]
    BY <1>0, <2>1, <2>3 DEF Types, ScansTyped, TypeOK
  <2>5. ScansTyped'
    BY <1>0, <2>1 DEF Types, ScansTyped, ScanType
  <2> QED
    <3>1. UNCHANGED <<seen, order, blocked, hellos, acks, plaintext, spoken,
                      made, answered, lives, failures>>
      BY <1>3 DEF Complete, edge, history
    <3>2. TypeOK'
      BY <1>0, <2>4, <3>1 DEF Types, TypeOK
    <3> QED
      BY <1>0, <2>5, <3>1, <3>2 DEF Types
<1>4. ASSUME NEW a \in Agents, PassAck(a) \/ PassHello(a)
      PROVE  Types'
  <2>1. ScansTyped'
    BY <1>0, <1>4 DEF Types, ScansTyped, ScanType, PassAck, PassHello
  <2> QED
    BY <1>0, <1>4, <2>1 DEF Types, ScansTyped, TypeOK, PassAck, PassHello, edge, history
<1>5. ASSUME NEW a \in Agents, AnswerAgain(a)
      PROVE  Types'
  <2>0. PICK h \in scan[a].hellos : \E s \in Answering(a, h) :
            /\ seen' = [seen EXCEPT ![a] = Remember(a, h)]
            /\ WriteAck(s.ack)
            /\ scan' = [scan EXCEPT ![a].hellos = @ \ {h}]
    BY <1>5 DEF AnswerAgain
  <2>1. PICK s \in Answering(a, h) :
            /\ seen' = [seen EXCEPT ![a] = Remember(a, h)]
            /\ WriteAck(s.ack)
            /\ scan' = [scan EXCEPT ![a].hellos = @ \ {h}]
    BY <2>0
  <2>2. h \in Hello /\ s \in Session
    BY <1>0, <2>1 DEF Types, TypeOK, ScansTyped, ScanType, Answering
  <2>3. seen' \in [Agents -> Seq(Hello)] /\ \A b \in Agents : Len(seen'[b]) <= SeenLimit
    BY <1>0, <2>1, <2>2, RememberType DEF Types, ScansTyped, TypeOK
  <2>4. acks' \subseteq Ack /\ failures' \in 0 .. MaxFailures
    <3>1. acks \subseteq Ack /\ failures \in 0 .. MaxFailures /\ s.ack \in Ack
      BY <1>0, <2>2 DEF Types, TypeOK, Session
    <3>2. \/ acks' = acks \cup {s.ack} /\ UNCHANGED failures
          \/ failures < MaxFailures /\ failures' = failures + 1 /\ UNCHANGED acks
      BY <2>1 DEF WriteAck
    <3>3. acks' \subseteq Ack
      BY <3>1, <3>2
    <3>4. failures' \in 0 .. MaxFailures
      BY <3>1, <3>2
    <3> QED
      BY <3>3, <3>4
  <2>5. ScansTyped'
    BY <1>0, <2>1 DEF Types, ScansTyped, ScanType
  <2> QED
    BY <1>0, <1>5, <2>3, <2>4, <2>5 DEF Types, ScansTyped, TypeOK, AnswerAgain
<1>6. ASSUME NEW a \in Agents, Answer(a)
      PROVE  Types'
  <2>1. PICK h \in scan[a].hellos :
            LET k    == [hello |-> h, n |-> Cardinality(answered) + 1]
                kept == active[a] \ Evicted(a, h.from)
                new  == [ack |-> k, state |-> "AckSent", order |-> order[a] + 1]
            IN  /\ Cardinality(answered) < MaxAnswers
                /\ seen' = [seen EXCEPT ![a] = Remember(a, h)]
                /\ order' = [order EXCEPT ![a] = @ + 1]
                /\ active' = [active EXCEPT ![a] = kept \cup {new}]
                /\ answered' = answered \cup {[ack |-> k, life |-> lives[a]]}
                /\ WriteAck(k)
                /\ pending' = [pending EXCEPT ![a] = @ \ Evicted(a, h.from)]
                /\ scan' = [scan EXCEPT ![a].hellos = @ \ {h}]
    BY <1>6 DEF Answer
  <2> DEFINE k   == [hello |-> h, n |-> Cardinality(answered) + 1]
             new == [ack |-> k, state |-> "AckSent", order |-> order[a] + 1]
  <2>2. h \in Hello
    BY <1>0, <2>1 DEF Types, ScansTyped, ScanType
  <2>3. k \in Ack
    BY <1>0, <2>1, <2>2, NextAck DEF Types, ScansTyped, Ack
  <2>4. new \in Session
    BY <1>0, <2>3 DEF Types, ScansTyped, TypeOK, Session
  <2>5. pending' \in [Agents -> SUBSET Pending] /\ active' \in [Agents -> SUBSET Session]
    BY <1>0, <2>1, <2>4 DEF Types, ScansTyped, TypeOK
  <2>6. seen' \in [Agents -> Seq(Hello)] /\ \A b \in Agents : Len(seen'[b]) <= SeenLimit
    BY <1>0, <2>1, <2>2, RememberType DEF Types, ScansTyped, TypeOK
  <2>7. acks' \subseteq Ack /\ failures' \in 0 .. MaxFailures
    <3>1. acks \subseteq Ack /\ failures \in 0 .. MaxFailures
      BY <1>0 DEF Types, TypeOK
    <3>2. \/ acks' = acks \cup {k} /\ UNCHANGED failures
          \/ failures < MaxFailures /\ failures' = failures + 1 /\ UNCHANGED acks
      BY <2>1 DEF WriteAck
    <3> HIDE DEF k
    <3>3. acks' \subseteq Ack
      BY <2>3, <3>1, <3>2
    <3>4. failures' \in 0 .. MaxFailures
      BY <3>1, <3>2
    <3> QED
      BY <3>3, <3>4
  <2>8. ScansTyped'
    <3>1. scan' = [scan EXCEPT ![a].hellos = @ \ {h}]
      BY <2>1
    <3> QED
      BY <1>0, <3>1 DEF Types, ScansTyped, ScanType
  <2>10. order' \in [Agents -> Nat]
    <3>1. order \in [Agents -> Nat]
      BY <1>0 DEF Types, TypeOK
    <3>2. order[a] + 1 \in Nat /\ order' = [order EXCEPT ![a] = @ + 1]
      BY <2>1, <3>1
    <3> QED
      BY <3>1, <3>2
  <2>9. IsFiniteSet(answered')
    BY <1>0, <2>1, FS_AddElement DEF Types, ScansTyped
  <2> QED
    BY <1>0, <1>6, <2>5, <2>6, <2>7, <2>8, <2>9, <2>10 DEF Types, ScansTyped, TypeOK, Answer
<1>7. ASSUME NEW a \in Agents, Downgrade(a)
      PROVE  Types'
  <2>1. ScansTyped'
    BY <1>0, <1>7 DEF Types, ScansTyped, ScanType, Downgrade, StoppedScan, Idle
  <2>2. scan[a].plain /\ scan[a].ctx \in Contexts \cup {"none"}
    BY <1>0, <1>7 DEF Types, ScansTyped, ScanType, Downgrade
  <2> QED
    BY <1>0, <1>7, <2>1, <2>2 DEF Types, ScansTyped, TypeOK, Downgrade, edge, history
<1>8. ASSUME NEW a \in Agents, FinishOpen(a)
      PROVE  Types'
  <2>1. ScansTyped'
    BY <1>0, <1>8 DEF Types, ScansTyped, ScanType, FinishOpen, Idle
  <2> DEFINE heard == Heard(a)
             after == (active[a] \ heard) \cup {[s EXCEPT !.state = "Established"] : s \in heard}
  <2>3. active \in [Agents -> SUBSET Session]
    BY <1>0 DEF Types, TypeOK
  <2>4. \A s \in Session : [s EXCEPT !.state = "Established"] \in Session
    BY DEF Session
  <2>5. active' = [active EXCEPT ![a] = after]
    BY <1>8 DEF FinishOpen
  <2>6. after \in SUBSET Session
    BY <2>3, <2>4 DEF Heard
  <2> HIDE DEF after
  <2>2. active' \in [Agents -> SUBSET Session]
    BY <2>3, <2>5, <2>6
  <2> QED
    BY <1>0, <1>8, <2>1, <2>2 DEF Types, ScansTyped, TypeOK, FinishOpen, edge, history
<1>9. ASSUME NEW a \in Agents, Speak(a)
      PROVE  Types'
  <2>1. spoken' \subseteq Ack
    BY <1>0, <1>9 DEF Types, ScansTyped, TypeOK, Speak, Session
  <2> QED
    BY <1>0, <1>9, <2>1 DEF Types, ScansTyped, TypeOK, Speak, managers, history
<1>10. ASSUME NEW a \in Agents, Close(a)
       PROVE  Types'
  BY <1>0, <1>10 DEF Types, ScansTyped, TypeOK, Close, edge
<1>11. ASSUME NEW a \in Agents, Restart(a)
       PROVE  Types'
  <2>1. ScansTyped'
    BY <1>0, <1>11 DEF Types, ScansTyped, ScanType, Restart, Idle
  <2> QED
    BY <1>0, <1>11, <2>1 DEF Types, ScansTyped, TypeOK, Restart, edge
<1>12. ASSUME NEW c \in Downgraded, WritePlaintext(c)
       PROVE  Types'
  BY <1>0, <1>12 DEF Types, ScansTyped, TypeOK, WritePlaintext, managers, history
<1>13. CASE UNCHANGED vars
  BY <1>0, <1>13 DEF Types, ScansTyped, TypeOK, vars, managers, edge, history
<1> QED
  BY <1>1, <1>2, <1>3, <1>4, <1>5, <1>6, <1>7, <1>8, <1>9, <1>10, <1>11, <1>12, <1>13
     DEF Next, ScanStep

-----------------------------------------------------------------------------
(* The rest of the invariant *)

\* A scan loses hellos, or is what it was, in a context nobody blocked meanwhile.
ScansShrink ==
    \A b \in Agents :
        /\ scan'[b].hellos \subseteq scan[b].hellos
        /\ \/ scan'[b].hellos = {}
           \/ scan'[b].ctx = scan[b].ctx /\ blocked'[b] = blocked[b]

\* No step but the one that starts a scan can misroute what it scans.
LEMMA ScansStayRouted ==
    ASSUME Routed, ScansOpen, UNCHANGED hellos, ScansShrink
    PROVE  Routed' /\ ScansOpen'
<1>1. \A h \in hellos' : h.from # h.to
  BY DEF Routed
<1>2. ASSUME NEW b \in Agents, NEW h \in scan'[b].hellos
      PROVE  h.to = b /\ h.from # b /\ h.ctx = scan'[b].ctx
  <2>1. h \in scan[b].hellos /\ scan'[b].ctx = scan[b].ctx
    BY <1>2 DEF ScansShrink
  <2> QED
    BY <2>1 DEF Routed
<1>3. ASSUME NEW b \in Agents, scan'[b].hellos # {}
      PROVE  scan'[b].ctx \notin blocked'[b]
  <2>1. /\ scan[b].hellos # {}
        /\ scan'[b].ctx = scan[b].ctx /\ blocked'[b] = blocked[b]
    BY <1>3 DEF ScansShrink
  <2> QED
    BY <2>1 DEF ScansOpen
<1>4. Routed'
  BY <1>1, <1>2 DEF Routed
<1>5. ScansOpen'
  BY <1>3 DEF ScansOpen
<1> QED
  BY <1>4, <1>5

\* Every step keeps the whole of it.
LEMMA StepInv == HandshakeInv /\ [Next]_vars => HandshakeInv'
<1> SUFFICES ASSUME HandshakeInv, [Next]_vars
             PROVE  Numbered' /\ Owned' /\ Routed' /\ ScansOpen'
                        /\ OneSessionPerHello' /\ DowngradeIsFinal'
  BY TypesStep DEF HandshakeInv
<1> USE DEF Numbered, Owned, Routed, ScansOpen, OneSessionPerHello, DowngradeIsFinal, Initiated
<1>0. /\ Numbered /\ Owned /\ Routed /\ ScansOpen /\ OneSessionPerHello /\ DowngradeIsFinal
      /\ pending \in [Agents -> SUBSET Pending] /\ active \in [Agents -> SUBSET Session]
      /\ blocked \in [Agents -> SUBSET Contexts] /\ lives \in [Agents -> 1 .. MaxLives]
      /\ scan \in [Agents -> ScanType] /\ made \in Nat /\ hellos \subseteq Hello
  BY HandshakeBounds DEF HandshakeInv, Types, TypeOK, ScansTyped
<1>1. ASSUME NEW a \in Agents, NEW peer \in Agents, NEW c \in Contexts, Initiate(a, peer, c)
      PROVE  Numbered' /\ Owned' /\ Routed' /\ ScansOpen'
                 /\ OneSessionPerHello' /\ DowngradeIsFinal'
  <2> DEFINE h   == [from |-> a, to |-> peer, ctx |-> c, n |-> made + 1, life |-> lives[a]]
             new == [hello |-> h, order |-> order[a] + 1]
  <2>1. /\ pending' = [pending EXCEPT ![a] = (pending[a] \ Evicted(a, peer)) \cup {new}]
        /\ active' = [active EXCEPT ![a] = active[a] \ Evicted(a, peer)]
        /\ made' = made + 1 /\ peer # a /\ c \notin blocked[a]
        /\ hellos' \subseteq hellos \cup {h}
        /\ UNCHANGED <<blocked, scan, lives>>
    BY <1>1 DEF Initiate, WriteHello
  <2>2. /\ h.from = a /\ h.to = peer /\ h.ctx = c /\ h.n = made + 1 /\ h.life = lives[a]
        /\ new.hello = h
    OBVIOUS
  <2> HIDE DEF h, new
  <2>3. \A b \in Agents : /\ \A p \in pending'[b] : p \in pending[b] \/ (b = a /\ p = new)
                          /\ \A s \in active'[b] : s \in active[b]
    BY <1>0, <2>1
  <2>4. /\ \A g \in hellos : g.n \in Nat
        /\ \A b \in Agents : /\ \A p \in pending[b] : p.hello.n \in Nat
                             /\ \A s \in active[b] : s.ack.hello.n \in Nat
                             /\ \A g \in scan[b].hellos : g.n \in Nat
    BY <1>0, HandshakeBounds DEF Pending, Session, Ack, Hello, ScanType
  <2>5. Numbered'
    BY <1>0, <2>1, <2>2, <2>3, <2>4
  <2>6. Owned'
    BY <1>0, <2>1, <2>2, <2>3
  <2>7. Routed' /\ ScansOpen'
    BY <1>0, <2>1, <2>2
  <2>8. /\ \A b \in Agents : \A p \in pending[b] : p.hello # h
        /\ \A b \in Agents : \A s \in active[b] : s.ack.hello # h
    BY <1>0, <2>2, <2>4
  <2>9. OneSessionPerHello'
    BY <1>0, <2>2, <2>3, <2>8
  <2>10. DowngradeIsFinal'
    BY <1>0, <2>1, <2>2, <2>3
  <2> QED
    BY <2>5, <2>6, <2>7, <2>9, <2>10
<1>2. ASSUME NEW a \in Agents, NEW c \in Contexts, StartOpen(a, c)
      PROVE  Numbered' /\ Owned' /\ Routed' /\ ScansOpen'
                 /\ OneSessionPerHello' /\ DowngradeIsFinal'
  <2>1. /\ c \notin blocked[a]
        /\ UNCHANGED <<pending, active, blocked, hellos, made, lives>>
        /\ \A b \in Agents : b # a => scan'[b] = scan[b]
        /\ scan'[a].ctx = c /\ scan'[a].hellos = {h \in hellos : h.to = a /\ h.ctx = c}
    BY <1>0, <1>2 DEF StartOpen, edge, history
  <2>2. \A b \in Agents : b # a =>
            scan'[b].hellos = scan[b].hellos /\ scan'[b].ctx = scan[b].ctx
    BY <2>1
  <2>3. Owned' /\ OneSessionPerHello' /\ DowngradeIsFinal'
    BY <1>0, <2>1
  <2>4. Numbered'
    <3>1. \A b \in Agents : \A h \in scan'[b].hellos : h.n <= made
      BY <1>0, <2>1, <2>2
    <3> QED
      BY <1>0, <2>1, <3>1
  <2>5. Routed' /\ ScansOpen'
    <3>1. \A h \in scan'[a].hellos : h.to = a /\ h.from # a /\ h.ctx = scan'[a].ctx
      BY <1>0, <2>1
    <3>2. Routed'
      BY <1>0, <2>1, <2>2, <3>1
    <3>3. ScansOpen'
      BY <1>0, <2>1, <2>2
    <3> QED
      BY <3>2, <3>3
  <2> QED
    BY <2>3, <2>4, <2>5
<1>3. ASSUME NEW a \in Agents, Complete(a)
      PROVE  Numbered' /\ Owned' /\ Routed' /\ ScansOpen'
                 /\ OneSessionPerHello' /\ DowngradeIsFinal'
  <2>0. PICK k \in scan[a].acks : \E p \in Completing(a, k) :
            /\ pending' = [pending EXCEPT ![a] = @ \ {p}]
            /\ active' = [active EXCEPT ![a] =
                   @ \cup {[ack |-> k, state |-> "Established", order |-> p.order]}]
            /\ scan' = [scan EXCEPT ![a].acks = @ \ {k}]
            /\ UNCHANGED <<seen, order, blocked, edge, history>>
    BY <1>3 DEF Complete
  <2>1. PICK p \in Completing(a, k) :
            /\ pending' = [pending EXCEPT ![a] = @ \ {p}]
            /\ active' = [active EXCEPT ![a] =
                   @ \cup {[ack |-> k, state |-> "Established", order |-> p.order]}]
            /\ scan' = [scan EXCEPT ![a].acks = @ \ {k}]
            /\ UNCHANGED <<seen, order, blocked, edge, history>>
    BY <2>0
  <2> DEFINE new == [ack |-> k, state |-> "Established", order |-> p.order]
  <2>2. p \in pending[a] /\ new.ack.hello = p.hello
    BY <2>1 DEF Completing
  <2> HIDE DEF new
  <2>3. /\ UNCHANGED <<blocked, hellos, made, lives>>
        /\ \A b \in Agents : scan'[b].hellos = scan[b].hellos /\ scan'[b].ctx = scan[b].ctx
        /\ \A b \in Agents : /\ \A q \in pending'[b] : q \in pending[b] /\ ~ (b = a /\ q = p)
                             /\ \A s \in active'[b] : s \in active[b] \/ (b = a /\ s = new)
    BY <1>0, <2>1 DEF edge, history, ScanType, new
  <2>4. Numbered'
    BY <1>0, <2>2, <2>3
  <2>8. Routed' /\ ScansOpen'
    <3>1. ScansShrink
      BY <2>3 DEF ScansShrink
    <3> QED
      BY <1>0, <2>3, <3>1, ScansStayRouted
  <2>5. Owned'
    BY <1>0, <2>2, <2>3
  <2>6. OneSessionPerHello'
    BY <1>0, <2>2, <2>3
  <2>7. DowngradeIsFinal'
    BY <1>0, <2>2, <2>3
  <2> QED
    BY <2>4, <2>5, <2>6, <2>7, <2>8
<1>4. ASSUME NEW a \in Agents, Answer(a)
      PROVE  Numbered' /\ Owned' /\ Routed' /\ ScansOpen'
                 /\ OneSessionPerHello' /\ DowngradeIsFinal'
  <2>1. PICK h \in scan[a].hellos :
            LET k    == [hello |-> h, n |-> Cardinality(answered) + 1]
                kept == active[a] \ Evicted(a, h.from)
                new  == [ack |-> k, state |-> "AckSent", order |-> order[a] + 1]
            IN  /\ Answering(a, h) = {}
                /\ active' = [active EXCEPT ![a] = kept \cup {new}]
                /\ pending' = [pending EXCEPT ![a] = @ \ Evicted(a, h.from)]
                /\ scan' = [scan EXCEPT ![a].hellos = @ \ {h}]
                /\ UNCHANGED <<blocked, hellos, plaintext, spoken, made, lives>>
    BY <1>4 DEF Answer
  <2> DEFINE new == [ack   |-> [hello |-> h, n |-> Cardinality(answered) + 1],
                     state |-> "AckSent", order |-> order[a] + 1]
  <2>2. new.ack.hello = h /\ h.from # a /\ h.to = a /\ h.ctx \notin blocked[a] /\ h.n <= made
    BY <1>0
  <2>3. /\ UNCHANGED <<blocked, hellos, made, lives>>
        /\ \A b \in Agents : /\ scan'[b].ctx = scan[b].ctx
                             /\ scan'[b].hellos \subseteq scan[b].hellos
        /\ \A b \in Agents : /\ \A q \in pending'[b] : q \in pending[b]
                             /\ \A s \in active'[b] : s \in active[b] \/ (b = a /\ s = new)
    BY <1>0, <2>1 DEF ScanType
  <2>4. \A s \in active[a] : s.ack.hello = h => s.ack.hello.from = a
    BY <2>1 DEF Answering
  <2> HIDE DEF new
  <2>5. Numbered'
    BY <1>0, <2>2, <2>3
  <2>9. Routed' /\ ScansOpen'
    <3>1. ScansShrink
      BY <2>3 DEF ScansShrink
    <3> QED
      BY <1>0, <2>3, <3>1, ScansStayRouted
  <2>6. Owned'
    BY <1>0, <2>2, <2>3
  <2>7. OneSessionPerHello'
    BY <1>0, <2>2, <2>3, <2>4
  <2>8. DowngradeIsFinal'
    BY <1>0, <2>2, <2>3
  <2> QED
    BY <2>5, <2>6, <2>7, <2>8, <2>9
<1>5. ASSUME \/ \E a \in Agents : PassAck(a) \/ PassHello(a) \/ AnswerAgain(a) \/ Close(a) \/ Speak(a)
             \/ \E c \in Downgraded : WritePlaintext(c)
             \/ UNCHANGED vars
      PROVE  Numbered' /\ Owned' /\ Routed' /\ ScansOpen'
                 /\ OneSessionPerHello' /\ DowngradeIsFinal'
  <2>1. /\ UNCHANGED <<pending, blocked, hellos, made, lives>>
        /\ \A b \in Agents : /\ scan'[b].ctx = scan[b].ctx
                             /\ scan'[b].hellos \subseteq scan[b].hellos
                             /\ active'[b] \subseteq active[b]
    <3>1. CASE \E a \in Agents : PassAck(a)
      BY <1>0, <3>1 DEF PassAck, edge, history, ScanType
    <3>2. CASE \E a \in Agents : PassHello(a)
      BY <1>0, <3>2 DEF PassHello, edge, history, ScanType
    <3>3. CASE \E a \in Agents : AnswerAgain(a)
      BY <1>0, <3>3 DEF AnswerAgain, ScanType
    <3>4. CASE \E a \in Agents : Close(a)
      BY <1>0, <3>4 DEF Close, edge
    <3>5. CASE \E a \in Agents : Speak(a)
      BY <1>0, <3>5 DEF Speak, managers, history
    <3>6. CASE \E c \in Downgraded : WritePlaintext(c)
      BY <1>0, <3>6 DEF WritePlaintext, managers, history
    <3>7. CASE UNCHANGED vars
      BY <1>0, <3>7 DEF vars, managers, edge, history
    <3> QED
      BY <1>5, <3>1, <3>2, <3>3, <3>4, <3>5, <3>6, <3>7
  <2>2. Numbered' /\ Owned'
    BY <1>0, <2>1
  <2>4. Routed' /\ ScansOpen'
    <3>1. ScansShrink
      BY <2>1 DEF ScansShrink
    <3> QED
      BY <1>0, <2>1, <3>1, ScansStayRouted
  <2>3. OneSessionPerHello' /\ DowngradeIsFinal'
    BY <1>0, <2>1
  <2> QED
    BY <2>2, <2>3, <2>4
<1>6. ASSUME NEW a \in Agents, Downgrade(a)
      PROVE  Numbered' /\ Owned' /\ Routed' /\ ScansOpen'
                 /\ OneSessionPerHello' /\ DowngradeIsFinal'
  <2>1. /\ UNCHANGED <<hellos, made, lives>>
        /\ scan'[a].hellos = {}
        /\ \A b \in Agents :
               /\ pending'[b] \subseteq pending[b] /\ active'[b] \subseteq active[b]
               /\ b # a => scan'[b] = scan[b] /\ blocked'[b] = blocked[b]
        /\ \A q \in pending'[a] : q.hello.ctx # scan[a].ctx
        /\ \A s \in active'[a] : s.ack.hello.ctx # scan[a].ctx
        /\ blocked'[a] = blocked[a] \cup {scan[a].ctx}
    BY <1>0, <1>6 DEF Downgrade, StoppedScan, Idle, edge, history
  <2>2. \A b \in Agents : b # a =>
            scan'[b].hellos = scan[b].hellos /\ scan'[b].ctx = scan[b].ctx
    BY <2>1
  <2>3. Numbered' /\ Owned'
    BY <1>0, <2>1, <2>2
  <2>6. Routed' /\ ScansOpen'
    <3>1. ScansShrink
      BY <2>1, <2>2 DEF ScansShrink
    <3> QED
      BY <1>0, <2>1, <3>1, ScansStayRouted
  <2>4. OneSessionPerHello'
    BY <1>0, <2>1
  <2>5. DowngradeIsFinal'
    BY <1>0, <2>1
  <2> QED
    BY <2>3, <2>4, <2>5, <2>6
<1>7. ASSUME NEW a \in Agents, FinishOpen(a)
      PROVE  Numbered' /\ Owned' /\ Routed' /\ ScansOpen'
                 /\ OneSessionPerHello' /\ DowngradeIsFinal'
  <2> DEFINE heard == Heard(a)
  <2>1. /\ UNCHANGED <<pending, blocked, hellos, made, lives>>
        /\ scan'[a].hellos = {}
        /\ \A b \in Agents : b # a => scan'[b] = scan[b] /\ active'[b] = active[b]
        /\ active'[a] = (active[a] \ heard) \cup {[s EXCEPT !.state = "Established"] : s \in heard}
    BY <1>0, <1>7 DEF FinishOpen, Idle, edge, history
  <2>2. \A b \in Agents : b # a =>
            scan'[b].hellos = scan[b].hellos /\ scan'[b].ctx = scan[b].ctx
    BY <2>1
  <2>3. \A s \in active'[a] : \E t \in active[a] :
            /\ s.ack = t.ack
            /\ IF t \in heard THEN s = [t EXCEPT !.state = "Established"] ELSE s = t
    <3>1. \A t \in active[a] : [t EXCEPT !.state = "Established"].ack = t.ack
      BY <1>0 DEF Session
    <3> QED
      BY <2>1, <3>1 DEF Heard
  <2> HIDE DEF heard
  <2>4. \A s, t \in active'[a] : s.ack.hello = t.ack.hello => s = t
    <3> SUFFICES ASSUME NEW s \in active'[a], NEW t \in active'[a],
                        s.ack.hello = t.ack.hello
                 PROVE  s = t
      OBVIOUS
    <3>1. PICK u \in active[a] :
              /\ s.ack = u.ack
              /\ IF u \in heard THEN s = [u EXCEPT !.state = "Established"] ELSE s = u
      BY <2>3
    <3>2. PICK v \in active[a] :
              /\ t.ack = v.ack
              /\ IF v \in heard THEN t = [v EXCEPT !.state = "Established"] ELSE t = v
      BY <2>3
    <3>3. u = v
      BY <1>0, <3>1, <3>2
    <3> QED
      BY <3>1, <3>2, <3>3
  <2>5. \A b \in Agents : \A s \in active'[b] : \E t \in active[b] : s.ack = t.ack
    BY <2>1, <2>3
  <2>13. \A b \in Agents : \A s \in active'[b] : s.ack.hello.n <= made
    BY <1>0, <2>5
  <2>14. \A b \in Agents : \A h \in scan'[b].hellos : h.n <= made
    BY <1>0, <2>1, <2>2
  <2>6. Numbered'
    BY <1>0, <2>1, <2>13, <2>14
  <2>7. Owned'
    BY <1>0, <2>1, <2>5
  <2>8. Routed' /\ ScansOpen'
    <3>1. ScansShrink
      BY <2>1, <2>2 DEF ScansShrink
    <3> QED
      BY <1>0, <2>1, <3>1, ScansStayRouted
  <2>9. \A b \in Agents : \A s, t \in active'[b] : s.ack.hello = t.ack.hello => s = t
    BY <1>0, <2>1, <2>4
  <2>10. \A b \in Agents : \A q \in pending[b], s \in active'[b] : q.hello # s.ack.hello
    BY <1>0, <2>5
  <2>11. OneSessionPerHello'
    BY <1>0, <2>1, <2>9, <2>10
  <2>15. \A b \in Agents : \A s \in active'[b] : s.ack.hello.ctx \notin blocked[b]
    <3> SUFFICES ASSUME NEW b \in Agents, NEW s \in active'[b]
                 PROVE  s.ack.hello.ctx \notin blocked[b]
      OBVIOUS
    <3>1. PICK t \in active[b] : s.ack = t.ack
      BY <2>5
    <3> QED
      BY <1>0, <3>1
  <2>12. DowngradeIsFinal'
    BY <1>0, <2>1, <2>15
  <2> QED
    BY <2>6, <2>7, <2>8, <2>11, <2>12
<1>8. ASSUME NEW a \in Agents, Restart(a)
      PROVE  Numbered' /\ Owned' /\ Routed' /\ ScansOpen'
                 /\ OneSessionPerHello' /\ DowngradeIsFinal'
  <2>1. /\ UNCHANGED <<hellos, made>>
        /\ pending'[a] = {} /\ active'[a] = {} /\ scan'[a].hellos = {}
        /\ \A b \in Agents : b # a =>
               /\ pending'[b] = pending[b] /\ active'[b] = active[b] /\ lives'[b] = lives[b]
               /\ scan'[b].hellos = scan[b].hellos /\ scan'[b].ctx = scan[b].ctx
               /\ blocked'[b] = blocked[b]
    BY <1>0, <1>8 DEF Restart, Idle, edge
  <2>2. \A b \in Agents : \/ b = a
                          \/ /\ b # a
                             /\ pending'[b] = pending[b] /\ active'[b] = active[b]
                             /\ lives'[b] = lives[b] /\ blocked'[b] = blocked[b]
                             /\ scan'[b].hellos = scan[b].hellos /\ scan'[b].ctx = scan[b].ctx
    BY <2>1
  <2>3. Numbered'
    BY <1>0, <2>1, <2>2
  <2>4. Owned'
    BY <1>0, <2>1, <2>2
  <2>5. Routed' /\ ScansOpen'
    <3>1. ScansShrink
      BY <2>1, <2>2 DEF ScansShrink
    <3> QED
      BY <1>0, <2>1, <3>1, ScansStayRouted
  <2>6. OneSessionPerHello'
    BY <1>0, <2>1, <2>2
  <2>7. DowngradeIsFinal'
    BY <1>0, <2>1, <2>2
  <2> QED
    BY <2>3, <2>4, <2>5, <2>6, <2>7
<1> QED
  BY <1>1, <1>2, <1>3, <1>4, <1>5, <1>6, <1>7, <1>8 DEF Next, ScanStep

-----------------------------------------------------------------------------
(* The theorems *)

\* HandshakeInv holds throughout every run, so the managers, the edge and the
\* memory of hellos stay in their types and bounds.
THEOREM HandshakeInvariant == Spec => []HandshakeInv
<1>1. Init => HandshakeInv
  BY InitInv
<1>2. HandshakeInv /\ [Next]_vars => HandshakeInv'
  BY StepInv
<1> QED
  BY <1>1, <1>2, PTL DEF Spec

\* The type invariant of the handshake.
THEOREM HandshakeTypes == Spec => []TypeOK
<1>1. HandshakeInv => TypeOK
  BY DEF HandshakeInv, Types
<1> QED
  BY <1>1, HandshakeInvariant, PTL

\* No manager ever holds two sessions, or a session and a pending hello, of one
\* hello, whatever is met again, forgotten, evicted or lost.
THEOREM OneSession == Spec => []OneSessionPerHello
<1>1. HandshakeInv => OneSessionPerHello
  BY DEF HandshakeInv
<1> QED
  BY <1>1, HandshakeInvariant, PTL

\* No handshake outlives the downgrade of its context.
THEOREM DowngradesAreFinal == Spec => []DowngradeIsFinal
<1>1. HandshakeInv => DowngradeIsFinal
  BY DEF HandshakeInv
<1> QED
  BY <1>1, HandshakeInvariant, PTL

-----------------------------------------------------------------------------
(* Both ends agree on every session *)

\* Acks lie on the edge, and are met by scans, only when they were made; nothing is
\* said in a session whose ack is not there.
AgreeInv ==
    /\ acks \subseteq {z.ack : z \in answered}
    /\ spoken \subseteq acks
    /\ \A a \in Agents : scan[a].acks \subseteq acks
    /\ SessionsAgree

LEMMA AgreeInit == Init => AgreeInv
BY DEF Init, AgreeInv, SessionsAgree, Idle

\* What a session agrees on is not undone while its guardian lives.
LEMMA AgreedStays ==
    ASSUME SessionsAgree, acks \subseteq acks', spoken \subseteq spoken', answered \subseteq answered',
           \A b \in Agents : \A s \in active'[b] : s \in active[b] /\ lives'[b] = lives[b]
    PROVE  SessionsAgree'
BY DEF SessionsAgree, Initiated

\* A completed handshake: the ack was on the edge, and answers a hello of this life.
LEMMA CompleteAgrees ==
    ASSUME HandshakeInv, AgreeInv, NEW a \in Agents, Complete(a)
    PROVE  AgreeInv'
<1>0. /\ active \in [Agents -> SUBSET Session] /\ scan \in [Agents -> ScanType]
      /\ acks \subseteq {z.ack : z \in answered} /\ spoken \subseteq acks /\ SessionsAgree
      /\ \A b \in Agents : scan[b].acks \subseteq acks
  BY DEF HandshakeInv, Types, TypeOK, ScansTyped, AgreeInv
<1>1. PICK k \in scan[a].acks : \E p \in Completing(a, k) :
          /\ active' = [active EXCEPT ![a] =
                 @ \cup {[ack |-> k, state |-> "Established", order |-> p.order]}]
          /\ scan' = [scan EXCEPT ![a].acks = @ \ {k}]
          /\ UNCHANGED <<edge, history>>
  BY DEF Complete
<1>2. PICK p \in Completing(a, k) :
          /\ active' = [active EXCEPT ![a] =
                 @ \cup {[ack |-> k, state |-> "Established", order |-> p.order]}]
          /\ scan' = [scan EXCEPT ![a].acks = @ \ {k}]
          /\ UNCHANGED <<edge, history>>
  BY <1>1
<1> DEFINE new == [ack |-> k, state |-> "Established", order |-> p.order]
<1>3. /\ new.ack = k /\ k \in acks /\ \E z \in answered : z.ack = k
      /\ k.hello.from = a /\ k.hello.life = lives[a]
  <2>1. p \in pending[a] /\ p.hello = k.hello
    BY <1>2 DEF Completing
  <2> QED
    BY <1>0, <2>1 DEF HandshakeInv, Owned
<1> HIDE DEF new
<1>4. /\ UNCHANGED <<acks, spoken, answered, lives>>
      /\ \A b \in Agents : /\ \A s \in active'[b] : s \in active[b] \/ (b = a /\ s = new)
                           /\ scan'[b].acks \subseteq scan[b].acks
  BY <1>0, <1>2 DEF edge, history, ScanType, new
<1>5. ASSUME NEW b \in Agents, NEW s \in active'[b]
      PROVE  IF s.ack.hello.from = b
             THEN /\ s.ack.hello.life = lives[b]
                  /\ s.ack \in acks
                  /\ \E z \in answered : z.ack = s.ack
             ELSE /\ s.ack.hello.to = b
                  /\ [ack |-> s.ack, life |-> lives[b]] \in answered
                  /\ s.state = "Established" => s.ack \in spoken \cap acks
  <2>1. CASE s \in active[b]
    BY <1>0, <2>1 DEF SessionsAgree, Initiated
  <2>2. CASE b = a /\ s = new
    BY <1>3, <2>2
  <2> QED
    BY <1>4, <1>5, <2>1, <2>2
<1>6. SessionsAgree'
  BY <1>4, <1>5 DEF SessionsAgree, Initiated
<1> QED
  BY <1>0, <1>4, <1>6 DEF AgreeInv

\* An answer makes the ack of its session, whether or not it reaches the edge.
LEMMA AnswerAgrees ==
    ASSUME HandshakeInv, AgreeInv, NEW a \in Agents, Answer(a)
    PROVE  AgreeInv'
<1>0. /\ active \in [Agents -> SUBSET Session] /\ scan \in [Agents -> ScanType]
      /\ acks \subseteq {z.ack : z \in answered} /\ spoken \subseteq acks /\ SessionsAgree
      /\ \A b \in Agents : scan[b].acks \subseteq acks
  BY DEF HandshakeInv, Types, TypeOK, ScansTyped, AgreeInv
<1>1. PICK h \in scan[a].hellos :
          LET k    == [hello |-> h, n |-> Cardinality(answered) + 1]
              kept == active[a] \ Evicted(a, h.from)
              new  == [ack |-> k, state |-> "AckSent", order |-> order[a] + 1]
          IN  /\ active' = [active EXCEPT ![a] = kept \cup {new}]
              /\ answered' = answered \cup {[ack |-> k, life |-> lives[a]]}
              /\ WriteAck(k)
              /\ scan' = [scan EXCEPT ![a].hellos = @ \ {h}]
              /\ UNCHANGED <<spoken, lives>>
  BY DEF Answer
<1> DEFINE k   == [hello |-> h, n |-> Cardinality(answered) + 1]
           new == [ack |-> k, state |-> "AckSent", order |-> order[a] + 1]
           z   == [ack |-> k, life |-> lives[a]]
<1>2. /\ new.ack = k /\ new.state = "AckSent" /\ k.hello = h /\ z.ack = k
      /\ h.to = a /\ h.from # a
  BY DEF HandshakeInv, Routed
<1>3. /\ UNCHANGED <<spoken, lives>> /\ answered' = answered \cup {z}
      /\ acks \subseteq acks' /\ acks' \subseteq acks \cup {k}
      /\ \A b \in Agents : /\ \A s \in active'[b] : s \in active[b] \/ (b = a /\ s = new)
                           /\ scan'[b].acks \subseteq scan[b].acks
  BY <1>0, <1>1 DEF WriteAck, ScanType
<1>4. z \in answered' /\ z = [ack |-> new.ack, life |-> lives'[a]]
  BY <1>2, <1>3
<1> HIDE DEF new, k, z
<1>5. SessionsAgree'
  <2> SUFFICES ASSUME NEW b \in Agents, NEW s \in active'[b]
               PROVE  IF Initiated(b, s)
                      THEN /\ s.ack.hello.life = lives'[b]
                           /\ s.ack \in acks'
                           /\ \E y \in answered' : y.ack = s.ack
                      ELSE /\ s.ack.hello.to = b
                           /\ [ack |-> s.ack, life |-> lives'[b]] \in answered'
                           /\ s.state = "Established" => s.ack \in spoken' \cap acks'
    BY DEF SessionsAgree, Initiated
  <2>1. CASE s \in active[b]
    BY <1>0, <1>3, <2>1 DEF SessionsAgree
  <2>2. CASE b = a /\ s = new
    BY <1>2, <1>4, <2>2 DEF Initiated
  <2> QED
    BY <1>3, <2>1, <2>2
<1>6. acks' \subseteq {y.ack : y \in answered'}
  BY <1>0, <1>2, <1>3
<1> QED
  BY <1>0, <1>3, <1>5, <1>6 DEF AgreeInv

\* A message that opens was spoken by the initiator, who read the ack on the edge.
LEMMA FinishAgrees ==
    ASSUME HandshakeInv, AgreeInv, NEW a \in Agents, FinishOpen(a)
    PROVE  AgreeInv'
<1>0. /\ active \in [Agents -> SUBSET Session] /\ scan \in [Agents -> ScanType]
      /\ acks \subseteq {z.ack : z \in answered} /\ spoken \subseteq acks /\ SessionsAgree
      /\ \A b \in Agents : scan[b].acks \subseteq acks
  BY DEF HandshakeInv, Types, TypeOK, ScansTyped, AgreeInv
<1>1. /\ active'[a] = (active[a] \ Heard(a))
                          \cup {[s EXCEPT !.state = "Established"] : s \in Heard(a)}
      /\ \A b \in Agents : b # a => active'[b] = active[b]
      /\ UNCHANGED <<acks, spoken, answered, lives>>
      /\ \A b \in Agents : scan'[b].acks \subseteq scan[b].acks
  BY <1>0 DEF FinishOpen, Idle, edge, history
<1>2. \A t \in Heard(a) : /\ t \in active[a] /\ t.ack \in spoken
                         /\ [t EXCEPT !.state = "Established"].ack = t.ack
  BY <1>0 DEF Heard, Session
<1>3. ASSUME NEW b \in Agents, NEW s \in active'[b]
      PROVE  \/ s \in active[b]
             \/ \E t \in active[b] : s.ack = t.ack /\ t.ack \in spoken
  <2>1. CASE b = a
    <3>1. CASE s \in active[a] \ Heard(a)
      BY <2>1, <3>1
    <3>2. CASE \E t \in Heard(a) : s = [t EXCEPT !.state = "Established"]
      BY <1>2, <2>1, <3>2
    <3>3. s \in (active[a] \ Heard(a)) \cup {[t EXCEPT !.state = "Established"] : t \in Heard(a)}
      BY <1>1, <2>1
    <3> QED
      BY <3>1, <3>2, <3>3
  <2>2. CASE b # a
    BY <1>1, <2>2
  <2> QED
    BY <2>1, <2>2
<1>4. SessionsAgree'
  <2> SUFFICES ASSUME NEW b \in Agents, NEW s \in active'[b]
               PROVE  IF Initiated(b, s)
                      THEN /\ s.ack.hello.life = lives[b]
                           /\ s.ack \in acks
                           /\ \E y \in answered : y.ack = s.ack
                      ELSE /\ s.ack.hello.to = b
                           /\ [ack |-> s.ack, life |-> lives[b]] \in answered
                           /\ s.state = "Established" => s.ack \in spoken \cap acks
    BY <1>1 DEF SessionsAgree, Initiated
  <2>1. CASE s \in active[b]
    BY <1>0, <2>1 DEF SessionsAgree
  <2>2. CASE \E t \in active[b] : s.ack = t.ack /\ t.ack \in spoken
    <3>1. PICK t \in active[b] : s.ack = t.ack /\ t.ack \in spoken
      BY <2>2
    <3>2. s.ack \in spoken \cap acks
      BY <1>0, <3>1
    <3>3. IF Initiated(b, t)
          THEN /\ t.ack.hello.life = lives[b]
               /\ t.ack \in acks
               /\ \E y \in answered : y.ack = t.ack
          ELSE /\ t.ack.hello.to = b
               /\ [ack |-> t.ack, life |-> lives[b]] \in answered
      BY <1>0 DEF SessionsAgree
    <3> QED
      BY <3>1, <3>2, <3>3 DEF Initiated
  <2> QED
    BY <1>3, <2>1, <2>2
<1> QED
  BY <1>0, <1>1, <1>4 DEF AgreeInv

LEMMA AgreeStep == HandshakeInv /\ AgreeInv /\ [Next]_vars => AgreeInv'
<1> SUFFICES ASSUME HandshakeInv, AgreeInv, [Next]_vars
             PROVE  AgreeInv'
  OBVIOUS
<1>0. /\ active \in [Agents -> SUBSET Session] /\ scan \in [Agents -> ScanType]
      /\ acks \subseteq {z.ack : z \in answered} /\ spoken \subseteq acks /\ SessionsAgree
      /\ \A b \in Agents : scan[b].acks \subseteq acks
  BY DEF HandshakeInv, Types, TypeOK, ScansTyped, AgreeInv
<1>1. ASSUME NEW a \in Agents, AnswerAgain(a)
      PROVE  AgreeInv'
  <2>1. PICK h \in scan[a].hellos : \E s \in Answering(a, h) :
            /\ WriteAck(s.ack)
            /\ scan' = [scan EXCEPT ![a].hellos = @ \ {h}]
            /\ UNCHANGED <<active, spoken, answered, lives>>
    BY <1>1 DEF AnswerAgain
  <2>2. PICK s \in Answering(a, h) :
            /\ WriteAck(s.ack)
            /\ scan' = [scan EXCEPT ![a].hellos = @ \ {h}]
            /\ UNCHANGED <<active, spoken, answered, lives>>
    BY <2>1
  <2>3. [ack |-> s.ack, life |-> lives[a]] \in answered
    BY <1>0, <2>2 DEF Answering, SessionsAgree
  <2>4. s.ack \in {z.ack : z \in answered}
    <3>1. [ack |-> s.ack, life |-> lives[a]].ack = s.ack
      OBVIOUS
    <3> QED
      BY <2>3, <3>1
  <2>5. /\ acks \subseteq acks' /\ acks' \subseteq acks \cup {s.ack}
        /\ \A b \in Agents : scan'[b].acks \subseteq scan[b].acks
    BY <1>0, <2>2 DEF WriteAck, ScanType
  <2>6. SessionsAgree'
    BY <1>0, <2>2, <2>5, AgreedStays
  <2> QED
    BY <1>0, <2>2, <2>4, <2>5, <2>6 DEF AgreeInv
<1>2. ASSUME NEW a \in Agents, Speak(a)
      PROVE  AgreeInv'
  <2>1. PICK s \in active[a] : Initiated(a, s) /\ spoken' = spoken \cup {s.ack}
    BY <1>2 DEF Speak
  <2>2. s.ack \in acks
    BY <1>0, <2>1 DEF SessionsAgree
  <2>3. UNCHANGED <<active, scan, acks, answered, lives>>
    BY <1>2 DEF Speak, managers, history
  <2>4. SessionsAgree'
    BY <1>0, <2>1, <2>3, AgreedStays
  <2> QED
    BY <1>0, <2>1, <2>2, <2>3, <2>4 DEF AgreeInv
<1>3. ASSUME NEW a \in Agents, NEW c \in Contexts, StartOpen(a, c)
      PROVE  AgreeInv'
  <2>1. /\ UNCHANGED <<active, acks, spoken, answered, lives>>
        /\ \A b \in Agents : scan'[b].acks \subseteq acks
    BY <1>0, <1>3 DEF StartOpen, edge, history, ScanType
  <2>2. SessionsAgree'
    BY <1>0, <2>1, AgreedStays
  <2> QED
    BY <1>0, <2>1, <2>2 DEF AgreeInv
<1>4. ASSUME NEW a \in Agents, Restart(a)
      PROVE  AgreeInv'
  <2>1. /\ UNCHANGED <<acks, spoken, answered>> /\ active'[a] = {}
        /\ \A b \in Agents : /\ b # a => active'[b] = active[b] /\ lives'[b] = lives[b]
                             /\ scan'[b].acks \subseteq acks
    BY <1>0, <1>4 DEF Restart, Idle, edge, HandshakeInv, Types, TypeOK
  <2>2. \A b \in Agents : \A s \in active'[b] : s \in active[b] /\ lives'[b] = lives[b]
    BY <2>1
  <2>3. SessionsAgree'
    BY <1>0, <2>1, <2>2, AgreedStays
  <2> QED
    BY <1>0, <2>1, <2>3 DEF AgreeInv
<1>5. ASSUME \/ \E a, peer \in Agents, c \in Contexts : Initiate(a, peer, c)
             \/ \E a \in Agents : PassAck(a) \/ PassHello(a) \/ Downgrade(a) \/ Close(a)
             \/ \E c \in Downgraded : WritePlaintext(c)
             \/ UNCHANGED vars
      PROVE  AgreeInv'
  <2>1. /\ UNCHANGED <<acks, spoken, answered, lives>>
        /\ \A b \in Agents : active'[b] \subseteq active[b] /\ scan'[b].acks \subseteq acks
    <3>1. CASE \E a, peer \in Agents, c \in Contexts : Initiate(a, peer, c)
      BY <1>0, <3>1 DEF Initiate
    <3>2. CASE \E a \in Agents : PassAck(a)
      BY <1>0, <3>2 DEF PassAck, edge, history, ScanType
    <3>3. CASE \E a \in Agents : PassHello(a)
      BY <1>0, <3>3 DEF PassHello, edge, history, ScanType
    <3>4. CASE \E a \in Agents : Downgrade(a)
      BY <1>0, <3>4 DEF Downgrade, StoppedScan, Idle, edge, history
    <3>5. CASE \E a \in Agents : Close(a)
      BY <1>0, <3>5 DEF Close, edge
    <3>6. CASE \E c \in Downgraded : WritePlaintext(c)
      BY <1>0, <3>6 DEF WritePlaintext, managers, history
    <3>7. CASE UNCHANGED vars
      BY <1>0, <3>7 DEF vars, managers, edge, history
    <3> QED
      BY <1>5, <3>1, <3>2, <3>3, <3>4, <3>5, <3>6, <3>7
  <2>2. SessionsAgree'
    BY <1>0, <2>1, AgreedStays
  <2> QED
    BY <1>0, <2>1, <2>2 DEF AgreeInv
<1> QED
  BY <1>1, <1>2, <1>3, <1>4, <1>5, CompleteAgrees, AnswerAgrees, FinishAgrees DEF Next, ScanStep

\* A session its initiator holds is of its present life and of an ack its addressee
\* made; one that was answered is of an ack made in the present life of its holder,
\* and established only on what the initiator said in it (SessionManager::respond,
\* complete, open_authenticated).
THEOREM EndsAgree == Spec => []SessionsAgree
<1>1. Init => AgreeInv
  BY AgreeInit
<1>2. HandshakeInv /\ AgreeInv /\ [Next]_vars => AgreeInv'
  BY AgreeStep
<1>3. AgreeInv => SessionsAgree
  BY DEF AgreeInv
<1> QED
  BY <1>1, <1>2, <1>3, HandshakeInvariant, PTL DEF Spec

-----------------------------------------------------------------------------
(* The bound on half-done handshakes *)

LEMMA LeastNumber ==
    ASSUME NEW T \in SUBSET Nat, T # {} PROVE \E t \in T : \A u \in T : t <= u
<1> DEFINE R == {ss \in Nat \X Nat : ss[1] < ss[2]}
<1>1. IsWellFoundedOn(R, Nat)
  BY NatLessThanWellFounded, Zenon DEF OpToRel
<1>2. PICK t \in T : \A u \in T : ~ (<<u, t>> \in R)
  BY <1>1, WFMin
<1>3. \A u \in T : ~ (u < t)
  BY <1>2
<1> QED
  BY <1>3

\* Of things in an order, at most n have fewer than n after them: the first of
\* them has all the others after it.
LEMMA FewAreRecent ==
    ASSUME NEW S, IsFiniteSet(S), NEW n \in Nat,
           \A x \in S : x.order \in Nat,
           \A x, y \in S : x.order = y.order => x = y,
           NEW K \in SUBSET S,
           \A x \in K : Cardinality({y \in S : y.order > x.order}) < n
    PROVE  IsFiniteSet(K) /\ Cardinality(K) <= n
<1>1. IsFiniteSet(K) /\ Cardinality(K) \in Nat /\ K \subseteq S
  BY FS_Subset, FS_CardinalityType
<1>2. CASE K = {}
  BY <1>2, FS_EmptySet
<1>3. CASE K # {}
  <2> DEFINE T == {x.order : x \in K}
  <2>1. T \in SUBSET Nat /\ T # {}
    BY <1>1, <1>3
  <2>2. PICK t \in T : \A u \in T : t <= u
    BY <2>1, LeastNumber
  <2>3. PICK x \in K : x.order = t
    BY <2>2
  <2> DEFINE After == {y \in S : y.order > x.order}
  <2>4. Cardinality(After) < n
    BY <2>3
  <2>5. K \ {x} \subseteq After
    <3> SUFFICES ASSUME NEW y \in K, y # x PROVE y \in After
      OBVIOUS
    <3>1. x \in S /\ y \in S /\ x.order \in Nat /\ y.order \in Nat
      BY <1>1, <2>3
    <3>2. x.order <= y.order
      BY <2>2, <2>3
    <3>3. x.order # y.order
      BY <3>1
    <3>4. x.order < y.order
      BY <3>1, <3>2, <3>3
    <3> QED
      BY <3>1, <3>4
  <2>6. IsFiniteSet(After) /\ Cardinality(After) \in Nat
    BY FS_Subset, FS_CardinalityType
  <2>7. Cardinality(K \ {x}) <= Cardinality(After)
    BY <2>5, <2>6, FS_Subset
  <2>8. Cardinality(K \ {x}) = Cardinality(K) - 1
    BY <1>1, <2>3, FS_RemoveElement
  <2> HIDE DEF After
  <2> QED
    BY <1>1, <2>4, <2>6, <2>7, <2>8
<1> QED
  BY <1>2, <1>3

\* What a manager keeps is in the order it was taken in, and no two share a place.
OrdersApart ==
    \A a \in Agents :
        /\ \A x \in pending[a] \cup active[a] : x.order \in Nat /\ x.order <= order[a]
        /\ \A p, q \in pending[a] : p.order = q.order => p = q
        /\ \A s, t \in active[a] : s.order = t.order => s = t
        /\ \A p \in pending[a], s \in active[a] : p.order # s.order

UnopenedFinite == \A a, peer \in Agents : IsFiniteSet(Unopened(a, peer))

\* The bound is inductive together with the order the eviction goes by.
BoundInv == OrdersApart /\ UnopenedFinite /\ UnopenedBounded

\* bound_pending makes room for one.
LEMMA RoomForOne ==
    ASSUME BoundInv, NEW a \in Agents, NEW peer \in Agents, NEW x,
           NEW T \in SUBSET ((Unopened(a, peer) \ Evicted(a, peer)) \cup {x})
    PROVE  IsFiniteSet(T) /\ Cardinality(T) <= MaxUnopened
<1> DEFINE S == Unopened(a, peer)
           K == S \ Evicted(a, peer)
           n == MaxUnopened - 1
<1>1. IsFiniteSet(S) /\ n \in Nat
  BY HandshakeBounds DEF BoundInv, UnopenedFinite
<1>2. \A y \in S : y \in pending[a] \/ y \in active[a]
  BY DEF Unopened
<1>3. /\ \A y \in S : y.order \in Nat
      /\ \A y, z \in S : y.order = z.order => y = z
  BY <1>2 DEF BoundInv, OrdersApart
<1>4. ASSUME NEW y \in K
      PROVE  Cardinality({z \in S : z.order > y.order}) < n
  <2>1. IsFiniteSet({z \in S : z.order > y.order})
    BY <1>1, FS_Subset
  <2>2. Cardinality({z \in S : z.order > y.order}) \in Nat
    BY <2>1, FS_CardinalityType
  <2>3. ~ (Cardinality({z \in S : z.order > y.order}) >= MaxUnopened - 1)
    BY DEF Evicted
  <2> QED
    BY <1>1, <2>2, <2>3
<1>5. K \in SUBSET S /\ T \subseteq K \cup {x}
  OBVIOUS
<1> HIDE DEF S, K, n
<1>6. IsFiniteSet(K) /\ Cardinality(K) <= n
  BY <1>1, <1>3, <1>4, <1>5, FewAreRecent
<1>7. /\ IsFiniteSet(K \cup {x}) /\ Cardinality(K) \in Nat
      /\ Cardinality(K \cup {x}) = Cardinality(K) \/ Cardinality(K \cup {x}) = Cardinality(K) + 1
  BY <1>6, FS_AddElement, FS_CardinalityType
<1>8. IsFiniteSet(T) /\ Cardinality(T) <= Cardinality(K \cup {x}) /\ Cardinality(T) \in Nat
  BY <1>5, <1>7, FS_Subset, FS_CardinalityType
<1> QED
  BY <1>1, <1>6, <1>7, <1>8, HandshakeBounds DEF n

\* A step that only takes from what counts against the bounds.
LEMMA FewerUnopened ==
    ASSUME UnopenedFinite, UnopenedBounded, NEW a \in Agents, NEW peer \in Agents,
           NEW T \in SUBSET Unopened(a, peer)
    PROVE  IsFiniteSet(T) /\ Cardinality(T) <= MaxUnopened
<1>1. IsFiniteSet(Unopened(a, peer)) /\ Cardinality(Unopened(a, peer)) <= MaxUnopened
  BY DEF UnopenedFinite, UnopenedBounded
<1>2. /\ IsFiniteSet(T) /\ Cardinality(T) <= Cardinality(Unopened(a, peer))
      /\ Cardinality(T) \in Nat /\ Cardinality(Unopened(a, peer)) \in Nat
  BY <1>1, FS_Subset, FS_CardinalityType
<1> QED
  BY <1>1, <1>2, HandshakeBounds

LEMMA BoundInit == Init => BoundInv
<1> SUFFICES ASSUME Init PROVE BoundInv
  OBVIOUS
<1>1. \A a, peer \in Agents : Unopened(a, peer) = {}
  BY DEF Init, Unopened
<1>2. UnopenedFinite /\ UnopenedBounded
  BY <1>1, FS_EmptySet, HandshakeBounds DEF UnopenedFinite, UnopenedBounded
<1>3. OrdersApart
  BY DEF Init, OrdersApart
<1> QED
  BY <1>2, <1>3 DEF BoundInv

\* The request that takes in one more hello or session for a peer: the rest gives
\* way first.
LEMMA TakeIn ==
    ASSUME HandshakeInv, BoundInv, NEW a \in Agents, NEW peer \in Agents, NEW new,
           new.order = order[a] + 1,
           order' = [order EXCEPT ![a] = @ + 1],
           \/ /\ pending' = [pending EXCEPT ![a] = (@ \ Evicted(a, peer)) \cup {new}]
              /\ active' = [active EXCEPT ![a] = @ \ Evicted(a, peer)]
              /\ new.hello.to = peer
           \/ /\ pending' = [pending EXCEPT ![a] = @ \ Evicted(a, peer)]
              /\ active' = [active EXCEPT ![a] = (@ \ Evicted(a, peer)) \cup {new}]
              /\ PeerOf(a, new) = peer
    PROVE  BoundInv'
<1>0. /\ pending \in [Agents -> SUBSET Pending] /\ active \in [Agents -> SUBSET Session]
      /\ order \in [Agents -> Nat]
  BY DEF HandshakeInv, Types, TypeOK
<1>1. \A b \in Agents :
          b # a => pending'[b] = pending[b] /\ active'[b] = active[b] /\ order'[b] = order[b]
  BY <1>0
<1>2. /\ order'[a] = order[a] + 1
      /\ \/ /\ pending'[a] = (pending[a] \ Evicted(a, peer)) \cup {new}
            /\ active'[a] = active[a] \ Evicted(a, peer)
            /\ new.hello.to = peer
         \/ /\ pending'[a] = pending[a] \ Evicted(a, peer)
            /\ active'[a] = (active[a] \ Evicted(a, peer)) \cup {new}
            /\ PeerOf(a, new) = peer
  BY <1>0
<1>3. OrdersApart'
  <2>1. ASSUME NEW x \in pending[a] \cup active[a] PROVE x.order # new.order
    BY <1>0 DEF BoundInv, OrdersApart
  <2>2. /\ \A x \in pending'[a] \cup active'[a] : x.order \in Nat /\ x.order <= order'[a]
        /\ \A p, q \in pending'[a] : p.order = q.order => p = q
        /\ \A s, t \in active'[a] : s.order = t.order => s = t
        /\ \A p \in pending'[a], s \in active'[a] : p.order # s.order
    BY <1>0, <1>2, <2>1 DEF BoundInv, OrdersApart
  <2> QED
    BY <1>1, <2>2 DEF BoundInv, OrdersApart
<1>4. ASSUME NEW b \in Agents, NEW q \in Agents
      PROVE  IsFiniteSet(Unopened(b, q)') /\ Cardinality(Unopened(b, q)') <= MaxUnopened
  <2>1. CASE b = a /\ q = peer
    <3>1. Unopened(a, peer)' \in SUBSET ((Unopened(a, peer) \ Evicted(a, peer)) \cup {new})
      BY <1>2 DEF Unopened, PeerOf, Initiated
    <3> QED
      BY <2>1, <3>1, RoomForOne
  <2>2. CASE b = a /\ q # peer
    <3>1. Unopened(b, q)' \in SUBSET Unopened(b, q)
      BY <1>0, <1>2, <2>2 DEF Unopened, PeerOf, Initiated
    <3> QED
      BY <3>1, FewerUnopened DEF BoundInv
  <2>3. CASE b # a
    <3>1. Unopened(b, q)' \in SUBSET Unopened(b, q)
      BY <1>1, <2>3 DEF Unopened, PeerOf, Initiated
    <3> QED
      BY <3>1, FewerUnopened DEF BoundInv
  <2> QED
    BY <2>1, <2>2, <2>3
<1> QED
  BY <1>3, <1>4 DEF BoundInv, UnopenedFinite, UnopenedBounded

\* A step that takes in nothing new.
LEMMA TakeNothing ==
    ASSUME BoundInv,
           \A b \in Agents :
               /\ pending'[b] \subseteq pending[b] /\ active'[b] \subseteq active[b]
               /\ \/ order'[b] = order[b]
                  \/ pending'[b] = {} /\ active'[b] = {}
    PROVE  BoundInv'
<1>1. OrdersApart'
  BY DEF BoundInv, OrdersApart
<1>2. ASSUME NEW b \in Agents, NEW q \in Agents
      PROVE  IsFiniteSet(Unopened(b, q)') /\ Cardinality(Unopened(b, q)') <= MaxUnopened
  <2>1. Unopened(b, q)' \in SUBSET Unopened(b, q)
    BY DEF Unopened, PeerOf, Initiated
  <2> QED
    BY <2>1, FewerUnopened DEF BoundInv
<1> QED
  BY <1>1, <1>2 DEF BoundInv, UnopenedFinite, UnopenedBounded

\* A completed handshake leaves the bound, and takes over the place of its hello.
LEMMA CompleteKeepsBound ==
    ASSUME HandshakeInv, BoundInv, NEW a \in Agents, Complete(a)
    PROVE  BoundInv'
<1>0. /\ pending \in [Agents -> SUBSET Pending] /\ active \in [Agents -> SUBSET Session]
  BY DEF HandshakeInv, Types, TypeOK
<1>1. PICK k \in scan[a].acks : \E p \in Completing(a, k) :
          /\ pending' = [pending EXCEPT ![a] = @ \ {p}]
          /\ active' = [active EXCEPT ![a] =
                 @ \cup {[ack |-> k, state |-> "Established", order |-> p.order]}]
          /\ order' = order
  BY DEF Complete
<1>2. PICK p \in Completing(a, k) :
          /\ pending' = [pending EXCEPT ![a] = @ \ {p}]
          /\ active' = [active EXCEPT ![a] =
                 @ \cup {[ack |-> k, state |-> "Established", order |-> p.order]}]
          /\ order' = order
  BY <1>1
<1> DEFINE new == [ack |-> k, state |-> "Established", order |-> p.order]
<1>3. p \in pending[a] /\ new.order = p.order /\ new.state = "Established"
  BY DEF Completing
<1> HIDE DEF new
<1>4. /\ pending'[a] = pending[a] \ {p} /\ active'[a] = active[a] \cup {new}
      /\ \A b \in Agents : b # a => pending'[b] = pending[b] /\ active'[b] = active[b]
      /\ order' = order
  BY <1>0, <1>2 DEF new
<1>5. OrdersApart'
  <2>1. /\ \A x \in pending'[a] \cup active'[a] : x.order \in Nat /\ x.order <= order'[a]
        /\ \A q, r \in pending'[a] : q.order = r.order => q = r
        /\ \A s, t \in active'[a] : s.order = t.order => s = t
        /\ \A q \in pending'[a], s \in active'[a] : q.order # s.order
    BY <1>3, <1>4 DEF BoundInv, OrdersApart
  <2> QED
    BY <1>4, <2>1 DEF BoundInv, OrdersApart
<1>6. ASSUME NEW b \in Agents, NEW q \in Agents
      PROVE  IsFiniteSet(Unopened(b, q)') /\ Cardinality(Unopened(b, q)') <= MaxUnopened
  <2>1. Unopened(b, q)' \in SUBSET Unopened(b, q)
    BY <1>3, <1>4 DEF Unopened, PeerOf, Initiated
  <2> QED
    BY <2>1, FewerUnopened DEF BoundInv
<1> QED
  BY <1>5, <1>6 DEF BoundInv, UnopenedFinite, UnopenedBounded

\* Hearing a message opens sessions, in their places.
LEMMA FinishKeepsBound ==
    ASSUME HandshakeInv, BoundInv, NEW a \in Agents, FinishOpen(a)
    PROVE  BoundInv'
<1> DEFINE heard == Heard(a)
<1>0. active \in [Agents -> SUBSET Session]
  BY DEF HandshakeInv, Types, TypeOK
<1>1. /\ active'[a] = (active[a] \ heard) \cup {[s EXCEPT !.state = "Established"] : s \in heard}
      /\ \A b \in Agents : b # a => active'[b] = active[b]
      /\ UNCHANGED <<pending, order>>
  BY <1>0 DEF FinishOpen
<1>2. \A t \in heard : LET opened == [t EXCEPT !.state = "Established"]
                       IN  opened.order = t.order /\ opened.state = "Established"
  BY <1>0 DEF Session
<1>3. ASSUME NEW s \in active'[a]
      PROVE  \/ s \in active[a] \ heard
             \/ \E t \in heard : /\ s = [t EXCEPT !.state = "Established"]
                                 /\ s.order = t.order /\ s.state = "Established"
  BY <1>1, <1>2
<1>4. heard \subseteq active[a]
  BY DEF Heard
<1> HIDE DEF heard
<1>5. \A s \in active'[a] : \E t \in active[a] :
          /\ s.order = t.order
          /\ IF t \in heard THEN s = [t EXCEPT !.state = "Established"] ELSE s = t
  BY <1>3, <1>4
<1>6. OrdersApart'
  <2>1. /\ \A s \in active'[a] : s.order \in Nat /\ s.order <= order[a]
        /\ \A p \in pending[a], s \in active'[a] : p.order # s.order
    BY <1>5 DEF BoundInv, OrdersApart
  <2>2. ASSUME NEW s \in active'[a], NEW t \in active'[a], s.order = t.order PROVE s = t
    <3>1. PICK u \in active[a] :
              /\ s.order = u.order
              /\ IF u \in heard THEN s = [u EXCEPT !.state = "Established"] ELSE s = u
      BY <1>5
    <3>2. PICK v \in active[a] :
              /\ t.order = v.order
              /\ IF v \in heard THEN t = [v EXCEPT !.state = "Established"] ELSE t = v
      BY <1>5
    <3>3. u = v
      BY <2>2, <3>1, <3>2 DEF BoundInv, OrdersApart
    <3> QED
      BY <3>1, <3>2, <3>3
  <2> QED
    BY <1>1, <2>1, <2>2 DEF BoundInv, OrdersApart
<1>7. ASSUME NEW b \in Agents, NEW q \in Agents
      PROVE  IsFiniteSet(Unopened(b, q)') /\ Cardinality(Unopened(b, q)') <= MaxUnopened
  <2>1. Unopened(b, q)' \in SUBSET Unopened(b, q)
    BY <1>1, <1>3 DEF Unopened, PeerOf, Initiated
  <2> QED
    BY <2>1, FewerUnopened DEF BoundInv
<1> QED
  BY <1>6, <1>7 DEF BoundInv, UnopenedFinite, UnopenedBounded

LEMMA BoundStep == HandshakeInv /\ BoundInv /\ [Next]_vars => BoundInv'
<1> SUFFICES ASSUME HandshakeInv, BoundInv, [Next]_vars PROVE BoundInv'
  OBVIOUS
<1>0. /\ pending \in [Agents -> SUBSET Pending] /\ active \in [Agents -> SUBSET Session]
      /\ order \in [Agents -> Nat]
  BY DEF HandshakeInv, Types, TypeOK
<1>1. ASSUME NEW a \in Agents, NEW peer \in Agents, NEW c \in Contexts, Initiate(a, peer, c)
      PROVE  BoundInv'
  <2> DEFINE h   == [from |-> a, to |-> peer, ctx |-> c, n |-> made + 1, life |-> lives[a]]
             new == [hello |-> h, order |-> order[a] + 1]
  <2>1. /\ pending' = [pending EXCEPT ![a] = (@ \ Evicted(a, peer)) \cup {new}]
        /\ active' = [active EXCEPT ![a] = @ \ Evicted(a, peer)]
        /\ order' = [order EXCEPT ![a] = @ + 1]
    BY <1>1 DEF Initiate
  <2>2. new.order = order[a] + 1 /\ new.hello.to = peer
    OBVIOUS
  <2> HIDE DEF new
  <2> QED
    BY <2>1, <2>2, TakeIn
<1>2. ASSUME NEW a \in Agents, Answer(a)
      PROVE  BoundInv'
  <2>1. PICK h \in scan[a].hellos :
            LET new == [ack   |-> [hello |-> h, n |-> Cardinality(answered) + 1],
                        state |-> "AckSent", order |-> order[a] + 1]
            IN  /\ active' = [active EXCEPT ![a] = (@ \ Evicted(a, h.from)) \cup {new}]
                /\ pending' = [pending EXCEPT ![a] = @ \ Evicted(a, h.from)]
                /\ order' = [order EXCEPT ![a] = @ + 1]
    BY <1>2 DEF Answer
  <2> DEFINE new == [ack   |-> [hello |-> h, n |-> Cardinality(answered) + 1],
                     state |-> "AckSent", order |-> order[a] + 1]
  <2>2. h \in Hello /\ h.from # a
    BY DEF HandshakeInv, Types, ScansTyped, ScanType, Routed
  <2>3. h.from \in Agents
    BY <2>2 DEF Hello
  <2>4. new.order = order[a] + 1 /\ PeerOf(a, new) = h.from
    BY <2>2 DEF PeerOf, Initiated
  <2>5. /\ active' = [active EXCEPT ![a] = (@ \ Evicted(a, h.from)) \cup {new}]
        /\ pending' = [pending EXCEPT ![a] = @ \ Evicted(a, h.from)]
        /\ order' = [order EXCEPT ![a] = @ + 1]
    BY <2>1
  <2> HIDE DEF new
  <2> QED
    BY <2>3, <2>4, <2>5, TakeIn
<1>3. ASSUME \/ \E a \in Agents, c \in Contexts : StartOpen(a, c)
             \/ \E a \in Agents : \/ PassAck(a) \/ PassHello(a) \/ AnswerAgain(a)
                                   \/ Speak(a) \/ Close(a) \/ Downgrade(a) \/ Restart(a)
             \/ \E c \in Downgraded : WritePlaintext(c)
             \/ UNCHANGED vars
      PROVE  BoundInv'
  <2>1. \A b \in Agents :
            /\ pending'[b] \subseteq pending[b] /\ active'[b] \subseteq active[b]
            /\ \/ order'[b] = order[b]
               \/ pending'[b] = {} /\ active'[b] = {}
    <3>1. CASE \E a \in Agents, c \in Contexts : StartOpen(a, c)
      BY <3>1 DEF StartOpen
    <3>2. CASE \E a \in Agents : PassAck(a) \/ PassHello(a) \/ AnswerAgain(a) \/ Speak(a)
      BY <3>2 DEF PassAck, PassHello, AnswerAgain, Speak, managers
    <3>3. CASE \E a \in Agents : Close(a) \/ Downgrade(a)
      BY <1>0, <3>3 DEF Close, Downgrade
    <3>4. CASE \E a \in Agents : Restart(a)
      BY <1>0, <3>4 DEF Restart
    <3>5. CASE (\E c \in Downgraded : WritePlaintext(c)) \/ UNCHANGED vars
      BY <3>5 DEF WritePlaintext, vars, managers
    <3> QED
      BY <1>3, <3>1, <3>2, <3>3, <3>4, <3>5
  <2> QED
    BY <2>1, TakeNothing
<1>4. CASE \E a \in Agents : Complete(a) \/ FinishOpen(a)
  BY <1>4, CompleteKeepsBound, FinishKeepsBound
<1> QED
  BY <1>1, <1>2, <1>3, <1>4 DEF Next, ScanStep

\* Hellos sent and sessions answered, taken together, stay within the bound for
\* every peer: the eviction before each new one always finds enough to drop.
THEOREM HalfDoneIsBounded == Spec => []UnopenedBounded
<1>1. Init => BoundInv
  BY BoundInit
<1>2. HandshakeInv /\ BoundInv /\ [Next]_vars => BoundInv'
  BY BoundStep
<1>3. BoundInv => UnopenedBounded
  BY DEF BoundInv
<1> QED
  BY <1>1, <1>2, <1>3, HandshakeInvariant, PTL DEF Spec

-----------------------------------------------------------------------------
(* One answer to a hello *)

Distinct(s) == \A i, j \in DOMAIN s : s[i] = s[j] => i = j

\* What stands behind the i-th hello in the memory.
Behind(a, i) == {seen[a][j] : j \in i + 1 .. Len(seen[a])}

\* While the hello of an answer is remembered, all that stands behind it was taken
\* in since; once it is not, as many hellos were as the memory holds.
Covered(a, z) ==
    /\ \A i \in 1 .. Len(seen[a]) :
           seen[a][i] = z.ack.hello => Behind(a, i) \subseteq OthersSince(z.ack)
    /\ z.ack.hello \notin Range(seen[a]) => Cardinality(OthersSince(z.ack)) >= SeenLimit

\* The answers a guardian has given in its present life.
AnswersOf(a) == {z \in answered : z.ack.hello.to = a /\ z.life = lives[a]}

MemoryFaithful ==
    \A a \in Agents : Distinct(seen[a]) /\ \A z \in AnswersOf(a) : Covered(a, z)

\* Acks are numbered as they are made, and none is made in a life to come.
AnswersDated ==
    \A z \in answered : /\ z.ack.n \in Nat /\ z.ack.n <= Cardinality(answered)
                        /\ z.ack.hello.to \in Agents /\ z.life \in Nat
                        /\ z.life <= lives[z.ack.hello.to]

MemoryInv == MemoryFaithful /\ AnswersDated /\ IsFiniteSet(since) /\ AnsweredOnce

LEMMA OthersFinite ==
    ASSUME NEW E, IsFiniteSet(E), NEW k
    PROVE  /\ IsFiniteSet({o.hello : o \in {e \in E : e.ack = k}})
           /\ Cardinality({o.hello : o \in {e \in E : e.ack = k}}) \in Nat
<1> DEFINE W == {e \in E : e.ack = k}
           f == [e \in W |-> e.hello]
<1>1. IsFiniteSet(W)
  BY FS_Subset
<1>2. f \in Surjection(W, {o.hello : o \in W})
  BY DEF Surjection
<1> QED
  BY <1>1, <1>2, FS_Surjection, FS_CardinalityType

\* Nothing that was taken in since an ack is ever taken back.
LEMMA OthersGrow ==
    ASSUME IsFiniteSet(since'), since \subseteq since', NEW k
    PROVE  /\ OthersSince(k) \subseteq OthersSince(k)'
           /\ IsFiniteSet(OthersSince(k)') /\ Cardinality(OthersSince(k)') \in Nat
           /\ Cardinality(OthersSince(k)) \in Nat
           /\ Cardinality(OthersSince(k)) <= Cardinality(OthersSince(k)')
<1>1. OthersSince(k) \subseteq OthersSince(k)'
  BY DEF OthersSince
<1>2. IsFiniteSet(OthersSince(k)') /\ Cardinality(OthersSince(k)') \in Nat
  BY OthersFinite DEF OthersSince
<1> QED
  BY <1>1, <1>2, FS_Subset, FS_CardinalityType

\* Taking a hello in adds finitely many pairs.
LEMMA SinceFinite ==
    ASSUME HandshakeInv, MemoryInv, NEW a, NEW h, since' = since \cup TakenIn(a, h)
    PROVE  IsFiniteSet(since') /\ since \subseteq since'
<1> DEFINE W == {w \in answered : w.ack.hello.to = a /\ w.life = lives[a] /\ w.ack.hello # h}
           f == [z \in W |-> [ack |-> z.ack, hello |-> h]]
<1>1. IsFiniteSet(W)
  BY FS_Subset DEF HandshakeInv, Types
<1>2. f \in Surjection(W, TakenIn(a, h))
  BY DEF Surjection, TakenIn
<1>3. IsFiniteSet(TakenIn(a, h))
  BY <1>1, <1>2, FS_Surjection
<1> QED
  BY <1>3, FS_Union DEF MemoryInv

\* Remembering a hello that is not remembered: it goes to the end, and the first
\* goes when there is no room for it.
LEMMA Recalled ==
    ASSUME TypeOK, NEW a \in Agents, NEW h \in Hello, Distinct(seen[a]), ~ Seen(a, h),
           NEW t, t = Remember(a, h)
    PROVE  /\ Distinct(t) /\ DOMAIN t = 1 .. Len(t) /\ Len(t) \in Nat
           /\ \A i \in 1 .. Len(seen[a]) : seen[a][i] # h
           /\ \/ /\ Len(t) = Len(seen[a]) + 1 /\ t[Len(t)] = h
                 /\ \A i \in 1 .. Len(seen[a]) : t[i] = seen[a][i]
              \/ /\ Len(t) = Len(seen[a]) /\ Len(t) = SeenLimit
                 /\ \A i \in 1 .. Len(t) : i < Len(t) => t[i] = seen[a][i + 1]
                 /\ Len(t) > 0 => t[Len(t)] = h
<1> DEFINE s == seen[a]
           longer == Append(s, h)
<1>1. s \in Seq(Hello) /\ Len(s) <= SeenLimit /\ Len(s) \in Nat
  BY DEF TypeOK
<1>2. /\ longer \in Seq(Hello) /\ Len(longer) = Len(s) + 1
      /\ longer[Len(s) + 1] = h /\ \A i \in 1 .. Len(s) : longer[i] = s[i]
      /\ DOMAIN longer = 1 .. Len(s) + 1 /\ DOMAIN s = 1 .. Len(s)
  BY <1>1
<1>3. \A i \in 1 .. Len(s) : s[i] # h
  BY <1>2 DEF Seen, Range
<1>4. Distinct(longer)
  BY <1>1, <1>2, <1>3 DEF Distinct
<1>5. t = IF Len(longer) > SeenLimit THEN Tail(longer) ELSE longer
  BY DEF Remember, Seen
<1> HIDE DEF longer
<1>6. CASE Len(longer) > SeenLimit
  <2>1. Len(s) = SeenLimit
    BY <1>1, <1>2, <1>6, HandshakeBounds
  <2>2. /\ Len(t) = Len(s) /\ DOMAIN t = 1 .. Len(s)
        /\ \A i \in 1 .. Len(s) : t[i] = longer[i + 1]
    BY <1>1, <1>2, <1>5, <1>6
  <2>3. Distinct(t)
    <3> SUFFICES ASSUME NEW i \in 1 .. Len(s), NEW j \in 1 .. Len(s), t[i] = t[j]
                 PROVE  i = j
      BY <2>2 DEF Distinct
    <3>1. i + 1 \in DOMAIN longer /\ j + 1 \in DOMAIN longer /\ longer[i + 1] = longer[j + 1]
      BY <1>1, <1>2, <2>2
    <3>2. i + 1 = j + 1
      BY <1>4, <3>1 DEF Distinct
    <3> QED
      BY <1>1, <3>2
  <2>4. ASSUME NEW i \in 1 .. Len(t), i < Len(t) PROVE t[i] = s[i + 1]
    <3>1. i + 1 \in 1 .. Len(s) /\ i \in 1 .. Len(s)
      BY <1>1, <2>2, <2>4
    <3> QED
      BY <1>2, <2>2, <3>1
  <2>5. Len(t) > 0 => t[Len(t)] = h
    BY <1>1, <1>2, <2>2
  <2> QED
    BY <1>1, <1>3, <2>1, <2>2, <2>3, <2>4, <2>5
<1>7. CASE ~ (Len(longer) > SeenLimit)
  <2>1. t = longer
    BY <1>5, <1>7
  <2> QED
    BY <1>1, <1>2, <1>3, <1>4, <2>1
<1> QED
  BY <1>6, <1>7

LEMMA MemoryInit == Init => MemoryInv
<1> SUFFICES ASSUME Init PROVE MemoryInv
  OBVIOUS
<1>1. AnswersDated /\ AnsweredOnce /\ (\A a : AnswersOf(a) = {}) /\ IsFiniteSet(since)
  BY FS_EmptySet DEF Init, AnswersDated, AnsweredOnce, AnswersOf
<1>2. MemoryFaithful
  BY <1>1 DEF Init, MemoryFaithful, Distinct
<1> QED
  BY <1>1, <1>2 DEF MemoryInv

\* An answer is covered as before where the memory has not changed.
LEMMA StillCovered ==
    ASSUME IsFiniteSet(since'), since \subseteq since', NEW b, NEW z,
           seen'[b] = seen[b], Covered(b, z)
    PROVE  Covered(b, z)'
<1>1. /\ OthersSince(z.ack) \subseteq OthersSince(z.ack)'
      /\ Cardinality(OthersSince(z.ack)) \in Nat /\ Cardinality(OthersSince(z.ack)') \in Nat
      /\ Cardinality(OthersSince(z.ack)) <= Cardinality(OthersSince(z.ack)')
  BY OthersGrow
<1>2. \A i : Behind(b, i)' = Behind(b, i)
  BY DEF Behind
<1>3. ASSUME z.ack.hello \notin Range(seen[b])
      PROVE  Cardinality(OthersSince(z.ack)') >= SeenLimit
  <2>1. Cardinality(OthersSince(z.ack)) >= SeenLimit
    BY <1>3 DEF Covered
  <2> QED
    BY <1>1, <2>1, HandshakeBounds
<1>4. ASSUME NEW i \in 1 .. Len(seen[b]), seen[b][i] = z.ack.hello
      PROVE  Behind(b, i) \subseteq OthersSince(z.ack)'
  BY <1>1, <1>4 DEF Covered
<1> QED
  BY <1>2, <1>3, <1>4 DEF Covered

\* An answer is covered when a hello is taken in: if it is to that hello, nothing
\* stands behind it; if not, the hello is one more that was taken in since.
LEMMA CoveredAfter ==
    ASSUME HandshakeInv, MemoryInv, NEW a \in Agents, NEW h \in Hello, ~ Seen(a, h),
           seen'[a] = Remember(a, h), since' = since \cup TakenIn(a, h),
           NEW z, z.ack.hello = h \/ z \in AnswersOf(a)
    PROVE  Distinct(seen'[a]) /\ Covered(a, z)'
<1> DEFINE s == seen[a]
           t == seen'[a]
           g == z.ack.hello
           old == OthersSince(z.ack)
           new == OthersSince(z.ack)'
<1>1. Distinct(s) /\ (z \in AnswersOf(a) => Covered(a, z))
  BY DEF MemoryInv, MemoryFaithful
<1>2. TypeOK /\ s \in Seq(Hello) /\ Len(s) \in Nat /\ DOMAIN s = 1 .. Len(s)
  BY DEF HandshakeInv, Types, TypeOK
<1>3. /\ Distinct(t) /\ DOMAIN t = 1 .. Len(t) /\ Len(t) \in Nat
      /\ \A i \in 1 .. Len(s) : s[i] # h
      /\ \/ /\ Len(t) = Len(s) + 1 /\ t[Len(t)] = h
            /\ \A i \in 1 .. Len(s) : t[i] = s[i]
         \/ /\ Len(t) = Len(s) /\ Len(t) = SeenLimit
            /\ \A i \in 1 .. Len(t) : i < Len(t) => t[i] = s[i + 1]
            /\ Len(t) > 0 => t[Len(t)] = h
  BY <1>1, <1>2, Recalled
<1>4. IsFiniteSet(since') /\ since \subseteq since'
  BY SinceFinite
<1>5. /\ old \subseteq new /\ IsFiniteSet(new) /\ Cardinality(new) \in Nat
      /\ Cardinality(old) \in Nat /\ Cardinality(old) <= Cardinality(new)
  BY <1>4, OthersGrow
<1>6. g # h => h \in new
  <2> SUFFICES ASSUME g # h PROVE h \in new
    OBVIOUS
  <2>1. [ack |-> z.ack, hello |-> h] \in TakenIn(a, h)
    BY DEF TakenIn, AnswersOf
  <2> QED
    BY <2>1 DEF OthersSince
<1> HIDE DEF new, old, s, t
<1>a. Len(t) \in Nat /\ DOMAIN t = 1 .. Len(t)
  BY <1>3
<1>b. Len(t) > 0 => t[Len(t)] = h
  BY <1>3
<1>c. Len(s) \in Nat
  BY <1>2
<1>d. Len(t) = Len(s) + 1 \/ (Len(t) = Len(s) /\ Len(t) = SeenLimit)
  BY <1>3
<1>e. Len(t) = 0 => SeenLimit = 0
  BY <1>a, <1>c, <1>d
<1>7. CASE g = h
  <2>1. ASSUME NEW i \in 1 .. Len(t), t[i] = g PROVE Behind(a, i)' = {}
    <3>1. t[Len(t)] = h /\ Len(t) \in DOMAIN t
      BY <1>a, <1>b, <2>1
    <3>2. i = Len(t)
      BY <1>3, <1>7, <2>1, <3>1 DEF Distinct
    <3> QED
      BY <1>a, <3>2 DEF Behind, t
  <2>2. ASSUME g \notin Range(t) PROVE SeenLimit = 0
    <3>1. \A i \in 1 .. Len(t) : t[i] # h
      BY <1>a, <1>7, <2>2 DEF Range
    <3>2. ~ (Len(t) > 0)
      BY <1>a, <1>b, <3>1
    <3> QED
      BY <1>a, <1>e, <3>2
  <2>3. g \notin Range(t) => Cardinality(new) >= SeenLimit
    BY <1>5, <2>2
  <2> QED
    BY <1>3, <2>1, <2>3 DEF Covered, new, t
<1>8. CASE g # h
  <2>1. /\ \A i \in 1 .. Len(s) : s[i] = g => Behind(a, i) \subseteq old
        /\ g \notin Range(s) => Cardinality(old) >= SeenLimit
    BY <1>1, <1>8 DEF Covered, old, s
  <2>2. ASSUME NEW i \in 1 .. Len(t), t[i] = g PROVE Behind(a, i)' \subseteq new
    <3>1. SUFFICES ASSUME NEW j \in i + 1 .. Len(t) PROVE t[j] \in new
      BY DEF Behind, t
    <3>2. CASE t[j] = h
      BY <1>6, <1>8, <3>2
    <3>3. ASSUME t[j] # h PROVE t[j] \in new
      <4>1. PICK m, n \in 1 .. Len(s) : m < n /\ s[m] = g /\ s[n] = t[j]
        <5>1. i \in 1 .. Len(t) /\ j \in 1 .. Len(t) /\ i < j
          BY <1>a
        <5>2. j # Len(t)
          <6>1. Len(t) > 0
            BY <1>a, <5>1
          <6>2. t[Len(t)] = h
            BY <1>b, <6>1
          <6> QED
            BY <3>3, <6>2
        <5>3. CASE Len(t) = Len(s) + 1 /\ \A x \in 1 .. Len(s) : t[x] = s[x]
          <6>1. i \in 1 .. Len(s) /\ j \in 1 .. Len(s)
            BY <1>c, <5>1, <5>3, <5>2
          <6>2. s[i] = g /\ s[j] = t[j]
            BY <2>2, <5>3, <6>1
          <6> QED
            BY <5>1, <6>1, <6>2
        <5>4. CASE Len(t) = Len(s) /\ \A x \in 1 .. Len(t) : x < Len(t) => t[x] = s[x + 1]
          <6>0. Len(t) = Len(s)
            BY <5>4
          <6>1. /\ i + 1 \in 1 .. Len(s) /\ j + 1 \in 1 .. Len(s) /\ i + 1 < j + 1
                /\ i < Len(t) /\ j < Len(t)
            BY <1>c, <5>1, <5>2, <6>0
          <6>2. s[i + 1] = g /\ s[j + 1] = t[j]
            BY <2>2, <5>1, <5>4, <6>1
          <6> QED
            BY <6>1, <6>2
        <5> QED
          BY <1>3, <5>3, <5>4
      <4>2. s[n] \in Behind(a, m)
        BY <1>2, <4>1 DEF Behind, s
      <4> QED
        BY <1>5, <2>1, <4>1, <4>2
    <3> QED
      BY <3>2, <3>3
  <2>3. ASSUME g \notin Range(t) PROVE Cardinality(new) >= SeenLimit
    <3>1. CASE g \notin Range(s)
      <4>1. Cardinality(old) >= SeenLimit
        BY <2>1, <3>1
      <4> QED
        BY <1>5, <4>1, HandshakeBounds
    <3>2. CASE g \in Range(s)
      <4>1. PICK m \in 1 .. Len(s) : s[m] = g
        BY <1>2, <3>2 DEF Range
      <4>2. \A i \in 1 .. Len(t) : t[i] # g
        BY <1>3, <2>3 DEF Range
      <4>3. ~ (Len(t) = Len(s) + 1 /\ \A i \in 1 .. Len(s) : t[i] = s[i])
        BY <1>2, <4>1, <4>2
      <4>4. /\ Len(t) = Len(s) /\ Len(t) = SeenLimit
            /\ \A i \in 1 .. Len(t) : i < Len(t) => t[i] = s[i + 1]
            /\ Len(t) > 0 => t[Len(t)] = h
        BY <1>3, <4>3
      <4>5. m = 1
        <5> SUFFICES ASSUME m # 1 PROVE FALSE
          OBVIOUS
        <5>1. m - 1 \in 1 .. Len(t) /\ m - 1 < Len(t) /\ (m - 1) + 1 = m
          BY <1>2, <4>4
        <5>2. t[m - 1] = s[m]
          BY <4>4, <5>1
        <5> QED
          BY <4>1, <4>2, <5>1, <5>2
      <4>6. ASSUME NEW i \in 1 .. Len(t) PROVE t[i] \in new
        <5>1. CASE i = Len(t)
          BY <1>3, <1>6, <1>8, <4>4, <5>1
        <5>2. CASE i # Len(t)
          <6>1. i < Len(t) /\ i + 1 \in 2 .. Len(s)
            BY <1>3, <4>4, <5>2
          <6>2. t[i] = s[i + 1]
            BY <4>4, <6>1
          <6>3. s[i + 1] \in Behind(a, 1)
            BY <6>1 DEF Behind, s
          <6>4. Behind(a, 1) \subseteq old
            BY <2>1, <4>1, <4>5
          <6> QED
            BY <1>5, <6>2, <6>3, <6>4
        <5> QED
          BY <5>1, <5>2
      <4>7. [i \in 1 .. Len(t) |-> t[i]] \in Injection(1 .. Len(t), new)
        BY <1>3, <4>6 DEF Injection, IsInjective, Distinct
      <4>8. Cardinality(1 .. Len(t)) <= Cardinality(new)
        BY <1>5, <4>7, FS_Injection
      <4>9. Cardinality(1 .. Len(t)) = Len(t)
        <5>1. Len(t) \in Nat
          BY <1>a
        <5> HIDE DEF t
        <5> DEFINE n == Len(t)
        <5>2. n \in Nat
          BY <5>1
        <5> HIDE DEF n
        <5>3. Cardinality(1 .. n) = n
          BY <5>2, FS_Interval
        <5> QED
          BY <5>3 DEF n
      <4> QED
        BY <1>5, <4>4, <4>8, <4>9, HandshakeBounds
    <3> QED
      BY <3>1, <3>2
  <2> QED
    BY <1>3, <2>2, <2>3 DEF Covered, new, t
<1> QED
  BY <1>7, <1>8

\* Taking in a hello that is not remembered, answered anew or not, leaves the
\* memory of every guardian faithful.
LEMMA TakingInKeepsFaith ==
    ASSUME HandshakeInv, MemoryInv, NEW a \in Agents, NEW h \in Hello, ~ Seen(a, h), h.to = a,
           seen' = [seen EXCEPT ![a] = Remember(a, h)], since' = since \cup TakenIn(a, h),
           lives' = lives, \A z \in answered' : z \in answered \/ z.ack.hello = h
    PROVE  MemoryFaithful'
<1>1. seen'[a] = Remember(a, h) /\ \A b \in Agents : b # a => seen'[b] = seen[b]
  BY DEF HandshakeInv, Types, TypeOK
<1>2. IsFiniteSet(since') /\ since \subseteq since'
  BY SinceFinite
<1>3. \A b, z : z \in AnswersOf(b)' => z \in AnswersOf(b) \/ (b = a /\ z.ack.hello = h)
  BY DEF AnswersOf
<1>4. ASSUME NEW b \in Agents, b # a
      PROVE  Distinct(seen'[b]) /\ \A z \in AnswersOf(b)' : Covered(b, z)'
  <2>1. Distinct(seen[b]) /\ \A z \in AnswersOf(b) : Covered(b, z)
    BY DEF MemoryInv, MemoryFaithful
  <2>2. ASSUME NEW z \in AnswersOf(b)' PROVE Covered(b, z)'
    <3>1. Covered(b, z) /\ seen'[b] = seen[b]
      BY <1>1, <1>3, <1>4, <2>1
    <3> QED
      BY <1>2, <3>1, StillCovered
  <2> QED
    BY <1>1, <1>4, <2>1, <2>2
<1>5. ASSUME NEW z \in AnswersOf(a)' PROVE Covered(a, z)'
  BY <1>1, <1>3, CoveredAfter
<1>6. Distinct(seen'[a])
  <2>1. [ack |-> [hello |-> h]].ack.hello = h
    OBVIOUS
  <2> QED
    BY <1>1, <2>1, CoveredAfter
<1> QED
  BY <1>4, <1>5, <1>6 DEF MemoryFaithful

\* An answer to a hello that is not remembered: for an earlier ack of it as many
\* others were taken in since as the memory holds.
LEMMA AnswerKeepsMemory ==
    ASSUME HandshakeInv, MemoryInv, NEW a \in Agents, Answer(a)
    PROVE  MemoryInv'
<1>0. lives \in [Agents -> 1 .. MaxLives] /\ scan \in [Agents -> ScanType]
      /\ IsFiniteSet(answered) /\ Cardinality(answered) \in Nat
  BY FS_CardinalityType DEF HandshakeInv, Types, TypeOK, ScansTyped
<1>1. PICK h \in scan[a].hellos :
          LET k == [hello |-> h, n |-> Cardinality(answered) + 1]
          IN  /\ ~ Seen(a, h)
              /\ seen' = [seen EXCEPT ![a] = Remember(a, h)]
              /\ since' = since \cup TakenIn(a, h)
              /\ answered' = answered \cup {[ack |-> k, life |-> lives[a]]}
              /\ lives' = lives
  BY DEF Answer
<1>2. h \in Hello /\ h.to = a
  BY <1>0 DEF HandshakeInv, ScanType, Routed
<1> DEFINE z == [ack |-> [hello |-> h, n |-> Cardinality(answered) + 1], life |-> lives[a]]
<1>3. /\ z.ack.hello = h /\ z.life = lives[a] /\ z.ack.n = Cardinality(answered) + 1
      /\ answered' = answered \cup {z}
  BY <1>1
<1> HIDE DEF z
<1>4. MemoryFaithful'
  BY <1>1, <1>2, <1>3, TakingInKeepsFaith
<1>5. IsFiniteSet(since') /\ since \subseteq since'
  BY <1>1, SinceFinite
<1>6. \A w \in answered : w.ack.n \in Nat /\ w.ack.n <= Cardinality(answered)
  BY DEF MemoryInv, AnswersDated
<1>7. Cardinality(answered') = Cardinality(answered) + 1
  <2>1. z \notin answered
    BY <1>0, <1>3, <1>6
  <2> QED
    BY <1>0, <1>3, <2>1, FS_AddElement
<1>8. AnswersDated'
  <2>1. ASSUME NEW w \in answered
        PROVE  /\ w.ack.n \in Nat /\ w.ack.n <= Cardinality(answered')
               /\ w.ack.hello.to \in Agents /\ w.life \in Nat
               /\ w.life <= lives'[w.ack.hello.to]
    BY <1>0, <1>1, <1>7 DEF MemoryInv, AnswersDated
  <2>2. /\ z.ack.n \in Nat /\ z.ack.n <= Cardinality(answered')
        /\ z.ack.hello.to \in Agents /\ z.life \in Nat
        /\ z.life <= lives'[z.ack.hello.to]
    BY <1>0, <1>1, <1>2, <1>3, <1>7
  <2> QED
    BY <1>3, <2>1, <2>2 DEF AnswersDated
<1>9. AnsweredOnce'
  <2> SUFFICES ASSUME NEW x \in answered', NEW y \in answered',
                      x.ack.hello = y.ack.hello, x.life = y.life, x.ack.n < y.ack.n
               PROVE  Cardinality(OthersSince(x.ack)') >= SeenLimit
    BY DEF AnsweredOnce
  <2>1. x \in answered
    <3> SUFFICES ASSUME x = z PROVE FALSE
      BY <1>3
    <3>1. y.ack.n \in Nat /\ y.ack.n <= Cardinality(answered) + 1
      BY <1>0, <1>3, <1>6
    <3> QED
      BY <1>0, <1>3, <3>1
  <2>2. Cardinality(OthersSince(x.ack)) >= SeenLimit
    <3>1. CASE y \in answered
      BY <2>1, <3>1 DEF MemoryInv, AnsweredOnce
    <3>2. CASE y = z
      <4>1. x \in AnswersOf(a) /\ x.ack.hello = h
        BY <1>2, <1>3, <2>1, <3>2 DEF AnswersOf
      <4>2. Covered(a, x)
        BY <4>1 DEF MemoryInv, MemoryFaithful
      <4> QED
        BY <1>1, <4>1, <4>2 DEF Covered, Seen
    <3> QED
      BY <1>3, <3>1, <3>2
  <2>3. /\ Cardinality(OthersSince(x.ack)) \in Nat /\ Cardinality(OthersSince(x.ack)') \in Nat
        /\ Cardinality(OthersSince(x.ack)) <= Cardinality(OthersSince(x.ack)')
    BY <1>5, OthersGrow
  <2> QED
    BY <2>2, <2>3, HandshakeBounds
<1> QED
  BY <1>4, <1>5, <1>8, <1>9 DEF MemoryInv

\* The ack of a session that lives, given again, is no new answer.
LEMMA AnswerAgainKeepsMemory ==
    ASSUME HandshakeInv, MemoryInv, NEW a \in Agents, AnswerAgain(a)
    PROVE  MemoryInv'
<1>1. PICK h \in scan[a].hellos :
          /\ ~ Seen(a, h)
          /\ seen' = [seen EXCEPT ![a] = Remember(a, h)]
          /\ since' = since \cup TakenIn(a, h)
          /\ answered' = answered /\ lives' = lives
  BY DEF AnswerAgain
<1>2. h \in Hello /\ h.to = a
  BY DEF HandshakeInv, Types, ScansTyped, ScanType, Routed
<1>3. MemoryFaithful'
  BY <1>1, <1>2, TakingInKeepsFaith
<1>4. IsFiniteSet(since') /\ since \subseteq since'
  BY <1>1, SinceFinite
<1>5. AnswersDated'
  BY <1>1 DEF MemoryInv, AnswersDated
<1>6. AnsweredOnce'
  <2> SUFFICES ASSUME NEW x \in answered, NEW y \in answered,
                      x.ack.hello = y.ack.hello, x.life = y.life, x.ack.n < y.ack.n
               PROVE  Cardinality(OthersSince(x.ack)') >= SeenLimit
    BY <1>1 DEF AnsweredOnce
  <2>1. Cardinality(OthersSince(x.ack)) >= SeenLimit
    BY DEF MemoryInv, AnsweredOnce
  <2>2. /\ Cardinality(OthersSince(x.ack)) \in Nat /\ Cardinality(OthersSince(x.ack)') \in Nat
        /\ Cardinality(OthersSince(x.ack)) <= Cardinality(OthersSince(x.ack)')
    BY <1>4, OthersGrow
  <2> QED
    BY <2>1, <2>2, HandshakeBounds
<1> QED
  BY <1>3, <1>4, <1>5, <1>6 DEF MemoryInv

\* A new life starts with an empty memory and with nothing answered in it.
LEMMA RestartKeepsMemory ==
    ASSUME HandshakeInv, MemoryInv, NEW a \in Agents, Restart(a)
    PROVE  MemoryInv'
<1>0. seen \in [Agents -> Seq(Hello)] /\ lives \in [Agents -> 1 .. MaxLives]
  BY DEF HandshakeInv, Types, TypeOK
<1>1. /\ answered' = answered /\ since' = since
      /\ lives'[a] = lives[a] + 1 /\ seen'[a] = <<>>
      /\ \A b \in Agents : b # a => lives'[b] = lives[b] /\ seen'[b] = seen[b]
  BY <1>0 DEF Restart
<1>2. AnsweredOnce' /\ IsFiniteSet(since')
  BY <1>1 DEF MemoryInv, AnsweredOnce, OthersSince
<1>3. AnswersDated'
  <2> SUFFICES ASSUME NEW w \in answered
               PROVE  /\ w.ack.n \in Nat /\ w.ack.n <= Cardinality(answered)
                      /\ w.ack.hello.to \in Agents /\ w.life \in Nat
                      /\ w.life <= lives'[w.ack.hello.to]
    BY <1>1 DEF AnswersDated
  <2>1. /\ w.ack.n \in Nat /\ w.ack.n <= Cardinality(answered)
        /\ w.ack.hello.to \in Agents /\ w.life \in Nat /\ w.life <= lives[w.ack.hello.to]
    BY DEF MemoryInv, AnswersDated
  <2>2. lives[w.ack.hello.to] \in Nat
    BY <1>0, <2>1
  <2>3. lives'[w.ack.hello.to] \in Nat /\ lives[w.ack.hello.to] <= lives'[w.ack.hello.to]
    BY <1>1, <2>1, <2>2
  <2> QED
    BY <2>1, <2>2, <2>3
<1>4. AnswersOf(a)' = {}
  <2> SUFFICES ASSUME NEW w \in answered, w.ack.hello.to = a PROVE w.life # lives[a] + 1
    BY <1>1 DEF AnswersOf
  <2>1. w.life \in Nat /\ w.life <= lives[a] /\ lives[a] \in Nat
    BY <1>0 DEF MemoryInv, AnswersDated
  <2> QED
    BY <2>1
<1>5. ASSUME NEW b \in Agents, b # a
      PROVE  Distinct(seen'[b]) /\ \A z \in AnswersOf(b)' : Covered(b, z)'
  <2>1. AnswersOf(b)' = AnswersOf(b) /\ seen'[b] = seen[b]
    BY <1>1, <1>5 DEF AnswersOf
  <2>2. Distinct(seen[b]) /\ \A z \in AnswersOf(b) : Covered(b, z)
    BY DEF MemoryInv, MemoryFaithful
  <2>3. IsFiniteSet(since') /\ since \subseteq since'
    BY <1>1 DEF MemoryInv
  <2> QED
    BY <2>1, <2>2, <2>3, StillCovered
<1>6. Distinct(seen'[a])
  BY <1>1 DEF Distinct
<1> QED
  BY <1>2, <1>3, <1>4, <1>5, <1>6 DEF MemoryInv, MemoryFaithful

\* What a step that takes nothing in leaves alone.
LEMMA UntouchedMemory ==
    ASSUME MemoryInv, UNCHANGED <<seen, answered, since, lives>>
    PROVE  MemoryInv'
<1>1. MemoryFaithful'
  <2>1. /\ \A a : AnswersOf(a)' = AnswersOf(a)
        /\ seen' = seen /\ IsFiniteSet(since') /\ since \subseteq since'
    BY DEF MemoryInv, AnswersOf
  <2>2. ASSUME NEW a \in Agents, NEW z \in AnswersOf(a) PROVE Covered(a, z)'
    <3>1. Covered(a, z) /\ seen'[a] = seen[a]
      BY <2>1 DEF MemoryInv, MemoryFaithful
    <3> QED
      BY <2>1, <3>1, StillCovered
  <2> QED
    BY <2>1, <2>2 DEF MemoryInv, MemoryFaithful
<1>2. AnswersDated' /\ AnsweredOnce' /\ IsFiniteSet(since')
  BY DEF MemoryInv, AnswersDated, AnsweredOnce, OthersSince
<1> QED
  BY <1>1, <1>2 DEF MemoryInv

LEMMA MemoryStep == HandshakeInv /\ MemoryInv /\ [Next]_vars => MemoryInv'
<1> SUFFICES ASSUME HandshakeInv, MemoryInv, [Next]_vars PROVE MemoryInv'
  OBVIOUS
<1>1. CASE \E a \in Agents : Answer(a)
  BY <1>1, AnswerKeepsMemory
<1>2. CASE \E a \in Agents : AnswerAgain(a)
  BY <1>2, AnswerAgainKeepsMemory
<1>3. CASE \E a \in Agents : Restart(a)
  BY <1>3, RestartKeepsMemory
<1>4. CASE \E a, peer \in Agents, c \in Contexts : Initiate(a, peer, c)
  BY <1>4, UntouchedMemory DEF Initiate
<1>5. CASE \E a \in Agents, c \in Contexts : StartOpen(a, c)
  BY <1>5, UntouchedMemory DEF StartOpen, history
<1>6. CASE \E a \in Agents : Complete(a) \/ PassAck(a) \/ PassHello(a)
  BY <1>6, UntouchedMemory DEF Complete, PassAck, PassHello, history
<1>7. CASE \E a \in Agents : Downgrade(a) \/ FinishOpen(a)
  BY <1>7, UntouchedMemory DEF Downgrade, FinishOpen, history
<1>8. CASE \E a \in Agents : Speak(a) \/ Close(a)
  BY <1>8, UntouchedMemory DEF Speak, Close, managers, history
<1>9. CASE (\E c \in Downgraded : WritePlaintext(c)) \/ UNCHANGED vars
  BY <1>9, UntouchedMemory DEF WritePlaintext, vars, managers, history
<1> QED
  BY <1>1, <1>2, <1>3, <1>4, <1>5, <1>6, <1>7, <1>8, <1>9 DEF Next, ScanStep

\* A second ack for one hello, in one life, is made only after as many other hellos
\* as the memory holds were taken in behind the first.
THEOREM AnswersAreRemembered == Spec => []AnsweredOnce
<1>1. Init => MemoryInv
  BY MemoryInit
<1>2. HandshakeInv /\ MemoryInv /\ [Next]_vars => MemoryInv'
  BY MemoryStep
<1>3. MemoryInv => AnsweredOnce
  BY DEF MemoryInv
<1> QED
  BY <1>1, <1>2, <1>3, HandshakeInvariant, PTL DEF Spec

-----------------------------------------------------------------------------
(***************************************************************************)
(* The guardian's budget of requests (RateBudget), for every cap and       *)
(* length of a minute.                                                     *)
(***************************************************************************)

\* The places in a series that fall into the minute that ends at t.
Counted(series, t) == {i \in DOMAIN series : series[i] <= t /\ t < series[i] + Minute}

RateTypes ==
    /\ now \in Nat /\ cap \in Nat \ {0}
    /\ window \in Seq(Nat) /\ admitted \in Seq(Nat) /\ logged \in Seq(Nat)
    /\ refused \subseteq 0 .. now

\* The window is the end of the series of admitted requests, which runs up to now,
\* and what comes before it is a minute old.
WindowIsRecent ==
    /\ Len(window) <= Len(admitted)
    /\ \A i \in 1 .. Len(window) : window[i] = admitted[Len(admitted) - Len(window) + i]
    /\ \A i \in 1 .. Len(admitted) - Len(window) : admitted[i] + Minute <= now
    /\ \A i, j \in DOMAIN admitted : i <= j => admitted[i] <= admitted[j]
    /\ \A i \in DOMAIN admitted : admitted[i] <= now

\* The records are a minute apart, and the last is the one that is remembered.
RecordsApart ==
    /\ \A i, j \in DOMAIN logged : i < j => logged[i] + Minute <= logged[j]
    /\ \A i \in DOMAIN logged : logged[i] <= now
    /\ last_limited_log = IF logged = <<>> THEN {} ELSE {logged[Len(logged)]}

\* A refusal met a full minute, and is on record.
RefusalsAccountedFor ==
    \A t \in refused : /\ WithinMinute(admitted, t) = cap
                       /\ Counted(logged, t) # {}

RateInv ==
    /\ RateTypes /\ WindowIsRecent /\ RecordsApart /\ RefusalsAccountedFor
    /\ \A t \in Nat : WithinMinute(admitted, t) <= cap

LEMMA CountedFinite ==
    ASSUME NEW s \in Seq(Nat), NEW t
    PROVE  IsFiniteSet(Counted(s, t)) /\ WithinMinute(s, t) = Cardinality(Counted(s, t))
           /\ WithinMinute(s, t) \in Nat
<1>1. DOMAIN s = 1 .. Len(s) /\ IsFiniteSet(1 .. Len(s))
  BY FS_Interval
<1>2. IsFiniteSet(Counted(s, t))
  BY <1>1, FS_Subset DEF Counted
<1>3. WithinMinute(s, t) = Cardinality(Counted(s, t))
  BY DEF WithinMinute, Counted
<1> QED
  BY <1>2, <1>3, FS_CardinalityType

\* One more entry, not before any other.
LEMMA CountedAppend ==
    ASSUME NEW s \in Seq(Nat), NEW x \in Nat, NEW t \in Nat
    PROVE  /\ Append(s, x) \in Seq(Nat) /\ Len(s) + 1 \in DOMAIN Append(s, x)
           /\ Counted(s, t) \subseteq Counted(Append(s, x), t)
           /\ Counted(Append(s, x), t) \subseteq Counted(s, t) \cup {Len(s) + 1}
           /\ t < x => Counted(Append(s, x), t) = Counted(s, t)
           /\ t = x => Len(s) + 1 \in Counted(Append(s, x), t)
<1> DEFINE a == Append(s, x)
<1>1. /\ a \in Seq(Nat) /\ Len(s) \in Nat
      /\ DOMAIN s = 1 .. Len(s) /\ DOMAIN a = 1 .. Len(s) + 1
      /\ a[Len(s) + 1] = x /\ \A i \in 1 .. Len(s) : a[i] = s[i] /\ s[i] \in Nat
  OBVIOUS
<1> HIDE DEF a
<1>2. Counted(s, t) \subseteq Counted(a, t)
  BY <1>1 DEF Counted
<1>3. Counted(a, t) \subseteq Counted(s, t) \cup {Len(s) + 1}
  BY <1>1 DEF Counted
<1>4. ASSUME t < x PROVE Counted(a, t) = Counted(s, t)
  <2>1. Len(s) + 1 \notin Counted(a, t)
    BY <1>1, <1>4 DEF Counted
  <2> QED
    BY <1>2, <1>3, <2>1
<1>5. ASSUME t = x PROVE Len(s) + 1 \in Counted(a, t)
  <2>1. t < t + Minute
    BY BudgetAssumption
  <2>2. Len(s) + 1 \in DOMAIN a
    BY <1>1
  <2> QED
    BY <1>1, <1>5, <2>1, <2>2 DEF Counted
<1> QED
  BY <1>1, <1>2, <1>3, <1>4, <1>5 DEF a

\* Dropping from the front stops at the first request less than a minute old.
LEMMA LiveIsTheRest ==
    ASSUME RateTypes
    PROVE  \E d \in 0 .. Len(window) :
               /\ Live \in Seq(Nat) /\ Len(Live) = Len(window) - d
               /\ \A i \in 1 .. Len(Live) : Live[i] = window[d + i]
               /\ \A i \in 1 .. d : window[i] + Minute <= now
               /\ d < Len(window) => now < window[d + 1] + Minute
<1>1. /\ window \in Seq(Nat) /\ Len(window) \in Nat /\ DOMAIN window = 1 .. Len(window)
      /\ \A i \in 1 .. Len(window) : window[i] \in Nat
      /\ now \in Nat
  BY DEF RateTypes
<1>2. CASE Young = {}
  <2>1. Live = <<>> /\ Live \in Seq(Nat) /\ Len(Live) = 0
    BY <1>2 DEF Live
  <2>2. ASSUME NEW i \in 1 .. Len(window) PROVE window[i] + Minute <= now
    <3>1. ~ (now < window[i] + Minute)
      BY <1>1, <1>2 DEF Young
    <3>2. window[i] + Minute \in Nat /\ now \in Nat
      BY <1>1, BudgetAssumption
    <3> QED
      BY <3>1, <3>2
  <2> WITNESS Len(window) \in 0 .. Len(window)
  <2> QED
    BY <1>1, <2>1, <2>2
<1>3. CASE Young # {}
  <2> DEFINE first == CHOOSE i \in Young : \A j \in Young : i <= j
  <2>1. Young \subseteq 1 .. Len(window)
    BY <1>1 DEF Young
  <2>2. \E i \in Young : \A j \in Young : i <= j
    BY <1>1, <1>3, <2>1, LeastNumber
  <2>3. first \in Young /\ \A j \in Young : first <= j
    BY <2>2
  <2>4. Live = SubSeq(window, first, Len(window))
    BY <1>3 DEF Live
  <2> HIDE DEF first
  <2>5. first \in 1 .. Len(window) /\ now < window[first] + Minute
    BY <2>1, <2>3 DEF Young
  <2>6. /\ Live \in Seq(Nat) /\ Len(Live) = Len(window) - first + 1
        /\ \A i \in 1 .. Len(window) - first + 1 : Live[i] = window[first + i - 1]
    BY <1>1, <2>4, <2>5, SubSeqProperties
  <2>7. \A i \in 1 .. first - 1 : window[i] + Minute <= now
    <3> SUFFICES ASSUME NEW i \in 1 .. first - 1 PROVE window[i] + Minute <= now
      OBVIOUS
    <3>1. i \in 1 .. Len(window) /\ i \notin Young
      BY <1>1, <2>3, <2>5
    <3> QED
      BY <1>1, <3>1, BudgetAssumption DEF Young
  <2>8. first - 1 \in 0 .. Len(window) /\ (first - 1) + 1 = first
    BY <1>1, <2>5
  <2> DEFINE d == first - 1
  <2>9. d \in 0 .. Len(window) /\ Live \in Seq(Nat) /\ Len(Live) = Len(window) - d
    BY <1>1, <2>5, <2>6
  <2>10. ASSUME NEW i \in 1 .. Len(Live) PROVE Live[i] = window[d + i]
    <3>1. i \in 1 .. Len(window) - first + 1 /\ first + i - 1 = d + i
      BY <1>1, <2>5, <2>6
    <3> QED
      BY <2>6, <3>1
  <2>11. /\ \A i \in 1 .. d : window[i] + Minute <= now
         /\ d < Len(window) => now < window[d + 1] + Minute
    BY <2>5, <2>7, <2>8
  <2> HIDE DEF d
  <2> QED
    BY <2>9, <2>10, <2>11
<1> QED
  BY <1>2, <1>3

\* What is live is exactly what was admitted in the minute that ends now.
LEMMA LiveIsTheMinute ==
    ASSUME RateTypes, WindowIsRecent
    PROVE  /\ Live \in Seq(Nat) /\ Len(Live) \in Nat /\ Len(Live) <= Len(admitted)
           /\ \A i \in 1 .. Len(Live) : Live[i] = admitted[Len(admitted) - Len(Live) + i]
           /\ \A i \in 1 .. Len(admitted) - Len(Live) : admitted[i] + Minute <= now
           /\ WithinMinute(admitted, now) = Len(Live)
<1> DEFINE n == Len(admitted)
           k == Len(Live)
<1>1. /\ n \in Nat /\ Len(window) \in Nat /\ Len(window) <= n /\ now \in Nat
      /\ \A i \in 1 .. n : admitted[i] \in Nat /\ admitted[i] <= now
      /\ DOMAIN admitted = 1 .. n /\ admitted \in Seq(Nat)
  BY DEF RateTypes, WindowIsRecent
<1>2. PICK d \in 0 .. Len(window) :
          /\ Live \in Seq(Nat) /\ Len(Live) = Len(window) - d
          /\ \A i \in 1 .. Len(Live) : Live[i] = window[d + i]
          /\ \A i \in 1 .. d : window[i] + Minute <= now
          /\ d < Len(window) => now < window[d + 1] + Minute
  BY LiveIsTheRest
<1>3. k \in Nat /\ k <= n /\ n - k = (n - Len(window)) + d
  BY <1>1, <1>2
<1>4. \A i \in 1 .. Len(window) : window[i] = admitted[n - Len(window) + i]
  BY DEF WindowIsRecent
<1>5. ASSUME NEW i \in 1 .. k PROVE Live[i] = admitted[n - k + i]
  <2>1. d + i \in 1 .. Len(window) /\ n - Len(window) + (d + i) = n - k + i
    BY <1>1, <1>2, <1>3
  <2> QED
    BY <1>2, <1>4, <2>1
<1>6. ASSUME NEW i \in 1 .. n - k PROVE admitted[i] + Minute <= now
  <2>1. CASE i <= n - Len(window)
    BY <1>1, <2>1 DEF WindowIsRecent
  <2>2. CASE i > n - Len(window)
    <3>1. i - (n - Len(window)) \in 1 .. d
      BY <1>1, <1>2, <1>3, <2>2
    <3>2. i - (n - Len(window)) \in 1 .. Len(window)
             /\ n - Len(window) + (i - (n - Len(window))) = i
      BY <1>1, <1>2, <3>1
    <3> QED
      BY <1>2, <1>4, <3>1, <3>2
  <2> QED
    BY <1>1, <2>1, <2>2
<1>7. ASSUME NEW i \in n - k + 1 .. n PROVE now < admitted[i] + Minute
  <2>1. d < Len(window) /\ d + 1 \in 1 .. Len(window)
           /\ n - Len(window) + (d + 1) = n - k + 1
           /\ n - k + 1 \in 1 .. n /\ i \in 1 .. n /\ n - k + 1 <= i
    <3>1. d \in Nat /\ k = Len(window) - d
      BY <1>1, <1>2
    <3> HIDE DEF n, k
    <3>2. n - k + 1 \in 1 .. n /\ i \in 1 .. n /\ n - k + 1 <= i /\ k >= 1
      BY <1>1, <1>3, <1>7
    <3>3. d < Len(window) /\ d + 1 \in 1 .. Len(window)
      BY <1>1, <3>1, <3>2
    <3>4. n - Len(window) + (d + 1) = n - k + 1
      BY <1>1, <1>3, <3>1
    <3> QED
      BY <3>2, <3>3, <3>4
  <2>2. now < admitted[n - k + 1] + Minute
    <3>1. now < window[d + 1] + Minute
      BY <1>2, <2>1
    <3>2. window[d + 1] = admitted[n - Len(window) + (d + 1)]
      BY <1>4, <2>1
    <3> QED
      BY <2>1, <3>1, <3>2
  <2>3. admitted[n - k + 1] <= admitted[i]
    BY <1>1, <2>1 DEF WindowIsRecent
  <2>4. admitted[n - k + 1] \in Nat /\ admitted[i] \in Nat
    BY <1>1, <2>1
  <2>5. \A m, x, y \in Nat : m < x + Minute /\ x <= y => m < y + Minute
    BY BudgetAssumption
  <2>6. now \in Nat
    BY <1>1
  <2> HIDE DEF n, k
  <2> QED
    BY <2>2, <2>3, <2>4, <2>5, <2>6
<1>8. Counted(admitted, now) = n - k + 1 .. n
  <2>1. ASSUME NEW i \in 1 .. n
        PROVE  (admitted[i] <= now /\ now < admitted[i] + Minute) <=> i \in n - k + 1 .. n
    <3>1. CASE i \in n - k + 1 .. n
      BY <1>1, <1>7, <3>1
    <3>2. CASE i \in 1 .. n - k
      <4>1. admitted[i] + Minute <= now /\ admitted[i] \in Nat
        BY <1>1, <1>6, <3>2
      <4>2. ~ (now < admitted[i] + Minute)
        BY <1>1, <4>1, BudgetAssumption
      <4>3. i \notin n - k + 1 .. n
        BY <1>1, <1>3, <3>2
      <4> QED
        BY <4>2, <4>3
    <3> QED
      BY <1>1, <1>3, <3>1, <3>2
  <2>2. n - k + 1 .. n \subseteq 1 .. n
    BY <1>1, <1>3
  <2> QED
    BY <1>1, <2>1, <2>2 DEF Counted
<1>9. Cardinality(n - k + 1 .. n) = k
  <2>1. n - k + 1 \in Int /\ n \in Int
    BY <1>1, <1>3
  <2>2. Cardinality(n - k + 1 .. n) =
            IF n - k + 1 > n THEN 0 ELSE n - (n - k + 1) + 1
    BY <2>1, FS_Interval
  <2>3. \A m, l \in Nat : (IF m - l + 1 > m THEN 0 ELSE m - (m - l + 1) + 1) = l
    OBVIOUS
  <2>4. n \in Nat /\ k \in Nat
    BY <1>1, <1>3
  <2> HIDE DEF n, k
  <2> QED
    BY <2>2, <2>3, <2>4
<1>10. WithinMinute(admitted, now) = k
  BY <1>1, <1>8, <1>9, CountedFinite
<1> QED
  BY <1>2, <1>3, <1>5, <1>6, <1>10

LEMMA RateInitial == RateInit => RateInv
<1> SUFFICES ASSUME RateInit PROVE RateInv
  OBVIOUS
<1>1. RateTypes /\ WindowIsRecent /\ RecordsApart /\ RefusalsAccountedFor
  BY BudgetAssumption
     DEF RateInit, RateTypes, WindowIsRecent, RecordsApart, RefusalsAccountedFor
<1>2. ASSUME NEW t \in Nat PROVE WithinMinute(admitted, t) <= cap
  <2>1. Counted(admitted, t) = {} /\ admitted \in Seq(Nat)
    BY DEF RateInit, Counted
  <2>2. WithinMinute(admitted, t) = 0
    BY <2>1, CountedFinite, FS_EmptySet
  <2> QED
    BY <1>1, <2>2 DEF RateTypes
<1> QED
  BY <1>1, <1>2 DEF RateInv

\* A request is admitted while fewer than cap are live: every minute that ends now
\* or later holds at most those and this one.
LEMMA PermitKeepsTheCap ==
    ASSUME RateInv, Permit, NEW t \in Nat
    PROVE  WithinMinute(admitted', t) <= cap
<1>1. /\ now \in Nat /\ cap \in Nat /\ admitted \in Seq(Nat) /\ RateTypes /\ WindowIsRecent
      /\ admitted' = Append(admitted, now) /\ Len(Live) < cap
  BY DEF RateInv, RateTypes, Permit
<1>2. WithinMinute(admitted, t) <= cap
  BY DEF RateInv
<1>3. admitted' \in Seq(Nat)
  BY <1>1, CountedAppend
<1>4. CASE t < now
  <2>1. Counted(admitted', t) = Counted(admitted, t)
    BY <1>1, <1>4, CountedAppend
  <2> QED
    BY <1>1, <1>2, <1>3, <2>1, CountedFinite
<1>5. CASE t >= now
  <2> DEFINE old == Counted(admitted, now)
             new == Len(admitted) + 1
  <2>1. Counted(admitted, t) \subseteq old
    <3>1. \A i \in DOMAIN admitted : admitted[i] \in Nat /\ admitted[i] <= now
      BY <1>1 DEF WindowIsRecent
    <3>2. ASSUME NEW i \in DOMAIN admitted, t < admitted[i] + Minute
          PROVE  now < admitted[i] + Minute
      BY <1>1, <1>5, <3>1, <3>2, BudgetAssumption
    <3> QED
      BY <3>1, <3>2 DEF Counted
  <2>2. Counted(admitted', t) \subseteq old \cup {new}
    BY <1>1, <2>1, CountedAppend
  <2>3. IsFiniteSet(old) /\ Cardinality(old) = Len(Live) /\ Len(Live) \in Nat
    BY <1>1, CountedFinite, LiveIsTheMinute
  <2> HIDE DEF old, new
  <2>4. /\ IsFiniteSet(old \cup {new})
        /\ Cardinality(old \cup {new}) <= Len(Live) + 1
    <3>1. IsFiniteSet(old \cup {new}) /\ Cardinality(old \cup {new}) =
              IF new \in old THEN Cardinality(old) ELSE Cardinality(old) + 1
      BY <2>3, FS_AddElement
    <3>2. CASE new \in old
      BY <2>3, <3>1, <3>2
    <3>3. CASE new \notin old
      BY <2>3, <3>1, <3>3
    <3> QED
      BY <3>2, <3>3
  <2>5. Cardinality(Counted(admitted', t)) <= Cardinality(old \cup {new})
    BY <2>2, <2>4, FS_Subset
  <2>6. /\ WithinMinute(admitted', t) = Cardinality(Counted(admitted', t))
        /\ WithinMinute(admitted', t) \in Nat
    BY <1>3, CountedFinite
  <2>7. Cardinality(old \cup {new}) \in Nat
    BY <2>4, FS_CardinalityType
  <2> QED
    BY <1>1, <2>3, <2>4, <2>5, <2>6, <2>7
<1> QED
  BY <1>1, <1>4, <1>5

\* The window stays the end of the series when live requests, and then a new one,
\* take its place.
LEMMA PermitKeepsTheWindow ==
    ASSUME RateInv, Permit
    PROVE  WindowIsRecent' /\ window' \in Seq(Nat) /\ admitted' \in Seq(Nat)
<1> DEFINE n == Len(admitted)
           k == Len(Live)
<1>1. /\ now \in Nat /\ admitted \in Seq(Nat) /\ RateTypes /\ WindowIsRecent
      /\ admitted' = Append(admitted, now) /\ window' = Append(Live, now) /\ now' = now
  BY DEF RateInv, RateTypes, Permit
<1>2. /\ Live \in Seq(Nat) /\ k \in Nat /\ k <= n
      /\ \A i \in 1 .. k : Live[i] = admitted[n - k + i]
      /\ \A i \in 1 .. n - k : admitted[i] + Minute <= now
  BY <1>1, LiveIsTheMinute
<1>3. /\ window' \in Seq(Nat) /\ admitted' \in Seq(Nat)
      /\ Len(window') = k + 1 /\ Len(admitted') = n + 1 /\ DOMAIN admitted' = 1 .. n + 1
      /\ n \in Nat /\ DOMAIN admitted = 1 .. n
      /\ \A i \in 1 .. n : admitted'[i] = admitted[i]
      /\ admitted'[n + 1] = now
      /\ \A i \in 1 .. k : window'[i] = Live[i]
      /\ window'[k + 1] = now
  BY <1>1, <1>2
<1>4. /\ \A i, j \in 1 .. n : i <= j => admitted[i] <= admitted[j]
      /\ \A i \in 1 .. n : admitted[i] <= now /\ admitted[i] \in Nat
  <2>1. DOMAIN admitted = 1 .. n /\ \A i \in 1 .. n : admitted[i] \in Nat
    BY <1>1, <1>3
  <2> HIDE DEF n
  <2> QED
    BY <1>1, <2>1 DEF WindowIsRecent
<1> HIDE DEF n, k
<1>5. ASSUME NEW i \in 1 .. k + 1 PROVE window'[i] = admitted'[(n + 1) - (k + 1) + i]
  <2>1. CASE i = k + 1
    BY <1>2, <1>3, <2>1
  <2>2. CASE i \in 1 .. k
    <3>1. (n + 1) - (k + 1) + i = n - k + i /\ n - k + i \in 1 .. n
      BY <1>2, <1>3, <2>2
    <3> QED
      BY <1>2, <1>3, <2>2, <3>1
  <2> QED
    BY <1>2, <2>1, <2>2
<1>6. ASSUME NEW i \in 1 .. (n + 1) - (k + 1) PROVE admitted'[i] + Minute <= now
  <2>1. i \in 1 .. n - k /\ i \in 1 .. n
    BY <1>2, <1>3
  <2> QED
    BY <1>2, <1>3, <2>1
<1>7. ASSUME NEW i \in 1 .. n + 1 PROVE admitted'[i] <= now
  BY <1>1, <1>3, <1>4
<1>8. ASSUME NEW i \in 1 .. n + 1, NEW j \in 1 .. n + 1, i <= j
      PROVE  admitted'[i] <= admitted'[j]
  <2>1. CASE j = n + 1
    BY <1>3, <1>7, <2>1
  <2>2. CASE j \in 1 .. n
    <3>1. i \in 1 .. n
      BY <1>3, <1>8, <2>2
    <3> QED
      BY <1>3, <1>4, <1>8, <2>2, <3>1
  <2> QED
    BY <1>3, <2>1, <2>2
<1>9. Len(window') <= Len(admitted')
  BY <1>2, <1>3
<1>10. /\ \A i \in 1 .. Len(window') :
              window'[i] = admitted'[Len(admitted') - Len(window') + i]
       /\ \A i \in 1 .. Len(admitted') - Len(window') : admitted'[i] + Minute <= now'
  BY <1>1, <1>3, <1>5, <1>6
<1> QED
  BY <1>1, <1>3, <1>7, <1>8, <1>9, <1>10 DEF WindowIsRecent

LEMMA PermitStep == RateInv /\ Permit => RateInv'
<1> SUFFICES ASSUME RateInv, Permit PROVE RateInv'
  OBVIOUS
<1>1. /\ RateTypes /\ WindowIsRecent /\ now \in Nat /\ cap \in Nat
      /\ UNCHANGED <<now, cap, last_limited_log, refused, logged>>
      /\ admitted' = Append(admitted, now) /\ admitted \in Seq(Nat) /\ Len(Live) < cap
      /\ refused \subseteq 0 .. now
  BY DEF RateInv, RateTypes, Permit
<1>2. WindowIsRecent' /\ RateTypes'
  BY <1>1, PermitKeepsTheWindow DEF RateTypes
<1>3. RecordsApart'
  BY <1>1 DEF RateInv, RecordsApart
<1>4. ASSUME NEW t \in refused
      PROVE  WithinMinute(admitted', t) = cap /\ Counted(logged, t) # {}
  <2>1. WithinMinute(admitted, t) = cap /\ Counted(logged, t) # {} /\ t \in Nat /\ t <= now
    BY <1>1 DEF RateInv, RefusalsAccountedFor
  <2>2. t # now
    BY <1>1, <2>1, LiveIsTheMinute
  <2>3. Counted(admitted', t) = Counted(admitted, t) /\ admitted' \in Seq(Nat)
    BY <1>1, <2>1, <2>2, CountedAppend
  <2> QED
    BY <1>1, <2>1, <2>3, CountedFinite
<1>5. RefusalsAccountedFor'
  BY <1>1, <1>4 DEF RefusalsAccountedFor, Counted
<1>6. \A t \in Nat : WithinMinute(admitted', t) <= cap'
  BY <1>1, PermitKeepsTheCap
<1> QED
  BY <1>2, <1>3, <1>5, <1>6 DEF RateInv, WithinMinute

\* What a refusal has to show for the invariant to hold after it.
LEMMA LimitedSoFar ==
    ASSUME RateInv, RateLimited, WindowIsRecent', RecordsApart',
           window' \in Seq(Nat), logged' \in Seq(Nat),
           WithinMinute(admitted, now) = cap,
           Counted(logged', now) # {},
           \A t \in Nat : Counted(logged, t) \subseteq Counted(logged', t)
    PROVE  RateInv'
<1>1. /\ RateTypes /\ UNCHANGED <<now, cap, admitted>> /\ refused' = refused \cup {now}
  BY DEF RateInv, RateLimited
<1>2. RateTypes'
  BY <1>1 DEF RateTypes
<1>3. ASSUME NEW t \in refused'
      PROVE  WithinMinute(admitted, t) = cap /\ Counted(logged', t) # {}
  <2>1. CASE t = now
    BY <2>1
  <2>2. CASE t \in refused
    <3>1. t \in Nat
      BY <1>1, <2>2 DEF RateTypes
    <3> QED
      BY <2>2, <3>1 DEF RateInv, RefusalsAccountedFor
  <2> QED
    BY <1>1, <2>1, <2>2
<1>4. RefusalsAccountedFor'
  BY <1>1, <1>3 DEF RefusalsAccountedFor, WithinMinute, Counted
<1>5. \A t \in Nat : WithinMinute(admitted', t) <= cap'
  BY <1>1 DEF RateInv
<1> QED
  BY <1>2, <1>4, <1>5 DEF RateInv, WithinMinute

\* A refusal drops what is no longer live, meets exactly cap live requests, and is
\* recorded unless a record is less than a minute old.
LEMMA RefusalStep == RateInv /\ RateLimited => RateInv'
<1> SUFFICES ASSUME RateInv, RateLimited PROVE RateInv'
  OBVIOUS
<1>1. /\ RateTypes /\ WindowIsRecent /\ RecordsApart
      /\ now \in Nat /\ cap \in Nat /\ logged \in Seq(Nat) /\ admitted \in Seq(Nat)
      /\ UNCHANGED <<now, cap, admitted>> /\ window' = Live /\ cap <= Len(Live)
      /\ refused' = refused \cup {now} /\ refused \subseteq 0 .. now
      /\ DOMAIN logged = 1 .. Len(logged) /\ Len(logged) \in Nat
  BY DEF RateInv, RateTypes, RateLimited
<1>2. /\ Live \in Seq(Nat) /\ Len(Live) \in Nat /\ Len(Live) <= Len(admitted)
      /\ \A i \in 1 .. Len(Live) : Live[i] = admitted[Len(admitted) - Len(Live) + i]
      /\ \A i \in 1 .. Len(admitted) - Len(Live) : admitted[i] + Minute <= now
      /\ WithinMinute(admitted, now) = Len(Live)
  BY <1>1, LiveIsTheMinute
<1>3. WindowIsRecent'
  BY <1>1, <1>2 DEF WindowIsRecent
<1>4. WithinMinute(admitted, now) = cap
  BY <1>1, <1>2 DEF RateInv
<1>5. CASE Quiet
  <2>1. logged' = Append(logged, now) /\ last_limited_log' = {now}
    BY <1>5 DEF RateLimited
  <2>2. /\ logged' \in Seq(Nat) /\ Len(logged') = Len(logged) + 1
        /\ DOMAIN logged' = 1 .. Len(logged) + 1 /\ logged' # <<>>
        /\ logged'[Len(logged) + 1] = now
        /\ \A i \in 1 .. Len(logged) : logged'[i] = logged[i] /\ logged[i] \in Nat
    BY <1>1, <2>1
  <2>3. ASSUME NEW i \in 1 .. Len(logged) PROVE logged[i] + Minute <= now
    <3>1. logged # <<>> /\ Len(logged) \in 1 .. Len(logged)
      BY <1>1
    <3>2. last_limited_log = {logged[Len(logged)]}
      BY <1>1, <3>1 DEF RecordsApart
    <3>3. logged[Len(logged)] + Minute <= now
      BY <1>5, <3>2 DEF Quiet
    <3>4. CASE i = Len(logged)
      BY <3>3, <3>4
    <3>5. CASE i < Len(logged)
      <4>1. logged[i] + Minute <= logged[Len(logged)]
        BY <1>1, <3>1, <3>5 DEF RecordsApart
      <4>2. logged[i] \in Nat /\ logged[Len(logged)] \in Nat
        BY <2>2, <3>1
      <4>3. now \in Nat /\ Minute \in Nat
        BY <1>1, BudgetAssumption
      <4>4. \A x, y \in Nat : x + Minute <= y /\ y + Minute <= now => x + Minute <= now
        BY <4>3
      <4> QED
        BY <3>3, <4>1, <4>2, <4>4
    <3>6. i = Len(logged) \/ i < Len(logged)
      <4>1. Len(logged) \in Nat
        BY <1>1
      <4> QED
        BY <4>1
    <3> QED
      BY <3>4, <3>5, <3>6
  <2>4. ASSUME NEW i \in DOMAIN logged', NEW j \in DOMAIN logged', i < j
        PROVE  logged'[i] + Minute <= logged'[j]
    <3>1. i \in 1 .. Len(logged)
      BY <1>1, <2>2, <2>4
    <3>2. CASE j = Len(logged) + 1
      BY <2>2, <2>3, <3>1, <3>2
    <3>3. CASE j \in 1 .. Len(logged)
      BY <1>1, <2>2, <2>4, <3>1, <3>3 DEF RecordsApart
    <3> QED
      BY <1>1, <2>2, <3>2, <3>3
  <2>5. \A i \in DOMAIN logged' : logged'[i] <= now
    <3> SUFFICES ASSUME NEW i \in DOMAIN logged' PROVE logged'[i] <= now
      OBVIOUS
    <3>1. CASE i = Len(logged) + 1
      BY <1>1, <2>2, <3>1
    <3>2. CASE i \in 1 .. Len(logged)
      BY <1>1, <2>2, <3>2 DEF RecordsApart
    <3> QED
      BY <1>1, <2>2, <3>1, <3>2
  <2>6. RecordsApart'
    BY <1>1, <2>1, <2>2, <2>4, <2>5 DEF RecordsApart
  <2>7. Len(logged) + 1 \in Counted(logged', now)
    BY <1>1, <2>1, CountedAppend
  <2>8. \A t \in Nat : Counted(logged, t) \subseteq Counted(logged', t)
    BY <1>1, <2>1, CountedAppend
  <2> QED
    BY <2>2, <2>6, <2>7, <2>8, <1>1, <1>2, <1>3, <1>4, LimitedSoFar
<1>6. CASE ~Quiet
  <2>1. logged' = logged /\ last_limited_log' = last_limited_log
    BY <1>6 DEF RateLimited
  <2>2. PICK last \in last_limited_log : ~(now >= last + Minute)
    BY <1>6 DEF Quiet
  <2>3. logged # <<>> /\ last = logged[Len(logged)] /\ Len(logged) \in DOMAIN logged
    BY <1>1, <2>2 DEF RecordsApart
  <2>4. last \in Nat /\ last <= now /\ now < last + Minute
    <3>1. last \in Nat /\ now \in Nat /\ Minute \in Nat
      BY <1>1, <2>3, BudgetAssumption
    <3>2. last <= now
      BY <1>1, <2>3 DEF RecordsApart
    <3> QED
      BY <2>2, <3>1, <3>2
  <2>5. Len(logged) \in Counted(logged', now)
    BY <2>1, <2>3, <2>4 DEF Counted
  <2>6. RecordsApart'
    BY <1>1, <2>1 DEF RecordsApart
  <2> QED
    BY <1>1, <1>2, <1>3, <1>4, <2>1, <2>5, <2>6, LimitedSoFar
<1> QED
  BY <1>5, <1>6

\* Time alone changes no series, and makes requests and records older.
LEMMA TimeStep == RateInv /\ (Tick \/ UNCHANGED rate) => RateInv'
<1> SUFFICES ASSUME RateInv, Tick \/ UNCHANGED rate PROVE RateInv'
  OBVIOUS
<1>1. /\ UNCHANGED <<cap, window, last_limited_log, admitted, refused, logged>>
      /\ now \in Nat /\ now' \in Nat /\ now <= now'
      /\ admitted \in Seq(Nat) /\ logged \in Seq(Nat) /\ window \in Seq(Nat)
  BY DEF RateInv, RateTypes, Tick, rate
<1>2. RateTypes'
  BY <1>1 DEF RateInv, RateTypes
<1>3. /\ Len(window) \in Nat /\ Len(admitted) \in Nat /\ Len(window) <= Len(admitted)
      /\ DOMAIN admitted = 1 .. Len(admitted)
      /\ \A i \in DOMAIN admitted : admitted[i] \in Nat /\ admitted[i] <= now
      /\ \A i \in DOMAIN logged : logged[i] \in Nat /\ logged[i] <= now
      /\ \A i \in 1 .. Len(admitted) - Len(window) : admitted[i] + Minute <= now
  BY <1>1 DEF RateInv, WindowIsRecent, RecordsApart
<1>4. \A i \in DOMAIN admitted : admitted[i] <= now'
  BY <1>1, <1>3
<1>5. \A i \in 1 .. Len(admitted) - Len(window) : admitted[i] + Minute <= now'
  <2> SUFFICES ASSUME NEW i \in 1 .. Len(admitted) - Len(window)
               PROVE  admitted[i] + Minute <= now'
    OBVIOUS
  <2>1. i \in DOMAIN admitted
    BY <1>3
  <2>2. admitted[i] \in Nat /\ admitted[i] + Minute <= now
    BY <1>3, <2>1
  <2>3. \A x, y, z \in Nat : x + Minute <= y /\ y <= z => x + Minute <= z
    BY BudgetAssumption
  <2>4. now \in Nat /\ now' \in Nat /\ now <= now'
    BY <1>1
  <2> QED
    BY <2>2, <2>3, <2>4
<1>6. WindowIsRecent'
  BY <1>1, <1>4, <1>5 DEF RateInv, WindowIsRecent
<1>7. \A i \in DOMAIN logged : logged[i] <= now'
  BY <1>1, <1>3
<1>8. RecordsApart'
  BY <1>1, <1>7 DEF RateInv, RecordsApart
<1>9. RefusalsAccountedFor' /\ \A t \in Nat : WithinMinute(admitted', t) <= cap'
  BY <1>1 DEF RateInv, RefusalsAccountedFor, WithinMinute, Counted
<1> QED
  BY <1>2, <1>6, <1>8, <1>9 DEF RateInv, WithinMinute

\* Two records a minute apart are not of one minute.
LEMMA OneRecordAMinute ==
    ASSUME RateInv, NEW t \in Nat
    PROVE  /\ WithinMinute(logged, t) <= 1
           /\ Counted(logged, t) # {} => WithinMinute(logged, t) = 1
<1>1. /\ logged \in Seq(Nat) /\ DOMAIN logged = 1 .. Len(logged) /\ Len(logged) \in Nat
      /\ \A i \in DOMAIN logged : logged[i] \in Nat
      /\ \A i, j \in DOMAIN logged : i < j => logged[i] + Minute <= logged[j]
  BY DEF RateInv, RateTypes, RecordsApart
<1>2. WithinMinute(logged, t) = Cardinality(Counted(logged, t))
  BY <1>1, CountedFinite
<1>3. CASE Counted(logged, t) = {}
  BY <1>2, <1>3, FS_EmptySet
<1>4. CASE Counted(logged, t) # {}
  <2>1. PICK i \in DOMAIN logged : i \in Counted(logged, t)
    BY <1>4 DEF Counted
  <2>2. ASSUME NEW j \in DOMAIN logged, j \in Counted(logged, t) PROVE j = i
    <3>1. /\ logged[i] <= t /\ t < logged[i] + Minute
          /\ logged[j] <= t /\ t < logged[j] + Minute
          /\ logged[i] \in Nat /\ logged[j] \in Nat /\ i \in Nat /\ j \in Nat
      BY <1>1, <2>1, <2>2 DEF Counted
    <3>2. \A x, y \in Nat :
              x <= t /\ y <= t /\ t < x + Minute /\ t < y + Minute
                  => ~(x + Minute <= y) /\ ~(y + Minute <= x)
      BY BudgetAssumption
    <3>4. ~(logged[i] + Minute <= logged[j]) /\ ~(logged[j] + Minute <= logged[i])
      BY <3>1, <3>2
    <3>5. ~(i < j) /\ ~(j < i)
      BY <1>1, <2>1, <2>2, <3>4
    <3> QED
      BY <3>1, <3>5
  <2>3. Counted(logged, t) = {i}
    BY <2>1, <2>2 DEF Counted
  <2> QED
    BY <1>2, <2>3, FS_Singleton
<1> QED
  BY <1>3, <1>4

\* No minute admits more than the cap, a refusal met a full minute, and each minute
\* with a refusal has exactly one record of it (RateBudget::permit_at,
\* should_log_rate_limit).
THEOREM BudgetHolds == RateSpec => []BudgetIsExact
<1>1. RateInit => RateInv
  BY RateInitial
<1>2. RateInv /\ [RateNext]_rate => RateInv'
  BY PermitStep, RefusalStep, TimeStep DEF RateNext
<1>3. RateInv => BudgetIsExact
  <2> SUFFICES ASSUME RateInv PROVE BudgetIsExact
    OBVIOUS
  <2>1. \A t \in 0 .. Horizon : WithinMinute(admitted, t) <= cap /\ WithinMinute(logged, t) <= 1
    BY BudgetAssumption, OneRecordAMinute DEF RateInv
  <2>2. \A t \in refused : WithinMinute(admitted, t) = cap /\ WithinMinute(logged, t) = 1
    BY OneRecordAMinute DEF RateInv, RateTypes, RefusalsAccountedFor
  <2> QED
    BY <2>1, <2>2 DEF BudgetIsExact
<1> QED
  BY <1>1, <1>2, <1>3, PTL DEF RateSpec

=============================================================================

--------------------------- MODULE SecureHandshake ---------------------------
(***************************************************************************)
(* The handshake of the secure layer: SessionManager in                    *)
(* src/src/secure/session.rs (initiate, respond_once, complete, the bound  *)
(* on unopened sessions, the memory of answered hellos, close_context) as  *)
(* the guardian drives it in src/src/secure/guardian.rs (a request is      *)
(* served to its end before the next one; `open` scans the files of one    *)
(* context on the shared edge).                                            *)
(*                                                                         *)
(* Hellos and acks are immutable files that stay on the edge: every scan   *)
(* meets all of them again, in an order given by random names, acks before *)
(* hellos.  The files a scan works on are a snapshot; the other guardian   *)
(* writes meanwhile.  A guardian that restarts has lost everything but its *)
(* identity.  Cryptography is abstracted to identity: a hello and an ack   *)
(* are the records of what their signatures bind, and a secure session id  *)
(* is the ack it was derived with.                                         *)
(***************************************************************************)
EXTENDS Naturals, Sequences, FiniteSets, Functions

CONSTANTS
    Agents,       \* the guardians, each pinned by the others with require_secure
    Contexts,     \* HACP session ids
    MaxUnopened,  \* 4 in bound_pending
    SeenLimit,    \* SEEN_HELLO_LIMIT, 1024
    MaxHellos,    \* bound: hellos initiated
    MaxAnswers,   \* bound: acks made
    MaxLives,     \* bound: lives of one guardian
    MaxFailures,  \* bound: edge writes that fail and sessions that are closed
    Downgraded    \* contexts in whose directory a plaintext message may appear

ASSUME HandshakeBounds ==
    /\ MaxUnopened \in Nat \ {0} /\ SeenLimit \in Nat
    /\ MaxHellos \in Nat /\ MaxAnswers \in Nat /\ MaxLives \in Nat \ {0}
    /\ MaxFailures \in Nat
    /\ Downgraded \subseteq Contexts

\* What the signature of a hello binds; `n` stands for the ephemeral key and nonce.
Hello == [from : Agents, to : Agents, ctx : Contexts, n : 1 .. MaxHellos, life : 1 .. MaxLives]

\* An ack binds the hello it answers; `n` stands for its own key and nonce.
Ack == [hello : Hello, n : 1 .. MaxAnswers]

VARIABLES
    \* SessionManager and Guardian, one of each per agent
    pending,   \* SessionManager.pending: hellos waiting for an ack, with their order
    active,    \* SessionManager.active: sessions, each named by its ack
    seen,      \* seen_hello_order; seen_hellos is the set of its elements
    order,     \* SessionManager.order
    blocked,   \* Guardian.blocked: contexts closed for a downgrade
    scan,      \* the open request being served, or Idle
    \* the edge
    hellos,    \* hello files
    acks,      \* ack files
    plaintext, \* contexts in whose directory a plaintext message lies
    spoken,    \* sessions in which the initiator has written a message
    \* bounds and history
    made,      \* hellos initiated
    answered,  \* acks made, written or not: [ack, life]
    since,     \* [ack, hello]: another hello taken in after the ack, in one life
    lives,     \* 1 + restarts, per agent
    failures   \* edge writes that have failed, sessions that were closed

managers == <<pending, active, seen, order, blocked, scan>>
edge     == <<hellos, acks, plaintext, spoken>>
history  == <<made, answered, since, lives, failures>>
vars     == <<managers, edge, history>>

Idle == [ctx |-> "none", acks |-> {}, hellos |-> {}, plain |-> FALSE]

Pending == [hello : Hello, order : Nat]
Session == [ack : Ack, state : {"AckSent", "Established"}, order : Nat]

-----------------------------------------------------------------------------
(* The session manager *)

Initiated(a, s) == s.ack.hello.from = a
PeerOf(a, s) == IF Initiated(a, s) THEN s.ack.hello.to ELSE s.ack.hello.from

\* What counts against the bound for a peer: hellos sent to it, sessions it
\* initiated in which it has not spoken yet.
Unopened(a, peer) ==
    {p \in pending[a] : p.hello.to = peer}
        \cup {s \in active[a] : PeerOf(a, s) = peer /\ s.state = "AckSent"}

\* mutant: only hellos are counted against the bound.
EvictedHellos(a, peer) ==
    {x \in pending[a] :
        /\ x.hello.to = peer
        /\ Cardinality({y \in pending[a] : y.hello.to = peer /\ y.order > x.order}) >= MaxUnopened - 1}

\* bound_pending removes the oldest until there is room for one more.
Evicted(a, peer) ==
    {x \in Unopened(a, peer) :
        Cardinality({y \in Unopened(a, peer) : y.order > x.order}) >= MaxUnopened - 1}

\* mutants: one hello less is remembered; the newest is forgotten, not the oldest;
\* nothing is ever forgotten.
RememberOneLess(a, h) ==
    IF h \in Range(seen[a]) THEN seen[a]
    ELSE LET longer == Append(seen[a], h)
         IN  IF Len(longer) >= SeenLimit THEN Tail(longer) ELSE longer
RememberOldest(a, h) ==
    IF h \in Range(seen[a]) THEN seen[a]
    ELSE LET longer == Append(seen[a], h)
         IN  IF Len(longer) > SeenLimit THEN SubSeq(longer, 1, SeenLimit) ELSE longer
RememberAll(a, h) == Append(seen[a], h)

\* remember_hello: the oldest is forgotten beyond the limit.
Remember(a, h) ==
    IF h \in Range(seen[a]) THEN seen[a]
    ELSE LET longer == Append(seen[a], h)
         IN  IF Len(longer) > SeenLimit THEN Tail(longer) ELSE longer

\* What taking h in adds to `since`: the acks that were made before it.
TakenIn(a, h) ==
    {[ack |-> z.ack, hello |-> h] : z \in {w \in answered :
        w.ack.hello.to = a /\ w.life = lives[a] /\ w.ack.hello # h}}

\* mutant: the key of the memory lacks the signature.
SeenContext(a, h) == \E g \in Range(seen[a]) : g.from = h.from /\ g.ctx = h.ctx

Seen(a, h) == h \in Range(seen[a])

\* mutant: only sessions not yet spoken in are found again.
AnsweringUnopened(a, h) ==
    {s \in active[a] : ~ Initiated(a, s) /\ s.ack.hello = h /\ s.state = "AckSent"}

\* Sessions answering exactly this hello: `respond` returns their ack again.
Answering(a, h) == {s \in active[a] : ~ Initiated(a, s) /\ s.ack.hello = h}

\* mutant: any hello of the same route and context will do.
CompletingRoute(a, k) ==
    {p \in pending[a] : p.hello.to = k.hello.to /\ p.hello.ctx = k.hello.ctx}

\* The pending hellos an ack may complete: its signature covers the hello.
Completing(a, k) == {p \in pending[a] : p.hello = k.hello}

-----------------------------------------------------------------------------
(* Requests *)

WriteHello(h) ==
    \/ hellos' = hellos \cup {h} /\ UNCHANGED failures
    \/ failures < MaxFailures /\ failures' = failures + 1 /\ UNCHANGED hellos

\* A file that is there already with the same content counts as written.
WriteAck(k) ==
    \/ acks' = acks \cup {k} /\ UNCHANGED failures
    \/ failures < MaxFailures /\ failures' = failures + 1 /\ UNCHANGED acks

\* The `session` request: SessionManager::initiate, then the hello file.  The
\* hello is pending whether or not its file could be written.
Initiate(a, peer, c) ==
    /\ scan[a] = Idle
    /\ peer # a
    /\ c \notin blocked[a]
    /\ made < MaxHellos
    /\ made' = made + 1
    /\ order' = [order EXCEPT ![a] = @ + 1]
    /\ LET h    == [from |-> a, to |-> peer, ctx |-> c, n |-> made + 1, life |-> lives[a]]
           kept == pending[a] \ Evicted(a, peer)
       IN  /\ pending' = [pending EXCEPT ![a] = kept \cup {[hello |-> h, order |-> order[a] + 1]}]
           /\ WriteHello(h)
    /\ active' = [active EXCEPT ![a] = @ \ Evicted(a, peer)]
    /\ UNCHANGED <<seen, blocked, scan, acks, plaintext, spoken, answered,
                   since, lives>>

\* The `open` request: the snapshot of the handshake files of one context.
StartOpen(a, c) ==
    /\ scan[a] = Idle
    /\ c \notin blocked[a]
    /\ scan' = [scan EXCEPT ![a] =
                   [ctx    |-> c,
                    acks   |-> {k \in acks : k.hello.from = a /\ k.hello.ctx = c},
                    hellos |-> {h \in hellos : h.to = a /\ h.ctx = c},
                    plain  |-> c \in plaintext]]
    /\ UNCHANGED <<pending, active, seen, order, blocked, edge, history>>

\* complete: the pending hello the ack answers becomes an established session.
Complete(a) ==
    \E k \in scan[a].acks : \E p \in Completing(a, k) :
        /\ \A s \in active[a] : s.ack # k
        /\ pending' = [pending EXCEPT ![a] = @ \ {p}]
        /\ active' = [active EXCEPT ![a] =
                         @ \cup {[ack |-> k, state |-> "Established", order |-> p.order]}]
        /\ scan' = [scan EXCEPT ![a].acks = @ \ {k}]
        /\ UNCHANGED <<seen, order, blocked, edge, history>>

\* An ack met again, or one whose hello is not pending (BadHandshakeSignature).
PassAck(a) ==
    \E k \in scan[a].acks :
        /\ Completing(a, k) = {} \/ \E s \in active[a] : s.ack = k
        /\ scan' = [scan EXCEPT ![a].acks = @ \ {k}]
        /\ UNCHANGED <<pending, active, seen, order, blocked, edge, history>>

\* respond_once: nothing for a hello that is remembered.
PassHello(a) ==
    \E h \in scan[a].hellos :
        /\ scan[a].acks = {}
        /\ Seen(a, h)
        /\ scan' = [scan EXCEPT ![a].hellos = @ \ {h}]
        /\ UNCHANGED <<pending, active, seen, order, blocked, edge, history>>

\* respond, for a hello that was forgotten while its session lives.
AnswerAgain(a) ==
    \E h \in scan[a].hellos : \E s \in Answering(a, h) :
        /\ scan[a].acks = {}
        /\ ~ Seen(a, h)
        /\ seen' = [seen EXCEPT ![a] = Remember(a, h)]
        /\ since' = since \cup TakenIn(a, h)
        /\ WriteAck(s.ack)
        /\ scan' = [scan EXCEPT ![a].hellos = @ \ {h}]
        /\ UNCHANGED <<pending, active, order, blocked, hellos, plaintext, spoken,
                       made, answered, lives>>

\* respond: remembered, then answered with a session of its own, whether or not
\* the ack file can be written.
Answer(a) ==
    \E h \in scan[a].hellos :
        /\ scan[a].acks = {}
        /\ ~ Seen(a, h)
        /\ Answering(a, h) = {}
        /\ Cardinality(answered) < MaxAnswers
        /\ seen' = [seen EXCEPT ![a] = Remember(a, h)]
        /\ since' = since \cup TakenIn(a, h)
        /\ order' = [order EXCEPT ![a] = @ + 1]
        /\ LET k    == [hello |-> h, n |-> Cardinality(answered) + 1]
               kept == active[a] \ Evicted(a, h.from)
               new  == [ack |-> k, state |-> "AckSent", order |-> order[a] + 1]
           IN  /\ active' = [active EXCEPT ![a] = kept \cup {new}]
               /\ answered' = answered \cup {[ack |-> k, life |-> lives[a]]}
               /\ WriteAck(k)
        /\ pending' = [pending EXCEPT ![a] = @ \ Evicted(a, h.from)]
        /\ scan' = [scan EXCEPT ![a].hellos = @ \ {h}]
        /\ UNCHANGED <<blocked, hellos, plaintext, spoken, made, lives>>

\* mutant: the scan goes on after the abort.
UnstoppedScan(a) == [scan[a] EXCEPT !.plain = FALSE]

\* What is left of a scan that met plaintext: it stops there.
StoppedScan(a) == [Idle EXCEPT !.ctx = scan[a].ctx]

\* A plaintext file, whose name may sort anywhere: abort_context, break.
Downgrade(a) ==
    /\ scan[a].plain
    /\ pending' = [pending EXCEPT ![a] = {p \in @ : p.hello.ctx # scan[a].ctx}]
    /\ active' = [active EXCEPT ![a] = {s \in @ : s.ack.hello.ctx # scan[a].ctx}]
    /\ blocked' = [blocked EXCEPT ![a] = @ \cup {scan[a].ctx}]
    /\ scan' = [scan EXCEPT ![a] = StoppedScan(a)]
    /\ UNCHANGED <<seen, order, edge, history>>

HeardUnopened(a) ==    \* mutant
    {s \in active[a] : ~ Initiated(a, s) /\ s.ack.hello.ctx = scan[a].ctx}

\* Answered sessions of the scan's context with a message that opens.
Heard(a) ==
    {s \in active[a] : ~ Initiated(a, s) /\ s.ack \in spoken /\ s.ack.hello.ctx = scan[a].ctx}

\* The second phase: the message directories of the sessions there are now.  The
\* first message that opens establishes the responder's session.
FinishOpen(a) ==
    /\ scan[a] # Idle
    /\ scan[a].acks = {} /\ scan[a].hellos = {} /\ ~ scan[a].plain
    /\ active' = [active EXCEPT ![a] =
                     (@ \ Heard(a)) \cup {[s EXCEPT !.state = "Established"] : s \in Heard(a)}]
    /\ scan' = [scan EXCEPT ![a] = Idle]
    /\ UNCHANGED <<pending, seen, order, blocked, edge, history>>

\* A `seal` request in a session this agent initiated, its file written.
Speak(a) ==
    /\ scan[a] = Idle
    /\ \E s \in active[a] :
           /\ Initiated(a, s) /\ s.ack \notin spoken
           /\ spoken' = spoken \cup {s.ack}
    /\ UNCHANGED <<managers, hellos, acks, plaintext, history>>

\* The transport closes a session: contradiction, overflow, exhaustion.
Close(a) ==
    /\ scan[a] = Idle
    /\ failures < MaxFailures
    /\ failures' = failures + 1
    /\ \E s \in active[a] : active' = [active EXCEPT ![a] = @ \ {s}]
    /\ UNCHANGED <<pending, seen, order, blocked, scan, edge, made, answered, since,
                   lives>>

-----------------------------------------------------------------------------
(* The environment *)

\* Somebody writes an ordinary message where secure ones are expected.
WritePlaintext(c) ==
    /\ plaintext' = plaintext \cup {c}
    /\ UNCHANGED <<managers, hellos, acks, spoken, history>>

\* A guardian is killed, at any point of a request, and loaded again.
Restart(a) ==
    /\ lives[a] < MaxLives
    /\ lives' = [lives EXCEPT ![a] = @ + 1]
    /\ pending' = [pending EXCEPT ![a] = {}]
    /\ active' = [active EXCEPT ![a] = {}]
    /\ seen' = [seen EXCEPT ![a] = <<>>]
    /\ order' = [order EXCEPT ![a] = 0]
    /\ blocked' = [blocked EXCEPT ![a] = {}]
    /\ scan' = [scan EXCEPT ![a] = Idle]
    /\ UNCHANGED <<edge, made, answered, since, failures>>

Init ==
    /\ pending = [a \in Agents |-> {}]
    /\ active = [a \in Agents |-> {}]
    /\ seen = [a \in Agents |-> <<>>]
    /\ order = [a \in Agents |-> 0]
    /\ blocked = [a \in Agents |-> {}]
    /\ scan = [a \in Agents |-> Idle]
    /\ hellos = {} /\ acks = {} /\ plaintext = {} /\ spoken = {}
    /\ made = 0 /\ answered = {} /\ since = {} /\ failures = 0
    /\ lives = [a \in Agents |-> 1]

\* One step of an open request that has started.
ScanStep(a) ==
    \/ Complete(a) \/ PassAck(a)
    \/ PassHello(a) \/ AnswerAgain(a) \/ Answer(a)
    \/ Downgrade(a)
    \/ FinishOpen(a)

Next ==
    \/ \E a, peer \in Agents, c \in Contexts : Initiate(a, peer, c)
    \/ \E a \in Agents, c \in Contexts : StartOpen(a, c)
    \/ \E a \in Agents : ScanStep(a) \/ Speak(a) \/ Close(a) \/ Restart(a)
    \/ \E c \in Downgraded : WritePlaintext(c)

Spec == Init /\ [][Next]_vars

\* Adapters poll: every guardian serves open requests again and again, and a
\* request once started is served to its end.
FairSpec ==
    /\ Spec
    /\ \A a \in Agents : /\ WF_vars(\E c \in Contexts : StartOpen(a, c))
                         /\ WF_vars(ScanStep(a))

-----------------------------------------------------------------------------
(* Properties *)

\* Types of the managers, the edge and the counters.
TypeOK ==
    /\ pending \in [Agents -> SUBSET Pending]
    /\ active \in [Agents -> SUBSET Session]
    /\ seen \in [Agents -> Seq(Hello)]
    /\ \A a \in Agents : Len(seen[a]) <= SeenLimit
    /\ order \in [Agents -> Nat]
    /\ blocked \in [Agents -> SUBSET Contexts]
    /\ hellos \subseteq Hello /\ acks \subseteq Ack /\ spoken \subseteq Ack
    /\ plaintext \subseteq Contexts
    /\ made \in 0 .. MaxHellos /\ failures \in 0 .. MaxFailures
    /\ lives \in [Agents -> 1 .. MaxLives]

\* The bound on half-done handshakes holds per peer, hellos sent and sessions
\* answered taken together, whoever initiates (session.rs:119).
UnopenedBounded ==
    \A a, peer \in Agents : Cardinality(Unopened(a, peer)) <= MaxUnopened

\* A guardian never holds two sessions, or a session and a pending hello, that
\* stem from one hello, though files are met again and memories are forgotten
\* (session.rs:212, 317).
OneSessionPerHello ==
    \A a \in Agents :
        /\ \A p, q \in pending[a] : p.hello = q.hello => p = q
        /\ \A s, t \in active[a] : s.ack.hello = t.ack.hello => s = t
        /\ \A p \in pending[a], s \in active[a] : p.hello # s.ack.hello

OthersSince(k) == {o.hello : o \in {e \in since : e.ack = k}}

\* Between two acks a guardian makes of one hello in one life, it has taken in at
\* least as many other hellos as its memory holds: nothing less makes it forget,
\* and that the session is gone is not enough (session.rs:45, 285, 297).
AnsweredOnce ==
    \A x, y \in answered :
        (x.ack.hello = y.ack.hello /\ x.life = y.life /\ x.ack.n < y.ack.n) =>
            Cardinality(OthersSince(x.ack)) >= SeenLimit

\* Once a context was closed for a downgrade, no handshake that was under way
\* when it happened brings a session of it back (guardian.rs:407, 879).
DowngradeIsFinal ==
    \A a \in Agents :
        /\ \A p \in pending[a] : p.hello.ctx \notin blocked[a]
        /\ \A s \in active[a] : s.ack.hello.ctx \notin blocked[a]

\* The two ends agree on every session, whatever was lost, evicted, repeated or
\* forgotten in between.  A session this guardian initiated is of its present life
\* and of an ack on the edge that the addressee made (hacp-secure.md:232,
\* session.rs:322); one it answered is of an ack it made in its present life, and
\* is established only when the initiator has spoken in it (guardian.rs:879).
SessionsAgree ==
    \A a \in Agents : \A s \in active[a] :
        IF Initiated(a, s)
        THEN /\ s.ack.hello.life = lives[a]
             /\ s.ack \in acks
             /\ \E z \in answered : z.ack = s.ack
        ELSE /\ s.ack.hello.to = a
             /\ [ack |-> s.ack, life |-> lives[a]] \in answered
             /\ s.state = "Established" => s.ack \in spoken \cap acks

\* Both ends hold the session that stems from a hello.
Shared(h) ==
    \E k \in acks : /\ k.hello = h
                    /\ \A a \in {h.from, h.to} : \E s \in active[a] : s.ack = k

\* The newest handshake, not looked at yet when all earlier ones have been.
Fresh(h) ==
    /\ h.n = made
    /\ \E p \in pending[h.from] : p.hello = h
    /\ h \in hellos /\ h \notin Range(seen[h.to])
    /\ \A g \in hellos \ {h} : g \in Range(seen[g.to])

\* Whatever earlier attempts evicted one another, a fresh handshake ends in a
\* session both ends hold, unless a newer one is begun (secure_regressions.rs:126).
FreshHandshakeRecovers ==
    \A h \in Hello : Fresh(h) ~> (Shared(h) \/ made > h.n)

-----------------------------------------------------------------------------
(* Statements of the comments and documents that the code does not keep *)

\* Workflow::session (workflow.rs:42): the sessions a key-free sender may choose
\* from; it refuses to choose when there is more than one.
Matching(a, peer, c) == {s \in active[a] : PeerOf(a, s) = peer /\ s.ack.hello.ctx = c}
Chosen(a, peer, c) == Cardinality(Matching(a, peer, c)) = 1

\* hacp-secure.md:512: after a restart "fresh handshake works".  The only hello a
\* restarted guardian has sent, answered and completed, gives a session that the
\* workflows of both ends can send in.
FreshHandshakeWorks ==
    \A h \in hellos :
        (/\ Shared(h)
         /\ h.life > 1
         /\ \A g \in hellos \ {h} : g.from = h.from /\ g.life < h.life)
        => Chosen(h.from, h.to, h.ctx) /\ Chosen(h.to, h.from, h.ctx)
=============================================================================

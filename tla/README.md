# A TLA+ verification of hacp

`hacp` is the Human-Agent Collaboration Protocol library: contracts between
two agents (HACP/2.0, `src/v2`), the secure transport that carries their
messages (`src/secure`), the older HACP/1.1 documents (the modules at the root
of `src`) and an execution service (`infra/wasmer`).  Source paths below are
relative to the repository; in PROJECT.json they carry the prefix `src/`.

Every part is a sequential state machine: a Rust type whose methods run to
completion, or a single-threaded server that handles one request at a time.
What is hard is therefore not a data race but *order*: two participants, a
verifier, a deadline and a host that call in any order; records and envelopes
that arrive late, twice, out of order or never; a snapshot that changes between
two calls; one step of a call failing after another has taken effect; restarts.

## 1. Inventory

| Component | State it keeps | Operations | Interacts with | What makes it correct |
|---|---|---|---|---|
| **Bilateral contract** `v2/contract.rs` | state, rounds, amendments, reworks, votes and the content they are bound to, last counter, amendment participants, revisions, pending submission and submitter | propose, counter, agree, freeze, withdraw, expire_negotiation, submit, decide, apply_verification, propose_amendment, decide_amendment | formed in a session under a grant; judged by verification records; its snapshot is read by the guardian | nothing is frozen that both did not accept; history only grows; terminal states are final; loops are bounded; work is judged against the revision it answers |
| Session `v2/session.rs` | Opening/Active/Closed/Abandoned, observers, declared features | open, accept, declare_features, grant_observer, close, abandon | contracts form in it | never reopened; observers never author |
| Grants, org chart, permits `v2/grant.rs`, `v2/profile.rs` | ledger, revocations, parent chains | issue, revoke, is_open, covers, preauthorizes; lca; by_lca, by_preauthorization, authorizes | contract formation, cross-branch sessions | authority only shrinks down a chain; a closed grant closes all below it |
| Escalation `v2/escalation.rs` | stage, mediator, arbiter, ruling | raise, refer, invoke_arbiter, resolve, conclude_no_agreement | org chart | the ladder is not skipped; terminal stages are final |
| Verification, artifacts, evidence `v2/verification.rs`, `artifact.rs`, `evidence.rs` | immutable records | validate, attestation_closure | contract | acceptance needs passing checks; closures are acyclic |
| **Secure transport** `secure/transport.rs` | per session: send_seq, high, delivery_next, queue | seal, receive, observe, close | session manager (encryption, state), guardian (contract view) | exactly once, in order; a nonce is used once; nothing is delivered against the observed contract |
| Session manager `secure/session.rs` | identity, pending hellos, active sessions, hellos seen | initiate, respond, respond_once, complete, seal, open, close, close_context | transport, guardian | bounded pending work; retransmissions are idempotent |
| Guardian `secure/guardian.rs` | pins, blocked contexts, rate budget, manager, transport; files on a shared edge | session, seal, open, status, fingerprint | agents over a socket, the peer over files, `.hacp/session.json` | no downgrade, fail closed, serial processing |
| Run state 1.1 `state.rs`; contract, topology, reports, disputes 1.1 | documents | transition and validation functions | - | completed only through verification |
| Execution service `infra/wasmer` | outcomes already reported | step, handle | guardian, sandbox | executes only what a frozen contract and the policy allow |
| Crypto, canonical form, envelopes, schemas, binaries | - | pure functions, I/O | all | (not control state) |

The behaviours a test hardly reaches are listed, each at its line, under
`hazards` in PROJECT.json.

## 2. Modules

| Module | Models |
|---|---|
| `BilateralAgreement` | abstract: what the contract engine promises (phase, consent, history) |
| `BilateralContract` | `Contract` of `v2/contract.rs` and `Verification::validate` |
| `BilateralContractProofs` | TLAPS: invariants, action properties, refinement |
| `ContractView` | `ContractView::check`: what a binding is worth under an observation |
| `ContractObservation` | `Guardian::contract_view`: what a guardian reads off the snapshot of a `BilateralContract` |
| `ContractAudit` | the engine with the record edge and an audit log of who acted |
| `ContractWitnessProofs` | TLAPS, of those who look at a contract: snapshots are readable, observations move one way, settlement was reviewed, counters alternate, work under review can be judged |
| `OrderedDelivery` | abstract: ordered exactly-once delivery over a channel that may close |
| `SecureTransport` | `Transport` and `SessionManager::seal`/`open` for one direction of one session |
| `SecureTransportProofs` | TLAPS: invariant, bound of the queue, failing closed, refinement, what a drain leaves behind |
| `SecureHandshake` | `SessionManager`'s handshake and the part of `Guardian` that drives it, for all guardians over the shared edge; how `Workflow::session` chooses |
| `SecureHandshakeProofs` | TLAPS, of the guardian: one session per hello, downgrade, agreement of the two ends, the bound on unopened handshakes, the memory of hellos, the rate budget |
| `RateBudget` | `RateBudget` and `handle_bytes` of `secure/guardian.rs` |
| `GrantLedger` | `GrantLedger` of `v2/grant.rs`: delegation chains, windows, revocation |
| `AgentUrns`, `OrgChart` | the names of agents; `OrgChart` of `v2/grant.rs`: chains, lowest common supervisor |
| `CrossBranch` | `CollaborationPermit` and `HiveProfile::authorize_siblings`, over `GrantLedger` and `OrgChart` |
| `BilateralSession` | `Session` of `v2/session.rs` |
| `Formation` | `Contract::propose`, over `BilateralSession` and `CrossBranch` |
| `AuthorityProofs` | TLAPS: attenuation, finite chains, final revocation; what backs an admission; what a delegation stands on; sessions |
| `Escalation` | `Escalation` of `v2/escalation.rs`, over `OrgChart` |
| `OrgChartProofs` | TLAPS: `lca` finds the lowest common supervisor; who decides a dispute and where it climbs |
| `Provenance` | the three walks over references: `ancestry` of `v2/artifact.rs`, `attestation_closure` of `v2/verification.rs`, `check_acyclic` of the 1.1 `contract.rs` |
| `ProvenanceProofs` | TLAPS: the walks are right, and end |
| `AtMostOnceCall` | abstract: what remote execution promises a requester |
| `ExecutionPolicy` | `authorize` of `infra/wasmer/src/execution.rs` and `validate` of `lib.rs` |
| `Sandbox` | one run of `WasmerCliExecutor::execute`: child, pipes, capture threads, deadline |
| `ExecutionExchange` | `ExecutionClient` and `ExecutionService`, each beside its guardian, over `ExecutionPolicy` and `Sandbox` |
| `ExecutionProofs` | TLAPS: what runs was authorised, output is accounted for, the exchange implements `AtMostOnceCall` and, each way, `OrderedDelivery`; replies keep up with requests |
| `MC*`, `*.cfg` | instances for TLC |

Operators followed by `\* mutant` are plausible slips in the definition below
them.  Nothing uses them; PROJECT.json pairs each with the property that
refutes it.

### The contract engine

State variables carry the names of the fields.  A content is told apart by its
digest, so `Terms` is a small set; the digest of a frozen revision is taken
over contract, number and content, so within one contract the record
`[number, content]` *is* the digest.  Each method is one action; a call refused
without effect is a stutter, and the two refusals that do change the contract
are modelled: the counter that spends the last round (`Counter`, which ends or
falls back before reporting `RoundsExhausted`) and the amendment decision whose
terms are refused (`FailAmendmentDecision`, after its caller was recorded).

`RestoreLegacySnapshot` is the host loading a snapshot of an older writer, in
which any of four fields marked `#[serde(default)]` may be missing.  A current
snapshot restores everything and is a stutter.  Snapshots older than
`max_rework` restore other *limits*, which are constants, and are left out.
`HostDecides` is the host calling the unchecked `decide`.  Both are switched by
constants, since two questions below are about hosts that do neither.

`BilateralAgreement` knows only a phase, the content each participant consents
to, and the list of contents adopted; `Adopt` demands that both consent to the
same content.  The mapping reads consent off `agreed_by` only while a
negotiation is open and a content is bound: the engine may carry names of
voters, from a legacy snapshot or an expired amendment, that are no consent,
and the refinement says they never become one.

### What a guardian observes of a contract

`ContractObservation` reads the state the engine can be saved in, as
`contract_view` does: which states are looked at, which still let an unbound
message pass (`Bootstraps`), what is in force and what superseded, and what
makes a snapshot no observation at all (`Unreadable`).  Further contracts of the
session are parameters of the observation.  The digest the guardian recomputes
is that of the revision, so `sound` is TRUE here and free in `SecureTransport`.
One thing worth knowing: beside a frozen contract, a second one loses its empty
binding already when both have agreed, before its own freeze, because
`guardian.rs:460` counts `proposed` and `countered` only.

### Contract records on an at-least-once edge

`ContractAudit` adds the records issued so far, which delivery does not remove
(late, repeated, out of order), and history variables no guard reads: the last
work and its author, who took part in the current amendment, the last two
counters of the current loop.  A reviewer may be anyone, the submitter included.

### The secure transport

Sender and receiver are one direction of one established session.  A seal
commits its number before the envelope is written (`transport.rs:181`,
`guardian.rs:370`), and the write may fail: such a position is `missing` for
good, in a session that stays open, and what follows it is held for ever.
Everything written stays on the edge together with signed envelopes that do not
open (`Garbled`); `Receive` takes any of them, any number of times, under any
observation of the contract snapshot.  What fails validation, routing or the
signature is dropped before the window is read and is not modelled.
`ContractView::check` is the partition `Permits` / `Postpones` / `Contradicts` of module `ContractView`;
`sound = FALSE` stands for a record whose digest is not that of its content.

`drain` is one step, as in the code, stated by its result: `OpensUpTo` says how
far the queue opens, `DeliversUpTo` how far the view lets delivery go, and a
contradiction anywhere among the opened envelopes aborts instead, which
discards what the report had collected.  Plaintext zeroing is left out.
Sessions end by `Abort`, by a close request or eviction, and by a restart, all
of which drop the window with the session.

`delivered` is what the transport handed over; that a whole reply may be lost on
its way to the agent is part of `ExecutionExchange`.

### The secure handshake

Two or more guardians, each with its manager (`pending`, `active`, `seen`,
`order`) and `blocked` contexts, share an edge of hello and ack files that
nobody removes.  A guardian serves one request at a time: `Initiate`, `Speak`
(a seal) and `Close` are one step; an `open` request is many, `StartOpen` taking
the snapshot that `read_edges` takes and `ScanStep` meeting its files, because
the *other* guardian goes on meanwhile and a crash may come between two files.
Within a scan acks come before hellos (the names sort so), and each in any
order (nonces and session ids are random).

Signatures are abstracted to identity: a hello is the record of what its
signature binds, an ack the record of its hello and a number for its own key
and nonce, and a session id *is* the ack it was derived with.  The `life` in a
hello, like `answered` and `since` (which other hellos a guardian took in after
an ack), is history no guard reads.  Writing a file may fail
(`WriteHello`, `WriteAck`) after the manager has changed, as in `dispatch` and
`receive`.  A plaintext file ends the scan of its context and blocks it
(`Downgrade`, `StoppedScan`); the branch for peers whose pin does not require
secure delivery is left out.  The message phase of `receive` is reduced to what
it does to the session's state (`FinishOpen`); the messages themselves are
`SecureTransport`.

`RateBudget` is asked before a request is parsed, and a refused request does
nothing else; so it is explored by itself, in the run `contract_audit`, whose
three parts move one while the others rest.  It counts instants instead of milliseconds and lasts one life of the
process: a restart starts a new budget.  Bytes that do not end in a newline are
answered by `serve` itself and never reach it.

### Grants and permits

A ledger is a set of immutable grants and a set of revoked identifiers; whether
a grant is open is asked, never stored, so there is no clock: every call brings
its own time, and `\E at \in Times` lets successive calls bring any.
Identifiers are chosen by the issuer, so a child's may come before its
parent's, which matters where the code takes the first of several.  The code
follows `parent` in a loop; here a chain is the least set of identifiers closed
under parents (`Chain`), which is what that loop visits and what the proofs can
reason about without induction.  Scopes stay a sequence: an element list may
name a scope twice, and `delegable()` collects it into a map in which the last
one wins, so `Delegable` and `Passable` (what some element marks delegable, which
is what `authorize_siblings` looks for) differ.

`CrossBranch` adds the chart and the permits.  The host replaces the chart at
will (`Reorganise`) and it need not be well formed; `Rooted` is `checked_chain`
succeeding.  A permit is a record its parties keep; admission (`Admits`) changes
nothing and is judged in every state, by `AdmissionIsBacked`.  Time windows,
classes and identifiers in the wrong format are refused without effect and left
out; `covers` and `children` are queries used within other definitions.

### Sessions and the formation of contracts

`BilateralSession` is one session, with the one feature that decides something
in this code (`observer-events`).  `Formation` lets contracts be proposed in it,
among peers or as a delegation on a grant (`GrantFits`, and the path the
delegator's chain gives), while grants are issued and revoked, the chart is
replaced and the session ends: `propose` consults all three once and never
again.  Checks of wording and limits are left out.

### Walks over records

The three searches differ in what they colour before they start, not in how they
search, so `Provenance` is one machine with an explicit stack and three ways to
call it.  A collection is a function from ids to the ids referred to, an id
outside its domain is a record nobody has.  References are followed in any
order, where the code takes the listed one.  `WalkIsRight` says what the result
is without walking: `Beneath` is the least set closed under references, and each
record comes after those it stands on.  That is the order of the code; the
comment above `ancestry` promises another one (`AncestryInDiscoveryOrder`,
finding 5).

### Remote execution

One established session carries requests one way and replies the other; each
direction is what `SecureTransport` is shown to implement, with `ContractView`
deciding how far a report goes.  An `open` or `seal` is one step, because a
guardian serves one request at a time; what the agent was to be told may be lost
all the same (`PollFails`, `ReportLost`), the service may stop
(`RestartService`) and sessions may go (`LoseSession`).  A send may fail with
the session standing (`SealFails`): the guardian was never asked (its rate, two
matching sessions, the socket), or it sealed the message and could not write
it, or only its response is lost.  `Send` then returns the error; `ReplyAs` has
judged the request all the same and notes in its `Outcome` that the reply was
not sent (`unreplied`).  `carried` says how much of what was sealed the edge
carries before the first envelope it lacks; beyond it nothing is handed out.
The service works a report off one delivery at a time, and the sandbox runs between
two of its steps: the guest writes into a bounded pipe and may hang, a capture
thread per stream reads past the limit, `wait_with_timeout` polls.  A policy
decision is a set of ranked checks, the first in rank to refuse gives the code of the denial;
`WithinPolicy` says what they are for, and the refinement that nothing runs
without it.  The refinement mapping reads the stage of a call off where its
message is; a call is `lost` once its delivery was taken and is in no hands.

### Escalation

One dispute and the chart; disputes share nothing else.  `StageOneMediator` is the
three-way choice of `raise`, unchecked as there, `Climb` the correction of `refer`.
Replacing the chart is bounded by the charts in `Later`, as opposed to those a
behaviour may start with, which are all.  A dispute reads nothing of grants and
sessions, so in the run `cross_branch` each moves while the other is at its start.

## 3. Runs

| Run | Instance | States | Shows |
|---|---|---|---|
| `contract` | 2 participants, 2 contents, 1 artifact, rounds 3, amendments 2, rework 1, legacy snapshots and host verdicts; a neighbour contract | 26 423 | the invariants, the refinement, and what a guardian reads off every state |
| `contract_audit` | current snapshots, validated records of which 2 are issued, amendments 1; every collection of three records over four ids, 1.1 contracts of up to three artifacts and three dependencies; a budget of 2 requests in a minute of 2 instants, over 6 | 244 230 | settlement stands on an accepting record of the counterparty for the last work; counters alternate; no call sequence gets stuck; countering and resubmitting end; the walks are right |
| `contract_failed_decision` | as above | violation | finding 1 |
| `ancestry_order` | the walks of `contract_audit` by themselves | violation | finding 5 |
| `transport` | digests none, d1, d2; five observations; queue of 2; sequence numbers below 4; envelopes that do not open in the middle and at the end; any of the sealed ones never written | 45 710 | ordering, nonces, queue, failing closed, the refinement; everything sealed before the first hole is delivered or the session closes |
| `transport_unobserved` | as `transport` | violation | finding 2 |
| `handshake` | 2 guardians, 1 context, 2 hellos, 4 acks, bound and memory of 1, 1 restart each, 1 failed write or close | 1 853 180 | bound, one session per hello, a second ack only after the memory has seen as many others, downgrade, the two ends of a session agree |
| `handshake_live` | 3 hellos, memory of 3, no restart | 48 940 | a fresh handshake ends in a session both hold |
| `handshake_restart` | bounds of the code (4 unopened, 1024 hellos), 1 restart | violation | finding 3 |
| `cross_branch` | 4 agents, 3 charts (a tree, two roots, a cycle), 7 grants of 3 identifiers offered (fitting and not), 2 times, 1 permit kept; one session, 1 contract; and one dispute in every chart of the 4, replaced by any of the 3 | 173 707 | attenuation, final revocation; permits and admissions against revocation, windows and reorganisation; delegations stand on grants; `lca` against the definition of lowest common supervisor; who mediates, where referral goes |
| `cross_branch_siblings` | 5 agents, one charter, one chart | violation | finding 4 |
| `execution` | 2 requests on 4 terms (unbound, modest, beyond the policy, refused by the executor), 2 revisions, one stream of up to 2 bytes through a pipe of 1, 1 fault | 380 573 | nothing is run twice, unbound or against the policy; the answer is that of the call; the output is accounted for; replies keep up with requests; a request that can be handed over is answered, or noted as unanswered, or lost |

Bounds.  Two participants is what the type says (`[String; 2]`).  Two contents
are needed to disagree, and no guard compares more than two.  Three rounds let
each participant counter and still leave a last round; two amendments give a
first, a second and a refused third, and a revision that is neither the first
nor the last; one rework gives a granted and a refused one.  In the transport
four sequence numbers and a queue of two give a hole with newer and older
traffic behind it, a full queue with and without a hole, and the end of the
sequence space; three bindings and five observations give every outcome of the
check and every change between two of them.  The theorems of section 5 remove
all of these bounds for safety.  In the handshake a bound of one unopened
session makes every second attempt evict one, and a memory of one hello makes
every second answer forget one; four acks for two hellos cover each answered
once more after a restart.  Guardians are interchangeable (`SYMMETRY`) in the
safety run only.  The grants offered to the ledger reach chains of three
layers, an identifier with two contents, and a grant that would close a cycle; two
charters, one short, give descendants that outlive and that do not.  Permits and
sessions know nothing of each other and are not explored together (`Untouched`);
each is with everything that becomes of the ledger and the chart, and one
contract is enough, since contracts of a session do not read one another.  Four agents
give siblings, a parent and child and a supervisor above, in every arrangement.  One permit
is enough, since permits do not interact, and every admission is judged in every
later state.  Three records and an id of none give every diamond, every cycle
through the start and beside it, and every missing record that a search with one
stack can tell apart; the walks read nothing of the contract and are made while
it is as proposed.  Two requests give a reply that is meant for the other one and
a report that holds both; a pipe of one byte and an output of two give a guest
that blocks, one that is cut off and one that just fits; one fault shows each
loss in every place, and the theorems have any number of them.  The two
output streams are read by threads that share nothing, so one is enough.

`CHECK_DEADLOCK FALSE` everywhere: contracts and sessions end.  That a contract
stops *only* in a terminal state is the invariant `NeverStuck`.

### Findings

1. **A refused amendment decision makes the amendment bilateral.**
   `decide_amendment` records its caller before it looks at the terms.  A
   counterparty whose only act was refused with an error thereby turns the
   fallback to the current revision into `NoAgreement`.
   (`UnilateralAmendmentSurvives`)
2. **A digest not yet observed aborts instead of being held** when exactly one
   revision is frozen and nothing is being proposed, where the transport
   document says HOLD.  (`UnobservedIsHeld`)
3. **After a restart of one side the fresh handshake is unusable from the
   other**, whose workflow finds the session of the first life as well and
   refuses to choose, where the test matrix says that it works.
   (`FreshHandshakeWorks`)
4. **A second sibling authorisation is shadowed by the first.**  `preauthorizes`
   takes the first open covering grant by identifier; when it restricts to
   another peer the request is refused, although a grant for this peer exists.
   (`SiblingPairsArePreauthorized`)
5. **The ancestry of an artifact is not in discovery order**, as its comment
   says, but has every artifact after what it is derived from: `visit` appends
   when it leaves.  The tests count what is returned.
   (`AncestryInDiscoveryOrder`)

Met on the way, and without a run of their own: `expire_negotiation` returns an
amendment to `Executing` without clearing `agreed_by` (the refinement proves the
leftover harmless); a hello forgotten by the bounded memory is answered again
(`AnsweredOnce` states what does hold: between the two acks the guardian took in
as many other hellos as the memory keeps); `Escalation::raise` reads the chart unchecked, so in a cyclic one a
party may mediate its own dispute, until referral, which refuses (hence the
condition in `ThirdPartiesDecide`); an arbiter may be recorded before referral; and
when the chart is replaced between raising and referring, the dispute goes to
the new lowest common supervisor, which need not be above the old mediator (hence
the condition in `ReferralClimbs`).

## 4. Fairness

The contract properties need none: `LoopsAreBounded` says that certain calls
cannot happen for ever.

`FairSpec` of the transport assumes weak fairness of offering each envelope that
was written and of observing `FinalView`.  The guardian's `open` request reads
*every* file in the session's directory and ends with an observation of each
session, files are never removed, and agents poll it; `FinalView` is the state
the contract snapshot settles on.  Nothing is assumed of the sender, whose
writes may fail (then `SealedIsDelivered` speaks of what was sealed before the
first that did), of the order of files, or that the session stays open: closing
is an allowed outcome.

`FairSpec` of the handshake assumes that each guardian goes on serving `open`
requests and serves each to its end (`serve` reads requests in a loop, adapters
poll).  Nobody need initiate, speak or be spared eviction: a newer handshake
is an allowed outcome of `FreshHandshakeRecovers`.

`FairSpec` of the execution exchange assumes that the service goes on polling and
works its reports off (the loop of `hacp-exec-guardian`), that the host's part of
a run makes progress (`HostStep`: capture threads read, the child is polled and
its deadline comes), and that the contract reaches its last revision.  The guest
owes nobody an exit, and the requester need not poll.  No call is assumed to
succeed: a reply that cannot be sent is an allowed outcome of
`RequestIsAnswered`, and its `Outcome` says so.

## 5. Theorems

All are theorems of the specifications for every value of the constants, from
the assumptions stated in the modules and no others:

- two participants, limits that `propose` accepts, `None` outside the data;
- an arbitrary queue limit, sequence space, number of lives, hellos, answers and
  failures; at least one unopened handshake allowed, and a memory of any size;
- finitely many agents, charts that are functions (well formed or not), numbers
  for identifiers and times;
- of execution: the limits of the policy are numbers, a pipe holds at least a
  byte, requests name a revision or none and carry a list of files, and there
  are finitely many requests and faults, however many;
- a minute is at least one instant, and the cap at least one request;
- a collection has finitely many records, each with finitely many references, as
  every `HashMap` has.

| Module | Inductive invariant | What it gives |
|---|---|---|
| `BilateralContractProofs` | `IInv` | the checked invariants, `HistoryGrows`, `Finality`, `LoopsOnlySpend`, `Refinement` |
| `ContractWitnessProofs` | `IInv`; `AuditInv` | `Readable`, `OneWay`; `SettlementIsReviewed`, `CountersTakeTurns`, `ReviewIsPossible`, `AuditOfEngine` |
| `SecureTransportProofs` | `TInv` | types, nonces, order, nothing lost, queue, `FailsClosed`, `DrainDetermined`, `ReportsStopForCause`, `TransportRefinement` |
| `SecureHandshakeProofs` | `HandshakeInv`; `AgreeInv`; `BoundInv`; `MemoryInv`; `RateInv` | one session per hello, downgrade; `EndsAgree`; `HalfDoneIsBounded`; `AnswersAreRemembered`; `BudgetHolds` |
| `AuthorityProofs` | `LedgerInv`; `CrossInv`; `FormationInv` | attenuation, revocation; permits and admissions; delegations, observers, sessions |
| `OrgChartProofs` | `DisputeInv` | `LowestCommonSupervisor`, `ThirdParties`, `ReferralsClimb` |
| `ProvenanceProofs` | `Inv` | `WalksAreRight`, `WalksEnd` |
| `ExecutionProofs` | `ExchangeInv`; `RepliesKeepUp` | `ExchangeTypesHold`, `OutputIsReported`, `AtMostOnce`, `ExchangeChannels`, `RepliesInOrder` |

*Contract.*  `Invariant` proves the inductive `IInv`: the type invariant, the
five invariants and what they rest on.  Per action one lemma shows it
preserved.  `HistoryGrows` and `Finality` follow from the step alone.
`Refinement` maps every step: a counter, refusal or legacy snapshot without
terms forgets consents, a vote is a consent (`VoteIsConsent`), and the freezing
steps are `Adopt`, which needs that two recorded votes are all participants
and bound to the frozen content.

`LoopsOnlySpend` is what `LoopsAreBounded` comes to without fairness.
`SubmissionsLeft` counts the reworks not granted yet and the submission that is
due; `RoundsLeft`, the rounds of the negotiation under way.  No step raises the
first, only a proposed amendment the second, and amendments are bounded
(`BoundsAreExact`); each submission and each counter lowers its own.

*Observation.*  `Readable` and `OneWay` rest on `IInv` of the contract: numbers
rise, a frozen state has a revision, withdrawal comes before a freeze.  `Sees` says what a
view comes to in terms of the revisions and of whether both have agreed, so that
`ObservationStep` has only to compare the revisions before and after a step.

*Audit log.*  `ContractAudit` lets any record be delivered at any time, where the
engine's `Next` tries only records that name a revision.  `DeliveredMatches`
shows that nothing is lost by that: work under review answers the revision in
force, so a record that passes `apply_verification` names it, however late it
comes.  Hence every step of the audited engine is one of the engine
(`AuditOfEngine`), and `IInv` carries over.  What the log adds is `LogIsCurrent`:
its last work is the pending one and its last counter the name that may not
counter again.  Settlement compares the record with the pending submission and
so with the last work; a counter is refused to the last name of the log.
`ReviewIsPossible` needs one fact more, that the submitter of pending work is a
participant (`SubmitterKnown`): somebody else can then be its reviewer, and the
record that names the pending work passes every check of `apply_verification`.

*Transport.*  `TInv` states that the i-th sealed envelope carries number i-1,
that delivery is a prefix, and, for the window, that the queue has one envelope
per place, that each which opens is the sealed one of its place, that every
place between `delivery_next` and `high` is filled by one that opens and that
the next place is free.  `Added` and `OpenedWindow` show the window property
through the two halves of a receive, so that `DrainStep` serves both `receive`
and `observe`; `Genuine` and `Batch` show what a report hands out.  `Queue` adds
the bound, and `FailsClosed` and `TransportRefinement` are read off what
`DrainStep` says of a report that is not an abort (`Advance`).

The drain is stated by its result, and `DrainDetermined` says that it is one: from
where the window is to the end of the sequence space there is one first gap among
the places that open, and before it one first place the view does not permit
(`FirstGap`, from the well-foundedness of the numbers).  `ReportsStopForCause` is
what `SealedIsDelivered` needs besides its fairness: the awaited envelope moves
`high`, and what stops delivery short of it is an envelope that neither is
permitted nor contradicts, one the view postpones, therefore.

*Handshake.*  `HandshakeInv` adds to the types and to two of the checked
properties: hellos are numbered as they are made, so a new one differs from
every hello a manager, the edge or a running scan still knows (`Numbered`);
what a manager initiated is its own and of its present life (`Owned`); hellos reach whom they are addressed to, so the two roles
are not confused (`Routed`); and a scan with hellos left to answer is not one of
a closed context (`ScansOpen`), which is what keeps a downgrade final.

*Agreement of the ends.*  `SessionsAgree` relates a session to what the *other*
guardian did: the initiator's to the ack its addressee made, the answerer's to what
the initiator said in it.  `AgreeInv` adds where both come from: acks on the edge,
and those a running scan has still to meet, were made by somebody, and nobody
speaks in a session whose ack never reached the edge, since the initiator learned
of the session from there.  That the history is only added to, and a life changes
only with the loss of its sessions, carries it through evictions, restarts and
repeated scans.

*The bound on unopened handshakes.*  Eviction keeps an entry when fewer than the
limit less one came after it.  That this leaves so few is `FewAreRecent`: of the
kept, the oldest has all the others after it.  It needs that no two entries
share a place in the order, sessions and hellos taken together (`OrdersApart`),
which is the second half of the invariant `BoundInv`.

*The memory of hellos.*  `MemoryFaithful` says of every ack of the present life
what the memory still vouches for (`Covered`): while its hello is remembered,
all that stands behind it (`Behind`) was taken in since; once it is not, as many
others were as the memory holds.  Forgetting the oldest is what carries the
first into the second: the hello that falls out had a full memory behind it.
Each hello is remembered once, acks are numbered as they are made
(`AnswersDated`), and `since` is finite, so that what was counted stays counted.
That an evicted session is not answered again needs that each session a guardian
answered is among what it answered, for `seen` is what it asks as well as the
sessions.

*The rate budget.*  `WindowIsRecent` says that the window is the end of all that was
admitted and that what precedes it is a minute old (`LiveIsTheRest` shows that
for what `permit_at` drops), so that the number in the window is the number
admitted in the minute up to now; the records are a minute apart
(`RecordsApart`).

*Grants.*  `LedgerInv` is the type invariant, attenuation and `ChainsEnd`.  A
new grant hangs below an open parent and nobody hangs below it, because a
parent exists before its child; so the chains of the others stay what they were
(`ChainStable`) and the new one is its parent's plus itself.  Attenuation then
needs one layer only.  A step of `CrossBranch` is a ledger step for that
invariant (`CrossStep`), and since chains are stable the expiry a permit was
given is still the least window of its chain (`PermitsEndInTime`); `Backed` reads
an admission off the invariant.

*Formation.*  Sessions and contracts are steps that leave ledger, chart and permits
alone (`FormationIsCross`), so `CrossSpec` and its invariant carry over
(`FormationKeepsCross`).  `DelegationsStandOnGrants` is inductive beside it: the
ancestry of an issued grant stays what it was (`AncestryStable`), and when a
delegation is made, attenuation makes the one grant `GrantFits` looked at speak for
all layers above it; that its path repeats nobody is `PathIsChain`, from the chart.

*Charts and disputes.*  `Above` is a recursive function of the level.  Induction over
levels is had from the well-foundedness of the numbers: a set that holds 0 and
every successor of its members lacks no number, for it would lack a least one
(`LeastNumber`, `Induction`).  With it `AboveStep` gives the recursion equation,
`AboveAdds` that n levels and then m are n + m, `NoCycle` that a chain which ends
repeats nobody, and `RestOfChain` that the supervisors of somebody on a chain are
the rest of it.  `lca` takes the first on one chain that is on the other:
everybody common comes no earlier, and is therefore it or above it.  Referral
then needs that a rooted agent is not above itself and that supervision is
transitive.

*Walks.*  `Inv` says of a walk under way that the stack is a chain of references
(`Chained`), that what is on it is in progress and everything in progress is on
it (`Coloured`), that what is done stands on what was done before (`Settled`) and
that a reference of a record on the stack is still to follow, done, or next on
the stack (`NothingMissed`).  The last makes a return complete: what is done holds
the roots and is closed, and `Beneath` is the least such set.  The second makes a
cycle real: from where the id stands on the stack to its top.

`WalksEnd` gives every walk a measure, read lexicographically: the records not met
yet (`Unseen`), the height of the stack, the references the record on top has
still to follow (`ToFollow`).  Meeting a record lowers the first, leaving one the
second, a reference to one already met the third.  The stack is at most one
higher than there are records, which bounds the recursion of the code.

*Execution.*  `ExchangeInv` has six parts.  Beside types: a request is on the edge
once and says what was asked (`AskedOnce`); what the service has in hand is the end
of what it was handed (`InboxIsNext`); judged requests lie before that
(`JudgedWereHanded`), which is why no request is met again after its verdict; each
reply on the edge, and each answer returned, is the verdict on the request it
names (`AnswersAreVerdicts`); and what runs is the delivery at the front, and
authorised (`RunIsAuthorized`).  The last carries the sandbox's own invariant
`Captured`: what a thread kept is the first bytes of what it read, up to the limit,
and marked as cut when there were more; a thread ends on an empty pipe nobody
writes to; the wait is over only with the child gone.  Its only arithmetic is
`CaptureArithmetic`.

For the refinement `AtMostOnce` each action is shown to be the step of
`AtMostOnceCall` it stands for, or to change no stage.  `ReportIsNext` says that a
report hands out the next messages in order, so those before the service's inbox
and those in it never overlap; `OthersWait`, that only the delivery at the front can be
running; `AuthorizedIsWithinPolicy`, that twelve checks which do not refuse amount to
`WithinPolicy` and a contract; `JudgeMaps`, that judging moves one call.  A lost
report turns the calls in it to `lost`, a restart those still in hand.  No induction
over the files of a request is needed, because `authorize` and the promise sum
the same prefixes.

The exchange takes each direction of the session to be the channel `SecureTransport`
implements.  `ExchangeChannels` shows it kept: seen from one direction, every step
tries to seal, opens, or closes an end (`GuardianSteps`).  An attempt to seal
appends its message or nothing, however it fails (`SealAppends`), and leaves what
was handed out as it was (`PrefixStays`); an `open` hands out what comes next or,
contradicted, closes its end and hands out nothing.

`RepliesInOrder` is what `RequestIsAnswered` rests on besides fairness, with any
number of faults: each request the service is done with has its reply sealed,
under its contract and in its turn, or its `Outcome` says that it was not sent,
or it was lost before it was judged (`EachIsSettled`, `RepliesFollow`); and a
reply goes unsent only by a failed call or with the session gone
(`NotedWithReason`).  A verdict is on the front of the inbox, so its reply is to
the first request the service was not done with; a step without a verdict adds no
reply, and makes the service be done with more only when something is lost
(`KeepUpBeside`), of which nothing is judged (`RestIsOpen`).

Only model-checked: `NeverStuck` (ENABLED) and the liveness properties
(`LoopsAreBounded`, `SealedIsDelivered`, `FreshHandshakeRecovers`,
`RequestIsAnswered`), which this prover does not handle.  For all but
`FreshHandshakeRecovers` the part that is safety is a theorem: `ReviewIsPossible`,
`LoopsOnlySpend`, `ReportsStopForCause` with `DrainDetermined`, and
`RepliesInOrder`; what stays with TLC is that the steps are enabled and that fairness
makes them happen.  Also only model-checked are the five violations, which
are behaviours and need no proof.  Every other property of a run is a theorem.
Proved and no longer checked by a run of their own are `UnanimityIsAnswered`,
`RevisionsAccountedFor`, `OpenAmendmentFits`, `HistoryOnlyGrows`,
`TerminalIsFinal`, `DeliveredIsPrefix`, `QueueBounded` and `ChainsEnd`, which the
refinements and invariants that are checked imply or rest on, and
`SessionsStayClosed`, which each action of a session shows by its guard.

## 6. Not modelled

- Parsing, canonical form, hashing, schemas and error texts: data is told apart
  by identity.  Cryptography: an envelope opens or does not.  Files, sockets,
  permissions, argument parsing of the binaries; scripts.
- Checks of single documents: the shape and visibility of artifacts and evidence,
  the wording and limits `propose` looks at, the roles and boards of a profile,
  and of HACP/1.1 the envelope, topology, reports, disputes and evolution
  records.  The transition table of 1.1 runs (`state.rs`) has no user in the
  repository that keeps a state and moves it; a table by itself promises nothing
  to check.
- Of the guardian: peers whose pin does not require secure delivery, `status`
  and `fingerprint`, the audit log apart from the record of a refusal.
- Of the exchange: envelopes that arrive late or in another order
  (`SecureTransport` has them), deliveries that do not decode or are of another
  kind (they are reported and dropped without effect), of `Outcome` all but
  whether the reply was sent, and that both guardians read the snapshot at
  different moments (they share one revision here).
- Of the sandbox: what the guest may do inside, the command line, a grandchild
  that keeps a pipe open, errors of reading a pipe; a service that stops leaves
  its child and its staging directory behind.
- That `authorize` judges a file by the rounded size of its encoding, so that one
  within the limit by a byte or two is refused, is modelled (`EncodedSize`) and is
  no violation of anything stated.

## 7. What could follow

The plan of this project is in place: contract, records, transport, handshake,
ledger and permits, formation, escalation, walks, execution, and every safety
property of them but one proved.  Left, in order of use: both directions of the
edge composed with `SecureTransport` itself instead of its promise; two snapshots
of a contract that two guardians read at different times; pins that allow
plaintext; a measure for the handshake's recovery.

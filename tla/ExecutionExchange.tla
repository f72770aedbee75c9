--------------------------- MODULE ExecutionExchange ---------------------------
(***************************************************************************)
(* Remote execution over HACP Secure: the client and the service of        *)
(* src/infra/wasmer/src/execution.rs, each beside its own guardian, and    *)
(* the sandbox the service runs requests in.                               *)
(*                                                                         *)
(* One established session carries requests one way and replies the other. *)
(* Each direction is the channel SecureTransport is shown to implement     *)
(* (OrderedDelivery), with the contract view deciding how far a report     *)
(* goes.  A guardian serves one socket request at a time, so an `open` and *)
(* a `seal` are one step; between two of them the contract may be amended, *)
(* a process may stop, and a response may fail to reach the one who asked. *)
(***************************************************************************)
EXTENDS Integers, Sequences, ExecutionPolicy, Sandbox

CONSTANTS
    MaxRequests,   \* bound: requests made
    Terms,         \* what may be asked, under which contract
    Digest,        \* the digests of the contract's revisions, in order
    NoAnswer,
    MaxFaults      \* bound: requests that fail, processes stopped, sessions closed

VARIABLES
    revision,      \* of the contract in .hacp/session.json, 0 before the freeze
    open,          \* each guardian still has the session
    sealed,        \* what each guardian has sealed for the other, in order
    carried,       \* how much of it the edge carries before the first it lacks
    taken,         \* how much of it each guardian's reports have handed out
    calls,         \* where the requester stands with each request
    terms,         \* what it asks, under which contract
    answer,        \* what await_result returned
    inbox,         \* deliveries of the report the service is working through
    outcome,       \* the reply the service made to each request
    unreplied,     \* the requests whose Outcome says it could not send the reply
    faults

exchange == <<revision, open, sealed, carried, taken>>
vars == <<revision, open, sealed, carried, taken, calls, terms, answer, inbox, outcome,
          unreplied, faults, sandbox>>

Requests == 1 .. MaxRequests    \* standing for their message ids, in the order made

Agents == {"requester", "executor"}
Other(g) == IF g = "requester" THEN "executor" ELSE "requester"

File == [size : Nat, base64 : BOOLEAN, confined : BOOLEAN]

ASSUME TermsAssumption ==
    /\ Terms # {}
    /\ \A t \in Terms :
          /\ t.contract \in {NoBinding} \cup {Digest[i] : i \in DOMAIN Digest}
          /\ t.payload.args \in Nat /\ t.payload.files \in Seq(File)

ASSUME ExchangeAssumption ==
    MaxRequests \in Nat /\ MaxFaults \in Nat /\ Len(Digest) \in Nat

--------------------------------------------------------------------------------
(***************************************************************************)
(* The guardians.                                                          *)
(***************************************************************************)
View == [ current |-> IF revision = 0 THEN {} ELSE {Digest[revision]},
          superseded |-> {Digest[i] : i \in 1 .. revision - 1},
          bootstrap |-> revision = 0, sound |-> TRUE ]

Waiting(g) == SubSeq(sealed[Other(g)], taken[g] + 1, carried[Other(g)])

Contradicted(g) == \E i \in DOMAIN Waiting(g) : Contradicts(View, Waiting(g)[i].contract)

Held(g) ==
    LET waiting == Waiting(g)
    IN  {i \in DOMAIN waiting : ~ Permits(View, waiting[i].contract)}

\* Deliveries run in order while the view permits; one contradiction takes the
\* session and every delivery of it out of the report.
Report(g) ==
    IF ~ open[g] \/ Contradicted(g) THEN <<>>
    ELSE IF Held(g) = {} THEN Waiting(g)
    ELSE SubSeq(Waiting(g), 1, (CHOOSE i \in Held(g) : \A j \in Held(g) : i <= j) - 1)

\* The guardian's `open` request: what the report holds is spent, whether or not
\* the report arrives.
Open(g) ==
    /\ taken' = [taken EXCEPT ![g] = @ + Len(Report(g))]
    /\ open' = [open EXCEPT ![g] = @ /\ ~ Contradicted(g)]
    /\ UNCHANGED <<revision, sealed, carried>>

Sealable(g, contract) == open[g] /\ ~ Contradicts(View, contract)

Sealed(g, message) == [sealed EXCEPT ![g] = Append(@, message)]

\* Workflow::send and the guardian's `seal` request: a superseded contract closes
\* the sender's session.  What is written behind a hole does not come through it.
Seal(g, message) ==
    /\ sealed' = IF Sealable(g, message.contract) THEN Sealed(g, message) ELSE sealed
    /\ carried' = [carried EXCEPT ![g] =
                      IF Sealable(g, message.contract) /\ @ = Len(sealed[g]) THEN @ + 1 ELSE @]
    /\ open' = [open EXCEPT ![g] = @ /\ ~ Contradicts(View, message.contract)]
    /\ UNCHANGED <<revision, taken>>

Fault == faults < MaxFaults /\ faults' = faults + 1

\* The sender gets an error and the session stays: the guardian was never asked (it
\* refuses by its rate, two sessions match, the socket fails), or it sealed the
\* message and could not write it, or its response is lost.
SealFails(g, message) ==
    /\ Fault
    /\ \/ UNCHANGED exchange
       \/ /\ Sealable(g, message.contract) /\ sealed' = Sealed(g, message)
          /\ UNCHANGED <<revision, open, carried, taken>>
       \/ Seal(g, message)

--------------------------------------------------------------------------------
(***************************************************************************)
(* The requesting side: ExecutionClient.                                   *)
(***************************************************************************)
Send(r, t) ==
    LET request == [re |-> r, contract |-> t.contract, body |-> t.payload]
        sent    == Sealable("requester", t.contract)
    IN  /\ calls[r] = "idle" /\ \A q \in 1 .. r - 1 : calls[q] # "idle"
        /\ \/ /\ Seal("requester", request) /\ UNCHANGED faults
              /\ calls' = [calls EXCEPT ![r] = IF sent THEN "sent" ELSE "unsent"]
           \/ SealFails("requester", request) /\ calls' = [calls EXCEPT ![r] = "unsent"]
        /\ terms' = IF sealed' = sealed THEN terms ELSE [terms EXCEPT ![r] = t]
        /\ UNCHANGED <<answer, inbox, outcome, unreplied, sandbox>>

\* await_result is called, perhaps again after it gave up.
Await(r) ==
    /\ calls[r] = "sent"
    /\ calls' = [calls EXCEPT ![r] = "waiting"]
    /\ UNCHANGED <<exchange, terms, answer, inbox, outcome, unreplied, faults,
                   sandbox>>

AnyReply(r) == DOMAIN Report("requester")    \* mutant

RepliesTo(r) ==
    LET report == Report("requester") IN {i \in DOMAIN report : report[i].re = r}

\* A report with the reply: the first one is returned if it names the same contract,
\* and everything else in the report is dropped.
TakeReply(r) ==
    /\ calls[r] = "waiting"
    /\ Open("requester")
    /\ \E i \in RepliesTo(r) :
          LET reply == Report("requester")[i] IN
          /\ \A j \in RepliesTo(r) : i <= j
          /\ IF reply.contract = terms[r].contract
                THEN /\ calls' = [calls EXCEPT ![r] = "returned"]
                     /\ answer' = [answer EXCEPT ![r] = reply.body]
                ELSE /\ calls' = [calls EXCEPT ![r] = "mismatch"]
                     /\ UNCHANGED answer
    /\ UNCHANGED <<terms, inbox, outcome, unreplied, faults, sandbox>>

\* A report without it, before the deadline ...
PollInVain(r) ==
    /\ calls[r] = "waiting" /\ RepliesTo(r) = {}
    /\ Open("requester")
    /\ UNCHANGED <<calls, terms, answer, inbox, outcome, unreplied, faults, sandbox>>

\* ... or after it: None, and the caller still has the request's id.
PollTooLate(r) ==
    /\ calls[r] = "waiting" /\ RepliesTo(r) = {}
    /\ Open("requester")
    /\ calls' = [calls EXCEPT ![r] = "sent"]
    /\ UNCHANGED <<terms, answer, inbox, outcome, unreplied, faults, sandbox>>

\* The guardian refuses the request, or its response is lost: await_result returns
\* the error.
PollFails(r) ==
    /\ calls[r] = "waiting" /\ Fault
    /\ Open("requester") \/ UNCHANGED exchange
    /\ calls' = [calls EXCEPT ![r] = "sent"]
    /\ UNCHANGED <<terms, answer, inbox, outcome, unreplied, sandbox>>

--------------------------------------------------------------------------------
(***************************************************************************)
(* The executing side: ExecutionService::step and handle.                  *)
(***************************************************************************)
Idle == inbox = <<>>

TakeReport ==
    /\ Idle
    /\ Open("executor")
    /\ inbox' = Report("executor")
    /\ UNCHANGED <<calls, terms, answer, outcome, unreplied, faults, sandbox>>

\* The response is lost: step returns the error and the loop goes on.
ReportLost ==
    /\ Idle /\ Fault
    /\ Report("executor") # <<>>
    /\ Open("executor")
    /\ UNCHANGED <<calls, terms, answer, inbox, outcome, unreplied, sandbox>>

ReplyTakenForSent(body) ==    \* mutant
    LET reply == [Head(inbox) EXCEPT !.body = body]
    IN  /\ (Seal("executor", reply) /\ UNCHANGED faults) \/ SealFails("executor", reply)
        /\ outcome' = [outcome EXCEPT ![reply.re] = body]
        /\ inbox' = Tail(inbox)
        /\ UNCHANGED unreplied

\* The outcome stands whatever becomes of the reply; that it was not sent is noted.
ReplyAs(body) ==
    LET request  == Head(inbox)
        reply    == [request EXCEPT !.body = body]
        replied  == Sealable("executor", request.contract)
        NotSent  == unreplied' = unreplied \cup {request.re}
    IN  /\ \/ /\ Seal("executor", reply) /\ UNCHANGED faults
              /\ IF replied THEN UNCHANGED unreplied ELSE NotSent
           \/ SealFails("executor", reply) /\ NotSent
        /\ outcome' = [outcome EXCEPT ![request.re] = body]
        /\ inbox' = Tail(inbox)

DenialBody(p, contract) == [status |-> "denied", code |-> DenialCode(p, contract)]

Deny ==
    /\ ~ Idle /\ ~ Authorized(Head(inbox).body, Head(inbox).contract)
    /\ ReplyAs(DenialBody(Head(inbox).body, Head(inbox).contract))
    /\ UNCHANGED <<calls, terms, answer, sandbox>>

Execute ==
    /\ ~ Idle /\ Authorized(Head(inbox).body, Head(inbox).contract)
    /\ \/ ~ Valid(Head(inbox).body) /\ GiveUp("InvalidRequest")
       \/ Valid(Head(inbox).body) /\ (Spawn \/ GiveUp("RuntimeUnavailable") \/ StagingFails)
    /\ UNCHANGED <<exchange, calls, terms, answer, inbox, outcome, unreplied, faults>>

RunSandbox ==
    /\ child # "none"
    /\ SandboxStep(OutputLimit(Head(inbox).body))
    /\ UNCHANGED <<exchange, calls, terms, answer, inbox, outcome, unreplied, faults>>

\* result_body
ResultBody(res) ==
    [status |-> IF res.failure = "none" THEN "completed" ELSE "failed", result |-> res]

ReplyKeepsRun ==    \* mutant
    /\ result # NoResult
    /\ ReplyAs(ResultBody(result))
    /\ UNCHANGED <<calls, terms, answer, sandbox>>

\* The reply goes out under the contract of the request, whatever has become of
\* that contract while it ran.
Reply ==
    /\ result # NoResult
    /\ ReplyAs(ResultBody(result))
    /\ Reset
    /\ UNCHANGED <<calls, terms, answer>>

\* The service stops and is started again: what it had been handed is gone.
RestartService ==
    /\ ~ Idle /\ Fault
    /\ inbox' = <<>> /\ Reset
    /\ UNCHANGED <<exchange, calls, terms, answer, outcome, unreplied>>

--------------------------------------------------------------------------------
\* The contract is frozen, or an amendment takes effect.
Amend ==
    /\ revision < Len(Digest)
    /\ revision' = revision + 1
    /\ UNCHANGED <<open, sealed, carried, taken, calls, terms, answer, inbox, outcome,
                   unreplied, faults, sandbox>>

\* A guardian restarts, or closes the session for a reason of its own.
LoseSession(g) ==
    /\ open[g] /\ Fault
    /\ open' = [open EXCEPT ![g] = FALSE]
    /\ UNCHANGED <<revision, sealed, carried, taken, calls, terms, answer, inbox, outcome,
                   unreplied, sandbox>>

Init ==
    /\ revision = 0 /\ faults = 0 /\ inbox = <<>>
    /\ open = [g \in Agents |-> TRUE]
    /\ sealed = [g \in Agents |-> <<>>]
    /\ carried = [g \in Agents |-> 0]
    /\ taken = [g \in Agents |-> 0]
    /\ calls = [r \in Requests |-> "idle"]
    /\ terms = [r \in Requests |-> CHOOSE t \in Terms : TRUE]
    /\ answer = [r \in Requests |-> NoAnswer]
    /\ outcome = [r \in Requests |-> NoAnswer]
    /\ unreplied = {}
    /\ SandboxIdle

Next ==
    \/ \E r \in Requests : \/ \E t \in Terms : Send(r, t)
                           \/ Await(r) \/ TakeReply(r)
                           \/ PollInVain(r) \/ PollTooLate(r) \/ PollFails(r)
    \/ TakeReport \/ ReportLost \/ Deny \/ Execute \/ RunSandbox \/ Reply \/ RestartService
    \/ Amend
    \/ \E g \in Agents : LoseSession(g)

Spec == Init /\ [][Next]_vars

(***************************************************************************)
(* The service is one thread that polls for ever and works its report off; *)
(* the run makes progress, and its deadline comes.  The guest owes nobody  *)
(* an exit.  The contract settles on its last revision.                    *)
(***************************************************************************)
HostStep == /\ child # "none"
            /\ \/ \E s \in Streams : Drain(s, OutputLimit(Head(inbox).body)) \/ EndOfStream(s)
               \/ SeeExit \/ DeadlinePasses \/ Kill \/ Join
            /\ UNCHANGED <<exchange, calls, terms, answer, inbox, outcome, unreplied, faults>>

FairSpec ==
    /\ Spec
    /\ WF_vars(TakeReport) /\ WF_vars(Deny) /\ WF_vars(Execute) /\ WF_vars(Reply)
    /\ WF_vars(HostStep) /\ WF_vars(Amend)

--------------------------------------------------------------------------------
(***************************************************************************)
(* Properties.                                                             *)
(***************************************************************************)
ResultBodies == [status : {"completed", "failed"}, result : Result]
DenialBodies == [status : {"denied"}, code : DenialCodes]

ASSUME NoAnswerAssumption == NoAnswer \notin ResultBodies \cup DenialBodies

\* The shapes of the state, and what the handlers take for granted: reports never
\* run ahead of what was sealed, a run belongs to the delivery the service is at,
\* and only one who was handed a reply has an answer.
ExchangeTypeOK ==
    /\ SandboxTypeOK
    /\ revision \in 0 .. Len(Digest) /\ faults \in 0 .. MaxFaults
    /\ open \in [Agents -> BOOLEAN]
    /\ \A g \in Agents : /\ carried[g] \in 0 .. Len(sealed[g])
                         /\ taken[g] \in 0 .. carried[Other(g)]
    /\ terms \in [Requests -> Terms]
    /\ outcome \in [Requests -> ResultBodies \cup DenialBodies \cup {NoAnswer}]
    /\ \A r \in Requests : answer[r] # NoAnswer <=> calls[r] = "returned"
    /\ unreplied \subseteq Requests
    /\ ~ SandboxIdle => ~ Idle

\* What the requester is told of a run is what the guest did: each stream up to
\* its limit and nothing missing before it, marked truncated exactly when there
\* was more; an exit code only from a guest that ended by itself in time.
OutputIsAccountedFor ==
    child # "none" /\ result # NoResult =>
        LET limit == OutputLimit(Head(inbox).body) IN
        /\ \A s \in Streams : result.kept[s] = Smaller(written[s], limit)
        /\ result.truncated <=> \E s \in Streams : written[s] > limit
        /\ result.exited => child = "exited" /\ result.failure = "none"
        /\ child = "killed" => result.failure \in {"TimedOut", "Io"}

Handed(r) ==
    \E i \in 1 .. taken["executor"] : sealed["requester"][i].re = r

Stage(r) ==
    IF outcome[r] # NoAnswer THEN "judged"
    ELSE IF ~ Idle /\ Head(inbox).re = r /\ ~ SandboxIdle THEN "running"
    ELSE IF \E i \in DOMAIN inbox : inbox[i].re = r THEN "requested"
    ELSE IF Handed(r) THEN "lost"
    ELSE IF \E i \in DOMAIN sealed["requester"] : sealed["requester"][i].re = r
         THEN "requested"
    ELSE "idle"

Allowable == {t \in Terms : t.contract # NoBinding /\ WithinPolicy(t.payload)}

\* The exchange implements AtMostOnceCall: whatever is lost, repeated polling and
\* restarts never run a request twice, nothing runs unbound or against the policy,
\* and an answer is the verdict on the request it is returned for.
Call == INSTANCE AtMostOnceCall WITH
    Calls <- Requests, None <- NoAnswer,
    Allowed <- Allowable,
    Results <- ResultBodies, Refusals <- DenialBodies,
    stage <- [r \in Requests |-> Stage(r)], verdict <- outcome

ImplementsAtMostOnceCall == Call!Spec

Asked == sealed["requester"]
Answers == sealed["executor"]

\* How many of the requests handed out the service is done with.
Worked == taken["executor"] - Len(inbox)

Replies(reply, request) == reply.re = request.re /\ reply.contract = request.contract

\* Each has its reply sealed under its contract, or is noted as one whose reply was not
\* sent, or was never judged because its delivery was lost.
EachIsSettled ==
    \A i \in 1 .. Worked :
        \/ \E j \in 1 .. Len(Answers) : Replies(Answers[j], Asked[i])
        \/ Asked[i].re \in unreplied
        \/ outcome[Asked[i].re] = NoAnswer /\ faults # 0

\* A reply that went out is to one of them, and replies go out in the order of requests.
RepliesFollow ==
    /\ \A j \in 1 .. Len(Answers) : \E i \in 1 .. Worked : Replies(Answers[j], Asked[i])
    /\ \A j, l \in 1 .. Len(Answers) : \A i, k \in 1 .. Worked :
          j < l /\ Replies(Answers[j], Asked[i]) /\ Replies(Answers[l], Asked[k]) => i < k

\* The service misses a reply only by a failed call or with its session gone.
NotedWithReason == unreplied # {} => faults # 0 \/ ~ open["executor"]

\* What ExecutionService::step and handle leave behind, whatever fails on the way: no
\* request they are done with goes without a reply in its turn unless something says so.
RepliesKeepUp == EachIsSettled /\ RepliesFollow /\ NotedWithReason

\* A request the executor's guardian can be handed is answered: the reply is sealed
\* under the binding of the request, or the Outcome says it could not be sent, or
\* the delivery was lost with a report or a service, or the session is gone
\* (execution.rs:331-345, 378).
RequestIsAnswered ==
    \A r \in Requests :
        (\E i \in 1 .. carried["requester"] : sealed["requester"][i].re = r) ~>
            \/ \E i \in DOMAIN sealed["executor"] : sealed["executor"][i].re = r
            \/ r \in unreplied \/ Stage(r) = "lost" \/ ~ open["executor"]
================================================================================

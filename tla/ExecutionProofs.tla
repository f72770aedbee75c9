---------------------------- MODULE ExecutionProofs ----------------------------
(***************************************************************************)
(* Theorems about remote execution (ExecutionExchange), for every policy,  *)
(* number of requests, list of revisions, size of a pipe and output.       *)
(***************************************************************************)
EXTENDS ExecutionExchange, SequenceTheorems, WellFoundedInduction, TLAPS

(***************************************************************************)
(* The sandbox.  What the capture threads keep is the beginning of what    *)
(* they read, and a result is put together only when they have read all.   *)
(***************************************************************************)

\* Nothing was started.
NoRun ==
    /\ waited = "no"
    /\ written = [s \in Streams |-> 0] /\ drained = written /\ kept = written
    /\ cut = [s \in Streams |-> FALSE] /\ reading = cut

KeptToLimit(limit) ==
    \A s \in Streams : /\ kept[s] = Smaller(drained[s], limit)
                       /\ cut[s] <=> drained[s] > limit

\* A capture thread ends only on an empty pipe nobody writes to.
ReadToTheEnd ==
    \A s \in Streams : ~ reading[s] => drained[s] = written[s] /\ child # "alive"

\* The child is reaped before the wait ends, and killed only by the one who waits.
WaitIsOver ==
    /\ waited # "no"
    /\ waited \in {"status", "timeout", "error"} => child # "alive"
    /\ child = "killed" => waited \in {"timeout", "error"}

ResultIsTheRun ==
    /\ \A s \in Streams : ~ reading[s]
    /\ waited \in {"status", "timeout", "error"}
    /\ result.kept = kept
    /\ result.truncated <=> \E s \in Streams : cut[s]
    /\ result.exited => child = "exited" /\ result.failure = "none"
    /\ child = "killed" => result.failure \in {"TimedOut", "Io"}

Captured(limit) ==
    /\ SandboxTypeOK
    /\ child = "none" => NoRun
    /\ child # "none" => /\ KeptToLimit(limit) /\ ReadToTheEnd /\ WaitIsOver
                         /\ result # NoResult => ResultIsTheRun

LEMMA NoResultIsNone == NoResult \notin Result
  BY DEF NoResult, Result, Failures

\* With no run, the limit is of no account.
LEMMA NoRunAnyLimit ==
    ASSUME NEW l, NEW m, Captured(l), child = "none"
    PROVE  Captured(m)
  BY DEF Captured

LEMMA WriteKeeps ==
    ASSUME NEW limit \in Nat, Captured(limit), NEW s \in Streams, Write(s)
    PROVE  Captured(limit)'
<1>1. SandboxTypeOK /\ KeptToLimit(limit) /\ ReadToTheEnd /\ WaitIsOver
  BY DEF Captured, Write
<1>2. /\ written' = [written EXCEPT ![s] = @ + 1]
      /\ UNCHANGED <<child, drained, kept, cut, reading, waited, result>>
      /\ written[s] < MaxOutput /\ child = "alive"
  BY DEF Write
<1>3. /\ written' \in [Streams -> 0 .. MaxOutput]
      /\ \A t \in Streams : drained[t] <= written'[t]
  BY <1>1, <1>2, SandboxAssumption DEF SandboxTypeOK
<1>4. SandboxTypeOK'
  BY <1>1, <1>2, <1>3 DEF SandboxTypeOK
<1>5. KeptToLimit(limit)'
  BY <1>1, <1>2 DEF KeptToLimit
<1>6. ReadToTheEnd'
  BY <1>1, <1>2 DEF ReadToTheEnd
<1>7. WaitIsOver'
  BY <1>1, <1>2 DEF WaitIsOver
<1>8. result' # NoResult => ResultIsTheRun'
  BY <1>2 DEF Captured, ResultIsTheRun
<1> QED
  BY <1>2, <1>4, <1>5, <1>6, <1>7, <1>8 DEF Captured

\* What capture adds to what it kept, and when it notes a cut.
LEMMA CaptureArithmetic ==
    ASSUME NEW limit \in Nat, NEW before \in Nat, NEW n \in Nat \ {0}
    PROVE  /\ Smaller(before, limit) + Smaller(n, limit - Smaller(before, limit))
                  = Smaller(before + n, limit)
           /\ (before > limit \/ n > limit - Smaller(before, limit)) <=> before + n > limit
           /\ Smaller(before, limit) \in 0 .. before
<1>1. CASE before < limit
  BY <1>1 DEF Smaller
<1>2. CASE ~ (before < limit)
  BY <1>2 DEF Smaller
<1> QED
  BY <1>1, <1>2

LEMMA DrainKeeps ==
    ASSUME NEW limit \in Nat, Captured(limit), NEW s \in Streams, Drain(s, limit)
    PROVE  Captured(limit)'
<1>1. SandboxTypeOK
  BY DEF Captured
<1>2. PICK n \in 1 .. written[s] - drained[s] :
          /\ drained' = [drained EXCEPT ![s] = @ + n]
          /\ kept' = [kept EXCEPT ![s] = @ + Smaller(n, limit - kept[s])]
          /\ cut' = [cut EXCEPT ![s] = @ \/ n > limit - kept[s]]
  BY DEF Drain
<1>3. /\ UNCHANGED <<child, written, reading, waited, result>>
      /\ reading[s] /\ drained[s] < written[s]
  BY DEF Drain
<1>4. child # "none"
  BY <1>3 DEF Captured, NoRun
<1>5. KeptToLimit(limit) /\ ReadToTheEnd /\ WaitIsOver /\ result = NoResult
  BY <1>3, <1>4 DEF Captured, ResultIsTheRun
<1>6. /\ written[s] \in 0 .. MaxOutput /\ drained[s] \in 0 .. MaxOutput
      /\ kept[s] \in 0 .. MaxOutput /\ cut[s] \in BOOLEAN
  BY <1>1 DEF SandboxTypeOK
<1>7. n \in Nat \ {0} /\ drained[s] \in Nat /\ drained[s] + n \in 0 .. written[s]
  BY <1>3, <1>6, SandboxAssumption
<1>8. /\ drained'[s] = drained[s] + n
      /\ kept'[s] = Smaller(drained'[s], limit)
      /\ cut'[s] <=> drained'[s] > limit
      /\ kept'[s] \in 0 .. drained'[s]
  <2>1. kept[s] = Smaller(drained[s], limit) /\ (cut[s] <=> drained[s] > limit)
    BY <1>5 DEF KeptToLimit
  <2>2. /\ drained'[s] = drained[s] + n
        /\ kept'[s] = kept[s] + Smaller(n, limit - kept[s])
        /\ cut'[s] = (cut[s] \/ n > limit - kept[s])
    BY <1>1, <1>2 DEF SandboxTypeOK
  <2> DEFINE before == drained[s]
  <2>3. before \in Nat
    BY <1>7
  <2> HIDE DEF before
  <2>4. /\ Smaller(before, limit) + Smaller(n, limit - Smaller(before, limit))
               = Smaller(before + n, limit)
        /\ (before > limit \/ n > limit - Smaller(before, limit)) <=> before + n > limit
    BY <1>7, <2>3, CaptureArithmetic
  <2>5. kept'[s] = Smaller(drained'[s], limit)
    BY <2>1, <2>2, <2>4 DEF before
  <2>6. cut'[s] <=> drained'[s] > limit
    BY <2>1, <2>2, <2>4 DEF before
  <2>7. Smaller(drained'[s], limit) \in 0 .. drained'[s]
    BY <1>7, <2>2 DEF Smaller
  <2> QED
    BY <2>2, <2>5, <2>6, <2>7
<1>9. \A t \in Streams \ {s} :
          drained'[t] = drained[t] /\ kept'[t] = kept[t] /\ cut'[t] = cut[t]
  BY <1>1, <1>2 DEF SandboxTypeOK
<1>10. /\ drained' \in [Streams -> 0 .. MaxOutput] /\ kept' \in [Streams -> 0 .. MaxOutput]
       /\ cut' \in [Streams -> BOOLEAN]
       /\ \A t \in Streams : drained'[t] <= written[t] /\ kept'[t] <= drained'[t]
  <2>1. drained'[s] \in 0 .. MaxOutput /\ drained'[s] <= written[s]
    BY <1>6, <1>7, <1>8, SandboxAssumption
  <2>2. kept'[s] \in 0 .. MaxOutput /\ kept'[s] <= drained'[s]
    BY <1>8, <2>1, SandboxAssumption
  <2>3. drained' \in [Streams -> 0 .. MaxOutput]
    BY <1>1, <1>2, <1>8, <2>1 DEF SandboxTypeOK
  <2>4. kept' \in [Streams -> 0 .. MaxOutput]
    <3>1. kept[s] + Smaller(n, limit - kept[s]) = kept'[s]
      BY <1>1, <1>2 DEF SandboxTypeOK
    <3> QED
      BY <1>1, <1>2, <2>2, <3>1 DEF SandboxTypeOK
  <2>5. cut' \in [Streams -> BOOLEAN]
    BY <1>1, <1>2 DEF SandboxTypeOK
  <2> QED
    BY <1>1, <1>9, <2>1, <2>2, <2>3, <2>4, <2>5 DEF SandboxTypeOK
<1>11. SandboxTypeOK'
  BY <1>1, <1>3, <1>10 DEF SandboxTypeOK
<1>12. KeptToLimit(limit)'
  BY <1>5, <1>8, <1>9 DEF KeptToLimit
<1>13. ReadToTheEnd' /\ WaitIsOver'
  BY <1>3, <1>5, <1>9 DEF ReadToTheEnd, WaitIsOver
<1> QED
  BY <1>3, <1>4, <1>5, <1>11, <1>12, <1>13 DEF Captured

\* The steps that read no byte: what was kept stays, and the stream or the child
\* ends, or the wait does.
LEMMA EndingKeeps ==
    ASSUME NEW limit \in Nat, Captured(limit), child # "none",
           \/ \E s \in Streams : EndOfStream(s)
           \/ \E how \in {"exited", "crashed"} : Exit(how)
           \/ SeeExit \/ DeadlinePasses \/ Kill \/ WaitFails
    PROVE  Captured(limit)' /\ child' # "none"
<1>1. SandboxTypeOK /\ KeptToLimit(limit) /\ ReadToTheEnd /\ WaitIsOver
      /\ (result # NoResult => ResultIsTheRun)
  BY DEF Captured
<1>2. UNCHANGED <<written, drained, kept, cut, result>>
  BY DEF EndOfStream, Exit, SeeExit, DeadlinePasses, Kill, WaitFails
<1>3. result = NoResult
  BY <1>1 DEF ResultIsTheRun, ReadToTheEnd, WaitIsOver, EndOfStream, Exit, SeeExit,
              DeadlinePasses, Kill, WaitFails
<1>4. KeptToLimit(limit)'
  BY <1>1, <1>2 DEF KeptToLimit
<1>5. CASE \E s \in Streams : EndOfStream(s)
  <2>1. PICK s \in Streams : EndOfStream(s)
    BY <1>5
  <2>2. /\ UNCHANGED <<child, waited>> /\ reading' = [reading EXCEPT ![s] = FALSE]
        /\ drained[s] = written[s] /\ child # "alive"
    BY <2>1 DEF EndOfStream
  <2>3. SandboxTypeOK'
    BY <1>1, <1>2, <2>2 DEF SandboxTypeOK
  <2>4. ReadToTheEnd'
    BY <1>1, <1>2, <2>2 DEF ReadToTheEnd, SandboxTypeOK
  <2>5. WaitIsOver'
    BY <1>1, <2>2 DEF WaitIsOver
  <2> QED
    BY <1>2, <1>3, <1>4, <2>2, <2>3, <2>4, <2>5 DEF Captured
<1>6. CASE \E how \in {"exited", "crashed"} : Exit(how)
  <2>1. /\ child = "alive" /\ child' \in {"exited", "crashed"} /\ UNCHANGED <<reading, waited>>
    BY <1>6 DEF Exit
  <2>2. SandboxTypeOK'
    BY <1>1, <1>2, <2>1 DEF SandboxTypeOK
  <2>3. ReadToTheEnd'
    BY <1>1, <1>2, <2>1 DEF ReadToTheEnd
  <2>4. WaitIsOver'
    BY <1>1, <2>1 DEF WaitIsOver
  <2> QED
    BY <1>2, <1>3, <1>4, <2>1, <2>2, <2>3, <2>4 DEF Captured
<1>7. CASE SeeExit \/ DeadlinePasses \/ Kill \/ WaitFails
  <2>1. /\ UNCHANGED reading
        /\ waited' \in {"status", "late", "timeout", "error"}
        /\ child' = child \/ (child' = "killed" /\ child = "alive")
        /\ waited' # "late" => child' # "alive"
        /\ child' = "killed" /\ child # "killed" => waited' \in {"timeout", "error"}
    BY <1>7 DEF SeeExit, DeadlinePasses, Kill, WaitFails
  <2>2. child' = "killed" => waited' \in {"timeout", "error"}
    BY <1>1, <1>7 DEF WaitIsOver, SeeExit, DeadlinePasses, Kill, WaitFails
  <2>3. SandboxTypeOK'
    BY <1>1, <1>2, <2>1 DEF SandboxTypeOK
  <2>4. ReadToTheEnd'
    BY <1>1, <1>2, <2>1 DEF ReadToTheEnd
  <2>5. WaitIsOver'
    BY <2>1, <2>2 DEF WaitIsOver
  <2> QED
    BY <1>2, <1>3, <1>4, <2>1, <2>3, <2>4, <2>5 DEF Captured
<1> QED
  BY <1>5, <1>6, <1>7

LEMMA JoinKeeps ==
    ASSUME NEW limit \in Nat, Captured(limit), child # "none", Join
    PROVE  Captured(limit)' /\ child' # "none" /\ result' \in Result
<1>1. SandboxTypeOK /\ KeptToLimit(limit) /\ ReadToTheEnd /\ WaitIsOver
  BY DEF Captured
<1>2. /\ UNCHANGED <<child, written, drained, kept, cut, reading, waited>>
      /\ waited \in {"status", "timeout", "error"} /\ \A s \in Streams : ~ reading[s]
  BY DEF Join
<1> DEFINE failed == CASE waited = "timeout" -> "TimedOut"
                       [] waited = "status" /\ child = "exited" -> "none"
                       [] OTHER -> "Io"
<1>3. /\ result' = [ exited |-> waited = "status" /\ child = "exited", failure |-> failed,
                     kept |-> kept, truncated |-> \E s \in Streams : cut[s] ]
  BY DEF Join
<1>4. /\ failed \in Failures
      /\ waited = "status" /\ child = "exited" => failed = "none"
      /\ child = "killed" => failed \in {"TimedOut", "Io"}
  BY <1>1 DEF WaitIsOver, Failures
<1> HIDE DEF failed
<1>5. kept \in [Streams -> 0 .. MaxOutput]
  BY <1>1 DEF SandboxTypeOK
<1>6. result' \in Result
  BY <1>3, <1>4, <1>5, Zenon DEF Result
<1>7. SandboxTypeOK'
  BY <1>1, <1>2, <1>6 DEF SandboxTypeOK
<1>8. KeptToLimit(limit)' /\ ReadToTheEnd' /\ WaitIsOver'
  BY <1>1, <1>2 DEF KeptToLimit, ReadToTheEnd, WaitIsOver
<1>9. /\ result'.exited = (waited = "status" /\ child = "exited")
      /\ result'.failure = failed /\ result'.kept = kept
      /\ result'.truncated = (\E s \in Streams : cut[s])
  BY <1>3
<1>10. ResultIsTheRun'
  BY <1>2, <1>4, <1>9 DEF ResultIsTheRun
<1> QED
  BY <1>2, <1>6, <1>7, <1>8, <1>10 DEF Captured

LEMMA RunKeeps ==
    ASSUME NEW limit \in Nat, Captured(limit), child # "none", SandboxStep(limit)
    PROVE  Captured(limit)' /\ child' # "none"
<1>1. CASE \E s \in Streams : Write(s)
  BY <1>1, WriteKeeps DEF Write
<1>2. CASE \E s \in Streams : Drain(s, limit)
  BY <1>2, DrainKeeps DEF Drain
<1>3. CASE Join
  BY <1>3, JoinKeeps
<1> QED
  BY <1>1, <1>2, <1>3, EndingKeeps DEF SandboxStep

\* A run starts, or is given up, or leaves no trace.
LEMMA IdleIsNoRun ==
    ASSUME SandboxIdle, NEW limit
    PROVE  Captured(limit)
<1>1. NoRun /\ child = "none" /\ result = NoResult
  BY DEF SandboxIdle, NoRun
<1>2. SandboxTypeOK
  BY <1>1, SandboxAssumption DEF SandboxTypeOK, NoRun
<1> QED
  BY <1>1, <1>2 DEF Captured

LEMMA SpawnKeeps ==
    ASSUME Spawn, NEW limit \in Nat
    PROVE  Captured(limit)' /\ ~ SandboxIdle'
<1>1. NoRun /\ child = "none" /\ result = NoResult /\ SandboxTypeOK
  BY IdleIsNoRun DEF Spawn, SandboxIdle, NoRun, Captured
<1>2. /\ child' = "alive" /\ waited' = "waiting" /\ reading' = [s \in Streams |-> TRUE]
      /\ UNCHANGED <<written, drained, kept, cut, result>>
  BY DEF Spawn
<1>3. SandboxTypeOK'
  BY <1>1, <1>2 DEF SandboxTypeOK
<1>4. KeptToLimit(limit)' /\ ReadToTheEnd' /\ WaitIsOver'
  BY <1>1, <1>2 DEF NoRun, KeptToLimit, Smaller, ReadToTheEnd, WaitIsOver
<1> QED
  BY <1>1, <1>2, <1>3, <1>4 DEF Captured, SandboxIdle

LEMMA GiveUpKeeps ==
    ASSUME NEW kind \in {"InvalidRequest", "RuntimeUnavailable", "Io"}, GiveUp(kind), NEW limit
    PROVE  Captured(limit)' /\ ~ SandboxIdle' /\ result' \in Result
<1>1. NoRun /\ child = "none" /\ SandboxTypeOK
  BY IdleIsNoRun DEF GiveUp, SandboxIdle, NoRun, Captured
<1>2. /\ result' = Failed(kind)
      /\ UNCHANGED <<child, written, drained, kept, cut, reading, waited>>
  BY DEF GiveUp
<1>3. result' = [exited |-> FALSE, failure |-> kind, kept |-> [s \in Streams |-> 0],
                 truncated |-> FALSE]
  BY <1>2 DEF Failed, NoResult
<1>4. result' \in Result
  BY <1>3, SandboxAssumption DEF Result, Failures
<1>5. SandboxTypeOK' /\ NoRun' /\ child' = "none"
  BY <1>1, <1>2, <1>4 DEF SandboxTypeOK, NoRun
<1> QED
  BY <1>4, <1>5, NoResultIsNone DEF Captured, SandboxIdle

LEMMA ResetIsIdle ==
    ASSUME Reset
    PROVE  SandboxIdle'
  BY DEF Reset, SandboxIdle

--------------------------------------------------------------------------------
(***************************************************************************)
(* The policy.                                                             *)
(***************************************************************************)

LEMMA LeastOf ==
    ASSUME NEW S \in SUBSET Nat, S # {}
    PROVE  \E i \in S : \A j \in S : i <= j
<1> DEFINE below == {pair \in Nat \X Nat : pair[1] < pair[2]}
<1>1. IsWellFoundedOn(below, Nat)
  BY NatLessThanWellFounded, Zenon DEF OpToRel
<1>2. PICK i \in S : \A j \in S : ~ (<<j, i>> \in below)
  BY <1>1, WFMin
<1>3. \A j \in S : ~ (j < i)
  BY <1>2
<1> QED
  BY <1>3

\* Each check that authorize makes has passed.
LEMMA ChecksPassed ==
    ASSUME NEW p, NEW contract, Authorized(p, contract)
    PROVE  /\ contract # NoBinding /\ p.from \in Policy.peers /\ p.parses
           /\ p.package \in Policy.packages /\ p.timeout \in 1 .. Policy.max_timeout
           /\ OutputLimit(p) \in 1 .. Policy.max_output
           /\ ~ (p.args > Policy.max_args) /\ ~ (Len(p.files) > Policy.max_files)
           /\ ~ SizeRefused(p.files) /\ FirstRefused(p.files) = {}
           /\ p.env \subseteq Policy.env \ Policy.reserved
           /\ p.network \subseteq Policy.network
<1>1. \A check \in Checks(p, contract) : ~ check.refuses
  BY DEF Authorized, Denials
<1> QED
  BY <1>1 DEF Checks

\* What authorize lets through is within the policy.
LEMMA AuthorizedIsWithinPolicy ==
    ASSUME NEW t \in Terms, Authorized(t.payload, t.contract)
    PROVE  t \in Allowable /\ OutputLimit(t.payload) \in Nat
<1> DEFINE p == t.payload
<1>1. /\ t.contract # NoBinding /\ p.from \in Policy.peers /\ p.parses
      /\ p.package \in Policy.packages /\ p.timeout \in 1 .. Policy.max_timeout
      /\ OutputLimit(p) \in 1 .. Policy.max_output
      /\ ~ (p.args > Policy.max_args) /\ ~ (Len(p.files) > Policy.max_files)
      /\ FirstRefused(p.files) = {}
      /\ p.env \subseteq Policy.env \ Policy.reserved
      /\ p.network \subseteq Policy.network
  BY ChecksPassed
<1>2. p.args \in Nat /\ p.files \in Seq(File)
  BY TermsAssumption
<1> HIDE DEF p
<1>3. ~ \E i \in DOMAIN p.files : TotalSize(p.files, i) > Policy.max_bytes
  <2> SUFFICES ASSUME NEW k \in DOMAIN p.files, TotalSize(p.files, k) > Policy.max_bytes
               PROVE  FALSE
    OBVIOUS
  <2> DEFINE bad == {i \in DOMAIN p.files : TooLarge(p.files, i) \/ ~ p.files[i].base64}
  <2>1. DOMAIN p.files = 1 .. Len(p.files) /\ Len(p.files) \in Nat
        /\ \A i \in DOMAIN p.files : p.files[i].base64 \in BOOLEAN
    <3> DEFINE files == p.files
    <3>1. files \in Seq(File)
      BY <1>2
    <3> HIDE DEF files
    <3>2. DOMAIN files = 1 .. Len(files) /\ Len(files) \in Nat
          /\ \A i \in DOMAIN files : files[i] \in File
      BY <3>1
    <3> QED
      BY <3>2 DEF File, files
  <2>2. k \in bad
    BY DEF TooLarge
  <2>3. bad \in SUBSET Nat
    BY <2>1
  <2>4. PICK i \in bad : \A j \in bad : i <= j
    BY <2>2, <2>3, LeastOf
  <2>5. ASSUME NEW j \in 1 .. i - 1 PROVE j \in DOMAIN p.files /\ j \notin bad
    <3>1. i \in Nat /\ i \in 1 .. Len(p.files)
      BY <2>1, <2>4
    <3>2. j \in 1 .. Len(p.files) /\ j < i
      BY <2>1, <3>1
    <3>3. j \notin bad
      <4> HIDE DEF bad
      <4> QED
        BY <2>4, <3>1, <3>2
    <3> QED
      BY <2>1, <3>2, <3>3
  <2>6. \A j \in 1 .. i - 1 : p.files[j].base64 /\ ~ TooLarge(p.files, j)
    BY <2>5
  <2>7. i \in FirstRefused(p.files)
    BY <2>4, <2>6 DEF FirstRefused
  <2> QED
    BY <1>1, <2>7
<1>4. p.args <= Policy.max_args /\ Len(p.files) <= Policy.max_files
  BY <1>1, <1>2, PolicyAssumption
<1>5. WithinPolicy(p)
  BY <1>1, <1>3, <1>4 DEF WithinPolicy
<1>6. OutputLimit(p) \in Nat
  BY <1>1, PolicyAssumption
<1> QED
  BY <1>1, <1>5, <1>6 DEF Allowable, p

\* The code of a denial is one of those authorize has.
LEMMA DenialCodeIsOne ==
    ASSUME NEW p, NEW contract, ~ Authorized(p, contract)
    PROVE  DenialCode(p, contract) \in DenialCodes
<1> DEFINE denials == Denials(p, contract)
           ranks == {d.rank : d \in denials}
<1>1. denials # {} /\ denials \subseteq Checks(p, contract)
  BY DEF Authorized, Denials
<1>2. \A check \in Checks(p, contract) : check.rank \in Nat /\ check.code \in DenialCodes
  BY DEF Checks, DenialCodes
<1> HIDE DEF denials
<1>3. ranks \in SUBSET Nat /\ ranks # {}
  BY <1>1, <1>2
<1>4. PICK k \in ranks : \A l \in ranks : k <= l
  BY <1>3, LeastOf
<1>5. \E d \in denials : \A e \in denials : d.rank <= e.rank
  BY <1>4
<1> DEFINE first == CHOOSE d \in denials : \A e \in denials : d.rank <= e.rank
<1>6. first \in denials
  BY <1>5
<1>7. DenialCode(p, contract) = first.code
  BY DEF DenialCode, denials
<1> HIDE DEF first
<1> QED
  BY <1>1, <1>2, <1>6, <1>7

--------------------------------------------------------------------------------
(***************************************************************************)
(* The exchange.  A request is sealed once, handed out once and in order,  *)
(* and judged only from the front of the inbox.                            *)
(***************************************************************************)
Bodies == {t.payload : t \in Terms} \cup ResultBodies \cup DenialBodies
Messages == [re : Requests, contract : {t.contract : t \in Terms}, body : Bodies]
Standing == {"idle", "sent", "unsent", "waiting", "returned", "mismatch"}

\* Nothing is taken that the edge does not carry, or carried that was not sealed.
WithinReach ==
    \A g \in Agents : taken[g] <= carried[Other(g)] /\ carried[g] <= Len(sealed[g])

ExchangeTypes ==
    /\ revision \in 0 .. Len(Digest) /\ faults \in 0 .. MaxFaults
    /\ open \in [Agents -> BOOLEAN]
    /\ sealed \in [Agents -> Seq(Messages)]
    /\ carried \in [Agents -> Nat] /\ taken \in [Agents -> Nat] /\ WithinReach
    /\ inbox \in Seq(Messages)
    /\ calls \in [Requests -> Standing]
    /\ terms \in [Requests -> Terms]
    /\ answer \in [Requests -> ResultBodies \cup DenialBodies \cup {NoAnswer}]
    /\ outcome \in [Requests -> ResultBodies \cup DenialBodies \cup {NoAnswer}]
    /\ unreplied \subseteq Requests

\* Every message to the service carries what its request asks, and no request has two.
AskedOnce ==
    /\ \A i \in DOMAIN Asked :
          /\ calls[Asked[i].re] # "idle"
          /\ Asked[i].contract = terms[Asked[i].re].contract
          /\ Asked[i].body = terms[Asked[i].re].payload
    /\ \A i, j \in DOMAIN Asked : Asked[i].re = Asked[j].re => i = j

\* The service works off the last messages handed out, in order ...
InboxIsNext ==
    /\ Len(inbox) <= taken["executor"]
    /\ \A i \in 1 .. Len(inbox) : inbox[i] = Asked[taken["executor"] - Len(inbox) + i]

\* ... and has judged none but those before them.
JudgedWereHanded ==
    \A r \in Requests : outcome[r] # NoAnswer =>
        \E i \in 1 .. taken["executor"] - Len(inbox) : Asked[i].re = r

\* A reply is the verdict on its request, and so is what await_result returned.
AnswersAreVerdicts ==
    /\ \A i \in DOMAIN Answers : /\ Answers[i].body = outcome[Answers[i].re]
                                 /\ outcome[Answers[i].re] # NoAnswer
    /\ \A r \in Requests : IF calls[r] = "returned"
                              THEN answer[r] = outcome[r] /\ outcome[r] # NoAnswer
                              ELSE answer[r] = NoAnswer

\* What runs is the delivery at the front, and the policy let it through.
RunIsAuthorized ==
    ~ SandboxIdle => /\ ~ Idle
                     /\ Authorized(Head(inbox).body, Head(inbox).contract)
                     /\ Captured(OutputLimit(Head(inbox).body))

ExchangeInv ==
    /\ ExchangeTypes /\ AskedOnce /\ InboxIsNext /\ JudgedWereHanded
    /\ AnswersAreVerdicts /\ RunIsAuthorized

LEMMA TwoAgents ==
    /\ "requester" \in Agents /\ "executor" \in Agents /\ "requester" # "executor"
    /\ Other("requester") = "executor" /\ Other("executor") = "requester"
    /\ \A g \in Agents : Other(g) \in Agents /\ Other(g) # g /\ Other(Other(g)) = g
  BY DEF Agents, Other

LEMMA TakenWasSealed ==
    ASSUME ExchangeTypes, NEW g \in Agents
    PROVE  /\ sealed[Other(g)] \in Seq(Messages) /\ Len(sealed[Other(g)]) \in Nat
           /\ taken[g] \in Nat /\ carried[Other(g)] \in Nat
           /\ taken[g] <= carried[Other(g)] /\ carried[Other(g)] <= Len(sealed[Other(g)])
           /\ taken[g] <= Len(sealed[Other(g)])
<1>1. Other(g) \in Agents
  BY TwoAgents
<1>2. /\ sealed[Other(g)] \in Seq(Messages)
      /\ taken[g] \in Nat /\ carried[Other(g)] \in Nat
      /\ taken[g] <= carried[Other(g)] /\ carried[Other(g)] <= Len(sealed[Other(g)])
  BY <1>1 DEF ExchangeTypes, WithinReach
<1>3. Len(sealed[Other(g)]) \in Nat
  BY <1>2
<1> QED
  BY <1>2, <1>3

LEMMA SeriesOfMessages ==
    ASSUME NEW s \in Seq(Messages)
    PROVE  /\ DOMAIN s = 1 .. Len(s) /\ Len(s) \in Nat
           /\ \A i \in 1 .. Len(s) : s[i] \in Messages /\ s[i].re \in Requests
<1>1. DOMAIN s = 1 .. Len(s) /\ Len(s) \in Nat /\ \A i \in 1 .. Len(s) : s[i] \in Messages
  OBVIOUS
<1> QED
  BY <1>1 DEF Messages

LEMMA AllAreMessages ==
    ASSUME ExchangeTypes
    PROVE  /\ Asked \in Seq(Messages) /\ DOMAIN Asked = 1 .. Len(Asked)
           /\ Len(Asked) \in Nat /\ \A i \in 1 .. Len(Asked) : Asked[i].re \in Requests
           /\ Answers \in Seq(Messages) /\ DOMAIN Answers = 1 .. Len(Answers)
           /\ Len(Answers) \in Nat /\ \A i \in 1 .. Len(Answers) : Answers[i].re \in Requests
           /\ inbox \in Seq(Messages) /\ DOMAIN inbox = 1 .. Len(inbox)
           /\ Len(inbox) \in Nat /\ \A i \in 1 .. Len(inbox) : inbox[i].re \in Requests
           /\ taken["executor"] \in Nat /\ taken["executor"] <= Len(Asked)
           /\ taken["requester"] \in Nat /\ taken["requester"] <= Len(Answers)
<1>1. Asked \in Seq(Messages) /\ Answers \in Seq(Messages) /\ inbox \in Seq(Messages)
  BY TwoAgents DEF ExchangeTypes, Asked, Answers
<1>2. /\ taken["executor"] \in Nat /\ taken["executor"] <= Len(Asked)
      /\ taken["requester"] \in Nat /\ taken["requester"] <= Len(Answers)
  BY TakenWasSealed, TwoAgents DEF Asked, Answers
<1> QED
  BY <1>1, <1>2, SeriesOfMessages

\* Whatever becomes of an attempt to send, the message is sealed last or not at all,
\* and one that is sealed leaves the sender's session as it is.
LEMMA SealAppends ==
    ASSUME ExchangeTypes, NEW g \in Agents, NEW m \in Messages, Seal(g, m) \/ SealFails(g, m)
    PROVE  /\ sealed' \in [Agents -> Seq(Messages)] /\ open' \in [Agents -> BOOLEAN]
           /\ carried' \in [Agents -> Nat] /\ WithinReach' /\ UNCHANGED <<revision, taken>>
           /\ \A h \in Agents : h # g => sealed'[h] = sealed[h] /\ open'[h] = open[h]
           /\ open'[g] = open[g] \/ open'[g] = FALSE
           /\ \/ sealed' = sealed
              \/ /\ sealed' # sealed /\ sealed'[g] = Append(sealed[g], m)
                 /\ open[g] /\ open'[g] = open[g]
           /\ \A h \in Agents : \A i \in 1 .. Len(sealed[h]) : sealed'[h][i] = sealed[h][i]
<1> DEFINE s == sealed[g]
           yes == Sealable(g, m.contract)
<1>1. /\ sealed \in [Agents -> Seq(Messages)] /\ open \in [Agents -> BOOLEAN]
      /\ taken \in [Agents -> Nat] /\ carried \in [Agents -> Nat] /\ WithinReach
  BY DEF ExchangeTypes
<1>2. /\ sealed' = sealed \/ (yes /\ sealed' = [sealed EXCEPT ![g] = Append(s, m)])
      /\ UNCHANGED <<revision, taken>>
  BY DEF Seal, SealFails, Sealed, exchange
<1>3. /\ open' = open \/ open' = [open EXCEPT ![g] = @ /\ ~ Contradicts(View, m.contract)]
      /\ yes => open[g] /\ ~ Contradicts(View, m.contract)
  BY DEF Seal, SealFails, Sealable, exchange
<1>4. \/ carried' = carried
      \/ /\ yes /\ carried[g] = Len(s) /\ carried' = [carried EXCEPT ![g] = @ + 1]
         /\ sealed' = [sealed EXCEPT ![g] = Append(s, m)]
  <2>1. CASE Seal(g, m)
    <3>1. carried' = [carried EXCEPT ![g] = IF yes /\ @ = Len(s) THEN @ + 1 ELSE @]
      BY <2>1 DEF Seal
    <3>2. CASE yes /\ carried[g] = Len(s)
      BY <2>1, <3>1, <3>2 DEF Seal, Sealed
    <3>3. CASE ~ (yes /\ carried[g] = Len(s))
      BY <1>1, <3>1, <3>3
    <3> QED
      BY <3>2, <3>3
  <2>2. CASE SealFails(g, m) /\ ~ Seal(g, m)
    BY <2>2 DEF SealFails, exchange
  <2> QED
    BY <2>1, <2>2
<1>5. /\ s \in Seq(Messages) /\ Append(s, m) \in Seq(Messages) /\ Len(s) \in Nat
      /\ Len(Append(s, m)) = Len(s) + 1
      /\ \A i \in 1 .. Len(s) : Append(s, m)[i] = s[i]
  BY <1>1
<1>6. Append(s, m) # s
  BY <1>5
<1>7. carried[g] \in Nat /\ carried[g] <= Len(s)
  BY <1>1 DEF WithinReach
<1> HIDE DEF yes
<1>8. /\ \A h \in Agents : h # g => sealed'[h] = sealed[h]
      /\ \/ sealed' = sealed
         \/ yes /\ sealed' # sealed /\ sealed'[g] = Append(s, m)
      /\ sealed' \in [Agents -> Seq(Messages)]
  BY <1>1, <1>2, <1>5, <1>6
<1>9. /\ open' \in [Agents -> BOOLEAN] /\ (open'[g] = open[g] \/ open'[g] = FALSE)
      /\ \A h \in Agents : h # g => open'[h] = open[h]
      /\ yes => open[g] /\ open'[g] = open[g]
  BY <1>1, <1>3
<1>10. /\ carried' \in [Agents -> Nat] /\ \A h \in Agents : h # g => carried'[h] = carried[h]
       /\ carried[g] <= carried'[g]
       /\ \/ carried'[g] = carried[g]
          \/ carried'[g] = Len(s) + 1 /\ sealed'[g] = Append(s, m)
  <2>1. CASE carried' = carried
    BY <1>1, <1>7, <2>1
  <2>2. CASE carried' # carried
    <3>1. /\ carried[g] = Len(s) /\ carried' = [carried EXCEPT ![g] = Len(s) + 1]
          /\ sealed' = [sealed EXCEPT ![g] = Append(s, m)]
      BY <1>4, <2>2
    <3>2. Len(s) + 1 \in Nat /\ carried[g] <= Len(s) + 1
      BY <1>5, <1>7
    <3>3. carried' \in [Agents -> Nat] /\ carried'[g] = Len(s) + 1
      BY <1>1, <3>1, <3>2
    <3>4. sealed'[g] = Append(s, m)
      BY <1>1, <3>1
    <3>5. \A h \in Agents : h # g => carried'[h] = carried[h]
      BY <1>1, <3>1
    <3> QED
      BY <3>2, <3>3, <3>4, <3>5
  <2> QED
    BY <2>1, <2>2
<1>11. ASSUME NEW h \in Agents
       PROVE  /\ Len(sealed[h]) <= Len(sealed'[h]) /\ carried[h] <= carried'[h]
              /\ \A i \in 1 .. Len(sealed[h]) : sealed'[h][i] = sealed[h][i]
              /\ carried'[h] <= Len(sealed'[h])
  <2>1. sealed[h] \in Seq(Messages) /\ Len(sealed[h]) \in Nat
        /\ carried[h] \in Nat /\ carried[h] <= Len(sealed[h])
    BY <1>1 DEF WithinReach
  <2>2. CASE h # g
    BY <1>8, <1>10, <2>1, <2>2
  <2>3. CASE h = g
    <3>1. CASE sealed'[g] = Append(s, m)
      BY <1>5, <1>7, <1>10, <2>3, <3>1
    <3>2. CASE sealed'[g] = s
      BY <1>5, <1>6, <1>7, <1>10, <2>3, <3>2
    <3> QED
      BY <1>8, <3>1, <3>2
  <2> QED
    BY <2>2, <2>3
<1>12. WithinReach'
  <2> SUFFICES ASSUME NEW h \in Agents
               PROVE  taken[h] <= carried'[Other(h)] /\ carried'[h] <= Len(sealed'[h])
    BY <1>2 DEF WithinReach
  <2>1. Other(h) \in Agents
    BY TwoAgents
  <2>2. taken[h] \in Nat /\ carried[Other(h)] \in Nat /\ carried'[Other(h)] \in Nat
        /\ taken[h] <= carried[Other(h)] /\ carried[Other(h)] <= carried'[Other(h)]
    BY <1>1, <1>10, <1>11, <2>1 DEF WithinReach
  <2> QED
    BY <1>11, <2>2
<1> QED
  BY <1>2, <1>8, <1>9, <1>10, <1>11, <1>12

\* A report hands out the messages that come next.
LEMMA ReportIsNext ==
    ASSUME ExchangeTypes, NEW g \in Agents
    PROVE  /\ Report(g) \in Seq(Messages) /\ Len(Report(g)) \in Nat
           /\ taken[g] + Len(Report(g)) <= carried[Other(g)]
           /\ taken[g] + Len(Report(g)) <= Len(sealed[Other(g)])
           /\ \A i \in 1 .. Len(Report(g)) : Report(g)[i] = sealed[Other(g)][taken[g] + i]
<1> DEFINE s == sealed[Other(g)]
           k == taken[g]
           c == carried[Other(g)]
           w == Waiting(g)
<1>1. s \in Seq(Messages) /\ Len(s) \in Nat /\ k \in Nat /\ c \in Nat /\ k <= c /\ c <= Len(s)
  BY TakenWasSealed
<1> HIDE DEF s, k, c
<1>2. w = SubSeq(s, k + 1, c)
  BY DEF Waiting, s, k, c
<1> HIDE DEF w
<1>3. /\ w \in Seq(Messages) /\ Len(w) = c - k
      /\ \A i \in 1 .. Len(w) : w[i] = s[k + i]
  <2>1. k + 1 \in 1 .. Len(s) + 1 /\ c \in k .. Len(s)
    BY <1>1
  <2>2. /\ SubSeq(s, k + 1, c) \in Seq(Messages)
        /\ Len(SubSeq(s, k + 1, c)) = c - k
        /\ \A i \in 1 .. c - k : SubSeq(s, k + 1, c)[i] = s[k + i]
    BY <1>1, SubSeqProperties
  <2> QED
    BY <1>2, <2>2
<1>4. ASSUME NEW n \in 0 .. Len(w), Report(g) = SubSeq(w, 1, n)
      PROVE  /\ Report(g) \in Seq(Messages) /\ Len(Report(g)) = n
             /\ \A i \in 1 .. n : Report(g)[i] = w[i]
  BY <1>1, <1>3, <1>4, SubSeqProperties
<1>5. \E n \in 0 .. Len(w) : Report(g) = SubSeq(w, 1, n)
  <2>1. CASE ~ open[g] \/ Contradicted(g)
    <3>1. Report(g) = <<>>
      BY <2>1 DEF Report
    <3>2. SubSeq(w, 1, 0) = <<>> /\ 0 \in 0 .. Len(w)
      BY <1>1, <1>3
    <3> QED
      BY <3>1, <3>2
  <2>2. CASE ~ (~ open[g] \/ Contradicted(g)) /\ Held(g) = {}
    <3>1. Report(g) = w
      BY <2>2 DEF Report, w
    <3>2. SubSeq(w, 1, Len(w)) = w /\ Len(w) \in 0 .. Len(w)
      BY <1>1, <1>3
    <3> QED
      BY <3>1, <3>2
  <2>3. CASE ~ (~ open[g] \/ Contradicted(g)) /\ Held(g) # {}
    <3> DEFINE first == CHOOSE i \in Held(g) : \A j \in Held(g) : i <= j
    <3>1. Held(g) \subseteq 1 .. Len(w)
      BY <1>3 DEF Held, w
    <3>2. Held(g) \in SUBSET Nat
      BY <1>1, <1>3, <3>1
    <3>3. first \in Held(g)
      BY <2>3, <3>2, LeastOf
    <3>4. Report(g) = SubSeq(w, 1, first - 1)
      BY <2>3 DEF Report, w
    <3> HIDE DEF first
    <3>5. first - 1 \in 0 .. Len(w)
      BY <1>1, <1>3, <3>1, <3>3
    <3> QED
      BY <3>4, <3>5
  <2> QED
    BY <2>1, <2>2, <2>3
<1>6. PICK n \in 0 .. Len(w) : Report(g) = SubSeq(w, 1, n)
  BY <1>5
<1>7. /\ Report(g) \in Seq(Messages) /\ Len(Report(g)) = n
      /\ \A i \in 1 .. n : Report(g)[i] = w[i]
  BY <1>4, <1>6
<1>8. n \in Nat /\ k + n <= c /\ k + n <= Len(s) /\ \A i \in 1 .. n : w[i] = s[k + i]
  BY <1>1, <1>3
<1> QED
  BY <1>7, <1>8 DEF s, k, c

LEMMA OpenTakes ==
    ASSUME ExchangeTypes, NEW g \in Agents, Open(g)
    PROVE  /\ taken' \in [Agents -> Nat] /\ open' \in [Agents -> BOOLEAN]
           /\ taken'[g] = taken[g] + Len(Report(g))
           /\ \A h \in Agents : h # g => taken'[h] = taken[h] /\ open'[h] = open[h]
           /\ \A h \in Agents : taken[h] <= taken'[h] /\ taken'[h] <= Len(sealed[Other(h)])
           /\ UNCHANGED <<revision, sealed, carried>> /\ WithinReach'
<1>1. taken \in [Agents -> Nat] /\ open \in [Agents -> BOOLEAN]
  BY DEF ExchangeTypes
<1>2. /\ taken' = [taken EXCEPT ![g] = @ + Len(Report(g))]
      /\ UNCHANGED <<revision, sealed, carried>>
  BY DEF Open
<1>3. open' \in [Agents -> BOOLEAN] /\ \A h \in Agents : h # g => open'[h] = open[h]
  BY <1>1 DEF Open
<1>4. /\ Len(Report(g)) \in Nat /\ taken[g] + Len(Report(g)) <= carried[Other(g)]
      /\ taken[g] + Len(Report(g)) <= Len(sealed[Other(g)])
  BY ReportIsNext
<1>5. taken' \in [Agents -> Nat] /\ taken'[g] = taken[g] + Len(Report(g))
      /\ \A h \in Agents : h # g => taken'[h] = taken[h]
  BY <1>1, <1>2, <1>4
<1>6. ASSUME NEW h \in Agents
      PROVE  /\ taken[h] <= taken'[h] /\ taken'[h] <= carried[Other(h)]
             /\ taken'[h] <= Len(sealed[Other(h)])
  <2>1. /\ taken[h] \in Nat /\ taken[h] <= carried[Other(h)]
        /\ taken[h] <= Len(sealed[Other(h)])
    BY TakenWasSealed
  <2>2. CASE h = g
    BY <1>4, <1>5, <2>1, <2>2
  <2>3. CASE h # g
    BY <1>5, <2>1, <2>3
  <2> QED
    BY <2>2, <2>3
<1>7. WithinReach'
  BY <1>2, <1>6 DEF ExchangeTypes, WithinReach
<1> QED
  BY <1>2, <1>3, <1>5, <1>6, <1>7

\* What the sandbox is about stays while it and the inbox do.
LEMMA SameRun ==
    ASSUME RunIsAuthorized, UNCHANGED <<inbox, sandbox>>
    PROVE  RunIsAuthorized'
<1>1. UNCHANGED <<child, written, drained, kept, cut, reading, waited, result>>
  BY DEF sandbox
<1>2. SandboxIdle' = SandboxIdle
  BY <1>1 DEF SandboxIdle
<1>3. ASSUME NEW l, Captured(l) PROVE Captured(l)'
  <2>1. SandboxTypeOK => SandboxTypeOK'
    BY <1>1 DEF SandboxTypeOK
  <2>2. NoRun => NoRun'
    BY <1>1 DEF NoRun
  <2>3. KeptToLimit(l) => KeptToLimit(l)'
    BY <1>1 DEF KeptToLimit
  <2>4. (ReadToTheEnd => ReadToTheEnd') /\ (WaitIsOver => WaitIsOver')
    BY <1>1 DEF ReadToTheEnd, WaitIsOver
  <2>5. ResultIsTheRun => ResultIsTheRun'
    BY <1>1 DEF ResultIsTheRun
  <2> QED
    BY <1>1, <1>3, <2>1, <2>2, <2>3, <2>4, <2>5 DEF Captured
<1>4. CASE SandboxIdle
  BY <1>2, <1>4 DEF RunIsAuthorized
<1>5. CASE ~ SandboxIdle
  <2> DEFINE l == OutputLimit(Head(inbox).body)
  <2>1. Captured(l) /\ ~ Idle /\ Authorized(Head(inbox).body, Head(inbox).contract)
    BY <1>5 DEF RunIsAuthorized
  <2>2. Captured(l)'
    <3>1. l' = l
      BY DEF OutputLimit
    <3> HIDE DEF l
    <3> QED
      BY <1>3, <2>1, <3>1
  <2> QED
    BY <2>1, <2>2 DEF RunIsAuthorized, Idle
<1> QED
  BY <1>4, <1>5

\* More may be asked while the service is where it was.
LEMMA MoreAsked ==
    ASSUME ExchangeTypes, InboxIsNext, JudgedWereHanded,
           UNCHANGED <<inbox, outcome>>, taken'["executor"] = taken["executor"],
           \A i \in 1 .. Len(Asked) : Asked'[i] = Asked[i]
    PROVE  InboxIsNext' /\ JudgedWereHanded'
<1> DEFINE k == taken["executor"]
           n == Len(inbox)
<1>1. k \in Nat /\ k <= Len(Asked) /\ n \in Nat /\ Len(Asked) \in Nat
  BY AllAreMessages
<1>2. n <= k /\ \A i \in 1 .. n : inbox[i] = Asked[k - n + i]
  BY DEF InboxIsNext
<1>3. k' = k /\ n' = n
  OBVIOUS
<1> HIDE DEF k, n
<1>4. \A i \in 1 .. n : k - n + i \in 1 .. Len(Asked)
  BY <1>1, <1>2
<1>5. n' <= k' /\ \A i \in 1 .. n' : inbox'[i] = Asked'[k' - n' + i]
  BY <1>2, <1>3, <1>4
<1>6. InboxIsNext'
  BY <1>5 DEF InboxIsNext, k, n
<1>7. \A i \in 1 .. k - n : i \in 1 .. Len(Asked)
  BY <1>1, <1>2
<1>8. \A r \in Requests : outcome[r] # NoAnswer => \E i \in 1 .. k - n : Asked[i].re = r
  BY DEF JudgedWereHanded, k, n
<1>9. \A r \in Requests : outcome'[r] # NoAnswer => \E i \in 1 .. k' - n' : Asked'[i].re = r
  BY <1>3, <1>7, <1>8
<1>10. JudgedWereHanded'
  BY <1>9 DEF JudgedWereHanded, k, n
<1> QED
  BY <1>6, <1>10

\* What is said to a request, and what it has got back, as its standing changes.
LEMMA SameAnswers ==
    ASSUME AnswersAreVerdicts, UNCHANGED <<Answers, outcome, answer>>,
           \A r \in Requests : calls'[r] = "returned" <=> calls[r] = "returned"
    PROVE  AnswersAreVerdicts'
  BY DEF AnswersAreVerdicts

LEMMA SameAsked ==
    ASSUME AskedOnce, UNCHANGED <<Asked, terms>>, ExchangeTypes,
           \A r \in Requests : calls[r] # "idle" => calls'[r] # "idle"
    PROVE  AskedOnce'
<1>1. \A i \in DOMAIN Asked : Asked[i].re \in Requests
  BY AllAreMessages
<1> QED
  BY <1>1 DEF AskedOnce

LEMMA SendKeeps ==
    ASSUME ExchangeInv, NEW r \in Requests, NEW t \in Terms, Send(r, t)
    PROVE  ExchangeInv'
<1> DEFINE m == [re |-> r, contract |-> t.contract, body |-> t.payload]
           yes == sealed' # sealed
<1>1. /\ ExchangeTypes /\ AskedOnce /\ InboxIsNext /\ JudgedWereHanded
      /\ AnswersAreVerdicts /\ RunIsAuthorized
  BY DEF ExchangeInv
<1>2. /\ calls[r] = "idle" /\ (Seal("requester", m) \/ SealFails("requester", m))
      /\ terms' = IF yes THEN [terms EXCEPT ![r] = t] ELSE terms
      /\ UNCHANGED <<answer, inbox, outcome, unreplied, sandbox>>
  BY DEF Send
<1>3. \E c \in {"sent", "unsent"} : calls' = [calls EXCEPT ![r] = c]
  BY DEF Send
<1>4. m \in Messages
  BY DEF Messages, Bodies
<1>5. m.re = r /\ m.contract = t.contract /\ m.body = t.payload
  OBVIOUS
<1>6. faults' \in 0 .. MaxFaults
  <2>1. faults' = faults \/ Fault
    BY DEF Send, SealFails
  <2> QED
    BY <1>1, <2>1, ExchangeAssumption DEF Fault, ExchangeTypes
<1> HIDE DEF m
<1>7. /\ sealed' \in [Agents -> Seq(Messages)] /\ open' \in [Agents -> BOOLEAN]
      /\ carried' \in [Agents -> Nat] /\ WithinReach' /\ UNCHANGED <<revision, taken>>
      /\ sealed'["executor"] = sealed["executor"]
      /\ sealed'["requester"] = IF yes THEN Append(sealed["requester"], m)
                                       ELSE sealed["requester"]
      /\ \A i \in 1 .. Len(Asked) : Asked'[i] = Asked[i]
  BY <1>1, <1>2, <1>4, SealAppends, TwoAgents DEF Asked
<1> HIDE DEF yes
<1>8. /\ calls \in [Requests -> Standing] /\ calls' \in [Requests -> Standing]
      /\ calls'[r] \in {"sent", "unsent"}
      /\ \A q \in Requests : q # r => calls'[q] = calls[q]
  BY <1>1, <1>3 DEF ExchangeTypes, Standing
<1>9. /\ terms \in [Requests -> Terms] /\ terms' \in [Requests -> Terms]
      /\ yes => terms'[r] = t
      /\ \A q \in Requests : q # r => terms'[q] = terms[q]
  BY <1>1, <1>2 DEF ExchangeTypes
<1>10. ExchangeTypes'
  BY <1>1, <1>2, <1>6, <1>7, <1>8, <1>9 DEF ExchangeTypes
<1>11. AskedOnce'
  <2>1. /\ Asked \in Seq(Messages) /\ DOMAIN Asked = 1 .. Len(Asked) /\ Len(Asked) \in Nat
        /\ \A i \in DOMAIN Asked : Asked[i].re \in Requests
    BY <1>1, AllAreMessages
  <2>2. \A i \in DOMAIN Asked : Asked[i].re # r
    BY <1>1, <1>2 DEF AskedOnce
  <2>3. CASE yes
    <3>1. /\ DOMAIN Asked' = 1 .. Len(Asked) + 1 /\ Asked'[Len(Asked) + 1] = m
          /\ \A i \in 1 .. Len(Asked) : Asked'[i] = Asked[i]
      BY <1>7, <2>1, <2>3 DEF Asked
    <3> HIDE DEF Asked
    <3>2. ASSUME NEW i \in DOMAIN Asked'
          PROVE  /\ calls'[Asked'[i].re] # "idle"
                 /\ Asked'[i].contract = terms'[Asked'[i].re].contract
                 /\ Asked'[i].body = terms'[Asked'[i].re].payload
      <4>1. CASE i = Len(Asked) + 1
        BY <1>5, <1>8, <1>9, <2>3, <3>1, <4>1
      <4>2. CASE i \in DOMAIN Asked
        BY <1>1, <1>8, <1>9, <2>1, <2>2, <3>1, <4>2 DEF AskedOnce
      <4> QED
        BY <2>1, <3>1, <4>1, <4>2
    <3>3. ASSUME NEW i \in DOMAIN Asked', NEW j \in DOMAIN Asked', Asked'[i].re = Asked'[j].re
          PROVE  i = j
      <4>1. CASE i \in DOMAIN Asked /\ j \in DOMAIN Asked
        BY <1>1, <2>1, <3>1, <3>3, <4>1 DEF AskedOnce
      <4>2. CASE i \notin DOMAIN Asked \/ j \notin DOMAIN Asked
        <5>1. i \in DOMAIN Asked \/ i = Len(Asked) + 1
          BY <2>1, <3>1
        <5>2. j \in DOMAIN Asked \/ j = Len(Asked) + 1
          BY <2>1, <3>1
        <5> QED
          BY <1>5, <2>1, <2>2, <3>1, <3>3, <4>2, <5>1, <5>2
      <4> QED
        BY <4>1, <4>2
    <3> QED
      BY <3>2, <3>3 DEF AskedOnce
  <2>4. CASE ~ yes
    <3>1. Asked' = Asked /\ terms' = terms
      BY <1>2, <1>7, <2>4 DEF Asked
    <3> QED
      BY <1>1, <1>8, <3>1, SameAsked
  <2> QED
    BY <2>3, <2>4
<1>12. InboxIsNext' /\ JudgedWereHanded'
  BY <1>1, <1>2, <1>7, MoreAsked
<1>13. AnswersAreVerdicts'
  BY <1>1, <1>2, <1>7, <1>8, SameAnswers DEF Answers
<1>14. RunIsAuthorized'
  BY <1>1, <1>2, SameRun
<1> QED
  BY <1>10, <1>11, <1>12, <1>13, <1>14 DEF ExchangeInv

\* What the service has been sent, and where it is, do not depend on the rest.
LEMMA OutsideTheService ==
    ASSUME ExchangeInv, ExchangeTypes', AnswersAreVerdicts',
           UNCHANGED <<sealed, terms, inbox, outcome, sandbox>>,
           taken'["executor"] = taken["executor"],
           \A r \in Requests : calls[r] # "idle" => calls'[r] # "idle"
    PROVE  ExchangeInv'
<1>1. /\ ExchangeTypes /\ AskedOnce /\ InboxIsNext /\ JudgedWereHanded /\ RunIsAuthorized
      /\ UNCHANGED Asked
  BY DEF ExchangeInv, Asked
<1>2. AskedOnce'
  BY <1>1, SameAsked
<1>3. InboxIsNext' /\ JudgedWereHanded'
  BY <1>1, MoreAsked
<1>4. RunIsAuthorized'
  BY <1>1, SameRun
<1> QED
  BY <1>2, <1>3, <1>4 DEF ExchangeInv

LEMMA PollKeeps ==
    ASSUME ExchangeInv, NEW r \in Requests,
           Await(r) \/ PollInVain(r) \/ PollTooLate(r) \/ PollFails(r)
    PROVE  ExchangeInv'
<1>1. ExchangeTypes /\ AnswersAreVerdicts
  BY DEF ExchangeInv
<1>2. /\ UNCHANGED <<terms, answer, inbox, outcome, unreplied, sandbox>>
      /\ calls[r] \in {"sent", "waiting"}
      /\ \E c \in {"sent", "waiting"} : calls' = [calls EXCEPT ![r] = c] \/ calls' = calls
  BY DEF Await, PollInVain, PollTooLate, PollFails
<1>3. UNCHANGED exchange \/ Open("requester")
  BY DEF Await, PollInVain, PollTooLate, PollFails
<1>4. faults' \in 0 .. MaxFaults
  <2>1. faults' = faults \/ Fault
    BY DEF Await, PollInVain, PollTooLate, PollFails
  <2> QED
    BY <1>1, <2>1, ExchangeAssumption DEF Fault, ExchangeTypes
<1>5. /\ taken' \in [Agents -> Nat] /\ open' \in [Agents -> BOOLEAN]
      /\ taken'["executor"] = taken["executor"]
      /\ UNCHANGED <<revision, sealed, carried>> /\ WithinReach'
  <2>1. CASE UNCHANGED exchange
    BY <1>1, <2>1 DEF exchange, ExchangeTypes, WithinReach
  <2>2. CASE Open("requester")
    BY <1>1, <2>2, OpenTakes, TwoAgents
  <2> QED
    BY <1>3, <2>1, <2>2
<1>6. /\ calls' \in [Requests -> Standing]
      /\ \A q \in Requests : calls'[q] = calls[q]
                             \/ (calls[q] \in {"sent", "waiting"} /\ calls'[q] \in {"sent", "waiting"})
  BY <1>1, <1>2 DEF ExchangeTypes, Standing
<1>7. ExchangeTypes'
  BY <1>1, <1>2, <1>4, <1>5, <1>6 DEF ExchangeTypes
<1>8. AnswersAreVerdicts'
  <2>1. \A q \in Requests : calls'[q] = "returned" <=> calls[q] = "returned"
    BY <1>6
  <2> QED
    BY <1>1, <1>2, <1>5, <2>1, SameAnswers DEF Answers
<1>9. \A q \in Requests : calls[q] # "idle" => calls'[q] # "idle"
  BY <1>6
<1> QED
  BY <1>2, <1>5, <1>7, <1>8, <1>9, OutsideTheService

\* The reply to r in a report is the verdict on r.
LEMMA ReplyIsVerdict ==
    ASSUME ExchangeInv, NEW r \in Requests, NEW i \in RepliesTo(r)
    PROVE  /\ Report("requester")[i].body = outcome[r]
           /\ outcome[r] # NoAnswer
<1> DEFINE report == Report("requester")
           k == taken["requester"]
<1>1. ExchangeTypes /\ AnswersAreVerdicts
  BY DEF ExchangeInv
<1>2. /\ report \in Seq(Messages) /\ Len(report) \in Nat
      /\ k + Len(report) <= Len(Answers)
      /\ \A j \in 1 .. Len(report) : report[j] = Answers[k + j]
  BY <1>1, ReportIsNext, TwoAgents DEF Answers
<1>3. i \in DOMAIN report /\ report[i].re = r
  BY DEF RepliesTo
<1>4. k \in Nat /\ Len(Answers) \in Nat /\ DOMAIN Answers = 1 .. Len(Answers)
  BY <1>1, AllAreMessages
<1> HIDE DEF report, k
<1>5. i \in 1 .. Len(report)
  BY <1>2, <1>3
<1>6. k + i \in DOMAIN Answers
  BY <1>2, <1>4, <1>5
<1>7. report[i].body = outcome[r] /\ outcome[r] # NoAnswer
  BY <1>1, <1>2, <1>3, <1>5, <1>6 DEF AnswersAreVerdicts
<1> QED
  BY <1>7 DEF report

LEMMA TakeReplyKeeps ==
    ASSUME ExchangeInv, NEW r \in Requests, TakeReply(r)
    PROVE  /\ ExchangeInv'
           /\ \/ /\ answer[r] = NoAnswer /\ outcome[r] # NoAnswer
                 /\ answer' = [answer EXCEPT ![r] = outcome[r]]
              \/ UNCHANGED answer
<1>1. ExchangeTypes /\ AnswersAreVerdicts
  BY DEF ExchangeInv
<1>2. /\ UNCHANGED <<terms, inbox, outcome, unreplied, faults, sandbox>>
      /\ calls[r] = "waiting" /\ Open("requester")
  BY DEF TakeReply
<1>3. /\ taken' \in [Agents -> Nat] /\ open' \in [Agents -> BOOLEAN]
      /\ taken'["executor"] = taken["executor"]
      /\ UNCHANGED <<revision, sealed, carried>> /\ WithinReach'
  BY <1>1, <1>2, OpenTakes, TwoAgents
<1>4. PICK i \in RepliesTo(r) :
          \/ /\ calls' = [calls EXCEPT ![r] = "returned"]
             /\ answer' = [answer EXCEPT ![r] = Report("requester")[i].body]
          \/ calls' = [calls EXCEPT ![r] = "mismatch"] /\ UNCHANGED answer
  BY DEF TakeReply
<1>5. Report("requester")[i].body = outcome[r] /\ outcome[r] # NoAnswer
  BY ReplyIsVerdict
<1>6. answer[r] = NoAnswer
  BY <1>1, <1>2 DEF AnswersAreVerdicts
<1>7. outcome[r] \in ResultBodies \cup DenialBodies \cup {NoAnswer}
  BY <1>1 DEF ExchangeTypes
<1>8. /\ calls' \in [Requests -> Standing]
      /\ answer' \in [Requests -> ResultBodies \cup DenialBodies \cup {NoAnswer}]
      /\ \A q \in Requests : q # r => calls'[q] = calls[q] /\ answer'[q] = answer[q]
      /\ \/ calls'[r] = "returned" /\ answer'[r] = outcome[r]
         \/ calls'[r] = "mismatch" /\ answer'[r] = answer[r]
  BY <1>1, <1>4, <1>5, <1>7 DEF ExchangeTypes, Standing
<1>9. ExchangeTypes'
  BY <1>1, <1>2, <1>3, <1>8 DEF ExchangeTypes
<1>10. AnswersAreVerdicts'
  <2>1. \A q \in Requests : IF calls'[q] = "returned"
                              THEN answer'[q] = outcome[q] /\ outcome[q] # NoAnswer
                              ELSE answer'[q] = NoAnswer
    BY <1>1, <1>5, <1>6, <1>8 DEF AnswersAreVerdicts
  <2> QED
    BY <1>1, <1>2, <1>3, <2>1 DEF AnswersAreVerdicts, Answers
<1>11. \A q \in Requests : calls[q] # "idle" => calls'[q] # "idle"
  BY <1>8
<1>12. ExchangeInv'
  BY <1>2, <1>3, <1>9, <1>10, <1>11, OutsideTheService
<1> QED
  BY <1>4, <1>5, <1>6, <1>12

\* The contract and the sessions change under everybody.
LEMMA SurroundingsKeep ==
    ASSUME ExchangeInv, Amend \/ \E g \in Agents : LoseSession(g)
    PROVE  /\ ExchangeInv'
           /\ UNCHANGED <<sealed, taken, calls, terms, answer, inbox, outcome, sandbox>>
<1>1. ExchangeTypes /\ AnswersAreVerdicts
  BY DEF ExchangeInv
<1>2. UNCHANGED <<sealed, carried, taken, calls, terms, answer, inbox, outcome, unreplied,
                  sandbox>>
  BY DEF Amend, LoseSession
<1>3. /\ revision' \in 0 .. Len(Digest) /\ faults' \in 0 .. MaxFaults
      /\ open' \in [Agents -> BOOLEAN]
  <2>1. revision \in 0 .. Len(Digest) /\ faults \in 0 .. MaxFaults
        /\ open \in [Agents -> BOOLEAN]
    BY <1>1 DEF ExchangeTypes
  <2>2. CASE Amend
    BY <2>1, <2>2, ExchangeAssumption DEF Amend
  <2>3. CASE \E g \in Agents : LoseSession(g)
    BY <2>1, <2>3, ExchangeAssumption DEF LoseSession, Fault
  <2> QED
    BY <2>2, <2>3
<1>4. ExchangeTypes'
  BY <1>1, <1>2, <1>3 DEF ExchangeTypes, WithinReach
<1>5. AnswersAreVerdicts'
  BY <1>1, <1>2, SameAnswers DEF Answers
<1> QED
  BY <1>2, <1>4, <1>5, OutsideTheService

--------------------------------------------------------------------------------
LEMMA IdleSandbox ==
    ASSUME ExchangeInv, Idle
    PROVE  SandboxIdle
  BY DEF ExchangeInv, RunIsAuthorized

\* The delivery at the front is what its request asks, and is not yet judged.
LEMMA InboxFront ==
    ASSUME ExchangeInv, ~ Idle
    PROVE  /\ Len(inbox) >= 1 /\ Head(inbox) \in Messages /\ Head(inbox).re \in Requests
           /\ Head(inbox) = inbox[1]
           /\ taken["executor"] - Len(inbox) + 1 \in 1 .. Len(Asked)
           /\ Head(inbox) = Asked[taken["executor"] - Len(inbox) + 1]
           /\ Head(inbox).contract = terms[Head(inbox).re].contract
           /\ Head(inbox).body = terms[Head(inbox).re].payload
           /\ outcome[Head(inbox).re] = NoAnswer
           /\ Tail(inbox) \in Seq(Messages) /\ Len(Tail(inbox)) = Len(inbox) - 1
           /\ \A i \in 1 .. Len(inbox) - 1 : Tail(inbox)[i] = inbox[i + 1]
<1> DEFINE k == taken["executor"]
           n == Len(inbox)
           r == Head(inbox).re
<1>1. ExchangeTypes /\ AskedOnce /\ InboxIsNext /\ JudgedWereHanded
  BY DEF ExchangeInv
<1>2. /\ inbox \in Seq(Messages) /\ inbox # <<>> /\ n \in Nat /\ k \in Nat
      /\ Len(Asked) \in Nat /\ k <= Len(Asked) /\ DOMAIN Asked = 1 .. Len(Asked)
  BY <1>1, AllAreMessages DEF Idle
<1>3. /\ n >= 1 /\ Head(inbox) = inbox[1] /\ Head(inbox) \in Messages
      /\ Tail(inbox) \in Seq(Messages) /\ Len(Tail(inbox)) = n - 1
      /\ \A i \in 1 .. n - 1 : Tail(inbox)[i] = inbox[i + 1]
  BY <1>2
<1>4. r \in Requests
  BY <1>3 DEF Messages
<1>5. n <= k /\ \A i \in 1 .. n : inbox[i] = Asked[k - n + i]
  BY <1>1 DEF InboxIsNext
<1> HIDE DEF k, n, r
<1>6. k - n + 1 \in DOMAIN Asked
  BY <1>2, <1>3, <1>5
<1>7. Head(inbox) = Asked[k - n + 1]
  BY <1>2, <1>3, <1>5
<1>8. /\ Head(inbox).contract = terms[r].contract
      /\ Head(inbox).body = terms[r].payload
  BY <1>1, <1>6, <1>7 DEF AskedOnce, r
<1>9. outcome[r] = NoAnswer
  <2> SUFFICES ASSUME outcome[r] # NoAnswer PROVE FALSE
    OBVIOUS
  <2>1. PICK i \in 1 .. k - n : Asked[i].re = r
    BY <1>1, <1>4 DEF JudgedWereHanded, k, n
  <2>2. i \in DOMAIN Asked
    BY <1>2, <1>3, <1>5
  <2>3. i = k - n + 1
    BY <1>1, <1>6, <1>7, <2>1, <2>2 DEF AskedOnce, r
  <2> QED
    BY <1>2, <1>5, <2>3
<1> QED
  BY <1>2, <1>3, <1>4, <1>6, <1>7, <1>8, <1>9 DEF k, n, r

\* Every later delivery is about another request.
LEMMA OthersWait ==
    ASSUME ExchangeInv, NEW i \in 1 .. Len(inbox), NEW j \in 1 .. Len(inbox),
           inbox[i].re = inbox[j].re
    PROVE  i = j
<1> DEFINE k == taken["executor"]
           n == Len(inbox)
<1>1. ExchangeTypes /\ AskedOnce /\ InboxIsNext
  BY DEF ExchangeInv
<1>2. /\ n \in Nat /\ k \in Nat /\ Len(Asked) \in Nat /\ k <= Len(Asked)
      /\ DOMAIN Asked = 1 .. Len(Asked)
  BY <1>1, AllAreMessages
<1>3. n <= k /\ \A l \in 1 .. n : inbox[l] = Asked[k - n + l]
  BY <1>1 DEF InboxIsNext
<1> HIDE DEF k
<1>4. k - n + i \in DOMAIN Asked /\ k - n + j \in DOMAIN Asked
  BY <1>2, <1>3
<1>5. Asked[k - n + i].re = Asked[k - n + j].re
  BY <1>3
<1>6. k - n + i = k - n + j
  BY <1>1, <1>4, <1>5 DEF AskedOnce
<1> QED
  BY <1>2, <1>6

LEMMA ReportKeeps ==
    ASSUME ExchangeInv, TakeReport \/ ReportLost
    PROVE  ExchangeInv'
<1> DEFINE k == taken["executor"]
           report == Report("executor")
<1>1. /\ ExchangeTypes /\ AskedOnce /\ InboxIsNext /\ JudgedWereHanded
      /\ AnswersAreVerdicts /\ RunIsAuthorized
  BY DEF ExchangeInv
<1>2. /\ inbox = <<>> /\ SandboxIdle /\ Open("executor")
      /\ UNCHANGED <<calls, terms, answer, outcome, unreplied, sandbox>>
  BY IdleSandbox DEF TakeReport, ReportLost, Idle
<1>3. faults' \in 0 .. MaxFaults
  <2>1. faults' = faults \/ Fault
    BY DEF TakeReport, ReportLost
  <2> QED
    BY <1>1, <2>1, ExchangeAssumption DEF Fault, ExchangeTypes
<1>4. /\ taken' \in [Agents -> Nat] /\ open' \in [Agents -> BOOLEAN]
      /\ k' = k + Len(report)
      /\ UNCHANGED <<revision, sealed, carried>> /\ WithinReach'
  BY <1>1, <1>2, OpenTakes, TwoAgents
<1>5. /\ report \in Seq(Messages) /\ Len(report) \in Nat
      /\ \A i \in 1 .. Len(report) : report[i] = Asked[k + i]
  BY <1>1, ReportIsNext, TwoAgents DEF Asked
<1>6. inbox' = report \/ inbox' = <<>>
  BY <1>2 DEF TakeReport, ReportLost
<1>7. k \in Nat
  BY <1>1, AllAreMessages
<1> HIDE DEF k, report
<1>8. /\ inbox' \in Seq(Messages) /\ Len(inbox') \in Nat /\ Len(inbox') <= k'
      /\ k <= k' - Len(inbox')
      /\ \A i \in 1 .. Len(inbox') : inbox'[i] = Asked[k' - Len(inbox') + i]
  <2>1. CASE inbox' = report
    <3>1. k' - Len(inbox') = k
      BY <1>4, <1>5, <1>7, <2>1
    <3> QED
      BY <1>4, <1>5, <1>7, <2>1, <3>1
  <2>2. CASE inbox' = <<>>
    BY <1>4, <1>5, <1>7, <2>2
  <2> QED
    BY <1>6, <2>1, <2>2
<1>9. ExchangeTypes'
  BY <1>1, <1>2, <1>3, <1>4, <1>8 DEF ExchangeTypes
<1>10. AskedOnce'
  BY <1>1, <1>2, <1>4, SameAsked DEF Asked
<1>11. InboxIsNext'
  BY <1>4, <1>8 DEF InboxIsNext, Asked, k
<1>12. JudgedWereHanded'
  <2> SUFFICES ASSUME NEW r \in Requests, outcome[r] # NoAnswer
               PROVE  \E i \in 1 .. k' - Len(inbox') : Asked[i].re = r
    BY <1>2, <1>4 DEF JudgedWereHanded, Asked, k
  <2>1. PICK i \in 1 .. k - Len(inbox) : Asked[i].re = r
    BY <1>1 DEF JudgedWereHanded, k
  <2>2. i \in 1 .. k' - Len(inbox')
    BY <1>2, <1>4, <1>5, <1>7, <1>8
  <2> QED
    BY <2>1, <2>2
<1>13. AnswersAreVerdicts'
  BY <1>1, <1>2, <1>4, SameAnswers DEF Answers
<1>14. RunIsAuthorized'
  BY <1>2 DEF RunIsAuthorized, SandboxIdle, sandbox
<1> QED
  BY <1>9, <1>10, <1>11, <1>12, <1>13, <1>14 DEF ExchangeInv

\* A verdict on the delivery at the front, sealed for the requester if the session
\* still stands.
LEMMA ReplyAsKeeps ==
    ASSUME ExchangeInv, ~ Idle, NEW body \in ResultBodies \cup DenialBodies, ReplyAs(body),
           SandboxIdle', UNCHANGED <<calls, terms, answer>>
    PROVE  ExchangeInv'
<1> DEFINE k == taken["executor"]
           n == Len(inbox)
           r == Head(inbox).re
           m == [Head(inbox) EXCEPT !.body = body]
<1>1. /\ ExchangeTypes /\ AskedOnce /\ InboxIsNext /\ JudgedWereHanded
      /\ AnswersAreVerdicts /\ RunIsAuthorized
  BY DEF ExchangeInv
<1>2. /\ Seal("executor", m) \/ SealFails("executor", m)
      /\ outcome' = [outcome EXCEPT ![r] = body] /\ inbox' = Tail(inbox)
      /\ unreplied' = unreplied \/ unreplied' = unreplied \cup {r}
      /\ faults' = faults \/ Fault
  BY DEF ReplyAs, SealFails
<1>3. /\ n >= 1 /\ Head(inbox) \in Messages /\ r \in Requests
      /\ k - n + 1 \in 1 .. Len(Asked) /\ Asked[k - n + 1].re = r
      /\ outcome[r] = NoAnswer
      /\ inbox' \in Seq(Messages) /\ Len(inbox') = n - 1
      /\ \A i \in 1 .. n - 1 : inbox'[i] = inbox[i + 1]
  BY <1>2, InboxFront
<1>4. body # NoAnswer
  BY NoAnswerAssumption
<1>5. m \in Messages /\ m.re = r /\ m.body = body
  BY <1>3 DEF Messages, Bodies
<1>6. /\ n \in Nat /\ k \in Nat /\ Len(Asked) \in Nat /\ k <= Len(Asked)
      /\ Answers \in Seq(Messages) /\ DOMAIN Answers = 1 .. Len(Answers) /\ Len(Answers) \in Nat
      /\ \A i \in 1 .. Len(Answers) : Answers[i].re \in Requests
  BY <1>1, AllAreMessages
<1>7. n <= k /\ \A i \in 1 .. n : inbox[i] = Asked[k - n + i]
  BY <1>1 DEF InboxIsNext
<1>8. /\ outcome \in [Requests -> ResultBodies \cup DenialBodies \cup {NoAnswer}]
      /\ outcome' \in [Requests -> ResultBodies \cup DenialBodies \cup {NoAnswer}]
      /\ outcome'[r] = body /\ \A q \in Requests : q # r => outcome'[q] = outcome[q]
  BY <1>1, <1>2, <1>3 DEF ExchangeTypes
<1> HIDE DEF m, k, n, r
<1>9. /\ sealed' \in [Agents -> Seq(Messages)] /\ open' \in [Agents -> BOOLEAN]
      /\ carried' \in [Agents -> Nat] /\ WithinReach' /\ UNCHANGED <<revision, taken>>
      /\ Asked' = Asked
      /\ Answers' = Append(Answers, m) \/ Answers' = Answers
  BY <1>1, <1>2, <1>5, SealAppends, TwoAgents DEF Asked, Answers
<1>10. ExchangeTypes'
  <2>1. faults' \in 0 .. MaxFaults
    BY <1>1, <1>2, ExchangeAssumption DEF Fault, ExchangeTypes
  <2>2. unreplied' \subseteq Requests
    BY <1>1, <1>2, <1>3 DEF ExchangeTypes
  <2> QED
    BY <1>1, <1>3, <1>8, <1>9, <2>1, <2>2 DEF ExchangeTypes
<1>11. AskedOnce'
  BY <1>1, <1>9, SameAsked
<1>12. InboxIsNext'
  <2>1. k' = k
    BY <1>9 DEF k
  <2>2. ASSUME NEW i \in 1 .. n - 1 PROVE inbox'[i] = Asked[k - (n - 1) + i]
    <3>1. i + 1 \in 1 .. n /\ k - n + (i + 1) = k - (n - 1) + i
      BY <1>6
    <3> QED
      BY <1>3, <1>7, <3>1
  <2>3. n - 1 <= k
    BY <1>6, <1>7
  <2> QED
    BY <1>3, <1>9, <2>1, <2>2, <2>3 DEF InboxIsNext, k
<1>13. JudgedWereHanded'
  <2>1. k' = k
    BY <1>9 DEF k
  <2> SUFFICES ASSUME NEW q \in Requests, outcome'[q] # NoAnswer
               PROVE  \E i \in 1 .. k - (n - 1) : Asked[i].re = q
    BY <1>3, <1>9, <2>1 DEF JudgedWereHanded, k
  <2>2. CASE q = r
    <3>1. k - n + 1 \in 1 .. k - (n - 1)
      BY <1>3, <1>6, <1>7
    <3> QED
      BY <1>3, <2>2, <3>1
  <2>3. CASE q # r
    <3>1. PICK i \in 1 .. k - n : Asked[i].re = q
      BY <1>1, <1>8, <2>3 DEF JudgedWereHanded, k, n
    <3>2. i \in 1 .. k - (n - 1)
      BY <1>6
    <3> QED
      BY <3>1, <3>2
  <2> QED
    BY <2>2, <2>3
<1>14. AnswersAreVerdicts'
  <2>1. \A i \in DOMAIN Answers : Answers[i].re # r
    BY <1>1, <1>3 DEF AnswersAreVerdicts
  <2>2. ASSUME NEW i \in DOMAIN Answers
        PROVE  Answers[i].body = outcome'[Answers[i].re] /\ outcome'[Answers[i].re] # NoAnswer
    BY <1>1, <1>6, <1>8, <2>1 DEF AnswersAreVerdicts
  <2>3. ASSUME NEW i \in DOMAIN Answers'
        PROVE  Answers'[i].body = outcome'[Answers'[i].re] /\ outcome'[Answers'[i].re] # NoAnswer
    <3>1. CASE Answers' = Answers
      BY <2>2, <3>1
    <3>2. CASE Answers' = Append(Answers, m)
      <4>1. \/ i \in DOMAIN Answers /\ Answers'[i] = Answers[i]
            \/ Answers'[i] = m
        BY <1>6, <3>2
      <4> QED
        BY <1>4, <1>5, <1>8, <2>2, <4>1
    <3> QED
      BY <1>9, <3>1, <3>2
  <2>4. \A q \in Requests : IF calls[q] = "returned"
                              THEN answer[q] = outcome'[q] /\ outcome'[q] # NoAnswer
                              ELSE answer[q] = NoAnswer
    BY <1>1, <1>3, <1>8 DEF AnswersAreVerdicts
  <2> QED
    BY <2>3, <2>4 DEF AnswersAreVerdicts
<1>15. RunIsAuthorized'
  BY DEF RunIsAuthorized
<1> QED
  BY <1>10, <1>11, <1>12, <1>13, <1>14, <1>15 DEF ExchangeInv

LEMMA DenyKeeps ==
    ASSUME ExchangeInv, Deny
    PROVE  /\ ExchangeInv' /\ SandboxIdle /\ SandboxIdle'
           /\ \E body \in DenialBodies : ReplyAs(body)
<1> DEFINE p == Head(inbox).body
           contract == Head(inbox).contract
<1>1. /\ ~ Idle /\ ~ Authorized(p, contract) /\ ReplyAs(DenialBody(p, contract))
      /\ UNCHANGED <<calls, terms, answer, sandbox>>
  BY DEF Deny
<1>2. SandboxIdle
  BY <1>1 DEF ExchangeInv, RunIsAuthorized
<1>3. SandboxIdle'
  BY <1>1, <1>2 DEF sandbox, SandboxIdle
<1> HIDE DEF p, contract
<1>4. DenialBody(p, contract) \in DenialBodies
  BY <1>1, DenialCodeIsOne DEF DenialBody, DenialBodies
<1> QED
  BY <1>1, <1>2, <1>3, <1>4, ReplyAsKeeps

LEMMA ReplyKeeps ==
    ASSUME ExchangeInv, Reply
    PROVE  /\ ExchangeInv' /\ ~ Idle /\ ~ SandboxIdle /\ SandboxIdle'
           /\ \E body \in ResultBodies : ReplyAs(body)
<1>1. /\ result # NoResult /\ ReplyAs(ResultBody(result)) /\ Reset
      /\ UNCHANGED <<calls, terms, answer>>
  BY DEF Reply
<1>2. ~ SandboxIdle
  BY <1>1 DEF SandboxIdle
<1>3. ~ Idle /\ SandboxTypeOK
  BY <1>2 DEF ExchangeInv, RunIsAuthorized, Captured
<1>4. result \in Result
  BY <1>1, <1>3 DEF SandboxTypeOK
<1>5. ResultBody(result) \in ResultBodies
  BY <1>4 DEF ResultBody, ResultBodies
<1>6. SandboxIdle'
  BY <1>1, ResetIsIdle
<1> QED
  BY <1>1, <1>2, <1>3, <1>5, <1>6, ReplyAsKeeps

LEMMA OnlyTheRun ==
    ASSUME ExchangeInv, RunIsAuthorized',
           UNCHANGED <<exchange, calls, terms, answer, inbox, outcome, unreplied, faults>>
    PROVE  ExchangeInv'
<1>1. /\ ExchangeTypes /\ AskedOnce /\ InboxIsNext /\ JudgedWereHanded
      /\ AnswersAreVerdicts
  BY DEF ExchangeInv
<1>2. UNCHANGED <<revision, open, sealed, carried, taken, Asked, Answers>>
  BY DEF exchange, Asked, Answers
<1>3. ExchangeTypes'
  BY <1>1, <1>2 DEF ExchangeTypes, WithinReach
<1>4. AskedOnce'
  BY <1>1, <1>2, SameAsked
<1>5. InboxIsNext' /\ JudgedWereHanded'
  BY <1>1, <1>2, MoreAsked
<1>6. AnswersAreVerdicts'
  BY <1>1, <1>2, SameAnswers
<1> QED
  BY <1>3, <1>4, <1>5, <1>6 DEF ExchangeInv

\* A run starts only when none is under way, and only on what is allowed.
LEMMA ExecuteKeeps ==
    ASSUME ExchangeInv, Execute
    PROVE  /\ ExchangeInv' /\ ~ Idle /\ SandboxIdle /\ ~ SandboxIdle'
           /\ terms[Head(inbox).re] \in Allowable
<1> DEFINE r == Head(inbox).re
           limit == OutputLimit(Head(inbox).body)
<1>1. /\ ~ Idle /\ Authorized(Head(inbox).body, Head(inbox).contract)
      /\ UNCHANGED <<exchange, calls, terms, answer, inbox, outcome, unreplied, faults>>
      /\ Spawn \/ \E kind \in {"InvalidRequest", "RuntimeUnavailable", "Io"} : GiveUp(kind)
  BY DEF Execute, StagingFails
<1>2. /\ r \in Requests /\ Head(inbox).contract = terms[r].contract
      /\ Head(inbox).body = terms[r].payload
  BY <1>1, InboxFront
<1>3. terms[r] \in Terms
  BY <1>2 DEF ExchangeInv, ExchangeTypes
<1> HIDE DEF r
<1>4. terms[r] \in Allowable /\ limit \in Nat
  BY <1>1, <1>2, <1>3, AuthorizedIsWithinPolicy
<1>5. limit' = limit
  BY <1>1 DEF OutputLimit
<1>6. SandboxIdle
  BY <1>1 DEF Spawn, GiveUp
<1> HIDE DEF limit
<1>7. Captured(limit)' /\ ~ SandboxIdle'
  <2>1. ASSUME NEW l \in Nat, l = limit PROVE Captured(l)' /\ ~ SandboxIdle'
    BY <1>1, SpawnKeeps, GiveUpKeeps
  <2> QED
    BY <1>4, <1>5, <2>1
<1>8. RunIsAuthorized'
  <2>1. Authorized(Head(inbox).body, Head(inbox).contract)' /\ ~ Idle'
    BY <1>1 DEF Idle
  <2> QED
    BY <1>7, <2>1 DEF RunIsAuthorized, limit
<1> QED
  BY <1>1, <1>4, <1>6, <1>7, <1>8, OnlyTheRun DEF r

LEMMA RunSandboxKeeps ==
    ASSUME ExchangeInv, RunSandbox
    PROVE  ExchangeInv' /\ ~ SandboxIdle /\ ~ SandboxIdle'
<1> DEFINE limit == OutputLimit(Head(inbox).body)
<1>1. /\ child # "none" /\ SandboxStep(limit)
      /\ UNCHANGED <<exchange, calls, terms, answer, inbox, outcome, unreplied, faults>>
  BY DEF RunSandbox
<1>2. ~ SandboxIdle
  BY <1>1 DEF SandboxIdle
<1>3. /\ ~ Idle /\ Authorized(Head(inbox).body, Head(inbox).contract) /\ Captured(limit)
  BY <1>2 DEF ExchangeInv, RunIsAuthorized
<1>4. limit \in Nat
  BY <1>3, ChecksPassed, PolicyAssumption
<1>5. limit' = limit
  BY <1>1 DEF OutputLimit
<1> HIDE DEF limit
<1>6. Captured(limit)' /\ child' # "none"
  <2>1. ASSUME NEW l \in Nat, l = limit PROVE Captured(l)' /\ child' # "none"
    BY <1>1, <1>3, <2>1, RunKeeps
  <2> QED
    BY <1>4, <1>5, <2>1
<1>7. ~ SandboxIdle'
  BY <1>6 DEF SandboxIdle
<1>8. RunIsAuthorized'
  <2>1. Authorized(Head(inbox).body, Head(inbox).contract)' /\ ~ Idle'
    BY <1>1, <1>3 DEF Idle
  <2> QED
    BY <1>6, <2>1 DEF RunIsAuthorized, limit
<1> QED
  BY <1>1, <1>2, <1>7, <1>8, OnlyTheRun

LEMMA RestartKeeps ==
    ASSUME ExchangeInv, RestartService
    PROVE  ExchangeInv' /\ SandboxIdle'
<1>1. /\ ExchangeTypes /\ AskedOnce /\ InboxIsNext /\ JudgedWereHanded
      /\ AnswersAreVerdicts
  BY DEF ExchangeInv
<1>2. /\ inbox' = <<>> /\ Reset /\ Fault
      /\ UNCHANGED <<exchange, calls, terms, answer, outcome, unreplied>>
  BY DEF RestartService
<1>3. UNCHANGED <<revision, open, sealed, carried, taken, Asked, Answers>>
  BY <1>2 DEF exchange, Asked, Answers
<1>4. faults' \in 0 .. MaxFaults
  BY <1>1, <1>2, ExchangeAssumption DEF Fault, ExchangeTypes
<1>5. ExchangeTypes'
  BY <1>1, <1>2, <1>3, <1>4 DEF ExchangeTypes, WithinReach
<1>6. AskedOnce'
  BY <1>1, <1>2, <1>3, SameAsked
<1>7. /\ taken["executor"] \in Nat /\ Len(inbox) \in Nat /\ Len(inbox) <= taken["executor"]
  BY <1>1, AllAreMessages DEF InboxIsNext
<1>8. InboxIsNext'
  BY <1>2, <1>3, <1>7 DEF InboxIsNext
<1>9. JudgedWereHanded'
  <2> SUFFICES ASSUME NEW r \in Requests, outcome[r] # NoAnswer
               PROVE  \E i \in 1 .. taken["executor"] - 0 : Asked[i].re = r
    BY <1>2, <1>3 DEF JudgedWereHanded
  <2>1. PICK i \in 1 .. taken["executor"] - Len(inbox) : Asked[i].re = r
    BY <1>1 DEF JudgedWereHanded
  <2>2. i \in 1 .. taken["executor"] - 0
    BY <1>7
  <2> QED
    BY <2>1, <2>2
<1>10. AnswersAreVerdicts'
  BY <1>1, <1>2, <1>3, SameAnswers
<1>11. SandboxIdle'
  BY <1>2, ResetIsIdle
<1> QED
  BY <1>5, <1>6, <1>8, <1>9, <1>10, <1>11 DEF ExchangeInv, RunIsAuthorized

LEMMA ExchangeInitial ==
    ASSUME Init
    PROVE  ExchangeInv
<1>1. /\ revision = 0 /\ faults = 0 /\ inbox = <<>> /\ SandboxIdle
      /\ open = [g \in Agents |-> TRUE] /\ sealed = [g \in Agents |-> <<>>]
      /\ carried = [g \in Agents |-> 0] /\ taken = [g \in Agents |-> 0]
      /\ unreplied = {} /\ calls = [r \in Requests |-> "idle"]
      /\ terms = [r \in Requests |-> CHOOSE t \in Terms : TRUE]
      /\ answer = [r \in Requests |-> NoAnswer] /\ outcome = [r \in Requests |-> NoAnswer]
  BY DEF Init
<1>2. (CHOOSE t \in Terms : TRUE) \in Terms
  BY TermsAssumption
<1>3. sealed \in [Agents -> Seq(Messages)] /\ inbox \in Seq(Messages)
      /\ \A g \in Agents : sealed[g] = <<>>
  BY <1>1
<1>4. /\ carried \in [Agents -> Nat] /\ taken \in [Agents -> Nat]
      /\ \A g \in Agents : carried[g] = 0 /\ taken[g] = 0
  BY <1>1
<1>5. WithinReach
  BY <1>3, <1>4, TwoAgents DEF WithinReach
<1>6. ExchangeTypes
  BY <1>1, <1>2, <1>3, <1>4, <1>5, ExchangeAssumption DEF ExchangeTypes, Standing
<1>7. Asked = <<>> /\ Answers = <<>>
  BY <1>3, TwoAgents DEF Asked, Answers
<1>8. AskedOnce /\ AnswersAreVerdicts /\ JudgedWereHanded
  BY <1>1, <1>7 DEF AskedOnce, AnswersAreVerdicts, JudgedWereHanded
<1>9. InboxIsNext
  BY <1>1, <1>4, TwoAgents DEF InboxIsNext
<1> QED
  BY <1>1, <1>6, <1>8, <1>9 DEF ExchangeInv, RunIsAuthorized

LEMMA ExchangeStep ==
    ASSUME ExchangeInv, [Next]_vars
    PROVE  ExchangeInv'
<1>1. CASE UNCHANGED vars
  <2>1. UNCHANGED <<calls, terms, answer, inbox, outcome, unreplied, faults, sandbox, exchange>>
    BY <1>1 DEF vars, exchange
  <2>2. RunIsAuthorized'
    BY <2>1, SameRun DEF ExchangeInv
  <2> QED
    BY <2>1, <2>2, OnlyTheRun
<1>2. CASE \E r \in Requests : \E t \in Terms : Send(r, t)
  BY <1>2, SendKeeps
<1>3. CASE \E r \in Requests : Await(r) \/ PollInVain(r) \/ PollTooLate(r) \/ PollFails(r)
  BY <1>3, PollKeeps
<1>4. CASE \E r \in Requests : TakeReply(r)
  BY <1>4, TakeReplyKeeps
<1>5. CASE TakeReport \/ ReportLost
  BY <1>5, ReportKeeps
<1>6. CASE Deny \/ Execute \/ RunSandbox \/ Reply \/ RestartService
  BY <1>6, DenyKeeps, ExecuteKeeps, RunSandboxKeeps, ReplyKeeps, RestartKeeps
<1>7. CASE Amend \/ \E g \in Agents : LoseSession(g)
  BY <1>7, SurroundingsKeep
<1> QED
  BY <1>1, <1>2, <1>3, <1>4, <1>5, <1>6, <1>7 DEF Next

THEOREM ExchangeInvariant == Spec => []ExchangeInv
<1>1. Init => ExchangeInv
  BY ExchangeInitial
<1>2. ExchangeInv /\ [Next]_vars => ExchangeInv'
  BY ExchangeStep
<1> QED
  BY <1>1, <1>2, PTL DEF Spec

\* The types of the exchange (ExecutionService, ExecutionClient, ExecutionResult), and
\* that a run belongs to the delivery the service is at.
THEOREM ExchangeTypesHold == Spec => []ExchangeTypeOK
<1>1. ExchangeInv => ExchangeTypeOK
  <2> SUFFICES ASSUME ExchangeInv PROVE ExchangeTypeOK
    OBVIOUS
  <2>1. ExchangeTypes /\ AnswersAreVerdicts /\ RunIsAuthorized
    BY DEF ExchangeInv
  <2>2. SandboxTypeOK
    BY <2>1, IdleIsNoRun DEF RunIsAuthorized, Captured
  <2>3. ASSUME NEW g \in Agents
        PROVE  carried[g] \in 0 .. Len(sealed[g]) /\ taken[g] \in 0 .. carried[Other(g)]
    <3>1. Other(g) \in Agents /\ Other(Other(g)) = g
      BY TwoAgents
    <3>2. /\ carried[g] \in Nat /\ Len(sealed[g]) \in Nat /\ carried[g] <= Len(sealed[g])
      BY <2>1, <3>1, TakenWasSealed
    <3>3. /\ taken[g] \in Nat /\ carried[Other(g)] \in Nat /\ taken[g] <= carried[Other(g)]
      BY <2>1, TakenWasSealed
    <3> QED
      BY <3>2, <3>3
  <2>4. \A r \in Requests : answer[r] # NoAnswer <=> calls[r] = "returned"
    BY <2>1 DEF AnswersAreVerdicts
  <2> QED
    BY <2>1, <2>2, <2>3, <2>4 DEF ExchangeTypeOK, ExchangeTypes, RunIsAuthorized
<1> QED
  BY <1>1, ExchangeInvariant, PTL

\* What the requester is told of a run is what the guest did, up to the limit of its
\* request (capture and wait_with_timeout).
THEOREM OutputIsReported == Spec => []OutputIsAccountedFor
<1>1. ExchangeInv => OutputIsAccountedFor
  <2> SUFFICES ASSUME ExchangeInv, child # "none", result # NoResult
               PROVE  LET limit == OutputLimit(Head(inbox).body) IN
                      /\ \A s \in Streams : result.kept[s] = Smaller(written[s], limit)
                      /\ result.truncated <=> \E s \in Streams : written[s] > limit
                      /\ result.exited => child = "exited" /\ result.failure = "none"
                      /\ child = "killed" => result.failure \in {"TimedOut", "Io"}
    BY DEF OutputIsAccountedFor
  <2> DEFINE limit == OutputLimit(Head(inbox).body)
  <2>1. Captured(limit)
    BY DEF ExchangeInv, RunIsAuthorized, SandboxIdle
  <2> HIDE DEF limit
  <2>2. KeptToLimit(limit) /\ ReadToTheEnd /\ ResultIsTheRun
    BY <2>1 DEF Captured
  <2>3. \A s \in Streams : drained[s] = written[s]
    BY <2>2 DEF ReadToTheEnd, ResultIsTheRun
  <2>4. \A s \in Streams : result.kept[s] = Smaller(written[s], limit)
    BY <2>2, <2>3 DEF KeptToLimit, ResultIsTheRun
  <2>5. result.truncated <=> \E s \in Streams : written[s] > limit
    BY <2>2, <2>3 DEF KeptToLimit, ResultIsTheRun
  <2> QED
    BY <2>2, <2>4, <2>5 DEF ResultIsTheRun, limit
<1> QED
  BY <1>1, ExchangeInvariant, PTL

--------------------------------------------------------------------------------
(***************************************************************************)
(* The exchange implements AtMostOnceCall: where each request stands, step *)
(* by step.                                                                *)
(***************************************************************************)
Stages == [r \in Requests |-> Stage(r)]

LEMMA StagesMove ==
    ASSUME NEW c \in Requests, NEW x, Stage(c)' = x,
           \A q \in Requests : q # c => Stage(q)' = Stage(q)
    PROVE  Stages' = [Stages EXCEPT ![c] = x]
  BY DEF Stages

LEMMA StagesStay ==
    ASSUME \A q \in Requests : Stage(q)' = Stage(q)
    PROVE  Stages' = Stages
  BY DEF Stages

LEMMA SameStages ==
    ASSUME UNCHANGED <<inbox, outcome, SandboxIdle, Asked>>,
           taken'["executor"] = taken["executor"]
    PROVE  Stages' = Stages
<1>1. \A q \in Requests : Stage(q)' = Stage(q)
  BY DEF Stage, Handed, Idle, Asked
<1> QED
  BY <1>1, StagesStay

\* What is in the inbox was handed out and is not judged.
LEMMA InboxIsOpen ==
    ASSUME ExchangeInv, NEW i \in 1 .. Len(inbox)
    PROVE  outcome[inbox[i].re] = NoAnswer /\ Handed(inbox[i].re) /\ inbox[i].re \in Requests
<1> DEFINE k == taken["executor"]
           n == Len(inbox)
           r == inbox[i].re
<1>1. ExchangeTypes /\ AskedOnce /\ InboxIsNext /\ JudgedWereHanded
  BY DEF ExchangeInv
<1>2. /\ n \in Nat /\ k \in Nat /\ Len(Asked) \in Nat /\ k <= Len(Asked)
      /\ DOMAIN Asked = 1 .. Len(Asked) /\ r \in Requests
  BY <1>1, AllAreMessages
<1>3. n <= k /\ inbox[i] = Asked[k - n + i]
  BY <1>1 DEF InboxIsNext
<1>4. i \in 1 .. n
  OBVIOUS
<1> HIDE DEF k, n, r
<1>5. k - n + i \in 1 .. k /\ k - n + i \in DOMAIN Asked
  BY <1>2, <1>3, <1>4
<1>6. Handed(r)
  BY <1>3, <1>5 DEF Handed, Asked, k, r
<1>7. ASSUME outcome[r] # NoAnswer PROVE FALSE
  <2>1. PICK j \in 1 .. k - n : Asked[j].re = r
    BY <1>1, <1>2, <1>7 DEF JudgedWereHanded, k, n
  <2>2. j \in DOMAIN Asked
    BY <1>2, <1>3
  <2>3. j = k - n + i
    BY <1>1, <1>3, <1>5, <2>1, <2>2 DEF AskedOnce, r
  <2> QED
    BY <1>2, <1>3, <1>4, <2>1, <2>3
<1> QED
  BY <1>2, <1>6, <1>7 DEF r

\* A request that was never sealed is idle, and no message of it is anywhere.
LEMMA IdleRequest ==
    ASSUME ExchangeInv, NEW r \in Requests, calls[r] = "idle"
    PROVE  /\ outcome[r] = NoAnswer /\ Stage(r) = "idle" /\ ~ Handed(r)
           /\ \A i \in 1 .. Len(inbox) : inbox[i].re # r
<1>1. ExchangeTypes /\ AskedOnce /\ InboxIsNext /\ JudgedWereHanded
  BY DEF ExchangeInv
<1>2. \A i \in DOMAIN Asked : Asked[i].re # r
  BY <1>1 DEF AskedOnce
<1>3. /\ DOMAIN Asked = 1 .. Len(Asked) /\ Len(Asked) \in Nat /\ Len(inbox) \in Nat
      /\ DOMAIN inbox = 1 .. Len(inbox)
      /\ taken["executor"] \in Nat /\ taken["executor"] <= Len(Asked)
  BY <1>1, AllAreMessages
<1>4. \A i \in 1 .. taken["executor"] : i \in DOMAIN Asked
  BY <1>3
<1>5. ~ Handed(r)
  BY <1>2, <1>4 DEF Handed, Asked
<1>6. \A i \in 1 .. Len(inbox) : inbox[i].re # r
  BY <1>5, InboxIsOpen
<1>7. outcome[r] = NoAnswer
  <2> SUFFICES ASSUME outcome[r] # NoAnswer PROVE FALSE
    OBVIOUS
  <2>1. PICK i \in 1 .. taken["executor"] - Len(inbox) : Asked[i].re = r
    BY <1>1 DEF JudgedWereHanded
  <2>2. i \in DOMAIN Asked
    BY <1>3
  <2> QED
    BY <1>2, <2>1, <2>2
<1>8. ~ (~ Idle /\ Head(inbox).re = r)
  <2>1. ASSUME ~ Idle PROVE Head(inbox) = inbox[1] /\ 1 \in 1 .. Len(inbox)
    BY <1>3, <2>1, InboxFront
  <2> QED
    BY <1>6, <2>1
<1>9. Stage(r) = "idle"
  BY <1>2, <1>3, <1>5, <1>6, <1>7, <1>8 DEF Stage, Asked
<1> QED
  BY <1>5, <1>6, <1>7, <1>9

LEMMA SendMaps ==
    ASSUME ExchangeInv, NEW r \in Requests, NEW t \in Terms, Send(r, t)
    PROVE  Call!Request(r, t) \/ UNCHANGED <<Stages, terms, outcome, answer>>
<1> DEFINE m == [re |-> r, contract |-> t.contract, body |-> t.payload]
           yes == sealed' # sealed
<1>1. /\ calls[r] = "idle" /\ (Seal("requester", m) \/ SealFails("requester", m))
      /\ terms' = IF yes THEN [terms EXCEPT ![r] = t] ELSE terms
      /\ UNCHANGED <<answer, inbox, outcome, sandbox>>
  BY DEF Send
<1>2. m \in Messages /\ m.re = r /\ m.contract = t.contract
  BY DEF Messages, Bodies
<1> HIDE DEF m
<1>3. ExchangeTypes
  BY DEF ExchangeInv
<1>4. /\ Asked' = IF yes THEN Append(Asked, m) ELSE Asked
      /\ UNCHANGED taken
  BY <1>1, <1>2, <1>3, SealAppends, TwoAgents DEF Asked
<1> HIDE DEF yes
<1>5. SandboxIdle' = SandboxIdle
  BY <1>1 DEF sandbox, SandboxIdle
<1>6. CASE ~ yes
  BY <1>1, <1>4, <1>5, <1>6, SameStages
<1>7. CASE yes
  <2>1. /\ DOMAIN Asked = 1 .. Len(Asked) /\ Len(Asked) \in Nat
        /\ taken["executor"] \in Nat /\ taken["executor"] <= Len(Asked)
        /\ Asked \in Seq(Messages) /\ DOMAIN inbox = 1 .. Len(inbox)
    BY <1>3, AllAreMessages
  <2>2. /\ DOMAIN Asked' = 1 .. Len(Asked) + 1 /\ Asked'[Len(Asked) + 1] = m
        /\ \A i \in 1 .. Len(Asked) : Asked'[i] = Asked[i]
    BY <1>4, <1>7, <2>1
  <2>3. \A q \in Requests : Handed(q)' <=> Handed(q)
    <3>1. \A i \in 1 .. taken["executor"] : Asked'[i] = Asked[i]
      BY <2>1, <2>2
    <3> QED
      BY <1>4, <3>1 DEF Handed, Asked
  <2>4. \A q \in Requests \ {r} :
            (\E i \in DOMAIN Asked' : Asked'[i].re = q) <=> (\E i \in DOMAIN Asked : Asked[i].re = q)
    <3> SUFFICES ASSUME NEW q \in Requests \ {r}
                 PROVE  (\E i \in DOMAIN Asked' : Asked'[i].re = q)
                            <=> (\E i \in DOMAIN Asked : Asked[i].re = q)
      OBVIOUS
    <3>1. ASSUME NEW i \in DOMAIN Asked', Asked'[i].re = q
          PROVE  \E j \in DOMAIN Asked : Asked[j].re = q
      <4>1. i \in DOMAIN Asked \/ i = Len(Asked) + 1
        BY <2>1, <2>2
      <4> QED
        BY <1>2, <2>1, <2>2, <3>1, <4>1
    <3>2. ASSUME NEW i \in DOMAIN Asked, Asked[i].re = q
          PROVE  \E j \in DOMAIN Asked' : Asked'[j].re = q
      <4>1. i \in DOMAIN Asked' /\ Asked'[i] = Asked[i]
        BY <2>1, <2>2
      <4> QED
        BY <3>2, <4>1
    <3> QED
      BY <3>1, <3>2
  <2>5. \A q \in Requests : q # r => Stage(q)' = Stage(q)
    BY <1>1, <1>5, <2>3, <2>4 DEF Stage, Asked, Idle
  <2>6. \E i \in DOMAIN Asked' : Asked'[i].re = r
    BY <1>2, <2>1, <2>2
  <2>7. /\ outcome[r] = NoAnswer /\ Stage(r) = "idle" /\ ~ Handed(r)
        /\ \A i \in DOMAIN inbox : inbox[i].re # r
    BY <1>1, <2>1, IdleRequest
  <2>8. ~ (~ Idle /\ Head(inbox).re = r)
    <3>1. ASSUME ~ Idle PROVE Head(inbox) = inbox[1] /\ 1 \in DOMAIN inbox
      BY <2>1, <3>1, InboxFront
    <3> QED
      BY <2>7, <3>1
  <2>9. Stage(r)' = "requested"
    BY <1>1, <2>3, <2>6, <2>7, <2>8 DEF Stage, Asked, Idle
  <2>10. Stages' = [Stages EXCEPT ![r] = "requested"] /\ Stages[r] = "idle"
    BY <2>5, <2>7, <2>9, StagesMove DEF Stages
  <2> QED
    BY <1>1, <1>7, <2>10 DEF Call!Request, Stages
<1> QED
  BY <1>6, <1>7

LEMMA TakeReplyMaps ==
    ASSUME ExchangeInv, NEW r \in Requests, TakeReply(r)
    PROVE  Call!Return(r) \/ UNCHANGED <<Stages, terms, outcome, answer>>
<1>1. /\ UNCHANGED <<terms, inbox, outcome, sandbox>> /\ Open("requester")
  BY DEF TakeReply
<1>2. UNCHANGED Asked /\ taken'["executor"] = taken["executor"]
  BY <1>1, OpenTakes, TwoAgents DEF ExchangeInv, Asked
<1>3. SandboxIdle' = SandboxIdle
  BY <1>1 DEF sandbox, SandboxIdle
<1>4. Stages' = Stages
  BY <1>1, <1>2, <1>3, SameStages
<1> QED
  BY <1>1, <1>4, TakeReplyKeeps DEF Call!Return, Stages

\* Polling, amendments, sessions lost and the steps of a run do not show.
LEMMA UnseenSteps ==
    ASSUME ExchangeInv,
           \/ \E r \in Requests : Await(r) \/ PollInVain(r) \/ PollTooLate(r) \/ PollFails(r)
           \/ Amend \/ \E g \in Agents : LoseSession(g)
           \/ RunSandbox \/ UNCHANGED vars
    PROVE  UNCHANGED <<Stages, terms, outcome, answer>>
<1>1. UNCHANGED <<terms, inbox, outcome, answer>>
  BY DEF Await, PollInVain, PollTooLate, PollFails, Amend, LoseSession, RunSandbox, vars
<1>2. SandboxIdle' = SandboxIdle
  <2>1. CASE RunSandbox
    BY <2>1, RunSandboxKeeps DEF SandboxIdle
  <2>2. CASE ~ RunSandbox
    <3>1. UNCHANGED sandbox
      BY <2>2 DEF Await, PollInVain, PollTooLate, PollFails, Amend, LoseSession, vars
    <3> QED
      BY <3>1 DEF sandbox, SandboxIdle
  <2> QED
    BY <2>1, <2>2
<1>3. UNCHANGED Asked /\ taken'["executor"] = taken["executor"]
  <2>1. UNCHANGED <<sealed, taken>> \/ Open("requester")
    BY DEF Await, PollInVain, PollTooLate, PollFails, Amend, LoseSession, RunSandbox, vars,
           exchange
  <2>2. CASE Open("requester")
    BY <2>2, OpenTakes, TwoAgents DEF ExchangeInv, Asked
  <2>3. CASE UNCHANGED <<sealed, taken>>
    BY <2>3 DEF Asked
  <2> QED
    BY <2>1, <2>2, <2>3
<1> QED
  BY <1>1, <1>2, <1>3, SameStages

\* With an empty inbox, what comes next is unjudged, not handed out, and all of one
\* request.
LEMMA NextIsOpen ==
    ASSUME ExchangeInv, Idle, NEW j \in DOMAIN Asked, j > taken["executor"]
    PROVE  outcome[Asked[j].re] = NoAnswer /\ ~ Handed(Asked[j].re)
<1> DEFINE k == taken["executor"]
           r == Asked[j].re
<1>1. ExchangeTypes /\ AskedOnce /\ JudgedWereHanded
  BY DEF ExchangeInv
<1>2. /\ k \in Nat /\ Len(Asked) \in Nat /\ k <= Len(Asked) /\ Len(inbox) = 0
      /\ DOMAIN Asked = 1 .. Len(Asked) /\ r \in Requests
  BY <1>1, AllAreMessages DEF Idle
<1>3. ~ \E i \in 1 .. k : Asked[i].re = r
  <2> SUFFICES ASSUME NEW i \in 1 .. k, Asked[i].re = r PROVE FALSE
    OBVIOUS
  <2>1. i \in DOMAIN Asked
    BY <1>2
  <2>2. i = j
    BY <1>1, <2>1 DEF AskedOnce
  <2> QED
    BY <1>2, <2>2
<1> HIDE DEF k, r
<1>4. ~ Handed(r)
  BY <1>3 DEF Handed, Asked, k
<1>5. outcome[r] = NoAnswer
  <2> SUFFICES ASSUME outcome[r] # NoAnswer PROVE FALSE
    OBVIOUS
  <2>1. PICK i \in 1 .. k - Len(inbox) : Asked[i].re = r
    BY <1>1, <1>2 DEF JudgedWereHanded, k
  <2>2. i \in 1 .. k
    BY <1>2
  <2> QED
    BY <1>3, <2>1, <2>2
<1> QED
  BY <1>4, <1>5 DEF r

\* What a report hands out was waiting to be.
LEMMA ReportMaps ==
    ASSUME ExchangeInv, TakeReport \/ ReportLost
    PROVE  (\E lost \in SUBSET Requests : Call!Lose(lost))
           \/ UNCHANGED <<Stages, terms, outcome, answer>>
<1> DEFINE k == taken["executor"]
           n == Len(Report("executor"))
           passed == {r \in Requests : \E i \in 1 .. n : Asked[k + i].re = r}
<1>1. ExchangeTypes /\ AskedOnce
  BY DEF ExchangeInv
<1>2. /\ Idle /\ inbox = <<>> /\ SandboxIdle /\ Open("executor")
      /\ UNCHANGED <<terms, answer, outcome, sandbox>>
  BY IdleSandbox DEF TakeReport, ReportLost, Idle
<1>3. k' = k + n /\ UNCHANGED Asked
  BY <1>1, <1>2, OpenTakes, TwoAgents DEF Asked
<1>4. /\ Report("executor") \in Seq(Messages)
      /\ n \in Nat /\ k + n <= Len(Asked)
      /\ \A i \in 1 .. n : Report("executor")[i] = Asked[k + i]
  BY <1>1, ReportIsNext, TwoAgents DEF Asked
<1>5. /\ k \in Nat /\ Len(Asked) \in Nat /\ DOMAIN Asked = 1 .. Len(Asked)
      /\ \A i \in DOMAIN Asked : Asked[i].re \in Requests
  BY <1>1, AllAreMessages
<1>6. SandboxIdle'
  BY <1>2 DEF sandbox, SandboxIdle
<1> HIDE DEF k, n
<1>7. \A i \in 1 .. n : k + i \in DOMAIN Asked /\ k + i > k
  BY <1>4, <1>5
<1>8. \A r \in passed : /\ outcome[r] = NoAnswer /\ ~ Handed(r)
                        /\ \E i \in DOMAIN Asked : Asked[i].re = r
  BY <1>2, <1>7, NextIsOpen DEF k
<1>9. ASSUME NEW r \in Requests PROVE Handed(r)' <=> Handed(r) \/ r \in passed
  <2>1. ASSUME NEW i \in 1 .. k + n, Asked[i].re = r PROVE Handed(r) \/ r \in passed
    <3>1. CASE i \in 1 .. k
      BY <2>1, <3>1 DEF Handed, Asked, k
    <3>2. CASE i \in k + 1 .. k + n
      <4>1. i - k \in 1 .. n /\ k + (i - k) = i
        BY <1>4, <1>5, <3>2
      <4> QED
        BY <2>1, <4>1
    <3> QED
      BY <1>4, <1>5, <3>1, <3>2
  <2>2. ASSUME Handed(r) PROVE \E i \in 1 .. k + n : Asked[i].re = r
    <3>1. PICK i \in 1 .. k : Asked[i].re = r
      BY <2>2 DEF Handed, Asked, k
    <3>2. i \in 1 .. k + n
      BY <1>4, <1>5
    <3> QED
      BY <3>1, <3>2
  <2>3. ASSUME r \in passed PROVE \E i \in 1 .. k + n : Asked[i].re = r
    <3>1. PICK i \in 1 .. n : Asked[k + i].re = r
      BY <2>3
    <3>2. k + i \in 1 .. k + n
      BY <1>4, <1>5
    <3> QED
      BY <3>1, <3>2
  <2>4. Handed(r)' <=> \E i \in 1 .. k + n : Asked[i].re = r
    BY <1>3 DEF Handed, Asked, k
  <2> QED
    BY <2>1, <2>2, <2>3, <2>4
<1> HIDE DEF passed
<1>10. \A r \in Requests :
           Stage(r) = IF outcome[r] # NoAnswer THEN "judged"
                      ELSE IF Handed(r) THEN "lost"
                      ELSE IF \E i \in DOMAIN Asked : Asked[i].re = r THEN "requested"
                      ELSE "idle"
  BY <1>2 DEF Stage, Asked
<1>11. CASE inbox' = Report("executor")
  <2>1. \A r \in Requests : (\E i \in DOMAIN inbox' : inbox'[i].re = r) <=> r \in passed
    <3>1. DOMAIN Report("executor") = 1 .. n
      BY <1>4 DEF n
    <3> QED
      BY <1>4, <1>11, <3>1 DEF passed
  <2>2. ASSUME NEW r \in Requests PROVE Stage(r)' = Stage(r)
    <3>1. CASE r \in passed
      <4>1. Stage(r) = "requested"
        BY <1>8, <1>10, <3>1
      <4>2. Stage(r)' = "requested"
        BY <1>2, <1>6, <1>8, <2>1, <3>1 DEF Stage
      <4> QED
        BY <4>1, <4>2
    <3>2. CASE r \notin passed
      BY <1>2, <1>3, <1>6, <1>9, <1>10, <2>1, <3>2 DEF Stage, Asked
    <3> QED
      BY <3>1, <3>2
  <2> QED
    BY <1>2, <2>2, StagesStay
<1>12. CASE inbox' = <<>>
  <2>1. ASSUME NEW r \in Requests
        PROVE  Stage(r)' = IF r \in passed THEN "lost" ELSE Stage(r)
    <3>1. CASE r \in passed
      BY <1>2, <1>6, <1>8, <1>9, <1>12, <3>1 DEF Stage, Idle
    <3>2. CASE r \notin passed
      BY <1>2, <1>3, <1>6, <1>9, <1>10, <1>12, <3>2 DEF Stage, Asked, Idle
    <3> QED
      BY <3>1, <3>2
  <2>2. \A r \in passed : Stages[r] = "requested"
    BY <1>8, <1>10 DEF Stages, passed
  <2>3. Stages' = [r \in Requests |-> IF r \in passed THEN "lost" ELSE Stages[r]]
    BY <2>1 DEF Stages
  <2>4. passed \in SUBSET Requests
    BY DEF passed
  <2>5. Call!Lose(passed)
    BY <1>2, <2>2, <2>3 DEF Call!Lose, Stages
  <2> QED
    BY <2>4, <2>5
<1> QED
  BY <1>2, <1>11, <1>12 DEF TakeReport, ReportLost

\* Where requests stand once the front delivery is judged.
LEMMA JudgedStages ==
    ASSUME ExchangeInv, ~ Idle, NEW body \in ResultBodies \cup DenialBodies, ReplyAs(body),
           SandboxIdle'
    PROVE  /\ Head(inbox).re \in Requests
           /\ outcome' = [outcome EXCEPT ![Head(inbox).re] = body]
           /\ outcome'[Head(inbox).re] = body
           /\ Stages' = [Stages EXCEPT ![Head(inbox).re] = "judged"]
           /\ Stages[Head(inbox).re] = IF SandboxIdle THEN "requested" ELSE "running"
<1> DEFINE r == Head(inbox).re
           m == [Head(inbox) EXCEPT !.body = body]
<1>1. ExchangeTypes
  BY DEF ExchangeInv
<1>2. /\ outcome' = [outcome EXCEPT ![r] = body] /\ inbox' = Tail(inbox)
      /\ Seal("executor", m) \/ SealFails("executor", m)
  BY DEF ReplyAs
<1>3. /\ r \in Requests /\ outcome[r] = NoAnswer /\ Len(inbox) >= 1 /\ inbox[1].re = r
      /\ Tail(inbox) \in Seq(Messages) /\ Len(Tail(inbox)) = Len(inbox) - 1
      /\ \A i \in 1 .. Len(inbox) - 1 : Tail(inbox)[i] = inbox[i + 1]
      /\ Head(inbox) \in Messages
  BY InboxFront
<1>4. m \in Messages
  BY <1>3 DEF Messages, Bodies
<1>5. outcome'[r] = body /\ \A q \in Requests : q # r => outcome'[q] = outcome[q]
  BY <1>1, <1>2, <1>3 DEF ExchangeTypes
<1>6. UNCHANGED Asked /\ taken'["executor"] = taken["executor"]
  BY <1>1, <1>2, <1>4, SealAppends, TwoAgents DEF Asked
<1>7. DOMAIN inbox = 1 .. Len(inbox) /\ Len(inbox) \in Nat
  BY <1>1, AllAreMessages
<1>8. body # NoAnswer
  BY NoAnswerAssumption
<1> HIDE DEF r, m
<1>9. DOMAIN inbox' = 1 .. Len(inbox) - 1
  BY <1>2, <1>3, <1>7
<1>10. ASSUME NEW q \in Requests, q # r PROVE Stage(q)' = Stage(q)
  <2>1. (\E i \in DOMAIN inbox' : inbox'[i].re = q) <=> (\E i \in DOMAIN inbox : inbox[i].re = q)
    <3>1. ASSUME NEW i \in DOMAIN inbox', inbox'[i].re = q
          PROVE  \E j \in DOMAIN inbox : inbox[j].re = q
      <4>1. i + 1 \in DOMAIN inbox /\ inbox'[i] = inbox[i + 1]
        BY <1>2, <1>3, <1>7, <1>9
      <4> QED
        BY <3>1, <4>1
    <3>2. ASSUME NEW i \in DOMAIN inbox, inbox[i].re = q
          PROVE  \E j \in DOMAIN inbox' : inbox'[j].re = q
      <4>1. i # 1
        BY <1>3, <1>10, <3>2
      <4>2. i - 1 \in 1 .. Len(inbox) - 1 /\ (i - 1) + 1 = i
        BY <1>7, <4>1
      <4>3. inbox'[i - 1] = inbox[i]
        BY <1>2, <1>3, <4>2
      <4> QED
        BY <1>9, <3>2, <4>2, <4>3
    <3> QED
      BY <3>1, <3>2
  <2>2. Handed(q)' <=> Handed(q)
    BY <1>6 DEF Handed, Asked
  <2>3. ~ (~ Idle /\ Head(inbox).re = q)
    BY <1>10 DEF r
  <2> QED
    BY <1>5, <1>6, <1>10, <2>1, <2>2, <2>3 DEF Stage, Asked
<1>11. PICK c \in Requests : c = r
  BY <1>3
<1>12. Stages' = [Stages EXCEPT ![r] = "judged"]
  <2>1. Stage(c)' = "judged"
    BY <1>5, <1>8, <1>11 DEF Stage
  <2> QED
    BY <1>10, <1>11, <2>1, StagesMove
<1>13. Stage(r) = IF SandboxIdle THEN "requested" ELSE "running"
  BY <1>3, <1>7 DEF Stage, r
<1> QED
  BY <1>2, <1>3, <1>5, <1>12, <1>13 DEF r, Stages

LEMMA JudgeMaps ==
    ASSUME ExchangeInv, Deny \/ Reply
    PROVE  \E c \in Requests : Call!Judge(c)
<1>1. CASE Deny
  <2>1. SandboxIdle /\ SandboxIdle' /\ ~ Idle /\ UNCHANGED <<terms, answer>>
    BY <1>1, DenyKeeps DEF Deny
  <2>2. PICK body \in DenialBodies : ReplyAs(body)
    BY <1>1, DenyKeeps
  <2>3. PICK c \in Requests : c = Head(inbox).re
    BY <2>1, <2>2, JudgedStages
  <2>4. /\ outcome' = [outcome EXCEPT ![c] = body] /\ outcome'[c] = body
        /\ Stages' = [Stages EXCEPT ![c] = "judged"] /\ Stages[c] = "requested"
    BY <2>1, <2>2, <2>3, JudgedStages
  <2>5. Call!Judge(c)
    BY <2>1, <2>2, <2>4 DEF Call!Judge, Stages
  <2> QED
    BY <2>5
<1>2. CASE Reply
  <2>1. ~ SandboxIdle /\ SandboxIdle' /\ ~ Idle /\ UNCHANGED <<terms, answer>>
    BY <1>2, ReplyKeeps DEF Reply
  <2>2. PICK body \in ResultBodies : ReplyAs(body)
    BY <1>2, ReplyKeeps
  <2>3. PICK c \in Requests : c = Head(inbox).re
    BY <2>1, <2>2, JudgedStages
  <2>4. /\ outcome' = [outcome EXCEPT ![c] = body] /\ outcome'[c] = body
        /\ Stages' = [Stages EXCEPT ![c] = "judged"] /\ Stages[c] = "running"
    BY <2>1, <2>2, <2>3, JudgedStages
  <2>5. Call!Judge(c)
    BY <2>1, <2>2, <2>4 DEF Call!Judge, Stages
  <2> QED
    BY <2>5
<1> QED
  BY <1>1, <1>2

LEMMA ExecuteMaps ==
    ASSUME ExchangeInv, Execute
    PROVE  \E c \in Requests : Call!Run(c)
<1>1. /\ ~ Idle /\ SandboxIdle /\ ~ SandboxIdle' /\ terms[Head(inbox).re] \in Allowable
      /\ UNCHANGED <<exchange, terms, answer, inbox, outcome>>
  BY ExecuteKeeps DEF Execute
<1>2. /\ Head(inbox).re \in Requests /\ outcome[Head(inbox).re] = NoAnswer
      /\ Len(inbox) >= 1 /\ Head(inbox) = inbox[1]
  BY <1>1, InboxFront
<1>3. PICK c \in Requests : c = Head(inbox).re
  BY <1>2
<1>4. UNCHANGED <<Asked, taken>>
  BY <1>1 DEF exchange, Asked
<1>5. \A q \in Requests : q # c => Stage(q)' = Stage(q)
  BY <1>1, <1>3, <1>4 DEF Stage, Handed, Asked, Idle
<1>6. Stage(c)' = "running"
  BY <1>1, <1>2, <1>3 DEF Stage, Idle
<1>7. Stage(c) = "requested"
  <2>1. 1 \in DOMAIN inbox
    BY <1>2, AllAreMessages DEF ExchangeInv
  <2> QED
    BY <1>1, <1>2, <1>3, <2>1 DEF Stage
<1>8. Stages' = [Stages EXCEPT ![c] = "running"]
  BY <1>5, <1>6, StagesMove
<1>9. \A q \in Requests : Stages[q] # "running"
  BY <1>1 DEF Stages, Stage
<1>10. Stages[c] = "requested"
  BY <1>7 DEF Stages
<1>11. Call!Run(c)
  BY <1>1, <1>3, <1>8, <1>9, <1>10 DEF Call!Run, Stages
<1> QED
  BY <1>11

\* A restart of the service loses what it had been handed and has not judged.
LEMMA RestartMaps ==
    ASSUME ExchangeInv, RestartService
    PROVE  \E lost \in SUBSET Requests : Call!Lose(lost)
<1> DEFINE lost == {r \in Requests : \E i \in DOMAIN inbox : inbox[i].re = r}
<1>1. /\ inbox' = <<>> /\ SandboxIdle' /\ ~ Idle
      /\ UNCHANGED <<exchange, terms, answer, outcome>>
  BY RestartKeeps DEF RestartService
<1>2. UNCHANGED <<Asked, taken>>
  BY <1>1 DEF exchange, Asked
<1>3. DOMAIN inbox = 1 .. Len(inbox) /\ Len(inbox) \in Nat /\ Head(inbox) = inbox[1]
      /\ Len(inbox) >= 1
  BY <1>1, AllAreMessages, InboxFront DEF ExchangeInv
<1>4. \A r \in lost : outcome[r] = NoAnswer /\ Handed(r)
  BY <1>3, InboxIsOpen
<1>5. \A r \in lost : Stage(r) \in {"requested", "running"}
  BY <1>4 DEF Stage
<1>6. \A r \in Requests : Handed(r)' <=> Handed(r)
  BY <1>2 DEF Handed, Asked
<1>7. ASSUME NEW r \in Requests
      PROVE  Stage(r)' = IF r \in lost THEN "lost" ELSE Stage(r)
  <2>1. CASE r \in lost
    BY <1>1, <1>4, <1>6, <2>1 DEF Stage, Idle
  <2>2. CASE r \notin lost
    <3>1. ~ (\E i \in DOMAIN inbox : inbox[i].re = r) /\ Head(inbox).re # r
      BY <1>3, <2>2
    <3> QED
      BY <1>1, <1>2, <1>6, <2>2, <3>1 DEF Stage, Asked, Idle
  <2> QED
    BY <2>1, <2>2
<1>8. lost \in SUBSET Requests
  OBVIOUS
<1> HIDE DEF lost
<1>9. \A r \in lost : Stages[r] \in {"requested", "running"}
  BY <1>5, <1>8 DEF Stages
<1>10. Stages' = [r \in Requests |-> IF r \in lost THEN "lost" ELSE Stages[r]]
  BY <1>7 DEF Stages
<1>11. Call!Lose(lost)
  BY <1>1, <1>9, <1>10 DEF Call!Lose, Stages
<1> QED
  BY <1>8, <1>11

LEMMA ExchangeMaps ==
    ASSUME ExchangeInv, [Next]_vars
    PROVE  [Call!Next]_(Call!vars)
<1>1. ASSUME UNCHANGED <<Stages, terms, outcome, answer>> PROVE UNCHANGED Call!vars
  BY <1>1 DEF Call!vars, Stages
<1>2. CASE \E r \in Requests : \E t \in Terms : Send(r, t)
  BY <1>1, <1>2, SendMaps DEF Call!Next
<1>3. CASE \E r \in Requests : TakeReply(r)
  BY <1>1, <1>3, TakeReplyMaps DEF Call!Next
<1>4. CASE TakeReport \/ ReportLost
  BY <1>1, <1>4, ReportMaps DEF Call!Next
<1>5. CASE Deny \/ Reply
  BY <1>5, JudgeMaps DEF Call!Next
<1>6. CASE Execute
  BY <1>6, ExecuteMaps DEF Call!Next
<1>7. CASE RestartService
  BY <1>7, RestartMaps DEF Call!Next
<1>8. CASE \/ \E r \in Requests : Await(r) \/ PollInVain(r) \/ PollTooLate(r) \/ PollFails(r)
           \/ Amend \/ \E g \in Agents : LoseSession(g)
           \/ RunSandbox \/ UNCHANGED vars
  BY <1>1, <1>8, UnseenSteps
<1> QED
  BY <1>2, <1>3, <1>4, <1>5, <1>6, <1>7, <1>8 DEF Next

\* A request is carried out at most once, one at a time, under a contract and within
\* the policy, and what is returned for it is the verdict on it
\* (ExecutionService::handle, authorize, await_result).
THEOREM AtMostOnce == Spec => ImplementsAtMostOnceCall
<1>1. Init => Call!Init
  <2> SUFFICES ASSUME Init PROVE Call!Init
    OBVIOUS
  <2>1. ExchangeInv
    BY ExchangeInitial
  <2>2. /\ \A r \in Requests : calls[r] = "idle"
        /\ answer = [r \in Requests |-> NoAnswer] /\ outcome = [r \in Requests |-> NoAnswer]
    BY DEF Init
  <2>3. \A r \in Requests : Stage(r) = "idle"
    BY <2>1, <2>2, IdleRequest
  <2>4. terms \in [Requests -> Terms]
    BY <2>1 DEF ExchangeInv, ExchangeTypes
  <2> QED
    BY <2>2, <2>3, <2>4 DEF Call!Init
<1>2. ExchangeInv /\ [Next]_vars => [Call!Next]_(Call!vars)
  BY ExchangeMaps
<1> QED
  BY <1>1, <1>2, ExchangeInvariant, PTL DEF Spec, ImplementsAtMostOnceCall, Call!Spec

--------------------------------------------------------------------------------
(***************************************************************************)
(* The two directions of the session.  What SecureTransport is shown to    *)
(* implement for packets in any order, the exchange keeps when the         *)
(* contract view holds deliveries back, when a superseded contract closes  *)
(* one end, and when reports are lost after they were spent.               *)
(***************************************************************************)

\* The direction towards agent g.
Channel(g) == INSTANCE OrderedDelivery WITH
    Message <- Messages,
    sent <- sealed[Other(g)], got <- SubSeq(sealed[Other(g)], 1, taken[g]),
    sender_open <- open[Other(g)], receiver_open <- open[g]

\* To its channels, every step of the exchange is an attempt to seal, an open, or an end
\* closing.
LEMMA GuardianSteps ==
    ASSUME ExchangeInv, [Next]_vars
    PROVE  \/ \E h \in Agents : \E m \in Messages : Seal(h, m) \/ SealFails(h, m)
           \/ \E h \in Agents : Open(h)
           \/ \E h \in Agents : /\ open' = [open EXCEPT ![h] = FALSE]
                                /\ UNCHANGED <<sealed, taken>>
           \/ UNCHANGED <<open, sealed, taken>>
<1>1. CASE \E r \in Requests : \E t \in Terms : Send(r, t)
  <2>1. PICK r \in Requests, t \in Terms : Send(r, t)
    BY <1>1
  <2> DEFINE m == [re |-> r, contract |-> t.contract, body |-> t.payload]
  <2>2. m \in Messages
    BY DEF Messages, Bodies
  <2>3. Seal("requester", m) \/ SealFails("requester", m)
    BY <2>1 DEF Send
  <2> QED
    BY <2>2, <2>3, TwoAgents
<1>2. CASE \E r \in Requests : TakeReply(r) \/ PollInVain(r) \/ PollTooLate(r) \/ PollFails(r)
  <2>1. Open("requester") \/ UNCHANGED exchange
    BY <1>2 DEF TakeReply, PollInVain, PollTooLate, PollFails
  <2> QED
    BY <2>1, TwoAgents DEF exchange
<1>3. CASE TakeReport \/ ReportLost
  BY <1>3, TwoAgents DEF TakeReport, ReportLost
<1>4. CASE Deny \/ Reply
  <2>1. PICK body \in DenialBodies \cup ResultBodies : ReplyAs(body)
    BY <1>4, DenyKeeps, ReplyKeeps
  <2>2. ~ Idle
    BY <1>4, ReplyKeeps DEF Deny
  <2>3. ExchangeTypes
    BY DEF ExchangeInv
  <2>4. Head(inbox) \in Messages
    BY <2>2, <2>3 DEF ExchangeTypes, Idle
  <2> DEFINE m == [Head(inbox) EXCEPT !.body = body]
  <2>5. m \in Messages
    BY <2>4 DEF Messages, Bodies
  <2>6. Seal("executor", m) \/ SealFails("executor", m)
    BY <2>1 DEF ReplyAs
  <2> QED
    BY <2>5, <2>6, TwoAgents
<1>5. CASE \E g \in Agents : LoseSession(g)
  BY <1>5 DEF LoseSession
<1>6. CASE \/ \E r \in Requests : Await(r)
           \/ Execute \/ RunSandbox \/ RestartService \/ Amend \/ UNCHANGED vars
  BY <1>6 DEF Await, Execute, RunSandbox, RestartService, Amend, exchange, vars
<1> QED
  BY <1>1, <1>2, <1>3, <1>4, <1>5, <1>6 DEF Next

\* What was handed out stays what it was when more is sealed.
LEMMA PrefixStays ==
    ASSUME NEW s \in Seq(Messages), NEW m \in Messages, NEW n \in 0 .. Len(s)
    PROVE  SubSeq(Append(s, m), 1, n) = SubSeq(s, 1, n)
<1>1. Append(s, m) \in Seq(Messages) /\ Len(Append(s, m)) = Len(s) + 1
      /\ \A i \in 1 .. Len(s) : Append(s, m)[i] = s[i]
  OBVIOUS
<1>2. /\ SubSeq(s, 1, n) \in Seq(Messages) /\ Len(SubSeq(s, 1, n)) = n
      /\ \A i \in 1 .. n : SubSeq(s, 1, n)[i] = s[i]
  BY SubSeqProperties
<1>3. /\ SubSeq(Append(s, m), 1, n) \in Seq(Messages) /\ Len(SubSeq(Append(s, m), 1, n)) = n
      /\ \A i \in 1 .. n : SubSeq(Append(s, m), 1, n)[i] = Append(s, m)[i]
  BY <1>1, SubSeqProperties
<1>4. \A i \in 1 .. n : SubSeq(Append(s, m), 1, n)[i] = SubSeq(s, 1, n)[i]
  BY <1>1, <1>2, <1>3
<1> QED
  BY <1>2, <1>3, <1>4, SeqEqual

\* Sealing extends the direction away from the sealer, or closes its end of both.
LEMMA SealOnChannel ==
    ASSUME ExchangeTypes, NEW h \in Agents, NEW m \in Messages, Seal(h, m) \/ SealFails(h, m),
           NEW g \in Agents
    PROVE  [Channel(g)!Next]_(Channel(g)!vars)
<1> DEFINE s == sealed[Other(g)]
           k == taken[g]
<1>1. /\ open' \in [Agents -> BOOLEAN] /\ UNCHANGED taken
      /\ \A a \in Agents : a # h => sealed'[a] = sealed[a] /\ open'[a] = open[a]
      /\ open'[h] = open[h] \/ open'[h] = FALSE
      /\ \/ sealed' = sealed
         \/ sealed'[h] = Append(sealed[h], m) /\ open[h] /\ open'[h] = open[h]
  BY SealAppends
<1>4. s \in Seq(Messages) /\ k \in 0 .. Len(s)
  BY TakenWasSealed
<1>5. CASE g = h
  <2>1. sealed'[Other(g)] = s /\ open'[Other(g)] = open[Other(g)] /\ taken'[g] = k
    BY <1>1, <1>5, TwoAgents
  <2>2. CASE open'[g] = open[g]
    BY <2>1, <2>2 DEF Channel!vars
  <2>3. CASE open'[g] = FALSE
    BY <2>1, <2>3 DEF Channel!Next, Channel!CloseReceiver
  <2> QED
    BY <1>1, <1>5, <2>2, <2>3
<1>6. CASE g # h
  <2>1. Other(g) = h
    BY <1>6 DEF Agents, Other
  <2>2. open'[g] = open[g] /\ taken'[g] = k
    BY <1>1, <1>6
  <2>3. CASE sealed' # sealed
    <3>1. sealed'[Other(g)] = Append(s, m) /\ open[Other(g)] /\ open'[Other(g)] \in BOOLEAN
      BY <1>1, <2>1, <2>3
    <3>2. SubSeq(sealed'[Other(g)], 1, taken'[g]) = SubSeq(s, 1, k)
      BY <1>4, <2>2, <3>1, PrefixStays
    <3>3. Channel(g)!Send(m)
      BY <2>2, <3>1, <3>2 DEF Channel!Send
    <3> QED
      BY <3>3 DEF Channel!Next
  <2>4. CASE sealed' = sealed
    <3>1. sealed'[Other(g)] = s
      BY <2>4
    <3>2. CASE open'[h] = open[h]
      BY <2>1, <2>2, <3>1, <3>2 DEF Channel!vars
    <3>3. CASE open'[h] = FALSE
      BY <2>1, <2>2, <3>1, <3>3 DEF Channel!Next, Channel!CloseSender
    <3> QED
      BY <1>1, <3>2, <3>3
  <2> QED
    BY <2>3, <2>4
<1> QED
  BY <1>5, <1>6

\* An open hands out what comes next, or closes its end and hands out nothing.
LEMMA OpenOnChannel ==
    ASSUME ExchangeTypes, NEW h \in Agents, Open(h), NEW g \in Agents
    PROVE  [Channel(g)!Next]_(Channel(g)!vars)
<1> DEFINE s == sealed[Other(g)]
           k == taken[g]
<1>1. /\ taken' \in [Agents -> Nat] /\ UNCHANGED sealed
      /\ taken'[h] = taken[h] + Len(Report(h))
      /\ \A a \in Agents : a # h => taken'[a] = taken[a]
  BY OpenTakes
<1>2. /\ open \in [Agents -> BOOLEAN]
      /\ open' = [open EXCEPT ![h] = @ /\ ~ Contradicted(h)]
  BY DEF ExchangeTypes, Open
<1>3. /\ \A a \in Agents : a # h => open'[a] = open[a]
      /\ Contradicted(h) => open'[h] = FALSE
      /\ ~ Contradicted(h) => open'[h] = open[h]
  BY <1>2
<1>4. CASE g = h
  <2>1. sealed'[Other(g)] = s /\ open'[Other(g)] = open[Other(g)]
    BY <1>1, <1>3, <1>4, TwoAgents
  <2>2. CASE Contradicted(g) \/ ~ open[g]
    <3>1. Report(g) = <<>> /\ open'[g] = FALSE
      BY <1>2, <1>3, <1>4, <2>2 DEF Report
    <3>2. taken'[g] = k
      BY <1>1, <1>4, <3>1 DEF ExchangeTypes
    <3>3. Channel(g)!CloseReceiver
      BY <2>1, <3>1, <3>2 DEF Channel!CloseReceiver
    <3> QED
      BY <3>3 DEF Channel!Next
  <2>3. CASE ~ Contradicted(g) /\ open[g]
    <3>1. open'[g] = open[g]
      BY <1>3, <1>4, <2>3
    <3>2. /\ Len(Report(g)) \in Nat /\ k + Len(Report(g)) <= Len(s)
          /\ s \in Seq(Messages) /\ k \in 0 .. Len(s)
      <4>1. Len(Report(g)) \in Nat /\ k + Len(Report(g)) <= Len(s)
        BY ReportIsNext
      <4>2. s \in Seq(Messages) /\ k \in 0 .. Len(s)
        BY TakenWasSealed
      <4> QED
        BY <4>1, <4>2
    <3>3. Len(SubSeq(s, 1, k)) = k
      BY <3>2
    <3>4. taken'[g] \in Len(SubSeq(s, 1, k)) .. Len(s)
      BY <1>1, <1>4, <3>2, <3>3
    <3>5. Channel(g)!Deliver(taken'[g])
      BY <2>1, <2>3, <3>1, <3>4 DEF Channel!Deliver
    <3> QED
      BY <3>4, <3>5 DEF Channel!Next
  <2> QED
    BY <2>2, <2>3
<1>5. CASE g # h
  <2>1. Other(g) = h
    BY <1>5 DEF Agents, Other
  <2>2. sealed'[Other(g)] = s /\ taken'[g] = k /\ open'[g] = open[g]
    BY <1>1, <1>3, <1>5
  <2>3. CASE ~ Contradicted(h)
    BY <1>3, <2>1, <2>2, <2>3 DEF Channel!vars
  <2>4. CASE Contradicted(h)
    BY <1>3, <2>1, <2>2, <2>4 DEF Channel!Next, Channel!CloseSender
  <2> QED
    BY <2>3, <2>4
<1> QED
  BY <1>4, <1>5

LEMMA LossOnChannel ==
    ASSUME ExchangeTypes, NEW h \in Agents, NEW g \in Agents,
           open' = [open EXCEPT ![h] = FALSE], UNCHANGED <<sealed, taken>>
    PROVE  [Channel(g)!Next]_(Channel(g)!vars)
<1>1. open'[h] = FALSE /\ \A a \in Agents : a # h => open'[a] = open[a]
  BY DEF ExchangeTypes
<1>2. CASE g = h
  BY <1>1, <1>2, TwoAgents DEF Channel!Next, Channel!CloseReceiver
<1>3. CASE g # h
  <2>1. Other(g) = h
    BY <1>3 DEF Agents, Other
  <2> QED
    BY <1>1, <1>3, <2>1 DEF Channel!Next, Channel!CloseSender
<1> QED
  BY <1>2, <1>3

\* Each direction of the exchange is the channel of SecureTransport: what an agent's
\* guardian reports, lost reports included, is a prefix of what the other sealed, in
\* order and without repetition, and a closed end neither seals nor reports again
\* (GuardianService's open and seal under enforce_contract_view).
THEOREM ExchangeChannels == \A g \in Agents : Spec => Channel(g)!Spec
<1> SUFFICES ASSUME NEW g \in Agents PROVE Spec => Channel(g)!Spec
  OBVIOUS
<1>1. Init => Channel(g)!Init
  <2> SUFFICES ASSUME Init PROVE Channel(g)!Init
    OBVIOUS
  <2>1. /\ open[g] = TRUE /\ open[Other(g)] = TRUE
        /\ sealed[Other(g)] = <<>> /\ taken[g] = 0
    BY TwoAgents DEF Init
  <2>2. SubSeq(sealed[Other(g)], 1, taken[g]) = <<>>
    BY <2>1
  <2> QED
    BY <2>1, <2>2 DEF Channel!Init
<1>2. ExchangeInv /\ [Next]_vars => [Channel(g)!Next]_(Channel(g)!vars)
  <2> SUFFICES ASSUME ExchangeInv, [Next]_vars
               PROVE  [Channel(g)!Next]_(Channel(g)!vars)
    OBVIOUS
  <2>1. ExchangeTypes
    BY DEF ExchangeInv
  <2>2. CASE \E h \in Agents : \E m \in Messages : Seal(h, m) \/ SealFails(h, m)
    BY <2>1, <2>2, SealOnChannel
  <2>3. CASE \E h \in Agents : Open(h)
    BY <2>1, <2>3, OpenOnChannel
  <2>4. CASE \E h \in Agents : open' = [open EXCEPT ![h] = FALSE] /\ UNCHANGED <<sealed, taken>>
    BY <2>1, <2>4, LossOnChannel
  <2>5. CASE UNCHANGED <<open, sealed, taken>>
    BY <2>5 DEF Channel!vars
  <2> QED
    BY <2>2, <2>3, <2>4, <2>5, GuardianSteps
<1> QED
  BY <1>1, <1>2, ExchangeInvariant, PTL DEF Spec, Channel!Spec

--------------------------------------------------------------------------------
(***************************************************************************)
(* What RequestIsAnswered rests on besides fairness: what has become of    *)
(* each request the service is done with.                                  *)
(***************************************************************************)

\* What the service is not done with has no verdict.
LEMMA RestIsOpen ==
    ASSUME ExchangeInv, NEW i \in 1 .. Len(Asked), i > Worked
    PROVE  outcome[Asked[i].re] = NoAnswer
<1>1. ExchangeTypes /\ AskedOnce /\ JudgedWereHanded /\ InboxIsNext
  BY DEF ExchangeInv
<1>2. /\ taken["executor"] \in Nat /\ taken["executor"] <= Len(Asked) /\ Len(Asked) \in Nat
      /\ DOMAIN Asked = 1 .. Len(Asked) /\ Asked[i].re \in Requests /\ Len(inbox) \in Nat
  BY <1>1, AllAreMessages
<1> SUFFICES ASSUME outcome[Asked[i].re] # NoAnswer PROVE FALSE
  OBVIOUS
<1>3. PICK j \in 1 .. Worked : Asked[j].re = Asked[i].re
  BY <1>1, <1>2 DEF JudgedWereHanded, Worked
<1>4. j \in DOMAIN Asked /\ i \in DOMAIN Asked /\ j < i
  BY <1>2, <1>3 DEF Worked
<1> QED
  BY <1>1, <1>3, <1>4 DEF AskedOnce

LEMMA WorkedIsCounted ==
    ASSUME ExchangeInv
    PROVE  /\ Worked \in Nat /\ Worked <= taken["executor"] /\ taken["executor"] <= Len(Asked)
           /\ taken["executor"] \in Nat /\ Len(inbox) \in Nat /\ Len(Asked) \in Nat
           /\ Len(Answers) \in Nat /\ DOMAIN Asked = 1 .. Len(Asked)
<1>1. /\ taken["executor"] \in Nat /\ taken["executor"] <= Len(Asked) /\ Len(Asked) \in Nat
      /\ Len(inbox) \in Nat /\ Len(Answers) \in Nat /\ DOMAIN Asked = 1 .. Len(Asked)
  BY AllAreMessages DEF ExchangeInv
<1>2. Len(inbox) <= taken["executor"]
  BY DEF ExchangeInv, InboxIsNext
<1>3. Worked \in Nat /\ Worked <= taken["executor"]
  BY <1>1, <1>2 DEF Worked
<1> QED
  BY <1>1, <1>3

\* Each reply is to one request.
LEMMA RepliesToOne ==
    ASSUME AskedOnce, NEW reply, NEW i \in DOMAIN Asked, NEW k \in DOMAIN Asked,
           Replies(reply, Asked[i]), Replies(reply, Asked[k])
    PROVE  i = k
  BY DEF AskedOnce, Replies

\* While nothing is judged, what is asked, reported or lost adds no reply; only a fault
\* makes the service be done with a request it has not judged.
LEMMA KeepUpBeside ==
    ASSUME ExchangeInv, RepliesKeepUp, UNCHANGED <<Answers, outcome, unreplied>>,
           \A i \in 1 .. Len(Asked) : Asked'[i] = Asked[i],
           Worked' \in Nat, Worked <= Worked', Worked' <= Len(Asked),
           Worked' = Worked \/ faults' # 0,
           faults # 0 => faults' # 0, open'["executor"] => open["executor"]
    PROVE  RepliesKeepUp'
<1>1. /\ Worked \in Nat /\ Len(Asked) \in Nat /\ Len(Answers) \in Nat
      /\ DOMAIN Asked = 1 .. Len(Asked)
  BY WorkedIsCounted
<1>2. EachIsSettled /\ RepliesFollow /\ NotedWithReason /\ AskedOnce
  BY DEF RepliesKeepUp, ExchangeInv
<1> DEFINE w == Worked
           v == Worked'
<1>3. v \in Nat /\ w <= v /\ v <= Len(Asked) /\ w \in Nat
  BY <1>1
<1>4. \A i \in 1 .. v : i \in DOMAIN Asked /\ Asked'[i] = Asked[i]
  BY <1>1, <1>3
<1>5. \A i \in 1 .. w : i \in 1 .. v
  BY <1>3
<1>7. ASSUME NEW i \in 1 .. v
      PROVE  \/ \E j \in 1 .. Len(Answers) : Replies(Answers[j], Asked[i])
             \/ Asked[i].re \in unreplied
             \/ outcome[Asked[i].re] = NoAnswer /\ faults' # 0
  <2>1. CASE i \in 1 .. w
    BY <1>2, <2>1 DEF EachIsSettled
  <2>2. CASE i \notin 1 .. w
    <3>1. i > w /\ v # w /\ i \in 1 .. Len(Asked)
      BY <1>1, <1>3, <2>2
    <3>2. outcome[Asked[i].re] = NoAnswer
      BY <3>1, RestIsOpen
    <3> QED
      BY <3>1, <3>2
  <2> QED
    BY <2>1, <2>2
<1> HIDE DEF w
<1>8. EachIsSettled'
  BY <1>4, <1>7 DEF EachIsSettled
<1>9. \A j \in 1 .. Len(Answers) : \E i \in 1 .. w : Replies(Answers[j], Asked[i])
  BY <1>2 DEF RepliesFollow, w
<1>10. ASSUME NEW j \in 1 .. Len(Answers), NEW i \in 1 .. v, Replies(Answers[j], Asked[i])
       PROVE  i \in 1 .. w
  <2>1. PICK k \in 1 .. w : Replies(Answers[j], Asked[k])
    BY <1>9
  <2>2. k \in DOMAIN Asked /\ i \in DOMAIN Asked
    BY <1>4, <1>5
  <2>3. i = k
    BY <1>2, <1>10, <2>1, <2>2, RepliesToOne
  <2> QED
    BY <2>3
<1>11. ASSUME NEW j \in 1 .. Len(Answers), NEW l \in 1 .. Len(Answers),
              NEW i \in 1 .. v, NEW k \in 1 .. v,
              j < l, Replies(Answers[j], Asked[i]), Replies(Answers[l], Asked[k])
       PROVE  i < k
  <2>1. i \in 1 .. w /\ k \in 1 .. w
    BY <1>10, <1>11
  <2> QED
    BY <1>2, <1>11, <2>1 DEF RepliesFollow, w
<1>12. RepliesFollow'
  BY <1>4, <1>5, <1>9, <1>11 DEF RepliesFollow
<1>13. NotedWithReason'
  BY <1>2 DEF NotedWithReason
<1> QED
  BY <1>8, <1>12, <1>13 DEF RepliesKeepUp

\* A verdict is sealed as the next reply, or the Outcome notes that it was not sent.
LEMMA KeepUpOnReply ==
    ASSUME ExchangeInv, RepliesKeepUp, ~ Idle,
           NEW body \in ResultBodies \cup DenialBodies, ReplyAs(body)
    PROVE  RepliesKeepUp'
<1> DEFINE m == [Head(inbox) EXCEPT !.body = body]
           r == Head(inbox).re
           w == Worked
           n == Len(Answers)
<1>1. /\ ExchangeTypes /\ AskedOnce
      /\ EachIsSettled /\ RepliesFollow /\ NotedWithReason
  BY DEF ExchangeInv, RepliesKeepUp
<1>2. /\ inbox' = Tail(inbox) /\ outcome' = [outcome EXCEPT ![r] = body]
      /\ Seal("executor", m) \/ SealFails("executor", m)
      /\ faults' = faults \/ Fault
  BY DEF ReplyAs, SealFails
<1>3. \/ /\ Sealable("executor", m.contract) /\ Seal("executor", m)
         /\ UNCHANGED <<unreplied, faults>>
      \/ /\ ~ Sealable("executor", m.contract) /\ Seal("executor", m)
         /\ unreplied' = unreplied \cup {r}
      \/ Fault /\ unreplied' = unreplied \cup {r}
  BY DEF ReplyAs, SealFails
<1>4. /\ Len(inbox) >= 1 /\ Head(inbox) \in Messages /\ r \in Requests
      /\ Head(inbox) = Asked[w + 1] /\ w + 1 \in DOMAIN Asked
      /\ Len(inbox') = Len(inbox) - 1
  BY <1>1, <1>2, InboxFront, AllAreMessages DEF Worked
<1>5. m \in Messages /\ m.re = r /\ m.contract = Head(inbox).contract
  BY <1>4 DEF Messages, Bodies
<1> HIDE DEF m
<1>6. /\ UNCHANGED taken /\ Asked' = Asked
      /\ Answers' = Answers \/ Answers' = Append(Answers, m)
      /\ open'["executor"] => open["executor"]
  BY <1>1, <1>2, <1>5, SealAppends, TwoAgents DEF Asked, Answers
<1>7. /\ w \in Nat /\ n \in Nat /\ Len(inbox) \in Nat /\ taken["executor"] \in Nat
      /\ DOMAIN Asked = 1 .. Len(Asked)
  BY WorkedIsCounted
<1>8. Worked' = w + 1
  <2>1. taken'["executor"] = taken["executor"]
    BY <1>6
  <2> QED
    BY <1>4, <1>7, <2>1 DEF Worked
<1>9. Answers \in Seq(Messages)
  BY <1>1, AllAreMessages
<1>10. /\ Len(Answers') \in Nat /\ n <= Len(Answers')
       /\ \A j \in 1 .. n : Answers'[j] = Answers[j]
       /\ \A j \in 1 .. Len(Answers') : j \in 1 .. n \/ (j = n + 1 /\ Answers'[j] = m)
  BY <1>5, <1>6, <1>7, <1>9, AppendProperties
<1>11. \A i \in 1 .. w : i \in DOMAIN Asked /\ Asked[i].re # r
  <2> SUFFICES ASSUME NEW i \in 1 .. w PROVE i \in DOMAIN Asked /\ Asked[i].re # r
    OBVIOUS
  <2>1. i \in DOMAIN Asked /\ i # w + 1
    BY <1>4, <1>7
  <2> QED
    BY <1>1, <1>4, <2>1 DEF AskedOnce
<1>12. \A i \in 1 .. w : ~ Replies(m, Asked[i])
  BY <1>5, <1>11 DEF Replies
<1>13. Replies(m, Asked[w + 1])
  BY <1>4, <1>5 DEF Replies
<1>14. \A j \in 1 .. n : ~ Replies(Answers[j], Asked[w + 1])
  <2> SUFFICES ASSUME NEW j \in 1 .. n, Replies(Answers[j], Asked[w + 1]) PROVE FALSE
    OBVIOUS
  <2>1. PICK i \in 1 .. w : Replies(Answers[j], Asked[i])
    BY <1>1 DEF RepliesFollow
  <2>2. Asked[i].re = r
    BY <1>4, <2>1 DEF Replies
  <2> QED
    BY <1>11, <2>2
<1>15. EachIsSettled'
  <2> SUFFICES ASSUME NEW i \in 1 .. w + 1
               PROVE  \/ \E j \in 1 .. Len(Answers') : Replies(Answers'[j], Asked[i])
                      \/ Asked[i].re \in unreplied'
                      \/ outcome'[Asked[i].re] = NoAnswer /\ faults' # 0
    BY <1>6, <1>8 DEF EachIsSettled
  <2>1. CASE i \in 1 .. w
    <3>1. \/ \E j \in 1 .. n : Replies(Answers[j], Asked[i])
          \/ Asked[i].re \in unreplied
          \/ outcome[Asked[i].re] = NoAnswer /\ faults # 0
      BY <1>1, <2>1 DEF EachIsSettled
    <3>2. unreplied \subseteq unreplied'
      BY <1>3
    <3>3. \A j \in 1 .. n : j \in 1 .. Len(Answers')
      BY <1>7, <1>10
    <3>4. Asked[i].re \in Requests /\ Asked[i].re # r
      BY <1>1, <1>7, <1>11, <2>1, AllAreMessages
    <3>5. outcome'[Asked[i].re] = outcome[Asked[i].re]
      BY <1>1, <1>2, <3>4 DEF ExchangeTypes
    <3>6. faults # 0 => faults' # 0
      BY <1>1, <1>2, ExchangeAssumption DEF Fault, ExchangeTypes
    <3> QED
      BY <1>10, <3>1, <3>2, <3>3, <3>5, <3>6
  <2>2. CASE i \notin 1 .. w
    <3>1. i = w + 1 /\ Asked[i] = Head(inbox)
      BY <1>4, <1>7, <2>2
    <3>2. CASE r \in unreplied'
      BY <3>1, <3>2
    <3>3. CASE Sealable("executor", m.contract) /\ Seal("executor", m)
      <4>1. Answers' = Append(Answers, m)
        BY <1>1, <3>3, TwoAgents DEF Seal, Sealed, Answers, ExchangeTypes
      <4>2. n + 1 \in 1 .. Len(Answers') /\ Answers'[n + 1] = m
        BY <1>5, <1>7, <1>9, <4>1, AppendProperties
      <4>3. Replies(Answers'[n + 1], Asked[i])
        BY <1>13, <3>1, <4>2
      <4> QED
        BY <4>2, <4>3
    <3> QED
      BY <1>3, <3>2, <3>3
  <2> QED
    BY <2>1, <2>2
<1>16. RepliesFollow'
  <2>1. ASSUME NEW j \in 1 .. Len(Answers')
        PROVE  \E i \in 1 .. w + 1 : Replies(Answers'[j], Asked[i])
    <3>1. CASE j \in 1 .. n
      <4>1. PICK i \in 1 .. w : Replies(Answers[j], Asked[i])
        BY <1>1, <3>1 DEF RepliesFollow
      <4>2. i \in 1 .. w + 1
        BY <1>7
      <4> QED
        BY <1>10, <3>1, <4>1, <4>2
    <3>2. CASE j \notin 1 .. n
      <4>1. Answers'[j] = m
        BY <1>10, <3>2
      <4>2. w + 1 \in 1 .. w + 1
        BY <1>7
      <4> QED
        BY <1>13, <4>1, <4>2
    <3> QED
      BY <3>1, <3>2
  <2>2. ASSUME NEW j \in 1 .. Len(Answers'), NEW l \in 1 .. Len(Answers'),
               NEW i \in 1 .. w + 1, NEW k \in 1 .. w + 1,
               j < l, Replies(Answers'[j], Asked[i]), Replies(Answers'[l], Asked[k])
        PROVE  i < k
    <3>1. j \in 1 .. n
      BY <1>7, <1>10, <2>2
    <3>2. i # w + 1
      BY <1>10, <1>14, <2>2, <3>1
    <3>3. i \in 1 .. w
      BY <1>7, <3>2
    <3>4. CASE k = w + 1
      BY <1>7, <3>3, <3>4
    <3>5. CASE k \in 1 .. w
      <4>1. l \in 1 .. n
        BY <1>10, <1>12, <2>2, <3>5
      <4> QED
        BY <1>1, <1>10, <2>2, <3>1, <3>3, <3>5, <4>1 DEF RepliesFollow
    <3> QED
      BY <1>7, <3>4, <3>5
  <2> QED
    BY <1>6, <1>8, <2>1, <2>2 DEF RepliesFollow
<1>17. NotedWithReason'
  <2>1. faults # 0 \/ Fault => faults' # 0
    BY <1>1, <1>2, ExchangeAssumption DEF Fault, ExchangeTypes
  <2>2. ~ Sealable("executor", m.contract) /\ Seal("executor", m) => ~ open'["executor"]
    BY <1>1, TwoAgents DEF Seal, Sealable, ExchangeTypes
  <2> QED
    BY <1>1, <1>3, <1>6, <2>1, <2>2 DEF NotedWithReason
<1> QED
  BY <1>15, <1>16, <1>17 DEF RepliesKeepUp

\* A request the executor took is still in its inbox, or its reply is sealed under its
\* contract and in its turn, or its Outcome says that the reply was not sent, or it was
\* lost by a fault before it was judged; a reply goes unsent only by a failed call or
\* with the session gone (ExecutionService::step and handle).
THEOREM RepliesInOrder == Spec => []RepliesKeepUp
<1>1. Init => RepliesKeepUp
  <2> SUFFICES ASSUME Init PROVE RepliesKeepUp
    OBVIOUS
  <2>1. inbox = <<>> /\ Answers = <<>> /\ taken["executor"] = 0 /\ unreplied = {}
    BY TwoAgents DEF Init, Answers
  <2>2. Len(Answers) = 0 /\ Worked = 0
    <3>1. Len(inbox) = 0 /\ Len(Answers) = 0
      BY <2>1
    <3>2. taken["executor"] = 0
      BY <2>1
    <3>3. taken["executor"] - Len(inbox) = 0
      BY <3>1, <3>2
    <3> QED
      BY <3>1, <3>3 DEF Worked
  <2>3. \A i \in 1 .. 0 : FALSE
    OBVIOUS
  <2>4. EachIsSettled /\ RepliesFollow
    BY <2>2, <2>3, Zenon DEF EachIsSettled, RepliesFollow
  <2> QED
    BY <2>1, <2>4 DEF RepliesKeepUp, NotedWithReason
<1>2. ExchangeInv /\ RepliesKeepUp /\ [Next]_vars => RepliesKeepUp'
  <2> SUFFICES ASSUME ExchangeInv, RepliesKeepUp, [Next]_vars PROVE RepliesKeepUp'
    OBVIOUS
  <2>1. ExchangeInv' /\ ExchangeTypes /\ faults \in Nat
    BY ExchangeStep, ExchangeAssumption DEF ExchangeInv, ExchangeTypes
  <2>2. Fault => faults' # 0
    BY <2>1 DEF Fault
  <2>3. /\ Worked \in Nat /\ Worked <= taken["executor"] /\ taken["executor"] <= Len(Asked)
        /\ taken["executor"] \in Nat /\ Len(inbox) \in Nat /\ Len(Asked) \in Nat
    BY WorkedIsCounted
  <2>4. Worked' \in Nat /\ Worked' <= taken'["executor"] /\ Len(inbox') \in Nat
    <3>1. /\ taken'["executor"] \in Nat /\ Len(inbox') \in Nat
          /\ Len(inbox') <= taken'["executor"]
      <4>1. taken' \in [Agents -> Nat] /\ inbox' \in Seq(Messages)
            /\ Len(inbox') <= taken'["executor"]
        BY <2>1 DEF ExchangeInv, ExchangeTypes, InboxIsNext
      <4> QED
        BY <4>1, TwoAgents
    <3> QED
      BY <3>1 DEF Worked
  <2>5. ASSUME UNCHANGED <<Answers, outcome, unreplied, inbox>>,
               taken'["executor"] = taken["executor"],
               open'["executor"] => open["executor"], faults' = faults \/ Fault,
               \A i \in 1 .. Len(Asked) : Asked'[i] = Asked[i]
        PROVE  RepliesKeepUp'
    <3>1. Worked' = Worked
      BY <2>5 DEF Worked
    <3> QED
      BY <2>2, <2>3, <2>5, <3>1, KeepUpBeside
  <2>6. CASE \E r \in Requests : \E t \in Terms : Send(r, t)
    <3>1. PICK r \in Requests, t \in Terms : Send(r, t)
      BY <2>6
    <3> DEFINE m == [re |-> r, contract |-> t.contract, body |-> t.payload]
    <3>2. m \in Messages
      BY DEF Messages, Bodies
    <3>3. /\ Seal("requester", m) \/ SealFails("requester", m)
          /\ UNCHANGED <<outcome, unreplied, inbox>> /\ (faults' = faults \/ Fault)
      BY <3>1 DEF Send, SealFails
    <3> HIDE DEF m
    <3>4. /\ UNCHANGED <<taken, Answers>> /\ open'["executor"] = open["executor"]
          /\ \A i \in 1 .. Len(Asked) : Asked'[i] = Asked[i]
      BY <2>1, <3>2, <3>3, SealAppends, TwoAgents DEF Asked, Answers
    <3> QED
      BY <2>5, <3>3, <3>4
  <2>7. CASE \E r \in Requests : TakeReply(r) \/ PollInVain(r) \/ PollTooLate(r) \/ PollFails(r)
    <3>1. /\ Open("requester") \/ UNCHANGED exchange
          /\ UNCHANGED <<outcome, unreplied, inbox>> /\ (faults' = faults \/ Fault)
      BY <2>7 DEF TakeReply, PollInVain, PollTooLate, PollFails
    <3>2. /\ taken'["executor"] = taken["executor"] /\ UNCHANGED <<Asked, Answers>>
          /\ open'["executor"] = open["executor"]
      <4>1. CASE Open("requester")
        BY <2>1, <4>1, OpenTakes, TwoAgents DEF Asked, Answers
      <4>2. CASE UNCHANGED exchange
        BY <4>2 DEF exchange, Asked, Answers
      <4> QED
        BY <3>1, <4>1, <4>2
    <3> QED
      BY <2>5, <3>1, <3>2
  <2>8. CASE TakeReport \/ ReportLost
    <3>1. /\ inbox = <<>> /\ Open("executor") /\ UNCHANGED <<outcome, unreplied>>
          /\ \/ inbox' = Report("executor") /\ UNCHANGED faults
             \/ UNCHANGED inbox /\ Fault
      BY <2>8 DEF TakeReport, ReportLost, Idle
    <3>2. /\ taken'["executor"] = taken["executor"] + Len(Report("executor"))
          /\ taken'["executor"] <= Len(Asked) /\ UNCHANGED <<Asked, Answers>>
          /\ open'["executor"] => open["executor"]
      BY <2>1, <3>1, OpenTakes, TwoAgents DEF Open, ExchangeTypes, Asked, Answers
    <3>3. Len(Report("executor")) \in Nat
      BY <2>1, ReportIsNext, TwoAgents
    <3>4. Worked = taken["executor"] /\ Worked <= Worked'
      BY <2>3, <3>1, <3>2, <3>3 DEF Worked
    <3>5. Worked' = Worked \/ faults' # 0
      BY <2>2, <2>3, <3>1, <3>2, <3>3, <3>4 DEF Worked
    <3>6. Worked' <= Len(Asked) /\ (faults # 0 => faults' # 0)
      BY <2>1, <2>2, <2>3, <2>4, <3>1, <3>2, <3>3
    <3> QED
      BY <2>4, <3>1, <3>2, <3>4, <3>5, <3>6, KeepUpBeside
  <2>9. CASE RestartService
    <3>1. /\ inbox' = <<>> /\ Fault /\ UNCHANGED <<exchange, outcome, unreplied>>
      BY <2>9 DEF RestartService
    <3>2. UNCHANGED <<Asked, Answers, open, taken>>
      BY <3>1 DEF exchange, Asked, Answers
    <3>3. Worked' = taken["executor"]
      BY <2>3, <3>1, <3>2 DEF Worked
    <3> QED
      BY <2>2, <2>3, <3>1, <3>2, <3>3, KeepUpBeside
  <2>10. CASE Deny \/ Reply
    <3>1. ~ Idle
      BY <2>10, ReplyKeeps DEF Deny
    <3>2. PICK body \in ResultBodies \cup DenialBodies : ReplyAs(body)
      BY <2>10, DenyKeeps, ReplyKeeps
    <3> QED
      BY <3>1, <3>2, KeepUpOnReply
  <2>11. CASE \/ \E r \in Requests : Await(r)
              \/ Execute \/ RunSandbox \/ Amend \/ UNCHANGED vars
    <3>1. UNCHANGED <<open, sealed, taken, inbox, outcome, unreplied, faults>>
      <4>1. CASE \E r \in Requests : Await(r)
        BY <4>1 DEF Await, exchange
      <4>2. CASE Execute \/ RunSandbox
        BY <4>2 DEF Execute, RunSandbox, exchange
      <4>3. CASE Amend \/ UNCHANGED vars
        BY <4>3 DEF Amend, vars
      <4> QED
        BY <2>11, <4>1, <4>2, <4>3
    <3> QED
      BY <2>5, <3>1 DEF Asked, Answers
  <2>12. CASE \E g \in Agents : LoseSession(g)
    <3>1. /\ UNCHANGED <<sealed, taken, inbox, outcome, unreplied>> /\ Fault
          /\ open'["executor"] => open["executor"]
      BY <2>1, <2>12, TwoAgents DEF LoseSession, ExchangeTypes
    <3> QED
      BY <2>5, <3>1 DEF Asked, Answers
  <2> QED
    BY <2>6, <2>7, <2>8, <2>9, <2>10, <2>11, <2>12 DEF Next
<1> QED
  BY <1>1, <1>2, ExchangeInvariant, PTL DEF Spec

================================================================================

------------------------------ MODULE Provenance ------------------------------
(***************************************************************************)
(* Walks over references between records: the ancestry of an artifact      *)
(* (src/src/v2/artifact.rs), the attestation closure of a verification     *)
(* (src/src/v2/verification.rs) and the build order of a HACP/1.1 contract *)
(* (src/src/contract.rs).  The three are one depth-first search with       *)
(* three colours; the recursion is kept as a stack of the records being    *)
(* visited, each with the references it has yet to follow.                 *)
(*                                                                         *)
(* A collection of records is the function from their ids to the ids each  *)
(* refers to; an id outside its domain is unknown.  The code follows the   *)
(* references in the order they are listed, the model in any order.        *)
(***************************************************************************)
EXTENDS Naturals, Sequences, FiniteSets

CONSTANTS
    Ids,            \* what a reference may name
    Nobody,         \* at the bottom of a walk that starts at no single record
    Collections,    \* the collections that are walked
    Contracts       \* the 1.1 contracts that are validated

ASSUME NobodyAssumption == Nobody \notin Ids

ASSUME CollectionsAssumption ==
    \A c \in Collections :
        /\ DOMAIN c \subseteq Ids /\ c = [id \in DOMAIN c |-> c[id]]
        /\ IsFiniteSet(DOMAIN c)
        /\ \A id \in DOMAIN c : c[id] \subseteq Ids /\ IsFiniteSet(c[id])

ASSUME ContractsAssumption ==
    \A c \in Contracts :
        /\ IsFiniteSet(c.artifacts) /\ IsFiniteSet(c.dependencies)
        /\ \A a \in c.artifacts : a.id \in Ids
        /\ \A d \in c.dependencies : d.consumes \in Ids

VARIABLES
    refs,     \* the collection
    stack,    \* the records being visited, the innermost last
    open,     \* the ids coloured as in progress
    done,     \* the result: the ids coloured as done, in the order they were
    phase     \* of the walk, or how it ended

walk == <<refs, stack, open, done, phase>>

NothingWalked == phase = "none" /\ refs = <<>> /\ stack = <<>> /\ open = {} /\ done = <<>>

Begin(collection, start, following, coloured) ==
    /\ refs' = collection
    /\ stack' = << [id |-> start, rest |-> following] >>
    /\ open' = coloured
    /\ phase' = "walking"
    /\ UNCHANGED done

\* ancestry: every transitive `derived_from` of an artifact, which may not come
\* back to the artifact itself.
Ancestry(artifacts, id) ==
    id \in DOMAIN artifacts /\ Begin(artifacts, id, artifacts[id], {id})

\* attestation_closure: the child records a verification stands on.  Its own id
\* is not coloured, and is visited like any other.
AttestationClosure(records, id) ==
    id \in DOMAIN records /\ Begin(records, id, records[id], {})

--------------------------------------------------------------------------------
(***************************************************************************)
(* InterfaceContract of HACP/1.1: artifacts, each with its producer, and   *)
(* dependencies, each an agent that consumes an artifact.                  *)
(***************************************************************************)
ArtifactIds(contract) == {a.id : a \in contract.artifacts}

ProducedBy(contract, agent) == {a.id : a \in {x \in contract.artifacts : x.by = agent}}

\* The edges of check_acyclic: producing the first requires the second.
Requires(contract) ==
    [id \in ArtifactIds(contract) |->
        {d.consumes : d \in {x \in contract.dependencies :
                                id \in ProducedBy(contract, x.consumer)}}]

\* What validate sees to before it looks for cycles; that names and commands are
\* filled in is taken for granted.
Declared(contract) ==
    /\ \A a, b \in contract.artifacts : a.id = b.id => a = b
    /\ \A d \in contract.dependencies : d.consumes \in ArtifactIds(contract)

\* check_acyclic: a walk from every artifact.
CheckAcyclic(contract) ==
    Declared(contract) /\ Begin(Requires(contract), Nobody, ArtifactIds(contract), {})

Call ==
    /\ phase = "none"
    /\ \/ \E c \in Collections, id \in Ids : Ancestry(c, id) \/ AttestationClosure(c, id)
       \/ \E contract \in Contracts : CheckAcyclic(contract)

--------------------------------------------------------------------------------
(***************************************************************************)
(* visit                                                                   *)
(***************************************************************************)
Depth == Len(stack)
Top == stack[Depth]
Finished == {done[i] : i \in DOMAIN done}

\* The innermost record has one reference less to follow.
Followed(id) == [stack EXCEPT ![Depth].rest = @ \ {id}]

\* A diamond: what is done is not visited again.
Skip(id) ==
    /\ id \in Finished
    /\ stack' = Followed(id)
    /\ UNCHANGED <<refs, open, done, phase>>

Fail(how) == phase' = how /\ UNCHANGED <<refs, stack, open, done>>

FindCycle(id) == id \in open \ Finished /\ Fail("cycle")

NotInProgress(id) == id \notin open    \* mutant
Unvisited(id) == id \notin open \cup Finished

MissRecord(id) == Unvisited(id) /\ id \notin DOMAIN refs /\ Fail("unknown")

Enter(id) ==
    /\ Unvisited(id) /\ id \in DOMAIN refs
    /\ open' = open \cup {id}
    /\ stack' = Append(Followed(id), [id |-> id, rest |-> refs[id]])
    /\ UNCHANGED <<refs, done, phase>>

Leave ==
    /\ Top.rest = {} /\ Depth > 1
    /\ open' = open \ {Top.id}
    /\ done' = Append(done, Top.id)
    /\ stack' = SubSeq(stack, 1, Depth - 1)
    /\ UNCHANGED <<refs, phase>>

Return == Top.rest = {} /\ Depth = 1 /\ Fail("returned")

Visit ==
    /\ phase = "walking"
    /\ \/ \E id \in Top.rest : Skip(id) \/ FindCycle(id) \/ MissRecord(id) \/ Enter(id)
       \/ Leave \/ Return

WalkNext == Call \/ Visit

WalkSpec == NothingWalked /\ [][WalkNext]_walk

--------------------------------------------------------------------------------
(***************************************************************************)
(* What the walks are for, said without walking.                           *)
(***************************************************************************)
Roots == IF stack[1].id = Nobody THEN DOMAIN refs ELSE refs[stack[1].id]

Closed(S) == \A id \in S \cap DOMAIN refs : refs[id] \subseteq S

\* Everything a chain of references leads to: the least closed set.
Beneath == {id \in Ids : \A S \in SUBSET Ids : Roots \subseteq S /\ Closed(S) => id \in S}

\* A walk returns everything beneath its start, once, each record after those it
\* stands on (so a contract's artifacts in an order they can be built in); it is
\* refused only for a cycle or an unknown record that is really there, however
\* references branch, meet again and repeat (artifact.rs:188, verification.rs:144,
\* contract.rs:127).  That a record comes after those it stands on is what the
\* code does, for all three; the doc of ancestry promises another order, below.
WalkIsRight ==
    /\ phase = "returned" =>
           /\ Finished = Beneath /\ Beneath \subseteq DOMAIN refs
           /\ \A i, j \in DOMAIN done : done[i] = done[j] => i = j
           /\ \A i \in DOMAIN done : refs[done[i]] \subseteq {done[j] : j \in 1 .. i - 1}
    /\ phase = "cycle" =>
           \E S \in SUBSET Beneath :
               S # {} /\ S \subseteq DOMAIN refs /\ \A id \in S : refs[id] \cap S # {}
    /\ phase = "unknown" => ~ (Beneath \subseteq DOMAIN refs)

\* The ancestry of an artifact is "every transitive `derived_from`, in discovery
\* order" (artifact.rs:184-185): in whatever way records are discovered, one that
\* is no parent of the artifact is discovered through a record that comes before
\* it.  The code appends an artifact when it is left (artifact.rs:236), not when
\* it is found, so a grandparent precedes the parent it was found through.
AncestryInDiscoveryOrder ==
    phase = "returned" /\ stack[1].id \in open =>
        \A i \in DOMAIN done :
            done[i] \in Roots \/ \E j \in 1 .. i - 1 : done[i] \in refs[done[j]]
================================================================================

--------------------------- MODULE ProvenanceProofs ---------------------------
(***************************************************************************)
(* The walks of Provenance are right for every collection.  While a walk   *)
(* is under way, the stack is a chain of references from its start; what   *)
(* is done stands only on what was done before it; and whatever a record   *)
(* of the stack refers to is still to be followed, done, or next on the    *)
(* stack.  So nothing is missed when the stack is empty, and a reference   *)
(* to an id in progress closes a cycle.                                    *)
(***************************************************************************)
EXTENDS Provenance, FiniteSetTheorems, TLAPS

\* What the i-th record of the stack refers to.
Out(i) == IF i = 1 THEN Roots ELSE refs[stack[i].id]

Frame == [id : Ids \cup {Nobody}, rest : SUBSET Ids]

Typed ==
    /\ refs = [id \in DOMAIN refs |-> refs[id]] /\ DOMAIN refs \subseteq Ids
    /\ \A id \in DOMAIN refs : refs[id] \subseteq Ids
    /\ stack \in Seq(Frame) /\ Depth >= 1
    /\ stack[1].id = Nobody \/ stack[1].id \in DOMAIN refs
    /\ open \subseteq Ids /\ done \in Seq(Ids)

Chained ==
    /\ \A i \in 2 .. Depth : /\ stack[i].id \in DOMAIN refs \cap Beneath
                             /\ stack[i].id \in Out(i - 1)
    /\ \A i \in 1 .. Depth : stack[i].rest \subseteq Out(i)

Coloured ==
    /\ \A i \in 2 .. Depth : stack[i].id \in open \ Finished
    /\ \A i, j \in 2 .. Depth : stack[i].id = stack[j].id => i = j
    /\ \A id \in open : \E i \in 1 .. Depth : stack[i].id = id

Settled ==
    /\ Finished \subseteq DOMAIN refs \cap Beneath
    /\ \A i, j \in DOMAIN done : done[i] = done[j] => i = j
    /\ \A i \in DOMAIN done : refs[done[i]] \subseteq {done[j] : j \in 1 .. i - 1}

NothingMissed ==
    \A i \in 1 .. Depth : \A id \in Out(i) :
        id \in stack[i].rest \/ id \in Finished \/ (i < Depth /\ id = stack[i + 1].id)

Walking == Typed /\ Chained /\ Coloured /\ Settled /\ NothingMissed

Inv ==
    /\ phase \in {"none", "walking", "returned", "cycle", "unknown"}
    /\ phase = "none" => NothingWalked
    /\ phase = "walking" => Walking
    /\ WalkIsRight

--------------------------------------------------------------------------------
\* What lies beneath a walk is closed, and holds its roots.
LEMMA BeneathIsClosed ==
  ASSUME Typed
  PROVE  /\ Roots \subseteq Beneath
         /\ \A id \in Beneath \cap DOMAIN refs : refs[id] \subseteq Beneath
<1>1. Roots \subseteq Ids
  BY DEF Typed, Roots
<1>2. QED
  BY <1>1 DEF Typed, Beneath, Closed

\* A set that holds the roots and what its members refer to holds all beneath.
LEMMA BeneathIsLeast ==
  ASSUME NEW S \in SUBSET Ids, Roots \subseteq S, Closed(S)
  PROVE  Beneath \subseteq S
BY DEF Beneath

\* Everything the stack refers to lies beneath.
LEMMA OutIsBeneath ==
  ASSUME Typed, Chained, NEW i \in 1 .. Depth
  PROVE  Out(i) \subseteq Beneath /\ stack[i].rest \subseteq Beneath
<1>1. CASE i = 1
  BY <1>1, BeneathIsClosed DEF Out, Chained
<1>2. CASE i # 1
  BY <1>2, BeneathIsClosed DEF Out, Chained, Typed, Depth
<1>3. QED
  BY <1>1, <1>2

\* A step that keeps the collection and the bottom of the stack keeps what lies
\* beneath.
LEMMA BeneathStays ==
  ASSUME refs' = refs, stack'[1].id = stack[1].id
  PROVE  Roots' = Roots /\ Beneath' = Beneath
BY DEF Roots, Beneath, Closed

--------------------------------------------------------------------------------
\* A call starts a walk with everything still to follow.
LEMMA CallStarts ==
  ASSUME NothingWalked, NEW collection, NEW start \in Ids \cup {Nobody},
         NEW following, NEW coloured \in SUBSET Ids,
         Begin(collection, start, following, coloured),
         collection = [id \in DOMAIN collection |-> collection[id]],
         DOMAIN collection \subseteq Ids,
         \A id \in DOMAIN collection : collection[id] \subseteq Ids,
         \/ start = Nobody /\ following = DOMAIN collection
         \/ start \in DOMAIN collection /\ following = collection[start],
         coloured \subseteq {start}
  PROVE  Walking'
<1>1. /\ refs' = collection /\ stack' = << [id |-> start, rest |-> following] >>
      /\ open' = coloured /\ done' = <<>> /\ Finished' = {} /\ Depth' = 1
      /\ stack'[1] = [id |-> start, rest |-> following]
  BY DEF Begin, NothingWalked, Finished, Depth
<1>2. Roots' = following
  BY <1>1, NobodyAssumption DEF Roots
<1>3. Typed'
  <2>1. [id |-> start, rest |-> following] \in Frame
    BY DEF Frame
  <2>2. stack' \in Seq(Frame)
    BY <1>1, <2>1
  <2>3. QED
    BY <1>1, <2>2 DEF Typed
<1>4. Chained' /\ NothingMissed'
  BY <1>1, <1>2 DEF Chained, NothingMissed, Out
<1>5. Coloured' /\ Settled'
  BY <1>1 DEF Coloured, Settled
<1>6. QED
  BY <1>3, <1>4, <1>5 DEF Walking

LEMMA CallKeepsInv ==
  ASSUME Inv, Call
  PROVE  Inv'
<1>1. NothingWalked
  BY DEF Inv, Call
<1>2. Walking' /\ phase' = "walking"
  <2>1. ASSUME NEW c \in Collections, NEW id \in Ids, Ancestry(c, id)
        PROVE  Walking' /\ phase' = "walking"
    <3>1. /\ c = [x \in DOMAIN c |-> c[x]] /\ DOMAIN c \subseteq Ids
          /\ \A x \in DOMAIN c : c[x] \subseteq Ids
      BY CollectionsAssumption
    <3>2. Begin(c, id, c[id], {id}) /\ id \in DOMAIN c
      BY <2>1 DEF Ancestry
    <3>3. Walking'
      BY <1>1, <3>1, <3>2, CallStarts
    <3>4. QED
      BY <3>2, <3>3 DEF Begin
  <2>2. ASSUME NEW c \in Collections, NEW id \in Ids, AttestationClosure(c, id)
        PROVE  Walking' /\ phase' = "walking"
    <3>1. /\ c = [x \in DOMAIN c |-> c[x]] /\ DOMAIN c \subseteq Ids
          /\ \A x \in DOMAIN c : c[x] \subseteq Ids
      BY CollectionsAssumption
    <3>2. Begin(c, id, c[id], {}) /\ id \in DOMAIN c
      BY <2>2 DEF AttestationClosure
    <3>3. Walking'
      BY <1>1, <3>1, <3>2, CallStarts
    <3>4. QED
      BY <3>2, <3>3 DEF Begin
  <2>3. ASSUME NEW contract \in Contracts, CheckAcyclic(contract)
        PROVE  Walking' /\ phase' = "walking"
    <3> DEFINE edges == Requires(contract)
    <3>1. /\ DOMAIN edges = ArtifactIds(contract)
          /\ edges = [x \in DOMAIN edges |-> edges[x]]
      BY DEF Requires
    <3>2. DOMAIN edges \subseteq Ids
      BY <3>1, ContractsAssumption DEF ArtifactIds
    <3>3. \A x \in DOMAIN edges : edges[x] \subseteq Ids
      BY ContractsAssumption DEF Requires
    <3>4. Begin(edges, Nobody, DOMAIN edges, {})
      BY <2>3, <3>1 DEF CheckAcyclic
    <3> HIDE DEF edges
    <3>5. Walking'
      BY <1>1, <3>1, <3>2, <3>3, <3>4, CallStarts
    <3>6. QED
      BY <3>4, <3>5 DEF Begin
  <2>4. QED
    BY <2>1, <2>2, <2>3 DEF Call
<1>3. QED
  BY <1>2 DEF Inv, WalkIsRight

--------------------------------------------------------------------------------
\* Following a reference changes the innermost record of the stack only.
LEMMA FollowedIsShorter ==
  ASSUME Typed, NEW id
  PROVE  /\ Depth \in Nat /\ Depth >= 1
         /\ Followed(id) \in Seq(Frame) /\ Len(Followed(id)) = Depth
         /\ \A i \in 1 .. Depth :
               /\ Followed(id)[i].id = stack[i].id
               /\ Followed(id)[i].rest =
                      IF i = Depth THEN stack[i].rest \ {id} ELSE stack[i].rest
<1>1. Depth \in Nat /\ Depth >= 1 /\ stack \in [1 .. Depth -> Frame]
  BY DEF Typed, Depth
<1>2. Followed(id) \in [1 .. Depth -> Frame]
  BY <1>1 DEF Followed, Frame
<1>3. \A i \in 1 .. Depth :
         /\ Followed(id)[i].id = stack[i].id
         /\ Followed(id)[i].rest =
                IF i = Depth THEN stack[i].rest \ {id} ELSE stack[i].rest
  BY <1>1 DEF Followed, Frame
<1>4. Followed(id) \in Seq(Frame) /\ Len(Followed(id)) = Depth
  BY <1>1, <1>2
<1>5. QED
  BY <1>1, <1>3, <1>4

\* Passing over a record that is done loses nothing.
LEMMA SkipKeepsWalking ==
  ASSUME Walking, NEW id \in Top.rest, Skip(id)
  PROVE  Walking'
<1>1. /\ Depth' = Depth /\ Finished' = Finished
      /\ refs' = refs /\ open' = open /\ done' = done
  BY FollowedIsShorter DEF Walking, Skip, Depth, Finished
<1>2. Depth \in Nat /\ Depth >= 1
  BY FollowedIsShorter DEF Walking
<1>3. \A i \in 1 .. Depth : stack'[i].id = stack[i].id
  BY FollowedIsShorter DEF Walking, Skip
<1>4. \A i \in 1 .. Depth :
         stack'[i].rest = IF i = Depth THEN stack[i].rest \ {id} ELSE stack[i].rest
  BY FollowedIsShorter DEF Walking, Skip
<1>5. stack'[1].id = stack[1].id
  BY <1>2, <1>3
<1>6. Roots' = Roots /\ Beneath' = Beneath
  BY <1>1, <1>5, BeneathStays
<1>7. \A i \in 1 .. Depth : Out(i)' = Out(i)
  BY <1>1, <1>3, <1>6 DEF Out
<1>8. Typed'
  <2>1. stack' \in Seq(Frame)
    BY FollowedIsShorter DEF Walking, Skip
  <2>2. QED
    BY <1>1, <1>2, <1>5, <2>1 DEF Walking, Typed
<1>9. Chained'
  <2>1. \A i \in 2 .. Depth : i \in 1 .. Depth /\ i - 1 \in 1 .. Depth
    BY <1>2
  <2>2. \A i \in 2 .. Depth : stack'[i].id \in DOMAIN refs' \cap Beneath'
                              /\ stack'[i].id \in Out(i - 1)'
    BY <1>1, <1>3, <1>6, <1>7, <2>1 DEF Walking, Chained
  <2>3. \A i \in 1 .. Depth : stack'[i].rest \subseteq Out(i)'
    BY <1>4, <1>7 DEF Walking, Chained
  <2>4. QED
    BY <1>1, <2>2, <2>3 DEF Chained
<1>10. Coloured'
  <2>1. \A i \in 2 .. Depth : i \in 1 .. Depth
    BY <1>2
  <2>2. QED
    BY <1>1, <1>3, <2>1 DEF Walking, Coloured
<1>11. Settled'
  BY <1>1, <1>6 DEF Walking, Settled
<1>12. NothingMissed'
  <2>1. SUFFICES ASSUME NEW i \in 1 .. Depth, NEW x \in Out(i)
                 PROVE  \/ x \in stack'[i].rest \/ x \in Finished
                        \/ i < Depth /\ x = stack'[i + 1].id
    BY <1>1, <1>7 DEF NothingMissed
  <2>2. \/ x \in stack[i].rest \/ x \in Finished
        \/ i < Depth /\ x = stack[i + 1].id
    BY DEF Walking, NothingMissed
  <2>3. CASE i < Depth
    <3>1. i + 1 \in 1 .. Depth /\ i # Depth
      BY <1>2, <2>3
    <3>2. stack'[i].rest = stack[i].rest /\ stack'[i + 1].id = stack[i + 1].id
      BY <1>3, <1>4, <3>1
    <3>3. QED
      BY <2>2, <2>3, <3>2
  <2>4. CASE i = Depth
    <3>1. ~ (i < Depth)
      BY <1>2, <2>4
    <3>2. stack'[i].rest = stack[i].rest \ {id}
      BY <1>4, <2>4
    <3>3. QED
      BY <2>2, <3>1, <3>2 DEF Skip
  <2>5. QED
    BY <1>2, <2>3, <2>4
<1>13. QED
  BY <1>8, <1>9, <1>10, <1>11, <1>12 DEF Walking

\* A record that is entered is the next link of the chain.
LEMMA EnterKeepsWalking ==
  ASSUME Walking, NEW id \in Top.rest, Enter(id)
  PROVE  Walking'
<1>1. Depth \in Nat /\ Depth >= 1
  BY FollowedIsShorter DEF Walking
<1>0. PICK n \in Nat : n = Depth + 1
  BY <1>1
<1>2. /\ stack' \in Seq(Frame) /\ Depth' = n
      /\ \A i \in 1 .. Depth : stack'[i] = Followed(id)[i]
      /\ stack'[n] = [id |-> id, rest |-> refs[id]]
  <2>1. Followed(id) \in Seq(Frame) /\ Len(Followed(id)) = Depth
    BY FollowedIsShorter DEF Walking
  <2>2. [id |-> id, rest |-> refs[id]] \in Frame
    BY DEF Walking, Typed, Enter, Frame
  <2>3. stack' = Append(Followed(id), [id |-> id, rest |-> refs[id]])
    BY DEF Enter
  <2>4. QED
    BY <1>0, <1>1, <2>1, <2>2, <2>3 DEF Depth
<1>a. Depth' = n
  BY <1>2
<1>b. \A i \in 1 .. Depth : stack'[i] = Followed(id)[i]
  BY <1>2
<1>3. /\ Finished' = Finished /\ open' = open \cup {id}
      /\ refs' = refs /\ done' = done
  BY DEF Enter, Finished
<1>4. \A i \in 1 .. Depth : stack'[i].id = stack[i].id
  <2>1. \A i \in 1 .. Depth : Followed(id)[i].id = stack[i].id
    BY FollowedIsShorter DEF Walking
  <2>2. QED
    BY <1>b, <2>1
<1>5. \A i \in 1 .. Depth :
         stack'[i].rest = IF i = Depth THEN stack[i].rest \ {id} ELSE stack[i].rest
  <2>1. \A i \in 1 .. Depth :
           Followed(id)[i].rest = IF i = Depth THEN stack[i].rest \ {id} ELSE stack[i].rest
    BY FollowedIsShorter DEF Walking
  <2>2. QED
    BY <1>b, <2>1
<1>6. stack'[n].id = id /\ stack'[n].rest = refs[id]
  BY <1>2
<1>7. stack'[1].id = stack[1].id
  BY <1>1, <1>4
<1>8. Roots' = Roots /\ Beneath' = Beneath
  BY <1>3, <1>7, BeneathStays
<1>9. \A i \in 1 .. Depth : Out(i)' = Out(i)
  BY <1>3, <1>4, <1>8 DEF Out
<1>10. Out(n)' = refs[id]
  BY <1>0, <1>1, <1>3, <1>6 DEF Out
<1>11. /\ id \in DOMAIN refs /\ id \notin open /\ id \notin Finished
       /\ id \in Out(Depth) /\ id \in Beneath
  <2>1. Depth \in 1 .. Depth
    BY <1>1
  <2>2. QED
    BY <2>1, OutIsBeneath DEF Enter, Unvisited, Walking, Chained, Top
<1>12. /\ \A i \in 1 .. n : i = n \/ i \in 1 .. Depth
       /\ \A i \in 2 .. n : i = n \/ i \in 2 .. Depth
       /\ \A i \in 2 .. Depth : i \in 1 .. Depth /\ i - 1 \in 1 .. Depth /\ i # n
       /\ n - 1 = Depth /\ Depth \in 1 .. Depth
       /\ \A i \in 1 .. Depth : i \in 1 .. n /\ i < n
       /\ n \in 1 .. n
  BY <1>0, <1>1
<1>13. Typed'
  <2>1. Depth' >= 1
    BY <1>0, <1>1, <1>a
  <2>2. open' \subseteq Ids
    BY <1>3, <1>11 DEF Walking, Typed
  <2>3. QED
    BY <1>2, <1>3, <1>7, <2>1, <2>2 DEF Walking, Typed
<1>14. Chained'
  <2>1. \A i \in 2 .. Depth : stack'[i].id \in DOMAIN refs' \cap Beneath'
                              /\ stack'[i].id \in Out(i - 1)'
    BY <1>3, <1>4, <1>8, <1>9, <1>12 DEF Walking, Chained
  <2>2. stack'[n].id \in DOMAIN refs' \cap Beneath' /\ stack'[n].id \in Out(n - 1)'
    BY <1>3, <1>6, <1>8, <1>9, <1>11, <1>12
  <2>3. \A i \in 1 .. Depth : stack'[i].rest \subseteq Out(i)'
    BY <1>5, <1>9 DEF Walking, Chained
  <2>4. stack'[n].rest \subseteq Out(n)'
    BY <1>6, <1>10
  <2>5. QED
    BY <1>a, <1>12, <2>1, <2>2, <2>3, <2>4 DEF Chained
<1>15. Coloured'
  <2>1. \A i \in 2 .. Depth : stack'[i].id \in open \ Finished /\ stack'[i].id # id
    BY <1>4, <1>11, <1>12 DEF Walking, Coloured
  <2>2. \A i, j \in 2 .. Depth : stack'[i].id = stack'[j].id => i = j
    BY <1>4, <1>12 DEF Walking, Coloured
  <2>3. \A i \in 2 .. n : stack'[i].id \in open' \ Finished'
    BY <1>3, <1>6, <1>11, <1>12, <2>1
  <2>4. \A i, j \in 2 .. n : stack'[i].id = stack'[j].id => i = j
    BY <1>6, <1>12, <2>1, <2>2
  <2>5. \A x \in open : \E i \in 1 .. Depth : stack'[i].id = x
    BY <1>4 DEF Walking, Coloured
  <2>6. \A x \in open' : \E i \in 1 .. n : stack'[i].id = x
    BY <1>3, <1>6, <1>12, <2>5
  <2>7. QED
    BY <1>a, <2>3, <2>4, <2>6 DEF Coloured
<1>16. Settled'
  BY <1>3, <1>8 DEF Walking, Settled
<1>17. NothingMissed'
  <2>1. SUFFICES ASSUME NEW i \in 1 .. n, NEW x \in Out(i)'
                 PROVE  \/ x \in stack'[i].rest \/ x \in Finished
                        \/ i < n /\ x = stack'[i + 1].id
    BY <1>a, <1>3 DEF NothingMissed
  <2>2. CASE i = n
    BY <1>6, <1>10, <2>2
  <2>3. ASSUME i \in 1 .. Depth
        PROVE  \/ x \in stack[i].rest \/ x \in Finished
               \/ i < Depth /\ x = stack[i + 1].id
    BY <1>9, <2>3 DEF Walking, NothingMissed
  <2>4. CASE i = Depth
    <3>1. i \in 1 .. Depth /\ i < n /\ i + 1 = n /\ ~ (i < Depth)
      BY <1>0, <1>1, <2>4
    <3>2. stack'[i].rest = stack[i].rest \ {id} /\ stack'[i + 1].id = id
      BY <1>5, <1>6, <2>4, <3>1
    <3>3. QED
      BY <2>3, <3>1, <3>2
  <2>5. CASE i \in 1 .. Depth /\ i # Depth
    <3>1. i + 1 \in 1 .. Depth /\ i < n
      BY <1>0, <1>1, <2>5
    <3>2. stack'[i].rest = stack[i].rest /\ stack'[i + 1].id = stack[i + 1].id
      BY <1>4, <1>5, <2>5, <3>1
    <3>3. QED
      BY <2>3, <2>5, <3>1, <3>2
  <2>6. QED
    BY <1>12, <2>2, <2>4, <2>5
<1>18. QED
  BY <1>13, <1>14, <1>15, <1>16, <1>17 DEF Walking

\* A record is done once all it refers to is.
LEMMA LeaveKeepsWalking ==
  ASSUME Walking, Leave
  PROVE  Walking'
<1>1. Depth \in Nat /\ Depth > 1 /\ stack \in Seq(Frame) /\ stack' = SubSeq(stack, 1, Depth - 1)
  BY DEF Walking, Typed, Leave, Depth
<1>2. PICK m \in Nat : m = Depth - 1 /\ m >= 1
  BY <1>1
<1>3. stack' \in Seq(Frame) /\ Depth' = m /\ \A i \in 1 .. m : stack'[i] = stack[i]
  BY <1>1, <1>2 DEF Depth
<1>4. Depth' = m
  BY <1>3
<1>5. \A i \in 1 .. m : stack'[i] = stack[i]
  BY <1>3
<1>6. /\ \A i \in 1 .. m : i \in 1 .. Depth /\ i # Depth /\ i < Depth
      /\ \A i \in 2 .. m : i \in 2 .. Depth /\ i \in 1 .. m /\ i - 1 \in 1 .. m
      /\ 1 \in 1 .. m /\ Depth \in 2 .. Depth /\ Depth \in 1 .. Depth
      /\ \A i \in 1 .. Depth : i # Depth => i \in 1 .. m
      /\ \A i \in 1 .. m : (i < m /\ i + 1 \in 1 .. m) \/ i + 1 = Depth
  BY <1>1, <1>2
<1>7. refs' = refs /\ open' = open \ {Top.id} /\ done' = Append(done, Top.id)
  BY DEF Leave
<1>8. /\ Top.id \in DOMAIN refs \cap Beneath /\ Top.id \in open \ Finished
      /\ Out(Depth) = refs[Top.id] /\ stack[Depth].rest = {}
  <2>1. Depth # 1
    BY <1>1
  <2>2. QED
    BY <1>6, <2>1 DEF Walking, Chained, Coloured, Top, Out, Leave
<1>9. done \in Seq(Ids) /\ Top.id \in Ids
  BY <1>8 DEF Walking, Typed
<1>10. PICK last \in Nat : last = Len(done) + 1
  BY <1>9
<1>11. /\ done' \in Seq(Ids) /\ DOMAIN done' = 1 .. last /\ DOMAIN done = 1 .. last - 1
       /\ \A i \in 1 .. last - 1 : done'[i] = done[i]
       /\ done'[last] = Top.id
  BY <1>7, <1>9, <1>10
<1>12. /\ DOMAIN done' = 1 .. last /\ DOMAIN done = 1 .. last - 1
       /\ \A i \in 1 .. last - 1 : done'[i] = done[i]
       /\ done'[last] = Top.id
  BY <1>11
<1>13. /\ \A i \in 1 .. last : i = last \/ i \in 1 .. last - 1
       /\ last \in 1 .. last /\ \A i \in 1 .. last - 1 : i \in 1 .. last
       /\ \A i \in 1 .. last : \A k \in 1 .. i - 1 : k \in 1 .. last - 1
  BY <1>10
<1>14. Finished' = Finished \cup {Top.id}
  BY <1>12, <1>13 DEF Finished
<1>15. Roots' = Roots /\ Beneath' = Beneath
  BY <1>5, <1>6, <1>7, BeneathStays
<1>16. \A i \in 1 .. m : Out(i)' = Out(i)
  BY <1>5, <1>7, <1>15 DEF Out
<1>17. Typed'
  BY <1>2, <1>3, <1>5, <1>6, <1>7, <1>11 DEF Walking, Typed
<1>18. Chained'
  <2>1. \A i \in 2 .. m : stack'[i].id \in DOMAIN refs' \cap Beneath'
                          /\ stack'[i].id \in Out(i - 1)'
    BY <1>5, <1>6, <1>7, <1>15, <1>16 DEF Walking, Chained
  <2>2. \A i \in 1 .. m : stack'[i].rest \subseteq Out(i)'
    BY <1>5, <1>6, <1>16 DEF Walking, Chained
  <2>3. QED
    BY <1>4, <2>1, <2>2 DEF Chained
<1>19. Coloured'
  <2>1. \A i \in 2 .. m : stack[i].id # Top.id
    BY <1>6 DEF Walking, Coloured, Top
  <2>2. \A i \in 2 .. m : stack'[i].id \in open' \ Finished'
    BY <1>5, <1>6, <1>7, <1>14, <2>1 DEF Walking, Coloured
  <2>3. \A i, j \in 2 .. m : stack'[i].id = stack'[j].id => i = j
    BY <1>5, <1>6 DEF Walking, Coloured
  <2>4. ASSUME NEW x \in open'
        PROVE  \E i \in 1 .. m : stack'[i].id = x
    <3>1. PICK i \in 1 .. Depth : stack[i].id = x
      BY <1>7 DEF Walking, Coloured
    <3>2. i # Depth
      BY <1>7, <3>1 DEF Top
    <3>3. QED
      BY <1>5, <1>6, <3>1, <3>2
  <2>5. QED
    BY <1>4, <2>2, <2>3, <2>4 DEF Coloured
<1>20. Settled'
  <2>1. refs[Top.id] \subseteq Finished
    <3>1. ~ (Depth < Depth)
      BY <1>1
    <3>2. QED
      BY <1>6, <1>8, <3>1 DEF Walking, NothingMissed
  <2>2. Finished = {done[j] : j \in 1 .. last - 1}
    BY <1>12 DEF Finished
  <2>3. ASSUME NEW i \in 1 .. last
        PROVE  refs'[done'[i]] \subseteq {done'[j] : j \in 1 .. i - 1}
    <3>1. {done'[j] : j \in 1 .. i - 1} = {done[j] : j \in 1 .. i - 1}
      BY <1>12, <1>13
    <3>2. CASE i = last
      BY <1>7, <1>12, <2>1, <2>2, <3>1, <3>2
    <3>3. CASE i \in 1 .. last - 1
      BY <1>7, <1>12, <3>1, <3>3 DEF Walking, Settled
    <3>4. QED
      BY <1>13, <3>2, <3>3
  <2>4. \A i, j \in 1 .. last : done'[i] = done'[j] => i = j
    BY <1>8, <1>12, <1>13, <2>2 DEF Walking, Settled
  <2>5. Finished' \subseteq DOMAIN refs' \cap Beneath'
    BY <1>7, <1>8, <1>14, <1>15 DEF Walking, Settled
  <2>6. QED
    BY <1>12, <2>3, <2>4, <2>5 DEF Settled
<1>21. NothingMissed'
  <2>1. ASSUME NEW i \in 1 .. m, NEW x \in Out(i)
        PROVE  \/ x \in stack'[i].rest \/ x \in Finished'
               \/ i < m /\ x = stack'[i + 1].id
    <3>1. \/ x \in stack'[i].rest \/ x \in Finished \/ x = stack[i + 1].id
      BY <1>5, <1>6 DEF Walking, NothingMissed
    <3>2. CASE i < m /\ i + 1 \in 1 .. m
      BY <1>5, <1>14, <3>1, <3>2
    <3>3. CASE i + 1 = Depth
      BY <1>14, <3>1, <3>3 DEF Top
    <3>4. QED
      BY <1>6, <3>2, <3>3
  <2>2. QED
    BY <1>4, <1>16, <2>1 DEF NothingMissed
<1>22. QED
  BY <1>17, <1>18, <1>19, <1>20, <1>21 DEF Walking

--------------------------------------------------------------------------------
\* An id in progress that is met again closes a cycle: the stack from where it
\* stands to the top.
LEMMA CycleIsReal ==
  ASSUME Walking, NEW id \in Top.rest, FindCycle(id)
  PROVE  \E S \in SUBSET Beneath :
             S # {} /\ S \subseteq DOMAIN refs /\ \A x \in S : refs[x] \cap S # {}
<1>1. Depth \in Nat /\ Depth >= 1 /\ id \in Ids
  BY DEF Walking, Typed, Depth, FindCycle
<1>2. PICK k \in 1 .. Depth : stack[k].id = id
  BY DEF FindCycle, Walking, Coloured
<1> DEFINE S == {stack[i].id : i \in k .. Depth}
<1>3. id \in Beneath
  BY <1>1, OutIsBeneath DEF Walking, Top
<1>4. \A i \in k .. Depth : stack[i].id \in DOMAIN refs \cap Beneath
  <2>1. SUFFICES ASSUME NEW i \in k .. Depth
                 PROVE  stack[i].id \in DOMAIN refs \cap Beneath
    OBVIOUS
  <2>2. CASE i = 1
    <3>1. stack[1].id = id
      BY <1>2, <2>2
    <3>2. QED
      BY <1>1, <1>3, <2>2, <3>1, NobodyAssumption DEF Walking, Typed
  <2>3. CASE i # 1
    BY <2>3 DEF Walking, Chained
  <2>4. QED
    BY <2>2, <2>3
<1>5. \A i \in k .. Depth : Out(i) = refs[stack[i].id]
  <2>1. SUFFICES ASSUME NEW i \in k .. Depth
                 PROVE  Out(i) = refs[stack[i].id]
    OBVIOUS
  <2>2. CASE i = 1
    BY <1>1, <1>2, <2>2, NobodyAssumption DEF Out, Roots
  <2>3. CASE i # 1
    BY <2>3 DEF Out
  <2>4. QED
    BY <2>2, <2>3
<1>6. \A i \in k .. Depth : refs[stack[i].id] \cap S # {}
  <2>1. SUFFICES ASSUME NEW i \in k .. Depth
                 PROVE  refs[stack[i].id] \cap S # {}
    OBVIOUS
  <2>2. CASE i = Depth
    <3>1. id \in Out(Depth)
      BY <1>1 DEF Walking, Chained, Top
    <3>2. id \in S
      BY <1>1, <1>2
    <3>3. QED
      BY <1>5, <2>2, <3>1, <3>2
  <2>3. CASE i # Depth
    <3>1. i + 1 \in k .. Depth /\ i + 1 \in 2 .. Depth
      BY <1>1, <2>3
    <3>2. stack[i + 1].id \in Out(i)
      BY <1>1, <3>1 DEF Walking, Chained
    <3>3. stack[i + 1].id \in S
      BY <3>1
    <3>4. QED
      BY <1>5, <3>2, <3>3
  <2>4. QED
    BY <2>2, <2>3
<1>7. S # {} /\ S \subseteq DOMAIN refs /\ S \subseteq Beneath
  BY <1>1, <1>2, <1>4
<1>8. \A x \in S : refs[x] \cap S # {}
  BY <1>6
<1>9. QED
  BY <1>7, <1>8

\* With the bottom of the stack exhausted, what is done is all there is.
LEMMA ReturnIsComplete ==
  ASSUME Walking, Return
  PROVE  Finished = Beneath
<1>1. Roots \subseteq Finished
  <2>1. Out(1) = Roots /\ stack[1].rest = {} /\ Depth = 1
    BY DEF Out, Return, Top
  <2>2. QED
    BY <2>1 DEF Walking, NothingMissed
<1>2. Closed(Finished)
  BY DEF Closed, Walking, Settled, Finished, Typed
<1>3. Finished \subseteq Ids
  BY DEF Finished, Walking, Typed
<1>4. Beneath \subseteq Finished
  BY <1>1, <1>2, <1>3, BeneathIsLeast
<1>5. QED
  BY <1>4 DEF Walking, Settled

LEMMA VisitKeepsInv ==
  ASSUME Inv, Visit
  PROVE  Inv'
<1>1. Walking /\ phase = "walking"
  BY DEF Inv, Visit
<1>2. ASSUME NEW id \in Top.rest, Skip(id)
      PROVE  Inv'
  <2>1. phase' = "walking"
    BY <1>1, <1>2 DEF Skip
  <2>2. QED
    BY <1>1, <1>2, <2>1, SkipKeepsWalking DEF Inv, WalkIsRight
<1>3. ASSUME NEW id \in Top.rest, Enter(id)
      PROVE  Inv'
  <2>1. phase' = "walking"
    BY <1>1, <1>3 DEF Enter
  <2>2. QED
    BY <1>1, <1>3, <2>1, EnterKeepsWalking DEF Inv, WalkIsRight
<1>4. CASE Leave
  <2>1. phase' = "walking"
    BY <1>1, <1>4 DEF Leave
  <2>2. QED
    BY <1>1, <1>4, <2>1, LeaveKeepsWalking DEF Inv, WalkIsRight
<1>5. ASSUME UNCHANGED <<refs, stack, open, done>>
      PROVE  Beneath' = Beneath /\ Finished' = Finished
  BY <1>5, BeneathStays DEF Finished
<1>6. ASSUME NEW id \in Top.rest, FindCycle(id)
      PROVE  Inv'
  <2>1. phase' = "cycle" /\ UNCHANGED <<refs, stack, open, done>>
    BY <1>6 DEF FindCycle, Fail
  <2>2. QED
    BY <1>1, <1>5, <1>6, <2>1, CycleIsReal DEF Inv, WalkIsRight
<1>7. ASSUME NEW id \in Top.rest, MissRecord(id)
      PROVE  Inv'
  <2>1. phase' = "unknown" /\ UNCHANGED <<refs, stack, open, done>> /\ id \notin DOMAIN refs
    BY <1>7 DEF MissRecord, Fail
  <2>2. Depth \in 1 .. Depth
    BY <1>1 DEF Walking, Typed, Depth
  <2>3. id \in Beneath
    BY <1>1, <1>7, <2>2, OutIsBeneath DEF Walking, Top
  <2>4. QED
    BY <1>5, <2>1, <2>3 DEF Inv, WalkIsRight
<1>8. CASE Return
  <2>1. phase' = "returned" /\ UNCHANGED <<refs, stack, open, done>>
    BY <1>8 DEF Return, Fail
  <2>2. Finished = Beneath
    BY <1>1, <1>8, ReturnIsComplete
  <2>3. QED
    BY <1>1, <1>5, <2>1, <2>2 DEF Inv, WalkIsRight, Walking, Settled
<1>9. QED
  BY <1>2, <1>3, <1>4, <1>6, <1>7, <1>8 DEF Visit

--------------------------------------------------------------------------------
LEMMA InvStep == Inv /\ [WalkNext]_walk => Inv'
<1>1. SUFFICES ASSUME Inv, [WalkNext]_walk
               PROVE  Inv'
  OBVIOUS
<1>2. CASE UNCHANGED walk
  <2>1. /\ UNCHANGED <<refs, stack, open, done, phase>>
        /\ Depth' = Depth /\ Finished' = Finished
    BY <1>2 DEF walk, Depth, Finished
  <2>2. Roots' = Roots /\ Beneath' = Beneath
    BY <2>1, BeneathStays
  <2>3. \A i : Out(i)' = Out(i)
    BY <2>1, <2>2 DEF Out
  <2>4. Walking => Walking'
    BY <2>1, <2>2, <2>3 DEF Walking, Typed, Chained, Coloured, Settled, NothingMissed
  <2>5. QED
    BY <1>1, <2>1, <2>2, <2>4 DEF Inv, WalkIsRight, NothingWalked
<1>3. QED
  BY <1>1, <1>2, CallKeepsInv, VisitKeepsInv DEF WalkNext

\* A walk over any collection returns everything beneath its start, once and in
\* an order in which each record follows those it stands on, or is refused for a
\* cycle or an unknown record that is there (artifact.rs:188, verification.rs:144,
\* contract.rs:127).
THEOREM WalksAreRight == WalkSpec => []WalkIsRight
<1>1. NothingWalked => Inv
  BY DEF NothingWalked, Inv, WalkIsRight
<1>2. Inv /\ [WalkNext]_walk => Inv'
  BY InvStep
<1>3. Inv => WalkIsRight
  BY DEF Inv
<1>4. QED
  BY <1>1, <1>2, <1>3, PTL DEF WalkSpec
--------------------------------------------------------------------------------
(***************************************************************************)
(* Every walk ends.                                                        *)
(***************************************************************************)

\* Records not yet visited, and references the innermost record has to follow.
Unseen == Cardinality(DOMAIN refs \ (open \cup Finished))
ToFollow == Cardinality(Top.rest)

\* A step of a walk that goes on visits a record for the first time, leaves one, or
\* has one reference less to follow.
Shortens ==
    \/ Unseen' < Unseen
    \/ Unseen' = Unseen /\ Depth' < Depth
    \/ Unseen' = Unseen /\ Depth' = Depth /\ ToFollow' < ToFollow

WalksShorten == [][phase = "walking" => phase' # "walking" \/ Shortens]_walk

\* The three numbers a walk counts down, and how deep its recursion may get.
Measured ==
    phase = "walking" =>
        /\ Unseen \in Nat /\ ToFollow \in Nat
        /\ Depth \in 1 .. Cardinality(DOMAIN refs) + 1

RefsFinite == IsFiniteSet(DOMAIN refs) /\ \A id \in DOMAIN refs : IsFiniteSet(refs[id])

\* The edges of a finite contract are finite.
LEMMA RequiresIsFinite ==
    ASSUME NEW contract \in Contracts, NEW edges, edges = Requires(contract)
    PROVE  IsFiniteSet(DOMAIN edges) /\ \A id \in DOMAIN edges : IsFiniteSet(edges[id])
<1>1. IsFiniteSet(contract.artifacts) /\ IsFiniteSet(contract.dependencies)
  BY ContractsAssumption
<1>2. IsFiniteSet(ArtifactIds(contract))
  <2> DEFINE A == contract.artifacts
             f == [a \in A |-> a.id]
  <2>1. f \in Surjection(A, ArtifactIds(contract))
    BY DEF Surjection, ArtifactIds
  <2> QED
    BY <1>1, <2>1, FS_Surjection
<1>3. DOMAIN edges = ArtifactIds(contract)
  BY DEF Requires
<1>4. ASSUME NEW id \in DOMAIN edges
      PROVE  IsFiniteSet(edges[id])
  <2> DEFINE D == {x \in contract.dependencies : id \in ProducedBy(contract, x.consumer)}
             f == [d \in D |-> d.consumes]
  <2>1. edges[id] = {d.consumes : d \in D}
    BY <1>3 DEF Requires
  <2>2. f \in Surjection(D, edges[id])
    BY <2>1 DEF Surjection
  <2>3. IsFiniteSet(D)
    BY <1>1, FS_Subset
  <2> QED
    BY <2>2, <2>3, FS_Surjection
<1> QED
  BY <1>2, <1>3, <1>4

LEMMA RefsStayFinite ==
    ASSUME RefsFinite, [WalkNext]_walk
    PROVE  RefsFinite'
<1>1. CASE Call
  <2>1. ASSUME NEW c \in Collections, NEW id \in Ids, Ancestry(c, id) \/ AttestationClosure(c, id)
        PROVE  RefsFinite'
    <3>1. refs' = c
      BY <2>1 DEF Ancestry, AttestationClosure, Begin
    <3> QED
      BY <3>1, CollectionsAssumption DEF RefsFinite
  <2>2. ASSUME NEW contract \in Contracts, CheckAcyclic(contract)
        PROVE  RefsFinite'
    <3>1. refs' = Requires(contract)
      BY <2>2 DEF CheckAcyclic, Begin
    <3> QED
      BY <3>1, RequiresIsFinite DEF RefsFinite
  <2> QED
    BY <1>1, <2>1, <2>2 DEF Call
<1>2. CASE Visit \/ UNCHANGED walk
  <2>1. refs' = refs
    BY <1>2 DEF Visit, Skip, FindCycle, MissRecord, Enter, Leave, Return, Fail, walk
  <2> QED
    BY <2>1 DEF RefsFinite
<1> QED
  BY <1>1, <1>2 DEF WalkNext

\* What a walk counts is finite.
LEMMA CountsAreFinite ==
    ASSUME Walking, RefsFinite
    PROVE  /\ IsFiniteSet(DOMAIN refs \ (open \cup Finished)) /\ Unseen \in Nat
           /\ IsFiniteSet(Top.rest) /\ ToFollow \in Nat
           /\ Depth \in Nat /\ Depth >= 1
<1>1. Depth \in Nat /\ Depth >= 1
  BY DEF Walking, Typed, Depth
<1>2. IsFiniteSet(DOMAIN refs \ (open \cup Finished))
  BY FS_Subset DEF RefsFinite
<1>3. Top.rest \subseteq Out(Depth)
  BY <1>1 DEF Walking, Chained, Top
<1>4. IsFiniteSet(Out(Depth))
  <2>1. CASE Depth = 1
    BY <1>1, <2>1 DEF Out, Roots, RefsFinite, Walking, Typed
  <2>2. CASE Depth # 1
    BY <1>1, <2>2 DEF Out, RefsFinite, Walking, Chained
  <2> QED
    BY <2>1, <2>2
<1>5. IsFiniteSet(Top.rest)
  BY <1>3, <1>4, FS_Subset
<1> QED
  BY <1>1, <1>2, <1>5, FS_CardinalityType DEF Unseen, ToFollow

\* The records of the stack are different ones, so there are no more than records.
LEMMA DepthIsBounded ==
    ASSUME Walking, RefsFinite
    PROVE  Depth \in 1 .. Cardinality(DOMAIN refs) + 1
<1>1. Depth \in Nat /\ Depth >= 1
  BY CountsAreFinite
<1> DEFINE S == 2 .. Depth
           f == [i \in S |-> stack[i].id]
<1>2. f \in Injection(S, DOMAIN refs)
  <2>1. f \in [S -> DOMAIN refs]
    BY DEF Walking, Chained
  <2>2. \A i, j \in S : f[i] = f[j] => i = j
    BY DEF Walking, Coloured
  <2> QED
    BY <2>1, <2>2 DEF Injection, IsInjective
<1>3. IsFiniteSet(DOMAIN refs) /\ Cardinality(DOMAIN refs) \in Nat
  BY FS_CardinalityType DEF RefsFinite
<1>4. Cardinality(S) <= Cardinality(DOMAIN refs)
  BY <1>2, <1>3, FS_Injection
<1>5. Cardinality(S) = IF 2 > Depth THEN 0 ELSE Depth - 2 + 1
  BY <1>1, FS_Interval
<1> QED
  BY <1>1, <1>3, <1>4, <1>5

LEMMA VisitShortens ==
    ASSUME Walking, RefsFinite, Visit
    PROVE  phase' # "walking" \/ Shortens
<1>0. Depth \in Nat /\ Depth >= 1 /\ stack \in Seq(Frame) /\ Depth \in 1 .. Depth
  BY CountsAreFinite DEF Walking, Typed
<1>1. ASSUME NEW id \in Top.rest, Skip(id)
      PROVE  Shortens
  <2>1. /\ Depth' = Depth /\ Unseen' = Unseen
        /\ stack'[Depth].rest = stack[Depth].rest \ {id}
    <3>1. stack' = Followed(id) /\ refs' = refs /\ open' = open /\ done' = done
      BY <1>1 DEF Skip
    <3>2. Len(Followed(id)) = Depth
      BY FollowedIsShorter DEF Walking
    <3>3. \A i \in 1 .. Depth :
             Followed(id)[i].rest = IF i = Depth THEN stack[i].rest \ {id} ELSE stack[i].rest
      BY FollowedIsShorter DEF Walking
    <3>4. Depth' = Depth
      BY <3>1, <3>2 DEF Depth
    <3>5. Finished' = Finished
      BY <3>1 DEF Finished
    <3>6. Unseen' = Unseen
      BY <3>1, <3>5 DEF Unseen
    <3>7. Followed(id)[Depth].rest = stack[Depth].rest \ {id}
      BY <1>0, <3>3
    <3> QED
      BY <3>1, <3>4, <3>6, <3>7
  <2>2. Top'.rest = Top.rest \ {id}
    BY <2>1 DEF Top
  <2>3. ToFollow' = ToFollow - 1 /\ ToFollow \in Nat
    BY <1>1, <2>2, CountsAreFinite, FS_RemoveElement DEF ToFollow
  <2> QED
    BY <2>1, <2>3 DEF Shortens
<1>2. ASSUME NEW id \in Top.rest, Enter(id)
      PROVE  Shortens
  <2>1. /\ refs' = refs /\ Finished' = Finished /\ open' = open \cup {id}
        /\ id \in DOMAIN refs \ (open \cup Finished)
    BY <1>2 DEF Enter, Unvisited, Finished
  <2>2. DOMAIN refs' \ (open' \cup Finished') = (DOMAIN refs \ (open \cup Finished)) \ {id}
    BY <2>1
  <2>3. Unseen' = Unseen - 1 /\ Unseen \in Nat
    <3> DEFINE unseen == DOMAIN refs \ (open \cup Finished)
    <3>1. IsFiniteSet(unseen) /\ Cardinality(unseen) \in Nat
      BY CountsAreFinite, FS_CardinalityType
    <3>2. Cardinality(unseen \ {id}) = Cardinality(unseen) - 1
      BY <2>1, <3>1, FS_RemoveElement
    <3> QED
      BY <2>2, <3>1, <3>2 DEF Unseen
  <2> QED
    BY <2>3 DEF Shortens
<1>3. ASSUME Leave
      PROVE  Shortens
  <2>1. /\ refs' = refs /\ open' = open \ {Top.id} /\ done' = Append(done, Top.id)
        /\ Depth > 1 /\ stack' = SubSeq(stack, 1, Depth - 1)
    BY <1>3 DEF Leave
  <2>2. Depth' = Depth - 1
    BY <1>0, <2>1 DEF Depth
  <2>3. Top.id \in open /\ done \in Seq(Ids)
    BY <1>0, <2>1 DEF Walking, Typed, Coloured, Top
  <2>4. Finished' = Finished \cup {Top.id}
    <3>1. PICK last \in Nat : last = Len(done) + 1
      BY <2>3
    <3>2. /\ DOMAIN done = 1 .. last - 1 /\ DOMAIN done' = 1 .. last
          /\ \A i \in 1 .. last - 1 : done'[i] = done[i]
          /\ done'[last] = Top.id
      BY <2>1, <2>3, <3>1
    <3>3. 1 .. last = (1 .. last - 1) \cup {last}
      BY <3>1
    <3> QED
      BY <3>2, <3>3 DEF Finished
  <2>5. Unseen' = Unseen
    <3>1. DOMAIN refs' \ (open' \cup Finished') = DOMAIN refs \ (open \cup Finished)
      BY <2>1, <2>3, <2>4
    <3> QED
      BY <3>1 DEF Unseen
  <2> QED
    BY <1>0, <2>2, <2>5 DEF Shortens
<1>4. ASSUME NEW id \in Top.rest, FindCycle(id) \/ MissRecord(id)
      PROVE  phase' # "walking"
  BY <1>4 DEF FindCycle, MissRecord, Fail
<1>5. ASSUME Return
      PROVE  phase' # "walking"
  BY <1>5 DEF Return, Fail
<1> QED
  BY <1>1, <1>2, <1>3, <1>4, <1>5 DEF Visit

\* The coloured recursion ends on every finite collection, cyclic, branching or
\* with dangling references: of records unvisited, depth and references to follow,
\* each call lowers the first that it changes, and none falls below zero; the
\* recursion is never deeper than there are records.
THEOREM WalksEnd == WalkSpec => WalksShorten /\ []Measured
<1>1. NothingWalked => Inv /\ RefsFinite
  BY FS_EmptySet DEF NothingWalked, Inv, WalkIsRight, RefsFinite
<1>2. Inv /\ [WalkNext]_walk => Inv'
  BY InvStep
<1>3. RefsFinite /\ [WalkNext]_walk => RefsFinite'
  BY RefsStayFinite
<1>4. Inv /\ RefsFinite => Measured
  <2> SUFFICES ASSUME Walking, RefsFinite PROVE Measured
    BY DEF Inv, Measured
  <2> QED
    BY CountsAreFinite, DepthIsBounded DEF Measured
<1>5. Inv /\ RefsFinite /\ [WalkNext]_walk
          => [phase = "walking" => phase' # "walking" \/ Shortens]_walk
  <2> SUFFICES ASSUME Inv, RefsFinite, WalkNext, phase = "walking"
               PROVE  phase' # "walking" \/ Shortens
    OBVIOUS
  <2>1. Walking /\ Visit
    BY DEF Inv, WalkNext, Call
  <2> QED
    BY <2>1, VisitShortens
<1> QED
  BY <1>1, <1>2, <1>3, <1>4, <1>5, PTL DEF WalkSpec, WalksShorten
================================================================================

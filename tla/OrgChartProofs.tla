---------------------------- MODULE OrgChartProofs ----------------------------
(***************************************************************************)
(* Proofs about OrgChart, for every set of agents and every chart, and     *)
(* about the disputes that climb it (Escalation).                          *)
(*                                                                         *)
(* Above is a recursive function.  That it is what its definition says     *)
(* (AboveStep), and what follows for n levels at once, is shown by         *)
(* induction, in the form that a set of numbers that holds 0 and every     *)
(* successor of its members holds all.  Then a chain that ends has no      *)
(* cycle (NoCycle), and the supervisors of an agent on a chain are the     *)
(* rest of the chain (RestOfChain).                                        *)
(***************************************************************************)
EXTENDS Escalation, FiniteSetTheorems, WellFoundedInduction, TLAPS

-----------------------------------------------------------------------------
(* Numbers *)

LEMMA LeastNumber ==
    ASSUME NEW T \in SUBSET Nat, T # {} PROVE \E t \in T : \A u \in T : t <= u
<1> DEFINE R == {ss \in Nat \X Nat : ss[1] < ss[2]}
<1>1. IsWellFoundedOn(R, Nat)
  BY NatLessThanWellFounded, Zenon DEF OpToRel
<1>2. PICK t \in T : \A u \in T : ~ (<<u, t>> \in R)
  BY <1>1, WFMin
<1>3. \A u \in T : ~ (u < t)
  BY <1>2
<1> QED BY <1>3

LEMMA Induction ==
    ASSUME NEW S, 0 \in S, \A n \in Nat : n \in S => n + 1 \in S
    PROVE  \A n \in Nat : n \in S
<1> SUFFICES ASSUME Nat \ S # {} PROVE FALSE
  OBVIOUS
<1>1. PICK t \in Nat \ S : \A u \in Nat \ S : t <= u
  BY LeastNumber
<1>2. t # 0 /\ t - 1 \in Nat
  BY <1>1
<1>3. t - 1 \in S
  BY <1>1, <1>2
<1>4. (t - 1) + 1 \in S
  BY <1>2, <1>3
<1> QED BY <1>1, <1>4

-----------------------------------------------------------------------------
(* Chains *)

\* The supervisor of whoever stands on a level, if anybody does.
Boss(x) == IF x = None THEN None ELSE org[x]

\* The chain of a up to level n, as Above computes it.
Climbs(f, a, n) == f = [k \in 0 .. n |-> IF k = 0 THEN a ELSE Boss(f[k - 1])]

LEMMA ClimbsExist == ASSUME NEW a, NEW n \in Nat PROVE \E f : Climbs(f, a, n)
<1> DEFINE S == {m \in Nat : \E f : Climbs(f, a, m)}
<1>1. 0 \in S
  <2> DEFINE f == [k \in 0 .. 0 |-> a]
  <2>1. f = [k \in 0 .. 0 |-> IF k = 0 THEN a ELSE Boss(f[k - 1])]
    OBVIOUS
  <2> QED BY <2>1 DEF Climbs
<1>2. ASSUME NEW m \in Nat, m \in S PROVE m + 1 \in S
  <2>1. PICK f : Climbs(f, a, m)
    BY <1>2
  <2> DEFINE g == [k \in 0 .. m + 1 |-> IF k = 0 THEN a ELSE Boss(f[k - 1])]
  <2>2. \A k \in 0 .. m : f[k] = IF k = 0 THEN a ELSE Boss(f[k - 1])
    BY <2>1 DEF Climbs
  <2>3. \A k \in 0 .. m : g[k] = f[k]
    BY <2>2
  <2>4. ASSUME NEW k \in 0 .. m + 1, k # 0 PROVE g[k - 1] = f[k - 1]
    <3>1. k - 1 \in 0 .. m
      BY <2>4
    <3> QED BY <3>1, <2>3
  <2> DEFINE h == [k \in 0 .. m + 1 |-> IF k = 0 THEN a ELSE Boss(g[k - 1])]
  <2>5. ASSUME NEW k \in 0 .. m + 1 PROVE g[k] = h[k]
    BY <2>4
  <2>6. g = h
    BY <2>5
  <2>7. Climbs(g, a, m + 1)
    BY <2>6 DEF Climbs
  <2> HIDE DEF g
  <2> QED BY <2>7
<1> HIDE DEF S
<1>3. n \in S
  BY <1>1, <1>2, Induction
<1> QED BY <1>3 DEF S

LEMMA ClimbsAgree ==
    ASSUME NEW a, NEW n \in Nat, NEW m \in Nat, NEW f, NEW g,
           Climbs(f, a, n), Climbs(g, a, m)
    PROVE  \A k \in Nat : k <= n /\ k <= m => f[k] = g[k]
<1> DEFINE S == {k \in Nat : k <= n /\ k <= m => f[k] = g[k]}
<1>1. \A k \in 0 .. n : f[k] = IF k = 0 THEN a ELSE Boss(f[k - 1])
  BY DEF Climbs
<1>2. \A k \in 0 .. m : g[k] = IF k = 0 THEN a ELSE Boss(g[k - 1])
  BY DEF Climbs
<1>3. 0 \in S
  BY <1>1, <1>2
<1>4. ASSUME NEW k \in Nat, k \in S PROVE k + 1 \in S
  <2> SUFFICES ASSUME k + 1 <= n /\ k + 1 <= m PROVE f[k + 1] = g[k + 1]
    OBVIOUS
  <2>1. f[k + 1] = Boss(f[k]) /\ g[k + 1] = Boss(g[k])
    BY <1>1, <1>2
  <2>2. f[k] = g[k]
    BY <1>4
  <2> QED BY <2>1, <2>2
<1> HIDE DEF S
<1>5. \A k \in Nat : k \in S
  BY <1>3, <1>4, Induction
<1> QED BY <1>5 DEF S

LEMMA AboveClimbs ==
    ASSUME NEW a, NEW n \in Nat PROVE \E f : Climbs(f, a, n) /\ Above(a, n) = f[n]
<1> DEFINE f == CHOOSE f : f = [k \in 0 .. n |->
                    IF k = 0 THEN a ELSE IF f[k - 1] = None THEN None ELSE org[f[k - 1]]]
<1>1. Above(a, n) = f[n]
  BY DEF Above
<1>2. \E g : g = [k \in 0 .. n |->
                    IF k = 0 THEN a ELSE IF g[k - 1] = None THEN None ELSE org[g[k - 1]]]
  <2>1. PICK g : Climbs(g, a, n)
    BY ClimbsExist
  <2> QED BY <2>1 DEF Climbs, Boss
<1>3. f = [k \in 0 .. n |->
               IF k = 0 THEN a ELSE IF f[k - 1] = None THEN None ELSE org[f[k - 1]]]
  BY <1>2
<1> HIDE DEF f
<1>4. Climbs(f, a, n)
  BY <1>3 DEF Climbs, Boss
<1> QED BY <1>1, <1>4

\* Above is what its recursion says.
LEMMA AboveStep ==
    ASSUME NEW a, NEW n \in Nat
    PROVE  Above(a, 0) = a /\ Above(a, n + 1) = Boss(Above(a, n))
<1>1. PICK f : Climbs(f, a, 0) /\ Above(a, 0) = f[0]
  BY AboveClimbs
<1>2. PICK g : Climbs(g, a, n) /\ Above(a, n) = g[n]
  BY AboveClimbs
<1>3. PICK h : Climbs(h, a, n + 1) /\ Above(a, n + 1) = h[n + 1]
  BY AboveClimbs
<1>4. f[0] = a
  BY <1>1 DEF Climbs
<1>5. h[n + 1] = Boss(h[n])
  BY <1>3 DEF Climbs
<1>6. h[n] = g[n]
  BY <1>2, <1>3, ClimbsAgree
<1> QED BY <1>1, <1>2, <1>3, <1>4, <1>5, <1>6

\* Nobody is above nobody.
LEMMA NobodyAbove == \A n \in Nat : Above(None, n) = None
<1> DEFINE S == {n \in Nat : Above(None, n) = None}
<1>1. 0 \in S
  BY AboveStep
<1>2. ASSUME NEW n \in Nat, n \in S PROVE n + 1 \in S
  BY <1>2, AboveStep DEF Boss
<1> HIDE DEF S
<1>3. \A n \in Nat : n \in S
  BY <1>1, <1>2, Induction
<1> QED BY <1>3 DEF S

LEMMA AboveAdds ==
    ASSUME NEW a, NEW n \in Nat
    PROVE  \A m \in Nat : Above(Above(a, n), m) = Above(a, n + m)
<1> DEFINE S == {m \in Nat : Above(Above(a, n), m) = Above(a, n + m)}
<1>1. 0 \in S
  BY AboveStep
<1>2. ASSUME NEW m \in Nat, m \in S PROVE m + 1 \in S
  <2>1. Above(Above(a, n), m + 1) = Boss(Above(Above(a, n), m))
    BY AboveStep
  <2>2. Above(a, (n + m) + 1) = Boss(Above(a, n + m))
    BY AboveStep
  <2> QED BY <1>2, <2>1, <2>2
<1> HIDE DEF S
<1>3. \A m \in Nat : m \in S
  BY <1>1, <1>2, Induction
<1> QED BY <1>3 DEF S

\* A chain that has ended goes on nowhere.
LEMMA EndsForGood ==
    ASSUME NEW a, NEW n \in Nat, NEW m \in Nat, n <= m, Above(a, n) = None
    PROVE  Above(a, m) = None
<1>1. m - n \in Nat /\ n + (m - n) = m
  OBVIOUS
<1>2. Above(Above(a, n), m - n) = Above(a, n + (m - n))
  BY <1>1, AboveAdds
<1> QED BY <1>1, <1>2, NobodyAbove

ChartTypeOK == org \in [Agents -> Agents \cup {None}]

LEMMA AboveType ==
    ASSUME ChartTypeOK, NEW a \in Agents
    PROVE  \A n \in Nat : Above(a, n) \in Agents \cup {None}
<1> DEFINE S == {n \in Nat : Above(a, n) \in Agents \cup {None}}
<1>1. 0 \in S
  BY AboveStep
<1>2. ASSUME NEW n \in Nat, n \in S PROVE n + 1 \in S
  BY <1>2, AboveStep DEF Boss, ChartTypeOK
<1> HIDE DEF S
<1>3. \A n \in Nat : n \in S
  BY <1>1, <1>2, Induction
<1> QED BY <1>3 DEF S

LEMMA LevelsAreNumbers == Cardinality(Agents) \in Nat /\ Levels \subseteq Nat \ {0}
  BY AgentConstants, FS_CardinalityType DEF Levels

\* An agent on a chain that ends is on it once.
LEMMA NoCycle ==
    ASSUME NEW a, Rooted(a), NEW n \in Nat, NEW m \in Nat, n < m, Above(a, n) # None
    PROVE  Above(a, n) # Above(a, m)
<1> SUFFICES ASSUME Above(a, n) = Above(a, m) PROVE FALSE
  OBVIOUS
<1> DEFINE T == {k \in Nat : Above(a, k) = None}
<1>1. T # {}
  BY LevelsAreNumbers DEF Rooted
<1>2. PICK k \in T : \A l \in T : k <= l
  BY <1>1, LeastNumber
<1>3. m < k
  BY <1>2, EndsForGood
<1>4. k - m \in Nat /\ m + (k - m) = k /\ n + (k - m) \in Nat /\ n + (k - m) < k
  BY <1>3
<1>5. Above(Above(a, n), k - m) = Above(a, n + (k - m))
  BY <1>4, AboveAdds
<1>6. Above(Above(a, m), k - m) = Above(a, k)
  BY <1>4, AboveAdds
<1>7. n + (k - m) \in T
  BY <1>2, <1>4, <1>5, <1>6
<1> QED BY <1>2, <1>4, <1>7

-----------------------------------------------------------------------------
(* Supervisors *)

\* Who supervises an agent on a chain that ends is further up on that chain.
LEMMA RestOfChain ==
    ASSUME NEW a, Rooted(a), NEW n \in Nat
    PROVE  /\ \A m \in Nat : (m > n /\ Above(a, m) \in Agents)
                                => Above(a, m) \in Supervisors(Above(a, n))
           /\ \A x \in Supervisors(Above(a, n)) :
                 \E m \in Nat : m > n /\ Above(a, m) = x
<1>1. ASSUME NEW m \in Nat, m > n, Above(a, m) \in Agents
      PROVE  Above(a, m) \in Supervisors(Above(a, n))
  <2>1. ~ (Cardinality(Agents) <= m)
    BY <1>1, EndsForGood, LevelsAreNumbers, AgentConstants DEF Rooted
  <2>2. m - n \in Levels /\ n + (m - n) = m
    BY <1>1, <2>1, LevelsAreNumbers DEF Levels
  <2>3. Above(Above(a, n), m - n) = Above(a, m)
    BY <2>2, AboveAdds, LevelsAreNumbers
  <2> QED BY <1>1, <2>2, <2>3 DEF Supervisors
<1>2. ASSUME NEW x \in Supervisors(Above(a, n))
      PROVE  \E m \in Nat : m > n /\ Above(a, m) = x
  <2>1. PICK k \in Levels : x = Above(Above(a, n), k)
    BY DEF Supervisors
  <2>2. k \in Nat /\ n + k \in Nat /\ n + k > n
    BY LevelsAreNumbers
  <2>3. Above(a, n + k) = x
    BY <2>1, <2>2, AboveAdds
  <2> QED BY <2>2, <2>3
<1> QED BY <1>1, <1>2

\* Nobody on a chain that ends supervises himself.
LEMMA NotAboveOneself == ASSUME NEW a \in Agents, Rooted(a) PROVE a \notin Supervisors(a)
<1> SUFFICES ASSUME a \in Supervisors(a) PROVE FALSE
  OBVIOUS
<1>1. PICK n \in Levels : Above(a, n) = a
  BY DEF Supervisors
<1>2. Above(a, 0) = a /\ a # None /\ n \in Nat /\ 0 < n
  BY <1>1, AboveStep, AgentConstants, LevelsAreNumbers
<1> QED BY <1>1, <1>2, NoCycle

\* The lowest common supervisor is the first on the chain of a that is above b.
LEMMA LcaIsFirst ==
    ASSUME NEW a, NEW b, Lca(a, b) # None
    PROVE  /\ Rooted(a) /\ Rooted(b)
           /\ \E n \in Levels : /\ Lca(a, b) = Above(a, n)
                                /\ Above(a, n) \in Supervisors(b)
                                /\ \A m \in Levels : Above(a, m) \in Supervisors(b) => n <= m
<1> DEFINE common == {n \in Levels : Above(a, n) \in Supervisors(b)}
<1>1. /\ Rooted(a) /\ Rooted(b) /\ common # {}
      /\ Lca(a, b) = Above(a, CHOOSE n \in common : \A m \in common : n <= m)
  BY DEF Lca
<1>2. common \in SUBSET Nat
  BY LevelsAreNumbers
<1>3. \E n \in common : \A m \in common : n <= m
  BY <1>1, <1>2, LeastNumber
<1>4. PICK n \in common : (\A m \in common : n <= m) /\ Lca(a, b) = Above(a, n)
  BY <1>1, <1>3
<1> QED BY <1>1, <1>4

LEMMA LcaIsCommon ==
    ASSUME NEW a, NEW b, Lca(a, b) # None
    PROVE  Lca(a, b) \in Supervisors(a) \cap Supervisors(b)
  BY LcaIsFirst DEF Supervisors

LEMMA LcaLowest == ASSUME ChartTypeOK PROVE LcaIsLowest
<1> SUFFICES ASSUME NEW a \in Agents, NEW b \in Agents, Rooted(a), Rooted(b)
             PROVE  LET common == Supervisors(a) \cap Supervisors(b)
                    IN  IF common = {} THEN Lca(a, b) = None
                        ELSE /\ Lca(a, b) \in common
                             /\ common = {Lca(a, b)} \cup Supervisors(Lca(a, b))
  BY DEF LcaIsLowest
<1> DEFINE common == Supervisors(a) \cap Supervisors(b)
           x == Lca(a, b)
<1>1. ASSUME common = {} PROVE x = None
  <2>1. {n \in Levels : Above(a, n) \in Supervisors(b)} = {}
    BY <1>1 DEF Supervisors
  <2> QED BY <2>1 DEF Lca
<1>2. ASSUME common # {} PROVE x # None
  <2>1. PICK n \in Levels : Above(a, n) \in Supervisors(b)
    BY <1>2 DEF Supervisors
  <2> DEFINE levels == {m \in Levels : Above(a, m) \in Supervisors(b)}
  <2>2. levels \in SUBSET Nat /\ levels # {}
    BY <2>1, LevelsAreNumbers
  <2>3. PICK m \in levels : \A k \in levels : m <= k
    BY <2>2, LeastNumber
  <2>4. x = Above(a, CHOOSE h \in levels : \A k \in levels : h <= k)
    BY <2>2 DEF Lca
  <2>5. \E k \in levels : x = Above(a, k)
    BY <2>3, <2>4
  <2> QED BY <2>5, AgentConstants DEF Supervisors
<1>3. ASSUME x # None
      PROVE  x \in common /\ common = {x} \cup Supervisors(x)
  <2>1. x \in common
    BY <1>3, LcaIsCommon
  <2>2. PICK n \in Levels : /\ x = Above(a, n)
                            /\ \A m \in Levels : Above(a, m) \in Supervisors(b) => n <= m
    BY <1>3, LcaIsFirst
  <2>3. PICK k \in Levels : x = Above(b, k)
    BY <2>1 DEF Supervisors
  <2>4. n \in Nat /\ k \in Nat /\ 0 < n /\ 0 < k
    BY LevelsAreNumbers
  <2>5. ASSUME NEW y \in Supervisors(x) PROVE y \in common
    <3>1. PICK m \in Nat : m > n /\ Above(a, m) = y
      BY <2>2, <2>4, RestOfChain
    <3>2. PICK l \in Nat : l > k /\ Above(b, l) = y
      BY <2>3, <2>4, RestOfChain
    <3>3. Above(a, 0) = a /\ Above(b, 0) = b /\ y \in Agents
      BY AboveStep DEF Supervisors
    <3>4. y \in Supervisors(a)
      BY <2>4, <3>1, <3>3, RestOfChain
    <3>5. y \in Supervisors(b)
      BY <2>4, <3>2, <3>3, RestOfChain
    <3> QED BY <3>4, <3>5
  <2>6. ASSUME NEW y \in common, y # x PROVE y \in Supervisors(x)
    <3>1. PICK m \in Levels : y = Above(a, m)
      BY DEF Supervisors
    <3>2. n <= m /\ m # n /\ m \in Nat
      BY <2>2, <2>6, <3>1, LevelsAreNumbers
    <3>3. y \in Agents
      BY DEF Supervisors
    <3> QED BY <2>2, <2>4, <3>1, <3>2, <3>3, RestOfChain
  <2> QED BY <2>1, <2>5, <2>6
<1> QED BY <1>1, <1>2, <1>3

\* Who supervises a supervisor of an agent supervises the agent.
LEMMA SupervisionIsTransitive ==
    ASSUME NEW a \in Agents, Rooted(a), NEW x \in Supervisors(a)
    PROVE  Supervisors(x) \subseteq Supervisors(a)
<1>1. PICK n \in Levels : x = Above(a, n)
  BY DEF Supervisors
<1>2. ASSUME NEW y \in Supervisors(x) PROVE y \in Supervisors(a)
  <2>1. PICK m \in Nat : m > n /\ Above(a, m) = y
    BY <1>1, LevelsAreNumbers, RestOfChain
  <2>2. Above(a, 0) = a /\ y \in Agents /\ n \in Nat
    BY AboveStep, LevelsAreNumbers DEF Supervisors
  <2> QED BY <2>1, <2>2, RestOfChain
<1> QED BY <1>2

LEMMA BossSupervises ==
    ASSUME ChartTypeOK, NEW x \in Agents, org[x] # None PROVE org[x] \in Supervisors(x)
<1>1. Above(x, 0 + 1) = Boss(Above(x, 0)) /\ Above(x, 0) = x
  BY AboveStep
<1>2. Above(x, 1) = org[x] /\ org[x] \in Agents
  BY <1>1, AgentConstants DEF Boss, ChartTypeOK
<1>3. 1 \in Levels
  <2>1. Cardinality(Agents) # 0
    BY AgentConstants, FS_EmptySet
  <2> QED BY <2>1, LevelsAreNumbers DEF Levels
<1> QED BY <1>2, <1>3 DEF Supervisors

LEMMA BossIsNext ==
    ASSUME ChartTypeOK, NEW a \in Agents
    PROVE  /\ Above(a, 0) = a /\ Above(a, 1) = org[a]
           /\ \A x \in Agents : org[a] = x => Above(a, 2) = org[x]
<1>1. Above(a, 0) = a /\ Above(a, 0 + 1) = Boss(Above(a, 0))
  BY AboveStep
<1>2. Above(a, 1 + 1) = Boss(Above(a, 1))
  BY AboveStep
<1> QED BY <1>1, <1>2, AgentConstants DEF Boss

\* In a chart that has a lowest common supervisor, that one mediates.
LEMMA MediatorIsLca ==
    ASSUME ChartTypeOK, NEW a \in Agents, NEW b \in Agents,
           StageOneMediator(a, b) # None, Lca(a, b) # None
    PROVE  StageOneMediator(a, b) = Lca(a, b)
<1> DEFINE x == StageOneMediator(a, b)
<1>1. PICK n \in Levels : /\ Lca(a, b) = Above(a, n)
                          /\ Above(a, n) \in Supervisors(b)
                          /\ \A m \in Levels : Above(a, m) \in Supervisors(b) => n <= m
  BY LcaIsFirst
<1>2. Rooted(a) /\ Rooted(b) /\ n \in Nat /\ 0 < n
  BY LcaIsFirst, LevelsAreNumbers
<1>3. \A m \in Nat : Above(a, m) \in Agents /\ m # 0 => m \in Levels
  BY <1>2, EndsForGood, LevelsAreNumbers, AgentConstants DEF Rooted, Levels
<1>4. x \in Agents
  BY DEF StageOneMediator, ChartTypeOK
<1>5. CASE org[a] = x /\ x \in Supervisors(b)
  <2>1. Above(a, 1) = x /\ n <= 1
    BY <1>1, <1>3, <1>4, <1>5, BossIsNext
  <2> QED BY <1>1, <1>2, <2>1
<1>6. CASE org[a] = b /\ org[b] = x
  <2>1. Above(a, 1) = b /\ Above(a, 2) = x
    BY <1>6, BossIsNext
  <2>2. x \in Supervisors(b) /\ b \notin Supervisors(b)
    BY <1>2, <1>4, <1>6, BossSupervises, NotAboveOneself, AgentConstants
  <2>3. n <= 2 /\ n # 1
    BY <1>1, <1>3, <1>4, <2>1, <2>2
  <2> QED BY <1>1, <1>2, <2>1, <2>3
<1>7. CASE org[b] = a /\ org[a] = x
  <2>1. a \in Supervisors(b) /\ x \in Supervisors(a)
    BY <1>4, <1>7, BossSupervises, AgentConstants
  <2> QED BY <1>2, <1>5, <1>7, <2>1, SupervisionIsTransitive
<1>8. CASE Siblings(a, b)
  <2>1. x = org[a] /\ x = org[b]
    BY <1>8 DEF StageOneMediator, Siblings
  <2> QED BY <1>4, <1>5, <2>1, BossSupervises, AgentConstants
<1> QED BY <1>6, <1>7, <1>8 DEF StageOneMediator

-----------------------------------------------------------------------------
(* Disputes *)

\* A dispute that was raised has two parties, and before that no arbiter;
\* until it is referred or ended somebody mediates.
Raised ==
    IF stage = "none" THEN arbiter = None
    ELSE /\ \E a, b \in Agents : parties = <<a, b>>
         /\ stage = "raised" => mediator # None

DisputeInv == ChartTypeOK /\ Raised /\ ThirdPartiesDecide

\* Whom Refer hands the dispute to is above both parties.
LEMMA ReferredUp ==
    ASSUME DisputeInv, Refer
    PROVE  /\ parties[1] \in Agents /\ parties[2] \in Agents
           /\ Rooted(parties[1]) /\ Rooted(parties[2])
           /\ mediator' \in Supervisors(parties[1]) \cap Supervisors(parties[2])
<1> DEFINE a == parties[1]
           b == parties[2]
           lca == Lca(a, b)
<1>1. a \in Agents /\ b \in Agents
  BY DEF DisputeInv, Raised, Refer
<1>2. Rooted(a) /\ Rooted(b) /\ lca \in Supervisors(a) \cap Supervisors(b)
  BY LcaIsFirst, LcaIsCommon DEF Refer
<1>3. lca \in Agents
  BY <1>2 DEF Supervisors
<1>4. CASE mediator' = lca
  BY <1>1, <1>2, <1>4
<1>5. CASE mediator' = org[lca] /\ org[lca] # None
  <2>1. org[lca] \in Supervisors(lca)
    BY <1>3, <1>5, BossSupervises DEF DisputeInv
  <2> QED BY <1>1, <1>2, <1>5, <2>1, SupervisionIsTransitive
<1> QED BY <1>4, <1>5 DEF Refer, Climb

LEMMA DisputeInitially == ASSUME DisputeInit PROVE DisputeInv
  BY ChartConstants DEF DisputeInit, ChartInit, DisputeInv, ChartTypeOK, Raised,
                        ThirdPartiesDecide

LEMMA DisputeStep == ASSUME DisputeInv, [DisputeNext]_dispute PROVE DisputeInv'
<1>1. ChartTypeOK'
  BY ChartConstants DEF DisputeInv, ChartTypeOK, DisputeNext, dispute, escalation, Raise,
        Refer, InvokeArbiter, Resolve, ConcludeNoAgreement, Reorganise
<1>2. ASSUME NEW a \in Agents, NEW b \in Agents, Raise(a, b)
      PROVE  Raised' /\ ThirdPartiesDecide'
  <2>1. Disputing' = {a, b} /\ arbiter' = None /\ stage' = "raised" /\ parties' = <<a, b>>
    BY <1>2 DEF Raise, DisputeInv, Raised, Disputing
  <2>2. mediator' # None
    BY <1>2 DEF Raise
  <2> QED BY <2>1, <2>2, AgentConstants DEF Raised, ThirdPartiesDecide
<1>3. ASSUME Refer PROVE Raised' /\ ThirdPartiesDecide'
  <2>1. parties[1] \notin Supervisors(parties[1]) /\ parties[2] \notin Supervisors(parties[2])
    BY <1>3, ReferredUp, NotAboveOneself
  <2>2. Disputing = {parties[1], parties[2]} /\ UNCHANGED <<parties, arbiter>>
    BY <1>3 DEF Refer, DisputeInv, Raised, Disputing
  <2>3. mediator' \notin Disputing'
    BY <1>3, <2>1, <2>2, ReferredUp DEF Disputing
  <2> QED BY <1>3, <2>2, <2>3 DEF Refer, DisputeInv, Raised, ThirdPartiesDecide, Disputing
<1>4. ASSUME NEW x \in Agents, InvokeArbiter(x) PROVE Raised' /\ ThirdPartiesDecide'
  BY <1>4 DEF InvokeArbiter, DisputeInv, Raised, ThirdPartiesDecide, Disputing
<1>5. ASSUME NEW r \in Ruling, Resolve(r) PROVE Raised' /\ ThirdPartiesDecide'
  BY <1>5 DEF Resolve, DisputeInv, Raised, ThirdPartiesDecide, Disputing
<1>6. ASSUME ConcludeNoAgreement PROVE Raised' /\ ThirdPartiesDecide'
  BY <1>6 DEF ConcludeNoAgreement, DisputeInv, Raised, ThirdPartiesDecide, Disputing
<1>7. ASSUME UNCHANGED escalation PROVE Raised' /\ ThirdPartiesDecide'
  BY <1>7 DEF escalation, DisputeInv, Raised, ThirdPartiesDecide, Disputing
<1> QED BY <1>1, <1>2, <1>3, <1>4, <1>5, <1>6, <1>7 DEF DisputeInv, DisputeNext, dispute

LEMMA DisputeInvariant == DisputeSpec => []DisputeInv
<1> QED BY DisputeInitially, DisputeStep, PTL DEF DisputeSpec

\* lca finds the lowest common supervisor, from either end, in every chart
\* whatever its size, well-formed elsewhere or not (grant.rs:371).
THEOREM LowestCommonSupervisor == DisputeSpec => []LcaIsLowest
<1>1. DisputeInv => LcaIsLowest
  BY LcaLowest DEF DisputeInv
<1> QED BY <1>1, DisputeInvariant, PTL

\* No party ever has its referred dispute in its hands or arbitrates it, however
\* often the host replaces the chart (escalation.rs:150, 176).
THEOREM ThirdParties == DisputeSpec => []ThirdPartiesDecide
<1>1. DisputeInv => ThirdPartiesDecide
  BY DEF DisputeInv
<1> QED BY <1>1, DisputeInvariant, PTL

\* Referral hands a dispute to an agent above both parties, and to one above the
\* mediator while that is the one the chart makes mediate, unless it is a root
\* (escalation.rs:162).
THEOREM ReferralsClimb == DisputeSpec => ReferralClimbs
<1> DEFINE a == parties[1]
           b == parties[2]
           Climbing == (stage = "raised" /\ stage' = "referred") =>
               /\ mediator' \in Supervisors(a) \cap Supervisors(b)
               /\ StageOneMediator(a, b) = mediator =>
                      IF org[mediator] = None THEN mediator' = mediator
                      ELSE mediator' \in Supervisors(mediator)
<1>1. ASSUME DisputeInv, [DisputeNext]_dispute PROVE Climbing
  <2> SUFFICES ASSUME stage = "raised", stage' = "referred" PROVE Climbing
    OBVIOUS
  <2>1. Refer
    BY <1>1 DEF DisputeNext, dispute, escalation, Raise, Refer, InvokeArbiter, Resolve,
                ConcludeNoAgreement, Reorganise
  <2>2. /\ a \in Agents /\ b \in Agents /\ Rooted(a) /\ Rooted(b)
        /\ mediator' \in Supervisors(a) \cap Supervisors(b)
    BY <1>1, <2>1, ReferredUp
  <2>3. ASSUME StageOneMediator(a, b) = mediator
        PROVE  IF org[mediator] = None THEN mediator' = mediator
               ELSE mediator' \in Supervisors(mediator)
    <3>1. mediator # None /\ Lca(a, b) # None
      BY <1>1, <2>1 DEF DisputeInv, Raised, Refer
    <3>2. mediator = Lca(a, b) /\ mediator \in Agents
      BY <1>1, <2>2, <2>3, <3>1, MediatorIsLca, LcaIsCommon DEF DisputeInv, Supervisors
    <3>3. org[mediator] # None => org[mediator] \in Supervisors(mediator)
      BY <1>1, <3>2, BossSupervises DEF DisputeInv
    <3>4. mediator' = IF org[mediator] # None THEN org[mediator] ELSE mediator
      BY <2>1, <3>2 DEF Refer, Climb
    <3> QED BY <3>3, <3>4
  <2> QED BY <2>2, <2>3
<1> QED BY <1>1, DisputeInvariant, PTL DEF DisputeSpec, ReferralClimbs
=============================================================================

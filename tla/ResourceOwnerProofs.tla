-------------------------- MODULE ResourceOwnerProofs --------------------------
(***************************************************************************)
(* Proofs about the owners of ResourceOwner.  Every invariant rests on what *)
(* the recursion over children visits.  Subtree is defined by a recursive   *)
(* function; BelowIsReach shows that the function exists and is the set     *)
(* that can be reached through children, because a child has a larger       *)
(* number than its parent, and the later lemmas use reachability alone.     *)
(***************************************************************************)
EXTENDS ResourceOwner, FiniteSetTheorems, WellFoundedInduction, TLAPS

-----------------------------------------------------------------------------
(* Numbers.                                                                 *)

\* A set of numbers has a least element.
LEMMA LeastNumber ==
  ASSUME NEW T \in SUBSET Nat, T # {}
  PROVE  \E n \in T : \A m \in T : n <= m
  <1>1. \E R : /\ \E n \in T : \A m \in T : ~(<<m, n>> \in R)
               /\ \A m, n \in Nat : m < n => <<m, n>> \in R
    <2>1. \E n \in T : \A m \in T : ~(<<m, n>> \in OpToRel(<, Nat))
      BY NatLessThanWellFounded, WFMin
    <2>2. ASSUME NEW m \in Nat, NEW n \in Nat, m < n
          PROVE  <<m, n>> \in OpToRel(<, Nat)
      <3>1. <<m, n>> \in Nat \X Nat /\ <<m, n>>[1] = m /\ <<m, n>>[2] = n
        OBVIOUS
      <3>2. QED
        BY <2>2, <3>1, Zenon DEF OpToRel
    <2>3. QED
      BY <2>1, <2>2, Zenon
  <1>2. PICK R : /\ \E n \in T : \A m \in T : ~(<<m, n>> \in R)
                 /\ \A m, n \in Nat : m < n => <<m, n>> \in R
    BY <1>1
  <1>3. PICK n \in T : \A m \in T : ~(<<m, n>> \in R)
    BY <1>2
  <1>4. \A m \in T : ~(m < n)
    BY <1>2, <1>3, Zenon
  <1>5. \A m \in T : m < n \/ n <= m
    OBVIOUS
  <1>6. QED
    BY <1>4, <1>5, Zenon

LEMMA OwnersAreNumbers == Owners \subseteq Nat /\ NoOwner \notin Owners
  BY BoundsAssumption DEF Owners, NoOwner

\* A set of owners has a greatest one.
LEMMA GreatestOwner ==
  ASSUME NEW T \in SUBSET Owners, T # {}
  PROVE  \E o \in T : \A p \in T : p <= o
  <1>1. MaxOwners \in Nat
    BY BoundsAssumption
  <1> DEFINE D == {n \in Nat : n <= MaxOwners /\ MaxOwners - n \in T}
  <1>2. PICK o \in T : TRUE
    OBVIOUS
  <1>3. MaxOwners - o \in D
    BY <1>1 DEF Owners
  <1>4. PICK n \in D : \A m \in D : n <= m
    BY <1>3, LeastNumber
  <1>5. \A p \in T : MaxOwners - p \in D
    BY <1>1 DEF Owners
  <1>6. QED
    BY <1>1, <1>4, <1>5 DEF Owners

-----------------------------------------------------------------------------
(* The recursion over children.                                             *)

\* children leads to owners with larger numbers: there is no cycle.
Downward ==
  /\ children \in [Owners -> SUBSET Owners]
  /\ \A o \in Owners : \A c \in children[o] : o < c

\* A set that the children of its members are in.
Closed(T) == \A x \in T : children[x] \subseteq T

\* The owners that can be reached from o through children.
Reach(o) ==
  {x \in Owners : \A T \in SUBSET Owners : o \in T /\ Closed(T) => x \in T}

LEMMA ReachRoot ==
  ASSUME NEW o \in Owners
  PROVE  Reach(o) \subseteq Owners /\ o \in Reach(o)
  BY DEF Reach

LEMMA ReachLeast ==
  ASSUME NEW o \in Owners, NEW T \in SUBSET Owners, o \in T, Closed(T)
  PROVE  Reach(o) \subseteq T
  BY DEF Reach

LEMMA ReachClosed ==
  ASSUME Downward, NEW o \in Owners
  PROVE  Closed(Reach(o))
  BY DEF Reach, Closed, Downward

\* What is below a member is below the root.
LEMMA ReachTransitive ==
  ASSUME Downward, NEW o \in Owners, NEW p \in Reach(o)
  PROVE  Reach(p) \subseteq Reach(o)
  BY ReachRoot, ReachClosed, ReachLeast

LEMMA ReachUnfolds ==
  ASSUME Downward, NEW o \in Owners
  PROVE  Reach(o) = {o} \cup UNION {Reach(c) : c \in children[o]}
  <1> DEFINE U == {o} \cup UNION {Reach(c) : c \in children[o]}
  <1>1. children[o] \subseteq Owners
    BY DEF Downward
  <1>2. U \subseteq Owners
    BY <1>1, ReachRoot
  <1>3. \A c \in children[o] : c \in Reach(c) /\ Closed(Reach(c))
    BY <1>1, ReachRoot, ReachClosed
  <1>4. Closed(U)
    BY <1>3 DEF Closed
  <1>5. Reach(o) \subseteq U
    BY <1>2, <1>4, ReachLeast
  <1>6. children[o] \subseteq Reach(o)
    BY ReachRoot, ReachClosed DEF Closed
  <1>7. \A c \in children[o] : Reach(c) \subseteq Reach(o)
    BY <1>6, ReachTransitive
  <1>8. U \subseteq Reach(o)
    BY <1>7, ReachRoot
  <1>9. QED
    BY <1>5, <1>8

\* The recursive function that Subtree is defined by exists, and it is Reach.
LEMMA SubtreeIsReach ==
  ASSUME Downward, NEW o \in Owners
  PROVE  Subtree(o) = Reach(o)
  <1> DEFINE Visits(g) ==
        g = [p \in Owners |-> {p} \cup UNION {g[c] : c \in children[p]}]
  <1>1. \E b : Subtree(o) = b[o] /\ b = CHOOSE g : Visits(g)
    BY DEF Subtree
  <1>2. Visits([p \in Owners |-> Reach(p)])
    <2> DEFINE r == [p \in Owners |-> Reach(p)]
    <2>1. ASSUME NEW p \in Owners
          PROVE  Reach(p) = {p} \cup UNION {r[c] : c \in children[p]}
      <3>1. children[p] \subseteq Owners
        BY DEF Downward
      <3>2. \A c \in children[p] : r[c] = Reach(c)
        BY <3>1
      <3>3. {r[c] : c \in children[p]} = {Reach(c) : c \in children[p]}
        BY <3>2
      <3>4. QED
        BY <3>3, ReachUnfolds
    <2>2. QED
      BY <2>1
  <1>3. PICK b : Subtree(o) = b[o] /\ Visits(b)
    <2> HIDE DEF Visits
    <2>1. \E g : Visits(g)
      BY <1>2
    <2>2. QED
      BY <1>1, <2>1
  <1> DEFINE T == {p \in Owners : b[p] # Reach(p)}
  <1>4. ASSUME T # {}
        PROVE  FALSE
    <2>1. PICK p \in T : \A q \in T : q <= p
      BY <1>4, GreatestOwner
    <2>2. \A c \in children[p] : c \in Owners /\ c > p
      BY DEF Downward
    <2>3. \A c \in children[p] : b[c] = Reach(c)
      BY <2>1, <2>2, BoundsAssumption DEF Owners
    <2>4. {b[c] : c \in children[p]} = {Reach(c) : c \in children[p]}
      BY <2>3
    <2>5. b[p] = {p} \cup UNION {b[c] : c \in children[p]}
      BY <1>3
    <2>6. b[p] = Reach(p)
      BY <2>4, <2>5, ReachUnfolds
    <2>7. QED
      BY <2>6
  <1>5. QED
    BY <1>3, <1>4

\* What the later proofs use of a subtree.
LEMMA SubtreeFacts ==
  ASSUME Downward, NEW o \in Owners
  PROVE  /\ Subtree(o) \subseteq Owners
         /\ o \in Subtree(o)
         /\ \A x \in Subtree(o) : children[x] \subseteq Subtree(o)
         /\ \A x \in Subtree(o) : o <= x
         /\ \A x \in Subtree(o) : Subtree(x) \subseteq Subtree(o)
         /\ \A x \in Subtree(o) \ {o} : \E y \in Subtree(o) : x \in children[y]
         /\ \A T \in SUBSET Owners : o \in T /\ Closed(T) => Subtree(o) \subseteq T
  <1>1. /\ Reach(o) \subseteq Owners
        /\ o \in Reach(o)
        /\ Closed(Reach(o))
    BY ReachRoot, ReachClosed
  <1>2. \A p \in Owners : Subtree(p) = Reach(p)
    BY SubtreeIsReach
  <1>3. \A x \in Reach(o) : o <= x
    <2> DEFINE T == {x \in Owners : o <= x}
    <2>1. Closed(T)
      BY BoundsAssumption DEF Closed, Downward, Owners
    <2>2. o \in T
      BY BoundsAssumption DEF Owners
    <2>3. QED
      BY <2>1, <2>2, ReachLeast
  <1>4. \A x \in Reach(o) : Reach(x) \subseteq Reach(o)
    BY ReachTransitive
  <1>5. \A x \in Reach(o) \ {o} : \E y \in Reach(o) : x \in children[y]
    <2> DEFINE T == {x \in Reach(o) : x = o \/ \E y \in Reach(o) : x \in children[y]}
    <2>1. Closed(T)
      BY <1>1 DEF Closed
    <2>2. o \in T /\ T \subseteq Owners
      BY <1>1
    <2>3. Reach(o) \subseteq T
      BY <2>1, <2>2, ReachLeast
    <2>4. QED
      BY <2>3
  <1>6. \A T \in SUBSET Owners : o \in T /\ Closed(T) => Reach(o) \subseteq T
    BY ReachLeast
  <1>7. \A x \in Reach(o) : Subtree(x) = Reach(x)
    BY <1>1, <1>2
  <1>8. QED
    BY <1>1, <1>2, <1>3, <1>4, <1>5, <1>6, <1>7 DEF Closed

-----------------------------------------------------------------------------
(* The inductive invariant.                                                 *)

\* Also of deleted owners: children have larger numbers and name their parent,
\* and what was not made yet is in no tree.
Shape ==
  /\ \A o \in Owners : \A c \in children[o] :
       o < c /\ c <= made /\ parent[c] = o
  /\ \A o \in Owners : o > made => parent[o] = NoOwner /\ children[o] = {}

\* The top owner is the only live one without a parent, and there are no live
\* owners without it.
Rooted ==
  /\ TopTransactionResourceOwner \in live \cup {NoOwner}
  /\ TopTransactionResourceOwner = NoOwner => live = {}
  /\ \A o \in live : parent[o] = NoOwner <=> o = TopTransactionResourceOwner
  /\ \A q \in queries : parent[q] # NoOwner

OnlyLiveHold == \A o \in Owners \ live : held[o] = {}

RInv == TreeConsistent /\ Shape /\ Rooted /\ OnlyLiveHold

LEMMA InvDownward ==
  ASSUME RInv
  PROVE  Downward
  BY DEF RInv, TreeConsistent, TypeOK, Shape, Downward

\* A live owner is below the top one and has no other owners than live ones
\* below it.
LEMMA LiveIsSubtree ==
  ASSUME RInv, TopTransactionResourceOwner # NoOwner
  PROVE  /\ TopTransactionResourceOwner \in Owners
         /\ live = Subtree(TopTransactionResourceOwner)
  <1> DEFINE Top == TopTransactionResourceOwner
             S == Subtree(Top)
  <1>1. Top \in live /\ Top \in Owners /\ live \subseteq Owners
    BY BoundsAssumption DEF RInv, TreeConsistent, TypeOK, Rooted, Owners, NoOwner
  <1>2. /\ Top \in S
        /\ \A x \in S : children[x] \subseteq S
        /\ \A T \in SUBSET Owners : Top \in T /\ Closed(T) => S \subseteq T
    BY <1>1, InvDownward, SubtreeFacts
  <1>3. S \subseteq live
    <2>1. Closed(live)
      BY DEF RInv, TreeConsistent, Closed
    <2>2. QED
      BY <1>1, <1>2, <2>1
  <1>4. live \subseteq S
    <2> SUFFICES ASSUME live \ S # {}
                 PROVE  FALSE
      OBVIOUS
    <2>1. live \ S \in SUBSET Nat
      BY <1>1, OwnersAreNumbers
    <2>2. PICK o \in live \ S : \A p \in live \ S : o <= p
      BY <2>1, LeastNumber
    <2>3. parent[o] # NoOwner
      BY <1>1, <1>2, <2>2 DEF RInv, Rooted
    <2>4. parent[o] \in live /\ o \in children[parent[o]]
      BY <2>2, <2>3 DEF RInv, TreeConsistent
    <2>5. parent[o] < o
      BY <1>1, <2>4 DEF RInv, Shape
    <2>6. parent[o] \notin S
      BY <1>2, <2>2, <2>4
    <2>7. o \in Nat /\ parent[o] \in Nat
      BY <1>1, <2>2, <2>4, OwnersAreNumbers
    <2>8. ~(o <= parent[o])
      BY <2>5, <2>7
    <2>9. QED
      BY <2>2, <2>4, <2>6, <2>8
  <1>5. QED
    BY <1>1, <1>3, <1>4

\* The parent of a live owner that has one is live, and not below it.
LEMMA ParentOutside ==
  ASSUME RInv, NEW o \in live, parent[o] # NoOwner
  PROVE  /\ parent[o] \in live
         /\ parent[o] < o
         /\ o \in children[parent[o]]
         /\ parent[o] \notin Subtree(o)
  <1>1. o \in Owners /\ live \subseteq Owners
    BY BoundsAssumption DEF RInv, TreeConsistent, TypeOK, Owners
  <1>2. parent[o] \in live /\ o \in children[parent[o]]
    BY DEF RInv, TreeConsistent
  <1>3. parent[o] < o
    BY <1>1, <1>2 DEF RInv, Shape
  <1>4. \A x \in Subtree(o) : o <= x
    BY <1>1, InvDownward, SubtreeFacts
  <1>5. o \in Nat /\ parent[o] \in Nat
    BY <1>1, <1>2, OwnersAreNumbers
  <1>6. ~(o <= parent[o])
    BY <1>3, <1>5
  <1>7. QED
    BY <1>2, <1>3, <1>4, <1>6

-----------------------------------------------------------------------------
(* The invariant holds initially and is kept by every action.               *)

LEMMA InvHoldsInitially == Init => RInv
  BY BoundsAssumption
  DEF Init, RInv, TreeConsistent, TypeOK, Shape, Rooted, OnlyLiveHold, Owners, NoOwner

\* An owner that is constructed as the current one: the top owner if there is
\* no transaction, or one below the current owner.
LEMMA ConstructKeepsInv ==
  ASSUME RInv, NEW p \in live \cup {NoOwner}, NEW q \in BOOLEAN,
         p = NoOwner <=> TopTransactionResourceOwner = NoOwner,
         q => p # NoOwner,
         Construct(p, q), CurrentResourceOwner' = made',
         TopTransactionResourceOwner' =
           IF p = NoOwner THEN made' ELSE TopTransactionResourceOwner,
         UNCHANGED <<held, taken>>
  PROVE  RInv'
  <1> DEFINE o == made + 1
  <1>1. /\ made \in Nat /\ o \in Owners /\ made' = o /\ made' \in 0 .. MaxOwners
        /\ MaxOwners \in Nat /\ NoOwner \notin Owners /\ o # NoOwner
        /\ live \subseteq Owners /\ \A x \in live : x <= made
        /\ o > made /\ \A x \in Owners : x \in Nat /\ (x > made' => x > made)
    BY BoundsAssumption DEF Construct, RInv, TreeConsistent, TypeOK, Owners, NoOwner
  <1>2. /\ live' = live \cup {o}
        /\ parent' = [parent EXCEPT ![o] = p]
        /\ children' = IF p = NoOwner THEN children
                       ELSE [children EXCEPT ![p] = @ \cup {o}]
        /\ queries' = IF q THEN queries \cup {o} ELSE queries
    BY DEF Construct
  <1>3. /\ parent \in [Owners -> Owners \cup {NoOwner}]
        /\ children \in [Owners -> SUBSET Owners]
        /\ o \notin live
    BY <1>1 DEF RInv, TreeConsistent, TypeOK
  <1>4. TypeOK'
    <2>1. live' \subseteq 1 .. made' /\ queries' \subseteq 1 .. made'
      BY <1>1, <1>2 DEF RInv, TreeConsistent, TypeOK
    <2>2. parent' \in [Owners -> Owners \cup {NoOwner}]
      BY <1>1, <1>2, <1>3
    <2>3. children' \in [Owners -> SUBSET Owners]
      BY <1>1, <1>2, <1>3
    <2>4. QED
      BY <1>1, <2>1, <2>2, <2>3 DEF RInv, TreeConsistent, TypeOK
  <1>5. /\ parent'[o] = p
        /\ \A x \in Owners \ {o} : parent'[x] = parent[x]
        /\ children'[o] = {}
        /\ \A x \in Owners \ {o} :
             children'[x] = IF x = p THEN children[x] \cup {o} ELSE children[x]
    <2> HIDE DEF o
    <2>1. children[o] = {} /\ p # o
      BY <1>1, <1>3 DEF RInv, Shape
    <2>2. parent'[o] = p /\ \A x \in Owners \ {o} : parent'[x] = parent[x]
      BY <1>1, <1>2, <1>3
    <2>3. CASE p = NoOwner
      BY <1>1, <1>2, <2>1, <2>2, <2>3
    <2>4. CASE p # NoOwner
      <3>1. p \in Owners
        BY <1>1, <2>4
      <3>2. children' = [children EXCEPT ![p] = children[p] \cup {o}]
        BY <1>2, <2>4
      <3>3. \A x \in Owners :
              children'[x] = IF x = p THEN children[x] \cup {o} ELSE children[x]
        BY <1>3, <3>1, <3>2
      <3>4. QED
        BY <1>1, <2>1, <2>2, <3>3
    <2>5. QED
      BY <2>3, <2>4
  <1>6. ASSUME NEW x \in live'
        PROVE  /\ children'[x] = {c \in live' : parent'[c] = x}
               /\ parent'[x] \in live' \cup {NoOwner}
    <2>1. CASE x = o
      <3>1. \A c \in live : parent'[c] # o
        BY <1>1, <1>3, <1>5 DEF RInv, TreeConsistent
      <3>2. {c \in live' : parent'[c] = o} = {}
        BY <1>1, <1>2, <1>3, <1>5, <3>1
      <3>3. QED
        BY <1>2, <1>5, <2>1, <3>2
    <2>2. CASE x # o
      <3>1. x \in live /\ x \in Owners
        BY <1>1, <1>2, <2>2
      <3>2. /\ children[x] = {c \in live : parent[c] = x}
            /\ parent[x] \in live \cup {NoOwner}
        BY <3>1 DEF RInv, TreeConsistent
      <3>3. \A c \in live : parent'[c] = parent[c]
        BY <1>1, <1>3, <1>5
      <3>4. {c \in live' : parent'[c] = x} =
              IF x = p THEN children[x] \cup {o} ELSE children[x]
        BY <1>2, <1>5, <3>2, <3>3
      <3>5. QED
        BY <1>2, <1>5, <2>2, <3>1, <3>2, <3>4
    <2>3. QED
      BY <2>1, <2>2
  <1>7. /\ CurrentResourceOwner' \in live' \cup {NoOwner}
        /\ CurrentResourceOwner' = NoOwner <=> TopTransactionResourceOwner' = NoOwner
    BY <1>1, <1>2
  <1>8. Shape'
    <2>1. ASSUME NEW x \in Owners, NEW c \in children'[x]
          PROVE  x < c /\ c <= made' /\ parent'[c] = x
      <3>1. CASE c \in children[x]
        <4>1. x < c /\ c <= made /\ parent[c] = x /\ c \in Owners
          BY <1>3, <3>1 DEF RInv, Shape
        <4>2. c # o /\ c <= made'
          BY <1>1, <4>1
        <4>3. QED
          BY <1>5, <4>1, <4>2
      <3>2. CASE c \notin children[x]
        <4>1. x # o /\ c = o /\ x = p
          BY <1>5, <3>2
        <4>2. x < o
          BY <1>1, <4>1
        <4>3. QED
          BY <1>1, <1>5, <4>1, <4>2
      <3>3. QED
        BY <3>1, <3>2
    <2>2. ASSUME NEW x \in Owners, x > made'
          PROVE  parent'[x] = NoOwner /\ children'[x] = {}
      <3>1. x > made /\ x # o /\ x # p
        BY <1>1, <2>2
      <3>2. parent[x] = NoOwner /\ children[x] = {}
        BY <3>1 DEF RInv, Shape
      <3>3. QED
        BY <1>5, <3>1, <3>2
    <2>3. QED
      BY <2>1, <2>2 DEF Shape
  <1>9. Rooted'
    <2>1. \A x \in live : parent[x] = NoOwner <=> x = TopTransactionResourceOwner
      BY DEF RInv, Rooted
    <2>2. \A x \in queries : x \in Owners \ {o} /\ parent[x] # NoOwner
      BY <1>1 DEF RInv, Rooted, TreeConsistent, TypeOK, Owners
    <2>3. \A x \in queries' : parent'[x] # NoOwner
      BY <1>2, <1>5, <2>2
    <2>4. TopTransactionResourceOwner \in live \cup {NoOwner}
      BY DEF RInv, Rooted
    <2>5. CASE p = NoOwner
      <3>1. live = {}
        BY <2>5 DEF RInv, Rooted
      <3>2. QED
        BY <1>1, <1>2, <1>5, <2>3, <2>5, <3>1 DEF Rooted
    <2>6. CASE p # NoOwner
      <3>1. \A x \in live : x \in Owners \ {o} /\ parent'[x] = parent[x]
        BY <1>1, <1>3, <1>5
      <3>2. TopTransactionResourceOwner \in live
        BY <2>4, <2>6
      <3>3. QED
        BY <1>1, <1>2, <1>3, <1>5, <2>1, <2>3, <2>6, <3>1, <3>2 DEF Rooted
    <2>7. QED
      BY <2>5, <2>6
  <1>10. OnlyLiveHold'
    BY <1>2 DEF RInv, OnlyLiveHold
  <1>11. QED
    BY <1>4, <1>6, <1>7, <1>8, <1>9, <1>10 DEF RInv, TreeConsistent


\* An owner is destroyed with all that is below it: the top one, or another one
\* whose parent may become the current owner.
LEMMA DestroyKeepsInv ==
  ASSUME RInv, NEW o \in live, Destroy(o),
         CurrentResourceOwner' = parent[o],
         TopTransactionResourceOwner' =
           IF o = TopTransactionResourceOwner THEN NoOwner
           ELSE TopTransactionResourceOwner,
         UNCHANGED taken
  PROVE  RInv'
  <1> DEFINE S == Subtree(o)
  <1>1. /\ o \in Owners /\ live \subseteq Owners /\ NoOwner \notin Owners
        /\ parent \in [Owners -> Owners \cup {NoOwner}]
        /\ children \in [Owners -> SUBSET Owners]
        /\ held \in [Owners -> SUBSET Resources]
    BY OwnersAreNumbers, BoundsAssumption DEF RInv, TreeConsistent, TypeOK, Owners
  <1>2. /\ o \in S
        /\ S \subseteq Owners
        /\ \A x \in S : children[x] \subseteq S
        /\ \A x \in S \ {o} : \E y \in S : x \in children[y]
    BY <1>1, InvDownward, SubtreeFacts
  <1>3. /\ live' = live \ S
        /\ made' = made /\ parent' = parent /\ queries' = queries
        /\ children' = IF parent[o] = NoOwner THEN children
                       ELSE [children EXCEPT ![parent[o]] = @ \ {o}]
    BY DEF Destroy, Unlink
  <1>4. \A x \in Owners : held'[x] = IF x \in S THEN {} ELSE held[x]
    <2>1. UNION {Subtree(x) : x \in {o}} = S
      OBVIOUS
    <2>2. held' = [x \in Owners |-> IF x \in S THEN {} ELSE held[x]]
      BY <2>1 DEF Destroy, Release
    <2>3. QED
      BY <2>2
  <1>5. held' \in [Owners -> SUBSET Resources]
    <2>1. held' = [x \in Owners |-> held'[x]]
      BY DEF Destroy, Release
    <2>2. \A x \in Owners : held'[x] \in SUBSET Resources
      BY <1>1, <1>4
    <2>3. QED
      BY <2>1, <2>2
  <1> HIDE DEF S
  <1>6. \A x \in Owners :
          children'[x] = IF x = parent[o] THEN children[x] \ {o} ELSE children[x]
    BY <1>1, <1>3
  <1>7. parent[o] \in live' \cup {NoOwner}
    BY <1>3, ParentOutside DEF S
  <1>8. TypeOK'
    <2>1. children' \in [Owners -> SUBSET Owners]
      BY <1>1, <1>3
    <2>2. CurrentResourceOwner' \in Owners \cup {NoOwner}
      BY <1>1
    <2>3. QED
      BY <1>3, <1>5, <2>1, <2>2 DEF RInv, TreeConsistent, TypeOK
  <1>9. ASSUME NEW x \in live'
        PROVE  /\ children'[x] = {c \in live' : parent'[c] = x}
               /\ parent'[x] \in live' \cup {NoOwner}
    <2>1. /\ x \in live /\ x \in Owners /\ x \notin S /\ x # o
          /\ children[x] = {c \in live : parent[c] = x}
          /\ parent[x] \in live \cup {NoOwner}
      BY <1>1, <1>2, <1>3 DEF RInv, TreeConsistent
    <2>2. \A c \in S \ {o} : parent[c] \in S
      BY <1>1, <1>2 DEF RInv, Shape
    <2>3. {c \in live \ S : parent[c] = x} = {c \in live : parent[c] = x} \ {o}
      BY <1>2, <2>1, <2>2
    <2>4. children'[x] = children[x] \ {o}
      BY <1>6, <2>1
    <2>5. parent[x] \notin S
      <3>1. CASE parent[x] = NoOwner
        BY <1>1, <1>2, <3>1
      <3>2. CASE parent[x] # NoOwner
        BY <1>2, <2>1, <3>2, ParentOutside
      <3>3. QED
        BY <3>1, <3>2
    <2>6. QED
      BY <1>3, <2>1, <2>3, <2>4, <2>5
  <1>10. parent[o] = NoOwner <=> o = TopTransactionResourceOwner
    BY DEF RInv, Rooted
  <1>11. /\ CurrentResourceOwner' \in live' \cup {NoOwner}
         /\ CurrentResourceOwner' = NoOwner <=> TopTransactionResourceOwner' = NoOwner
    <2>1. TopTransactionResourceOwner # NoOwner
      BY DEF RInv, Rooted
    <2>2. QED
      BY <1>7, <1>10, <2>1
  <1>12. Shape'
    BY <1>3, <1>6 DEF RInv, Shape
  <1>13. Rooted'
    <2>1. /\ TopTransactionResourceOwner \in live
          /\ \A x \in live :
               parent[x] = NoOwner <=> x = TopTransactionResourceOwner
          /\ \A q \in queries : parent[q] # NoOwner
      BY DEF RInv, Rooted
    <2>2. CASE o = TopTransactionResourceOwner
      <3>1. o # NoOwner
        BY <1>1
      <3>2. live = S
        BY <2>2, <3>1, LiveIsSubtree DEF S
      <3>3. QED
        BY <1>3, <2>1, <2>2, <3>2 DEF Rooted
    <2>3. CASE o # TopTransactionResourceOwner
      <3>1. TopTransactionResourceOwner \notin S
        <4>1. ASSUME TopTransactionResourceOwner \in S
              PROVE  FALSE
          <5>1. PICK y \in S : TopTransactionResourceOwner \in children[y]
            BY <1>2, <2>3, <4>1
          <5>2. parent[TopTransactionResourceOwner] = y /\ y \in Owners
            BY <1>2, <5>1 DEF RInv, Shape
          <5>3. QED
            BY <1>1, <2>1, <5>2
        <4>2. QED
          BY <4>1
      <3>2. TopTransactionResourceOwner' \in live' /\ TopTransactionResourceOwner' # NoOwner
        BY <1>1, <1>3, <2>1, <2>3, <3>1
      <3>3. QED
        BY <1>3, <2>1, <2>3, <3>2 DEF Rooted
    <2>4. QED
      BY <2>2, <2>3
  <1>14. OnlyLiveHold'
    BY <1>3, <1>4 DEF RInv, OnlyLiveHold
  <1>15. QED
    BY <1>8, <1>9, <1>11, <1>12, <1>13, <1>14 DEF RInv, TreeConsistent

\* The cleanup of the old transaction leaves the new owner alone.
LEMMA RestartKeepsInv ==
  ASSUME RInv, RestartTransaction
  PROVE  RInv'
  <1> DEFINE o == made + 1
             S == Subtree(TopTransactionResourceOwner)
  <1>1. /\ made \in Nat /\ o \in Owners /\ made' = o /\ made' \in 0 .. MaxOwners
        /\ o > made /\ o # NoOwner /\ 1 .. made \subseteq 1 .. o
        /\ \A x \in Owners : x > made' => x > made
        /\ \A x \in Owners : x <= made => x <= made'
    BY BoundsAssumption
    DEF RestartTransaction, RInv, TreeConsistent, TypeOK, Owners, NoOwner
  <1>2. /\ parent' = parent /\ children' = children /\ queries' = queries
        /\ taken' = taken
        /\ TopTransactionResourceOwner' = o /\ CurrentResourceOwner' = o
        /\ live = S
        /\ live' = {o}
    BY <1>1, LiveIsSubtree DEF RestartTransaction
  <1>3. /\ held' = [x \in Owners |-> IF x \in live THEN {} ELSE held[x]]
        /\ \A x \in Owners : held'[x] = {}
    <2>1. UNION {Subtree(x) : x \in {TopTransactionResourceOwner}} = live
      BY <1>2
    <2>2. held' = [x \in Owners |-> IF x \in live THEN {} ELSE held[x]]
      BY <2>1 DEF RestartTransaction, Release
    <2>3. QED
      BY <2>2 DEF RInv, OnlyLiveHold
  <1> HIDE DEF o, S
  <1>4. held' \in [Owners -> SUBSET Resources]
    BY <1>3
  <1>5. TypeOK'
    <2>1. live' \subseteq 1 .. made' /\ queries' \subseteq 1 .. made'
      BY <1>1, <1>2 DEF RInv, TreeConsistent, TypeOK, Owners
    <2>2. QED
      BY <1>1, <1>2, <1>4, <2>1 DEF RInv, TreeConsistent, TypeOK
  <1>6. parent[o] = NoOwner /\ children[o] = {}
    BY <1>1 DEF RInv, Shape
  <1>7. Shape'
    BY <1>1, <1>2 DEF RInv, Shape, TreeConsistent, TypeOK
  <1>8. Rooted'
    BY <1>1, <1>2, <1>6 DEF RInv, Rooted
  <1>9. TreeConsistent'
    BY <1>1, <1>2, <1>5, <1>6 DEF TreeConsistent
  <1>10. OnlyLiveHold'
    BY <1>3 DEF OnlyLiveHold
  <1>11. QED
    BY <1>7, <1>8, <1>9, <1>10 DEF RInv

\* Actions that change only what live owners hold and which one is current.
LEMMA HoldingsKeepInv ==
  ASSUME RInv, UNCHANGED <<tree, TopTransactionResourceOwner>>,
         taken' \in 0 .. MaxResources,
         CurrentResourceOwner' = CurrentResourceOwner \/ CurrentResourceOwner' \in live,
         held' \in [Owners -> SUBSET Resources],
         \A x \in Owners \ live : held'[x] = {}
  PROVE  RInv'
  <1>1. live \subseteq Owners /\ NoOwner \notin Owners
    BY OwnersAreNumbers, BoundsAssumption DEF RInv, TreeConsistent, TypeOK, Owners
  <1>2. CurrentResourceOwner' \in live => TopTransactionResourceOwner # NoOwner
    BY DEF RInv, Rooted
  <1>3. TypeOK'
    BY <1>1 DEF RInv, TreeConsistent, TypeOK, tree
  <1>4. TreeConsistent'
    BY <1>1, <1>2, <1>3 DEF RInv, TreeConsistent, tree
  <1>5. Shape' /\ Rooted' /\ OnlyLiveHold'
    BY DEF RInv, Shape, Rooted, OnlyLiveHold, tree
  <1>6. QED
    BY <1>4, <1>5 DEF RInv

LEMMA ReleaseHoldings ==
  ASSUME RInv, NEW R \in SUBSET Owners, Release(R)
  PROVE  /\ held' \in [Owners -> SUBSET Resources]
         /\ \A x \in Owners : held'[x] = {} \/ held'[x] = held[x]
         /\ \A x \in Owners : (\A r \in R : x \notin Subtree(r)) => held'[x] = held[x]
  <1> DEFINE all == UNION {Subtree(o) : o \in R}
  <1>1. held' = [o \in Owners |-> IF o \in all THEN {} ELSE held[o]]
    BY DEF Release
  <1>2. held \in [Owners -> SUBSET Resources]
    BY DEF RInv, TreeConsistent, TypeOK
  <1>3. \A x \in Owners : (\A r \in R : x \notin Subtree(r)) => x \notin all
    OBVIOUS
  <1> HIDE DEF all
  <1>4. QED
    BY <1>1, <1>2, <1>3

LEMMA ReleasedAreOwners ==
  ASSUME RInv, NEW s \in Owners
  PROVE  ReleasedByRollback(s) \in SUBSET Owners
  BY DEF RInv, TreeConsistent, TypeOK, ReleasedByRollback

LEMMA InvIsKept ==
  ASSUME RInv, [Next]_vars
  PROVE  RInv'
  <1>0. /\ live \subseteq Owners /\ NoOwner \notin Owners
        /\ held \in [Owners -> SUBSET Resources]
        /\ CurrentResourceOwner \in live \cup {NoOwner}
        /\ TopTransactionResourceOwner \in live \cup {NoOwner}
        /\ CurrentResourceOwner = NoOwner <=> TopTransactionResourceOwner = NoOwner
        /\ taken \in 0 .. MaxResources
    BY OwnersAreNumbers, BoundsAssumption
    DEF RInv, TreeConsistent, TypeOK, Owners, Rooted
  <1>1. CASE StartTransaction
    <2>1. Construct(NoOwner, FALSE)
      BY <1>1 DEF StartTransaction
    <2>2. QED
      BY <1>1, <2>1, ConstructKeepsInv DEF StartTransaction
  <1>2. CASE RestartTransaction
    BY <1>2, RestartKeepsInv
  <1>3. CASE EndTransaction
    <2>1. /\ TopTransactionResourceOwner \in live
          /\ parent[TopTransactionResourceOwner] = NoOwner
      BY <1>0, <1>3 DEF EndTransaction, RInv, Rooted
    <2>2. QED
      BY <1>3, <2>1, DestroyKeepsInv DEF EndTransaction
  <1>4. ASSUME NEW isQuery \in BOOLEAN, Nest(isQuery)
        PROVE  RInv'
    <2>1. /\ CurrentResourceOwner \in live /\ CurrentResourceOwner # NoOwner
          /\ TopTransactionResourceOwner # NoOwner
      BY <1>0, <1>4 DEF Nest
    <2>2. QED
      BY <1>4, <2>1, ConstructKeepsInv DEF Nest
  <1>5. CASE EndQuery
    <2>1. /\ CurrentResourceOwner \in live
          /\ CurrentResourceOwner # TopTransactionResourceOwner
      <3>1. \A q \in queries : q # NoOwner /\ parent[q] # NoOwner
        BY <1>0 DEF RInv, TreeConsistent, TypeOK, Rooted, NoOwner
      <3>2. QED
        BY <1>0, <1>5, <3>1 DEF EndQuery, RInv, Rooted
    <2>2. QED
      BY <1>5, <2>1, DestroyKeepsInv DEF EndQuery
  <1>6. ASSUME NEW s \in Owners, RollbackToSavepoint(s)
        PROVE  RInv'
    <2>1. s \in live /\ Release(ReleasedByRollback(s))
      BY <1>6 DEF RollbackToSavepoint, Savepoints
    <2>2. /\ held' \in [Owners -> SUBSET Resources]
          /\ \A x \in Owners : held'[x] = {} \/ held'[x] = held[x]
      BY <2>1, ReleasedAreOwners, ReleaseHoldings
    <2>3. \A x \in Owners \ live : held'[x] = {}
      BY <2>2 DEF RInv, OnlyLiveHold
    <2>4. QED
      BY <1>0, <1>6, <2>1, <2>2, <2>3, HoldingsKeepInv DEF RollbackToSavepoint
  <1>7. ASSUME NEW s \in Owners, ReleaseSavepoint(s)
        PROVE  RInv'
    <2>1. s \in live /\ s # TopTransactionResourceOwner /\ parent[s] # NoOwner
      BY <1>7 DEF ReleaseSavepoint, Savepoints, RInv, Rooted
    <2>2. QED
      BY <1>7, <2>1, DestroyKeepsInv DEF ReleaseSavepoint, CurrentAfterRelease
  <1>8. CASE Remember
    <2>1. taken' \in 0 .. MaxResources /\ taken' \in Resources
      BY <1>0, <1>8, BoundsAssumption DEF Remember, Resources
    <2>2. PICK o \in live : held' = [held EXCEPT ![o] = @ \cup {taken'}]
      BY <1>0, <1>8 DEF Remember
    <2>3. /\ held' \in [Owners -> SUBSET Resources]
          /\ \A x \in Owners \ live : held'[x] = held[x]
      BY <1>0, <2>1, <2>2
    <2>4. QED
      BY <1>8, <2>1, <2>3, HoldingsKeepInv DEF Remember, RInv, OnlyLiveHold
  <1>9. ASSUME NEW r \in Resources, Forget(r)
        PROVE  RInv'
    <2>1. CurrentResourceOwner \in live
      BY <1>0, <1>9 DEF Forget
    <2>2. held' = [held EXCEPT ![CurrentResourceOwner] = @ \ {r}]
      BY <1>9 DEF Forget
    <2>3. /\ held' \in [Owners -> SUBSET Resources]
          /\ \A x \in Owners \ live : held'[x] = held[x]
      BY <1>0, <2>1, <2>2
    <2>4. QED
      BY <1>0, <1>9, <2>3, HoldingsKeepInv DEF Forget, RInv, OnlyLiveHold
  <1>10. CASE UNCHANGED vars
    <2>1. \A x \in Owners \ live : held'[x] = {}
      BY <1>10 DEF vars, RInv, OnlyLiveHold
    <2>2. QED
      BY <1>0, <1>10, <2>1, HoldingsKeepInv DEF vars
  <1>11. QED
    BY <1>1, <1>2, <1>3, <1>4, <1>5, <1>6, <1>7, <1>8, <1>9, <1>10
    DEF Next, CreateSavepoint, BeginQuery

THEOREM Invariance == Spec => []RInv
  <1>1. Init => RInv
    BY InvHoldsInitially
  <1>2. RInv /\ [Next]_vars => RInv'
    BY InvIsKept
  <1>3. QED
    BY <1>1, <1>2, PTL DEF Spec

-----------------------------------------------------------------------------
(* Theorems.                                                                *)

\* The links between live owners agree in both directions and neither they nor
\* the current owner point to a deleted one, whatever sequence of transactions,
\* savepoints and queries runs, for any number of owners and resources.
THEOREM Consistent == Spec => []TreeConsistent
  <1>1. RInv => TreeConsistent
    BY DEF RInv
  <1>2. QED
    BY <1>1, Invariance, PTL

\* Every live owner is below the top one and only live owners hold anything: a
\* transaction that ends leaves neither owners nor resources behind.
THEOREM TransactionsEndClean == Spec => []NothingOutlivesTransaction
  <1>1. RInv => NothingOutlivesTransaction
    BY LiveIsSubtree DEF RInv, Rooted, OnlyLiveHold, NothingOutlivesTransaction
  <1>2. QED
    BY <1>1, Invariance, PTL

\* Neither going back to a savepoint nor releasing one takes a resource from an
\* owner that encloses it.
THEOREM EnclosingOwnersKeep == Spec => EnclosingKeepTheirs
  <1>1. ASSUME RInv, NEW s \in Owners, RollbackToSavepoint(s) \/ ReleaseSavepoint(s),
               NEW o \in Enclosing(s)
        PROVE  held'[o] = held[o]
    <2>1. o \in live /\ o # s /\ s \in Subtree(o) /\ s \in live /\ parent[s] # NoOwner
      BY <1>1 DEF Enclosing, RollbackToSavepoint, ReleaseSavepoint, Savepoints, RInv, Rooted
    <2>2. live \subseteq Owners /\ Owners \subseteq Nat
      BY <1>1, OwnersAreNumbers, BoundsAssumption DEF RInv, TreeConsistent, TypeOK, Owners
    <2>3. Downward
      BY <1>1, InvDownward
    <2>4. CASE ReleaseSavepoint(s)
      <3>1. ASSUME o \in Subtree(s)
            PROVE  FALSE
        <4>1. s <= o /\ o <= s
          BY <2>1, <2>2, <2>3, <3>1, SubtreeFacts
        <4>2. QED
          BY <2>1, <2>2, <4>1
      <3>2. Release({s}) /\ {s} \in SUBSET Owners
        BY <2>4 DEF ReleaseSavepoint, Destroy
      <3>3. \A r \in {s} : o \notin Subtree(r)
        BY <3>1
      <3>4. QED
        BY <1>1, <2>1, <2>2, <3>2, <3>3, ReleaseHoldings
    <2>5. CASE RollbackToSavepoint(s)
      <3>1. PICK y \in Subtree(o) : s \in children[y]
        BY <2>1, <2>2, <2>3, SubtreeFacts
      <3>2. y \in Owners /\ parent[s] = y /\ o <= y
        BY <1>1, <2>1, <2>2, <2>3, <3>1, SubtreeFacts DEF RInv, Shape
      <3>3. ASSUME NEW r \in ReleasedByRollback(s), o \in Subtree(r)
            PROVE  FALSE
        <4>1. r \in Owners /\ r \in children[y]
          BY <1>1, <2>1, <3>2, <3>3, ReleasedAreOwners DEF ReleasedByRollback
        <4>2. y < r /\ r <= o
          BY <2>3, <3>2, <3>3, <4>1, SubtreeFacts DEF Downward
        <4>3. o \in Nat /\ y \in Nat /\ r \in Nat
          BY <2>1, <2>2, <3>2, <4>1
        <4>4. QED
          BY <3>2, <4>2, <4>3
      <3>4. Release(ReleasedByRollback(s))
        BY <2>5 DEF RollbackToSavepoint
      <3>5. QED
        BY <1>1, <2>1, <2>2, <3>3, <3>4, ReleasedAreOwners, ReleaseHoldings
    <2>6. QED
      BY <1>1, <2>4, <2>5
  <1>2. RInv =>
          \A s \in Owners :
            RollbackToSavepoint(s) \/ ReleaseSavepoint(s)
              => \A o \in Enclosing(s) : held'[o] = held[o]
    BY <1>1
  <1>3. QED
    BY <1>2, Invariance, PTL DEF Spec, EnclosingKeepTheirs
=============================================================================

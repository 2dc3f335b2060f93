----------------------------- MODULE TreesProofs ----------------------------
(***************************************************************************)
(* The demos that work on trees, each for every value of its constants.     *)
(*   expr_demo: the tree walk and the compiled instructions give the same   *)
(*     number, and the stack of the instructions stays as low as the tree.  *)
(*   btree_search_demo.c: the search ends at the position of its key, also  *)
(*     when leaves are split while it is under way.                         *)
(*   or_flatten: the flattened list means what the nested ORs mean, and     *)
(*     owns every node below them.                                          *)
(***************************************************************************)
EXTENDS Exprs, BTreeSearch, OrFlatten,
        FiniteSetTheorems, SequenceTheorems, WellFoundedInduction, TLAPS

-----------------------------------------------------------------------------
(* Induction over the numbers up to n, and lists.                           *)

LEMMA LeastExists ==
  ASSUME NEW T, T \subseteq Nat, T # {}
  PROVE  \E x \in T : \A y \in T : x <= y
  <1>1. \E x \in T : \A y \in T : ~ (<<y, x>> \in OpToRel(<, Nat))
    BY NatLessThanWellFounded, WFMin
  <1>2. PICK x \in T : \A y \in T : ~ (<<y, x>> \in OpToRel(<, Nat))
    BY <1>1
  <1>3. ASSUME NEW y \in T PROVE x <= y
    <2>1. x \in Nat /\ y \in Nat
      OBVIOUS
    <2>2. ~ (y < x)
      BY <1>2, <2>1 DEF OpToRel
    <2>3. QED
      BY <2>1, <2>2
  <1>4. QED
    BY <1>3

LEMMA UpTo ==
  ASSUME NEW n \in Nat, NEW T, 0 \in T, \A m \in 1 .. n : m - 1 \in T => m \in T
  PROVE  \A m \in 0 .. n : m \in T
  <1> SUFFICES ASSUME (0 .. n) \ T # {}
               PROVE  FALSE
    OBVIOUS
  <1>0. (0 .. n) \ T \subseteq Nat
    OBVIOUS
  <1>1. PICK m \in (0 .. n) \ T : \A k \in (0 .. n) \ T : m <= k
    BY <1>0, LeastExists
  <1>2. m # 0 /\ m \in 1 .. n /\ m - 1 \in 0 .. n
    BY <1>1
  <1>3. m - 1 \in T
    BY <1>1, <1>2
  <1>4. QED
    BY <1>1, <1>2, <1>3

LEMMA ListedIsSeq ==
  ASSUME NEW S, NEW n \in Nat, NEW f \in [1 .. n -> S]
  PROVE  f \in Seq(S)
  <1>1. f \in UNION {[1 .. k -> S] : k \in Nat}
    BY Zenon
  <1>2. QED
    BY <1>1, SeqDef, Zenon

-----------------------------------------------------------------------------
(* The trees of Exprs, level by level.                                      *)

Level(depth, below) ==
  OperandNodes \cup IF depth = 0 THEN {} ELSE OpNodesAbove(below[depth - 1])

LEMMA LevelsExist == \E f : f = [depth \in 0 .. Nesting |-> Level(depth, f)]
  <1> DEFINE T == {m \in 0 .. Nesting : \E f : f = [depth \in 0 .. m |-> Level(depth, f)]}
  <1>0. Nesting \in Nat
    BY ExprAssumption
  <1>1. 0 \in T
    <2> DEFINE f == [depth \in 0 .. 0 |-> OperandNodes]
    <2>1. \A g : \A depth \in 0 .. 0 : Level(depth, g) = OperandNodes
      BY DEF Level
    <2>2. f = [depth \in 0 .. 0 |-> Level(depth, f)]
      BY <2>1, Zenon
    <2>3. \E g : g = [depth \in 0 .. 0 |-> Level(depth, g)]
      BY <2>2, Zenon
    <2>4. QED
      BY <1>0, <2>3
  <1>2. ASSUME NEW m \in 1 .. Nesting, m - 1 \in T
        PROVE  m \in T
    <2>1. PICK f : f = [depth \in 0 .. m - 1 |-> Level(depth, f)]
      BY <1>2
    <2> DEFINE g == [depth \in 0 .. m |-> IF depth = m THEN Level(m, f) ELSE f[depth]]
    <2>2. ASSUME NEW depth \in 0 .. m
          PROVE  g[depth] = Level(depth, g)
      <3>1. g[depth] = Level(depth, f)
        <4> HIDE DEF Level
        <4>1. CASE depth = m
          BY <4>1
        <4>2. CASE depth # m
          <5>1. depth \in 0 .. m - 1
            BY <4>2
          <5>2. g[depth] = f[depth]
            BY <4>2
          <5>3. f[depth] = Level(depth, f)
            BY <2>1, <5>1
          <5>4. QED
            BY <5>2, <5>3
        <4>3. QED
          BY <4>1, <4>2
      <3>2. CASE depth = 0
        BY <3>1, <3>2 DEF Level
      <3>3. CASE depth # 0
        <4>1. g[depth - 1] = f[depth - 1]
          BY <3>3
        <4> HIDE DEF g
        <4>2. Level(depth, g) = Level(depth, f)
          BY <4>1 DEF Level
        <4>3. QED
          BY <3>1, <4>2
      <3>4. QED
        BY <3>2, <3>3
    <2>3. g = [depth \in 0 .. m |-> Level(depth, g)]
      <3>1. g = [depth \in 0 .. m |-> g[depth]]
        OBVIOUS
      <3> HIDE DEF g, Level
      <3>2. QED
        BY <2>2, <3>1, Zenon
    <2>4. m \in 0 .. Nesting
      OBVIOUS
    <2>5. \E h : h = [depth \in 0 .. m |-> Level(depth, h)]
      <3> HIDE DEF g
      <3> QED BY <2>3, Zenon
    <2>6. QED
      BY <2>4, <2>5
  <1>3. Nesting \in T
    <2> HIDE DEF T
    <2>1. \A m \in 0 .. Nesting : m \in T
      BY <1>0, <1>1, <1>2, UpTo
    <2>2. QED
      BY <1>0, <2>1
  <1>4. QED
    BY <1>3, Zenon

LEMMA NodesAre == Nodes = [depth \in 0 .. Nesting |-> Level(depth, Nodes)]
  <1>1. Nodes = CHOOSE f : f = [depth \in 0 .. Nesting |-> Level(depth, f)]
    BY Zenon DEF Nodes, Level
  <1>2. QED
    BY <1>1, LevelsExist, Zenon

LEMMA NodesAt ==
  /\ Nodes[0] = OperandNodes
  /\ \A m \in 1 .. Nesting :
       Nodes[m] = OperandNodes \cup OpNodesAbove(Nodes[m - 1])
  <1>0. Nesting \in Nat
    BY ExprAssumption
  <1>1. \A m \in 0 .. Nesting : Nodes[m] = Level(m, Nodes)
    BY NodesAre, Zenon
  <1>2. QED
    BY <1>0, <1>1 DEF Level

LEMMA NodesGrow == \A m \in 1 .. Nesting : Nodes[m - 1] \subseteq Nodes[m]
  <1> DEFINE T == {m \in 0 .. Nesting : m = 0 \/ Nodes[m - 1] \subseteq Nodes[m]}
  <1>0. Nesting \in Nat
    BY ExprAssumption
  <1>1. 0 \in T
    BY <1>0
  <1>2. ASSUME NEW m \in 1 .. Nesting, m - 1 \in T
        PROVE  m \in T
    <2>1. CASE m = 1
      BY <2>1, NodesAt
    <2>2. CASE m # 1
      <3>1. m - 1 \in 1 .. Nesting /\ Nodes[(m - 1) - 1] \subseteq Nodes[m - 1]
        BY <1>2, <2>2
      <3>2. QED
        BY <3>1, NodesAt DEF OpNodesAbove
    <2>3. QED
      BY <2>1, <2>2
  <1>3. \A m \in 0 .. Nesting : m \in T
    <2> HIDE DEF T
    <2> QED BY <1>0, <1>1, <1>2, UpTo
  <1>4. QED
    BY <1>3

LEMMA NodesInTrees == \A m \in 0 .. Nesting : Nodes[m] \subseteq Trees
  <1> DEFINE T == {k \in 0 .. Nesting : Nodes[Nesting - k] \subseteq Trees}
  <1>0. Nesting \in Nat
    BY ExprAssumption
  <1>1. 0 \in T
    BY <1>0 DEF Trees
  <1>2. ASSUME NEW k \in 1 .. Nesting, k - 1 \in T
        PROVE  k \in T
    <2>1. Nesting - (k - 1) \in 1 .. Nesting /\ (Nesting - (k - 1)) - 1 = Nesting - k
      BY <1>0
    <2>2. Nodes[Nesting - k] \subseteq Nodes[Nesting - (k - 1)]
      BY <2>1, NodesGrow
    <2>3. QED
      BY <1>2, <2>2
  <1>3. \A k \in 0 .. Nesting : k \in T
    <2> HIDE DEF T
    <2> QED BY <1>0, <1>1, <1>2, UpTo
  <1>4. QED
    <2> SUFFICES ASSUME NEW m \in 0 .. Nesting PROVE Nodes[m] \subseteq Trees
      OBVIOUS
    <2>1. Nesting - m \in T /\ Nesting - (Nesting - m) = m
      BY <1>0, <1>3
    <2>2. QED
      BY <2>1

\* A node is an operand, or an operator above two trees.
Operand(node) ==
  /\ node.type \notin Operators
  /\ \/ node.type = "const" /\ node.value \in Constants
     \/ node.type = "var" /\ node.name \in Used

LEMMA OperandFacts == \A node \in OperandNodes : Operand(node)
  BY DEF OperandNodes, Operand, ConstNode, VarNode, Operators

LEMMA OpFacts ==
  ASSUME NEW op, NEW l, NEW r
  PROVE  /\ OpNode(op, l, r).type = op
         /\ OpNode(op, l, r).left = l /\ OpNode(op, l, r).right = r
  BY DEF OpNode

Operator(node) ==
  /\ node.type \in Operators
  /\ node.left \in Trees /\ node.right \in Trees

LEMMA NodeCases == \A node \in Trees : Operand(node) \/ Operator(node)
  <1> SUFFICES ASSUME NEW node \in Trees, ~ Operand(node)
               PROVE  Operator(node)
    OBVIOUS
  <1>0. Nesting \in Nat
    BY ExprAssumption
  <1>1. node \in Nodes[Nesting] /\ node \notin OperandNodes
    BY OperandFacts DEF Trees
  <1>2. Nesting \in 1 .. Nesting
    BY <1>0, <1>1, NodesAt
  <1>3. PICK op \in Operators, l \in Nodes[Nesting - 1], r \in Nodes[Nesting - 1] :
          node = OpNode(op, l, r)
    BY <1>1, <1>2, NodesAt DEF OpNodesAbove
  <1>4. l \in Trees /\ r \in Trees
    BY <1>2, NodesInTrees
  <1>5. QED
    BY <1>3, <1>4, OpFacts DEF Operator

\* Induction over the trees.
LEMMA TreeInduction ==
  ASSUME NEW T, \A node \in Trees : Operand(node) => node \in T,
         \A node \in Trees : Operator(node) /\ node.left \in T /\ node.right \in T
                               => node \in T
  PROVE  Trees \subseteq T
  <1> DEFINE N == {m \in 0 .. Nesting : Nodes[m] \subseteq T}
  <1>0. Nesting \in Nat
    BY ExprAssumption
  <1>1. OperandNodes \subseteq Trees
    BY <1>0, NodesAt, NodesInTrees
  <1>2. OperandNodes \subseteq T
    BY <1>1, OperandFacts
  <1>3. 0 \in N
    BY <1>0, <1>2, NodesAt
  <1>4. ASSUME NEW m \in 1 .. Nesting, m - 1 \in N
        PROVE  m \in N
    <2>1. Nodes[m - 1] \subseteq T /\ Nodes[m - 1] \subseteq Trees /\ Nodes[m] \subseteq Trees
      BY <1>4, NodesInTrees
    <2>2. ASSUME NEW node \in Nodes[m], node \notin OperandNodes
          PROVE  node \in T
      <3>1. PICK op \in Operators, l \in Nodes[m - 1], r \in Nodes[m - 1] :
              node = OpNode(op, l, r)
        BY <2>2, NodesAt DEF OpNodesAbove
      <3>2. Operator(node) /\ node.left \in T /\ node.right \in T
        BY <2>1, <3>1, OpFacts DEF Operator
      <3>3. QED
        BY <2>1, <3>2
    <2>3. QED
      BY <1>2, <2>2
  <1>5. Nesting \in N
    <2> HIDE DEF N
    <2> QED BY <1>0, <1>3, <1>4, UpTo
  <1>6. QED
    BY <1>5 DEF Trees

\* f follows the trees of D: leaf says what it is of an operand, above what an
\* operator makes of what it is of the two trees below.
Follows(f, D, S, leaf, above) ==
  /\ f \in [D -> S]
  /\ \A node \in D : f[node] = IF node.type \in Operators
                              THEN above[node][<<f[node.left], f[node.right]>>]
                              ELSE leaf[node]

\* Recursion over the trees.
LEMMA TreeRecursion ==
  ASSUME NEW S, NEW leaf \in [Trees -> S], NEW above \in [Trees -> [S \X S -> S]]
  PROVE  \E f : Follows(f, Trees, S, leaf, above)
  <1> DEFINE Step(f, node) == IF node.type \in Operators
                              THEN above[node][<<f[node.left], f[node.right]>>] ELSE leaf[node]
             N == {m \in 0 .. Nesting : \E f : Follows(f, Nodes[m], S, leaf, above)}
  <1>0. Nesting \in Nat
    BY ExprAssumption
  <1>1. 0 \in N
    <2> DEFINE f == [node \in Nodes[0] |-> leaf[node]]
    <2>1. Nodes[0] = OperandNodes /\ Nodes[0] \subseteq Trees
      BY <1>0, NodesAt, NodesInTrees
    <2>2. f \in [Nodes[0] -> S]
      BY <2>1
    <2>3. ASSUME NEW node \in Nodes[0] PROVE f[node] = Step(f, node)
      BY <2>1, OperandFacts DEF Operand
    <2>4. Follows(f, Nodes[0], S, leaf, above)
      <3> HIDE DEF f
      <3> QED BY <2>2, <2>3 DEF Follows
    <2> HIDE DEF f
    <2>5. QED
      BY <1>0, <2>4
  <1>2. ASSUME NEW m \in 1 .. Nesting, m - 1 \in N
        PROVE  m \in N
    <2>0. PICK f : Follows(f, Nodes[m - 1], S, leaf, above)
      BY <1>2
    <2>1. f \in [Nodes[m - 1] -> S] /\ \A node \in Nodes[m - 1] : f[node] = Step(f, node)
      BY <2>0 DEF Follows
    <2> DEFINE g == [node \in Nodes[m] |-> Step(f, node)]
    <2>2. /\ Nodes[m] \subseteq Trees /\ Nodes[m - 1] \subseteq Nodes[m]
          /\ Nodes[m] = OperandNodes \cup OpNodesAbove(Nodes[m - 1])
      BY NodesAt, NodesGrow, NodesInTrees
    <2>3. ASSUME NEW node \in Nodes[m], node.type \in Operators
          PROVE  node.left \in Nodes[m - 1] /\ node.right \in Nodes[m - 1]
      <3>1. node \in OpNodesAbove(Nodes[m - 1])
        BY <2>2, <2>3, OperandFacts DEF Operand
      <3>2. PICK op \in Operators, l \in Nodes[m - 1], r \in Nodes[m - 1] :
              node = OpNode(op, l, r)
        BY <3>1 DEF OpNodesAbove
      <3>3. QED
        BY <3>2, OpFacts
    <2>4. ASSUME NEW node \in Nodes[m] PROVE Step(f, node) \in S
      <3>1. CASE node.type \in Operators
        <4>1. <<f[node.left], f[node.right]>> \in S \X S
          BY <2>1, <2>3, <3>1
        <4>2. QED
          BY <2>2, <3>1, <4>1
      <3>2. CASE node.type \notin Operators
        BY <2>2, <3>2
      <3>3. QED
        BY <3>1, <3>2
    <2>5. g \in [Nodes[m] -> S]
      <3> HIDE DEF Step
      <3> QED BY <2>4
    <2>6. ASSUME NEW node \in Nodes[m - 1] PROVE g[node] = f[node]
      <3> HIDE DEF Step
      <3> QED BY <2>1, <2>2
    <2>7. ASSUME NEW node \in Nodes[m] PROVE g[node] = Step(g, node)
      <3>1. g[node] = Step(f, node)
        OBVIOUS
      <3> HIDE DEF g
      <3>2. CASE node.type \in Operators
        <4>1. g[node.left] = f[node.left] /\ g[node.right] = f[node.right]
          BY <2>3, <2>6, <3>2
        <4>2. QED
          BY <3>1, <3>2, <4>1
      <3>3. CASE node.type \notin Operators
        BY <3>1, <3>3
      <3>4. QED
        BY <3>2, <3>3
    <2>8. Follows(g, Nodes[m], S, leaf, above)
      <3> HIDE DEF g
      <3> QED BY <2>5, <2>7 DEF Follows
    <2> HIDE DEF g
    <2>9. QED
      BY <2>8
  <1>3. Nesting \in N
    <2> HIDE DEF N
    <2>1. \A m \in 0 .. Nesting : m \in N
      BY <1>0, <1>1, <1>2, UpTo
    <2>2. QED
      BY <1>0, <2>1
  <1>4. QED
    BY <1>3 DEF Trees

-----------------------------------------------------------------------------
(* Height, code, value and zero divisors of a tree.                         *)

Higher(l, r) == 1 + IF l < r THEN r ELSE l

LEMMA HeightIs ==
  \A node \in Trees :
    /\ Height[node] \in Nat
    /\ Operator(node) => Height[node] = Higher(Height[node.left], Height[node.right])
  <1> DEFINE Is(f, node) == IF node.type \notin Operators THEN 0
                            ELSE LET l == f[node.left]
                                     r == f[node.right]
                                 IN  1 + (IF l < r THEN r ELSE l)
             leaf == [node \in Trees |-> 0]
             above == [node \in Trees |-> [p \in Nat \X Nat |-> Higher(p[1], p[2])]]
  <1>1. \A l, r \in Nat : Higher(l, r) \in Nat
    BY DEF Higher
  <1>2. leaf \in [Trees -> Nat] /\ above \in [Trees -> [Nat \X Nat -> Nat]]
    BY <1>1
  <1>3. PICK f : Follows(f, Trees, Nat, leaf, above)
    <2> HIDE DEF leaf, above
    <2> QED BY <1>2, TreeRecursion
  <1>4. ASSUME NEW node \in Trees PROVE f[node] = Is(f, node)
    <2>1. CASE Operand(node)
      BY <1>3, <2>1 DEF Operand, Follows
    <2>2. CASE Operator(node)
      <3>1. f[node.left] \in Nat /\ f[node.right] \in Nat
        BY <1>3, <2>2 DEF Operator, Follows
      <3>2. f[node] = Higher(f[node.left], f[node.right])
        BY <1>3, <2>2, <3>1 DEF Operator, Follows
      <3>3. QED
        BY <2>2, <3>2 DEF Operator, Higher
    <2>3. QED
      BY <2>1, <2>2, NodeCases
  <1>5. f = [node \in Trees |-> Is(f, node)]
    <2>1. f = [node \in Trees |-> f[node]]
      BY <1>3 DEF Follows
    <2> HIDE DEF Is
    <2>2. QED
      BY <1>4, <2>1, Zenon
  <1>6. Height = [node \in Trees |-> Is(Height, node)]
    <2>1. \E h : h = [node \in Trees |-> Is(h, node)]
      BY <1>5, Zenon
    <2>2. QED
      BY <2>1, Zenon DEF Height
  <1>7. ASSUME NEW node \in Trees, Operator(node)
        PROVE  Height[node] = Higher(Height[node.left], Height[node.right])
    BY <1>6, <1>7 DEF Operator, Higher
  <1>8. ASSUME NEW node \in Trees, Operand(node) PROVE Height[node] = 0
    BY <1>6, <1>8 DEF Operand
  <1> DEFINE T == {node \in Trees : Height[node] \in Nat}
  <1>9. Trees \subseteq T
    <2>1. \A node \in Trees : Operand(node) => node \in T
      BY <1>8
    <2>2. ASSUME NEW node \in Trees, Operator(node), node.left \in T, node.right \in T
          PROVE  node \in T
      BY <1>1, <1>7, <2>2
    <2> HIDE DEF T
    <2>3. QED
      BY <2>1, <2>2, TreeInduction
  <1>10. QED
    BY <1>7, <1>9

Instruction ==
  {[op |-> "load", node |-> node] : node \in Trees} \cup {[op |-> op] : op \in Operators}

LEMMA CodeIs ==
  \A node \in Trees :
    /\ CompileTreeToFlat[node] \in Seq(Instruction)
    /\ Operand(node) => CompileTreeToFlat[node] = <<[op |-> "load", node |-> node]>>
    /\ Operator(node) => CompileTreeToFlat[node] =
                           CompileTreeToFlat[node.left] \o CompileTreeToFlat[node.right]
                             \o <<[op |-> node.type]>>
  <1> DEFINE Code == CompileTreeToFlat
             S == Seq(Instruction)
             Is(f, node) == IF node.type \in Operators
                            THEN f[node.left] \o f[node.right] \o <<[op |-> node.type]>>
                            ELSE <<[op |-> "load", node |-> node]>>
             leaf == [node \in Trees |-> <<[op |-> "load", node |-> node]>>]
             above == [node \in Trees |-> [p \in S \X S |->
                         IF node.type \in Operators THEN p[1] \o p[2] \o <<[op |-> node.type]>>
                         ELSE <<>>]]
  <1>1. ASSUME NEW node \in Trees, node.type \in Operators, NEW l \in S, NEW r \in S
        PROVE  l \o r \o <<[op |-> node.type]>> \in S
    <2>1. <<[op |-> node.type]>> \in S /\ l \o r \in S
      BY <1>1 DEF Instruction
    <2>2. QED
      BY <2>1
  <1>2. leaf \in [Trees -> S]
    BY DEF Instruction
  <1>3. above \in [Trees -> [S \X S -> S]]
    <2>1. ASSUME NEW node \in Trees, NEW p \in S \X S PROVE above[node][p] \in S
      <3>1. p[1] \in S /\ p[2] \in S
        OBVIOUS
      <3> HIDE DEF S
      <3>2. CASE node.type \in Operators
        BY <1>1, <3>1, <3>2
      <3>3. CASE node.type \notin Operators
        BY <3>3 DEF S
      <3>4. QED
        BY <3>2, <3>3
    <2> HIDE DEF S
    <2>2. QED
      BY <2>1
  <1>4. PICK f : Follows(f, Trees, S, leaf, above)
    <2> HIDE DEF leaf, above, S
    <2> QED BY <1>2, <1>3, TreeRecursion
  <1>5. ASSUME NEW node \in Trees PROVE f[node] = Is(f, node)
    <2>1. CASE Operand(node)
      BY <1>4, <2>1 DEF Operand, Follows
    <2>2. CASE Operator(node)
      <3>1. f[node.left] \in S /\ f[node.right] \in S
        BY <1>4, <2>2 DEF Operator, Follows
      <3>2. f[node] = above[node][<<f[node.left], f[node.right]>>]
        BY <1>4, <2>2 DEF Operator, Follows
      <3> HIDE DEF S
      <3>3. QED
        BY <2>2, <3>1, <3>2 DEF Operator
    <2>3. QED
      BY <2>1, <2>2, NodeCases
  <1>6. f = [node \in Trees |-> Is(f, node)]
    <2>1. f = [node \in Trees |-> f[node]]
      BY <1>4 DEF Follows
    <2> HIDE DEF Is
    <2>2. QED
      BY <1>5, <2>1, Zenon
  <1>7. Code = [node \in Trees |-> Is(Code, node)]
    <2>1. \E h : h = [node \in Trees |-> Is(h, node)]
      BY <1>6, Zenon
    <2>2. QED
      BY <2>1, Zenon DEF CompileTreeToFlat
  <1>8. ASSUME NEW node \in Trees PROVE Code[node] = Is(Code, node)
    <2> HIDE DEF Is, Code
    <2> QED BY <1>7, Zenon
  <1>9. ASSUME NEW node \in Trees, Operator(node)
        PROVE  Code[node] = Code[node.left] \o Code[node.right] \o <<[op |-> node.type]>>
    <2> HIDE DEF Code
    <2> QED BY <1>8, <1>9 DEF Operator
  <1>10. ASSUME NEW node \in Trees, Operand(node)
         PROVE Code[node] = <<[op |-> "load", node |-> node]>>
    <2> HIDE DEF Code
    <2> QED BY <1>8, <1>10 DEF Operand
  <1> DEFINE T == {node \in Trees : Code[node] \in S}
  <1>11. Trees \subseteq T
    <2> HIDE DEF Code
    <2>1. ASSUME NEW node \in Trees, Operand(node) PROVE node \in T
      <3> DEFINE instr == [op |-> "load", node |-> node]
      <3>1. instr \in Instruction
        BY DEF Instruction
      <3>2. Code[node] = <<instr>>
        BY <1>10, <2>1
      <3> HIDE DEF instr
      <3>3. <<instr>> \in S
        BY <3>1
      <3> HIDE DEF S
      <3>4. QED
        BY <3>2, <3>3
    <2>2. ASSUME NEW node \in Trees, Operator(node), node.left \in T, node.right \in T
          PROVE  node \in T
      <3> HIDE DEF S
      <3> QED BY <1>1, <1>9, <2>2 DEF Operator
    <2> HIDE DEF T
    <2>3. QED
      BY <2>1, <2>2, TreeInduction
  <1>12. QED
    <2> HIDE DEF Code
    <2>1. ASSUME NEW node \in Trees PROVE Code[node] \in Seq(Instruction)
      BY <1>11
    <2> HIDE DEF S, T
    <2>2. \A node \in Trees : /\ Code[node] \in Seq(Instruction)
                              /\ Operand(node) => Code[node] = <<[op |-> "load", node |-> node]>>
                              /\ Operator(node) => Code[node] =
                                    Code[node.left] \o Code[node.right] \o <<[op |-> node.type]>>
      BY <1>9, <1>10, <2>1
    <2>3. QED
      BY <2>2, Zenon DEF Code

-----------------------------------------------------------------------------
(* Numbers.                                                                 *)

Numbers == 0 .. P - 1

LEMMA ApplyTyped ==
  ASSUME NEW op \in Operators, NEW a \in Numbers, NEW b \in Numbers, op = "div" => b # 0
  PROVE  Apply(op, a, b) \in Numbers
  <1>1. P \in Nat /\ P # 0 /\ a \in Int /\ b \in Int
    BY ExprAssumption DEF Numbers
  <1>2. ASSUME NEW x \in Int PROVE x % P \in Numbers
    BY <1>1 DEF Numbers
  <1>3. a + b \in Int /\ a - b \in Int /\ a * b \in Int
    BY <1>1
  <1>4. CASE op = "div"
    <2>0. b \in 1 .. P - 1 /\ a \in 0 .. P - 1
      BY <1>4 DEF Numbers
    <2>1. \E q \in 0 .. P - 1 : (q * b) % P = a
      BY <2>0, ExprAssumption
    <2>2. Quotient(a, b) \in 0 .. P - 1
      BY <2>1 DEF Quotient
    <2>3. QED
      BY <1>4, <2>2 DEF Apply, Numbers
  <1>5. CASE op # "div"
    <2>1. Apply(op, a, b) \in {(a + b) % P, (a - b) % P, (a * b) % P}
      BY <1>5 DEF Apply, Operators
    <2>2. QED
      BY <1>2, <1>3, <2>1
  <1>6. QED
    BY <1>4, <1>5

ContextTyped(ctx) == ctx \in Seq([name : Names, value : Numbers])

LEMMA VariableTyped ==
  ASSUME NEW ctx, ContextTyped(ctx), NEW name
  PROVE  GetVariable(ctx, name) \in Numbers
  <1>1. 0 \in Numbers
    BY ExprAssumption DEF Numbers
  <1>2. CASE Slots(ctx, name) # {}
    <2> DEFINE k == CHOOSE i \in Slots(ctx, name) : TRUE
    <2>1. k \in Slots(ctx, name)
      BY <1>2
    <2> HIDE DEF k
    <2> DEFINE R == [name : Names, value : Numbers]
    <2>4. k \in DOMAIN ctx /\ ctx \in Seq(R)
      BY <2>1 DEF Slots, ContextTyped
    <2>5. ctx[k] \in R
      <3> HIDE DEF R
      <3> QED BY <2>4, LenProperties
    <2>2. ctx[k].value \in Numbers
      BY <2>5
    <2>3. QED
      BY <1>2, <2>2 DEF GetVariable, k
  <1>3. QED
    BY <1>1, <1>2 DEF GetVariable

LEMMA WorthTyped ==
  ASSUME NEW ctx, ContextTyped(ctx), NEW node, Operand(node)
  PROVE  Worth(ctx, node) \in Numbers
  BY VariableTyped, ExprAssumption DEF Worth, Operand, Numbers

LEMMA ValueIs ==
  ASSUME NEW ctx, ContextTyped(ctx)
  PROVE  \A node \in Trees :
           /\ EvaluateTree(ctx)[node] \in Numbers
           /\ Operand(node) => EvaluateTree(ctx)[node] = Worth(ctx, node)
           /\ Operator(node) =>
                EvaluateTree(ctx)[node] =
                  IF node.type = "div" /\ EvaluateTree(ctx)[node.right] = 0 THEN 0
                  ELSE Apply(node.type, EvaluateTree(ctx)[node.left],
                             EvaluateTree(ctx)[node.right])
  <1> DEFINE Value == EvaluateTree(ctx)
             Is(f, node) ==
               IF node.type \notin Operators THEN Worth(ctx, node)
               ELSE IF node.type = "div" /\ f[node.right] = 0 THEN 0
               ELSE Apply(node.type, f[node.left], f[node.right])
             Made(node, a, b) == IF node.type = "div" /\ b = 0 THEN 0 ELSE Apply(node.type, a, b)
             leaf == [node \in Trees |-> IF Operand(node) THEN Worth(ctx, node) ELSE 0]
             above == [node \in Trees |-> [p \in Numbers \X Numbers |->
                         IF Operator(node) THEN Made(node, p[1], p[2]) ELSE 0]]
  <1>0. 0 \in Numbers
    BY ExprAssumption DEF Numbers
  <1>1. ASSUME NEW node \in Trees, Operator(node), NEW a \in Numbers, NEW b \in Numbers
        PROVE  Made(node, a, b) \in Numbers
    BY <1>0, <1>1, ApplyTyped DEF Operator
  <1>2. leaf \in [Trees -> Numbers]
    BY <1>0, WorthTyped
  <1>3. above \in [Trees -> [Numbers \X Numbers -> Numbers]]
    <2>1. ASSUME NEW node \in Trees, NEW p \in Numbers \X Numbers
          PROVE  above[node][p] \in Numbers
      <3>1. p[1] \in Numbers /\ p[2] \in Numbers
        OBVIOUS
      <3> HIDE DEF Made
      <3>2. QED
        BY <1>0, <1>1, <3>1
    <2> HIDE DEF Made
    <2>2. QED
      BY <2>1
  <1>4. PICK f : Follows(f, Trees, Numbers, leaf, above)
    <2> HIDE DEF leaf, above
    <2> QED BY <1>2, <1>3, TreeRecursion
  <1>5. ASSUME NEW g, NEW node, Operand(node) PROVE Is(g, node) = Worth(ctx, node)
    BY <1>5 DEF Operand
  <1>6. ASSUME NEW g, NEW node, Operator(node)
        PROVE  Is(g, node) = Made(node, g[node.left], g[node.right])
    BY <1>6 DEF Operator
  <1> HIDE DEF Is, Made
  <1>7. ASSUME NEW node \in Trees PROVE f[node] = Is(f, node)
    <2>1. CASE Operand(node)
      BY <1>4, <1>5, <2>1 DEF Operand, Follows
    <2>2. CASE Operator(node)
      <3>1. f[node.left] \in Numbers /\ f[node.right] \in Numbers
        BY <1>4, <2>2 DEF Operator, Follows
      <3>2. f[node] = above[node][<<f[node.left], f[node.right]>>]
        BY <1>4, <2>2 DEF Operator, Follows
      <3>3. QED
        BY <1>6, <2>2, <3>1, <3>2
    <2>3. QED
      BY <2>1, <2>2, NodeCases
  <1>8. f = [node \in Trees |-> Is(f, node)]
    <2>1. f = [node \in Trees |-> f[node]]
      BY <1>4 DEF Follows
    <2>2. QED
      BY <1>7, <2>1, Zenon
  <1>9. Value = [node \in Trees |-> Is(Value, node)]
    <2>1. \E h : h = [node \in Trees |-> Is(h, node)]
      BY <1>8, Zenon
    <2>2. Value = CHOOSE h : h = [node \in Trees |-> Is(h, node)]
      BY ZenonT(60) DEF EvaluateTree, Is
    <2> HIDE DEF Value
    <2>3. QED
      BY <2>1, <2>2, Zenon
  <1> HIDE DEF Value
  <1>10. ASSUME NEW node \in Trees PROVE Value[node] = Is(Value, node)
    BY <1>9, Zenon
  <1>11. ASSUME NEW node \in Trees, Operator(node)
         PROVE  Value[node] = Made(node, Value[node.left], Value[node.right])
    BY <1>6, <1>10, <1>11
  <1>12. ASSUME NEW node \in Trees, Operand(node) PROVE Value[node] = Worth(ctx, node)
    BY <1>5, <1>10, <1>12
  <1> DEFINE T == {node \in Trees : Value[node] \in Numbers}
  <1>13. Trees \subseteq T
    <2>1. ASSUME NEW node \in Trees, Operand(node) PROVE node \in T
      BY <1>12, <2>1, WorthTyped
    <2>2. ASSUME NEW node \in Trees, Operator(node), node.left \in T, node.right \in T
          PROVE  node \in T
      BY <1>1, <1>11, <2>2
    <2> HIDE DEF T
    <2>3. QED
      BY <2>1, <2>2, TreeInduction
  <1>14. QED
    <2>1. \A node \in Trees :
            /\ Value[node] \in Numbers
            /\ Operand(node) => Value[node] = Worth(ctx, node)
            /\ Operator(node) => Value[node] = Made(node, Value[node.left], Value[node.right])
      BY <1>11, <1>12, <1>13
    <2>2. QED
      BY <2>1, Zenon DEF Value, Made

LEMMA ZeroIs ==
  ASSUME NEW ctx
  PROVE  \A node \in Trees :
           /\ Operand(node) => ~ DividesByZero(ctx)[node]
           /\ Operator(node) =>
                (DividesByZero(ctx)[node] <=>
                   \/ node.type = "div" /\ EvaluateTree(ctx)[node.right] = 0
                   \/ DividesByZero(ctx)[node.left] \/ DividesByZero(ctx)[node.right])
  <1> DEFINE Zero == DividesByZero(ctx)
             Here(node) == node.type = "div" /\ EvaluateTree(ctx)[node.right] = 0
             Is(f, node) == /\ node.type \in Operators
                            /\ Here(node) \/ f[node.left] \/ f[node.right]
             leaf == [node \in Trees |-> FALSE]
             above == [node \in Trees |-> [p \in BOOLEAN \X BOOLEAN |->
                                             Here(node) \/ p[1] \/ p[2]]]
  <1>1. leaf \in [Trees -> BOOLEAN] /\ above \in [Trees -> [BOOLEAN \X BOOLEAN -> BOOLEAN]]
    <2> HIDE DEF Here
    <2> QED OBVIOUS
  <1>2. PICK f : Follows(f, Trees, BOOLEAN, leaf, above)
    <2> HIDE DEF leaf, above
    <2> QED BY <1>1, TreeRecursion
  <1>3. ASSUME NEW node \in Trees PROVE f[node] = Is(f, node)
    <2> HIDE DEF Here
    <2>1. CASE Operand(node)
      <3>1. f[node] = FALSE
        BY <1>2, <2>1 DEF Operand, Follows
      <3>2. Is(f, node) = FALSE
        BY <2>1 DEF Operand
      <3>3. QED
        BY <3>1, <3>2
    <2>2. CASE Operator(node)
      <3>1. f[node.left] \in BOOLEAN /\ f[node.right] \in BOOLEAN
        BY <1>2, <2>2 DEF Operator, Follows
      <3>2. f[node] = above[node][<<f[node.left], f[node.right]>>]
        BY <1>2, <2>2 DEF Operator, Follows
      <3>3. above[node][<<f[node.left], f[node.right]>>]
              = (Here(node) \/ f[node.left] \/ f[node.right])
        BY <3>1
      <3>4. Is(f, node) = (Here(node) \/ f[node.left] \/ f[node.right])
        BY <2>2 DEF Operator
      <3>5. QED
        BY <3>2, <3>3, <3>4
    <2>3. QED
      BY <2>1, <2>2, NodeCases
  <1>4. f = [node \in Trees |-> Is(f, node)]
    <2>1. f = [node \in Trees |-> f[node]]
      BY <1>2 DEF Follows
    <2> HIDE DEF Is
    <2>2. QED
      BY <1>3, <2>1, Zenon
  <1>5. Zero = [node \in Trees |-> Is(Zero, node)]
    <2>1. \E h : h = [node \in Trees |-> Is(h, node)]
      <3> HIDE DEF Is
      <3> QED BY <1>4, Zenon
    <2>2. Zero = CHOOSE h : h = [node \in Trees |-> Is(h, node)]
      BY ZenonT(60) DEF DividesByZero
    <2> HIDE DEF Zero, Is
    <2>3. QED
      BY <2>1, <2>2, Zenon
  <1> HIDE DEF Zero
  <1>6. ASSUME NEW node \in Trees PROVE Zero[node] = Is(Zero, node)
    <2> HIDE DEF Is
    <2> QED BY <1>5, Zenon
  <1>7. ASSUME NEW node \in Trees
        PROVE  /\ Operand(node) => ~ Zero[node]
               /\ Operator(node) => (Zero[node] <=> Here(node) \/ Zero[node.left] \/ Zero[node.right])
    <2>1. node.type \notin Operators => ~ Zero[node]
      BY <1>6
    <2>2. node.type \in Operators => (Zero[node] <=> Here(node) \/ Zero[node.left] \/ Zero[node.right])
      BY <1>6, Zenon
    <2> HIDE DEF Here
    <2>3. QED
      BY <2>1, <2>2, Zenon DEF Operand, Operator
  <1>8. QED
    BY <1>7, Zenon DEF Zero

-----------------------------------------------------------------------------
(* What the instructions of a tree do to a stack.                           *)

Exec(ctx, instr, stk) ==
  IF instr.op = "load" THEN Append(stk, Worth(ctx, instr.node))
  ELSE Append(SubSeq(stk, 1, Len(stk) - 2), Apply(instr.op, stk[Len(stk) - 1], stk[Len(stk)]))

StopsAt(instr, stk) == instr.op = "div" /\ stk[Len(stk)] = 0

\* From at on, tr holds the stacks that the first m instructions leave.
Ran(ctx, code, tr, at, m) ==
  \A i \in 1 .. m : /\ ~ StopsAt(code[i], tr[at + i - 1])
                    /\ tr[at + i] = Exec(ctx, code[i], tr[at + i - 1])

\* What m instructions of a tree make of the stack they begin with.
Does(ctx, node, tr, at, m) ==
  /\ Len(tr[at + m]) \in Nat
  /\ Len(tr[at + m]) <= Len(tr[at]) + Height[node] + 1
  /\ m = Len(CompileTreeToFlat[node]) =>
       /\ tr[at + m] = Append(tr[at], EvaluateTree(ctx)[node])
       /\ ~ DividesByZero(ctx)[node]
  /\ m < Len(CompileTreeToFlat[node]) /\ StopsAt(CompileTreeToFlat[node][m + 1], tr[at + m])
       => DividesByZero(ctx)[node]

DoesAlways(ctx, node) ==
  \A tr : \A at \in Nat : \A m \in 0 .. Len(CompileTreeToFlat[node]) :
    tr[at] \in Seq(Numbers) /\ Ran(ctx, CompileTreeToFlat[node], tr, at, m)
      => Does(ctx, node, tr, at, m)

LEMMA TwoOnTop ==
  ASSUME NEW S, NEW stk \in Seq(S), NEW a \in S, NEW b \in S
  PROVE  LET t == Append(Append(stk, a), b)
         IN  /\ Len(t) = Len(stk) + 2 /\ t[Len(t) - 1] = a /\ t[Len(t)] = b
             /\ SubSeq(t, 1, Len(t) - 2) = stk
  <1> DEFINE u == Append(stk, a)
             t == Append(u, b)
             n == Len(stk)
  <1>1. n \in Nat /\ u \in Seq(S) /\ Len(u) = n + 1 /\ u[n + 1] = a
        /\ \A i \in 1 .. n : u[i] = stk[i]
    BY AppendProperties, LenProperties
  <1>2. t \in Seq(S) /\ Len(t) = n + 2 /\ t[n + 2] = b
        /\ \A i \in 1 .. n + 1 : t[i] = u[i]
    <2> HIDE DEF u
    <2>1. t \in Seq(S) /\ Len(t) = Len(u) + 1 /\ t[Len(u) + 1] = b
          /\ \A i \in 1 .. Len(u) : t[i] = u[i]
      BY <1>1, AppendProperties
    <2> HIDE DEF t, n
    <2>2. QED
      BY <1>1, <2>1
  <1> HIDE DEF t, u
  <1>3. t[n + 1] = a /\ \A i \in 1 .. n : t[i] = stk[i]
    BY <1>1, <1>2
  <1>4. SubSeq(t, 1, n) \in Seq(S) /\ Len(SubSeq(t, 1, n)) = n
        /\ \A i \in 1 .. n : SubSeq(t, 1, n)[i] = t[1 + i - 1]
    <2> HIDE DEF n
    <2> QED BY <1>1, <1>2, SubSeqProperties
  <1>5. SubSeq(t, 1, n) = stk
    <2>1. \A i \in 1 .. n : SubSeq(t, 1, n)[i] = stk[i]
      <3> HIDE DEF n
      <3> QED BY <1>1, <1>3, <1>4
    <2>2. QED
      BY <1>4, <2>1, SeqEqual
  <1>6. Len(t) - 2 = n /\ Len(t) - 1 = n + 1
    <2> HIDE DEF n
    <2> QED BY <1>1, <1>2
  <1>7. Len(t) = Len(stk) + 2 /\ t[Len(t) - 1] = a /\ t[Len(t)] = b
        /\ SubSeq(t, 1, Len(t) - 2) = stk
    BY <1>2, <1>3, <1>5, <1>6
  <1>8. QED
    BY <1>7 DEF t, u

LEMMA OperandDoes ==
  ASSUME NEW ctx, ContextTyped(ctx), NEW node \in Trees, Operand(node)
  PROVE  DoesAlways(ctx, node)
  <1> DEFINE code == CompileTreeToFlat[node]
             instr == [op |-> "load", node |-> node]
  <1>1. code = <<instr>> /\ Len(code) = 1 /\ code[1] = instr
    <2>1. code = <<instr>>
      BY CodeIs, Zenon
    <2> HIDE DEF code, instr
    <2>2. QED
      BY <2>1
  <1>2. /\ EvaluateTree(ctx)[node] = Worth(ctx, node) /\ EvaluateTree(ctx)[node] \in Numbers
        /\ ~ DividesByZero(ctx)[node] /\ Height[node] \in Nat
    BY ValueIs, ZeroIs, HeightIs
  <1>3. instr.op = "load" /\ instr.node = node
    OBVIOUS
  <1> HIDE DEF code, instr
  <1>4. ASSUME NEW tr, NEW at \in Nat, NEW m \in 0 .. 1, tr[at] \in Seq(Numbers),
               Ran(ctx, code, tr, at, m)
        PROVE  Does(ctx, node, tr, at, m)
    <2>1. CASE m = 0
      <3>1. at + 0 = at /\ ~ StopsAt(instr, tr[at])
        BY <1>3 DEF StopsAt
      <3>2. Len(tr[at]) \in Nat
        BY <1>4
      <3>3. QED
        BY <1>1, <1>2, <2>1, <3>1, <3>2 DEF Does, code
    <2>2. CASE m = 1
      <3>1. tr[at + 1] = Exec(ctx, code[1], tr[at + 1 - 1])
        BY <1>4, <2>2 DEF Ran
      <3>2. tr[at + 1] = Append(tr[at], Worth(ctx, node))
        BY <1>1, <1>3, <3>1 DEF Exec
      <3>3. Len(tr[at + 1]) = Len(tr[at]) + 1 /\ Len(tr[at]) \in Nat
        BY <1>2, <1>4, <3>2, AppendProperties
      <3>4. QED
        BY <1>1, <1>2, <2>2, <3>2, <3>3 DEF Does, code
    <2>3. QED
      BY <2>1, <2>2
  <1>5. QED
    BY <1>1, <1>4 DEF DoesAlways, code

\* Where the instructions of the two trees are among those of the operator.
LEMMA CodeParts ==
  ASSUME NEW node \in Trees, Operator(node)
  PROVE  LET left  == CompileTreeToFlat[node.left]
             right == CompileTreeToFlat[node.right]
             code  == CompileTreeToFlat[node]
         IN  /\ Len(left) \in Nat /\ Len(right) \in Nat
             /\ Len(code) = Len(left) + Len(right) + 1
             /\ \A i \in 1 .. Len(left) : code[i] = left[i]
             /\ \A i \in 1 .. Len(right) : code[Len(left) + i] = right[i]
             /\ code[Len(code)].op = node.type
  <1> DEFINE left  == CompileTreeToFlat[node.left]
             right == CompileTreeToFlat[node.right]
             code  == CompileTreeToFlat[node]
             instr == [op |-> node.type]
             last  == <<instr>>
             both  == left \o right
  <1>1. left \in Seq(Instruction) /\ right \in Seq(Instruction) /\ code = both \o last
    BY CodeIs DEF Operator
  <1>2. instr \in Instruction /\ instr.op = node.type
    BY DEF Instruction, Operator
  <1> HIDE DEF instr, left, right
  <1>3. last \in Seq(Instruction) /\ Len(last) = 1 /\ last[1] = instr
    BY <1>2
  <1>4. /\ both \in Seq(Instruction) /\ Len(both) = Len(left) + Len(right)
        /\ \A i \in 1 .. Len(left) + Len(right) :
             both[i] = IF i <= Len(left) THEN left[i] ELSE right[i - Len(left)]
    BY <1>1, ConcatProperties
  <1>5. Len(left) \in Nat /\ Len(right) \in Nat
    BY <1>1, LenProperties
  <1> HIDE DEF both, last, code
  <1>6. /\ Len(code) = Len(both) + 1
        /\ \A i \in 1 .. Len(both) + 1 :
             code[i] = IF i <= Len(both) THEN both[i] ELSE last[i - Len(both)]
    <2>1. /\ Len(both \o last) = Len(both) + Len(last)
          /\ \A i \in 1 .. Len(both) + Len(last) :
               (both \o last)[i] = IF i <= Len(both) THEN both[i] ELSE last[i - Len(both)]
      <3>1. both \in Seq(Instruction) /\ last \in Seq(Instruction)
        BY <1>3, <1>4
      <3>2. QED
        BY <3>1, ConcatProperties
    <2>2. QED
      BY <1>1, <1>3, <2>1
  <1>7. Len(code) = Len(left) + Len(right) + 1
    BY <1>4, <1>5, <1>6
  <1>8. ASSUME NEW i \in 1 .. Len(left) PROVE code[i] = left[i]
    BY <1>4, <1>5, <1>6
  <1>9. ASSUME NEW i \in 1 .. Len(right) PROVE code[Len(left) + i] = right[i]
    <2> DEFINE j == Len(left) + i
    <2>1. j \in 1 .. Len(left) + Len(right) /\ ~ (j <= Len(left)) /\ j - Len(left) = i
      BY <1>5
    <2> HIDE DEF j
    <2>2. code[j] = both[j]
      BY <1>4, <1>5, <1>6, <2>1
    <2>3. both[j] = right[i]
      BY <1>4, <2>1
    <2>4. QED
      BY <2>2, <2>3 DEF j
  <1>10. code[Len(code)] = instr
    BY <1>3, <1>4, <1>5, <1>6
  <1>11. QED
    BY <1>2, <1>5, <1>7, <1>8, <1>9, <1>10 DEF left, right, code

\* A run begun in the middle.
LEMMA RanFrom ==
  ASSUME NEW ctx, NEW code, NEW part, NEW tr, NEW at \in Nat, NEW n \in Nat, NEW m \in Nat,
         Ran(ctx, code, tr, at, n + m), \A i \in 1 .. m : code[n + i] = part[i]
  PROVE  Ran(ctx, part, tr, at + n, m)
  <1> SUFFICES ASSUME NEW i \in 1 .. m
               PROVE  /\ ~ StopsAt(part[i], tr[at + n + i - 1])
                      /\ tr[at + n + i] = Exec(ctx, part[i], tr[at + n + i - 1])
    BY DEF Ran
  <1>1. n + i \in 1 .. n + m /\ at + (n + i) = at + n + i /\ at + (n + i) - 1 = at + n + i - 1
    OBVIOUS
  <1>2. /\ ~ StopsAt(code[n + i], tr[at + (n + i) - 1])
        /\ tr[at + (n + i)] = Exec(ctx, code[n + i], tr[at + (n + i) - 1])
    BY <1>1 DEF Ran
  <1>3. code[n + i] = part[i]
    OBVIOUS
  <1>4. QED
    BY <1>1, <1>2, <1>3

LEMMA AtMost ==
  ASSUME NEW x \in Nat, NEW y \in Nat, NEW g \in Nat, NEW h \in Nat, g + 1 <= h
  PROVE  x <= y + g + 1 => x <= y + h + 1
  OBVIOUS

LEMMA OneMore ==
  ASSUME NEW x \in Nat, NEW y \in Nat, NEW z \in Nat, NEW g \in Nat, NEW h \in Nat,
         g + 1 <= h, z = y + 1
  PROVE  x <= z + g + 1 => x <= y + h + 1
  OBVIOUS

LEMMA OperatorDoes ==
  ASSUME NEW ctx, ContextTyped(ctx), NEW node \in Trees, Operator(node),
         DoesAlways(ctx, node.left), DoesAlways(ctx, node.right)
  PROVE  DoesAlways(ctx, node)
  <1> DEFINE left  == CompileTreeToFlat[node.left]
             right == CompileTreeToFlat[node.right]
             code  == CompileTreeToFlat[node]
             nl == Len(left)
             nr == Len(right)
             a == EvaluateTree(ctx)[node.left]
             b == EvaluateTree(ctx)[node.right]
             Zero(n) == DividesByZero(ctx)[n]
  <1>0. node.left \in Trees /\ node.right \in Trees
    BY DEF Operator
  <1>1. /\ nl \in Nat /\ nr \in Nat /\ Len(code) = nl + nr + 1
        /\ \A i \in 1 .. nl : code[i] = left[i]
        /\ \A i \in 1 .. nr : code[nl + i] = right[i]
        /\ code[nl + nr + 1].op = node.type
    BY CodeParts
  <1>2. /\ a \in Numbers /\ b \in Numbers
        /\ EvaluateTree(ctx)[node] = IF node.type = "div" /\ b = 0 THEN 0
                                      ELSE Apply(node.type, a, b)
        /\ EvaluateTree(ctx)[node] \in Numbers
    BY <1>0, ValueIs
  <1>3. Zero(node) <=> (node.type = "div" /\ b = 0) \/ Zero(node.left) \/ Zero(node.right)
    BY ZeroIs
  <1>4. /\ Height[node] \in Nat /\ Height[node.left] \in Nat /\ Height[node.right] \in Nat
        /\ Height[node.left] + 1 <= Height[node] /\ Height[node.right] + 1 <= Height[node]
    BY <1>0, HeightIs DEF Higher
  <1>5. node.type \in Operators /\ node.type # "load"
    BY DEF Operator, Operators
  <1> HIDE DEF left, right, code, nl, nr, a, b, Zero
  <1> SUFFICES ASSUME NEW tr, NEW at \in Nat, NEW m \in 0 .. Len(code),
                      tr[at] \in Seq(Numbers), Ran(ctx, code, tr, at, m)
               PROVE  Does(ctx, node, tr, at, m)
    BY DEF DoesAlways, code
  <1>6. Len(tr[at]) \in Nat
    BY LenProperties
  \* The instructions of the left tree.
  <1>7. ASSUME NEW k \in 0 .. nl, k <= m PROVE Does(ctx, node.left, tr, at, k)
    <2>1. Ran(ctx, left, tr, at, k)
      <3>1. k \in 1 .. k \/ k = 0
        BY <1>1
      <3>2. \A i \in 1 .. k : i \in 1 .. m /\ code[i] = left[i]
        BY <1>1, <1>7
      <3>3. QED
        BY <3>2 DEF Ran
    <2>2. QED
      BY <2>1 DEF DoesAlways, left, nl
  \* Those of the right tree.
  <1>8. ASSUME nl <= m
        PROVE  tr[at + nl] = Append(tr[at], a) /\ ~ Zero(node.left)
    <2>1. Does(ctx, node.left, tr, at, nl)
      BY <1>1, <1>7, <1>8
    <2>2. QED
      BY <2>1 DEF Does, left, nl, a, Zero
  <1>9. ASSUME nl <= m
        PROVE  tr[at + nl] \in Seq(Numbers) /\ Len(tr[at + nl]) = Len(tr[at]) + 1
    <2>1. tr[at + nl] = Append(tr[at], a)
      BY <1>8, <1>9
    <2>2. Append(tr[at], a) \in Seq(Numbers) /\ Len(Append(tr[at], a)) = Len(tr[at]) + 1
      BY <1>2, AppendProperties
    <2>3. QED
      BY <2>1, <2>2
  <1>10. ASSUME NEW k \in 0 .. nr, nl + k <= m PROVE Does(ctx, node.right, tr, at + nl, k)
    <2>1. Ran(ctx, code, tr, at, nl + k)
      <3>1. \A i \in 1 .. nl + k : i \in 1 .. m
        BY <1>1, <1>10
      <3>2. QED
        BY <3>1 DEF Ran
    <2>2. \A i \in 1 .. k : code[nl + i] = right[i]
      BY <1>1
    <2>3. k \in Nat /\ nl <= m /\ at + nl \in Nat
      BY <1>1, <1>10
    <2>4. Ran(ctx, right, tr, at + nl, k)
      BY <1>1, <2>1, <2>2, <2>3, RanFrom
    <2>5. tr[at + nl] \in Seq(Numbers)
      BY <1>9, <2>3
    <2>6. QED
      BY <2>3, <2>4, <2>5 DEF DoesAlways, right, nr
  <1>11. CASE m < nl
    <2>1. Does(ctx, node.left, tr, at, m)
      BY <1>1, <1>7, <1>11
    <2>2. code[m + 1] = left[m + 1]
      BY <1>1, <1>11
    <2>3. /\ Len(tr[at + m]) \in Nat
          /\ Len(tr[at + m]) <= Len(tr[at]) + Height[node] + 1
      <3>1. /\ Len(tr[at + m]) \in Nat
            /\ Len(tr[at + m]) <= Len(tr[at]) + Height[node.left] + 1
        BY <2>1 DEF Does
      <3>2. QED
        BY <1>4, <1>6, <3>1, AtMost
    <2>4. StopsAt(code[m + 1], tr[at + m]) => Zero(node)
      BY <1>3, <1>11, <2>1, <2>2 DEF Does, left, nl, Zero
    <2>5. m # Len(code)
      BY <1>1, <1>11
    <2>6. QED
      BY <2>3, <2>4, <2>5 DEF Does, code, Zero
  <1>12. ASSUME NEW k \in 0 .. nr, nl + k <= m
         PROVE  /\ Len(tr[at + nl + k]) \in Nat
                /\ Len(tr[at + nl + k]) <= Len(tr[at]) + Height[node] + 1
                /\ StopsAt(code[nl + k + 1], tr[at + nl + k]) => Zero(node)
                /\ k = nr => /\ tr[at + nl + k] = Append(Append(tr[at], a), b)
                             /\ ~ Zero(node.left) /\ ~ Zero(node.right)
    <2>1. Does(ctx, node.right, tr, at + nl, k)
      BY <1>10, <1>12
    <2>2. nl <= m
      BY <1>1, <1>12
    <2>3. /\ Len(tr[at + nl + k]) \in Nat
          /\ Len(tr[at + nl + k]) <= Len(tr[at]) + Height[node] + 1
      <3>1. /\ Len(tr[at + nl + k]) \in Nat
            /\ Len(tr[at + nl + k]) <= Len(tr[at + nl]) + Height[node.right] + 1
        BY <2>1 DEF Does
      <3>2. Len(tr[at + nl]) = Len(tr[at]) + 1
        BY <1>9, <2>2
      <3>3. Len(tr[at + nl]) \in Nat
        BY <1>6, <3>2
      <3>4. QED
        BY <1>4, <1>6, <3>1, <3>2, <3>3, OneMore
    <2>4. ASSUME k = nr
          PROVE  /\ tr[at + nl + k] = Append(Append(tr[at], a), b)
                 /\ ~ Zero(node.left) /\ ~ Zero(node.right)
      BY <1>8, <2>1, <2>2, <2>4 DEF Does, right, nr, a, b, Zero
    <2>5. ASSUME StopsAt(code[nl + k + 1], tr[at + nl + k]) PROVE Zero(node)
      <3>1. CASE k < nr
        <4>1. code[nl + k + 1] = right[k + 1]
          <5>1. k + 1 \in 1 .. nr /\ nl + (k + 1) = nl + k + 1
            BY <1>1, <3>1
          <5>2. QED
            BY <1>1, <5>1
        <4>2. QED
          BY <1>3, <2>1, <2>5, <3>1, <4>1 DEF Does, right, nr, Zero
      <3>2. CASE k = nr
        <4>1. code[nl + k + 1].op = node.type
          BY <1>1, <3>2
        <4>2. tr[at + nl + k][Len(tr[at + nl + k])] = b
          BY <1>2, <2>4, <3>2, TwoOnTop
        <4>3. QED
          BY <1>3, <2>5, <4>1, <4>2 DEF StopsAt
      <3>3. QED
        BY <1>1, <3>1, <3>2
    <2>6. QED
      BY <2>3, <2>4, <2>5
  <1>13. CASE m \in nl .. nl + nr
    <2> DEFINE k == m - nl
    <2>1. k \in 0 .. nr /\ nl + k <= m /\ nl + k = m /\ at + nl + k = at + m
      BY <1>1, <1>13
    <2> HIDE DEF k
    <2>2. /\ Len(tr[at + m]) \in Nat
          /\ Len(tr[at + m]) <= Len(tr[at]) + Height[node] + 1
          /\ StopsAt(code[m + 1], tr[at + m]) => Zero(node)
      BY <1>12, <2>1
    <2>3. m # Len(code)
      BY <1>1, <1>13
    <2>4. QED
      BY <2>2, <2>3 DEF Does, code, Zero
  <1>14. CASE m = nl + nr + 1
    <2> DEFINE stk == tr[at + nl + nr]
               instr == code[m]
    <2>1. /\ stk = Append(Append(tr[at], a), b)
          /\ ~ Zero(node.left) /\ ~ Zero(node.right)
      <3>1. nr \in 0 .. nr /\ nl + nr <= m
        BY <1>1, <1>14
      <3>2. QED
        BY <1>12, <3>1
    <2>2. /\ stk[Len(stk) - 1] = a /\ stk[Len(stk)] = b
          /\ SubSeq(stk, 1, Len(stk) - 2) = tr[at]
      BY <1>2, <2>1, TwoOnTop
    <2>3. m \in 1 .. m /\ at + m - 1 = at + nl + nr
      BY <1>1, <1>14
    <2>4. ~ StopsAt(instr, stk) /\ tr[at + m] = Exec(ctx, instr, stk)
      BY <2>3 DEF Ran
    <2>5. instr.op = node.type
      BY <1>1, <1>14
    <2> HIDE DEF stk, instr
    <2>6. ~ (node.type = "div" /\ b = 0)
      BY <2>2, <2>4, <2>5 DEF StopsAt
    <2>7. tr[at + m] = Append(tr[at], EvaluateTree(ctx)[node])
      BY <1>2, <1>5, <2>2, <2>4, <2>5, <2>6 DEF Exec
    <2>8. Len(tr[at + m]) = Len(tr[at]) + 1
      BY <1>2, <2>7, AppendProperties
    <2>9. ~ Zero(node)
      BY <1>3, <2>1, <2>6
    <2>10. m = Len(code) /\ ~ (m < Len(code))
      BY <1>1, <1>14
    <2>11. /\ Len(tr[at + m]) \in Nat
           /\ Len(tr[at + m]) <= Len(tr[at]) + Height[node] + 1
      BY <1>4, <1>6, <2>8
    <2>12. ~ (m < Len(CompileTreeToFlat[node]))
      BY <2>10 DEF code
    <2>13. ~ DividesByZero(ctx)[node]
      BY <2>9 DEF Zero
    <2>14. QED
      BY <2>7, <2>11, <2>12, <2>13 DEF Does
  <1>15. QED
    BY <1>1, <1>11, <1>13, <1>14

LEMMA AlwaysDoes ==
  ASSUME NEW ctx, ContextTyped(ctx), NEW node \in Trees
  PROVE  DoesAlways(ctx, node)
  <1> DEFINE T == {n \in Trees : DoesAlways(ctx, n)}
  <1>1. \A n \in Trees : Operand(n) => n \in T
    BY OperandDoes
  <1>2. \A n \in Trees : Operator(n) /\ n.left \in T /\ n.right \in T => n \in T
    BY OperatorDoes
  <1> HIDE DEF T
  <1>3. Trees \subseteq T
    BY <1>1, <1>2, TreeInduction
  <1>4. QED
    BY <1>3 DEF T

-----------------------------------------------------------------------------
(* The loop of evaluate_flat.                                               *)

\* The first n instructions of the tree are done, and tr holds the stacks they left.
Done(n, tr) ==
  /\ n \in 0 .. Len(CompileTreeToFlat[expr])
  /\ instructions = SubSeq(CompileTreeToFlat[expr], n + 1, Len(CompileTreeToFlat[expr]))
  /\ tr[0] = <<>> /\ tr[n] = operands
  /\ Ran(context, CompileTreeToFlat[expr], tr, 0, n)

ExprInv ==
  /\ ContextTyped(context)
  /\ flat.status \in {"setting", "running", "result"}
  /\ flat.status = "setting" => operands = <<>>
  /\ flat.status # "setting" => expr \in Trees
  /\ flat.status = "running" => \E n, tr : Done(n, tr)
  /\ flat.status = "result" =>
       flat.value = IF DividesByZero(context)[expr] THEN 0 ELSE EvaluateTree(context)[expr]

LEMMA ExprInitInv == ExprInit => ExprInv
  BY DEF ExprInit, ExprInv, ContextTyped

LEMMA SetVariableInv ==
  ASSUME ExprInv, NEW name \in Names, NEW v \in Assigned, SetVariable(name, v)
  PROVE  ExprInv'
  <1> DEFINE R == [name : Names, value : Numbers]
             new == [name |-> name, value |-> v]
  <1>1. context \in Seq(R)
    BY DEF ExprInv, ContextTyped
  <1>2. new \in R
    BY ExprAssumption DEF Numbers
  <1>3. context' \in Seq(R)
    <2> HIDE DEF R, new
    <2>1. CASE context' = [i \in DOMAIN context |->
                             IF i \in Slots(context, name) THEN new ELSE context[i]]
      <3> DEFINE c == [i \in 1 .. Len(context) |->
                         IF i \in Slots(context, name) THEN new ELSE context[i]]
      <3>1. DOMAIN context = 1 .. Len(context) /\ Len(context) \in Nat
            /\ \A i \in 1 .. Len(context) : context[i] \in R
        BY <1>1, LenProperties, ElementOfSeq
      <3>2. c \in [1 .. Len(context) -> R]
        BY <1>2, <3>1
      <3>3. context' = c
        BY <2>1, <3>1, Zenon
      <3> HIDE DEF c
      <3>4. c \in Seq(R)
        BY <3>1, <3>2, ListedIsSeq
      <3>5. QED
        BY <3>3, <3>4
    <2>2. CASE context' = Append(context, new)
      BY <1>1, <1>2, <2>2, AppendProperties
    <2>3. CASE context' = context
      BY <1>1, <2>3
    <2>4. QED
      BY <2>1, <2>2, <2>3 DEF SetVariable, new
  <1>4. ContextTyped(context')
    BY <1>3 DEF ContextTyped
  <1>5. QED
    BY <1>4 DEF ExprInv, SetVariable, ContextTyped

LEMMA CompileInv ==
  ASSUME ExprInv, Compile
  PROVE  ExprInv'
  <1> DEFINE code == CompileTreeToFlat[expr']
             tr == [i \in 0 .. 0 |-> <<>>]
  <1>1. /\ expr' \in Trees /\ instructions' = code /\ context' = context
        /\ operands' = <<>> /\ flat' = [status |-> "running"]
    BY DEF Compile, ExprInv
  <1>2. code \in Seq(Instruction)
    BY <1>1, CodeIs
  <1>3. Len(code) \in Nat /\ code = SubSeq(code, 0 + 1, Len(code))
    <2> HIDE DEF code
    <2>1. SubSeq(code, 1, Len(code)) = code /\ Len(code) \in Nat
      BY <1>2, SubSeqFull, LenProperties
    <2>2. QED
      BY <2>1
  <1>4. tr[0] = <<>> /\ tr[0] = operands'
    BY <1>1
  <1>5. Ran(context', code, tr, 0, 0)
    BY DEF Ran
  <1>6. Done(0, tr)'
    <2> HIDE DEF tr
    <2> QED BY <1>1, <1>3, <1>4, <1>5 DEF Done
  <1>7. flat'.status = "running"
    BY <1>1
  <1>8. QED
    <2> HIDE DEF tr
    <2>1. (\E n, t : Done(n, t))'
      BY <1>6
    <2>2. ContextTyped(context)'
      BY <1>1 DEF ExprInv, ContextTyped
    <2>3. QED
      BY <1>1, <1>7, <2>1, <2>2 DEF ExprInv

\* The next instruction.
LEMMA NextInstruction ==
  ASSUME ExprInv, NEW op, Current(op), NEW n, NEW tr, Done(n, tr)
  PROVE  LET code == CompileTreeToFlat[expr]
         IN  /\ n + 1 \in 1 .. Len(code) /\ Head(instructions) = code[n + 1]
             /\ code[n + 1].op = op
             /\ instructions' = SubSeq(code, (n + 1) + 1, Len(code))
  <1> DEFINE code == CompileTreeToFlat[expr]
             N == Len(code)
             rest == SubSeq(code, n + 1, N)
  <1>1. expr \in Trees /\ code \in Seq(Instruction)
    BY CodeIs DEF ExprInv, Current
  <1>2. N \in Nat /\ n \in 0 .. N /\ instructions = rest /\ instructions # <<>>
    BY <1>1, LenProperties DEF Done, Current
  <1>3. n # N
    <2>1. SUFFICES ASSUME n = N PROVE rest = <<>>
      BY <1>2
    <2> HIDE DEF code
    <2>2. QED
      BY <1>1, <1>2, <2>1, SubSeqEmpty
  <1>4. n + 1 \in 1 .. N
    BY <1>2, <1>3
  <1> HIDE DEF code
  <1>5. /\ rest \in Seq(Instruction) /\ Len(rest) = N - n
        /\ \A i \in 1 .. N - n : rest[i] = code[n + i]
    <2>1. \A i \in (n + 1) .. N : i \in 1 .. Len(code)
      BY <1>2
    <2>2. /\ rest \in Seq(Instruction)
          /\ Len(rest) = IF n + 1 <= N THEN N - (n + 1) + 1 ELSE 0
          /\ \A i \in 1 .. N - (n + 1) + 1 : rest[i] = code[n + 1 + i - 1]
      BY <1>1, <1>2, <2>1, SubSeqProperties
    <2> HIDE DEF N, rest
    <2>3. N - (n + 1) + 1 = N - n /\ n + 1 <= N
      BY <1>2, <1>4
    <2>4. \A i \in 1 .. N - n : n + 1 + i - 1 = n + i
      BY <1>2
    <2>5. QED
      BY <2>2, <2>3, <2>4
  <1> DEFINE more == SubSeq(code, (n + 1) + 1, N)
  <1>6. /\ more \in Seq(Instruction) /\ Len(more) = N - n - 1
        /\ \A i \in 1 .. N - n - 1 : more[i] = code[n + 1 + i]
    <2>1. \A i \in (n + 2) .. N : i \in 1 .. Len(code)
      BY <1>2
    <2>2. (n + 1) + 1 = n + 2
      BY <1>2
    <2>3. /\ more \in Seq(Instruction)
          /\ Len(more) = IF n + 2 <= N THEN N - (n + 2) + 1 ELSE 0
          /\ \A i \in 1 .. N - (n + 2) + 1 : more[i] = code[n + 2 + i - 1]
      BY <1>1, <1>2, <2>1, <2>2, SubSeqProperties
    <2> HIDE DEF N, more
    <2>4. Len(more) = N - n - 1
      BY <1>2, <1>4, <2>3
    <2>5. N - (n + 2) + 1 = N - n - 1 /\ \A i \in 1 .. N - n - 1 : n + 2 + i - 1 = n + 1 + i
      BY <1>2
    <2>6. QED
      BY <2>3, <2>4, <2>5
  <1> HIDE DEF N, rest, more
  <1>7. rest # <<>> /\ Head(rest) = rest[1]
    BY <1>2, <1>5, HeadTailProperties
  <1>8. Head(rest) = code[n + 1]
    BY <1>2, <1>4, <1>5, <1>7
  <1>9. /\ Tail(rest) \in Seq(Instruction) /\ Len(Tail(rest)) = Len(rest) - 1
        /\ \A i \in 1 .. Len(Tail(rest)) : Tail(rest)[i] = rest[i + 1]
    BY <1>5, <1>7, HeadTailProperties
  <1>10. Tail(rest) = more
    <2>1. Len(Tail(rest)) = Len(more) /\ Len(more) = N - n - 1
      BY <1>2, <1>5, <1>6, <1>9
    <2>2. ASSUME NEW i \in 1 .. N - n - 1 PROVE Tail(rest)[i] = more[i]
      <3>1. i \in 1 .. Len(Tail(rest)) /\ i + 1 \in 1 .. N - n /\ n + (i + 1) = n + 1 + i
        BY <1>2, <2>1
      <3>2. QED
        BY <1>5, <1>6, <1>9, <3>1
    <2>3. QED
      BY <1>6, <1>9, <2>1, <2>2, SeqEqual
  <1>11. QED
    BY <1>2, <1>4, <1>8, <1>10 DEF Current, code, N, more

\* An instruction that does what Exec says.
LEMMA ExecutedInv ==
  ASSUME ExprInv, NEW op, Current(op), UNCHANGED flat,
         ~ StopsAt(Head(instructions), operands),
         operands' = Exec(context, Head(instructions), operands)
  PROVE  ExprInv'
  <1> DEFINE code == CompileTreeToFlat[expr]
  <1>1. flat.status = "running" /\ UNCHANGED <<context, expr>>
    BY DEF Current
  <1>2. PICK n, tr : Done(n, tr)
    BY <1>1 DEF ExprInv
  <1>3. /\ n + 1 \in 1 .. Len(code) /\ Head(instructions) = code[n + 1]
        /\ instructions' = SubSeq(code, (n + 1) + 1, Len(code))
    BY <1>2, NextInstruction
  <1>4. code \in Seq(Instruction) /\ Len(code) \in Nat
    BY <1>1, CodeIs, LenProperties DEF ExprInv
  <1>5. n \in Nat /\ n + 1 \in 0 .. Len(code)
    BY <1>2, <1>3, <1>4 DEF Done
  <1>13. PICK longer : longer = [i \in 0 .. n + 1 |-> IF i = n + 1 THEN operands' ELSE tr[i]]
    OBVIOUS
  <1>6. longer[0] = <<>> /\ longer[n + 1] = operands' /\ \A i \in 0 .. n : longer[i] = tr[i]
    BY <1>2, <1>5, <1>13 DEF Done
  <1> HIDE DEF code
  <1>7. tr[n] = operands /\ Ran(context, code, tr, 0, n)
    BY <1>2 DEF Done, code
  <1>8. Ran(context, code, longer, 0, n + 1)
    <2> SUFFICES ASSUME NEW i \in 1 .. n + 1
                 PROVE  /\ ~ StopsAt(code[i], longer[i - 1])
                        /\ longer[i] = Exec(context, code[i], longer[i - 1])
      BY <1>5 DEF Ran
    <2>1. CASE i = n + 1
      <3>1. longer[i - 1] = operands /\ longer[i] = operands'
        BY <1>5, <1>6, <1>7, <2>1
      <3>2. QED
        BY <1>3, <2>1, <3>1
    <2>2. CASE i # n + 1
      <3>1. i \in 1 .. n /\ i \in 0 .. n /\ i - 1 \in 0 .. n /\ 0 + i = i /\ 0 + i - 1 = i - 1
        BY <1>5, <2>2
      <3>2. ~ StopsAt(code[i], tr[i - 1]) /\ tr[i] = Exec(context, code[i], tr[i - 1])
        BY <1>7, <3>1 DEF Ran
      <3>3. QED
        BY <1>6, <3>1, <3>2
    <2>3. QED
      BY <2>1, <2>2
  <1>9. Done(n + 1, longer)'
    BY <1>1, <1>3, <1>5, <1>6, <1>8 DEF Done, code
  <1>10. (\E k, t : Done(k, t))'
    BY <1>9
  <1>11. ContextTyped(context)'
    BY <1>1 DEF ExprInv, ContextTyped
  <1>12. QED
    BY <1>1, <1>10, <1>11 DEF ExprInv

LEMMA LoadInv ==
  ASSUME ExprInv, Load
  PROVE  ExprInv'
  <1>1. /\ Current("load") /\ UNCHANGED flat /\ Head(instructions).op = "load"
        /\ operands' = Append(operands, Worth(context, Head(instructions).node))
    BY DEF Load, Current
  <1>2. /\ ~ StopsAt(Head(instructions), operands)
        /\ operands' = Exec(context, Head(instructions), operands)
    BY <1>1 DEF StopsAt, Exec
  <1>3. QED
    BY <1>1, <1>2, ExecutedInv

\* What a run that has come so far shows.
LEMMA DoneShows ==
  ASSUME ExprInv, NEW n, NEW tr, Done(n, tr), flat.status = "running"
  PROVE  /\ Does(context, expr, tr, 0, n) /\ tr[0 + n] = operands /\ tr[0] = <<>>
         /\ n \in 0 .. Len(CompileTreeToFlat[expr])
  <1>1. expr \in Trees /\ ContextTyped(context)
    BY DEF ExprInv
  <1>2. DoesAlways(context, expr)
    BY <1>1, AlwaysDoes
  <1>3. /\ tr[0] = <<>> /\ tr[0] \in Seq(Numbers) /\ n \in 0 .. Len(CompileTreeToFlat[expr])
        /\ Ran(context, CompileTreeToFlat[expr], tr, 0, n) /\ tr[n] = operands
    BY DEF Done
  <1>4. Len(CompileTreeToFlat[expr]) \in Nat
    BY <1>1, CodeIs, LenProperties
  <1>5. 0 + n = n
    BY <1>3, <1>4
  <1>6. Does(context, expr, tr, 0, n)
    BY <1>2, <1>3 DEF DoesAlways
  <1>7. QED
    BY <1>3, <1>5, <1>6

LEMMA OperateInv ==
  ASSUME ExprInv, NEW op \in Operators, Operate(op)
  PROVE  ExprInv'
  <1>1. Current(op) /\ Head(instructions).op = op /\ op # "load"
        /\ flat.status = "running" /\ UNCHANGED <<context, expr>>
    BY DEF Operate, Current, Operators
  <1>2. CASE /\ op # "div" \/ Popped[2] # 0
             /\ operands' = Append(Below, Apply(op, Popped[1], Popped[2]))
             /\ UNCHANGED flat
    <2>1. Popped[1] = operands[Len(operands) - 1] /\ Popped[2] = operands[Len(operands)]
          /\ Below = SubSeq(operands, 1, Len(operands) - 2)
      BY DEF Popped, Below
    <2>2. /\ ~ StopsAt(Head(instructions), operands)
          /\ operands' = Exec(context, Head(instructions), operands)
      BY <1>1, <1>2, <2>1 DEF StopsAt, Exec
    <2>3. QED
      BY <1>1, <1>2, <2>2, ExecutedInv
  <1>3. CASE /\ op = "div" /\ Popped[2] = 0
             /\ operands' = <<>>
             /\ flat' = [status |-> "result", value |-> 0]
    <2>1. PICK n, tr : Done(n, tr)
      BY <1>1 DEF ExprInv
    <2>2. n + 1 \in 1 .. Len(CompileTreeToFlat[expr])
          /\ Head(instructions) = CompileTreeToFlat[expr][n + 1]
      BY <1>1, <2>1, NextInstruction
    <2>3. StopsAt(CompileTreeToFlat[expr][n + 1], operands)
      BY <1>1, <1>3, <2>2 DEF StopsAt, Popped
    <2>4. Does(context, expr, tr, 0, n) /\ tr[0 + n] = operands
          /\ n \in 0 .. Len(CompileTreeToFlat[expr])
      BY <1>1, <2>1, DoneShows
    <2>5. n < Len(CompileTreeToFlat[expr])
      <3>1. Len(CompileTreeToFlat[expr]) \in Nat
        BY <1>1, CodeIs, LenProperties DEF ExprInv
      <3>2. QED
        BY <2>2, <2>4, <3>1
    <2>6. DividesByZero(context)[expr]
      BY <2>3, <2>4, <2>5 DEF Does
    <2>7. DividesByZero(context')[expr']
      BY <1>1, <2>6
    <2>8. ContextTyped(context') /\ expr' \in Trees
      BY <1>1 DEF ExprInv
    <2>9. flat'.status = "result" /\ flat'.value = 0
      BY <1>3
    <2>10. QED
      BY <2>7, <2>8, <2>9 DEF ExprInv
  <1>4. QED
    BY <1>2, <1>3 DEF Operate

LEMMA FinishInv ==
  ASSUME ExprInv, Finish
  PROVE  ExprInv'
  <1> DEFINE code == CompileTreeToFlat[expr]
             v == EvaluateTree(context)[expr]
  <1>1. /\ flat.status = "running" /\ instructions = <<>> /\ UNCHANGED <<context, expr>>
        /\ flat' = [status |-> "result",
                    value |-> IF Len(operands) = 1 THEN Head(operands) ELSE 0]
    BY DEF Finish
  <1>2. expr \in Trees /\ ContextTyped(context)
    BY <1>1 DEF ExprInv
  <1>3. PICK n, tr : Done(n, tr)
    BY <1>1 DEF ExprInv
  <1>4. code \in Seq(Instruction) /\ Len(code) \in Nat
    BY <1>2, CodeIs, LenProperties
  <1>5. Does(context, expr, tr, 0, n) /\ tr[0 + n] = operands /\ tr[0] = <<>>
        /\ n \in 0 .. Len(code)
    BY <1>1, <1>3, DoneShows
  <1>6. n = Len(code)
    <2>1. SubSeq(code, n + 1, Len(code)) = <<>>
      BY <1>1, <1>3 DEF Done
    <2> HIDE DEF code
    <2>2. ASSUME n # Len(code) PROVE FALSE
      <3>1. \A i \in (n + 1) .. Len(code) : i \in 1 .. Len(code)
        BY <1>4, <1>5
      <3>2. Len(SubSeq(code, n + 1, Len(code))) = Len(code) - (n + 1) + 1
        BY <1>4, <1>5, <2>2, <3>1, SubSeqProperties
      <3>3. Len(SubSeq(code, n + 1, Len(code))) = 0
        BY <2>1, EmptySeq
      <3>4. Len(code) - (n + 1) + 1 = 0
        BY <3>2, <3>3
      <3>5. QED
        BY <1>4, <1>5, <2>2, <3>4
    <2>3. QED
      BY <2>2
  <1>7. operands = Append(<<>>, v) /\ ~ DividesByZero(context)[expr]
    BY <1>5, <1>6 DEF Does
  <1>8. v \in Numbers
    BY <1>2, ValueIs
  <1> HIDE DEF v
  <1>9. Len(operands) = 1 /\ Head(operands) = v
    BY <1>7, <1>8
  <1>10. /\ flat'.status = "result" /\ flat'.value = EvaluateTree(context')[expr']
         /\ ~ DividesByZero(context')[expr']
    BY <1>1, <1>7, <1>9 DEF v
  <1>11. ContextTyped(context') /\ expr' \in Trees
    BY <1>1, <1>2
  <1>12. QED
    BY <1>10, <1>11 DEF ExprInv

LEMMA ExprNextInv == ExprInv /\ [ExprNext]_exprVars => ExprInv'
  <1> SUFFICES ASSUME ExprInv, [ExprNext]_exprVars
               PROVE  ExprInv'
    OBVIOUS
  <1>1. CASE ExprNext
    BY <1>1, SetVariableInv, CompileInv, LoadInv, FinishInv, OperateInv DEF ExprNext
  <1>2. CASE UNCHANGED exprVars
    BY <1>2 DEF ExprInv, exprVars, Done
  <1>3. QED
    BY <1>1, <1>2

LEMMA ExprInvariance == ExprSpec => []ExprInv
  BY ExprInitInv, ExprNextInv, PTL DEF ExprSpec

\* Both evaluations of an expression give the same number, except that a zero
\* divisor makes the whole result of evaluate_flat 0 and only the quotient of
\* evaluate_tree: for every tree and whatever the variables are.
THEOREM BothEvaluatorsAgree == ExprSpec => []EvaluatorsAgree
  <1>1. ExprInv => EvaluatorsAgree
    BY DEF ExprInv, EvaluatorsAgree
  <1>2. QED
    BY <1>1, ExprInvariance, PTL

\* The stack of evaluate_flat never holds more operands than the tree is high,
\* and one.
THEOREM StackIsLow == ExprSpec => []StackSuffices
  <1>1. ExprInv => StackSuffices
    <2> SUFFICES ASSUME ExprInv, flat.status = "running"
                 PROVE  Len(operands) <= Height[expr] + 1
      BY DEF StackSuffices
    <2>1. PICK n, tr : Done(n, tr)
      BY DEF ExprInv
    <2>2. Does(context, expr, tr, 0, n) /\ tr[0 + n] = operands /\ tr[0] = <<>>
      BY <2>1, DoneShows
    <2>3. Height[expr] \in Nat /\ Len(tr[0]) = 0
      BY <2>2, HeightIs, EmptySeq DEF ExprInv
    <2>4. Len(operands) \in Nat /\ Len(operands) <= Len(tr[0]) + Height[expr] + 1
      BY <2>2 DEF Does
    <2>5. QED
      BY <2>3, <2>4
  <1>2. QED
    BY <1>1, ExprInvariance, PTL

-----------------------------------------------------------------------------
(* The inductive invariant of the search.                                   *)

SearchTypes ==
  /\ scankey \in Int /\ nextkey \in BOOLEAN
  /\ page \in DOMAIN pages /\ phase \in {"moving", "searching", "found"}
  /\ low \in Int /\ high \in Int

\* Nothing that is left of the page can be what is looked for.
Reached == \A a \in DOMAIN pages : RightOf(pages, a, page) => Beyond(pages[a].high_key)

\* The binary search is between low and high.
Halved ==
  phase # "moving" =>
    /\ ~MustMove
    /\ 0 <= low /\ low <= high /\ high <= NumKeys(page) + 1
    /\ \A slot \in 0 .. low - 1 : BeyondSlot(page, slot)
    /\ \A slot \in high .. NumKeys(page) : ~BeyondSlot(page, slot)

Ended == phase = "found" => high <= low /\ pages[page].leaf

\* The pages are numbered, and in order.
Numbered == \E n \in 0 .. MaxPages : DOMAIN pages = 0 .. n - 1
Ordered == \E row : InOrder(pages, row)

SearchInv == SearchTypes /\ Reached /\ Halved /\ Ended /\ Numbered /\ Ordered

LEMMA SearchInitInv == BTreeInit => SearchInv
  <1> SUFFICES ASSUME BTreeInit
               PROVE  SearchInv
    OBVIOUS
  <1>1. SearchTypes /\ Halved /\ Ended
    BY TreeAssumption DEF BTreeInit, SearchTypes, Halved, Ended
  <1>2. Reached
    BY TreeAssumption DEF BTreeInit, Reached
  <1>3. Numbered
    <2>1. Cardinality(DOMAIN pages) \in 0 .. MaxPages
      BY TreeAssumption, FS_CardinalityType DEF BTreeInit
    <2>2. QED
      BY <2>1, TreeAssumption DEF BTreeInit, Numbered
  <1>4. Ordered
    BY TreeAssumption DEF BTreeInit, Ordered
  <1>5. QED
    BY <1>1, <1>2, <1>3, <1>4 DEF SearchInv

-----------------------------------------------------------------------------
(* What the order of the pages says of one page.                            *)

LEMMA PageFacts ==
  ASSUME Ordered, NEW b \in DOMAIN pages
  PROVE  /\ pages[b].leaf \in BOOLEAN /\ pages[b].keys \in Seq(Int)
         /\ pages[b].children \in Seq(Nat)
         /\ pages[b].high_key \in Int \cup {NoKey}
         /\ Ascending(pages[b].keys)
         /\ \A i \in DOMAIN pages[b].keys : pages[b].keys[i] # NoKey
         /\ pages[b].high_key = NoKey <=> pages[b].right_link = INVALID_BLOCK
         /\ pages[b].right_link \in DOMAIN pages \cup {INVALID_BLOCK}
         /\ NumKeys(b) \in Nat /\ DOMAIN pages[b].keys = 1 .. NumKeys(b)
  <1>1. PICK row : InOrder(pages, row)
    BY DEF Ordered
  <1>2. /\ pages[b] \in BTPage /\ Ascending(pages[b].keys)
        /\ \A i \in DOMAIN pages[b].keys : pages[b].keys[i] # NoKey
        /\ pages[b].high_key = NoKey <=> pages[b].right_link = INVALID_BLOCK
        /\ pages[b].right_link \in DOMAIN pages \cup {INVALID_BLOCK}
    BY <1>1 DEF InOrder, PagesInOrder
  <1>3. /\ pages[b].leaf \in BOOLEAN /\ pages[b].keys \in Seq(Int)
        /\ pages[b].children \in Seq(Nat)
        /\ pages[b].high_key \in Int \cup {NoKey}
    BY <1>2 DEF BTPage
  <1>4. Len(pages[b].keys) \in Nat /\ DOMAIN pages[b].keys = 1 .. Len(pages[b].keys)
    BY <1>3, LenProperties
  <1>5. QED
    BY <1>2, <1>3, <1>4 DEF NumKeys

LEMMA LinkFacts ==
  ASSUME Ordered, NEW a \in DOMAIN pages, NEW b \in DOMAIN pages, RightOf(pages, a, b)
  PROVE  /\ pages[a].leaf = pages[b].leaf
         /\ pages[a].leaf => Follow(pages[a], pages[b])
         /\ \A c \in DOMAIN pages : RightOf(pages, c, b) => c = a
  <1>1. PICK row : InOrder(pages, row)
    BY DEF Ordered
  <1>2. QED
    BY <1>1 DEF InOrder, PagesInOrder

LEMMA ChildFacts ==
  ASSUME Ordered, NEW b \in DOMAIN pages, ~pages[b].leaf,
         NEW i \in DOMAIN pages[b].children
  PROVE  /\ pages[b].children[i] \in DOMAIN pages
         /\ \A a \in DOMAIN pages :
              RightOf(pages, a, pages[b].children[i]) =>
                IF i > 1 THEN pages[a].high_key <= pages[b].keys[i - 1]
                ELSE \E c \in DOMAIN pages : /\ RightOf(pages, c, b)
                                             /\ pages[a].high_key <= pages[c].high_key
  <1>1. PICK row : InOrder(pages, row)
    BY DEF Ordered
  <1>2. QED
    BY <1>1 DEF InOrder, ChildrenInOrder

LEMMA NumberOfChildren ==
  ASSUME Ordered, NEW b \in DOMAIN pages, ~pages[b].leaf
  PROVE  DOMAIN pages[b].children = 1 .. NumKeys(b) + 1
  <1>1. PICK row : InOrder(pages, row)
    BY DEF Ordered
  <1>2. Len(pages[b].children) = Len(pages[b].keys) + 1
    BY <1>1 DEF InOrder, ChildrenInOrder
  <1>3. pages[b].children \in Seq(Nat)
    BY PageFacts
  <1>4. QED
    BY <1>2, <1>3, LenProperties DEF NumKeys

LEMMA BlockIsNumber ==
  ASSUME Numbered, NEW b \in DOMAIN pages
  PROVE  b \in Nat /\ b # INVALID_BLOCK
  BY TreeAssumption DEF Numbered

\* What lies beyond a key lies beyond a smaller one.
LEMMA BeyondLess ==
  ASSUME SearchTypes, NEW j \in Int, NEW k \in Int, j <= k, Beyond(k)
  PROVE  Beyond(j)
  BY DEF SearchTypes, Beyond

LEMMA NotBeyondMore ==
  ASSUME SearchTypes, NEW j \in Int, NEW k \in Int, j <= k, ~Beyond(j)
  PROVE  ~Beyond(k)
  BY DEF SearchTypes, Beyond

\* The slots that the key lies beyond come first.
LEMMA SlotsInOrder ==
  ASSUME SearchTypes, Ordered, NEW s \in Nat, NEW t \in 0 .. s, BeyondSlot(page, s)
  PROVE  BeyondSlot(page, t)
  <1>1. page \in DOMAIN pages
    BY DEF SearchTypes
  <1>2. /\ pages[page].keys \in Seq(Int) /\ Ascending(pages[page].keys)
        /\ NumKeys(page) \in Nat /\ DOMAIN pages[page].keys = 1 .. NumKeys(page)
    BY <1>1, PageFacts
  <1>3. CASE ~pages[page].leaf /\ t = 0
    BY <1>3 DEF BeyondSlot
  <1>4. CASE ~(~pages[page].leaf /\ t = 0)
    <2>1. ~(~pages[page].leaf /\ s = 0)
      BY <1>4
    <2>2. s < NumKeys(page) /\ Beyond(Key(page, s))
      BY <2>1 DEF BeyondSlot
    <2>3. s + 1 \in 1 .. NumKeys(page) /\ t + 1 \in 1 .. NumKeys(page)
      BY <1>2, <2>2
    <2>4. /\ pages[page].keys[s + 1] \in Int /\ pages[page].keys[t + 1] \in Int
          /\ pages[page].keys[t + 1] <= pages[page].keys[s + 1]
      <3>1. pages[page].keys[s + 1] \in Int /\ pages[page].keys[t + 1] \in Int
        BY <1>2, <2>3, ElementOfSeq DEF NumKeys
      <3>2. CASE t = s
        BY <3>1, <3>2
      <3>3. CASE t # s
        <4>1. t + 1 < s + 1
          BY <3>3
        <4>2. pages[page].keys[t + 1] < pages[page].keys[s + 1]
          BY <1>2, <2>3, <4>1 DEF Ascending
        <4>3. QED
          BY <3>1, <4>2
      <3>4. QED
        BY <3>2, <3>3
    <2>5. Beyond(Key(page, t))
      BY <2>2, <2>4, BeyondLess DEF Key
    <2>6. t < NumKeys(page)
      BY <1>2, <2>3
    <2>7. QED
      BY <2>5, <2>6 DEF BeyondSlot
  <1>5. QED
    BY <1>3, <1>4

-----------------------------------------------------------------------------
(* The steps of the search.                                                 *)

treeVars == <<pages, scankey, nextkey>>

LEMMA TreeKept ==
  ASSUME SearchInv, UNCHANGED treeVars
  PROVE  Numbered' /\ Ordered'
  BY DEF SearchInv, treeVars, Numbered, Ordered

LEMMA MoveRightInv ==
  ASSUME SearchInv, MoveRight
  PROVE  SearchInv'
  <1>1. /\ SearchTypes /\ Ordered /\ page \in DOMAIN pages
    BY DEF SearchInv, SearchTypes
  <1>2. /\ phase = "moving" /\ MustMove /\ page' = pages[page].right_link
        /\ UNCHANGED <<pages, scankey, nextkey, phase, low, high>>
    BY DEF MoveRight
  <1>3. page' \in DOMAIN pages /\ RightOf(pages, page, page')
    BY <1>1, <1>2, PageFacts DEF MustMove, RightOf
  <1>4. Beyond(pages[page].high_key)
    BY <1>2 DEF MustMove
  <1>5. Reached'
    <2> SUFFICES ASSUME NEW a \in DOMAIN pages, RightOf(pages, a, page')
                 PROVE  Beyond(pages[a].high_key)'
      BY <1>2 DEF Reached, RightOf
    <2>1. a = page
      BY <1>1, <1>3, LinkFacts
    <2>2. QED
      BY <1>2, <1>4, <2>1 DEF Beyond
  <1>6. SearchTypes'
    BY <1>1, <1>2, <1>3 DEF SearchTypes
  <1>7. Halved' /\ Ended'
    BY <1>2 DEF Halved, Ended
  <1>8. QED
    BY <1>2, <1>5, <1>6, <1>7, TreeKept DEF SearchInv, treeVars

LEMMA StartSearchInv ==
  ASSUME SearchInv, StartSearch
  PROVE  SearchInv'
  <1>1. /\ phase = "moving" /\ ~MustMove /\ phase' = "searching"
        /\ low' = 0 /\ high' = NumKeys(page) + 1
        /\ UNCHANGED <<pages, scankey, nextkey, page>>
    BY DEF StartSearch
  <1>2. NumKeys(page) \in Nat
    BY PageFacts DEF SearchInv, SearchTypes
  <1>3. SearchTypes'
    BY <1>1, <1>2 DEF SearchInv, SearchTypes
  <1>4. Reached'
    BY <1>1 DEF SearchInv, Reached, Beyond
  <1>5. ~MustMove' /\ NumKeys(page)' = NumKeys(page)
    BY <1>1 DEF MustMove, Beyond, NumKeys
  <1>6. Halved'
    <2>1. 0 .. low' - 1 = {} /\ high' .. NumKeys(page)' = {}
      BY <1>1, <1>2, <1>5
    <2>2. 0 <= low' /\ low' <= high' /\ high' <= NumKeys(page)' + 1
      BY <1>1, <1>2, <1>5
    <2>3. QED
      BY <1>5, <2>1, <2>2 DEF Halved
  <1>7. Ended'
    BY <1>1 DEF Ended
  <1>8. QED
    BY <1>1, <1>3, <1>4, <1>6, <1>7, TreeKept DEF SearchInv, treeVars

LEMMA SlotKept ==
  ASSUME UNCHANGED <<pages, scankey, nextkey, page>>, NEW slot
  PROVE  /\ BeyondSlot(page, slot)' <=> BeyondSlot(page, slot)
         /\ MustMove' <=> MustMove
         /\ NumKeys(page)' = NumKeys(page)
  BY DEF BeyondSlot, Beyond, Key, NumKeys, MustMove

LEMMA HalveInv ==
  ASSUME SearchInv, Halve
  PROVE  SearchInv'
  <1> DEFINE mid == low + ((high - low) \div 2)
  <1>1. /\ phase = "searching" /\ high > low
        /\ \/ BeyondSlot(page, mid) /\ low' = mid + 1 /\ high' = high
           \/ ~BeyondSlot(page, mid) /\ high' = mid /\ low' = low
        /\ UNCHANGED <<pages, scankey, nextkey, page, phase>>
    BY DEF Halve
  <1>2. /\ low \in Int /\ high \in Int /\ NumKeys(page) \in Nat
        /\ 0 <= low /\ high <= NumKeys(page) + 1 /\ ~MustMove
        /\ \A slot \in 0 .. low - 1 : BeyondSlot(page, slot)
        /\ \A slot \in high .. NumKeys(page) : ~BeyondSlot(page, slot)
    BY <1>1, PageFacts DEF SearchInv, SearchTypes, Halved
  <1>3. mid \in Int /\ low <= mid /\ mid < high /\ mid \in Nat
    BY <1>1, <1>2
  <1> HIDE DEF mid
  <1>4. SearchTypes'
    BY <1>1, <1>2, <1>3 DEF SearchInv, SearchTypes
  <1>5. Reached' /\ Ended'
    BY <1>1 DEF SearchInv, Reached, Beyond, Ended
  <1>6. /\ \A slot \in 0 .. low' - 1 : BeyondSlot(page, slot)
        /\ \A slot \in high' .. NumKeys(page) : ~BeyondSlot(page, slot)
        /\ 0 <= low' /\ low' <= high' /\ high' <= NumKeys(page) + 1
    <2>1. CASE BeyondSlot(page, mid) /\ low' = mid + 1 /\ high' = high
      <3>1. ASSUME NEW slot \in 0 .. low' - 1 PROVE BeyondSlot(page, slot)
        <4>1. slot \in 0 .. mid
          BY <1>3, <2>1
        <4>2. QED
          BY <1>3, <2>1, <4>1, SlotsInOrder DEF SearchInv
      <3>2. QED
        BY <1>2, <1>3, <2>1, <3>1
    <2>2. CASE ~BeyondSlot(page, mid) /\ high' = mid /\ low' = low
      <3>1. ASSUME NEW slot \in high' .. NumKeys(page) PROVE ~BeyondSlot(page, slot)
        <4>1. slot \in Nat /\ mid \in 0 .. slot
          BY <1>2, <1>3, <2>2
        <4>2. QED
          BY <2>2, <4>1, SlotsInOrder DEF SearchInv
      <3>2. QED
        BY <1>2, <1>3, <2>2, <3>1
    <2>3. QED
      BY <1>1, <2>1, <2>2
  <1>7. Halved'
    BY <1>1, <1>2, <1>6, SlotKept DEF Halved
  <1>8. QED
    BY <1>1, <1>4, <1>5, <1>7, TreeKept DEF SearchInv, treeVars

LEMMA HighKeyIsNumber ==
  ASSUME Ordered, Numbered, NEW a \in DOMAIN pages, NEW b \in DOMAIN pages, RightOf(pages, a, b)
  PROVE  pages[a].high_key \in Int
  <1>1. pages[a].right_link # INVALID_BLOCK
    BY BlockIsNumber DEF RightOf
  <1>2. QED
    BY <1>1, PageFacts

\* The first slot of an internal page is always one to choose.
LEMMA DescendsSomewhere ==
  ASSUME SearchInv, phase = "searching", high <= low, ~pages[page].leaf
  PROVE  low \in 1 .. NumKeys(page) + 1
  <1>1. /\ low \in Int /\ NumKeys(page) \in Nat /\ low = high
        /\ 0 <= low /\ high <= NumKeys(page) + 1
        /\ \A slot \in high .. NumKeys(page) : ~BeyondSlot(page, slot)
    BY PageFacts DEF SearchInv, SearchTypes, Halved
  <1>2. BeyondSlot(page, 0)
    BY DEF BeyondSlot
  <1>3. low # 0
    BY <1>1, <1>2
  <1>4. QED
    BY <1>1, <1>3

LEMMA DescendInv ==
  ASSUME SearchInv, Descend
  PROVE  SearchInv'
  <1>1. /\ phase = "searching" /\ high <= low /\ ~pages[page].leaf /\ phase' = "moving"
        /\ page' = Child(page, IF low > 0 THEN low - 1 ELSE 0)
        /\ UNCHANGED <<pages, scankey, nextkey, low, high>>
    BY DEF Descend
  <1>2. /\ SearchTypes /\ Ordered /\ Numbered /\ Reached /\ page \in DOMAIN pages
        /\ low \in Int /\ NumKeys(page) \in Nat
        /\ \A slot \in 0 .. low - 1 : BeyondSlot(page, slot)
    BY <1>1, PageFacts DEF SearchInv, SearchTypes, Halved
  <1>3. low \in 1 .. NumKeys(page) + 1
    BY <1>1, DescendsSomewhere
  <1>4. page' = pages[page].children[low]
    BY <1>1, <1>2, <1>3 DEF Child
  <1>5. low \in DOMAIN pages[page].children
    BY <1>1, <1>2, <1>3, NumberOfChildren
  <1>6. page' \in DOMAIN pages
    BY <1>1, <1>2, <1>4, <1>5, ChildFacts
  <1>7. Reached'
    <2> SUFFICES ASSUME NEW a \in DOMAIN pages, RightOf(pages, a, page')
                 PROVE  Beyond(pages[a].high_key)
      BY <1>1 DEF Reached, RightOf, Beyond
    <2>1. pages[a].high_key \in Int
      BY <1>2, <1>6, HighKeyIsNumber
    <2>2. IF low > 1 THEN pages[a].high_key <= pages[page].keys[low - 1]
          ELSE \E c \in DOMAIN pages : /\ RightOf(pages, c, page)
                                       /\ pages[a].high_key <= pages[c].high_key
      BY <1>1, <1>2, <1>4, <1>5, ChildFacts
    <2>3. CASE low > 1
      <3>1. low - 1 \in 0 .. low - 1 /\ low - 1 # 0
        BY <1>3, <2>3
      <3>2. low - 1 < NumKeys(page) /\ Beyond(Key(page, low - 1))
        BY <1>2, <3>1 DEF BeyondSlot
      <3>3. Key(page, low - 1) = pages[page].keys[low]
        BY <1>2 DEF Key
      <3>4. low - 1 \in 1 .. NumKeys(page) /\ low \in 1 .. NumKeys(page)
        BY <1>2, <1>3, <2>3, <3>2
      <3>5. /\ pages[page].keys \in Seq(Int) /\ Ascending(pages[page].keys)
            /\ DOMAIN pages[page].keys = 1 .. NumKeys(page)
        BY <1>2, PageFacts
      <3>6. /\ pages[page].keys[low - 1] \in Int /\ pages[page].keys[low] \in Int
            /\ pages[page].keys[low - 1] < pages[page].keys[low]
        <4>1. pages[page].keys[low - 1] \in Int /\ pages[page].keys[low] \in Int
          BY <3>4, <3>5, ElementOfSeq DEF NumKeys
        <4>2. low - 1 < low
          BY <1>2
        <4>3. QED
          BY <3>4, <3>5, <4>1, <4>2 DEF Ascending
      <3>7. pages[a].high_key <= pages[page].keys[low]
        BY <2>1, <2>2, <2>3, <3>6
      <3>8. QED
        BY <1>2, <2>1, <3>2, <3>3, <3>6, <3>7, BeyondLess
    <2>4. CASE ~(low > 1)
      <3>1. PICK c \in DOMAIN pages : /\ RightOf(pages, c, page)
                                      /\ pages[a].high_key <= pages[c].high_key
        BY <2>2, <2>4
      <3>2. pages[c].high_key \in Int /\ Beyond(pages[c].high_key)
        BY <1>2, <3>1, HighKeyIsNumber DEF Reached
      <3>3. QED
        BY <1>2, <2>1, <3>1, <3>2, BeyondLess
    <2>5. QED
      BY <2>3, <2>4
  <1>8. SearchTypes'
    BY <1>1, <1>2, <1>6 DEF SearchTypes
  <1>9. Halved' /\ Ended'
    BY <1>1 DEF Halved, Ended
  <1>10. QED
    BY <1>1, <1>7, <1>8, <1>9, TreeKept DEF SearchInv, treeVars

LEMMA FoundInv ==
  ASSUME SearchInv, Found
  PROVE  SearchInv'
  <1>1. /\ phase = "searching" /\ high <= low /\ pages[page].leaf /\ phase' = "found"
        /\ UNCHANGED <<pages, scankey, nextkey, page, low, high>>
    BY DEF Found
  <1>2. SearchTypes' /\ Reached' /\ Ended'
    BY <1>1 DEF SearchInv, SearchTypes, Reached, Beyond, Ended
  <1>3. Halved'
    BY <1>1, SlotKept DEF SearchInv, Halved
  <1>4. QED
    BY <1>1, <1>2, <1>3, TreeKept DEF SearchInv, treeVars

\* What a split of leaf b in two, at h, makes of the tree.
SplitOf(tree, b, new, h, t) ==
  /\ DOMAIN t = DOMAIN tree \cup {new}
  /\ t[b] = [tree[b] EXCEPT !.keys = SubSeq(@, 1, h), !.right_link = new,
                            !.high_key = tree[b].keys[h + 1]]
  /\ t[new] = [tree[b] EXCEPT !.keys = SubSeq(@, h + 1, Len(@))]
  /\ \A c \in DOMAIN tree \ {b} : t[c] = tree[c]

\* The parts of the two halves.
Halves(tree, b, new, h, t) ==
  /\ t[b] \in BTPage /\ t[new] \in BTPage
  /\ t[b].leaf /\ t[b].right_link = new /\ t[b].high_key = tree[b].keys[h + 1]
  /\ Len(t[b].keys) = h /\ \A i \in 1 .. h : t[b].keys[i] = tree[b].keys[i]
  /\ t[new].leaf /\ t[new].right_link = tree[b].right_link /\ t[new].high_key = tree[b].high_key
  /\ Len(t[new].keys) = Len(tree[b].keys) - h
  /\ \A i \in 1 .. Len(tree[b].keys) - h : t[new].keys[i] = tree[b].keys[h + i]

LEMMA SplitHalves ==
  ASSUME NEW tree, NEW b, tree[b] \in BTPage, tree[b].leaf, NEW new \in Nat, NEW t,
         NEW h \in 1 .. Len(tree[b].keys) - 1, SplitOf(tree, b, new, h, t)
  PROVE  Halves(tree, b, new, h, t)
  <1> DEFINE keys == tree[b].keys
             n == Len(keys)
  <1>1. keys \in Seq(Int) /\ n \in Nat /\ DOMAIN keys = 1 .. n /\ h \in Nat /\ h < n /\ 1 <= h
    <2>1. keys \in Seq(Int)
      BY DEF BTPage
    <2>2. n \in Nat /\ DOMAIN keys = 1 .. n
      BY <2>1, LenProperties
    <2>3. QED
      BY <2>1, <2>2
  <1>2. tree[b] = [leaf |-> tree[b].leaf, keys |-> keys, children |-> tree[b].children,
                   right_link |-> tree[b].right_link, high_key |-> tree[b].high_key]
        /\ tree[b].leaf \in BOOLEAN /\ tree[b].children \in Seq(Nat)
        /\ tree[b].right_link \in Nat \cup {INVALID_BLOCK}
        /\ tree[b].high_key \in Int \cup {NoKey}
    BY DEF BTPage
  <1>3. t[b] = [leaf |-> tree[b].leaf, keys |-> SubSeq(keys, 1, h), children |-> tree[b].children,
                right_link |-> new, high_key |-> keys[h + 1]]
    <2>1. PICK lower, high_key : lower = SubSeq(keys, 1, h) /\ high_key = keys[h + 1]
      OBVIOUS
    <2>2. t[b] = [tree[b] EXCEPT !.keys = lower, !.right_link = new, !.high_key = high_key]
      BY <2>1 DEF SplitOf
    <2> HIDE DEF keys, n
    <2>3. t[b] = [leaf |-> tree[b].leaf, keys |-> lower, children |-> tree[b].children,
                  right_link |-> new, high_key |-> high_key]
      BY <1>2, <2>2
    <2>4. QED
      BY <2>1, <2>3
  <1>4. t[new] = [leaf |-> tree[b].leaf, keys |-> SubSeq(keys, h + 1, n),
                  children |-> tree[b].children,
                  right_link |-> tree[b].right_link, high_key |-> tree[b].high_key]
    <2>1. PICK upper : upper = SubSeq(keys, h + 1, n)
      OBVIOUS
    <2>2. t[new] = [tree[b] EXCEPT !.keys = upper]
      BY <2>1 DEF SplitOf
    <2> HIDE DEF keys, n
    <2>3. t[new] = [leaf |-> tree[b].leaf, keys |-> upper, children |-> tree[b].children,
                    right_link |-> tree[b].right_link, high_key |-> tree[b].high_key]
      BY <1>2, <2>2
    <2>4. QED
      BY <2>1, <2>3
  <1>5. /\ SubSeq(keys, 1, h) \in Seq(Int) /\ Len(SubSeq(keys, 1, h)) = h
        /\ \A i \in 1 .. h : SubSeq(keys, 1, h)[i] = keys[i]
    <2> HIDE DEF keys
    <2>1. \A i \in 1 .. h : i \in DOMAIN keys
      BY <1>1
    <2>2. QED
      BY <1>1, <2>1, SubSeqProperties
  <1>6. /\ SubSeq(keys, h + 1, n) \in Seq(Int) /\ Len(SubSeq(keys, h + 1, n)) = n - h
        /\ \A i \in 1 .. n - h : SubSeq(keys, h + 1, n)[i] = keys[h + i]
    <2> HIDE DEF keys, n
    <2>1. \A i \in h + 1 .. n : i \in DOMAIN keys
      BY <1>1
    <2>2. QED
      BY <1>1, <2>1, SubSeqProperties
  <1>7. keys[h + 1] \in Int
    BY <1>1, ElementOfSeq
  <1> HIDE DEF keys, n
  <1>8. t[b] \in BTPage /\ t[new] \in BTPage
    <2>1. PICK lower, upper : lower = SubSeq(keys, 1, h) /\ upper = SubSeq(keys, h + 1, n)
      OBVIOUS
    <2>2. lower \in Seq(Int) /\ upper \in Seq(Int)
      BY <1>5, <1>6, <2>1
    <2>3. t[b] = [leaf |-> tree[b].leaf, keys |-> lower, children |-> tree[b].children,
                  right_link |-> new, high_key |-> keys[h + 1]]
      BY <1>3, <2>1
    <2>4. t[new] = [leaf |-> tree[b].leaf, keys |-> upper, children |-> tree[b].children,
                    right_link |-> tree[b].right_link, high_key |-> tree[b].high_key]
      BY <1>4, <2>1
    <2>5. t[b] \in BTPage
      BY <1>2, <1>7, <2>2, <2>3 DEF BTPage
    <2>6. t[new] \in BTPage
      BY <1>2, <2>2, <2>4 DEF BTPage
    <2>7. QED
      BY <2>5, <2>6
  <1>9. t[b].leaf /\ t[b].right_link = new /\ t[b].high_key = keys[h + 1]
        /\ t[b].keys = SubSeq(keys, 1, h)
    BY <1>3
  <1>10. t[new].leaf /\ t[new].right_link = tree[b].right_link
         /\ t[new].high_key = tree[b].high_key /\ t[new].keys = SubSeq(keys, h + 1, n)
    <2>1. PICK upper : upper = SubSeq(keys, h + 1, n)
      OBVIOUS
    <2>2. t[new] = [leaf |-> tree[b].leaf, keys |-> upper, children |-> tree[b].children,
                    right_link |-> tree[b].right_link, high_key |-> tree[b].high_key]
      BY <1>4, <2>1
    <2> HIDE DEF keys, n
    <2>3. t[new].leaf /\ t[new].right_link = tree[b].right_link
          /\ t[new].high_key = tree[b].high_key /\ t[new].keys = upper
      BY <2>2
    <2>4. QED
      BY <2>1, <2>3
  <1>11. QED
    BY <1>5, <1>6, <1>8, <1>9, <1>10 DEF Halves, keys, n

\* A leaf split in two, and what is asked of the numbers.
LeafSplit(tree, b, new, h, t) ==
  /\ b \in DOMAIN tree /\ tree[b].leaf
  /\ new \in Nat /\ new \notin DOMAIN tree /\ DOMAIN tree \subseteq Nat
  /\ new # INVALID_BLOCK /\ INVALID_BLOCK \notin DOMAIN tree
  /\ h \in 1 .. Len(tree[b].keys) - 1
  /\ SplitOf(tree, b, new, h, t)

LEMMA SplitKinds ==
  ASSUME NEW tree, PagesInOrder(tree), NEW b, NEW new, NEW h, NEW t, LeafSplit(tree, b, new, h, t)
  PROVE  /\ tree[b].keys \in Seq(Int) /\ h \in Nat /\ 1 <= h /\ h < Len(tree[b].keys)
         /\ Len(tree[b].keys) \in Nat
         /\ Halves(tree, b, new, h, t)
         /\ \A c \in DOMAIN tree : t[c].leaf <=> tree[c].leaf
         /\ \A c \in DOMAIN tree : tree[c].keys # <<>> =>
                                     t[c].keys # <<>> /\ t[c].keys[1] = tree[c].keys[1]
  <1>1. tree[b] \in BTPage /\ tree[b].leaf /\ h \in 1 .. Len(tree[b].keys) - 1
    BY DEF LeafSplit, PagesInOrder
  <1>2. tree[b].keys \in Seq(Int)
    BY <1>1 DEF BTPage
  <1>3. Len(tree[b].keys) \in Nat /\ h \in Nat /\ 1 <= h /\ h < Len(tree[b].keys)
    BY <1>1, <1>2, LenProperties
  <1>4. Halves(tree, b, new, h, t)
    BY <1>1, SplitHalves DEF LeafSplit
  <1>5. ASSUME NEW c \in DOMAIN tree
        PROVE  /\ t[c].leaf <=> tree[c].leaf
               /\ tree[c].keys # <<>> => t[c].keys # <<>> /\ t[c].keys[1] = tree[c].keys[1]
    <2>1. CASE c = b
      <3>1. t[b].keys # <<>> /\ t[b].keys[1] = tree[b].keys[1]
        BY <1>3, <1>4 DEF Halves
      <3>2. QED
        BY <1>1, <1>4, <2>1, <3>1 DEF Halves
    <2>2. CASE c # b
      BY <2>2 DEF LeafSplit, SplitOf
    <2>3. QED
      BY <2>1, <2>2
  <1>6. QED
    BY <1>2, <1>3, <1>4, <1>5

\* Which page an arrow of the split tree comes from.
LEMMA SplitLinks ==
  ASSUME NEW tree, PagesInOrder(tree), NEW b, NEW new, NEW h, NEW t, LeafSplit(tree, b, new, h, t),
         NEW a \in DOMAIN t, NEW c \in DOMAIN t, RightOf(t, a, c)
  PROVE  \/ a = b /\ c = new
         \/ a = new /\ c \in DOMAIN tree /\ RightOf(tree, b, c)
         \/ a \in DOMAIN tree \ {b} /\ c \in DOMAIN tree /\ RightOf(tree, a, c)
  <1>1. /\ DOMAIN t = DOMAIN tree \cup {new} /\ \A x \in DOMAIN tree \ {b} : t[x] = tree[x]
        /\ new # INVALID_BLOCK /\ new \notin DOMAIN tree /\ b \in DOMAIN tree
    BY DEF LeafSplit, SplitOf
  <1>2. \A x \in DOMAIN tree : tree[x].right_link # new
    <2>1. \A x \in DOMAIN tree : tree[x].right_link \in DOMAIN tree \cup {INVALID_BLOCK}
      BY DEF PagesInOrder
    <2>2. QED
      BY <1>1, <2>1
  <1>3. t[b].right_link = new /\ t[new].right_link = tree[b].right_link
    BY SplitKinds DEF Halves
  <1>4. CASE a = b
    BY <1>3, <1>4 DEF RightOf
  <1>5. CASE a = new
    BY <1>1, <1>2, <1>3, <1>5 DEF RightOf
  <1>6. CASE a \in DOMAIN tree \ {b}
    BY <1>1, <1>2, <1>6 DEF RightOf
  <1>7. QED
    BY <1>1, <1>4, <1>5, <1>6

LEMMA SplitPagesInOrder ==
  ASSUME NEW tree, PagesInOrder(tree), NEW b, NEW new, NEW h, NEW t, LeafSplit(tree, b, new, h, t)
  PROVE  PagesInOrder(t)
  <1>1. /\ DOMAIN t = DOMAIN tree \cup {new} /\ \A x \in DOMAIN tree \ {b} : t[x] = tree[x]
        /\ new \in Nat /\ new \notin DOMAIN tree /\ b \in DOMAIN tree /\ tree[b].leaf
    BY DEF LeafSplit, SplitOf
  <1>2. /\ tree[b].keys \in Seq(Int) /\ h \in Nat /\ 1 <= h /\ h < Len(tree[b].keys)
        /\ Len(tree[b].keys) \in Nat
        /\ Halves(tree, b, new, h, t)
        /\ \A c \in DOMAIN tree : t[c].leaf <=> tree[c].leaf
        /\ \A c \in DOMAIN tree : tree[c].keys # <<>> =>
                                    t[c].keys # <<>> /\ t[c].keys[1] = tree[c].keys[1]
    BY SplitKinds
  <1>3. /\ DOMAIN tree[b].keys = 1 .. Len(tree[b].keys) /\ tree[b] \in BTPage
        /\ Ascending(tree[b].keys) /\ \A i \in DOMAIN tree[b].keys : tree[b].keys[i] # NoKey
        /\ tree[b].high_key = NoKey <=> tree[b].right_link = INVALID_BLOCK
        /\ tree[b].right_link \in DOMAIN tree \cup {INVALID_BLOCK}
    BY <1>1, <1>2, LenProperties DEF PagesInOrder
  <1>4. /\ t[b] \in BTPage /\ t[b].keys \in Seq(Int) /\ DOMAIN t[b].keys = 1 .. h
        /\ \A i \in 1 .. h : t[b].keys[i] = tree[b].keys[i]
        /\ t[b].right_link = new /\ t[b].high_key = tree[b].keys[h + 1] /\ t[b].leaf
    <2>1. /\ t[b] \in BTPage /\ Len(t[b].keys) = h
          /\ \A i \in 1 .. h : t[b].keys[i] = tree[b].keys[i]
          /\ t[b].right_link = new /\ t[b].high_key = tree[b].keys[h + 1] /\ t[b].leaf
      BY <1>2 DEF Halves
    <2>2. t[b].keys \in Seq(Int)
      BY <2>1 DEF BTPage
    <2>3. DOMAIN t[b].keys = 1 .. h
      BY <2>1, <2>2, LenProperties
    <2>4. QED
      BY <2>1, <2>2, <2>3
  <1>5. /\ t[new] \in BTPage /\ t[new].keys \in Seq(Int)
        /\ DOMAIN t[new].keys = 1 .. Len(tree[b].keys) - h
        /\ \A i \in 1 .. Len(tree[b].keys) - h : t[new].keys[i] = tree[b].keys[h + i]
        /\ t[new].right_link = tree[b].right_link /\ t[new].high_key = tree[b].high_key
        /\ t[new].leaf
    <2>1. /\ t[new] \in BTPage /\ Len(t[new].keys) = Len(tree[b].keys) - h
          /\ \A i \in 1 .. Len(tree[b].keys) - h : t[new].keys[i] = tree[b].keys[h + i]
          /\ t[new].right_link = tree[b].right_link /\ t[new].high_key = tree[b].high_key
          /\ t[new].leaf
      BY <1>2 DEF Halves
    <2>2. t[new].keys \in Seq(Int)
      BY <2>1 DEF BTPage
    <2>3. DOMAIN t[new].keys = 1 .. Len(tree[b].keys) - h
      BY <2>1, <2>2, LenProperties
    <2>4. QED
      BY <2>1, <2>2, <2>3
  <1> DEFINE Sound(c) == /\ t[c] \in BTPage /\ Ascending(t[c].keys)
                         /\ \A i \in DOMAIN t[c].keys : t[c].keys[i] # NoKey
                         /\ t[c].high_key = NoKey <=> t[c].right_link = INVALID_BLOCK
                         /\ t[c].right_link \in DOMAIN t \cup {INVALID_BLOCK}
  <1>6. \A c \in DOMAIN t : Sound(c)
    <2>1. Sound(b)
      <3>1. Ascending(t[b].keys) /\ \A i \in DOMAIN t[b].keys : t[b].keys[i] # NoKey
        <4>1. \A i \in 1 .. h : i \in DOMAIN tree[b].keys
          BY <1>2, <1>3
        <4>2. QED
          BY <1>3, <1>4, <4>1 DEF Ascending
      <3>2. t[b].high_key # NoKey /\ t[b].right_link # INVALID_BLOCK
        <4>1. h + 1 \in DOMAIN tree[b].keys
          BY <1>2, <1>3
        <4>2. tree[b].keys[h + 1] # NoKey
          BY <1>3, <4>1
        <4>3. new # INVALID_BLOCK
          BY DEF LeafSplit
        <4>4. QED
          BY <1>4, <4>2, <4>3
      <3>3. QED
        BY <1>1, <1>4, <3>1, <3>2
    <2>2. Sound(new)
      <3>1. \A i \in 1 .. Len(tree[b].keys) - h : h + i \in DOMAIN tree[b].keys
        BY <1>2, <1>3
      <3>2. \A i \in DOMAIN t[new].keys : t[new].keys[i] # NoKey
        BY <1>3, <1>5, <3>1
      <3>3. Ascending(t[new].keys)
        <4> SUFFICES ASSUME NEW i \in DOMAIN t[new].keys, NEW j \in DOMAIN t[new].keys, i < j
                     PROVE  t[new].keys[i] < t[new].keys[j]
          BY DEF Ascending
        <4>1. h + i \in DOMAIN tree[b].keys /\ h + j \in DOMAIN tree[b].keys /\ h + i < h + j
          <5>1. i \in 1 .. Len(tree[b].keys) - h /\ j \in 1 .. Len(tree[b].keys) - h
            BY <1>5
          <5>2. h + i < h + j
            BY <1>2, <5>1
          <5>3. QED
            BY <3>1, <5>1, <5>2
        <4>2. tree[b].keys[h + i] < tree[b].keys[h + j]
          BY <1>3, <4>1 DEF Ascending
        <4>3. QED
          BY <1>5, <4>2
      <3>4. QED
        BY <1>1, <1>3, <1>5, <3>2, <3>3
    <2>3. ASSUME NEW c \in DOMAIN tree \ {b} PROVE Sound(c)
      <3>1. t[c] = tree[c]
        BY <1>1
      <3>2. QED
        BY <1>1, <3>1 DEF PagesInOrder
    <2>4. QED
      BY <1>1, <2>1, <2>2, <2>3
  <1>7. ASSUME NEW a \in DOMAIN t, NEW c \in DOMAIN t, RightOf(t, a, c)
        PROVE  /\ t[a].leaf = t[c].leaf
               /\ t[a].leaf => Follow(t[a], t[c])
               /\ \A d \in DOMAIN t : RightOf(t, d, c) => d = a
    <2>1. ASSUME NEW x \in DOMAIN tree, NEW y \in DOMAIN tree, RightOf(tree, x, y)
          PROVE  /\ tree[x].leaf = tree[y].leaf
                 /\ tree[x].leaf => Follow(tree[x], tree[y])
                 /\ \A d \in DOMAIN tree : RightOf(tree, d, y) => d = x
      BY <2>1 DEF PagesInOrder
    <2>2. CASE a = b /\ c = new
      <3>1. Follow(t[b], t[new])
        <4>1. \A i \in 1 .. h : tree[b].keys[i] < tree[b].keys[h + 1]
          <5>1. h + 1 \in DOMAIN tree[b].keys
            BY <1>2, <1>3
          <5>2. \A i \in 1 .. h : i \in DOMAIN tree[b].keys /\ i < h + 1
            BY <1>2, <1>3
          <5>3. QED
            BY <1>3, <5>1, <5>2 DEF Ascending
        <4>2. t[new].keys # <<>> /\ t[new].keys[1] = tree[b].keys[h + 1]
          <5>1. 1 \in 1 .. Len(tree[b].keys) - h
            BY <1>2
          <5>2. t[new].keys[1] = tree[b].keys[h + 1]
            BY <1>5, <5>1
          <5>3. t[new].keys # <<>>
            <6>1. 1 \in DOMAIN t[new].keys
              BY <1>5, <5>1
            <6>2. PICK upper : upper = t[new].keys
              OBVIOUS
            <6>3. DOMAIN upper # {} /\ DOMAIN <<>> = {}
              BY <6>1, <6>2, EmptySeq
            <6>4. QED
              BY <6>2, <6>3
          <5>4. QED
            BY <5>2, <5>3
        <4>3. QED
          BY <1>4, <4>1, <4>2 DEF Follow
      <3>2. \A d \in DOMAIN t : RightOf(t, d, c) => d = a
        BY <1>1, <2>2, SplitLinks
      <3>3. QED
        BY <1>4, <1>5, <2>2, <3>1, <3>2
    <2>3. CASE a = new /\ c \in DOMAIN tree /\ RightOf(tree, b, c)
      <3>1. /\ tree[b].leaf = tree[c].leaf /\ Follow(tree[b], tree[c])
            /\ \A d \in DOMAIN tree : RightOf(tree, d, c) => d = b
        BY <1>1, <2>1, <2>3
      <3>2. t[new].leaf = t[c].leaf
        BY <1>1, <1>2, <1>5, <2>3, <3>1
      <3>3. Follow(t[new], t[c])
        <4>1. \A i \in 1 .. Len(tree[b].keys) - h : h + i \in DOMAIN tree[b].keys
          BY <1>2, <1>3
        <4>2. \A i \in DOMAIN t[new].keys : t[new].keys[i] < t[new].high_key
          BY <1>5, <3>1, <4>1 DEF Follow
        <4>3. t[c].keys # <<>> /\ t[c].keys[1] = tree[b].high_key
          BY <1>2, <2>3, <3>1 DEF Follow
        <4>4. QED
          BY <1>5, <4>2, <4>3 DEF Follow
      <3>4. \A d \in DOMAIN t : RightOf(t, d, c) => d = a
        BY <1>1, <2>3, <3>1, SplitLinks
      <3>5. QED
        BY <2>3, <3>2, <3>3, <3>4
    <2>4. CASE a \in DOMAIN tree \ {b} /\ c \in DOMAIN tree /\ RightOf(tree, a, c)
      <3>1. /\ tree[a].leaf = tree[c].leaf
            /\ tree[a].leaf => Follow(tree[a], tree[c])
            /\ \A d \in DOMAIN tree : RightOf(tree, d, c) => d = a
        BY <2>1, <2>4
      <3>2. t[a] = tree[a] /\ tree[a] \in BTPage /\ tree[c] \in BTPage
        BY <1>1, <2>4 DEF PagesInOrder
      <3>3. t[a].leaf = t[c].leaf
        <4>1. t[c].leaf \in BOOLEAN /\ tree[c].leaf \in BOOLEAN
          BY <1>1, <1>6, <2>4, <3>2 DEF BTPage
        <4>2. t[c].leaf = tree[c].leaf
          BY <1>2, <2>4, <4>1
        <4>3. t[a].leaf = tree[a].leaf /\ tree[a].leaf = tree[c].leaf
          BY <3>1, <3>2, Zenon
        <4>4. QED
          BY <4>2, <4>3, Zenon
      <3>4. t[a].leaf => Follow(t[a], t[c])
        <4> SUFFICES ASSUME t[a].leaf
                     PROVE  Follow(t[a], t[c])
          OBVIOUS
        <4>1. Follow(tree[a], tree[c])
          BY <3>1, <3>2
        <4>2. t[c].keys # <<>> /\ t[c].keys[1] = tree[a].high_key
          BY <1>2, <2>4, <4>1 DEF Follow
        <4>3. QED
          BY <3>2, <4>1, <4>2 DEF Follow
      <3>5. \A d \in DOMAIN t : RightOf(t, d, c) => d = a
        BY <1>1, <2>4, <3>1, SplitLinks
      <3>6. QED
        BY <3>3, <3>4, <3>5
    <2>5. QED
      BY <1>7, <2>2, <2>3, <2>4, SplitLinks
  <1>8. QED
    BY <1>6, <1>7 DEF PagesInOrder

LEMMA SplitChildrenInOrder ==
  ASSUME NEW tree, PagesInOrder(tree), ChildrenInOrder(tree),
         NEW b, NEW new, NEW h, NEW t, LeafSplit(tree, b, new, h, t)
  PROVE  ChildrenInOrder(t)
  <1>1. /\ DOMAIN t = DOMAIN tree \cup {new} /\ \A x \in DOMAIN tree \ {b} : t[x] = tree[x]
        /\ new \notin DOMAIN tree /\ b \in DOMAIN tree /\ tree[b].leaf
    BY DEF LeafSplit, SplitOf
  <1>2. t[b].leaf /\ t[new].leaf /\ t[new].high_key = tree[b].high_key
    BY SplitKinds DEF Halves
  <1> SUFFICES ASSUME NEW p \in DOMAIN t, ~t[p].leaf
               PROVE  /\ Len(t[p].children) = Len(t[p].keys) + 1
                      /\ \A i \in DOMAIN t[p].children :
                           /\ t[p].children[i] \in DOMAIN t
                           /\ \A a \in DOMAIN t :
                                RightOf(t, a, t[p].children[i]) =>
                                  IF i > 1 THEN t[a].high_key <= t[p].keys[i - 1]
                                  ELSE \E c \in DOMAIN t : /\ RightOf(t, c, p)
                                                           /\ t[a].high_key <= t[c].high_key
    BY DEF ChildrenInOrder
  <1>3. p \in DOMAIN tree \ {b} /\ t[p] = tree[p] /\ ~tree[p].leaf
    BY <1>1, <1>2
  <1>4. /\ Len(tree[p].children) = Len(tree[p].keys) + 1
        /\ \A i \in DOMAIN tree[p].children :
             /\ tree[p].children[i] \in DOMAIN tree
             /\ \A a \in DOMAIN tree :
                  RightOf(tree, a, tree[p].children[i]) =>
                    IF i > 1 THEN tree[a].high_key <= tree[p].keys[i - 1]
                    ELSE \E c \in DOMAIN tree : /\ RightOf(tree, c, p)
                                                /\ tree[a].high_key <= tree[c].high_key
    BY <1>3 DEF ChildrenInOrder
  <1>5. ASSUME NEW i \in DOMAIN t[p].children, NEW a \in DOMAIN t,
               RightOf(t, a, t[p].children[i])
        PROVE  IF i > 1 THEN t[a].high_key <= t[p].keys[i - 1]
               ELSE \E c \in DOMAIN t : /\ RightOf(t, c, p)
                                        /\ t[a].high_key <= t[c].high_key
    <2> DEFINE kid == tree[p].children[i]
    <2>1. kid \in DOMAIN tree /\ t[p].children[i] = kid /\ kid \in DOMAIN t
      BY <1>1, <1>3, <1>4
    <2>2. PICK x \in DOMAIN tree : RightOf(tree, x, kid) /\ t[a].high_key = tree[x].high_key
      <3>1. \/ a = b /\ kid = new
            \/ a = new /\ kid \in DOMAIN tree /\ RightOf(tree, b, kid)
            \/ a \in DOMAIN tree \ {b} /\ kid \in DOMAIN tree /\ RightOf(tree, a, kid)
        BY <1>5, <2>1, SplitLinks
      <3>2. CASE a = new /\ RightOf(tree, b, kid)
        BY <1>1, <1>2, <3>2
      <3>3. CASE a \in DOMAIN tree \ {b} /\ RightOf(tree, a, kid)
        BY <1>1, <3>3
      <3>4. QED
        BY <1>1, <2>1, <3>1, <3>2, <3>3
    <2>3. IF i > 1 THEN tree[x].high_key <= tree[p].keys[i - 1]
          ELSE \E c \in DOMAIN tree : /\ RightOf(tree, c, p)
                                      /\ tree[x].high_key <= tree[c].high_key
      BY <1>3, <1>4, <2>2
    <2>4. CASE i > 1
      BY <1>3, <2>2, <2>3, <2>4
    <2>5. CASE ~(i > 1)
      <3>1. PICK c \in DOMAIN tree : /\ RightOf(tree, c, p)
                                     /\ tree[x].high_key <= tree[c].high_key
        BY <2>3, <2>5
      <3>2. tree[c].leaf = tree[p].leaf
        BY <1>3, <3>1 DEF PagesInOrder
      <3>3. c # b
        BY <1>1, <1>3, <3>2
      <3>4. t[c] = tree[c] /\ c \in DOMAIN t /\ RightOf(t, c, p)
        BY <1>1, <3>1, <3>3 DEF RightOf
      <3>5. QED
        BY <2>2, <2>5, <3>1, <3>4
    <2>6. QED
      BY <2>4, <2>5
  <1>6. QED
    BY <1>1, <1>3, <1>4, <1>5

\* The row with new put after place p.
PutAfter(row, p, new) ==
  [i \in 1 .. Len(row) + 1 |-> IF i <= p THEN row[i] ELSE IF i = p + 1 THEN new ELSE row[i - 1]]

LEMMA SplitLinkedIn ==
  ASSUME NEW tree, PagesInOrder(tree), NEW row, LinkedIn(tree, row),
         NEW b, NEW new, NEW h, NEW t, LeafSplit(tree, b, new, h, t)
  PROVE  \E r : LinkedIn(t, r)
  <1>1. /\ DOMAIN t = DOMAIN tree \cup {new} /\ \A x \in DOMAIN tree \ {b} : t[x] = tree[x]
        /\ new \notin DOMAIN tree /\ b \in DOMAIN tree /\ tree[b].leaf
    BY DEF LeafSplit, SplitOf
  <1>2. /\ t[b].leaf /\ t[new].leaf /\ t[b].right_link = new
        /\ t[new].right_link = tree[b].right_link
    BY SplitKinds DEF Halves
  <1>3. /\ row \in Seq(DOMAIN tree) /\ row # <<>>
        /\ {row[i] : i \in DOMAIN row} = {c \in DOMAIN tree : tree[c].leaf}
        /\ \A i, j \in DOMAIN row : row[i] = row[j] => i = j
        /\ \A i \in DOMAIN row :
             tree[row[i]].right_link = IF i < Len(row) THEN row[i + 1] ELSE INVALID_BLOCK
    BY DEF LinkedIn
  <1> DEFINE n == Len(row)
  <1>4. n \in Nat /\ DOMAIN row = 1 .. n
    BY <1>3, LenProperties
  <1>5. PICK p \in 1 .. n : row[p] = b
    BY <1>1, <1>3, <1>4
  <1>6. \A i \in 1 .. n : row[i] \in DOMAIN tree /\ tree[row[i]].leaf
    BY <1>3, <1>4
  <1> DEFINE r == PutAfter(row, p, new)
  <1> HIDE DEF n
  <1>7. /\ r \in Seq(DOMAIN t) /\ Len(r) = n + 1 /\ DOMAIN r = 1 .. n + 1 /\ r # <<>>
        /\ \A i \in 1 .. p : r[i] = row[i]
        /\ r[p + 1] = new
        /\ \A i \in p + 2 .. n + 1 : r[i] = row[i - 1]
    <2>1. DOMAIN r = 1 .. n + 1
      BY DEF PutAfter, n
    <2>2. \A i \in 1 .. p : i \in 1 .. n + 1 /\ r[i] = row[i]
      BY <1>4 DEF PutAfter, n
    <2>3. r[p + 1] = new
      BY <1>4 DEF PutAfter, n
    <2>4. \A i \in p + 2 .. n + 1 : r[i] = row[i - 1]
      BY <1>4 DEF PutAfter, n
    <2>5. \A i \in 1 .. n + 1 : r[i] \in DOMAIN t
      <3> SUFFICES ASSUME NEW i \in 1 .. n + 1
                   PROVE  r[i] \in DOMAIN t
        OBVIOUS
      <3>1. CASE i \in 1 .. p
        <4>1. i \in 1 .. n
          BY <1>4, <3>1
        <4>2. QED
          BY <1>1, <1>6, <2>2, <3>1, <4>1
      <3>2. CASE i = p + 1
        BY <1>1, <2>3, <3>2
      <3>3. CASE i \in p + 2 .. n + 1
        <4>1. i - 1 \in 1 .. n
          BY <1>4, <3>3
        <4>2. QED
          BY <1>1, <1>6, <2>4, <3>3, <4>1
      <3>4. QED
        BY <1>4, <3>1, <3>2, <3>3
    <2>6. r = [i \in 1 .. n + 1 |-> r[i]]
      BY <2>1 DEF PutAfter, n
    <2> HIDE DEF r
    <2>7. r \in Seq(DOMAIN t) /\ Len(r) = n + 1
      <3>1. n + 1 \in Nat
        BY <1>4
      <3>2. r \in [1 .. n + 1 -> DOMAIN t]
        BY <2>5, <2>6
      <3>3. r \in Seq(DOMAIN t)
        BY <3>1, <3>2, SeqDef
      <3>4. QED
        BY <2>1, <3>1, <3>3, LenProperties
    <2>8. r # <<>>
      BY <1>4, <2>7, EmptySeq
    <2>9. QED
      BY <2>1, <2>2, <2>3, <2>4, <2>7, <2>8
  <1> HIDE DEF r
  <1>8. {r[i] : i \in DOMAIN r} = {c \in DOMAIN t : t[c].leaf}
    <2>1. ASSUME NEW i \in DOMAIN r PROVE r[i] \in DOMAIN t /\ t[r[i]].leaf
      <3>1. ASSUME NEW k \in 1 .. n PROVE row[k] \in DOMAIN t /\ t[row[k]].leaf
        BY <1>1, <1>2, <1>6
      <3>2. CASE i \in 1 .. p
        <4>1. i \in 1 .. n
          BY <1>4, <3>2
        <4>2. QED
          BY <1>7, <3>1, <3>2, <4>1
      <3>3. CASE i = p + 1
        BY <1>1, <1>2, <1>7, <3>3
      <3>4. CASE i \in p + 2 .. n + 1
        <4>1. i - 1 \in 1 .. n
          BY <1>4, <3>4
        <4>2. QED
          BY <1>7, <3>1, <3>4, <4>1
      <3>5. QED
        BY <1>4, <1>7, <3>2, <3>3, <3>4
    <2>2. ASSUME NEW c \in DOMAIN t, t[c].leaf PROVE \E i \in DOMAIN r : r[i] = c
      <3>1. CASE c = new
        <4>1. p + 1 \in DOMAIN r
          BY <1>4, <1>7
        <4>2. QED
          BY <1>7, <3>1, <4>1
      <3>2. CASE c # new
        <4>1. c \in DOMAIN tree /\ tree[c].leaf
          BY <1>1, <2>2, <3>2
        <4>2. PICK k \in 1 .. n : row[k] = c
          BY <1>3, <1>4, <4>1
        <4>3. CASE k <= p
          <5>1. k \in 1 .. p /\ k \in DOMAIN r
            BY <1>4, <1>7, <4>3
          <5>2. QED
            BY <1>7, <4>2, <5>1
        <4>4. CASE k > p
          <5>1. k + 1 \in p + 2 .. n + 1 /\ k + 1 \in DOMAIN r /\ (k + 1) - 1 = k
            BY <1>4, <1>7, <4>4
          <5>2. r[k + 1] = c
            BY <1>7, <4>2, <5>1
          <5>3. QED
            BY <5>1, <5>2
        <4>5. QED
          BY <1>4, <4>3, <4>4
      <3>3. QED
        BY <3>1, <3>2
    <2>3. QED
      BY <2>1, <2>2
  <1>9. ASSUME NEW i \in DOMAIN r, NEW j \in DOMAIN r, r[i] = r[j]
        PROVE  i = j
    <2> DEFINE back(k) == IF k <= p THEN k ELSE k - 1
    <2>1. ASSUME NEW k \in DOMAIN r, k # p + 1
          PROVE  back(k) \in 1 .. n /\ r[k] = row[back(k)] /\ r[k] # new
      <3>1. CASE k <= p
        <4>1. k \in 1 .. p /\ k \in 1 .. n
          BY <1>4, <1>7, <3>1
        <4>2. QED
          BY <1>1, <1>6, <1>7, <3>1, <4>1
      <3>2. CASE ~(k <= p)
        <4>1. k \in p + 2 .. n + 1 /\ k - 1 \in 1 .. n
          BY <1>4, <1>7, <2>1, <3>2
        <4>2. QED
          BY <1>1, <1>6, <1>7, <3>2, <4>1
      <3>3. QED
        BY <3>1, <3>2
    <2>2. CASE i = p + 1 \/ j = p + 1
      BY <1>7, <1>9, <2>1, <2>2
    <2>3. CASE i # p + 1 /\ j # p + 1
      <3>1. back(i) = back(j)
        <4> HIDE DEF back
        <4>1. QED
          BY <1>3, <1>4, <1>9, <2>1, <2>3
      <3>2. QED
        BY <1>4, <1>7, <2>3, <3>1
    <2>4. QED
      BY <2>2, <2>3
  <1>10. ASSUME NEW i \in DOMAIN r
         PROVE  t[r[i]].right_link = IF i < Len(r) THEN r[i + 1] ELSE INVALID_BLOCK
    <2>1. \A k \in 1 .. n : row[k] = b <=> k = p
      BY <1>3, <1>4, <1>5
    <2>2. CASE i < p
      <3>1. i \in 1 .. p /\ i + 1 \in 1 .. p /\ i \in 1 .. n /\ i < n /\ i # p /\ i < n + 1
        BY <1>4, <1>7, <2>2
      <3>2. r[i] = row[i] /\ r[i + 1] = row[i + 1] /\ t[row[i]] = tree[row[i]]
        BY <1>1, <1>6, <1>7, <2>1, <3>1
      <3>3. tree[row[i]].right_link = row[i + 1]
        BY <1>3, <1>4, <3>1 DEF n
      <3>4. QED
        BY <1>7, <3>1, <3>2, <3>3
    <2>3. CASE i = p
      <3>1. i \in 1 .. p /\ i < n + 1
        BY <1>4, <2>3
      <3>2. r[i] = b /\ r[i + 1] = new
        BY <1>5, <1>7, <2>3, <3>1
      <3>3. QED
        BY <1>2, <1>7, <3>1, <3>2
    <2>4. CASE i = p + 1
      <3>1. t[r[i]].right_link = tree[row[p]].right_link
        BY <1>2, <1>5, <1>7, <2>4
      <3>2. CASE p < n
        <4>1. tree[row[p]].right_link = row[p + 1]
          BY <1>3, <1>4, <3>2 DEF n
        <4>2. i + 1 \in p + 2 .. n + 1 /\ (i + 1) - 1 = p + 1 /\ i < n + 1
          BY <1>4, <2>4, <3>2
        <4>3. r[i + 1] = row[p + 1]
          BY <1>7, <4>2
        <4>4. QED
          BY <1>7, <3>1, <4>1, <4>2, <4>3
      <3>3. CASE ~(p < n)
        <4>1. tree[row[p]].right_link = INVALID_BLOCK
          BY <1>3, <1>4, <3>3 DEF n
        <4>2. ~(i < n + 1)
          BY <1>4, <2>4, <3>3
        <4>3. QED
          BY <1>7, <3>1, <4>1, <4>2
      <3>4. QED
        BY <3>2, <3>3
    <2>5. CASE i > p + 1
      <3>1. i \in p + 2 .. n + 1 /\ i - 1 \in 1 .. n /\ i - 1 # p
        BY <1>4, <1>7, <2>5
      <3>2. r[i] = row[i - 1] /\ t[row[i - 1]] = tree[row[i - 1]]
        BY <1>1, <1>6, <1>7, <2>1, <3>1
      <3>3. tree[row[i - 1]].right_link = IF i - 1 < n THEN row[(i - 1) + 1] ELSE INVALID_BLOCK
        BY <1>3, <1>4, <3>1 DEF n
      <3>4. CASE i < n + 1
        <4>1. i + 1 \in p + 2 .. n + 1 /\ (i + 1) - 1 = i /\ (i - 1) + 1 = i /\ i - 1 < n
          BY <1>4, <3>1, <3>4
        <4>2. r[i + 1] = row[i]
          BY <1>7, <4>1
        <4>3. QED
          BY <1>7, <3>2, <3>3, <3>4, <4>1, <4>2
      <3>5. CASE ~(i < n + 1)
        <4>1. ~(i - 1 < n)
          BY <1>4, <3>1, <3>5
        <4>2. QED
          BY <1>7, <3>2, <3>3, <3>5, <4>1
      <3>6. QED
        BY <3>4, <3>5
    <2>6. QED
      BY <1>4, <1>7, <2>2, <2>3, <2>4, <2>5
  <1>11. LinkedIn(t, r)
    BY <1>7, <1>8, <1>9, <1>10 DEF LinkedIn
  <1>12. QED
    BY <1>11

LEMMA SplitInv ==
  ASSUME SearchInv, NEW b \in DOMAIN pages, Split(b)
  PROVE  SearchInv'
  <1> DEFINE new == Cardinality(DOMAIN pages)
             half == NumKeys(b) \div 2
             left == [pages[b] EXCEPT !.keys = SubSeq(@, 1, half), !.right_link = new,
                                      !.high_key = Key(b, half)]
             right == [pages[b] EXCEPT !.keys = SubSeq(@, half + 1, Len(@))]
  <1>1. /\ SearchTypes /\ Reached /\ Numbered /\ Ordered /\ page \in DOMAIN pages
    BY DEF SearchInv, SearchTypes
  <1>2. /\ phase = "moving" /\ pages[b].leaf /\ NumKeys(b) > 1
        /\ pages' = [n \in DOMAIN pages \cup {new} |->
                       IF n = b THEN left ELSE IF n = new THEN right ELSE pages[n]]
        /\ new < MaxPages
        /\ UNCHANGED <<scankey, nextkey, page, phase, low, high, stack>>
    BY DEF Split
  <1>3. PICK n \in Nat : n <= MaxPages /\ DOMAIN pages = 0 .. n - 1
    BY <1>1, TreeAssumption DEF Numbered
  <1>4. new = n /\ new \in Nat /\ new \notin DOMAIN pages /\ DOMAIN pages \subseteq Nat
    <2>1. Cardinality(0 .. n - 1) = n
      <3>1. 0 \in Int /\ n - 1 \in Int
        BY <1>3
      <3>2. Cardinality(0 .. n - 1) = IF 0 > n - 1 THEN 0 ELSE (n - 1) - 0 + 1
        BY <3>1, FS_Interval
      <3>3. QED
        BY <1>3, <3>2
    <2>2. QED
      BY <1>3, <2>1
  <1>5. NumKeys(b) \in Nat
    BY <1>1, PageFacts
  <1>6. half \in 1 .. Len(pages[b].keys) - 1 /\ half \in Nat
    <2>1. \A m \in Nat : m > 1 => m \div 2 \in 1 .. m - 1
      OBVIOUS
    <2>2. NumKeys(b) = Len(pages[b].keys)
      BY DEF NumKeys
    <2>3. half \in 1 .. NumKeys(b) - 1
      BY <1>2, <1>5, <2>1
    <2> HIDE DEF half
    <2>4. QED
      BY <1>5, <2>2, <2>3
  <1>7. DOMAIN pages' = DOMAIN pages \cup {new}
    BY <1>2
  <1>8. /\ pages'[b] = left /\ pages'[new] = right
        /\ \A c \in DOMAIN pages \ {b} : pages'[c] = pages[c]
    <2>1. b # new /\ b \in DOMAIN pages'
      BY <1>4, <1>7
    <2>2. pages'[b] = left
      <3> HIDE DEF left, right, new
      <3>1. QED
        BY <1>2, <1>7, <2>1
    <2>3. pages'[new] = right
      <3> HIDE DEF left, right, new
      <3>1. QED
        BY <1>2, <1>7, <2>1
    <2>4. ASSUME NEW c \in DOMAIN pages \ {b} PROVE pages'[c] = pages[c]
      <3>1. c # new
        BY <1>4
      <3> HIDE DEF left, right, new
      <3>2. QED
        BY <1>2, <1>7, <3>1
    <2>5. QED
      BY <2>2, <2>3, <2>4
  <1>9. LeafSplit(pages, b, new, half, pages')
    <2>0. new # INVALID_BLOCK /\ INVALID_BLOCK \notin DOMAIN pages
      <3> HIDE DEF new
      <3>1. INVALID_BLOCK \notin 0 .. MaxPages - 1 /\ MaxPages \in Nat
        BY TreeAssumption
      <3>2. new \in 0 .. MaxPages - 1 /\ DOMAIN pages \subseteq 0 .. MaxPages - 1
        BY <1>2, <1>3, <1>4, <3>1
      <3>3. QED
        BY <3>1, <3>2
    <2>1. left = [pages[b] EXCEPT !.keys = SubSeq(@, 1, half), !.right_link = new,
                                  !.high_key = pages[b].keys[half + 1]]
      BY DEF Key
    <2>2. SplitOf(pages, b, new, half, pages')
      BY <1>7, <1>8, <2>1 DEF SplitOf
    <2>3. QED
      BY <1>2, <1>4, <1>6, <2>0, <2>2 DEF LeafSplit
  <1> HIDE DEF new, half, left, right
  <1>10. PICK row : InOrder(pages, row)
    BY <1>1 DEF Ordered
  <1>11. LinkedIn(pages, row) /\ PagesInOrder(pages) /\ ChildrenInOrder(pages)
    BY <1>10 DEF InOrder
  <1>12. Ordered'
    <2>1. PICK r : LinkedIn(pages', r)
      BY <1>9, <1>11, SplitLinkedIn
    <2>2. InOrder(pages', r)
      BY <1>9, <1>11, <2>1, SplitPagesInOrder, SplitChildrenInOrder DEF InOrder
    <2>3. QED
      BY <2>2 DEF Ordered
  <1>13. Numbered'
    <2>1. DOMAIN pages' = 0 .. (n + 1) - 1
      BY <1>3, <1>4, <1>7
    <2>2. n + 1 \in 0 .. MaxPages
      BY <1>2, <1>3, <1>4, TreeAssumption
    <2>3. QED
      BY <2>1, <2>2 DEF Numbered
  <1>14. Reached'
    <2> SUFFICES ASSUME NEW a \in DOMAIN pages', RightOf(pages', a, page)
                 PROVE  Beyond(pages'[a].high_key)
      BY <1>2 DEF Reached, Beyond
    <2>1. page \in DOMAIN pages'
      BY <1>1, <1>7
    <2>2. \/ a = b /\ page = new
          \/ a = new /\ RightOf(pages, b, page)
          \/ a \in DOMAIN pages \ {b} /\ RightOf(pages, a, page)
      BY <1>9, <1>11, <2>1, SplitLinks
    <2>3. pages'[new].high_key = pages[b].high_key
      BY <1>9, <1>11, SplitKinds DEF Halves
    <2>4. PICK x \in DOMAIN pages : RightOf(pages, x, page)
                                    /\ pages'[a].high_key = pages[x].high_key
      BY <1>1, <1>4, <1>8, <2>2, <2>3
    <2>5. QED
      BY <1>1, <2>4 DEF Reached
  <1>15. SearchTypes' /\ Halved' /\ Ended'
    BY <1>1, <1>2, <1>7 DEF SearchTypes, Halved, Ended
  <1>16. QED
    BY <1>12, <1>13, <1>14, <1>15 DEF SearchInv

LEMMA SearchNextInv == SearchInv /\ [BTreeNext]_btreeVars => SearchInv'
  <1> SUFFICES ASSUME SearchInv, [BTreeNext]_btreeVars
               PROVE  SearchInv'
    OBVIOUS
  <1>1. CASE MoveRight
    BY <1>1, MoveRightInv
  <1>2. CASE StartSearch
    BY <1>2, StartSearchInv
  <1>3. CASE Halve
    BY <1>3, HalveInv
  <1>4. CASE Descend
    BY <1>4, DescendInv
  <1>5. CASE Found
    BY <1>5, FoundInv
  <1>6. CASE \E b \in DOMAIN pages : Split(b)
    BY <1>6, SplitInv
  <1>7. CASE UNCHANGED btreeVars
    BY <1>7 DEF btreeVars, SearchInv, SearchTypes, Reached, Halved, Ended, Numbered, Ordered,
                Beyond, BeyondSlot, MustMove, Key, NumKeys
  <1>8. QED
    BY <1>1, <1>2, <1>3, <1>4, <1>5, <1>6, <1>7 DEF BTreeNext

LEMMA SearchInvariance == BTreeSpec => []SearchInv
  BY SearchInitInv, SearchNextInv, PTL DEF BTreeSpec

-----------------------------------------------------------------------------
(* The keys along the row.                                                  *)

\* What the row of the leaves says of its places.
LEMMA RowFacts ==
  ASSUME Numbered, NEW row, InOrder(pages, row)
  PROVE  /\ Len(row) \in Nat /\ Len(row) >= 1 /\ DOMAIN row = 1 .. Len(row)
         /\ \A b : b \in {c \in DOMAIN pages : pages[c].leaf}
                     <=> \E i \in 1 .. Len(row) : row[i] = b
         /\ \A i, j \in 1 .. Len(row) : row[i] = row[j] => i = j
         /\ \A i \in 1 .. Len(row) :
              /\ row[i] \in DOMAIN pages /\ pages[row[i]].leaf
              /\ i < Len(row) => /\ row[i + 1] \in DOMAIN pages
                                 /\ pages[row[i]].right_link = row[i + 1]
                                 /\ pages[row[i]].right_link # INVALID_BLOCK
              /\ ~(i < Len(row)) => pages[row[i]].right_link = INVALID_BLOCK
  <1>1. /\ row \in Seq(DOMAIN pages) /\ row # <<>>
        /\ {row[i] : i \in DOMAIN row} = {b \in DOMAIN pages : pages[b].leaf}
        /\ \A i, j \in DOMAIN row : row[i] = row[j] => i = j
        /\ \A i \in DOMAIN row :
             pages[row[i]].right_link = IF i < Len(row) THEN row[i + 1] ELSE INVALID_BLOCK
    BY DEF InOrder, LinkedIn
  <1>2. Len(row) \in Nat /\ DOMAIN row = 1 .. Len(row)
    BY <1>1, LenProperties
  <1>3. Len(row) >= 1
    BY <1>1, <1>2, EmptySeq
  <1>4. \A b : b \in {c \in DOMAIN pages : pages[c].leaf} <=> \E i \in 1 .. Len(row) : row[i] = b
    BY <1>1, <1>2
  <1>5. \A i \in 1 .. Len(row) : row[i] \in DOMAIN pages /\ pages[row[i]].leaf
    BY <1>1, <1>2
  <1>6. ASSUME NEW i \in 1 .. Len(row)
        PROVE  /\ i < Len(row) => /\ row[i + 1] \in DOMAIN pages
                                  /\ pages[row[i]].right_link = row[i + 1]
                                  /\ pages[row[i]].right_link # INVALID_BLOCK
               /\ ~(i < Len(row)) => pages[row[i]].right_link = INVALID_BLOCK
    <2>1. CASE i < Len(row)
      <3>1. i + 1 \in 1 .. Len(row)
        BY <1>2, <2>1
      <3>2. row[i + 1] \in DOMAIN pages /\ row[i + 1] # INVALID_BLOCK
        BY <1>5, <3>1, BlockIsNumber
      <3>3. QED
        BY <1>1, <1>2, <2>1, <3>2
    <2>2. CASE ~(i < Len(row))
      BY <1>1, <1>2, <2>2
    <2>3. QED
      BY <2>1, <2>2
  <1>7. QED
    BY <1>1, <1>2, <1>3, <1>4, <1>5, <1>6

\* A leaf's keys and, if there is a leaf on its right, what f has of that one.
KeysBy(f, b) ==
  pages[b].keys \o (IF pages[b].right_link = INVALID_BLOCK THEN <<>>
                    ELSE f[pages[b].right_link])

LEMMA KeysFromIs ==
  ASSUME Numbered, NEW row, InOrder(pages, row)
  PROVE  \A b \in DOMAIN pages : pages[b].leaf => KeysFrom[b] = KeysBy(KeysFrom, b)
  <1> DEFINE n == Len(row)
             From(m) == {row[i] : i \in n - m + 1 .. n}
             By(f, D) == f = [b \in D |-> KeysBy(f, b)]
             N == {m \in 0 .. n : \E f : By(f, From(m))}
  <1>1. /\ n \in Nat
        /\ \A b : b \in {c \in DOMAIN pages : pages[c].leaf} <=> \E i \in 1 .. n : row[i] = b
        /\ \A i \in 1 .. n :
             /\ i < n => pages[row[i]].right_link = row[i + 1]
             /\ ~(i < n) => pages[row[i]].right_link = INVALID_BLOCK
    BY RowFacts
  <1> HIDE DEF n
  <1>2. 0 \in N
    <2> DEFINE f == [b \in {} |-> b]
    <2>1. From(0) = {}
      BY <1>1
    <2>2. By(f, From(0))
      BY <2>1
    <2> HIDE DEF f, By, From
    <2>3. QED
      BY <1>1, <2>2
  <1>3. ASSUME NEW m \in 1 .. n, m - 1 \in N
        PROVE  m \in N
    <2>1. PICK f : By(f, From(m - 1))
      BY <1>3
    <2> DEFINE g == [b \in From(m) |-> KeysBy(f, b)]
    <2>2. From(m - 1) \subseteq From(m)
      <3>1. \A i \in n - (m - 1) + 1 .. n : i \in n - m + 1 .. n
        BY <1>1
      <3>2. QED
        BY <3>1
    <2>3. ASSUME NEW b \in From(m), pages[b].right_link # INVALID_BLOCK
          PROVE  pages[b].right_link \in From(m - 1)
      <3>1. PICK i \in n - m + 1 .. n : b = row[i]
        OBVIOUS
      <3>2. i \in 1 .. n
        BY <1>1
      <3>3. i < n /\ pages[b].right_link = row[i + 1]
        BY <1>1, <2>3, <3>1, <3>2
      <3>4. i + 1 \in n - (m - 1) + 1 .. n
        BY <1>1, <3>2, <3>3
      <3>5. QED
        BY <3>3, <3>4
    <2> HIDE DEF From
    <2>4. ASSUME NEW b \in From(m - 1) PROVE g[b] = f[b]
      <3>1. f[b] = KeysBy(f, b)
        BY <2>1
      <3>2. b \in From(m)
        BY <2>2
      <3> HIDE DEF By
      <3>3. QED
        BY <3>1, <3>2
    <2>5. ASSUME NEW b \in From(m) PROVE g[b] = KeysBy(g, b)
      <3>1. g[b] = KeysBy(f, b)
        OBVIOUS
      <3> HIDE DEF g, By
      <3>2. CASE pages[b].right_link = INVALID_BLOCK
        BY <3>1, <3>2 DEF KeysBy
      <3>3. CASE pages[b].right_link # INVALID_BLOCK
        <4>1. g[pages[b].right_link] = f[pages[b].right_link]
          BY <2>3, <2>4, <3>3
        <4>2. QED
          BY <3>1, <3>3, <4>1 DEF KeysBy
      <3>4. QED
        BY <3>2, <3>3
    <2>6. g = [b \in From(m) |-> g[b]]
      OBVIOUS
    <2> HIDE DEF g
    <2>7. By(g, From(m))
      BY <2>5, <2>6
    <2> HIDE DEF By
    <2>8. QED
      BY <2>7
  <1>4. n \in N
    <2> HIDE DEF N
    <2>1. \A m \in 0 .. n : m \in N
      BY <1>1, <1>2, <1>3, UpTo
    <2>2. QED
      BY <1>1, <2>1
  <1>5. From(n) = {b \in DOMAIN pages : pages[b].leaf}
    <2>1. n - n + 1 = 1
      BY <1>1
    <2>2. QED
      BY <1>1, <2>1
  <1> DEFINE D == {b \in DOMAIN pages : pages[b].leaf}
             KF == CHOOSE f : f = [b \in D |->
                     pages[b].keys \o (IF pages[b].right_link = INVALID_BLOCK THEN <<>>
                                       ELSE f[pages[b].right_link])]
  <1>6. \E f : f = [b \in D |->
                     pages[b].keys \o (IF pages[b].right_link = INVALID_BLOCK THEN <<>>
                                       ELSE f[pages[b].right_link])]
    <2>1. PICK f : By(f, From(n))
      BY <1>4
    <2>2. f = [b \in D |-> KeysBy(f, b)]
      BY <1>5, <2>1
    <2>3. QED
      BY <2>2 DEF KeysBy
  <1>7. KF = [b \in D |->
               pages[b].keys \o (IF pages[b].right_link = INVALID_BLOCK THEN <<>>
                                 ELSE KF[pages[b].right_link])]
    BY <1>6
  <1>8. KeysFrom = KF
    BY DEF KeysFrom
  <1> HIDE DEF KF
  <1>9. QED
    BY <1>7, <1>8 DEF KeysBy

\* The keys of the leaf at place i, its high key, and the keys from it on.
KeysAt(row, i) == pages[row[i]].keys
HighAt(row, i) == pages[row[i]].high_key
FromAt(row, i) == KeysFrom[row[i]]

LEMMA PlaceFacts ==
  ASSUME Numbered, NEW row, InOrder(pages, row), NEW i \in 1 .. Len(row)
  PROVE  /\ KeysAt(row, i) \in Seq(Int) /\ Ascending(KeysAt(row, i))
         /\ Len(KeysAt(row, i)) \in Nat /\ DOMAIN KeysAt(row, i) = 1 .. Len(KeysAt(row, i))
         /\ FromAt(row, i) = KeysAt(row, i) \o (IF i < Len(row) THEN FromAt(row, i + 1) ELSE <<>>)
         /\ i < Len(row) =>
              /\ HighAt(row, i) \in Int
              /\ \A k \in DOMAIN KeysAt(row, i) : KeysAt(row, i)[k] < HighAt(row, i)
              /\ KeysAt(row, i + 1) # <<>> /\ KeysAt(row, i + 1)[1] = HighAt(row, i)
  <1> DEFINE b == row[i]
  <1>1. /\ b \in DOMAIN pages /\ pages[b].leaf /\ Len(row) \in Nat
        /\ i < Len(row) => /\ row[i + 1] \in DOMAIN pages
                           /\ pages[b].right_link = row[i + 1]
                           /\ pages[b].right_link # INVALID_BLOCK
        /\ ~(i < Len(row)) => pages[b].right_link = INVALID_BLOCK
    BY RowFacts
  <1>2. Ordered
    BY DEF Ordered
  <1>3. /\ pages[b].keys \in Seq(Int) /\ Ascending(pages[b].keys)
        /\ NumKeys(b) \in Nat /\ DOMAIN pages[b].keys = 1 .. NumKeys(b)
    BY <1>1, <1>2, PageFacts
  <1>4. KeysFrom[b] = KeysBy(KeysFrom, b)
    BY <1>1, KeysFromIs
  <1>5. FromAt(row, i) = KeysAt(row, i) \o (IF i < Len(row) THEN FromAt(row, i + 1) ELSE <<>>)
    <2>1. CASE i < Len(row)
      BY <1>1, <1>4, <2>1 DEF KeysBy, FromAt, KeysAt
    <2>2. CASE ~(i < Len(row))
      BY <1>1, <1>4, <2>2 DEF KeysBy, FromAt, KeysAt
    <2>3. QED
      BY <2>1, <2>2
  <1>6. ASSUME i < Len(row)
        PROVE  /\ HighAt(row, i) \in Int
               /\ \A k \in DOMAIN KeysAt(row, i) : KeysAt(row, i)[k] < HighAt(row, i)
               /\ KeysAt(row, i + 1) # <<>> /\ KeysAt(row, i + 1)[1] = HighAt(row, i)
    <2>1. RightOf(pages, b, row[i + 1]) /\ row[i + 1] \in DOMAIN pages
      BY <1>1, <1>6 DEF RightOf
    <2>2. pages[b].high_key \in Int
      BY <1>1, <1>2, <2>1, HighKeyIsNumber
    <2>3. Follow(pages[b], pages[row[i + 1]])
      BY <1>1, <1>2, <2>1, LinkFacts
    <2>4. QED
      BY <2>2, <2>3 DEF Follow, HighAt, KeysAt
  <1>7. QED
    BY <1>3, <1>5, <1>6 DEF KeysAt, NumKeys

\* The keys of a leaf come before those that follow.
LEMMA FirstKeys ==
  ASSUME NEW keys \in Seq(Int), NEW rest \in Seq(Int)
  PROVE  /\ keys \o rest \in Seq(Int) /\ Len(keys) \in Nat /\ Len(rest) \in Nat
         /\ Len(keys \o rest) = Len(keys) + Len(rest)
         /\ DOMAIN keys = 1 .. Len(keys) /\ DOMAIN rest = 1 .. Len(rest)
         /\ DOMAIN (keys \o rest) = 1 .. Len(keys) + Len(rest)
         /\ \A k \in DOMAIN keys : (keys \o rest)[k] = keys[k]
         /\ \A k \in DOMAIN rest : (keys \o rest)[Len(keys) + k] = rest[k]
         /\ \A k \in DOMAIN (keys \o rest) :
              k \in DOMAIN keys \/ (k > Len(keys) /\ k - Len(keys) \in DOMAIN rest)
  <1>1. /\ Len(keys) \in Nat /\ Len(rest) \in Nat
        /\ DOMAIN keys = 1 .. Len(keys) /\ DOMAIN rest = 1 .. Len(rest)
    BY LenProperties
  <1>2. /\ keys \o rest \in Seq(Int) /\ Len(keys \o rest) = Len(keys) + Len(rest)
        /\ \A k \in 1 .. Len(keys) + Len(rest) :
             (keys \o rest)[k] = IF k <= Len(keys) THEN keys[k] ELSE rest[k - Len(keys)]
    BY ConcatProperties
  <1>3. DOMAIN (keys \o rest) = 1 .. Len(keys) + Len(rest)
    BY <1>2, LenProperties
  <1>4. ASSUME NEW k \in DOMAIN keys PROVE (keys \o rest)[k] = keys[k]
    <2>1. k \in 1 .. Len(keys) + Len(rest) /\ k <= Len(keys)
      BY <1>1
    <2>2. QED
      BY <1>2, <2>1
  <1>5. ASSUME NEW k \in DOMAIN rest PROVE (keys \o rest)[Len(keys) + k] = rest[k]
    <2>1. /\ Len(keys) + k \in 1 .. Len(keys) + Len(rest) /\ ~(Len(keys) + k <= Len(keys))
          /\ (Len(keys) + k) - Len(keys) = k
      BY <1>1
    <2>2. QED
      BY <1>2, <2>1
  <1>6. ASSUME NEW k \in DOMAIN (keys \o rest)
        PROVE  k \in DOMAIN keys \/ (k > Len(keys) /\ k - Len(keys) \in DOMAIN rest)
    BY <1>1, <1>3
  <1>7. QED
    BY <1>1, <1>2, <1>3, <1>4, <1>5, <1>6

\* The keys from a leaf on are numbers, no less than the high key of the leaf
\* before it.
LEMMA LaterKeys ==
  ASSUME Numbered, NEW row, InOrder(pages, row), NEW i \in 1 .. Len(row)
  PROVE  /\ FromAt(row, i) \in Seq(Int)
         /\ i > 1 => \A k \in DOMAIN FromAt(row, i) : FromAt(row, i)[k] >= HighAt(row, i - 1)
  <1> DEFINE n == Len(row)
             Later(j) == /\ FromAt(row, j) \in Seq(Int)
                         /\ j > 1 => \A k \in DOMAIN FromAt(row, j) :
                                        FromAt(row, j)[k] >= HighAt(row, j - 1)
             N == {m \in 0 .. n - 1 : Later(n - m)}
  <1>0. n \in Nat /\ n >= 1 /\ n - 1 \in Nat
    BY RowFacts
  <1> HIDE DEF n
  <1>1. ASSUME NEW j \in 1 .. n, j < n => Later(j + 1)
        PROVE  Later(j)
    <2>1. /\ KeysAt(row, j) \in Seq(Int) /\ Ascending(KeysAt(row, j))
          /\ Len(KeysAt(row, j)) \in Nat /\ DOMAIN KeysAt(row, j) = 1 .. Len(KeysAt(row, j))
          /\ FromAt(row, j) = KeysAt(row, j) \o (IF j < n THEN FromAt(row, j + 1) ELSE <<>>)
          /\ j < n => HighAt(row, j) \in Int
          /\ j < n => \A k \in DOMAIN KeysAt(row, j) : KeysAt(row, j)[k] < HighAt(row, j)
      BY PlaceFacts DEF n
    <2>2. PICK rest \in Seq(Int) : /\ FromAt(row, j) = KeysAt(row, j) \o rest
                                   /\ rest # <<>> => j < n
                                   /\ j < n => rest = FromAt(row, j + 1)
      <3>1. CASE j < n
        BY <1>1, <2>1, <3>1
      <3>2. CASE ~(j < n)
        <4>1. <<>> \in Seq(Int)
          BY EmptySeq
        <4>2. FromAt(row, j) = KeysAt(row, j) \o <<>>
          BY <2>1, <3>2
        <4>3. QED
          BY <3>2, <4>1, <4>2
      <3>3. QED
        BY <3>1, <3>2
    <2>3. /\ FromAt(row, j) \in Seq(Int) /\ DOMAIN rest = 1 .. Len(rest)
          /\ \A k \in DOMAIN KeysAt(row, j) : FromAt(row, j)[k] = KeysAt(row, j)[k]
          /\ \A k \in DOMAIN rest : FromAt(row, j)[Len(KeysAt(row, j)) + k] = rest[k]
          /\ \A k \in DOMAIN FromAt(row, j) :
               k \in DOMAIN KeysAt(row, j)
                 \/ (k > Len(KeysAt(row, j)) /\ k - Len(KeysAt(row, j)) \in DOMAIN rest)
      <3>1. PICK keys \in Seq(Int) : keys = KeysAt(row, j)
        BY <2>1
      <3>2. FromAt(row, j) = keys \o rest
        BY <2>2, <3>1
      <3>3. /\ keys \o rest \in Seq(Int) /\ DOMAIN rest = 1 .. Len(rest)
            /\ \A k \in DOMAIN keys : (keys \o rest)[k] = keys[k]
            /\ \A k \in DOMAIN rest : (keys \o rest)[Len(keys) + k] = rest[k]
            /\ \A k \in DOMAIN (keys \o rest) :
                 k \in DOMAIN keys \/ (k > Len(keys) /\ k - Len(keys) \in DOMAIN rest)
        BY FirstKeys
      <3>4. QED
        BY <3>1, <3>2, <3>3
    <2>4. ASSUME j > 1, NEW k \in DOMAIN FromAt(row, j)
          PROVE  FromAt(row, j)[k] >= HighAt(row, j - 1)
      <3>1. j - 1 \in 1 .. n /\ j - 1 < n /\ (j - 1) + 1 = j
        BY <1>0, <2>4
      <3>2. /\ HighAt(row, j - 1) \in Int
            /\ KeysAt(row, j) # <<>> /\ KeysAt(row, j)[1] = HighAt(row, j - 1)
        BY <3>1, PlaceFacts DEF n
      <3>3. 1 \in DOMAIN KeysAt(row, j)
        BY <2>1, <3>2, EmptySeq
      <3>4. CASE k \in DOMAIN KeysAt(row, j)
        <4>1. KeysAt(row, j)[k] \in Int
          BY <2>1, <3>4, ElementOfSeq
        <4>2. KeysAt(row, j)[k] >= KeysAt(row, j)[1]
          <5>1. CASE k = 1
            BY <4>1, <5>1
          <5>2. CASE k # 1
            <6>1. 1 < k
              BY <2>1, <3>4, <5>2
            <6>2. KeysAt(row, j)[1] < KeysAt(row, j)[k]
              BY <2>1, <3>3, <3>4, <6>1 DEF Ascending
            <6>3. QED
              BY <3>2, <4>1, <6>2
          <5>3. QED
            BY <5>1, <5>2
        <4>3. QED
          BY <2>3, <3>2, <3>4, <4>2
      <3>5. CASE k > Len(KeysAt(row, j)) /\ k - Len(KeysAt(row, j)) \in DOMAIN rest
        <4> DEFINE l == k - Len(KeysAt(row, j))
        <4>1. j < n
          <5>1. rest # <<>>
            BY <3>5
          <5>2. QED
            BY <2>2, <5>1
        <4>2. l \in DOMAIN FromAt(row, j + 1) /\ rest = FromAt(row, j + 1)
          BY <2>2, <3>5, <4>1
        <4>3. j + 1 > 1 /\ (j + 1) - 1 = j
          OBVIOUS
        <4>4. rest[l] >= HighAt(row, j)
          BY <1>1, <4>1, <4>2, <4>3
        <4>5. HighAt(row, j) \in Int /\ KeysAt(row, j)[1] < HighAt(row, j)
          BY <2>1, <3>3, <4>1
        <4>6. rest[l] \in Int
          BY <2>2, <3>5, ElementOfSeq, <2>3
        <4>7. k = Len(KeysAt(row, j)) + l
          BY <2>1, <2>3, <3>5
        <4>8. FromAt(row, j)[k] = rest[l]
          BY <2>3, <3>5, <4>7
        <4>9. QED
          BY <3>2, <4>4, <4>5, <4>6, <4>8
      <3>6. QED
        BY <2>3, <2>4, <3>4, <3>5
    <2>5. QED
      BY <2>3, <2>4
  <1> HIDE DEF Later
  <1>2. 0 \in N
    <2>1. n \in 1 .. n /\ ~(n < n) /\ n - 0 = n
      BY <1>0
    <2>2. Later(n)
      BY <1>1, <2>1
    <2>3. QED
      BY <1>0, <2>1, <2>2
  <1>3. ASSUME NEW m \in 1 .. n - 1, m - 1 \in N
        PROVE  m \in N
    <2>1. n - m \in 1 .. n /\ (n - m) + 1 = n - (m - 1)
      BY <1>0
    <2>2. Later((n - m) + 1)
      BY <1>3, <2>1
    <2>3. QED
      BY <1>1, <2>1, <2>2
  <1>4. \A m \in 0 .. n - 1 : m \in N
    <2> HIDE DEF N
    <2>1. QED
      BY <1>0, <1>2, <1>3, UpTo
  <1>5. Later(i)
    <2>1. n - i \in 0 .. n - 1 /\ n - (n - i) = i
      BY <1>0 DEF n
    <2>2. QED
      BY <1>4, <2>1
  <1>6. QED
    BY <1>5 DEF Later

\* Three sequences joined in different orders.
Associates(s, t, u) == (s \o t) \o u = s \o (t \o u)

LEMMA Associated ==
  ASSUME NEW S, NEW s \in Seq(S), NEW t \in Seq(S), NEW u \in Seq(S)
  PROVE  Associates(s, t, u)
  BY ConcatAssociative, SMTT(30) DEF Associates

\* The keys before a leaf are less than the high key of the one on its left.
LEMMA EarlierKeys ==
  ASSUME Numbered, NEW row, InOrder(pages, row), NEW i \in 1 .. Len(row)
  PROVE  \E pre \in Seq(Int) :
           /\ FromAt(row, 1) = pre \o FromAt(row, i)
           /\ pre # <<>> => i > 1
           /\ i > 1 => \A k \in DOMAIN pre : pre[k] < HighAt(row, i - 1)
  <1> DEFINE n == Len(row)
             Before(j, pre) == /\ FromAt(row, 1) = pre \o FromAt(row, j)
                               /\ pre # <<>> => j > 1
                               /\ j > 1 => \A k \in DOMAIN pre : pre[k] < HighAt(row, j - 1)
             N == {m \in 0 .. n - 1 : \E pre \in Seq(Int) : Before(m + 1, pre)}
  <1>0. n \in Nat /\ n >= 1 /\ n - 1 \in Nat
    BY RowFacts
  <1> HIDE DEF n
  <1>1. 0 \in N
    <2>1. 1 \in 1 .. Len(row) /\ 0 + 1 = 1 /\ 0 \in 0 .. n - 1
      BY <1>0 DEF n
    <2>2. FromAt(row, 1) \in Seq(Int)
      BY <2>1, LaterKeys
    <2>3. <<>> \o FromAt(row, 1) = FromAt(row, 1) /\ <<>> \in Seq(Int)
      BY <2>2, ConcatEmptySeq, EmptySeq
    <2>4. Before(1, <<>>)
      BY <2>3
    <2> HIDE DEF Before
    <2>5. QED
      BY <2>1, <2>3, <2>4
  <1>2. ASSUME NEW m \in 1 .. n - 1, m - 1 \in N
        PROVE  m \in N
    <2>1. m \in 1 .. Len(row) /\ m < n /\ m + 1 \in 1 .. Len(row) /\ (m - 1) + 1 = m
          /\ (m + 1) - 1 = m /\ m + 1 > 1
      BY <1>0 DEF n
    <2>2. PICK pre \in Seq(Int) : Before(m, pre)
      BY <1>2, <2>1
    <2>3. PICK keys \in Seq(Int) : keys = KeysAt(row, m)
      BY <2>1, PlaceFacts
    <2>4. /\ DOMAIN keys = 1 .. Len(keys) /\ FromAt(row, m) = keys \o FromAt(row, m + 1)
          /\ HighAt(row, m) \in Int
          /\ \A k \in DOMAIN keys : keys[k] < HighAt(row, m)
          /\ KeysAt(row, m + 1) # <<>> /\ KeysAt(row, m + 1)[1] = HighAt(row, m)
      BY <2>1, <2>3, PlaceFacts DEF n
    <2>5. FromAt(row, m + 1) \in Seq(Int)
      BY <2>1, LaterKeys
    <2>6. FromAt(row, 1) = (pre \o keys) \o FromAt(row, m + 1)
      <3>1. FromAt(row, 1) = pre \o (keys \o FromAt(row, m + 1))
        BY <2>2, <2>4
      <3>2. PICK rest \in Seq(Int) : rest = FromAt(row, m + 1)
        BY <2>5
      <3>3. (pre \o keys) \o rest = pre \o (keys \o rest)
        <4>1. Associates(pre, keys, rest)
          BY Associated
        <4>2. QED
          BY <4>1 DEF Associates
      <3>4. QED
        BY <3>1, <3>2, <3>3
    <2>7. ASSUME NEW k \in DOMAIN (pre \o keys)
          PROVE  (pre \o keys)[k] < HighAt(row, m)
      <3>1. /\ \A l \in DOMAIN pre : (pre \o keys)[l] = pre[l]
            /\ \A l \in DOMAIN keys : (pre \o keys)[Len(pre) + l] = keys[l]
            /\ k \in DOMAIN pre \/ (k > Len(pre) /\ k - Len(pre) \in DOMAIN keys)
            /\ Len(pre) \in Nat /\ DOMAIN (pre \o keys) = 1 .. Len(pre) + Len(keys)
            /\ Len(keys) \in Nat
        BY FirstKeys
      <3>2. CASE k \in DOMAIN pre
        <4>1. m > 1 /\ pre[k] < HighAt(row, m - 1)
          <5>1. pre # <<>>
            BY <3>2
          <5>2. QED
            BY <2>2, <3>2, <5>1
        <4>2. m - 1 \in 1 .. Len(row) /\ m - 1 < Len(row) /\ (m - 1) + 1 = m
          BY <1>0, <2>1, <4>1 DEF n
        <4>3. HighAt(row, m - 1) \in Int /\ keys # <<>> /\ keys[1] = HighAt(row, m - 1)
          BY <2>3, <4>2, PlaceFacts
        <4>4. HighAt(row, m - 1) < HighAt(row, m)
          <5>1. 1 \in DOMAIN keys
            BY <2>4, <4>3, EmptySeq
          <5>2. QED
            BY <2>4, <4>3, <5>1
        <4>5. pre[k] \in Int
          BY <3>2, ElementOfSeq, LenProperties
        <4>6. QED
          <5>1. (pre \o keys)[k] = pre[k]
            BY <3>1, <3>2
          <5>2. HighAt(row, m) \in Int
            BY <2>4
          <5>3. pre[k] < HighAt(row, m)
            BY <4>1, <4>3, <4>4, <4>5, <5>2
          <5>4. QED
            BY <5>1, <5>3
      <3>3. CASE k > Len(pre) /\ k - Len(pre) \in DOMAIN keys
        <4>1. k = Len(pre) + (k - Len(pre))
          BY <3>1
        <4>2. (pre \o keys)[k] = keys[k - Len(pre)]
          BY <3>1, <3>3, <4>1
        <4>3. QED
          BY <2>4, <3>3, <4>2
      <3>4. QED
        BY <3>1, <3>2, <3>3
    <2>8. pre \o keys \in Seq(Int)
      BY FirstKeys
    <2>9. Before(m + 1, pre \o keys)
      BY <2>1, <2>6, <2>7
    <2>10. m \in 0 .. n - 1
      BY <1>0
    <2> HIDE DEF Before
    <2>11. \E p \in Seq(Int) : Before(m + 1, p)
      BY <2>8, <2>9
    <2>12. QED
      BY <2>10, <2>11
  <1>3. \A m \in 0 .. n - 1 : m \in N
    <2> HIDE DEF N
    <2>1. QED
      BY <1>0, <1>1, <1>2, UpTo
  <1>4. PICK pre \in Seq(Int) : Before(i, pre)
    <2>1. i - 1 \in 0 .. n - 1 /\ (i - 1) + 1 = i
      BY <1>0 DEF n
    <2> HIDE DEF Before
    <2>2. QED
      BY <1>3, <2>1
  <1>5. QED
    BY <1>4

LEMMA FirstLeafIs ==
  ASSUME Numbered, NEW row, InOrder(pages, row)
  PROVE  FirstLeaf = row[1]
  <1> DEFINE n == Len(row)
             First(b) == pages[b].leaf /\ \A c \in DOMAIN pages : pages[c].right_link # b
  <1>1. /\ n \in Nat /\ n >= 1
        /\ \A b : b \in {c \in DOMAIN pages : pages[c].leaf} <=> \E i \in 1 .. n : row[i] = b
        /\ \A i, j \in 1 .. n : row[i] = row[j] => i = j
        /\ \A i \in 1 .. n :
             /\ row[i] \in DOMAIN pages /\ pages[row[i]].leaf
             /\ i < n => /\ row[i + 1] \in DOMAIN pages
                         /\ pages[row[i]].right_link = row[i + 1]
                         /\ pages[row[i]].right_link # INVALID_BLOCK
             /\ ~(i < n) => pages[row[i]].right_link = INVALID_BLOCK
    BY RowFacts
  <1> HIDE DEF n
  <1>2. 1 \in 1 .. n /\ row[1] \in DOMAIN pages /\ pages[row[1]].leaf
    BY <1>1
  <1>3. ASSUME NEW c \in DOMAIN pages, pages[c].right_link = row[1]
        PROVE  FALSE
    <2>1. pages[c].leaf = pages[row[1]].leaf
      BY <1>2, <1>3, LinkFacts DEF RightOf, Ordered
    <2>2. PICK i \in 1 .. n : row[i] = c
      BY <1>1, <1>2, <2>1
    <2>3. row[1] # INVALID_BLOCK
      BY <1>2, BlockIsNumber
    <2>4. i < n /\ row[i + 1] = row[1] /\ i + 1 \in 1 .. n
      BY <1>1, <1>3, <2>2, <2>3
    <2>5. i + 1 = 1
      BY <1>1, <1>2, <2>4
    <2>6. QED
      BY <2>5
  <1>4. First(row[1])
    BY <1>2, <1>3
  <1>5. ASSUME NEW b \in DOMAIN pages, First(b)
        PROVE  b = row[1]
    <2>1. PICK i \in 1 .. n : row[i] = b
      BY <1>1, <1>5
    <2>2. CASE i = 1
      BY <2>1, <2>2
    <2>3. CASE i # 1
      <3>1. i - 1 \in 1 .. n /\ i - 1 < n /\ (i - 1) + 1 = i
        BY <1>1, <2>3
      <3>2. pages[row[i - 1]].right_link = b /\ row[i - 1] \in DOMAIN pages
        BY <1>1, <2>1, <3>1
      <3>3. QED
        BY <1>5, <3>2
    <2>4. QED
      BY <2>2, <2>3
  <1>6. FirstLeaf = CHOOSE b \in DOMAIN pages : First(b)
    BY DEF FirstLeaf
  <1> HIDE DEF First
  <1>7. QED
    BY <1>2, <1>4, <1>5, <1>6

\* Where the search ends: the keys before the leaf, its own and those after it.
EndsAt(row, p, pre, keys, post) ==
  /\ page = row[p] /\ keys = pages[page].keys
  /\ pre \in Seq(Int) /\ keys \in Seq(Int) /\ post \in Seq(Int)
  /\ KeysFrom[page] = keys \o post
  /\ KeysFrom[FirstLeaf] = pre \o (keys \o post)
  /\ low \in 0 .. Len(keys)
  /\ \A k \in DOMAIN pre : Beyond(pre[k])
  /\ \A k \in DOMAIN keys : Beyond(keys[k]) <=> k <= low
  /\ \A k \in DOMAIN post : ~Beyond(post[k])
  /\ post # <<>> => p < Len(row)
  /\ p < Len(row) => post = FromAt(row, p + 1) /\ ~Beyond(HighAt(row, p))

LEMMA FoundEnds ==
  ASSUME SearchInv, phase = "found", NEW row, InOrder(pages, row)
  PROVE  \E p \in 1 .. Len(row) : \E pre, keys, post : EndsAt(row, p, pre, keys, post)
  <1>1. /\ SearchTypes /\ Reached /\ Numbered /\ Ordered /\ page \in DOMAIN pages
        /\ high <= low /\ pages[page].leaf
    BY DEF SearchInv, SearchTypes, Ended
  <1> DEFINE keys == pages[page].keys
             n == Len(row)
  <1>2. /\ keys \in Seq(Int) /\ Len(keys) \in Nat /\ DOMAIN keys = 1 .. Len(keys)
        /\ NumKeys(page) = Len(keys)
    BY <1>1, PageFacts DEF NumKeys
  <1>3. /\ ~MustMove /\ low \in Int /\ 0 <= low /\ low = high /\ high <= Len(keys) + 1
        /\ \A slot \in 0 .. low - 1 : BeyondSlot(page, slot)
        /\ \A slot \in high .. Len(keys) : ~BeyondSlot(page, slot)
    BY <1>1, <1>2 DEF SearchInv, SearchTypes, Halved
  <1>4. n \in Nat /\ n >= 1
    BY <1>1, RowFacts
  <1>5. PICK p \in 1 .. n : row[p] = page
    BY <1>1, RowFacts
  <1> HIDE DEF n, keys
  <1>6. \A slot \in Nat : BeyondSlot(page, slot) <=>
                            slot < Len(keys) /\ Beyond(keys[slot + 1])
    BY <1>1, <1>2 DEF BeyondSlot, Key, keys
  <1>7. low \in 0 .. Len(keys)
    <2>1. ASSUME low = Len(keys) + 1 PROVE FALSE
      <3>1. Len(keys) \in 0 .. low - 1 /\ Len(keys) \in Nat
        BY <1>2, <2>1
      <3>2. BeyondSlot(page, Len(keys))
        BY <1>3, <3>1
      <3>3. Len(keys) < Len(keys)
        BY <1>6, <3>1, <3>2
      <3>4. QED
        BY <1>2, <3>3
    <2>2. QED
      BY <1>2, <1>3, <2>1
  <1>8. ASSUME NEW k \in DOMAIN keys
        PROVE  Beyond(keys[k]) <=> k <= low
    <2>1. k - 1 \in Nat /\ k - 1 < Len(keys) /\ (k - 1) + 1 = k
      BY <1>2
    <2>2. BeyondSlot(page, k - 1) <=> Beyond(keys[k])
      BY <1>6, <2>1
    <2>3. CASE k <= low
      <3>1. k - 1 \in 0 .. low - 1
        BY <1>2, <1>3, <2>3
      <3>2. QED
        BY <1>3, <2>2, <2>3, <3>1
    <2>4. CASE ~(k <= low)
      <3>1. k - 1 \in high .. Len(keys)
        BY <1>2, <1>3, <2>4
      <3>2. QED
        BY <1>3, <2>2, <2>4, <3>1
    <2>5. QED
      BY <2>3, <2>4
  <1>9. /\ FromAt(row, p) = keys \o (IF p < n THEN FromAt(row, p + 1) ELSE <<>>)
        /\ p < n => HighAt(row, p) \in Int
    BY <1>1, <1>5, PlaceFacts DEF n, keys, KeysAt
  <1>10. PICK post \in Seq(Int) : /\ FromAt(row, p) = keys \o post
                                  /\ post # <<>> => p < n
                                  /\ p < n => post = FromAt(row, p + 1)
    <2>1. CASE p < n
      <3>1. p + 1 \in 1 .. Len(row)
        BY <1>4, <2>1 DEF n
      <3>2. FromAt(row, p + 1) \in Seq(Int)
        BY <1>1, <3>1, LaterKeys
      <3>3. QED
        BY <1>9, <2>1, <3>2
    <2>2. CASE ~(p < n)
      <3>1. <<>> \in Seq(Int)
        BY EmptySeq
      <3>2. FromAt(row, p) = keys \o <<>>
        BY <1>9, <2>2
      <3>3. QED
        BY <2>2, <3>1, <3>2
    <2>3. QED
      BY <2>1, <2>2
  <1>11. ASSUME p < n
         PROVE  ~Beyond(HighAt(row, p))
    <2>1. pages[page].right_link # INVALID_BLOCK
      BY <1>1, <1>5, <1>11, RowFacts DEF n
    <2>2. pages[page].high_key # NoKey
      BY <1>1, <2>1, PageFacts
    <2>3. ~Beyond(pages[page].high_key)
      BY <1>3, <2>1, <2>2 DEF MustMove
    <2>4. QED
      BY <1>5, <2>3 DEF HighAt
  <1>12. ASSUME NEW k \in DOMAIN post
         PROVE  ~Beyond(post[k])
    <2>1. p < n
      <3>1. post # <<>>
        BY <1>12
      <3>2. QED
        BY <1>10, <3>1
    <2>2. p + 1 \in 1 .. Len(row) /\ p + 1 > 1 /\ (p + 1) - 1 = p
      BY <1>4, <2>1 DEF n
    <2>3. post[k] >= HighAt(row, p)
      BY <1>1, <1>10, <2>1, <2>2, LaterKeys
    <2>4. HighAt(row, p) \in Int /\ post[k] \in Int
      <3>1. post[k] \in Int
        BY <1>12, ElementOfSeq, LenProperties
      <3>2. QED
        BY <1>9, <2>1, <3>1
    <2>5. ~Beyond(HighAt(row, p))
      BY <1>11, <2>1
    <2>6. QED
      BY <1>1, <2>3, <2>4, <2>5, NotBeyondMore
  <1>13. PICK pre \in Seq(Int) :
           /\ FromAt(row, 1) = pre \o FromAt(row, p)
           /\ pre # <<>> => p > 1
           /\ p > 1 => \A k \in DOMAIN pre : pre[k] < HighAt(row, p - 1)
    BY <1>1, EarlierKeys DEF n
  <1>14. ASSUME NEW k \in DOMAIN pre
         PROVE  Beyond(pre[k])
    <2>1. p > 1
      <3>1. pre # <<>>
        BY <1>14
      <3>2. QED
        BY <1>13, <3>1
    <2>2. p - 1 \in 1 .. Len(row) /\ p - 1 < Len(row) /\ (p - 1) + 1 = p
      BY <1>4, <2>1 DEF n
    <2>3. HighAt(row, p - 1) \in Int /\ pre[k] < HighAt(row, p - 1)
      BY <1>1, <1>13, <2>1, <2>2, PlaceFacts
    <2>4. pre[k] \in Int
      BY <1>14, ElementOfSeq, LenProperties
    <2>5. row[p - 1] \in DOMAIN pages /\ RightOf(pages, row[p - 1], page)
      BY <1>1, <1>5, <2>2, RowFacts DEF RightOf
    <2>6. Beyond(HighAt(row, p - 1))
      BY <1>1, <2>5 DEF Reached, HighAt
    <2>7. QED
      BY <1>1, <2>3, <2>4, <2>6, BeyondLess
  <1>15. FirstLeaf = row[1]
    BY <1>1, FirstLeafIs
  <1>16. KeysFrom[page] = keys \o post /\ KeysFrom[FirstLeaf] = pre \o (keys \o post)
    BY <1>5, <1>10, <1>13, <1>15 DEF FromAt
  <1>17. EndsAt(row, p, pre, keys, post)
    <2>1. page = row[p] /\ keys = pages[page].keys
      BY <1>5 DEF keys
    <2>2. QED
      BY <1>2, <1>7, <1>8, <1>10, <1>12, <1>14, <1>16, <1>11, <2>1 DEF EndsAt, n
  <1>18. QED
    BY <1>17 DEF n

\* The keys of all the leaves, as the place where the search ends divides them.
Divided(all, pre, keys, post) ==
  /\ all \in Seq(Int) /\ Len(pre) \in Nat /\ low \in Nat
  /\ Len(all) - Len(KeysFrom[page]) + low = Len(pre) + low
  /\ \A i \in DOMAIN all :
       /\ i <= Len(pre) + low <=> Beyond(all[i])
       /\ i > Len(pre) + low =>
            \/ \E k \in DOMAIN keys : k > low /\ all[i] = keys[k]
            \/ \E k \in DOMAIN post : all[i] = post[k]

LEMMA EndsDivide ==
  ASSUME SearchTypes, NEW row, NEW p, NEW pre, NEW keys, NEW post, EndsAt(row, p, pre, keys, post)
  PROVE  Divided(KeysFrom[FirstLeaf], pre, keys, post)
  <1> DEFINE mine == keys \o post
             all == KeysFrom[FirstLeaf]
  <1>1. /\ pre \in Seq(Int) /\ keys \in Seq(Int) /\ post \in Seq(Int)
        /\ KeysFrom[page] = mine /\ all = pre \o mine /\ low \in 0 .. Len(keys)
        /\ \A k \in DOMAIN pre : Beyond(pre[k])
        /\ \A k \in DOMAIN keys : Beyond(keys[k]) <=> k <= low
        /\ \A k \in DOMAIN post : ~Beyond(post[k])
    BY DEF EndsAt
  <1>2. /\ mine \in Seq(Int) /\ Len(keys) \in Nat /\ Len(post) \in Nat
        /\ Len(mine) = Len(keys) + Len(post)
        /\ DOMAIN keys = 1 .. Len(keys) /\ DOMAIN post = 1 .. Len(post)
        /\ \A k \in DOMAIN keys : mine[k] = keys[k]
        /\ \A k \in DOMAIN post : mine[Len(keys) + k] = post[k]
        /\ \A k \in DOMAIN mine : k \in DOMAIN keys \/ (k > Len(keys) /\ k - Len(keys) \in DOMAIN post)
    BY <1>1, FirstKeys
  <1> HIDE DEF mine, all
  <1>3. /\ pre \o mine \in Seq(Int) /\ Len(pre) \in Nat /\ Len(mine) \in Nat
        /\ Len(pre \o mine) = Len(pre) + Len(mine)
        /\ DOMAIN pre = 1 .. Len(pre) /\ DOMAIN mine = 1 .. Len(mine)
        /\ \A k \in DOMAIN pre : (pre \o mine)[k] = pre[k]
        /\ \A k \in DOMAIN mine : (pre \o mine)[Len(pre) + k] = mine[k]
        /\ \A k \in DOMAIN (pre \o mine) :
             k \in DOMAIN pre \/ (k > Len(pre) /\ k - Len(pre) \in DOMAIN mine)
    <2>1. pre \in Seq(Int) /\ mine \in Seq(Int)
      BY <1>1, <1>2
    <2>2. QED
      BY <2>1, FirstKeys
  <1>4. low \in Nat /\ low <= Len(keys)
    BY <1>1, <1>2
  <1>5. Len(all) - Len(KeysFrom[page]) + low = Len(pre) + low
    BY <1>1, <1>3, <1>4
  <1>6. ASSUME NEW i \in DOMAIN all
        PROVE  /\ i <= Len(pre) + low <=> Beyond(all[i])
               /\ i > Len(pre) + low =>
                    \/ \E k \in DOMAIN keys : k > low /\ all[i] = keys[k]
                    \/ \E k \in DOMAIN post : all[i] = post[k]
    <2>1. CASE i \in DOMAIN pre
      <3>1. all[i] = pre[i]
        BY <1>1, <1>3, <2>1
      <3>2. i <= Len(pre) + low
        BY <1>3, <1>4, <2>1
      <3>3. ~(i > Len(pre) + low)
        BY <1>3, <1>4, <2>1, <3>2
      <3>4. QED
        BY <1>1, <2>1, <3>1, <3>2, <3>3
    <2>2. CASE i > Len(pre) /\ i - Len(pre) \in DOMAIN mine
      <3> DEFINE k == i - Len(pre)
      <3>0. i = Len(pre) + k /\ i \in Nat /\ k \in Nat
        <4>1. DOMAIN all = 1 .. Len(pre) + Len(mine)
          BY <1>1, <1>3, LenProperties
        <4>2. QED
          BY <1>3, <2>2, <4>1
      <3>1. all[i] = mine[k] /\ k \in DOMAIN mine
        BY <1>1, <1>3, <2>2, <3>0
      <3>2. i <= Len(pre) + low <=> k <= low
        BY <1>3, <1>4, <3>0
      <3>3. i > Len(pre) + low <=> k > low
        BY <1>3, <1>4, <3>0
      <3> HIDE DEF k
      <3>4. CASE k \in DOMAIN keys
        <4>1. all[i] = keys[k]
          BY <1>2, <3>1, <3>4
        <4>2. QED
          BY <1>1, <3>2, <3>3, <3>4, <4>1
      <3>5. CASE k > Len(keys) /\ k - Len(keys) \in DOMAIN post
        <4>1. k = Len(keys) + (k - Len(keys))
          BY <1>2, <3>0
        <4>2. all[i] = post[k - Len(keys)]
          BY <1>2, <3>1, <3>5, <4>1
        <4>3. ~(k <= low)
          BY <1>2, <1>4, <3>0, <3>5
        <4>4. QED
          BY <1>1, <3>2, <3>5, <4>2, <4>3
      <3>6. QED
        BY <1>2, <3>1, <3>4, <3>5
    <2>3. QED
      BY <1>1, <1>3, <2>1, <2>2
  <1>7. QED
    <2>1. all \in Seq(Int)
      BY <1>1, <1>3
    <2>2. Divided(all, pre, keys, post)
      BY <1>3, <1>4, <1>5, <1>6, <2>1 DEF Divided
    <2>3. QED
      BY <2>2 DEF all

LEMMA BeyondMeans ==
  ASSUME SearchTypes, NEW k \in Int
  PROVE  Beyond(k) <=> k < scankey \/ (nextkey /\ k = scankey)
  BY DEF SearchTypes, Beyond

LEMMA PositionFound == SearchInv => FoundIsPosition
  <1> SUFFICES ASSUME SearchInv, phase = "found"
               PROVE  FoundIsPosition
    BY DEF FoundIsPosition
  <1>1. PICK row : InOrder(pages, row)
    BY DEF SearchInv, Ordered
  <1>2. PICK p \in 1 .. Len(row) : \E pre, keys, post : EndsAt(row, p, pre, keys, post)
    BY <1>1, FoundEnds
  <1>3. PICK pre, keys, post : EndsAt(row, p, pre, keys, post)
    BY <1>2
  <1> DEFINE all == KeysFrom[FirstLeaf]
             position == Len(all) - Len(KeysFrom[page]) + low
  <1>4. SearchTypes
    BY DEF SearchInv
  <1>5. /\ all \in Seq(Int) /\ position = Len(pre) + low
        /\ \A i \in DOMAIN all : i <= Len(pre) + low <=> Beyond(all[i])
    <2>1. Divided(all, pre, keys, post)
      BY <1>3, <1>4, EndsDivide
    <2>2. QED
      BY <2>1 DEF Divided
  <1> HIDE DEF all, position
  <1>6. ASSUME NEW i \in DOMAIN all
        PROVE  i <= position <=> all[i] < scankey \/ (nextkey /\ all[i] = scankey)
    <2>1. all[i] \in Int
      BY <1>5, ElementOfSeq, LenProperties
    <2>2. Beyond(all[i]) <=> all[i] < scankey \/ (nextkey /\ all[i] = scankey)
      BY <1>4, <2>1, BeyondMeans
    <2>3. QED
      BY <1>5, <2>2
  <1>7. QED
    BY <1>6 DEF FoundIsPosition, all, position

\* A key of a leaf is one of the keys of all the leaves.
LEMMA KeyIsAmongAll ==
  ASSUME Numbered, NEW row, InOrder(pages, row),
         NEW b \in DOMAIN pages, pages[b].leaf, NEW j \in DOMAIN pages[b].keys
  PROVE  \E i \in DOMAIN KeysFrom[FirstLeaf] : KeysFrom[FirstLeaf][i] = pages[b].keys[j]
  <1>1. PICK q \in 1 .. Len(row) : row[q] = b
    BY RowFacts
  <1>2. PICK keys \in Seq(Int) : keys = KeysAt(row, q)
    BY PlaceFacts
  <1>3. FromAt(row, q) = keys \o (IF q < Len(row) THEN FromAt(row, q + 1) ELSE <<>>)
    BY <1>2, PlaceFacts
  <1>4. PICK rest \in Seq(Int) : FromAt(row, q) = keys \o rest
    <2>1. CASE q < Len(row)
      <3>1. q + 1 \in 1 .. Len(row)
        BY <2>1, RowFacts
      <3>2. FromAt(row, q + 1) \in Seq(Int)
        BY <3>1, LaterKeys
      <3>3. QED
        BY <1>3, <2>1, <3>2
    <2>2. CASE ~(q < Len(row))
      <3>1. <<>> \in Seq(Int)
        BY EmptySeq
      <3>2. FromAt(row, q) = keys \o <<>>
        BY <1>3, <2>2
      <3>3. QED
        BY <3>1, <3>2
    <2>3. QED
      BY <2>1, <2>2
  <1>5. PICK mine \in Seq(Int) : mine = FromAt(row, q)
    BY LaterKeys
  <1>6. PICK pre \in Seq(Int) : FromAt(row, 1) = pre \o mine
    BY <1>5, EarlierKeys
  <1>7. j \in DOMAIN keys /\ keys[j] = pages[b].keys[j]
    BY <1>1, <1>2 DEF KeysAt
  <1>8. j \in DOMAIN (keys \o rest) /\ (keys \o rest)[j] = keys[j] /\ j \in Nat
    BY <1>7, FirstKeys
  <1>9. j \in DOMAIN mine /\ mine[j] = keys[j]
    BY <1>4, <1>5, <1>8
  <1>10. Len(pre) + j \in DOMAIN (pre \o mine) /\ (pre \o mine)[Len(pre) + j] = mine[j]
    <2>1. /\ Len(pre) \in Nat /\ Len(mine) \in Nat /\ DOMAIN mine = 1 .. Len(mine)
          /\ DOMAIN (pre \o mine) = 1 .. Len(pre) + Len(mine)
          /\ \A k \in DOMAIN mine : (pre \o mine)[Len(pre) + k] = mine[k]
      BY FirstKeys
    <2>2. Len(pre) + j \in 1 .. Len(pre) + Len(mine)
      BY <1>9, <2>1
    <2>3. QED
      BY <1>9, <2>1, <2>2
  <1>11. KeysFrom[FirstLeaf] = pre \o mine
    BY <1>6, FirstLeafIs DEF FromAt
  <1>12. QED
    BY <1>7, <1>9, <1>10, <1>11

LEMMA MatchFound == SearchInv => MatchIsHere
  <1> SUFFICES ASSUME SearchInv, phase = "found", ~nextkey,
                      NEW b \in DOMAIN pages, pages[b].leaf,
                      NEW j \in DOMAIN pages[b].keys, pages[b].keys[j] = scankey
               PROVE  IF scankey = pages[page].high_key
                      THEN low = NumKeys(page) /\ Key(pages[page].right_link, 0) = scankey
                      ELSE low < NumKeys(page) /\ Key(page, low) = scankey
    BY DEF MatchIsHere
  <1>1. SearchTypes /\ Numbered /\ Ordered /\ scankey \in Int /\ page \in DOMAIN pages
    BY DEF SearchInv, SearchTypes
  <1>2. PICK row : InOrder(pages, row)
    BY <1>1 DEF Ordered
  <1>3. PICK p \in 1 .. Len(row) : \E pre, keys, post : EndsAt(row, p, pre, keys, post)
    BY <1>2, FoundEnds
  <1>4. PICK pre, keys, post : EndsAt(row, p, pre, keys, post)
    BY <1>3
  <1>5. /\ page = row[p] /\ keys = pages[page].keys /\ keys \in Seq(Int)
        /\ post \in Seq(Int) /\ low \in 0 .. Len(keys)
        /\ \A k \in DOMAIN keys : Beyond(keys[k]) <=> k <= low
        /\ post # <<>> => p < Len(row)
        /\ p < Len(row) => post = FromAt(row, p + 1) /\ ~Beyond(HighAt(row, p))
    BY <1>4 DEF EndsAt
  <1>6. /\ NumKeys(page) = Len(keys) /\ Len(keys) \in Nat /\ DOMAIN keys = 1 .. Len(keys)
        /\ low \in Nat /\ Ascending(keys) /\ \A k \in DOMAIN keys : keys[k] \in Int
    BY <1>1, <1>5, PageFacts, LenProperties, ElementOfSeq DEF NumKeys
  <1>7. \A k \in Int : Beyond(k) <=> k < scankey
    BY <1>1 DEF Beyond
  <1>8. Key(page, low) = keys[low + 1]
    BY <1>5 DEF Key
  <1>9. /\ p < Len(row) =>
             /\ HighAt(row, p) \in Int /\ HighAt(row, p) = pages[page].high_key
             /\ \A k \in DOMAIN keys : keys[k] < HighAt(row, p)
             /\ KeysAt(row, p + 1)[1] = HighAt(row, p)
             /\ pages[page].right_link = row[p + 1]
        /\ ~(p < Len(row)) => pages[page].high_key = NoKey
    <2>1. CASE p < Len(row)
      <3>1. /\ HighAt(row, p) \in Int
            /\ \A k \in DOMAIN KeysAt(row, p) : KeysAt(row, p)[k] < HighAt(row, p)
            /\ KeysAt(row, p + 1)[1] = HighAt(row, p)
        BY <1>1, <1>2, <2>1, PlaceFacts
      <3>2. keys = KeysAt(row, p) /\ HighAt(row, p) = pages[page].high_key
        BY <1>5 DEF KeysAt, HighAt
      <3>3. pages[page].right_link = row[p + 1]
        BY <1>1, <1>2, <1>5, <2>1, RowFacts
      <3>4. QED
        BY <2>1, <3>1, <3>2, <3>3
    <2>2. CASE ~(p < Len(row))
      <3>1. pages[page].right_link = INVALID_BLOCK
        BY <1>1, <1>2, <1>5, <2>2, RowFacts
      <3>2. QED
        BY <1>1, <2>2, <3>1, PageFacts
    <2>3. QED
      BY <2>1, <2>2
  <1>10. \/ \E k \in DOMAIN keys : k > low /\ keys[k] = scankey
         \/ \E k \in DOMAIN post : post[k] = scankey
    <2> DEFINE all == KeysFrom[FirstLeaf]
    <2>1. PICK i \in DOMAIN all : all[i] = scankey
      BY <1>1, <1>2, KeyIsAmongAll
    <2>2. /\ all \in Seq(Int) /\ Len(pre) \in Nat
          /\ \A l \in DOMAIN all :
               /\ l <= Len(pre) + low <=> Beyond(all[l])
               /\ l > Len(pre) + low =>
                    \/ \E k \in DOMAIN keys : k > low /\ all[l] = keys[k]
                    \/ \E k \in DOMAIN post : all[l] = post[k]
      <3>1. Divided(all, pre, keys, post)
        BY <1>1, <1>4, EndsDivide
      <3> HIDE DEF all
      <3>2. QED
        BY <3>1 DEF Divided
    <2> HIDE DEF all
    <2>3. ~Beyond(all[i])
      BY <1>1, <1>7, <2>1
    <2>4. i \in Int
      BY <2>2, LenProperties
    <2>5. i > Len(pre) + low
      BY <1>6, <2>2, <2>3, <2>4
    <2>6. QED
      BY <2>1, <2>2, <2>5
  <1>11. CASE \E k \in DOMAIN keys : k > low /\ keys[k] = scankey
    <2>1. PICK k \in DOMAIN keys : k > low /\ keys[k] = scankey
      BY <1>11
    <2>2. low + 1 \in DOMAIN keys /\ low < Len(keys) /\ ~(low + 1 <= low)
      BY <1>6, <2>1
    <2>3. keys[low + 1] \in Int /\ keys[low + 1] >= scankey
      <3>1. keys[low + 1] \in Int /\ ~Beyond(keys[low + 1])
        BY <1>5, <1>6, <2>2
      <3>2. ~(keys[low + 1] < scankey)
        BY <1>7, <3>1
      <3>3. QED
        BY <1>1, <3>1, <3>2
    <2>4. keys[low + 1] <= keys[k]
      <3>1. CASE k = low + 1
        BY <1>1, <2>1, <2>3, <3>1
      <3>2. CASE k # low + 1
        <4>1. low + 1 < k
          BY <1>6, <2>1, <3>2
        <4>2. keys[low + 1] < keys[k]
          BY <1>6, <2>2, <4>1 DEF Ascending
        <4>3. QED
          BY <1>6, <2>3, <4>2
      <3>3. QED
        BY <3>1, <3>2
    <2>5. keys[low + 1] = scankey
      BY <1>1, <2>1, <2>3, <2>4
    <2>6. scankey # pages[page].high_key
      <3>1. CASE p < Len(row)
        BY <1>1, <1>9, <2>1, <3>1
      <3>2. CASE ~(p < Len(row))
        <4>1. keys[k] # NoKey
          BY <1>1, <1>5, PageFacts
        <4>2. QED
          BY <1>9, <2>1, <3>2, <4>1
      <3>3. QED
        BY <3>1, <3>2
    <2>7. QED
      BY <1>6, <1>8, <2>2, <2>5, <2>6
  <1>12. CASE \E k \in DOMAIN post : post[k] = scankey
    <2>1. PICK k \in DOMAIN post : post[k] = scankey
      BY <1>12
    <2>2. p < Len(row)
      <3>1. post # <<>>
        BY <2>1
      <3>2. QED
        BY <1>5, <3>1
    <2>3. post[k] >= HighAt(row, p)
      <3>1. p + 1 \in 1 .. Len(row) /\ p + 1 > 1 /\ (p + 1) - 1 = p
        BY <1>1, <1>2, <2>2, RowFacts
      <3>2. QED
        BY <1>1, <1>2, <1>5, <2>2, <3>1, LaterKeys
    <2>4. HighAt(row, p) = scankey
      <3>1. HighAt(row, p) \in Int /\ ~(HighAt(row, p) < scankey)
        BY <1>5, <1>7, <1>9, <2>2
      <3>2. QED
        BY <1>1, <2>1, <2>3, <3>1
    <2>5. low = Len(keys)
      <3>1. ASSUME low < Len(keys) PROVE FALSE
        <4>1. low + 1 \in DOMAIN keys /\ ~(low + 1 <= low)
          BY <1>6, <3>1
        <4>2. keys[low + 1] \in Int /\ ~(keys[low + 1] < scankey)
          BY <1>5, <1>6, <1>7, <4>1
        <4>3. keys[low + 1] < scankey
          BY <1>9, <2>2, <2>4, <4>1
        <4>4. QED
          BY <4>2, <4>3
      <3>2. QED
        BY <1>5, <1>6, <3>1
    <2>6. Key(pages[page].right_link, 0) = scankey
      BY <1>9, <2>2, <2>4 DEF Key, KeysAt
    <2>7. scankey = pages[page].high_key
      BY <1>9, <2>2, <2>4
    <2>8. QED
      BY <1>6, <2>5, <2>6, <2>7
  <1>13. QED
    BY <1>10, <1>11, <1>12

\* Whatever the tree, wherever its leaves are split while the search descends:
\* the position returned divides the keys of all the leaves at the scan key.
THEOREM SearchFindsPosition == BTreeSpec => []FoundIsPosition
  BY SearchInvariance, PositionFound, PTL

\* A key that the tree holds is where the search for it ends, or is the high
\* key of that leaf and the first key of the next.
THEOREM SearchFindsMatch == BTreeSpec => []MatchIsHere
  BY SearchInvariance, MatchFound, PTL

-----------------------------------------------------------------------------
(* Paths.                                                                   *)

LEMMA PathItself == ASSUME NEW p \in Seq(Nat) PROVE OnPath(p, p)
  BY DEF OnPath

LEMMA PathTrans ==
  ASSUME NEW p \in Seq(Nat), NEW q \in Seq(Nat), NEW r \in Seq(Nat),
         OnPath(p, q), OnPath(q, r)
  PROVE  OnPath(p, r)
  BY DEF OnPath

\* Of two nodes above a third one is above the other.
LEMMA PathChain ==
  ASSUME NEW p \in Seq(Nat), NEW q \in Seq(Nat), NEW r \in Seq(Nat),
         OnPath(p, r), OnPath(q, r), Len(p) <= Len(q)
  PROVE  OnPath(p, q)
  BY DEF OnPath

LEMMA PathSame ==
  ASSUME NEW p \in Seq(Nat), NEW q \in Seq(Nat), OnPath(p, q), Len(q) <= Len(p)
  PROVE  p = q
  <1>1. Len(p) = Len(q) /\ \A k \in 1 .. Len(p) : p[k] = q[k]
    BY DEF OnPath
  <1>2. QED
    BY <1>1, SeqEqual

LEMMA PathNext ==
  ASSUME NEW p \in Seq(Nat), NEW i \in Nat
  PROVE  /\ Append(p, i) \in Seq(Nat) /\ Len(Append(p, i)) = Len(p) + 1
         /\ OnPath(p, Append(p, i))
         /\ \A q \in Seq(Nat) :
              OnPath(Append(p, i), q)
                <=> OnPath(p, q) /\ Len(p) < Len(q) /\ q[Len(p) + 1] = i
  <1> DEFINE a == Append(p, i)
  <1>1. /\ a \in Seq(Nat) /\ Len(a) = Len(p) + 1 /\ a[Len(p) + 1] = i
        /\ \A k \in 1 .. Len(p) : a[k] = p[k]
    BY AppendProperties
  <1> HIDE DEF a
  <1>2. OnPath(p, a)
    BY <1>1 DEF OnPath
  <1>3. ASSUME NEW q \in Seq(Nat)
        PROVE  OnPath(a, q) <=> OnPath(p, q) /\ Len(p) < Len(q) /\ q[Len(p) + 1] = i
    <2>1. Len(p) \in Nat /\ Len(q) \in Nat
      OBVIOUS
    <2>2. \A k \in 1 .. Len(a) : k \in 1 .. Len(p) \/ k = Len(p) + 1
      BY <1>1, <2>1
    <2>3. ASSUME OnPath(a, q)
          PROVE  OnPath(p, q) /\ Len(p) < Len(q) /\ q[Len(p) + 1] = i
      <3>1. Len(a) <= Len(q) /\ \A k \in 1 .. Len(a) : a[k] = q[k]
        BY <2>3 DEF OnPath
      <3>2. Len(p) < Len(q) /\ Len(p) + 1 \in 1 .. Len(a)
            /\ \A k \in 1 .. Len(p) : k \in 1 .. Len(a)
        BY <1>1, <2>1, <3>1
      <3>3. q[Len(p) + 1] = i
        BY <1>1, <3>1, <3>2
      <3>4. Len(p) <= Len(q) /\ \A k \in 1 .. Len(p) : p[k] = q[k]
        <4>1. \A k \in 1 .. Len(p) : p[k] = q[k]
          BY <1>1, <3>1, <3>2
        <4>2. Len(p) <= Len(q)
          BY <2>1, <3>2
        <4>3. QED
          BY <4>1, <4>2
      <3>5. QED
        BY <3>2, <3>3, <3>4 DEF OnPath
    <2>4. ASSUME OnPath(p, q), Len(p) < Len(q), q[Len(p) + 1] = i
          PROVE  OnPath(a, q)
      <3>1. Len(a) <= Len(q) /\ \A k \in 1 .. Len(p) : p[k] = q[k]
        BY <1>1, <2>1, <2>4 DEF OnPath
      <3>2. ASSUME NEW k \in 1 .. Len(a) PROVE a[k] = q[k]
        BY <1>1, <2>2, <2>4, <3>1
      <3>3. QED
        BY <3>1, <3>2 DEF OnPath
    <2>5. QED
      BY <2>3, <2>4
  <1>4. QED
    BY <1>1, <1>2, <1>3 DEF a

-----------------------------------------------------------------------------
(* Trees: the argument of an OR at p with the number i is at Append(p, i).  *)

LEMMA TreePaths ==
  ASSUME NEW tree, IsTree(tree)
  PROVE  \A p \in DOMAIN tree : p \in Seq(Nat) /\ Len(p) \in 0 .. TreeDepth
  BY OrAssumption DEF IsTree

LEMMA BoolArgs ==
  ASSUME NEW tree, IsTree(tree), NEW p \in DOMAIN tree, IsBool(tree[p])
  PROVE  \E n \in 0 .. MaxArgs :
           /\ tree[p].args = [i \in 1 .. n |-> Append(p, i)]
           /\ \A i \in 1 .. n : Append(p, i) \in DOMAIN tree
  <1>1. IsNode(tree, p)
    BY DEF IsTree
  <1>2. \A name : tree[p] # MakeVar(name)
    BY DEF IsBool, MakeVar
  <1>3. PICK boolop \in {"or", "and", "not"}, n \in 0 .. MaxArgs :
          /\ tree[p] = MakeBoolExpr(boolop, [i \in 1 .. n |-> Append(p, i)])
          /\ \A i \in 1 .. n : Append(p, i) \in DOMAIN tree
    BY <1>1, <1>2 DEF IsNode
  <1>4. tree[p].args = [i \in 1 .. n |-> Append(p, i)]
    <2>1. \A op, args : MakeBoolExpr(op, args).args = args
      BY DEF MakeBoolExpr
    <2>2. QED
      BY <1>3, <2>1, Zenon
  <1>5. QED
    BY <1>3, <1>4

LEMMA ArgFacts ==
  ASSUME NEW tree, IsTree(tree), NEW p \in DOMAIN tree, IsBool(tree[p])
  PROVE  /\ tree[p].args \in Seq(DOMAIN tree)
         /\ \A i \in DOMAIN tree[p].args :
              /\ i \in Nat /\ tree[p].args[i] = Append(p, i)
              /\ Append(p, i) \in DOMAIN tree /\ Append(p, i) \in Seq(Nat)
              /\ Len(Append(p, i)) = Len(p) + 1
  <1>1. PICK n \in 0 .. MaxArgs :
          /\ tree[p].args = [i \in 1 .. n |-> Append(p, i)]
          /\ \A i \in 1 .. n : Append(p, i) \in DOMAIN tree
    BY BoolArgs
  <1>2. n \in Nat /\ p \in Seq(Nat)
    BY OrAssumption, TreePaths
  <1> DEFINE a == [i \in 1 .. n |-> Append(p, i)]
  <1>3. a \in [1 .. n -> DOMAIN tree]
    BY <1>1
  <1>4. a \in Seq(DOMAIN tree)
    <2> HIDE DEF a
    <2> QED BY <1>2, <1>3, ListedIsSeq
  <1>5. ASSUME NEW i \in DOMAIN a
        PROVE  /\ i \in Nat /\ a[i] = Append(p, i)
               /\ Append(p, i) \in DOMAIN tree /\ Append(p, i) \in Seq(Nat)
               /\ Len(Append(p, i)) = Len(p) + 1
    <2>1. i \in Nat /\ i \in 1 .. n
      BY <1>2
    <2>2. QED
      BY <1>1, <1>2, <2>1, PathNext
  <1>6. tree[p].args = a
    BY <1>1
  <1> HIDE DEF a
  <1>7. QED
    BY <1>4, <1>5, <1>6

LEMMA OrNode ==
  ASSUME NEW tree, NEW p \in Ors(tree)
  PROVE  p \in DOMAIN tree /\ IsBool(tree[p])
  BY DEF Ors, IsOrClause

\* What is below a node is at or below one of its arguments.
LEMMA NodesBelowArgs ==
  ASSUME NEW tree, IsTree(tree), NEW p \in DOMAIN tree, IsBool(tree[p])
  PROVE  /\ \A i \in DOMAIN tree[p].args : \A q \in DOMAIN tree :
              OnPath(Append(p, i), q)
                <=> OnPath(p, q) /\ Len(p) < Len(q) /\ q[Len(p) + 1] = i
         /\ \A q \in DOMAIN tree :
              OnPath(p, q) /\ p # q =>
                \E i \in DOMAIN tree[p].args : OnPath(Append(p, i), q)
  <1>0. p \in Seq(Nat)
    BY TreePaths
  <1>1. ASSUME NEW i \in DOMAIN tree[p].args, NEW q \in DOMAIN tree
        PROVE  OnPath(Append(p, i), q)
                 <=> OnPath(p, q) /\ Len(p) < Len(q) /\ q[Len(p) + 1] = i
    <2>1. i \in Nat
      BY ArgFacts
    <2>2. q \in Seq(Nat)
      BY TreePaths
    <2>3. QED
      BY <1>0, <2>1, <2>2, PathNext
  <1>2. ASSUME NEW q \in DOMAIN tree, OnPath(p, q), p # q
        PROVE  \E i \in DOMAIN tree[p].args : OnPath(Append(p, i), q)
    <2>1. q[Len(p) + 1] \in DOMAIN tree[p].args
      BY <1>2 DEF IsTree
    <2>2. Len(p) < Len(q)
      <3>1. q \in Seq(Nat)
        BY TreePaths
      <3>2. QED
        BY <1>0, <1>2, <3>1, PathSame
    <2>3. QED
      BY <1>1, <1>2, <2>1, <2>2
  <1>3. QED
    BY <1>1, <1>2

-----------------------------------------------------------------------------
(* Recursion over the arguments of nodes.                                   *)

\* The loop of pull_ors comes to a result.
GatherStep(tree, args, sub, out, i) ==
  IF i = 0 THEN [list |-> EmptyList, freed |-> {}]
  ELSE IF IsOrClause(tree[args[i]])
  THEN [list |-> ListConcat(out[i - 1].list, sub[args[i]].list),
        freed |-> out[i - 1].freed \cup sub[args[i]].freed \cup {args[i]}]
  ELSE [list |-> LAppend(out[i - 1].list, args[i]), freed |-> out[i - 1].freed]

Gathered(tree, args, sub, out) ==
  out = [i \in 0 .. Len(args) |-> GatherStep(tree, args, sub, out, i)]

LEMMA GatherIs ==
  ASSUME NEW tree, NEW args, Len(args) \in Nat, NEW sub
  PROVE  \E out : Gathered(tree, args, sub, out) /\ Gather(tree, args, sub) = out[Len(args)]
  <1> DEFINE n == Len(args)
             To(f, m) == f = [i \in 0 .. m |-> GatherStep(tree, args, sub, f, i)]
             T == {m \in 0 .. n : \E f : To(f, m)}
  <1>1. 0 \in T
    <2> DEFINE f == [i \in 0 .. 0 |-> [list |-> EmptyList, freed |-> {}]]
    <2>1. ASSUME NEW g, NEW i \in 0 .. 0
          PROVE  GatherStep(tree, args, sub, g, i) = [list |-> EmptyList, freed |-> {}]
      BY DEF GatherStep
    <2>2. To(f, 0)
      BY <2>1, Zenon
    <2> HIDE DEF To
    <2>3. \E h : To(h, 0)
      BY <2>2
    <2>4. QED
      BY <2>3
  <1>2. ASSUME NEW m \in 1 .. n, m - 1 \in T
        PROVE  m \in T
    <2>1. PICK f : To(f, m - 1)
      BY <1>2
    <2> DEFINE g == [i \in 0 .. m |-> GatherStep(tree, args, sub, f, i)]
    <2>2. ASSUME NEW i \in 0 .. m - 1
          PROVE  g[i] = f[i]
      <3>1. f[i] = GatherStep(tree, args, sub, f, i)
        BY <2>1, Zenon
      <3>2. i \in 0 .. m
        OBVIOUS
      <3> HIDE DEF To
      <3>3. QED
        BY <3>1, <3>2
    <2>3. ASSUME NEW i \in 0 .. m
          PROVE  g[i] = GatherStep(tree, args, sub, g, i)
      <3>1. g[i] = GatherStep(tree, args, sub, f, i)
        OBVIOUS
      <3> HIDE DEF g
      <3>2. CASE i = 0
        BY <3>1, <3>2 DEF GatherStep
      <3>3. CASE i # 0
        <4>1. g[i - 1] = f[i - 1]
          BY <2>2, <3>3
        <4>2. QED
          BY <3>1, <4>1, Zenon DEF GatherStep
      <3>4. QED
        BY <3>2, <3>3
    <2>4. To(g, m)
      <3>1. g = [i \in 0 .. m |-> g[i]]
        OBVIOUS
      <3> HIDE DEF g
      <3>2. QED
        BY <2>3, <3>1, Zenon
    <2>5. \E h : To(h, m)
      <3> HIDE DEF To, g
      <3> QED BY <2>4
    <2> HIDE DEF To
    <2>6. QED
      BY <2>5
  <1>3. n \in T
    <2> HIDE DEF T
    <2>1. \A m \in 0 .. n : m \in T
      BY <1>1, <1>2, UpTo
    <2>2. QED
      BY <2>1
  <1> DEFINE out == CHOOSE f : To(f, n)
  <1>4. To(out, n)
    <2> HIDE DEF To
    <2> QED BY <1>3
  <1>5. Gathered(tree, args, sub, out)
    BY <1>4, Zenon DEF Gathered
  <1>6. Gather(tree, args, sub) = out[n]
    BY Zenon DEF Gather, GatherStep
  <1>7. QED
    BY <1>5, <1>6, Zenon

\* What pull_ors returns for the OR at p.
PullOf(tree, f, p) ==
  IF tree[p].args = <<>> THEN [list |-> NullList, freed |-> {}]
  ELSE Gather(tree, tree[p].args,
         [q \in {tree[p].args[i] : i \in DOMAIN tree[p].args} \cap Ors(tree) |-> f[q]])

\* The nodes from which the paths are at most m longer.
Deepest(tree, m) == {p \in DOMAIN tree : TreeDepth <= Len(p) + m}

LEMMA DeepestFacts ==
  ASSUME NEW tree, IsTree(tree)
  PROVE  /\ TreeDepth \in Nat /\ Deepest(tree, TreeDepth) = DOMAIN tree
         /\ \A m \in 1 .. TreeDepth :
              /\ Deepest(tree, m - 1) \subseteq Deepest(tree, m)
              /\ \A p \in Deepest(tree, m) : IsBool(tree[p]) =>
                   \A i \in DOMAIN tree[p].args : tree[p].args[i] \in Deepest(tree, m - 1)
         /\ \A p \in Deepest(tree, 0) : IsBool(tree[p]) => tree[p].args = <<>>
  <1>0. TreeDepth \in Nat
    BY OrAssumption
  <1>1. \A p \in DOMAIN tree : p \in Seq(Nat) /\ Len(p) \in 0 .. TreeDepth
    BY TreePaths
  <1>2. Deepest(tree, TreeDepth) = DOMAIN tree
    BY <1>0, <1>1 DEF Deepest
  <1>3. ASSUME NEW m \in 1 .. TreeDepth
        PROVE  Deepest(tree, m - 1) \subseteq Deepest(tree, m)
    BY <1>0, <1>1 DEF Deepest
  <1>4. ASSUME NEW m \in 1 .. TreeDepth, NEW p \in Deepest(tree, m), IsBool(tree[p]),
               NEW i \in DOMAIN tree[p].args
        PROVE  tree[p].args[i] \in Deepest(tree, m - 1)
    <2>1. p \in DOMAIN tree /\ TreeDepth <= Len(p) + m
      BY DEF Deepest
    <2>2. /\ tree[p].args[i] = Append(p, i) /\ Append(p, i) \in DOMAIN tree
          /\ Len(Append(p, i)) = Len(p) + 1
      BY <1>4, <2>1, ArgFacts
    <2>3. QED
      BY <1>0, <1>1, <2>1, <2>2 DEF Deepest
  <1>5. ASSUME NEW p \in Deepest(tree, 0), IsBool(tree[p])
        PROVE  tree[p].args = <<>>
    <2>1. p \in DOMAIN tree /\ Len(p) = TreeDepth
      BY <1>0, <1>1 DEF Deepest
    <2>2. ASSUME NEW i \in DOMAIN tree[p].args PROVE FALSE
      <3>1. Append(p, i) \in DOMAIN tree /\ Len(Append(p, i)) = Len(p) + 1
        BY <1>5, <2>1, ArgFacts
      <3>2. Len(Append(p, i)) \in 0 .. TreeDepth
        BY <1>1, <3>1
      <3>3. QED
        BY <1>0, <2>1, <3>1, <3>2
    <2>3. tree[p].args \in Seq(DOMAIN tree)
      BY <1>5, <2>1, ArgFacts
    <2>4. Len(tree[p].args) = 0
      <3> DEFINE args == tree[p].args
      <3> HIDE DEF args
      <3>1. args \in Seq(DOMAIN tree) /\ \A i \in DOMAIN args : FALSE
        BY <2>2, <2>3 DEF args
      <3>2. Len(args) \in Nat /\ DOMAIN args = 1 .. Len(args)
        BY <3>1, LenProperties
      <3>3. 1 \notin DOMAIN args
        BY <3>1
      <3>4. Len(args) = 0
        BY <3>2, <3>3
      <3>5. QED
        BY <3>4 DEF args
    <2>5. QED
      BY <2>3, <2>4, EmptySeq
  <1>6. QED
    BY <1>0, <1>2, <1>3, <1>4, <1>5

LEMMA PullSame ==
  ASSUME NEW tree, NEW f, NEW g, NEW p,
         \A i \in DOMAIN tree[p].args :
           tree[p].args[i] \in Ors(tree) => f[tree[p].args[i]] = g[tree[p].args[i]]
  PROVE  PullOf(tree, f, p) = PullOf(tree, g, p)
  <1> DEFINE Q == {tree[p].args[i] : i \in DOMAIN tree[p].args} \cap Ors(tree)
  <1>1. \A q \in Q : f[q] = g[q]
    OBVIOUS
  <1> HIDE DEF Q
  <1>2. [q \in Q |-> f[q]] = [q \in Q |-> g[q]]
    BY <1>1, Zenon
  <1>3. QED
    BY <1>2, Zenon DEF PullOf, Q

LEMMA PullIs ==
  ASSUME NEW tree, IsTree(tree), NEW p \in Ors(tree)
  PROVE  PullOrs(tree)[p] = PullOf(tree, PullOrs(tree), p)
  <1> DEFINE D(m) == Deepest(tree, m) \cap Ors(tree)
             To(f, m) == f = [q \in D(m) |-> PullOf(tree, f, q)]
             T == {m \in 0 .. TreeDepth : \E f : To(f, m)}
  <1>0. TreeDepth \in Nat
    BY DeepestFacts
  <1>1. 0 \in T
    <2> DEFINE f == [q \in D(0) |-> [list |-> NullList, freed |-> {}]]
    <2>1. ASSUME NEW g, NEW q \in D(0)
          PROVE  PullOf(tree, g, q) = [list |-> NullList, freed |-> {}]
      <3>1. tree[q].args = <<>>
        BY DeepestFacts, OrNode
      <3>2. QED
        BY <3>1 DEF PullOf
    <2> HIDE DEF D
    <2>2. To(f, 0)
      BY <2>1, Zenon
    <2> HIDE DEF To
    <2>3. \E h : To(h, 0)
      BY <2>2
    <2>4. QED
      BY <1>0, <2>3
  <1>2. ASSUME NEW m \in 1 .. TreeDepth, m - 1 \in T
        PROVE  m \in T
    <2>1. PICK f : To(f, m - 1)
      BY <1>2
    <2> DEFINE g == [q \in D(m) |-> PullOf(tree, f, q)]
    <2>2. ASSUME NEW q \in D(m - 1)
          PROVE  g[q] = f[q]
      <3>1. f[q] = PullOf(tree, f, q)
        BY <2>1, Zenon
      <3>2. q \in D(m)
        BY DeepestFacts
      <3> HIDE DEF To, D
      <3>3. QED
        BY <3>1, <3>2
    <2>3. ASSUME NEW q \in D(m)
          PROVE  g[q] = PullOf(tree, g, q)
      <3>1. g[q] = PullOf(tree, f, q)
        OBVIOUS
      <3>2. ASSUME NEW i \in DOMAIN tree[q].args, tree[q].args[i] \in Ors(tree)
            PROVE  tree[q].args[i] \in D(m - 1)
        BY <3>2, DeepestFacts, OrNode
      <3> HIDE DEF g, D
      <3>3. PullOf(tree, f, q) = PullOf(tree, g, q)
        BY <2>2, <3>2, PullSame
      <3>4. QED
        BY <3>1, <3>3
    <2>4. To(g, m)
      <3> HIDE DEF D
      <3>1. g = [q \in D(m) |-> g[q]]
        OBVIOUS
      <3> HIDE DEF g
      <3>2. QED
        BY <2>3, <3>1, Zenon
    <2>5. \E h : To(h, m)
      <3> HIDE DEF To, g
      <3> QED BY <2>4
    <2> HIDE DEF To
    <2>6. QED
      BY <2>5
  <1>3. TreeDepth \in T
    <2> HIDE DEF T
    <2>1. \A m \in 0 .. TreeDepth : m \in T
      BY <1>0, <1>1, <1>2, UpTo
    <2>2. QED
      BY <1>0, <2>1
  <1>4. \E f : f = [q \in Ors(tree) |-> PullOf(tree, f, q)]
    <2>1. PICK f : To(f, TreeDepth)
      BY <1>3
    <2>2. D(TreeDepth) = Ors(tree)
      BY DeepestFacts DEF Ors
    <2> HIDE DEF D
    <2>3. QED
      BY <2>1, <2>2, Zenon
  <1> DEFINE All == PullOrs(tree)
  <1>5. All = [q \in Ors(tree) |-> PullOf(tree, All, q)]
    <2>1. All = CHOOSE f : f = [q \in Ors(tree) |-> PullOf(tree, f, q)]
      BY ZenonT(60) DEF PullOrs, PullOf
    <2> HIDE DEF All
    <2>2. QED
      BY <1>4, <2>1, Zenon
  <1> HIDE DEF All
  <1>6. All[p] = PullOf(tree, All, p)
    BY <1>5, Zenon
  <1>7. QED
    BY <1>6 DEF All

\* The truth value of the node at p.
TruthFrom(values, node, row) ==
  IF ~IsBool(node) THEN row[node.varname]
  ELSE IF node.boolop = "or" THEN OrOf(values)
  ELSE IF node.boolop = "and" THEN AndOf(values)
  ELSE NotOf(CHOOSE v \in values : TRUE)

TruthAt(tree, row, f, p) ==
  TruthFrom({f[tree[p].args[i]] : i \in DOMAIN tree[p].args}, tree[p], row)

LEMMA TruthSame ==
  ASSUME NEW tree, NEW row, NEW f, NEW g, NEW p,
         IsBool(tree[p]) =>
           \A i \in DOMAIN tree[p].args : f[tree[p].args[i]] = g[tree[p].args[i]]
  PROVE  TruthAt(tree, row, f, p) = TruthAt(tree, row, g, p)
  <1>1. CASE IsBool(tree[p])
    <2>1. {f[tree[p].args[i]] : i \in DOMAIN tree[p].args}
            = {g[tree[p].args[i]] : i \in DOMAIN tree[p].args}
      BY <1>1
    <2>2. QED
      BY <2>1, Zenon DEF TruthAt
  <1>2. CASE ~ IsBool(tree[p])
    BY <1>2 DEF TruthAt, TruthFrom
  <1>3. QED
    BY <1>1, <1>2

LEMMA TruthIs ==
  ASSUME NEW tree, IsTree(tree), NEW row, NEW p \in DOMAIN tree
  PROVE  TruthOf(tree, row)[p] = TruthAt(tree, row, TruthOf(tree, row), p)
  <1> DEFINE D(m) == Deepest(tree, m)
             To(f, m) == f = [q \in D(m) |-> TruthAt(tree, row, f, q)]
             T == {m \in 0 .. TreeDepth : \E f : To(f, m)}
  <1>0. TreeDepth \in Nat
    BY DeepestFacts
  <1>1. 0 \in T
    <2> DEFINE f == [q \in D(0) |-> TruthAt(tree, row, <<>>, q)]
    <2>1. ASSUME NEW g, NEW q \in D(0)
          PROVE  TruthAt(tree, row, g, q) = TruthAt(tree, row, <<>>, q)
      <3>1. ASSUME IsBool(tree[q]), NEW i \in DOMAIN tree[q].args
            PROVE  FALSE
        <4>1. tree[q].args = <<>>
          BY <3>1, DeepestFacts
        <4>2. QED
          BY <3>1, <4>1
      <3>2. QED
        BY <3>1, TruthSame
    <2> HIDE DEF D
    <2>2. To(f, 0)
      BY <2>1, Zenon
    <2> HIDE DEF To
    <2>3. \E h : To(h, 0)
      BY <2>2
    <2>4. QED
      BY <1>0, <2>3
  <1>2. ASSUME NEW m \in 1 .. TreeDepth, m - 1 \in T
        PROVE  m \in T
    <2>1. PICK f : To(f, m - 1)
      BY <1>2
    <2> DEFINE g == [q \in D(m) |-> TruthAt(tree, row, f, q)]
    <2>2. ASSUME NEW q \in D(m - 1)
          PROVE  g[q] = f[q]
      <3>1. f[q] = TruthAt(tree, row, f, q)
        BY <2>1, Zenon
      <3>2. q \in D(m)
        BY DeepestFacts
      <3> HIDE DEF To, D
      <3>3. QED
        BY <3>1, <3>2
    <2>3. ASSUME NEW q \in D(m)
          PROVE  g[q] = TruthAt(tree, row, g, q)
      <3>1. g[q] = TruthAt(tree, row, f, q)
        OBVIOUS
      <3>2. ASSUME IsBool(tree[q]), NEW i \in DOMAIN tree[q].args
            PROVE  tree[q].args[i] \in D(m - 1)
        BY <3>2, DeepestFacts
      <3> HIDE DEF g, D
      <3>3. TruthAt(tree, row, f, q) = TruthAt(tree, row, g, q)
        BY <2>2, <3>2, TruthSame
      <3>4. QED
        BY <3>1, <3>3
    <2>4. To(g, m)
      <3> HIDE DEF D
      <3>1. g = [q \in D(m) |-> g[q]]
        OBVIOUS
      <3> HIDE DEF g
      <3>2. QED
        BY <2>3, <3>1, Zenon
    <2>5. \E h : To(h, m)
      <3> HIDE DEF To, g
      <3> QED BY <2>4
    <2> HIDE DEF To
    <2>6. QED
      BY <2>5
  <1>3. TreeDepth \in T
    <2> HIDE DEF T
    <2>1. \A m \in 0 .. TreeDepth : m \in T
      BY <1>0, <1>1, <1>2, UpTo
    <2>2. QED
      BY <1>0, <2>1
  <1>4. \E f : f = [q \in DOMAIN tree |-> TruthAt(tree, row, f, q)]
    <2>1. PICK f : To(f, TreeDepth)
      BY <1>3
    <2>2. D(TreeDepth) = DOMAIN tree
      BY DeepestFacts
    <2> HIDE DEF D
    <2>3. QED
      BY <2>1, <2>2, Zenon
  <1> DEFINE All == TruthOf(tree, row)
  <1>5. All = [q \in DOMAIN tree |-> TruthAt(tree, row, All, q)]
    <2>1. All = CHOOSE f : f = [q \in DOMAIN tree |-> TruthAt(tree, row, f, q)]
      BY ZenonT(60) DEF TruthOf, TruthAt, TruthFrom
    <2> HIDE DEF All
    <2>2. QED
      BY <1>4, <2>1, Zenon
  <1> HIDE DEF All
  <1>6. All[p] = TruthAt(tree, row, All, p)
    BY <1>5, Zenon
  <1>7. QED
    BY <1>6 DEF All

-----------------------------------------------------------------------------
(* What pull_ors makes of the nodes below a node.                           *)

\* The first nodes on the paths down from p that are no ORs: the entries of
\* the list.
Tops(tree, p) ==
  {q \in NodesBelow(tree, p) :
     /\ q \notin Ors(tree)
     /\ \A r \in DOMAIN tree : OnPath(p, r) /\ OnPath(r, q) /\ r # q => r \in Ors(tree)}

\* The nodes with nothing but ORs between p and them, p and them included: the
\* ones that are freed.
OnlyOrs(tree, p) ==
  {q \in NodesBelow(tree, p) :
     \A r \in DOMAIN tree : OnPath(p, r) /\ OnPath(r, q) => r \in Ors(tree)}

\* A node that is no OR is an entry itself.
LEMMA TopItself ==
  ASSUME NEW tree, IsTree(tree), NEW p \in DOMAIN tree, p \notin Ors(tree)
  PROVE  Tops(tree, p) = {p} /\ OnlyOrs(tree, p) = {}
  <1>0. \A q \in DOMAIN tree : q \in Seq(Nat) /\ Len(q) \in Nat
    BY TreePaths
  <1>1. OnPath(p, p)
    BY <1>0, PathItself
  <1>2. ASSUME NEW q \in Tops(tree, p) PROVE q = p
    <2>1. q \in DOMAIN tree /\ OnPath(p, q)
      BY DEF Tops, NodesBelow
    <2>2. QED
      BY <1>1, <2>1 DEF Tops
  <1>3. p \in Tops(tree, p)
    <2>1. ASSUME NEW r \in DOMAIN tree, OnPath(p, r), OnPath(r, p) PROVE r = p
      <3>1. Len(r) <= Len(p)
        BY <2>1 DEF OnPath
      <3>2. QED
        BY <1>0, <2>1, <3>1, PathSame
    <2>2. QED
      BY <1>1, <2>1 DEF Tops, NodesBelow
  <1>4. ASSUME NEW q \in OnlyOrs(tree, p) PROVE FALSE
    BY <1>1 DEF OnlyOrs, NodesBelow
  <1>5. QED
    BY <1>2, <1>3, <1>4

\* What is below two arguments is below one.
LEMMA ArgsApart ==
  ASSUME NEW tree, IsTree(tree), NEW p \in DOMAIN tree, IsBool(tree[p]),
         NEW i \in DOMAIN tree[p].args, NEW q \in DOMAIN tree, NEW r \in DOMAIN tree,
         OnPath(Append(p, i), q), OnPath(p, r), OnPath(r, q), r # p
  PROVE  OnPath(Append(p, i), r)
  <1>0. p \in Seq(Nat) /\ q \in Seq(Nat) /\ r \in Seq(Nat)
    BY TreePaths
  <1>1. PICK j \in DOMAIN tree[p].args : OnPath(Append(p, j), r)
    BY NodesBelowArgs
  <1>2. j \in Nat /\ Append(p, j) \in DOMAIN tree /\ Append(p, j) \in Seq(Nat)
    BY ArgFacts
  <1>3. OnPath(Append(p, j), q)
    BY <1>0, <1>1, <1>2, PathTrans
  <1>4. q[Len(p) + 1] = i /\ q[Len(p) + 1] = j
    BY <1>3, NodesBelowArgs
  <1>5. QED
    BY <1>1, <1>4

LEMMA TopsOfArgs ==
  ASSUME NEW tree, IsTree(tree), NEW p \in Ors(tree)
  PROVE  \A q : q \in Tops(tree, p)
                  <=> \E i \in DOMAIN tree[p].args : q \in Tops(tree, Append(p, i))
  <1>0. /\ p \in DOMAIN tree /\ IsBool(tree[p])
        /\ \A q \in DOMAIN tree : q \in Seq(Nat) /\ Len(q) \in Nat
    BY OrNode, TreePaths
  <1>1. ASSUME NEW q \in Tops(tree, p)
        PROVE  \E i \in DOMAIN tree[p].args : q \in Tops(tree, Append(p, i))
    <2>1. q \in DOMAIN tree /\ OnPath(p, q) /\ q # p /\ q \notin Ors(tree)
      BY DEF Tops, NodesBelow
    <2>2. PICK i \in DOMAIN tree[p].args : OnPath(Append(p, i), q)
      BY <1>0, <2>1, NodesBelowArgs
    <2>3. ASSUME NEW r \in DOMAIN tree, OnPath(Append(p, i), r), OnPath(r, q), r # q
          PROVE  r \in Ors(tree)
      <3>1. OnPath(p, r)
        BY <1>0, <2>3, NodesBelowArgs
      <3>2. QED
        BY <2>3, <3>1 DEF Tops
    <2>4. q \in Tops(tree, Append(p, i))
      BY <2>1, <2>2, <2>3 DEF Tops, NodesBelow
    <2>5. QED
      BY <2>4
  <1>2. ASSUME NEW i \in DOMAIN tree[p].args, NEW q \in Tops(tree, Append(p, i))
        PROVE  q \in Tops(tree, p)
    <2>1. q \in DOMAIN tree /\ OnPath(Append(p, i), q) /\ q \notin Ors(tree)
      BY DEF Tops, NodesBelow
    <2>2. OnPath(p, q)
      BY <1>0, <2>1, NodesBelowArgs
    <2>3. ASSUME NEW r \in DOMAIN tree, OnPath(p, r), OnPath(r, q), r # q
          PROVE  r \in Ors(tree)
      <3>1. CASE r = p
        BY <3>1
      <3>2. CASE r # p
        <4>1. OnPath(Append(p, i), r)
          BY <1>0, <2>1, <2>3, <3>2, ArgsApart
        <4>2. QED
          BY <2>3, <4>1 DEF Tops
      <3>3. QED
        BY <3>1, <3>2
    <2>4. QED
      BY <2>1, <2>2, <2>3 DEF Tops, NodesBelow
  <1>3. QED
    BY <1>1, <1>2

LEMMA OnlyOrsOfArgs ==
  ASSUME NEW tree, IsTree(tree), NEW p \in Ors(tree)
  PROVE  /\ p \in OnlyOrs(tree, p)
         /\ \A i \in DOMAIN tree[p].args : p \notin OnlyOrs(tree, Append(p, i))
         /\ \A q : q \in OnlyOrs(tree, p) /\ q # p
                     <=> \E i \in DOMAIN tree[p].args : q \in OnlyOrs(tree, Append(p, i))
  <1>0. /\ p \in DOMAIN tree /\ IsBool(tree[p])
        /\ \A q \in DOMAIN tree : q \in Seq(Nat) /\ Len(q) \in Nat
    BY OrNode, TreePaths
  <1>1. ASSUME NEW i \in DOMAIN tree[p].args, NEW q \in OnlyOrs(tree, Append(p, i))
        PROVE  q \in OnlyOrs(tree, p) /\ q # p
    <2>1. q \in DOMAIN tree /\ OnPath(Append(p, i), q)
      BY DEF OnlyOrs, NodesBelow
    <2>2. OnPath(p, q) /\ Len(p) < Len(q)
      BY <1>0, <2>1, NodesBelowArgs
    <2>3. ASSUME NEW r \in DOMAIN tree, OnPath(p, r), OnPath(r, q)
          PROVE  r \in Ors(tree)
      <3>1. CASE r = p
        BY <3>1
      <3>2. CASE r # p
        <4>1. OnPath(Append(p, i), r)
          BY <1>0, <2>1, <2>3, <3>2, ArgsApart
        <4>2. QED
          BY <2>3, <4>1 DEF OnlyOrs
      <3>3. QED
        BY <3>1, <3>2
    <2>4. q # p
      BY <1>0, <2>2
    <2>5. QED
      BY <2>1, <2>2, <2>3, <2>4 DEF OnlyOrs, NodesBelow
  <1>2. ASSUME NEW q \in OnlyOrs(tree, p), q # p
        PROVE  \E i \in DOMAIN tree[p].args : q \in OnlyOrs(tree, Append(p, i))
    <2>1. q \in DOMAIN tree /\ OnPath(p, q)
      BY DEF OnlyOrs, NodesBelow
    <2>2. PICK i \in DOMAIN tree[p].args : OnPath(Append(p, i), q)
      BY <1>0, <1>2, <2>1, NodesBelowArgs
    <2>3. ASSUME NEW r \in DOMAIN tree, OnPath(Append(p, i), r), OnPath(r, q)
          PROVE  r \in Ors(tree)
      <3>1. OnPath(p, r)
        BY <1>0, <2>3, NodesBelowArgs
      <3>2. QED
        BY <2>3, <3>1 DEF OnlyOrs
    <2>4. q \in OnlyOrs(tree, Append(p, i))
      BY <2>1, <2>2, <2>3 DEF OnlyOrs, NodesBelow
    <2>5. QED
      BY <2>4
  <1>3. p \in OnlyOrs(tree, p)
    <2>1. OnPath(p, p)
      BY <1>0, PathItself
    <2>2. ASSUME NEW r \in DOMAIN tree, OnPath(p, r), OnPath(r, p) PROVE r = p
      <3>1. Len(r) <= Len(p)
        BY <2>2 DEF OnPath
      <3>2. QED
        BY <1>0, <2>2, <3>1, PathSame
    <2>3. QED
      BY <1>0, <2>1, <2>2 DEF OnlyOrs, NodesBelow
  <1>4. QED
    BY <1>1, <1>2, <1>3

\* What is below different arguments is in the order of the arguments.
LEMMA ArgsAscend ==
  ASSUME NEW tree, IsTree(tree), NEW p \in DOMAIN tree, IsBool(tree[p]),
         NEW i \in DOMAIN tree[p].args, NEW j \in DOMAIN tree[p].args, i < j,
         NEW q \in DOMAIN tree, NEW r \in DOMAIN tree,
         OnPath(Append(p, i), q), OnPath(Append(p, j), r)
  PROVE  PathsAscend(q, r)
  <1>1. p \in Seq(Nat) /\ q \in Seq(Nat) /\ r \in Seq(Nat)
    BY TreePaths
  <1>2. /\ OnPath(p, q) /\ Len(p) < Len(q) /\ q[Len(p) + 1] = i
        /\ OnPath(p, r) /\ Len(p) < Len(r) /\ r[Len(p) + 1] = j
    BY NodesBelowArgs
  <1> DEFINE n == Len(p) + 1
  <1>3. Len(p) \in Nat /\ Len(q) \in Nat /\ Len(r) \in Nat
    BY <1>1
  <1>4. n \in 1 .. Len(q) /\ n <= Len(r)
    BY <1>2, <1>3
  <1>5. q[n] < r[n]
    BY <1>2
  <1>6. \A k \in 1 .. n - 1 : q[k] = r[k]
    BY <1>2, <1>3 DEF OnPath
  <1>7. QED
    BY <1>4, <1>5, <1>6, Zenon DEF PathsAscend

-----------------------------------------------------------------------------
(* The lists of pull_ors.                                                   *)

CellSet(s) == {s[i] : i \in DOMAIN s}

InPathOrder(s) == \A i, j \in DOMAIN s : i < j => PathsAscend(s[i], s[j])

\* The list is sound and has the members of X, in the order of their paths.
ListOf(list, D, X) ==
  /\ list.null = FALSE
  /\ list.cells \in Seq(D)
  /\ list.tail = (list.cells # <<>>)
  /\ list.length = Len(list.cells)
  /\ CellSet(list.cells) = X
  /\ InPathOrder(list.cells)

LEMMA EmptyListOf == ASSUME NEW D PROVE ListOf(EmptyList, D, {})
  <1>1. /\ EmptyList.null = FALSE /\ EmptyList.cells = <<>>
        /\ EmptyList.tail = FALSE /\ EmptyList.length = 0
    BY DEF EmptyList, NullList
  <1>2. <<>> \in Seq(D) /\ Len(<<>>) = 0 /\ CellSet(<<>>) = {} /\ InPathOrder(<<>>)
    BY DEF CellSet, InPathOrder
  <1>3. QED
    BY <1>1, <1>2 DEF ListOf

\* One sequence after the other.
LEMMA JoinOrder ==
  ASSUME NEW D, NEW s \in Seq(D), NEW t \in Seq(D), InPathOrder(s), InPathOrder(t),
         \A x \in CellSet(s) : \A y \in CellSet(t) : PathsAscend(x, y)
  PROVE  /\ s \o t \in Seq(D) /\ Len(s \o t) = Len(s) + Len(t)
         /\ CellSet(s \o t) = CellSet(s) \cup CellSet(t)
         /\ InPathOrder(s \o t)
  <1> DEFINE u == s \o t
  <1>1. /\ u \in Seq(D) /\ Len(u) = Len(s) + Len(t)
        /\ Len(s) \in Nat /\ DOMAIN s = 1 .. Len(s)
        /\ Len(t) \in Nat /\ DOMAIN t = 1 .. Len(t)
        /\ DOMAIN u = 1 .. Len(u)
        /\ \A i \in 1 .. Len(s) : u[i] = s[i]
        /\ \A i \in Len(s) + 1 .. Len(s) + Len(t) : u[i] = t[i - Len(s)]
    BY ConcatProperties, LenProperties
  <1> HIDE DEF u
  <1>2. ASSUME NEW i \in DOMAIN u
        PROVE  \/ i \in DOMAIN s /\ u[i] = s[i]
               \/ i - Len(s) \in DOMAIN t /\ u[i] = t[i - Len(s)] /\ i > Len(s)
    <2>1. CASE i <= Len(s)
      BY <1>1, <2>1
    <2>2. CASE i > Len(s)
      BY <1>1, <2>2
    <2>3. QED
      BY <1>1, <2>1, <2>2
  <1>3. CellSet(u) = CellSet(s) \cup CellSet(t)
    <2>1. CellSet(u) \subseteq CellSet(s) \cup CellSet(t)
      BY <1>2, Zenon DEF CellSet
    <2>2. ASSUME NEW i \in DOMAIN s PROVE s[i] \in CellSet(u)
      <3>1. i \in DOMAIN u /\ u[i] = s[i]
        BY <1>1
      <3>2. QED
        BY <3>1 DEF CellSet
    <2>3. ASSUME NEW i \in DOMAIN t PROVE t[i] \in CellSet(u)
      <3>1. i + Len(s) \in DOMAIN u /\ u[i + Len(s)] = t[i]
        <4>1. DOMAIN t = 1 .. Len(t) /\ Len(s) \in Nat /\ Len(t) \in Nat
          BY <1>1
        <4>2. i + Len(s) \in Len(s) + 1 .. Len(s) + Len(t) /\ (i + Len(s)) - Len(s) = i
              /\ i + Len(s) \in 1 .. Len(s) + Len(t)
          BY <4>1
        <4>3. u[i + Len(s)] = t[(i + Len(s)) - Len(s)]
          BY <1>1, <4>2
        <4>4. i + Len(s) \in DOMAIN u
          BY <1>1, <4>2
        <4>5. QED
          BY <4>2, <4>3, <4>4
      <3>2. QED
        BY <3>1 DEF CellSet
    <2>4. QED
      BY <2>1, <2>2, <2>3 DEF CellSet
  <1>4. ASSUME NEW i \in DOMAIN u, NEW j \in DOMAIN u, i < j
        PROVE  PathsAscend(u[i], u[j])
    <2>0. i \in Nat /\ j \in Nat
      BY <1>1
    <2>1. CASE i \in DOMAIN s /\ u[i] = s[i] /\ j \in DOMAIN s /\ u[j] = s[j]
      BY <1>4, <2>1 DEF InPathOrder
    <2>2. CASE /\ i \in DOMAIN s /\ u[i] = s[i]
               /\ j - Len(s) \in DOMAIN t /\ u[j] = t[j - Len(s)]
      BY <2>2 DEF CellSet
    <2>3. CASE /\ i - Len(s) \in DOMAIN t /\ u[i] = t[i - Len(s)]
               /\ j - Len(s) \in DOMAIN t /\ u[j] = t[j - Len(s)]
      <3>1. i - Len(s) < j - Len(s)
        BY <1>1, <1>4, <2>0
      <3>2. QED
        BY <2>3, <3>1, Zenon DEF InPathOrder
    <2>4. CASE /\ i > Len(s) /\ j \in DOMAIN s
      BY <1>1, <1>4, <2>0, <2>4
    <2>5. QED
      BY <1>2, <2>1, <2>2, <2>3, <2>4
  <1>5. QED
    BY <1>1, <1>3, <1>4 DEF InPathOrder, u

LEMMA AppendListOf ==
  ASSUME NEW D, NEW X, NEW list, ListOf(list, D, X), NEW x \in D,
         \A y \in X : PathsAscend(y, x)
  PROVE  ListOf(LAppend(list, x), D, X \cup {x})
  <1> DEFINE s == list.cells
             t == <<x>>
             new == LAppend(list, x)
  <1>1. s \in Seq(D) /\ CellSet(s) = X /\ InPathOrder(s)
    BY DEF ListOf
  <1>2. t \in Seq(D) /\ Len(t) = 1 /\ CellSet(t) = {x} /\ InPathOrder(t)
    BY DEF CellSet, InPathOrder
  <1>3. /\ s \o t \in Seq(D) /\ Len(s \o t) = Len(s) + 1
        /\ CellSet(s \o t) = X \cup {x} /\ InPathOrder(s \o t)
    <2>1. \A y \in CellSet(s) : \A z \in CellSet(t) : PathsAscend(y, z)
      BY <1>1, <1>2
    <2> HIDE DEF s, t
    <2>2. /\ s \o t \in Seq(D) /\ Len(s \o t) = Len(s) + Len(t)
          /\ CellSet(s \o t) = CellSet(s) \cup CellSet(t) /\ InPathOrder(s \o t)
      BY <1>1, <1>2, <2>1, JoinOrder
    <2>3. QED
      BY <1>1, <1>2, <2>2
  <1>4. Append(s, x) = s \o t
    BY <1>1, AppendIsConcat
  <1>5. new.null = FALSE /\ new.tail = TRUE /\ new.length = Len(s) + 1
    BY DEF LAppend, ListOf
  <1>6. new.cells = s \o t
    <2>1. CASE list.tail
      BY <1>4, <2>1 DEF LAppend
    <2>2. CASE ~ list.tail
      <3>1. s = <<>>
        BY <2>2 DEF ListOf
      <3>2. new.cells = <<x>>
        BY <2>2 DEF LAppend
      <3>3. <<>> \o <<x>> = <<x>>
        BY <1>2, ConcatEmptySeq
      <3>4. QED
        BY <3>1, <3>2, <3>3
    <2>3. QED
      BY <2>1, <2>2
  <1> HIDE DEF new, s, t
  <1>7. s \o t # <<>>
    <2>1. Len(s) \in Nat
      BY <1>1, LenProperties
    <2>2. Len(s \o t) # 0
      BY <1>3, <2>1
    <2>3. QED
      BY <2>2
  <1>8. ListOf(new, D, X \cup {x})
    BY <1>3, <1>5, <1>6, <1>7 DEF ListOf
  <1>9. QED
    BY <1>8 DEF new

LEMMA ConcatListOf ==
  ASSUME NEW D, NEW X, NEW Y, NEW list1, NEW list2, ListOf(list1, D, X),
         ListOf(list2, D, Y), Y # {}, \A x \in X : \A y \in Y : PathsAscend(x, y)
  PROVE  ListOf(ListConcat(list1, list2), D, X \cup Y)
  <1> DEFINE s == list1.cells
             t == list2.cells
             new == ListConcat(list1, list2)
  <1>1. /\ s \in Seq(D) /\ CellSet(s) = X /\ InPathOrder(s)
        /\ t \in Seq(D) /\ CellSet(t) = Y /\ InPathOrder(t)
        /\ list1.null = FALSE /\ list2.null = FALSE
        /\ list1.length = Len(s) /\ list2.length = Len(t)
        /\ list1.tail = (s # <<>>) /\ list2.tail = (t # <<>>)
    BY DEF ListOf
  <1>2. /\ s \o t \in Seq(D) /\ Len(s \o t) = Len(s) + Len(t)
        /\ CellSet(s \o t) = X \cup Y /\ InPathOrder(s \o t)
    <2> HIDE DEF s, t
    <2> QED BY <1>1, JoinOrder
  <1>3. t # <<>>
    <2>1. CASE t = <<>>
      <3>1. CellSet(<<>>) = {}
        BY DEF CellSet
      <3>2. QED
        BY <1>1, <2>1, <3>1
    <2>2. QED
      BY <2>1
  <1>4. new.null = FALSE /\ new.tail = TRUE /\ new.length = Len(s) + Len(t)
    BY <1>1, <1>3 DEF ListConcat
  <1>5. new.cells = s \o t
    <2>1. CASE list1.tail
      BY <1>1, <2>1 DEF ListConcat
    <2>2. CASE ~ list1.tail
      <3>1. s = <<>>
        BY <1>1, <2>2
      <3>2. new.cells = t
        BY <1>1, <2>2 DEF ListConcat
      <3>3. <<>> \o t = t
        BY <1>1, ConcatEmptySeq
      <3>4. QED
        BY <3>1, <3>2, <3>3
    <2>3. QED
      BY <2>1, <2>2
  <1>6. s \o t # <<>>
    <2> HIDE DEF s, t
    <2>1. QED
      BY <1>1, <1>3, ConcatEqualIffEmpty, EmptySeq, ConcatSimplifications, <1>2, LenProperties
  <1> HIDE DEF new, s, t
  <1>7. ListOf(new, D, X \cup Y)
    BY <1>2, <1>4, <1>5, <1>6 DEF ListOf
  <1>8. QED
    BY <1>7 DEF new

-----------------------------------------------------------------------------
(* What pull_ors returns.                                                   *)

\* An OR below ORs only: one that pull_ors comes to.
Reaches(tree, p) ==
  p \in Ors(tree) /\ \A r \in DOMAIN tree : OnPath(r, p) => r \in Ors(tree)

LEMMA ReachesArgs ==
  ASSUME NEW tree, IsTree(tree), ~ HasEmptyOr(tree), NEW p, Reaches(tree, p)
  PROVE  /\ tree[p].args # <<>> /\ 1 \in DOMAIN tree[p].args
         /\ \A i \in DOMAIN tree[p].args :
              Append(p, i) \in Ors(tree) => Reaches(tree, Append(p, i))
  <1>0. /\ p \in DOMAIN tree /\ IsBool(tree[p])
        /\ \A q \in DOMAIN tree : q \in Seq(Nat) /\ Len(q) \in Nat
    BY OrNode, TreePaths DEF Reaches
  <1>1. tree[p].args # <<>>
    BY DEF HasEmptyOr, Reaches
  <1>2. 1 \in DOMAIN tree[p].args
    <2> DEFINE args == tree[p].args
    <2> HIDE DEF args
    <2>1. args \in Seq(DOMAIN tree) /\ args # <<>>
      BY <1>0, <1>1, ArgFacts DEF args
    <2>2. Len(args) \in Nat \ {0} /\ DOMAIN args = 1 .. Len(args)
      BY <2>1, EmptySeq, LenProperties
    <2>3. 1 \in DOMAIN args
      BY <2>2
    <2>4. QED
      BY <2>3 DEF args
  <1>3. ASSUME NEW i \in DOMAIN tree[p].args, Append(p, i) \in Ors(tree)
        PROVE  Reaches(tree, Append(p, i))
    <2>0. /\ i \in Nat /\ Append(p, i) \in DOMAIN tree
          /\ Append(p, i) \in Seq(Nat) /\ Len(Append(p, i)) = Len(p) + 1
      BY <1>0, ArgFacts
    <2>1. ASSUME NEW r \in DOMAIN tree, OnPath(r, Append(p, i))
          PROVE  r \in Ors(tree)
      <3>1. CASE Len(r) <= Len(p)
        <4>1. OnPath(p, Append(p, i))
          BY <1>0, <2>0, PathNext
        <4>2. OnPath(r, p)
          BY <1>0, <2>0, <2>1, <3>1, <4>1, PathChain
        <4>3. QED
          BY <4>2 DEF Reaches
      <3>2. CASE ~ (Len(r) <= Len(p))
        <4>1. Len(Append(p, i)) <= Len(r)
          BY <1>0, <2>0, <3>2
        <4>2. r = Append(p, i)
          BY <1>0, <2>0, <2>1, <4>1, PathSame
        <4>3. QED
          BY <1>3, <4>2
      <3>3. QED
        BY <3>1, <3>2
    <2>2. QED
      BY <1>3, <2>1 DEF Reaches
  <1>4. QED
    BY <1>1, <1>2, <1>3

\* The list has the first nodes below p that are no ORs, and the ORs between
\* them and p are freed.
Pulled(tree, p, result) ==
  /\ ListOf(result.list, DOMAIN tree, Tops(tree, p))
  /\ Tops(tree, p) # {}
  /\ result.freed = OnlyOrs(tree, p) \ {p}

TopsTo(tree, p, i) == UNION {Tops(tree, Append(p, k)) : k \in 1 .. i}
OnlyOrsTo(tree, p, i) == UNION {OnlyOrs(tree, Append(p, k)) : k \in 1 .. i}

LEMMA GatherPulls ==
  ASSUME NEW tree, IsTree(tree), NEW p \in Ors(tree), 1 \in DOMAIN tree[p].args, NEW sub,
         \A i \in DOMAIN tree[p].args :
           Append(p, i) \in Ors(tree) => Pulled(tree, Append(p, i), sub[Append(p, i)])
  PROVE  Pulled(tree, p, Gather(tree, tree[p].args, sub))
  <1> DEFINE args == tree[p].args
             n == Len(args)
             D == DOMAIN tree
  <1>0. p \in DOMAIN tree /\ IsBool(tree[p])
    BY OrNode
  <1>1. args \in Seq(D)
    BY <1>0, ArgFacts
  <1>2. n \in Nat /\ DOMAIN args = 1 .. n
    <2> HIDE DEF args
    <2> QED BY <1>1, LenProperties
  <1>3. \A i \in 1 .. n : /\ args[i] = Append(p, i) /\ Append(p, i) \in D
    BY <1>0, <1>2, ArgFacts
  <1>4. PICK out : Gathered(tree, args, sub, out) /\ Gather(tree, args, sub) = out[n]
    BY <1>2, GatherIs
  <1> DEFINE Good(i) == /\ ListOf(out[i].list, D, TopsTo(tree, p, i))
                        /\ out[i].freed = OnlyOrsTo(tree, p, i)
  <1>5. \A i \in 0 .. n : out[i] = GatherStep(tree, args, sub, out, i)
    BY <1>4, Zenon DEF Gathered
  <1>6. Good(0)
    <2>1. out[0] = [list |-> EmptyList, freed |-> {}]
      <3>1. 0 \in 0 .. n
        BY <1>2
      <3>2. QED
        BY <1>5, <3>1 DEF GatherStep
    <2>2. TopsTo(tree, p, 0) = {} /\ OnlyOrsTo(tree, p, 0) = {}
      BY DEF TopsTo, OnlyOrsTo
    <2>3. QED
      BY <2>1, <2>2, EmptyListOf
  <1>7. ASSUME NEW i \in 1 .. n
        PROVE  Tops(tree, Append(p, i)) # {}
    <2>1. i \in DOMAIN args /\ Append(p, i) \in D
      BY <1>2, <1>3
    <2>2. CASE Append(p, i) \in Ors(tree)
      BY <2>1, <2>2 DEF Pulled
    <2>3. CASE Append(p, i) \notin Ors(tree)
      <3>1. Tops(tree, Append(p, i)) = {Append(p, i)}
        BY <2>1, <2>3, TopItself
      <3>2. QED
        BY <3>1
    <2>4. QED
      BY <2>2, <2>3
  <1>8. ASSUME NEW i \in 1 .. n, Good(i - 1)
        PROVE  Good(i)
    <2> DEFINE a == Append(p, i)
               o == out[i - 1]
    <2>1. /\ i \in 0 .. n /\ i # 0 /\ i - 1 \in Nat /\ i \in DOMAIN args
          /\ args[i] = a /\ a \in D
      BY <1>2, <1>3
    <2>2. TopsTo(tree, p, i) = TopsTo(tree, p, i - 1) \cup Tops(tree, a)
      <3>1. 1 .. i = (1 .. i - 1) \cup {i}
        BY <2>1
      <3>2. QED
        BY <3>1 DEF TopsTo
    <2>3. OnlyOrsTo(tree, p, i) = OnlyOrsTo(tree, p, i - 1) \cup OnlyOrs(tree, a)
      <3>1. 1 .. i = (1 .. i - 1) \cup {i}
        BY <2>1
      <3>2. QED
        BY <3>1 DEF OnlyOrsTo
    <2>4. ASSUME NEW x \in TopsTo(tree, p, i - 1), NEW y \in Tops(tree, a)
          PROVE  PathsAscend(x, y)
      <3>1. PICK k \in 1 .. i - 1 : x \in Tops(tree, Append(p, k))
        BY DEF TopsTo
      <3>2. k \in DOMAIN args /\ k < i
        BY <1>2
      <3>3. x \in D /\ OnPath(Append(p, k), x) /\ y \in D /\ OnPath(Append(p, i), y)
        BY <3>1 DEF Tops, NodesBelow
      <3>4. QED
        BY <1>0, <2>1, <3>2, <3>3, ArgsAscend
    <2>5. out[i] = GatherStep(tree, args, sub, out, i)
      BY <1>5, <2>1
    <2>6. CASE a \in Ors(tree)
      <3>1. Pulled(tree, a, sub[a])
        BY <2>1, <2>6
      <3>2. out[i] = [list |-> ListConcat(o.list, sub[a].list),
                      freed |-> o.freed \cup sub[a].freed \cup {a}]
        BY <2>1, <2>5, <2>6 DEF GatherStep, Ors
      <3> HIDE DEF a
      <3>3. ListOf(ListConcat(o.list, sub[a].list), D,
                   TopsTo(tree, p, i - 1) \cup Tops(tree, a))
        BY <1>8, <2>4, <3>1, ConcatListOf DEF Pulled
      <3>4. a \in OnlyOrs(tree, a)
        BY <2>6, OnlyOrsOfArgs
      <3>5. out[i].freed = OnlyOrsTo(tree, p, i - 1) \cup OnlyOrs(tree, a)
        BY <1>8, <3>1, <3>2, <3>4 DEF Pulled
      <3>6. QED
        BY <2>2, <2>3, <3>2, <3>3, <3>5
    <2>7. CASE a \notin Ors(tree)
      <3>1. Tops(tree, a) = {a} /\ OnlyOrs(tree, a) = {}
        BY <2>1, <2>7, TopItself
      <3>2. out[i] = [list |-> LAppend(o.list, a), freed |-> o.freed]
        BY <2>1, <2>5, <2>7 DEF GatherStep, Ors
      <3> HIDE DEF a
      <3>3. ListOf(LAppend(o.list, a), D, TopsTo(tree, p, i - 1) \cup {a})
        BY <1>8, <2>1, <2>4, <3>1, AppendListOf
      <3>4. QED
        BY <1>8, <2>2, <2>3, <3>1, <3>2, <3>3
    <2>8. QED
      BY <2>6, <2>7
  <1>9. Good(n)
    <2> DEFINE T == {i \in 0 .. n : Good(i)}
    <2> HIDE DEF Good
    <2>1. 0 \in T
      BY <1>2, <1>6
    <2>2. ASSUME NEW m \in 1 .. n, m - 1 \in T PROVE m \in T
      <3>1. m \in 0 .. n
        BY <1>2
      <3>2. QED
        BY <1>8, <2>2, <3>1
    <2> HIDE DEF T, n
    <2>3. \A i \in 0 .. n : i \in T
      BY <1>2, <2>1, <2>2, UpTo
    <2>4. n \in 0 .. n
      BY <1>2
    <2>5. n \in T
      BY <2>3, <2>4
    <2>6. QED
      BY <2>5 DEF T
  <1>10. TopsTo(tree, p, n) = Tops(tree, p)
    <2>1. \A q : q \in TopsTo(tree, p, n) <=> \E i \in 1 .. n : q \in Tops(tree, Append(p, i))
      BY DEF TopsTo
    <2>2. QED
      BY <1>2, <2>1, TopsOfArgs
  <1>11. OnlyOrsTo(tree, p, n) = OnlyOrs(tree, p) \ {p}
    <2>1. \A q : q \in OnlyOrsTo(tree, p, n)
                   <=> \E i \in 1 .. n : q \in OnlyOrs(tree, Append(p, i))
      BY DEF OnlyOrsTo
    <2>2. QED
      BY <1>2, <2>1, OnlyOrsOfArgs
  <1>12. Tops(tree, p) # {}
    <2>1. PICK q : q \in Tops(tree, Append(p, 1))
      BY <1>2, <1>7
    <2>2. QED
      BY <2>1, TopsOfArgs
  <1>13. QED
    BY <1>4, <1>9, <1>10, <1>11, <1>12 DEF Pulled

LEMMA AllPulled ==
  ASSUME NEW tree, IsTree(tree), ~ HasEmptyOr(tree), NEW p, Reaches(tree, p)
  PROVE  Pulled(tree, p, PullOrs(tree)[p])
  <1> DEFINE All == PullOrs(tree)
             Good(m) == \A q \in Deepest(tree, m) : Reaches(tree, q) => Pulled(tree, q, All[q])
             T == {m \in 0 .. TreeDepth : Good(m)}
  <1>0. TreeDepth \in Nat
    BY DeepestFacts
  <1>1. 0 \in T
    <2>1. ASSUME NEW q \in Deepest(tree, 0), Reaches(tree, q) PROVE FALSE
      <3>1. tree[q].args = <<>>
        BY <2>1, DeepestFacts, OrNode DEF Reaches
      <3>2. QED
        BY <2>1, <3>1, ReachesArgs
    <2>2. QED
      BY <1>0, <2>1
  <1>2. ASSUME NEW m \in 1 .. TreeDepth, m - 1 \in T
        PROVE  m \in T
    <2>1. ASSUME NEW q \in Deepest(tree, m), Reaches(tree, q)
          PROVE  Pulled(tree, q, All[q])
      <3> DEFINE args == tree[q].args
                 sub == [r \in {args[i] : i \in DOMAIN args} \cap Ors(tree) |-> All[r]]
      <3>1. q \in Ors(tree) /\ q \in DOMAIN tree /\ IsBool(tree[q])
        BY <2>1, OrNode DEF Reaches
      <3>2. args # <<>> /\ 1 \in DOMAIN args
        BY <2>1, ReachesArgs
      <3>3. All[q] = Gather(tree, args, sub)
        <4>1. All[q] = PullOf(tree, All, q)
          BY <3>1, PullIs
        <4> HIDE DEF All
        <4>2. QED
          BY <3>2, <4>1 DEF PullOf
      <3>4. ASSUME NEW i \in DOMAIN args, Append(q, i) \in Ors(tree)
            PROVE  Pulled(tree, Append(q, i), sub[Append(q, i)])
        <4>1. args[i] = Append(q, i)
          BY <3>1, ArgFacts
        <4>2. Append(q, i) \in Deepest(tree, m - 1)
          <5> HIDE DEF All, sub
          <5>1. \A k \in DOMAIN tree[q].args : tree[q].args[k] \in Deepest(tree, m - 1)
            BY <3>1, DeepestFacts
          <5>2. QED
            BY <4>1, <5>1
        <4>3. Reaches(tree, Append(q, i))
          BY <2>1, <3>4, ReachesArgs
        <4>4. sub[Append(q, i)] = All[Append(q, i)]
          BY <3>4, <4>1
        <4> HIDE DEF All, sub
        <4>5. QED
          BY <1>2, <4>2, <4>3, <4>4
      <3> HIDE DEF All, sub
      <3>5. Pulled(tree, q, Gather(tree, args, sub))
        BY <3>1, <3>2, <3>4, GatherPulls
      <3>6. QED
        BY <3>3, <3>5
    <2>2. m \in 0 .. TreeDepth
      OBVIOUS
    <2> HIDE DEF All
    <2>3. QED
      BY <2>1, <2>2
  <1>3. TreeDepth \in T
    <2> HIDE DEF T
    <2>1. \A m \in 0 .. TreeDepth : m \in T
      BY <1>0, <1>1, <1>2, UpTo
    <2>2. QED
      BY <1>0, <2>1
  <1>4. p \in Deepest(tree, TreeDepth)
    BY DeepestFacts, OrNode DEF Reaches
  <1> HIDE DEF All
  <1>5. Pulled(tree, p, All[p])
    BY <1>3, <1>4
  <1>6. QED
    BY <1>5 DEF All

-----------------------------------------------------------------------------
(* Truth values.                                                            *)

LEMMA OrOfFacts ==
  ASSUME NEW values
  PROVE  /\ OrOf(values) \in {"true", "null", "false"}
         /\ OrOf(values) = "true" <=> "true" \in values
         /\ OrOf(values) = "null" <=> "true" \notin values /\ "null" \in values
  BY DEF OrOf

\* The OR at p is what the OR of its entries is.
SameTruth(tree, value, p) ==
  /\ value[p] = "true" <=> \E q \in Tops(tree, p) : value[q] = "true"
  /\ value[p] = "null" <=> /\ ~ \E q \in Tops(tree, p) : value[q] = "true"
                           /\ \E q \in Tops(tree, p) : value[q] = "null"

ArgNodes(tree, p) == {Append(p, i) : i \in DOMAIN tree[p].args}

ValuesAt(tree, row, nodes) == {TruthOf(tree, row)[q] : q \in nodes}

LEMMA OrArgs ==
  ASSUME NEW tree, IsTree(tree), NEW row, NEW p \in Ors(tree)
  PROVE  TruthOf(tree, row)[p] = OrOf(ValuesAt(tree, row, ArgNodes(tree, p)))
  <1> DEFINE value == TruthOf(tree, row)
             args == tree[p].args
  <1>1. p \in DOMAIN tree /\ IsBool(tree[p]) /\ tree[p].boolop = "or"
    BY DEF Ors, IsOrClause
  <1>2. value[p] = TruthAt(tree, row, value, p)
    BY <1>1, TruthIs
  <1> HIDE DEF value
  <1>3. value[p] = OrOf({value[args[i]] : i \in DOMAIN args})
    BY <1>1, <1>2 DEF TruthAt, TruthFrom
  <1>4. \A i \in DOMAIN args : args[i] = Append(p, i)
    BY <1>1, ArgFacts
  <1>5. {value[args[i]] : i \in DOMAIN args} = {value[q] : q \in ArgNodes(tree, p)}
    <2>1. ArgNodes(tree, p) = {args[i] : i \in DOMAIN args}
      BY <1>4 DEF ArgNodes
    <2>2. {value[args[i]] : i \in DOMAIN args}
            = {value[q] : q \in {args[i] : i \in DOMAIN args}}
      OBVIOUS
    <2>3. QED
      BY <2>1, <2>2
  <1>6. QED
    BY <1>3, <1>5, Zenon DEF value, ValuesAt

LEMMA SameTruthStep ==
  ASSUME NEW tree, IsTree(tree), NEW row, NEW p \in Ors(tree),
         \A i \in DOMAIN tree[p].args : SameTruth(tree, TruthOf(tree, row), Append(p, i))
  PROVE  SameTruth(tree, TruthOf(tree, row), p)
  <1> DEFINE value == TruthOf(tree, row)
             I == DOMAIN tree[p].args
             values == ValuesAt(tree, row, ArgNodes(tree, p))
  <1>1. value[p] = OrOf(values)
    BY OrArgs
  <1>2. \A i \in I : SameTruth(tree, value, Append(p, i))
    OBVIOUS
  <1>3. \A q : q \in Tops(tree, p) <=> \E i \in I : q \in Tops(tree, Append(p, i))
    BY TopsOfArgs
  <1>4. /\ "true" \in values <=> \E i \in I : value[Append(p, i)] = "true"
        /\ "null" \in values <=> \E i \in I : value[Append(p, i)] = "null"
    BY DEF ValuesAt, ArgNodes
  <1>5. /\ value[p] = "true" <=> \E i \in I : value[Append(p, i)] = "true"
        /\ value[p] = "null" <=> /\ ~ \E i \in I : value[Append(p, i)] = "true"
                                 /\ \E i \in I : value[Append(p, i)] = "null"
    <2> HIDE DEF value, I, values
    <2> QED BY <1>1, <1>4, OrOfFacts
  <1> HIDE DEF value, I
  <1>6. (\E i \in I : value[Append(p, i)] = "true")
          <=> \E q \in Tops(tree, p) : value[q] = "true"
    BY <1>2, <1>3 DEF SameTruth
  <1>7. ASSUME ~ \E q \in Tops(tree, p) : value[q] = "true"
        PROVE  (\E i \in I : value[Append(p, i)] = "null")
                 <=> \E q \in Tops(tree, p) : value[q] = "null"
    BY <1>2, <1>3, <1>7 DEF SameTruth
  <1>8. SameTruth(tree, value, p)
    BY <1>5, <1>6, <1>7 DEF SameTruth
  <1>9. QED
    BY <1>8 DEF value

LEMMA AllSameTruth ==
  ASSUME NEW tree, IsTree(tree), NEW row, NEW p \in DOMAIN tree
  PROVE  SameTruth(tree, TruthOf(tree, row), p)
  <1> DEFINE value == TruthOf(tree, row)
             Good(m) == \A q \in Deepest(tree, m) : SameTruth(tree, value, q)
             T == {m \in 0 .. TreeDepth : Good(m)}
  <1> HIDE DEF value
  <1>0. TreeDepth \in Nat
    BY DeepestFacts
  <1>1. ASSUME NEW q \in DOMAIN tree, q \notin Ors(tree)
        PROVE  SameTruth(tree, value, q)
    <2>1. Tops(tree, q) = {q}
      BY <1>1, TopItself
    <2>2. QED
      BY <2>1 DEF SameTruth
  <1>2. ASSUME NEW m \in 0 .. TreeDepth, NEW q \in Deepest(tree, m), q \in Ors(tree),
               \A i \in DOMAIN tree[q].args : SameTruth(tree, value, Append(q, i))
        PROVE  SameTruth(tree, value, q)
    BY <1>2, SameTruthStep DEF value
  <1>3. 0 \in T
    <2>1. ASSUME NEW q \in Deepest(tree, 0) PROVE SameTruth(tree, value, q)
      <3>1. CASE q \in Ors(tree)
        <4>1. tree[q].args = <<>>
          BY <3>1, DeepestFacts, OrNode
        <4>2. 0 \in 0 .. TreeDepth
          BY <1>0
        <4>3. \A i \in DOMAIN tree[q].args : SameTruth(tree, value, Append(q, i))
          BY <4>1
        <4>4. QED
          BY <1>2, <3>1, <4>2, <4>3
      <3>2. CASE q \notin Ors(tree)
        BY <1>1, <3>2 DEF Deepest
      <3>3. QED
        BY <3>1, <3>2
    <2>2. QED
      BY <1>0, <2>1
  <1>4. ASSUME NEW m \in 1 .. TreeDepth, m - 1 \in T
        PROVE  m \in T
    <2>0. m \in 0 .. TreeDepth
      OBVIOUS
    <2>1. ASSUME NEW q \in Deepest(tree, m) PROVE SameTruth(tree, value, q)
      <3>1. CASE q \in Ors(tree)
        <4>1. q \in DOMAIN tree /\ IsBool(tree[q])
          BY <3>1, OrNode
        <4>2. \A i \in DOMAIN tree[q].args : tree[q].args[i] = Append(q, i)
          BY <4>1, ArgFacts
        <4>3. \A i \in DOMAIN tree[q].args : tree[q].args[i] \in Deepest(tree, m - 1)
          BY <4>1, DeepestFacts
        <4>4. \A i \in DOMAIN tree[q].args : SameTruth(tree, value, Append(q, i))
          BY <1>4, <4>2, <4>3
        <4>5. QED
          BY <1>2, <2>0, <3>1, <4>4
      <3>2. CASE q \notin Ors(tree)
        BY <1>1, <3>2 DEF Deepest
      <3>3. QED
        BY <3>1, <3>2
    <2>2. QED
      BY <2>0, <2>1
  <1>5. TreeDepth \in T
    <2> HIDE DEF T
    <2>1. \A m \in 0 .. TreeDepth : m \in T
      BY <1>0, <1>3, <1>4, UpTo
    <2>2. QED
      BY <1>0, <2>1
  <1>6. p \in Deepest(tree, TreeDepth)
    BY DeepestFacts
  <1>7. SameTruth(tree, value, p)
    BY <1>5, <1>6
  <1>8. QED
    BY <1>7 DEF value

\* The OR of the entries of its list is as true as an OR.
LEMMA OrOfTops ==
  ASSUME NEW tree, IsTree(tree), NEW row, NEW p \in Ors(tree)
  PROVE  TruthOf(tree, row)[p] = OrOf(ValuesAt(tree, row, Tops(tree, p)))
  <1> DEFINE value == TruthOf(tree, row)
             values == ValuesAt(tree, row, Tops(tree, p))
  <1>1. SameTruth(tree, value, p)
    BY AllSameTruth DEF Ors
  <1>2. value[p] \in {"true", "null", "false"}
    <2>1. \E vals : value[p] = OrOf(vals)
      BY OrArgs
    <2>2. QED
      BY <2>1, OrOfFacts
  <1>3. /\ "true" \in values <=> \E q \in Tops(tree, p) : value[q] = "true"
        /\ "null" \in values <=> \E q \in Tops(tree, p) : value[q] = "null"
    BY DEF ValuesAt
  <1>4. value[p] = OrOf(values)
    <2> HIDE DEF value, values
    <2>1. /\ value[p] = "true" <=> "true" \in values
          /\ value[p] = "null" <=> "true" \notin values /\ "null" \in values
      BY <1>1, <1>3 DEF SameTruth
    <2>2. QED
      BY <1>2, <2>1 DEF OrOf
  <1>5. QED
    BY <1>4

-----------------------------------------------------------------------------
(* The flattened list.                                                      *)

\* What the demo has flattened; no claim is made of a tree with an empty OR.
OrInv ==
  ~ HasEmptyOr(orTree) =>
    /\ IsTree(orTree)
    /\ flattened = PullOrs(orTree)[<<>>].list
    /\ freed = PullOrs(orTree)[<<>>].freed

LEMMA OrInitInv == OrInit => OrInv
  <1> SUFFICES ASSUME OrInit PROVE HasEmptyOr(orTree)
    BY DEF OrInv
  <1>1. DOMAIN orTree = {<<>>} /\ orTree[<<>>] = MakeBoolExpr("or", <<>>)
    BY DEF OrInit
  <1>2. <<>> \in Ors(orTree) /\ orTree[<<>>].args = <<>>
    BY <1>1 DEF Ors, IsOrClause, IsBool, MakeBoolExpr
  <1>3. QED
    BY <1>1, <1>2 DEF HasEmptyOr

LEMMA OrStep == OrInv /\ [OrNext]_orVars => OrInv'
  <1> SUFFICES ASSUME OrInv, [OrNext]_orVars PROVE OrInv'
    OBVIOUS
  <1>1. CASE Flatten
    <2>1. IsTree(orTree')
      BY <1>1, OrAssumption DEF Flatten
    <2>2. flattened' = PullOrs(orTree')[<<>>].list /\ freed' = PullOrs(orTree')[<<>>].freed
      BY <1>1 DEF Flatten
    <2>3. QED
      BY <2>1, <2>2, Zenon DEF OrInv
  <1>2. CASE UNCHANGED orVars
    BY <1>2 DEF OrInv, orVars
  <1>3. QED
    BY <1>1, <1>2 DEF OrNext

LEMMA OrInvariance == OrSpec => []OrInv
  BY OrInitInv, OrStep, PTL DEF OrSpec

LEMMA RootPulled ==
  ASSUME OrInv, ~ HasEmptyOr(orTree)
  PROVE  /\ IsTree(orTree) /\ <<>> \in Ors(orTree)
         /\ ListOf(flattened, DOMAIN orTree, Tops(orTree, <<>>))
         /\ freed = OnlyOrs(orTree, <<>>) \ {<<>>}
  <1>1. IsTree(orTree) /\ <<>> \in Ors(orTree)
    BY DEF OrInv, IsTree
  <1>2. Reaches(orTree, <<>>)
    <2>1. ASSUME NEW r \in DOMAIN orTree, OnPath(r, <<>>) PROVE r = <<>>
      <3>1. r \in Seq(Nat) /\ <<>> \in Seq(Nat)
        BY <1>1, TreePaths
      <3>2. QED
        BY <2>1, <3>1, PathSame DEF OnPath
    <2>2. QED
      BY <1>1, <2>1 DEF Reaches
  <1>3. QED
    BY <1>1, <1>2, AllPulled DEF OrInv, Pulled

LEMMA MeaningKept == OrInv => FlattenKeepsMeaning
  <1> SUFFICES ASSUME OrInv, ~ HasEmptyOr(orTree)
               PROVE  /\ \A row \in [VarNames -> Truth] :
                           OrOf({TruthOf(orTree, row)[flattened.cells[i]] :
                                   i \in DOMAIN flattened.cells})
                             = TruthOf(orTree, row)[<<>>]
                      /\ \A i \in DOMAIN flattened.cells : flattened.cells[i] \notin Ors(orTree)
                      /\ \A i, j \in DOMAIN flattened.cells :
                           i < j => PathsAscend(flattened.cells[i], flattened.cells[j])
                      /\ flattened.length = Len(flattened.cells)
    BY Zenon DEF FlattenKeepsMeaning
  <1> DEFINE cells == flattened.cells
  <1>1. IsTree(orTree) /\ <<>> \in Ors(orTree)
    BY RootPulled
  <1>2. /\ CellSet(cells) = Tops(orTree, <<>>) /\ InPathOrder(cells)
        /\ flattened.length = Len(cells)
    BY RootPulled DEF ListOf
  <1> HIDE DEF cells
  <1>3. ASSUME NEW row
        PROVE  OrOf({TruthOf(orTree, row)[cells[i]] : i \in DOMAIN cells})
                 = TruthOf(orTree, row)[<<>>]
    <2>1. TruthOf(orTree, row)[<<>>] = OrOf(ValuesAt(orTree, row, Tops(orTree, <<>>)))
      BY <1>1, OrOfTops
    <2>2. ValuesAt(orTree, row, Tops(orTree, <<>>))
            = {TruthOf(orTree, row)[cells[i]] : i \in DOMAIN cells}
      BY <1>2 DEF CellSet, ValuesAt
    <2>3. QED
      BY <2>1, <2>2
  <1>4. ASSUME NEW i \in DOMAIN cells PROVE cells[i] \notin Ors(orTree)
    BY <1>2 DEF CellSet, Tops
  <1>5. \A i, j \in DOMAIN cells : i < j => PathsAscend(cells[i], cells[j])
    BY <1>2 DEF InPathOrder
  <1>6. QED
    BY <1>2, <1>3, <1>4, <1>5 DEF cells

\* pull_ors leaves a list that means what the nested ORs mean, in their order
\* and with the right length, wherever no OR is empty.
THEOREM FlatteningKeepsMeaning == OrSpec => []FlattenKeepsMeaning
  BY OrInvariance, MeaningKept, PTL

LEMMA NodesOwned == OrInv => FlattenOwnsNodes
  <1> DEFINE cells == flattened.cells
             owned(i) == NodesBelow(orTree, cells[i])
  <1> SUFFICES ASSUME OrInv, ~ HasEmptyOr(orTree)
               PROVE  /\ freed \cup UNION {owned(i) : i \in DOMAIN cells}
                           = DOMAIN orTree \ {<<>>}
                      /\ \A i \in DOMAIN cells :
                           /\ owned(i) \cap freed = {}
                           /\ \A j \in DOMAIN cells : i # j => owned(i) \cap owned(j) = {}
    BY Zenon DEF FlattenOwnsNodes
  <1>1. IsTree(orTree) /\ <<>> \in Ors(orTree) /\ freed = OnlyOrs(orTree, <<>>) \ {<<>>}
    BY RootPulled
  <1>2. CellSet(cells) = Tops(orTree, <<>>) /\ InPathOrder(cells) /\ cells \in Seq(DOMAIN orTree)
    BY RootPulled DEF ListOf
  <1> HIDE DEF cells
  <1>3. \A q \in DOMAIN orTree : q \in Seq(Nat) /\ Len(q) \in Nat /\ OnPath(<<>>, q)
    BY <1>1, TreePaths DEF OnPath
  <1>4. \A i \in DOMAIN cells : cells[i] \in Tops(orTree, <<>>)
    BY <1>2 DEF CellSet
  <1>5. ASSUME NEW i \in DOMAIN cells, NEW q \in owned(i)
        PROVE  /\ q \in DOMAIN orTree \ {<<>>}
               /\ q \notin OnlyOrs(orTree, <<>>)
    <2> DEFINE t == cells[i]
    <2>1. /\ q \in DOMAIN orTree /\ t \in DOMAIN orTree
          /\ OnPath(t, q) /\ t \notin Ors(orTree)
      BY <1>4 DEF Tops, NodesBelow
    <2>2. q \notin OnlyOrs(orTree, <<>>)
      BY <1>3, <2>1 DEF OnlyOrs
    <2>3. q # <<>>
      BY <1>1, <2>2, OnlyOrsOfArgs
    <2>4. QED
      BY <2>1, <2>2, <2>3
  <1>6. ASSUME NEW q \in DOMAIN orTree, q \notin OnlyOrs(orTree, <<>>)
        PROVE  \E i \in DOMAIN cells : q \in owned(i)
    <2> DEFINE R == {r \in DOMAIN orTree : OnPath(r, q) /\ r \notin Ors(orTree)}
    <2>1. PICK r \in R : \A s \in R : Len(r) <= Len(s)
      <3> DEFINE L == {Len(r) : r \in R}
      <3>1. L \subseteq Nat
        BY <1>3
      <3>2. R # {}
        BY <1>3, <1>6 DEF OnlyOrs, NodesBelow
      <3>3. L # {}
        BY <3>2
      <3>4. PICK n \in L : \A m \in L : n <= m
        <4> HIDE DEF L
        <4> QED BY <3>1, <3>3, LeastExists
      <3>5. QED
        BY <3>4
    <2>2. ASSUME NEW s \in DOMAIN orTree, OnPath(s, r), s # r
          PROVE  s \in Ors(orTree)
      <3>1. OnPath(s, q)
        BY <1>3, <2>2, PathTrans
      <3>2. Len(s) < Len(r)
        BY <1>3, <2>2, PathSame
      <3>3. QED
        BY <1>3, <2>1, <3>1, <3>2
    <2>3. r \in Tops(orTree, <<>>)
      BY <1>3, <2>2 DEF Tops, NodesBelow
    <2>4. PICK i \in DOMAIN cells : cells[i] = r
      BY <1>2, <2>3 DEF CellSet
    <2>5. q \in owned(i)
      BY <2>4 DEF NodesBelow
    <2>6. QED
      BY <2>5
  <1>7. ASSUME NEW i \in DOMAIN cells, NEW j \in DOMAIN cells, i # j
        PROVE  owned(i) \cap owned(j) = {}
    <2>0. DOMAIN cells \subseteq Nat
      BY <1>2, LenProperties
    <2> SUFFICES ASSUME NEW q \in owned(i), q \in owned(j) PROVE FALSE
      OBVIOUS
    <2> DEFINE s == cells[i]
               t == cells[j]
    <2>1. /\ q \in DOMAIN orTree /\ s \in DOMAIN orTree /\ t \in DOMAIN orTree
          /\ s \in Tops(orTree, <<>>) /\ t \in Tops(orTree, <<>>)
          /\ OnPath(s, q) /\ OnPath(t, q)
      BY <1>4 DEF Tops, NodesBelow
    <2>2. PathsAscend(s, t) \/ PathsAscend(t, s)
      <3>1. i < j \/ j < i
        BY <1>7, <2>0
      <3>2. QED
        BY <1>2, <3>1 DEF InPathOrder
    <2> HIDE DEF s, t
    <2>3. s \in Seq(Nat) /\ t \in Seq(Nat) /\ q \in Seq(Nat) /\ Len(s) \in Nat /\ Len(t) \in Nat
      BY <1>3, <2>1
    <2>4. s # t
      BY <2>2, <2>3 DEF PathsAscend
    <2>5. OnPath(s, t) \/ OnPath(t, s)
      <3>1. Len(s) <= Len(t) \/ Len(t) <= Len(s)
        BY <2>3
      <3>2. QED
        BY <2>1, <2>3, <3>1, PathChain
    <2>6. s \notin Ors(orTree) /\ t \notin Ors(orTree)
      BY <2>1 DEF Tops
    <2>7. QED
      BY <1>3, <2>1, <2>4, <2>5, <2>6 DEF Tops
  <1>8. freed \cup UNION {owned(i) : i \in DOMAIN cells} = DOMAIN orTree \ {<<>>}
    <2>1. freed \subseteq DOMAIN orTree \ {<<>>}
      BY <1>1 DEF OnlyOrs, NodesBelow
    <2>2. UNION {owned(i) : i \in DOMAIN cells} \subseteq DOMAIN orTree \ {<<>>}
      BY <1>5
    <2>3. ASSUME NEW q \in DOMAIN orTree \ {<<>>}
          PROVE  q \in freed \/ \E i \in DOMAIN cells : q \in owned(i)
      BY <1>1, <1>6
    <2> HIDE DEF owned
    <2>4. QED
      BY <2>1, <2>2, <2>3
  <1>9. \A i \in DOMAIN cells : owned(i) \cap freed = {}
    BY <1>1, <1>5
  <1> HIDE DEF owned
  <1>10. QED
    BY <1>7, <1>8, <1>9

\* After pull_ors every node below the OR is freed or belongs to exactly one
\* entry of the list, wherever no OR is empty.
THEOREM FlatteningOwnsNodes == OrSpec => []FlattenOwnsNodes
  BY OrInvariance, NodesOwned, PTL
=============================================================================

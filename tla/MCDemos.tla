------------------------------ MODULE MCDemos ------------------------------
(***************************************************************************)
(* The demos that share nothing, checked in one run: demo tells which of    *)
(* them moves; the others stay where they begin.                            *)
(***************************************************************************)
EXTENDS PipeRing, PipeFifo, Acl, EquivClass, BTreeSearch, Exprs, OrFlatten, VarText

VARIABLE demo

Demos == {"ring", "fifo", "acl", "equiv", "btree", "expr", "or", "text"}

BTreeVaries ==
  \/ demo = "btree"
  \/ scankey = (CHOOSE k \in ScanKeys : TRUE) /\ ~nextkey

MCInit ==
  /\ demo \in Demos
  /\ PipeInit /\ FifoInit /\ AclInit /\ EquivInit
  /\ ExprInit /\ OrInit /\ TextInit
  /\ BTreeInit /\ BTreeVaries

MCNext ==
  \/ /\ demo = "ring" /\ PipeNext
     /\ UNCHANGED <<fifoVars, aclVars, equivVars, btreeVars, exprVars, orVars, textVars>>
  \/ /\ demo = "fifo" /\ FifoNext
     /\ UNCHANGED <<pipeVars, aclVars, equivVars, btreeVars, exprVars, orVars, textVars>>
  \/ /\ demo = "acl" /\ AclNext
     /\ UNCHANGED <<pipeVars, fifoVars, equivVars, btreeVars, exprVars, orVars, textVars>>
  \/ /\ demo = "equiv" /\ EquivNext
     /\ UNCHANGED <<pipeVars, fifoVars, aclVars, btreeVars, exprVars, orVars, textVars>>
  \/ /\ demo = "btree" /\ BTreeNext
     /\ UNCHANGED <<pipeVars, fifoVars, aclVars, equivVars, exprVars, orVars, textVars>>
  \/ /\ demo = "expr" /\ ExprNext
     /\ UNCHANGED <<pipeVars, fifoVars, aclVars, equivVars, btreeVars, orVars, textVars>>
  \/ /\ demo = "or" /\ OrNext
     /\ UNCHANGED <<pipeVars, fifoVars, aclVars, equivVars, btreeVars, exprVars, textVars>>
  \/ /\ demo = "text" /\ TextNext
     /\ UNCHANGED <<pipeVars, fifoVars, aclVars, equivVars, btreeVars, exprVars, orVars>>

MCSpec ==
  MCInit /\ [][MCNext /\ UNCHANGED demo]_<<demo, pipeVars, fifoVars, aclVars,
                equivVars, btreeVars, exprVars, orVars, textVars>>

-----------------------------------------------------------------------------
(* The instances.                                                           *)

MCNone == -1

Leaf(keys, right, hikey) ==
  [leaf |-> TRUE, keys |-> keys, children |-> <<>>,
   right_link |-> right, high_key |-> hikey]

Internal(keys, children, right, hikey) ==
  [leaf |-> FALSE, keys |-> keys, children |-> children,
   right_link |-> right, high_key |-> hikey]

\* create_sample_tree
MCSampleTree ==
  [b \in 0 .. 10 |->
     CASE b = 0  -> Internal(<<50, 100>>, <<1, 2, 3>>, MCNone, MCNone)
       [] b = 1  -> Internal(<<20, 35>>, <<4, 5, 6>>, 2, 50)
       [] b = 2  -> Internal(<<70, 85>>, <<7, 8, 9>>, 3, 100)
       [] b = 3  -> Internal(<<120>>, <<10, 10>>, MCNone, MCNone)
       [] b = 4  -> Leaf(<<5, 10, 15>>, 5, 20)
       [] b = 5  -> Leaf(<<20, 25, 30>>, 6, 35)
       [] b = 6  -> Leaf(<<35, 40, 45>>, 7, 50)
       [] b = 7  -> Leaf(<<50, 55, 60, 65>>, 8, 70)
       [] b = 8  -> Leaf(<<70, 75, 80>>, 9, 85)
       [] b = 9  -> Leaf(<<85, 90, 95>>, 10, 100)
       [] b = 10 -> Leaf(<<100, 110, 115>>, MCNone, MCNone)]

\* Its leaves from left to right.
MCLeafRow == <<4, 5, 6, 7, 8, 9, 10>>

\* Keys of leaves, high keys, keys between, before and after them.
MCScanKeys ==
  {0, 5, 17, 20, 35, 50, 57, 60, 70, 72, 75, 100, 115, 120, 130}

\* What ORs are built over: a variable, and an AND with an OR below it, which
\* must stay where it is.
MCLeaves ==
  {MakeVar("a"),
   MakeBoolExpr("and",
     <<MakeVar("a"),
       MakeBoolExpr("or", <<MakeVar("b"), MakeBoolExpr("not", <<MakeVar("a")>>)>>)>>)}

\* create_test_case1, create_test_case2, create_test_case3: the ORs with at most
\* two arguments and so many ORs above a leaf, the nodes inside one another.
RECURSIVE OrNodes(_)
OrNodes(depth) ==
  {MakeBoolExpr("or", args) : args \in
     UNION {[1 .. k -> MCLeaves \cup (IF depth = 1 THEN {} ELSE OrNodes(depth - 1))]
            : k \in 0 .. MaxArgs}}

RECURSIVE PathsIn(_), NodeAt(_, _)
PathsIn(node) ==
  {<<>>} \cup
  IF ~IsBool(node) THEN {}
  ELSE UNION {{<<i>> \o p : p \in PathsIn(node.args[i])} : i \in DOMAIN node.args}
NodeAt(node, path) ==
  IF path = <<>> THEN node ELSE NodeAt(node.args[Head(path)], Tail(path))

\* The tree of a node: pointers to arguments, no longer the arguments.
TreeOf(node) ==
  [p \in PathsIn(node) |->
     LET at == NodeAt(node, p)
     IN  IF IsBool(at)
         THEN MakeBoolExpr(at.boolop, [i \in DOMAIN at.args |-> Append(p, i)])
         ELSE at]

MCOrTrees == {TreeOf(node) : node \in OrNodes(3)}

MCVarNames == {"a", "b"}

MCStrings == {<<>>, <<"a">>, <<"a", "b", "c">>}
=============================================================================

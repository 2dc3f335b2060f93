----------------------------- MODULE OrFlatten -----------------------------
(***************************************************************************)
(* src/or_flatten: pull_ors takes the arguments of nested ORs up into one   *)
(* list, which it builds with the linked lists of the same file.            *)
(*                                                                          *)
(* A tree tells for every node, which is known by its path, the sequence of *)
(* argument numbers that leads to it from the OR that is flattened, what is *)
(* there: two equal subexpressions are two nodes.                           *)
(***************************************************************************)
EXTENDS Integers, Sequences

CONSTANTS
  OrTrees,    \* the trees that are flattened
  VarNames,
  MaxArgs,    \* bound: arguments of a node
  TreeDepth   \* bound: nodes above a node

\* makeVar, makeBoolExpr.  No arguments stand for args = NULL.
MakeVar(name) == [type |-> "var", varname |-> name]
MakeBoolExpr(boolop, args) == [type |-> "bool", boolop |-> boolop, args |-> args]

IsBool(node) == node.type = "bool"

\* Mutant: the operator is not looked at.
IsOrClauseAny(node) == IsBool(node)

\* is_orclause
IsOrClause(node) == IsBool(node) /\ node.boolop = "or"

Ors(tree) == {p \in DOMAIN tree : IsOrClause(tree[p])}

\* The node at p is the one at q or above it.
OnPath(p, q) == Len(p) <= Len(q) /\ \A k \in 1 .. Len(p) : p[k] = q[k]

\* The arguments of the node at path are the next nodes of the paths through it.
IsNode(tree, path) ==
  \/ \E name \in VarNames : tree[path] = MakeVar(name)
  \/ \E boolop \in {"or", "and", "not"}, n \in 0 .. MaxArgs :
       /\ tree[path] = MakeBoolExpr(boolop, [i \in 1 .. n |-> Append(path, i)])
       /\ boolop = "not" => n = 1
       /\ \A i \in 1 .. n : Append(path, i) \in DOMAIN tree

IsTree(tree) ==
  /\ tree = [p \in DOMAIN tree |-> tree[p]]
  /\ <<>> \in Ors(tree)
  /\ \A p \in DOMAIN tree :
       /\ p \in Seq(Nat) /\ Len(p) <= TreeDepth
       /\ IsNode(tree, p)
       /\ \A q \in DOMAIN tree :
            OnPath(p, q) /\ p # q =>
              IsBool(tree[p]) /\ q[Len(p) + 1] \in DOMAIN tree[p].args

ASSUME OrAssumption ==
  MaxArgs \in Nat /\ TreeDepth \in Nat /\ \A tree \in OrTrees : IsTree(tree)

VARIABLES
  orTree,     \* the OR that is flattened
  flattened,  \* the list that pull_ors returns
  freed       \* the nodes that pull_ors frees

orVars == <<orTree, flattened, freed>>

-----------------------------------------------------------------------------
(* Lists: the cells that can be reached from head, whether tail is not NULL *)
(* (it is then the last cell), and the length field.  NULL has no cells.    *)

NullList == [null |-> TRUE, cells |-> <<>>, tail |-> FALSE, length |-> 0]
EmptyList == [NullList EXCEPT !.null = FALSE]

\* lappend.  Without a tail the new cell becomes the head.
LAppend(list, datum) ==
  [null |-> FALSE, tail |-> TRUE, length |-> list.length + 1,
   cells |-> IF list.tail THEN Append(list.cells, datum) ELSE <<datum>>]

\* Mutant: the last cell of the first list is not linked to the second.
ListConcatUnlinked(list1, list2) ==
  IF list1.null THEN list2
  ELSE IF list2.null THEN list1
  ELSE [list1 EXCEPT !.tail = list2.tail, !.length = @ + list2.length]

\* list_concat.  The tail is the second list's, NULL when that is empty.
ListConcat(list1, list2) ==
  IF list1.null THEN list2
  ELSE IF list2.null THEN list1
  ELSE [null |-> FALSE, tail |-> list2.tail,
        length |-> list1.length + list2.length,
        cells |-> IF list1.tail THEN list1.cells \o list2.cells ELSE list2.cells]

-----------------------------------------------------------------------------

\* The loop of pull_ors over args, where sub is what the calls for ORs among
\* them return: the list and the nodes freed so far.
Gather(tree, args, sub) ==
  LET out[i \in 0 .. Len(args)] ==
        IF i = 0 THEN [list |-> EmptyList, freed |-> {}]
        ELSE LET before == out[i - 1]
                 below  == sub[args[i]]
             IN  IF IsOrClause(tree[args[i]])
                 THEN [list |-> ListConcat(before.list, below.list),
                       freed |-> before.freed \cup below.freed \cup {args[i]}]
                 ELSE [list |-> LAppend(before.list, args[i]), freed |-> before.freed]
  IN  out[Len(args)]

\* pull_ors of a copy of the arguments of every OR.
PullOrs(tree) ==
  LET pulled[p \in Ors(tree)] ==
        LET args == tree[p].args
        IN  IF args = <<>> THEN [list |-> NullList, freed |-> {}]
            ELSE Gather(tree, args,
                   [q \in {args[i] : i \in DOMAIN args} \cap Ors(tree) |-> pulled[q]])
  IN  pulled

OrInit ==
  /\ orTree = [p \in {<<>>} |-> MakeBoolExpr("or", <<>>)]
  /\ flattened = NullList /\ freed = {}

Flatten ==
  /\ orTree[<<>>].args = <<>>
  /\ orTree' \in OrTrees
  /\ LET pulled == PullOrs(orTree')[<<>>]
     IN  flattened' = pulled.list /\ freed' = pulled.freed

OrNext == Flatten

OrSpec == OrInit /\ [][OrNext]_orVars

-----------------------------------------------------------------------------
(* Properties.                                                              *)

\* SQL truth values.
Truth == {"true", "false", "null"}
OrOf(values) ==
  IF "true" \in values THEN "true" ELSE IF "null" \in values THEN "null" ELSE "false"
AndOf(values) ==
  IF "false" \in values THEN "false" ELSE IF "null" \in values THEN "null" ELSE "true"
NotOf(v) ==
  IF v = "true" THEN "false" ELSE IF v = "false" THEN "true" ELSE "null"

\* The truth value of every node in a row.
TruthOf(tree, row) ==
  LET value[p \in DOMAIN tree] ==
        IF ~IsBool(tree[p]) THEN row[tree[p].varname]
        ELSE LET values == {value[tree[p].args[i]] : i \in DOMAIN tree[p].args}
             IN  IF tree[p].boolop = "or" THEN OrOf(values)
                 ELSE IF tree[p].boolop = "and" THEN AndOf(values)
                 ELSE NotOf(CHOOSE v \in values : TRUE)
  IN  value

\* An OR without arguments, below ORs only.
HasEmptyOr(tree) ==
  \E p \in Ors(tree) :
    /\ tree[p].args = <<>>
    /\ \A q \in DOMAIN tree : OnPath(q, p) => q \in Ors(tree)

\* The node at p is to the left of the one at q.
PathsAscend(p, q) ==
  \E n \in 1 .. Len(p) : /\ n <= Len(q) /\ p[n] < q[n]
                         /\ \A k \in 1 .. n - 1 : p[k] = q[k]

\* However ORs are nested, the flattened list is an OR of the same truth value
\* as the tree in every row, NULLs included, has no OR on top, keeps the order
\* of the arguments (that of their paths) and counts its cells right.  An OR
\* without arguments may break this: an empty list that is joined on leaves no
\* tail, and what comes next replaces what was there.
FlattenKeepsMeaning ==
  ~HasEmptyOr(orTree) =>
    LET cells == flattened.cells
    IN  /\ \A row \in [VarNames -> Truth] :
             OrOf({TruthOf(orTree, row)[cells[i]] : i \in DOMAIN cells})
               = TruthOf(orTree, row)[<<>>]
        /\ \A i \in DOMAIN cells : cells[i] \notin Ors(orTree)
        /\ \A i, j \in DOMAIN cells : i < j => PathsAscend(cells[i], cells[j])
        /\ flattened.length = Len(cells)

\* The nodes at and below a path.
NodesBelow(tree, path) == {q \in DOMAIN tree : OnPath(path, q)}

\* After pull_ors the flattened list owns all there is to free: every node
\* below the OR is either freed already (the nested ORs) or belongs to exactly
\* one entry of the list.  The original tree, which still points to all of
\* them, must not be freed as well.
FlattenOwnsNodes ==
  ~HasEmptyOr(orTree) =>
    LET cells == flattened.cells
        owned(i) == NodesBelow(orTree, cells[i])
    IN  /\ freed \cup UNION {owned(i) : i \in DOMAIN cells} = DOMAIN orTree \ {<<>>}
        /\ \A i \in DOMAIN cells :
             /\ owned(i) \cap freed = {}
             /\ \A j \in DOMAIN cells : i # j => owned(i) \cap owned(j) = {}
=============================================================================

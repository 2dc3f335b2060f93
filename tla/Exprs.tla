------------------------------- MODULE Exprs -------------------------------
(***************************************************************************)
(* src/expr_demo: an arithmetic expression is evaluated over its tree, and  *)
(* over the instructions that the tree is compiled to.  The doubles are the *)
(* field of P elements: every operation is exact and every number but zero  *)
(* divides.                                                                 *)
(***************************************************************************)
EXTENDS Integers, Sequences

CONSTANTS
  P,           \* a prime
  Names,       \* of variables
  Used,        \* bound: those that expressions name
  Assigned,    \* bound: the values assigned to variables
  Constants,   \* bound: the constants of expressions
  VarCount,    \* the size of a context
  Nesting      \* bound: operators above an operand

ASSUME ExprAssumption ==
  /\ P \in Nat \ {0, 1}
  /\ Assigned \cup Constants \subseteq 0 .. P - 1
  /\ Used \subseteq Names
  /\ VarCount \in Nat /\ Nesting \in Nat
  /\ \A b \in 1 .. P - 1, a \in 0 .. P - 1 : \E q \in 0 .. P - 1 : (q * b) % P = a

Operators == {"add", "sub", "mul", "div"}

\* create_const_node, create_var_node, create_op_node
ConstNode(v) == [type |-> "const", value |-> v]
VarNode(name) == [type |-> "var", name |-> name]
OpNode(op, left, right) == [type |-> op, left |-> left, right |-> right]

OperandNodes == {ConstNode(v) : v \in Constants} \cup {VarNode(name) : name \in Used}

OpNodesAbove(S) == {OpNode(op, l, r) : op \in Operators, l, r \in S}

\* The trees with at most so many operators above an operand.
Nodes[depth \in 0 .. Nesting] ==
  OperandNodes \cup IF depth = 0 THEN {} ELSE OpNodesAbove(Nodes[depth - 1])

Trees == Nodes[Nesting]

VARIABLES
  context,       \* the variables set, in the order of the array
  expr,          \* the tree; NoExpr before there is one
  instructions,  \* what it is compiled to
  operands,      \* the stack of evaluate_flat
  flat           \* "setting", "running", or the result of evaluate_flat

exprVars == <<context, expr, instructions, operands, flat>>

NoExpr == [type |-> "none"]

ExprInit ==
  /\ context = <<>>
  /\ expr = NoExpr /\ instructions = <<>> /\ operands = <<>>
  /\ flat = [status |-> "setting"]

-----------------------------------------------------------------------------

Slots(ctx, name) == {i \in DOMAIN ctx : ctx[i].name = name}

\* set_variable: the variable's slot or else the first free one; an error
\* message when there is neither.
SetVariable(name, v) ==
  /\ flat.status = "setting"
  /\ context' = IF Slots(context, name) # {}
                THEN [i \in DOMAIN context |->
                        IF i \in Slots(context, name) THEN [name |-> name, value |-> v]
                        ELSE context[i]]
                ELSE IF Len(context) < VarCount
                THEN Append(context, [name |-> name, value |-> v])
                ELSE context
  /\ UNCHANGED <<expr, instructions, operands, flat>>

\* get_variable: 0 for a variable that is not set.
GetVariable(ctx, name) ==
  IF Slots(ctx, name) = {} THEN 0
  ELSE ctx[CHOOSE i \in Slots(ctx, name) : TRUE].value

Quotient(a, b) == CHOOSE q \in 0 .. P - 1 : (q * b) % P = a

\* a op b where b is no zero divisor.
Apply(op, a, b) ==
  CASE op = "add" -> (a + b) % P
    [] op = "sub" -> (a - b) % P
    [] op = "mul" -> (a * b) % P
    [] op = "div" -> Quotient(a, b)

\* A constant or a variable.
Worth(ctx, node) == IF node.type = "const" THEN node.value ELSE GetVariable(ctx, node.name)

\* evaluate_tree: a zero divisor makes the quotient 0.
EvaluateTree(ctx) ==
  LET value[node \in Trees] ==
        IF node.type \notin Operators THEN Worth(ctx, node)
        ELSE IF node.type = "div" /\ value[node.right] = 0 THEN 0
        ELSE Apply(node.type, value[node.left], value[node.right])
  IN  value

\* compile_tree_to_flat: the operands before the operator.
CompileTreeToFlat[node \in Trees] ==
  IF node.type \in Operators
  THEN CompileTreeToFlat[node.left] \o CompileTreeToFlat[node.right]
         \o <<[op |-> node.type]>>
  ELSE <<[op |-> "load", node |-> node]>>

Compile ==
  /\ flat.status = "setting"
  /\ expr' \in Trees
  /\ instructions' = CompileTreeToFlat[expr']
  /\ flat' = [status |-> "running"]
  /\ UNCHANGED <<context, operands>>

-----------------------------------------------------------------------------
(* The loop of evaluate_flat.                                               *)

\* Mutant: the first value popped is taken for the left operand.
PoppedSwapped == <<operands[Len(operands)], operands[Len(operands) - 1]>>

\* The left and the right operand: b is popped before a.
Popped == <<operands[Len(operands) - 1], operands[Len(operands)]>>

\* Mutant: only one operand is taken off the stack.
BelowFirst == SubSeq(operands, 1, Len(operands) - 1)

\* What is below the two operands.
Below == SubSeq(operands, 1, Len(operands) - 2)

\* The next instruction, which the loop leaves behind.
Current(op) ==
  /\ flat.status = "running" /\ instructions # <<>>
  /\ Head(instructions).op = op
  /\ instructions' = Tail(instructions)
  /\ UNCHANGED <<context, expr>>

Load ==
  /\ Current("load")
  /\ operands' = Append(operands, Worth(context, Head(instructions).node))
  /\ UNCHANGED flat

Operate(op) ==
  /\ Current(op)
  /\ \/ /\ op # "div" \/ Popped[2] # 0
        /\ operands' = Append(Below, Apply(op, Popped[1], Popped[2]))
        /\ UNCHANGED flat
     \/ /\ op = "div" /\ Popped[2] = 0
        /\ operands' = <<>>
        /\ flat' = [status |-> "result", value |-> 0]

\* An unbalanced stack is an error with the result 0.
Finish ==
  /\ flat.status = "running" /\ instructions = <<>>
  /\ flat' = [status |-> "result", value |-> IF Len(operands) = 1 THEN Head(operands) ELSE 0]
  /\ operands' = <<>>
  /\ UNCHANGED <<context, expr, instructions>>

ExprNext ==
  \/ \E name \in Names, v \in Assigned : SetVariable(name, v)
  \/ Compile \/ Load \/ Finish
  \/ \E op \in Operators : Operate(op)

ExprSpec == ExprInit /\ [][ExprNext]_exprVars

-----------------------------------------------------------------------------
(* Properties.                                                              *)

\* Some division that evaluate_tree comes to has a zero divisor.
DividesByZero(ctx) ==
  LET zero[node \in Trees] ==
        /\ node.type \in Operators
        /\ \/ node.type = "div" /\ EvaluateTree(ctx)[node.right] = 0
           \/ zero[node.left] \/ zero[node.right]
  IN  zero

\* Both evaluations of every expression give the same number, whatever the
\* variables are and whether they are set: the operands come off the stack in
\* the order of the tree.  They part where a divisor is zero: over the tree
\* only that quotient becomes 0, over the instructions the whole result.
EvaluatorsAgree ==
  flat.status = "result" =>
    flat.value = IF DividesByZero(context)[expr] THEN 0 ELSE EvaluateTree(context)[expr]

Height[node \in Trees] ==
  IF node.type \notin Operators THEN 0
  ELSE LET l == Height[node.left]
           r == Height[node.right]
       IN  1 + (IF l < r THEN r ELSE l)

\* The stack, whose 1000 elements nothing checks, holds one operand more than
\* there are operators above an operand at most.
StackSuffices ==
  flat.status = "running" => Len(operands) <= Height[expr] + 1
=============================================================================

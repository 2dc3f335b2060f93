----------------------------- MODULE EquivClass -----------------------------
(***************************************************************************)
(* src/EquivalenceClass/equivalence_class_demo.c: equality clauses are taken *)
(* one after the other into equivalence classes, from which equalities with *)
(* a constant and join conditions are generated.                            *)
(***************************************************************************)
EXTENDS Integers, Sequences

CONSTANTS
  Vars,        \* the attributes that clauses name
  Far,         \* those of a relation that bms_make_singleton cannot hold
  Consts,      \* the constants that clauses name
  Values,      \* what an attribute may be
  MaxClauses   \* bound: clauses processed

ASSUME EquivAssumption ==
  /\ Vars \cap Consts = {}
  /\ Far \subseteq Vars
  /\ Consts \subseteq Values
  /\ MaxClauses \in Nat

Items == Vars \cup Consts

\* The members of an equivalence class in the order in which they were added,
\* and the numbers of the clauses in ec_sources.
Classes == [members : Seq(Items), sources : SUBSET Nat]

VARIABLES
  eq_classes,  \* the list of classes
  clauses,     \* history: the clauses processed, pairs of items
  marks        \* for each clause the class that left_ec and right_ec name,
               \* 0 for NULL

equivVars == <<eq_classes, clauses, marks>>

EquivInit == eq_classes = <<>> /\ clauses = <<>> /\ marks = <<>>

-----------------------------------------------------------------------------

\* add_eq_member: no relation, no variable.  bms_make_singleton leaves the set
\* empty for a relation above 127, so its attributes count as constants.
IsConst(item) == item \in Consts \cup Far

\* Mutant: any two constants match.
HoldsAnyConst(c, item) ==
  \E i \in DOMAIN eq_classes[c].members :
    \/ eq_classes[c].members[i] = item
    \/ IsConst(eq_classes[c].members[i]) /\ IsConst(item)

\* The comparison of an item with the members of a class.
Holds(c, item) ==
  \E i \in DOMAIN eq_classes[c].members : eq_classes[c].members[i] = item

\* The search: the first class with a member that equals the item, 0 for none.
ClassOf(item) ==
  LET found == {c \in DOMAIN eq_classes : Holds(c, item)}
  IN  IF found = {} THEN 0
      ELSE CHOOSE c \in found : \A d \in found : c <= d

AddSource(ec, n) == [ec EXCEPT !.sources = @ \cup {n}]

AddMember(ec, item, n) ==
  AddSource([ec EXCEPT !.members = Append(@, item)], n)

\* process_equivalence_demo.  Two different classes stay as they are: merging
\* is left out of the demo.  Only a class that was found is marked.
ProcessEquivalence(item1, item2) ==
  LET n   == Len(clauses) + 1
      ec1 == ClassOf(item1)
      ec2 == ClassOf(item2)
  IN  /\ clauses' = Append(clauses, <<item1, item2>>)
      /\ marks' = Append(marks, IF ec1 # 0 THEN ec1 ELSE ec2)
      /\ \/ /\ ec1 # 0 /\ ec1 = ec2
            /\ eq_classes' = [eq_classes EXCEPT ![ec1] = AddSource(@, n)]
         \/ /\ ec1 # 0 /\ ec2 # 0 /\ ec1 # ec2
            /\ UNCHANGED eq_classes
         \/ /\ ec1 # 0 /\ ec2 = 0
            /\ eq_classes' = [eq_classes EXCEPT ![ec1] = AddMember(@, item2, n)]
         \/ /\ ec1 = 0 /\ ec2 # 0
            /\ eq_classes' = [eq_classes EXCEPT ![ec2] = AddMember(@, item1, n)]
         \/ /\ ec1 = 0 /\ ec2 = 0
            /\ eq_classes' = Append(eq_classes,
                 [members |-> <<item1, item2>>, sources |-> {n}])

EquivNext ==
  /\ Len(clauses) < MaxClauses
  /\ \E item1, item2 \in Items : ProcessEquivalence(item1, item2)

EquivSpec == EquivInit /\ [][EquivNext]_equivVars

-----------------------------------------------------------------------------
(* Generated conditions, pairs of items that are to be equal.               *)

\* The first constant of a class with one (ec_has_const).
ConstIndices(ec) == {i \in DOMAIN ec.members : IsConst(ec.members[i])}
FirstConst(ec) ==
  ec.members[CHOOSE i \in ConstIndices(ec) : \A j \in ConstIndices(ec) : i <= j]

\* Mutant: only the members behind the constant.
ImpliedAfterConst(ec) ==
  {<<ec.members[i], FirstConst(ec)>> :
     i \in {j \in DOMAIN ec.members \ ConstIndices(ec) :
             \E k \in ConstIndices(ec) : k < j}}

\* generate_implied_equalities_demo
ImpliedEqualities(ec) ==
  IF ConstIndices(ec) = {} THEN {}
  ELSE {<<ec.members[i], FirstConst(ec)>> :
          i \in DOMAIN ec.members \ ConstIndices(ec)}

\* generate_join_equalities_demo: a pair of positions, neither a constant.
JoinEqualities(ec) ==
  LET open == DOMAIN ec.members \ ConstIndices(ec)
  IN  {<<ec.members[p[1]], ec.members[p[2]]>> :
         p \in {q \in open \X open : q[1] < q[2]}}

Generated == UNION {ImpliedEqualities(eq_classes[c]) \cup
                    JoinEqualities(eq_classes[c]) : c \in DOMAIN eq_classes}

-----------------------------------------------------------------------------
(* Properties.                                                              *)

EquivTypeOK ==
  /\ eq_classes \in Seq(Classes)
  /\ clauses \in Seq(Items \X Items)
  /\ marks \in Seq(Nat)

\* What an item is under a row, and whether a row satisfies an equality.
Rows == [Vars -> Values]
ValueIn(row, item) == IF item \in Vars THEN row[item] ELSE item
Satisfies(row, eq) == ValueIn(row, eq[1]) = ValueIn(row, eq[2])
SatisfiesClauses(row) == \A n \in DOMAIN clauses : Satisfies(row, clauses[n])

\* An item is in one class at most: the search, which stops at the first class
\* that has it, cannot find another one later.
ClassesDisjoint ==
  \A c, d \in DOMAIN eq_classes : \A item \in Items :
    Holds(c, item) /\ Holds(d, item) => c = d

\* No row that satisfies the clauses is lost by the generated conditions:
\* whatever the order of the clauses, members of a class are equal in every
\* row the clauses let pass, and so are the two sides of a condition.
OutputsFollow ==
  \A row \in Rows : SatisfiesClauses(row) =>
    \A eq \in Generated : Satisfies(row, eq)

Skipped(n) == \A c \in DOMAIN eq_classes : n \notin eq_classes[c].sources

\* A class whose constants are all one and the same item.
OneConst(ec) ==
  \A i, j \in ConstIndices(ec) : ec.members[i] = ec.members[j]

\* A clause can be dropped in favour of the generated conditions when it was
\* not skipped (its sides in two classes) and its class has at most one
\* constant: every row that passes the conditions passes the clause.
OutputsSuffice ==
  \A row \in Rows : (\A eq \in Generated : Satisfies(row, eq)) =>
    \A n \in DOMAIN clauses :
      \/ Satisfies(row, clauses[n])
      \/ Skipped(n)
      \/ \E c \in DOMAIN eq_classes : /\ n \in eq_classes[c].sources
                                      /\ ~OneConst(eq_classes[c])

\* The class a clause is marked with is the one that has it as a source; a
\* clause that founded a class is not marked at all, and one that was skipped
\* is marked with the class of its left side, which its right side is not in.
MarksNameSources ==
  \A n \in DOMAIN clauses :
    LET left == clauses[n][1]
        right == clauses[n][2]
    IN  IF Skipped(n)
        THEN /\ marks[n] # 0
             /\ Holds(marks[n], left) /\ ~Holds(marks[n], right)
        ELSE \E c \in DOMAIN eq_classes :
               /\ n \in eq_classes[c].sources /\ marks[n] \in {0, c}
               /\ Holds(c, left) /\ Holds(c, right)
=============================================================================

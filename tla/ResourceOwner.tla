----------------------------- MODULE ResourceOwner -----------------------------
(***************************************************************************)
(* src/ResourceOwner_management (resource_owner.h, resource_owner.cpp and   *)
(* the clients in main.cpp): a tree of owners below the owner of the top    *)
(* transaction, each holding resources that are released with it.           *)
(*                                                                          *)
(* Owners and resources are numbered in the order in which they are made.   *)
(* The five kinds of resources are treated alike.  A client passes the      *)
(* pointer of a savepoint that has not been deleted: anything else is       *)
(* undefined in C++.                                                        *)
(***************************************************************************)
EXTENDS Integers

CONSTANTS
  MaxOwners,    \* bound: owners constructed
  MaxResources  \* bound: resources acquired

ASSUME BoundsAssumption == MaxOwners \in Nat /\ MaxResources \in Nat

Owners == 1 .. MaxOwners
NoOwner == 0
Resources == 1 .. MaxResources

VARIABLES
  live,        \* owners constructed and not deleted
  made,        \* owners constructed so far
  parent, children,
  held,        \* the resource arrays of an owner
  queries,     \* owners that clients construct for one query
  TopTransactionResourceOwner, CurrentResourceOwner,
  taken        \* resources acquired so far

tree == <<live, made, parent, children, queries>>
vars == <<tree, held, TopTransactionResourceOwner, CurrentResourceOwner, taken>>

Init ==
  /\ live = {} /\ made = 0
  /\ parent = [o \in Owners |-> NoOwner]
  /\ children = [o \in Owners |-> {}]
  /\ held = [o \in Owners |-> {}]
  /\ queries = {}
  /\ TopTransactionResourceOwner = NoOwner
  /\ CurrentResourceOwner = NoOwner
  /\ taken = 0

\* the owners that a recursion over children visits
Subtree(owner) ==
  LET below[o \in Owners] == {o} \cup UNION {below[c] : c \in children[o]}
  IN  below[owner]

-----------------------------------------------------------------------------
(* ResourceOwner.                                                           *)

\* the constructor
Construct(p, isQuery) ==
  LET o == made + 1 IN
  /\ made < MaxOwners
  /\ made' = o
  /\ live' = live \cup {o}
  /\ parent' = [parent EXCEPT ![o] = p]
  /\ children' = IF p = NoOwner THEN children
                 ELSE [children EXCEPT ![p] = @ \cup {o}]
  /\ queries' = IF isQuery THEN queries \cup {o} ELSE queries

\* releaseAllResources of every owner in roots
Release(roots) ==
  LET all == UNION {Subtree(o) : o \in roots}
  IN  held' = [o \in Owners |-> IF o \in all THEN {} ELSE held[o]]

\* Mutant: the parent keeps the pointer of the deleted child.
UnlinkForgotten(o) == UNCHANGED children

\* removeChild in the parent of o
Unlink(o) ==
  children' = IF parent[o] = NoOwner THEN children
              ELSE [children EXCEPT ![parent[o]] = @ \ {o}]

\* Mutant: the destructor does not delete the children.
DestroyAlone(o) ==
  /\ Release({o})
  /\ live' = live \ {o}
  /\ Unlink(o)
  /\ UNCHANGED <<made, parent, queries>>

\* the destructor
Destroy(o) ==
  /\ Release({o})
  /\ live' = live \ Subtree(o)
  /\ Unlink(o)
  /\ UNCHANGED <<made, parent, queries>>

\* remember...: a resource that no owner has had
Remember ==
  /\ taken < MaxResources
  /\ taken' = taken + 1
  /\ \E o \in {CurrentResourceOwner, TopTransactionResourceOwner} \ {NoOwner} :
       held' = [held EXCEPT ![o] = @ \cup {taken'}]
  /\ UNCHANGED <<tree, TopTransactionResourceOwner, CurrentResourceOwner>>

\* forget... by the current owner; it returns false if the owner lacks it
Forget(r) ==
  /\ CurrentResourceOwner # NoOwner
  /\ held' = [held EXCEPT ![CurrentResourceOwner] = @ \ {r}]
  /\ UNCHANGED <<tree, TopTransactionResourceOwner, CurrentResourceOwner, taken>>

-----------------------------------------------------------------------------
(* Transactions.                                                            *)

\* startTransaction outside a transaction
StartTransaction ==
  /\ TopTransactionResourceOwner = NoOwner
  /\ Construct(NoOwner, FALSE)
  /\ TopTransactionResourceOwner' = made' /\ CurrentResourceOwner' = made'
  /\ UNCHANGED <<held, taken>>

\* startTransaction in a transaction: the old one is cleaned up first
RestartTransaction ==
  /\ TopTransactionResourceOwner # NoOwner
  /\ made < MaxOwners
  /\ made' = made + 1
  /\ Release({TopTransactionResourceOwner})
  /\ live' = (live \ Subtree(TopTransactionResourceOwner)) \cup {made'}
  /\ TopTransactionResourceOwner' = made' /\ CurrentResourceOwner' = made'
  /\ UNCHANGED <<parent, children, queries, taken>>

\* commitTransaction and abortTransaction: what they do to the owners is the
\* same, the check for leaks comes after the arrays were cleared
EndTransaction ==
  /\ TopTransactionResourceOwner # NoOwner
  /\ Destroy(TopTransactionResourceOwner)
  /\ TopTransactionResourceOwner' = NoOwner /\ CurrentResourceOwner' = NoOwner
  /\ UNCHANGED taken

-----------------------------------------------------------------------------
(* Savepoints and the queries of main.cpp.                                  *)

Savepoints == live \ (queries \cup {TopTransactionResourceOwner})

\* createSavepoint, or the owner that a query of main.cpp constructs
Nest(isQuery) ==
  /\ CurrentResourceOwner # NoOwner
  /\ Construct(CurrentResourceOwner, isQuery)
  /\ CurrentResourceOwner' = made'
  /\ UNCHANGED <<held, TopTransactionResourceOwner, taken>>

CreateSavepoint == Nest(FALSE)
BeginQuery == Nest(TRUE)

\* Mutant: the parent is released too.
ReleasedByRollbackToo(s) == {parent[s]} \ {NoOwner}

\* the siblings of the savepoint; its own resources and children are kept
ReleasedByRollback(s) ==
  IF parent[s] = NoOwner THEN {} ELSE children[parent[s]] \ {s}

RollbackToSavepoint(s) ==
  /\ s \in Savepoints
  /\ Release(ReleasedByRollback(s))
  /\ CurrentResourceOwner' = s
  /\ UNCHANGED <<tree, TopTransactionResourceOwner, taken>>

CurrentAfterRelease(s) ==
  IF parent[s] # NoOwner THEN parent[s] ELSE TopTransactionResourceOwner

ReleaseSavepoint(s) ==
  /\ s \in Savepoints
  /\ CurrentResourceOwner' = CurrentAfterRelease(s)
  /\ Destroy(s)
  /\ UNCHANGED <<TopTransactionResourceOwner, taken>>

\* a query of main.cpp ends: it deletes the current owner, which is its own
EndQuery ==
  /\ CurrentResourceOwner \in queries
  /\ CurrentResourceOwner' = parent[CurrentResourceOwner]
  /\ Destroy(CurrentResourceOwner)
  /\ UNCHANGED <<TopTransactionResourceOwner, taken>>

Next ==
  \/ StartTransaction \/ RestartTransaction \/ EndTransaction
  \/ CreateSavepoint \/ BeginQuery \/ EndQuery
  \/ \E s \in Owners : RollbackToSavepoint(s) \/ ReleaseSavepoint(s)
  \/ Remember \/ \E r \in Resources : Forget(r)

Spec == Init /\ [][Next]_vars
-----------------------------------------------------------------------------
(* Properties.                                                              *)

TypeOK ==
  /\ made \in 0 .. MaxOwners /\ live \subseteq 1 .. made
  /\ parent \in [Owners -> Owners \cup {NoOwner}]
  /\ children \in [Owners -> SUBSET Owners]
  /\ held \in [Owners -> SUBSET Resources]
  /\ queries \subseteq 1 .. made
  /\ TopTransactionResourceOwner \in Owners \cup {NoOwner}
  /\ CurrentResourceOwner \in Owners \cup {NoOwner}
  /\ taken \in 0 .. MaxResources

\* The two directions of the tree agree, and a live owner points to no deleted
\* one: the recursive release and the destructor follow no dangling pointer.
\* CurrentResourceOwner does not dangle either, whatever is released around it,
\* and is NULL exactly outside of transactions.
TreeConsistent ==
  /\ TypeOK
  /\ \A o \in live :
       /\ children[o] = {c \in live : parent[c] = o}
       /\ parent[o] \in live \cup {NoOwner}
  /\ CurrentResourceOwner \in live \cup {NoOwner}
  /\ CurrentResourceOwner = NoOwner <=> TopTransactionResourceOwner = NoOwner

\* Owners and resources do not outlive their transaction: every live owner is
\* below the top one, and only live owners hold anything.
NothingOutlivesTransaction ==
  /\ live = IF TopTransactionResourceOwner = NoOwner THEN {}
            ELSE Subtree(TopTransactionResourceOwner)
  /\ \A o \in Owners \ live : held[o] = {}

Enclosing(s) == {o \in live \ {s} : s \in Subtree(o)}

\* Going back to a savepoint or releasing one never takes a resource from the
\* owners that enclose it.
EnclosingKeepTheirs ==
  [][\A s \in Owners :
       RollbackToSavepoint(s) \/ ReleaseSavepoint(s)
         => \A o \in Enclosing(s) : held'[o] = held[o]]_vars

\* "Find all child savepoints of the savepoint and release their resources"
\* (resource_owner.cpp:270): after a rollback to it, a savepoint that was
\* created within it holds nothing.
RollbackReleasesInner ==
  [][\A s \in Owners :
       RollbackToSavepoint(s)
         => \A o \in children[s] \cap Savepoints : held'[o] = {}]_vars
=============================================================================

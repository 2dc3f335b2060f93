-------------------------------- MODULE Acl --------------------------------
(***************************************************************************)
(* src/acl_demo: roles and their members, the access control lists of a     *)
(* table and of its columns, grants, revokes and the checks over them.      *)
(*                                                                          *)
(* An AclMode is a set of privileges and grant options in place of a mask   *)
(* of bits.  There is one table; its columns are members of Columns.  The   *)
(* lists are sequences, searched from the front as the arrays are.          *)
(***************************************************************************)
EXTENDS Integers, Sequences, SequencesExt

CONSTANTS
  Roles,      \* the roles that add_role created
  PUBLIC,     \* ACL_ID_PUBLIC, which is no role
  Columns,
  Owner,      \* the owner of the table
  Privileges, \* ACL_SELECT, ACL_UPDATE, ...
  GrantOptions,
  Grantors,   \* bound: who grants
  Asked,      \* bound: the masks granted and revoked in one call
  MaxEntries  \* bound: entries of all the lists and memberships together

ASSUME AclAssumption ==
  /\ PUBLIC \notin Roles
  /\ Owner \in Roles /\ IsFiniteSet(Roles)
  /\ Privileges \cap GrantOptions = {}
  /\ Grantors \subseteq Roles
  /\ Asked \subseteq SUBSET (Privileges \cup GrantOptions)
  /\ MaxEntries \in Nat

Table == "table"
Objects == {Table} \cup Columns
Modes == SUBSET (Privileges \cup GrantOptions)
Grantees == Roles \cup {PUBLIC}
AclItem == [grantee : Grantees, grantor : Grantors, privs : Modes]

VARIABLES
  members,  \* members[r]: the list of the members of role r
  acl,      \* acl[o]: the entries of object o
  ledger    \* history: what has been granted and not revoked, by object,
            \* grantee and grantor

aclVars == <<members, acl, ledger>>

\* Parties of an entry.
Parties == Grantees \X Grantors

AclInit ==
  /\ members = [r \in Roles |-> <<>>]
  /\ acl = [o \in Objects |-> <<>>]
  /\ ledger = [o \in Objects |-> [p \in Parties |-> {}]]

-----------------------------------------------------------------------------
(* Changes.                                                                 *)

ItemOf(item, p) == item.grantee = p[1] /\ item.grantor = p[2]

\* add_role_member: the role is the first one with that id; nothing looks for
\* cycles or repetitions.
AddRoleMember(r, m) ==
  /\ members' = [members EXCEPT ![r] = Append(@, m)]
  /\ UNCHANGED <<acl, ledger>>

\* add_acl_item, add_column_acl_item: a new entry at the end, whether or not
\* the parties have one.
AddItem(o, p, privs) ==
  /\ acl' = [acl EXCEPT ![o] =
               Append(@, [grantee |-> p[1], grantor |-> p[2], privs |-> privs])]
  /\ ledger' = [ledger EXCEPT ![o][p] = @ \cup privs]
  /\ UNCHANGED members

\* Where the first entry of the parties is; 0 when they have none.
Entry(o, p) ==
  LET found == {i \in DOMAIN acl[o] : ItemOf(acl[o][i], p)}
  IN  IF found = {} THEN 0
      ELSE CHOOSE i \in found : \A j \in found : i <= j

\* The first entry of the parties holds privs from now on.
SetEntry(o, p, privs) ==
  acl' = [acl EXCEPT ![o][Entry(o, p)].privs = privs]

\* Mutant: a second grant replaces the first.
GrantedOver(old, privs) == privs

\* acl.items[i].privs |= privs
Granted(old, privs) == old \cup privs

\* grant_object_permission, grant_column_permission
Grant(o, p, privs) ==
  \/ /\ Entry(o, p) # 0
     /\ SetEntry(o, p, Granted(acl[o][Entry(o, p)].privs, privs))
     /\ ledger' = [ledger EXCEPT ![o][p] = @ \cup privs]
     /\ UNCHANGED members
  \/ /\ Entry(o, p) = 0
     /\ AddItem(o, p, privs)

\* revoke_object_permission, revoke_column_permission: the entry stays, with
\* what is left.
Revoke(o, p, privs) ==
  /\ ledger' = [ledger EXCEPT ![o][p] = @ \ privs]
  /\ \/ /\ Entry(o, p) # 0
        /\ SetEntry(o, p, acl[o][Entry(o, p)].privs \ privs)
     \/ /\ Entry(o, p) = 0
        /\ UNCHANGED acl
  /\ UNCHANGED members

-----------------------------------------------------------------------------
(* Checks.                                                                  *)

FirstOf(indices) == CHOOSE i \in indices : \A j \in indices : i <= j

\* Mutant: members of members are not looked at.
HasPrivsDirectly(r, target) ==
  IF r = target \/ \E i \in DOMAIN members[target] : members[target][i] = r
  THEN "yes" ELSE "no"

\* A call of has_privs_of_role: the targets of the calls that are under way,
\* and its own.
Calls == (SUBSET Roles) \X Roles

\* What a call answers when has tells what the calls that it makes answer: it
\* calls itself for every member of its target until one call answers true.  A
\* call for a target whose own call is still under way would repeat it without
\* end.
Answer(r, has, above, t) ==
  LET answer == [i \in DOMAIN members[t] |-> has[<<above \cup {t}, members[t][i]>>]]
      decided == {i \in DOMAIN members[t] : answer[i] # "no"}
  IN  IF t = r THEN "yes"
      ELSE IF t \in above THEN "endless"
      ELSE IF decided = {} THEN "no"
      ELSE answer[FirstOf(decided)]

\* has_privs_of_role
HasPrivsOfRole(r, target) ==
  LET has[call \in Calls] == Answer(r, has, call[1], call[2])
  IN  has[<<{}, target>>]

ActsAs(r, target) == target \in Roles /\ HasPrivsOfRole(r, target) = "yes"

\* The early return of the loops: ACLMASK_ALL or ACLMASK_ANY.
Enough(result, mask, how) ==
  IF how = "all" THEN result = mask ELSE result # {}

\* Mutant: PUBLIC is forgotten.
DirectOnlySelf(r, item) == item.grantee = r

\* What is given to the role itself or to PUBLIC: the first loop of aclmask.
Direct(r, item) == item.grantee \in {PUBLIC, r}

\* One entry in the first loop.
CollectDirect(result, item, r, mask, how) ==
  IF Enough(result, mask, how) \/ ~Direct(r, item) THEN result
  ELSE result \cup (item.privs \cap mask)

\* One entry in the second: it has something that is still missing, and is of a
\* role that r has the privileges of.
CollectIndirect(result, item, r, mask, how) ==
  IF \/ Enough(result, mask, how)
     \/ Direct(r, item)
     \/ item.privs \cap (mask \ result) = {}
     \/ ~ActsAs(r, item.grantee)
  THEN result
  ELSE result \cup (item.privs \cap mask)

\* The two loops: what is given directly, then what is given to roles it has
\* the privileges of.
MaskOf(items, r, mask, how, start) ==
  LET direct[i \in 0 .. Len(items)] ==
        IF i = 0 THEN start
        ELSE CollectDirect(direct[i - 1], items[i], r, mask, how)
      all[i \in 0 .. Len(items)] ==
        IF i = 0 THEN direct[Len(items)]
        ELSE CollectIndirect(all[i - 1], items[i], r, mask, how)
  IN  all[Len(items)]

\* aclmask of pg_acl_demo.c: an owner has the grant options.
BasicAclMask(items, r, mask, how) ==
  LET owned == IF ActsAs(r, Owner) THEN mask \cap GrantOptions ELSE {}
  IN  IF mask = {} THEN {} ELSE MaskOf(items, r, mask, how, owned)

\* aclmask of pg_acl_demo_column.c: an owner has everything, and all that is
\* asked for is wanted.
AclMask(items, r, mask) ==
  IF mask = {} \/ ActsAs(r, Owner)
  THEN mask \cap (Privileges \cup GrantOptions)
  ELSE MaskOf(items, r, mask, "all", {})

\* pg_object_aclmask
ObjectAclMask(r, mask) == AclMask(acl[Table], r, mask)

\* Mutant: what a column's list allows is not limited by the table's.
ColumnAclMaskAlone(c, r, mask) ==
  IF acl[c] = <<>> THEN ObjectAclMask(r, mask) ELSE AclMask(acl[c], r, mask)

\* pg_column_aclmask
ColumnAclMask(c, r, mask) ==
  LET ofColumn == AclMask(acl[c], r, mask)
  IN  IF acl[c] = <<>> THEN ObjectAclMask(r, mask)
      ELSE IF ofColumn # mask THEN ofColumn
      ELSE ofColumn \cap ObjectAclMask(r, mask)

\* check_query_permissions for a query that needs priv on the columns cols.
QueryPermitted(priv, cols, r) ==
  \/ ObjectAclMask(r, {priv}) = {priv}
  \/ \A c \in cols : ColumnAclMask(c, r, {priv}) = {priv}

-----------------------------------------------------------------------------

Entries ==
  LET OfObject(n, o) == n + Len(acl[o])
      OfRole(n, r) == n + Len(members[r])
  IN  FoldLeft(OfRole, FoldLeft(OfObject, 0, SetToSeq(Objects)), SetToSeq(Roles))

AclNext ==
  \/ /\ Entries < MaxEntries
     /\ \/ \E r, m \in Roles : AddRoleMember(r, m)
        \/ \E o \in Objects, p \in Parties, privs \in Asked :
             AddItem(o, p, privs) \/ Grant(o, p, privs)
  \/ \E o \in Objects, p \in Parties, privs \in Asked : Revoke(o, p, privs)

AclSpec == AclInit /\ [][AclNext]_aclVars

-----------------------------------------------------------------------------
(* Properties.                                                              *)

AclTypeOK ==
  /\ members \in [Roles -> Seq(Roles)]
  /\ acl \in [Objects -> Seq(AclItem)]
  /\ ledger \in [Objects -> [Parties -> Modes]]

EntriesOf(o, p) == {i \in DOMAIN acl[o] : ItemOf(acl[o][i], p)}

\* After any sequence of grants and revokes, an entry holds exactly what its
\* grantor has granted its grantee and not taken back: no grant or revoke of
\* another pair, or on another object, changed it.  Where add_acl_item made a
\* second entry for the pair, a revoke changes only the first one, and nothing
\* granted is missing.
LedgerKept ==
  \A o \in Objects, p \in Parties :
    /\ \A x \in ledger[o][p] : \E i \in EntriesOf(o, p) : x \in acl[o][i].privs
    /\ \A i \in EntriesOf(o, p) :
         EntriesOf(o, p) = {i} => acl[o][i].privs = ledger[o][p]

\* r is target or a direct or indirect member of it: target belongs to every
\* set of roles that has r in it and every role that has a member in it.
IsMember(r, target) ==
  \A S \in SUBSET Roles :
    /\ r \in S
    /\ \A t \in Roles : (\E i \in DOMAIN members[t] : members[t][i] \in S)
                           => t \in S
    => target \in S

\* t is a member of one of its members.
InCycle(t) == \E i \in DOMAIN members[t] : IsMember(t, members[t][i])

\* has_privs_of_role, which searches depth first without a record of where it
\* has been, answers with the closure of the memberships, whatever the order
\* in which they were added; it fails to return only below a role that is its
\* own indirect member.
RolesAnswer ==
  \A r, target \in Roles :
    CASE HasPrivsOfRole(r, target) = "yes" -> IsMember(r, target)
      [] HasPrivsOfRole(r, target) = "no"  -> ~IsMember(r, target)
      [] OTHER -> \E t \in Roles : InCycle(t) /\ IsMember(t, target)

GrantedTo(o, r) ==
  UNION {acl[o][i].privs : i \in {j \in DOMAIN acl[o] :
    \/ acl[o][j].grantee = PUBLIC
    \/ acl[o][j].grantee \in Roles /\ IsMember(r, acl[o][j].grantee)}}

\* The two passes with their early returns and the shrinking remainder find
\* exactly the privileges that the entries of an object give a role, itself,
\* through PUBLIC and through the roles it is a member of, whatever their
\* order; with ACLMASK_ANY they find one of them when there is one.
MasksAreUnions ==
  (\A t \in Roles : ~InCycle(t)) =>
    \A o \in Objects, r \in Roles, mask \in Modes :
      LET owns == IsMember(r, Owner)
          basic == mask \cap (GrantedTo(o, r) \cup (IF owns THEN GrantOptions ELSE {}))
          any == BasicAclMask(acl[o], r, mask, "any")
      IN  /\ AclMask(acl[o], r, mask) = IF owns THEN mask ELSE mask \cap GrantedTo(o, r)
          /\ BasicAclMask(acl[o], r, mask, "all") = basic
          /\ any \subseteq basic /\ (any = {} <=> basic = {})

\* A query that names a column passes exactly when the table's list lets it
\* pass: whatever is granted or revoked on columns, the column checks that
\* follow a failed table check never succeed, because they ask for the
\* privilege on the table too.
TableDecides ==
  \A priv \in Privileges, r \in Roles, cols \in (SUBSET Columns) \ {{}} :
    QueryPermitted(priv, cols, r) <=> ObjectAclMask(r, {priv}) = {priv}
=============================================================================

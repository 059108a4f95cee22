-------------------------------- MODULE Acl --------------------------------
(***************************************************************************)
(* The vocabulary of the converter: Kafka ACL rows, their resource         *)
(* patterns and principals (pkg/aclrbac/types), and the normalisation that *)
(* precedes every analysis (pkg/aclrbac/normalize): rows that differ only  *)
(* in the operation form a group, `All` and the operations an Allow        *)
(* implies are spelled out.                                                *)
(*                                                                         *)
(* Names are not strings here.  The only thing the code asks of two names  *)
(* is whether one starts with the other, so that relation is a constant.   *)
(* A row's id is the row itself: rows that differ in nothing but their id  *)
(* are one row.                                                            *)
(***************************************************************************)
EXTENDS Naturals

CONSTANTS
  Star,           \* the string "*"
  Name,           \* resource names and prefixes, Star among them
  StartsWith,     \* <<n, p>> for every name n that starts with p
  PrincipalType,  \* "User", "Group", ...
  PrincipalName,  \* names of principals, other than Star
  Host            \* hosts an ACL may name, other than Star

ASSUME AclAssumption ==
  /\ Star \in Name
  /\ Star \notin PrincipalType /\ Star \notin PrincipalName /\ Star \notin Host
  /\ StartsWith \subseteq Name \X Name
  /\ \A n \in Name : <<n, n>> \in StartsWith
  /\ \A n, p, q \in Name :       \* two prefixes of one name are comparable
       <<n, p>> \in StartsWith /\ <<n, q>> \in StartsWith
         => <<p, q>> \in StartsWith \/ <<q, p>> \in StartsWith

-----------------------------------------------------------------------------
(* Operations *)

ResourceType ==
  {"Cluster", "Topic", "Group", "TransactionalId", "DelegationToken", "Subject"}

\* The concrete operations of each resource type, which `All` stands for.
AllImpliedOps == [t \in ResourceType |->
  CASE t = "Cluster" -> {"Create", "Describe", "Alter", "DescribeConfigs", "AlterConfigs",
                         "ClusterAction", "IdempotentWrite"}
    [] t = "Topic" -> {"Read", "Write", "Create", "Delete", "Alter", "Describe",
                       "DescribeConfigs", "AlterConfigs"}
    [] t = "Group" -> {"Read", "Delete", "Describe"}
    [] t = "TransactionalId" -> {"Write", "Describe"}
    [] t = "DelegationToken" -> {"Describe"}
    [] t = "Subject" -> {"Read", "Write", "Describe", "Delete"}]

ConcreteOp   == UNION {AllImpliedOps[t] : t \in ResourceType}
Op           == ConcreteOp \cup {"All"}

\* What an Allow of the operation grants besides.
ImpliedOps(op) ==
  IF op \in {"Read", "Write", "Delete", "Alter"} THEN {"Describe"}
  ELSE IF op = "AlterConfigs" THEN {"DescribeConfigs"}
  ELSE {}

-----------------------------------------------------------------------------
(* Principals *)

AnyPrincipal == [type |-> Star, name |-> Star]      \* the bare "*"

Principal == [type : PrincipalType, name : PrincipalName \cup {Star}] \cup {AnyPrincipal}

\* Mutant: "User:*" is a name like any other.
IsBareStar(p) == p = AnyPrincipal

IsWildcardPrincipal(p) == p.name = Star

-----------------------------------------------------------------------------
(* Resource patterns *)

Pattern == [ptype : {"LITERAL", "PREFIXED"}, name : Name]

IsWildcard(a) == a.ptype = "LITERAL" /\ a.name = Star

\* Mutant: does the first pattern's set contain the second pattern's name?
CoversTheName(a, b) ==
  \/ IsWildcard(a) \/ IsWildcard(b)
  \/ a.ptype = "LITERAL" /\ a.name = b.name
  \/ a.ptype = "PREFIXED" /\ <<b.name, a.name>> \in StartsWith

PatternsOverlap(a, b) ==
  \/ IsWildcard(a) \/ IsWildcard(b)
  \/ a.ptype = "LITERAL" /\ b.ptype = "LITERAL" /\ a.name = b.name
  \/ b.ptype = "PREFIXED" /\ <<a.name, b.name>> \in StartsWith
  \/ a.ptype = "PREFIXED" /\ <<b.name, a.name>> \in StartsWith

-----------------------------------------------------------------------------
(* Rows and groups *)

Row ==
  [principal : Principal, host : Host \cup {Star}, rtype : ResourceType,
   pattern : Pattern, perm : {"Allow", "Deny"}, op : Op]

\* Rows a Kafka cluster can hold: an operation its resource type has.
Valid(r) == r.op \in AllImpliedOps[r.rtype] \cup {"All"}

\* Everything except the operation.
KeyOf(r) ==
  [principal |-> r.principal, host |-> r.host, rtype |-> r.rtype,
   pattern |-> r.pattern, perm |-> r.perm]

GroupOf(rows, k) ==
  LET mine == {r \in rows : KeyOf(r) = k}
  IN  [key |-> k, ops |-> {r.op : r \in mine}, source |-> mine]

GroupRows(rows) == {GroupOf(rows, KeyOf(r)) : r \in rows}

\* The operations `All` stands for are added; the marker stays for the rules.
ExpandAll(g) ==
  IF "All" \in g.ops THEN [g EXCEPT !.ops = @ \cup AllImpliedOps[g.key.rtype]] ELSE g

\* Only an Allow implies anything.
ExpandImplied(g) ==
  IF g.key.perm = "Allow"
    THEN [g EXCEPT !.ops = @ \cup UNION {ImpliedOps(op) : op \in g.ops}]
    ELSE g

Normalize(rows) == {ExpandImplied(ExpandAll(g)) : g \in GroupRows(rows)}

-----------------------------------------------------------------------------
(* Kafka's authorizer, which the code refers to (pattern_overlap.go:21-24,  *)
(* expand.go:81-93): which requests a row is about.                         *)

Matches(pattern, n) ==
  \/ IsWildcard(pattern)
  \/ pattern.ptype = "LITERAL" /\ pattern.name = n
  \/ pattern.ptype = "PREFIXED" /\ <<n, pattern.name>> \in StartsWith

\* u is a concrete principal.
AppliesTo(p, u) ==
  p = u \/ p = AnyPrincipal \/ (p.name = Star /\ p.type = u.type)

\* The row allows, or denies, u the operation op on resource n, on some host.
IsAbout(r, u, op, n) ==
  /\ AppliesTo(r.principal, u)
  /\ Matches(r.pattern, n)
  /\ \/ r.op \in {"All", op}
     \/ r.perm = "Allow" /\ op \in ImpliedOps(r.op)
=============================================================================

----------------------------- MODULE MCPlanner -----------------------------
(* Rules of config/defaults.yaml, and one for Subject, on small sets of rows *)
(* over the names "*", "f", "fo" and "foo", each a prefix of the ones after. *)
EXTENDS Planner

CONSTANTS star, f, fo, foo, user, alice, bob, svc, host

MCName == {star, f, fo, foo}
MCStartsWith ==
  {<<n, n>> : n \in MCName} \cup {<<fo, f>>, <<foo, f>>, <<foo, fo>>}

Ps(n) == [type |-> user, name |-> n]
Pat(t, n) == [ptype |-> t, name |-> n]

R(p, h, t, pat, perm, op) ==
  [principal |-> p, host |-> h, rtype |-> t, pattern |-> pat, perm |-> perm, op |-> op]

AllowRows ==
  {R(Ps(alice), star, "Topic", Pat("LITERAL", foo), "Allow", op) :
     op \in {"All", "Read", "Write", "Delete", "Describe", "AlterConfigs"}}
  \cup {R(Ps(alice), star, "Topic", Pat("PREFIXED", fo), "Allow", op) : op \in {"Read", "All"}}
  \cup {R(Ps(bob), star, "Topic", Pat("LITERAL", foo), "Allow", "Read"),
        R(Ps(star), star, "Topic", Pat("LITERAL", star), "Allow", "Write"),
        R(AnyPrincipal, star, "Topic", Pat("LITERAL", f), "Allow", "AlterConfigs"),
        R(Ps(alice), host, "Topic", Pat("LITERAL", foo), "Allow", "Read"),
        R(Ps(alice), star, "Group", Pat("LITERAL", foo), "Allow", "Read"),
        R(Ps(alice), star, "Subject", Pat("LITERAL", foo), "Allow", "Read")}

DenyRows ==
  {R(Ps(alice), star, "Topic", pat, "Deny", op) :
     pat \in {Pat("LITERAL", foo), Pat("PREFIXED", f), Pat("PREFIXED", foo)},
     op \in {"All", "Read", "Describe"}}
  \cup {R(Ps(star), star, "Topic", Pat("LITERAL", foo), "Deny", "Read"),
        R(Ps(alice), host, "Topic", Pat("LITERAL", star), "Deny", "Write"),
        R(Ps(alice), star, "Topic", Pat("LITERAL", f), "Deny", "DescribeConfigs")}

MCRows == AllowRows \cup DenyRows
MCInputs == {{}} \cup {{a, b, c} : a, b, c \in MCRows}

Allowing(ops, mode, rtype, role) ==
  [ops |-> ops, mode |-> mode, rtype |-> rtype, perm |-> "Allow", role |-> role]

MCRuleAt == <<
  Allowing({"All"}, "any", "Topic", "ResourceOwner"),
  Allowing({"All"}, "any", "Group", "ResourceOwner"),
  Allowing({"Read", "Describe"}, "all", "Topic", "DeveloperRead"),
  Allowing({"Write", "Describe"}, "all", "Topic", "DeveloperWrite"),
  Allowing({"Read", "Describe"}, "all", "Group", "DeveloperRead"),
  Allowing({"DescribeConfigs", "AlterConfigs"}, "any", "Topic", "ResourceOwner"),
  Allowing({"Read"}, "any", "Subject", "DeveloperRead") >>

MCRoleOps ==
  [ResourceOwner  |-> AllImpliedOps,
   DeveloperRead  |-> [t \in ResourceType |-> {"Read", "Describe"}],
   DeveloperWrite |-> [t \in ResourceType |-> {"Write", "Describe"}]]

MCMapping ==
  [p \in {Ps(alice), Ps(bob), Ps(star)} |-> IF p = Ps(star) THEN p ELSE Ps(svc)]

\* No principals.yaml: with pass-through everybody keeps their name.
MCNoMapping == [p \in {} |-> p]

Held(role, patterns) ==
  [principal |-> Ps(svc), role |-> role, scope |-> "kafka", patterns |-> patterns]

FooTopic == <<"Topic", Pat("LITERAL", foo)>>
FooGroup == <<"Group", Pat("LITERAL", foo)>>

MCInventories ==
  {{}, {Held("DeveloperRead", {FooTopic}), Held("DeveloperRead", {FooGroup}),
        Held("DeveloperWrite", {FooTopic, FooGroup})}}
=============================================================================

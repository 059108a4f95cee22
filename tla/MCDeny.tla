------------------------------- MODULE MCDeny -------------------------------
(* A DENY that a narrower grant undermines, and one of a wildcard principal; *)
(* or a DENY of every operation.  One grant.                                 *)
EXTENDS Deny

CONSTANTS star, fo, foo, user, alice

MCName == {star, fo, foo}
MCStartsWith == {<<n, n>> : n \in MCName} \cup {<<foo, fo>>}

Ps(n) == [type |-> user, name |-> n]
Pat(t, n) == [ptype |-> t, name |-> n]

DenyRow(p, pat, op) ==
  [principal |-> p, host |-> star, rtype |-> "Topic", pattern |-> pat, perm |-> "Deny", op |-> op]

MCDenies ==
  {DenyRow(Ps(alice), Pat("PREFIXED", fo), "Read"),
   DenyRow(Ps(alice), Pat("LITERAL", foo), "Write"),
   DenyRow(Ps(star), Pat("LITERAL", foo), "Read")}

MCDenyAll == {DenyRow(Ps(alice), Pat("LITERAL", foo), "All")}

MCGrants ==
  {[principal |-> Ps(alice), rtype |-> "Topic", op |-> "Read", pattern |-> Pat("LITERAL", foo),
    scope |-> "kafka"]}
=============================================================================

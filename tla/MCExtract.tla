------------------------------ MODULE MCExtract ------------------------------
(* A few items of every kind for every source, in every order.               *)
EXTENDS Extract

CONSTANTS star, fo, foo, cluster0, alice, bob, h1, h2

MCName == {star, fo, foo, cluster0}
MCStartsWith == {<<n, n>> : n \in MCName} \cup {<<foo, fo>>}

U(n) == [type |-> "User", name |-> n]

\* Words that are spelled otherwise in capitals, and those that are not words of the
\* representation.
MCSpelled ==
  Capitals
  @@ "Topic" :> "TOPIC" @@ "Group" :> "GROUP" @@ "deny" :> "DENY" @@ "allow" :> "ALLOW"
  @@ "prefix" :> "PREFIX" @@ "literal" :> "LITERAL" @@ "group" :> "GROUP" @@ "user" :> "USER"

MCUpper ==
  MCSpelled
  @@ [w \in Range(MCSpelled) \cup {"CREATE_TOKENS", "MATCH"} |-> w]
  @@ [w \in ResourceType \cup {"Allow", "Deny"} |-> w]

MCWord == DOMAIN MCUpper

(* text *)
Header(t, n) == [kind |-> "header", rtype |-> t, ptype |-> "LITERAL", name |-> n]
AclLine(op, h) == [kind |-> "acl", principal |-> U(alice), host |-> h, perm |-> "ALLOW", op |-> op]
Line(k) == [kind |-> k]

TextItems ==
  {Header("TOPIC", foo), Header("TOPIC", fo), Header("TOPIC", Empty),
   AclLine("READ", star), AclLine("CREATE_TOKENS", h1),
   Line("drift"), Line("other"), Line("blank")}

(* script *)
Call(options) ==
  [kind |-> "call", kafkaAcls |-> TRUE, plain |-> TRUE, vars |-> {}, cut |-> FALSE, options |-> options]
O(f, v) == Option(f, v)
Add == O("--add", Empty)
Alice == O("--allow-principal", U(alice))
NoBob == O("--deny-principal", U(bob))

ScriptItems ==
  {[kind |-> "flow"],
   Call(<<Alice>>),
   Call(<<O("--remove", Empty), Alice>>),
   Call(<<Add, O("--list", Empty)>>),
   [Call(<<Add>>) EXCEPT !.cut = TRUE],
   [Call(<<>>) EXCEPT !.kafkaAcls = FALSE],
   [Call(<<>>) EXCEPT !.kafkaAcls = FALSE, !.vars = {"TOPIC"}],
   [Call(<<>>) EXCEPT !.plain = FALSE],
   Call(<<Alice, O("--topic", foo), O("--operation", "Read"), Add, O("--allow-host", h1),
          O("--operation", "ALTERCONFIGS"), O("--group", fo), O("--allow-host", h2)>>),
   Call(<<Add, NoBob, Alice, O("--deny-host", h1), O("--operation", "All"), O("--topic", fo),
          O("--resource-pattern-type", "PREFIXED")>>),
   Call(<<O("--producer", Empty), Add, Alice, O("--topic", foo), O("--topic", fo),
          O("--transactional-id", fo), O("--idempotent", Empty)>>),
   Call(<<O("--consumer", Empty), O("--group", fo), Add, Alice, O("--topic", foo)>>),
   Call(<<O("--producer", Empty), O("--consumer", Empty), Add, NoBob, O("--topic", foo),
          O("--group", fo)>>),
   Call(<<Add, Alice, O("--topic", fo)>>),
   Call(<<Add, O("--producer", Empty), O("--transactional-id", fo), O("--transactional-id", foo),
          Alice>>),
   Call(<<Add, Alice, O("--operation", "Alter"), O("--cluster", Empty),
          O("--delegation-token", foo)>>)}

(* csv, json *)
Record(i, r) == [kind |-> "record", id |-> i, acl |-> r]
R(p, h, t, n, perm, op) == ContentOf(p, h, t, "LITERAL", n, perm, op)

GivenItems ==
  {Record(1, R(U(alice), star, "Topic", foo, "Allow", "Read")),
   Record(3, R(U(bob), h1, "Group", fo, "Deny", "Read")),
   Record(-1, R(U(bob), star, "Topic", foo, "Allow", "Write")),
   Record(2, R(U(bob), star, "Topic", Empty, "Allow", "Write")),
   Line("malformed")}

(* strimzi, cfk, k8s *)
UserAcl(ops, op, h, perm, pt) ==
  [operations |-> ops, operation |-> op, host |-> h, perm |-> perm, rtype |-> "Topic",
   ptype |-> pt, name |-> fo]
KafkaUser(auth, as) == [kind |-> "KafkaUser", auth |-> auth, principal |-> U(alice), acls |-> as]
Kafka(auth, sus) == [kind |-> "Kafka", auth |-> auth, superUsers |-> sus]
Binding(t, n, r) == [kind |-> "ConfluentRolebinding", type |-> t, name |-> n, role |-> r]

StrimziDocs ==
  {KafkaUser("simple", <<UserAcl(<<"Read", "Write">>, Empty, Empty, "allow", "literal"),
                         UserAcl(<<>>, "Read", h1, "deny", "prefix")>>),
   KafkaUser("simple", <<>>),
   KafkaUser("opa", <<UserAcl(<<"Read">>, Empty, Empty, "allow", "literal")>>)}

CfkDocs ==
  {Kafka("rbac", <<U(bob), U(alice)>>), Kafka("simple", <<U(alice)>>), Kafka("opa", <<U(bob)>>),
   Binding("group", alice, "DeveloperRead"), Binding("user", alice, Empty)}

\* The sources skip what they do not know.
OtherDocs == {Line("malformed"), Line("Topic"), Line(Empty)}

KindRank(d) ==
  CASE d.kind = "KafkaUser" -> 1 [] d.kind = "Kafka" -> 2 [] d.kind = "ConfluentRolebinding" -> 3

K8sInputs ==
  {s \in SeqOf(StrimziDocs \cup CfkDocs, 3) :
     \A i, j \in DOMAIN s : i < j => KindRank(s[i]) <= KindRank(s[j])}

MCInputs ==
  "text" :> SeqOf(TextItems, 4) @@ "script" :> SeqOf(ScriptItems, 2)
  @@ "csv" :> SeqOf(GivenItems \cup {Line("comment")}, 3) @@ "json" :> SeqOf(GivenItems, 3)
  @@ "strimzi" :> SeqOf(StrimziDocs \cup OtherDocs, 3) @@ "cfk" :> SeqOf(CfkDocs \cup OtherDocs, 3)
  @@ "k8s" :> K8sInputs

(* live *)
MCFilters ==
  {[NoFilter EXCEPT !.principals = ps, !.topics = ts] : ps \in {<<>>, <<U(alice)>>, <<U(alice), U(bob)>>},
                                                        ts \in {<<>>, <<foo, fo>>}}

MCKafkaAcls ==
  {R(U(alice), star, "Topic", foo, "Allow", "Read"),
   R(U(alice), h1, "Topic", foo, "Deny", "Read"),
   ContentOf(U(bob), star, "Topic", "PREFIXED", fo, "Allow", "Write"),
   R(U(bob), star, "Group", fo, "Allow", "CREATE_TOKENS")}

MCPrincipalRank == [p \in Principal |-> IF p = U(alice) THEN 1 ELSE 0]
MCNameRank == [n \in Name \cup {Empty} |-> IF n = fo THEN 0 ELSE 1]
MCWordRank == [w \in Word |-> IF w = "Read" THEN 1 ELSE 2]
=============================================================================

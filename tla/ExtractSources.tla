--------------------------- MODULE ExtractSources ---------------------------
(***************************************************************************)
(* What each source of `extract` (pkg/aclrbac/extract/...) makes of one    *)
(* item of its input: a line of `kafka-acls --list` (text), a statement of *)
(* a shell script (script), a KafkaUser (strimzi), a Kafka or a            *)
(* ConfluentRolebinding resource (cfk, k8s), an ACL a broker describes     *)
(* (live).  Extract has the loops over the items.                          *)
(*                                                                         *)
(* Splitting into items and fields is not modelled; what becomes of the    *)
(* words in the fields is.  A content is a row without its number, whose   *)
(* words may be ones the intermediate representation does not have.  An    *)
(* option of a command is a flag with the value that follows it.           *)
(***************************************************************************)
EXTENDS Acl, Sequences, SequencesExt

CONSTANTS
  Word,           \* the words a source may use for types, operations, ...
  Upper,          \* strings.ToUpper on them
  ClusterName,    \* "kafka-cluster"
  Var             \* the variables --vars gives a value

Empty == ""       \* a field that is missing or empty

\* The words of the representation in capitals, as far as they may be written into
\* a script and read back.
Capitals ==
  [LITERAL |-> "LITERAL", PREFIXED |-> "PREFIXED",
   Read |-> "READ", Write |-> "WRITE", Create |-> "CREATE", Delete |-> "DELETE",
   Alter |-> "ALTER", Describe |-> "DESCRIBE", ClusterAction |-> "CLUSTERACTION",
   DescribeConfigs |-> "DESCRIBECONFIGS", AlterConfigs |-> "ALTERCONFIGS",
   IdempotentWrite |-> "IDEMPOTENTWRITE", All |-> "ALL"]

ASSUME SourcesAssumption ==
  /\ Op \cup ResourceType \cup {"LITERAL", "PREFIXED", "Allow", "Deny"} \subseteq Word
  /\ Upper \in [Word -> Word] /\ \A w \in DOMAIN Capitals : Upper[w] = Capitals[w]
  /\ ClusterName \in Name
  /\ Empty \notin Name \cup Host \cup Word

Content ==
  [principal : Principal, host : Host \cup {Star, Empty}, rtype : Word,
   pattern : [ptype : Word, name : Name \cup {Empty}], perm : Word, op : Word]

ContentOf(principal, host, rtype, ptype, name, perm, op) ==
  [principal |-> principal, host |-> host, rtype |-> rtype,
   pattern |-> [ptype |-> ptype, name |-> name], perm |-> perm, op |-> op]

\* acls.v1.json and ValidateACLRow.
Expressible(c) == c \in Row

\* F of every element of s, one sequence after the other.
ForEach(s, F(_)) == FlattenSeq([i \in DOMAIN s |-> F(s[i])])

OrElse(s, default) == IF s = <<>> THEN default ELSE s

-----------------------------------------------------------------------------
(* Words *)

\* A word the source's table lacks is passed on as it is.
Normal(table, w) == IF Upper[w] \in DOMAIN table THEN table[Upper[w]] ELSE w

OneWordOps ==
  [READ |-> "Read", WRITE |-> "Write", CREATE |-> "Create", DELETE |-> "Delete",
   ALTER |-> "Alter", DESCRIBE |-> "Describe", ALL |-> "All"]

NormalOp(table, w) ==
  IF Upper[w] \in DOMAIN OneWordOps THEN OneWordOps[Upper[w]] ELSE Normal(table, w)

normalizeOperation(w) ==
  NormalOp([CLUSTER_ACTION |-> "ClusterAction", DESCRIBE_CONFIGS |-> "DescribeConfigs",
            ALTER_CONFIGS |-> "AlterConfigs", IDEMPOTENT_WRITE |-> "IdempotentWrite"], w)

\* The script source's table has spellings that the text source's lacks.
normalizeOp(w) ==
  NormalOp([CLUSTER_ACTION |-> "ClusterAction",
            DESCRIBECONFIGS |-> "DescribeConfigs", DESCRIBE_CONFIGS |-> "DescribeConfigs",
            ALTERCONFIGS |-> "AlterConfigs", ALTER_CONFIGS |-> "AlterConfigs",
            IDEMPOTENTWRITE |-> "IdempotentWrite", IDEMPOTENT_WRITE |-> "IdempotentWrite"], w)

normalizeResourceType(w) ==
  Normal([TOPIC |-> "Topic", GROUP |-> "Group", CLUSTER |-> "Cluster",
          TRANSACTIONAL_ID |-> "TransactionalId", TRANSACTIONALID |-> "TransactionalId",
          DELEGATION_TOKEN |-> "DelegationToken", DELEGATIONTOKEN |-> "DelegationToken",
          SUBJECT |-> "Subject"], w)

normalizePermission(w) == Normal([ALLOW |-> "Allow", DENY |-> "Deny"], w)

strimziResourceType(w) ==
  IF Upper[w] = "TRANSACTIONAL-ID" THEN "TransactionalId"
  ELSE Normal([TOPIC |-> "Topic", GROUP |-> "Group", CLUSTER |-> "Cluster",
               TRANSACTIONALID |-> "TransactionalId"], w)

\* An unknown pattern type is taken for a literal one, with a warning.
strimziPatternType(w) == IF Upper[w] = "PREFIX" THEN "PREFIXED" ELSE "LITERAL"

-----------------------------------------------------------------------------
(* Text: a line is a resource header, an ACL, a line that looks like a header *)
(* but is not one (drift), another line or a blank one.                       *)

Resource == [rtype : Word, ptype : Word, name : Name \cup {Empty}]

NoResource == [rtype |-> "Topic", ptype |-> "LITERAL", name |-> Empty]

HeaderResource(line) ==
  [rtype |-> normalizeResourceType(line.rtype), ptype |-> Upper[line.ptype], name |-> line.name]

\* An ACL line, under the resource r.
LineContent(line, r) ==
  ContentOf(line.principal, line.host, r.rtype, r.ptype, r.name,
            normalizePermission(line.perm), normalizeOperation(line.op))

-----------------------------------------------------------------------------
(* Script: a statement is control flow or a command substitution, or a call.  *)
(* A call says whether it has syntax that flattenArgs does not take (plain),  *)
(* the variables it uses, whether a word of it names kafka-acls, its options, *)
(* and whether the last flag lacks its value (cut).                           *)

\* flattenArgs looks at every call, whether it is one of kafka-acls or not.
Flattens(call) == call.plain /\ call.vars \subseteq Var

Values(options, flags) ==
  ForEach(options, LAMBDA o : IF o.flag \in flags THEN <<o.value>> ELSE <<>>)

Flags(options) == {options[i].flag : i \in DOMAIN options}

SubActions == {"--add", "--remove", "--list"}

\* The last one counts.
subAction(options) ==
  LET mine == ForEach(options, LAMBDA o : IF o.flag \in SubActions THEN <<o.flag>> ELSE <<>>)
  IN  IF mine = <<>> THEN Empty ELSE Last(mine)

patternType(options) ==
  LET mine == Values(options, {"--resource-pattern-type"})
  IN  IF mine = <<>> THEN "LITERAL" ELSE Upper[Last(mine)]

ResourceFlags ==
  [f \in {"--topic", "--group", "--cluster", "--transactional-id", "--delegation-token"} |->
     CASE f = "--topic" -> "Topic" [] f = "--group" -> "Group" [] f = "--cluster" -> "Cluster"
       [] f = "--transactional-id" -> "TransactionalId"
       [] f = "--delegation-token" -> "DelegationToken"]

\* In parseInvocation's order; --cluster has no value.
resourceRef(o) ==
  [rtype |-> ResourceFlags[o.flag],
   name |-> IF o.flag = "--cluster" THEN ClusterName ELSE o.value]

resources(options) ==
  ForEach(options, LAMBDA o :
    IF o.flag \in DOMAIN ResourceFlags THEN <<resourceRef(o)>> ELSE <<>>)

OpRes(op, r) == [op |-> op, res |-> r]

OnType(rs, rtype, ops) ==
  ForEach(rs, LAMBDA r :
    IF r.rtype = rtype THEN [i \in DOMAIN ops |-> OpRes(ops[i], r)] ELSE <<>>)

\* Of several --transactional-id only the last.
producer(options) ==
  LET tids == Values(options, {"--transactional-id"})
      tid  == [rtype |-> "TransactionalId", name |-> Last(tids)]
  IN  OnType(resources(options), "Topic", <<"Write", "Describe", "Create">>)
        \o (IF tids = <<>> THEN <<>> ELSE <<OpRes("Write", tid), OpRes("Describe", tid)>>)
        \o (IF "--idempotent" \in Flags(options)
              THEN <<OpRes("IdempotentWrite", [rtype |-> "Cluster", name |-> ClusterName])>> ELSE <<>>)

consumer(options) ==
  ForEach(resources(options), LAMBDA r :
    IF r.rtype = "Topic" THEN <<OpRes("Read", r), OpRes("Describe", r)>>
    ELSE IF r.rtype = "Group" THEN <<OpRes("Read", r)>> ELSE <<>>)

matrix(options) ==
  LET ops       == Values(options, {"--operation"})
      shortcuts == {"--producer", "--consumer"} \cap Flags(options)
  IN  IF shortcuts = {}
        THEN ForEach(ops, LAMBDA w :
               [i \in DOMAIN resources(options) |-> OpRes(normalizeOp(w), resources(options)[i])])
        ELSE (IF "--producer" \in shortcuts THEN producer(options) ELSE <<>>)
               \o (IF "--consumer" \in shortcuts THEN consumer(options) ELSE <<>>)

\* The rows of one permission: every principal on every host.
PermissionRows(options, perm, principalFlag, hostFlag) ==
  ForEach(Values(options, {principalFlag}), LAMBDA p :
    ForEach(OrElse(Values(options, {hostFlag}), <<Star>>), LAMBDA h :
      ForEach(matrix(options), LAMBDA m :
        <<ContentOf(p, h, m.res.rtype, patternType(options), m.res.name, perm, m.op)>>)))

expand(options) ==
  PermissionRows(options, "Allow", "--allow-principal", "--allow-host")
    \o PermissionRows(options, "Deny", "--deny-principal", "--deny-host")

\* The lines of rollback.sh and of rollback-deny.sh, for a row each.
Option(flag, value) == [flag |-> flag, value |-> value]

RowOptions(r) ==
  LET flag == CHOOSE f \in DOMAIN ResourceFlags : ResourceFlags[f] = r.rtype
  IN  <<Option("--operation", r.op), Option("--resource-pattern-type", r.pattern.ptype)>>
        \o (IF r.rtype = "Subject" THEN <<>> ELSE <<Option(flag, r.pattern.name)>>)

writeAdd(r) == <<Option("--add", Empty), Option("--allow-principal", r.principal)>> \o RowOptions(r)

\* Mutant: without the host the DENY comes back for all hosts.
AddDenyAnywhere(r) ==
  <<Option("--add", Empty), Option("--deny-principal", r.principal)>> \o RowOptions(r)

writeAddDeny(r) ==
  <<Option("--add", Empty), Option("--deny-principal", r.principal), Option("--deny-host", r.host)>>
    \o RowOptions(r)

-----------------------------------------------------------------------------
(* Strimzi *)

\* Mutant: the deprecated singular form is not looked at.
PluralOnly(acl) == acl.operations

\* `operations`, or else the deprecated `operation`.
OperationsOf(acl) ==
  IF acl.operations = <<>> /\ acl.operation # Empty THEN <<acl.operation>> ELSE acl.operations

StrimziRows(user) ==
  ForEach(user.acls, LAMBDA a :
    ForEach(OperationsOf(a), LAMBDA op :
      <<ContentOf(user.principal, IF a.host = Empty THEN Star ELSE a.host,
                  strimziResourceType(a.rtype), strimziPatternType(a.ptype), a.name,
                  IF Upper[a.perm] = "DENY" THEN "Deny" ELSE "Allow", op)>>))

\* Of the documents only these produce rows.
IsSimpleUser(doc) == doc.kind = "KafkaUser" /\ doc.auth = "simple"

-----------------------------------------------------------------------------
(* Confluent for Kubernetes *)

IsAuthorizedKafka(doc) == doc.kind = "Kafka" /\ doc.auth \in {"simple", "rbac"}

\* A superuser of a Kafka resource may do everything to the cluster.
KafkaRows(kafka) ==
  [i \in DOMAIN kafka.superUsers |->
     ContentOf(kafka.superUsers[i], Star, "Cluster", "LITERAL", ClusterName, "Allow", "All")]

IsRolebinding(doc) ==
  doc.kind = "ConfluentRolebinding" /\ doc.name # Empty /\ doc.role # Empty

RolebindingOf(doc) ==
  [principal |-> [type |-> IF Upper[doc.type] = "GROUP" THEN "Group" ELSE "User", name |-> doc.name],
   role |-> doc.role]

-----------------------------------------------------------------------------
(* Live: buildFilters, and what a broker answers. *)

Unset == "any"    \* no filter in this field

LiveTypes == <<"Topic", "Group", "Cluster", "TransactionalId", "DelegationToken">>

\* One filter per principal and topic, or per principal and type.  A principal is
\* asked for with the host "*".
buildFilters(principalFilter, topicFilter) ==
  LET Cell(p, rtype, topic) ==
        [principals |-> IF principalFilter = <<>> THEN Principal ELSE {p},
         hosts |-> IF principalFilter = <<>> THEN Host \cup {Star} ELSE {Star},
         rtype |-> rtype, topic |-> topic]
  IN  ForEach(OrElse(principalFilter, <<Unset>>), LAMBDA p :
        IF topicFilter = <<>>
          THEN [i \in DOMAIN LiveTypes |-> Cell(p, LiveTypes[i], Unset)]
          ELSE [i \in DOMAIN topicFilter |-> Cell(p, "Topic", topicFilter[i])])

\* Pattern type ANY, or MATCH for a topic: the patterns that the topic is under.
OnTopic(a, topic) ==
  topic = Unset \/ (a.pattern.ptype \in {"LITERAL", "PREFIXED"} /\ Matches(a.pattern, topic))

\* DescribeACLs compares principal and host as strings.
Described(kafka, cell) ==
  {a \in kafka : /\ a.principal \in cell.principals /\ a.host \in cell.hosts
                 /\ a.rtype = cell.rtype /\ OnTopic(a, cell.topic)}

\* mapOperation, mapResourceType, mapPattern, mapPermission.
Mappable(a) ==
  /\ a.op \in Op /\ a.rtype \in ResourceType \ {"Subject"}
  /\ a.pattern.ptype \in {"LITERAL", "PREFIXED"} /\ a.perm \in {"Allow", "Deny"}
=============================================================================

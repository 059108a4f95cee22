------------------------------- MODULE Extract -------------------------------
(***************************************************************************)
(* `monedula-acl-rbac extract` (pkg/aclrbac/extract, cli/cmd_extract.go):  *)
(* one of the sources turns its input into numbered rows, all of which are *)
(* then checked against the schema and written to acls.json, or none are.  *)
(*                                                                         *)
(* A step is an item of the input (see ExtractSources): a line, statement, *)
(* record, document or object, or the answer to one DescribeACLs.  Others  *)
(* may change Kafka's ACLs between two of these answers.  How acls.json    *)
(* and its sidecars get to the disk is RunDirFiles' subject.               *)
(***************************************************************************)
EXTENDS ExtractSources, FiniteSets, Integers

CONSTANTS
  Inputs,          \* for each source that reads items, the inputs it may get
  Filters,         \* for live: the --principal-filter and --topic-filter it may get
  KafkaAcls,       \* ACLs that may be in Kafka
  MaxChanges,      \* bound: changes of Kafka's ACLs during an extract
  PrincipalRank, NameRank, WordRank    \* the order of strings, for sorting

ReaderSource == {"text", "script", "csv", "json", "strimzi", "cfk", "k8s"}

\* What the fields of an item hold, by its kind; flags that take no value have any.
OptionTyped(o) ==
  /\ o.flag \in {"--allow-principal", "--deny-principal"} => o.value \in Principal
  /\ o.flag \in {"--allow-host", "--deny-host"} => o.value \in Host \cup {Star}
  /\ o.flag \in {"--operation", "--resource-pattern-type"} => o.value \in Word
  /\ o.flag \in {"--topic", "--group", "--transactional-id", "--delegation-token"}
       => o.value \in Name

UserAclTyped(a) ==
  /\ a.operations \in Seq(Word) /\ a.operation \in Word \cup {Empty}
  /\ a.host \in Host \cup {Star, Empty} /\ {a.perm, a.rtype, a.ptype} \subseteq Word
  /\ a.name \in Name \cup {Empty}

ItemTyped(it) ==
  /\ it.kind = "header" => {it.rtype, it.ptype} \subseteq Word /\ it.name \in Name \cup {Empty}
  /\ it.kind = "acl" =>
       it.principal \in Principal /\ it.host \in Host \cup {Star} /\ {it.perm, it.op} \subseteq Word
  /\ it.kind = "call" =>
       it.options \in Seq(ToSet(it.options)) /\ \A o \in ToSet(it.options) : OptionTyped(o)
  /\ it.kind = "record" => it.id \in Int /\ it.acl \in Content
  /\ it.kind = "KafkaUser" =>
       /\ it.principal \in Principal
       /\ it.acls \in Seq(ToSet(it.acls)) /\ \A a \in ToSet(it.acls) : UserAclTyped(a)
  /\ it.kind = "Kafka" => it.superUsers \in Seq(Principal)

ASSUME ExtractAssumption ==
  /\ DOMAIN Inputs = ReaderSource
  /\ \A s \in ReaderSource : \A in \in Inputs[s] :
       in \in Seq(ToSet(in)) /\ \A it \in ToSet(in) : ItemTyped(it)
  /\ \A f \in Filters : f.principals \in Seq(Principal) /\ f.topics \in Seq(Name)
  /\ KafkaAcls \subseteq {a \in Content : a.host # Empty} /\ IsFiniteSet(KafkaAcls)
  /\ MaxChanges \in Nat
  /\ PrincipalRank \in [Principal -> Nat] /\ NameRank \in [Name \cup {Empty} -> Nat]
  /\ WordRank \in [Word -> Nat]

VARIABLES
  source, input, pos,
  asked,         \* the flags: filters (live), --ignore-non-add (script)
  res,           \* text: the current resource
  rows,          \* rows so far: [id, acl]
  nextId,
  bindings,      \* cfk, k8s: rolebindings found, for existing-bindings.json
  noted,         \* positions that extract.log says nothing was made of
  status,        \* "reading", "read", "written" or what went wrong
  acls,          \* acls.json
  kafka,         \* live: the ACLs in Kafka
  changes,       \*   how often they have changed
  ever, always   \*   history: those there at some time, and all the time, so far

chosen  == <<source, input, asked>>
cluster == <<kafka, changes, ever, always>>
vars    == <<chosen, pos, res, rows, nextId, bindings, noted, status, acls, cluster>>

NoFilter == [principals |-> <<>>, topics |-> <<>>, ignoreNonAdd |-> FALSE]

Failures == {"unreadable", "rejected", "invalid"}

Init ==
  /\ \/ /\ source \in ReaderSource
        /\ input \in Inputs[source]
        /\ \E ignore \in BOOLEAN :
             /\ ignore => source = "script"
             /\ asked = [NoFilter EXCEPT !.ignoreNonAdd = ignore]
        /\ kafka = {}
     \/ /\ source = "live"
        /\ asked \in Filters
        /\ input = buildFilters(asked.principals, asked.topics)
        /\ kafka \in SUBSET KafkaAcls
  /\ pos = 1 /\ res = NoResource
  /\ rows = <<>> /\ nextId = 1 /\ bindings = {} /\ noted = {}
  /\ status = "reading" /\ acls = <<>>
  /\ changes = 0 /\ ever = kafka /\ always = kafka

-----------------------------------------------------------------------------
(* Steps of the loops *)

Item == input[pos]

Reads(s) == status = "reading" /\ source \in s /\ pos <= Len(input)

Steps == pos' = pos + 1 /\ UNCHANGED <<chosen, status, acls, cluster>>

Numbered(cs, first) == [i \in DOMAIN cs |-> [id |-> first + i - 1, acl |-> cs[i]]]

\* The contents become rows, numbered from the source's counter.
Emit(cs) ==
  /\ rows' = rows \o Numbered(cs, nextId)
  /\ nextId' = nextId + Len(cs)
  /\ UNCHANGED noted

\* Nothing comes of the item, and the log says so.
Note == noted' = noted \cup {pos} /\ UNCHANGED <<rows, nextId>>

Passes == UNCHANGED <<rows, nextId, noted>>

Fails(how) ==
  /\ status' = how
  /\ UNCHANGED <<chosen, pos, res, rows, nextId, bindings, noted, acls, cluster>>

\* A file or a server cannot be read; for cfk, which reads several, at any time.
Unreadable ==
  /\ status = "reading" /\ (pos = 1 \/ source \in {"cfk", "k8s", "live"})
  /\ Fails("unreadable")

(* text *)

TextHeader ==
  /\ Reads({"text"}) /\ Item.kind = "header"
  /\ res' = HeaderResource(Item)
  /\ Passes /\ Steps /\ UNCHANGED bindings

TextAcl ==
  /\ Reads({"text"}) /\ Item.kind = "acl"
  /\ IF res.name = Empty THEN Note ELSE Emit(<<LineContent(Item, res)>>)
  /\ Steps /\ UNCHANGED <<res, bindings>>

\* Mutant: a line that is no header is logged, and that is all.
DriftIgnored ==
  /\ Reads({"text"}) /\ Item.kind = "drift"
  /\ Note /\ Steps /\ UNCHANGED <<res, bindings>>

\* A header of an unknown form: what follows does not belong to the last resource.
TextDrift ==
  /\ Reads({"text"}) /\ Item.kind = "drift"
  /\ res' = NoResource
  /\ Note /\ Steps /\ UNCHANGED bindings

TextOther ==
  /\ Reads({"text"}) /\ Item.kind \in {"blank", "other"}
  /\ IF Item.kind = "blank" THEN Passes ELSE Note
  /\ Steps /\ UNCHANGED <<res, bindings>>

(* script *)

IsCall == Item.kind = "call"

Understood == IsCall /\ Flattens(Item) /\ (Item.kafkaAcls => ~Item.cut)

NonAdd == subAction(Item.options) \in SubActions \ {"--add"}

ScriptRejects ==
  /\ Reads({"script"})
  /\ \/ ~Understood
     \/ Understood /\ Item.kafkaAcls /\ NonAdd /\ ~asked.ignoreNonAdd
  /\ Fails("rejected")

ScriptPasses ==
  /\ Reads({"script"}) /\ Understood /\ ~Item.kafkaAcls
  /\ Passes /\ Steps /\ UNCHANGED <<res, bindings>>

ScriptSkips ==
  /\ Reads({"script"}) /\ Understood /\ Item.kafkaAcls
  /\ subAction(Item.options) = Empty \/ (NonAdd /\ asked.ignoreNonAdd)
  /\ Note /\ Steps /\ UNCHANGED <<res, bindings>>

ScriptAdds ==
  /\ Reads({"script"}) /\ Understood /\ Item.kafkaAcls
  /\ subAction(Item.options) = "--add"
  /\ Emit(expand(Item.options))
  /\ Steps /\ UNCHANGED <<res, bindings>>

(* csv and json: the input numbers the rows *)

GivenRow ==
  /\ Reads({"csv", "json"}) /\ Item.kind = "record"
  /\ rows' = Append(rows, [id |-> Item.id, acl |-> Item.acl])
  /\ Steps /\ UNCHANGED <<res, nextId, bindings, noted>>

GivenComment ==
  /\ Reads({"csv"}) /\ Item.kind = "comment"
  /\ Passes /\ Steps /\ UNCHANGED <<res, bindings>>

\* A header without a column, a short record, an id that is no number; a document
\* that the schema does not allow.
GivenRejects ==
  /\ Reads({"csv", "json"})
  /\ \/ Item.kind = "malformed"
     \/ source = "json" /\ Item.kind = "record" /\ ~(Expressible(Item.acl) /\ Item.id >= 1)
  /\ Fails("rejected")

(* strimzi, cfk and k8s: documents.  k8s lists KafkaUsers, Kafkas and          *)
(* ConfluentRolebindings in this order; a kind that is not installed has none. *)

StrimziUser ==
  /\ Reads({"strimzi"}) /\ IsSimpleUser(Item)
  /\ Emit(StrimziRows(Item))
  /\ Steps /\ UNCHANGED <<res, bindings>>

CfkKafka ==
  /\ Reads({"cfk"}) /\ IsAuthorizedKafka(Item)
  /\ Emit(KafkaRows(Item))
  /\ Steps /\ UNCHANGED <<res, bindings>>

\* Each object is a stream of its own, numbered from 1.
K8sObject ==
  /\ Reads({"k8s"}) /\ (IsSimpleUser(Item) \/ IsAuthorizedKafka(Item))
  /\ LET cs == IF IsSimpleUser(Item) THEN StrimziRows(Item) ELSE KafkaRows(Item)
     IN  rows' = rows \o Numbered(cs, 1)
  /\ Steps /\ UNCHANGED <<res, nextId, bindings, noted>>

Rolebinding ==
  /\ Reads({"cfk", "k8s"}) /\ IsRolebinding(Item)
  /\ bindings' = bindings \cup {RolebindingOf(Item)}
  /\ Passes /\ Steps /\ UNCHANGED res

\* Malformed, of another kind, not authorized in a way that is understood, incomplete.
\* Only of a document without a kind does cfk say nothing.
DocumentSkipped ==
  /\ \/ Reads({"strimzi"}) /\ ~IsSimpleUser(Item)
     \/ Reads({"cfk"}) /\ ~IsAuthorizedKafka(Item) /\ ~IsRolebinding(Item)
     \/ Reads({"k8s"}) /\ ~(IsSimpleUser(Item) \/ IsAuthorizedKafka(Item) \/ IsRolebinding(Item))
  /\ IF source = "cfk" /\ Item.kind = Empty THEN Passes ELSE Note
  /\ Steps /\ UNCHANGED <<res, bindings>>

(* live: rows get their numbers at the end *)

Contents(rs) == {rs[i].acl : i \in DOMAIN rs}

Unnumbered(cs) == [i \in DOMAIN cs |-> [id |-> 0, acl |-> cs[i]]]

\* Mutant: an answer's ACLs are all appended.
DescribedAgain ==
  /\ Reads({"live"})
  /\ LET new == {a \in Described(kafka, Item) : Mappable(a)}
     IN  \E s \in Bijection(1..Cardinality(new), new) :
           rows' = rows \o Unnumbered(s)
  /\ Steps /\ UNCHANGED <<res, nextId, bindings, noted>>

\* ACLs that the representation has no word for are logged and left out.
LiveDescribe ==
  /\ Reads({"live"})
  /\ LET new == {a \in Described(kafka, Item) : Mappable(a)} \ Contents(rows)
     IN  \E s \in Bijection(1..Cardinality(new), new) :
           rows' = rows \o Unnumbered(s)
  /\ Steps /\ UNCHANGED <<res, nextId, bindings, noted>>

KafkaChanges ==
  /\ source = "live" /\ status = "reading" /\ changes < MaxChanges
  /\ \E a \in KafkaAcls : kafka' \in {kafka \cup {a}, kafka \ {a}} \ {kafka}
  /\ changes' = changes + 1
  /\ ever' = ever \cup kafka' /\ always' = always \cap kafka'
  /\ UNCHANGED <<chosen, pos, res, rows, nextId, bindings, noted, status, acls>>

-----------------------------------------------------------------------------
(* The end of the input *)

Exhausted(s) == status = "reading" /\ source \in s /\ pos > Len(input)

Ends ==
  /\ status' = "read"
  /\ UNCHANGED <<chosen, pos, res, nextId, bindings, noted, acls, cluster>>

PlainEnd == Exhausted({"text", "script", "csv", "json", "strimzi"}) /\ Ends /\ UNCHANGED rows

\* sort.Slice is not stable: rows that compare equal come in any order.
SortedRows(before(_, _)) ==
  {s \in {[i \in DOMAIN rows |-> rows[p[i]]] : p \in Bijection(DOMAIN rows, DOMAIN rows)} :
     \A i, j \in DOMAIN rows : i < j => ~before(s[j].acl, s[i].acl)}

ByPrincipalAndOperation(a, b) ==
  \/ PrincipalRank[a.principal] < PrincipalRank[b.principal]
  \/ PrincipalRank[a.principal] = PrincipalRank[b.principal] /\ WordRank[a.op] < WordRank[b.op]

ByPrincipalNameAndOperation(a, b) ==
  \/ PrincipalRank[a.principal] < PrincipalRank[b.principal]
  \/ /\ PrincipalRank[a.principal] = PrincipalRank[b.principal]
     /\ \/ NameRank[a.pattern.name] < NameRank[b.pattern.name]
        \/ NameRank[a.pattern.name] = NameRank[b.pattern.name] /\ WordRank[a.op] < WordRank[b.op]

Renumbered(rs) == [i \in DOMAIN rs |-> [rs[i] EXCEPT !.id = i]]

\* The rows are sorted, their numbers stay.
CfkSorts ==
  /\ Exhausted({"cfk"}) /\ Ends
  /\ rows' \in SortedRows(ByPrincipalAndOperation)

\* Mutant: the streams' numbers stay.
K8sKeepsNumbers == Exhausted({"k8s"}) /\ Ends /\ UNCHANGED rows

K8sRenumbers == Exhausted({"k8s"}) /\ Ends /\ rows' = Renumbered(rows)

LiveSorts ==
  /\ Exhausted({"live"}) /\ Ends
  /\ \E s \in SortedRows(ByPrincipalNameAndOperation) : rows' = Renumbered(s)

-----------------------------------------------------------------------------
(* WriteExtractedSet *)

\* No row at all is "acls": null to most sources, which the schema does not allow.
NullRows == rows = <<>> /\ source \notin {"json", "live"}

\* Mutant: the rows are validated after they have been written.
WriteThenValidate ==
  /\ status = "read"
  /\ status' = "invalid" /\ acls' = rows
  /\ UNCHANGED <<chosen, pos, res, rows, nextId, bindings, noted, cluster>>

WriteACLs ==
  /\ status = "read"
  /\ ~NullRows /\ \A i \in DOMAIN rows : Expressible(rows[i].acl) /\ rows[i].id >= 1
  /\ status' = "written" /\ acls' = rows
  /\ UNCHANGED <<chosen, pos, res, rows, nextId, bindings, noted, cluster>>

\* One row that cannot be expressed, and nothing is written.
WriteRejects ==
  /\ status = "read"
  /\ NullRows \/ \E i \in DOMAIN rows : ~(Expressible(rows[i].acl) /\ rows[i].id >= 1)
  /\ Fails("invalid")

Next ==
  \/ Unreadable
  \/ TextHeader \/ TextAcl \/ TextDrift \/ TextOther
  \/ ScriptRejects \/ ScriptPasses \/ ScriptSkips \/ ScriptAdds
  \/ GivenRow \/ GivenComment \/ GivenRejects
  \/ StrimziUser \/ CfkKafka \/ K8sObject \/ Rolebinding \/ DocumentSkipped
  \/ LiveDescribe \/ KafkaChanges
  \/ PlainEnd \/ CfkSorts \/ K8sRenumbers \/ LiveSorts
  \/ WriteACLs \/ WriteRejects

Spec == Init /\ [][Next]_vars

-----------------------------------------------------------------------------
(* What the items say, whatever comes before and after them: the references *)
(* that the properties compare rows with.                                   *)

\* An ACL line belongs to the nearest line above that is a header or looks like one.
TextStates(i) ==
  LET heads == {j \in 1..(i - 1) : input[j].kind \in {"header", "drift"}}
  IN  {LineContent(input[i], HeaderResource(input[h])) :
         h \in {j \in heads : /\ input[i].kind = "acl"
                              /\ \A k \in heads : k <= j
                              /\ input[j].kind = "header" /\ input[j].name # Empty}}

ValuesOf(options, flag) == {o.value : o \in {x \in ToSet(options) : x.flag = flag}}

\* What kafka-acls gives access to: operations on [type, name].
AccessOf(options) ==
  LET names(flag, t) == {[rtype |-> t, name |-> n] : n \in ValuesOf(options, flag)}
      topics == names("--topic", "Topic")
      groups == names("--group", "Group")
      tids   == names("--transactional-id", "TransactionalId")
      whole  == {[rtype |-> "Cluster", name |-> ClusterName]}
      clus   == IF "--cluster" \in Flags(options) THEN whole ELSE {}
      tokens == names("--delegation-token", "DelegationToken")
      asProducer == ({"Write", "Describe", "Create"} \X topics) \cup ({"Write", "Describe"} \X tids)
                      \cup (IF "--idempotent" \in Flags(options) THEN {"IdempotentWrite"} \X whole ELSE {})
      asConsumer == ({"Read", "Describe"} \X topics) \cup ({"Read"} \X groups)
      named  == {normalizeOp(w) : w \in ValuesOf(options, "--operation")}
  IN  CASE {"--producer", "--consumer"} \subseteq Flags(options) -> asProducer \cup asConsumer
        [] "--producer" \in Flags(options) /\ "--consumer" \notin Flags(options) -> asProducer
        [] "--consumer" \in Flags(options) /\ "--producer" \notin Flags(options) -> asConsumer
        [] OTHER -> (IF named = {} THEN {"All"} ELSE named)
                      \X (topics \cup groups \cup tids \cup clus \cup tokens)

\* --add: everyone named, on the hosts named for their permission or else on all.
CallStates(options) ==
  LET hosts(flag) == LET named == ValuesOf(options, flag) IN IF named = {} THEN {Star} ELSE named
      side(perm, pflag, hflag) ==
        {ContentOf(p, h, a[2].rtype, patternType(options), a[2].name, perm, a[1]) :
           p \in ValuesOf(options, pflag), h \in hosts(hflag), a \in AccessOf(options)}
  IN  IF subAction(options) = "--add"
        THEN side("Allow", "--allow-principal", "--allow-host")
               \cup side("Deny", "--deny-principal", "--deny-host")
        ELSE {}

UserStates(user) ==
  UNION {{ContentOf(user.principal, IF a.host = Empty THEN Star ELSE a.host,
                    strimziResourceType(a.rtype), strimziPatternType(a.ptype), a.name,
                    IF Upper[a.perm] = "DENY" THEN "Deny" ELSE "Allow", op) :
            op \in (IF a.operations = <<>> THEN {a.operation} \ {Empty} ELSE ToSet(a.operations))} :
         a \in ToSet(user.acls)}

StatedAt(i) ==
  LET it == input[i]
  IN  CASE source = "text" -> TextStates(i)
        [] source = "script" -> IF it.kind = "call" /\ it.kafkaAcls THEN CallStates(it.options) ELSE {}
        [] source \in {"csv", "json"} -> IF it.kind = "record" THEN {it.acl} ELSE {}
        [] source \in {"strimzi", "k8s"} /\ it.kind = "KafkaUser" ->
             IF it.auth = "simple" THEN UserStates(it) ELSE {}
        [] source \in {"cfk", "k8s"} /\ it.kind = "Kafka" ->
             {ContentOf(su, Star, "Cluster", "LITERAL", ClusterName, "Allow", "All") :
                su \in IF it.auth \in {"simple", "rbac"} THEN ToSet(it.superUsers) ELSE {}}
        [] OTHER -> {}

\* Items that say nothing about access.
Silent(it) ==
  \/ it.kind \in {"header", "blank", "comment", Empty}
  \/ it.kind = "call" /\ ~it.kafkaAcls

OneId(options) ==
  \A o, p \in ToSet(options) :
    o.flag = "--transactional-id" /\ p.flag = o.flag => o.value = p.value

Explicit(options) ==
  IF "--producer" \in Flags(options) THEN OneId(options)
  ELSE {"--consumer", "--operation"} \cap Flags(options) # {}

\* Calls that the script source passes over in part, without a word: it does not know
\* kafka-acls' default operation, All, and of several --transactional-id under
\* --producer it takes the last.
PassedOver(it) == it.kind = "call" /\ it.kafkaAcls /\ ~Explicit(it.options)

-----------------------------------------------------------------------------
(* Properties *)

\* What is in acls.json can be read back as rows of the intermediate representation.
TypeOK ==
  /\ source \in ReaderSource \cup {"live"} /\ pos \in 1..(Len(input) + 1)
  /\ res \in Resource
  /\ rows \in Seq([id : Int, acl : Content]) /\ nextId \in Nat \ {0}
  /\ noted \subseteq 1..Len(input)
  /\ status \in {"reading", "read", "written"} \cup Failures
  /\ acls \in Seq([id : Nat \ {0}, acl : Row])
  /\ always \subseteq kafka /\ kafka \subseteq ever
  /\ ever \subseteq IF source = "live" THEN KafkaAcls ELSE {}
  /\ changes \in 0..MaxChanges

\* text.go:107-110 and argv.go:153-155: nobody gets a row that the input does not
\* state: no ACL moves to another resource, no host is widened, and a live row was in
\* Kafka at some time during the extract.
NothingInvented ==
  Contents(acls) \subseteq
    IF source = "live" THEN ever ELSE UNION {StatedAt(i) : i \in DOMAIN input}

WantedTopic(a) ==
  asked.topics = <<>> \/ (a.rtype = "Topic" /\ \E t \in ToSet(asked.topics) : Matches(a.pattern, t))

\* ACLs the filters ask for, as filter.go:12-14 describes them.
Asked(a) ==
  /\ asked.principals = <<>> \/ a.principal \in ToSet(asked.principals)
  /\ WantedTopic(a)

LiveLost == {a \in always : Mappable(a) /\ Asked(a)} \ Contents(acls)

\* README.md:741: no ACL is silently dropped.  Whatever an item of the input states is a
\* row (or an inventoried binding), or the log has a line for that item, unless it is a
\* call that is passed over; and an ACL that was in Kafka throughout is a row, unless a
\* filter on principals misses its host (filter.go:61; filter.go:12-14 has "any host").
NothingLost ==
  status = "written" =>
    /\ \A i \in DOMAIN input :
         source # "live" /\ i \notin noted /\ ~(Silent(input[i]) \/ PassedOver(input[i])) =>
           /\ StatedAt(i) \subseteq Contents(acls)
           /\ IF source \in {"cfk", "k8s"} /\ input[i].kind = "ConfluentRolebinding"
                THEN RolebindingOf(input[i]) \in bindings
                ELSE source = "text" => StatedAt(i) # {}
    /\ \A a \in LiveLost : asked.principals # <<>> /\ a.host # Star

\* k8s.go:133: the rows' numbers are 1 to n, each once, when the source counts them:
\* plan.json and verify.json name rows by them.
IdsIdentify ==
  source \notin {"csv", "json"} =>
    {acls[i].id : i \in DOMAIN acls} = DOMAIN acls

\* live.go:106-109: however often filters meet the same ACL, there is one row of it.
LiveRowsDiffer ==
  source = "live" => \A i, j \in DOMAIN acls : i # j => acls[i].acl # acls[j].acl

\* The options add this row and nothing else.
Adds(options, r) == subAction(options) = "--add" /\ expand(options) = <<r>>

\* README.md:805: the lines of rollback.sh and rollback-deny.sh re-create exactly the rows
\* of acls.json that the deletion scripts may remove, with their hosts.
RollbackRestores ==
  \A r \in Contents(acls) :
    r.rtype # "Subject" /\ (r.rtype = "Cluster" => r.pattern.name = ClusterName) =>
      /\ r.perm = "Allow" /\ r.host = Star => Adds(writeAdd(r), r)
      /\ r.perm = "Deny" => Adds(writeAddDeny(r), r)

-----------------------------------------------------------------------------
(* The inductive strengthening of the invariants *)

\* The extract works on what it was given.
Chosen ==
  IF source = "live"
    THEN asked \in Filters /\ input = buildFilters(asked.principals, asked.topics)
    ELSE input \in Inputs[source]

\* The current resource is that of the nearest header or drift so far.
Heads == {j \in 1..(pos - 1) : input[j].kind \in {"header", "drift"}}

UnderResource ==
  source = "text" =>
    \/ Heads = {} /\ res = NoResource
    \/ \E h \in Heads :
         /\ \A k \in Heads : k <= h
         /\ res = IF input[h].kind = "header" THEN HeaderResource(input[h]) ELSE NoResource

\* Each row goes back to an item behind the reader, or to Kafka.
Stated ==
  Contents(rows) \subseteq
    IF source = "live" THEN ever ELSE UNION {StatedAt(i) : i \in 1..(pos - 1)}

\* What an item behind the reader has become of.
Kept(i) ==
  /\ StatedAt(i) \subseteq Contents(rows)
  /\ IF source \in {"cfk", "k8s"} /\ input[i].kind = "ConfluentRolebinding"
       THEN RolebindingOf(input[i]) \in bindings
       ELSE source = "text" => StatedAt(i) # {}

AllKept ==
  \A i \in 1..(pos - 1) :
    source # "live" /\ i \notin noted /\ ~(Silent(input[i]) \/ PassedOver(input[i])) => Kept(i)

\* An ACL that was there all the time was in every answer it matches.
AllDescribed ==
  source = "live" =>
    \A i \in 1..(pos - 1) :
      {a \in Described(always, input[i]) : Mappable(a)} \subseteq Contents(rows)

\* The counter is one ahead of the rows; after the last item numbers are 1 to n.
Counted ==
  /\ source \in {"text", "script", "strimzi", "cfk"} /\ status = "reading" =>
       nextId = Len(rows) + 1 /\ \A i \in DOMAIN rows : rows[i].id = i
  /\ source \notin {"csv", "json"} /\ status \in {"read", "written"} =>
       {rows[i].id : i \in DOMAIN rows} = DOMAIN rows

RowsDiffer ==
  source = "live" => \A i, j \in DOMAIN rows : i # j => rows[i].acl # rows[j].acl

\* The rows are written as they are when all items have been read, or not at all.
AllOrNothing ==
  /\ status \in {"read", "written"} => pos = Len(input) + 1
  /\ IF status = "written" THEN acls = rows ELSE acls = <<>>

ExtractInv ==
  /\ TypeOK /\ Chosen
  /\ UnderResource /\ Stated
  /\ Counted /\ RowsDiffer /\ AllOrNothing

KeptInv == ExtractInv /\ AllKept /\ AllDescribed
=============================================================================

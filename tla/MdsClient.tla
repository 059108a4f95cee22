------------------------------ MODULE MdsClient ------------------------------
(***************************************************************************)
(* Requests of one shared MDS client (pkg/aclrbac/mds/client.go): `apply`  *)
(* and `verify` run many at once.  Each goes through do: a round of        *)
(* attempts, each with the bearer token of the moment; after a 401 the     *)
(* token is resolved again under tokenMu and a second round follows.       *)
(*                                                                         *)
(* Tokens are numbered in the order the MDS issues them.  A worker here is *)
(* one request; delays between attempts are not modelled.                  *)
(***************************************************************************)
EXTENDS Naturals

CONSTANTS
  Worker,       \* concurrent requests
  None,         \* tokenMu is free; not a worker
  MaxRetries,   \* --max-retries
  MaxIssued     \* bound: tokens the MDS issues after the first

ASSUME ClientAssumption ==
  /\ None \notin Worker
  /\ MaxRetries \in Nat
  /\ MaxIssued \in Nat

VARIABLES
  tokenSource,  \* whether the client was given a TokenSource
  token,        \* Client.token
  tokenMu,      \* the worker that holds tokenMu across tokenSource, or None
  issued,       \* the youngest token
  valid,        \* the tokens the MDS accepts
  pc,           \* where each request is
  round,        \* 1, or 2 after the refresh
  tries,        \* attempts given up in this round
  sent,         \* the token of the attempt under way, or of the last one
  old,          \* do's argument to refreshToken
  got,          \* what tokenSource returned
  resolutions,  \* history: answers of tokenSource so far,
  seen          \*   and how many of them each request's first round could know of

source  == <<tokenSource, token, tokenMu, issued, resolutions>>
request == <<round, tries, sent, old, got, seen>>
vars    == <<source, valid, pc, request>>

Token  == 0..MaxIssued
Round  == 1..2
Ended  == {"ok", "denied", "failed"}
Stage  == {"attempt", "wire", "unauthorized", "refresh", "resolving", "install"} \cup Ended

\* Types, and that a round never has more attempts than MaxRetries + 1.
TypeOK ==
  /\ tokenSource \in BOOLEAN
  /\ token \in Token /\ issued \in Token
  /\ tokenMu \in Worker \cup {None}
  /\ valid \subseteq Token
  /\ pc \in [Worker -> Stage]
  /\ round \in [Worker -> Round]
  /\ tries \in [Worker -> 0..MaxRetries]
  /\ sent \in [Worker -> Token] /\ old \in [Worker -> Token] /\ got \in [Worker -> Token]
  /\ resolutions \in Nat
  /\ seen \in [Worker -> Nat]

Init ==
  /\ tokenSource \in BOOLEAN
  /\ token = 0 /\ issued = 0 /\ valid = {0}
  /\ tokenMu = None
  /\ pc = [w \in Worker |-> "attempt"]
  /\ round = [w \in Worker |-> 1]
  /\ tries = [w \in Worker |-> 0]
  /\ sent = [w \in Worker |-> 0] /\ old = [w \in Worker |-> 0] /\ got = [w \in Worker |-> 0]
  /\ resolutions = 0
  /\ seen = [w \in Worker |-> 0]

Step(w, from, to) ==
  /\ pc[w] = from
  /\ pc' = [pc EXCEPT ![w] = to]

MuFree == tokenMu = None

-----------------------------------------------------------------------------
(* attempt *)

\* One turn of attempt's loop: getToken waits for tokenMu, the request goes out.
SendAttempt(w) ==
  /\ MuFree
  /\ Step(w, "attempt", "wire")
  /\ sent' = [sent EXCEPT ![w] = token]
  /\ seen' = IF round[w] = 1 THEN [seen EXCEPT ![w] = resolutions] ELSE seen
  /\ UNCHANGED <<source, valid, round, tries, old, got>>

Accepted(w) ==
  /\ sent[w] \in valid
  /\ Step(w, "wire", "ok")
  /\ UNCHANGED <<source, valid, request>>

\* Mutant: the last retry is not the last.
RetryOnce(w) ==
  /\ pc[w] = "wire"
  /\ IF tries[w] <= MaxRetries
       THEN Step(w, "wire", "attempt") /\ tries' = [tries EXCEPT ![w] = @ + 1]
       ELSE Step(w, "wire", "failed") /\ UNCHANGED tries
  /\ UNCHANGED <<source, valid, round, sent, old, got, seen>>

\* shouldRetry: 429, 500, 502, 503, 504, or the connection broke.
Transient(w) ==
  /\ IF tries[w] < MaxRetries
       THEN Step(w, "wire", "attempt") /\ tries' = [tries EXCEPT ![w] = @ + 1]
       ELSE Step(w, "wire", "failed") /\ UNCHANGED tries
  /\ UNCHANGED <<source, valid, round, sent, old, got, seen>>

\* Any other 4xx, or the client's timeout: no retry, no refresh.
Refused(w) ==
  /\ Step(w, "wire", "failed")
  /\ UNCHANGED <<source, valid, request>>

\* 401: once, do goes on to refresh the token, if the client has a TokenSource.
Unauthorized(w) ==
  /\ sent[w] \notin valid
  /\ Step(w, "wire", IF round[w] = 1 /\ tokenSource THEN "unauthorized" ELSE "denied")
  /\ UNCHANGED <<source, valid, request>>

-----------------------------------------------------------------------------
(* do, refreshToken *)

\* c.getToken(): the client's token by now, which is what refreshToken is told
\* the caller saw fail.
NameFailed(w) ==
  /\ MuFree
  /\ Step(w, "unauthorized", "refresh")
  /\ old' = [old EXCEPT ![w] = token]
  /\ UNCHANGED <<source, valid, round, tries, sent, got, seen>>

SecondRound(w) ==
  /\ round' = [round EXCEPT ![w] = 2]
  /\ tries' = [tries EXCEPT ![w] = 0]

\* Mutant: the comparison with old is the wrong way round.
SkipUnrefreshed(w) ==
  /\ MuFree /\ token = old[w]
  /\ Step(w, "refresh", "attempt")
  /\ SecondRound(w)
  /\ UNCHANGED <<source, valid, sent, old, got, seen>>

\* refreshToken finds that somebody has refreshed the token in between.
AlreadyRefreshed(w) ==
  /\ MuFree /\ token # old[w]
  /\ Step(w, "refresh", "attempt")
  /\ SecondRound(w)
  /\ UNCHANGED <<source, valid, sent, old, got, seen>>

\* Mutant: tokenSource is called without tokenMu.
ResolveUnlocked(w) ==
  /\ token = old[w]
  /\ Step(w, "refresh", "resolving")
  /\ UNCHANGED <<source, valid, request>>

\* It calls tokenSource, with tokenMu held until it returns.
Resolve(w) ==
  /\ MuFree /\ token = old[w]
  /\ Step(w, "refresh", "resolving")
  /\ tokenMu' = w
  /\ UNCHANGED <<tokenSource, token, issued, resolutions, valid, request>>

\* The MDS authenticates the user and issues a token ...
Issue(w) ==
  /\ issued < MaxIssued
  /\ Step(w, "resolving", "install")
  /\ issued' = issued + 1
  /\ valid' = valid \cup {issued + 1}
  /\ got' = [got EXCEPT ![w] = issued + 1]
  /\ resolutions' = resolutions + 1
  /\ UNCHANGED <<tokenSource, token, tokenMu, round, tries, sent, old, seen>>

\* ... or the token file, or the cache, still has the token it had.
Reread(w) ==
  /\ Step(w, "resolving", "install")
  /\ got' = [got EXCEPT ![w] = token]
  /\ resolutions' = resolutions + 1
  /\ UNCHANGED <<tokenSource, token, tokenMu, issued, valid, round, tries, sent, old, seen>>

Release(w) == tokenMu' = IF tokenMu = w THEN None ELSE tokenMu

Install(w) ==
  /\ Step(w, "install", "attempt")
  /\ token' = got[w]
  /\ Release(w)
  /\ SecondRound(w)
  /\ UNCHANGED <<tokenSource, issued, resolutions, valid, sent, old, got, seen>>

\* Mutant: an early return forgets tokenMu.
FailLocked(w) ==
  /\ Step(w, "resolving", "failed")
  /\ UNCHANGED <<source, valid, request>>

\* tokenSource fails: "token refresh after 401".
ResolveFails(w) ==
  /\ Step(w, "resolving", "failed")
  /\ Release(w)
  /\ UNCHANGED <<tokenSource, token, issued, resolutions, valid, request>>

-----------------------------------------------------------------------------
\* A token expires.
Expire ==
  /\ \E t \in valid : valid' = valid \ {t}
  /\ UNCHANGED <<source, pc, request>>

Progress(w) ==
  \/ SendAttempt(w)
  \/ Accepted(w)
  \/ Transient(w)
  \/ Refused(w)
  \/ Unauthorized(w)
  \/ NameFailed(w)
  \/ AlreadyRefreshed(w)
  \/ Resolve(w)
  \/ Issue(w)
  \/ Reread(w)
  \/ Install(w)
  \/ ResolveFails(w)

Next == (\E w \in Worker : Progress(w)) \/ Expire

Spec == Init /\ [][Next]_vars

\* An HTTP call ends, within the client's timeout, and the Go scheduler runs some
\* goroutine that can run.
FairSpec == Spec /\ WF_vars(\E w \in Worker : Progress(w))

-----------------------------------------------------------------------------
(* Properties *)

\* Two refreshes cannot overtake each other: no token is replaced by an older one,
\* however slow the answers of the token endpoint are.
TokenNeverGoesBack == [][token' >= token]_vars

\* Where the client has a TokenSource, no request is denied on a token nobody tried to
\* replace: if it ends in a 401, tokenSource has answered since its first round picked
\* up its last token.
DeniedOnlyAfterRefresh ==
  tokenSource => \A w \in Worker : pc[w] = "denied" => resolutions > seen[w]

\* Every request ends: no worker is left waiting for tokenMu.
RequestsEnd == <>(\A w \in Worker : pc[w] \in Ended)

\* The inductive strengthening.  tokenMu is held by the one worker between its call
\* of tokenSource and the assignment; nobody sends an attempt meanwhile, so its
\* resolution is news to every request; and a token that differs from the one a
\* request was told of has been installed since, by such a resolution.
HolderResolves ==
  \A w \in Worker : pc[w] \in {"resolving", "install"} <=> tokenMu = w

TokensAreIssued ==
  /\ token <= issued
  /\ \A w \in Worker : pc[w] = "install" => token <= got[w] /\ got[w] <= issued

RefreshCounts ==
  \A w \in Worker :
    /\ seen[w] <= resolutions
    /\ (\E v \in Worker : pc[v] = "install") => resolutions > seen[w]
    /\ pc[w] = "refresh" /\ token # old[w] => resolutions > seen[w]
    /\ round[w] = 2 => resolutions > seen[w]
    /\ tokenSource /\ pc[w] = "denied" => round[w] = 2

ClientInv ==
  TypeOK /\ HolderResolves /\ TokensAreIssued /\ RefreshCounts
=============================================================================

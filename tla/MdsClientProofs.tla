--------------------------- MODULE MdsClientProofs ---------------------------
(* Proofs about MdsClient, for any number of requests, retries and tokens.   *)
EXTENDS MdsClient, TLAPS

\* Every step keeps the types.
LEMMA TypeStep ==
  ASSUME ClientAssumption, TypeOK, [Next]_vars
  PROVE  TypeOK'
<1> USE DEF TypeOK, Stage, Ended, Token, Round, source, request
<1>1. ASSUME NEW w \in Worker, Progress(w)
      PROVE  TypeOK'
  <2>1. CASE SendAttempt(w)
    BY <2>1 DEF SendAttempt, Step
  <2>2. CASE Accepted(w)
    BY <2>2 DEF Accepted, Step
  <2>3. CASE Transient(w)
    <3>1. tries' \in [Worker -> 0..MaxRetries]
      BY <2>3 DEF Transient, ClientAssumption
    <3> QED BY <2>3, <3>1 DEF Transient, Step
  <2>4. CASE Refused(w)
    BY <2>4 DEF Refused, Step
  <2>5. CASE Unauthorized(w)
    BY <2>5 DEF Unauthorized, Step
  <2>6. CASE NameFailed(w)
    BY <2>6 DEF NameFailed, Step
  <2>7. CASE AlreadyRefreshed(w)
    BY <2>7 DEF AlreadyRefreshed, SecondRound, Step, ClientAssumption
  <2>8. CASE Resolve(w)
    BY <2>8 DEF Resolve, Step
  <2>9. CASE Issue(w)
    <3>1. issued + 1 \in Token
      BY <2>9 DEF Issue, ClientAssumption
    <3> QED BY <2>9, <3>1 DEF Issue, Step
  <2>10. CASE Reread(w)
    BY <2>10 DEF Reread, Step
  <2>11. CASE Install(w)
    BY <2>11 DEF Install, Release, SecondRound, Step, ClientAssumption
  <2>12. CASE ResolveFails(w)
    BY <2>12 DEF ResolveFails, Release, Step
  <2> QED BY <1>1, <2>1, <2>2, <2>3, <2>4, <2>5, <2>6, <2>7, <2>8, <2>9, <2>10, <2>11,
            <2>12 DEF Progress
<1>2. CASE Expire
  BY <1>2 DEF Expire
<1>3. CASE UNCHANGED vars
  BY <1>3 DEF vars
<1> QED BY <1>1, <1>2, <1>3 DEF Next

\* The client's variables always have their types: in particular a round never has
\* more than MaxRetries + 1 attempts, and a request never more than two rounds.
THEOREM TypeCorrect ==
  ASSUME ClientAssumption PROVE Spec => []TypeOK
<1>1. Init => TypeOK
  BY DEF Init, TypeOK, Stage, Ended, Token, Round, ClientAssumption
<1>2. TypeOK /\ [Next]_vars => TypeOK'
  BY TypeStep
<1> QED BY <1>1, <1>2, PTL DEF Spec
-----------------------------------------------------------------------------
(***************************************************************************)
(* The inductive invariant.  A 401 that ends a request says nothing of     *)
(* what the other requests did meanwhile: that somebody's resolution lies  *)
(* between it and the request's first round follows from who holds tokenMu *)
(* when (HolderResolves) and from what every request can have seen by then *)
(* (RefreshCounts).                                                        *)
(***************************************************************************)

\* tokenMu is held exactly from the call of tokenSource to the assignment.
LEMMA HolderStep ==
  ASSUME ClientAssumption, TypeOK, HolderResolves, [Next]_vars
  PROVE  HolderResolves'
<1> USE DEF source, request, MuFree
<1>1. ASSUME NEW w \in Worker, Progress(w)
      PROVE  HolderResolves'
  <2>1. CASE SendAttempt(w)
    BY <1>1, <2>1 DEF SendAttempt, Step, HolderResolves, TypeOK, ClientAssumption
  <2>2. CASE Accepted(w)
    BY <1>1, <2>2 DEF Accepted, Step, HolderResolves, TypeOK, ClientAssumption
  <2>3. CASE Transient(w)
    BY <1>1, <2>3 DEF Transient, Step, HolderResolves, TypeOK, ClientAssumption
  <2>4. CASE Refused(w)
    BY <1>1, <2>4 DEF Refused, Step, HolderResolves, TypeOK, ClientAssumption
  <2>5. CASE Unauthorized(w)
    BY <1>1, <2>5 DEF Unauthorized, Step, HolderResolves, TypeOK, ClientAssumption
  <2>6. CASE NameFailed(w)
    BY <1>1, <2>6 DEF NameFailed, Step, HolderResolves, TypeOK, ClientAssumption
  <2>7. CASE AlreadyRefreshed(w)
    BY <1>1, <2>7 DEF AlreadyRefreshed, Step, SecondRound, HolderResolves, TypeOK,
                      ClientAssumption
  <2>8. CASE Resolve(w)
    BY <1>1, <2>8 DEF Resolve, Step, HolderResolves, TypeOK, ClientAssumption
  <2>9. CASE Issue(w)
    BY <1>1, <2>9 DEF Issue, Step, HolderResolves, TypeOK, ClientAssumption
  <2>10. CASE Reread(w)
    BY <1>1, <2>10 DEF Reread, Step, HolderResolves, TypeOK, ClientAssumption
  <2>11. CASE Install(w)
    BY <1>1, <2>11 DEF Install, Step, Release, SecondRound, HolderResolves, TypeOK,
                       ClientAssumption
  <2>12. CASE ResolveFails(w)
    BY <1>1, <2>12 DEF ResolveFails, Step, Release, HolderResolves, TypeOK,
                       ClientAssumption
  <2> QED BY <1>1, <2>1, <2>2, <2>3, <2>4, <2>5, <2>6, <2>7, <2>8, <2>9, <2>10, <2>11,
            <2>12 DEF Progress
<1>2. CASE Expire \/ UNCHANGED vars
  BY <1>2 DEF Expire, vars, HolderResolves
<1> QED BY <1>1, <1>2 DEF Next

\* A token is resolved while the one it replaces stays in place.
LEMMA TokensStep ==
  ASSUME ClientAssumption, TypeOK, HolderResolves, TokensAreIssued, [Next]_vars
  PROVE  TokensAreIssued'
<1> USE DEF source, request, MuFree, Token
<1>1. ASSUME NEW w \in Worker, Progress(w)
      PROVE  TokensAreIssued'
  <2>1. CASE SendAttempt(w)
    BY <1>1, <2>1 DEF SendAttempt, Step, TokensAreIssued, HolderResolves, TypeOK,
                      ClientAssumption
  <2>2. CASE Accepted(w)
    BY <1>1, <2>2 DEF Accepted, Step, TokensAreIssued, HolderResolves, TypeOK,
                      ClientAssumption
  <2>3. CASE Transient(w)
    BY <1>1, <2>3 DEF Transient, Step, TokensAreIssued, HolderResolves, TypeOK,
                      ClientAssumption
  <2>4. CASE Refused(w)
    BY <1>1, <2>4 DEF Refused, Step, TokensAreIssued, HolderResolves, TypeOK,
                      ClientAssumption
  <2>5. CASE Unauthorized(w)
    BY <1>1, <2>5 DEF Unauthorized, Step, TokensAreIssued, HolderResolves, TypeOK,
                      ClientAssumption
  <2>6. CASE NameFailed(w)
    BY <1>1, <2>6 DEF NameFailed, Step, TokensAreIssued, HolderResolves, TypeOK,
                      ClientAssumption
  <2>7. CASE AlreadyRefreshed(w)
    BY <1>1, <2>7 DEF AlreadyRefreshed, Step, SecondRound, TokensAreIssued,
                      HolderResolves, TypeOK, ClientAssumption
  <2>8. CASE Resolve(w)
    BY <1>1, <2>8 DEF Resolve, Step, TokensAreIssued, HolderResolves, TypeOK,
                      ClientAssumption
  <2>9. CASE Issue(w)
    BY <1>1, <2>9 DEF Issue, Step, TokensAreIssued, HolderResolves, TypeOK,
                      ClientAssumption
  <2>10. CASE Reread(w)
    BY <1>1, <2>10 DEF Reread, Step, TokensAreIssued, HolderResolves, TypeOK,
                       ClientAssumption
  <2>11. CASE Install(w)
    BY <1>1, <2>11 DEF Install, Step, Release, SecondRound, TokensAreIssued,
                       HolderResolves, TypeOK, ClientAssumption
  <2>12. CASE ResolveFails(w)
    BY <1>1, <2>12 DEF ResolveFails, Step, Release, TokensAreIssued, HolderResolves,
                       TypeOK, ClientAssumption
  <2> QED BY <1>1, <2>1, <2>2, <2>3, <2>4, <2>5, <2>6, <2>7, <2>8, <2>9, <2>10, <2>11,
            <2>12 DEF Progress
<1>2. CASE Expire \/ UNCHANGED vars
  BY <1>2 DEF Expire, vars, TokensAreIssued
<1> QED BY <1>1, <1>2 DEF Next

\* What a request can have seen of the resolutions.
LEMMA CountsStep ==
  ASSUME ClientAssumption, TypeOK, HolderResolves, RefreshCounts, [Next]_vars
  PROVE  RefreshCounts'
<1> USE DEF source, request, MuFree, Token, Round
<1>1. ASSUME NEW w \in Worker, Progress(w)
      PROVE  RefreshCounts'
  <2>1. CASE SendAttempt(w)
    BY <1>1, <2>1 DEF SendAttempt, Step, RefreshCounts, HolderResolves, TypeOK,
                      ClientAssumption
  <2>2. CASE Accepted(w)
    BY <1>1, <2>2 DEF Accepted, Step, RefreshCounts, HolderResolves, TypeOK,
                      ClientAssumption
  <2>3. CASE Transient(w)
    BY <1>1, <2>3 DEF Transient, Step, RefreshCounts, HolderResolves, TypeOK,
                      ClientAssumption
  <2>4. CASE Refused(w)
    BY <1>1, <2>4 DEF Refused, Step, RefreshCounts, HolderResolves, TypeOK,
                      ClientAssumption
  <2>5. CASE Unauthorized(w)
    BY <1>1, <2>5 DEF Unauthorized, Step, RefreshCounts, HolderResolves, TypeOK,
                      ClientAssumption
  <2>6. CASE NameFailed(w)
    BY <1>1, <2>6 DEF NameFailed, Step, RefreshCounts, HolderResolves, TypeOK,
                      ClientAssumption
  <2>7. CASE AlreadyRefreshed(w)
    BY <1>1, <2>7 DEF AlreadyRefreshed, Step, SecondRound, RefreshCounts,
                      HolderResolves, TypeOK, ClientAssumption
  <2>8. CASE Resolve(w)
    BY <1>1, <2>8 DEF Resolve, Step, RefreshCounts, HolderResolves, TypeOK,
                      ClientAssumption
  <2>9. CASE Issue(w)
    BY <1>1, <2>9 DEF Issue, Step, RefreshCounts, HolderResolves, TypeOK, ClientAssumption
  <2>10. CASE Reread(w)
    BY <1>1, <2>10 DEF Reread, Step, RefreshCounts, HolderResolves, TypeOK,
                       ClientAssumption
  <2>11. CASE Install(w)
    BY <1>1, <2>11 DEF Install, Step, Release, SecondRound, RefreshCounts,
                       HolderResolves, TypeOK, ClientAssumption
  <2>12. CASE ResolveFails(w)
    BY <1>1, <2>12 DEF ResolveFails, Step, Release, RefreshCounts, HolderResolves,
                       TypeOK, ClientAssumption
  <2> QED BY <1>1, <2>1, <2>2, <2>3, <2>4, <2>5, <2>6, <2>7, <2>8, <2>9, <2>10, <2>11,
            <2>12 DEF Progress
<1>2. CASE Expire \/ UNCHANGED vars
  BY <1>2 DEF Expire, vars, RefreshCounts
<1> QED BY <1>1, <1>2 DEF Next

\* The strengthening holds in every reachable state.
THEOREM ClientInvariant ==
  ASSUME ClientAssumption PROVE Spec => []ClientInv
<1>1. Init => ClientInv
  BY DEF Init, ClientInv, TypeOK, Stage, Ended, Token, Round, HolderResolves,
         TokensAreIssued, RefreshCounts, ClientAssumption
<1>2. ClientInv /\ [Next]_vars => ClientInv'
  BY TypeStep, HolderStep, TokensStep, CountsStep DEF ClientInv
<1> QED BY <1>1, <1>2, PTL DEF Spec

\* No request of a client with a TokenSource ends in a 401 unless tokenSource has
\* answered since its first round picked up its last token (do, client.go:219-230).
THEOREM DeniedOnlyAfterRefreshHolds ==
  ASSUME ClientAssumption PROVE Spec => []DeniedOnlyAfterRefresh
<1>1. ClientInv => DeniedOnlyAfterRefresh
  BY DEF ClientInv, RefreshCounts, DeniedOnlyAfterRefresh
<1> QED BY <1>1, ClientInvariant, PTL

\* No token is replaced by an older one: tokenMu is held across tokenSource
\* (refreshToken, client.go:244-259).
THEOREM TokenNeverGoesBackHolds ==
  ASSUME ClientAssumption PROVE Spec => TokenNeverGoesBack
<1>1. ClientInv /\ [Next]_vars => token' >= token
  <2> SUFFICES ASSUME ClientInv, [Next]_vars
               PROVE  token' >= token
    OBVIOUS
  <2>1. token \in Nat
    BY DEF ClientInv, TypeOK, Token, ClientAssumption
  <2>2. \/ token' = token
        \/ \E w \in Worker : Install(w)
    BY DEF Next, Expire, vars, source, Progress, SendAttempt, Accepted, Transient,
           Refused,
           Unauthorized, NameFailed, AlreadyRefreshed, Resolve, Issue, Reread, ResolveFails
  <2>3. ASSUME NEW w \in Worker, Install(w)
        PROVE  token' >= token
    BY <2>1, <2>3 DEF Install, Step, ClientInv, TokensAreIssued, TypeOK, Token
  <2> QED BY <2>1, <2>2, <2>3
<1>2. ClientInv /\ [Next]_vars => [token' >= token]_vars
  BY <1>1
<1> QED BY <1>2, ClientInvariant, PTL DEF Spec, TokenNeverGoesBack
=============================================================================

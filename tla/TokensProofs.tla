---------------------------- MODULE TokensProofs ----------------------------
(***************************************************************************)
(* Tokens for any users, requests and number of tokens, restarts included: *)
(* sessions fork only by a restart, logouts hold, and a request is refused *)
(* for its own token only.                                                 *)
(***************************************************************************)
EXTENDS Tokens, SequenceTheorems, TLAPS

\* A session is named after a token that exists.
SessionsIssued == \A t \in Issued : tokens[t].session \in Issued

\* The access tokens that are revoked.
RevokedAccess == {t \in revoked : tokens[t].type = "access"}

\* Whatever the process has logged out is an access token and revoked, and a
\* request in flight arrived at this process, so what was logged out then is
\* revoked still.
LogoutsKept ==
    /\ loggedOut \subseteq RevokedAccess
    /\ \A r \in InFlight : dead[r] \subseteq RevokedAccess

\* A request that has passed decode_token presents a token of the right type.
DecodedType ==
    \A r \in Requests :
        pc[r] \in {"decoded", "admitted", "redeemed"} => tokens[token[r]].type = Expected(r)

\* Only a refresh redeems, and only another request is admitted.
KindOfRedeemed ==
    \A r \in Requests :
        /\ pc[r] = "redeemed" => kind[r] = "refresh"
        /\ pc[r] = "admitted" => kind[r] # "refresh"

TokensInv ==
    /\ TypeOK /\ SessionsIssued /\ LogoutsKept /\ DecodedType /\ KindOfRedeemed
    /\ SessionForksOnlyByRestart /\ LogoutHolds /\ RefusedForItsOwnToken

-----------------------------------------------------------------------------
\* Appending a pair to a sequence.
LEMMA TwoMore ==
    ASSUME NEW S, NEW q \in Seq(S), NEW a \in S, NEW b \in S
    PROVE  /\ q \o <<a, b>> \in Seq(S)
           /\ Len(q \o <<a, b>>) = Len(q) + 2
           /\ \A i \in 1 .. Len(q) : (q \o <<a, b>>)[i] = q[i]
           /\ (q \o <<a, b>>)[Len(q) + 1] = a /\ (q \o <<a, b>>)[Len(q) + 2] = b
<1> DEFINE p == <<a, b>>
<1>1. p \in Seq(S) /\ Len(p) = 2 /\ p[1] = a /\ p[2] = b /\ Len(q) \in Nat
  OBVIOUS
<1> HIDE DEF p
<1>2. /\ q \o p \in Seq(S) /\ Len(q \o p) = Len(q) + Len(p)
      /\ \A i \in 1 .. Len(q) + Len(p) :
            (q \o p)[i] = IF i <= Len(q) THEN q[i] ELSE p[i - Len(q)]
  BY <1>1, ConcatProperties
<1>3. \A i \in 1 .. Len(q) : (q \o p)[i] = q[i]
  BY <1>1, <1>2
<1>4. (q \o p)[Len(q) + 1] = a /\ (q \o p)[Len(q) + 2] = b
  BY <1>1, <1>2
<1> QED BY <1>1, <1>2, <1>3, <1>4 DEF p

(***************************************************************************)
(* Login and refresh append a pair: the tokens there were stay what they   *)
(* were.                                                                   *)
(***************************************************************************)
LEMMA PairAppended ==
    ASSUME TypeOK, NEW u \in Users, NEW s \in Nat, tokens' = tokens \o Pair(u, s)
    PROVE  /\ tokens' \in Seq(Claims)
           /\ Len(tokens) \in Nat /\ Len(tokens') = Len(tokens) + 2
           /\ Issued' = Issued \cup {Len(tokens) + 1, Len(tokens) + 2}
           /\ \A t \in Issued : tokens'[t] = tokens[t]
           /\ tokens'[Len(tokens) + 1] = [type |-> "access", user |-> u, session |-> s]
           /\ tokens'[Len(tokens) + 2] = [type |-> "refresh", user |-> u, session |-> s]
<1> DEFINE a == [type |-> "access", user |-> u, session |-> s]
           b == [type |-> "refresh", user |-> u, session |-> s]
<1>1. tokens \in Seq(Claims) /\ Len(tokens) \in Nat /\ a \in Claims /\ b \in Claims
  BY DEF TypeOK, Claims
<1>2. tokens' = tokens \o <<a, b>>
  BY DEF Pair
<1> HIDE DEF a, b
<1>3. /\ tokens' \in Seq(Claims) /\ Len(tokens') = Len(tokens) + 2
      /\ \A t \in 1 .. Len(tokens) : tokens'[t] = tokens[t]
      /\ tokens'[Len(tokens) + 1] = a /\ tokens'[Len(tokens) + 2] = b
  BY <1>1, <1>2, TwoMore
<1>4. 1 .. (Len(tokens) + 2) = (1 .. Len(tokens)) \cup {Len(tokens) + 1, Len(tokens) + 2}
  BY <1>1
<1>5. Issued' = Issued \cup {Len(tokens) + 1, Len(tokens) + 2}
  BY <1>3, <1>4 DEF Issued
<1> QED BY <1>1, <1>3, <1>5 DEF Issued, a, b

\* A session has one refresh token to go on with, or one request is about to.
OneWayOn(z) ==
    /\ \A t, u \in LiveRefresh(z) : t = u
    /\ \A r, q \in Redeeming(z) : r = q
    /\ LiveRefresh(z) = {} \/ Redeeming(z) = {}

\* A step that adds no token and revives none opens no second way on.
LEMMA NoNewWayOn ==
    ASSUME NEW z, OneWayOn(z),
           LiveRefresh(z)' \subseteq LiveRefresh(z), Redeeming(z)' \subseteq Redeeming(z)
    PROVE  OneWayOn(z)'
BY DEF OneWayOn

-----------------------------------------------------------------------------
\* A login starts a session of its own.
LEMMA LoginKeeps == ASSUME TokensInv, NEW u \in Users, Login(u) PROVE TokensInv'
<1> USE DEF TokensInv
<1> DEFINE s == Len(tokens) + 1
<1>1. s \in Nat /\ tokens' = tokens \o Pair(u, s)
  BY DEF Login, TypeOK
<1>2. /\ tokens' \in Seq(Claims) /\ Len(tokens) \in Nat
      /\ Issued' = Issued \cup {s, Len(tokens) + 2}
      /\ \A t \in Issued : tokens'[t] = tokens[t]
      /\ tokens'[s] = [type |-> "access", user |-> u, session |-> s]
      /\ tokens'[Len(tokens) + 2] = [type |-> "refresh", user |-> u, session |-> s]
  BY <1>1, PairAppended
<1> HIDE DEF s
<1>3. UNCHANGED <<revoked, expired, kind, token, pc, loggedOut, dead, forgotten>>
  BY DEF Login, history
<1>4. TypeOK'
  BY <1>2, <1>3 DEF TypeOK
<1>5. SessionsIssued'
  BY <1>2 DEF SessionsIssued
<1>6. \A r \in Requests : pc[r] # "idle" => tokens'[token[r]] = tokens[token[r]]
  BY <1>2 DEF TypeOK
<1>7. DecodedType' /\ KindOfRedeemed' /\ LogoutHolds' /\ RefusedForItsOwnToken'
  BY <1>3, <1>6 DEF DecodedType, KindOfRedeemed, Expected, LogoutHolds, RefusedForItsOwnToken
<1>10. LogoutsKept'
  BY <1>2, <1>3 DEF TypeOK, LogoutsKept, RevokedAccess, InFlight
<1>8. ASSUME NEW z \in Issued' PROVE UseForgotten(z)' \/ OneWayOn(z)'
  <2>1. Redeeming(z)' = Redeeming(z)
    BY <1>3, <1>6 DEF Redeeming
  <2>2. CASE z \in Issued
    <3>1. z # s
      BY <1>2, <2>2 DEF s, Issued
    <3>2. LiveRefresh(z)' \subseteq LiveRefresh(z)
      BY <1>2, <1>3, <3>1 DEF LiveRefresh
    <3>3. UseForgotten(z) => UseForgotten(z)'
      BY <1>2, <1>3 DEF UseForgotten, TypeOK
    <3> QED BY <2>1, <2>2, <3>2, <3>3, NoNewWayOn DEF SessionForksOnlyByRestart, OneWayOn
  <2>3. CASE z \notin Issued
    <3>1. \A t \in Issued : tokens[t].session # z
      BY <2>3 DEF SessionsIssued
    <3>2. Redeeming(z) = {}
      BY <3>1 DEF Redeeming, TypeOK
    <3>3. LiveRefresh(z)' \subseteq {Len(tokens) + 2}
      BY <1>2, <3>1 DEF LiveRefresh
    <3> QED BY <2>1, <3>2, <3>3 DEF OneWayOn
  <2> QED BY <2>2, <2>3
<1>9. SessionForksOnlyByRestart'
  BY <1>8 DEF SessionForksOnlyByRestart, OneWayOn
<1> QED BY <1>4, <1>5, <1>7, <1>9, <1>10

\* A refresh hands the session on to the pair it answers with.
LEMMA IssueKeeps == ASSUME TokensInv, NEW r \in Requests, Issue(r) PROVE TokensInv'
<1> USE DEF TokensInv
<1> DEFINE s == tokens[token[r]].session
           n == Len(tokens) + 2
<1>1. token[r] \in Issued /\ pc[r] = "redeemed"
  BY DEF Issue, TypeOK
<1>2. s \in Nat /\ s \in Issued /\ tokens[token[r]].user \in Users
  <2>1. tokens[token[r]] \in Claims
    BY <1>1 DEF TypeOK, Issued
  <2> QED BY <1>1, <2>1 DEF SessionsIssued, Claims
<1>3. /\ tokens' \in Seq(Claims) /\ Len(tokens) \in Nat
      /\ Issued' = Issued \cup {Len(tokens) + 1, n}
      /\ \A t \in Issued : tokens'[t] = tokens[t]
      /\ tokens'[Len(tokens) + 1] = [type |-> "access", user |-> tokens[token[r]].user, session |-> s]
      /\ tokens'[n] = [type |-> "refresh", user |-> tokens[token[r]].user, session |-> s]
  BY <1>2, PairAppended DEF Issue
<1>4. /\ pc' = [pc EXCEPT ![r] = "200"]
      /\ UNCHANGED <<revoked, expired, kind, token, loggedOut, dead, forgotten>>
  BY DEF Issue, Goto, history
<1>5. \A q \in Requests : pc[q] # "idle" => tokens'[token[q]] = tokens[token[q]]
  BY <1>3 DEF TypeOK
<1> HIDE DEF s, n
<1>6. TypeOK'
  BY <1>1, <1>3, <1>4 DEF TypeOK
<1>7. SessionsIssued'
  BY <1>2, <1>3 DEF SessionsIssued
<1>8. LogoutHolds'
  <2>1. token[r] \notin dead[r]
    BY <1>1 DEF LogoutsKept, RevokedAccess, InFlight, DecodedType, Expected, Issue, KindOfRedeemed
  <2> QED BY <1>4, <2>1 DEF LogoutHolds, TypeOK
<1>9. DecodedType' /\ RefusedForItsOwnToken' /\ KindOfRedeemed'
  BY <1>4, <1>5 DEF DecodedType, Expected, RefusedForItsOwnToken, KindOfRedeemed, TypeOK
<1>10. LogoutsKept'
  BY <1>3, <1>4 DEF TypeOK, LogoutsKept, RevokedAccess, InFlight
<1>11. ASSUME NEW z \in Issued' PROVE UseForgotten(z)' \/ OneWayOn(z)'
  <2>1. Redeeming(z)' = Redeeming(z) \ {r}
    BY <1>4, <1>5 DEF Redeeming, TypeOK
  <2>2. z \in Issued => UseForgotten(z) \/ OneWayOn(z)
    BY DEF SessionForksOnlyByRestart, OneWayOn
  <2>3. UseForgotten(z) => UseForgotten(z)'
    BY <1>3, <1>4 DEF UseForgotten, TypeOK
  <2>4. CASE z = s
    <3>1. r \in Redeeming(z) /\ z \in Issued
      BY <1>1, <1>2, <2>4 DEF Redeeming, s
    <3>2. CASE OneWayOn(z)
      <4>1. LiveRefresh(z) = {} /\ Redeeming(z)' = {}
        BY <2>1, <3>1, <3>2 DEF OneWayOn
      <4>2. LiveRefresh(z)' \subseteq {n}
        BY <1>3, <1>4, <4>1 DEF LiveRefresh
      <4> QED BY <4>1, <4>2 DEF OneWayOn
    <3> QED BY <2>2, <2>3, <3>1, <3>2
  <2>5. CASE z # s
    <3>1. LiveRefresh(z)' \subseteq LiveRefresh(z)
      BY <1>3, <1>4, <2>5 DEF LiveRefresh
    <3>2. CASE z \in Issued
      BY <2>1, <2>2, <2>3, <3>1, <3>2, NoNewWayOn
    <3>3. CASE z \notin Issued
      <4>1. LiveRefresh(z) = {} /\ Redeeming(z) = {}
        BY <3>3 DEF LiveRefresh, Redeeming, SessionsIssued, TypeOK
      <4> QED BY <2>1, <3>1, <4>1 DEF OneWayOn
    <3> QED BY <3>2, <3>3
  <2> QED BY <2>4, <2>5
<1>12. SessionForksOnlyByRestart'
  BY <1>11 DEF SessionForksOnlyByRestart, OneWayOn
<1> QED BY <1>6, <1>7, <1>8, <1>9, <1>10, <1>12

-----------------------------------------------------------------------------
(***************************************************************************)
(* The steps that issue nothing: a session keeps its form unless a token   *)
(* of it is used up.                                                       *)
(***************************************************************************)
LEMMA NothingIssued ==
    ASSUME TokensInv, UNCHANGED tokens, forgotten \subseteq forgotten',
           \A z \in Issued : OneWayOn(z) => UseForgotten(z)' \/ OneWayOn(z)'
    PROVE  SessionsIssued' /\ SessionForksOnlyByRestart'
<1>1. SessionsIssued' /\ Issued' = Issued
  BY DEF TokensInv, SessionsIssued, Issued
<1>2. \A z \in Issued : UseForgotten(z) => UseForgotten(z)'
  BY DEF UseForgotten
<1>3. \A z \in Issued : UseForgotten(z) \/ OneWayOn(z)
  BY DEF TokensInv, SessionForksOnlyByRestart, OneWayOn
<1> QED BY <1>1, <1>2, <1>3 DEF SessionForksOnlyByRestart, OneWayOn

\* Every other step of a request, and every step of a token's life.
LEMMA QuietKeeps ==
    ASSUME TokensInv,
           \/ \E t \in Issued : Expire(t)
           \/ \E r \in Requests, t \in Issued : Arrive(r, t)
           \/ \E r \in Requests :
                \/ Decode(r) \/ CheckRevoked(r) \/ Logout(r) \/ Serve(r) \/ LookUpFails(r)
    PROVE  TokensInv'
<1> USE DEF TokensInv
<1> DEFINE Rest == /\ TypeOK' /\ DecodedType' /\ LogoutsKept' /\ KindOfRedeemed'
                   /\ LogoutHolds' /\ RefusedForItsOwnToken'
           Quiet == /\ UNCHANGED <<tokens, forgotten>>
                    /\ revoked \subseteq revoked'
                    /\ \A z \in Issued : Redeeming(z)' \subseteq Redeeming(z)
<1>1. ASSUME NEW t \in Issued, Expire(t) PROVE Rest /\ Quiet
  <2>1. UNCHANGED <<tokens, revoked, kind, token, pc, loggedOut, dead, forgotten>>
    BY <1>1 DEF Expire, history
  <2>2. expired' = expired \cup {t}
    BY <1>1 DEF Expire
  <2> QED
    BY <2>1, <2>2 DEF TypeOK, Issued, DecodedType, Expected, LogoutsKept, RevokedAccess, InFlight,
       KindOfRedeemed, LogoutHolds, RefusedForItsOwnToken, Redeeming
<1>2. ASSUME NEW r \in Requests, NEW t \in Issued, Arrive(r, t) PROVE Rest /\ Quiet
  <2>1. /\ token' = [token EXCEPT ![r] = t] /\ dead' = [dead EXCEPT ![r] = loggedOut]
        /\ pc[r] = "idle" /\ pc' = [pc EXCEPT ![r] = "arrived"]
        /\ UNCHANGED <<tokens, revoked, expired, kind, loggedOut, forgotten>>
    BY <1>2 DEF Arrive, Goto
  <2>2. t \in Nat /\ loggedOut \in SUBSET Nat
    BY DEF TypeOK, Issued
  <2>3. TypeOK'
    BY <2>1, <2>2 DEF TypeOK, Issued
  <2>4. DecodedType' /\ KindOfRedeemed' /\ LogoutHolds' /\ RefusedForItsOwnToken'
    BY <2>1 DEF TypeOK, DecodedType, Expected, KindOfRedeemed, LogoutHolds, RefusedForItsOwnToken
  <2>5. LogoutsKept'
    BY <2>1 DEF TypeOK, LogoutsKept, RevokedAccess, InFlight
  <2>6. Quiet
    BY <2>1 DEF TypeOK, Redeeming
  <2> QED BY <2>3, <2>4, <2>5, <2>6
<1>3. ASSUME NEW r \in Requests, Decode(r) PROVE Rest /\ Quiet
  <2>1. /\ pc[r] = "arrived"
        /\ pc' = [pc EXCEPT ![r] = IF Accepted(r) THEN "decoded" ELSE "401"]
        /\ UNCHANGED <<tokens, revoked, expired, kind, token, loggedOut, dead, forgotten>>
    BY <1>3 DEF Decode, Goto, history
  <2>2. TypeOK' /\ LogoutsKept' /\ KindOfRedeemed' /\ LogoutHolds' /\ Quiet
    BY <2>1 DEF TypeOK, Issued, LogoutsKept, RevokedAccess, InFlight, KindOfRedeemed, LogoutHolds, Redeeming
  <2>3. DecodedType' /\ RefusedForItsOwnToken'
    BY <2>1 DEF TypeOK, DecodedType, Expected, Accepted, RefusedForItsOwnToken
  <2> QED BY <2>2, <2>3
<1>4. ASSUME NEW r \in Requests, CheckRevoked(r) PROVE Rest /\ Quiet
  <2>1. /\ pc[r] = "decoded" /\ kind[r] # "refresh"
        /\ pc' = [pc EXCEPT ![r] = IF token[r] \in revoked THEN "401" ELSE "admitted"]
        /\ UNCHANGED <<tokens, revoked, expired, kind, token, loggedOut, dead, forgotten>>
    BY <1>4 DEF CheckRevoked, Revoked, Goto, history
  <2>2. TypeOK' /\ LogoutsKept' /\ KindOfRedeemed' /\ Quiet
    BY <2>1 DEF TypeOK, Issued, LogoutsKept, RevokedAccess, InFlight, KindOfRedeemed, Redeeming
  <2>3. DecodedType' /\ RefusedForItsOwnToken'
    BY <2>1 DEF TypeOK, DecodedType, Expected, RefusedForItsOwnToken
  <2>4. LogoutHolds'
    BY <2>1 DEF TypeOK, LogoutHolds, LogoutsKept, InFlight, RevokedAccess
  <2> QED BY <2>2, <2>3, <2>4
<1>5. ASSUME NEW r \in Requests, Logout(r) PROVE Rest /\ Quiet
  <2>1. /\ pc[r] = "admitted" /\ kind[r] = "logout"
        /\ revoked' = revoked \cup {token[r]} /\ loggedOut' = loggedOut \cup {token[r]}
        /\ pc' = [pc EXCEPT ![r] = "200"]
        /\ UNCHANGED <<tokens, expired, kind, token, dead, forgotten>>
    BY <1>5 DEF Logout, Goto
  <2>2. token[r] \in Issued /\ tokens[token[r]].type = "access"
    BY <2>1 DEF TypeOK, DecodedType, Expected
  <2>3. TypeOK' /\ KindOfRedeemed' /\ LogoutHolds' /\ Quiet
    BY <2>1, <2>2 DEF TypeOK, Issued, KindOfRedeemed, LogoutHolds, Redeeming
  <2>4. DecodedType' /\ RefusedForItsOwnToken'
    BY <2>1 DEF TypeOK, DecodedType, Expected, RefusedForItsOwnToken
  <2>5. LogoutsKept'
    BY <2>1, <2>2 DEF TypeOK, LogoutsKept, InFlight, RevokedAccess
  <2> QED BY <2>3, <2>4, <2>5
<1>6. ASSUME NEW r \in Requests, Serve(r) PROVE Rest /\ Quiet
  <2>1. /\ pc[r] = "admitted" /\ pc' = [pc EXCEPT ![r] = "200"]
        /\ UNCHANGED <<tokens, revoked, expired, kind, token, loggedOut, dead, forgotten>>
    BY <1>6 DEF Serve, Goto, history
  <2>2. TypeOK' /\ LogoutsKept' /\ KindOfRedeemed' /\ Quiet
    BY <2>1 DEF TypeOK, Issued, LogoutsKept, RevokedAccess, InFlight, KindOfRedeemed, Redeeming
  <2>3. DecodedType' /\ RefusedForItsOwnToken' /\ LogoutHolds'
    BY <2>1 DEF TypeOK, DecodedType, Expected, RefusedForItsOwnToken, LogoutHolds
  <2> QED BY <2>2, <2>3
<1>7. ASSUME NEW r \in Requests, LookUpFails(r) PROVE Rest /\ Quiet
  <2>1. /\ pc[r] \in {"redeemed", "admitted"} /\ pc' = [pc EXCEPT ![r] = "500"]
        /\ UNCHANGED <<tokens, revoked, expired, kind, token, loggedOut, dead, forgotten>>
    BY <1>7 DEF LookUpFails, Goto, history
  <2>2. TypeOK' /\ LogoutsKept' /\ KindOfRedeemed' /\ Quiet
    BY <2>1 DEF TypeOK, Issued, LogoutsKept, RevokedAccess, InFlight, KindOfRedeemed, Redeeming
  <2>3. DecodedType' /\ RefusedForItsOwnToken' /\ LogoutHolds'
    BY <2>1 DEF TypeOK, DecodedType, Expected, RefusedForItsOwnToken, LogoutHolds
  <2> QED BY <2>2, <2>3
<1>8. Quiet => SessionsIssued' /\ SessionForksOnlyByRestart'
  <2> SUFFICES ASSUME Quiet PROVE SessionsIssued' /\ SessionForksOnlyByRestart'
    OBVIOUS
  <2>1. \A z \in Issued : LiveRefresh(z)' \subseteq LiveRefresh(z)
    BY DEF LiveRefresh, Issued
  <2> QED BY <2>1, NoNewWayOn, NothingIssued
<1> QED BY <1>1, <1>2, <1>3, <1>4, <1>5, <1>6, <1>7, <1>8

\* A refresh uses up the one token of its session that was still usable.
LEMMA RedeemKeeps == ASSUME TokensInv, NEW r \in Requests, Redeem(r) PROVE TokensInv'
<1> USE DEF TokensInv
<1>1. /\ pc[r] = "decoded" /\ kind[r] = "refresh"
      /\ UNCHANGED <<tokens, expired, kind, token, loggedOut, dead, forgotten>>
  BY DEF Redeem, history
<1>2. token[r] \in Issued /\ tokens[token[r]].type = "refresh"
  BY <1>1 DEF TypeOK, DecodedType, Expected
<1>3. CASE token[r] \in revoked
  <2>1. pc' = [pc EXCEPT ![r] = "401"] /\ revoked' = revoked
    BY <1>3 DEF Redeem, Goto
  <2>2. TypeOK' /\ LogoutsKept' /\ KindOfRedeemed'
    BY <1>1, <2>1 DEF TypeOK, Issued, LogoutsKept, RevokedAccess, InFlight, KindOfRedeemed
  <2>3. DecodedType' /\ RefusedForItsOwnToken' /\ LogoutHolds'
    BY <1>1, <1>3, <2>1 DEF TypeOK, DecodedType, Expected, RefusedForItsOwnToken, LogoutHolds
  <2>4. \A z \in Issued : /\ LiveRefresh(z)' \subseteq LiveRefresh(z)
                          /\ Redeeming(z)' \subseteq Redeeming(z)
    BY <1>1, <2>1 DEF TypeOK, Issued, LiveRefresh, Redeeming
  <2> QED BY <1>1, <2>2, <2>3, <2>4, NoNewWayOn, NothingIssued
<1>4. CASE token[r] \notin revoked
  <2>1. pc' = [pc EXCEPT ![r] = "redeemed"] /\ revoked' = revoked \cup {token[r]}
    BY <1>4 DEF Redeem, Goto
  <2>2. TypeOK' /\ LogoutsKept' /\ KindOfRedeemed'
    BY <1>1, <1>2, <2>1 DEF TypeOK, Issued, LogoutsKept, RevokedAccess, InFlight, KindOfRedeemed
  <2>3. DecodedType' /\ RefusedForItsOwnToken' /\ LogoutHolds'
    BY <1>1, <2>1 DEF TypeOK, DecodedType, Expected, RefusedForItsOwnToken, LogoutHolds
  <2>4. ASSUME NEW z \in Issued, OneWayOn(z) PROVE OneWayOn(z)'
    <3>1. LiveRefresh(z)' = LiveRefresh(z) \ {token[r]}
      BY <1>1, <2>1 DEF LiveRefresh, Issued
    <3>2. CASE tokens[token[r]].session = z
      <4>1. token[r] \in LiveRefresh(z)
        BY <1>2, <1>4, <3>2 DEF LiveRefresh
      <4>2. LiveRefresh(z)' = {} /\ Redeeming(z) = {}
        BY <2>4, <3>1, <4>1 DEF OneWayOn
      <4>3. Redeeming(z)' \subseteq {r}
        BY <1>1, <2>1, <4>2 DEF Redeeming, TypeOK
      <4> QED BY <4>2, <4>3 DEF OneWayOn
    <3>3. CASE tokens[token[r]].session # z
      <4>1. Redeeming(z)' \subseteq Redeeming(z)
        BY <1>1, <2>1, <3>3 DEF Redeeming, TypeOK
      <4> QED BY <2>4, <3>1, <4>1, NoNewWayOn
    <3> QED BY <3>2, <3>3
  <2> QED BY <1>1, <2>2, <2>3, <2>4, NothingIssued
<1> QED BY <1>3, <1>4

\* A restart forgets, and what it forgets of a session it owns up to.
LEMMA RestartKeeps == ASSUME TokensInv, Restart PROVE TokensInv'
<1> USE DEF TokensInv
<1>1. /\ revoked' = {} /\ loggedOut' = {} /\ forgotten' = forgotten \cup revoked
      /\ pc' = [q \in Requests |-> IF q \in InFlight THEN "500" ELSE pc[q]]
      /\ UNCHANGED <<tokens, expired, kind, token, dead>>
  BY DEF Restart
<1>2. TypeOK'
  BY <1>1 DEF TypeOK, Issued, InFlight
<1>3. InFlight' = {}
  BY <1>1 DEF InFlight, TypeOK
<1>4. DecodedType' /\ KindOfRedeemed' /\ LogoutsKept'
  BY <1>1, <1>3 DEF DecodedType, KindOfRedeemed, LogoutsKept, InFlight
<1>5. LogoutHolds' /\ RefusedForItsOwnToken'
  BY <1>1 DEF LogoutHolds, RefusedForItsOwnToken, Expected, TypeOK, InFlight
<1>6. ASSUME NEW z \in Issued, OneWayOn(z) PROVE UseForgotten(z)' \/ OneWayOn(z)'
  <2>1. Redeeming(z)' = {}
    BY <1>3 DEF Redeeming, InFlight
  <2>2. CASE \E t \in revoked : tokens[t].type = "refresh" /\ tokens[t].session = z
    BY <1>1, <2>2 DEF UseForgotten
  <2>3. CASE ~ \E t \in revoked : tokens[t].type = "refresh" /\ tokens[t].session = z
    <3>1. LiveRefresh(z)' \subseteq LiveRefresh(z)
      BY <1>1, <2>3 DEF LiveRefresh, Issued
    <3> QED BY <1>6, <2>1, <3>1 DEF OneWayOn
  <2> QED BY <2>2, <2>3
<1> QED BY <1>1, <1>2, <1>4, <1>5, <1>6, NothingIssued

-----------------------------------------------------------------------------
\* The conjunction of all the above is inductive.
THEOREM TokensInvAlways == Spec => []TokensInv
<1>1. Init => TokensInv
  BY DEF Init, TokensInv, TypeOK, SessionsIssued, LogoutsKept, InFlight, DecodedType, KindOfRedeemed,
     SessionForksOnlyByRestart, LogoutHolds, RefusedForItsOwnToken, Issued, Claims
<1>2. TokensInv /\ [Next]_vars => TokensInv'
  <2> SUFFICES ASSUME TokensInv, [Next]_vars PROVE TokensInv'
    OBVIOUS
  <2>1. CASE UNCHANGED vars
    <3>1. UNCHANGED <<tokens, revoked, expired, kind, token, pc, loggedOut, dead, forgotten>>
      BY <2>1 DEF vars, history
    <3>2. (TypeOK /\ SessionsIssued /\ LogoutsKept)'
      BY <3>1 DEF TokensInv, TypeOK, Issued, SessionsIssued, LogoutsKept, RevokedAccess, InFlight
    <3>3. (DecodedType /\ KindOfRedeemed /\ LogoutHolds /\ RefusedForItsOwnToken)'
      BY <3>1 DEF TokensInv, DecodedType, Expected, KindOfRedeemed, LogoutHolds, RefusedForItsOwnToken
    <3>4. SessionForksOnlyByRestart'
      BY <3>1 DEF TokensInv, SessionForksOnlyByRestart, UseForgotten, LiveRefresh, Redeeming, Issued
    <3> QED BY <3>2, <3>3, <3>4 DEF TokensInv
  <2>2. CASE Next
    BY <2>2, LoginKeeps, IssueKeeps, QuietKeeps, RedeemKeeps, RestartKeeps DEF Next, Step
  <2> QED BY <2>1, <2>2
<1> QED BY <1>1, <1>2, PTL DEF Spec

(***************************************************************************)
(* For any number of requests and tokens: a session forks only when a      *)
(* restart forgets that one of its refresh tokens was used.                *)
(***************************************************************************)
THEOREM OnlyRestartsForkSessions == Spec => []SessionForksOnlyByRestart
BY TokensInvAlways, PTL DEF TokensInv

(***************************************************************************)
(* For any number of requests and tokens: no request that arrives after a  *)
(* logout is admitted with its token by the same process.                  *)
(***************************************************************************)
THEOREM LogoutsHold == Spec => []LogoutHolds
BY TokensInvAlways, PTL DEF TokensInv

(***************************************************************************)
(* For any number of requests and tokens: nobody is refused for another's  *)
(* logout or rotation.                                                     *)
(***************************************************************************)
THEOREM RefusalsAreOwn == Spec => []RefusedForItsOwnToken
BY TokensInvAlways, PTL DEF TokensInv
=============================================================================

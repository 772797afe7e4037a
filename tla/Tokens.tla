------------------------------- MODULE Tokens -------------------------------
(***************************************************************************)
(* Tokens and their revocation: login, refresh and logout of               *)
(* routers/auth.py and get_token_payload of auth.py, which guards every    *)
(* protected endpoint.  _revoked_tokens is only touched under its lock, so *)
(* each critical section is one action; it lives in memory, and a restart  *)
(* begins with an empty one.  A token is its position in the order of      *)
(* issue, its jti is unique (uuid4) and its claims are its record.         *)
(***************************************************************************)
EXTENDS Naturals, Sequences, FiniteSets

CONSTANTS Requests,   \* requests that present a token
          Users,
          MaxTokens   \* bound: no login or refresh beyond this many tokens

ASSUME TokensAssumption == MaxTokens \in Nat

Kinds == {"refresh", "logout", "protected"}

VARIABLES tokens,   \* the claims of every token issued
          revoked,  \* _revoked_tokens
          expired,  \* the tokens whose exp has passed
          kind, token,  \* what each request asks for, and what it presents
          pc,
          loggedOut,  \* history: the tokens this process has logged out
          dead,       \* history: those logged out when each request arrived
          forgotten   \* history: the tokens revoked when the process restarted

history == <<loggedOut, dead, forgotten>>
vars == <<tokens, revoked, expired, kind, token, pc, history>>

\* session is a history: the access token of the login all the rest stem from.
Claims == [type : {"access", "refresh"}, user : Users, session : Nat]
Issued == 1 .. Len(tokens)

TypeOK ==
    /\ tokens \in Seq(Claims)
    /\ revoked \subseteq Issued /\ expired \subseteq Issued
    /\ kind \in [Requests -> Kinds]
    /\ token \in [Requests -> Nat]
    /\ \A r \in Requests : pc[r] # "idle" => token[r] \in Issued
    /\ pc \in [Requests -> {"idle", "arrived", "decoded", "admitted", "redeemed",
                            "200", "401", "500"}]
    /\ loggedOut \subseteq Issued /\ forgotten \subseteq Issued
    /\ dead \in [Requests -> SUBSET Nat]

Init ==
    /\ tokens = <<>> /\ revoked = {} /\ expired = {}
    /\ kind \in [Requests -> Kinds]
    /\ token = [r \in Requests |-> 0]
    /\ pc = [r \in Requests |-> "idle"]
    /\ loggedOut = {} /\ forgotten = {}
    /\ dead = [r \in Requests |-> {}]

\* create_access_token and create_refresh_token.
Pair(u, s) == <<[type |-> "access", user |-> u, session |-> s],
                [type |-> "refresh", user |-> u, session |-> s]>>

Goto(r, place) == pc' = [pc EXCEPT ![r] = place]

Login(u) ==
    /\ Len(tokens) + 2 <= MaxTokens
    /\ tokens' = tokens \o Pair(u, Len(tokens) + 1)
    /\ UNCHANGED <<revoked, expired, kind, token, pc, history>>

Expire(t) ==
    /\ t \notin expired
    /\ expired' = expired \cup {t}
    /\ UNCHANGED <<tokens, revoked, kind, token, pc, history>>

\* A request arrives with any token ever issued.
Arrive(r, t) ==
    /\ pc[r] = "idle"
    /\ token' = [token EXCEPT ![r] = t]
    /\ dead' = [dead EXCEPT ![r] = loggedOut]
    /\ Goto(r, "arrived")
    /\ UNCHANGED <<tokens, revoked, expired, kind, loggedOut, forgotten>>

\* decode_token (signature and exp), then the type.
Expected(r) == IF kind[r] = "refresh" THEN "refresh" ELSE "access"
Accepted(r) == token[r] \notin expired /\ tokens[token[r]].type = Expected(r)

Decode(r) ==
    /\ pc[r] = "arrived"
    /\ Goto(r, IF Accepted(r) THEN "decoded" ELSE "401")
    /\ UNCHANGED <<tokens, revoked, expired, kind, token, history>>

\* BUGS.md #2: the subject is looked up among the revoked jtis.
RevokedBySubject(t) == tokens[t].user \in revoked

\* A plausible bug: the subject is revoked, and with it all tokens of the user.
RevokedForUser(t) == \E s \in revoked : tokens[s].user = tokens[t].user

Revoked(t) == t \in revoked

\* get_token_payload, under the lock.
CheckRevoked(r) ==
    /\ pc[r] = "decoded" /\ kind[r] # "refresh"
    /\ Goto(r, IF Revoked(token[r]) THEN "401" ELSE "admitted")
    /\ UNCHANGED <<tokens, revoked, expired, kind, token, history>>

\* logout: revoke_access_token, under the lock.
Logout(r) ==
    /\ pc[r] = "admitted" /\ kind[r] = "logout"
    /\ revoked' = revoked \cup {token[r]}
    /\ loggedOut' = loggedOut \cup {token[r]}
    /\ Goto(r, "200")
    /\ UNCHANGED <<tokens, expired, kind, token, dead, forgotten>>

\* get_current_user finds the user (nothing deletes users) and the endpoint runs.
Serve(r) ==
    /\ pc[r] = "admitted" /\ kind[r] = "protected"
    /\ Goto(r, "200")
    /\ UNCHANGED <<tokens, revoked, expired, kind, token, history>>

\* BUGS.md #6: the token is not invalidated by its use.
RedeemUnrecorded(r) ==
    /\ pc[r] = "decoded" /\ kind[r] = "refresh"
    /\ Goto(r, IF token[r] \in revoked THEN "401" ELSE "redeemed")
    /\ UNCHANGED <<tokens, revoked, expired, kind, token, history>>

\* refresh: checks and records the jti in one critical section.
Redeem(r) ==
    /\ pc[r] = "decoded" /\ kind[r] = "refresh"
    /\ IF token[r] \in revoked
       THEN Goto(r, "401") /\ UNCHANGED revoked
       ELSE Goto(r, "redeemed") /\ revoked' = revoked \cup {token[r]}
    /\ UNCHANGED <<tokens, expired, kind, token, history>>

\* Looks the user up and answers with a new pair.
Issue(r) ==
    /\ pc[r] = "redeemed" /\ Len(tokens) + 2 <= MaxTokens
    /\ tokens' = tokens \o Pair(tokens[token[r]].user, tokens[token[r]].session)
    /\ Goto(r, "200")
    /\ UNCHANGED <<revoked, expired, kind, token, history>>

\* The query of the user fails, in refresh or get_current_user: a refresh token
\* is then used up and nothing is issued for it.
LookUpFails(r) ==
    /\ pc[r] = "redeemed" \/ (pc[r] = "admitted" /\ kind[r] = "protected")
    /\ Goto(r, "500")
    /\ UNCHANGED <<tokens, revoked, expired, kind, token, history>>

Step(r) ==
    \/ Decode(r) \/ CheckRevoked(r) \/ Logout(r) \/ Serve(r)
    \/ Redeem(r) \/ Issue(r) \/ LookUpFails(r)

InFlight == {r \in Requests : pc[r] \in {"arrived", "decoded", "admitted", "redeemed"}}

\* A new process: the set is empty, the requests in flight are gone, and the
\* tokens are as good as they were (JWT_SECRET is configuration).
Restart ==
    /\ revoked' = {} /\ loggedOut' = {}
    /\ forgotten' = forgotten \cup revoked
    /\ pc' = [r \in Requests |-> IF r \in InFlight THEN "500" ELSE pc[r]]
    /\ UNCHANGED <<tokens, expired, kind, token, dead>>

Next ==
    \/ \E u \in Users : Login(u)
    \/ \E t \in Issued : Expire(t)
    \/ \E r \in Requests, t \in Issued : Arrive(r, t)
    \/ \E r \in Requests : Step(r)
    \/ Restart

Spec == Init /\ [][Next]_vars

-----------------------------------------------------------------------------
LiveRefresh(s) ==
    {t \in Issued : tokens[t].type = "refresh" /\ tokens[t].session = s /\ t \notin revoked}

Redeeming(s) == {r \in Requests : pc[r] = "redeemed" /\ tokens[token[r]].session = s}

\* The process restarted after a refresh token of the session had been used.
UseForgotten(s) ==
    \E t \in forgotten : tokens[t].type = "refresh" /\ tokens[t].session = s

\* A login is one chain of rotations: however many refreshes race with one
\* token, a session never has two refresh tokens still usable, nor a usable one
\* while its successor is being issued.  Only a restart that forgets a token
\* that was used before makes it fork.
SessionForksOnlyByRestart ==
    \A s \in Issued :
        \/ UseForgotten(s)
        \/ /\ \A t, u \in LiveRefresh(s) : t = u
           /\ \A r, q \in Redeeming(s) : r = q
           /\ LiveRefresh(s) = {} \/ Redeeming(s) = {}

\* No request that arrives after a logout is admitted with the token that was
\* logged out, until the process restarts.
LogoutHolds == \A r \in Requests : pc[r] \in {"admitted", "200"} => token[r] \notin dead[r]

\* A logout or a rotation takes nobody else's token: a request is refused only
\* for its own token's expiry, type or revocation.
RefusedForItsOwnToken ==
    \A r \in Requests : pc[r] = "401" =>
        \/ token[r] \in expired \cup revoked \cup forgotten
        \/ tokens[token[r]].type # Expected(r)
=============================================================================

------------------------------ MODULE Session -------------------------------
(***************************************************************************)
(* The token middleware, validate_token.go: a request's token is looked up *)
(* in Redis or shown to the SSO, whose answer is either a verdict on the   *)
(* token or says nothing about it; in the second case it is asked once     *)
(* more.  Redis is best effort.                                            *)
(*                                                                         *)
(* The SSO and the browser are external: the SSO accepts the live token of *)
(* a login that is not over, may replace it then, and its answer may be    *)
(* lost after it has done so; the browser sends the last token it got.     *)
(***************************************************************************)
EXTENDS SignedIn

VARIABLE tokenCache     \* by token: "none", or what is cached of the account

vars == <<session, live, held, calls, unheard, tokenCache>>

ssoTransientRetries == 1

Calling == [at: {"asking"}, token: Tokens, retries: 0..ssoTransientRetries]
           \cup [at: {"valid"}, token: Tokens, carries: Tokens,
                 account: {"good", "banned"}]

TypeOK ==
    /\ session \in {"good", "banned", "dead"}
    /\ live \in Tokens /\ held \in Tokens
    /\ calls \in [Calls ->
         [at: {"done"}, reply: {"none", "401", "403", "503", "ok"}] \cup Calling]
    /\ unheard \in BOOLEAN
    /\ tokenCache \in [Tokens -> {"none", "good", "banned"}]

go(c, s) == calls' = [calls EXCEPT ![c] = s]

-----------------------------------------------------------------------------
(* Answers of the SSO *)

\* "other" is any status but 200 and 401: 404, 422, 429, 5xx.
unclear == {"no answer", "other", "unparsable"}

answersTo(token) ==
    unclear \cup IF token = live /\ session # "dead" THEN {"success"}
                 ELSE {"401", "no success"}

\* A fault: a status that is not 200 counts as a verdict.
FaultyIsTransientSSOError(answer) == answer \in {"no answer", "unparsable"}

\* What says nothing about the session.
isTransientSSOError(answer) == answer \in unclear

-----------------------------------------------------------------------------
(* ValidateTokenForAccount *)

admit(account) == IF account = "banned" THEN Answered("403") ELSE Answered("ok")

TokenHit(c) ==
    /\ calls[c].at = "done"
    /\ tokenCache[held] # "none"
    /\ go(c, admit(tokenCache[held]))
    /\ UNCHANGED <<session, live, held, unheard, tokenCache>>

\* A miss, or Redis cannot be read.
TokenMiss(c) ==
    /\ calls[c].at = "done"
    /\ go(c, [at |-> "asking", token |-> held, retries |-> ssoTransientRetries])
    /\ UNCHANGED <<session, live, held, unheard, tokenCache>>

\* validateWithSSOOnce, with an answer that is no success: a verdict ends the
\* request, anything else is tried again and then told to come back.
Refused(c, answer) ==
    LET q == calls[c]
    IN /\ q.at = "asking"
       /\ answer \in answersTo(q.token) \ {"success"}
       /\ go(c, IF ~isTransientSSOError(answer) THEN Answered("401")
                ELSE IF q.retries = 0 THEN Answered("503")
                ELSE [q EXCEPT !.retries = @ - 1])
       /\ UNCHANGED <<session, live, held, unheard, tokenCache>>

\* A success that arrives, with a new token or without.
Validated(c, carries) ==
    LET q == calls[c]
    IN /\ q.at = "asking"
       /\ "success" \in answersTo(q.token)
       /\ carries \in {live, live + 1} \cap Tokens
       /\ live' = carries
       /\ go(c, [at |-> "valid", token |-> q.token, carries |-> carries,
                 account |-> session])
       /\ UNCHANGED <<session, held, unheard, tokenCache>>

\* The SSO replaced the token, but its answer is lost: the retry shows the old one.
ReissueLost(c) ==
    LET q == calls[c]
    IN /\ q.at = "asking"
       /\ "success" \in answersTo(q.token)
       /\ live < MaxReissues
       /\ live' = live + 1
       /\ unheard' = TRUE
       /\ go(c, IF q.retries = 0 THEN Answered("503") ELSE [q EXCEPT !.retries = @ - 1])
       /\ UNCHANGED <<session, held, tokenCache>>

\* setCachedToken under the token that was shown, or its failure, the check of the
\* ban, and X-Reissued-Token in the answer, which may not reach the browser.
TokenStored(c) ==
    LET q == calls[c]
        reissued == q.carries # q.token
    IN /\ q.at = "valid"
       /\ tokenCache' \in {tokenCache, [tokenCache EXCEPT ![q.token] = q.account]}
       /\ \/ held' = (IF reissued THEN q.carries ELSE held) /\ UNCHANGED unheard
          \/ reissued /\ held' = held /\ unheard' = TRUE
       /\ go(c, admit(q.account))
       /\ UNCHANGED <<session, live>>

ExpireToken(t) ==
    /\ tokenCache[t] # "none"
    /\ tokenCache' = [tokenCache EXCEPT ![t] = "none"]
    /\ UNCHANGED <<session, live, held, calls, unheard>>

\* The SSO bans the account or ends the login, for good.
Revoke(v) ==
    /\ session = "good"
    /\ session' = v
    /\ UNCHANGED <<live, held, calls, unheard, tokenCache>>

-----------------------------------------------------------------------------
Init ==
    /\ session = "good"
    /\ live = 0 /\ held = 0
    /\ calls = [c \in Calls |-> Answered("none")]
    /\ unheard = FALSE
    /\ tokenCache = [t \in Tokens |-> "none"]

Proceed(c) ==
    \/ \E answer \in unclear \cup {"401", "no success"} : Refused(c, answer)
    \/ \E t \in Tokens : Validated(c, t)
    \/ ReissueLost(c)
    \/ TokenStored(c)

Next ==
    \/ \E c \in Calls : TokenHit(c) \/ TokenMiss(c) \/ Proceed(c)
    \/ \E t \in Tokens : ExpireToken(t)
    \/ \E v \in {"banned", "dead"} : Revoke(v)

\* A request that has begun ends, and Redis drops what has reached its age.
Fairness ==
    /\ \A c \in Calls : WF_vars(Proceed(c))
    /\ \A t \in Tokens : WF_vars(ExpireToken(t))

Spec == Init /\ [][Next]_vars /\ Fairness

\* A ban, the end of the login and a replaced token reach the cache.
TokenSettles ==
    <>[](\A t \in Tokens : tokenCache[t] # "none" => t = live /\ tokenCache[t] = session)
=============================================================================

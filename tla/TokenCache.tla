----------------------------- MODULE TokenCache -----------------------------
(***************************************************************************)
(* The OpsRamp API client: one cached bearer token under a mutex that is   *)
(* held over the token request, and API calls that retry once, with a      *)
(* forced refresh, when an attempt is answered with 401 or 407, whatever   *)
(* the reason of the refusal.                                              *)
(*                                                                         *)
(* The token belongs to the tenant: every request for one answers the same *)
(* token with its remaining life until that is over or the token is        *)
(* rotated, which may happen at any time and is known to nobody.  Callers  *)
(* are the goroutines that share the client: the poll loop, a manual sync, *)
(* the admin proxy, deployment jobs.                                       *)
(***************************************************************************)
EXTENDS Integers

CONSTANTS
    Callers,
    Nobody,        \* the mutex is free
    Skew,          \* tokenSkew
    MaxTTL,        \* maxTokenTTL
    MinTTL,        \* minTokenTTL
    FullTTL,       \* life of a new token of the tenant
    OddReports,    \* implausible expires_in values, also those a conversion to
                   \* nanoseconds that overflows would leave
    MaxTime,       \* bound on the clock
    MaxRotations   \* bound on rotations before the token's expiry

ASSUME CallersAssumption == Nobody \notin Callers
ASSUME TimesAssumption ==
    /\ Skew \in Nat /\ MinTTL \in Nat /\ MaxTTL \in Nat /\ FullTTL \in Nat \ {0}
    /\ MinTTL <= MaxTTL
    /\ OddReports \subseteq Int
    /\ MaxTime \in Nat /\ MaxRotations \in Nat

NoToken == 0

VARIABLES
    now,
    tenant,     \* the tenant's token and when it dies
    cache,      \* Client.token and tokenExpiry
    holder,     \* the caller that holds Client.mu over a token request
    call,       \* the locals of a caller
    newest,     \* history: the newest token that ever was in the cache
    executed,   \* history: was the request of the caller's current call executed?
    rotations

client == <<cache, holder, newest>>
vars == <<now, tenant, cache, holder, call, newest, executed, rotations>>

Operations == {"do", "proxy", "ensure", "show"}

\* pc: at accessToken before the lock ("want"), with the token request under
\* way ("fetch") or answered ("granted"), with a request ready or on the wire
\* ("send"), before TokenExpiry ("expiry").  tok: the local tok; granted: what
\* the token request answered; force: the parameter; refused: the token of the
\* attempt that was refused; result: what the finished call returned.
\* History: own, tok was the answer to a token request of this call since its
\* last attempt; least, the oldest token the tenant could give out when the
\* call was refused.
Calls == [op : Operations, pc : {"idle", "want", "fetch", "granted", "send", "expiry"},
          tok : Nat, reported : Int, force : BOOLEAN, refused : Nat,
          own : BOOLEAN, least : Nat,
          result : {"none", "ok", "rejected", "error"}]

TypeOK ==
    /\ now \in 0..MaxTime
    /\ tenant \in [token : Nat \ {NoToken}, dies : Nat]
    /\ cache \in [token : Nat, expiry : Nat]
    /\ holder \in Callers \cup {Nobody}
    /\ call \in [Callers -> Calls]
    /\ newest \in Nat
    /\ executed \in [Callers -> BOOLEAN]
    /\ rotations \in 0..MaxRotations

NoCache == [token |-> NoToken, expiry |-> 0]
Fresh(op) == [op |-> op, pc |-> "idle", tok |-> NoToken, reported |-> 0, force |-> FALSE,
              refused |-> NoToken, own |-> FALSE, least |-> NoToken, result |-> "none"]

Init ==
    /\ now = 0
    /\ tenant = [token |-> 1, dies |-> FullTTL]
    /\ cache = NoCache
    /\ holder = Nobody
    /\ call = [c \in Callers |-> Fresh("do")]
    /\ newest = NoToken
    /\ executed = [c \in Callers |-> FALSE]
    /\ rotations = 0

-----------------------------------------------------------------------------
(* A call that has returned; its locals are gone.                           *)
Ended(k, result) == [Fresh(k.op) EXCEPT !.result = result]

(* A caller calls do, requireClient and then do, EnsureToken, or Token.     *)
Call(c, op, force) ==
    /\ call[c].pc = "idle"
    /\ force => op = "show"
    /\ call' = [call EXCEPT ![c] = [Fresh(op) EXCEPT !.pc = "want", !.force = force]]
    /\ executed' = [executed EXCEPT ![c] = FALSE]
    /\ UNCHANGED <<now, tenant, client, rotations>>

Valid == cache.token # NoToken /\ now < cache.expiry - Skew

\* accessToken returned t to k: EnsureToken is done (requireClient goes on to
\* the call proper), Token asks for the expiry, doOnce sends.
WithToken(k, t) ==
    CASE k.op = "do" -> [k EXCEPT !.pc = "send", !.tok = t, !.reported = 0]
      [] k.op = "proxy" -> [k EXCEPT !.op = "do", !.pc = "want", !.tok = NoToken, !.reported = 0]
      [] k.op = "ensure" -> Ended(k, "ok")
      [] k.op = "show" -> [k EXCEPT !.pc = "expiry", !.tok = t, !.reported = 0]

(* Mutant: the retry asks for a token like the first attempt did.           *)
UseCachedAlways(c) ==
    /\ call[c].pc = "want"
    /\ holder = Nobody
    /\ Valid
    /\ call' = [call EXCEPT ![c] = WithToken(@, cache.token)]
    /\ UNCHANGED <<now, tenant, client, executed, rotations>>

(* accessToken: the cached token is used unless a new one is forced.        *)
UseCached(c) ==
    /\ call[c].pc = "want"
    /\ holder = Nobody
    /\ ~call[c].force /\ Valid
    /\ call' = [call EXCEPT ![c] = WithToken(@, cache.token)]
    /\ UNCHANGED <<now, tenant, client, executed, rotations>>

(* Mutant: the mutex is released while the token request is under way.      *)
StartFetchUnlocked(c) ==
    /\ call[c].pc = "want"
    /\ holder = Nobody
    /\ call[c].force \/ ~Valid
    /\ cache' = NoCache
    /\ call' = [call EXCEPT ![c].pc = "fetch"]
    /\ UNCHANGED <<now, tenant, holder, newest, executed, rotations>>

(* fetchTokenLocked clears the cache before it asks.                        *)
StartFetch(c) ==
    /\ call[c].pc = "want"
    /\ holder = Nobody
    /\ call[c].force \/ ~Valid
    /\ holder' = c
    /\ cache' = NoCache
    /\ call' = [call EXCEPT ![c].pc = "fetch"]
    /\ UNCHANGED <<now, tenant, newest, executed, rotations>>

Current == IF now < tenant.dies THEN tenant
           ELSE [token |-> tenant.token + 1, dies |-> now + FullTTL]

(* OpsRamp answers the token request: the tenant's token, renewed when it   *)
(* is dead, and its remaining life or nonsense.                             *)
Grant(c) ==
    /\ call[c].pc = "fetch"
    /\ tenant' = Current
    /\ \E r \in {Current.dies - now} \cup OddReports :
        call' = [call EXCEPT ![c] = [@ EXCEPT !.pc = "granted", !.tok = Current.token,
                                              !.reported = r, !.own = TRUE]]
    /\ UNCHANGED <<now, client, executed, rotations>>

(* Mutant: expires_in is taken as it is, below zero or beyond any limit.    *)
TTLUnchecked(reported) == reported

(* The ttl of fetchTokenLocked.                                             *)
TTL(reported) == IF reported <= 0 THEN MinTTL
                 ELSE IF reported > MaxTTL THEN MaxTTL ELSE reported

(* The answer is cached, dated from its arrival, and the mutex released.    *)
Store(c) ==
    /\ call[c].pc = "granted"
    /\ cache' = [token |-> call[c].tok, expiry |-> now + TTL(call[c].reported)]
    /\ newest' = IF call[c].tok > newest THEN call[c].tok ELSE newest
    /\ holder' = Nobody
    /\ call' = [call EXCEPT ![c] = WithToken(@, @.tok)]
    /\ UNCHANGED <<now, tenant, executed, rotations>>

(* The token request fails, is refused or times out (30 s, or the context); *)
(* its answer may be lost.  The cache stays empty.                          *)
FetchFails(c) ==
    /\ call[c].pc \in {"fetch", "granted"}
    /\ holder' = Nobody
    /\ call' = [call EXCEPT ![c] = Ended(@, "error")]
    /\ UNCHANGED <<now, tenant, cache, newest, executed, rotations>>

-----------------------------------------------------------------------------
\* The second doOnce, with refresh.
Again(k) == [k EXCEPT !.pc = "want", !.force = TRUE, !.refused = k.tok, !.tok = NoToken,
                      !.own = FALSE, !.least = Current.token]

Accepts(t) == t = tenant.token /\ now < tenant.dies

(* The request arrives with a good token, is executed and answered.  Any    *)
(* answer but a refused token is the result, whatever its status.           *)
Answered(c) ==
    /\ call[c].pc = "send"
    /\ Accepts(call[c].tok)
    /\ executed' = [executed EXCEPT ![c] = TRUE]
    /\ call' = [call EXCEPT ![c] = Ended(@, "ok")]
    /\ UNCHANGED <<now, tenant, client, rotations>>

(* Mutant: a request without an answer is tried again.                      *)
AnswerLostRetries(c) ==
    /\ call[c].pc = "send"
    /\ Accepts(call[c].tok)
    /\ executed' = [executed EXCEPT ![c] = TRUE]
    /\ call' = [call EXCEPT ![c] = IF @.refused = NoToken
                                   THEN Again(@)
                                   ELSE Ended(@, "error")]
    /\ UNCHANGED <<now, tenant, client, rotations>>

(* It is executed, but the answer does not arrive in time: do returns the   *)
(* error and does not try again.                                            *)
AnswerLost(c) ==
    /\ call[c].pc = "send"
    /\ Accepts(call[c].tok)
    /\ executed' = [executed EXCEPT ![c] = TRUE]
    /\ call' = [call EXCEPT ![c] = Ended(@, "error")]
    /\ UNCHANGED <<now, tenant, client, rotations>>

(* Mutant: a request that could not be sent is tried again, without limit.  *)
NeverSentRetries(c) ==
    /\ call[c].pc = "send"
    /\ call' = [call EXCEPT ![c] = [@ EXCEPT !.pc = "want", !.tok = NoToken]]
    /\ UNCHANGED <<now, tenant, client, executed, rotations>>

(* The request does not reach OpsRamp.                                      *)
NeverSent(c) ==
    /\ call[c].pc = "send"
    /\ call' = [call EXCEPT ![c] = Ended(@, "error")]
    /\ UNCHANGED <<now, tenant, client, executed, rotations>>

(* 401 or 407, for a dead token or for a good one, which a token request    *)
(* would answer again: the first time the call is repeated with a forced    *)
(* refresh, the second time the refusal is its result.                      *)
Refused(c) ==
    /\ call[c].pc = "send"
    /\ call' = [call EXCEPT ![c] =
                   IF @.refused = NoToken
                   THEN Again(@)
                   ELSE Ended(@, "rejected")]
    /\ UNCHANGED <<now, tenant, client, executed, rotations>>

(* Token takes the mutex a second time, for the expiry that is cached now.  *)
ReadExpiry(c) ==
    /\ call[c].pc = "expiry"
    /\ holder = Nobody
    /\ call' = [call EXCEPT ![c] = Ended(@, "ok")]
    /\ UNCHANGED <<now, tenant, client, executed, rotations>>

Tick ==
    /\ now < MaxTime
    /\ now' = now + 1
    /\ UNCHANGED <<tenant, client, call, executed, rotations>>

(* The tenant's token is revoked or rotated before its time.                *)
Rotate ==
    /\ rotations < MaxRotations
    /\ rotations' = rotations + 1
    /\ tenant' = [token |-> tenant.token + 1, dies |-> now + FullTTL]
    /\ UNCHANGED <<now, client, call, executed>>

TokenSteps(c) ==
    UseCached(c) \/ StartFetch(c) \/ Grant(c) \/ Store(c) \/ FetchFails(c) \/ ReadExpiry(c)
WireSteps(c) == Answered(c) \/ AnswerLost(c) \/ NeverSent(c) \/ Refused(c)

Next ==
    \/ \E c \in Callers :
        \/ \E op \in Operations, force \in BOOLEAN : Call(c, op, force)
        \/ TokenSteps(c)
        \/ WireSteps(c)
    \/ Tick
    \/ Rotate

Spec == Init /\ [][Next]_vars

(* Every wait of the client ends: requests have a time limit and Go's mutex *)
(* does not starve a waiter.  Nobody has to call, no token has to be        *)
(* refused or rotated, and the clock may stand still.                       *)
Fairness == \A c \in Callers :
    /\ WF_vars(Grant(c) \/ Store(c) \/ FetchFails(c))
    /\ SF_vars(UseCached(c) \/ StartFetch(c))
    /\ SF_vars(ReadExpiry(c))
    /\ WF_vars(WireSteps(c))

FairSpec == Spec /\ Fairness

-----------------------------------------------------------------------------
Stage(c) == IF call[c].op \notin {"do", "proxy"} THEN "idle"
            ELSE IF call[c].pc # "idle" THEN "open"
            ELSE IF call[c].result = "none" THEN "idle" ELSE call[c].result

\* do, with its retry, keeps the promise of ApiCall although it repeats
\* requests: an administrative call such as DeleteResource is never executed
\* twice, and is not reported as refused after it was executed.
Promise == INSTANCE ApiCall WITH stage <- [c \in Callers |-> Stage(c)]
ExecutesOnce == Promise!Spec

\* do: the retry presents what a token request of its own answered after the
\* refusal, never a token that was dead by then, although other callers fill
\* the cache in between.  It presents the refused token again only if that was
\* refused while it was the tenant's good one.
RetryIsFresh ==
    \A c \in Callers :
        call[c].pc = "send" /\ call[c].refused # NoToken =>
            call[c].own /\ call[c].tok >= call[c].least

\* A slow answer to a token request never replaces a newer token: once the
\* refresh that a refusal forced is cached, the refused token does not return.
NeverBackwards == cache.token # NoToken => cache.token >= newest

\* EnsureToken, Token and do return: no caller waits for ever for the mutex
\* another one holds over a token request.
CallsEnd == \A c \in Callers : call[c].pc # "idle" ~> call[c].pc = "idle"
=============================================================================

-------------------------- MODULE TokenCacheProofs --------------------------
(* The token cache proved for every set of callers, every life of a token,  *)
(* every answer of the token service and any number of rotations: its       *)
(* types, that the mutex keeps tokens in order and retries fresh, and that  *)
(* it implements ApiCall.                                                   *)
EXTENDS TokenCache, TLAPS

(* The mutex is held exactly over a token request, with an empty cache.     *)
Locked ==
    /\ \A c \in Callers : holder = c <=> call[c].pc \in {"fetch", "granted"}
    /\ holder # Nobody => cache.token = NoToken

(* Tokens are numbered as the tenant issued them: none is from the future,  *)
(* and what is cached or about to be is the newest that ever was.           *)
Ordered ==
    /\ newest <= tenant.token
    /\ cache.token \in {NoToken, newest}
    /\ \A c \in Callers :
        /\ call[c].tok <= tenant.token
        /\ call[c].pc \in {"granted", "send", "expiry"} => call[c].tok # NoToken
        /\ call[c].pc = "granted" => call[c].tok >= newest

(* The tenant's token is dead, and t is the one that will follow it.        *)
Expired(t) == t = tenant.token + 1 /\ now >= tenant.dies

(* A call that was refused goes through a token request of its own, and     *)
(* comes out with a token the tenant gave out since.                        *)
Renewed ==
    \A c \in Callers : call[c].refused # NoToken =>
        /\ call[c].least <= tenant.token \/ Expired(call[c].least)
        /\ call[c].op = "do"
        /\ call[c].pc \in {"want", "fetch", "granted", "send"}
        /\ call[c].pc = "want" => call[c].force
        /\ call[c].pc \in {"granted", "send"} => call[c].own /\ call[c].tok >= call[c].least

(* Requests are those of do, and one is executed only as its call ends.     *)
Unexecuted ==
    \A c \in Callers :
        /\ call[c].pc = "send" => call[c].op = "do"
        /\ call[c].pc = "expiry" => call[c].op = "show"
        /\ executed[c] => /\ call[c].op = "do" /\ call[c].pc = "idle"
                          /\ call[c].result \in {"ok", "error"}

IInv == TypeOK /\ Locked /\ Ordered /\ Renewed /\ Unexecuted

-----------------------------------------------------------------------------
(* What the steps make of the locals of a caller.                           *)

Results == {"none", "ok", "rejected", "error"}
Stops == {"idle", "want", "fetch", "granted", "send", "expiry"}

LEMMA CallField ==
    ASSUME NEW k \in Calls
    PROVE  /\ \A x \in Stops : [k EXCEPT !.pc = x] \in Calls
           /\ \A x \in Operations : [k EXCEPT !.op = x] \in Calls
           /\ \A x \in Nat : [k EXCEPT !.tok = x] \in Calls
           /\ \A x \in Nat : [k EXCEPT !.refused = x] \in Calls
           /\ \A x \in Int : [k EXCEPT !.reported = x] \in Calls
           /\ \A x \in BOOLEAN : [k EXCEPT !.force = x] \in Calls
           /\ \A x \in BOOLEAN : [k EXCEPT !.own = x] \in Calls
           /\ \A x \in Nat : [k EXCEPT !.least = x] \in Calls
           /\ \A x \in Results : [k EXCEPT !.result = x] \in Calls
    BY DEF Calls, Stops, Results

LEMMA FreshType == \A op \in Operations : Fresh(op) \in Calls
    BY DEF Fresh, Calls, NoToken

LEMMA EndedType ==
    ASSUME NEW k \in Calls, NEW r \in Results
    PROVE  /\ Ended(k, r) \in Calls
           /\ Ended(k, r).pc = "idle" /\ Ended(k, r).tok = NoToken
           /\ Ended(k, r).refused = NoToken
           /\ Ended(k, r).op = k.op /\ Ended(k, r).result = r
<1>1. k.op \in Operations /\ Fresh(k.op) \in Calls
    BY FreshType DEF Calls
<1>2. Ended(k, r) \in Calls
    BY <1>1, CallField DEF Ended
<1> QED BY <1>2 DEF Ended, Fresh

LEMMA CalledType ==
    ASSUME NEW op \in Operations, NEW force \in BOOLEAN
    PROVE  [Fresh(op) EXCEPT !.pc = "want", !.force = force] \in Calls
    BY FreshType, CallField DEF Stops

LEMMA CurrentType ==
    ASSUME tenant \in [token : Nat \ {NoToken}, dies : Nat], now \in Nat
    PROVE  Current \in [token : Nat \ {NoToken}, dies : Nat]
    BY TimesAssumption DEF Current, NoToken

LEMMA AgainType ==
    ASSUME NEW k \in Calls, TypeOK
    PROVE  /\ Again(k) \in Calls
           /\ Again(k).pc = "want" /\ Again(k).force /\ Again(k).op = k.op
           /\ Again(k).refused = k.tok /\ Again(k).tok = NoToken
           /\ Again(k).result = k.result
           /\ Again(k).least = Current.token
<1> DEFINE k1 == [k EXCEPT !.pc = "want"]
           k2 == [k1 EXCEPT !.force = TRUE]
           k3 == [k2 EXCEPT !.refused = k.tok]
           k4 == [k3 EXCEPT !.tok = NoToken]
           k5 == [k4 EXCEPT !.own = FALSE]
           k6 == [k5 EXCEPT !.least = Current.token]
<1>0. Current.token \in Nat
    BY CurrentType, TimesAssumption DEF TypeOK
<1>1. k1 \in Calls
    BY CallField DEF Stops
<1> HIDE DEF k1
<1>2. k2 \in Calls
    BY <1>1, CallField
<1> HIDE DEF k2
<1>3. k3 \in Calls
    BY <1>2, CallField DEF Calls
<1> HIDE DEF k3
<1>4. k4 \in Calls
    BY <1>3, CallField DEF NoToken
<1> HIDE DEF k4
<1>5. k5 \in Calls
    BY <1>4, CallField
<1> HIDE DEF k5
<1>6. k6 \in Calls
    BY <1>0, <1>5, CallField
<1>7. Again(k) \in Calls
    BY <1>6 DEF k1, k2, k3, k4, k5, k6, Again
<1> QED BY <1>7 DEF Again, Calls

(* The stops at which a caller is with a token, and those of a request.     *)
LEMMA WithTokenType ==
    ASSUME NEW k \in Calls, NEW t \in Nat
    PROVE  WithToken(k, t) \in Calls
<1>1. CASE k.op = "do"
    <2> DEFINE k1 == [k EXCEPT !.pc = "send"]
               k2 == [k1 EXCEPT !.tok = t]
               k3 == [k2 EXCEPT !.reported = 0]
    <2>1. k1 \in Calls
        BY CallField DEF Stops
    <2> HIDE DEF k1
    <2>2. k2 \in Calls
        BY <2>1, CallField
    <2> HIDE DEF k2
    <2>3. k3 \in Calls
        BY <2>2, CallField
    <2> QED BY <1>1, <2>3 DEF WithToken, k1, k2, k3
<1>2. CASE k.op = "proxy"
    <2> DEFINE k1 == [k EXCEPT !.op = "do"]
               k2 == [k1 EXCEPT !.pc = "want"]
               k3 == [k2 EXCEPT !.tok = NoToken]
               k4 == [k3 EXCEPT !.reported = 0]
    <2>1. k1 \in Calls
        BY CallField DEF Operations
    <2> HIDE DEF k1
    <2>2. k2 \in Calls
        BY <2>1, CallField DEF Stops
    <2> HIDE DEF k2
    <2>3. k3 \in Calls
        BY <2>2, CallField DEF NoToken
    <2> HIDE DEF k3
    <2>4. k4 \in Calls
        BY <2>3, CallField
    <2> QED BY <1>2, <2>4 DEF WithToken, k1, k2, k3, k4
<1>3. CASE k.op = "ensure"
    BY <1>3, EndedType DEF WithToken, Results
<1>4. CASE k.op = "show"
    <2> DEFINE k1 == [k EXCEPT !.pc = "expiry"]
               k2 == [k1 EXCEPT !.tok = t]
               k3 == [k2 EXCEPT !.reported = 0]
    <2>1. k1 \in Calls
        BY CallField DEF Stops
    <2> HIDE DEF k1
    <2>2. k2 \in Calls
        BY <2>1, CallField
    <2> HIDE DEF k2
    <2>3. k3 \in Calls
        BY <2>2, CallField
    <2> QED BY <1>4, <2>3 DEF WithToken, k1, k2, k3
<1> QED BY <1>1, <1>2, <1>3, <1>4 DEF Calls, Operations

LEMMA WithTokenFields ==
    ASSUME NEW k \in Calls, NEW t \in Nat
    PROVE  LET w == WithToken(k, t) IN
           /\ w.pc \in {"send", "want", "idle", "expiry"}
           /\ w.pc \in {"send", "expiry"} => w.tok = t
           /\ w.tok \in {t, NoToken}
           /\ k.op = "do" => /\ w.op = "do" /\ w.pc = "send" /\ w.refused = k.refused
                             /\ w.own = k.own /\ w.least = k.least
           /\ w.pc = "send" => w.op = "do"
           /\ w.pc = "expiry" => w.op = "show"
           /\ w.op = "do" => k.op \in {"do", "proxy"} /\ w.pc # "idle"
           /\ k.op = "proxy" => w.op = "do"
           /\ w.refused \in {k.refused, NoToken}
<1>1. CASE k.op = "do"
    BY <1>1 DEF WithToken, Calls
<1>2. CASE k.op = "proxy"
    BY <1>2 DEF WithToken, Calls
<1>3. CASE k.op = "ensure"
    <2>1. "ok" \in Results
        BY DEF Results
    <2> QED BY <1>3, <2>1, EndedType DEF WithToken
<1>4. CASE k.op = "show"
    BY <1>4 DEF WithToken, Calls
<1> QED BY <1>1, <1>2, <1>3, <1>4 DEF Calls, Operations

LEMMA CallStep ==
    ASSUME call \in [Callers -> Calls], NEW c \in Callers, NEW k \in Calls,
           call' = [call EXCEPT ![c] = k]
    PROVE  call' \in [Callers -> Calls]
    OBVIOUS

LEMMA GrantedType ==
    ASSUME NEW k \in Calls, NEW t \in Nat, NEW r \in Int
    PROVE  [k EXCEPT !.pc = "granted", !.tok = t, !.reported = r, !.own = TRUE] \in Calls
<1> DEFINE k1 == [k EXCEPT !.pc = "granted"]
           k2 == [k1 EXCEPT !.tok = t]
           k3 == [k2 EXCEPT !.reported = r]
           k4 == [k3 EXCEPT !.own = TRUE]
<1>1. k1 \in Calls
    BY CallField DEF Stops
<1> HIDE DEF k1
<1>2. k2 \in Calls
    BY <1>1, CallField
<1> HIDE DEF k2
<1>3. k3 \in Calls
    BY <1>2, CallField
<1> HIDE DEF k3
<1>4. k4 \in Calls
    BY <1>3, CallField
<1> QED BY <1>4 DEF k1, k2, k3, k4

-----------------------------------------------------------------------------
LEMMA InitIInv == Init => IInv
    BY CallersAssumption, TimesAssumption, FreshType
       DEF Init, IInv, TypeOK, Locked, Ordered, Renewed, Unexecuted, NoCache, NoToken, Fresh,
           Operations

LEMMA NextTypeOK == TypeOK /\ [Next]_vars => TypeOK'
<1> SUFFICES ASSUME TypeOK, [Next]_vars
             PROVE  TypeOK'
    OBVIOUS
<1> USE TimesAssumption, CallersAssumption DEF TypeOK, client
<1>1. ASSUME NEW c \in Callers, NEW op \in Operations, NEW force \in BOOLEAN, Call(c, op, force)
      PROVE  TypeOK'
    <2>1. call' \in [Callers -> Calls]
        BY <1>1, CalledType, CallStep DEF Call
    <2> QED BY <1>1, <2>1 DEF Call
<1>2. ASSUME NEW c \in Callers, UseCached(c)
      PROVE  TypeOK'
    <2>1. call' \in [Callers -> Calls]
        BY <1>2, WithTokenType, CallStep DEF UseCached
    <2> QED BY <1>2, <2>1 DEF UseCached
<1>3. ASSUME NEW c \in Callers, StartFetch(c)
      PROVE  TypeOK'
    <2>1. call' \in [Callers -> Calls]
        BY <1>3, CallField, CallStep DEF StartFetch, Stops
    <2> QED BY <1>3, <2>1 DEF StartFetch, NoCache, NoToken
<1>4. ASSUME NEW c \in Callers, Grant(c)
      PROVE  TypeOK'
    <2>1. Current \in [token : Nat \ {NoToken}, dies : Nat]
        BY DEF Current, NoToken
    <2>2. PICK r \in {Current.dies - now} \cup OddReports :
              call' = [call EXCEPT ![c] =
                  [call[c] EXCEPT !.pc = "granted", !.tok = Current.token, !.reported = r, !.own = TRUE]]
        BY <1>4 DEF Grant
    <2>3. Current.token \in Nat /\ r \in Int
        BY <2>1
    <2>4. call' \in [Callers -> Calls]
        BY <2>2, <2>3, GrantedType, CallStep
    <2> QED BY <1>4, <2>1, <2>4 DEF Grant
<1>5. ASSUME NEW c \in Callers, Store(c)
      PROVE  TypeOK'
    <2>1. call[c] \in Calls /\ call[c].tok \in Nat /\ call[c].reported \in Int
        BY DEF Calls
    <2>2. TTL(call[c].reported) \in Nat
        BY <2>1 DEF TTL
    <2>3. call' \in [Callers -> Calls]
        BY <1>5, <2>1, WithTokenType, CallStep DEF Store
    <2>4. cache' \in [token : Nat, expiry : Nat] /\ newest' \in Nat
        BY <1>5, <2>1, <2>2 DEF Store
    <2> QED BY <1>5, <2>3, <2>4 DEF Store
<1>6. ASSUME NEW c \in Callers, FetchFails(c)
      PROVE  TypeOK'
    <2>1. call' \in [Callers -> Calls]
        BY <1>6, EndedType, CallStep DEF FetchFails, Results
    <2> QED BY <1>6, <2>1 DEF FetchFails
<1>7. ASSUME NEW c \in Callers, Answered(c)
      PROVE  TypeOK'
    <2>1. call' \in [Callers -> Calls]
        BY <1>7, EndedType, CallStep DEF Answered, Results
    <2> QED BY <1>7, <2>1 DEF Answered
<1>8. ASSUME NEW c \in Callers, AnswerLost(c)
      PROVE  TypeOK'
    <2>1. call' \in [Callers -> Calls]
        BY <1>8, EndedType, CallStep DEF AnswerLost, Results
    <2> QED BY <1>8, <2>1 DEF AnswerLost
<1>9. ASSUME NEW c \in Callers, NeverSent(c)
      PROVE  TypeOK'
    <2>1. call' \in [Callers -> Calls]
        BY <1>9, EndedType, CallStep DEF NeverSent, Results
    <2> QED BY <1>9, <2>1 DEF NeverSent
<1>10. ASSUME NEW c \in Callers, Refused(c)
      PROVE  TypeOK'
    <2>1. call' \in [Callers -> Calls]
        BY <1>10, EndedType, AgainType, CallStep DEF Refused, Results
    <2> QED BY <1>10, <2>1 DEF Refused
<1>11. ASSUME NEW c \in Callers, ReadExpiry(c)
      PROVE  TypeOK'
    <2>1. call' \in [Callers -> Calls]
        BY <1>11, EndedType, CallStep DEF ReadExpiry, Results
    <2> QED BY <1>11, <2>1 DEF ReadExpiry
<1>12. CASE Tick
    BY <1>12 DEF Tick
<1>13. CASE Rotate
    BY <1>13 DEF Rotate, NoToken
<1>14. CASE UNCHANGED vars
    BY <1>14 DEF vars
<1> QED BY <1>1, <1>2, <1>3, <1>4, <1>5, <1>6, <1>7, <1>8, <1>9, <1>10, <1>11, <1>12, <1>13, <1>14
        DEF Next, TokenSteps, WireSteps

LEMMA NextLocked == TypeOK /\ Locked /\ [Next]_vars => Locked'
<1> SUFFICES ASSUME TypeOK /\ Locked, [Next]_vars
             PROVE  Locked'
    OBVIOUS
<1> USE CallersAssumption DEF TypeOK, Calls, Locked, client
<1>1. ASSUME NEW c \in Callers, NEW op \in Operations, NEW force \in BOOLEAN, Call(c, op, force)
      PROVE  Locked'
    BY <1>1 DEF Call, Fresh
<1>2. ASSUME NEW c \in Callers, UseCached(c)
      PROVE  Locked'
    <2>1. call' = [call EXCEPT ![c] = WithToken(call[c], cache.token)] /\ holder = Nobody
        BY <1>2 DEF UseCached
    <2>2. WithToken(call[c], cache.token).pc \notin {"fetch", "granted"}
        BY WithTokenFields
    <2> QED BY <1>2, <2>1, <2>2 DEF UseCached
<1>3. ASSUME NEW c \in Callers, StartFetch(c)
      PROVE  Locked'
    BY <1>3 DEF StartFetch, NoCache
<1>4. ASSUME NEW c \in Callers, Grant(c)
      PROVE  Locked'
    BY <1>4 DEF Grant, Current
<1>5. ASSUME NEW c \in Callers, Store(c)
      PROVE  Locked'
    <2>1. call' = [call EXCEPT ![c] = WithToken(call[c], call[c].tok)] /\ holder' = Nobody
        BY <1>5 DEF Store
    <2>2. WithToken(call[c], call[c].tok).pc \notin {"fetch", "granted"}
        BY WithTokenFields
    <2>3. \A d \in Callers : d # c => call[d].pc \notin {"fetch", "granted"}
        BY <1>5 DEF Store
    <2> HIDE DEF Calls
    <2> QED BY <2>1, <2>2, <2>3
<1>6. ASSUME NEW c \in Callers, FetchFails(c)
      PROVE  Locked'
    BY <1>6, EndedType DEF FetchFails, Results
<1>7. ASSUME NEW c \in Callers, Answered(c)
      PROVE  Locked'
    BY <1>7, EndedType DEF Answered, Accepts, Results
<1>8. ASSUME NEW c \in Callers, AnswerLost(c)
      PROVE  Locked'
    BY <1>8, EndedType DEF AnswerLost, Accepts, Results
<1>9. ASSUME NEW c \in Callers, NeverSent(c)
      PROVE  Locked'
    BY <1>9, EndedType DEF NeverSent, Results
<1>10. ASSUME NEW c \in Callers, Refused(c)
      PROVE  Locked'
    BY <1>10, EndedType, AgainType DEF Refused, Accepts, Results
<1>11. ASSUME NEW c \in Callers, ReadExpiry(c)
      PROVE  Locked'
    BY <1>11, EndedType DEF ReadExpiry, Results
<1>12. CASE Tick
    BY <1>12 DEF Tick
<1>13. CASE Rotate
    BY <1>13 DEF Rotate
<1>14. CASE UNCHANGED vars
    BY <1>14 DEF vars
<1> QED BY <1>1, <1>2, <1>3, <1>4, <1>5, <1>6, <1>7, <1>8, <1>9, <1>10, <1>11, <1>12, <1>13, <1>14
        DEF Next, TokenSteps, WireSteps

LEMMA NextOrdered == TypeOK /\ Locked /\ Ordered /\ [Next]_vars => Ordered'
<1> SUFFICES ASSUME TypeOK /\ Locked /\ Ordered, [Next]_vars
             PROVE  Ordered'
    OBVIOUS
<1> USE DEF TypeOK, Calls, Locked, Ordered, client, NoToken
<1>1. ASSUME NEW c \in Callers, NEW op \in Operations, NEW force \in BOOLEAN, Call(c, op, force)
      PROVE  Ordered'
    BY <1>1 DEF Call, Fresh
<1>2. ASSUME NEW c \in Callers, UseCached(c)
      PROVE  Ordered'
    <2> DEFINE w == WithToken(call[c], cache.token)
    <2>1. /\ call' = [call EXCEPT ![c] = w] /\ cache.token # NoToken
          /\ UNCHANGED <<tenant, cache, newest>>
        BY <1>2 DEF UseCached, Valid
    <2>2. /\ w.pc \in {"send", "want", "idle", "expiry"}
          /\ w.pc \in {"send", "expiry"} => w.tok = cache.token
          /\ w.tok \in {cache.token, NoToken}
        BY WithTokenFields
    <2>3. cache.token \in Nat /\ cache.token <= tenant.token
        OBVIOUS
    <2> HIDE DEF w, Calls
    <2> QED BY <2>1, <2>2, <2>3
<1>3. ASSUME NEW c \in Callers, StartFetch(c)
      PROVE  Ordered'
    BY <1>3 DEF StartFetch, NoCache
<1>4. ASSUME NEW c \in Callers, Grant(c)
      PROVE  Ordered'
    BY <1>4 DEF Grant, Current
<1>5. ASSUME NEW c \in Callers, Store(c)
      PROVE  Ordered'
    <2>1. call[c].tok \in Nat \ {0} /\ call[c].tok >= newest /\ call[c].tok <= tenant.token
        BY <1>5 DEF Store
    <2> tenant' = tenant /\ cache'.token = call[c].tok
        BY <1>5 DEF Store
    <2>2. newest' = call[c].tok
        <3>1. newest' = IF call[c].tok > newest THEN call[c].tok ELSE newest
            BY <1>5 DEF Store
        <3>2. newest \in Nat
            OBVIOUS
        <3> HIDE DEF TypeOK, Calls, Locked, Ordered
        <3> QED BY <2>1, <3>1, <3>2
    <2>3. ASSUME NEW d \in Callers
          PROVE  /\ call'[d].tok <= tenant.token
                 /\ call'[d].pc \in {"granted", "send", "expiry"} => call'[d].tok # NoToken
                 /\ call'[d].pc # "granted"
        <3>1. CASE d = c
            <4> DEFINE w == WithToken(call[c], call[c].tok)
            <4>1. call'[d] = w
                BY <1>5, <3>1 DEF Store
            <4>2. /\ w.pc \in {"send", "want", "idle", "expiry"}
                  /\ w.pc \in {"send", "expiry"} => w.tok = call[c].tok
                  /\ w.tok \in {call[c].tok, NoToken}
                BY <2>1, WithTokenFields
            <4> HIDE DEF w
            <4> QED BY <2>1, <4>1, <4>2
        <3>2. CASE d # c
            BY <1>5, <3>2 DEF Store
        <3> QED BY <3>1, <3>2
    <2> QED BY <2>1, <2>2, <2>3
<1>6. ASSUME NEW c \in Callers, FetchFails(c)
      PROVE  Ordered'
    BY <1>6, EndedType DEF FetchFails, Results
<1>7. ASSUME NEW c \in Callers, Answered(c)
      PROVE  Ordered'
    BY <1>7, EndedType DEF Answered, Accepts, Results
<1>8. ASSUME NEW c \in Callers, AnswerLost(c)
      PROVE  Ordered'
    BY <1>8, EndedType DEF AnswerLost, Accepts, Results
<1>9. ASSUME NEW c \in Callers, NeverSent(c)
      PROVE  Ordered'
    BY <1>9, EndedType DEF NeverSent, Results
<1>10. ASSUME NEW c \in Callers, Refused(c)
      PROVE  Ordered'
    BY <1>10, EndedType, AgainType DEF Refused, Accepts, Results
<1>11. ASSUME NEW c \in Callers, ReadExpiry(c)
      PROVE  Ordered'
    BY <1>11, EndedType DEF ReadExpiry, Results
<1>12. CASE Tick
    BY <1>12 DEF Tick
<1>13. CASE Rotate
    BY <1>13 DEF Rotate
<1>14. CASE UNCHANGED vars
    BY <1>14 DEF vars
<1> QED BY <1>1, <1>2, <1>3, <1>4, <1>5, <1>6, <1>7, <1>8, <1>9, <1>10, <1>11, <1>12, <1>13, <1>14
        DEF Next, TokenSteps, WireSteps

LEMMA NextRenewed == TypeOK /\ Ordered /\ Unexecuted /\ Renewed /\ [Next]_vars => Renewed'
<1> SUFFICES ASSUME TypeOK /\ Ordered /\ Unexecuted /\ Renewed, [Next]_vars
             PROVE  Renewed'
    OBVIOUS
<1> USE TimesAssumption DEF TypeOK, Calls, Ordered, Renewed, Expired, client, NoToken
<1>1. ASSUME NEW c \in Callers, NEW op \in Operations, NEW force \in BOOLEAN, Call(c, op, force)
      PROVE  Renewed'
    BY <1>1 DEF Call, Fresh
<1>2. ASSUME NEW c \in Callers, UseCached(c)
      PROVE  Renewed'
    BY <1>2, WithTokenFields DEF UseCached, Valid
<1>3. ASSUME NEW c \in Callers, StartFetch(c)
      PROVE  Renewed'
    BY <1>3 DEF StartFetch, NoCache
<1>4. ASSUME NEW c \in Callers, Grant(c)
      PROVE  Renewed'
    BY <1>4 DEF Grant, Current
<1>5. ASSUME NEW c \in Callers, Store(c)
      PROVE  Renewed'
    BY <1>5, WithTokenFields DEF Store
<1>6. ASSUME NEW c \in Callers, FetchFails(c)
      PROVE  Renewed'
    BY <1>6, EndedType DEF FetchFails, Results
<1>7. ASSUME NEW c \in Callers, Answered(c)
      PROVE  Renewed'
    BY <1>7, EndedType DEF Answered, Accepts, Results
<1>8. ASSUME NEW c \in Callers, AnswerLost(c)
      PROVE  Renewed'
    BY <1>8, EndedType DEF AnswerLost, Accepts, Results
<1>9. ASSUME NEW c \in Callers, NeverSent(c)
      PROVE  Renewed'
    BY <1>9, EndedType DEF NeverSent, Results
<1>10. ASSUME NEW c \in Callers, Refused(c)
      PROVE  Renewed'
    <2> call[c] \in Calls /\ call[c].op = "do" /\ tenant' = tenant /\ now' = now
        BY <1>10 DEF Refused, Unexecuted
    <2>1. Current.token <= tenant.token \/ Expired(Current.token)
        BY DEF Current
    <2>2. CASE call[c].refused = NoToken
        <3>1. call' = [call EXCEPT ![c] = Again(call[c])]
            BY <1>10, <2>2 DEF Refused
        <3> QED BY <2>1, <3>1, AgainType
    <2>3. CASE call[c].refused # NoToken
        <3>1. call' = [call EXCEPT ![c] = Ended(call[c], "rejected")]
            BY <1>10, <2>3 DEF Refused
        <3> QED BY <2>1, <3>1, EndedType DEF Results
    <2> QED BY <2>2, <2>3
<1>11. ASSUME NEW c \in Callers, ReadExpiry(c)
      PROVE  Renewed'
    BY <1>11, EndedType DEF ReadExpiry, Results
<1>12. CASE Tick
    BY <1>12 DEF Tick
<1>13. CASE Rotate
    BY <1>13 DEF Rotate
<1>14. CASE UNCHANGED vars
    BY <1>14 DEF vars
<1> QED BY <1>1, <1>2, <1>3, <1>4, <1>5, <1>6, <1>7, <1>8, <1>9, <1>10, <1>11, <1>12, <1>13, <1>14
        DEF Next, TokenSteps, WireSteps

LEMMA NextUnexecuted == TypeOK /\ Unexecuted /\ [Next]_vars => Unexecuted'
<1> SUFFICES ASSUME TypeOK /\ Unexecuted, [Next]_vars
             PROVE  Unexecuted'
    OBVIOUS
<1> USE DEF TypeOK, Calls, Unexecuted, client
<1>1. ASSUME NEW c \in Callers, NEW op \in Operations, NEW force \in BOOLEAN, Call(c, op, force)
      PROVE  Unexecuted'
    BY <1>1 DEF Call, Fresh
<1>2. ASSUME NEW c \in Callers, UseCached(c)
      PROVE  Unexecuted'
    BY <1>2, WithTokenFields DEF UseCached, Valid
<1>3. ASSUME NEW c \in Callers, StartFetch(c)
      PROVE  Unexecuted'
    BY <1>3 DEF StartFetch, NoCache
<1>4. ASSUME NEW c \in Callers, Grant(c)
      PROVE  Unexecuted'
    BY <1>4 DEF Grant, Current
<1>5. ASSUME NEW c \in Callers, Store(c)
      PROVE  Unexecuted'
    BY <1>5, WithTokenFields DEF Store
<1>6. ASSUME NEW c \in Callers, FetchFails(c)
      PROVE  Unexecuted'
    BY <1>6, EndedType DEF FetchFails, Results
<1>7. ASSUME NEW c \in Callers, Answered(c)
      PROVE  Unexecuted'
    BY <1>7, EndedType DEF Answered, Accepts, Results
<1>8. ASSUME NEW c \in Callers, AnswerLost(c)
      PROVE  Unexecuted'
    BY <1>8, EndedType DEF AnswerLost, Accepts, Results
<1>9. ASSUME NEW c \in Callers, NeverSent(c)
      PROVE  Unexecuted'
    BY <1>9, EndedType DEF NeverSent, Results
<1>10. ASSUME NEW c \in Callers, Refused(c)
      PROVE  Unexecuted'
    BY <1>10, EndedType, AgainType DEF Refused, Accepts, Results
<1>11. ASSUME NEW c \in Callers, ReadExpiry(c)
      PROVE  Unexecuted'
    BY <1>11, EndedType DEF ReadExpiry, Results
<1>12. CASE Tick
    BY <1>12 DEF Tick
<1>13. CASE Rotate
    BY <1>13 DEF Rotate
<1>14. CASE UNCHANGED vars
    BY <1>14 DEF vars
<1> QED BY <1>1, <1>2, <1>3, <1>4, <1>5, <1>6, <1>7, <1>8, <1>9, <1>10, <1>11, <1>12, <1>13, <1>14
        DEF Next, TokenSteps, WireSteps

LEMMA NextIInv == IInv /\ [Next]_vars => IInv'
    BY NextTypeOK, NextLocked, NextOrdered, NextRenewed, NextUnexecuted DEF IInv

THEOREM Invariance == Spec => []IInv
<1> QED BY InitIInv, NextIInv, PTL DEF Spec

(* The type invariant of the token cache, for every instance.               *)
THEOREM TypeCorrect == Spec => []TypeOK
<1>1. IInv => TypeOK
    BY DEF IInv
<1> QED BY <1>1, Invariance, PTL

(* The retry of do presents what a token request of its own answered after  *)
(* the refusal, and never a token that was dead by then, whatever other     *)
(* callers put in the cache meanwhile.                                      *)
THEOREM FreshRetries == Spec => []RetryIsFresh
<1>1. IInv => RetryIsFresh
    BY DEF IInv, Renewed, RetryIsFresh
<1> QED BY <1>1, Invariance, PTL

(* A late answer to a token request never replaces a newer token.           *)
THEOREM CacheForward == Spec => []NeverBackwards
<1>1. IInv => NeverBackwards
    BY DEF IInv, TypeOK, Ordered, NeverBackwards
<1> QED BY <1>1, Invariance, PTL

-----------------------------------------------------------------------------
(* The refinement of ApiCall.  A step changes the stage of its caller only. *)

LEMMA InitPromise == Init => Promise!Init
    BY DEF Init, Promise!Init, Stage, Fresh

StageOf(k) == IF k.op \notin {"do", "proxy"} THEN "idle"
              ELSE IF k.pc # "idle" THEN "open"
              ELSE IF k.result = "none" THEN "idle" ELSE k.result

stages == [c \in Callers |-> Stage(c)]

LEMMA StageStep ==
    ASSUME call \in [Callers -> Calls], NEW c \in Callers, NEW k,
           call' = [call EXCEPT ![c] = k]
    PROVE  stages' = [stages EXCEPT ![c] = StageOf(k)]
    BY DEF stages, Stage, StageOf

LEMMA StageSame ==
    ASSUME call \in [Callers -> Calls], NEW c \in Callers, NEW k,
           call' = [call EXCEPT ![c] = k], StageOf(k) = Stage(c)
    PROVE  stages' = stages
<1>1. stages' = [stages EXCEPT ![c] = stages[c]]
    BY StageStep DEF stages
<1> QED BY <1>1 DEF stages

(* A caller that got a token is as far as before, unless it wanted no more. *)
LEMMA StageWithToken ==
    ASSUME NEW k \in Calls, NEW t \in Nat, k.pc # "idle"
    PROVE  StageOf(WithToken(k, t)) = StageOf(k)
<1>1. CASE k.op = "do"
    BY <1>1, WithTokenFields DEF StageOf
<1>2. CASE k.op = "proxy"
    BY <1>2, WithTokenFields DEF StageOf
<1>3. CASE k.op = "ensure"
    BY <1>3, EndedType DEF StageOf, WithToken, Results
<1>4. CASE k.op = "show"
    BY <1>4 DEF StageOf, WithToken, Calls
<1> QED BY <1>1, <1>2, <1>3, <1>4 DEF Calls, Operations

LEMMA EndStep ==
    ASSUME NEW c \in Callers, NEW r \in {"ok", "rejected", "error"}, Stage(c) = "open",
           r = "ok" => executed[c], r = "rejected" => ~executed[c],
           stages' = [stages EXCEPT ![c] = r], executed' = executed
    PROVE  Promise!Next
<1>1. Promise!End(c, r)
    BY DEF Promise!End, stages
<1> QED BY <1>1 DEF Promise!Next, Promise!Stages

LEMMA NextPromise == IInv /\ [Next]_vars => [Promise!Next]_(Promise!callVars)
<1> SUFFICES ASSUME IInv, [Next]_vars
             PROVE  [Promise!Next]_<<stages, executed>>
    BY DEF Promise!callVars, stages
<1> USE DEF client
<1> call \in [Callers -> Calls] /\ executed \in [Callers -> BOOLEAN]
    BY DEF IInv, TypeOK
<1> \A c \in Callers : stages[c] = Stage(c) /\ Stage(c) = StageOf(call[c])
    BY DEF stages, Stage, StageOf
<1>1. ASSUME NEW c \in Callers, NEW op \in Operations, NEW force \in BOOLEAN, Call(c, op, force)
      PROVE  Promise!Next
    <2> DEFINE k == [Fresh(op) EXCEPT !.pc = "want", !.force = force]
    <2>1. k.op = op /\ k.pc = "want"
        BY DEF Fresh
    <2>2. call' = [call EXCEPT ![c] = k] /\ executed' = [executed EXCEPT ![c] = FALSE]
        BY <1>1 DEF Call
    <2> HIDE DEF k
    <2>3. stages' = [stages EXCEPT ![c] = StageOf(k)]
        BY <2>2, StageStep
    <2>4. Stage(c) # "open"
        BY <1>1 DEF Call, Stage, IInv, TypeOK, Calls
    <2>5. StageOf(k) \in {"open", "idle"}
        BY <2>1 DEF StageOf
    <2>6. Promise!Begin(c) \/ Promise!Leave(c)
        BY <2>2, <2>3, <2>4, <2>5 DEF Promise!Begin, Promise!Leave, stages
    <2> QED BY <2>6 DEF Promise!Next
<1>2. ASSUME NEW c \in Callers, UseCached(c)
      PROVE  UNCHANGED <<stages, executed>>
    <2>1. call' = [call EXCEPT ![c] = WithToken(call[c], cache.token)] /\ call[c].pc # "idle"
        BY <1>2 DEF UseCached
    <2>2. StageOf(WithToken(call[c], cache.token)) = Stage(c)
        BY <2>1, StageWithToken DEF IInv, TypeOK
    <2> QED BY <1>2, <2>1, <2>2, StageSame DEF UseCached
<1>3. ASSUME NEW c \in Callers, StartFetch(c)
      PROVE  UNCHANGED <<stages, executed>>
    <2>1. call' = [call EXCEPT ![c] = [call[c] EXCEPT !.pc = "fetch"]] /\ call[c].pc # "idle"
        BY <1>3 DEF StartFetch
    <2>2. StageOf([call[c] EXCEPT !.pc = "fetch"]) = Stage(c)
        BY <2>1 DEF StageOf, Calls
    <2> QED BY <1>3, <2>1, <2>2, StageSame DEF StartFetch
<1>4. ASSUME NEW c \in Callers, Grant(c)
      PROVE  UNCHANGED <<stages, executed>>
    <2>1. PICK r : call' = [call EXCEPT ![c] =
              [call[c] EXCEPT !.pc = "granted", !.tok = Current.token, !.reported = r, !.own = TRUE]]
        BY <1>4 DEF Grant
    <2>2. StageOf([call[c] EXCEPT !.pc = "granted", !.tok = Current.token, !.reported = r, !.own = TRUE]) = Stage(c)
        BY <1>4 DEF StageOf, Calls, Grant
    <2> QED BY <1>4, <2>1, <2>2, StageSame DEF Grant
<1>5. ASSUME NEW c \in Callers, Store(c)
      PROVE  UNCHANGED <<stages, executed>>
    <2>1. call' = [call EXCEPT ![c] = WithToken(call[c], call[c].tok)] /\ call[c].pc # "idle"
        BY <1>5 DEF Store
    <2>2. StageOf(WithToken(call[c], call[c].tok)) = Stage(c)
        BY <2>1, StageWithToken DEF Calls
    <2> QED BY <1>5, <2>1, <2>2, StageSame DEF Store
<1>6. ASSUME NEW c \in Callers, FetchFails(c)
      PROVE  Promise!Next \/ UNCHANGED <<stages, executed>>
    <2>1. call' = [call EXCEPT ![c] = Ended(call[c], "error")] /\ executed' = executed
        BY <1>6 DEF FetchFails
    <2>2. CASE call[c].op \in {"do", "proxy"}
        <3>1. Stage(c) = "open" /\ StageOf(Ended(call[c], "error")) = "error"
            BY <1>6, <2>2, EndedType DEF FetchFails, StageOf, Results
        <3>2. stages' = [stages EXCEPT ![c] = StageOf(Ended(call[c], "error"))]
            BY <2>1, StageStep
        <3>3. stages' = [stages EXCEPT ![c] = "error"]
            BY <3>1, <3>2
        <3> QED BY <2>1, <3>1, <3>3, EndStep
    <2>3. CASE call[c].op \notin {"do", "proxy"}
        <3>1. StageOf(Ended(call[c], "error")) = Stage(c)
            BY <2>3, EndedType DEF StageOf, Results
        <3> QED BY <2>1, <3>1, StageSame
    <2> QED BY <2>2, <2>3
<1>7. ASSUME NEW c \in Callers, Answered(c) \/ AnswerLost(c)
      PROVE  Promise!Next
    <2>1. PICK r \in {"ok", "error"} : call' = [call EXCEPT ![c] = Ended(call[c], r)]
        BY <1>7 DEF Answered, AnswerLost
    <2>2. ~executed[c] /\ call[c].op = "do" /\ executed' = [executed EXCEPT ![c] = TRUE]
        BY <1>7 DEF Answered, AnswerLost, IInv, Unexecuted
    <2>3. Stage(c) = "open" /\ StageOf(Ended(call[c], r)) = r
        BY <1>7, <2>2, EndedType DEF Answered, AnswerLost, StageOf, Results
    <2>4. Promise!Execute(c, r)
        BY <2>1, <2>2, <2>3, StageStep DEF Promise!Execute, stages
    <2> QED BY <2>4 DEF Promise!Next, Promise!Stages
<1>8. ASSUME NEW c \in Callers, NeverSent(c)
      PROVE  Promise!Next
    <2>1. call' = [call EXCEPT ![c] = Ended(call[c], "error")] /\ executed' = executed
        BY <1>8 DEF NeverSent
    <2>2. Stage(c) = "open" /\ StageOf(Ended(call[c], "error")) = "error"
        BY <1>8, EndedType DEF NeverSent, StageOf, IInv, Unexecuted, Results
    <2>3. stages' = [stages EXCEPT ![c] = StageOf(Ended(call[c], "error"))]
        BY <2>1, StageStep
    <2>4. stages' = [stages EXCEPT ![c] = "error"]
        BY <2>2, <2>3
    <2> QED BY <2>1, <2>2, <2>4, EndStep
<1>9. ASSUME NEW c \in Callers, Refused(c)
      PROVE  Promise!Next \/ UNCHANGED <<stages, executed>>
    <2>1. call[c].pc = "send" /\ call[c].op = "do" /\ ~executed[c] /\ executed' = executed
        BY <1>9 DEF Refused, IInv, Unexecuted
    <2>2. Stage(c) = "open"
        BY <2>1 DEF StageOf
    <2>3. CASE call[c].refused = NoToken
        <3>1. call' = [call EXCEPT ![c] = Again(call[c])]
            BY <1>9, <2>3 DEF Refused
        <3>2. /\ Again(call[c]).pc = "want" /\ Again(call[c]).op = call[c].op
              /\ Again(call[c]).result = call[c].result
            BY AgainType DEF IInv, TypeOK
        <3>3. StageOf(Again(call[c])) = Stage(c)
            BY <2>1, <2>2, <3>2 DEF StageOf
        <3> QED BY <2>1, <3>1, <3>3, StageSame
    <2>4. CASE call[c].refused # NoToken
        <3>1. call' = [call EXCEPT ![c] = Ended(call[c], "rejected")]
            BY <1>9, <2>4 DEF Refused
        <3>2. StageOf(Ended(call[c], "rejected")) = "rejected"
            BY <2>1, EndedType DEF StageOf, Results
        <3>3. stages' = [stages EXCEPT ![c] = "rejected"]
            BY <3>1, <3>2, StageStep
        <3> QED BY <2>1, <2>2, <3>3, EndStep
    <2> QED BY <2>3, <2>4
<1>10. ASSUME NEW c \in Callers, ReadExpiry(c)
      PROVE  UNCHANGED <<stages, executed>>
    <2>1. call[c].op = "show"
        BY <1>10 DEF ReadExpiry, IInv, Unexecuted
    <2>2. StageOf(Ended(call[c], "ok")) = Stage(c)
        BY <2>1, EndedType DEF StageOf, Results
    <2> QED BY <1>10, <2>2, StageSame DEF ReadExpiry
<1>11. CASE Tick \/ Rotate \/ UNCHANGED vars
    BY <1>11 DEF Tick, Rotate, vars, stages, Stage
<1> QED BY <1>1, <1>2, <1>3, <1>4, <1>5, <1>6, <1>7, <1>8, <1>9, <1>10, <1>11
        DEF Next, TokenSteps, WireSteps

(* do with its retry implements ApiCall: a request is executed at most once *)
(* and not reported as refused when it was.                                 *)
THEOREM Implements == Spec => ExecutesOnce
<1> QED BY InitPromise, NextPromise, Invariance, PTL
        DEF Spec, ExecutesOnce, Promise!Spec
=============================================================================

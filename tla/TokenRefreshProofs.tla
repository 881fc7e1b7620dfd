------------------------- MODULE TokenRefreshProofs -------------------------
(***************************************************************************)
(* Proofs about TokenRefresh for every number of requests and of token     *)
(* pairs, every lead, lifetime and cache time: the in-flight promise       *)
(* admits one exchange at a time, the recorded expiry is honest, and, when *)
(* the provider rejects only stale pairs, the row never goes back.         *)
(***************************************************************************)
EXTENDS TokenRefresh, FiniteSetTheorems, TLAPS

-----------------------------------------------------------------------------
(* The inductive invariants. *)

\* Whoever has an exchange under way holds the pending promise.
Exclusive == \A a \in Actor : flight[a] # 0 => lock = a

\* A sleeping retry has attempts left; the background tick never retries.
RetriesLeft ==
  /\ \A a \in Actor : pc[a] = "sleeping" => attempt[a] < MaxRetries
  /\ mode[Background] # "reject"

\* A cached pair is the one issued for the token it was spent for, kept for
\* TTL from the moment it was issued.
CacheExact ==
  \A t \in Token : HasTokens(dedup[t].result) =>
    /\ dedup[t].result.token = t + 1 /\ t + 1 <= current
    /\ dedup[t].until = expiry[t + 1] - Lifetime + TTL

\* A pair the provider issued, whose recorded expiry is not before the real one.
IssuedTo(c) == c.token <= current /\ expiry[c.token] <= c.expiresAt

\* Nobody has any other pair, and none is issued in the future.
Issued ==
  /\ IssuedTo(stored)
  /\ \A a \in Actor : IssuedTo(creds[a])
  /\ \A t \in Token : t <= current => expiry[t] <= now + Lifetime

RefreshInv ==
  /\ TypeOK /\ Exclusive /\ RetriesLeft /\ CacheExact /\ Issued /\ ExpiryHonest

\* The pair t is out of use: replaced, or issued at least TTL ago.
Ripe(t) == t < current \/ expiry[t] + TTL <= now + Lifetime

\* Only ripe pairs are spent, so a pair outlives the cache entry it came from.
SpentRipe ==
  /\ \A a \in Actor : flight[a] # 0 => Ripe(flight[a])
  /\ \A a \in Actor : pc[a] \in {"loaded", "sleeping"} => Ripe(creds[a].token)
  /\ \A a \in Actor : leader[a] # Nobody /\ mode[a] = "reject" => Ripe(creds[a].token)
  /\ \A t \in Token : t < current => expiry[t] + TTL <= expiry[t + 1]

\* A provider that rejects only stale pairs, and leads that leave a pair in use
\* for longer than a result is cached: 10 s in dedup.js, against lifetimes that
\* exceed the registry's leads by days or hours.
LeadsLeaveRoom ==
  /\ Rejects = "stale"
  /\ TTL + Lead <= Lifetime /\ TTL + BgLead <= Lifetime

-----------------------------------------------------------------------------
(* Types. *)

LEMMA NoResultType == NoResult \in Result /\ ~HasTokens(NoResult)
  BY DEF NoResult, Result, HasTokens

\* A result that has tokens has a pair.
Genuine(result) == result \in Result /\ (HasTokens(result) => result.token \in Token)

\* Delivering a genuine result keeps the types, and only puts to sleep those
\* who have attempts left.
LEMMA DeliverTyped ==
  ASSUME TypeOK, NEW S, NEW c \in [Actor -> Creds], NEW result, Genuine(result),
         mode' \in [Actor -> {"pre", "force", "reject"}],
         attempt' \in [Actor -> 0..MaxRetries],
         Deliver(S, c, result)
  PROVE  /\ pc' \in [Actor -> {"idle", "loaded", "waiting", "sleeping", "calling"}]
         /\ wake' \in [Actor -> Nat]
         /\ leader' \in [Actor -> Actor \cup {Nobody}]
         /\ creds' \in [Actor -> Creds]
         /\ stored' \in Creds
         /\ \A a \in Actor : pc'[a] = "sleeping" =>
              IF a \in S THEN mode'[a] = "reject" /\ attempt'[a] < MaxRetries /\ ~HasTokens(result)
              ELSE pc[a] = "sleeping"
<1> USE RefreshAssumption DEF TypeOK, Deliver
<1>1. pc' \in [Actor -> {"idle", "loaded", "waiting", "sleeping", "calling"}]
  BY DEF After
<1>2. wake' \in [Actor -> Nat]
  <2>1. ASSUME NEW a \in Actor
        PROVE  now + attempt'[a] * RetryUnit \in Nat
    <3>1. attempt'[a] \in Nat /\ RetryUnit \in Nat /\ now \in Nat
      OBVIOUS
    <3>2. attempt'[a] * RetryUnit \in Nat
      BY <3>1
    <3> QED BY <3>1, <3>2
  <2> QED BY <2>1
<1>3. leader' \in [Actor -> Actor \cup {Nobody}]
  OBVIOUS
<1>4. HasTokens(result) => NewCreds(result) \in Creds
  BY DEF NewCreds, Creds, Genuine
<1>5. creds' \in [Actor -> Creds] /\ stored' \in Creds
  BY <1>4
<1>6. ASSUME NEW a \in Actor, pc'[a] = "sleeping"
      PROVE  IF a \in S THEN mode'[a] = "reject" /\ attempt'[a] < MaxRetries /\ ~HasTokens(result)
             ELSE pc[a] = "sleeping"
  BY <1>6 DEF After, RetriesLater, HasTokens
<1> QED BY <1>1, <1>2, <1>3, <1>5, <1>6

\* What refreshing with a copy c keeps, whichever of its branches is taken.
LEMMA RefreshTyped ==
  ASSUME TypeOK, RetriesLeft, CacheExact, NEW a \in Actor, NEW c \in Creds,
         mode' \in [Actor -> {"pre", "force", "reject"}], mode'[Background] # "reject",
         attempt' \in [Actor -> 0..MaxRetries],
         \A b \in Actor \ {a} : attempt'[b] = attempt[b],
         UNCHANGED <<now, current, expiry>>,
         Refresh(a, c)
  PROVE  TypeOK' /\ RetriesLeft'
<1> USE RefreshAssumption DEF TypeOK, RetriesLeft
<1>1. [creds EXCEPT ![a] = c] \in [Actor -> Creds] /\ c.token \in Token
  BY DEF Creds
<1>2. CASE Pending /\ leader' = [leader EXCEPT ![a] = lock] /\ pc' = [pc EXCEPT ![a] = "waiting"]
           /\ creds' = [creds EXCEPT ![a] = c] /\ UNCHANGED <<stored, wake, lock, flight, dedup>>
  BY <1>1, <1>2
<1>3. CASE Deliver({a}, [creds EXCEPT ![a] = c], dedup[c.token].result) /\ UNCHANGED <<lock, flight, dedup>>
  <2>1. Genuine(dedup[c.token].result)
    <3>1. ASSUME HasTokens(dedup[c.token].result)
          PROVE  dedup[c.token].result.token \in Token
      <4>1. dedup[c.token].result.token = c.token + 1 /\ c.token + 1 <= current
        BY <1>1, <3>1 DEF CacheExact
      <4>2. c.token \in Nat /\ c.token >= 1 /\ current \in Nat /\ current <= MaxToken
        BY <1>1 DEF Token
      <4>3. c.token + 1 \in 1..MaxToken
        BY <4>1, <4>2
      <4> QED BY <4>1, <4>3 DEF Token
    <3> QED BY <1>1, <3>1 DEF Genuine
  <2> HIDE DEF RetriesLeft
  <2>2. /\ pc' \in [Actor -> {"idle", "loaded", "waiting", "sleeping", "calling"}]
        /\ wake' \in [Actor -> Nat]
        /\ leader' \in [Actor -> Actor \cup {Nobody}]
        /\ creds' \in [Actor -> Creds]
        /\ stored' \in Creds
        /\ \A b \in Actor : pc'[b] = "sleeping" =>
              IF b \in {a} THEN mode'[b] = "reject" /\ attempt'[b] < MaxRetries
                                /\ ~HasTokens(dedup[c.token].result)
              ELSE pc[b] = "sleeping"
    BY <1>1, <1>3, <2>1, DeliverTyped
  <2> QED BY <1>3, <2>2 DEF RetriesLeft
<1>4. CASE /\ lock' = a /\ leader' = [leader EXCEPT ![a] = a] /\ flight' = [flight EXCEPT ![a] = c.token]
           /\ dedup' = [dedup EXCEPT ![c.token] = NoEntry] /\ pc' = [pc EXCEPT ![a] = "waiting"]
           /\ creds' = [creds EXCEPT ![a] = c] /\ UNCHANGED <<stored, wake>>
  <2>1. NoEntry \in [result : Result, until : Nat]
    BY NoResultType DEF NoEntry
  <2> QED BY <1>1, <1>4, <2>1
<1> QED BY <1>2, <1>3, <1>4 DEF Refresh

-----------------------------------------------------------------------------
(* The three kinds of step: refreshing with a copy, settling an exchange,  *)
(* and the rest.                                                           *)

\* Spending, awaiting or reusing: no branch of a refresh breaks the invariant.
LEMMA RefreshKeeps ==
  ASSUME RefreshInv, NEW a \in Actor, NEW c \in Creds, IssuedTo(c),
         mode' \in [Actor -> {"pre", "force", "reject"}], mode'[Background] # "reject",
         attempt' \in [Actor -> 0..MaxRetries],
         \A b \in Actor \ {a} : attempt'[b] = attempt[b],
         UNCHANGED <<now, current, expiry>>,
         Refresh(a, c)
  PROVE  RefreshInv'
<1>1. TypeOK /\ Exclusive /\ RetriesLeft /\ CacheExact /\ Issued /\ ExpiryHonest
  BY DEF RefreshInv
<1>2. TypeOK' /\ RetriesLeft'
  BY <1>1, RefreshTyped
<1>3. Exclusive'
  BY <1>1, RefreshAssumption DEF Exclusive, Refresh, Pending, TypeOK
<1>4. c.token \in Token /\ c.expiresAt \in Nat
  BY DEF Creds
<1>5. CacheExact'
  <2>1. UNCHANGED dedup \/ dedup' = [dedup EXCEPT ![c.token] = NoEntry]
    BY DEF Refresh
  <2>2. ASSUME NEW t \in Token, HasTokens(dedup'[t].result)
        PROVE  dedup'[t] = dedup[t]
    BY <1>1, <1>4, <2>1, <2>2, NoResultType DEF NoEntry, TypeOK
  <2> QED BY <1>1, <2>2 DEF CacheExact
<1>6. (Issued /\ ExpiryHonest)'
  <2>1. CASE creds' = [creds EXCEPT ![a] = c] /\ UNCHANGED stored
    BY <1>1, <2>1 DEF Issued, IssuedTo, ExpiryHonest, TypeOK
  <2>2. CASE RecentlySpent(c.token) /\ Deliver({a}, [creds EXCEPT ![a] = c], dedup[c.token].result)
    <3> DEFINE result == dedup[c.token].result
    <3>1. CASE ~HasTokens(result)
      BY <1>1, <2>2, <3>1 DEF Issued, IssuedTo, ExpiryHonest, TypeOK, Deliver
    <3>2. CASE HasTokens(result)
      <4> DEFINE t == c.token + 1
      <4>1. /\ result.token = t /\ t <= current
            /\ dedup[c.token].until = expiry[t] - Lifetime + TTL
        BY <1>1, <1>4, <3>2 DEF CacheExact
      <4>2. c.token \in Nat /\ c.token >= 1 /\ current \in Nat /\ current <= MaxToken
            /\ now \in Nat /\ TTL \in Nat /\ Lifetime \in Nat
        BY <1>1, <1>4, RefreshAssumption DEF Token, TypeOK
      <4>3. t \in Token
        BY <4>1, <4>2, RefreshAssumption DEF Token
      <4>4. expiry[t] \in Nat /\ expiry[t] <= now + Lifetime
        BY <1>1, <4>1, <4>3 DEF Issued, TypeOK
      <4>5. now + Lifetime < expiry[t] + TTL
        <5>1. dedup[c.token].until > now
          BY <2>2 DEF RecentlySpent
        <5> QED BY <5>1, <4>1, <4>2, <4>4
      <4>6. NewCreds(result) = [token |-> t, expiresAt |-> now + Lifetime]
        BY <4>1 DEF NewCreds
      <4>7. /\ creds' = [b \in Actor |-> IF b = a THEN NewCreds(result) ELSE creds[b]]
            /\ stored' = NewCreds(result)
        BY <1>1, <2>2, <3>2 DEF Deliver, TypeOK
      <4>8. stored'.token = t /\ stored'.expiresAt = now + Lifetime
        BY <4>6, <4>7
      <4>9. IssuedTo(stored)' /\ ExpiryHonest'
        BY <4>1, <4>2, <4>4, <4>5, <4>8 DEF IssuedTo, ExpiryHonest
      <4>10. \A b \in Actor : IssuedTo(creds[b])'
        BY <1>1, <4>7, <4>9 DEF Issued, IssuedTo
      <4>11. \A u \in Token : u <= current' => expiry'[u] <= now' + Lifetime
        BY <1>1 DEF Issued
      <4> QED BY <4>9, <4>10, <4>11 DEF Issued
    <3> QED BY <3>1, <3>2
  <2> QED BY <2>1, <2>2 DEF Refresh
<1> QED BY <1>2, <1>3, <1>5, <1>6 DEF RefreshInv

\* The provider issues one more pair, which is out of date no sooner than any
\* clock allows; the pairs before it stay as they were.
LEMMA RotateFacts ==
  ASSUME TypeOK, Rotate
  PROVE  /\ current + 1 \in Token /\ current' = current + 1
         /\ expiry' \in [Token -> Nat]
         /\ \A t \in Token : t <= current => expiry'[t] = expiry[t]
         /\ expiry'[current + 1] = now + Lifetime
<1>1. current \in Nat /\ current >= 1 /\ now \in Nat
  BY RefreshAssumption DEF TypeOK, Token
<1>2. current + 1 \in Token
  BY <1>1, RefreshAssumption DEF Rotate, Token
<1>3. \A t \in Token : t \in Int
  BY DEF Token
<1> QED BY <1>1, <1>2, <1>3, RefreshAssumption DEF Rotate, TypeOK

\* a's exchange ends with the result: the provider rotated the pair or nothing
\* changed there, and only a rotation brings tokens.
EndsWith(a, result) ==
  /\ flight[a] # 0 /\ Settle(a, result)
  /\ UNCHANGED <<current, expiry>> \/ (Rotate /\ flight[a] = current)
  /\ HasTokens(result) => Rotate /\ flight[a] = current /\ result.token = current + 1

\* Settling an exchange keeps the invariant: tokens are only delivered when
\* the provider has just issued them for the pair that was spent.
LEMMA SettleKeeps ==
  ASSUME RefreshInv, NEW a \in Actor, NEW result \in Result, EndsWith(a, result)
  PROVE  RefreshInv'
<1>0. /\ flight[a] # 0 /\ Settle(a, result)
      /\ UNCHANGED <<current, expiry>> \/ (Rotate /\ flight[a] = current)
      /\ HasTokens(result) => Rotate /\ flight[a] = current /\ result.token = current + 1
  BY DEF EndsWith
<1>1. TypeOK /\ Exclusive /\ RetriesLeft /\ CacheExact /\ Issued /\ ExpiryHonest
  BY DEF RefreshInv
<1>2. Deliver({w \in Actor : leader[w] = a}, creds, result) /\ UNCHANGED <<now, mode, attempt>>
  BY <1>0 DEF Settle
<1>3. now \in Nat /\ TTL \in Nat /\ Lifetime \in Nat /\ flight[a] \in Token
      /\ current \in Nat /\ (\A t \in Token : t \in Nat)
  BY <1>0, <1>1, RefreshAssumption DEF TypeOK, Token
<1>4. Genuine(result)
  BY <1>0, <1>1, RotateFacts DEF Genuine
<1>5. /\ pc' \in [Actor -> {"idle", "loaded", "waiting", "sleeping", "calling"}]
      /\ wake' \in [Actor -> Nat]
      /\ leader' \in [Actor -> Actor \cup {Nobody}]
      /\ creds' \in [Actor -> Creds]
      /\ stored' \in Creds
      /\ \A b \in Actor : pc'[b] = "sleeping" => attempt'[b] < MaxRetries
  BY <1>1, <1>2, <1>4, DeliverTyped DEF TypeOK, RetriesLeft
<1>6. current' \in Token /\ expiry' \in [Token -> Nat]
      /\ current <= current' /\ (\A t \in Token : t <= current => expiry'[t] = expiry[t])
  BY <1>0, <1>1, <1>3, RotateFacts, RefreshAssumption DEF TypeOK
<1>7. TypeOK'
  <2>1. lock' \in Actor \cup {Nobody} /\ flight' \in [Actor -> Token \cup {0}]
    BY <1>0, <1>1 DEF Settle, Released, TypeOK
  <2>2. dedup' \in [Token -> [result : Result, until : Nat]]
    BY <1>0, <1>1, <1>3 DEF Settle, TypeOK
  <2> QED BY <1>1, <1>2, <1>5, <1>6, <2>1, <2>2 DEF TypeOK
<1>8. RetriesLeft'
  BY <1>1, <1>2, <1>5 DEF RetriesLeft
<1>9. Exclusive'
  BY <1>0, <1>1 DEF Exclusive, Settle, Released, TypeOK
<1>10. CacheExact'
  <2> SUFFICES ASSUME NEW t \in Token, HasTokens(dedup'[t].result)
               PROVE  /\ dedup'[t].result.token = t + 1 /\ t + 1 <= current'
                      /\ dedup'[t].until = expiry'[t + 1] - Lifetime + TTL
    BY DEF CacheExact
  <2>1. dedup' = [dedup EXCEPT ![flight[a]] = [result |-> result, until |-> now + TTL]]
    BY <1>0 DEF Settle
  <2>2. CASE t = flight[a]
    <3>1. dedup'[t] = [result |-> result, until |-> now + TTL]
      BY <1>1, <2>1, <2>2 DEF TypeOK
    <3>2. Rotate /\ t = current /\ result.token = t + 1
      BY <1>0, <2>2, <3>1
    <3>3. current' = t + 1 /\ expiry'[t + 1] = now + Lifetime
      BY <1>1, <3>2, RotateFacts
    <3> QED BY <1>3, <3>1, <3>2, <3>3
  <2>3. CASE t # flight[a]
    <3>1. dedup'[t] = dedup[t]
      BY <1>1, <1>3, <2>1, <2>3 DEF TypeOK
    <3>2. /\ dedup[t].result.token = t + 1 /\ t + 1 <= current
          /\ dedup[t].until = expiry[t + 1] - Lifetime + TTL
      BY <1>1, <3>1 DEF CacheExact
    <3>3. t + 1 \in Token
      BY <1>1, <1>3, <3>2, RefreshAssumption DEF TypeOK, Token
    <3>4. expiry'[t + 1] = expiry[t + 1] /\ t + 1 <= current'
      BY <1>3, <1>6, <3>2, <3>3 DEF Token
    <3> QED BY <3>1, <3>2, <3>4
  <2> QED BY <2>2, <2>3
<1>11. \A t \in Token : t <= current' => expiry'[t] <= now' + Lifetime
  <2>1. ASSUME NEW t \in Token, t <= current PROVE expiry'[t] <= now' + Lifetime
    BY <1>1, <1>2, <1>6, <2>1 DEF Issued
  <2>2. ASSUME NEW t \in Token, t <= current', ~(t <= current)
        PROVE  expiry'[t] <= now' + Lifetime
    <3>1. Rotate /\ t = current + 1
      BY <1>0, <1>1, <1>3, <2>2, RotateFacts
    <3>2. expiry'[t] = now + Lifetime
      BY <1>1, <3>1, RotateFacts
    <3> QED BY <1>2, <1>3, <3>2
  <2> QED BY <2>1, <2>2
<1>12. ASSUME NEW k \in Creds, IssuedTo(k)
       PROVE  k.token <= current' /\ expiry'[k.token] = expiry[k.token]
              /\ expiry'[k.token] <= k.expiresAt
  <2>1. k.token \in Token /\ k.token <= current /\ expiry[k.token] <= k.expiresAt
    BY <1>12 DEF Creds, IssuedTo
  <2>2. current' \in Nat /\ k.token \in Nat
    BY <1>3, <1>6, <2>1
  <2> QED BY <1>3, <1>6, <2>1, <2>2
<1>13. HasTokens(result) =>
         LET new == NewCreds(result)
         IN  /\ new.token <= current' /\ expiry'[new.token] <= new.expiresAt
             /\ new.expiresAt <= expiry'[new.token] + TTL
  <2> SUFFICES ASSUME HasTokens(result)
               PROVE  LET new == NewCreds(result)
                      IN  /\ new.token <= current' /\ expiry'[new.token] <= new.expiresAt
                          /\ new.expiresAt <= expiry'[new.token] + TTL
    OBVIOUS
  <2>1. result.token = current + 1 /\ current' = current + 1 /\ expiry'[current + 1] = now + Lifetime
    BY <1>0, <1>1, RotateFacts
  <2> QED BY <1>3, <2>1 DEF NewCreds
<1>14. IssuedTo(stored)' /\ ExpiryHonest'
  <2>1. CASE HasTokens(result)
    BY <1>2, <1>13, <2>1 DEF Deliver, IssuedTo, ExpiryHonest
  <2>2. CASE ~HasTokens(result)
    <3>1. stored' = stored
      BY <1>2, <2>2 DEF Deliver
    <3>2. /\ stored.token <= current' /\ expiry'[stored.token] = expiry[stored.token]
          /\ expiry'[stored.token] <= stored.expiresAt
      BY <1>1, <1>12 DEF TypeOK, Issued
    <3> QED BY <1>1, <3>1, <3>2 DEF IssuedTo, ExpiryHonest
  <2> QED BY <2>1, <2>2
<1>15. ASSUME NEW b \in Actor PROVE IssuedTo(creds[b])'
  <2>1. creds'[b] = creds[b] \/ (HasTokens(result) /\ creds'[b] = NewCreds(result))
    <3> DEFINE S == {w \in Actor : leader[w] = a}
    <3>1. creds'[b] = IF b \in S /\ HasTokens(result) THEN NewCreds(result) ELSE creds[b]
      BY <1>2 DEF Deliver
    <3> HIDE DEF S
    <3>2. CASE b \in S /\ HasTokens(result)
      BY <3>1, <3>2
    <3>3. CASE ~(b \in S /\ HasTokens(result))
      BY <3>1, <3>3
    <3> QED BY <3>2, <3>3
  <2>2. /\ creds[b].token <= current' /\ expiry'[creds[b].token] <= creds[b].expiresAt
    BY <1>1, <1>12 DEF TypeOK, Issued
  <2> QED BY <1>13, <2>1, <2>2 DEF IssuedTo
<1> QED BY <1>7, <1>8, <1>9, <1>10, <1>11, <1>14, <1>15 DEF RefreshInv, Issued

LEMMA InitKeeps == Init => RefreshInv
<1> SUFFICES ASSUME Init PROVE RefreshInv
  OBVIOUS
<1> USE RefreshAssumption DEF Init
<1>1. 1 \in Token /\ (\A t \in Token : t \in Nat /\ t >= 1)
  BY DEF Token
<1>2. stored \in Creds
  BY <1>1 DEF Creds
<1>3. NoEntry \in [result : Result, until : Nat] /\ ~HasTokens(NoEntry.result)
  BY NoResultType DEF NoEntry
<1>4. TypeOK
  BY <1>1, <1>2, <1>3 DEF TypeOK, Actor
<1>5. Exclusive /\ RetriesLeft
  BY DEF Exclusive, RetriesLeft, Actor
<1>6. CacheExact
  BY <1>3 DEF CacheExact
<1>7. Issued /\ ExpiryHonest
  BY <1>1 DEF Issued, IssuedTo, ExpiryHonest
<1> QED BY <1>4, <1>5, <1>6, <1>7 DEF RefreshInv

\* Every kind of answer to an exchange is one that SettleKeeps allows.
LEMMA EndsAsSettled ==
  ASSUME TypeOK, NEW a \in Actor, ExchangeEnds(a)
  PROVE  \E result \in Result : EndsWith(a, result)
<1>1. CASE ExchangeSucceeds(a)
  <2> DEFINE r == [kind |-> "tokens", token |-> current + 1]
  <2>1. r \in Result
    BY <1>1, RotateFacts DEF ExchangeSucceeds, Result
  <2>2. flight[a] # 0
    BY <1>1 DEF ExchangeSucceeds, TypeOK, Token
  <2>3. EndsWith(a, r)
    BY <1>1, <2>2 DEF ExchangeSucceeds, EndsWith
  <2> QED BY <2>1, <2>3
<1>2. CASE ExchangeLost(a)
  <2>1. flight[a] # 0
    BY <1>2 DEF ExchangeLost, TypeOK, Token
  <2>2. EndsWith(a, NoResult)
    BY <1>2, <2>1, NoResultType DEF ExchangeLost, EndsWith
  <2> QED BY <2>2, NoResultType
<1>3. CASE ExchangeFails(a)
  <2>1. EndsWith(a, NoResult)
    BY <1>3, NoResultType DEF ExchangeFails, EndsWith
  <2> QED BY <2>1, NoResultType
<1>4. CASE ExchangeRefused(a)
  <2> DEFINE r == [kind |-> "refused", token |-> 0]
  <2>1. r \in Result /\ ~HasTokens(r)
    BY DEF Result, HasTokens
  <2>2. EndsWith(a, r)
    BY <1>4, <2>1 DEF ExchangeRefused, EndsWith
  <2> QED BY <2>1, <2>2
<1> QED BY <1>1, <1>2, <1>3, <1>4 DEF ExchangeEnds

LEMMA NextKeeps == RefreshInv /\ [Next]_vars => RefreshInv'
<1> SUFFICES ASSUME RefreshInv, [Next]_vars PROVE RefreshInv'
  OBVIOUS
<1>1. TypeOK /\ Exclusive /\ RetriesLeft /\ CacheExact /\ Issued /\ ExpiryHonest
  BY DEF RefreshInv
<1> DEFINE Others == UNCHANGED <<stored, current, expiry, lock, flight, dedup>>
<1>2. ASSUME Others, now' = now \/ now' = now + 1,
             pc' \in [Actor -> {"idle", "loaded", "waiting", "sleeping", "calling"}],
             creds' \in [Actor -> Creds], UNCHANGED <<wake, leader>>,
             mode' \in [Actor -> {"pre", "force", "reject"}], mode'[Background] # "reject",
             attempt' \in [Actor -> 0..MaxRetries],
             \A a \in Actor : IssuedTo(creds'[a]),
             \A a \in Actor : pc'[a] = "sleeping" => attempt'[a] < MaxRetries
      PROVE  RefreshInv'
  <2>1. TypeOK'
    BY <1>1, <1>2 DEF TypeOK
  <2>2. RetriesLeft' /\ Exclusive' /\ CacheExact' /\ ExpiryHonest'
    BY <1>1, <1>2 DEF RetriesLeft, Exclusive, CacheExact, ExpiryHonest
  <2>3. Issued'
    <3>1. IssuedTo(stored)' /\ \A a \in Actor : IssuedTo(creds[a])'
      BY <1>1, <1>2 DEF Issued, IssuedTo
    <3>2. ASSUME NEW t \in Token, t <= current' PROVE expiry'[t] <= now' + Lifetime
      <4>1. expiry[t] <= now + Lifetime
        BY <1>1, <1>2, <3>2 DEF Issued
      <4>2. expiry[t] \in Nat /\ now \in Nat /\ Lifetime \in Nat
        BY <1>1, RefreshAssumption DEF TypeOK
      <4> QED BY <1>2, <4>1, <4>2
    <3> QED BY <3>1, <3>2 DEF Issued
  <2> QED BY <2>1, <2>2, <2>3 DEF RefreshInv
<1>3. CASE Tick
  BY <1>1, <1>2, <1>3 DEF Tick, TypeOK, RetriesLeft, Issued
<1>4. ASSUME NEW r \in Request, Begin(r) PROVE RefreshInv'
  <2>1. r \in Actor /\ r # Background /\ 0 \in 0..MaxRetries
    BY RefreshAssumption DEF Actor
  <2>2. /\ mode' \in [Actor -> {"pre", "force", "reject"}] /\ mode'[Background] # "reject"
        /\ attempt' \in [Actor -> 0..MaxRetries]
        /\ \A b \in Actor \ {r} : attempt'[b] = attempt[b]
        /\ UNCHANGED <<now, current, expiry>>
    BY <1>1, <1>4, <2>1, RefreshAssumption DEF Begin, TypeOK, RetriesLeft
  <2>3. stored \in Creds /\ IssuedTo(stored)
    BY <1>1 DEF TypeOK, Issued
  <2>4. CASE Due(stored, Lead)
    BY <1>4, <2>1, <2>2, <2>3, <2>4, RefreshKeeps DEF Begin
  <2>5. CASE ~Due(stored, Lead)
    <3>1. /\ pc' = [pc EXCEPT ![r] = "calling"] /\ creds' = [creds EXCEPT ![r] = stored]
          /\ UNCHANGED <<stored, wake, leader, lock, flight, dedup>>
      BY <1>4, <2>5 DEF Begin
    <3>2. /\ pc' \in [Actor -> {"idle", "loaded", "waiting", "sleeping", "calling"}]
          /\ creds' \in [Actor -> Creds] /\ \A a \in Actor : IssuedTo(creds'[a])
      BY <1>1, <2>1, <2>3, <3>1 DEF TypeOK, Issued
    <3>3. \A a \in Actor : pc'[a] = "sleeping" => attempt'[a] < MaxRetries
      BY <1>1, <2>1, <2>2, <3>1 DEF TypeOK, RetriesLeft
    <3> QED BY <1>2, <2>2, <3>1, <3>2, <3>3
  <2> QED BY <2>4, <2>5
<1>5. ASSUME NEW r \in Request, Accepted(r) PROVE RefreshInv'
  BY <1>1, <1>2, <1>5 DEF Accepted, TypeOK, RetriesLeft, Issued
<1>6. ASSUME NEW r \in Request, Rejected(r) PROVE RefreshInv'
  <2>1. r \in Actor /\ r # Background /\ 1 \in 0..MaxRetries
    BY RefreshAssumption DEF Actor
  <2>2. /\ mode' \in [Actor -> {"pre", "force", "reject"}] /\ mode'[Background] # "reject"
        /\ attempt' \in [Actor -> 0..MaxRetries]
        /\ \A b \in Actor \ {r} : attempt'[b] = attempt[b]
        /\ UNCHANGED <<now, current, expiry>>
    BY <1>1, <1>6, <2>1, RefreshAssumption DEF Rejected, TypeOK, RetriesLeft
  <2> QED BY <1>1, <1>6, <2>1, <2>2, RefreshKeeps DEF Rejected, TypeOK, Issued
<1>7. ASSUME NEW r \in Request, Retry(r) PROVE RefreshInv'
  <2>1. r \in Actor /\ r # Background /\ attempt[r] + 1 \in 0..MaxRetries
    BY <1>1, <1>7, RefreshAssumption DEF Actor, TypeOK, RetriesLeft, Retry
  <2>2. /\ mode' \in [Actor -> {"pre", "force", "reject"}] /\ mode'[Background] # "reject"
        /\ attempt' \in [Actor -> 0..MaxRetries]
        /\ \A b \in Actor \ {r} : attempt'[b] = attempt[b]
        /\ UNCHANGED <<now, current, expiry>>
    BY <1>1, <1>7, <2>1, RefreshAssumption DEF Retry, TypeOK, RetriesLeft
  <2> QED BY <1>1, <1>7, <2>1, <2>2, RefreshKeeps DEF Retry, TypeOK, Issued
<1>8. CASE BackgroundLoad
  <2>1. Background \in Actor
    BY DEF Actor
  <2> QED BY <1>1, <1>2, <1>8, <2>1 DEF BackgroundLoad, TypeOK, RetriesLeft, Issued
<1>9. CASE BackgroundRefresh
  <2>1. Background \in Actor
    BY DEF Actor
  <2>2. /\ mode' \in [Actor -> {"pre", "force", "reject"}] /\ mode'[Background] # "reject"
        /\ UNCHANGED <<now, current, expiry, attempt>>
    BY <1>1, <1>9, <2>1, RefreshAssumption DEF BackgroundRefresh, TypeOK
  <2>3. creds[Background] \in Creds /\ IssuedTo(creds[Background])
    BY <1>1, <2>1 DEF TypeOK, Issued
  <2> QED BY <1>1, <1>9, <2>1, <2>2, <2>3, RefreshKeeps DEF BackgroundRefresh, TypeOK
<1>10. ASSUME NEW a \in Actor, ExchangeEnds(a) PROVE RefreshInv'
  BY <1>1, <1>10, EndsAsSettled, SettleKeeps
<1>11. CASE UNCHANGED vars
  BY <1>1, <1>2, <1>11 DEF vars, TypeOK, RetriesLeft, Issued
<1> QED BY <1>3, <1>4, <1>5, <1>6, <1>7, <1>8, <1>9, <1>10, <1>11 DEF Next

\* In every reachable state: what is in flight, cached, copied and stored
\* belongs together as RefreshInv says.
THEOREM RefreshSafety == Spec => []RefreshInv
<1> QED BY InitKeeps, NextKeeps, PTL DEF Spec

\* Every state of the refresh of a connection is of its type.
THEOREM TypeCorrect == Spec => []TypeOK
<1>1. RefreshInv => TypeOK
  BY DEF RefreshInv
<1> QED BY <1>1, RefreshSafety, PTL

\* However many requests and background ticks refresh a connection, its refresh
\* endpoint is asked by one of them at a time.
THEOREM OneExchangeAtATime == Spec => []AtMostOneExchange
<1>1. RefreshInv => AtMostOneExchange
  <2> SUFFICES ASSUME RefreshInv PROVE AtMostOneExchange
    OBVIOUS
  <2> DEFINE S == {a \in Actor : flight[a] # 0}
  <2>1. S \subseteq {lock}
    BY DEF RefreshInv, Exclusive
  <2>2. IsFiniteSet({lock}) /\ Cardinality({lock}) = 1
    BY FS_Singleton
  <2>3. Cardinality(S) <= 1
    BY <2>1, <2>2, FS_Subset
  <2> QED BY <2>3 DEF AtMostOneExchange
<1> QED BY <1>1, RefreshSafety, PTL

\* The expiry in the row overstates the real one by the age of a cached result
\* at most, for every cache time and lifetime.
THEOREM ExpiryIsHonest == Spec => []ExpiryHonest
<1>1. RefreshInv => ExpiryHonest
  BY DEF RefreshInv
<1> QED BY <1>1, RefreshSafety, PTL

-----------------------------------------------------------------------------
(* The row never goes back. *)

\* A pair that is due or stale is ripe.
LEMMA DueIsRipe ==
  ASSUME LeadsLeaveRoom, RefreshInv, NEW c \in Creds, IssuedTo(c), NEW lead \in {Lead, BgLead},
         Due(c, lead)
  PROVE  Ripe(c.token)
<1>1. c.expiresAt - now < lead /\ expiry[c.token] <= c.expiresAt /\ TTL + lead <= Lifetime
  BY DEF Due, IssuedTo, LeadsLeaveRoom
<1>2. c.expiresAt \in Nat /\ now \in Nat /\ expiry[c.token] \in Nat /\ lead \in Nat
      /\ TTL \in Nat /\ Lifetime \in Nat
  BY RefreshAssumption DEF RefreshInv, TypeOK, Creds
<1>3. expiry[c.token] + TTL <= now + Lifetime
  BY <1>1, <1>2
<1> QED BY <1>3 DEF Ripe

LEMMA StaleIsRipe ==
  ASSUME LeadsLeaveRoom, RefreshInv, NEW c \in Creds, IssuedTo(c), Stale(c)
  PROVE  Ripe(c.token)
<1>1. c.token \in Nat /\ current \in Nat /\ now \in Nat /\ expiry[c.token] \in Nat
      /\ TTL \in Nat /\ Lifetime \in Nat /\ Lead \in Nat
  BY RefreshAssumption DEF RefreshInv, TypeOK, Creds, Token
<1>2. TTL + Lead <= Lifetime /\ c.token <= current
  BY DEF LeadsLeaveRoom, IssuedTo
<1>3. CASE c.token # current
  BY <1>1, <1>2, <1>3 DEF Ripe
<1>4. CASE now >= expiry[c.token]
  <2>1. expiry[c.token] + TTL <= now + Lifetime
    BY <1>1, <1>2, <1>4
  <2> QED BY <2>1 DEF Ripe
<1> QED BY <1>3, <1>4 DEF Stale

\* A refresh with the copy of a ripe pair spends nothing else.
LEMMA RefreshRipe ==
  ASSUME RefreshInv, SpentRipe, NEW a \in Actor, NEW c \in Creds, Ripe(c.token),
         \A b \in Actor \ {a} : mode'[b] = mode[b],
         UNCHANGED <<now, current, expiry>>,
         Refresh(a, c)
  PROVE  SpentRipe'
<1>1. TypeOK /\ c.token \in Token
  BY DEF RefreshInv, Creds
<1>3. \A t \in Token : t < current' => expiry'[t] + TTL <= expiry'[t + 1]
  BY DEF SpentRipe
<1>4. \A b \in Actor : flight'[b] # 0 => Ripe(flight'[b])
  <2>1. UNCHANGED flight \/ flight' = [flight EXCEPT ![a] = c.token]
    BY DEF Refresh
  <2> QED BY <1>1, <2>1 DEF SpentRipe, TypeOK
<1>5. creds'[a] = c \/ (leader'[a] = Nobody /\ pc'[a] \notin {"loaded", "sleeping"})
  <2>1. CASE creds' = [creds EXCEPT ![a] = c]
    BY <1>1, <2>1 DEF TypeOK
  <2>2. CASE Deliver({a}, [creds EXCEPT ![a] = c], dedup[c.token].result)
    BY <1>1, <2>2 DEF Deliver, After, RetriesLater, HasTokens, TypeOK
  <2> QED BY <2>1, <2>2 DEF Refresh
<1>6. pc'[a] # "loaded"
  <2>1. CASE pc' = [pc EXCEPT ![a] = "waiting"]
    BY <1>1, <2>1 DEF TypeOK
  <2>2. CASE Deliver({a}, [creds EXCEPT ![a] = c], dedup[c.token].result)
    BY <1>1, <2>2 DEF Deliver, After, TypeOK
  <2> QED BY <2>1, <2>2 DEF Refresh
<1>7. ASSUME NEW b \in Actor, b # a
      PROVE  creds'[b] = creds[b] /\ pc'[b] = pc[b] /\ leader'[b] = leader[b]
  <2>1. CASE Deliver({a}, [creds EXCEPT ![a] = c], dedup[c.token].result)
    BY <1>1, <1>7, <2>1 DEF Deliver, TypeOK
  <2>2. CASE /\ pc' = [pc EXCEPT ![a] = "waiting"] /\ creds' = [creds EXCEPT ![a] = c]
             /\ \E l : leader' = [leader EXCEPT ![a] = l]
    BY <1>1, <1>7, <2>2 DEF TypeOK
  <2> QED BY <2>1, <2>2 DEF Refresh
<1>8. \A b \in Actor : pc'[b] \in {"loaded", "sleeping"} => Ripe(creds'[b].token)
  BY <1>5, <1>7 DEF SpentRipe
<1>9. \A b \in Actor : leader'[b] # Nobody /\ mode'[b] = "reject" => Ripe(creds'[b].token)
  BY <1>5, <1>7 DEF SpentRipe
<1> QED BY <1>3, <1>4, <1>8, <1>9 DEF SpentRipe, Ripe

\* Neither does settling one: the pairs in use stay as ripe as they were, and a
\* new one is issued no sooner than TTL after the one it replaces.
LEMMA SettleRipe ==
  ASSUME RefreshInv, SpentRipe, NEW a \in Actor, NEW result \in Result, EndsWith(a, result)
  PROVE  SpentRipe'
<1>1. TypeOK /\ Issued
  BY DEF RefreshInv
<1>2. Deliver({w \in Actor : leader[w] = a}, creds, result) /\ UNCHANGED <<now, mode, attempt>>
      /\ flight' = [flight EXCEPT ![a] = 0]
  BY DEF Settle, EndsWith
<1>3. now \in Nat /\ TTL \in Nat /\ Lifetime \in Nat /\ current \in Nat
      /\ (\A t \in Token : t \in Nat) /\ flight[a] \in Token
  BY <1>1, RefreshAssumption DEF TypeOK, Token, EndsWith
<1>4. current <= current' /\ current' \in Nat
      /\ (\A t \in Token : t <= current => expiry'[t] = expiry[t])
  BY <1>1, <1>3, RotateFacts, RefreshAssumption DEF TypeOK, EndsWith
<1>5. ASSUME NEW t \in Token, t <= current, Ripe(t)
      PROVE  Ripe(t)'
  <2>1. CASE t < current
    BY <1>3, <1>4, <2>1 DEF Ripe
  <2>2. CASE expiry[t] + TTL <= now + Lifetime
    BY <1>2, <1>4, <1>5, <2>2 DEF Ripe
  <2> QED BY <1>5, <2>1, <2>2 DEF Ripe
<1>6. ASSUME NEW t \in Token, t < current' PROVE expiry'[t] + TTL <= expiry'[t + 1]
  <2>1. CASE t < current
    <3>1. t + 1 \in Token /\ t + 1 <= current
      BY <1>1, <1>3, <2>1, RefreshAssumption DEF TypeOK, Token
    <3>2. expiry'[t] = expiry[t] /\ expiry'[t + 1] = expiry[t + 1]
      BY <1>3, <1>4, <2>1, <3>1
    <3> QED BY <2>1, <3>2 DEF SpentRipe
  <2>2. CASE ~(t < current)
    <3>1. Rotate /\ flight[a] = current /\ t = current
      BY <1>1, <1>3, <1>6, <2>2, RotateFacts DEF EndsWith
    <3>2. expiry[t] + TTL <= now + Lifetime
      BY <1>3, <3>1 DEF SpentRipe, Ripe, EndsWith
    <3>3. expiry'[t] = expiry[t] /\ expiry'[t + 1] = now + Lifetime
      BY <1>1, <1>3, <1>4, <3>1, RotateFacts
    <3> QED BY <3>2, <3>3
  <2> QED BY <2>1, <2>2
<1>7. \A b \in Actor : flight'[b] = 0
  BY <1>1, <1>2 DEF RefreshInv, Exclusive, EndsWith, TypeOK
<1>8. ASSUME NEW b \in Actor
      PROVE  /\ leader'[b] # Nobody => creds'[b] = creds[b] /\ leader[b] # Nobody
             /\ pc'[b] \in {"loaded", "sleeping"} =>
                  /\ creds'[b] = creds[b]
                  /\ pc[b] = pc'[b] \/ (leader[b] # Nobody /\ mode[b] = "reject")
  <2>1. CASE leader[b] = a
    <3>1. /\ leader'[b] = Nobody /\ pc'[b] = After(b, mode'[b], result)
          /\ creds'[b] = IF HasTokens(result) THEN NewCreds(result) ELSE creds[b]
      BY <1>2, <2>1 DEF Deliver
    <3>2. pc'[b] # "loaded" /\ (pc'[b] = "sleeping" => mode[b] = "reject" /\ ~HasTokens(result))
      BY <1>2, <3>1 DEF After, RetriesLater, HasTokens
    <3>3. leader[b] # Nobody
      BY <2>1, RefreshAssumption
    <3> QED BY <3>1, <3>2, <3>3
  <2>2. CASE leader[b] # a
    <3>1. leader'[b] = leader[b] /\ pc'[b] = pc[b] /\ creds'[b] = creds[b]
      BY <1>2, <2>2 DEF Deliver
    <3> QED BY <3>1
  <2> QED BY <2>1, <2>2
<1>9. ASSUME NEW b \in Actor, Ripe(creds[b].token), creds'[b] = creds[b]
      PROVE  Ripe(creds[b].token)'
  <2>1. creds[b].token \in Token /\ creds[b].token <= current
    BY <1>1 DEF TypeOK, Creds, Issued, IssuedTo
  <2> QED BY <1>5, <1>9, <2>1 DEF Ripe
<1>10. ASSUME NEW b \in Actor, pc'[b] \in {"loaded", "sleeping"}
       PROVE  Ripe(creds[b].token)'
  BY <1>8, <1>9, <1>10 DEF SpentRipe
<1>11. ASSUME NEW b \in Actor, leader'[b] # Nobody, mode'[b] = "reject"
       PROVE  Ripe(creds[b].token)'
  BY <1>2, <1>8, <1>9, <1>11 DEF SpentRipe
<1> QED BY <1>6, <1>7, <1>10, <1>11 DEF SpentRipe

LEMMA InitRipe == Init => SpentRipe
<1> SUFFICES ASSUME Init PROVE SpentRipe
  OBVIOUS
<1>1. \A t \in Token : ~(t < 1)
  BY DEF Token
<1> QED BY <1>1 DEF Init, SpentRipe

LEMMA NextRipe == ASSUME LeadsLeaveRoom PROVE RefreshInv /\ SpentRipe /\ [Next]_vars => SpentRipe'
<1> SUFFICES ASSUME RefreshInv, SpentRipe, [Next]_vars PROVE SpentRipe'
  OBVIOUS
<1>1. TypeOK /\ Issued /\ RetriesLeft
  BY DEF RefreshInv
<1>2. stored \in Creds /\ IssuedTo(stored)
      /\ \A a \in Actor : creds[a] \in Creds /\ IssuedTo(creds[a])
  BY <1>1 DEF TypeOK, Issued
<1>3. Background \in Actor /\ (\A r \in Request : r \in Actor /\ r # Background)
  BY RefreshAssumption DEF Actor
\* The steps that neither refresh nor settle.
<1>4. ASSUME UNCHANGED <<current, expiry, leader, flight>>, now' = now \/ now' = now + 1,
             \A a \in Actor : pc'[a] \in {"loaded", "sleeping"} => Ripe(creds'[a].token),
             \A a \in Actor : leader[a] # Nobody /\ mode'[a] = "reject" => Ripe(creds'[a].token),
             creds' \in [Actor -> Creds]
      PROVE  SpentRipe'
  <2>1. now \in Nat /\ TTL \in Nat /\ Lifetime \in Nat
    BY <1>1, RefreshAssumption DEF TypeOK
  <2>2. ASSUME NEW t \in Token, Ripe(t) PROVE Ripe(t)'
    <3>1. expiry[t] \in Nat
      BY <1>1 DEF TypeOK
    <3> QED BY <1>4, <2>1, <2>2, <3>1 DEF Ripe
  <2>3. \A a \in Actor : creds'[a].token \in Token
    BY <1>4 DEF Creds
  <2>4. \A a \in Actor : flight[a] # 0 => flight[a] \in Token
    BY <1>1 DEF TypeOK
  <2>5. \A a \in Actor : flight'[a] # 0 => Ripe(flight[a])'
    BY <1>4, <2>2, <2>4 DEF SpentRipe
  <2> QED BY <1>4, <2>2, <2>3, <2>5 DEF SpentRipe, Ripe
<1>5. CASE Tick
  BY <1>1, <1>4, <1>5 DEF Tick, SpentRipe, TypeOK
<1>6. ASSUME NEW r \in Request, Begin(r) PROVE SpentRipe'
  <2>1. r \in Actor /\ (\A b \in Actor \ {r} : mode'[b] = mode[b]) /\ mode'[r] = "pre"
    BY <1>1, <1>3, <1>6 DEF Begin, TypeOK
  <2>2. CASE Due(stored, Lead)
    BY <1>2, <1>6, <2>1, <2>2, DueIsRipe, RefreshRipe DEF Begin
  <2>3. CASE ~Due(stored, Lead)
    BY <1>1, <1>2, <1>4, <1>6, <2>1, <2>3 DEF Begin, SpentRipe, TypeOK
  <2> QED BY <2>2, <2>3
<1>7. ASSUME NEW r \in Request, Accepted(r) PROVE SpentRipe'
  BY <1>1, <1>3, <1>4, <1>7 DEF Accepted, SpentRipe, TypeOK
<1>8. ASSUME NEW r \in Request, Rejected(r) PROVE SpentRipe'
  <2>1. r \in Actor /\ \A b \in Actor \ {r} : mode'[b] = mode[b]
    BY <1>1, <1>3, <1>8 DEF Rejected, TypeOK
  <2>2. Ripe(creds[r].token)
    BY <1>2, <1>8, <2>1, StaleIsRipe DEF Rejected, LeadsLeaveRoom
  <2> QED BY <1>2, <1>8, <2>1, <2>2, RefreshRipe DEF Rejected
<1>9. ASSUME NEW r \in Request, Retry(r) PROVE SpentRipe'
  <2>1. r \in Actor /\ Ripe(creds[r].token)
    BY <1>3, <1>9 DEF Retry, SpentRipe
  <2> QED BY <1>2, <1>9, <2>1, RefreshRipe DEF Retry
<1>10. CASE BackgroundLoad
  <2>1. Ripe(stored.token)
    BY <1>2, <1>10, DueIsRipe DEF BackgroundLoad
  <2> QED BY <1>1, <1>2, <1>3, <1>4, <1>10, <2>1 DEF BackgroundLoad, SpentRipe, TypeOK, RetriesLeft
<1>11. CASE BackgroundRefresh
  <2>1. Ripe(creds[Background].token) /\ (\A b \in Actor \ {Background} : mode'[b] = mode[b])
    BY <1>1, <1>3, <1>11 DEF BackgroundRefresh, SpentRipe, TypeOK
  <2> QED BY <1>2, <1>3, <1>11, <2>1, RefreshRipe DEF BackgroundRefresh
<1>12. ASSUME NEW a \in Actor, ExchangeEnds(a) PROVE SpentRipe'
  BY <1>1, <1>12, EndsAsSettled, SettleRipe
<1>13. CASE UNCHANGED vars
  BY <1>1, <1>4, <1>13 DEF vars, SpentRipe, TypeOK
<1> QED BY <1>5, <1>6, <1>7, <1>8, <1>9, <1>10, <1>11, <1>12, <1>13 DEF Next

\* A cached pair that is still delivered is the newest one.
LEMMA CachedIsNewest ==
  ASSUME RefreshInv, SpentRipe, NEW t \in Token, RecentlySpent(t), HasTokens(dedup[t].result)
  PROVE  dedup[t].result.token = current
<1>1. TypeOK /\ CacheExact /\ Issued
  BY DEF RefreshInv
<1>2. /\ dedup[t].result.token = t + 1 /\ t + 1 <= current
      /\ dedup[t].until = expiry[t + 1] - Lifetime + TTL /\ dedup[t].until > now
  BY <1>1 DEF CacheExact, RecentlySpent
<1>3. t \in Nat /\ t >= 1 /\ current \in Nat /\ current <= MaxToken /\ MaxToken \in Nat
      /\ now \in Nat /\ TTL \in Nat /\ Lifetime \in Nat
  BY <1>1, RefreshAssumption DEF TypeOK, Token
<1>4. CASE t + 1 < current
  <2> DEFINE u == t + 1
  <2>1. u \in Token /\ u + 1 \in Token /\ u < current /\ u + 1 <= current
    BY <1>2, <1>3, <1>4 DEF Token
  <2>2. expiry[u] + TTL <= expiry[u + 1] /\ expiry[u + 1] <= now + Lifetime
    BY <1>1, <2>1 DEF SpentRipe, Issued
  <2>3. expiry[u] \in Nat /\ expiry[u + 1] \in Nat
    BY <1>1, <2>1 DEF TypeOK
  <2>4. expiry[u] - Lifetime + TTL > now
    BY <1>2
  <2> HIDE DEF u
  <2> QED BY <1>3, <2>2, <2>3, <2>4
<1> QED BY <1>2, <1>3, <1>4

\* As long as the provider rejects only stale pairs and a pair stays in use for
\* longer than a result is cached, the row never goes back to an older pair.
THEOREM RowNeverGoesBack ==
  ASSUME LeadsLeaveRoom
  PROVE  Spec => StoredNeverGoesBack
<1>1. RefreshInv /\ SpentRipe /\ [Next]_vars => [stored'.token >= stored.token]_vars
  <2> SUFFICES ASSUME RefreshInv, SpentRipe, [Next]_vars
               PROVE  stored'.token >= stored.token
    OBVIOUS
  <2>1. /\ TypeOK
        /\ stored.token \in Nat /\ current \in Nat /\ stored.token <= current
    <3>1. TypeOK /\ IssuedTo(stored)
      BY DEF RefreshInv, Issued
    <3>2. stored.token \in Token /\ current \in Token
      BY <3>1 DEF TypeOK, Creds
    <3> QED BY <3>1, <3>2 DEF IssuedTo, Token
  <2>2. ASSUME NEW a \in Actor, NEW c \in Creds, Refresh(a, c)
        PROVE  stored' = stored \/ stored'.token = current
    <3>1. CASE UNCHANGED stored
      BY <3>1
    <3>2. CASE RecentlySpent(c.token) /\ Deliver({a}, [creds EXCEPT ![a] = c], dedup[c.token].result)
      <4>1. c.token \in Token
        BY DEF Creds
      <4> QED BY <3>2, <4>1, CachedIsNewest DEF Deliver, NewCreds
    <3> QED BY <2>2, <3>1, <3>2 DEF Refresh
  <2>3. ASSUME NEW a \in Actor, NEW result \in Result, EndsWith(a, result)
        PROVE  stored' = stored \/ stored'.token = current + 1
    BY <2>3 DEF EndsWith, Settle, Deliver, NewCreds
  <2>4. stored' = stored \/ stored'.token = current \/ stored'.token = current + 1
    <3>1. CASE UNCHANGED stored
      BY <3>1
    <3>2. ASSUME NEW r \in Request, Begin(r) \/ Rejected(r) \/ Retry(r)
          PROVE  stored' = stored \/ stored'.token = current
      BY <2>1, <2>2, <3>2, RefreshAssumption DEF Begin, Rejected, Retry, TypeOK, Actor
    <3>3. CASE BackgroundRefresh
      BY <2>1, <2>2, <3>3 DEF BackgroundRefresh, TypeOK, Actor
    <3>4. ASSUME NEW a \in Actor, ExchangeEnds(a)
          PROVE  stored' = stored \/ stored'.token = current + 1
      BY <2>1, <2>3, <3>4, EndsAsSettled
    <3> QED
      BY <3>1, <3>2, <3>3, <3>4 DEF Next, Tick, Accepted, BackgroundLoad, vars
  <2> QED BY <2>1, <2>4
<1> QED BY <1>1, InitRipe, NextRipe, RefreshSafety, PTL DEF Spec, StoredNeverGoesBack

=============================================================================

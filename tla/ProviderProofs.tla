--------------------------- MODULE ProviderProofs ---------------------------
(***************************************************************************)
(* Proofs about the two components that speak for one provider.            *)
(*                                                                         *)
(* AntigravityQuota, for every set of models and requests and every        *)
(* interval, window, threshold and block time: a running strike block is   *)
(* never bypassed and nothing else keeps a model skipped, and a block takes *)
(* as many errors as the threshold says, within one window.                *)
(*                                                                         *)
(* KiroTurn and the calls it makes (UpstreamCall), for any number of URLs, *)
(* any retry table, any tools and event streams of any length: how many    *)
(* requests a turn can send, and what may be passed on as its answer.      *)
(***************************************************************************)
EXTENDS AntigravityQuota, KiroTurn, SequenceTheorems, TLAPS

-----------------------------------------------------------------------------
(* The Antigravity quota and its strike breaker.                           *)

-----------------------------------------------------------------------------
(* The inductive invariants. *)

\* A running block shows in the cache, where the pre-filter looks for it.
BlockShown == \A m \in Model : blocks[m] > now => cache[m] = Synthesized(blocks[m])

QuotaInv == QuotaTypeOK /\ BlockShown /\ SkippedForAReason

\* The strikes of a model are its latest errors, and its window starts at the
\* first of them.
StrikesAreErrors ==
  \A m \in Model :
    LET n == Len(errors[m])
        count == strikes[m].count
    IN  /\ n <= StrikeThreshold /\ count <= n
        /\ count > 0 => errors[m][n - count + 1] = strikes[m].windowStart

-----------------------------------------------------------------------------
(* Recording an error and counting a strike. *)

\* The errors kept once another one came at time t.
Recent(s, t) ==
  LET all == Append(s, t)
  IN  SubSeq(all, IF Len(all) > StrikeThreshold THEN 2 ELSE 1, Len(all))

\* The new error is the last one, the others keep their place from the end.
LEMMA RecentFacts ==
  ASSUME NEW s \in Seq(Nat), NEW t \in Nat, Len(s) <= StrikeThreshold
  PROVE  /\ Recent(s, t) \in Seq(Nat)
         /\ Len(s) + 1 <= StrikeThreshold => Len(Recent(s, t)) = Len(s) + 1
         /\ Len(s) = StrikeThreshold => Len(Recent(s, t)) = Len(s)
         /\ Recent(s, t)[Len(Recent(s, t))] = t
         /\ \A k \in 1..(Len(Recent(s, t)) - 1) :
              Recent(s, t)[Len(Recent(s, t)) - k] = s[Len(s) - k + 1]
<1> DEFINE all == Append(s, t)
           first == IF Len(all) > StrikeThreshold THEN 2 ELSE 1
           e == SubSeq(all, first, Len(all))
<1>1. /\ all \in Seq(Nat) /\ Len(s) \in Nat /\ Len(all) = Len(s) + 1
      /\ all[Len(s) + 1] = t
      /\ \A i \in 1..Len(s) : all[i] = s[i]
  BY AppendProperties, LenProperties
<1>2. first \in 1..(Len(all) + 1) /\ first \in Nat /\ Len(all) \in Nat
      /\ StrikeThreshold \in Nat /\ StrikeThreshold >= 2
  BY <1>1, QuotaAssumption
<1>3. \A i \in first..Len(all) : all[i] \in Nat
  BY <1>1, <1>2, ElementOfSeq
<1>4. /\ e \in Seq(Nat)
      /\ Len(e) = IF first <= Len(all) THEN Len(all) - first + 1 ELSE 0
      /\ \A i \in 1..(Len(all) - first + 1) : e[i] = all[first + i - 1]
  <2> HIDE DEF first, all
  <2> QED BY <1>2, <1>3, SubSeqProperties
<1>5. first = (IF Len(s) = StrikeThreshold THEN 2 ELSE 1)
  BY <1>1, <1>2
<1>6. first <= Len(all) /\ Len(e) = Len(s) + 2 - first
  <2> HIDE DEF first, all, e
  <2>1. first <= Len(all)
    BY <1>1, <1>2, <1>5
  <2> QED BY <1>1, <1>2, <1>4, <2>1
<1>7. e[Len(e)] = t
  <2> HIDE DEF first, all, e
  <2>1. Len(e) \in 1..(Len(all) - first + 1) /\ first + Len(e) - 1 = Len(s) + 1
    BY <1>1, <1>2, <1>6
  <2>2. e[Len(e)] = all[first + Len(e) - 1]
    BY <1>4, <2>1
  <2> QED BY <1>1, <2>1, <2>2
<1>8. ASSUME NEW k \in 1..(Len(e) - 1) PROVE e[Len(e) - k] = s[Len(s) - k + 1]
  <2> HIDE DEF first, all, e
  <2>1. /\ Len(e) - k \in 1..(Len(all) - first + 1)
        /\ first + (Len(e) - k) - 1 = Len(s) - k + 1
        /\ Len(s) - k + 1 \in 1..Len(s)
    BY <1>1, <1>2, <1>6
  <2>2. e[Len(e) - k] = all[first + (Len(e) - k) - 1]
    BY <1>4, <2>1
  <2> QED BY <1>1, <2>1, <2>2
<1>9. Recent(s, t) = e
  BY DEF Recent
<1>10. /\ Len(s) + 1 <= StrikeThreshold => Len(e) = Len(s) + 1
       /\ Len(s) = StrikeThreshold => Len(e) = Len(s)
  <2> HIDE DEF first, all, e
  <2> QED BY <1>1, <1>2, <1>5, <1>6
<1> HIDE DEF e, all, first
<1> QED BY <1>4, <1>7, <1>8, <1>9, <1>10

\* A strike either opens a window now or is one more in the window it is in.
LEMMA StrikeFacts ==
  ASSUME NEW strike \in [count : 0..(StrikeThreshold - 1), windowStart : Nat], now \in Nat
  PROVE  \/ /\ Strike(strike).count = 1 /\ Strike(strike).windowStart = now
            /\ Strike(strike) \in [count : 0..StrikeThreshold, windowStart : Nat]
         \/ /\ strike.count > 0 /\ InWindow(strike)
            /\ Strike(strike).count = strike.count + 1
            /\ Strike(strike).windowStart = strike.windowStart
            /\ Strike(strike) \in [count : 0..StrikeThreshold, windowStart : Nat]
<1>1. StrikeThreshold \in Nat /\ StrikeThreshold >= 2
  BY QuotaAssumption
<1>2. CASE strike.count > 0 /\ InWindow(strike)
  <2>1. Strike(strike) = [strike EXCEPT !.count = @ + 1]
    BY <1>2 DEF Strike
  <2> QED BY <1>1, <1>2, <2>1
<1>3. CASE ~(strike.count > 0 /\ InWindow(strike))
  <2>1. Strike(strike) = [count |-> 1, windowStart |-> now]
    BY <1>3 DEF Strike
  <2> QED BY <1>1, <2>1
<1> QED BY <1>2, <1>3

LEMMA EntryTypes ==
  /\ NoEntry \in Entry \cup {NoEntry} /\ ~Exhausted(NoEntry)
  /\ \A u \in Nat : Synthesized(u) \in Entry /\ Synthesized(u).resetAt = u
  BY DEF Entry, NoEntry, Synthesized, Exhausted

-----------------------------------------------------------------------------
(* Every step. *)

\* What handling an error does to its model m: the error is recorded, and the
\* strikes of m are forgotten, counted, or turned into a block.
LEMMA HandledOutcome ==
  ASSUME QuotaTypeOK, StrikesAreErrors, NEW r \in Request, NEW entry, NEW m, m = model[r],
         HandleReading(r, entry)
  PROVE  /\ m \in Model
         /\ pc' = [pc EXCEPT ![r] = "idle"]
         /\ errors' = [errors EXCEPT ![m] = Recent(@, now)]
         /\ \/ strikes' = [strikes EXCEPT ![m] = NoStrike] /\ UNCHANGED <<blocks, cache>>
            \/ /\ ~Trips(Strike(strikes[m]))
               /\ strikes' = [strikes EXCEPT ![m] = Strike(strikes[m])]
               /\ UNCHANGED <<blocks, cache>>
            \/ /\ Trips(Strike(strikes[m]))
               /\ strikes' = [strikes EXCEPT ![m] = NoStrike]
               /\ blocks' = [blocks EXCEPT ![m] = now + StrikeBlock]
               /\ cache' = [cache EXCEPT ![m] = Synthesized(now + StrikeBlock)]
<1>1. m \in Model
  BY DEF QuotaTypeOK
<1>2. pc' = [pc EXCEPT ![r] = "idle"]
  BY DEF HandleReading
<1>3. errors' = [errors EXCEPT ![m] = Recent(@, now)]
  BY DEF HandleReading, Recent
<1>4. CASE Exhausted(entry)
  BY <1>1, <1>2, <1>3, <1>4 DEF HandleReading
<1>5. CASE ~Exhausted(entry)
  <2>1. CountStrike(m)
    BY <1>5 DEF HandleReading
  <2> QED BY <1>1, <1>2, <1>3, <2>1 DEF CountStrike
<1> QED BY <1>4, <1>5

\* An error was handled: the parts of the invariant.
LEMMA HandleKeeps ==
  ASSUME QuotaInv, StrikesAreErrors, NEW r \in Request, NEW entry,
         HandleReading(r, entry), UNCHANGED <<now, lastRefresh, inflight, model, reported>>
  PROVE  QuotaInv' /\ StrikesAreErrors'
<1> DEFINE m == model[r]
           strike == Strike(strikes[m])
           e == Recent(errors[m], now)
<1>1. QuotaTypeOK /\ BlockShown /\ SkippedForAReason
  BY DEF QuotaInv
<1>2. /\ m \in Model
      /\ pc' = [pc EXCEPT ![r] = "idle"]
      /\ errors' = [errors EXCEPT ![m] = e]
      /\ \/ strikes' = [strikes EXCEPT ![m] = NoStrike] /\ UNCHANGED <<blocks, cache>>
         \/ /\ ~Trips(strike) /\ strikes' = [strikes EXCEPT ![m] = strike]
            /\ UNCHANGED <<blocks, cache>>
         \/ /\ Trips(strike) /\ strikes' = [strikes EXCEPT ![m] = NoStrike]
            /\ blocks' = [blocks EXCEPT ![m] = now + StrikeBlock]
            /\ cache' = [cache EXCEPT ![m] = Synthesized(now + StrikeBlock)]
  BY <1>1, HandledOutcome
<1>3. /\ now \in Nat /\ errors[m] \in Seq(Nat) /\ Len(errors[m]) <= StrikeThreshold
      /\ strikes[m] \in [count : 0..(StrikeThreshold - 1), windowStart : Nat]
      /\ strikes[m].count <= Len(errors[m]) /\ Len(errors[m]) \in Nat
      /\ strikes[m].count > 0 =>
           errors[m][Len(errors[m]) - strikes[m].count + 1] = strikes[m].windowStart
  BY <1>1, <1>2, LenProperties DEF QuotaTypeOK, StrikesAreErrors
<1>4. StrikeThreshold \in Nat /\ StrikeThreshold >= 2 /\ StrikeBlock \in Nat /\ StrikeBlock >= 1
  BY QuotaAssumption
<1>5. /\ e \in Seq(Nat) /\ Len(e) <= StrikeThreshold /\ Len(e) \in Nat /\ Len(e) >= 1
      /\ strikes[m].count + 1 <= Len(e) /\ e[Len(e)] = now
      /\ \A k \in 1..(Len(e) - 1) : e[Len(e) - k] = errors[m][Len(errors[m]) - k + 1]
  <2>1. /\ e \in Seq(Nat) /\ e[Len(e)] = now
        /\ Len(errors[m]) + 1 <= StrikeThreshold => Len(e) = Len(errors[m]) + 1
        /\ Len(errors[m]) = StrikeThreshold => Len(e) = Len(errors[m])
        /\ \A k \in 1..(Len(e) - 1) : e[Len(e) - k] = errors[m][Len(errors[m]) - k + 1]
    BY <1>3, RecentFacts
  <2>2. strikes[m].count \in Nat /\ strikes[m].count + 1 <= StrikeThreshold
    BY <1>3, <1>4
  <2> HIDE DEF e, m
  <2>3. /\ Len(e) \in Nat /\ Len(e) <= StrikeThreshold /\ Len(e) >= 1
        /\ Len(errors[m]) = StrikeThreshold \/ Len(e) = Len(errors[m]) + 1
    BY <1>3, <1>4, <2>1
  <2>4. strikes[m].count + 1 <= Len(e)
    BY <1>3, <2>1, <2>2, <2>3
  <2> QED BY <2>1, <2>3, <2>4
<1>6. \/ strike.count = 1 /\ strike.windowStart = now
      \/ /\ strikes[m].count > 0 /\ strike.count = strikes[m].count + 1
         /\ strike.windowStart = strikes[m].windowStart
  BY <1>3, StrikeFacts
<1>7. strike \in [count : 0..StrikeThreshold, windowStart : Nat]
  BY <1>3, StrikeFacts
<1> HIDE DEF m, strike, e
<1>8. NoStrike \in [count : 0..(StrikeThreshold - 1), windowStart : Nat] /\ NoStrike.count = 0
  BY <1>4 DEF NoStrike
<1>9. ~Trips(strike) => strike \in [count : 0..(StrikeThreshold - 1), windowStart : Nat]
  BY <1>4, <1>7 DEF Trips
<1>10. QuotaTypeOK'
  <2>1. errors' \in [Model -> Seq(Nat)] /\ pc' \in [Request -> {"idle", "calling", "waiting", "answered", "unanswered"}]
    BY <1>1, <1>2, <1>5 DEF QuotaTypeOK
  <2>2. strikes' \in [Model -> [count : 0..(StrikeThreshold - 1), windowStart : Nat]]
    <3>1. strikes \in [Model -> [count : 0..(StrikeThreshold - 1), windowStart : Nat]]
      BY <1>1 DEF QuotaTypeOK
    <3>2. \E s \in [count : 0..(StrikeThreshold - 1), windowStart : Nat] :
            strikes' = [strikes EXCEPT ![m] = s]
      BY <1>2, <1>8, <1>9
    <3> QED BY <3>1, <3>2
  <2>3. now + StrikeBlock \in Nat
    BY <1>3, <1>4
  <2>4. blocks' \in [Model -> Nat] /\ cache' \in [Model -> Entry \cup {NoEntry}]
    <3>1. Synthesized(now + StrikeBlock) \in Entry
      BY <2>3, EntryTypes
    <3>2. \/ UNCHANGED <<blocks, cache>>
          \/ /\ blocks' = [blocks EXCEPT ![m] = now + StrikeBlock]
             /\ cache' = [cache EXCEPT ![m] = Synthesized(now + StrikeBlock)]
      BY <1>2
    <3>3. blocks \in [Model -> Nat] /\ cache \in [Model -> Entry \cup {NoEntry}]
      BY <1>1 DEF QuotaTypeOK
    <3> QED BY <2>3, <3>1, <3>2, <3>3
  <2> QED BY <1>1, <2>1, <2>2, <2>4 DEF QuotaTypeOK
<1>11. (BlockShown /\ SkippedForAReason)'
  <2>1. CASE UNCHANGED <<blocks, cache>>
    BY <1>1, <2>1 DEF BlockShown, SkippedForAReason, InForce
  <2>2. CASE /\ blocks' = [blocks EXCEPT ![m] = now + StrikeBlock]
             /\ cache' = [cache EXCEPT ![m] = Synthesized(now + StrikeBlock)]
    <3>1. blocks'[m] = now + StrikeBlock /\ cache'[m] = Synthesized(now + StrikeBlock)
      BY <1>1, <1>2, <2>2 DEF QuotaTypeOK
    <3>2. cache'[m].resetAt = blocks'[m]
      BY <3>1 DEF Synthesized
    <3>3. \A n \in Model \ {m} : blocks'[n] = blocks[n] /\ cache'[n] = cache[n]
      BY <1>1, <2>2 DEF QuotaTypeOK
    <3> QED BY <1>1, <3>1, <3>2, <3>3 DEF BlockShown, SkippedForAReason, InForce
  <2> QED BY <1>2, <2>1, <2>2
<1>12. StrikesAreErrors'
  <2> SUFFICES ASSUME NEW n \in Model
               PROVE  /\ Len(errors'[n]) <= StrikeThreshold
                      /\ strikes'[n].count <= Len(errors'[n])
                      /\ strikes'[n].count > 0 =>
                           errors'[n][Len(errors'[n]) - strikes'[n].count + 1] = strikes'[n].windowStart
    BY DEF StrikesAreErrors
  <2>1. CASE n # m
    <3>1. errors'[n] = errors[n] /\ strikes'[n] = strikes[n]
      BY <1>1, <1>2, <2>1 DEF QuotaTypeOK
    <3> QED BY <3>1 DEF StrikesAreErrors
  <2>2. CASE n = m
    <3>1. errors'[m] = e /\ (strikes'[m] = NoStrike \/ (~Trips(strike) /\ strikes'[m] = strike))
      BY <1>1, <1>2 DEF QuotaTypeOK
    <3>2. CASE strikes'[m] = NoStrike
      BY <1>5, <1>8, <2>2, <3>1, <3>2
    <3>3. CASE strikes'[m] = strike /\ ~Trips(strike) /\ strike.count = 1 /\ strike.windowStart = now
      <4>1. Len(e) >= 1 /\ Len(e) - 1 + 1 = Len(e)
        BY <1>3, <1>4, <1>5
      <4> QED BY <1>5, <2>2, <3>1, <3>3, <4>1
    <3>4. CASE /\ strikes'[m] = strike /\ ~Trips(strike)
               /\ strikes[m].count > 0 /\ strike.count = strikes[m].count + 1
               /\ strike.windowStart = strikes[m].windowStart
      <4> DEFINE k == strikes[m].count
      <4>1. k \in Nat /\ k >= 1 /\ k + 1 < StrikeThreshold
        BY <1>3, <1>4, <3>4 DEF Trips
      <4>2. k \in 1..(Len(e) - 1) /\ k + 1 <= Len(e) /\ Len(e) - (k + 1) + 1 = Len(e) - k
        <5>1. k + 1 <= Len(e) /\ Len(e) \in Nat
          BY <1>5
        <5> HIDE DEF k
        <5> QED BY <4>1, <5>1
      <4>3. e[Len(e) - k] = strikes[m].windowStart
        <5>1. e[Len(e) - k] = errors[m][Len(errors[m]) - k + 1]
          BY <1>5, <4>2
        <5> QED BY <1>3, <3>4, <5>1
      <4> QED BY <1>5, <2>2, <3>1, <3>4, <4>2, <4>3
    <3> QED BY <1>6, <3>1, <3>2, <3>3, <3>4
  <2> QED BY <2>1, <2>2
<1> QED BY <1>10, <1>11, <1>12 DEF QuotaInv

LEMMA InitKeeps == QuotaInit => QuotaInv /\ StrikesAreErrors
<1> SUFFICES ASSUME QuotaInit PROVE QuotaInv /\ StrikesAreErrors
  OBVIOUS
<1>1. NoStrike \in [count : 0..(StrikeThreshold - 1), windowStart : Nat] /\ NoStrike.count = 0
  BY QuotaAssumption DEF NoStrike
<1>2. << >> \in Seq(Nat) /\ Len(<< >>) = 0 /\ StrikeThreshold \in Nat
  BY QuotaAssumption
<1>3. QuotaTypeOK
  BY <1>1, <1>2, QuotaAssumption DEF QuotaInit, QuotaTypeOK
<1>4. BlockShown
  BY QuotaAssumption DEF QuotaInit, BlockShown
<1>5. SkippedForAReason
  BY EntryTypes DEF QuotaInit, SkippedForAReason, InForce
<1>6. StrikesAreErrors
  <2> SUFFICES ASSUME NEW m \in Model
               PROVE  /\ Len(errors[m]) <= StrikeThreshold /\ strikes[m].count <= Len(errors[m])
                      /\ ~(strikes[m].count > 0)
    BY Zenon DEF StrikesAreErrors
  <2>1. Len(errors[m]) = 0 /\ strikes[m] = NoStrike
    BY <1>2 DEF QuotaInit
  <2>2. strikes[m].count = 0
    BY <1>1, <2>1
  <2> QED BY <1>2, <2>1, <2>2
<1> QED BY <1>3, <1>4, <1>5, <1>6 DEF QuotaInv

\* Steps that leave the readings and the breaker alone.
LEMMA QuietKeeps ==
  ASSUME QuotaInv, StrikesAreErrors,
         UNCHANGED <<cache, strikes, blocks, reported, errors>>, now' = now \/ now' = now + 1,
         lastRefresh' \in Nat, inflight' \in BOOLEAN,
         pc' \in [Request -> {"idle", "calling", "waiting", "answered", "unanswered"}],
         model' \in [Request -> Model]
  PROVE  QuotaInv' /\ StrikesAreErrors'
<1>1. QuotaTypeOK /\ BlockShown /\ SkippedForAReason
  BY DEF QuotaInv
<1>2. QuotaTypeOK'
  BY <1>1 DEF QuotaTypeOK
<1>3. now \in Nat /\ (\A m \in Model : blocks[m] \in Nat /\ cache[m].resetAt \in Nat)
  BY <1>1 DEF QuotaTypeOK, Entry, NoEntry
<1>4. BlockShown'
  BY <1>1, <1>3 DEF BlockShown
<1>5. SkippedForAReason'
  BY <1>1, <1>3 DEF SkippedForAReason, InForce
<1>6. StrikesAreErrors'
  BY DEF StrikesAreErrors
<1> QED BY <1>2, <1>4, <1>5, <1>6 DEF QuotaInv

\* A success forgets the strikes and the block, and the entry of the block.
LEMMA SucceedsKeeps ==
  ASSUME QuotaInv, StrikesAreErrors, NEW r \in Request, Succeeds(r)
  PROVE  QuotaInv' /\ StrikesAreErrors'
<1>1. QuotaTypeOK /\ BlockShown /\ SkippedForAReason
  BY DEF QuotaInv
<1>0. PICK m \in Model : m = model[r]
  BY <1>1 DEF QuotaTypeOK
<1>2. /\ strikes' = [strikes EXCEPT ![m] = NoStrike] /\ blocks' = [blocks EXCEPT ![m] = 0]
      /\ cache' = WithoutBlock(m) /\ errors' = [errors EXCEPT ![m] = << >>]
      /\ pc' = [pc EXCEPT ![r] = "idle"]
      /\ UNCHANGED <<now, lastRefresh, inflight, model, reported>>
  BY <1>0 DEF Succeeds
<1>3. NoStrike \in [count : 0..(StrikeThreshold - 1), windowStart : Nat] /\ NoStrike.count = 0
  BY QuotaAssumption DEF NoStrike
<1>4. << >> \in Seq(Nat) /\ Len(<< >>) = 0 /\ StrikeThreshold \in Nat
  BY QuotaAssumption
<1>5. cache' = [cache EXCEPT ![m] = NoEntry] \/ (cache' = cache /\ ~(blocks[m] # 0 /\ cache[m].resetAt = blocks[m]))
  BY <1>2 DEF WithoutBlock
<1>6. QuotaTypeOK'
  BY <1>1, <1>2, <1>3, <1>4, <1>5, EntryTypes DEF QuotaTypeOK
<1>7. BlockShown'
  BY <1>1, <1>2, <1>5 DEF BlockShown, QuotaTypeOK
<1>8. SkippedForAReason'
  <2> SUFFICES ASSUME NEW n \in Model, InForce(cache[n])'
               PROVE  blocks'[n] = cache'[n].resetAt \/ reported'[n] = cache'[n]
    BY DEF SkippedForAReason
  <2>1. CASE n # m
    BY <1>1, <1>2, <1>5, <2>1 DEF SkippedForAReason, QuotaTypeOK, InForce
  <2>2. CASE n = m
    <3>1. cache'[m] = cache[m] /\ cache' = cache /\ ~(blocks[m] # 0 /\ cache[m].resetAt = blocks[m])
      <4>1. cache' = [cache EXCEPT ![m] = NoEntry] => ~InForce(cache[m])'
        <5>1. NoEntry.left # "none"
          BY DEF NoEntry
        <5> QED BY <1>1, <5>1 DEF InForce, QuotaTypeOK, Exhausted
      <4>2. InForce(cache[m])'
        BY <2>2
      <4> QED BY <1>5, <4>1, <4>2
    <3>2. InForce(cache[m])
      BY <1>2, <2>2, <3>1 DEF InForce
    <3>3. cache[m].resetAt > now /\ now \in Nat /\ blocks[m] \in Nat /\ cache[m].resetAt \in Nat
      BY <1>1, <3>2 DEF InForce, QuotaTypeOK, Entry, NoEntry
    <3>4. blocks[m] # cache[m].resetAt
      BY <3>1, <3>3
    <3>5. reported[m] = cache[m]
      BY <1>1, <3>2, <3>4 DEF SkippedForAReason
    <3> QED BY <1>2, <2>2, <3>1, <3>5
  <2> QED BY <2>1, <2>2
<1>9. StrikesAreErrors'
  <2>1. \A n \in Model : \/ strikes'[n] = strikes[n] /\ errors'[n] = errors[n]
                         \/ strikes'[n] = NoStrike /\ errors'[n] = << >>
    BY <1>1, <1>2 DEF QuotaTypeOK
  <2> QED BY <1>3, <1>4, <2>1 DEF StrikesAreErrors
<1> QED BY <1>6, <1>7, <1>8, <1>9 DEF QuotaInv

\* Fresh readings do not hide a running block.
LEMMA ArrivalKeeps ==
  ASSUME QuotaInv, StrikesAreErrors, QuotaArrives
  PROVE  QuotaInv' /\ StrikesAreErrors'
<1>1. QuotaTypeOK /\ BlockShown /\ SkippedForAReason /\ now \in Nat
  BY DEF QuotaInv, QuotaTypeOK
<1>2. PICK quotas \in [Model -> Readings] :
        cache' = ApplyActiveStrikeBlocks(quotas) /\ reported' = quotas
  BY DEF QuotaArrives
<1>3. /\ blocks' = [m \in Model |-> IF blocks[m] > now THEN blocks[m] ELSE 0]
      /\ inflight' = FALSE /\ pc' = Resumed("answered")
      /\ UNCHANGED <<now, strikes, lastRefresh, model, errors>>
  BY DEF QuotaArrives
<1>4. Readings \subseteq Entry \cup {NoEntry}
  <2>1. \A d \in ResetIn : now + d \in Nat
    BY <1>1, QuotaAssumption
  <2> QED BY <2>1 DEF Readings, Entry
<1>5. \A m \in Model :
        \/ blocks[m] > now /\ blocks'[m] = blocks[m] /\ cache'[m] = Synthesized(blocks[m])
        \/ ~(blocks[m] > now) /\ blocks'[m] = 0 /\ cache'[m] = quotas[m]
  BY <1>2, <1>3 DEF ApplyActiveStrikeBlocks
<1>6. cache' \in [Model -> Entry \cup {NoEntry}] /\ reported' \in [Model -> Entry \cup {NoEntry}]
  <2>1. \A m \in Model : cache'[m] \in Entry \cup {NoEntry}
    BY <1>1, <1>2, <1>4, <1>5, EntryTypes DEF QuotaTypeOK
  <2> QED BY <1>2, <1>4, <2>1 DEF ApplyActiveStrikeBlocks
<1>7. QuotaTypeOK'
  BY <1>1, <1>3, <1>6 DEF QuotaTypeOK, Resumed
<1>8. BlockShown'
  <2>1. \A m \in Model : blocks'[m] > now' => cache'[m] = Synthesized(blocks'[m])
    BY <1>1, <1>3, <1>5
  <2> QED BY <2>1 DEF BlockShown, Synthesized
<1>9. SkippedForAReason'
  <2>1. \A m \in Model : blocks[m] > now => Synthesized(blocks[m]).resetAt = blocks[m]
    BY DEF Synthesized
  <2> QED BY <1>2, <1>5, <2>1 DEF SkippedForAReason
<1>10. StrikesAreErrors'
  BY <1>3 DEF StrikesAreErrors
<1> QED BY <1>7, <1>8, <1>9, <1>10 DEF QuotaInv

LEMMA NextKeeps ==
  QuotaInv /\ StrikesAreErrors /\ [QuotaNext]_quotaVars => QuotaInv' /\ StrikesAreErrors'
<1> SUFFICES ASSUME QuotaInv, StrikesAreErrors, [QuotaNext]_quotaVars PROVE QuotaInv' /\ StrikesAreErrors'
  OBVIOUS
<1>1. QuotaTypeOK
  BY DEF QuotaInv
<1>2. CASE Tick
  BY <1>1, <1>2, QuietKeeps DEF Tick, QuotaTypeOK
<1>3. ASSUME NEW r \in Request, NEW m \in Model, Begin(r, m) \/ TurnedAway(r, m)
      PROVE  QuotaInv' /\ StrikesAreErrors'
  BY <1>1, <1>3, QuietKeeps DEF Begin, TurnedAway, QuotaTypeOK
<1>4. ASSUME NEW r \in Request, Succeeds(r) PROVE QuotaInv' /\ StrikesAreErrors'
  BY <1>4, SucceedsKeeps
<1>5. ASSUME NEW r \in Request, FailsOtherwise(r) \/ JoinsRefresh(r)
      PROVE  QuotaInv' /\ StrikesAreErrors'
  BY <1>1, <1>5, QuietKeeps DEF FailsOtherwise, JoinsRefresh, QuotaTypeOK
<1>6. ASSUME NEW r \in Request, StartsRefresh(r) PROVE QuotaInv' /\ StrikesAreErrors'
  BY <1>1, <1>6, QuietKeeps DEF StartsRefresh, QuotaTypeOK
<1>7. ASSUME NEW r \in Request, Throttled(r) \/ Resume(r) PROVE QuotaInv' /\ StrikesAreErrors'
  BY <1>7, HandleKeeps DEF Throttled, Resume
<1>8. CASE QuotaArrives
  BY <1>8, ArrivalKeeps
<1>9. CASE QuotaFails
  BY <1>1, <1>9, QuietKeeps DEF QuotaFails, Resumed, QuotaTypeOK
<1>10. CASE UNCHANGED quotaVars
  BY <1>1, <1>10, QuietKeeps DEF quotaVars, QuotaTypeOK
<1> QED BY <1>2, <1>3, <1>4, <1>5, <1>6, <1>7, <1>8, <1>9, <1>10 DEF QuotaNext, QuotaError

LEMMA QuotaInvariance == QuotaSpec => [](QuotaInv /\ StrikesAreErrors)
<1> QED BY InitKeeps, NextKeeps, PTL DEF QuotaSpec

\* Every state of the quota cache and the breaker is of its type, and no count
\* of strikes stays at the threshold.
THEOREM QuotaTypeCorrect == QuotaSpec => []QuotaTypeOK
<1>1. QuotaInv => QuotaTypeOK
  BY DEF QuotaInv
<1> QED BY <1>1, QuotaInvariance, PTL

\* Whatever the upstream reports and whenever, a model is only skipped for its
\* own running block or for the last reading.
THEOREM SkipsAreJustified == QuotaSpec => []SkippedForAReason
<1>1. QuotaInv => SkippedForAReason
  BY DEF QuotaInv
<1> QED BY <1>1, QuotaInvariance, PTL

\* No request is sent to a model whose strike block runs: no refresh, success of
\* another model or second error takes the block out of the cache.
THEOREM BlocksHold == QuotaSpec => BlockSurvivesRefresh
<1>1. QuotaInv /\ [QuotaNext]_quotaVars =>
        [\A r \in Request : pc[r] = "idle" /\ pc'[r] = "calling" => blocks[model'[r]] <= now]_quotaVars
  <2> SUFFICES ASSUME QuotaInv, [QuotaNext]_quotaVars, NEW r \in Request, pc[r] = "idle", pc'[r] = "calling"
               PROVE  blocks[model'[r]] <= now
    OBVIOUS
  <2>1. QuotaTypeOK /\ BlockShown
    BY DEF QuotaInv
  <2>2. \E m \in Model : Begin(r, m)
    <3>1. ASSUME NEW q \in Request, NEW m \in Model, Begin(q, m) PROVE \E n \in Model : Begin(r, n)
      <4>1. q = r
        BY <2>1, <3>1 DEF Begin, QuotaTypeOK
      <4> QED BY <3>1, <4>1
    <3>2. ASSUME NEW q \in Request, HandleReading(q, NoEntry) \/ (\E entry : HandleReading(q, entry))
          PROVE  FALSE
      BY <2>1, <3>2 DEF HandleReading, QuotaTypeOK
    <3>3. ASSUME NEW q \in Request,
                 Succeeds(q) \/ FailsOtherwise(q) \/ JoinsRefresh(q) \/ StartsRefresh(q)
                 \/ Throttled(q) \/ Resume(q)
          PROVE  FALSE
      BY <2>1, <3>2, <3>3
         DEF Succeeds, FailsOtherwise, JoinsRefresh, StartsRefresh, Throttled, Resume, QuotaTypeOK
    <3>4. ~Tick /\ ~UNCHANGED quotaVars /\ ~QuotaArrives /\ ~QuotaFails
          /\ \A q \in Request, m \in Model : ~TurnedAway(q, m)
      BY <2>1 DEF Tick, quotaVars, QuotaArrives, QuotaFails, Resumed, TurnedAway, QuotaTypeOK
    <3> QED BY <3>1, <3>3, <3>4 DEF QuotaNext, QuotaError
  <2>3. PICK m \in Model : Begin(r, m)
    BY <2>2
  <2>4. model'[r] = m /\ ~InForce(cache[m])
    BY <2>1, <2>3 DEF Begin, QuotaTypeOK
  <2>5. blocks[m] \in Nat /\ now \in Nat
    BY <2>1 DEF QuotaTypeOK
  <2>6. ~(blocks[m] > now)
    <3>1. ASSUME blocks[m] > now PROVE InForce(cache[m])
      <4>1. cache[m] = Synthesized(blocks[m])
        BY <2>1, <3>1 DEF BlockShown
      <4> QED BY <3>1, <4>1 DEF InForce, Synthesized, Exhausted
    <3> QED BY <2>4, <3>1
  <2> QED BY <2>4, <2>5, <2>6
<1> QED BY <1>1, QuotaInvariance, PTL DEF QuotaSpec, BlockSurvivesRefresh

\* A block takes as many errors on its model as the threshold, within one
\* window and without a success in between, however requests interleave.
THEOREM BlocksAreEarned == QuotaSpec => BlockIsEarned
<1>1. QuotaInv /\ StrikesAreErrors /\ [QuotaNext]_quotaVars =>
        [\A m \in Model : blocks'[m] > blocks[m] =>
           LET e == errors'[m] IN
           Len(e) = StrikeThreshold /\ now - e[1] <= StrikeWindow]_quotaVars
  <2> SUFFICES ASSUME QuotaInv, StrikesAreErrors, [QuotaNext]_quotaVars,
                      NEW m \in Model, blocks'[m] > blocks[m]
               PROVE  Len(errors'[m]) = StrikeThreshold /\ now - errors'[m][1] <= StrikeWindow
    OBVIOUS
  <2>1. QuotaTypeOK
    BY DEF QuotaInv
  <2>2. /\ now \in Nat /\ blocks[m] \in Nat
        /\ strikes[m] \in [count : 0..(StrikeThreshold - 1), windowStart : Nat]
        /\ StrikeThreshold \in Nat /\ StrikeThreshold >= 2 /\ errors[m] \in Seq(Nat)
    BY <2>1, QuotaAssumption DEF QuotaTypeOK
  <2>3. ~UNCHANGED blocks
    BY <2>2
  <2>4. \E r \in Request, entry \in {cache[model[q]] : q \in Request} \cup {NoEntry} :
          HandleReading(r, entry)
    <3>1. ASSUME NEW q \in Request, Throttled(q) \/ Resume(q)
          PROVE  HandleReading(q, cache[model[q]]) \/ HandleReading(q, NoEntry)
      BY <3>1 DEF Throttled, Resume
    <3>2. ASSUME NEW q \in Request, Succeeds(q) PROVE FALSE
      <4>1. blocks' = [blocks EXCEPT ![model[q]] = 0] /\ model[q] \in Model
        BY <2>1, <3>2 DEF Succeeds, QuotaTypeOK
      <4>2. blocks'[m] = blocks[m] \/ blocks'[m] = 0
        BY <2>1, <4>1 DEF QuotaTypeOK
      <4> QED BY <2>2, <4>2
    <3>3. ~QuotaArrives
      <4>1. QuotaArrives => blocks'[m] = blocks[m] \/ blocks'[m] = 0
        BY DEF QuotaArrives
      <4> QED BY <2>2, <4>1
    <3> QED BY <2>3, <3>1, <3>2, <3>3
      DEF QuotaNext, QuotaError, Tick, Begin, TurnedAway, FailsOtherwise, JoinsRefresh, StartsRefresh,
          QuotaFails, quotaVars
  <2>5. PICK r \in Request, entry \in {cache[model[q]] : q \in Request} \cup {NoEntry} :
          HandleReading(r, entry)
    BY <2>4
  <2>6. /\ model[r] \in Model
        /\ errors' = [errors EXCEPT ![model[r]] = Recent(@, now)]
        /\ Trips(Strike(strikes[model[r]]))
        /\ blocks' = [blocks EXCEPT ![model[r]] = now + StrikeBlock]
    BY <2>1, <2>3, <2>5, HandledOutcome
  <2>7. m = model[r]
    BY <2>1, <2>2, <2>6 DEF QuotaTypeOK
  <2> DEFINE count == strikes[m].count
             e == Recent(errors[m], now)
  <2>8. count > 0 /\ InWindow(strikes[m]) /\ count + 1 >= StrikeThreshold
    BY <2>2, <2>6, <2>7, StrikeFacts DEF Trips
  <2>9. errors'[m] = e
    BY <2>1, <2>6, <2>7 DEF QuotaTypeOK
  <2>10. /\ Len(errors[m]) <= StrikeThreshold /\ count <= Len(errors[m]) /\ Len(errors[m]) \in Nat
         /\ errors[m][Len(errors[m]) - count + 1] = strikes[m].windowStart
    BY <2>2, <2>8, LenProperties DEF StrikesAreErrors
  <2>11. count \in Nat /\ count <= StrikeThreshold - 1
    BY <2>2
  <2>12. /\ Len(errors[m]) + 1 <= StrikeThreshold => Len(e) = Len(errors[m]) + 1
         /\ Len(errors[m]) = StrikeThreshold => Len(e) = Len(errors[m])
         /\ \A k \in 1..(Len(e) - 1) : e[Len(e) - k] = errors[m][Len(errors[m]) - k + 1]
    BY <2>2, <2>10, RecentFacts
  <2> HIDE DEF count, e
  <2>13. count = StrikeThreshold - 1 /\ Len(e) = StrikeThreshold
    BY <2>2, <2>8, <2>10, <2>11, <2>12
  <2>14. count \in 1..(Len(e) - 1) /\ Len(e) - count = 1
    BY <2>2, <2>8, <2>11, <2>13
  <2>15. e[1] = strikes[m].windowStart
    BY <2>10, <2>12, <2>14
  <2>16. now - e[1] <= StrikeWindow
    BY <2>8, <2>15 DEF InWindow
  <2> QED BY <2>9, <2>13, <2>16
<1> QED BY <1>1, QuotaInvariance, PTL DEF QuotaSpec, BlockIsEarned

-----------------------------------------------------------------------------
(* The Kiro turn.                                                          *)

MostRetries == CHOOSE n \in {Attempts[s] : s \in Statuses} :
                  \A s \in Statuses : Attempts[s] <= n
PerUrl == 1 + MostRetries

Texts == {"", "ellipsis", "future", "full"}
CallType == [phase : {"none", "fetching", "waiting", "done"}, url : Nat, used : Nat,
             hop : Nat, timedOut : BOOLEAN,
             result : {"none", "answer", "failed", "thrown", "aborted"}]
ToolTables == UNION {[D -> BOOLEAN] : D \in SUBSET Tools}
TurnType == [text : Texts, reasoning : Texts, chunks : BOOLEAN, tools : ToolTables,
             sawToolUse : BOOLEAN, toolError : BOOLEAN, explicitStop : BOOLEAN,
             reason : Reasons \union {"none"}, declared : SUBSET Reasons,
             ended : {"no", "clean", "error", "oversize", "broken"}, events : Nat]

TypeOK == /\ call \in CallType /\ sent \in Nat
          /\ signal \in {"live", "aborted", "cancelled"}
          /\ phase \in {"calling", "reading", "over"} /\ repairs \in BOOLEAN
          /\ turn \in TurnType

-----------------------------------------------------------------------------
(* The invariants.                                                         *)

\* The fetches a call has behind it: those of the URLs it has left, each with all its
\* retries, and one for every retry used on the present one.
Behind(c) == (c.url - 1) * PerUrl + c.used

\* What a call has sent is paid for by the fetches behind it, each with all its detours,
\* and by the requests of the present one.
CallPaid ==
    /\ call.phase \in {"fetching", "waiting"} =>
          call.url \in 1..Urls /\ call.used \in 0..MostRetries
    /\ call.phase = "fetching" => /\ call.hop \in 1..MostHops
                                  /\ sent <= Behind(call) * MostHops + call.hop
    /\ call.phase = "waiting" => sent <= Behind(call) * MostHops
    /\ sent <= MostFetches

\* The second attempt is the last.
TwoAttempts == /\ attempt \in 0..2
               /\ phase = "calling" => attempt <= 1
               /\ phase = "reading" => attempt >= 1

\* The reason that is kept is one that was declared, and none was more severe.
WorstOf(t) ==
    /\ t.declared = {} => t.reason = "none"
    /\ t.declared # {} =>
          /\ t.reason \in t.declared
          /\ \A d \in t.declared : Severity(d) <= Severity(t.reason)

\* An answer is that of a turn that ended cleanly and was judged complete.
AnswerOfTurn ==
    /\ phase # "over" => told = Nothing
    /\ told.kind = "answer" => /\ turn.ended = "clean" /\ CleanKind(turn) = "complete"
                               /\ told = Answer(turn)

KiroInv == TypeOK /\ CallPaid /\ TwoAttempts /\ WorstOf(turn) /\ AnswerOfTurn

-----------------------------------------------------------------------------
(* Calls.                                                                  *)

\* The retry table has a largest entry, and MostFetches counts with it.
LEMMA RetryFacts ==
    /\ MostRetries \in Nat
    /\ \A s \in Statuses : Attempts[s] \in 0..MostRetries
    /\ PerUrl \in Nat \ {0} /\ MostFetches = Urls * PerUrl * MostHops
<1> DEFINE counts == {Attempts[s] : s \in Statuses}
<1>1. counts \subseteq Nat
  BY UpstreamCallAssumption
<1>2. \E n \in counts : \A s \in Statuses : Attempts[s] <= n
  BY UpstreamCallAssumption
<1>3. MostRetries \in counts /\ \A s \in Statuses : Attempts[s] <= MostRetries
  BY <1>2 DEF MostRetries
<1>4. MostRetries \in Nat
  BY <1>1, <1>3
<1>5. \A s \in Statuses : Attempts[s] \in Nat
  BY UpstreamCallAssumption
<1>6. MostFetches = Urls * PerUrl * MostHops
  BY DEF MostFetches, PerUrl, MostRetries
<1> QED
  BY <1>3, <1>4, <1>5, <1>6 DEF PerUrl

\* No fetch makes more requests than MostHops.
LEMMA HopFacts ==
    /\ MostHops \in {1, 2, 4}
    /\ \A url \in 1..Urls : Len(Hops(url)) \in 1..MostHops
<1>1. Len(Plain) = IF Proxied THEN 2 ELSE 1
  BY DEF Plain
<1>2. Len(Bypass \o Plain) = IF Proxied THEN 4 ELSE 2
  BY DEF Plain, Bypass
<1>3. \A url \in Bypassed : Bypassed # {}
  OBVIOUS
<1>4. Proxied \in BOOLEAN
  BY UpstreamCallAssumption
<1>5. ASSUME NEW url \in 1..Urls PROVE Len(Hops(url)) \in 1..MostHops
  <2>1. CASE url \in Bypassed
    <3>1. Hops(url) = Bypass \o Plain /\ MostHops = IF Proxied THEN 4 ELSE 2
      BY <2>1, <1>3, <1>4 DEF Hops, MostHops
    <3> QED
      BY <3>1, <1>2, <1>4
  <2>2. CASE url \notin Bypassed
    <3>1. Hops(url) = Plain /\ MostHops \in IF Proxied THEN {2, 4} ELSE {1, 2}
      BY <2>2, <1>4 DEF Hops, MostHops
    <3> QED
      BY <3>1, <1>1, <1>4
  <2> QED
    BY <2>1, <2>2
<1> QED
  BY <1>4, <1>5 DEF MostHops

\* The retries of the URLs up to u are within those of all of them.
LEMMA UrlsAddUp ==
    ASSUME NEW u \in 1..Urls, NEW n \in 0..MostRetries
    PROVE  /\ (u - 1) * PerUrl + n \in Nat
           /\ (u - 1) * PerUrl + n + 1 <= u * PerUrl
           /\ u * PerUrl <= Urls * PerUrl /\ Urls * PerUrl \in Nat /\ u * PerUrl \in Nat
<1> DEFINE k == PerUrl
<1>1. k \in Nat /\ Urls \in Nat /\ n + 1 <= k /\ n \in Nat
  BY RetryFacts, UpstreamCallAssumption DEF PerUrl
<1>2. \A x, y \in Nat : (x * y) \in Nat
  OBVIOUS
<1>3. \A x, y, z \in Nat : (x + y) * z = x * z + y * z
  OBVIOUS
<1>4. PICK d \in Nat : Urls = u + d
  <2>1. Urls - u \in Nat /\ Urls = u + (Urls - u)
    BY <1>1
  <2> QED
    BY <2>1
<1> HIDE DEF k
<1>5. Urls * k = u * k + d * k
  BY <1>1, <1>3, <1>4
<1>6. u * k = (u - 1) * k + k
  BY <1>1
<1>7. (u - 1) * k \in Nat /\ d * k \in Nat /\ u * k \in Nat
  BY <1>1, <1>2, <1>4
<1> QED
  BY <1>1, <1>5, <1>6, <1>7 DEF k

\* Fetches cost MostHops each.
LEMMA HopsAddUp ==
    ASSUME NEW x \in Nat, NEW y \in Nat, x + 1 <= y
    PROVE  x * MostHops \in Nat /\ y * MostHops \in Nat /\ x * MostHops + MostHops <= y * MostHops
<1>1. CASE MostHops = 1
  BY <1>1
<1>2. CASE MostHops = 2
  BY <1>2
<1>3. CASE MostHops = 4
  BY <1>3
<1> QED
  BY <1>1, <1>2, <1>3, HopFacts

\* The fetch that is under way is within what a call may send.
LEMMA Affordable ==
    ASSUME NEW u \in 1..Urls, NEW n \in 0..MostRetries
    PROVE  LET behind == (u - 1) * PerUrl + n
           IN behind \in Nat /\ behind * MostHops \in Nat /\ MostFetches \in Nat
              /\ behind * MostHops + MostHops <= MostFetches
<1> DEFINE behind == (u - 1) * PerUrl + n
<1>1. behind \in Nat /\ behind + 1 <= Urls * PerUrl /\ Urls * PerUrl \in Nat
  BY UrlsAddUp
<1>2. MostFetches = Urls * PerUrl * MostHops
  BY RetryFacts
<1> HIDE DEF behind
<1>3. behind * MostHops \in Nat /\ Urls * PerUrl * MostHops \in Nat
      /\ behind * MostHops + MostHops <= Urls * PerUrl * MostHops
  BY <1>1, HopsAddUp
<1> QED
  BY <1>1, <1>2, <1>3 DEF behind

\* A fetch that is begun, when what was sent is paid for by those behind it.
LEMMA FetchPaid ==
    ASSUME NEW next \in CallType, Fetch(next), sent \in Nat, next.url \in 1..Urls,
           next.used \in 0..MostRetries, sent <= Behind(next) * MostHops
    PROVE  call' \in CallType /\ sent' \in Nat /\ CallPaid'
<1>1. /\ call' = [next EXCEPT !.phase = "fetching", !.hop = 1, !.timedOut = FALSE]
      /\ sent' \in {sent, sent + 1}
  BY DEF Fetch, Send
<1>2. /\ call' \in CallType /\ call'.phase = "fetching" /\ call'.hop = 1
      /\ call'.url = next.url /\ call'.used = next.used
  BY <1>1 DEF CallType
<1>3. MostHops \in {1, 2, 4} /\ MostHops' = MostHops /\ MostFetches' = MostFetches
  BY HopFacts DEF MostHops, MostFetches
<1>4. Behind(next) * MostHops \in Nat /\ Behind(next) * MostHops + MostHops <= MostFetches
      /\ MostFetches \in Nat
  BY Affordable DEF Behind
<1>5. Behind(call') = Behind(next)
  BY <1>2 DEF Behind
<1>6. sent' \in Nat /\ sent' <= Behind(next) * MostHops + 1 /\ sent' <= MostFetches
  BY <1>1, <1>3, <1>4
<1>7. call'.hop \in 1..MostHops
  BY <1>2, <1>3
<1> QED
  BY <1>2, <1>3, <1>5, <1>6, <1>7 DEF CallPaid

\* One call step keeps the account of what was sent.
LEMMA CallStepPaid ==
    ASSUME TypeOK, CallPaid, CallStep
    PROVE  call' \in CallType /\ sent' \in Nat /\ CallPaid'
<1> DEFINE behind == Behind(call)
<1>0. /\ call.phase \in {"fetching", "waiting"} /\ call \in CallType /\ sent \in Nat
      /\ call.url \in 1..Urls /\ call.used \in 0..MostRetries
  BY DEF CallStep, Respond, NetworkError, ConnectTimeout, Cut, Listening, WaitOver,
         TypeOK, CallPaid
<1>1. MostRetries \in Nat /\ PerUrl = 1 + MostRetries /\ Urls \in Nat /\ MostHops \in {1, 2, 4}
  BY RetryFacts, HopFacts, UpstreamCallAssumption DEF PerUrl
<1>2. /\ behind \in Nat /\ behind * MostHops \in Nat /\ MostFetches \in Nat
      /\ behind * MostHops + MostHops <= MostFetches
  BY <1>0, Affordable DEF Behind
<1>h. MostFetches' = MostFetches /\ MostHops' = MostHops
  BY DEF MostFetches, MostHops
<1>p. ASSUME call.phase = "fetching"
      PROVE  sent <= behind * MostHops + MostHops
  BY <1>p, <1>0, <1>1, <1>2 DEF CallPaid
<1>3. ASSUME NEW s \in Statuses, call.phase = "fetching", MayRetry(s), Retry(s)
      PROVE  call' \in CallType /\ sent' \in Nat /\ CallPaid'
  <2>1. /\ call' = [call EXCEPT !.phase = "waiting", !.used = @ + 1] /\ sent' = sent
        /\ call.used + 1 \in 0..MostRetries /\ sent <= MostFetches
    BY <1>0, <1>1, <1>3, RetryFacts DEF MayRetry, Retry, CallPaid
  <2>2. /\ call'.phase = "waiting" /\ call'.used = call.used + 1 /\ call'.url = call.url
        /\ call' \in CallType
    <3>1. call.used + 1 \in Nat
      BY <2>1, <1>1
    <3> QED
      BY <2>1, <3>1, <1>0 DEF CallType
  <2>3. Behind(call') = behind + 1
    <3> DEFINE before == (call.url - 1) * PerUrl
    <3>1. before \in Int
      BY <1>0, <1>1
    <3>2. Behind(call') = before + (call.used + 1) /\ behind = before + call.used
      BY <2>2 DEF Behind
    <3> HIDE DEF before, behind
    <3> QED
      BY <3>1, <3>2, <1>0
  <2>4. sent' <= Behind(call') * MostHops
    <3> DEFINE next == Behind(call')
    <3> HIDE DEF next, behind
    <3>1. next \in Nat /\ behind + 1 <= next
      BY <2>3, <1>2 DEF next
    <3>2. next * MostHops \in Nat /\ behind * MostHops + MostHops <= next * MostHops
      BY <3>1, <1>2, HopsAddUp
    <3>3. sent <= next * MostHops
      BY <3>2, <1>p, <1>0, <1>1, <1>2, <1>3
    <3> QED
      BY <2>1, <3>3 DEF next
  <2> QED
    BY <2>1, <2>2, <2>4, <1>h, <1>0 DEF CallPaid
<1>4. ASSUME call.phase = "fetching", call.url < Urls, NextUrl
      PROVE  call' \in CallType /\ sent' \in Nat /\ CallPaid'
  <2> DEFINE next == [call EXCEPT !.url = @ + 1, !.used = 0]
  <2>1. next \in CallType /\ next.url = call.url + 1 /\ next.used = 0
    <3>1. call.url + 1 \in Nat
      BY <1>0
    <3> QED
      BY <3>1, <1>0 DEF CallType
  <2>2. next.url \in 1..Urls /\ next.used \in 0..MostRetries
    BY <2>1, <1>0, <1>1, <1>4
  <2>3. Behind(next) = call.url * PerUrl /\ Behind(next) \in Nat /\ behind + 1 <= Behind(next)
    <3>1. (call.url + 1) - 1 = call.url
      BY <1>0
    <3>2. Behind(next) = call.url * PerUrl + 0
      BY <2>1, <3>1 DEF Behind
    <3>3. call.url * PerUrl \in Nat /\ behind + 1 <= call.url * PerUrl
      BY <1>0, UrlsAddUp DEF Behind
    <3> QED
      BY <3>2, <3>3
  <2>4. sent <= Behind(next) * MostHops
    <3> HIDE DEF next, behind
    <3> QED
      BY <2>3, <1>0, <1>1, <1>2, <1>p, <1>4, HopsAddUp
  <2>5. Fetch(next)
    BY <1>4 DEF NextUrl
  <2> HIDE DEF next
  <2> QED
    BY <2>1, <2>2, <2>4, <2>5, <1>0, FetchPaid
<1>5. ASSUME NEW r \in {"answer", "failed", "thrown", "aborted"}, EndCall(r)
      PROVE  call' \in CallType /\ sent' \in Nat /\ CallPaid'
  <2>1. call' \in CallType /\ call'.phase = "done" /\ sent' = sent
    BY <1>5 DEF EndCall, NoCall, CallType
  <2> QED
    BY <2>1, <1>h, <1>0 DEF CallPaid
<1>6. ASSUME WaitOver
      PROVE  call' \in CallType /\ sent' \in Nat /\ CallPaid'
  <2>1. Fetch(call) /\ sent <= Behind(call) * MostHops
    BY <1>6 DEF WaitOver, CallPaid
  <2> QED
    BY <2>1, <1>0, FetchPaid
<1>7. ASSUME call.phase = "fetching", HopFails
      PROVE  call' \in CallType /\ sent' \in Nat /\ CallPaid'
  <2>1. CASE FetchFails
    <3>1. 502 \in Statuses
      BY UpstreamCallAssumption
    <3> QED
      BY <2>1, <3>1, <1>3, <1>4, <1>5, <1>7 DEF FetchFails
  <2>2. CASE call.hop < Len(Hops(call.url)) /\ Send([call EXCEPT !.hop = @ + 1])
    <3>1. call.hop \in 1..MostHops /\ call.hop + 1 \in 1..MostHops
      <4>1. Len(Hops(call.url)) \in 1..MostHops /\ call.hop \in 1..MostHops
        BY <1>0, <1>7, HopFacts DEF CallPaid
      <4> QED
        BY <2>2, <4>1, <1>1
    <3>2. /\ call' = [call EXCEPT !.hop = @ + 1] /\ sent' \in {sent, sent + 1}
          /\ sent <= behind * MostHops + call.hop
      BY <2>2, <1>7 DEF Send, CallPaid
    <3>3. /\ call' \in CallType /\ call'.phase = "fetching" /\ call'.hop = call.hop + 1
          /\ call'.url = call.url /\ call'.used = call.used
      <4>1. call.hop + 1 \in Nat
        BY <3>1, <1>1
      <4> QED
        BY <3>2, <4>1, <1>0, <1>7 DEF CallType
    <3>4. Behind(call') = behind
      BY <3>3 DEF Behind
    <3>5. sent' \in Nat /\ sent' <= behind * MostHops + call'.hop /\ sent' <= MostFetches
      BY <3>1, <3>2, <3>3, <1>0, <1>1, <1>2
    <3> QED
      BY <3>1, <3>3, <3>4, <3>5, <1>0, <1>h DEF CallPaid
  <2> QED
    BY <2>1, <2>2, <1>7 DEF HopFails
<1>8. ASSUME NEW s \in Statuses, Respond(s)
      PROVE  call' \in CallType /\ sent' \in Nat /\ CallPaid'
  BY <1>3, <1>4, <1>5, <1>8 DEF Respond, Listening
<1>9. ASSUME ConnectTimeout
      PROVE  call' \in CallType /\ sent' \in Nat /\ CallPaid'
  <2>1. call' = [call EXCEPT !.timedOut = TRUE] /\ sent' = sent /\ call.phase = "fetching"
    BY <1>9 DEF ConnectTimeout, Listening
  <2>2. /\ call' \in CallType /\ call'.phase = "fetching" /\ call'.hop = call.hop
        /\ call'.url = call.url /\ call'.used = call.used
    BY <2>1, <1>0 DEF CallType
  <2>3. Behind(call') = behind
    BY <2>2 DEF Behind
  <2> QED
    BY <2>1, <2>2, <2>3, <1>0, <1>h DEF CallPaid
<1> QED
  BY <1>6, <1>7, <1>8, <1>9 DEF CallStep, NetworkError, Cut, Listening

-----------------------------------------------------------------------------
(* Events.                                                                 *)

\* How severe each reason is.
LEMMA Severities ==
    /\ Severity("refusal") = 6
    /\ Severity("cancelled") = 5 /\ Severity("context_window") = 5
    /\ Severity("other") = 4 /\ Severity("malformed") = 3 /\ Severity("max_tokens") = 2
    /\ Severity("end_turn") = 1 /\ Severity("tool_use") = 1
BY DEF Severity, Disposition

\* Declaring a reason keeps a turn's type, and the more severe reason of the two.
LEMMA DeclareFacts ==
    ASSUME NEW t \in TurnType, WorstOf(t), NEW r \in Reasons
    PROVE  Declare(t, r) \in TurnType /\ WorstOf(Declare(t, r))
<1> DEFINE u == Declare(t, r)
           kept == Merged(t.reason, r)
<1>1. \A x \in Reasons : Severity(x) \in Int
  BY Severities DEF Reasons
<1>2. /\ t.reason \in Reasons \union {"none"} /\ t.declared \in SUBSET Reasons
  BY DEF TurnType
<1>3. kept \in {t.reason, r} /\ kept \in Reasons
  <2>1. "none" \notin Reasons
    BY DEF Reasons
  <2> QED
    BY <1>2, <2>1 DEF Merged
<1>4. u.reason = kept /\ u.declared = t.declared \union {r} /\ u \in TurnType
  <2>1. u = [t EXCEPT !.explicitStop = TRUE, !.reason = kept,
                      !.declared = t.declared \union {r}]
    BY DEF Declare, TurnType
  <2>2. t.declared \union {r} \in SUBSET Reasons
    BY <1>2
  <2> QED
    BY <1>3, <2>1, <2>2 DEF TurnType
<1>5. kept \in u.declared
  <2>1. CASE t.declared = {}
    BY <2>1, <1>4 DEF WorstOf, Merged
  <2>2. CASE t.declared # {}
    BY <2>2, <1>3, <1>4 DEF WorstOf
  <2> QED
    BY <2>1, <2>2
<1>6. ASSUME NEW d \in u.declared PROVE Severity(d) <= Severity(kept)
  <2>1. CASE t.declared = {}
    BY <2>1, <1>1, <1>4, <1>6 DEF WorstOf, Merged
  <2>2. CASE t.declared # {}
    <3>1. t.reason \in Reasons /\ t.reason # "none" /\ d \in Reasons
      BY <2>2, <1>2, <1>4, <1>6 DEF WorstOf, Reasons
    <3>2. /\ Severity(t.reason) <= Severity(kept) /\ Severity(r) <= Severity(kept)
          /\ Severity(t.reason) \in Int /\ Severity(r) \in Int /\ Severity(kept) \in Int
          /\ Severity(d) \in Int
      BY <3>1, <1>1, <1>3 DEF Merged
    <3>3. d = r \/ Severity(d) <= Severity(t.reason)
      BY <2>2, <1>4, <1>6 DEF WorstOf
    <3> QED
      BY <3>2, <3>3
  <2> QED
    BY <2>1, <2>2
<1> QED
  BY <1>4, <1>5, <1>6 DEF WorstOf

\* Any event keeps a turn's type and its worst reason, and does not end it.
LEMMA EventFacts ==
    ASSUME NEW t \in TurnType, WorstOf(t), NEW e \in Events(t)
    PROVE  e \in TurnType /\ WorstOf(e)
<1>1. CASE e \in TextEvents(t)
  <2>1. CASE e = [t EXCEPT !.chunks = @ \/ t.reasoning = ""]
    <3>1. /\ e = [t EXCEPT !.chunks = (t.chunks \/ t.reasoning = "")]
          /\ (t.chunks \/ t.reasoning = "") \in BOOLEAN
      BY <2>1, Zenon DEF TurnType
    <3> QED
      BY <3>1 DEF TurnType, WorstOf
  <2>2. CASE \E text \in Texts : e = [t EXCEPT !.text = text, !.chunks = TRUE]
    BY <2>2 DEF TurnType, WorstOf
  <2> QED
    BY <1>1, <2>1, <2>2 DEF TextEvents, Texts
<1>2. CASE e \in ReasoningEvents(t)
  <2>1. \E r \in Texts : e = [t EXCEPT !.chunks = TRUE, !.reasoning = r]
    BY <1>2 DEF ReasoningEvents, Texts
  <2> QED
    BY <2>1 DEF TurnType, WorstOf
<1>3. CASE e \in ToolEvents(t)
  <2>1. CASE e = Rejected(t)
    BY <2>1 DEF Rejected, TurnType, WorstOf
  <2>2. ASSUME NEW id \in Tools, NEW usable \in BOOLEAN, e = Fragment(t, id, usable)
        PROVE  e \in TurnType /\ WorstOf(e)
    <3> DEFINE table == [i \in DOMAIN t.tools \union {id} |->
                            IF i = id THEN usable ELSE t.tools[i]]
    <3>1. table \in ToolTables
      <4>1. PICK D \in SUBSET Tools : t.tools \in [D -> BOOLEAN]
        BY DEF TurnType, ToolTables
      <4>2. DOMAIN t.tools = D /\ D \union {id} \in SUBSET Tools
        BY <4>1
      <4>3. table \in [D \union {id} -> BOOLEAN]
        BY <4>1, <4>2, Zenon
      <4> QED
        BY <4>2, <4>3 DEF ToolTables
    <3>2. e = [t EXCEPT !.sawToolUse = TRUE, !.tools = table]
      BY <2>2 DEF Fragment, TurnType
    <3> HIDE DEF table
    <3> QED
      BY <3>1, <3>2 DEF TurnType, WorstOf
  <2>3. \/ e = Rejected(t)
        \/ \E id \in Tools, usable \in BOOLEAN : e = Fragment(t, id, usable)
    BY <1>3 DEF ToolEvents
  <2> QED
    BY <2>1, <2>2, <2>3
<1>4. CASE e \in StopEvents(t)
  <2>1. \E r \in Reasons : e = Declare(t, r)
    BY <1>4 DEF StopEvents, Reasons
  <2> QED
    BY <2>1, DeclareFacts
<1> QED
  BY <1>1, <1>2, <1>3, <1>4 DEF Events

-----------------------------------------------------------------------------
(* What a finished turn says of itself.                                    *)

\* A turn that is judged complete kept no reason that would have failed it; one cut
\* short is never told as a plain stop.
LEMMA CompleteFacts ==
    ASSUME NEW t \in TurnType, CleanKind(t) = "complete"
    PROVE  /\ t.reason \in {"none", "end_turn", "tool_use", "max_tokens", "context_window"}
           /\ t.reason \in Truncations => FinishReason(t) # "stop"
<1>1. t.reason \in Reasons \union {"none"}
  BY DEF TurnType
<1>2. Truncated(t, t.chunks) \/ Disposition(t.reason, t.sawToolUse) \notin Failures
  BY DEF CleanKind
<1>3. CASE Truncated(t, t.chunks)
  <2>1. t.reason \in Truncations /\ t.chunks
    BY <1>3 DEF Truncated
  <2>2. Truncated(t, t.chunks \/ UsableTools(t) # {})
    BY <1>3, Zenon DEF Truncated
  <2> QED
    BY <2>1, <2>2 DEF FinishReason, Truncations
<1>4. CASE Disposition(t.reason, t.sawToolUse) \notin Failures
  <2>1. t.reason \notin {"malformed", "cancelled", "context_window", "refusal", "other"}
    BY <1>4 DEF Disposition, Failures
  <2>2. ASSUME t.reason = "max_tokens" PROVE FinishReason(t) # "stop"
    BY <2>2 DEF FinishReason
  <2> QED
    BY <1>1, <2>1, <2>2 DEF Reasons, Truncations
<1> QED
  BY <1>2, <1>3, <1>4

\* What the provider declared shows in the reason that was kept.
LEMMA DeclaredShows ==
    ASSUME NEW t \in TurnType, WorstOf(t)
    PROVE  /\ "refusal" \in t.declared => t.reason = "refusal"
           /\ "cancelled" \in t.declared => t.reason \in {"refusal", "cancelled", "context_window"}
           /\ t.declared \cap {"malformed", "other"} # {} =>
                 t.reason \in {"refusal", "cancelled", "context_window", "other", "malformed"}
           /\ t.declared \cap Truncations # {} =>
                 t.reason \notin {"none", "end_turn", "tool_use"}
           /\ t.reason # "none" => t.reason \in t.declared
<1>1. /\ t.declared \in SUBSET Reasons
      /\ t.reason \in Reasons \union {"none"}
  BY DEF TurnType
<1>2. \A d \in t.declared : /\ t.reason \in t.declared /\ t.reason \in Reasons
                            /\ Severity(d) <= Severity(t.reason)
  BY <1>1 DEF WorstOf
<1>3. "none" \notin Reasons
  BY DEF Reasons
<1>4. t.reason # "none" => t.reason \in t.declared
  BY DEF WorstOf
<1>5. "refusal" \in t.declared => t.reason = "refusal"
  BY <1>2, Severities DEF Reasons
<1>6. "cancelled" \in t.declared => t.reason \in {"refusal", "cancelled", "context_window"}
  BY <1>2, Severities DEF Reasons
<1>7. t.declared \cap {"malformed", "other"} # {} =>
         t.reason \in {"refusal", "cancelled", "context_window", "other", "malformed"}
  BY <1>2, Severities DEF Reasons
<1>8. t.declared \cap Truncations # {} => t.reason \notin {"none", "end_turn", "tool_use"}
  BY <1>2, <1>3, Severities DEF Reasons, Truncations
<1> QED
  BY <1>4, <1>5, <1>6, <1>7, <1>8

\* A turn that only ended well, with a usable call or text that says something, is
\* judged complete.
LEMMA GoodIsComplete ==
    ASSUME NEW t \in TurnType, WorstOf(t), t.declared \subseteq {"end_turn", "tool_use"},
           UsableTools(t) # {} \/ t.text = "full"
    PROVE  CleanKind(t) = "complete"
<1>1. t.reason \in {"none", "end_turn", "tool_use"}
  BY DEF WorstOf
<1>2. Disposition(t.reason, t.sawToolUse) \notin Failures
  BY <1>1 DEF Disposition, Failures
<1>3. ~ToolsFail(t)
  BY DEF ToolsFail, HasText
<1>4. CASE UsableTools(t) # {}
  BY <1>2, <1>3, <1>4 DEF CleanKind
<1>5. CASE UsableTools(t) = {} /\ t.text = "full"
  BY <1>2, <1>3, <1>5 DEF CleanKind, HasText
<1> QED
  BY <1>4, <1>5

-----------------------------------------------------------------------------
(* Every step keeps the invariants.                                        *)

LEMMA NewTurnFacts == NewTurn \in TurnType /\ WorstOf(NewTurn)
<1>1. <<>> \in ToolTables
  <2>1. <<>> \in [{} -> BOOLEAN]
    OBVIOUS
  <2> QED
    BY <2>1 DEF ToolTables
<1>2. NewTurn \in TurnType
  BY <1>1 DEF NewTurn, TurnType, Texts
<1> QED
  BY <1>2 DEF NewTurn, WorstOf

LEMMA NoCallFacts == NoCall \in CallType /\ NoCall.phase = "none"
BY DEF NoCall, CallType

LEMMA NotToldYet ==
    /\ told = Nothing => AnswerOfTurn
    /\ told' = Nothing => AnswerOfTurn'
<1>1. Nothing.kind # "answer"
  BY DEF Nothing
<1> QED
  BY <1>1 DEF AnswerOfTurn

\* A call's first request is paid for.
LEMMA FirstPaid ==
    ASSUME NEW c, c = [NoCall EXCEPT !.phase = "fetching", !.url = 1, !.hop = 1]
    PROVE  /\ c \in CallType /\ c.phase = "fetching" /\ c.url \in 1..Urls
           /\ c.used \in 0..MostRetries /\ c.hop \in 1..MostHops
           /\ 1 <= Behind(c) * MostHops + c.hop /\ 1 <= MostFetches /\ MostFetches \in Nat
<1>1. c \in CallType /\ c.phase = "fetching" /\ c.url = 1 /\ c.used = 0 /\ c.hop = 1
  BY DEF NoCall, CallType
<1>2. MostRetries \in Nat /\ Urls \in Nat \ {0} /\ MostHops \in {1, 2, 4}
  BY RetryFacts, HopFacts, UpstreamCallAssumption
<1>3. c.url \in 1..Urls /\ c.used \in 0..MostRetries /\ c.hop \in 1..MostHops
  BY <1>1, <1>2
<1>4. /\ Behind(c) * MostHops \in Nat /\ MostFetches \in Nat
      /\ Behind(c) * MostHops + MostHops <= MostFetches
  BY <1>3, Affordable DEF Behind
<1> QED
  BY <1>1, <1>2, <1>3, <1>4

LEMMA InitInv == Init => KiroInv
<1> SUFFICES ASSUME Init PROVE KiroInv
  OBVIOUS
<1>1. /\ call = [NoCall EXCEPT !.phase = "fetching", !.url = 1, !.hop = 1] /\ sent = 1
  BY DEF Init
<1>2. CallPaid /\ call \in CallType
  BY <1>1, FirstPaid DEF CallPaid
<1>3. TypeOK
  BY <1>1, <1>2, NewTurnFacts DEF Init, TypeOK
<1>4. TwoAttempts /\ AnswerOfTurn /\ WorstOf(turn)
  BY NewTurnFacts, NotToldYet DEF Init, TwoAttempts
<1> QED
  BY <1>2, <1>3, <1>4 DEF KiroInv

\* A call that is begun, left alone, or forgotten keeps its account.
LEMMA FreshCall ==
    ASSUME TypeOK, CallPaid,
           \/ StartCall \/ UNCHANGED <<call, sent>> \/ (call' = NoCall /\ sent' = 0)
    PROVE  call' \in CallType /\ sent' \in Nat /\ CallPaid'
<1>0. MostFetches' = MostFetches /\ MostHops' = MostHops
  BY DEF MostFetches, MostHops
<1>1. CASE call' = NoCall /\ sent' = 0
  <2>1. MostFetches \in Nat
    BY FirstPaid
  <2> QED
    BY <1>0, <1>1, <2>1, NoCallFacts DEF CallPaid
<1>2. CASE UNCHANGED <<call, sent>>
  BY <1>0, <1>2 DEF CallPaid, TypeOK, Behind
<1>3. CASE StartCall
  <2>1. call' = [NoCall EXCEPT !.phase = "fetching", !.url = 1, !.hop = 1] /\ sent' = 1
    BY <1>3 DEF StartCall
  <2> QED
    BY <1>0, <2>1, FirstPaid DEF CallPaid
<1> QED
  BY <1>1, <1>2, <1>3

LEMMA StepInv == KiroInv /\ [Next]_vars => KiroInv'
<1> SUFFICES ASSUME KiroInv, [Next]_vars PROVE KiroInv'
  OBVIOUS
<1> USE DEF KiroInv
<1>1. CASE Calling
  <2>1. CallStep /\ UNCHANGED <<phase, repairs, attempt, turn, told>>
    BY <1>1 DEF Calling
  <2>2. signal' = signal
    BY <2>1 DEF CallStep, Respond, NetworkError, ConnectTimeout, Cut, HopFails, WaitOver
  <2>3. call' \in CallType /\ sent' \in Nat /\ CallPaid'
    BY <2>1, CallStepPaid
  <2>4. TypeOK' /\ TwoAttempts'
    BY <2>1, <2>2, <2>3 DEF TypeOK, TwoAttempts
  <2>5. WorstOf(turn)' /\ AnswerOfTurn'
    BY <2>1 DEF AnswerOfTurn, WorstOf, CleanKind, Answer
  <2> QED
    BY <2>3, <2>4, <2>5
<1>2. CASE Called
  <2>1. call' \in CallType /\ sent' \in Nat /\ CallPaid'
    BY <1>2, FreshCall DEF Called
  <2>2. TypeOK' /\ TwoAttempts' /\ turn' = turn
    BY <1>2, <2>1 DEF Called, Over, TypeOK, TwoAttempts
  <2>3. AnswerOfTurn'
    <3>1. CASE phase' = "reading" /\ told' = told
      <4>1. told = Nothing
        BY <1>2 DEF Called, AnswerOfTurn
      <4> QED
        BY <3>1, <4>1, NotToldYet
    <3>2. CASE told' = [Nothing EXCEPT !.kind = Outcome] /\ phase' = "over"
      <4>1. Outcome # "answer"
        BY DEF Outcome
      <4> QED
        BY <3>2, <4>1 DEF Nothing, AnswerOfTurn
    <3> QED
      BY <1>2, <3>1, <3>2 DEF Called, Over
  <2> QED
    BY <2>1, <2>2, <2>3
<1>3. CASE Read
  <2>1. PICK t \in Events(turn) : turn' = [t EXCEPT !.events = @ + 1]
    BY <1>3 DEF Read
  <2>2. t \in TurnType /\ WorstOf(t)
    BY EventFacts DEF TypeOK
  <2>3. turn' \in TurnType /\ WorstOf(turn)'
    BY <2>1, <2>2 DEF TurnType, WorstOf
  <2>4. call' \in CallType /\ sent' \in Nat /\ CallPaid'
    BY <1>3, FreshCall DEF Read, callVars
  <2>5. TypeOK' /\ TwoAttempts'
    BY <1>3, <2>3, <2>4 DEF Read, callVars, TypeOK, TwoAttempts
  <2>6. AnswerOfTurn'
    BY <1>3 DEF Read, AnswerOfTurn, Nothing
  <2> QED
    BY <2>3, <2>4, <2>5, <2>6
<1>4. ASSUME NEW how \in {"clean", "error", "oversize", "broken"}, End(how) PROVE KiroInv'
  <2>1. turn' \in TurnType /\ WorstOf(turn)'
    BY <1>4 DEF End, TypeOK, TurnType, WorstOf
  <2>2. call' \in CallType /\ sent' \in Nat /\ CallPaid'
    BY <1>4, FreshCall DEF End, callVars
  <2>3. TypeOK' /\ TwoAttempts'
    BY <1>4, <2>1, <2>2 DEF End, callVars, TypeOK, TwoAttempts
  <2>4. AnswerOfTurn'
    BY <1>4 DEF End, AnswerOfTurn, Nothing
  <2> QED
    BY <2>1, <2>2, <2>3, <2>4
<1>5. CASE Judge
  <2>1. call' \in CallType /\ sent' \in Nat /\ CallPaid'
    BY <1>5, FreshCall DEF Judge, callVars
  <2>2. turn' \in {turn, NewTurn} /\ WorstOf(turn)'
    BY <1>5, NewTurnFacts DEF Judge, Over, WorstOf
  <2>3. TypeOK' /\ TwoAttempts'
    BY <1>5, <2>1, <2>2, NewTurnFacts DEF Judge, Over, callVars, StartCall, TypeOK, TwoAttempts
  <2>4. AnswerOfTurn'
    <3>1. CASE Kind = "complete" /\ Over(Answer(turn))
      <4>1. turn.ended = "clean"
        BY <1>5, <3>1 DEF Judge, Kind, TypeOK, TurnType
      <4>2. CleanKind(turn) = "complete"
        BY <3>1, <4>1 DEF Kind
      <4>3. turn' = turn /\ phase' = "over" /\ told' = Answer(turn)
        BY <3>1 DEF Over
      <4> QED
        BY <4>1, <4>2, <4>3 DEF AnswerOfTurn
    <3>2. CASE Over(Error)
      BY <3>2 DEF Over, Error, Nothing, AnswerOfTurn
    <3>3. CASE told' = told
      <4>1. told = Nothing
        BY <1>5 DEF Judge, AnswerOfTurn
      <4> QED
        BY <3>3, <4>1, NotToldYet
    <3> QED
      BY <1>5, <3>1, <3>2, <3>3 DEF Judge
  <2> QED
    BY <2>1, <2>2, <2>3, <2>4
<1>6. CASE ReadAborted
  <2>1. call' \in CallType /\ sent' \in Nat /\ CallPaid'
    BY <1>6, FreshCall DEF ReadAborted, callVars
  <2>2. TypeOK' /\ TwoAttempts' /\ WorstOf(turn)'
    BY <1>6, <2>1 DEF ReadAborted, Over, callVars, TypeOK, TwoAttempts, WorstOf
  <2>3. AnswerOfTurn'
    BY <1>6 DEF ReadAborted, Over, Nothing, AnswerOfTurn
  <2> QED
    BY <2>1, <2>2, <2>3
<1>7. CASE ClientLeaves
  <2>1. UNCHANGED <<call, sent, phase, repairs, attempt, turn, told>>
        /\ signal' \in {"aborted", "cancelled"}
    BY <1>7 DEF ClientLeaves, Abort
  <2>2. call' \in CallType /\ sent' \in Nat /\ CallPaid'
    BY <2>1, FreshCall
  <2>3. TypeOK' /\ TwoAttempts'
    BY <2>1, <2>2 DEF TypeOK, TwoAttempts
  <2>4. WorstOf(turn)' /\ AnswerOfTurn'
    BY <2>1 DEF AnswerOfTurn, WorstOf
  <2> QED
    BY <2>2, <2>3, <2>4
<1>8. CASE UNCHANGED vars
  <2>1. UNCHANGED <<call, sent, signal, phase, repairs, attempt, turn, told>>
    BY <1>8 DEF vars, callVars
  <2>2. call' \in CallType /\ sent' \in Nat /\ CallPaid'
    BY <2>1, FreshCall
  <2>3. TypeOK' /\ TwoAttempts'
    BY <2>1, <2>2 DEF TypeOK, TwoAttempts
  <2>4. WorstOf(turn)' /\ AnswerOfTurn'
    BY <2>1 DEF AnswerOfTurn, WorstOf
  <2> QED
    BY <2>2, <2>3, <2>4
<1> QED
  BY <1>1, <1>2, <1>3, <1>4, <1>5, <1>6, <1>7, <1>8
     DEF Next, Finish, UpstreamError, Oversize, Break, Stall

-----------------------------------------------------------------------------
(* The theorems.                                                           *)

LEMMA Invariance == Spec => []KiroInv
<1>1. KiroInv /\ [Next]_vars => KiroInv'
  BY StepInv
<1> QED
  BY <1>1, InitInv, PTL DEF Spec

\* The variables of a turn always have their types (the call's state of
\* BaseExecutor.execute, the state of transformEventStreamToSSE).
THEOREM TypeCorrect == Spec => []TypeOK
<1>1. KiroInv => TypeOK
  BY DEF KiroInv
<1> QED
  BY <1>1, Invariance, PTL

\* Whatever statuses, timeouts, aborts and fallbacks execute meets, neither of the two
\* calls of a turn sends more requests than its URLs and its largest retry count allow.
THEOREM RequestsAreBounded == Spec => []CallsBounded
<1>1. KiroInv => CallsBounded
  BY DEF KiroInv, CallPaid, TwoAttempts, CallsBounded
<1> QED
  BY <1>1, Invariance, PTL

\* What attachIntegrityGate passes on as an answer is one whole attempt that the
\* provider neither refused nor abandoned, told as cut short when its context ran out.
THEOREM AnswersAreHonest == Spec => []AnswerIsHonest
<1>1. KiroInv => AnswerIsHonest
  <2> SUFFICES ASSUME KiroInv, told.kind = "answer"
               PROVE  /\ told.tools = UsableTools(turn)
                      /\ told.finish = "tool_calls" => told.tools # {}
                      /\ told.finish = "stop" =>
                            told.tools = {} /\ turn.declared \cap Truncations = {}
                      /\ "refusal" \notin turn.declared
                      /\ turn.declared \cap {"malformed", "other"} # {}
                            => "context_window" \in turn.declared
    BY DEF AnswerIsHonest
  <2>1. /\ turn \in TurnType /\ WorstOf(turn) /\ CleanKind(turn) = "complete"
        /\ told = Answer(turn)
    BY DEF KiroInv, TypeOK, AnswerOfTurn
  <2>2. told.tools = UsableTools(turn) /\ told.finish = FinishReason(turn)
    BY <2>1 DEF Answer
  <2>3. /\ FinishReason(turn) = "tool_calls" => UsableTools(turn) # {}
        /\ FinishReason(turn) = "stop" => UsableTools(turn) = {}
    BY DEF FinishReason
  <2>4. /\ turn.reason \in {"none", "end_turn", "tool_use", "max_tokens", "context_window"}
        /\ turn.reason \in Truncations => FinishReason(turn) # "stop"
    BY <2>1, CompleteFacts
  <2>5. "refusal" \notin turn.declared
    BY <2>1, <2>4, DeclaredShows
  <2>6. ASSUME turn.declared \cap {"malformed", "other"} # {}
        PROVE  "context_window" \in turn.declared
    <3>1. turn.reason = "context_window"
      BY <2>1, <2>4, <2>6, DeclaredShows
    <3> QED
      BY <2>1, <3>1, DeclaredShows
  <2>7. ASSUME FinishReason(turn) = "stop"
        PROVE  turn.declared \cap Truncations = {}
    <3>1. turn.reason \in {"none", "end_turn", "tool_use"}
      BY <2>4, <2>7 DEF Truncations
    <3> QED
      BY <2>1, <3>1, DeclaredShows
  <2> QED
    BY <2>2, <2>3, <2>5, <2>6, <2>7
<1> QED
  BY <1>1, Invariance, PTL

\* runIntegrityRecovery neither loses nor asks again for a turn that ended well with a
\* usable call or with text that says something.
THEOREM GoodTurnsAreTold == Spec => UsableIsTold
<1>1. ASSUME KiroInv, [Next]_vars
      PROVE  [/\ phase = "reading" /\ phase' # "reading" /\ signal = "live"
              /\ turn.ended = "clean" /\ turn.declared \subseteq {"end_turn", "tool_use"}
              /\ UsableTools(turn) # {} \/ turn.text = "full"
              => told'.kind = "answer"]_vars
  <2> SUFFICES ASSUME Next, phase = "reading", phase' # "reading", signal = "live",
                      turn.ended = "clean", turn.declared \subseteq {"end_turn", "tool_use"},
                      UsableTools(turn) # {} \/ turn.text = "full"
               PROVE  told'.kind = "answer"
    BY <1>1
  <2>1. Judge
    BY DEF Next, Calling, Called, Read, Finish, UpstreamError, Oversize, Break, Stall, End,
           ReadAborted, ClientLeaves
  <2>2. Kind = "complete"
    <3>1. CleanKind(turn) = "complete"
      BY <1>1, GoodIsComplete DEF KiroInv, TypeOK
    <3> QED
      BY <3>1 DEF Kind
  <2>3. told' = Answer(turn)
    BY <2>1, <2>2 DEF Judge, Over
  <2> QED
    BY <2>3 DEF Answer
<1> QED
  BY <1>1, Invariance, PTL DEF Spec, UsableIsTold

=============================================================================

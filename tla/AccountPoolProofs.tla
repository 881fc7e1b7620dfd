-------------------------- MODULE AccountPoolProofs --------------------------
(***************************************************************************)
(* Proofs about AccountPool for every number of connections, models and    *)
(* concurrent requests and every cooldown configuration.                   *)
(***************************************************************************)
EXTENDS AccountPool, WellFoundedInduction, SequenceTheorems, TLAPS

\* The least element of a nonempty set of naturals exists: the retryAfter of a
\* rate-limited answer is one of the expiries it was computed from.
LEMMA LeastOfNat ==
  ASSUME NEW S \in SUBSET Nat, S # {}
  PROVE  Least(S) \in S /\ \A y \in S : Least(S) <= y
<1>1. PICK x \in S : \A y \in S : ~ (<<y, x>> \in OpToRel(<, Nat))
  BY WFMin, NatLessThanWellFounded, Zenon
<1>2. ASSUME NEW y \in S, y < x PROVE FALSE
  <2>1. <<y, x>> \in OpToRel(<, Nat)
    BY <1>2 DEF OpToRel
  <2> QED BY <1>1, <2>1
<1>3. \A y \in S : x <= y
  BY <1>2
<1> QED BY <1>3 DEF Least

\* Every cooldown is a natural number.
LEMMA VerdictType ==
  ASSUME NEW f, f.kind \in FailureKind, f.seenLevel \in Nat, f.resetsAt \in Nat,
         NEW t \in Nat
  PROVE  Verdict(f, t).cooldown \in Nat /\ Verdict(f, t).level \in Nat
<1> USE ConstantsAssumption
<1>1. \A a : \A b \in Nat : MinOf(a, b) \in Nat
  BY DEF MinOf
<1>2. MonthlyReset(t) \in Nat /\ MonthlyReset(t) > t
  BY DEF MonthlyReset
<1>3. \A level : GetQuotaCooldown(level) \in Nat
  BY <1>1 DEF GetQuotaCooldown
<1>4. /\ BackoffVerdict(f.seenLevel).cooldown \in Nat
      /\ BackoffVerdict(f.seenLevel).level \in Nat
  BY <1>1, <1>3 DEF BackoffVerdict
<1>5. CASE f.kind = "monthly"
  BY <1>2, <1>5 DEF Verdict
<1>6. CASE f.kind = "precise" /\ f.resetsAt > t
  BY <1>1, <1>6 DEF Verdict, ReportedCooldown
<1>7. CASE f.kind = "fixed"
  BY <1>7 DEF Verdict
<1>8. CASE f.kind \in {"client", "backoff"} \/ (f.kind = "precise" /\ ~(f.resetsAt > t))
  BY <1>4, <1>8 DEF Verdict
<1> QED BY <1>5, <1>6, <1>7, <1>8 DEF FailureKind

LEMMA FreshRowType == FreshRow \in Row /\ NullLocks \in [Key -> Nat]
  BY DEF FreshRow, Row, NullLocks, Status

LEMMA ActivatedType ==
  ASSUME NEW row \in Row
  PROVE  Activated(row) \in Row
  BY FreshRowType DEF Activated, Row, Status

LEMMA MarkedType ==
  ASSUME NEW row \in Row, NEW m \in Key, NEW t \in Nat,
         NEW f, f.kind \in FailureKind, f.seenLevel \in Nat, f.resetsAt \in Nat
  PROVE  Marked(row, f, m, t) \in Row
<1>1. LockKey(f, m) \in Key
  BY DEF LockKey, Key
<1>2. t + Verdict(f, t).cooldown \in Nat /\ Verdict(f, t).level \in Nat
  BY VerdictType
<1> DEFINE k == LockKey(f, m)
           u == t + Verdict(f, t).cooldown
           b == Verdict(f, t).level
<1> HIDE DEF k, u, b
<1>3. [row EXCEPT !.keys = @ \cup {k}, !.until[k] = u, !.status = "unavailable",
                  !.backoff = b] \in Row
  BY <1>1, <1>2 DEF Row, Status, k, u, b
<1> QED BY <1>3 DEF Marked, k, u, b

LEMMA ClearedType ==
  ASSUME NEW row \in Row, NEW snap, NEW m, NEW t
  PROVE  ClearAccountError(row, snap, m, t) \in Row
<1> DEFINE ks == KeysToClear(snap, m, t)
           u == [k \in Key |-> IF k \in ks THEN 0 ELSE row.until[k]]
<1> HIDE DEF ks
<1>1. u \in [Key -> Nat]
  BY DEF Row
<1>2. [row EXCEPT !.until = u] \in Row
  BY <1>1 DEF Row
<1>3. [row EXCEPT !.until = [k \in Key |-> IF k \in ks THEN 0 ELSE @[k]]] \in Row
  BY <1>2 DEF Row
<1> QED BY <1>3, ActivatedType DEF ClearAccountError, ks
-----------------------------------------------------------------------------
(* Type correctness. *)

\* The date of a row's next expiry is 0 or still to come.
LEMMA EarliestAhead ==
  ASSUME NEW row \in Row, NEW t \in Nat
  PROVE  /\ EarliestModelLockUntil(row, t) \in Nat
         /\ EarliestModelLockUntil(row, t) # 0 => EarliestModelLockUntil(row, t) > t
<1>1. CASE ActiveLocks(row, t) # {}
  <2> DEFINE S == {row.until[k] : k \in ActiveLocks(row, t)}
  <2>1. S \in SUBSET Nat /\ S # {} /\ \A x \in S : x > t
    BY <1>1 DEF ActiveLocks, Row
  <2>2. Least(S) \in S
    BY <2>1, LeastOfNat
  <2> QED BY <1>1, <2>1, <2>2 DEF EarliestModelLockUntil
<1>2. CASE ActiveLocks(row, t) = {}
  BY <1>2 DEF EarliestModelLockUntil
<1> QED BY <1>1, <1>2

\* What a request gives up with: a date still to come, or none when no row it
\* looked for a date in is locked.
LEMMA GiveUpReplyFacts ==
  ASSUME NEW rows \in [Conn -> Row], NEW ex, NEW locked \in SUBSET Conn, NEW t \in Nat
  PROVE  LET reply == GiveUpReply(rows, ex, locked, t)
         IN  /\ reply \in [kind : AnswerKind, retryAfter : Nat]
             /\ reply.kind = "rateLimited" => reply.retryAfter > t
             /\ reply.kind # "rateLimited" =>
                   \A c \in locked : EarliestModelLockUntil(rows[c], t) = 0
<1> DEFINE E == {EarliestModelLockUntil(rows[c], t) : c \in locked} \ {0}
<1>1. \A c \in Conn : rows[c] \in Row
  OBVIOUS
<1>2. E \in SUBSET Nat /\ \A x \in E : x > t
  BY <1>1, EarliestAhead
<1>3. E # {} => Least(E) \in Nat /\ Least(E) > t
  BY <1>2, LeastOfNat
<1>4. E = {} => \A c \in locked : EarliestModelLockUntil(rows[c], t) = 0
  OBVIOUS
<1>5. GiveUpReply(rows, ex, locked, t) =
        IF E # {} THEN [kind |-> "rateLimited", retryAfter |-> Least(E)]
        ELSE IF ex = {} THEN [kind |-> "notFound", retryAfter |-> 0]
        ELSE [kind |-> "exhausted", retryAfter |-> 0]
  BY DEF GiveUpReply
<1> HIDE DEF E
<1> QED BY <1>3, <1>4, <1>5 DEF AnswerKind

LEMMA InitType == Init => TypeOK
  BY FreshRowType DEF Init, TypeOK, PC, Key, NoFailure, NoAnswer, NoList, NotClearing,
     AnswerKind, ConstantsAssumption

\* While a request calls the upstream or records its failure, it has chosen a
\* connection; what it records is a failure of a known kind.
CallTyped ==
  \A r \in Request :
    /\ pc[r] \in {"calling", "marking"} => chosen[r] # 0
    /\ pc[r] = "marking" => failure[r].kind # "none"

\* Whoever selects, or finds out why it cannot, is at the head of the chain.
HolderAtHead ==
  \A r \in Request :
    pc[r] \in {"selecting", "barred", "dating"} => queue # <<>> /\ r = Head(queue)

TypeInv == TypeOK /\ CallTyped /\ HolderAtHead

LEMMA InitTypeInv == Init => TypeInv
  BY InitType DEF Init, TypeInv, CallTyped, HolderAtHead

\* Joining the mutex chain keeps its head; leaving it shortens a nonempty one.
LEMMA ChainFacts ==
  ASSUME NEW q \in Seq(Request), NEW r \in Request
  PROVE  /\ Append(q, r) \in Seq(Request) /\ Append(q, r) # <<>>
         /\ q # <<>> => /\ Head(Append(q, r)) = Head(q)
                        /\ Tail(q) \in Seq(Request)
  BY AppendProperties, HeadTailProperties, HeadTailAppend

\* Selection is exclusive: requests join the chain at its end, and the holder
\* leaves it in the step that ends its selection.
LEMMA NextHolder ==
  TypeInv /\ [Next]_vars => HolderAtHead'
<1> SUFFICES ASSUME TypeInv, [Next]_vars PROVE HolderAtHead'
  OBVIOUS
<1> USE DEF TypeInv, HolderAtHead, TypeOK
<1>1. ASSUME NEW r \in Request, Arrive(r) \/ MarkUnavailable(r)
      PROVE  HolderAtHead'
  <2>1. queue' = Append(queue, r) /\ pc' = [pc EXCEPT ![r] = "queued"]
    BY <1>1 DEF Arrive, MarkUnavailable
  <2> QED BY <2>1, ChainFacts
<1>2. ASSUME NEW r \in Request, SelectRead(r) PROVE HolderAtHead'
  <2>1. r = Head(queue) /\ queue # <<>> /\ queue' = queue
    BY <1>2 DEF SelectRead, HoldsMutex
  <2>2. \A s \in Request \ {r} : pc'[s] = pc[s]
    BY <1>2 DEF SelectRead
  <2> QED BY <2>1, <2>2
<1>3. ASSUME NEW r \in Request, SelectFinish(r) \/ GiveUp(r) PROVE HolderAtHead'
  <2>1. r = Head(queue) /\ pc[r] \in {"selecting", "dating"}
    BY <1>3 DEF SelectFinish, GiveUp
  <2>2. pc' = [pc EXCEPT ![r] = "calling"] \/ pc' = [pc EXCEPT ![r] = "answered"]
    BY <1>3 DEF SelectFinish, GiveUp, Respond
  <2> QED BY <2>1, <2>2
<1>4. ASSUME NEW r \in Request,
             \/ UpstreamSucceeds(r) \/ UpstreamFails(r)
             \/ ReturnClientError(r) \/ Leave(r) \/ FindLocked(r)
      PROVE  HolderAtHead'
  BY <1>4 DEF UpstreamSucceeds, UpstreamFails, ReturnClientError, Respond, Leave, FindLocked
<1>5. CASE Tick \/ OperatorStep \/ UNCHANGED vars
  BY <1>5 DEF Tick, OperatorStep, TestConnection, ClearCooldownRead,
     ClearCooldownWrite, vars
<1> QED BY <1>1, <1>2, <1>3, <1>4, <1>5 DEF Next, RequestStep, LocalStep, OuterStep

\* The guards that a chosen account and a recorded failure rest on.
LEMMA NextCallTyped == TypeInv /\ [Next]_vars => CallTyped'
<1> SUFFICES ASSUME TypeInv, [Next]_vars PROVE CallTyped'
  OBVIOUS
<1> USE ConstantsAssumption DEF TypeInv, CallTyped, TypeOK
<1>1. CASE Tick
  BY <1>1 DEF Tick, reqVars
<1>2. ASSUME NEW r \in Request, Arrive(r) PROVE CallTyped'
  BY <1>2 DEF Arrive
<1>3. ASSUME NEW r \in Request, SelectRead(r) \/ FindLocked(r) \/ GiveUp(r)
      PROVE  CallTyped'
  BY <1>3 DEF SelectRead, FindLocked, GiveUp, Respond
<1>4. ASSUME NEW r \in Request, SelectFinish(r) PROVE CallTyped'
  <2>1. PICK c \in avail[r] : chosen' = [chosen EXCEPT ![r] = c]
    BY <1>4 DEF SelectFinish
  <2>2. c # 0
    BY DEF Conn
  <2> QED BY <1>4, <2>1, <2>2 DEF SelectFinish
<1>5. ASSUME NEW r \in Request, UpstreamSucceeds(r) PROVE CallTyped'
  BY <1>5 DEF UpstreamSucceeds, Respond, EndCall
<1>6. ASSUME NEW r \in Request, UpstreamFails(r) PROVE CallTyped'
  <2>1. PICK kind \in Failure, resetsAt \in now + 1 .. now + RateLimitCap + 1 :
          failure' = [failure EXCEPT ![r] =
            [kind |-> kind, seenLevel |-> db[chosen[r]].backoff,
             resetsAt |-> IF kind = "precise" THEN resetsAt ELSE 0]]
    BY <1>6 DEF UpstreamFails
  <2>2. kind # "none"
    BY DEF FailureKind
  <2> QED BY <1>6, <2>1, <2>2 DEF UpstreamFails
<1>7. ASSUME NEW r \in Request, ReturnClientError(r) PROVE CallTyped'
  BY <1>7 DEF ReturnClientError, Respond, EndCall
<1>8. ASSUME NEW r \in Request, MarkUnavailable(r) PROVE CallTyped'
  BY <1>8 DEF MarkUnavailable, Excluding, EndCall
<1>9. ASSUME NEW r \in Request, Leave(r) PROVE CallTyped'
  BY <1>9 DEF Leave
<1>10. CASE OperatorStep
  BY <1>10 DEF OperatorStep, TestConnection, ClearCooldownRead, ClearCooldownWrite, reqVars
<1>11. CASE UNCHANGED vars
  BY <1>11 DEF vars
<1> QED
  BY <1>1, <1>2, <1>3, <1>4, <1>5, <1>6, <1>7, <1>8, <1>9, <1>10, <1>11
  DEF Next, RequestStep, LocalStep, OuterStep

LEMMA NextType == TypeInv /\ [Next]_vars => TypeOK'
<1> SUFFICES ASSUME TypeOK, CallTyped, HolderAtHead, [Next]_vars PROVE TypeOK'
  BY DEF TypeInv
<1> USE ConstantsAssumption
<1>0. NoList \in [Conn -> Row]
  BY FreshRowType DEF NoList
<1>1. CASE Tick
  BY <1>1 DEF Tick, TypeOK, reqVars
<1>2. ASSUME NEW r \in Request, Arrive(r) PROVE TypeOK'
  <2>1. queue' \in Seq(Request)
    BY <1>2 DEF Arrive, TypeOK
  <2> QED BY <1>2, <2>1 DEF Arrive, TypeOK, PC, Key
<1>3. ASSUME NEW r \in Request, SelectRead(r) PROVE TypeOK'
  <2>1. Available(db, excluded[r], model[r], now) \in SUBSET Conn
    BY DEF Available
  <2> QED BY <1>3, <2>1 DEF SelectRead, TypeOK, PC
<1>14. ASSUME NEW r \in Request, FindLocked(r) PROVE TypeOK'
  <2>1. LockedConns(list[r], excluded[r], model[r], now) \in SUBSET Conn
    BY DEF LockedConns
  <2> QED BY <1>14, <2>1 DEF FindLocked, TypeOK, PC
<1>15. ASSUME NEW r \in Request, GiveUp(r) PROVE TypeOK'
  <2> DEFINE reply == GiveUpReply(list[r], excluded[r], avail[r], now)
  <2>1. queue' \in Seq(Request)
    BY <1>15, ChainFacts DEF GiveUp, Released, TypeOK, HolderAtHead
  <2>2. reply \in [kind : AnswerKind, retryAfter : Nat]
    BY GiveUpReplyFacts DEF TypeOK
  <2> HIDE DEF reply
  <2>3. answer' = [answer EXCEPT ![r] = reply]
    BY <1>15 DEF GiveUp, Respond, reply
  <2> QED BY <1>0, <1>15, <2>1, <2>2, <2>3 DEF GiveUp, Respond, TypeOK, PC
<1>4. ASSUME NEW r \in Request, SelectFinish(r) PROVE TypeOK'
  <2>1. queue' \in Seq(Request)
    BY <1>4, ChainFacts DEF SelectFinish, Released, TypeOK, HolderAtHead
  <2>2. PICK c \in avail[r] :
          /\ db' = IF IsPinned(r) \/ Strategy # "round-robin" THEN db
                   ELSE [db EXCEPT ![c] = Rotated(@, list[r], avail[r], c, now)]
          /\ chosen' = [chosen EXCEPT ![r] = c]
          /\ snapshot' = [snapshot EXCEPT ![r] = list[r][c]]
    BY <1>4 DEF SelectFinish
  <2>3. c \in Conn /\ list[r][c] \in Row
    BY DEF TypeOK
  <2>4. Rotated(db[c], list[r], avail[r], c, now) \in Row
    <3> DEFINE u == IF Sticks(list[r], avail[r], c) THEN list[r][c].useCount + 1 ELSE 1
    <3>1. u \in Nat
      BY <2>3 DEF Row
    <3>2. db[c] \in Row /\ now \in Nat
      BY <2>3 DEF TypeOK
    <3> HIDE DEF u
    <3>3. [db[c] EXCEPT !.lastUsed = now, !.useCount = u] \in Row
      BY <3>1, <3>2 DEF Row
    <3> QED BY <3>3 DEF Rotated, u
  <2>5. db' \in [Conn -> Row]
    BY <2>2, <2>3, <2>4 DEF TypeOK
  <2> QED BY <1>0, <1>4, <2>1, <2>2, <2>3, <2>5 DEF SelectFinish, TypeOK, PC
<1>5. ASSUME NEW r \in Request, UpstreamSucceeds(r) PROVE TypeOK'
  <2>1. db' \in [Conn -> Row]
    BY <1>5, ClearedType DEF UpstreamSucceeds, TypeOK
  <2> QED BY <1>5, <2>1, FreshRowType
          DEF UpstreamSucceeds, Respond, EndCall, TypeOK, PC, AnswerKind, NoFailure
<1>6. ASSUME NEW r \in Request, UpstreamFails(r) PROVE TypeOK'
  <2>1. PICK kind \in Failure, resetsAt \in now + 1 .. now + RateLimitCap + 1 :
          failure' = [failure EXCEPT ![r] =
            [kind |-> kind, seenLevel |-> db[chosen[r]].backoff,
             resetsAt |-> IF kind = "precise" THEN resetsAt ELSE 0]]
    BY <1>6 DEF UpstreamFails
  <2>2. /\ kind \in FailureKind /\ resetsAt \in Nat
        /\ chosen[r] \in Conn /\ db[chosen[r]].backoff \in Nat
    BY <1>6 DEF UpstreamFails, CallTyped, TypeOK, Row
  <2>3. failure' \in [Request -> [kind : FailureKind \cup {"none"}, seenLevel : Nat,
                                 resetsAt : Nat]]
    BY <2>1, <2>2 DEF TypeOK
  <2> QED BY <1>6, <2>3, FreshRowType DEF UpstreamFails, TypeOK, PC
<1>7. ASSUME NEW r \in Request, ReturnClientError(r) PROVE TypeOK'
  BY <1>7, FreshRowType
  DEF ReturnClientError, Respond, EndCall, TypeOK, PC, AnswerKind, NoFailure
<1>8. ASSUME NEW r \in Request, MarkUnavailable(r) PROVE TypeOK'
  <2>1. queue' \in Seq(Request)
    BY <1>8 DEF MarkUnavailable, TypeOK
  <2>2. chosen[r] \in Conn /\ failure[r].kind \in FailureKind
    BY <1>8 DEF MarkUnavailable, CallTyped, TypeOK
  <2>3. Marked(db[chosen[r]], failure[r], model[r], now) \in Row
    BY <2>2, MarkedType DEF TypeOK
  <2>4. db' \in [Conn -> Row]
    BY <1>8, <2>2, <2>3 DEF MarkUnavailable, TypeOK
  <2> QED BY <1>8, <2>1, <2>2, <2>4, FreshRowType
          DEF MarkUnavailable, Excluding, EndCall, TypeOK, PC, NoFailure
<1>9. ASSUME NEW r \in Request, Leave(r) PROVE TypeOK'
  BY <1>9 DEF Leave, TypeOK, PC, Key, AnswerKind, NoAnswer
<1>10. ASSUME NEW c \in Conn, NEW valid \in BOOLEAN, TestConnection(c, valid)
       PROVE  TypeOK'
  <2>1. Activated(db[c]) \in Row /\ [db[c] EXCEPT !.status = "error"] \in Row
    <3>1. db[c] \in Row
      BY DEF TypeOK
    <3>2. [db[c] EXCEPT !.status = "error"] \in Row
      BY <3>1 DEF Row, Status
    <3> QED BY <3>1, <3>2, ActivatedType
  <2> QED BY <1>10, <2>1 DEF TestConnection, TypeOK, reqVars
<1>11. ASSUME NEW k \in Key, ClearCooldownRead(k) PROVE TypeOK'
  BY <1>11 DEF ClearCooldownRead, TypeOK, reqVars
<1>12. CASE ClearCooldownWrite
  <2>1. \A c \in Conn, k \in Key : [db[c] EXCEPT !.until[k] = 0] \in Row
    <3>1. ASSUME NEW c \in Conn, NEW k \in Key
          PROVE  [db[c] EXCEPT !.until[k] = 0] \in Row
      <4>1. db[c] \in Row
        BY DEF TypeOK
      <4> QED BY <4>1 DEF Row
    <3> QED BY <3>1
  <2>2. db' \in [Conn -> Row]
    BY <1>12, <2>1, ActivatedType DEF ClearCooldownWrite, TypeOK
  <2> QED BY <1>0, <1>12, <2>2 DEF ClearCooldownWrite, TypeOK, reqVars, NotClearing, Key
<1>13. CASE UNCHANGED vars
  BY <1>13 DEF vars, TypeOK
<1> QED
  BY <1>1, <1>2, <1>3, <1>4, <1>5, <1>6, <1>7, <1>8, <1>9, <1>10, <1>11, <1>12, <1>13,
     <1>14, <1>15
  DEF Next, RequestStep, LocalStep, OuterStep, OperatorStep

LEMMA TypeInvariant == Spec => []TypeInv
<1>1. TypeInv /\ [Next]_vars => TypeInv'
  BY NextType, NextCallTyped, NextHolder DEF TypeInv
<1> QED BY InitTypeInv, <1>1, PTL DEF Spec

\* The pool's state keeps its types.
THEOREM TypeCorrect == Spec => []TypeOK
<1>1. TypeInv => TypeOK
  BY DEF TypeInv
<1> QED BY TypeInvariant, <1>1, PTL
-----------------------------------------------------------------------------
(* The selection mutex and the rotation it protects. *)

\* Only the head of the mutex chain is ever between its read and its write.
THEOREM SelectionMutex == Spec => []SelectionExclusive
<1>1. TypeInv => SelectionExclusive
  BY DEF TypeInv, HolderAtHead, SelectionExclusive
<1> QED BY TypeInvariant, <1>1, PTL

\* Every write to a row other than the rotation's keeps the rotation fields.
SameRotation(old, new) ==
  \A c \in Conn : new[c].lastUsed = old[c].lastUsed /\ new[c].useCount = old[c].useCount

LEMMA HealthWritesKeepRotation ==
  ASSUME NEW row \in Row, NEW snap, NEW m, NEW t, NEW f, NEW k
  PROVE  \A new \in {Activated(row), Marked(row, f, m, t),
                     ClearAccountError(row, snap, m, t), [row EXCEPT !.until[k] = 0],
                     [row EXCEPT !.status = "error"]} :
           new.lastUsed = row.lastUsed /\ new.useCount = row.useCount
<1>1. Activated(row).lastUsed = row.lastUsed /\ Activated(row).useCount = row.useCount
  BY DEF Activated, Row
<1>2. /\ Marked(row, f, m, t).lastUsed = row.lastUsed
      /\ Marked(row, f, m, t).useCount = row.useCount
  BY DEF Marked, Row
<1>3. /\ ClearAccountError(row, snap, m, t).lastUsed = row.lastUsed
      /\ ClearAccountError(row, snap, m, t).useCount = row.useCount
  BY <1>1 DEF ClearAccountError, Row
<1>4. /\ [row EXCEPT !.until[k] = 0].lastUsed = row.lastUsed
      /\ [row EXCEPT !.until[k] = 0].useCount = row.useCount
      /\ [row EXCEPT !.status = "error"].lastUsed = row.lastUsed
      /\ [row EXCEPT !.status = "error"].useCount = row.useCount
  BY DEF Row
<1> QED BY <1>1, <1>2, <1>3, <1>4

LEMMA NextSameRotation ==
  ASSUME TypeInv, [Next]_vars, \A r \in Request : ~SelectFinish(r)
  PROVE  SameRotation(db, db')
<1> USE DEF SameRotation
<1>1. db \in [Conn -> Row] /\ \A c \in Conn : db[c] \in Row
  BY DEF TypeInv, TypeOK
<1>2. ASSUME NEW r \in Request, UpstreamSucceeds(r) PROVE SameRotation(db, db')
  <2> DEFINE d == chosen[r]
             new == ClearAccountError(db[d], snapshot[r], model[r], now)
  <2>1. db' = [db EXCEPT ![d] = new]
    BY <1>2 DEF UpstreamSucceeds
  <2>2. d \in Conn => new.lastUsed = db[d].lastUsed /\ new.useCount = db[d].useCount
    BY <1>1, HealthWritesKeepRotation
  <2> HIDE DEF d, new
  <2> QED BY <1>1, <2>1, <2>2
<1>3. ASSUME NEW r \in Request, MarkUnavailable(r) PROVE SameRotation(db, db')
  <2> DEFINE d == chosen[r]
             new == Marked(db[d], failure[r], model[r], now)
  <2>1. db' = [db EXCEPT ![d] = new]
    BY <1>3 DEF MarkUnavailable, Excluding
  <2>2. d \in Conn => new.lastUsed = db[d].lastUsed /\ new.useCount = db[d].useCount
    BY <1>1, HealthWritesKeepRotation
  <2> HIDE DEF d, new
  <2> QED BY <1>1, <2>1, <2>2
<1>4. ASSUME NEW c \in Conn, NEW valid \in BOOLEAN, TestConnection(c, valid)
      PROVE  SameRotation(db, db')
  <2> DEFINE new == IF valid THEN Activated(db[c]) ELSE [db[c] EXCEPT !.status = "error"]
  <2>1. db' = [db EXCEPT ![c] = new]
    BY <1>4 DEF TestConnection
  <2>2. new.lastUsed = db[c].lastUsed /\ new.useCount = db[c].useCount
    <3>1. new \in {Activated(db[c]), [db[c] EXCEPT !.status = "error"]}
      OBVIOUS
    <3> QED BY <1>1, <3>1, HealthWritesKeepRotation
  <2> HIDE DEF new
  <2> QED BY <1>1, <2>1, <2>2
<1>5. CASE ClearCooldownWrite
  <2> SUFFICES ASSUME NEW c \in Conn
               PROVE  db'[c].lastUsed = db[c].lastUsed /\ db'[c].useCount = db[c].useCount
    OBVIOUS
  <2> DEFINE k == cleared.model
  <2>1. db'[c] \in {db[c], Activated(db[c]), [db[c] EXCEPT !.until[k] = 0]}
    BY <1>5 DEF ClearCooldownWrite
  <2>2. \A new \in {Activated(db[c]), [db[c] EXCEPT !.until[k] = 0]} :
          new.lastUsed = db[c].lastUsed /\ new.useCount = db[c].useCount
    <3> HIDE DEF k
    <3>1. db[c] \in Row
      BY <1>1
    <3>2. /\ Activated(db[c]).lastUsed = db[c].lastUsed
          /\ Activated(db[c]).useCount = db[c].useCount
      BY <3>1 DEF Activated, Row
    <3>3. /\ [db[c] EXCEPT !.until[k] = 0].lastUsed = db[c].lastUsed
          /\ [db[c] EXCEPT !.until[k] = 0].useCount = db[c].useCount
      BY <3>1 DEF Row
    <3> QED BY <3>2, <3>3
  <2> HIDE DEF k
  <2> QED BY <2>1, <2>2
<1>6. CASE UNCHANGED db
  BY <1>6
<1>7. \/ UNCHANGED db
      \/ \E r \in Request : UpstreamSucceeds(r) \/ MarkUnavailable(r)
      \/ \E c \in Conn, valid \in BOOLEAN : TestConnection(c, valid)
      \/ ClearCooldownWrite
  BY DEF Next, RequestStep, LocalStep, OuterStep, OperatorStep, Tick, Arrive, SelectRead, FindLocked, GiveUp, Respond,
     UpstreamFails, ReturnClientError, Leave, ClearCooldownRead, vars
<1> QED BY <1>2, <1>3, <1>4, <1>5, <1>6, <1>7

\* No selection works from rotation fields another selection has overwritten.
THEOREM RotationIsFresh == Spec => []RotationFresh
<1>1. Init => RotationFresh
  BY DEF Init, RotationFresh
<1>2. ASSUME TypeInv, RotationFresh, [Next]_vars PROVE RotationFresh'
  <2>1. ASSUME NEW r \in Request, SelectRead(r) PROVE RotationFresh'
    BY <1>2, <2>1 DEF SelectRead, TypeInv, TypeOK, RotationFresh
  <2>4. ASSUME NEW r \in Request, GiveUp(r) PROVE RotationFresh'
    BY <1>2, <2>4 DEF GiveUp, Respond, TypeInv, TypeOK, RotationFresh
  <2>2. ASSUME NEW r \in Request, SelectFinish(r) PROVE RotationFresh'
    <3>1. pc[r] = "selecting" /\ pc' = [pc EXCEPT ![r] = "calling"]
      BY <2>2 DEF SelectFinish
    <3>2. pc \in [Request -> PC] /\ HolderAtHead
      BY <1>2 DEF TypeInv, TypeOK
    <3>3. \A s \in Request : pc'[s] # "selecting"
      BY <3>1, <3>2 DEF HolderAtHead
    <3> QED BY <3>3 DEF RotationFresh
  <2>3. CASE \A r \in Request : ~SelectRead(r) /\ ~SelectFinish(r) /\ ~GiveUp(r)
    <3>1. SameRotation(db, db')
      BY <1>2, <2>3, NextSameRotation
    <3>2. UNCHANGED list /\ \A r \in Request : pc'[r] = "selecting" => pc[r] = "selecting"
      BY <1>2, <2>3 DEF Next, RequestStep, LocalStep, OuterStep, OperatorStep, Tick, Arrive,
         FindLocked, UpstreamSucceeds,
         UpstreamFails, ReturnClientError, MarkUnavailable, Leave, TestConnection,
         ClearCooldownRead, ClearCooldownWrite, Respond, reqVars, vars, TypeInv, TypeOK
    <3> QED BY <1>2, <3>1, <3>2 DEF RotationFresh, SameRotation
  <2> QED BY <2>1, <2>2, <2>3, <2>4
<1> QED BY <1>1, <1>2, TypeInvariant, PTL DEF Spec
-----------------------------------------------------------------------------
(* The displayed health and the locks agree. *)

Healthy(row) == row.status = "active" => row.until = NullLocks /\ row.backoff = 0

\* Each of the patches applied to a healthy row, from whatever snapshot it was
\* computed, leaves it healthy.
LEMMA PatchesKeepHealth ==
  ASSUME NEW row \in Row, Healthy(row), NEW snap, NEW m, NEW t, NEW f, NEW k
  PROVE  /\ Healthy(Activated(row))
         /\ Healthy(Marked(row, f, m, t))
         /\ Healthy(ClearAccountError(row, snap, m, t))
         /\ Healthy([row EXCEPT !.until[k] = 0])
         /\ Healthy([row EXCEPT !.status = "error"])
<1> USE DEF Healthy
<1>1. Healthy(Activated(row))
  BY DEF Activated, Row
<1>2. Healthy(Marked(row, f, m, t))
  <2>1. Marked(row, f, m, t).status = "unavailable"
    BY DEF Marked, Row
  <2> QED BY <2>1
<1>3. Healthy(ClearAccountError(row, snap, m, t))
  <2> DEFINE ks == KeysToClear(snap, m, t)
             u == [j \in Key |-> IF j \in ks THEN 0 ELSE row.until[j]]
  <2> HIDE DEF ks
  <2>1. row.until = NullLocks => u = NullLocks
    BY DEF NullLocks
  <2>2. Healthy([row EXCEPT !.until = u])
    BY <2>1 DEF Row
  <2>3. Healthy([row EXCEPT !.until = [j \in Key |-> IF j \in ks THEN 0 ELSE @[j]]])
    BY <2>2
  <2> QED BY <1>1, <2>3 DEF ClearAccountError, ks
<1>4. Healthy([row EXCEPT !.until[k] = 0])
  <2>1. [NullLocks EXCEPT ![k] = 0] = NullLocks
    BY DEF NullLocks
  <2> QED BY <2>1 DEF Row
<1>5. Healthy([row EXCEPT !.status = "error"])
  BY DEF Row
<1> QED BY <1>1, <1>2, <1>3, <1>4, <1>5

LEMMA NextHealth ==
  ASSUME TypeInv, [Next]_vars, \A c \in Conn : Healthy(db[c])
  PROVE  \A c \in Conn : Healthy(db[c])'
<1>1. db \in [Conn -> Row] /\ \A c \in Conn : db[c] \in Row
  BY DEF TypeInv, TypeOK
<1>2. ASSUME NEW r \in Request, UpstreamSucceeds(r) PROVE \A c \in Conn : Healthy(db'[c])
  <2> DEFINE d == chosen[r]
             new == ClearAccountError(db[d], snapshot[r], model[r], now)
  <2>1. db' = [db EXCEPT ![d] = new]
    BY <1>2 DEF UpstreamSucceeds
  <2>2. d \in Conn => Healthy(new)
    BY <1>1, PatchesKeepHealth
  <2> HIDE DEF d, new
  <2> QED BY <1>1, <2>1, <2>2
<1>3. ASSUME NEW r \in Request, MarkUnavailable(r) PROVE \A c \in Conn : Healthy(db'[c])
  <2> DEFINE d == chosen[r]
             new == Marked(db[d], failure[r], model[r], now)
  <2>1. db' = [db EXCEPT ![d] = new]
    BY <1>3 DEF MarkUnavailable, Excluding
  <2>2. d \in Conn => Healthy(new)
    BY <1>1, PatchesKeepHealth
  <2> HIDE DEF d, new
  <2> QED BY <1>1, <2>1, <2>2
<1>4. ASSUME NEW r \in Request, SelectFinish(r) PROVE \A c \in Conn : Healthy(db'[c])
  <2>1. CASE db' = db
    BY <2>1
  <2>2. CASE \E c \in Conn : db' = [db EXCEPT ![c] = Rotated(@, list[r], avail[r], c, now)]
    <3>1. PICK c \in Conn : db' = [db EXCEPT ![c] = Rotated(@, list[r], avail[r], c, now)]
      BY <2>2
    <3>2. Healthy(Rotated(db[c], list[r], avail[r], c, now))
      BY <1>1 DEF Healthy, Rotated, Row
    <3> QED BY <1>1, <3>1, <3>2
  <2>3. avail[r] \subseteq Conn
    BY DEF TypeInv, TypeOK
  <2> QED BY <1>4, <2>1, <2>2, <2>3 DEF SelectFinish
<1>5. ASSUME NEW c \in Conn, NEW valid \in BOOLEAN, TestConnection(c, valid)
      PROVE  \A d \in Conn : Healthy(db'[d])
  BY <1>1, <1>5, PatchesKeepHealth DEF TestConnection
<1>6. CASE ClearCooldownWrite
  BY <1>1, <1>6, PatchesKeepHealth DEF ClearCooldownWrite
<1>7. \/ UNCHANGED db
      \/ \E r \in Request : UpstreamSucceeds(r) \/ MarkUnavailable(r) \/ SelectFinish(r)
      \/ \E c \in Conn, valid \in BOOLEAN : TestConnection(c, valid)
      \/ ClearCooldownWrite
  BY DEF Next, RequestStep, LocalStep, OuterStep, OperatorStep, Tick, Arrive, SelectRead, FindLocked, GiveUp, Respond,
     UpstreamFails, ReturnClientError, Leave, ClearCooldownRead, vars
<1> QED BY <1>2, <1>3, <1>4, <1>5, <1>6, <1>7 DEF Healthy

\* An "active" connection carries no lock and no backoff, whatever successes,
\* failures, tests and operator patches were interleaved.
THEOREM HealthIsConsistent == Spec => []HealthConsistent
<1>1. HealthConsistent <=> \A c \in Conn : Healthy(db[c])
  BY DEF HealthConsistent, Healthy
<1>2. Init => HealthConsistent
  BY DEF Init, HealthConsistent, FreshRow
<1>3. TypeInv /\ HealthConsistent /\ [Next]_vars => HealthConsistent'
  BY <1>1, NextHealth DEF HealthConsistent, Healthy
<1> QED BY <1>2, <1>3, TypeInvariant, PTL DEF Spec
-----------------------------------------------------------------------------
(* The fallback loop. *)

\* A row whose lock hides it from a model has an expiry still to come.
LEMMA LockedRowHasExpiry ==
  ASSUME NEW row \in Row, NEW m \in Key, NEW t \in Nat, IsModelLockActive(row, m, t)
  PROVE  /\ EarliestModelLockUntil(row, t) \in Nat
         /\ EarliestModelLockUntil(row, t) > t
<1> DEFINE S == {row.until[k] : k \in ActiveLocks(row, t)}
<1>1. m \in ActiveLocks(row, t) \/ ALL \in ActiveLocks(row, t)
  BY DEF IsModelLockActive, EffectiveLock, ActiveLocks, Key
<1>2. S \in SUBSET Nat /\ S # {} /\ \A x \in S : x > t
  BY <1>1 DEF ActiveLocks, Row
<1>3. Least(S) \in S
  BY <1>2, LeastOfNat
<1> QED BY <1>1, <1>2, <1>3 DEF EarliestModelLockUntil

\* What the loop owes to the accounts that already failed the request: none of
\* them is offered or called again.
ExclusionInv ==
  \A r \in Request :
    /\ pc[r] = "selecting" => avail[r] \cap excluded[r] = {}
    /\ pc[r] \in {"calling", "marking"} => chosen[r] \notin excluded[r]

\* A request that found no account: each has failed it or was locked, and the
\* accounts whose dates it looks for are all those a lock still bars.
BarredInv ==
  \A r \in Request :
    /\ pc[r] \in {"barred", "dating"} =>
         \A c \in Conn : c \in excluded[r] \/ EffectiveLock(list[r][c], model[r]) # 0
    /\ pc[r] = "dating" =>
         \A c \in Conn : IsModelLockActive(list[r][c], model[r], now) => c \in avail[r]

LEMMA NextExclusion == TypeInv /\ ExclusionInv /\ [Next]_vars => ExclusionInv'
<1> SUFFICES ASSUME TypeInv, ExclusionInv, [Next]_vars PROVE ExclusionInv'
  OBVIOUS
<1>0. /\ pc \in [Request -> PC] /\ avail \in [Request -> SUBSET Conn]
      /\ excluded \in [Request -> SUBSET Conn] /\ chosen \in [Request -> Conn \cup {0}]
  BY DEF TypeInv, TypeOK
<1> USE <1>0 DEF ExclusionInv
<1>1. ASSUME NEW r \in Request, SelectRead(r) PROVE ExclusionInv'
  BY <1>1 DEF SelectRead, Available
<1>8. ASSUME NEW r \in Request, FindLocked(r) \/ GiveUp(r) PROVE ExclusionInv'
  BY <1>8 DEF FindLocked, GiveUp, Respond
<1>2. ASSUME NEW r \in Request, SelectFinish(r) PROVE ExclusionInv'
  <2>1. PICK c \in avail[r] : chosen' = [chosen EXCEPT ![r] = c]
    BY <1>2 DEF SelectFinish
  <2> QED BY <1>2, <2>1 DEF SelectFinish
<1>3. ASSUME NEW r \in Request, UpstreamSucceeds(r) \/ ReturnClientError(r)
      PROVE  ExclusionInv'
  BY <1>3 DEF UpstreamSucceeds, ReturnClientError, Respond, EndCall
<1>4. ASSUME NEW r \in Request, MarkUnavailable(r) PROVE ExclusionInv'
  BY <1>4 DEF MarkUnavailable, Excluding, EndCall
<1>5. ASSUME NEW r \in Request, UpstreamFails(r) PROVE ExclusionInv'
  BY <1>5 DEF UpstreamFails
<1>6. ASSUME NEW r \in Request, Arrive(r) \/ Leave(r) PROVE ExclusionInv'
  BY <1>6 DEF Arrive, Leave
<1>7. CASE Tick \/ OperatorStep \/ UNCHANGED vars
  BY <1>7 DEF Tick, OperatorStep, TestConnection, ClearCooldownRead,
     ClearCooldownWrite, reqVars, vars
<1> QED BY <1>1, <1>2, <1>3, <1>4, <1>5, <1>6, <1>7, <1>8 DEF Next, RequestStep, LocalStep, OuterStep

\* An account that failed a request is never called again for it.
THEOREM FailedAccountsStayExcluded == Spec => []NeverRetriesFailedAccount
<1>1. Init => ExclusionInv
  BY DEF Init, ExclusionInv
<1>2. ExclusionInv => NeverRetriesFailedAccount
  BY DEF ExclusionInv, NeverRetriesFailedAccount
<1> QED BY <1>1, <1>2, NextExclusion, TypeInvariant, PTL DEF Spec

LEMMA EffectiveLockType ==
  ASSUME NEW row \in Row, NEW m \in Key
  PROVE  EffectiveLock(row, m) \in Nat
BY DEF Row, EffectiveLock, Key

LEMMA NextBarred == TypeInv /\ BarredInv /\ [Next]_vars => BarredInv'
<1> SUFFICES ASSUME TypeInv, BarredInv, [Next]_vars PROVE BarredInv'
  OBVIOUS
<1>0. /\ pc \in [Request -> PC] /\ avail \in [Request -> SUBSET Conn]
      /\ excluded \in [Request -> SUBSET Conn] /\ model \in [Request -> Key]
      /\ list \in [Request -> [Conn -> Row]] /\ now \in Nat
  BY DEF TypeInv, TypeOK
<1> DEFINE Same(r) == /\ pc'[r] = pc[r] /\ avail'[r] = avail[r] /\ excluded'[r] = excluded[r]
                      /\ model'[r] = model[r] /\ list'[r] = list[r]
           Good(r) == /\ pc'[r] \in {"barred", "dating"} =>
                           \A c \in Conn : \/ c \in excluded'[r]
                                           \/ EffectiveLock(list'[r][c], model'[r]) # 0
                      /\ pc'[r] = "dating" =>
                           \A c \in Conn : IsModelLockActive(list'[r][c], model'[r], now')
                                           => c \in avail'[r]
<1>1. ASSUME NEW r \in Request, Same(r), now' = now PROVE Good(r)
  BY <1>1 DEF BarredInv
<1>2. ASSUME NEW r \in Request, pc'[r] \notin {"barred", "dating"} PROVE Good(r)
  BY <1>2
<1>3. CASE Tick
  <2> SUFFICES ASSUME NEW r \in Request PROVE Good(r)
    BY DEF BarredInv
  <2>1. Same(r) /\ now' = now + 1
    BY <1>3 DEF Tick, reqVars
  <2>2. \A c \in Conn : EffectiveLock(list[r][c], model[r]) \in Nat
    BY <1>0, EffectiveLockType
  <2>3. \A c \in Conn : IsModelLockActive(list[r][c], model[r], now + 1)
                        => IsModelLockActive(list[r][c], model[r], now)
    BY <1>0, <2>2 DEF IsModelLockActive
  <2> QED BY <2>1, <2>3 DEF BarredInv
<1>4. ASSUME NEW r \in Request, SelectRead(r) PROVE BarredInv'
  <2>1. \A s \in Request \ {r} : Same(s)
    BY <1>0, <1>4 DEF SelectRead
  <2>2. pc' = [pc EXCEPT ![r] = IF Available(db, excluded[r], model[r], now) = {}
                                THEN "barred" ELSE "selecting"]
        /\ list' = [list EXCEPT ![r] = db] /\ UNCHANGED <<excluded, model, now>>
    BY <1>4 DEF SelectRead
  <2>3. pc'[r] = "barred" => \A c \in Conn : c \in excluded[r] \/ EffectiveLock(db[c], model[r]) # 0
    <3>1. \A c \in Conn : EffectiveLock(db[c], model[r]) \in Nat
      BY <1>0, EffectiveLockType DEF TypeInv, TypeOK
    <3>2. pc'[r] = "barred" => Available(db, excluded[r], model[r], now) = {}
      BY <1>0, <2>2
    <3> QED BY <1>0, <3>1, <3>2 DEF Available, IsModelLockActive
  <2>4. Good(r)
    BY <1>0, <2>2, <2>3
  <2> QED BY <1>1, <2>1, <2>2, <2>4 DEF BarredInv
<1>5. ASSUME NEW r \in Request, FindLocked(r) PROVE BarredInv'
  <2>1. \A s \in Request \ {r} : Same(s)
    BY <1>0, <1>5 DEF FindLocked
  <2>2. /\ pc[r] = "barred" /\ pc' = [pc EXCEPT ![r] = "dating"]
        /\ avail' = [avail EXCEPT ![r] = LockedConns(list[r], excluded[r], model[r], now)]
        /\ UNCHANGED <<excluded, model, now, list>>
    BY <1>5 DEF FindLocked
  <2>3. Good(r)
    BY <1>0, <2>2 DEF BarredInv, LockedConns
  <2> QED BY <1>1, <2>1, <2>2, <2>3 DEF BarredInv
<1>6. ASSUME NEW r \in Request,
             \/ Arrive(r) \/ GiveUp(r) \/ SelectFinish(r) \/ UpstreamSucceeds(r)
             \/ UpstreamFails(r) \/ ReturnClientError(r) \/ MarkUnavailable(r) \/ Leave(r)
      PROVE  BarredInv'
  <2>1. now' = now /\ \A s \in Request \ {r} : Same(s)
    BY <1>0, <1>6 DEF Arrive, GiveUp, SelectFinish, UpstreamSucceeds, UpstreamFails,
       ReturnClientError, MarkUnavailable, Leave, Respond, EndCall
  <2>2. pc'[r] \notin {"barred", "dating"}
    BY <1>0, <1>6 DEF Arrive, GiveUp, SelectFinish, UpstreamSucceeds, UpstreamFails,
       ReturnClientError, MarkUnavailable, Leave, Respond
  <2> QED BY <1>1, <1>2, <2>1, <2>2 DEF BarredInv
<1>7. CASE OperatorStep \/ UNCHANGED vars
  BY <1>7 DEF OperatorStep, TestConnection, ClearCooldownRead, ClearCooldownWrite,
     reqVars, vars, BarredInv
<1> QED BY <1>3, <1>4, <1>5, <1>6, <1>7 DEF Next, RequestStep, LocalStep, OuterStep

LEMMA BarredInvariant == Spec => []BarredInv
<1>1. Init => BarredInv
  BY DEF Init, BarredInv
<1> QED BY <1>1, NextBarred, TypeInvariant, PTL DEF Spec

\* A request leaves the search for a date by giving up, and not otherwise.
LEMMA DatingEnds ==
  ASSUME TypeInv, [Next]_vars, NEW r \in Request, pc[r] = "dating", pc'[r] # "dating"
  PROVE  GiveUp(r)
<1>0. pc \in [Request -> PC]
  BY DEF TypeInv, TypeOK
<1>1. ASSUME NEW s \in Request, LocalStep(s) \/ OuterStep(s) PROVE GiveUp(r)
  <2>1. CASE s = r
    BY <1>1, <2>1 DEF LocalStep, OuterStep, SelectRead, FindLocked, SelectFinish,
       ReturnClientError, MarkUnavailable, Arrive, UpstreamSucceeds, UpstreamFails, Leave
  <2>2. CASE s # r
    BY <1>0, <1>1, <2>2 DEF LocalStep, OuterStep, SelectRead, FindLocked, GiveUp, SelectFinish,
       ReturnClientError, MarkUnavailable, Arrive, UpstreamSucceeds, UpstreamFails, Leave,
       Respond
  <2> QED BY <2>1, <2>2
<1>2. CASE Tick \/ OperatorStep \/ UNCHANGED vars
  BY <1>2 DEF Tick, OperatorStep, TestConnection, ClearCooldownRead, ClearCooldownWrite, vars
<1> QED BY <1>1, <1>2 DEF Next, RequestStep

\* A request is refused without a date only after every account failed it or was
\* found locked, and only when no lock bars any of them any more.
THEOREM GivingUpIsJustified == Spec => GiveUpJustified
<1> DEFINE Promise == \A r \in Request :
       pc[r] = "dating" /\ pc'[r] = "answered" /\ answer'[r].kind # "rateLimited" =>
         \A c \in Conn :
           /\ ~IsModelLockActive(list[r][c], model[r], now)
           /\ c \in excluded[r] \/ EffectiveLock(list[r][c], model[r]) # 0
<1>1. ASSUME TypeInv, BarredInv, [Next]_vars PROVE Promise
  <2> SUFFICES ASSUME NEW r \in Request, pc[r] = "dating", pc'[r] = "answered",
                      answer'[r].kind # "rateLimited", NEW c \in Conn
               PROVE  /\ ~IsModelLockActive(list[r][c], model[r], now)
                      /\ c \in excluded[r] \/ EffectiveLock(list[r][c], model[r]) # 0
    OBVIOUS
  <2> DEFINE reply == GiveUpReply(list[r], excluded[r], avail[r], now)
  <2>1. list[r] \in [Conn -> Row] /\ avail[r] \in SUBSET Conn /\ now \in Nat
        /\ model[r] \in Key /\ answer \in [Request -> [kind : AnswerKind, retryAfter : Nat]]
    BY <1>1 DEF TypeInv, TypeOK
  <2>2. answer' = [answer EXCEPT ![r] = reply]
    BY <1>1, DatingEnds DEF GiveUp, Respond
  <2>3. reply.kind # "rateLimited" =>
          \A d \in avail[r] : EarliestModelLockUntil(list[r][d], now) = 0
    BY <2>1, GiveUpReplyFacts
  <2> HIDE DEF reply
  <2>4. \A d \in avail[r] : EarliestModelLockUntil(list[r][d], now) = 0
    BY <2>1, <2>2, <2>3
  <2>5. IsModelLockActive(list[r][c], model[r], now) => c \in avail[r]
    BY <1>1 DEF BarredInv
  <2>6. IsModelLockActive(list[r][c], model[r], now)
          => EarliestModelLockUntil(list[r][c], now) > now
    BY <2>1, LockedRowHasExpiry
  <2>7. ~IsModelLockActive(list[r][c], model[r], now)
    BY <2>1, <2>4, <2>5, <2>6
  <2> QED BY <1>1, <2>7 DEF BarredInv
<1>2. Promise => [Promise]_vars
  OBVIOUS
<1> QED BY <1>1, <1>2, TypeInvariant, BarredInvariant, PTL DEF Spec, GiveUpJustified

\* Retry-After always points to the future.
THEOREM RetryAfterIsAhead == Spec => RetryAfterAhead
<1> DEFINE Promise == \A r \in Request :
             answer'[r] # answer[r] /\ answer'[r].kind = "rateLimited"
               => answer'[r].retryAfter > now
<1>1. ASSUME TypeInv, [Next]_vars PROVE Promise
  <2>0. answer \in [Request -> [kind : AnswerKind, retryAfter : Nat]]
    BY <1>1 DEF TypeInv, TypeOK
  <2>1. ASSUME NEW r \in Request, GiveUp(r) PROVE Promise
    <3> DEFINE reply == GiveUpReply(list[r], excluded[r], avail[r], now)
    <3>1. list[r] \in [Conn -> Row] /\ avail[r] \in SUBSET Conn /\ now \in Nat
      BY <1>1 DEF TypeInv, TypeOK
    <3>2. reply.kind = "rateLimited" => reply.retryAfter > now
      BY <3>1, GiveUpReplyFacts
    <3>3. answer' = [answer EXCEPT ![r] = reply]
      BY <2>1 DEF GiveUp, Respond
    <3> HIDE DEF reply
    <3> QED BY <2>0, <3>2, <3>3
  <2>2. ASSUME NEW r \in Request,
               UpstreamSucceeds(r) \/ ReturnClientError(r) \/ Leave(r)
        PROVE  Promise
    BY <2>0, <2>2 DEF UpstreamSucceeds, ReturnClientError, Leave, Respond, NoAnswer
  <2>3. CASE UNCHANGED answer
    BY <2>3
  <2>4. \/ UNCHANGED answer
        \/ \E r \in Request : \/ GiveUp(r) \/ UpstreamSucceeds(r)
                             \/ ReturnClientError(r) \/ Leave(r)
    BY <1>1 DEF Next, RequestStep, LocalStep, OuterStep, OperatorStep, Tick, Arrive, SelectRead,
       FindLocked, SelectFinish, UpstreamFails,
       MarkUnavailable, TestConnection, ClearCooldownRead, ClearCooldownWrite, vars
  <2> QED BY <2>1, <2>2, <2>3, <2>4
<1>2. Promise => [Promise]_vars
  OBVIOUS
<1> QED BY <1>1, <1>2, TypeInvariant, PTL DEF Spec, RetryAfterAhead
-----------------------------------------------------------------------------
(* Locks end in time. *)

\* The cooldowns of the error rules, as errorConfig.js has them, are no longer
\* than the cap on the resets that providers report.
CooldownsWithinCap == FixedCooldown <= RateLimitCap /\ BackoffMax <= RateLimitCap

\* The locks and the backoff level of a row are within bounds at t.
Bounded(row, t) ==
  /\ ~Antigravity => \A m \in Model : row.until[m] <= t + RateLimitCap
  /\ row.until[ALL] <= t + MonthLength
  /\ row.backoff <= MaxLevel

\* A busy slot asks for a model, never for the account-wide key, and the level
\* that a failure was classified with was read from a row.
MarkInv ==
  \A r \in Request :
    /\ pc[r] # "idle" => model[r] \in Model
    /\ failure[r].seenLevel <= MaxLevel

LockInv == MarkInv /\ \A c \in Conn : Bounded(db[c], now)

\* The next month start is at most a month away.
LEMMA ResetType ==
  ASSUME NEW t \in Nat
  PROVE  MonthlyReset(t) \in Nat /\ MonthlyReset(t) > t /\ MonthlyReset(t) <= t + MonthLength
  BY ConstantsAssumption DEF MonthlyReset

\* What the error rules decide stays within the bounds.
LEMMA VerdictBounded ==
  ASSUME CooldownsWithinCap, NEW t \in Nat,
         NEW f, f.kind \in FailureKind, f.seenLevel \in Nat, f.resetsAt \in Nat,
         f.seenLevel <= MaxLevel
  PROVE  /\ Verdict(f, t).level <= MaxLevel
         /\ f.kind = "monthly" => Verdict(f, t).cooldown <= MonthLength
         /\ f.kind # "monthly" /\ ~Antigravity => Verdict(f, t).cooldown <= RateLimitCap
<1> USE ConstantsAssumption DEF CooldownsWithinCap
<1>1. \A a : \A b \in Nat : MinOf(a, b) \in Nat /\ MinOf(a, b) <= b
  BY DEF MinOf
<1>2. \A level : GetQuotaCooldown(level) <= BackoffMax /\ GetQuotaCooldown(level) \in Nat
  BY <1>1 DEF GetQuotaCooldown
<1>3. /\ BackoffVerdict(f.seenLevel).cooldown <= RateLimitCap
      /\ BackoffVerdict(f.seenLevel).level <= MaxLevel
  BY <1>1, <1>2 DEF BackoffVerdict
<1>4. CASE f.kind = "monthly"
  BY <1>4, ResetType DEF Verdict
<1>5. CASE f.kind = "precise" /\ f.resetsAt > t
  BY <1>1, <1>5 DEF Verdict, ReportedCooldown
<1>6. CASE f.kind = "fixed"
  BY <1>6 DEF Verdict
<1>7. CASE f.kind \in {"client", "backoff"} \/ (f.kind = "precise" /\ ~(f.resetsAt > t))
  BY <1>3, <1>7 DEF Verdict
<1> QED BY <1>4, <1>5, <1>6, <1>7 DEF FailureKind

\* Every patch leaves a bounded row bounded.
LEMMA PatchesKeepBounds ==
  ASSUME NEW row \in Row, NEW t \in Nat, Bounded(row, t), NEW snap, NEW m, NEW k
  PROVE  /\ Bounded(Activated(row), t)
         /\ Bounded(ClearAccountError(row, snap, m, t), t)
         /\ Bounded([row EXCEPT !.until[k] = 0], t)
         /\ Bounded([row EXCEPT !.status = "error"], t)
         /\ \A n \in Nat, u \in Nat :
               Bounded([row EXCEPT !.lastUsed = n, !.useCount = u], t)
<1> USE ConstantsAssumption DEF Bounded, Key
<1>1. MonthLength \in Nat
  OBVIOUS
<1>2. Bounded(Activated(row), t)
  BY <1>1 DEF Activated, Row, NullLocks
<1>3. Bounded(ClearAccountError(row, snap, m, t), t)
  <2> DEFINE ks == KeysToClear(snap, m, t)
             u == [j \in Key |-> IF j \in ks THEN 0 ELSE row.until[j]]
  <2> HIDE DEF ks
  <2>1. \A j \in Key : u[j] = 0 \/ u[j] = row.until[j]
    OBVIOUS
  <2> HIDE DEF u
  <2>2. Bounded([row EXCEPT !.until = u], t)
    BY <1>1, <2>1 DEF Row
  <2>3. Bounded([row EXCEPT !.until = [j \in Key |-> IF j \in ks THEN 0 ELSE @[j]]], t)
    BY <2>2 DEF u
  <2> QED BY <1>2, <2>3 DEF ClearAccountError, ks
<1>4. Bounded([row EXCEPT !.until[k] = 0], t)
  <2>1. \A j \in Key : [row.until EXCEPT ![k] = 0][j] \in {0, row.until[j]}
    BY DEF Row
  <2> QED BY <1>1, <2>1 DEF Row
<1>5. Bounded([row EXCEPT !.status = "error"], t)
  BY DEF Row
<1>6. ASSUME NEW n \in Nat, NEW u \in Nat
      PROVE  Bounded([row EXCEPT !.lastUsed = n, !.useCount = u], t)
  BY DEF Row
<1> QED BY <1>2, <1>3, <1>4, <1>5, <1>6

\* The mark of a failure that may fall back leaves a bounded row bounded.
LEMMA MarkKeepsBounds ==
  ASSUME CooldownsWithinCap, NEW row \in Row, NEW t \in Nat, Bounded(row, t),
         NEW m \in Model,
         NEW f, f.kind \in FailureKind, f.seenLevel \in Nat, f.resetsAt \in Nat,
         f.seenLevel <= MaxLevel
  PROVE  Bounded(Marked(row, f, m, t), t)
<1> DEFINE k == LockKey(f, m)
           u == t + Verdict(f, t).cooldown
           b == Verdict(f, t).level
<1>1. u \in Nat /\ b \in Nat /\ b <= MaxLevel
  BY VerdictType, VerdictBounded
<1>2. \/ k = ALL /\ u <= t + MonthLength
      \/ k \in Model /\ (~Antigravity => u <= t + RateLimitCap)
  <2>1. CASE f.kind = "monthly"
    BY <2>1, VerdictBounded, VerdictType, ConstantsAssumption DEF LockKey
  <2>2. CASE f.kind # "monthly"
    <3>1. k = m /\ (~Antigravity => Verdict(f, t).cooldown <= RateLimitCap)
      BY <2>2, VerdictBounded DEF LockKey
    <3> QED BY <3>1, VerdictType, ConstantsAssumption
  <2> QED BY <2>1, <2>2
<1> HIDE DEF k, u, b
<1>3. ALL \notin Model
  BY ConstantsAssumption
<1>4. MonthLength \in Nat
  BY ConstantsAssumption
<1>5. Bounded([row EXCEPT !.keys = @ \cup {k}, !.until[k] = u, !.status = "unavailable",
                          !.backoff = b], t)
  BY <1>1, <1>2, <1>3, <1>4 DEF Bounded, Row, Key
<1> QED BY <1>5 DEF Marked, k, u, b

LEMMA NextMark == TypeInv /\ LockInv /\ [Next]_vars => MarkInv'
<1> SUFFICES ASSUME TypeInv, LockInv, [Next]_vars PROVE MarkInv'
  OBVIOUS
<1>0. /\ pc \in [Request -> PC] /\ model \in [Request -> Key] /\ MarkInv
      /\ failure \in [Request -> [kind : FailureKind \cup {"none"}, seenLevel : Nat,
                                  resetsAt : Nat]]
      /\ NoFailure.seenLevel <= MaxLevel
  BY ConstantsAssumption DEF TypeInv, TypeOK, LockInv, NoFailure
<1> USE <1>0 DEF MarkInv
<1>1. ASSUME NEW r \in Request, UpstreamFails(r) PROVE MarkInv'
  <2>1. PICK kind \in Failure, resetsAt \in now + 1 .. now + RateLimitCap + 1 :
          failure' = [failure EXCEPT ![r] =
            [kind |-> kind, seenLevel |-> db[chosen[r]].backoff,
             resetsAt |-> IF kind = "precise" THEN resetsAt ELSE 0]]
    BY <1>1 DEF UpstreamFails
  <2>2. pc[r] = "calling" /\ chosen[r] \in Conn
    BY <1>1 DEF UpstreamFails, TypeInv, TypeOK, CallTyped
  <2>3. db[chosen[r]].backoff <= MaxLevel
    BY <2>2 DEF LockInv, Bounded
  <2> QED BY <1>1, <2>1, <2>2, <2>3 DEF UpstreamFails
<1>2. ASSUME NEW r \in Request, Arrive(r) PROVE MarkInv'
  BY <1>2 DEF Arrive
<1>3. ASSUME NEW r \in Request, SelectRead(r) \/ FindLocked(r) \/ GiveUp(r)
      PROVE  MarkInv'
  BY <1>3 DEF SelectRead, FindLocked, GiveUp, Respond
<1>4. ASSUME NEW r \in Request, SelectFinish(r) PROVE MarkInv'
  BY <1>4 DEF SelectFinish
<1>5. ASSUME NEW r \in Request,
             UpstreamSucceeds(r) \/ ReturnClientError(r) \/ MarkUnavailable(r)
      PROVE  MarkInv'
  BY <1>5 DEF UpstreamSucceeds, ReturnClientError, MarkUnavailable, Respond, EndCall
<1>6. ASSUME NEW r \in Request, Leave(r) PROVE MarkInv'
  BY <1>6 DEF Leave
<1>7. CASE Tick \/ OperatorStep \/ UNCHANGED vars
  BY <1>7 DEF Tick, OperatorStep, TestConnection, ClearCooldownRead,
     ClearCooldownWrite, reqVars, vars
<1> QED BY <1>1, <1>2, <1>3, <1>4, <1>5, <1>6, <1>7 DEF Next, RequestStep, LocalStep, OuterStep

LEMMA NextBounded ==
  ASSUME CooldownsWithinCap, TypeInv, LockInv, [Next]_vars
  PROVE  \A c \in Conn : Bounded(db[c], now)'
<1>1. /\ db \in [Conn -> Row] /\ \A c \in Conn : db[c] \in Row /\ Bounded(db[c], now)
      /\ now \in Nat
  BY DEF TypeInv, TypeOK, LockInv
<1>2. ASSUME NEW r \in Request, UpstreamSucceeds(r)
      PROVE  \A c \in Conn : Bounded(db'[c], now)
  <2> DEFINE d == chosen[r]
             new == ClearAccountError(db[d], snapshot[r], model[r], now)
  <2>1. db' = [db EXCEPT ![d] = new]
    BY <1>2 DEF UpstreamSucceeds
  <2>2. d \in Conn => Bounded(new, now)
    BY <1>1, PatchesKeepBounds
  <2> HIDE DEF d, new
  <2> QED BY <1>1, <2>1, <2>2
<1>3. ASSUME NEW r \in Request, MarkUnavailable(r)
      PROVE  \A c \in Conn : Bounded(db'[c], now)
  <2> DEFINE d == chosen[r]
             f == failure[r]
             new == Marked(db[d], f, model[r], now)
  <2>1. db' = [db EXCEPT ![d] = new]
    BY <1>3 DEF MarkUnavailable, Excluding
  <2>2. /\ f.kind \in FailureKind /\ f.seenLevel \in Nat /\ f.resetsAt \in Nat
        /\ f.seenLevel <= MaxLevel /\ model[r] \in Model
    BY <1>3 DEF MarkUnavailable, TypeInv, TypeOK, CallTyped, LockInv, MarkInv
  <2> HIDE DEF f
  <2>3. d \in Conn => Bounded(new, now)
    BY <1>1, <2>2, MarkKeepsBounds
  <2> HIDE DEF d, new
  <2> QED BY <1>1, <2>1, <2>3
<1>4. ASSUME NEW r \in Request, SelectFinish(r)
      PROVE  \A c \in Conn : Bounded(db'[c], now)
  <2>1. CASE db' = db
    BY <1>1, <2>1
  <2>2. CASE \E c \in Conn : db' = [db EXCEPT ![c] = Rotated(@, list[r], avail[r], c, now)]
    <3>1. PICK c \in Conn : db' = [db EXCEPT ![c] = Rotated(@, list[r], avail[r], c, now)]
      BY <2>2
    <3>2. Bounded(Rotated(db[c], list[r], avail[r], c, now), now)
      BY <1>1 DEF Bounded, Rotated, Row
    <3> QED BY <1>1, <3>1, <3>2
  <2>3. avail[r] \subseteq Conn
    BY DEF TypeInv, TypeOK
  <2> QED BY <1>4, <2>1, <2>2, <2>3 DEF SelectFinish
<1>5. ASSUME NEW c \in Conn, NEW valid \in BOOLEAN, TestConnection(c, valid)
      PROVE  \A d \in Conn : Bounded(db'[d], now)
  BY <1>1, <1>5, PatchesKeepBounds DEF TestConnection
<1>6. CASE ClearCooldownWrite
  BY <1>1, <1>6, PatchesKeepBounds DEF ClearCooldownWrite
<1>7. CASE Tick
  <2>1. now' = now + 1 /\ db' = db
    BY <1>7 DEF Tick
  <2>2. MonthLength \in Nat
    BY ConstantsAssumption
  <2>3. \A c \in Conn : Bounded(db[c], now + 1)
    BY <1>1, <2>2, ConstantsAssumption DEF Bounded, Row, Key
  <2> QED BY <2>1, <2>3
<1>8. CASE UNCHANGED <<db, now>>
  BY <1>1, <1>8
<1>9. \/ Tick
      \/ UNCHANGED <<db, now>>
      \/ /\ now' = now
         /\ \/ \E r \in Request : UpstreamSucceeds(r) \/ MarkUnavailable(r) \/ SelectFinish(r)
            \/ \E c \in Conn, valid \in BOOLEAN : TestConnection(c, valid)
            \/ ClearCooldownWrite
  BY DEF Next, RequestStep, LocalStep, OuterStep, OperatorStep, Arrive, SelectRead, FindLocked, GiveUp, Respond,
     UpstreamFails, ReturnClientError, Leave, ClearCooldownRead, vars, UpstreamSucceeds,
     MarkUnavailable, SelectFinish, TestConnection, ClearCooldownWrite
<1> QED BY <1>2, <1>3, <1>4, <1>5, <1>6, <1>7, <1>8, <1>9

\* No model lock of a provider other than Antigravity outlasts the cap, no
\* account-wide lock outlasts a month, and the backoff level stays within its
\* maximum, whatever requests, clock and dashboard did to the rows meanwhile.
THEOREM LocksEnd == ASSUME CooldownsWithinCap PROVE Spec => []LocksBounded
<1>1. Init => LockInv
  <2> SUFFICES ASSUME Init PROVE LockInv
    OBVIOUS
  <2>1. MonthLength \in Nat
    BY ConstantsAssumption
  <2>2. Bounded(FreshRow, 1)
    BY <2>1, ConstantsAssumption DEF Bounded, FreshRow, NullLocks, Key
  <2> QED BY <2>2, ConstantsAssumption DEF Init, LockInv, MarkInv, NoFailure
<1>2. TypeInv /\ LockInv /\ [Next]_vars => LockInv'
  BY NextMark, NextBounded DEF LockInv
<1>3. LockInv => LocksBounded
  BY DEF LockInv, LocksBounded, Bounded
<1> QED BY <1>1, <1>2, <1>3, TypeInvariant, PTL DEF Spec
=============================================================================

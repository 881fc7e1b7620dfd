-------------------------- MODULE SharedStateProofs -------------------------
(***************************************************************************)
(* Proofs about the two components that keep what requests share in memory *)
(* alone.                                                                  *)
(*                                                                         *)
(* ProjectIds, for every set of requests, finite or not, and every number  *)
(* of onboarding attempts: nobody waits for a fetch that is over.          *)
(*                                                                         *)
(* Combos, for every number of models and requests, every sticky limit and *)
(* all times: whose turn it is, what a panel's answers come to, and what   *)
(* a fallback has tried when it gives up.                                  *)
(***************************************************************************)
EXTENDS ProjectIds, Combos, FunctionTheorems, FiniteSetTheorems, SequenceTheorems, TLAPS

-----------------------------------------------------------------------------
(* Project ids: the inductive invariant.                                   *)

ProjectConstants == None \notin Requests /\ MaxAttempts \in Nat \ {0}

\* Type correctness; no fetch onboards more often than it may.
ProjectTypeOK ==
  /\ cache \in {"none", "fresh", "stale"}
  /\ pending \in Requests \cup {None}
  /\ overdue \in BOOLEAN
  /\ fetch \in [Requests -> [stage : {"none", "load", "onboard", "pause", "settled"},
                             attempt : 0..MaxAttempts, aborted : BOOLEAN]]
  /\ asked \in [Requests -> Requests \cup {None}]
  /\ got \in [Requests -> {"nothing yet", "id", "null"}]

\* The entry of a connection is of a fetch that runs; only such can be overdue.
EntryRuns ==
  /\ pending # None => Running(pending)
  /\ overdue => pending # None

\* Whoever waits for a fetch, waits for one that still runs and will answer.
NobodyForgotten ==
  \A r \in Requests : asked[r] # None /\ got[r] = "nothing yet" => Running(asked[r])

FetchInv == ProjectTypeOK /\ EntryRuns /\ NobodyForgotten

-----------------------------------------------------------------------------
(* Project ids: the ways the set of running fetches changes.               *)

LEMMA NoFetchType ==
  ASSUME ProjectConstants
  PROVE  NoFetch \in [stage : {"none", "load", "onboard", "pause", "settled"},
                      attempt : 0..MaxAttempts, aborted : BOOLEAN]
<1>1. 0 \in 0..MaxAttempts
  BY DEF ProjectConstants
<1> QED BY <1>1, Zenon DEF NoFetch

\* A fetch ends: its entry is deleted, whosever it was, and its waiters go on.
LEMMA SettleKeeps ==
  ASSUME ProjectConstants, FetchInv, NEW f \in Requests, Running(f), NEW result \in {"id", "null"}, Settle(f, result)
  PROVE  FetchInv'
<1>1. ProjectTypeOK /\ NobodyForgotten
  BY DEF FetchInv
<1>2. /\ fetch' = [fetch EXCEPT ![f] = [NoFetch EXCEPT !.stage = "settled"]]
      /\ got' = [r \in Requests |-> IF asked[r] = f THEN result ELSE got[r]]
      /\ cache' = IF result = "id" THEN "fresh" ELSE cache
      /\ pending' = None /\ overdue' = FALSE /\ UNCHANGED asked
  BY DEF Settle
<1>3. ProjectTypeOK'
  <2>1. [NoFetch EXCEPT !.stage = "settled"] \in
          [stage : {"none", "load", "onboard", "pause", "settled"},
           attempt : 0..MaxAttempts, aborted : BOOLEAN]
    BY NoFetchType
  <2> QED BY <1>1, <1>2, <2>1 DEF ProjectTypeOK
<1>4. /\ ~Running(f)'
      /\ \A g \in Requests \ {f} : Running(g)' <=> Running(g)
  BY <1>1, <1>2 DEF Running, ProjectTypeOK, NoFetch
<1>5. EntryRuns'
  BY <1>2 DEF EntryRuns
<1>7. NobodyForgotten'
  <2> SUFFICES ASSUME NEW r \in Requests, asked'[r] # None, got'[r] = "nothing yet"
               PROVE  Running(asked[r])'
    BY <1>2 DEF NobodyForgotten
  <2>1. asked[r] # f /\ got[r] = "nothing yet" /\ asked[r] \in Requests
    BY <1>1, <1>2 DEF ProjectTypeOK
  <2>2. Running(asked[r])
    BY <1>1, <1>2, <2>1 DEF NobodyForgotten
  <2> QED BY <1>2, <1>4, <2>1, <2>2 DEF Running
<1> QED BY <1>3, <1>5, <1>7 DEF FetchInv

\* A request stays as it was, has its answer, or joins the fetch of the entry.
WaitersMove ==
  \A r \in Requests : \/ asked'[r] = asked[r] /\ got'[r] = got[r]
                      \/ got'[r] # "nothing yet"
                      \/ pending # None /\ asked'[r] = pending

\* The fetches that run stay the same.
LEMMA SameFetchesKeep ==
  ASSUME FetchInv, ProjectTypeOK',
         \A g \in Requests : Running(g)' <=> Running(g),
         pending' \in {pending, None},
         overdue' => pending' # None, WaitersMove
  PROVE  FetchInv'
<1>1. ProjectTypeOK /\ EntryRuns /\ NobodyForgotten
  BY DEF FetchInv
<1>2. EntryRuns'
  <2>1. pending' # None => pending' = pending /\ pending \in Requests
    BY <1>1 DEF ProjectTypeOK
  <2> QED BY <1>1, <2>1 DEF EntryRuns, Running
<1>4. NobodyForgotten'
  <2> SUFFICES ASSUME NEW r \in Requests, asked'[r] # None, got'[r] = "nothing yet"
               PROVE  fetch'[asked'[r]].stage \in {"load", "onboard", "pause"}
    BY DEF NobodyForgotten, Running
  <2>1. asked'[r] \in Requests
    BY DEF ProjectTypeOK
  <2>2. Running(asked'[r])
    BY <1>1 DEF NobodyForgotten, EntryRuns, WaitersMove
  <2> QED BY <2>1, <2>2 DEF Running
<1> QED BY <1>2, <1>4 DEF FetchInv

LEMMA InitKeeps ==
  ASSUME ProjectConstants, ProjectInit
  PROVE  FetchInv
<1>1. overdue = FALSE /\ fetch = [r \in Requests |-> NoFetch] /\ pending = None
      /\ asked = [r \in Requests |-> None]
  BY DEF ProjectInit
<1>2. overdue \in BOOLEAN
  BY <1>1, Zenon
<1>3. ProjectTypeOK
  <2>1. fetch \in [Requests -> [stage : {"none", "load", "onboard", "pause", "settled"},
                               attempt : 0..MaxAttempts, aborted : BOOLEAN]]
    BY <1>1, NoFetchType
  <2>2. got \in [Requests -> {"nothing yet", "id", "null"}] /\ cache \in {"none", "fresh", "stale"}
    BY DEF ProjectInit
  <2> QED BY <1>1, <1>2, <2>1, <2>2 DEF ProjectTypeOK
<1>4. \A r \in Requests : ~Running(r)
  BY <1>1 DEF Running, NoFetch
<1> QED BY <1>1, <1>3 DEF FetchInv, EntryRuns, NobodyForgotten

\* A fetch starts: only when there is no entry.
LEMMA AskUpstreamKeeps ==
  ASSUME ProjectConstants, FetchInv, NEW r \in Requests, AskUpstream(r)
  PROVE  FetchInv'
<1>1. ProjectTypeOK /\ EntryRuns /\ NobodyForgotten
  BY DEF FetchInv
<1>2. /\ pending = None /\ pending' = r /\ overdue' = FALSE /\ r # None
      /\ asked' = [asked EXCEPT ![r] = r]
      /\ fetch' = [fetch EXCEPT ![r].stage = "load"]
      /\ UNCHANGED <<cache, got>>
  BY DEF ProjectConstants, AskUpstream, Join
<1>3. ProjectTypeOK'
  <2>1. overdue' \in BOOLEAN
    BY <1>2, Zenon
  <2> QED BY <1>1, <1>2, <2>1 DEF ProjectTypeOK
<1>4. Running(r)' /\ \A g \in Requests \ {r} : Running(g)' <=> Running(g)
  BY <1>1, <1>2 DEF Running, ProjectTypeOK
<1>5. EntryRuns'
  BY <1>2, <1>4 DEF EntryRuns, Running
<1>7. NobodyForgotten'
  <2> SUFFICES ASSUME NEW q \in Requests, asked'[q] # None, got'[q] = "nothing yet"
               PROVE  fetch'[asked'[q]].stage \in {"load", "onboard", "pause"}
    BY DEF NobodyForgotten, Running
  <2>1. CASE asked'[q] = r
    BY <1>4, <2>1 DEF Running
  <2>2. CASE asked'[q] # r
    <3>1. asked'[q] = asked[q] /\ asked[q] \in Requests /\ got[q] = "nothing yet"
      BY <1>1, <1>2, <2>2 DEF ProjectTypeOK
    <3>2. Running(asked[q])
      BY <1>1, <3>1 DEF NobodyForgotten
    <3> QED BY <1>4, <2>2, <3>1, <3>2 DEF Running
  <2> QED BY <2>1, <2>2
<1> QED BY <1>3, <1>5, <1>7 DEF FetchInv

\* A fetch goes on to onboarding, to another attempt or to a pause.
LEMMA GotoKeeps ==
  ASSUME FetchInv, NEW f \in Requests, Running(f), NEW stage \in {"onboard", "pause"},
         NEW attempt \in 0..MaxAttempts, Goto(f, stage, attempt)
  PROVE  FetchInv'
<1>1. ProjectTypeOK /\ EntryRuns
  BY DEF FetchInv
<1>2. ProjectTypeOK'
  <2>1. fetch' \in [Requests -> [stage : {"none", "load", "onboard", "pause", "settled"},
                                attempt : 0..MaxAttempts, aborted : BOOLEAN]]
    <3> DEFINE new == [fetch[f] EXCEPT !.stage = stage, !.attempt = attempt]
    <3>1. fetch[f] \in [stage : {"none", "load", "onboard", "pause", "settled"},
                        attempt : 0..MaxAttempts, aborted : BOOLEAN]
      BY <1>1 DEF ProjectTypeOK
    <3>2. new \in [stage : {"none", "load", "onboard", "pause", "settled"},
                   attempt : 0..MaxAttempts, aborted : BOOLEAN]
      BY <3>1
    <3>3. fetch' = [fetch EXCEPT ![f] = new]
      BY <1>1 DEF Goto, ProjectTypeOK
    <3> HIDE DEF new
    <3> QED
      BY <1>1, <3>2, <3>3 DEF ProjectTypeOK
  <2>2. UNCHANGED <<cache, pending, overdue, asked, got>>
    BY DEF Goto
  <2> QED
    BY <1>1, <2>1, <2>2 DEF ProjectTypeOK
<1>3. \A g \in Requests : Running(g)' <=> Running(g)
  BY <1>1 DEF Goto, Running, ProjectTypeOK
<1> QED BY <1>1, <1>2, <1>3, SameFetchesKeep DEF Goto, EntryRuns, WaitersMove

LEMMA AgainKeeps ==
  ASSUME ProjectConstants, FetchInv, NEW f \in Requests, Running(f), Again(f)
  PROVE  FetchInv'
<1>1. CASE Settle(f, "null")
  BY <1>1, SettleKeeps
<1>2. CASE ~(fetch[f].attempt >= MaxAttempts) /\ Goto(f, "onboard", fetch[f].attempt + 1)
  <2>1. fetch[f].attempt \in 0..MaxAttempts
    BY DEF FetchInv, ProjectTypeOK
  <2>2. fetch[f].attempt + 1 \in 0..MaxAttempts
    BY <1>2, <2>1 DEF ProjectConstants
  <2> QED BY <1>2, <2>2, GotoKeeps
<1> QED BY <1>1, <1>2 DEF Again

LEMMA StepKeeps ==
  ASSUME ProjectConstants, FetchInv, NEW f \in Requests, Step(f)
  PROVE  FetchInv'
<1>1. fetch[f].attempt \in 0..MaxAttempts /\ 1 \in 0..MaxAttempts
  <2>1. fetch[f].attempt \in 0..MaxAttempts
    BY DEF FetchInv, ProjectTypeOK
  <2>2. 1 \in 0..MaxAttempts
    BY DEF ProjectConstants
  <2> QED BY <2>1, <2>2
<1>2. CASE Load(f)
  <2>1. Running(f)
    BY <1>2 DEF Load, Running
  <2> QED BY <1>1, <1>2, <2>1, SettleKeeps, GotoKeeps DEF Load
<1>3. CASE Onboard(f)
  <2>1. Running(f)
    BY <1>3 DEF Onboard, Running
  <2> QED BY <1>1, <1>3, <2>1, SettleKeeps, GotoKeeps DEF Onboard
<1>4. CASE OnboardFails(f)
  <2>1. Running(f)
    BY <1>4 DEF OnboardFails, Running
  <2> QED BY <1>1, <1>4, <2>1, SettleKeeps, GotoKeeps DEF OnboardFails
<1>5. CASE OnboardCut(f) \/ PauseOver(f)
  <2>1. Running(f) /\ Again(f)
    BY <1>5 DEF OnboardCut, PauseOver, Running
  <2> QED BY <2>1, AgainKeeps
<1> QED BY <1>2, <1>3, <1>4, <1>5 DEF Step

LEMMA NextKeeps ==
  ASSUME ProjectConstants, FetchInv, [ProjectNext]_projectVars
  PROVE  FetchInv'
<1>1. ProjectTypeOK /\ EntryRuns
  BY DEF FetchInv
<1>2. ASSUME NEW r \in Requests, AskCached(r) PROVE FetchInv'
  <2>1. ProjectTypeOK'
    BY <1>1, <1>2 DEF AskCached, Join, ProjectTypeOK
  <2>2. \A g \in Requests : Running(g)' <=> Running(g)
    BY <1>2 DEF AskCached, Running
  <2>3. WaitersMove
    BY <1>1, <1>2 DEF AskCached, Join, ProjectTypeOK, WaitersMove
  <2> QED BY <1>1, <1>2, <2>1, <2>2, <2>3, SameFetchesKeep DEF AskCached, EntryRuns
<1>3. ASSUME NEW r \in Requests, AskPending(r) PROVE FetchInv'
  <2>1. ProjectTypeOK' /\ pending # None
    BY <1>1, <1>3 DEF AskPending, Join, ProjectTypeOK
  <2>2. \A g \in Requests : Running(g)' <=> Running(g)
    BY <1>3 DEF AskPending, Running
  <2>3. WaitersMove
    BY <1>1, <1>3, <2>1 DEF AskPending, Join, ProjectTypeOK, WaitersMove
  <2> QED BY <1>1, <1>3, <2>1, <2>2, <2>3, SameFetchesKeep DEF AskPending, EntryRuns
<1>4. CASE Invalidate
  <2>1. ProjectTypeOK' /\ \A g \in Requests : Running(g)' <=> Running(g)
    BY <1>1, <1>4 DEF Invalidate, ProjectTypeOK, Running
  <2> QED BY <1>1, <1>4, <2>1, SameFetchesKeep DEF Invalidate, EntryRuns, WaitersMove
<1>5. CASE Sweep
  <2>1. CASE overdue
    <3>1. /\ pending # None /\ pending' = None /\ overdue' = FALSE
          /\ fetch' = [fetch EXCEPT ![pending].aborted = TRUE] /\ UNCHANGED <<asked, got>>
      BY <1>1, <1>5, <2>1 DEF Sweep, EntryRuns
    <3>2. overdue' \in BOOLEAN /\ cache' \in {"none", "fresh", "stale"} /\ pending \in Requests
      <4>1. overdue' \in BOOLEAN
        BY <3>1, Zenon
      <4> QED BY <1>1, <1>5, <3>1, <4>1 DEF Sweep, ProjectTypeOK
    <3>3. fetch' \in [Requests -> [stage : {"none", "load", "onboard", "pause", "settled"},
                                   attempt : 0..MaxAttempts, aborted : BOOLEAN]]
      BY <1>1, <3>1 DEF ProjectTypeOK
    <3>4. ProjectTypeOK'
      <4>1. pending' \in Requests \cup {None}
        BY <3>1
      <4>2. /\ asked' \in [Requests -> Requests \cup {None}]
            /\ got' \in [Requests -> {"nothing yet", "id", "null"}]
        BY <1>1, <3>1 DEF ProjectTypeOK
      <4> QED BY <3>2, <3>3, <4>1, <4>2 DEF ProjectTypeOK
    <3>5. \A g \in Requests : Running(g)' <=> Running(g)
      BY <1>1, <3>1, <3>2 DEF Running, ProjectTypeOK
    <3> QED BY <3>1, <3>4, <3>5, SameFetchesKeep DEF WaitersMove
  <2>2. CASE ~overdue
    <3>1. ProjectTypeOK' /\ UNCHANGED <<pending, overdue, fetch, asked, got>>
      BY <1>1, <1>5, <2>2 DEF Sweep, ProjectTypeOK
    <3>2. \A g \in Requests : Running(g)' <=> Running(g)
      BY <3>1 DEF Running
    <3> QED BY <1>1, <3>1, <3>2, SameFetchesKeep DEF EntryRuns, WaitersMove
  <2> QED BY <2>1, <2>2
<1>6. CASE TimePasses
  <2>1. overdue' = overdue \/ (pending # None /\ overdue' = TRUE)
    BY <1>6 DEF TimePasses
  <2>2. overdue' \in BOOLEAN
    BY <1>1, <2>1, Zenon DEF ProjectTypeOK
  <2>3. ProjectTypeOK' /\ \A g \in Requests : Running(g)' <=> Running(g)
    BY <1>1, <1>6, <2>2 DEF TimePasses, ProjectTypeOK, Running
  <2> QED BY <1>1, <1>6, <2>1, <2>3, SameFetchesKeep DEF TimePasses, EntryRuns, WaitersMove
<1>7. CASE UNCHANGED projectVars
  <2>1. ProjectTypeOK' /\ \A g \in Requests : Running(g)' <=> Running(g)
    BY <1>1, <1>7 DEF projectVars, ProjectTypeOK, Running
  <2> QED BY <1>1, <1>7, <2>1, SameFetchesKeep DEF projectVars, EntryRuns, WaitersMove
<1> QED
  BY <1>2, <1>3, <1>4, <1>5, <1>6, <1>7, AskUpstreamKeeps, StepKeeps DEF ProjectNext, Ask

LEMMA Invariance ==
  ASSUME ProjectConstants
  PROVE  ProjectSpec => []FetchInv
<1>1. ProjectInit => FetchInv
  BY InitKeeps
<1>2. FetchInv /\ [ProjectNext]_projectVars => FetchInv'
  BY NextKeeps
<1> QED BY <1>1, <1>2, PTL DEF ProjectSpec

\* Every state of the project id cache is of its type; in particular no fetch
\* onboards more often than ONBOARD_MAX_ATTEMPTS.
THEOREM TypeCorrect ==
  ASSUME ProjectConstants
  PROVE  ProjectSpec => []ProjectTypeOK
<1>1. FetchInv => ProjectTypeOK
  BY DEF FetchInv
<1> QED BY <1>1, Invariance, PTL

\* No request is forgotten: as long as it has no answer, the fetch it asked for
\* runs, even when that one was given up or lost its entry to another.
THEOREM WaitersHaveAFetch ==
  ASSUME ProjectConstants
  PROVE  ProjectSpec => []NobodyForgotten
<1>1. FetchInv => NobodyForgotten
  BY DEF FetchInv
<1> QED BY <1>1, Invariance, PTL

-----------------------------------------------------------------------------
(* Combos: whose turn it is.                                               *)

L == StickyLimit
Last == NumModels - 1

\* What the rotation stands for: the models before the one whose turn it is had
\* all their turns, it had u of them, and those behind it none; of the last model's
\* turns each is one that every model has had.
Turns(i, u) ==
    [m \in Member |->
        IF i = Last THEN IF m = NumModels THEN 0 ELSE L - u
        ELSE IF m <= i THEN L ELSE IF m = i + 1 THEN u ELSE 0]

Stands(i, u) == rotation = [index |-> i, uses |-> u] /\ slots = Turns(i, u)

TurnsInv ==
    /\ mixed \in BOOLEAN
    /\ ~mixed => \E i \in 0..Last, u \in 0..(L - 1) : Stands(i, u)

LEMMA ComboSizes ==
    /\ NumModels \in Nat /\ NumModels >= 2 /\ L \in Nat /\ L >= 1 /\ Last \in Nat
    /\ Member = 1..NumModels
BY CombosAssumption DEF CombosAssumption, Member, L, Last

LEMMA FirstTurn ==
    ASSUME rotation' = [index |-> 0, uses |-> 0], slots' = NoTurns, mixed' = FALSE
    PROVE  TurnsInv'
<1>1. NoTurns = Turns(0, 0)
  BY ComboSizes DEF NoTurns, Turns, Last
<1>2. 0 \in 0..Last /\ 0 \in 0..(L - 1)
  BY ComboSizes
<1>3. Stands(0, 0)'
  BY <1>1 DEF Stands
<1> QED
  BY <1>2, <1>3 DEF TurnsInv

\* A turn is given to the model whose turn it is, and the rotation moves with it.
LEMMA TurnGiven ==
    ASSUME NEW i \in 0..Last, NEW u \in 0..(L - 1), Stands(i, u)
    PROVE  LET used == u + 1 >= L
           IN  /\ Turn(Members) = i
               /\ Members[i + 1] = i + 1
               /\ NextRotation(Members) =
                     [index |-> IF ~used THEN i ELSE IF i = Last THEN 0 ELSE i + 1,
                      uses |-> IF used THEN 0 ELSE u + 1]
               /\ GiveTurn(i + 1) =
                     Turns(IF ~used THEN i ELSE IF i = Last THEN 0 ELSE i + 1,
                           IF used THEN 0 ELSE u + 1)
<1> DEFINE used == u + 1 >= L
           j == IF ~used THEN i ELSE IF i = Last THEN 0 ELSE i + 1
           v == IF used THEN 0 ELSE u + 1
<1>1. /\ NumModels \in Nat /\ NumModels >= 2 /\ L \in Nat /\ L >= 1 /\ Last = NumModels - 1
      /\ Member = 1..NumModels /\ i \in Nat /\ u \in Nat /\ i <= NumModels - 1
      /\ u <= L - 1
  BY ComboSizes DEF Last
<1>2. Len(Members) = NumModels /\ Members[i + 1] = i + 1
  BY <1>1 DEF Members
<1>3. rotation.index = i /\ rotation.uses = u
  BY DEF Stands
<1>4. Turn(Members) = i
  BY <1>1, <1>2, <1>3 DEF Turn
<1>5. (i + 1) % NumModels = IF i = Last THEN 0 ELSE i + 1
  <2>1. CASE i = Last
    <3>1. NumModels % NumModels = 0
      BY <1>1
    <3> QED
      BY <1>1, <2>1, <3>1
  <2>2. CASE i # Last
    <3> DEFINE next == i + 1
    <3>1. next \in 0..(NumModels - 1) /\ next = i + 1
      BY <1>1, <2>2
    <3> HIDE DEF next
    <3>2. next % NumModels = next
      BY <1>1, <3>1
    <3> QED
      BY <2>2, <3>1, <3>2
  <2> QED
    BY <2>1, <2>2
<1>6. NextRotation(Members) = [index |-> j, uses |-> v]
  BY <1>2, <1>3, <1>4, <1>5 DEF NextRotation, UsedUp, L
<1> DEFINE more == [slots EXCEPT ![i + 1] = @ + 1]
<1>7. /\ more = [m \in 1..NumModels |->
                    IF m = i + 1 THEN Turns(i, u)[m] + 1 ELSE Turns(i, u)[m]]
  BY <1>1 DEF Stands, Turns
<1>8. CASE i # Last
  <2>1. more[NumModels] = 0
    BY <1>1, <1>7, <1>8 DEF Turns
  <2>2. GiveTurn(i + 1) = more
    BY <1>1, <2>1 DEF GiveTurn
  <2>3. more = Turns(j, v)
    BY <1>1, <1>7, <1>8 DEF Turns
  <2> QED
    BY <1>2, <1>4, <1>6, <2>2, <2>3
<1>9. CASE i = Last
  <2>1. \A m \in 1..NumModels : more[m] = IF m = NumModels THEN 1 ELSE L - u
    BY <1>1, <1>7, <1>9 DEF Turns
  <2>2. \A m \in 1..NumModels : more[m] > 0
    BY <1>1, <2>1
  <2>3. GiveTurn(i + 1) = [m \in 1..NumModels |-> more[m] - 1]
    BY <1>1, <2>2 DEF GiveTurn
  <2>4. \A m \in 1..NumModels : more[m] - 1 = IF m = NumModels THEN 0 ELSE L - (u + 1)
    BY <1>1, <2>1
  <2>5. Turns(j, v) = [m \in 1..NumModels |-> IF m = NumModels THEN 0 ELSE L - (u + 1)]
    <3>1. CASE used
      BY <1>1, <1>9, <3>1 DEF Turns
    <3>2. CASE ~used
      BY <1>1, <1>9, <3>2 DEF Turns
    <3> QED
      BY <3>1, <3>2
  <2>6. GiveTurn(i + 1) = Turns(j, v)
    <3> HIDE DEF more, j, v
    <3> QED
      BY <2>3, <2>4, <2>5
  <2> QED
    BY <1>2, <1>4, <1>6, <2>6
<1> QED
  BY <1>8, <1>9

LEMMA NextTurns ==
    ASSUME TurnsInv, [Next]_vars
    PROVE  TurnsInv'
<1>1. CASE UNCHANGED <<rotation, slots, mixed>>
  BY <1>1 DEF TurnsInv, Stands
<1>2. ASSUME NEW r \in Request, NEW media \in BOOLEAN, StartRoundRobin(r, media)
      PROVE  TurnsInv'
  <2> DEFINE list == Augmented(media)
  <2>1. /\ rotation' = NextRotation(list)
        /\ mixed' = (mixed \/ list # Members)
        /\ slots' = IF mixed' THEN NoTurns ELSE GiveTurn(list[Turn(list) + 1])
    BY <1>2 DEF StartRoundRobin
  <2> HIDE DEF list
  <2>2. mixed' \in BOOLEAN
    BY <2>1, Zenon DEF TurnsInv
  <2>3. CASE mixed'
    BY <2>2, <2>3 DEF TurnsInv
  <2>4. CASE ~mixed'
    <3>1. ~mixed /\ list = Members
      BY <2>1, <2>4
    <3>2. PICK i \in 0..Last, u \in 0..(L - 1) : Stands(i, u)
      BY <3>1 DEF TurnsInv
    <3> DEFINE used == u + 1 >= L
               j == IF ~used THEN i ELSE IF i = Last THEN 0 ELSE i + 1
               v == IF used THEN 0 ELSE u + 1
    <3>3. /\ Turn(Members) = i /\ Members[i + 1] = i + 1
          /\ NextRotation(Members) = [index |-> j, uses |-> v]
          /\ GiveTurn(i + 1) = Turns(j, v)
      BY <3>2, TurnGiven
    <3>4. j \in 0..Last /\ v \in 0..(L - 1)
      BY ComboSizes
    <3> HIDE DEF j, v
    <3>5. rotation' = [index |-> j, uses |-> v] /\ slots' = Turns(j, v)
      <4>1. /\ rotation' = NextRotation(Members)
            /\ slots' = GiveTurn(Members[Turn(Members) + 1])
        BY <2>1, <2>4, <3>1
      <4> QED
        BY <3>3, <4>1
    <3>6. Stands(j, v)'
      BY <3>5 DEF Stands
    <3> QED
      BY <2>2, <3>4, <3>6 DEF TurnsInv
  <2> QED
    BY <2>3, <2>4
<1>3. CASE ResetRotation
  BY <1>3, FirstTurn DEF ResetRotation
<1>4. \/ UNCHANGED <<rotation, slots, mixed>>
      \/ \E r \in Request, media \in BOOLEAN : StartRoundRobin(r, media)
      \/ ResetRotation
  <2>1. CASE \E r \in Request : OwnStep(r) \/ FinalAnswer(r) \/ Leave(r)
    BY <2>1 DEF OwnStep, Rested, GraceEnds, PanelTimesOut, ReadResult, FinalAnswer, Leave
  <2>2. CASE Tick \/ UNCHANGED vars
    BY <2>2 DEF Tick, vars
  <2>3. CASE \E r \in Request : StartFusion(r) \/ ModelDecides(r)
                \/ \E media \in BOOLEAN : StartFallback(r, media)
    BY <2>3 DEF StartFusion, ModelDecides, StartFallback
  <2>4. CASE \E r \in Request, hint \in Hint \cup {0}, transient \in BOOLEAN :
                ModelFails(r, hint, transient)
    BY <2>4 DEF ModelFails
  <2>5. CASE \E r \in Request, m \in Member, result \in PanelResult :
                PanelSettles(r, m, result) \/ StragglerLands(r, m, result)
    BY <2>5 DEF PanelSettles, StragglerLands
  <2> QED
    BY <2>1, <2>2, <2>3, <2>4, <2>5 DEF Next
<1> QED
  BY <1>1, <1>2, <1>3, <1>4

\* Round robin is fair for any number of models and any sticky limit: as long as all
\* requests rotate the combo's own list, no model is ahead of another by more turns
\* than the limit.
THEOREM RoundRobinIsFair == Spec => []TurnsAreFair
<1>1. Init => TurnsInv
  <2> SUFFICES ASSUME Init PROVE TurnsInv
    OBVIOUS
  <2>1. slots = Turns(0, 0)
    BY ComboSizes DEF Init, NoTurns, Turns, Last
  <2>2. Stands(0, 0) /\ mixed = FALSE
    BY <2>1 DEF Init, Stands
  <2>3. 0 \in 0..Last /\ 0 \in 0..(L - 1)
    BY ComboSizes
  <2> QED
    BY <2>2, <2>3 DEF TurnsInv
<1>2. TurnsInv /\ [Next]_vars => TurnsInv'
  BY NextTurns
<1>3. TurnsInv => TurnsAreFair
  <2> SUFFICES ASSUME TurnsInv, ~mixed, NEW a \in Member, NEW b \in Member
               PROVE  slots[a] - slots[b] <= StickyLimit
    BY DEF TurnsAreFair
  <2>1. PICK i \in 0..Last, u \in 0..(L - 1) : slots = Turns(i, u)
    BY DEF TurnsInv, Stands
  <2>2. slots[a] \in 0..L /\ slots[b] \in 0..L
    BY <2>1, ComboSizes DEF Turns
  <2> QED
    BY <2>2, ComboSizes DEF L
<1> QED
  BY <1>1, <1>2, <1>3, PTL DEF Spec

-----------------------------------------------------------------------------
(* Combos: the panel's answers.                                            *)

Outs == [Member -> PanelResult \union {"none"}]

PanelTypes ==
    /\ pc \in [Request -> PC]
    /\ pos \in [Request -> Nat]
    /\ out \in [Request -> Outs]
    /\ closed \in [Request -> SUBSET Member]
    /\ answers \in [Request -> SUBSET Member]
    /\ DOMAIN reply = Request

\* While the results are read, what was usable when the panel closed still is, and
\* the places passed have given theirs up.
Panel(r) ==
    /\ pc[r] # "done" => reply[r].kind = "none"
    /\ pc[r] = "reading" =>
          /\ pos[r] \in Member
          /\ closed[r] \subseteq Usable(out[r])
          /\ \A m \in closed[r] : m < pos[r] => m \in answers[r]
    /\ pc[r] \in {"direct", "judging"} \/ reply[r].kind = "panelFailed" =>
          closed[r] \subseteq answers[r]
    /\ pc[r] = "judging" => Cardinality(answers[r]) >= 2
    /\ pc[r] = "direct" => Cardinality(answers[r]) = 1

PanelInv == PanelTypes /\ \A r \in Request : Panel(r)

\* A step is about one request.
Same(q) == /\ pc'[q] = pc[q] /\ pos'[q] = pos[q] /\ out'[q] = out[q]
           /\ closed'[q] = closed[q] /\ answers'[q] = answers[q] /\ reply'[q] = reply[q]
Only(r) == \A q \in Request \ {r} : Same(q)

LEMMA OnlyOne ==
    ASSUME PanelInv, PanelTypes', NEW r \in Request, Only(r), Panel(r)'
    PROVE  PanelInv'
<1>1. ASSUME NEW q \in Request \ {r} PROVE Panel(q)'
  <2>1. Panel(q) /\ Same(q)
    BY DEF PanelInv, Only
  <2> QED
    BY <2>1 DEF Panel, Same
<1> QED
  BY <1>1 DEF PanelInv

\* Nothing is asked of a request that is not at its panel's answers.
LEMMA Elsewhere ==
    ASSUME NEW r, pc'[r] \notin {"reading", "direct", "judging"},
           reply'[r].kind # "panelFailed",
           pc'[r] # "done" => reply'[r].kind = "none"
    PROVE  Panel(r)'
BY DEF Panel

\* A request answers, or goes on without one.
LEMMA GoesOn ==
    ASSUME PanelInv, NEW r \in Request, NEW next \in {"trying", "resting", "collecting"},
           pc[r] # "done", pc' = [pc EXCEPT ![r] = next],
           pos' \in [Request -> Nat], \A q \in Request \ {r} : pos'[q] = pos[q],
           UNCHANGED <<out, closed, answers, reply>>
    PROVE  PanelInv'
<1>1. PanelTypes'
  BY DEF PanelInv, PanelTypes, PC
<1>2. Only(r) /\ pc'[r] = next /\ reply'[r].kind = "none"
  BY DEF PanelInv, PanelTypes, Only, Same, Panel
<1>3. Panel(r)'
  BY <1>2, Elsewhere
<1> QED
  BY <1>1, <1>2, <1>3, OnlyOne

LEMMA AnswerGiven ==
    ASSUME PanelInv, NEW r \in Request, NEW kind, kind # "panelFailed", NEW date,
           Answer(r, kind, date), UNCHANGED <<pos, out, closed, answers>>
    PROVE  PanelInv'
<1>1. pc' = [pc EXCEPT ![r] = "done"]
      /\ reply' = [reply EXCEPT ![r] = [kind |-> kind, retryAfter |-> date]]
  BY DEF Answer
<1>2. PanelTypes'
  BY <1>1 DEF PanelInv, PanelTypes, PC
<1>3. Only(r) /\ pc'[r] = "done" /\ reply'[r].kind = kind
  BY <1>1 DEF PanelInv, PanelTypes, Only, Same
<1>4. Panel(r)'
  BY <1>3, Elsewhere
<1> QED
  BY <1>2, <1>3, <1>4, OnlyOne

LEMMA Advances ==
    ASSUME PanelInv, NEW r \in Request, pc[r] # "done", Advance(r),
           UNCHANGED <<out, closed, answers>>
    PROVE  PanelInv'
<1>1. CASE pos[r] < Len(order[r])
  <2>1. pos' = [pos EXCEPT ![r] = @ + 1] /\ pc' = [pc EXCEPT ![r] = "trying"]
        /\ UNCHANGED reply
    BY <1>1 DEF Advance
  <2>2. pos' \in [Request -> Nat] /\ \A q \in Request \ {r} : pos'[q] = pos[q]
    BY <2>1 DEF PanelInv, PanelTypes
  <2> QED
    BY <2>1, <2>2, GoesOn
<1>2. CASE ~(pos[r] < Len(order[r]))
  <2>1. Answer(r, "exhausted", earliest'[r]) /\ UNCHANGED pos
    BY <1>2 DEF Advance
  <2> QED
    BY <2>1, AnswerGiven
<1> QED
  BY <1>1, <1>2

\* The panel closes on what is usable then.
LEMMA Closes ==
    ASSUME PanelInv, NEW r \in Request, pc[r] = "collecting",
           NEW o \in Outs, Close(r, o), out' = [out EXCEPT ![r] = o],
           UNCHANGED <<answers, reply>>
    PROVE  PanelInv'
<1>1. /\ pc' = [pc EXCEPT ![r] = "reading"] /\ pos' = [pos EXCEPT ![r] = 1]
      /\ closed' = [closed EXCEPT ![r] = Usable(o)]
  BY DEF Close
<1>2. Usable(o) \subseteq Member
  BY DEF Usable
<1>3. PanelTypes'
  BY <1>1, <1>2 DEF PanelInv, PanelTypes, PC
<1>4. Only(r)
  BY <1>1 DEF PanelInv, PanelTypes, Only, Same
<1>5. /\ pc'[r] = "reading" /\ pos'[r] = 1 /\ closed'[r] = Usable(o) /\ out'[r] = o
      /\ reply'[r] = reply[r] /\ reply[r].kind = "none"
  BY <1>1 DEF PanelInv, PanelTypes, Panel
<1>6. 1 \in Member /\ \A m \in Member : ~(m < 1)
  BY ComboSizes
<1>7. Usable(out[r])' = Usable(o)
  BY <1>5 DEF Usable
<1>8. Panel(r)'
  BY <1>2, <1>5, <1>6, <1>7 DEF Panel
<1> QED
  BY <1>3, <1>4, <1>8, OnlyOne

LEMMA SettlesStep ==
    ASSUME PanelInv, NEW r \in Request, NEW m \in Member,
           NEW result \in PanelResult, PanelSettles(r, m, result)
    PROVE  PanelInv'
<1> DEFINE o == [out[r] EXCEPT ![m] = result]
<1>1. /\ pc[r] = "collecting" /\ out' = [out EXCEPT ![r] = o] /\ UNCHANGED <<answers, reply>>
      /\ o \in Outs
  BY DEF PanelSettles, PanelInv, PanelTypes, Outs
<1>2. CASE \A x \in Member : o[x] # "none"
  <2>1. Close(r, o)
    BY <1>2 DEF PanelSettles
  <2> HIDE DEF o
  <2> QED
    BY <1>1, <2>1, Closes
<1>3. CASE ~\A x \in Member : o[x] # "none"
  <2>1. UNCHANGED <<pc, pos, closed>>
    BY <1>3 DEF PanelSettles
  <2> HIDE DEF o
  <2>2. PanelTypes' /\ Only(r)
    BY <1>1, <2>1 DEF PanelInv, PanelTypes, Only, Same
  <2>3. Panel(r)'
    BY <1>1, <2>1, Elsewhere DEF PanelInv, Panel
  <2> QED
    BY <2>2, <2>3, OnlyOne
<1> QED
  BY <1>2, <1>3

LEMMA StragglerStep ==
    ASSUME PanelInv, NEW r \in Request, NEW m \in Member,
           NEW result \in PanelResult, StragglerLands(r, m, result)
    PROVE  PanelInv'
<1> DEFINE o == [out[r] EXCEPT ![m] = result]
<1>1. /\ pc[r] = "reading" /\ out[r][m] = "none" /\ out[r] \in Outs
      /\ UNCHANGED <<pc, pos, closed, answers, reply>>
  BY DEF StragglerLands, PanelInv, PanelTypes
<1>2. out' = [out EXCEPT ![r] = o] /\ o \in Outs
  BY DEF StragglerLands, PanelInv, PanelTypes, Outs
<1>3. \A x \in Member \ {m} : o[x] = out[r][x]
  BY <1>1 DEF Outs
<1> HIDE DEF o
<1>4. PanelTypes' /\ Only(r) /\ out'[r] = o
  BY <1>1, <1>2 DEF PanelInv, PanelTypes, Only, Same
<1>5. Usable(out[r]) \subseteq Usable(out[r])'
  BY <1>1, <1>3, <1>4 DEF Usable
<1>6. Panel(r)'
  BY <1>1, <1>5 DEF PanelInv, Panel
<1> QED
  BY <1>4, <1>6, OnlyOne

\* A set of models that is neither empty nor a single one has two.
LEMMA TwoOrMore ==
    ASSUME NEW S \in SUBSET Member, S # {}, ~Lone(S)
    PROVE  Cardinality(S) >= 2
<1>1. IsFiniteSet(S)
  <2>1. IsFiniteSet(1..NumModels)
    BY ComboSizes, FS_Interval
  <2> QED
    BY <2>1, ComboSizes, FS_Subset
<1>2. Cardinality(S) \in Nat /\ Cardinality(S) # 0
  BY <1>1, FS_CardinalityType, FS_EmptySet
<1> QED
  BY <1>2 DEF Lone

LEMMA ReadStep ==
    ASSUME PanelInv, NEW r \in Request, ReadResult(r)
    PROVE  PanelInv'
<1> DEFINE usable == answers[r] \union ({pos[r]} \intersect Usable(out[r]))
<1>1. /\ pc[r] = "reading" /\ answers' = [answers EXCEPT ![r] = usable] /\ UNCHANGED closed
  BY DEF ReadResult
<1>2. /\ pos[r] \in Member /\ closed[r] \subseteq Usable(out[r])
      /\ \A m \in closed[r] : m < pos[r] => m \in answers[r]
      /\ reply[r].kind = "none"
  BY <1>1 DEF PanelInv, Panel
<1>3. usable \subseteq Member
  BY DEF PanelInv, PanelTypes, Usable
<1>4. closed[r] \subseteq Member
  BY DEF PanelInv, PanelTypes
<1>5. \A m \in closed[r] : m < pos[r] + 1 => m \in usable
  <2> SUFFICES ASSUME NEW m \in closed[r], m < pos[r] + 1 PROVE m \in usable
    OBVIOUS
  <2>1. m < pos[r] \/ m = pos[r]
    BY <1>2, <1>4, ComboSizes
  <2> QED
    BY <1>2, <2>1
<1> HIDE DEF usable
<1>6. CASE pos[r] < NumModels
  <2>1. pos' = [pos EXCEPT ![r] = @ + 1] /\ UNCHANGED <<pc, out, reply>>
    BY <1>6 DEF ReadResult
  <2>2. PanelTypes'
    BY <1>1, <1>3, <2>1 DEF PanelInv, PanelTypes
  <2>3. Only(r) /\ answers'[r] = usable /\ pos'[r] = pos[r] + 1
    BY <1>1, <2>1 DEF PanelInv, PanelTypes, Only, Same
  <2>4. pos[r] + 1 \in Member
    BY <1>2, <1>6, ComboSizes
  <2>5. Panel(r)'
    BY <1>1, <1>2, <1>5, <2>1, <2>3, <2>4 DEF Panel, Usable
  <2> QED
    BY <2>2, <2>3, <2>5, OnlyOne
<1>7. CASE ~(pos[r] < NumModels)
  <2>1. UNCHANGED pos /\ out' = [out EXCEPT ![r] = NoPanel]
    BY <1>7 DEF ReadResult
  <2>2. NoPanel \in Outs
    BY DEF NoPanel, Outs
  <2>3. closed[r] \subseteq usable
    <3> SUFFICES ASSUME NEW m \in closed[r] PROVE m \in usable
      OBVIOUS
    <3>1. m < pos[r] + 1
      BY <1>2, <1>4, <1>7, ComboSizes
    <3> QED
      BY <1>5, <3>1
  <2>4. CASE usable = {}
    <3>1. Answer(r, "panelFailed", 0)
      BY <1>7, <2>4 DEF ReadResult, usable
    <3>2. pc' = [pc EXCEPT ![r] = "done"]
          /\ reply' = [reply EXCEPT ![r] = [kind |-> "panelFailed", retryAfter |-> 0]]
      BY <3>1 DEF Answer
    <3>3. PanelTypes'
      BY <1>1, <1>3, <2>1, <2>2, <3>2 DEF PanelInv, PanelTypes, PC
    <3>4. Only(r) /\ answers'[r] = usable /\ pc'[r] = "done"
      BY <1>1, <2>1, <3>2 DEF PanelInv, PanelTypes, Only, Same
    <3>5. Panel(r)'
      BY <1>1, <2>3, <3>4 DEF Panel
    <3> QED
      BY <3>3, <3>4, <3>5, OnlyOne
  <2>5. CASE usable # {}
    <3> DEFINE next == IF Lone(usable) THEN "direct" ELSE "judging"
    <3>1. pc' = [pc EXCEPT ![r] = next] /\ UNCHANGED reply
      BY <1>7, <2>5 DEF ReadResult, usable
    <3>2. /\ next \in {"direct", "judging"}
          /\ next = "direct" => Cardinality(usable) = 1
          /\ next = "judging" => Cardinality(usable) >= 2
      BY <1>3, <2>5, TwoOrMore DEF Lone
    <3> HIDE DEF next
    <3>3. PanelTypes'
      BY <1>1, <1>3, <2>1, <2>2, <3>1, <3>2 DEF PanelInv, PanelTypes, PC
    <3>4. Only(r) /\ answers'[r] = usable /\ pc'[r] = next
      BY <1>1, <2>1, <3>1 DEF PanelInv, PanelTypes, Only, Same
    <3>5. Panel(r)'
      BY <1>1, <1>2, <2>3, <3>1, <3>2, <3>4 DEF Panel
    <3> QED
      BY <3>3, <3>4, <3>5, OnlyOne
  <2> QED
    BY <2>4, <2>5
<1> QED
  BY <1>6, <1>7

LEMMA LeaveStep ==
    ASSUME PanelInv, NEW r \in Request, Leave(r)
    PROVE  PanelInv'
<1>1. /\ pc' = [pc EXCEPT ![r] = "idle"] /\ pos' = [pos EXCEPT ![r] = 0]
      /\ closed' = [closed EXCEPT ![r] = {}] /\ answers' = [answers EXCEPT ![r] = {}]
      /\ reply' = [reply EXCEPT ![r] = NoReply] /\ UNCHANGED out
  BY DEF Leave
<1>2. PanelTypes'
  BY <1>1 DEF PanelInv, PanelTypes, PC
<1>3. Only(r) /\ pc'[r] = "idle" /\ reply'[r].kind = "none"
  BY <1>1 DEF PanelInv, PanelTypes, Only, Same, NoReply
<1>4. Panel(r)'
  BY <1>3, Elsewhere
<1> QED
  BY <1>2, <1>3, <1>4, OnlyOne

LEMMA NextPanel ==
    ASSUME PanelInv, [Next]_vars
    PROVE  PanelInv'
<1>0. PanelTypes /\ \A r \in Request : pc[r] \in PC
  BY DEF PanelInv, PanelTypes
<1>1. CASE UNCHANGED <<pc, pos, out, closed, answers, reply>>
  BY <1>1 DEF PanelInv, PanelTypes, Panel, Usable
<1>2. ASSUME NEW r \in Request, NEW media \in BOOLEAN,
             StartFallback(r, media) \/ StartRoundRobin(r, media)
      PROVE  PanelInv'
  <2>1. /\ pc[r] = "idle" /\ pc' = [pc EXCEPT ![r] = "trying"]
        /\ pos' = [pos EXCEPT ![r] = 1] /\ UNCHANGED <<out, closed, answers, reply>>
    BY <1>2 DEF StartFallback, StartRoundRobin, TryInOrder
  <2>2. pos' \in [Request -> Nat] /\ \A q \in Request \ {r} : pos'[q] = pos[q]
    BY <1>0, <2>1 DEF PanelTypes
  <2> QED
    BY <2>1, <2>2, GoesOn
<1>3. ASSUME NEW r \in Request, StartFusion(r) PROVE PanelInv'
  BY <1>0, <1>3, GoesOn DEF StartFusion, PanelTypes
<1>4. ASSUME NEW r \in Request, ModelDecides(r) PROVE PanelInv'
  BY <1>4, AnswerGiven DEF ModelDecides
<1>5. ASSUME NEW r \in Request, NEW hint, NEW transient \in BOOLEAN,
             ModelFails(r, hint, transient)
      PROVE  PanelInv'
  <2>1. pc[r] = "trying" /\ UNCHANGED <<out, closed, answers>>
    BY <1>5 DEF ModelFails
  <2>2. CASE transient
    <3>1. pc' = [pc EXCEPT ![r] = "resting"] /\ UNCHANGED <<pos, reply>>
      BY <1>5, <2>2 DEF ModelFails
    <3> QED
      BY <1>0, <2>1, <3>1, GoesOn DEF PanelTypes
  <2>3. CASE ~transient
    <3>1. Advance(r)
      BY <1>5, <2>3 DEF ModelFails
    <3> QED
      BY <2>1, <3>1, Advances
  <2> QED
    BY <2>2, <2>3
<1>6. ASSUME NEW r \in Request, NEW m \in Member, NEW result \in PanelResult,
             PanelSettles(r, m, result) \/ StragglerLands(r, m, result)
      PROVE  PanelInv'
  BY <1>6, SettlesStep, StragglerStep
<1>7. ASSUME NEW r \in Request, Rested(r) PROVE PanelInv'
  BY <1>7, Advances DEF Rested
<1>8. ASSUME NEW r \in Request, GraceEnds(r) \/ PanelTimesOut(r) PROVE PanelInv'
  <2>1. /\ pc[r] = "collecting" /\ Close(r, out[r]) /\ UNCHANGED <<out, answers, reply>>
    BY <1>8 DEF GraceEnds, PanelTimesOut
  <2>2. out' = [out EXCEPT ![r] = out[r]] /\ out[r] \in Outs
    BY <1>0, <2>1 DEF PanelTypes
  <2> QED
    BY <2>1, <2>2, Closes
<1>9. ASSUME NEW r \in Request, FinalAnswer(r) PROVE PanelInv'
  BY <1>9, AnswerGiven DEF FinalAnswer
<1> QED
  BY <1>1, <1>2, <1>3, <1>4, <1>5, <1>6, <1>7, <1>8, <1>9, ReadStep, LeaveStep
  DEF Next, vars, requestVars, Tick, ResetRotation, OwnStep

\* However the models of a panel race with its timers and with the reader, no usable
\* answer that was there when it closed is lost, and the judge is asked exactly when
\* there are two answers or more.
THEOREM AnswersAreJudged == Spec => []AnswersReachJudge
<1>1. Init => PanelInv
  BY DEF Init, PanelInv, PanelTypes, Panel, PC, NoPanel, Outs,
         NoReply
<1>2. PanelInv /\ [Next]_vars => PanelInv'
  BY NextPanel
<1>3. PanelInv => AnswersReachJudge
  BY DEF PanelInv, Panel, AnswersReachJudge
<1> QED
  BY <1>1, <1>2, <1>3, PTL DEF Spec

-----------------------------------------------------------------------------
(* Combos: a fallback goes through the whole list.                         *)

\* Filtering loses nothing that is to be kept.
LEMMA KeptFacts ==
    ASSUME NEW A, NEW s \in Seq(A), NEW T
    PROVE  /\ Kept(s, T) \in Seq(A)
           /\ \A i \in 1..Len(s) : s[i] \in T =>
                 \E k \in 1..Len(Kept(s, T)) : Kept(s, T)[k] = s[i]
<1> DEFINE places == {i \in 1..Len(s) : s[i] \in T}
           n == Cardinality(places)
           upTo(i) == {j \in places : j <= i}
           rank == [i \in places |-> Cardinality(upTo(i))]
           at(k) == CHOOSE i \in places : Cardinality(upTo(i)) = k
<1>1. Len(s) \in Nat /\ places \subseteq 1..Len(s) /\ \A i \in 1..Len(s) : s[i] \in A
  BY LenProperties, ElementOfSeq
<1>2. IsFiniteSet(places) /\ n \in Nat
  <2>1. IsFiniteSet(1..Len(s))
    BY <1>1, FS_Interval
  <2> HIDE DEF places
  <2> QED
    BY <1>1, <2>1, FS_Subset, FS_CardinalityType DEF n
<1>3. ASSUME NEW i \in places
      PROVE  IsFiniteSet(upTo(i)) /\ Cardinality(upTo(i)) \in 1..n
  <2>1. upTo(i) \subseteq places /\ i \in upTo(i)
    BY <1>1
  <2>2. IsFiniteSet(upTo(i)) /\ Cardinality(upTo(i)) <= n
    BY <1>2, <2>1, FS_Subset
  <2>3. Cardinality(upTo(i)) \in Nat /\ Cardinality(upTo(i)) # 0
    BY <2>1, <2>2, FS_CardinalityType, FS_EmptySet
  <2> QED
    BY <1>2, <2>2, <2>3
<1> HIDE DEF places, n, upTo
<1>4. ASSUME NEW i \in places, NEW j \in places, i < j
      PROVE  Cardinality(upTo(i)) < Cardinality(upTo(j))
  <2>1. upTo(i) \subseteq upTo(j) /\ j \in upTo(j) /\ j \notin upTo(i)
    BY <1>1, <1>4 DEF upTo, places
  <2>2. /\ Cardinality(upTo(i)) <= Cardinality(upTo(j))
        /\ Cardinality(upTo(i)) # Cardinality(upTo(j))
    <3>1. IsFiniteSet(upTo(j)) /\ upTo(i) # upTo(j)
      BY <1>3, <2>1
    <3>2. upTo(i) \in SUBSET upTo(j)
      BY <2>1
    <3>3. /\ Cardinality(upTo(i)) <= Cardinality(upTo(j))
          /\ Cardinality(upTo(j)) = Cardinality(upTo(i)) => upTo(j) = upTo(i)
      BY <3>1, <3>2, FS_Subset
    <3> QED
      BY <3>1, <3>3
  <2>3. Cardinality(upTo(i)) \in Nat /\ Cardinality(upTo(j)) \in Nat
    BY <1>2, <1>3
  <2> QED
    BY <2>2, <2>3
<1>5. ASSUME NEW i \in places, NEW j \in places, Cardinality(upTo(i)) = Cardinality(upTo(j))
      PROVE  i = j
  <2>1. i \in Nat /\ j \in Nat /\ Cardinality(upTo(i)) \in Nat
    BY <1>1, <1>2, <1>3
  <2>2. i < j \/ j < i \/ i = j
    BY <2>1
  <2> QED
    BY <1>4, <1>5, <2>1, <2>2
<1>6. rank \in Injection(places, 1..n)
  BY <1>3, <1>5, Fun_IsInj
<1>7. Cardinality(1..n) = n /\ IsFiniteSet(1..n)
  BY <1>2, FS_Interval
<1>8. rank \in Surjection(places, 1..n)
  BY <1>6, <1>7, FS_Injection DEF n
<1>9. ASSUME NEW k \in 1..n PROVE at(k) \in places
  <2>1. \E i \in places : rank[i] = k
    BY <1>8 DEF Surjection
  <2> QED
    BY <2>1
<1>10. ASSUME NEW i \in places PROVE at(Cardinality(upTo(i))) = i
  BY <1>5
<1> HIDE DEF at
<1>11. Kept(s, T) = [k \in 1..n |-> s[at(k)]]
  BY DEF Kept, places, n, upTo, at
<1>12. Kept(s, T) \in Seq(A) /\ Len(Kept(s, T)) = n
  <2>1. \A k \in 1..n : s[at(k)] \in A
    BY <1>1, <1>9
  <2>2. Kept(s, T) \in [1..n -> A]
    BY <1>11, <2>1
  <2> QED
    BY <1>2, <2>2, LenProperties
<1>13. ASSUME NEW i \in 1..Len(s), s[i] \in T
       PROVE  \E k \in 1..Len(Kept(s, T)) : Kept(s, T)[k] = s[i]
  <2>1. i \in places
    BY <1>13 DEF places
  <2> QED
    BY <1>3, <1>10, <1>11, <1>12, <2>1
<1> QED
  BY <1>12, <1>13

\* Every member of the combo is on the list.
Covers(s) == s \in Seq(AnyModel) /\ \A m \in Member : \E i \in 1..Len(s) : s[i] = m

LEMMA CoversSome ==
    ASSUME NEW s, Covers(s)
    PROVE  Len(s) \in Nat /\ Len(s) >= 1
<1>1. s \in Seq(AnyModel) /\ 1 \in Member
  BY ComboSizes DEF Covers
<1>2. Len(s) \in Nat
  BY <1>1, LenProperties
<1>3. \E i \in 1..Len(s) : s[i] = 1
  BY <1>1 DEF Covers
<1> QED
  BY <1>2, <1>3

LEMMA AugmentedCovers ==
    ASSUME NEW media
    PROVE  Covers(Augmented(media))
<1>1. Members \in Seq(AnyModel) /\ Len(Members) = NumModels /\ \A m \in Member : Members[m] = m
  BY ComboSizes DEF Members, AnyModel
<1>2. Covers(Members)
  BY <1>1, ComboSizes DEF Covers
<1> DEFINE front == Kept(Pool, Capable)
<1>3. front \in Seq(AnyModel)
  <2>1. Pool \in Seq(PoolModel)
    BY CombosAssumption, LenProperties, ElementOfSeq DEF CombosAssumption, PoolModel
  <2>2. front \in Seq(PoolModel)
    BY <2>1, KeptFacts
  <2> QED
    BY <2>2, SeqMonotonic DEF AnyModel
<1> HIDE DEF front
<1>4. Covers(front \o Members)
  <2>1. /\ front \o Members \in Seq(AnyModel)
        /\ Len(front \o Members) = Len(front) + NumModels
        /\ \A i \in 1..Len(front) + NumModels :
              (front \o Members)[i] = IF i <= Len(front) THEN front[i] ELSE Members[i - Len(front)]
    BY <1>1, <1>3, ConcatProperties
  <2>2. ASSUME NEW m \in Member
        PROVE  \E i \in 1..Len(front \o Members) : (front \o Members)[i] = m
    <3>1. Len(front) \in Nat /\ m \in 1..NumModels /\ NumModels \in Nat
      BY <1>3, LenProperties, ComboSizes
    <3> DEFINE i == Len(front) + m
    <3>2. /\ i \in 1..Len(front) + NumModels
          /\ ~(i <= Len(front)) /\ i - Len(front) = m
      BY <3>1
    <3> HIDE DEF i
    <3>3. (front \o Members)[i] = Members[m]
      BY <2>1, <3>2
    <3> QED
      BY <1>1, <2>1, <3>2, <3>3
  <2> QED
    BY <2>1, <2>2 DEF Covers
<1> QED
  BY <1>2, <1>4 DEF Augmented, front

LEMMA RotateCovers ==
    ASSUME NEW s, Covers(s), NEW k \in 0..Len(s)
    PROVE  Covers(Rotate(s, k))
<1> DEFINE a == SubSeq(s, k + 1, Len(s))
           b == SubSeq(s, 1, k)
<1>1. /\ s \in Seq(AnyModel) /\ Len(s) \in Nat /\ k \in Nat /\ k <= Len(s)
      /\ \A i \in 1..Len(s) : s[i] \in AnyModel
  BY LenProperties, ElementOfSeq DEF Covers
<1>2. /\ a \in Seq(AnyModel) /\ Len(a) = Len(s) - k
      /\ \A i \in 1..(Len(s) - k) : a[i] = s[k + i]
  <2>1. \A i \in (k + 1)..Len(s) : s[i] \in AnyModel
    BY <1>1
  <2>2. /\ a \in Seq(AnyModel)
        /\ Len(a) = IF k + 1 <= Len(s) THEN Len(s) - (k + 1) + 1 ELSE 0
        /\ \A i \in 1..(Len(s) - (k + 1) + 1) : a[i] = s[(k + 1) + i - 1]
    BY <1>1, <2>1, SubSeqProperties
  <2> HIDE DEF a
  <2>3. Len(a) = Len(s) - k
    BY <1>1, <2>2
  <2>4. ASSUME NEW i \in 1..(Len(s) - k) PROVE a[i] = s[k + i]
    <3>1. i \in 1..(Len(s) - (k + 1) + 1) /\ (k + 1) + i - 1 = k + i
      BY <1>1
    <3>2. a[i] = s[(k + 1) + i - 1]
      BY <2>2, <3>1
    <3> QED
      BY <3>1, <3>2
  <2> QED
    BY <2>2, <2>3, <2>4
<1>3. /\ b \in Seq(AnyModel) /\ Len(b) = k
      /\ \A i \in 1..k : b[i] = s[i]
  <2>1. \A i \in 1..k : s[i] \in AnyModel
    BY <1>1
  <2>2. /\ b \in Seq(AnyModel) /\ Len(b) = IF 1 <= k THEN k - 1 + 1 ELSE 0
        /\ \A i \in 1..(k - 1 + 1) : b[i] = s[1 + i - 1]
    BY <1>1, <2>1, SubSeqProperties
  <2> HIDE DEF b
  <2> QED
    BY <1>1, <2>2
<1> HIDE DEF a, b
<1>4. /\ a \o b \in Seq(AnyModel) /\ Len(a \o b) = Len(s)
      /\ \A i \in 1..Len(s) : (a \o b)[i] = IF i <= Len(s) - k THEN a[i] ELSE b[i - (Len(s) - k)]
  BY <1>1, <1>2, <1>3, ConcatProperties
<1>5. ASSUME NEW i \in 1..Len(s)
      PROVE  \E j \in 1..Len(s) : (a \o b)[j] = s[i]
  <2>1. CASE i <= k
    <3> DEFINE j == Len(s) - k + i
    <3>1. i \in 1..k /\ j \in 1..Len(s) /\ ~(j <= Len(s) - k) /\ j - (Len(s) - k) = i
      BY <1>1, <2>1
    <3> HIDE DEF j
    <3>2. (a \o b)[j] = b[i]
      BY <1>4, <3>1
    <3> QED
      BY <1>3, <3>1, <3>2
  <2>2. CASE ~(i <= k)
    <3>1. i - k \in 1..(Len(s) - k) /\ i - k \in 1..Len(s) /\ i - k <= Len(s) - k
          /\ k + (i - k) = i
      BY <1>1, <2>2
    <3> QED
      BY <1>2, <1>4, <3>1
  <2> QED
    BY <2>1, <2>2
<1> QED
  BY <1>4, <1>5 DEF Covers, Rotate, a, b

LEMMA ReorderedCovers ==
    ASSUME NEW s, Covers(s), NEW media
    PROVE  Covers(Reordered(s, media))
<1> DEFINE a == Kept(s, Capable)
           b == Kept(s, AnyModel \ Capable)
<1>1. /\ s \in Seq(AnyModel) /\ Len(s) \in Nat
      /\ \A i \in 1..Len(s) : s[i] \in AnyModel
  BY LenProperties, ElementOfSeq DEF Covers
<1>2. /\ a \in Seq(AnyModel) /\ Len(a) \in Nat
      /\ \A i \in 1..Len(s) : s[i] \in Capable => \E k \in 1..Len(a) : a[k] = s[i]
  BY <1>1, KeptFacts, LenProperties
<1>3. /\ b \in Seq(AnyModel) /\ Len(b) \in Nat
      /\ \A i \in 1..Len(s) : s[i] \in AnyModel \ Capable => \E k \in 1..Len(b) : b[k] = s[i]
  <2> DEFINE T == AnyModel \ Capable
  <2> HIDE DEF T
  <2>1. /\ Kept(s, T) \in Seq(AnyModel)
        /\ \A i \in 1..Len(s) : s[i] \in T =>
              \E k \in 1..Len(Kept(s, T)) : Kept(s, T)[k] = s[i]
    BY <1>1, KeptFacts
  <2> QED
    BY <2>1, LenProperties DEF T
<1> HIDE DEF a, b
<1>4. /\ a \o b \in Seq(AnyModel) /\ Len(a \o b) = Len(a) + Len(b)
      /\ \A i \in 1..Len(a) + Len(b) : (a \o b)[i] = IF i <= Len(a) THEN a[i] ELSE b[i - Len(a)]
  BY <1>2, <1>3, ConcatProperties
<1>5. ASSUME NEW i \in 1..Len(s)
      PROVE  \E j \in 1..Len(a \o b) : (a \o b)[j] = s[i]
  <2>1. CASE s[i] \in Capable
    <3>1. PICK k \in 1..Len(a) : a[k] = s[i]
      BY <1>2, <2>1
    <3>2. k \in 1..Len(a) + Len(b) /\ k <= Len(a)
      BY <1>2, <1>3
    <3> QED
      BY <1>4, <3>1, <3>2
  <2>2. CASE s[i] \notin Capable
    <3>1. PICK k \in 1..Len(b) : b[k] = s[i]
      BY <1>1, <1>3, <2>2
    <3>2. /\ Len(a) + k \in 1..Len(a) + Len(b) /\ ~(Len(a) + k <= Len(a))
          /\ Len(a) + k - Len(a) = k
      BY <1>2, <1>3
    <3> QED
      BY <1>4, <3>1, <3>2
  <2> QED
    BY <2>1, <2>2
<1>6. Covers(a \o b)
  BY <1>4, <1>5 DEF Covers
<1> QED
  BY <1>6 DEF Reordered, a, b

ListTypes ==
    /\ rotation \in [index : Nat, uses : Nat]
    /\ pc \in [Request -> PC]
    /\ pos \in [Request -> Nat]
    /\ DOMAIN order = Request
    /\ earliest \in [Request -> Nat]
    /\ hints \in [Request -> SUBSET (Nat \ {0})]
    /\ DOMAIN reply = Request

\* The date that is kept is the least of those reported.
Earliest(r) ==
    IF hints[r] = {} THEN earliest[r] = 0
    ELSE earliest[r] \in hints[r] /\ \A h \in hints[r] : earliest[r] <= h

\* A fallback stands somewhere on a list that has every member, and ends at its end.
Listed(r) ==
    /\ pc[r] \in {"trying", "resting"} => Covers(order[r]) /\ pos[r] \in 1..Len(order[r])
    /\ pc[r] # "done" => reply[r].kind = "none"
    /\ reply[r].kind = "exhausted" =>
          Covers(order[r]) /\ pos[r] = Len(order[r]) /\ reply[r].retryAfter = earliest[r]

ListInv == ListTypes /\ \A r \in Request : Earliest(r) /\ Listed(r)

Apart(q) == /\ pc'[q] = pc[q] /\ order'[q] = order[q] /\ pos'[q] = pos[q]
            /\ earliest'[q] = earliest[q] /\ hints'[q] = hints[q] /\ reply'[q] = reply[q]

LEMMA OneList ==
    ASSUME ListInv, ListTypes', NEW r \in Request, \A q \in Request \ {r} : Apart(q),
           Earliest(r)', Listed(r)'
    PROVE  ListInv'
<1>1. ASSUME NEW q \in Request \ {r} PROVE Earliest(q)' /\ Listed(q)'
  <2>1. Earliest(q) /\ Listed(q) /\ Apart(q)
    BY DEF ListInv
  <2> QED
    BY <2>1 DEF Earliest, Listed, Apart
<1> QED
  BY <1>1 DEF ListInv

LEMMA RotationTyped ==
    ASSUME ListTypes, NEW s, Covers(s)
    PROVE  Turn(s) \in 0..(Len(s) - 1) /\ NextRotation(s) \in [index : Nat, uses : Nat]
<1>1. Len(s) \in Nat /\ Len(s) >= 1 /\ rotation.index \in Nat /\ rotation.uses \in Nat
  BY CoversSome DEF ListTypes
<1>2. Turn(s) \in 0..(Len(s) - 1)
  BY <1>1 DEF Turn
<1>3. (Turn(s) + 1) % Len(s) \in Nat
  BY <1>1, <1>2
<1> QED
  BY <1>1, <1>2, <1>3 DEF NextRotation

\* A list begins.
LEMMA InOrderStep ==
    ASSUME ListInv, NEW r \in Request, pc[r] = "idle", NEW list, Covers(list), NEW media,
           TryInOrder(r, list, media), rotation' \in [index : Nat, uses : Nat]
    PROVE  ListInv'
<1>1. /\ pc' = [pc EXCEPT ![r] = "trying"] /\ pos' = [pos EXCEPT ![r] = 1]
      /\ order' = [order EXCEPT ![r] = Reordered(list, media)]
      /\ UNCHANGED <<earliest, hints, reply>>
  BY DEF TryInOrder
<1>2. ListTypes /\ Earliest(r) /\ Listed(r)
  BY DEF ListInv
<1>3. ListTypes'
  BY <1>1, <1>2 DEF ListTypes, PC
<1>4. /\ pc'[r] = "trying" /\ pos'[r] = 1 /\ order'[r] = Reordered(list, media)
      /\ \A q \in Request \ {r} : Apart(q)
  BY <1>1, <1>2 DEF ListTypes, Apart
<1>5. Covers(order'[r]) /\ 1 \in 1..Len(order'[r])
  BY <1>4, ReorderedCovers, CoversSome
<1>6. Earliest(r)'
  BY <1>1, <1>2 DEF Earliest
<1>7. reply'[r].kind = "none"
  BY <1>1, <1>2 DEF Listed
<1>8. Covers(order[r])' /\ (pos[r] \in 1..Len(order[r]))'
  BY <1>4, <1>5 DEF Covers
<1>9. Listed(r)'
  BY <1>4, <1>7, <1>8 DEF Listed
<1> QED
  BY <1>3, <1>4, <1>6, <1>9, OneList

\* The loop goes on, or ends with the dates as they are now.
LEMMA AdvanceStep ==
    ASSUME ListInv, NEW r \in Request, pc[r] \in {"trying", "resting"}, Advance(r),
           UNCHANGED <<rotation, order>>,
           earliest' \in [Request -> Nat], hints' \in [Request -> SUBSET (Nat \ {0})],
           \A q \in Request \ {r} : earliest'[q] = earliest[q] /\ hints'[q] = hints[q],
           Earliest(r)'
    PROVE  ListInv'
<1>1. /\ ListTypes /\ Covers(order[r]) /\ pos[r] \in 1..Len(order[r])
      /\ reply[r].kind = "none"
  BY DEF ListInv, Listed
<1>2. Len(order[r]) \in Nat /\ Covers(order[r])'
  BY <1>1, CoversSome DEF Covers
<1>3. CASE pos[r] < Len(order[r])
  <2>1. /\ pos' = [pos EXCEPT ![r] = @ + 1] /\ pc' = [pc EXCEPT ![r] = "trying"]
        /\ UNCHANGED reply
    BY <1>3 DEF Advance
  <2>2. ListTypes'
    BY <1>1, <2>1 DEF ListTypes, PC
  <2>3. /\ pos'[r] = pos[r] + 1 /\ pc'[r] = "trying" /\ reply'[r] = reply[r]
        /\ \A q \in Request \ {r} : Apart(q)
    BY <1>1, <2>1 DEF ListTypes, Apart
  <2>4. (pos[r] \in 1..Len(order[r]))'
    BY <1>1, <1>2, <1>3, <2>3
  <2>5. Listed(r)'
    BY <1>1, <1>2, <2>3, <2>4 DEF Listed
  <2> QED
    BY <2>2, <2>3, <2>5, OneList
<1>4. CASE ~(pos[r] < Len(order[r]))
  <2>1. /\ pc' = [pc EXCEPT ![r] = "done"] /\ UNCHANGED pos
        /\ reply' = [reply EXCEPT ![r] = [kind |-> "exhausted", retryAfter |-> earliest'[r]]]
    BY <1>4 DEF Advance, Answer
  <2>2. ListTypes'
    BY <1>1, <2>1 DEF ListTypes, PC
  <2>3. /\ pos'[r] = pos[r] /\ pc'[r] = "done" /\ reply'[r].retryAfter = earliest'[r]
        /\ \A q \in Request \ {r} : Apart(q)
    BY <1>1, <2>1 DEF ListTypes, Apart
  <2>4. (pos[r] = Len(order[r]))'
    BY <1>1, <1>2, <1>4, <2>3
  <2>5. Listed(r)'
    BY <1>2, <2>3, <2>4 DEF Listed
  <2> QED
    BY <2>2, <2>3, <2>5, OneList
<1> QED
  BY <1>3, <1>4

\* A model fails: its date is put with the others.
LEMMA FailsStep ==
    ASSUME ListInv, NEW r \in Request, NEW hint \in Hint \cup {0}, NEW transient \in BOOLEAN,
           ModelFails(r, hint, transient)
    PROVE  ListInv'
<1>1. ListTypes /\ Earliest(r) /\ Listed(r) /\ pc[r] = "trying" /\ hint \in Nat
  BY CombosAssumption DEF ListInv, ModelFails, CombosAssumption
<1> DEFINE dates == hints[r] \cup ({hint} \ {0})
           first == IF Replaces(earliest[r], hint) THEN hint ELSE earliest[r]
<1>2. /\ hints' = [hints EXCEPT ![r] = dates] /\ earliest' = [earliest EXCEPT ![r] = first]
      /\ UNCHANGED <<rotation, order>>
  BY DEF ModelFails
<1>3. /\ earliest[r] \in Nat /\ hints[r] \subseteq Nat \ {0}
      /\ dates \subseteq Nat \ {0} /\ first \in Nat
  BY <1>1 DEF ListTypes
<1>4. IF dates = {} THEN first = 0 ELSE first \in dates /\ \A h \in dates : first <= h
  <2>1. CASE hint = 0
    BY <1>1, <2>1 DEF Replaces, Earliest
  <2>2. CASE hint # 0 /\ hints[r] = {}
    BY <1>1, <2>2 DEF Replaces, Earliest
  <2>3. CASE hint # 0 /\ hints[r] # {}
    <3>1. earliest[r] \in hints[r] /\ \A h \in hints[r] : earliest[r] <= h
      BY <1>1, <2>3 DEF Earliest
    <3>2. first \in dates
      BY <2>3, <3>1
    <3>3. first <= earliest[r] /\ first <= hint
      BY <1>1, <1>3, <2>3, <3>1 DEF Replaces
    <3>4. ASSUME NEW h \in dates PROVE first <= h
      BY <1>1, <1>3, <3>1, <3>3
    <3> QED
      BY <3>2, <3>4
  <2> QED
    BY <2>1, <2>2, <2>3
<1> HIDE DEF dates, first
<1>5. /\ earliest' \in [Request -> Nat] /\ hints' \in [Request -> SUBSET (Nat \ {0})]
      /\ \A q \in Request \ {r} : earliest'[q] = earliest[q] /\ hints'[q] = hints[q]
      /\ earliest'[r] = first /\ hints'[r] = dates
  BY <1>1, <1>2, <1>3 DEF ListTypes
<1>6. Earliest(r)'
  BY <1>4, <1>5 DEF Earliest
<1>7. CASE ~transient
  BY <1>1, <1>2, <1>5, <1>6, <1>7, AdvanceStep DEF ModelFails
<1>8. CASE transient
  <2>1. pc' = [pc EXCEPT ![r] = "resting"] /\ UNCHANGED <<pos, reply>>
    BY <1>8 DEF ModelFails
  <2>2. ListTypes'
    BY <1>1, <1>2, <1>5, <2>1 DEF ListTypes, PC
  <2>3. pc'[r] = "resting" /\ \A q \in Request \ {r} : Apart(q)
    BY <1>1, <1>2, <1>5, <2>1 DEF ListTypes, Apart
  <2>4. Covers(order[r])' /\ (pos[r] \in 1..Len(order[r]))' /\ reply'[r].kind = "none"
    BY <1>1, <1>2, <2>1 DEF Listed, Covers
  <2>5. Listed(r)'
    BY <2>3, <2>4 DEF Listed
  <2> QED
    BY <1>6, <2>2, <2>3, <2>5, OneList
<1> QED
  BY <1>7, <1>8

\* A request that is no fallback, or that ends for another reason, leaves the list.
LEMMA OffList ==
    ASSUME ListInv, NEW r \in Request, NEW at \in PC \ {"trying", "resting", "idle"},
           pc' = [pc EXCEPT ![r] = at], pos' \in [Request -> Nat],
           \A q \in Request \ {r} : pos'[q] = pos[q],
           UNCHANGED <<rotation, order, earliest, hints>>,
           \/ UNCHANGED reply /\ pc[r] # "done"
           \/ at = "done" /\ \E kind \in {"ok", "refused", "panelFailed", "fused", "single"} :
                reply' = [reply EXCEPT ![r] = [kind |-> kind, retryAfter |-> 0]]
    PROVE  ListInv'
<1>1. ListTypes /\ Earliest(r) /\ Listed(r)
  BY DEF ListInv
<1>2. ListTypes'
  BY <1>1 DEF ListTypes
<1>3. /\ pc'[r] = at /\ \A q \in Request \ {r} : Apart(q)
  BY <1>1 DEF ListTypes, Apart
<1>4. \/ pc[r] # "done" /\ reply'[r] = reply[r]
      \/ at = "done" /\ reply'[r].kind \in {"ok", "refused", "panelFailed", "fused", "single"}
  BY <1>1 DEF ListTypes
<1>5. Listed(r)'
  BY <1>1, <1>3, <1>4 DEF Listed
<1>6. Earliest(r)'
  BY <1>1 DEF Earliest
<1> QED
  BY <1>2, <1>3, <1>5, <1>6, OneList

\* A panel closes, or goes on collecting.
LEMMA PanelOffList ==
    ASSUME ListInv, NEW r \in Request, pc[r] = "collecting",
           \/ \E o : Close(r, o)
           \/ UNCHANGED <<pc, pos>>,
           UNCHANGED <<rotation, order, earliest, hints, reply>>
    PROVE  ListInv'
<1>1. ListTypes
  BY DEF ListInv
<1>2. CASE \E o : Close(r, o)
  <2>1. pc' = [pc EXCEPT ![r] = "reading"] /\ pos' = [pos EXCEPT ![r] = 1]
    BY <1>2 DEF Close
  <2> QED
    BY <1>1, <2>1, OffList DEF ListTypes, PC
<1>3. CASE UNCHANGED <<pc, pos>>
  <2>1. pc' = [pc EXCEPT ![r] = "collecting"] /\ pos' \in [Request -> Nat]
        /\ \A q \in Request : pos'[q] = pos[q]
    BY <1>1, <1>3 DEF ListTypes
  <2> QED
    BY <2>1, OffList DEF PC
<1> QED
  BY <1>2, <1>3

LEMMA ReadOffList ==
    ASSUME ListInv, NEW r \in Request, ReadResult(r)
    PROVE  ListInv'
<1>1. ListTypes /\ pc[r] = "reading" /\ UNCHANGED <<rotation, order, earliest, hints>>
  BY DEF ListInv, ReadResult
<1>2. CASE pos[r] < NumModels
  <2>1. pos' = [pos EXCEPT ![r] = @ + 1] /\ UNCHANGED <<pc, reply>>
    BY <1>2 DEF ReadResult
  <2>2. pc' = [pc EXCEPT ![r] = "reading"]
    BY <1>1, <2>1 DEF ListTypes
  <2>3. pos' \in [Request -> Nat] /\ \A q \in Request \ {r} : pos'[q] = pos[q]
    BY <1>1, <2>1 DEF ListTypes
  <2> QED
    BY <1>1, <2>1, <2>2, <2>3, OffList DEF PC
<1>3. CASE ~(pos[r] < NumModels)
  <2>1. /\ UNCHANGED pos
        /\ \/ /\ pc' = [pc EXCEPT ![r] = "done"]
              /\ reply' = [reply EXCEPT ![r] = [kind |-> "panelFailed", retryAfter |-> 0]]
           \/ UNCHANGED reply /\ \E at \in {"direct", "judging"} : pc' = [pc EXCEPT ![r] = at]
    BY <1>3 DEF ReadResult, Answer
  <2> QED
    BY <1>1, <2>1, OffList DEF ListTypes, PC
<1> QED
  BY <1>2, <1>3

LEMMA LeaveList ==
    ASSUME ListInv, NEW r \in Request, Leave(r)
    PROVE  ListInv'
<1>1. ListTypes
  BY DEF ListInv
<1>2. /\ pc' = [pc EXCEPT ![r] = "idle"] /\ order' = [order EXCEPT ![r] = << >>]
      /\ pos' = [pos EXCEPT ![r] = 0] /\ earliest' = [earliest EXCEPT ![r] = 0]
      /\ hints' = [hints EXCEPT ![r] = {}] /\ reply' = [reply EXCEPT ![r] = NoReply]
      /\ UNCHANGED rotation
  BY DEF Leave
<1>3. ListTypes'
  BY <1>1, <1>2 DEF ListTypes, PC
<1>4. \A q \in Request \ {r} : Apart(q)
  BY <1>1, <1>2 DEF ListTypes, Apart
<1>5. Earliest(r)' /\ Listed(r)'
  BY <1>1, <1>2 DEF ListTypes, Earliest, Listed, NoReply
<1> QED
  BY <1>3, <1>4, <1>5, OneList

LEMMA NextList ==
    ASSUME ListInv, [Next]_vars
    PROVE  ListInv'
<1>0. ListTypes
  BY DEF ListInv
<1>1. CASE UNCHANGED <<rotation, requestVars>>
  BY <1>1 DEF ListInv, ListTypes, Earliest, Listed, Covers, requestVars
<1>2. CASE ResetRotation
  <2>1. rotation' = [index |-> 0, uses |-> 0] /\ UNCHANGED requestVars
    BY <1>2 DEF ResetRotation
  <2> QED
    BY <1>0, <2>1 DEF ListInv, ListTypes, Earliest, Listed, Covers, requestVars
<1>3. ASSUME NEW r \in Request, NEW media \in BOOLEAN, StartFallback(r, media)
      PROVE  ListInv'
  BY <1>0, <1>3, AugmentedCovers, InOrderStep DEF StartFallback, ListTypes
<1>4. ASSUME NEW r \in Request, NEW media \in BOOLEAN, StartRoundRobin(r, media)
      PROVE  ListInv'
  <2> DEFINE list == Augmented(media)
  <2>1. /\ pc[r] = "idle" /\ rotation' = NextRotation(list)
        /\ TryInOrder(r, Rotate(list, Turn(list)), media)
    BY <1>4 DEF StartRoundRobin
  <2>2. Covers(list)
    BY AugmentedCovers
  <2> HIDE DEF list
  <2>3. /\ Turn(list) \in 0..(Len(list) - 1) /\ Len(list) \in Nat
        /\ rotation' \in [index : Nat, uses : Nat]
    BY <1>0, <2>1, <2>2, RotationTyped, CoversSome
  <2>4. Covers(Rotate(list, Turn(list)))
    BY <2>2, <2>3, RotateCovers
  <2> QED
    BY <2>1, <2>3, <2>4, InOrderStep
<1>5. ASSUME NEW r \in Request, ModelDecides(r)
      PROVE  ListInv'
  <2>1. /\ pc[r] = "trying" /\ UNCHANGED <<rotation, order, pos, earliest, hints>>
        /\ pc' = [pc EXCEPT ![r] = "done"]
        /\ \E kind \in {"ok", "refused"} :
              reply' = [reply EXCEPT ![r] = [kind |-> kind, retryAfter |-> 0]]
    BY <1>5 DEF ModelDecides, Answer
  <2>2. pos' \in [Request -> Nat]
    BY <1>0, <2>1 DEF ListTypes
  <2> QED
    BY <2>1, <2>2, OffList DEF PC
<1>6. ASSUME NEW r \in Request, Rested(r)
      PROVE  ListInv'
  <2>1. Earliest(r) /\ pc[r] = "resting" /\ Advance(r)
        /\ UNCHANGED <<rotation, order, earliest, hints>>
    BY <1>6 DEF ListInv, Rested
  <2>2. Earliest(r)'
    BY <2>1 DEF Earliest
  <2> QED
    BY <1>0, <2>1, <2>2, AdvanceStep DEF ListTypes
<1>7. ASSUME NEW r \in Request, StartFusion(r)
      PROVE  ListInv'
  BY <1>0, <1>7, OffList DEF StartFusion, ListTypes, PC
<1>8. ASSUME NEW r \in Request, NEW m \in Member, NEW result \in PanelResult,
             PanelSettles(r, m, result)
      PROVE  ListInv'
  BY <1>8, PanelOffList DEF PanelSettles
<1>9. ASSUME NEW r \in Request, NEW m \in Member, NEW result \in PanelResult,
             StragglerLands(r, m, result)
      PROVE  ListInv'
  BY <1>9 DEF StragglerLands, ListInv, ListTypes, Earliest, Listed, Covers
<1>10. ASSUME NEW r \in Request, GraceEnds(r) \/ PanelTimesOut(r)
       PROVE  ListInv'
  BY <1>10, PanelOffList DEF GraceEnds, PanelTimesOut
<1>11. ASSUME NEW r \in Request, FinalAnswer(r)
       PROVE  ListInv'
  BY <1>0, <1>11, OffList DEF FinalAnswer, Answer, ListTypes, PC
<1>12. CASE Tick \/ UNCHANGED vars
  BY <1>1, <1>12 DEF Tick, vars
<1> QED
  BY <1>2, <1>3, <1>4, <1>5, <1>6, <1>7, <1>8, <1>9, <1>10, <1>11, <1>12, FailsStep,
     ReadOffList, LeaveList DEF Next, OwnStep

\* Whatever rotation, reordering and the capacity adapter did to the list, a fallback
\* gives up only after each member of the combo was tried, with the earliest date that
\* any of the models reported.
THEOREM GivingUpIsHonest == Spec => []ExhaustionIsHonest
<1>1. Init => ListInv
  BY DEF Init, ListInv, ListTypes, Earliest, Listed, PC, NoReply
<1>2. ListInv /\ [Next]_vars => ListInv'
  BY NextList
<1>3. ListInv => ExhaustionIsHonest
  <2> SUFFICES ASSUME ListInv, NEW r \in Request, reply[r].kind = "exhausted"
               PROVE  /\ pos[r] = Len(order[r])
                      /\ Member \subseteq {order[r][i] : i \in 1..pos[r]}
                      /\ IF hints[r] = {} THEN reply[r].retryAfter = 0
                         ELSE /\ reply[r].retryAfter \in hints[r]
                              /\ \A h \in hints[r] : reply[r].retryAfter <= h
    BY DEF ExhaustionIsHonest
  <2>1. /\ Covers(order[r]) /\ pos[r] = Len(order[r]) /\ reply[r].retryAfter = earliest[r]
        /\ Earliest(r)
    BY DEF ListInv, Listed
  <2> QED
    BY <2>1 DEF Covers, Earliest
<1> QED
  BY <1>1, <1>2, <1>3, PTL DEF Spec
=============================================================================

------------------------------- MODULE Combos -------------------------------
(***************************************************************************)
(* Combos: a request names a combo and is served by its models.  A         *)
(* fallback combo tries them one after the other, a round-robin combo      *)
(* starts at a rotating model, and a fusion combo asks all of them at once *)
(* and lets a judge write the answer.                                      *)
(*                                                                         *)
(* Sources: src/open-sse/services/combo.js, the capacity adapter           *)
(* src/open-sse/services/capacityAdapter.js, their caller                  *)
(* src/src/sse/handlers/chat.js and src/src/app/api/combos/[id]/route.js.  *)
(*                                                                         *)
(* What a model answers is AccountPool's concern: here a call ends in one  *)
(* of the outcomes the combo tells apart, or never.                        *)
(***************************************************************************)
EXTENDS Integers, Sequences, FiniteSets

CONSTANTS
  NumModels,      \* the combo's models are 1..NumModels, in this order
  Pool,           \* the capacity adapter's models, a sequence
  Capable,        \* the models that accept media
  Request,        \* concurrent requests
  StickyLimit,    \* comboStickyRoundRobinLimit, normalized
  MinPanel,       \* answers that start the grace window
  Grace,          \* stragglerGraceMs
  HardTimeout,    \* panelHardTimeoutMs
  TransientWait,  \* cooldown of a 502/503/504, where it is at most 5 s
  Hint,           \* retryAfter dates a failing model may report
  MaxTime         \* bound on the clock

Member == 1 .. NumModels
PoolModel == {Pool[i] : i \in 1 .. Len(Pool)}
AnyModel == Member \cup PoolModel

ASSUME CombosAssumption ==
  /\ NumModels \in Nat \ {0, 1}
  /\ Pool \in Seq(Nat) /\ PoolModel \cap Member = {}
  /\ \A i, j \in 1 .. Len(Pool) : Pool[i] = Pool[j] => i = j
  /\ StickyLimit \in Nat \ {0} /\ MinPanel \in 2 .. NumModels
  /\ Grace \in Nat \ {0} /\ HardTimeout \in Nat \ {0} /\ TransientWait \in Nat \ {0}
  /\ Hint \subseteq Nat \ {0} /\ MaxTime \in Nat

VARIABLES
  now,        \* Date.now()
  rotation,   \* comboRotationState of the round-robin combo
  slots,      \* history: turns given to each model, less the turns all had
  mixed,      \* history: an augmented list has moved the rotation
  pc,         \* where each request is
  order,      \* rotatedModels
  pos,        \* the loop's position in it, or in the panel while reading
  wake,       \* when the running timer of the request fires, 0 if none
  lapse,      \* when the panel's hard timeout fires
  earliest,   \* earliestRetryAfter, 0 if none
  hints,      \* history: the dates the request's models reported
  out,        \* collectPanel's results, "none" until they arrive
  closed,     \* history: usable answers there when the panel closed
  answers,    \* panel answers with text
  reply       \* what the client gets

requestVars == <<pc, order, pos, wake, lapse, earliest, hints, out, closed,
                 answers, reply>>
vars == <<now, rotation, slots, mixed, requestVars>>

NoPanel == [m \in Member |-> "none"]
NoReply == [kind |-> "none", retryAfter |-> 0]
NoTurns == [m \in Member |-> 0]
-----------------------------------------------------------------------------
(* The list of models of a request. *)

Members == [i \in Member |-> i]

MutantDropsRotated(s, k) == SubSeq(s, k + 1, Len(s))
\* rotateModelsFromIndex.
Rotate(s, k) == SubSeq(s, k + 1, Len(s)) \o SubSeq(s, 1, k)

\* The elements of s that are in T, in their order: each is placed by its rank, which
\* is how many there are up to it.
Kept(s, T) ==
  LET places == {i \in 1 .. Len(s) : s[i] \in T}
  IN  [k \in 1 .. Cardinality(places) |->
         s[CHOOSE i \in places : Cardinality({j \in places : j <= i}) = k]]

\* augmentModelsWithCapacityAdapter: when no member accepts the media, the
\* adapter's capable models come first.
Augmented(media) ==
  IF media /\ Member \cap Capable = {}
    THEN Kept(Pool, Capable) \o Members ELSE Members

\* reorderByCapabilities: capable models float to the front, none is dropped.
Reordered(s, media) ==
  IF media THEN Kept(s, Capable) \o Kept(s, AnyModel \ Capable) ELSE s

\* The index where this request starts.
Turn(s) == rotation.index % Len(s)

UsedUp(uses) == uses >= StickyLimit

MutantStaysOnModel(s) ==
  [index |-> Turn(s), uses |-> IF UsedUp(rotation.uses + 1) THEN 0 ELSE rotation.uses + 1]
\* getRotatedModels moves the rotation on.
NextRotation(s) ==
  IF UsedUp(rotation.uses + 1)
    THEN [index |-> (Turn(s) + 1) % Len(s), uses |-> 0]
    ELSE [index |-> Turn(s), uses |-> rotation.uses + 1]

\* One more turn for m; turns that every model had are not kept.
GiveTurn(m) ==
  LET more == [slots EXCEPT ![m] = @ + 1]
  IN  IF \A x \in Member : more[x] > 0 THEN [x \in Member |-> more[x] - 1] ELSE more
-----------------------------------------------------------------------------
Init ==
  /\ now = 0
  /\ rotation = [index |-> 0, uses |-> 0]
  /\ slots = NoTurns
  /\ mixed = FALSE
  /\ pc = [r \in Request |-> "idle"]
  /\ order = [r \in Request |-> << >>]
  /\ pos = [r \in Request |-> 0]
  /\ wake = [r \in Request |-> 0]
  /\ lapse = [r \in Request |-> 0]
  /\ earliest = [r \in Request |-> 0]
  /\ hints = [r \in Request |-> {}]
  /\ out = [r \in Request |-> NoPanel]
  /\ closed = [r \in Request |-> {}]
  /\ answers = [r \in Request |-> {}]
  /\ reply = [r \in Request |-> NoReply]

\* Timers that are due fire before the clock moves on.
Tick ==
  /\ now < MaxTime
  /\ \A r \in Request :
       /\ wake[r] # 0 => wake[r] > now
       /\ pc[r] = "collecting" => lapse[r] > now
  /\ now' = now + 1
  /\ UNCHANGED <<rotation, slots, mixed, requestVars>>

\* handleComboChat on a list: rotate it, reorder it, try the first model.
TryInOrder(r, list, media) ==
  /\ pc' = [pc EXCEPT ![r] = "trying"]
  /\ order' = [order EXCEPT ![r] = Reordered(list, media)]
  /\ pos' = [pos EXCEPT ![r] = 1]
  /\ UNCHANGED <<now, wake, lapse, earliest, hints, out, closed, answers, reply>>

StartFallback(r, media) ==
  /\ pc[r] = "idle"
  /\ TryInOrder(r, Augmented(media), media)
  /\ UNCHANGED <<rotation, slots, mixed>>

StartRoundRobin(r, media) ==
  LET list == Augmented(media) IN
  /\ pc[r] = "idle"
  /\ TryInOrder(r, Rotate(list, Turn(list)), media)
  /\ rotation' = NextRotation(list)
  /\ mixed' = (mixed \/ list # Members)
  /\ slots' = IF mixed' THEN NoTurns ELSE GiveTurn(list[Turn(list) + 1])

\* Saving or deleting the combo: resetComboRotation.
ResetRotation ==
  /\ rotation' = [index |-> 0, uses |-> 0]
  /\ slots' = NoTurns
  /\ mixed' = FALSE
  /\ UNCHANGED <<now, requestVars>>
-----------------------------------------------------------------------------
(* Fallback over the list. *)

Answer(r, kind, retryAfter) ==
  /\ pc' = [pc EXCEPT ![r] = "done"]
  /\ reply' = [reply EXCEPT ![r] = [kind |-> kind, retryAfter |-> retryAfter]]

\* The model succeeds, or fails in a way no other model can help with.
ModelDecides(r) ==
  /\ pc[r] = "trying"
  /\ \E kind \in {"ok", "refused"} : Answer(r, kind, 0)
  /\ UNCHANGED <<now, rotation, slots, mixed, order, pos, wake, lapse, earliest,
                 hints, out, closed, answers>>

\* The next model, or the combo's own error.
Advance(r) ==
  IF pos[r] < Len(order[r])
    THEN /\ pos' = [pos EXCEPT ![r] = @ + 1]
         /\ pc' = [pc EXCEPT ![r] = "trying"]
         /\ UNCHANGED reply
    ELSE /\ Answer(r, "exhausted", earliest'[r])
         /\ UNCHANGED pos

\* A reported date replaces the earliest so far.
Replaces(a, b) == b # 0 /\ (a = 0 \/ b < a)

\* The model fails and another may help.  A 502/503/504 with a short cooldown
\* (an "overloaded" text; the default cooldown is 30 s) waits first.
ModelFails(r, hint, transient) ==
  /\ pc[r] = "trying"
  /\ hints' = [hints EXCEPT ![r] = @ \cup ({hint} \ {0})]
  /\ earliest' = [earliest EXCEPT ![r] = IF Replaces(@, hint) THEN hint ELSE @]
  /\ IF transient
       THEN /\ pc' = [pc EXCEPT ![r] = "resting"]
            /\ wake' = [wake EXCEPT ![r] = now + TransientWait]
            /\ UNCHANGED <<pos, reply>>
       ELSE Advance(r) /\ UNCHANGED wake
  /\ UNCHANGED <<now, rotation, slots, mixed, order, lapse, out, closed, answers>>

Rested(r) ==
  /\ pc[r] = "resting" /\ (wake[r] <= now \/ now = MaxTime)
  /\ wake' = [wake EXCEPT ![r] = 0]
  /\ UNCHANGED earliest
  /\ Advance(r)
  /\ UNCHANGED <<now, rotation, slots, mixed, order, lapse, hints, out, closed,
                 answers>>
-----------------------------------------------------------------------------
(* Fusion. *)

StartFusion(r) ==
  /\ pc[r] = "idle" /\ now + HardTimeout <= MaxTime
  /\ pc' = [pc EXCEPT ![r] = "collecting"]
  /\ lapse' = [lapse EXCEPT ![r] = now + HardTimeout]
  /\ UNCHANGED <<now, rotation, slots, mixed, order, pos, wake, earliest, hints,
                 out, closed, answers, reply>>

Usable(o) == {m \in Member : o[m] = "usable"}

\* collectPanel resolves and clears its timers; the loop over the results
\* begins.
Close(r, o) ==
  /\ lapse' = [lapse EXCEPT ![r] = 0]
  /\ pc' = [pc EXCEPT ![r] = "reading"]
  /\ pos' = [pos EXCEPT ![r] = 1]
  /\ wake' = [wake EXCEPT ![r] = 0]
  /\ closed' = [closed EXCEPT ![r] = Usable(o)]

\* The calls that answered with a 2xx, whatever they say.
Good(o) == {m \in Member : o[m] \in {"usable", "empty"}}

\* A panel model settles: all have, or enough answered to give the others a
\* grace window.
PanelSettles(r, m, result) ==
  LET o == [out[r] EXCEPT ![m] = result] IN
  /\ pc[r] = "collecting" /\ out[r][m] = "none"
  /\ out' = [out EXCEPT ![r] = o]
  /\ IF \A x \in Member : o[x] # "none"
       THEN Close(r, o)
       ELSE /\ wake' = [wake EXCEPT ![r] =
                          IF @ = 0 /\ Cardinality(Good(o)) >= MinPanel THEN now + Grace ELSE @]
            /\ UNCHANGED <<pc, pos, lapse, closed>>
  /\ UNCHANGED <<now, rotation, slots, mixed, order, earliest, hints,
                 answers, reply>>

\* A straggler's result still lands in the array that is being read.
StragglerLands(r, m, result) ==
  /\ pc[r] = "reading" /\ out[r][m] = "none"
  /\ out' = [out EXCEPT ![r][m] = result]
  /\ UNCHANGED <<now, rotation, slots, mixed, pc, order, pos, wake, lapse,
                 earliest, hints, closed, answers, reply>>

GraceEnds(r) ==
  /\ pc[r] = "collecting" /\ wake[r] # 0 /\ wake[r] <= now
  /\ Close(r, out[r])
  /\ UNCHANGED <<now, rotation, slots, mixed, order, earliest, hints, out, answers,
                 reply>>

MutantLapsesAtQuorum(r) == wake[r] # 0 /\ lapse[r] <= now
\* The hard timeout, or the calls' own timeouts of the same length.
Lapsed(r) == lapse[r] <= now

PanelTimesOut(r) ==
  /\ pc[r] = "collecting" /\ Lapsed(r)
  /\ Close(r, out[r])
  /\ UNCHANGED <<now, rotation, slots, mixed, order, earliest, hints, out, answers,
                 reply>>

MutantFirstIsDirect(usable) == Cardinality(usable) <= 2
\* With a single answer there is nothing to fuse.
Lone(usable) == Cardinality(usable) = 1

\* One result is read (an await each); after the last the request degrades,
\* repeats the lone survivor's call, or goes to the judge.
ReadResult(r) ==
  LET usable == answers[r] \cup ({pos[r]} \cap Usable(out[r])) IN
  /\ pc[r] = "reading"
  /\ answers' = [answers EXCEPT ![r] = usable]
  /\ IF pos[r] < NumModels
       THEN pos' = [pos EXCEPT ![r] = @ + 1] /\ UNCHANGED <<pc, out, reply>>
       ELSE /\ UNCHANGED pos
            /\ out' = [out EXCEPT ![r] = NoPanel]
            /\ IF usable = {} THEN Answer(r, "panelFailed", 0)
               ELSE /\ pc' = [pc EXCEPT ![r] =
                                IF Lone(usable) THEN "direct" ELSE "judging"]
                    /\ UNCHANGED reply
  /\ UNCHANGED <<now, rotation, slots, mixed, order, wake, lapse, earliest, hints,
                 closed>>

\* The last call's response goes to the client as it is.
FinalAnswer(r) ==
  /\ pc[r] \in {"direct", "judging"}
  /\ Answer(r, IF pc[r] = "judging" THEN "fused" ELSE "single", 0)
  /\ UNCHANGED <<now, rotation, slots, mixed, order, pos, wake, lapse, earliest,
                 hints, out, closed, answers>>

\* The slot is free for another request.
Leave(r) ==
  /\ pc[r] = "done"
  /\ pc' = [pc EXCEPT ![r] = "idle"]
  /\ order' = [order EXCEPT ![r] = << >>]
  /\ pos' = [pos EXCEPT ![r] = 0]
  /\ earliest' = [earliest EXCEPT ![r] = 0]
  /\ hints' = [hints EXCEPT ![r] = {}]
  /\ closed' = [closed EXCEPT ![r] = {}]
  /\ answers' = [answers EXCEPT ![r] = {}]
  /\ reply' = [reply EXCEPT ![r] = NoReply]
  /\ UNCHANGED <<now, rotation, slots, mixed, wake, lapse, out>>

PanelResult == {"usable", "empty", "failed"}

\* What the combo code does by itself: timers and continuations.
OwnStep(r) == Rested(r) \/ GraceEnds(r) \/ PanelTimesOut(r) \/ ReadResult(r)

Next ==
  \/ Tick
  \/ ResetRotation
  \/ \E r \in Request :
       \/ \E media \in BOOLEAN : StartFallback(r, media) \/ StartRoundRobin(r, media)
       \/ StartFusion(r)
       \/ ModelDecides(r)
       \/ \E hint \in Hint \cup {0}, transient \in BOOLEAN : ModelFails(r, hint, transient)
       \/ \E m \in Member, result \in PanelResult :
            PanelSettles(r, m, result) \/ StragglerLands(r, m, result)
       \/ OwnStep(r)
       \/ FinalAnswer(r)
       \/ Leave(r)

Spec == Init /\ [][Next]_vars

\* Only time, timers and continuations are fair: a model may never answer.
FairSpec == Spec /\ WF_vars(Tick) /\ \A r \in Request : WF_vars(OwnStep(r))
-----------------------------------------------------------------------------
(* Properties. *)

PC == {"idle", "trying", "resting", "collecting", "reading", "direct", "judging", "done"}

\* Type correctness of the combo state; a rotation's uses stay below the limit.
TypeOK ==
  /\ now \in Nat
  /\ rotation \in [index : Nat, uses : 0 .. (StickyLimit - 1)]
  /\ slots \in [Member -> Nat]
  /\ mixed \in BOOLEAN
  /\ pc \in [Request -> PC]
  /\ order \in [Request -> Seq(AnyModel)]
  /\ pos \in [Request -> Nat]
  /\ wake \in [Request -> Nat] /\ lapse \in [Request -> Nat]
  /\ earliest \in [Request -> Hint \cup {0}]
  /\ hints \in [Request -> SUBSET Hint]
  /\ out \in [Request -> [Member -> PanelResult \cup {"none"}]]
  /\ closed \in [Request -> SUBSET Member]
  /\ answers \in [Request -> SUBSET Member]
  /\ reply \in [Request -> [kind : {"none", "ok", "refused", "exhausted", "panelFailed",
                                    "fused", "single"},
                            retryAfter : Hint \cup {0}]]

\* Round robin is fair: no model of the combo is ahead of another by more
\* turns than the sticky limit, as long as all requests rotate the same list.
TurnsAreFair ==
  ~mixed => \A a, b \in Member : slots[a] - slots[b] <= StickyLimit

\* Whatever rotation, reordering and the adapter did to its list, a combo fails
\* only after each of its members was tried, and tells the earliest date any of
\* its models reported.
ExhaustionIsHonest ==
  \A r \in Request : reply[r].kind = "exhausted" =>
    /\ pos[r] = Len(order[r])
    /\ Member \subseteq {order[r][i] : i \in 1 .. pos[r]}
    /\ IF hints[r] = {} THEN reply[r].retryAfter = 0
       ELSE reply[r].retryAfter \in hints[r] /\ \A h \in hints[r] : reply[r].retryAfter <= h

\* No usable answer that was there when the panel closed is lost, and the
\* judge is asked exactly when there are two answers or more.
AnswersReachJudge ==
  \A r \in Request :
    /\ pc[r] \in {"direct", "judging"} \/ reply[r].kind = "panelFailed" => closed[r] \subseteq answers[r]
    /\ pc[r] = "judging" => Cardinality(answers[r]) >= 2
    /\ pc[r] = "direct" => Cardinality(answers[r]) = 1

\* "absolute cap so one hung model can't stall forever": a panel is over in
\* the end although its models may never answer.
PanelEnds ==
  \A r \in Request : pc[r] = "collecting" ~> pc[r] \notin {"collecting", "reading"}
=============================================================================

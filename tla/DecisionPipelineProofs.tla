------------------------ MODULE DecisionPipelineProofs ------------------------
(***************************************************************************)
(* Safety of the decision pipeline for any calls, requests, entities,       *)
(* labels, faults, crashes and expiries.                                    *)
(***************************************************************************)
EXTENDS DecisionPipeline, TLAPS

\* What a handler holds at each point: decide() holds a verdict of its own
\* request from the evaluation to the save, and whoever still has promises to
\* run holds a result.
InHand ==
    \A c \in Calls :
        /\ pc[c] \in {"evaluated", "saving", "decided"} => res[c] # NoResult
        /\ pc[c] \in {"evaluated", "saving"} => res[c].req = ReqOf[c]
        /\ bg[c] # {} => res[c] # NoResult /\ pc[c] \in {"replied", "handled", "committed"}

\* Redis keys hold what their key says: a verdict about the entity, a verdict
\* of the request.
KeysMatch ==
    /\ \A e \in Entities : cache[e] # NoResult => EntityOf[cache[e].req] = e
    /\ \A r \in Requests : idem[r] # NoResult => idem[r].req = r

Inv == TypeOK /\ InHand /\ KeysMatch /\ NoInventedVerdict /\ OwnEntity

-----------------------------------------------------------------------------
(* The watchlist and the verdict of a denied call *)

\* Only Crash leads back to "new", and it drops the result: a call that still
\* has to be evaluated holds none.
NothingYet == \A c \in Calls : pc[c] \in {"new", "idempotency", "lookup", "watchlist"} => res[c] = NoResult

\* What a call that arrived denied can rely on until a label clears it: the
\* entry is still there, so a check answered in time never lets it be scored.
Denied(c) ==
    arrival[c].denied /\ ~Cleared =>
        /\ "denylist" \in lists[Ent(c)]
        /\ ~arrival[c].timedOut =>
             /\ pc[c] # "scoring"
             /\ (res[c] # NoResult /\ ~res[c].cached) => res[c].action = "BLOCK"

DeniedInv == NothingYet /\ \A c \in Calls : Denied(c)

-----------------------------------------------------------------------------
(* A retry of a settled request *)

Calm == faults = 0 /\ expiries = 0 /\ crashes = 0

\* A result that did not come from the entity cache is the call's own.
OwnResult == \A c \in Calls : res[c] # NoResult /\ ~res[c].cached => res[c].req = ReqOf[c]

\* The key still holds what it held when c arrived, and no HTTP call of the
\* request is past its look at the key.
Waiting(c) ==
    /\ pc[c] = "idempotency"
    /\ idem[ReqOf[c]] = arrival[c].settled
    /\ \A d \in Http : ReqOf[d] = ReqOf[c] /\ InFlight(d) => pc[d] = "idempotency"
Answered(c) == pc[c] = "replied" /\ reply[c] = [arrival[c].settled EXCEPT !.cached = TRUE]
Silent(c) == bg[c] = {} /\ \A m \in topic : m.from # c

RetryOf(c) ==
    Calm => /\ pc[c] = "new" => Silent(c)
            /\ arrival[c].settled # NoResult => Silent(c) /\ (Waiting(c) \/ Answered(c))

RetryInv == OwnResult /\ \A c \in Http : RetryOf(c)

-----------------------------------------------------------------------------
\* Whatever the numbers are, scoring ends in one of the three actions.
LEMMA ScoredActionType ==
  ASSUME NEW base, NEW blocks, NEW reviews, NEW l, NEW rules
  PROVE  ScoredAction(base, blocks, reviews, l, rules) \in Actions
  BY DEF ScoredAction, WithRules, computeAction, Actions

LEMMA EntType == ASSUME NEW c \in Calls PROVE ReqOf[c] \in Requests /\ Ent(c) \in Entities
  BY CallsAssumption DEF Ent

LEMMA LabelType ==
  ASSUME TypeOK, HasLabel
  PROVE  Label.ent \in Entities
  <1> DEFINE LabelRec == [ent : Entities, resolution : {"FRAUD", "LEGITIMATE", "INCONCLUSIVE"}]
  <1>1. Labels \in Seq(LabelRec)
    BY LabelsAssumption
  <1>2. fb.next \in 1 .. Len(Labels)
    BY <1>1 DEF TypeOK, HasLabel
  <1>3. Labels[fb.next] \in LabelRec
    <2> HIDE DEF LabelRec
    <2> QED BY <1>1, <1>2
  <1> QED BY <1>3 DEF Label

\* decide() only ever adds verdicts.
LEMMA VerdictsGrow ==
  ASSUME TypeOK, [Next]_vars, NEW r \in Requests
  PROVE  verdicts[r] \subseteq verdicts'[r]
  <1>1. ASSUME NEW c \in Calls, NEW a, Evaluated(c, a) PROVE verdicts[r] \subseteq verdicts'[r]
    BY <1>1 DEF Evaluated, TypeOK
  <1>2. ASSUME NEW c \in Calls, CheckWatchlist(c) PROVE verdicts[r] \subseteq verdicts'[r]
    BY <1>1, <1>2 DEF CheckWatchlist
  <1>3. ASSUME NEW c \in Calls, Score(c) PROVE verdicts[r] \subseteq verdicts'[r]
    BY <1>1, <1>3 DEF Score
  <1>4. ASSUME UNCHANGED verdicts PROVE verdicts[r] \subseteq verdicts'[r]
    BY <1>4
  <1>5. ASSUME NEW c \in Calls,
               \/ Arrive(c) \/ IdempotencyGet(c) \/ CacheLookup(c) \/ CacheSet(c)
               \/ SaveInDecide(c) \/ IdempotencySet(c) \/ EventHandled(c) \/ CommitOffset(c)
               \/ SaveInBackground(c) \/ Publish(c) \/ Crash(c)
        PROVE  UNCHANGED verdicts
    BY <1>5 DEF Arrive, IdempotencyGet, CacheLookup, CacheSet, SaveInDecide, IdempotencySet,
       EventHandled, CommitOffset, SaveInBackground, Publish, Crash
  <1>6. ASSUME \/ \E e \in Entities : ExpireCache(e)
               \/ \E q \in Requests : ExpireIdempotency(q)
               \/ Feedback \/ UNCHANGED vars
        PROVE  UNCHANGED verdicts
    BY <1>6 DEF ExpireCache, ExpireIdempotency, Feedback, FraudLabel, LegitimateLabel,
       SkipLabel, vars
  <1> QED BY <1>2, <1>3, <1>4, <1>5, <1>6 DEF Next, CallStep

-----------------------------------------------------------------------------
LEMMA InitInv == Init => Inv
  BY CallsAssumption, LabelsAssumption, NoResultAssumption
  DEF Init, Inv, TypeOK, InHand, KeysMatch, NoInventedVerdict, OwnEntity, Genuine

Places == {"new", "idempotency", "lookup", "watchlist", "scoring", "evaluated",
           "saving", "decided", "replied", "handled", "committed", "failed"}

\* A step counts its fault or leaves the count alone.
LEMMA FaultsType ==
  ASSUME TypeOK, Next
  PROVE  faults' \in Nat
  <1> USE BoundsAssumption DEF TypeOK, Fault, NoFault, bounds
  <1>1. ASSUME NEW c \in Calls, CallStep(c) PROVE faults' \in Nat
    <2>1. CASE Arrive(c) \/ EventHandled(c) \/ CommitOffset(c)
      BY <2>1 DEF Arrive, EventHandled, CommitOffset
    <2>2. CASE IdempotencyGet(c) \/ CacheLookup(c)
      BY <2>2 DEF IdempotencyGet, CacheLookup
    <2>3. CASE CheckWatchlist(c) \/ Score(c)
      BY <2>3 DEF CheckWatchlist, Score
    <2>4. CASE CacheSet(c) \/ SaveInDecide(c) \/ IdempotencySet(c)
      BY <2>4 DEF CacheSet, SaveInDecide, IdempotencySet
    <2> QED BY <1>1, <2>1, <2>2, <2>3, <2>4 DEF CallStep
  <1>2. ASSUME NEW c \in Calls, SaveInBackground(c) \/ Publish(c) \/ Crash(c) PROVE faults' \in Nat
    BY <1>2 DEF SaveInBackground, Publish, Crash
  <1>3. ASSUME NEW e \in Entities, ExpireCache(e) PROVE faults' \in Nat
    BY <1>3 DEF ExpireCache
  <1>4. ASSUME NEW r \in Requests, ExpireIdempotency(r) PROVE faults' \in Nat
    BY <1>4 DEF ExpireIdempotency
  <1>5. ASSUME Feedback PROVE faults' \in Nat
    BY <1>5 DEF Feedback, FraudLabel, LegitimateLabel, SkipLabel
  <1> QED BY <1>1, <1>2, <1>3, <1>4, <1>5 DEF Next

\* A verdict stays one of the actions, and an evaluated call holds it.
LEMMA EvaluatedType ==
  ASSUME TypeOK, NEW c \in Calls, NEW a \in Actions, Evaluated(c, a)
  PROVE  /\ pc' \in [Calls -> Places]
         /\ res' \in [Calls -> Result \union {NoResult}]
         /\ verdicts' \in [Requests -> SUBSET Actions]
  <1>1. [req |-> ReqOf[c], action |-> a, cached |-> FALSE] \in Result
    BY EntType DEF Result
  <1> QED BY <1>1, EntType DEF Evaluated, TypeOK, Goto, Places

\* Marking a result as cached keeps it a result.
LEMMA MarkedType ==
  ASSUME NEW x \in Result
  PROVE  /\ [x EXCEPT !.cached = TRUE] \in Result
         /\ [x EXCEPT !.cached = TRUE].req = x.req
         /\ [x EXCEPT !.cached = TRUE].action = x.action
  BY DEF Result

\* Insert keeps a saved row and otherwise stores the new one.
LEMMA InsertEffect ==
  ASSUME TypeOK, NEW r \in Requests, NEW row \in Row, Insert(r, row)
  PROVE  /\ store' \in [Requests -> Row \union {NoResult}]
         /\ \A q \in Requests : store[q] # NoResult => store'[q] = store[q]
         /\ \A q \in Requests : store'[q] # store[q] => q = r /\ store'[q] = row
  BY DEF Insert, TypeOK

\* What an analyst label does to the lists is typed.
LEMMA FeedbackType ==
  ASSUME TypeOK, Feedback
  PROVE  lists' \in [Entities -> SUBSET ListTypes] /\ fb' \in [next : Nat \ {0}, step : {1, 2}]
  <1> USE DEF TypeOK
  <1>1. Label.ent \in Entities
    BY LabelType DEF Feedback, FraudLabel, LegitimateLabel, SkipLabel
  <1>2. {"denylist", "allowlist"} \subseteq ListTypes
    BY DEF ListTypes
  <1>3. ASSUME NEW l \in SUBSET ListTypes, ListsBecome(l) PROVE lists' \in [Entities -> SUBSET ListTypes]
    BY <1>1, <1>3 DEF ListsBecome
  <1>4. NextLabel => fb' \in [next : Nat \ {0}, step : {1, 2}]
    BY DEF NextLabel
  <1>5. lists[Label.ent] \in SUBSET ListTypes
    BY <1>1
  <1>6. CASE FraudLabel
    BY <1>2, <1>3, <1>4, <1>5, <1>6 DEF FraudLabel
  <1>7. CASE LegitimateLabel
    <2>1. lists' \in [Entities -> SUBSET ListTypes]
      BY <1>2, <1>3, <1>5, <1>7 DEF LegitimateLabel
    <2>2. fb' \in [next : Nat \ {0}, step : {1, 2}]
      BY <1>4, <1>7 DEF LegitimateLabel
    <2> QED BY <2>1, <2>2
  <1>8. CASE SkipLabel
    BY <1>4, <1>8 DEF SkipLabel
  <1> QED BY <1>6, <1>7, <1>8 DEF Feedback

-----------------------------------------------------------------------------
LEMMA TypeStep == TypeOK /\ InHand /\ [Next]_vars => TypeOK'
  <1> SUFFICES ASSUME TypeOK, InHand, [Next]_vars PROVE TypeOK'
    OBVIOUS
  <1> USE DEF Goto, callVars, redisVars, dbVars, listVars, bounds, Places
  <1>f. Next => faults' \in Nat
    BY FaultsType
  <1>1. ASSUME NEW c \in Calls, Arrive(c) PROVE TypeOK'
    <2>1. /\ ("denylist" \in lists[Ent(c)]) \in BOOLEAN
          /\ idem[ReqOf[c]] \in Result \union {NoResult}
      BY EntType DEF TypeOK
    <2> QED BY <1>1, <2>1 DEF Arrive, TypeOK
  <1>2. ASSUME NEW c \in Calls, IdempotencyGet(c) PROVE TypeOK'
    <2>1. reply' \in [Calls -> Result \union {NoResult}]
      BY <1>2, EntType, MarkedType DEF IdempotencyGet, IdempotencyHit, TypeOK
    <2> QED BY <1>2, <2>1, <1>f DEF IdempotencyGet, TypeOK, Next, CallStep
  <1>3. ASSUME NEW c \in Calls, CacheLookup(c) PROVE TypeOK'
    <2>1. res' \in [Calls -> Result \union {NoResult}]
      BY <1>3, EntType, MarkedType DEF CacheLookup, CacheKey, FromCache, TypeOK
    <2> QED BY <1>3, <2>1, <1>f DEF CacheLookup, TypeOK, Next, CallStep
  <1>4. ASSUME NEW c \in Calls, CheckWatchlist(c) PROVE TypeOK'
    <2>1. seen' \in [Calls -> SUBSET ListTypes]
      BY <1>4, EntType DEF CheckWatchlist, ActiveEntries, TypeOK
    <2>2. arrival' \in [Calls -> [denied : BOOLEAN, settled : Result \union {NoResult}, timedOut : BOOLEAN]]
      <3> DEFINE Arrival == [denied : BOOLEAN, settled : Result \union {NoResult}, timedOut : BOOLEAN]
      <3>1. arrival \in [Calls -> Arrival]
        BY DEF TypeOK
      <3>2. [arrival[c] EXCEPT !.timedOut = TRUE] \in Arrival
        BY <3>1
      <3>3. arrival' = arrival \/ arrival' = [arrival EXCEPT ![c] = [arrival[c] EXCEPT !.timedOut = TRUE]]
        BY <1>4, <3>1 DEF CheckWatchlist
      <3> HIDE DEF Arrival
      <3>4. arrival' \in [Calls -> Arrival]
        BY <3>1, <3>2, <3>3
      <3> QED BY <3>4 DEF Arrival
    <2>3. "BLOCK" \in Actions
      BY DEF Actions
    <2>4. /\ pc' \in [Calls -> Places]
          /\ res' \in [Calls -> Result \union {NoResult}]
          /\ verdicts' \in [Requests -> SUBSET Actions]
      BY <1>4, EvaluatedType, <2>3 DEF CheckWatchlist, TypeOK
    <2> QED
      BY <1>4, <2>1, <2>2, <2>4, <1>f DEF CheckWatchlist, TypeOK, Next, CallStep
  <1>5. ASSUME NEW c \in Calls, Score(c) PROVE TypeOK'
    <2>1. \E a \in Actions : Evaluated(c, a)
      BY <1>5, ScoredActionType DEF Score
    <2>2. /\ pc' \in [Calls -> Places]
          /\ res' \in [Calls -> Result \union {NoResult}]
          /\ verdicts' \in [Requests -> SUBSET Actions]
      BY <2>1, EvaluatedType
    <2> QED
      BY <1>5, <2>2, <1>f DEF Score, TypeOK, Next, CallStep
  <1>6. ASSUME NEW c \in Calls, CacheSet(c) PROVE TypeOK'
    <2>1. cache' \in [Entities -> Result \union {NoResult}]
      BY <1>6, EntType DEF CacheSet, CacheKey, TypeOK
    <2>2. res' \in [Calls -> Result \union {NoResult}]
      BY <1>6 DEF CacheSet, TypeOK
    <2>3. pc' \in [Calls -> Places]
      BY <1>6 DEF CacheSet, TypeOK
    <2> QED
      BY <1>6, <2>1, <2>2, <2>3, <1>f DEF CacheSet, TypeOK, Next, CallStep
  <1>7. ASSUME NEW c \in Calls, SaveInDecide(c) PROVE TypeOK'
    <2>1. res[c] \in Result
      BY <1>7 DEF SaveInDecide, InHand, TypeOK
    <2>2. [action |-> res[c].action, isTest |-> FALSE, typed |-> TRUE] \in Row
      BY <2>1 DEF Result, Row
    <2>3. store' \in [Requests -> Row \union {NoResult}]
      BY <1>7, <2>2, EntType, InsertEffect DEF SaveInDecide, TypeOK
    <2>4. txCount' \in [Entities -> Nat]
      BY <1>7, EntType DEF SaveInDecide, TypeOK
    <2> QED
      BY <1>7, <2>3, <2>4, <1>f DEF SaveInDecide, TypeOK, Next, CallStep
  <1>8. ASSUME NEW c \in Calls, IdempotencySet(c) PROVE TypeOK'
    <2>1. res[c] \in Result
      BY <1>8 DEF IdempotencySet, InHand, TypeOK
    <2>2. idem' \in [Requests -> Result \union {NoResult}]
      BY <1>8, <2>1 DEF IdempotencySet, TypeOK
    <2> QED
      BY <1>8, <2>1, <2>2, <1>f DEF IdempotencySet, Promises, TypeOK, Next, CallStep
  <1>9. ASSUME NEW c \in Calls, EventHandled(c) PROVE TypeOK'
    BY <1>9 DEF EventHandled, Promises, TypeOK
  <1>10. ASSUME NEW c \in Calls, SaveInBackground(c) PROVE TypeOK'
    <2>1. res[c] \in Result
      BY <1>10 DEF SaveInBackground, InHand, TypeOK
    <2>2. [action |-> res[c].action, isTest |-> c \notin Http /\ IsTest[ReqOf[c]], typed |-> FALSE] \in Row
      BY <2>1, CallsAssumption DEF Result, Row
    <2>3. store' \in [Requests -> Row \union {NoResult}]
      BY <1>10, <2>1, <2>2, InsertEffect DEF SaveInBackground, TypeOK, Result
    <2>4. bg' \in [Calls -> SUBSET {"save", "publish"}]
      BY <1>10 DEF SaveInBackground, TypeOK
    <2> QED
      BY <1>10, <2>3, <2>4, <1>f DEF SaveInBackground, TypeOK, Next
  <1>11. ASSUME NEW c \in Calls, Publish(c) PROVE TypeOK'
    <2>1. res[c] \in Result
      BY <1>11 DEF Publish, InHand, TypeOK
    <2>2. [req |-> res[c].req, action |-> res[c].action, isTest |-> IsTest[ReqOf[c]], from |-> c]
            \in [req : Requests, action : Actions, isTest : BOOLEAN, from : Calls]
      BY <2>1, CallsAssumption DEF Result
    <2>3. topic' \in SUBSET [req : Requests, action : Actions, isTest : BOOLEAN, from : Calls]
      BY <1>11, <2>2 DEF Publish, TypeOK
    <2>4. bg' \in [Calls -> SUBSET {"save", "publish"}]
      BY <1>11 DEF Publish, TypeOK
    <2> QED
      BY <1>11, <2>3, <2>4, <1>f DEF Publish, TypeOK, Next
  <1>12. ASSUME NEW c \in Calls, CommitOffset(c) PROVE TypeOK'
    BY <1>12 DEF CommitOffset, TypeOK
  <1>13. ASSUME NEW c \in Calls, Crash(c) PROVE TypeOK'
    <2>1. pc' \in [Calls -> Places]
      BY <1>13 DEF Crash, TypeOK
    <2>2. /\ res' \in [Calls -> Result \union {NoResult}]
          /\ seen' \in [Calls -> SUBSET ListTypes]
          /\ bg' \in [Calls -> SUBSET {"save", "publish"}]
      BY <1>13 DEF Crash, TypeOK
    <2> QED BY <1>13, <2>1, <2>2 DEF Crash, TypeOK
  <1>14. ASSUME NEW e \in Entities, ExpireCache(e) PROVE TypeOK'
    BY <1>14 DEF ExpireCache, TypeOK
  <1>15. ASSUME NEW r \in Requests, ExpireIdempotency(r) PROVE TypeOK'
    BY <1>15 DEF ExpireIdempotency, TypeOK
  <1>16. ASSUME Feedback PROVE TypeOK'
    BY <1>16, FeedbackType, <1>f
    DEF Feedback, FraudLabel, LegitimateLabel, SkipLabel, TypeOK, Next
  <1>17. CASE UNCHANGED vars
    BY <1>17 DEF vars, TypeOK
  <1> QED
    BY <1>1, <1>2, <1>3, <1>4, <1>5, <1>6, <1>7, <1>8, <1>9, <1>10, <1>11, <1>12, <1>13,
       <1>14, <1>15, <1>16, <1>17 DEF Next, CallStep

-----------------------------------------------------------------------------
\* A step of c may only touch what c holds: the rest keeps its invariant.
LEMMA InHandStep == Inv /\ [Next]_vars => InHand'
  <1> SUFFICES ASSUME Inv, [Next]_vars, NEW c \in Calls
               PROVE  /\ pc'[c] \in {"evaluated", "saving", "decided"} => res'[c] # NoResult
                      /\ pc'[c] \in {"evaluated", "saving"} => res'[c].req = ReqOf[c]
                      /\ bg'[c] # {} => res'[c] # NoResult /\ pc'[c] \in {"replied", "handled", "committed"}
    BY DEF InHand
  <1> USE DEF Inv, InHand, TypeOK, Goto, callVars
  <1>1. ASSUME NEW d \in Calls, Arrive(d) \/ IdempotencyGet(d) \/ CommitOffset(d)
        PROVE  InHand'
    BY <1>1 DEF Arrive, IdempotencyGet, CommitOffset
  <1>2. ASSUME NEW d \in Calls, CacheLookup(d) PROVE InHand'
    <2>1. cache[CacheKey(d)] # NoResult => FromCache(d, cache[CacheKey(d)]) # NoResult
      BY EntType, MarkedType, NoResultAssumption DEF CacheKey, FromCache
    <2> QED BY <1>2, <2>1 DEF CacheLookup
  <1>e. ASSUME NEW d \in Calls, NEW a \in Actions, Evaluated(d, a)
        PROVE  /\ \A b \in Calls \ {d} : pc'[b] = pc[b] /\ res'[b] = res[b]
               /\ pc'[d] = "evaluated" /\ res'[d] # NoResult /\ res'[d].req = ReqOf[d]
    <2>1. [req |-> ReqOf[d], action |-> a, cached |-> FALSE] \in Result
      BY EntType DEF Result
    <2> QED BY <1>e, <2>1, NoResultAssumption DEF Evaluated
  <1>3. ASSUME NEW d \in Calls, CheckWatchlist(d) PROVE InHand'
    <2>1. "BLOCK" \in Actions
      BY DEF Actions
    <2> QED BY <1>3, <1>e, <2>1 DEF CheckWatchlist
  <1>4. ASSUME NEW d \in Calls, Score(d) PROVE InHand'
    <2>1. \E a \in Actions : Evaluated(d, a)
      BY <1>4, ScoredActionType DEF Score
    <2> QED BY <1>4, <1>e, <2>1 DEF Score
  <1>5. ASSUME NEW d \in Calls, CacheSet(d) PROVE InHand'
    BY <1>5 DEF CacheSet
  <1>6. ASSUME NEW d \in Calls, SaveInDecide(d) PROVE InHand'
    BY <1>6 DEF SaveInDecide
  <1>7. ASSUME NEW d \in Calls, IdempotencySet(d) \/ EventHandled(d) PROVE InHand'
    <2>1. /\ res' = res /\ res[d] # NoResult
          /\ bg' = [bg EXCEPT ![d] = Promises(res[d])]
          /\ \E l \in {"replied", "handled"} : pc' = [pc EXCEPT ![d] = l]
      BY <1>7 DEF IdempotencySet, EventHandled
    <2> QED BY <2>1
  <1>8. ASSUME NEW d \in Calls, SaveInBackground(d) \/ Publish(d) PROVE InHand'
    BY <1>8 DEF SaveInBackground, Publish
  <1>9. ASSUME NEW d \in Calls, Crash(d) PROVE InHand'
    BY <1>9 DEF Crash, InFlight, Ended
  <1>10. ASSUME \/ \E e \in Entities : ExpireCache(e)
                \/ \E r \in Requests : ExpireIdempotency(r)
                \/ Feedback \/ UNCHANGED vars
         PROVE  InHand'
    BY <1>10 DEF ExpireCache, ExpireIdempotency, Feedback, FraudLabel, LegitimateLabel,
       SkipLabel, vars
  <1> QED
    BY <1>1, <1>2, <1>3, <1>4, <1>5, <1>6, <1>7, <1>8, <1>9, <1>10 DEF Next, CallStep

\* Everything a step puts in a key, a table, the topic or a call is about the
\* request and the entity it is put there for.
Provenance == KeysMatch /\ NoInventedVerdict /\ OwnEntity

\* A row with an action computed for its request keeps the table genuine.
LEMMA InsertGenuine ==
  ASSUME TypeOK, NEW r \in Requests, NEW row, row.action \in verdicts[r], Insert(r, row),
         \A q \in Requests : store[q] # NoResult => store[q].action \in verdicts[q]
  PROVE  \A q \in Requests : store'[q] # NoResult => store'[q].action \in verdicts[q]
  <1>1. \A q \in Requests : store'[q] = store[q] \/ (q = r /\ store'[q] = row)
    BY DEF Insert, TypeOK
  <1> QED BY <1>1

LEMMA ProvenanceStep == Inv /\ [Next]_vars => Provenance'
  <1> SUFFICES ASSUME Inv, [Next]_vars PROVE Provenance'
    OBVIOUS
  <1> USE DEF Inv, Provenance, KeysMatch, NoInventedVerdict, OwnEntity, Genuine, TypeOK,
          Goto, callVars, redisVars, dbVars
  <1>v. \A r \in Requests : verdicts[r] \subseteq verdicts'[r]
    BY VerdictsGrow
  <1>r. \A x \in Result : x.req \in Requests /\ x.action \in Actions
    BY DEF Result
  <1>1. ASSUME NEW d \in Calls, Arrive(d) \/ EventHandled(d) \/ CommitOffset(d) PROVE Provenance'
    BY <1>1 DEF Arrive, EventHandled, CommitOffset
  <1>2. ASSUME NEW d \in Calls, IdempotencyGet(d) PROVE Provenance'
    <2> DEFINE hit == [idem[ReqOf[d]] EXCEPT !.cached = TRUE]
    <2>1. IdempotencyHit(d) => hit.req = ReqOf[d] /\ hit.action \in verdicts[ReqOf[d]]
      BY EntType, MarkedType DEF IdempotencyHit
    <2>2. \A c \in Calls : reply'[c] = reply[c] \/ (c = d /\ IdempotencyHit(d) /\ reply'[c] = hit)
      BY <1>2 DEF IdempotencyGet
    <2> HIDE DEF hit
    <2>3. \A c \in Calls : reply'[c] # NoResult =>
            reply'[c].action \in verdicts[reply'[c].req] /\ EntityOf[reply'[c].req] = Ent(c)
      BY <2>1, <2>2 DEF Ent
    <2> QED BY <1>2, <2>3 DEF IdempotencyGet
  <1>3. ASSUME NEW d \in Calls, CacheLookup(d) PROVE Provenance'
    <2> DEFINE hit == FromCache(d, cache[CacheKey(d)])
    <2>1. cache[CacheKey(d)] # NoResult => hit.action \in verdicts[hit.req] /\ EntityOf[hit.req] = Ent(d)
      BY EntType, MarkedType DEF CacheKey, FromCache
    <2>2. \A c \in Calls : res'[c] = res[c] \/ (c = d /\ cache[CacheKey(d)] # NoResult /\ res'[c] = hit)
      BY <1>3 DEF CacheLookup
    <2> HIDE DEF hit
    <2>3. \A c \in Calls : res'[c] # NoResult =>
            res'[c].action \in verdicts[res'[c].req] /\ EntityOf[res'[c].req] = Ent(c)
      BY <2>1, <2>2
    <2> QED BY <1>3, <2>3 DEF CacheLookup
  <1>e. ASSUME NEW d \in Calls, NEW a \in Actions, Evaluated(d, a),
               UNCHANGED <<reply, redisVars, dbVars, topic>>
        PROVE  Provenance'
    <2>1. res' = [res EXCEPT ![d] = [req |-> ReqOf[d], action |-> a, cached |-> FALSE]]
      BY <1>e DEF Evaluated
    <2>2. a \in verdicts'[ReqOf[d]]
      BY <1>e, EntType DEF Evaluated
    <2> QED BY <1>e, <1>v, <1>r, <2>1, <2>2, EntType DEF Ent
  <1>4. ASSUME NEW d \in Calls, CheckWatchlist(d) PROVE Provenance'
    <2>1. "BLOCK" \in Actions
      BY DEF Actions
    <2>2. CASE Evaluated(d, "BLOCK")
      BY <1>4, <1>e, <2>1, <2>2 DEF CheckWatchlist
    <2>3. CASE UNCHANGED <<res, verdicts>>
      BY <1>4, <2>3 DEF CheckWatchlist
    <2> QED BY <1>4, <2>2, <2>3 DEF CheckWatchlist
  <1>5. ASSUME NEW d \in Calls, Score(d) PROVE Provenance'
    <2>1. \E a \in Actions : Evaluated(d, a)
      BY <1>5, ScoredActionType DEF Score
    <2> QED BY <1>5, <1>e, <2>1 DEF Score
  <1>6. ASSUME NEW d \in Calls, CacheSet(d) PROVE Provenance'
    <2>1. \A c \in Calls : res'[c] = res[c] \/ res'[c] = NoResult
      BY <1>6 DEF CacheSet
    <2>2. res[d] # NoResult /\ res[d].req = ReqOf[d]
      BY <1>6 DEF CacheSet, InHand
    <2>3. \A e \in Entities : cache'[e] = cache[e] \/ (e = Ent(d) /\ cache'[e] = res[d])
      BY <1>6 DEF CacheSet, CacheKey
    <2>4. \A e \in Entities : cache'[e] # NoResult =>
            cache'[e].action \in verdicts[cache'[e].req] /\ EntityOf[cache'[e].req] = e
      BY <2>2, <2>3 DEF Ent
    <2> QED BY <1>6, <2>1, <2>4 DEF CacheSet
  <1>7. ASSUME NEW d \in Calls, SaveInDecide(d) PROVE Provenance'
    <2>1. res[d] \in Result /\ res[d].req = ReqOf[d]
      BY <1>7 DEF SaveInDecide, InHand
    <2>2. ASSUME Insert(ReqOf[d], [action |-> res[d].action, isTest |-> FALSE, typed |-> TRUE])
          PROVE  \A r \in Requests : store'[r] # NoResult => store'[r].action \in verdicts[r]
      <3>1. res[d].action \in verdicts[ReqOf[d]]
        BY <2>1, NoResultAssumption
      <3>2. ReqOf[d] \in Requests
        BY EntType
      <3> QED BY <2>2, <3>1, <3>2, InsertGenuine
    <2>3. \A r \in Requests : store'[r] # NoResult => store'[r].action \in verdicts[r]
      BY <1>7, <2>2 DEF SaveInDecide
    <2> QED BY <1>7, <2>3 DEF SaveInDecide
  <1>8. ASSUME NEW d \in Calls, IdempotencySet(d) PROVE Provenance'
    <2>1. res[d] \in Result
      BY <1>8 DEF IdempotencySet, InHand
    <2>2. res[d].action \in verdicts[res[d].req] /\ EntityOf[res[d].req] = Ent(d)
      BY <2>1, NoResultAssumption
    <2>3. /\ \A r \in Requests : idem'[r] = idem[r] \/ (r = res[d].req /\ idem'[r] = res[d])
          /\ \A c \in Calls : reply'[c] = reply[c] \/ (c = d /\ reply'[c] = res[d])
      BY <1>8 DEF IdempotencySet
    <2>4. \A r \in Requests : idem'[r] # NoResult => idem'[r].req = r /\ idem'[r].action \in verdicts[r]
      BY <2>2, <2>3
    <2>5. \A c \in Calls : reply'[c] # NoResult =>
            reply'[c].action \in verdicts[reply'[c].req] /\ EntityOf[reply'[c].req] = Ent(c)
      BY <2>2, <2>3
    <2> QED BY <1>8, <2>4, <2>5 DEF IdempotencySet
  <1>9. ASSUME NEW d \in Calls, SaveInBackground(d) PROVE Provenance'
    <2> DEFINE row == [action |-> res[d].action, isTest |-> d \notin Http /\ IsTest[ReqOf[d]],
                       typed |-> FALSE]
    <2>1. res[d] \in Result
      BY <1>9 DEF SaveInBackground, InHand
    <2>2. row.action \in verdicts[res[d].req] /\ res[d].req \in Requests
      BY <2>1, <1>r, NoResultAssumption
    <2> HIDE DEF row
    <2>3. Insert(res[d].req, row) =>
            \A r \in Requests : store'[r] # NoResult => store'[r].action \in verdicts[r]
      BY <2>2, InsertGenuine
    <2>4. \A r \in Requests : store'[r] # NoResult => store'[r].action \in verdicts[r]
      BY <1>9, <2>3 DEF SaveInBackground, row
    <2> QED BY <1>9, <2>4 DEF SaveInBackground
  <1>10. ASSUME NEW d \in Calls, Publish(d) PROVE Provenance'
    <2>1. res[d] \in Result
      BY <1>10 DEF Publish, InHand
    <2>2. res[d].action \in verdicts[res[d].req]
      BY <2>1, NoResultAssumption
    <2>3. \A m \in topic' : m \in topic \/ (m.req = res[d].req /\ m.action = res[d].action)
      BY <1>10 DEF Publish
    <2>4. \A m \in topic' : m.action \in verdicts[m.req]
      BY <2>2, <2>3
    <2> QED BY <1>10, <2>4 DEF Publish
  <1>11. ASSUME NEW d \in Calls, Crash(d) PROVE Provenance'
    <2>1. \A c \in Calls : res'[c] = res[c] \/ res'[c] = NoResult
      BY <1>11 DEF Crash
    <2> QED BY <1>11, <2>1 DEF Crash
  <1>12. ASSUME NEW e \in Entities, ExpireCache(e) PROVE Provenance'
    BY <1>12 DEF ExpireCache
  <1>13. ASSUME NEW r \in Requests, ExpireIdempotency(r) PROVE Provenance'
    BY <1>13 DEF ExpireIdempotency
  <1>14. ASSUME Feedback \/ UNCHANGED vars PROVE Provenance'
    BY <1>14 DEF Feedback, FraudLabel, LegitimateLabel, SkipLabel, vars
  <1> QED
    BY <1>1, <1>2, <1>3, <1>4, <1>5, <1>6, <1>7, <1>8, <1>9, <1>10, <1>11, <1>12, <1>13,
       <1>14 DEF Next, CallStep

\* The only statement that writes the decisions table keeps a saved row.
LEMMA InsertStep ==
  ASSUME Inv, [Next]_vars, NEW r \in Requests, store[r] # NoResult
  PROVE  store'[r] = store[r]
  <1> USE DEF Inv, TypeOK, dbVars
  <1>1. ASSUME NEW d \in Calls, SaveInDecide(d) PROVE store'[r] = store[r]
    BY <1>1 DEF SaveInDecide, Insert
  <1>2. ASSUME NEW d \in Calls, SaveInBackground(d) PROVE store'[r] = store[r]
    BY <1>2 DEF SaveInBackground, Insert
  <1>3. ASSUME NEW d \in Calls,
               \/ Arrive(d) \/ IdempotencyGet(d) \/ CacheLookup(d) \/ CheckWatchlist(d)
               \/ Score(d) \/ CacheSet(d) \/ IdempotencySet(d) \/ EventHandled(d)
               \/ CommitOffset(d) \/ Publish(d) \/ Crash(d)
        PROVE  store' = store
    BY <1>3 DEF Arrive, IdempotencyGet, CacheLookup, CheckWatchlist, Score, CacheSet,
       IdempotencySet, EventHandled, CommitOffset, Publish, Crash
  <1>4. ASSUME \/ \E e \in Entities : ExpireCache(e)
               \/ \E q \in Requests : ExpireIdempotency(q)
               \/ Feedback \/ UNCHANGED vars
        PROVE  store' = store
    BY <1>4 DEF ExpireCache, ExpireIdempotency, Feedback, FraudLabel, LegitimateLabel,
       SkipLabel, vars
  <1> QED BY <1>1, <1>2, <1>3, <1>4 DEF Next, CallStep

-----------------------------------------------------------------------------
\* The invariant is inductive.
LEMMA Invariance == Spec => []Inv
  <1>1. Inv /\ [Next]_vars => Inv'
    BY TypeStep, InHandStep, ProvenanceStep DEF Inv, Provenance
  <1> QED BY InitInv, <1>1, PTL DEF Spec

\* Every variable of decide() and its callers keeps its type.
THEOREM TypeCorrect == Spec => []TypeOK
  BY Invariance, PTL DEF Inv

\* However calls interleave, fail, crash and are retried, a stored, cached,
\* published or answered verdict is one that decide() computed for its request.
THEOREM VerdictsAreGenuine == Spec => []NoInventedVerdict
  BY Invariance, PTL DEF Inv

\* However calls interleave, fail, crash and are retried, a call never sees a verdict about another entity.
THEOREM VerdictsStayWithTheirEntity == Spec => []OwnEntity
  BY Invariance, PTL DEF Inv

\* A saved verdict is never changed by a second save, a redelivery or a
\* concurrent call (decision-store.service.ts:68).
THEOREM SavedVerdictIsFinal == Spec => FirstVerdictIsFinal
  <1>1. Inv /\ [Next]_vars => [\A r \in Requests : store[r] # NoResult => store'[r] = store[r]]_store
    BY InsertStep
  <1> QED BY Invariance, <1>1, PTL DEF Spec, FirstVerdictIsFinal
-----------------------------------------------------------------------------
(* A denied entity's next verdict *)

\* The feedback consumer goes on to the next label, or from the first to the
\* second statement of a LEGITIMATE one, which takes the denylist entry away.
LEMMA FeedbackEffect ==
  ASSUME TypeOK, Feedback
  PROVE  /\ Cleared => Cleared'
         /\ ~Cleared' => \A e \in Entities : "denylist" \in lists[e] => "denylist" \in lists'[e]
  <1> USE DEF TypeOK
  <1>1. /\ Label.ent \in Entities
        /\ fb.next \in DOMAIN Labels /\ fb.next \in Nat
    BY LabelType, LabelsAssumption DEF Feedback, FraudLabel, LegitimateLabel, SkipLabel, HasLabel
  <1>2. ASSUME NextLabel PROVE Cleared => Cleared'
    BY <1>1, <1>2, LabelsAssumption DEF NextLabel, Cleared
  <1>3. CASE FraudLabel
    BY <1>1, <1>2, <1>3 DEF FraudLabel, ListsBecome
  <1>4. CASE LegitimateLabel
    <2>1. CASE fb.step = 1
      <3>1. fb' = [next |-> fb.next, step |-> 2]
        BY <1>4, <2>1 DEF LegitimateLabel
      <3> QED BY <1>1, <1>4, <3>1 DEF LegitimateLabel, Cleared, Label
    <2>2. CASE fb.step = 2
      BY <1>1, <1>2, <1>4, <2>2 DEF LegitimateLabel, ListsBecome
    <2> QED BY <1>4, <2>1, <2>2 DEF LegitimateLabel
  <1>5. CASE SkipLabel
    BY <1>2, <1>5 DEF SkipLabel
  <1> QED BY <1>3, <1>4, <1>5 DEF Feedback

LEMMA InitDenied == Init => DeniedInv
  BY DEF Init, DeniedInv, NothingYet, Denied

LEMMA DeniedStep == Inv /\ DeniedInv /\ [Next]_vars => DeniedInv'
  <1> SUFFICES ASSUME Inv, DeniedInv, [Next]_vars, NEW c \in Calls
               PROVE  /\ pc'[c] \in {"new", "idempotency", "lookup", "watchlist"} => res'[c] = NoResult
                      /\ Denied(c)'
    BY DEF DeniedInv, NothingYet
  <1> DEFINE Goal == /\ pc'[c] \in {"new", "idempotency", "lookup", "watchlist"} => res'[c] = NoResult
                     /\ Denied(c)'
  <1> USE DEF Inv, DeniedInv, NothingYet, Denied, TypeOK, Goto, callVars, redisVars, dbVars, listVars,
          bounds, Cleared
  <1>1. ASSUME NEW d \in Calls, Arrive(d) PROVE Goal
    BY <1>1 DEF Arrive
  <1>2. ASSUME NEW d \in Calls,
               \/ IdempotencyGet(d) \/ SaveInDecide(d) \/ IdempotencySet(d) \/ EventHandled(d)
               \/ CommitOffset(d) \/ SaveInBackground(d) \/ Publish(d)
        PROVE  Goal
    <2>1. UNCHANGED <<res, arrival, listVars>>
      BY <1>2 DEF IdempotencyGet, SaveInDecide, IdempotencySet, EventHandled, CommitOffset,
         SaveInBackground, Publish
    <2>2. \/ pc' = pc
          \/ pc[d] = "idempotency" /\ \E l \in {"replied", "lookup"} : pc' = [pc EXCEPT ![d] = l]
          \/ \E l \in {"replied", "handled", "committed", "decided"} : pc' = [pc EXCEPT ![d] = l]
      BY <1>2 DEF IdempotencyGet, SaveInDecide, IdempotencySet, EventHandled, CommitOffset,
         SaveInBackground, Publish
    <2> QED BY <2>1, <2>2
  <1>3. ASSUME NEW d \in Calls, CacheLookup(d) PROVE Goal
    <2>1. cache[CacheKey(d)] # NoResult => FromCache(d, cache[CacheKey(d)]).cached
      BY EntType DEF CacheKey, FromCache, Result
    <2> QED BY <1>3, <2>1 DEF CacheLookup
  <1>4. ASSUME NEW d \in Calls, CheckWatchlist(d) PROVE Goal
    BY <1>4 DEF CheckWatchlist, Evaluated, ActiveEntries
  <1>5. ASSUME NEW d \in Calls, Score(d) PROVE Goal
    BY <1>5 DEF Score, Evaluated
  <1>6. ASSUME NEW d \in Calls, CacheSet(d) \/ Crash(d) PROVE Goal
    BY <1>6 DEF CacheSet, Crash
  <1>7. ASSUME \/ \E e \in Entities : ExpireCache(e)
               \/ \E r \in Requests : ExpireIdempotency(r)
               \/ UNCHANGED vars
        PROVE  Goal
    BY <1>7 DEF ExpireCache, ExpireIdempotency, vars
  <1>8. ASSUME Feedback PROVE Goal
    <2>1. UNCHANGED <<pc, res, arrival>>
      BY <1>8 DEF Feedback, FraudLabel, LegitimateLabel, SkipLabel
    <2> HIDE DEF Cleared
    <2>2. Ent(c) \in Entities
      BY EntType
    <2> QED BY <1>8, <2>1, <2>2, FeedbackEffect DEF Ent
  <1> QED BY <1>1, <1>2, <1>3, <1>4, <1>5, <1>6, <1>7, <1>8 DEF Next, CallStep

\* The end-to-end promise of the watchlist: a call that arrives after the
\* denylist upsert, is evaluated and gets its check answered in time is a
\* BLOCK, whatever the signals and rules say, until a LEGITIMATE label clears it.
THEOREM DeniedCallsAreBlocked == Spec => []DeniedIsBlocked
  <1>1. DeniedInv => DeniedIsBlocked
    BY DEF DeniedInv, Denied, DeniedIsBlocked
  <1> QED BY Invariance, InitDenied, DeniedStep, <1>1, PTL DEF Spec

-----------------------------------------------------------------------------
(* A retry's verdict *)

\* No step takes a fault, an expiry or a crash back.
LEMMA DisturbancesCount ==
  ASSUME TypeOK, [Next]_vars
  PROVE  /\ faults' \in {faults, faults + 1}
         /\ crashes' \in {crashes, crashes + 1}
         /\ expiries' \in {expiries, expiries + 1}
  <1> USE DEF TypeOK, bounds
  <1>1. crashes' \in {crashes, crashes + 1} /\ expiries' \in {expiries, expiries + 1}
    <2>1. ASSUME NEW c \in Calls, CallStep(c) PROVE UNCHANGED <<crashes, expiries>>
      BY <2>1 DEF CallStep, Arrive, IdempotencyGet, CacheLookup, CheckWatchlist, Score, CacheSet,
         SaveInDecide, IdempotencySet, EventHandled, CommitOffset
    <2>2. ASSUME NEW c \in Calls, SaveInBackground(c) \/ Publish(c) \/ Crash(c)
          PROVE  crashes' \in {crashes, crashes + 1} /\ expiries' \in {expiries, expiries + 1}
      BY <2>2 DEF SaveInBackground, Publish, Crash
    <2>3. ASSUME \/ \E e \in Entities : ExpireCache(e)
                 \/ \E r \in Requests : ExpireIdempotency(r)
                 \/ Feedback \/ UNCHANGED vars
          PROVE  crashes' \in {crashes, crashes + 1} /\ expiries' \in {expiries, expiries + 1}
      BY <2>3 DEF ExpireCache, ExpireIdempotency, Feedback, FraudLabel, LegitimateLabel, SkipLabel, vars
    <2> QED BY <2>1, <2>2, <2>3 DEF Next
  <1>2. faults' \in {faults, faults + 1}
    <2> USE DEF Fault, NoFault
    <2>1. ASSUME NEW c \in Calls, CallStep(c) PROVE faults' \in {faults, faults + 1}
      <3>1. CASE Arrive(c) \/ IdempotencyGet(c) \/ CacheLookup(c) \/ CheckWatchlist(c) \/ Score(c)
        BY <3>1 DEF Arrive, IdempotencyGet, CacheLookup, CheckWatchlist, Score
      <3>2. CASE CacheSet(c) \/ SaveInDecide(c) \/ IdempotencySet(c) \/ EventHandled(c) \/ CommitOffset(c)
        BY <3>2 DEF CacheSet, SaveInDecide, IdempotencySet, EventHandled, CommitOffset
      <3> QED BY <2>1, <3>1, <3>2 DEF CallStep
    <2>2. ASSUME NEW c \in Calls, SaveInBackground(c) \/ Publish(c) \/ Crash(c)
          PROVE  faults' \in {faults, faults + 1}
      BY <2>2 DEF SaveInBackground, Publish, Crash
    <2>3. ASSUME \/ \E e \in Entities : ExpireCache(e)
                 \/ \E r \in Requests : ExpireIdempotency(r)
                 \/ Feedback \/ UNCHANGED vars
          PROVE  faults' \in {faults, faults + 1}
      BY <2>3 DEF ExpireCache, ExpireIdempotency, Feedback, FraudLabel, LegitimateLabel, SkipLabel, vars
    <2> QED BY <2>1, <2>2, <2>3 DEF Next
  <1> QED BY <1>1, <1>2

LEMMA CalmBefore ==
  ASSUME TypeOK, [Next]_vars, Calm'
  PROVE  /\ Calm /\ UNCHANGED bounds
         /\ \A c \in Calls : ~Crash(c)
         /\ \A e \in Entities : ~ExpireCache(e)
         /\ \A r \in Requests : ~ExpireIdempotency(r)
  <1> USE DEF TypeOK, Calm, bounds
  <1>1. Calm /\ UNCHANGED bounds
    BY DisturbancesCount
  <1> QED BY <1>1 DEF Crash, ExpireCache, ExpireIdempotency

\* Only decide() puts a result that is not from the cache in a call's hand.
LEMMA OwnResultStep == Inv /\ OwnResult /\ [Next]_vars => OwnResult'
  <1> SUFFICES ASSUME Inv, OwnResult, [Next]_vars PROVE OwnResult'
    OBVIOUS
  <1> USE DEF Inv, TypeOK, OwnResult, callVars, bounds, Goto
  <1>1. ASSUME NEW d \in Calls,
               \/ Arrive(d) \/ IdempotencyGet(d) \/ SaveInDecide(d) \/ IdempotencySet(d)
               \/ EventHandled(d) \/ CommitOffset(d) \/ SaveInBackground(d) \/ Publish(d)
        PROVE  res' = res
    BY <1>1 DEF Arrive, IdempotencyGet, SaveInDecide, IdempotencySet, EventHandled, CommitOffset,
       SaveInBackground, Publish
  <1>2. ASSUME NEW d \in Calls, CacheLookup(d) PROVE OwnResult'
    <2>1. cache[CacheKey(d)] # NoResult => FromCache(d, cache[CacheKey(d)]).cached
      BY EntType DEF CacheKey, FromCache, Result
    <2> QED BY <1>2, <2>1 DEF CacheLookup
  <1>3. ASSUME NEW d \in Calls, CheckWatchlist(d) \/ Score(d) PROVE OwnResult'
    <2>1. \/ res' = res
          \/ \E a : res' = [res EXCEPT ![d] = [req |-> ReqOf[d], action |-> a, cached |-> FALSE]]
      BY <1>3 DEF CheckWatchlist, Score, Evaluated
    <2> QED BY <2>1
  <1>4. ASSUME NEW d \in Calls, CacheSet(d) \/ Crash(d) PROVE OwnResult'
    BY <1>4 DEF CacheSet, Crash
  <1>5. ASSUME \/ \E e \in Entities : ExpireCache(e)
               \/ \E r \in Requests : ExpireIdempotency(r)
               \/ Feedback \/ UNCHANGED vars
        PROVE  res' = res
    BY <1>5 DEF ExpireCache, ExpireIdempotency, Feedback, FraudLabel, LegitimateLabel, SkipLabel, vars
  <1> QED BY <1>1, <1>2, <1>3, <1>4, <1>5 DEF Next, CallStep

LEMMA InitRetry == Init => RetryInv
  BY CallsAssumption DEF Init, RetryInv, OwnResult, RetryOf, Silent

LEMMA RetryStep == Inv /\ RetryInv /\ [Next]_vars => RetryInv'
  <1> SUFFICES ASSUME Inv, RetryInv, [Next]_vars, Calm', NEW c \in Http PROVE RetryOf(c)'
    BY OwnResultStep DEF RetryInv, RetryOf
  <1>0. /\ Calm /\ UNCHANGED bounds /\ c \in Calls
        /\ pc[c] = "new" => Silent(c)
        /\ arrival[c].settled # NoResult => Silent(c) /\ (Waiting(c) \/ Answered(c))
    BY CalmBefore, CallsAssumption DEF Inv, RetryInv, RetryOf
  <1> USE DEF Inv, TypeOK, Goto, callVars, redisVars, dbVars, listVars, bounds, RetryOf, Silent, Waiting, Answered
  <1>1. ASSUME NEW d \in Calls, Arrive(d) PROVE RetryOf(c)'
    <2>1. CASE c = d
      BY <1>0, <1>1, <2>1, CallsAssumption DEF Arrive, InFlight, Ended
    <2>2. CASE c # d
      BY <1>0, <1>1, <2>2, CallsAssumption DEF Arrive, InFlight, Ended
    <2> QED BY <2>1, <2>2
  <1>2. ASSUME NEW d \in Calls, IdempotencyGet(d) PROVE RetryOf(c)'
    <2>1. \/ /\ IdempotencyHit(d)
             /\ reply' = [reply EXCEPT ![d] = [idem[ReqOf[d]] EXCEPT !.cached = TRUE]]
             /\ pc' = [pc EXCEPT ![d] = "replied"]
          \/ /\ ~IdempotencyHit(d)
             /\ pc' = [pc EXCEPT ![d] = "lookup"] /\ reply' = reply
      BY <1>0, <1>2 DEF IdempotencyGet, Fault, NoFault
    <2>2. UNCHANGED <<arrival, idem, bg, topic>> /\ pc[d] = "idempotency"
      BY <1>2 DEF IdempotencyGet
    <2>3. CASE c = d
      <3>1. arrival[c].settled # NoResult => IdempotencyHit(c) /\ idem[ReqOf[c]] = arrival[c].settled
        BY <1>0, <2>2, <2>3 DEF IdempotencyHit
      <3>2. pc'[c] # "new"
        BY <1>0, <2>1, <2>3
      <3>3. ASSUME arrival[c].settled # NoResult PROVE Silent(c)' /\ Answered(c)'
        <4>1. reply' = [reply EXCEPT ![c] = [idem[ReqOf[c]] EXCEPT !.cached = TRUE]] /\ pc'[c] = "replied"
          BY <1>0, <2>1, <2>3, <3>1, <3>3
        <4>2. reply'[c] = [idem[ReqOf[c]] EXCEPT !.cached = TRUE]
          BY <4>1, <1>0
        <4>3. reply'[c] = [arrival[c].settled EXCEPT !.cached = TRUE]
          BY <3>1, <3>3, <4>2
        <4>4. Silent(c)'
          BY <1>0, <2>2, <3>3
        <4> QED BY <2>2, <4>1, <4>3, <4>4
      <3> QED BY <2>2, <3>2, <3>3
    <2>4. CASE c # d
      <3>1. (pc'[c] = "new" => Silent(c)') /\ (arrival[c].settled # NoResult => Silent(c)')
        BY <1>0, <2>1, <2>2, <2>4
      <3>2. Answered(c) => Answered(c)'
        BY <2>1, <2>2, <2>4, <1>0
      <3>3. ASSUME arrival[c].settled # NoResult, Waiting(c) PROVE Waiting(c)'
        <4>1. ReqOf[d] = ReqOf[c] => pc' = [pc EXCEPT ![d] = "replied"]
          BY <2>1, <3>3 DEF IdempotencyHit
        <4> QED BY <1>0, <2>1, <2>2, <2>4, <3>3, <4>1, CallsAssumption DEF InFlight, Ended
      <3> QED BY <1>0, <2>2, <3>1, <3>2, <3>3
    <2> QED BY <2>3, <2>4
  \* A call that is past its look at the key is neither c nor an HTTP call
  \* of c's request.
  <1>m. ASSUME NEW d \in Calls, pc[d] \in Places \ {"new", "idempotency", "replied", "failed", "committed"},
               NEW l \in Places \ {"new"}, pc' = [pc EXCEPT ![d] = l],
               \A b \in Calls : arrival'[b].settled = arrival[b].settled,
               \A b \in Calls \ {d} : reply'[b] = reply[b] /\ bg'[b] = bg[b],
               \A r \in Requests : idem'[r] = idem[r] \/ (d \in Http /\ r = ReqOf[d]),
               UNCHANGED topic
        PROVE  RetryOf(c)'
    <2>1. CASE arrival[c].settled = NoResult
      BY <1>0, <1>m, <2>1
    <2>2. CASE arrival[c].settled # NoResult /\ Waiting(c)
      <3>1. c # d /\ (d \in Http => ReqOf[d] # ReqOf[c])
        BY <1>0, <1>m, <2>2 DEF InFlight, Ended
      <3>2. idem'[ReqOf[c]] = idem[ReqOf[c]]
        BY <1>0, <1>m, <3>1, EntType
      <3> QED BY <1>0, <1>m, <2>2, <3>1, <3>2, CallsAssumption DEF InFlight, Ended
    <2>3. CASE arrival[c].settled # NoResult /\ Answered(c)
      BY <1>0, <1>m, <2>3
    <2> QED BY <1>0, <2>1, <2>2, <2>3
  <1> DEFINE Others(d) ==
        /\ \A b \in Calls : arrival'[b].settled = arrival[b].settled
        /\ \A b \in Calls \ {d} : reply'[b] = reply[b] /\ bg'[b] = bg[b]
        /\ UNCHANGED topic
  <1>3. ASSUME NEW d \in Calls,
               \/ CacheLookup(d) \/ CheckWatchlist(d) \/ Score(d) \/ CacheSet(d) \/ SaveInDecide(d)
               \/ EventHandled(d) \/ CommitOffset(d)
        PROVE  RetryOf(c)'
    <2>1. Others(d) /\ UNCHANGED idem
      <3>1. arrival' \in {arrival, [arrival EXCEPT ![d].timedOut = TRUE]}
        BY <1>3 DEF CacheLookup, CheckWatchlist, Score, CacheSet, SaveInDecide, EventHandled, CommitOffset
      <3>2. \A b \in Calls : arrival'[b].settled = arrival[b].settled
        BY <3>1
      <3>3. /\ UNCHANGED <<reply, topic, idem>>
            /\ \A b \in Calls \ {d} : bg'[b] = bg[b]
        BY <1>3 DEF CacheLookup, CheckWatchlist, Score, CacheSet, SaveInDecide, EventHandled, CommitOffset
      <3> QED BY <3>2, <3>3
    <2>2. /\ pc[d] \in Places \ {"new", "idempotency", "replied", "failed", "committed"}
          /\ \E l \in Places \ {"new"} : pc' = [pc EXCEPT ![d] = l]
      BY <1>3 DEF CacheLookup, CheckWatchlist, Score, CacheSet, SaveInDecide, EventHandled,
         CommitOffset, Evaluated, Places
    <2> QED BY <1>m, <2>1, <2>2
  <1>4. ASSUME NEW d \in Calls, IdempotencySet(d) PROVE RetryOf(c)'
    <2>1. \A r \in Requests : idem'[r] = idem[r] \/ (d \in Http /\ r = ReqOf[d])
      BY <1>4 DEF IdempotencySet, InHand, RetryInv, OwnResult
    <2>2. /\ Others(d)
          /\ pc[d] \in Places \ {"new", "idempotency", "replied", "failed", "committed"}
          /\ "replied" \in Places \ {"new"} /\ pc' = [pc EXCEPT ![d] = "replied"]
      BY <1>4 DEF IdempotencySet, Places
    <2> QED BY <1>m, <2>1, <2>2
  <1>5. ASSUME NEW d \in Calls, SaveInBackground(d) PROVE RetryOf(c)'
    BY <1>0, <1>5 DEF SaveInBackground, InFlight, Ended
  <1>6. ASSUME NEW d \in Calls, Publish(d) PROVE RetryOf(c)'
    BY <1>0, <1>6 DEF Publish, InFlight, Ended
  <1>7. ASSUME Feedback \/ UNCHANGED vars PROVE RetryOf(c)'
    <2>1. UNCHANGED <<callVars, idem, topic>>
      BY <1>7 DEF Feedback, FraudLabel, LegitimateLabel, SkipLabel, vars
    <2> QED BY <1>0, <2>1 DEF InFlight, Ended
  <1>8. /\ \A d \in Calls : ~Crash(d)
        /\ \A e \in Entities : ~ExpireCache(e)
        /\ \A r \in Requests : ~ExpireIdempotency(r)
    BY CalmBefore
  <1> QED BY <1>1, <1>2, <1>3, <1>4, <1>5, <1>6, <1>7, <1>8 DEF Next, CallStep

\* A retry that arrives when no other call of its request is running and a
\* verdict is recorded for it is answered with that verdict and publishes
\* nothing, whatever other calls do meanwhile, while Redis answers and keeps the key.
THEOREM RetriesGetTheRecordedVerdict == Spec => []RetryGetsRecordedVerdict
  <1>1. Inv /\ RetryInv => RetryGetsRecordedVerdict
    BY DEF RetryInv, RetryOf, Calm, Silent, Waiting, Answered, RetryGetsRecordedVerdict
  <1> QED BY Invariance, InitRetry, RetryStep, <1>1, PTL DEF Spec
-----------------------------------------------------------------------------
(* No verdict is dropped on the way to the table and the topic *)

Undisturbed == faults = 0 /\ crashes = 0

\* The handler is done with the verdict it has in hand.
HandedOn(c) == pc[c] \in {"replied", "handled", "committed"} /\ res[c] # NoResult

\* What is not in the table or in the topic yet has its promise still to run.
OnItsWay(c) ==
    /\ "save" \in bg[c] \/ store[res[c].req] # NoResult
    /\ "publish" \in bg[c] \/ \E m \in topic : m.req = res[c].req /\ m.action = res[c].action

WayInv == NothingYet /\ (Undisturbed => \A c \in Calls : HandedOn(c) => OnItsWay(c))

LEMMA UndisturbedBefore ==
  ASSUME TypeOK, [Next]_vars, Undisturbed'
  PROVE  Undisturbed /\ UNCHANGED <<faults, crashes>> /\ \A c \in Calls : ~Crash(c)
  <1>1. Undisturbed /\ UNCHANGED <<faults, crashes>>
    BY DisturbancesCount DEF TypeOK, Undisturbed
  <1> QED BY <1>1 DEF Crash, TypeOK

\* NothingYet alone is inductive: DeniedStep shows it along with Denied.
LEMMA NothingYetStep == Inv /\ NothingYet /\ [Next]_vars => NothingYet'
  <1> SUFFICES ASSUME Inv, NothingYet, [Next]_vars, NEW c \in Calls
               PROVE  pc'[c] \in {"new", "idempotency", "lookup", "watchlist"} => res'[c] = NoResult
    BY DEF NothingYet
  <1> DEFINE Goal == pc'[c] \in {"new", "idempotency", "lookup", "watchlist"} => res'[c] = NoResult
  <1> USE DEF Inv, NothingYet, TypeOK, Goto, callVars, bounds
  <1>1. ASSUME NEW d \in Calls,
               \/ Arrive(d) \/ IdempotencyGet(d) \/ SaveInDecide(d) \/ IdempotencySet(d)
               \/ EventHandled(d) \/ CommitOffset(d) \/ SaveInBackground(d) \/ Publish(d)
        PROVE  Goal
    <2>1. UNCHANGED res
      BY <1>1 DEF Arrive, IdempotencyGet, SaveInDecide, IdempotencySet, EventHandled, CommitOffset,
         SaveInBackground, Publish
    <2>2. \/ pc' = pc
          \/ pc[d] \in {"new", "idempotency"} /\ \E l : pc' = [pc EXCEPT ![d] = l]
          \/ \E l \in {"replied", "handled", "committed", "decided"} : pc' = [pc EXCEPT ![d] = l]
      BY <1>1 DEF Arrive, IdempotencyGet, SaveInDecide, IdempotencySet, EventHandled, CommitOffset,
         SaveInBackground, Publish
    <2> QED BY <2>1, <2>2
  <1>2. ASSUME NEW d \in Calls, CacheLookup(d) \/ CheckWatchlist(d) \/ Score(d) PROVE Goal
    BY <1>2 DEF CacheLookup, CheckWatchlist, Score, Evaluated
  <1>3. ASSUME NEW d \in Calls, CacheSet(d) \/ Crash(d) PROVE Goal
    BY <1>3 DEF CacheSet, Crash
  <1>4. ASSUME \/ \E e \in Entities : ExpireCache(e)
               \/ \E r \in Requests : ExpireIdempotency(r)
               \/ Feedback \/ UNCHANGED vars
        PROVE  Goal
    BY <1>4 DEF ExpireCache, ExpireIdempotency, Feedback, FraudLabel, LegitimateLabel, SkipLabel, vars
  <1> QED BY <1>1, <1>2, <1>3, <1>4 DEF Next, CallStep

\* The table and the topic keep what they have.
LEMMA RecordsStay ==
  ASSUME Inv, [Next]_vars
  PROVE  /\ \A r \in Requests : store[r] # NoResult => store'[r] # NoResult
         /\ topic \subseteq topic'
  <1>1. ASSUME NEW c \in Calls, CallStep(c) \/ SaveInBackground(c) \/ Publish(c) \/ Crash(c)
        PROVE  topic \subseteq topic'
    BY <1>1 DEF CallStep, Arrive, IdempotencyGet, CacheLookup, CheckWatchlist, Score, CacheSet,
       SaveInDecide, IdempotencySet, EventHandled, CommitOffset, SaveInBackground, Publish, Crash
  <1>2. ASSUME \/ \E e \in Entities : ExpireCache(e)
               \/ \E r \in Requests : ExpireIdempotency(r)
               \/ Feedback \/ UNCHANGED vars
        PROVE  topic \subseteq topic'
    BY <1>2 DEF ExpireCache, ExpireIdempotency, Feedback, FraudLabel, LegitimateLabel, SkipLabel, vars
  <1> QED BY <1>1, <1>2, InsertStep DEF Next

LEMMA WayStep == Inv /\ WayInv /\ [Next]_vars => WayInv'
  <1> SUFFICES ASSUME Inv, WayInv, [Next]_vars, Undisturbed', NEW c \in Calls, HandedOn(c)'
               PROVE  OnItsWay(c)'
    BY NothingYetStep DEF WayInv
  <1>0. /\ Undisturbed /\ UNCHANGED <<faults, crashes>>
        /\ HandedOn(c) => OnItsWay(c)
    BY UndisturbedBefore DEF Inv, WayInv
  <1>1. res[c] # NoResult => res[c].req \in Requests
    BY DEF Inv, TypeOK, Result
  \* A step that leaves the verdict and the promises of c alone.
  <1>2. ASSUME HandedOn(c), res'[c] = res[c], bg'[c] = bg[c] PROVE OnItsWay(c)'
    BY <1>0, <1>1, <1>2, RecordsStay DEF HandedOn, OnItsWay
  <1> USE DEF Inv, TypeOK, Goto, callVars, HandedOn
  <1>3. ASSUME NEW d \in Calls, d # c, CallStep(d) \/ SaveInBackground(d) \/ Publish(d)
        PROVE  OnItsWay(c)'
    <2>1. res'[c] = res[c] /\ bg'[c] = bg[c] /\ pc'[c] = pc[c]
      <3>1. CASE Arrive(d) \/ IdempotencyGet(d) \/ CacheLookup(d)
        BY <1>3, <3>1 DEF Arrive, IdempotencyGet, CacheLookup
      <3>2. CASE CheckWatchlist(d) \/ Score(d)
        BY <1>3, <3>2 DEF CheckWatchlist, Score, Evaluated
      <3>3. CASE CacheSet(d) \/ SaveInDecide(d) \/ IdempotencySet(d)
        BY <1>3, <3>3 DEF CacheSet, SaveInDecide, IdempotencySet
      <3>4. CASE EventHandled(d) \/ CommitOffset(d) \/ SaveInBackground(d) \/ Publish(d)
        BY <1>3, <3>4 DEF EventHandled, CommitOffset, SaveInBackground, Publish
      <3> QED BY <1>3, <3>1, <3>2, <3>3, <3>4 DEF CallStep
    <2> QED BY <1>2, <2>1
  <1>4. ASSUME IdempotencySet(c) \/ EventHandled(c) PROVE OnItsWay(c)'
    <2>1. bg'[c] = {"save", "publish"}
      BY <1>4 DEF IdempotencySet, EventHandled, Promises
    <2> QED BY <2>1 DEF OnItsWay
  <1>5. ASSUME SaveInBackground(c) PROVE OnItsWay(c)'
    <2>1. /\ "save" \in bg[c] /\ bg'[c] = bg[c] \ {"save"} /\ UNCHANGED <<pc, res, topic>>
          /\ HandedOn(c) /\ OnItsWay(c)
      BY <1>0, <1>5 DEF SaveInBackground
    <2>2. PICK row \in Row : Insert(res[c].req, row)
      <3> DEFINE row == [action |-> res[c].action, isTest |-> c \notin Http /\ IsTest[ReqOf[c]], typed |-> FALSE]
      <3>1. row \in Row
        BY <2>1, CallsAssumption DEF Row, Result
      <3>2. Insert(res[c].req, row)
        BY <1>0, <1>5 DEF SaveInBackground, Fault, NoFault
      <3> QED BY <3>1, <3>2
    <2>3. store'[res[c].req] # NoResult
      BY <1>1, <2>1, <2>2, NoResultAssumption DEF Insert
    <2> QED BY <2>1, <2>3 DEF OnItsWay
  <1>6. ASSUME Publish(c) PROVE OnItsWay(c)'
    <2>1. /\ "publish" \in bg[c] /\ bg'[c] = bg[c] \ {"publish"} /\ UNCHANGED <<pc, res, store>>
          /\ HandedOn(c) /\ OnItsWay(c)
      BY <1>0, <1>6 DEF Publish, dbVars
    <2>2. \E m \in topic' : m.req = res[c].req /\ m.action = res[c].action
      <3> DEFINE m == [req |-> res[c].req, action |-> res[c].action, isTest |-> IsTest[ReqOf[c]], from |-> c]
      <3>1. m \in topic' /\ m.req = res[c].req /\ m.action = res[c].action
        BY <1>0, <1>6 DEF Publish, Fault, NoFault
      <3> QED BY <3>1
    <2> QED BY <2>1, <2>2 DEF OnItsWay
  <1>7. ASSUME CommitOffset(c) PROVE OnItsWay(c)'
    BY <1>2, <1>7 DEF CommitOffset
  \* The other steps of c: a hit of the idempotency key ends a call that has
  \* nothing in hand, and without a fault nothing else ends one.
  <1>8. ASSUME \/ Arrive(c) \/ IdempotencyGet(c) \/ CacheLookup(c) \/ CheckWatchlist(c) \/ Score(c)
               \/ CacheSet(c) \/ SaveInDecide(c)
        PROVE  FALSE
    <2>1. CASE Arrive(c)
      BY <2>1 DEF Arrive
    <2>2. CASE IdempotencyGet(c)
      <3>1. res[c] = NoResult /\ res' = res
        BY <2>2 DEF IdempotencyGet, WayInv, NothingYet
      <3> QED BY <3>1
    <2>3. CASE CacheLookup(c) \/ CheckWatchlist(c) \/ Score(c)
      BY <2>3 DEF CacheLookup, CheckWatchlist, Score, Evaluated
    <2>4. CASE CacheSet(c)
      BY <1>0, <2>4 DEF CacheSet, Fault
    <2>5. CASE SaveInDecide(c)
      BY <2>5 DEF SaveInDecide
    <2> QED BY <1>8, <2>1, <2>2, <2>3, <2>4, <2>5
  <1>9. ASSUME \/ \E e \in Entities : ExpireCache(e)
               \/ \E r \in Requests : ExpireIdempotency(r)
               \/ Feedback \/ UNCHANGED vars
        PROVE  OnItsWay(c)'
    <2>1. UNCHANGED <<pc, res, bg>>
      BY <1>9 DEF ExpireCache, ExpireIdempotency, Feedback, FraudLabel, LegitimateLabel, SkipLabel, vars
    <2> QED BY <1>2, <2>1
  <1>10. \A d \in Calls : ~Crash(d)
    BY UndisturbedBefore
  <1>11. ASSUME CallStep(c) PROVE OnItsWay(c)'
    BY <1>4, <1>7, <1>8, <1>11 DEF CallStep
  <1> QED BY <1>3, <1>5, <1>6, <1>9, <1>10, <1>11 DEF Next

\* Before a fault or a crash, a call that is done with its verdict and has no
\* promise left to run has it in the decisions table and in the decisions
\* topic, however calls of the request and cache hits of the entity overlap
\* and whatever expires: the verdict's own row and message, or those of the
\* request it was computed for.
THEOREM NoVerdictIsDropped ==
  Spec => [](faults + crashes = 0 =>
               \A c \in Calls :
                  (pc[c] \in {"replied", "handled", "committed"} /\ res[c] # NoResult /\ bg[c] = {})
                      => KnownToAll(c))
  <1>1. Init => WayInv
    BY DEF Init, WayInv, NothingYet, HandedOn
  <1>2. Inv /\ WayInv =>
          (faults + crashes = 0 =>
             \A c \in Calls :
                (pc[c] \in {"replied", "handled", "committed"} /\ res[c] # NoResult /\ bg[c] = {})
                    => KnownToAll(c))
    <2>1. Inv /\ faults + crashes = 0 => Undisturbed
      BY DEF Inv, TypeOK, Undisturbed
    <2> QED BY <2>1 DEF WayInv, HandedOn, OnItsWay, KnownToAll
  <1> QED BY Invariance, WayStep, <1>1, <1>2, PTL DEF Spec
=============================================================================

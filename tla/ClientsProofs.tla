----------------------------- MODULE ClientsProofs -----------------------------
(***************************************************************************)
(* What the parts in front of the services show and send.  The SDKs: no     *)
(* event is lost or doubled between the buffer, the posts under way and the *)
(* server.  The dashboard's case lists: a case that leaves a list because   *)
(* of an answer is closed.  The fraud tester: a battle that was stopped     *)
(* reports nothing more.  The battle arena: the page shows one battle, and  *)
(* what it no longer shows no longer runs.  The views: what each shows is   *)
(* what it was given.  For any batch size, retries, events, pages, cases,   *)
(* scenarios, battles, starts, decisions and requests.                      *)
(***************************************************************************)
EXTENDS ClientSdks, CaseConsole, BattleArena, DashboardViews, FiniteSetTheorems, TLAPS

-----------------------------------------------------------------------------
(* The event buffer of an SDK *)

Event == Nat \X Identified

\* A post waits for another attempt only when it has one left.
Post ==
    {p \in [batch : Seq(Event) \ {<<>>}, attempt : 0 .. maxRetries - 1, waiting : BOOLEAN] :
        p.waiting => p.attempt < maxRetries - 1}

Flying(posts) == UNION {ToSet(p.batch) : p \in posts}
Everywhere == ToSet(buffer) \union InFlight \union accepted \union dropped

-----------------------------------------------------------------------------
(* Sequences *)

LEMMA EmptyBuffer == ToSet(<<>>) = {} /\ IsInjective(<<>>) /\ <<>> \in Seq(Event)
  BY DEF ToSet, IsInjective

LEMMA Appended ==
  ASSUME NEW s \in Seq(Event), NEW e \in Event
  PROVE  /\ Append(s, e) \in Seq(Event) /\ Append(s, e) # <<>> /\ Len(Append(s, e)) = Len(s) + 1
         /\ ToSet(Append(s, e)) = ToSet(s) \union {e}
         /\ IsInjective(s) /\ e \notin ToSet(s) => IsInjective(Append(s, e))
  <1>1. /\ Append(s, e) \in Seq(Event) /\ Len(Append(s, e)) = Len(s) + 1 /\ Len(s) \in Nat
        /\ DOMAIN s = 1 .. Len(s) /\ DOMAIN Append(s, e) = 1 .. Len(s) + 1
        /\ \A i \in 1 .. Len(s) : Append(s, e)[i] = s[i]
        /\ Append(s, e)[Len(s) + 1] = e
    OBVIOUS
  <1>2. Append(s, e) # <<>>
    BY <1>1
  <1>3. ToSet(Append(s, e)) = ToSet(s) \union {e}
    BY <1>1 DEF ToSet
  <1>4. IsInjective(s) /\ e \notin ToSet(s) => IsInjective(Append(s, e))
    BY <1>1 DEF ToSet, IsInjective
  <1> QED BY <1>1, <1>2, <1>3, <1>4

LEMMA Concatenated ==
  ASSUME NEW s \in Seq(Event), NEW t \in Seq(Event)
  PROVE  /\ s \o t \in Seq(Event)
         /\ ToSet(s \o t) = ToSet(s) \union ToSet(t)
         /\ IsInjective(s) /\ IsInjective(t) /\ ToSet(s) \intersect ToSet(t) = {} => IsInjective(s \o t)
  <1>1. /\ s \o t \in Seq(Event) /\ Len(s) \in Nat /\ Len(t) \in Nat
        /\ DOMAIN s = 1 .. Len(s) /\ DOMAIN t = 1 .. Len(t) /\ DOMAIN (s \o t) = 1 .. Len(s) + Len(t)
        /\ \A i \in 1 .. Len(s) : (s \o t)[i] = s[i]
        /\ \A i \in 1 .. Len(t) : (s \o t)[Len(s) + i] = t[i]
        /\ \A i \in 1 .. Len(s) + Len(t) : i \in 1 .. Len(s) \/ (i - Len(s) \in 1 .. Len(t) /\ (s \o t)[i] = t[i - Len(s)])
    OBVIOUS
  <1>2. ToSet(s \o t) \subseteq ToSet(s) \union ToSet(t)
    BY <1>1 DEF ToSet
  <1>3. ToSet(s) \subseteq ToSet(s \o t)
    BY <1>1 DEF ToSet
  <1>4. ToSet(t) \subseteq ToSet(s \o t)
    <2>1. ASSUME NEW i \in 1 .. Len(t) PROVE t[i] \in ToSet(s \o t)
      <3>1. Len(s) + i \in DOMAIN (s \o t)
        BY <1>1
      <3> QED BY <1>1, <3>1 DEF ToSet
    <2> QED BY <1>1, <2>1 DEF ToSet
  <1>5. ASSUME IsInjective(s), IsInjective(t), ToSet(s) \intersect ToSet(t) = {}
        PROVE  IsInjective(s \o t)
    <2>1. ASSUME NEW i \in 1 .. Len(s) + Len(t), NEW j \in 1 .. Len(s) + Len(t), (s \o t)[i] = (s \o t)[j]
          PROVE  i = j
      <3>1. CASE i \in 1 .. Len(s) /\ j \in 1 .. Len(s)
        BY <1>1, <1>5, <2>1, <3>1 DEF IsInjective
      <3>2. CASE i - Len(s) \in 1 .. Len(t) /\ j - Len(s) \in 1 .. Len(t)
        <4>1. t[i - Len(s)] = t[j - Len(s)]
          BY <1>1, <2>1, <3>2
        <4>2. i - Len(s) = j - Len(s)
          BY <1>1, <1>5, <3>2, <4>1 DEF IsInjective
        <4> QED BY <1>1, <4>2
      <3>3. ASSUME NEW k \in 1 .. Len(s), NEW l \in 1 .. Len(t), s[k] = t[l] PROVE FALSE
        BY <1>1, <1>5, <3>3 DEF ToSet
      <3> QED BY <1>1, <2>1, <3>1, <3>2, <3>3
    <2> QED BY <1>1, <2>1 DEF IsInjective
  <1> QED BY <1>1, <1>2, <1>3, <1>4, <1>5
-----------------------------------------------------------------------------
(* The events of the posts under way *)

Apart(posts) == \A p, q \in posts : p = q \/ ToSet(p.batch) \intersect ToSet(q.batch) = {}
Whole(posts) == posts \subseteq Post /\ \A p \in posts : IsInjective(p.batch)

LEMMA OneMore ==
  ASSUME NEW posts, NEW p
  PROVE  Flying(posts \union {p}) = Flying(posts) \union ToSet(p.batch)
  BY DEF Flying

LEMMA OneLess ==
  ASSUME NEW posts, Apart(posts), NEW p \in posts
  PROVE  /\ Flying(posts) = Flying(posts \ {p}) \union ToSet(p.batch)
         /\ Flying(posts \ {p}) \intersect ToSet(p.batch) = {}
         /\ Apart(posts \ {p})
  <1>1. \A q \in posts \ {p} : ToSet(q.batch) \intersect ToSet(p.batch) = {}
    BY DEF Apart
  <1> QED BY <1>1 DEF Flying, Apart

\* A post that joins others, none of whose events it holds.
LEMMA Joined ==
  ASSUME NEW posts, Apart(posts), Whole(posts), NEW p \in Post, IsInjective(p.batch),
         Flying(posts) \intersect ToSet(p.batch) = {}
  PROVE  Apart(posts \union {p}) /\ Whole(posts \union {p})
  <1>1. \A q \in posts : ToSet(q.batch) \intersect ToSet(p.batch) = {}
    BY DEF Flying
  <1> QED BY <1>1 DEF Apart, Whole

\* The same batch, at another attempt.
LEMMA Replaced ==
  ASSUME NEW posts, Apart(posts), Whole(posts), NEW p \in posts, NEW q \in Post, q.batch = p.batch
  PROVE  /\ Apart((posts \ {p}) \union {q}) /\ Whole((posts \ {p}) \union {q})
         /\ Flying((posts \ {p}) \union {q}) = Flying(posts)
  <1>1. Whole(posts \ {p}) /\ IsInjective(q.batch)
    BY DEF Whole
  <1>2. /\ Flying(posts) = Flying(posts \ {p}) \union ToSet(q.batch) /\ Apart(posts \ {p})
        /\ Flying(posts \ {p}) \intersect ToSet(q.batch) = {}
    BY OneLess
  <1>3. Apart((posts \ {p}) \union {q}) /\ Whole((posts \ {p}) \union {q})
    BY <1>1, <1>2, Joined
  <1> QED BY <1>2, <1>3, OneMore

-----------------------------------------------------------------------------
(* Where the events are *)

SdkTypes ==
    /\ sdk \in Sdks /\ timer \in BOOLEAN /\ lives \in 1 .. MaxLives /\ pushed \in 0 .. MaxEvents
    /\ {deviceId, stored} \subseteq Identified
    /\ buffer \in Seq(Event) /\ accepted \subseteq Event /\ dropped \subseteq Event

\* The buffer and the posts share no event, and none holds one twice.
Placed ==
    /\ IsInjective(buffer) /\ ToSet(buffer) \intersect InFlight = {}
    /\ Whole(sending) /\ Apart(sending)

\* Every number that was given is an event somewhere, and one event.
Numbered ==
    /\ {e[1] : e \in Everywhere} = 1 .. pushed
    /\ \A e, f \in Everywhere : e[1] = f[1] => e = f

SdkInv == SdkTypes /\ Placed /\ Numbered

LEMMA InFlightIs == InFlight = Flying(sending) /\ InFlight' = Flying(sending')
  BY DEF InFlight, Flying

\* What becomes the buffer, or one batch of the whole buffer.
LEMMA FlushPlaces ==
  ASSUME SdkInv, NEW events \in Seq(Event), events # <<>>, IsInjective(events),
         ToSet(events) \intersect InFlight = {},
         Flush(events) \/ (buffer' = events /\ UNCHANGED sending)
  PROVE  Placed' /\ buffer' \in Seq(Event) /\ ToSet(buffer') \union InFlight' = ToSet(events) \union InFlight
  <1>1. CASE buffer' = events /\ UNCHANGED sending
    BY <1>1, InFlightIs DEF SdkInv, Placed
  <1>2. CASE Flush(events)
    <2> DEFINE p == [batch |-> events, attempt |-> 0, waiting |-> FALSE]
    <2>1. buffer' = <<>> /\ sending' = sending \union {p}
      BY <1>2 DEF Flush
    <2>2. p \in Post /\ p.batch = events
      <3>1. 0 \in 0 .. maxRetries - 1
        BY SdkBounds
      <3> QED BY <3>1 DEF Post
    <2> HIDE DEF p
    <2>3. Apart(sending') /\ Whole(sending') /\ InFlight' = InFlight \union ToSet(events)
      BY <2>1, <2>2, InFlightIs, Joined, OneMore DEF SdkInv, Placed
    <2> QED BY <2>1, <2>3, EmptyBuffer DEF Placed
  <1> QED BY <1>1, <1>2

\* A step that moves events but gives no number.
LEMMA OnlyMoved ==
  ASSUME SdkInv, UNCHANGED pushed, Everywhere' = Everywhere
  PROVE  Numbered'
  BY DEF SdkInv, Numbered

LEMMA TrackStep ==
  ASSUME SdkInv, Track
  PROVE  SdkInv'
  <1> DEFINE e == <<pushed + 1, deviceId>>
             events == Append(buffer, e)
  <1>1. /\ pushed \in Nat /\ pushed + 1 \in 0 .. MaxEvents /\ pushed' = pushed + 1
        /\ UNCHANGED <<sdk, timer, deviceId, stored, accepted, dropped, lives>>
        /\ Buffered(events)
    BY SdkBounds DEF Track, SdkInv, SdkTypes
  <1>2. e \in Event /\ e[1] = pushed + 1
    BY <1>1 DEF Event, SdkInv, SdkTypes
  <1> HIDE DEF e
  <1>3. e \notin Everywhere
    <2>1. e \in Everywhere => pushed + 1 \in 1 .. pushed
      BY <1>2 DEF SdkInv, Numbered
    <2> QED BY <1>1, <2>1
  <1>4. /\ events \in Seq(Event) /\ events # <<>> /\ ToSet(events) = ToSet(buffer) \union {e} /\ IsInjective(events)
    BY <1>2, <1>3, Appended DEF SdkInv, SdkTypes, Placed, Everywhere
  <1> HIDE DEF events
  <1>5. ToSet(events) \intersect InFlight = {}
    BY <1>3, <1>4 DEF SdkInv, Placed, Everywhere
  <1>6. Placed' /\ buffer' \in Seq(Event) /\ ToSet(buffer') \union InFlight' = ToSet(events) \union InFlight
    BY <1>1, <1>4, <1>5, FlushPlaces DEF Buffered
  <1>7. Everywhere' = Everywhere \union {e}
    BY <1>1, <1>4, <1>6 DEF Everywhere
  <1>8. {f[1] : f \in Everywhere'} = 1 .. pushed'
    <2>1. {f[1] : f \in Everywhere'} = (1 .. pushed) \union {pushed + 1}
      BY <1>2, <1>7 DEF SdkInv, Numbered
    <2> QED BY <1>1, <2>1
  <1>9. \A f, g \in Everywhere' : f[1] = g[1] => f = g
    <2>1. \A f \in Everywhere : f[1] # pushed + 1
      <3>1. \A f \in Everywhere : f[1] \in 1 .. pushed
        BY DEF SdkInv, Numbered
      <3> QED BY <1>1, <3>1
    <2> QED BY <1>2, <1>7, <2>1 DEF SdkInv, Numbered
  <1> QED BY <1>1, <1>6, <1>8, <1>9 DEF SdkInv, SdkTypes, Numbered
\* A post that ends: its events are elsewhere before it goes, or go somewhere.
LEMMA GiveUpStep ==
  ASSUME SdkInv, NEW p \in sending, GiveUp(p)
  PROVE  /\ Placed' /\ buffer' \in Seq(Event) /\ dropped' \subseteq Event
         /\ ToSet(buffer') \union InFlight' \union dropped' = ToSet(buffer) \union InFlight \union dropped
  <1>1. sending' = sending \ {p}
    BY DEF GiveUp
  <1>2. p \in Post /\ IsInjective(p.batch) /\ p.batch \in Seq(Event)
    BY DEF SdkInv, Placed, Whole, Post
  <1>3. Whole(sending') /\ Apart(sending') /\ InFlight = InFlight' \union ToSet(p.batch)
        /\ InFlight' \intersect ToSet(p.batch) = {}
    BY <1>1, OneLess, InFlightIs DEF SdkInv, Placed, Whole
  <1>4. CASE PutBack(p.batch) /\ UNCHANGED dropped
    <2>1. buffer' = p.batch \o buffer /\ ToSet(p.batch) \intersect ToSet(buffer) = {}
      BY <1>3, <1>4 DEF PutBack, SdkInv, Placed
    <2>2. buffer' \in Seq(Event) /\ ToSet(buffer') = ToSet(p.batch) \union ToSet(buffer) /\ IsInjective(buffer')
      BY <1>2, <2>1, Concatenated DEF SdkInv, SdkTypes, Placed
    <2> QED BY <1>3, <1>4, <2>2 DEF SdkInv, SdkTypes, Placed
  <1>5. CASE dropped' = dropped \union ToSet(p.batch) /\ UNCHANGED buffer
    <2>1. ToSet(p.batch) \subseteq Event
      BY <1>2 DEF ToSet
    <2> QED BY <1>3, <1>5, <2>1 DEF SdkInv, SdkTypes, Placed
  <1> QED BY <1>4, <1>5 DEF GiveUp

LEMMA ReplaceStep ==
  ASSUME SdkInv, NEW p \in sending, NEW q \in Post, q.batch = p.batch, sending' = (sending \ {p}) \union {q},
         UNCHANGED buffer
  PROVE  Placed' /\ InFlight' = InFlight
  BY Replaced, InFlightIs DEF SdkInv, Placed

LEMMA AnswerStep ==
  ASSUME SdkInv, NEW p \in sending, NEW answer \in Statuses, Answer(p, answer)
  PROVE  SdkInv'
  <1>0. p \in Post /\ p.batch \in Seq(Event)
    BY DEF SdkInv, Placed, Whole, Post
  <1>1. ToSet(p.batch) \subseteq Event /\ ToSet(p.batch) \subseteq InFlight
    BY <1>0 DEF ToSet, InFlight
  <1>2. /\ UNCHANGED <<sdk, timer, deviceId, stored, pushed, lives>>
        /\ accepted' = accepted \/ accepted' = accepted \union ToSet(p.batch)
        /\ answer = "2xx" => accepted' = accepted \union ToSet(p.batch)
    BY DEF Answer
  <1>3. /\ Placed' /\ buffer' \in Seq(Event) /\ dropped' \subseteq Event
        /\ Everywhere' = Everywhere
    <2>1. CASE answer = "2xx" /\ sending' = sending \ {p} /\ UNCHANGED <<buffer, dropped>>
      <3>1. Whole(sending') /\ Apart(sending') /\ InFlight = InFlight' \union ToSet(p.batch)
        BY <2>1, OneLess, InFlightIs DEF SdkInv, Placed, Whole
      <3> QED BY <1>2, <2>1, <3>1 DEF SdkInv, SdkTypes, Placed, Everywhere
    <2>2. CASE GiveUp(p)
      BY <1>1, <1>2, <2>2, GiveUpStep DEF Everywhere
    <2>3. ASSUME p.attempt < maxRetries - 1, sending' = (sending \ {p}) \union {[p EXCEPT !.waiting = TRUE]},
                 UNCHANGED <<buffer, dropped>>
          PROVE  <1>3
      <3>1. PICK q : q = [p EXCEPT !.waiting = TRUE]
        OBVIOUS
      <3>2. q \in Post /\ q.batch = p.batch
        BY <1>0, <2>3, <3>1 DEF Post
      <3>3. Placed' /\ InFlight' = InFlight
        BY <2>3, <3>1, <3>2, ReplaceStep
      <3> QED BY <1>1, <1>2, <2>3, <3>3 DEF Everywhere, SdkInv, SdkTypes
    <2> QED BY <2>1, <2>2, <2>3 DEF Answer, TryAgain
  <1>4. accepted' \subseteq Event
    BY <1>1, <1>2 DEF SdkInv, SdkTypes
  <1> QED BY <1>2, <1>3, <1>4, OnlyMoved DEF SdkInv, SdkTypes

LEMMA BackoffStep ==
  ASSUME SdkInv, NEW p \in sending, EndBackoff(p)
  PROVE  SdkInv'
  <1>0. p \in Post /\ p.waiting /\ maxRetries \in Nat
    BY SdkBounds DEF SdkInv, Placed, Whole, EndBackoff
  <1>1. PICK q : q = [p EXCEPT !.waiting = FALSE, !.attempt = @ + 1]
    OBVIOUS
  <1>2. q \in Post /\ q.batch = p.batch
    <2>1. p.attempt + 1 \in 0 .. maxRetries - 1
      BY <1>0 DEF Post
    <2> QED BY <1>0, <1>1, <2>1 DEF Post
  <1>3. sending' = (sending \ {p}) \union {q} /\ UNCHANGED <<sdk, buffer, timer, deviceId, stored, pushed, accepted, dropped, lives>>
    BY <1>1 DEF EndBackoff
  <1>4. Placed' /\ InFlight' = InFlight
    BY <1>2, <1>3, ReplaceStep
  <1> QED BY <1>3, <1>4, OnlyMoved DEF SdkInv, SdkTypes, Everywhere
LEMMA ReloadStep ==
  ASSUME SdkInv, Reload
  PROVE  SdkInv'
  <1>1. /\ lives \in 1 .. MaxLives /\ lives' = lives + 1 /\ lives < MaxLives
        /\ dropped' = dropped \union ToSet(buffer) \union InFlight
        /\ buffer' = <<>> /\ sending' = {} /\ timer' = FALSE
        /\ deviceId' \in {stored, NoDevice} /\ UNCHANGED <<sdk, stored, pushed, accepted>>
    BY DEF Reload, SdkInv, SdkTypes
  <1>2. InFlight' = {} /\ Placed'
    BY <1>1, InFlightIs, EmptyBuffer DEF Placed, Flying, Whole, Apart
  <1>3. Everywhere' = Everywhere
    BY <1>1, <1>2, EmptyBuffer DEF Everywhere
  <1>4. ToSet(buffer) \subseteq Event
    BY DEF ToSet, SdkInv, SdkTypes
  <1>5. InFlight \subseteq Event
    BY DEF InFlight, ToSet, SdkInv, Placed, Whole, Post
  <1>6. lives' \in 1 .. MaxLives
    BY <1>1, SdkBounds
  <1>7. SdkTypes'
    BY <1>1, <1>4, <1>5, <1>6, EmptyBuffer DEF SdkInv, SdkTypes, Identified
  <1> QED BY <1>1, <1>2, <1>3, <1>7, OnlyMoved DEF SdkInv

LEMMA TimedFlushStep ==
  ASSUME SdkInv, TimedFlush
  PROVE  SdkInv'
  <1>1. /\ Flush(buffer) /\ buffer # <<>>
        /\ UNCHANGED <<sdk, timer, deviceId, stored, pushed, accepted, dropped, lives>>
    BY DEF TimedFlush
  <1>2. Placed' /\ buffer' \in Seq(Event) /\ ToSet(buffer') \union InFlight' = ToSet(buffer) \union InFlight
    BY <1>1, FlushPlaces DEF SdkInv, SdkTypes, Placed
  <1> QED BY <1>1, <1>2, OnlyMoved DEF SdkInv, SdkTypes, Everywhere

\* A step that touches no event.
LEMMA Untouched ==
  ASSUME SdkInv, UNCHANGED <<sdk, buffer, sending, pushed, accepted, dropped, lives>>,
         timer' \in BOOLEAN, {deviceId', stored'} \subseteq Identified
  PROVE  SdkInv'
  <1>1. InFlight' = InFlight
    BY InFlightIs
  <1> QED BY <1>1, OnlyMoved DEF SdkInv, SdkTypes, Placed, Everywhere

LEMMA Inductive ==
  ASSUME SdkInv, [SdkNext]_sdkVars
  PROVE  SdkInv'
  <1>0. {deviceId, stored} \subseteq Identified /\ timer \in BOOLEAN
    BY DEF SdkInv, SdkTypes
  <1>1. CASE WebInit
    BY <1>0, <1>1, Untouched DEF WebInit, SetDeviceId
  <1>2. CASE MobileInit
    BY <1>0, <1>2, Untouched DEF MobileInit, Identified
  <1>3. CASE Destroy
    BY <1>0, <1>3, Untouched DEF Destroy
  <1>4. CASE UNCHANGED sdkVars
    BY <1>0, <1>4, Untouched DEF sdkVars
  <1> QED BY <1>1, <1>2, <1>3, <1>4, TrackStep, TimedFlushStep, ReloadStep, AnswerStep, BackoffStep DEF SdkNext

LEMMA Initially == SdkInit => SdkInv
  <1> SUFFICES ASSUME SdkInit PROVE SdkInv
    OBVIOUS
  <1>1. SdkTypes
    <2>1. 1 \in 1 .. MaxLives /\ 0 \in 0 .. MaxEvents
      BY SdkBounds
    <2>2. timer \in BOOLEAN
      BY DEF SdkInit
    <2> QED BY <2>1, <2>2, EmptyBuffer DEF SdkInit, SdkTypes, Identified
  <1>2. InFlight = {} /\ Everywhere = {}
    BY EmptyBuffer DEF SdkInit, InFlight, Everywhere
  <1>3. Placed
    BY <1>2, EmptyBuffer DEF SdkInit, Placed, Whole, Apart
  <1>4. Numbered
    BY <1>2 DEF SdkInit, Numbered
  <1> QED BY <1>1, <1>3, <1>4 DEF SdkInv

LEMMA Invariance == SdkSpec => []SdkInv
  BY Initially, Inductive, PTL DEF SdkSpec

\* A buffer holds distinct numbers out of those given.
LEMMA BufferIsShort ==
  ASSUME SdkInv
  PROVE  Len(buffer) <= pushed
  <1>1. /\ buffer \in Seq(Event) /\ Len(buffer) \in Nat /\ DOMAIN buffer = 1 .. Len(buffer) /\ pushed \in Nat
        /\ IsInjective(buffer)
    BY SdkBounds DEF SdkInv, SdkTypes, Placed
  <1> DEFINE number == [i \in 1 .. Len(buffer) |-> buffer[i][1]]
  <1>2. \A i \in 1 .. Len(buffer) : buffer[i] \in Everywhere
    BY <1>1 DEF Everywhere, ToSet
  <1>3. number \in [1 .. Len(buffer) -> 1 .. pushed]
    BY <1>2 DEF SdkInv, Numbered
  <1>4. \A i, j \in 1 .. Len(buffer) : number[i] = number[j] => i = j
    BY <1>1, <1>2 DEF SdkInv, Numbered, IsInjective
  <1>5. \A n \in Nat : IsFiniteSet(1 .. n) /\ Cardinality(1 .. n) = n
    <2>1. ASSUME NEW n \in Nat PROVE IsFiniteSet(1 .. n) /\ Cardinality(1 .. n) = n
      <3>1. /\ IsFiniteSet(1 .. n)
            /\ Cardinality(1 .. n) = IF 1 > n THEN 0 ELSE n - 1 + 1
        BY FS_Interval
      <3> QED BY <3>1
    <2> QED BY <2>1
  <1> HIDE DEF number
  <1>6. ASSUME pushed < Len(buffer) PROVE FALSE
    <2> DEFINE S == 1 .. Len(buffer)
               T == 1 .. pushed
    <2>1. IsFiniteSet(S) /\ IsFiniteSet(T) /\ Cardinality(T) < Cardinality(S) /\ number \in [S -> T]
      BY <1>1, <1>3, <1>5, <1>6
    <2> HIDE DEF S, T
    <2>2. \E x, y \in S : x # y /\ number[x] = number[y]
      BY <2>1, FS_PigeonHole
    <2> QED BY <1>4, <2>2 DEF S
  <1> QED BY <1>1, <1>6

\* The buffer is never longer than what was tracked, and a post has an attempt left.
THEOREM SdkTypeCorrect == SdkSpec => []SdkTypeOK
  <1>1. SdkInv => SdkTypeOK
    BY BufferIsShort DEF SdkInv, SdkTypes, Placed, Whole, Post, SdkTypeOK
  <1> QED BY <1>1, Invariance, PTL

\* Every tracked event is in the buffer, in one post under way, with the server
\* or known to be lost, and in the buffer or a post once.
THEOREM NoEventIsLostOrDoubled == SdkSpec => []EventsSurviveFailures
  <1>1. SdkInv => EventsSurviveFailures
    BY DEF SdkInv, Placed, Apart, Numbered, Everywhere, EventsSurviveFailures
  <1> QED BY <1>1, Invariance, PTL

-----------------------------------------------------------------------------
(* The dashboard's case lists *)

Call ==
    [n : Nat, page : Pages, kind : Kinds, cases : SUBSET CaseIds,
     todo : SUBSET (CaseIds \union {"list", Chargeback}),
     want : {"OPEN", "any"}, rows : SUBSET CaseIds, failed : BOOLEAN]

ConsoleTypes ==
    /\ status \in [CaseIds -> {"OPEN", "IN_REVIEW", "RESOLVED", "ESCALATED"}]
    /\ shown \in [Pages -> SUBSET CaseIds] /\ selected \in [Pages -> SUBSET CaseIds]
    /\ filter \in {"OPEN", "any"} /\ total \in 0 .. Cardinality(CaseIds)
    /\ posted \subseteq Call /\ asked \in Nat /\ closed \subseteq CaseIds

\* Of a request that closes its cases and was refused none of them, what
\* case-service has done is closed; an outcome is about one case, and its
\* chargeback is only asked for once the case is closed.
Closes(r) ==
    /\ r.kind \in DOMAIN Target \ {"claim"} /\ ~r.failed => r.cases \ r.todo \subseteq closed
    /\ r.kind = "outcome" => (\E c \in CaseIds : r.cases = {c}) /\ r.todo \subseteq r.cases \union {Chargeback}
    /\ Chargeback \in r.todo => r.kind = "outcome" /\ r.cases \subseteq closed

ConsoleInv == ConsoleTypes /\ (\A r \in posted : Closes(r)) /\ RemovedMeansClosed

LEMMA Counted ==
  /\ Cardinality(CaseIds) \in Nat
  /\ \A S \in SUBSET CaseIds : Cardinality(S) \in 0 .. Cardinality(CaseIds)
  <1>1. IsFiniteSet(CaseIds)
    BY ConsoleAssumption
  <1>2. \A S \in SUBSET CaseIds : Cardinality(S) \in Nat /\ Cardinality(S) <= Cardinality(CaseIds)
    <2> SUFFICES ASSUME NEW S \in SUBSET CaseIds
                 PROVE  Cardinality(S) \in Nat /\ Cardinality(S) <= Cardinality(CaseIds)
      OBVIOUS
    <2>1. IsFiniteSet(S) /\ Cardinality(S) <= Cardinality(CaseIds)
      BY <1>1, FS_Subset
    <2> QED BY <2>1, FS_CardinalityType
  <1>3. Cardinality(CaseIds) \in Nat
    BY <1>1, FS_CardinalityType
  <1> QED BY <1>2, <1>3

\* What was closed stays closed, so a request keeps what it has done.
LEMMA StaysClosed ==
  ASSUME NEW r, Closes(r), closed \subseteq closed'
  PROVE  Closes(r)'
  BY DEF Closes

\* A new request: nothing of it has been done.
LEMMA NewCall ==
  ASSUME ConsoleInv, NEW new \in Call,
         (new.kind = "fetch" /\ new.todo = {"list"}) \/ new.todo = new.cases,
         new.kind = "outcome" => \E c \in CaseIds : new.cases = {c} /\ new.todo = {c},
         posted' = posted \union {new}, asked' = asked + 1, filter' \in {"OPEN", "any"},
         UNCHANGED <<status, shown, selected, total, closed, cleared>>
  PROVE  ConsoleInv'
  <1>1. ConsoleTypes'
    BY DEF ConsoleInv, ConsoleTypes
  <1>2. Chargeback \notin new.todo
    <2>1. Chargeback \notin CaseIds /\ Chargeback # "list"
      BY ConsoleAssumption DEF Chargeback
    <2> QED BY <2>1 DEF Call
  <1>3. Closes(new)
    BY <1>2 DEF Closes, Target
  <1>4. \A r \in posted' : Closes(r)'
    BY <1>3 DEF ConsoleInv, Closes
  <1> QED BY <1>1, <1>4 DEF ConsoleInv, RemovedMeansClosed

LEMMA AskStep ==
  ASSUME ConsoleInv, NEW page \in Pages, NEW kind \in Kinds, NEW cases \in SUBSET CaseIds,
         Ask(page, kind, cases), kind = "outcome" => \E c \in CaseIds : cases = {c},
         UNCHANGED <<status, shown, selected, filter, total, closed, cleared>>
  PROVE  ConsoleInv'
  <1> DEFINE new == [n |-> asked, page |-> page, kind |-> kind, cases |-> cases,
                     todo |-> IF kind = "fetch" THEN {"list"} ELSE cases,
                     want |-> filter, rows |-> {}, failed |-> FALSE]
  <1>1. asked' = asked + 1 /\ posted' = posted \union {new}
    BY DEF Ask
  <1>2. new \in Call /\ filter \in {"OPEN", "any"}
    BY DEF ConsoleInv, ConsoleTypes, Call
  <1>3. /\ new.kind = kind /\ new.cases = cases
        /\ new.todo = IF kind = "fetch" THEN {"list"} ELSE cases
    OBVIOUS
  <1> HIDE DEF new
  <1> QED BY <1>1, <1>2, <1>3, NewCall

LEMMA FilterStep ==
  ASSUME ConsoleInv, NEW v \in {"OPEN", "any"}, SetFilter(v)
  PROVE  ConsoleInv'
  <1> DEFINE new == [n |-> asked, page |-> "cases", kind |-> "fetch", cases |-> {}, todo |-> {"list"},
                     want |-> v, rows |-> {}, failed |-> FALSE]
  <1>1. /\ asked' = asked + 1 /\ posted' = posted \union {new} /\ filter' = v
        /\ UNCHANGED <<status, shown, selected, total, closed, cleared>>
    BY DEF SetFilter
  <1>2. new \in Call
    BY DEF ConsoleInv, ConsoleTypes, Call, Pages, Kinds
  <1>3. new.kind = "fetch" /\ new.todo = {"list"}
    OBVIOUS
  <1> HIDE DEF new
  <1> QED BY <1>1, <1>2, <1>3, NewCall

\* An answered or changed request: the others stay as they are.
LEMMA ConsoleReplaceStep ==
  ASSUME ConsoleInv, NEW r \in posted, NEW new \in Call, Replace(r, new),
         closed \subseteq closed', Closes(new)'
  PROVE  posted' \subseteq Call /\ \A q \in posted' : Closes(q)'
  <1>1. posted' \subseteq posted \union {new}
    BY DEF Replace
  <1>2. \A q \in posted : Closes(q)'
    BY StaysClosed DEF ConsoleInv
  <1> QED BY <1>1, <1>2 DEF ConsoleInv, ConsoleTypes

LEMMA ServiceStep ==
  ASSUME ConsoleInv, NEW r \in posted, List(r) \/ Update(r) \/ Refuse(r) \/ TakeChargeback(r)
  PROVE  ConsoleInv'
  <1>0. r \in Call /\ Closes(r)
    BY DEF ConsoleInv, ConsoleTypes
  <1> DEFINE Done(new) == new \in Call /\ Replace(r, new) /\ Closes(new)'
             Kept == /\ status' \in [CaseIds -> {"OPEN", "IN_REVIEW", "RESOLVED", "ESCALATED"}]
                     /\ closed \subseteq closed' /\ closed' \subseteq CaseIds
                     /\ UNCHANGED <<shown, selected, filter, total, asked, cleared>>
  <1>1. ASSUME List(r) PROVE Kept /\ \E new : Done(new)
    <2>1. Kept
      BY <1>1 DEF List, ConsoleInv, ConsoleTypes
    <2>2. PICK rows \in SUBSET CaseIds, failed \in BOOLEAN :
             Replace(r, [r EXCEPT !.todo = {}, !.rows = rows, !.failed = failed])
      <3>1. r = [r EXCEPT !.rows = r.rows] /\ r.rows \in SUBSET CaseIds /\ r.failed \in BOOLEAN
        BY <1>0 DEF Call
      <3>2. [r EXCEPT !.todo = {}, !.failed = TRUE]
               = [r EXCEPT !.todo = {}, !.rows = r.rows, !.failed = TRUE]
        BY <1>0 DEF Call
      <3>3. \A S : [r EXCEPT !.todo = {}, !.rows = S]
                     = [r EXCEPT !.todo = {}, !.rows = S, !.failed = r.failed]
        BY <1>0 DEF Call
      <3> QED BY <1>1, <3>1, <3>2, <3>3 DEF List
    <2> DEFINE new == [r EXCEPT !.todo = {}, !.rows = rows, !.failed = failed]
    <2>3. new \in Call /\ new.kind = r.kind /\ new.todo = {}
      BY <1>0 DEF Call
    <2>4. r.kind = "fetch"
      BY <1>1 DEF List
    <2>5. Replace(r, new)
      BY <2>2
    <2> HIDE DEF new
    <2>6. Closes(new)'
      BY <2>3, <2>4 DEF Closes, Target
    <2> QED BY <2>1, <2>3, <2>5, <2>6
  <1>2. ASSUME Update(r) PROVE Kept /\ \E new : Done(new)
    <2>1. PICK part \in Parts(r) :
            /\ r.kind # "fetch" /\ part \subseteq CaseIds /\ part # {}
            /\ status' = [c \in CaseIds |-> IF c \in part THEN Target[r.kind] ELSE status[c]]
            /\ closed' = IF r.kind = "claim" THEN closed ELSE closed \union part
            /\ Replace(r, [r EXCEPT !.todo =
                   (r.todo \ part) \union (IF r.kind = "outcome" THEN {Chargeback} ELSE {})])
            /\ UNCHANGED <<shown, selected, filter, total, asked, cleared>>
      BY <1>2 DEF Update
    <2> DEFINE new == [r EXCEPT !.todo =
                   (r.todo \ part) \union (IF r.kind = "outcome" THEN {Chargeback} ELSE {})]
    <2>2. Target[r.kind] \in {"OPEN", "IN_REVIEW", "RESOLVED", "ESCALATED"}
      BY <1>0, <2>1 DEF Call, Kinds, Target
    <2>3. Kept
      BY <2>1, <2>2 DEF ConsoleInv, ConsoleTypes
    <2>4. /\ new \in Call /\ new.kind = r.kind /\ new.cases = r.cases /\ new.failed = r.failed
          /\ new.todo = (r.todo \ part) \union (IF r.kind = "outcome" THEN {Chargeback} ELSE {})
      BY <1>0 DEF Call
    <2>5. part \subseteq r.todo
      BY <2>1 DEF Parts
    <2>6. Chargeback \notin CaseIds
      BY ConsoleAssumption
    <2>7. r.kind = "outcome" => r.cases \subseteq part
      <3> SUFFICES ASSUME r.kind = "outcome" PROVE r.cases \subseteq part
        OBVIOUS
      <3>1. PICK c \in CaseIds : r.cases = {c} /\ r.todo \subseteq {c, Chargeback}
        BY <1>0 DEF Closes
      <3> QED BY <3>1, <2>1, <2>5, <2>6
    <2>8. Replace(r, new)
      BY <2>1
    <2> HIDE DEF new
    <2>9. Closes(new)'
      BY <1>0, <2>1, <2>4, <2>5, <2>6, <2>7 DEF Closes, Target
    <2> QED BY <2>3, <2>4, <2>8, <2>9
  <1>3. ASSUME Refuse(r) PROVE Kept /\ \E new : Done(new)
    <2>1. PICK part \in Parts(r) :
            /\ r.kind # "fetch"
            /\ Replace(r, [r EXCEPT !.todo = r.todo \ part, !.failed = TRUE])
            /\ UNCHANGED <<status, shown, selected, filter, total, asked, closed, cleared>>
      BY <1>3 DEF Refuse
    <2> DEFINE new == [r EXCEPT !.todo = r.todo \ part, !.failed = TRUE]
    <2>2. new \in Call /\ new.kind = r.kind /\ new.cases = r.cases /\ new.failed /\ new.todo = r.todo \ part
      BY <1>0 DEF Call
    <2>3. Kept
      BY <2>1 DEF ConsoleInv, ConsoleTypes
    <2>4. Replace(r, new)
      BY <2>1
    <2> HIDE DEF new
    <2>5. Closes(new)'
      BY <1>0, <2>1, <2>2 DEF Closes
    <2> QED BY <2>2, <2>3, <2>4, <2>5
  <1>4. ASSUME TakeChargeback(r) PROVE Kept /\ \E new : Done(new)
    <2> DEFINE new == [r EXCEPT !.todo = {}]
    <2>1. /\ Chargeback \in r.todo /\ Replace(r, new)
          /\ UNCHANGED <<status, shown, selected, filter, total, asked, closed, cleared>>
      BY <1>4 DEF TakeChargeback
    <2>2. new \in Call /\ new.kind = r.kind /\ new.cases = r.cases /\ new.todo = {}
      BY <1>0 DEF Call
    <2>3. Kept
      BY <2>1 DEF ConsoleInv, ConsoleTypes
    <2> HIDE DEF new
    <2>4. Closes(new)'
      BY <1>0, <2>1, <2>2 DEF Closes
    <2> QED BY <2>1, <2>2, <2>3, <2>4
  <1>5. PICK new : Done(new)
    BY <1>1, <1>2, <1>3, <1>4
  <1>6. Kept
    BY <1>1, <1>2, <1>3, <1>4
  <1>7. posted' \subseteq Call /\ \A q \in posted' : Closes(q)'
    BY <1>5, <1>6, ConsoleReplaceStep
  <1>8. ConsoleTypes'
    BY <1>6, <1>7 DEF ConsoleInv, ConsoleTypes
  <1>9. RemovedMeansClosed'
    BY <1>6 DEF ConsoleInv, RemovedMeansClosed
  <1> QED BY <1>7, <1>8, <1>9 DEF ConsoleInv
\* An answer that is applied.
LEMMA AnswersStep ==
  ASSUME ConsoleInv, NEW r \in posted, FetchAnswered(r) \/ Answered(r) \/ FailureAnswered(r)
  PROVE  ConsoleInv'
  <1>0. r \in Call /\ Closes(r) /\ total \in 0 .. Cardinality(CaseIds) /\ Cardinality(CaseIds) \in Nat
    BY Counted DEF ConsoleInv, ConsoleTypes
  <1>1. /\ r.page \in Pages /\ r.rows \subseteq CaseIds /\ r.cases \subseteq CaseIds
        /\ Cardinality(r.rows) \in 0 .. Cardinality(CaseIds)
        /\ Cardinality(r.cases) \in 0 .. Cardinality(CaseIds)
    BY <1>0, Counted DEF Call
  <1>2. posted' = posted \ {r} /\ UNCHANGED <<status, filter, asked, closed>>
    BY DEF FetchAnswered, Answered, FailureAnswered
  <1>3. total' \in 0 .. Cardinality(CaseIds)
    <2>1. CASE FetchAnswered(r)
      BY <1>0, <1>1, <2>1 DEF FetchAnswered
    <2>2. CASE Answered(r)
      BY <1>0, <1>1, <2>2 DEF Answered
    <2>3. CASE FailureAnswered(r)
      BY <1>0, <2>3 DEF FailureAnswered
    <2> QED BY <2>1, <2>2, <2>3
  <1>4. shown' \in [Pages -> SUBSET CaseIds] /\ selected' \in [Pages -> SUBSET CaseIds]
    <2>0. shown \in [Pages -> SUBSET CaseIds] /\ selected \in [Pages -> SUBSET CaseIds]
      BY DEF ConsoleInv, ConsoleTypes
    <2>1. CASE FetchAnswered(r)
      BY <1>1, <2>0, <2>1 DEF FetchAnswered, Pages
    <2>2. CASE Answered(r)
      <3>1. /\ shown' = [shown EXCEPT ![r.page] = @ \ Leaving(r)]
            /\ selected' = selected \/ selected' = [selected EXCEPT ![r.page] = {}]
        BY <2>2 DEF Answered
      <3> QED BY <1>1, <2>0, <3>1
    <2>3. CASE FailureAnswered(r)
      BY <2>0, <2>3 DEF FailureAnswered
    <2> QED BY <2>1, <2>2, <2>3
  <1>5. ConsoleTypes'
    BY <1>2, <1>3, <1>4 DEF ConsoleInv, ConsoleTypes
  <1>6. \A q \in posted' : Closes(q)'
    BY <1>2 DEF ConsoleInv, Closes
  <1>7. RemovedMeansClosed'
    <2>1. CASE Answered(r)
      <3>1. r.cases \subseteq closed
        BY <1>0, <2>1 DEF Closes, Answered, Succeeded
      <3>2. cleared' = cleared \union {<<c, c \in r.cases>> : c \in shown[r.page] \intersect Leaving(r)}
        BY <2>1 DEF Answered
      <3> SUFFICES ASSUME NEW x \in cleared', x[2] PROVE x[1] \in closed
        BY <1>2 DEF RemovedMeansClosed
      <3>3. CASE x \in cleared
        BY <3>3 DEF ConsoleInv, RemovedMeansClosed
      <3>4. CASE x \notin cleared
        <4>1. PICK c : x = <<c, c \in r.cases>>
          BY <3>2, <3>4
        <4>2. c \in r.cases
          BY <4>1
        <4> QED BY <3>1, <4>1, <4>2
      <3> QED BY <3>3, <3>4
    <2>2. CASE FetchAnswered(r) \/ FailureAnswered(r)
      BY <1>2, <2>2 DEF FetchAnswered, FailureAnswered, ConsoleInv, RemovedMeansClosed
    <2> QED BY <2>1, <2>2
  <1> QED BY <1>5, <1>6, <1>7 DEF ConsoleInv

\* What the analyst does without a request changes the selection only.
LEMMA SelectionStep ==
  ASSUME ConsoleInv, selected' \in [Pages -> SUBSET CaseIds],
         UNCHANGED <<status, shown, filter, total, posted, asked, closed, cleared>>
  PROVE  ConsoleInv'
  BY DEF ConsoleInv, ConsoleTypes, Closes, RemovedMeansClosed

LEMMA Selecting ==
  ASSUME ConsoleInv, NEW p \in Pages,
         SelectAll(p) \/ ClearSelection(p) \/ \E c \in CaseIds : ToggleSelect(p, c)
  PROVE  ConsoleInv'
  <1>0. shown \in [Pages -> SUBSET CaseIds] /\ selected \in [Pages -> SUBSET CaseIds]
    BY DEF ConsoleInv, ConsoleTypes
  <1>1. CASE SelectAll(p)
    BY <1>0, <1>1, SelectionStep DEF SelectAll
  <1>2. CASE ClearSelection(p)
    BY <1>0, <1>2, SelectionStep DEF ClearSelection
  <1>3. ASSUME NEW c \in CaseIds, ToggleSelect(p, c) PROVE ConsoleInv'
    BY <1>0, <1>3, SelectionStep DEF ToggleSelect
  <1> QED BY <1>1, <1>2, <1>3

\* The requests of one case, of a selection and of a page.
LEMMA Asking ==
  ASSUME ConsoleInv, NEW p \in Pages,
         \/ Fetch(p)
         \/ \E c \in CaseIds, kind \in {"resolve", "escalate", "claim", "outcome"} : ActOn(p, kind, c)
         \/ \E kind \in {"bulkResolve", "bulkLabel"} : ActOnSelection(p, kind)
  PROVE  ConsoleInv'
  <1>1. CASE Fetch(p)
    BY <1>1, AskStep DEF Fetch, Kinds
  <1>2. ASSUME NEW c \in CaseIds, NEW kind \in {"resolve", "escalate", "claim", "outcome"}, ActOn(p, kind, c)
        PROVE  ConsoleInv'
    <2>1. kind \in Kinds /\ {c} \in SUBSET CaseIds
      BY DEF Kinds, Target
    <2> QED BY <1>2, <2>1, AskStep DEF ActOn
  <1>3. ASSUME NEW kind \in {"bulkResolve", "bulkLabel"}, ActOnSelection(p, kind)
        PROVE  ConsoleInv'
    <2>1. kind \in Kinds /\ kind # "outcome" /\ selected[p] \in SUBSET CaseIds
      BY DEF Kinds, Target, ConsoleInv, ConsoleTypes
    <2> QED BY <1>3, <2>1, AskStep DEF ActOnSelection
  <1> QED BY <1>1, <1>2, <1>3

LEMMA ConsoleInvariance == ConsoleSpec => []ConsoleInv
  <1>1. ConsoleInit => ConsoleInv
    <2>1. 0 \in 0 .. Cardinality(CaseIds)
      BY Counted
    <2> QED BY <2>1 DEF ConsoleInit, ConsoleInv, ConsoleTypes, RemovedMeansClosed
  <1>2. ConsoleInv /\ [ConsoleNext]_consoleVars => ConsoleInv'
    <2> SUFFICES ASSUME ConsoleInv, [ConsoleNext]_consoleVars PROVE ConsoleInv'
      OBVIOUS
    <2>1. CASE UNCHANGED consoleVars
      BY <2>1 DEF consoleVars, ConsoleInv, ConsoleTypes, Closes, RemovedMeansClosed
    <2>2. ASSUME NEW p \in Pages, Fetch(p) \/ SelectAll(p) \/ ClearSelection(p)
          PROVE  ConsoleInv'
      BY <2>2, Selecting, Asking
    <2>3. ASSUME NEW p \in Pages, NEW c \in CaseIds, ToggleSelect(p, c) PROVE ConsoleInv'
      BY <2>3, Selecting
    <2>4. ASSUME NEW p \in Pages, NEW c \in CaseIds,
                 NEW kind \in {"resolve", "escalate", "claim", "outcome"}, ActOn(p, kind, c)
          PROVE  ConsoleInv'
      BY <2>4, Asking
    <2>5. ASSUME ActOnSelection("cases", "bulkResolve") \/ ActOnSelection("review", "bulkLabel")
          PROVE  ConsoleInv'
      BY <2>5, Asking DEF Pages
    <2> QED BY <2>1, <2>2, <2>3, <2>4, <2>5, FilterStep, ServiceStep, AnswersStep DEF ConsoleNext, Pages
  <1> QED BY <1>1, <1>2, PTL DEF ConsoleSpec

\* Statuses, lists, selections, the total and the requests keep their types,
\* and the total never exceeds the cases there are.
THEOREM ConsoleTypeCorrect == ConsoleSpec => []ConsoleTypeOK
  <1>1. ConsoleInv => ConsoleTypeOK
    BY DEF ConsoleInv, ConsoleTypes, ConsoleTypeOK, Call
  <1> QED BY <1>1, ConsoleInvariance, PTL

\* Answers remove only cases that were closed of those their request named,
\* for any cases, selections, refused parts and order of answers.
THEOREM RemovedCasesAreClosed == ConsoleSpec => []RemovedMeansClosed
  <1>1. ConsoleInv => RemovedMeansClosed
    BY DEF ConsoleInv
  <1> QED BY <1>1, ConsoleInvariance, PTL

-----------------------------------------------------------------------------
(* The battles of fraud-tester *)

BattleFields == {"status", "agent", "told", "scenario", "event", "stage", "attempts", "results", "done", "report"}
Messages == {"result", "scenarioDone", "complete"}
Submitting == {"submit", "poll"}

\* One room and one stop for each battle.
TesterShape ==
    /\ Len(battles) \in Nat /\ battles = [b \in 1 .. Len(battles) |-> battles[b]]
    /\ \A b \in 1 .. Len(battles) : DOMAIN battles[b] = BattleFields
    /\ emitted \in Seq(Seq(Messages)) /\ Len(emitted) = Len(battles)
    /\ stoppedAt \in Seq(Int) /\ Len(stoppedAt) = Len(battles)

\* What the room of b was sent since the stop.
LateIn(b, kind) == {i \in 1 .. Len(emitted[b]) : i > stoppedAt[b] /\ emitted[b][i] = kind}

\* The event under way when a battle was stopped may still be answered, and
\* as long as it is under way no result has followed the stop.
Over(b) ==
    /\ battles[b].told <=> stoppedAt[b] # NotStopped
    /\ battles[b].told =>
         /\ battles[b].status = "stopped" /\ battles[b].agent = "stopped"
         /\ stoppedAt[b] \in 0 .. Len(emitted[b])
         /\ LateIn(b, "complete") = {}
         /\ battles[b].stage \in Submitting => LateIn(b, "result") = {}
         /\ \E n \in Nat : LateIn(b, "result") \subseteq {n}

TesterInv == TesterShape /\ \A b \in 1 .. Len(battles) : Over(b)

LEMMA AppendedBattle ==
  ASSUME NEW f, NEW x, Len(f) \in Nat, f = [i \in 1 .. Len(f) |-> f[i]]
  PROVE  /\ Len(Append(f, x)) = Len(f) + 1
         /\ Append(f, x) = [i \in 1 .. Len(Append(f, x)) |-> Append(f, x)[i]]
         /\ Append(f, x)[Len(f) + 1] = x /\ \A i \in 1 .. Len(f) : Append(f, x)[i] = f[i]
  <1> DEFINE S == {f[i] : i \in 1 .. Len(f)} \union {x}
  <1>1. f \in Seq(S) /\ x \in S
    <2>1. f \in [1 .. Len(f) -> S]
      OBVIOUS
    <2> QED BY <2>1
  <1> HIDE DEF S
  <1>2. /\ Append(f, x) \in Seq(S) /\ Len(Append(f, x)) = Len(f) + 1
        /\ Append(f, x)[Len(f) + 1] = x /\ \A i \in 1 .. Len(f) : Append(f, x)[i] = f[i]
    BY <1>1
  <1>3. \A g \in Seq(S) : g = [i \in 1 .. Len(g) |-> g[i]]
    OBVIOUS
  <1> QED BY <1>2, <1>3

\* A step of the agent or runner of b.
AgentEffect(b, new) ==
    /\ battles' = [battles EXCEPT ![b] = new] /\ DOMAIN new = BattleFields
    /\ new.told = battles[b].told
    /\ UNCHANGED stoppedAt
    /\ \/ /\ UNCHANGED emitted
          /\ new.status = battles[b].status /\ new.agent = battles[b].agent
          /\ battles[b].told /\ new.stage \in Submitting => battles[b].stage \in Submitting
       \/ /\ emitted' = [emitted EXCEPT ![b] = Append(@, "result")]
          /\ new.status = battles[b].status /\ new.agent = battles[b].agent
          /\ battles[b].stage \in Submitting /\ new.stage = "next"
       \/ /\ emitted' = [emitted EXCEPT ![b] = Append(@, "scenarioDone")]
          /\ new.status = battles[b].status /\ new.agent = battles[b].agent
          /\ new.stage \in {"next", "over"}
       \/ /\ emitted' = [emitted EXCEPT ![b] = Append(@, "complete")]
          /\ battles[b].agent = "running" /\ new.status = "completed"

LEMMA DecidedEffect ==
  ASSUME NEW b \in DOMAIN battles, DOMAIN battles[b] = BattleFields, NEW decision,
         battles[b].stage \in Submitting, Decided(b, decision)
  PROVE  \E new : AgentEffect(b, new)
  <1> DEFINE new == [battles[b] EXCEPT !.stage = "next", !.attempts = 0, !.results = Append(@, decision)]
  <1>1. /\ battles' = [battles EXCEPT ![b] = new] /\ UNCHANGED stoppedAt
        /\ emitted' = [emitted EXCEPT ![b] = Append(@, "result")]
    BY DEF Decided, Become, Emit
  <1>2. /\ DOMAIN new = BattleFields /\ new.told = battles[b].told /\ new.stage = "next"
        /\ new.status = battles[b].status /\ new.agent = battles[b].agent
    BY DEF BattleFields
  <1> HIDE DEF new
  <1> QED BY <1>1, <1>2 DEF AgentEffect

LEMMA StepEffects ==
  ASSUME NEW b \in DOMAIN battles, DOMAIN battles[b] = BattleFields, AgentStep(b)
  PROVE  \E new : AgentEffect(b, new)
  <1> DEFINE x == battles[b]
  <1>1. CASE NextEvent(b)
    <2> DEFINE new == [x EXCEPT !.stage = "submit", !.event = @ + 1]
    <2>1. battles' = [battles EXCEPT ![b] = new] /\ UNCHANGED <<stoppedAt, emitted>> /\ ~x.told
      BY <1>1 DEF NextEvent, Become
    <2>2. /\ DOMAIN new = BattleFields /\ new.told = x.told
          /\ new.status = x.status /\ new.agent = x.agent
      BY DEF BattleFields
    <2> HIDE DEF new
    <2> QED BY <2>1, <2>2 DEF AgentEffect
  <1>2. CASE SubmitAnswered(b)
    <2>1. PICK decision \in Immediate : x.stage = "submit" /\ Decided(b, decision)
      BY <1>2 DEF SubmitAnswered
    <2> QED BY <2>1, DecidedEffect DEF Submitting
  <1>3. CASE SubmitAccepted(b)
    <2> DEFINE new == [x EXCEPT !.stage = "poll"]
    <2>1. battles' = [battles EXCEPT ![b] = new] /\ UNCHANGED <<stoppedAt, emitted>> /\ x.stage = "submit"
      BY <1>3 DEF SubmitAccepted, Become
    <2>2. /\ DOMAIN new = BattleFields /\ new.told = x.told
          /\ new.status = x.status /\ new.agent = x.agent
      BY DEF BattleFields
    <2> HIDE DEF new
    <2> QED BY <2>1, <2>2 DEF AgentEffect, Submitting
  <1>4. CASE SubmitFails(b)
    <2> DEFINE new == [x EXCEPT !.stage = "next", !.attempts = 0]
    <2>1. battles' = [battles EXCEPT ![b] = new] /\ UNCHANGED <<stoppedAt, emitted>>
      BY <1>4 DEF SubmitFails, Become
    <2>2. /\ DOMAIN new = BattleFields /\ new.told = x.told /\ new.stage = "next"
          /\ new.status = x.status /\ new.agent = x.agent
      BY DEF BattleFields
    <2> HIDE DEF new
    <2> QED BY <2>1, <2>2 DEF AgentEffect, Submitting
  <1>5. CASE PollFinds(b)
    <2>1. PICK decision \in Decisions : x.stage = "poll" /\ Decided(b, decision)
      BY <1>5 DEF PollFinds
    <2> QED BY <2>1, DecidedEffect DEF Submitting
  <1>6. CASE PollFindsNothing(b)
    <2> DEFINE new == [x EXCEPT !.attempts = @ + 1]
    <2>1. battles' = [battles EXCEPT ![b] = new] /\ UNCHANGED <<stoppedAt, emitted>>
      BY <1>6 DEF PollFindsNothing, Become
    <2>2. /\ DOMAIN new = BattleFields /\ new.told = x.told /\ new.stage = x.stage
          /\ new.status = x.status /\ new.agent = x.agent
      BY DEF BattleFields
    <2> HIDE DEF new
    <2> QED BY <2>1, <2>2 DEF AgentEffect
  <1>7. CASE PollGivesUp(b)
    <2>1. x.stage = "poll" /\ Decided(b, "ALLOW")
      BY <1>7 DEF PollGivesUp
    <2> QED BY <2>1, DecidedEffect DEF Submitting
  <1>8. CASE ScenarioDone(b)
    <2> DEFINE new == [x EXCEPT !.done = Append(@, compute(x.results, ScenarioOf(b))),
                               !.results = <<>>, !.event = 0,
                               !.scenario = IF x.told THEN Len(Scenarios) + 1 ELSE @ + 1,
                               !.stage = IF x.told \/ x.scenario = Len(Scenarios) THEN "over" ELSE @]
    <2>1. /\ battles' = [battles EXCEPT ![b] = new] /\ UNCHANGED stoppedAt /\ x.stage = "next"
          /\ emitted' = [emitted EXCEPT ![b] = Append(@, "scenarioDone")]
      BY <1>8 DEF ScenarioDone, Become, Emit
    <2>2. /\ DOMAIN new = BattleFields /\ new.told = x.told /\ new.stage \in {"over", x.stage}
          /\ new.status = x.status /\ new.agent = x.agent
      BY DEF BattleFields
    <2> HIDE DEF new
    <2> QED BY <2>1, <2>2 DEF AgentEffect
  <1>9. CASE ScenarioFails(b)
    <2> DEFINE new == [x EXCEPT !.done = Append(@, NoResult), !.results = <<>>, !.event = 0,
                               !.scenario = @ + 1,
                               !.stage = IF x.scenario = Len(Scenarios) THEN "over" ELSE @]
    <2>1. battles' = [battles EXCEPT ![b] = new] /\ UNCHANGED <<stoppedAt, emitted>> /\ x.stage = "next"
      BY <1>9 DEF ScenarioFails, Become
    <2>2. /\ DOMAIN new = BattleFields /\ new.told = x.told /\ new.stage \in {"over", x.stage}
          /\ new.status = x.status /\ new.agent = x.agent
      BY DEF BattleFields
    <2> HIDE DEF new
    <2> QED BY <2>1, <2>2 DEF AgentEffect, Submitting
  <1>10. CASE Finish(b)
    <2> DEFINE new == [x EXCEPT !.agent = "idle", !.status = "completed",
                               !.report = <<computeBattleReport(x.done)>>]
    <2>1. /\ battles' = [battles EXCEPT ![b] = new] /\ UNCHANGED stoppedAt /\ x.agent = "running"
          /\ emitted' = [emitted EXCEPT ![b] = Append(@, "complete")]
      BY <1>10 DEF Finish, Become, Emit
    <2>2. DOMAIN new = BattleFields /\ new.told = x.told /\ new.status = "completed"
      BY DEF BattleFields
    <2> HIDE DEF new
    <2> QED BY <2>1, <2>2 DEF AgentEffect
  <1> QED BY <1>1, <1>2, <1>3, <1>4, <1>5, <1>6, <1>7, <1>8, <1>9, <1>10 DEF AgentStep

LEMMA SameRoom ==
  ASSUME NEW b, Over(b), battles'[b] = battles[b], emitted'[b] = emitted[b], stoppedAt'[b] = stoppedAt[b]
  PROVE  Over(b)'
  <1>1. \A kind : LateIn(b, kind)' = LateIn(b, kind)
    BY DEF LateIn
  <1> QED BY <1>1 DEF Over

LEMMA AcceptBattleStep ==
  ASSUME TesterInv, AcceptBattle
  PROVE  TesterInv'
  <1>1. /\ battles' = Append(battles, NewBattle) /\ emitted' = Append(emitted, <<>>)
        /\ stoppedAt' = Append(stoppedAt, NotStopped)
    BY DEF AcceptBattle
  <1>2. PICK n \in Nat : /\ n = Len(battles) /\ emitted \in Seq(Seq(Messages)) /\ Len(emitted) = n
                         /\ stoppedAt \in Seq(Int) /\ Len(stoppedAt) = n
    BY DEF TesterInv, TesterShape
  <1>3. /\ Len(battles') = n + 1 /\ battles' = [b \in 1 .. n + 1 |-> battles'[b]]
        /\ battles'[n + 1] = NewBattle /\ \A b \in 1 .. n : battles'[b] = battles[b]
    <2>1. battles = [b \in 1 .. Len(battles) |-> battles[b]] /\ Len(battles) \in Nat
      BY DEF TesterInv, TesterShape
    <2>2. /\ Len(Append(battles, NewBattle)) = n + 1
          /\ Append(battles, NewBattle) = [b \in 1 .. n + 1 |-> Append(battles, NewBattle)[b]]
          /\ Append(battles, NewBattle)[n + 1] = NewBattle
          /\ \A b \in 1 .. n : Append(battles, NewBattle)[b] = battles[b]
      <3> DEFINE fresh == NewBattle
      <3> HIDE DEF fresh
      <3>1. /\ Len(Append(battles, fresh)) = Len(battles) + 1
            /\ Append(battles, fresh) = [i \in 1 .. Len(Append(battles, fresh)) |-> Append(battles, fresh)[i]]
            /\ Append(battles, fresh)[Len(battles) + 1] = fresh
            /\ \A i \in 1 .. Len(battles) : Append(battles, fresh)[i] = battles[i]
        BY <2>1, AppendedBattle
      <3> QED BY <1>2, <3>1 DEF fresh
    <2> QED BY <1>1, <2>2
  <1>4. /\ emitted' \in Seq(Seq(Messages)) /\ Len(emitted') = n + 1
        /\ emitted'[n + 1] = <<>> /\ \A b \in 1 .. n : emitted'[b] = emitted[b]
    BY <1>1, <1>2
  <1>5. /\ stoppedAt' \in Seq(Int) /\ Len(stoppedAt') = n + 1
        /\ stoppedAt'[n + 1] = NotStopped /\ \A b \in 1 .. n : stoppedAt'[b] = stoppedAt[b]
    BY <1>1, <1>2 DEF NotStopped
  <1>6. \A b \in 1 .. n + 1 : b \in 1 .. n \/ b = n + 1
    OBVIOUS
  <1>7. DOMAIN NewBattle = BattleFields /\ NewBattle.told = FALSE
    BY DEF NewBattle, BattleFields
  <1>8. TesterShape'
    <2>1. \A b \in 1 .. n : DOMAIN battles[b] = BattleFields
      BY <1>2 DEF TesterInv, TesterShape
    <2>2. \A b \in 1 .. n + 1 : DOMAIN battles'[b] = BattleFields
      BY <1>3, <1>6, <1>7, <2>1
    <2> QED BY <1>3, <1>4, <1>5, <2>2 DEF TesterShape
  <1>9. ASSUME NEW b \in 1 .. n PROVE Over(b)'
    <2>1. battles'[b] = battles[b] /\ emitted'[b] = emitted[b] /\ stoppedAt'[b] = stoppedAt[b]
      BY <1>3, <1>4, <1>5
    <2>2. Over(b)
      BY <1>2 DEF TesterInv
    <2> QED BY <2>1, <2>2, SameRoom
  <1>10. ASSUME NEW b \in {n + 1} PROVE Over(b)'
    BY <1>3, <1>5, <1>7 DEF Over
  <1> QED BY <1>3, <1>6, <1>8, <1>9, <1>10 DEF TesterInv

\* A battle replaced by another record of its fields.
LEMMA BattleReplaced ==
  ASSUME TesterInv, NEW b \in DOMAIN battles, NEW new, DOMAIN new = BattleFields,
         battles' = [battles EXCEPT ![b] = new]
  PROVE  /\ b \in 1 .. Len(battles) /\ Len(battles') = Len(battles)
         /\ battles' = [c \in 1 .. Len(battles') |-> battles'[c]]
         /\ battles'[b] = new /\ \A c \in 1 .. Len(battles) : c # b => battles'[c] = battles[c]
         /\ \A c \in 1 .. Len(battles') : DOMAIN battles'[c] = BattleFields
  <1>1. /\ Len(battles) \in Nat /\ battles = [c \in 1 .. Len(battles) |-> battles[c]]
        /\ \A c \in 1 .. Len(battles) : DOMAIN battles[c] = BattleFields
    BY DEF TesterInv, TesterShape
  <1>2. DOMAIN battles = 1 .. Len(battles)
    BY <1>1
  <1>3. battles' = [c \in 1 .. Len(battles) |-> IF c = b THEN new ELSE battles[c]]
    BY <1>1, <1>2
  <1>4. Len(battles') = Len(battles)
    BY <1>1, <1>3
  <1> QED BY <1>1, <1>2, <1>3, <1>4

LEMMA AcceptStopStep ==
  ASSUME TesterInv, NEW b \in DOMAIN battles, AcceptStop(b), UNCHANGED emitted
  PROVE  TesterInv'
  <1> DEFINE new == StopOf(b)
  <1>1. /\ battles' = [battles EXCEPT ![b] = new]
        /\ stoppedAt' = [stoppedAt EXCEPT ![b] = IF @ = NotStopped THEN Len(emitted[b]) ELSE @]
    BY DEF AcceptStop
  <1>2. DOMAIN battles = 1 .. Len(battles)
    BY DEF TesterInv, TesterShape
  <1>3. /\ DOMAIN new = BattleFields /\ new.told = TRUE /\ new.stage = battles[b].stage
        /\ new.status = "stopped" /\ new.agent = "stopped"
    <2>1. DOMAIN battles[b] = BattleFields
      BY <1>2 DEF TesterInv, TesterShape
    <2> QED BY <2>1 DEF StopOf, BattleFields
  <1> HIDE DEF new
  <1>4. /\ b \in 1 .. Len(battles) /\ Len(battles') = Len(battles)
        /\ battles' = [c \in 1 .. Len(battles') |-> battles'[c]]
        /\ battles'[b] = new /\ \A c \in 1 .. Len(battles) : c # b => battles'[c] = battles[c]
        /\ \A c \in 1 .. Len(battles') : DOMAIN battles'[c] = BattleFields
    BY <1>1, <1>3, BattleReplaced
  <1>5. /\ emitted \in Seq(Seq(Messages)) /\ Len(emitted) = Len(battles) /\ stoppedAt \in Seq(Int)
        /\ Len(stoppedAt) = Len(battles)
    BY DEF TesterInv, TesterShape
  <1>6. emitted[b] \in Seq(Messages) /\ Len(emitted[b]) \in Nat /\ stoppedAt[b] \in Int
    BY <1>4, <1>5
  <1>7. /\ stoppedAt' \in Seq(Int) /\ Len(stoppedAt') = Len(battles)
        /\ stoppedAt'[b] = (IF stoppedAt[b] = NotStopped THEN Len(emitted[b]) ELSE stoppedAt[b])
        /\ \A c \in 1 .. Len(battles) : c # b => stoppedAt'[c] = stoppedAt[c]
    BY <1>1, <1>4, <1>5, <1>6
  <1>8. TesterShape'
    BY <1>4, <1>5, <1>7 DEF TesterInv, TesterShape
  <1>9. ASSUME NEW c \in 1 .. Len(battles), c # b PROVE Over(c)'
    <2>1. battles'[c] = battles[c] /\ stoppedAt'[c] = stoppedAt[c]
      BY <1>4, <1>7, <1>9
    <2>2. Over(c)
      BY DEF TesterInv
    <2>3. LateIn(c, "complete")' = LateIn(c, "complete") /\ LateIn(c, "result")' = LateIn(c, "result")
      BY <2>1 DEF LateIn
    <2> QED BY <2>1, <2>2, <2>3 DEF Over
  <1>10. Over(b)'
    <2>0. Over(b)
      BY <1>4 DEF TesterInv
    <2>1. CASE stoppedAt[b] = NotStopped
      <3>1. stoppedAt'[b] = Len(emitted[b]) /\ Len(emitted[b]) # NotStopped
        BY <1>6, <1>7, <2>1 DEF NotStopped
      <3>2. \A kind : LateIn(b, kind)' = {}
        BY <1>6, <3>1 DEF LateIn
      <3> QED BY <1>3, <1>4, <1>6, <3>1, <3>2 DEF Over
    <2>2. CASE stoppedAt[b] # NotStopped
      <3>1. stoppedAt'[b] = stoppedAt[b] /\ battles[b].told
        BY <1>7, <2>0, <2>2 DEF Over
      <3>2. \A kind : LateIn(b, kind)' = LateIn(b, kind)
        BY <3>1 DEF LateIn
      <3> QED BY <1>3, <1>4, <2>0, <2>2, <3>1, <3>2 DEF Over
    <2> QED BY <2>1, <2>2
  <1> QED BY <1>4, <1>8, <1>9, <1>10 DEF TesterInv

LEMMA AgentStepKeeps ==
  ASSUME TesterInv, NEW b \in DOMAIN battles, AgentStep(b)
  PROVE  TesterInv'
  <1>1. b \in 1 .. Len(battles) /\ DOMAIN battles[b] = BattleFields
    BY DEF TesterInv, TesterShape
  <1>2. PICK new : AgentEffect(b, new)
    BY <1>1, StepEffects
  <1>3. /\ Len(battles') = Len(battles)
        /\ battles' = [c \in 1 .. Len(battles') |-> battles'[c]]
        /\ battles'[b] = new /\ \A c \in 1 .. Len(battles) : c # b => battles'[c] = battles[c]
        /\ \A c \in 1 .. Len(battles') : DOMAIN battles'[c] = BattleFields
    BY <1>2, BattleReplaced DEF AgentEffect
  <1>4. /\ emitted \in Seq(Seq(Messages)) /\ Len(emitted) = Len(battles) /\ stoppedAt \in Seq(Int)
        /\ Len(stoppedAt) = Len(battles) /\ stoppedAt' = stoppedAt
    BY <1>2 DEF TesterInv, TesterShape, AgentEffect
  <1>5. emitted[b] \in Seq(Messages) /\ Len(emitted[b]) \in Nat /\ Over(b)
    BY <1>1, <1>4 DEF TesterInv
  <1> DEFINE Sent(kind) ==
        /\ emitted' \in Seq(Seq(Messages)) /\ Len(emitted') = Len(battles)
        /\ \A c \in 1 .. Len(battles) : c # b => emitted'[c] = emitted[c]
        /\ emitted'[b] = Append(emitted[b], kind) /\ Len(emitted'[b]) = Len(emitted[b]) + 1
        /\ emitted'[b][Len(emitted[b]) + 1] = kind
        /\ \A i \in 1 .. Len(emitted[b]) : emitted'[b][i] = emitted[b][i]
  <1>6. ASSUME NEW kind \in Messages, emitted' = [emitted EXCEPT ![b] = Append(@, kind)]
        PROVE  Sent(kind)
    <2>1. Append(emitted[b], kind) \in Seq(Messages) /\ Len(Append(emitted[b], kind)) = Len(emitted[b]) + 1
      BY <1>5
    <2>2. /\ Append(emitted[b], kind)[Len(emitted[b]) + 1] = kind
          /\ \A i \in 1 .. Len(emitted[b]) : Append(emitted[b], kind)[i] = emitted[b][i]
      BY <1>5
    <2>3. /\ emitted' \in Seq(Seq(Messages)) /\ Len(emitted') = Len(battles)
          /\ emitted'[b] = Append(emitted[b], kind)
          /\ \A c \in 1 .. Len(battles) : c # b => emitted'[c] = emitted[c]
      BY <1>1, <1>4, <1>6, <2>1
    <2> QED BY <2>1, <2>2, <2>3
  <1>7. emitted' = emitted \/ \E kind \in Messages : Sent(kind)
    BY <1>2, <1>6 DEF AgentEffect, Messages
  <1>8. /\ emitted' \in Seq(Seq(Messages)) /\ Len(emitted') = Len(battles)
        /\ \A c \in 1 .. Len(battles) : c # b => emitted'[c] = emitted[c]
    BY <1>4, <1>7
  <1>9. TesterShape'
    BY <1>3, <1>4, <1>8 DEF TesterInv, TesterShape
  <1>10. ASSUME NEW c \in 1 .. Len(battles), c # b PROVE Over(c)'
    BY <1>3, <1>4, <1>8, <1>10, SameRoom DEF TesterInv
  <1>11. ASSUME NEW kind \in Messages, Sent(kind), battles[b].told
         PROVE  /\ stoppedAt[b] \in 0 .. Len(emitted'[b])
                /\ LateIn(b, kind)' = LateIn(b, kind) \union {Len(emitted[b]) + 1}
                /\ \A other \in Messages \ {kind} : LateIn(b, other)' = LateIn(b, other)
    <2>1. stoppedAt[b] \in 0 .. Len(emitted[b])
      BY <1>5, <1>11 DEF Over
    <2>2. 1 .. Len(emitted'[b]) = (1 .. Len(emitted[b])) \union {Len(emitted[b]) + 1}
      BY <1>5, <1>11
    <2>3. \A i \in 1 .. Len(emitted'[b]) : i = Len(emitted[b]) + 1 \/ i \in 1 .. Len(emitted[b])
      BY <1>5, <1>11
    <2>4. Len(emitted[b]) + 1 > stoppedAt[b] /\ Len(emitted[b]) + 1 \in Nat
      BY <1>5, <2>1
    <2>5. LateIn(b, kind)' = LateIn(b, kind) \union {Len(emitted[b]) + 1}
      BY <1>4, <1>11, <2>2, <2>3, <2>4 DEF LateIn
    <2>6. \A other \in Messages \ {kind} : LateIn(b, other)' = LateIn(b, other)
      BY <1>4, <1>11, <2>2, <2>3 DEF LateIn
    <2> QED BY <1>5, <1>11, <2>1, <2>5, <2>6
  <1>12. Over(b)'
    <2>0. new.told = battles[b].told /\ (battles[b].told <=> stoppedAt[b] # NotStopped)
      BY <1>2, <1>5 DEF AgentEffect, Over
    <2>1. CASE ~battles[b].told
      BY <1>3, <1>4, <2>0, <2>1 DEF Over
    <2>2. ASSUME battles[b].told, UNCHANGED emitted,
                 new.status = battles[b].status, new.agent = battles[b].agent,
                 new.stage \in Submitting => battles[b].stage \in Submitting
          PROVE  Over(b)'
      <3>1. \A kind : LateIn(b, kind)' = LateIn(b, kind)
        BY <1>4, <2>2 DEF LateIn
      <3> QED BY <1>3, <1>4, <1>5, <2>0, <2>2, <3>1 DEF Over
    <2>3. ASSUME battles[b].told, Sent("result"), battles[b].stage \in Submitting, new.stage = "next",
                 new.status = battles[b].status, new.agent = battles[b].agent
          PROVE  Over(b)'
      <3>1. LateIn(b, "result") = {} /\ LateIn(b, "complete") = {}
        BY <1>5, <2>3 DEF Over
      <3>2. LateIn(b, "result")' = {Len(emitted[b]) + 1} /\ LateIn(b, "complete")' = {}
        BY <1>11, <2>3, <3>1 DEF Messages
      <3>3. Len(emitted[b]) + 1 \in Nat /\ stoppedAt[b] \in 0 .. Len(emitted'[b])
        BY <1>5, <1>11, <2>3 DEF Messages
      <3> QED BY <1>3, <1>4, <1>5, <2>0, <2>3, <3>2, <3>3 DEF Over, Submitting
    <2>4. ASSUME battles[b].told, Sent("scenarioDone"), new.stage \in {"next", "over"},
                 new.status = battles[b].status, new.agent = battles[b].agent
          PROVE  Over(b)'
      <3>1. /\ LateIn(b, "result")' = LateIn(b, "result") /\ LateIn(b, "complete")' = LateIn(b, "complete")
            /\ stoppedAt[b] \in 0 .. Len(emitted'[b])
        BY <1>11, <2>4 DEF Messages
      <3> QED BY <1>3, <1>4, <1>5, <2>0, <2>4, <3>1 DEF Over, Submitting
    <2>5. battles[b].told => battles[b].agent # "running"
      BY <1>5 DEF Over
    <2> QED BY <1>2, <1>6, <2>1, <2>2, <2>3, <2>4, <2>5 DEF AgentEffect, Messages
  <1> QED BY <1>3, <1>9, <1>10, <1>12 DEF TesterInv

LEMMA TesterInvariance == TesterSpec => []TesterInv
  <1>1. TesterInit => TesterInv
    BY DEF TesterInit, TesterInv, TesterShape
  <1>2. TesterInv /\ [TesterNext]_testerVars => TesterInv'
    <2> SUFFICES ASSUME TesterInv, [TesterNext]_testerVars PROVE TesterInv'
      OBVIOUS
    <2>1. CASE UNCHANGED testerVars
      BY <2>1 DEF testerVars, TesterInv, TesterShape, Over, LateIn
    <2>2. CASE TesterNext
      BY <2>2, AcceptBattleStep, AcceptStopStep, AgentStepKeeps DEF TesterNext
    <2> QED BY <2>1, <2>2
  <1> QED BY <1>1, <1>2, PTL DEF TesterSpec

LEMMA LateIsBounded == TesterInv => StoppedIsOver
  <1> SUFFICES ASSUME TesterInv, NEW b \in DOMAIN battles, stoppedAt[b] # NotStopped
               PROVE  LET late == {i \in DOMAIN emitted[b] : i > stoppedAt[b]}
                      IN  /\ Cardinality({i \in late : emitted[b][i] = "result"}) <= 1
                          /\ \A i \in late : emitted[b][i] # "complete"
                          /\ battles[b].status = "stopped"
    BY DEF StoppedIsOver
  <1>1. b \in 1 .. Len(battles) /\ emitted[b] \in Seq(Messages)
    BY DEF TesterInv, TesterShape
  <1>2. DOMAIN emitted[b] = 1 .. Len(emitted[b])
    BY <1>1
  <1>3. Over(b)
    BY <1>1 DEF TesterInv
  <1> DEFINE late == {i \in DOMAIN emitted[b] : i > stoppedAt[b]}
             results == {i \in late : emitted[b][i] = "result"}
  <1>4. results = LateIn(b, "result")
    BY <1>2 DEF LateIn
  <1>5. PICK n \in Nat : results \subseteq {n}
    BY <1>3, <1>4 DEF Over
  <1>6. Cardinality(results) <= 1
    <2> HIDE DEF results
    <2>1. results = {} \/ results = {n}
      BY <1>5
    <2>2. Cardinality({}) = 0 /\ Cardinality({n}) = 1
      BY FS_EmptySet, FS_Singleton
    <2> QED BY <2>1, <2>2
  <1>7. \A i \in late : emitted[b][i] # "complete"
    BY <1>2, <1>3 DEF Over, LateIn
  <1> QED BY <1>3, <1>6, <1>7 DEF Over

\* After a stop a battle's room hears of one more result at most and of no
\* report, for any scenarios, battles side by side, errors and numbers of
\* polls; and a battle that was stopped stays stopped.
THEOREM StoppedBattlesAreOver == TesterSpec => []StoppedIsOver
  BY LateIsBounded, TesterInvariance, PTL

-----------------------------------------------------------------------------
(* The battle arena over the server *)

SocketRecords ==
    [run : Nat, state : {"connecting", "connected", "gone"},
     post : {"none", "sent", "answered", "joining", "joined"}, battle : Nat, seen : Nat]

\* A socket knows a battle once its post was taken, and joins only then.
SocketOK(c) ==
    /\ c.state = "connecting" => c.post = "none" /\ c.battle = 0
    /\ c.state = "connected" /\ c.post = "none" => c.battle = 0
    /\ c.post = "sent" => c.battle = 0
    /\ c.post \in {"joining", "joined"} => c.battle # 0

ArenaShape ==
    /\ sockets \in Seq(SocketRecords) /\ feed \in Seq(Nat) /\ Len(feed) <= MaxFeed
    /\ run \in Nat /\ importing \subseteq Nat /\ current \in 0 .. Len(sockets)
    /\ ui \in {"idle", "running", "completed"} /\ mock \in BOOLEAN /\ excused \in BOOLEAN
    /\ \A s \in 1 .. Len(sockets) : SocketOK(sockets[s]) /\ sockets[s].battle <= Len(battles)

\* A battle whose room has the report runs no more.
ReportedIsOver ==
    \A b \in 1 .. Len(battles) : \A i \in 1 .. Len(emitted[b]) :
        emitted[b][i] = "complete" => battles[b].status # "running"

\* What runs belongs to the last start: its import, its socket or, when no
\* server answered, its interval, one of them at a time.  A battle is the one
\* of the open socket, or its stop is on its way.
OneAtATime ==
    /\ importing \subseteq {run} /\ ~(importing # {} /\ mock)
    /\ importing # {} \/ mock => ui = "running" /\ \A s \in 1 .. Len(sockets) : sockets[s].state = "gone"
    /\ \A s \in 1 .. Len(sockets) :
          /\ sockets[s].state # "gone" => s = current /\ sockets[s].run = run /\ ui = "running"
          /\ sockets[s].state # "gone" /\ sockets[s].post \in {"joining", "joined"} =>
                active = sockets[s].battle
          /\ sockets[s].post \in {"sent", "answered", "joining"} => sockets[s].state = "connected"
          /\ Serving(sockets[s].battle) => sockets[s].battle \in stops \/ sockets[s].state # "gone"

FeedIsOfOne ==
    /\ importing # {} => feed = <<>>
    /\ mock => \A i \in 1 .. Len(feed) : feed[i] = Mocked
    /\ \A s \in 1 .. Len(sockets) : sockets[s].state # "gone" =>
          IF sockets[s].post = "joined" THEN \A i \in 1 .. Len(feed) : feed[i] = sockets[s].battle
          ELSE feed = <<>>
    /\ \A i, j \in 1 .. Len(feed) : feed[i] = feed[j]
    /\ \A i \in 1 .. Len(feed) : feed[i] # Mocked =>
          \E s \in 1 .. Len(sockets) : sockets[s].battle = feed[i] /\ sockets[s].run = run

ArenaInv ==
    /\ TesterInv /\ forgotten \in Nat
    /\ ArenaShape /\ ReportedIsOver /\ (~excused => OneAtATime /\ FeedIsOfOne)

\* What the server's entries and the page's sockets are.
LEMMA ArenaFacts ==
  ASSUME ArenaInv
  PROVE  /\ Len(sockets) \in Nat /\ DOMAIN sockets = 1 .. Len(sockets)
         /\ \A s \in 1 .. Len(sockets) : sockets[s] \in SocketRecords /\ SocketOK(sockets[s])
         /\ Len(battles) \in Nat /\ DOMAIN battles = 1 .. Len(battles)
         /\ emitted \in Seq(Seq(Messages)) /\ Len(emitted) = Len(battles)
         /\ \A b \in 1 .. Len(battles) : emitted[b] \in Seq(Messages) /\ Len(emitted[b]) \in Nat
         /\ Len(feed) \in Nat
  <1>1. sockets \in Seq(SocketRecords) /\ feed \in Seq(Nat) /\ \A s \in 1 .. Len(sockets) : SocketOK(sockets[s])
    BY DEF ArenaInv, ArenaShape
  <1>2. /\ Len(battles) \in Nat /\ DOMAIN battles = 1 .. Len(battles)
        /\ emitted \in Seq(Seq(Messages)) /\ Len(emitted) = Len(battles)
    BY DEF ArenaInv, TesterInv, TesterShape
  <1>3. \A b \in 1 .. Len(battles) : emitted[b] \in Seq(Messages)
    BY <1>2
  <1> QED BY <1>1, <1>2, <1>3

LEMMA SocketReplaced ==
  ASSUME ArenaInv, NEW s \in 1 .. Len(sockets), NEW c \in SocketRecords, Socket(s, c)
  PROVE  /\ sockets' \in Seq(SocketRecords) /\ Len(sockets') = Len(sockets) /\ sockets'[s] = c
         /\ \A x \in 1 .. Len(sockets) : x # s => sockets'[x] = sockets[x]
  <1>1. sockets \in Seq(SocketRecords)
    BY DEF ArenaInv, ArenaShape
  <1> QED BY <1>1 DEF Socket

\* A result is put in front of the feed, and the feed is cut.
LEMMA FeedGrows ==
  ASSUME feed \in Seq(Nat), NEW x \in Nat, AddResult(x)
  PROVE  /\ feed' \in Seq(Nat) /\ Len(feed') <= MaxFeed
         /\ \A i \in 1 .. Len(feed') : feed'[i] = x \/ \E j \in 1 .. Len(feed) : feed'[i] = feed[j]
  <1> DEFINE t == <<x>> \o feed
             n == IF Len(t) > MaxFeed THEN MaxFeed ELSE Len(t)
  <1>1. /\ t \in Seq(Nat) /\ Len(t) = Len(feed) + 1 /\ t[1] = x
        /\ \A i \in 1 .. Len(t) : i = 1 \/ (i - 1 \in 1 .. Len(feed) /\ t[i] = feed[i - 1])
    <2>1. <<x>> \in Seq(Nat) /\ Len(<<x>>) = 1 /\ <<x>>[1] = x
      OBVIOUS
    <2> QED BY <2>1
  <1>2. feed' = SubSeq(t, 1, n)
    BY DEF AddResult, UpToCap
  <1> HIDE DEF t
  <1>3. n \in 0 .. Len(t) /\ n <= MaxFeed /\ n \in Nat
    BY <1>1, ArenaAssumption
  <1> HIDE DEF n
  <1>4. feed' \in Seq(Nat) /\ Len(feed') = n /\ \A i \in 1 .. n : feed'[i] = t[i]
    BY <1>1, <1>2, <1>3
  <1>5. \A i \in 1 .. n : i \in 1 .. Len(t)
    BY <1>1, <1>3
  <1> QED BY <1>1, <1>3, <1>4, <1>5

\* A step of the page alone.
LEMMA PageStep ==
  ASSUME ArenaInv, UNCHANGED testerVars, ArenaShape', ~excused' => OneAtATime' /\ FeedIsOfOne'
  PROVE  ArenaInv'
  <1>1. TesterInv'
    BY DEF ArenaInv, testerVars, TesterInv, TesterShape, Over, LateIn
  <1>2. ReportedIsOver'
    BY DEF ArenaInv, testerVars, ReportedIsOver
  <1> QED BY <1>1, <1>2 DEF ArenaInv, testerVars

LEMMA StartBattleStep ==
  ASSUME ArenaInv, StartBattle
  PROVE  ArenaInv'
  <1>1. /\ UNCHANGED <<battles, forgotten, sockets, current, mock, stops, excused>> /\ UNCHANGED testerVars
        /\ ui # "running" /\ ui' = "running" /\ run' = run + 1 /\ feed' = <<>>
        /\ importing' = importing \union {run + 1}
    BY DEF StartBattle, testerVars
  <1>2. ArenaShape'
    BY <1>1, ArenaAssumption DEF ArenaInv, ArenaShape
  <1>3. ASSUME ~excused PROVE OneAtATime' /\ FeedIsOfOne'
    <2>1. /\ importing = {} /\ ~mock /\ \A s \in 1 .. Len(sockets) : sockets[s].state = "gone"
      BY <1>1, <1>3 DEF ArenaInv, OneAtATime
    <2>2. OneAtATime'
      BY <1>1, <1>3, <2>1 DEF ArenaInv, OneAtATime, Serving, Known
    <2>3. FeedIsOfOne'
      BY <1>1, <2>1 DEF FeedIsOfOne
    <2> QED BY <2>2, <2>3
  <1> QED BY <1>1, <1>2, <1>3, PageStep

LEMMA ImportStep ==
  ASSUME ArenaInv, NEW r \in importing, ImportDone(r) \/ ImportFails(r)
  PROVE  ArenaInv'
  <1>1. CASE ImportDone(r)
    <2> DEFINE c == [run |-> r, state |-> "connecting", post |-> "none", battle |-> 0, seen |-> 0]
               n == Len(sockets)
    <2>1. /\ UNCHANGED <<battles, forgotten, ui, run, active, mock, feed, stops, excused>> /\ UNCHANGED testerVars
          /\ importing' = importing \ {r} /\ sockets' = Append(sockets, c) /\ current' = n + 1
      BY <1>1 DEF ImportDone, testerVars
    <2>2. /\ c \in SocketRecords /\ c.run = r /\ c.state = "connecting" /\ c.post = "none" /\ c.battle = 0
          /\ SocketOK(c) /\ sockets \in Seq(SocketRecords) /\ n \in Nat
      BY ArenaFacts DEF SocketRecords, SocketOK, ArenaInv, ArenaShape
    <2> HIDE DEF c
    <2>3. /\ sockets' \in Seq(SocketRecords) /\ Len(sockets') = n + 1 /\ sockets'[n + 1] = c
          /\ \A s \in 1 .. n : sockets'[s] = sockets[s]
          /\ \A s \in 1 .. n + 1 : s = n + 1 \/ s \in 1 .. n
      BY <2>1, <2>2
    <2> HIDE DEF n
    <2>4. ArenaShape'
      <3>1. \A s \in 1 .. n + 1 : SocketOK(sockets'[s]) /\ sockets'[s].battle <= Len(battles)
        <4>1. \A s \in 1 .. n : SocketOK(sockets[s]) /\ sockets[s].battle <= Len(battles)
          BY DEF ArenaInv, ArenaShape, n
        <4>2. 0 <= Len(battles)
          BY ArenaFacts
        <4> QED BY <2>2, <2>3, <4>1, <4>2
      <3>2. (\A s \in 1 .. Len(sockets) : SocketOK(sockets[s]) /\ sockets[s].battle <= Len(battles))'
        BY <2>1, <2>3, <3>1
      <3>3. current' \in 0 .. Len(sockets') /\ importing' \subseteq Nat
        BY <2>1, <2>2, <2>3 DEF ArenaInv, ArenaShape
      <3> QED BY <2>1, <2>3, <3>2, <3>3 DEF ArenaInv, ArenaShape
    <2>5. ASSUME ~excused PROVE OneAtATime' /\ FeedIsOfOne'
      <3>1. /\ r = run /\ importing' = {} /\ ~mock /\ ui = "running" /\ feed = <<>>
            /\ \A s \in 1 .. n : sockets[s].state = "gone"
        BY <2>1, <2>5 DEF ArenaInv, OneAtATime, FeedIsOfOne, n
      <3>2. OneAtATime'
        BY <2>1, <2>2, <2>3, <2>5, <3>1 DEF ArenaInv, OneAtATime, Serving, Known, n
      <3>3. FeedIsOfOne'
        BY <2>1, <2>2, <2>3, <3>1 DEF FeedIsOfOne
      <3> QED BY <3>2, <3>3
    <2> QED BY <2>1, <2>4, <2>5, PageStep
  <1>2. CASE ImportFails(r)
    <2>1. /\ UNCHANGED <<battles, forgotten, ui, run, sockets, current, active, feed, stops, excused>>
          /\ UNCHANGED testerVars /\ importing' = importing \ {r} /\ mock' = TRUE
      BY <1>2 DEF ImportFails, testerVars
    <2>2. ArenaShape'
      BY <2>1 DEF ArenaInv, ArenaShape
    <2>3. ASSUME ~excused PROVE OneAtATime' /\ FeedIsOfOne'
      <3>1. /\ importing' = {} /\ ui = "running" /\ feed = <<>>
            /\ \A s \in 1 .. Len(sockets) : sockets[s].state = "gone"
        BY <2>1, <2>3 DEF ArenaInv, OneAtATime, FeedIsOfOne
      <3>2. OneAtATime'
        BY <2>1, <2>3, <3>1 DEF ArenaInv, OneAtATime, Serving, Known
      <3>3. FeedIsOfOne'
        BY <2>1, <3>1 DEF FeedIsOfOne
      <3> QED BY <3>2, <3>3
    <2> QED BY <2>1, <2>2, <2>3, PageStep
  <1> QED BY <1>1, <1>2

\* A step of the page that changes one socket and leaves its run and battle.
LEMMA SocketShape ==
  ASSUME ArenaInv, NEW s \in 1 .. Len(sockets), NEW c \in SocketRecords, Socket(s, c), SocketOK(c),
         c.battle <= Len(battles'), Len(battles') \in Nat, Len(battles) <= Len(battles'),
         feed' \in Seq(Nat), Len(feed') <= MaxFeed, current' \in {0, current},
         mock' \in BOOLEAN, excused' \in BOOLEAN, UNCHANGED <<run, importing, ui>>
  PROVE  /\ ArenaShape'
         /\ Len(sockets') = Len(sockets) /\ sockets'[s] = c
         /\ \A x \in 1 .. Len(sockets) : x # s => sockets'[x] = sockets[x]
  <1>1. /\ sockets' \in Seq(SocketRecords) /\ Len(sockets') = Len(sockets) /\ sockets'[s] = c
        /\ \A x \in 1 .. Len(sockets) : x # s => sockets'[x] = sockets[x]
    BY SocketReplaced
  <1>2. ASSUME NEW x \in 1 .. Len(sockets)
        PROVE  SocketOK(sockets'[x]) /\ sockets'[x].battle <= Len(battles')
    <2>1. CASE x = s
      BY <1>1, <2>1
    <2>2. CASE x # s
      <3>1. SocketOK(sockets[x]) /\ sockets[x].battle <= Len(battles) /\ sockets[x].battle \in Nat
        BY ArenaFacts DEF ArenaInv, ArenaShape, SocketRecords
      <3>2. sockets'[x] = sockets[x] /\ Len(battles) \in Nat
        BY <1>1, <2>2, ArenaFacts
      <3> QED BY <3>1, <3>2
    <2> QED BY <2>1, <2>2
  <1>3. (\A x \in 1 .. Len(sockets) : SocketOK(sockets[x]) /\ sockets[x].battle <= Len(battles))'
    BY <1>1, <1>2
  <1>4. current' \in 0 .. Len(sockets')
    BY <1>1, ArenaFacts DEF ArenaInv, ArenaShape
  <1> QED BY <1>1, <1>3, <1>4 DEF ArenaInv, ArenaShape

\* Without a stop or loss the open socket is alone: nothing else is under way.
LEMMA OpenIsAlone ==
  ASSUME ArenaInv, ~excused, NEW s \in 1 .. Len(sockets),
         sockets[s].state # "gone" \/ sockets[s].post \in {"sent", "answered", "joining"}
  PROVE  /\ sockets[s].state # "gone" /\ s = current /\ sockets[s].run = run /\ ui = "running"
         /\ importing = {} /\ ~mock
         /\ sockets[s].post \in {"joining", "joined"} => active = sockets[s].battle
         /\ \A x \in 1 .. Len(sockets) : x # s =>
               /\ sockets[x].state = "gone" /\ sockets[x].post \notin {"sent", "answered", "joining"}
               /\ Serving(sockets[x].battle) => sockets[x].battle \in stops
         /\ sockets[s].post # "joined" => feed = <<>>
         /\ \A i \in 1 .. Len(feed) : feed[i] = sockets[s].battle
  <1>1. OneAtATime /\ FeedIsOfOne
    BY DEF ArenaInv
  <1>2. sockets[s].state # "gone"
    BY <1>1 DEF OneAtATime
  <1>3. s = current /\ sockets[s].run = run /\ ui = "running" /\ importing = {} /\ ~mock
    BY <1>1, <1>2 DEF OneAtATime
  <1>4. \A x \in 1 .. Len(sockets) : x # s =>
               /\ sockets[x].state = "gone" /\ sockets[x].post \notin {"sent", "answered", "joining"}
               /\ Serving(sockets[x].battle) => sockets[x].battle \in stops
    BY <1>1, <1>3 DEF OneAtATime
  <1>5. sockets[s].post # "joined" => feed = <<>>
    BY <1>1, <1>2 DEF FeedIsOfOne
  <1>6. \A i \in 1 .. Len(feed) : feed[i] = sockets[s].battle
    BY <1>1, <1>2, <1>5 DEF FeedIsOfOne
  <1>7. sockets[s].post \in {"joining", "joined"} => active = sockets[s].battle
    BY <1>1, <1>2 DEF OneAtATime
  <1> QED BY <1>2, <1>3, <1>4, <1>5, <1>6, <1>7

\* The open socket goes on with its start: it keeps its run, and the feed
\* shows its battle at most.
LEMMA OpenGoesOn ==
  ASSUME ArenaInv, NEW s \in 1 .. Len(sockets), NEW c,
         c.run = sockets[s].run, c.state = "connected",
         s = current, sockets[s].run = run, ui = "running", importing = {}, ~mock,
         \A x \in 1 .. Len(sockets) : x # s =>
               /\ sockets[x].state = "gone" /\ sockets[x].post \notin {"sent", "answered", "joining"}
               /\ Serving(sockets[x].battle) => sockets[x].battle \in stops,
         Len(sockets') = Len(sockets), sockets'[s] = c,
         \A x \in 1 .. Len(sockets) : x # s => sockets'[x] = sockets[x],
         UNCHANGED <<ui, run, importing, current, mock, stops>>,
         \A b \in 0 .. Len(battles) : Serving(b)' => Serving(b),
         c.post \in {"joining", "joined"} => active' = c.battle,
         IF c.post = "joined" THEN \A i \in 1 .. Len(feed') : feed'[i] = c.battle ELSE feed' = <<>>
  PROVE  OneAtATime' /\ FeedIsOfOne'
  <1>1. OneAtATime'
    <2>1. ASSUME NEW x \in 1 .. Len(sockets), x # s
          PROVE  (/\ sockets[x].state = "gone" /\ sockets[x].post \notin {"sent", "answered", "joining"}
                  /\ Serving(sockets[x].battle) => sockets[x].battle \in stops)'
      <3>1. sockets'[x] = sockets[x] /\ sockets[x].battle \in 0 .. Len(battles)
        <4>1. sockets[x] \in SocketRecords /\ sockets[x].battle <= Len(battles) /\ Len(battles) \in Nat
          BY ArenaFacts DEF ArenaInv, ArenaShape
        <4>2. sockets[x].battle \in Nat
          BY <4>1 DEF SocketRecords
        <4> QED BY <2>1, <4>1, <4>2
      <3>2. Serving(sockets[x].battle) => sockets[x].battle \in stops
        BY <2>1
      <3>3. (Serving(sockets[x].battle))' => Serving(sockets[x].battle)
        BY <3>1 DEF Serving, Known
      <3> QED BY <2>1, <3>1, <3>2, <3>3
    <2> QED BY <2>1 DEF OneAtATime
  <1>2. FeedIsOfOne'
    <2>1. \A i \in 1 .. Len(feed') : feed'[i] = c.battle
      OBVIOUS
    <2>2. \A x \in 1 .. Len(sockets') : sockets'[x].state # "gone" => sockets'[x] = c
      OBVIOUS
    <2>3. importing' = {} /\ ~mock' /\ s \in 1 .. Len(sockets') /\ sockets'[s].run = run'
      OBVIOUS
    <2>4. IF c.post = "joined" THEN \A i \in 1 .. Len(feed') : feed'[i] = c.battle ELSE feed' = <<>>
      OBVIOUS
    <2>5. (/\ \A i, j \in 1 .. Len(feed) : feed[i] = feed[j]
           /\ \A i \in 1 .. Len(feed) : feed[i] # Mocked =>
                 \E x \in 1 .. Len(sockets) : sockets[x].battle = feed[i] /\ sockets[x].run = run)'
      BY <2>1, <2>3
    <2> QED BY <2>2, <2>3, <2>4, <2>5 DEF FeedIsOfOne
  <1> QED BY <1>1, <1>2

LEMMA ConnectedStep ==
  ASSUME ArenaInv, NEW s \in 1 .. Len(sockets), Connected(s)
  PROVE  ArenaInv'
  <1> DEFINE c == [sockets[s] EXCEPT !.state = "connected", !.post = "sent"]
  <1>1. /\ UNCHANGED <<battles, forgotten, ui, run, importing, current, active, mock, feed, stops, excused>>
        /\ UNCHANGED testerVars /\ Socket(s, c) /\ sockets[s].state = "connecting"
    BY DEF Connected, testerVars
  <1>2. sockets[s] \in SocketRecords /\ sockets[s].post = "none" /\ sockets[s].battle = 0
    BY <1>1, ArenaFacts DEF SocketOK
  <1>3. /\ c \in SocketRecords /\ c.state = "connected" /\ c.post = "sent" /\ c.battle = 0
        /\ c.run = sockets[s].run
    BY <1>2 DEF SocketRecords
  <1> HIDE DEF c
  <1>4. SocketOK(c) /\ c.battle <= Len(battles')
    BY <1>1, <1>3, ArenaFacts DEF SocketOK
  <1>5. /\ ArenaShape' /\ Len(sockets') = Len(sockets) /\ sockets'[s] = c
        /\ \A x \in 1 .. Len(sockets) : x # s => sockets'[x] = sockets[x]
    <2>1. /\ feed' \in Seq(Nat) /\ Len(feed') <= MaxFeed /\ current' \in {0, current}
          /\ mock' \in BOOLEAN /\ excused' \in BOOLEAN /\ Len(battles') = Len(battles) /\ Len(battles) \in Nat
          /\ UNCHANGED <<run, importing, ui>>
      BY <1>1, ArenaFacts DEF ArenaInv, ArenaShape
    <2> QED BY <1>1, <1>3, <1>4, <2>1, SocketShape
  <1>6. ASSUME ~excused PROVE OneAtATime' /\ FeedIsOfOne'
    <2>1. /\ s = current /\ sockets[s].run = run /\ ui = "running" /\ importing = {} /\ ~mock /\ feed = <<>>
          /\ \A x \in 1 .. Len(sockets) : x # s =>
                /\ sockets[x].state = "gone" /\ sockets[x].post \notin {"sent", "answered", "joining"}
                /\ Serving(sockets[x].battle) => sockets[x].battle \in stops
      BY <1>1, <1>2, <1>6, OpenIsAlone
    <2>2. \A b \in 0 .. Len(battles) : Serving(b)' => Serving(b)
      BY <1>1 DEF Serving, Known
    <2> QED BY <1>1, <1>3, <1>5, <2>1, <2>2, OpenGoesOn
  <1> QED BY <1>1, <1>5, <1>6, PageStep

\* The connection is given up; its battle, if the server took one, goes on.
LEMMA FallBackShape ==
  ASSUME ArenaInv, NEW s \in 1 .. Len(sockets), FallBack(s), excused' \in BOOLEAN
  PROVE  /\ ArenaShape' /\ Len(sockets') = Len(sockets)
         /\ sockets'[s].state = "gone" /\ sockets'[s].post = "none"
         /\ sockets'[s].battle = sockets[s].battle
         /\ \A x \in 1 .. Len(sockets) : x # s => sockets'[x] = sockets[x]
  <1> DEFINE c == [sockets[s] EXCEPT !.state = "gone", !.post = "none"]
  <1>1. /\ UNCHANGED <<battles, ui, run, importing, feed>> /\ current' = 0 /\ mock' = TRUE
        /\ Socket(s, c)
    BY DEF FallBack, testerVars
  <1>2. sockets[s] \in SocketRecords /\ sockets[s].battle <= Len(battles)
    BY ArenaFacts DEF ArenaInv, ArenaShape
  <1>3. c \in SocketRecords /\ c.state = "gone" /\ c.post = "none" /\ c.battle = sockets[s].battle
    BY <1>2 DEF SocketRecords
  <1> HIDE DEF c
  <1>4. SocketOK(c) /\ c.battle <= Len(battles')
    BY <1>1, <1>2, <1>3 DEF SocketOK
  <1>5. /\ ArenaShape' /\ Len(sockets') = Len(sockets) /\ sockets'[s] = c
        /\ \A x \in 1 .. Len(sockets) : x # s => sockets'[x] = sockets[x]
    <2>1. /\ feed' \in Seq(Nat) /\ Len(feed') <= MaxFeed /\ current' \in {0, current}
          /\ mock' \in BOOLEAN /\ Len(battles') = Len(battles) /\ Len(battles) \in Nat
          /\ UNCHANGED <<run, importing, ui>>
      BY <1>1, ArenaFacts DEF ArenaInv, ArenaShape
    <2> QED BY <1>1, <1>3, <1>4, <2>1, SocketShape
  <1> QED BY <1>3, <1>5

LEMMA ConnectFailsStep ==
  ASSUME ArenaInv, NEW s \in 1 .. Len(sockets), ConnectFails(s)
  PROVE  ArenaInv'
  <1>1. /\ UNCHANGED <<battles, forgotten, ui, run, importing, active, feed, stops, excused>>
        /\ UNCHANGED testerVars /\ FallBack(s) /\ sockets[s].state = "connecting"
        /\ current' = 0 /\ mock' = TRUE
    BY DEF ConnectFails, FallBack, testerVars
  <1>2. sockets[s].battle = 0
    BY <1>1, ArenaFacts DEF SocketOK
  <1>3. /\ ArenaShape' /\ Len(sockets') = Len(sockets)
        /\ sockets'[s].state = "gone" /\ sockets'[s].post = "none" /\ sockets'[s].battle = 0
        /\ \A x \in 1 .. Len(sockets) : x # s => sockets'[x] = sockets[x]
    BY <1>1, <1>2, FallBackShape DEF ArenaInv, ArenaShape
  <1>4. ASSUME ~excused PROVE OneAtATime' /\ FeedIsOfOne'
    <2>1. /\ ui = "running" /\ importing = {} /\ feed = <<>>
          /\ \A x \in 1 .. Len(sockets) : x # s =>
                /\ sockets[x].state = "gone" /\ sockets[x].post \notin {"sent", "answered", "joining"}
                /\ Serving(sockets[x].battle) => sockets[x].battle \in stops
      <3>1. sockets[s].post # "joined"
        BY <1>1, ArenaFacts DEF SocketOK
      <3> QED BY <1>1, <1>4, <3>1, OpenIsAlone
    <2>2. \A b : Serving(b)' <=> Serving(b)
      BY <1>1 DEF Serving, Known
    <2>3. ~Serving(0)
      BY ArenaFacts DEF Serving, Known
    <2>4. (\A x \in 1 .. Len(sockets) :
             /\ sockets[x].state = "gone" /\ sockets[x].post \notin {"sent", "answered", "joining"}
             /\ Serving(sockets[x].battle) => sockets[x].battle \in stops)'
      BY <1>1, <1>3, <2>1, <2>3 DEF Serving, Known
    <2>5. OneAtATime'
      BY <1>1, <2>1, <2>4 DEF OneAtATime
    <2>6. FeedIsOfOne'
      BY <1>1, <2>1, <2>4 DEF FeedIsOfOne
    <2> QED BY <2>5, <2>6
  <1> QED BY <1>1, <1>3, <1>4, PageStep

LEMMA PostFailsStep ==
  ASSUME ArenaInv, NEW s \in 1 .. Len(sockets), PostFails(s)
  PROVE  ArenaInv'
  <1>1. UNCHANGED testerVars /\ FallBack(s) /\ excused' = TRUE
    BY DEF PostFails, FallBack
  <1> QED BY <1>1, FallBackShape, PageStep

LEMMA PostAnsweredStep ==
  ASSUME ArenaInv, NEW s \in 1 .. Len(sockets), PostAnswered(s)
  PROVE  ArenaInv'
  <1> DEFINE p == IF sockets[s].state = "connected" /\ sockets[s].battle # 0 THEN "joining" ELSE "none"
             c == [sockets[s] EXCEPT !.post = p]
  <1>1. /\ UNCHANGED <<battles, forgotten, ui, run, importing, current, mock, feed, stops, excused>>
        /\ UNCHANGED testerVars /\ Socket(s, c) /\ sockets[s].post = "answered"
        /\ active' = sockets[s].battle
    BY DEF PostAnswered, testerVars
  <1>2. /\ sockets[s] \in SocketRecords /\ sockets[s].battle <= Len(battles)
        /\ sockets[s].state # "connecting"
    BY <1>1, ArenaFacts DEF ArenaInv, ArenaShape, SocketOK
  <1>3. /\ c \in SocketRecords /\ c.state = sockets[s].state /\ c.post = p
        /\ c.battle = sockets[s].battle /\ c.run = sockets[s].run
    BY <1>2 DEF SocketRecords
  <1>4. /\ p \in {"joining", "none"}
        /\ p = "joining" => sockets[s].battle # 0
        /\ p = "none" /\ sockets[s].state = "connected" => sockets[s].battle = 0
    OBVIOUS
  <1> HIDE DEF c, p
  <1>5. SocketOK(c) /\ c.battle <= Len(battles')
    BY <1>1, <1>2, <1>3, <1>4 DEF SocketOK
  <1>6. /\ ArenaShape' /\ Len(sockets') = Len(sockets) /\ sockets'[s] = c
        /\ \A x \in 1 .. Len(sockets) : x # s => sockets'[x] = sockets[x]
    <2>1. /\ feed' \in Seq(Nat) /\ Len(feed') <= MaxFeed /\ current' \in {0, current}
          /\ mock' \in BOOLEAN /\ excused' \in BOOLEAN /\ Len(battles') = Len(battles) /\ Len(battles) \in Nat
          /\ UNCHANGED <<run, importing, ui>>
      BY <1>1, ArenaFacts DEF ArenaInv, ArenaShape
    <2> QED BY <1>1, <1>3, <1>5, <2>1, SocketShape
  <1>7. ASSUME ~excused PROVE OneAtATime' /\ FeedIsOfOne'
    <2>1. /\ s = current /\ sockets[s].run = run /\ ui = "running" /\ importing = {} /\ ~mock /\ feed = <<>>
          /\ sockets[s].state # "gone"
          /\ \A x \in 1 .. Len(sockets) : x # s =>
                /\ sockets[x].state = "gone" /\ sockets[x].post \notin {"sent", "answered", "joining"}
                /\ Serving(sockets[x].battle) => sockets[x].battle \in stops
      BY <1>1, <1>7, OpenIsAlone
    <2>2. \A b \in 0 .. Len(battles) : Serving(b)' => Serving(b)
      BY <1>1 DEF Serving, Known
    <2>3. c.state = "connected"
      BY <1>2, <1>3, <2>1 DEF SocketRecords
    <2> QED BY <1>1, <1>3, <1>4, <1>6, <2>1, <2>2, <2>3, OpenGoesOn
  <1> QED BY <1>1, <1>6, <1>7, PageStep

LEMMA JoinStep ==
  ASSUME ArenaInv, NEW s \in 1 .. Len(sockets), JoinArrives(s)
  PROVE  ArenaInv'
  <1> DEFINE b == sockets[s].battle
             c == [sockets[s] EXCEPT !.post = "joined", !.seen = Len(emitted[b])]
  <1>1. /\ UNCHANGED <<battles, forgotten, ui, run, importing, current, active, mock, feed, stops, excused>>
        /\ UNCHANGED testerVars /\ Socket(s, c)
        /\ sockets[s].post = "joining" /\ sockets[s].state = "connected"
    BY DEF JoinArrives, testerVars
  <1>2. sockets[s] \in SocketRecords /\ b # 0 /\ b <= Len(battles) /\ b \in Nat
    BY <1>1, ArenaFacts DEF ArenaInv, ArenaShape, SocketOK, SocketRecords
  <1>3. Len(emitted[b]) \in Nat
    BY <1>2, ArenaFacts
  <1>4. /\ c \in SocketRecords /\ c.state = "connected" /\ c.post = "joined" /\ c.battle = b
        /\ c.run = sockets[s].run
    BY <1>1, <1>2, <1>3 DEF SocketRecords
  <1> HIDE DEF c
  <1>5. SocketOK(c) /\ c.battle <= Len(battles')
    BY <1>1, <1>2, <1>4 DEF SocketOK
  <1>6. /\ ArenaShape' /\ Len(sockets') = Len(sockets) /\ sockets'[s] = c
        /\ \A x \in 1 .. Len(sockets) : x # s => sockets'[x] = sockets[x]
    <2>1. /\ feed' \in Seq(Nat) /\ Len(feed') <= MaxFeed /\ current' = current
          /\ mock' \in BOOLEAN /\ excused' \in BOOLEAN /\ Len(battles') = Len(battles) /\ Len(battles) \in Nat
          /\ UNCHANGED <<run, importing, ui>>
      BY <1>1, ArenaFacts DEF ArenaInv, ArenaShape
    <2> QED BY <1>1, <1>4, <1>5, <2>1, SocketShape
  <1>7. ASSUME ~excused PROVE OneAtATime' /\ FeedIsOfOne'
    <2>1. /\ s = current /\ sockets[s].run = run /\ ui = "running" /\ importing = {} /\ ~mock /\ feed = <<>>
          /\ active = b
          /\ \A x \in 1 .. Len(sockets) : x # s =>
                /\ sockets[x].state = "gone" /\ sockets[x].post \notin {"sent", "answered", "joining"}
                /\ Serving(sockets[x].battle) => sockets[x].battle \in stops
      BY <1>1, <1>7, OpenIsAlone
    <2>2. \A y \in 0 .. Len(battles) : Serving(y)' => Serving(y)
      BY <1>1 DEF Serving, Known
    <2>3. active' = c.battle /\ \A i \in 1 .. Len(feed') : feed'[i] = c.battle
      BY <1>1, <1>4, <2>1
    <2> QED BY <1>1, <1>4, <1>6, <2>1, <2>2, <2>3, OpenGoesOn
  <1> QED BY <1>1, <1>6, <1>7, PageStep

\* The server takes the battle, or another one runs and it refuses.
LEMMA PostArrivesStep ==
  ASSUME ArenaInv, NEW s \in 1 .. Len(sockets), PostArrives(s)
  PROVE  ArenaInv'
  <1>1. /\ UNCHANGED <<ui, run, importing, current, active, mock, feed, stops, excused>>
        /\ UNCHANGED testerErrors /\ sockets[s].post = "sent"
    BY DEF PostArrives
  <1>2. sockets[s] \in SocketRecords /\ sockets[s].battle = 0 /\ sockets[s].state # "connecting"
    BY <1>1, ArenaFacts DEF SocketOK
  <1>3. /\ feed' \in Seq(Nat) /\ Len(feed') <= MaxFeed /\ current' = current
        /\ mock' \in BOOLEAN /\ excused' \in BOOLEAN /\ Len(battles) \in Nat
        /\ UNCHANGED <<run, importing, ui>>
    BY <1>1, ArenaFacts DEF ArenaInv, ArenaShape
  <1>4. ASSUME ~excused
        PROVE  /\ s = current /\ sockets[s].run = run /\ ui = "running" /\ importing = {} /\ ~mock
               /\ feed = <<>> /\ sockets[s].state = "connected"
               /\ \A x \in 1 .. Len(sockets) : x # s =>
                     /\ sockets[x].state = "gone" /\ sockets[x].post \notin {"sent", "answered", "joining"}
                     /\ Serving(sockets[x].battle) => sockets[x].battle \in stops
    <2>1. sockets[s].state # "gone"
      BY <1>1, <1>4, OpenIsAlone
    <2>2. sockets[s].state = "connected"
      BY <1>2, <2>1 DEF SocketRecords
    <2> QED BY <1>1, <1>4, <2>2, OpenIsAlone
  <1>5. CASE Busy /\ Socket(s, [sockets[s] EXCEPT !.post = "answered"])
             /\ UNCHANGED <<battles, forgotten, emitted, stoppedAt>>
    <2> DEFINE c == [sockets[s] EXCEPT !.post = "answered"]
    <2>1. Socket(s, c) /\ UNCHANGED <<battles, forgotten>> /\ UNCHANGED testerVars
      BY <1>1, <1>5 DEF testerVars
    <2>2. /\ c \in SocketRecords /\ c.state = sockets[s].state /\ c.post = "answered" /\ c.battle = 0
          /\ c.run = sockets[s].run
      BY <1>2 DEF SocketRecords
    <2> HIDE DEF c
    <2>3. SocketOK(c) /\ c.battle <= Len(battles') /\ Len(battles') = Len(battles)
      BY <1>2, <1>3, <2>1, <2>2 DEF SocketOK
    <2>4. /\ ArenaShape' /\ Len(sockets') = Len(sockets) /\ sockets'[s] = c
          /\ \A x \in 1 .. Len(sockets) : x # s => sockets'[x] = sockets[x]
      BY <1>3, <2>1, <2>2, <2>3, SocketShape
    <2>5. ASSUME ~excused PROVE OneAtATime' /\ FeedIsOfOne'
      <3>1. \A b \in 0 .. Len(battles) : Serving(b)' => Serving(b)
        BY <2>1 DEF Serving, Known
      <3> QED BY <1>1, <1>4, <2>2, <2>4, <2>5, <3>1, OpenGoesOn
    <2> QED BY <1>1, <2>1, <2>4, <2>5, PageStep
  <1>6. CASE AcceptBattle /\ Socket(s, [sockets[s] EXCEPT !.post = "answered", !.battle = Len(battles) + 1])
    <2> DEFINE n == Len(battles)
               c == [sockets[s] EXCEPT !.post = "answered", !.battle = n + 1]
    <2>1. /\ Socket(s, c) /\ TesterInv'
      BY <1>6, AcceptBattleStep DEF ArenaInv
    <2>2. /\ battles' = Append(battles, NewBattle) /\ emitted' = Append(emitted, <<>>)
          /\ forgotten' \in {forgotten, forgotten + 1}
      BY <1>6 DEF AcceptBattle
    <2>3. /\ c \in SocketRecords /\ c.state = sockets[s].state /\ c.post = "answered" /\ c.battle = n + 1
          /\ c.run = sockets[s].run
      <3>1. n + 1 \in Nat
        BY <1>3
      <3> HIDE DEF n
      <3> QED BY <1>2, <3>1 DEF SocketRecords
    <2> HIDE DEF c
    <2>4. Len(battles') = n + 1 /\ \A b \in 1 .. n : battles'[b] = battles[b]
      <3> DEFINE fresh == NewBattle
      <3>1. battles = [b \in 1 .. Len(battles) |-> battles[b]] /\ Len(battles) \in Nat
        BY DEF ArenaInv, TesterInv, TesterShape
      <3>2. battles' = Append(battles, fresh)
        BY <2>2
      <3> HIDE DEF fresh
      <3>3. /\ Len(Append(battles, fresh)) = Len(battles) + 1
            /\ \A i \in 1 .. Len(battles) : Append(battles, fresh)[i] = battles[i]
        BY <3>1, AppendedBattle
      <3> QED BY <3>2, <3>3
    <2>5. Len(emitted') = n + 1 /\ emitted'[n + 1] = <<>> /\ \A b \in 1 .. n : emitted'[b] = emitted[b]
      BY <2>2, ArenaFacts
    <2>6. \A b \in 1 .. n + 1 : b = n + 1 \/ b \in 1 .. n
      BY <1>3
    <2> HIDE DEF n
    <2>7. ReportedIsOver'
      <3>1. ASSUME NEW b \in 1 .. n, NEW i \in 1 .. Len(emitted'[b]), emitted'[b][i] = "complete"
            PROVE  battles'[b].status # "running"
        BY <2>4, <2>5, <3>1 DEF ArenaInv, ReportedIsOver, n
      <3>2. 1 .. Len(emitted'[n + 1]) = {}
        BY <2>5
      <3> QED BY <2>4, <2>6, <3>1, <3>2 DEF ReportedIsOver
    <2>8. SocketOK(c) /\ c.battle <= Len(battles') /\ Len(battles') \in Nat /\ Len(battles) <= Len(battles')
      BY <1>2, <1>3, <2>3, <2>4 DEF SocketOK, n
    <2>9. /\ ArenaShape' /\ Len(sockets') = Len(sockets) /\ sockets'[s] = c
          /\ \A x \in 1 .. Len(sockets) : x # s => sockets'[x] = sockets[x]
      BY <1>3, <2>1, <2>3, <2>8, SocketShape
    <2>10. ASSUME ~excused PROVE OneAtATime' /\ FeedIsOfOne'
      <3>1. \A b \in 0 .. Len(battles) : Serving(b)' => Serving(b)
        <4> SUFFICES ASSUME NEW b \in 0 .. n, (Serving(b))' PROVE Serving(b)
          BY DEF n
        <4>1. b \in 1 .. n /\ battles'[b] = battles[b] /\ DOMAIN battles = 1 .. n
          <5>1. (DOMAIN battles = 1 .. Len(battles))'
            BY <2>1 DEF TesterInv, TesterShape
          <5>2. b # 0
            BY <1>3, <2>4, <5>1 DEF Serving, Known, n
          <5> QED BY <1>3, <2>4, <5>2, ArenaFacts DEF n
        <4>2. forgotten \in Nat
          BY DEF ArenaInv
        <4> QED BY <2>2, <4>1, <4>2 DEF Serving, Known
      <3> QED BY <1>1, <1>4, <2>3, <2>9, <2>10, <3>1, OpenGoesOn
    <2>11. forgotten' \in Nat
      BY <2>2 DEF ArenaInv
    <2> QED BY <1>1, <2>1, <2>7, <2>9, <2>10, <2>11 DEF ArenaInv
  <1> QED BY <1>5, <1>6 DEF PostArrives

\* A message of the joined room.
LEMMA ReceiveResultStep ==
  ASSUME ArenaInv, NEW s \in 1 .. Len(sockets), ReceiveResult(s)
  PROVE  ArenaInv'
  <1> DEFINE b == sockets[s].battle
             c == Seen(s)
  <1>1. /\ UNCHANGED <<battles, forgotten, ui, run, importing, current, active, mock, stops, excused>>
        /\ UNCHANGED testerVars /\ Socket(s, c)
        /\ sockets[s].post = "joined" /\ sockets[s].state = "connected"
        /\ AddResult(b) \/ UNCHANGED feed
    BY DEF ReceiveResult, Pending, testerVars
  <1>2. sockets[s] \in SocketRecords /\ b # 0 /\ b <= Len(battles) /\ b \in Nat
    BY <1>1, ArenaFacts DEF ArenaInv, ArenaShape, SocketOK, SocketRecords
  <1>3. /\ c \in SocketRecords /\ c.state = "connected" /\ c.post = "joined" /\ c.battle = b
        /\ c.run = sockets[s].run
    BY <1>1, <1>2 DEF SocketRecords, Seen
  <1> HIDE DEF c
  <1>4. SocketOK(c) /\ c.battle <= Len(battles')
    BY <1>1, <1>2, <1>3 DEF SocketOK
  <1>5. /\ feed' \in Seq(Nat) /\ Len(feed') <= MaxFeed
        /\ \A i \in 1 .. Len(feed') : feed'[i] = b \/ \E j \in 1 .. Len(feed) : feed'[i] = feed[j]
    <2>1. feed \in Seq(Nat) /\ Len(feed) <= MaxFeed
      BY DEF ArenaInv, ArenaShape
    <2>2. CASE AddResult(b)
      BY <1>2, <2>1, <2>2, FeedGrows
    <2>3. CASE UNCHANGED feed
      BY <2>1, <2>3
    <2> QED BY <1>1, <2>2, <2>3
  <1>6. /\ ArenaShape' /\ Len(sockets') = Len(sockets) /\ sockets'[s] = c
        /\ \A x \in 1 .. Len(sockets) : x # s => sockets'[x] = sockets[x]
    <2>1. /\ current' = current /\ mock' \in BOOLEAN /\ excused' \in BOOLEAN
          /\ Len(battles') = Len(battles) /\ Len(battles) \in Nat /\ UNCHANGED <<run, importing, ui>>
      BY <1>1, ArenaFacts DEF ArenaInv, ArenaShape
    <2> QED BY <1>1, <1>3, <1>4, <1>5, <2>1, SocketShape
  <1>7. ASSUME ~excused PROVE OneAtATime' /\ FeedIsOfOne'
    <2>1. /\ s = current /\ sockets[s].run = run /\ ui = "running" /\ importing = {} /\ ~mock
          /\ active = b /\ \A i \in 1 .. Len(feed) : feed[i] = b
          /\ \A x \in 1 .. Len(sockets) : x # s =>
                /\ sockets[x].state = "gone" /\ sockets[x].post \notin {"sent", "answered", "joining"}
                /\ Serving(sockets[x].battle) => sockets[x].battle \in stops
      BY <1>1, <1>7, OpenIsAlone
    <2>2. \A y \in 0 .. Len(battles) : Serving(y)' => Serving(y)
      BY <1>1 DEF Serving, Known
    <2>3. active' = c.battle /\ \A i \in 1 .. Len(feed') : feed'[i] = c.battle
      BY <1>1, <1>3, <1>5, <2>1
    <2> QED BY <1>1, <1>3, <1>6, <2>1, <2>2, <2>3, OpenGoesOn
  <1> QED BY <1>1, <1>6, <1>7, PageStep

\* Sockets that are closed or have read on keep all else.
LEMMA SocketsClosed ==
  ASSUME ArenaInv, DOMAIN sockets' = DOMAIN sockets,
         sockets' = [x \in DOMAIN sockets |-> sockets'[x]],
         \A x \in 1 .. Len(sockets) :
            \/ sockets'[x] = sockets[x]
            \/ sockets'[x] = [sockets[x] EXCEPT !.state = "gone"]
            \/ sockets'[x] = Seen(x),
         current' = 0, mock' = FALSE, ui' \in {"idle", "running", "completed"}, excused' \in BOOLEAN,
         UNCHANGED <<battles, run, importing, feed>>
  PROVE  /\ ArenaShape' /\ Len(sockets') = Len(sockets)
         /\ \A x \in 1 .. Len(sockets) :
               /\ sockets'[x].run = sockets[x].run /\ sockets'[x].battle = sockets[x].battle
               /\ sockets'[x].post = sockets[x].post /\ sockets'[x].state \in {sockets[x].state, "gone"}
  <1> DEFINE n == Len(sockets)
  <1>1. n \in Nat /\ DOMAIN sockets = 1 .. n /\ \A x \in 1 .. n : sockets[x] \in SocketRecords
    BY ArenaFacts
  <1>2. ASSUME NEW x \in 1 .. n
        PROVE  /\ sockets'[x] \in SocketRecords
               /\ sockets'[x].run = sockets[x].run /\ sockets'[x].battle = sockets[x].battle
               /\ sockets'[x].post = sockets[x].post /\ sockets'[x].state \in {sockets[x].state, "gone"}
    <2>1. sockets[x] \in SocketRecords
      BY <1>1
    <2>2. CASE sockets'[x] = sockets[x]
      BY <2>1, <2>2
    <2>3. CASE sockets'[x] = [sockets[x] EXCEPT !.state = "gone"]
      BY <2>1, <2>3 DEF SocketRecords
    <2>4. CASE sockets'[x] = Seen(x)
      BY <2>1, <2>4 DEF SocketRecords, Seen
    <2> QED BY <2>2, <2>3, <2>4
  <1>3. sockets' \in Seq(SocketRecords) /\ Len(sockets') = n
    <2>1. sockets' \in [1 .. n -> SocketRecords]
      BY <1>1, <1>2
    <2> QED BY <1>1, <2>1
  <1>4. ASSUME NEW x \in 1 .. n PROVE (SocketOK(sockets[x]) /\ sockets[x].battle <= Len(battles))'
    <2>1. SocketOK(sockets[x]) /\ sockets[x].battle <= Len(battles)
      BY DEF ArenaInv, ArenaShape
    <2>2. SocketOK(sockets'[x])
      BY <1>2, <2>1 DEF SocketOK
    <2> QED BY <1>2, <2>1, <2>2
  <1> HIDE DEF n
  <1>5. (\A x \in 1 .. Len(sockets) : SocketOK(sockets[x]) /\ sockets[x].battle <= Len(battles))'
    BY <1>3, <1>4
  <1>6. ArenaShape'
    <2>1. /\ feed' \in Seq(Nat) /\ Len(feed') <= MaxFeed /\ run' \in Nat /\ importing' \subseteq Nat
          /\ ui' \in {"idle", "running", "completed"} /\ mock' \in BOOLEAN /\ excused' \in BOOLEAN
      BY DEF ArenaInv, ArenaShape
    <2>2. current' \in 0 .. Len(sockets')
      BY <1>1, <1>3
    <2> QED BY <1>3, <1>5, <2>1, <2>2 DEF ArenaShape
  <1> QED BY <1>2, <1>3, <1>6 DEF n

LEMMA ReceiveCompleteStep ==
  ASSUME ArenaInv, NEW s \in 1 .. Len(sockets), ReceiveComplete(s)
  PROVE  ArenaInv'
  <1> DEFINE b == sockets[s].battle
  <1>1. /\ UNCHANGED <<battles, forgotten, run, importing, feed, stops, excused>> /\ UNCHANGED testerVars
        /\ current' = 0 /\ mock' = FALSE /\ ui' = "completed"
        /\ sockets[s].post = "joined" /\ sockets[s].state = "connected"
        /\ sockets[s].seen < Len(emitted[b]) /\ emitted[b][sockets[s].seen + 1] = "complete"
        /\ sockets' = [x \in DOMAIN sockets |->
              IF x = current THEN [sockets[x] EXCEPT !.state = "gone"]
              ELSE IF x = s THEN Seen(s) ELSE sockets[x]]
    BY DEF ReceiveComplete, Pending, Incoming, testerVars
  <1>2. sockets[s] \in SocketRecords /\ b # 0 /\ b <= Len(battles) /\ b \in Nat /\ sockets[s].seen \in Nat
    BY <1>1, ArenaFacts DEF ArenaInv, ArenaShape, SocketOK, SocketRecords
  <1>3. ~Serving(b)
    <2>1. b \in 1 .. Len(battles) /\ sockets[s].seen + 1 \in 1 .. Len(emitted[b])
      BY <1>1, <1>2, ArenaFacts
    <2> QED BY <1>1, <2>1 DEF ArenaInv, ReportedIsOver, Serving
  <1>4. /\ DOMAIN sockets = 1 .. Len(sockets) /\ DOMAIN sockets' = DOMAIN sockets
        /\ sockets' = [x \in DOMAIN sockets |-> sockets'[x]]
        /\ \A x \in 1 .. Len(sockets) :
            \/ sockets'[x] = sockets[x]
            \/ sockets'[x] = [sockets[x] EXCEPT !.state = "gone"]
            \/ sockets'[x] = Seen(x)
    BY <1>1, ArenaFacts
  <1>5. /\ ArenaShape' /\ Len(sockets') = Len(sockets)
        /\ \A x \in 1 .. Len(sockets) :
               /\ sockets'[x].run = sockets[x].run /\ sockets'[x].battle = sockets[x].battle
               /\ sockets'[x].post = sockets[x].post /\ sockets'[x].state \in {sockets[x].state, "gone"}
    BY <1>1, <1>4, SocketsClosed DEF ArenaInv, ArenaShape
  <1>6. ASSUME ~excused PROVE OneAtATime' /\ FeedIsOfOne'
    <2>1. /\ s = current /\ importing = {}
          /\ \A x \in 1 .. Len(sockets) : x # s =>
                /\ sockets[x].state = "gone" /\ sockets[x].post \notin {"sent", "answered", "joining"}
                /\ Serving(sockets[x].battle) => sockets[x].battle \in stops
      BY <1>1, <1>6, OpenIsAlone
    <2>2. sockets'[s].state = "gone"
      BY <1>1, <1>2, <1>4, <2>1 DEF SocketRecords
    <2>3. ASSUME NEW x \in 1 .. Len(sockets)
          PROVE  (/\ sockets[x].state = "gone" /\ sockets[x].post \notin {"sent", "answered", "joining"}
                  /\ Serving(sockets[x].battle) => sockets[x].battle \in stops)'
      <3>1. sockets'[x].state = "gone" /\ sockets'[x].post \notin {"sent", "answered", "joining"}
        BY <1>1, <1>5, <2>1, <2>2
      <3>2. Serving(sockets[x].battle) => sockets[x].battle \in stops
        BY <1>3, <2>1
      <3>3. (Serving(sockets[x].battle))' => Serving(sockets[x].battle)
        BY <1>1, <1>5 DEF Serving, Known
      <3> QED BY <1>1, <1>5, <3>1, <3>2, <3>3
    <2>4. OneAtATime'
      BY <1>1, <1>5, <2>1, <2>3 DEF OneAtATime
    <2>5. FeedIsOfOne'
      BY <1>1, <1>5, <1>6, <2>1, <2>3 DEF FeedIsOfOne, ArenaInv
    <2> QED BY <2>4, <2>5
  <1> QED BY <1>1, <1>5, <1>6, PageStep

\* The interval invents results, or sees that the battle ended.
LEMMA MockTickStep ==
  ASSUME ArenaInv, MockTick
  PROVE  ArenaInv'
  <1>1. /\ UNCHANGED <<battles, forgotten, ui, run, importing, sockets, current, active, stops, excused>>
        /\ UNCHANGED testerVars /\ mock
        /\ IF ui = "running" THEN AddResult(Mocked) /\ UNCHANGED mock ELSE mock' = FALSE /\ UNCHANGED feed
    BY DEF MockTick, testerVars
  <1>2. /\ feed' \in Seq(Nat) /\ Len(feed') <= MaxFeed
        /\ \A i \in 1 .. Len(feed') : feed'[i] = Mocked \/ \E j \in 1 .. Len(feed) : feed'[i] = feed[j]
    <2>1. feed \in Seq(Nat) /\ Len(feed) <= MaxFeed /\ Mocked \in Nat
      BY DEF ArenaInv, ArenaShape, Mocked
    <2>2. CASE AddResult(Mocked)
      BY <2>1, <2>2, FeedGrows
    <2>3. CASE UNCHANGED feed
      BY <2>1, <2>3
    <2> QED BY <1>1, <2>2, <2>3
  <1>3. ArenaShape'
    BY <1>1, <1>2 DEF ArenaInv, ArenaShape
  <1>4. ASSUME ~excused PROVE OneAtATime' /\ FeedIsOfOne'
    <2>1. /\ importing = {} /\ ui = "running" /\ \A s \in 1 .. Len(sockets) : sockets[s].state = "gone"
          /\ OneAtATime /\ \A i \in 1 .. Len(feed) : feed[i] = Mocked
      BY <1>1, <1>4 DEF ArenaInv, OneAtATime, FeedIsOfOne
    <2>2. OneAtATime'
      BY <1>1, <2>1 DEF OneAtATime, Serving, Known
    <2>3. \A i \in 1 .. Len(feed') : feed'[i] = Mocked
      BY <1>2, <2>1
    <2>4. FeedIsOfOne'
      BY <1>1, <2>1, <2>3 DEF FeedIsOfOne
    <2> QED BY <2>2, <2>4
  <1> QED BY <1>1, <1>3, <1>4, PageStep

\* A stop of a battle that was joined is sent; a start that is under way is
\* excused.
LEMMA StopBattleStep ==
  ASSUME ArenaInv, StopBattle
  PROVE  ArenaInv'
  <1>1. /\ UNCHANGED <<battles, forgotten, run, importing, feed>> /\ UNCHANGED testerVars
        /\ current' = 0 /\ mock' = FALSE /\ ui' = "completed" /\ excused' = (excused \/ Underway)
        /\ stops' = IF current # 0 /\ active # 0 THEN stops \union {active} ELSE stops
        /\ sockets' = [x \in DOMAIN sockets |->
              IF x = current THEN [sockets[x] EXCEPT !.state = "gone"] ELSE sockets[x]]
    BY DEF StopBattle, CloseSocket, testerVars
  <1>2. /\ DOMAIN sockets = 1 .. Len(sockets) /\ DOMAIN sockets' = DOMAIN sockets
        /\ sockets' = [x \in DOMAIN sockets |-> sockets'[x]]
        /\ \A x \in 1 .. Len(sockets) :
            \/ sockets'[x] = sockets[x]
            \/ sockets'[x] = [sockets[x] EXCEPT !.state = "gone"]
            \/ sockets'[x] = Seen(x)
    BY <1>1, ArenaFacts
  <1>3. excused' \in BOOLEAN
    BY <1>1 DEF ArenaInv, ArenaShape
  <1>4. /\ ArenaShape' /\ Len(sockets') = Len(sockets)
        /\ \A x \in 1 .. Len(sockets) :
               /\ sockets'[x].run = sockets[x].run /\ sockets'[x].battle = sockets[x].battle
               /\ sockets'[x].post = sockets[x].post /\ sockets'[x].state \in {sockets[x].state, "gone"}
    BY <1>1, <1>2, <1>3, SocketsClosed
  <1>5. ASSUME ~excused' PROVE OneAtATime' /\ FeedIsOfOne'
    <2>1. /\ ~excused /\ OneAtATime /\ FeedIsOfOne /\ importing = {}
          /\ \A x \in 1 .. Len(sockets) :
                sockets[x].state # "connecting" /\ sockets[x].post \notin {"sent", "answered", "joining"}
      BY <1>1, <1>2, <1>5 DEF ArenaInv, Underway
    <2>2. ASSUME NEW x \in 1 .. Len(sockets)
          PROVE  (/\ sockets[x].state = "gone" /\ sockets[x].post \notin {"sent", "answered", "joining"}
                  /\ Serving(sockets[x].battle) => sockets[x].battle \in stops)'
      <3>1. sockets[x] \in SocketRecords /\ SocketOK(sockets[x])
        BY ArenaFacts
      <3>2. sockets'[x].state = "gone"
        <4>1. CASE x = current
          BY <1>1, <1>2, <3>1, <4>1 DEF SocketRecords
        <4>2. CASE x # current
          BY <1>4, <2>1, <4>2 DEF OneAtATime
        <4> QED BY <4>1, <4>2
      <3>3. ASSUME Serving(sockets[x].battle) PROVE sockets[x].battle \in stops'
        <4>1. sockets[x].battle # 0
          BY <3>3, ArenaFacts DEF Serving, Known
        <4>2. CASE sockets[x].state = "gone"
          BY <1>1, <2>1, <3>3, <4>2 DEF OneAtATime
        <4>3. CASE sockets[x].state # "gone"
          <5>1. sockets[x].state = "connected" /\ sockets[x].post = "joined"
            BY <2>1, <3>1, <4>1, <4>3 DEF SocketRecords, SocketOK
          <5>2. x = current /\ active = sockets[x].battle
            BY <2>1, <4>3, <5>1 DEF OneAtATime
          <5> QED BY <1>1, <4>1, <5>2
        <4> QED BY <4>2, <4>3
      <3> QED BY <1>1, <1>4, <2>1, <3>2, <3>3 DEF Serving, Known
    <2>3. OneAtATime'
      BY <1>1, <1>4, <2>1, <2>2 DEF OneAtATime
    <2>4. FeedIsOfOne'
      BY <1>1, <1>4, <2>1, <2>2 DEF FeedIsOfOne
    <2> QED BY <2>3, <2>4
  <1> QED BY <1>1, <1>4, <1>5, PageStep

\* A step of the server alone: no battle of the page starts to run.
LEMMA ServerStep ==
  ASSUME ArenaInv, TesterInv', ReportedIsOver', Len(battles') = Len(battles),
         UNCHANGED <<ui, run, importing, sockets, current, active, mock, feed, excused>>,
         forgotten' = forgotten, stops' \subseteq stops,
         \A b \in 1 .. Len(battles) : battles'[b].status = "running" =>
            battles[b].status = "running" /\ (b \in stops => b \in stops' \/ b \notin Known)
  PROVE  ArenaInv'
  <1>1. ArenaShape'
    BY DEF ArenaInv, ArenaShape
  <1>2. (DOMAIN battles = 1 .. Len(battles))' /\ DOMAIN battles = 1 .. Len(battles)
    BY ArenaFacts DEF TesterInv, TesterShape
  <1>3. \A b : (Serving(b))' => Serving(b) /\ (b \in stops => b \in stops')
    BY <1>2 DEF Serving, Known
  <1>4. ASSUME ~excused PROVE OneAtATime' /\ FeedIsOfOne'
    <2>1. OneAtATime /\ FeedIsOfOne
      BY <1>4 DEF ArenaInv
    <2>2. ASSUME NEW s \in 1 .. Len(sockets)
          PROVE (Serving(sockets[s].battle) => sockets[s].battle \in stops \/ sockets[s].state # "gone")'
      BY <1>2, <2>1 DEF OneAtATime, Serving, Known
    <2>3. OneAtATime'
      BY <2>1, <2>2 DEF OneAtATime
    <2>4. FeedIsOfOne'
      BY <2>1 DEF FeedIsOfOne
    <2> QED BY <2>3, <2>4
  <1> QED BY <1>1, <1>4 DEF ArenaInv

LEMMA StopArrivesStep ==
  ASSUME ArenaInv, NEW b \in stops, StopArrives(b)
  PROVE  ArenaInv'
  <1>1. /\ UNCHANGED <<forgotten, emitted, testerErrors>> /\ stops' = stops \ {b}
        /\ UNCHANGED <<ui, run, importing, sockets, current, active, mock, feed, excused>>
        /\ IF b \in Known THEN AcceptStop(b) ELSE UNCHANGED <<battles, stoppedAt>>
    BY DEF StopArrives
  <1>2. CASE b \notin Known
    <2>1. UNCHANGED testerVars /\ UNCHANGED <<battles, emitted>>
      BY <1>1, <1>2 DEF testerVars
    <2>2. TesterInv' /\ ReportedIsOver'
      BY <2>1 DEF ArenaInv, testerVars, TesterInv, TesterShape, Over, LateIn, ReportedIsOver
    <2> QED BY <1>1, <1>2, <2>1, <2>2, ServerStep
  <1>3. CASE b \in Known
    <2>1. AcceptStop(b) /\ b \in DOMAIN battles /\ UNCHANGED emitted
      BY <1>1, <1>3 DEF Known
    <2>2. TesterInv'
      BY <2>1, AcceptStopStep DEF ArenaInv
    <2> DEFINE new == StopOf(b)
    <2>3. battles' = [battles EXCEPT ![b] = new]
      BY <2>1 DEF AcceptStop
    <2>4. DOMAIN new = BattleFields /\ new.status = "stopped"
      <3>1. DOMAIN battles[b] = BattleFields
        BY <2>1, ArenaFacts DEF ArenaInv, TesterInv, TesterShape
      <3> QED BY <3>1 DEF StopOf, BattleFields
    <2> HIDE DEF new
    <2>5. /\ Len(battles') = Len(battles) /\ battles'[b] = new
          /\ \A c \in 1 .. Len(battles) : c # b => battles'[c] = battles[c]
      BY <2>1, <2>3, <2>4, BattleReplaced DEF ArenaInv
    <2>6. ReportedIsOver'
      BY <2>1, <2>4, <2>5 DEF ArenaInv, ReportedIsOver
    <2>7. \A c \in 1 .. Len(battles) : battles'[c].status = "running" => c # b /\ battles[c].status = "running"
      BY <2>4, <2>5
    <2> QED BY <1>1, <2>2, <2>5, <2>6, <2>7, ServerStep
  <1> QED BY <1>2, <1>3

LEMMA StopFailsStep ==
  ASSUME ArenaInv, NEW b \in stops, StopFails(b)
  PROVE  ArenaInv'
  <1>1. /\ UNCHANGED testerVars /\ UNCHANGED battles /\ excused' = TRUE
        /\ UNCHANGED <<ui, run, importing, sockets, current, mock, feed>>
    BY DEF StopFails, testerVars
  <1>2. ArenaShape'
    BY <1>1 DEF ArenaInv, ArenaShape
  <1> QED BY <1>1, <1>2, PageStep

\* A battle reports when it completes, and never runs again.
LEMMA BattleStep ==
  ASSUME ArenaInv, NEW b \in DOMAIN battles, AgentStep(b), UNCHANGED clientVars
  PROVE  ArenaInv'
  <1>1. TesterInv'
    BY AgentStepKeeps DEF ArenaInv
  <1>2. b \in 1 .. Len(battles) /\ DOMAIN battles[b] = BattleFields
    BY DEF ArenaInv, TesterInv, TesterShape
  <1>3. PICK new : AgentEffect(b, new)
    BY <1>2, StepEffects
  <1>4. /\ Len(battles') = Len(battles) /\ battles'[b] = new
        /\ \A c \in 1 .. Len(battles) : c # b => battles'[c] = battles[c]
    BY <1>3, BattleReplaced DEF ArenaInv, AgentEffect
  <1>5. new.status \in {battles[b].status, "completed"}
    BY <1>3 DEF AgentEffect
  <1>6. \A c \in 1 .. Len(battles) : battles'[c].status = "running" => battles[c].status = "running"
    BY <1>2, <1>4, <1>5
  <1>7. forgotten' = forgotten
    BY DEF AgentStep, NextEvent, SubmitAnswered, SubmitAccepted, SubmitFails, PollFinds,
           PollFindsNothing, PollGivesUp, ScenarioDone, ScenarioFails, Finish, Decided
  <1>8. ReportedIsOver'
    <2>1. ASSUME NEW c \in 1 .. Len(battles), NEW i \in 1 .. Len(emitted'[c]), emitted'[c][i] = "complete",
                 battles'[c].status = "running"
          PROVE  FALSE
      <3>1. battles[c].status = "running"
        BY <1>6, <2>1
      <3>2. emitted'[c] # emitted[c]
        BY <2>1, <3>1 DEF ArenaInv, ReportedIsOver
      <3>3. emitted \in Seq(Seq(Messages)) /\ Len(emitted) = Len(battles) /\ emitted[c] \in Seq(Messages)
        BY ArenaFacts
      <3>4. PICK kind \in {"result", "scenarioDone"} : emitted'[c] = Append(emitted[c], kind)
        <4>1. \E kind \in Messages : /\ emitted' = [emitted EXCEPT ![b] = Append(@, kind)]
                                     /\ kind = "complete" => new.status = "completed"
          BY <1>3, <3>2 DEF AgentEffect, Messages
        <4>2. PICK kind \in Messages : /\ emitted' = [emitted EXCEPT ![b] = Append(@, kind)]
                                       /\ kind = "complete" => new.status = "completed"
          BY <4>1
        <4>3. c = b /\ emitted'[c] = Append(emitted[c], kind)
          BY <1>2, <3>2, <3>3, <4>2
        <4>4. kind # "complete"
          BY <1>4, <2>1, <4>2, <4>3
        <4> QED BY <4>3, <4>4 DEF Messages
      <3>5. i \in 1 .. Len(emitted[c]) /\ emitted'[c][i] = emitted[c][i]
        BY <2>1, <3>3, <3>4
      <3> QED BY <2>1, <3>1, <3>5 DEF ArenaInv, ReportedIsOver
    <2> QED BY <1>4, <2>1 DEF ReportedIsOver
  <1> QED BY <1>1, <1>4, <1>6, <1>7, <1>8, ServerStep DEF clientVars

LEMMA ArenaInvariance == ArenaSpec => []ArenaInv
  <1>1. ArenaInit => ArenaInv
    <2> SUFFICES ASSUME ArenaInit PROVE ArenaInv
      OBVIOUS
    <2>1. TesterInv /\ forgotten \in Nat /\ ReportedIsOver
      BY DEF ArenaInit, TesterInit, TesterInv, TesterShape, ReportedIsOver
    <2>2. ArenaShape
      <3>1. <<>> \in Seq(SocketRecords) /\ <<>> \in Seq(Nat) /\ Len(<<>>) = 0 /\ 0 <= MaxFeed
        BY ArenaAssumption
      <3>2. /\ ui = "idle" /\ run = 0 /\ importing = {} /\ sockets = <<>> /\ current = 0
            /\ mock = FALSE /\ feed = <<>> /\ excused = FALSE
        BY DEF ArenaInit, ClientInit
      <3>3. current \in 0 .. Len(sockets) /\ 1 .. Len(sockets) = {}
        BY <3>1, <3>2
      <3>4. sockets \in Seq(SocketRecords) /\ feed \in Seq(Nat) /\ Len(feed) <= MaxFeed
        BY <3>1, <3>2
      <3> QED BY <3>2, <3>3, <3>4 DEF ArenaShape
    <2>3. OneAtATime /\ FeedIsOfOne
      BY DEF ArenaInit, ClientInit, OneAtATime, FeedIsOfOne
    <2> QED BY <2>1, <2>2, <2>3 DEF ArenaInv
  <1>2. ArenaInv /\ [ArenaNext]_arenaVars => ArenaInv'
    <2> SUFFICES ASSUME ArenaInv, [ArenaNext]_arenaVars PROVE ArenaInv'
      OBVIOUS
    <2>1. CASE UNCHANGED arenaVars
      <3>1. /\ UNCHANGED <<battles, forgotten, ui, run, importing, sockets, current, active, mock, feed>>
            /\ UNCHANGED <<stops, excused>> /\ UNCHANGED testerVars
        BY <2>1 DEF arenaVars, clientVars, testerVars
      <3>2. ArenaShape'
        BY <3>1 DEF ArenaInv, ArenaShape
      <3>3. ~excused' => OneAtATime' /\ FeedIsOfOne'
        BY <3>1 DEF ArenaInv, OneAtATime, FeedIsOfOne, Serving, Known
      <3> QED BY <3>1, <3>2, <3>3, PageStep
    <2>2. CASE ClientStep
      <3>1. ASSUME NEW r \in importing, ImportDone(r) \/ ImportFails(r) PROVE ArenaInv'
        BY <3>1, ImportStep
      <3>2. ASSUME NEW s \in DOMAIN sockets,
                   \/ Connected(s) \/ ConnectFails(s) \/ PostArrives(s) \/ PostFails(s) \/ PostAnswered(s)
                   \/ JoinArrives(s) \/ ReceiveResult(s) \/ ReceiveComplete(s)
            PROVE  ArenaInv'
        <4>1. s \in 1 .. Len(sockets)
          BY ArenaFacts
        <4> QED BY <3>2, <4>1, ConnectedStep, ConnectFailsStep, PostArrivesStep, PostFailsStep,
                   PostAnsweredStep, JoinStep, ReceiveResultStep, ReceiveCompleteStep
      <3>3. ASSUME NEW b \in stops, StopArrives(b) \/ StopFails(b) PROVE ArenaInv'
        BY <3>3, StopArrivesStep, StopFailsStep
      <3> QED BY <2>2, <3>1, <3>2, <3>3, StartBattleStep, StopBattleStep, MockTickStep DEF ClientStep
    <2>3. ASSUME NEW b \in DOMAIN battles, AgentStep(b), UNCHANGED clientVars PROVE ArenaInv'
      BY <2>3, BattleStep
    <2> QED BY <2>1, <2>2, <2>3 DEF ArenaNext
  <1> QED BY <1>1, <1>2, PTL DEF ArenaSpec

\* For any number of starts, stops, sockets and battles, as long as no start
\* was stopped before it joined and no request was lost, the page shows one
\* battle, the last start's, and what it no longer shows no longer runs.
THEOREM ThePageShowsItsBattle == ArenaSpec => []ArenaShowsItsBattle
  <1>1. ArenaInv => ArenaShowsItsBattle
    <2> SUFFICES ASSUME ArenaInv, ~excused
                 PROVE  /\ \A i, j \in DOMAIN feed : feed[i] = feed[j]
                        /\ \A i \in DOMAIN feed : feed[i] # Mocked =>
                              \E s \in DOMAIN sockets : sockets[s].battle = feed[i] /\ sockets[s].run = run
                        /\ (ui # "running" /\ stops = {} => \A s \in DOMAIN sockets : ~Serving(sockets[s].battle))
      BY DEF ArenaShowsItsBattle
    <2>1. OneAtATime /\ FeedIsOfOne /\ DOMAIN sockets = 1 .. Len(sockets)
      BY ArenaFacts DEF ArenaInv
    <2>2. DOMAIN feed = 1 .. Len(feed)
      BY DEF ArenaInv, ArenaShape
    <2>3. ASSUME ui # "running", stops = {}, NEW s \in 1 .. Len(sockets) PROVE ~Serving(sockets[s].battle)
      BY <2>1, <2>3 DEF OneAtATime
    <2> QED BY <2>1, <2>2, <2>3 DEF FeedIsOfOne
  <1> QED BY <1>1, ArenaInvariance, PTL

\* What a stopped battle sends does not depend on the page that follows it.
THEOREM ArenaStopsAreOver == ArenaSpec => []StoppedIsOver
  <1>1. ArenaInv => StoppedIsOver
    BY LateIsBounded DEF ArenaInv
  <1> QED BY <1>1, ArenaInvariance, PTL

-----------------------------------------------------------------------------
(* The views of the dashboard *)

FeedFields == {"arrived", "received", "shown", "queue", "paused", "online"}
StreamFields == {"arrived", "sockets", "status", "events"}
SearchFields == {"query", "timer", "sent", "aborted", "asked", "results", "searching", "failed", "stale"}
GraphFields == {"selected", "asked", "result", "late", "mode", "highlight"}
TargetFields == {"status", "testing", "active", "added"}
RuleFields == {"rows", "shown", "slider", "asked", "requests", "excused"}

\* What was received is in the queue while the feed is paused, else shown.
FeedInv ==
    /\ DOMAIN view = FeedFields
    /\ view.arrived \in Nat /\ view.received \in Seq(Nat) /\ view.queue \in Seq(Nat)
    /\ view.paused \in BOOLEAN /\ (~view.paused => view.queue = <<>>)
    /\ IsSuffix(view.queue, view.received)
    /\ view.shown = Cap(Reverse(SubSeq(view.received, 1, Len(view.received) - Len(view.queue))))

\* All sockets but the last are closed, so that a decision comes once.
StreamInv ==
    /\ DOMAIN view = StreamFields
    /\ view.arrived \in Nat /\ view.events \in Seq(Nat)
    /\ view.sockets \in Seq({"connecting", "connected", "retrying", "closed"}) /\ view.sockets # <<>>
    /\ \A s \in 1 .. Current : view.sockets[s] = "closed" <=> s # Current
    /\ view.status = "connected" <=> view.sockets[Current] = "connected"
    /\ \A i \in 1 .. Len(view.events) : view.events[i] <= view.arrived
    /\ \A i, j \in 1 .. Len(view.events) : i < j => view.events[i] > view.events[j]

\* The timer and the request are about what is in the box.
SearchInv ==
    /\ DOMAIN view = SearchFields /\ view.sent \subseteq Words
    /\ view.timer \in Words \union {None} /\ view.query \in Words \union {""}
    /\ ~view.stale =>
          /\ view.query = "" => view.timer = None /\ view.sent = {} /\ view.results = None
          /\ view.timer \in {None, view.query}
          /\ view.timer = None => view.sent \subseteq {view.query}
          /\ view.timer = None /\ view.sent = {} => view.failed \/ view.results \in {None, view.query}

GraphInv ==
    /\ DOMAIN view = GraphFields
    /\ ~view.late => view.result \in {None, view.selected} /\ view.asked \in {None, view.selected}
    /\ view.mode # "all" => view.highlight = view.mode

\* Numbers of targets are not used twice.
TargetInv ==
    /\ DOMAIN view = TargetFields
    /\ view.status = [t \in DOMAIN view.status |-> view.status[t]]
    /\ view.added \in Nat /\ DOMAIN view.status \subseteq 1 .. view.added
    /\ view.testing \subseteq 1 .. view.added
    /\ Default \in DOMAIN view.status /\ view.active \in DOMAIN view.status
    /\ \A t \in DOMAIN view.status : view.status[t] = "testing" <=> t \in view.testing

RequestFields == {"n", "kind", "rule", "weight", "stage", "rows"}

\* One request at a time: until the server acts the list is right but for a
\* fetch, and afterwards it is right once the answer is applied.
InStep(q) ==
    /\ q.kind \in {"fetch", "create", "update", "delete"}
    /\ q.stage \in {"sent", "answered", "refused"}
    /\ q.stage = "sent" /\ q.kind # "fetch" => view.shown = view.rows
    /\ q.stage = "refused" => q.kind # "fetch" /\ view.shown = view.rows
    /\ q.stage = "answered" => Applied(view.shown, q) = view.rows

RulesInv ==
    /\ DOMAIN view = RuleFields /\ view.asked \in Nat
    /\ view.rows = [r \in DOMAIN view.rows |-> view.rows[r]]
    /\ \A q \in view.requests : DOMAIN q = RequestFields
    /\ ~view.excused =>
          /\ \A p, q \in view.requests : p = q
          /\ view.requests = {} => view.shown = view.rows
          /\ \A q \in view.requests : InStep(q)

ViewsInv ==
    /\ tab = "feed"    => FeedInv
    /\ tab = "stream"  => StreamInv
    /\ tab = "search"  => SearchInv
    /\ tab = "graph"   => GraphInv
    /\ tab = "targets" => TargetInv
    /\ tab = "rules"   => RulesInv

\* The cut of two sequences one after the other.
LEMMA CapIs ==
  ASSUME NEW s \in Seq(Nat)
  PROVE  /\ Cap(s) \in Seq(Nat) /\ Len(Cap(s)) = IF Len(s) > MAX_EVENTS THEN MAX_EVENTS ELSE Len(s)
         /\ \A i \in 1 .. Len(Cap(s)) : i \in 1 .. Len(s) /\ Cap(s)[i] = s[i]
  <1> DEFINE n == IF Len(s) > MAX_EVENTS THEN MAX_EVENTS ELSE Len(s)
  <1>1. n \in Nat /\ n <= Len(s) /\ Cap(s) = SubSeq(s, 1, n)
    BY ViewsAssumption DEF Cap
  <1>2. \A i \in 1 .. n : i \in 1 .. Len(s)
    BY <1>1
  <1> HIDE DEF n
  <1>3. Cap(s) \in Seq(Nat) /\ Len(Cap(s)) = n /\ \A i \in 1 .. n : Cap(s)[i] = s[i]
    BY <1>1
  <1> QED BY <1>2, <1>3 DEF n

LEMMA SameSequence ==
  ASSUME NEW s \in Seq(Nat), NEW t \in Seq(Nat), Len(s) = Len(t), \A i \in 1 .. Len(s) : s[i] = t[i]
  PROVE  s = t
  OBVIOUS

LEMMA BothIs ==
  ASSUME NEW a \in Seq(Nat), NEW b \in Seq(Nat)
  PROVE  /\ a \o b \in Seq(Nat) /\ Len(a \o b) = Len(a) + Len(b) /\ Len(a) \in Nat /\ Len(b) \in Nat
         /\ \A i \in 1 .. Len(a \o b) : (a \o b)[i] = IF i <= Len(a) THEN a[i] ELSE b[i - Len(a)]
  OBVIOUS

LEMMA AppendAfter ==
  ASSUME NEW a \in Seq(Nat), NEW b \in Seq(Nat), NEW x \in Nat
  PROVE  Append(b, x) \in Seq(Nat) /\ Append(a \o b, x) = a \o Append(b, x)
  <1>1. /\ Append(b, x) \in Seq(Nat) /\ a \o b \in Seq(Nat)
        /\ Append(a \o b, x) \in Seq(Nat) /\ a \o Append(b, x) \in Seq(Nat)
    OBVIOUS
  <1>2. Len(Append(a \o b, x)) = Len(a \o Append(b, x))
    BY <1>1
  <1>3. \A i \in 1 .. Len(Append(a \o b, x)) : Append(a \o b, x)[i] = (a \o Append(b, x))[i]
    BY <1>1
  <1> QED BY <1>1, <1>2, <1>3, SameSequence

LEMMA OneMoreAfter ==
  ASSUME NEW a \in Seq(Nat), NEW x \in Nat
  PROVE  /\ <<x>> \in Seq(Nat) /\ <<>> \in Seq(Nat)
         /\ a \o <<x>> \in Seq(Nat) /\ Append(a, x) = (a \o <<x>>) \o <<>>
  <1>1. <<x>> \in Seq(Nat) /\ <<>> \in Seq(Nat)
    OBVIOUS
  <1>2. a \o <<x>> \in Seq(Nat) /\ Append(a, x) = a \o <<x>>
    BY <1>1
  <1>3. (a \o <<x>>) \o <<>> = a \o <<x>>
    BY <1>2
  <1> QED BY <1>1, <1>2, <1>3

LEMMA StartIs ==
  ASSUME NEW s \in Seq(Nat), NEW n \in 0 .. Len(s)
  PROVE  /\ SubSeq(s, 1, n) \in Seq(Nat) /\ Len(SubSeq(s, 1, n)) = n
         /\ \A i \in 1 .. n : SubSeq(s, 1, n)[i] = s[i]
  OBVIOUS

LEMMA CapOfCap ==
  ASSUME NEW a \in Seq(Nat), NEW b \in Seq(Nat)
  PROVE  Cap(a \o Cap(b)) = Cap(a \o b)
  <1> DEFINE c == a \o Cap(b)
             d == a \o b
  <1>1. /\ Cap(b) \in Seq(Nat) /\ Len(Cap(b)) = IF Len(b) > MAX_EVENTS THEN MAX_EVENTS ELSE Len(b)
        /\ \A i \in 1 .. Len(Cap(b)) : i \in 1 .. Len(b) /\ Cap(b)[i] = b[i]
    BY CapIs
  <1>2. /\ c \in Seq(Nat) /\ Len(c) = Len(a) + Len(Cap(b))
        /\ \A i \in 1 .. Len(c) : c[i] = IF i <= Len(a) THEN a[i] ELSE Cap(b)[i - Len(a)]
    BY <1>1, BothIs
  <1>3. /\ d \in Seq(Nat) /\ Len(d) = Len(a) + Len(b)
        /\ \A i \in 1 .. Len(d) : d[i] = IF i <= Len(a) THEN a[i] ELSE b[i - Len(a)]
    OBVIOUS
  <1> HIDE DEF c, d
  <1>4. /\ Cap(c) \in Seq(Nat) /\ Len(Cap(c)) = IF Len(c) > MAX_EVENTS THEN MAX_EVENTS ELSE Len(c)
        /\ \A i \in 1 .. Len(Cap(c)) : i \in 1 .. Len(c) /\ Cap(c)[i] = c[i]
    BY <1>2, CapIs
  <1>5. /\ Cap(d) \in Seq(Nat) /\ Len(Cap(d)) = IF Len(d) > MAX_EVENTS THEN MAX_EVENTS ELSE Len(d)
        /\ \A i \in 1 .. Len(Cap(d)) : i \in 1 .. Len(d) /\ Cap(d)[i] = d[i]
    BY <1>3, CapIs
  <1>6. MAX_EVENTS \in Nat /\ Len(a) \in Nat /\ Len(b) \in Nat /\ Len(Cap(b)) \in Nat
    BY <1>1, ViewsAssumption
  <1>7. Len(Cap(c)) = Len(Cap(d))
    <2>1. /\ Len(Cap(b)) = IF Len(b) > MAX_EVENTS THEN MAX_EVENTS ELSE Len(b)
          /\ Len(c) = Len(a) + Len(Cap(b)) /\ Len(d) = Len(a) + Len(b)
      BY <1>1, <1>2, <1>3
    <2>2. /\ Len(Cap(c)) = IF Len(c) > MAX_EVENTS THEN MAX_EVENTS ELSE Len(c)
          /\ Len(Cap(d)) = IF Len(d) > MAX_EVENTS THEN MAX_EVENTS ELSE Len(d)
      BY <1>4, <1>5
    <2>3. CASE Len(b) > MAX_EVENTS
      <3>1. Len(c) >= MAX_EVENTS /\ Len(d) > MAX_EVENTS
        BY <1>6, <2>1, <2>3
      <3>2. Len(Cap(c)) = MAX_EVENTS /\ Len(Cap(d)) = MAX_EVENTS
        BY <1>6, <2>1, <2>2, <2>3, <3>1
      <3> QED BY <3>2
    <2>4. CASE ~(Len(b) > MAX_EVENTS)
      <3>1. Len(c) = Len(d)
        BY <2>1, <2>4
      <3> QED BY <2>2, <3>1
    <2> QED BY <2>3, <2>4
  <1>8. ASSUME NEW i \in 1 .. Len(Cap(c)) PROVE Cap(c)[i] = Cap(d)[i]
    <2>1. i \in 1 .. Len(c) /\ i \in 1 .. Len(d) /\ Cap(c)[i] = c[i] /\ Cap(d)[i] = d[i]
      BY <1>4, <1>5, <1>7
    <2>2. CASE i <= Len(a)
      BY <1>2, <1>3, <2>1, <2>2
    <2>3. CASE i > Len(a)
      <3>1. i - Len(a) \in 1 .. Len(Cap(b))
        <4>1. Len(c) = Len(a) + Len(Cap(b)) /\ i \in 1 .. Len(c)
          BY <1>2, <2>1
        <4> QED BY <1>6, <2>3, <4>1
      <3>2. Cap(b)[i - Len(a)] = b[i - Len(a)]
        BY <1>1, <3>1
      <3> QED BY <1>2, <1>3, <1>6, <2>1, <2>3, <3>2
    <2> QED BY <1>6, <2>2, <2>3
  <1> QED BY <1>4, <1>5, <1>7, <1>8, SameSequence DEF c, d

LEMMA ReverseIs ==
  ASSUME NEW s \in Seq(Nat)
  PROVE  /\ Reverse(s) \in Seq(Nat) /\ Len(Reverse(s)) = Len(s)
         /\ \A i \in 1 .. Len(s) : Reverse(s)[i] = s[Len(s) - i + 1]
  <1>1. \A i \in 1 .. Len(s) : (Len(s) - i) + 1 \in 1 .. Len(s)
    OBVIOUS
  <1>2. Reverse(s) \in [1 .. Len(s) -> Nat]
    BY <1>1 DEF Reverse
  <1> QED BY <1>1, <1>2 DEF Reverse

LEMMA ReverseOfBoth ==
  ASSUME NEW p \in Seq(Nat), NEW q \in Seq(Nat)
  PROVE  Reverse(p \o q) = Reverse(q) \o Reverse(p)
  <1> DEFINE s == p \o q
             r == Reverse(q) \o Reverse(p)
  <1>1. /\ s \in Seq(Nat) /\ Len(s) = Len(p) + Len(q) /\ Len(p) \in Nat /\ Len(q) \in Nat
        /\ \A i \in 1 .. Len(s) : s[i] = IF i <= Len(p) THEN p[i] ELSE q[i - Len(p)]
    OBVIOUS
  <1>2. /\ Reverse(p) \in Seq(Nat) /\ Len(Reverse(p)) = Len(p)
        /\ \A i \in 1 .. Len(p) : Reverse(p)[i] = p[Len(p) - i + 1]
    BY ReverseIs
  <1>3. /\ Reverse(q) \in Seq(Nat) /\ Len(Reverse(q)) = Len(q)
        /\ \A i \in 1 .. Len(q) : Reverse(q)[i] = q[Len(q) - i + 1]
    BY ReverseIs
  <1>4. /\ r \in Seq(Nat) /\ Len(r) = Len(q) + Len(p)
        /\ \A i \in 1 .. Len(r) : r[i] = IF i <= Len(q) THEN Reverse(q)[i] ELSE Reverse(p)[i - Len(q)]
    <2>1. /\ r \in Seq(Nat) /\ Len(r) = Len(Reverse(q)) + Len(Reverse(p))
          /\ \A i \in 1 .. Len(r) : r[i] = IF i <= Len(Reverse(q)) THEN Reverse(q)[i]
                                           ELSE Reverse(p)[i - Len(Reverse(q))]
      BY <1>2, <1>3, BothIs
    <2> HIDE DEF r
    <2> QED BY <1>2, <1>3, <2>1
  <1> HIDE DEF s, r
  <1>5. /\ Reverse(s) \in Seq(Nat) /\ Len(Reverse(s)) = Len(s)
        /\ \A i \in 1 .. Len(s) : Reverse(s)[i] = s[Len(s) - i + 1]
    BY <1>1, ReverseIs
  <1>6. ASSUME NEW i \in 1 .. Len(s) PROVE Reverse(s)[i] = r[i]
    <2>1. i \in 1 .. Len(r) /\ Len(s) - i + 1 \in 1 .. Len(s)
      BY <1>1, <1>4
    <2>2. CASE i <= Len(q)
      <3>1. i \in 1 .. Len(q) /\ ~(Len(s) - i + 1 <= Len(p)) /\ (Len(s) - i + 1) - Len(p) = Len(q) - i + 1
        BY <1>1, <2>2
      <3> QED BY <1>1, <1>3, <1>4, <1>5, <2>1, <2>2, <3>1
    <2>3. CASE i > Len(q)
      <3>1. /\ i - Len(q) \in 1 .. Len(p) /\ Len(s) - i + 1 <= Len(p)
            /\ Len(s) - i + 1 = Len(p) - (i - Len(q)) + 1
        BY <1>1, <2>3
      <3>2. r[i] = Reverse(p)[i - Len(q)]
        BY <1>1, <1>4, <2>1, <2>3
      <3>3. Reverse(s)[i] = p[Len(s) - i + 1]
        BY <1>1, <1>5, <2>1, <3>1
      <3> QED BY <1>2, <3>1, <3>2, <3>3
    <2> QED BY <1>1, <2>2, <2>3
  <1>7. Len(Reverse(s)) = Len(r)
    BY <1>1, <1>4, <1>5
  <1> QED BY <1>4, <1>5, <1>6, <1>7, SameSequence DEF s, r

\* What is put in front of a feed continues what it shows.
LEMMA PrependContinues ==
  ASSUME NEW p \in Seq(Nat), NEW q \in Seq(Nat)
  PROVE  Prepend(Cap(Reverse(p)), q) = Cap(Reverse(p \o q))
  <1>1. Reverse(p) \in Seq(Nat) /\ Reverse(q) \in Seq(Nat)
    BY ReverseIs
  <1>2. Cap(Reverse(q) \o Cap(Reverse(p))) = Cap(Reverse(q) \o Reverse(p))
    BY <1>1, CapOfCap
  <1> QED BY <1>2, ReverseOfBoth DEF Prepend

-----------------------------------------------------------------------------
(* The live feed *)

\* The decisions before the pause, and what they show.
LEMMA FeedIs ==
  ASSUME FeedInv
  PROVE  \E p \in Seq(Nat) : view.received = p \o view.queue /\ view.shown = Cap(Reverse(p))
  <1> DEFINE r == view.received
             q == view.queue
             n == Len(r) - Len(q)
             p == SubSeq(r, 1, n)
  <1>1. /\ r \in Seq(Nat) /\ q \in Seq(Nat) /\ IsSuffix(q, r) /\ Len(r) \in Nat /\ Len(q) \in Nat
        /\ view.shown = Cap(Reverse(p))
    BY DEF FeedInv
  <1> HIDE DEF r, q
  <1>2. /\ Reverse(q) \in Seq(Nat) /\ Len(Reverse(q)) = Len(q)
        /\ \A i \in 1 .. Len(q) : Reverse(q)[i] = q[Len(q) - i + 1]
    BY <1>1, ReverseIs
  <1>3. /\ Reverse(r) \in Seq(Nat) /\ Len(Reverse(r)) = Len(r)
        /\ \A i \in 1 .. Len(r) : Reverse(r)[i] = r[Len(r) - i + 1]
    BY <1>1, ReverseIs
  <1>4. Len(q) <= Len(r) /\ SubSeq(Reverse(q), 1, Len(q)) = SubSeq(Reverse(r), 1, Len(q))
    BY <1>1, <1>2, <1>3 DEF IsSuffix, IsPrefix
  <1>5. \A i \in 1 .. Len(q) : Reverse(q)[i] = Reverse(r)[i]
    <2>1. \A i \in 1 .. Len(q) : SubSeq(Reverse(q), 1, Len(q))[i] = Reverse(q)[i]
      BY <1>1, <1>2
    <2>2. \A i \in 1 .. Len(q) : SubSeq(Reverse(r), 1, Len(q))[i] = Reverse(r)[i]
      BY <1>1, <1>3, <1>4
    <2> QED BY <1>4, <2>1, <2>2
  <1>6. p \in Seq(Nat) /\ Len(p) = n /\ n \in Nat /\ \A i \in 1 .. n : p[i] = r[i]
    BY <1>1, <1>4
  <1> HIDE DEF p
  <1>7. /\ p \o q \in Seq(Nat) /\ Len(p \o q) = n + Len(q)
        /\ \A i \in 1 .. Len(p \o q) : (p \o q)[i] = IF i <= n THEN p[i] ELSE q[i - n]
    <2>1. p \in Seq(Nat) /\ q \in Seq(Nat) /\ Len(p) = n
      BY <1>1, <1>6
    <2>2. /\ p \o q \in Seq(Nat) /\ Len(p \o q) = Len(p) + Len(q)
          /\ \A i \in 1 .. Len(p \o q) : (p \o q)[i] = IF i <= Len(p) THEN p[i] ELSE q[i - Len(p)]
      BY <2>1, BothIs
    <2> HIDE DEF n
    <2> QED BY <2>1, <2>2
  <1>8. ASSUME NEW i \in 1 .. Len(r) PROVE r[i] = (p \o q)[i]
    <2>1. CASE i <= n
      BY <1>1, <1>6, <1>7, <2>1
    <2>2. CASE i > n
      <3>1. /\ i - n \in 1 .. Len(q) /\ Len(r) - i + 1 \in 1 .. Len(q)
            /\ Len(q) - (Len(r) - i + 1) + 1 = i - n /\ Len(r) - (Len(r) - i + 1) + 1 = i
            /\ Len(r) - i + 1 \in 1 .. Len(r)
        BY <1>1, <1>4, <1>6, <2>2
      <3>2. Reverse(q)[Len(r) - i + 1] = q[i - n] /\ Reverse(r)[Len(r) - i + 1] = r[i]
        BY <1>2, <1>3, <3>1
      <3>3. (p \o q)[i] = q[i - n]
        <4>1. i \in 1 .. Len(p \o q) /\ ~(i <= n)
          BY <1>1, <1>6, <1>7, <2>2
        <4> QED BY <1>7, <4>1
      <3>4. Reverse(q)[Len(r) - i + 1] = Reverse(r)[Len(r) - i + 1]
        BY <1>5, <3>1
      <3> QED BY <3>2, <3>3, <3>4
    <2> QED BY <1>1, <1>6, <2>1, <2>2
  <1>9. Len(r) = Len(p \o q)
    BY <1>1, <1>6, <1>7
  <1>10. r = p \o q
    BY <1>1, <1>7, <1>8, <1>9, SameSequence
  <1> QED BY <1>1, <1>6, <1>10 DEF r, q

LEMMA FeedFollows ==
  ASSUME NEW p \in Seq(Nat), DOMAIN view' = FeedFields, view'.arrived \in Nat, view'.queue \in Seq(Nat),
         view'.received = p \o view'.queue, view'.shown = Cap(Reverse(p)),
         view'.paused \in BOOLEAN, ~view'.paused => view'.queue = <<>>
  PROVE  FeedInv'
  <1> DEFINE r == view'.received
             q == view'.queue
             n == Len(r) - Len(q)
  <1>1. /\ r = p \o q /\ q \in Seq(Nat) /\ Len(q) \in Nat /\ Len(p) \in Nat
    OBVIOUS
  <1>2. /\ r \in Seq(Nat) /\ Len(r) = Len(p) + Len(q)
        /\ \A i \in 1 .. Len(r) : r[i] = IF i <= Len(p) THEN p[i] ELSE q[i - Len(p)]
    BY <1>1, BothIs
  <1> HIDE DEF r, q
  <1>3. SubSeq(r, 1, n) = p
    <2>1. n = Len(p) /\ n <= Len(r)
      BY <1>1, <1>2
    <2> HIDE DEF n
    <2>2. /\ SubSeq(r, 1, n) \in Seq(Nat) /\ Len(SubSeq(r, 1, n)) = n
          /\ \A i \in 1 .. n : SubSeq(r, 1, n)[i] = r[i]
      BY <1>1, <1>2, <2>1
    <2>3. \A i \in 1 .. n : r[i] = p[i]
      BY <1>1, <1>2, <2>1
    <2> QED BY <2>1, <2>2, <2>3, SameSequence
  <1>4. IsSuffix(q, r)
    <2>1. /\ Reverse(q) \in Seq(Nat) /\ Len(Reverse(q)) = Len(q)
          /\ \A i \in 1 .. Len(q) : Reverse(q)[i] = q[Len(q) - i + 1]
      BY <1>1, ReverseIs
    <2>2. /\ Reverse(r) \in Seq(Nat) /\ Len(Reverse(r)) = Len(r)
          /\ \A i \in 1 .. Len(r) : Reverse(r)[i] = r[Len(r) - i + 1]
      BY <1>2, ReverseIs
    <2>3. ASSUME NEW i \in 1 .. Len(q) PROVE Reverse(q)[i] = Reverse(r)[i]
      <3>1. i \in 1 .. Len(r) /\ Len(r) - i + 1 \in 1 .. Len(r) /\ ~(Len(r) - i + 1 <= Len(p))
            /\ (Len(r) - i + 1) - Len(p) = Len(q) - i + 1
        BY <1>1, <1>2
      <3> QED BY <1>2, <2>1, <2>2, <3>1
    <2>4. /\ SubSeq(Reverse(q), 1, Len(q)) \in Seq(Nat) /\ Len(SubSeq(Reverse(q), 1, Len(q))) = Len(q)
          /\ \A i \in 1 .. Len(q) : SubSeq(Reverse(q), 1, Len(q))[i] = Reverse(q)[i]
      <3>1. Reverse(q) \in Seq(Nat) /\ Len(q) \in 0 .. Len(Reverse(q))
        BY <1>1, <2>1
      <3> QED BY <3>1, StartIs
    <2>5. /\ SubSeq(Reverse(r), 1, Len(q)) \in Seq(Nat) /\ Len(SubSeq(Reverse(r), 1, Len(q))) = Len(q)
          /\ \A i \in 1 .. Len(q) : SubSeq(Reverse(r), 1, Len(q))[i] = Reverse(r)[i]
      <3>1. Len(q) \in 0 .. Len(Reverse(r))
        BY <1>1, <1>2, <2>2
      <3> QED BY <2>2, <3>1, StartIs
    <2>6. SubSeq(Reverse(q), 1, Len(q)) = SubSeq(Reverse(r), 1, Len(q))
      BY <2>3, <2>4, <2>5, SameSequence
    <2>7. Len(q) <= Len(r)
      BY <1>1, <1>2
    <2> QED BY <2>1, <2>2, <2>6, <2>7 DEF IsSuffix, IsPrefix
  <1> QED BY <1>2, <1>3, <1>4 DEF FeedInv, r, q

LEMMA FeedStep ==
  ASSUME FeedInv, ReceiveDecision \/ PauseResume \/ SocketTurns
  PROVE  FeedInv'
  <1>1. /\ DOMAIN view = FeedFields /\ view.arrived \in Nat /\ view.received \in Seq(Nat)
        /\ view.queue \in Seq(Nat) /\ view.paused \in BOOLEAN /\ (~view.paused => view.queue = <<>>)
    BY DEF FeedInv
  <1>2. PICK p \in Seq(Nat) : view.received = p \o view.queue /\ view.shown = Cap(Reverse(p))
    BY FeedIs
  <1>3. CASE ReceiveDecision
    <2> DEFINE n == view.arrived + 1
    <2>1. n \in Nat
      BY <1>1
    <2>2. CASE ~view.online
      <3>1. view' = [view EXCEPT !.arrived = n]
        BY <1>3, <2>2 DEF ReceiveDecision, Show
      <3> HIDE DEF n
      <3>2. /\ DOMAIN view' = FeedFields /\ view'.arrived = n /\ view'.received = view.received
            /\ view'.queue = view.queue /\ view'.shown = view.shown /\ view'.paused = view.paused
        BY <1>1, <3>1 DEF FeedFields
      <3> QED BY <1>1, <1>2, <2>1, <3>2, FeedFollows
    <2>3. CASE view.online /\ view.paused
      <3>1. view' = [view EXCEPT !.arrived = n, !.received = Append(@, n),
                         !.queue = IF view.paused THEN Append(@, n) ELSE @,
                         !.shown = IF view.paused THEN @ ELSE Prepend(@, <<n>>)]
        BY <1>3, <2>3 DEF ReceiveDecision, Show
      <3> HIDE DEF n
      <3>2. /\ DOMAIN view' = FeedFields /\ view'.arrived = n /\ view'.received = Append(view.received, n)
            /\ view'.queue = Append(view.queue, n) /\ view'.shown = view.shown /\ view'.paused = view.paused
        BY <1>1, <2>3, <3>1 DEF FeedFields
      <3>3. Append(p \o view.queue, n) = p \o Append(view.queue, n) /\ Append(view.queue, n) \in Seq(Nat)
        <4>1. view.queue \in Seq(Nat) /\ n \in Nat
          BY <1>1, <2>1
        <4> QED BY <4>1, AppendAfter
      <3> QED BY <1>1, <1>2, <2>1, <2>3, <3>2, <3>3, FeedFollows
    <2>4. CASE view.online /\ ~view.paused
      <3>1. view' = [view EXCEPT !.arrived = n, !.received = Append(@, n),
                         !.queue = IF view.paused THEN Append(@, n) ELSE @,
                         !.shown = IF view.paused THEN @ ELSE Prepend(@, <<n>>)]
        BY <1>3, <2>4 DEF ReceiveDecision, Show
      <3> HIDE DEF n
      <3>2. /\ DOMAIN view' = FeedFields /\ view'.arrived = n /\ view'.received = Append(view.received, n)
            /\ view'.queue = view.queue /\ view'.shown = Prepend(view.shown, <<n>>)
            /\ view'.paused = view.paused
        BY <1>1, <2>4, <3>1 DEF FeedFields
      <3> DEFINE g == p \o <<n>>
      <3>3. view.received = p /\ Append(p, n) = g \o <<>> /\ g \in Seq(Nat) /\ <<n>> \in Seq(Nat)
        <4>1. view.received = p /\ n \in Nat
          BY <1>1, <1>2, <2>1, <2>4
        <4> HIDE DEF g
        <4>2. Append(p, n) = (p \o <<n>>) \o <<>> /\ p \o <<n>> \in Seq(Nat) /\ <<n>> \in Seq(Nat)
          BY <4>1, OneMoreAfter
        <4> QED BY <4>1, <4>2 DEF g
      <3>4. view'.shown = Cap(Reverse(g))
        BY <1>2, <3>2, <3>3, PrependContinues
      <3> HIDE DEF g
      <3> QED BY <1>1, <2>1, <2>4, <3>2, <3>3, <3>4, FeedFollows
    <2> QED BY <2>2, <2>3, <2>4
  <1>4. CASE PauseResume
    <2>1. view' = [view EXCEPT !.paused = ~@, !.queue = <<>>, !.shown = Prepend(@, view.queue)]
      BY <1>4 DEF PauseResume, Show
    <2>2. /\ DOMAIN view' = FeedFields /\ view'.arrived = view.arrived /\ view'.received = view.received
          /\ view'.queue = <<>> /\ view'.shown = Prepend(view.shown, view.queue)
          /\ view'.paused = ~view.paused
      BY <1>1, <2>1 DEF FeedFields
    <2> DEFINE g == p \o view.queue
    <2>3. g \in Seq(Nat) /\ view.received = g \o <<>> /\ <<>> \in Seq(Nat)
      BY <1>1, <1>2
    <2>4. view'.shown = Cap(Reverse(g))
      BY <1>1, <1>2, <2>2, PrependContinues
    <2> HIDE DEF g
    <2> QED BY <1>1, <2>2, <2>3, <2>4, FeedFollows
  <1>5. CASE SocketTurns
    <2>1. view' = [view EXCEPT !.online = ~@]
      BY <1>5 DEF SocketTurns, Show
    <2>2. /\ DOMAIN view' = FeedFields /\ view'.arrived = view.arrived /\ view'.received = view.received
          /\ view'.queue = view.queue /\ view'.shown = view.shown /\ view'.paused = view.paused
      BY <1>1, <2>1 DEF FeedFields
    <2> QED BY <1>1, <1>2, <2>2, FeedFollows
  <1> QED BY <1>3, <1>4, <1>5

-----------------------------------------------------------------------------
(* The panel of the graph *)

LEMMA GraphStep ==
  ASSUME GraphInv,
         \/ \E n \in Words : ClickNode(n) \/ FilterChange(n) \/ HighlightNodes(n)
         \/ FilterChange("all") \/ ClosePanel \/ Analyze \/ AnalysisArrives \/ AnalysisFails
  PROVE  GraphInv'
  <1> USE DEF GraphInv, GraphFields, Show
  <1>1. ASSUME NEW n \in Words, ClickNode(n) PROVE GraphInv'
    BY <1>1 DEF ClickNode
  <1>2. ASSUME NEW mode, FilterChange(mode) PROVE GraphInv'
    BY <1>2 DEF FilterChange
  <1>3. ASSUME NEW n, HighlightNodes(n) PROVE GraphInv'
    BY <1>3 DEF HighlightNodes
  <1>4. CASE ClosePanel
    BY <1>4 DEF ClosePanel
  <1>5. CASE Analyze
    BY <1>5 DEF Analyze
  <1>6. CASE AnalysisArrives
    BY <1>6 DEF AnalysisArrives
  <1>7. CASE AnalysisFails
    BY <1>7 DEF AnalysisFails
  <1> QED BY <1>1, <1>2, <1>3, <1>4, <1>5, <1>6, <1>7

-----------------------------------------------------------------------------
(* The search box *)

LEMMA SearchStep ==
  ASSUME SearchInv,
         \/ \E q \in Words : TypeQuery(q) \/ ResultsArrive(q) \/ SearchFails(q)
         \/ ClearQuery \/ DoSearch \/ AbortSettles
  PROVE  SearchInv'
  <1> USE DEF SearchInv, SearchFields
  <1>1. ASSUME NEW q \in Words, TypeQuery(q) PROVE SearchInv'
    <2>1. view' = [view EXCEPT !.query = q, !.timer = q, !.stale = FALSE]
      BY <1>1 DEF TypeQuery, Show
    <2>2. /\ DOMAIN view' = SearchFields /\ view'.query = q /\ view'.timer = q /\ view'.sent = view.sent
      BY <2>1
    <2>3. q # "" /\ q # None
      BY DEF Words, None
    <2> QED BY <2>2, <2>3
  <1>2. ASSUME NEW q \in Words, ResultsArrive(q) PROVE SearchInv'
    <2>1. q \in view.sent /\ view' = [view EXCEPT !.sent = @ \ {q}, !.results = q, !.searching = FALSE]
      BY <1>2 DEF ResultsArrive, Show
    <2>2. /\ DOMAIN view' = SearchFields /\ view'.query = view.query /\ view'.timer = view.timer
          /\ view'.sent = view.sent \ {q} /\ view'.results = q /\ view'.stale = view.stale
      BY <2>1
    <2> QED BY <2>1, <2>2
  <1>3. ASSUME NEW q \in Words, SearchFails(q) PROVE SearchInv'
    <2>1. q \in view.sent /\ view' = [view EXCEPT !.sent = @ \ {q}, !.failed = TRUE, !.searching = FALSE]
      BY <1>3 DEF SearchFails, Show
    <2>2. /\ DOMAIN view' = SearchFields /\ view'.query = view.query /\ view'.timer = view.timer
          /\ view'.sent = view.sent \ {q} /\ view'.results = view.results /\ view'.stale = view.stale
          /\ view'.failed = TRUE
      BY <2>1
    <2> QED BY <2>1, <2>2
  <1>4. CASE ClearQuery
    <2>1. view' = [view EXCEPT !.query = "", !.results = None, !.searching = FALSE, !.failed = FALSE,
                               !.aborted = @ + Cardinality(view.sent), !.sent = {},
                               !.stale = view.timer # None]
      BY <1>4 DEF ClearQuery, Show
    <2>2. /\ DOMAIN view' = SearchFields /\ view'.query = "" /\ view'.timer = view.timer
          /\ view'.sent = {} /\ view'.results = None /\ view'.stale = (view.timer # None)
      BY <2>1
    <2> QED BY <2>2
  <1>5. CASE DoSearch
    <2>1. /\ view.timer # None
          /\ view' = [view EXCEPT !.timer = None, !.asked = @ + 1, !.searching = TRUE, !.failed = FALSE,
                         !.aborted = @ + Cardinality(view.sent \ StillSent(view.sent)),
                         !.sent = StillSent(@) \union {view.timer}]
      BY <1>5 DEF DoSearch, Show
    <2>2. /\ DOMAIN view' = SearchFields /\ view'.query = view.query /\ view'.timer = None
          /\ view'.sent = {view.timer} /\ view'.stale = view.stale
      BY <2>1 DEF StillSent
    <2> QED BY <2>1, <2>2
  <1>6. CASE AbortSettles
    <2>1. view' = [view EXCEPT !.aborted = @ - 1, !.searching = FALSE]
      BY <1>6 DEF AbortSettles, Show
    <2>2. /\ DOMAIN view' = SearchFields /\ view'.query = view.query /\ view'.timer = view.timer
          /\ view'.sent = view.sent /\ view'.results = view.results /\ view'.stale = view.stale
          /\ view'.failed = view.failed
      BY <2>1
    <2> QED BY <2>2
  <1> QED BY <1>1, <1>2, <1>3, <1>4, <1>5, <1>6

-----------------------------------------------------------------------------
(* The event stream *)

\* A decision that comes once, or not at all, keeps the newest first.
LEMMA NewestFirst ==
  ASSUME NEW n \in Nat, NEW c \in {0, 1}, NEW e \in Seq(Nat),
         \A i \in 1 .. Len(e) : e[i] < n,
         \A i, j \in 1 .. Len(e) : i < j => e[i] > e[j],
         NEW f, f = Cap([i \in 1 .. c |-> n] \o e)
  PROVE  /\ f \in Seq(Nat)
         /\ \A i \in 1 .. Len(f) : f[i] <= n
         /\ \A i, j \in 1 .. Len(f) : i < j => f[i] > f[j]
  <1> DEFINE a == [i \in 1 .. c |-> n]
             b == a \o e
  <1>1. a \in Seq(Nat) /\ Len(a) = c /\ \A i \in 1 .. c : a[i] = n
    OBVIOUS
  <1> HIDE DEF a
  <1>2. /\ b \in Seq(Nat) /\ Len(b) = c + Len(e) /\ Len(e) \in Nat /\ c \in Nat
        /\ \A i \in 1 .. Len(b) : b[i] = IF i <= c THEN a[i] ELSE e[i - c]
    BY <1>1, BothIs
  <1> HIDE DEF b
  <1>3. ASSUME NEW i \in 1 .. Len(b)
        PROVE  /\ i <= c => b[i] = n
               /\ i > c => i - c \in 1 .. Len(e) /\ b[i] = e[i - c] /\ b[i] < n
    <2>1. CASE i <= c
      BY <1>1, <1>2, <2>1
    <2>2. CASE i > c
      <3>1. i - c \in 1 .. Len(e)
        BY <1>2, <2>2
      <3>2. b[i] = e[i - c] /\ ~(i <= c)
        BY <1>2, <2>2
      <3>3. e[i - c] < n
        BY <3>1
      <3> QED BY <3>1, <3>2, <3>3
    <2> QED BY <1>2, <2>1, <2>2
  <1>4. ASSUME NEW i \in 1 .. Len(b), NEW j \in 1 .. Len(b), i < j PROVE b[i] > b[j]
    <2>1. CASE i <= c
      <3>1. j > c
        BY <1>4, <2>1
      <3>2. b[j] < n
        BY <1>3, <3>1
      <3>3. b[i] = n
        BY <1>3, <2>1
      <3> QED BY <3>2, <3>3
    <2>2. CASE i > c
      <3>1. i - c \in 1 .. Len(e) /\ b[i] = e[i - c]
        BY <1>3, <2>2
      <3>2. j > c
        BY <1>2, <1>4, <2>2
      <3>3. j - c \in 1 .. Len(e) /\ b[j] = e[j - c]
        BY <1>3, <3>2
      <3>4. i - c < j - c
        BY <1>4
      <3> QED BY <3>1, <3>3, <3>4
    <2> QED BY <2>1, <2>2
  <1>5. /\ f \in Seq(Nat)
        /\ \A i \in 1 .. Len(f) : i \in 1 .. Len(b) /\ f[i] = b[i]
    <2>1. f = Cap(b)
      BY DEF a, b
    <2>2. b \in Seq(Nat)
      BY <1>2
    <2>3. /\ Cap(b) \in Seq(Nat)
          /\ \A i \in 1 .. Len(Cap(b)) : i \in 1 .. Len(b) /\ Cap(b)[i] = b[i]
      BY <2>2, CapIs
    <2>4. f \in Seq(Nat)
      BY <2>1, <2>3
    <2>5. \A i \in 1 .. Len(f) : i \in 1 .. Len(b) /\ f[i] = b[i]
      BY <2>1, <2>3
    <2> QED BY <2>4, <2>5
  <1>6. \A i \in 1 .. Len(b) : b[i] <= n
    <2> SUFFICES ASSUME NEW i \in 1 .. Len(b) PROVE b[i] <= n
      OBVIOUS
    <2>1. b[i] = n \/ b[i] < n
      BY <1>2, <1>3
    <2>2. b \in Seq(Nat)
      BY <1>2
    <2>3. b[i] \in Nat
      BY <2>2
    <2> QED BY <2>1, <2>3
  <1> QED BY <1>4, <1>5, <1>6

LEMMA OnlyTheLastIsOpen ==
  ASSUME StreamInv
  PROVE  Cardinality({s \in DOMAIN view.sockets : view.sockets[s] = "connected"}) \in {0, 1}
  <1> DEFINE S == {s \in DOMAIN view.sockets : view.sockets[s] = "connected"}
  <1>1. S = {} \/ S = {Current}
    <2>1. /\ view.sockets \in Seq({"connecting", "connected", "retrying", "closed"})
          /\ \A s \in 1 .. Len(view.sockets) : view.sockets[s] = "closed" <=> s # Current
      BY DEF StreamInv, Current
    <2>2. DOMAIN view.sockets = 1 .. Len(view.sockets)
      BY <2>1
    <2>3. \A s \in S : s = Current
      <3> SUFFICES ASSUME NEW s \in DOMAIN view.sockets, view.sockets[s] = "connected" PROVE s = Current
        OBVIOUS
      <3>1. s \in 1 .. Len(view.sockets) /\ view.sockets[s] # "closed"
        BY <2>2
      <3> QED BY <2>1, <3>1
    <2> QED BY <2>3
  <1> QED BY <1>1, FS_EmptySet, FS_Singleton

LEMMA StreamStep ==
  ASSUME StreamInv,
         \/ \E s \in 1 .. MaxViewCalls : s <= Current /\ (StreamConnects(s) \/ StreamDrops(s))
         \/ Broadcast \/ RetryConnection
  PROVE  StreamInv'
  <1> DEFINE k == view.sockets
             e == view.events
  <1>1. /\ DOMAIN view = StreamFields /\ view.arrived \in Nat /\ e \in Seq(Nat)
        /\ k \in Seq({"connecting", "connected", "retrying", "closed"}) /\ k # <<>>
        /\ \A s \in 1 .. Len(k) : k[s] = "closed" <=> s # Len(k)
        /\ view.status = "connected" <=> k[Len(k)] = "connected"
        /\ \A i \in 1 .. Len(e) : e[i] <= view.arrived
        /\ \A i, j \in 1 .. Len(e) : i < j => e[i] > e[j]
    BY DEF StreamInv, Current
  <1>2. Len(k) \in 1 .. Len(k) /\ Len(k) \in Nat /\ Len(k) > 0
    BY <1>1
  <1>3. ASSUME NEW s \in 1 .. MaxViewCalls, s <= Current, StreamConnects(s) \/ StreamDrops(s),
               NEW x \in {"connected", "retrying"}, NEW y \in {"connected", "disconnected"},
               x = "connected" <=> y = "connected",
               view' = [view EXCEPT !.sockets[s] = x, !.status = y]
        PROVE  StreamInv'
    <2>1. s = Len(k)
      <3>1. s \in 1 .. Len(k)
        BY <1>2, <1>3 DEF Current
      <3>2. k[s] # "closed"
        BY <1>3 DEF StreamConnects, StreamDrops
      <3> QED BY <1>1, <3>1, <3>2
    <2>2. /\ DOMAIN view' = StreamFields /\ view'.arrived = view.arrived /\ view'.events = e
          /\ view'.sockets = [k EXCEPT ![s] = x] /\ view'.status = y
      BY <1>1, <1>3 DEF StreamFields
    <2> DEFINE l == [k EXCEPT ![s] = x]
    <2>3. /\ l \in Seq({"connecting", "connected", "retrying", "closed"}) /\ Len(l) = Len(k)
          /\ l # <<>> /\ l[s] = x /\ \A u \in 1 .. Len(k) : u # s => l[u] = k[u]
      BY <1>1, <1>2, <2>1
    <2> HIDE DEF k, e, l
    <2>4. \A u \in 1 .. Len(l) : l[u] = "closed" <=> u # Len(l)
      BY <1>1, <1>2, <1>3, <2>1, <2>3
    <2>5. view'.sockets = l
      BY <2>2 DEF l
    <2>6. y = "connected" <=> l[Len(l)] = "connected"
      BY <1>3, <2>1, <2>3
    <2>7. \A s1 \in 1 .. Current' : view'.sockets[s1] = "closed" <=> s1 # Current'
      BY <2>4, <2>5 DEF Current
    <2> QED BY <1>1, <2>2, <2>3, <2>5, <2>6, <2>7 DEF StreamInv, Current
  <1>4. CASE Broadcast
    <2> DEFINE n == view.arrived + 1
               c == Cardinality({s \in DOMAIN view.sockets : view.sockets[s] = "connected"})
    <2>1. view' = [view EXCEPT !.arrived = n, !.events = Cap([i \in 1 .. c |-> n] \o @)]
      BY <1>4 DEF Broadcast, Show
    <2>2. c \in {0, 1}
      BY OnlyTheLastIsOpen
    <2> HIDE DEF c, n
    <2>3. /\ DOMAIN view' = StreamFields /\ view'.arrived = n /\ view'.sockets = view.sockets
          /\ view'.status = view.status /\ view'.events = Cap([i \in 1 .. c |-> n] \o e)
      BY <1>1, <2>1 DEF StreamFields
    <2>4. n \in Nat /\ \A i \in 1 .. Len(e) : e[i] < n
      BY <1>1 DEF n
    <2> HIDE DEF k, e
    <2> DEFINE f == Cap([i \in 1 .. c |-> n] \o e)
    <2>5. /\ f \in Seq(Nat)
          /\ \A i \in 1 .. Len(f) : f[i] <= n
          /\ \A i, j \in 1 .. Len(f) : i < j => f[i] > f[j]
      <3> HIDE DEF f
      <3>1. f = Cap([i \in 1 .. c |-> n] \o e)
        BY DEF f
      <3> QED BY <1>1, <2>2, <2>4, <3>1, NewestFirst
    <2>6. view'.events = f
      BY <2>3
    <2> HIDE DEF f
    <2> QED BY <1>1, <2>3, <2>4, <2>5, <2>6 DEF StreamInv, Current, k
  <1>5. CASE RetryConnection
    <2>1. view' = [view EXCEPT !.sockets = Append(Leave(@), "connecting"), !.status = "connecting"]
      BY <1>5 DEF RetryConnection, Show
    <2>2. /\ DOMAIN view' = StreamFields /\ view'.arrived = view.arrived /\ view'.events = e
          /\ view'.sockets = Append(Leave(k), "connecting") /\ view'.status = "connecting"
      BY <1>1, <2>1 DEF StreamFields
    <2> HIDE DEF k, e
    <2> DEFINE l == Leave(k)
    <2>3. /\ l \in Seq({"connecting", "connected", "retrying", "closed"}) /\ Len(l) = Len(k)
          /\ \A u \in 1 .. Len(k) : l[u] = "closed"
      BY <1>1, <1>2 DEF Leave
    <2> HIDE DEF l
    <2> DEFINE m == Append(l, "connecting")
    <2>4. /\ m \in Seq({"connecting", "connected", "retrying", "closed"}) /\ Len(m) = Len(k) + 1
          /\ m # <<>> /\ m[Len(k) + 1] = "connecting" /\ \A u \in 1 .. Len(k) : m[u] = l[u]
      <3>1. l \in Seq({"connecting", "connected", "retrying", "closed"}) /\ Len(l) = Len(k)
        BY <2>3
      <3>2. m \in Seq({"connecting", "connected", "retrying", "closed"}) /\ Len(m) = Len(l) + 1
        BY <3>1
      <3>3. m[Len(l) + 1] = "connecting" /\ \A u \in 1 .. Len(l) : m[u] = l[u]
        BY <3>1
      <3>4. m # <<>>
        BY <3>3, <3>2, <1>2, <3>1
      <3> QED BY <3>1, <3>2, <3>3, <3>4
    <2>5. view'.sockets = m
      BY <2>2 DEF l
    <2> HIDE DEF m
    <2>6. \A u \in 1 .. Len(m) : m[u] = "closed" <=> u # Len(m)
      BY <1>2, <2>3, <2>4
    <2> QED BY <1>1, <2>2, <2>4, <2>5, <2>6 DEF StreamInv, Current
  <1>6. ASSUME NEW s \in 1 .. MaxViewCalls, s <= Current, StreamConnects(s) PROVE StreamInv'
    <2>1. view' = [view EXCEPT !.sockets[s] = "connected", !.status = "connected"]
      BY <1>6 DEF StreamConnects, Show
    <2> QED BY <1>3, <1>6, <2>1
  <1>7. ASSUME NEW s \in 1 .. MaxViewCalls, s <= Current, StreamDrops(s) PROVE StreamInv'
    <2>1. view' = [view EXCEPT !.sockets[s] = "retrying", !.status = "disconnected"]
      BY <1>7 DEF StreamDrops, Show
    <2> QED BY <1>3, <1>7, <2>1
  <1> QED BY <1>4, <1>5, <1>6, <1>7

-----------------------------------------------------------------------------
(* The targets *)

LEMMA TargetsStep ==
  ASSUME TargetInv,
         \/ AddTarget
         \/ \E t \in 1 .. MaxViewCalls :
               \/ TestConnection(t) \/ RemoveTarget(t) \/ SelectTarget(t)
               \/ \E y \in {"connected", "failed"} : TestAnswered(t, y)
  PROVE  TargetInv'
  <1> DEFINE D == DOMAIN view.status
             st == view.status
  <1>1. /\ DOMAIN view = TargetFields /\ st = [t \in D |-> st[t]]
        /\ view.added \in Nat /\ D \subseteq 1 .. view.added /\ view.testing \subseteq 1 .. view.added
        /\ Default \in D /\ view.active \in D
        /\ \A t \in D : st[t] = "testing" <=> t \in view.testing
    BY DEF TargetInv
  <1>2. CASE AddTarget
    <2> DEFINE k == view.added + 1
    <2>1. view' = [view EXCEPT !.added = @ + 1, !.status = Merged(Entry(view.added + 1, "unknown"), @)]
      BY <1>2 DEF AddTarget, Show
    <2>2. /\ DOMAIN view' = TargetFields /\ view'.added = k /\ view'.testing = view.testing
          /\ view'.active = view.active /\ view'.status = Merged(Entry(k, "unknown"), st)
      BY <1>1, <2>1 DEF TargetFields
    <2>3. /\ k \notin D /\ k \notin view.testing /\ k \in Nat
          /\ D \union {k} \subseteq 1 .. k /\ view.testing \subseteq 1 .. k
      BY <1>1
    <2> HIDE DEF st, D, k
    <2> DEFINE u == Merged(Entry(k, "unknown"), st)
    <2>4. u = [x \in {k} \union D |-> IF x \in {k} THEN "unknown" ELSE st[x]]
      BY DEF Merged, Entry, D, st
    <2> HIDE DEF u
    <2>5. /\ DOMAIN u = D \union {k} /\ u[k] = "unknown" /\ \A x \in D : u[x] = st[x]
          /\ u = [t \in DOMAIN u |-> u[t]]
      BY <2>3, <2>4
    <2>6. view'.status = u
      BY <2>2 DEF u
    <2> QED BY <1>1, <2>2, <2>3, <2>5, <2>6 DEF TargetInv
  <1>3. ASSUME NEW t \in 1 .. MaxViewCalls, TestConnection(t) PROVE TargetInv'
    <2>1. t \in D /\ view' = [view EXCEPT !.status[t] = "testing", !.testing = @ \union {t}]
      BY <1>3 DEF TestConnection, Show
    <2>2. /\ DOMAIN view' = TargetFields /\ view'.added = view.added /\ view'.testing = view.testing \union {t}
          /\ view'.active = view.active /\ view'.status = [st EXCEPT ![t] = "testing"]
      BY <1>1, <2>1 DEF TargetFields
    <2> DEFINE u == [st EXCEPT ![t] = "testing"]
    <2> HIDE DEF st, D
    <2>3. /\ DOMAIN u = D /\ u[t] = "testing" /\ \A x \in D : x # t => u[x] = st[x]
          /\ u = [x \in DOMAIN u |-> u[x]]
      BY <1>1, <2>1
    <2> HIDE DEF u
    <2>4. view'.status = u
      BY <2>2 DEF u
    <2> QED BY <1>1, <2>1, <2>2, <2>3, <2>4 DEF TargetInv
  <1>4. ASSUME NEW t \in 1 .. MaxViewCalls, RemoveTarget(t) PROVE TargetInv'
    <2>1. /\ t \in D /\ t # Default
          /\ view' = [view EXCEPT !.status = Restrict(@, DOMAIN @ \ {t}),
                                  !.active = IF @ = t THEN Default ELSE @]
      BY <1>4 DEF RemoveTarget, Show
    <2>2. /\ DOMAIN view' = TargetFields /\ view'.added = view.added /\ view'.testing = view.testing
          /\ view'.active = (IF view.active = t THEN Default ELSE view.active)
          /\ view'.status = Restrict(st, D \ {t})
      BY <1>1, <2>1 DEF TargetFields
    <2> HIDE DEF st, D
    <2> DEFINE u == Restrict(st, D \ {t})
    <2>3. u = [x \in D \ {t} |-> st[x]]
      BY DEF Restrict
    <2> HIDE DEF u
    <2>4. DOMAIN u = D \ {t} /\ (\A x \in D \ {t} : u[x] = st[x]) /\ u = [x \in DOMAIN u |-> u[x]]
      BY <2>3
    <2>5. view'.status = u
      BY <2>2 DEF u
    <2>6. view'.active \in DOMAIN u /\ Default \in DOMAIN u /\ DOMAIN u \subseteq 1 .. view.added
      BY <1>1, <2>1, <2>2, <2>4
    <2>7. \A x \in DOMAIN u : u[x] = "testing" <=> x \in view.testing
      BY <1>1, <2>4
    <2>8. view'.status = [x \in DOMAIN view'.status |-> view'.status[x]]
      BY <2>4, <2>5
    <2>9. \A x \in DOMAIN view'.status : view'.status[x] = "testing" <=> x \in view'.testing
      BY <2>2, <2>5, <2>7
    <2> QED BY <1>1, <2>2, <2>5, <2>6, <2>8, <2>9 DEF TargetInv
  <1>5. ASSUME NEW t \in 1 .. MaxViewCalls, SelectTarget(t) PROVE TargetInv'
    <2>1. t \in D /\ view' = [view EXCEPT !.active = t]
      BY <1>5 DEF SelectTarget, Show
    <2>2. /\ DOMAIN view' = TargetFields /\ view'.added = view.added /\ view'.testing = view.testing
          /\ view'.active = t /\ view'.status = st
      BY <1>1, <2>1 DEF TargetFields
    <2> QED BY <1>1, <2>1, <2>2 DEF TargetInv
  <1>6. ASSUME NEW t \in 1 .. MaxViewCalls, NEW y \in {"connected", "failed"}, TestAnswered(t, y)
        PROVE  TargetInv'
    <2> DEFINE u == [x \in D |-> IF x = t THEN y ELSE st[x]]
    <2>1. view' = [view EXCEPT !.testing = @ \ {t},
                       !.status = [x \in DOMAIN @ |-> IF x = t THEN y ELSE @[x]]]
      BY <1>6 DEF TestAnswered, Show
    <2>2. /\ DOMAIN view' = TargetFields /\ view'.added = view.added /\ view'.testing = view.testing \ {t}
          /\ view'.active = view.active /\ view'.status = u
      BY <1>1, <2>1 DEF TargetFields
    <2> HIDE DEF st, D
    <2>3. /\ DOMAIN u = D /\ (\A x \in D : u[x] = IF x = t THEN y ELSE st[x])
          /\ u = [x \in DOMAIN u |-> u[x]] /\ y # "testing"
      OBVIOUS
    <2> HIDE DEF u
    <2> QED BY <1>1, <2>2, <2>3 DEF TargetInv
  <1> QED BY <1>2, <1>3, <1>4, <1>5, <1>6

-----------------------------------------------------------------------------
(* The rules of the administrator *)

LEMMA AskForRulesKeeps ==
  ASSUME RulesInv, NEW kind \in {"fetch", "create", "update", "delete"}, NEW rule, NEW weight, NEW slider,
         AskForRules(kind, rule, weight, slider)
  PROVE  RulesInv'
  <1>1. /\ DOMAIN view = RuleFields /\ view.asked \in Nat
        /\ view.rows = [r \in DOMAIN view.rows |-> view.rows[r]]
        /\ \A q \in view.requests : DOMAIN q = RequestFields
        /\ ~view.excused /\ view.requests = {} => view.shown = view.rows
    BY DEF RulesInv
  <1>2. PICK p : p = Request(view.asked + 1, kind, rule, weight)
    OBVIOUS
  <1>3. view' = [view EXCEPT !.asked = @ + 1, !.slider = slider, !.requests = @ \union {p},
                         !.excused = (kind # "fetch" /\ @) \/ view.requests # {}]
    BY <1>2 DEF AskForRules, Show
  <1>4. /\ DOMAIN view' = RuleFields /\ view'.asked = view.asked + 1 /\ view'.rows = view.rows
        /\ view'.shown = view.shown /\ view'.requests = view.requests \union {p}
        /\ view'.excused = ((kind # "fetch" /\ view.excused) \/ view.requests # {})
    BY <1>1, <1>3 DEF RuleFields
  <1>5. DOMAIN p = RequestFields /\ p.kind = kind /\ p.stage = "sent"
    BY <1>2 DEF Request, RequestFields
  <1>6. ASSUME ~view'.excused
        PROVE  /\ view'.requests = {p} /\ InStep(p)'
    <2>1. view.requests = {} /\ (kind = "fetch" \/ ~view.excused)
      BY <1>4, <1>6
    <2>2. kind # "fetch" => view'.shown = view'.rows
      BY <1>1, <1>4, <2>1
    <2> QED BY <1>4, <1>5, <2>1, <2>2 DEF InStep
  <1>7. /\ view'.asked \in Nat /\ \A q \in view'.requests : DOMAIN q = RequestFields
    BY <1>1, <1>4, <1>5
  <1> QED BY <1>1, <1>4, <1>6, <1>7 DEF RulesInv

LEMMA ServerActsKeeps ==
  ASSUME RulesInv, NEW q \in view.requests, ServerActs(q)
  PROVE  RulesInv'
  <1>1. /\ DOMAIN view = RuleFields /\ view.asked \in Nat
        /\ view.rows = [r \in DOMAIN view.rows |-> view.rows[r]]
        /\ \A p \in view.requests : DOMAIN p = RequestFields
        /\ ~view.excused => InStep(q) /\ \A p \in view.requests : p = q
    BY DEF RulesInv
  <1>2. PICK row : row = CASE q.kind = "create" -> Entry(q.n, q.weight)
                           [] q.kind = "update" /\ q.rule \in DOMAIN view.rows -> Entry(q.rule, q.weight)
                           [] OTHER -> <<>>
    OBVIOUS
  <1>3. PICK after : after = IF q.kind = "delete" THEN Restrict(view.rows, DOMAIN view.rows \ {q.rule})
                             ELSE Merged(row, view.rows)
    OBVIOUS
  <1>4. PICK stage : stage = IF q.kind # "update" \/ q.rule \in DOMAIN view.rows THEN "answered" ELSE "refused"
    OBVIOUS
  <1>5. PICK a : a = [q EXCEPT !.stage = stage, !.rows = IF q.kind = "fetch" THEN view.rows ELSE row]
    OBVIOUS
  <1>6. q.stage = "sent" /\ view' = [view EXCEPT !.rows = after, !.requests = (@ \ {q}) \union {a}]
    BY <1>2, <1>3, <1>4, <1>5 DEF ServerActs, Show
  <1>7. /\ DOMAIN view' = RuleFields /\ view'.asked = view.asked /\ view'.rows = after
        /\ view'.shown = view.shown /\ view'.requests = (view.requests \ {q}) \union {a}
        /\ view'.excused = view.excused
    BY <1>1, <1>6 DEF RuleFields
  <1>8. /\ DOMAIN a = RequestFields /\ a.kind = q.kind /\ a.stage = stage /\ a.rule = q.rule
        /\ a.rows = IF q.kind = "fetch" THEN view.rows ELSE row
    BY <1>1, <1>5 DEF RequestFields
  <1>9. after = [r \in DOMAIN after |-> after[r]]
    BY <1>3 DEF Restrict, Merged
  <1>10. ASSUME ~view'.excused
         PROVE  view'.requests = {a} /\ InStep(a)'
    <2>1. /\ ~view.excused /\ InStep(q) /\ view'.requests = {a}
          /\ q.kind \in {"fetch", "create", "update", "delete"}
          /\ q.kind # "fetch" => view.shown = view.rows
      BY <1>1, <1>6, <1>7, <1>10 DEF InStep
    <2>2. CASE q.kind = "fetch"
      <3>1. row = <<>> /\ stage = "answered" /\ after = Merged(<<>>, view.rows)
        BY <1>2, <1>3, <1>4, <2>2
      <3>2. after = view.rows
        BY <1>1, <3>1 DEF Merged
      <3> QED BY <1>7, <1>8, <2>1, <2>2, <3>1, <3>2 DEF InStep, Applied
    <2>3. CASE q.kind = "create"
      <3>1. stage = "answered" /\ after = Merged(row, view.rows) /\ a.rows = row /\ view.shown = view.rows
        BY <1>3, <1>4, <1>8, <2>1, <2>3
      <3>2. Applied(view.shown, a) = after
        BY <1>8, <2>3, <3>1 DEF Applied
      <3> QED BY <1>7, <1>8, <2>1, <2>3, <3>1, <3>2 DEF InStep
    <2>4. CASE q.kind = "update" /\ q.rule \in DOMAIN view.rows
      <3>1. /\ stage = "answered" /\ after = Merged(row, view.rows) /\ a.rows = row
            /\ view.shown = view.rows /\ row = Entry(q.rule, q.weight)
        BY <1>2, <1>3, <1>4, <1>8, <2>1, <2>4
      <3>2. after = [r \in DOMAIN view.rows |-> IF r = q.rule THEN q.weight ELSE view.rows[r]]
        BY <2>4, <3>1 DEF Merged, Entry
      <3>3. Applied(view.shown, a) = [r \in DOMAIN view.rows |-> IF r = q.rule THEN row[r] ELSE view.rows[r]]
        BY <1>8, <2>4, <3>1 DEF Applied
      <3>4. row[q.rule] = q.weight
        BY <3>1 DEF Entry
      <3>5. Applied(view.shown, a) = after
        BY <3>2, <3>3, <3>4
      <3> QED BY <1>7, <1>8, <2>1, <2>4, <3>1, <3>5 DEF InStep
    <2>5. CASE q.kind = "update" /\ q.rule \notin DOMAIN view.rows
      <3>1. row = <<>> /\ stage = "refused" /\ after = Merged(<<>>, view.rows)
        BY <1>2, <1>3, <1>4, <2>5
      <3>2. after = view.rows
        BY <1>1, <3>1 DEF Merged
      <3> QED BY <1>7, <1>8, <2>1, <2>5, <3>1, <3>2 DEF InStep
    <2>6. CASE q.kind = "delete"
      <3>1. /\ stage = "answered" /\ after = Restrict(view.rows, DOMAIN view.rows \ {q.rule})
            /\ view.shown = view.rows
        BY <1>3, <1>4, <2>1, <2>6
      <3>2. Applied(view.shown, a) = after
        BY <1>8, <2>6, <3>1 DEF Applied
      <3> QED BY <1>7, <1>8, <2>1, <2>6, <3>1, <3>2 DEF InStep
    <2> QED BY <2>1, <2>2, <2>3, <2>4, <2>5, <2>6
  <1>11. \A p \in view'.requests : DOMAIN p = RequestFields
    BY <1>1, <1>7, <1>8
  <1> QED BY <1>1, <1>7, <1>9, <1>10, <1>11 DEF RulesInv

LEMMA RulesStep ==
  ASSUME RulesInv,
         \/ EditRules \/ SliderFires \/ \E w \in Weights : MoveSlider(w)
         \/ \E q \in view.requests : ServerActs(q) \/ RuleAnswer(q) \/ RuleError(q)
  PROVE  RulesInv'
  <1>1. /\ DOMAIN view = RuleFields /\ view.asked \in Nat
        /\ view.rows = [r \in DOMAIN view.rows |-> view.rows[r]]
        /\ \A q \in view.requests : DOMAIN q = RequestFields
        /\ ~view.excused => /\ \A p, q \in view.requests : p = q
                            /\ view.requests = {} => view.shown = view.rows
                            /\ \A q \in view.requests : InStep(q)
    BY DEF RulesInv
  <1>2. CASE EditRules
    BY <1>2, AskForRulesKeeps DEF EditRules
  <1>3. CASE SliderFires
    BY <1>3, AskForRulesKeeps DEF SliderFires
  <1>4. ASSUME NEW w \in Weights, MoveSlider(w) PROVE RulesInv'
    <2>1. view' = [view EXCEPT !.slider = w]
      BY <1>4 DEF MoveSlider, Show
    <2>2. /\ DOMAIN view' = RuleFields /\ view'.asked = view.asked /\ view'.rows = view.rows
          /\ view'.shown = view.shown /\ view'.requests = view.requests /\ view'.excused = view.excused
      BY <1>1, <2>1 DEF RuleFields
    <2>3. \A q \in view.requests : InStep(q) => InStep(q)'
      BY <2>2 DEF InStep
    <2> QED BY <1>1, <2>2, <2>3 DEF RulesInv
  <1>5. ASSUME NEW q \in view.requests, RuleAnswer(q) PROVE RulesInv'
    <2>1. /\ q.stage = "answered"
          /\ view' = [view EXCEPT !.requests = @ \ {q}, !.shown = Applied(@, q)]
      BY <1>5 DEF RuleAnswer, Show
    <2>2. /\ DOMAIN view' = RuleFields /\ view'.asked = view.asked /\ view'.rows = view.rows
          /\ view'.shown = Applied(view.shown, q) /\ view'.requests = view.requests \ {q}
          /\ view'.excused = view.excused
      BY <1>1, <2>1 DEF RuleFields
    <2>3. ASSUME ~view'.excused PROVE view'.requests = {} /\ view'.shown = view'.rows
      <3>1. InStep(q) /\ view'.requests = {}
        BY <1>1, <2>2, <2>3
      <3> QED BY <2>1, <2>2, <3>1 DEF InStep
    <2> QED BY <1>1, <2>2, <2>3 DEF RulesInv
  <1>6. ASSUME NEW q \in view.requests, RuleError(q) PROVE RulesInv'
    <2>1. view' = [view EXCEPT !.requests = @ \ {q},
                         !.excused = @ \/ q.stage = "answered" \/ q.kind = "fetch"]
      BY <1>6 DEF RuleError, Show
    <2>2. /\ DOMAIN view' = RuleFields /\ view'.asked = view.asked /\ view'.rows = view.rows
          /\ view'.shown = view.shown /\ view'.requests = view.requests \ {q}
          /\ view'.excused = (view.excused \/ q.stage = "answered" \/ q.kind = "fetch")
      BY <1>1, <2>1 DEF RuleFields
    <2>3. ASSUME ~view'.excused PROVE view'.requests = {} /\ view'.shown = view'.rows
      <3>1. InStep(q) /\ view'.requests = {} /\ q.stage # "answered" /\ q.kind # "fetch"
        BY <1>1, <2>2, <2>3
      <3> QED BY <2>2, <3>1 DEF InStep
    <2> QED BY <1>1, <2>2, <2>3 DEF RulesInv
  <1> QED BY <1>2, <1>3, <1>4, <1>5, <1>6, ServerActsKeeps

-----------------------------------------------------------------------------
LEMMA ViewsInvariance == ViewsSpec => []ViewsInv
  <1>1. ViewsInit => ViewsInv
    <2> SUFFICES ASSUME ViewsInit PROVE ViewsInv
      OBVIOUS
    <2>1. view = Fresh[tab] /\ tab \in {"feed", "stream", "search", "graph", "targets", "rules"}
      BY DEF ViewsInit, Fresh
    <2>2. CASE tab = "feed"
      <3>1. view = [arrived |-> 0, received |-> <<>>, shown |-> <<>>, queue |-> <<>>,
                    paused |-> FALSE, online |-> FALSE]
        BY <2>1, <2>2 DEF Fresh
      <3>2. view.shown = Cap(Reverse(SubSeq(view.received, 1, Len(view.received) - Len(view.queue))))
        BY <3>1, ViewsAssumption DEF Cap, Reverse
      <3>3. IsSuffix(view.queue, view.received)
        BY <3>1 DEF IsSuffix, IsPrefix, Reverse
      <3> QED BY <2>2, <3>1, <3>2, <3>3 DEF ViewsInv, FeedInv, FeedFields
    <2>3. CASE tab = "stream"
      <3>1. view = [arrived |-> 0, sockets |-> <<"connecting">>, status |-> "connecting", events |-> <<>>]
        BY <2>1, <2>3 DEF Fresh
      <3> QED BY <2>3, <3>1 DEF ViewsInv, StreamInv, StreamFields, Current
    <2>4. CASE tab = "search"
      <3>1. view = [query |-> "", timer |-> None, sent |-> {}, aborted |-> 0, asked |-> 0,
                    results |-> None, searching |-> FALSE, failed |-> FALSE, stale |-> FALSE]
        BY <2>1, <2>4 DEF Fresh
      <3> QED BY <2>4, <3>1 DEF ViewsInv, SearchInv, SearchFields
    <2>5. CASE tab = "graph"
      <3>1. view = [selected |-> None, asked |-> None, result |-> None, late |-> FALSE,
                    mode |-> "all", highlight |-> None]
        BY <2>1, <2>5 DEF Fresh
      <3> QED BY <2>5, <3>1 DEF ViewsInv, GraphInv, GraphFields
    <2>6. CASE tab = "targets"
      <3>1. view = [status |-> Entry(Default, "unknown"), testing |-> {}, active |-> Default, added |-> 1]
        BY <2>1, <2>6 DEF Fresh
      <3> QED BY <2>6, <3>1 DEF ViewsInv, TargetInv, TargetFields, Entry, Default
    <2>7. CASE tab = "rules"
      <3>1. view = [rows |-> Entry(1, 1), shown |-> <<>>, slider |-> 0, asked |-> 1,
                    requests |-> {Request(1, "fetch", 0, 0)}, excused |-> FALSE]
        BY <2>1, <2>7 DEF Fresh
      <3>2. PICK p : p = Request(1, "fetch", 0, 0)
        OBVIOUS
      <3>3. DOMAIN p = RequestFields /\ p.kind = "fetch" /\ p.stage = "sent"
        BY <3>2 DEF Request, RequestFields
      <3>4. /\ DOMAIN view = RuleFields /\ view.asked = 1 /\ view.rows = Entry(1, 1) /\ view.requests = {p}
        BY <3>1, <3>2 DEF RuleFields
      <3>5. InStep(p)
        BY <3>3 DEF InStep
      <3>6. view.rows = [r \in DOMAIN view.rows |-> view.rows[r]]
        BY <3>4 DEF Entry
      <3> QED BY <2>7, <3>3, <3>4, <3>5, <3>6 DEF ViewsInv, RulesInv
    <2> QED BY <2>1, <2>2, <2>3, <2>4, <2>5, <2>6, <2>7
  <1>2. ViewsInv /\ [ViewsNext]_viewVars => ViewsInv'
    <2> SUFFICES ASSUME ViewsInv, [ViewsNext]_viewVars PROVE ViewsInv'
      OBVIOUS
    <2>1. CASE UNCHANGED viewVars
      <3>1. view' = view /\ tab' = tab
        BY <2>1 DEF viewVars
      <3>2. (FeedInv => FeedInv') /\ (SearchInv => SearchInv') /\ (GraphInv => GraphInv') /\ (TargetInv => TargetInv')
        BY <3>1 DEF FeedInv, SearchInv, GraphInv, TargetInv
      <3>3. StreamInv => StreamInv'
        BY <3>1 DEF StreamInv, Current
      <3>4. \A q \in view.requests : InStep(q) => InStep(q)'
        BY <3>1 DEF InStep
      <3>5. RulesInv => RulesInv'
        BY <3>1, <3>4 DEF RulesInv
      <3> QED BY <3>1, <3>2, <3>3, <3>5 DEF ViewsInv
    <2>2. CASE ReceiveDecision \/ PauseResume \/ SocketTurns
      <3>1. tab = "feed" /\ tab' = "feed"
        BY <2>2 DEF ReceiveDecision, PauseResume, SocketTurns, Show
      <3> QED BY <2>2, <3>1, FeedStep DEF ViewsInv
    <2>3. CASE \/ \E s \in 1 .. MaxViewCalls : tab = "stream" /\ s <= Current /\ (StreamConnects(s) \/ StreamDrops(s))
               \/ Broadcast \/ RetryConnection
      <3>1. tab = "stream" /\ tab' = "stream"
        BY <2>3 DEF StreamConnects, StreamDrops, Broadcast, RetryConnection, Show
      <3> QED BY <2>3, <3>1, StreamStep DEF ViewsInv
    <2>4. CASE \/ \E q \in Words : TypeQuery(q) \/ ResultsArrive(q) \/ SearchFails(q)
               \/ ClearQuery \/ DoSearch \/ AbortSettles
      <3>1. tab = "search" /\ tab' = "search"
        BY <2>4 DEF TypeQuery, ResultsArrive, SearchFails, ClearQuery, DoSearch, AbortSettles, Show
      <3> QED BY <2>4, <3>1, SearchStep DEF ViewsInv
    <2>5. CASE \/ \E n \in Words : ClickNode(n) \/ FilterChange(n) \/ HighlightNodes(n)
               \/ FilterChange("all") \/ ClosePanel \/ Analyze \/ AnalysisArrives \/ AnalysisFails
      <3>1. tab = "graph" /\ tab' = "graph"
        BY <2>5 DEF ClickNode, FilterChange, HighlightNodes, ClosePanel, Analyze, AnalysisArrives, AnalysisFails, Show
      <3> QED BY <2>5, <3>1, GraphStep DEF ViewsInv
    <2>6. CASE \/ AddTarget
               \/ \E t \in 1 .. MaxViewCalls :
                     \/ TestConnection(t) \/ RemoveTarget(t) \/ SelectTarget(t)
                     \/ \E y \in {"connected", "failed"} : TestAnswered(t, y)
      <3>1. tab = "targets" /\ tab' = "targets"
        BY <2>6 DEF AddTarget, TestConnection, RemoveTarget, SelectTarget, TestAnswered, Show
      <3> QED BY <2>6, <3>1, TargetsStep DEF ViewsInv
    <2>7. CASE \/ EditRules \/ SliderFires \/ \E w \in Weights : MoveSlider(w)
               \/ tab = "rules" /\ \E q \in view.requests : ServerActs(q) \/ RuleAnswer(q) \/ RuleError(q)
      <3>1. tab = "rules" /\ tab' = "rules"
        BY <2>7 DEF EditRules, SliderFires, AskForRules, MoveSlider, ServerActs, RuleAnswer, RuleError, Show
      <3> QED BY <2>7, <3>1, RulesStep DEF ViewsInv
    <2> QED BY <2>1, <2>2, <2>3, <2>4, <2>5, <2>6, <2>7 DEF ViewsNext
  <1> QED BY <1>1, <1>2, PTL DEF ViewsSpec

(* What a view shows is what it was given: the feed the newest decisions      *)
(* received before it was paused (LiveFeedPage.tsx:154), the stream each       *)
(* decision once (EventStream.tsx:29), the search the cases of what is in its  *)
(* box (CaseReviewQueue.tsx:47), the panel the analysis of its node            *)
(* (GraphIntelPage.tsx:692), the targets their tests (fraud-tester.store.ts:   *)
(* 284) and the rule list the rules of the server (admin.store.ts:102), with   *)
(* the exceptions the property names.                                          *)
THEOREM ViewsAreFaithful == ViewsSpec => []ViewsShowTheirData
  <1>1. ViewsInv => ViewsShowTheirData
    <2> SUFFICES ASSUME ViewsInv PROVE ViewsShowTheirData
      OBVIOUS
    <2>1. CASE tab = "feed"
      BY <2>1 DEF ViewsInv, FeedInv, ViewsShowTheirData, FeedShowsTheNewest
    <2>2. CASE tab = "stream"
      <3>1. StreamInv
        BY <2>2 DEF ViewsInv
      <3>2. DOMAIN view.events = 1 .. Len(view.events) /\ Last(view.sockets) = view.sockets[Current]
        BY <3>1 DEF StreamInv, Last, Current
      <3>3. StreamShowsEachOnce
        BY <3>1, <3>2 DEF StreamInv, StreamShowsEachOnce
      <3> QED BY <2>2, <3>3 DEF ViewsShowTheirData
    <2>3. CASE tab = "search"
      BY <2>3 DEF ViewsInv, SearchInv, ViewsShowTheirData, SearchShowsItsQuery
    <2>4. CASE tab = "graph"
      BY <2>4 DEF ViewsInv, GraphInv, ViewsShowTheirData, PanelShowsItsNode
    <2>5. CASE tab = "targets"
      BY <2>5 DEF ViewsInv, TargetInv, ViewsShowTheirData, TargetsAreTested
    <2>6. CASE tab = "rules"
      BY <2>6 DEF ViewsInv, RulesInv, ViewsShowTheirData, ListShowsTheRules
    <2>7. CASE tab \notin {"feed", "stream", "search", "graph", "targets", "rules"}
      BY <2>7 DEF ViewsShowTheirData
    <2> QED BY <2>1, <2>2, <2>3, <2>4, <2>5, <2>6, <2>7
  <1> QED BY <1>1, ViewsInvariance, PTL
==============================================================================

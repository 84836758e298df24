------------------------------ MODULE ClientSdks ------------------------------
(***************************************************************************)
(* The web and the mobile SDK: a page (an app) identifies its device, then  *)
(* buffers events and posts them in batches.  The web batcher puts a batch  *)
(* it could not send back at the front of its buffer; the mobile one gives  *)
(* it up.  The server is external: it accepts a batch, refuses it or fails. *)
(***************************************************************************)
EXTENDS Naturals, Integers, Sequences, FiniteSets, SequencesExt, FiniteSetsExt

CONSTANTS
    maxBatchSize,       \* 10 in both SDKs
    maxRetries,         \* 3 in both SDKs
    DeviceIds,          \* what identify answers, or the app generates
    NoDevice,           \* no device id yet
    MaxEvents,          \* bound on track() calls of each SDK
    MaxLives            \* bound on pages loaded (apps started)

ASSUME SdkBounds ==
    /\ maxBatchSize \in Nat \ {0} /\ maxRetries \in Nat \ {0}
    /\ MaxEvents \in Nat /\ MaxLives \in Nat \ {0} /\ NoDevice \notin DeviceIds

Sdks == {"web", "mobile"}

VARIABLES
    sdk,            \* which of the two this client runs
    buffer,         \* sequence of events, <<number, device id>>
    sending,        \* set of [batch, attempt, waiting]: posts under way
    timer,          \* the flush interval runs
    deviceId,       \* the id in memory
    stored,         \* the id in localStorage or AsyncStorage
    pushed,         \* number of events tracked
    accepted,       \* events the server took
    dropped,        \* events gone with their page, or given up
    lives           \* pages loaded

sdkVars == <<sdk, buffer, sending, timer, deviceId, stored, pushed, accepted, dropped, lives>>

SdkInit ==
    /\ sdk \in Sdks
    /\ buffer = <<>> /\ sending = {} /\ timer = FALSE
    /\ deviceId = NoDevice /\ stored = NoDevice
    /\ pushed = 0 /\ accepted = {} /\ dropped = {} /\ lives = 1

-----------------------------------------------------------------------------
(* Buffer and batches *)

\* flush(): the whole buffer becomes one batch.
Flush(events) ==
    /\ buffer' = <<>>
    /\ sending' = sending \union {[batch |-> events, attempt |-> 0, waiting |-> FALSE]}

\* push() and add(): a full buffer is flushed at once.
Buffered(events) ==
    IF Len(events) >= maxBatchSize
      THEN Flush(events)
      ELSE buffer' = events /\ UNCHANGED sending

\* track(): the mobile client throws before init() has given it a device id.
Track ==
    /\ pushed < MaxEvents
    /\ sdk = "mobile" => deviceId # NoDevice
    /\ pushed' = pushed + 1
    /\ Buffered(Append(buffer, <<pushed + 1, deviceId>>))
    /\ UNCHANGED <<sdk, timer, deviceId, stored, accepted, dropped, lives>>

\* The interval fires, or the page calls flush().
TimedFlush ==
    /\ buffer # <<>>
    /\ Flush(buffer)
    /\ UNCHANGED <<sdk, timer, deviceId, stored, pushed, accepted, dropped, lives>>

\* The last failure of a batch: back to the front of the buffer, or gone.
Discard(batch) == UNCHANGED buffer
PutBack(batch) == buffer' = batch \o buffer

GiveUp(p) ==
    /\ sending' = sending \ {p}
    /\ \/ sdk = "web" /\ PutBack(p.batch) /\ UNCHANGED dropped
       \/ sdk = "mobile" /\ dropped' = dropped \union ToSet(p.batch) /\ UNCHANGED buffer

\* withRetry and sendWithRetry: wait and try again, unless it was the last time.
TryAgain(p) ==
    \/ p.attempt >= maxRetries - 1 /\ GiveUp(p)
    \/ /\ p.attempt < maxRetries - 1
       /\ sending' = (sending \ {p}) \union {[p EXCEPT !.waiting = TRUE]}
       /\ UNCHANGED <<buffer, dropped>>

\* The status of the answer, or "none" when fetch() rejects: the server may
\* have taken the batch even then.
Statuses == {"2xx", "400", "429", "4xx", "5xx", "none"}

Retried == IF sdk = "web" THEN {"5xx", "none"} ELSE {"429", "none"}

Answer(p, status) ==
    /\ p \in sending /\ ~p.waiting
    /\ \E taken \in BOOLEAN :
           /\ status = "2xx" => taken
           /\ status \notin {"2xx", "none"} => ~taken
           /\ accepted' = IF taken THEN accepted \union ToSet(p.batch) ELSE accepted
    /\ \/ status = "2xx" /\ sending' = sending \ {p} /\ UNCHANGED <<buffer, dropped>>
       \/ status \in Retried /\ TryAgain(p)
       \/ status \notin Retried \union {"2xx"} /\ GiveUp(p)
    /\ UNCHANGED <<sdk, timer, deviceId, stored, pushed, lives>>

EndBackoff(p) ==
    /\ p \in sending /\ p.waiting
    /\ sending' = (sending \ {p}) \union {[p EXCEPT !.waiting = FALSE, !.attempt = @ + 1]}
    /\ UNCHANGED <<sdk, buffer, timer, deviceId, stored, pushed, accepted, dropped, lives>>

-----------------------------------------------------------------------------
(* Life cycle *)

\* identify(): the device id of the answer, or null for any failure.
Identified == DeviceIds \union {NoDevice}

\* setDeviceId: localStorage may be unavailable, and then nothing is stored.
SetDeviceId(id) == stored' \in {id, stored}

\* init() of the web SDK: identify, remember the answer, start the timer; a
\* failed identify leaves the id of an earlier page.
WebInit ==
    /\ sdk = "web" /\ ~timer
    /\ \E answer \in Identified :
           IF answer = NoDevice
             THEN UNCHANGED <<deviceId, stored>>
             ELSE deviceId' = answer /\ SetDeviceId(answer)
    /\ timer' = TRUE
    /\ UNCHANGED <<sdk, buffer, sending, pushed, accepted, dropped, lives>>

\* init() of the mobile client: the stored id, or a new one that is stored.
MobileInit ==
    /\ sdk = "mobile" /\ ~timer
    /\ \E id \in DeviceIds :
           /\ stored # NoDevice => id = stored
           /\ deviceId' = id /\ stored' = id
    /\ timer' = TRUE
    /\ UNCHANGED <<sdk, buffer, sending, pushed, accepted, dropped, lives>>

\* destroy(): the timer stops; the buffer is neither flushed nor cleared.
Destroy ==
    /\ timer
    /\ timer' = FALSE
    /\ UNCHANGED <<sdk, buffer, sending, deviceId, stored, pushed, accepted, dropped, lives>>

InFlight == UNION {ToSet(p.batch) : p \in sending}

\* A new page (app start): what was in memory is gone, and the constructor of
\* the web SDK reads the stored id.
Reload ==
    /\ lives < MaxLives
    /\ lives' = lives + 1
    /\ dropped' = dropped \union ToSet(buffer) \union InFlight
    /\ buffer' = <<>> /\ sending' = {} /\ timer' = FALSE
    /\ deviceId' = IF sdk = "web" THEN stored ELSE NoDevice
    /\ UNCHANGED <<sdk, stored, pushed, accepted>>

SdkNext ==
    \/ WebInit \/ MobileInit \/ Track \/ TimedFlush \/ Destroy \/ Reload
    \/ \E p \in sending :
           \/ EndBackoff(p)
           \/ \E status \in Statuses : Answer(p, status)

SdkSpec == SdkInit /\ [][SdkNext]_sdkVars
-----------------------------------------------------------------------------
(* BehavioralTracker: what getMetrics makes of the recorded events.  Times  *)
(* and positions are integers; ratios are pairs <<numerator, denominator>>. *)

LastOf(seq, n) == IF Len(seq) <= n THEN seq ELSE SubSeq(seq, Len(seq) - n + 1, Len(seq))

onClick(clicks, time) == LastOf(Append(clicks, time), 20)
onScroll(scrolls, event) == LastOf(Append(scrolls, event), 100)

\* A move by a fraction of a pixel (positions in tenths of one) is natural.
onMouseMove(positions, e) ==
    [jitter    |-> /\ positions # <<>>
                   /\ LET p == Last(positions)
                      IN  (e.x - p.x) % 10 # 0 \/ (e.y - p.y) % 10 # 0,
     positions |-> LastOf(Append(positions, e), 50)]

\* Squared coefficient of variation of the last intervals between clicks.
computeTimingCv(clicks) ==
    LET recent == LastOf(clicks, 10)
        n == Len(recent) - 1
        gap(i) == recent[i + 1] - recent[i]
        sum == MapThenSumSet(gap, 1 .. n)
        squares == MapThenSumSet(LAMBDA i : gap(i) * gap(i), 1 .. n)
    IN  IF n < 1 \/ sum = 0 THEN <<0, 1>> ELSE <<n * squares - sum * sum, sum * sum>>

computeScrollVelocity(scrolls) ==
    LET first == Head(scrolls)
        last == Last(scrolls)
    IN  IF Len(scrolls) < 2 \/ last.time = first.time
          THEN <<0, 1>>
          ELSE <<IF last.y >= first.y THEN last.y - first.y ELSE first.y - last.y,
                 last.time - first.time>>

-----------------------------------------------------------------------------
(* Properties *)

SdkTypeOK ==
    /\ sdk \in Sdks /\ timer \in BOOLEAN /\ lives \in 1 .. MaxLives
    /\ pushed \in 0 .. MaxEvents /\ Len(buffer) <= pushed
    /\ {deviceId, stored} \subseteq Identified
    /\ \A p \in sending : p.batch # <<>> /\ p.attempt \in 0 .. maxRetries - 1

\* What a page tracked is in its buffer, in exactly one post under way, or
\* with the server, through refusals, failures, retries and overlapping
\* flushes; only leaving the page, or the mobile client giving up, loses it.
EventsSurviveFailures ==
    /\ {e[1] : e \in ToSet(buffer) \union InFlight \union accepted \union dropped} = 1 .. pushed
    /\ IsInjective(buffer) /\ ToSet(buffer) \intersect InFlight = {}
    /\ \A p, q \in sending : p = q \/ ToSet(p.batch) \intersect ToSet(q.batch) = {}
=============================================================================

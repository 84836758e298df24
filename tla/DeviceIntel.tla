------------------------------ MODULE DeviceIntel ------------------------------
(***************************************************************************)
(* device-intel-service: identify() finds the device of a set of attributes *)
(* in Redis or in the devices table, by its fingerprint or a similar one,   *)
(* and updates or registers it; HTTP callers and the consumer of events.raw *)
(* run it at the same time.  A step is what happens between two awaits.     *)
(***************************************************************************)
EXTENDS RiskScores, Naturals, Sequences, FiniteSets

CONSTANTS
    Callers,        \* HTTP requests that may run at the same time
    Kafka,          \* the consumer's handler
    Attrs,          \* sets of device attributes clients send
    Fingerprint,    \* [Attrs -> fingerprint]
    Similar,        \* pairs of fingerprints with one prefix and a similarity over the threshold
    Emulated,       \* [Attrs -> the confidence of the emulator analysis, and its verdict]
    Platform,       \* [Attrs -> platform]
    DeviceTopic,    \* sequence of events: [id, full or not, attrs]
    Calendar,       \* the days on which something happens
    RetentionDays,
    None,
    MaxDevices, MaxCalls, MaxDeviceFaults     \* bounds: registrations, calls, failures

Fingerprints == {Fingerprint[a] : a \in Attrs}
DeviceIds == 1 .. MaxDevices
Procs == Callers \union {Kafka}
TrustScores == 0 .. 10000     \* hundredths

DeviceRecords ==
    [fp : Fingerprints, id : DeviceIds, attrs : Attrs, emulator : BOOLEAN, trust : TrustScores,
     first : Nat, seen : Nat]

\* An identify(), a match of fuzzyMatch() alone or a look-up by id, and the
\* await it is at.
CallRecords ==
    [op : {"identify", "match", "get"},
     at : {"cacheGet", "exact", "fuzzy", "cacheSet", "update", "invalidateGet", "invalidateDel",
           "register", "cacheNew", "idCacheGet", "select", "end"},
     attrs : Attrs, id : DeviceIds \union {None}, device : DeviceRecords \union {None},
     cached : DeviceRecords \union {None}, new : BOOLEAN, expected : BOOLEAN]

ASSUME DeviceAssumption ==
    /\ Kafka \notin Callers /\ Calendar \subseteq Nat /\ 0 \in Calendar
    /\ RetentionDays \in Nat /\ {MaxDevices, MaxCalls, MaxDeviceFaults} \subseteq Nat
    /\ None \notin DeviceRecords \union CallRecords
ASSUME AttrsAssumption ==
    /\ \A a \in Attrs : Emulated[a].emulator \in BOOLEAN /\ Emulated[a].confidence \in 0 .. 100
    /\ \A i \in DOMAIN DeviceTopic : DeviceTopic[i].attrs \in Attrs
    /\ DeviceTopic \in Seq({DeviceTopic[i] : i \in DOMAIN DeviceTopic})

VARIABLES
    rows,       \* the devices table: [Fingerprints -> row or None]
    lastId,     \* ids given out
    byFp, byId, \* Redis: the cached device of a fingerprint, of an id
    call,       \* [Procs -> the call under way, None when idle]
    answers,    \* the answer of each ended identify(), with what was expected of it
    offset,     \* position of the event the consumer is at
    processed,  \* events in processed_events
    today,
    known,      \* history: <<fingerprint, id>> answered by an identify()
    overlapped, \* history: two calls ran at the same time
    calls, failures

deviceVars == <<rows, lastId, byFp, byId, call, answers, offset, processed, today, known, overlapped,
                calls, failures>>
redis == <<byFp, byId>>
table == <<rows, lastId>>
outer == <<answers, offset, processed, today, known, overlapped, calls>>

DeviceInit ==
    /\ rows = [f \in Fingerprints |-> None] /\ lastId = 0
    /\ byFp = [f \in Fingerprints |-> None] /\ byId = [d \in DeviceIds |-> None]
    /\ call = [p \in Procs |-> None] /\ answers = {}
    /\ offset = 1 /\ processed = {}
    /\ today = 0 /\ known = {} /\ overlapped = FALSE /\ calls = 0 /\ failures = 0

-----------------------------------------------------------------------------
(* Calls *)

Idle(p) == call[p] = None
At(p, step) == ~Idle(p) /\ call[p].at = step
Fp(p) == Fingerprint[call[p].attrs]
Goto(p, step) == call' = [call EXCEPT ![p].at = step]
GotoWith(p, step, device) == call' = [call EXCEPT ![p].at = step, ![p].device = device]

Start(p, op, step, attrs, id) ==
    /\ Idle(p)
    /\ call' = [call EXCEPT ![p] =
           [op |-> op, at |-> step, attrs |-> attrs, id |-> id, device |-> None,
            cached |-> None, new |-> FALSE,
            expected |-> \E d \in DeviceIds : <<Fingerprint[attrs], d>> \in known]]
    /\ overlapped' = (overlapped \/ \E q \in Procs \ {p} : ~Idle(q))

\* POST /v1/devices/identify, GET /v1/devices/:id and its history.
Request(p) ==
    /\ p \in Callers /\ calls < MaxCalls
    /\ calls' = calls + 1
    /\ \E a \in Attrs :
         \/ Start(p, "identify", "cacheGet", a, None)
         \/ \E d \in 1 .. lastId : Start(p, "get", "idCacheGet", a, d)
    /\ UNCHANGED <<table, redis, answers, offset, processed, today, known, failures>>

\* handleMessage: an event with all attributes is identified, one with only
\* a fingerprint is matched, and one seen before is skipped.
Consume ==
    /\ Idle(Kafka) /\ offset <= Len(DeviceTopic)
    /\ LET e == DeviceTopic[offset]
       IN  IF e.id \in processed
             THEN offset' = offset + 1 /\ UNCHANGED <<call, overlapped>>
             ELSE /\ Start(Kafka, IF e.full THEN "identify" ELSE "match", "cacheGet", e.attrs, None)
                  /\ UNCHANGED offset
    /\ UNCHANGED <<table, redis, answers, processed, today, known, calls, failures>>

-----------------------------------------------------------------------------
(* fuzzyMatch *)

\* What identify() does once fuzzyMatch has a device, or none.
AfterMatch(p, device) ==
    IF call[p].op # "identify" THEN GotoWith(p, "end", device)
    ELSE IF device = None THEN GotoWith(p, "register", None)
    ELSE GotoWith(p, "update", device)

CacheGet(p) ==
    /\ At(p, "cacheGet")
    /\ IF byFp[Fp(p)] # None THEN AfterMatch(p, byFp[Fp(p)]) ELSE Goto(p, "exact")
    /\ UNCHANGED <<table, redis, outer, failures>>

FindNothing(p) ==
    /\ At(p, "exact")
    /\ Goto(p, "fuzzy")
    /\ UNCHANGED <<table, redis, outer, failures>>

FindExact(p) ==
    /\ At(p, "exact")
    /\ IF rows[Fp(p)] # None THEN GotoWith(p, "cacheSet", rows[Fp(p)]) ELSE Goto(p, "fuzzy")
    /\ UNCHANGED <<table, redis, outer, failures>>

Candidates(p) == {f \in Fingerprints : <<Fp(p), f>> \in Similar /\ rows[f] # None}

FindSimilar(p) ==
    /\ At(p, "fuzzy")
    /\ \/ Candidates(p) = {} /\ AfterMatch(p, None)
       \/ \E f \in Candidates(p) : GotoWith(p, "cacheSet", rows[f])
    /\ UNCHANGED <<table, redis, outer, failures>>

SetBoth(device) ==
    /\ byFp' = [byFp EXCEPT ![device.fp] = device]
    /\ byId' = [byId EXCEPT ![device.id] = device]

CacheSet(p) ==
    /\ At(p, "cacheSet")
    /\ SetBoth(call[p].device)
    /\ AfterMatch(p, call[p].device)
    /\ UNCHANGED <<table, outer, failures>>

-----------------------------------------------------------------------------
(* identify *)

\* The trust score is computed from the device as it was found, in Redis or
\* in the table.
TrustNow(p) ==
    LET d == call[p].device
        a == call[p].attrs
    IN  ReturningTrust(Emulated[a].emulator, Emulated[a].confidence,
            today - d.first, today - d.seen,
            Fingerprint[a] = Fingerprint[d.attrs], Platform[a] = Platform[d.attrs])

\* updateDeviceLastSeen: no row when the device was purged meanwhile.
\* is_emulator keeps its first value.
Update(p) ==
    /\ At(p, "update")
    /\ LET d == call[p].device
           f == d.fp
       IN  rows' = IF rows[f] # None /\ rows[f].id = d.id
                     THEN [rows EXCEPT ![f].seen = today, ![f].attrs = call[p].attrs,
                                       ![f].trust = TrustNow(p)]
                     ELSE rows
    /\ Goto(p, "invalidateGet")
    /\ UNCHANGED <<lastId, redis, outer, failures>>

\* invalidate: the fingerprint's key is known from the id's key only.
InvalidateGet(p) ==
    /\ At(p, "invalidateGet")
    /\ call' = [call EXCEPT ![p].at = "invalidateDel", ![p].cached = byId[call[p].device.id]]
    /\ UNCHANGED <<table, redis, outer, failures>>

DropId(cached) == UNCHANGED byFp
DropFingerprint(cached) ==
    byFp' = IF cached = None THEN byFp ELSE [byFp EXCEPT ![cached.fp] = None]

InvalidateDel(p) ==
    /\ At(p, "invalidateDel")
    /\ byId' = [byId EXCEPT ![call[p].device.id] = None]
    /\ DropFingerprint(call[p].cached)
    /\ Goto(p, "end")
    /\ UNCHANGED <<table, outer, failures>>

\* registerDevice: INSERT ... ON CONFLICT (merchant_id, fingerprint) DO UPDATE;
\* whoever gets here answers isNew.
Register(p) ==
    /\ At(p, "register")
    /\ LET f == Fp(p)
           a == call[p].attrs
           emulator == Emulated[a].emulator
           row == IF rows[f] = None
                    THEN [fp |-> f, id |-> lastId + 1, attrs |-> a, emulator |-> emulator,
                          trust |-> InitialTrust(emulator, Emulated[a].confidence),
                          first |-> today, seen |-> today]
                    ELSE [rows[f] EXCEPT !.attrs = a, !.emulator = emulator, !.seen = today]
       IN  /\ rows[f] = None => lastId < MaxDevices
           /\ rows' = [rows EXCEPT ![f] = row]
           /\ lastId' = IF rows[f] = None THEN lastId + 1 ELSE lastId
           /\ call' = [call EXCEPT ![p].at = "cacheNew", ![p].device = row, ![p].new = TRUE]
    /\ UNCHANGED <<redis, outer, failures>>

CacheNew(p) ==
    /\ At(p, "cacheNew")
    /\ SetBoth(call[p].device)
    /\ Goto(p, "end")
    /\ UNCHANGED <<table, outer, failures>>

-----------------------------------------------------------------------------
(* getDeviceById, and the end of a call *)

IdCacheGet(p) ==
    /\ At(p, "idCacheGet")
    /\ IF byId[call[p].id] # None THEN GotoWith(p, "end", byId[call[p].id]) ELSE Goto(p, "select")
    /\ UNCHANGED <<table, redis, outer, failures>>

Select(p) ==
    /\ At(p, "select")
    /\ LET found == {f \in Fingerprints : rows[f] # None /\ rows[f].id = call[p].id}
       IN  IF found = {} THEN Goto(p, "end") ELSE \E f \in found : GotoWith(p, "cacheSet", rows[f])
    /\ UNCHANGED <<table, redis, outer, failures>>

\* The answer of identify(); its device is known unless it was purged meanwhile.
Answer(p) ==
    LET d == call[p].device
    IN  IF call[p].op = "identify"
          THEN /\ answers' = {[new |-> call[p].new, expected |-> call[p].expected]}
               /\ known' = IF rows[d.fp] # None /\ rows[d.fp].id = d.id
                             THEN known \union {<<Fp(p), d.id>>} ELSE known
          ELSE UNCHANGED <<answers, known>>

EndCall(p) ==
    /\ p \in Callers /\ At(p, "end")
    /\ call' = [call EXCEPT ![p] = None]
    /\ Answer(p)
    /\ UNCHANGED <<table, redis, offset, processed, today, overlapped, calls, failures>>

\* INSERT INTO processed_events, and the consumer goes on.
MarkProcessed ==
    /\ At(Kafka, "end")
    /\ call' = [call EXCEPT ![Kafka] = None]
    /\ processed' = processed \union {DeviceTopic[offset].id}
    /\ offset' = offset + 1
    /\ Answer(Kafka)
    /\ UNCHANGED <<table, redis, today, overlapped, calls, failures>>

-----------------------------------------------------------------------------
(* Failures, expiry and retention *)

\* Redis rejects: a read is a miss, a write is skipped.
RedisFails(p) ==
    /\ failures < MaxDeviceFaults /\ failures' = failures + 1
    /\ \/ At(p, "cacheGet") /\ Goto(p, "exact")
       \/ At(p, "idCacheGet") /\ Goto(p, "select")
       \/ At(p, "cacheSet") /\ AfterMatch(p, call[p].device)
       \/ (At(p, "cacheNew") \/ At(p, "invalidateGet") \/ At(p, "invalidateDel")) /\ Goto(p, "end")
    /\ UNCHANGED <<table, redis, outer>>

\* PostgreSQL rejects: the call throws.  handleMessage logs it and the consumer
\* moves on: without a mark from an event with all attributes, but to the mark
\* of one that was only matched.
TableFails(p) ==
    /\ failures < MaxDeviceFaults /\ failures' = failures + 1
    /\ \E step \in {"exact", "fuzzy", "update", "register", "select"} : At(p, step)
    /\ IF call[p].op = "match"
         THEN Goto(p, "end") /\ UNCHANGED offset
         ELSE /\ call' = [call EXCEPT ![p] = None]
              /\ offset' = IF p = Kafka THEN offset + 1 ELSE offset
    /\ UNCHANGED <<table, redis, answers, processed, today, known, overlapped, calls>>

\* Both keys of a device were set in one pipeline with one TTL and go together.
Cached == ({byFp[f] : f \in Fingerprints} \union {byId[d] : d \in DeviceIds}) \ {None}

ExpireCached(d) ==
    /\ \E c \in Cached : c.id = d
    /\ byId' = [byId EXCEPT ![d] = None]
    /\ byFp' = [f \in Fingerprints |-> IF byFp[f] # None /\ byFp[f].id = d THEN None ELSE byFp[f]]
    /\ UNCHANGED <<table, call, outer, failures>>

\* purgeOldDevices deletes rows and leaves Redis alone.
Purge(f) ==
    /\ rows[f] # None /\ today - rows[f].seen > RetentionDays
    /\ rows' = [rows EXCEPT ![f] = None]
    /\ known' = {k \in known : k[2] # rows[f].id}
    /\ call' = [p \in Procs |-> IF Idle(p) THEN None ELSE [call[p] EXCEPT !.expected = FALSE]]
    /\ UNCHANGED <<lastId, redis, answers, offset, processed, today, overlapped, calls, failures>>

NextDay ==
    /\ today' \in {d \in Calendar : d > today}
    /\ \A p \in Procs : Idle(p)
    /\ Cached = {}         \* the TTL is shorter than the days between
    /\ UNCHANGED <<table, redis, call, answers, offset, processed, known, overlapped, calls, failures>>

Step(p) ==
    \/ CacheGet(p) \/ FindExact(p) \/ FindSimilar(p) \/ CacheSet(p)
    \/ Update(p) \/ InvalidateGet(p) \/ InvalidateDel(p) \/ Register(p) \/ CacheNew(p)
    \/ IdCacheGet(p) \/ Select(p) \/ EndCall(p)

DeviceNext ==
    \/ \E p \in Procs : Request(p) \/ Step(p) \/ RedisFails(p) \/ TableFails(p)
    \/ Consume \/ MarkProcessed \/ NextDay
    \/ \E d \in DeviceIds : ExpireCached(d)
    \/ \E f \in Fingerprints : Purge(f)

DeviceSpec == DeviceInit /\ [][DeviceNext]_deviceVars
-----------------------------------------------------------------------------
(* Properties *)

Devices == Cached \union ({rows[f] : f \in Fingerprints} \ {None})

DeviceTypeOK ==
    /\ lastId \in 0 .. MaxDevices
    /\ \A d \in Devices :
         d \in DeviceRecords /\ d.id <= lastId /\ d.first <= d.seen /\ d.seen <= today
    /\ \A f \in Fingerprints : rows[f] # None => rows[f].fp = f
    /\ \A p \in Procs : ~Idle(p) => call[p] \in CallRecords
    /\ offset \in 1 .. Len(DeviceTopic) + 1
    /\ processed \subseteq {DeviceTopic[i].id : i \in DOMAIN DeviceTopic}
    /\ known \subseteq Fingerprints \X DeviceIds
    /\ today \in Calendar /\ calls \in 0 .. MaxCalls /\ failures \in 0 .. MaxDeviceFaults

\* A device that an identify() has answered for stays known: until it is
\* purged, no identify() of its fingerprint that starts later answers isNew,
\* whatever Redis has lost and whoever runs beside it.
KnownDeviceIsNotNew == \A a \in answers : a.expected => ~a.new

\* Calls that never overlapped and never lost a Redis command leave no stale
\* device behind: what Redis holds is what the table holds, unless the row
\* was purged.
QuietCacheIsFresh ==
    (~overlapped /\ failures = 0 /\ \A p \in Procs : Idle(p)) =>
        \A d \in Cached : rows[d.fp] \in {d, None} \/ rows[d.fp].id # d.id

\* Both hold.
DevicesAreRecognised == KnownDeviceIsNotNew /\ QuietCacheIsFresh
=============================================================================

---------------------------- MODULE VelocityEngine ----------------------------
(***************************************************************************)
(* velocity-service: a Kafka consumer counts every raw event under its      *)
(* customer, its device and its address in Redis, once per event id; reads  *)
(* prune the counters and count them over sliding windows.  Time is in      *)
(* hours.  A command sequence that Redis executes (a pipeline) is one step; *)
(* its replies carry an error per command, which the code does not read.    *)
(***************************************************************************)
EXTENDS Naturals, Sequences, FiniteSets, FiniteSetsExt

CONSTANTS
    Topic,              \* sequence of event ids: one partition of events.raw, with repetitions
    EventOf,            \* [event id -> customer, device, ip, session, amount, at, test]
    NoEntity,           \* an absent customer, device, address or session
    Window10m, Window1h, Window24h, BaselineWindow,
    KeyTtl, BaselineTtl,
    MaxTime,            \* bound on the clock
    MaxFaults,          \* bound on failed Redis calls
    MaxCrashes          \* bound on crashes of the consumer

Events == {Topic[i] : i \in DOMAIN Topic}

ASSUME TopicAssumption == Topic \in Seq(Events) /\ \A e \in Events : EventOf[e].at \in Nat
ASSUME WindowsAssumption ==
    /\ {Window10m, Window1h, Window24h, BaselineWindow, KeyTtl, BaselineTtl} \subseteq Nat
    /\ Window10m <= Window1h /\ Window1h <= Window24h /\ Window24h <= BaselineWindow
    /\ Window24h < KeyTtl /\ BaselineWindow < BaselineTtl
ASSUME TimesAssumption == {MaxTime, MaxFaults, MaxCrashes} \subseteq Nat

VARIABLES
    now,            \* the clock
    next,           \* position of the message the consumer is at
    committed,      \* committed offset: position of the next message after a restart
    pc,             \* "idle", "counting" or "failed"
    pending,        \* keys of the message at hand whose pipeline has not ended
    stragglers,     \* <<key, event>>: pipelines still under way after their handler threw
    markers,        \* events with a vel:processed key
    store,          \* <<key, counter, member>> in Redis
    deadline,       \* [Keys \X Counters -> time at which the counter's key expires]
    faults, crashes,
    tallied,        \* history: what was ever added to store
    farAhead,       \* history: an event was counted long before its time
    excused         \* history: events that lost a call no retry can repair

velocityVars == <<now, next, committed, pc, pending, stragglers, markers, store, deadline, faults,
                  crashes, tallied, farAhead, excused>>
tally == <<tallied, farAhead>>

-----------------------------------------------------------------------------
(* Keys *)

SortedSets == {"tx", "amt", "baseline"}
Counters == SortedSets \union {"udev", "uip", "usess"}

\* Events of the test mode have counters of their own.
Merchant(e) == IF EventOf[e].test THEN "test" ELSE "live"

\* An event without a customer counts for itself.
CustomerOf(e) == IF EventOf[e].customer = NoEntity THEN e ELSE EventOf[e].customer

EntityKeys(e) ==
    {<<Merchant(e), "customer", CustomerOf(e)>>}
        \union {<<Merchant(e), "device", d>> : d \in {EventOf[e].device} \ {NoEntity}}
        \union {<<Merchant(e), "ip", a>> : a \in {EventOf[e].ip} \ {NoEntity}}

Keys == UNION {EntityKeys(e) : e \in Events}

\* The commands of incrementVelocity, without the EXPIRE that follows each.
Additions(k, e) ==
    {<<k, c, e>> : c \in SortedSets}
        \union {<<k, "udev", d>> : d \in {EventOf[e].device} \ {NoEntity}}
        \union {<<k, "uip", a>> : a \in {EventOf[e].ip} \ {NoEntity}}
        \union {<<k, "usess", s>> : s \in {EventOf[e].session} \ {NoEntity}}

ShortTtl(c) == Window24h
TtlOf(c) == IF c = "baseline" THEN BaselineTtl ELSE KeyTtl

\* Its timestamp is further in the future than a TTL exceeds its window.
AheadOfTime(e) ==
    EventOf[e].at + Window24h > now + KeyTtl \/ EventOf[e].at + BaselineWindow > now + BaselineTtl

Add(added) ==
    /\ store' = store \union added
    /\ tallied' = tallied \union added
    /\ farAhead' = (farAhead \/ \E a \in added : a[2] \in SortedSets /\ AheadOfTime(a[3]))
    /\ deadline' = [kc \in Keys \X Counters |->
           IF \E a \in added : a[1] = kc[1] /\ a[2] = kc[2] THEN now + TtlOf(kc[2]) ELSE deadline[kc]]

\* Redis keeps no key without members.
DropEmptyKeys ==
    deadline' = [kc \in Keys \X Counters |->
        IF \E m \in store' : m[1] = kc[1] /\ m[2] = kc[2] THEN deadline[kc] ELSE 0]

VelocityInit ==
    /\ now = 0 /\ next = 1 /\ committed = 1
    /\ pc = "idle" /\ pending = {} /\ stragglers = {}
    /\ markers = {} /\ store = {} /\ tallied = {} /\ farAhead = FALSE /\ excused = {}
    /\ deadline = [kc \in Keys \X Counters |-> 0]
    /\ faults = 0 /\ crashes = 0

Fault == faults < MaxFaults /\ faults' = faults + 1
NoFault == UNCHANGED faults

-----------------------------------------------------------------------------
(* handleMessage *)

Current == Topic[next]
AtEvent == pc = "idle" /\ next <= Len(Topic)

\* SET NX answers that the key was there: a duplicate.
Skip ==
    /\ AtEvent /\ Current \in markers
    /\ next' = next + 1
    /\ UNCHANGED <<now, committed, pc, pending, stragglers, markers, store, deadline,
                   faults, crashes, tally, excused>>

Mark ==
    /\ AtEvent /\ Current \notin markers
    /\ markers' = markers \union {Current}
    /\ pc' = "counting" /\ pending' = EntityKeys(Current)
    /\ UNCHANGED <<now, next, committed, stragglers, store, deadline, faults, crashes,
                   tally, excused>>

\* SET NX is rejected, executed or not; the handler throws and Kafka delivers
\* the message again.
MarkFails ==
    /\ AtEvent /\ Current \notin markers
    /\ Fault
    /\ \/ UNCHANGED <<markers, excused>>
       \/ markers' = markers \union {Current} /\ excused' = excused \union {Current}
    /\ UNCHANGED <<now, next, committed, pc, pending, stragglers, store, deadline, crashes, tally>>

\* A pipeline of the message ends; the last one ends the handler.
Settle(k) ==
    /\ pending' = pending \ {k}
    /\ IF pending = {k}
         THEN pc' = "idle" /\ next' = next + 1
         ELSE UNCHANGED <<pc, next>>

Increment(k) ==
    /\ pc = "counting" /\ k \in pending
    /\ Add(Additions(k, Current))
    /\ Settle(k)
    /\ UNCHANGED <<now, committed, stragglers, markers, faults, crashes, excused>>

\* Some commands of the pipeline fail; exec() resolves all the same.
IncrementPartly(k) ==
    /\ pc = "counting" /\ k \in pending
    /\ Fault
    /\ \E c \in Counters : Add({a \in Additions(k, Current) : a[2] # c})
    /\ Settle(k)
    /\ excused' = excused \union {Current}
    /\ UNCHANGED <<now, committed, stragglers, markers, crashes>>

\* exec() is rejected, the pipeline executed or not: Promise.all gives up on
\* the others, which go on.
IncrementFails(k) ==
    /\ pc = "counting" /\ k \in pending
    /\ Fault
    /\ \/ Add(Additions(k, Current))
       \/ UNCHANGED <<store, deadline, tally>>
    /\ pc' = "failed" /\ pending' = {}
    /\ stragglers' = stragglers \union {<<l, Current>> : l \in pending \ {k}}
    /\ UNCHANGED <<now, next, committed, markers, crashes, excused>>

\* The marker is removed and the error thrown: the message comes again.
KeepMarker == UNCHANGED markers
RemoveMarker == markers' = markers \ {Current}

Unmark ==
    /\ pc = "failed"
    /\ RemoveMarker
    /\ pc' = "idle"
    /\ UNCHANGED <<now, next, committed, pending, stragglers, store, deadline, faults, crashes,
                   tally, excused>>

\* DEL is rejected: the marker stays, and the next delivery is a duplicate.
UnmarkFails ==
    /\ pc = "failed"
    /\ Fault
    /\ pc' = "idle"
    /\ excused' = excused \union {Current}
    /\ UNCHANGED <<now, next, committed, pending, stragglers, markers, store, deadline, crashes, tally>>

EndStraggler(s) ==
    /\ s \in stragglers
    /\ stragglers' = stragglers \ {s}
    /\ Add(Additions(s[1], s[2]))
    /\ UNCHANGED <<now, next, committed, pc, pending, markers, faults, crashes, excused>>

CommitOffset ==
    /\ committed < next
    /\ committed' = next
    /\ UNCHANGED <<now, next, pc, pending, stragglers, markers, store, deadline, faults, crashes,
                   tally, excused>>

\* The process dies and is restarted at the committed offset; a message it
\* had marked and not counted is a duplicate from now on.
Crash ==
    /\ crashes < MaxCrashes
    /\ crashes' = crashes + 1
    /\ next' = committed /\ pc' = "idle" /\ pending' = {} /\ stragglers' = {}
    /\ excused' = excused \union (IF pc = "idle" THEN {} ELSE {Current})
                          \union {s[2] : s \in stragglers}
    /\ UNCHANGED <<now, committed, markers, store, deadline, faults, tally>>

-----------------------------------------------------------------------------
(* Time and reads *)

\* An hour passes; keys whose deadline is reached go.  Pipelines and calls
\* take far less: they belong to the hour in which they began.
Tick ==
    /\ now < MaxTime
    /\ pc = "idle" /\ stragglers = {}
    /\ now' = now + 1
    /\ store' = {m \in store : deadline[<<m[1], m[2]>>] > now'}
    /\ DropEmptyKeys
    /\ UNCHANGED <<next, committed, pc, pending, stragglers, markers, faults, crashes,
                   tally, excused>>

ExpireMarker(e) ==
    /\ e \in markers
    /\ now >= Window24h /\ ~(pc # "idle" /\ e = Current)
    /\ markers' = markers \ {e}
    /\ UNCHANGED <<now, next, committed, pc, pending, stragglers, store, deadline, faults, crashes,
                   tally, excused>>

\* An entry is older than a window when its score is at or below the cutoff.
OlderThan(window, e) == EventOf[e].at + window <= now
Within(window, e) == EventOf[e].at + window >= now

\* getVelocitySignals and getBaseline remove what is out of every window.
GetVelocity(k) ==
    /\ store' = store \ {m \in store :
           /\ m[1] = k
           /\ \/ m[2] \in {"tx", "amt"} /\ OlderThan(Window24h, m[3])
              \/ m[2] = "baseline" /\ OlderThan(BaselineWindow, m[3])}
    /\ store' # store
    /\ DropEmptyKeys
    /\ UNCHANGED <<now, next, committed, pc, pending, stragglers, markers, faults, crashes,
                   tally, excused>>

\* What the read answers, from a given set of members.
Members(from, k, c) == {m[3] : m \in {n \in from : n[1] = k /\ n[2] = c}}
Live(from, k, c) == {e \in Members(from, k, c) : ~OlderThan(Window24h, e)}

SumAmounts(events) == MapThenSumSet(LAMBDA e : EventOf[e].amount, events)

VelocitySignals(from, k) ==
    [tx_count_10m       |-> Cardinality({e \in Live(from, k, "tx") : Within(Window10m, e)}),
     tx_count_1h        |-> Cardinality({e \in Live(from, k, "tx") : Within(Window1h, e)}),
     tx_count_24h       |-> Cardinality(Live(from, k, "tx")),
     amount_sum_1h      |-> SumAmounts({e \in Live(from, k, "amt") : Within(Window1h, e)}),
     amount_sum_24h     |-> SumAmounts(Live(from, k, "amt")),
     unique_devices_24h |-> Cardinality(Members(from, k, "udev")),
     unique_ips_24h     |-> Cardinality(Members(from, k, "uip")),
     unique_sessions_1h |-> Cardinality(Members(from, k, "usess"))]

\* Events of the baseline window; the baseline is this number per hour.
BaselineTotal(from, k) ==
    Cardinality({e \in Members(from, k, "baseline") : ~OlderThan(BaselineWindow, e)})

\* n is at least threshold (3) times the baseline scaled by num/den.
Exceeds(n, total, num, den) == n * BaselineWindow * den >= 3 * total * num

Burst(from, k) ==
    LET s == VelocitySignals(from, k)
        total == BaselineTotal(from, k)
    IN  /\ 10 * total >= BaselineWindow
        /\ \/ Exceeds(s.tx_count_1h, total, 1, 1)
           \/ Exceeds(s.tx_count_24h, total, 24, 1)
           \/ s.unique_devices_24h > 0 /\ Exceeds(s.unique_devices_24h, total, 12, 1)
           \/ s.unique_ips_24h > 0 /\ Exceeds(s.unique_ips_24h, total, 36, 5)
           \/ s.unique_sessions_1h > 0 /\ Exceeds(s.unique_sessions_1h, total, 1, 1)

-----------------------------------------------------------------------------
Handle ==
    \/ Skip \/ Mark \/ Unmark
    \/ \E k \in pending : Increment(k)

VelocityNext ==
    \/ Handle
    \/ MarkFails \/ UnmarkFails \/ CommitOffset \/ Crash \/ Tick
    \/ \E k \in pending : IncrementPartly(k) \/ IncrementFails(k)
    \/ \E s \in stragglers : EndStraggler(s)
    \/ \E e \in Events : ExpireMarker(e)
    \/ \E k \in Keys : GetVelocity(k)

VelocitySpec == VelocityInit /\ [][VelocityNext]_velocityVars

-----------------------------------------------------------------------------
(* Properties *)

VelocityTypeOK ==
    /\ now \in 0 .. MaxTime
    /\ committed \in 1 .. Len(Topic) + 1 /\ next \in committed .. Len(Topic) + 1
    /\ pc \in {"idle", "counting", "failed"}
    /\ pending \subseteq Keys /\ (pc = "counting" <=> pending # {})
    /\ stragglers \subseteq Keys \X Events
    /\ markers \subseteq Events /\ excused \subseteq Events
    /\ \A m \in store : m[1] \in Keys /\ m[2] \in Counters
    /\ deadline \in [Keys \X Counters -> Nat]
    /\ \A k \in Keys, c \in Counters : deadline[<<k, c>>] <= now + TtlOf(c)
    /\ faults \in 0 .. MaxFaults /\ crashes \in 0 .. MaxCrashes
    /\ store \subseteq tallied

\* Every event is counted under each of its entities, also when a call failed
\* and the message came again; only a crash between the marker and the
\* counters, a marker that could not be removed, or a command that failed
\* inside a pipeline loses it.
EventsAreCounted ==
    <>(\A e \in Events \ excused : \A k \in EntityKeys(e) : Additions(k, e) \subseteq tallied)

\* A read answers what the events ever counted amount to: repeated messages
\* count once, and neither pruning nor a key's TTL takes an event out of a
\* window it belongs to, unless an event came with a timestamp further in the
\* future than the TTL exceeds the window.
ReadsAreExact ==
    ~farAhead =>
        \A k \in Keys :
            LET s == VelocitySignals(store, k)
                h == VelocitySignals(tallied, k)
            IN  /\ \A f \in {"tx_count_10m", "tx_count_1h", "tx_count_24h",
                             "amount_sum_1h", "amount_sum_24h"} : s[f] = h[f]
                /\ BaselineTotal(store, k) = BaselineTotal(tallied, k)
=============================================================================

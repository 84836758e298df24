------------------------------ MODULE BattleArena ------------------------------
(***************************************************************************)
(* The dashboard's battle arena (fraud-tester.store) over the fraud-tester  *)
(* server: starting a battle loads socket.io, connects, posts the battle    *)
(* and joins its room; without a server an interval invents the results.    *)
(* The steps of a start go on after it was stopped.                         *)
(***************************************************************************)
EXTENDS FraudTester

CONSTANTS MaxRuns,      \* bound on clicks on start
          MaxFeed,      \* 50 in the code
          MaxHistory    \* 10 in the code

ASSUME ArenaAssumption == {MaxRuns, MaxFeed, MaxHistory} \subseteq Nat

VARIABLES
    ui,         \* battleStatus: "idle", "running" or "completed"
    run,        \* history: number of starts
    importing,  \* history: runs whose import('socket.io-client') has not ended
    sockets,    \* sequence of [run, state, post, battle, seen]: every socket opened
    current,    \* _socket: an index of sockets, or 0
    active,     \* activeBattleId, or 0
    mock,       \* the interval runs
    feed,       \* liveFeed: where each result came from, newest first
    archive,    \* length of battleHistory beyond the three of the demo
    stops,      \* battles whose stop request is on its way
    excused     \* history: stopped before it had joined, or a request was lost

clientVars == <<ui, run, importing, sockets, current, active, mock, feed, archive, stops, excused>>
arenaVars == <<testerVars, clientVars>>

Mocked == 0
ClientInit ==
    /\ ui = "idle" /\ run = 0 /\ importing = {} /\ sockets = <<>> /\ current = 0 /\ active = 0
    /\ mock = FALSE /\ feed = <<>> /\ archive = 0 /\ stops = {} /\ excused = FALSE
ArenaInit == TesterInit /\ ClientInit

UpToCap(s, top) == SubSeq(s, 1, IF Len(s) > top THEN top ELSE Len(s))
AddResult(source) == feed' = UpToCap(<<source>> \o feed, MaxFeed)
Archived == archive' = IF archive < MaxHistory THEN archive + 1 ELSE archive
Socket(s, new) == sockets' = [sockets EXCEPT ![s] = new]

-----------------------------------------------------------------------------
(* startBattle *)

StartBattle ==
    /\ ui # "running" /\ run < MaxRuns
    /\ ui' = "running" /\ run' = run + 1 /\ feed' = <<>> /\ active' = 0
    /\ importing' = importing \union {run + 1}
    /\ UNCHANGED <<testerVars, sockets, current, mock, archive, stops, excused>>

ImportDone(r) ==
    /\ r \in importing /\ importing' = importing \ {r}
    /\ sockets' = Append(sockets, [run |-> r, state |-> "connecting", post |-> "none",
                                   battle |-> 0, seen |-> 0])
    /\ current' = Len(sockets) + 1
    /\ UNCHANGED <<testerVars, ui, run, active, mock, feed, archive, stops, excused>>

ImportFails(r) ==
    /\ r \in importing /\ importing' = importing \ {r} /\ mock' = TRUE
    /\ UNCHANGED <<testerVars, ui, run, sockets, current, active, feed, archive, stops, excused>>

Connected(s) ==
    /\ sockets[s].state = "connecting"
    /\ Socket(s, [sockets[s] EXCEPT !.state = "connected", !.post = "sent"])
    /\ UNCHANGED <<testerVars, ui, run, importing, current, active, mock, feed, archive, stops, excused>>

\* An error, or no connection within 3 s: _socket is forgotten, whichever it is.
FallBack(s) ==
    /\ Socket(s, [sockets[s] EXCEPT !.state = "gone", !.post = "none"])
    /\ current' = 0 /\ mock' = TRUE
    /\ UNCHANGED <<testerVars, ui, run, importing, active, feed, archive, stops>>
ConnectFails(s) == sockets[s].state = "connecting" /\ FallBack(s) /\ UNCHANGED excused

\* The server takes the battle, or refuses it: the answer then has no battleId.
PostArrives(s) ==
    /\ sockets[s].post = "sent"
    /\ \/ /\ AcceptBattle
          /\ Socket(s, [sockets[s] EXCEPT !.post = "answered", !.battle = Len(battles) + 1])
       \/ /\ Busy
          /\ Socket(s, [sockets[s] EXCEPT !.post = "answered"])
          /\ UNCHANGED <<battles, forgotten, emitted, stoppedAt>>
    /\ UNCHANGED <<testerErrors, ui, run, importing, current, active, mock, feed, archive, stops, excused>>

\* The request or its answer is lost.
PostFails(s) ==
    /\ sockets[s].post \in {"sent", "answered"} /\ FallBack(s) /\ excused' = TRUE

PostAnswered(s) ==
    /\ sockets[s].post = "answered"
    /\ active' = sockets[s].battle
    /\ Socket(s, [sockets[s] EXCEPT !.post =
           IF sockets[s].state = "connected" /\ sockets[s].battle # 0 THEN "joining" ELSE "none"])
    /\ UNCHANGED <<testerVars, ui, run, importing, current, mock, feed, archive, stops, excused>>

\* join:battle: what the room was sent before is not sent again.
JoinArrives(s) ==
    /\ sockets[s].post = "joining" /\ sockets[s].state = "connected"
    /\ Socket(s, [sockets[s] EXCEPT !.post = "joined", !.seen = Len(emitted[sockets[s].battle])])
    /\ UNCHANGED <<testerVars, ui, run, importing, current, active, mock, feed, archive, stops, excused>>

-----------------------------------------------------------------------------
(* Results *)

Incoming(s) == emitted[sockets[s].battle][sockets[s].seen + 1]
Pending(s) ==
    /\ sockets[s].post = "joined" /\ sockets[s].state = "connected"
    /\ sockets[s].seen < Len(emitted[sockets[s].battle])
Seen(s) == [sockets[s] EXCEPT !.seen = @ + 1]

ReceiveResult(s) ==
    /\ Pending(s) /\ Incoming(s) # "complete"
    /\ Socket(s, Seen(s))
    /\ IF Incoming(s) = "result" THEN AddResult(sockets[s].battle) ELSE UNCHANGED feed
    /\ UNCHANGED <<testerVars, ui, run, importing, current, active, mock, archive, stops, excused>>

\* _completeBattle disconnects _socket.
ReceiveComplete(s) ==
    /\ Pending(s) /\ Incoming(s) = "complete"
    /\ sockets' = [x \in DOMAIN sockets |->
           IF x = current THEN [sockets[x] EXCEPT !.state = "gone"]
           ELSE IF x = s THEN Seen(s) ELSE sockets[x]]
    /\ current' = 0 /\ mock' = FALSE /\ ui' = "completed" /\ active' = 0 /\ Archived
    /\ UNCHANGED <<testerVars, run, importing, feed, stops, excused>>

MockTick ==
    /\ mock
    /\ IF ui = "running" THEN AddResult(Mocked) /\ UNCHANGED mock ELSE mock' = FALSE /\ UNCHANGED feed
    /\ UNCHANGED <<testerVars, ui, run, importing, sockets, current, active, archive, stops, excused>>

-----------------------------------------------------------------------------
(* stopBattle *)

\* A start that has not joined its room yet.
Underway ==
    importing # {} \/ \E s \in DOMAIN sockets :
        sockets[s].state = "connecting" \/ sockets[s].post \in {"sent", "answered", "joining"}

KeepSocket == sockets
CloseSocket ==
    [x \in DOMAIN sockets |-> IF x = current THEN [sockets[x] EXCEPT !.state = "gone"] ELSE sockets[x]]

StopBattle ==
    /\ ui = "running"
    /\ mock' = FALSE /\ ui' = "completed" /\ active' = 0 /\ Archived
    /\ stops' = IF current # 0 /\ active # 0 THEN stops \union {active} ELSE stops
    /\ sockets' = CloseSocket
    /\ current' = 0
    /\ excused' = (excused \/ Underway)
    /\ UNCHANGED <<testerVars, run, importing, feed>>

StopArrives(b) ==
    /\ b \in stops /\ stops' = stops \ {b}
    /\ IF b \in Known THEN AcceptStop(b) ELSE UNCHANGED <<battles, stoppedAt>>
    /\ UNCHANGED <<forgotten, emitted, testerErrors, ui, run, importing, sockets, current, active,
                   mock, feed, archive, excused>>

StopFails(b) ==
    /\ b \in stops /\ stops' = stops \ {b} /\ excused' = TRUE
    /\ UNCHANGED <<testerVars, ui, run, importing, sockets, current, active, mock, feed, archive>>

ClientStep ==
    \/ StartBattle \/ StopBattle \/ MockTick
    \/ \E r \in importing : ImportDone(r) \/ ImportFails(r)
    \/ \E s \in DOMAIN sockets :
          \/ Connected(s) \/ ConnectFails(s) \/ PostArrives(s) \/ PostFails(s) \/ PostAnswered(s)
          \/ JoinArrives(s) \/ ReceiveResult(s) \/ ReceiveComplete(s)
    \/ \E b \in stops : StopArrives(b) \/ StopFails(b)

ArenaNext == ClientStep \/ \E b \in DOMAIN battles : AgentStep(b) /\ UNCHANGED clientVars
ArenaSpec == ArenaInit /\ [][ArenaNext]_arenaVars
-----------------------------------------------------------------------------
(* Properties *)

ArenaTypeOK ==
    /\ TesterTypeOK
    /\ ui \in {"idle", "running", "completed"} /\ importing \subseteq 1 .. run
    /\ current \in 0 .. Len(sockets) /\ active \in 0 .. Len(battles)
    /\ Len(feed) <= MaxFeed /\ archive \in 0 .. MaxHistory /\ stops \subseteq DOMAIN battles

\* A battle of this page that the server still runs.
Serving(b) == b \in Known /\ battles[b].status = "running"

\* When no start was stopped before it had joined its room and no request was
\* lost: the feed holds the results of one battle, the one of the last
\* start, or invented ones, never both; and once the analyst's stop has
\* arrived, or the report, no battle that a start began runs on the server.
ArenaShowsItsBattle ==
    ~excused =>
        /\ \A i, j \in DOMAIN feed : feed[i] = feed[j]
        /\ \A i \in DOMAIN feed : feed[i] # Mocked =>
              \E s \in DOMAIN sockets : sockets[s].battle = feed[i] /\ sockets[s].run = run
        /\ (ui # "running" /\ stops = {} => \A s \in DOMAIN sockets : ~Serving(sockets[s].battle))
=============================================================================

----------------------------- MODULE DashboardViews -----------------------------
(***************************************************************************)
(* Six views of the dashboard that show what arrives over a socket or as    *)
(* the answer to a request: the live feed, the event stream of the          *)
(* overview, the search box of the review queue, the panel of the graph,    *)
(* the targets of the battle arena and the rules of the administrator.      *)
(* One view is open: tab; view is its state.                                *)
(***************************************************************************)
EXTENDS Integers, Sequences, FiniteSets, SequencesExt, Functions

CONSTANTS
    MAX_EVENTS,     \* length of a feed, 100 and 50 in the code
    MaxDecisions,   \* bound on decisions broadcast
    MaxViewCalls    \* bound on sockets, requests and targets

ASSUME ViewsAssumption == {MAX_EVENTS, MaxDecisions, MaxViewCalls} \subseteq Nat

VARIABLES tab, view
viewVars == <<tab, view>>

None == "none"
Words == {"a", "b"}
Default == 1
Weights == {1, 2}

Cap(s) == SubSeq(s, 1, IF Len(s) > MAX_EVENTS THEN MAX_EVENTS ELSE Len(s))

\* The entries of new, and those of old it does not replace.
Merged(new, old) ==
    [x \in DOMAIN new \union DOMAIN old |-> IF x \in DOMAIN new THEN new[x] ELSE old[x]]
Entry(key, value) == [x \in {key} |-> value]

\* A request of the rule editor; rows is what the server answers.
Request(n, kind, rule, weight) ==
    [n |-> n, kind |-> kind, rule |-> rule, weight |-> weight, stage |-> "sent", rows |-> <<>>]

Fresh ==
    [feed    |-> [arrived |-> 0, received |-> <<>>, shown |-> <<>>, queue |-> <<>>,
                  paused |-> FALSE, online |-> FALSE],
     stream  |-> [arrived |-> 0, sockets |-> <<"connecting">>, status |-> "connecting", events |-> <<>>],
     search  |-> [query |-> "", timer |-> None, sent |-> {}, aborted |-> 0, asked |-> 0,
                  results |-> None, searching |-> FALSE, failed |-> FALSE, stale |-> FALSE],
     graph   |-> [selected |-> None, asked |-> None, result |-> None, late |-> FALSE,
                  mode |-> "all", highlight |-> None],
     targets |-> [status |-> Entry(Default, "unknown"), testing |-> {}, active |-> Default, added |-> 1],
     rules   |-> [rows |-> Entry(1, 1), shown |-> <<>>, slider |-> 0, asked |-> 1,
                  requests |-> {Request(1, "fetch", 0, 0)}, excused |-> FALSE]]

ViewsInit == tab \in DOMAIN Fresh /\ view = Fresh[tab]
Show(new) == view' = new /\ UNCHANGED tab
-----------------------------------------------------------------------------
(* LiveFeedPage: decisions are shown newest first, and queued while paused *)

Prepend(events, queued) == Cap(Reverse(queued) \o events)

ReceiveDecision ==
    /\ tab = "feed" /\ view.arrived < MaxDecisions
    /\ LET n == view.arrived + 1
       IN  IF ~view.online THEN Show([view EXCEPT !.arrived = n])
           ELSE Show([view EXCEPT !.arrived = n, !.received = Append(@, n),
                         !.queue = IF view.paused THEN Append(@, n) ELSE @,
                         !.shown = IF view.paused THEN @ ELSE Prepend(@, <<n>>)])

PauseResume ==
    /\ tab = "feed"
    /\ Show([view EXCEPT !.paused = ~@, !.queue = <<>>, !.shown = Prepend(@, view.queue)])

\* The socket reconnects by itself; what is broadcast meanwhile is missed.
SocketTurns == tab = "feed" /\ Show([view EXCEPT !.online = ~@])

-----------------------------------------------------------------------------
(* EventStream *)

Current == Len(view.sockets)

StreamConnects(s) ==
    /\ tab = "stream" /\ view.sockets[s] \in {"connecting", "retrying"}
    /\ Show([view EXCEPT !.sockets[s] = "connected", !.status = "connected"])

StreamDrops(s) ==
    /\ tab = "stream" /\ view.sockets[s] \in {"connecting", "connected"}
    /\ Show([view EXCEPT !.sockets[s] = "retrying", !.status = "disconnected"])

Broadcast ==
    /\ tab = "stream" /\ view.arrived < MaxDecisions
    /\ LET n      == view.arrived + 1
           copies == Cardinality({s \in DOMAIN view.sockets : view.sockets[s] = "connected"})
       IN  Show([view EXCEPT !.arrived = n, !.events = Cap([i \in 1 .. copies |-> n] \o @)])

\* The button is there while nothing was received; the socket is left first.
Leave(sockets) == [sockets EXCEPT ![Len(sockets)] = "closed"]
RetryConnection ==
    /\ tab = "stream" /\ view.status = "disconnected" /\ view.events = <<>>
    /\ Current < MaxViewCalls
    /\ Show([view EXCEPT !.sockets = Append(Leave(@), "connecting"), !.status = "connecting"])

-----------------------------------------------------------------------------
(* The search box of CaseReviewQueue: 300 ms after the last key *)

TypeQuery(q) ==
    /\ tab = "search" /\ view.asked < MaxViewCalls /\ view.query # q
    /\ Show([view EXCEPT !.query = q, !.timer = q, !.stale = FALSE])

\* Emptying the box cancels the request but not the timer.
ClearQuery ==
    /\ tab = "search" /\ view.query # ""
    /\ Show([view EXCEPT !.query = "", !.results = None, !.searching = FALSE, !.failed = FALSE,
                         !.aborted = @ + Cardinality(view.sent), !.sent = {},
                         !.stale = view.timer # None])

\* The request before is aborted.
NothingAborted(sent) == sent
StillSent(sent) == {}
DoSearch ==
    /\ tab = "search" /\ view.timer # None
    /\ Show([view EXCEPT !.timer = None, !.asked = @ + 1, !.searching = TRUE, !.failed = FALSE,
                         !.aborted = @ + Cardinality(view.sent \ StillSent(view.sent)),
                         !.sent = StillSent(@) \union {view.timer}])

\* Also a refusal, which has no cases.
ResultsArrive(q) ==
    /\ tab = "search" /\ q \in view.sent
    /\ Show([view EXCEPT !.sent = @ \ {q}, !.results = q, !.searching = FALSE])

SearchFails(q) ==
    /\ tab = "search" /\ q \in view.sent
    /\ Show([view EXCEPT !.sent = @ \ {q}, !.failed = TRUE, !.searching = FALSE])

\* The end of an aborted request hides the indicator of the one after it.
AbortSettles ==
    /\ tab = "search" /\ view.aborted > 0
    /\ Show([view EXCEPT !.aborted = @ - 1, !.searching = FALSE])

-----------------------------------------------------------------------------
(* GraphIntelPage *)

ClickNode(n) ==
    /\ tab = "graph"
    /\ Show([view EXCEPT !.selected = n, !.result = None, !.late = view.asked \notin {None, n}])

ClosePanel ==
    /\ tab = "graph" /\ view.selected # None
    /\ Show([view EXCEPT !.selected = None, !.result = None, !.late = view.asked # None])

Analyze ==
    /\ tab = "graph" /\ view.selected # None /\ view.asked = None
    /\ Show([view EXCEPT !.asked = view.selected, !.late = @ /\ view.result # None])

AnalysisArrives ==
    /\ tab = "graph" /\ view.asked # None
    /\ Show([view EXCEPT !.asked = None, !.result = view.asked])

AnalysisFails == tab = "graph" /\ view.asked # None /\ Show([view EXCEPT !.asked = None])

FilterChange(mode) ==
    /\ tab = "graph"
    /\ Show([view EXCEPT !.mode = mode, !.highlight = IF mode = "all" THEN None ELSE mode])

\* A search or a ring highlights its nodes and sets the filter to "all"; when
\* that changes the filter, the effect of the change takes the highlight away.
HighlightNodes(what) ==
    /\ tab = "graph"
    /\ Show([view EXCEPT !.mode = "all", !.highlight = IF view.mode = "all" THEN what ELSE None])

-----------------------------------------------------------------------------
(* TargetManagementPage; the first target is the default one and stays *)

AddTarget ==
    /\ tab = "targets" /\ view.added < MaxViewCalls
    /\ Show([view EXCEPT !.added = @ + 1, !.status = Merged(Entry(view.added + 1, "unknown"), @)])

TestConnection(t) ==
    /\ tab = "targets" /\ t \in DOMAIN view.status /\ view.status[t] # "testing"
    /\ Show([view EXCEPT !.status[t] = "testing", !.testing = @ \union {t}])

TestAnswered(t, status) ==
    /\ tab = "targets" /\ t \in view.testing
    /\ Show([view EXCEPT !.testing = @ \ {t},
                         !.status = [u \in DOMAIN @ |-> IF u = t THEN status ELSE @[u]]])

RemoveTarget(t) ==
    /\ tab = "targets" /\ t \in DOMAIN view.status \ {Default}
    /\ Show([view EXCEPT !.status = Restrict(@, DOMAIN @ \ {t}),
                         !.active = IF @ = t THEN Default ELSE @])

SelectTarget(t) ==
    tab = "targets" /\ t \in DOMAIN view.status /\ Show([view EXCEPT !.active = t])

-----------------------------------------------------------------------------
(* The rules of the administrator: admin.store and RuleWeightSlider *)

Loading == \E q \in view.requests : q.kind = "fetch"

AskForRules(kind, rule, weight, slider) ==
    /\ view.asked < MaxViewCalls
    /\ Show([view EXCEPT !.asked = @ + 1, !.slider = slider,
                         !.requests = @ \union {Request(view.asked + 1, kind, rule, weight)},
                         !.excused = (kind # "fetch" /\ @) \/ view.requests # {}])

\* The tab opened again, a rule added, a rule deleted.
EditRules ==
    /\ tab = "rules" /\ ~Loading
    /\ \/ AskForRules("fetch", 0, 0, view.slider)
       \/ \E w \in Weights : AskForRules("create", 0, w, view.slider)
       \/ \E r \in DOMAIN view.shown : AskForRules("delete", r, 0, view.slider)

\* Each movement of the slider starts its timer of 500 ms again.
MoveSlider(w) ==
    /\ tab = "rules" /\ ~Loading /\ 1 \in DOMAIN view.shown
    /\ Show([view EXCEPT !.slider = w])

SliderFires ==
    tab = "rules" /\ view.slider # 0 /\ AskForRules("update", 1, view.slider, 0)

\* The administration answers with the rows it now has of what it was asked.
ServerActs(q) ==
    /\ tab = "rules" /\ q \in view.requests /\ q.stage = "sent"
    /\ LET row     == CASE q.kind = "create" -> Entry(q.n, q.weight)
                        [] q.kind = "update" /\ q.rule \in DOMAIN view.rows -> Entry(q.rule, q.weight)
                        [] OTHER -> <<>>
           after   == IF q.kind = "delete" THEN Restrict(view.rows, DOMAIN view.rows \ {q.rule})
                      ELSE Merged(row, view.rows)
           known   == q.kind # "update" \/ q.rule \in DOMAIN view.rows
           answer  == [q EXCEPT !.stage = IF known THEN "answered" ELSE "refused",
                                !.rows = IF q.kind = "fetch" THEN view.rows ELSE row]
       IN  Show([view EXCEPT !.rows = after, !.requests = (@ \ {q}) \union {answer}])

Applied(shown, q) ==
    CASE q.kind = "fetch"  -> q.rows
      [] q.kind = "create" -> Merged(q.rows, shown)
      [] q.kind = "update" -> [r \in DOMAIN shown |-> IF r = q.rule THEN q.rows[r] ELSE shown[r]]
      [] q.kind = "delete" -> Restrict(shown, DOMAIN shown \ {q.rule})

RuleAnswer(q) ==
    /\ tab = "rules" /\ q \in view.requests /\ q.stage = "answered"
    /\ Show([view EXCEPT !.requests = @ \ {q}, !.shown = Applied(@, q)])

\* An error leaves the list as it is, also when the change was made.
RuleError(q) ==
    /\ tab = "rules" /\ q \in view.requests
    /\ Show([view EXCEPT !.requests = @ \ {q},
                         !.excused = @ \/ q.stage = "answered" \/ q.kind = "fetch"])
-----------------------------------------------------------------------------
ViewsNext ==
    \/ ReceiveDecision \/ PauseResume \/ SocketTurns
    \/ \E s \in 1 .. MaxViewCalls : tab = "stream" /\ s <= Current /\ (StreamConnects(s) \/ StreamDrops(s))
    \/ Broadcast \/ RetryConnection
    \/ \E q \in Words : TypeQuery(q) \/ ResultsArrive(q) \/ SearchFails(q)
    \/ ClearQuery \/ DoSearch \/ AbortSettles
    \/ \E n \in Words : ClickNode(n) \/ FilterChange(n) \/ HighlightNodes(n)
    \/ FilterChange("all") \/ ClosePanel \/ Analyze \/ AnalysisArrives \/ AnalysisFails
    \/ AddTarget
    \/ \E t \in 1 .. MaxViewCalls :
          \/ TestConnection(t) \/ RemoveTarget(t) \/ SelectTarget(t)
          \/ \E status \in {"connected", "failed"} : TestAnswered(t, status)
    \/ EditRules \/ SliderFires
    \/ \E w \in Weights : MoveSlider(w)
    \/ tab = "rules" /\ \E q \in view.requests : ServerActs(q) \/ RuleAnswer(q) \/ RuleError(q)

ViewsSpec == ViewsInit /\ [][ViewsNext]_viewVars
-----------------------------------------------------------------------------
(* A view is of one of the six kinds and keeps its bounds. *)
ViewsTypeOK ==
    /\ tab \in DOMAIN Fresh /\ DOMAIN view = DOMAIN Fresh[tab]
    /\ tab = "feed"    => /\ Len(view.shown) <= MAX_EVENTS /\ view.arrived <= MaxDecisions
                          /\ {view.paused, view.online} \subseteq BOOLEAN
    /\ tab = "stream"  => Len(view.events) <= MAX_EVENTS /\ Current <= MaxViewCalls
    /\ tab = "search"  => view.sent \subseteq Words /\ view.results \in Words \union {None}
    /\ tab = "graph"   => {view.selected, view.asked, view.result} \subseteq Words \union {None}
    /\ tab = "targets" => view.testing \subseteq 1 .. view.added
    /\ tab = "rules"   => Cardinality(view.requests) <= view.asked

FeedShowsTheNewest ==
    /\ view.shown = Cap(Reverse(SubSeq(view.received, 1, Len(view.received) - Len(view.queue))))
    /\ IsSuffix(view.queue, view.received)

StreamShowsEachOnce ==
    /\ \A i, j \in DOMAIN view.events : i < j => view.events[i] > view.events[j]
    /\ view.status = "connected" <=> Last(view.sockets) = "connected"

SearchShowsItsQuery ==
    ~view.stale =>
        /\ view.query = "" => view.results = None
        /\ view.timer = None /\ view.sent = {} => view.failed \/ view.results \in {None, view.query}

PanelShowsItsNode ==
    /\ ~view.late => view.result \in {None, view.selected}
    /\ view.mode # "all" => view.highlight = view.mode

TargetsAreTested ==
    /\ view.active \in DOMAIN view.status
    /\ \A t \in DOMAIN view.status : view.status[t] = "testing" <=> t \in view.testing

ListShowsTheRules == view.requests = {} /\ ~view.excused => view.shown = view.rows

(* What a view shows is what it was given. The feed shows the newest of what  *)
(* was received before it was paused, newest first (LiveFeedPage.tsx:154);    *)
(* the stream shows no decision twice, whatever sockets were opened           *)
(* (EventStream.tsx:29); a search that is over shows the cases of what is in  *)
(* the box, unless the box was emptied under a running timer                  *)
(* (CaseReviewQueue.tsx:47); the panel shows the analysis of its node, unless *)
(* another one was clicked meanwhile (GraphIntelPage.tsx:692); the active     *)
(* target is listed and "testing" means a test is under way                   *)
(* (fraud-tester.store.ts:284); the rules shown are those of the server when  *)
(* no two requests overlapped and no answer was lost (admin.store.ts:102).    *)
ViewsShowTheirData ==
    /\ tab = "feed"    => FeedShowsTheNewest
    /\ tab = "stream"  => StreamShowsEachOnce
    /\ tab = "search"  => SearchShowsItsQuery
    /\ tab = "graph"   => PanelShowsItsNode
    /\ tab = "targets" => TargetsAreTested
    /\ tab = "rules"   => ListShowsTheRules
=============================================================================

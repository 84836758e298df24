------------------------------ MODULE GraphIntel ------------------------------
(***************************************************************************)
(* graph-intel-service over Neo4j: analyze() merges an account, its device  *)
(* and its address into the graph and counts who shares them; the consumer  *)
(* of device-signals merges devices, merchants and sessions.  The database  *)
(* has no uniqueness constraint, so two MERGEs of one key that overlap may  *)
(* both find nothing and create a node each: a MERGE is a look and a write. *)
(***************************************************************************)
EXTENDS RiskScores, FiniteSets, FiniteSetsExt, Sequences

CONSTANTS
    Analyses,       \* calls of analyze(): [name -> account, device, ip]
    Messages,       \* the device-signals partition: [device, merchant, trust, session]
    Fraudsters,     \* accounts with isFraud, which nothing in the repository sets
    NoId,
    MaxGraphFaults  \* bound: failed queries

Calls == DOMAIN Analyses
Consumer == "consumer"

ASSUME GraphAssumption ==
    /\ Consumer \notin Calls
    /\ Len(Messages) \in Nat
    /\ MaxGraphFaults \in Nat

VARIABLES
    nodes,          \* <<label, key, creator>>
    edges,          \* pairs of nodes
    trust,          \* [device node -> trustScore of its last upsert]
    looked,         \* [calls and the consumer -> nodes its MERGE found]
    phase,          \* [calls and the consumer -> "new", "looked", "merged", "done", "failed"]
    counted,        \* [Analyses -> fraudsters, sharers of the device and of the address]
    began,          \* history: [Analyses -> the analyses that had ended when it began]
    position,       \* message the consumer is at
    graphFaults

graphVars == <<nodes, edges, trust, looked, phase, counted, began, position, graphFaults>>

Zero == [fraud |-> 0, device |-> 0, ip |-> 0]

GraphInit ==
    /\ nodes = {} /\ edges = {} /\ trust = [n \in {} |-> 0]
    /\ looked = [c \in Calls \union {Consumer} |-> {}]
    /\ phase = [c \in Calls \union {Consumer} |-> "new"]
    /\ counted = [c \in Calls |-> Zero]
    /\ began = [c \in Calls |-> {}]
    /\ position = 1 /\ graphFaults = 0

\* The keys of an analysis and of a message, by label.
KeysOf(c) ==
    LET a == Analyses[c]
    IN  {<<"Account", a.account>>}
            \union {<<"Device", d>> : d \in {a.device} \ {NoId}}
            \union {<<"Ip", i>> : i \in {a.ip} \ {NoId}}
MessageKeys(m) == {<<"Device", m.device>>, <<"Merchant", m.merchant>>}

Matching(keys) == {n \in nodes : <<n[1], n[2]>> \in keys}

\* The nodes a MERGE ends up with: those it found, and one of its own for
\* each key it found none for.
FirstMerged(keys, found, who) ==
    {CHOOSE n \in found \union {<<k[1], k[2], who>>} : <<n[1], n[2]>> = k : k \in keys}
Merged(keys, found, who) ==
    found \union {<<k[1], k[2], who>> : k \in {k \in keys : ~\E n \in found : <<n[1], n[2]>> = k}}

Labelled(set, label) == {n \in set : n[1] = label}

-----------------------------------------------------------------------------
(* analyze *)

Look(c) ==
    /\ phase[c] = "new"
    /\ phase' = [phase EXCEPT ![c] = "looked"]
    /\ looked' = [looked EXCEPT ![c] = Matching(KeysOf(c))]
    /\ began' = [began EXCEPT ![c] = {b \in Calls : phase[b] = "done"}]
    /\ UNCHANGED <<nodes, edges, trust, counted, position, graphFaults>>

Merge(c) ==
    /\ phase[c] = "looked"
    /\ phase' = [phase EXCEPT ![c] = "merged"]
    /\ LET mine == Merged(KeysOf(c), looked[c], c)
       IN  /\ nodes' = nodes \union mine
           /\ edges' = edges \union (Labelled(mine, "Account")
                                       \X (Labelled(mine, "Device") \union Labelled(mine, "Ip")))
    /\ UNCHANGED <<trust, looked, counted, began, position, graphFaults>>

\* The account nodes that use what the account of c uses, by label.
Sharers(c, label) ==
    LET account == Analyses[c].account
        mine == {e[2] : e \in {x \in edges : x[1][2] = account /\ x[2][1] = label}}
    IN  {e[1] : e \in {x \in edges : x[2] \in mine /\ x[1][1] = "Account" /\ x[1][2] # account}}

Count(c) ==
    /\ phase[c] = "merged"
    /\ phase' = [phase EXCEPT ![c] = "done"]
    /\ LET onDevice == IF Analyses[c].device = NoId THEN {} ELSE Sharers(c, "Device")
       IN  counted' = [counted EXCEPT ![c] =
               [fraud  |-> Cardinality({n \in onDevice : n[2] \in Fraudsters}),
                device |-> Cardinality(onDevice),
                ip     |-> IF Analyses[c].ip = NoId THEN 0 ELSE Cardinality(Sharers(c, "Ip"))]]
    /\ UNCHANGED <<nodes, edges, trust, looked, began, position, graphFaults>>

\* A query fails: the signal is all zeroes.
AnalyzeFails(c) ==
    /\ phase[c] \in {"looked", "merged"}
    /\ graphFaults < MaxGraphFaults /\ graphFaults' = graphFaults + 1
    /\ phase' = [phase EXCEPT ![c] = "failed"]
    /\ UNCHANGED <<nodes, edges, trust, looked, counted, began, position>>

RiskOf(c) == GraphRisk(counted[c].fraud, counted[c].device)

-----------------------------------------------------------------------------
(* The consumer of device-signals *)

Message == Messages[position]
AtMessage == position <= Len(Messages)

UpsertLook ==
    /\ AtMessage /\ phase[Consumer] = "new"
    /\ phase' = [phase EXCEPT ![Consumer] = "looked"]
    /\ looked' = [looked EXCEPT ![Consumer] = Matching(MessageKeys(Message))]
    /\ UNCHANGED <<nodes, edges, trust, counted, began, position, graphFaults>>

NextMessage ==
    /\ position' = position + 1
    /\ phase' = [phase EXCEPT ![Consumer] = "new"]
    /\ looked' = [looked EXCEPT ![Consumer] = {}]

\* upsertDevice, then linkDeviceToSession when there is a session; a link
\* that fails is logged and the message is over.
Upsert ==
    /\ phase[Consumer] = "looked"
    /\ LET mine == Merged(MessageKeys(Message), looked[Consumer], Consumer)
           devices == Labelled(mine, "Device")
           session == {<<"Session", s, Consumer>> : s \in {Message.session} \ {NoId}}
       IN  /\ trust' = [n \in DOMAIN trust \union devices |->
                            IF n \in devices THEN Message.trust ELSE trust[n]]
           /\ \/ /\ nodes' = nodes \union mine \union session
                 /\ edges' = edges \union (devices \X (Labelled(mine, "Merchant") \union session))
                 /\ UNCHANGED graphFaults
              \/ /\ session # {} /\ graphFaults < MaxGraphFaults
                 /\ nodes' = nodes \union mine
                 /\ edges' = edges \union (devices \X Labelled(mine, "Merchant"))
                 /\ graphFaults' = graphFaults + 1
    /\ NextMessage
    /\ UNCHANGED <<counted, began>>

\* upsertDevice fails: the message is logged and skipped.
UpsertFails ==
    /\ phase[Consumer] = "looked"
    /\ graphFaults < MaxGraphFaults /\ graphFaults' = graphFaults + 1
    /\ NextMessage
    /\ UNCHANGED <<nodes, edges, trust, counted, began>>

-----------------------------------------------------------------------------
(* The reads of the controller *)

UsedBy == {e \in edges : e[1][1] = "Device" /\ e[2][1] = "Merchant"}

\* detectDeviceSharing: suspicious from three merchants on.
SharingCount(device) == Cardinality({e \in UsedBy : e[1][2] = device})
IsSuspicious(device) == SharingCount(device) >= 3

\* detectVelocityRing: partners with at least two devices in common.
Common(m1, m2) ==
    {n \in Labelled(nodes, "Device") :
        \E x, y \in UsedBy : x[1] = n /\ y[1] = n /\ x[2][2] = m1 /\ y[2][2] = m2}
RingMembers(m1) ==
    {m2 \in {n[2] : n \in Labelled(nodes, "Merchant")} \ {m1} : Cardinality(Common(m1, m2)) >= 2}
SharedInRing(m1) == MapThenSumSet(LAMBDA m2 : Cardinality(Common(m1, m2)), RingMembers(m1))
RiskLevel(m1) == RingLevel(SharedInRing(m1))

\* getDeviceNeighbors: the other devices of the merchants of a device.
Neighbors(device) ==
    {y[1][2] : y \in {y \in UsedBy : y[1][2] # device /\ \E x \in UsedBy : x[1][2] = device /\ x[2] = y[2]}}

-----------------------------------------------------------------------------
GraphNext ==
    \/ \E c \in Calls : Look(c) \/ Merge(c) \/ Count(c) \/ AnalyzeFails(c)
    \/ UpsertLook \/ Upsert \/ UpsertFails

GraphSpec == GraphInit /\ [][GraphNext]_graphVars
-----------------------------------------------------------------------------
(* Properties *)

GraphTypeOK ==
    /\ \A n \in nodes : n[1] \in {"Account", "Device", "Ip", "Merchant", "Session"}
    /\ edges \subseteq nodes \X nodes
    /\ DOMAIN trust \subseteq nodes
    /\ phase \in [Calls \union {Consumer} -> {"new", "looked", "merged", "done", "failed"}]
    /\ \A c \in Calls : counted[c] \in [fraud : Nat, device : Nat, ip : Nat] /\ RiskOf(c) \in 0 .. 90
    /\ position \in 1 .. Len(Messages) + 1 /\ graphFaults \in 0 .. MaxGraphFaults
    /\ \A m \in Labelled(nodes, "Merchant") : \A p \in RingMembers(m[2]) : m[2] \in RingMembers(p)

\* Whoever was analysed on a device before is counted: an analysis finds
\* every account whose analysis of the same device had ended when it began,
\* also when overlapping ones have created the device twice.
EarlierSharersAreCounted ==
    \A c \in Calls :
        (phase[c] = "done" /\ Analyses[c].device # NoId) =>
            counted[c].device >=
                Cardinality({Analyses[b].account : b \in
                    {b \in began[c] : /\ Analyses[b].device = Analyses[c].device
                                      /\ Analyses[b].account # Analyses[c].account}})
=============================================================================

------------------------------- MODULE MCServices -------------------------------
(***************************************************************************)
(* The signal services next to each other.  They share no state and meet    *)
(* only through the answers that SignalPath reads, so one of them moves at  *)
(* a time: focus says which, and the behaviours of this specification are   *)
(* those of each component while the others wait in their initial state.    *)
(***************************************************************************)
EXTENDS GraphIntel, SignalPath, VelocityEngine, DeviceIntel, TelcoEnrichment, BehavioralBaseline, TLC

VARIABLE focus

vars == <<focus, velocityVars, deviceVars, graphVars, telcoVars, behavioralVars, pathVars>>

-----------------------------------------------------------------------------
(* Instances *)

\* One partition: a repeated message, and one with fewer entities.
TheEvents ==
    ("e1" :> [customer |-> "c", device |-> "d", ip |-> NoEntity, session |-> "s", amount |-> 5, at |-> 1,
              test |-> FALSE])
        @@ ("e2" :> [customer |-> "c", device |-> NoEntity, ip |-> NoEntity, session |-> NoEntity, amount |-> 7,
                     at |-> 0, test |-> FALSE])

TheTopic == <<"e1", "e2", "e1">>

\* A phone, the same phone rooted, and a device whose fingerprint is similar.
TheFingerprints == [phone |-> "f", phoneRooted |-> "f", near |-> "g"]
TheSimilar == {<<"f", "g">>, <<"g", "f">>}
TheAnalysis ==
    [phone       |-> [emulator |-> FALSE, confidence |-> 0],
     phoneRooted |-> [emulator |-> TRUE, confidence |-> 65],
     near        |-> [emulator |-> FALSE, confidence |-> 15]]
ThePlatforms == [phone |-> "android", phoneRooted |-> "android", near |-> "web"]
TheDeviceEvents ==
    <<[id |-> "e1", full |-> TRUE, attrs |-> "phone"],
      [id |-> "e2", full |-> FALSE, attrs |-> "near"],
      [id |-> "e3", full |-> TRUE, attrs |-> "phoneRooted"]>>

\* Three accounts of one device, two of them behind one address.
TheAnalyses ==
    [a1 |-> [account |-> "u", device |-> "d", ip |-> NoId],
     a2 |-> [account |-> "v", device |-> "d", ip |-> "i"],
     a3 |-> [account |-> "w", device |-> "d", ip |-> "i"]]
TheMessages ==
    <<[device |-> "d", merchant |-> "m", trust |-> 40, session |-> "s"],
      [device |-> "d", merchant |-> "n", trust |-> 70, session |-> NoId]>>

TheEnrichments ==
    << [kind |-> "complete", msisdn |-> <<"+", "0", "0", "5", "4", "1", "7">>, lineType |-> "none"],
       [kind |-> "empty", msisdn |-> <<>>, lineType |-> "none"],
       [kind |-> "broken", msisdn |-> <<>>, lineType |-> "none"],
       [kind |-> "partial", msisdn |-> <<>>, lineType |-> "none"],
       [kind |-> "complete", msisdn |-> <<"1", "2">>, lineType |-> "prepaid"],
       [kind |-> "null", msisdn |-> <<>>, lineType |-> "none"],
       [kind |-> "complete", msisdn |-> <<"9", "0", "5", "4", "1", "7">>, lineType |-> "postpaid"] >>

\* Two people, two bots and a session without a scroll velocity.
Session(timing, scroll, fill, jitter, speed, velocity) ==
    [attributes |-> [timing |-> timing, entropy |-> "absent", scroll |-> scroll, fill |-> fill,
                     canvas |-> "absent", jitter |-> jitter],
     fill |-> speed, scroll |-> velocity]

TheShoppers ==
    {Session("human", "some", "typed", "yes", 40, 3),
     Session("human", "some", "typed", "yes", 35, 5),
     Session("random", "none", "typed", "absent", 20, 0),
     Session("uniform", "none", "instant", "no", 200, 0),
     Session("human", "absent", "typed", "yes", 40, Missing)}
ThePowers == [n \in 0 .. 4 |-> 10 ^ n]

TheRules == [r1 |-> "BLOCK"]

-----------------------------------------------------------------------------

Init ==
    /\ focus \in {"velocity", "device", "graph", "telco", "behavioral", "path"}
    /\ VelocityInit /\ DeviceInit /\ GraphInit /\ TelcoInit /\ BehavioralInit
    /\ PathInit

Only(name) ==
    /\ focus = name /\ UNCHANGED focus
    /\ name # "velocity" => UNCHANGED velocityVars
    /\ name # "device" => UNCHANGED deviceVars
    /\ name # "graph" => UNCHANGED graphVars
    /\ name # "telco" => UNCHANGED telcoVars
    /\ name # "behavioral" => UNCHANGED behavioralVars
    /\ name # "path" => UNCHANGED pathVars

Next ==
    \/ Only("velocity") /\ VelocityNext
    \/ Only("device") /\ DeviceNext
    \/ Only("graph") /\ GraphNext
    \/ Only("telco") /\ TelcoNext
    \/ Only("behavioral") /\ BehavioralNext
    \/ Only("path") /\ PathNext

\* The fairness of the consumers: their calls settle and are made again.
Fairness ==
    /\ WF_vars(Only("velocity") /\ Handle)
    /\ WF_vars(Only("velocity") /\ \E s \in stragglers : EndStraggler(s))
    /\ WF_vars(Only("telco") /\ Proceed)

Spec == Init /\ [][Next]_vars /\ Fairness
-----------------------------------------------------------------------------
(* Properties: those of the components, which their modules state;         *)
(* ReadsAreExact, DevicesAreRecognised, EarlierSharersAreCounted and       *)
(* VerdictsFollowSignals are checked as the modules state them.             *)

\* The scorers stay within their scales, and the lookups answer as the tables
\* say, whatever the evidence.
ScorersTypeOK ==
    /\ \A a \in DeviceAttributes : EmulatorConfidence(a) \in 0 .. 100
    /\ \A s \in SessionAttributes : SessionRisk(s) \in 0 .. 90
    /\ \A n \in NetworkEvidence : IpRisk(n) + BotScore(n) <= 145
    /\ \A t \in TelcoEvidence : TelcoRisk(t) \in 0 .. 100
    /\ LET database == (<<10, 8, 0, 1>> :> [country |-> "TR", asn |-> 9009])
                           @@ (<<1, 1, 1, 1>> :> [country |-> "US", asn |-> 13335])
           exits == TorExitNodes({<<10, 8, 0, 1>>, <<>>})
       IN  \A ip \in {<<10, 8, 0, 1>>, <<1, 1, 1, 1>>, <<9, 9, 9, 9>>} :
               LET risk(vpn) == AddressRisk(database, exits, vpn, ip, "TR", "TR")
               IN  0 <= risk(FALSE) /\ risk(FALSE) <= risk(TRUE) /\ risk(TRUE) <= 100

\* The type invariants of the components and the scales of the scorers.
TypesOK ==
    CASE focus = "velocity"   -> VelocityTypeOK
      [] focus = "device"     -> DeviceTypeOK
      [] focus = "graph"      -> GraphTypeOK
      [] focus = "telco"      -> TelcoTypeOK
      [] focus = "behavioral" -> BehavioralTypeOK /\ (restarts = 0 => ScorersTypeOK)
      [] focus = "path"       -> PathTypeOK

\* VelocityEngine: every event is counted unless a crash or a lost call excuses it.
EveryEventIsCounted == focus = "velocity" => EventsAreCounted

\* TelcoEnrichment: every enrichment is answered by a signal or a dead letter.
EveryEnrichmentIsAnswered == focus = "telco" => EnrichmentsAreAnswered
=============================================================================

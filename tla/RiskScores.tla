------------------------------ MODULE RiskScores ------------------------------
(***************************************************************************)
(* The scorers of the signal services, as functions of the evidence they    *)
(* look at.  An attribute is the class of values the code tells apart;      *)
(* weights the code gives as fractions of one are percentages.              *)
(***************************************************************************)
EXTENDS Integers

Points(fired, weight) == IF fired THEN weight ELSE 0
UpTo(x, top) == IF x > top THEN top ELSE x
Within0To(x, top) == IF x < 0 THEN 0 ELSE UpTo(x, top)

-----------------------------------------------------------------------------
(* device-intel: emulator detection and trust *)

WEIGHT_CRITICAL == 40
WEIGHT_HIGH == 25
WEIGHT_MEDIUM == 15
WEIGHT_LOW == 10

DeviceAttributes ==
    [platform   : {"web", "android"},
     gpu        : {"emulator", "real"},
     screen     : {"800x600", "highRisk", "common", "other"},
     sensors    : {"absent", "zeros", "uniform", "natural"},
     token      : BOOLEAN,
     androidId  : {"absent", "emulator", "pattern", "real"},
     audioZero  : BOOLEAN,
     canvasZero : BOOLEAN,
     webglZero  : BOOLEAN]

\* The sum of the rules of EmulatorDetector.detect, in percent.
Indicators(a) ==
    LET android == a.platform = "android"
    IN  Points(a.gpu = "emulator", WEIGHT_CRITICAL)
        + (IF ~android THEN 0
           ELSE IF a.screen \in {"800x600", "highRisk"} THEN WEIGHT_HIGH
           ELSE Points(a.screen = "common", WEIGHT_LOW))
        + (IF a.sensors = "zeros" THEN WEIGHT_HIGH ELSE Points(a.sensors = "uniform", WEIGHT_MEDIUM))
        + Points(android /\ ~a.token, WEIGHT_HIGH)
        + (IF a.androidId = "emulator" THEN WEIGHT_HIGH
           ELSE Points(a.androidId = "pattern" \/ (a.androidId = "absent" /\ android), WEIGHT_MEDIUM))
        + Points(~android /\ a.screen = "800x600", WEIGHT_MEDIUM)
        + Points(a.audioZero, WEIGHT_LOW) + Points(a.canvasZero, WEIGHT_LOW)
        + Points(a.webglZero, WEIGHT_MEDIUM)

EmulatorConfidence(a) == UpTo(Indicators(a), 100)
IsEmulator(a) == a.gpu = "emulator" \/ EmulatorConfidence(a) >= 50

BASE_SCORE == 50

\* Trust scores have two decimals: they are in hundredths.
EmulatorPenalty(emulator, confidence) == 100 * Points(emulator, 40) + 20 * confidence

InitialTrust(emulator, confidence) ==
    Within0To(100 * BASE_SCORE - EmulatorPenalty(emulator, confidence), 10000)

\* A returning device: age and idle are the days since it was first and last
\* seen; stable: its canvas and WebGL hashes are the stored ones.
ReturningTrust(emulator, confidence, age, idle, stable, samePlatform) ==
    LET bonus == (IF age > 30 THEN 10 ELSE Points(age > 7, 5)) + 15 + Points(stable, 10)
        malus == (IF idle > 30 THEN 10 ELSE Points(idle > 7, 5)) + Points(~samePlatform, 10)
    IN  Within0To(100 * (BASE_SCORE + bonus - malus) - EmulatorPenalty(emulator, confidence), 10000)

-----------------------------------------------------------------------------
(* behavioral: session risk and bots *)

SessionAttributes ==
    [timing  : {"absent", "uniform", "human", "random"},
     entropy : {"absent", "zero", "linear", "varied"},
     scroll  : {"absent", "none", "some"},
     fill    : {"absent", "instant", "typed"},
     canvas  : {"absent", "yes", "no"},
     jitter  : {"absent", "yes", "no"}]

NoAttributes ==
    [timing |-> "absent", entropy |-> "absent", scroll |-> "absent", fill |-> "absent",
     canvas |-> "absent", jitter |-> "absent"]

SessionRisk(s) ==
    (IF s.timing = "uniform" THEN 30 ELSE Points(s.timing = "random", 15))
        + Points(s.entropy \in {"zero", "linear"}, 20)
        + Points(s.scroll = "none", 15)
        + Points(s.fill = "instant", 25)

BotConfidence(s) ==
    Points(s.canvas = "no", 40) + Points(s.timing = "uniform", 30) + Points(s.jitter = "no", 20)
        + Points(s.fill = "instant", 25) + Points(s.entropy = "zero", 20)

IsBot(s) == BotConfidence(s) >= 50

-----------------------------------------------------------------------------
(* network-intel *)

\* analyze() of the service that app.module.ts wires in; an absent address
\* replaces what the other evidence added.
NetworkEvidence ==
    [ip : {"absent", "tor", "other"}, headless : BOOLEAN, language : BOOLEAN, encoding : BOOLEAN,
     datacenter : BOOLEAN]

IpRisk(n) ==
    IF n.ip = "absent" THEN 50 ELSE Points(n.datacenter, 25) + Points(n.ip = "tor", 50)
BotScore(n) == Points(n.headless, 40) + Points(~n.language, 20) + Points(~n.encoding, 10)

\* NetworkIntelService and its geography, which no module imports.
MismatchScore(ip, msisdn, billing) ==
    LET differ(a, b) == a # "none" /\ b # "none" /\ a # b
        count == Points(differ(ip, msisdn), 1) + Points(differ(ip, billing), 1)
    IN  IF count = 0 THEN 0 ELSE IF count = 1 THEN 30 ELSE 70

NetworkRisk(tor, proxy, vpn, datacenter, mismatch) ==
    Within0To(Points(tor, 60) + Points(proxy \/ vpn, 40) + Points(datacenter, 20)
                  + (3 * mismatch) \div 10, 100)

-----------------------------------------------------------------------------
(* telco-intel *)

TelcoEvidence ==
    [phone : BOOLEAN, voip : BOOLEAN, disposable : BOOLEAN, burner : BOOLEAN, mismatch : BOOLEAN]

TelcoRisk(t) ==
    IF ~t.phone THEN 50
    ELSE UpTo(Points(t.voip, 30) + Points(t.disposable, 40) + Points(t.burner, 25)
                  + Points(t.mismatch, 20), 100)

\* TelcoIntelService: a line type of Payguru counts more than the prefix's.
PrefixLineType(prepaid) ==
    IF prepaid >= 60 THEN "prepaid" ELSE IF prepaid <= 40 THEN "postpaid" ELSE "unknown"

\* prefix: the probability in percent of a known prefix, or -1.
LineType(payguru, prefix) ==
    IF payguru # "none" THEN payguru ELSE IF prefix >= 0 THEN PrefixLineType(prefix) ELSE "unknown"
PrepaidProbability(prefix) == IF prefix >= 0 THEN prefix ELSE 50

-----------------------------------------------------------------------------
(* graph-intel *)

GraphRisk(fraudsters, sharing) ==
    UpTo(Points(fraudsters >= 2, 60) + Points(sharing >= 3, 30), 100)
RingLevel(shared) == IF shared >= 5 THEN "HIGH" ELSE IF shared >= 2 THEN "MEDIUM" ELSE "LOW"
=============================================================================

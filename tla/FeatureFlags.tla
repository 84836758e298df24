------------------------------ MODULE FeatureFlags ------------------------------
(***************************************************************************)
(* feature-flag-service: flags in the memory of one process, the check of a *)
(* flag for a merchant, and the admin operations.                           *)
(***************************************************************************)
EXTENDS Integers, Sequences, FiniteSets

CONSTANTS
    SeedFlags,      \* [names -> flags] the constructor stores
    FlagDtos,       \* bodies of POST and PATCH, with their name
    HashOf(_, _),   \* deterministicHash of "merchant:flag" before abs: signed 32 bit
    MaxFlagOps      \* bound: admin operations and restarts

ASSUME FlagsAssumption ==
    /\ MaxFlagOps \in Nat
    /\ \A n \in DOMAIN SeedFlags : SeedFlags[n].enabled \in BOOLEAN
    /\ \A dto \in FlagDtos : dto.flag.enabled \in BOOLEAN

VARIABLES flags, flagOps

flagVars == <<flags, flagOps>>

deterministicHash(merchantId, name) ==
    IF HashOf(merchantId, name) < 0 THEN -HashOf(merchantId, name) ELSE HashOf(merchantId, name)

Verdict(enabled, reason) == [enabled |-> enabled, reason |-> reason]

\* flag: [enabled, rolloutPercentage, merchantIds, value]
InRollout(flag, merchantId, name) == deterministicHash(merchantId, name) % 100 < flag.rolloutPercentage
isEnabled(store, name, merchantId) ==
    IF name \notin DOMAIN store THEN Verdict(FALSE, "not_found")
    ELSE LET flag == store[name]
         IN  IF ~flag.enabled THEN Verdict(FALSE, "disabled")
             ELSE IF merchantId \in flag.merchantIds THEN Verdict(TRUE, "allowlist")
             ELSE IF flag.rolloutPercentage >= 100 THEN Verdict(TRUE, "full_rollout")
             ELSE IF flag.rolloutPercentage <= 0 THEN Verdict(FALSE, "rollout")
             ELSE Verdict(InRollout(flag, merchantId, name), "rollout")

\* FlagsClient: no answer in 100 ms and an error status count as disabled.
clientIsEnabled(store, answers, name, merchantId) == answers /\ isEnabled(store, name, merchantId).enabled

FlagsInit == flags = SeedFlags /\ flagOps = 0

FlagOp == flagOps < MaxFlagOps /\ flagOps' = flagOps + 1
Stored(name, flag) == [n \in DOMAIN flags \union {name} |-> IF n = name THEN flag ELSE flags[n]]

\* A create of a name that is in use replaces the flag; an update of an
\* unknown name and a delete of one answer 404.
createFlag(name, flag) == FlagOp /\ flags' = Stored(name, flag)
updateFlag(name, flag) == FlagOp /\ name \in DOMAIN flags /\ flags' = Stored(name, flag)
deleteFlag(name) ==
    /\ FlagOp /\ name \in DOMAIN flags
    /\ flags' = [n \in DOMAIN flags \ {name} |-> flags[n]]

\* The flags are in memory: a restart leaves those of the constructor.
RestartFlags == FlagOp /\ flags' = SeedFlags

FlagsNext ==
    \/ RestartFlags
    \/ \E name \in DOMAIN flags : deleteFlag(name)
    \/ \E dto \in FlagDtos : createFlag(dto.name, dto.flag) \/ updateFlag(dto.name, dto.flag)

FlagsTypeOK == flagOps \in 0..MaxFlagOps /\ \A n \in DOMAIN flags : flags[n].enabled \in BOOLEAN
=============================================================================

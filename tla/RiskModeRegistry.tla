-------------------------- MODULE RiskModeRegistry --------------------------
(***************************************************************************)
(* contracts/src/RiskModeRegistry.sol over the policy registry: signed,    *)
(* short-lived certificates that tighten the hard policy of a Space.       *)
(*                                                                         *)
(* A certificate is signed off chain and is public from then on: anybody   *)
(* may submit it, at any later time, any number of times.  The set signed  *)
(* therefore only grows.  A signature that does not verify is a record     *)
(* outside it.  Governance, signers and the clock interleave freely.       *)
(***************************************************************************)
EXTENDS AurkaPolicyRegistry

CONSTANTS
    Watchtowers,        \* addresses that may sign certificates
    CertificateLimits,  \* inputs: the mode and limits a watchtower may choose
    Lifetimes,          \* inputs: seconds from issue to expiry
    ClockLeads,         \* inputs: how far a signer's clock is ahead of the chain, or behind
    TimeBound,          \* bound of the model on time
    CertificateBound,   \* bound of the model on certificates signed
    EpochBound          \* bound of the model on authorization changes

ActiveBound == [min : Nat, max : Nat, paused : BOOLEAN]
RiskModes   == {"NORMAL", "CAUTIOUS", "SHOCK", "PAUSED"}

ASSUME RiskAssumption ==
    /\ TimeBound \in Nat /\ CertificateBound \in Nat /\ EpochBound \in Nat
    /\ Lifetimes \subseteq Nat /\ ClockLeads \subseteq Int
    /\ \A l \in CertificateLimits :
          /\ DOMAIN l = {"mode", "maximum", "bounds"}
          /\ l.mode \in RiskModes
          /\ l.maximum \in Nat
          /\ \A t \in DOMAIN l.bounds : t \in Tokens /\ l.bounds[t] \in ActiveBound

VARIABLES
    now,                          \* block.timestamp
    isWatchtower,
    watchtowerAuthorizationEpoch,
    lastNonce,
    activeRisk,                   \* _activeRisk, NoRisk before the first certificate
    activeBounds,                 \* _activeBounds, of the tokens ever certified
    signed                        \* certificates signed so far (off chain)

watchtowerVars == <<isWatchtower, watchtowerAuthorizationEpoch>>
certifiedVars  == <<lastNonce, activeRisk, activeBounds>>
riskVars       == <<now, watchtowerVars, certifiedVars, signed>>
vars           == <<policyVars, riskVars>>

NoRisk == [exists |-> FALSE]

RiskInit ==
    /\ now = 0
    /\ isWatchtower = [w \in Watchtowers |-> FALSE]
    /\ watchtowerAuthorizationEpoch = [w \in Watchtowers |-> 0]
    /\ lastNonce = 0
    /\ activeRisk = NoRisk
    /\ activeBounds = [t \in {} |-> [min |-> 0, max |-> 0, paused |-> FALSE]]
    /\ signed = {}

----------------------------------------------------------------------------
(* Views: what the settlement contracts read.                              *)

\* Fault: the policy nonce of the certificate is not compared.
FaultyIsActive ==
    /\ activeRisk.exists
    /\ activeRisk.expiresAt > now
    /\ isWatchtower[activeRisk.watchtower]
    /\ activeRisk.epoch = watchtowerAuthorizationEpoch[activeRisk.watchtower]

IsActive ==
    /\ activeRisk.exists
    /\ activeRisk.expiresAt > now
    /\ isWatchtower[activeRisk.watchtower]
    /\ activeRisk.epoch = watchtowerAuthorizationEpoch[activeRisk.watchtower]
    /\ activeRisk.policyNonce = policy.nonce

\* Fault: a pause of the policy is looked at only without a certificate.
FaultyCurrentRiskMode ==
    CASE IsActive -> activeRisk.mode
      [] ~IsActive -> IF policy.paused THEN "PAUSED" ELSE "NORMAL"

CurrentRiskMode ==
    CASE policy.paused -> "PAUSED"
      [] ~policy.paused /\ ~IsActive -> "NORMAL"
      [] ~policy.paused /\ IsActive -> activeRisk.mode

Lesser(a, b)  == IF a < b THEN a ELSE b
Greater(a, b) == IF a > b THEN a ELSE b

EffectiveMaximumTradeValue ==
    CASE CurrentRiskMode = "PAUSED" -> 0
      [] CurrentRiskMode # "PAUSED" /\ ~IsActive -> policy.maximumTransactionValue
      [] CurrentRiskMode # "PAUSED" /\ IsActive ->
            Lesser(activeRisk.maximum, policy.maximumTransactionValue)

HardBound(t) == [min |-> policy.bounds[t].min, max |-> policy.bounds[t].max,
                 paused |-> policy.paused]

EffectiveAssetBound(t) ==
    IF ~IsActive \/ t \notin DOMAIN activeBounds
    THEN HardBound(t)
    ELSE [min |-> Greater(activeBounds[t].min, policy.bounds[t].min),
          max |-> Lesser(activeBounds[t].max, policy.bounds[t].max),
          paused |-> activeBounds[t].paused \/ activeRisk.mode = "PAUSED" \/ policy.paused]

----------------------------------------------------------------------------
(* Operations.                                                             *)

Tick ==
    /\ now < TimeBound
    /\ now' = now + 1
    /\ UNCHANGED <<policyVars, watchtowerVars, certifiedVars, signed>>

\* Fault: the epoch is advanced by the first authorization only.
FaultyEpochAfter(w, authorized) ==
    Greater(watchtowerAuthorizationEpoch[w], IF authorized THEN 1 ELSE 0)

\* The authorization epoch counts the changes of the flag.
EpochAfter(w, authorized) ==
    IF isWatchtower[w] # authorized
    THEN watchtowerAuthorizationEpoch[w] + 1 ELSE watchtowerAuthorizationEpoch[w]

\* EpochBound is a bound of the model.
SetWatchtower(sender, w, authorized) ==
    /\ policy.exists
    /\ sender = policy.governance
    /\ watchtowerAuthorizationEpoch[w] < EpochBound
    /\ isWatchtower' = [isWatchtower EXCEPT ![w] = authorized]
    /\ watchtowerAuthorizationEpoch' =
          [watchtowerAuthorizationEpoch EXCEPT ![w] = EpochAfter(w, authorized)]
    /\ UNCHANGED <<policyVars, now, certifiedVars, signed>>

\* The watchtower's worker reads nonce, epoch and policy nonce from the registries and
\* signs if it is authorized; it reads them again before it signs and gives up if
\* they changed, so that one reading stands for both.  Its limits are any: they
\* come from observations and from a policy read at an older, finalized block.
\* It stamps the certificate with its own clock.  The field readAt is not part of
\* the certificate: it records the chain's time when the registries were read.
Certificate(w, limits, lifetime, lead) ==
    [exists |-> TRUE, watchtower |-> w,
     mode |-> limits.mode, maximum |-> limits.maximum, bounds |-> limits.bounds,
     issuedAt |-> now + lead, expiresAt |-> now + lead + lifetime,
     nonce |-> lastNonce + 1,
     epoch |-> watchtowerAuthorizationEpoch[w],
     policyNonce |-> policy.nonce,
     readAt |-> now]

SignCertificate(w, limits, lifetime, lead) ==
    /\ Cardinality(signed) < CertificateBound
    /\ policy.exists
    /\ isWatchtower[w]
    /\ signed' = signed \cup {Certificate(w, limits, lifetime, lead)}
    /\ UNCHANGED <<policyVars, now, watchtowerVars, certifiedVars>>

\* _validateTightening
Tightens(c) ==
    /\ c.maximum <= policy.maximumTransactionValue
    /\ c.mode = "PAUSED" => c.maximum = 0
    /\ DOMAIN c.bounds = DOMAIN policy.bounds
    /\ \A t \in DOMAIN c.bounds :
          /\ c.bounds[t].min >= policy.bounds[t].min
          /\ c.bounds[t].max <= policy.bounds[t].max
          /\ c.bounds[t].min <= c.bounds[t].max
    /\ c.mode # "PAUSED" => ValidPortfolioTotals(c.bounds)

Timely(c) ==
    /\ c.issuedAt <= now
    /\ c.expiresAt > now
    /\ c.expiresAt > c.issuedAt

\* Fault: off by one, the last nonce is accepted once more.
FaultySequential(c) == c.nonce >= lastNonce

Sequential(c) == c.nonce = lastNonce + 1

SubmitRiskCertificate(c) ==
    /\ c \in signed
    /\ isWatchtower[c.watchtower]
    /\ c.epoch = watchtowerAuthorizationEpoch[c.watchtower]
    /\ c.policyNonce = policy.nonce
    /\ Timely(c)
    /\ Sequential(c)
    /\ Tightens(c)
    /\ activeBounds' = [t \in DOMAIN activeBounds \cup DOMAIN c.bounds |->
                           IF t \in DOMAIN c.bounds THEN c.bounds[t] ELSE activeBounds[t]]
    /\ activeRisk' = c
    /\ lastNonce' = c.nonce
    /\ UNCHANGED <<policyVars, now, watchtowerVars, signed>>

----------------------------------------------------------------------------
RiskNext ==
    \/ Tick
    \/ \E sender \in Accounts, w \in Watchtowers, authorized \in BOOLEAN :
          SetWatchtower(sender, w, authorized)
    \/ \E w \in Watchtowers, limits \in CertificateLimits, lifetime \in Lifetimes,
          lead \in ClockLeads : SignCertificate(w, limits, lifetime, lead)
    \/ \E c \in signed : SubmitRiskCertificate(c)

Init == PolicyInit /\ RiskInit

Next ==
    \/ RiskNext
    \/ PolicyNext /\ UNCHANGED riskVars

Spec == Init /\ [][Next]_vars

----------------------------------------------------------------------------
(* Properties.                                                             *)

\* Every signed certificate, and the one in force, is a well-formed record.
RiskTypeOK ==
    /\ now \in 0 .. TimeBound
    /\ isWatchtower \in [Watchtowers -> BOOLEAN]
    /\ watchtowerAuthorizationEpoch \in [Watchtowers -> 0 .. EpochBound]
    /\ lastNonce \in Nat
    /\ activeRisk \in signed \cup {NoRisk}
    /\ \A t \in DOMAIN activeBounds : t \in Tokens /\ activeBounds[t] \in ActiveBound
    /\ \A c \in signed :
          /\ c.exists
          /\ c.watchtower \in Watchtowers
          /\ c.mode \in RiskModes
          /\ {c.maximum, c.nonce, c.epoch, c.policyNonce, c.readAt} \subseteq Nat
          /\ {c.issuedAt, c.expiresAt} \subseteq Int
          /\ \A t \in DOMAIN c.bounds : t \in Tokens /\ c.bounds[t] \in ActiveBound

TypeOK == PolicyTypeOK /\ RiskTypeOK

\* A certificate belongs to a past or to the present authority and policy, and if it
\* could still be accepted its signer has seen the chain after that of the one in force.
CertificateInvariant(c) ==
    /\ c.epoch <= watchtowerAuthorizationEpoch[c.watchtower]
    /\ c.policyNonce <= policy.nonce
    /\ c.nonce <= lastNonce + 1
    /\ c.readAt <= now
    /\ c.nonce = lastNonce + 1 /\ activeRisk.exists => c.readAt >= activeRisk.readAt

\* The stored certificate carries the last nonce, its bounds are the stored bounds, and
\* as long as the policy is the one it was validated against it tightens that policy.
StoredInvariant ==
    activeRisk.exists =>
        /\ activeRisk.nonce = lastNonce
        /\ activeRisk.policyNonce = policy.nonce => Tightens(activeRisk)
        /\ \A t \in DOMAIN activeRisk.bounds :
              t \in DOMAIN activeBounds /\ activeBounds[t] = activeRisk.bounds[t]

\* The inductive invariant behind the theorems about certificates.
RiskInvariant ==
    /\ TypeOK
    /\ \A c \in signed : CertificateInvariant(c)
    /\ StoredInvariant

HardLimits ==
    [maximum |-> IF policy.paused THEN 0 ELSE policy.maximumTransactionValue,
     bounds  |-> [t \in DOMAIN policy.bounds |-> HardBound(t)]]

EffectiveLimits ==
    [maximum |-> EffectiveMaximumTradeValue,
     bounds  |-> [t \in DOMAIN policy.bounds |-> EffectiveAssetBound(t)]]

\* The limits that settlement reads can be met: unless trading is paused, some
\* portfolio of weight 100% lies within them.  They are put together at read time
\* from a policy and a certificate that were validated at different times.
EffectivePortfolioFeasible ==
    policy.exists /\ CurrentRiskMode # "PAUSED" =>
        LET bounds == EffectiveLimits.bounds
        IN  /\ \A t \in DOMAIN bounds : bounds[t].min <= bounds[t].max
            /\ ValidPortfolioTotals(bounds)

\* A certificate that stopped binding, because it expired, its signer was revoked or
\* the policy changed, does not bind again, not even when governance authorizes
\* the same signer again: only another certificate can replace it.
InertCertificateStaysInert ==
    [][activeRisk' = activeRisk /\ ~IsActive => ~IsActive']_vars

\* A certificate never replaces one whose signer has seen a later state of the chain,
\* whatever the clocks of the signers say and however long either was in flight: a
\* delayed certificate cannot bring back an older evaluation.
NoReturnToOlderCertificate ==
    [][activeRisk.exists /\ activeRisk' # activeRisk =>
           /\ activeRisk'.readAt >= activeRisk.readAt
           /\ activeRisk'.nonce > activeRisk.nonce]_vars

CertificateInForce == IF IsActive THEN lastNonce ELSE 0

Authority == INSTANCE PolicyAuthority WITH
    nonce <- policy.nonce, hard <- HardLimits, limits <- EffectiveLimits,
    serial <- lastNonce, certificate <- CertificateInForce

\* The registries together keep the promise of PolicyAuthority.
ImplementsPolicyAuthority == Authority!Spec
=============================================================================

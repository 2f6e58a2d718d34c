-------------------------- MODULE PolicyAuthority --------------------------
(***************************************************************************)
(* What the two registries promise to whoever settles against them: the    *)
(* limits in force are those of the hard policy or tighter ones, a tighter *)
(* set comes into force only with a fresh certificate, and limits that     *)
(* have lapsed to the hard policy never come back by themselves.  The pair *)
(* of nonce and certificate therefore names the limits.                    *)
(*                                                                         *)
(* This module models no code.  RiskModeRegistry implements it, and the    *)
(* settlement router is modelled over it.                                  *)
(***************************************************************************)
EXTENDS Integers

VARIABLES
    nonce,         \* names the hard policy
    hard,          \* the limits of the hard policy
    limits,        \* the limits in force
    serial,        \* certificates taken into force so far
    certificate    \* the one in force, 0 when there is none

vars == <<nonce, hard, limits, serial, certificate>>

\* Limits are a maximum trade value and, for each token, a weight range and a flag.
Tighter(a, b) ==
    /\ a.maximum <= b.maximum
    /\ DOMAIN a.bounds = DOMAIN b.bounds
    /\ \A t \in DOMAIN b.bounds :
          /\ a.bounds[t].min >= b.bounds[t].min
          /\ a.bounds[t].max <= b.bounds[t].max
          /\ b.bounds[t].paused => a.bounds[t].paused

Init == nonce = 0 /\ limits = hard /\ serial = 0 /\ certificate = 0

\* Governance replaces the policy; whatever was tighter before is dropped.
Govern ==
    /\ nonce' > nonce
    /\ limits' = hard'
    /\ certificate' = 0
    /\ UNCHANGED serial

\* A new certificate tightens the limits of the policy it was issued for.
Certify ==
    /\ UNCHANGED <<nonce, hard>>
    /\ serial' = serial + 1
    /\ certificate' = serial'
    /\ Tighter(limits', hard)

\* The certificate in force expires, or its signer loses its authority.
Lapse ==
    /\ UNCHANGED <<nonce, hard, serial>>
    /\ limits' = hard
    /\ certificate' = 0

Next == Govern \/ Certify \/ Lapse

Spec == Init /\ [][Next]_vars
=============================================================================

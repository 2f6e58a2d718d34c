--------------------------- MODULE SessionBudget ---------------------------
(***************************************************************************)
(* What the owner of an agent is promised by the limits of a session: the  *)
(* input of every trade is put aside before the trade is sent, within the  *)
(* budget and the number of trades of the plan, and it is given back only  *)
(* if the trade was never sent and never will be.  DelegatedSession        *)
(* implements this specification.                                          *)
(***************************************************************************)
EXTENDS Naturals, FiniteSets, FiniteSetsExt

CONSTANTS
    Proposals,     \* trades the agent may propose
    InputAmount,   \* the input of each
    Budget,        \* cumulativeInputBudget of the plan
    MaxTrades      \* maxTradeCount of the plan

VARIABLES
    held,          \* trades whose input is put aside and that are not sent
    sent,          \* trades handed to the wallet provider
    returned       \* trades whose input was given back

ledger == <<held, sent, returned>>

Inputs(T) == MapThenSumSet(LAMBDA t : InputAmount[t], T)

Init == held = {} /\ sent = {} /\ returned = {}

Hold(t) ==
    /\ t \notin held \cup sent \cup returned
    /\ Cardinality(held \cup sent) < MaxTrades
    /\ Inputs(held \cup sent \cup {t}) <= Budget
    /\ held' = held \cup {t}
    /\ UNCHANGED <<sent, returned>>

Send(t) ==
    /\ t \in held
    /\ held' = held \ {t} /\ sent' = sent \cup {t}
    /\ UNCHANGED returned

GiveBack(t) ==
    /\ t \in held
    /\ held' = held \ {t} /\ returned' = returned \cup {t}
    /\ UNCHANGED sent

Next == \E t \in Proposals : Hold(t) \/ Send(t) \/ GiveBack(t)

Spec == Init /\ [][Next]_ledger
=============================================================================

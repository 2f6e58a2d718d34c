----------------------- MODULE RiskCertificateWorker -----------------------
(***************************************************************************)
(* packages/services/src/risk-worker.ts: worker processes that keep a      *)
(* fresh risk certificate of one position on the chain, over the tables of *)
(* packages/services/src/db/repository.ts and a chain that reorganizes.    *)
(*                                                                         *)
(* A tick runs from await to await: a step of a worker is the code between *)
(* two awaits, and what it awaits is answered in a step of its own, at any *)
(* time.  Processes crash and stall, calls fail, and an acknowledgement of *)
(* a sent transaction may be lost.  There is no clock: that the time of a  *)
(* lease, of a retry or of a certificate has come is a step of its own,    *)
(* and so is the choice to renew early.                                    *)
(***************************************************************************)
EXTENDS Naturals, FiniteSets, Sequences

CONSTANTS
    Workers,             \* worker processes over one database
    None,                \* nobody, nothing
    CertificateBound,    \* bounds of the model: certificates signed,
    AuthorityBound,      \* changes of policy or of the watchtower's authority,
    ReorgBound,          \* reorganizations
    FailureBound         \* and crashes, stalls, failed calls and lost answers

ASSUME WorkerAssumption ==
    /\ IsFiniteSet(Workers) /\ None \notin Workers
    /\ None \notin [serial : Nat, nonce : Nat, authority : Nat]
    /\ {CertificateBound, AuthorityBound, ReorgBound, FailureBound} \subseteq Nat

VARIABLES
    chain,        \* blocks, each with a certificate or an act of governance
    finalized,    \* how many of them are final
    sent,         \* certificates handed to the wallet provider for sending
    signed,       \* certificates signed
    expired,      \* certificates whose time is over
    owner,        \* risk_jobs: the process whose attempt is the job's, None when queued
    workflow,     \* risk_workflows
    rows,         \* risk_certificates: the status by certificate
    tick,         \* what each process is at
    reorgs, failures

chainVars  == <<chain, finalized, reorgs>>
walletVars == <<sent, signed, expired>>
storeVars  == <<workflow, rows>>
vars       == <<chainVars, walletVars, owner, storeVars, tick, failures>>

\* A tick that waits has a place in the code, the answer once it is there, and locals:
\* the certificate it works on and the context, receipt and final height it has read.
Idle       == [at |-> "idle", answer |-> None, certificate |-> None, context |-> None,
               receipt |-> None, final |-> 0]
NoWorkflow == [certificate |-> None, state |-> "NONE"]

Init ==
    /\ chain = <<>> /\ finalized = 0 /\ reorgs = 0
    /\ sent = {} /\ signed = {} /\ expired = {}
    /\ owner = None
    /\ workflow = NoWorkflow /\ rows = [c \in {} |-> "NONE"]
    /\ tick = [w \in Workers |-> Idle]
    /\ failures = 0

----------------------------------------------------------------------------
(* The chain.                                                              *)

Certified == {i \in DOMAIN chain : chain[i].certificate # None}
Governed  == DOMAIN chain \ Certified

\* What sources.context reads: the policy nonce and the authorization epoch, counted
\* together, the next certificate nonce, and whether the watchtower is authorized.
Context ==
    [authority  |-> Cardinality(Governed),
     nextNonce  |-> Cardinality({i \in Certified : chain[i].success}) + 1,
     authorized |-> \A i \in Governed : (\A j \in Governed : j <= i) => chain[i].success]

\* assertCertificateContext: nonces are not compared.
InContext(c, context) == context.authorized /\ c.authority = context.authority

\* What the registry accepts, and what the wallet checks before it signs and sends.
Acceptable(c) == InContext(c, Context) /\ c.nonce = Context.nextNonce /\ c \notin expired

Included(c) == \E i \in Certified : chain[i].certificate = c

Include(c) ==
    /\ c \in sent /\ ~Included(c)
    /\ chain' = Append(chain, [certificate |-> c, success |-> Acceptable(c)])
    /\ UNCHANGED <<finalized, reorgs, walletVars, owner, storeVars, tick, failures>>

\* A setter of the policy, or setWatchtower with its flag.
GovernanceActs ==
    /\ Cardinality(Governed) < AuthorityBound
    /\ \E authorized \in BOOLEAN :
          chain' = Append(chain, [certificate |-> None, success |-> authorized])
    /\ UNCHANGED <<finalized, reorgs, walletVars, owner, storeVars, tick, failures>>

Finalize ==
    /\ finalized < Len(chain)
    /\ finalized' = finalized + 1
    /\ UNCHANGED <<chain, reorgs, walletVars, owner, storeVars, tick, failures>>

Reorganize ==
    /\ reorgs < ReorgBound
    /\ \E n \in finalized .. Len(chain) - 1 : chain' = SubSeq(chain, 1, n)
    /\ reorgs' = reorgs + 1
    /\ UNCHANGED <<finalized, walletVars, owner, storeVars, tick, failures>>

\* Certificates expire in the order they were signed.
Expire ==
    /\ \E c \in signed \ expired :
          /\ \A d \in signed \ expired : c.serial <= d.serial
          /\ expired' = expired \cup {c}
    /\ UNCHANGED <<chainVars, sent, signed, owner, storeVars, tick, failures>>

----------------------------------------------------------------------------
(* Leases, ends and failures.                                              *)

\* Fault: the lease is not looked at after an await.
FaultyOwns(w) == TRUE

Owns(w) == owner = w

\* The process that has the job crashed in its tick.
Abandoned == owner # None /\ tick[owner] = Idle

\* Fault: a job that is still marked as running is never claimed.
FaultyClaim(w) ==
    /\ tick[w] = Idle
    /\ owner = None
    /\ owner' = w
    /\ tick' = [tick EXCEPT ![w].at = "context"]
    /\ UNCHANGED <<chainVars, walletVars, storeVars, failures>>

\* The job is due: it waited its time, its process is gone and its lease has lapsed, or
\* its process was too slow.
Claim(w) ==
    /\ tick[w] = Idle
    /\ IF owner = None \/ Abandoned
       THEN UNCHANGED failures
       ELSE failures < FailureBound /\ failures' = failures + 1
    /\ owner' = w
    /\ tick' = [tick EXCEPT ![w].at = "context"]
    /\ UNCHANGED <<chainVars, walletVars, storeVars>>

\* Return or throw; the job is released unless another process has it.
End(w) ==
    /\ tick' = [tick EXCEPT ![w] = Idle]
    /\ owner' = IF owner = w THEN None ELSE owner

Await(w, at, certificate) ==
    /\ tick' = [tick EXCEPT ![w] = [Idle EXCEPT !.at = at, !.certificate = certificate]]
    /\ UNCHANGED owner

\* The next await of the same kind of work.
GoOn(w, at) == tick' = [tick EXCEPT ![w].at = at, ![w].answer = None]

Keep == UNCHANGED <<chainVars, walletVars, failures>>

Crash(w) ==
    /\ tick[w] # Idle
    /\ failures < FailureBound /\ failures' = failures + 1
    /\ tick' = [tick EXCEPT ![w] = Idle]
    /\ UNCHANGED <<chainVars, walletVars, owner, storeVars>>

CallFails(w) ==
    /\ tick[w] # Idle /\ tick[w].answer = None
    /\ failures < FailureBound /\ failures' = failures + 1
    /\ End(w)
    /\ UNCHANGED <<chainVars, walletVars, storeVars>>

Waits(w, at)    == tick[w].at = at /\ tick[w].answer = None
Answer(w, value) == tick' = [tick EXCEPT ![w].answer = value]

\* After an await the code goes on only if the job is still its own.
Resumes(w, at) == tick[w].at = at /\ tick[w].answer # None /\ Owns(w)

LoseLease(w) ==
    /\ tick[w] # Idle /\ ~Owns(w)
    /\ ~Waits(w, "signature") /\ ~Waits(w, "send")
    /\ End(w)
    /\ Keep /\ UNCHANGED storeVars

----------------------------------------------------------------------------
(* Answers.                                                                *)

ReadContext(w) ==
    /\ Waits(w, "context")
    /\ Answer(w, Context)
    /\ Keep /\ UNCHANGED <<owner, storeVars>>

\* A block hash stands for all the chain up to the block.
HashAt(height) == SubSeq(chain, 1, height)

ReadReceipt(w) ==
    /\ Waits(w, "receipt")
    /\ Answer(w, {[height |-> i, hash |-> HashAt(i), success |-> chain[i].success] :
                     i \in {j \in Certified : chain[j].certificate = tick[w].certificate}})
    /\ Keep /\ UNCHANGED <<owner, storeVars>>

ReadCanonicalHash(w) ==
    /\ \E at \in {"canonicalHash", "canonicalHashAgain"} : Waits(w, at)
    /\ Answer(w, IF tick[w].receipt.height <= Len(chain)
                 THEN <<HashAt(tick[w].receipt.height)>> ELSE <<>>)
    /\ Keep /\ UNCHANGED <<owner, storeVars>>

\* wallet.signTypedData reads the authority, with the nonce, again after it signed.
Sign(w) ==
    /\ Waits(w, "signature")
    /\ LET c == [tick[w].certificate EXCEPT !.serial = Cardinality(signed) + 1]
       IN  /\ Cardinality(signed) < CertificateBound
           /\ Acceptable(c)
           /\ signed' = signed \cup {c}
           /\ Answer(w, c)
    /\ UNCHANGED <<chainVars, sent, expired, owner, storeVars, failures>>

\* wallet.simulateAndSend.  The provider keys a request by its calldata, so that the
\* same certificate is the same transaction.  The answer may be lost.
Send(w) ==
    /\ Waits(w, "send")
    /\ Acceptable(tick[w].certificate)
    /\ sent' = sent \cup {tick[w].certificate}
    /\ \/ Answer(w, "hash") /\ UNCHANGED <<owner, failures>>
       \/ /\ failures < FailureBound /\ failures' = failures + 1
          /\ End(w)
    /\ UNCHANGED <<chainVars, signed, expired, storeVars>>

\* The wallet refuses; CertificateBound is a bound of the model.
WalletRefuses(w) ==
    /\ \/ Waits(w, "signature") /\ (Cardinality(signed) >= CertificateBound
                                      \/ ~Acceptable(tick[w].certificate))
       \/ Waits(w, "send") /\ ~Acceptable(tick[w].certificate)
    /\ End(w)
    /\ Keep /\ UNCHANGED storeVars

----------------------------------------------------------------------------
(* The tick with the context it read: what to do about the stored workflow. *)

Here(w) == Resumes(w, "context")

Stored  == workflow.certificate
Living  == workflow.state \in {"SIGNED", "SUBMITTED", "ACTIVE"}
Expired == workflow # NoWorkflow /\ Stored \in expired

Record(c, state) ==
    /\ workflow' = [certificate |-> c, state |-> state]
    /\ rows' = [d \in DOMAIN rows \cup {c} |-> IF d = c THEN state ELSE rows[d]]

\* The next certificate, with the nonce and the authority of the context.
Draft(w, context) ==
    IF context.authorized
    THEN Await(w, "signingContext",
               [serial |-> 0, nonce |-> context.nextNonce, authority |-> context.authority])
    ELSE End(w)

ExpireWorkflow(w) ==
    /\ Here(w) /\ Expired
    /\ Record(Stored, "EXPIRED")
    /\ Draft(w, tick[w].answer)
    /\ Keep

StartAfresh(w) ==
    /\ Here(w) /\ ~Expired /\ ~Living
    /\ Draft(w, tick[w].answer)
    /\ Keep /\ UNCHANGED storeVars

Revoke(w) ==
    /\ Here(w) /\ ~Expired /\ Living
    /\ ~InContext(Stored, tick[w].answer)
    /\ Record(Stored, "REVOKED")
    /\ End(w)
    /\ Keep

\* A workflow that was submitted knows its transaction hash.
LookForReceipt(w) ==
    /\ Here(w) /\ ~Expired /\ Living
    /\ InContext(Stored, tick[w].answer)
    /\ workflow.state # "SIGNED"
    /\ tick' = [tick EXCEPT ![w].at = "receipt", ![w].answer = None,
                            ![w].certificate = Stored, ![w].context = tick[w].answer]
    /\ Keep /\ UNCHANGED <<owner, storeVars>>

\* Fault: a certificate that was signed is not sent again, a new one is signed.
FaultyPassed(c, context) == TRUE

\* Whoever sent it, the nonce of the certificate was used.
Passed(c, context) == c.nonce # context.nextNonce

Supersede(w) ==
    /\ Here(w) /\ ~Expired
    /\ workflow.state = "SIGNED"
    /\ InContext(Stored, tick[w].answer) /\ Passed(Stored, tick[w].answer)
    /\ workflow' = [workflow EXCEPT !.state = "EXPIRED"]
    /\ Draft(w, tick[w].answer)
    /\ Keep /\ UNCHANGED rows

\* The answer of the send was lost: the same certificate is sent again.
Resubmit(w) ==
    /\ Here(w) /\ ~Expired
    /\ workflow.state = "SIGNED"
    /\ InContext(Stored, tick[w].answer) /\ ~Passed(Stored, tick[w].answer)
    /\ Await(w, "submissionContext", Stored)
    /\ Keep /\ UNCHANGED storeVars

----------------------------------------------------------------------------
(* The outcome of a submitted certificate.                                 *)

NoReceipt(w) ==
    /\ Resumes(w, "receipt") /\ tick[w].answer = {}
    /\ Record(tick[w].certificate, "SUBMITTED")
    /\ End(w)
    /\ Keep

HaveReceipt(w) ==
    /\ Resumes(w, "receipt")
    /\ \E r \in tick[w].answer :
          tick' = [tick EXCEPT ![w].at = "canonicalHash", ![w].answer = None,
                               ![w].receipt = r]
    /\ Keep /\ UNCHANGED <<owner, storeVars>>

Canonical(w) == tick[w].answer = <<tick[w].receipt.hash>>

NotCanonical(w) ==
    /\ Resumes(w, "canonicalHash") /\ ~Canonical(w)
    /\ Record(tick[w].certificate, "SUBMITTED")
    /\ End(w)
    /\ Keep

IsCanonical(w) ==
    /\ Resumes(w, "canonicalHash") /\ Canonical(w)
    /\ GoOn(w, "finalizedBlock")
    /\ Keep /\ UNCHANGED <<owner, storeVars>>

ReadFinalizedBlock(w) ==
    /\ Waits(w, "finalizedBlock") /\ Owns(w)
    /\ tick' = [tick EXCEPT ![w].at = "canonicalHashAgain", ![w].final = finalized]
    /\ Keep /\ UNCHANGED <<owner, storeVars>>

\* Fault: the hash is not compared again after the finalized block was read.
FaultyDecided(w) == tick[w].receipt.height <= tick[w].final

\* The block was still there after the chain was final beyond it.
Decided(w) == Canonical(w) /\ tick[w].receipt.height <= tick[w].final

NotDecided(w) ==
    /\ Resumes(w, "canonicalHashAgain") /\ ~Decided(w)
    /\ End(w)
    /\ Keep /\ UNCHANGED storeVars

\* A certificate that is active may be due for renewal; the context is the one read
\* when the tick began.
Decide(w) ==
    /\ Resumes(w, "canonicalHashAgain") /\ Decided(w)
    /\ Record(tick[w].certificate, IF tick[w].receipt.success THEN "ACTIVE" ELSE "FAILED")
    /\ \/ End(w)
       \/ tick[w].receipt.success /\ Draft(w, tick[w].context)
    /\ Keep

----------------------------------------------------------------------------
(* Signing and sending.  The evaluation and the policy of the wallet, read *)
(* before, are left out.                                                   *)

\* Authority is read again before signing; a change of it is an error.
Confirm(w) ==
    /\ Waits(w, "signingContext") /\ Owns(w)
    /\ IF InContext(tick[w].certificate, Context)
       THEN GoOn(w, "signature") /\ UNCHANGED owner
       ELSE End(w)
    /\ Keep /\ UNCHANGED storeVars

\* Fault: the certificate is stored as it was drafted, not as it was signed.
FaultyStoreSigned(w) ==
    /\ Resumes(w, "signature")
    /\ Record(tick[w].certificate, "SIGNED")
    /\ Await(w, "submissionContext", tick[w].answer)
    /\ Keep

\* The signed certificate is stored, then risk.saveCertificate may refuse it because the
\* position it has is of another policy.
StoreSigned(w) ==
    /\ Resumes(w, "signature")
    /\ LET c == tick[w].answer
       IN  \/ /\ Record(c, "SIGNED")
              /\ Await(w, "submissionContext", c)
              /\ UNCHANGED failures
           \/ /\ failures < FailureBound /\ failures' = failures + 1
              /\ workflow' = [certificate |-> c, state |-> "SIGNED"]
              /\ End(w)
              /\ UNCHANGED rows
    /\ UNCHANGED <<chainVars, walletVars>>

\* And once more before sending.
ConfirmAgain(w) ==
    /\ Waits(w, "submissionContext") /\ Owns(w)
    /\ IF InContext(tick[w].certificate, Context)
       THEN GoOn(w, "send") /\ UNCHANGED owner
       ELSE End(w)
    /\ Keep /\ UNCHANGED storeVars

StoreSubmitted(w) ==
    /\ Resumes(w, "send")
    /\ Record(tick[w].certificate, "SUBMITTED")
    /\ End(w)
    /\ Keep

----------------------------------------------------------------------------
ChainNext ==
    \/ \E c \in sent : Include(c)
    \/ GovernanceActs \/ Finalize \/ Reorganize

Answers(w) ==
    \/ ReadContext(w) \/ ReadReceipt(w) \/ ReadCanonicalHash(w)
    \/ Sign(w) \/ Send(w) \/ WalletRefuses(w)

Works(w) ==
    \/ LoseLease(w)
    \/ ExpireWorkflow(w) \/ StartAfresh(w) \/ Revoke(w) \/ LookForReceipt(w)
    \/ Supersede(w) \/ Resubmit(w)
    \/ NoReceipt(w) \/ HaveReceipt(w) \/ NotCanonical(w) \/ IsCanonical(w)
    \/ ReadFinalizedBlock(w) \/ NotDecided(w) \/ Decide(w)
    \/ Confirm(w) \/ StoreSigned(w) \/ ConfirmAgain(w) \/ StoreSubmitted(w)

Next ==
    \/ ChainNext \/ Expire
    \/ \E w \in Workers : Claim(w) \/ Answers(w) \/ Works(w) \/ Crash(w) \/ CallFails(w)

\* Time passes, processes run and calls return; nothing is promised of the chain.
Fairness ==
    /\ WF_vars(Expire)
    /\ \A w \in Workers : WF_vars(Claim(w)) /\ WF_vars(Answers(w)) /\ WF_vars(Works(w))

Spec == Init /\ [][Next]_vars /\ Fairness

----------------------------------------------------------------------------
(* Properties.                                                             *)

Certificate == [serial : 0 .. CertificateBound, nonce : Nat, authority : Nat]

Places == {"idle", "context", "receipt", "canonicalHash", "finalizedBlock",
           "canonicalHashAgain", "signingContext", "signature", "submissionContext", "send"}

TypeOK ==
    /\ chain \in Seq([certificate : signed \cup {None}, success : BOOLEAN])
    /\ finalized \in 0 .. Len(chain)
    /\ sent \subseteq signed /\ expired \subseteq signed
    /\ signed \subseteq Certificate
    /\ owner \in Workers \cup {None}
    /\ workflow # NoWorkflow =>
          /\ workflow.certificate \in signed
          /\ workflow.state \in {"SIGNED", "SUBMITTED", "ACTIVE", "REVOKED", "EXPIRED", "FAILED"}
    /\ DOMAIN rows \subseteq signed
    /\ \A w \in Workers : tick[w].at \in Places

\* A certificate recorded as active was accepted by the chain, and one recorded as
\* failed was refused, in a block that can no longer go away.
RecordedOutcomeIsFinal ==
    \A c \in DOMAIN rows :
        rows[c] \in {"ACTIVE", "FAILED"} =>
            \E i \in 1 .. finalized :
                chain[i] = [certificate |-> c, success |-> rows[c] = "ACTIVE"]

\* Without a reorganization, two certificates that the chain could still accept are
\* never both under way: a lost answer, a crash or a lost lease leads to the same
\* certificate being sent again, or to another one once the first is out of date.
NoRivals ==
    reorgs = 0 =>
        \A c, d \in {e \in sent : ~Included(e) /\ Acceptable(e)} : c = d

Rank == [NONE |-> 0, SIGNED |-> 1, SUBMITTED |-> 2, ACTIVE |-> 3, FAILED |-> 3,
         REVOKED |-> 4, EXPIRED |-> 5]

\* The stored workflow goes to a newer certificate or forward with the same one, also
\* when a process that was replaced finishes late.
WorkflowMovesForward ==
    [][workflow' # workflow /\ workflow # NoWorkflow =>
          IF Stored' = Stored
          THEN Rank[workflow'.state] > Rank[workflow.state]
          ELSE Stored'.serial > Stored.serial]_vars

\* No certificate stays signed or submitted for ever, whatever becomes of its
\* transaction and of the process that sent it.
WorkflowSettles ==
    \A n \in 1 .. CertificateBound :
        (Living /\ workflow.state # "ACTIVE" /\ Stored.serial = n)
            ~> (~Living \/ workflow.state = "ACTIVE" \/ Stored.serial # n)
=============================================================================

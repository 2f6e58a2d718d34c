--------------------- MODULE RiskCertificateWorkerProofs ---------------------
(***************************************************************************)
(* Theorems about RiskCertificateWorker, for any number of processes,      *)
(* certificates, changes of authority, reorganizations and failures.       *)
(*                                                                         *)
(* The argument: a process that has the job when it resumes has had it     *)
(* since its tick began, because a job is only claimed by an idle process. *)
(* So nobody else wrote the workflow meanwhile, and what the tick read of  *)
(* it, or of the chain, can only be out of date in one direction: the part *)
(* of the chain that is final stays, and as long as the chain is not       *)
(* reorganized the nonces and the authority only grow.                     *)
(***************************************************************************)
EXTENDS RiskCertificateWorker, FiniteSetTheorems, SequenceTheorems, TLAPS

Outcome  == {"receipt", "canonicalHash", "finalizedBlock", "canonicalHashAgain"}
Received == {"canonicalHash", "finalizedBlock", "canonicalHashAgain"}
Signing  == {"signingContext", "signature"}
Sending  == {"submissionContext", "send"}

Block(certificates) == [certificate : certificates \cup {None}, success : BOOLEAN]
ContextType == [authority : Nat, nextNonce : Nat, authorized : BOOLEAN]
Drafts      == [serial : {0}, nonce : Nat, authority : Nat]
Recorded    == {"SIGNED", "SUBMITTED", "ACTIVE", "REVOKED", "EXPIRED", "FAILED"}

----------------------------------------------------------------------------
(* The invariant.                                                          *)

WalletInv ==
    /\ IsFiniteSet(signed)
    /\ signed \subseteq Certificate /\ sent \subseteq signed /\ expired \subseteq signed
    /\ \A c \in signed : c.serial <= Cardinality(signed)

\* A certificate is in the chain once.
ChainInv ==
    /\ chain \in Seq(Block(signed)) /\ finalized \in 0 .. Len(chain)
    /\ \A i, j \in Certified : chain[i].certificate = chain[j].certificate => i = j

StoreInv ==
    /\ owner \in Workers \cup {None}
    /\ workflow = NoWorkflow \/ workflow \in [certificate : signed, state : Recorded]
    /\ DOMAIN rows \subseteq signed

\* The workflow's outcome is final, as those of the rows.
OutcomeInv ==
    /\ RecordedOutcomeIsFinal
    /\ workflow.state \in {"ACTIVE", "FAILED"} =>
          \E i \in 1 .. finalized :
              chain[i] = [certificate |-> Stored, success |-> workflow.state = "ACTIVE"]

\* A receipt of a certificate: the hash of its block stands for the chain up to it.
OfReceipt(r, c) ==
    /\ r.height \in Nat \ {0}
    /\ r.hash[r.height] = [certificate |-> c, success |-> r.success]

\* A tick has these fields.
Tick(at, answer, certificate, context, receipt, final) ==
    [at |-> at, answer |-> answer, certificate |-> certificate, context |-> context,
     receipt |-> receipt, final |-> final]

IsTick(t) == t = Tick(t.at, t.answer, t.certificate, t.context, t.receipt, t.final)

\* What a tick knows: t is the tick, ch the chain, fin the final height, sg what is signed.
TickOk(t, ch, fin, sg) ==
    /\ IsTick(t)
    /\ t.at \in Places
    /\ t.at = "context" /\ t.answer # None => t.answer \in ContextType
    /\ t.at \in Outcome => t.certificate \in sg /\ t.context \in ContextType
    /\ t.at = "receipt" /\ t.answer # None => \A r \in t.answer : OfReceipt(r, t.certificate)
    /\ t.at \in Received => OfReceipt(t.receipt, t.certificate)
    /\ t.at = "canonicalHashAgain" => t.final \in 0 .. fin
    /\ /\ t.at = "canonicalHashAgain" /\ t.answer # None
       /\ t.answer = <<t.receipt.hash>> /\ t.receipt.height <= t.final
       => ch[t.receipt.height] = [certificate |-> t.certificate, success |-> t.receipt.success]
    /\ t.at \in Signing => t.certificate \in Drafts
    /\ t.at = "signature" /\ t.answer # None => t.answer \in sg
    /\ t.at \in Sending => t.certificate \in sg

TickInv ==
    /\ tick = [w \in Workers |-> tick[w]]
    /\ \A w \in Workers : TickOk(tick[w], chain, finalized, signed)

\* A receipt from the part of the chain that is final, of a certificate that was accepted.
Final(r, ch, fin) == r.height <= fin /\ r.hash = SubSeq(ch, 1, r.height) /\ r.success

\* What the tick that has the job knows of the workflow wf, which nobody else writes.
OwnerOk(t, wf, ch, fin) ==
    /\ t.at \in Outcome => wf.state \in {"SUBMITTED", "ACTIVE"} /\ t.certificate = wf.certificate
    /\ t.at \in Sending => wf.state = "SIGNED" /\ t.certificate = wf.certificate
    /\ t.at = "signature" /\ t.answer # None /\ wf # NoWorkflow =>
          wf.certificate.serial < t.answer.serial
    /\ wf.state = "ACTIVE" =>
          /\ t.at = "receipt" /\ t.answer # None =>
                t.answer # {} /\ \A r \in t.answer : Final(r, ch, fin)
          /\ t.at \in Received => Final(t.receipt, ch, fin)
          /\ t.at = "canonicalHash" /\ t.answer # None => t.answer = <<t.receipt.hash>>

OwnerInv == owner \in Workers => OwnerOk(tick[owner], workflow, chain, finalized)

Inv == WalletInv /\ ChainInv /\ StoreInv /\ OutcomeInv /\ TickInv /\ OwnerInv

----------------------------------------------------------------------------
(* The chain.                                                              *)

\* A certificate is not the absence of one.
LEMMA CertificateIsSomething == \A c \in Certificate : c # None
  BY WorkerAssumption DEF Certificate

\* A sequence over a set is one over every larger set.
LEMMA SeqGrows ==
    ASSUME NEW S, NEW T, S \subseteq T, NEW q \in Seq(S)
    PROVE  q \in Seq(T)
  OBVIOUS

\* The first blocks of a sequence.
LEMMA FirstBlocks ==
    ASSUME NEW S, NEW q \in Seq(S), NEW n \in 0 .. Len(q)
    PROVE  /\ SubSeq(q, 1, n) \in Seq(S) /\ Len(SubSeq(q, 1, n)) = n
           /\ \A i \in 1 .. n : SubSeq(q, 1, n)[i] = q[i]
<1>1. Len(q) \in Nat
  OBVIOUS
<1> QED BY <1>1, SubSeqProperties

\* Two chains that agree up to a block have the same hash there.
LEMMA SameHash ==
    ASSUME NEW S, NEW T, NEW p \in Seq(S), NEW q \in Seq(T), NEW n \in 0 .. Len(p),
           n <= Len(q), \A i \in 1 .. n : p[i] = q[i]
    PROVE  SubSeq(p, 1, n) = SubSeq(q, 1, n)
<1>1. Len(p) \in Nat /\ Len(q) \in Nat /\ n \in 0 .. Len(q)
  OBVIOUS
<1> DEFINE a == SubSeq(p, 1, n)
           b == SubSeq(q, 1, n)
<1>2. /\ a \in Seq(S) /\ Len(a) = n /\ \A i \in 1 .. n : a[i] = p[i]
      /\ b \in Seq(T) /\ Len(b) = n /\ \A i \in 1 .. n : b[i] = q[i]
  BY <1>1, FirstBlocks
<1> HIDE DEF a, b
<1>3. a \in Seq(S \cup T) /\ b \in Seq(S \cup T)
  BY <1>2, SeqGrows
<1>4. a = b
  BY <1>2, <1>3, SeqEqual
<1> QED BY <1>4 DEF a, b

\* The blocks a step may write.
LEMMA Blocks ==
    ASSUME ChainInv
    PROVE  /\ Len(chain) \in Nat /\ DOMAIN chain = 1 .. Len(chain)
           /\ \A i \in DOMAIN chain : chain[i] \in Block(signed)
           /\ Certified \subseteq DOMAIN chain /\ Governed \subseteq DOMAIN chain
           /\ \A i \in Certified : chain[i].certificate \in signed
<1>1. Len(chain) \in Nat /\ DOMAIN chain = 1 .. Len(chain)
  BY DEF ChainInv
<1>2. \A i \in DOMAIN chain : chain[i] \in Block(signed)
  BY DEF ChainInv
<1>3. Certified \subseteq DOMAIN chain /\ Governed \subseteq DOMAIN chain
  BY DEF Certified, Governed
<1>4. \A i \in Certified : chain[i].certificate \in signed
  BY <1>2 DEF Certified, Block
<1> QED BY <1>1, <1>2, <1>3, <1>4

\* The part of the chain that is final stays, and grows.
KeepsFinal ==
    /\ finalized <= finalized' /\ finalized' \in 0 .. Len(chain')
    /\ \A i \in 1 .. finalized : chain'[i] = chain[i]

\* Steps of the chain, and of time.
World == ChainNext \/ Expire

\* Steps of process w.
Runs(w) == Claim(w) \/ Answers(w) \/ Works(w) \/ Crash(w) \/ CallFails(w)

\* A step of the world leaves the database and the processes alone.
LEMMA WorldKeeps ==
    ASSUME World
    PROVE  UNCHANGED <<tick, owner, workflow, rows, signed, sent>>
  BY DEF World, ChainNext, Include, GovernanceActs, Finalize, Reorganize, Expire, walletVars,
         storeVars, chainVars

\* A step of a process leaves the chain alone.
LEMMA RunsKeeps ==
    ASSUME NEW w \in Workers, Runs(w)
    PROVE  UNCHANGED <<chain, finalized, reorgs, expired>>
<1> USE DEF chainVars, walletVars, Keep
<1>1. CASE Claim(w) \/ Crash(w) \/ CallFails(w)
  BY <1>1 DEF Claim, Crash, CallFails
<1>2. CASE Answers(w)
  BY <1>2 DEF Answers, ReadContext, ReadReceipt, ReadCanonicalHash, Sign, Send, WalletRefuses
<1>3. CASE Works(w)
  BY <1>3 DEF Works, LoseLease, ExpireWorkflow, StartAfresh, Revoke, LookForReceipt, Supersede,
              Resubmit, NoReceipt, HaveReceipt, NotCanonical, IsCanonical, ReadFinalizedBlock,
              NotDecided, Decide, Confirm, StoreSigned, ConfirmAgain, StoreSubmitted
<1> QED BY <1>1, <1>2, <1>3 DEF Runs

\* Only signatures and requests change the wallet.
LEMMA RunsWallet ==
    ASSUME NEW w \in Workers, Runs(w)
    PROVE  /\ ~Sign(w) => UNCHANGED signed
           /\ ~Send(w) => UNCHANGED sent
<1> USE DEF chainVars, walletVars, Keep
<1>1. CASE Claim(w) \/ Crash(w) \/ CallFails(w)
  BY <1>1 DEF Claim, Crash, CallFails
<1>2. CASE Answers(w)
  BY <1>2 DEF Answers, ReadContext, ReadReceipt, ReadCanonicalHash, Sign, Send, WalletRefuses
<1>3. CASE Works(w)
  BY <1>3 DEF Works, LoseLease, ExpireWorkflow, StartAfresh, Revoke, LookForReceipt, Supersede,
              Resubmit, NoReceipt, HaveReceipt, NotCanonical, IsCanonical, ReadFinalizedBlock,
              NotDecided, Decide, Confirm, StoreSigned, ConfirmAgain, StoreSubmitted
<1> QED BY <1>1, <1>2, <1>3 DEF Runs

\* What a tick does to the job and to the rest of the database: nothing if the job is
\* another's, except that an idle process may claim it.
LEMMA RunsOwner ==
    ASSUME NEW w \in Workers, Runs(w)
    PROVE  /\ owner' \in {owner, w, None}
           /\ ~Claim(w) => owner' \in {owner, None}
           /\ owner # w => UNCHANGED <<workflow, rows>>
<1> USE DEF storeVars, Keep
<1>1. CASE Claim(w) \/ Crash(w) \/ CallFails(w)
  BY <1>1 DEF Claim, Crash, CallFails, End
<1>2. CASE Answers(w)
  BY <1>2 DEF Answers, ReadContext, ReadReceipt, ReadCanonicalHash, Sign, Send, WalletRefuses, End
<1>3. CASE ExpireWorkflow(w) \/ StartAfresh(w) \/ Supersede(w) \/ Decide(w)
  <2>1. ASSUME NEW k, Draft(w, k) PROVE owner' \in {owner, None}
    BY <2>1 DEF Draft, End, Await
  <2>2. End(w) => owner' \in {owner, None}
    BY DEF End
  <2> QED BY <1>3, <2>1, <2>2 DEF ExpireWorkflow, StartAfresh, Supersede, Decide, Here, Resumes, Owns
<1>4. CASE \/ LoseLease(w) \/ Revoke(w) \/ NoReceipt(w) \/ NotCanonical(w) \/ NotDecided(w)
           \/ StoreSubmitted(w)
  BY <1>4 DEF LoseLease, Revoke, NoReceipt, NotCanonical, NotDecided, StoreSubmitted, End, Here,
              Resumes, Owns
<1>5. CASE \/ LookForReceipt(w) \/ Resubmit(w) \/ HaveReceipt(w) \/ IsCanonical(w)
           \/ ReadFinalizedBlock(w)
  BY <1>5 DEF LookForReceipt, Resubmit, HaveReceipt, IsCanonical, ReadFinalizedBlock, Await
<1>6. CASE Confirm(w) \/ StoreSigned(w) \/ ConfirmAgain(w)
  BY <1>6 DEF Confirm, StoreSigned, ConfirmAgain, End, Await, Resumes, Owns
<1> QED BY <1>1, <1>2, <1>3, <1>4, <1>5, <1>6 DEF Runs, Works

\* Appending a block leaves the blocks there are.
LEMMA AppendBlock ==
    ASSUME ChainInv, NEW b \in Block(signed), chain' = Append(chain, b)
    PROVE  /\ chain' \in Seq(Block(signed)) /\ Len(chain') = Len(chain) + 1
           /\ \A i \in DOMAIN chain : chain'[i] = chain[i]
           /\ chain'[Len(chain) + 1] = b
           /\ DOMAIN chain' = DOMAIN chain \cup {Len(chain) + 1} /\ Len(chain) + 1 \notin DOMAIN chain
  BY Blocks DEF ChainInv

\* A certificate is included once, blocks that are final stay.
LEMMA ChainStep ==
    ASSUME Inv, [Next]_vars
    PROVE  ChainInv' /\ KeepsFinal
<1> USE DEF Inv, KeepsFinal
<1>a. finalized \in 0 .. Len(chain) /\ chain \in Seq(Block(signed))
  BY DEF ChainInv
<1>1. CASE UNCHANGED <<chain, finalized>> /\ signed \subseteq signed'
  <2>1. Block(signed) \subseteq Block(signed')
    BY <1>1 DEF Block
  <2>2. chain \in Seq(Block(signed'))
    BY <1>a, <2>1, SeqGrows
  <2> QED BY <1>1, <1>a, <2>2 DEF ChainInv, Certified
<1>2. ASSUME NEW w \in Workers, Runs(w) PROVE UNCHANGED <<chain, finalized>> /\ signed \subseteq signed'
  BY <1>2, RunsKeeps, RunsWallet DEF Sign
<1>3. ASSUME NEW c \in sent, Include(c) PROVE ChainInv' /\ KeepsFinal
  <2> DEFINE b == [certificate |-> c, success |-> Acceptable(c)]
  <2>1. chain' = Append(chain, b) /\ ~Included(c) /\ UNCHANGED <<finalized, signed>>
    BY <1>3 DEF Include, walletVars
  <2>2. b \in Block(signed)
    BY DEF Block, WalletInv, Acceptable, InContext
  <2> HIDE DEF b
  <2>3. /\ chain' \in Seq(Block(signed)) /\ Len(chain') = Len(chain) + 1
        /\ \A i \in DOMAIN chain : chain'[i] = chain[i]
        /\ chain'[Len(chain) + 1] = b
        /\ DOMAIN chain' = DOMAIN chain \cup {Len(chain) + 1}
        /\ Len(chain) + 1 \notin DOMAIN chain
    BY <2>1, <2>2, AppendBlock
  <2>4. \A i \in DOMAIN chain : chain[i].certificate = b.certificate => i \notin Certified
    BY <2>1 DEF Included, b
  <2>5. \A i, j \in Certified' : chain'[i].certificate = chain'[j].certificate => i = j
    BY <2>3, <2>4 DEF Certified, ChainInv
  <2>6. DOMAIN chain = 1 .. Len(chain) /\ Len(chain) \in Nat
    BY Blocks
  <2>7. finalized' = finalized /\ finalized \in 0 .. Len(chain') /\ signed' = signed
    BY <1>a, <2>1, <2>3, <2>6
  <2>8. ChainInv'
    BY <2>3, <2>5, <2>7 DEF ChainInv
  <2>9. KeepsFinal
    BY <1>a, <2>3, <2>6, <2>7
  <2> QED BY <2>8, <2>9
<1>4. ASSUME GovernanceActs PROVE ChainInv' /\ KeepsFinal
  <2>1. PICK authorized \in BOOLEAN :
           chain' = Append(chain, [certificate |-> None, success |-> authorized])
    BY <1>4 DEF GovernanceActs
  <2> DEFINE b == [certificate |-> None, success |-> authorized]
  <2>2. b \in Block(signed) /\ UNCHANGED <<finalized, signed>> /\ b.certificate = None
    BY <1>4 DEF Block, GovernanceActs, walletVars
  <2>3. chain' = Append(chain, b)
    BY <2>1
  <2> HIDE DEF b
  <2>4. /\ chain' \in Seq(Block(signed)) /\ Len(chain') = Len(chain) + 1
        /\ \A i \in DOMAIN chain : chain'[i] = chain[i]
        /\ chain'[Len(chain) + 1] = b
        /\ DOMAIN chain' = DOMAIN chain \cup {Len(chain) + 1}
        /\ Len(chain) + 1 \notin DOMAIN chain
    BY <2>2, <2>3, AppendBlock
  <2>5. \A i, j \in Certified' : chain'[i].certificate = chain'[j].certificate => i = j
    BY <2>2, <2>4 DEF Certified, ChainInv
  <2>6. DOMAIN chain = 1 .. Len(chain) /\ Len(chain) \in Nat
    BY Blocks
  <2> QED BY <1>a, <2>2, <2>4, <2>5, <2>6 DEF ChainInv
<1>5. ASSUME Finalize PROVE ChainInv' /\ KeepsFinal
  <2>1. UNCHANGED <<chain, signed>> /\ finalized' = finalized + 1 /\ finalized < Len(chain)
    BY <1>5 DEF Finalize, walletVars
  <2> QED BY <1>a, <2>1 DEF ChainInv, Certified
<1>6. ASSUME Reorganize PROVE ChainInv' /\ KeepsFinal
  <2>1. PICK n \in finalized .. Len(chain) - 1 : chain' = SubSeq(chain, 1, n)
    BY <1>6 DEF Reorganize
  <2>2. UNCHANGED <<finalized, signed>>
    BY <1>6 DEF Reorganize, walletVars
  <2>3. n \in 0 .. Len(chain) /\ Len(chain) \in Nat
    BY <1>a, Blocks
  <2>4. /\ chain' \in Seq(Block(signed)) /\ Len(chain') = n
        /\ \A i \in 1 .. n : chain'[i] = chain[i]
    BY <1>a, <2>1, <2>3, FirstBlocks
  <2>5. DOMAIN chain' = 1 .. n /\ DOMAIN chain = 1 .. Len(chain)
    BY <2>4, Blocks
  <2>6. \A i \in Certified' : i \in Certified /\ chain'[i] = chain[i]
    BY <2>3, <2>4, <2>5 DEF Certified
  <2> QED BY <1>a, <2>2, <2>3, <2>4, <2>6 DEF ChainInv
<1>7. CASE Expire \/ UNCHANGED vars
  BY <1>1, <1>7 DEF Expire, vars, chainVars, walletVars
<1> QED BY <1>1, <1>2, <1>3, <1>4, <1>5, <1>6, <1>7 DEF Next, ChainNext, Runs

\* Certificates are signed one after the other, and sent once they are.
LEMMA WalletStep ==
    ASSUME Inv, [Next]_vars
    PROVE  WalletInv' /\ signed \subseteq signed'
<1> USE DEF Inv, WalletInv
<1>1. CASE UNCHANGED signed /\ sent' \subseteq signed /\ expired' \subseteq signed
  BY <1>1
<1>2. ASSUME World PROVE UNCHANGED signed /\ sent' \subseteq signed /\ expired' \subseteq signed
  <2>1. UNCHANGED <<signed, sent>> /\ expired' \subseteq signed
    BY <1>2, WorldKeeps DEF World, ChainNext, Include, GovernanceActs, Finalize, Reorganize,
                            Expire, walletVars
  <2> QED BY <2>1
<1>3. ASSUME NEW w \in Workers, Runs(w), ~Sign(w)
      PROVE  UNCHANGED signed /\ sent' \subseteq signed /\ expired' \subseteq signed
  <2>1. UNCHANGED <<signed, expired>>
    BY <1>3, RunsKeeps, RunsWallet
  <2>2. sent' \subseteq signed
    <3>1. CASE Send(w)
      <4>1. tick[w].certificate \in signed
        BY <3>1 DEF Send, Waits, TickInv, TickOk, Sending
      <4> QED BY <3>1, <4>1 DEF Send
    <3>2. CASE ~Send(w)
      BY <1>3, <3>2, RunsWallet
    <3> QED BY <3>1, <3>2
  <2> QED BY <2>1, <2>2
<1>4. ASSUME NEW w \in Workers, Sign(w) PROVE WalletInv' /\ signed \subseteq signed'
  <2> DEFINE c == [tick[w].certificate EXCEPT !.serial = Cardinality(signed) + 1]
  <2>1. /\ Cardinality(signed) < CertificateBound /\ signed' = signed \cup {c}
        /\ UNCHANGED <<sent, expired>>
    BY <1>4 DEF Sign
  <2>2. tick[w].certificate \in Drafts
    BY <1>4 DEF Sign, Waits, TickInv, TickOk, Signing
  <2>3. Cardinality(signed) \in Nat
    BY FS_CardinalityType
  <2>4. c \in Certificate /\ c.serial = Cardinality(signed) + 1
    BY <2>1, <2>2, <2>3, WorkerAssumption DEF Drafts, Certificate
  <2> HIDE DEF c
  <2>5. c \notin signed
    BY <2>3, <2>4
  <2>6. IsFiniteSet(signed') /\ Cardinality(signed') = Cardinality(signed) + 1
    BY <2>1, <2>5, FS_AddElement
  <2>7. \A d \in signed : d.serial <= Cardinality(signed) + 1
    <3>1. \A d \in signed : d.serial \in Nat
      BY WorkerAssumption DEF Certificate
    <3> QED BY <2>3, <3>1
  <2>8. signed' \subseteq Certificate /\ sent' \subseteq signed' /\ expired' \subseteq signed'
    BY <2>1, <2>4
  <2>9. \A d \in signed' : d.serial <= Cardinality(signed')
    BY <2>1, <2>3, <2>4, <2>6, <2>7
  <2> QED BY <2>1, <2>6, <2>8, <2>9
<1>5. CASE UNCHANGED vars
  BY <1>1, <1>5 DEF vars, walletVars
<1>6. ASSUME UNCHANGED signed PROVE signed \subseteq signed'
  BY <1>6
<1> QED BY <1>1, <1>2, <1>3, <1>4, <1>5, <1>6 DEF Next, World, Runs

----------------------------------------------------------------------------
(* Ticks.                                                                  *)

\* The fields of a tick, and of one that differs in a field.
LEMMA TickParts ==
    ASSUME NEW a, NEW b, NEW c, NEW d, NEW e, NEW f, NEW t, t = Tick(a, b, c, d, e, f)
    PROVE  /\ IsTick(t) /\ t.at = a /\ t.answer = b /\ t.certificate = c
           /\ t.context = d /\ t.receipt = e /\ t.final = f
  BY DEF Tick, IsTick

LEMMA TickWithAt ==
    ASSUME NEW t, IsTick(t), NEW x
    PROVE  [t EXCEPT !.at = x]
             = Tick(x, t.answer, t.certificate, t.context, t.receipt, t.final)
<1> DEFINE b == t.answer
           c == t.certificate
           d == t.context
           e == t.receipt
           f == t.final
<1>1. PICK a : t = Tick(a, b, c, d, e, f)
  BY DEF IsTick
<1> HIDE DEF b, c, d, e, f
<1>2. [t EXCEPT !.at = x] = Tick(x, b, c, d, e, f)
  BY <1>1 DEF Tick
<1> QED BY <1>2 DEF b, c, d, e, f

LEMMA TickWithAnswer ==
    ASSUME NEW t, IsTick(t), NEW x
    PROVE  [t EXCEPT !.answer = x]
             = Tick(t.at, x, t.certificate, t.context, t.receipt, t.final)
  BY DEF Tick, IsTick

LEMMA TickWithCertificate ==
    ASSUME NEW t, IsTick(t), NEW x
    PROVE  [t EXCEPT !.certificate = x]
             = Tick(t.at, t.answer, x, t.context, t.receipt, t.final)
  BY DEF Tick, IsTick

LEMMA TickWithContext ==
    ASSUME NEW t, IsTick(t), NEW x
    PROVE  [t EXCEPT !.context = x]
             = Tick(t.at, t.answer, t.certificate, x, t.receipt, t.final)
  BY DEF Tick, IsTick

LEMMA TickWithReceipt ==
    ASSUME NEW t, IsTick(t), NEW x
    PROVE  [t EXCEPT !.receipt = x]
             = Tick(t.at, t.answer, t.certificate, t.context, x, t.final)
  BY DEF Tick, IsTick

LEMMA TickWithFinal ==
    ASSUME NEW t, IsTick(t), NEW x
    PROVE  [t EXCEPT !.final = x]
             = Tick(t.at, t.answer, t.certificate, t.context, t.receipt, x)
  BY DEF Tick, IsTick

\* What a tick becomes when it starts on a certificate, goes on after an answer, looks for
\* a receipt, has one, and has read the final height.
LEMMA TickStarts ==
    ASSUME NEW t, IsTick(t), NEW at, NEW c
    PROVE  [t EXCEPT !.at = at, !.certificate = c]
             = Tick(at, t.answer, c, t.context, t.receipt, t.final)
<1> DEFINE v1 == [t EXCEPT !.at = at]
<1>1. /\ IsTick(v1) /\ v1.at = at /\ v1.answer = t.answer
      /\ v1.certificate = t.certificate /\ v1.context = t.context /\ v1.receipt = t.receipt
      /\ v1.final = t.final
  BY TickWithAt, TickParts
<1> HIDE DEF v1
<1>2. [v1 EXCEPT !.certificate = c] = Tick(at, t.answer, c, t.context, t.receipt, t.final)
  BY <1>1, TickWithCertificate
<1> QED BY <1>2 DEF v1

LEMMA TickGoesOn ==
    ASSUME NEW t, IsTick(t), NEW at
    PROVE  [t EXCEPT !.at = at, !.answer = None]
             = Tick(at, None, t.certificate, t.context, t.receipt, t.final)
<1> DEFINE v1 == [t EXCEPT !.at = at]
<1>1. /\ IsTick(v1) /\ v1.at = at /\ v1.answer = t.answer
      /\ v1.certificate = t.certificate /\ v1.context = t.context /\ v1.receipt = t.receipt
      /\ v1.final = t.final
  BY TickWithAt, TickParts
<1> HIDE DEF v1
<1>2. [v1 EXCEPT !.answer = None] = Tick(at, None, t.certificate, t.context, t.receipt, t.final)
  BY <1>1, TickWithAnswer
<1> QED BY <1>2 DEF v1

LEMMA TickLooks ==
    ASSUME NEW t, IsTick(t), NEW at, NEW c, NEW k
    PROVE  [t EXCEPT !.at = at, !.answer = None, !.certificate = c, !.context = k]
             = Tick(at, None, c, k, t.receipt, t.final)
<1> DEFINE v1 == [t EXCEPT !.at = at]
<1>1. /\ IsTick(v1) /\ v1.at = at /\ v1.answer = t.answer
      /\ v1.certificate = t.certificate /\ v1.context = t.context /\ v1.receipt = t.receipt
      /\ v1.final = t.final
  BY TickWithAt, TickParts
<1> HIDE DEF v1
<1> DEFINE v2 == [v1 EXCEPT !.answer = None]
<1>2. /\ IsTick(v2) /\ v2.at = at /\ v2.answer = None
      /\ v2.certificate = t.certificate /\ v2.context = t.context /\ v2.receipt = t.receipt
      /\ v2.final = t.final
  BY <1>1, TickWithAnswer, TickParts
<1> HIDE DEF v2
<1> DEFINE v3 == [v2 EXCEPT !.certificate = c]
<1>3. /\ IsTick(v3) /\ v3.at = at /\ v3.answer = None
      /\ v3.certificate = c /\ v3.context = t.context /\ v3.receipt = t.receipt
      /\ v3.final = t.final
  BY <1>2, TickWithCertificate, TickParts
<1> HIDE DEF v3
<1>4. [v3 EXCEPT !.context = k] = Tick(at, None, c, k, t.receipt, t.final)
  BY <1>3, TickWithContext
<1> QED BY <1>4 DEF v1, v2, v3

LEMMA TickHas ==
    ASSUME NEW t, IsTick(t), NEW at, NEW r
    PROVE  [t EXCEPT !.at = at, !.answer = None, !.receipt = r]
             = Tick(at, None, t.certificate, t.context, r, t.final)
<1> DEFINE v1 == [t EXCEPT !.at = at]
<1>1. /\ IsTick(v1) /\ v1.at = at /\ v1.answer = t.answer
      /\ v1.certificate = t.certificate /\ v1.context = t.context /\ v1.receipt = t.receipt
      /\ v1.final = t.final
  BY TickWithAt, TickParts
<1> HIDE DEF v1
<1> DEFINE v2 == [v1 EXCEPT !.answer = None]
<1>2. /\ IsTick(v2) /\ v2.at = at /\ v2.answer = None
      /\ v2.certificate = t.certificate /\ v2.context = t.context /\ v2.receipt = t.receipt
      /\ v2.final = t.final
  BY <1>1, TickWithAnswer, TickParts
<1> HIDE DEF v2
<1>3. [v2 EXCEPT !.receipt = r] = Tick(at, None, t.certificate, t.context, r, t.final)
  BY <1>2, TickWithReceipt
<1> QED BY <1>3 DEF v1, v2

LEMMA TickReads ==
    ASSUME NEW t, IsTick(t), NEW at, NEW n
    PROVE  [t EXCEPT !.at = at, !.final = n]
             = Tick(at, t.answer, t.certificate, t.context, t.receipt, n)
<1> DEFINE v1 == [t EXCEPT !.at = at]
<1>1. /\ IsTick(v1) /\ v1.at = at /\ v1.answer = t.answer
      /\ v1.certificate = t.certificate /\ v1.context = t.context /\ v1.receipt = t.receipt
      /\ v1.final = t.final
  BY TickWithAt, TickParts
<1> HIDE DEF v1
<1>2. [v1 EXCEPT !.final = n] = Tick(at, t.answer, t.certificate, t.context, t.receipt, n)
  BY <1>1, TickWithFinal
<1> QED BY <1>2 DEF v1

\* Places of a tick where nothing is known of it yet, and where it sends or signs.
LEMMA TickIdle ==
    ASSUME NEW ch, NEW fin, NEW sg, NEW at \in {"idle", "context"}
    PROVE  /\ TickOk([Idle EXCEPT !.at = at], ch, fin, sg) /\ TickOk(Idle, ch, fin, sg)
           /\ \A wf : /\ OwnerOk([Idle EXCEPT !.at = at], wf, ch, fin)
                      /\ OwnerOk(Idle, wf, ch, fin)
<1>1. IsTick(Idle) /\ Idle.at = "idle" /\ Idle.answer = None
  BY DEF Idle, IsTick, Tick
<1> DEFINE t == [Idle EXCEPT !.at = at]
<1>2. IsTick(t) /\ t.at = at /\ t.answer = None
  BY <1>1, TickWithAt, TickParts
<1> HIDE DEF t
<1>3. TickOk(t, ch, fin, sg) /\ TickOk(Idle, ch, fin, sg)
  BY <1>1, <1>2 DEF TickOk, Places, Outcome, Received, Signing, Sending
<1>4. \A wf : OwnerOk(t, wf, ch, fin) /\ OwnerOk(Idle, wf, ch, fin)
  BY <1>1, <1>2 DEF OwnerOk, Outcome, Received, Sending
<1> QED BY <1>3, <1>4 DEF t

LEMMA TickSending ==
    ASSUME NEW ch, NEW fin, NEW sg, NEW c \in sg
    PROVE  /\ TickOk([Idle EXCEPT !.at = "submissionContext", !.certificate = c], ch, fin, sg)
           /\ OwnerOk([Idle EXCEPT !.at = "submissionContext", !.certificate = c],
                      [certificate |-> c, state |-> "SIGNED"], ch, fin)
<1> DEFINE t == [Idle EXCEPT !.at = "submissionContext", !.certificate = c]
<1>1. IsTick(Idle) /\ Idle.answer = None
  BY DEF Idle, IsTick, Tick
<1>a. t = Tick("submissionContext", Idle.answer, c, Idle.context, Idle.receipt, Idle.final)
  BY <1>1, TickStarts
<1> HIDE DEF t
<1>2. IsTick(t) /\ t.at = "submissionContext" /\ t.answer = None /\ t.certificate = c
  BY <1>1, <1>a, TickParts
<1>3. TickOk(t, ch, fin, sg)
  BY <1>2 DEF TickOk, Places, Outcome, Received, Signing, Sending
<1>4. OwnerOk(t, [certificate |-> c, state |-> "SIGNED"], ch, fin)
  BY <1>2 DEF OwnerOk, Outcome, Received, Sending
<1> QED BY <1>3, <1>4 DEF t

LEMMA TickDraft ==
    ASSUME NEW ch, NEW fin, NEW sg, NEW c \in Drafts
    PROVE  /\ TickOk([Idle EXCEPT !.at = "signingContext", !.certificate = c], ch, fin, sg)
           /\ \A wf : OwnerOk([Idle EXCEPT !.at = "signingContext", !.certificate = c], wf, ch, fin)
<1> DEFINE t == [Idle EXCEPT !.at = "signingContext", !.certificate = c]
<1>1. IsTick(Idle) /\ Idle.answer = None
  BY DEF Idle, IsTick, Tick
<1>a. t = Tick("signingContext", Idle.answer, c, Idle.context, Idle.receipt, Idle.final)
  BY <1>1, TickStarts
<1> HIDE DEF t
<1>2. IsTick(t) /\ t.at = "signingContext" /\ t.answer = None /\ t.certificate = c
  BY <1>1, <1>a, TickParts
<1>3. TickOk(t, ch, fin, sg)
  BY <1>2 DEF TickOk, Places, Outcome, Received, Signing, Sending
<1>4. \A wf : OwnerOk(t, wf, ch, fin)
  BY <1>2 DEF OwnerOk, Outcome, Received, Sending
<1> QED BY <1>3, <1>4 DEF t

\* What a tick knows stays so while the chain is only final further.
LEMMA TickStable ==
    ASSUME NEW t, NEW ch, NEW fin \in Nat, NEW sg, TickOk(t, ch, fin, sg),
           NEW ch2, NEW fin2 \in Nat, NEW sg2,
           fin <= fin2, \A i \in 1 .. fin : ch2[i] = ch[i], sg \subseteq sg2
    PROVE  TickOk(t, ch2, fin2, sg2)
<1>1. ASSUME t.at = "canonicalHashAgain", t.answer # None,
             t.answer = <<t.receipt.hash>>, t.receipt.height <= t.final
      PROVE  ch2[t.receipt.height] = [certificate |-> t.certificate, success |-> t.receipt.success]
  BY <1>1 DEF TickOk, Received, OfReceipt
<1>2. t.at = "canonicalHashAgain" => t.final \in 0 .. fin2
  BY DEF TickOk
<1> QED BY <1>1, <1>2 DEF TickOk

\* The two ways a tick goes on after an await.
LEMMA TickMoves ==
    ASSUME TickInv, NEW w \in Workers
    PROVE  /\ \A at : GoOn(w, at)
                => tick' = [tick EXCEPT ![w] = [tick[w] EXCEPT !.at = at, !.answer = None]]
           /\ \A value : Answer(w, value)
                => tick' = [tick EXCEPT ![w] = [tick[w] EXCEPT !.answer = value]]
<1>1. tick = [v \in Workers |-> tick[v]]
  BY DEF TickInv
<1>2. ASSUME NEW at, GoOn(w, at)
      PROVE  tick' = [tick EXCEPT ![w] = [tick[w] EXCEPT !.at = at, !.answer = None]]
  BY <1>1, <1>2 DEF GoOn
<1>3. ASSUME NEW value, Answer(w, value)
      PROVE  tick' = [tick EXCEPT ![w] = [tick[w] EXCEPT !.answer = value]]
  BY <1>1, <1>3 DEF Answer
<1> QED BY <1>2, <1>3

\* What sources.context reads.
LEMMA ContextTyped == ChainInv => Context \in ContextType
<1> SUFFICES ASSUME ChainInv PROVE Context \in ContextType
  OBVIOUS
<1>1. IsFiniteSet(DOMAIN chain)
  BY Blocks, FS_Interval
<1>2. IsFiniteSet(Governed) /\ IsFiniteSet({i \in Certified : chain[i].success})
  BY <1>1, FS_Subset DEF Governed, Certified
<1>3. /\ Cardinality(Governed) \in Nat
      /\ Cardinality({i \in Certified : chain[i].success}) \in Nat
  BY <1>2, FS_CardinalityType
<1>4. (\A i \in Governed : (\A j \in Governed : j <= i) => chain[i].success) \in BOOLEAN
  OBVIOUS
<1> QED BY <1>3, <1>4 DEF Context, ContextType

\* The next certificate is drafted, or none.
LEMMA DraftTick ==
    ASSUME NEW w \in Workers, NEW k \in ContextType, Draft(w, k)
    PROVE  /\ \/ tick' = [tick EXCEPT ![w] = Idle]
              \/ \E c \in Drafts : tick' = [tick EXCEPT ![w] =
                                               [Idle EXCEPT !.at = "signingContext", !.certificate = c]]
           /\ owner' \in {owner, None}
<1> DEFINE c == [serial |-> 0, nonce |-> k.nextNonce, authority |-> k.authority]
<1>1. c \in Drafts
  BY DEF Drafts, ContextType
<1>2. CASE k.authorized
  <2>1. Await(w, "signingContext", c)
    BY <1>2 DEF Draft
  <2> HIDE DEF c
  <2> QED BY <1>1, <2>1 DEF Await
<1>3. CASE ~k.authorized
  BY <1>3 DEF Draft, End
<1> QED BY <1>2, <1>3

\* Every step of a process leaves its tick with what it should know, of the workflow too
\* if the job is its own.
LEMMA RunTick ==
    ASSUME Inv, NEW w \in Workers, Runs(w)
    PROVE  \E t : /\ tick' = [tick EXCEPT ![w] = t]
                  /\ TickOk(t, chain, finalized, signed')
                  /\ owner' = w => OwnerOk(t, workflow', chain, finalized)
<1> DEFINE Good == \E t : /\ tick' = [tick EXCEPT ![w] = t]
                          /\ TickOk(t, chain, finalized, signed')
                          /\ owner' = w => OwnerOk(t, workflow', chain, finalized)
<1>a. TickOk(tick[w], chain, finalized, signed) /\ tick = [v \in Workers |-> tick[v]]
  BY DEF Inv, TickInv
<1>b. ~Sign(w) => signed' = signed
  BY RunsWallet
<1>c. /\ chain \in Seq(Block(signed)) /\ finalized \in 0 .. Len(chain) /\ Len(chain) \in Nat
      /\ DOMAIN chain = 1 .. Len(chain) /\ Certified \subseteq DOMAIN chain
      /\ \A i \in DOMAIN chain : chain[i] \in Block(signed)
  BY Blocks DEF Inv, ChainInv
<1>d. workflow # NoWorkflow => Stored \in signed
  BY DEF Inv, StoreInv, Stored
<1>e. NoWorkflow.state = "NONE" /\ (Living => workflow # NoWorkflow)
  BY DEF NoWorkflow, Living
<1>f. ASSUME tick' = [tick EXCEPT ![w] = Idle] PROVE Good
  BY <1>f, TickIdle
<1>g. ASSUME NEW k \in ContextType, Draft(w, k) PROVE Good
  <2>1. CASE tick' = [tick EXCEPT ![w] = Idle]
    BY <1>f, <2>1
  <2>2. CASE \E c \in Drafts : tick' = [tick EXCEPT ![w] =
                                  [Idle EXCEPT !.at = "signingContext", !.certificate = c]]
    BY <2>2, TickDraft
  <2> QED BY <1>g, <2>1, <2>2, DraftTick
<1>h. \A at : GoOn(w, at)
         => tick' = [tick EXCEPT ![w] = [tick[w] EXCEPT !.at = at, !.answer = None]]
  BY TickMoves DEF Inv
<1>i. \A value : Answer(w, value) => tick' = [tick EXCEPT ![w] = [tick[w] EXCEPT !.answer = value]]
  BY TickMoves DEF Inv
<1>j. IsTick(tick[w])
  BY <1>a DEF TickOk
<1>l. owner = w => OwnerOk(tick[w], workflow, chain, finalized)
  BY DEF Inv, OwnerInv
<1>m. owner' = w => Claim(w) \/ owner = w
  BY RunsOwner, WorkerAssumption
\* An answer leaves the rest of the tick.
<1>k. ASSUME NEW x, NEW t, t = [tick[w] EXCEPT !.answer = x]
      PROVE  /\ IsTick(t) /\ t.at = tick[w].at /\ t.answer = x
             /\ t.certificate = tick[w].certificate /\ t.context = tick[w].context
             /\ t.receipt = tick[w].receipt /\ t.final = tick[w].final
  <2>1. t = Tick(tick[w].at, x, tick[w].certificate, tick[w].context, tick[w].receipt, tick[w].final)
    BY <1>j, <1>k, TickWithAnswer
  <2> QED BY <2>1, TickParts
<1>1. CASE Claim(w)
  <2>1. tick' = [tick EXCEPT ![w] = [Idle EXCEPT !.at = "context"]]
    BY <1>1, <1>a DEF Claim
  <2> QED BY <2>1, TickIdle
<1>2. CASE \/ Crash(w) \/ CallFails(w) \/ WalletRefuses(w) \/ LoseLease(w) \/ Revoke(w)
           \/ NoReceipt(w) \/ NotCanonical(w) \/ NotDecided(w) \/ StoreSubmitted(w)
  <2>1. tick' = [tick EXCEPT ![w] = Idle]
    BY <1>2 DEF Crash, CallFails, WalletRefuses, LoseLease, Revoke, NoReceipt, NotCanonical,
                NotDecided, StoreSubmitted, End
  <2> QED BY <1>f, <2>1
<1>3. CASE ReadContext(w)
  <2>1. Answer(w, Context) /\ tick[w].at = "context"
    BY <1>3 DEF ReadContext, Waits
  <2>2. Context \in ContextType
    BY ContextTyped DEF Inv
  <2> DEFINE k == Context
             t == [tick[w] EXCEPT !.answer = k]
  <2>3. tick' = [tick EXCEPT ![w] = t] /\ signed' = signed
    BY <1>3, <1>b, <1>i, <2>1 DEF ReadContext, Keep, walletVars
  <2> HIDE DEF k
  <2>4. TickOk(t, chain, finalized, signed)
    <3>1. /\ IsTick(t) /\ t.at = tick[w].at /\ t.answer = k
         /\ t.certificate = tick[w].certificate /\ t.context = tick[w].context
         /\ t.receipt = tick[w].receipt /\ t.final = tick[w].final
      BY <1>k
    <3> HIDE DEF t
    <3> QED BY <1>a, <2>1, <2>2, <3>1 DEF TickOk, Outcome, Received, Signing, Sending, k
  <2>5. OwnerOk(t, workflow', chain, finalized)
    <3>1. t.at = "context"
      BY <1>k, <2>1
    <3> HIDE DEF t
    <3> QED BY <3>1 DEF OwnerOk, Outcome, Received, Sending
  <2> QED BY <2>3, <2>4, <2>5
<1>4. CASE ReadReceipt(w)
  <2> DEFINE rs == {[height |-> i, hash |-> HashAt(i), success |-> chain[i].success] :
                       i \in {j \in Certified : chain[j].certificate = tick[w].certificate}}
             t == [tick[w] EXCEPT !.answer = rs]
  <2>1. Answer(w, rs) /\ tick[w].at = "receipt" /\ signed' = signed
    BY <1>4 DEF ReadReceipt, Waits, Keep, walletVars
  <2>2. ASSUME NEW r \in rs PROVE OfReceipt(r, tick[w].certificate)
    <3>1. PICK i \in Certified : /\ chain[i].certificate = tick[w].certificate
                                 /\ r = [height |-> i, hash |-> HashAt(i), success |-> chain[i].success]
      OBVIOUS
    <3>2. i \in 1 .. Len(chain) /\ i \in 0 .. Len(chain) /\ chain[i] \in Block(signed)
      BY <1>c
    <3>3. HashAt(i)[i] = chain[i]
      BY <1>c, <3>2, FirstBlocks DEF HashAt
    <3>4. chain[i] = [certificate |-> tick[w].certificate, success |-> chain[i].success]
      BY <3>1, <3>2 DEF Block
    <3> QED BY <3>1, <3>2, <3>3, <3>4 DEF OfReceipt
  <2>a. ASSUME owner' = w PROVE OwnerOk(t, workflow', chain, finalized)
    <3>1. owner = w /\ workflow' = workflow /\ OwnerOk(tick[w], workflow, chain, finalized)
      BY <1>4, <1>l, <2>a DEF ReadReceipt, storeVars
    <3>2. tick[w].certificate = Stored
      BY <2>1, <3>1 DEF OwnerOk, Outcome, Stored
    <3>3. ASSUME workflow.state = "ACTIVE"
          PROVE  rs # {} /\ \A r \in rs : Final(r, chain, finalized)
      <4>1. PICK i \in 1 .. finalized : chain[i] = [certificate |-> Stored, success |-> TRUE]
        BY <3>3 DEF Inv, OutcomeInv
      <4>2. i \in Certified /\ chain[i].certificate = Stored /\ Stored # None
        <5>1. Stored \in signed /\ i \in DOMAIN chain
          BY <1>c, <1>d, <1>e, <3>3, <4>1
        <5>2. Stored # None
          BY <5>1, CertificateIsSomething DEF Inv, WalletInv
        <5> QED BY <4>1, <5>1, <5>2 DEF Certified
      <4>3. \A j \in Certified : chain[j].certificate = Stored => j = i
        BY <4>2 DEF Inv, ChainInv
      <4>4. rs = {[height |-> i, hash |-> HashAt(i), success |-> chain[i].success]}
        BY <3>2, <4>2, <4>3
      <4>5. Final([height |-> i, hash |-> HashAt(i), success |-> chain[i].success], chain, finalized)
        BY <1>c, <4>1 DEF Final, HashAt
      <4> QED BY <4>4, <4>5
    <3> HIDE DEF rs
    <3>4. t.at = "receipt" /\ t.certificate = Stored /\ t.answer = rs
      BY <1>k, <2>1, <3>2
    <3> HIDE DEF t
    <3>5. workflow.state \in {"SUBMITTED", "ACTIVE"}
      BY <2>1, <3>1 DEF OwnerOk, Outcome
    <3> QED BY <3>1, <3>3, <3>4, <3>5 DEF OwnerOk, Outcome, Received, Sending, Stored
  <2> HIDE DEF rs
  <2>3. tick' = [tick EXCEPT ![w] = t]
    BY <1>i, <2>1
  <2>4. TickOk(t, chain, finalized, signed)
    <3>1. /\ IsTick(t) /\ t.at = tick[w].at /\ t.answer = rs
         /\ t.certificate = tick[w].certificate /\ t.context = tick[w].context
         /\ t.receipt = tick[w].receipt /\ t.final = tick[w].final
      BY <1>k
    <3> HIDE DEF t
    <3> QED BY <1>a, <2>1, <2>2, <3>1 DEF TickOk, Outcome, Received, Signing, Sending
  <2> QED BY <2>1, <2>3, <2>4, <2>a
<1>5. CASE ReadCanonicalHash(w)
  <2> DEFINE h == tick[w].receipt.height
             v == IF h <= Len(chain) THEN <<HashAt(h)>> ELSE <<>>
             t == [tick[w] EXCEPT !.answer = v]
  <2>1. /\ Answer(w, v) /\ tick[w].at \in {"canonicalHash", "canonicalHashAgain"}
        /\ signed' = signed
    BY <1>5 DEF ReadCanonicalHash, Waits, Keep, walletVars
  <2>2. tick' = [tick EXCEPT ![w] = t]
    BY <1>i, <2>1
  <2>3. OfReceipt(tick[w].receipt, tick[w].certificate) /\ h \in Nat \ {0}
    BY <1>a, <2>1 DEF TickOk, Received, OfReceipt
  <2>4. ASSUME v = <<tick[w].receipt.hash>>
        PROVE  chain[h] = [certificate |-> tick[w].certificate, success |-> tick[w].receipt.success]
    <3>1. h <= Len(chain) /\ HashAt(h) = tick[w].receipt.hash
      BY <2>4
    <3>2. HashAt(h)[h] = chain[h]
      BY <1>c, <2>3, <3>1, FirstBlocks DEF HashAt
    <3> QED BY <2>3, <3>1, <3>2 DEF OfReceipt
  <2>a. ASSUME owner' = w PROVE OwnerOk(t, workflow', chain, finalized)
    <3>1. owner = w /\ workflow' = workflow /\ OwnerOk(tick[w], workflow, chain, finalized)
      BY <1>5, <1>l, <2>a DEF ReadCanonicalHash, storeVars
    <3>2. ASSUME Final(tick[w].receipt, chain, finalized) PROVE v = <<tick[w].receipt.hash>>
      <4>1. h <= Len(chain) /\ HashAt(h) = tick[w].receipt.hash
        BY <1>c, <2>3, <3>2 DEF Final, HashAt
      <4> QED BY <4>1
    <3> HIDE DEF v
    <3>3. t.at = tick[w].at /\ t.certificate = tick[w].certificate /\ t.answer = v
          /\ t.receipt = tick[w].receipt
      BY <1>k
    <3> HIDE DEF t
    <3> QED BY <2>1, <3>1, <3>2, <3>3 DEF OwnerOk, Outcome, Received, Sending
  <2> HIDE DEF v
  <2>5. TickOk(t, chain, finalized, signed)
    <3>1. /\ IsTick(t) /\ t.at = tick[w].at /\ t.answer = v
         /\ t.certificate = tick[w].certificate /\ t.context = tick[w].context
         /\ t.receipt = tick[w].receipt /\ t.final = tick[w].final
      BY <1>k
    <3> HIDE DEF t
    <3> QED BY <1>a, <2>1, <2>4, <3>1 DEF TickOk, Outcome, Received, Signing, Sending
  <2> QED BY <2>1, <2>2, <2>5, <2>a
<1>6. CASE Sign(w)
  <2> DEFINE c == [tick[w].certificate EXCEPT !.serial = Cardinality(signed) + 1]
             t == [tick[w] EXCEPT !.answer = c]
  <2>1. Answer(w, c) /\ tick[w].at = "signature" /\ signed' = signed \cup {c}
    BY <1>6 DEF Sign, Waits
  <2>a. ASSUME owner' = w PROVE OwnerOk(t, workflow', chain, finalized)
    <3>1. owner = w /\ workflow' = workflow
      BY <1>6, <2>a DEF Sign, storeVars
    <3>2. c.serial = Cardinality(signed) + 1 /\ Cardinality(signed) \in Nat
      <4>1. tick[w].certificate \in Drafts
        BY <1>a, <2>1 DEF TickOk, Signing
      <4>2. Cardinality(signed) \in Nat
        BY FS_CardinalityType DEF Inv, WalletInv
      <4> QED BY <4>1, <4>2 DEF Drafts
    <3> HIDE DEF c
    <3>3. \A d \in signed : d.serial < c.serial
      <4>1. \A d \in signed : d.serial \in Nat /\ d.serial <= Cardinality(signed)
        BY WorkerAssumption DEF Inv, WalletInv, Certificate
      <4> QED BY <3>2, <4>1
    <3>4. t.at = "signature" /\ t.answer = c
      BY <1>k, <2>1
    <3> HIDE DEF t
    <3> QED BY <1>d, <3>1, <3>3, <3>4 DEF OwnerOk, Outcome, Received, Sending, Stored
  <2> HIDE DEF c
  <2>2. tick' = [tick EXCEPT ![w] = t]
    BY <1>i, <2>1
  <2>3. TickOk(t, chain, finalized, signed')
    <3>1. /\ IsTick(t) /\ t.at = tick[w].at /\ t.answer = c
         /\ t.certificate = tick[w].certificate /\ t.context = tick[w].context
         /\ t.receipt = tick[w].receipt /\ t.final = tick[w].final
      BY <1>k
    <3> HIDE DEF t
    <3> QED BY <1>a, <2>1, <3>1 DEF TickOk, Outcome, Received, Signing, Sending
  <2> QED BY <2>2, <2>3, <2>a
<1>7. CASE Send(w)
  <2>1. CASE Answer(w, "hash")
    <3> DEFINE t == [tick[w] EXCEPT !.answer = "hash"]
    <3>1. tick' = [tick EXCEPT ![w] = t] /\ signed' = signed /\ tick[w].at = "send"
      BY <1>7, <1>i, <2>1 DEF Send, Waits
    <3>2. TickOk(t, chain, finalized, signed)
      <4>1. /\ IsTick(t) /\ t.at = tick[w].at /\ t.answer = "hash"
           /\ t.certificate = tick[w].certificate /\ t.context = tick[w].context
           /\ t.receipt = tick[w].receipt /\ t.final = tick[w].final
        BY <1>k
      <4> HIDE DEF t
      <4> QED BY <1>a, <3>1, <4>1 DEF TickOk, Outcome, Received, Signing, Sending
    <3>3. ASSUME owner' = w PROVE OwnerOk(t, workflow', chain, finalized)
      <4>1. owner = w /\ workflow' = workflow /\ OwnerOk(tick[w], workflow, chain, finalized)
        BY <1>7, <1>l, <1>m, <3>1, <3>3 DEF Send, storeVars, Claim, Idle
      <4>2. t.at = "send" /\ t.certificate = tick[w].certificate
        BY <1>k, <3>1
      <4> HIDE DEF t
      <4> QED BY <3>1, <4>1, <4>2 DEF OwnerOk, Outcome, Received, Sending
    <3> QED BY <3>1, <3>2, <3>3
  <2>2. CASE End(w)
    BY <1>f, <2>2 DEF End
  <2> QED BY <1>7, <2>1, <2>2 DEF Send
<1>8. CASE ExpireWorkflow(w) \/ StartAfresh(w) \/ Supersede(w)
  <2>1. Draft(w, tick[w].answer) /\ Here(w)
    BY <1>8 DEF ExpireWorkflow, StartAfresh, Supersede
  <2>2. tick[w].answer \in ContextType
    BY <1>a, <2>1 DEF Here, Resumes, TickOk
  <2> QED BY <1>g, <2>1, <2>2
<1>9. CASE Decide(w)
  <2>1. CASE End(w)
    BY <1>f, <2>1 DEF End
  <2>2. CASE Draft(w, tick[w].context)
    <3>1. tick[w].context \in ContextType
      BY <1>9, <1>a DEF Decide, Resumes, TickOk, Outcome
    <3> QED BY <1>g, <2>2, <3>1
  <2> QED BY <1>9, <2>1, <2>2 DEF Decide
<1>10. CASE LookForReceipt(w)
  <2> DEFINE t == [tick[w] EXCEPT !.at = "receipt", !.answer = None, !.certificate = Stored,
                                  !.context = tick[w].answer]
  <2>1. tick' = [tick EXCEPT ![w] = t] /\ signed' = signed
    BY <1>10, <1>a DEF LookForReceipt, Keep, walletVars
  <2>2. tick[w].answer \in ContextType /\ Stored \in signed
    BY <1>10, <1>a, <1>d, <1>e DEF LookForReceipt, Here, Resumes, TickOk
  <2>a. t = Tick("receipt", None, Stored, tick[w].answer, tick[w].receipt, tick[w].final)
    BY <1>j, TickLooks
  <2> HIDE DEF t
  <2>3. /\ IsTick(t) /\ t.at = "receipt" /\ t.answer = None
        /\ t.certificate = Stored /\ t.context = tick[w].answer
    BY <2>a, TickParts
  <2>4. TickOk(t, chain, finalized, signed)
    BY <2>2, <2>3 DEF TickOk, Outcome, Received, Signing, Sending, Places
  <2>5. OwnerOk(t, workflow', chain, finalized)
    BY <1>10, <2>3 DEF LookForReceipt, storeVars, Living, Stored, OwnerOk, Outcome, Received, Sending
  <2> QED BY <2>1, <2>4, <2>5
<1>11. CASE Resubmit(w)
  <2>1. Await(w, "submissionContext", Stored) /\ Stored \in signed /\ signed' = signed
    BY <1>11, <1>d, <1>e DEF Resubmit, Keep, walletVars
  <2>2. workflow' = [certificate |-> Stored, state |-> "SIGNED"]
    BY <1>11 DEF Resubmit, storeVars, Stored, Inv, StoreInv, NoWorkflow
  <2>3. tick' = [tick EXCEPT ![w] = [Idle EXCEPT !.at = "submissionContext", !.certificate = Stored]]
    BY <2>1 DEF Await
  <2> QED BY <2>1, <2>2, <2>3, TickSending
<1>12. CASE HaveReceipt(w)
  <2>1. PICK r \in tick[w].answer :
           tick' = [tick EXCEPT ![w].at = "canonicalHash", ![w].answer = None, ![w].receipt = r]
    BY <1>12 DEF HaveReceipt
  <2> DEFINE t == [tick[w] EXCEPT !.at = "canonicalHash", !.answer = None, !.receipt = r]
  <2>2. tick' = [tick EXCEPT ![w] = t] /\ signed' = signed
    BY <1>12, <1>a, <2>1 DEF HaveReceipt, Keep, walletVars
  <2>a. t = Tick("canonicalHash", None, tick[w].certificate, tick[w].context, r, tick[w].final)
    BY <1>j, TickHas
  <2> HIDE DEF t
  <2>3. /\ IsTick(t) /\ t.at = "canonicalHash" /\ t.answer = None /\ t.receipt = r
        /\ t.certificate = tick[w].certificate /\ t.context = tick[w].context
    BY <2>a, TickParts
  <2>4. /\ tick[w].certificate \in signed /\ tick[w].context \in ContextType
        /\ OfReceipt(r, tick[w].certificate)
    BY <1>12, <1>a DEF HaveReceipt, Resumes, TickOk, Outcome
  <2>5. TickOk(t, chain, finalized, signed)
    BY <2>3, <2>4 DEF TickOk, Outcome, Received, Signing, Sending, Places
  <2>6. OwnerOk(t, workflow', chain, finalized)
    <3>1. owner = w /\ workflow' = workflow /\ tick[w].at = "receipt" /\ tick[w].answer # None
      BY <1>12 DEF HaveReceipt, Resumes, Owns, storeVars
    <3> QED BY <1>l, <2>3, <3>1 DEF OwnerOk, Outcome, Received, Sending
  <2> QED BY <2>2, <2>5, <2>6
<1>13. CASE IsCanonical(w)
  <2> DEFINE t == [tick[w] EXCEPT !.at = "finalizedBlock", !.answer = None]
  <2>1. tick' = [tick EXCEPT ![w] = t] /\ signed' = signed /\ tick[w].at = "canonicalHash"
    BY <1>13, <1>h DEF IsCanonical, Resumes, Keep, walletVars
  <2>2. TickOk(t, chain, finalized, signed)
    <3>a. t = Tick("finalizedBlock", None, tick[w].certificate, tick[w].context,
                   tick[w].receipt, tick[w].final)
      BY <1>j, TickGoesOn
    <3> HIDE DEF t
    <3>1. /\ IsTick(t) /\ t.at = "finalizedBlock" /\ t.answer = None
          /\ t.certificate = tick[w].certificate /\ t.context = tick[w].context
          /\ t.receipt = tick[w].receipt
      BY <3>a, TickParts
    <3> QED BY <1>a, <2>1, <3>1 DEF TickOk, Outcome, Received, Signing, Sending, Places
  <2>3. OwnerOk(t, workflow', chain, finalized)
    <3>a. t = Tick("finalizedBlock", None, tick[w].certificate, tick[w].context,
                   tick[w].receipt, tick[w].final)
      BY <1>j, TickGoesOn
    <3> HIDE DEF t
    <3>1. t.at = "finalizedBlock" /\ t.certificate = tick[w].certificate /\ t.receipt = tick[w].receipt
      BY <3>a, TickParts
    <3>2. owner = w /\ workflow' = workflow
      BY <1>13 DEF IsCanonical, Resumes, Owns, storeVars
    <3> QED BY <1>l, <2>1, <3>1, <3>2 DEF OwnerOk, Outcome, Received, Sending
  <2> QED BY <2>1, <2>2, <2>3
<1>14. CASE ReadFinalizedBlock(w)
  <2> DEFINE t == [tick[w] EXCEPT !.at = "canonicalHashAgain", !.final = finalized]
  <2>1. /\ tick' = [tick EXCEPT ![w] = t] /\ signed' = signed
        /\ tick[w].at = "finalizedBlock" /\ tick[w].answer = None
    BY <1>14, <1>a DEF ReadFinalizedBlock, Waits, Keep, walletVars
  <2>2. TickOk(t, chain, finalized, signed)
    <3>a. t = Tick("canonicalHashAgain", tick[w].answer, tick[w].certificate, tick[w].context,
                   tick[w].receipt, finalized)
      BY <1>j, TickReads
    <3> HIDE DEF t
    <3>1. /\ IsTick(t) /\ t.at = "canonicalHashAgain" /\ t.answer = None
          /\ t.certificate = tick[w].certificate /\ t.context = tick[w].context
          /\ t.receipt = tick[w].receipt /\ t.final = finalized
      BY <2>1, <3>a, TickParts
    <3>2. finalized \in 0 .. finalized
      BY <1>c
    <3> QED BY <1>a, <2>1, <3>1, <3>2 DEF TickOk, Outcome, Received, Signing, Sending, Places
  <2>3. OwnerOk(t, workflow', chain, finalized)
    <3>a. t = Tick("canonicalHashAgain", tick[w].answer, tick[w].certificate, tick[w].context,
                   tick[w].receipt, finalized)
      BY <1>j, TickReads
    <3> HIDE DEF t
    <3>1. t.at = "canonicalHashAgain" /\ t.certificate = tick[w].certificate /\ t.receipt = tick[w].receipt
      BY <3>a, TickParts
    <3>2. owner = w /\ workflow' = workflow
      BY <1>14 DEF ReadFinalizedBlock, Owns, storeVars
    <3> QED BY <1>l, <2>1, <3>1, <3>2 DEF OwnerOk, Outcome, Received, Sending
  <2> QED BY <2>1, <2>2, <2>3
<1>15. CASE Confirm(w)
  <2> DEFINE t == [tick[w] EXCEPT !.at = "signature", !.answer = None]
  <2>1. CASE tick' = [tick EXCEPT ![w] = t]
    <3>1. tick[w].at = "signingContext" /\ signed' = signed
      BY <1>15 DEF Confirm, Waits, Keep, walletVars
    <3>2. TickOk(t, chain, finalized, signed)
      <4>a. t = Tick("signature", None, tick[w].certificate, tick[w].context,
                     tick[w].receipt, tick[w].final)
        BY <1>j, TickGoesOn
      <4> HIDE DEF t
      <4>1. IsTick(t) /\ t.at = "signature" /\ t.answer = None /\ t.certificate = tick[w].certificate
        BY <4>a, TickParts
      <4> QED BY <1>a, <3>1, <4>1 DEF TickOk, Outcome, Received, Signing, Sending, Places
    <3>3. OwnerOk(t, workflow', chain, finalized)
      <4>a. t = Tick("signature", None, tick[w].certificate, tick[w].context,
                     tick[w].receipt, tick[w].final)
        BY <1>j, TickGoesOn
      <4> HIDE DEF t
      <4>1. t.at = "signature" /\ t.answer = None
        BY <4>a, TickParts
      <4> QED BY <4>1 DEF OwnerOk, Outcome, Received, Sending
    <3> QED BY <2>1, <3>1, <3>2, <3>3
  <2>2. CASE End(w)
    BY <1>f, <2>2 DEF End
  <2> QED BY <1>15, <1>h, <2>1, <2>2 DEF Confirm
<1>16. CASE StoreSigned(w)
  <2>1. tick[w].answer \in signed /\ signed' = signed
    BY <1>16, <1>a DEF StoreSigned, Resumes, TickOk, walletVars
  <2>2. CASE Record(tick[w].answer, "SIGNED") /\ Await(w, "submissionContext", tick[w].answer)
    <3>1. /\ workflow' = [certificate |-> tick[w].answer, state |-> "SIGNED"]
          /\ tick' = [tick EXCEPT ![w] = [Idle EXCEPT !.at = "submissionContext",
                                                      !.certificate = tick[w].answer]]
      BY <2>2 DEF Record, Await
    <3> QED BY <2>1, <3>1, TickSending
  <2>3. CASE End(w)
    BY <1>f, <2>3 DEF End
  <2> QED BY <1>16, <2>2, <2>3 DEF StoreSigned
<1>17. CASE ConfirmAgain(w)
  <2> DEFINE t == [tick[w] EXCEPT !.at = "send", !.answer = None]
  <2>1. CASE tick' = [tick EXCEPT ![w] = t]
    <3>1. tick[w].at = "submissionContext" /\ signed' = signed
      BY <1>17 DEF ConfirmAgain, Waits, Keep, walletVars
    <3>2. TickOk(t, chain, finalized, signed)
      <4>a. t = Tick("send", None, tick[w].certificate, tick[w].context,
                     tick[w].receipt, tick[w].final)
        BY <1>j, TickGoesOn
      <4> HIDE DEF t
      <4>1. IsTick(t) /\ t.at = "send" /\ t.answer = None /\ t.certificate = tick[w].certificate
        BY <4>a, TickParts
      <4> QED BY <1>a, <3>1, <4>1 DEF TickOk, Outcome, Received, Signing, Sending, Places
    <3>3. OwnerOk(t, workflow', chain, finalized)
      <4>a. t = Tick("send", None, tick[w].certificate, tick[w].context,
                     tick[w].receipt, tick[w].final)
        BY <1>j, TickGoesOn
      <4> HIDE DEF t
      <4>1. t.at = "send" /\ t.certificate = tick[w].certificate
        BY <4>a, TickParts
      <4>2. owner = w /\ workflow' = workflow
        BY <1>17 DEF ConfirmAgain, Owns, storeVars
      <4> QED BY <1>l, <3>1, <4>1, <4>2 DEF OwnerOk, Outcome, Received, Sending
    <3> QED BY <2>1, <3>1, <3>2, <3>3
  <2>2. CASE End(w)
    BY <1>f, <2>2 DEF End
  <2> QED BY <1>17, <1>h, <2>1, <2>2 DEF ConfirmAgain
<1>18. Good
  BY <1>1, <1>2, <1>3, <1>4, <1>5, <1>6, <1>7, <1>8, <1>9, <1>10, <1>11, <1>12, <1>13, <1>14,
     <1>15, <1>16, <1>17 DEF Runs, Answers, Works
<1> QED BY <1>18

LEMMA TickStep ==
    ASSUME Inv, [Next]_vars
    PROVE  TickInv'
<1>1. /\ tick = [v \in Workers |-> tick[v]] /\ finalized \in Nat /\ finalized' \in Nat
      /\ \A v \in Workers : TickOk(tick[v], chain, finalized, signed)
      /\ finalized <= finalized' /\ \A i \in 1 .. finalized : chain'[i] = chain[i]
      /\ signed \subseteq signed'
  <2>1. KeepsFinal /\ signed \subseteq signed'
    BY ChainStep, WalletStep
  <2>2. finalized \in Nat /\ finalized' \in Nat
    BY ChainStep DEF Inv, ChainInv
  <2> QED BY <2>1, <2>2 DEF KeepsFinal, Inv, TickInv
<1>2. \A v \in Workers : TickOk(tick[v], chain', finalized', signed')
  BY <1>1, TickStable
<1>3. CASE tick' = tick
  BY <1>1, <1>2, <1>3 DEF TickInv
<1>4. ASSUME NEW w \in Workers, Runs(w) PROVE TickInv'
  <2>1. PICK t : tick' = [tick EXCEPT ![w] = t] /\ TickOk(t, chain, finalized, signed')
    BY <1>4, RunTick
  <2>2. TickOk(t, chain', finalized', signed')
    BY <1>4, <2>1, RunsKeeps
  <2> QED BY <1>1, <1>2, <2>1, <2>2 DEF TickInv
<1>5. World => tick' = tick
  BY WorldKeeps
<1> QED BY <1>3, <1>4, <1>5 DEF Next, World, Runs, vars
----------------------------------------------------------------------------
(* The database.                                                           *)

\* What a step writes of the workflow and its row: nothing, or as the process that has the
\* job, the certificate and the state below.
Writes(w, c, state) ==
    /\ owner = w
    /\ workflow' = [certificate |-> c, state |-> state]
    /\ \/ rows' = rows
       \/ rows' = [d \in DOMAIN rows \cup {c} |-> IF d = c THEN state ELSE rows[d]]

\* What the code writes, each with what the process knows then.
WritesEnd(w) ==
    /\ workflow # NoWorkflow /\ (ExpireWorkflow(w) \/ Supersede(w) \/ Revoke(w))
    /\ \/ Writes(w, Stored, "EXPIRED")
       \/ Living /\ Writes(w, Stored, "REVOKED")

WritesSubmitted(w) ==
    /\ workflow.state = "SIGNED" \/ workflow.state = "SUBMITTED"
    /\ Stored \in signed /\ Writes(w, Stored, "SUBMITTED")

WritesOutcome(w) ==
    /\ workflow.state \in {"SUBMITTED", "ACTIVE"} /\ Stored \in signed
    /\ \E success \in BOOLEAN :
          /\ workflow.state = "ACTIVE" => success
          /\ \E i \in 1 .. finalized : chain[i] = [certificate |-> Stored, success |-> success]
          /\ Writes(w, Stored, IF success THEN "ACTIVE" ELSE "FAILED")

WritesSigned(w) ==
    /\ tick[w].at = "signature"
    /\ \E c \in signed : /\ workflow # NoWorkflow => Stored.serial < c.serial
                         /\ Writes(w, c, "SIGNED")

LEMMA DecideWrites ==
    ASSUME Inv, NEW w \in Workers, Decide(w)
    PROVE  WritesOutcome(w)
<1>a. TickOk(tick[w], chain, finalized, signed)
  BY DEF Inv, TickInv
<1>b. OwnerOk(tick[w], workflow, chain, finalized)
  BY DEF Inv, OwnerInv, Decide, Resumes, Owns
<1>d. ASSUME workflow.state # "NONE"
      PROVE  Stored \in signed
  BY <1>d DEF Inv, StoreInv, NoWorkflow, Stored
<1>e. ASSUME NEW c, NEW state, Record(c, state), owner = w PROVE Writes(w, c, state)
  BY <1>e DEF Record, Writes
<1> DEFINE r == tick[w].receipt
<1>1. /\ owner = w /\ tick[w].at = "canonicalHashAgain" /\ tick[w].answer # None
      /\ tick[w].answer = <<r.hash>> /\ r.height <= tick[w].final
      /\ Record(tick[w].certificate, IF r.success THEN "ACTIVE" ELSE "FAILED")
  BY DEF Decide, Decided, Canonical, Resumes, Owns
<1>2. /\ workflow.state \in {"SUBMITTED", "ACTIVE"} /\ tick[w].certificate = Stored
      /\ workflow.state = "ACTIVE" => r.success
  BY <1>b, <1>1 DEF OwnerOk, Outcome, Received, Final, Stored
<1>3. /\ chain[r.height] = [certificate |-> Stored, success |-> r.success]
      /\ r.height \in Nat \ {0} /\ tick[w].final \in 0 .. finalized
  BY <1>a, <1>1, <1>2 DEF TickOk, Received, OfReceipt
<1>4. r.height \in 1 .. finalized /\ r.height \in DOMAIN chain
  BY <1>1, <1>3, Blocks DEF Inv, ChainInv
<1>5. r.success \in BOOLEAN
  BY <1>3, <1>4, Blocks DEF Inv, Block
<1>6. Writes(w, Stored, IF r.success THEN "ACTIVE" ELSE "FAILED")
  BY <1>e, <1>1, <1>2
<1> HIDE DEF r
<1>7. Stored \in signed
  BY <1>d, <1>2
<1> QED BY <1>2, <1>3, <1>4, <1>5, <1>6, <1>7 DEF WritesOutcome

LEMMA WriteCases ==
    ASSUME Inv, NEW w \in Workers, Runs(w)
    PROVE  \/ UNCHANGED <<workflow, rows>>
           \/ WritesEnd(w) \/ WritesSubmitted(w) \/ WritesOutcome(w) \/ WritesSigned(w)
<1> USE DEF storeVars
<1>a. TickOk(tick[w], chain, finalized, signed)
  BY DEF Inv, TickInv
<1>b. ASSUME owner = w
      PROVE  OwnerOk(tick[w], workflow, chain, finalized)
  BY <1>b DEF Inv, OwnerInv
<1>c. workflow = NoWorkflow \/ workflow \in [certificate : signed, state : Recorded]
  BY DEF Inv, StoreInv
<1>d. ASSUME workflow.state # "NONE"
      PROVE  workflow # NoWorkflow /\ Stored \in signed
  BY <1>c, <1>d DEF NoWorkflow, Stored
<1>e. ASSUME NEW c, NEW state, Record(c, state), owner = w PROVE Writes(w, c, state)
  BY <1>e DEF Record, Writes
<1>1. CASE ExpireWorkflow(w)
  BY <1>1, <1>e DEF ExpireWorkflow, Here, Resumes, Owns, Expired, WritesEnd
<1>2. CASE Revoke(w)
  BY <1>2, <1>d, <1>e DEF Revoke, Here, Resumes, Owns, Living, WritesEnd
<1>3. CASE Supersede(w)
  <2>1. owner = w /\ workflow.state = "SIGNED" /\ rows' = rows
        /\ workflow' = [workflow EXCEPT !.state = "EXPIRED"]
    BY <1>3 DEF Supersede, Here, Resumes, Owns
  <2>2. workflow # NoWorkflow /\ workflow \in [certificate : signed, state : Recorded]
    BY <1>c, <1>d, <2>1
  <2>3. workflow' = [certificate |-> Stored, state |-> "EXPIRED"]
    BY <2>1, <2>2 DEF Stored
  <2> QED BY <1>3, <2>1, <2>2, <2>3 DEF WritesEnd, Writes
<1>4. CASE NoReceipt(w)
  <2>1. owner = w /\ tick[w].at = "receipt" /\ tick[w].answer = {} /\ tick[w].answer # None
        /\ Record(tick[w].certificate, "SUBMITTED")
    BY <1>4 DEF NoReceipt, Resumes, Owns
  <2>2. workflow.state = "SUBMITTED" /\ tick[w].certificate = Stored
    BY <1>b, <2>1 DEF OwnerOk, Outcome, Stored
  <2> QED BY <1>d, <1>e, <2>1, <2>2 DEF WritesSubmitted
<1>5. CASE NotCanonical(w)
  <2>1. owner = w /\ tick[w].at = "canonicalHash" /\ tick[w].answer # <<tick[w].receipt.hash>>
        /\ tick[w].answer # None /\ Record(tick[w].certificate, "SUBMITTED")
    BY <1>5 DEF NotCanonical, Canonical, Resumes, Owns
  <2>2. workflow.state = "SUBMITTED" /\ tick[w].certificate = Stored
    BY <1>b, <2>1 DEF OwnerOk, Outcome, Received, Stored
  <2> QED BY <1>d, <1>e, <2>1, <2>2 DEF WritesSubmitted
<1>6. CASE StoreSubmitted(w)
  <2>1. owner = w /\ tick[w].at = "send" /\ Record(tick[w].certificate, "SUBMITTED")
    BY <1>6 DEF StoreSubmitted, Resumes, Owns
  <2>2. workflow.state = "SIGNED" /\ tick[w].certificate = Stored
    BY <1>b, <2>1 DEF OwnerOk, Sending, Stored
  <2> QED BY <1>d, <1>e, <2>1, <2>2 DEF WritesSubmitted
<1>7. CASE Decide(w)
  BY <1>7, DecideWrites
<1>8. CASE StoreSigned(w)
  <2> DEFINE c == tick[w].answer
  <2>1. owner = w /\ tick[w].at = "signature" /\ c # None
    BY <1>8 DEF StoreSigned, Resumes, Owns
  <2>2. Writes(w, c, "SIGNED")
    BY <1>8, <1>e, <2>1 DEF StoreSigned, Writes
  <2>3. c \in signed
    BY <1>a, <2>1 DEF TickOk
  <2>4. workflow # NoWorkflow => Stored.serial < c.serial
    BY <1>b, <2>1 DEF OwnerOk, Stored
  <2> HIDE DEF c
  <2> QED BY <2>1, <2>2, <2>3, <2>4 DEF WritesSigned
<1>9. CASE Claim(w) \/ Crash(w) \/ CallFails(w)
  BY <1>9 DEF Claim, Crash, CallFails
<1>10. CASE Answers(w)
  BY <1>10 DEF Answers, ReadContext, ReadReceipt, ReadCanonicalHash, Sign, Send, WalletRefuses
<1>11. CASE \/ LoseLease(w) \/ StartAfresh(w) \/ LookForReceipt(w) \/ Resubmit(w)
            \/ HaveReceipt(w) \/ IsCanonical(w) \/ ReadFinalizedBlock(w) \/ NotDecided(w)
            \/ Confirm(w) \/ ConfirmAgain(w)
  BY <1>11 DEF LoseLease, StartAfresh, LookForReceipt, Resubmit, HaveReceipt, IsCanonical,
               ReadFinalizedBlock, NotDecided, Confirm, ConfirmAgain
<1> QED BY <1>1, <1>2, <1>3, <1>4, <1>5, <1>6, <1>7, <1>8, <1>9, <1>10, <1>11 DEF Runs, Works

LEMMA StoreStep ==
    ASSUME Inv, [Next]_vars
    PROVE  StoreInv'
<1>a. /\ workflow = NoWorkflow \/ workflow \in [certificate : signed, state : Recorded]
      /\ owner \in Workers \cup {None} /\ DOMAIN rows \subseteq signed /\ signed \subseteq signed'
  BY WalletStep DEF Inv, StoreInv
<1>b. CASE UNCHANGED <<workflow, rows>> /\ owner' \in Workers \cup {None}
  BY <1>a, <1>b DEF StoreInv
<1>1. CASE World \/ UNCHANGED vars
  <2>1. UNCHANGED <<workflow, rows, owner>>
    BY <1>1, WorldKeeps DEF vars, storeVars
  <2> QED BY <1>a, <1>b, <2>1
<1>2. ASSUME NEW w \in Workers, Runs(w) PROVE StoreInv'
  <2>1. owner' \in Workers \cup {None}
    BY <1>a, <1>2, RunsOwner
  <2>2. ASSUME NEW c \in signed, NEW state \in Recorded, Writes(w, c, state) PROVE StoreInv'
    <3>1. workflow' \in [certificate : signed', state : Recorded]
      BY <1>a, <2>2 DEF Writes
    <3>2. DOMAIN rows' \subseteq signed'
      BY <1>a, <2>2 DEF Writes
    <3> QED BY <2>1, <3>1, <3>2 DEF StoreInv
  <2>3. workflow # NoWorkflow => Stored \in signed
    BY <1>a DEF Stored
  <2>4. CASE WritesEnd(w)
    BY <2>2, <2>3, <2>4 DEF WritesEnd, Recorded
  <2>5. CASE WritesSubmitted(w)
    BY <2>2, <2>5 DEF WritesSubmitted, Recorded
  <2>6. CASE WritesOutcome(w)
    BY <2>2, <2>6 DEF WritesOutcome, Recorded
  <2>7. CASE WritesSigned(w)
    BY <2>2, <2>7 DEF WritesSigned, Recorded
  <2> QED BY <1>2, <1>b, <2>1, <2>4, <2>5, <2>6, <2>7, WriteCases
<1> QED BY <1>1, <1>2 DEF Next, World, Runs

LEMMA OutcomeStep ==
    ASSUME Inv, [Next]_vars
    PROVE  OutcomeInv'
<1> DEFINE Is(c, success) ==
               \E i \in 1 .. finalized : chain[i] = [certificate |-> c, success |-> success]
           Was(c, success) ==
               \E i \in 1 .. finalized' : chain'[i] = [certificate |-> c, success |-> success]
<1>a. \A c, success : Is(c, success) => Was(c, success)
  <2>1. finalized \in Nat /\ finalized' \in Nat /\ finalized <= finalized'
        /\ \A i \in 1 .. finalized : chain'[i] = chain[i]
    BY ChainStep DEF KeepsFinal, Inv, ChainInv
  <2>2. \A i \in 1 .. finalized : i \in 1 .. finalized'
    BY <2>1
  <2> QED BY <2>1, <2>2
<1>b. /\ \A c \in DOMAIN rows : rows[c] \in {"ACTIVE", "FAILED"} => Is(c, rows[c] = "ACTIVE")
      /\ workflow.state \in {"ACTIVE", "FAILED"} => Is(Stored, workflow.state = "ACTIVE")
  BY DEF Inv, OutcomeInv, RecordedOutcomeIsFinal
<1>c. ASSUME /\ \A c \in DOMAIN rows' :
                   rows'[c] \in {"ACTIVE", "FAILED"} => Was(c, rows'[c] = "ACTIVE")
             /\ workflow'.state \in {"ACTIVE", "FAILED"} => Was(Stored', workflow'.state = "ACTIVE")
      PROVE  OutcomeInv'
  BY <1>c DEF OutcomeInv, RecordedOutcomeIsFinal
<1> HIDE DEF Is, Was
<1>1. CASE UNCHANGED <<workflow, rows>>
  BY <1>1, <1>a, <1>b, <1>c DEF Stored
<1>2. ASSUME NEW w, NEW c, NEW state \in Recorded, Writes(w, c, state),
             state \in {"ACTIVE", "FAILED"} => Is(c, state = "ACTIVE")
      PROVE  OutcomeInv'
  <2>1. workflow'.state = state /\ Stored' = c
    BY <1>2 DEF Writes, Stored
  <2>2. ASSUME NEW d \in DOMAIN rows', rows'[d] \in {"ACTIVE", "FAILED"}
        PROVE  Was(d, rows'[d] = "ACTIVE")
    <3>1. CASE rows' = rows
      BY <1>a, <1>b, <2>2, <3>1
    <3>2. CASE rows' = [e \in DOMAIN rows \cup {c} |-> IF e = c THEN state ELSE rows[e]]
      <4>1. CASE d = c
        <5>1. rows'[d] = state
          BY <2>2, <3>2, <4>1
        <5> QED BY <1>2, <1>a, <2>2, <4>1, <5>1
      <4>2. CASE d # c
        <5>1. d \in DOMAIN rows /\ rows'[d] = rows[d]
          BY <2>2, <3>2, <4>2
        <5> QED BY <1>a, <1>b, <2>2, <5>1
      <4> QED BY <4>1, <4>2
    <3> QED BY <1>2, <3>1, <3>2 DEF Writes
  <2> QED BY <1>2, <1>a, <1>c, <2>1, <2>2
<1>3. CASE World \/ UNCHANGED vars
  BY <1>1, <1>3, WorldKeeps DEF vars, storeVars
<1>4. ASSUME NEW w \in Workers, Runs(w) PROVE OutcomeInv'
  <2>1. CASE WritesEnd(w)
    BY <1>2, <2>1 DEF WritesEnd, Recorded
  <2>2. CASE WritesSubmitted(w)
    BY <1>2, <2>2 DEF WritesSubmitted, Recorded
  <2>3. CASE WritesOutcome(w)
    <3>1. PICK success \in BOOLEAN :
             /\ \E i \in 1 .. finalized : chain[i] = [certificate |-> Stored, success |-> success]
             /\ Writes(w, Stored, IF success THEN "ACTIVE" ELSE "FAILED")
      BY <2>3 DEF WritesOutcome
    <3>2. Is(Stored, success)
      BY <3>1 DEF Is
    <3>3. CASE success = TRUE
      <4>1. Writes(w, Stored, "ACTIVE") /\ Is(Stored, "ACTIVE" = "ACTIVE")
        BY <3>1, <3>2, <3>3
      <4> QED BY <1>2, <4>1 DEF Recorded
    <3>4. CASE success = FALSE
      <4>1. Writes(w, Stored, "FAILED") /\ Is(Stored, "FAILED" = "ACTIVE")
        BY <3>1, <3>2, <3>4
      <4> QED BY <1>2, <4>1 DEF Recorded
    <3> QED BY <3>3, <3>4
  <2>4. CASE WritesSigned(w)
    BY <1>2, <2>4 DEF WritesSigned, Recorded
  <2> QED BY <1>1, <1>4, <2>1, <2>2, <2>3, <2>4, WriteCases
<1> QED BY <1>3, <1>4 DEF Next, World, Runs
----------------------------------------------------------------------------
(* The process that has the job.                                           *)

\* A receipt from the final part of the chain stays one.
LEMMA FinalStays ==
    ASSUME Inv, ChainInv', KeepsFinal,
           NEW r, r.height \in Nat \ {0}, Final(r, chain, finalized)
    PROVE  Final(r, chain', finalized')
<1>1. /\ chain \in Seq(Block(signed)) /\ Len(chain) \in Nat /\ finalized \in 0 .. Len(chain)
      /\ chain' \in Seq(Block(signed)') /\ Len(chain') \in Nat /\ finalized' \in 0 .. Len(chain')
      /\ finalized <= finalized' /\ \A i \in 1 .. finalized : chain[i] = chain'[i]
  BY Blocks DEF Inv, ChainInv, KeepsFinal
<1>2. /\ r.height <= finalized' /\ r.height \in 0 .. Len(chain) /\ r.height <= Len(chain')
      /\ \A i \in 1 .. r.height : chain[i] = chain'[i]
  BY <1>1 DEF Final
<1>3. SubSeq(chain, 1, r.height) = SubSeq(chain', 1, r.height)
  BY <1>1, <1>2, SameHash
<1> QED BY <1>2, <1>3 DEF Final

LEMMA OwnerStable ==
    ASSUME Inv, ChainInv', KeepsFinal, NEW w \in Workers, owner = w,
           tick'[w] = tick[w], workflow' = workflow
    PROVE  OwnerOk(tick'[w], workflow', chain', finalized')
<1> DEFINE t == tick[w]
<1>1. OwnerOk(t, workflow, chain, finalized) /\ TickOk(t, chain, finalized, signed)
  BY DEF Inv, OwnerInv, TickInv
<1> HIDE DEF t
<1>2. ASSUME workflow.state = "ACTIVE", t.at = "receipt", t.answer # None, NEW r \in t.answer
      PROVE  Final(r, chain', finalized')
  <2>1. Final(r, chain, finalized) /\ r.height \in Nat \ {0}
    BY <1>1, <1>2 DEF OwnerOk, TickOk, OfReceipt
  <2> QED BY <2>1, FinalStays
<1>3. ASSUME workflow.state = "ACTIVE", t.at \in Received
      PROVE  Final(t.receipt, chain', finalized')
  <2>1. Final(t.receipt, chain, finalized) /\ t.receipt.height \in Nat \ {0}
    BY <1>1, <1>3 DEF OwnerOk, TickOk, OfReceipt
  <2> QED BY <2>1, FinalStays
<1>4. OwnerOk(t, workflow, chain', finalized')
  BY <1>1, <1>2, <1>3 DEF OwnerOk
<1> QED BY <1>4 DEF t

LEMMA OwnerStep ==
    ASSUME Inv, [Next]_vars
    PROVE  OwnerInv'
<1>a. ChainInv' /\ KeepsFinal
  BY ChainStep
<1>1. CASE World \/ UNCHANGED vars
  <2>1. UNCHANGED <<tick, owner, workflow>>
    BY <1>1, WorldKeeps DEF vars, storeVars
  <2> QED BY <1>a, <2>1, OwnerStable DEF OwnerInv
<1>2. ASSUME NEW w \in Workers, Runs(w) PROVE OwnerInv'
  <2>1. PICK t : /\ tick' = [tick EXCEPT ![w] = t]
                 /\ owner' = w => OwnerOk(t, workflow', chain, finalized)
    BY <1>2, RunTick
  <2>2. UNCHANGED <<chain, finalized>> /\ tick = [v \in Workers |-> tick[v]]
    BY <1>2, RunsKeeps DEF Inv, TickInv
  <2>3. CASE owner' = w
    BY <2>1, <2>2, <2>3 DEF OwnerInv
  <2>4. ASSUME owner' # w, owner' \in Workers PROVE OwnerInv'
    <3>1. owner' = owner /\ owner \in Workers /\ UNCHANGED <<workflow, rows>>
      BY <1>2, <2>4, RunsOwner, WorkerAssumption
    <3>2. tick'[owner] = tick[owner]
      BY <2>1, <2>2, <2>4, <3>1
    <3> QED BY <1>a, <3>1, <3>2, OwnerStable DEF OwnerInv
  <2> QED BY <2>3, <2>4 DEF OwnerInv
<1> QED BY <1>1, <1>2 DEF Next, World, Runs

----------------------------------------------------------------------------
(* Theorems.                                                               *)

LEMMA InvInit == Init => Inv
<1> SUFFICES ASSUME Init PROVE Inv
  OBVIOUS
<1>1. WalletInv
  BY FS_EmptySet DEF Init, WalletInv
<1>2. ChainInv
  <2>1. <<>> \in Seq(Block({})) /\ Len(<<>>) = 0
    OBVIOUS
  <2> QED BY <2>1 DEF Init, ChainInv, Certified
<1>3. StoreInv
  BY DEF Init, StoreInv
<1>4. OutcomeInv
  BY DEF Init, OutcomeInv, RecordedOutcomeIsFinal, NoWorkflow
<1>5. TickInv
  <2>1. TickOk(Idle, chain, finalized, signed)
    BY TickIdle
  <2> QED BY <2>1 DEF Init, TickInv
<1>6. OwnerInv
  BY WorkerAssumption DEF Init, OwnerInv
<1> QED BY <1>1, <1>2, <1>3, <1>4, <1>5, <1>6 DEF Inv

LEMMA InvStep == Inv /\ [Next]_vars => Inv'
  BY ChainStep, WalletStep, StoreStep, OutcomeStep, TickStep, OwnerStep DEF Inv

\* Every reachable state is one the invariant describes: what a process has read is out of
\* date in one direction only.
THEOREM WorkerInvariant == Spec => []Inv
  BY InvInit, InvStep, PTL DEF Spec

\* The types of the chain, the wallet, the database and the ticks.
THEOREM WorkerTypes == Spec => []TypeOK
<1>1. Inv => TypeOK
  <2> SUFFICES ASSUME Inv PROVE TypeOK
    OBVIOUS
  <2>1. /\ chain \in Seq([certificate : signed \cup {None}, success : BOOLEAN])
        /\ finalized \in 0 .. Len(chain)
    BY DEF Inv, ChainInv, Block
  <2>2. sent \subseteq signed /\ expired \subseteq signed /\ signed \subseteq Certificate
    BY DEF Inv, WalletInv
  <2>3. owner \in Workers \cup {None} /\ DOMAIN rows \subseteq signed
    BY DEF Inv, StoreInv
  <2>4. workflow # NoWorkflow => /\ workflow.certificate \in signed
                                 /\ workflow.state \in Recorded
    BY DEF Inv, StoreInv
  <2>5. \A w \in Workers : tick[w].at \in Places
    BY DEF Inv, TickInv, TickOk
  <2> QED BY <2>1, <2>2, <2>3, <2>4, <2>5 DEF TypeOK, Recorded
<1> QED BY <1>1, WorkerInvariant, PTL

\* A certificate recorded as active, or as failed, was accepted, or refused, in a block that
\* can no longer go away, whatever reorganizes and whoever writes late.
THEOREM OutcomesAreFinal == Spec => []RecordedOutcomeIsFinal
<1>1. Inv => RecordedOutcomeIsFinal
  BY DEF Inv, OutcomeInv
<1> QED BY <1>1, WorkerInvariant, PTL

\* The stored workflow goes forward with the same certificate or to a newer one.
THEOREM WorkflowGoesForward == Spec => WorkflowMovesForward
<1> DEFINE Forward == workflow' # workflow /\ workflow # NoWorkflow =>
                          IF Stored' = Stored
                          THEN Rank[workflow'.state] > Rank[workflow.state]
                          ELSE Stored'.serial > Stored.serial
<1>1. ASSUME Inv, [Next]_vars PROVE [Forward]_vars
  <2>1. SUFFICES ASSUME workflow' # workflow, workflow # NoWorkflow
                 PROVE  Forward
    BY DEF vars
  <2>2. PICK w \in Workers : Runs(w)
    BY <1>1, <2>1, WorldKeeps DEF Next, World, Runs, vars, storeVars
  <2>3. workflow \in [certificate : signed, state : Recorded]
    BY <1>1, <2>1 DEF Inv, StoreInv
  <2>4. workflow = [certificate |-> Stored, state |-> workflow.state] /\ workflow.state \in Recorded
    BY <2>3 DEF Stored
  <2>5. ASSUME NEW c, NEW state, Writes(w, c, state)
        PROVE  Stored' = c /\ workflow'.state = state /\ (c = Stored => state # workflow.state)
    BY <2>1, <2>4, <2>5 DEF Writes, Stored
  <2>6. CASE WritesEnd(w)
    <3>1. CASE Writes(w, Stored, "EXPIRED")
      BY <2>4, <2>5, <3>1 DEF Rank, Recorded
    <3>2. CASE Living /\ Writes(w, Stored, "REVOKED")
      BY <2>5, <3>2 DEF Rank, Living
    <3> QED BY <2>6, <3>1, <3>2 DEF WritesEnd
  <2>7. CASE WritesSubmitted(w)
    BY <2>5, <2>7 DEF WritesSubmitted, Rank
  <2>8. CASE WritesOutcome(w)
    <3>1. PICK success \in BOOLEAN : /\ workflow.state = "ACTIVE" => success
                                     /\ Writes(w, Stored, IF success THEN "ACTIVE" ELSE "FAILED")
      BY <2>8 DEF WritesOutcome
    <3>2. Stored' = Stored /\ workflow'.state = (IF success THEN "ACTIVE" ELSE "FAILED")
          /\ workflow'.state # workflow.state
      BY <2>5, <3>1
    <3>3. workflow.state = "SUBMITTED"
      BY <2>8, <3>1, <3>2 DEF WritesOutcome
    <3> QED BY <3>2, <3>3 DEF Rank
  <2>9. CASE WritesSigned(w)
    <3>1. PICK c \in signed : Stored.serial < c.serial /\ Writes(w, c, "SIGNED")
      BY <2>1, <2>9 DEF WritesSigned
    <3>2. Stored' = c
      BY <2>5, <3>1
    <3>3. Stored.serial \in Nat /\ c.serial \in Nat /\ Stored \in signed
      BY <1>1, <2>3, <3>1, WorkerAssumption DEF Inv, WalletInv, Certificate, Stored
    <3> QED BY <3>1, <3>2, <3>3
  <2> QED BY <1>1, <2>1, <2>2, <2>6, <2>7, <2>8, <2>9, WriteCases
<1>2. Spec => [][Forward]_vars
  BY <1>1, WorkerInvariant, PTL DEF Spec
<1> QED BY <1>2 DEF WorkflowMovesForward
----------------------------------------------------------------------------
(* No rivals.                                                              *)

\* Certificates that the chain will not accept, or not again.
Dead == {c \in signed : Included(c) \/ ~Acceptable(c)}

IsStored(c) == workflow # NoWorkflow /\ c = Stored

\* What can have been read of the chain, which has not gone back since.
Past ==
    {k \in ContextType :
        /\ k.nextNonce <= Context.nextNonce /\ k.authority <= Context.authority
        /\ k.authority = Context.authority => k.authorized = Context.authorized}

KnowsContext(w) == tick[w].at = "context" /\ tick[w].answer # None

\* What is signed is not ahead of the chain, a certificate that is neither dead nor the
\* stored one is not sent nor about to be, and the stored one is dead when it has ended.
RivalSafe ==
    /\ \A c \in signed : c.nonce <= Context.nextNonce /\ c.authority <= Context.authority
    /\ \A c \in sent : c \in Dead \/ IsStored(c)
    /\ workflow.state \in {"REVOKED", "EXPIRED", "FAILED"} => Stored \in Dead

\* What a tick knows of it: a new certificate is drafted when the stored one is dead.
RivalTick(w) ==
    /\ tick[w].at \in Sending => tick[w].certificate \in Dead \/ IsStored(tick[w].certificate)
    /\ KnowsContext(w) => tick[w].answer \in Past
    /\ KnowsContext(w) /\ owner = w /\ workflow # NoWorkflow =>
          /\ Stored.nonce <= tick[w].answer.nextNonce
          /\ Stored.authority <= tick[w].answer.authority
    /\ tick[w].at \in Signing /\ owner = w /\ workflow # NoWorkflow => Stored \in Dead

RivalInv ==
    /\ reorgs \in Nat
    /\ reorgs = 0 => RivalSafe /\ \A w \in Workers : RivalTick(w)

\* Where a tick is after each way it goes on.
LEMMA TickNow ==
    ASSUME TickInv, NEW w \in Workers
    PROVE  /\ End(w) => tick'[w] = Idle
           /\ \A at, c : Await(w, at, c) => /\ tick'[w].at = at /\ tick'[w].answer = None
                                            /\ tick'[w].certificate = c
           /\ \A at : GoOn(w, at) => /\ tick'[w].at = at /\ tick'[w].answer = None
                                     /\ tick'[w].certificate = tick[w].certificate
           /\ \A value : Answer(w, value) => /\ tick'[w].at = tick[w].at /\ tick'[w].answer = value
                                             /\ tick'[w].certificate = tick[w].certificate
<1>1. tick = [v \in Workers |-> tick[v]] /\ IsTick(tick[w]) /\ IsTick(Idle) /\ Idle.answer = None
  BY DEF TickInv, TickOk, IsTick, Tick, Idle
<1>2. End(w) => tick'[w] = Idle
  BY <1>1 DEF End
<1>3. ASSUME NEW at, NEW c, Await(w, at, c)
      PROVE  tick'[w].at = at /\ tick'[w].answer = None /\ tick'[w].certificate = c
  <2>1. tick'[w] = [Idle EXCEPT !.at = at, !.certificate = c]
    BY <1>1, <1>3 DEF Await
  <2>2. tick'[w] = Tick(at, Idle.answer, c, Idle.context, Idle.receipt, Idle.final)
    BY <1>1, <2>1, TickStarts
  <2> QED BY <1>1, <2>2, TickParts
<1>4. ASSUME NEW at, GoOn(w, at)
      PROVE  /\ tick'[w].at = at /\ tick'[w].answer = None
             /\ tick'[w].certificate = tick[w].certificate
  <2>1. tick'[w] = [tick[w] EXCEPT !.at = at, !.answer = None]
    BY <1>1, <1>4 DEF GoOn
  <2>2. tick'[w] = Tick(at, None, tick[w].certificate, tick[w].context, tick[w].receipt, tick[w].final)
    BY <1>1, <2>1, TickGoesOn
  <2> QED BY <2>2, TickParts
<1>5. ASSUME NEW value, Answer(w, value)
      PROVE  /\ tick'[w].at = tick[w].at /\ tick'[w].answer = value
             /\ tick'[w].certificate = tick[w].certificate
  <2>1. tick'[w] = [tick[w] EXCEPT !.answer = value]
    BY <1>1, <1>5 DEF Answer
  <2>2. tick'[w] = Tick(tick[w].at, value, tick[w].certificate, tick[w].context, tick[w].receipt,
                        tick[w].final)
    BY <1>1, <2>1, TickWithAnswer
  <2> QED BY <2>2, TickParts
<1> QED BY <1>2, <1>3, <1>4, <1>5

\* Where a tick that knows the context, signs or sends comes from.
ToNothing(w) == tick'[w].at \notin Sending \cup Signing \cup {"context"}

ToContext(w) ==
    /\ tick'[w].at = "context"
    /\ \/ tick'[w].answer = None
       \/ tick'[w].answer = Context /\ owner' = owner

ToDraft(w) ==
    /\ tick'[w].at = "signingContext"
    /\ ExpireWorkflow(w) \/ StartAfresh(w) \/ Supersede(w) \/ Decide(w)

Signs(w) ==
    tick'[w].at \in Signing /\ tick[w].at \in Signing /\ workflow' = workflow

ToSend(w) == tick'[w].at \in Sending /\ workflow' # NoWorkflow /\ tick'[w].certificate = Stored'

Sends(w) ==
    /\ tick'[w].at \in Sending /\ tick[w].at \in Sending
    /\ tick'[w].certificate = tick[w].certificate

LEMMA Moves ==
    ASSUME Inv, NEW w \in Workers, Runs(w)
    PROVE  ToNothing(w) \/ ToContext(w) \/ ToDraft(w) \/ Signs(w) \/ ToSend(w) \/ Sends(w)
<1> DEFINE Good == ToNothing(w) \/ ToContext(w) \/ ToDraft(w) \/ Signs(w) \/ ToSend(w) \/ Sends(w)
<1>a. tick = [v \in Workers |-> tick[v]] /\ IsTick(tick[w]) /\ TickInv
  BY DEF Inv, TickInv, TickOk
<1>b. ASSUME End(w) PROVE ToNothing(w)
  BY <1>a, <1>b, TickNow DEF ToNothing, Sending, Signing, Idle
<1>c. ASSUME NEW k, Draft(w, k), ExpireWorkflow(w) \/ StartAfresh(w) \/ Supersede(w) \/ Decide(w)
      PROVE  Good
  <2>1. CASE k.authorized
    <3>1. tick'[w].at = "signingContext"
      BY <1>a, <1>c, <2>1, TickNow DEF Draft
    <3> QED BY <1>c, <3>1 DEF ToDraft
  <2>2. CASE ~k.authorized
    BY <1>b, <1>c, <2>2 DEF Draft
  <2> QED BY <2>1, <2>2
<1>1. CASE Claim(w)
  <2>1. tick'[w] = [Idle EXCEPT !.at = "context"]
    BY <1>1, <1>a DEF Claim
  <2> QED BY <2>1 DEF ToContext, Idle
<1>2. CASE \/ CallFails(w) \/ WalletRefuses(w) \/ LoseLease(w) \/ Revoke(w)
           \/ NoReceipt(w) \/ NotCanonical(w) \/ NotDecided(w) \/ StoreSubmitted(w)
  <2>1. End(w)
    BY <1>2 DEF CallFails, WalletRefuses, LoseLease, Revoke, NoReceipt, NotCanonical,
                NotDecided, StoreSubmitted
  <2> QED BY <1>b, <2>1
<1>3. CASE Crash(w)
  <2>1. tick'[w] = Idle
    BY <1>3, <1>a DEF Crash
  <2> QED BY <2>1 DEF ToNothing, Sending, Signing, Idle
<1>4. CASE ReadContext(w)
  <2>1. tick'[w].at = "context" /\ tick'[w].answer = Context /\ owner' = owner
    BY <1>4, <1>a, TickNow DEF ReadContext, Waits
  <2> QED BY <2>1 DEF ToContext
<1>5. CASE ReadReceipt(w) \/ ReadCanonicalHash(w)
  <2>1. \E value : Answer(w, value)
    BY <1>5 DEF ReadReceipt, ReadCanonicalHash
  <2>2. tick'[w].at = tick[w].at
    BY <1>a, <2>1, TickNow
  <2> QED BY <1>5, <2>2 DEF ReadReceipt, ReadCanonicalHash, Waits, ToNothing, Sending, Signing
<1>6. CASE Sign(w)
  <2>1. \E value : Answer(w, value)
    BY <1>6 DEF Sign
  <2>2. tick'[w].at = tick[w].at /\ tick[w].at = "signature"
    BY <1>6, <1>a, <2>1, TickNow DEF Sign, Waits
  <2> QED BY <1>6, <2>2 DEF Signs, Signing, Sign, storeVars
<1>7. CASE Send(w)
  <2>1. CASE Answer(w, "hash")
    <3>1. tick'[w].at = "send" /\ tick[w].at = "send" /\ tick'[w].certificate = tick[w].certificate
      BY <1>7, <1>a, <2>1, TickNow DEF Send, Waits
    <3> QED BY <3>1 DEF Sends, Sending
  <2> QED BY <1>7, <1>b, <2>1 DEF Send
<1>8. CASE ExpireWorkflow(w) \/ StartAfresh(w) \/ Supersede(w)
  BY <1>8, <1>c DEF ExpireWorkflow, StartAfresh, Supersede
<1>9. CASE Decide(w)
  BY <1>9, <1>b, <1>c DEF Decide
<1>10. CASE LookForReceipt(w) \/ HaveReceipt(w) \/ ReadFinalizedBlock(w)
  <2>1. tick'[w].at \in {"receipt", "canonicalHash", "canonicalHashAgain"}
    <3>1. CASE LookForReceipt(w)
      <4>1. tick'[w] = [tick[w] EXCEPT !.at = "receipt", !.answer = None, !.certificate = Stored,
                                       !.context = tick[w].answer]
        BY <1>a, <3>1 DEF LookForReceipt
      <4>2. tick'[w] = Tick("receipt", None, Stored, tick[w].answer, tick[w].receipt, tick[w].final)
        BY <1>a, <4>1, TickLooks
      <4> QED BY <4>2, TickParts
    <3>2. CASE HaveReceipt(w)
      <4>1. PICK r : tick'[w] = [tick[w] EXCEPT !.at = "canonicalHash", !.answer = None, !.receipt = r]
        BY <1>a, <3>2 DEF HaveReceipt
      <4>2. tick'[w] = Tick("canonicalHash", None, tick[w].certificate, tick[w].context, r, tick[w].final)
        BY <1>a, <4>1, TickHas
      <4> QED BY <4>2, TickParts
    <3>3. CASE ReadFinalizedBlock(w)
      <4>1. tick'[w] = [tick[w] EXCEPT !.at = "canonicalHashAgain", !.final = finalized]
        BY <1>a, <3>3 DEF ReadFinalizedBlock
      <4>2. tick'[w] = Tick("canonicalHashAgain", tick[w].answer, tick[w].certificate,
                            tick[w].context, tick[w].receipt, finalized)
        BY <1>a, <4>1, TickReads
      <4> QED BY <4>2, TickParts
    <3> QED BY <1>10, <3>1, <3>2, <3>3
  <2> QED BY <2>1 DEF ToNothing, Sending, Signing
<1>11. CASE IsCanonical(w)
  <2>1. tick'[w].at = "finalizedBlock"
    BY <1>11, <1>a, TickNow DEF IsCanonical
  <2> QED BY <2>1 DEF ToNothing, Sending, Signing
<1>12. CASE Resubmit(w)
  <2>1. tick'[w].at = "submissionContext" /\ tick'[w].certificate = Stored
    BY <1>12, <1>a, TickNow DEF Resubmit
  <2>2. workflow' = workflow /\ workflow # NoWorkflow
    BY <1>12 DEF Resubmit, storeVars, NoWorkflow
  <2> QED BY <2>1, <2>2 DEF ToSend, Sending, Stored
<1>13. CASE Confirm(w)
  <2>1. CASE GoOn(w, "signature")
    <3>1. tick'[w].at = "signature" /\ tick[w].at = "signingContext"
      BY <1>13, <1>a, <2>1, TickNow DEF Confirm, Waits
    <3> QED BY <1>13, <3>1 DEF Signs, Signing, Confirm, storeVars
  <2> QED BY <1>13, <1>b, <2>1 DEF Confirm
<1>14. CASE StoreSigned(w)
  <2>1. CASE Record(tick[w].answer, "SIGNED") /\ Await(w, "submissionContext", tick[w].answer)
    <3>1. tick'[w].at = "submissionContext" /\ tick'[w].certificate = tick[w].answer
      BY <1>a, <2>1, TickNow
    <3>2. workflow'.certificate = tick[w].answer /\ workflow' # NoWorkflow
      BY <2>1 DEF Record, NoWorkflow
    <3> QED BY <3>1, <3>2 DEF ToSend, Sending, Stored
  <2> QED BY <1>14, <1>b, <2>1 DEF StoreSigned
<1>15. CASE ConfirmAgain(w)
  <2>1. CASE GoOn(w, "send")
    <3>1. tick'[w].at = "send" /\ tick[w].at = "submissionContext"
          /\ tick'[w].certificate = tick[w].certificate
      BY <1>15, <1>a, <2>1, TickNow DEF ConfirmAgain, Waits
    <3> QED BY <3>1 DEF Sends, Sending
  <2> QED BY <1>15, <1>b, <2>1 DEF ConfirmAgain
<1> QED BY <1>1, <1>2, <1>3, <1>4, <1>5, <1>6, <1>7, <1>8, <1>9, <1>10, <1>11, <1>12, <1>13, <1>14,
           <1>15 DEF Runs, Answers, Works
LEMMA ContextTypedNext == ChainInv' => Context' \in ContextType
<1>1. ChainInv' => (Context \in ContextType)'
  BY ContextTyped, PTL
<1> QED BY <1>1 DEF ContextType

\* Appending a block moves the context forward.
LEMMA ContextGrows ==
    ASSUME Inv, NEW b \in Block(signed), chain' = Append(chain, b)
    PROVE  /\ Context.nextNonce <= Context'.nextNonce
           /\ Context.authority <= Context'.authority
           /\ Context'.authority = Context.authority => Context'.authorized = Context.authorized
           /\ \A c : Included(c) => \E i \in Certified' : chain'[i].certificate = c
<1> DEFINE n == Len(chain) + 1
           Accepted == {i \in Certified : chain[i].success}
<1>1. /\ \A i \in DOMAIN chain : chain'[i] = chain[i]
      /\ chain'[n] = b /\ DOMAIN chain' = DOMAIN chain \cup {n} /\ n \notin DOMAIN chain
      /\ DOMAIN chain = 1 .. Len(chain) /\ Len(chain) \in Nat
  BY AppendBlock, Blocks DEF Inv
<1>2. IsFiniteSet(DOMAIN chain) /\ IsFiniteSet(DOMAIN chain')
  <2>1. IsFiniteSet(DOMAIN chain)
    BY <1>1, FS_Interval
  <2>2. IsFiniteSet(DOMAIN chain \cup {n})
    BY <2>1, FS_AddElement
  <2> QED BY <1>1, <2>1, <2>2
<1> HIDE DEF n
<1>3. Certified \subseteq Certified' /\ Governed \subseteq Governed'
  BY <1>1 DEF Certified, Governed
<1>4. Accepted \subseteq Accepted'
  BY <1>1, <1>3 DEF Certified
<1>5. /\ IsFiniteSet(Governed') /\ IsFiniteSet(Accepted')
  BY <1>2, FS_Subset DEF Governed, Certified
<1>6. /\ Cardinality(Governed) <= Cardinality(Governed')
      /\ Cardinality(Accepted) <= Cardinality(Accepted')
      /\ IsFiniteSet(Governed) /\ IsFiniteSet(Accepted)
  BY <1>3, <1>4, <1>5, FS_Subset
<1>7. /\ Cardinality(Governed) \in Nat /\ Cardinality(Governed') \in Nat
      /\ Cardinality(Accepted) \in Nat /\ Cardinality(Accepted') \in Nat
  BY <1>5, <1>6, FS_CardinalityType
<1>8. ASSUME Cardinality(Governed') = Cardinality(Governed) PROVE Governed' = Governed
  BY <1>3, <1>5, <1>8, FS_Subset
<1>9. ASSUME Governed' = Governed
      PROVE  (\A i \in Governed' : (\A j \in Governed' : j <= i) => chain'[i].success)
               = (\A i \in Governed : (\A j \in Governed : j <= i) => chain[i].success)
  <2>1. \A i \in Governed : chain'[i] = chain[i]
    BY <1>1 DEF Governed
  <2> QED BY <1>9, <2>1
<1>10. \A c : Included(c) => \E i \in Certified' : chain'[i].certificate = c
  BY <1>1, <1>3 DEF Included, Certified
<1>11. /\ Context.authority = Cardinality(Governed) /\ Context'.authority = Cardinality(Governed')
       /\ Context.nextNonce = Cardinality(Accepted) + 1
       /\ Context'.nextNonce = Cardinality(Accepted') + 1
  BY DEF Context
<1>12. ASSUME Governed' = Governed PROVE Context'.authorized = Context.authorized
  BY <1>9, <1>12 DEF Context
<1> HIDE DEF Accepted
<1>13. /\ Context.nextNonce <= Context'.nextNonce /\ Context.authority <= Context'.authority
       /\ Context'.authority = Context.authority => Governed' = Governed
  BY <1>6, <1>7, <1>8, <1>11
<1> QED BY <1>10, <1>12, <1>13

\* As long as the chain is not reorganized, what is dead stays so, and what was read too is
\* of the past.
LEMMA NothingRevives ==
    ASSUME Inv, RivalInv, [Next]_vars, reorgs' = 0
    PROVE  /\ reorgs = 0 /\ Dead \subseteq Dead' /\ Past \subseteq Past'
           /\ Context.nextNonce <= Context'.nextNonce /\ Context.authority <= Context'.authority
<1> DEFINE Grown ==
               /\ Context.nextNonce <= Context'.nextNonce
               /\ Context.authority <= Context'.authority
               /\ Context'.authority = Context.authority => Context'.authorized = Context.authorized
               /\ \A c : Included(c) => \E i \in Certified' : chain'[i].certificate = c
<1>1. Context \in ContextType /\ Context' \in ContextType
  BY ContextTyped, ContextTypedNext, ChainStep DEF Inv
<1>2. signed \subseteq signed'
  BY WalletStep
<1>3. ASSUME chain' = chain PROVE Grown
  <2>1. Context' = Context
    BY <1>3 DEF Context, Governed, Certified
  <2>2. \A c : Included(c) => \E i \in Certified' : chain'[i].certificate = c
    BY <1>3 DEF Included, Certified
  <2> QED BY <1>1, <2>1, <2>2 DEF ContextType
<1>4. reorgs = 0 /\ Grown /\ expired \subseteq expired'
  <2>1. ASSUME NEW c \in sent, Include(c) PROVE reorgs = 0 /\ Grown /\ expired \subseteq expired'
    <3> DEFINE b == [certificate |-> c, success |-> Acceptable(c)]
    <3>1. b \in Block(signed)
      BY DEF Block, Inv, WalletInv, Acceptable, InContext
    <3>2. chain' = Append(chain, b)
      BY <2>1 DEF Include
    <3> HIDE DEF b
    <3> QED BY <2>1, <3>1, <3>2, ContextGrows DEF Include, walletVars
  <2>2. ASSUME GovernanceActs PROVE reorgs = 0 /\ Grown /\ expired \subseteq expired'
    <3>1. PICK authorized \in BOOLEAN :
             chain' = Append(chain, [certificate |-> None, success |-> authorized])
      BY <2>2 DEF GovernanceActs
    <3>2. [certificate |-> None, success |-> authorized] \in Block(signed)
      BY DEF Block
    <3>3. Grown
      BY <3>1, <3>2, ContextGrows
    <3> QED BY <2>2, <3>3 DEF GovernanceActs, walletVars
  <2>3. ASSUME Finalize \/ Expire \/ UNCHANGED vars
        PROVE  reorgs = 0 /\ Grown /\ expired \subseteq expired'
    <3>1. chain' = chain /\ reorgs' = reorgs /\ expired \subseteq expired'
      BY <2>3 DEF Finalize, Expire, vars, chainVars, walletVars
    <3> QED BY <1>3, <3>1
  <2>4. ASSUME Reorganize PROVE FALSE
    BY <2>4 DEF Reorganize, RivalInv
  <2>5. ASSUME NEW w \in Workers, Runs(w)
        PROVE  reorgs = 0 /\ Grown /\ expired \subseteq expired'
    BY <1>3, <2>5, RunsKeeps
  <2> QED BY <2>1, <2>2, <2>3, <2>4, <2>5 DEF Next, ChainNext, Runs
<1>5. \A c \in signed : /\ c.nonce \in Nat /\ c.authority \in Nat
                        /\ c.nonce <= Context.nextNonce /\ c.authority <= Context.authority
  BY <1>4 DEF RivalInv, RivalSafe, Inv, WalletInv, Certificate
<1>6. ASSUME NEW c \in Dead PROVE c \in Dead'
  <2>1. c \in signed /\ c \in signed'
    BY <1>2 DEF Dead
  <2>2. CASE Included(c)
    <3>1. Included(c)'
      BY <1>4, <2>2 DEF Included
    <3> QED BY <2>1, <3>1 DEF Dead
  <2>3. CASE ~Acceptable(c)
    <3> DEFINE k == Context
               l == Context'
    <3>1. ~(k.authorized /\ c.authority = k.authority /\ c.nonce = k.nextNonce /\ c \notin expired)
      BY <2>3 DEF Acceptable, InContext
    <3>2. ~(l.authorized /\ c.authority = l.authority /\ c.nonce = l.nextNonce /\ c \notin expired')
      <4>1. k \in ContextType /\ l \in ContextType /\ Grown /\ expired \subseteq expired'
        BY <1>1, <1>4
      <4>2. /\ k.nextNonce <= l.nextNonce /\ k.authority <= l.authority
            /\ l.authority = k.authority => l.authorized = k.authorized
            /\ c.nonce \in Nat /\ c.authority \in Nat
            /\ c.nonce <= k.nextNonce /\ c.authority <= k.authority
        BY <1>5, <2>1, <4>1
      <4> HIDE DEF k, l
      <4> QED BY <3>1, <4>1, <4>2 DEF ContextType
    <3>3. ~(Acceptable(c)')
      BY <3>2 DEF Acceptable, InContext
    <3> QED BY <2>1, <3>3 DEF Dead
  <2> QED BY <2>2, <2>3 DEF Dead
<1>7. ASSUME NEW k \in Past PROVE k \in Past'
  <2> DEFINE m == Context
             l == Context'
  <2>1. /\ k \in ContextType /\ m \in ContextType /\ l \in ContextType
        /\ k.nextNonce <= m.nextNonce /\ k.authority <= m.authority
        /\ k.authority = m.authority => k.authorized = m.authorized
        /\ m.nextNonce <= l.nextNonce /\ m.authority <= l.authority
        /\ l.authority = m.authority => l.authorized = m.authorized
    BY <1>1, <1>4 DEF Past
  <2> HIDE DEF m, l
  <2>2. /\ k.nextNonce <= l.nextNonce /\ k.authority <= l.authority
        /\ k.authority = l.authority => k.authorized = l.authorized
    BY <2>1 DEF ContextType
  <2> QED BY <2>1, <2>2 DEF Past, l
<1> QED BY <1>4, <1>6, <1>7
\* A certificate with an outcome is in the chain.
LEMMA OutcomeDead ==
    ASSUME Inv, NEW w \in Workers, WritesOutcome(w)
    PROVE  Stored \in Dead
<1>1. PICK success \in BOOLEAN : \E i \in 1 .. finalized :
                                    chain[i] = [certificate |-> Stored, success |-> success]
  BY DEF WritesOutcome
<1>2. PICK i \in 1 .. finalized : chain[i] = [certificate |-> Stored, success |-> success]
  BY <1>1
<1>3. i \in DOMAIN chain /\ Stored \in signed /\ Stored # None
  <2>1. i \in DOMAIN chain
    BY <1>2, Blocks DEF Inv, ChainInv
  <2>2. Stored \in signed
    BY DEF WritesOutcome
  <2> QED BY <2>1, <2>2, CertificateIsSomething DEF Inv, WalletInv
<1>4. Included(Stored)
  BY <1>2, <1>3 DEF Included, Certified
<1> QED BY <1>3, <1>4 DEF Dead

\* The stored certificate is dead after each step that ends it, or before a new one is drafted.
LEMMA EndsDead ==
    ASSUME Inv, RivalInv, reorgs = 0, NEW w \in Workers,
           ExpireWorkflow(w) \/ StartAfresh(w) \/ Supersede(w) \/ Revoke(w) \/ Decide(w),
           workflow # NoWorkflow
    PROVE  Stored \in Dead
<1>a. Stored \in signed /\ Stored.nonce \in Nat /\ Stored.authority \in Nat
  BY DEF Inv, StoreInv, WalletInv, Certificate, Stored
<1>b. Context \in ContextType
  BY ContextTyped DEF Inv
<1>1. CASE ExpireWorkflow(w)
  BY <1>1, <1>a DEF ExpireWorkflow, Expired, Dead, Acceptable
<1>2. CASE StartAfresh(w)
  <2>1. workflow.state \in {"REVOKED", "EXPIRED", "FAILED"}
    BY <1>2 DEF StartAfresh, Living, Inv, StoreInv, Recorded
  <2> QED BY <2>1 DEF RivalInv, RivalSafe
<1>3. CASE Supersede(w) \/ Revoke(w)
  <2> DEFINE k == tick[w].answer
             m == Context
  <2>1. KnowsContext(w) /\ owner = w
    BY <1>3 DEF Supersede, Revoke, Here, Resumes, Owns, KnowsContext
  <2>2. /\ k \in Past /\ Stored.nonce <= k.nextNonce /\ Stored.authority <= k.authority
    BY <2>1 DEF RivalInv, RivalTick
  <2>3. /\ k \in ContextType /\ m \in ContextType
        /\ k.nextNonce <= m.nextNonce /\ k.authority <= m.authority
        /\ k.authority = m.authority => k.authorized = m.authorized
    BY <1>b, <2>2 DEF Past
  <2>4. Stored.nonce # k.nextNonce \/ ~k.authorized \/ Stored.authority # k.authority
    BY <1>3 DEF Supersede, Revoke, Passed, InContext
  <2>5. ~(m.authorized /\ Stored.authority = m.authority /\ Stored.nonce = m.nextNonce)
    <3> HIDE DEF k, m
    <3> QED BY <1>a, <2>2, <2>3, <2>4 DEF ContextType
  <2> QED BY <1>a, <2>5 DEF Dead, Acceptable, InContext
<1>4. CASE Decide(w)
  BY <1>4, DecideWrites, OutcomeDead
<1> QED BY <1>1, <1>2, <1>3, <1>4

LEMMA RivalStep ==
    ASSUME Inv, RivalInv, [Next]_vars
    PROVE  RivalInv'
<1>1. reorgs' \in Nat
  <2>1. reorgs' = reorgs \/ reorgs' = reorgs + 1
    BY RunsKeeps DEF Next, ChainNext, Include, GovernanceActs, Finalize, Reorganize, Expire, vars,
                     chainVars, Runs
  <2> QED BY <2>1 DEF RivalInv
<1> SUFFICES ASSUME reorgs' = 0 PROVE RivalSafe' /\ \A v \in Workers : RivalTick(v)'
  BY <1>1 DEF RivalInv
<1>a. /\ reorgs = 0 /\ Dead \subseteq Dead' /\ Past \subseteq Past'
      /\ Context.nextNonce <= Context'.nextNonce /\ Context.authority <= Context'.authority
      /\ RivalSafe /\ \A v \in Workers : RivalTick(v)
  BY NothingRevives DEF RivalInv
<1>b. Context \in ContextType /\ Context' \in ContextType
  BY ContextTyped, ContextTypedNext, ChainStep DEF Inv
<1>c. \A c \in signed : c.nonce <= Context'.nextNonce /\ c.authority <= Context'.authority
  <2>1. \A c \in signed : /\ c.nonce \in Nat /\ c.authority \in Nat
                          /\ c.nonce <= Context.nextNonce /\ c.authority <= Context.authority
    BY <1>a DEF RivalSafe, Inv, WalletInv, Certificate
  <2> QED BY <1>a, <1>b, <2>1 DEF ContextType
<1>2. CASE World \/ UNCHANGED vars
  <2>1. UNCHANGED <<tick, owner, workflow, rows, signed, sent>>
    BY <1>2, WorldKeeps DEF vars, storeVars, walletVars
  <2>2. RivalSafe'
    BY <1>a, <1>c, <2>1 DEF RivalSafe, IsStored, Stored
  <2>3. ASSUME NEW v \in Workers PROVE RivalTick(v)'
    BY <1>a, <2>1 DEF RivalTick, IsStored, Stored, KnowsContext
  <2> QED BY <2>2, <2>3
<1>3. ASSUME NEW w \in Workers, Runs(w)
      PROVE  RivalSafe' /\ \A v \in Workers : RivalTick(v)'
  <2>a. Context' = Context
    BY <1>3, RunsKeeps DEF Context, Governed, Certified
  <2>b. /\ tick = [v \in Workers |-> tick[v]] /\ \E t : tick' = [tick EXCEPT ![w] = t]
    BY <1>3, RunTick DEF Inv, TickInv
  <2>c. RivalTick(w)
    BY <1>a
  <2>d. ASSUME owner' = w PROVE owner = w \/ tick[w] = Idle
    BY <1>3, <2>d, RunsOwner, WorkerAssumption DEF Claim
  <2>e. StoreInv' /\ (workflow' # NoWorkflow => Stored' \in signed')
    BY StoreStep DEF StoreInv, Stored
  \* The stored certificate is only replaced when it is dead.
  <2>1. ASSUME NEW c, c \in Dead \/ IsStored(c) PROVE c \in Dead' \/ IsStored(c)'
    <3>1. CASE c \in Dead
      BY <1>a, <3>1
    <3>2. CASE IsStored(c)
      <4>1. CASE WritesSigned(w)
        <5>1. tick[w].at \in Signing /\ owner = w
          BY <4>1 DEF WritesSigned, Writes, Signing
        <5>2. c \in Dead
          BY <2>c, <3>2, <5>1 DEF RivalTick, IsStored
        <5> QED BY <1>a, <5>2
      <4>2. CASE \E state \in Recorded : Writes(w, Stored, state)
        BY <3>2, <4>2 DEF Writes, IsStored, Stored, Recorded, NoWorkflow
      <4>3. CASE UNCHANGED <<workflow, rows>>
        BY <3>2, <4>3 DEF IsStored, Stored
      <4> QED BY <1>3, <4>1, <4>2, <4>3, WriteCases DEF WritesEnd, WritesSubmitted, WritesOutcome,
                                                       Recorded
    <3> QED BY <2>1, <3>1, <3>2
  <2>2. \A c \in signed' : c.nonce <= Context'.nextNonce /\ c.authority <= Context'.authority
    <3>1. CASE Sign(w)
      <4> DEFINE c == [tick[w].certificate EXCEPT !.serial = Cardinality(signed) + 1]
      <4>1. signed' = signed \cup {c} /\ Acceptable(c)
        BY <3>1 DEF Sign
      <4> HIDE DEF c
      <4>2. c.nonce <= Context'.nextNonce /\ c.authority <= Context'.authority
        BY <1>b, <2>a, <4>1 DEF Acceptable, InContext, ContextType
      <4> QED BY <1>c, <4>1, <4>2
    <3>2. CASE ~Sign(w)
      BY <1>3, <1>c, <3>2, RunsWallet
    <3> QED BY <3>1, <3>2
  <2>3. ASSUME NEW c \in sent' PROVE c \in Dead' \/ IsStored(c)'
    <3>1. c \in sent \/ (Send(w) /\ c = tick[w].certificate)
      BY <1>3, RunsWallet DEF Send
    <3>2. CASE c \in sent
      BY <1>a, <2>1, <3>2 DEF RivalSafe
    <3>3. CASE Send(w) /\ c = tick[w].certificate
      <4>1. c \in Dead \/ IsStored(c)
        BY <2>c, <3>3 DEF RivalTick, Send, Waits, Sending
      <4> QED BY <2>1, <4>1
    <3> QED BY <3>1, <3>2, <3>3
  <2>4. ASSUME workflow'.state \in {"REVOKED", "EXPIRED", "FAILED"} PROVE Stored' \in Dead'
    <3>1. CASE UNCHANGED <<workflow, rows>>
      BY <1>a, <2>4, <3>1 DEF RivalSafe, Stored
    <3>2. CASE WritesEnd(w)
      <4>1. Stored \in Dead
        BY <1>a, <3>2, EndsDead DEF WritesEnd
      <4>2. Stored' = Stored
        BY <3>2 DEF WritesEnd, Writes, Stored
      <4> QED BY <1>a, <4>1, <4>2
    <3>3. CASE WritesOutcome(w)
      <4>1. Stored \in Dead
        BY <3>3, OutcomeDead
      <4>2. Stored' = Stored
        BY <3>3 DEF WritesOutcome, Writes, Stored
      <4> QED BY <1>a, <4>1, <4>2
    <3>4. CASE WritesSubmitted(w) \/ WritesSigned(w)
      <4>1. workflow'.state \in {"SUBMITTED", "SIGNED"}
        <5>1. ASSUME NEW c, NEW state, Writes(w, c, state) PROVE workflow'.state = state
          BY <5>1 DEF Writes
        <5> QED BY <3>4, <5>1 DEF WritesSubmitted, WritesSigned
      <4> QED BY <2>4, <4>1
    <3> QED BY <1>3, <3>1, <3>2, <3>3, <3>4, WriteCases
  <2>5. RivalSafe'
    BY <2>2, <2>3, <2>4 DEF RivalSafe
  <2>6. ASSUME NEW v \in Workers, v # w PROVE RivalTick(v)'
    <3>1. tick'[v] = tick[v] /\ RivalTick(v)
      BY <1>a, <2>6, <2>b
    <3>2. ASSUME owner' = v PROVE owner = v /\ UNCHANGED <<workflow, rows>>
      BY <1>3, <2>6, <3>2, RunsOwner, WorkerAssumption
    <3>3. tick'[v].at \in Sending => tick'[v].certificate \in Dead' \/ IsStored(tick[v].certificate)'
      BY <2>1, <3>1 DEF RivalTick
    <3> QED BY <1>a, <3>1, <3>2, <3>3 DEF RivalTick, KnowsContext, IsStored, Stored
  <2>7. RivalTick(w)'
    <3>1. CASE ToNothing(w)
      BY <3>1 DEF ToNothing, RivalTick, KnowsContext
    <3>2. CASE ToContext(w)
      <4>1. Context \in Past'
        BY <1>b, <2>a DEF Past, ContextType
      <4>2. workflow' # NoWorkflow => /\ Stored'.nonce <= Context.nextNonce
                                      /\ Stored'.authority <= Context.authority
        BY <2>2, <2>a, <2>e
      <4> QED BY <3>2, <4>1, <4>2 DEF ToContext, RivalTick, KnowsContext, Signing, Sending
    <3>3. CASE ToDraft(w)
      <4>1. ASSUME workflow' # NoWorkflow PROVE Stored' \in Dead'
        <5>1. workflow # NoWorkflow /\ Stored' = Stored
          <6>1. CASE ExpireWorkflow(w)
            BY <6>1 DEF ExpireWorkflow, Expired, Record, Stored
          <6>2. CASE StartAfresh(w)
            BY <4>1, <6>2 DEF StartAfresh, storeVars, Stored
          <6>3. CASE Supersede(w)
            <7>1. workflow.state = "SIGNED" /\ workflow' = [workflow EXCEPT !.state = "EXPIRED"]
              BY <6>3 DEF Supersede
            <7>2. workflow # NoWorkflow /\ workflow \in [certificate : signed, state : Recorded]
              BY <7>1 DEF Inv, StoreInv, NoWorkflow
            <7> QED BY <7>1, <7>2 DEF Stored
          <6>4. CASE Decide(w)
            <7>1. workflow.state \in {"SUBMITTED", "ACTIVE"} /\ \E state : Writes(w, Stored, state)
              BY <6>4, DecideWrites DEF WritesOutcome
            <7>2. workflow # NoWorkflow
              BY <7>1 DEF NoWorkflow
            <7> QED BY <7>1, <7>2 DEF Writes, Stored
          <6> QED BY <3>3, <6>1, <6>2, <6>3, <6>4 DEF ToDraft
        <5>2. Stored \in Dead
          BY <1>a, <3>3, <5>1, EndsDead DEF ToDraft
        <5> QED BY <1>a, <5>1, <5>2
      <4> QED BY <3>3, <4>1 DEF ToDraft, RivalTick, KnowsContext, Sending
    <3>4. CASE Signs(w)
      <4>1. owner' = w => owner = w
        BY <2>d, <3>4 DEF Signs, Signing, Idle
      <4> QED BY <1>a, <2>c, <3>4, <4>1 DEF Signs, RivalTick, KnowsContext, Signing, Sending, Stored
    <3>5. CASE ToSend(w)
      BY <3>5 DEF ToSend, RivalTick, KnowsContext, Signing, Sending, IsStored
    <3>6. CASE Sends(w)
      <4>1. tick[w].certificate \in Dead' \/ IsStored(tick[w].certificate)'
        BY <2>1, <2>c, <3>6 DEF Sends, RivalTick
      <4> QED BY <3>6, <4>1 DEF Sends, RivalTick, KnowsContext, Signing, Sending, IsStored
    <3> QED BY <1>3, <3>1, <3>2, <3>3, <3>4, <3>5, <3>6, Moves
  <2> QED BY <2>5, <2>6, <2>7
<1> QED BY <1>2, <1>3 DEF Next, World, Runs

\* Without a reorganization, two certificates that the chain could still accept are never
\* both under way, whatever fails, crashes or is answered late.
THEOREM OneCertificateUnderWay == Spec => []NoRivals
<1>1. Init => RivalInv
  BY WorkerAssumption DEF Init, RivalInv, RivalSafe, RivalTick, KnowsContext, NoWorkflow, Idle,
                          Sending, Signing
<1>2. Inv /\ RivalInv => NoRivals
  <2> SUFFICES ASSUME Inv, RivalInv, reorgs = 0,
                      NEW c \in {e \in sent : ~Included(e) /\ Acceptable(e)},
                      NEW d \in {e \in sent : ~Included(e) /\ Acceptable(e)}
               PROVE  c = d
    BY DEF NoRivals
  <2>1. IsStored(c) /\ IsStored(d)
    BY DEF RivalInv, RivalSafe, Dead
  <2> QED BY <2>1 DEF IsStored
<1> QED BY <1>1, <1>2, RivalStep, WorkerInvariant, PTL DEF Spec
=============================================================================

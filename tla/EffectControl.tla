---------------------------- MODULE EffectControl ----------------------------
(* The tool calls of one assistant message, from the batch the model asked for *)
(* to the results it is shown: effectControlPlane.ts, the MCP dispatcher that  *)
(* makes the one external call of an effect (mcpEffects.ts), the drives that   *)
(* dispatch the calls in toolDispatcher.ts, the startup scan of phaseDRecovery *)
(* and the convergence that a host runs after its own commits.                 *)
(*                                                                             *)
(* Host h runs the drive of lease generation h.  A host that starts again is   *)
(* another host.  A call of Effects goes out to a service, once; every other   *)
(* call is a capability without effect, which may run again.                   *)
EXTENDS Naturals

CONSTANTS MaxHosts,        \* bound: hosts, restarts included
          MaxCalls,        \* calls of the batch, in provider order
          Effects          \* those that are external effects

ASSUME EffectAssumption ==
    /\ MaxHosts \in Nat \ {0}
    /\ MaxCalls \in Nat
    /\ Effects \subseteq 1..MaxCalls

Host == 1..MaxHosts
Call == 1..MaxCalls

VARIABLES
    intent,      \* EffectIntent.dispatch_state of each call
    operation,   \* status of its Operation
    receipt,     \* outcome of its EffectReceipt
    outcome,     \* status of its ToolOutcome
    claimant     \* the lease generation in its dispatch fence, 0 without one
rows == <<intent, operation, receipt, outcome, claimant>>

VARIABLES
    turn,        \* "active", or "over" for this batch
    stop,        \* an interrupt request is pending
    owner,       \* generation of the execution lease
    lapsed       \* the lease ran out
turnVars == <<turn, stop, owner, lapsed>>

VARIABLES
    host,        \* "off", "scanning", "up" or "dead"
    suspects,    \* dispatched effects its scan has yet to look at
    condemned,   \* those it found without receipt and without a live owner
    drive,       \* its drive of the Turn
    abort,       \* the reason its executions are aborted for
    pc,          \* where its drive stands with each call
    seen         \* what its drive observed of each call
scanVars == <<suspects, condemned>>
hostVars == <<host, scanVars, drive, abort, pc, seen>>

VARIABLES
    world,       \* what the service did with each call; "unstorable": it succeeded, with
                 \* an answer whose attachments are not admitted
    invoked      \* how often the call went out
worldVars == <<world, invoked>>

vars == <<rows, turnVars, hostVars, worldVars>>

Final == {"succeeded", "failed", "cancelled", "outcome_unknown"}
Status == Final \cup {"none"}
Place == {"none", "idle", "run", "settle", "claim", "execute", "call", "calling", "observed",
          "reconcile", "back"}
Nowhere == [c \in Call |-> "none"]

TypeOK ==
    /\ intent \in [Call -> {"none", "pending", "dispatched", "receipt_written", "cancelled"}]
    /\ operation \in [Call -> Status \cup {"pending", "executing"}]
    /\ receipt \in [Call -> Status] /\ outcome \in [Call -> Status]
    /\ claimant \in [Call -> Host \cup {0}]
    /\ turn \in {"active", "over"} /\ stop \in BOOLEAN
    /\ owner \in Host /\ lapsed \in BOOLEAN
    /\ host \in [Host -> {"off", "scanning", "up", "dead"}]
    /\ suspects \in [Host -> SUBSET Call] /\ condemned \in [Host -> SUBSET Call]
    /\ drive \in [Host -> {"none", "on", "left", "thrown"}]
    /\ abort \in [Host -> {"no", "cancel", "handoff"}]
    /\ pc \in [Host -> [Call -> Place]]
    /\ seen \in [Host -> [Call -> Status]]
    /\ world \in [Call -> {"untouched", "succeeded", "failed", "unstorable"}]
    /\ invoked \in [Call -> 0..2]

\* The batch is written, nothing is dispatched, and host 1 drives the Turn
Init ==
    /\ intent = Nowhere /\ operation = Nowhere /\ receipt = Nowhere /\ outcome = Nowhere
    /\ claimant = [c \in Call |-> 0]
    /\ turn = "active" /\ stop = FALSE /\ owner = 1 /\ lapsed = FALSE
    /\ host \in [Host -> {"up", "off"}]
    /\ host[1] = "up" /\ (MaxHosts > 1 => host[MaxHosts] = "off")
    /\ suspects = [h \in Host |-> {}] /\ condemned = [h \in Host |-> {}]
    /\ drive = [h \in Host |-> IF h = 1 THEN "on" ELSE "none"]
    /\ abort = [h \in Host |-> "no"]
    /\ pc = [h \in Host |-> [c \in Call |-> IF h = 1 THEN "idle" ELSE "none"]]
    /\ seen = [h \in Host |-> Nowhere]
    /\ world = [c \in Call |-> "untouched"] /\ invoked = [c \in Call |-> 0]

-----------------------------------------------------------------------------
Settled(c) == operation[c] \in Final
Alive(h) == host[h] \in {"scanning", "up"}

\* The fence of a drive still matches the lease
Fenced(h) == owner = h /\ turn = "active"

At(h, c, where) == Alive(h) /\ drive[h] = "on" /\ pc[h][c] = where
Goto(h, c, where) == pc' = [pc EXCEPT ![h][c] = where]
See(h, c, status) == seen' = [seen EXCEPT ![h][c] = status]

\* A transaction refused by the fence: the drive stops with a hand-over, its other
\* executions run out on their own
Refused(h) ==
    /\ abort' = [abort EXCEPT ![h] = "handoff"]
    /\ UNCHANGED rows

Elsewhere == <<turnVars, host, scanVars, drive>>

\* Seeded fault: a dispatched effect without receipt is dispatched again
ClaimableAgain(c) == intent[c] = "pending" \/ (intent[c] = "dispatched" /\ receipt[c] = "none")

\* Only an intent that nobody claimed is claimed or cancelled
Claimable(c) == intent[c] = "pending"

CancelIntent(c) ==
    /\ intent' = [intent EXCEPT ![c] = "cancelled"]
    /\ operation' = [operation EXCEPT ![c] = "cancelled"]

-----------------------------------------------------------------------------
\* prepareEffectIntent: Operation, Attempt and EffectIntent in one transaction;
\* an intent that exists is replayed
Prepare(c) ==
    IF operation[c] = "none"
    THEN /\ intent' = [intent EXCEPT ![c] = "pending"]
         /\ operation' = [operation EXCEPT ![c] = "pending"]
    ELSE UNCHANGED <<intent, operation>>

\* dispatchInternal up to the capability: what is settled is not dispatched again,
\* a Turn that is asked to stop settles a call without Operation as cancelled
Begin(h, c) ==
    /\ At(h, c, "idle")
    /\ \/ /\ Settled(c)
          /\ Goto(h, c, "back") /\ UNCHANGED <<rows, abort>>
       \/ /\ ~Settled(c) /\ (stop \/ c \in Effects) /\ ~Fenced(h)
          /\ Goto(h, c, "back") /\ Refused(h)
       \/ /\ ~Settled(c) /\ stop /\ Fenced(h)
          /\ operation' = [operation EXCEPT ![c] = IF @ = "none" THEN "cancelled" ELSE @]
          /\ Goto(h, c, "back")
          /\ UNCHANGED <<intent, receipt, outcome, claimant, abort>>
       \/ /\ ~Settled(c) /\ ~stop /\ Fenced(h) /\ c \in Effects
          /\ Prepare(c) /\ Goto(h, c, "claim")
          /\ UNCHANGED <<receipt, outcome, claimant, abort>>
       \/ /\ ~Settled(c) /\ ~stop /\ c \notin Effects
          /\ Goto(h, c, "run") /\ UNCHANGED <<rows, abort>>
    /\ UNCHANGED <<seen, Elsewhere, worldVars>>

\* A capability without effect returns, fails or is cancelled
Run(h, c) ==
    /\ At(h, c, "run")
    /\ \E s \in {"succeeded", "failed", "cancelled"} :
           /\ s = "cancelled" => abort[h] = "cancel"
           /\ See(h, c, s)
    /\ Goto(h, c, "settle")
    /\ UNCHANGED <<rows, abort, Elsewhere, worldVars>>

\* settleWithoutEffect: Operation and artifact in one transaction, the first wins; a
\* success whose attachments are not admitted is settled as a failure
Settle(h, c) ==
    /\ At(h, c, "settle")
    /\ Goto(h, c, "back") /\ See(h, c, "none")
    /\ IF abort[h] # "handoff" /\ Fenced(h)
       THEN /\ \E s \in {seen[h][c], "failed"} :
                   /\ s # seen[h][c] => seen[h][c] = "succeeded"
                   /\ operation' = [operation EXCEPT ![c] = IF @ = "none" THEN s ELSE @]
            /\ UNCHANGED <<intent, receipt, outcome, claimant, abort>>
       ELSE Refused(h)
    /\ UNCHANGED <<Elsewhere, worldVars>>

\* McpEffectDispatcher.dispatch up to the claim: the intent is dispatched before
\* the service is called, by the one who found it pending
Claim(h, c) ==
    /\ At(h, c, "claim")
    /\ \/ /\ abort[h] = "handoff" \/ ~Claimable(c)
          /\ Goto(h, c, "back") /\ UNCHANGED <<rows, abort>>
       \/ /\ abort[h] # "handoff" /\ Claimable(c) /\ ~Fenced(h)
          /\ Goto(h, c, "back") /\ Refused(h)
       \/ /\ abort[h] = "cancel" /\ Claimable(c) /\ Fenced(h)
          /\ CancelIntent(c) /\ Goto(h, c, "back")
          /\ UNCHANGED <<receipt, outcome, claimant, abort>>
       \/ /\ abort[h] = "no" /\ Claimable(c) /\ Fenced(h)
          /\ intent' = [intent EXCEPT ![c] = "dispatched"]
          /\ operation' = [operation EXCEPT ![c] = "executing"]
          /\ claimant' = [claimant EXCEPT ![c] = h]
          /\ Goto(h, c, "execute")
          /\ UNCHANGED <<receipt, outcome, abort>>
    /\ UNCHANGED <<seen, Elsewhere, worldVars>>

\* executeDispatched: a receipt that is there already stops it
Execute(h, c) ==
    /\ At(h, c, "execute")
    /\ Goto(h, c, IF receipt[c] = "none" THEN "call" ELSE "back")
    /\ UNCHANGED <<rows, abort, seen, Elsewhere, worldVars>>

\* and the call goes out, unless it was aborted or there is no connection; nothing
\* here asks for the lease
CallOut(h, c) ==
    /\ At(h, c, "call")
    /\ \/ /\ See(h, c, IF abort[h] = "no" THEN "failed" ELSE "cancelled")
          /\ Goto(h, c, "observed")
          /\ UNCHANGED worldVars
       \/ /\ abort[h] = "no"
          /\ invoked' = [invoked EXCEPT ![c] = @ + 1]
          /\ \E w \in {"succeeded", "failed", "unstorable"} : world' = [world EXCEPT ![c] = w]
          /\ Goto(h, c, "calling")
          /\ UNCHANGED seen
    /\ UNCHANGED <<rows, abort, Elsewhere>>

\* The outcome that the service answers with
Answer(c) == IF world[c] = "unstorable" THEN "succeeded" ELSE world[c]

\* The result arrives, or is lost to an error or an abort
Observe(h, c) ==
    /\ At(h, c, "calling")
    /\ \E s \in {Answer(c), "outcome_unknown"} : See(h, c, s)
    /\ Goto(h, c, "observed")
    /\ UNCHANGED <<rows, abort, Elsewhere, worldVars>>

\* Seeded fault: the last receipt stays
WriteReceiptOver(c, status) ==
    /\ receipt' = [receipt EXCEPT ![c] = status]
    /\ intent' = [intent EXCEPT ![c] = "receipt_written"]
    /\ UNCHANGED <<operation, outcome, claimant>>

\* recordEffectReceipt, which asks for no lease: the first receipt of the attempt
\* stays, a later one is dropped
WriteReceipt(c, status) ==
    /\ IF receipt[c] = "none"
       THEN /\ receipt' = [receipt EXCEPT ![c] = status]
            /\ intent' = [intent EXCEPT ![c] = "receipt_written"]
       ELSE UNCHANGED <<receipt, intent>>
    /\ UNCHANGED <<operation, outcome, claimant>>

\* What a drive can record: an answer it cannot store (AttachmentAdmissionError) becomes
\* a failure, also where the service succeeded.  The refusal comes before any row is
\* written and after the look for a receipt, so that both tries are one step
Recordable(h, c) ==
    IF seen[h][c] = "succeeded" /\ world[c] = "unstorable" THEN "failed" ELSE seen[h][c]

Record(h, c) ==
    /\ At(h, c, "observed")
    /\ WriteReceipt(c, Recordable(h, c))
    /\ Goto(h, c, "reconcile") /\ See(h, c, "none")
    /\ UNCHANGED <<abort, Elsewhere, worldVars>>

\* completeOperation: the Operation takes the status of the receipt, once
Complete(c) ==
    /\ operation' = [operation EXCEPT ![c] = IF Settled(c) THEN @ ELSE receipt[c]]
    /\ UNCHANGED <<intent, receipt, outcome, claimant>>

Reconcile(h, c) ==
    /\ At(h, c, "reconcile")
    /\ Goto(h, c, "back")
    /\ IF Fenced(h) THEN Complete(c) /\ UNCHANGED abort ELSE Refused(h)
    /\ UNCHANGED <<seen, Elsewhere, worldVars>>

-----------------------------------------------------------------------------
\* reconcileCommittedFacts, which a host runs after its own commits and at its
\* start: a receipt that is written and not applied.  That it asks for no lease
\* lets any host that runs do it.
Unapplied(c) == receipt[c] # "none" /\ ~Settled(c)

Converge(c) ==
    /\ turn = "active" /\ Unapplied(c) /\ \E h \in Host : Alive(h)
    /\ Complete(c)
    /\ UNCHANGED <<turnVars, hostVars, worldVars>>

\* finalizeReadyInOrder, by the same hosts or the drive: a settled call gets its
\* result when no earlier call lacks one
First(c) == outcome[c] = "none" /\ \A b \in 1..(c - 1) : outcome[b] # "none"

Finalize(c) ==
    /\ turn = "active" /\ First(c) /\ Settled(c) /\ \E h \in Host : Alive(h)
    /\ outcome' = [outcome EXCEPT ![c] = operation[c]]
    /\ UNCHANGED <<intent, operation, receipt, claimant, turnVars, hostVars, worldVars>>

-----------------------------------------------------------------------------
\* A host starts: phaseDRecovery.runAll reads the dispatched effects
Start(h) ==
    /\ host[h] = "off"
    /\ host' = [host EXCEPT ![h] = "scanning"]
    /\ suspects' = [suspects EXCEPT ![h] = {c \in Call : intent[c] = "dispatched"}]
    /\ UNCHANGED <<rows, turnVars, condemned, drive, abort, pc, seen, worldVars>>

\* Seeded fault: the lease alone proves that its host runs
OwnedByLease(c) ==
    /\ turn = "active" /\ ~Settled(c)
    /\ owner = claimant[c] /\ ~lapsed

\* isOwnedByLiveTurnHost: the lease is the one that dispatched it, unexpired, and
\* its host runs
OwnedByLive(c) ==
    /\ turn = "active" /\ ~Settled(c)
    /\ owner = claimant[c] /\ ~lapsed /\ Alive(owner)

\* scanHangingEffects, one effect: without receipt and without live owner it is
\* to be recovered
ScanRead(h, c) ==
    /\ host[h] = "scanning" /\ c \in suspects[h]
    /\ suspects' = [suspects EXCEPT ![h] = @ \ {c}]
    /\ condemned' = [condemned EXCEPT ![h] =
           IF receipt[c] = "none" /\ ~OwnedByLive(c) THEN @ \cup {c} ELSE @]
    /\ UNCHANGED <<rows, turnVars, host, drive, abort, pc, seen, worldVars>>

\* Seeded fault: what the scan cannot prove has failed
ScanRecordFailed(h, c) ==
    /\ host[h] = "scanning" /\ c \in condemned[h]
    /\ condemned' = [condemned EXCEPT ![h] = @ \ {c}]
    /\ WriteReceipt(c, "failed")
    /\ UNCHANGED <<turnVars, host, suspects, drive, abort, pc, seen, worldVars>>

\* recoverDispatched: nothing proves what the service did
ScanRecord(h, c) ==
    /\ host[h] = "scanning" /\ c \in condemned[h]
    /\ condemned' = [condemned EXCEPT ![h] = @ \ {c}]
    /\ WriteReceipt(c, "outcome_unknown")
    /\ UNCHANGED <<turnVars, host, suspects, drive, abort, pc, seen, worldVars>>

\* The last pass of runAll applies what the scan wrote
Open(h) ==
    /\ host[h] = "scanning" /\ suspects[h] = {} /\ condemned[h] = {}
    /\ turn = "active" => \A c \in Call : ~Unapplied(c)
    /\ host' = [host EXCEPT ![h] = "up"]
    /\ UNCHANGED <<rows, turnVars, scanVars, drive, abort, pc, seen, worldVars>>

-----------------------------------------------------------------------------
\* What host h keeps in memory is gone
Forget(h) ==
    /\ abort' = [abort EXCEPT ![h] = "no"]
    /\ pc' = [pc EXCEPT ![h] = Nowhere]
    /\ seen' = [seen EXCEPT ![h] = Nowhere]

\* A host dies while the last one is still to start
Crash(h) ==
    /\ Alive(h) /\ host[MaxHosts] = "off"
    /\ host' = [host EXCEPT ![h] = "dead"]
    /\ suspects' = [suspects EXCEPT ![h] = {}] /\ condemned' = [condemned EXCEPT ![h] = {}]
    /\ drive' = [drive EXCEPT ![h] = "none"]
    /\ Forget(h)
    /\ UNCHANGED <<rows, turnVars, worldVars>>

\* The lease runs out, while a later host may still take it
Lapse ==
    /\ turn = "active" /\ ~lapsed /\ owner < MaxHosts
    /\ lapsed' = TRUE
    /\ UNCHANGED <<rows, turn, stop, owner, hostVars, worldVars>>

\* claimRecoveryExecution, and the drive it starts from the rows alone
TakeOver(h) ==
    /\ h > owner /\ host[h] = "up" /\ turn = "active"
    /\ lapsed \/ drive[owner] \in {"none", "left"}
    /\ owner' = h /\ lapsed' = FALSE
    /\ drive' = [drive EXCEPT ![h] = "on"]
    /\ pc' = [pc EXCEPT ![h] = [c \in Call |-> "idle"]]
    /\ UNCHANGED <<rows, turn, stop, host, scanVars, abort, seen, worldVars>>

\* quiesceTurn: the drive is told to hand over, and leaves when its executions have
\* returned
Handoff(h) ==
    /\ turn = "active" /\ drive[h] = "on" /\ abort[h] # "handoff" /\ h < MaxHosts
    /\ abort' = [abort EXCEPT ![h] = "handoff"]
    /\ UNCHANGED <<rows, turnVars, host, scanVars, drive, pc, seen, worldVars>>

Leave(h) ==
    /\ drive[h] = "on" /\ abort[h] = "handoff"
    /\ \A c \in Call : pc[h][c] \in {"idle", "back"}
    /\ drive' = [drive EXCEPT ![h] = "left"]
    /\ Forget(h)
    /\ UNCHANGED <<rows, turnVars, host, scanVars, worldVars>>

Interrupt ==
    /\ turn = "active" /\ ~stop
    /\ stop' = TRUE
    /\ UNCHANGED <<rows, turn, owner, lapsed, hostVars, worldVars>>

\* cancelActive, on the host that drives
CancelActive(h) ==
    /\ stop /\ drive[h] = "on" /\ abort[h] = "no"
    /\ abort' = [abort EXCEPT ![h] = "cancel"]
    /\ UNCHANGED <<rows, turnVars, host, scanVars, drive, pc, seen, worldVars>>

-----------------------------------------------------------------------------
\* The drive between two groups of calls: what it dispatched has returned
InCharge(h) ==
    /\ drive[h] = "on" /\ abort[h] # "handoff" /\ Fenced(h)
    /\ \A c \in Call : pc[h][c] \in {"idle", "back"}

\* All results are there: they go to the model, or the interrupted Turn ends
Proceed(h) ==
    /\ InCharge(h) /\ \A c \in Call : outcome[c] # "none"
    /\ turn' = "over"
    /\ UNCHANGED <<rows, stop, owner, lapsed, hostVars, worldVars>>

\* Seeded fault: an interrupted Turn cancels what was dispatched, too
CloseCallAny(h, c) ==
    /\ InCharge(h) /\ stop /\ First(c) /\ ~Settled(c)
    /\ CancelIntent(c)
    /\ UNCHANGED <<drive, abort, pc, seen, receipt, outcome, claimant, turnVars, host, scanVars, worldVars>>

\* closeInterruptedToolContext on the first call without result: what was not
\* dispatched is cancelled, an Operation that is executing makes the drive throw,
\* whether or not its receipt is there
CloseCall(h, c) ==
    /\ InCharge(h) /\ stop /\ First(c) /\ ~Settled(c)
    /\ \/ /\ Claimable(c)
          /\ CancelIntent(c)
          /\ UNCHANGED <<drive, abort, pc, seen>>
       \/ /\ operation[c] = "none"
          /\ operation' = [operation EXCEPT ![c] = "cancelled"]
          /\ UNCHANGED <<intent, drive, abort, pc, seen>>
       \/ /\ operation[c] = "executing"
          /\ drive' = [drive EXCEPT ![h] = "thrown"]
          /\ Forget(h)
          /\ UNCHANGED <<intent, operation>>
    /\ UNCHANGED <<receipt, outcome, claimant, turnVars, host, scanVars, worldVars>>

-----------------------------------------------------------------------------
Dispatch(h, c) ==
    \/ Begin(h, c) \/ Run(h, c) \/ Settle(h, c) \/ Claim(h, c) \/ Execute(h, c)
    \/ CallOut(h, c) \/ Record(h, c) \/ Reconcile(h, c) \/ CloseCall(h, c)
Scan(h) ==
    \/ Open(h)
    \/ \E c \in Call : ScanRead(h, c) \/ ScanRecord(h, c)

Next ==
    \/ \E c \in Call : \/ \E h \in Host : Dispatch(h, c) \/ Observe(h, c)
                       \/ Converge(c) \/ Finalize(c)
    \/ \E h \in Host : \/ Scan(h) \/ Start(h) \/ Crash(h) \/ TakeOver(h) \/ Proceed(h)
                       \/ Handoff(h) \/ Leave(h) \/ CancelActive(h)
    \/ Lapse \/ Interrupt

Spec == Init /\ [][Next]_vars

\* A host that wrote a receipt, or is about to find one there, converges
Converging(c) ==
    \/ \E h \in Host : host[h] = "scanning"
    \/ claimant[c] # 0 /\ Alive(claimant[c])

\* What a running host does on its own.  A call to the service need not return
\* unless it is aborted; a drive is told to hand over when it lost the lease; the
\* lease of a drive that threw is not extended.
Fairness ==
    /\ \A h \in Host :
        /\ \A c \in Call : /\ WF_vars(Dispatch(h, c))
                           /\ WF_vars(Observe(h, c) /\ abort[h] # "no")
                           /\ WF_vars(Finalize(c) /\ InCharge(h))
        /\ WF_vars(Scan(h)) /\ WF_vars(TakeOver(h)) /\ WF_vars(Proceed(h))
        /\ WF_vars(Handoff(h) /\ owner # h) /\ WF_vars(Leave(h)) /\ WF_vars(CancelActive(h))
    /\ \A c \in Call : WF_vars(Converge(c) /\ Converging(c))
    /\ WF_vars(Lapse /\ drive[owner] = "thrown")

\* A user leaves no host that may start waiting for ever
FairSpec == Spec /\ Fairness /\ \A h \in Host : WF_vars(Start(h))

-----------------------------------------------------------------------------
\* A call of the batch goes out at most once, whoever crashes, takes over or scans
\* (claimEffectDispatch, recoverDispatched)
AtMostOnce == \A c \in Call : invoked[c] <= 1

\* What the model is told of an effect is what the service did: a success or a
\* cancellation is never reported from anything less, and no success is reported
\* as a failure whose answer can be stored (mcpInvocationFailure, recoverDispatched).
\* The success of an answer that cannot be stored is reported as a failure or as
\* unknown, never as a success (dispatch)
OutcomeTrue ==
    \A c \in Effects :
        /\ outcome[c] = "succeeded" => world[c] = "succeeded"
        /\ outcome[c] = "failed" => world[c] # "succeeded"
        /\ outcome[c] = "cancelled" => invoked[c] = 0

\* The rows of one effect agree, between any two of the transactions that write
\* them: a receipt closes its intent, an executing Operation was dispatched, and a
\* cancelled intent was never claimed
RowsAgree ==
    \A c \in Effects :
        /\ (intent[c] = "receipt_written") = (receipt[c] # "none")
        /\ operation[c] = "executing" =>
               intent[c] \in {"dispatched", "receipt_written"} /\ claimant[c] # 0
        /\ intent[c] = "cancelled" => operation[c] = "cancelled" /\ claimant[c] = 0
        /\ receipt[c] # "none" /\ Settled(c) => operation[c] = receipt[c]

\* A receipt, a settled Operation and a result stay what they are
SettledOnce ==
    [][\A c \in Call : /\ receipt[c] # "none" => receipt'[c] = receipt[c]
                       /\ Settled(c) => operation'[c] = operation[c]
                       /\ outcome[c] # "none" => outcome'[c] = outcome[c]]_vars

InFlight == \E h \in Host, c \in Call : At(h, c, "calling")
Thrown == stop /\ \E h \in Host : drive[h] = "thrown"

\* The batch gets all its results, unless a service keeps a call without an answer
SettledOrInFlight == <>[](turn = "over" \/ InFlight \/ Thrown)
=============================================================================

----------------------------- MODULE FileEffects -----------------------------
(* One change set of the file tools, from its proposal to its report:          *)
(* fileEffects.ts, the drive that dispatches it (toolDispatcher.ts), the user  *)
(* who decides it in any window, the convergence every host runs after its own *)
(* commits (runtimeApplication.ts) and the scan of a host that starts          *)
(* (phaseDRecovery.ts).  The files are shared with an editor that saves when   *)
(* it likes.                                                                   *)
(*                                                                             *)
(* A host runs two threads of control: "window", a user's command or the drive *)
(* of the Turn, and "pass", its convergence or, while it starts, its scan.     *)
EXTENDS Naturals, Sequences

CONSTANTS MaxHosts,      \* hosts, restarts included
          MaxMembers,    \* members of the change set, in order
          Trees,         \* those that delete a directory tree; the others replace a file
          Bounds         \* the bounds a behaviour may start with

Host == 1..MaxHosts
Member == 1..MaxMembers
Thread == {"window", "pass"}

\* Bounds: how many of the hosts there are and how many may be up already, how many
\* members, how often the editor saves, whether the Turn is ever stopped, and whether
\* users approve what is approved again
BoundOf == [hosts : Host, up : Host, members : Member, edits : Nat,
            stops : BOOLEAN, again : BOOLEAN]

ASSUME FileAssumption ==
    /\ MaxHosts \in Nat \ {0} /\ MaxMembers \in Nat \ {0}
    /\ Trees \subseteq 1..MaxMembers /\ Bounds \subseteq BoundOf

VARIABLES
    decision,    \* the FileChangeDecision
    intent,      \* dispatch_state of its EffectIntent
    fence,       \* host in the dispatch fence, 0 without one
    report,      \* member outcomes of its EffectReceipt, <<>> without one
    status       \* of its Operation and tool call
rows == <<decision, intent, fence, report, status>>

VARIABLES
    turn,        \* "active" or "over"
    owner,       \* the host that holds the execution lease
    stop,        \* what the drive is aborted for
    bound        \* what may happen
turnVars == <<turn, owner, stop, bound>>

VARIABLES
    host,        \* "off", "scanning", "up" or "dead"
    due,         \* convergence is requested
    marker,      \* the thread that put the intent into activeDispatches
    thread       \* of each thread: where it stands, at which member, what it observed
hostVars == <<host, due, marker, thread>>

VARIABLES
    disk,        \* what each target holds
    writes,      \* how often a mutation of it began
    edits        \* saves so far
diskVars == <<disk, writes, edits>>

VARIABLES
    claimant,    \* the host that won the claim, 0 before
    saved,       \* the members that held an edit at that moment
    overlap      \* files were inspected while a thread was applying the change set
history == <<claimant, saved, overlap>>

vars == <<rows, turnVars, hostVars, diskVars, history>>

Outcome == {"succeeded", "failed", "conflict", "cancelled", "outcome_unknown"}
Observation == UNION {[1..n -> Outcome] : n \in 0..MaxMembers}
Place == {"idle", "enter", "claim", "late", "execute", "read", "write", "writing",
          "after", "inspect", "record", "reconcile", "sweep", "check", "expire"}
AtRest == [pc |-> "idle", at |-> 1, seen |-> <<>>]

TypeOK ==
    /\ bound \in Bounds
    /\ decision \in {"none", "approved", "rejected", "expired"}
    /\ intent \in {"none", "pending", "dispatched", "receipt_written", "cancelled"}
    /\ fence \in Host \cup {0} /\ claimant \in Host \cup {0}
    /\ report \in Observation
    /\ status \in Outcome \cup {"none", "partial", "rejected"}
    /\ turn \in {"active", "over"} /\ owner \in Host /\ stop \in {"no", "cancel", "handoff"}
    /\ host \in [Host -> {"off", "scanning", "up", "dead"}]
    /\ due \in [Host -> BOOLEAN] /\ marker \in [Host -> Thread \cup {"none"}]
    /\ thread \in [Host -> [Thread -> [pc : Place, at : Member, seen : Observation]]]
    /\ disk \in [Member -> {"base", "torn", "target", "edited"}]
    /\ writes \in [Member -> 0..2] /\ edits \in 0..bound.edits /\ saved \subseteq Member /\ overlap \in BOOLEAN

\* The change set is proposed and waits for its decision; host 1 drives the Turn
Init ==
    /\ bound \in Bounds
    /\ decision = "none" /\ intent = "none" /\ fence = 0 /\ report = <<>> /\ status = "none"
    /\ turn = "active" /\ owner = 1 /\ stop = "no"
    /\ host \in [Host -> {"up", "off"}]
    /\ host[1] = "up" /\ \A h \in Host : h > bound.up => host[h] = "off"
    /\ due = [h \in Host |-> FALSE] /\ marker = [h \in Host |-> "none"]
    /\ thread = [h \in Host |-> [t \in Thread |-> AtRest]]
    /\ disk = [m \in Member |-> "base"] /\ writes = [m \in Member |-> 0] /\ edits = 0
    /\ claimant = 0 /\ saved = {} /\ overlap = FALSE

-----------------------------------------------------------------------------
Alive(h) == host[h] \in {"scanning", "up"}
At(h, t, where) == Alive(h) /\ thread[h][t].pc = where
Here(h, t) == thread[h][t].at
Seen(h, t) == thread[h][t].seen

Become(h, t, state) == thread' = [thread EXCEPT ![h][t] = state]
Goto(h, t, where) == Become(h, t, [thread[h][t] EXCEPT !.pc = where])
FromFirst(where) == [AtRest EXCEPT !.pc = where]

\* A commit of this host requests a pass of its convergence
Committed(h) == due' = [due EXCEPT ![h] = TRUE]

\* The drive runs on the host with the lease; a user's command has no signal
Aborted(h, t) == t = "window" /\ h = owner /\ stop # "no"

\* The call is over: the marker is taken off by the thread that put it there
Return(h, t) ==
    /\ Become(h, t, IF t = "window" THEN AtRest
                    ELSE FromFirst(IF host[h] = "scanning" THEN "expire" ELSE "sweep"))
    /\ marker' = [marker EXCEPT ![h] = IF @ = t THEN "none" ELSE @]

Claimable == intent = "pending"

\* dispatchRecordAndReconcile; who comes after the claim finds the intent no longer
\* pending, whenever it reads it
Enter(h, t) ==
    /\ At(h, t, "enter")
    /\ Goto(h, t, IF Claimable THEN "claim" ELSE "late")
    /\ marker' = [marker EXCEPT ![h] = IF @ = "none" THEN t ELSE @]
    /\ UNCHANGED <<rows, turnVars, host, due, diskVars, history>>

CancelPending ==
    /\ intent' = "cancelled" /\ status' = "cancelled"
    /\ UNCHANGED <<decision, fence, report>>

\* dispatchRecordAndReconcileActive when the claim is lost to another thread: the loser
\* returns, or applies the report it finds; one that has read the intent as pending and
\* its Attempt after the winner's commit throws, and inspects what is dispatched
Lose(h, t) ==
    /\ \/ Return(h, t)
       \/ /\ \/ report # <<>> /\ Goto(h, t, "reconcile")
             \/ intent = "dispatched" /\ Become(h, t, FromFirst("inspect"))
          /\ UNCHANGED marker
    /\ UNCHANGED <<rows, due, claimant, saved>>

\* dispatch: an aborted drive cancels what nobody claimed, or leaves it for the host
\* it hands over to; the fence names the host with the lease, whoever claims
Claim(h, t) ==
    /\ At(h, t, "claim")
    /\ \/ /\ Aborted(h, t) /\ stop = "cancel" /\ Claimable
          /\ CancelPending /\ Committed(h)
          /\ Return(h, t)
          /\ UNCHANGED <<claimant, saved>>
       \/ /\ \/ Aborted(h, t) /\ stop = "handoff"
             \/ Claimable /\ turn = "over"
          /\ Return(h, t)
          /\ UNCHANGED <<rows, due, claimant, saved>>
       \/ ~Claimable /\ Lose(h, t)
       \/ /\ Claimable /\ ~Aborted(h, t) /\ turn = "active"
          /\ intent' = "dispatched" /\ fence' = owner /\ claimant' = h
          /\ saved' = {m \in Member : disk[m] = "edited"}
          /\ Committed(h)
          /\ Goto(h, t, "execute")
          /\ UNCHANGED <<decision, report, status, marker>>
    /\ UNCHANGED <<turnVars, host, diskVars, overlap>>

\* The claim was over when this call came
Late(h, t) ==
    /\ At(h, t, "late")
    /\ \/ /\ report = <<>> \/ (Aborted(h, t) /\ stop = "handoff")
          /\ Return(h, t)
       \/ /\ report # <<>>
          /\ Goto(h, t, "reconcile")
          /\ UNCHANGED marker
    /\ UNCHANGED <<rows, turnVars, host, due, diskVars, history>>

\* executeDispatched: a receipt stops it; an error on the way to the files leads to
\* an inspection of them instead
Execute(h, t) ==
    /\ At(h, t, "execute")
    /\ \/ /\ report = <<>>
          /\ \E next \in {"read", "inspect"} : Become(h, t, FromFirst(next))
          /\ UNCHANGED marker
       \/ /\ report # <<>>
          /\ Return(h, t)
    /\ UNCHANGED <<rows, turnVars, host, due, diskVars, history>>

-----------------------------------------------------------------------------
\* A directory has one digest, whatever is left of it
Digest(m) == IF m \in Trees /\ disk[m] = "torn" THEN "base" ELSE disk[m]

\* Seeded fault: a directory that is still there was not touched
ReconciledByDigest(m) ==
    IF Digest(m) = "target" THEN "succeeded"
    ELSE IF Digest(m) = "base" THEN "failed" ELSE "conflict"

\* reconcileMemberObservation: what the digest proves about the mutation
Reconciled(m) ==
    IF Digest(m) = "target" THEN "succeeded"
    ELSE IF m \in Trees /\ Digest(m) = "base" THEN "outcome_unknown"
    ELSE IF Digest(m) = "base" THEN "failed" ELSE "conflict"

\* One member is observed; the next follows, or the observation is complete
Observe(h, t, outcome, next) ==
    LET seen == Append(Seen(h, t), outcome)
    IN  Become(h, t, [pc |-> IF Len(seen) < bound.members THEN next ELSE "record",
                      at |-> IF Len(seen) < bound.members THEN Len(seen) + 1 ELSE 1,
                      seen |-> seen])

\* apply stops at the first member that did not succeed
ObserveApply(h, t, outcome) ==
    Observe(h, t, outcome, IF outcome = "succeeded" THEN "read" ELSE "record")

\* Seeded fault: the digest is not compared before the write
ReadBlind(h, t) ==
    /\ At(h, t, "read")
    /\ Goto(h, t, "write")
    /\ UNCHANGED <<rows, turnVars, host, due, marker, diskVars, history>>

\* applyMember: the base digest is compared with the target as it is now
Read(h, t) ==
    /\ At(h, t, "read")
    /\ \/ Aborted(h, t) /\ ObserveApply(h, t, "cancelled")
       \/ ~Aborted(h, t) /\ Digest(Here(h, t)) # "base" /\ ObserveApply(h, t, "conflict")
       \/ ~Aborted(h, t) /\ Digest(Here(h, t)) = "base" /\ Goto(h, t, "write")
    /\ UNCHANGED <<rows, turnVars, host, due, marker, diskVars, history>>

\* and written after that, unless the drive was aborted in between: the target is
\* emptied first, or nothing is changed because the write is refused
Write(h, t) ==
    /\ At(h, t, "write")
    /\ LET m == Here(h, t) IN
       \/ /\ Aborted(h, t)
          /\ ObserveApply(h, t, "cancelled")
          /\ UNCHANGED diskVars
       \/ /\ ~Aborted(h, t)
          /\ Goto(h, t, "after")
          /\ UNCHANGED diskVars
       \/ /\ ~Aborted(h, t)
          /\ disk' = [disk EXCEPT ![m] = "torn"]
          /\ writes' = [writes EXCEPT ![m] = @ + 1]
          /\ Goto(h, t, "writing")
          /\ UNCHANGED edits
    /\ UNCHANGED <<rows, turnVars, host, due, marker, history>>

\* The write ends, or breaks off
Finish(h, t) ==
    /\ At(h, t, "writing")
    /\ \E d \in {disk[Here(h, t)], "target"} : disk' = [disk EXCEPT ![Here(h, t)] = d]
    /\ Goto(h, t, "after")
    /\ UNCHANGED <<rows, turnVars, host, due, marker, writes, edits, history>>

\* What the target holds now decides, and not what the write returned
After(h, t) ==
    /\ At(h, t, "after")
    /\ ObserveApply(h, t, Reconciled(Here(h, t)))
    /\ UNCHANGED <<rows, turnVars, host, due, marker, diskVars, history>>

Applying(h, t) == thread[h][t].pc \in {"execute", "read", "write", "writing", "after"}
SomebodyApplies == \E g \in Host, u \in Thread : Applying(g, u)

\* Seeded fault: recovery applies what is not there yet
InspectApply(h, t) ==
    /\ At(h, t, "inspect")
    /\ Goto(h, t, "read")
    /\ UNCHANGED <<rows, turnVars, host, due, marker, diskVars, history>>

\* inspect: every member is looked at, and none is changed
Inspect(h, t) ==
    /\ At(h, t, "inspect")
    /\ Observe(h, t, Reconciled(Here(h, t)), "inspect")
    /\ overlap' = (overlap \/ SomebodyApplies)
    /\ UNCHANGED <<rows, turnVars, host, due, marker, diskVars, claimant, saved>>

-----------------------------------------------------------------------------
\* recordEffectReceipt: the first receipt of the intent stays
Record(h, t) ==
    /\ At(h, t, "record")
    /\ IF report = <<>>
       THEN /\ report' = Seen(h, t) /\ intent' = "receipt_written"
            /\ Committed(h)
       ELSE UNCHANGED <<report, intent, due>>
    /\ Become(h, t, FromFirst("reconcile"))
    /\ UNCHANGED <<decision, fence, status, turnVars, host, marker, diskVars, history>>

\* aggregateFileMemberOutcomes
Aggregate(r) ==
    LET Has(o) == \E i \in DOMAIN r : r[i] = o
    IN  IF \A i \in DOMAIN r : r[i] = "succeeded" THEN "succeeded"
        ELSE IF Has("succeeded") THEN "partial"
        ELSE CHOOSE o \in {"conflict", "outcome_unknown", "cancelled", "failed"} :
                 /\ Has(o)
                 /\ o = "outcome_unknown" => ~Has("conflict")
                 /\ o = "cancelled" => ~Has("conflict") /\ ~Has("outcome_unknown")
                 /\ o = "failed" => \A i \in DOMAIN r : r[i] = "failed"

\* reconcileEffectReceipt: the Operation takes the outcome of the report, once
Apply(h) ==
    IF status = "none" /\ report # <<>>
    THEN status' = Aggregate(report) /\ Committed(h)
    ELSE UNCHANGED <<status, due>>

\* A drive that lost the lease is refused
Reconcile(h, t) ==
    /\ At(h, t, "reconcile")
    /\ \/ Apply(h)
       \/ t = "window" /\ h # owner /\ UNCHANGED <<status, due>>
    /\ Return(h, t)
    /\ UNCHANGED <<decision, intent, fence, report, turnVars, host, diskVars, history>>

-----------------------------------------------------------------------------
\* decide, by a user in any window, by the stop of the Turn or by a policy that
\* approves: the first response stays, and who comes late gets the decision that
\* stands; whoever gets an approval dispatches it
Decide(h, value) ==
    /\ host[h] = "up" /\ At(h, "window", "idle")
    /\ IF decision = "none"
       THEN /\ turn = "active"
            /\ decision' = value
            /\ intent' = IF value = "approved" THEN "pending" ELSE intent
            /\ status' = IF value = "approved" THEN status ELSE "rejected"
            /\ Committed(h)
            /\ IF value = "approved" THEN Goto(h, "window", "enter") ELSE UNCHANGED thread
       ELSE /\ bound.again /\ decision = "approved" /\ status = "none"
            /\ Goto(h, "window", "enter")
            /\ UNCHANGED <<decision, intent, status, due>>
    /\ UNCHANGED <<fence, report, turnVars, host, marker, diskVars, history>>

\* dispatchFile of a drive that finds the approval
Redrive(h) ==
    /\ h = owner /\ host[h] = "up" /\ At(h, "window", "idle") /\ stop # "handoff"
    /\ turn = "active" /\ decision = "approved" /\ status = "none"
    /\ intent \in {"pending", "receipt_written"}
    /\ Goto(h, "window", "enter")
    /\ UNCHANGED <<rows, turnVars, host, due, marker, diskVars, history>>

-----------------------------------------------------------------------------
\* runRuntimeConvergence: what is pending is dispatched
Pass(h) ==
    /\ host[h] = "up" /\ At(h, "pass", "idle") /\ due[h]
    /\ due' = [due EXCEPT ![h] = FALSE]
    /\ Goto(h, "pass", IF intent = "pending" THEN "enter" ELSE "sweep")
    /\ UNCHANGED <<rows, turnVars, host, marker, diskVars, history>>

\* what is dispatched under the lease of this host and has no marker is inspected;
\* a report that is not applied yet is applied (reconcileCommittedFacts)
Sweep(h) ==
    /\ At(h, "pass", "sweep")
    /\ IF intent = "dispatched" /\ marker[h] = "none" /\ fence = h
       THEN /\ Become(h, "pass", FromFirst("inspect"))
            /\ marker' = [marker EXCEPT ![h] = "pass"]
            /\ UNCHANGED <<status, due>>
       ELSE /\ Goto(h, "pass", "idle") /\ Apply(h)
            /\ UNCHANGED marker
    /\ UNCHANGED <<decision, intent, fence, report, turnVars, host, diskVars, history>>

-----------------------------------------------------------------------------
\* A host starts
Start(h) ==
    /\ h <= bound.hosts /\ host[h] = "off"
    /\ host' = [host EXCEPT ![h] = "scanning"]
    /\ Goto(h, "pass", "check")
    /\ UNCHANGED <<rows, turnVars, due, marker, diskVars, history>>

\* Seeded fault: the lease on the Turn is enough, its host may be dead
OwnedByLease == turn = "active" /\ status = "none" /\ owner = fence

\* isOwnedByLiveTurnHost asks for the host in the fence
OwnedByLive == turn = "active" /\ status = "none" /\ owner = fence /\ Alive(fence)

\* scanHangingEffects: without a receipt and a live owner the files are inspected
Check(h) ==
    /\ At(h, "pass", "check")
    /\ Become(h, "pass", FromFirst(IF intent = "dispatched" /\ ~OwnedByLive THEN "inspect" ELSE "expire"))
    /\ UNCHANGED <<rows, turnVars, host, due, marker, diskVars, history>>

\* scanUnresolvedFileChanges, for the Turns of all hosts, and the receipts once more:
\* the host is open
Expire(h) ==
    /\ At(h, "pass", "expire")
    /\ IF decision = "none" /\ turn = "active"
       THEN decision' = "expired" /\ status' = "cancelled" /\ Committed(h)
       ELSE Apply(h) /\ UNCHANGED decision
    /\ host' = [host EXCEPT ![h] = "up"]
    /\ Become(h, "pass", AtRest)
    /\ UNCHANGED <<intent, fence, report, turnVars, marker, diskVars, history>>

-----------------------------------------------------------------------------
\* A host dies while the last one is still to start
Crash(h) ==
    /\ Alive(h) /\ host[bound.hosts] = "off"
    /\ host' = [host EXCEPT ![h] = "dead"]
    /\ due' = [due EXCEPT ![h] = FALSE] /\ marker' = [marker EXCEPT ![h] = "none"]
    /\ thread' = [thread EXCEPT ![h] = [t \in Thread |-> AtRest]]
    /\ UNCHANGED <<rows, turnVars, diskVars, history>>

\* The Turn is interrupted, or its host is about to close
Stop ==
    /\ bound.stops /\ turn = "active" /\ stop = "no" /\ Alive(owner)
    /\ stop' \in {"cancel", "handoff"}
    /\ stop' = "handoff" => owner < bound.hosts
    /\ UNCHANGED <<rows, turn, owner, bound, hostVars, diskVars, history>>

TakeOver(h) ==
    /\ turn = "active" /\ h # owner /\ host[h] = "up"
    /\ host[owner] = "dead" \/ (stop = "handoff" /\ At(owner, "window", "idle"))
    /\ owner' = h /\ stop' = IF stop = "handoff" THEN "no" ELSE stop
    /\ UNCHANGED <<rows, turn, bound, hostVars, diskVars, history>>

\* The Turn ends with nothing under way; prepareUnresolvedTurnClosure expires what
\* nobody decided in the same transaction
EndTurn ==
    /\ turn = "active" /\ host[owner] = "up" /\ At(owner, "window", "idle")
    /\ \/ status # "none" /\ UNCHANGED <<decision, status>>
       \/ stop = "cancel" /\ decision = "none" /\ decision' = "expired" /\ status' = "cancelled"
    /\ turn' = "over"
    /\ UNCHANGED <<intent, fence, report, owner, stop, bound, hostVars, diskVars, history>>

\* The user saves another text
Edit(m) ==
    /\ m \notin Trees /\ m <= bound.members /\ edits < bound.edits /\ disk[m] # "edited"
    /\ disk' = [disk EXCEPT ![m] = "edited"] /\ edits' = edits + 1
    /\ UNCHANGED <<rows, turnVars, hostVars, writes, history>>

-----------------------------------------------------------------------------
Step(h, t) ==
    \/ Enter(h, t) \/ Claim(h, t) \/ Late(h, t) \/ Execute(h, t) \/ Read(h, t)
    \/ Write(h, t) \/ Finish(h, t) \/ After(h, t) \/ Inspect(h, t) \/ Record(h, t) \/ Reconcile(h, t)
Converge(h) == Pass(h) \/ Sweep(h) \/ Check(h) \/ Expire(h)

Next ==
    \/ \E h \in Host : \/ \E t \in Thread : Step(h, t)
                       \/ \E value \in {"approved", "rejected"} : Decide(h, value)
                       \/ Converge(h) \/ Redrive(h) \/ Start(h) \/ Crash(h) \/ TakeOver(h)
    \/ Stop \/ EndTurn
    \/ \E m \in Member : Edit(m)

Spec == Init /\ [][Next]_vars

\* What a running host does on its own, and a user who starts the host that is left
Fairness ==
    /\ \A h \in Host : /\ WF_vars(Step(h, "window") \/ Redrive(h))
                       /\ WF_vars(Step(h, "pass") \/ Converge(h))
    /\ WF_vars(\E h \in Host : TakeOver(h))
    /\ WF_vars(\E h \in Host : Start(h))

FairSpec == Spec /\ Fairness

-----------------------------------------------------------------------------
\* Nothing is changed without approval, nothing twice, and no member before the one
\* ahead of it, whoever crashes, recovers or decides in another window (apply,
\* claimEffectDispatch, recoverDispatchedEffect)
AppliedOnce ==
    \A m \in Member :
        /\ writes[m] > 0 => decision = "approved"
        /\ writes[m] <= 1
        /\ writes[m] > 0 /\ m > 1 => writes[m - 1] > 0

\* A report says of each member what became of it, also when a crash or a failed
\* write left half a file or half a directory: no success and no failure is claimed
\* without proof, and a member it does not list was not touched
Truthful ==
    \A m \in Member :
        /\ m \notin DOMAIN report => writes[m] = 0
        /\ m \in DOMAIN report =>
               /\ report[m] = "succeeded" => writes[m] = 1
               /\ report[m] \in {"failed", "cancelled"} => writes[m] = 0

\* That holds of every report when nobody inspected the files while another thread
\* was applying the change set, as the convergence, the scan and a loser of the claim can
ReportTrue == report # <<>> /\ ~overlap => Truthful

\* A decision, a report and an outcome stay what they are, and so does the claim
FactsStay ==
    [][/\ decision # "none" => decision' = decision
       /\ report # <<>> => report' = report
       /\ status # "none" => status' = status]_vars

\* What the editor saved before the change set was claimed is never overwritten
EditsKept == \A m \in saved : disk[m] = "edited"

\* An approval is carried out, cancelled or reported, unless the window that claimed
\* it for another host is gone
Reported ==
    <>[](\/ decision # "approved" \/ status # "none"
         \/ claimant # fence /\ ~Alive(claimant))
=============================================================================

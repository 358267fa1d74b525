---------------------------- MODULE TurnControl ----------------------------
(***************************************************************************)
(* The durable life of Turns: admission, execution lease, recovery claim,  *)
(* renewal, interrupt and terminal commit, as several Extension Hosts      *)
(* perform them on one SQLite runtime root (turnControlPlane.ts).          *)
(*                                                                         *)
(* One action is one writer transaction.  What a command reads before its  *)
(* transaction and the transaction asserts again is a guard.  The two      *)
(* commands that carry a row from a read to a later compare-and-set - the  *)
(* recovery claim and the lease renewal - are two actions each, and what   *)
(* was read stays in "flight" between them.                                *)
(*                                                                         *)
(* A TurnIntent and the Turn it becomes share one id here: the id of the   *)
(* Turn is a hash of the id of its intent.                                 *)
(***************************************************************************)
EXTENDS Naturals

CONSTANTS
    Boot,       \* Extension Host processes; a restarted host is another boot
    Conv,       \* conversations
    Turn,       \* turn intents, and the Turns they become
    ConvOf,     \* the conversation of each of them
    TTL,        \* lifetime of a freshly written lease, in ticks
    MaxClock    \* bound on the ticks that TLC explores

ASSUME ConvOfAssumption == ConvOf \in [Turn -> Conv]
ASSUME TTLAssumption == TTL \in Nat \ {0}

VARIABLES
    clock,      \* wall-clock time
    alive,      \* boots whose process is running
    intent,     \* TurnIntent.state
    held,       \* the current revision of the intent says hold: 'paused'
    status,     \* Turn.status
    verdict,    \* TurnTermination.terminal_status
    lease,      \* the ExecutionLease row of the Turn, or NoLease
    claimed,    \* receipts of first recovery claims, one per boot and Turn
    interrupt,  \* the interrupt_request row of the Turn
    delivery,   \* the Turn has a pending runtime_delivery input
    work,       \* the Turn has a non-terminal ToolCall or ModelRequest
    fence,      \* generation a boot's executor carries for a Turn, 0 if none
    flight      \* lease row a boot has read and not yet written back

rows   == <<intent, held, status, verdict, lease, claimed, interrupt, delivery, work>>
memory == <<fence, flight>>
vars   == <<clock, alive, rows, memory>>

Verdict == {"completed", "failed", "interrupted"}

NoLease  == [owner |-> "none"]
NoFlight == [job |-> "none"]
Lease    == [owner: Boot, gen: Nat \ {0}, expires: Nat]
Flight   == [job: {"claim", "renew"}, row: Lease, until: Nat]

TypeOK ==
    /\ clock \in Nat
    /\ alive \subseteq Boot
    /\ intent \in [Turn -> {"absent", "queued", "admitted", "cancelled"}]
    /\ held \in [Turn -> BOOLEAN]
    /\ status \in [Turn -> {"absent", "active", "terminated"}]
    /\ verdict \in [Turn -> Verdict \cup {"none"}]
    /\ lease \in [Turn -> Lease \cup {NoLease}]
    /\ claimed \in SUBSET (Boot \X Turn)
    /\ interrupt \in [Turn -> {"none", "pending", "consumed"}]
    /\ delivery \in [Turn -> BOOLEAN]
    /\ work \in [Turn -> BOOLEAN]
    /\ fence \in [Boot -> [Turn -> Nat]]
    /\ flight \in [Boot -> [Turn -> Flight \cup {NoFlight}]]

Init ==
    /\ clock = 0
    /\ alive = Boot
    /\ intent = [t \in Turn |-> "absent"]
    /\ held = [t \in Turn |-> FALSE]
    /\ status = [t \in Turn |-> "absent"]
    /\ verdict = [t \in Turn |-> "none"]
    /\ lease = [t \in Turn |-> NoLease]
    /\ claimed = {}
    /\ interrupt = [t \in Turn |-> "none"]
    /\ delivery = [t \in Turn |-> FALSE]
    /\ work = [t \in Turn |-> FALSE]
    /\ fence = [b \in Boot |-> [t \in Turn |-> 0]]
    /\ flight = [b \in Boot |-> [t \in Turn |-> NoFlight]]
----------------------------------------------------------------------------
Siblings(t) == {s \in Turn : ConvOf[s] = ConvOf[t]}

\* The UNIQUE index of execution_lease on conversation_id admits a new row.
LeaseFree(t) == \A s \in Siblings(t) : lease[s] = NoLease

Expired(row) == row.expires <= clock

\* The tuple every write of an executor asserts first in its transaction.
Current(b, t) ==
    /\ lease[t] # NoLease
    /\ lease[t].owner = b
    /\ fence[b][t] = lease[t].gen

\* identity.json#recoveryJudgment.
Judgment(t) ==
    CASE status[t] = "terminated" /\ lease[t] = NoLease -> "finalize"
      [] status[t] = "terminated" /\ lease[t] # NoLease -> "needs_human"
      [] status[t] = "active" /\ verdict[t] # "none"    -> "needs_human"
      [] status[t] = "active" /\ verdict[t] = "none"    ->
            IF lease[t] # NoLease \/ interrupt[t] # "none" \/ delivery[t]
            THEN "resume" ELSE "finalize"
      [] OTHER -> "absent"

\* Rows written when an intent becomes the running Turn of boot b.
Admit(b, t) ==
    /\ intent' = [intent EXCEPT ![t] = "admitted"]
    /\ status' = [status EXCEPT ![t] = "active"]
    /\ lease'  = [lease EXCEPT ![t] = [owner |-> b, gen |-> 1, expires |-> clock + TTL]]
----------------------------------------------------------------------------
\* A new input.  Its admission savepoint is rolled back when the conversation
\* already has a lease, and the intent stays queued.
Submit(b, t) ==
    /\ b \in alive /\ intent[t] = "absent"
    /\ IF LeaseFree(t)
       THEN Admit(b, t)
       ELSE /\ intent' = [intent EXCEPT ![t] = "queued"]
            /\ UNCHANGED <<status, lease>>
    /\ UNCHANGED <<clock, alive, held, verdict, claimed, interrupt, delivery, work, memory>>

\* Retry, edit-and-run and manual maintenance demand an idle conversation.
SubmitIdle(b, t) ==
    /\ b \in alive /\ intent[t] = "absent"
    /\ \A s \in Siblings(t) :
          lease[s] = NoLease /\ status[s] # "active" /\ intent[s] # "queued"
    /\ Admit(b, t)
    /\ UNCHANGED <<clock, alive, held, verdict, claimed, interrupt, delivery, work, memory>>

\* Admission of a queued intent.  The candidate was ranked by an earlier read;
\* its revision, and so its hold, is asserted again, its rank is not.
AdmitNext(b, t) ==
    /\ b \in alive /\ intent[t] = "queued" /\ ~held[t]
    /\ LeaseFree(t)
    /\ Admit(b, t)
    /\ UNCHANGED <<clock, alive, held, verdict, claimed, interrupt, delivery, work, memory>>

SetHold(t) ==
    /\ alive # {} /\ intent[t] = "queued"
    /\ held' = [held EXCEPT ![t] = ~held[t]]
    /\ UNCHANGED <<clock, alive, intent, status, verdict, lease, claimed,
                   interrupt, delivery, work, memory>>

CancelQueued(t) ==
    /\ alive # {} /\ intent[t] = "queued"
    /\ intent' = [intent EXCEPT ![t] = "cancelled"]
    /\ UNCHANGED <<clock, alive, held, status, verdict, lease, claimed,
                   interrupt, delivery, work, memory>>
----------------------------------------------------------------------------
\* An executor captures its authority: the row must be this boot's, unexpired.
CaptureFence(b, t) ==
    /\ b \in alive /\ status[t] = "active" /\ fence[b][t] = 0
    /\ lease[t] # NoLease /\ lease[t].owner = b /\ ~Expired(lease[t])
    /\ fence' = [fence EXCEPT ![b][t] = lease[t].gen]
    /\ UNCHANGED <<clock, alive, rows, flight>>

\* The drive returns, waits for a human, or is handed off.
DropFence(b, t) ==
    /\ fence[b][t] # 0
    /\ fence' = [fence EXCEPT ![b][t] = 0]
    /\ UNCHANGED <<clock, alive, rows, flight>>

Read(b, t, job) ==
    /\ flight' = [flight EXCEPT ![b][t] =
                    [job |-> job, row |-> lease[t], until |-> clock + TTL]]
    /\ UNCHANGED <<clock, alive, rows, fence>>

\* Renewal, first half: the captured generation must still own an unexpired row.
ReadForRenewal(b, t) ==
    /\ b \in alive /\ flight[b][t] = NoFlight
    /\ Current(b, t) /\ ~Expired(lease[t])
    /\ Read(b, t, "renew")

\* Recovery claim, first half.  A boot that already recovered this Turn and
\* still owns an unexpired lease renews it; otherwise the row may be replaced
\* when it expired, when its host is dead, or when it is the boot's own.
ReadForClaim(b, t) ==
    /\ b \in alive /\ flight[b][t] = NoFlight
    /\ lease[t] # NoLease /\ Judgment(t) = "resume"
    /\ IF lease[t].owner = b /\ ~Expired(lease[t]) /\ <<b, t>> \in claimed
       THEN Read(b, t, "renew")
       ELSE /\ \/ lease[t].owner = b
               \/ Expired(lease[t])
               \/ lease[t].owner \notin alive
            /\ Read(b, t, "claim")

\* Seeded fault: the assertion names owner and generation but not expires_at.
SameOwnerAndGeneration(b, t) ==
    /\ status[t] = "active" /\ lease[t] # NoLease
    /\ lease[t].owner = flight[b][t].row.owner
    /\ lease[t].gen = flight[b][t].row.gen

\* The row read is the row stored: every column of it is asserted.
RowUnchanged(b, t) ==
    /\ status[t] = "active"
    /\ lease[t] = flight[b][t].row

Landed(b, t) == flight' = [flight EXCEPT ![b][t] = NoFlight]

CommitRenewal(b, t) ==
    /\ b \in alive /\ flight[b][t] # NoFlight /\ flight[b][t].job = "renew"
    /\ RowUnchanged(b, t)
    /\ lease' = [lease EXCEPT ![t].expires = flight[b][t].until]
    /\ Landed(b, t)
    /\ UNCHANGED <<clock, alive, intent, held, status, verdict, claimed,
                   interrupt, delivery, work, fence>>

\* What a claim writes when the new row has generation g.
ClaimWith(b, t, g) ==
    /\ b \in alive /\ flight[b][t] # NoFlight /\ flight[b][t].job = "claim"
    /\ RowUnchanged(b, t)
    /\ lease' = [lease EXCEPT ![t] =
                   [owner |-> b, gen |-> g, expires |-> flight[b][t].until]]
    /\ claimed' = claimed \cup {<<b, t>>}
    /\ Landed(b, t)
    /\ UNCHANGED <<clock, alive, intent, held, status, verdict,
                   interrupt, delivery, work, fence>>

\* Seeded faults: the generation is kept, or restarted.
ClaimKeepsGeneration(b, t)    == ClaimWith(b, t, flight[b][t].row.gen)
ClaimRestartsGeneration(b, t) == ClaimWith(b, t, 1)

CommitClaim(b, t) == ClaimWith(b, t, flight[b][t].row.gen + 1)

\* The assertion fails and the command reports that it lost.
LoseRace(b, t) ==
    /\ b \in alive /\ flight[b][t] # NoFlight
    /\ ~RowUnchanged(b, t)
    /\ Landed(b, t)
    /\ UNCHANGED <<clock, alive, rows, fence>>
----------------------------------------------------------------------------
\* The executor creates a ModelRequest or a ToolCall.
StartWork(b, t) ==
    /\ b \in alive /\ Current(b, t) /\ ~work[t]
    /\ work' = [work EXCEPT ![t] = TRUE]
    /\ UNCHANGED <<clock, alive, intent, held, status, verdict, lease, claimed,
                   interrupt, delivery, memory>>

\* The last of them becomes terminal; receipt writers run outside the fence.
FinishWork(t) ==
    /\ alive # {} /\ work[t]
    /\ work' = [work EXCEPT ![t] = FALSE]
    /\ UNCHANGED <<clock, alive, intent, held, status, verdict, lease, claimed,
                   interrupt, delivery, memory>>

\* A runtime delivery reaches the active Turn.
Deliver(t) ==
    /\ alive # {} /\ status[t] = "active" /\ verdict[t] = "none" /\ ~delivery[t]
    /\ delivery' = [delivery EXCEPT ![t] = TRUE]
    /\ UNCHANGED <<clock, alive, intent, held, status, verdict, lease, claimed,
                   interrupt, work, memory>>

\* The executor appends every pending delivery to its context and marks it handled.
Absorb(b, t) ==
    /\ b \in alive /\ Current(b, t) /\ delivery[t]
    /\ delivery' = [delivery EXCEPT ![t] = FALSE]
    /\ UNCHANGED <<clock, alive, intent, held, status, verdict, lease, claimed,
                   interrupt, work, memory>>

\* The first interrupt of a Turn.  Another one while it is open coalesces with
\* it, and one that finds the Turn terminated is recorded and ignored: both
\* only add a receipt.
RequestInterrupt(t) ==
    /\ alive # {} /\ status[t] = "active" /\ interrupt[t] = "none"
    /\ interrupt' = [interrupt EXCEPT ![t] = "pending"]
    /\ UNCHANGED <<clock, alive, intent, held, status, verdict, lease, claimed,
                   delivery, work, memory>>

\* Seeded faults: tool calls and requests are not asserted terminal; the
\* interrupts are fenced only for an interrupted end.
WorkIgnored(t, v) ==
    /\ ~delivery[t]
    /\ (interrupt[t] = "pending") = (v = "interrupted")
InterruptIgnored(t, v) ==
    /\ ~delivery[t] /\ ~work[t]
    /\ v = "interrupted" => interrupt[t] = "pending"

\* What the terminal transaction asserts of the inputs and the work of the Turn:
\* only an interrupted end may leave interrupt requests behind, as consumed.
InputsSettled(t, v) ==
    /\ ~delivery[t]
    /\ (interrupt[t] = "pending") = (v = "interrupted")
    /\ ~work[t]

Terminal(b, t, v) ==
    /\ b \in alive /\ status[t] = "active" /\ Current(b, t)
    /\ InputsSettled(t, v)
    /\ status' = [status EXCEPT ![t] = "terminated"]
    /\ verdict' = [verdict EXCEPT ![t] = v]
    /\ lease' = [lease EXCEPT ![t] = NoLease]
    /\ interrupt' = IF v = "interrupted"
                    THEN [interrupt EXCEPT ![t] = "consumed"] ELSE interrupt
    /\ UNCHANGED <<clock, alive, intent, held, claimed, delivery, work, memory>>

\* The Turn completes at a response boundary in favour of queued guidance,
\* whose state and revisions the same transaction asserts.
HandoffComplete(b, t, i) ==
    /\ i \in Siblings(t) /\ intent[i] = "queued" /\ ~held[i]
    /\ Terminal(b, t, "completed")
----------------------------------------------------------------------------
Tick ==
    /\ clock < MaxClock
    /\ clock' = clock + 1
    /\ UNCHANGED <<alive, rows, memory>>

\* The process of a host ends and its memory with it.
HostExit(b) ==
    /\ b \in alive
    /\ alive' = alive \ {b}
    /\ fence' = [fence EXCEPT ![b] = [t \in Turn |-> 0]]
    /\ flight' = [flight EXCEPT ![b] = [t \in Turn |-> NoFlight]]
    /\ UNCHANGED <<clock, rows>>

Next ==
    \/ Tick
    \/ \E b \in Boot : HostExit(b)
    \/ \E t \in Turn :
          \/ SetHold(t) \/ CancelQueued(t)
          \/ FinishWork(t) \/ Deliver(t) \/ RequestInterrupt(t)
    \/ \E b \in Boot, t \in Turn :
          \/ Submit(b, t) \/ SubmitIdle(b, t) \/ AdmitNext(b, t)
          \/ CaptureFence(b, t) \/ DropFence(b, t)
          \/ ReadForRenewal(b, t) \/ ReadForClaim(b, t)
          \/ CommitRenewal(b, t) \/ CommitClaim(b, t) \/ LoseRace(b, t)
          \/ StartWork(b, t) \/ Absorb(b, t)
          \/ \E v \in Verdict : Terminal(b, t, v)
          \/ \E i \in Turn : HandoffComplete(b, t, i)

Spec == Init /\ [][Next]_vars
----------------------------------------------------------------------------
\* The rows of one Turn agree after every transaction: it runs exactly while it
\* has a lease, it is over exactly when it has a termination, it exists exactly
\* when its intent was admitted, and nothing of it is left open once it is over.
RowsAgree ==
    \A t \in Turn :
       /\ status[t] = "active" <=> lease[t] # NoLease
       /\ status[t] = "terminated" <=> verdict[t] # "none"
       /\ status[t] = "absent" <=> intent[t] # "admitted"
       /\ status[t] # "active" => ~work[t] /\ ~delivery[t] /\ interrupt[t] # "pending"

\* A conversation never runs two Turns, although admission only checks leases.
OneTurnPerConversation ==
    \A s, t \in Turn :
       status[s] = "active" /\ status[t] = "active" /\ ConvOf[s] = ConvOf[t] => s = t

\* However often a Turn changes hands and back, a generation belongs to one
\* boot: two executors never carry the same fence of one Turn.
FencesDistinct ==
    \A t \in Turn, b, c \in Boot :
       fence[b][t] # 0 /\ fence[b][t] = fence[c][t] => b = c

\* An executor that lost its authority never regains it by waiting: a captured
\* generation that is not the stored one stays refused as long as it is carried.
StaleStaysStale ==
    [][\A b \in Boot, t \in Turn :
         fence'[b][t] = fence[b][t] /\ ~Current(b, t) /\ fence[b][t] # 0
            => ~Current(b, t)']_vars

\* A recorded interrupt wins: the Turn that has one is still going to be
\* stopped, or was ended as interrupted, never as completed or failed.
InterruptHonoured ==
    \A t \in Turn : interrupt[t] # "none" =>
       \/ status[t] = "active" /\ interrupt[t] = "pending"
       \/ status[t] = "terminated" /\ verdict[t] = "interrupted"

\* A running Turn is taken from its owner only after its lease ran out or its
\* process died, even when the row was judged long before it is replaced.
OwnerKept ==
    [][\A t \in Turn :
         /\ lease[t] # NoLease /\ lease'[t] # NoLease
         /\ lease'[t].owner # lease[t].owner
         => Expired(lease[t]) \/ lease[t].owner \notin alive]_vars

\* A terminated Turn is final: no late command changes anything durable of it.
TerminatedIsFinal ==
    [][\A t \in Turn : status[t] = "terminated" =>
         /\ status'[t] = "terminated"
         /\ verdict'[t] = verdict[t] /\ lease'[t] = NoLease
         /\ interrupt'[t] = interrupt[t] /\ delivery'[t] = delivery[t]
         /\ work'[t] = work[t]]_vars
----------------------------------------------------------------------------
\* The abstract view of the rows.
PhaseOf(t) ==
    CASE intent[t] = "absent"    -> "new"
      [] intent[t] = "queued"    -> "waiting"
      [] intent[t] = "cancelled" -> "withdrawn"
      [] OTHER -> IF status[t] = "active" THEN "running" ELSE "over"

Promised == INSTANCE ConversationTurns WITH
    Nobody   <- "none",
    phase    <- [t \in Turn |-> PhaseOf(t)],
    executor <- [t \in Turn |-> lease[t].owner],
    tenure   <- [t \in Turn |-> IF lease[t] = NoLease THEN 0 ELSE lease[t].gen],
    stop     <- [t \in Turn |-> interrupt[t] # "none"],
    outcome  <- verdict

\* Every transaction is a step of ConversationTurns or invisible to it.
KeepsPromise == Promised!Spec
============================================================================

-------------------------- MODULE RuntimeDelivery --------------------------
(***************************************************************************)
(* How a result that arrives from outside a Turn - the exit of a           *)
(* background process, the answer of a child agent - reaches a Turn of its *)
(* conversation: routing (automaticRuntimeDelivery.ts), the delivery rows  *)
(* and their injection (answerDelivery.ts), the two outboxes that drive    *)
(* them from any host (processCompletionDelivery.ts), the wake handler,    *)
(* and the final-output fence of the Agent loop.                           *)
(*                                                                         *)
(* A claim of an outbox row is valid until another host fences it; owner,  *)
(* generation and expiry of the row are that one bit.  Delays between      *)
(* attempts are left out.  The sources are ordinary Turns of one active    *)
(* conversation; its Turns run one at a time and each has one executor     *)
(* (TurnControl).                                                          *)
(***************************************************************************)
EXTENDS Naturals, FiniteSets

CONSTANTS
    Host,           \* Extension Hosts
    Turn, NoTurn,   \* Turns of the conversation
    First,          \* the Turn that runs at the start
    Item,           \* RuntimeInboxItems: results to be delivered
    Answer,         \* those that are normal answers of a child agent
    Source,         \* the Turn each of them belongs to
    Continuation,   \* the Turn of the command runtime-delivery:<id>
    MaxFailures,    \* failures of one outbox row before it is a dead letter
    MaxThrows,      \* bound on errors and time-outs of scans
    MaxExits,       \* bound on host exits
    MaxStops        \* bound on Turns that are interrupted

ASSUME ItemAssumption ==
    /\ First \in Turn /\ NoTurn \notin Turn /\ Answer \subseteq Item
    /\ Source \in [Item -> Turn] /\ Continuation \in [Item -> Turn]
    /\ \A d, e \in Item : Continuation[d] = Continuation[e] => d = e
    /\ \A d \in Item : Continuation[d] # First
    /\ MaxFailures \in Nat \ {0}

VARIABLES
    turn,       \* Turn.status and TurnTermination.terminal_status
    fence,      \* Turns with a TurnFinalOutputFence
    stopping,   \* Turns with a pending interrupt_request
    exec,       \* where the Agent loop of the Turn stands
    seen,       \* items in the context of a model request of their Turn
    inbox,      \* items whose RuntimeInboxItem exists
    superseded, \* answers whose AnswerBridge has moved on
    delivery,   \* RuntimeDelivery, first attempt
    link,       \* RuntimeDeliveryInputLink, and its PendingTurnInput
    row,        \* ProcessCompletionDispatch and RuntimeDeliveryWake
    scan,       \* the row a host works on
    late,       \* wake handlers that outlived their time-out
    offer,      \* an admission a host has prepared
    spent       \* errors and exits so far

life == <<turn, fence, stopping, exec, seen>>
rows == <<inbox, superseded, delivery, link, row>>
vars == <<life, rows, scan, late, offer, spent>>

Box        == {"dispatch", "wake"}
Phase      == {"current_turn", "next_turn", "notify_only"}
NoDelivery == [phase |-> "none", target |-> NoTurn, state |-> "none"]
Delivery   == [phase: Phase, target: Turn \cup {NoTurn},
               state: {"pending", "consumed", "failed"}]
NoRow      == [state |-> "none", fails |-> 0, expired |-> FALSE]
Ready      == [NoRow EXCEPT !.state = "pending"]
Idle       == [at |-> "idle"]
NoOffer    == [turn |-> NoTurn, items |-> {}]

TypeOK ==
    /\ turn \in [Turn -> {"absent", "queued", "active", "completed", "stopped", "failed"}]
    /\ fence \subseteq Turn /\ stopping \subseteq Turn
    /\ exec \in [Turn -> {"none", "round", "final", "settling", "crossed", "again",
                         "gone", "fenced", "failing"}]
    /\ seen \subseteq Item /\ inbox \subseteq Item /\ superseded \subseteq Answer
    /\ delivery \in [Item -> Delivery \cup {NoDelivery}]
    /\ link \in [Item -> {"none", "pending", "handled"}]
    /\ row \in [Box -> [Item -> [state: {"none", "pending", "claimed", "done", "dead"},
                                 fails: 0 .. MaxFailures, expired: BOOLEAN]]]
    /\ \A h \in Host :
          \/ scan[h] = Idle
          \/ /\ scan[h].at \in {"read", "create", "wake", "retarget", "act", "call", "done", "retry"}
             /\ scan[h].box \in Box /\ scan[h].item \in Item /\ scan[h].valid \in BOOLEAN
    /\ late \in [Host -> SUBSET (Item \X {"notify", "resume", "continue"})]
    /\ offer \in [Host -> [turn: Turn \cup {NoTurn}, items: SUBSET Item]]
    /\ spent \in [throws: Nat, exits: Nat]

Init ==
    /\ turn = [t \in Turn |-> IF t = First THEN "active" ELSE "absent"]
    /\ fence = {} /\ stopping = {}
    /\ exec = [t \in Turn |-> IF t = First THEN "round" ELSE "none"]
    /\ seen = {} /\ inbox = {} /\ superseded = {}
    /\ delivery = [d \in Item |-> NoDelivery]
    /\ link = [d \in Item |-> "none"]
    /\ row = [b \in Box |-> [d \in Item |-> NoRow]]
    /\ scan = [h \in Host |-> Idle]
    /\ late = [h \in Host |-> {}]
    /\ offer = [h \in Host |-> NoOffer]
    /\ spent = [throws |-> 0, exits |-> 0]
----------------------------------------------------------------------------
\* What the routing decision rests on, and the decision.
Evidence(d) == <<turn[Source[d]], Source[d] \in fence>>

PhaseFor(d) ==
    CASE turn[Source[d]] = "active" ->
            IF Source[d] \in fence THEN "next_turn" ELSE "current_turn"
      [] turn[Source[d]] = "completed" -> "next_turn"
      [] turn[Source[d]] = "stopped" /\ d \in Answer -> "next_turn"
      [] OTHER -> "notify_only"

Routed(d) == [phase |-> PhaseFor(d), state |-> "pending",
              target |-> IF PhaseFor(d) = "current_turn" THEN Source[d] ELSE NoTurn]

\* The decision for a stopped source also asserts that the bridge still has
\* this answer.
AuthorityHolds(d) == turn[Source[d]] = "stopped" => d \notin superseded

\* Pending deliveries to the Turn, and inputs it has and has not handled.
Due(t) == {d \in Item : delivery[d].state = "pending" /\ delivery[d].target = t}
Inputs(t) == {d \in Item : link[d] = "pending" /\ delivery[d].target = t}

Queued   == {t \in Turn : turn[t] = "queued"}
Waiting  == {d \in Item : /\ delivery[d].state = "pending" /\ delivery[d].target = NoTurn
                          /\ delivery[d].phase = "next_turn"}
----------------------------------------------------------------------------
\* A background process exits; a child agent submits its answer.
Arise(d) ==
    /\ turn[Source[d]] \notin {"absent", "queued"} /\ d \notin inbox /\ row["dispatch"][d] = NoRow
    /\ IF d \in Answer
       THEN inbox' = inbox \cup {d} /\ UNCHANGED row
       ELSE row' = [row EXCEPT !["dispatch"][d] = Ready] /\ UNCHANGED inbox
    /\ UNCHANGED <<life, superseded, delivery, link, scan, late, offer, spent>>

\* The child coordinator routes the answer under the same evidence.
RouteAnswer(d) ==
    /\ d \in Answer \cap inbox /\ delivery[d] = NoDelivery
    /\ delivery' = [delivery EXCEPT ![d] = Routed(d)]
    /\ UNCHANGED <<life, inbox, superseded, link, row, scan, late, offer, spent>>

\* The child agent is continued: its bridge is open for the next answer.
Supersede(d) ==
    /\ d \in Answer \ superseded /\ delivery[d] # NoDelivery
    /\ superseded' = superseded \cup {d}
    /\ UNCHANGED <<life, inbox, delivery, link, row, scan, late, offer, spent>>

Interrupt(t) ==
    /\ turn[t] = "active" /\ t \notin stopping
    /\ Cardinality(stopping \cup {s \in Turn : turn[s] = "stopped"}) < MaxStops
    /\ stopping' = stopping \cup {t}
    /\ UNCHANGED <<turn, fence, exec, seen, rows, scan, late, offer, spent>>

\* A user's input.
Submit(t) ==
    /\ turn[t] = "absent" /\ \A d \in Item : t # Continuation[d]
    /\ turn' = [turn EXCEPT ![t] = "queued"]
    /\ UNCHANGED <<fence, stopping, exec, seen, rows, scan, late, offer, spent>>
----------------------------------------------------------------------------
\* injectionSteps.
Inject(d, t) ==
    /\ delivery' = [delivery EXCEPT ![d].state = "consumed", ![d].target = t]
    /\ link' = [link EXCEPT ![d] = "pending"]

Open(t) == turn[t] = "active" /\ t \notin fence

\* Into the Turn as long as it is open, routed again otherwise.
InjectOrRetarget(d) ==
    IF Open(delivery[d].target)
    THEN Inject(d, delivery[d].target)
    ELSE delivery' = [delivery EXCEPT ![d] = Routed(d)] /\ UNCHANGED link

\* advance on a delivery to a Turn, by the Agent loop or a recovery scan.
Advance(d) ==
    /\ delivery[d].state = "pending" /\ delivery[d].phase = "current_turn"
    /\ AuthorityHolds(d)
    /\ InjectOrRetarget(d)
    /\ UNCHANGED <<life, inbox, superseded, row, scan, late, offer, spent>>

\* The Agent loop absorbs before a new request, when a delivery crossed its
\* answer, and on its way to an end: it injects what is due, and appends each
\* input to the context before it marks it handled.
Absorbing(t) ==
    /\ turn[t] = "active"
    /\ \/ exec[t] \in {"round", "crossed", "again", "gone", "failing"}
       \/ t \in stopping /\ exec[t] # "settling"

AbsorbDue(d) == delivery[d].target # NoTurn /\ Absorbing(delivery[d].target) /\ Advance(d)

\* Seeded fault: the fence is tried again with the same answer.
TryAgain(stage) == IF stage = "crossed" THEN "settling" ELSE stage

AskAgain(stage) == IF stage = "crossed" THEN "again" ELSE stage

Handle(d) ==
    /\ link[d] = "pending" /\ Absorbing(delivery[d].target)
    /\ link' = [link EXCEPT ![d] = "handled"]
    /\ exec' = [exec EXCEPT ![delivery[d].target] = AskAgain(@)]
    /\ UNCHANGED <<turn, fence, stopping, seen, inbox, superseded, delivery, row, scan, late, offer, spent>>

\* Nothing to absorb: a request is made of the context, and its answer calls no
\* tools.  A round that does is over when the loop is here again.
Round(t) ==
    /\ exec[t] \in {"round", "again"} /\ t \notin stopping
    /\ Due(t) = {} /\ Inputs(t) = {}
    /\ exec' = [exec EXCEPT ![t] = "final"]
    /\ seen' = seen \cup {d \in Item : link[d] = "handled" /\ delivery[d].target = t}
    /\ UNCHANGED <<turn, fence, stopping, rows, scan, late, offer, spent>>

\* The last look at the interrupt before the fence.
Settle(t) ==
    /\ exec[t] = "final" /\ t \notin stopping
    /\ exec' = [exec EXCEPT ![t] = "settling"]
    /\ UNCHANGED <<turn, fence, stopping, seen, rows, scan, late, offer, spent>>

NothingPending(t) == Due(t) = {} /\ Inputs(t) = {}

\* The answer becomes final before it is shown, unless a delivery came first.
EstablishFence(t) ==
    /\ exec[t] = "settling"
    /\ IF t \in fence \/ NothingPending(t)
       THEN fence' = fence \cup {t} /\ exec' = [exec EXCEPT ![t] = "fenced"]
       ELSE exec' = [exec EXCEPT ![t] = "crossed"] /\ UNCHANGED fence
    /\ UNCHANGED <<turn, stopping, seen, rows, scan, late, offer, spent>>

\* The request fails.
Break(t) ==
    /\ exec[t] = "final"
    /\ exec' = [exec EXCEPT ![t] = "failing"]
    /\ UNCHANGED <<turn, fence, stopping, seen, rows, scan, late, offer, spent>>

\* The delivery that crossed the answer is gone before it is absorbed: an error.
LoseCrossing(t) ==
    /\ exec[t] = "crossed" /\ NothingPending(t)
    /\ exec' = [exec EXCEPT ![t] = "gone"]
    /\ UNCHANGED <<turn, fence, stopping, seen, rows, scan, late, offer, spent>>

\* Where another executor starts: before the first request, or at the last one,
\* whose answer or error it has again.
ResumeFrom(stage) == IF stage \in {"none", "round", "failing"} THEN stage ELSE "final"

\* Seeded fault: ends with inputs it never read.
InputsIgnored(t) == TRUE

\* recordTerminal asserts that no runtime_delivery input is pending.
InputsSettled(t) == Inputs(t) = {}

EndAs(t, verdict) ==
    /\ turn[t] = "active" /\ InputsSettled(t)
    /\ turn' = [turn EXCEPT ![t] = verdict]
    /\ exec' = [exec EXCEPT ![t] = "none"]
    /\ stopping' = stopping \ {t}
    /\ UNCHANGED <<fence, seen, rows, scan, late, offer, spent>>

Complete(t) == exec[t] = "fenced" /\ t \notin stopping /\ EndAs(t, "completed")
HandOff(t)  == exec[t] = "round" /\ t \notin stopping /\ Queued # {} /\ EndAs(t, "completed")
Stop(t)     == t \in stopping /\ exec[t] # "settling" /\ EndAs(t, "stopped")
Fail(t)     == exec[t] \in {"gone", "failing"} /\ t \notin stopping /\ EndAs(t, "failed")
----------------------------------------------------------------------------
\* Admission: the deliveries that wait for a Turn are read, and injected by the
\* transaction that starts it.
Offer(h) ==
    /\ offer[h] = NoOffer
    /\ \E t \in Queued : offer' = [offer EXCEPT ![h] = [turn |-> t, items |-> Waiting]]
    /\ UNCHANGED <<life, rows, scan, late, spent>>

\* Seeded fault: what was read is injected whatever became of it.
StillQueued(o) == turn[o.turn] = "queued"

OfferHolds(o) == turn[o.turn] = "queued" /\ o.items \subseteq Waiting

Admit(h) ==
    /\ offer[h] # NoOffer
    /\ offer' = [offer EXCEPT ![h] = NoOffer]
    /\ LET o == offer[h] IN
       IF OfferHolds(o) /\ \A t \in Turn : turn[t] # "active"
       THEN /\ turn' = [turn EXCEPT ![o.turn] = "active"]
            /\ exec' = [exec EXCEPT ![o.turn] = "round"]
            /\ delivery' = [d \in Item |-> IF d \in o.items
                  THEN [delivery[d] EXCEPT !.state = "consumed", !.target = o.turn]
                  ELSE delivery[d]]
            /\ link' = [d \in Item |-> IF d \in o.items THEN "pending" ELSE link[d]]
       ELSE UNCHANGED <<turn, exec, delivery, link>>
    /\ UNCHANGED <<fence, stopping, seen, inbox, superseded, row, scan, late, spent>>
----------------------------------------------------------------------------
\* Every scan first gives a wake to each delivery that needs one.
NeedsWake(d) == delivery[d].state = "pending" \/ link[d] = "pending"

EnsureWake(d) ==
    /\ NeedsWake(d) /\ row["wake"][d] = NoRow
    /\ row' = [row EXCEPT !["wake"][d] = Ready]
    /\ UNCHANGED <<life, inbox, superseded, delivery, link, scan, late, offer, spent>>

Claim(h, b, d) ==
    /\ scan[h] = Idle /\ row[b][d].state = "pending"
    /\ row' = [row EXCEPT ![b][d].state = "claimed", ![b][d].expired = FALSE]
    /\ scan' = [scan EXCEPT ![h] = [at |-> "read", box |-> b, item |-> d, valid |-> TRUE]]
    /\ UNCHANGED <<life, inbox, superseded, delivery, link, late, offer, spent>>

Expire(b, d) ==
    /\ row[b][d].state = "claimed" /\ ~row[b][d].expired
    /\ row' = [row EXCEPT ![b][d].expired = TRUE]
    /\ UNCHANGED <<life, inbox, superseded, delivery, link, scan, late, offer, spent>>

Fenced(g, b, d) ==
    IF scan[g] # Idle /\ scan[g].box = b /\ scan[g].item = d
    THEN [scan[g] EXCEPT !.valid = FALSE] ELSE scan[g]

\* An expired claim goes back to pending, and its holder has lost it.
Reclaim(h, b, d) ==
    /\ scan[h] = Idle /\ row[b][d].state = "claimed" /\ row[b][d].expired
    /\ row' = [row EXCEPT ![b][d].state = "pending", ![b][d].expired = FALSE]
    /\ scan' = [g \in Host |-> Fenced(g, b, d)]
    /\ UNCHANGED <<life, inbox, superseded, delivery, link, late, offer, spent>>
----------------------------------------------------------------------------
At(h, stage) == scan[h].at = stage
Go(h, stage) == scan' = [scan EXCEPT ![h].at = stage]

\* Seeded fault: the delivery is left pending.
DeadLetterAlone(d) == UNCHANGED delivery

DeadLetter(d) ==
    delivery' = [delivery EXCEPT ![d].state = IF @ = "pending" THEN "failed" ELSE @]

Exhausted(n) == n = MaxFailures

\* failClaim, and deadLetterClaim with its delivery: nothing under a lost claim.
FailClaim(h) ==
    LET b == scan[h].box
        d == scan[h].item
        n == row[b][d].fails + 1
    IN  /\ scan' = [scan EXCEPT ![h] = Idle]
        /\ IF ~scan[h].valid THEN UNCHANGED <<row, delivery>>
           ELSE /\ row' = [row EXCEPT ![b][d] =
                       [state |-> IF Exhausted(n) THEN "dead" ELSE "pending",
                        fails |-> n, expired |-> FALSE]]
                /\ IF b = "wake" /\ Exhausted(n) THEN DeadLetter(d) ELSE UNCHANGED delivery

\* What the routing transactions were decided on, and assert again.
Seen(h, stage, d) ==
    [at |-> stage, box |-> scan[h].box, item |-> d, valid |-> scan[h].valid,
     evidence |-> Evidence(d), delivery |-> delivery[d], to |-> Routed(d)]

\* The scan goes on to the wake of the delivery it read or wrote.
ToWake(h, state) ==
    [at |-> "wake", box |-> "dispatch", item |-> scan[h].item, valid |-> scan[h].valid,
     saw |-> state]

\* Seeded fault: the delivery is asserted, the facts are not.
FactsIgnored(h, d) == delivery[d] = scan[h].delivery

Unchanged(h, d) ==
    /\ delivery[d] = scan[h].delivery
    /\ Evidence(d) = scan[h].evidence /\ AuthorityHolds(d)

\* A claimed dispatch: the inbox item, then a delivery unless there is one.
ReadDispatch(h) ==
    /\ At(h, "read") /\ scan[h].box = "dispatch"
    /\ LET d == scan[h].item IN
       /\ inbox' = inbox \cup {d}
       /\ scan' = [scan EXCEPT ![h] = IF delivery[d] = NoDelivery
                                      THEN Seen(h, "create", d)
                                      ELSE ToWake(h, delivery[d].state)]
    /\ UNCHANGED <<life, superseded, delivery, link, row, late, offer, spent>>

\* createAutomatic: a delivery that another host created meanwhile will do.
Create(h) ==
    /\ At(h, "create")
    /\ LET d == scan[h].item IN
       IF delivery[d] # NoDelivery
       THEN /\ scan' = [scan EXCEPT ![h] = ToWake(h, delivery[d].state)]
            /\ UNCHANGED <<row, delivery>>
       ELSE IF Unchanged(h, d)
       THEN /\ delivery' = [delivery EXCEPT ![d] = scan[h].to]
            /\ scan' = [scan EXCEPT ![h] = ToWake(h, "pending")]
            /\ UNCHANGED row
       ELSE FailClaim(h)
    /\ UNCHANGED <<life, inbox, superseded, link, late, offer, spent>>

\* The wake is inserted against the state the delivery was seen in.
WakeFor(h) ==
    /\ At(h, "wake")
    /\ LET d == scan[h].item IN
       IF row["wake"][d] # NoRow
       THEN Go(h, "done") /\ UNCHANGED <<row, delivery>>
       ELSE IF delivery[d].state = scan[h].saw
       THEN /\ row' = [row EXCEPT !["wake"][d] =
                  IF scan[h].saw = "failed" THEN [Ready EXCEPT !.state = "dead"] ELSE Ready]
            /\ Go(h, "done") /\ UNCHANGED delivery
       ELSE FailClaim(h)
    /\ UNCHANGED <<life, inbox, superseded, link, late, offer, spent>>

\* The wake of a failed delivery is a dead letter.
Bury(h) ==
    /\ row' = IF scan[h].valid THEN [row EXCEPT !["wake"][scan[h].item].state = "dead"] ELSE row
    /\ scan' = [scan EXCEPT ![h] = Idle]

\* A claimed wake: a pending delivery is routed again under the facts of now
\* (reconcilePendingDelivery), and what it is then decides the action.
ReadWake(h) ==
    /\ At(h, "read") /\ scan[h].box = "wake"
    /\ LET d == scan[h].item IN
       CASE delivery[d].state = "failed"  -> Bury(h)
         [] delivery[d].state = "pending" ->
               scan' = [scan EXCEPT ![h] = Seen(h, "retarget", d)] /\ UNCHANGED row
         [] OTHER -> Go(h, "act") /\ UNCHANGED row
    /\ UNCHANGED <<life, inbox, superseded, delivery, link, late, offer, spent>>

\* Seeded fault: the route of the first decision is only confirmed.
RetargetKept(h) ==
    /\ At(h, "retarget")
    /\ IF Unchanged(h, scan[h].item) THEN Go(h, "act") /\ UNCHANGED <<row, delivery>>
                                     ELSE FailClaim(h)
    /\ UNCHANGED <<life, inbox, superseded, link, late, offer, spent>>

Retarget(h) ==
    /\ At(h, "retarget")
    /\ LET d == scan[h].item IN
       IF Unchanged(h, d)
       THEN delivery' = [delivery EXCEPT ![d] = scan[h].to] /\ Go(h, "act") /\ UNCHANGED row
       ELSE FailClaim(h)
    /\ UNCHANGED <<life, inbox, superseded, link, late, offer, spent>>

ActionFor(d) ==
    CASE delivery[d].phase = "notify_only" -> "notify"
      [] delivery[d].phase = "next_turn" /\ delivery[d].target = NoTurn -> "continue"
      [] OTHER -> "resume"

Act(h) ==
    /\ At(h, "act")
    /\ LET d == scan[h].item IN
       IF delivery[d].state = "failed" THEN Bury(h)
       ELSE /\ scan' = [scan EXCEPT ![h] = [at |-> "call", box |-> "wake", item |-> d,
                                            valid |-> @.valid, action |-> ActionFor(d)]]
            /\ UNCHANGED row
    /\ UNCHANGED <<life, inbox, superseded, delivery, link, late, offer, spent>>
----------------------------------------------------------------------------
\* The wake handler: confirm the notification, or queue the one continuation of
\* this delivery.  A resume is only a hint to the scheduler.
Effect(d, action) ==
    /\ delivery' = IF action = "notify" /\ delivery[d].phase = "notify_only"
                      /\ delivery[d].state = "pending"
                   THEN [delivery EXCEPT ![d].state = "consumed"] ELSE delivery
    /\ turn' = IF action = "continue" /\ turn[Continuation[d]] = "absent"
               THEN [turn EXCEPT ![Continuation[d]] = "queued"] ELSE turn

\* Seeded fault: a scheduled resume counts as done.
AcksScheduled(d, action) == TRUE

Acknowledges(d, action) == action = "resume" => link[d] = "handled"

Call(h) ==
    /\ At(h, "call")
    /\ LET d == scan[h].item IN
       /\ Effect(d, scan[h].action)
       /\ scan' = [scan EXCEPT ![h] = [at |-> IF Acknowledges(d, @.action) THEN "done" ELSE "retry",
                                       box |-> "wake", item |-> d, valid |-> @.valid]]
    /\ UNCHANGED <<fence, stopping, exec, seen, inbox, superseded, link, row, late, offer, spent>>

\* The claim ran out before the handler did: it goes on by itself.
TimeOut(h) ==
    /\ At(h, "call") /\ spent.throws < MaxThrows
    /\ late' = [late EXCEPT ![h] = @ \cup {<<scan[h].item, scan[h].action>>}]
    /\ spent' = [spent EXCEPT !.throws = @ + 1]
    /\ FailClaim(h)
    /\ UNCHANGED <<life, inbox, superseded, link, offer>>

LateEffect(h) ==
    /\ \E x \in late[h] :
          /\ Effect(x[1], x[2])
          /\ late' = [late EXCEPT ![h] = @ \ {x}]
    /\ UNCHANGED <<fence, stopping, exec, seen, inbox, superseded, link, row, scan, offer, spent>>

\* The row is finished, or goes back to be tried again.
Finish(h) ==
    /\ scan[h].at \in {"done", "retry"}
    /\ row' = IF scan[h].valid
              THEN [row EXCEPT ![scan[h].box][scan[h].item].state =
                       IF At(h, "done") THEN "done" ELSE "pending"]
              ELSE row
    /\ scan' = [scan EXCEPT ![h] = Idle]
    /\ UNCHANGED <<life, inbox, superseded, delivery, link, late, offer, spent>>

\* Any step of the scan throws.
Throw(h) ==
    /\ scan[h] # Idle /\ spent.throws < MaxThrows
    /\ spent' = [spent EXCEPT !.throws = @ + 1]
    /\ FailClaim(h)
    /\ UNCHANGED <<life, inbox, superseded, link, late, offer>>

\* A host exits and comes back; if it drove the Turn that runs, another executor
\* resumes it.
Exit(h) ==
    /\ spent.exits < MaxExits
    /\ spent' = [spent EXCEPT !.exits = @ + 1]
    /\ scan' = [scan EXCEPT ![h] = Idle]
    /\ late' = [late EXCEPT ![h] = {}]
    /\ offer' = [offer EXCEPT ![h] = NoOffer]
    /\ exec' \in {exec, [t \in Turn |-> ResumeFrom(exec[t])]}
    /\ UNCHANGED <<turn, fence, stopping, seen, rows>>
----------------------------------------------------------------------------
ScanStep(h) ==
    \/ ReadDispatch(h) \/ Create(h) \/ WakeFor(h)
    \/ ReadWake(h) \/ Retarget(h) \/ Act(h) \/ Call(h) \/ Finish(h)

Ends(t) == Complete(t) \/ HandOff(t) \/ Stop(t) \/ Fail(t)

Next ==
    \/ \E h \in Host :
          \/ Offer(h) \/ Admit(h) \/ ScanStep(h)
          \/ TimeOut(h) \/ LateEffect(h) \/ Throw(h) \/ Exit(h)
    \/ \E h \in Host, b \in Box, d \in Item : Claim(h, b, d) \/ Reclaim(h, b, d)
    \/ \E b \in Box, d \in Item : Expire(b, d)
    \/ \E d \in Item :
          \/ Arise(d) \/ RouteAnswer(d) \/ Supersede(d)
          \/ Advance(d) \/ Handle(d) \/ EnsureWake(d)
    \/ \E t \in Turn :
          \/ Interrupt(t) \/ Submit(t)
          \/ Round(t) \/ Settle(t) \/ EstablishFence(t)
          \/ Break(t) \/ LoseCrossing(t) \/ Ends(t)

\* Event loops turn, scans come round to every row, claims expire, executors
\* drive their Turns.  Results, users and failures owe nothing.
Fairness ==
    /\ \A h \in Host : WF_vars(Offer(h)) /\ WF_vars(Admit(h)) /\ WF_vars(ScanStep(h))
    /\ \A b \in Box, d \in Item :
          /\ SF_vars(\E h \in Host : Claim(h, b, d) \/ Reclaim(h, b, d))
          /\ WF_vars(Expire(b, d))
    /\ \A d \in Item :
          /\ WF_vars(RouteAnswer(d)) /\ WF_vars(EnsureWake(d))
          /\ WF_vars(AbsorbDue(d)) /\ WF_vars(Handle(d))
    /\ \A t \in Turn :
          /\ WF_vars(Round(t)) /\ WF_vars(Settle(t)) /\ WF_vars(EstablishFence(t))
          /\ WF_vars(LoseCrossing(t)) /\ WF_vars(Ends(t))

Spec == Init /\ [][Next]_vars /\ Fairness
----------------------------------------------------------------------------
\* Once an answer is final its Turn has nothing to read any more: neither an
\* input nor a delivery that could become one.  A result that arrives while the
\* fence is established is on one side of it or on the other.
FinalIsFinal == \A t \in fence : Inputs(t) = {} /\ Due(t) = {}

\* The answer that became final was asked for with every result the Turn has
\* absorbed: one that crossed an answer makes the loop ask the model again.
FinalReadsAll ==
    \A d \in Item : link[d] = "handled" /\ delivery[d].target \in fence => d \in seen

\* A Turn never ends over a result that was handed to it.
NothingUnread == \A d \in Item : link[d] = "pending" => turn[delivery[d].target] = "active"

\* The rows of inputs and Turns fit together, whichever of them came first.
InputsSound == TypeOK /\ NothingUnread

\* Whoever acknowledged a wake, something carries the result on: it is used up,
\* the continuation that will read it is queued, or a host is about to show it.
Notifying(h, d) ==
    \/ scan[h] # Idle /\ scan[h].box = "wake" /\ scan[h].item = d /\ scan[h].at \in {"act", "call"}
    \/ <<d, "notify">> \in late[h]

AckKept ==
    \A d \in Item : row["wake"][d].state = "done" =>
       \/ delivery[d].state \in {"consumed", "failed"}
       \/ delivery[d].phase = "next_turn" /\ turn[Continuation[d]] = "queued"
       \/ delivery[d].phase = "notify_only" /\ \E h \in Host : Notifying(h, d)

\* No delivery waits for a wake that was given up.
NoDeadWait ==
    \A d \in Item : row["wake"][d].state = "dead" => delivery[d].state # "pending"

\* A consumed or failed delivery is never written again, whichever host decided
\* what about it and when.
Settled(d) == delivery[d].state \in {"consumed", "failed"}

SettledOnce == [][\A d \in Item : Settled(d) => delivery'[d] = delivery[d]]_vars

\* Every result comes to an end: it is read by a Turn, shown to the user, or
\* reported as failed.
Delivered(d) ==
    \/ link[d] = "handled" \/ delivery[d].state = "failed"
    \/ delivery[d].state = "consumed" /\ delivery[d].phase = "notify_only"
    \/ row["dispatch"][d].state = "dead"

EveryResultDelivered ==
    \A d \in Item : d \in inbox \/ row["dispatch"][d] # NoRow ~> Delivered(d)
============================================================================

---------------------------- MODULE TurnHandover ----------------------------
(***************************************************************************)
(* That the Turns of one conversation keep moving while Extension Hosts    *)
(* stall, exit and restart: the scheduling half of the conversation runner *)
(* (ReliableConversationRunner.ts) on every host - drive slots, parked and *)
(* deferred Turns, startup recovery and queue admission - over the durable *)
(* transactions of TurnControl, each of which is one atomic step here.     *)
(*                                                                         *)
(* Generations are not counted: a claim turns every slot that drives the   *)
(* Turn under an older generation into a "stale" one.  What a poll notices *)
(* of a parked Turn is the subject of WaitingWake; here it notices that    *)
(* the Turn is ready.                                                      *)
(***************************************************************************)
EXTENDS Naturals, FiniteSets

CONSTANTS
    Host,       \* Extension Hosts; a restarted one keeps its name, not its memory
    Turn,       \* intents of one conversation, and their Turns
    Dead,       \* owner of a lease whose process is gone
    Nobody,     \* owner of no lease
    MaxExits,   \* bound on host exits
    MaxStalls,  \* bound on leases that expire under a driving host
    MaxAsks,    \* bound on the questions Turns ask a human
    MaxEdits,   \* bound on revisions of queued guidance
    MaxStops    \* bound on interrupts

\* Neither owner stands for a host that runs
ASSUME OwnerAssumption == Dead \notin Host /\ Nobody \notin Host \cup {Dead}

VARIABLES
    state,      \* Turn and TurnIntent: absent, queued, active or over
    owner,      \* the host of the ExecutionLease
    fresh,      \* the lease has not expired
    stop,       \* Turns with a pending interrupt_request
    wait,       \* the human interaction of the Turn: no, asked or answered
    up,         \* hosts whose process runs
    slot,       \* drive slot: none, start, drive or stale
    again,      \* requestedGeneration > the generation being driven
    parked,     \* waitingOwned
    deferred,   \* deferredRecovery
    admission,  \* the admission slot: what it is about to do
    startup,    \* recoverStartup: Turns still to judge, and whether one blocks
    spent       \* exits, stalls, questions, edits and interrupts so far

turns  == <<state, owner, fresh, stop, wait>>
drives == <<slot, again, parked, deferred>>
vars   == <<turns, up, drives, admission, startup, spent>>

Idle   == [at |-> "none"]
Done   == [at |-> "done"]
Failed == [at |-> "failed"]

TypeOK ==
    /\ state \in [Turn -> {"absent", "queued", "active", "over"}]
    /\ owner \in [Turn -> Host \cup {Dead, Nobody}]
    /\ fresh \in [Turn -> BOOLEAN]
    /\ stop \subseteq Turn
    /\ wait \in [Turn -> {"no", "asked", "answered"}]
    /\ up \subseteq Host
    /\ slot \in [Host -> [Turn -> {"none", "start", "drive", "stale"}]]
    /\ again \in [Host -> [Turn -> BOOLEAN]]
    /\ parked \in [Host -> SUBSET Turn]
    /\ deferred \in [Host -> SUBSET Turn]
    /\ admission \in [Host -> {Idle}
                      \cup [at: {"read"}, more: BOOLEAN]
                      \cup [at: {"commit"}, more: BOOLEAN, candidate: Turn, current: BOOLEAN]]
    /\ startup \in [Host -> {Done, Failed}
                      \cup [at: {"turns"}, todo: SUBSET Turn, blocked: BOOLEAN]
                      \cup [at: {"claim"}, todo: SUBSET Turn, blocked: BOOLEAN, turn: Turn]]
    /\ spent \in [exits: Nat, stalls: Nat, asks: Nat, edits: Nat, stops: Nat]

Init ==
    /\ state = [t \in Turn |-> "absent"]
    /\ owner = [t \in Turn |-> Nobody]
    /\ fresh = [t \in Turn |-> FALSE]
    /\ stop = {}
    /\ wait = [t \in Turn |-> "no"]
    /\ up = Host
    /\ slot = [h \in Host |-> [t \in Turn |-> "none"]]
    /\ again = [h \in Host |-> [t \in Turn |-> FALSE]]
    /\ parked = [h \in Host |-> {}]
    /\ deferred = [h \in Host |-> {}]
    /\ admission = [h \in Host |-> Idle]
    /\ startup = [h \in Host |-> Done]
    /\ spent = [exits |-> 0, stalls |-> 0, asks |-> 0, edits |-> 0, stops |-> 0]
----------------------------------------------------------------------------
LeaseFree == \A t \in Turn : owner[t] = Nobody
Queued    == {t \in Turn : state[t] = "queued"}
Active    == {t \in Turn : state[t] = "active"}
Owns(h, t) == owner[t] = h /\ fresh[t]
Claimable(h, t) == state[t] = "active" /\ (owner[t] \in {h, Dead} \/ ~fresh[t])

\* Seeded fault: the claim keeps the generation.
KeepGeneration(t) == slot

\* The slots of t after its lease is claimed, before anything is scheduled.
Fenced(t) ==
    [g \in Host |-> [slot[g] EXCEPT ![t] = IF @ = "drive" THEN "stale" ELSE @]]

TakeLease(h, t) ==
    /\ owner' = [owner EXCEPT ![t] = h]
    /\ fresh' = [fresh EXCEPT ![t] = TRUE]

\* scheduleDrive on the slots ss.
ScheduleDrive(h, t, ss) ==
    /\ slot' = IF ss[h][t] = "none" THEN [ss EXCEPT ![h][t] = "start"] ELSE ss
    /\ again' = [again EXCEPT ![h][t] = ss[h][t] # "none"]

\* scheduleAdmission.
Requested(a) == IF a = Idle THEN [at |-> "read", more |-> FALSE] ELSE [a EXCEPT !.more = TRUE]
ScheduleAdmission(h) == admission' = [admission EXCEPT ![h] = Requested(@)]

Unpark(h, t)  == parked' = [parked EXCEPT ![h] = @ \ {t}]
Defer(h, t)   == deferred' = [deferred EXCEPT ![h] = @ \cup {t}]
Undefer(h, t) == deferred' = [deferred EXCEPT ![h] = @ \ {t}]

\* The slot ends; with rerun, a wake it got meanwhile starts another one.
EndSlot(h, t, rerun) ==
    /\ slot' = [slot EXCEPT ![h][t] = IF rerun /\ again[h][t] THEN "start" ELSE "none"]
    /\ again' = [again EXCEPT ![h][t] = FALSE]
----------------------------------------------------------------------------
\* A user's input through host h: admitted at once, or queued and offered.
Submit(h, t) ==
    /\ h \in up /\ state[t] = "absent"
    /\ IF LeaseFree
       THEN /\ state' = [state EXCEPT ![t] = "active"]
            /\ TakeLease(h, t)
            /\ ScheduleDrive(h, t, slot)
            /\ UNCHANGED admission
       ELSE /\ state' = [state EXCEPT ![t] = "queued"]
            /\ ScheduleAdmission(h)
            /\ UNCHANGED <<owner, fresh, slot, again>>
    /\ UNCHANGED <<stop, wait, up, parked, deferred, startup, spent>>

\* A new revision of queued guidance: admissions that read the old one fail,
\* and the command offers the queue again on its own host.
Edit(h, t) ==
    /\ h \in up /\ state[t] = "queued" /\ spent.edits < MaxEdits
    /\ admission' = [g \in Host |->
          LET a == IF admission[g].at = "commit" /\ admission[g].candidate = t
                   THEN [admission[g] EXCEPT !.current = FALSE] ELSE admission[g]
          IN  IF g = h THEN Requested(a) ELSE a]
    /\ spent' = [spent EXCEPT !.edits = @ + 1]
    /\ UNCHANGED <<turns, up, drives, startup>>

Interrupt(h, t) ==
    /\ h \in up /\ state[t] = "active" /\ t \notin stop /\ spent.stops < MaxStops
    /\ stop' = stop \cup {t}
    /\ spent' = [spent EXCEPT !.stops = @ + 1]
    /\ ScheduleDrive(h, t, slot) /\ Unpark(h, t)
    /\ UNCHANGED <<state, owner, fresh, wait, up, deferred, admission, startup>>

\* The human answers through any host, which resumes the Turn.
Answer(h, t) ==
    /\ h \in up /\ state[t] = "active" /\ wait[t] = "asked"
    /\ wait' = [wait EXCEPT ![t] = "answered"]
    /\ ScheduleDrive(h, t, slot) /\ Unpark(h, t)
    /\ UNCHANGED <<state, owner, fresh, stop, up, deferred, admission, startup, spent>>
----------------------------------------------------------------------------
\* Seeded fault: a lease of this host that ran out is left to its owner.
BeginNoReclaim(h, t) ==
    /\ slot[h][t] = "start"
    /\ slot' = [slot EXCEPT ![h][t] = IF Owns(h, t) THEN "drive" ELSE "none"]
    /\ again' = [again EXCEPT ![h][t] = FALSE]
    /\ Undefer(h, t)
    /\ UNCHANGED <<turns, up, parked, admission, startup, spent>>

\* A slot looks for its lease: drives when it holds one or can claim one,
\* keeps the Turn deferred when another live host has it.
Begin(h, t) ==
    /\ slot[h][t] = "start"
    /\ IF Owns(h, t)
       THEN /\ slot' = [slot EXCEPT ![h][t] = "drive"]
            /\ again' = [again EXCEPT ![h][t] = FALSE]
            /\ Undefer(h, t) /\ UNCHANGED <<owner, fresh>>
       ELSE IF Claimable(h, t)
       THEN /\ TakeLease(h, t)
            /\ slot' = [Fenced(t) EXCEPT ![h][t] = "drive"]
            /\ again' = [again EXCEPT ![h][t] = FALSE]
            /\ Undefer(h, t)
       ELSE /\ EndSlot(h, t, FALSE)
            /\ IF state[t] = "active" THEN Defer(h, t) ELSE Undefer(h, t)
            /\ UNCHANGED <<owner, fresh>>
    /\ UNCHANGED <<state, stop, wait, up, parked, admission, startup, spent>>

\* The drive asks a human; one that finds an answer uses it.
Ask(h, t) ==
    /\ slot[h][t] = "drive" /\ wait[t] = "no" /\ t \notin stop /\ spent.asks < MaxAsks
    /\ wait' = [wait EXCEPT ![t] = "asked"]
    /\ spent' = [spent EXCEPT !.asks = @ + 1]
    /\ UNCHANGED <<state, owner, fresh, stop, up, drives, admission, startup>>

UseAnswer(h, t) ==
    /\ slot[h][t] = "drive" /\ wait[t] = "answered"
    /\ wait' = [wait EXCEPT ![t] = "no"]
    /\ UNCHANGED <<state, owner, fresh, stop, up, drives, admission, startup, spent>>

\* The Turn ends, by itself or because it was interrupted; the queue is offered.
Finish(h, t) ==
    /\ slot[h][t] = "drive" /\ (wait[t] = "no" \/ t \in stop)
    /\ state' = [state EXCEPT ![t] = "over"]
    /\ owner' = [owner EXCEPT ![t] = Nobody]
    /\ fresh' = [fresh EXCEPT ![t] = FALSE]
    /\ stop' = stop \ {t}
    /\ wait' = [wait EXCEPT ![t] = "no"]
    /\ EndSlot(h, t, FALSE)
    /\ ScheduleAdmission(h)
    /\ UNCHANGED <<up, parked, deferred, startup, spent>>

\* The drive returns "waiting".  A wake it got drives again; a Turn whose lease
\* ran out is deferred; any other is parked.
Wait(h, t) ==
    /\ slot[h][t] = "drive" /\ wait[t] = "asked" /\ t \notin stop
    /\ EndSlot(h, t, TRUE)
    /\ IF again[h][t] THEN UNCHANGED <<parked, deferred>>
       ELSE IF Owns(h, t)
       THEN parked' = [parked EXCEPT ![h] = @ \cup {t}] /\ UNCHANGED deferred
       ELSE Defer(h, t) /\ UNCHANGED parked
    /\ UNCHANGED <<turns, up, admission, startup, spent>>

\* Seeded fault: the handed-off Turn is forgotten.
HandOffForgets(h, t) ==
    /\ slot[h][t] = "stale" \/ (slot[h][t] = "drive" /\ ~fresh[t])
    /\ EndSlot(h, t, TRUE)
    /\ Unpark(h, t)
    /\ UNCHANGED <<turns, up, deferred, admission, startup, spent>>

\* Renewal, or a fenced write, finds the lease expired or replaced: the Turn is
\* handed off and stays deferred here.
HandOff(h, t) ==
    /\ slot[h][t] = "stale" \/ (slot[h][t] = "drive" /\ ~fresh[t])
    /\ EndSlot(h, t, TRUE)
    /\ Defer(h, t) /\ Unpark(h, t)
    /\ UNCHANGED <<turns, up, admission, startup, spent>>
----------------------------------------------------------------------------
\* The poll: a parked Turn that became ready is driven again,
WakeParked(h, t) ==
    /\ h \in up /\ t \in parked[h]
    /\ wait[t] = "answered" \/ t \in stop \/ state[t] = "over"
    /\ Unpark(h, t) /\ ScheduleDrive(h, t, slot)
    /\ UNCHANGED <<turns, up, deferred, admission, startup, spent>>

\* and a deferred one is dropped when it is over, or claimed when it can be.
RetryDeferred(h, t) ==
    /\ h \in up /\ t \in deferred[h]
    /\ Claimable(h, t) \/ state[t] # "active"
    /\ Undefer(h, t)
    /\ IF Claimable(h, t)
       THEN TakeLease(h, t) /\ ScheduleDrive(h, t, Fenced(t)) /\ Unpark(h, t)
       ELSE UNCHANGED <<owner, fresh, slot, again, parked>>
    /\ UNCHANGED <<state, stop, wait, up, admission, startup, spent>>
----------------------------------------------------------------------------
ReadAgain(a) == IF a.more THEN [at |-> "read", more |-> FALSE] ELSE Idle

\* admitNextQueued reads the queue and its first candidate, then commits.
AdmitRead(h) ==
    /\ admission[h].at = "read"
    /\ IF Queued = {}
       THEN admission' = [admission EXCEPT ![h] = ReadAgain(@)]
       ELSE \E t \in Queued :
               admission' = [admission EXCEPT ![h] =
                  [at |-> "commit", more |-> @.more, candidate |-> t, current |-> TRUE]]
    /\ UNCHANGED <<turns, up, drives, startup, spent>>

\* The slot ends in next: it admits the candidate, or the assertions on the
\* intent, its revisions or the lease fail.
AdmitWith(h, next) ==
    /\ admission[h].at = "commit"
    /\ LET t == admission[h].candidate IN
       IF admission[h].current /\ state[t] = "queued" /\ LeaseFree
       THEN /\ state' = [state EXCEPT ![t] = "active"]
            /\ TakeLease(h, t)
            /\ ScheduleDrive(h, t, slot)
            /\ Unpark(h, t)
            /\ admission' = [admission EXCEPT ![h] = Idle]
       ELSE /\ admission' = [admission EXCEPT ![h] = next]
            /\ UNCHANGED <<state, owner, fresh, slot, again, parked>>
    /\ UNCHANGED <<stop, wait, up, deferred, startup, spent>>

\* Seeded fault: requests made meanwhile are dropped with the lost race.
AdmitOnce(h) == AdmitWith(h, Idle)

AdmitCommit(h) == AdmitWith(h, ReadAgain(admission[h]))
----------------------------------------------------------------------------
\* The process of h ends, and with it everything it remembers.
Exit(h) ==
    /\ h \in up /\ spent.exits < MaxExits
    /\ up' = up \ {h}
    /\ owner' = [t \in Turn |-> IF owner[t] = h THEN Dead ELSE owner[t]]
    /\ slot' = [slot EXCEPT ![h] = [t \in Turn |-> "none"]]
    /\ again' = [again EXCEPT ![h] = [t \in Turn |-> FALSE]]
    /\ parked' = [parked EXCEPT ![h] = {}]
    /\ deferred' = [deferred EXCEPT ![h] = {}]
    /\ admission' = [admission EXCEPT ![h] = Idle]
    /\ startup' = [startup EXCEPT ![h] = Done]
    /\ spent' = [spent EXCEPT !.exits = @ + 1]
    /\ UNCHANGED <<state, fresh, stop, wait>>

\* recoverStartup, which runs beside live commands: list the active Turns,
Startup(h) ==
    /\ h \notin up
    /\ up' = up \cup {h}
    /\ startup' = [startup EXCEPT ![h] = [at |-> "turns", todo |-> Active, blocked |-> FALSE]]
    /\ UNCHANGED <<turns, drives, admission, spent>>

\* judge each of them (one that ended since is finalized: nothing to do),
Judge(p, t) ==
    IF state[t] = "active"
    THEN [at |-> "claim", todo |-> p.todo \ {t}, blocked |-> p.blocked, turn |-> t]
    ELSE [p EXCEPT !.todo = @ \ {t}]

JudgeTurn(h) ==
    /\ startup[h].at = "turns"
    /\ \E t \in startup[h].todo : startup' = [startup EXCEPT ![h] = Judge(@, t)]
    /\ UNCHANGED <<turns, up, drives, admission, spent>>

\* claim it, or keep it deferred (also when it ended before the claim read it;
\* one that ends between the two reads of the claim makes the pass throw),
Blocking(p) == [at |-> "turns", todo |-> p.todo, blocked |-> TRUE]

ClaimTurn(h) ==
    /\ startup[h].at = "claim"
    /\ LET t == startup[h].turn IN
       \/ /\ Claimable(h, t)
          /\ TakeLease(h, t) /\ ScheduleDrive(h, t, Fenced(t)) /\ Unpark(h, t)
          /\ startup' = [startup EXCEPT ![h] = Blocking(@)]
          /\ UNCHANGED deferred
       \/ /\ ~Claimable(h, t)
          /\ Defer(h, t)
          /\ startup' = [startup EXCEPT ![h] = Blocking(@)]
          /\ UNCHANGED <<owner, fresh, slot, again, parked>>
       \/ /\ state[t] # "active"
          /\ startup' = [startup EXCEPT ![h] = Failed]
          /\ UNCHANGED <<owner, fresh, drives>>
    /\ UNCHANGED <<state, stop, wait, up, admission, spent>>

\* and offer the queue of a conversation that no active Turn blocks.
\* Seeded fault: only Turns are recovered.
RecoverTurnsOnly(h) ==
    /\ startup[h].at = "turns" /\ startup[h].todo = {}
    /\ startup' = [startup EXCEPT ![h] = Done]
    /\ UNCHANGED <<turns, up, drives, admission, spent>>

RecoverQueue(h) ==
    /\ startup[h].at = "turns" /\ startup[h].todo = {}
    /\ startup' = [startup EXCEPT ![h] = Done]
    /\ IF Queued # {} /\ ~startup[h].blocked
       THEN ScheduleAdmission(h) ELSE UNCHANGED admission
    /\ UNCHANGED <<turns, up, drives, spent>>
----------------------------------------------------------------------------
\* The owner has a slot that renews the lease, or is about to.
Driven(t) == \E h \in Host : owner[t] = h /\ slot[h][t] # "none"

\* A lease that nobody renews runs out: of a parked Turn, or of a host that is
\* gone.  A host that drives the Turn can stall for as long.
Lapse(t) ==
    /\ fresh[t] /\ ~Driven(t)
    /\ fresh' = [fresh EXCEPT ![t] = FALSE]
    /\ UNCHANGED <<state, owner, stop, wait, up, drives, admission, startup, spent>>

Stall(t) ==
    /\ fresh[t] /\ Driven(t) /\ spent.stalls < MaxStalls
    /\ fresh' = [fresh EXCEPT ![t] = FALSE]
    /\ spent' = [spent EXCEPT !.stalls = @ + 1]
    /\ UNCHANGED <<state, owner, stop, wait, up, drives, admission, startup>>
----------------------------------------------------------------------------
SlotStep(h, t) ==
    \/ Begin(h, t) \/ UseAnswer(h, t) \/ Finish(h, t) \/ Wait(h, t) \/ HandOff(h, t)

AdmissionStep(h) == AdmitRead(h) \/ AdmitCommit(h)

StartupStep(h) == JudgeTurn(h) \/ ClaimTurn(h) \/ RecoverQueue(h)

Next ==
    \/ \E h \in Host :
          \/ AdmissionStep(h) \/ Exit(h) \/ Startup(h) \/ StartupStep(h)
          \/ \E t \in Turn :
                \/ Submit(h, t) \/ Edit(h, t) \/ Interrupt(h, t) \/ Answer(h, t)
                \/ SlotStep(h, t) \/ Ask(h, t)
                \/ WakeParked(h, t) \/ RetryDeferred(h, t)
    \/ \E t \in Turn : Lapse(t) \/ Stall(t)

\* The event loops of the hosts turn, clocks advance, and a host that exited
\* is started again some day.  Users owe nothing.
Fairness ==
    /\ \A h \in Host :
          /\ WF_vars(AdmissionStep(h)) /\ WF_vars(Startup(h)) /\ WF_vars(StartupStep(h))
          /\ \A t \in Turn :
                /\ WF_vars(SlotStep(h, t))
                /\ WF_vars(WakeParked(h, t)) /\ WF_vars(RetryDeferred(h, t))
    /\ \A t \in Turn : WF_vars(Lapse(t))

Spec == Init /\ [][Next]_vars /\ Fairness
----------------------------------------------------------------------------
\* A running host that owns the lease of an active Turn remembers the Turn: it
\* has a slot for it, or parked or deferred it.  Nobody else would look after it
\* as long as that lease is fresh.
LiveOwnerTracks ==
    \A h \in up, t \in Active : owner[t] = h =>
       slot[h][t] # "none" \/ t \in parked[h] \cup deferred[h]

\* At most one slot in all hosts drives a Turn under its current generation.
OneDriver ==
    \A t \in Turn, g, h \in Host :
       slot[g][t] = "drive" /\ slot[h][t] = "drive" => g = h

\* The slots of all hosts fit together, and with the leases, through stalls and exits.
DrivesSound == TypeOK /\ OneDriver

\* Host h is going to offer the queue: it is still to start, reads the queue, commits
\* with a request behind it or a candidate that is still good, or is past the Turns of
\* a recovery that nothing blocked.  A host whose recovery failed is not.
Offers(h) ==
    \/ h \notin up
    \/ admission[h].at = "read"
    \/ admission[h].at = "commit" /\ admission[h].more
    \/ /\ admission[h].at = "commit" /\ admission[h].current
       /\ state[admission[h].candidate] = "queued"
    \/ startup[h].at = "turns" /\ startup[h].todo = {} /\ ~startup[h].blocked

\* Queued intents of an idle conversation are on their way to be offered: some host
\* is going to, however often edits, exits and lost races change its plans.
QueueWatched == Queued # {} /\ LeaseFree => \E h \in Host : Offers(h)

\* An active Turn ends or waits for an answer nobody has given, unless it was
\* interrupted: an interrupted Turn ends and an answer is used, whichever host was
\* asked, whichever owns the Turn, and whether or not the owner is still there.
TurnsProgress ==
    \A t \in Turn :
       state[t] = "active" ~> state[t] = "over" \/ (wait[t] = "asked" /\ t \notin stop)

\* A queued intent is admitted, unless the Turn before it waits for a human.
QueuedRuns ==
    \A t \in Turn :
       state[t] = "queued" ~> state[t] # "queued" \/ \E s \in Turn : wait[s] = "asked"
============================================================================

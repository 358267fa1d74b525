----------------------------- MODULE WaitingWake -----------------------------
(***************************************************************************)
(* How the conversation runner of one Extension Host keeps a waiting Turn  *)
(* from sleeping through the fact it waits for (ReliableConversationRunner *)
(* .ts).  A Turn whose drive returned "waiting" is observed once more and  *)
(* then parked with a fingerprint of its facts and with the database's     *)
(* external data version; a poll re-drives parked Turns whose fingerprint  *)
(* changed.  Every await between two of these reads is an interleaving     *)
(* point, so each is an action of its own.                                 *)
(*                                                                         *)
(* Facts of a Turn are counted, not listed: facts[t] is the number of      *)
(* commits that changed its fingerprint.  Some of them make the Turn ready *)
(* (a pending input, the awaited ToolCall became terminal); others only    *)
(* change it (an accepted execution approval puts the call back to         *)
(* "pending").  The host holds the lease of every Turn throughout: losing  *)
(* it is the subject of TurnHandover.                                      *)
(***************************************************************************)
EXTENDS Naturals

CONSTANTS
    Turn,           \* Turns of this conversation runner
    Bounds          \* the bounds of the behaviours that are looked at

VARIABLES
    facts,      \* commits that changed the fingerprint of the Turn
    ready,      \* the last of them that makes the Turn ready
    seen,       \* how many the last drive has acted upon
    over,       \* Turns that ended
    version,    \* PRAGMA data_version of the writer: commits of other hosts
    localWake,  \* localWakeRequested
    nudge,      \* Turns whose resume is still to be called
    slot,       \* where runDriveSlot of the Turn stands
    again,      \* requestedGeneration > the generation being driven
    view,       \* what the slot's last observation read
    parked,     \* waitingOwned
    armed,      \* externalWakeTimer is set
    poll,       \* the poll in flight
    failures,   \* polls and slots that failed so far
    bound       \* what may happen: which Turns this host drives, how many commits
                \* change each of them, commits of other hosts, polls that fail,
                \* slots that throw, and whether the explicit resume after a local
                \* answer can be lost

durable == <<facts, ready, over, version>>
runner  == <<slot, again, view, parked>>
vars    == <<durable, seen, localWake, nudge, runner, armed, poll, failures, bound>>

BoundOf == [turns: SUBSET Turn, facts: [Turn -> Nat], version: Nat, polls: Nat,
            slots: Nat, lostResume: BOOLEAN]
ASSUME BoundsAssumption == Bounds \subseteq BoundOf

Awake  == [fp |-> "none"]
Parked == [fp: Nat, ver: Nat]
Idle   == [at |-> "idle"]
View   == [fp: Nat, ver: Nat, ready: BOOLEAN]
NoView == [fp |-> 0, ver |-> 0, ready |-> FALSE]
Stage  == {"none", "drive", "returned", "version", "facts", "settle"}

TypeOK ==
    /\ facts \in [Turn -> Nat] /\ ready \in [Turn -> Nat]
    /\ seen \in [Turn -> Nat]
    /\ over \subseteq Turn /\ nudge \subseteq Turn
    /\ version \in Nat
    /\ localWake \in BOOLEAN /\ armed \in BOOLEAN
    /\ slot \in [Turn -> Stage]
    /\ again \in [Turn -> BOOLEAN]
    /\ view \in [Turn -> View]
    /\ parked \in [Turn -> Parked \cup {Awake}]
    /\ \/ poll = Idle
       \/ poll.at \in {"cancel", "version", "visit", "facts", "compare"}
    /\ failures \in [poll: Nat, slot: Nat]
    /\ bound \in Bounds

Init ==
    /\ facts = [t \in Turn |-> 0] /\ ready = [t \in Turn |-> 0]
    /\ seen = [t \in Turn |-> 0]
    /\ over = {} /\ nudge = {}
    /\ version = 0
    /\ localWake = FALSE
    /\ bound \in Bounds
    /\ slot = [t \in Turn |-> IF t \in bound.turns THEN "drive" ELSE "none"]
    /\ again = [t \in Turn |-> FALSE]
    /\ view = [t \in Turn |-> NoView]
    /\ parked = [t \in Turn |-> Awake]
    /\ armed = TRUE
    /\ poll = Idle
    /\ failures = [poll |-> 0, slot |-> 0]

IsReady(t) == ready[t] > seen[t] \/ t \in over

Waiting == {t \in Turn : parked[t] # Awake}
----------------------------------------------------------------------------
\* Commits.  A fact of a running Turn, committed here or by another host; a
\* local one sets the flag and is followed by an explicit resume.
CommitHere(t) ==
    /\ t \notin over /\ facts[t] < bound.facts[t]
    /\ facts' = [facts EXCEPT ![t] = @ + 1]
    /\ \/ ready' = [ready EXCEPT ![t] = facts[t] + 1]
       \/ UNCHANGED ready
    /\ localWake' = TRUE
    /\ armed' = (armed \/ Waiting # {} \/ \E s \in Turn : slot[s] # "none")
    /\ nudge' = nudge \cup {t}
    /\ UNCHANGED <<seen, over, version, runner, poll, failures, bound>>

CommitElsewhere(t) ==
    /\ t \notin over /\ facts[t] < bound.facts[t] /\ version < bound.version
    /\ facts' = [facts EXCEPT ![t] = @ + 1]
    /\ \/ ready' = [ready EXCEPT ![t] = facts[t] + 1]
       \/ UNCHANGED ready
    /\ version' = version + 1
    /\ UNCHANGED <<seen, over, localWake, nudge, runner, armed, poll, failures, bound>>

\* Some other conversation of another host: only the version moves.
UnrelatedCommit ==
    /\ version < bound.version
    /\ version' = version + 1
    /\ UNCHANGED <<facts, ready, seen, over, localWake, nudge, runner, armed, poll,
                   failures, bound>>
----------------------------------------------------------------------------
\* scheduleDrive: the Turn leaves waitingOwned; a slot in progress is asked to
\* go round once more, otherwise a new one starts.
ScheduleDrive(t) ==
    /\ parked' = [parked EXCEPT ![t] = Awake]
    /\ IF slot[t] = "none"
       THEN /\ slot' = [slot EXCEPT ![t] = "drive"]
            /\ again' = [again EXCEPT ![t] = FALSE]
       ELSE /\ again' = [again EXCEPT ![t] = TRUE]
            /\ UNCHANGED slot

Resume(t) ==
    /\ t \in nudge
    /\ nudge' = nudge \ {t}
    /\ ScheduleDrive(t)
    /\ armed' = TRUE
    /\ UNCHANGED <<durable, seen, localWake, view, poll, failures, bound>>

ResumeFails(t) ==
    /\ bound.lostResume /\ t \in nudge
    /\ nudge' = nudge \ {t}
    /\ UNCHANGED <<durable, seen, localWake, runner, armed, poll, failures, bound>>
----------------------------------------------------------------------------
\* The Agent loop acts upon every fact it can see and then ends the Turn or
\* returns "waiting"; its own commits may set the local flag.
Drive(t) ==
    /\ slot[t] = "drive"
    /\ seen' = [seen EXCEPT ![t] = facts[t]]
    /\ localWake' \in {localWake, TRUE}
    /\ \/ /\ t \notin over
          /\ slot' = [slot EXCEPT ![t] = "returned"]
          /\ UNCHANGED over
       \/ /\ over' = over \cup {t}
          /\ slot' = [slot EXCEPT ![t] = "none"]
    /\ UNCHANGED <<facts, ready, version, nudge, again, view, parked, armed, poll,
                   failures, bound>>

\* A wake that arrived during the drive is consumed by another round.
Returned(t) ==
    /\ slot[t] = "returned"
    /\ slot' = [slot EXCEPT ![t] = IF again[t] THEN "drive" ELSE "version"]
    /\ again' = [again EXCEPT ![t] = FALSE]
    /\ UNCHANGED <<durable, seen, localWake, nudge, view, parked, armed, poll, failures, bound>>

\* observeWaitingWake: data version, then the facts, then the version again.
\* The older version is the one that is kept.
ObserveVersion(t) ==
    /\ slot[t] = "version"
    /\ slot' = [slot EXCEPT ![t] = "facts"]
    /\ view' = [view EXCEPT ![t].ver = version]
    /\ UNCHANGED <<durable, seen, localWake, nudge, again, parked, armed, poll, failures, bound>>

ObserveFacts(t) ==
    /\ slot[t] = "facts"
    /\ slot' = [slot EXCEPT ![t] = "settle"]
    /\ view' = [view EXCEPT ![t].fp = facts[t], ![t].ready = IsReady(t)]
    /\ UNCHANGED <<durable, seen, localWake, nudge, again, parked, armed, poll, failures, bound>>

\* The slot ends: driven again when it must, otherwise parked with entry w.
SettleWith(t, rerun, w) ==
    /\ slot[t] = "settle"
    /\ again' = [again EXCEPT ![t] = FALSE]
    /\ view' = [view EXCEPT ![t] = NoView]
    /\ IF rerun
       THEN /\ slot' = [slot EXCEPT ![t] = "drive"]
            /\ UNCHANGED <<parked, armed>>
       ELSE /\ slot' = [slot EXCEPT ![t] = "none"]
            /\ parked' = [parked EXCEPT ![t] = w]
            /\ armed' = TRUE
    /\ UNCHANGED <<durable, seen, localWake, nudge, poll, failures, bound>>

Observed(t) == [fp |-> view[t].fp, ver |-> view[t].ver]

\* Seeded fault: the version after the observation is published.
SettleWithNewer(t) ==
    SettleWith(t, view[t].ready \/ again[t], [fp |-> view[t].fp, ver |-> version])

\* Ready, or asked for in the meantime.
Settle(t) == SettleWith(t, view[t].ready \/ again[t], Observed(t))

\* A slot that throws is dropped; only a wake it already got survives it.
SlotThrows(t) ==
    /\ slot[t] # "none" /\ failures.slot < bound.slots
    /\ failures' = [failures EXCEPT !.slot = @ + 1]
    /\ slot' = [slot EXCEPT ![t] = IF again[t] THEN "drive" ELSE "none"]
    /\ again' = [again EXCEPT ![t] = FALSE]
    /\ view' = [view EXCEPT ![t] = NoView]
    /\ UNCHANGED <<durable, seen, localWake, nudge, parked, armed, poll, bound>>
----------------------------------------------------------------------------
Busy == \E t \in Turn : slot[t] # "none"

\* Seeded fault: the next poll waits for the next commit or drive.
PollEndsUnarmed == poll' = Idle /\ UNCHANGED armed

\* The end of a poll arms the timer again while there is anything to watch.
PollEnds ==
    /\ poll' = Idle
    /\ armed' = (armed \/ Busy \/ Waiting # {})

\* The timer fires; a poll still in flight swallows the tick.
TimerFires ==
    /\ armed /\ armed' = FALSE
    /\ IF poll # Idle \/ ~(Busy \/ Waiting # {})
       THEN UNCHANGED poll
       ELSE poll' = [at |-> "cancel"]
    /\ UNCHANGED <<durable, seen, localWake, nudge, runner, failures, bound>>

\* After the cancellations of driving Turns were sent: the local flag is taken
\* only when something is parked.
PollTakesFlag ==
    /\ poll.at = "cancel"
    /\ IF Waiting = {}
       THEN PollEnds /\ UNCHANGED localWake
       ELSE /\ poll' = [at |-> "version", local |-> localWake]
            /\ localWake' = FALSE
            /\ UNCHANGED armed
    /\ UNCHANGED <<durable, seen, nudge, runner, failures, bound>>

\* The parked Turns worth a look, as they are parked now.
PollReadsVersion ==
    /\ poll.at = "version"
    /\ poll' = [at |-> "visit",
                todo |-> {<<t, parked[t]>> : t \in
                             {s \in Waiting : poll.local \/ parked[s].ver # version}}]
    /\ UNCHANGED <<durable, seen, localWake, nudge, runner, armed, failures, bound>>

PollVisits ==
    /\ poll.at = "visit"
    /\ IF poll.todo = {}
       THEN PollEnds
       ELSE /\ \E x \in poll.todo :
                  poll' = [at |-> "facts", todo |-> poll.todo \ {x},
                           turn |-> x[1], was |-> x[2], ver |-> version]
            /\ UNCHANGED armed
    /\ UNCHANGED <<durable, seen, localWake, nudge, runner, failures, bound>>

PollReadsFacts ==
    /\ poll.at = "facts"
    /\ poll' = [at |-> "compare", todo |-> poll.todo, turn |-> poll.turn,
                was |-> poll.was, ver |-> poll.ver, fp |-> facts[poll.turn]]
    /\ UNCHANGED <<durable, seen, localWake, nudge, runner, armed, failures, bound>>

\* An unchanged fingerprint moves the parked entry, if it is still the one that
\* was read, on to version v; a changed one drives the Turn.
CompareWith(v) ==
    /\ poll.at = "compare"
    /\ poll' = [at |-> "visit", todo |-> poll.todo]
    /\ IF poll.fp # poll.was.fp
       THEN ScheduleDrive(poll.turn) /\ armed' = TRUE
       ELSE /\ parked' = IF parked[poll.turn] = poll.was
                         THEN [parked EXCEPT ![poll.turn].ver = v] ELSE parked
            /\ UNCHANGED <<slot, again, armed>>
    /\ UNCHANGED <<durable, seen, localWake, nudge, view, failures, bound>>

\* Seeded fault: acknowledges commits made after the facts were read.
CompareAcknowledgesAll == CompareWith(version)

PollCompares == CompareWith(poll.ver)

\* A read of the poll is rejected: reported, and the poll is over.
PollFails ==
    /\ poll # Idle /\ failures.poll < bound.polls
    /\ failures' = [failures EXCEPT !.poll = @ + 1]
    /\ PollEnds
    /\ UNCHANGED <<durable, seen, localWake, nudge, runner, bound>>
----------------------------------------------------------------------------
SlotStep(t) ==
    \/ Drive(t) \/ Returned(t) \/ ObserveVersion(t) \/ ObserveFacts(t) \/ Settle(t)

PollStep ==
    \/ PollTakesFlag \/ PollReadsVersion \/ PollVisits \/ PollReadsFacts \/ PollCompares

Next ==
    \/ UnrelatedCommit \/ TimerFires \/ PollStep \/ PollFails
    \/ \E t \in Turn :
          \/ CommitHere(t) \/ CommitElsewhere(t)
          \/ Resume(t) \/ ResumeFails(t)
          \/ SlotStep(t) \/ SlotThrows(t)

\* What the event loop guarantees: a drive returns, reads are answered, timers
\* fire and the resume call is made (it may fail).
Fairness ==
    /\ WF_vars(TimerFires) /\ WF_vars(PollStep)
    /\ \A t \in Turn :
          WF_vars(SlotStep(t)) /\ WF_vars(Resume(t) \/ ResumeFails(t))

Spec == Init /\ [][Next]_vars /\ Fairness
----------------------------------------------------------------------------
\* A parked Turn whose facts changed since its fingerprint is still going to be
\* looked at: its version is old, the flag is up, its resume is outstanding, or
\* the poll in flight has it on its list.
WakeKept ==
    \A t \in Waiting : facts[t] # parked[t].fp =>
       \/ parked[t].ver # version
       \/ localWake \/ t \in nudge
       \/ poll.at = "version" /\ poll.local
       \/ poll.at \in {"visit", "facts", "compare"} /\ \E x \in poll.todo : x[1] = t
       \/ poll.at = "facts" /\ poll.turn = t
       \/ poll.at = "compare" /\ poll.turn = t /\ poll.fp # poll.was.fp

\* A Turn is never parked and driven at once, so no poll starts a second drive
\* of a Turn whose slot is running.
ParkedOrDriven == \A t \in Waiting : slot[t] = "none"

\* Something watches as long as there is something to watch: the timer is set
\* or a poll that will set it again is in flight.
Watched == Busy \/ Waiting # {} => armed \/ poll # Idle

\* What the runner holds in memory fits together, whoever throws or fails.
RunnerSound == TypeOK /\ ParkedOrDriven /\ Watched

\* A fact that makes a waiting Turn ready is acted upon, whoever committed it
\* and wherever the drive, the observation and the poll stood, unless a slot threw.
ReadyTurnsDriven ==
    \A t \in Turn : ready[t] > seen[t] ~> ready[t] <= seen[t] \/ failures.slot > 0
============================================================================

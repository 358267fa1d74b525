# A TLA+ verification project for the reliable kernel of Limcode Test

Limcode Test is a VS Code extension in which agents hold conversations: they ask
language models, run tools, edit files, start processes and start further
agents.  Several windows - several *Extension Hosts* - may work on one data
root at once, and each of them may be closed, reloaded or killed at any moment.
The *reliable kernel* (`src/backend/reliableKernel/`) keeps every fact of a
conversation in one SQLite database with one writer, so that a Turn (the work
on one user input) survives all of that.  This directory holds TLA+ models of
that kernel, the TLC configurations that check them, and the theorems about
them that TLAPS proves.

Contents:

1. [The system](#1-the-system): its components, their state, their operations
2. [What is modelled](#2-what-is-modelled): the modules, and how they relate to the code
3. [The runs](#3-the-runs): what each shows, its bounds, and why they are enough
4. [Fairness](#4-fairness)
5. [What is proved](#5-what-is-proved)
6. [Where the code and its documents disagree](#6-where-the-code-and-its-documents-disagree)
7. [What is not modelled](#7-what-is-not-modelled)
8. [The plan](#8-the-plan)

---------------------------------------------------------------------------

## 1. The system

Paths below are relative to `src/backend/`; `rk/` stands for `reliableKernel/`
and `app/` for `application/reliableKernel/`.

### How the parts interact

All durable state is rows of SQLite tables.  The Extension Host's main thread
sends reads and *transactions* to a database worker; a transaction is a list of
steps, some of which are assertions, and it commits entirely or not at all.
There is exactly one writer at a time (`BEGIN IMMEDIATE`), but any number of
hosts take turns at being it, and everything a command knows was read before
its transaction began.  The kernel's answer is the same everywhere: *read, decide,
assert in the transaction what the decision rested on, and treat a failed
assertion as a lost race.*  The models therefore make one transaction one action,
and split a command where it carries a decision from an earlier read into a later
transaction that does not assert all of it again.

Hosts do not talk to each other.  A host learns of another host's commits by
polling SQLite's `data_version`, and of another host's death by probing its
process and by the expiry of its leases.

### Components

| Component | Durable or volatile state | Operations | What is hard |
|---|---|---|---|
| **Turn control plane** `rk/turnControlPlane.ts`, `turnRecovery.ts`, `executionLeaseFence.ts` | TurnIntent, Turn, TurnTermination, ExecutionLease, interrupt requests, pending inputs, command receipts | submit, admit, hold, cancel, renew, claim, interrupt, terminate | claims decided long before they commit; two hosts admitting at once; a terminal commit racing interrupts and inputs; executors that lost their lease and do not know |
| **Conversation runner** `app/ReliableConversationRunner.ts`, `ExternalDataVersionWatcher.ts` | in memory: drive slots, waiting Turns, deferred recoveries, admission slots | startup recovery, drive, observe, park, poll, re-drive, offer the queue | a wake between a read and the moment a Turn is parked; Turns nobody remembers; exits at any point |
| **Runtime delivery** `rk/answerDelivery.ts`, `automaticRuntimeDelivery.ts`, `processCompletionDelivery.ts`, `phaseFRecovery.ts` | RuntimeInboxItem, RuntimeDelivery, input links, two outboxes with claims, TurnFinalOutputFence | create, route, advance, retarget, wake, acknowledge, retry, dead-letter | a result that arrives while an answer becomes final; claims that pass to another host while their old holder still works; handlers that outlive their time-out |
| **Agent loop** `rk/agentLoop.ts` | none of its own: it reads where a Turn stands from the rows | drive, ask the model, run tools, absorb inputs, end the Turn | resuming after a crash at each await; inputs that cross the last answer |
| **Model requests** `rk/modelProviderControlPlane.ts`, `llmCapabilityProviderAdapter.ts` | ModelRequest, Operation, Attempt, stream statistics, checkpoints and fences | create, dispatch, stream, retry, cancel, terminalize | events of attempts that timed out; retries racing heartbeats; take-over of a request |
| **Database worker** `rk/databaseWorker.ts`, `runtimeDatabase.ts`, `repositories.ts` | the database, the commit sequence | read, transaction, aggregate checks | transition rules checked for whole aggregates; busy and closed connections |
| **Guidance queue** (in `rk/turnControlPlane.ts`) | revisions of queued intents | revise, reorder, hold, cancel, edit and run | reorder racing admission |
| **Effect control plane** `rk/effectControlPlane.ts`, `phaseDRecovery.ts` | EffectIntent, Attempt, EffectReceipt | prepare, claim, observe, reconcile, cancel | effects of unknown outcome: neither repeat nor forget |
| **Tools and interactions** `rk/toolDispatcher.ts`, `toolInteractions.ts` | ToolCall, InteractionRequest and Response, approvals | dispatch, ask, answer, approve, abort | first answer wins; abort racing registration |
| **File effects** `rk/fileEffects.ts` | proposals, member receipts, the file system | propose, decide, apply | a crash between write and receipt; edits in between |
| **Process effects** `rk/processEffects.ts`, `processWrapper.ts` | process rows, a spool directory written by a wrapper process | start, poll, stop, recover | a start of which no evidence remains |
| **MCP** `rk/mcpEffects.ts`, `application/mcpRuntimeManager.ts` | connections, generations of a refresh | call, refresh, close | overlapping refreshes |
| **Child executions** `rk/childExecution.ts`, `childAgentCoordinator.ts` | the tree of executions, parent links, answer bridges | spawn, admit, cancel, submit an answer | cancellation racing dispatch, from two sides |
| **Context** `rk/contextSequence.ts`, `contextCompression*.ts` | an immutable DAG and a head per conversation | append, replace, compress | two appends, compression of a sequence that moves |
| **Fork, deletion, projects** `rk/conversationFork*.ts`, `conversationDeletion.ts` | copies of immutable rows | fork, delete | large single transactions |
| **Client feed** `rk/clientFeed.ts`, `webviewFeedBridge.ts`; `webview/` stores | per client: queue, message in flight, snapshot state | connect, enqueue, acknowledge, snapshot | a slow client, a reconnect during a refresh |
| **Content store** `rk/contentAddressedStore.ts`, `attachmentIngest.ts` | files named by digest | publish, verify, ingest | publish before commit, crash between |
| **Data root** `rk/rootAuthority.ts`, `physicalCutover.ts`, `runtimeEpochMigration.ts` | pointer files, journals, epoch rows | activate, cut over, migrate | a crash after each step |
| **Configuration** `rk/vscodeConfiguration*.ts` | settings files and revisions | read, mutate | concurrent windows |
| **ECS** `ecs/`, `world/` | the in-memory world of the interface | tick, waves of systems, command buffers | order of systems and their writes |
| **Capabilities** `capabilities/` | provider sessions, storage locks | request, reconnect, lock | one socket used by successive requests; stale locks |
| **Router, facade, diagnostics, webview, scripts** | little or none | wiring, presentation, builds | - |

`PROJECT.json` lists the same components with their status, and under `hazards`
each place of the code where something of this kind can go wrong, with the
properties that would notice.

### What makes them correct

- *Turn control plane.*  A conversation runs one Turn at a time; a Turn is
  executed under one current fence; nobody is robbed of a Turn he still owns; a
  Turn that was asked to stop is never reported completed; a Turn that is over stays
  as it is.
- *Runner.*  Every active Turn is remembered by somebody who will act on it.  A
  waiting Turn is driven when what it waits for has happened.  Interrupts, answers
  and queued inputs survive exits.
- *Runtime delivery.*  Every result is read by exactly one Turn, shown, or
  reported as failed; an answer that became final was given with all results its
  Turn has absorbed; nothing waits for a wake that was given up.
- *Model requests.*  A request ends once, by the attempt it is at; an answer that reached
  the rows is not lost to its Turn; the rows of a request always tell one story.
- *Effects.*  An external effect goes out at most once; no success and no cancellation is
  reported that was none, an outcome nobody knows is called unknown, and a success is called a failure only
  when its answer cannot be stored.
- *Files.*  Nothing is written without approval, twice, or past the first failure; no
  report claims what the files do not prove; what a user saved before is not overwritten.
- *Feed.*  A page shows a stage of the database that only moves forward, and the whole
  of it when commits cease.
- *Data root* (planned).  After a crash at any point exactly one root is valid.

---------------------------------------------------------------------------

## 2. What is modelled

| Module | Models | Role |
|---|---|---|
| `ConversationTurns` | what the runtime promises of its Turns | abstract specification |
| `TurnControl` | the durable life of Turns on several hosts | core; implements `ConversationTurns` |
| `TurnControlProofs` | - | theorems about `TurnControl`, its refinement included |
| `WaitingWake` | how one runner keeps a waiting Turn from missing its wake | detailed, one host |
| `WaitingWakeProofs` | - | theorems about `WaitingWake` |
| `TurnHandover` | how Turns and queued intents move between hosts that stall, exit and restart | composes the transactions of `TurnControl` with the runner |
| `TurnHandoverProofs` | - | theorems about `TurnHandover` |
| `RuntimeDelivery` | results from outside a Turn, from their row to the Turn that reads them | composes outboxes, routing, wake handler and agent loop |
| `RuntimeDeliveryProofs` | - | theorems about `RuntimeDelivery` |
| `ModelAnswer` | what a model request promises to its Turn | abstract specification |
| `ModelStream` | one model request: attempts, stream, retries, late events, take-over | implements `ModelAnswer` |
| `ModelStreamProofs` | - | theorems about `ModelStream` |
| `EffectControl` | the tool calls of one assistant message and their effects | composes effect rows, dispatcher, MCP call, startup scan, convergence and drive |
| `EffectControlProofs` | - | theorems about `EffectControl` |
| `FileEffects` | one change set of the file tools, from proposal to report | composes decision, claim, file system, convergence and startup scan |
| `FileEffectsProofs` | - | theorems about `FileEffects` |
| `FeedMirror` | what the feed promises to a page | abstract specification |
| `ClientFeed` | how pages follow the database | composes worker, feed, bridge and page; implements `FeedMirror` |
| `ClientFeedProofs` | - | theorems about `ClientFeed` |
| `MC...` | - | instances for TLC: functions on model values, symmetry sets, bounds |

`map` in `PROJECT.json` names for every definition the lines it translates.

Three modules (`WaitingWake`, `ClientFeed`, `FileEffects`) keep their bounds in a
variable `bound` that `Init` takes from a set of records and nothing changes.  One run
then covers several scenarios, each with its own limits, where a single set of
constants would have to allow all of it at once.

### TurnControl

State: for each Turn the rows of it (`intent`, `held`, `status`, `verdict`, `lease`,
`interrupt`, `delivery`, `work`), the claim receipts, the clock, the processes that
run; and in the memory of each process the fence its executor carries and the lease
row it has read and not yet written back (`flight`).

One action is one writer transaction; its guard is what the transaction asserts.
`ReadForClaim`/`CommitClaim` and `ReadForRenewal`/`CommitRenewal` are pairs, because the
command decides upon the row it read - and, for a claim, upon a probe of the owner's
process - before it asserts *the row*, never the decision.  `LoseRace` is the
failed assertion.

Abstractions:

- A TurnIntent and its Turn share an id: the id of the Turn is a hash of the intent's.
- A process that restarts is another boot, and boots do not come back; all may run at
  the start.  `leaseOwnerId` is the boot.
- Commands whose receipt exists, coalesced interrupts and refused commands change
  nothing and are stutters.
- `finalizeRecovery` and the claim of a Turn without a lease are not actions: an active Turn has
  a lease in every reachable state (`RowsAgree`, proved), so neither is ever enabled.
- Work (model requests, tool calls) is one bit per Turn: what matters is that an
  ending Turn has none.
- `isHostAlive` is modelled for processes it can verify.  For others the code never
  claims before the expiry, a case the model contains as well.

### WaitingWake

State: what other actors commit (`facts`, `ready`, `version`) against what
one runner holds in memory (`slot`, `again`, `view`, `parked`, `localWake`, `nudge`, the
poll in flight).  Each `await` of `runDriveSlot`, `observeWaitingWake` and
`pollExternalWakes` ends an action, so that a commit can fall between any two reads.
Facts are counted; which of them make the Turn ready is chosen freely.  The host
keeps its lease throughout.

### TurnHandover

State: the durable rows of the Turns of one conversation reduced to `state`,
`owner`, `fresh`, `stop`, `wait`; per host the drive slots, the parked and the deferred
Turns, the admission slot and the progress of startup recovery.  Exits clear the
memory of a host and make it the dead owner of its leases; a restarted host keeps its
name and runs `recoverStartup` again.

Abstractions: generations are not counted - a claim makes every slot of an older
generation `stale`; a poll sees that a parked Turn is ready (how it sees it is
`WaitingWake`); admission picks any queued intent (the order of the queue is not
modelled); a drive ends by finishing, waiting or hand-over, never by an unexpected
throw; child Turns are left out.  When a startup has failed, that host recovers
nothing more until it is started again, as in the code.

### RuntimeDelivery

State: the rows of a delivery (`inbox`, `delivery`, `link`, the two outboxes in `row`), the
Turn rows it rests on (`turn`, `fence`, `stopping`), where the agent loop stands
(`exec`) and which results its last request has read (`seen`); per host the outbox
row it works on (`scan`), handlers it gave up waiting for (`late`) and an admission it
has prepared (`offer`).

`scan[h].valid` is the claim: one bit for owner, generation and expiry of the
row, cleared when somebody else claims.  Every step of a scan that reads and the step
that commits upon it are apart.  `exec` follows `drive`: `round` (a request runs),
`final` (its answer asks for nothing more), `settling`, `crossed` (an input arrived
before the fence), `again`, `fenced`, `failing`.  `ResumeFrom` is where a new executor takes
up after an exit.

Abstractions: delays and back-off; manual redelivery; deletion of conversations
and of delivery targets; the generations of an answer's parent link; content.  The tool rounds
before the last answer are part of `round`.  `appendContent` is idempotent by the identity
of its source, so that absorbing an input and marking it handled is one step.

### ModelStream

State: the rows of one request (`request`, `attempt`, `operation`, `fence`, `ending`), the
Turn it belongs to, for each drive where it stands and which stream it believes it
writes (`pc`, `mine`, `saw`), and the provider sockets that may still speak.  A *drive* is one
lease generation of the Turn's executor; the older ones may go on running.  The reads of
a retry and of a failure and their transactions are apart (`judge`, then `retry` or
`fail`), because the row that is asserted includes the activity statistics, which any event
of the stream changes.

Abstractions: an event is activity, an answer, a fatal or a transient error; what was
streamed is one bit (`unsafe`: a semantic event was seen, so the policy does not retry
except where it says so); time-outs and lease ends happen at any time; the number of
activity rows is bounded (`MaxBeats`).  `raced` is a history variable: an activity row came
between a read and its transaction.

### EffectControl

State: per call of a batch the rows (`intent`, `operation`, `receipt`, `outcome`, the
generation in its fence `claimant`), the Turn, and per host where its drive stands with
each call (`pc`, `seen`), what its scan has still to look at, and why its executions are
aborted.  `world` and `invoked` are what the service did; only `CallOut` and the service
write them.  Host *h* runs lease generation *h*; a host that restarts is another host.

A service that succeeds may answer with attachments which are not admitted (type, size, storage):
`world` is then `"unstorable"`.  `CallOut` chooses that with the answer, and nothing else sets it.
`Observe` reads such an answer as the success it is; `Record` runs into the refusal and records a
failure (`Recordable`, `mcpEffects.ts:156`).  The code tries twice, with one receipt key: the first try
is refused after the look for an existing receipt and before any row is written
(`effectControlPlane.ts:850`), so that both tries are one step.  A capability without effect
settles such a success as a failure in the same transaction (`Settle`).

A call outside `Effects` is a capability without effect.  Abstractions: one external
dispatcher (MCP) stands for the effect kinds that leave one request; events and artifacts
of tool calls, operations that outlive their Turn and process effects are left out, and so
are the errors of the database (`mcpEffects.ts:157` throws them on): after one, no receipt is there,
as after a crash.

### FileEffects

State: the rows of one change set (`decision`, `intent`, `fence`, `report`, `status`), the Turn
and the host that leads it, per host its two threads of control - `window`, a user's
command or the drive, and `pass`, its convergence or its startup scan - with the
marker of `activeDispatches`, and the files themselves (`disk`, `writes`).  An editor
saves when it likes.  `claimant`, `saved` and `overlap` are history variables.

Who enters while the intent is pending may win the claim, cancel it or lose it (`Claim`, `Lose`); who
enters later only finds it taken (`Late`).  The difference is what a loser has read: one that has
read "pending" and then finds the Attempt dispatched gets an exception
(`effectControlPlane.ts:672`), and its handler inspects the files (`fileEffects.ts:1148`).  The read is no
step of its own: an intent never becomes pending again, so a thread that was there
before the claim may have read it before or after, and one that came later has not.

Abstractions: a member replaces a file or deletes a directory tree (creating, unlinking, symbolic
links, path boundaries and errors of reading are left out); Operation, ToolOutcome
and the ordered finalizer are one `status`; a rejection settles at once; a lease that expires under
its owner and a drive that throws over a hand-over belong to `EffectControl`.  A
write empties the target first and may break off, so that a crash leaves half a file or
half a directory.

### ClientFeed

State: the database as two counters (commits of this host and of others), the requests the
worker has not executed (`asked`) and its announcements and answers on the way
(`wire`), the poll for foreign commits, per page its feed session, the frame the
bridge watches (`post`), both channels, and what the page shows (`view`).

The worker executes requests in any order and answers in the order of execution; a
commit of this host is announced before whatever was executed after it.  `SendSnapshot` hands over the
buffered commits one by one, as the code does, in a recursive function.  Several
guards of the code (the hand-over buffer of a connecting session, the generation of snapshot requests)
are redundant under that order and are modelled all the same.

Abstractions: one projection, shared by the pages; commits that change nothing visible are left
out; an old session still connecting is dropped at once when it is replaced; navigation
and load are one action (`Ready`); a poll that finds nothing is left out;
details, history pages and transient messages are left out.  A batch is *wide* when it cannot be sent
as changes, because of its kind or its size.

---------------------------------------------------------------------------

## 3. The runs

"Interchangeable" constants are symmetry sets, in runs without liveness only.
All runs set `CHECK_DEADLOCK FALSE`: a system in which every Turn has ended and no user
submits another has nothing left to do.

| Run | Instance | Properties |
|---|---|---|
| `turn_control` | 2 boots, 2 Turns of one conversation, leases of 2 ticks, 2 ticks | `RowsAgree`, `FencesDistinct`, `InterruptHonoured`, `StaleStaysStale`, `OwnerKept`, `KeepsPromise` (refinement) |
| `waiting_wake` | 1 or 2 Turns; a failing poll, a throwing slot or lost resumes; up to 2 commits of each kind | `WakeKept`, `RunnerSound`, `ReadyTurnsDriven` |
| `handover_safety` | 2 hosts, 2 Turns, an exit, a stall, a question, an edit | `LiveOwnerTracks`, `DrivesSound`, `QueueWatched` |
| `handover_progress` | 2 hosts, 2 Turns, an exit, a question, an interrupt | `TurnsProgress`, `QueuedRuns` |
| `delivery_safety` | 2 hosts, a process, 2 Turns, one failure kills a row, one error | `NoDeadWait`, `FinalIsFinal`, `SettledOnce` |
| `delivery_routing` | 1 host, a process and a child's answer, 4 Turns | `InputsSound`, `FinalReadsAll` |
| `delivery_progress` | 1 host, a process, 2 Turns, 2 failures kill a row, an error, an exit | `AckKept`, `EveryResultDelivered` |
| `delivery_replay` | as small as possible | disagreement, section 6 |
| `model_stream` | 2 drives, 2 retries, 1 activity row | `RequestSound`, `AnswerNotWasted`, `StrandedRaced`, `KeepsPromise` (refinement), `TurnMovesOn` |
| `effect_control` | 2 hosts, an external call and one without effect | `AtMostOnce`, `OutcomeTrue`, `RowsAgree`, `SettledOnce`, `SettledOrInFlight` |
| `file_effects` | 1 host with edits and stops; a file and a tree, and a host that starts later; 2 hosts with a file that two windows approve; 2 hosts with a file and stops | `AppliedOnce`, `ReportTrue`, `EditsKept`, `Reported` |
| `client_feed` | 1 page with 2 faults; 2 pages; 1 page that is shown three times; 1-2 commits here, 1 elsewhere | `IdleShowsAll`, `FeedSound`, `OneFaultHealed`, `KeepsPromise` (refinement), `CatchesUp` |

### Why these bounds

*TurnControl.*  Admission, interrupts and ends need two intents of one conversation and
two hosts to race.  Leases of two ticks and a clock of two let a lease be renewed
before it runs out, run out under its owner, and be claimed by the other host while
the first still carries its fence and its decision.  Boots and Turns are
interchangeable.  What the bounds leave open - a third host, a fence that travels
back after two lease lifetimes - is closed by the proofs of section 5, which
cover every number of hosts and generations.

*WaitingWake.*  `WakeKept` could fail when a poll for one Turn uses up a signal that
another needs: two Turns.  Lost resumes need two commits, one to start the
race and one to fall into it, and a version for each.  One failing poll and one
throwing slot reach every `finally` of the code.

*TurnHandover.*  An exit lets a Turn lose its owner and be claimed; one stall makes a fence
stale under a driving slot; one question parks a Turn.  A queue needs a Turn that blocks
and an intent that waits; one edit invalidates an admission between its read and its
commit.  The progress run has neither stalls nor edits: each only delays a step that
fairness takes again.

*RuntimeDelivery.*  The races between fence, delivery and claim need two hosts and a single
result; the races between results and Turns need several results, and four Turns: the
source, a continuation for each of the two, and a user's input.  One of the four may be
interrupted.  One error per
run makes a claim return to the pool, one failure limit of 1 makes the same error a
dead letter.  `AckKept` is checked with one host: with two hosts *and* several
failures it does not hold (section 6).  Theorem `AcksKept` says what it takes with any number
of hosts: no claim passes to another host while its holder still works under it.

*ModelStream.*  Two drives let a take-over meet each place of the older one; two
retries give a middle attempt, neither the first nor the last, whose late events meet the
next; one activity row is enough for every race of a read with it.

*EffectControl.*  An external call needs the host that claimed it and one that recovers
it; the second call gives the ordered finalizer something to wait for.  The safety
properties are proved for any number of hosts and calls.

*FileEffects.*  Two members, the second a tree, are what "stop at the first failure", partial
outcomes and the digest of a directory need.  Two hosts give a window
that decides or recovers what the other has claimed.  One edit can come before the claim or between
the comparison and the write; a second one would overwrite the first.  The
scenarios keep edits, stops, a tree and two windows that are open from the start (`up`) or whose users
approve again (`again`) apart, because the liveness check over all of it at once takes too long; the safety properties are proved
without that restriction.  Only the first host dies, while the second is still to start, so the
exception in `Reported` for a second window that is gone is stated and never reached here.

*ClientFeed.*  A queue of one batch is full at the second commit during a frame in flight;
one resend is the last one.  Two faults are one more than a resend heals.  The
third visit of a page is the first whose session replaces one that replaced another.

### What the properties say

Each property is stated in words where it is defined.  In short:

- `RowsAgree`: a Turn runs exactly while it has a lease, is over exactly when it has
  a termination, and then nothing of it is open.
- `KeepsPromise`: every transaction is a step of the abstract module or invisible to it
  (`ConversationTurns`, `ModelAnswer`, `FeedMirror`).
- `FencesDistinct`, `StaleStaysStale`: a generation belongs to one executor; one who
  lost his authority does not regain it by waiting, although leases go back and forth.
- `OwnerKept`: a Turn changes hands only if the lease ran out or the owner died - *at
  the time of the commit*, not of the read.
- `WakeKept`: a parked Turn whose facts changed is still going to be looked at.
- `RunnerSound` (types, `ParkedOrDriven`, `Watched`): no Turn is parked and driven at once; the poll
  never stops while there is something to watch.
- `LiveOwnerTracks`: a running owner of an active Turn has a slot for it, has parked or
  has deferred it.  `DrivesSound` (types, `OneDriver`): one slot of all hosts drives a Turn under its
  generation.  `QueueWatched`: for the queue of an idle conversation there is a host that is
  still to start or *will* offer it (`Offers`), and not only one that looks busy.
- `FinalIsFinal`, `FinalReadsAll`, `InputsSound` (types, `NothingUnread`): a result falls on one side of the final-output
  fence or the other; an answer that became final was given with all that was
  absorbed; no Turn ends over an input it was given.
- `AckKept`, `NoDeadWait`, `SettledOnce`: an acknowledged wake has a successor, a wake
  that was given up has no one waiting for it, a settled delivery is never written again.
- `RequestSound` (types, `AggregateAgrees`, `OwnerInStep`): what the worker demands of a whole request holds between any
  two transactions; the drive that holds the lease works with the stream the row is at.
- `AnswerNotWasted`, `StrandedRaced`: an answer stored at the last moment is used; a drive
  gives up over an open request in one schedule only, the one of section 6.
- `AtMostOnce`, `OutcomeTrue`, `RowsAgree`, `SettledOnce` of `EffectControl`: a call goes out once; a
  success is reported of nothing less, and as a failure only if its answer could not be stored; the rows
  agree, and what is settled stays.
- `AppliedOnce`, `ReportTrue`, `EditsKept` of `FileEffects`: only approved changes are
  written, once and in order; a report without an inspection that overlapped the
  application is true; saved edits survive.
- `IdleShowsAll`, `FeedSound` (types, `GapFree`), `OneFaultHealed`: a session at rest has shown everything its host
  knows of; changes always follow what the page has; one lost frame is repaired.
- Liveness: `ReadyTurnsDriven`; `TurnsProgress`, `QueuedRuns`; `EveryResultDelivered`;
  `TurnMovesOn`; `SettledOrInFlight`; `Reported`; `CatchesUp`.

What the refinements and the proofs say already is no property of a run: that one Turn of a
conversation runs and an ended one stays as it is follows from `KeepsPromise` of
`TurnControl`, and the type invariants of the modules that section 5 names are proved.

Each property has a mutant: a definition of the same module with the bug a
programmer might make there (marked "Seeded fault"), under which the run finds the property violated.

---------------------------------------------------------------------------

## 4. Fairness

Safety is checked and proved without it.  The liveness runs assume:

- *WaitingWake*: drives return, reads are answered, timers fire.  The explicit resume
  after a local answer is made, but may be lost (`lostResume`).  Nothing is assumed of commits.
- *TurnHandover*: the event loop of a running host takes each step it can; an exited host is
  started again some day, by its user; a lease that nobody renews runs out.  A
  *stall*, a lease that runs out under a host that drives the Turn, occurs in the safety run only: a host that
  stalls for ever makes no progress, in the code as in the model.  Users owe nothing: neither
  answers nor interrupts are fair.
- *RuntimeDelivery*: scans and admissions take their steps, claims expire, executors drive their
  Turns (that they do is the subject of `TurnHandover`).  Claiming is *strongly* fair per row:
  the scan is a loop over all rows that repeats on a timer, so a row that is due again
  and again is visited while it is due.  Errors and exits are bounded, not fair.
- *ModelStream*: a drive takes its steps, and a socket that was opened answers, errs or is timed
  out (`Driven`): the control plane arms a timer for the first and for each next event.
- *EffectControl*: drives, scans, the finalizer and convergence take their steps; an aborted call is
  observed.  A service owes no answer: a call that stays out is the exception in the
  property.  `FairSpec` adds that each host that may start does: nobody scans for
  a dead host's effects until another one starts (`phaseDRecovery.ts:77`) or drives the
  Turn.
- *FileEffects*: the two threads of a running host take their steps (the file system returns), and
  some host starts and takes over while one is left.  Users, the editor and stops are not fair.
- *ClientFeed*: the worker answers, the host handles its messages, timers fire and pages handle what
  they receive.  Faults are bounded; commits, visits and hidings are not fair.

---------------------------------------------------------------------------

## 5. What is proved

### Turns

`TurnControlProofs` holds for every set of boots, conversations and Turns, every lifetime
and unbounded time.  (`MaxClock` bounds only `Tick`, and the
proofs do not use it.)  Assumed are `ConvOfAssumption` (each Turn has a conversation) and
`TTLAssumption` (a lease lives at least a tick).

| Theorem | Says |
|---|---|
| `TypeSafety` | `Spec => []TypeOK` |
| `Invariance` | `Spec => []IInv`, the inductive invariant |
| `RowsConsistent`, `OneTurn`, `OneExecutor`, `InterruptWins` | the four safety invariants |
| `StaleExecutors`, `OwnersKept`, `TerminatedFinal` | the three action properties |
| `Refinement` | `Spec => KeepsPromise`: `TurnControl` implements `ConversationTurns` |

The argument.  None of the invariants is inductive alone:

- `OneTurnPerConversation` needs `RowsAgree`: admission only sees that no *lease* of the
  conversation exists (a unique index), so a running Turn without a lease would be invisible to it.
- `FencesDistinct` needs `FencesBounded`: a captured generation never exceeds the stored one, and
  where they are equal the row belongs to him who captured it.  A claim stores one
  more, so nobody can hold it already; an end of the Turn deletes the row, and a Turn that is over
  is never admitted again, so numbering never restarts.
- `OwnerKept` needs `ClaimsJustified`: while a claim is in flight and the row it read is
  unchanged, what it decided upon still holds - expiry and death are for
  ever, unless the row was renewed, and a renewal changes the row.
- `InterruptHonoured` rests on the terminal transaction's assertions alone, for all three verdicts.

`IInv` is the conjunction of these with `TypeOK`.  `StepInvariant` has a case per action;
the few that touch leases have lemmas of their own (`AdmitInvariant`, `RenewalInvariant`,
`ClaimInvariant`, `TerminalInvariant`), and the others share `QuietInvariant`.  The
refinement needs `IInv` too: that an admission finds the abstract conversation idle follows
from `RowsAgree` and the unique index, that a claim finds the Turn running from `RowsAgree`, and
that an end maps to the abstract `End` (interrupted exactly when asked to stop) from
`InterruptHonoured`.

### Effects

`EffectControlProofs` holds for any number of hosts and calls, under `EffectAssumption` (they are
numbers, and the effects are among the calls).

| Theorem | Says |
|---|---|
| `Invariance` | `Spec => []IInv`, with `IInv == TypeOK /\ Claims /\ Rows /\ Reports` |
| `TypeCorrect`, `GoesOutOnce`, `TellsTheTruth`, `RowsStayTogether` | the four invariants |
| `NothingIsRewritten` | the action property `SettledOnce` |

`Claims` says who stands behind a claim: only the drive whose generation the fence names is past
the claim, and a drive that has not called out yet knows that nobody has (`Stands`).  So a
second drive, a scan or a later host finds an intent that is no longer pending, and has
no way to the service.  `Rows` is what one transaction leaves of intent, operation, receipt and
outcome.  `Reports` says that what is stored of a call may be told of it (`Tells`), that what a drive
holds may be told once it has been through `Recordable`, and
that while a drive still carries an answer, the only receipt that can exist is the scan's
"unknown" (`Holds`).  `OutcomeTrue` states the exception of section 6: a "failed" proves that the
service did not succeed with an answer that can be stored, and no more.  `AtMostOnce` follows from `Claims`; `OutcomeTrue` needs all three, because
an outcome copies an operation, which copies a receipt or a cancellation of an
unclaimed intent.

### Files: `FileEffectsProofs`

For any number of hosts and members, any choice of directory trees, and any bounds on saves and
stops.  `FileAssumption` is what is assumed of the constants.

| Theorem | What it establishes |
|---|---|
| `Invariance` | the inductive invariant `IInv` below |
| `FilesTyped` | `TypeOK`, the observations of the threads included |
| `WrittenOnce` | `AppliedOnce`: approved, once, in the order of the members |
| `ReportsTell` | `ReportTrue`: a report agrees with the writes, unless files were inspected under a writer |
| `SavesStay` | `EditsKept`: what was saved before the claim is not overwritten |
| `FirstStays` | the action property `FactsStay`: decision, report and outcome are written once |

`IInv` adds five parts to the types.  `Decided` relates the rows: an intent exists for an approval
only, a report only for a claimed intent, and before the claim nothing is written.  `OneApplies`
says that one thread at most is between the claim and its last write; no property follows from
the rows alone, because a second host, a second window and a scan may all hold the same intent.
`AllFit` says for each place of a thread what it has behind it: a thread at member *m* has
written every member before and none after, and a thread about to write has found a base digest,
so the member is not one of the saved ones.  `OnDisk` says what each state of a file proves: the target
digest is a write, the base digest of a file is no write.  The base digest of a directory proves
nothing, and this is where `Reconciled` must answer "outcome unknown".  `Reports` carries the truth
of a report through the later steps, which needs that nobody applies any more once a report
exists.  The case nobody may rely on is `overlap`: a convergence, a scan and a loser of the claim may inspect
files while their writer is still at work, and then `Truthful` fails.  `ReportTrue` and the
invariant say so.

### Waiting Turns: `WaitingWakeProofs`

For any number of Turns, commits, failing polls and throwing slots.  `BoundsAssumption` says only
that the bounds are bounds.

| Theorem | Says |
|---|---|
| `Invariance` | `Spec => []IInv` |
| `RunnerAlwaysSound` | `RunnerSound`: types, `ParkedOrDriven`, `Watched` |
| `NoWakeLost` | `Spec => [](Reliable => WakeKept)` |

A wake is kept for one of two reasons, and `IInv` has a part for each.  *The resume repairs what
a poll consumed* (`ResumeKeeps`): whoever has read facts *f* of a Turn after version *v* has missed
nothing, because what came later is going to be resumed or has moved the version - also past the
version with which a poll is about to acknowledge the same *f*.  *The flag alone suffices for a Turn
that has the runner to itself* (`FlagKeeps`, `CompareKeeps`, `Quiet`): a poll takes the flag before it
reads, so what it missed raised the flag again, and no poll for another Turn can take it.
`Reliable` is the disjunction of the two.  Its negation, lost resumes and several Turns, is the
schedule of section 6, where `WakeKept` is false.

### Hand-over: `TurnHandoverProofs`

For any number of hosts and Turns and any number of exits, stalls, questions and edits.
`OwnerAssumption` says that `Dead` and `Nobody` are not hosts.

| Theorem | Says |
|---|---|
| `Invariance` | `Spec => []IInv` |
| `OwnerRemembers` | `LiveOwnerTracks` |
| `OneHostDrives` | `DrivesSound`: types, `OneDriver` |
| `QueueNotForgotten` | `QueueWatched` |

`OneDriver` follows from `DriveLeased`: a slot that drives a Turn holds its lease, because the claim
that takes the lease turns it stale.  `LiveOwnerTracks` needs that a host which went down forgot
everything and that no lease names it any more (`DownForgets`, `OwnersRun`).  `QueueWatched` is
inductive together with these because `Offers` counts only a host that *will* offer the queue: one that
reads it, one whose candidate is still good or who was asked to go on, one whose recovery is past its
Turns and not blocked, and one that is still to be started.  An admission that is about to lose its
candidate, and a recovery that failed, do not count.

### Runtime delivery: `RuntimeDeliveryProofs`

For any number of hosts, Turns and results, any limit of failures and any number of errors,
time-outs and exits.  `ItemAssumption` gives each result a source and a continuation of its own; that
two results never share one, nor with the Turn of a user, is because the continuation is the Turn of
the command `runtime-delivery:<id>`.

| Theorem | Says |
|---|---|
| `Invariance` | `Spec => []IInv` |
| `NobodyWaitsForTheDead`, `FinalAnswersStand`, `NoInputIsStranded` | `NoDeadWait`, `FinalIsFinal`, `InputsSound` (types, `NothingUnread`) |
| `DeliveriesSettleOnce` | the action property `SettledOnce` |
| `AnswersReadAll` | `Spec => [](spent.exits = 0 => FinalReadsAll)` |
| `AcksKept` | `Spec /\ []Owned => []AckKept` |
| `AcksKeptAlone` | `Spec => []AckKept` for a single host, without that condition |

The proof never looks at an action for one property.  It first shows that every step moves a delivery in
one of a few ways - routed, injected, absorbed, taken along by an admission, shown, given up - a Turn in one of a few, and the fences only by
adding a Turn with nothing pending (`Move`, `TurnMove`); each property then has a case per
move.  `IInv` adds to the types: what the rows of one transaction leave (`Filed`, `TurnsRun`), who
holds a claim (`Claimed`, `FailuresLeft`), what a scan carries from its reads into its writes
(`Looks`: the route it decided upon is the one for the evidence it read), and `Ranked`: a route
only moves on, from the current Turn to the next one to a notification.  `Ranked` is what makes a
decision from an old read harmless.

Two theorems have a condition, and each condition is one the code needs.  `AnswersReadAll` speaks of
behaviours without exits: an exit between absorbing a result and asking the model again
breaks `FinalReadsAll` (run `delivery_replay`).  `AcksKept` assumes `Owned`, that no claim is
taken from a host that still works under it; section 6 has the schedule in which one is.  A single
host takes no claim from itself, because it looks for expired ones between two rows only
(`AcksKeptAlone`).  The proof of both carries `Continued` and `Offered` along: a queued continuation
belongs to a delivery that has left its source for good, and an admission prepared for it still has
the delivery on its list.

### Model requests: `ModelStreamProofs`

For any retry policy, any number of take-overs and of activity rows (`StreamAssumption`).

| Theorem | Says |
|---|---|
| `Invariance` | `Spec => []IInv` |
| `RowsAndDriveAgree` | `RequestSound`: types, `AggregateAgrees`, `OwnerInStep` |
| `AnswerReachesTurn` | `AnswerNotWasted` |
| `StrandingNeedsRace` | `StrandedRaced` |
| `Refinement` | `Spec => KeepsPromise`: `ModelStream` implements `ModelAnswer` |

The invariant speaks of the drive that holds the lease only: generations of streams stay behind drives
(`Opens`), so no late socket, of whichever drive, can speak for a stream that the current drive has not
opened (`Speakers`), and what that drive decided upon is what the row still says, but for an activity
row (`Judged`).  `AnswerHeld` says where the drive may stand once an answer is stored: every
place from which it will read it, and the places where it gave up only after a stop or a race with an
activity row.  In the refinement, a retry that commits is the abstract `TryAgain`, a terminal
transaction is `Answered` or `GivenUp`, and opening, take-over and activity are stutters; that a
request is settled once, by the attempt it is *at*, rests on `AggregateAgrees`.

### Client feed: `ClientFeedProofs`

For any number of pages, commits, faults and visits, any limit of the queue and any positive number
of resends (`FeedAssumption`).

| Theorem | Says |
|---|---|
| `Invariance` | `Spec => []IInv` |
| `Soundness` | `FeedSound`: types, `GapFree` |
| `Completeness` | `IdleShowsAll` |
| `Healing` | `OneFaultHealed` |
| `Refinement` | `Spec => KeepsPromise`: `ClientFeed` implements `FeedMirror` |

The argument has two halves.  *The wire is ordered* (`Ordered`): commits are announced one by one, an
answer carries the number of the last one announced before it, and versions never fall.  So when an
answer arrives its number is the number *h* of commits the host has heard of, a snapshot leaves no gap
before the live changes, and everything that was put aside while it was read is already in it.
*The channel is stop-and-wait*: one frame is in flight, so the frames on their way to a page are one `Line` that starts
behind its view and ends at the awaited frame, each fitting behind the one before or
repeating it.  `Chain` says that the queue continues the frame in flight up to *h*, or a
snapshot is required and the queue is empty; `Rested` that a session without a frame in flight
has shown all *h*; `Acked` that an acknowledgement means the page shows the frame.  With these, an
acknowledgement that empties the channel leaves the page complete.  For the commits of others
`Versions` says that the version polled last was shown, is on its way, or a snapshot is required;
it needs that the first version is read once, before any snapshot (`Baselines`, `Polls`).

`Sound` is a predicate of one session, its frame, its two channels and its view, and the lemmas about
`Enqueue`, `Acknowledge`, `Receive` and the others are stated about such a tuple; a step then
has to say only what it does to each page.  `OneFaultHealed` counts: each resend of the awaited frame was paid
for by a fault (`PaidFor`), and a page that shows the frame has acknowledged it before it
says anything else of it (`Answered`).

### What stays with TLC


- `WakeKept` with lost resumes and several Turns, `FinalReadsAll` after exits, and `AckKept` when a claim
  is taken from a working host are not theorems because they do not hold (section 6).
- Every liveness property (`ReadyTurnsDriven`, `TurnsProgress`, `QueuedRuns`, `EveryResultDelivered`,
  `TurnMovesOn`, `SettledOrInFlight`, `Reported`, `CatchesUp`): TLAPS does not reason about fairness here.
- What a recursive function computes for every input.  `SendSnapshot` folds the buffer with one; the
  proof needs only that a fold which never applies its step returns what it started with, and
  `Least` gets that from the least index at which it would not.

---------------------------------------------------------------------------

## 6. Where the code and its documents disagree

One run has a counterexample for its result; `findings` in `PROJECT.json` quotes the line it
contradicts.

| Run | What it shows |
|---|---|
| `delivery_replay` | A host that dies after absorbing a result that crossed an answer, and before asking the model again, leaves a Turn whose next executor takes the old answer for final. |

Other limits of the code are visible in the models without a run of their own.  Several are
the reason for a restriction of a run or an exception in a property:

- *A lost resume and a shared flag.*  The runner keeps one flag for "this host
  committed something" (`ReliableConversationRunner.ts:1128`).  A poll for one parked
  Turn clears it while another Turn lies between its observation and being parked; if
  the explicit resume fails too, that Turn sleeps until the next commit.  No scenario of
  `waiting_wake` therefore has lost resumes and two Turns; with both, `WakeKept` is violated.
  Theorem `NoWakeLost` states what is left: `Reliable`.
- *Approvals from another host.*  An accepted execution approval puts the call back
  to `pending` (`toolInteractions.ts:468`), which `waitingWakeFingerprint` does not call ready
  (`ReliableConversationRunner.ts:1215`).  Given by *another* host just before the
  observation, it is already part of the fingerprint the Turn is parked with.
  `ReadyTurnsDriven` therefore speaks of ready Turns, not of every fact.
- *A Turn that ends during startup.*  A Turn that ends while a restarted host claims it makes the claim
  throw, and the throw fails the recovery of the whole host instead of skipping the Turn
  (`turnControlPlane.ts:1387`).  `TurnHandover` has that outcome; the next start tries again.
- *A claim that has passed to another host.*  `reconcilePendingDelivery`
  (`automaticRuntimeDelivery.ts:343`) asserts the delivery and its source, not the claim it
  works under; a host that lost the claim can turn a delivery whose continuation the
  other one queued and acknowledged into a notification, and exit before it shows
  it.  `AckKept` is therefore checked with one host, and proved for any number under `Owned`
  (`AcksKept`).
- *A superseded answer.*  A stopped child submits what it has; when the child then goes on, the bridge
  moves to its next answer and the pending delivery of the earlier one can only fail
  (`automaticRuntimeDelivery.ts:396`).
- *A stranded request.*  A retry asserts the whole statistics row it has read
  (`modelProviderControlPlane.ts:1331`), which a heartbeat of the failed stream changes; the drive
  then throws, and the runner keeps neither a deferral nor a slot for it
  (`ReliableConversationRunner.ts:826`): the request stays open until another host takes the Turn over or this
  one restarts.  That is what `raced` excepts in `AnswerNotWasted` and `TurnMovesOn`.
- *Retries.*  `docs/` speaks of at most two retries (`phase-e-context-provider.md:24`), the frozen policy
  allows up to ten.  `MaxRetries` is a parameter.
- *A success that cannot be stored.*  When the attachments of an MCP answer are not admitted, the
  receipt of the call says "failed" although the service did what it was asked
  (`mcpEffects.ts:156`); the model is shown a failure and may ask for the effect again.  `OutcomeTrue`
  excepts exactly these answers.
- *Inspecting what is being written.*  `isDispatchActive` answers for one process and the fence names the host
  with the lease, not the window that claimed.  A pass of convergence may therefore inspect a change set
  that another thread is applying: on one host, when the pass entered first and takes its
  marker off after losing the claim (`fileEffects.ts:1116`); on two, when a window of the second host
  claimed (`runtimeApplication.ts:467`).  And a thread that read the intent as pending and lost
  the claim before it read the Attempt is refused with an exception (`effectControlPlane.ts:672`), on
  which it inspects the files its winner is about to write (`fileEffects.ts:1148`).  The report then says "failed" of a file that is
  written a moment later, and the true observation comes too late.  `ReportTrue` excepts reports
  with such an overlap; without the exception TLC finds such schedules.
- *A window that dies with another host's change set.*  The startup scan skips it while the host with the
  lease lives, and that host's convergence runs only after commits of its own.  This is the exception in `Reported`.
- *Approvals and a second window.*  Opening a second window expires the pending file approvals of every Turn,
  also of those a live host drives (`phaseDRecovery.ts:314`); effects in flight are asked for their
  live owner (`phaseDRecovery.ts:187`), approvals are not.
- *An acknowledgement that is lost.*  When a frame with changes was applied but its
  acknowledgement is lost, the resend is rejected as a duplicate and the page asks for a snapshot:
  `GapFree` speaks of frames that are not duplicates.
- *A suspended page.*  A page that was given up is not reconnected by being hidden and revealed
  (`webviewFeedBridge.ts:159`), only by loading or navigating.

---------------------------------------------------------------------------

## 7. What is not modelled

Per component in `PROJECT.json`.  In general: contents (prompts, messages, files), formats and
validation; SQL, indices other than the ones that decide something, and schema migrations; the
VS Code interface; external services, of which only answers, silence and late answers
matter.  Process effects, child executions, interactions (their first answer wins), the context's head, the
guidance queue's order, the content store, the data root, the ECS scheduler and the storage lock have
state and races of their own and are not modelled *yet*; their hazards are in
`PROJECT.json` without a property.  Rows and transactions of the database are the
atoms of all modules; what is inside them is not modelled.

---------------------------------------------------------------------------

## 8. The plan

The order is that of importance: what everything else rests on comes first.

| # | Module | Subject | Status |
|---|---|---|---|
| 1 | `ConversationTurns`, `TurnControl` | Turns, leases, fences; proved | done |
| 2 | `WaitingWake` | waiting Turns of one host; proved | done |
| 3 | `TurnHandover` | Turns across hosts and restarts; proved | done |
| 4 | `RuntimeDelivery` | results that arrive from outside; proved | done |
| 5 | `ModelAnswer`, `ModelStream` | attempts, retries, late adapter events, take-over; proved | done |
| 6 | `EffectControl` | intent, dispatch, receipt, unknown outcome, cancellation; proved | done |
| 7 | `FeedMirror`, `ClientFeed` | queue limits, acknowledgements, snapshots; proved | done |
| 8 | `FileEffects` | change sets on files outside the database; proved | done |
| 9 | `ProcessStart` | the start of a process with evidence outside the database | next |
| 10 | `ChildTree` | spawning, cancelling and recovering a tree of executions, answer bridges | next |
| 11 | `GuidanceQueue` | revisions, order, hold and admission of queued intents; abstract: a list that only its user edits | |
| 12 | `ContextHead` | appends, compression and replay upon one head | |
| 13 | `RootCutover` | pointer files and journals with a crash after each step; content store | |
| 14 | `SchedulerWaves`, `SessionSocket`, `StorageLock` | the small machines of the other layers | |

Runs are to stay at two or three actors each, one run per question and few in
number: a new module takes one run, with its scenarios in `bound`.  Every safety invariant
and every refinement the runs check is a theorem now, except where section 5 says that it does not hold.
Worth having next: the theorems of the modules still to be written.

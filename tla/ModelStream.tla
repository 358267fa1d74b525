----------------------------- MODULE ModelStream -----------------------------
(* One model request of a Turn: the rows of modelProviderControlPlane.ts and    *)
(* the fixed writer operations of databaseWorker.ts, the drives of the Turn     *)
(* that dispatch it one after the other (each under a newer generation of the   *)
(* execution lease, the older ones possibly still running), and the provider    *)
(* sockets they opened, which may go on speaking after their drive stopped      *)
(* listening.                                                                   *)
(* Reads and the transactions that follow them are separate steps wherever      *)
(* another transaction can come between and be noticed.                         *)
EXTENDS Naturals

CONSTANTS MaxRetries,      \* of the retry policy frozen with the request
          MaxDrives,       \* bound: drives of the Turn, one per lease generation
          MaxBeats,        \* bound: stream activity rows written
          Nothing          \* no fence

ASSUME StreamAssumption ==
    /\ MaxRetries \in Nat
    /\ MaxDrives \in Nat \ {0}
    /\ MaxBeats \in Nat
    /\ Nothing \notin [seq : Nat, gen : Nat]

VARIABLES
    request,     \* status and stream statistics of the ModelRequest row
    attempt,     \* status of each Attempt row, "none" before it is inserted
    operation,   \* status of the Operation row
    fence,       \* the ModelStreamFence row: the stream whose answer was stored
    ending       \* terminal_state of the request
rows == <<request, attempt, operation, fence, ending>>

VARIABLES
    turn,        \* "active" or "over"
    stop,        \* an interrupt request is pending
    used,        \* the Turn went on with the answer
    owner        \* the drive whose lease generation is the current one
turnVars == <<turn, stop, used, owner>>

VARIABLES
    pc,          \* where each drive stands
    mine,        \* the stream identity a drive works with
    saw,         \* stream activity it read before its transaction
    unsafe,      \* its current socket sent semantic output
    verdict      \* what its current socket ended with
driveVars == <<pc, mine, saw, unsafe, verdict>>

VARIABLES
    sockets,     \* provider sockets that may still speak
    raced        \* an activity row came between a read and its transaction
vars == <<rows, turnVars, driveVars, sockets, raced>>

Drive == 1..MaxDrives
Attempt == 1..(MaxRetries + 1)
Stream == [seq : Attempt, gen : 0..MaxDrives]
Socket == [drive : Drive, seq : Attempt, gen : 1..MaxDrives]
Verdict == {"none", "fatal", "transient", "transient_again"}

TypeOK ==
    /\ request \in [status : {"prepared", "streaming", "retrying", "terminal"},
                    seq : Attempt, gen : 0..MaxDrives, beat : 0..MaxBeats]
    /\ attempt \in [Attempt -> {"none", "pending", "running", "transient_failed",
                                "completed", "failed", "cancelled"}]
    /\ operation \in {"pending", "running", "completed", "failed", "cancelled"}
    /\ fence \in Stream \cup {Nothing}
    /\ ending \in {"none", "completed", "failed", "cancelled"}
    /\ turn \in {"active", "over"}
    /\ stop \in BOOLEAN /\ used \in BOOLEAN /\ raced \in BOOLEAN
    /\ owner \in Drive
    /\ pc \in [Drive -> {"idle", "start", "delay", "open", "sending", "judge",
                         "fail", "retry", "answered", "error", "thrown", "gone", "done"}]
    /\ mine \in [Drive -> Stream]
    /\ saw \in [Drive -> 0..MaxBeats]
    /\ unsafe \in [Drive -> BOOLEAN]
    /\ verdict \in [Drive -> Verdict]
    /\ sockets \subseteq Socket

Init ==
    /\ request = [status |-> "prepared", seq |-> 1, gen |-> 0, beat |-> 0]
    /\ attempt = [a \in Attempt |-> IF a = 1 THEN "pending" ELSE "none"]
    /\ operation = "pending" /\ fence = Nothing /\ ending = "none"
    /\ turn = "active" /\ stop = FALSE /\ used = FALSE /\ owner = 1
    /\ pc = [d \in Drive |-> IF d = 1 THEN "start" ELSE "idle"]
    /\ mine = [d \in Drive |-> [seq |-> 1, gen |-> 0]]
    /\ saw = [d \in Drive |-> 0]
    /\ unsafe = [d \in Drive |-> FALSE]
    /\ verdict = [d \in Drive |-> "none"]
    /\ sockets = {} /\ raced = FALSE

-----------------------------------------------------------------------------
Terminal == request.status = "terminal"
Identity == [seq |-> request.seq, gen |-> request.gen]

\* sameStats: activity is not part of a stream's identity
Same(d) == mine[d] = Identity

\* what the transaction asserts of the row it read: its activity too
Exact(d) == Same(d) /\ request.beat = saw[d] /\ ~Terminal /\ fence = Nothing

\* The row update that ends a request without an answer
Settle(how) ==
    /\ request' = [request EXCEPT !.status = "terminal"]
    /\ attempt' = [attempt EXCEPT ![request.seq] = how]
    /\ operation' = how
    /\ ending' = how
    /\ UNCHANGED fence

Goto(d, where) == pc' = [pc EXCEPT ![d] = where]

\* finishResolvedDispatch and readTerminalProviderOutput: only a completed
\* request has an output; everything else makes the drive throw
Resolved(d) == Goto(d, IF ending = "completed" THEN "answered" ELSE "error")

\* A drive whose lease generation was replaced: its transactions fail
Stale(d) == owner # d
Leave(d) == Goto(d, "gone") /\ UNCHANGED <<rows, turnVars, mine, saw, unsafe, verdict, sockets, raced>>

-----------------------------------------------------------------------------
\* The drive finds the request as it is
Start(d) ==
    /\ pc[d] = "start"
    /\ mine' = [mine EXCEPT ![d] = Identity]
    /\ CASE Terminal -> Resolved(d)
         [] ~Terminal /\ stop -> Goto(d, "error")
         [] ~Terminal /\ ~stop ->
              Goto(d, IF request.status = "retrying" THEN "delay" ELSE "open")
    /\ UNCHANGED <<rows, turnVars, saw, unsafe, verdict, sockets, raced>>

\* The retry delay is over: the request is read again
Delay(d) ==
    /\ pc[d] = "delay"
    /\ IF Terminal \/ ~Same(d) THEN Resolved(d) ELSE Goto(d, "open")
    /\ UNCHANGED <<rows, turnVars, mine, saw, unsafe, verdict, sockets, raced>>

\* The full request cannot be built or is refused before it is sent
Refuse(d) ==
    /\ pc[d] = "open" /\ Same(d) /\ ~Terminal
    /\ Goto(d, "fail")
    /\ verdict' = [verdict EXCEPT ![d] = "fatal"]
    /\ saw' = [saw EXCEPT ![d] = request.beat]
    /\ UNCHANGED <<rows, turnVars, mine, unsafe, sockets, raced>>

OpenSocket(d) ==
    LET next == [mine[d] EXCEPT !.gen = @ + 1] IN
    /\ pc[d] = "open"
    /\ ~Stale(d)
    /\ IF Terminal \/ ~Same(d)
       THEN /\ Goto(d, "error")
            /\ UNCHANGED <<rows, mine, unsafe, verdict, sockets>>
       ELSE /\ request' = [status |-> "streaming", seq |-> next.seq, gen |-> next.gen, beat |-> 0]
            /\ attempt' = [attempt EXCEPT ![next.seq] = "running"]
            /\ operation' = "running"
            /\ mine' = [mine EXCEPT ![d] = next]
            /\ unsafe' = [unsafe EXCEPT ![d] = FALSE]
            /\ verdict' = [verdict EXCEPT ![d] = "none"]
            /\ sockets' = sockets \cup {[drive |-> d, seq |-> next.seq, gen |-> next.gen]}
            /\ Goto(d, "sending")
            /\ UNCHANGED <<fence, ending>>
    /\ UNCHANGED <<turnVars, saw, raced>>

-----------------------------------------------------------------------------
StreamOf(s) == [seq |-> s.seq, gen |-> s.gen]
Current(s) == mine[s.drive] = StreamOf(s)

\* Seeded fault: the writer does not compare the attempt of an event
AcceptsAnyAttempt(s) ==
    /\ ~Stale(s.drive)
    /\ request.status = "streaming" /\ fence = Nothing /\ turn = "active"

\* The writer accepts an event of this socket
Accepts(s) ==
    /\ ~Stale(s.drive)
    /\ request.status = "streaming" /\ fence = Nothing /\ turn = "active"
    /\ StreamOf(s) = Identity

\* A semantic event; every few seconds it also writes the stream's activity
Output(s) ==
    /\ s \in sockets
    /\ unsafe' = [unsafe EXCEPT ![s.drive] = @ \/ Current(s)]
    /\ \/ /\ Accepts(s) /\ request.beat < MaxBeats
          /\ request' = [request EXCEPT !.beat = @ + 1]
          /\ raced' = (raced \/ pc[s.drive] \in {"fail", "retry"})
       \/ UNCHANGED <<request, raced>>
    /\ UNCHANGED <<attempt, operation, fence, ending, turnVars, pc, mine, saw, verdict, sockets>>

\* The terminal summary of a socket: answer, fence and rows in one transaction
Complete(s) ==
    /\ s \in sockets
    /\ Accepts(s)
    /\ request' = [request EXCEPT !.status = "terminal", !.beat = 0]
    /\ attempt' = [attempt EXCEPT ![s.seq] = "completed"]
    /\ operation' = "completed"
    /\ fence' = StreamOf(s)
    /\ ending' = "completed"
    /\ UNCHANGED <<turnVars, driveVars, sockets, raced>>

\* The adapter resolves or rejects, its queued events written.  Its drive listens
\* to it only while it is still the socket it is sending on.
SocketEnds(s) ==
    /\ s \in sockets
    /\ sockets' = sockets \ {s}
    /\ IF Current(s) /\ pc[s.drive] = "sending"
       THEN \/ /\ Terminal \/ ~Same(s.drive)
               /\ Resolved(s.drive)
               /\ UNCHANGED verdict
            \/ /\ \E v \in Verdict \ {"none"} : verdict' = [verdict EXCEPT ![s.drive] = v]
               /\ Goto(s.drive, "judge")
       ELSE UNCHANGED <<pc, verdict>>
    /\ UNCHANGED <<rows, turnVars, mine, saw, unsafe, raced>>

\* Seeded fault: the semantic timer starts with the first output only
TimeOutAfterOutput(d) ==
    /\ pc[d] = "sending" /\ unsafe[d]
    /\ verdict' = [verdict EXCEPT ![d] = "transient_again"]
    /\ Goto(d, "judge")
    /\ UNCHANGED <<rows, turnVars, mine, saw, unsafe, sockets, raced>>

\* The dispatch or the semantic timer fires.  The adapter is aborted and given
\* a second to drain, after which the drive goes on without it.  Only the stall
\* of a stream that had output allows a new attempt after output.
TimeOut(d) ==
    /\ pc[d] = "sending"
    /\ \E v \in {"transient"} \cup (IF unsafe[d] THEN {"transient_again"} ELSE {}) :
           verdict' = [verdict EXCEPT ![d] = v]
    /\ Goto(d, "judge")
    /\ UNCHANGED <<rows, turnVars, mine, saw, unsafe, sockets, raced>>

-----------------------------------------------------------------------------
Retryable(d) ==
    /\ verdict[d] # "fatal"
    /\ unsafe[d] => verdict[d] = "transient_again"
    /\ mine[d].seq <= MaxRetries

\* The drive reads the rows before it fails the request or retries it
Judge(d) ==
    /\ pc[d] = "judge"
    /\ IF Terminal \/ fence # Nothing \/ ~Same(d)
       THEN Resolved(d)
       ELSE Goto(d, IF Retryable(d) THEN "retry" ELSE "fail")
    /\ saw' = [saw EXCEPT ![d] = request.beat]
    /\ UNCHANGED <<rows, turnVars, mine, unsafe, verdict, sockets, raced>>

\* Seeded fault: a failed assertion is thrown without reading the row again
FailThrows(d) ==
    /\ pc[d] = "fail" /\ ~Stale(d)
    /\ IF Exact(d) THEN Settle("failed") ELSE UNCHANGED rows
    /\ Goto(d, "error")
    /\ UNCHANGED <<turnVars, mine, saw, unsafe, verdict, sockets, raced>>

\* failRequest: a row that changed is read again, and when only its activity
\* changed the failed assertion itself is thrown
Fail(d) ==
    /\ pc[d] = "fail" /\ ~Stale(d)
    /\ IF Exact(d)
       THEN Settle("failed") /\ Goto(d, "error")
       ELSE Resolved(d) /\ UNCHANGED rows
    /\ UNCHANGED <<turnVars, mine, saw, unsafe, verdict, sockets, raced>>

\* Seeded fault: the drive goes on with the identity of the failed attempt
RetryOldIdentity(d) ==
    LET next == mine[d].seq + 1 IN
    /\ pc[d] = "retry" /\ ~Stale(d)
    /\ IF Exact(d) /\ turn = "active" /\ request.status = "streaming"
       THEN /\ request' = [status |-> "retrying", seq |-> next, gen |-> 0, beat |-> 0]
            /\ attempt' = [attempt EXCEPT ![mine[d].seq] = "transient_failed", ![next] = "pending"]
            /\ Goto(d, "delay")
            /\ UNCHANGED <<operation, fence, ending>>
       ELSE Resolved(d) /\ UNCHANGED rows
    /\ UNCHANGED <<turnVars, mine, saw, unsafe, verdict, sockets, raced>>

\* createTransientRetry: a row that changed means that the race was lost
Retry(d) ==
    LET next == [seq |-> mine[d].seq + 1, gen |-> 0] IN
    /\ pc[d] = "retry" /\ ~Stale(d)
    /\ IF Exact(d) /\ turn = "active" /\ request.status = "streaming"
       THEN /\ request' = [status |-> "retrying", seq |-> next.seq, gen |-> 0, beat |-> 0]
            /\ attempt' = [attempt EXCEPT ![mine[d].seq] = "transient_failed", ![next.seq] = "pending"]
            /\ mine' = [mine EXCEPT ![d] = next]
            /\ Goto(d, "delay")
            /\ UNCHANGED <<operation, fence, ending>>
       ELSE Resolved(d) /\ UNCHANGED <<rows, mine>>
    /\ UNCHANGED <<turnVars, saw, unsafe, verdict, sockets, raced>>

\* Any transaction of a drive whose lease was taken over
Fenced(d) ==
    /\ pc[d] \in {"open", "fail", "retry", "answered", "error"} /\ Stale(d)
    /\ Leave(d)

\* The abort signal of a cancelled request reaches a drive that waits
Aborted(d) ==
    /\ pc[d] \in {"delay", "sending"} /\ stop /\ Terminal
    /\ Resolved(d)
    /\ UNCHANGED <<rows, turnVars, mine, saw, unsafe, verdict, sockets, raced>>

-----------------------------------------------------------------------------
\* The agent loop with an output: it ends the Turn if that was asked for
Use(d) ==
    /\ pc[d] = "answered" /\ ~Stale(d)
    /\ IF stop THEN turn' = "over" /\ UNCHANGED used
               ELSE used' = TRUE /\ UNCHANGED turn
    /\ Goto(d, "done")
    /\ UNCHANGED <<rows, stop, owner, mine, saw, unsafe, verdict, sockets, raced>>

\* Seeded fault: the drive does not look for an interrupt after an error
EndTurnIgnoresStop(d) ==
    /\ pc[d] = "error" /\ ~Stale(d)
    /\ IF Terminal THEN turn' = "over" /\ Goto(d, "done")
                   ELSE Goto(d, "thrown") /\ UNCHANGED turn
    /\ UNCHANGED <<rows, stop, used, owner, mine, saw, unsafe, verdict, sockets, raced>>

\* The agent loop after an error: an interrupt cancels what is open and ends the
\* Turn, any other error ends it as failed.  No Turn ends over an open request:
\* the drive then throws and leaves the Turn active, with nobody to drive it.
EndTurn(d) ==
    /\ pc[d] = "error" /\ ~Stale(d)
    /\ IF stop /\ ~Terminal THEN Settle("cancelled") ELSE UNCHANGED rows
    /\ IF stop \/ Terminal THEN turn' = "over" /\ Goto(d, "done")
                           ELSE Goto(d, "thrown") /\ UNCHANGED turn
    /\ UNCHANGED <<stop, used, owner, mine, saw, unsafe, verdict, sockets, raced>>

\* (not where the bound on drives leaves no drive to see it)
Interrupt ==
    /\ turn = "active" /\ ~used /\ ~stop
    /\ ~(owner = MaxDrives /\ pc[owner] = "thrown")
    /\ stop' = TRUE
    /\ UNCHANGED <<rows, turn, used, owner, driveVars, sockets, raced>>

\* cancelLocalExecution on the host that owns the Turn, when the interrupt was
\* sent to that host
Cancel ==
    /\ stop /\ turn = "active" /\ ~Terminal
    /\ Settle("cancelled")
    /\ UNCHANGED <<turnVars, driveVars, sockets, raced>>

\* The drive is told to hand over, or its host dies
Lose(d) ==
    /\ owner = d /\ d < MaxDrives
    /\ pc[d] \in {"start", "delay", "open", "sending", "judge", "fail", "retry", "answered", "error"}
    /\ Leave(d)

\* The lease ran out: another drive takes the Turn, and the old one, if it still
\* runs, does not know.  After a drive that threw, only an interrupt or a restart
\* brings one.
TakeOver(d) ==
    /\ owner = d /\ d < MaxDrives /\ turn = "active" /\ pc[d] # "done"
    /\ owner' = d + 1
    /\ Goto(d + 1, "start")
    /\ UNCHANGED <<rows, turn, stop, used, mine, saw, unsafe, verdict, sockets, raced>>

Step(d) ==
    \/ Start(d) \/ Delay(d) \/ OpenSocket(d) \/ TimeOut(d) \/ Judge(d)
    \/ Fail(d) \/ Retry(d) \/ Fenced(d) \/ Aborted(d) \/ Use(d) \/ EndTurn(d)

Next ==
    \/ \E d \in Drive : Step(d) \/ Refuse(d) \/ Lose(d) \/ TakeOver(d)
    \/ \E s \in sockets : Output(s) \/ Complete(s) \/ SocketEnds(s)
    \/ Interrupt \/ Cancel

\* Timers fire and drives go on; a Turn whose drive was lost is taken over, and
\* an interrupt drives its Turn again.  A provider owes nothing.
Driven(d) == (pc[d] = "gone" \/ (pc[d] = "thrown" /\ stop)) /\ TakeOver(d)
Fairness == \A d \in Drive : WF_vars(Step(d)) /\ WF_vars(Driven(d))

Spec == Init /\ [][Next]_vars
FairSpec == Spec /\ Fairness
-----------------------------------------------------------------------------
(* Properties *)

\* The rows agree as assertModelRequestAggregate demands wherever a completion or
\* a cancellation checks it: attempts are contiguous and only the last one is not
\* a recorded transient failure, request, operation and attempt tell the same
\* story, and there is a fence exactly for a completed request, of the stream the
\* request was at.  Late events, lost retries and take-overs all meet here.
AggregateAgrees ==
    /\ \A a \in Attempt : /\ a < request.seq => attempt[a] = "transient_failed"
                          /\ a > request.seq <=> attempt[a] = "none"
    /\ fence # Nothing <=> ending = "completed"
    /\ fence # Nothing => fence = Identity
    /\ Terminal <=> ending # "none"
    /\ Terminal => attempt[request.seq] = ending /\ operation = ending
    /\ request.status = "prepared" =>
          /\ Identity = [seq |-> 1, gen |-> 0]
          /\ attempt[1] = "pending" /\ operation = "pending"
    /\ request.status = "streaming" =>
          /\ request.gen > 0
          /\ attempt[request.seq] = "running" /\ operation = "running"
    /\ request.status = "retrying" =>
          /\ request.seq > 1 /\ request.gen = 0
          /\ attempt[request.seq] = "pending" /\ operation = "running"

\* A drive of the current lease works with the stream the row is at, unless the
\* request was settled meanwhile: no take-over, retry or late event leaves the
\* memory of the one who may write behind the row.
OwnerInStep ==
    pc[owner] \in {"delay", "open", "sending", "judge", "fail", "retry"} => Terminal \/ Same(owner)

\* The rows of the request and the memory of its drive fit together, whatever comes
\* late.
RequestSound == TypeOK /\ AggregateAgrees /\ OwnerInStep

\* An answer that reached the rows is not lost to the Turn: however late it came
\* (after a time-out, during the decision to retry or to fail, before a crash),
\* the Turn does not end over it unless somebody interrupted it, or an activity
\* row had already made the drive give up.
AnswerNotWasted == ending = "completed" /\ turn = "over" => stop \/ raced

Stranded == turn = "active" /\ pc[owner] = "thrown" /\ ~Terminal

\* The only way for a drive to fail over a request that is still open, and to be
\* refused the end of its Turn for it, is that an activity row came between its
\* read and its retry or failure.
StrandedRaced == Stranded => raced

\* The rows keep the promise of ModelAnswer through all of it
Answer == INSTANCE ModelAnswer WITH
    tries <- request.seq,
    outcome <- ending,
    speaker <- IF fence = Nothing THEN 0 ELSE fence.seq
KeepsPromise == Answer!AnswerSpec

\* The Turn gets on: it uses the answer or ends, whatever provider, timers,
\* interrupts and lost leases do - or it is stranded, by an activity row.
TurnMovesOn == <>(turn = "over" \/ used \/ (Stranded /\ raced))
=============================================================================

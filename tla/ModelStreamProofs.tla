-------------------------- MODULE ModelStreamProofs --------------------------
(* What ModelStream promises for any number of retries, drives and activity    *)
(* rows.  The rows of the request fit together because every transaction       *)
(* asserts the identity it read (RowMoves says which transactions there are).  *)
(* That an answer is not wasted rests on the drive of the current lease: it is *)
(* in step with the row, whatever the older drives and their sockets still do. *)
EXTENDS ModelStream, TLAPS

\* Each drive opens one socket per attempt, so generations stay behind drives, and
\* only an attempt that may be repeated is given up for another
Opens ==
    /\ request.gen <= owner
    /\ pc[owner] \in {"start", "delay", "open"} => request.gen < owner
    /\ \A d \in Drive : pc[d] = "retry" => mine[d].seq <= MaxRetries

\* No socket speaks for a drive that is yet to come, and none of the current drive
\* for a stream it has not opened
Speakers ==
    \A s \in sockets :
        /\ s.drive <= owner
        /\ s.drive = owner /\ StreamOf(s) = Identity => pc[owner] \notin {"start", "delay", "open"}

\* What the drive of the lease decided upon is what the row says, but for activity
Judged ==
    /\ pc[owner] \in {"sending", "judge", "retry"} => Terminal \/ request.status = "streaming"
    /\ pc[owner] \in {"fail", "retry"} => Terminal \/ saw[owner] = request.beat \/ raced
    /\ turn = "over" => pc[owner] = "done"

\* An answer finds a drive that will read it; one that gave up was stopped or raced
AnswerHeld ==
    /\ pc[owner] \in {"delay", "open"} => ending # "completed"
    /\ pc[owner] = "error" /\ (~Terminal \/ ending = "completed") => stop \/ raced
    /\ pc[owner] = "thrown" => raced
    /\ AnswerNotWasted

IInv ==
    /\ TypeOK /\ AggregateAgrees /\ OwnerInStep
    /\ Opens /\ Speakers /\ Judged /\ AnswerHeld

-----------------------------------------------------------------------------
\* The bounds are numbers, and so is what they bound
LEMMA Numbers ==
    /\ MaxRetries \in Nat /\ MaxDrives \in Nat \ {0} /\ MaxBeats \in Nat
    /\ Drive \subseteq Nat \ {0} /\ Attempt \subseteq Nat \ {0} /\ 1 \in Attempt /\ 1 \in Drive
    /\ 0 \in 0..MaxDrives /\ 0 \in 0..MaxBeats
BY StreamAssumption DEF Drive, Attempt

LEMMA RequestTyped ==
    ASSUME TypeOK
    PROVE  /\ request = [status |-> request.status, seq |-> request.seq,
                         gen |-> request.gen, beat |-> request.beat]
           /\ request.status \in {"prepared", "streaming", "retrying", "terminal"}
           /\ request.seq \in Attempt /\ request.gen \in 0..MaxDrives /\ request.beat \in 0..MaxBeats
           /\ request.seq \in Nat /\ request.gen \in Nat /\ request.beat \in Nat
           /\ Identity \in Stream
<1> DEFINE R == [status : {"prepared", "streaming", "retrying", "terminal"},
                 seq : Attempt, gen : 0..MaxDrives, beat : 0..MaxBeats]
<1>1. request \in R
  BY DEF TypeOK
<1>2. /\ request = [status |-> request.status, seq |-> request.seq,
                    gen |-> request.gen, beat |-> request.beat]
      /\ request.status \in {"prepared", "streaming", "retrying", "terminal"}
      /\ request.seq \in Attempt /\ request.gen \in 0..MaxDrives /\ request.beat \in 0..MaxBeats
  BY <1>1
<1>3. request.seq \in Nat /\ request.gen \in Nat /\ request.beat \in Nat
  BY <1>2, Numbers
<1>4. Identity \in Stream
  BY <1>2 DEF Identity, Stream
<1> QED
  BY <1>2, <1>3, <1>4

LEMMA MineTyped ==
    ASSUME TypeOK, NEW d \in Drive
    PROVE  /\ mine[d] \in Stream /\ mine[d].seq \in Attempt /\ mine[d].gen \in 0..MaxDrives
           /\ mine[d].seq \in Nat /\ mine[d].gen \in Nat
           /\ mine[d] = [seq |-> mine[d].seq, gen |-> mine[d].gen]
<1>1. mine[d] \in Stream
  BY DEF TypeOK
<1>2. /\ mine[d].seq \in Attempt /\ mine[d].gen \in 0..MaxDrives
      /\ mine[d] = [seq |-> mine[d].seq, gen |-> mine[d].gen]
  BY <1>1 DEF Stream
<1>3. mine[d].seq \in Nat
  BY <1>2, Numbers
<1>4. mine[d].gen \in Nat
  BY <1>2, Numbers
<1> QED
  BY <1>1, <1>2, <1>3, <1>4

\* A stream is never taken for the absence of one
LEMMA StreamIsSomething == \A x \in Stream : x # Nothing
<1>1. ASSUME NEW x \in Stream
      PROVE  x \in [seq : Nat, gen : Nat]
  <2>1. /\ x.seq \in Attempt /\ x.gen \in 0..MaxDrives
        /\ x = [seq |-> x.seq, gen |-> x.gen]
    BY DEF Stream
  <2>2. x.seq \in Nat /\ x.gen \in Nat
    BY <2>1, Numbers
  <2> QED
    BY <2>1, <2>2
<1> QED
  BY <1>1, StreamAssumption

-----------------------------------------------------------------------------
(* The transactions on the rows *)

Opened(d) ==
    /\ pc[d] = "open" /\ owner = d /\ ~Terminal /\ Same(d)
    /\ request' = [status |-> "streaming", seq |-> request.seq, gen |-> request.gen + 1, beat |-> 0]
    /\ attempt' = [attempt EXCEPT ![request.seq] = "running"]
    /\ operation' = "running"
    /\ UNCHANGED <<fence, ending>>

Closed ==
    /\ ~Terminal
    /\ \E how \in {"failed", "cancelled"} : Settle(how)

Retried(d) ==
    /\ pc[d] = "retry" /\ owner = d /\ Exact(d) /\ request.status = "streaming"
    /\ request.seq <= MaxRetries
    /\ request' = [status |-> "retrying", seq |-> request.seq + 1, gen |-> 0, beat |-> 0]
    /\ attempt' = [attempt EXCEPT ![request.seq] = "transient_failed", ![request.seq + 1] = "pending"]
    /\ UNCHANGED <<operation, fence, ending>>

Completed ==
    /\ request.status = "streaming" /\ fence = Nothing
    /\ request' = [request EXCEPT !.status = "terminal", !.beat = 0]
    /\ attempt' = [attempt EXCEPT ![request.seq] = "completed"]
    /\ operation' = "completed" /\ fence' = Identity /\ ending' = "completed"

Beaten ==
    /\ request.status = "streaming" /\ request.beat < MaxBeats
    /\ request' = [request EXCEPT !.beat = @ + 1]
    /\ UNCHANGED <<attempt, operation, fence, ending>>

\* Whatever happens, the rows change by one of these transactions or not at all
LEMMA RowMoves ==
    ASSUME IInv, [Next]_vars
    PROVE  \/ UNCHANGED rows
           \/ \E d \in Drive : Opened(d) \/ Retried(d)
           \/ Closed \/ Completed \/ Beaten
<1> USE DEF rows
<1>0. TypeOK /\ Opens
  BY DEF IInv
<1>1. ASSUME NEW d \in Drive, Step(d)
      PROVE  UNCHANGED rows \/ Opened(d) \/ Retried(d) \/ Closed
  <2>1. CASE Start(d) \/ Delay(d) \/ TimeOut(d) \/ Judge(d) \/ Fenced(d) \/ Aborted(d) \/ Use(d)
    BY <2>1 DEF Start, Delay, TimeOut, Judge, Fenced, Leave, Aborted, Use
  <2>2. CASE OpenSocket(d)
    <3>1. CASE ~(Terminal \/ ~Same(d))
      <4>1. [mine[d] EXCEPT !.gen = @ + 1] = [seq |-> request.seq, gen |-> request.gen + 1]
        BY <3>1, <1>0, MineTyped DEF Same, Identity
      <4> QED
        BY <2>2, <3>1, <4>1 DEF OpenSocket, Opened, Stale
    <3> QED
      BY <2>2, <3>1 DEF OpenSocket
  <2>3. CASE Fail(d)
    BY <2>3 DEF Fail, Closed, Exact
  <2>4. CASE Retry(d)
    <3>1. CASE Exact(d) /\ turn = "active" /\ request.status = "streaming"
      <4>1. mine[d].seq = request.seq /\ request.seq <= MaxRetries
        BY <2>4, <3>1, <1>0 DEF Exact, Same, Identity, Retry, Opens
      <4> QED
        BY <2>4, <3>1, <4>1 DEF Retry, Retried, Stale
    <3> QED
      BY <2>4, <3>1 DEF Retry
  <2>5. CASE EndTurn(d)
    BY <2>5 DEF EndTurn, Closed
  <2> QED
    BY <1>1, <2>1, <2>2, <2>3, <2>4, <2>5 DEF Step
<1>2. ASSUME NEW d \in Drive, Refuse(d) \/ Lose(d) \/ TakeOver(d)
      PROVE  UNCHANGED rows
  BY <1>2 DEF Refuse, Lose, Leave, TakeOver
<1>3. ASSUME NEW s \in sockets, Output(s)
      PROVE  UNCHANGED rows \/ Beaten
  BY <1>3 DEF Output, Accepts, Beaten
<1>4. ASSUME NEW s \in sockets, Complete(s)
      PROVE  Completed
  BY <1>4 DEF Complete, Accepts, Completed, StreamOf, Identity
<1>5. ASSUME NEW s \in sockets, SocketEnds(s)
      PROVE  UNCHANGED rows
  BY <1>5 DEF SocketEnds
<1>6. CASE Interrupt \/ Cancel \/ UNCHANGED vars
  BY <1>6 DEF Interrupt, Cancel, Closed, vars
<1> QED
  BY <1>1, <1>2, <1>3, <1>4, <1>5, <1>6 DEF Next

\* The rows agree after each of them
LEMMA RowsStep ==
    ASSUME IInv, [Next]_vars
    PROVE  AggregateAgrees'
<1> USE DEF rows
<1>0. TypeOK /\ AggregateAgrees
  BY DEF IInv
<1>t. /\ request.seq \in Attempt /\ request.seq \in Nat /\ request.gen \in Nat
      /\ Attempt \subseteq Nat /\ attempt \in [Attempt -> {"none", "pending", "running",
             "transient_failed", "completed", "failed", "cancelled"}]
  BY <1>0, RequestTyped, Numbers DEF TypeOK
<1>1. CASE UNCHANGED rows
  BY <1>0, <1>1 DEF AggregateAgrees, Terminal, Identity
<1>2. ASSUME NEW d \in Drive, Opened(d)
      PROVE  AggregateAgrees'
  BY <1>0, <1>t, <1>2 DEF Opened, AggregateAgrees, Terminal, Identity
<1>3. ASSUME NEW d \in Drive, Retried(d)
      PROVE  AggregateAgrees'
  <2>1. request.seq + 1 \in Attempt
    BY <1>t, <1>3, StreamAssumption DEF Retried, Attempt
  <2>2. \A a \in Attempt : attempt'[a] = IF a = request.seq + 1 THEN "pending"
                                          ELSE IF a = request.seq THEN "transient_failed" ELSE attempt[a]
    BY <1>t, <1>3, <2>1 DEF Retried
  <2>3. request'.seq = request.seq + 1 /\ request'.gen = 0 /\ request'.status = "retrying"
        /\ UNCHANGED <<operation, fence, ending>> /\ request.status = "streaming" /\ fence = Nothing
    BY <1>3 DEF Retried, Exact
  <2>4. \A a \in Attempt : /\ a < request'.seq => attempt'[a] = "transient_failed"
                           /\ a > request'.seq <=> attempt'[a] = "none"
    <3> SUFFICES ASSUME NEW a \in Attempt
                 PROVE  /\ a < request'.seq => attempt'[a] = "transient_failed"
                        /\ a > request'.seq <=> attempt'[a] = "none"
      OBVIOUS
    <3>1. a \in Nat
      BY <1>t
    <3>2. CASE a < request.seq
      BY <1>0, <1>t, <2>2, <2>3, <3>1, <3>2 DEF AggregateAgrees
    <3>3. CASE a = request.seq
      BY <1>t, <2>2, <2>3, <3>1, <3>3
    <3>4. CASE a = request.seq + 1
      BY <1>t, <2>2, <2>3, <3>1, <3>4
    <3>5. CASE a > request.seq + 1
      BY <1>0, <1>t, <2>2, <2>3, <3>1, <3>5 DEF AggregateAgrees
    <3> QED
      BY <1>t, <3>1, <3>2, <3>3, <3>4, <3>5
  <2>5. attempt'[request'.seq] = "pending" /\ request'.seq > 1 /\ operation = "running"
    BY <1>0, <1>t, <2>1, <2>2, <2>3, Numbers DEF AggregateAgrees
  <2>6. ending = "none"
    BY <1>0, <2>3 DEF AggregateAgrees, Terminal
  <2> QED
    BY <2>3, <2>4, <2>5, <2>6 DEF AggregateAgrees, Terminal
<1>4. CASE Closed
  BY <1>0, <1>t, <1>4, RequestTyped DEF Closed, Settle, AggregateAgrees, Terminal, Identity
<1>5. CASE Completed
  <2>1. Identity # Nothing
    BY <1>0, RequestTyped, StreamIsSomething
  <2>2. /\ request'.status = "terminal" /\ request'.seq = request.seq /\ request'.gen = request.gen
        /\ \A a \in Attempt : attempt'[a] = IF a = request.seq THEN "completed" ELSE attempt[a]
        /\ operation' = "completed" /\ fence' = Identity /\ ending' = "completed"
        /\ request.status = "streaming"
    BY <1>0, <1>t, <1>5, RequestTyped DEF Completed
  <2> QED
    BY <1>0, <1>t, <2>1, <2>2 DEF AggregateAgrees, Terminal, Identity
<1>6. CASE Beaten
  BY <1>0, <1>6, RequestTyped DEF Beaten, AggregateAgrees, Terminal, Identity
<1> QED
  BY <1>1, <1>2, <1>3, <1>4, <1>5, <1>6, RowMoves

-----------------------------------------------------------------------------
(* Types *)

Place == {"idle", "start", "delay", "open", "sending", "judge", "fail", "retry",
          "answered", "error", "thrown", "gone", "done"}

LEMMA RowsTyped ==
    ASSUME IInv, [Next]_vars
    PROVE  /\ request' \in [status : {"prepared", "streaming", "retrying", "terminal"},
                            seq : Attempt, gen : 0..MaxDrives, beat : 0..MaxBeats]
           /\ attempt' \in [Attempt -> {"none", "pending", "running", "transient_failed",
                                        "completed", "failed", "cancelled"}]
           /\ operation' \in {"pending", "running", "completed", "failed", "cancelled"}
           /\ fence' \in Stream \cup {Nothing}
           /\ ending' \in {"none", "completed", "failed", "cancelled"}
<1> USE DEF rows
<1>0. TypeOK /\ Opens
  BY DEF IInv
<1>1. CASE UNCHANGED rows
  BY <1>0, <1>1 DEF TypeOK
<1>2. ASSUME NEW d \in Drive, Opened(d)
      PROVE  request.gen + 1 \in 0..MaxDrives
  BY <1>0, <1>2, RequestTyped, Numbers DEF Opened, Opens, Drive
<1>3. ASSUME NEW d \in Drive, Retried(d)
      PROVE  request.seq + 1 \in Attempt
  BY <1>0, <1>3, RequestTyped, StreamAssumption DEF Retried, Attempt
<1>4. CASE \E d \in Drive : Opened(d)
  BY <1>0, <1>2, <1>4, RequestTyped, Numbers DEF Opened, TypeOK
<1>5. CASE \E d \in Drive : Retried(d)
  BY <1>0, <1>3, <1>5, RequestTyped, Numbers DEF Retried, TypeOK
<1>6. CASE Closed
  BY <1>0, <1>6, RequestTyped DEF Closed, Settle, TypeOK
<1>7. CASE Completed
  BY <1>0, <1>7, RequestTyped, Numbers DEF Completed, TypeOK
<1>8. CASE Beaten
  BY <1>0, <1>8, RequestTyped, Numbers DEF Beaten, TypeOK
<1> QED
  BY <1>1, <1>4, <1>5, <1>6, <1>7, <1>8, RowMoves

\* A drive is sent to a place
LEMMA ResolvedTyped ==
    ASSUME TypeOK, NEW d \in Drive, NEW where \in Place, Resolved(d) \/ Goto(d, where)
    PROVE  /\ pc' \in [Drive -> Place]
           /\ \A e \in Drive : e # d => pc'[e] = pc[e]
           /\ Resolved(d) => pc'[d] = IF ending = "completed" THEN "answered" ELSE "error"
           /\ Goto(d, where) => pc'[d] = where
BY DEF TypeOK, Resolved, Goto, Place

LEMMA TypeStep ==
    ASSUME IInv, [Next]_vars
    PROVE  TypeOK'
<1> USE DEF turnVars, driveVars
<1>0. TypeOK /\ Opens /\ pc \in [Drive -> Place]
  BY DEF IInv, TypeOK, Place
<1>m. ASSUME pc' \in [Drive -> Place], turn' \in {"active", "over"},
             stop' \in BOOLEAN, used' \in BOOLEAN, raced' \in BOOLEAN, owner' \in Drive,
             mine' \in [Drive -> Stream], saw' \in [Drive -> 0..MaxBeats],
             unsafe' \in [Drive -> BOOLEAN], verdict' \in [Drive -> Verdict], sockets' \subseteq Socket
      PROVE  TypeOK'
  BY <1>m, RowsTyped DEF TypeOK, Place
<1>p. \A x \in {"idle", "start", "delay", "open", "sending", "judge", "fail", "retry",
                "answered", "error", "thrown", "gone", "done"} : x \in Place
  BY DEF Place
<1>b. request.beat \in 0..MaxBeats /\ Identity \in Stream
  BY <1>0, RequestTyped
<1>1. ASSUME NEW d \in Drive, Start(d) \/ Delay(d)
      PROVE  TypeOK'
  <2>1. pc' \in [Drive -> Place]
    BY <1>1, <1>0, <1>p, ResolvedTyped DEF Start, Delay
  <2>2. mine' \in [Drive -> Stream]
    BY <1>1, <1>0, <1>b DEF Start, Delay, TypeOK
  <2> QED
    BY <1>1, <2>1, <2>2, <1>0, <1>m DEF Start, Delay, TypeOK
<1>2. ASSUME NEW d \in Drive, Refuse(d) \/ TimeOut(d) \/ Judge(d)
      PROVE  TypeOK'
  <2>1. pc' \in [Drive -> Place]
    BY <1>2, <1>0, <1>p, ResolvedTyped DEF Refuse, TimeOut, Judge
  <2>2. saw' \in [Drive -> 0..MaxBeats]
    BY <1>2, <1>0, <1>b DEF Refuse, TimeOut, Judge, TypeOK
  <2>3. verdict' \in [Drive -> Verdict]
    BY <1>2, <1>0 DEF Refuse, TimeOut, Judge, TypeOK, Verdict
  <2> QED
    BY <1>2, <2>1, <2>2, <2>3, <1>0, <1>m DEF Refuse, TimeOut, Judge, TypeOK
<1>3. ASSUME NEW d \in Drive, OpenSocket(d)
      PROVE  TypeOK'
  <2>1. pc' \in [Drive -> Place]
    BY <1>3, <1>0, <1>p, ResolvedTyped DEF OpenSocket
  <2>2. CASE Terminal \/ ~Same(d)
    BY <1>3, <2>1, <2>2, <1>0, <1>m DEF OpenSocket, TypeOK
  <2>3. CASE ~(Terminal \/ ~Same(d))
    <3> DEFINE next == [mine[d] EXCEPT !.gen = @ + 1]
    <3>1. next = [seq |-> request.seq, gen |-> request.gen + 1]
      BY <2>3, <1>0, MineTyped DEF Same, Identity
    <3>2. owner = d /\ request.gen < d
      BY <1>3, <1>0 DEF OpenSocket, Stale, Opens
    <3>3. request.seq \in Attempt /\ request.gen + 1 \in 1..MaxDrives
      BY <3>2, <1>0, RequestTyped, Numbers DEF Drive
    <3>4. next \in Stream /\ [drive |-> d, seq |-> next.seq, gen |-> next.gen] \in Socket
      BY <3>1, <3>3, Numbers DEF Stream, Socket
    <3>5. /\ mine' = [mine EXCEPT ![d] = next] /\ UNCHANGED <<turnVars, saw, raced>>
          /\ sockets' = sockets \cup {[drive |-> d, seq |-> next.seq, gen |-> next.gen]}
          /\ unsafe' = [unsafe EXCEPT ![d] = FALSE] /\ verdict' = [verdict EXCEPT ![d] = "none"]
      BY <1>3, <2>3 DEF OpenSocket
    <3>6. mine' \in [Drive -> Stream] /\ sockets' \subseteq Socket
      BY <3>4, <3>5, <1>0 DEF TypeOK
    <3>7. unsafe' \in [Drive -> BOOLEAN] /\ verdict' \in [Drive -> Verdict]
      BY <3>5, <1>0 DEF TypeOK, Verdict
    <3> QED
      BY <2>1, <3>5, <3>6, <3>7, <1>0, <1>m DEF TypeOK
  <2> QED
    BY <2>2, <2>3
<1>4. ASSUME NEW d \in Drive, Fail(d) \/ Fenced(d) \/ Aborted(d) \/ Use(d) \/ EndTurn(d) \/ Lose(d)
      PROVE  TypeOK'
  <2>1. pc' \in [Drive -> Place]
    BY <1>4, <1>0, <1>p, ResolvedTyped DEF Fail, Fenced, Leave, Aborted, Use, EndTurn, Lose
  <2> QED
    BY <1>4, <2>1, <1>0, <1>m DEF Fail, Fenced, Leave, Aborted, Use, EndTurn, Lose, TypeOK
<1>5. ASSUME NEW d \in Drive, Retry(d)
      PROVE  TypeOK'
  <2>1. pc' \in [Drive -> Place]
    BY <1>5, <1>0, <1>p, ResolvedTyped DEF Retry
  <2>2. [seq |-> mine[d].seq + 1, gen |-> 0] \in Stream
    <3>1. mine[d].seq \in Nat /\ mine[d].seq <= MaxRetries
      BY <1>5, <1>0, MineTyped DEF Retry, Opens
    <3>2. mine[d].seq + 1 \in Attempt
      BY <3>1, StreamAssumption DEF Attempt
    <3> QED
      BY <3>2, Numbers DEF Stream
  <2>3. mine' \in [Drive -> Stream]
    BY <1>5, <2>2, <1>0 DEF Retry, TypeOK
  <2> QED
    BY <1>5, <2>1, <2>3, <1>0, <1>m DEF Retry, TypeOK
<1>6. ASSUME NEW d \in Drive, TakeOver(d)
      PROVE  TypeOK'
  <2>1. d + 1 \in Drive
    BY <1>6, Numbers DEF TakeOver, Drive
  <2>2. pc' \in [Drive -> Place]
    BY <1>6, <2>1, <1>0, <1>p, ResolvedTyped DEF TakeOver
  <2> QED
    BY <1>6, <2>1, <2>2, <1>0, <1>m DEF TakeOver, TypeOK
<1>7. ASSUME NEW s \in sockets, Output(s) \/ Complete(s)
      PROVE  TypeOK'
  BY <1>7, <1>0, <1>m DEF Output, Complete, TypeOK
<1>8. ASSUME NEW s \in sockets, SocketEnds(s)
      PROVE  TypeOK'
  <2>1. s.drive \in Drive
    BY <1>0 DEF TypeOK, Socket
  <2>2. pc' \in [Drive -> Place]
    BY <1>8, <2>1, <1>0, <1>p, ResolvedTyped DEF SocketEnds
  <2>3. verdict' \in [Drive -> Verdict]
    BY <1>8, <1>0 DEF SocketEnds, TypeOK
  <2> QED
    BY <1>8, <2>2, <2>3, <1>0, <1>m DEF SocketEnds, TypeOK
<1>9. CASE Interrupt \/ Cancel \/ UNCHANGED vars
  BY <1>9, <1>0, <1>m DEF Interrupt, Cancel, vars, TypeOK
<1> QED
  BY <1>1, <1>2, <1>3, <1>4, <1>5, <1>6, <1>7, <1>8, <1>9 DEF Next, Step

-----------------------------------------------------------------------------
(* The drive of the current lease *)

Drives == OwnerInStep /\ Opens /\ Speakers /\ Judged /\ AnswerHeld

\* What the steps below know of the state
LEMMA DriveTyped ==
    ASSUME IInv
    PROVE  /\ pc \in [Drive -> Place] /\ mine \in [Drive -> Stream]
           /\ saw \in [Drive -> 0..MaxBeats] /\ owner \in Drive /\ owner \in Nat /\ Drive \subseteq Nat
           /\ request.seq \in Nat /\ request.gen \in Nat /\ request.beat \in Nat
           /\ \A s \in sockets : s.drive \in Drive /\ s.drive \in Nat /\ s.gen \in 1..MaxDrives
           /\ \A d \in Drive : Goto(d, "gone") => pc'[d] = "gone"
           /\ fence # Nothing => Terminal
           /\ ending = "completed" => Terminal
           /\ ~Terminal => ending = "none" /\ fence = Nothing
<1>1. TypeOK /\ AggregateAgrees
  BY DEF IInv
<1>2. /\ pc \in [Drive -> Place] /\ mine \in [Drive -> Stream]
      /\ saw \in [Drive -> 0..MaxBeats] /\ owner \in Drive
  BY <1>1 DEF TypeOK, Place
<1>3. owner \in Nat /\ Drive \subseteq Nat
  BY <1>2, Numbers
<1>4. \A s \in sockets : s.drive \in Drive /\ s.gen \in 1..MaxDrives
  BY <1>1 DEF TypeOK, Socket
<1>5. /\ fence # Nothing => Terminal
      /\ ending = "completed" => Terminal
      /\ ~Terminal => ending = "none" /\ fence = Nothing
  BY <1>1 DEF AggregateAgrees
<1>6. \A d \in Drive : Goto(d, "gone") => pc'[d] = "gone"
  BY <1>2 DEF Goto
<1> QED
  BY <1>1, <1>2, <1>3, <1>4, <1>5, <1>6, RequestTyped

\* A drive that lost the lease may go on: it disturbs nobody
LEMMA AsideStep ==
    ASSUME IInv, NEW d \in Drive, d # owner,
           UNCHANGED <<rows, turnVars, raced>>, sockets' \subseteq sockets,
           \A e \in Drive : e # d => pc'[e] = pc[e] /\ mine'[e] = mine[e] /\ saw'[e] = saw[e],
           pc'[d] = "retry" => mine'[d].seq <= MaxRetries
    PROVE  Drives'
BY DriveTyped DEF IInv, Drives, rows, turnVars, OwnerInStep, Opens, Speakers, Judged, AnswerHeld,
       AnswerNotWasted, Terminal, Same, Identity, StreamOf

\* The drive of the lease goes from place to place and leaves the rows alone
LEMMA MoveStep ==
    ASSUME IInv, UNCHANGED <<rows, turnVars, raced>>, sockets' \subseteq sockets,
           \A e \in Drive : e # owner => pc'[e] = pc[e] /\ mine'[e] = mine[e] /\ saw'[e] = saw[e],
           pc'[owner] \in {"delay", "open", "sending", "judge", "fail", "retry"}
               => Terminal \/ mine'[owner] = Identity,
           pc'[owner] \in {"start", "delay", "open"} => pc[owner] \in {"start", "delay", "open"},
           pc'[owner] \in {"delay", "open"} => ending # "completed",
           pc'[owner] \in {"sending", "judge", "retry"} => Terminal \/ request.status = "streaming",
           pc'[owner] \in {"fail", "retry"} => Terminal \/ saw'[owner] = request.beat \/ raced,
           pc'[owner] = "retry" => mine'[owner].seq <= MaxRetries,
           pc'[owner] = "error" /\ (~Terminal \/ ending = "completed") => stop \/ raced,
           pc'[owner] # "thrown", pc[owner] # "done"
    PROVE  Drives'
<1> USE DEF rows, turnVars
<1>1. OwnerInStep' /\ Opens' /\ Speakers'
  BY DriveTyped DEF IInv, OwnerInStep, Opens, Speakers, Terminal, Same, Identity, StreamOf
<1>2. Judged' /\ AnswerHeld'
  BY DriveTyped DEF IInv, Judged, AnswerHeld, AnswerNotWasted, Terminal
<1> QED
  BY <1>1, <1>2 DEF Drives

\* An open request finds its drive in step: it would only find it out of step when settled
LEMMA InStep ==
    ASSUME IInv, pc[owner] \in {"delay", "open", "sending", "judge", "fail", "retry"}, ~Terminal
    PROVE  Same(owner) /\ fence = Nothing /\ turn = "active"
BY DriveTyped DEF IInv, OwnerInStep, Judged, TypeOK

LEMMA DriveStep ==
    ASSUME IInv, [Next]_vars
    PROVE  Drives'
<1> USE DEF rows, turnVars, driveVars
<1>t. /\ pc \in [Drive -> Place] /\ mine \in [Drive -> Stream] /\ saw \in [Drive -> 0..MaxBeats]
      /\ owner \in Drive
  BY DriveTyped
<1>i. TypeOK /\ OwnerInStep /\ Opens /\ Speakers /\ Judged /\ AnswerHeld
  BY DEF IInv
<1>1. ASSUME NEW d \in Drive, Start(d)
      PROVE  Drives'
  <2>1. /\ mine' = [mine EXCEPT ![d] = Identity] /\ UNCHANGED <<rows, turnVars, saw, sockets, raced>>
        /\ \A e \in Drive : e # d => pc'[e] = pc[e]
        /\ pc[d] = "start" /\ pc'[d] \in {"delay", "open", "answered", "error"}
        /\ pc'[d] \in {"delay", "open"} => ~Terminal
        /\ pc'[d] = "error" => (Terminal /\ ending # "completed") \/ stop
    BY <1>1, <1>t DEF Start, Resolved, Goto
  <2>2. mine'[d] = Identity /\ \A e \in Drive : e # d => mine'[e] = mine[e]
    BY <2>1, <1>t
  <2>3. CASE d # owner
    BY <2>1, <2>2, <2>3, AsideStep
  <2>4. CASE d = owner
    BY <2>1, <2>2, <2>4, MoveStep, DriveTyped
  <2> QED
    BY <2>3, <2>4
<1>2. ASSUME NEW d \in Drive, Delay(d)
      PROVE  Drives'
  <2>1. /\ UNCHANGED <<rows, turnVars, mine, saw, sockets, raced>>
        /\ \A e \in Drive : e # d => pc'[e] = pc[e]
        /\ pc[d] = "delay" /\ pc'[d] \in {"open", "answered", "error"}
        /\ pc'[d] = "open" => ~Terminal /\ Same(d)
        /\ pc'[d] = "error" => (Terminal \/ ~Same(d)) /\ ending # "completed"
    BY <1>2, <1>t DEF Delay, Resolved, Goto
  <2>2. CASE d # owner
    BY <2>1, <2>2, AsideStep
  <2>3. CASE d = owner
    BY <2>1, <2>3, MoveStep, DriveTyped, InStep DEF Same
  <2> QED
    BY <2>2, <2>3
<1>3. ASSUME NEW d \in Drive, Refuse(d)
      PROVE  Drives'
  <2>1. /\ UNCHANGED <<rows, turnVars, mine, sockets, raced>>
        /\ \A e \in Drive : e # d => pc'[e] = pc[e] /\ saw'[e] = saw[e]
        /\ pc[d] = "open" /\ pc'[d] = "fail" /\ saw'[d] = request.beat /\ Same(d) /\ ~Terminal
    BY <1>3, <1>t DEF Refuse, Goto
  <2>2. CASE d # owner
    BY <2>1, <2>2, AsideStep
  <2>3. CASE d = owner
    BY <2>1, <2>3, MoveStep, DriveTyped DEF Same
  <2> QED
    BY <2>2, <2>3
<1>4. ASSUME NEW d \in Drive, OpenSocket(d)
      PROVE  Drives'
  <2>0. pc[d] = "open" /\ d = owner
    BY <1>4 DEF OpenSocket, Stale
  <2>1. CASE Terminal \/ ~Same(d)
    <3>1. /\ UNCHANGED <<rows, turnVars, mine, saw, sockets, raced>>
          /\ pc'[d] = "error" /\ \A e \in Drive : e # d => pc'[e] = pc[e]
      BY <1>4, <2>1, <1>t DEF OpenSocket, Goto
    <3>2. Terminal /\ ending # "completed"
      BY <2>0, <2>1, <1>i, InStep DEF AnswerHeld
    <3> QED
      BY <2>0, <3>1, <3>2, MoveStep
  <2>2. CASE ~(Terminal \/ ~Same(d))
    <3> DEFINE next == [mine[d] EXCEPT !.gen = @ + 1]
    <3>1. next = [seq |-> request.seq, gen |-> request.gen + 1]
      BY <2>2, <1>i, MineTyped DEF Same, Identity
    <3>2. /\ request' = [status |-> "streaming", seq |-> request.seq, gen |-> request.gen + 1, beat |-> 0]
          /\ sockets' = sockets \cup {[drive |-> d, seq |-> request.seq, gen |-> request.gen + 1]}
          /\ mine'[d] = [seq |-> request.seq, gen |-> request.gen + 1]
          /\ \A e \in Drive : e # d => pc'[e] = pc[e] /\ mine'[e] = mine[e]
          /\ pc'[d] = "sending" /\ UNCHANGED <<fence, ending, turnVars, saw, raced>>
      BY <1>4, <2>2, <3>1, <1>t DEF OpenSocket, Goto
    <3>3. OwnerInStep' /\ Opens'
      BY <2>0, <3>2, <1>i, DriveTyped DEF OwnerInStep, Opens, Terminal, Same, Identity
    <3>4. Speakers'
      BY <2>0, <3>2, <1>i, DriveTyped DEF Speakers
    <3>5. Judged' /\ AnswerHeld'
      BY <2>0, <2>2, <3>2, <1>i, DriveTyped DEF Judged, AnswerHeld, AnswerNotWasted, Terminal
    <3> QED
      BY <3>3, <3>4, <3>5 DEF Drives
  <2> QED
    BY <2>1, <2>2
<1>5. ASSUME NEW d \in Drive, TimeOut(d)
      PROVE  Drives'
  <2>1. /\ UNCHANGED <<rows, turnVars, mine, saw, sockets, raced>>
        /\ \A e \in Drive : e # d => pc'[e] = pc[e]
        /\ pc[d] = "sending" /\ pc'[d] = "judge"
    BY <1>5, <1>t DEF TimeOut, Goto
  <2>2. CASE d # owner
    BY <2>1, <2>2, AsideStep
  <2>3. CASE d = owner
    BY <2>1, <2>3, <1>i, MoveStep DEF Same, OwnerInStep, Judged
  <2> QED
    BY <2>2, <2>3
<1>6. ASSUME NEW d \in Drive, Judge(d)
      PROVE  Drives'
  <2>1. /\ UNCHANGED <<rows, turnVars, mine, sockets, raced>>
        /\ \A e \in Drive : e # d => pc'[e] = pc[e] /\ saw'[e] = saw[e]
        /\ pc[d] = "judge" /\ pc'[d] \in {"answered", "error", "retry", "fail"} /\ saw'[d] = request.beat
        /\ pc'[d] \in {"retry", "fail"} => ~Terminal /\ Same(d)
        /\ pc'[d] = "retry" => mine[d].seq <= MaxRetries
        /\ pc'[d] = "error" => (Terminal \/ fence # Nothing \/ ~Same(d)) /\ ending # "completed"
    BY <1>6, <1>t DEF Judge, Resolved, Goto, Retryable
  <2>2. CASE d # owner
    BY <2>1, <2>2, AsideStep
  <2>3. CASE d = owner
    <3>1. Terminal \/ request.status = "streaming"
      BY <2>1, <2>3, <1>i DEF Judged
    <3> QED
      BY <2>1, <2>3, <3>1, MoveStep, DriveTyped, InStep DEF Same
  <2> QED
    BY <2>2, <2>3
<1>7. ASSUME NEW d \in Drive, Fail(d)
      PROVE  Drives'
  <2>0. /\ pc[d] = "fail" /\ d = owner /\ UNCHANGED <<turnVars, mine, saw, sockets, raced>>
        /\ \A e \in Drive : e # d => pc'[e] = pc[e]
    BY <1>7, <1>t DEF Fail, Stale, Resolved, Goto
  <2>1. CASE Exact(d)
    <3>1. /\ request' = [request EXCEPT !.status = "terminal"] /\ ending' = "failed" /\ pc'[d] = "error"
          /\ UNCHANGED fence
      BY <1>7, <2>1, <1>t DEF Fail, Settle, Goto
    <3>2. request'.status = "terminal" /\ request'.gen = request.gen /\ request'.seq = request.seq
      BY <3>1, <1>i, RequestTyped
    <3>3. OwnerInStep' /\ Opens' /\ Speakers'
      BY <2>0, <3>1, <3>2, <1>i DEF OwnerInStep, Opens, Speakers, Terminal, Identity, StreamOf
    <3>4. Judged' /\ AnswerHeld'
      BY <2>0, <3>1, <3>2, <1>i DEF Judged, AnswerHeld, AnswerNotWasted, Terminal
    <3> QED
      BY <3>3, <3>4 DEF Drives
  <2>2. CASE ~Exact(d)
    <3>1. UNCHANGED rows /\ pc'[d] = IF ending = "completed" THEN "answered" ELSE "error"
      BY <1>7, <2>2, <1>t DEF Fail, Resolved, Goto
    <3>2. ~Terminal => raced
      BY <2>0, <2>2, <1>i, InStep DEF Exact, Judged
    <3> QED
      BY <2>0, <3>1, <3>2, MoveStep
  <2> QED
    BY <2>1, <2>2
<1>8. ASSUME NEW d \in Drive, Retry(d)
      PROVE  Drives'
  <2>0. /\ pc[d] = "retry" /\ d = owner /\ UNCHANGED <<turnVars, saw, sockets, raced>>
        /\ \A e \in Drive : e # d => pc'[e] = pc[e]
    BY <1>8, <1>t DEF Retry, Stale, Resolved, Goto
  <2>1. CASE Exact(d) /\ turn = "active" /\ request.status = "streaming"
    <3>1. /\ request' = [status |-> "retrying", seq |-> mine[d].seq + 1, gen |-> 0, beat |-> 0]
          /\ mine'[d] = [seq |-> mine[d].seq + 1, gen |-> 0] /\ \A e \in Drive : e # d => mine'[e] = mine[e]
          /\ pc'[d] = "delay" /\ UNCHANGED <<fence, ending>>
      BY <1>8, <2>1, <1>t DEF Retry, Goto
    <3>2. request'.status = "retrying" /\ request'.gen = 0 /\ Identity' = mine'[d]
      BY <3>1 DEF Identity
    <3>3. OwnerInStep'
      BY <2>0, <3>2 DEF OwnerInStep, Same
    <3>4. Opens'
      BY <2>0, <3>1, <3>2, <1>i, DriveTyped, Numbers DEF Opens, Drive
    <3>5. Speakers'
      BY <2>0, <3>1, <3>2, <1>i, DriveTyped DEF Speakers, StreamOf
    <3>6. Judged' /\ AnswerHeld'
      BY <2>0, <2>1, <3>1, <3>2, <1>i, DriveTyped DEF Judged, AnswerHeld, AnswerNotWasted, Terminal, Exact
    <3> QED
      BY <3>3, <3>4, <3>5, <3>6 DEF Drives
  <2>2. CASE ~(Exact(d) /\ turn = "active" /\ request.status = "streaming")
    <3>1. UNCHANGED <<rows, mine>> /\ pc'[d] = IF ending = "completed" THEN "answered" ELSE "error"
      BY <1>8, <2>2, <1>t DEF Retry, Resolved, Goto
    <3>2. ~Terminal => raced
      BY <2>0, <2>2, <1>i, InStep DEF Exact, Judged
    <3> QED
      BY <2>0, <3>1, <3>2, MoveStep
  <2> QED
    BY <2>1, <2>2
<1>9. ASSUME NEW d \in Drive, Fenced(d) \/ Lose(d)
      PROVE  Drives'
  <2>1. /\ UNCHANGED <<rows, turnVars, mine, saw, sockets, raced>> /\ pc[d] # "done"
        /\ pc'[d] = "gone" /\ \A e \in Drive : e # d => pc'[e] = pc[e]
    BY <1>9, <1>t DEF Fenced, Lose, Leave, Goto
  <2>2. CASE d # owner
    BY <2>1, <2>2, AsideStep
  <2>3. CASE d = owner
    BY <2>1, <2>3, MoveStep
  <2> QED
    BY <2>2, <2>3
<1>10. ASSUME NEW d \in Drive, Aborted(d)
       PROVE  Drives'
  <2>1. /\ UNCHANGED <<rows, turnVars, mine, saw, sockets, raced>> /\ pc[d] # "done" /\ Terminal
        /\ pc'[d] = IF ending = "completed" THEN "answered" ELSE "error"
        /\ \A e \in Drive : e # d => pc'[e] = pc[e]
    BY <1>10, <1>t DEF Aborted, Resolved, Goto
  <2>2. CASE d # owner
    BY <2>1, <2>2, AsideStep
  <2>3. CASE d = owner
    BY <2>1, <2>3, MoveStep
  <2> QED
    BY <2>2, <2>3
<1>11. ASSUME NEW d \in Drive, Use(d)
       PROVE  Drives'
  <2>1. /\ UNCHANGED <<rows, stop, owner, mine, saw, sockets, raced>> /\ pc[d] = "answered" /\ d = owner
        /\ pc'[d] = "done" /\ \A e \in Drive : e # d => pc'[e] = pc[e]
        /\ turn' = "over" => stop \/ turn = "over"
    BY <1>11, <1>t DEF Use, Stale, Goto
  <2>2. OwnerInStep' /\ Opens' /\ Speakers'
    BY <2>1, <1>i DEF OwnerInStep, Opens, Speakers, Terminal, Identity, StreamOf
  <2>3. Judged' /\ AnswerHeld'
    BY <2>1, <1>i DEF Judged, AnswerHeld, AnswerNotWasted, Terminal
  <2> QED
    BY <2>2, <2>3 DEF Drives
<1>12. ASSUME NEW d \in Drive, EndTurn(d)
       PROVE  Drives'
  <2>1. /\ UNCHANGED <<stop, owner, mine, saw, sockets, raced>> /\ pc[d] = "error" /\ d = owner
        /\ pc'[d] = IF stop \/ Terminal THEN "done" ELSE "thrown"
        /\ \A e \in Drive : e # d => pc'[e] = pc[e]
        /\ turn' = "over" => stop \/ Terminal \/ turn = "over"
        /\ UNCHANGED rows \/ (stop /\ request' = [request EXCEPT !.status = "terminal"]
                                  /\ ending' = "cancelled" /\ UNCHANGED fence)
    BY <1>12, <1>t DEF EndTurn, Stale, Goto, Settle
  <2>2. /\ request'.gen = request.gen /\ request'.seq = request.seq
        /\ ending' = "completed" => ending = "completed"
    BY <2>1, <1>i, RequestTyped
  <2>3. OwnerInStep' /\ Opens' /\ Speakers'
    BY <2>1, <2>2, <1>i DEF OwnerInStep, Opens, Speakers, Terminal, Identity, StreamOf
  <2>4. Judged' /\ AnswerHeld'
    BY <2>1, <2>2, <1>i DEF Judged, AnswerHeld, AnswerNotWasted, Terminal
  <2> QED
    BY <2>3, <2>4 DEF Drives
<1>13. ASSUME NEW d \in Drive, TakeOver(d)
       PROVE  Drives'
  <2>1. /\ UNCHANGED <<rows, turn, stop, mine, saw, sockets, raced>> /\ owner = d /\ owner' = d + 1
        /\ turn = "active" /\ d + 1 \in Drive /\ pc'[d + 1] = "start"
        /\ \A e \in Drive : e # d + 1 => pc'[e] = pc[e]
    BY <1>13, <1>t, Numbers DEF TakeOver, Goto, Drive
  <2>2. OwnerInStep' /\ Opens' /\ Speakers'
    BY <2>1, <1>i, DriveTyped DEF OwnerInStep, Opens, Speakers, Terminal, Identity, StreamOf
  <2>3. Judged' /\ AnswerHeld'
    BY <2>1, <1>i DEF Judged, AnswerHeld, AnswerNotWasted, Terminal
  <2> QED
    BY <2>2, <2>3 DEF Drives
<1>14. ASSUME NEW s \in sockets, Output(s)
       PROVE  Drives'
  <2>1. UNCHANGED <<attempt, operation, fence, ending, turnVars, pc, mine, saw, sockets>>
    BY <1>14 DEF Output
  <2>2. /\ request'.status = request.status /\ request'.seq = request.seq /\ request'.gen = request.gen
        /\ raced => raced'
        /\ pc[owner] \in {"fail", "retry"} => request'.beat = request.beat \/ raced'
    <3>1. CASE UNCHANGED <<request, raced>>
      BY <3>1
    <3>2. CASE ~UNCHANGED <<request, raced>>
      <4>1. /\ request' = [request EXCEPT !.beat = @ + 1] /\ s.drive = owner
            /\ raced' = (raced \/ pc[s.drive] \in {"fail", "retry"})
        BY <1>14, <3>2 DEF Output, Accepts, Stale
      <4>2. request'.status = request.status /\ request'.seq = request.seq /\ request'.gen = request.gen
        BY <4>1, <1>i, RequestTyped
      <4> QED
        BY <4>1, <4>2
    <3> QED
      BY <3>1, <3>2
  <2>3. OwnerInStep' /\ Opens' /\ Speakers'
    BY <2>1, <2>2, <1>i DEF OwnerInStep, Opens, Speakers, Terminal, Same, Identity, StreamOf
  <2>4. Judged' /\ AnswerHeld'
    BY <2>1, <2>2, <1>i DEF Judged, AnswerHeld, AnswerNotWasted, Terminal
  <2> QED
    BY <2>3, <2>4 DEF Drives
<1>15. ASSUME NEW s \in sockets, Complete(s)
       PROVE  Drives'
  <2>1. UNCHANGED <<turnVars, driveVars, sockets, raced>>
    BY <1>15 DEF Complete
  <2>2. /\ request'.status = "terminal" /\ request'.seq = request.seq /\ request'.gen = request.gen
        /\ ending' = "completed"
    BY <1>15, <1>i, RequestTyped DEF Complete
  <2>3. turn = "active" /\ ~Terminal /\ pc[owner] \notin {"start", "delay", "open"}
    BY <1>15, <1>i DEF Complete, Accepts, Stale, Speakers, Terminal
  <2>4. OwnerInStep' /\ Opens' /\ Speakers'
    BY <2>1, <2>2, <1>i DEF OwnerInStep, Opens, Speakers, Terminal, Same, Identity, StreamOf
  <2>5. Judged' /\ AnswerHeld'
    BY <2>1, <2>2, <2>3, <1>i DEF Judged, AnswerHeld, AnswerNotWasted, Terminal
  <2> QED
    BY <2>4, <2>5 DEF Drives
<1>16. ASSUME NEW s \in sockets, SocketEnds(s)
       PROVE  Drives'
  <2>1. UNCHANGED <<rows, turnVars, mine, saw, raced>> /\ sockets' \subseteq sockets
    BY <1>16 DEF SocketEnds
  <2>2. s.drive \in Drive
    BY DriveTyped
  <2>3. CASE UNCHANGED pc
    BY <2>1, <2>3, <1>i DEF Drives, OwnerInStep, Opens, Speakers, Judged, AnswerHeld, AnswerNotWasted,
                          Terminal, Same, Identity, StreamOf
  <2>4. CASE ~UNCHANGED pc
    <3>1. /\ pc[s.drive] = "sending" /\ pc'[s.drive] \in {"answered", "error", "judge"}
          /\ \A e \in Drive : e # s.drive => pc'[e] = pc[e]
          /\ pc'[s.drive] = "error" => (Terminal \/ ~Same(s.drive)) /\ ending # "completed"
      BY <1>16, <2>2, <2>4, <1>t DEF SocketEnds, Resolved, Goto
    <3>2. CASE s.drive # owner
      BY <2>1, <2>2, <3>1, <3>2, AsideStep
    <3>3. CASE s.drive = owner
      <4>1. (Terminal \/ mine'[owner] = Identity) /\ (Terminal \/ request.status = "streaming")
        BY <2>1, <3>1, <3>3, <1>i DEF OwnerInStep, Judged, Same
      <4> QED
        BY <2>1, <3>1, <3>3, <4>1, MoveStep, InStep
    <3> QED
      BY <3>2, <3>3
  <2> QED
    BY <2>3, <2>4
<1>17. CASE Interrupt
  BY <1>17, <1>i DEF Interrupt, Drives, OwnerInStep, Opens, Speakers, Judged, AnswerHeld, AnswerNotWasted,
                    Terminal, Same, Identity, StreamOf
<1>18. CASE Cancel
  <2>1. UNCHANGED <<turnVars, driveVars, sockets, raced>> /\ turn = "active" /\ ending' = "cancelled"
    BY <1>18 DEF Cancel, Settle
  <2>2. request'.status = "terminal" /\ request'.seq = request.seq /\ request'.gen = request.gen
    BY <1>18, <1>i, RequestTyped DEF Cancel, Settle
  <2> QED
    BY <2>1, <2>2, <1>i DEF Drives, OwnerInStep, Opens, Speakers, Judged, AnswerHeld, AnswerNotWasted,
                           Terminal, Same, Identity, StreamOf
<1>19. CASE UNCHANGED vars
  BY <1>19, <1>i DEF vars, Drives, OwnerInStep, Opens, Speakers, Judged, AnswerHeld, AnswerNotWasted,
                    Terminal, Same, Identity, StreamOf
<1> QED
  BY <1>1, <1>2, <1>3, <1>4, <1>5, <1>6, <1>7, <1>8, <1>9, <1>10, <1>11, <1>12, <1>13, <1>14, <1>15,
     <1>16, <1>17, <1>18, <1>19 DEF Next, Step

-----------------------------------------------------------------------------
(* Results *)

LEMMA InitIInv == Init => IInv
<1> SUFFICES ASSUME Init PROVE IInv
  OBVIOUS
<1> USE DEF Init
<1>1. TypeOK
  <2>1. 1 \in Attempt /\ 0 \in 0..MaxDrives /\ 0 \in 0..MaxBeats /\ 1 \in Drive
    BY Numbers
  <2> QED
    BY <2>1 DEF TypeOK, Stream, Verdict
<1>2. AggregateAgrees
  BY Numbers DEF AggregateAgrees, Terminal, Identity
<1>3. OwnerInStep /\ Opens /\ Speakers
  BY Numbers DEF OwnerInStep, Opens, Speakers
<1>4. Judged /\ AnswerHeld
  BY Numbers DEF Judged, AnswerHeld, AnswerNotWasted, Terminal
<1> QED
  BY <1>1, <1>2, <1>3, <1>4 DEF IInv

LEMMA StepIInv == IInv /\ [Next]_vars => IInv'
BY TypeStep, RowsStep, DriveStep DEF IInv, Drives

\* The rows of a request and the memory of the drive that may write them stay
\* together: the induction every result below rests on.
THEOREM Invariance == Spec => []IInv
BY InitIInv, StepIInv, PTL DEF Spec

\* modelProviderControlPlane and the fixed operations of databaseWorker: for any
\* retry policy and any number of take-overs, a completion or a cancellation always
\* finds rows that assertModelRequestAggregate accepts, and the drive of the lease
\* works with the stream the row is at.
THEOREM RowsAndDriveAgree == Spec => []RequestSound
<1>1. IInv => RequestSound
  BY DEF IInv, RequestSound
<1> QED
  BY <1>1, Invariance, PTL

\* The terminal summary a late socket commits is read by the drive that had already
\* timed out, retried or failed: no Turn ends over a stored answer, except by an
\* interrupt or after an activity row made failRequest throw.
THEOREM AnswerReachesTurn == Spec => []AnswerNotWasted
<1>1. IInv => AnswerNotWasted
  BY DEF IInv, AnswerHeld
<1> QED
  BY <1>1, Invariance, PTL

\* A Turn that stays active over an open request with nobody to drive it, because
\* failRequest or createTransientRetry threw, was brought there by an activity row.
THEOREM StrandingNeedsRace == Spec => []StrandedRaced
<1>1. IInv => StrandedRaced
  BY DEF IInv, AnswerHeld, StrandedRaced, Stranded
<1> QED
  BY <1>1, Invariance, PTL

-----------------------------------------------------------------------------
\* A transaction on the rows is a step of ModelAnswer or none
LEMMA MappedStep == IInv /\ [Next]_vars => [Answer!AnswerNext]_(Answer!answerVars)
<1> SUFFICES ASSUME IInv, [Next]_vars
             PROVE  [Answer!AnswerNext]_(Answer!answerVars)
  OBVIOUS
<1> USE DEF Answer!answerVars, Answer!AnswerNext
<1>0. TypeOK /\ AggregateAgrees
  BY DEF IInv
<1>1. CASE UNCHANGED rows
  BY <1>1 DEF rows
<1>2. ASSUME NEW d \in Drive, Opened(d)
      PROVE  UNCHANGED Answer!answerVars
  BY <1>2 DEF Opened
<1>3. ASSUME NEW d \in Drive, Retried(d)
      PROVE  Answer!TryAgain
  BY <1>3, <1>0 DEF Retried, Exact, AggregateAgrees, Answer!TryAgain
<1>4. CASE Closed
  <2>1. request'.seq = request.seq /\ UNCHANGED fence /\ ending' \in {"failed", "cancelled"}
    BY <1>4, <1>0, RequestTyped DEF Closed, Settle
  <2>2. ending = "none"
    BY <1>4, <1>0 DEF Closed, AggregateAgrees
  <2> QED
    BY <2>1, <2>2 DEF Answer!GivenUp
<1>5. CASE Completed
  <2>1. request'.seq = request.seq /\ fence' = Identity /\ ending' = "completed" /\ request.status = "streaming"
    BY <1>5, <1>0, RequestTyped DEF Completed
  <2>2. fence' # Nothing /\ fence'.seq = request.seq
    BY <2>1, <1>0, RequestTyped, StreamIsSomething DEF Identity
  <2>3. ending = "none"
    BY <2>1, <1>0 DEF AggregateAgrees, Terminal
  <2> QED
    BY <2>1, <2>2, <2>3 DEF Answer!Answered
<1>6. CASE Beaten
  BY <1>6, <1>0, RequestTyped DEF Beaten
<1> QED
  BY <1>1, <1>2, <1>3, <1>4, <1>5, <1>6, RowMoves

\* Through late events, lost retries, crashes and take-overs, a request asks its
\* provider at most MaxRetries + 1 times, one attempt after the other, and is settled
\* once, by the answer of the attempt it was at or by giving up.
THEOREM Refinement == Spec => KeepsPromise
<1>1. Init => Answer!AnswerInit
  BY DEF Init, Answer!AnswerInit
<1>2. IInv /\ [Next]_vars => [Answer!AnswerNext]_(Answer!answerVars)
  BY MappedStep
<1> QED
  BY <1>1, <1>2, Invariance, PTL DEF Spec, KeepsPromise, Answer!AnswerSpec
=============================================================================

----------------------------- MODULE ClientFeed ------------------------------
(* How the pages of one host follow the database: the worker and the order of   *)
(* its answers (databaseWorker.ts), the bounded feed with its sessions          *)
(* (clientFeed.ts), the bridge that posts their frames and watches for          *)
(* acknowledgements (webviewFeedBridge.ts), and the page that applies them      *)
(* (shared/reliableKernelClientFeed.ts).                                        *)
(* All requests to the worker are answered in the order it executed them, and   *)
(* a commit of this host is announced before anything that was executed after   *)
(* it; requests may reach the worker in another order than they were made.      *)
EXTENDS Naturals, Sequences

CONSTANTS Client,        \* pages
          QueueLimit,    \* CLIENT_MAX_QUEUED_BATCHES, and the bytes of so many
          MaxResends,    \* FEED_MAX_FRAME_RESENDS
          Bounds,        \* the bounds of the behaviours that are looked at
          NoFrame, Unknown

Shared == "shared"
Read == {Shared, "baseline", "poll"}    \* a connecting page is a request of its own
AnyFrame == [sid : Nat, seq : Nat, kind : {"snapshot", "changes"}, commit : Nat, foreign : Nat]

ASSUME FeedAssumption ==
    /\ QueueLimit \in Nat /\ MaxResends \in Nat \ {0}
    /\ Bounds \subseteq [commits : Nat, foreign : Nat, faults : Nat, visits : [Client -> Nat]]
    /\ Client \cap Read = {} /\ Unknown \notin Nat
    /\ NoFrame \notin AnyFrame \cup [frame : AnyFrame, resent : Nat]

VARIABLES
    commits, foreign,    \* the database: commits of this host and of others
    asked,               \* requests the worker has not executed
    wire,                \* its announcements and answers on the way to the host
    known, polling       \* the data_version seen last; the poll timer runs
VARIABLES
    session,             \* the feed session of each page
    ready, visible,      \* what the bridge knows of the page
    post                 \* the frame the bridge waits for: lastDataPost
VARIABLES
    down, up,            \* what travels between bridge and page
    view                 \* what the page shows
VARIABLES
    bound,               \* how much of each may happen: commits of this host and of
                         \* others, failed reads and lost or late frames, and loads,
                         \* navigations and hidings of each page
    faults, visits       \* how much of it did
database == <<commits, foreign>>
poller == <<known, polling>>
bridge == <<ready, visible>>
limits == <<bound, faults, visits>>
vars == <<database, asked, wire, poller, session, bridge, post, down, up, view, limits>>

Fault == {"read", "frame"}

Frame == [sid : Nat, seq : Nat, kind : {"snapshot", "changes"},
          commit : 0..commits, foreign : 0..foreign]
Commit == [kind : {"commit"}, seq : 1..commits, wide : BOOLEAN]
Control == [kind : {"ack", "snapshot"}, sid : Nat, seq : Nat]

TypeOK ==
    /\ bound \in Bounds
    /\ commits \in 0..bound.commits /\ foreign \in 0..bound.foreign
    /\ asked \subseteq Read \cup Client
    /\ known \in 0..foreign \cup {Unknown} /\ polling \in BOOLEAN
    /\ \A c \in Client :
          /\ session[c].phase \in {"off", "baseline", "reading", "open", "failed"}
          /\ session[c].inflight \in Frame \cup {NoFrame}
          /\ session[c].queue \in Seq(Frame) /\ Len(session[c].queue) <= QueueLimit
          /\ session[c].handoff \in Seq(Commit)
          /\ session[c].queue # <<>> => session[c].inflight # NoFrame
          /\ session[c].refreshing => session[c].inflight = NoFrame
          /\ post[c] # NoFrame => post[c].frame \in Frame /\ post[c].resent <= MaxResends
          /\ down[c] \in Seq(Frame) /\ up[c] \in Seq(Control)
    /\ ready \in [Client -> BOOLEAN] /\ visible \in [Client -> BOOLEAN]
    /\ faults \in [Fault -> Nat] /\ visits \in [Client -> Nat]

NewSession(sid, phase) ==
    [sid |-> sid, phase |-> phase, live |-> phase # "off", next |-> 1, inflight |-> NoFrame,
     need |-> FALSE, again |-> FALSE, refreshing |-> FALSE, queue |-> <<>>, handoff |-> <<>>]
Blank == [sid |-> 0, seq |-> 0, commit |-> 0, local |-> {}, foreign |-> 0]

Init ==
    /\ commits = 0 /\ foreign = 0 /\ asked = {} /\ wire = <<>>
    /\ known = Unknown /\ polling = FALSE
    /\ session = [c \in Client |-> NewSession(0, "off")]
    /\ ready = [c \in Client |-> FALSE] /\ visible = [c \in Client |-> TRUE]
    /\ post = [c \in Client |-> NoFrame]
    /\ down = [c \in Client |-> <<>>] /\ up = [c \in Client |-> <<>>]
    /\ view = [c \in Client |-> Blank]
    /\ bound \in Bounds /\ faults = [f \in Fault |-> 0] /\ visits = [c \in Client |-> 0]

FaultsLeft == faults["read"] + faults["frame"] < bound.faults
Fails(kind) ==
    /\ FaultsLeft
    /\ faults' = [faults EXCEPT ![kind] = @ + 1]
    /\ UNCHANGED <<bound, visits>>

Visits(c) ==
    /\ visits[c] < bound.visits[c]
    /\ visits' = [visits EXCEPT ![c] = @ + 1]
    /\ UNCHANGED <<bound, faults>>

Outstanding(r) ==
    \/ r \in asked
    \/ \E i \in DOMAIN wire : wire[i].kind # "commit" /\ wire[i].to = r

-----------------------------------------------------------------------------
(* The database worker. *)

LocalCommit ==
    /\ commits < bound.commits
    /\ commits' = commits + 1
    /\ \E wide \in BOOLEAN :     \* a change that only a snapshot can show, or too large
           wire' = Append(wire, [kind |-> "commit", seq |-> commits + 1, wide |-> wide])
    /\ UNCHANGED <<foreign, asked, poller, session, bridge, post, down, up, view, limits>>

ForeignCommit ==
    /\ foreign < bound.foreign
    /\ foreign' = foreign + 1
    /\ UNCHANGED <<commits, asked, wire, poller, session, bridge, post, down, up, view, limits>>

\* The snapshot is tagged with the commits of this host only, and holds those of
\* the others as well
Answer(r, kind) ==
    [kind |-> kind, to |-> r, sid |-> IF r \in Client THEN session[r].sid ELSE 0,
     commit |-> commits, foreign |-> foreign]

Serve(r) ==
    /\ r \in asked
    /\ asked' = asked \ {r}
    /\ \/ wire' = Append(wire, Answer(r, "result")) /\ UNCHANGED limits
       \/ wire' = Append(wire, Answer(r, "error")) /\ Fails("read")
    /\ UNCHANGED <<database, poller, session, bridge, post, down, up, view>>

-----------------------------------------------------------------------------
(* What a session does with a commit, an acknowledgement or a snapshot.         *)

StartRefresh(s) == [s EXCEPT !.refreshing = TRUE, !.handoff = <<>>, !.again = FALSE]

EnterRequired(s) ==
    LET dropped == [s EXCEPT !.queue = <<>>, !.need = TRUE, !.again = TRUE]
    IN  IF ~s.live THEN s
        ELSE IF s.inflight = NoFrame /\ ~s.refreshing /\ s.phase = "open"
             THEN StartRefresh(dropped)
             ELSE dropped

FrameOf(s, kind, commit, version) ==
    [sid |-> s.sid, seq |-> s.next, kind |-> kind, commit |-> commit, foreign |-> version]

\* Seeded fault: a change that needs a snapshot is skipped
EnqueueSkip(s, m) ==
    LET frame == FrameOf(s, "changes", m.seq, 0)
        numbered == [s EXCEPT !.next = @ + 1]
    IN  IF ~s.live \/ s.need \/ m.wide THEN s
        ELSE IF s.inflight = NoFrame /\ s.queue = <<>> /\ ~s.refreshing
             THEN [numbered EXCEPT !.inflight = frame]
        ELSE IF Len(s.queue) + 1 > QueueLimit
             THEN EnterRequired(numbered)
        ELSE [numbered EXCEPT !.queue = Append(@, frame)]

Enqueue(s, m) ==
    LET frame == FrameOf(s, "changes", m.seq, 0)
        numbered == [s EXCEPT !.next = @ + 1]
    IN  IF ~s.live \/ s.need THEN s
        ELSE IF m.wide THEN EnterRequired(s)
        ELSE IF s.inflight = NoFrame /\ s.queue = <<>> /\ ~s.refreshing
             THEN [numbered EXCEPT !.inflight = frame]
        ELSE IF Len(s.queue) + 1 > QueueLimit
             THEN EnterRequired(numbered)
        ELSE [numbered EXCEPT !.queue = Append(@, frame)]

OnCommit(s, m) ==
    IF ~s.live \/ s.phase \in {"off", "baseline", "failed"} THEN s
    ELSE IF s.phase = "reading" \/ s.refreshing THEN [s EXCEPT !.handoff = Append(@, m)]
    ELSE Enqueue(s, m)

\* Seeded fault: commits that the snapshot contains are sent again
HandOverAll(s, n, m) == Enqueue(s, n)

\* A commit that came while the snapshot was read, unless the snapshot contains it
HandOver(s, n, m) == IF n.seq > m.commit THEN Enqueue(s, n) ELSE s

SendSnapshot(s, m) ==
    LET sent == [s EXCEPT !.inflight = FrameOf(s, "snapshot", m.commit, m.foreign),
                          !.next = @ + 1, !.handoff = <<>>]
        after[i \in 0..Len(s.handoff)] ==
            IF i = 0 THEN sent ELSE HandOver(after[i - 1], s.handoff[i], m)
    IN  [after[Len(s.handoff)] EXCEPT !.refreshing = FALSE]

Connected(s, m) == SendSnapshot([s EXCEPT !.phase = "open"], m)
Refreshed(s, m) == SendSnapshot([s EXCEPT !.need = s.again], m)

FlushNext(s) ==
    IF s.queue = <<>> THEN s
    ELSE [s EXCEPT !.inflight = Head(s.queue), !.queue = Tail(s.queue)]

\* Seeded fault: an acknowledgement does not start the snapshot that is required
AcknowledgeFlush(s) == FlushNext([s EXCEPT !.inflight = NoFrame])

Acknowledge(s) ==
    LET acked == [s EXCEPT !.inflight = NoFrame]
    IN  IF s.need THEN StartRefresh(acked) ELSE FlushNext(acked)

Close(s) == [s EXCEPT !.live = FALSE, !.queue = <<>>, !.inflight = NoFrame]

-----------------------------------------------------------------------------
(* What follows from the new sessions: frames posted, shared reads, the timer.  *)

Posted(c) ==
    session'[c].inflight # NoFrame /\ session'[c].inflight # session[c].inflight

Post(waiting) ==
    /\ post' = [c \in Client |->
                   IF Posted(c) THEN [frame |-> session'[c].inflight, resent |-> 0]
                   ELSE waiting[c]]
    /\ down' = [c \in Client |->
                   IF Posted(c) THEN Append(down[c], session'[c].inflight) ELSE down[c]]

\* One read of a projection serves every session that asks while it is under way
Reads ==
    IF ~Outstanding(Shared)
       /\ \E c \in Client : session'[c].refreshing /\ ~session[c].refreshing
    THEN {Shared} ELSE {}

StopIfIdle ==
    IF \E c \in Client : session'[c].live THEN UNCHANGED poller
    ELSE polling' = FALSE /\ known' = Unknown

-----------------------------------------------------------------------------
(* The host hears from the worker. *)

Hears(kind, to) ==
    /\ wire # <<>> /\ Head(wire).kind = kind
    /\ kind # "commit" => Head(wire).to \in to
    /\ wire' = Tail(wire)
    /\ UNCHANGED <<database, bridge, up, view, limits>>

HearCommit ==
    /\ Hears("commit", {})
    /\ session' = [c \in Client |-> OnCommit(session[c], Head(wire))]
    /\ Post(post)
    /\ asked' = asked \cup Reads
    /\ UNCHANGED poller

HearConnect ==
    /\ Hears("result", Client)
    /\ LET m == Head(wire)
           current == session[m.to].sid = m.sid /\ session[m.to].phase = "reading"
       IN  session' = [session EXCEPT ![m.to] = IF current THEN Connected(@, m) ELSE @]
    /\ Post(post)
    /\ UNCHANGED <<asked, poller>>

HearShared ==
    /\ Hears("result", {Shared})
    /\ session' = [c \in Client |-> IF session[c].refreshing
                                    THEN Refreshed(session[c], Head(wire)) ELSE session[c]]
    /\ Post(post)
    /\ UNCHANGED <<asked, poller>>

\* pollExternalCommits
HearVersion ==
    /\ Hears("result", {"poll"})
    /\ LET moved == known # Unknown /\ known # Head(wire).foreign
       IN  session' = [c \in Client |-> IF moved THEN EnterRequired(session[c]) ELSE session[c]]
    /\ known' = Head(wire).foreign
    /\ Post(post)
    /\ asked' = asked \cup Reads
    /\ UNCHANGED polling

\* ensureExternalCommitPolling: the version is read before the first snapshot is
HearBaseline ==
    /\ Hears("result", {"baseline"})
    /\ LET waiting == {c \in Client : session[c].phase = "baseline"}
       IN  /\ session' = [c \in Client |-> IF c \in waiting
                                           THEN [session[c] EXCEPT !.phase = "reading"]
                                           ELSE session[c]]
           /\ asked' = asked \cup waiting
    /\ known' = Head(wire).foreign
    /\ polling' = (polling \/ \E c \in Client : session[c].live)
    /\ UNCHANGED <<post, down>>

\* A failed read closes the sessions that need it; each will connect again
Rejects(c, m) ==
    \/ m.to = c /\ session[c].sid = m.sid /\ session[c].phase = "reading"
    \/ m.to = Shared /\ session[c].refreshing
    \/ m.to = "baseline" /\ session[c].phase = "baseline"
    \/ m.to = "poll" /\ session[c].live

HearError ==
    /\ Hears("error", Read \cup Client)
    /\ session' =
          [c \in Client |->
              IF ~Rejects(c, Head(wire)) THEN session[c]
              ELSE [Close(session[c]) EXCEPT
                       !.phase = IF Head(wire).to \in {c, "baseline"} THEN "failed" ELSE @,
                       !.refreshing = @ /\ Head(wire).to # Shared]]
    /\ StopIfIdle
    /\ UNCHANGED <<asked, post, down>>

\* A poll that neither finds a new version nor fails changes nothing, and is left out
PollTick ==
    /\ polling /\ ~Outstanding("poll")
    /\ known # foreign \/ FaultsLeft
    /\ asked' = asked \cup {"poll"}
    /\ UNCHANGED <<database, wire, poller, session, bridge, post, down, up, view, limits>>

-----------------------------------------------------------------------------
(* The bridge. *)

\* A new session under a new navigation generation; the frames of the one before
\* it are not posted any more
Connect(c) ==
    /\ session' = [session EXCEPT
                      ![c] = NewSession(@.sid + 1, IF polling THEN "reading" ELSE "baseline")]
    /\ asked' = (asked \ {c}) \cup (IF polling THEN {c}
                                    ELSE IF Outstanding("baseline") THEN {} ELSE {"baseline"})
    /\ post' = [post EXCEPT ![c] = NoFrame]
    /\ UNCHANGED <<poller, down>>

Pause(c) ==
    /\ session' = [session EXCEPT ![c] = NewSession(@.sid, "off")]
    /\ asked' = asked \ {c}
    /\ post' = [post EXCEPT ![c] = NoFrame]
    /\ StopIfIdle
    /\ UNCHANGED down

\* A page declares itself ready after it was loaded, or moves to another
\* conversation without being loaded
Ready(c) ==
    /\ Visits(c)
    /\ ready' = [ready EXCEPT ![c] = TRUE]
    /\ view' \in {view, [view EXCEPT ![c] = Blank]}
    /\ IF visible[c] THEN Connect(c) ELSE UNCHANGED <<asked, poller, session, post, down>>
    /\ UNCHANGED <<database, wire, visible, up>>

Hide(c) ==
    /\ visible[c]
    /\ Visits(c)
    /\ visible' = [visible EXCEPT ![c] = FALSE]
    /\ Pause(c)
    /\ UNCHANGED <<database, wire, ready, up, view>>

Reveal(c) ==
    /\ ~visible[c]
    /\ visible' = [visible EXCEPT ![c] = TRUE]
    /\ IF ready[c] THEN Connect(c) ELSE UNCHANGED <<asked, poller, session, post, down>>
    /\ UNCHANGED <<database, wire, ready, up, view, limits>>

\* scheduleRecovery and waitForConnectRecovery
Recover(c) ==
    /\ ready[c] /\ visible[c] /\ ~session[c].live
    /\ Connect(c)
    /\ UNCHANGED <<database, wire, bridge, up, view, limits>>

\* Neither the awaited frame nor an answer to it is on its way
Missing(c) ==
    /\ \A i \in DOMAIN down[c] : down[c][i] # post[c].frame
    /\ \A i \in DOMAIN up[c] : up[c][i].sid # post[c].frame.sid \/ up[c][i].seq # post[c].frame.seq

\* Seeded fault: the page is given up at once
ResendNever(c) ==
    /\ post[c] # NoFrame
    /\ Pause(c) /\ ready' = [ready EXCEPT ![c] = FALSE]
    /\ UNCHANGED <<database, wire, visible, up, view>>

\* The same frame once more, and then none until the page declares itself ready
Resend(c) ==
    /\ post[c] # NoFrame
    /\ IF post[c].resent < MaxResends
       THEN /\ post' = [post EXCEPT ![c].resent = @ + 1]
            /\ down' = [down EXCEPT ![c] = Append(@, post[c].frame)]
            /\ UNCHANGED <<ready, asked, poller, session>>
       ELSE Pause(c) /\ ready' = [ready EXCEPT ![c] = FALSE]
    /\ UNCHANGED <<database, wire, visible, up, view>>

TimeOut(c) == post[c] # NoFrame /\ Missing(c) /\ Resend(c) /\ UNCHANGED limits
TooEarly(c) == post[c] # NoFrame /\ ~Missing(c) /\ Resend(c) /\ Fails("frame")

Acks(c, m) ==
    /\ m.kind = "ack" /\ session[c].live
    /\ session[c].inflight # NoFrame /\ session[c].inflight.seq = m.seq

Answers(c, m) == post[c] # NoFrame /\ post[c].frame.sid = m.sid /\ post[c].frame.seq = m.seq

\* Seeded fault: the acknowledgement also stops the timer of the frame it releases
HandleControlBlind(c) ==
    /\ up[c] # <<>>
    /\ up' = [up EXCEPT ![c] = Tail(@)]
    /\ LET m == Head(up[c])
           heard == session[c].phase = "open" /\ session[c].sid = m.sid
           new == IF ~heard THEN session[c]
                  ELSE IF m.kind = "snapshot" THEN EnterRequired(session[c])
                  ELSE IF Acks(c, m) THEN Acknowledge(session[c]) ELSE session[c]
       IN  /\ session' = [session EXCEPT ![c] = new]
           /\ down' = [down EXCEPT ![c] =
                           IF Posted(c) THEN Append(@, session'[c].inflight) ELSE @]
           /\ post' = [post EXCEPT ![c] = IF heard /\ Acks(c, m) /\ Answers(c, m)
                                          THEN NoFrame ELSE @]
    /\ asked' = asked \cup Reads
    /\ UNCHANGED <<database, wire, poller, bridge, view, limits>>

\* handleControl
HandleControl(c) ==
    /\ up[c] # <<>>
    /\ up' = [up EXCEPT ![c] = Tail(@)]
    /\ LET m == Head(up[c])
           heard == session[c].phase = "open" /\ session[c].sid = m.sid
           new == IF ~heard THEN session[c]
                  ELSE IF m.kind = "snapshot" THEN EnterRequired(session[c])
                  ELSE IF Acks(c, m) THEN Acknowledge(session[c]) ELSE session[c]
       IN  /\ session' = [session EXCEPT ![c] = new]
           /\ Post(IF heard /\ Acks(c, m) /\ Answers(c, m)
                   THEN [post EXCEPT ![c] = NoFrame] ELSE post)
    /\ asked' = asked \cup Reads
    /\ UNCHANGED <<database, wire, poller, bridge, view, limits>>

Lose(c) ==
    /\ down[c] # <<>>
    /\ Fails("frame")
    /\ down' = [down EXCEPT ![c] = Tail(@)]
    /\ UNCHANGED <<database, asked, wire, poller, session, bridge, post, up, view>>

-----------------------------------------------------------------------------
(* The page. *)

\* observeData: a frame of a session that was replaced, or changes of one that
\* this page has no snapshot of
Retired(v, m) == m.sid < v.sid \/ (m.kind = "changes" /\ m.sid # v.sid)

Follows(v, m) == m.seq = v.seq + 1 /\ m.commit > v.commit

Applied(v, m) ==
    [sid |-> m.sid, seq |-> m.seq, commit |-> m.commit,
     local |-> IF m.kind = "snapshot" THEN 1..m.commit ELSE v.local \cup {m.commit},
     foreign |-> IF m.kind = "snapshot" THEN m.foreign ELSE v.foreign]

\* applyReliableKernelDataMessage
Receive(c) ==
    /\ down[c] # <<>>
    /\ down' = [down EXCEPT ![c] = Tail(@)]
    /\ LET m == Head(down[c])
           v == view[c]
           accepted == m.kind = "snapshot" \/ Follows(v, m)
       IN  IF Retired(v, m) THEN UNCHANGED <<up, view>>
           ELSE /\ view' = [view EXCEPT ![c] = IF accepted THEN Applied(v, m) ELSE v]
                /\ up' = [up EXCEPT ![c] =
                             Append(@, [kind |-> IF accepted THEN "ack" ELSE "snapshot",
                                        sid |-> m.sid, seq |-> m.seq])]
    /\ UNCHANGED <<database, asked, wire, poller, session, bridge, post, limits>>

-----------------------------------------------------------------------------
Hear == HearCommit \/ HearConnect \/ HearShared \/ HearVersion \/ HearBaseline \/ HearError
Page(c) == Ready(c) \/ Hide(c) \/ Reveal(c) \/ Receive(c) \/ Lose(c)
Bridge(c) == Recover(c) \/ TimeOut(c) \/ TooEarly(c) \/ HandleControl(c)

Next ==
    \/ LocalCommit \/ ForeignCommit \/ Hear \/ PollTick
    \/ \E r \in Read \cup Client : Serve(r)
    \/ \E c \in Client : Page(c) \/ Bridge(c)

Spec == Init /\ [][Next]_vars

\* The worker answers, the event loop of the host turns, timers fire, and a page
\* that is shown handles its messages
Fairness ==
    /\ WF_vars(Hear) /\ WF_vars(PollTick)
    /\ \A r \in Read \cup Client : WF_vars(Serve(r))
    /\ \A c \in Client : /\ WF_vars(Receive(c)) /\ WF_vars(HandleControl(c))
                         /\ WF_vars(Recover(c)) /\ WF_vars(TimeOut(c))
FairSpec == Spec /\ Fairness

-----------------------------------------------------------------------------
\* The commits of this host that it has heard of
Heard == {n \in 1..commits :
             \A i \in DOMAIN wire : wire[i].kind = "commit" => wire[i].seq # n}

Idle(c) ==
    LET s == session[c]
    IN  s.live /\ s.phase = "open" /\ s.inflight = NoFrame /\ ~s.refreshing

\* A session with nothing on its way has shown its page every commit this host
\* has heard of, its own and those its poll has noticed: none is lost between a
\* snapshot and the live changes, at a full queue, in a read shared with another
\* session, or when another host commits during the read (enqueueCommit,
\* refreshSnapshot, pollExternalCommits)
IdleShowsAll ==
    \A c \in Client : Idle(c) =>
        /\ ~session[c].need /\ session[c].queue = <<>>
        /\ view[c].local = Heard
        /\ known # Unknown => view[c].foreign >= known

\* A page is never sent changes that do not follow what it shows, though frames
\* are lost, late and repeated; it asks for a snapshot only because of a frame it
\* has already applied (sendQueuedNow, applyReliableKernelDataMessage)
GapFree ==
    \A c \in Client : down[c] # <<>> =>
        LET m == Head(down[c])
        IN  ~Retired(view[c], m) /\ m.kind = "changes" /\ m.seq > view[c].seq
               => Follows(view[c], m)

\* The sessions and the frames on their way fit together and with the pages.
FeedSound == TypeOK /\ GapFree

\* One late or lost frame is healed by the resend; a page is given up only after
\* more than that (retryOrSuspendDataPost)
OneFaultHealed ==
    faults["read"] = 0 /\ faults["frame"] <= 1 =>
        \A c \in Client : ready[c] \/ session[c].sid = 0

\* What a page shows is always a stage of the database, and never goes back
Mirror == INSTANCE FeedMirror WITH
    db <- [local |-> commits, foreign |-> foreign],
    shown <- [c \in Client |-> [local |-> view[c].local, foreign |-> view[c].foreign]]
KeepsPromise == Mirror!MirrorSpec

Away(c) == ~ready[c] \/ ~visible[c]

\* When commits cease, every page that is there shows the whole database
CatchesUp ==
    \A c \in Client :
        <>[](Away(c) \/ (view[c].local = 1..commits /\ view[c].foreign = foreign))
=============================================================================

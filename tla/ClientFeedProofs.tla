--------------------------- MODULE ClientFeedProofs ---------------------------
(* Theorems about ClientFeed, for any number of pages, commits, faults and      *)
(* visits.  The order of the wire makes the number of an answer the number of   *)
(* commits heard when it arrives; stop-and-wait makes the frames of a page one  *)
(* line, in which each fits behind the one before it.                           *)
EXTENDS ClientFeed, FiniteSetTheorems, TLAPS

-----------------------------------------------------------------------------
(* The wire *)

AnyCommit == [kind : {"commit"}, seq : Nat, wide : BOOLEAN]
AnyAnswer == [kind : {"result", "error"}, to : Read \cup Client, sid : Nat,
              commit : Nat, foreign : Nat]
IsCommit(x) == x.kind = "commit"
IsAnswer(x) == x.kind # "commit"

\* Of n commits, those that are not on the wire w any more
Passed(w, n) == {k \in 1..n : \A i \in DOMAIN w : IsCommit(w[i]) => w[i].seq # k}

\* Commits are announced one after the other, and an answer carries the number of
\* the last one before it and a version not below those before it: n commits of
\* this host were made, h of them heard, and f of others
Ordered(w, n, f, h) ==
    /\ w \in Seq(AnyCommit \cup AnyAnswer) /\ n \in Nat /\ f \in Nat
    /\ h \in 0..n /\ Passed(w, n) = 1..h
    /\ \A i \in DOMAIN w :
          /\ IsCommit(w[i]) => w[i].seq \in h + 1..n
          /\ IsAnswer(w[i]) => w[i].commit \in h..n /\ w[i].foreign <= f
    /\ \A i, j \in DOMAIN w : i < j =>
          /\ IsCommit(w[i]) /\ IsCommit(w[j]) => w[i].seq < w[j].seq
          /\ IsCommit(w[i]) /\ IsAnswer(w[j]) => w[i].seq <= w[j].commit
          /\ IsAnswer(w[i]) /\ IsCommit(w[j]) => w[i].commit < w[j].seq
          /\ IsAnswer(w[i]) /\ IsAnswer(w[j]) => w[i].foreign <= w[j].foreign

\* A version that every answer still to come has reached
Past(x, w, f) == x \in 0..f /\ \A i \in DOMAIN w : IsAnswer(w[i]) => x <= w[i].foreign

\* At most one answer brings the first version
IsBaseline(x) == IsAnswer(x) /\ x.to = "baseline"
Brings(w) == \E i \in DOMAIN w : IsBaseline(w[i])
Lone(w) == \A i, j \in DOMAIN w : IsBaseline(w[i]) /\ IsBaseline(w[j]) => i = j

\* The poll for foreign commits: it runs once the version has been read, and only
\* then a session gets further than waiting for that
Baselines ==
    /\ Lone(wire) /\ ~(Brings(wire) /\ "baseline" \in asked)
    /\ Brings(wire) \/ "baseline" \in asked => ~polling
Polls ==
    /\ known # Unknown => Past(known, wire, foreign)
    /\ polling => known # Unknown
    /\ ~polling => \A c \in Client : session[c].live => session[c].phase = "baseline"

-----------------------------------------------------------------------------
(* One page: its session s, the awaited frame p, the channels d and u, its view v, *)
(* and the number h of commits heard                                              *)

Phase == {"off", "baseline", "reading", "open", "failed"}
AnySession ==
    [sid : Nat, phase : Phase, live : BOOLEAN, next : Nat, inflight : AnyFrame \cup {NoFrame},
     need : BOOLEAN, again : BOOLEAN, refreshing : BOOLEAN,
     queue : Seq(AnyFrame), handoff : Seq(AnyCommit)]
AnyPost == [frame : AnyFrame, resent : 0..MaxResends]
AnyControl == [kind : {"ack", "snapshot"}, sid : Nat, seq : Nat]
AnyView == [sid : Nat, seq : Nat, commit : Nat, local : SUBSET Nat, foreign : Nat]

\* b goes out after a, or is a again; changes follow what was sent before them
Fits(a, b) ==
    /\ a.sid <= b.sid
    /\ a.sid = b.sid =>
          /\ a.seq <= b.seq
          /\ a.seq = b.seq => a.commit = b.commit /\ (b.kind = "snapshot" => a.foreign = b.foreign)
          /\ b.kind = "changes" => b.seq = a.seq \/ (b.seq = a.seq + 1 /\ b.commit = a.commit + 1)
    /\ b.kind = "snapshot" => a.commit <= b.commit /\ a.foreign <= b.foreign

Same(a, b) == a.sid = b.sid /\ a.seq = b.seq

Types(s, p, d, u, v) ==
    /\ s \in AnySession /\ p \in AnyPost \cup {NoFrame}
    /\ d \in Seq(AnyFrame) /\ u \in Seq(AnyControl) /\ v \in AnyView
    /\ Len(s.queue) <= QueueLimit
    /\ s.queue # <<>> => s.inflight # NoFrame
    /\ s.refreshing => s.inflight = NoFrame /\ s.phase = "open"
    /\ s.phase = "off" => ~s.live
    /\ s.phase # "off" => s.sid > 0
    /\ s.phase # "open" => s.inflight = NoFrame /\ p = NoFrame

\* The bridge waits for the frame in flight, and goes on waiting when a session is closed
Waits(s, p) ==
    /\ s.inflight # NoFrame => p # NoFrame /\ p.frame = s.inflight
    /\ p # NoFrame => p.frame.sid = s.sid /\ (s.live => s.inflight # NoFrame)

\* Sessions of a page are numbered, and so are the frames of a session
Sids(s, p, d, u, v) ==
    /\ v.sid <= s.sid
    /\ \A i \in DOMAIN d : d[i].sid \in 1..s.sid
    /\ \A i \in DOMAIN u : u[i].sid \in 1..s.sid
    /\ s.phase \in {"baseline", "reading"} =>
          /\ v.sid < s.sid /\ s.next = 1
          /\ \A i \in DOMAIN d : d[i].sid < s.sid
          /\ \A i \in DOMAIN u : u[i].sid < s.sid
    /\ s.phase = "open" =>
          /\ v.sid = s.sid => v.seq < s.next
          /\ p # NoFrame => /\ p.frame.seq < s.next
                            /\ \A i \in DOMAIN u : u[i].sid = s.sid => u[i].seq <= p.frame.seq
          /\ \A i \in DOMAIN d : d[i].sid = s.sid => d[i].seq < s.next
          /\ \A i \in DOMAIN u : u[i].sid = s.sid => u[i].seq < s.next

\* The frames on their way are one line behind the view, with the awaited one at its end
Line(p, d, v) ==
    /\ \A i, j \in DOMAIN d : i <= j => Fits(d[i], d[j]) /\ (Same(d[i], d[j]) => d[i] = d[j])
    /\ \A i \in DOMAIN d : Fits(v, d[i])
    /\ p # NoFrame =>
          /\ Fits(v, p.frame)
          /\ \A i \in DOMAIN d : /\ Fits(d[i], p.frame)
                                 /\ Same(d[i], p.frame) => d[i] = p.frame

\* Nothing is shown, sent or put aside that the host has not heard of
Told(s, p, d, v, h) ==
    /\ v.local = 1..v.commit /\ v.commit <= h
    /\ p # NoFrame => p.frame.commit <= h
    /\ \A i \in DOMAIN d : d[i].commit <= h
    /\ \A i \in DOMAIN s.queue : s.queue[i].commit <= h /\ s.queue[i].foreign = 0
    /\ \A i \in DOMAIN s.handoff : s.handoff[i].seq \in 1..h

\* An acknowledgement means that the page shows the frame
Acked(s, u, v) ==
    s.phase = "open" =>
        \A i \in DOMAIN u : u[i].kind = "ack" /\ u[i].sid = s.sid =>
            v.sid = s.sid /\ u[i].seq <= v.seq

\* The queue goes on from the frame in flight up to the last commit, unless a
\* snapshot is required
Chain(s, v, h) ==
    s.live /\ s.inflight # NoFrame =>
        /\ s.inflight.kind = "changes" => v.sid = s.sid
        /\ s.need => s.queue = <<>>
        /\ ~s.need => /\ s.inflight.commit + Len(s.queue) = h
                      /\ s.inflight.seq + Len(s.queue) + 1 = s.next
        /\ \A i \in DOMAIN s.queue :
              s.queue[i] = [sid |-> s.sid, seq |-> s.inflight.seq + i, kind |-> "changes",
                            commit |-> s.inflight.commit + i, foreign |-> 0]

AtRest(s) == s.live /\ s.phase = "open" /\ s.inflight = NoFrame /\ ~s.refreshing

\* A session at rest has shown its page all it knows of
Rested(s, v, h) ==
    AtRest(s) => ~s.need /\ v.sid = s.sid /\ v.seq + 1 = s.next /\ v.commit = h

\* The version that was seen last has been shown, is on its way, or a snapshot is required
Versions(s, v, k) ==
    s.live /\ s.phase = "open" /\ ~s.refreshing /\ ~s.need /\ k # Unknown =>
        IF s.inflight # NoFrame /\ s.inflight.kind = "snapshot"
        THEN k <= s.inflight.foreign ELSE k <= v.foreign

Sound(s, p, d, u, v, h) ==
    /\ Types(s, p, d, u, v) /\ Waits(s, p) /\ Sids(s, p, d, u, v) /\ Line(p, d, v)
    /\ Told(s, p, d, v, h) /\ Acked(s, u, v) /\ Chain(s, v, h) /\ Rested(s, v, h)

-----------------------------------------------------------------------------
(* The faults of a page *)

Answering(m, p) == m.sid = p.frame.sid /\ m.seq = p.frame.seq

\* A page that shows the awaited frame has acknowledged it before it said anything else of it
Answered(s, p, u, v) ==
    s.live /\ p # NoFrame =>
        /\ Same(v, p.frame) => \E i \in DOMAIN u : Answering(u[i], p)
        /\ \A i \in DOMAIN u : Answering(u[i], p) =>
              \E j \in 1..i : Answering(u[j], p) /\ u[j].kind = "ack"

Absent(p, d, u) ==
    (\A i \in DOMAIN d : d[i] # p.frame) /\ \A i \in DOMAIN u : ~Answering(u[i], p)

\* Without failed reads a session lives until it is left, and each resend has been
\* paid for by one of the n late or lost frames
PaidFor(s, p, d, u, n) ==
    /\ s.phase # "off" => s.live
    /\ p # NoFrame => p.resent <= n /\ (Absent(p, d, u) => p.resent + 1 <= n)

Counted ==
    faults["read"] = 0 =>
        /\ \A i \in DOMAIN wire : wire[i].kind # "error"
        /\ \A c \in Client : PaidFor(session[c], post[c], down[c], up[c], faults["frame"])

-----------------------------------------------------------------------------
Scalars ==
    /\ bound \in Bounds
    /\ commits \in 0..bound.commits /\ foreign \in 0..bound.foreign
    /\ asked \subseteq Read \cup Client
    /\ known \in 0..foreign \cup {Unknown} /\ polling \in BOOLEAN
    /\ ready \in [Client -> BOOLEAN] /\ visible \in [Client -> BOOLEAN]
    /\ faults \in [Fault -> Nat] /\ visits \in [Client -> Nat]
    /\ DOMAIN session = Client /\ DOMAIN post = Client /\ DOMAIN down = Client
    /\ DOMAIN up = Client /\ DOMAIN view = Client

\* What is shown and sent is a version that every answer still to come has reached
Pasts(p, d, v, w, f) ==
    /\ Past(v.foreign, w, f)
    /\ p # NoFrame => Past(p.frame.foreign, w, f)
    /\ \A i \in DOMAIN d : Past(d[i].foreign, w, f)

PageSound(c, h) ==
    /\ Sound(session[c], post[c], down[c], up[c], view[c], h)
    /\ Versions(session[c], view[c], known)
    /\ Answered(session[c], post[c], up[c], view[c])
    /\ Pasts(post[c], down[c], view[c], wire, foreign)
    /\ ~visible[c] => session[c].phase = "off"

IInv ==
    /\ Scalars /\ Baselines /\ Polls /\ Counted /\ OneFaultHealed
    /\ \E h \in 0..commits :
          Ordered(wire, commits, foreign, h) /\ \A c \in Client : PageSound(c, h)

-----------------------------------------------------------------------------
(* Sequences and records *)

LEMMA Tails ==
    ASSUME NEW S, NEW q \in Seq(S), q # <<>>
    PROVE  /\ Head(q) \in S /\ Head(q) = q[1] /\ Tail(q) \in Seq(S)
           /\ Len(q) \in Nat \ {0} /\ DOMAIN q = 1..Len(q)
           /\ Len(Tail(q)) = Len(q) - 1 /\ DOMAIN Tail(q) = 1..Len(q) - 1
           /\ \A i \in DOMAIN Tail(q) : Tail(q)[i] = q[i + 1] /\ i + 1 \in DOMAIN q
OBVIOUS

LEMMA Appends ==
    ASSUME NEW S, NEW q \in Seq(S), NEW x \in S
    PROVE  /\ Append(q, x) \in Seq(S) /\ Append(q, x) # <<>>
           /\ Len(q) \in Nat /\ DOMAIN q = 1..Len(q)
           /\ Len(Append(q, x)) = Len(q) + 1 /\ DOMAIN Append(q, x) = 1..Len(q) + 1
           /\ \A i \in DOMAIN q : Append(q, x)[i] = q[i]
           /\ Append(q, x)[Len(q) + 1] = x
           /\ \A i \in DOMAIN Append(q, x) : i \in DOMAIN q \/ i = Len(q) + 1
OBVIOUS

\* The empty frame is none that is sent or awaited
LEMMA NoFrameIsNone == NoFrame \notin AnyFrame /\ \A p \in AnyPost : p # NoFrame
BY FeedAssumption DEF AnyPost

LEMMA FrameParts ==
    ASSUME NEW b \in AnyFrame
    PROVE  b.sid \in Nat /\ b.seq \in Nat /\ b.commit \in Nat /\ b.foreign \in Nat
           /\ b.kind \in {"snapshot", "changes"}
BY DEF AnyFrame

LEMMA SessionParts ==
    ASSUME NEW s \in AnySession
    PROVE  /\ s.sid \in Nat /\ s.phase \in Phase /\ s.live \in BOOLEAN /\ s.next \in Nat
           /\ s.inflight \in AnyFrame \cup {NoFrame} /\ s.need \in BOOLEAN /\ s.again \in BOOLEAN
           /\ s.refreshing \in BOOLEAN /\ s.queue \in Seq(AnyFrame) /\ s.handoff \in Seq(AnyCommit)
BY DEF AnySession

LEMMA SessionIs ==
    ASSUME NEW s \in AnySession
    PROVE  s = [sid |-> s.sid, phase |-> s.phase, live |-> s.live, next |-> s.next,
                inflight |-> s.inflight, need |-> s.need, again |-> s.again,
                refreshing |-> s.refreshing, queue |-> s.queue, handoff |-> s.handoff]
BY DEF AnySession

\* A frame of the session under the next number
LEMMA FrameOfIs ==
    ASSUME NEW s \in AnySession, NEW kind \in {"snapshot", "changes"},
           NEW commit \in Nat, NEW version \in Nat
    PROVE  LET b == FrameOf(s, kind, commit, version)
           IN  b \in AnyFrame /\ b.sid = s.sid /\ b.seq = s.next /\ b.kind = kind
               /\ b.commit = commit /\ b.foreign = version
BY SessionParts DEF FrameOf, AnyFrame

-----------------------------------------------------------------------------
(* What the session does *)

Kept(s, t) == t.sid = s.sid /\ t.phase = s.phase /\ t.live = s.live

LEMMA EnterIs ==
    ASSUME NEW s \in AnySession
    PROVE  LET t == EnterRequired(s)
           IN  /\ t \in AnySession /\ Kept(s, t) /\ t.next = s.next /\ t.inflight = s.inflight
               /\ ~s.live => t = s
               /\ s.live => /\ t.need /\ t.queue = <<>>
                            /\ t.refreshing = (s.refreshing \/ AtRest(s))
                            /\ t.handoff = s.handoff \/ t.handoff = <<>>
<1> DEFINE dropped == [s EXCEPT !.queue = <<>>, !.need = TRUE, !.again = TRUE]
<1>1. /\ dropped \in AnySession /\ Kept(s, dropped) /\ dropped.next = s.next
      /\ dropped.inflight = s.inflight /\ dropped.need /\ dropped.queue = <<>>
      /\ dropped.refreshing = s.refreshing /\ dropped.handoff = s.handoff
  <2>1. <<>> \in Seq(AnyFrame)
    OBVIOUS
  <2> QED  BY <2>1, SessionIs DEF AnySession, Kept
<1> DEFINE started == StartRefresh(dropped)
<1>2. /\ started \in AnySession /\ Kept(s, started) /\ started.next = s.next
      /\ started.inflight = s.inflight /\ started.need /\ started.queue = <<>>
      /\ started.refreshing /\ started.handoff = <<>>
  <2>1. <<>> \in Seq(AnyCommit)
    OBVIOUS
  <2> HIDE DEF dropped
  <2> QED  BY <1>1, <2>1, SessionIs DEF AnySession, Kept, StartRefresh
<1>3. EnterRequired(s) = IF ~s.live THEN s
                         ELSE IF s.inflight = NoFrame /\ ~s.refreshing /\ s.phase = "open"
                              THEN started ELSE dropped
  BY DEF EnterRequired
<1>4. s.refreshing \in BOOLEAN /\ s.live \in BOOLEAN
  BY SessionParts
<1> HIDE DEF dropped, started
<1>5. CASE ~s.live
  BY <1>3, <1>5 DEF Kept
<1>6. CASE s.live /\ AtRest(s)
  BY <1>2, <1>3, <1>4, <1>6 DEF AtRest
<1>7. CASE s.live /\ ~AtRest(s)
  BY <1>1, <1>3, <1>4, <1>7 DEF AtRest
<1> QED  BY <1>4, <1>5, <1>6, <1>7

\* A snapshot becomes required: whatever was queued will be in it
LEMMA Requires ==
    ASSUME NEW s, NEW t, NEW p, NEW d, NEW u, NEW v, NEW h \in Nat, NEW g \in Nat, NEW k,
           Sound(s, p, d, u, v, h), Answered(s, p, u, v), h <= g, s.live,
           t \in AnySession, Kept(s, t), t.inflight = s.inflight,
           t.next = s.next \/ (s.phase = "open" /\ t.next = s.next + 1),
           t.need, t.queue = <<>>, t.refreshing = (s.refreshing \/ AtRest(s)),
           t.handoff = s.handoff \/ t.handoff = <<>>
    PROVE  Sound(t, p, d, u, v, g) /\ Versions(t, v, k) /\ Answered(t, p, u, v)
<1>0. /\ Types(s, p, d, u, v) /\ Waits(s, p) /\ Sids(s, p, d, u, v) /\ Line(p, d, v)
      /\ Told(s, p, d, v, h) /\ Acked(s, u, v) /\ Chain(s, v, h) /\ Rested(s, v, h)
  BY DEF Sound
<1>1. /\ s \in AnySession /\ d \in Seq(AnyFrame) /\ u \in Seq(AnyControl) /\ v \in AnyView
      /\ p \in AnyPost \cup {NoFrame} /\ QueueLimit \in Nat
  BY <1>0, FeedAssumption DEF Types
<1>2. Types(t, p, d, u, v)
  BY <1>0, <1>1, SessionParts DEF Types, Kept, AtRest
<1>3. Waits(t, p)
  BY <1>0 DEF Waits, Kept
<1>4. Sids(t, p, d, u, v)
  <2>1. /\ s.next \in Nat /\ v.seq \in Nat /\ (p # NoFrame => p.frame.seq \in Nat)
        /\ (\A i \in DOMAIN d : d[i].seq \in Nat) /\ \A i \in DOMAIN u : u[i].seq \in Nat
    <3>1. \A i \in DOMAIN d : d[i] \in AnyFrame
      BY <1>1
    <3>2. \A i \in DOMAIN u : u[i] \in AnyControl
      BY <1>1
    <3> QED  BY <1>1, <3>1, <3>2, SessionParts DEF AnyView, AnyPost, AnyFrame, AnyControl
  <2> QED  BY <1>0, <2>1 DEF Sids, Kept
<1>5. Told(t, p, d, v, g)
  <2>1. /\ v.commit \in Nat /\ (p # NoFrame => p.frame.commit \in Nat)
        /\ (\A i \in DOMAIN d : d[i].commit \in Nat) /\ \A i \in DOMAIN s.handoff : s.handoff[i].seq \in Nat
    <3>1. \A i \in DOMAIN d : d[i] \in AnyFrame
      BY <1>1
    <3>2. \A i \in DOMAIN s.handoff : s.handoff[i] \in AnyCommit
      BY <1>1, SessionParts
    <3> QED  BY <1>1, <3>1, <3>2 DEF AnyView, AnyPost, AnyFrame, AnyCommit
  <2> QED  BY <1>0, <2>1 DEF Told
<1>6. Acked(t, u, v) /\ Answered(t, p, u, v)
  BY <1>0 DEF Acked, Kept, Answered
<1>7. Chain(t, v, g) /\ Versions(t, v, k)
  BY <1>0 DEF Chain, Kept, Versions
<1>8. Rested(t, v, g)
  BY <1>0 DEF Rested, Kept, AtRest
<1> QED  BY <1>0, <1>2, <1>3, <1>4, <1>5, <1>6, <1>7, <1>8 DEF Sound

\* What the elements of the channels are
LEMMA Elements ==
    ASSUME NEW s, NEW p, NEW d, NEW u, NEW v, Types(s, p, d, u, v)
    PROVE  /\ s \in AnySession /\ v \in AnyView
           /\ p # NoFrame => p \in AnyPost /\ p.frame \in AnyFrame /\ p.resent \in 0..MaxResends
           /\ d \in Seq(AnyFrame) /\ u \in Seq(AnyControl)
           /\ v.sid \in Nat /\ v.seq \in Nat /\ v.commit \in Nat /\ v.foreign \in Nat
           /\ \A i \in DOMAIN d : /\ d[i] \in AnyFrame /\ d[i].sid \in Nat /\ d[i].seq \in Nat
                                  /\ d[i].commit \in Nat /\ d[i].foreign \in Nat
                                  /\ d[i].kind \in {"snapshot", "changes"}
           /\ \A i \in DOMAIN u : /\ u[i] \in AnyControl /\ u[i].sid \in Nat /\ u[i].seq \in Nat
                                  /\ u[i].kind \in {"ack", "snapshot"}
           /\ \A i \in DOMAIN s.queue : s.queue[i] \in AnyFrame /\ s.queue[i].commit \in Nat
           /\ \A i \in DOMAIN s.handoff : s.handoff[i] \in AnyCommit /\ s.handoff[i].seq \in Nat
           /\ Len(s.queue) \in Nat /\ QueueLimit \in Nat
<1>1. s \in AnySession /\ v \in AnyView /\ d \in Seq(AnyFrame) /\ u \in Seq(AnyControl)
      /\ p \in AnyPost \cup {NoFrame}
  BY DEF Types
<1>2. v.sid \in Nat /\ v.seq \in Nat /\ v.commit \in Nat /\ v.foreign \in Nat
  BY <1>1 DEF AnyView
<1>3. p # NoFrame => p \in AnyPost /\ p.frame \in AnyFrame /\ p.resent \in 0..MaxResends
  BY <1>1 DEF AnyPost
<1>4. \A i \in DOMAIN d : d[i] \in AnyFrame
  BY <1>1
<1>5. \A i \in DOMAIN u : u[i] \in AnyControl
  BY <1>1
<1>6. s.queue \in Seq(AnyFrame) /\ s.handoff \in Seq(AnyCommit)
  BY <1>1, SessionParts
<1>7. /\ \A i \in DOMAIN s.queue : s.queue[i] \in AnyFrame
      /\ \A i \in DOMAIN s.handoff : s.handoff[i] \in AnyCommit
      /\ Len(s.queue) \in Nat
  BY <1>6
<1> QED
  BY <1>1, <1>2, <1>3, <1>4, <1>5, <1>7, FrameParts, FeedAssumption DEF AnyControl, AnyCommit

LEMMA SoundParts ==
    ASSUME NEW s, NEW p, NEW d, NEW u, NEW v, NEW h, Sound(s, p, d, u, v, h)
    PROVE  /\ Types(s, p, d, u, v) /\ Waits(s, p) /\ Sids(s, p, d, u, v) /\ Line(p, d, v)
           /\ Told(s, p, d, v, h) /\ Acked(s, u, v) /\ Chain(s, v, h) /\ Rested(s, v, h)
BY DEF Sound

\* The page has said nothing of the frame or of one behind it
Newest(b, u) == \A i \in DOMAIN u : u[i].sid = b.sid => u[i].seq < b.seq

\* A frame goes out that fits behind all that is on its way
LEMMA Sends ==
    ASSUME NEW s, NEW t, NEW p, NEW d, NEW u, NEW v, NEW h \in Nat, NEW g \in Nat, NEW b,
           Sound(s, p, d, u, v, h), h <= g,
           b \in AnyFrame, t \in AnySession, t.sid = s.sid, t.phase = "open",
           s.phase \in {"reading", "open"},
           t.inflight = b, b.sid = s.sid, b.seq < t.next, s.next <= t.next, b.commit <= g,
           ~t.refreshing, Len(t.queue) <= QueueLimit,
           \A i \in DOMAIN t.queue : t.queue[i].commit <= g /\ t.queue[i].foreign = 0,
           \A i \in DOMAIN t.handoff : t.handoff[i].seq \in 1..g,
           Fits(v, b), ~Same(v, b),
           \A i \in DOMAIN d : Fits(d[i], b) /\ ~Same(d[i], b),
           Newest(b, u)
    PROVE  LET q == [frame |-> b, resent |-> 0]
               e == Append(d, b)
           IN  /\ Types(t, q, e, u, v) /\ Waits(t, q) /\ Sids(t, q, e, u, v) /\ Line(q, e, v)
               /\ Told(t, q, e, v, g) /\ Acked(t, u, v) /\ Rested(t, v, g) /\ Answered(t, q, u, v)
<1> DEFINE q == [frame |-> b, resent |-> 0]
           e == Append(d, b)
<1>0. /\ Types(s, p, d, u, v) /\ Sids(s, p, d, u, v) /\ Line(p, d, v)
      /\ Told(s, p, d, v, h) /\ Acked(s, u, v)
  BY SoundParts
<1>1. /\ s \in AnySession /\ v \in AnyView /\ d \in Seq(AnyFrame) /\ u \in Seq(AnyControl)
      /\ v.sid \in Nat /\ v.seq \in Nat /\ v.commit \in Nat /\ s.sid \in Nat /\ s.sid > 0
      /\ s.next \in Nat /\ t.next \in Nat /\ QueueLimit \in Nat
      /\ \A i \in DOMAIN d : d[i].sid \in Nat /\ d[i].seq \in Nat /\ d[i].commit \in Nat
      /\ \A i \in DOMAIN u : u[i].sid \in Nat /\ u[i].seq \in Nat
  <2>1. /\ s \in AnySession /\ v \in AnyView /\ d \in Seq(AnyFrame) /\ u \in Seq(AnyControl)
        /\ v.sid \in Nat /\ v.seq \in Nat /\ v.commit \in Nat /\ QueueLimit \in Nat
        /\ \A i \in DOMAIN d : d[i].sid \in Nat /\ d[i].seq \in Nat /\ d[i].commit \in Nat
        /\ \A i \in DOMAIN u : u[i].sid \in Nat /\ u[i].seq \in Nat
    BY <1>0, Elements
  <2>2. s.sid \in Nat /\ s.next \in Nat /\ t.next \in Nat
    BY <2>1, SessionParts
  <2>3. s.sid > 0
    BY <1>0 DEF Types
  <2> QED  BY <2>1, <2>2, <2>3
<1>2. b.sid \in Nat /\ b.seq \in Nat /\ b.commit \in Nat /\ b # NoFrame
  BY FrameParts, NoFrameIsNone
<1>3. q \in AnyPost /\ q # NoFrame /\ q.frame = b
  BY NoFrameIsNone, FeedAssumption DEF AnyPost
<1>4. /\ e \in Seq(AnyFrame) /\ Len(d) \in Nat /\ DOMAIN d = 1..Len(d)
      /\ DOMAIN e = 1..Len(d) + 1 /\ e[Len(d) + 1] = b
      /\ \A i \in DOMAIN d : e[i] = d[i]
      /\ \A i \in DOMAIN e : i \in DOMAIN d \/ i = Len(d) + 1
  <2>1. d \in Seq(AnyFrame) /\ b \in AnyFrame
    BY <1>1
  <2> QED  BY <2>1, Appends
<1> HIDE DEF q, e
<1>5. Types(t, q, e, u, v)
  BY <1>1, <1>2, <1>3, <1>4 DEF Types
<1>6. Waits(t, q)
  BY <1>2, <1>3 DEF Waits
<1>7. Sids(t, q, e, u, v)
  <2>1. CASE s.phase = "reading"
    <3>1. /\ v.sid < s.sid /\ (\A i \in DOMAIN d : d[i].sid \in 1..s.sid /\ d[i].sid < s.sid)
          /\ \A i \in DOMAIN u : u[i].sid \in 1..s.sid /\ u[i].sid < s.sid
      BY <1>0, <2>1 DEF Sids
    <3>2. \A i \in DOMAIN e : e[i].sid \in 1..s.sid /\ (e[i].sid = s.sid => e[i].seq < t.next)
      <4> TAKE i \in DOMAIN e
      <4>1. CASE i \in DOMAIN d
        BY <1>1, <1>4, <3>1, <4>1
      <4>2. CASE i = Len(d) + 1
        <5>1. b.sid \in 1..s.sid /\ b.seq < t.next
          BY <1>1
        <5> QED  BY <1>4, <4>2, <5>1
      <4> QED  BY <1>4, <4>1, <4>2
    <3>3. v.sid <= s.sid /\ v.sid # s.sid /\ \A i \in DOMAIN u : u[i].sid # s.sid
      BY <1>1, <3>1
    <3>4. (\A i \in DOMAIN u : u[i].sid \in 1..s.sid) /\ q.frame.seq < t.next
      BY <1>3, <3>1
    <3> QED  BY <3>2, <3>3, <3>4 DEF Sids
  <2>2. CASE s.phase = "open"
    <3>1. /\ v.sid <= s.sid /\ (v.sid = s.sid => v.seq < s.next)
          /\ (\A i \in DOMAIN d : d[i].sid \in 1..s.sid /\ (d[i].sid = s.sid => d[i].seq < s.next))
          /\ \A i \in DOMAIN u : u[i].sid \in 1..s.sid /\ (u[i].sid = s.sid => u[i].seq < s.next)
      BY <1>0, <2>2 DEF Sids
    <3>2. \A i \in DOMAIN d : d[i].sid = s.sid => d[i].seq < t.next
      BY <1>1, <3>1
    <3>3. \A i \in DOMAIN e : e[i].sid \in 1..s.sid /\ (e[i].sid = s.sid => e[i].seq < t.next)
      <4> TAKE i \in DOMAIN e
      <4>1. CASE i \in DOMAIN d
        BY <1>4, <3>1, <3>2, <4>1
      <4>2. CASE i = Len(d) + 1
        <5>1. b.sid \in 1..s.sid /\ b.seq < t.next
          BY <1>1
        <5> QED  BY <1>4, <4>2, <5>1
      <4> QED  BY <1>4, <4>1, <4>2
    <3>4. v.sid = s.sid => v.seq < t.next
      BY <1>1, <3>1
    <3>5. \A i \in DOMAIN u : u[i].sid = s.sid => u[i].seq < t.next
      BY <1>1, <3>1
    <3>6. \A i \in DOMAIN u : u[i].sid = s.sid => u[i].seq <= b.seq
      <4> TAKE i \in DOMAIN u
      <4>1. u[i].sid = s.sid => u[i].seq < b.seq
        BY DEF Newest
      <4>2. u[i].seq \in Nat /\ b.seq \in Nat
        BY <1>1, <1>2
      <4> QED  BY <4>1, <4>2
    <3> QED  BY <1>1, <1>2, <1>3, <3>1, <3>3, <3>4, <3>5, <3>6 DEF Sids
  <2> QED  BY <2>1, <2>2
<1>8. Line(q, e, v)
  <2>1. Fits(b, b)
    BY <1>2, FrameParts DEF Fits
  <2>2. \A i \in DOMAIN e : Fits(v, e[i])
    BY <1>0, <1>4 DEF Line
  <2>3. \A i \in DOMAIN e : Fits(e[i], b) /\ (Same(e[i], b) => e[i] = b)
    BY <1>4, <2>1
  <2>4. ASSUME NEW i \in DOMAIN e, NEW j \in DOMAIN e, i <= j
        PROVE  Fits(e[i], e[j]) /\ (Same(e[i], e[j]) => e[i] = e[j])
    <3>1. CASE j = Len(d) + 1
      BY <1>4, <2>3, <3>1
    <3>2. CASE j \in DOMAIN d
      <4>1. i \in DOMAIN d
        BY <1>4, <2>4, <3>2
      <4> QED  BY <1>0, <1>4, <2>4, <3>2, <4>1 DEF Line
    <3> QED  BY <1>4, <3>1, <3>2
  <2> QED  BY <1>3, <2>2, <2>3, <2>4 DEF Line
<1>9. Told(t, q, e, v, g)
  <2>1. v.local = 1..v.commit /\ v.commit <= h /\ \A i \in DOMAIN d : d[i].commit <= h
    BY <1>0 DEF Told
  <2>2. v.commit <= g
    BY <1>1, <2>1
  <2>3. \A i \in DOMAIN d : d[i].commit <= g
    <3> TAKE i \in DOMAIN d
    <3>1. d[i].commit \in Nat /\ d[i].commit <= h
      BY <1>1, <2>1
    <3> QED  BY <3>1
  <2>4. \A i \in DOMAIN e : e[i].commit <= g
    BY <1>4, <2>3
  <2> QED  BY <1>3, <2>1, <2>2, <2>4 DEF Told
<1>10. Acked(t, u, v)
  <2>1. CASE s.phase = "reading"
    <3>1. \A i \in DOMAIN u : u[i].sid < s.sid
      BY <1>0, <2>1 DEF Sids
    <3> QED  BY <1>1, <3>1 DEF Acked
  <2>2. CASE s.phase = "open"
    BY <1>0, <2>2 DEF Acked
  <2> QED  BY <2>1, <2>2
<1>11. Rested(t, v, g) /\ Answered(t, q, u, v)
  BY <1>1, <1>2, <1>3 DEF Rested, AtRest, Answered, Answering, Same, Newest
<1> QED  BY <1>5, <1>6, <1>7, <1>8, <1>9, <1>10, <1>11 DEF q, e

\* A session that waits for a snapshot is not disturbed by a commit it puts aside
LEMMA Grows ==
    ASSUME NEW s, NEW t, NEW p, NEW d, NEW u, NEW v, NEW h \in Nat, NEW g \in Nat, NEW k,
           Sound(s, p, d, u, v, h), Versions(s, v, k), Answered(s, p, u, v), h <= g,
           t \in AnySession, Kept(s, t), t.next = s.next, t.inflight = s.inflight,
           t.need = s.need, t.refreshing = s.refreshing, t.queue = s.queue,
           \A i \in DOMAIN t.handoff : t.handoff[i].seq \in 1..g,
           g = h \/ ~s.live \/ s.phase # "open" \/ s.refreshing \/ s.need
    PROVE  Sound(t, p, d, u, v, g) /\ Versions(t, v, k) /\ Answered(t, p, u, v)
<1>0. /\ Types(s, p, d, u, v) /\ Waits(s, p) /\ Sids(s, p, d, u, v) /\ Line(p, d, v)
      /\ Told(s, p, d, v, h) /\ Acked(s, u, v) /\ Chain(s, v, h) /\ Rested(s, v, h)
  BY SoundParts
<1>1. Types(t, p, d, u, v)
  BY <1>0 DEF Types, Kept
<1>2. Waits(t, p) /\ Sids(t, p, d, u, v)
  BY <1>0 DEF Waits, Sids, Kept
<1>3. Told(t, p, d, v, g)
  <2>1. /\ v.commit \in Nat /\ (p # NoFrame => p.frame.commit \in Nat)
        /\ (\A i \in DOMAIN d : d[i].commit \in Nat) /\ \A i \in DOMAIN s.queue : s.queue[i].commit \in Nat
    BY <1>0, Elements, FrameParts
  <2> QED  BY <1>0, <2>1 DEF Told
<1>4. Acked(t, u, v) /\ Answered(t, p, u, v) /\ Versions(t, v, k)
  BY <1>0 DEF Acked, Kept, Answered, Versions
<1>5. Chain(t, v, g)
  BY <1>0 DEF Chain, Kept, Types
<1>6. Rested(t, v, g)
  BY <1>0 DEF Rested, Kept, AtRest
<1> QED  BY <1>0, <1>1, <1>2, <1>3, <1>4, <1>5, <1>6 DEF Sound

\* What a step posts when it takes a session from s to t
Goes(s, t) == t.inflight # NoFrame /\ t.inflight # s.inflight
PostTo(s, t, p) == IF Goes(s, t) THEN [frame |-> t.inflight, resent |-> 0] ELSE p
DownTo(s, t, d) == IF Goes(s, t) THEN Append(d, t.inflight) ELSE d

\* The change that follows what the page shows
LEMMA SendsChange ==
    ASSUME NEW s, NEW t, NEW p, NEW d, NEW u, NEW v, NEW h \in Nat, NEW k,
           Sound(s, p, d, u, v, h), Versions(s, v, k), Answered(s, p, u, v),
           AtRest(s), t \in AnySession, Kept(s, t), t.next = s.next + 1,
           t.inflight = FrameOf(s, "changes", h + 1, 0), t.need = s.need, ~t.refreshing,
           t.queue = <<>>, t.handoff = s.handoff
    PROVE  LET b == t.inflight
               q == [frame |-> b, resent |-> 0]
           IN  /\ Sound(t, q, Append(d, b), u, v, h + 1) /\ Versions(t, v, k)
               /\ Answered(t, q, u, v) /\ b # NoFrame /\ b.foreign = 0
<1> DEFINE b == t.inflight
           q == [frame |-> b, resent |-> 0]
           e == Append(d, b)
<1>0. /\ Types(s, p, d, u, v) /\ Waits(s, p) /\ Sids(s, p, d, u, v) /\ Line(p, d, v)
      /\ Told(s, p, d, v, h) /\ Chain(s, v, h) /\ Rested(s, v, h)
  BY SoundParts
<1>1. s \in AnySession /\ s.next \in Nat /\ s.sid \in Nat /\ QueueLimit \in Nat
  BY <1>0, Elements, SessionParts
<1>2. /\ b \in AnyFrame /\ b.sid = s.sid /\ b.seq = s.next /\ b.kind = "changes"
      /\ b.commit = h + 1 /\ b.foreign = 0 /\ b # NoFrame
  BY <1>1, FrameOfIs, NoFrameIsNone
<1>3. s.phase = "open" /\ ~s.need /\ v.sid = s.sid /\ v.seq + 1 = s.next /\ v.commit = h
      /\ v.seq \in Nat
  BY <1>0, Elements DEF Rested, AtRest
<1> HIDE DEF b, q, e
<1>4. Fits(v, b) /\ ~Same(v, b)
  BY <1>1, <1>2, <1>3 DEF Fits, Same
<1>5. \A i \in DOMAIN d : Fits(d[i], b) /\ ~Same(d[i], b)
  <2> TAKE i \in DOMAIN d
  <2>1. /\ d[i].sid \in Nat /\ d[i].seq \in Nat /\ d[i].commit \in Nat /\ d[i].sid <= s.sid
        /\ (d[i].sid = s.sid => d[i].seq < s.next) /\ Fits(v, d[i])
    BY <1>0, <1>1, <1>3, Elements DEF Sids, Line
  <2>2. d[i].sid = s.sid => d[i].seq = v.seq /\ d[i].commit = v.commit
    BY <1>3, <2>1 DEF Fits
  <2> QED  BY <1>1, <1>2, <1>3, <2>1, <2>2 DEF Fits, Same
<1>6. Newest(b, u)
  BY <1>0, <1>1, <1>2, <1>3 DEF Sids, Newest
<1>7. \A i \in DOMAIN t.handoff : t.handoff[i].seq \in 1..h + 1
  BY <1>0 DEF Told
<1>8. /\ Types(t, q, e, u, v) /\ Waits(t, q) /\ Sids(t, q, e, u, v) /\ Line(q, e, v)
      /\ Told(t, q, e, v, h + 1) /\ Acked(t, u, v) /\ Rested(t, v, h + 1) /\ Answered(t, q, u, v)
  <2>1. /\ t.sid = s.sid /\ t.phase = "open" /\ s.phase \in {"reading", "open"}
        /\ t.inflight = b /\ b.seq < t.next /\ s.next <= t.next /\ b.commit <= h + 1
        /\ Len(t.queue) <= QueueLimit /\ h <= h + 1 /\ h + 1 \in Nat
        /\ \A i \in DOMAIN t.queue : t.queue[i].commit <= h + 1 /\ t.queue[i].foreign = 0
    BY <1>1, <1>2, <1>3 DEF Kept, b
  <2> QED  BY <1>2, <1>4, <1>5, <1>6, <1>7, <2>1, Sends DEF q, e
<1>9. Chain(t, v, h + 1)
  BY <1>1, <1>2, <1>3 DEF Chain, Kept, b
<1>10. Versions(t, v, k)
  BY <1>0, <1>2, <1>3 DEF Versions, Kept, b, AtRest
<1> QED  BY <1>2, <1>8, <1>9, <1>10 DEF Sound, b, q, e

LEMMA OneMore ==
    ASSUME NEW x \in Nat, NEW y \in Nat
    PROVE  x + (y + 1) = (x + y) + 1
OBVIOUS

LEMMA ChangeIs ==
    ASSUME NEW s \in AnySession, NEW h \in Nat
    PROVE  LET b == FrameOf(s, "changes", h + 1, 0)
           IN  /\ b \in AnyFrame /\ b # NoFrame /\ b.commit = h + 1 /\ b.foreign = 0
               /\ b = [sid |-> s.sid, seq |-> s.next, kind |-> "changes",
                       commit |-> h + 1, foreign |-> 0]
BY SessionParts, NoFrameIsNone DEF FrameOf, AnyFrame

\* A change that waits behind the frame in flight
LEMMA Lengthens ==
    ASSUME NEW s, NEW t, NEW p, NEW d, NEW u, NEW v, NEW h \in Nat, NEW k,
           Sound(s, p, d, u, v, h), Versions(s, v, k), Answered(s, p, u, v),
           s.live, s.phase = "open", s.inflight # NoFrame, ~s.need, Len(s.queue) + 1 <= QueueLimit,
           t \in AnySession, Kept(s, t), t.next = s.next + 1, t.inflight = s.inflight,
           t.need = s.need, t.refreshing = s.refreshing, t.handoff = s.handoff,
           t.queue = Append(s.queue, FrameOf(s, "changes", h + 1, 0))
    PROVE  Sound(t, p, d, u, v, h + 1) /\ Versions(t, v, k) /\ Answered(t, p, u, v)
<1> DEFINE b == FrameOf(s, "changes", h + 1, 0)
<1>0. /\ Types(s, p, d, u, v) /\ Waits(s, p) /\ Sids(s, p, d, u, v) /\ Line(p, d, v)
      /\ Told(s, p, d, v, h) /\ Acked(s, u, v) /\ Chain(s, v, h)
  BY SoundParts
<1>1. /\ s \in AnySession /\ s.next \in Nat /\ s.sid \in Nat /\ QueueLimit \in Nat
      /\ s.queue \in Seq(AnyFrame) /\ s.inflight \in AnyFrame /\ s.inflight.seq \in Nat
      /\ s.inflight.commit \in Nat
  BY <1>0, Elements, SessionParts, FrameParts
<1>2. b \in AnyFrame /\ b.commit = h + 1 /\ b.foreign = 0
      /\ b = [sid |-> s.sid, seq |-> s.next, kind |-> "changes", commit |-> h + 1, foreign |-> 0]
  BY <1>1, ChangeIs
<1>3. t.queue = Append(s.queue, b)
  OBVIOUS
<1> HIDE DEF b
<1>4. /\ t.queue # <<>> /\ Len(s.queue) \in Nat /\ DOMAIN s.queue = 1..Len(s.queue)
      /\ Len(t.queue) = Len(s.queue) + 1 /\ DOMAIN t.queue = 1..Len(s.queue) + 1
      /\ \A i \in DOMAIN s.queue : t.queue[i] = s.queue[i]
      /\ t.queue[Len(s.queue) + 1] = b
      /\ \A i \in DOMAIN t.queue : i \in DOMAIN s.queue \/ i = Len(s.queue) + 1
  <2> DEFINE w == s.queue
  <2>1. w \in Seq(AnyFrame) /\ b \in AnyFrame /\ t.queue = Append(w, b)
    BY <1>1, <1>2, <1>3
  <2> HIDE DEF w
  <2>2. /\ t.queue # <<>> /\ Len(w) \in Nat /\ DOMAIN w = 1..Len(w)
        /\ Len(t.queue) = Len(w) + 1 /\ DOMAIN t.queue = 1..Len(w) + 1
        /\ (\A i \in DOMAIN w : t.queue[i] = w[i]) /\ t.queue[Len(w) + 1] = b
        /\ \A i \in DOMAIN t.queue : i \in DOMAIN w \/ i = Len(w) + 1
    BY <2>1, Appends
  <2> QED  BY <2>2 DEF w
<1>5. Types(t, p, d, u, v)
  BY <1>0, <1>4 DEF Types, Kept
<1>6. Waits(t, p)
  BY <1>0 DEF Waits, Kept
<1>7. Sids(t, p, d, u, v)
  <2>1. /\ s.next \in Nat /\ v.seq \in Nat /\ (p # NoFrame => p.frame.seq \in Nat)
        /\ (\A i \in DOMAIN d : d[i].seq \in Nat) /\ \A i \in DOMAIN u : u[i].seq \in Nat
    BY <1>0, <1>1, Elements, FrameParts
  <2> QED  BY <1>0, <2>1 DEF Sids, Kept
<1>8. Told(t, p, d, v, h + 1)
  <2>1. /\ v.commit \in Nat /\ (p # NoFrame => p.frame.commit \in Nat)
        /\ (\A i \in DOMAIN d : d[i].commit \in Nat) /\ \A i \in DOMAIN s.queue : s.queue[i].commit \in Nat
    BY <1>0, Elements, FrameParts
  <2>2. \A i \in DOMAIN s.queue : s.queue[i].commit <= h + 1 /\ s.queue[i].foreign = 0
    BY <1>0, <2>1 DEF Told
  <2>3. \A i \in DOMAIN t.queue : t.queue[i].commit <= h + 1 /\ t.queue[i].foreign = 0
    BY <1>2, <1>4, <2>2
  <2>4. /\ v.commit <= h + 1 /\ (p # NoFrame => p.frame.commit <= h + 1)
        /\ (\A i \in DOMAIN d : d[i].commit <= h + 1)
        /\ \A i \in DOMAIN s.handoff : s.handoff[i].seq \in 1..h + 1
    BY <1>0, <2>1 DEF Told
  <2> QED  BY <1>0, <2>3, <2>4 DEF Told
<1>9. Acked(t, u, v) /\ Answered(t, p, u, v) /\ Versions(t, v, k)
  BY <1>0 DEF Acked, Kept, Answered, Versions
<1>10. Chain(t, v, h + 1)
  <2>1. /\ (s.inflight.kind = "changes" => v.sid = s.sid)
        /\ s.inflight.commit + Len(s.queue) = h /\ s.inflight.seq + Len(s.queue) + 1 = s.next
        /\ \A i \in DOMAIN s.queue :
              s.queue[i] = [sid |-> s.sid, seq |-> s.inflight.seq + i, kind |-> "changes",
                            commit |-> s.inflight.commit + i, foreign |-> 0]
    BY <1>0 DEF Chain
  <2>2. s.inflight.seq + (Len(s.queue) + 1) = s.next /\ s.inflight.commit + (Len(s.queue) + 1) = h + 1
    <3> DEFINE x == s.inflight.seq
               y == Len(s.queue)
               z == s.inflight.commit
               n == s.next
    <3>1. x \in Nat /\ y \in Nat /\ z \in Nat /\ n \in Nat /\ z + y = h /\ x + y + 1 = n
      BY <1>1, <1>4, <2>1
    <3> HIDE DEF x, y, z, n
    <3>2. z + (y + 1) = h + 1
      BY <3>1, OneMore
    <3>3. x + (y + 1) = n
      BY <3>1, OneMore
    <3> QED  BY <3>2, <3>3 DEF x, y, z, n
  <2>3. \A i \in DOMAIN t.queue :
              t.queue[i] = [sid |-> s.sid, seq |-> s.inflight.seq + i, kind |-> "changes",
                            commit |-> s.inflight.commit + i, foreign |-> 0]
    BY <1>2, <1>4, <2>1, <2>2
  <2> QED  BY <1>1, <1>4, <2>1, <2>2, <2>3 DEF Chain, Kept
<1>11. Rested(t, v, h + 1)
  BY DEF Rested, AtRest
<1> QED  BY <1>5, <1>6, <1>7, <1>8, <1>9, <1>10, <1>11 DEF Sound

\* What a commit does with a page that has heard of all the commits before it
LEMMA CommitSound ==
    ASSUME NEW s, NEW p, NEW d, NEW u, NEW v, NEW h \in Nat, NEW k, NEW m \in AnyCommit,
           Sound(s, p, d, u, v, h), Versions(s, v, k), Answered(s, p, u, v), m.seq = h + 1
    PROVE  LET t == OnCommit(s, m)
           IN  /\ Sound(t, PostTo(s, t, p), DownTo(s, t, d), u, v, h + 1) /\ Versions(t, v, k)
               /\ Answered(t, PostTo(s, t, p), u, v)
               /\ Goes(s, t) => t.inflight.foreign = 0
               /\ Kept(s, t) /\ (t.refreshing /\ ~s.refreshing => s.live)
<1> DEFINE t == OnCommit(s, m)
           b == FrameOf(s, "changes", m.seq, 0)
           numbered == [s EXCEPT !.next = @ + 1]
<1>0. /\ Types(s, p, d, u, v) /\ Told(s, p, d, v, h) /\ Chain(s, v, h)
  BY SoundParts
<1>1. /\ s \in AnySession /\ s.next \in Nat /\ QueueLimit \in Nat /\ s.queue \in Seq(AnyFrame)
      /\ s.handoff \in Seq(AnyCommit) /\ Len(s.queue) \in Nat /\ s.live \in BOOLEAN
      /\ s.need \in BOOLEAN /\ s.refreshing \in BOOLEAN /\ s.phase \in Phase /\ m.wide \in BOOLEAN
  BY <1>0, Elements, SessionParts DEF AnyCommit
<1>2. b = FrameOf(s, "changes", h + 1, 0) /\ b \in AnyFrame /\ b # NoFrame
  BY <1>1, ChangeIs
<1>3. /\ numbered \in AnySession /\ Kept(s, numbered) /\ numbered.next = s.next + 1
      /\ numbered.inflight = s.inflight /\ numbered.need = s.need /\ numbered.queue = s.queue
      /\ numbered.refreshing = s.refreshing /\ numbered.handoff = s.handoff
  <2>1. s.next + 1 \in Nat
    BY <1>1
  <2> QED  BY <1>1, <2>1, SessionIs DEF AnySession, Kept
<1>4. t = IF ~s.live \/ s.phase \in {"off", "baseline", "failed"} THEN s
          ELSE IF s.phase = "reading" \/ s.refreshing THEN [s EXCEPT !.handoff = Append(@, m)]
          ELSE IF s.need THEN s
          ELSE IF m.wide THEN EnterRequired(s)
          ELSE IF s.inflight = NoFrame /\ s.queue = <<>> THEN [numbered EXCEPT !.inflight = b]
          ELSE IF Len(s.queue) + 1 > QueueLimit THEN EnterRequired(numbered)
          ELSE [numbered EXCEPT !.queue = Append(@, b)]
  BY <1>1 DEF OnCommit, Enqueue
<1>5. Kept(s, s) /\ h <= h + 1 /\ h + 1 \in Nat
      /\ \A i \in DOMAIN s.handoff : s.handoff[i].seq \in Nat /\ s.handoff[i].seq \in 1..h + 1
  BY <1>0, Elements DEF Kept, Told
<1> HIDE DEF t, b, numbered
<1>6. CASE ~s.live \/ s.phase \in {"off", "baseline", "failed"}
  <2>1. t = s
    BY <1>4, <1>6
  <2> QED  BY <1>1, <1>5, <1>6, <2>1, Grows DEF PostTo, DownTo, Goes, t
<1>7. CASE s.live /\ s.phase \in {"reading", "open"} /\ (s.phase = "reading" \/ s.refreshing)
  <2>1. t = [s EXCEPT !.handoff = Append(@, m)]
    BY <1>4, <1>7
  <2>2. Append(s.handoff, m) \in Seq(AnyCommit)
    BY <1>1
  <2>3. /\ t \in AnySession /\ Kept(s, t) /\ t.next = s.next /\ t.inflight = s.inflight
        /\ t.need = s.need /\ t.refreshing = s.refreshing /\ t.queue = s.queue
        /\ t.handoff = Append(s.handoff, m)
    BY <1>1, <2>1, <2>2, SessionIs DEF AnySession, Kept
  <2>4. \A i \in DOMAIN t.handoff : t.handoff[i].seq \in 1..h + 1
    <3>1. /\ \A i \in DOMAIN s.handoff : t.handoff[i] = s.handoff[i]
          /\ t.handoff[Len(s.handoff) + 1] = m
          /\ \A i \in DOMAIN t.handoff : i \in DOMAIN s.handoff \/ i = Len(s.handoff) + 1
      BY <1>1, <2>3, Appends
    <3> QED  BY <1>5, <3>1
  <2> QED  BY <1>5, <1>7, <2>3, <2>4, Grows DEF PostTo, DownTo, Goes, t
<1>8. CASE s.live /\ s.phase = "open" /\ ~s.refreshing /\ s.need
  <2>1. t = s
    BY <1>4, <1>8
  <2> QED  BY <1>1, <1>5, <1>8, <2>1, Grows DEF PostTo, DownTo, Goes, t
<1>9. CASE s.live /\ s.phase = "open" /\ ~s.refreshing /\ ~s.need /\ m.wide
  <2>1. t = EnterRequired(s)
    BY <1>4, <1>9
  <2>2. /\ t \in AnySession /\ Kept(s, t) /\ t.inflight = s.inflight /\ t.next = s.next
        /\ t.need /\ t.queue = <<>> /\ t.refreshing = (s.refreshing \/ AtRest(s))
        /\ t.handoff = s.handoff \/ t.handoff = <<>>
    BY <1>1, <1>9, <2>1, EnterIs
  <2> QED  BY <1>5, <1>9, <2>2, Requires DEF PostTo, DownTo, Goes, t
<1>10. CASE s.live /\ s.phase = "open" /\ ~s.refreshing /\ ~s.need /\ ~m.wide /\ s.inflight = NoFrame
  <2>1. s.queue = <<>> /\ AtRest(s)
    BY <1>0, <1>10 DEF Types, AtRest
  <2>2. t = [numbered EXCEPT !.inflight = b]
    BY <1>4, <1>10, <2>1
  <2>3. /\ t \in AnySession /\ Kept(s, t) /\ t.next = s.next + 1 /\ t.inflight = b
        /\ t.need = s.need /\ ~t.refreshing /\ t.queue = <<>> /\ t.handoff = s.handoff
    BY <1>2, <1>3, <1>10, <2>1, <2>2, SessionIs DEF AnySession, Kept
  <2> QED  BY <1>2, <1>10, <2>1, <2>3, SendsChange DEF PostTo, DownTo, Goes, t
<1>11. CASE /\ s.live /\ s.phase = "open" /\ ~s.refreshing /\ ~s.need /\ ~m.wide
            /\ s.inflight # NoFrame /\ Len(s.queue) + 1 > QueueLimit
  <2>1. t = EnterRequired(numbered)
    BY <1>4, <1>11
  <2>2. /\ t \in AnySession /\ Kept(s, t) /\ t.inflight = s.inflight /\ t.next = s.next + 1
        /\ t.need /\ t.queue = <<>> /\ t.refreshing = (s.refreshing \/ AtRest(s))
        /\ t.handoff = s.handoff \/ t.handoff = <<>>
    BY <1>3, <1>11, <2>1, EnterIs DEF Kept, AtRest
  <2> QED  BY <1>5, <1>11, <2>2, Requires DEF PostTo, DownTo, Goes, t
<1>12. CASE /\ s.live /\ s.phase = "open" /\ ~s.refreshing /\ ~s.need /\ ~m.wide
            /\ s.inflight # NoFrame /\ Len(s.queue) + 1 <= QueueLimit
  <2>1. t = [numbered EXCEPT !.queue = Append(@, b)]
    BY <1>1, <1>4, <1>12
  <2>2. Append(s.queue, b) \in Seq(AnyFrame)
    BY <1>1, <1>2
  <2>3. /\ t \in AnySession /\ Kept(s, t) /\ t.next = s.next + 1 /\ t.inflight = s.inflight
        /\ t.need = s.need /\ t.refreshing = s.refreshing /\ t.handoff = s.handoff
        /\ t.queue = Append(s.queue, b)
    BY <1>3, <2>1, <2>2, SessionIs DEF AnySession, Kept
  <2> QED  BY <1>2, <1>12, <2>3, Lengthens DEF PostTo, DownTo, Goes, t
<1> QED
  BY <1>1, <1>6, <1>7, <1>8, <1>9, <1>10, <1>11, <1>12 DEF Phase, t

-----------------------------------------------------------------------------
(* The snapshot and the commits that were put aside *)

\* The least of a set of numbers: the initial segments of the naturals are well-founded
LEMMA Least ==
   ASSUME NEW S \in SUBSET Nat, S # {}
   PROVE  \E m \in S : \A k \in S : m <= k
<1> DEFINE R == StrictSubsetOrdering(Nat)
           T == {1..n : n \in S}
<1>1. IsWellFoundedOn(R, FiniteSubsetsOf(Nat))
  BY FS_StrictSubsetOrderingWellFounded
<1>2. \A n \in S : 1..n \in FiniteSubsetsOf(Nat)
  BY FS_Interval DEF FiniteSubsetsOf
<1>3. T \subseteq FiniteSubsetsOf(Nat) /\ T # {}
  BY <1>2
<1> HIDE DEF R
<1>4. \E x \in T : \A y \in T : <<y, x>> \notin R
  <2> HIDE DEF T
  <2> QED BY <1>1, <1>3, WFMin
<1>5. PICK m \in S : \A n \in S : <<1..n, 1..m>> \notin R
  BY <1>4
<1>6. \A n \in S : n < m => <<1..n, 1..m>> \in R
  <2> TAKE n \in S
  <2> HAVE n < m
  <2>1. 1..n \subseteq Nat /\ 1..m \subseteq Nat /\ 1..n \subseteq 1..m /\ 1..n # 1..m
    <3>1. m \in 1..m /\ m \notin 1..n
      OBVIOUS
    <3> QED BY <3>1
  <2> QED BY <2>1 DEF R, StrictSubsetOrdering
<1>7. \A n \in S : n \in Nat /\ m \in Nat /\ ~(n < m)
  BY <1>5, <1>6
<1> QED BY <1>7

\* A function that keeps its value from one number to the next
Steady(f, n, x) == f[0] = x /\ \A i \in 1..n : f[i] = f[i - 1]

LEMMA SteadyIs ==
    ASSUME NEW n \in Nat, NEW f, NEW x, Steady(f, n, x)
    PROVE  f[n] = x
<1> DEFINE S == {i \in 0..n : f[i] # x}
<1> SUFFICES ASSUME S # {} PROVE FALSE
  <2>1. n \in 0..n
    OBVIOUS
  <2> QED  BY <2>1
<1>1. S \in SUBSET Nat
  OBVIOUS
<1> HIDE DEF S
<1>2. PICK i \in S : \A j \in S : i <= j
  BY <1>1, Least
<1>3. i \in 1..n /\ f[i] # x
  BY <1>2 DEF S, Steady
<1>4. i - 1 \in 0..n /\ ~(i <= i - 1) /\ f[i] = f[i - 1]
  BY <1>3 DEF Steady
<1>5. i - 1 \notin S
  BY <1>2, <1>4
<1> QED  BY <1>3, <1>4, <1>5 DEF S

\* A snapshot that contains every commit that was put aside
LEMMA SnapshotIs ==
    ASSUME NEW s, NEW m, Len(s.handoff) \in Nat,
           \A i \in 1..Len(s.handoff) : ~(s.handoff[i].seq > m.commit)
    PROVE  SendSnapshot(s, m) =
              [[s EXCEPT !.inflight = FrameOf(s, "snapshot", m.commit, m.foreign),
                         !.next = @ + 1, !.handoff = <<>>] EXCEPT !.refreshing = FALSE]
<1> DEFINE sent == [s EXCEPT !.inflight = FrameOf(s, "snapshot", m.commit, m.foreign),
                             !.next = @ + 1, !.handoff = <<>>]
           n == Len(s.handoff)
           Step(f) == [i \in 0..n |-> IF i = 0 THEN sent ELSE HandOver(f[i - 1], s.handoff[i], m)]
           after == CHOOSE f : f = Step(f)
<1>1. SendSnapshot(s, m) = [after[n] EXCEPT !.refreshing = FALSE]
  BY DEF SendSnapshot
<1> HIDE DEF sent
<1>2. [i \in 0..n |-> sent] = Step([i \in 0..n |-> sent])
  BY DEF HandOver
<1>3. after = Step(after)
  <2>1. \E f : f = Step(f)
    BY <1>2
  <2> HIDE DEF Step
  <2> QED  BY <2>1
<1> HIDE DEF after
<1>4. Steady(after, n, sent)
  BY <1>3 DEF HandOver, Steady
<1>5. after[n] = sent
  <2>1. n \in Nat
    OBVIOUS
  <2> HIDE DEF n
  <2> QED  BY <1>4, <2>1, SteadyIs
<1> QED  BY <1>1, <1>5 DEF sent

LEMMA SnapIs ==
    ASSUME NEW s \in AnySession, NEW h \in Nat, NEW version \in Nat
    PROVE  LET b == FrameOf(s, "snapshot", h, version)
           IN  /\ b \in AnyFrame /\ b # NoFrame /\ b.sid = s.sid /\ b.seq = s.next
               /\ b.kind = "snapshot" /\ b.commit = h /\ b.foreign = version
BY SessionParts, NoFrameIsNone DEF FrameOf, AnyFrame

\* A snapshot of all that the host has heard of and of a version not below any shown
LEMMA SendsSnapshot ==
    ASSUME NEW s, NEW t, NEW p, NEW d, NEW u, NEW v, NEW h \in Nat, NEW k, NEW version \in Nat,
           Sound(s, p, d, u, v, h), s.phase = "reading" \/ s.refreshing,
           v.foreign <= version, \A i \in DOMAIN d : d[i].foreign <= version,
           k # Unknown => k <= version,
           t \in AnySession, t.sid = s.sid, t.live = s.live, t.phase = "open", t.next = s.next + 1,
           t.inflight = FrameOf(s, "snapshot", h, version), ~t.refreshing,
           t.queue = s.queue, t.handoff = <<>>
    PROVE  LET b == t.inflight
               q == [frame |-> b, resent |-> 0]
           IN  /\ Sound(t, q, Append(d, b), u, v, h) /\ Versions(t, v, k)
               /\ Answered(t, q, u, v) /\ b # NoFrame /\ b.foreign = version
<1> DEFINE b == t.inflight
           q == [frame |-> b, resent |-> 0]
           e == Append(d, b)
<1>0. /\ Types(s, p, d, u, v) /\ Waits(s, p) /\ Sids(s, p, d, u, v) /\ Line(p, d, v)
      /\ Told(s, p, d, v, h) /\ Chain(s, v, h)
  BY SoundParts
<1>1. s \in AnySession /\ s.next \in Nat /\ s.sid \in Nat /\ QueueLimit \in Nat /\ Len(s.queue) \in Nat
      /\ v.sid \in Nat /\ v.seq \in Nat /\ v.commit \in Nat
  BY <1>0, Elements, SessionParts
<1>2. /\ b \in AnyFrame /\ b.sid = s.sid /\ b.seq = s.next /\ b.kind = "snapshot"
      /\ b.commit = h /\ b.foreign = version /\ b # NoFrame
  <2> DEFINE f == FrameOf(s, "snapshot", h, version)
  <2>1. s \in AnySession /\ h \in Nat /\ version \in Nat
    BY <1>1
  <2>2. /\ f \in AnyFrame /\ f # NoFrame /\ f.sid = s.sid /\ f.seq = s.next
        /\ f.kind = "snapshot" /\ f.commit = h /\ f.foreign = version
    BY <2>1, SnapIs
  <2>3. b = f
    OBVIOUS
  <2> HIDE DEF b, f
  <2> QED  BY <2>2, <2>3
<1>3. s.queue = <<>> /\ s.phase \in {"reading", "open"} /\ (s.refreshing => s.phase = "open")
  BY <1>0 DEF Types
<1> HIDE DEF b, q, e
<1>4. Fits(v, b) /\ ~Same(v, b)
  <2>1. v.sid <= s.sid /\ (v.sid = s.sid => v.seq < s.next) /\ v.commit <= h
    BY <1>0, <1>1, <1>3 DEF Sids, Told
  <2> QED  BY <1>1, <1>2, <2>1 DEF Fits, Same
<1>5. \A i \in DOMAIN d : Fits(d[i], b) /\ ~Same(d[i], b)
  <2> TAKE i \in DOMAIN d
  <2>1. /\ d[i].sid \in Nat /\ d[i].seq \in Nat /\ d[i].commit \in Nat /\ d[i].sid <= s.sid
        /\ (d[i].sid = s.sid => d[i].seq < s.next) /\ d[i].commit <= h /\ d[i].foreign <= version
    <3>1. d[i].sid \in Nat /\ d[i].seq \in Nat /\ d[i].commit \in Nat
      BY <1>0, Elements
    <3> QED  BY <1>0, <1>1, <1>3, <3>1 DEF Sids, Told
  <2> QED  BY <1>1, <1>2, <2>1 DEF Fits, Same
<1>6. Newest(b, u)
  <2> SUFFICES ASSUME NEW i \in DOMAIN u PROVE u[i].sid = b.sid => u[i].seq < b.seq
    BY DEF Newest
  <2>1. u[i].sid \in Nat /\ u[i].seq \in Nat
    BY <1>0, Elements
  <2> QED  BY <1>0, <1>1, <1>2, <1>3, <2>1 DEF Sids
<1>7. /\ Types(t, q, e, u, v) /\ Waits(t, q) /\ Sids(t, q, e, u, v) /\ Line(q, e, v)
      /\ Told(t, q, e, v, h) /\ Acked(t, u, v) /\ Rested(t, v, h) /\ Answered(t, q, u, v)
  <2>1. /\ t.inflight = b /\ b.seq < t.next /\ s.next <= t.next /\ b.commit <= h
        /\ Len(t.queue) <= QueueLimit /\ h <= h
        /\ \A i \in DOMAIN t.queue : t.queue[i].commit <= h /\ t.queue[i].foreign = 0
        /\ \A i \in DOMAIN t.handoff : t.handoff[i].seq \in 1..h
    BY <1>0, <1>1, <1>2, <1>3 DEF b, Types
  <2> QED  BY <1>2, <1>3, <1>4, <1>5, <1>6, <2>1, Sends DEF q, e
<1>8. Chain(t, v, h)
  <2>1. Len(t.queue) = 0 /\ t.queue = <<>>
    BY <1>3
  <2>2. b.commit + 0 = h /\ b.seq + 0 + 1 = t.next
    BY <1>1, <1>2
  <2> QED  BY <1>2, <2>1, <2>2 DEF Chain, b
<1>9. Versions(t, v, k)
  BY <1>2 DEF Versions, b
<1> QED  BY <1>2, <1>7, <1>8, <1>9 DEF Sound, b, q, e

\* An answer to a read is not older than what was sent, shown and seen
Reached(d, v, k, version) ==
    /\ v.foreign <= version /\ \A i \in DOMAIN d : d[i].foreign <= version
    /\ k # Unknown => k <= version
Completes(s, t, m) ==
    \/ s.phase = "reading" /\ t = Connected(s, m)
    \/ s.refreshing /\ t = Refreshed(s, m)
Takes(s, t, m) == t = s \/ Completes(s, t, m)

\* What a session does with the answer to its read
LEMMA AnswerSound ==
    ASSUME NEW s, NEW t, NEW p, NEW d, NEW u, NEW v, NEW h \in Nat, NEW k, NEW m \in AnyAnswer,
           Sound(s, p, d, u, v, h), m.commit = h, Reached(d, v, k, m.foreign), Completes(s, t, m)
    PROVE  /\ Sound(t, PostTo(s, t, p), DownTo(s, t, d), u, v, h) /\ Versions(t, v, k)
           /\ Answered(t, PostTo(s, t, p), u, v)
           /\ Goes(s, t) /\ t.inflight.foreign = m.foreign
           /\ t.sid = s.sid /\ t.live = s.live /\ t.phase = "open" /\ ~t.refreshing
<1> DEFINE b == FrameOf(s, "snapshot", h, m.foreign)
<1>0. Types(s, p, d, u, v) /\ Told(s, p, d, v, h)
  BY SoundParts
<1>1. /\ s \in AnySession /\ s.next + 1 \in Nat /\ Len(s.handoff) \in Nat /\ s.again \in BOOLEAN
      /\ <<>> \in Seq(AnyCommit) /\ m.foreign \in Nat
      /\ DOMAIN s.handoff = 1..Len(s.handoff)
  BY <1>0, SessionParts DEF Types, AnyAnswer
<1>2. b = FrameOf(s, "snapshot", m.commit, m.foreign) /\ b \in AnyFrame /\ b # NoFrame /\ b.foreign = m.foreign
  BY <1>1, SnapIs
<1>3. \A i \in 1..Len(s.handoff) : ~(s.handoff[i].seq > m.commit)
  BY <1>0, <1>1 DEF Told
<1> HIDE DEF b
<1>4. /\ t \in AnySession /\ t.sid = s.sid /\ t.live = s.live /\ t.phase = "open"
      /\ t.next = s.next + 1 /\ t.inflight = b /\ ~t.refreshing /\ t.queue = s.queue /\ t.handoff = <<>>
  <2>1. CASE s.phase = "reading" /\ t = Connected(s, m)
    <3> DEFINE r == [s EXCEPT !.phase = "open"]
    <3>1. /\ r \in AnySession /\ r.sid = s.sid /\ r.live = s.live /\ r.phase = "open"
          /\ r.next = s.next /\ r.queue = s.queue /\ r.handoff = s.handoff
      BY <1>1, SessionIs DEF AnySession, Phase
    <3>2. t = SendSnapshot(r, m)
      BY <2>1 DEF Connected
    <3> HIDE DEF r
    <3>3. FrameOf(r, "snapshot", m.commit, m.foreign) = b
      BY <1>2, <3>1 DEF FrameOf
    <3>4. t = [[r EXCEPT !.inflight = b, !.next = @ + 1, !.handoff = <<>>] EXCEPT !.refreshing = FALSE]
      BY <1>1, <1>3, <3>1, <3>2, <3>3, SnapshotIs
    <3> QED  BY <1>1, <1>2, <3>1, <3>4, SessionIs DEF AnySession
  <2>2. CASE s.refreshing /\ t = Refreshed(s, m)
    <3> DEFINE r == [s EXCEPT !.need = s.again]
    <3>1. /\ r \in AnySession /\ r.sid = s.sid /\ r.live = s.live /\ r.phase = "open"
          /\ r.next = s.next /\ r.queue = s.queue /\ r.handoff = s.handoff
      BY <1>0, <1>1, <2>2, SessionIs DEF AnySession, Types
    <3>2. t = SendSnapshot(r, m)
      BY <2>2 DEF Refreshed
    <3> HIDE DEF r
    <3>3. FrameOf(r, "snapshot", m.commit, m.foreign) = b
      BY <1>2, <3>1 DEF FrameOf
    <3>4. t = [[r EXCEPT !.inflight = b, !.next = @ + 1, !.handoff = <<>>] EXCEPT !.refreshing = FALSE]
      BY <1>1, <1>3, <3>1, <3>2, <3>3, SnapshotIs
    <3> QED  BY <1>1, <1>2, <3>1, <3>4, SessionIs DEF AnySession
  <2> QED  BY <2>1, <2>2 DEF Completes
<1>5. s.inflight = NoFrame /\ (s.phase = "reading" \/ s.refreshing)
  BY <1>0 DEF Types, Completes
<1>6. Goes(s, t)
  BY <1>2, <1>4, <1>5 DEF Goes
<1>7. v.foreign <= m.foreign /\ (\A i \in DOMAIN d : d[i].foreign <= m.foreign) /\ (k # Unknown => k <= m.foreign)
  BY DEF Reached
<1>8. t.inflight = FrameOf(s, "snapshot", h, m.foreign) /\ t.inflight.foreign = m.foreign
  BY <1>2, <1>4 DEF b
<1>9. LET f == t.inflight
          q == [frame |-> f, resent |-> 0]
      IN  Sound(t, q, Append(d, f), u, v, h) /\ Versions(t, v, k) /\ Answered(t, q, u, v)
  BY <1>1, <1>4, <1>5, <1>7, <1>8, SendsSnapshot
<1> QED  BY <1>4, <1>6, <1>8, <1>9 DEF PostTo, DownTo

-----------------------------------------------------------------------------
(* What a session does with what its page says *)

LEMMA Settles ==
    ASSUME NEW s, NEW t, NEW p, NEW d, NEW u, NEW v, NEW h \in Nat, NEW k,
           Sound(s, p, d, u, v, h), s.phase = "open",
           t \in AnySession, Kept(s, t), t.next = s.next, t.inflight = NoFrame, t.queue = <<>>,
           t.handoff = s.handoff \/ t.handoff = <<>>,
           \/ t.refreshing
           \/ ~t.need /\ v.sid = s.sid /\ v.seq + 1 = s.next /\ v.commit = h
              /\ (~t.refreshing /\ k # Unknown => k <= v.foreign)
    PROVE  /\ Sound(t, NoFrame, d, u, v, h) /\ Versions(t, v, k) /\ Answered(t, NoFrame, u, v)
<1>0. /\ Types(s, p, d, u, v) /\ Sids(s, p, d, u, v) /\ Line(p, d, v)
      /\ Told(s, p, d, v, h) /\ Acked(s, u, v)
  BY SoundParts
<1>1. QueueLimit \in Nat
  BY FeedAssumption
<1>2. Types(t, NoFrame, d, u, v)
  BY <1>0, <1>1 DEF Types, Kept
<1>3. Waits(t, NoFrame) /\ Chain(t, v, h) /\ Answered(t, NoFrame, u, v)
  BY DEF Waits, Chain, Answered
<1>4. Sids(t, NoFrame, d, u, v)
  BY <1>0 DEF Sids, Kept
<1>5. Line(NoFrame, d, v) /\ Told(t, NoFrame, d, v, h) /\ Acked(t, u, v)
  BY <1>0 DEF Line, Told, Acked, Kept
<1>6. Rested(t, v, h) /\ Versions(t, v, k)
  BY DEF Rested, AtRest, Kept, Versions
<1> QED  BY <1>2, <1>3, <1>4, <1>5, <1>6 DEF Sound

\* What the page said first has been read
LEMMA Listens ==
    ASSUME NEW s, NEW p, NEW d, NEW u, NEW v, NEW h, Sound(s, p, d, u, v, h), u # <<>>
    PROVE  /\ Sound(s, p, d, Tail(u), v, h)
           /\ Answered(s, p, u, v) /\ (s.live /\ p # NoFrame => ~Answering(Head(u), p)) =>
                 Answered(s, p, Tail(u), v)
<1>0. /\ Types(s, p, d, u, v) /\ Waits(s, p) /\ Sids(s, p, d, u, v) /\ Line(p, d, v)
      /\ Told(s, p, d, v, h) /\ Acked(s, u, v) /\ Chain(s, v, h) /\ Rested(s, v, h)
  BY SoundParts
<1> DEFINE w == Tail(u)
<1>1. /\ u \in Seq(AnyControl) /\ w \in Seq(AnyControl) /\ Head(u) = u[1] /\ Len(u) \in Nat \ {0}
      /\ DOMAIN u = 1..Len(u) /\ DOMAIN w = 1..Len(u) - 1
      /\ \A i \in DOMAIN w : w[i] = u[i + 1] /\ i + 1 \in DOMAIN u
  BY <1>0, Tails DEF Types
<1> HIDE DEF w
<1>2. Types(s, p, d, w, v)
  BY <1>0, <1>1 DEF Types
<1>3. Sids(s, p, d, w, v)
  BY <1>0, <1>1 DEF Sids
<1>4. Acked(s, w, v)
  BY <1>0, <1>1 DEF Acked
<1>5. ASSUME Answered(s, p, u, v), s.live /\ p # NoFrame => ~Answering(Head(u), p)
      PROVE  Answered(s, p, w, v)
  <2> SUFFICES ASSUME s.live, p # NoFrame
               PROVE  /\ Same(v, p.frame) => \E i \in DOMAIN w : Answering(w[i], p)
                      /\ \A i \in DOMAIN w : Answering(w[i], p) =>
                            \E j \in 1..i : Answering(w[j], p) /\ w[j].kind = "ack"
    BY DEF Answered
  <2>1. \A i \in DOMAIN u : Answering(u[i], p) => i # 1
    BY <1>1, <1>5
  <2>2. \A i \in DOMAIN u : i # 1 => i - 1 \in DOMAIN w /\ w[i - 1] = u[i]
    BY <1>1
  <2>3. ASSUME Same(v, p.frame) PROVE \E i \in DOMAIN w : Answering(w[i], p)
    <3>1. PICK i \in DOMAIN u : Answering(u[i], p)
      BY <1>5, <2>3 DEF Answered
    <3> QED  BY <2>1, <2>2, <3>1
  <2>4. ASSUME NEW i \in DOMAIN w, Answering(w[i], p)
        PROVE  \E j \in 1..i : Answering(w[j], p) /\ w[j].kind = "ack"
    <3>1. i + 1 \in DOMAIN u /\ w[i] = u[i + 1]
      BY <1>1
    <3>2. PICK j \in 1..i + 1 : Answering(u[j], p) /\ u[j].kind = "ack"
      BY <1>5, <2>4, <3>1 DEF Answered
    <3>3. j \in DOMAIN u /\ j # 1
      BY <1>1, <2>1, <3>1, <3>2
    <3>4. j - 1 \in 1..i
      BY <1>1, <3>2, <3>3
    <3> QED  BY <2>2, <3>2, <3>3, <3>4
  <2> QED  BY <2>3, <2>4
<1> QED  BY <1>0, <1>2, <1>3, <1>4, <1>5 DEF Sound, w

LEMMA OneLess ==
    ASSUME NEW x \in Nat, NEW n \in Nat
    PROVE  /\ (x + 1) + n = x + (n + 1)
           /\ n # 0 => /\ x + 1 <= x + n /\ (x + 1) + (n - 1) = x + n
                       /\ x + 1 < x + n + 1 /\ (x + 1) + (n - 1) + 1 = x + n + 1
OBVIOUS

\* The first change of the queue follows the frame that was acknowledged
LEMMA SendsNext ==
    ASSUME NEW s, NEW t, NEW p, NEW d, NEW u, NEW v, NEW h \in Nat, NEW k,
           Sound(s, p, d, u, v, h), Versions(s, v, k),
           s.live, s.phase = "open", s.inflight # NoFrame, ~s.need, s.queue # <<>>,
           v.sid = s.sid, v.seq = s.inflight.seq, v.commit = s.inflight.commit,
           s.inflight.kind = "snapshot" => v.foreign = s.inflight.foreign,
           t \in AnySession, Kept(s, t), t.next = s.next, t.inflight = Head(s.queue),
           t.need = s.need, ~t.refreshing, t.queue = Tail(s.queue), t.handoff = s.handoff
    PROVE  LET b == t.inflight
               q == [frame |-> b, resent |-> 0]
           IN  /\ Sound(t, q, Append(d, b), u, v, h) /\ Versions(t, v, k)
               /\ Answered(t, q, u, v) /\ b # NoFrame /\ b # s.inflight /\ b.foreign = 0
<1> DEFINE b == t.inflight
           a == s.inflight
           q == [frame |-> b, resent |-> 0]
           e == Append(d, b)
           w == Tail(s.queue)
<1>0. /\ Types(s, p, d, u, v) /\ Waits(s, p) /\ Sids(s, p, d, u, v) /\ Line(p, d, v)
      /\ Told(s, p, d, v, h) /\ Chain(s, v, h) /\ Acked(s, u, v)
  BY SoundParts
<1>1. /\ s \in AnySession /\ s.next \in Nat /\ s.sid \in Nat /\ QueueLimit \in Nat
      /\ v.sid \in Nat /\ v.seq \in Nat /\ v.commit \in Nat /\ s.queue \in Seq(AnyFrame)
      /\ a \in AnyFrame /\ a.seq \in Nat /\ a.commit \in Nat
  BY <1>0, Elements, SessionParts, FrameParts
<1>2. /\ b = s.queue[1] /\ b \in AnyFrame /\ w \in Seq(AnyFrame)
      /\ Len(s.queue) \in Nat \ {0} /\ DOMAIN s.queue = 1..Len(s.queue)
      /\ Len(w) = Len(s.queue) - 1 /\ DOMAIN w = 1..Len(s.queue) - 1
      /\ \A i \in DOMAIN w : w[i] = s.queue[i + 1] /\ i + 1 \in DOMAIN s.queue
  BY <1>1, Tails
<1>3. /\ a.commit + Len(s.queue) = h /\ a.seq + Len(s.queue) + 1 = s.next
      /\ \A i \in DOMAIN s.queue :
            s.queue[i] = [sid |-> s.sid, seq |-> a.seq + i, kind |-> "changes",
                          commit |-> a.commit + i, foreign |-> 0]
  BY <1>0 DEF Chain
<1>4. /\ b # NoFrame /\ b.sid = s.sid /\ b.seq = a.seq + 1 /\ b.kind = "changes"
      /\ b.commit = a.commit + 1 /\ b.foreign = 0 /\ b # a
  <2>1. 1 \in DOMAIN s.queue
    BY <1>2
  <2>2. b = [sid |-> s.sid, seq |-> a.seq + 1, kind |-> "changes", commit |-> a.commit + 1, foreign |-> 0]
    BY <1>2, <1>3, <2>1
  <2>3. b.sid = s.sid /\ b.seq = a.seq + 1 /\ b.kind = "changes" /\ b.commit = a.commit + 1 /\ b.foreign = 0
    BY <2>2
  <2> HIDE DEF b, a
  <2>4. b # a
    BY <1>1, <2>3
  <2> QED  BY <1>2, <2>3, <2>4, NoFrameIsNone
<1>5. b.seq < s.next /\ b.commit <= h /\ b.commit + Len(w) = h /\ b.seq + Len(w) + 1 = s.next
  <2> DEFINE x == a.seq
             z == a.commit
             n == Len(s.queue)
             y == s.next
  <2>1. /\ x \in Nat /\ z \in Nat /\ n \in Nat \ {0} /\ y \in Nat
        /\ x + n + 1 = y /\ z + n = h
        /\ b.seq = x + 1 /\ b.commit = z + 1 /\ Len(w) = n - 1
    BY <1>1, <1>2, <1>3, <1>4
  <2> HIDE DEF x, y, z, n, b, w
  <2> QED  BY <2>1, OneLess DEF y
<1>6. t.inflight = b /\ t.queue = w
  OBVIOUS
<1> HIDE DEF b, q, e, w
<1>7. Fits(v, b) /\ ~Same(v, b)
  BY <1>1, <1>4 DEF Fits, Same
<1>8. p # NoFrame /\ p.frame = a
  BY <1>0 DEF Waits
<1>9. \A i \in DOMAIN d : Fits(d[i], b) /\ ~Same(d[i], b)
  <2> TAKE i \in DOMAIN d
  <2>1. /\ d[i].sid \in Nat /\ d[i].seq \in Nat /\ d[i].commit \in Nat /\ d[i].sid <= s.sid
        /\ Fits(v, d[i]) /\ Fits(d[i], a) /\ a.sid = s.sid
    BY <1>0, <1>1, <1>8, Elements DEF Sids, Line, Waits
  <2>2. d[i].sid = s.sid => d[i].seq = a.seq /\ d[i].commit = a.commit
    BY <1>1, <2>1 DEF Fits
  <2> QED  BY <1>1, <1>4, <2>1, <2>2 DEF Fits, Same
<1>10. Newest(b, u)
  <2> SUFFICES ASSUME NEW i \in DOMAIN u PROVE u[i].sid = b.sid => u[i].seq < b.seq
    BY DEF Newest
  <2>1. u[i].seq \in Nat /\ (u[i].sid = s.sid => u[i].seq <= a.seq)
    BY <1>0, <1>8, Elements DEF Sids
  <2> QED  BY <1>1, <1>4, <2>1
<1>11. /\ Types(t, q, e, u, v) /\ Waits(t, q) /\ Sids(t, q, e, u, v) /\ Line(q, e, v)
       /\ Told(t, q, e, v, h) /\ Acked(t, u, v) /\ Rested(t, v, h) /\ Answered(t, q, u, v)
  <2>1. /\ t.sid = s.sid /\ t.phase = "open" /\ s.phase \in {"reading", "open"}
        /\ b.seq < t.next /\ s.next <= t.next /\ h <= h /\ Len(t.queue) <= QueueLimit
    BY <1>0, <1>1, <1>2, <1>5, <1>6 DEF Kept, Types
  <2>2. \A i \in DOMAIN t.queue : t.queue[i].commit <= h /\ t.queue[i].foreign = 0
    BY <1>0, <1>2, <1>6 DEF Told
  <2>3. \A i \in DOMAIN t.handoff : t.handoff[i].seq \in 1..h
    BY <1>0 DEF Told
  <2> QED  BY <1>2, <1>4, <1>5, <1>6, <1>7, <1>9, <1>10, <2>1, <2>2, <2>3, Sends DEF q, e
<1>12. Chain(t, v, h)
  <2>1. t.inflight.commit + Len(t.queue) = h /\ t.inflight.seq + Len(t.queue) + 1 = t.next
    BY <1>5, <1>6
  <2>2. \A i \in DOMAIN t.queue :
              t.queue[i] = [sid |-> t.sid, seq |-> t.inflight.seq + i, kind |-> "changes",
                            commit |-> t.inflight.commit + i, foreign |-> 0]
    <3> TAKE i \in DOMAIN t.queue
    <3>1. i \in Nat /\ i + 1 \in DOMAIN s.queue /\ t.queue[i] = s.queue[i + 1]
      BY <1>2, <1>6
    <3>2. b.seq + i = a.seq + (i + 1) /\ b.commit + i = a.commit + (i + 1)
      <4> DEFINE x == a.seq
                 z == a.commit
      <4>1. x \in Nat /\ z \in Nat /\ b.seq = x + 1 /\ b.commit = z + 1
        BY <1>1, <1>4
      <4> HIDE DEF x, z, b
      <4>2. (x + 1) + i = x + (i + 1) /\ (z + 1) + i = z + (i + 1)
        BY <3>1, <4>1, OneLess
      <4> QED  BY <4>1, <4>2 DEF x, z
    <3> QED  BY <1>3, <1>6, <3>1, <3>2 DEF Kept
  <2> QED  BY <2>1, <2>2 DEF Chain, Kept
<1>13. Versions(t, v, k)
  BY <1>0, <1>4, <1>6 DEF Versions, Kept, Types
<1> QED  BY <1>4, <1>11, <1>12, <1>13 DEF Sound, b, q, e

HearsPage(s, m) == s.phase = "open" /\ s.sid = m.sid
Acking(s, m) == m.kind = "ack" /\ s.live /\ s.inflight # NoFrame /\ s.inflight.seq = m.seq

\* What the session does with what the page says, and what the bridge waits for then
Said(s, m) ==
    IF ~HearsPage(s, m) THEN s
    ELSE IF m.kind = "snapshot" THEN EnterRequired(s)
    ELSE IF Acking(s, m) THEN Acknowledge(s) ELSE s
Freed(s, p, m) ==
    IF HearsPage(s, m) /\ Acking(s, m) /\ p # NoFrame /\ Answering(m, p) THEN NoFrame ELSE p

LEMMA AckSound ==
    ASSUME NEW s, NEW p, NEW d, NEW u, NEW v, NEW h \in Nat, NEW k,
           Sound(s, p, d, u, v, h), Versions(s, v, k), u # <<>>,
           HearsPage(s, Head(u)), Acking(s, Head(u))
    PROVE  LET t == Acknowledge(s)
           IN  /\ Sound(t, PostTo(s, t, NoFrame), DownTo(s, t, d), Tail(u), v, h) /\ Versions(t, v, k)
               /\ Answered(t, PostTo(s, t, NoFrame), Tail(u), v)
               /\ Goes(s, t) => t.inflight.foreign = 0
               /\ Kept(s, t) /\ (t.refreshing /\ ~s.refreshing => s.live)
<1> DEFINE t == Acknowledge(s)
           w == Tail(u)
           acked == [s EXCEPT !.inflight = NoFrame]
           a == s.inflight
<1>0. /\ Types(s, p, d, u, v) /\ Waits(s, p) /\ Sids(s, p, d, u, v) /\ Line(p, d, v)
      /\ Acked(s, u, v) /\ Chain(s, v, h)
  BY SoundParts
<1>1. /\ s \in AnySession /\ s.queue \in Seq(AnyFrame) /\ s.need \in BOOLEAN /\ a \in AnyFrame
      /\ v.sid \in Nat /\ v.seq \in Nat /\ s.next \in Nat /\ a.seq \in Nat /\ a.commit \in Nat
      /\ a.kind \in {"snapshot", "changes"} /\ s.live /\ s.phase = "open" /\ a # NoFrame
      /\ ~s.refreshing
  BY <1>0, Elements, SessionParts, FrameParts DEF Acking, HearsPage, Types
<1>2. /\ acked \in AnySession /\ Kept(s, acked) /\ acked.next = s.next /\ acked.inflight = NoFrame
      /\ acked.need = s.need /\ acked.queue = s.queue /\ acked.refreshing = s.refreshing
      /\ acked.handoff = s.handoff
  BY <1>1, SessionIs DEF AnySession, Kept
<1>3. Sound(s, p, d, w, v, h)
  BY Listens
<1>4. /\ v.sid = s.sid /\ v.seq = a.seq /\ v.commit = a.commit
      /\ a.kind = "snapshot" => v.foreign = a.foreign
  <2>1. 1 \in DOMAIN u /\ Head(u) = u[1]
    BY <1>0, Tails DEF Types
  <2>2. v.sid = s.sid /\ a.seq <= v.seq
    BY <1>0, <1>1, <2>1 DEF Acked, HearsPage, Acking
  <2>3. p # NoFrame /\ p.frame = a /\ a.sid = s.sid /\ Fits(v, a)
    BY <1>0, <1>1 DEF Waits, Line
  <2> QED  BY <1>1, <2>2, <2>3 DEF Fits
<1>5. t = IF s.need THEN StartRefresh(acked) ELSE FlushNext(acked)
  BY DEF Acknowledge
<1> HIDE DEF t, w, acked
<1>6. CASE s.need
  <2>1. s.queue = <<>>
    BY <1>0, <1>1, <1>6 DEF Chain
  <2>2. t = StartRefresh(acked)
    BY <1>5, <1>6
  <2>3. <<>> \in Seq(AnyCommit)
    OBVIOUS
  <2>4. /\ t \in AnySession /\ Kept(s, t) /\ t.next = s.next /\ t.inflight = NoFrame
        /\ t.queue = <<>> /\ t.handoff = <<>> /\ t.refreshing
    BY <1>2, <2>1, <2>2, <2>3, SessionIs DEF AnySession, Kept, StartRefresh
  <2> QED  BY <1>1, <1>3, <2>4, Settles DEF PostTo, DownTo, Goes, t, w
<1>7. CASE ~s.need /\ s.queue = <<>>
  <2>1. t = acked
    BY <1>2, <1>5, <1>7 DEF FlushNext
  <2>2. Len(s.queue) = 0 /\ a.commit + 0 = h /\ a.seq + 0 + 1 = s.next
    <3>1. Len(s.queue) = 0
      BY <1>7
    <3> QED  BY <1>0, <1>1, <1>7, <3>1 DEF Chain
  <2>3. ~t.need /\ v.sid = s.sid /\ v.seq + 1 = s.next /\ v.commit = h
    BY <1>1, <1>2, <1>4, <1>7, <2>1, <2>2
  <2>4. k # Unknown => k <= v.foreign
    BY <1>1, <1>4, <1>7 DEF Versions
  <2> QED
    BY <1>1, <1>2, <1>3, <1>7, <2>1, <2>3, <2>4, Settles DEF PostTo, DownTo, Goes, t, w
<1>8. CASE ~s.need /\ s.queue # <<>>
  <2>1. t = [acked EXCEPT !.inflight = Head(acked.queue), !.queue = Tail(acked.queue)]
    BY <1>2, <1>5, <1>8 DEF FlushNext
  <2>2. Head(s.queue) \in AnyFrame /\ Tail(s.queue) \in Seq(AnyFrame)
    BY <1>1, <1>8, Tails
  <2>3. /\ t \in AnySession /\ Kept(s, t) /\ t.next = s.next /\ t.inflight = Head(s.queue)
        /\ t.need = s.need /\ ~t.refreshing /\ t.queue = Tail(s.queue) /\ t.handoff = s.handoff
    BY <1>1, <1>2, <2>1, <2>2, SessionIs DEF AnySession, Kept
  <2> QED
    BY <1>1, <1>3, <1>4, <1>8, <2>3, SendsNext DEF PostTo, DownTo, Goes, t, w
<1> QED  BY <1>1, <1>6, <1>7, <1>8

LEMMA ControlSound ==
    ASSUME NEW s, NEW p, NEW d, NEW u, NEW v, NEW h \in Nat, NEW k,
           Sound(s, p, d, u, v, h), Versions(s, v, k), Answered(s, p, u, v), u # <<>>
    PROVE  LET t == Said(s, Head(u))
               w == Freed(s, p, Head(u))
           IN  /\ Sound(t, PostTo(s, t, w), DownTo(s, t, d), Tail(u), v, h) /\ Versions(t, v, k)
               /\ Answered(t, PostTo(s, t, w), Tail(u), v)
               /\ Goes(s, t) => t.inflight.foreign = 0
               /\ Kept(s, t) /\ (t.refreshing /\ ~s.refreshing => s.live)
<1> DEFINE m == Head(u)
           t == Said(s, m)
           w == Freed(s, p, m)
           x == Tail(u)
<1>0. /\ Types(s, p, d, u, v) /\ Waits(s, p) /\ Told(s, p, d, v, h)
  BY SoundParts
<1>1. /\ s \in AnySession /\ m \in AnyControl /\ m = u[1] /\ 1 \in DOMAIN u /\ m.kind \in {"ack", "snapshot"}
      /\ s.live \in BOOLEAN /\ s.refreshing \in BOOLEAN
  <2>1. u \in Seq(AnyControl) /\ s \in AnySession
    BY <1>0 DEF Types
  <2>2. m \in AnyControl /\ m = u[1] /\ 1 \in DOMAIN u
    BY <2>1, Tails
  <2> QED  BY <2>1, <2>2, SessionParts DEF AnyControl
<1>2. Sound(s, p, d, x, v, h)
  BY Listens
<1>3. Kept(s, s)
  BY DEF Kept
<1>4. s.live /\ p # NoFrame /\ Answering(m, p) => HearsPage(s, m) /\ (m.kind = "ack" => Acking(s, m))
  BY <1>0, <1>1 DEF Waits, Types, Answering, HearsPage, Acking
<1>5. s.live /\ p # NoFrame => (Answering(m, p) => m.kind = "ack")
  <2> SUFFICES ASSUME s.live, p # NoFrame, Answering(m, p) PROVE m.kind = "ack"
    OBVIOUS
  <2>1. PICK j \in 1..1 : Answering(u[j], p) /\ u[j].kind = "ack"
    BY <1>1 DEF Answered
  <2>2. j = 1
    BY <2>1
  <2> QED  BY <1>1, <2>1, <2>2
<1>6. CASE HearsPage(s, m) /\ m.kind = "ack" /\ Acking(s, m)
  <2>1. t = Acknowledge(s)
    BY <1>6 DEF Said
  <2>2. p # NoFrame /\ Answering(m, p)
    BY <1>0, <1>6 DEF Waits, Acking, HearsPage, Answering
  <2>3. w = NoFrame
    BY <1>6, <2>2 DEF Freed
  <2> HIDE DEF t, w
  <2> QED  BY <1>6, <2>1, <2>3, AckSound DEF t, w
<1>7. CASE ~(HearsPage(s, m) /\ m.kind = "ack" /\ Acking(s, m))
  <2>1. s.live /\ p # NoFrame => ~Answering(m, p)
    BY <1>4, <1>5, <1>7
  <2>2. Answered(s, p, x, v)
    BY <2>1, Listens
  <2>3. w = p
    BY <1>1, <1>7 DEF Freed, Acking
  <2>4. t = IF HearsPage(s, m) /\ m.kind = "snapshot" THEN EnterRequired(s) ELSE s
    BY <1>1, <1>7 DEF Said
  <2> HIDE DEF t, w, x
  <2>5. CASE s.live /\ HearsPage(s, m) /\ m.kind = "snapshot"
    <3>1. /\ t \in AnySession /\ Kept(s, t) /\ t.inflight = s.inflight /\ t.next = s.next
          /\ t.need /\ t.queue = <<>> /\ t.refreshing = (s.refreshing \/ AtRest(s))
          /\ t.handoff = s.handoff \/ t.handoff = <<>>
      BY <1>1, <2>4, <2>5, EnterIs
    <3>2. ~Goes(s, t) /\ h <= h
      BY <3>1 DEF Goes
    <3>3. Sound(t, p, d, x, v, h) /\ Versions(t, v, k) /\ Answered(t, p, x, v)
      BY <1>2, <2>2, <2>5, <3>1, <3>2, Requires
    <3> QED  BY <2>3, <2>5, <3>1, <3>2, <3>3 DEF PostTo, DownTo, t, w, x
  <2>6. CASE ~(s.live /\ HearsPage(s, m) /\ m.kind = "snapshot")
    <3>1. t = s
      BY <1>1, <2>4, <2>6, EnterIs
    <3>2. ~Goes(s, t)
      BY <3>1 DEF Goes
    <3> QED  BY <1>2, <1>3, <2>2, <2>3, <3>1, <3>2 DEF PostTo, DownTo, t, w, x
  <2> QED  BY <2>5, <2>6
<1> QED  BY <1>6, <1>7

-----------------------------------------------------------------------------
(* What a page does with a frame, and what happens to the channels *)

LEMMA Drops ==
    ASSUME NEW s, NEW p, NEW d, NEW u, NEW v, NEW h, Sound(s, p, d, u, v, h), d # <<>>
    PROVE  Sound(s, p, Tail(d), u, v, h)
<1>0. /\ Types(s, p, d, u, v) /\ Waits(s, p) /\ Sids(s, p, d, u, v) /\ Line(p, d, v)
      /\ Told(s, p, d, v, h) /\ Acked(s, u, v) /\ Chain(s, v, h) /\ Rested(s, v, h)
  BY SoundParts
<1> DEFINE e == Tail(d)
<1>1. /\ e \in Seq(AnyFrame) /\ Len(d) \in Nat \ {0} /\ DOMAIN d = 1..Len(d)
      /\ DOMAIN e = 1..Len(d) - 1 /\ \A i \in DOMAIN e : e[i] = d[i + 1] /\ i + 1 \in DOMAIN d
  BY <1>0, Tails DEF Types
<1> HIDE DEF e
<1>2. Types(s, p, e, u, v)
  BY <1>0, <1>1 DEF Types
<1>3. Sids(s, p, e, u, v)
  BY <1>0, <1>1 DEF Sids
<1>4. Line(p, e, v)
  <2>1. \A i, j \in DOMAIN e : i <= j => i + 1 <= j + 1
    BY <1>1
  <2> QED  BY <1>0, <1>1, <2>1 DEF Line
<1>5. Told(s, p, e, v, h)
  BY <1>0, <1>1 DEF Told
<1> QED  BY <1>0, <1>2, <1>3, <1>4, <1>5 DEF Sound, e

LEMMA Repeats ==
    ASSUME NEW s, NEW p, NEW q, NEW d, NEW u, NEW v, NEW h, Sound(s, p, d, u, v, h),
           Answered(s, p, u, v), p # NoFrame, q \in AnyPost, q.frame = p.frame
    PROVE  Sound(s, q, Append(d, p.frame), u, v, h) /\ Answered(s, q, u, v)
<1>0. /\ Types(s, p, d, u, v) /\ Waits(s, p) /\ Sids(s, p, d, u, v) /\ Line(p, d, v)
      /\ Told(s, p, d, v, h) /\ Acked(s, u, v) /\ Chain(s, v, h) /\ Rested(s, v, h)
  BY SoundParts
<1> DEFINE b == p.frame
           e == Append(d, b)
<1>1. /\ b \in AnyFrame /\ s.sid \in Nat /\ s.phase = "open" /\ s.sid > 0 /\ b.sid = s.sid
      /\ q # NoFrame
  <2>1. b \in AnyFrame /\ s \in AnySession
    BY <1>0, Elements
  <2> QED  BY <1>0, <2>1, SessionParts, NoFrameIsNone DEF Types, Waits
<1>2. /\ e \in Seq(AnyFrame) /\ Len(d) \in Nat /\ DOMAIN d = 1..Len(d)
      /\ DOMAIN e = 1..Len(d) + 1 /\ e[Len(d) + 1] = b
      /\ \A i \in DOMAIN d : e[i] = d[i]
      /\ \A i \in DOMAIN e : i \in DOMAIN d \/ i = Len(d) + 1
  BY <1>0, <1>1, Appends DEF Types
<1>3. q.frame = b
  OBVIOUS
<1> HIDE DEF e, b
<1>4. Types(s, q, e, u, v)
  BY <1>0, <1>1, <1>2 DEF Types
<1>5. Waits(s, q)
  BY <1>0, <1>1 DEF Waits
<1>6. Sids(s, q, e, u, v)
  <2>1. b.sid \in 1..s.sid /\ (s.phase = "open" => b.seq < s.next)
    BY <1>0, <1>1 DEF Sids, b
  <2>2. \A i \in DOMAIN e : e[i].sid \in 1..s.sid /\ (s.phase = "open" /\ e[i].sid = s.sid => e[i].seq < s.next)
    BY <1>0, <1>2, <2>1 DEF Sids
  <2> QED  BY <1>0, <1>1, <2>2 DEF Sids
<1>7. Line(q, e, v)
  <2>1. Fits(b, b)
    BY <1>1, FrameParts DEF Fits
  <2>2. /\ Fits(v, b) /\ \A i \in DOMAIN d : Fits(d[i], b) /\ (Same(d[i], b) => d[i] = b)
    BY <1>0 DEF Line, b
  <2>3. \A i \in DOMAIN e : Fits(v, e[i])
    BY <1>0, <1>2, <2>2 DEF Line
  <2>4. \A i \in DOMAIN e : Fits(e[i], b) /\ (Same(e[i], b) => e[i] = b)
    BY <1>2, <2>1, <2>2
  <2>5. ASSUME NEW i \in DOMAIN e, NEW j \in DOMAIN e, i <= j
        PROVE  Fits(e[i], e[j]) /\ (Same(e[i], e[j]) => e[i] = e[j])
    <3>1. CASE j = Len(d) + 1
      BY <1>2, <2>4, <3>1
    <3>2. CASE j \in DOMAIN d
      <4>1. i \in DOMAIN d
        BY <1>2, <2>5, <3>2
      <4> QED  BY <1>0, <1>2, <2>5, <3>2, <4>1 DEF Line
    <3> QED  BY <1>2, <3>1, <3>2
  <2> QED  BY <1>3, <2>2, <2>3, <2>4, <2>5 DEF Line
<1>8. Told(s, q, e, v, h)
  BY <1>0, <1>2, <1>3 DEF Told, b
<1>9. Answered(s, q, u, v)
  BY DEF Answered, Answering
<1> QED  BY <1>0, <1>4, <1>5, <1>6, <1>7, <1>8, <1>9 DEF Sound, e, b

\* A session that is closed sends nothing more
LEMMA Closes ==
    ASSUME NEW s, NEW t, NEW p, NEW d, NEW u, NEW v, NEW h \in Nat, NEW k, Sound(s, p, d, u, v, h),
           t \in AnySession, t.sid = s.sid, ~t.live, t.next = s.next, t.inflight = NoFrame,
           t.queue = <<>>, t.handoff = s.handoff, t.refreshing => s.refreshing,
           t.phase = s.phase \/ (s.phase \in {"baseline", "reading"} /\ t.phase = "failed")
    PROVE  Sound(t, p, d, u, v, h) /\ Versions(t, v, k) /\ Answered(t, p, u, v)
<1>0. /\ Types(s, p, d, u, v) /\ Waits(s, p) /\ Sids(s, p, d, u, v) /\ Line(p, d, v)
      /\ Told(s, p, d, v, h) /\ Acked(s, u, v)
  BY SoundParts
<1>1. t.refreshing \in BOOLEAN /\ QueueLimit \in Nat /\ t.phase \in Phase
  BY SessionParts, FeedAssumption
<1>2. Types(t, p, d, u, v)
  <2>1. Len(t.queue) <= QueueLimit
    BY <1>1
  <2>2. t.refreshing => t.phase = "open"
    BY <1>0 DEF Types
  <2> QED  BY <1>0, <2>1, <2>2 DEF Types
<1>3. Waits(t, p)
  BY <1>0 DEF Waits
<1>4. Sids(t, p, d, u, v)
  BY <1>0 DEF Sids
<1>5. Told(t, p, d, v, h) /\ Acked(t, u, v)
  BY <1>0 DEF Told, Acked
<1>6. Chain(t, v, h) /\ Rested(t, v, h) /\ Versions(t, v, k) /\ Answered(t, p, u, v)
  BY DEF Chain, Rested, AtRest, Versions, Answered
<1> QED  BY <1>0, <1>2, <1>3, <1>4, <1>5, <1>6 DEF Sound

\* The version is known, and the first snapshot is read
LEMMA Begins ==
    ASSUME NEW s, NEW t, NEW p, NEW d, NEW u, NEW v, NEW h, NEW k, Sound(s, p, d, u, v, h),
           s.phase = "baseline", t = [s EXCEPT !.phase = "reading"]
    PROVE  Sound(t, p, d, u, v, h) /\ Versions(t, v, k) /\ Answered(t, p, u, v)
<1>0. /\ Types(s, p, d, u, v) /\ Waits(s, p) /\ Sids(s, p, d, u, v) /\ Line(p, d, v)
      /\ Told(s, p, d, v, h) /\ Acked(s, u, v)
  BY SoundParts
<1>1. s \in AnySession
  BY <1>0 DEF Types
<1>2. /\ t \in AnySession /\ t.sid = s.sid /\ t.phase = "reading" /\ t.live = s.live /\ t.next = s.next
      /\ t.inflight = s.inflight /\ t.refreshing = s.refreshing /\ t.queue = s.queue
      /\ t.handoff = s.handoff
  BY <1>1, SessionIs DEF AnySession, Phase
<1>3. Types(t, p, d, u, v)
  BY <1>0, <1>2 DEF Types
<1>4. Waits(t, p) /\ Sids(t, p, d, u, v)
  BY <1>0, <1>2 DEF Waits, Sids
<1>5. Told(t, p, d, v, h) /\ Acked(t, u, v)
  BY <1>0, <1>2 DEF Told, Acked
<1>6. Chain(t, v, h) /\ Rested(t, v, h) /\ Versions(t, v, k) /\ Answered(t, p, u, v)
  BY <1>0, <1>2 DEF Types, Chain, Rested, AtRest, Versions, Answered
<1> QED  BY <1>0, <1>3, <1>4, <1>5, <1>6 DEF Sound

LEMMA BlankIs ==
    /\ Blank \in AnyView /\ Blank.sid = 0 /\ Blank.seq = 0 /\ Blank.commit = 0
    /\ Blank.local = 1..0 /\ Blank.foreign = 0
<1>1. 1..0 = {}
  OBVIOUS
<1> QED  BY <1>1 DEF Blank, AnyView

LEMMA NewIs ==
    ASSUME NEW n \in Nat, NEW phase \in Phase
    PROVE  LET t == NewSession(n, phase)
           IN  /\ t \in AnySession /\ t.sid = n /\ t.phase = phase /\ t.live = (phase # "off")
               /\ t.next = 1 /\ t.inflight = NoFrame /\ ~t.refreshing
               /\ t.queue = <<>> /\ t.handoff = <<>>
<1>1. <<>> \in Seq(AnyFrame) /\ <<>> \in Seq(AnyCommit)
  OBVIOUS
<1> QED  BY <1>1 DEF NewSession, AnySession

\* A new session under the next number, or none
\* The session is left or replaced, and the page may have been loaded again
Renews(s, t) ==
    \/ t = NewSession(s.sid, "off")
    \/ \E phase \in {"baseline", "reading"} : t = NewSession(s.sid + 1, phase)
Reloads(v, w) == w \in {v, Blank}

LEMMA Restarts ==
    ASSUME NEW s, NEW t, NEW p, NEW d, NEW u, NEW v, NEW w, NEW h \in Nat, NEW k,
           Sound(s, p, d, u, v, h), Reloads(v, w), Renews(s, t)
    PROVE  /\ Sound(t, NoFrame, d, u, w, h) /\ Versions(t, w, k) /\ Answered(t, NoFrame, u, w)
           /\ t.inflight = NoFrame /\ ~t.refreshing
<1>0. Types(s, p, d, u, v) /\ Sids(s, p, d, u, v) /\ Line(p, d, v) /\ Told(s, p, d, v, h)
  BY SoundParts
<1>1. /\ s.sid \in Nat /\ s.sid + 1 \in Nat /\ QueueLimit \in Nat /\ v.sid \in Nat
      /\ \A i \in DOMAIN d : d[i] \in AnyFrame
      /\ \A i \in DOMAIN u : u[i].sid \in Nat
  BY <1>0, Elements, SessionParts
<1>2. /\ t \in AnySession /\ t.next = 1 /\ t.inflight = NoFrame /\ ~t.refreshing /\ t.queue = <<>>
      /\ t.handoff = <<>>
      /\ \/ t.phase = "off" /\ t.sid = s.sid /\ ~t.live
         \/ t.phase \in {"baseline", "reading"} /\ t.sid = s.sid + 1
  <2>1. CASE t = NewSession(s.sid, "off")
    <3>1. <<>> \in Seq(AnyFrame) /\ <<>> \in Seq(AnyCommit)
      OBVIOUS
    <3> QED  BY <1>1, <2>1, <3>1 DEF NewSession, AnySession, Phase
  <2>2. CASE \E phase \in {"baseline", "reading"} : t = NewSession(s.sid + 1, phase)
    <3>1. PICK phase \in {"baseline", "reading"} : t = NewSession(s.sid + 1, phase)
      BY <2>2
    <3>2. phase \in Phase /\ phase # "off"
      BY DEF Phase
    <3> QED  BY <1>1, <3>1, <3>2, NewIs
  <2> QED  BY <2>1, <2>2 DEF Renews
<1>3. w \in AnyView /\ w.sid \in Nat /\ w.sid <= s.sid
  BY <1>0, <1>1, BlankIs DEF Sids, Types, Reloads
<1>4. Types(t, NoFrame, d, u, w)
  <2>1. Len(t.queue) <= QueueLimit
    BY <1>1, <1>2
  <2> QED  BY <1>0, <1>1, <1>2, <1>3, <2>1 DEF Types
<1>5. Sids(t, NoFrame, d, u, w)
  <2>1. /\ \A i \in DOMAIN d : d[i].sid \in 1..s.sid
        /\ \A i \in DOMAIN u : u[i].sid \in 1..s.sid
    BY <1>0 DEF Sids
  <2>2. CASE t.phase = "off" /\ t.sid = s.sid
    BY <1>3, <2>1, <2>2 DEF Sids
  <2>3. CASE t.phase \in {"baseline", "reading"} /\ t.sid = s.sid + 1
    <3>1. w.sid < t.sid /\ w.sid <= t.sid
      BY <1>1, <1>3, <2>3
    <3>2. \A i \in DOMAIN d : d[i].sid \in 1..t.sid /\ d[i].sid < t.sid
      BY <1>1, <2>1, <2>3
    <3>3. \A i \in DOMAIN u : u[i].sid \in 1..t.sid /\ u[i].sid < t.sid
      BY <1>1, <2>1, <2>3
    <3> QED  BY <1>2, <2>3, <3>1, <3>2, <3>3 DEF Sids
  <2> QED  BY <1>2, <2>2, <2>3
<1>6. Line(NoFrame, d, w)
  <2>1. CASE w = v
    BY <1>0, <2>1 DEF Line
  <2>2. CASE w = Blank
    <3>1. \A i \in DOMAIN d : d[i].sid > 0
      BY <1>0, <1>1 DEF Sids
    <3>2. \A i \in DOMAIN d : Fits(w, d[i])
      BY <1>1, <2>2, <3>1, BlankIs, FrameParts DEF Fits
    <3> QED  BY <1>0, <3>2 DEF Line
  <2> QED  BY <2>1, <2>2 DEF Reloads
<1>7. Told(t, NoFrame, d, w, h)
  <2>1. DOMAIN t.queue = {} /\ DOMAIN t.handoff = {}
    BY <1>2
  <2>2. w.local = 1..w.commit /\ w.commit <= h
    <3>1. CASE w = v
      BY <1>0, <3>1 DEF Told
    <3>2. CASE w = Blank
      <4>1. 0 <= h
        OBVIOUS
      <4> QED  BY <3>2, <4>1, BlankIs
    <3> QED  BY <3>1, <3>2 DEF Reloads
  <2> QED  BY <1>0, <2>1, <2>2 DEF Told
<1>8. /\ Waits(t, NoFrame) /\ Acked(t, u, w) /\ Chain(t, w, h) /\ Rested(t, w, h)
      /\ Versions(t, w, k) /\ Answered(t, NoFrame, u, w)
  BY <1>2 DEF Waits, Acked, Chain, Rested, AtRest, Versions, Answered
<1> QED  BY <1>2, <1>4, <1>5, <1>6, <1>7, <1>8 DEF Sound

\* A page that is loaded while it is not followed
LEMMA Unfollowed ==
    ASSUME NEW s, NEW p, NEW d, NEW u, NEW v, NEW w, NEW h \in Nat, NEW k,
           Sound(s, p, d, u, v, h), Reloads(v, w), s.phase = "off"
    PROVE  Sound(s, p, d, u, w, h) /\ Versions(s, w, k) /\ Answered(s, p, u, w)
<1>0. /\ Types(s, p, d, u, v) /\ Waits(s, p) /\ Sids(s, p, d, u, v) /\ Line(p, d, v)
      /\ Told(s, p, d, v, h)
  BY SoundParts
<1>1. /\ s.sid \in Nat /\ ~s.live /\ p = NoFrame
      /\ \A i \in DOMAIN d : d[i] \in AnyFrame /\ d[i].sid \in 1..s.sid
  BY <1>0, Elements, SessionParts DEF Types, Sids
<1>2. CASE w = v
  BY <1>0, <1>1, <1>2 DEF Sound, Acked, Chain, Rested, AtRest, Versions, Answered
<1>3. CASE w = Blank
  <2>1. Types(s, p, d, u, w)
    BY <1>0, <1>3, BlankIs DEF Types
  <2>2. Sids(s, p, d, u, w)
    BY <1>0, <1>1, <1>3, BlankIs DEF Sids
  <2>3. Line(p, d, w)
    <3>1. \A i \in DOMAIN d : d[i].sid > 0
      BY <1>1
    <3>2. \A i \in DOMAIN d : Fits(w, d[i])
      BY <1>1, <1>3, <3>1, BlankIs, FrameParts DEF Fits
    <3> QED  BY <1>0, <1>1, <3>2 DEF Line
  <2>4. Told(s, p, d, w, h)
    BY <1>0, <1>3, BlankIs DEF Told
  <2>5. /\ Acked(s, u, w) /\ Chain(s, w, h) /\ Rested(s, w, h)
        /\ Versions(s, w, k) /\ Answered(s, p, u, w)
    BY <1>1 DEF Acked, Chain, Rested, AtRest, Versions, Answered
  <2> QED  BY <1>0, <2>1, <2>2, <2>3, <2>4, <2>5 DEF Sound
<1> QED  BY <1>2, <1>3 DEF Reloads

\* What a page says of a frame
Reply(v, m) ==
    [kind |-> IF m.kind = "snapshot" \/ Follows(v, m) THEN "ack" ELSE "snapshot",
     sid |-> m.sid, seq |-> m.seq]
Shows(v, m) == IF m.kind = "snapshot" \/ Follows(v, m) THEN Applied(v, m) ELSE v

\* A frame that is not put aside, as it fits to the view
LEMMA FollowsIs ==
    ASSUME NEW v \in AnyView, NEW m \in AnyFrame, Fits(v, m), ~Retired(v, m), v.local = 1..v.commit
    PROVE  LET w == Shows(v, m)
           IN  /\ w \in AnyView /\ w.local = 1..w.commit
               /\ w.sid = m.sid /\ w.seq = m.seq /\ w.commit = m.commit
               /\ v.commit <= w.commit /\ v.foreign <= w.foreign
               /\ m.kind = "snapshot" => w.foreign = m.foreign
               /\ m.kind = "changes" => w.foreign = v.foreign /\ v.sid = m.sid
               /\ Reply(v, m).kind = "snapshot" => Same(v, m)
<1> DEFINE w == Shows(v, m)
<1>0. /\ m.sid \in Nat /\ m.seq \in Nat /\ m.commit \in Nat /\ m.foreign \in Nat
      /\ m.kind \in {"snapshot", "changes"}
      /\ v.sid \in Nat /\ v.seq \in Nat /\ v.commit \in Nat /\ v.foreign \in Nat /\ v.local \in SUBSET Nat
  BY FrameParts DEF AnyView
<1>1. CASE m.kind = "snapshot"
  <2>1. w = [sid |-> m.sid, seq |-> m.seq, commit |-> m.commit, local |-> 1..m.commit, foreign |-> m.foreign]
    BY <1>1 DEF Shows, Applied
  <2>2. 1..m.commit \in SUBSET Nat
    BY <1>0
  <2>3. w \in AnyView
    BY <1>0, <2>1, <2>2 DEF AnyView
  <2> HIDE DEF w
  <2>4. v.commit <= m.commit /\ v.foreign <= m.foreign
    BY <1>1 DEF Fits
  <2> QED  BY <1>0, <1>1, <2>1, <2>3, <2>4 DEF w, Reply, Shows
<1>2. CASE m.kind = "changes"
  <2>1. /\ m.sid = v.sid
        /\ \/ m.seq = v.seq /\ m.commit = v.commit
           \/ m.seq = v.seq + 1 /\ m.commit = v.commit + 1
    <3>1. m.sid = v.sid
      BY <1>2 DEF Retired
    <3>2. /\ m.seq = v.seq => v.commit = m.commit
          /\ m.seq = v.seq \/ (m.seq = v.seq + 1 /\ m.commit = v.commit + 1)
      BY <1>2, <3>1 DEF Fits
    <3> QED  BY <3>1, <3>2
  <2>2. CASE m.seq = v.seq + 1 /\ m.commit = v.commit + 1
    <3>1. Follows(v, m) /\ v.commit <= m.commit
      BY <1>0, <2>2 DEF Follows
    <3>2. w = [sid |-> m.sid, seq |-> m.seq, commit |-> m.commit, local |-> v.local \cup {m.commit},
               foreign |-> v.foreign]
      BY <1>2, <3>1 DEF Shows, Applied
    <3>3. v.local \cup {m.commit} = 1..m.commit
      BY <1>0, <2>2
    <3>4. 1..m.commit \in SUBSET Nat
      BY <1>0
    <3>5. w \in AnyView
      BY <1>0, <3>2, <3>3, <3>4 DEF AnyView
    <3>6. /\ w.sid = m.sid /\ w.seq = m.seq /\ w.commit = m.commit /\ w.local = 1..m.commit
          /\ w.foreign = v.foreign
      BY <3>2, <3>3
    <3>7. Reply(v, m).kind = "ack"
      BY <3>1 DEF Reply
    <3> HIDE DEF w
    <3>8. v.foreign <= w.foreign
      BY <1>0, <3>6
    <3> QED  BY <1>2, <2>1, <3>1, <3>5, <3>6, <3>7, <3>8 DEF w
  <2>3. CASE m.seq = v.seq /\ m.commit = v.commit
    <3>1. ~Follows(v, m)
      BY <1>0, <2>3 DEF Follows
    <3>2. w = v
      BY <1>2, <3>1 DEF Shows
    <3> QED  BY <1>0, <1>2, <2>1, <2>3, <3>1, <3>2 DEF Reply, Same
  <2> QED  BY <2>1, <2>2, <2>3
<1> QED  BY <1>0, <1>1, <1>2

LEMMA ReceiveSound ==
    ASSUME NEW s, NEW p, NEW d, NEW u, NEW v, NEW h \in Nat, NEW k \in Nat \cup {Unknown},
           Sound(s, p, d, u, v, h), Versions(s, v, k), Answered(s, p, u, v),
           d # <<>>, ~Retired(v, Head(d))
    PROVE  LET w == Shows(v, Head(d))
               x == Append(u, Reply(v, Head(d)))
           IN  /\ Sound(s, p, Tail(d), x, w, h) /\ Versions(s, w, k) /\ Answered(s, p, x, w)
               /\ w.foreign \in {v.foreign, Head(d).foreign}
               /\ v.commit <= w.commit /\ v.foreign <= w.foreign
<1> DEFINE m == Head(d)
           r == Reply(v, m)
           w == Shows(v, m)
           x == Append(u, r)
           e == Tail(d)
<1>0. /\ Types(s, p, d, u, v) /\ Waits(s, p) /\ Sids(s, p, d, u, v) /\ Line(p, d, v)
      /\ Told(s, p, d, v, h) /\ Acked(s, u, v) /\ Chain(s, v, h) /\ Rested(s, v, h)
  BY SoundParts
<1>1. /\ d \in Seq(AnyFrame) /\ u \in Seq(AnyControl) /\ v \in AnyView /\ s \in AnySession
      /\ v.sid \in Nat /\ v.seq \in Nat /\ v.commit \in Nat /\ v.foreign \in Nat
      /\ s.sid \in Nat /\ s.next \in Nat
  BY <1>0, Elements, SessionParts
<1>2. /\ m \in AnyFrame /\ m = d[1] /\ 1 \in DOMAIN d /\ e \in Seq(AnyFrame)
      /\ Len(d) \in Nat \ {0} /\ DOMAIN d = 1..Len(d)
      /\ DOMAIN e = 1..Len(d) - 1 /\ \A i \in DOMAIN e : e[i] = d[i + 1] /\ i + 1 \in DOMAIN d
  BY <1>1, Tails
<1>3. /\ m.sid \in Nat /\ m.seq \in Nat /\ m.commit \in Nat /\ m.foreign \in Nat
      /\ m.kind \in {"snapshot", "changes"}
  BY <1>2, FrameParts
<1>4. Fits(v, m) /\ v.local = 1..v.commit /\ m.commit <= h /\ m.sid \in 1..s.sid
      /\ (s.phase \in {"baseline", "reading"} => m.sid < s.sid)
      /\ (s.phase = "open" /\ m.sid = s.sid => m.seq < s.next)
  BY <1>0, <1>2 DEF Line, Told, Sids
<1>5. r \in AnyControl /\ r.sid = m.sid /\ r.seq = m.seq /\ r.kind \in {"ack", "snapshot"}
  BY <1>3 DEF Reply, AnyControl
<1>6. /\ x \in Seq(AnyControl) /\ Len(u) \in Nat /\ DOMAIN u = 1..Len(u)
      /\ DOMAIN x = 1..Len(u) + 1 /\ x[Len(u) + 1] = r
      /\ \A i \in DOMAIN u : x[i] = u[i] /\ i \in DOMAIN x
      /\ \A i \in DOMAIN x : i \in DOMAIN u \/ i = Len(u) + 1
  BY <1>1, <1>5, Appends
<1>7. /\ w \in AnyView /\ w.local = 1..w.commit
      /\ w.sid = m.sid /\ w.seq = m.seq /\ w.commit = m.commit
      /\ v.commit <= w.commit /\ v.foreign <= w.foreign
      /\ m.kind = "snapshot" => w.foreign = m.foreign
      /\ m.kind = "changes" => w.foreign = v.foreign /\ v.sid = m.sid
      /\ r.kind = "snapshot" => Same(v, m)
  BY <1>1, <1>2, <1>4, FollowsIs
<1> HIDE DEF m, r, w, x, e
<1>8. w.foreign \in Nat /\ v.sid <= m.sid /\ (v.sid = m.sid => v.seq <= m.seq)
  BY <1>4, <1>7 DEF AnyView, Fits
<1>9. p # NoFrame => /\ p.frame \in AnyFrame /\ p.frame.sid = s.sid /\ Fits(m, p.frame)
                     /\ p.frame.seq \in Nat /\ s.phase = "open"
  BY <1>0, <1>2, Elements, FrameParts DEF Types, Waits, Line
<1>10. Types(s, p, e, x, w)
  BY <1>0, <1>2, <1>6, <1>7 DEF Types
<1>11. Sids(s, p, e, x, w)
  <2>1. /\ \A i \in DOMAIN e : e[i].sid \in 1..s.sid
        /\ s.phase \in {"baseline", "reading"} => s.next = 1 /\ \A i \in DOMAIN e : e[i].sid < s.sid
        /\ s.phase = "open" => \A i \in DOMAIN e : e[i].sid = s.sid => e[i].seq < s.next
    BY <1>0, <1>2 DEF Sids
  <2>2. /\ \A i \in DOMAIN x : x[i].sid \in 1..s.sid
        /\ s.phase \in {"baseline", "reading"} => \A i \in DOMAIN x : x[i].sid < s.sid
        /\ s.phase = "open" => \A i \in DOMAIN x : x[i].sid = s.sid => x[i].seq < s.next
    BY <1>0, <1>4, <1>5, <1>6 DEF Sids
  <2>3. p # NoFrame /\ m.sid = s.sid => m.seq <= p.frame.seq
    BY <1>3, <1>9 DEF Fits
  <2>4. s.phase = "open" /\ p # NoFrame =>
           /\ p.frame.seq < s.next
           /\ \A i \in DOMAIN x : x[i].sid = s.sid => x[i].seq <= p.frame.seq
    BY <1>0, <1>5, <1>6, <2>3 DEF Sids
  <2>5. /\ w.sid <= s.sid /\ (s.phase \in {"baseline", "reading"} => w.sid < s.sid)
        /\ (s.phase = "open" /\ w.sid = s.sid => w.seq < s.next)
    BY <1>3, <1>4, <1>7
  <2> QED  BY <2>1, <2>2, <2>4, <2>5 DEF Sids
<1>12. ASSUME NEW b \in AnyFrame, Fits(m, b), Fits(v, b), Same(m, b) => m = b PROVE Fits(w, b)
  <2>1. m.sid <= b.sid /\ (b.kind = "snapshot" => m.commit <= b.commit)
    BY <1>12 DEF Fits
  <2>2. b.kind = "snapshot" => w.foreign <= b.foreign
    BY <1>3, <1>7, <1>12 DEF Fits
  <2>3. m.sid = b.sid /\ m.seq = b.seq /\ b.kind = "snapshot" => w.foreign = b.foreign
    BY <1>7, <1>12 DEF Same
  <2> QED  BY <1>7, <1>12, <2>1, <2>2, <2>3 DEF Fits
<1>13. Line(p, e, w)
  <2>1. \A i, j \in DOMAIN e : i <= j => Fits(e[i], e[j]) /\ (Same(e[i], e[j]) => e[i] = e[j])
    <3>1. \A i, j \in DOMAIN e : i <= j => i + 1 <= j + 1
      BY <1>2
    <3> QED  BY <1>0, <1>2, <3>1 DEF Line
  <2>2. \A i \in DOMAIN e : Fits(w, e[i])
    <3> TAKE i \in DOMAIN e
    <3>1. e[i] = d[i + 1] /\ i + 1 \in DOMAIN d /\ 1 <= i + 1 /\ e[i] \in AnyFrame
      BY <1>1, <1>2
    <3>2. Fits(m, e[i]) /\ Fits(v, e[i]) /\ (Same(m, e[i]) => m = e[i])
      BY <1>0, <1>2, <3>1 DEF Line
    <3> QED  BY <1>12, <3>1, <3>2
  <2>3. p # NoFrame => Fits(w, p.frame)
    BY <1>0, <1>2, <1>9, <1>12 DEF Line
  <2>4. p # NoFrame => \A i \in DOMAIN e : Fits(e[i], p.frame) /\ (Same(e[i], p.frame) => e[i] = p.frame)
    BY <1>0, <1>2 DEF Line
  <2> QED  BY <2>1, <2>2, <2>3, <2>4 DEF Line
<1>14. Told(s, p, e, w, h)
  BY <1>0, <1>2, <1>4, <1>7 DEF Told
<1>15. v.sid = s.sid => m.sid = s.sid /\ v.seq <= m.seq
  BY <1>1, <1>3, <1>4, <1>8
<1>16. Acked(s, x, w)
  <2> SUFFICES ASSUME s.phase = "open", NEW i \in DOMAIN x, x[i].kind = "ack", x[i].sid = s.sid
               PROVE  w.sid = s.sid /\ x[i].seq <= w.seq
    BY DEF Acked
  <2>1. CASE i = Len(u) + 1
    BY <1>3, <1>5, <1>6, <1>7, <2>1
  <2>2. CASE i \in DOMAIN u
    <3>1. x[i] = u[i] /\ u[i].seq \in Nat
      BY <1>0, <1>6, <2>2, Elements
    <3>2. v.sid = s.sid /\ u[i].seq <= v.seq
      BY <1>0, <2>2, <3>1 DEF Acked
    <3>3. w.sid = s.sid /\ w.seq = m.seq /\ v.seq <= m.seq
      BY <1>7, <1>15, <3>2
    <3>4. u[i].seq <= m.seq
      <4> DEFINE a == u[i].seq
                 b == v.seq
                 z == m.seq
      <4>1. a \in Nat /\ b \in Nat /\ z \in Nat /\ a <= b /\ b <= z
        BY <1>1, <1>3, <3>1, <3>2, <3>3
      <4> HIDE DEF a, b, z
      <4>2. a <= z
        BY <4>1
      <4> QED  BY <4>2 DEF a, z
    <3> QED  BY <3>1, <3>3, <3>4
  <2> QED  BY <1>6, <2>1, <2>2
<1>17. Chain(s, w, h)
  BY <1>0, <1>7, <1>15 DEF Chain
<1>18. Rested(s, w, h)
  <2> SUFFICES ASSUME AtRest(s) PROVE ~s.need /\ w.sid = s.sid /\ w.seq + 1 = s.next /\ w.commit = h
    BY DEF Rested
  <2>1. ~s.need /\ v.sid = s.sid /\ v.seq + 1 = s.next /\ v.commit = h /\ s.phase = "open"
    BY <1>0 DEF Rested, AtRest
  <2>2. m.sid = s.sid /\ m.seq = v.seq
    BY <1>1, <1>3, <1>4, <1>15, <2>1
  <2>3. m.commit = v.commit
    BY <1>4, <2>1, <2>2 DEF Fits
  <2> QED  BY <1>7, <2>1, <2>2, <2>3
<1>19. Versions(s, w, k)
  <2> SUFFICES ASSUME k \in Nat, k <= v.foreign PROVE k <= w.foreign
    BY DEF Versions
  <2> QED  BY <1>1, <1>7, <1>8
<1>20. Answered(s, p, x, w)
  <2> SUFFICES ASSUME s.live, p # NoFrame
               PROVE  /\ Same(w, p.frame) => \E i \in DOMAIN x : Answering(x[i], p)
                      /\ \A i \in DOMAIN x : Answering(x[i], p) =>
                            \E j \in 1..i : Answering(x[j], p) /\ x[j].kind = "ack"
    BY DEF Answered
  <2>1. Len(u) + 1 \in DOMAIN x
    BY <1>6
  <2>2. Same(w, p.frame) => Answering(x[Len(u) + 1], p)
    BY <1>5, <1>6, <1>7 DEF Same, Answering
  <2>3. ASSUME NEW i \in DOMAIN u, Answering(u[i], p)
        PROVE  \E j \in 1..i : Answering(x[j], p) /\ x[j].kind = "ack" /\ j \in 1..Len(u) + 1
    <3>1. PICK j \in 1..i : Answering(u[j], p) /\ u[j].kind = "ack"
      BY <2>3 DEF Answered
    <3>2. j \in DOMAIN u /\ j \in 1..Len(u) + 1
      BY <1>6, <3>1
    <3> QED  BY <1>6, <3>1, <3>2
  <2>4. ASSUME NEW i \in DOMAIN x, Answering(x[i], p)
        PROVE  \E j \in 1..i : Answering(x[j], p) /\ x[j].kind = "ack"
    <3>1. CASE i \in DOMAIN u
      BY <1>6, <2>3, <2>4, <3>1
    <3>2. CASE i = Len(u) + 1 /\ r.kind = "ack"
      <4>1. i \in 1..i
        BY <1>6, <3>2
      <4> QED  BY <1>6, <2>4, <3>2, <4>1
    <3>3. CASE i = Len(u) + 1 /\ r.kind = "snapshot"
      <4>1. Same(v, p.frame)
        BY <1>5, <1>6, <1>7, <2>4, <3>3 DEF Same, Answering
      <4>2. PICK n \in DOMAIN u : Answering(u[n], p)
        BY <4>1 DEF Answered
      <4>3. PICK j \in 1..n : Answering(x[j], p) /\ x[j].kind = "ack" /\ j \in 1..Len(u) + 1
        BY <2>3, <4>2
      <4> QED  BY <3>3, <4>3
    <3> QED  BY <1>5, <1>6, <3>1, <3>2, <3>3
  <2> QED  BY <2>1, <2>2, <2>4
<1>21. w.foreign \in {v.foreign, m.foreign}
  BY <1>3, <1>7
<1> QED
  BY <1>0, <1>7, <1>10, <1>11, <1>13, <1>14, <1>16, <1>17, <1>18, <1>19, <1>20, <1>21
  DEF Sound, w, x, r, e, m

-----------------------------------------------------------------------------
(* The wire *)

LEMMA WireParts ==
    ASSUME NEW w, NEW n, NEW f, NEW h, Ordered(w, n, f, h)
    PROVE  /\ w \in Seq(AnyCommit \cup AnyAnswer) /\ n \in Nat /\ f \in Nat /\ h \in Nat /\ h <= n
           /\ Len(w) \in Nat /\ DOMAIN w = 1..Len(w)
           /\ \A i \in DOMAIN w : /\ w[i] \in AnyCommit \cup AnyAnswer
                                  /\ IsCommit(w[i]) => w[i] \in AnyCommit /\ w[i].seq \in Nat
                                  /\ IsAnswer(w[i]) => /\ w[i] \in AnyAnswer /\ w[i].commit \in Nat
                                                       /\ w[i].foreign \in Nat
                                  /\ IsCommit(w[i]) \/ IsAnswer(w[i])
<1>1. w \in Seq(AnyCommit \cup AnyAnswer) /\ n \in Nat /\ f \in Nat /\ h \in 0..n
  BY DEF Ordered
<1>2. \A i \in DOMAIN w : w[i] \in AnyCommit \cup AnyAnswer
  BY <1>1
<1>3. \A x \in AnyCommit \cup AnyAnswer :
         /\ IsCommit(x) => x \in AnyCommit /\ x.seq \in Nat
         /\ IsAnswer(x) => x \in AnyAnswer /\ x.commit \in Nat /\ x.foreign \in Nat
         /\ IsCommit(x) \/ IsAnswer(x)
  BY DEF AnyCommit, AnyAnswer, IsCommit, IsAnswer
<1> QED  BY <1>1, <1>2, <1>3

LEMMA OrderedForeign ==
    ASSUME NEW w, NEW n, NEW f, NEW h, Ordered(w, n, f, h)
    PROVE  Ordered(w, n, f + 1, h)
<1>1. /\ n \in Nat /\ f \in Nat /\ f + 1 \in Nat
      /\ \A i \in DOMAIN w : IsAnswer(w[i]) => w[i].foreign \in Nat
  BY WireParts
<1>2. \A i \in DOMAIN w : IsAnswer(w[i]) => w[i].foreign <= f + 1
  BY <1>1 DEF Ordered
<1> QED  BY <1>1, <1>2 DEF Ordered

\* A commit is announced
LEMMA OrderedCommit ==
    ASSUME NEW w, NEW n, NEW f, NEW h, Ordered(w, n, f, h), NEW wide \in BOOLEAN
    PROVE  Ordered(Append(w, [kind |-> "commit", seq |-> n + 1, wide |-> wide]), n + 1, f, h)
<1> DEFINE x == [kind |-> "commit", seq |-> n + 1, wide |-> wide]
           e == Append(w, x)
           l == Len(w) + 1
<1>1. /\ w \in Seq(AnyCommit \cup AnyAnswer) /\ n \in Nat /\ f \in Nat /\ h \in Nat /\ h <= n
      /\ \A i \in DOMAIN w : /\ IsCommit(w[i]) => w[i].seq \in Nat
                             /\ IsAnswer(w[i]) => w[i].commit \in Nat /\ w[i].foreign \in Nat
  BY WireParts
<1>2. x \in AnyCommit \cup AnyAnswer /\ IsCommit(x) /\ ~IsAnswer(x) /\ x.seq = n + 1
  BY <1>1 DEF AnyCommit, IsCommit, IsAnswer
<1> HIDE DEF x
<1>3. /\ e \in Seq(AnyCommit \cup AnyAnswer) /\ Len(w) \in Nat /\ DOMAIN w = 1..Len(w)
      /\ DOMAIN e = 1..l /\ e[l] = x
      /\ \A i \in DOMAIN w : e[i] = w[i] /\ i # l /\ i \in DOMAIN e
      /\ \A i \in DOMAIN e : i \in DOMAIN w \/ i = l
      /\ \A i, j \in DOMAIN e : i < j => i \in DOMAIN w
  BY <1>1, <1>2, Appends
<1> HIDE DEF e, l
<1>4. Passed(w, n) = 1..h /\ h \in 0..n + 1
  BY <1>1 DEF Ordered
<1>5. Passed(e, n + 1) = 1..h
  <2>1. ASSUME NEW k \in 1..h PROVE k \in Passed(e, n + 1)
    <3>1. k \in Passed(w, n) /\ k \in 1..n + 1 /\ k # n + 1
      BY <1>1, <1>4
    <3>2. \A i \in DOMAIN e : IsCommit(e[i]) => e[i].seq # k
      BY <1>2, <1>3, <3>1 DEF Passed
    <3> QED  BY <3>1, <3>2 DEF Passed
  <2>2. ASSUME NEW k \in Passed(e, n + 1) PROVE k \in 1..h
    <3>1. k \in 1..n + 1 /\ \A i \in DOMAIN e : IsCommit(e[i]) => e[i].seq # k
      BY <2>2 DEF Passed
    <3>2. k # n + 1
      <4>1. l \in DOMAIN e
        BY <1>3 DEF l
      <4> QED  BY <1>2, <1>3, <3>1, <4>1
    <3>3. k \in 1..n
      BY <1>1, <3>1, <3>2
    <3>4. \A i \in DOMAIN w : IsCommit(w[i]) => w[i].seq # k
      BY <1>3, <3>1
    <3> QED  BY <1>4, <3>3, <3>4 DEF Passed
  <2> QED  BY <2>1, <2>2
<1>6. ASSUME NEW i \in DOMAIN e
      PROVE  /\ IsCommit(e[i]) => e[i].seq \in h + 1..n + 1
             /\ IsAnswer(e[i]) => e[i].commit \in h..n + 1 /\ e[i].foreign <= f
  <2>1. CASE i = l
    BY <1>1, <1>2, <1>3, <2>1
  <2>2. CASE i \in DOMAIN w
    <3>1. /\ IsCommit(w[i]) => w[i].seq \in h + 1..n
          /\ IsAnswer(w[i]) => w[i].commit \in h..n /\ w[i].foreign <= f
      BY <2>2 DEF Ordered
    <3> QED  BY <1>1, <1>3, <2>2, <3>1
  <2> QED  BY <1>3, <2>1, <2>2
<1>7. ASSUME NEW i \in DOMAIN e, NEW j \in DOMAIN e, i < j
      PROVE  /\ IsCommit(e[i]) /\ IsCommit(e[j]) => e[i].seq < e[j].seq
             /\ IsCommit(e[i]) /\ IsAnswer(e[j]) => e[i].seq <= e[j].commit
             /\ IsAnswer(e[i]) /\ IsCommit(e[j]) => e[i].commit < e[j].seq
             /\ IsAnswer(e[i]) /\ IsAnswer(e[j]) => e[i].foreign <= e[j].foreign
  <2>1. i \in DOMAIN w /\ e[i] = w[i]
    BY <1>3, <1>7
  <2>2. CASE j = l
    <3>1. /\ IsCommit(w[i]) => w[i].seq < n + 1
          /\ IsAnswer(w[i]) => w[i].commit < n + 1
      BY <1>1, <2>1 DEF Ordered
    <3> QED  BY <1>2, <1>3, <2>1, <2>2, <3>1
  <2>3. CASE j \in DOMAIN w
    BY <1>3, <1>7, <2>1, <2>3 DEF Ordered
  <2> QED  BY <1>3, <2>2, <2>3
<1>8. n + 1 \in Nat
  BY <1>1
<1>9. Ordered(e, n + 1, f, h)
  BY <1>1, <1>3, <1>4, <1>5, <1>6, <1>7, <1>8 DEF Ordered
<1> QED  BY <1>9 DEF e, x

\* An answer is given
LEMMA OrderedServe ==
    ASSUME NEW w, NEW n, NEW f, NEW h, Ordered(w, n, f, h),
           NEW x \in AnyAnswer, x.commit = n, x.foreign = f
    PROVE  Ordered(Append(w, x), n, f, h)
<1> DEFINE e == Append(w, x)
           l == Len(w) + 1
<1>1. /\ w \in Seq(AnyCommit \cup AnyAnswer) /\ n \in Nat /\ f \in Nat /\ h \in Nat /\ h <= n
      /\ \A i \in DOMAIN w : /\ IsCommit(w[i]) => w[i].seq \in Nat
                             /\ IsAnswer(w[i]) => w[i].commit \in Nat /\ w[i].foreign \in Nat
  BY WireParts
<1>2. x \in AnyCommit \cup AnyAnswer /\ ~IsCommit(x) /\ IsAnswer(x)
  BY <1>1 DEF AnyAnswer, IsCommit, IsAnswer
<1>3. /\ e \in Seq(AnyCommit \cup AnyAnswer) /\ Len(w) \in Nat /\ DOMAIN w = 1..Len(w)
      /\ DOMAIN e = 1..l /\ e[l] = x
      /\ \A i \in DOMAIN w : e[i] = w[i] /\ i # l /\ i \in DOMAIN e
      /\ \A i \in DOMAIN e : i \in DOMAIN w \/ i = l
      /\ \A i, j \in DOMAIN e : i < j => i \in DOMAIN w
  BY <1>1, <1>2, Appends
<1> HIDE DEF e, l
<1>5. Passed(e, n) = 1..h
  <2>1. Passed(e, n) = Passed(w, n)
    BY <1>2, <1>3 DEF Passed
  <2> QED  BY <2>1 DEF Ordered
<1>6. ASSUME NEW i \in DOMAIN e
      PROVE  /\ IsCommit(e[i]) => e[i].seq \in h + 1..n
             /\ IsAnswer(e[i]) => e[i].commit \in h..n /\ e[i].foreign <= f
  <2>1. CASE i = l
    BY <1>1, <1>2, <1>3, <2>1
  <2>2. CASE i \in DOMAIN w
    BY <1>1, <1>3, <2>2 DEF Ordered
  <2> QED  BY <1>3, <2>1, <2>2
<1>7. ASSUME NEW i \in DOMAIN e, NEW j \in DOMAIN e, i < j
      PROVE  /\ IsCommit(e[i]) /\ IsCommit(e[j]) => e[i].seq < e[j].seq
             /\ IsCommit(e[i]) /\ IsAnswer(e[j]) => e[i].seq <= e[j].commit
             /\ IsAnswer(e[i]) /\ IsCommit(e[j]) => e[i].commit < e[j].seq
             /\ IsAnswer(e[i]) /\ IsAnswer(e[j]) => e[i].foreign <= e[j].foreign
  <2>1. i \in DOMAIN w /\ e[i] = w[i]
    BY <1>3, <1>7
  <2>2. CASE j = l
    <3>1. /\ IsCommit(w[i]) => w[i].seq <= n
          /\ IsAnswer(w[i]) => w[i].foreign <= f
      BY <1>1, <2>1 DEF Ordered
    <3> QED  BY <1>2, <1>3, <2>1, <2>2, <3>1
  <2>3. CASE j \in DOMAIN w
    BY <1>3, <1>7, <2>1, <2>3 DEF Ordered
  <2> QED  BY <1>3, <2>2, <2>3
<1> QED  BY <1>1, <1>3, <1>5, <1>6, <1>7 DEF Ordered, e

\* The host hears of the next commit
LEMMA OrderedHear ==
    ASSUME NEW w, NEW n, NEW f, NEW h, Ordered(w, n, f, h), w # <<>>, IsCommit(Head(w))
    PROVE  /\ Head(w) \in AnyCommit /\ Head(w).seq = h + 1 /\ h + 1 <= n
           /\ Ordered(Tail(w), n, f, h + 1)
<1> DEFINE e == Tail(w)
           m == Head(w)
<1>1. /\ w \in Seq(AnyCommit \cup AnyAnswer) /\ n \in Nat /\ f \in Nat /\ h \in Nat /\ h <= n
      /\ \A i \in DOMAIN w : /\ IsCommit(w[i]) => w[i] \in AnyCommit /\ w[i].seq \in Nat
                             /\ IsAnswer(w[i]) => w[i].commit \in Nat /\ w[i].foreign \in Nat
                             /\ IsCommit(w[i]) \/ IsAnswer(w[i])
  BY WireParts
<1>2. /\ e \in Seq(AnyCommit \cup AnyAnswer) /\ m = w[1]
      /\ Len(w) \in Nat \ {0} /\ DOMAIN w = 1..Len(w) /\ DOMAIN e = 1..Len(w) - 1
      /\ \A i \in DOMAIN e : e[i] = w[i + 1] /\ i + 1 \in DOMAIN w /\ 1 < i + 1
  BY <1>1, Tails
<1>3. 1 \in DOMAIN w /\ \A i \in DOMAIN w : i # 1 => 1 < i /\ i - 1 \in DOMAIN e /\ e[i - 1] = w[i]
  BY <1>2
<1> HIDE DEF e, m
<1>4. IsCommit(m) /\ ~IsAnswer(m) /\ m \in AnyCommit /\ m.seq \in Nat /\ m.seq \in h + 1..n
  <2>1. m = w[1] /\ IsCommit(w[1])
    BY <1>2 DEF m
  <2> QED  BY <1>1, <1>3, <2>1 DEF Ordered, IsCommit, IsAnswer
<1>5. h + 1 <= n /\ h + 1 \in Nat
  BY <1>1, <1>4
<1>6. PICK i \in DOMAIN w : IsCommit(w[i]) /\ w[i].seq = h + 1
  <2>1. h + 1 \notin Passed(w, n) /\ h + 1 \in 1..n
    BY <1>1, <1>5 DEF Ordered
  <2> QED  BY <2>1 DEF Passed
<1>7. m.seq = h + 1
  <2>1. CASE i = 1
    BY <1>2, <1>6, <2>1
  <2>2. CASE i # 1
    <3>1. w[1].seq < w[i].seq
      BY <1>2, <1>3, <1>4, <1>6, <2>2 DEF Ordered
    <3> QED  BY <1>1, <1>2, <1>4, <1>6, <3>1
  <2> QED  BY <2>1, <2>2
<1>8. \A j \in DOMAIN e : /\ IsCommit(e[j]) => e[j].seq \in h + 2..n
                          /\ IsAnswer(e[j]) => e[j].commit \in h + 1..n /\ e[j].foreign <= f
  <2> TAKE j \in DOMAIN e
  <2>1. e[j] = w[j + 1] /\ j + 1 \in DOMAIN w /\ 1 < j + 1
    BY <1>2
  <2>2. /\ IsCommit(w[j + 1]) => w[1].seq < w[j + 1].seq /\ w[j + 1].seq \in h + 1..n
        /\ IsAnswer(w[j + 1]) => /\ w[1].seq <= w[j + 1].commit /\ w[j + 1].commit \in h..n
                                 /\ w[j + 1].foreign <= f
    BY <1>2, <1>3, <1>4, <2>1 DEF Ordered
  <2> QED  BY <1>1, <1>2, <1>7, <2>1, <2>2
<1>9. Passed(e, n) = 1..h + 1
  <2>1. ASSUME NEW k \in 1..h + 1 PROVE k \in Passed(e, n)
    <3>1. k \in 1..n
      BY <1>1, <1>5
    <3>2. \A j \in DOMAIN e : IsCommit(e[j]) => e[j].seq # k
      BY <1>1, <1>8
    <3> QED  BY <3>1, <3>2 DEF Passed
  <2>2. ASSUME NEW k \in Passed(e, n), k # h + 1 PROVE k \in 1..h
    <3>1. k \in 1..n /\ \A j \in DOMAIN e : IsCommit(e[j]) => e[j].seq # k
      BY <2>2 DEF Passed
    <3>2. \A j \in DOMAIN w : IsCommit(w[j]) => w[j].seq # k
      <4> TAKE j \in DOMAIN w
      <4>1. CASE j = 1
        BY <1>2, <1>7, <2>2, <4>1
      <4>2. CASE j # 1
        BY <1>3, <3>1, <4>2
      <4> QED  BY <4>1, <4>2
    <3>3. k \in Passed(w, n)
      BY <3>1, <3>2 DEF Passed
    <3> QED  BY <3>3 DEF Ordered
  <2>3. \A k \in Passed(e, n) : k \in 1..h + 1
    BY <1>1, <2>2
  <2> QED  BY <2>1, <2>3
<1>10. \A i1, j \in DOMAIN e : i1 < j =>
             /\ IsCommit(e[i1]) /\ IsCommit(e[j]) => e[i1].seq < e[j].seq
             /\ IsCommit(e[i1]) /\ IsAnswer(e[j]) => e[i1].seq <= e[j].commit
             /\ IsAnswer(e[i1]) /\ IsCommit(e[j]) => e[i1].commit < e[j].seq
             /\ IsAnswer(e[i1]) /\ IsAnswer(e[j]) => e[i1].foreign <= e[j].foreign
  <2>1. \A i1, j \in DOMAIN e : i1 < j => i1 + 1 < j + 1
    BY <1>2
  <2> QED  BY <1>2, <2>1 DEF Ordered
<1>11. Ordered(e, n, f, h + 1)
  <2>1. h + 1 \in 0..n /\ h + 1 + 1 = h + 2
    BY <1>1, <1>5
  <2> QED  BY <1>1, <1>2, <1>8, <1>9, <1>10, <2>1 DEF Ordered
<1> QED  BY <1>4, <1>5, <1>7, <1>11 DEF e, m

\* The host hears an answer: it was given after all the commits heard and before the others
LEMMA OrderedAnswer ==
    ASSUME NEW w, NEW n, NEW f, NEW h, Ordered(w, n, f, h), w # <<>>, IsAnswer(Head(w))
    PROVE  /\ Head(w) \in AnyAnswer /\ Head(w).commit = h
           /\ Ordered(Tail(w), n, f, h) /\ Past(Head(w).foreign, Tail(w), f)
<1> DEFINE e == Tail(w)
           m == Head(w)
<1>1. /\ w \in Seq(AnyCommit \cup AnyAnswer) /\ n \in Nat /\ f \in Nat /\ h \in Nat /\ h <= n
      /\ \A i \in DOMAIN w : /\ IsCommit(w[i]) => w[i].seq \in Nat
                             /\ IsAnswer(w[i]) => /\ w[i] \in AnyAnswer /\ w[i].commit \in Nat
                                                  /\ w[i].foreign \in Nat
  BY WireParts
<1>2. /\ e \in Seq(AnyCommit \cup AnyAnswer) /\ m = w[1]
      /\ Len(w) \in Nat \ {0} /\ DOMAIN w = 1..Len(w) /\ DOMAIN e = 1..Len(w) - 1
      /\ \A i \in DOMAIN e : e[i] = w[i + 1] /\ i + 1 \in DOMAIN w /\ 1 < i + 1
  BY <1>1, Tails
<1>3. 1 \in DOMAIN w /\ \A i \in DOMAIN w : i # 1 => 1 < i /\ i - 1 \in DOMAIN e /\ e[i - 1] = w[i]
  BY <1>2
<1>4. IsAnswer(m) /\ ~IsCommit(m)
  BY DEF IsCommit, IsAnswer
<1> HIDE DEF e, m
<1>5. /\ m \in AnyAnswer /\ m.commit \in Nat /\ m.foreign \in Nat /\ m.commit \in h..n
      /\ m.foreign <= f
  BY <1>1, <1>2, <1>3, <1>4 DEF Ordered
<1>6. m.commit = h
  <2> SUFFICES ASSUME m.commit # h PROVE FALSE
    OBVIOUS
  <2>1. h + 1 \in 1..n /\ h + 1 \notin 1..h /\ h + 1 <= m.commit
    BY <1>1, <1>5
  <2>2. PICK i \in DOMAIN w : IsCommit(w[i]) /\ w[i].seq = h + 1
    BY <2>1 DEF Ordered, Passed
  <2>3. i # 1
    BY <1>2, <1>4, <2>2
  <2>4. w[1].commit < w[i].seq
    BY <1>2, <1>3, <1>4, <2>2, <2>3 DEF Ordered
  <2> QED  BY <1>1, <1>2, <1>5, <2>1, <2>2, <2>4
<1>7. \A j \in DOMAIN e : /\ IsCommit(e[j]) => e[j].seq \in h + 1..n
                          /\ IsAnswer(e[j]) => /\ e[j].commit \in h..n /\ e[j].foreign <= f
                                               /\ m.foreign <= e[j].foreign
  <2> TAKE j \in DOMAIN e
  <2>1. e[j] = w[j + 1] /\ j + 1 \in DOMAIN w /\ 1 < j + 1
    BY <1>2
  <2> QED  BY <1>2, <1>3, <1>4, <2>1 DEF Ordered
<1>8. Passed(e, n) = 1..h
  <2>1. \A k : (\A j \in DOMAIN w : IsCommit(w[j]) => w[j].seq # k)
                 <=> \A j \in DOMAIN e : IsCommit(e[j]) => e[j].seq # k
    BY <1>2, <1>3, <1>4
  <2>2. Passed(e, n) = Passed(w, n)
    BY <2>1 DEF Passed
  <2> QED  BY <2>2 DEF Ordered
<1>9. \A i, j \in DOMAIN e : i < j =>
             /\ IsCommit(e[i]) /\ IsCommit(e[j]) => e[i].seq < e[j].seq
             /\ IsCommit(e[i]) /\ IsAnswer(e[j]) => e[i].seq <= e[j].commit
             /\ IsAnswer(e[i]) /\ IsCommit(e[j]) => e[i].commit < e[j].seq
             /\ IsAnswer(e[i]) /\ IsAnswer(e[j]) => e[i].foreign <= e[j].foreign
  <2>1. \A i, j \in DOMAIN e : i < j => i + 1 < j + 1
    BY <1>2
  <2> QED  BY <1>2, <2>1 DEF Ordered
<1>10. Ordered(e, n, f, h)
  BY <1>1, <1>2, <1>7, <1>8, <1>9 DEF Ordered
<1>11. Past(m.foreign, e, f)
  BY <1>1, <1>5, <1>7 DEF Past
<1> QED  BY <1>5, <1>6, <1>10, <1>11 DEF e, m

\* What has been reached stays reached
LEMMA PastKept ==
    ASSUME NEW w \in Seq(AnyCommit \cup AnyAnswer), NEW f \in Nat, NEW x, Past(x, w, f)
    PROVE  /\ Past(x, w, f + 1)
           /\ \A m \in AnyCommit : Past(x, Append(w, m), f)
           /\ \A m \in AnyAnswer : m.foreign = f => Past(x, Append(w, m), f)
           /\ w # <<>> => Past(x, Tail(w), f) /\ (IsAnswer(Head(w)) => x <= Head(w).foreign)
<1>1. x \in 0..f /\ x \in Nat /\ x <= f /\ \A i \in DOMAIN w : IsAnswer(w[i]) => x <= w[i].foreign
  BY DEF Past
<1>2. Past(x, w, f + 1)
  BY <1>1 DEF Past
<1>3. ASSUME NEW m \in AnyCommit \cup AnyAnswer, IsAnswer(m) => m.foreign = f
      PROVE  Past(x, Append(w, m), f)
  <2>1. \A i \in DOMAIN Append(w, m) : IsAnswer(Append(w, m)[i]) => x <= Append(w, m)[i].foreign
    <3>1. /\ \A i \in DOMAIN w : Append(w, m)[i] = w[i]
          /\ Append(w, m)[Len(w) + 1] = m
          /\ \A i \in DOMAIN Append(w, m) : i \in DOMAIN w \/ i = Len(w) + 1
      BY Appends
    <3> QED  BY <1>1, <1>3, <3>1
  <2> QED  BY <1>1, <2>1 DEF Past
<1>4. ASSUME w # <<>> PROVE Past(x, Tail(w), f) /\ (IsAnswer(Head(w)) => x <= Head(w).foreign)
  <2>1. /\ Head(w) = w[1] /\ 1 \in DOMAIN w
        /\ \A i \in DOMAIN Tail(w) : Tail(w)[i] = w[i + 1] /\ i + 1 \in DOMAIN w
    BY <1>4, Tails
  <2> QED  BY <1>1, <2>1 DEF Past
<1>5. \A m \in AnyCommit : ~IsAnswer(m)
  BY DEF AnyCommit, IsAnswer
<1> QED  BY <1>2, <1>3, <1>4, <1>5

LEMMA PastsKept ==
    ASSUME NEW p, NEW d, NEW v, NEW w, NEW f, NEW x, NEW g, Pasts(p, d, v, w, f),
           \A n : Past(n, w, f) => Past(n, x, g)
    PROVE  Pasts(p, d, v, x, g)
BY DEF Pasts

LEMMA PastsPost ==
    ASSUME NEW s, NEW t, NEW p, NEW d \in Seq(AnyFrame), NEW v, NEW w, NEW f, Pasts(p, d, v, w, f),
           Goes(s, t) => t.inflight \in AnyFrame /\ Past(t.inflight.foreign, w, f)
    PROVE  Pasts(PostTo(s, t, p), DownTo(s, t, d), v, w, f)
<1>1. CASE ~Goes(s, t)
  BY <1>1 DEF PostTo, DownTo
<1>2. CASE Goes(s, t)
  <2> DEFINE b == t.inflight
             e == Append(d, b)
  <2>1. b \in AnyFrame /\ Past(b.foreign, w, f)
    BY <1>2
  <2>2. PostTo(s, t, p) = [frame |-> b, resent |-> 0] /\ DownTo(s, t, d) = e
    BY <1>2 DEF PostTo, DownTo
  <2> HIDE DEF b
  <2>3. /\ \A i \in DOMAIN d : e[i] = d[i]
        /\ e[Len(d) + 1] = b
        /\ \A i \in DOMAIN e : i \in DOMAIN d \/ i = Len(d) + 1
    BY <2>1, Appends
  <2> HIDE DEF e
  <2>4. \A i \in DOMAIN e : Past(e[i].foreign, w, f)
    BY <2>1, <2>3 DEF Pasts
  <2>5. PostTo(s, t, p).frame = b
    BY <2>2
  <2> QED  BY <2>1, <2>2, <2>4, <2>5 DEF Pasts
<1> QED  BY <1>1, <1>2

-----------------------------------------------------------------------------
(* The count of the faults *)

LEMMA PaidPost ==
    ASSUME NEW s, NEW t, NEW p, NEW d \in Seq(AnyFrame), NEW u, NEW n \in Nat,
           PaidFor(s, p, d, u, n), t.phase # "off" => t.live,
           Goes(s, t) => t.inflight \in AnyFrame
    PROVE  PaidFor(t, PostTo(s, t, p), DownTo(s, t, d), u, n)
<1>1. CASE ~Goes(s, t)
  BY <1>1 DEF PostTo, DownTo, PaidFor
<1>2. CASE Goes(s, t)
  <2> DEFINE b == t.inflight
             e == Append(d, b)
             q == [frame |-> b, resent |-> 0]
  <2>1. b \in AnyFrame /\ PostTo(s, t, p) = q /\ DownTo(s, t, d) = e /\ q.frame = b /\ q.resent = 0
    BY <1>2 DEF PostTo, DownTo
  <2> HIDE DEF b, q
  <2>2. e[Len(d) + 1] = b /\ Len(d) + 1 \in DOMAIN e
    BY <2>1, Appends
  <2> HIDE DEF e
  <2>3. ~Absent(q, e, u)
    BY <2>1, <2>2 DEF Absent
  <2> QED  BY <2>1, <2>3 DEF PaidFor
<1> QED  BY <1>1, <1>2

LEMMA PaidListen ==
    ASSUME NEW s, NEW p, NEW d, NEW u \in Seq(AnyControl), NEW n, PaidFor(s, p, d, u, n),
           u # <<>>, p # NoFrame => ~Answering(Head(u), p)
    PROVE  PaidFor(s, p, d, Tail(u), n)
<1>1. /\ Head(u) = u[1] /\ \A i \in DOMAIN u : i # 1 => i - 1 \in DOMAIN Tail(u) /\ Tail(u)[i - 1] = u[i]
  BY Tails
<1>2. p # NoFrame /\ Absent(p, d, Tail(u)) => Absent(p, d, u)
  BY <1>1 DEF Absent
<1> QED  BY <1>2 DEF PaidFor

\* A frame that the page is given and answers, or that is not the awaited one
LEMMA PaidReceive ==
    ASSUME NEW s, NEW p, NEW d \in Seq(AnyFrame), NEW u \in Seq(AnyControl), NEW x, NEW n,
           PaidFor(s, p, d, u, n), d # <<>>,
           \/ x = u /\ (p # NoFrame => Head(d) # p.frame)
           \/ \E r \in AnyControl : x = Append(u, r) /\ r.sid = Head(d).sid /\ r.seq = Head(d).seq
    PROVE  PaidFor(s, p, Tail(d), x, n)
<1>1. /\ Head(d) = d[1] /\ \A i \in DOMAIN d : i # 1 => i - 1 \in DOMAIN Tail(d) /\ Tail(d)[i - 1] = d[i]
  BY Tails
<1>2. CASE x = u /\ (p # NoFrame => Head(d) # p.frame)
  <2>1. p # NoFrame /\ Absent(p, Tail(d), x) => Absent(p, d, u)
    BY <1>1, <1>2 DEF Absent
  <2> QED  BY <2>1 DEF PaidFor
<1>3. CASE \E r \in AnyControl : x = Append(u, r) /\ r.sid = Head(d).sid /\ r.seq = Head(d).seq
  <2>1. PICK r \in AnyControl : x = Append(u, r) /\ r.sid = Head(d).sid /\ r.seq = Head(d).seq
    BY <1>3
  <2>2. /\ x[Len(u) + 1] = r /\ Len(u) + 1 \in DOMAIN x
        /\ \A i \in DOMAIN u : x[i] = u[i] /\ i \in DOMAIN x
    BY <2>1, Appends
  <2>3. p # NoFrame /\ Absent(p, Tail(d), x) => Absent(p, d, u)
    <3> SUFFICES ASSUME Absent(p, Tail(d), x) PROVE Absent(p, d, u)
      OBVIOUS
    <3>1. \A i \in DOMAIN u : ~Answering(u[i], p)
      BY <2>2 DEF Absent
    <3>2. ~Answering(r, p)
      BY <2>2 DEF Absent
    <3>3. Head(d) # p.frame
      BY <2>1, <3>2 DEF Answering
    <3> QED  BY <1>1, <3>1, <3>3 DEF Absent
  <2> QED  BY <2>3 DEF PaidFor
<1> QED  BY <1>2, <1>3

LEMMA PaidRepeat ==
    ASSUME NEW s, NEW p \in AnyPost, NEW q, NEW d \in Seq(AnyFrame), NEW u, NEW n \in Nat,
           NEW m \in Nat, PaidFor(s, p, d, u, n), n <= m,
           q.frame = p.frame, q.resent = p.resent + 1, p.resent + 1 <= m
    PROVE  PaidFor(s, q, Append(d, p.frame), u, m)
<1>1. p.frame \in AnyFrame
  BY DEF AnyPost
<1>2. Append(d, p.frame)[Len(d) + 1] = p.frame /\ Len(d) + 1 \in DOMAIN Append(d, p.frame)
  BY <1>1, Appends
<1>3. ~Absent(q, Append(d, p.frame), u)
  BY <1>2 DEF Absent
<1> QED  BY <1>3 DEF PaidFor

LEMMA PaidMore ==
    ASSUME NEW s, NEW p \in AnyPost \cup {NoFrame}, NEW d, NEW e, NEW u, NEW n \in Nat,
           PaidFor(s, p, d, u, n)
    PROVE  PaidFor(s, p, e, u, n + 1)
<1>1. p # NoFrame => p.resent \in Nat
  BY FeedAssumption DEF AnyPost
<1> QED  BY <1>1 DEF PaidFor

-----------------------------------------------------------------------------
(* The steps of the worker *)

LEMMA Brought ==
    ASSUME NEW w \in Seq(AnyCommit \cup AnyAnswer), Lone(w)
    PROVE  /\ \A x \in AnyCommit \cup AnyAnswer :
                 /\ ~IsBaseline(x) => Lone(Append(w, x)) /\ Brings(Append(w, x)) = Brings(w)
                 /\ ~Brings(w) => Lone(Append(w, x))
           /\ w # <<>> => /\ Lone(Tail(w)) /\ (Brings(Tail(w)) => Brings(w))
                          /\ IsBaseline(Head(w)) => ~Brings(Tail(w)) /\ Brings(w)
<1>1. ASSUME NEW x \in AnyCommit \cup AnyAnswer
      PROVE  /\ ~IsBaseline(x) => Lone(Append(w, x)) /\ Brings(Append(w, x)) = Brings(w)
             /\ ~Brings(w) => Lone(Append(w, x))
  <2> DEFINE e == Append(w, x)
  <2>1. /\ \A i \in DOMAIN w : e[i] = w[i] /\ i \in DOMAIN e
        /\ e[Len(w) + 1] = x
        /\ \A i \in DOMAIN e : i \in DOMAIN w \/ i = Len(w) + 1
    BY Appends
  <2> HIDE DEF e
  <2>2. ASSUME ~IsBaseline(x) PROVE Lone(e) /\ Brings(e) = Brings(w)
    <3>1. Lone(e)
      BY <2>1, <2>2 DEF Lone
    <3>2. Brings(e) <=> Brings(w)
      BY <2>1, <2>2 DEF Brings
    <3>3. Brings(e) \in BOOLEAN /\ Brings(w) \in BOOLEAN
      BY DEF Brings
    <3> QED  BY <3>1, <3>2, <3>3
  <2>3. ASSUME ~Brings(w) PROVE Lone(e)
    BY <2>1, <2>3 DEF Lone, Brings
  <2> QED  BY <2>2, <2>3 DEF e
<1>2. ASSUME w # <<>>
      PROVE  /\ Lone(Tail(w)) /\ (Brings(Tail(w)) => Brings(w))
             /\ IsBaseline(Head(w)) => ~Brings(Tail(w)) /\ Brings(w)
  <2> DEFINE e == Tail(w)
  <2>1. /\ Head(w) = w[1] /\ 1 \in DOMAIN w /\ DOMAIN e = 1..Len(w) - 1 /\ Len(w) \in Nat
        /\ \A i \in DOMAIN e : e[i] = w[i + 1] /\ i + 1 \in DOMAIN w
    BY <1>2, Tails
  <2> HIDE DEF e
  <2>2. \A i \in DOMAIN e : i \in Nat /\ i + 1 # 1
    BY <2>1
  <2>3. Lone(e)
    BY <2>1, <2>2 DEF Lone
  <2>4. Brings(e) => Brings(w)
    BY <2>1 DEF Brings
  <2>5. IsBaseline(Head(w)) => ~Brings(e) /\ Brings(w)
    BY <2>1, <2>2 DEF Lone, Brings
  <2> QED  BY <2>3, <2>4, <2>5 DEF e
<1> QED  BY <1>1, <1>2

LEMMA Numbers ==
    ASSUME IInv
    PROVE  /\ bound \in Bounds /\ commits \in Nat /\ foreign \in Nat /\ known \in Nat \cup {Unknown}
           /\ bound.commits \in Nat /\ bound.foreign \in Nat
           /\ faults["read"] \in Nat /\ faults["frame"] \in Nat /\ DOMAIN faults = Fault
BY FeedAssumption DEF IInv, Scalars, Fault

\* A page that has no part in a step
LEMMA PageStays ==
    ASSUME NEW c \in Client, NEW h, PageSound(c, h),
           UNCHANGED <<session[c], post[c], down[c], up[c], view[c], known, visible[c]>>,
           \A x : Past(x, wire, foreign) => Past(x, wire, foreign)'
    PROVE  PageSound(c, h)'
<1>1. Pasts(post[c], down[c], view[c], wire', foreign')
  <2>1. Pasts(post[c], down[c], view[c], wire, foreign)
    BY DEF PageSound
  <2>2. \A x : Past(x, wire, foreign) => Past(x, wire', foreign')
    OBVIOUS
  <2> QED  BY <2>1, <2>2, PastsKept
<1> QED  BY <1>1 DEF PageSound

LEMMA LocalCommitStep == IInv /\ LocalCommit => IInv'
<1> SUFFICES ASSUME IInv, LocalCommit PROVE IInv'
  OBVIOUS
<1>0. PICK h \in 0..commits : Ordered(wire, commits, foreign, h) /\ \A c \in Client : PageSound(c, h)
  BY DEF IInv
<1>1. PICK wide \in BOOLEAN : wire' = Append(wire, [kind |-> "commit", seq |-> commits + 1, wide |-> wide])
  BY DEF LocalCommit
<1> DEFINE m == [kind |-> "commit", seq |-> commits + 1, wide |-> wide]
<1>2. /\ commits' = commits + 1 /\ commits < bound.commits /\ foreign' = foreign /\ asked' = asked
      /\ known' = known /\ polling' = polling /\ session' = session /\ ready' = ready
      /\ visible' = visible /\ post' = post /\ down' = down /\ up' = up /\ view' = view
      /\ bound' = bound /\ faults' = faults /\ visits' = visits
  BY DEF LocalCommit, poller, bridge, limits
<1>3. /\ m \in AnyCommit /\ m.kind = "commit" /\ wire \in Seq(AnyCommit \cup AnyAnswer)
      /\ foreign \in Nat /\ Lone(wire)
  BY <1>0, Numbers, WireParts DEF AnyCommit, IInv, Baselines
<1>4. wire' = Append(wire, m)
  BY <1>1
<1> HIDE DEF m
<1>5. Ordered(wire', commits', foreign', h) /\ h \in 0..commits'
  <2>1. Ordered(wire', commits + 1, foreign, h)
    BY <1>0, <1>1, OrderedCommit
  <2> QED  BY <1>2, <2>1 DEF Ordered
<1>6. \A x : Past(x, wire, foreign) => Past(x, wire', foreign')
  BY <1>2, <1>3, <1>4, PastKept
<1>7. \A c \in Client : PageSound(c, h)'
  BY <1>0, <1>2, <1>6, PageStays
<1>8. Scalars'
  BY <1>2, Numbers DEF IInv, Scalars
<1>9. Baselines'
  <2>1. ~IsBaseline(m)
    BY <1>3 DEF IsBaseline, IsAnswer
  <2> QED  BY <1>2, <1>3, <1>4, <2>1, Brought DEF IInv, Baselines
<1>10. Polls'
  BY <1>2, <1>6 DEF IInv, Polls
<1>11. Counted'
  <2>1. \A i \in DOMAIN wire' : (i \in DOMAIN wire /\ wire'[i] = wire[i]) \/ wire'[i] = m
    BY <1>3, <1>4, Appends
  <2> QED  BY <1>2, <1>3, <2>1 DEF IInv, Counted
<1>12. OneFaultHealed'
  BY <1>2 DEF IInv, OneFaultHealed
<1> QED  BY <1>5, <1>7, <1>8, <1>9, <1>10, <1>11, <1>12 DEF IInv

LEMMA ForeignCommitStep == IInv /\ ForeignCommit => IInv'
<1> SUFFICES ASSUME IInv, ForeignCommit PROVE IInv'
  OBVIOUS
<1>0. PICK h \in 0..commits : Ordered(wire, commits, foreign, h) /\ \A c \in Client : PageSound(c, h)
  BY DEF IInv
<1>2. /\ foreign' = foreign + 1 /\ foreign < bound.foreign /\ commits' = commits /\ asked' = asked
      /\ known' = known /\ polling' = polling /\ session' = session /\ ready' = ready
      /\ visible' = visible /\ post' = post /\ down' = down /\ up' = up /\ view' = view
      /\ bound' = bound /\ faults' = faults /\ visits' = visits /\ wire' = wire
  BY DEF ForeignCommit, poller, bridge, limits
<1>3. wire \in Seq(AnyCommit \cup AnyAnswer) /\ foreign \in Nat
  BY <1>0, Numbers, WireParts
<1>5. Ordered(wire', commits', foreign', h) /\ h \in 0..commits'
  BY <1>0, <1>2, OrderedForeign
<1>6. \A x : Past(x, wire, foreign) => Past(x, wire', foreign')
  BY <1>2, <1>3, PastKept
<1>7. \A c \in Client : PageSound(c, h)'
  BY <1>0, <1>2, <1>6, PageStays
<1>8. Scalars'
  <2>1. foreign + 1 \in 0..bound.foreign /\ (known \in 0..foreign => known \in 0..foreign + 1)
    BY <1>2, <1>3, Numbers
  <2> QED  BY <1>2, <2>1 DEF IInv, Scalars
<1>9. Baselines' /\ Polls'
  BY <1>2, <1>6 DEF IInv, Baselines, Polls
<1>11. Counted' /\ OneFaultHealed'
  BY <1>2 DEF IInv, Counted, OneFaultHealed
<1> QED  BY <1>5, <1>7, <1>8, <1>9, <1>11 DEF IInv

LEMMA PollTickStep == IInv /\ PollTick => IInv'
<1> SUFFICES ASSUME IInv, PollTick PROVE IInv'
  OBVIOUS
<1>0. PICK h \in 0..commits : Ordered(wire, commits, foreign, h) /\ \A c \in Client : PageSound(c, h)
  BY DEF IInv
<1>2. /\ foreign' = foreign /\ commits' = commits /\ asked' = asked \cup {"poll"}
      /\ known' = known /\ polling' = polling /\ session' = session /\ ready' = ready
      /\ visible' = visible /\ post' = post /\ down' = down /\ up' = up /\ view' = view
      /\ bound' = bound /\ faults' = faults /\ visits' = visits /\ wire' = wire
  BY DEF PollTick, database, poller, bridge, limits
<1>7. \A c \in Client : PageSound(c, h)'
  BY <1>0, <1>2, PageStays
<1>8. Scalars' /\ Baselines' /\ Polls'
  BY <1>2 DEF IInv, Scalars, Baselines, Polls, Read
<1>11. Counted' /\ OneFaultHealed'
  BY <1>2 DEF IInv, Counted, OneFaultHealed
<1> QED  BY <1>0, <1>2, <1>7, <1>8, <1>11 DEF IInv

LEMMA Failing ==
    ASSUME IInv, NEW f \in Fault, Fails(f)
    PROVE  /\ faults' \in [Fault -> Nat] /\ bound' = bound /\ visits' = visits
           /\ faults'[f] = faults[f] + 1 /\ \A g \in Fault \ {f} : faults'[g] = faults[g]
BY DEF Fails, IInv, Scalars

LEMMA ServeStep == ASSUME IInv, NEW r \in Read \cup Client, Serve(r) PROVE IInv'
<1>0. PICK h \in 0..commits : Ordered(wire, commits, foreign, h) /\ \A c \in Client : PageSound(c, h)
  BY DEF IInv
<1>1. PICK kind \in {"result", "error"} :
         /\ wire' = Append(wire, Answer(r, kind))
         /\ (kind = "result" /\ UNCHANGED limits) \/ (kind = "error" /\ Fails("read"))
  <2>1. CASE wire' = Append(wire, Answer(r, "result")) /\ UNCHANGED limits
    BY <2>1
  <2>2. CASE wire' = Append(wire, Answer(r, "error")) /\ Fails("read")
    BY <2>2
  <2> QED  BY <2>1, <2>2 DEF Serve
<1> DEFINE m == Answer(r, kind)
<1>2. /\ commits' = commits /\ foreign' = foreign /\ asked' = asked \ {r} /\ r \in asked
      /\ known' = known /\ polling' = polling /\ session' = session /\ ready' = ready
      /\ visible' = visible /\ post' = post /\ down' = down /\ up' = up /\ view' = view
  BY DEF Serve, database, poller, bridge
<1>3. m \in AnyAnswer /\ m.commit = commits /\ m.foreign = foreign /\ m.kind = kind /\ m.to = r
  <2>1. commits \in Nat /\ foreign \in Nat
    BY Numbers
  <2>2. r \in Client => session[r].sid \in Nat
    BY <1>0, SessionParts DEF PageSound, Sound, Types
  <2> QED  BY <2>1, <2>2 DEF Answer, AnyAnswer
<1>4. wire' = Append(wire, m)
  BY <1>1
<1> HIDE DEF m
<1>5. wire \in Seq(AnyCommit \cup AnyAnswer) /\ foreign \in Nat /\ Lone(wire)
  BY <1>0, Numbers, WireParts DEF IInv, Baselines
<1>6. Ordered(wire', commits', foreign', h) /\ h \in 0..commits'
  BY <1>0, <1>2, <1>3, <1>4, OrderedServe
<1>7. \A x : Past(x, wire, foreign) => Past(x, wire', foreign')
  BY <1>2, <1>3, <1>4, <1>5, PastKept
<1>8. \A c \in Client : PageSound(c, h)'
  BY <1>0, <1>2, <1>7, PageStays
<1>9. /\ bound' = bound /\ visits' = visits /\ faults' \in [Fault -> Nat]
      /\ kind = "result" => faults' = faults
      /\ kind = "error" => faults'["read"] # 0
  <2>1. CASE kind = "result" /\ UNCHANGED limits
    BY <2>1 DEF limits, IInv, Scalars
  <2>2. CASE kind = "error" /\ Fails("read")
    <3>1. faults'["read"] = faults["read"] + 1 /\ faults["read"] \in Nat
      BY <2>2, Failing, Numbers DEF Fault
    <3> QED  BY <2>2, <3>1, Failing DEF Fault
  <2> QED  BY <1>1, <2>1, <2>2
<1>10. Scalars'
  BY <1>2, <1>9 DEF IInv, Scalars
<1>11. Baselines'
  <2>1. m \in AnyCommit \cup AnyAnswer /\ (IsBaseline(m) => r = "baseline")
    BY <1>3 DEF IsBaseline
  <2>2. CASE IsBaseline(m)
    <3>1. "baseline" \in asked /\ "baseline" \notin asked' /\ ~Brings(wire) /\ ~polling
      BY <1>2, <2>1, <2>2 DEF IInv, Baselines
    <3>2. Lone(wire')
      BY <1>4, <1>5, <2>1, <3>1, Brought
    <3> QED  BY <1>2, <3>1, <3>2 DEF Baselines
  <2>3. CASE ~IsBaseline(m)
    <3>1. Lone(wire') /\ Brings(wire') = Brings(wire)
      BY <1>4, <1>5, <2>1, <2>3, Brought
    <3> QED  BY <1>2, <3>1 DEF IInv, Baselines
  <2> QED  BY <2>2, <2>3
<1>12. Polls'
  BY <1>2, <1>7 DEF IInv, Polls
<1>13. Counted' /\ OneFaultHealed'
  <2>1. CASE kind = "error"
    BY <1>9, <2>1 DEF Counted, OneFaultHealed
  <2>2. CASE kind = "result"
    <3>1. \A i \in DOMAIN wire' : (i \in DOMAIN wire /\ wire'[i] = wire[i]) \/ wire'[i] = m
      BY <1>3, <1>4, <1>5, Appends
    <3> QED  BY <1>2, <1>3, <1>9, <2>2, <3>1 DEF IInv, Counted, OneFaultHealed
  <2> QED  BY <2>1, <2>2
<1> QED  BY <1>6, <1>8, <1>10, <1>11, <1>12, <1>13 DEF IInv

-----------------------------------------------------------------------------
(* The steps of the host that hears from the worker *)

LEMMA PostIs ==
    ASSUME NEW waiting, Post(waiting), NEW c \in Client
    PROVE  /\ post'[c] = PostTo(session[c], session'[c], waiting[c])
           /\ down'[c] = DownTo(session[c], session'[c], down[c])
BY DEF Post, Posted, PostTo, DownTo, Goes

\* A page whose session has changed, and that is sent what the session sends
LEMMA PagePosts ==
    ASSUME NEW waiting, Post(waiting), NEW c \in Client, NEW h, NEW g, PageSound(c, h),
           view'[c] = view[c], visible'[c] = visible[c], waiting[c] \in {post[c], NoFrame},
           Sound(session'[c], post'[c], down'[c], up'[c], view[c], g),
           Versions(session'[c], view[c], known'),
           Answered(session'[c], post'[c], up'[c], view[c]),
           Goes(session[c], session'[c]) => Past(session'[c].inflight.foreign, wire', foreign'),
           \A x : Past(x, wire, foreign) => Past(x, wire', foreign'),
           ~visible[c] => session'[c].phase = "off"
    PROVE  PageSound(c, g)'
<1> DEFINE s == session[c]
           t == session'[c]
<1>1. /\ down[c] \in Seq(AnyFrame) /\ Pasts(post[c], down[c], view[c], wire, foreign)
      /\ (Goes(s, t) => t.inflight \in AnyFrame)
  <2>1. t \in AnySession
    BY DEF Sound, Types
  <2>2. t.inflight \in AnyFrame \cup {NoFrame}
    BY <2>1, SessionParts
  <2> QED  BY <2>2 DEF PageSound, Sound, Types, Goes
<1>2. Pasts(post[c], down[c], view[c], wire', foreign')
  BY <1>1, PastsKept
<1>3. Pasts(waiting[c], down[c], view[c], wire', foreign')
  BY <1>2 DEF Pasts
<1>4. Pasts(PostTo(s, t, waiting[c]), DownTo(s, t, down[c]), view[c], wire', foreign')
  BY <1>1, <1>3, PastsPost
<1>5. Pasts(post'[c], down'[c], view[c], wire', foreign')
  BY <1>4, PostIs
<1> QED  BY <1>5 DEF PageSound

\* What is known of an answer when it is heard
LEMMA HeardAnswer ==
    ASSUME NEW h, Ordered(wire, commits, foreign, h), NEW kind \in {"result", "error"}, NEW to,
           Hears(kind, to), Lone(wire)
    PROVE  /\ Head(wire) \in AnyAnswer /\ Head(wire).commit = h /\ Head(wire).foreign \in Nat
           /\ Head(wire).kind = kind /\ Head(wire).to \in to /\ wire # <<>>
           /\ Ordered(wire', commits', foreign', h)
           /\ Past(Head(wire).foreign, wire', foreign')
           /\ \A x : Past(x, wire, foreign) => Past(x, wire', foreign') /\ x <= Head(wire).foreign
           /\ Lone(wire') /\ (Brings(wire') => Brings(wire))
           /\ Head(wire).to = "baseline" => ~Brings(wire') /\ Brings(wire)
           /\ commits' = commits /\ foreign' = foreign /\ ready' = ready /\ visible' = visible
           /\ up' = up /\ view' = view /\ bound' = bound /\ faults' = faults /\ visits' = visits
           /\ \A i \in DOMAIN wire' : \E j \in DOMAIN wire : wire'[i] = wire[j]
<1>1. /\ wire # <<>> /\ Head(wire).kind = kind /\ Head(wire).to \in to /\ wire' = Tail(wire)
      /\ commits' = commits /\ foreign' = foreign /\ ready' = ready /\ visible' = visible
      /\ up' = up /\ view' = view /\ bound' = bound /\ faults' = faults /\ visits' = visits
  BY DEF Hears, database, bridge, limits
<1>2. IsAnswer(Head(wire)) /\ (Head(wire).to = "baseline" => IsBaseline(Head(wire)))
  BY <1>1 DEF IsAnswer, IsBaseline
<1>3. wire \in Seq(AnyCommit \cup AnyAnswer) /\ foreign \in Nat
  BY WireParts
<1>4. /\ Head(wire) \in AnyAnswer /\ Head(wire).commit = h
      /\ Ordered(wire', commits', foreign', h) /\ Past(Head(wire).foreign, wire', foreign')
  BY <1>1, <1>2, OrderedAnswer
<1>5. Head(wire).foreign \in Nat
  BY <1>4 DEF AnyAnswer
<1>6. \A x : Past(x, wire, foreign) => Past(x, wire', foreign') /\ x <= Head(wire).foreign
  BY <1>1, <1>2, <1>3, PastKept
<1>7. /\ Lone(wire') /\ (Brings(wire') => Brings(wire))
      /\ Head(wire).to = "baseline" => ~Brings(wire') /\ Brings(wire)
  BY <1>1, <1>2, <1>3, Brought
<1>8. \A i \in DOMAIN wire' : \E j \in DOMAIN wire : wire'[i] = wire[j]
  BY <1>1, <1>3, Tails
<1> QED  BY <1>1, <1>4, <1>5, <1>6, <1>7, <1>8

LEMMA HearCommitStep == IInv /\ HearCommit => IInv'
<1> SUFFICES ASSUME IInv, HearCommit PROVE IInv'
  OBVIOUS
<1>0. PICK h \in 0..commits : Ordered(wire, commits, foreign, h) /\ \A c \in Client : PageSound(c, h)
  BY DEF IInv
<1> DEFINE m == Head(wire)
<1>1. /\ wire # <<>> /\ m.kind = "commit" /\ wire' = Tail(wire)
      /\ commits' = commits /\ foreign' = foreign /\ ready' = ready /\ visible' = visible
      /\ up' = up /\ view' = view /\ bound' = bound /\ faults' = faults /\ visits' = visits
      /\ session' = [c \in Client |-> OnCommit(session[c], m)] /\ Post(post)
      /\ asked' = asked \cup Reads /\ known' = known /\ polling' = polling
  BY DEF HearCommit, Hears, database, bridge, limits, poller
<1>2. wire \in Seq(AnyCommit \cup AnyAnswer) /\ foreign \in Nat /\ Lone(wire) /\ h \in Nat
      /\ known \in Nat \cup {Unknown} /\ commits \in Nat
  BY <1>0, Numbers, WireParts DEF IInv, Baselines
<1>3. m \in AnyCommit /\ m.seq = h + 1 /\ h + 1 <= commits /\ Ordered(wire', commits', foreign', h + 1)
  <2>1. IsCommit(m)
    BY <1>1 DEF IsCommit
  <2> QED  BY <1>0, <1>1, <2>1, OrderedHear
<1> HIDE DEF m
<1>4. \A x : Past(x, wire, foreign) => Past(x, wire', foreign')
  BY <1>1, <1>2, PastKept
<1>5. ASSUME NEW c \in Client
      PROVE  /\ PageSound(c, h + 1)' /\ Kept(session[c], session'[c])
             /\ (faults["read"] = 0 => PaidFor(session[c], post[c], down[c], up[c], faults["frame"])')
  <2> DEFINE s == session[c]
             t == session'[c]
  <2>1. /\ Sound(s, post[c], down[c], up[c], view[c], h) /\ Versions(s, view[c], known)
        /\ Answered(s, post[c], up[c], view[c]) /\ (~visible[c] => s.phase = "off")
        /\ Past(view[c].foreign, wire, foreign)
    BY <1>0 DEF PageSound, Pasts
  <2>2. t = OnCommit(s, m)
    BY <1>1
  <2>3. post'[c] = PostTo(s, t, post[c]) /\ down'[c] = DownTo(s, t, down[c])
    BY <1>1, PostIs
  <2> HIDE DEF s, t
  <2>4. /\ Sound(t, PostTo(s, t, post[c]), DownTo(s, t, down[c]), up[c], view[c], h + 1)
        /\ Versions(t, view[c], known)
        /\ Answered(t, PostTo(s, t, post[c]), up[c], view[c])
        /\ Goes(s, t) => t.inflight.foreign = 0
        /\ Kept(s, t)
    BY <1>2, <1>3, <2>1, <2>2, CommitSound
  <2>5. Past(0, wire', foreign')
    <3>1. Past(view[c].foreign, wire', foreign') /\ view[c].foreign \in Nat
      BY <1>4, <2>1, Elements DEF Sound
    <3>2. \A i \in DOMAIN wire' : IsAnswer(wire'[i]) => wire'[i].foreign \in Nat
      BY <1>3, WireParts
    <3> QED  BY <1>1, <1>2, <3>1, <3>2 DEF Past
  <2>6. PageSound(c, h + 1)'
    <3>1. ~visible[c] => t.phase = "off"
      BY <2>1, <2>4 DEF Kept
    <3>2. Goes(s, t) => Past(t.inflight.foreign, wire', foreign')
      BY <2>4, <2>5
    <3> QED  BY <1>0, <1>1, <1>4, <2>3, <2>4, <3>1, <3>2, PagePosts DEF s, t
  <2>7. faults["read"] = 0 => PaidFor(session[c], post[c], down[c], up[c], faults["frame"])'
    <3> SUFFICES ASSUME faults["read"] = 0 PROVE PaidFor(t, post'[c], down'[c], up[c], faults["frame"])
      BY <1>1 DEF t
    <3>1. PaidFor(s, post[c], down[c], up[c], faults["frame"]) /\ faults["frame"] \in Nat
      BY Numbers DEF IInv, Counted, s
    <3>2. t.phase # "off" => t.live
      BY <2>4, <3>1 DEF PaidFor, Kept
    <3>3. down[c] \in Seq(AnyFrame) /\ t \in AnySession
      BY <2>1, <2>4 DEF Sound, Types
    <3>4. Goes(s, t) => t.inflight \in AnyFrame
      BY <3>3, SessionParts DEF Goes
    <3> QED  BY <2>3, <3>1, <3>2, <3>3, <3>4, PaidPost
  <2> QED  BY <2>4, <2>6, <2>7 DEF s, t
<1>6. Scalars'
  <2>1. Reads \subseteq {Shared}
    BY DEF Reads
  <2>2. DOMAIN session' = Client /\ DOMAIN post' = Client /\ DOMAIN down' = Client
    BY <1>1 DEF Post
  <2> QED  BY <1>1, <2>1, <2>2 DEF IInv, Scalars, Read
<1>7. Baselines'
  <2>1. "baseline" \in asked' => "baseline" \in asked
    BY <1>1 DEF Reads, Shared
  <2>2. Lone(wire') /\ (Brings(wire') => Brings(wire))
    BY <1>1, <1>2, Brought
  <2> QED  BY <1>1, <2>1, <2>2 DEF IInv, Baselines
<1>8. Polls'
  BY <1>1, <1>4, <1>5 DEF IInv, Polls, Kept
<1>9. Counted'
  <2>1. \A i \in DOMAIN wire' : \E j \in DOMAIN wire : wire'[i] = wire[j]
    BY <1>1, <1>2, Tails
  <2> QED  BY <1>1, <1>5, <2>1 DEF IInv, Counted
<1>10. OneFaultHealed'
  BY <1>1, <1>5 DEF IInv, OneFaultHealed, Kept
<1>11. h + 1 \in 0..commits'
  BY <1>1, <1>2, <1>3
<1> QED  BY <1>3, <1>5, <1>6, <1>7, <1>8, <1>9, <1>10, <1>11 DEF IInv

\* What the session of a page did when the host heard the answer m: it sends at the
\* version of the answer, if it sends at all
Handled(c, k, m, h) ==
    LET s == session[c]
        t == session'[c]
    IN  /\ Sound(t, PostTo(s, t, post[c]), DownTo(s, t, down[c]), up[c], view[c], h)
        /\ Versions(t, view[c], k)
        /\ Answered(t, PostTo(s, t, post[c]), up[c], view[c])
        /\ Goes(s, t) => t.inflight.foreign = m.foreign
        /\ t.sid = s.sid /\ t.live = s.live
        /\ t.phase = s.phase \/ (t.phase = "open" /\ s.phase = "reading")

\* The host hears an answer
LEMMA AnswerStep ==
    ASSUME IInv, NEW h \in 0..commits, Ordered(wire, commits, foreign, h),
           \A c \in Client : PageSound(c, h),
           NEW kind \in {"result", "error"}, NEW to, Hears(kind, to), Post(post),
           asked' \in {asked, asked \cup {Shared}}, polling' = polling,
           known' \in {known, Head(wire).foreign}, DOMAIN session' = Client,
           \A c \in Client : Handled(c, known', Head(wire), h)
    PROVE  IInv'
<1> DEFINE m == Head(wire)
<1>1. Lone(wire) /\ foreign \in Nat /\ commits \in Nat /\ h \in Nat
  BY Numbers DEF IInv, Baselines
<1>2. /\ m \in AnyAnswer /\ m.foreign \in Nat
      /\ Ordered(wire', commits', foreign', h) /\ Past(m.foreign, wire', foreign')
      /\ \A x : Past(x, wire, foreign) => Past(x, wire', foreign') /\ x <= m.foreign
      /\ Lone(wire') /\ (Brings(wire') => Brings(wire))
      /\ commits' = commits /\ foreign' = foreign /\ ready' = ready /\ visible' = visible
      /\ up' = up /\ view' = view /\ bound' = bound /\ faults' = faults /\ visits' = visits
      /\ \A i \in DOMAIN wire' : \E j \in DOMAIN wire : wire'[i] = wire[j]
  BY <1>1, HeardAnswer
<1> HIDE DEF m
<1>3. ASSUME NEW c \in Client
      PROVE  /\ PageSound(c, h)'
             /\ (faults["read"] = 0 => PaidFor(session[c], post[c], down[c], up[c], faults["frame"])')
             /\ session'[c].sid = session[c].sid /\ session'[c].live = session[c].live
             /\ (session[c].phase = "baseline" => session'[c].phase = "baseline")
  <2> DEFINE s == session[c]
             t == session'[c]
  <2>1. PageSound(c, h) /\ (~visible[c] => s.phase = "off")
    BY DEF PageSound
  <2>3. post'[c] = PostTo(s, t, post[c]) /\ down'[c] = DownTo(s, t, down[c])
    BY PostIs
  <2>4. /\ Sound(t, PostTo(s, t, post[c]), DownTo(s, t, down[c]), up[c], view[c], h)
        /\ Versions(t, view[c], known')
        /\ Answered(t, PostTo(s, t, post[c]), up[c], view[c])
        /\ Goes(s, t) => t.inflight.foreign = m.foreign
        /\ t.sid = s.sid /\ t.live = s.live
        /\ t.phase = s.phase \/ (t.phase = "open" /\ s.phase = "reading")
    BY DEF m, Handled
  <2> HIDE DEF s, t
  <2>6. PageSound(c, h)'
    <3>1. ~visible[c] => t.phase = "off"
      BY <2>1, <2>4
    <3>2. Goes(s, t) => Past(t.inflight.foreign, wire', foreign')
      BY <1>2, <2>4
    <3> QED  BY <1>2, <2>1, <2>3, <2>4, <3>1, <3>2, PagePosts DEF s, t
  <2>7. faults["read"] = 0 => PaidFor(session[c], post[c], down[c], up[c], faults["frame"])'
    <3> SUFFICES ASSUME faults["read"] = 0 PROVE PaidFor(t, post'[c], down'[c], up[c], faults["frame"])
      BY <1>2 DEF t
    <3>1. PaidFor(s, post[c], down[c], up[c], faults["frame"]) /\ faults["frame"] \in Nat
      BY Numbers DEF IInv, Counted, s
    <3>2. t.phase # "off" => t.live
      BY <2>4, <3>1 DEF PaidFor
    <3>3. down[c] \in Seq(AnyFrame) /\ t \in AnySession
      BY <2>1, <2>4 DEF Sound, Types, PageSound
    <3>4. Goes(s, t) => t.inflight \in AnyFrame
      BY <3>3, SessionParts DEF Goes
    <3> QED  BY <2>3, <3>1, <3>2, <3>3, <3>4, PaidPost
  <2> QED  BY <2>4, <2>6, <2>7 DEF s, t
<1>4. known' # Unknown => Past(known', wire', foreign')
  BY <1>2 DEF IInv, Polls, m
<1>5. m.foreign # Unknown
  BY <1>2, FeedAssumption
<1>6. Scalars'
  <2>1. known' \in 0..foreign \cup {Unknown}
    BY <1>2, <1>4 DEF Past
  <2>2. DOMAIN post' = Client /\ DOMAIN down' = Client
    BY DEF Post
  <2> QED  BY <1>2, <2>1, <2>2 DEF IInv, Scalars, Read
<1>7. Baselines'
  <2>1. "baseline" \in asked' => "baseline" \in asked
    BY DEF Shared
  <2> QED  BY <1>2, <2>1 DEF IInv, Baselines
<1>8. Polls'
  BY <1>3, <1>4, <1>5 DEF IInv, Polls, m
<1>9. Counted'
  BY <1>2, <1>3 DEF IInv, Counted
<1>10. OneFaultHealed'
  BY <1>2, <1>3 DEF IInv, OneFaultHealed
<1>11. h \in 0..commits'
  BY <1>2
<1> QED  BY <1>2, <1>3, <1>6, <1>7, <1>8, <1>9, <1>10, <1>11 DEF IInv

LEMMA ReachedIs ==
    ASSUME IInv, NEW h, NEW c \in Client, PageSound(c, h), NEW n,
           \A x : Past(x, wire, foreign) => x <= n
    PROVE  Reached(down[c], view[c], known, n)
BY DEF PageSound, Pasts, IInv, Polls, Reached

\* The answer to the read of one session
LEMMA Completed ==
    ASSUME NEW s, NEW t, NEW p, NEW d, NEW u, NEW v, NEW h \in Nat, NEW k, NEW m \in AnyAnswer,
           Sound(s, p, d, u, v, h), Versions(s, v, k), Answered(s, p, u, v),
           m.commit = h, Reached(d, v, k, m.foreign), Takes(s, t, m)
    PROVE  /\ Sound(t, PostTo(s, t, p), DownTo(s, t, d), u, v, h) /\ Versions(t, v, k)
           /\ Answered(t, PostTo(s, t, p), u, v)
           /\ Goes(s, t) => t.inflight.foreign = m.foreign
           /\ t.sid = s.sid /\ t.live = s.live
           /\ t.phase = s.phase \/ (t.phase = "open" /\ s.phase = "reading")
<1>1. s.refreshing => s.phase = "open"
  BY DEF Sound, Types
<1>2. CASE t = s
  BY <1>2 DEF Goes, PostTo, DownTo
<1>3. CASE Completes(s, t, m)
  <2>1. s.phase \in {"reading", "open"}
    BY <1>1, <1>3 DEF Completes
  <2>2. /\ Sound(t, PostTo(s, t, p), DownTo(s, t, d), u, v, h) /\ Versions(t, v, k)
        /\ Answered(t, PostTo(s, t, p), u, v)
        /\ Goes(s, t) /\ t.inflight.foreign = m.foreign
        /\ t.sid = s.sid /\ t.live = s.live /\ t.phase = "open"
    BY <1>3, AnswerSound
  <2> QED  BY <2>1, <2>2
<1> QED  BY <1>2, <1>3 DEF Takes

LEMMA HearConnectStep == IInv /\ HearConnect => IInv'
<1> SUFFICES ASSUME IInv, HearConnect PROVE IInv'
  OBVIOUS
<1>0. PICK h \in 0..commits : Ordered(wire, commits, foreign, h) /\ \A c \in Client : PageSound(c, h)
  BY DEF IInv
<1> DEFINE m == Head(wire)
           current == session[m.to].sid = m.sid /\ session[m.to].phase = "reading"
<1>1. /\ Hears("result", Client) /\ Post(post) /\ asked' = asked /\ polling' = polling /\ known' = known
      /\ session' = [session EXCEPT ![m.to] = IF current THEN Connected(@, m) ELSE @]
  BY DEF HearConnect, poller
<1>2. Lone(wire) /\ h \in Nat /\ DOMAIN session = Client
  BY <1>0, Numbers DEF IInv, Baselines, Scalars
<1>3. m \in AnyAnswer /\ m.commit = h /\ \A x : Past(x, wire, foreign) => x <= m.foreign
  BY <1>0, <1>1, <1>2, HeardAnswer
<1> HIDE DEF m
<1>4. \A c \in Client : Takes(session[c], session'[c], m)
  BY <1>1, <1>2 DEF Takes, Completes
<1>5. DOMAIN session' = Client
  BY <1>1, <1>2
<1>6. ASSUME NEW c \in Client
      PROVE  Handled(c, known, m, h)
  <2> DEFINE s == session[c]
             t == session'[c]
             p == post[c]
             d == down[c]
             u == up[c]
             v == view[c]
  <2>1. Reached(d, v, known, m.foreign)
    BY <1>0, <1>3, ReachedIs
  <2>2. Sound(s, p, d, u, v, h) /\ Versions(s, v, known) /\ Answered(s, p, u, v)
    BY <1>0 DEF PageSound
  <2>3. m \in AnyAnswer /\ m.commit = h /\ h \in Nat
    BY <1>2, <1>3
  <2>4. Takes(s, t, m)
    BY <1>4
  <2> HIDE DEF s, t, p, d, u, v
  <2>5. /\ Sound(t, PostTo(s, t, p), DownTo(s, t, d), u, v, h) /\ Versions(t, v, known)
        /\ Answered(t, PostTo(s, t, p), u, v)
        /\ Goes(s, t) => t.inflight.foreign = m.foreign
        /\ t.sid = s.sid /\ t.live = s.live
        /\ t.phase = s.phase \/ (t.phase = "open" /\ s.phase = "reading")
    BY <2>1, <2>2, <2>3, <2>4, Completed
  <2> QED  BY <2>5 DEF s, t, p, d, u, v, Handled
<1>7. \A c \in Client : Handled(c, known', Head(wire), h)
  BY <1>1, <1>6 DEF m
<1> QED  BY <1>0, <1>1, <1>5, <1>7, AnswerStep

LEMMA HearSharedStep == IInv /\ HearShared => IInv'
<1> SUFFICES ASSUME IInv, HearShared PROVE IInv'
  OBVIOUS
<1>0. PICK h \in 0..commits : Ordered(wire, commits, foreign, h) /\ \A c \in Client : PageSound(c, h)
  BY DEF IInv
<1> DEFINE m == Head(wire)
<1>1. /\ Hears("result", {Shared}) /\ Post(post) /\ asked' = asked /\ polling' = polling /\ known' = known
      /\ session' = [c \in Client |-> IF session[c].refreshing
                                      THEN Refreshed(session[c], m) ELSE session[c]]
  BY DEF HearShared, poller
<1>2. Lone(wire) /\ h \in Nat
  BY <1>0, Numbers DEF IInv, Baselines
<1>3. m \in AnyAnswer /\ m.commit = h /\ \A x : Past(x, wire, foreign) => x <= m.foreign
  BY <1>0, <1>1, <1>2, HeardAnswer
<1> HIDE DEF m
<1>4. \A c \in Client : Takes(session[c], session'[c], m)
  BY <1>1 DEF Takes, Completes
<1>5. DOMAIN session' = Client
  BY <1>1
<1>6. ASSUME NEW c \in Client
      PROVE  Handled(c, known, m, h)
  <2> DEFINE s == session[c]
             t == session'[c]
             p == post[c]
             d == down[c]
             u == up[c]
             v == view[c]
  <2>1. Reached(d, v, known, m.foreign)
    BY <1>0, <1>3, ReachedIs
  <2>2. Sound(s, p, d, u, v, h) /\ Versions(s, v, known) /\ Answered(s, p, u, v)
    BY <1>0 DEF PageSound
  <2>3. m \in AnyAnswer /\ m.commit = h /\ h \in Nat
    BY <1>2, <1>3
  <2>4. Takes(s, t, m)
    BY <1>4
  <2> HIDE DEF s, t, p, d, u, v
  <2>5. /\ Sound(t, PostTo(s, t, p), DownTo(s, t, d), u, v, h) /\ Versions(t, v, known)
        /\ Answered(t, PostTo(s, t, p), u, v)
        /\ Goes(s, t) => t.inflight.foreign = m.foreign
        /\ t.sid = s.sid /\ t.live = s.live
        /\ t.phase = s.phase \/ (t.phase = "open" /\ s.phase = "reading")
    BY <2>1, <2>2, <2>3, <2>4, Completed
  <2> QED  BY <2>5 DEF s, t, p, d, u, v, Handled
<1>7. \A c \in Client : Handled(c, known', Head(wire), h)
  BY <1>1, <1>6 DEF m
<1> QED  BY <1>0, <1>1, <1>5, <1>7, AnswerStep

LEMMA HearVersionStep == IInv /\ HearVersion => IInv'
<1> SUFFICES ASSUME IInv, HearVersion PROVE IInv'
  OBVIOUS
<1>0. PICK h \in 0..commits : Ordered(wire, commits, foreign, h) /\ \A c \in Client : PageSound(c, h)
  BY DEF IInv
<1> DEFINE m == Head(wire)
           moved == known # Unknown /\ known # m.foreign
<1>1. /\ Hears("result", {"poll"}) /\ Post(post) /\ asked' = asked \cup Reads
      /\ polling' = polling /\ known' = m.foreign
      /\ session' = [c \in Client |-> IF moved THEN EnterRequired(session[c]) ELSE session[c]]
  BY DEF HearVersion
<1>2. Lone(wire) /\ h \in Nat
  BY <1>0, Numbers DEF IInv, Baselines
<1>3. ASSUME NEW c \in Client
      PROVE  Handled(c, m.foreign, m, h)
  <2> DEFINE s == session[c]
             t == session'[c]
  <2>1. /\ Sound(s, post[c], down[c], up[c], view[c], h) /\ Versions(s, view[c], known)
        /\ Answered(s, post[c], up[c], view[c]) /\ s \in AnySession
    BY <1>0 DEF PageSound, Sound, Types
  <2>2. t = IF moved THEN EnterRequired(s) ELSE s
    BY <1>1
  <2>3. ~polling => (s.live => s.phase = "baseline")
    BY DEF IInv, Polls
  <2>4. polling => known # Unknown
    BY DEF IInv, Polls
  <2> HIDE DEF s, t, m
  <2>5. CASE ~(moved /\ s.live)
    <3>1. t = s
      BY <2>1, <2>2, <2>5, EnterIs
    <3>2. Versions(s, view[c], m.foreign)
      <4>1. CASE known = m.foreign
        BY <2>1, <4>1
      <4>2. CASE ~s.live \/ known = Unknown
        BY <2>3, <2>4, <4>2, SessionParts, <2>1 DEF Versions
      <4> QED  BY <2>5, <4>1, <4>2
    <3> QED  BY <2>1, <3>1, <3>2 DEF Goes, PostTo, DownTo, s, t, Handled
  <2>6. CASE moved /\ s.live
    <3>1. /\ t \in AnySession /\ Kept(s, t) /\ t.next = s.next /\ t.inflight = s.inflight
          /\ t.need /\ t.queue = <<>> /\ t.refreshing = (s.refreshing \/ AtRest(s))
          /\ t.handoff = s.handoff \/ t.handoff = <<>>
      BY <2>1, <2>2, <2>6, EnterIs
    <3>2. ~Goes(s, t)
      BY <3>1 DEF Goes
    <3>3. Sound(t, post[c], down[c], up[c], view[c], h) /\ Versions(t, view[c], m.foreign)
          /\ Answered(t, post[c], up[c], view[c])
      <4>1. /\ Sound(s, post[c], down[c], up[c], view[c], h) /\ Answered(s, post[c], up[c], view[c])
            /\ h \in Nat /\ h <= h /\ s.live
        BY <1>2, <2>1, <2>6
      <4> QED  BY <3>1, <4>1, Requires
    <3> QED  BY <3>1, <3>2, <3>3 DEF PostTo, DownTo, Kept, s, t, Handled
  <2> QED  BY <2>5, <2>6
<1>4. asked' \in {asked, asked \cup {Shared}}
  BY <1>1 DEF Reads
<1>5. DOMAIN session' = Client
  BY <1>1
<1>6. \A c \in Client : Handled(c, known', Head(wire), h)
  BY <1>1, <1>3 DEF m
<1> QED  BY <1>0, <1>1, <1>4, <1>5, <1>6, AnswerStep

\* A page whose session has changed, and that is sent nothing
LEMMA PageChanges ==
    ASSUME NEW c \in Client, NEW h, NEW g, PageSound(c, h),
           post'[c] = post[c], down'[c] = down[c], up'[c] = up[c], view'[c] = view[c],
           visible'[c] = visible[c],
           Sound(session'[c], post[c], down[c], up[c], view[c], g),
           Versions(session'[c], view[c], known'), Answered(session'[c], post[c], up[c], view[c]),
           \A x : Past(x, wire, foreign) => Past(x, wire', foreign'),
           ~visible[c] => session'[c].phase = "off"
    PROVE  PageSound(c, g)'
<1>1. Pasts(post[c], down[c], view[c], wire', foreign')
  BY PastsKept DEF PageSound
<1> QED  BY <1>1 DEF PageSound

LEMMA HearBaselineStep == IInv /\ HearBaseline => IInv'
<1> SUFFICES ASSUME IInv, HearBaseline PROVE IInv'
  OBVIOUS
<1>0. PICK h \in 0..commits : Ordered(wire, commits, foreign, h) /\ \A c \in Client : PageSound(c, h)
  BY DEF IInv
<1> DEFINE m == Head(wire)
           waiting == {c \in Client : session[c].phase = "baseline"}
<1>1. /\ Hears("result", {"baseline"}) /\ post' = post /\ down' = down /\ known' = m.foreign
      /\ session' = [c \in Client |-> IF c \in waiting
                                      THEN [session[c] EXCEPT !.phase = "reading"] ELSE session[c]]
      /\ asked' = asked \cup waiting
      /\ polling' = (polling \/ \E c \in Client : session[c].live)
  BY DEF HearBaseline
<1>2. Lone(wire) /\ h \in Nat /\ foreign \in Nat /\ commits \in Nat
  BY <1>0, Numbers DEF IInv, Baselines
<1>3. /\ m.to = "baseline" /\ m.foreign \in Nat
      /\ Ordered(wire', commits', foreign', h) /\ Past(m.foreign, wire', foreign')
      /\ \A x : Past(x, wire, foreign) => Past(x, wire', foreign')
      /\ Lone(wire') /\ ~Brings(wire') /\ Brings(wire)
      /\ commits' = commits /\ foreign' = foreign /\ ready' = ready /\ visible' = visible
      /\ up' = up /\ view' = view /\ bound' = bound /\ faults' = faults /\ visits' = visits
      /\ \A i \in DOMAIN wire' : \E j \in DOMAIN wire : wire'[i] = wire[j]
  <2>1. m.to \in {"baseline"}
    BY <1>0, <1>1, <1>2, HeardAnswer
  <2> QED  BY <1>0, <1>1, <1>2, <2>1, HeardAnswer
<1> HIDE DEF m
<1>4. ~polling /\ "baseline" \notin asked
  BY <1>3 DEF IInv, Baselines
<1>5. \A c \in Client : session[c].live => session[c].phase = "baseline"
  BY <1>4 DEF IInv, Polls
<1>6. ASSUME NEW c \in Client
      PROVE  /\ PageSound(c, h)'
             /\ (faults["read"] = 0 => PaidFor(session[c], post[c], down[c], up[c], faults["frame"])')
             /\ session'[c].live = session[c].live /\ session'[c].sid = session[c].sid
  <2> DEFINE s == session[c]
             t == session'[c]
  <2>1. /\ Sound(s, post[c], down[c], up[c], view[c], h) /\ (~visible[c] => s.phase = "off")
        /\ Answered(s, post[c], up[c], view[c]) /\ s \in AnySession
    BY <1>0 DEF PageSound, Sound, Types
  <2>2. t = IF s.phase = "baseline" THEN [s EXCEPT !.phase = "reading"] ELSE s
    BY <1>1
  <2>3. (s.live => s.phase = "baseline") /\ s.live \in BOOLEAN
    BY <1>5, <2>1, SessionParts
  <2> HIDE DEF s, t
  <2>4. CASE s.phase = "baseline"
    <3>1. t = [s EXCEPT !.phase = "reading"]
      BY <2>2, <2>4
    <3>2. t.live = s.live /\ t.sid = s.sid /\ t.phase = "reading"
      BY <2>1, <3>1, SessionIs
    <3>3. /\ Sound(t, post[c], down[c], up[c], view[c], h) /\ Versions(t, view[c], known')
          /\ Answered(t, post[c], up[c], view[c])
      BY <2>1, <2>4, <3>1, Begins
    <3>4. PageSound(c, h)'
      BY <1>0, <1>1, <1>3, <2>1, <2>4, <3>3, PageChanges DEF s, t
    <3>5. faults["read"] = 0 => PaidFor(session[c], post[c], down[c], up[c], faults["frame"])'
      BY <1>1, <1>3, <2>4, <3>2 DEF PaidFor, IInv, Counted, s, t
    <3> QED  BY <3>2, <3>4, <3>5 DEF s, t
  <2>5. CASE s.phase # "baseline"
    <3>1. t = s
      BY <2>2, <2>5
    <3>2. Versions(t, view[c], known')
      BY <2>3, <2>5, <3>1 DEF Versions
    <3>4. PageSound(c, h)'
      BY <1>0, <1>1, <1>3, <2>1, <3>1, <3>2, PageChanges DEF s, t
    <3>5. faults["read"] = 0 => PaidFor(session[c], post[c], down[c], up[c], faults["frame"])'
      BY <1>1, <1>3, <3>1 DEF PaidFor, IInv, Counted, s, t
    <3> QED  BY <3>1, <3>4, <3>5 DEF s, t
  <2> QED  BY <2>4, <2>5
<1>7. Scalars'
  <2>1. known' \in 0..foreign \cup {Unknown}
    BY <1>1, <1>3 DEF Past
  <2>2. DOMAIN session' = Client /\ polling' \in BOOLEAN
    BY <1>1, <1>4
  <2> QED  BY <1>1, <1>3, <2>1, <2>2 DEF IInv, Scalars
<1>8. Baselines'
  <2>1. "baseline" \notin Client
    BY FeedAssumption DEF Read
  <2>2. "baseline" \notin asked'
    BY <1>1, <1>4, <2>1
  <2> QED  BY <1>3, <2>2 DEF Baselines
<1>9. Polls'
  <2>1. known' # Unknown /\ Past(known', wire', foreign')
    BY <1>1, <1>3, FeedAssumption
  <2>2. ~polling' => \A c \in Client : ~session[c].live
    BY <1>1
  <2> QED  BY <1>6, <2>1, <2>2 DEF Polls
<1>10. Counted' /\ OneFaultHealed'
  BY <1>3, <1>6 DEF IInv, Counted, OneFaultHealed
<1> QED  BY <1>2, <1>3, <1>6, <1>7, <1>8, <1>9, <1>10 DEF IInv

\* A session that a failed read closes
Rejected(s, failed, kept) ==
    [Close(s) EXCEPT !.phase = IF failed THEN "failed" ELSE @, !.refreshing = @ /\ kept]

LEMMA RejectIs ==
    ASSUME NEW s \in AnySession, NEW failed \in BOOLEAN, NEW kept \in BOOLEAN
    PROVE  LET t == Rejected(s, failed, kept)
           IN  /\ t \in AnySession /\ t.sid = s.sid /\ ~t.live /\ t.next = s.next
               /\ t.inflight = NoFrame /\ t.queue = <<>> /\ t.handoff = s.handoff
               /\ t.refreshing => s.refreshing
               /\ t.phase = IF failed THEN "failed" ELSE s.phase
<1>1. <<>> \in Seq(AnyFrame)
  OBVIOUS
<1> DEFINE r == Close(s)
<1>2. /\ r \in AnySession /\ r.sid = s.sid /\ ~r.live /\ r.next = s.next
      /\ r.inflight = NoFrame /\ r.queue = <<>> /\ r.handoff = s.handoff
      /\ r.refreshing = s.refreshing /\ r.phase = s.phase
  BY <1>1, SessionIs DEF Close, AnySession
<1> HIDE DEF r
<1>3. r.refreshing \in BOOLEAN /\ r.phase \in Phase /\ (r.refreshing /\ kept) \in BOOLEAN
  BY <1>2, SessionParts
<1> DEFINE t == [r EXCEPT !.phase = IF failed THEN "failed" ELSE @, !.refreshing = @ /\ kept]
<1>4. /\ t.sid = r.sid /\ t.live = r.live /\ t.next = r.next /\ t.inflight = r.inflight
      /\ t.queue = r.queue /\ t.handoff = r.handoff /\ t.refreshing = (r.refreshing /\ kept)
      /\ t.phase = IF failed THEN "failed" ELSE r.phase
  BY <1>2, SessionIs
<1>5. t \in AnySession
  BY <1>2, <1>3, SessionIs DEF AnySession, Phase
<1> QED  BY <1>2, <1>4, <1>5 DEF r, Rejected

LEMMA HearErrorStep == IInv /\ HearError => IInv'
<1> SUFFICES ASSUME IInv, HearError PROVE IInv'
  OBVIOUS
<1>0. PICK h \in 0..commits : Ordered(wire, commits, foreign, h) /\ \A c \in Client : PageSound(c, h)
  BY DEF IInv
<1> DEFINE m == Head(wire)
<1>1. /\ Hears("error", Read \cup Client) /\ post' = post /\ down' = down /\ asked' = asked
      /\ session' = [c \in Client |->
              IF ~Rejects(c, m) THEN session[c]
              ELSE [Close(session[c]) EXCEPT
                       !.phase = IF m.to \in {c, "baseline"} THEN "failed" ELSE @,
                       !.refreshing = @ /\ m.to # Shared]]
  BY DEF HearError
<1>2. Lone(wire) /\ h \in Nat /\ foreign \in Nat /\ commits \in Nat /\ wire \in Seq(AnyCommit \cup AnyAnswer)
  BY <1>0, Numbers, WireParts DEF IInv, Baselines
<1>3. /\ m.kind = "error" /\ wire # <<>>
      /\ Ordered(wire', commits', foreign', h)
      /\ \A x : Past(x, wire, foreign) => Past(x, wire', foreign')
      /\ Lone(wire') /\ (Brings(wire') => Brings(wire))
      /\ commits' = commits /\ foreign' = foreign /\ ready' = ready /\ visible' = visible
      /\ up' = up /\ view' = view /\ bound' = bound /\ faults' = faults /\ visits' = visits
  BY <1>0, <1>1, <1>2, HeardAnswer
<1>4. faults["read"] # 0
  <2>1. m = wire[1] /\ 1 \in DOMAIN wire
    BY <1>2, <1>3, Tails
  <2> QED  BY <1>3, <2>1 DEF IInv, Counted
<1> HIDE DEF m
<1>5. \/ (\E c \in Client : session'[c].live) /\ known' = known /\ polling' = polling
      \/ (\A c \in Client : ~session'[c].live) /\ known' = Unknown /\ polling' = FALSE
  BY DEF HearError, StopIfIdle, poller
<1>6. ASSUME NEW c \in Client
      PROVE  PageSound(c, h)' /\ (session'[c].live => session'[c] = session[c])
  <2> DEFINE s == session[c]
             t == session'[c]
  <2>1. /\ Sound(s, post[c], down[c], up[c], view[c], h) /\ Versions(s, view[c], known)
        /\ (~visible[c] => s.phase = "off")
        /\ Answered(s, post[c], up[c], view[c]) /\ s \in AnySession
    BY <1>0 DEF PageSound, Sound, Types
  <2>2. (s.phase = "off" => ~s.live) /\ (s.refreshing => s.phase = "open")
    BY <2>1 DEF Sound, Types
  <2>3. CASE ~Rejects(c, m)
    <3>1. t = s
      BY <1>1, <2>3
    <3>2. Versions(s, view[c], known')
      BY <1>5, <2>1 DEF Versions
    <3> QED  BY <1>0, <1>1, <1>3, <2>1, <3>1, <3>2, PageChanges
  <2>4. CASE Rejects(c, m)
    <3>1. s.phase # "off"
      BY <2>2, <2>4 DEF Rejects
    <3>2. m.to \in {c, "baseline"} => s.phase \in {"baseline", "reading"}
      <4>1. c \notin Read /\ Shared # "baseline"
        BY FeedAssumption DEF Shared
      <4> QED  BY <2>4, <4>1 DEF Rejects, Read
    <3> HIDE DEF s
    <3>3. /\ t \in AnySession /\ t.sid = s.sid /\ ~t.live /\ t.next = s.next
          /\ t.inflight = NoFrame /\ t.queue = <<>> /\ t.handoff = s.handoff
          /\ t.refreshing => s.refreshing
          /\ t.phase = IF m.to \in {c, "baseline"} THEN "failed" ELSE s.phase
      <4> DEFINE failed == m.to \in {c, "baseline"}
                 kept == m.to # Shared
      <4>1. t = Rejected(s, failed, kept)
        BY <1>1, <2>4 DEF s, Rejected
      <4>2. failed \in BOOLEAN /\ kept \in BOOLEAN
        OBVIOUS
      <4> HIDE DEF failed, kept, t
      <4>3. /\ t \in AnySession /\ t.sid = s.sid /\ ~t.live /\ t.next = s.next
            /\ t.inflight = NoFrame /\ t.queue = <<>> /\ t.handoff = s.handoff
            /\ t.refreshing => s.refreshing
            /\ t.phase = IF failed THEN "failed" ELSE s.phase
        BY <2>1, <4>1, <4>2, RejectIs
      <4> QED  BY <4>3 DEF failed
    <3> HIDE DEF t
    <3>4. /\ Sound(t, post[c], down[c], up[c], view[c], h) /\ Versions(t, view[c], known')
          /\ Answered(t, post[c], up[c], view[c])
      <4>1. t.phase = s.phase \/ (s.phase \in {"baseline", "reading"} /\ t.phase = "failed")
        BY <3>2, <3>3
      <4> QED  BY <1>2, <2>1, <3>3, <4>1, Closes
    <3> QED  BY <1>0, <1>1, <1>3, <2>1, <3>1, <3>3, <3>4, PageChanges DEF s, t
  <2> QED  BY <2>3, <2>4
<1>7. Scalars'
  <2>1. DOMAIN session' = Client
    BY <1>1
  <2> QED  BY <1>1, <1>3, <1>5, <2>1 DEF IInv, Scalars
<1>8. Baselines' /\ Polls'
  <2>1. polling' => polling
    BY <1>5
  <2>2. Baselines'
    BY <1>1, <1>3, <2>1 DEF IInv, Baselines
  <2>3. CASE (\E c \in Client : session'[c].live) /\ known' = known /\ polling' = polling
    <3>1. (known # Unknown => Past(known, wire, foreign)) /\ (polling => known # Unknown)
          /\ (~polling => \A c \in Client : session[c].live => session[c].phase = "baseline")
      BY DEF IInv, Polls
    <3>2. known' # Unknown => Past(known', wire', foreign')
      BY <1>3, <2>3, <3>1
    <3>3. polling' => known' # Unknown
      BY <2>3, <3>1
    <3>4. ~polling' => \A c \in Client : session'[c].live => session'[c].phase = "baseline"
      BY <1>6, <2>3, <3>1
    <3> QED  BY <2>2, <3>2, <3>3, <3>4 DEF Polls
  <2>4. CASE (\A c \in Client : ~session'[c].live) /\ known' = Unknown /\ polling' = FALSE
    <3>1. \A c \in Client : ~session'[c].live
      BY <2>4
    <3>2. known' = Unknown /\ ~polling'
      BY <2>4
    <3> QED  BY <2>2, <3>1, <3>2 DEF Polls
  <2> QED  BY <1>5, <2>2, <2>3, <2>4
<1>9. Counted' /\ OneFaultHealed'
  BY <1>3, <1>4 DEF Counted, OneFaultHealed
<1> QED  BY <1>2, <1>3, <1>6, <1>7, <1>8, <1>9 DEF IInv

-----------------------------------------------------------------------------
(* The steps of one page and of the bridge to it *)

LEMMA ZeroPast ==
    ASSUME NEW w, NEW n, NEW f, NEW h, Ordered(w, n, f, h)
    PROVE  Past(0, w, f)
BY WireParts DEF Past

\* The other pages have no part in the step
Elsewhere(c) ==
    \A e \in Client \ {c} : /\ session'[e] = session[e] /\ post'[e] = post[e] /\ down'[e] = down[e]
                            /\ up'[e] = up[e] /\ view'[e] = view[e]
                            /\ ready'[e] = ready[e] /\ visible'[e] = visible[e]

LEMMA OthersRest ==
    ASSUME NEW c \in Client, Elsewhere(c), NEW h, NEW e \in Client \ {c}, PageSound(e, h),
           wire' = wire, foreign' = foreign, known' = known \/ known' = Unknown
    PROVE  PageSound(e, h)'
<1>1. /\ session'[e] = session[e] /\ post'[e] = post[e] /\ down'[e] = down[e]
      /\ up'[e] = up[e] /\ view'[e] = view[e] /\ visible'[e] = visible[e]
  BY DEF Elsewhere
<1>2. Versions(session[e], view[e], known)
  BY DEF PageSound
<1>3. Versions(session[e], view[e], known')
  BY <1>2 DEF Versions
<1>4. Pasts(post[e], down[e], view[e], wire', foreign')
  BY DEF PageSound
<1> QED  BY <1>1, <1>3, <1>4 DEF PageSound

\* A late or lost frame, or none
Suffers ==
    \/ faults' = faults
    \/ faults' = [faults EXCEPT !["frame"] = @ + 1]

LEMMA SuffersIs ==
    ASSUME IInv, Suffers
    PROVE  /\ faults' \in [Fault -> Nat] /\ faults'["read"] = faults["read"]
           /\ faults["frame"] \in Nat /\ faults'["frame"] \in Nat
           /\ faults'["frame"] = faults["frame"] \/ faults'["frame"] = faults["frame"] + 1
BY Numbers DEF Suffers, IInv, Scalars, Fault

LEMMA PageStep ==
    ASSUME IInv, NEW h \in 0..commits, Ordered(wire, commits, foreign, h),
           \A e \in Client : PageSound(e, h), NEW c \in Client, Elsewhere(c),
           wire' = wire, commits' = commits, foreign' = foreign, Suffers,
           known' = known \/ known' = Unknown,
           Scalars', Baselines', Polls', PageSound(c, h)',
           faults'["read"] = 0 =>
              /\ PaidFor(session'[c], post'[c], down'[c], up'[c], faults'["frame"])
              /\ faults'["frame"] <= 1 => ready'[c] \/ session'[c].sid = 0
    PROVE  IInv'
<1>0. /\ faults'["read"] = faults["read"] /\ faults["frame"] \in Nat /\ faults'["frame"] \in Nat
      /\ faults'["frame"] = faults["frame"] \/ faults'["frame"] = faults["frame"] + 1
  BY SuffersIs
<1>1. \A e \in Client : PageSound(e, h)'
  BY OthersRest
<1>2. ASSUME NEW e \in Client \ {c}, faults["read"] = 0
      PROVE  PaidFor(session'[e], post'[e], down'[e], up'[e], faults'["frame"])
  <2>1. PaidFor(session[e], post[e], down[e], up[e], faults["frame"])
    BY <1>2 DEF IInv, Counted
  <2>2. post[e] \in AnyPost \cup {NoFrame}
    BY DEF PageSound, Sound, Types
  <2>3. PaidFor(session[e], post[e], down[e], up[e], faults["frame"] + 1)
    BY <1>0, <2>1, <2>2, PaidMore
  <2> QED  BY <1>0, <2>1, <2>3 DEF Elsewhere
<1>3. Counted'
  <2> SUFFICES ASSUME faults'["read"] = 0
               PROVE  /\ \A i \in DOMAIN wire' : wire'[i].kind # "error"
                      /\ \A e \in Client : PaidFor(session'[e], post'[e], down'[e], up'[e], faults'["frame"])
    BY DEF Counted
  <2>1. \A i \in DOMAIN wire : wire[i].kind # "error"
    BY <1>0 DEF IInv, Counted
  <2> QED  BY <1>0, <1>2, <2>1
<1>4. OneFaultHealed'
  <2> SUFFICES ASSUME faults'["read"] = 0, faults'["frame"] <= 1, NEW e \in Client
               PROVE  ready'[e] \/ session'[e].sid = 0
    BY DEF OneFaultHealed
  <2>1. faults["read"] = 0 /\ faults["frame"] <= 1
    BY <1>0
  <2>2. ready[e] \/ session[e].sid = 0
    BY <2>1 DEF IInv, OneFaultHealed
  <2> QED  BY <2>2 DEF Elsewhere
<1> QED  BY <1>1, <1>3, <1>4 DEF IInv

\* The session of a page is replaced, or left
LEMMA Renewed ==
    ASSUME NEW h \in Nat, Ordered(wire, commits, foreign, h), NEW c \in Client, PageSound(c, h),
           wire' = wire, foreign' = foreign, Renews(session[c], session'[c]),
           Reloads(view[c], view'[c]), post'[c] = NoFrame, down'[c] = down[c], up'[c] = up[c],
           ~visible'[c] => session'[c].phase = "off"
    PROVE  PageSound(c, h)'
<1> DEFINE s == session[c]
           t == session'[c]
           p == post[c]
           d == down[c]
           u == up[c]
           v == view[c]
           w == view'[c]
<1>1. Sound(s, p, d, u, v, h) /\ Pasts(p, d, v, wire, foreign)
  BY DEF PageSound
<1>2. Pasts(NoFrame, d, w, wire, foreign)
  <2>1. Past(w.foreign, wire, foreign)
    BY <1>1, ZeroPast, BlankIs DEF Pasts, Reloads
  <2> QED  BY <1>1, <2>1 DEF Pasts
<1>3. Renews(s, t) /\ Reloads(v, w)
  OBVIOUS
<1> HIDE DEF s, t, p, d, u, v, w
<1>4. Sound(t, NoFrame, d, u, w, h) /\ Versions(t, w, known') /\ Answered(t, NoFrame, u, w)
  BY <1>1, <1>3, Restarts
<1> QED  BY <1>2, <1>4 DEF PageSound, s, t, d, u, w

LEMMA Outstands == Outstanding("baseline") <=> "baseline" \in asked \/ Brings(wire)
BY DEF Outstanding, Brings, IsBaseline, IsAnswer

LEMMA ConnectIs ==
    ASSUME IInv, NEW h \in Nat, Ordered(wire, commits, foreign, h), NEW c \in Client, PageSound(c, h),
           Connect(c), wire' = wire, foreign' = foreign, Reloads(view[c], view'[c]),
           up'[c] = up[c], visible'[c]
    PROVE  /\ PageSound(c, h)' /\ Baselines' /\ Polls' /\ asked' \subseteq Read \cup Client
           /\ known' = known /\ polling' = polling /\ down' = down
           /\ DOMAIN session' = Client /\ DOMAIN post' = Client
           /\ \A e \in Client \ {c} : session'[e] = session[e] /\ post'[e] = post[e]
           /\ \A n : PaidFor(session'[c], post'[c], down'[c], up'[c], n)
<1> DEFINE phase == IF polling THEN "reading" ELSE "baseline"
<1>1. /\ session' = [session EXCEPT ![c] = NewSession(@.sid + 1, phase)]
      /\ asked' = (asked \ {c}) \cup (IF polling THEN {c}
                                      ELSE IF Outstanding("baseline") THEN {} ELSE {"baseline"})
      /\ post' = [post EXCEPT ![c] = NoFrame] /\ known' = known /\ polling' = polling /\ down' = down
  BY DEF Connect, poller
<1>2. DOMAIN session = Client /\ DOMAIN post = Client /\ asked \subseteq Read \cup Client
  BY DEF IInv, Scalars
<1>3. session'[c] = NewSession(session[c].sid + 1, phase) /\ post'[c] = NoFrame
  BY <1>1, <1>2
<1>4. session[c].sid + 1 \in Nat /\ phase \in {"baseline", "reading"}
  BY SessionParts DEF PageSound, Sound, Types
<1>5. session'[c].live /\ session'[c].phase = phase
  <2>1. phase \in Phase /\ phase # "off"
    BY <1>4 DEF Phase
  <2> DEFINE n == session[c].sid + 1
             t == NewSession(n, phase)
  <2>2. n \in Nat
    BY <1>4
  <2> HIDE DEF phase, n
  <2>3. t.live = (phase # "off") /\ t.phase = phase
    BY <2>1, <2>2, NewIs
  <2> QED  BY <1>3, <2>1, <2>3 DEF n
<1>6. PageSound(c, h)'
  <2>1. Renews(session[c], session'[c])
    BY <1>3, <1>4 DEF Renews
  <2> QED  BY <1>1, <1>3, <2>1, Renewed
<1>7. \A e \in Client \ {c} : session'[e] = session[e] /\ post'[e] = post[e]
  BY <1>1, <1>2
<1>8. \A n : PaidFor(session'[c], post'[c], down'[c], up'[c], n)
  BY <1>3, <1>5 DEF PaidFor
<1>9. "baseline" # c /\ "baseline" \in Read
  BY FeedAssumption DEF Read
<1>10. Baselines' /\ asked' \subseteq Read \cup Client
  <2>1. CASE polling
    BY <1>1, <1>2, <1>9, <2>1 DEF IInv, Baselines
  <2>2. CASE ~polling /\ Outstanding("baseline")
    BY <1>1, <1>2, <1>9, <2>2 DEF IInv, Baselines
  <2>3. CASE ~polling /\ ~Outstanding("baseline")
    <3>1. ~Brings(wire)
      BY <2>3, Outstands
    <3> QED  BY <1>1, <1>2, <1>9, <2>3, <3>1 DEF IInv, Baselines
  <2> QED  BY <2>1, <2>2, <2>3
<1>11. Polls'
  BY <1>1, <1>5, <1>7 DEF IInv, Polls
<1> QED  BY <1>1, <1>2, <1>6, <1>7, <1>8, <1>10, <1>11

LEMMA PauseIs ==
    ASSUME IInv, NEW h \in Nat, Ordered(wire, commits, foreign, h), NEW c \in Client, PageSound(c, h),
           Pause(c), wire' = wire, foreign' = foreign, view'[c] = view[c], up'[c] = up[c]
    PROVE  /\ PageSound(c, h)' /\ Baselines' /\ Polls' /\ asked' \subseteq Read \cup Client
           /\ (known' = known \/ known' = Unknown) /\ polling' \in BOOLEAN /\ down' = down
           /\ DOMAIN session' = Client /\ DOMAIN post' = Client
           /\ session'[c].sid = session[c].sid
           /\ \A e \in Client \ {c} : session'[e] = session[e] /\ post'[e] = post[e]
           /\ \A n : PaidFor(session'[c], post'[c], down'[c], up'[c], n)
<1>1. /\ session' = [session EXCEPT ![c] = NewSession(@.sid, "off")] /\ asked' = asked \ {c}
      /\ post' = [post EXCEPT ![c] = NoFrame] /\ down' = down
      /\ \/ (\E e \in Client : session'[e].live) /\ known' = known /\ polling' = polling
         \/ (\A e \in Client : ~session'[e].live) /\ known' = Unknown /\ polling' = FALSE
  BY DEF Pause, StopIfIdle, poller
<1>2. /\ DOMAIN session = Client /\ DOMAIN post = Client /\ asked \subseteq Read \cup Client
      /\ polling \in BOOLEAN
  BY DEF IInv, Scalars
<1>3. session'[c] = NewSession(session[c].sid, "off") /\ post'[c] = NoFrame
  BY <1>1, <1>2
<1>4. ~session'[c].live /\ session'[c].phase = "off" /\ session'[c].sid = session[c].sid
  <2>1. session[c].sid \in Nat /\ "off" \in Phase
    BY SessionParts DEF PageSound, Sound, Types, Phase
  <2> DEFINE n == session[c].sid
             t == NewSession(n, "off")
  <2> HIDE DEF n
  <2>2. t.live = ("off" # "off") /\ t.phase = "off" /\ t.sid = n
    BY <2>1, NewIs DEF n
  <2> QED  BY <1>3, <2>2 DEF n
<1>5. PageSound(c, h)'
  <2>1. Renews(session[c], session'[c]) /\ Reloads(view[c], view'[c])
    BY <1>3 DEF Renews, Reloads
  <2> QED  BY <1>1, <1>3, <1>4, <2>1, Renewed
<1>6. \A e \in Client \ {c} : session'[e] = session[e] /\ post'[e] = post[e]
  BY <1>1, <1>2
<1>7. \A n : PaidFor(session'[c], post'[c], down'[c], up'[c], n)
  BY <1>3, <1>4 DEF PaidFor
<1>8. Baselines'
  BY <1>1 DEF IInv, Baselines
<1>9. Polls'
  <2>1. CASE (\E e \in Client : session'[e].live) /\ known' = known /\ polling' = polling
    <3>1. (known # Unknown => Past(known, wire, foreign)) /\ (polling => known # Unknown)
          /\ (~polling => \A e \in Client : session[e].live => session[e].phase = "baseline")
      BY DEF IInv, Polls
    <3>2. ~polling' => \A e \in Client : session'[e].live => session'[e].phase = "baseline"
      BY <1>4, <1>6, <2>1, <3>1
    <3>3. (known' # Unknown => Past(known', wire', foreign')) /\ (polling' => known' # Unknown)
      BY <2>1, <3>1
    <3> QED  BY <3>2, <3>3 DEF Polls
  <2>2. CASE (\A e \in Client : ~session'[e].live) /\ known' = Unknown /\ polling' = FALSE
    <3>1. (\A e \in Client : ~session'[e].live) /\ known' = Unknown /\ ~polling'
      BY <2>2
    <3> QED  BY <3>1 DEF Polls
  <2> QED  BY <1>1, <2>1, <2>2
<1> QED  BY <1>1, <1>2, <1>4, <1>5, <1>6, <1>7, <1>8, <1>9

LEMMA Visiting ==
    ASSUME IInv, NEW c \in Client, Visits(c)
    PROVE  /\ visits' \in [Client -> Nat] /\ bound' = bound /\ faults' = faults
BY DEF Visits, IInv, Scalars

LEMMA ReadyStep == ASSUME IInv, NEW c \in Client, Ready(c) PROVE IInv'
<1>0. PICK h \in 0..commits : Ordered(wire, commits, foreign, h) /\ \A e \in Client : PageSound(e, h)
  BY DEF IInv
<1>1. /\ ready' = [ready EXCEPT ![c] = TRUE] /\ view' \in {view, [view EXCEPT ![c] = Blank]}
      /\ commits' = commits /\ foreign' = foreign /\ wire' = wire /\ visible' = visible /\ up' = up
      /\ visits' \in [Client -> Nat] /\ bound' = bound /\ faults' = faults
  BY Visiting DEF Ready, database
<1>2. /\ DOMAIN session = Client /\ DOMAIN post = Client /\ DOMAIN down = Client
      /\ DOMAIN up = Client /\ DOMAIN view = Client
      /\ ready \in [Client -> BOOLEAN] /\ visible \in [Client -> BOOLEAN]
  BY DEF IInv, Scalars
<1>3. /\ Reloads(view[c], view'[c]) /\ DOMAIN view' = Client /\ up'[c] = up[c]
      /\ ready' \in [Client -> BOOLEAN] /\ ready'[c]
      /\ \A e \in Client \ {c} : view'[e] = view[e] /\ ready'[e] = ready[e]
  BY <1>1, <1>2 DEF Reloads
<1>4. h \in Nat /\ Suffers /\ commits \in Nat
  BY <1>0, <1>1, Numbers DEF Suffers
<1>5. CASE visible[c]
  <2>1. Connect(c)
    BY <1>5 DEF Ready
  <2>2. /\ PageSound(c, h)' /\ Baselines' /\ Polls' /\ asked' \subseteq Read \cup Client
        /\ known' = known /\ polling' = polling /\ down' = down
        /\ DOMAIN session' = Client /\ DOMAIN post' = Client
        /\ \A e \in Client \ {c} : session'[e] = session[e] /\ post'[e] = post[e]
        /\ \A n : PaidFor(session'[c], post'[c], down'[c], up'[c], n)
    BY <1>0, <1>1, <1>3, <1>4, <1>5, <2>1, ConnectIs
  <2>3. Elsewhere(c)
    BY <1>1, <1>3, <2>2 DEF Elsewhere
  <2>4. Scalars'
    BY <1>1, <1>2, <1>3, <2>2 DEF IInv, Scalars
  <2> QED  BY <1>0, <1>1, <1>3, <1>4, <2>2, <2>3, <2>4, PageStep
<1>6. CASE ~visible[c]
  <2>1. /\ asked' = asked /\ known' = known /\ polling' = polling
        /\ session' = session /\ post' = post /\ down' = down
    BY <1>6 DEF Ready, poller
  <2>2. session[c].phase = "off"
    BY <1>0, <1>6 DEF PageSound
  <2>3. PageSound(c, h)'
    <3>1. Sound(session[c], post[c], down[c], up[c], view[c], h)
      BY <1>0 DEF PageSound
    <3>2. /\ Sound(session[c], post[c], down[c], up[c], view'[c], h)
          /\ Versions(session[c], view'[c], known) /\ Answered(session[c], post[c], up[c], view'[c])
      BY <1>3, <1>4, <2>2, <3>1, Unfollowed
    <3>3. Pasts(post[c], down[c], view'[c], wire, foreign)
      <4>1. Pasts(post[c], down[c], view[c], wire, foreign)
        BY <1>0 DEF PageSound
      <4>2. Past(view'[c].foreign, wire, foreign)
        BY <1>0, <1>3, <4>1, ZeroPast, BlankIs DEF Pasts, Reloads
      <4> QED  BY <4>1, <4>2 DEF Pasts
    <3> QED  BY <1>1, <2>1, <2>2, <3>2, <3>3 DEF PageSound
  <2>4. Elsewhere(c)
    BY <1>1, <1>3, <2>1 DEF Elsewhere
  <2>5. Scalars' /\ Baselines' /\ Polls'
    BY <1>1, <1>2, <1>3, <2>1 DEF IInv, Scalars, Baselines, Polls
  <2>6. faults'["read"] = 0 => PaidFor(session'[c], post'[c], down'[c], up'[c], faults'["frame"])
    BY <1>1, <2>1 DEF IInv, Counted
  <2> QED  BY <1>0, <1>1, <1>3, <1>4, <2>1, <2>3, <2>4, <2>5, <2>6, PageStep
<1> QED  BY <1>2, <1>5, <1>6

LEMMA HideStep == ASSUME IInv, NEW c \in Client, Hide(c) PROVE IInv'
<1>0. PICK h \in 0..commits : Ordered(wire, commits, foreign, h) /\ \A e \in Client : PageSound(e, h)
  BY DEF IInv
<1>1. /\ visible' = [visible EXCEPT ![c] = FALSE] /\ Pause(c)
      /\ commits' = commits /\ foreign' = foreign /\ wire' = wire /\ ready' = ready /\ up' = up
      /\ view' = view /\ visits' \in [Client -> Nat] /\ bound' = bound /\ faults' = faults
  BY Visiting DEF Hide, database
<1>2. /\ DOMAIN down = Client /\ DOMAIN up = Client /\ DOMAIN view = Client
      /\ ready \in [Client -> BOOLEAN] /\ visible \in [Client -> BOOLEAN]
  BY DEF IInv, Scalars
<1>3. h \in Nat /\ Suffers /\ commits \in Nat
  BY <1>0, <1>1, Numbers DEF Suffers
<1>4. /\ PageSound(c, h)' /\ Baselines' /\ Polls' /\ asked' \subseteq Read \cup Client
      /\ (known' = known \/ known' = Unknown) /\ polling' \in BOOLEAN /\ down' = down
      /\ DOMAIN session' = Client /\ DOMAIN post' = Client
      /\ session'[c].sid = session[c].sid
      /\ \A e \in Client \ {c} : session'[e] = session[e] /\ post'[e] = post[e]
      /\ \A n : PaidFor(session'[c], post'[c], down'[c], up'[c], n)
  BY <1>0, <1>1, <1>3, PauseIs
<1>5. Elsewhere(c)
  BY <1>1, <1>2, <1>4 DEF Elsewhere
<1>6. Scalars'
  BY <1>1, <1>2, <1>4 DEF IInv, Scalars
<1>7. faults'["read"] = 0 /\ faults'["frame"] <= 1 => ready'[c] \/ session'[c].sid = 0
  BY <1>1, <1>4 DEF IInv, OneFaultHealed
<1> QED  BY <1>0, <1>1, <1>3, <1>4, <1>5, <1>6, <1>7, PageStep

LEMMA ConnectStep ==
    ASSUME IInv, NEW c \in Client, Connect(c), ready[c], visible'[c], visible' \in [Client -> BOOLEAN],
           \A e \in Client \ {c} : visible'[e] = visible[e],
           UNCHANGED <<database, wire, ready, up, view, limits>>
    PROVE  IInv'
<1>0. PICK h \in 0..commits : Ordered(wire, commits, foreign, h) /\ \A e \in Client : PageSound(e, h)
  BY DEF IInv
<1>1. /\ commits' = commits /\ foreign' = foreign /\ wire' = wire /\ ready' = ready /\ up' = up
      /\ view' = view /\ bound' = bound /\ faults' = faults /\ visits' = visits
  BY DEF database, limits
<1>2. h \in Nat /\ Suffers /\ commits \in Nat /\ Reloads(view[c], view'[c])
  BY <1>0, <1>1, Numbers DEF Suffers, Reloads
<1>3. /\ PageSound(c, h)' /\ Baselines' /\ Polls' /\ asked' \subseteq Read \cup Client
      /\ known' = known /\ polling' = polling /\ down' = down
      /\ DOMAIN session' = Client /\ DOMAIN post' = Client
      /\ \A e \in Client \ {c} : session'[e] = session[e] /\ post'[e] = post[e]
      /\ \A n : PaidFor(session'[c], post'[c], down'[c], up'[c], n)
  BY <1>0, <1>1, <1>2, ConnectIs
<1>4. Elsewhere(c)
  BY <1>1, <1>3 DEF Elsewhere
<1>5. Scalars'
  BY <1>1, <1>3 DEF IInv, Scalars
<1> QED  BY <1>0, <1>1, <1>2, <1>3, <1>4, <1>5, PageStep

LEMMA RevealStep == ASSUME IInv, NEW c \in Client, Reveal(c) PROVE IInv'
<1>1. /\ visible' = [visible EXCEPT ![c] = TRUE]
      /\ UNCHANGED <<database, wire, ready, up, view, limits>> /\ visible \in [Client -> BOOLEAN]
      /\ ready \in [Client -> BOOLEAN]
  BY DEF Reveal, IInv, Scalars
<1>2. /\ visible'[c] /\ visible' \in [Client -> BOOLEAN]
      /\ \A e \in Client \ {c} : visible'[e] = visible[e]
  BY <1>1
<1>3. CASE ready[c]
  BY <1>1, <1>2, <1>3, ConnectStep DEF Reveal
<1>4. CASE ~ready[c]
  <2>0. PICK h \in 0..commits : Ordered(wire, commits, foreign, h) /\ \A e \in Client : PageSound(e, h)
    BY DEF IInv
  <2>1. /\ asked' = asked /\ known' = known /\ polling' = polling
        /\ session' = session /\ post' = post /\ down' = down
        /\ commits' = commits /\ foreign' = foreign /\ wire' = wire /\ ready' = ready /\ up' = up
        /\ view' = view /\ bound' = bound /\ faults' = faults /\ visits' = visits
    BY <1>4 DEF Reveal, poller, database, limits
  <2>2. PageSound(c, h)'
    BY <1>2, <2>0, <2>1 DEF PageSound
  <2>3. Elsewhere(c) /\ Suffers
    BY <1>2, <2>1 DEF Elsewhere, Suffers
  <2>4. Scalars' /\ Baselines' /\ Polls'
    BY <1>2, <2>1 DEF IInv, Scalars, Baselines, Polls
  <2>5. faults'["read"] = 0 => /\ PaidFor(session'[c], post'[c], down'[c], up'[c], faults'["frame"])
                               /\ faults'["frame"] <= 1 => ready'[c] \/ session'[c].sid = 0
    BY <2>1 DEF IInv, Counted, OneFaultHealed
  <2> QED  BY <2>0, <2>1, <2>2, <2>3, <2>4, <2>5, PageStep
<1> QED  BY <1>1, <1>3, <1>4

LEMMA RecoverStep == ASSUME IInv, NEW c \in Client, Recover(c) PROVE IInv'
<1>1. /\ Connect(c) /\ ready[c] /\ visible[c] /\ visible' = visible
      /\ UNCHANGED <<database, wire, ready, up, view, limits>> /\ visible \in [Client -> BOOLEAN]
  BY DEF Recover, bridge, IInv, Scalars
<1> QED  BY <1>1, ConnectStep

\* The frame once more, or the page is given up
LEMMA ResendStep ==
    ASSUME IInv, NEW c \in Client, Resend(c), bound' = bound, visits' = visits, Suffers,
           faults' = faults => Missing(c)
    PROVE  IInv'
<1>0. PICK h \in 0..commits : Ordered(wire, commits, foreign, h) /\ \A e \in Client : PageSound(e, h)
  BY DEF IInv
<1> DEFINE s == session[c]
           p == post[c]
           d == down[c]
           u == up[c]
           v == view[c]
           n == faults["frame"]
           m == faults'["frame"]
<1>1. /\ commits' = commits /\ foreign' = foreign /\ wire' = wire /\ visible' = visible
      /\ up' = up /\ view' = view /\ p # NoFrame
  BY DEF Resend, database
<1>2. /\ DOMAIN session = Client /\ DOMAIN post = Client /\ DOMAIN down = Client
      /\ DOMAIN up = Client /\ DOMAIN view = Client
      /\ ready \in [Client -> BOOLEAN] /\ visible \in [Client -> BOOLEAN]
  BY DEF IInv, Scalars
<1>3. /\ faults' \in [Fault -> Nat] /\ faults'["read"] = faults["read"] /\ n \in Nat /\ m \in Nat
      /\ m = n \/ m = n + 1
      /\ m = n => faults' = faults
  <2>1. DOMAIN faults = Fault
    BY Numbers
  <2>2. /\ faults' \in [Fault -> Nat] /\ faults'["read"] = faults["read"] /\ n \in Nat /\ m \in Nat
        /\ m = n \/ m = n + 1
    BY SuffersIs
  <2>3. faults' = [faults EXCEPT !["frame"] = @ + 1] => m = n + 1
    BY <2>1 DEF Fault
  <2>4. n + 1 # n
    BY <2>2
  <2> QED  BY <2>2, <2>3, <2>4 DEF Suffers
<1>4. h \in Nat /\ commits \in Nat
  BY <1>0, Numbers
<1>5. /\ Sound(s, p, d, u, v, h) /\ Versions(s, v, known) /\ Answered(s, p, u, v)
      /\ Pasts(p, d, v, wire, foreign) /\ (~visible[c] => s.phase = "off")
  BY <1>0 DEF PageSound
<1>6. /\ p \in AnyPost /\ p.frame \in AnyFrame /\ p.resent \in Nat /\ p.resent <= MaxResends
      /\ d \in Seq(AnyFrame) /\ MaxResends \in Nat \ {0}
  <2>1. p \in AnyPost /\ d \in Seq(AnyFrame) /\ MaxResends \in Nat \ {0}
    BY <1>1, <1>5, FeedAssumption DEF Sound, Types
  <2> QED  BY <2>1 DEF AnyPost
\* Each resend has been paid for, this one too
<1>7. ASSUME faults["read"] = 0 PROVE PaidFor(s, p, d, u, n) /\ p.resent + 1 <= m
  <2>1. PaidFor(s, p, d, u, n)
    BY <1>7 DEF IInv, Counted
  <2>2. faults' = faults => Absent(p, d, u)
    BY DEF Missing, Absent, Answering
  <2>3. p.resent <= n /\ (Absent(p, d, u) => p.resent + 1 <= n)
    BY <1>1, <2>1 DEF PaidFor
  <2> HIDE DEF s, p, d, u, n, m
  <2> QED  BY <1>3, <1>6, <2>1, <2>2, <2>3
<1>8. CASE p.resent < MaxResends
  <2> DEFINE q == post'[c]
  <2>1. /\ post' = [post EXCEPT ![c].resent = @ + 1]
        /\ down' = [down EXCEPT ![c] = Append(@, post[c].frame)]
        /\ ready' = ready /\ asked' = asked /\ session' = session /\ known' = known
        /\ polling' = polling
    BY <1>8 DEF Resend, poller
  <2>2. /\ q.frame = p.frame /\ q.resent = p.resent + 1 /\ q \in AnyPost
        /\ down'[c] = Append(d, p.frame)
    <3>1. q = [p EXCEPT !.resent = @ + 1]
      BY <1>2, <2>1
    <3>2. p.resent + 1 \in 0..MaxResends
      BY <1>6, <1>8
    <3> QED  BY <1>2, <1>6, <2>1, <3>1, <3>2 DEF AnyPost
  <2>3. DOMAIN post' = Client /\ DOMAIN down' = Client
        /\ \A e \in Client \ {c} : post'[e] = post[e] /\ down'[e] = down[e]
    BY <1>2, <2>1
  <2> HIDE DEF s, p, d, u, v, n, m, q
  <2>4. Sound(s, q, Append(d, p.frame), u, v, h) /\ Answered(s, q, u, v)
    BY <1>1, <1>5, <2>2, Repeats
  <2>5. Pasts(q, Append(d, p.frame), v, wire, foreign)
    <3> DEFINE e == Append(d, p.frame)
    <3>1. /\ \A i \in DOMAIN d : e[i] = d[i]
          /\ e[Len(d) + 1] = p.frame
          /\ \A i \in DOMAIN e : i \in DOMAIN d \/ i = Len(d) + 1
      BY <1>6, Appends
    <3> HIDE DEF e
    <3>2. \A i \in DOMAIN e : Past(e[i].foreign, wire, foreign)
      BY <1>1, <1>5, <3>1 DEF Pasts
    <3> QED  BY <1>1, <1>5, <2>2, <3>2 DEF Pasts, e
  <2>6. PageSound(c, h)'
    BY <1>1, <1>5, <2>1, <2>2, <2>4, <2>5 DEF PageSound, s, u, v, q
  <2>7. Elsewhere(c)
    BY <1>1, <2>1, <2>3 DEF Elsewhere
  <2>8. Scalars' /\ Baselines' /\ Polls'
    BY <1>1, <1>3, <2>1, <2>3 DEF IInv, Scalars, Baselines, Polls
  <2>9. faults'["read"] = 0 =>
            /\ PaidFor(session'[c], post'[c], down'[c], up'[c], faults'["frame"])
            /\ faults'["frame"] <= 1 => ready'[c] \/ session'[c].sid = 0
    <3> SUFFICES ASSUME faults["read"] = 0
                 PROVE  PaidFor(s, q, Append(d, p.frame), u, m) /\ (m <= 1 => ready[c] \/ s.sid = 0)
      BY <1>1, <1>3, <2>1, <2>2 DEF s, u, q, m
    <3>1. PaidFor(s, p, d, u, n) /\ p.resent + 1 <= m /\ n <= m
      BY <1>3, <1>7
    <3>2. PaidFor(s, q, Append(d, p.frame), u, m)
      BY <1>3, <1>6, <2>2, <3>1, PaidRepeat
    <3>3. m <= 1 => n <= 1
      BY <1>3
    <3> QED  BY <3>2, <3>3 DEF IInv, OneFaultHealed, s, n
  <2> QED  BY <1>0, <1>1, <2>1, <2>6, <2>7, <2>8, <2>9, PageStep
<1>9. CASE ~(p.resent < MaxResends)
  <2>1. Pause(c) /\ ready' = [ready EXCEPT ![c] = FALSE]
    BY <1>9 DEF Resend
  <2>2. /\ PageSound(c, h)' /\ Baselines' /\ Polls' /\ asked' \subseteq Read \cup Client
        /\ (known' = known \/ known' = Unknown) /\ polling' \in BOOLEAN /\ down' = down
        /\ DOMAIN session' = Client /\ DOMAIN post' = Client
        /\ session'[c].sid = session[c].sid
        /\ \A e \in Client \ {c} : session'[e] = session[e] /\ post'[e] = post[e]
        /\ \A k : PaidFor(session'[c], post'[c], down'[c], up'[c], k)
    BY <1>0, <1>1, <1>4, <2>1, PauseIs
  <2>3. Elsewhere(c)
    BY <1>1, <1>2, <2>1, <2>2 DEF Elsewhere
  <2>4. Scalars'
    BY <1>1, <1>2, <1>3, <2>1, <2>2 DEF IInv, Scalars
  <2>5. faults'["read"] = 0 => ~(faults'["frame"] <= 1)
    <3> HIDE DEF p, n
    <3> QED  BY <1>3, <1>6, <1>7, <1>9
  <2> QED  BY <1>0, <1>1, <2>2, <2>3, <2>4, <2>5, PageStep
<1> QED  BY <1>8, <1>9

LEMMA TimeOutStep == ASSUME IInv, NEW c \in Client, TimeOut(c) PROVE IInv'
<1>1. Resend(c) /\ Missing(c) /\ bound' = bound /\ visits' = visits /\ faults' = faults
  BY DEF TimeOut, limits
<1> QED  BY <1>1, ResendStep DEF Suffers

LEMMA TooEarlyStep == ASSUME IInv, NEW c \in Client, TooEarly(c) PROVE IInv'
<1>1. /\ Resend(c) /\ bound' = bound /\ visits' = visits
      /\ faults' = [faults EXCEPT !["frame"] = @ + 1]
  BY DEF TooEarly, Fails
<1>2. faults' # faults
  <2>1. DOMAIN faults = Fault /\ faults["frame"] \in Nat
    BY Numbers
  <2>2. faults'["frame"] = faults["frame"] + 1
    BY <1>1, <2>1 DEF Fault
  <2> QED  BY <2>1, <2>2
<1> QED  BY <1>1, <1>2, ResendStep DEF Suffers

\* The bridge waits for the frame in flight of a session that lives
LEMMA AnswersAcks ==
    ASSUME NEW s, NEW p, NEW d, NEW u, NEW v, NEW h,
           Sound(s, p, d, u, v, h), Answered(s, p, u, v), u # <<>>,
           s.live, p # NoFrame, Answering(Head(u), p)
    PROVE  Freed(s, p, Head(u)) = NoFrame
<1>0. Types(s, p, d, u, v) /\ Waits(s, p)
  BY SoundParts
<1>1. u \in Seq(AnyControl) /\ Head(u) = u[1] /\ 1 \in DOMAIN u
  <2>1. u \in Seq(AnyControl)
    BY <1>0 DEF Types
  <2> QED  BY <2>1, Tails
<1>2. Head(u).kind = "ack"
  <2>1. PICK j \in 1..1 : Answering(u[j], p) /\ u[j].kind = "ack"
    BY <1>1 DEF Answered
  <2>2. j = 1
    BY <2>1
  <2> QED  BY <1>1, <2>1, <2>2
<1> QED  BY <1>0, <1>2 DEF Waits, Types, Answering, Freed, HearsPage, Acking

LEMMA HandleControlStep == ASSUME IInv, NEW c \in Client, HandleControl(c) PROVE IInv'
<1>0. PICK h \in 0..commits : Ordered(wire, commits, foreign, h) /\ \A e \in Client : PageSound(e, h)
  BY DEF IInv
<1> DEFINE s == session[c]
           p == post[c]
           d == down[c]
           u == up[c]
           v == view[c]
           n == faults["frame"]
           t == session'[c]
           w == Freed(s, p, Head(u))
           waiting == IF s.phase = "open" /\ s.sid = Head(u).sid /\ Acks(c, Head(u)) /\ Answers(c, Head(u))
                      THEN [post EXCEPT ![c] = NoFrame] ELSE post
<1>1. /\ commits' = commits /\ foreign' = foreign /\ wire' = wire /\ visible' = visible
      /\ ready' = ready /\ view' = view /\ known' = known /\ polling' = polling
      /\ bound' = bound /\ faults' = faults /\ visits' = visits /\ u # <<>>
      /\ up' = [up EXCEPT ![c] = Tail(@)] /\ asked' = asked \cup Reads
  BY DEF HandleControl, database, poller, bridge, limits
<1>2. /\ DOMAIN session = Client /\ DOMAIN post = Client /\ DOMAIN down = Client
      /\ DOMAIN up = Client /\ DOMAIN view = Client /\ asked \subseteq Read \cup Client
      /\ polling \in BOOLEAN
  BY DEF IInv, Scalars
<1>3. session' = [session EXCEPT ![c] = Said(s, Head(u))]
  BY DEF HandleControl, Said, HearsPage, Acking, Acks
<1>4. Post(waiting)
  BY DEF HandleControl
<1>5. /\ waiting[c] = w /\ \A e \in Client \ {c} : waiting[e] = post[e] /\ session'[e] = session[e]
      /\ t = Said(s, Head(u)) /\ DOMAIN session' = Client /\ w \in {p, NoFrame}
  BY <1>2, <1>3 DEF Freed, HearsPage, Acking, Acks, Answers, Answering
<1>6. \A e \in Client : /\ post'[e] = PostTo(session[e], session'[e], waiting[e])
                        /\ down'[e] = DownTo(session[e], session'[e], down[e])
  BY <1>4, PostIs
<1>7. \A e \in Client \ {c} : post'[e] = post[e] /\ down'[e] = down[e] /\ up'[e] = up[e]
  BY <1>1, <1>2, <1>5, <1>6 DEF PostTo, DownTo, Goes
<1>8. Elsewhere(c)
  BY <1>1, <1>5, <1>7 DEF Elsewhere
<1>9. up'[c] = Tail(u) /\ DOMAIN up' = Client /\ h \in Nat /\ commits \in Nat /\ n \in Nat
  BY <1>0, <1>1, <1>2, Numbers
<1>10. /\ Sound(s, p, d, u, v, h) /\ Versions(s, v, known) /\ Answered(s, p, u, v)
       /\ (~visible[c] => s.phase = "off")
  BY <1>0 DEF PageSound
<1> HIDE DEF s, p, d, u, v, n, t, w, waiting
<1>11. /\ Sound(t, PostTo(s, t, w), DownTo(s, t, d), Tail(u), v, h) /\ Versions(t, v, known)
       /\ Answered(t, PostTo(s, t, w), Tail(u), v)
       /\ Goes(s, t) => t.inflight.foreign = 0
       /\ Kept(s, t)
  BY <1>1, <1>5, <1>9, <1>10, ControlSound DEF w
<1>12. PageSound(c, h)'
  <2>1. Goes(s, t) => Past(t.inflight.foreign, wire', foreign')
    BY <1>0, <1>1, <1>11, ZeroPast
  <2>2. ~visible[c] => t.phase = "off"
    BY <1>10, <1>11 DEF Kept
  <2>3. /\ Sound(t, post'[c], down'[c], up'[c], v, h) /\ Versions(t, v, known')
        /\ Answered(t, post'[c], up'[c], v)
    BY <1>1, <1>5, <1>6, <1>9, <1>11 DEF s, t, d
  <2>4. waiting[c] \in {post[c], NoFrame}
    BY <1>5 DEF p
  <2> QED  BY <1>0, <1>1, <1>4, <2>1, <2>2, <2>3, <2>4, PagePosts DEF s, t, v
<1>13. Scalars'
  <2>1. Reads \subseteq {Shared}
    BY DEF Reads
  <2>2. DOMAIN post' = Client /\ DOMAIN down' = Client
    BY <1>4 DEF Post
  <2> QED  BY <1>1, <1>5, <1>9, <2>1, <2>2 DEF IInv, Scalars, Read
<1>14. Baselines' /\ Polls'
  <2>1. "baseline" \in asked' => "baseline" \in asked
    BY <1>1 DEF Reads, Shared
  <2>2. Baselines'
    BY <1>1, <2>1 DEF IInv, Baselines
  <2>3. t.live = s.live /\ t.phase = s.phase
    BY <1>11 DEF Kept
  <2>4. Polls'
    BY <1>1, <1>5, <2>3 DEF IInv, Polls, s, t
  <2> QED  BY <2>2, <2>4
<1>15. faults'["read"] = 0 =>
           /\ PaidFor(session'[c], post'[c], down'[c], up'[c], faults'["frame"])
           /\ faults'["frame"] <= 1 => ready'[c] \/ session'[c].sid = 0
  <2> SUFFICES ASSUME faults["read"] = 0
               PROVE  PaidFor(t, PostTo(s, t, w), DownTo(s, t, d), Tail(u), n)
                      /\ (n <= 1 => ready[c] \/ s.sid = 0)
    BY <1>1, <1>5, <1>6, <1>9, <1>11 DEF s, t, d, n, Kept
  <2>1. PaidFor(s, p, d, u, n)
    BY DEF IInv, Counted, s, p, d, u, n
  <2>2. d \in Seq(AnyFrame) /\ u \in Seq(AnyControl) /\ t \in AnySession
        /\ (p # NoFrame => s.phase = "open")
    BY <1>10, <1>11 DEF Sound, Types
  <2>3. p # NoFrame => s.live
    BY <2>1, <2>2 DEF PaidFor
  <2>4. PaidFor(s, w, d, Tail(u), n)
    <3>1. CASE w = NoFrame
      BY <2>1, <3>1 DEF PaidFor
    <3>2. CASE w # NoFrame
      <4>1. w = p /\ p # NoFrame
        BY <1>5, <3>2
      <4>2. ~Answering(Head(u), p)
        BY <1>1, <1>10, <2>3, <3>2, <4>1, AnswersAcks DEF w
      <4> QED  BY <1>1, <2>1, <2>2, <4>1, <4>2, PaidListen
    <3> QED  BY <3>1, <3>2
  <2>5. t.phase # "off" => t.live
    BY <1>11, <2>1 DEF Kept, PaidFor
  <2>6. Goes(s, t) => t.inflight \in AnyFrame
    BY <2>2, SessionParts DEF Goes
  <2>7. PaidFor(t, PostTo(s, t, w), DownTo(s, t, d), Tail(u), n)
    BY <1>9, <2>2, <2>4, <2>5, <2>6, PaidPost
  <2> QED  BY <2>7 DEF IInv, OneFaultHealed, s, n
<1>16. Suffers
  BY <1>1 DEF Suffers
<1> QED  BY <1>0, <1>1, <1>8, <1>12, <1>13, <1>14, <1>15, <1>16, PageStep

LEMMA LoseStep == ASSUME IInv, NEW c \in Client, Lose(c) PROVE IInv'
<1>0. PICK h \in 0..commits : Ordered(wire, commits, foreign, h) /\ \A e \in Client : PageSound(e, h)
  BY DEF IInv
<1> DEFINE s == session[c]
           p == post[c]
           d == down[c]
           u == up[c]
           v == view[c]
           n == faults["frame"]
<1>1. /\ commits' = commits /\ foreign' = foreign /\ wire' = wire /\ visible' = visible
      /\ ready' = ready /\ view' = view /\ known' = known /\ polling' = polling
      /\ session' = session /\ post' = post /\ up' = up /\ asked' = asked /\ d # <<>>
      /\ down' = [down EXCEPT ![c] = Tail(@)] /\ Fails("frame")
  BY DEF Lose, database, poller, bridge
<1>2. /\ faults' \in [Fault -> Nat] /\ bound' = bound /\ visits' = visits
      /\ faults'["read"] = faults["read"] /\ faults'["frame"] = n + 1 /\ n \in Nat /\ Suffers
  BY <1>1, Failing, Numbers DEF Fault, Suffers, Fails
<1>3. DOMAIN down = Client
  BY DEF IInv, Scalars
<1>4. /\ Sound(s, p, d, u, v, h) /\ Versions(s, v, known) /\ Answered(s, p, u, v)
      /\ Pasts(p, d, v, wire, foreign) /\ (~visible[c] => s.phase = "off")
  BY <1>0 DEF PageSound
<1>5. down'[c] = Tail(d) /\ DOMAIN down' = Client /\ \A e \in Client \ {c} : down'[e] = down[e]
  BY <1>1, <1>3
<1>6. d \in Seq(AnyFrame) /\ p \in AnyPost \cup {NoFrame}
  BY <1>4 DEF Sound, Types
<1> HIDE DEF s, p, d, u, v, n
<1>7. Sound(s, p, Tail(d), u, v, h)
  BY <1>1, <1>4, Drops
<1>8. Pasts(p, Tail(d), v, wire, foreign)
  <2>1. \A i \in DOMAIN Tail(d) : Tail(d)[i] = d[i + 1] /\ i + 1 \in DOMAIN d
    BY <1>1, <1>6, Tails
  <2> QED  BY <1>4, <2>1 DEF Pasts
<1>9. PageSound(c, h)'
  BY <1>1, <1>4, <1>5, <1>7, <1>8 DEF PageSound, s, p, u, v
<1>10. Elsewhere(c)
  BY <1>1, <1>5 DEF Elsewhere
<1>11. Scalars' /\ Baselines' /\ Polls'
  BY <1>1, <1>2, <1>5 DEF IInv, Scalars, Baselines, Polls
<1>12. faults'["read"] = 0 =>
           /\ PaidFor(session'[c], post'[c], down'[c], up'[c], faults'["frame"])
           /\ faults'["frame"] <= 1 => ready'[c] \/ session'[c].sid = 0
  <2> SUFFICES ASSUME faults["read"] = 0
               PROVE  PaidFor(s, p, Tail(d), u, n + 1) /\ (n + 1 <= 1 => ready[c] \/ s.sid = 0)
    BY <1>1, <1>2, <1>5 DEF s, p, u
  <2>1. PaidFor(s, p, d, u, n)
    BY DEF IInv, Counted, s, p, d, u, n
  <2>2. PaidFor(s, p, Tail(d), u, n + 1)
    BY <1>2, <1>6, <2>1, PaidMore
  <2>3. n + 1 <= 1 => n <= 1
    BY <1>2
  <2> QED  BY <2>2, <2>3 DEF IInv, OneFaultHealed, s, n
<1> QED  BY <1>0, <1>1, <1>2, <1>9, <1>10, <1>11, <1>12, PageStep

\* The awaited frame is never one that its page puts aside
LEMMA AwaitedShown ==
    ASSUME NEW s, NEW p, NEW d, NEW u, NEW v, NEW h, Sound(s, p, d, u, v, h), s.live, p # NoFrame
    PROVE  ~Retired(v, p.frame)
<1>0. Types(s, p, d, u, v) /\ Waits(s, p) /\ Sids(s, p, d, u, v) /\ Chain(s, v, h)
  BY SoundParts
<1>1. /\ s.inflight # NoFrame /\ p.frame = s.inflight /\ p.frame.sid = s.sid /\ v.sid <= s.sid
      /\ p.frame.kind = "changes" => v.sid = s.sid
  BY <1>0 DEF Waits, Sids, Chain
<1>2. s.sid \in Nat /\ v.sid \in Nat
  BY <1>0, Elements, SessionParts
<1> QED  BY <1>1, <1>2 DEF Retired

LEMMA ReceiveStep == ASSUME IInv, NEW c \in Client, Receive(c) PROVE IInv'
<1>0. PICK h \in 0..commits : Ordered(wire, commits, foreign, h) /\ \A e \in Client : PageSound(e, h)
  BY DEF IInv
<1> DEFINE s == session[c]
           p == post[c]
           d == down[c]
           u == up[c]
           v == view[c]
           m == Head(d)
           n == faults["frame"]
           w == view'[c]
           x == up'[c]
<1>1. /\ commits' = commits /\ foreign' = foreign /\ wire' = wire /\ visible' = visible
      /\ ready' = ready /\ known' = known /\ polling' = polling
      /\ session' = session /\ post' = post /\ asked' = asked /\ d # <<>>
      /\ bound' = bound /\ faults' = faults /\ visits' = visits
      /\ down' = [down EXCEPT ![c] = Tail(@)]
      /\ IF Retired(v, m) THEN up' = up /\ view' = view
         ELSE /\ view' = [view EXCEPT ![c] = Shows(v, m)]
              /\ up' = [up EXCEPT ![c] = Append(@, Reply(v, m))]
  BY DEF Receive, database, poller, bridge, limits, Shows, Reply
<1>2. DOMAIN down = Client /\ DOMAIN up = Client /\ DOMAIN view = Client
  BY DEF IInv, Scalars
<1>3. /\ Sound(s, p, d, u, v, h) /\ Versions(s, v, known) /\ Answered(s, p, u, v)
      /\ Pasts(p, d, v, wire, foreign) /\ (~visible[c] => s.phase = "off")
  BY <1>0 DEF PageSound
<1>4. /\ down'[c] = Tail(d) /\ DOMAIN down' = Client /\ DOMAIN view' = Client /\ DOMAIN up' = Client
      /\ \A e \in Client \ {c} : down'[e] = down[e] /\ view'[e] = view[e] /\ up'[e] = up[e]
      /\ Retired(v, m) => w = v /\ x = u
      /\ ~Retired(v, m) => w = Shows(v, m) /\ x = Append(u, Reply(v, m))
  BY <1>1, <1>2
<1>5. /\ d \in Seq(AnyFrame) /\ u \in Seq(AnyControl) /\ h \in Nat /\ n \in Nat
      /\ known \in Nat \cup {Unknown} /\ (p # NoFrame => s.phase = "open")
  BY <1>0, <1>3, Numbers DEF Sound, Types
<1>6. /\ m = d[1] /\ 1 \in DOMAIN d /\ m \in AnyFrame
      /\ \A i \in DOMAIN Tail(d) : Tail(d)[i] = d[i + 1] /\ i + 1 \in DOMAIN d
  BY <1>1, <1>5, Tails
<1> HIDE DEF s, p, d, u, v, n, w, x
<1>7. /\ Sound(s, p, Tail(d), x, w, h) /\ Versions(s, w, known) /\ Answered(s, p, x, w)
      /\ w.foreign \in {v.foreign, m.foreign}
  <2>1. CASE Retired(v, m)
    BY <1>1, <1>3, <1>4, <2>1, Drops
  <2>2. CASE ~Retired(v, m)
    <3>1. d # <<>> /\ ~Retired(v, Head(d)) /\ h \in Nat /\ known \in Nat \cup {Unknown}
      BY <1>1, <1>5, <2>2
    <3>2. Sound(s, p, d, u, v, h) /\ Versions(s, v, known) /\ Answered(s, p, u, v)
      BY <1>3
    <3>3. LET y == Shows(v, Head(d))
              z == Append(u, Reply(v, Head(d)))
          IN  /\ Sound(s, p, Tail(d), z, y, h) /\ Versions(s, y, known) /\ Answered(s, p, z, y)
              /\ y.foreign \in {v.foreign, Head(d).foreign}
      BY <3>1, <3>2, ReceiveSound
    <3> QED  BY <1>4, <2>2, <3>3
  <2> QED  BY <2>1, <2>2
<1> HIDE DEF m
<1>8. Pasts(p, Tail(d), w, wire, foreign)
  BY <1>3, <1>6, <1>7 DEF Pasts
<1>9. PageSound(c, h)'
  BY <1>1, <1>3, <1>4, <1>7, <1>8 DEF PageSound, s, p, w, x
<1>10. Elsewhere(c) /\ Suffers
  BY <1>1, <1>4 DEF Elsewhere, Suffers
<1>11. Scalars' /\ Baselines' /\ Polls'
  BY <1>1, <1>4 DEF IInv, Scalars, Baselines, Polls
<1>12. faults'["read"] = 0 =>
           /\ PaidFor(session'[c], post'[c], down'[c], up'[c], faults'["frame"])
           /\ faults'["frame"] <= 1 => ready'[c] \/ session'[c].sid = 0
  <2> SUFFICES ASSUME faults["read"] = 0
               PROVE  PaidFor(s, p, Tail(d), x, n) /\ (n <= 1 => ready[c] \/ s.sid = 0)
    BY <1>1, <1>4 DEF s, p, x, n
  <2>1. PaidFor(s, p, d, u, n)
    BY DEF IInv, Counted, s, p, d, u, n
  <2>2. p # NoFrame => s.live
    BY <1>5, <2>1 DEF PaidFor
  <2>3. CASE Retired(v, m)
    <3>1. p # NoFrame => m # p.frame
      BY <1>3, <2>2, <2>3, AwaitedShown
    <3> QED  BY <1>1, <1>4, <1>5, <2>1, <2>3, <3>1, PaidReceive DEF IInv, OneFaultHealed, s, n, m
  <2>4. CASE ~Retired(v, m)
    <3>1. /\ Reply(v, m) \in AnyControl /\ Reply(v, m).sid = m.sid /\ Reply(v, m).seq = m.seq
      BY <1>6, FrameParts DEF Reply, AnyControl
    <3>2. PaidFor(s, p, Tail(d), x, n)
      BY <1>1, <1>4, <1>5, <2>1, <2>4, <3>1, PaidReceive DEF m
    <3> QED  BY <3>2 DEF IInv, OneFaultHealed, s, n
  <2> QED  BY <2>3, <2>4
<1> QED  BY <1>0, <1>1, <1>9, <1>10, <1>11, <1>12, PageStep

-----------------------------------------------------------------------------
(* The invariant *)

LEMMA InitIInv == Init => IInv
<1> SUFFICES ASSUME Init PROVE IInv
  OBVIOUS
<1>1. /\ commits = 0 /\ foreign = 0 /\ asked = {} /\ wire = <<>> /\ known = Unknown /\ polling = FALSE
      /\ session = [c \in Client |-> NewSession(0, "off")]
      /\ ready = [c \in Client |-> FALSE] /\ visible = [c \in Client |-> TRUE]
      /\ post = [c \in Client |-> NoFrame]
      /\ down = [c \in Client |-> <<>>] /\ up = [c \in Client |-> <<>>]
      /\ view = [c \in Client |-> Blank]
      /\ bound \in Bounds /\ faults = [f \in Fault |-> 0] /\ visits = [c \in Client |-> 0]
  BY DEF Init
<1>2. bound.commits \in Nat /\ bound.foreign \in Nat
  BY <1>1, FeedAssumption
<1>3. Ordered(wire, commits, foreign, 0)
  <2>1. <<>> \in Seq(AnyCommit \cup AnyAnswer) /\ DOMAIN <<>> = {}
    OBVIOUS
  <2>2. Passed(<<>>, 0) = 1..0
    BY DEF Passed
  <2> QED  BY <1>1, <2>1, <2>2 DEF Ordered
<1>4. ASSUME NEW c \in Client PROVE PageSound(c, 0)
  <2> DEFINE s == NewSession(0, "off")
  <2>1. /\ s \in AnySession /\ s.sid = 0 /\ s.phase = "off" /\ ~s.live /\ s.next = 1
        /\ s.inflight = NoFrame /\ ~s.refreshing /\ s.queue = <<>> /\ s.handoff = <<>>
    <3>1. 0 \in Nat /\ "off" \in Phase
      BY DEF Phase
    <3>2. s.live = ("off" # "off")
      BY <3>1, NewIs
    <3> QED  BY <3>1, <3>2, NewIs
  <2> HIDE DEF s
  <2>2. /\ <<>> \in Seq(AnyFrame) /\ <<>> \in Seq(AnyControl) /\ DOMAIN <<>> = {}
        /\ Len(s.queue) <= QueueLimit
    BY <2>1, FeedAssumption
  <2>3. Types(s, NoFrame, <<>>, <<>>, Blank)
    BY <2>1, <2>2, BlankIs DEF Types
  <2>4. /\ Waits(s, NoFrame) /\ Sids(s, NoFrame, <<>>, <<>>, Blank) /\ Line(NoFrame, <<>>, Blank)
        /\ Acked(s, <<>>, Blank) /\ Chain(s, Blank, 0) /\ Rested(s, Blank, 0)
        /\ Versions(s, Blank, known) /\ Answered(s, NoFrame, <<>>, Blank)
    BY <2>1, <2>2, BlankIs DEF Waits, Sids, Line, Acked, Chain, Rested, AtRest, Versions, Answered
  <2>5. Told(s, NoFrame, <<>>, Blank, 0)
    BY <2>1, <2>2, BlankIs DEF Told
  <2>6. Pasts(NoFrame, <<>>, Blank, wire, foreign)
    <3>1. Past(Blank.foreign, wire, foreign)
      BY <1>3, ZeroPast, BlankIs
    <3> QED  BY <2>2, <3>1 DEF Pasts
  <2>7. /\ session[c] = s /\ post[c] = NoFrame /\ down[c] = <<>> /\ up[c] = <<>> /\ view[c] = Blank
    BY <1>1 DEF s
  <2> QED  BY <2>1, <2>3, <2>4, <2>5, <2>6, <2>7 DEF PageSound, Sound
<1>5. Scalars
  <2>1. 0 \in 0..bound.commits /\ 0 \in 0..bound.foreign
    BY <1>2
  <2>2. faults \in [Fault -> Nat] /\ visits \in [Client -> Nat]
    BY <1>1
  <2>3. ready \in [Client -> BOOLEAN] /\ visible \in [Client -> BOOLEAN]
    BY <1>1
  <2>4. /\ DOMAIN session = Client /\ DOMAIN post = Client /\ DOMAIN down = Client
        /\ DOMAIN up = Client /\ DOMAIN view = Client
    BY <1>1
  <2>5. /\ bound \in Bounds /\ asked \subseteq Read \cup Client
        /\ known \in 0..foreign \cup {Unknown} /\ polling \in BOOLEAN
    BY <1>1
  <2> QED  BY <1>1, <2>1, <2>2, <2>3, <2>4, <2>5 DEF Scalars
<1>6. DOMAIN wire = {} /\ ~polling
  BY <1>1
<1>7. \A c \in Client : session[c].sid = 0 /\ session[c].phase = "off" /\ ~session[c].live /\ post[c] = NoFrame
  <2>1. NewSession(0, "off").live = ("off" # "off") /\ NewSession(0, "off").phase = "off"
        /\ NewSession(0, "off").sid = 0
    <3>1. 0 \in Nat /\ "off" \in Phase
      BY DEF Phase
    <3> QED  BY <3>1, NewIs
  <2> QED  BY <1>1, <2>1
<1>8. Baselines /\ Polls
  BY <1>1, <1>6, <1>7 DEF Baselines, Polls, Lone, Brings
<1>9. Counted /\ OneFaultHealed
  BY <1>6, <1>7 DEF Counted, OneFaultHealed, PaidFor
<1> QED  BY <1>1, <1>3, <1>4, <1>5, <1>8, <1>9 DEF IInv

LEMMA NextIInv == IInv /\ [Next]_vars => IInv'
<1> SUFFICES ASSUME IInv, [Next]_vars PROVE IInv'
  OBVIOUS
<1>1. ASSUME Hear PROVE IInv'
  BY <1>1, HearCommitStep, HearConnectStep, HearSharedStep, HearVersionStep, HearBaselineStep,
     HearErrorStep DEF Hear
<1>2. ASSUME NEW c \in Client, Page(c) \/ Bridge(c) PROVE IInv'
  <2>1. CASE Page(c)
    BY <2>1, ReadyStep, HideStep, RevealStep, ReceiveStep, LoseStep DEF Page
  <2>2. CASE Bridge(c)
    BY <2>2, RecoverStep, TimeOutStep, TooEarlyStep, HandleControlStep DEF Bridge
  <2> QED  BY <1>2, <2>1, <2>2
<1>3. CASE UNCHANGED vars
  BY <1>3 DEF IInv, Scalars, Baselines, Polls, Counted, OneFaultHealed, PageSound, vars, database,
              poller, bridge, limits
<1> QED  BY <1>1, <1>2, <1>3, LocalCommitStep, ForeignCommitStep, PollTickStep, ServeStep DEF Next

\* In every reachable state, whatever the number of pages, commits and faults
THEOREM Invariance == Spec => []IInv
<1> QED  BY InitIInv, NextIInv, PTL DEF Spec

\* A sequence of elements of S that all are elements of T is one of elements of T
LEMMA Retyped ==
    ASSUME NEW S, NEW T, NEW q \in Seq(S), \A i \in DOMAIN q : q[i] \in T
    PROVE  q \in Seq(T)
OBVIOUS

\* A page is never sent changes that do not follow what it shows, and whatever is
\* in flight, queued or put aside is numbered within the commits that were made
\* (sendQueuedNow, applyReliableKernelDataMessage)
THEOREM Soundness == Spec => []FeedSound
<1>1. IInv => FeedSound
  <2> SUFFICES ASSUME IInv PROVE FeedSound
    OBVIOUS
  <2>0. PICK h \in 0..commits : Ordered(wire, commits, foreign, h) /\ \A c \in Client : PageSound(c, h)
    BY DEF IInv
  <2>1. commits \in Nat /\ foreign \in Nat /\ h \in Nat /\ h <= commits
    BY <2>0, Numbers
  <2>2. ASSUME NEW c \in Client
        PROVE  /\ session[c].phase \in {"off", "baseline", "reading", "open", "failed"}
               /\ session[c].inflight \in Frame \cup {NoFrame}
               /\ session[c].queue \in Seq(Frame) /\ Len(session[c].queue) <= QueueLimit
               /\ session[c].handoff \in Seq(Commit)
               /\ session[c].queue # <<>> => session[c].inflight # NoFrame
               /\ session[c].refreshing => session[c].inflight = NoFrame
               /\ post[c] # NoFrame => post[c].frame \in Frame /\ post[c].resent <= MaxResends
               /\ down[c] \in Seq(Frame) /\ up[c] \in Seq(Control)
               /\ down[c] # <<>> =>
                     LET m == Head(down[c])
                     IN  ~Retired(view[c], m) /\ m.kind = "changes" /\ m.seq > view[c].seq
                            => Follows(view[c], m)
    <3> DEFINE s == session[c]
               p == post[c]
               d == down[c]
               u == up[c]
               v == view[c]
    <3>1. /\ Types(s, p, d, u, v) /\ Waits(s, p) /\ Line(p, d, v) /\ Told(s, p, d, v, h)
          /\ Pasts(p, d, v, wire, foreign)
      BY <2>0 DEF PageSound, Sound
    <3> HIDE DEF s, p, d, u, v
    <3>2. /\ s \in AnySession /\ v \in AnyView /\ d \in Seq(AnyFrame) /\ u \in Seq(AnyControl)
          /\ p # NoFrame => p.frame \in AnyFrame /\ p.resent \in 0..MaxResends
      BY <3>1, Elements
    <3>3. /\ s.phase \in Phase /\ s.inflight \in AnyFrame \cup {NoFrame}
          /\ s.queue \in Seq(AnyFrame) /\ s.handoff \in Seq(AnyCommit)
      BY <3>2, SessionParts
    <3>4. ASSUME NEW b \in AnyFrame, b.commit <= h, b.foreign \in 0..foreign PROVE b \in Frame
      <4>1. b.commit \in 0..commits
        BY <2>1, <3>4, FrameParts
      <4> QED  BY <3>4, <4>1 DEF AnyFrame, Frame
    <3>5. p # NoFrame => p.frame \in Frame
      BY <3>1, <3>2, <3>4 DEF Told, Pasts, Past
    <3>6. s.inflight \in Frame \cup {NoFrame}
      BY <3>1, <3>3, <3>5 DEF Waits
    <3>7. s.queue \in Seq(Frame)
      <4>1. \A i \in DOMAIN s.queue : s.queue[i] \in AnyFrame
        BY <3>3
      <4>2. \A i \in DOMAIN s.queue : s.queue[i].commit <= h /\ s.queue[i].foreign \in 0..foreign
        BY <2>1, <3>1 DEF Told
      <4>3. \A i \in DOMAIN s.queue : s.queue[i] \in Frame
        BY <3>4, <4>1, <4>2
      <4> QED  BY <3>3, <4>3, Retyped
    <3>8. s.handoff \in Seq(Commit)
      <4>1. \A i \in DOMAIN s.handoff : s.handoff[i] \in AnyCommit
        BY <3>3
      <4>2. \A i \in DOMAIN s.handoff : s.handoff[i].seq \in 1..commits
        BY <2>1, <3>1 DEF Told
      <4>3. \A i \in DOMAIN s.handoff : s.handoff[i] \in Commit
        BY <4>1, <4>2 DEF AnyCommit, Commit
      <4> QED  BY <3>3, <4>3, Retyped
    <3>9. d \in Seq(Frame)
      <4>1. \A i \in DOMAIN d : d[i] \in AnyFrame
        BY <3>2
      <4>2. \A i \in DOMAIN d : d[i].commit <= h /\ d[i].foreign \in 0..foreign
        BY <3>1 DEF Told, Pasts, Past
      <4>3. \A i \in DOMAIN d : d[i] \in Frame
        BY <3>4, <4>1, <4>2
      <4> QED  BY <3>2, <4>3, Retyped
    <3>10. u \in Seq(Control)
      BY <3>2 DEF AnyControl, Control
    <3>11. d # <<>> =>
              LET m == Head(d)
              IN  ~Retired(v, m) /\ m.kind = "changes" /\ m.seq > v.seq => Follows(v, m)
      <4> SUFFICES ASSUME d # <<>> PROVE LET m == Head(d)
                       IN  ~Retired(v, m) /\ m.kind = "changes" /\ m.seq > v.seq => Follows(v, m)
        OBVIOUS
      <4> DEFINE m == Head(d)
      <4>1. m = d[1] /\ 1 \in DOMAIN d /\ m \in AnyFrame
        BY <3>2, Tails
      <4> HIDE DEF m
      <4>2. Fits(v, m)
        BY <3>1, <4>1 DEF Line
      <4>3. v.seq \in Nat /\ v.commit \in Nat /\ m.seq \in Nat /\ m.commit \in Nat
        BY <3>1, <4>1, Elements, FrameParts
      <4>4. ~Retired(v, m) /\ m.kind = "changes" /\ m.seq > v.seq => Follows(v, m)
        BY <4>2, <4>3 DEF Fits, Retired, Follows
      <4> QED  BY <4>4 DEF m
    <3>12. /\ Len(s.queue) <= QueueLimit /\ (s.queue # <<>> => s.inflight # NoFrame)
           /\ (s.refreshing => s.inflight = NoFrame) /\ (p # NoFrame => p.resent <= MaxResends)
      BY <3>1, <3>2 DEF Types
    <3> QED  BY <3>3, <3>5, <3>6, <3>7, <3>8, <3>9, <3>10, <3>11, <3>12 DEF Phase, s, p, d, u, v
  <2>3. TypeOK
    BY <2>2 DEF TypeOK, IInv, Scalars
  <2>4. GapFree
    BY <2>2 DEF GapFree
  <2> QED  BY <2>3, <2>4 DEF FeedSound
<1> QED  BY <1>1, Invariance, PTL

\* A session with nothing on its way has shown its page all that its host knows
\* of (enqueueCommit, refreshSnapshot, pollExternalCommits)
THEOREM Completeness == Spec => []IdleShowsAll
<1>1. IInv => IdleShowsAll
  <2> SUFFICES ASSUME IInv, NEW c \in Client, Idle(c)
               PROVE  /\ ~session[c].need /\ session[c].queue = <<>>
                      /\ view[c].local = Heard
                      /\ known # Unknown => view[c].foreign >= known
    BY DEF IdleShowsAll
  <2>0. PICK h \in 0..commits : Ordered(wire, commits, foreign, h) /\ \A e \in Client : PageSound(e, h)
    BY DEF IInv
  <2>1. AtRest(session[c]) /\ session[c].inflight = NoFrame
    BY DEF Idle, AtRest
  <2>2. /\ ~session[c].need /\ view[c].commit = h /\ view[c].local = 1..view[c].commit
        /\ session[c].queue = <<>>
    BY <2>0, <2>1 DEF PageSound, Sound, Rested, Told, Types
  <2>3. Heard = 1..h
    BY <2>0 DEF Ordered, Passed, Heard, IsCommit
  <2>4. known # Unknown => known <= view[c].foreign
    BY <2>0, <2>1, <2>2 DEF PageSound, Versions, AtRest
  <2>5. known \in Nat \cup {Unknown} /\ view[c].foreign \in Nat
    BY <2>0, Numbers, Elements DEF PageSound, Sound
  <2> QED  BY <2>2, <2>3, <2>4, <2>5
<1> QED  BY <1>1, Invariance, PTL

\* One late or lost frame never costs a page its feed (retryOrSuspendDataPost)
THEOREM Healing == Spec => []OneFaultHealed
<1>1. IInv => OneFaultHealed
  BY DEF IInv
<1> QED  BY <1>1, Invariance, PTL

-----------------------------------------------------------------------------
(* The promise to a page *)

Shown == [c \in Client |-> [local |-> view[c].local, foreign |-> view[c].foreign]]

LEMMA InitPromise == Init => Mirror!MirrorInit
<1> SUFFICES ASSUME Init PROVE Mirror!MirrorInit
  OBVIOUS
<1>1. commits = 0 /\ foreign = 0 /\ view = [c \in Client |-> Blank]
  BY DEF Init
<1>2. Blank.local = {} /\ Blank.foreign = 0
  BY DEF Blank
<1> QED  BY <1>1, <1>2 DEF Mirror!MirrorInit, Mirror!Nothing

\* A step that shows no page anything new and commits nothing
LEMMA QuietPromise ==
    ASSUME view' = view, commits' = commits, foreign' = foreign
    PROVE  UNCHANGED Mirror!mirrorVars
BY DEF Mirror!mirrorVars

LEMMA ReceivePromise ==
    ASSUME IInv, NEW c \in Client, Receive(c)
    PROVE  Mirror!Show(c) \/ UNCHANGED Mirror!mirrorVars
<1>0. PICK h \in 0..commits : Ordered(wire, commits, foreign, h) /\ \A e \in Client : PageSound(e, h)
  BY DEF IInv
<1> DEFINE v == view[c]
           m == Head(down[c])
           w == Shows(v, m)
<1>1. /\ commits' = commits /\ foreign' = foreign /\ down[c] # <<>>
      /\ IF Retired(v, m) THEN view' = view ELSE view' = [view EXCEPT ![c] = w]
  BY DEF Receive, database, Shows
<1>2. CASE Retired(v, m)
  BY <1>1, <1>2, QuietPromise
<1>3. CASE ~Retired(v, m)
  <2>1. /\ commits \in Nat /\ foreign \in Nat /\ h \in Nat /\ h <= commits
        /\ known \in Nat \cup {Unknown} /\ DOMAIN view = Client
    BY <1>0, Numbers DEF IInv, Scalars
  <2>2. /\ Sound(session[c], post[c], down[c], up[c], v, h) /\ Versions(session[c], v, known)
        /\ Answered(session[c], post[c], up[c], v) /\ Pasts(post[c], down[c], v, wire, foreign)
    BY <1>0 DEF PageSound
  <2>3. /\ Sound(session[c], post[c], Tail(down[c]), Append(up[c], Reply(v, m)), w, h)
        /\ w.foreign \in {v.foreign, m.foreign}
        /\ v.commit <= w.commit /\ v.foreign <= w.foreign
    <3>1. down[c] # <<>> /\ ~Retired(v, Head(down[c])) /\ h \in Nat /\ known \in Nat \cup {Unknown}
      BY <1>1, <1>3, <2>1
    <3>2. /\ Sound(session[c], post[c], down[c], up[c], v, h) /\ Versions(session[c], v, known)
          /\ Answered(session[c], post[c], up[c], v)
      BY <2>2
    <3> HIDE DEF v
    <3> QED  BY <3>1, <3>2, ReceiveSound
  <2>4. m = down[c][1] /\ 1 \in DOMAIN down[c]
    <3>1. down[c] \in Seq(AnyFrame)
      BY <2>2, Elements DEF Sound
    <3> QED  BY <1>1, <3>1, Tails
  <2>5. w.foreign \in 0..foreign
    BY <2>2, <2>3, <2>4 DEF Pasts, Past
  <2> HIDE DEF m, w
  <2>6. /\ v.commit \in Nat /\ v.foreign \in Nat /\ w.commit \in Nat
        /\ v.local = 1..v.commit /\ w.local = 1..w.commit /\ w.commit <= h
    BY <2>2, <2>3, Elements DEF Sound, Told
  <2>7. w.commit \in 0..commits /\ w.foreign \in v.foreign..foreign /\ v.local \subseteq 1..w.commit
    BY <2>1, <2>3, <2>5, <2>6
  <2>8. Shown' = [Shown EXCEPT ![c] = [local |-> 1..w.commit, foreign |-> w.foreign]]
    BY <1>1, <1>3, <2>1, <2>6 DEF Shown
  <2>9. Shown[c].local = v.local /\ Shown[c].foreign = v.foreign
    BY DEF Shown
  <2> QED  BY <1>1, <2>7, <2>8, <2>9 DEF Mirror!Show, Shown
<1> QED  BY <1>2, <1>3

LEMMA StepPromise ==
    ASSUME IInv, [Next]_vars
    PROVE  [Mirror!MirrorNext]_(Mirror!mirrorVars)
<1>1. CASE LocalCommit
  <2>1. commits' = commits + 1 /\ foreign' = foreign /\ view' = view
    BY <1>1 DEF LocalCommit
  <2> QED  BY <2>1 DEF Mirror!MirrorNext, Mirror!Grow
<1>2. CASE ForeignCommit
  <2>1. foreign' = foreign + 1 /\ commits' = commits /\ view' = view
    BY <1>2 DEF ForeignCommit
  <2>2. [local |-> commits', foreign |-> foreign'] =
            [[local |-> commits, foreign |-> foreign] EXCEPT !["foreign"] = @ + 1]
    BY <2>1
  <2> QED  BY <2>1, <2>2 DEF Mirror!MirrorNext, Mirror!Grow
<1>3. CASE Hear \/ PollTick \/ (\E r \in Read \cup Client : Serve(r)) \/ UNCHANGED vars
  <2>1. view' = view /\ commits' = commits /\ foreign' = foreign
    BY <1>3 DEF Hear, HearCommit, HearConnect, HearShared, HearVersion, HearBaseline, HearError,
                Hears, PollTick, Serve, vars, database
  <2> QED  BY <2>1, QuietPromise
<1>4. ASSUME NEW c \in Client, Page(c) \/ Bridge(c)
      PROVE  [Mirror!MirrorNext]_(Mirror!mirrorVars)
  <2>1. CASE Receive(c)
    BY <2>1, ReceivePromise DEF Mirror!MirrorNext
  <2>2. CASE Ready(c) /\ view' # view
    <3>1. commits' = commits /\ foreign' = foreign /\ view' = [view EXCEPT ![c] = Blank]
      BY <2>2 DEF Ready, database
    <3>2. Blank.local = {} /\ Blank.foreign = 0 /\ DOMAIN view = Client
      BY DEF Blank, IInv, Scalars
    <3>3. Shown' = [Shown EXCEPT ![c] = Mirror!Nothing]
      BY <3>1, <3>2 DEF Shown, Mirror!Nothing
    <3> QED  BY <3>1, <3>3 DEF Mirror!MirrorNext, Mirror!Load, Shown
  <2>3. CASE \/ Ready(c) /\ view' = view
             \/ Hide(c) \/ Reveal(c) \/ Lose(c) \/ Bridge(c)
    <3>1. view' = view /\ commits' = commits /\ foreign' = foreign
      BY <2>3 DEF Ready, Hide, Reveal, Lose, Bridge, Recover, TimeOut, TooEarly, Resend,
                  HandleControl, database
    <3> QED  BY <3>1, QuietPromise
  <2> QED  BY <1>4, <2>1, <2>2, <2>3 DEF Page
<1> QED  BY <1>1, <1>2, <1>3, <1>4 DEF Next

\* What a page shows is always a stage of the database that only moves forward,
\* unless the page is loaded afresh (webviewFeedBridge, reliableKernelClientFeed)
THEOREM Refinement == Spec => KeepsPromise
<1> QED  BY InitPromise, Invariance, StepPromise, PTL DEF Spec, KeepsPromise, Mirror!MirrorSpec
=============================================================================

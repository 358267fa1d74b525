-------------------------- MODULE FileEffectsProofs --------------------------
(* What FileEffects promises for any number of hosts and members, with saves   *)
(* and stops at any time.  That nothing is written twice rests on who applies: *)
(* the thread that claimed the intent, and no other (OneApplies), which knows  *)
(* how far it has come (Fits).  That a report is true rests on the files       *)
(* (OnDisk), and on nobody writing any more once somebody has looked at them.  *)
EXTENDS FileEffects, SequenceTheorems, TLAPS

\* What a thread can be
State == [pc : Place, at : Member, seen : Observation]

LEMMA ObservationSeq ==
    ASSUME NEW r \in Observation
    PROVE  /\ r \in Seq(Outcome) /\ Len(r) \in 0..MaxMembers /\ DOMAIN r = 1..Len(r)
           /\ \A i \in 1..Len(r) : r[i] \in Outcome
<1>1. PICK n \in 0..MaxMembers : r \in [1..n -> Outcome]
  BY DEF Observation
<1>2. n \in Nat
  BY <1>1, FileAssumption
<1> QED
  BY <1>1, <1>2

LEMMA ObservationEmpty == <<>> \in Observation
<1>1. <<>> \in [1..0 -> Outcome]
  OBVIOUS
<1> QED
  BY <1>1, FileAssumption DEF Observation

LEMMA ObservationGrows ==
    ASSUME NEW r \in Observation, Len(r) < MaxMembers, NEW o \in Outcome
    PROVE  /\ Append(r, o) \in Observation
           /\ Len(Append(r, o)) = Len(r) + 1
           /\ DOMAIN Append(r, o) = 1..(Len(r) + 1)
           /\ \A i \in 1..Len(r) : Append(r, o)[i] = r[i]
           /\ Append(r, o)[Len(r) + 1] = o
<1>1. r \in Seq(Outcome) /\ Len(r) \in Nat
  BY ObservationSeq, FileAssumption
<1>2. /\ Append(r, o) \in Seq(Outcome) /\ Len(Append(r, o)) = Len(r) + 1
      /\ \A i \in 1..Len(r) : Append(r, o)[i] = r[i]
      /\ Append(r, o)[Len(r) + 1] = o
  BY <1>1, AppendProperties
<1>3. Append(r, o) \in [1..(Len(r) + 1) -> Outcome] /\ DOMAIN Append(r, o) = 1..(Len(r) + 1)
  BY <1>2, LenProperties, <1>1
<1>4. Len(r) + 1 \in 0..MaxMembers
  BY <1>1, FileAssumption
<1> QED
  BY <1>2, <1>3, <1>4 DEF Observation

LEMMA BecomeMoves ==
    ASSUME thread \in [Host -> [Thread -> State]], NEW h \in Host, NEW t \in Thread,
           NEW s \in State, Become(h, t, s)
    PROVE  /\ thread' \in [Host -> [Thread -> State]]
           /\ \A g \in Host, u \in Thread :
                  thread'[g][u] = IF g = h /\ u = t THEN s ELSE thread[g][u]
BY DEF Become
-----------------------------------------------------------------------------
\* The claim is won once, and nothing is written before
Claimed == intent \in {"dispatched", "receipt_written"}

Decided ==
    /\ intent # "none" => decision = "approved"
    /\ decision = "none" => status = "none"
    /\ intent = "pending" => status = "none"
    /\ report # <<>> => intent = "receipt_written"
    /\ ~Claimed => saved = {} /\ \A m \in Member : writes[m] = 0

\* The winner of the claim applies, and nobody else ever does
OneApplies ==
    \A h, g \in Host : \A t, u \in Thread : Applying(h, t) /\ Applying(g, u) => g = h /\ t = u

\* An outcome says no more than what was written
Tells(o, m) ==
    /\ o = "succeeded" => writes[m] = 1
    /\ o \in {"failed", "cancelled"} => writes[m] = 0

TrueOf(r) ==
    \A m \in Member : IF m \in DOMAIN r THEN Tells(r[m], m) ELSE writes[m] = 0

\* What a thread has behind it at each place
Fits(s) ==
    /\ s.pc \in {"execute", "read", "write", "writing", "after", "inspect", "record"} => Claimed
    /\ s.pc \in {"read", "write", "writing", "after", "inspect"} =>
           Len(s.seen) = s.at - 1 /\ s.at <= bound.members
    /\ s.pc \in {"read", "write", "writing", "after"} =>
           /\ \A i \in DOMAIN s.seen : s.seen[i] = "succeeded"
           /\ \A m \in Member : (m < s.at => writes[m] = 1) /\ (m > s.at => writes[m] = 0)
    /\ s.pc = "execute" => \A m \in Member : writes[m] = 0
    /\ s.pc \in {"read", "write"} => writes[s.at] = 0
    /\ s.pc \in {"write", "writing"} => s.at \notin saved
    /\ s.pc = "writing" => writes[s.at] = 1
    /\ s.pc = "record" /\ ~overlap => ~SomebodyApplies /\ TrueOf(s.seen)
    /\ s.pc = "inspect" /\ s.seen # <<>> /\ ~overlap =>
           ~SomebodyApplies /\ \A m \in DOMAIN s.seen : Tells(s.seen[m], m)

AllFit == \A h \in Host, t \in Thread : Fits(thread[h][t])

\* The files show what was written to them
OnDisk ==
    \A m \in Member :
        /\ writes[m] <= 1
        /\ writes[m] > 0 /\ m > 1 => writes[m - 1] > 0
        /\ m > bound.members => writes[m] = 0
        /\ disk[m] = "base" => writes[m] = 0
        /\ disk[m] = "target" => writes[m] = 1
        /\ m \in saved => disk[m] = "edited"

Reports == report # <<>> /\ ~overlap => ~SomebodyApplies /\ TrueOf(report)

IInv == TypeOK /\ Decided /\ OneApplies /\ AllFit /\ OnDisk /\ Reports

-----------------------------------------------------------------------------
LEMMA Bounded ==
    ASSUME TypeOK
    PROVE  /\ bound.members \in Member /\ bound.hosts \in Host /\ bound.edits \in Nat
           /\ bound.members \in Nat /\ bound.members <= MaxMembers
BY FileAssumption DEF TypeOK, BoundOf, Member, Host

LEMMA ThreadTyped ==
    ASSUME TypeOK, NEW h \in Host, NEW t \in Thread
    PROVE  /\ thread[h][t] \in State /\ thread[h][t].pc \in Place
           /\ Here(h, t) \in Member /\ Seen(h, t) \in Observation
BY DEF TypeOK, State, Here, Seen

LEMMA FromFirstTyped ==
    ASSUME NEW where \in Place
    PROVE  /\ FromFirst(where) \in State /\ FromFirst(where).pc = where
           /\ FromFirst(where).at = 1 /\ FromFirst(where).seen = <<>>
BY ObservationEmpty, FileAssumption DEF FromFirst, AtRest, State, Member

LEMMA RestTyped == AtRest \in State /\ AtRest.pc = "idle"
BY ObservationEmpty, FileAssumption DEF AtRest, State, Member, Place

LEMMA ReconciledTyped ==
    ASSUME NEW m \in Member
    PROVE  Reconciled(m) \in Outcome
BY DEF Reconciled, Outcome

LEMMA AggregateTyped ==
    ASSUME NEW r \in Observation
    PROVE  Aggregate(r) \in Outcome \cup {"partial"}
<1> DEFINE Has(o) == \E i \in DOMAIN r : r[i] = o
           Right(o) == /\ Has(o)
                       /\ o = "outcome_unknown" => ~Has("conflict")
                       /\ o = "cancelled" => ~Has("conflict") /\ ~Has("outcome_unknown")
                       /\ o = "failed" => \A i \in DOMAIN r : r[i] = "failed"
           Bad == {"conflict", "outcome_unknown", "cancelled", "failed"}
<1>1. CASE \A i \in DOMAIN r : r[i] = "succeeded"
  BY <1>1 DEF Aggregate, Outcome
<1>2. CASE Has("succeeded")
  BY <1>2 DEF Aggregate, Outcome
<1>3. CASE ~Has("succeeded") /\ ~\A i \in DOMAIN r : r[i] = "succeeded"
  <2>1. \A i \in DOMAIN r : r[i] \in Bad
    BY <1>3, ObservationSeq DEF Outcome
  <2>2. PICK i \in DOMAIN r : r[i] \in Bad
    BY <1>3, <2>1
  <2>3. \E o \in Bad : Right(o)
    <3>1. CASE Has("conflict")
      BY <3>1
    <3>2. CASE ~Has("conflict") /\ Has("outcome_unknown")
      BY <3>2
    <3>3. CASE ~Has("conflict") /\ ~Has("outcome_unknown") /\ Has("cancelled")
      BY <3>3
    <3>4. CASE ~Has("conflict") /\ ~Has("outcome_unknown") /\ ~Has("cancelled")
      <4>1. \A j \in DOMAIN r : r[j] = "failed"
        BY <3>4, <2>1
      <4> QED
        BY <4>1, <2>2
    <3> QED
      BY <3>1, <3>2, <3>3, <3>4
  <2>4. (CHOOSE o \in Bad : Right(o)) \in Bad
    BY <2>3
  <2>5. Aggregate(r) = CHOOSE o \in Bad : Right(o)
    BY <1>3 DEF Aggregate
  <2> QED
    BY <2>4, <2>5 DEF Outcome
<1> QED
  BY <1>1, <1>2, <1>3

\* The next state of a thread that has observed one more member
LEMMA ObserveMoves ==
    ASSUME TypeOK, NEW h \in Host, NEW t \in Thread, NEW o \in Outcome, NEW next \in Place,
           Len(Seen(h, t)) = Here(h, t) - 1, Here(h, t) <= bound.members,
           Observe(h, t, o, next)
    PROVE  \E s \in State :
               /\ Become(h, t, s)
               /\ s.seen = Append(Seen(h, t), o)
               /\ Len(s.seen) = Here(h, t) /\ DOMAIN s.seen = 1..Here(h, t)
               /\ \A i \in 1..(Here(h, t) - 1) : s.seen[i] = Seen(h, t)[i]
               /\ s.seen[Here(h, t)] = o
               /\ IF Here(h, t) < bound.members THEN s.pc = next /\ s.at = Here(h, t) + 1
                  ELSE s.pc = "record"
<1> DEFINE seen == Append(Seen(h, t), o)
           s == [pc |-> IF Len(seen) < bound.members THEN next ELSE "record",
                 at |-> IF Len(seen) < bound.members THEN Len(seen) + 1 ELSE 1,
                 seen |-> seen]
<1>1. Here(h, t) \in Member /\ Seen(h, t) \in Observation
  BY ThreadTyped
<1>2. Here(h, t) \in Nat /\ Len(Seen(h, t)) \in Nat /\ Len(Seen(h, t)) < MaxMembers
  BY <1>1, Bounded, FileAssumption DEF Member
<1>3. /\ seen \in Observation /\ Len(seen) = Here(h, t) /\ DOMAIN seen = 1..Here(h, t)
      /\ \A i \in 1..(Here(h, t) - 1) : seen[i] = Seen(h, t)[i]
      /\ seen[Here(h, t)] = o
  BY <1>1, <1>2, ObservationGrows
<1>4. "record" \in Place /\ 1 \in Member
  BY FileAssumption DEF Place, Member
<1>5. Here(h, t) < bound.members => Here(h, t) + 1 \in Member
  BY <1>2, Bounded, FileAssumption DEF Member
<1>6. s \in State
  BY <1>3, <1>4, <1>5 DEF State
<1>7. Become(h, t, s)
  BY DEF Observe
<1>8. IF Here(h, t) < bound.members THEN s.pc = next /\ s.at = Here(h, t) + 1 ELSE s.pc = "record"
  BY <1>3
<1> QED
  BY <1>3, <1>6, <1>7, <1>8

-----------------------------------------------------------------------------
Busy == {"read", "write", "writing", "after", "inspect"}

LEMMA Placed ==
    ASSUME IInv, NEW h \in Host, NEW t \in Thread, thread[h][t].pc \in Busy
    PROVE  /\ Len(Seen(h, t)) = Here(h, t) - 1 /\ Here(h, t) <= bound.members
           /\ Here(h, t) \in Member /\ Here(h, t) \in Nat /\ Claimed
<1>1. Fits(thread[h][t])
  BY DEF IInv, AllFit
<1>2. Here(h, t) \in Member
  BY ThreadTyped DEF IInv
<1> QED
  BY <1>1, <1>2, FileAssumption DEF Fits, Busy, Here, Seen, Member

LEMMA ThreadsTyped ==
    ASSUME TypeOK
    PROVE  thread \in [Host -> [Thread -> State]]
BY DEF TypeOK, State

LEMMA GotoTyped ==
    ASSUME TypeOK, NEW h \in Host, NEW t \in Thread, NEW where \in Place, Goto(h, t, where)
    PROVE  \E s \in State : /\ Become(h, t, s)
                            /\ s.pc = where /\ s.at = Here(h, t) /\ s.seen = Seen(h, t)
<1> DEFINE s == [thread[h][t] EXCEPT !.pc = where]
<1>1. thread[h][t] \in State
  BY ThreadTyped
<1>2. s \in State /\ s.pc = where /\ s.at = Here(h, t) /\ s.seen = Seen(h, t)
  BY <1>1 DEF State, Here, Seen
<1> QED
  BY <1>2 DEF Goto

LEMMA ReturnTyped ==
    ASSUME TypeOK, NEW h \in Host, NEW t \in Thread, Return(h, t)
    PROVE  /\ \E s \in State : Become(h, t, s) /\ s.pc \in {"idle", "expire", "sweep"}
           /\ marker' \in [Host -> Thread \cup {"none"}]
<1>1. marker' \in [Host -> Thread \cup {"none"}]
  BY DEF TypeOK, Return
<1>2. "expire" \in Place /\ "sweep" \in Place
  BY DEF Place
<1>3. FromFirst("expire") \in State /\ FromFirst("sweep") \in State
      /\ FromFirst("expire").pc = "expire" /\ FromFirst("sweep").pc = "sweep"
  BY <1>2, FromFirstTyped
<1> QED
  BY <1>1, <1>3, RestTyped DEF Return

LEMMA CommittedTyped ==
    ASSUME TypeOK, NEW h \in Host, Committed(h)
    PROVE  due' \in [Host -> BOOLEAN]
BY DEF TypeOK, Committed

LEMMA ApplyTyped ==
    ASSUME TypeOK, NEW h \in Host, Apply(h)
    PROVE  /\ status' \in Outcome \cup {"none", "partial", "rejected"} /\ due' \in [Host -> BOOLEAN]
           /\ status # "none" => status' = status
           /\ report = <<>> => status' = status
<1>1. report \in Observation /\ Aggregate(report) \in Outcome \cup {"partial"}
  BY AggregateTyped DEF TypeOK
<1> QED
  BY <1>1, CommittedTyped DEF TypeOK, Apply

\* Every action leaves the threads in a state, and keeps the types of the rest
LEMMA TypeKept ==
    ASSUME IInv, [Next]_vars
    PROVE  TypeOK'
<1> USE DEF rows, turnVars, hostVars, diskVars, history
<1>0. TypeOK /\ thread \in [Host -> [Thread -> State]]
  BY ThreadsTyped DEF IInv
<1>p. \A x \in {"idle", "enter", "claim", "late", "execute", "read", "write", "writing",
                "after", "inspect", "record", "reconcile", "sweep", "check", "expire"} : x \in Place
  BY DEF Place
<1>t. ASSUME thread' \in [Host -> [Thread -> State]]
      PROVE  thread' \in [Host -> [Thread -> [pc : Place, at : Member, seen : Observation]]]
  BY <1>t DEF State
<1>w. "window" \in Thread /\ "pass" \in Thread
  BY DEF Thread
<1>b. ASSUME NEW h \in Host, NEW t \in Thread, NEW s \in State, Become(h, t, s)
      PROVE  thread' \in [Host -> [Thread -> State]]
  BY <1>0, <1>b, BecomeMoves
<1>f. ASSUME NEW h \in Host, NEW t \in Thread, NEW where \in Place, Become(h, t, FromFirst(where))
      PROVE  thread' \in [Host -> [Thread -> State]]
  BY <1>b, <1>f, FromFirstTyped
<1>g. ASSUME NEW h \in Host, NEW t \in Thread, NEW where \in Place, Goto(h, t, where)
      PROVE  thread' \in [Host -> [Thread -> State]]
  BY <1>0, <1>b, <1>g, GotoTyped
<1>r. ASSUME NEW h \in Host, NEW t \in Thread, Return(h, t)
      PROVE  thread' \in [Host -> [Thread -> State]] /\ marker' \in [Host -> Thread \cup {"none"}]
  BY <1>0, <1>b, <1>r, ReturnTyped
<1>o. ASSUME NEW h \in Host, NEW t \in Thread, thread[h][t].pc \in Busy,
             NEW o \in Outcome, NEW next \in Place, Observe(h, t, o, next)
      PROVE  thread' \in [Host -> [Thread -> State]]
  <2>1. \E s \in State : Become(h, t, s)
    BY <1>0, <1>o, Placed, ObserveMoves
  <2> QED
    BY <2>1, <1>b
<1>1. ASSUME NEW h \in Host, NEW t \in Thread, Step(h, t)
      PROVE  TypeOK'
  <2>1. CASE Enter(h, t)
    <3>1. PICK where \in {"claim", "late"} : Goto(h, t, where)
      BY <2>1 DEF Enter
    <3>2. marker' \in [Host -> Thread \cup {"none"}]
      BY <2>1, <1>0 DEF Enter, TypeOK
    <3> QED
      BY <2>1, <3>1, <3>2, <1>0, <1>p, <1>t, <1>g DEF Enter, TypeOK
  <2>2. CASE Claim(h, t)
    <3>1. CASE CancelPending /\ Committed(h) /\ Return(h, t) /\ UNCHANGED <<claimant, saved>>
      BY <2>2, <3>1, <1>0, <1>t, <1>r, CommittedTyped DEF Claim, CancelPending, TypeOK, Outcome
    <3>2. CASE Return(h, t) /\ UNCHANGED <<rows, due, claimant, saved>>
      BY <2>2, <3>2, <1>0, <1>t, <1>r DEF Claim, TypeOK
    <3>3. CASE Goto(h, t, "reconcile") /\ UNCHANGED <<rows, due, marker, claimant, saved>>
      BY <2>2, <3>3, <1>0, <1>p, <1>t, <1>g DEF Claim, TypeOK
    <3>4. CASE /\ intent' = "dispatched" /\ fence' = owner /\ claimant' = h
               /\ saved' = {m \in Member : disk[m] = "edited"}
               /\ Committed(h) /\ Goto(h, t, "execute")
               /\ UNCHANGED <<decision, report, status, marker>>
      BY <2>2, <3>4, <1>0, <1>p, <1>t, <1>g, CommittedTyped DEF Claim, TypeOK
    <3>5. CASE Become(h, t, FromFirst("inspect")) /\ UNCHANGED <<rows, due, marker, claimant, saved>>
      BY <2>2, <3>5, <1>0, <1>p, <1>t, <1>f DEF Claim, TypeOK
    <3> QED
      BY <2>2, <3>1, <3>2, <3>3, <3>4, <3>5 DEF Claim, Lose
  <2>21. CASE Late(h, t)
    <3>1. CASE Return(h, t)
      BY <2>21, <3>1, <1>0, <1>t, <1>r DEF Late, TypeOK
    <3>2. CASE Goto(h, t, "reconcile") /\ UNCHANGED marker
      BY <2>21, <3>2, <1>0, <1>p, <1>t, <1>g DEF Late, TypeOK
    <3> QED
      BY <2>21, <3>1, <3>2 DEF Late
  <2>3. CASE Execute(h, t)
    <3>1. CASE Return(h, t)
      BY <2>3, <3>1, <1>0, <1>t, <1>r DEF Execute, TypeOK
    <3>2. CASE (\E next \in {"read", "inspect"} : Become(h, t, FromFirst(next))) /\ UNCHANGED marker
      <4>1. thread' \in [Host -> [Thread -> State]]
        BY <3>2, <1>p, <1>f
      <4> QED
        BY <2>3, <3>2, <4>1, <1>0, <1>t DEF Execute, TypeOK
    <3> QED
      BY <2>3, <3>1, <3>2 DEF Execute
  <2>4. CASE Read(h, t)
    <3>1. thread[h][t].pc \in Busy
      BY <2>4 DEF Read, At, Busy
    <3>2. {"cancelled", "conflict"} \subseteq Outcome
      BY DEF Outcome
    <3>3. thread' \in [Host -> [Thread -> State]]
      BY <2>4, <3>1, <3>2, <1>p, <1>o, <1>g DEF Read, ObserveApply
    <3> QED
      BY <2>4, <3>3, <1>0, <1>t DEF Read, TypeOK
  <2>5. CASE Write(h, t)
    <3>1. thread[h][t].pc \in Busy
      BY <2>5 DEF Write, At, Busy
    <3>2. "cancelled" \in Outcome
      BY DEF Outcome
    <3>3. thread' \in [Host -> [Thread -> State]]
      BY <2>5, <3>1, <3>2, <1>p, <1>o, <1>g DEF Write, ObserveApply
    <3>4. writes[Here(h, t)] = 0 /\ Here(h, t) \in Member
      BY <2>5, <1>0, ThreadTyped DEF Write, At, Here, IInv, AllFit, Fits
    <3>5. disk' \in [Member -> {"base", "torn", "target", "edited"}] /\ writes' \in [Member -> 0..2]
          /\ edits' = edits
      <4>1. \/ UNCHANGED diskVars
            \/ /\ disk' = [disk EXCEPT ![Here(h, t)] = "torn"]
               /\ writes' = [writes EXCEPT ![Here(h, t)] = @ + 1]
               /\ edits' = edits
        BY <2>5 DEF Write
      <4>2. writes \in [Member -> 0..2] /\ disk \in [Member -> {"base", "torn", "target", "edited"}]
        BY <1>0 DEF TypeOK
      <4>3. CASE UNCHANGED diskVars
        BY <4>2, <4>3
      <4>4. CASE /\ disk' = [disk EXCEPT ![Here(h, t)] = "torn"]
                 /\ writes' = [writes EXCEPT ![Here(h, t)] = @ + 1]
                 /\ edits' = edits
        BY <4>2, <4>4, <3>4
      <4> QED
        BY <4>1, <4>3, <4>4
    <3> QED
      BY <2>5, <3>3, <3>5, <1>0, <1>t DEF Write, TypeOK
  <2>6. CASE Finish(h, t)
    <3>1. thread' \in [Host -> [Thread -> State]]
      BY <2>6, <1>p, <1>g DEF Finish
    <3>2. disk' \in [Member -> {"base", "torn", "target", "edited"}]
      BY <2>6, <1>0, ThreadTyped DEF Finish, TypeOK
    <3> QED
      BY <2>6, <3>1, <3>2, <1>0, <1>t DEF Finish, TypeOK
  <2>7. CASE After(h, t)
    <3>1. thread[h][t].pc \in Busy
      BY <2>7 DEF After, At, Busy
    <3>2. Reconciled(Here(h, t)) \in Outcome
      BY <1>0, ThreadTyped, ReconciledTyped
    <3>3. thread' \in [Host -> [Thread -> State]]
      BY <2>7, <3>1, <3>2, <1>p, <1>o DEF After, ObserveApply
    <3> QED
      BY <2>7, <3>3, <1>0, <1>t DEF After, TypeOK
  <2>8. CASE Inspect(h, t)
    <3>1. thread[h][t].pc \in Busy
      BY <2>8 DEF Inspect, At, Busy
    <3>2. Reconciled(Here(h, t)) \in Outcome
      BY <1>0, ThreadTyped, ReconciledTyped
    <3>3. thread' \in [Host -> [Thread -> State]]
      BY <2>8, <3>1, <3>2, <1>p, <1>o DEF Inspect
    <3>4. overlap' \in BOOLEAN
      BY <2>8, <1>0 DEF Inspect, TypeOK
    <3> QED
      BY <2>8, <3>3, <3>4, <1>0, <1>t DEF Inspect, TypeOK
  <2>9. CASE Record(h, t)
    <3>1. thread' \in [Host -> [Thread -> State]]
      BY <2>9, <1>p, <1>f DEF Record
    <3>2. report' \in Observation /\ due' \in [Host -> BOOLEAN]
          /\ intent' \in {"none", "pending", "dispatched", "receipt_written", "cancelled"}
      BY <2>9, <1>0, ThreadTyped, CommittedTyped DEF Record, TypeOK
    <3> QED
      BY <2>9, <3>1, <3>2, <1>0, <1>t DEF Record, TypeOK
  <2>10. CASE Reconcile(h, t)
    <3>1. status' \in Outcome \cup {"none", "partial", "rejected"} /\ due' \in [Host -> BOOLEAN]
      BY <2>10, <1>0, ApplyTyped DEF Reconcile, TypeOK
    <3> QED
      BY <2>10, <3>1, <1>0, <1>t, <1>r DEF Reconcile, TypeOK
  <2> QED
    BY <1>1, <2>1, <2>2, <2>21, <2>3, <2>4, <2>5, <2>6, <2>7, <2>8, <2>9, <2>10 DEF Step
<1>2. ASSUME NEW h \in Host, NEW value \in {"approved", "rejected"}, Decide(h, value)
      PROVE  TypeOK'
  <2>1. thread' \in [Host -> [Thread -> State]]
    BY <1>2, <1>0, <1>p, <1>w, <1>g DEF Decide
  <2>2. due' \in [Host -> BOOLEAN]
    BY <1>2, <1>0, CommittedTyped DEF Decide, TypeOK
  <2> QED
    BY <1>2, <2>1, <2>2, <1>0, <1>t DEF Decide, TypeOK
<1>3. ASSUME NEW h \in Host, Converge(h)
      PROVE  TypeOK'
  <2>1. CASE Pass(h)
    <3>1. thread' \in [Host -> [Thread -> State]]
      BY <2>1, <1>p, <1>w, <1>g DEF Pass
    <3> QED
      BY <2>1, <3>1, <1>0, <1>t DEF Pass, TypeOK
  <2>2. CASE Sweep(h)
    <3>1. thread' \in [Host -> [Thread -> State]]
      BY <2>2, <1>p, <1>w, <1>f, <1>g DEF Sweep
    <3>2. status' \in Outcome \cup {"none", "partial", "rejected"} /\ due' \in [Host -> BOOLEAN]
          /\ marker' \in [Host -> Thread \cup {"none"}]
      BY <2>2, <1>0, <1>w, ApplyTyped DEF Sweep, TypeOK
    <3> QED
      BY <2>2, <3>1, <3>2, <1>0, <1>t DEF Sweep, TypeOK
  <2>3. CASE Check(h)
    <3>1. thread' \in [Host -> [Thread -> State]]
      BY <2>3, <1>p, <1>w, <1>f DEF Check
    <3> QED
      BY <2>3, <3>1, <1>0, <1>t DEF Check, TypeOK
  <2>4. CASE Expire(h)
    <3>1. thread' \in [Host -> [Thread -> State]]
      BY <2>4, <1>w, <1>b, RestTyped DEF Expire
    <3>2. status' \in Outcome \cup {"none", "partial", "rejected"} /\ due' \in [Host -> BOOLEAN]
      BY <2>4, <1>0, ApplyTyped, CommittedTyped DEF Expire, TypeOK, Outcome
    <3>3. host' \in [Host -> {"off", "scanning", "up", "dead"}]
      BY <2>4, <1>0 DEF Expire, TypeOK
    <3> QED
      BY <2>4, <3>1, <3>2, <3>3, <1>0, <1>t DEF Expire, TypeOK
  <2> QED
    BY <1>3, <2>1, <2>2, <2>3, <2>4 DEF Converge
<1>4. ASSUME NEW h \in Host, Redrive(h)
      PROVE  TypeOK'
  BY <1>4, <1>0, <1>p, <1>w, <1>t, <1>g DEF Redrive, TypeOK
<1>5. ASSUME NEW h \in Host, Start(h)
      PROVE  TypeOK'
  <2>1. thread' \in [Host -> [Thread -> State]]
    BY <1>5, <1>p, <1>w, <1>g DEF Start
  <2>2. host' \in [Host -> {"off", "scanning", "up", "dead"}]
    BY <1>5, <1>0 DEF Start, TypeOK
  <2> QED
    BY <1>5, <2>1, <2>2, <1>0, <1>t DEF Start, TypeOK
<1>6. ASSUME NEW h \in Host, Crash(h)
      PROVE  TypeOK'
  <2>1. thread' \in [Host -> [Thread -> State]]
    BY <1>6, <1>0, RestTyped DEF Crash
  <2>2. /\ host' \in [Host -> {"off", "scanning", "up", "dead"}] /\ due' \in [Host -> BOOLEAN]
        /\ marker' \in [Host -> Thread \cup {"none"}]
    BY <1>6, <1>0 DEF Crash, TypeOK
  <2> QED
    BY <1>6, <2>1, <2>2, <1>0, <1>t DEF Crash, TypeOK
<1>7. ASSUME NEW h \in Host, TakeOver(h)
      PROVE  TypeOK'
  BY <1>7, <1>0 DEF TakeOver, TypeOK
<1>8. CASE Stop
  BY <1>8, <1>0 DEF Stop, TypeOK
<1>9. CASE EndTurn
  BY <1>9, <1>0 DEF EndTurn, TypeOK, Outcome
<1>10. ASSUME NEW m \in Member, Edit(m)
       PROVE  TypeOK'
  <2>1. disk' \in [Member -> {"base", "torn", "target", "edited"}]
    BY <1>10, <1>0 DEF Edit, TypeOK
  <2>2. edits' \in 0..bound.edits
    BY <1>10, <1>0, Bounded DEF Edit, TypeOK
  <2> QED
    BY <1>10, <2>1, <2>2, <1>0 DEF Edit, TypeOK
<1>11. CASE UNCHANGED vars
  BY <1>11, <1>0 DEF vars, TypeOK
<1> QED
  BY <1>1, <1>2, <1>3, <1>4, <1>5, <1>6, <1>7, <1>8, <1>9, <1>10, <1>11 DEF Next

-----------------------------------------------------------------------------
\* Places where nothing depends on what was observed
Calm == {"idle", "enter", "claim", "late", "reconcile", "sweep", "check", "expire"}

\* A step in which nothing is written, and after which every thread is where it was,
\* at rest with the files, or about to inspect them
LEMMA Aside ==
    ASSUME IInv, Claimed => Claimed', UNCHANGED <<bound, writes, saved, overlap>>,
           \A g \in Host, u \in Thread :
               \/ thread'[g][u] = thread[g][u]
               \/ thread'[g][u].pc \in Calm
               \/ /\ Claimed' /\ thread'[g][u].pc = "inspect"
                  /\ thread'[g][u].at = 1 /\ thread'[g][u].seen = <<>>
    PROVE  /\ OneApplies' /\ AllFit'
           /\ report' = report => Reports'
           /\ disk' = disk => OnDisk'
<1>1. \A g \in Host, u \in Thread : Applying(g, u)' => Applying(g, u)
  BY DEF Applying, Calm
<1>2. SomebodyApplies' => SomebodyApplies
  BY <1>1 DEF SomebodyApplies
<1>3. OneApplies'
  BY <1>1 DEF IInv, OneApplies
<1>4. ASSUME NEW g \in Host, NEW u \in Thread
      PROVE  Fits(thread[g][u])'
  <2>1. Fits(thread[g][u])
    BY DEF IInv, AllFit
  <2>2. CASE thread'[g][u] = thread[g][u]
    BY <2>1, <2>2, <1>2 DEF Fits, TrueOf, Tells
  <2>3. CASE thread'[g][u].pc \in Calm
    BY <2>3 DEF Fits, Calm
  <2>4. CASE /\ Claimed' /\ thread'[g][u].pc = "inspect"
             /\ thread'[g][u].at = 1 /\ thread'[g][u].seen = <<>>
    <3>1. 1 <= bound.members /\ Len(<<>>) = 1 - 1
      BY Bounded, FileAssumption DEF IInv, Member
    <3> QED
      BY <2>4, <3>1 DEF Fits
  <2> QED
    BY <2>2, <2>3, <2>4
<1>5. AllFit'
  BY <1>4 DEF AllFit
<1>6. report' = report => Reports'
  BY <1>2 DEF IInv, Reports, TrueOf, Tells
<1>7. disk' = disk => OnDisk'
  BY DEF IInv, OnDisk
<1> QED
  BY <1>3, <1>5, <1>6, <1>7

\* While a thread applies, nobody else has anything to say about the files
LEMMA ApplierMoves ==
    ASSUME IInv, NEW h \in Host, NEW t \in Thread, Applying(h, t), NEW s \in State, Become(h, t, s),
           UNCHANGED <<bound, overlap, report, intent>>
    PROVE  /\ OneApplies' /\ Reports'
           /\ thread'[h][t] = s
           /\ \A g \in Host, u \in Thread : ~(g = h /\ u = t) => Fits(thread[g][u])' /\ ~Applying(g, u)'
<1>1. \A g \in Host, u \in Thread : thread'[g][u] = IF g = h /\ u = t THEN s ELSE thread[g][u]
  BY ThreadsTyped, BecomeMoves DEF IInv
<1>2. \A g \in Host, u \in Thread : ~(g = h /\ u = t) => ~Applying(g, u)
  BY DEF IInv, OneApplies
<1>3. \A g \in Host, u \in Thread : ~(g = h /\ u = t) => ~Applying(g, u)'
  BY <1>1, <1>2 DEF Applying
<1>4. SomebodyApplies
  BY DEF SomebodyApplies
<1>5. ASSUME NEW g \in Host, NEW u \in Thread, ~(g = h /\ u = t)
      PROVE  Fits(thread[g][u])'
  <2>1. Fits(thread[g][u]) /\ ~Applying(g, u) /\ thread'[g][u] = thread[g][u]
    BY <1>1, <1>2, <1>5 DEF IInv, AllFit
  <2>2. thread[g][u].pc \notin {"execute", "read", "write", "writing", "after"}
    BY <2>1 DEF Applying
  <2>3. thread[g][u].pc = "record" => overlap
    BY <2>1, <1>4 DEF Fits
  <2>4. thread[g][u].pc = "inspect" /\ thread[g][u].seen # <<>> => overlap
    BY <2>1, <1>4 DEF Fits
  <2>5. Claimed' <=> Claimed
    BY DEF Claimed
  <2>6. /\ thread[g][u].pc \in {"inspect", "record"} => Claimed
        /\ thread[g][u].pc = "inspect" =>
               Len(thread[g][u].seen) = thread[g][u].at - 1 /\ thread[g][u].at <= bound.members
    BY <2>1 DEF Fits
  <2> QED
    BY <2>1, <2>2, <2>3, <2>4, <2>5, <2>6 DEF Fits
<1>6. OneApplies'
  BY <1>3 DEF OneApplies
<1>7. Reports'
  BY <1>4 DEF IInv, Reports
<1> QED
  BY <1>1, <1>3, <1>5, <1>6, <1>7

\* What is found on disk tells the truth about what was written
LEMMA ReconciledTells ==
    ASSUME IInv, NEW m \in Member
    PROVE  Tells(Reconciled(m), m)
BY DEF IInv, OnDisk, Reconciled, Digest, Tells

\* apply observes a member: the next one is read, or nobody applies any more
LEMMA ApplyObserves ==
    ASSUME IInv, NEW h \in Host, NEW t \in Thread, NEW o \in Outcome,
           thread[h][t].pc \in {"read", "write", "after"}, Tells(o, Here(h, t)),
           ObserveApply(h, t, o),
           UNCHANGED <<bound, overlap, report, intent, disk, writes, saved>>
    PROVE  OneApplies' /\ AllFit' /\ OnDisk' /\ Reports'
<1> DEFINE at == Here(h, t)
           next == IF o = "succeeded" THEN "read" ELSE "record"
<1>1. /\ Len(Seen(h, t)) = at - 1 /\ at <= bound.members /\ at \in Member /\ at \in Nat /\ Claimed
  BY Placed DEF Busy
<1>2. Observe(h, t, o, next) /\ next \in Place
  BY DEF ObserveApply, Place
<1>3. PICK s \in State :
          /\ Become(h, t, s)
          /\ Len(s.seen) = at /\ DOMAIN s.seen = 1..at
          /\ \A i \in 1..(at - 1) : s.seen[i] = Seen(h, t)[i]
          /\ s.seen[at] = o
          /\ IF at < bound.members THEN s.pc = next /\ s.at = at + 1 ELSE s.pc = "record"
  BY <1>1, <1>2, ObserveMoves DEF IInv
<1>4. Applying(h, t)
  BY DEF Applying
<1>5. /\ OneApplies' /\ Reports' /\ thread'[h][t] = s
      /\ \A g \in Host, u \in Thread : ~(g = h /\ u = t) => Fits(thread[g][u])' /\ ~Applying(g, u)'
  BY <1>3, <1>4, ApplierMoves
<1>6. OnDisk'
  BY DEF IInv, OnDisk
<1>7. /\ \A i \in DOMAIN Seen(h, t) : Seen(h, t)[i] = "succeeded"
      /\ \A m \in Member : (m < at => writes[m] = 1) /\ (m > at => writes[m] = 0)
  BY DEF IInv, AllFit, Fits, Here, Seen
<1>8. DOMAIN Seen(h, t) = 1..(at - 1)
  BY <1>1, ThreadTyped, ObservationSeq DEF IInv
<1>9. \A m \in Member : m \in Nat /\ writes[m] \in 0..2
  BY FileAssumption DEF IInv, TypeOK, Member
<1>10. Fits(thread[h][t])'
  <2>1. CASE at < bound.members /\ o = "succeeded"
    <3>1. s.pc = "read" /\ s.at = at + 1 /\ Len(s.seen) = s.at - 1 /\ s.at <= bound.members
      BY <1>1, <1>3, <2>1, Bounded DEF IInv
    <3>2. \A i \in DOMAIN s.seen : s.seen[i] = "succeeded"
      BY <1>1, <1>3, <1>7, <1>8, <2>1
    <3>3. \A m \in Member : (m < s.at => writes'[m] = 1) /\ (m >= s.at => writes'[m] = 0)
      BY <1>1, <1>7, <1>9, <2>1, <3>1 DEF Tells
    <3>4. writes'[s.at] = 0
      BY <3>1, <3>3, <1>1, Bounded, FileAssumption DEF IInv, Member
    <3>5. Claimed' /\ \A m \in Member : (m < s.at => writes'[m] = 1) /\ (m > s.at => writes'[m] = 0)
      BY <1>1, <3>3, <3>1, <1>9 DEF Claimed
    <3> QED
      BY <3>1, <3>2, <3>4, <3>5, <1>5 DEF Fits
  <2>2. CASE ~(at < bound.members /\ o = "succeeded")
    <3>1. s.pc = "record"
      BY <1>3, <2>2
    <3>2. ~SomebodyApplies'
      BY <1>5, <3>1 DEF SomebodyApplies, Applying
    <3>3. ASSUME NEW m \in Member
          PROVE  IF m \in DOMAIN s.seen THEN Tells(s.seen[m], m)' ELSE writes'[m] = 0
      <4>1. CASE m < at
        <5>1. m \in 1..(at - 1) /\ m \in DOMAIN s.seen
          BY <4>1, <1>3, <1>9, <1>1, FileAssumption DEF Member
        <5>2. s.seen[m] = "succeeded" /\ writes'[m] = 1
          BY <4>1, <5>1, <1>3, <1>7, <1>8
        <5> QED
          BY <5>1, <5>2 DEF Tells
      <4>2. CASE m = at
        BY <4>2, <1>3, <1>1 DEF Tells
      <4>3. CASE m > at
        BY <4>3, <1>3, <1>7, <1>9, <1>1
      <4> QED
        BY <4>1, <4>2, <4>3, <1>9, <1>1
    <3>4. Claimed'
      BY <1>1 DEF Claimed
    <3> QED
      BY <3>1, <3>2, <3>3, <3>4, <1>5 DEF Fits, TrueOf
  <2> QED
    BY <2>1, <2>2
<1>11. AllFit'
  BY <1>5, <1>10 DEF AllFit
<1> QED
  BY <1>5, <1>6, <1>11

-----------------------------------------------------------------------------
Safe == OneApplies /\ AllFit /\ OnDisk /\ Reports

\* Steps that leave the files and the claim alone, by what becomes of the thread
LEMMA CalmSafe ==
    ASSUME IInv, NEW h \in Host, NEW t \in Thread, NEW s \in State, Become(h, t, s),
           s.pc \in Calm \/ (Claimed' /\ s.pc = "inspect" /\ s.at = 1 /\ s.seen = <<>>),
           Claimed => Claimed', UNCHANGED <<bound, disk, writes, saved, overlap, report>>
    PROVE  Safe'
<1>1. \A g \in Host, u \in Thread : thread'[g][u] = IF g = h /\ u = t THEN s ELSE thread[g][u]
  BY ThreadsTyped, BecomeMoves DEF IInv
<1>2. \A g \in Host, u \in Thread :
          \/ thread'[g][u] = thread[g][u]
          \/ thread'[g][u].pc \in Calm
          \/ /\ Claimed' /\ thread'[g][u].pc = "inspect"
             /\ thread'[g][u].at = 1 /\ thread'[g][u].seen = <<>>
  BY <1>1
<1> QED
  BY <1>2, Aside DEF Safe

LEMMA StillSafe ==
    ASSUME IInv, Claimed => Claimed', UNCHANGED <<bound, disk, writes, saved, overlap, report, thread>>
    PROVE  Safe'
BY Aside DEF Safe

\* A thread of control that applies or inspects
LEMMA StepSafe ==
    ASSUME IInv, NEW h \in Host, NEW t \in Thread, Step(h, t)
    PROVE  Safe'
<1> USE DEF rows, turnVars, hostVars, diskVars, history
<1>0. TypeOK /\ thread \in [Host -> [Thread -> State]]
  BY ThreadsTyped DEF IInv
<1>p. \A x \in Calm \cup {"execute", "read", "write", "writing", "after", "inspect", "record"} : x \in Place
  BY DEF Calm, Place
<1>m. \A m \in Member : m \in Nat /\ m >= 1 /\ writes[m] \in 0..2
  BY <1>0, FileAssumption DEF TypeOK, Member
<1>r. ASSUME Return(h, t), Claimed => Claimed',
             UNCHANGED <<bound, disk, writes, saved, overlap, report>>
      PROVE  Safe'
  <2>1. PICK s \in State : Become(h, t, s) /\ s.pc \in {"idle", "expire", "sweep"}
    BY <1>0, <1>r, ReturnTyped
  <2>2. s.pc \in Calm
    BY <2>1 DEF Calm
  <2> QED
    BY <2>1, <2>2, <1>r, CalmSafe
<1>g. ASSUME NEW where \in Calm, Goto(h, t, where), Claimed => Claimed',
             UNCHANGED <<bound, disk, writes, saved, overlap, report>>
      PROVE  Safe'
  <2>1. PICK s \in State : Become(h, t, s) /\ s.pc = where
    BY <1>0, <1>p, <1>g, GotoTyped
  <2> QED
    BY <2>1, <1>g, CalmSafe
<1>1. CASE Enter(h, t)
  BY <1>1, <1>g DEF Enter, Claimed, Calm
<1>21. CASE Late(h, t)
  BY <1>21, <1>r, <1>g DEF Late, Claimed, Calm
<1>2. CASE Claim(h, t)
  <2>1. CASE Claimable /\ CancelPending /\ Return(h, t) /\ UNCHANGED <<claimant, saved>>
    BY <1>2, <2>1, <1>r DEF Claim, Claimable, Claimed, CancelPending
  <2>2. CASE Return(h, t) /\ UNCHANGED <<rows, due, claimant, saved>>
    BY <1>2, <2>2, <1>r DEF Claim, Claimed
  <2>3. CASE Goto(h, t, "reconcile") /\ UNCHANGED <<rows, due, marker, claimant, saved>>
    BY <1>2, <2>3, <1>g DEF Claim, Claimed, Calm
  <2>4. CASE /\ Claimable /\ intent' = "dispatched"
             /\ saved' = {m \in Member : disk[m] = "edited"}
             /\ Goto(h, t, "execute") /\ UNCHANGED report
    <3>1. UNCHANGED <<bound, disk, writes, overlap, report>>
      BY <1>2, <2>4 DEF Claim
    <3>2. ~Claimed /\ report = <<>> /\ Claimed'
      BY <2>4 DEF Claimable, Claimed, IInv, Decided
    <3>3. \A m \in Member : writes[m] = 0
      BY <3>2 DEF IInv, Decided
    <3>4. PICK s \in State : Become(h, t, s) /\ s.pc = "execute"
      BY <2>4, <1>0, <1>p, GotoTyped
    <3>5. \A g \in Host, u \in Thread : thread'[g][u] = IF g = h /\ u = t THEN s ELSE thread[g][u]
      BY <3>4, <1>0, BecomeMoves
    <3>6. \A g \in Host, u \in Thread :
              thread[g][u].pc \notin {"execute", "read", "write", "writing", "after", "inspect", "record"}
      BY <3>2 DEF IInv, AllFit, Fits
    <3>7. OneApplies'
      BY <3>5, <3>6 DEF OneApplies, Applying
    <3>8. AllFit'
      BY <3>1, <3>2, <3>3, <3>4, <3>5, <3>6 DEF AllFit, Fits
    <3>9. OnDisk'
      BY <2>4, <3>1, <3>3 DEF IInv, OnDisk
    <3>10. Reports'
      BY <3>1, <3>2 DEF Reports
    <3> QED
      BY <3>7, <3>8, <3>9, <3>10 DEF Safe
  <2>5. CASE intent = "dispatched" /\ Become(h, t, FromFirst("inspect"))
             /\ UNCHANGED <<rows, due, marker, claimant, saved>>
    BY <1>2, <2>5, <1>p, FromFirstTyped, CalmSafe DEF Claim, Claimed
  <2> QED
    BY <1>2, <2>1, <2>2, <2>3, <2>4, <2>5 DEF Claim, Lose
<1>3. CASE Execute(h, t)
  <2>1. CASE Return(h, t)
    BY <1>3, <2>1, <1>r DEF Execute, Claimed
  <2>2. CASE Become(h, t, FromFirst("inspect"))
    <3>1. Claimed'
      BY <1>3 DEF Execute, At, IInv, AllFit, Fits, Claimed
    <3> QED
      BY <1>3, <2>2, <3>1, <1>p, FromFirstTyped, CalmSafe DEF Execute
  <2>3. CASE Become(h, t, FromFirst("read"))
    <3>1. UNCHANGED <<bound, overlap, report, intent, disk, writes, saved>> /\ Applying(h, t)
      BY <1>3 DEF Execute, At, Applying
    <3>2. /\ FromFirst("read") \in State /\ FromFirst("read").pc = "read"
          /\ FromFirst("read").at = 1 /\ FromFirst("read").seen = <<>>
      BY <1>p, FromFirstTyped
    <3>3. PICK s \in State : /\ Become(h, t, s)
                             /\ s.pc = "read" /\ s.at = 1 /\ s.seen = <<>>
      BY <2>3, <3>2
    <3>4. /\ OneApplies' /\ Reports' /\ thread'[h][t] = s
          /\ \A g \in Host, u \in Thread : ~(g = h /\ u = t) => Fits(thread[g][u])'
      BY <3>1, <3>3, ApplierMoves
    <3>5. Claimed /\ \A m \in Member : writes[m] = 0
      BY <1>3 DEF Execute, At, IInv, AllFit, Fits
    <3>6. 1 \in Member /\ 1 <= bound.members /\ Len(<<>>) = 1 - 1 /\ \A m \in Member : ~(m < 1)
      BY <1>m, Bounded, FileAssumption DEF IInv, Member
    <3>7. Fits(thread[h][t])'
      BY <3>1, <3>3, <3>4, <3>5, <3>6 DEF Fits, Claimed
    <3>8. OnDisk'
      BY <3>1 DEF IInv, OnDisk
    <3> QED
      BY <3>4, <3>7, <3>8 DEF Safe, AllFit
  <2> QED
    BY <1>3, <2>1, <2>2, <2>3 DEF Execute
<1>o. ASSUME NEW o \in Outcome, thread[h][t].pc \in {"read", "write", "after"}, Tells(o, Here(h, t)),
             ObserveApply(h, t, o),
             UNCHANGED <<bound, overlap, report, intent, disk, writes, saved>>
      PROVE  Safe'
  BY <1>o, ApplyObserves DEF Safe
\* A step on the member the thread is at
<1>a. ASSUME NEW where \in {"write", "writing", "after"}, Goto(h, t, where),
             thread[h][t].pc \in {"read", "write", "writing"},
             UNCHANGED <<bound, overlap, report, intent, saved>>,
             \A m \in Member : m # Here(h, t) => writes'[m] = writes[m],
             where = "write" => writes'[Here(h, t)] = 0,
             where \in {"write", "writing"} => Here(h, t) \notin saved,
             where = "writing" => writes'[Here(h, t)] = 1,
             OnDisk'
      PROVE  Safe'
  <2>1. PICK s \in State : /\ Become(h, t, s)
                           /\ s.pc = where /\ s.at = Here(h, t) /\ s.seen = Seen(h, t)
    BY <1>a, <1>0, <1>p, GotoTyped
  <2>2. Applying(h, t)
    BY <1>a DEF Applying
  <2>3. /\ OneApplies' /\ Reports' /\ thread'[h][t] = s
        /\ \A g \in Host, u \in Thread : ~(g = h /\ u = t) => Fits(thread[g][u])'
    BY <1>a, <2>1, <2>2, ApplierMoves
  <2>4. /\ Claimed /\ Len(s.seen) = s.at - 1 /\ s.at <= bound.members
        /\ \A i \in DOMAIN s.seen : s.seen[i] = "succeeded"
        /\ \A m \in Member : (m < s.at => writes[m] = 1) /\ (m > s.at => writes[m] = 0)
    BY <1>a, <2>1 DEF IInv, AllFit, Fits, Here, Seen
  <2>5. \A m \in Member : (m < s.at => writes'[m] = 1) /\ (m > s.at => writes'[m] = 0)
    BY <1>a, <2>1, <2>4, <1>m, Placed DEF Busy
  <2>6. Fits(thread[h][t])'
    BY <1>a, <2>1, <2>3, <2>4, <2>5 DEF Fits, Claimed
  <2> QED
    BY <1>a, <2>3, <2>6 DEF Safe, AllFit
<1>w. thread[h][t].pc \in {"read", "write"} => writes[Here(h, t)] = 0
  BY DEF IInv, AllFit, Fits, Here
<1>4. CASE Read(h, t)
  <2>1. /\ thread[h][t].pc = "read" /\ UNCHANGED <<bound, overlap, report, intent, disk, writes, saved>>
        /\ Here(h, t) \in Member
    BY <1>4, <1>0, ThreadTyped DEF Read, At
  <2>2. CASE ObserveApply(h, t, "cancelled") \/ ObserveApply(h, t, "conflict")
    BY <2>1, <2>2, <1>w, <1>o DEF Outcome, Tells
  <2>3. CASE Digest(Here(h, t)) = "base" /\ Goto(h, t, "write")
    <3>1. Here(h, t) \notin saved
      BY <2>1, <2>3 DEF Digest, IInv, OnDisk
    <3>2. OnDisk'
      BY <2>1 DEF IInv, OnDisk
    <3> QED
      BY <2>1, <2>3, <3>1, <3>2, <1>w, <1>a
  <2> QED
    BY <1>4, <2>2, <2>3 DEF Read
<1>5. CASE Write(h, t)
  <2>1. /\ thread[h][t].pc = "write" /\ UNCHANGED <<bound, overlap, report, intent, saved>>
        /\ Here(h, t) \in Member /\ writes[Here(h, t)] = 0 /\ Here(h, t) \notin saved
    BY <1>5, <1>0, <1>w, ThreadTyped DEF Write, At, IInv, AllFit, Fits, Here
  <2>2. CASE ObserveApply(h, t, "cancelled") /\ UNCHANGED diskVars
    BY <2>1, <2>2, <1>o DEF Outcome, Tells
  <2>3. CASE Goto(h, t, "after") /\ UNCHANGED diskVars
    <3>1. OnDisk'
      BY <2>1, <2>3 DEF IInv, OnDisk
    <3> QED
      BY <2>1, <2>3, <3>1, <1>a
  <2>4. CASE /\ disk' = [disk EXCEPT ![Here(h, t)] = "torn"]
             /\ writes' = [writes EXCEPT ![Here(h, t)] = @ + 1]
             /\ Goto(h, t, "writing")
    <3>1. /\ \A m \in Member : m # Here(h, t) => writes'[m] = writes[m] /\ disk'[m] = disk[m]
          /\ writes'[Here(h, t)] = 1 /\ disk'[Here(h, t)] = "torn"
      BY <2>1, <2>4, <1>0 DEF TypeOK
    <3>2. /\ Here(h, t) <= bound.members /\ Here(h, t) \in Nat
          /\ \A m \in Member : m < Here(h, t) => writes[m] = 1
      BY <2>1, Placed DEF Busy, IInv, AllFit, Fits, Here
    <3>3. ASSUME NEW m \in Member
          PROVE  /\ writes'[m] <= 1
                 /\ m > bound.members => writes'[m] = 0
                 /\ disk'[m] = "base" => writes'[m] = 0
                 /\ disk'[m] = "target" => writes'[m] = 1
                 /\ m \in saved => disk'[m] = "edited"
      <4>1. CASE m = Here(h, t)
        BY <4>1, <2>1, <3>1, <3>2, <1>m, Bounded DEF IInv
      <4>2. CASE m # Here(h, t)
        BY <4>2, <3>1 DEF IInv, OnDisk
      <4> QED
        BY <4>1, <4>2
    <3>4. ASSUME NEW m \in Member, writes'[m] > 0, m > 1
          PROVE  writes'[m - 1] > 0
      <4>1. m - 1 \in Member
        BY <3>4, FileAssumption DEF Member
      <4>2. CASE m = Here(h, t)
        BY <4>1, <4>2, <3>1, <3>2, <1>m
      <4>3. CASE m # Here(h, t)
        <5>1. writes[m] > 0 /\ writes[m - 1] > 0
          BY <4>3, <3>1, <3>4 DEF IInv, OnDisk
        <5> QED
          BY <4>1, <5>1, <3>1
      <4> QED
        BY <4>2, <4>3
    <3>5. OnDisk'
      BY <2>1, <3>3, <3>4 DEF OnDisk
    <3> QED
      BY <2>1, <2>4, <3>1, <3>5, <1>a
  <2> QED
    BY <1>5, <2>2, <2>3, <2>4 DEF Write
<1>6. CASE Finish(h, t)
  <2>1. /\ thread[h][t].pc = "writing" /\ UNCHANGED <<bound, overlap, report, intent, saved, writes>>
        /\ Here(h, t) \in Member /\ writes[Here(h, t)] = 1 /\ Here(h, t) \notin saved
        /\ Goto(h, t, "after")
    BY <1>6, <1>0, ThreadTyped DEF Finish, At, IInv, AllFit, Fits, Here
  <2>2. PICK d \in {disk[Here(h, t)], "target"} : disk' = [disk EXCEPT ![Here(h, t)] = d]
    BY <1>6 DEF Finish
  <2>3. \A m \in Member : disk'[m] = disk[m] \/ (m = Here(h, t) /\ disk'[m] = "target")
    BY <2>1, <2>2, <1>0 DEF TypeOK
  <2>4. OnDisk'
    BY <2>1, <2>3 DEF IInv, OnDisk
  <2> QED
    BY <2>1, <2>4, <1>a
<1>7. CASE After(h, t)
  BY <1>7, <1>0, <1>o, ThreadTyped, ReconciledTyped, ReconciledTells DEF After, At
<1>8. CASE Inspect(h, t)
  <2> DEFINE at == Here(h, t)
             o == Reconciled(at)
  <2>1. /\ thread[h][t].pc = "inspect" /\ UNCHANGED <<bound, report, intent, saved, writes, disk>>
        /\ overlap' = (overlap \/ SomebodyApplies) /\ Observe(h, t, o, "inspect")
    BY <1>8 DEF Inspect, At
  <2>2. /\ Len(Seen(h, t)) = at - 1 /\ at <= bound.members /\ at \in Member /\ at \in Nat /\ Claimed
    BY <2>1, Placed DEF Busy
  <2>3. o \in Outcome /\ Tells(o, at) /\ "inspect" \in Place
    BY <1>p, <2>2, ReconciledTyped, ReconciledTells
  <2>4. PICK s \in State :
            /\ Become(h, t, s)
            /\ Len(s.seen) = at /\ DOMAIN s.seen = 1..at
            /\ \A i \in 1..(at - 1) : s.seen[i] = Seen(h, t)[i]
            /\ s.seen[at] = o
            /\ IF at < bound.members THEN s.pc = "inspect" /\ s.at = at + 1 ELSE s.pc = "record"
    BY SMTT(30), <2>1, <2>2, <2>3, <1>0, ObserveMoves
  <2>5. \A g \in Host, u \in Thread : thread'[g][u] = IF g = h /\ u = t THEN s ELSE thread[g][u]
    BY <2>4, <1>0, BecomeMoves
  <2>6. \A g \in Host, u \in Thread : Applying(g, u)' <=> Applying(g, u)
    BY <2>1, <2>4, <2>5 DEF Applying
  <2>7. SomebodyApplies' <=> SomebodyApplies
    BY <2>6 DEF SomebodyApplies
  <2>8. OneApplies'
    BY <2>6 DEF IInv, OneApplies
  <2>9. OnDisk'
    BY <2>1 DEF IInv, OnDisk
  <2>10. Reports'
    BY <2>1, <2>7, <1>0 DEF IInv, Reports, TrueOf, Tells, TypeOK
  <2>11. ASSUME NEW g \in Host, NEW u \in Thread, ~(g = h /\ u = t)
         PROVE  Fits(thread[g][u])'
    <3>1. Fits(thread[g][u]) /\ thread'[g][u] = thread[g][u]
      BY <2>5, <2>11 DEF IInv, AllFit
    <3>2. ~overlap' => ~overlap
      BY <2>1
    <3> QED
      BY <2>1, <2>7, <3>1, <3>2 DEF Fits, TrueOf, Tells, Claimed
  <2>12. ASSUME ~overlap'
         PROVE  ~SomebodyApplies' /\ \A m \in DOMAIN s.seen : Tells(s.seen[m], m)'
    <3>1. ~overlap /\ ~SomebodyApplies
      BY <2>1, <2>12
    <3>2. DOMAIN Seen(h, t) = 1..(at - 1)
      BY <2>2, <1>0, ThreadTyped, ObservationSeq
    <3>3. ASSUME NEW m \in DOMAIN s.seen, m # at
          PROVE  Tells(s.seen[m], m)
      <4>1. m \in 1..(at - 1) /\ m \in DOMAIN Seen(h, t)
        BY <2>2, <2>4, <3>2, <3>3
      <4>2. Seen(h, t) # <<>>
        BY <4>1
      <4> QED
        BY <2>1, <2>4, <3>1, <4>1, <4>2 DEF IInv, AllFit, Fits, Seen
    <3>4. \A m \in DOMAIN s.seen : Tells(s.seen[m], m)
      BY <2>3, <2>4, <3>3
    <3> QED
      BY <2>1, <2>7, <3>1, <3>4 DEF Tells
  <2>13. Fits(thread[h][t])'
    <3>1. thread'[h][t] = s /\ Claimed'
      BY <2>1, <2>2, <2>5 DEF Claimed
    <3>2. CASE at < bound.members
      BY <2>1, <2>2, <2>4, <2>12, <3>1, <3>2, Bounded DEF Fits, IInv
    <3>3. CASE ~(at < bound.members)
      <4>1. s.pc = "record" /\ DOMAIN s.seen = 1..bound.members
        BY <2>2, <2>4, <3>3, Bounded DEF IInv
      <4>2. \A m \in Member : m \notin DOMAIN s.seen => writes'[m] = 0
        BY <2>1, <4>1, <1>m, Bounded DEF IInv, OnDisk
      <4> QED
        BY <2>12, <3>1, <4>1, <4>2 DEF Fits, TrueOf
    <3> QED
      BY <3>2, <3>3
  <2> QED
    BY <2>8, <2>9, <2>10, <2>11, <2>13 DEF Safe, AllFit
<1>9. CASE Record(h, t)
  <2>1. /\ thread[h][t].pc = "record" /\ UNCHANGED <<bound, saved, writes, disk, overlap>>
        /\ Become(h, t, FromFirst("reconcile"))
        /\ report' = report \/ report' = Seen(h, t)
    BY <1>9 DEF Record, At
  <2>2. Claimed'
    BY <1>9, <2>1 DEF Record, IInv, AllFit, Fits, Claimed
  <2>3. FromFirst("reconcile") \in State /\ FromFirst("reconcile").pc = "reconcile"
    BY <1>p, FromFirstTyped DEF Calm
  <2>4. \A g \in Host, u \in Thread :
            thread'[g][u] = IF g = h /\ u = t THEN FromFirst("reconcile") ELSE thread[g][u]
    BY <2>1, <2>3, <1>0, BecomeMoves
  <2>5. \A g \in Host, u \in Thread :
            thread'[g][u] = thread[g][u] \/ thread'[g][u].pc \in Calm
    BY <2>3, <2>4 DEF Calm
  <2>6. OneApplies' /\ AllFit' /\ OnDisk' /\ (report' = report => Reports')
    BY <2>1, <2>2, <2>5, Aside
  <2>7. ASSUME report' = Seen(h, t)
        PROVE  Reports'
    <3>1. ~overlap => ~SomebodyApplies /\ TrueOf(Seen(h, t))
      BY <2>1 DEF IInv, AllFit, Fits, Seen
    <3>2. SomebodyApplies' => SomebodyApplies
      BY <2>5 DEF SomebodyApplies, Applying, Calm
    <3> QED
      BY <2>1, <2>7, <3>1, <3>2 DEF Reports, TrueOf, Tells
  <2> QED
    BY <2>1, <2>6, <2>7 DEF Safe
<1>10. CASE Reconcile(h, t)
  BY <1>10, <1>r DEF Reconcile, Claimed
<1> QED
  BY <1>1, <1>2, <1>21, <1>3, <1>4, <1>5, <1>6, <1>7, <1>8, <1>9, <1>10 DEF Step

-----------------------------------------------------------------------------
\* What the rows say stays, and they agree
LEMMA RowsKept ==
    ASSUME IInv, [Next]_vars
    PROVE  /\ Decided'
           /\ decision # "none" => decision' = decision
           /\ report # <<>> => report' = report
           /\ status # "none" => status' = status
<1> USE DEF rows, turnVars, hostVars, diskVars, history
<1> DEFINE Facts == /\ decision # "none" => decision' = decision
                    /\ report # <<>> => report' = report
                    /\ status # "none" => status' = status
<1>0. TypeOK /\ Decided
  BY DEF IInv
<1>u. ASSUME UNCHANGED <<decision, intent, report, status, saved, writes>>
      PROVE  Decided' /\ Facts
  BY <1>0, <1>u DEF Decided, Claimed
<1>a. ASSUME NEW h \in Host, Apply(h), UNCHANGED <<decision, intent, report, saved, writes>>
      PROVE  Decided' /\ Facts
  <2>1. (status # "none" => status' = status) /\ (report = <<>> => status' = status)
    BY <1>0, <1>a, ApplyTyped
  <2> QED
    BY <1>0, <1>a, <2>1 DEF Decided, Claimed
<1>1. ASSUME NEW h \in Host, NEW t \in Thread, Step(h, t)
      PROVE  Decided' /\ Facts
  <2>1. CASE Enter(h, t) \/ Late(h, t) \/ Execute(h, t) \/ Read(h, t) \/ Finish(h, t) \/ After(h, t)
             \/ Inspect(h, t)
    BY <2>1, <1>u DEF Enter, Late, Execute, Read, Finish, After, Inspect
  <2>2. CASE Claim(h, t)
    <3>1. CASE Claimable /\ CancelPending /\ UNCHANGED <<claimant, saved>>
      BY <2>2, <3>1, <1>0 DEF Claim, Claimable, CancelPending, Decided, Claimed
    <3>2. CASE UNCHANGED rows /\ UNCHANGED saved
      BY <2>2, <3>2, <1>u DEF Claim
    <3>3. CASE /\ Claimable /\ intent' = "dispatched"
               /\ UNCHANGED <<decision, report, status>>
      BY <2>2, <3>3, <1>0 DEF Claim, Claimable, Decided, Claimed
    <3> QED
      BY <2>2, <3>1, <3>2, <3>3 DEF Claim, Lose
  <2>3. CASE Write(h, t)
    <3>1. Claimed /\ UNCHANGED <<decision, intent, report, status, saved>>
      BY <2>3 DEF Write, At, IInv, AllFit, Fits
    <3> QED
      BY <3>1, <1>0 DEF Decided, Claimed
  <2>4. CASE Record(h, t)
    <3>1. Claimed /\ UNCHANGED <<decision, status, saved, writes>>
      BY <2>4 DEF Record, At, IInv, AllFit, Fits
    <3>2. CASE report = <<>> /\ intent' = "receipt_written"
      BY <3>1, <3>2, <1>0 DEF Decided, Claimed
    <3>3. CASE report # <<>> /\ UNCHANGED <<report, intent>>
      BY <3>1, <3>3, <1>u
    <3> QED
      BY <2>4, <3>2, <3>3 DEF Record
  <2>5. CASE Reconcile(h, t)
    BY <2>5, <1>a, <1>u DEF Reconcile
  <2> QED
    BY <1>1, <2>1, <2>2, <2>3, <2>4, <2>5 DEF Step
<1>2. ASSUME NEW h \in Host, NEW value \in {"approved", "rejected"}, Decide(h, value)
      PROVE  Decided' /\ Facts
  <2>1. CASE decision = "none"
    <3>1. intent = "none" /\ status = "none" /\ report = <<>> /\ ~Claimed
      BY <2>1, <1>0 DEF Decided, Claimed
    <3> QED
      BY <1>2, <2>1, <3>1, <1>0 DEF Decide, Decided, Claimed
  <2>2. CASE decision # "none"
    BY <1>2, <2>2, <1>u DEF Decide
  <2> QED
    BY <2>1, <2>2
<1>3. ASSUME NEW h \in Host, Converge(h)
      PROVE  Decided' /\ Facts
  <2>1. CASE Pass(h) \/ Check(h)
    BY <2>1, <1>u DEF Pass, Check
  <2>2. CASE Sweep(h)
    BY <2>2, <1>a, <1>u DEF Sweep
  <2>3. CASE Expire(h)
    <3>1. CASE decision = "none" /\ decision' = "expired" /\ status' = "cancelled"
      <4>1. intent = "none" /\ status = "none" /\ report = <<>> /\ ~Claimed
        BY <3>1, <1>0 DEF Decided, Claimed
      <4> QED
        BY <2>3, <3>1, <4>1, <1>0 DEF Expire, Decided, Claimed
    <3>2. CASE Apply(h) /\ UNCHANGED decision
      BY <2>3, <3>2, <1>a DEF Expire
    <3> QED
      BY <2>3, <3>1, <3>2 DEF Expire
  <2> QED
    BY <1>3, <2>1, <2>2, <2>3 DEF Converge
<1>4. ASSUME NEW h \in Host, Redrive(h) \/ Start(h) \/ Crash(h) \/ TakeOver(h)
      PROVE  Decided' /\ Facts
  BY <1>4, <1>u DEF Redrive, Start, Crash, TakeOver
<1>5. CASE Stop \/ UNCHANGED vars
  BY <1>5, <1>u DEF Stop, vars
<1>6. CASE EndTurn
  <2>1. CASE UNCHANGED <<decision, status>>
    BY <1>6, <2>1, <1>u DEF EndTurn
  <2>2. CASE decision = "none" /\ decision' = "expired" /\ status' = "cancelled"
    <3>1. intent = "none" /\ status = "none" /\ report = <<>> /\ ~Claimed
      BY <2>2, <1>0 DEF Decided, Claimed
    <3> QED
      BY <1>6, <2>2, <3>1, <1>0 DEF EndTurn, Decided, Claimed
  <2> QED
    BY <1>6, <2>1, <2>2 DEF EndTurn
<1>7. ASSUME NEW m \in Member, Edit(m)
      PROVE  Decided' /\ Facts
  BY <1>7, <1>u DEF Edit
<1> QED
  BY <1>1, <1>2, <1>3, <1>4, <1>5, <1>6, <1>7 DEF Next

LEMMA SafeKept ==
    ASSUME IInv, [Next]_vars
    PROVE  Safe'
<1> USE DEF rows, turnVars, hostVars, diskVars, history
<1>0. TypeOK /\ thread \in [Host -> [Thread -> State]] /\ "window" \in Thread /\ "pass" \in Thread
  BY ThreadsTyped DEF IInv, Thread
<1>p. \A x \in Calm \cup {"inspect"} : x \in Place
  BY DEF Calm, Place
<1>g. ASSUME NEW h \in Host, NEW t \in Thread, NEW where \in Calm, Goto(h, t, where),
             Claimed => Claimed', UNCHANGED <<bound, disk, writes, saved, overlap, report>>
      PROVE  Safe'
  <2>1. PICK s \in State : Become(h, t, s) /\ s.pc = where
    BY <1>0, <1>p, <1>g, GotoTyped
  <2> QED
    BY <2>1, <1>g, CalmSafe
<1>f. ASSUME NEW h \in Host, NEW t \in Thread, NEW where \in Calm \cup {"inspect"},
             Become(h, t, FromFirst(where)), where = "inspect" => Claimed,
             UNCHANGED <<intent, bound, disk, writes, saved, overlap, report>>
      PROVE  Safe'
  <2>1. /\ FromFirst(where) \in State /\ FromFirst(where).pc = where
        /\ FromFirst(where).at = 1 /\ FromFirst(where).seen = <<>>
    BY <1>p, <1>f, FromFirstTyped
  <2> QED
    BY <2>1, <1>f, CalmSafe DEF Claimed
<1>u. ASSUME UNCHANGED <<intent, bound, disk, writes, saved, overlap, report, thread>>
      PROVE  Safe'
  BY <1>u, StillSafe DEF Claimed
<1>1. ASSUME NEW h \in Host, NEW t \in Thread, Step(h, t)
      PROVE  Safe'
  BY <1>1, StepSafe
<1>2. ASSUME NEW h \in Host, NEW value \in {"approved", "rejected"}, Decide(h, value)
      PROVE  Safe'
  <2>1. Claimed => Claimed'
    BY <1>2 DEF Decide, IInv, Decided, Claimed
  <2>2. CASE Goto(h, "window", "enter")
    BY <1>2, <2>1, <2>2, <1>0, <1>g DEF Decide, Calm
  <2>3. CASE UNCHANGED thread
    BY <1>2, <2>1, <2>3, StillSafe DEF Decide
  <2> QED
    BY <1>2, <2>2, <2>3 DEF Decide
<1>3. ASSUME NEW h \in Host, Converge(h)
      PROVE  Safe'
  <2>1. CASE Pass(h)
    BY <2>1, <1>0, <1>g DEF Pass, Calm, Claimed
  <2>2. CASE Sweep(h)
    <3>1. CASE intent = "dispatched" /\ Become(h, "pass", FromFirst("inspect"))
      BY <2>2, <3>1, <1>0, <1>f DEF Sweep, Claimed
    <3>2. CASE Goto(h, "pass", "idle")
      BY <2>2, <3>2, <1>0, <1>g DEF Sweep, Calm, Claimed
    <3> QED
      BY <2>2, <3>1, <3>2 DEF Sweep
  <2>3. CASE Check(h)
    <3>1. CASE intent = "dispatched" /\ Become(h, "pass", FromFirst("inspect"))
      BY <2>3, <3>1, <1>0, <1>f DEF Check, Claimed
    <3>2. CASE Become(h, "pass", FromFirst("expire"))
      BY <2>3, <3>2, <1>0, <1>f DEF Check, Calm
    <3> QED
      BY <2>3, <3>1, <3>2 DEF Check
  <2>4. CASE Expire(h)
    BY <2>4, <1>0, RestTyped, CalmSafe DEF Expire, Calm, Claimed
  <2> QED
    BY <1>3, <2>1, <2>2, <2>3, <2>4 DEF Converge
<1>4. ASSUME NEW h \in Host, Redrive(h)
      PROVE  Safe'
  BY <1>4, <1>0, <1>g DEF Redrive, Calm, Claimed
<1>5. ASSUME NEW h \in Host, Start(h)
      PROVE  Safe'
  BY <1>5, <1>0, <1>g DEF Start, Calm, Claimed
<1>6. ASSUME NEW h \in Host, Crash(h)
      PROVE  Safe'
  <2>1. \A g \in Host, u \in Thread :
            thread'[g][u] = thread[g][u] \/ thread'[g][u].pc \in Calm
    BY <1>6, <1>0, RestTyped DEF Crash, Calm
  <2>2. UNCHANGED <<intent, bound, disk, writes, saved, overlap, report>>
    BY <1>6 DEF Crash
  <2> QED
    BY <2>1, <2>2, Aside DEF Safe, Claimed
<1>7. CASE \/ Stop \/ EndTurn \/ UNCHANGED vars
           \/ \E h \in Host : TakeOver(h)
  BY <1>7, <1>u DEF Stop, EndTurn, TakeOver, vars
<1>8. ASSUME NEW m \in Member, Edit(m)
      PROVE  Safe'
  <2>1. /\ UNCHANGED <<intent, bound, writes, saved, overlap, report, thread>>
        /\ \A k \in Member : disk'[k] = disk[k] \/ disk'[k] = "edited"
    BY <1>8, <1>0 DEF Edit, TypeOK
  <2>2. OneApplies' /\ AllFit' /\ Reports'
    BY <2>1, Aside DEF Claimed
  <2>3. OnDisk'
    BY <2>1 DEF IInv, OnDisk
  <2> QED
    BY <2>2, <2>3 DEF Safe
<1> QED
  BY <1>1, <1>2, <1>3, <1>4, <1>5, <1>6, <1>7, <1>8 DEF Next

LEMMA InitIInv ==
    ASSUME Init
    PROVE  IInv
<1>1. thread \in [Host -> [Thread -> State]]
  BY RestTyped DEF Init
<1>2. TypeOK
  <2>1. 0 \in 0..bound.edits
    BY FileAssumption DEF Init, BoundOf
  <2>2. 1 \in Host /\ <<>> \in Observation
    BY FileAssumption, ObservationEmpty DEF Host
  <2>3. host \in [Host -> {"off", "scanning", "up", "dead"}]
    BY DEF Init
  <2>4. thread \in [Host -> [Thread -> [pc : Place, at : Member, seen : Observation]]]
    BY <1>1 DEF State
  <2>5. /\ bound \in Bounds /\ fence \in Host \cup {0} /\ claimant \in Host \cup {0}
        /\ report \in Observation /\ owner \in Host /\ edits \in 0..bound.edits
        /\ saved \subseteq Member /\ overlap \in BOOLEAN
    BY <2>1, <2>2 DEF Init
  <2>6. /\ due \in [Host -> BOOLEAN] /\ marker \in [Host -> Thread \cup {"none"}]
        /\ disk \in [Member -> {"base", "torn", "target", "edited"}]
        /\ writes \in [Member -> 0..2]
    BY DEF Init
  <2>7. /\ decision = "none" /\ intent = "none" /\ status = "none"
        /\ turn = "active" /\ stop = "no"
    BY DEF Init
  <2> QED
    BY <2>3, <2>4, <2>5, <2>6, <2>7 DEF TypeOK
<1>3. \A h \in Host, t \in Thread : thread[h][t].pc = "idle"
  BY RestTyped DEF Init
<1>4. Decided
  BY DEF Init, Decided, Claimed
<1>5. OneApplies
  BY <1>3 DEF OneApplies, Applying
<1>6. AllFit
  BY <1>3 DEF AllFit, Fits
<1>7. OnDisk
  BY DEF Init, OnDisk
<1>8. Reports
  BY DEF Init, Reports
<1> QED
  BY <1>2, <1>4, <1>5, <1>6, <1>7, <1>8 DEF IInv

\* The invariant holds in every reachable state: the rows, the threads and the files of
\* one change set keep agreeing, whoever crashes, decides or saves (fileEffects.ts)
THEOREM Invariance == Spec => []IInv
<1>1. Init => IInv
  BY InitIInv
<1>2. IInv /\ [Next]_vars => IInv'
  BY TypeKept, RowsKept, SafeKept DEF IInv, Safe
<1> QED
  BY <1>1, <1>2, PTL DEF Spec

\* Every variable keeps its type, also the observations of the threads
THEOREM FilesTyped == Spec => []TypeOK
<1>1. IInv => TypeOK
  BY DEF IInv
<1> QED
  BY <1>1, Invariance, PTL

\* Nothing is written without approval, nothing twice, and no member before the one
\* ahead of it (apply, claimEffectDispatch, recoverDispatchedEffect)
THEOREM WrittenOnce == Spec => []AppliedOnce
<1>1. ASSUME IInv
      PROVE  AppliedOnce
  <2>1. \A m \in Member : writes[m] > 0 => Claimed
    BY <1>1 DEF IInv, Decided
  <2>2. Claimed => decision = "approved"
    BY <1>1 DEF IInv, Decided, Claimed
  <2> QED
    BY <1>1, <2>1, <2>2 DEF IInv, OnDisk, AppliedOnce
<1> QED
  BY <1>1, Invariance, PTL

\* A report says what became of every member, unless somebody inspected the files
\* while they were being written (reconcileMemberObservation, recordEffectReceipt)
THEOREM ReportsTell == Spec => []ReportTrue
<1>1. IInv => ReportTrue
  BY DEF IInv, Reports, ReportTrue, Truthful, TrueOf, Tells
<1> QED
  BY <1>1, Invariance, PTL

\* An edit that was on disk when the change set was claimed stays there (applyMember)
THEOREM SavesStay == Spec => []EditsKept
<1>1. IInv => EditsKept
  BY DEF IInv, OnDisk, EditsKept, TypeOK
<1> QED
  BY <1>1, Invariance, PTL

\* The first decision, the first report and the first outcome stay (decide,
\* recordEffectReceipt, reconcileEffectReceipt)
THEOREM FirstStays == Spec => FactsStay
<1>1. ASSUME IInv, [Next]_vars
      PROVE  [/\ decision # "none" => decision' = decision
              /\ report # <<>> => report' = report
              /\ status # "none" => status' = status]_vars
  BY <1>1, RowsKept
<1> QED
  BY <1>1, Invariance, PTL DEF Spec, FactsStay
=============================================================================

-------------------------- MODULE WaitingWakeProofs --------------------------
(* What WaitingWake promises for any number of Turns, commits, failing polls    *)
(* and throwing slots.  What the runner holds in memory always fits together;   *)
(* and no parked Turn sleeps through a fact, for either of two reasons.  Where  *)
(* the resume that follows a local commit is not lost, it repairs whatever a    *)
(* poll consumed or acknowledged meanwhile.  Where it can be lost, the local    *)
(* flag carries the wake alone, which is enough for a Turn that is alone.       *)
EXTENDS WaitingWake, TLAPS

-----------------------------------------------------------------------------
(* What the poll in flight may be *)

Visiting  == [at : {"visit"}, todo : SUBSET (Turn \X Parked)]
Reading   == [at : {"facts"}, todo : SUBSET (Turn \X Parked),
              turn : Turn, was : Parked, ver : Nat]
Comparing == [at : {"compare"}, todo : SUBSET (Turn \X Parked),
              turn : Turn, was : Parked, ver : Nat, fp : Nat]

PollTyped ==
    \/ poll = Idle
    \/ poll = [at |-> "cancel"]
    \/ poll \in [at : {"version"}, local : BOOLEAN]
    \/ poll \in Visiting \cup Reading \cup Comparing

\* Nothing that was read is newer than the database
Behind ==
    /\ \A t \in Turn : view[t].ver <= version /\ (t \in Waiting => parked[t].ver <= version)
    /\ poll.at \in {"facts", "compare"} => poll.ver <= version

-----------------------------------------------------------------------------
(* Why a wake is kept while no resume is lost *)

\* Whoever read fingerprint f of t after version v has missed nothing: what came
\* later either is going to be resumed or has moved the version - also past the one
\* with which a poll that read f too is about to acknowledge it
Kept(t, f, v) ==
    facts[t] # f /\ t \notin nudge =>
        /\ v # version
        /\ poll.at = "compare" /\ poll.turn = t /\ poll.fp = f => poll.ver # version

ResumeKeeps ==
    ~bound.lostResume =>
        \A t \in Turn : /\ t \in Waiting => Kept(t, parked[t].fp, parked[t].ver)
                        /\ slot[t] = "settle" /\ ~again[t] => Kept(t, view[t].fp, view[t].ver)

-----------------------------------------------------------------------------
(* Why the flag keeps the wake of a Turn that is alone *)

Alone(t) == bound.polls = 0 /\ \A s \in Turn \ {t} : s \notin bound.turns /\ bound.facts[s] = 0

\* The other Turns never move, and no poll has them on its list
Quiet ==
    \A t \in Turn : Alone(t) =>
        /\ \A s \in Turn \ {t} : slot[s] = "none" /\ parked[s] = Awake /\ s \notin nudge
        /\ poll.at \in {"visit", "facts", "compare"} => \A x \in poll.todo : x[1] = t
        /\ poll.at \in {"facts", "compare"} => poll.turn = t

\* The poll will see that t changed
Listed(t) ==
    \/ poll.at \in {"visit", "facts", "compare"} /\ <<t, parked[t]>> \in poll.todo
    \/ poll.at = "facts" /\ poll.turn = t /\ poll.was = parked[t]
    \/ poll.at = "compare" /\ poll.turn = t /\ poll.was = parked[t] /\ poll.fp # poll.was.fp

FlagKeeps ==
    \A t \in Turn : Alone(t) =>
        /\ t \in Waiting /\ facts[t] # parked[t].fp =>
              \/ parked[t].ver # version
              \/ localWake
              \/ poll.at = "version" /\ poll.local
              \/ Listed(t)
        /\ slot[t] = "settle" /\ facts[t] # view[t].fp => localWake \/ view[t].ver # version

\* A poll takes the flag before it reads facts, so what it missed raised it again
CompareKeeps ==
    poll.at = "compare" /\ facts[poll.turn] # poll.fp => localWake \/ poll.ver # version

IInv ==
    /\ TypeOK /\ ParkedOrDriven /\ Watched
    /\ PollTyped /\ Behind /\ ResumeKeeps /\ Quiet /\ FlagKeeps /\ CompareKeeps

-----------------------------------------------------------------------------
\* A parked entry is not the absence of one
LEMMA ParkedIsNotAwake == \A p \in Parked : p # Awake
BY DEF Parked, Awake

LEMMA BoundTyped ==
    ASSUME bound \in Bounds
    PROVE  /\ bound.turns \subseteq Turn /\ bound.facts \in [Turn -> Nat] /\ bound.version \in Nat
           /\ bound.polls \in Nat /\ bound.slots \in Nat /\ bound.lostResume \in BOOLEAN
BY BoundsAssumption DEF BoundOf

\* The stages of a poll and what it carries in each
LEMMA PollShape ==
    ASSUME PollTyped
    PROVE  /\ poll.at \in {"idle", "cancel", "version", "visit", "facts", "compare"}
           /\ poll.at = "idle" <=> poll = Idle
           /\ poll.at = "version" => poll \in [at : {"version"}, local : BOOLEAN]
           /\ poll.at = "visit" => poll \in Visiting
           /\ poll.at = "facts" => poll \in Reading
           /\ poll.at = "compare" => poll \in Comparing
BY DEF PollTyped, Idle, Visiting, Reading, Comparing

\* What scheduleDrive leaves behind
LEMMA Scheduled ==
    ASSUME TypeOK, NEW t \in Turn, ScheduleDrive(t)
    PROVE  /\ slot' \in [Turn -> Stage] /\ again' \in [Turn -> BOOLEAN]
           /\ parked' \in [Turn -> Parked \cup {Awake}]
           /\ parked'[t] = Awake
           /\ slot[t] = "none" => slot'[t] = "drive"
           /\ slot[t] # "none" => slot'[t] = slot[t] /\ again'[t]
           /\ \A s \in Turn \ {t} :
                 slot'[s] = slot[s] /\ again'[s] = again[s] /\ parked'[s] = parked[s]
<1>1. parked' = [parked EXCEPT ![t] = Awake]
  BY DEF ScheduleDrive
<1>2. CASE slot[t] = "none"
  BY <1>1, <1>2 DEF ScheduleDrive, TypeOK, Stage
<1>3. CASE slot[t] # "none"
  BY <1>1, <1>3 DEF ScheduleDrive, TypeOK, Stage
<1> QED
  BY <1>2, <1>3

\* What a comparison does to the Turn it visits
LEMMA Compared ==
    ASSUME TypeOK, PollTyped, NEW v \in Nat, CompareWith(v)
    PROVE  /\ poll \in Comparing
           /\ poll' = [at |-> "visit", todo |-> poll.todo]
           /\ slot' \in [Turn -> Stage] /\ again' \in [Turn -> BOOLEAN]
           /\ parked' \in [Turn -> Parked \cup {Awake}]
           /\ \A s \in Turn \ {poll.turn} :
                 slot'[s] = slot[s] /\ again'[s] = again[s] /\ parked'[s] = parked[s]
           /\ poll.fp # poll.was.fp => ScheduleDrive(poll.turn) /\ armed' = TRUE
           /\ poll.fp = poll.was.fp =>
                 /\ UNCHANGED <<slot, again, armed>>
                 /\ parked[poll.turn] # poll.was => UNCHANGED parked
                 /\ parked[poll.turn] = poll.was => /\ parked'[poll.turn] = [fp |-> poll.was.fp, ver |-> v]
                                                    /\ parked[poll.turn] # Awake
                                                    /\ parked'[poll.turn] # Awake
<1>1. poll \in Comparing /\ poll' = [at |-> "visit", todo |-> poll.todo]
  BY PollShape DEF CompareWith
<1>2. poll.turn \in Turn /\ poll.was \in Parked
  BY <1>1 DEF Comparing
<1>3. CASE poll.fp # poll.was.fp
  BY <1>1, <1>2, <1>3, Scheduled DEF CompareWith
<1>4. CASE poll.fp = poll.was.fp /\ parked[poll.turn] # poll.was
  BY <1>1, <1>2, <1>4 DEF CompareWith, TypeOK
<1>5. CASE poll.fp = poll.was.fp /\ parked[poll.turn] = poll.was
  <2>1. parked' = [parked EXCEPT ![poll.turn].ver = v] /\ UNCHANGED <<slot, again, armed>>
    BY <1>5 DEF CompareWith
  <2>2. [parked[poll.turn] EXCEPT !.ver = v] = [fp |-> poll.was.fp, ver |-> v]
    BY <1>2, <1>5 DEF Parked
  <2>3. parked' = [parked EXCEPT ![poll.turn] = [fp |-> poll.was.fp, ver |-> v]]
    BY <2>1, <2>2
  <2>4. [fp |-> poll.was.fp, ver |-> v] \in Parked
    BY <1>2 DEF Parked
  <2> QED
    BY <1>1, <1>2, <1>5, <2>1, <2>3, <2>4, ParkedIsNotAwake DEF TypeOK
<1> QED
  BY <1>3, <1>4, <1>5

-----------------------------------------------------------------------------
(* Types, and what the runner holds in memory *)

\* The slot of one Turn moves on
LEMMA SlotTyped ==
    ASSUME TypeOK, NEW t \in Turn, SlotStep(t) \/ SlotThrows(t)
    PROVE  /\ slot' \in [Turn -> Stage] /\ again' \in [Turn -> BOOLEAN] /\ view' \in [Turn -> View]
           /\ parked' \in [Turn -> Parked \cup {Awake}] /\ seen' \in [Turn -> Nat]
           /\ slot[t] # "none" /\ \A s \in Turn \ {t} : slot'[s] = slot[s] /\ parked'[s] = parked[s]
           /\ parked'[t] # parked[t] => slot'[t] = "none" /\ armed'
           /\ armed => armed'
           /\ UNCHANGED <<poll, nudge, bound, version, facts>>
<1>1. CASE Drive(t) \/ Returned(t)
  BY <1>1 DEF Drive, Returned, TypeOK, Stage, durable
<1>2. CASE ObserveVersion(t)
  <2>1. [view[t] EXCEPT !.ver = version] \in View
    BY DEF TypeOK, View
  <2>2. view' = [view EXCEPT ![t] = [view[t] EXCEPT !.ver = version]]
    BY <1>2 DEF ObserveVersion
  <2> QED
    BY <1>2, <2>1, <2>2 DEF ObserveVersion, TypeOK, Stage, durable
<1>3. CASE ObserveFacts(t)
  <2>1. IsReady(t) \in BOOLEAN
    BY DEF IsReady, TypeOK
  <2>2. [view[t] EXCEPT !.fp = facts[t], !.ready = IsReady(t)] \in View
    BY <2>1 DEF TypeOK, View
  <2>3. view' = [view EXCEPT ![t] = [view[t] EXCEPT !.fp = facts[t], !.ready = IsReady(t)]]
    BY <1>3 DEF ObserveFacts
  <2> QED
    BY <1>3, <2>2, <2>3 DEF ObserveFacts, TypeOK, Stage, durable
<1>4. CASE Settle(t)
  <2>1. Observed(t) \in Parked
    BY DEF Observed, Parked, TypeOK, View
  <2> QED
    BY ZenonT(60), <1>4, <2>1 DEF Settle, SettleWith, TypeOK, Stage, View, NoView, durable
<1>5. CASE SlotThrows(t)
  BY <1>5 DEF SlotThrows, TypeOK, Stage, View, NoView, durable
<1> QED
  BY <1>1, <1>2, <1>3, <1>4, <1>5 DEF SlotStep

\* The poll moves on
LEMMA PollStepTyped ==
    ASSUME TypeOK, PollTyped, PollStep \/ TimerFires \/ PollFails
    PROVE  PollTyped'
<1>1. CASE poll' = Idle
  BY <1>1 DEF PollTyped
<1>2. CASE TimerFires
  BY <1>2 DEF TimerFires, PollTyped
<1>3. CASE PollTakesFlag
  BY <1>1, <1>3 DEF PollTakesFlag, PollEnds, PollTyped, TypeOK
<1>4. CASE PollReadsVersion
  <2> DEFINE todo == {<<t, parked[t]>> : t \in {s \in Waiting : poll.local \/ parked[s].ver # version}}
  <2>1. todo \subseteq Turn \X Parked
    BY DEF Waiting, TypeOK
  <2>2. poll' = [at |-> "visit", todo |-> todo]
    BY <1>4 DEF PollReadsVersion
  <2> HIDE DEF todo
  <2> QED
    BY <2>1, <2>2 DEF PollTyped, Visiting
<1>5. CASE PollVisits
  <2>1. CASE poll.todo # {}
    <3>1. poll \in Visiting
      BY <1>5, PollShape DEF PollVisits
    <3>2. PICK x \in poll.todo : poll' = [at |-> "facts", todo |-> poll.todo \ {x},
                                         turn |-> x[1], was |-> x[2], ver |-> version]
      BY <1>5, <2>1 DEF PollVisits
    <3>3. x[1] \in Turn /\ x[2] \in Parked /\ poll.todo \ {x} \in SUBSET (Turn \X Parked)
      BY <3>1 DEF Visiting
    <3>4. poll' \in Reading
      BY <3>2, <3>3 DEF Reading, TypeOK
    <3> QED
      BY <3>4 DEF PollTyped
  <2> QED
    BY <1>1, <1>5, <2>1 DEF PollVisits, PollEnds
<1>6. CASE PollReadsFacts
  <2>1. poll \in Reading
    BY <1>6, PollShape DEF PollReadsFacts
  <2>2. facts[poll.turn] \in Nat
    BY <2>1 DEF TypeOK, Reading
  <2>3. poll' \in Comparing
    BY <1>6, <2>1, <2>2 DEF PollReadsFacts, Reading, Comparing
  <2> QED
    BY <2>3 DEF PollTyped
<1>7. CASE PollCompares
  <2>1. poll \in Comparing
    BY <1>7, PollShape DEF PollCompares, CompareWith
  <2>2. poll' \in Visiting
    BY <1>7, <2>1 DEF PollCompares, CompareWith, Comparing, Visiting
  <2> QED
    BY <2>2 DEF PollTyped
<1>8. CASE PollFails
  BY <1>1, <1>8 DEF PollFails, PollEnds
<1> QED
  BY <1>2, <1>3, <1>4, <1>5, <1>6, <1>7, <1>8 DEF PollStep

LEMMA TypeStep ==
    ASSUME IInv, [Next]_vars
    PROVE  TypeOK' /\ PollTyped'
<1> USE DEF durable, runner
<1>0. TypeOK /\ PollTyped
  BY DEF IInv
<1>m. ASSUME PollTyped', facts' \in [Turn -> Nat], ready' \in [Turn -> Nat], seen' \in [Turn -> Nat],
             over' \subseteq Turn, nudge' \subseteq Turn, version' \in Nat,
             localWake' \in BOOLEAN, armed' \in BOOLEAN, slot' \in [Turn -> Stage],
             again' \in [Turn -> BOOLEAN], view' \in [Turn -> View],
             parked' \in [Turn -> Parked \cup {Awake}], failures' \in [poll: Nat, slot: Nat],
             bound' \in Bounds
      PROVE  TypeOK'
  <2>1. poll' = Idle \/ poll'.at \in {"cancel", "version", "visit", "facts", "compare"}
    BY <1>m DEF PollTyped, Visiting, Reading, Comparing
  <2> QED
    BY <1>m, <2>1 DEF TypeOK
<1>b. (Busy \/ Waiting # {}) \in BOOLEAN /\ (\E s \in Turn : slot[s] # "none") \in BOOLEAN
  OBVIOUS
<1>1. ASSUME NEW t \in Turn, CommitHere(t) \/ CommitElsewhere(t)
      PROVE  TypeOK' /\ PollTyped'
  <2>1. PollTyped' /\ facts' \in [Turn -> Nat] /\ ready' \in [Turn -> Nat]
    BY <1>1, <1>0 DEF CommitHere, CommitElsewhere, PollTyped, TypeOK
  <2>2. armed' \in BOOLEAN
    BY <1>1, <1>0 DEF CommitHere, CommitElsewhere, TypeOK
  <2>3. /\ nudge' \subseteq Turn /\ localWake' \in BOOLEAN /\ version' \in Nat
        /\ UNCHANGED <<seen, over, slot, again, view, parked, failures, bound>>
    <3>1. CASE CommitHere(t)
      BY <3>1, <1>0 DEF CommitHere, TypeOK
    <3>2. CASE CommitElsewhere(t)
      BY <3>2, <1>0 DEF CommitElsewhere, TypeOK
    <3> QED
      BY <1>1, <3>1, <3>2
  <2> QED
    BY <2>1, <2>2, <2>3, <1>0, <1>m DEF TypeOK
<1>2. CASE UnrelatedCommit \/ UNCHANGED vars
  <2>1. PollTyped'
    BY <1>2, <1>0 DEF UnrelatedCommit, vars, PollTyped
  <2> QED
    BY <1>2, <2>1, <1>0, <1>m DEF UnrelatedCommit, vars, TypeOK
<1>3. ASSUME NEW t \in Turn, Resume(t) \/ ResumeFails(t)
      PROVE  TypeOK' /\ PollTyped'
  <2>1. PollTyped'
    BY <1>3, <1>0 DEF Resume, ResumeFails, PollTyped
  <2>2. CASE Resume(t)
    BY <2>1, <2>2, <1>0, <1>m, Scheduled DEF Resume, TypeOK
  <2>3. CASE ResumeFails(t)
    BY <2>1, <2>3, <1>0, <1>m DEF ResumeFails, TypeOK
  <2> QED
    BY <1>3, <2>2, <2>3
<1>4. ASSUME NEW t \in Turn, SlotStep(t) \/ SlotThrows(t)
      PROVE  TypeOK' /\ PollTyped'
  <2>1. PollTyped'
    BY <1>4, <1>0, SlotTyped DEF PollTyped
  <2>2. /\ ready' \in [Turn -> Nat] /\ over' \subseteq Turn /\ localWake' \in BOOLEAN
        /\ armed' \in BOOLEAN /\ failures' \in [poll: Nat, slot: Nat]
    <3>1. CASE SlotThrows(t)
      BY <3>1, <1>0 DEF SlotThrows, TypeOK
    <3>2. CASE SlotStep(t)
      BY <3>2, <1>0 DEF SlotStep, Drive, Returned, ObserveVersion, ObserveFacts, Settle, SettleWith, TypeOK
    <3> QED
      BY <1>4, <3>1, <3>2
  <2> QED
    BY <1>4, <2>1, <2>2, <1>0, <1>m, SlotTyped DEF TypeOK
<1>5. CASE PollCompares
  <2>1. PollTyped'
    BY <1>5, <1>0, PollStepTyped DEF PollStep
  <2>2. poll.ver \in Nat
    BY <1>5, <1>0, PollShape DEF PollCompares, CompareWith, Comparing
  <2>3. /\ slot' \in [Turn -> Stage] /\ again' \in [Turn -> BOOLEAN]
        /\ parked' \in [Turn -> Parked \cup {Awake}] /\ armed' \in BOOLEAN
    BY <1>5, <2>2, <1>0, Compared DEF PollCompares, TypeOK
  <2> QED
    BY <1>5, <2>1, <2>3, <1>0, <1>m DEF PollCompares, CompareWith, TypeOK
<1>6. CASE PollTakesFlag \/ PollReadsVersion \/ PollVisits \/ PollReadsFacts
  <2>1. PollTyped'
    BY <1>6, <1>0, PollStepTyped DEF PollStep
  <2>2. armed' \in BOOLEAN /\ localWake' \in BOOLEAN
    BY <1>6, <1>0, <1>b DEF PollTakesFlag, PollReadsVersion, PollVisits, PollReadsFacts, PollEnds, TypeOK
  <2> QED
    BY <1>6, <2>1, <2>2, <1>0, <1>m
    DEF PollTakesFlag, PollReadsVersion, PollVisits, PollReadsFacts, TypeOK
<1>7. CASE TimerFires \/ PollFails
  <2>1. PollTyped'
    BY <1>7, <1>0, PollStepTyped
  <2>2. armed' \in BOOLEAN
    BY <1>7, <1>0, <1>b DEF TimerFires, PollFails, PollEnds, TypeOK
  <2>3. failures' \in [poll: Nat, slot: Nat]
    BY <1>7, <1>0 DEF TimerFires, PollFails, TypeOK
  <2> QED
    BY <1>7, <2>1, <2>2, <2>3, <1>0, <1>m DEF TimerFires, PollFails, TypeOK
<1> QED
  BY <1>1, <1>2, <1>3, <1>4, <1>5, <1>6, <1>7 DEF Next, PollStep

\* No Turn is parked and driven at once, and something watches
LEMMA SoundStep ==
    ASSUME IInv, [Next]_vars
    PROVE  ParkedOrDriven' /\ Watched'
<1> USE DEF durable, runner
<1>0. TypeOK /\ PollTyped /\ ParkedOrDriven /\ Watched
  BY DEF IInv
<1>1. ASSUME NEW t \in Turn, SlotStep(t) \/ SlotThrows(t)
      PROVE  ParkedOrDriven' /\ Watched'
  BY <1>1, <1>0, SlotTyped DEF ParkedOrDriven, Watched, Waiting, Busy
<1>2. ASSUME NEW t \in Turn, Resume(t)
      PROVE  ParkedOrDriven' /\ Watched'
  <2>1. ScheduleDrive(t) /\ armed'
    BY <1>2 DEF Resume
  <2> QED
    BY <2>1, <1>0, Scheduled DEF ParkedOrDriven, Watched, Waiting
<1>3. ASSUME NEW t \in Turn, CommitHere(t) \/ CommitElsewhere(t) \/ ResumeFails(t)
      PROVE  ParkedOrDriven' /\ Watched'
  BY <1>3, <1>0 DEF CommitHere, CommitElsewhere, ResumeFails, ParkedOrDriven, Watched, Waiting, Busy
<1>4. CASE UnrelatedCommit \/ UNCHANGED vars
  BY <1>4, <1>0 DEF UnrelatedCommit, vars, ParkedOrDriven, Watched, Waiting, Busy
<1>5. CASE PollCompares
  <2>1. poll.ver \in Nat
    BY <1>5, <1>0, PollShape DEF PollCompares, CompareWith, Comparing
  <2>0. poll \in Comparing /\ poll' = [at |-> "visit", todo |-> poll.todo]
    BY <1>5, <2>1, <1>0, Compared DEF PollCompares
  <2>2. poll.turn \in Turn /\ poll' # Idle
    BY <2>0 DEF Comparing, Idle
  <2>3. ParkedOrDriven'
    BY ZenonT(60), <1>5, <2>1, <2>2, <1>0, Compared, Scheduled DEF PollCompares, ParkedOrDriven, Waiting
  <2> QED
    BY <2>2, <2>3 DEF Watched
<1>6. CASE TimerFires
  BY <1>6, <1>0 DEF TimerFires, ParkedOrDriven, Watched, Waiting, Busy, Idle
<1>7. CASE PollTakesFlag \/ PollReadsVersion \/ PollVisits \/ PollReadsFacts \/ PollFails
  <2>1. UNCHANGED <<slot, parked>>
    BY <1>7 DEF PollTakesFlag, PollReadsVersion, PollVisits, PollReadsFacts, PollFails
  <2>2. poll' # Idle \/ PollEnds
    BY <1>7 DEF PollTakesFlag, PollReadsVersion, PollVisits, PollReadsFacts, PollFails, Idle
  <2> QED
    BY <2>1, <2>2, <1>0 DEF PollEnds, ParkedOrDriven, Watched, Waiting, Busy
<1> QED
  BY <1>1, <1>2, <1>3, <1>4, <1>5, <1>6, <1>7 DEF Next, PollStep

-----------------------------------------------------------------------------
(* Versions *)

\* A commit moves the version on, past everything that was read before it
LEMMA Newer ==
    ASSUME IInv
    PROVE  /\ version \in Nat
           /\ \A t \in Turn : /\ view[t].ver \in Nat /\ view[t].ver # version + 1
                              /\ t \in Waiting => parked[t].ver \in Nat /\ parked[t].ver # version + 1
                              /\ facts[t] \in Nat /\ facts[t] + 1 # facts[t]
           /\ poll.at \in {"facts", "compare"} => poll.ver \in Nat /\ poll.ver # version + 1
<1>1. TypeOK /\ PollTyped /\ Behind
  BY DEF IInv
<1>2. version \in Nat
  BY <1>1 DEF TypeOK
<1>3. ASSUME NEW t \in Turn
      PROVE  /\ view[t].ver \in Nat /\ view[t].ver # version + 1
             /\ t \in Waiting => parked[t].ver \in Nat /\ parked[t].ver # version + 1
             /\ facts[t] \in Nat /\ facts[t] + 1 # facts[t]
  <2>1. view[t].ver \in Nat /\ facts[t] \in Nat
    BY <1>1 DEF TypeOK, View
  <2>2. t \in Waiting => parked[t].ver \in Nat
    BY <1>1 DEF TypeOK, Waiting, Parked
  <2> QED
    BY <1>1, <1>2, <2>1, <2>2 DEF Behind
<1>4. poll.at \in {"facts", "compare"} => poll.ver \in Nat
  BY <1>1, PollShape DEF Reading, Comparing
<1>5. poll.at \in {"facts", "compare"} => poll.ver # version + 1
  BY <1>1, <1>2, <1>4 DEF Behind
<1> QED
  BY <1>2, <1>3, <1>4, <1>5

LEMMA BehindStep ==
    ASSUME IInv, [Next]_vars
    PROVE  Behind'
<1> USE DEF durable, runner
<1>0. TypeOK /\ PollTyped /\ Behind /\ version \in Nat
  BY DEF IInv, TypeOK
<1>1. ASSUME NEW t \in Turn, CommitHere(t) \/ ResumeFails(t)
      PROVE  Behind'
  BY <1>1, <1>0 DEF CommitHere, ResumeFails, Behind, Waiting
<1>2. ASSUME version' = version + 1, UNCHANGED <<view, parked, poll>>
      PROVE  Behind'
  <2>1. /\ \A t \in Turn : /\ view[t].ver \in Nat
                           /\ t \in Waiting => parked[t].ver \in Nat
        /\ poll.at \in {"facts", "compare"} => poll.ver \in Nat
    BY Newer
  <2>2. \A t \in Turn : view[t].ver <= version + 1 /\ (t \in Waiting => parked[t].ver <= version + 1)
    BY <2>1, <1>0 DEF Behind
  <2>3. poll.at \in {"facts", "compare"} => poll.ver <= version + 1
    BY <2>1, <1>0 DEF Behind
  <2> QED
    BY <1>2, <2>2, <2>3 DEF Behind, Waiting
<1>3. ASSUME NEW t \in Turn, CommitElsewhere(t)
      PROVE  Behind'
  BY <1>2, <1>3 DEF CommitElsewhere
<1>4. ASSUME NEW t \in Turn, Resume(t)
      PROVE  Behind'
  <2>1. ScheduleDrive(t) /\ UNCHANGED <<version, view, poll>>
    BY <1>4 DEF Resume
  <2> QED
    BY <2>1, <1>0, Scheduled DEF Behind, Waiting
<1>5. ASSUME NEW t \in Turn, SlotStep(t) \/ SlotThrows(t)
      PROVE  Behind'
  <2>1. UNCHANGED <<poll, version>>
    BY <1>5, <1>0, SlotTyped
  <2>2. \A s \in Turn : view'[s].ver <= version
    <3>1. \/ UNCHANGED view
          \/ view' = [view EXCEPT ![t].ver = version]
          \/ view' = [view EXCEPT ![t].fp = facts[t], ![t].ready = IsReady(t)]
          \/ view' = [view EXCEPT ![t] = NoView]
      BY <1>5 DEF SlotStep, Drive, Returned, ObserveVersion, ObserveFacts, Settle, SettleWith, SlotThrows
    <3>2. view'[t].ver \in {view[t].ver, version, 0} /\ \A s \in Turn \ {t} : view'[s] = view[s]
      BY <3>1, <1>0 DEF TypeOK, View, NoView
    <3> QED
      BY <3>2, <1>0 DEF Behind
  <2>3. UNCHANGED parked \/ parked' = [parked EXCEPT ![t] = Observed(t)]
    BY <1>5 DEF SlotStep, Drive, Returned, ObserveVersion, ObserveFacts, Settle, SettleWith, SlotThrows
  <2>4. \A s \in Turn : s \in Waiting' => parked'[s].ver <= version
    BY <2>3, <1>0 DEF Waiting, Behind, Observed, TypeOK
  <2> QED
    BY <2>1, <2>2, <2>4, <1>0 DEF Behind
<1>6. CASE PollCompares
  <2>1. poll.ver \in Nat /\ poll.ver <= version
    BY <1>6, <1>0, Newer DEF PollCompares, CompareWith, Behind
  <2>2. poll'.at = "visit" /\ UNCHANGED <<version, view>>
    BY <1>6 DEF PollCompares, CompareWith
  <2>3. poll.turn \in Turn
    BY <1>6, <1>0, PollShape DEF PollCompares, CompareWith, Comparing
  <2>4. \A s \in Turn \ {poll.turn} : parked'[s] = parked[s]
    BY <1>6, <2>1, <1>0, Compared DEF PollCompares
  <2>5. parked'[poll.turn] = Awake \/ parked'[poll.turn] = parked[poll.turn] \/ parked'[poll.turn].ver = poll.ver
    <3>1. CASE poll.fp # poll.was.fp
      BY <1>6, <2>1, <2>3, <3>1, <1>0, Compared, Scheduled DEF PollCompares
    <3>2. CASE poll.fp = poll.was.fp /\ parked[poll.turn] # poll.was
      BY <1>6, <2>1, <3>2, <1>0, Compared DEF PollCompares
    <3>3. CASE poll.fp = poll.was.fp /\ parked[poll.turn] = poll.was
      <4>1. parked'[poll.turn] = [fp |-> poll.was.fp, ver |-> poll.ver]
        BY <1>6, <2>1, <3>3, <1>0, Compared DEF PollCompares
      <4> QED
        BY <4>1
    <3> QED
      BY <3>1, <3>2, <3>3
  <2>6. \A s \in Turn : s \in Waiting' => parked'[s].ver <= version
    BY <2>1, <2>4, <2>5, <1>0 DEF Waiting, Behind
  <2> QED
    BY <2>2, <2>6, <1>0 DEF Behind
<1>7. CASE UnrelatedCommit
  BY <1>2, <1>7 DEF UnrelatedCommit
<1>8. CASE PollTakesFlag \/ PollReadsVersion \/ PollVisits \/ PollReadsFacts \/ PollFails \/ TimerFires
  <2>1. UNCHANGED <<version, view, parked>>
    BY <1>8 DEF PollTakesFlag, PollReadsVersion, PollVisits, PollReadsFacts, PollFails, TimerFires
  <2>2. poll'.at \in {"facts", "compare"} => poll'.ver \in {version, poll.ver} /\
            (poll'.ver = version \/ poll.at \in {"facts", "compare"})
    BY <1>8, <1>0 DEF PollTakesFlag, PollReadsVersion, PollVisits, PollReadsFacts, PollFails, PollEnds, TimerFires, Idle
  <2> QED
    BY <2>1, <2>2, <1>0 DEF Behind, Waiting
<1>9. CASE UNCHANGED vars
  BY <1>9, <1>0 DEF vars, Behind, Waiting
<1> QED
  BY <1>1, <1>3, <1>4, <1>5, <1>6, <1>7, <1>8, <1>9 DEF Next, PollStep

-----------------------------------------------------------------------------
(* Wakes *)

\* The slot of t moves on: what it knows of t when it may park it
LEMMA SlotKnows ==
    ASSUME TypeOK, NEW t \in Turn, SlotStep(t) \/ SlotThrows(t)
    PROVE  /\ \A s \in Turn \ {t} : /\ slot'[s] = slot[s] /\ again'[s] = again[s]
                                    /\ view'[s] = view[s] /\ parked'[s] = parked[s]
           /\ slot'[t] = "settle" => slot[t] = "facts" /\ view'[t].fp = facts[t]
           /\ parked'[t] # parked[t] => /\ slot[t] = "settle" /\ ~again[t]
                                        /\ parked'[t].fp = view[t].fp /\ parked'[t].ver = view[t].ver
           /\ localWake => localWake'
<1>1. CASE Drive(t) \/ Returned(t)
  BY <1>1 DEF Drive, Returned, TypeOK, runner
<1>2. CASE ObserveVersion(t)
  BY <1>2 DEF ObserveVersion, TypeOK
<1>3. CASE ObserveFacts(t)
  <2>1. view' = [view EXCEPT ![t].fp = facts[t], ![t].ready = IsReady(t)] /\ slot[t] = "facts"
        /\ slot' = [slot EXCEPT ![t] = "settle"] /\ UNCHANGED <<again, parked, localWake>>
    BY <1>3 DEF ObserveFacts
  <2>2. view'[t].fp = facts[t] /\ \A s \in Turn \ {t} : view'[s] = view[s]
    BY <2>1 DEF TypeOK, View
  <2> QED
    BY <2>1, <2>2 DEF TypeOK
<1>4. CASE Settle(t)
  <2>1. /\ slot[t] = "settle" /\ again' = [again EXCEPT ![t] = FALSE] /\ view' = [view EXCEPT ![t] = NoView]
        /\ \/ slot' = [slot EXCEPT ![t] = "drive"] /\ UNCHANGED parked
           \/ slot' = [slot EXCEPT ![t] = "none"] /\ parked' = [parked EXCEPT ![t] = Observed(t)] /\ ~again[t]
        /\ UNCHANGED localWake
    BY <1>4 DEF Settle, SettleWith
  <2>2. Observed(t).fp = view[t].fp /\ Observed(t).ver = view[t].ver
    BY DEF Observed
  <2> QED
    BY <2>1, <2>2 DEF TypeOK
<1>5. CASE SlotThrows(t)
  BY <1>5 DEF SlotThrows, TypeOK
<1> QED
  BY <1>1, <1>2, <1>3, <1>4, <1>5 DEF SlotStep

\* Nothing ever changes the bounds
LEMMA BoundStays == TypeOK /\ [Next]_vars => UNCHANGED bound
BY SlotTyped DEF Next, vars, UnrelatedCommit, TimerFires, PollStep, PollTakesFlag, PollReadsVersion, durable, runner,
   PollVisits, PollReadsFacts, PollCompares, CompareWith, PollFails, CommitHere, CommitElsewhere, Resume, ResumeFails

\* Where no resume is lost, no wake is
LEMMA ResumeKeepsStep ==
    ASSUME IInv, [Next]_vars
    PROVE  ResumeKeeps'
<1> USE DEF durable, runner
<1> DEFINE KeptFor(t) == /\ t \in Waiting => Kept(t, parked[t].fp, parked[t].ver)
                         /\ slot[t] = "settle" /\ ~again[t] => Kept(t, view[t].fp, view[t].ver)
<1>0. TypeOK /\ PollTyped
  BY DEF IInv
<1>b. UNCHANGED bound
  BY <1>0, BoundStays
<1> SUFFICES ASSUME ~bound.lostResume, NEW t \in Turn
             PROVE  KeptFor(t)'
  BY <1>b DEF ResumeKeeps
<1>k. KeptFor(t)
  BY DEF IInv, ResumeKeeps
<1>1. ASSUME NEW s \in Turn, CommitHere(s)
      PROVE  KeptFor(t)'
  <2>1. /\ UNCHANGED <<slot, again, view, parked, version, poll>> /\ nudge' = nudge \cup {s}
        /\ facts' = [facts EXCEPT ![s] = @ + 1]
    BY <1>1 DEF CommitHere
  <2>2. t # s => facts'[t] = facts[t]
    BY <2>1, <1>0 DEF TypeOK
  <2> QED
    BY <2>1, <2>2, <1>k DEF Kept, Waiting
<1>2. ASSUME NEW s \in Turn, CommitElsewhere(s)
      PROVE  KeptFor(t)'
  <2>1. UNCHANGED <<slot, again, view, parked, poll, nudge>> /\ version' = version + 1
    BY <1>2 DEF CommitElsewhere
  <2> QED
    BY <2>1, Newer DEF Kept, Waiting
<1>3. CASE UnrelatedCommit
  BY <1>3, <1>k, Newer DEF UnrelatedCommit, Kept, Waiting
<1>4. ASSUME NEW s \in Turn, Resume(s)
      PROVE  KeptFor(t)'
  <2>1. /\ ScheduleDrive(s) /\ nudge' = nudge \ {s}
        /\ UNCHANGED <<facts, version, poll, view>>
    BY <1>4 DEF Resume
  <2>2. CASE t = s
    BY <2>1, <2>2, <1>0, Scheduled DEF Waiting
  <2>3. CASE t # s
    BY <2>1, <2>3, <1>k, <1>0, Scheduled DEF Kept, Waiting
  <2> QED
    BY <2>2, <2>3
<1>5. ASSUME NEW s \in Turn, SlotStep(s) \/ SlotThrows(s)
      PROVE  KeptFor(t)'
  <2>1. UNCHANGED <<facts, version, poll, nudge>>
    BY <1>5, <1>0, SlotTyped
  <2>2. CASE t = s
    BY <1>5, <2>1, <2>2, <1>k, <1>0, SlotKnows DEF Kept, Waiting
  <2>3. CASE t # s
    BY <1>5, <2>1, <2>3, <1>k, <1>0, SlotKnows DEF Kept, Waiting
  <2> QED
    BY <2>2, <2>3
<1>6. CASE PollReadsFacts
  <2>1. /\ poll' = [at |-> "compare", todo |-> poll.todo, turn |-> poll.turn,
                    was |-> poll.was, ver |-> poll.ver, fp |-> facts[poll.turn]]
        /\ UNCHANGED <<facts, version, nudge, slot, again, view, parked>>
    BY <1>6 DEF PollReadsFacts
  <2>2. poll'.turn = t => poll'.fp = facts[t]
    BY <2>1
  <2> QED
    BY <2>1, <2>2, <1>k DEF Kept, Waiting
<1>7. CASE PollCompares
  <2>1. /\ poll \in Comparing /\ CompareWith(poll.ver) /\ poll.at = "compare"
        /\ UNCHANGED <<facts, version, nudge, view>>
    BY <1>7, <1>0, PollShape DEF PollCompares, CompareWith
  <2>0. poll.turn \in Turn /\ poll.ver \in Nat
    BY <2>1 DEF Comparing
  <2>2. poll.turn \in Turn /\ poll.ver \in Nat /\ poll'.at = "visit"
    BY <2>0, <2>1 DEF CompareWith
  <2>3. CASE t # poll.turn
    BY <2>1, <2>2, <2>3, <1>k, <1>0, Compared DEF Kept, Waiting
  <2>4. CASE t = poll.turn /\ poll.fp # poll.was.fp
    BY <2>1, <2>2, <2>4, <1>k, <1>0, Compared, Scheduled DEF Kept, Waiting
  <2>5. CASE t = poll.turn /\ poll.fp = poll.was.fp /\ parked[t] # poll.was
    <3>1. UNCHANGED <<slot, again, parked>>
      BY <2>1, <2>2, <2>5, <1>0, Compared
    <3> QED
      BY <2>1, <2>2, <3>1, <1>k DEF Kept, Waiting
  <2>6. CASE t = poll.turn /\ poll.fp = poll.was.fp /\ parked[t] = poll.was
    <3>1. /\ UNCHANGED <<slot, again>> /\ parked'[t] = [fp |-> poll.was.fp, ver |-> poll.ver]
          /\ parked[t] # Awake
      BY <2>1, <2>2, <2>6, <1>0, Compared
    <3>2. Kept(t, parked[t].fp, parked[t].ver)
      BY <3>1, <1>k DEF Waiting
    <3>3. parked'[t].fp = parked[t].fp /\ parked'[t].ver = poll.ver
      BY <2>6, <3>1
    <3>4. Kept(t, parked[t].fp, parked[t].ver)'
      BY <2>1, <2>2, <2>6, <3>2, <3>3 DEF Kept
    <3> QED
      BY <2>1, <2>2, <3>1, <3>4, <1>k DEF Kept
  <2> QED
    BY <2>3, <2>4, <2>5, <2>6
<1>8. CASE PollTakesFlag \/ PollReadsVersion \/ PollVisits \/ PollFails \/ TimerFires
  <2>1. UNCHANGED <<facts, version, nudge, slot, again, view, parked>>
    BY <1>8 DEF PollTakesFlag, PollReadsVersion, PollVisits, PollFails, TimerFires
  <2>2. poll'.at # "compare" \/ poll' = poll
    BY <1>8 DEF PollTakesFlag, PollReadsVersion, PollVisits, PollFails, PollEnds, TimerFires, Idle
  <2> QED
    BY <2>1, <2>2, <1>k DEF Kept, Waiting
<1>9. ASSUME NEW s \in Turn, ResumeFails(s)
      PROVE  KeptFor(t)'
  BY <1>9 DEF ResumeFails
<1>10. CASE UNCHANGED vars
  BY <1>10, <1>k DEF vars, Kept, Waiting
<1> QED
  BY <1>1, <1>2, <1>3, <1>4, <1>5, <1>6, <1>7, <1>8, <1>9, <1>10 DEF Next, PollStep

\* A Turn that is alone stays alone
LEMMA QuietStep ==
    ASSUME IInv, [Next]_vars
    PROVE  Quiet'
<1> USE DEF durable, runner
<1> DEFINE QuietFor(t) ==
        /\ \A s \in Turn \ {t} : slot[s] = "none" /\ parked[s] = Awake /\ s \notin nudge
        /\ poll.at \in {"visit", "facts", "compare"} => \A x \in poll.todo : x[1] = t
        /\ poll.at \in {"facts", "compare"} => poll.turn = t
<1>0. TypeOK /\ PollTyped
  BY DEF IInv
<1> SUFFICES ASSUME NEW t \in Turn, Alone(t)
             PROVE  QuietFor(t)'
  BY <1>0, BoundStays DEF Quiet, Alone
<1>q. QuietFor(t)
  BY DEF IInv, Quiet
<1>f. \A s \in Turn \ {t} : bound.facts[s] = 0 /\ ~(facts[s] < bound.facts[s])
  BY <1>0 DEF Alone, TypeOK
<1>1. ASSUME NEW s \in Turn, CommitHere(s) \/ CommitElsewhere(s)
      PROVE  QuietFor(t)'
  BY <1>1, <1>q, <1>f DEF CommitHere, CommitElsewhere
<1>2. ASSUME NEW s \in Turn, Resume(s)
      PROVE  QuietFor(t)'
  <2>1. s = t /\ ScheduleDrive(t) /\ nudge' = nudge \ {t} /\ UNCHANGED poll
    BY <1>2, <1>q DEF Resume
  <2> QED
    BY <2>1, <1>q, <1>0, Scheduled
<1>3. ASSUME NEW s \in Turn, ResumeFails(s)
      PROVE  QuietFor(t)'
  BY <1>3, <1>q DEF ResumeFails
<1>4. ASSUME NEW s \in Turn, SlotStep(s) \/ SlotThrows(s)
      PROVE  QuietFor(t)'
  <2>1. s = t /\ UNCHANGED <<poll, nudge>>
    BY <1>4, <1>q, <1>0, SlotTyped
  <2> QED
    BY <1>4, <2>1, <1>q, <1>0, SlotKnows
<1>5. CASE PollReadsVersion
  <2>1. /\ poll'.at = "visit" /\ UNCHANGED <<slot, parked, nudge>>
        /\ poll'.todo = {<<s, parked[s]>> : s \in {r \in Waiting : poll.local \/ parked[r].ver # version}}
    BY <1>5 DEF PollReadsVersion
  <2>2. \A s \in Waiting : s = t
    BY <1>q DEF Waiting
  <2> QED
    BY <2>1, <2>2, <1>q
<1>6. CASE PollVisits
  <2>1. UNCHANGED <<slot, parked, nudge>>
    BY <1>6 DEF PollVisits
  <2>2. CASE poll.todo = {}
    BY <1>6, <2>1, <2>2, <1>q DEF PollVisits, PollEnds, Idle
  <2>3. CASE poll.todo # {}
    <3>1. PICK x \in poll.todo : poll' = [at |-> "facts", todo |-> poll.todo \ {x},
                                         turn |-> x[1], was |-> x[2], ver |-> version]
      BY <1>6, <2>3 DEF PollVisits
    <3>2. poll.at = "visit"
      BY <1>6 DEF PollVisits
    <3> QED
      BY <2>1, <3>1, <3>2, <1>q
  <2> QED
    BY <2>2, <2>3
<1>7. CASE PollReadsFacts
  BY <1>7, <1>q DEF PollReadsFacts
<1>8. CASE PollCompares
  <2>1. /\ poll \in Comparing /\ CompareWith(poll.ver) /\ poll.at = "compare" /\ UNCHANGED nudge
    BY <1>8, <1>0, PollShape DEF PollCompares, CompareWith
  <2>2. poll.ver \in Nat /\ poll.turn = t /\ poll'.at = "visit" /\ poll'.todo = poll.todo
    BY <2>1, <1>q DEF Comparing, CompareWith
  <2>3. \A s \in Turn \ {t} : slot'[s] = slot[s] /\ parked'[s] = parked[s]
    BY <2>1, <2>2, <1>0, Compared
  <2> QED
    BY <2>1, <2>2, <2>3, <1>q
<1>9. CASE UnrelatedCommit \/ PollTakesFlag \/ PollFails \/ TimerFires
  <2>1. UNCHANGED <<slot, parked, nudge>>
    BY <1>9 DEF UnrelatedCommit, PollTakesFlag, PollFails, TimerFires
  <2>2. poll' = poll \/ poll'.at \in {"idle", "cancel", "version"}
    BY <1>9 DEF UnrelatedCommit, PollTakesFlag, PollFails, TimerFires, PollEnds, Idle
  <2> QED
    BY <2>1, <2>2, <1>q
<1>10. CASE UNCHANGED vars
  BY <1>10, <1>q DEF vars
<1> QED
  BY <1>1, <1>2, <1>3, <1>4, <1>5, <1>6, <1>7, <1>8, <1>9, <1>10 DEF Next, PollStep

\* What a comparison cannot know of, the flag or the version tells
LEMMA CompareKeepsStep ==
    ASSUME IInv, [Next]_vars
    PROVE  CompareKeeps'
<1> USE DEF durable, runner
<1>0. TypeOK /\ PollTyped /\ CompareKeeps
  BY DEF IInv
<1>1. ASSUME NEW s \in Turn, CommitHere(s)
      PROVE  CompareKeeps'
  BY <1>1 DEF CommitHere, CompareKeeps
<1>2. ASSUME NEW s \in Turn, CommitElsewhere(s)
      PROVE  CompareKeeps'
  BY <1>2, Newer DEF CommitElsewhere, CompareKeeps
<1>3. CASE UnrelatedCommit
  BY <1>3, Newer DEF UnrelatedCommit, CompareKeeps
<1>4. ASSUME NEW s \in Turn, Resume(s) \/ ResumeFails(s)
      PROVE  CompareKeeps'
  BY <1>4, <1>0 DEF Resume, ResumeFails, CompareKeeps
<1>5. ASSUME NEW s \in Turn, SlotStep(s) \/ SlotThrows(s)
      PROVE  CompareKeeps'
  BY <1>5, <1>0, SlotTyped, SlotKnows DEF CompareKeeps
<1>6. CASE PollReadsFacts
  BY <1>6 DEF PollReadsFacts, CompareKeeps
<1>7. CASE PollCompares \/ PollTakesFlag \/ PollReadsVersion \/ PollVisits
  BY <1>7 DEF PollCompares, CompareWith, PollTakesFlag, PollReadsVersion, PollVisits, PollEnds, Idle, CompareKeeps
<1>8. CASE PollFails \/ TimerFires \/ UNCHANGED vars
  BY <1>8, <1>0 DEF PollFails, TimerFires, PollEnds, Idle, vars, CompareKeeps
<1> QED
  BY <1>1, <1>2, <1>3, <1>4, <1>5, <1>6, <1>7, <1>8 DEF Next, PollStep

\* Where a Turn is alone, the flag is enough
LEMMA FlagKeepsStep ==
    ASSUME IInv, [Next]_vars
    PROVE  FlagKeeps'
<1> USE DEF durable, runner
<1> DEFINE ParkedFor(t) == t \in Waiting /\ facts[t] # parked[t].fp =>
                              \/ parked[t].ver # version
                              \/ localWake
                              \/ poll.at = "version" /\ poll.local
                              \/ Listed(t)
           SettleFor(t) == slot[t] = "settle" /\ facts[t] # view[t].fp => localWake \/ view[t].ver # version
<1>0. TypeOK /\ PollTyped /\ ParkedOrDriven /\ CompareKeeps
  BY DEF IInv
<1> SUFFICES ASSUME NEW t \in Turn, Alone(t)
             PROVE  ParkedFor(t)' /\ SettleFor(t)'
  BY <1>0, BoundStays DEF FlagKeeps, Alone
<1>k. ParkedFor(t) /\ SettleFor(t)
  BY DEF IInv, FlagKeeps
<1>q. /\ \A s \in Turn \ {t} : slot[s] = "none" /\ parked[s] = Awake /\ s \notin nudge
      /\ poll.at \in {"facts", "compare"} => poll.turn = t
  BY DEF IInv, Quiet
<1>1. ASSUME NEW s \in Turn, CommitHere(s)
      PROVE  ParkedFor(t)' /\ SettleFor(t)'
  BY <1>1 DEF CommitHere
<1>2. ASSUME NEW s \in Turn, CommitElsewhere(s)
      PROVE  ParkedFor(t)' /\ SettleFor(t)'
  BY <1>2, Newer DEF CommitElsewhere, Waiting
<1>3. CASE UnrelatedCommit
  BY <1>3, <1>k, Newer DEF UnrelatedCommit, Waiting
<1>4. ASSUME NEW s \in Turn, Resume(s)
      PROVE  ParkedFor(t)' /\ SettleFor(t)'
  <2>1. s = t /\ ScheduleDrive(t) /\ UNCHANGED <<facts, view, version, localWake>>
    BY <1>4, <1>q DEF Resume
  <2>2. parked'[t] = Awake /\ (slot'[t] = "settle" => slot[t] = "settle")
    BY <2>1, <1>0, Scheduled
  <2> QED
    BY <2>1, <2>2, <1>k DEF Waiting
<1>5. ASSUME NEW s \in Turn, ResumeFails(s)
      PROVE  ParkedFor(t)' /\ SettleFor(t)'
  BY <1>5, <1>k DEF ResumeFails, Waiting, Listed
<1>6. ASSUME NEW s \in Turn, SlotStep(s) \/ SlotThrows(s)
      PROVE  ParkedFor(t)' /\ SettleFor(t)'
  <2>1. s = t /\ slot[t] # "none" /\ t \notin Waiting /\ UNCHANGED <<facts, version>>
    BY <1>6, <1>q, <1>0, SlotTyped DEF ParkedOrDriven
  <2>2. SettleFor(t)'
    BY <1>6, <2>1, <1>0, SlotKnows
  <2>3. CASE parked'[t] = parked[t]
    BY <2>1, <2>2, <2>3 DEF Waiting
  <2>4. CASE parked'[t] # parked[t]
    BY <1>6, <2>1, <2>2, <2>4, <1>k, <1>0, SlotKnows
  <2> QED
    BY <2>3, <2>4
<1>7. CASE TimerFires
  <2>1. UNCHANGED <<facts, version, localWake, slot, view, parked>>
    BY <1>7 DEF TimerFires
  <2>2. poll' = poll \/ poll = Idle
    BY <1>7 DEF TimerFires
  <2>3. poll = Idle => ~Listed(t) /\ poll.at # "version"
    BY DEF Listed, Idle
  <2> QED
    BY <2>1, <2>2, <2>3, <1>k DEF Waiting, Listed
<1>8. CASE PollTakesFlag
  <2>1. UNCHANGED <<facts, version, slot, view, parked>> /\ poll.at = "cancel" /\ ~Listed(t)
    BY <1>8 DEF PollTakesFlag, Listed
  <2>2. CASE Waiting = {}
    <3>1. UNCHANGED localWake
      BY <1>8, <2>2 DEF PollTakesFlag
    <3> QED
      BY <2>1, <2>2, <3>1, <1>k DEF Waiting
  <2>3. CASE Waiting # {}
    <3>1. t \in Waiting /\ slot[t] = "none"
      BY <2>3, <1>q, <1>0 DEF Waiting, ParkedOrDriven
    <3>2. poll' = [at |-> "version", local |-> localWake]
      BY <1>8, <2>3 DEF PollTakesFlag
    <3> QED
      BY <2>1, <3>1, <3>2, <1>k
  <2> QED
    BY <2>2, <2>3
<1>9. CASE PollReadsVersion
  <2>1. UNCHANGED <<facts, version, localWake, slot, view, parked>> /\ poll.at = "version" /\ ~Listed(t)
    BY <1>9 DEF PollReadsVersion, Listed
  <2>2. t \in Waiting /\ poll.local => Listed(t)'
    BY <1>9, <2>1 DEF PollReadsVersion, Listed
  <2> QED
    BY <2>1, <2>2, <1>k DEF Waiting
<1>10. CASE PollVisits
  <2>1. UNCHANGED <<facts, version, localWake, slot, view, parked>> /\ poll.at = "visit"
    BY <1>10 DEF PollVisits
  <2>2. CASE poll.todo = {}
    BY <2>1, <2>2, <1>k DEF Waiting, Listed
  <2>3. CASE poll.todo # {}
    <3>1. PICK x \in poll.todo : poll' = [at |-> "facts", todo |-> poll.todo \ {x},
                                         turn |-> x[1], was |-> x[2], ver |-> version]
      BY <1>10, <2>3 DEF PollVisits
    <3>2. x = <<x[1], x[2]>>
      BY <2>1, <1>0, PollShape DEF Visiting
    <3>3. Listed(t) => Listed(t)'
      BY <2>1, <3>1, <3>2 DEF Listed
    <3> QED
      BY <2>1, <3>3, <1>k DEF Waiting
  <2> QED
    BY <2>2, <2>3
<1>11. CASE PollReadsFacts
  <2>1. /\ UNCHANGED <<facts, version, localWake, slot, view, parked>> /\ poll.at = "facts"
        /\ poll' = [at |-> "compare", todo |-> poll.todo, turn |-> poll.turn,
                    was |-> poll.was, ver |-> poll.ver, fp |-> facts[poll.turn]]
    BY <1>11 DEF PollReadsFacts
  <2>2. facts[t] # parked[t].fp /\ Listed(t) => Listed(t)'
    BY <2>1 DEF Listed
  <2> QED
    BY <2>1, <2>2, <1>k DEF Waiting
<1>12. CASE PollCompares
  <2>1. /\ poll \in Comparing /\ CompareWith(poll.ver) /\ poll.at = "compare" /\ poll.turn = t
        /\ UNCHANGED <<facts, version, localWake, view>>
    BY <1>12, <1>q, <1>0, PollShape DEF PollCompares, CompareWith
  <2>2. poll.ver \in Nat
    BY <2>1 DEF Comparing
  <2>3. poll' = [at |-> "visit", todo |-> poll.todo]
    BY <2>1, <2>2, <1>0, Compared
  <2>4. CASE poll.fp # poll.was.fp
    <3>1. parked'[t] = Awake /\ (slot'[t] = "settle" => slot[t] = "settle")
      BY <2>1, <2>2, <2>4, <1>0, Compared, Scheduled
    <3> QED
      BY <2>1, <3>1, <1>k DEF Waiting
  <2>5. CASE poll.fp = poll.was.fp /\ parked[t] # poll.was
    <3>1. UNCHANGED <<slot, parked>>
      BY <2>1, <2>2, <2>5, <1>0, Compared
    <3>2. Listed(t) => Listed(t)'
      BY <2>1, <2>3, <2>5, <3>1 DEF Listed
    <3> QED
      BY <2>1, <3>1, <3>2, <1>k DEF Waiting
  <2>6. CASE poll.fp = poll.was.fp /\ parked[t] = poll.was
    <3>1. UNCHANGED slot /\ parked'[t] = [fp |-> poll.was.fp, ver |-> poll.ver]
      BY <2>1, <2>2, <2>6, <1>0, Compared
    <3>2. parked'[t].fp = poll.fp /\ parked'[t].ver = poll.ver
      BY <2>6, <3>1
    <3>3. facts[t] # poll.fp => localWake \/ poll.ver # version
      BY <2>1, <1>0 DEF CompareKeeps
    <3> QED
      BY <2>1, <3>1, <3>2, <3>3, <1>k
  <2> QED
    BY <2>4, <2>5, <2>6
<1>13. CASE PollFails
  BY <1>13, <1>0 DEF PollFails, Alone, TypeOK
<1>14. CASE UNCHANGED vars
  BY <1>14, <1>k DEF vars, Waiting, Listed
<1> QED
  BY <1>1, <1>2, <1>3, <1>4, <1>5, <1>6, <1>7, <1>8, <1>9, <1>10, <1>11, <1>12, <1>13, <1>14 DEF Next, PollStep

-----------------------------------------------------------------------------
(* Results *)

LEMMA InitIInv == Init => IInv
<1> SUFFICES ASSUME Init PROVE IInv
  OBVIOUS
<1> USE DEF Init
<1>1. TypeOK /\ PollTyped
  BY BoundTyped DEF TypeOK, PollTyped, Stage, View, NoView
<1>2. Waiting = {} /\ poll.at = "idle" /\ armed
  BY DEF Waiting, Idle
<1>3. ParkedOrDriven /\ Watched /\ Behind /\ CompareKeeps
  BY <1>2 DEF ParkedOrDriven, Watched, Behind, NoView, CompareKeeps
<1>4. ResumeKeeps /\ FlagKeeps
  BY <1>2 DEF ResumeKeeps, FlagKeeps
<1>5. Quiet
  BY <1>2 DEF Quiet, Alone
<1> QED
  BY <1>1, <1>3, <1>4, <1>5 DEF IInv

LEMMA StepIInv == IInv /\ [Next]_vars => IInv'
BY TypeStep, SoundStep, BehindStep, ResumeKeepsStep, QuietStep, FlagKeepsStep, CompareKeepsStep DEF IInv

\* The induction that the results below rest on.
THEOREM Invariance == Spec => []IInv
BY InitIInv, StepIInv, PTL DEF Spec

\* ReliableConversationRunner: for any number of Turns, commits, failing polls and
\* throwing slots, a Turn is never parked and driven at once, and while there is
\* something to watch a timer is set or a poll that sets it again is in flight.
THEOREM RunnerAlwaysSound == Spec => []RunnerSound
<1>1. IInv => RunnerSound
  BY DEF IInv, RunnerSound
<1> QED
  BY <1>1, Invariance, PTL

\* A wake may rest on the resume after a local commit, or on the flag alone if the
\* Turn has the runner to itself and no poll fails.
Reliable == ~bound.lostResume \/ \E t \in Turn : Alone(t)

\* observeWaitingWake and pollExternalWakes: for any number of Turns and commits,
\* wherever the drives, the observations and the polls stand, a parked Turn whose
\* facts changed is still going to be looked at - as long as its resume is not lost,
\* or it is the only Turn and polls do not fail.
THEOREM NoWakeLost == Spec => [](Reliable => WakeKept)
<1>1. IInv /\ ~bound.lostResume => WakeKept
  BY DEF IInv, ResumeKeeps, Kept, WakeKept, Waiting
<1>2. ASSUME IInv, NEW t \in Turn, Alone(t)
      PROVE  WakeKept
  <2>1. \A s \in Waiting : s = t
    BY <1>2 DEF IInv, Quiet, Waiting
  <2>2. t \in Waiting /\ facts[t] # parked[t].fp =>
             \/ parked[t].ver # version
             \/ localWake
             \/ poll.at = "version" /\ poll.local
             \/ Listed(t)
    BY <1>2 DEF IInv, FlagKeeps
  <2>3. Listed(t) => \/ poll.at \in {"visit", "facts", "compare"} /\ \E x \in poll.todo : x[1] = t
                     \/ poll.at = "facts" /\ poll.turn = t
                     \/ poll.at = "compare" /\ poll.turn = t /\ poll.fp # poll.was.fp
    BY DEF Listed
  <2> QED
    BY <2>1, <2>2, <2>3 DEF WakeKept
<1>3. IInv => (Reliable => WakeKept)
  BY <1>1, <1>2 DEF Reliable
<1> QED
  BY <1>3, Invariance, PTL
=============================================================================

-------------------------- MODULE TurnHandoverProofs --------------------------
(* What TurnHandover promises for any number of hosts, Turns, exits, stalls,    *)
(* questions, edits and interrupts: a lease and the slots that drive under it    *)
(* belong together, the owner of an active Turn remembers it, and the queue of   *)
(* an idle conversation is on its way to be offered.                             *)
EXTENDS TurnHandover, TLAPS

-----------------------------------------------------------------------------
(* The induction *)

\* A lease names a host that runs, a host that is gone, or nobody
OwnersRun == \A t \in Turn : owner[t] \in up \cup {Dead, Nobody}

\* A host that exited kept nothing that acts
DownForgets ==
    \A h \in Host \ up : /\ admission[h] = Idle /\ startup[h] = Done
                         /\ \A t \in Turn : slot[h][t] = "none"

\* An active Turn has a lease, and a slot that drives it holds that lease: one
\* that lost it is turned stale with the claim
ActiveLeased == \A t \in Turn : state[t] = "active" => owner[t] # Nobody
DriveLeased == \A h \in Host, t \in Turn : slot[h][t] = "drive" => owner[t] = h

IInv ==
    /\ TypeOK /\ OwnersRun /\ DownForgets /\ ActiveLeased /\ DriveLeased
    /\ LiveOwnerTracks /\ QueueWatched

-----------------------------------------------------------------------------
(* The helpers of the model *)

SlotState == {"none", "start", "drive", "stale"}
Slots == [Host -> [Turn -> SlotState]]
Bits == [Host -> [Turn -> BOOLEAN]]
Reads == [at: {"read"}, more: BOOLEAN]
Commits == [at: {"commit"}, more: BOOLEAN, candidate: Turn, current: BOOLEAN]
Judges == [at: {"turns"}, todo: SUBSET Turn, blocked: BOOLEAN]
Claims == [at: {"claim"}, todo: SUBSET Turn, blocked: BOOLEAN, turn: Turn]

\* A claim turns every slot that drives the Turn stale, and touches no other
LEMMA FencedSlots ==
    ASSUME TypeOK, NEW t \in Turn
    PROVE  /\ Fenced(t) \in Slots
           /\ \A g \in Host, s \in Turn :
                 Fenced(t)[g][s] = IF s = t /\ slot[g][s] = "drive" THEN "stale" ELSE slot[g][s]
BY DEF TypeOK, Fenced, Slots, SlotState

\* scheduleDrive starts a slot where there is none
LEMMA Scheduled ==
    ASSUME TypeOK, NEW h \in Host, NEW t \in Turn, NEW ss \in Slots, ScheduleDrive(h, t, ss)
    PROVE  /\ slot' \in Slots /\ again' \in Bits
           /\ \A g \in Host, s \in Turn :
                 slot'[g][s] = IF g = h /\ s = t /\ ss[h][t] = "none" THEN "start" ELSE ss[g][s]
           /\ slot'[h][t] # "none"
<1>1. again' \in Bits
  BY DEF ScheduleDrive, TypeOK, Bits
<1>2. CASE ss[h][t] = "none"
  BY <1>1, <1>2 DEF ScheduleDrive, Slots, SlotState
<1>3. CASE ss[h][t] # "none"
  BY <1>1, <1>3 DEF ScheduleDrive, Slots, SlotState
<1> QED
  BY <1>2, <1>3

\* A slot that ends drives no longer, and starts again only for a wake it got
LEMMA Ended ==
    ASSUME TypeOK, NEW h \in Host, NEW t \in Turn, NEW rerun \in BOOLEAN, EndSlot(h, t, rerun)
    PROVE  /\ slot' \in Slots /\ again' \in Bits
           /\ slot'[h][t] = IF rerun /\ again[h][t] THEN "start" ELSE "none"
           /\ \A g \in Host, s \in Turn : g # h \/ s # t => slot'[g][s] = slot[g][s]
BY DEF EndSlot, TypeOK, Slots, SlotState, Bits

\* The slot of one Turn on one host is set
LEMMA SetSlot ==
    ASSUME NEW h \in Host, NEW t \in Turn, NEW ss \in Slots, NEW where \in SlotState,
           slot' = [ss EXCEPT ![h][t] = where]
    PROVE  /\ slot' \in Slots /\ slot'[h][t] = where
           /\ \A g \in Host, s \in Turn : g # h \/ s # t => slot'[g][s] = ss[g][s]
BY DEF Slots, SlotState

LEMMA SlotsTyped == TypeOK => slot \in Slots /\ again \in Bits
BY DEF TypeOK, Slots, SlotState, Bits

\* Where the admission of a host and its recovery may stand
LEMMA AdmissionShape ==
    ASSUME TypeOK, NEW h \in Host
    PROVE  /\ admission[h] = Idle \/ admission[h] \in Reads \/ admission[h] \in Commits
           /\ admission[h].at = "read" => admission[h] \in Reads
           /\ admission[h].at = "commit" => admission[h] \in Commits
           /\ admission[h] = Idle <=> admission[h].at = "none"
<1>1. admission[h] = Idle \/ admission[h] \in Reads \/ admission[h] \in Commits
  BY DEF TypeOK, Reads, Commits
<1> QED
  BY <1>1 DEF Idle, Reads, Commits

LEMMA StartupShape ==
    ASSUME TypeOK, NEW h \in Host
    PROVE  /\ startup[h] \in {Done, Failed} \cup Judges \cup Claims
           /\ startup[h].at = "turns" => startup[h] \in Judges /\ startup[h] # Done
           /\ startup[h].at = "claim" => startup[h] \in Claims /\ startup[h] # Done
<1>1. startup[h] \in {Done, Failed} \cup Judges \cup Claims
  BY DEF TypeOK, Judges, Claims
<1> QED
  BY <1>1 DEF Done, Failed, Judges, Claims

\* A request is not forgotten: it starts an admission or is kept for the next round
LEMMA RequestedOffers ==
    ASSUME NEW a, a = Idle \/ a \in Reads \/ a \in Commits
    PROVE  \/ Requested(a) \in Reads
           \/ Requested(a) \in Commits /\ Requested(a).more
<1>1. CASE a = Idle
  BY <1>1 DEF Requested, Reads
<1>2. CASE a \in Reads
  BY <1>2 DEF Requested, Reads, Idle
<1>3. CASE a \in Commits
  <2>1. [a EXCEPT !.more = TRUE] \in Commits /\ [a EXCEPT !.more = TRUE].more
    BY <1>3 DEF Commits
  <2>2. Requested(a) = [a EXCEPT !.more = TRUE]
    BY <1>3 DEF Requested, Idle, Commits
  <2> QED
    BY <2>1, <2>2
<1> QED
  BY <1>1, <1>2, <1>3

\* The lists of parked and deferred Turns
LEMMA Listed ==
    ASSUME TypeOK, NEW h \in Host, NEW t \in Turn
    PROVE  /\ Unpark(h, t) => /\ parked' \in [Host -> SUBSET Turn]
                              /\ \A g \in Host, s \in Turn :
                                    s \in parked'[g] <=> s \in parked[g] /\ ~(g = h /\ s = t)
           /\ Undefer(h, t) => /\ deferred' \in [Host -> SUBSET Turn]
                               /\ \A g \in Host, s \in Turn :
                                     s \in deferred'[g] <=> s \in deferred[g] /\ ~(g = h /\ s = t)
           /\ Defer(h, t) => /\ deferred' \in [Host -> SUBSET Turn]
                             /\ \A g \in Host, s \in Turn :
                                   s \in deferred'[g] <=> s \in deferred[g] \/ (g = h /\ s = t)
<1>1. Unpark(h, t) => /\ parked' \in [Host -> SUBSET Turn]
                      /\ \A g \in Host, s \in Turn :
                            s \in parked'[g] <=> s \in parked[g] /\ ~(g = h /\ s = t)
  BY DEF TypeOK, Unpark
<1>2. Undefer(h, t) => /\ deferred' \in [Host -> SUBSET Turn]
                       /\ \A g \in Host, s \in Turn :
                             s \in deferred'[g] <=> s \in deferred[g] /\ ~(g = h /\ s = t)
  BY DEF TypeOK, Undefer
<1>3. Defer(h, t) => /\ deferred' \in [Host -> SUBSET Turn]
                     /\ \A g \in Host, s \in Turn :
                           s \in deferred'[g] <=> s \in deferred[g] \/ (g = h /\ s = t)
  BY DEF TypeOK, Defer
<1> QED
  BY <1>1, <1>2, <1>3

\* A lease is taken
LEMMA Taken ==
    ASSUME TypeOK, NEW h \in Host, NEW t \in Turn, TakeLease(h, t)
    PROVE  /\ owner' \in [Turn -> Host \cup {Dead, Nobody}] /\ fresh' \in [Turn -> BOOLEAN]
           /\ owner'[t] = h /\ owner'[t] # Nobody
           /\ \A s \in Turn \ {t} : owner'[s] = owner[s]
BY OwnerAssumption DEF TypeOK, TakeLease

\* The admission of a host is asked for
LEMMA Asked ==
    ASSUME TypeOK, NEW h \in Host, ScheduleAdmission(h)
    PROVE  /\ admission' \in [Host -> {Idle} \cup Reads \cup Commits]
           /\ \A g \in Host \ {h} : admission'[g] = admission[g]
           /\ admission'[h].at = "read" \/ (admission'[h].at = "commit" /\ admission'[h].more)
           /\ admission'[h] # Idle
<1>1. Requested(admission[h]) \in Reads \/ (Requested(admission[h]) \in Commits /\ Requested(admission[h]).more)
  BY AdmissionShape, RequestedOffers
<1>2. admission' = [admission EXCEPT ![h] = Requested(admission[h])]
  BY DEF ScheduleAdmission
<1>3. admission \in [Host -> {Idle} \cup Reads \cup Commits]
  BY DEF TypeOK, Reads, Commits
<1>4. admission'[h] = Requested(admission[h]) /\ \A g \in Host \ {h} : admission'[g] = admission[g]
  BY <1>2, <1>3
<1> QED
  BY <1>1, <1>2, <1>3, <1>4 DEF Reads, Commits, Idle

-----------------------------------------------------------------------------
(* Types *)

LEMMA TypeStep ==
    ASSUME TypeOK, DownForgets, [Next]_vars
    PROVE  TypeOK'
<1> USE DEF turns, drives
<1>t. /\ state \in [Turn -> {"absent", "queued", "active", "over"}]
      /\ owner \in [Turn -> Host \cup {Dead, Nobody}] /\ fresh \in [Turn -> BOOLEAN]
      /\ stop \subseteq Turn /\ wait \in [Turn -> {"no", "asked", "answered"}] /\ up \subseteq Host
      /\ slot \in Slots /\ again \in Bits
      /\ parked \in [Host -> SUBSET Turn] /\ deferred \in [Host -> SUBSET Turn]
      /\ admission \in [Host -> {Idle} \cup Reads \cup Commits]
      /\ startup \in [Host -> {Done, Failed} \cup Judges \cup Claims]
      /\ spent \in [exits: Nat, stalls: Nat, asks: Nat, edits: Nat, stops: Nat]
  BY DEF TypeOK, Slots, SlotState, Bits, Reads, Commits, Judges, Claims
<1>m. ASSUME state' \in [Turn -> {"absent", "queued", "active", "over"}],
             owner' \in [Turn -> Host \cup {Dead, Nobody}], fresh' \in [Turn -> BOOLEAN],
             stop' \subseteq Turn, wait' \in [Turn -> {"no", "asked", "answered"}], up' \subseteq Host,
             slot' \in Slots, again' \in Bits,
             parked' \in [Host -> SUBSET Turn], deferred' \in [Host -> SUBSET Turn],
             admission' \in [Host -> {Idle} \cup Reads \cup Commits],
             startup' \in [Host -> {Done, Failed} \cup Judges \cup Claims],
             spent' \in [exits: Nat, stalls: Nat, asks: Nat, edits: Nat, stops: Nat]
      PROVE  TypeOK'
  BY <1>m DEF TypeOK, Slots, SlotState, Bits, Reads, Commits, Judges, Claims
<1>1. ASSUME NEW h \in Host, NEW t \in Turn, Submit(h, t)
      PROVE  TypeOK'
  <2>1. CASE LeaseFree
    BY SMTT(30), <1>1, <2>1, <1>t, <1>m, Taken, Scheduled DEF Submit
  <2>2. CASE ~LeaseFree
    BY <1>1, <2>2, <1>t, <1>m, Asked DEF Submit
  <2> QED
    BY <2>1, <2>2
<1>2. ASSUME NEW h \in Host, NEW t \in Turn, Edit(h, t)
      PROVE  TypeOK'
  <2> DEFINE a(g) == IF admission[g].at = "commit" /\ admission[g].candidate = t
                     THEN [admission[g] EXCEPT !.current = FALSE] ELSE admission[g]
  <2>1. \A g \in Host : a(g) = Idle \/ a(g) \in Reads \/ a(g) \in Commits
    BY AdmissionShape DEF Commits
  <2>2. Requested(a(h)) \in Reads \cup Commits
    BY <2>1, RequestedOffers
  <2>3. admission' = [g \in Host |-> IF g = h THEN Requested(a(g)) ELSE a(g)]
    BY <1>2 DEF Edit
  <2> HIDE DEF a
  <2>4. admission' \in [Host -> {Idle} \cup Reads \cup Commits]
    BY <2>1, <2>2, <2>3
  <2>5. spent' \in [exits: Nat, stalls: Nat, asks: Nat, edits: Nat, stops: Nat]
    BY <1>2, <1>t DEF Edit
  <2> QED
    BY <1>2, <2>4, <2>5, <1>t, <1>m DEF Edit
<1>3. ASSUME NEW h \in Host, NEW t \in Turn, Interrupt(h, t)
      PROVE  TypeOK'
  <2>1. spent' \in [exits: Nat, stalls: Nat, asks: Nat, edits: Nat, stops: Nat]
    BY <1>3, <1>t DEF Interrupt
  <2> QED
    BY <1>3, <2>1, <1>t, <1>m, Scheduled, Listed DEF Interrupt
<1>4. ASSUME NEW h \in Host, NEW t \in Turn, Answer(h, t)
      PROVE  TypeOK'
  <2>1. wait' \in [Turn -> {"no", "asked", "answered"}]
    BY <1>4, <1>t DEF Answer
  <2> QED
    BY <1>4, <2>1, <1>t, <1>m, Scheduled, Listed DEF Answer
<1>5. ASSUME NEW h \in Host, NEW t \in Turn, Begin(h, t)
      PROVE  TypeOK'
  <2>0. /\ UNCHANGED <<state, stop, wait, up, parked, admission, startup, spent>>
        /\ Undefer(h, t) \/ Defer(h, t)
    BY <1>5 DEF Begin
  <2>1. deferred' \in [Host -> SUBSET Turn]
    BY <2>0, Listed
  <2>2. CASE Owns(h, t)
    <3>1. slot' = [slot EXCEPT ![h][t] = "drive"] /\ again' = [again EXCEPT ![h][t] = FALSE]
          /\ UNCHANGED <<owner, fresh>>
      BY <1>5, <2>2 DEF Begin
    <3>2. slot' \in Slots /\ again' \in Bits
      BY <3>1, <1>t DEF Slots, SlotState, Bits
    <3> QED
      BY <2>0, <2>1, <3>1, <3>2, <1>t, <1>m
  <2>3. CASE ~Owns(h, t) /\ Claimable(h, t)
    <3>1. slot' = [Fenced(t) EXCEPT ![h][t] = "drive"] /\ again' = [again EXCEPT ![h][t] = FALSE]
          /\ TakeLease(h, t)
      BY <1>5, <2>3 DEF Begin
    <3>2. slot' \in Slots /\ again' \in Bits
      BY <3>1, <1>t, FencedSlots DEF Slots, SlotState, Bits
    <3> QED
      BY <2>0, <2>1, <3>1, <3>2, <1>t, <1>m, Taken
  <2>4. CASE ~Owns(h, t) /\ ~Claimable(h, t)
    <3>1. EndSlot(h, t, FALSE) /\ UNCHANGED <<owner, fresh>>
      BY <1>5, <2>4 DEF Begin
    <3>2. slot' \in Slots /\ again' \in Bits
      BY <3>1, Ended
    <3> QED
      BY <2>0, <2>1, <3>1, <3>2, <1>t, <1>m
  <2> QED
    BY <2>2, <2>3, <2>4
<1>6. ASSUME NEW h \in Host, NEW t \in Turn, Ask(h, t) \/ UseAnswer(h, t)
      PROVE  TypeOK'
  <2>1. wait' \in [Turn -> {"no", "asked", "answered"}]
    BY <1>6, <1>t DEF Ask, UseAnswer
  <2>2. spent' \in [exits: Nat, stalls: Nat, asks: Nat, edits: Nat, stops: Nat]
    BY <1>6, <1>t DEF Ask, UseAnswer
  <2> QED
    BY <1>6, <2>1, <2>2, <1>t, <1>m DEF Ask, UseAnswer
<1>7. ASSUME NEW h \in Host, NEW t \in Turn, Finish(h, t)
      PROVE  TypeOK'
  <2>1. /\ state' \in [Turn -> {"absent", "queued", "active", "over"}]
        /\ owner' \in [Turn -> Host \cup {Dead, Nobody}] /\ fresh' \in [Turn -> BOOLEAN]
    BY <1>7, <1>t DEF Finish
  <2>2. stop' \subseteq Turn /\ wait' \in [Turn -> {"no", "asked", "answered"}]
    BY <1>7, <1>t DEF Finish
  <2> QED
    BY <1>7, <2>1, <2>2, <1>t, <1>m, Ended, Asked DEF Finish
<1>8. ASSUME NEW h \in Host, NEW t \in Turn, Wait(h, t)
      PROVE  TypeOK'
  <2>1. parked' \in [Host -> SUBSET Turn] /\ deferred' \in [Host -> SUBSET Turn]
    BY <1>8, <1>t, Listed DEF Wait
  <2> QED
    BY <1>8, <2>1, <1>t, <1>m, Ended DEF Wait
<1>9. ASSUME NEW h \in Host, NEW t \in Turn, HandOff(h, t)
      PROVE  TypeOK'
  BY <1>9, <1>t, <1>m, Ended, Listed DEF HandOff
<1>10. ASSUME NEW h \in Host, NEW t \in Turn, WakeParked(h, t)
       PROVE  TypeOK'
  BY <1>10, <1>t, <1>m, Scheduled, Listed DEF WakeParked
<1>11. ASSUME NEW h \in Host, NEW t \in Turn, RetryDeferred(h, t)
       PROVE  TypeOK'
  <2>1. CASE Claimable(h, t)
    BY <1>11, <2>1, <1>t, <1>m, Scheduled, Listed, Taken, FencedSlots DEF RetryDeferred
  <2>2. CASE ~Claimable(h, t)
    BY <1>11, <2>2, <1>t, <1>m, Listed DEF RetryDeferred
  <2> QED
    BY <2>1, <2>2
<1>12. ASSUME NEW h \in Host, AdmitRead(h)
       PROVE  TypeOK'
  <2>1. admission[h] \in Reads /\ UNCHANGED <<turns, up, drives, startup, spent>>
    BY <1>12, AdmissionShape DEF AdmitRead
  <2>2. CASE Queued = {}
    <3>1. ReadAgain(admission[h]) \in {Idle} \cup Reads
      BY DEF ReadAgain, Reads
    <3> QED
      BY <1>12, <2>1, <2>2, <3>1, <1>t, <1>m DEF AdmitRead
  <2>3. CASE Queued # {}
    <3>1. PICK t \in Queued : admission' = [admission EXCEPT ![h] =
                  [at |-> "commit", more |-> admission[h].more, candidate |-> t, current |-> TRUE]]
      BY <1>12, <2>3 DEF AdmitRead
    <3>2. [at |-> "commit", more |-> admission[h].more, candidate |-> t, current |-> TRUE] \in Commits
      BY <2>1 DEF Reads, Commits, Queued
    <3> QED
      BY <2>1, <3>1, <3>2, <1>t, <1>m
  <2> QED
    BY <2>2, <2>3
<1>13. ASSUME NEW h \in Host, AdmitCommit(h)
       PROVE  TypeOK'
  <2> DEFINE t == admission[h].candidate
  <2>1. t \in Turn /\ UNCHANGED <<stop, wait, up, deferred, startup, spent>>
    BY <1>13, AdmissionShape DEF AdmitCommit, AdmitWith, Commits
  <2>2. CASE admission[h].current /\ state[t] = "queued" /\ LeaseFree
    <3>1. /\ state' = [state EXCEPT ![t] = "active"] /\ TakeLease(h, t) /\ ScheduleDrive(h, t, slot)
          /\ Unpark(h, t) /\ admission' = [admission EXCEPT ![h] = Idle]
      BY <1>13, <2>2 DEF AdmitCommit, AdmitWith
    <3>2. state' \in [Turn -> {"absent", "queued", "active", "over"}]
          /\ admission' \in [Host -> {Idle} \cup Reads \cup Commits]
      BY <3>1, <1>t
    <3> QED
      BY <2>1, <3>1, <3>2, <1>t, <1>m, Taken, Scheduled, Listed
  <2>3. CASE ~(admission[h].current /\ state[t] = "queued" /\ LeaseFree)
    <3>1. admission' = [admission EXCEPT ![h] = ReadAgain(admission[h])]
          /\ UNCHANGED <<state, owner, fresh, slot, again, parked>>
      BY <1>13, <2>3 DEF AdmitCommit, AdmitWith
    <3>2. ReadAgain(admission[h]) \in {Idle} \cup Reads
      BY DEF ReadAgain, Reads
    <3> QED
      BY <2>1, <3>1, <3>2, <1>t, <1>m
  <2> QED
    BY <2>2, <2>3
<1>14. ASSUME NEW h \in Host, Exit(h)
       PROVE  TypeOK'
  <2>1. owner' \in [Turn -> Host \cup {Dead, Nobody}] /\ up' \subseteq Host
    BY <1>14, <1>t DEF Exit
  <2>2. slot' \in Slots /\ again' \in Bits
    BY <1>14, <1>t DEF Exit, Slots, SlotState, Bits
  <2>3. parked' \in [Host -> SUBSET Turn] /\ deferred' \in [Host -> SUBSET Turn]
    BY <1>14, <1>t DEF Exit
  <2>4. admission' \in [Host -> {Idle} \cup Reads \cup Commits]
        /\ startup' \in [Host -> {Done, Failed} \cup Judges \cup Claims]
    BY <1>14, <1>t DEF Exit
  <2>5. spent' \in [exits: Nat, stalls: Nat, asks: Nat, edits: Nat, stops: Nat]
    BY <1>14, <1>t DEF Exit
  <2> QED
    BY <1>14, <2>1, <2>2, <2>3, <2>4, <2>5, <1>t, <1>m DEF Exit
<1>15. ASSUME NEW h \in Host, Startup(h)
       PROVE  TypeOK'
  <2>1. [at |-> "turns", todo |-> Active, blocked |-> FALSE] \in Judges
    BY DEF Judges, Active
  <2> QED
    BY <1>15, <2>1, <1>t, <1>m DEF Startup
<1>16. ASSUME NEW h \in Host, JudgeTurn(h)
       PROVE  TypeOK'
  <2>1. startup[h] \in Judges /\ UNCHANGED <<turns, up, drives, admission, spent>>
    BY <1>16, StartupShape DEF JudgeTurn
  <2>2. PICK t \in startup[h].todo : startup' = [startup EXCEPT ![h] = Judge(startup[h], t)]
    BY <1>16 DEF JudgeTurn
  <2>3. Judge(startup[h], t) \in Judges \cup Claims
    BY <2>1 DEF Judge, Judges, Claims
  <2> QED
    BY <2>1, <2>2, <2>3, <1>t, <1>m
<1>17. ASSUME NEW h \in Host, ClaimTurn(h)
       PROVE  TypeOK'
  <2> DEFINE t == startup[h].turn
  <2>1. startup[h] \in Claims /\ UNCHANGED <<state, stop, wait, up, admission, spent>>
    BY <1>17, StartupShape DEF ClaimTurn
  <2>2. t \in Turn /\ Blocking(startup[h]) \in Judges
    BY <2>1 DEF Claims, Judges, Blocking
  <2>3. startup' \in [Host -> {Done, Failed} \cup Judges \cup Claims]
    BY <1>17, <2>2, <1>t DEF ClaimTurn
  <2>4. CASE TakeLease(h, t) /\ ScheduleDrive(h, t, Fenced(t)) /\ Unpark(h, t) /\ UNCHANGED deferred
    BY <2>1, <2>2, <2>3, <2>4, <1>t, <1>m, Taken, Scheduled, FencedSlots, Listed
  <2>5. CASE Defer(h, t) /\ UNCHANGED <<owner, fresh, slot, again, parked>>
    BY <2>1, <2>2, <2>3, <2>5, <1>t, <1>m, Listed
  <2>6. CASE UNCHANGED <<owner, fresh, drives>>
    BY <2>1, <2>2, <2>3, <2>6, <1>t, <1>m
  <2> QED
    BY <1>17, <2>4, <2>5, <2>6 DEF ClaimTurn
<1>18. ASSUME NEW h \in Host, RecoverQueue(h)
       PROVE  TypeOK'
  <2>1. startup' \in [Host -> {Done, Failed} \cup Judges \cup Claims]
    BY <1>18, <1>t DEF RecoverQueue
  <2> QED
    BY <1>18, <2>1, <1>t, <1>m, Asked DEF RecoverQueue
<1>19. ASSUME NEW t \in Turn, Lapse(t) \/ Stall(t)
       PROVE  TypeOK'
  <2>1. fresh' \in [Turn -> BOOLEAN]
    BY <1>19, <1>t DEF Lapse, Stall
  <2>2. spent' \in [exits: Nat, stalls: Nat, asks: Nat, edits: Nat, stops: Nat]
    BY <1>19, <1>t DEF Lapse, Stall
  <2> QED
    BY <1>19, <2>1, <2>2, <1>t, <1>m DEF Lapse, Stall
<1>20. CASE UNCHANGED vars
  BY <1>20, <1>t, <1>m DEF vars
<1> QED
  BY <1>1, <1>2, <1>3, <1>4, <1>5, <1>6, <1>7, <1>8, <1>9, <1>10, <1>11, <1>12, <1>13, <1>14, <1>15,
     <1>16, <1>17, <1>18, <1>19, <1>20 DEF Next, SlotStep, AdmissionStep, StartupStep

-----------------------------------------------------------------------------
(* Leases and slots *)

Leases == OwnersRun /\ DownForgets /\ ActiveLeased /\ DriveLeased /\ LiveOwnerTracks

\* Where a host acts, it runs
LEMMA Runs ==
    ASSUME IInv, NEW h \in Host
    PROVE  /\ \A t \in Turn : slot[h][t] # "none" => h \in up
           /\ admission[h].at \in {"read", "commit"} => h \in up
           /\ startup[h].at \in {"turns", "claim"} => h \in up
BY DEF IInv, DownForgets, Idle, Done

\* A running host does something with its slot for t, under the leases as they are
LEMMA SlotOnlyStep ==
    ASSUME IInv, NEW h \in up, NEW t \in Turn, UNCHANGED <<state, owner, up, startup, admission>>,
           \A g \in Host, s \in Turn : g # h \/ s # t =>
               /\ slot'[g][s] = slot[g][s]
               /\ s \in parked[g] \cup deferred[g] => s \in parked'[g] \cup deferred'[g],
           slot'[h][t] = "drive" => owner[t] = h,
           state[t] = "active" /\ owner[t] = h => slot'[h][t] # "none" \/ t \in parked'[h] \cup deferred'[h]
    PROVE  Leases'
<1>1. h \in Host /\ up \subseteq Host
  BY DEF IInv, TypeOK
<1>2. OwnersRun' /\ DownForgets' /\ ActiveLeased' /\ DriveLeased'
  BY <1>1 DEF IInv, OwnersRun, DownForgets, ActiveLeased, DriveLeased
<1>3. LiveOwnerTracks'
  BY <1>1 DEF IInv, LiveOwnerTracks, Active
<1> QED
  BY <1>2, <1>3 DEF Leases

\* A running host claims the lease of t and has a slot for it
LEMMA ClaimStep ==
    ASSUME IInv, NEW h \in up, NEW t \in Turn, TakeLease(h, t), UNCHANGED <<state, up, admission>>,
           \A g \in Host \ {h} : startup'[g] = startup[g],
           \A g \in Host, s \in Turn : g # h \/ s # t =>
               /\ slot'[g][s] = Fenced(t)[g][s]
               /\ s \in parked[g] \cup deferred[g] => s \in parked'[g] \cup deferred'[g],
           slot'[h][t] # "none"
    PROVE  Leases'
<1>0. TypeOK /\ h \in Host /\ up \subseteq Host
  BY DEF IInv, TypeOK
<1>1. owner'[t] = h /\ h # Nobody /\ \A s \in Turn \ {t} : owner'[s] = owner[s]
  BY <1>0, Taken
<1>2. \A g \in Host, s \in Turn : g # h \/ s # t =>
          slot'[g][s] = IF s = t /\ slot[g][s] = "drive" THEN "stale" ELSE slot[g][s]
  BY <1>0, FencedSlots
<1>3. OwnersRun' /\ ActiveLeased'
  BY <1>0, <1>1 DEF IInv, OwnersRun, ActiveLeased
<1>4. DownForgets'
  BY <1>0, <1>2 DEF IInv, DownForgets
<1>5. DriveLeased'
  BY <1>0, <1>1, <1>2 DEF IInv, DriveLeased
<1>6. LiveOwnerTracks'
  BY <1>0, <1>1, <1>2 DEF IInv, LiveOwnerTracks, Active
<1> QED
  BY <1>3, <1>4, <1>5, <1>6 DEF Leases

\* A running host admits t and has a slot for it
LEMMA AdmitStep ==
    ASSUME IInv, NEW h \in up, NEW t \in Turn, TakeLease(h, t), LeaseFree,
           state' = [state EXCEPT ![t] = "active"], UNCHANGED <<up, startup, deferred>>,
           \A g \in Host \ {h} : admission'[g] = admission[g],
           ScheduleDrive(h, t, slot),
           UNCHANGED parked \/ Unpark(h, t)
    PROVE  Leases'
<1>0. TypeOK /\ h \in Host /\ up \subseteq Host
  BY DEF IInv, TypeOK
<1>1. /\ owner'[t] = h /\ h # Nobody /\ \A s \in Turn \ {t} : owner'[s] = owner[s]
      /\ owner[t] = Nobody /\ \A s \in Turn \ {t} : state'[s] = state[s]
  BY <1>0, Taken DEF LeaseFree, TypeOK
<1>2. /\ \A g \in Host, s \in Turn : slot'[g][s] = IF g = h /\ s = t /\ slot[h][t] = "none"
                                                   THEN "start" ELSE slot[g][s]
      /\ slot'[h][t] # "none"
  BY <1>0, Scheduled, SlotsTyped
<1>3. \A g \in Host, s \in Turn : g # h \/ s # t => (s \in parked[g] => s \in parked'[g])
  BY <1>0, Listed
<1>4. OwnersRun' /\ ActiveLeased'
  BY <1>0, <1>1 DEF IInv, OwnersRun, ActiveLeased
<1>5. DownForgets'
  BY <1>0, <1>2 DEF IInv, DownForgets
<1>6. DriveLeased'
  BY <1>0, <1>1, <1>2, OwnerAssumption DEF IInv, DriveLeased
<1>7. LiveOwnerTracks'
  BY <1>0, <1>1, <1>2, <1>3 DEF IInv, LiveOwnerTracks, Active
<1> QED
  BY <1>4, <1>5, <1>6, <1>7 DEF Leases

\* Leases, slots and lists stay as they are
LEMMA AsideStep ==
    ASSUME IInv, UNCHANGED <<owner, drives>>, up \subseteq up', up' \subseteq Host,
           \A t \in Turn : state'[t] = "active" => state[t] = "active",
           \A g \in Host \ up' : admission'[g] = admission[g] /\ startup'[g] = startup[g]
    PROVE  Leases'
<1>1. LiveOwnerTracks'
  <2>1. \A h \in up' \ up, t \in Turn : owner[t] # h
    BY OwnerAssumption DEF IInv, OwnersRun
  <2> QED
    BY <2>1 DEF IInv, LiveOwnerTracks, Active, drives
<1> QED
  BY <1>1 DEF IInv, Leases, OwnersRun, DownForgets, ActiveLeased, DriveLeased, drives

LEMMA LeaseStep ==
    ASSUME IInv, [Next]_vars
    PROVE  Leases'
<1> USE DEF turns, drives
<1>0. TypeOK /\ up \subseteq Host /\ slot \in Slots
  BY SlotsTyped DEF IInv, TypeOK
<1>1. ASSUME NEW h \in Host, NEW t \in Turn, Submit(h, t)
      PROVE  Leases'
  <2>1. CASE LeaseFree
    BY <1>1, <2>1, AdmitStep DEF Submit
  <2>2. CASE ~LeaseFree
    <3>1. /\ state' = [state EXCEPT ![t] = "queued"] /\ ScheduleAdmission(h) /\ h \in up
          /\ UNCHANGED <<owner, drives, up, startup>>
      BY <1>1, <2>2 DEF Submit
    <3>2. \A g \in Host \ {h} : admission'[g] = admission[g]
      BY <3>1, <1>0, Asked
    <3> QED
      BY <3>1, <3>2, <1>0, AsideStep DEF TypeOK
  <2> QED
    BY <2>1, <2>2
<1>2. ASSUME NEW h \in Host, NEW t \in Turn, Edit(h, t)
      PROVE  Leases'
  <2>1. /\ UNCHANGED <<turns, up, drives, startup>> /\ h \in up
        /\ \A g \in Host \ {h} : admission[g] = Idle => admission'[g] = admission[g]
    BY <1>2 DEF Edit, Idle
  <2>2. \A g \in Host \ up : admission[g] = Idle
    BY DEF IInv, DownForgets
  <2> QED
    BY <2>1, <2>2, <1>0, AsideStep
<1>3. ASSUME NEW h \in Host, NEW t \in Turn, Interrupt(h, t) \/ Answer(h, t) \/ WakeParked(h, t)
      PROVE  Leases'
  <2>1. /\ h \in up /\ ScheduleDrive(h, t, slot) /\ Unpark(h, t)
        /\ UNCHANGED <<state, owner, up, deferred, admission, startup>>
    BY <1>3 DEF Interrupt, Answer, WakeParked
  <2>2. slot'[h][t] = "drive" => owner[t] = h
    BY <2>1, <1>0, Scheduled DEF IInv, DriveLeased
  <2> QED
    BY <2>1, <2>2, <1>0, Scheduled, Listed, SlotOnlyStep
<1>4. ASSUME NEW h \in Host, NEW t \in Turn, Begin(h, t)
      PROVE  Leases'
  <2>0. /\ UNCHANGED <<state, up, parked, admission, startup>> /\ h \in up
        /\ Undefer(h, t) \/ Defer(h, t)
    BY <1>4, Runs DEF Begin
  <2>1. \A g \in Host, s \in Turn : g # h \/ s # t =>
            (s \in parked[g] \cup deferred[g] => s \in parked'[g] \cup deferred'[g])
    BY <2>0, <1>0, Listed
  <2>2. CASE Owns(h, t)
    <3>1. slot' = [slot EXCEPT ![h][t] = "drive"] /\ UNCHANGED owner /\ owner[t] = h
      BY <1>4, <2>2 DEF Begin, Owns
    <3>2. slot'[h][t] = "drive" /\ \A g \in Host, s \in Turn : g # h \/ s # t => slot'[g][s] = slot[g][s]
      BY <3>1, <1>0 DEF Slots, SlotState
    <3> QED
      BY <2>0, <2>1, <3>1, <3>2, SlotOnlyStep
  <2>3. CASE ~Owns(h, t) /\ Claimable(h, t)
    <3>1. slot' = [Fenced(t) EXCEPT ![h][t] = "drive"] /\ TakeLease(h, t)
      BY <1>4, <2>3 DEF Begin
    <3>2. slot'[h][t] = "drive" /\ \A g \in Host, s \in Turn : g # h \/ s # t => slot'[g][s] = Fenced(t)[g][s]
      BY <3>1, <1>0, FencedSlots DEF Slots, SlotState
    <3> QED
      BY <2>0, <2>1, <3>1, <3>2, ClaimStep
  <2>4. CASE ~Owns(h, t) /\ ~Claimable(h, t)
    <3>1. EndSlot(h, t, FALSE) /\ UNCHANGED owner /\ (state[t] = "active" => Defer(h, t))
      BY <1>4, <2>4 DEF Begin
    <3>2. slot'[h][t] = "none" /\ \A g \in Host, s \in Turn : g # h \/ s # t => slot'[g][s] = slot[g][s]
      BY <3>1, <1>0, Ended
    <3>3. state[t] = "active" => t \in deferred'[h]
      BY <3>1, <1>0, Listed
    <3> QED
      BY <2>0, <2>1, <3>1, <3>2, <3>3, SlotOnlyStep
  <2> QED
    BY <2>2, <2>3, <2>4
<1>5. ASSUME NEW h \in Host, NEW t \in Turn, Wait(h, t) \/ HandOff(h, t)
      PROVE  Leases'
  <2>0. /\ UNCHANGED <<state, owner, up, admission, startup>> /\ h \in up /\ EndSlot(h, t, TRUE)
    BY <1>5, Runs DEF Wait, HandOff
  <2>1. /\ slot'[h][t] = IF again[h][t] THEN "start" ELSE "none"
        /\ \A g \in Host, s \in Turn : g # h \/ s # t => slot'[g][s] = slot[g][s]
    BY <2>0, <1>0, Ended
  <2>2. CASE HandOff(h, t)
    <3>1. Defer(h, t) /\ Unpark(h, t)
      BY <2>2 DEF HandOff
    <3> QED
      BY <2>0, <2>1, <3>1, <1>0, Listed, SlotOnlyStep
  <2>3. CASE Wait(h, t)
    <3>1. CASE again[h][t]
      <4>1. UNCHANGED <<parked, deferred>>
        BY <2>3, <3>1 DEF Wait
      <4> QED
        BY <2>0, <2>1, <3>1, <4>1, SlotOnlyStep
    <3>2. CASE ~again[h][t]
      <4>1. /\ \A g \in Host, s \in Turn : s \in parked[g] \cup deferred[g] => s \in parked'[g] \cup deferred'[g]
            /\ t \in parked'[h] \cup deferred'[h]
        <5>1. CASE Owns(h, t)
          <6>1. parked' = [parked EXCEPT ![h] = @ \cup {t}] /\ UNCHANGED deferred
            BY <2>3, <3>2, <5>1 DEF Wait
          <6> QED
            BY <6>1, <1>0 DEF TypeOK
        <5>2. CASE ~Owns(h, t)
          <6>1. Defer(h, t) /\ UNCHANGED parked
            BY <2>3, <3>2, <5>2 DEF Wait
          <6> QED
            BY <6>1, <1>0, Listed
        <5> QED
          BY <5>1, <5>2
      <4> QED
        BY <2>0, <2>1, <3>2, <4>1, SlotOnlyStep
    <3> QED
      BY <3>1, <3>2
  <2> QED
    BY <1>5, <2>2, <2>3
<1>6. ASSUME NEW h \in Host, NEW t \in Turn, Finish(h, t)
      PROVE  Leases'
  <2>1. /\ state' = [state EXCEPT ![t] = "over"] /\ owner' = [owner EXCEPT ![t] = Nobody]
        /\ EndSlot(h, t, FALSE) /\ ScheduleAdmission(h) /\ UNCHANGED <<up, parked, deferred, startup>>
        /\ h \in up /\ slot[h][t] = "drive"
    BY <1>6, Runs DEF Finish
  <2>2. /\ slot'[h][t] = "none" /\ \A g \in Host, s \in Turn : g # h \/ s # t => slot'[g][s] = slot[g][s]
        /\ \A g \in Host \ {h} : admission'[g] = admission[g]
    BY <2>1, <1>0, Ended, Asked
  <2>3. state'[t] = "over" /\ owner'[t] = Nobody
        /\ \A s \in Turn \ {t} : state'[s] = state[s] /\ owner'[s] = owner[s]
    BY <2>1, <1>0 DEF TypeOK
  <2>4. OwnersRun' /\ DownForgets' /\ ActiveLeased'
    BY <2>1, <2>2, <2>3, <1>0 DEF IInv, OwnersRun, DownForgets, ActiveLeased
  <2>5. DriveLeased'
    BY <2>1, <2>2, <2>3 DEF IInv, DriveLeased
  <2>6. LiveOwnerTracks'
    BY <2>1, <2>2, <2>3, <1>0 DEF IInv, LiveOwnerTracks, Active
  <2> QED
    BY <2>4, <2>5, <2>6 DEF Leases
<1>7. ASSUME NEW h \in Host, NEW t \in Turn, RetryDeferred(h, t)
      PROVE  Leases'
  <2>0. h \in up /\ Undefer(h, t) /\ UNCHANGED <<state, up, admission, startup>>
    BY <1>7 DEF RetryDeferred
  <2>1. CASE Claimable(h, t)
    <3>1. TakeLease(h, t) /\ ScheduleDrive(h, t, Fenced(t)) /\ Unpark(h, t)
      BY <1>7, <2>1 DEF RetryDeferred
    <3>2. slot'[h][t] # "none" /\ \A g \in Host, s \in Turn : g # h \/ s # t => slot'[g][s] = Fenced(t)[g][s]
      BY <3>1, <1>0, FencedSlots, Scheduled
    <3> QED
      BY <2>0, <3>1, <3>2, <1>0, Listed, ClaimStep
  <2>2. CASE ~Claimable(h, t)
    <3>1. state[t] # "active" /\ UNCHANGED <<owner, slot, parked>>
      BY <1>7, <2>2 DEF RetryDeferred
    <3>2. slot'[h][t] = "drive" => owner[t] = h
      BY <3>1 DEF IInv, DriveLeased
    <3> QED
      BY <2>0, <3>1, <3>2, <1>0, Listed, SlotOnlyStep
  <2> QED
    BY <2>1, <2>2
<1>8. ASSUME NEW h \in Host, AdmitRead(h)
      PROVE  Leases'
  <2>1. /\ UNCHANGED <<turns, up, drives, startup>> /\ h \in up
        /\ \A g \in Host \ {h} : admission'[g] = admission[g]
    BY <1>8, <1>0, Runs DEF AdmitRead, TypeOK
  <2> QED
    BY <2>1, <1>0, AsideStep
<1>9. ASSUME NEW h \in Host, AdmitCommit(h)
      PROVE  Leases'
  <2> DEFINE t == admission[h].candidate
  <2>1. /\ t \in Turn /\ h \in up /\ UNCHANGED <<up, startup, deferred>>
        /\ \A g \in Host \ {h} : admission'[g] = admission[g]
    <3>1. t \in Turn
      BY <1>9, <1>0, AdmissionShape DEF AdmitCommit, AdmitWith, Commits
    <3>2. h \in up /\ UNCHANGED <<up, startup, deferred>>
      BY <1>9, Runs DEF AdmitCommit, AdmitWith
    <3>3. \A g \in Host \ {h} : admission'[g] = admission[g]
      BY <1>9, <1>0 DEF AdmitCommit, AdmitWith, TypeOK
    <3> QED
      BY <3>1, <3>2, <3>3
  <2>2. CASE admission[h].current /\ state[t] = "queued" /\ LeaseFree
    BY <1>9, <2>1, <2>2, AdmitStep DEF AdmitCommit, AdmitWith
  <2>3. CASE ~(admission[h].current /\ state[t] = "queued" /\ LeaseFree)
    <3>1. UNCHANGED <<state, owner, drives>>
      BY <1>9, <2>1, <2>3 DEF AdmitCommit, AdmitWith
    <3> QED
      BY <2>1, <3>1, <1>0, AsideStep
  <2> QED
    BY <2>2, <2>3
<1>10. ASSUME NEW h \in Host, Exit(h)
       PROVE  Leases'
  <2>1. /\ h \in up /\ up' = up \ {h} /\ UNCHANGED state
        /\ \A t \in Turn : owner'[t] = IF owner[t] = h THEN Dead ELSE owner[t]
        /\ \A g \in Host \ {h} : /\ slot'[g] = slot[g] /\ parked'[g] = parked[g] /\ deferred'[g] = deferred[g]
                                 /\ admission'[g] = admission[g] /\ startup'[g] = startup[g]
        /\ admission'[h] = Idle /\ startup'[h] = Done /\ \A t \in Turn : slot'[h][t] = "none"
    BY <1>10, <1>0 DEF Exit, TypeOK
  <2>2. OwnersRun' /\ DownForgets'
    BY <2>1 DEF IInv, OwnersRun, DownForgets
  <2>3. ActiveLeased' /\ DriveLeased'
    BY <2>1, OwnerAssumption DEF IInv, ActiveLeased, DriveLeased
  <2>4. LiveOwnerTracks'
    BY <2>1, <1>0, OwnerAssumption DEF IInv, LiveOwnerTracks, Active
  <2> QED
    BY <2>2, <2>3, <2>4 DEF Leases
<1>11. ASSUME NEW h \in Host, Startup(h)
       PROVE  Leases'
  <2>1. /\ UNCHANGED <<turns, drives, admission>> /\ up' = up \cup {h}
        /\ \A g \in Host \ {h} : startup'[g] = startup[g]
    BY <1>11, <1>0 DEF Startup, TypeOK
  <2> QED
    BY <2>1, <1>0, AsideStep
<1>12. ASSUME NEW h \in Host, JudgeTurn(h) \/ RecoverQueue(h)
       PROVE  Leases'
  <2>1. UNCHANGED <<turns, up, drives>> /\ h \in up
    BY <1>12, Runs DEF JudgeTurn, RecoverQueue
  <2>2. \A g \in Host \ {h} : startup'[g] = startup[g]
    BY <1>12, <1>0 DEF JudgeTurn, RecoverQueue, TypeOK
  <2>3. \A g \in Host \ {h} : admission'[g] = admission[g]
    BY <1>12, <1>0, Asked DEF JudgeTurn, RecoverQueue
  <2> QED
    BY <2>1, <2>2, <2>3, <1>0, AsideStep
<1>13. ASSUME NEW h \in Host, ClaimTurn(h)
       PROVE  Leases'
  <2> DEFINE t == startup[h].turn
  <2>0. /\ t \in Turn /\ h \in up /\ UNCHANGED <<state, up, admission>>
        /\ \A g \in Host \ {h} : startup'[g] = startup[g]
    <3>1. t \in Turn
      BY <1>13, <1>0, StartupShape DEF ClaimTurn, Claims
    <3>2. h \in up /\ UNCHANGED <<state, up, admission>>
      BY <1>13, Runs DEF ClaimTurn
    <3>3. \A g \in Host \ {h} : startup'[g] = startup[g]
      BY <1>13, <1>0 DEF ClaimTurn, TypeOK
    <3> QED
      BY <3>1, <3>2, <3>3
  <2>1. CASE TakeLease(h, t) /\ ScheduleDrive(h, t, Fenced(t)) /\ Unpark(h, t) /\ UNCHANGED deferred
    <3>1. slot'[h][t] # "none" /\ \A g \in Host, s \in Turn : g # h \/ s # t => slot'[g][s] = Fenced(t)[g][s]
      BY <2>0, <2>1, <1>0, FencedSlots, Scheduled
    <3> QED
      BY <2>0, <2>1, <3>1, <1>0, Listed, ClaimStep
  <2>2. CASE Defer(h, t) /\ UNCHANGED <<owner, fresh, slot, again, parked>>
    <3>1. \A g \in Host, s \in Turn : s \in parked[g] \cup deferred[g] => s \in parked'[g] \cup deferred'[g]
      BY <2>0, <2>2, <1>0, Listed
    <3>2. OwnersRun' /\ DownForgets' /\ ActiveLeased' /\ DriveLeased'
      BY <2>0, <2>2, <1>0 DEF IInv, OwnersRun, DownForgets, ActiveLeased, DriveLeased
    <3>3. LiveOwnerTracks'
      BY <2>0, <2>2, <3>1, <1>0 DEF IInv, LiveOwnerTracks, Active
    <3> QED
      BY <3>2, <3>3 DEF Leases
  <2>3. CASE UNCHANGED <<owner, fresh, drives>>
    BY <2>0, <2>3, <1>0, AsideStep
  <2> QED
    BY <1>13, <2>1, <2>2, <2>3 DEF ClaimTurn
<1>14. ASSUME NEW t \in Turn, Lapse(t) \/ Stall(t)
       PROVE  Leases'
  BY <1>14, <1>0, AsideStep DEF Lapse, Stall
<1>15. ASSUME NEW h \in Host, NEW t \in Turn, Ask(h, t) \/ UseAnswer(h, t)
       PROVE  Leases'
  BY <1>15, <1>0, AsideStep DEF Ask, UseAnswer
<1>16. CASE UNCHANGED vars
  BY <1>16, <1>0, AsideStep DEF vars
<1> QED
  BY <1>1, <1>2, <1>3, <1>4, <1>5, <1>6, <1>7, <1>8, <1>9, <1>10, <1>11, <1>12, <1>13, <1>14, <1>15, <1>16
  DEF Next, SlotStep, AdmissionStep, StartupStep

-----------------------------------------------------------------------------
(* The queue of an idle conversation *)

\* Nobody offers less where neither the queue nor any host's plans change
LEMMA SamePlans ==
    ASSUME IInv, UNCHANGED <<state, up, admission, startup>>, LeaseFree' => LeaseFree
    PROVE  QueueWatched'
BY DEF IInv, QueueWatched, Queued, Offers

\* and nothing needs to be offered while a Turn holds the conversation
LEMMA HeldConversation ==
    ASSUME TypeOK, NEW h \in Host, NEW t \in Turn, TakeLease(h, t)
    PROVE  QueueWatched'
BY Taken DEF QueueWatched, LeaseFree

LEMMA QueueStep ==
    ASSUME IInv, [Next]_vars
    PROVE  QueueWatched'
<1> USE DEF turns, drives
<1>0. TypeOK /\ QueueWatched
  BY DEF IInv
<1>1. ASSUME NEW h \in Host, NEW t \in Turn, Submit(h, t)
      PROVE  QueueWatched'
  <2>1. CASE LeaseFree
    BY <1>0, <1>1, <2>1, HeldConversation DEF Submit
  <2>2. CASE ~LeaseFree
    BY <1>1, <2>2 DEF Submit, QueueWatched, LeaseFree
  <2> QED
    BY <2>1, <2>2
<1>2. ASSUME NEW h \in Host, NEW t \in Turn, Edit(h, t)
      PROVE  QueueWatched'
  <2> DEFINE a == IF admission[h].at = "commit" /\ admission[h].candidate = t
                  THEN [admission[h] EXCEPT !.current = FALSE] ELSE admission[h]
  <2>1. a = Idle \/ a \in Reads \/ a \in Commits
    BY <1>0, AdmissionShape DEF Commits
  <2>2. admission'[h] = Requested(a)
    BY <1>2 DEF Edit
  <2> HIDE DEF a
  <2>3. Offers(h)'
    BY <2>1, <2>2, RequestedOffers DEF Offers, Reads, Commits
  <2> QED
    BY <2>3 DEF QueueWatched
<1>3. ASSUME NEW h \in Host, NEW t \in Turn,
             \/ Interrupt(h, t) \/ Answer(h, t) \/ WakeParked(h, t) \/ Wait(h, t) \/ HandOff(h, t)
             \/ Ask(h, t) \/ UseAnswer(h, t)
      PROVE  QueueWatched'
  BY <1>3, SamePlans DEF Interrupt, Answer, WakeParked, Wait, HandOff, Ask, UseAnswer, LeaseFree
<1>4. ASSUME NEW h \in Host, NEW t \in Turn, Begin(h, t) \/ RetryDeferred(h, t)
      PROVE  QueueWatched'
  <2>1. /\ UNCHANGED <<state, up, admission, startup>>
        /\ UNCHANGED owner \/ TakeLease(h, t)
    BY <1>4 DEF Begin, RetryDeferred
  <2> QED
    BY <1>0, <2>1, SamePlans, HeldConversation DEF LeaseFree
<1>5. ASSUME NEW h \in Host, NEW t \in Turn, Finish(h, t)
      PROVE  QueueWatched'
  <2>1. Offers(h)'
    BY <1>0, <1>5, Asked DEF Finish, Offers
  <2> QED
    BY <2>1 DEF QueueWatched
<1>6. ASSUME NEW h \in Host, AdmitRead(h)
      PROVE  QueueWatched'
  <2> SUFFICES ASSUME Queued' # {}
               PROVE  Offers(h)'
    BY DEF QueueWatched
  <2>1. PICK t \in Queued : admission' = [admission EXCEPT ![h] =
                [at |-> "commit", more |-> admission[h].more, candidate |-> t, current |-> TRUE]]
    BY <1>6 DEF AdmitRead, Queued
  <2>2. admission'[h] = [at |-> "commit", more |-> admission[h].more, candidate |-> t, current |-> TRUE]
    BY <1>0, <2>1 DEF TypeOK
  <2>3. state'[t] = "queued"
    BY <1>6, <2>1 DEF AdmitRead, Queued
  <2> QED
    BY <2>2, <2>3 DEF Offers
<1>7. ASSUME NEW h \in Host, AdmitCommit(h)
      PROVE  QueueWatched'
  <2> DEFINE t == admission[h].candidate
  <2>1. t \in Turn /\ admission[h].at = "commit" /\ UNCHANGED <<up, startup>>
    BY <1>0, <1>7, AdmissionShape DEF AdmitCommit, AdmitWith, Commits
  <2>2. CASE admission[h].current /\ state[t] = "queued" /\ LeaseFree
    BY <1>0, <1>7, <2>1, <2>2, HeldConversation DEF AdmitCommit, AdmitWith
  <2>3. CASE ~(admission[h].current /\ state[t] = "queued" /\ LeaseFree)
    <3>1. admission' = [admission EXCEPT ![h] = ReadAgain(admission[h])] /\ UNCHANGED <<state, owner>>
      BY <1>7, <2>3 DEF AdmitCommit, AdmitWith
    <3>2. admission'[h] = ReadAgain(admission[h]) /\ \A g \in Host \ {h} : admission'[g] = admission[g]
      BY <1>0, <3>1 DEF TypeOK
    <3> SUFFICES ASSUME Queued # {}, LeaseFree
                 PROVE  \E g \in Host : Offers(g)'
      BY <3>1 DEF QueueWatched, Queued, LeaseFree
    <3>3. PICK g \in Host : Offers(g)
      BY <1>0 DEF QueueWatched
    <3>4. Offers(g)'
      BY <2>1, <2>3, <3>1, <3>2, <3>3 DEF Offers, ReadAgain
    <3> QED
      BY <3>4
  <2> QED
    BY <2>2, <2>3
<1>8. ASSUME NEW h \in Host, Exit(h)
      PROVE  QueueWatched'
  BY <1>8 DEF Exit, QueueWatched, Offers
<1>9. ASSUME NEW h \in Host, Startup(h)
      PROVE  QueueWatched'
  <2> SUFFICES ASSUME LeaseFree'
               PROVE  Offers(h)'
    BY DEF QueueWatched
  <2>1. Active = {}
    BY <1>9 DEF Startup, IInv, ActiveLeased, LeaseFree, Active
  <2>2. startup'[h] = [at |-> "turns", todo |-> {}, blocked |-> FALSE]
    BY <1>0, <1>9, <2>1 DEF Startup, TypeOK
  <2> QED
    BY <2>2 DEF Offers
<1>10. ASSUME NEW h \in Host, JudgeTurn(h) \/ RecoverQueue(h) \/ (ClaimTurn(h) /\ UNCHANGED owner)
       PROVE  QueueWatched'
  <2>1. UNCHANGED <<state, owner, up>> /\ \A g \in Host \ {h} : startup'[g] = startup[g]
    BY <1>0, <1>10 DEF JudgeTurn, RecoverQueue, ClaimTurn, TypeOK
  <2>2. UNCHANGED admission \/ ScheduleAdmission(h)
    BY <1>10 DEF JudgeTurn, RecoverQueue, ClaimTurn
  <2> SUFFICES ASSUME Queued # {}, LeaseFree
               PROVE  \E g \in Host : Offers(g)'
    BY <2>1 DEF QueueWatched, Queued, LeaseFree
  <2>3. PICK g \in Host : Offers(g)
    BY <1>0 DEF QueueWatched
  <2>4. CASE ScheduleAdmission(h)
    BY <1>0, <2>4, Asked DEF Offers
  <2>5. CASE UNCHANGED admission
    <3>1. ~(startup[h].at = "turns" /\ startup[h].todo = {} /\ ~startup[h].blocked)
          \/ ScheduleAdmission(h)
      BY <1>10 DEF JudgeTurn, RecoverQueue, ClaimTurn
    <3>2. CASE ~(startup[h].at = "turns" /\ startup[h].todo = {} /\ ~startup[h].blocked)
      BY <2>1, <2>3, <2>5, <3>2 DEF Offers
    <3> QED
      BY <2>4, <3>1, <3>2
  <2> QED
    BY <2>2, <2>4, <2>5
<1>11. ASSUME NEW h \in Host, ClaimTurn(h)
       PROVE  QueueWatched'
  <2>1. startup[h].turn \in Turn
    BY <1>0, <1>11, StartupShape DEF ClaimTurn, Claims
  <2> QED
    BY <1>0, <1>10, <1>11, <2>1, HeldConversation DEF ClaimTurn
<1>12. ASSUME NEW t \in Turn, Lapse(t) \/ Stall(t)
       PROVE  QueueWatched'
  BY <1>12, SamePlans DEF Lapse, Stall, LeaseFree
<1>13. CASE UNCHANGED vars
  BY <1>13, SamePlans DEF vars, LeaseFree
<1> QED
  BY <1>1, <1>2, <1>3, <1>4, <1>5, <1>6, <1>7, <1>8, <1>9, <1>10, <1>11, <1>12, <1>13
  DEF Next, SlotStep, AdmissionStep, StartupStep

-----------------------------------------------------------------------------
(* Results *)

LEMMA InitIInv == Init => IInv
<1> SUFFICES ASSUME Init PROVE IInv
  OBVIOUS
<1> USE DEF Init
<1>1. TypeOK
  BY DEF TypeOK
<1>2. OwnersRun /\ DownForgets /\ ActiveLeased /\ DriveLeased
  BY DEF OwnersRun, DownForgets, ActiveLeased, DriveLeased
<1>3. LiveOwnerTracks /\ QueueWatched
  BY DEF LiveOwnerTracks, Active, QueueWatched, Queued
<1> QED
  BY <1>1, <1>2, <1>3 DEF IInv

LEMMA StepIInv == IInv /\ [Next]_vars => IInv'
<1>1. IInv => TypeOK /\ DownForgets
  BY DEF IInv
<1> QED
  BY <1>1, TypeStep, LeaseStep, QueueStep DEF IInv, Leases

\* The induction that the results below rest on.
THEOREM Invariance == Spec => []IInv
BY InitIInv, StepIInv, PTL DEF Spec

\* ReliableConversationRunner: however many hosts exit, restart and stall, a running
\* host that owns the lease of an active Turn has a slot for it, or has it parked or
\* deferred: no Turn is owned by a host that forgot it.
THEOREM OwnerRemembers == Spec => []LiveOwnerTracks
<1>1. IInv => LiveOwnerTracks
  BY DEF IInv
<1> QED
  BY <1>1, Invariance, PTL

\* claimExpiredExecutionLease and the checks of the lease fence: at most one slot of
\* all hosts drives a Turn under its current generation, whoever stalls or exits
\* while others claim.
THEOREM OneHostDrives == Spec => []DrivesSound
<1>1. IInv => DrivesSound
  BY DEF IInv, DriveLeased, DrivesSound, OneDriver
<1> QED
  BY <1>1, Invariance, PTL

\* scheduleAdmission, admitNextQueued and recoverStartup: while intents are queued and
\* no Turn holds the conversation, some host is still to start or is going to offer them,
\* whatever edits, exits, failed recoveries and lost admission races there were.
THEOREM QueueNotForgotten == Spec => []QueueWatched
<1>1. IInv => QueueWatched
  BY DEF IInv
<1> QED
  BY <1>1, Invariance, PTL
=============================================================================

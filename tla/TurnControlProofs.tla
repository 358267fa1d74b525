------------------------- MODULE TurnControlProofs -------------------------
(***************************************************************************)
(* Safety of TurnControl for every set of boots, conversations and Turns,  *)
(* and without a bound on generations or on the clock.                     *)
(***************************************************************************)
EXTENDS TurnControl, TLAPS

\* Every transaction keeps the rows and the hosts' memory well typed.
LEMMA TypeStep == TypeOK /\ [Next]_vars => TypeOK'
<1> SUFFICES ASSUME TypeOK, [Next]_vars PROVE TypeOK'
    OBVIOUS
<1> USE DEF TypeOK
<1>1. CASE UNCHANGED vars
    BY <1>1 DEF vars, rows, memory
<1>2. CASE Tick
    BY <1>2 DEF Tick, rows, memory
<1>3. ASSUME NEW b \in Boot, HostExit(b) PROVE TypeOK'
    BY <1>3 DEF HostExit, rows
<1>4. ASSUME NEW t \in Turn, SetHold(t) PROVE TypeOK'
    BY <1>4 DEF SetHold, memory
<1>5. ASSUME NEW t \in Turn, CancelQueued(t) PROVE TypeOK'
    BY <1>5 DEF CancelQueued, memory
<1>6. ASSUME NEW t \in Turn, FinishWork(t) PROVE TypeOK'
    BY <1>6 DEF FinishWork, memory
<1>7. ASSUME NEW t \in Turn, Deliver(t) PROVE TypeOK'
    BY <1>7 DEF Deliver, memory
<1>8. ASSUME NEW t \in Turn, RequestInterrupt(t) PROVE TypeOK'
    BY <1>8 DEF RequestInterrupt, memory
<1>9. ASSUME NEW b \in Boot, NEW t \in Turn, Admit(b, t),
             UNCHANGED <<clock, alive, held, verdict, claimed, interrupt, delivery, work, memory>>
      PROVE  TypeOK'
    BY <1>9, TTLAssumption DEF Admit, memory, Lease
<1>10. ASSUME NEW b \in Boot, NEW t \in Turn, Submit(b, t) PROVE TypeOK'
    BY <1>9, <1>10 DEF Submit, memory
<1>11. ASSUME NEW b \in Boot, NEW t \in Turn, SubmitIdle(b, t) \/ AdmitNext(b, t) PROVE TypeOK'
    BY <1>9, <1>11 DEF SubmitIdle, AdmitNext
<1>12. ASSUME NEW b \in Boot, NEW t \in Turn, CaptureFence(b, t) PROVE TypeOK'
    BY <1>12 DEF CaptureFence, rows, Lease
<1>13. ASSUME NEW b \in Boot, NEW t \in Turn, DropFence(b, t) PROVE TypeOK'
    BY <1>13 DEF DropFence, rows
<1>14. ASSUME NEW b \in Boot, NEW t \in Turn, NEW job \in {"claim", "renew"},
              lease[t] # NoLease, Read(b, t, job)
       PROVE  TypeOK'
    <2>1. [job |-> job, row |-> lease[t], until |-> clock + TTL] \in Flight
        BY <1>14, TTLAssumption DEF Flight
    <2> QED BY <1>14, <2>1 DEF Read, rows
<1>15. ASSUME NEW b \in Boot, NEW t \in Turn, ReadForRenewal(b, t) \/ ReadForClaim(b, t) PROVE TypeOK'
    BY <1>14, <1>15 DEF ReadForRenewal, ReadForClaim, Current
<1>16. ASSUME NEW b \in Boot, NEW t \in Turn, CommitRenewal(b, t) PROVE TypeOK'
    <2>1. flight[b][t] \in Flight /\ lease[t] \in Lease
        BY <1>16 DEF CommitRenewal, RowUnchanged, Flight
    <2>2. [lease[t] EXCEPT !.expires = flight[b][t].until] \in Lease
        BY <2>1 DEF Flight, Lease
    <2>3. lease' = [lease EXCEPT ![t] = [lease[t] EXCEPT !.expires = flight[b][t].until]]
        BY <1>16 DEF CommitRenewal
    <2> QED BY <1>16, <2>2, <2>3 DEF CommitRenewal, Landed
<1>17. ASSUME NEW b \in Boot, NEW t \in Turn, CommitClaim(b, t) PROVE TypeOK'
    <2>1. flight[b][t] \in Flight
        BY <1>17 DEF CommitClaim, ClaimWith
    <2>2. [owner |-> b, gen |-> flight[b][t].row.gen + 1, expires |-> flight[b][t].until] \in Lease
        BY <2>1 DEF Flight, Lease
    <2> QED BY <1>17, <2>2 DEF CommitClaim, ClaimWith, Landed
<1>18. ASSUME NEW b \in Boot, NEW t \in Turn, LoseRace(b, t) PROVE TypeOK'
    BY <1>18 DEF LoseRace, Landed, rows
<1>19. ASSUME NEW b \in Boot, NEW t \in Turn, StartWork(b, t) PROVE TypeOK'
    BY <1>19 DEF StartWork, memory
<1>20. ASSUME NEW b \in Boot, NEW t \in Turn, Absorb(b, t) PROVE TypeOK'
    BY <1>20 DEF Absorb, memory
<1>21. ASSUME NEW b \in Boot, NEW t \in Turn, NEW v \in Verdict, Terminal(b, t, v) PROVE TypeOK'
    BY <1>21 DEF Terminal, memory
<1>22. ASSUME NEW b \in Boot, NEW t \in Turn, NEW i \in Turn, HandoffComplete(b, t, i) PROVE TypeOK'
    BY <1>21, <1>22 DEF HandoffComplete, Verdict
<1> QED
    BY <1>1, <1>2, <1>3, <1>4, <1>5, <1>6, <1>7, <1>8, <1>10, <1>11, <1>12, <1>13,
       <1>15, <1>16, <1>17, <1>18, <1>19, <1>20, <1>21, <1>22 DEF Next

\* The rows and the memory of every reachable state are well typed.
THEOREM TypeSafety == Spec => []TypeOK
<1>1. Init => TypeOK
    BY DEF Init, TypeOK
<1> QED BY <1>1, TypeStep, PTL DEF Spec
----------------------------------------------------------------------------
\* A captured generation was once stored, so it never exceeds the stored one,
\* and where the two are equal the row belongs to the boot that captured it.
FencesBounded ==
    \A b \in Boot, t \in Turn : fence[b][t] # 0 =>
       /\ status[t] # "absent"
       /\ lease[t] # NoLease =>
             /\ fence[b][t] <= lease[t].gen
             /\ fence[b][t] = lease[t].gen => lease[t].owner = b

\* The reason a boot had to replace the row it read does not go away: time
\* does not turn back, and a process that died does not return.
ClaimsJustified ==
    \A b \in Boot, t \in Turn :
       /\ flight[b][t] # NoFlight
       /\ flight[b][t].job = "claim"
       /\ flight[b][t].row.owner # b
       => Expired(flight[b][t].row) \/ flight[b][t].row.owner \notin alive

IInv ==
    /\ TypeOK
    /\ RowsAgree
    /\ OneTurnPerConversation
    /\ FencesBounded
    /\ FencesDistinct
    /\ ClaimsJustified
    /\ InterruptHonoured

LEMMA InitInvariant == Init => IInv
BY DEF Init, IInv, TypeOK, RowsAgree, OneTurnPerConversation, FencesBounded,
       FencesDistinct, ClaimsJustified, InterruptHonoured

LEMMA LeaseIsNotNone == \A r \in Lease : r # NoLease
<1> SUFFICES ASSUME NEW r \in Lease, r = NoLease PROVE FALSE
    OBVIOUS
<1>1. "gen" \in DOMAIN r
    BY DEF Lease
<1>2. DOMAIN NoLease = {"owner"}
    BY DEF NoLease
<1> QED BY <1>1, <1>2

\* Admission is the only way to a first lease; it needs a free conversation.
LEMMA AdmitInvariant ==
    ASSUME IInv, NEW b \in Boot, NEW t \in Turn,
           intent[t] # "admitted", LeaseFree(t), Admit(b, t),
           UNCHANGED <<clock, alive, held, verdict, claimed, interrupt, delivery, work, memory>>
    PROVE  IInv'
<1>1. TypeOK'
    BY TTLAssumption DEF IInv, TypeOK, Admit, memory, Lease
<1>2. status[t] = "absent" /\ lease[t] = NoLease /\ \A b1 \in Boot : fence[b1][t] = 0
    BY DEF IInv, RowsAgree, FencesBounded, TypeOK
<1>3. lease'[t] # NoLease /\ \A s \in Turn : s # t => lease'[s] = lease[s] /\ status'[s] = status[s]
    BY DEF Admit, IInv, TypeOK, NoLease
<1>4. RowsAgree'
    BY <1>2, <1>3 DEF IInv, RowsAgree, Admit, TypeOK
<1>5. OneTurnPerConversation'
    BY <1>2, <1>3 DEF IInv, OneTurnPerConversation, RowsAgree, LeaseFree, Siblings, Admit, TypeOK
<1>6. FencesBounded'
    BY <1>2, <1>3 DEF IInv, FencesBounded, Admit, TypeOK, memory
<1>7. FencesDistinct'
    BY DEF IInv, FencesDistinct, memory
<1>8. ClaimsJustified'
    BY DEF IInv, ClaimsJustified, Expired, memory
<1>9. InterruptHonoured'
    BY <1>2, <1>3 DEF IInv, InterruptHonoured, Admit, TypeOK
<1> QED BY <1>1, <1>4, <1>5, <1>6, <1>7, <1>8, <1>9 DEF IInv

LEMMA RenewalInvariant ==
    ASSUME IInv, TypeOK', NEW b \in Boot, NEW t \in Turn, CommitRenewal(b, t)
    PROVE  IInv'
<1>1. /\ lease[t] \in Lease /\ lease'[t] \in Lease
      /\ lease'[t].gen = lease[t].gen /\ lease'[t].owner = lease[t].owner
      /\ lease[t] # NoLease /\ lease'[t] # NoLease
    <2>1. lease[t] \in Lease /\ flight[b][t].until \in Nat
        BY DEF CommitRenewal, RowUnchanged, IInv, TypeOK, Flight
    <2>2. lease'[t] = [lease[t] EXCEPT !.expires = flight[b][t].until]
        BY DEF CommitRenewal, IInv, TypeOK
    <2>3. /\ [lease[t] EXCEPT !.expires = flight[b][t].until] \in Lease
          /\ [lease[t] EXCEPT !.expires = flight[b][t].until].gen = lease[t].gen
          /\ [lease[t] EXCEPT !.expires = flight[b][t].until].owner = lease[t].owner
        BY <2>1 DEF Lease
    <2> QED BY <2>1, <2>2, <2>3, LeaseIsNotNone
<1>2. \A s \in Turn : s # t => lease'[s] = lease[s]
    BY DEF CommitRenewal, IInv, TypeOK
<1>3. RowsAgree' /\ OneTurnPerConversation' /\ InterruptHonoured'
    BY <1>1, <1>2 DEF CommitRenewal, IInv, RowsAgree, OneTurnPerConversation, InterruptHonoured
<1>4. FencesBounded' /\ FencesDistinct'
    BY <1>1, <1>2 DEF CommitRenewal, IInv, FencesBounded, FencesDistinct
<1>5. ClaimsJustified'
    BY DEF CommitRenewal, Landed, IInv, TypeOK, ClaimsJustified, Expired
<1> QED BY <1>3, <1>4, <1>5 DEF IInv

LEMMA ClaimInvariant ==
    ASSUME IInv, TypeOK', NEW b \in Boot, NEW t \in Turn, CommitClaim(b, t)
    PROVE  IInv'
<1>1. /\ lease[t] \in Lease /\ lease'[t] \in Lease
      /\ lease'[t].gen = lease[t].gen + 1 /\ lease'[t].owner = b
      /\ lease[t] # NoLease /\ lease'[t] # NoLease
    <2>1. lease[t] \in Lease /\ flight[b][t].row = lease[t] /\ flight[b][t].until \in Nat
        BY DEF CommitClaim, ClaimWith, RowUnchanged, IInv, TypeOK, Flight
    <2>2. lease'[t] = [owner |-> b, gen |-> lease[t].gen + 1, expires |-> flight[b][t].until]
        BY <2>1 DEF CommitClaim, ClaimWith, IInv, TypeOK
    <2>3. lease'[t] \in Lease
        BY <2>1, <2>2 DEF Lease
    <2> QED BY <2>1, <2>2, <2>3, LeaseIsNotNone
<1>2. \A s \in Turn : s # t => lease'[s] = lease[s]
    BY DEF CommitClaim, ClaimWith, IInv, TypeOK
<1>3. RowsAgree' /\ OneTurnPerConversation' /\ InterruptHonoured'
    BY <1>1, <1>2 DEF CommitClaim, ClaimWith, IInv, RowsAgree, OneTurnPerConversation, InterruptHonoured
<1>4. \A c \in Boot : fence[c][t] # 0 => fence[c][t] < lease'[t].gen
    BY <1>1 DEF IInv, FencesBounded, TypeOK, Lease
<1>5. FencesBounded' /\ FencesDistinct'
    <2>1. FencesDistinct'
        BY DEF CommitClaim, ClaimWith, IInv, FencesDistinct
    <2>2. fence' = fence /\ status' = status
        BY DEF CommitClaim, ClaimWith
    <2>3. \A c \in Boot : fence[c][t] \in Nat /\ lease'[t].gen \in Nat
        BY <1>1 DEF IInv, TypeOK, Lease
    <2>4. FencesBounded'
        BY <1>2, <1>4, <2>2, <2>3 DEF IInv, FencesBounded
    <2> QED BY <2>1, <2>4
<1>6. ClaimsJustified'
    BY DEF CommitClaim, ClaimWith, Landed, IInv, TypeOK, ClaimsJustified, Expired
<1> QED BY <1>3, <1>5, <1>6 DEF IInv

LEMMA TerminalInvariant ==
    ASSUME IInv, TypeOK', NEW b \in Boot, NEW t \in Turn, NEW v \in Verdict, Terminal(b, t, v)
    PROVE  IInv'
<1>1. /\ status'[t] = "terminated" /\ lease'[t] = NoLease /\ verdict'[t] = v
      /\ ~delivery[t] /\ ~work[t] /\ status[t] = "active"
    BY DEF Terminal, InputsSettled, IInv, TypeOK
<1>2. \A s \in Turn : s # t =>
         /\ status'[s] = status[s] /\ lease'[s] = lease[s]
         /\ verdict'[s] = verdict[s] /\ interrupt'[s] = interrupt[s]
    BY DEF Terminal, IInv, TypeOK
<1>3. interrupt'[t] # "pending" /\ (interrupt'[t] # "none" => v = "interrupted")
    BY <1>1 DEF Terminal, InputsSettled, IInv, TypeOK, InterruptHonoured
<1>4. RowsAgree'
    BY <1>1, <1>2, <1>3 DEF Terminal, IInv, RowsAgree, Verdict
<1>5. OneTurnPerConversation'
    BY <1>1, <1>2 DEF IInv, OneTurnPerConversation
<1>6. FencesBounded' /\ FencesDistinct'
    BY <1>1, <1>2 DEF Terminal, memory, IInv, FencesBounded, FencesDistinct
<1>7. ClaimsJustified'
    BY DEF Terminal, memory, IInv, ClaimsJustified, Expired
<1>8. InterruptHonoured'
    BY <1>1, <1>2, <1>3 DEF IInv, InterruptHonoured
<1> QED BY <1>4, <1>5, <1>6, <1>7, <1>8 DEF IInv
----------------------------------------------------------------------------
\* The actions that leave every lease and every status alone.
LEMMA QuietInvariant ==
    ASSUME IInv, TypeOK', UNCHANGED <<status, lease, verdict, intent>>, UNCHANGED <<fence>>,
           \A t \in Turn : status[t] # "active" =>
              /\ work'[t] = work[t] /\ delivery'[t] = delivery[t]
              /\ interrupt'[t] = interrupt[t],
           \A t \in Turn : interrupt'[t] = interrupt[t] \/ interrupt'[t] = "pending",
           ClaimsJustified'
    PROVE  IInv'
<1>1. RowsAgree'
    BY DEF IInv, RowsAgree
<1>2. OneTurnPerConversation' /\ FencesBounded' /\ FencesDistinct'
    BY DEF IInv, OneTurnPerConversation, FencesBounded, FencesDistinct
<1>3. InterruptHonoured'
    BY DEF IInv, InterruptHonoured, TypeOK
<1> QED BY <1>1, <1>2, <1>3 DEF IInv

LEMMA StepInvariant == IInv /\ [Next]_vars => IInv'
<1> SUFFICES ASSUME IInv, [Next]_vars PROVE IInv'
    OBVIOUS
<1>0. TypeOK'
    BY TypeStep DEF IInv
<1>1. CASE UNCHANGED vars
    BY <1>1 DEF vars, rows, memory, IInv, TypeOK, RowsAgree, OneTurnPerConversation,
           FencesBounded, FencesDistinct, ClaimsJustified, InterruptHonoured, Expired
<1>2. CASE Tick
    <2>1. ClaimsJustified'
        <3> SUFFICES ASSUME NEW b \in Boot, NEW t \in Turn,
                            flight[b][t] # NoFlight, flight[b][t].job = "claim",
                            flight[b][t].row.owner # b
                     PROVE  Expired(flight[b][t].row)' \/ flight[b][t].row.owner \notin alive
            BY <1>2 DEF Tick, rows, memory, ClaimsJustified, Expired
        <3>1. flight[b][t].row.expires \in Nat
            BY DEF IInv, TypeOK, Flight, Lease
        <3> QED BY <1>2, <3>1 DEF IInv, TypeOK, ClaimsJustified, Expired, Tick, memory
    <2> QED BY <1>0, <1>2, <2>1, QuietInvariant DEF Tick, rows, memory
<1>3. ASSUME NEW b \in Boot, HostExit(b) PROVE IInv'
    <2>1. \A c \in Boot, t \in Turn : fence'[c][t] = fence[c][t] \/ fence'[c][t] = 0
        BY <1>3 DEF HostExit, IInv, TypeOK
    <2>2. FencesBounded' /\ FencesDistinct'
        BY <1>3, <2>1 DEF HostExit, rows, IInv, FencesBounded, FencesDistinct
    <2>3. RowsAgree' /\ OneTurnPerConversation' /\ InterruptHonoured'
        BY <1>3 DEF HostExit, rows, IInv, RowsAgree, OneTurnPerConversation, InterruptHonoured
    <2>4. ClaimsJustified'
        BY <1>3 DEF HostExit, IInv, TypeOK, ClaimsJustified, Expired
    <2> QED BY <1>0, <2>2, <2>3, <2>4 DEF IInv
<1>4. ASSUME NEW t \in Turn, SetHold(t) PROVE IInv'
    BY <1>0, <1>4, QuietInvariant DEF SetHold, memory, IInv, ClaimsJustified, Expired
<1>5. ASSUME NEW t \in Turn, CancelQueued(t) PROVE IInv'
    <2>1. RowsAgree'
        BY <1>5 DEF CancelQueued, IInv, TypeOK, RowsAgree
    <2>2. OneTurnPerConversation' /\ InterruptHonoured'
        BY <1>5 DEF CancelQueued, IInv, OneTurnPerConversation, InterruptHonoured
    <2>3. FencesBounded' /\ FencesDistinct' /\ ClaimsJustified'
        BY <1>5 DEF CancelQueued, memory, IInv, FencesBounded, FencesDistinct,
                    ClaimsJustified, Expired
    <2> QED BY <1>0, <2>1, <2>2, <2>3 DEF IInv
<1>6. ASSUME NEW t \in Turn, FinishWork(t) PROVE IInv'
    <2>1. status[t] = "active"
        BY <1>6 DEF FinishWork, IInv, RowsAgree
    <2> QED BY ZenonT(60), <1>0, <1>6, <2>1, QuietInvariant
            DEF FinishWork, memory, IInv, TypeOK, ClaimsJustified, Expired
<1>7. ASSUME NEW t \in Turn, Deliver(t) PROVE IInv'
    BY ZenonT(60), <1>0, <1>7, QuietInvariant DEF Deliver, memory, IInv, TypeOK, ClaimsJustified, Expired
<1>8. ASSUME NEW t \in Turn, RequestInterrupt(t) PROVE IInv'
    BY <1>0, <1>8, QuietInvariant
       DEF RequestInterrupt, memory, IInv, TypeOK, ClaimsJustified, Expired
<1>9. ASSUME NEW b \in Boot, NEW t \in Turn, Submit(b, t) PROVE IInv'
    <2>1. CASE LeaseFree(t)
        BY <1>9, <2>1, AdmitInvariant DEF Submit
    <2>2. CASE ~LeaseFree(t)
        <3>1. RowsAgree'
            BY <1>9, <2>2 DEF Submit, IInv, TypeOK, RowsAgree
        <3>2. OneTurnPerConversation' /\ InterruptHonoured'
            BY <1>9, <2>2 DEF Submit, IInv, OneTurnPerConversation, InterruptHonoured
        <3>3. FencesBounded' /\ FencesDistinct' /\ ClaimsJustified'
            BY <1>9, <2>2 DEF Submit, memory, IInv, FencesBounded, FencesDistinct,
                              ClaimsJustified, Expired
        <3> QED BY <1>0, <3>1, <3>2, <3>3 DEF IInv
    <2> QED BY <2>1, <2>2
<1>10. ASSUME NEW b \in Boot, NEW t \in Turn, SubmitIdle(b, t) PROVE IInv'
    BY <1>10, AdmitInvariant DEF SubmitIdle, LeaseFree
<1>11. ASSUME NEW b \in Boot, NEW t \in Turn, AdmitNext(b, t) PROVE IInv'
    BY <1>11, AdmitInvariant DEF AdmitNext
<1>12. ASSUME NEW b \in Boot, NEW t \in Turn, CaptureFence(b, t) PROVE IInv'
    <2>1. /\ fence'[b][t] = lease[t].gen /\ lease[t].owner = b
          /\ lease[t].gen \in Nat \ {0} /\ status[t] = "active"
        BY <1>12 DEF CaptureFence, IInv, TypeOK, Lease
    <2>2. \A c \in Boot, s \in Turn : <<c, s>> # <<b, t>> => fence'[c][s] = fence[c][s]
        BY <1>12 DEF CaptureFence, IInv, TypeOK
    <2>3. FencesBounded'
        BY <1>12, <2>1, <2>2 DEF CaptureFence, rows, IInv, FencesBounded
    <2>4. FencesDistinct'
        BY <1>12, <2>1, <2>2 DEF CaptureFence, IInv, FencesBounded, FencesDistinct
    <2>5. RowsAgree' /\ OneTurnPerConversation' /\ InterruptHonoured' /\ ClaimsJustified'
        BY <1>12 DEF CaptureFence, rows, IInv, RowsAgree, OneTurnPerConversation,
                     InterruptHonoured, ClaimsJustified, Expired
    <2> QED BY <1>0, <2>3, <2>4, <2>5 DEF IInv
<1>13. ASSUME NEW b \in Boot, NEW t \in Turn, DropFence(b, t) PROVE IInv'
    <2>1. \A c \in Boot, s \in Turn : fence'[c][s] = fence[c][s] \/ fence'[c][s] = 0
        BY <1>13 DEF DropFence, IInv, TypeOK
    <2>2. FencesBounded' /\ FencesDistinct'
        BY <1>13, <2>1 DEF DropFence, rows, IInv, FencesBounded, FencesDistinct
    <2>3. RowsAgree' /\ OneTurnPerConversation' /\ InterruptHonoured' /\ ClaimsJustified'
        BY <1>13 DEF DropFence, rows, IInv, RowsAgree, OneTurnPerConversation,
                     InterruptHonoured, ClaimsJustified, Expired
    <2> QED BY <1>0, <2>2, <2>3 DEF IInv
<1>14. ASSUME NEW b \in Boot, NEW t \in Turn, ReadForRenewal(b, t) PROVE IInv'
    <2>1. ClaimsJustified'
        BY <1>14 DEF ReadForRenewal, Read, rows, IInv, TypeOK, ClaimsJustified, Expired
    <2> QED BY <1>0, <1>14, <2>1, QuietInvariant DEF ReadForRenewal, Read, rows
<1>15. ASSUME NEW b \in Boot, NEW t \in Turn, ReadForClaim(b, t) PROVE IInv'
    <2>2. flight'[b][t].job = "claim" =>
             lease[t].owner = b \/ Expired(lease[t]) \/ lease[t].owner \notin alive
        <3>1. CASE lease[t].owner = b /\ ~Expired(lease[t]) /\ <<b, t>> \in claimed
            BY <3>1
        <3>2. CASE ~(lease[t].owner = b /\ ~Expired(lease[t]) /\ <<b, t>> \in claimed)
            BY <1>15, <3>2 DEF ReadForClaim
        <3> QED BY <3>1, <3>2
    <2>3. flight'[b][t].row = lease[t]
        BY <1>15 DEF ReadForClaim, Read, IInv, TypeOK
    <2>4. \A c \in Boot, s \in Turn : <<c, s>> # <<b, t>> => flight'[c][s] = flight[c][s]
        BY <1>15 DEF ReadForClaim, Read, IInv, TypeOK
    <2>5. UNCHANGED <<clock, alive>>
        BY <1>15 DEF ReadForClaim, Read
    <2>6. ClaimsJustified'
        BY <2>2, <2>3, <2>4, <2>5 DEF IInv, ClaimsJustified, Expired
    <2> QED BY <1>0, <1>15, <2>6, QuietInvariant DEF ReadForClaim, Read, rows
<1>16. ASSUME NEW b \in Boot, NEW t \in Turn, LoseRace(b, t) PROVE IInv'
    <2>1. ClaimsJustified'
        BY <1>16 DEF LoseRace, Landed, rows, IInv, TypeOK, ClaimsJustified, Expired
    <2> QED BY <1>0, <1>16, <2>1, QuietInvariant DEF LoseRace, rows
<1>17. ASSUME NEW b \in Boot, NEW t \in Turn, StartWork(b, t) PROVE IInv'
    <2>1. status[t] = "active"
        BY <1>17 DEF StartWork, Current, IInv, RowsAgree
    <2> QED BY ZenonT(60), <1>0, <1>17, <2>1, QuietInvariant
            DEF StartWork, memory, IInv, TypeOK, ClaimsJustified, Expired
<1>18. ASSUME NEW b \in Boot, NEW t \in Turn, Absorb(b, t) PROVE IInv'
    <2>1. status[t] = "active"
        BY <1>18 DEF Absorb, Current, IInv, RowsAgree
    <2> QED BY ZenonT(60), <1>0, <1>18, <2>1, QuietInvariant
            DEF Absorb, memory, IInv, TypeOK, ClaimsJustified, Expired
<1>19. ASSUME NEW b \in Boot, NEW t \in Turn, NEW i \in Turn, HandoffComplete(b, t, i) PROVE IInv'
    BY <1>0, <1>19, TerminalInvariant DEF HandoffComplete, Verdict
<1> QED
    BY <1>0, <1>1, <1>2, <1>3, <1>4, <1>5, <1>6, <1>7, <1>8, <1>9, <1>10, <1>11, <1>12,
       <1>13, <1>14, <1>15, <1>16, <1>17, <1>18, <1>19, RenewalInvariant, ClaimInvariant,
       TerminalInvariant DEF Next

\* IInv is inductive, so it holds of every reachable state.
THEOREM Invariance == Spec => []IInv
BY InitInvariant, StepInvariant, PTL DEF Spec

\* A conversation never runs two Turns.
THEOREM OneTurn == Spec => []OneTurnPerConversation
<1>1. IInv => OneTurnPerConversation
    BY DEF IInv
<1> QED BY <1>1, Invariance, PTL

\* The rows of a Turn always agree with each other.
THEOREM RowsConsistent == Spec => []RowsAgree
<1>1. IInv => RowsAgree
    BY DEF IInv
<1> QED BY <1>1, Invariance, PTL

\* Two executors never carry the same generation of one Turn.
THEOREM OneExecutor == Spec => []FencesDistinct
<1>1. IInv => FencesDistinct
    BY DEF IInv
<1> QED BY <1>1, Invariance, PTL

\* A recorded interrupt is never overtaken by another end of the Turn.
THEOREM InterruptWins == Spec => []InterruptHonoured
<1>1. IInv => InterruptHonoured
    BY DEF IInv
<1> QED BY <1>1, Invariance, PTL
----------------------------------------------------------------------------
\* All that a step may do to the lease of a Turn.
Appears(t) == lease[t] = NoLease /\ status[t] = "absent"
Renewed(t) ==
    /\ lease[t] # NoLease /\ lease'[t] # NoLease
    /\ lease'[t].owner = lease[t].owner /\ lease'[t].gen = lease[t].gen
TakenOver(t) ==
    /\ lease[t] # NoLease /\ lease'[t] # NoLease
    /\ lease'[t].gen = lease[t].gen + 1
    /\ lease'[t].owner # lease[t].owner =>
          Expired(lease[t]) \/ lease[t].owner \notin alive

LEMMA LeaseSteps ==
    ASSUME IInv, [Next]_vars, NEW t \in Turn
    PROVE  \/ lease'[t] = lease[t] \/ Appears(t) \/ Renewed(t) \/ TakenOver(t)
           \/ lease'[t] = NoLease
<1> DEFINE Goal == \/ lease'[t] = lease[t] \/ Appears(t) \/ Renewed(t) \/ TakenOver(t)
                   \/ lease'[t] = NoLease
<1>1. CASE lease' = lease
    BY <1>1
<1>2. ASSUME NEW b \in Boot, NEW s \in Turn, intent[s] # "admitted", Admit(b, s) PROVE Goal
    <2>1. status[s] = "absent" /\ lease[s] = NoLease
        BY <1>2 DEF IInv, RowsAgree
    <2> QED BY <1>2, <2>1 DEF Admit, Appears, IInv, TypeOK
<1>3. ASSUME NEW b \in Boot, NEW s \in Turn,
             Submit(b, s) \/ SubmitIdle(b, s) \/ AdmitNext(b, s)
      PROVE  Goal
    BY <1>1, <1>2, <1>3 DEF Submit, SubmitIdle, AdmitNext
<1>4. ASSUME NEW b \in Boot, NEW s \in Turn, CommitRenewal(b, s) PROVE Goal
    <2>1. lease[s] \in Lease /\ flight[b][s].until \in Nat
        BY <1>4 DEF CommitRenewal, RowUnchanged, IInv, TypeOK, Flight
    <2>2. lease'[s] = [lease[s] EXCEPT !.expires = flight[b][s].until]
        BY <1>4 DEF CommitRenewal, IInv, TypeOK
    <2>3. /\ [lease[s] EXCEPT !.expires = flight[b][s].until] \in Lease
          /\ [lease[s] EXCEPT !.expires = flight[b][s].until].gen = lease[s].gen
          /\ [lease[s] EXCEPT !.expires = flight[b][s].until].owner = lease[s].owner
        BY <2>1 DEF Lease
    <2>4. Renewed(s)
        BY <2>1, <2>2, <2>3, LeaseIsNotNone DEF Renewed
    <2>5. s # t => lease'[t] = lease[t]
        BY <1>4 DEF CommitRenewal, IInv, TypeOK
    <2> QED BY <2>4, <2>5
<1>5. ASSUME NEW b \in Boot, NEW s \in Turn, CommitClaim(b, s) PROVE Goal
    <2>1. /\ flight[b][s] # NoFlight /\ flight[b][s].job = "claim"
          /\ flight[b][s].row = lease[s] /\ lease[s] \in Lease /\ flight[b][s].until \in Nat
        BY <1>5 DEF CommitClaim, ClaimWith, RowUnchanged, IInv, TypeOK, Flight
    <2>2. lease'[s] = [owner |-> b, gen |-> lease[s].gen + 1, expires |-> flight[b][s].until]
        BY <1>5, <2>1 DEF CommitClaim, ClaimWith, IInv, TypeOK
    <2>3. lease'[s] \in Lease
        BY <2>1, <2>2 DEF Lease
    <2>4. b # lease[s].owner => Expired(lease[s]) \/ lease[s].owner \notin alive
        BY <2>1 DEF IInv, ClaimsJustified
    <2>5. TakenOver(s)
        BY <2>1, <2>2, <2>3, <2>4, LeaseIsNotNone DEF TakenOver
    <2>6. s # t => lease'[t] = lease[t]
        BY <1>5 DEF CommitClaim, ClaimWith, IInv, TypeOK
    <2> QED BY <2>5, <2>6
<1>6. ASSUME NEW b \in Boot, NEW s \in Turn, NEW v \in Verdict, Terminal(b, s, v) PROVE Goal
    BY <1>6 DEF Terminal, IInv, TypeOK
<1>7. ASSUME NEW b \in Boot, NEW s \in Turn, NEW i \in Turn, HandoffComplete(b, s, i) PROVE Goal
    BY <1>6, <1>7 DEF HandoffComplete, Verdict
<1>8. ASSUME NEW s \in Turn, SetHold(s) \/ CancelQueued(s) \/ FinishWork(s) \/ Deliver(s)
                              \/ RequestInterrupt(s)
      PROVE  lease' = lease
    BY <1>8 DEF SetHold, CancelQueued, FinishWork, Deliver, RequestInterrupt
<1>9. ASSUME NEW b \in Boot, NEW s \in Turn,
             \/ CaptureFence(b, s) \/ DropFence(b, s) \/ ReadForRenewal(b, s)
             \/ ReadForClaim(b, s) \/ LoseRace(b, s) \/ StartWork(b, s) \/ Absorb(b, s)
      PROVE  lease' = lease
    BY <1>9 DEF CaptureFence, DropFence, ReadForRenewal, ReadForClaim, Read, LoseRace,
                StartWork, Absorb, rows
<1>10. Tick \/ (\E b \in Boot : HostExit(b)) \/ UNCHANGED vars => lease' = lease
    BY DEF Tick, HostExit, vars, rows
<1> QED
    BY <1>1, <1>3, <1>4, <1>5, <1>6, <1>7, <1>8, <1>9, <1>10 DEF Next

\* A lost authority stays lost for as long as the executor carries its fence.
THEOREM StaleExecutors == Spec => StaleStaysStale
<1> DEFINE Stays == \A b \in Boot, t \in Turn :
         fence'[b][t] = fence[b][t] /\ ~Current(b, t) /\ fence[b][t] # 0
            => ~Current(b, t)'
<1>1. ASSUME IInv, [Next]_vars PROVE [Stays]_vars
    <2> SUFFICES ASSUME NEW b \in Boot, NEW t \in Turn,
                        fence'[b][t] = fence[b][t], ~Current(b, t), fence[b][t] # 0,
                        lease'[t] # NoLease, lease'[t].owner = b,
                        fence[b][t] = lease'[t].gen
                 PROVE  FALSE
        BY DEF Current
    <2>1. status[t] # "absent" /\ fence[b][t] \in Nat
        BY <1>1 DEF IInv, FencesBounded, TypeOK
    <2>2. lease[t] # NoLease => lease[t].gen \in Nat /\ fence[b][t] <= lease[t].gen
        BY <1>1 DEF IInv, FencesBounded, TypeOK, Lease
    <2>3. CASE lease'[t] = lease[t]
        BY <2>3 DEF Current
    <2>4. CASE Appears(t)
        BY <2>1, <2>4 DEF Appears
    <2>5. CASE Renewed(t)
        BY <2>5 DEF Renewed, Current
    <2>6. CASE TakenOver(t)
        BY <2>1, <2>2, <2>6 DEF TakenOver
    <2> QED BY <1>1, <2>3, <2>4, <2>5, <2>6, LeaseSteps
<1> QED BY <1>1, Invariance, PTL DEF Spec, StaleStaysStale

\* A Turn changes hands only after its lease ran out or its owner died.
THEOREM OwnersKept == Spec => OwnerKept
<1> DEFINE Kept == \A t \in Turn :
         /\ lease[t] # NoLease /\ lease'[t] # NoLease
         /\ lease'[t].owner # lease[t].owner
         => Expired(lease[t]) \/ lease[t].owner \notin alive
<1>1. ASSUME IInv, [Next]_vars PROVE [Kept]_vars
    <2> SUFFICES ASSUME NEW t \in Turn, lease[t] # NoLease, lease'[t] # NoLease,
                        lease'[t].owner # lease[t].owner
                 PROVE  Expired(lease[t]) \/ lease[t].owner \notin alive
        OBVIOUS
    <2> QED BY <1>1, LeaseSteps DEF Appears, Renewed, TakenOver
<1> QED BY <1>1, Invariance, PTL DEF Spec, OwnerKept
\* Nothing durable of a terminated Turn ever changes again.
LEMMA FinalStep ==
    ASSUME IInv, [Next]_vars, NEW t \in Turn, status[t] = "terminated"
    PROVE  /\ status'[t] = "terminated"
           /\ verdict'[t] = verdict[t] /\ lease'[t] = NoLease
           /\ interrupt'[t] = interrupt[t] /\ delivery'[t] = delivery[t]
           /\ work'[t] = work[t]
<1> DEFINE Kept == /\ status'[t] = status[t] /\ verdict'[t] = verdict[t]
                   /\ lease'[t] = lease[t] /\ interrupt'[t] = interrupt[t]
                   /\ delivery'[t] = delivery[t] /\ work'[t] = work[t]
<1> SUFFICES Kept
    BY DEF IInv, RowsAgree
<1>0. lease[t] = NoLease /\ intent[t] = "admitted" /\ ~work[t]
    BY DEF IInv, RowsAgree
<1>1. ASSUME NEW s \in Turn, SetHold(s) \/ CancelQueued(s) \/ FinishWork(s) \/ Deliver(s)
                              \/ RequestInterrupt(s)
      PROVE  Kept
    BY <1>0, <1>1 DEF SetHold, CancelQueued, FinishWork, Deliver, RequestInterrupt, IInv, TypeOK
<1>2. ASSUME NEW b \in Boot, NEW s \in Turn,
             Submit(b, s) \/ SubmitIdle(b, s) \/ AdmitNext(b, s)
      PROVE  Kept
    BY <1>0, <1>2 DEF Submit, SubmitIdle, AdmitNext, Admit, IInv, TypeOK
<1>3. ASSUME NEW b \in Boot, NEW s \in Turn,
             \/ CaptureFence(b, s) \/ DropFence(b, s) \/ ReadForRenewal(b, s)
             \/ ReadForClaim(b, s) \/ LoseRace(b, s)
      PROVE  Kept
    BY <1>3 DEF CaptureFence, DropFence, ReadForRenewal, ReadForClaim, Read, LoseRace, rows
<1>4. ASSUME NEW b \in Boot, NEW s \in Turn, CommitRenewal(b, s) \/ CommitClaim(b, s)
      PROVE  Kept
    <2>1. s # t
        BY <1>4 DEF CommitRenewal, CommitClaim, ClaimWith, RowUnchanged
    <2> QED BY <1>4, <2>1 DEF CommitRenewal, CommitClaim, ClaimWith, IInv, TypeOK
<1>5. ASSUME NEW b \in Boot, NEW s \in Turn, StartWork(b, s) \/ Absorb(b, s) PROVE Kept
    <2>1. s # t
        BY <1>0, <1>5 DEF StartWork, Absorb, Current
    <2> QED BY <1>5, <2>1 DEF StartWork, Absorb, IInv, TypeOK
<1>6. ASSUME NEW b \in Boot, NEW s \in Turn, NEW v \in Verdict, Terminal(b, s, v) PROVE Kept
    BY <1>0, <1>6 DEF Terminal, IInv, TypeOK
<1>7. ASSUME NEW b \in Boot, NEW s \in Turn, NEW i \in Turn, HandoffComplete(b, s, i) PROVE Kept
    BY <1>6, <1>7 DEF HandoffComplete, Verdict
<1>8. Tick \/ (\E b \in Boot : HostExit(b)) \/ UNCHANGED vars => Kept
    BY DEF Tick, HostExit, vars, rows
<1> QED BY <1>1, <1>2, <1>3, <1>4, <1>5, <1>6, <1>7, <1>8 DEF Next

\* A terminated Turn is final, whichever late command arrives.
THEOREM TerminatedFinal == Spec => TerminatedIsFinal
<1> DEFINE Final == \A t \in Turn : status[t] = "terminated" =>
         /\ status'[t] = "terminated"
         /\ verdict'[t] = verdict[t] /\ lease'[t] = NoLease
         /\ interrupt'[t] = interrupt[t] /\ delivery'[t] = delivery[t]
         /\ work'[t] = work[t]
<1>1. IInv /\ [Next]_vars => [Final]_vars
    BY FinalStep
<1> QED BY <1>1, Invariance, PTL DEF Spec, TerminatedIsFinal

-----------------------------------------------------------------------------
(***************************************************************************)
(* TurnControl implements ConversationTurns: under the mapping at the end  *)
(* of TurnControl every transaction is a step of the promise or a stutter. *)
(***************************************************************************)
\* The mapped variables, by name.
Phase    == [t \in Turn |-> PhaseOf(t)]
Executor == [t \in Turn |-> lease[t].owner]
Tenure   == [t \in Turn |-> IF lease[t] = NoLease THEN 0 ELSE lease[t].gen]
Stop     == [t \in Turn |-> interrupt[t] # "none"]
Mapped   == <<Phase, Executor, Tenure, Stop, verdict>>

LEMMA MappedInit == Init => Promised!Init
<1> SUFFICES ASSUME Init PROVE Promised!Init
    OBVIOUS
<1>1. Phase = [t \in Turn |-> "new"]
    BY DEF Init, Phase, PhaseOf
<1>2. Executor = [t \in Turn |-> "none"]
    BY DEF Init, Executor, NoLease
<1>3. Tenure = [t \in Turn |-> 0]
    BY DEF Init, Tenure
<1>4. Stop = [t \in Turn |-> FALSE]
    <2>1. \A t \in Turn : (interrupt[t] # "none") = FALSE
        BY DEF Init
    <2> QED BY <2>1 DEF Stop
<1>5. verdict = [t \in Turn |-> "none"]
    BY DEF Init
<1> QED BY <1>1, <1>2, <1>3, <1>4, <1>5 DEF Promised!Init, Phase, Executor, Tenure, Stop

\* A step that keeps these rows is invisible.
LEMMA Invisible ==
    ASSUME UNCHANGED <<intent, status, lease, verdict, interrupt>>
    PROVE  UNCHANGED Promised!promise
BY DEF Promised!promise, PhaseOf

\* Writing a lease row changes the mapped executor and tenure of its Turn only.
LEMMA Taken ==
    ASSUME NEW t \in Turn, NEW row, lease \in [Turn -> Lease \cup {NoLease}],
           lease' = [lease EXCEPT ![t] = row], row # NoLease
    PROVE  /\ Executor' = [Executor EXCEPT ![t] = row.owner]
           /\ Tenure' = [Tenure EXCEPT ![t] = row.gen]
<1>1. /\ lease'[t] = row
      /\ \A s \in Turn : s # t => lease'[s] = lease[s]
    OBVIOUS
<1>2. \A s \in Turn : Executor'[s] = IF s = t THEN row.owner ELSE Executor[s]
    BY <1>1 DEF Executor
<1>3. \A s \in Turn : Tenure'[s] = IF s = t THEN row.gen ELSE Tenure[s]
    BY <1>1 DEF Tenure
<1>4. Executor' = [Executor EXCEPT ![t] = row.owner]
    BY <1>2 DEF Executor
<1>5. Tenure' = [Tenure EXCEPT ![t] = row.gen]
    BY <1>3 DEF Tenure
<1> QED BY <1>4, <1>5

LEMMA MappedAdmit ==
    ASSUME IInv, NEW b \in Boot, NEW t \in Turn,
           intent[t] \in {"absent", "queued"}, LeaseFree(t), Admit(b, t),
           UNCHANGED <<verdict, interrupt>>
    PROVE  Promised!Start(b, t)
<1>1. status[t] = "absent" /\ lease[t] = NoLease
    BY DEF IInv, RowsAgree
<1>2. Phase[t] \in {"new", "waiting"} /\ Promised!Idle(t)
    <2>1. Phase[t] \in {"new", "waiting"}
        BY DEF Phase, PhaseOf
    <2>2. ASSUME NEW s \in Turn, ConvOf[s] = ConvOf[t] PROVE Phase[s] # "running"
        <3>1. status[s] # "active"
            BY <2>2 DEF LeaseFree, Siblings, IInv, RowsAgree
        <3> QED BY <3>1 DEF Phase, PhaseOf
    <2> QED BY <2>1, <2>2 DEF Promised!Idle, Phase
<1>3. Phase' = [Phase EXCEPT ![t] = "running"]
    BY DEF Phase, PhaseOf, Admit, IInv, TypeOK
<1>4. /\ lease' = [lease EXCEPT ![t] = [owner |-> b, gen |-> 1, expires |-> clock + TTL]]
      /\ lease \in [Turn -> Lease \cup {NoLease}]
    BY DEF Admit, IInv, TypeOK
<1>5. [owner |-> b, gen |-> 1, expires |-> clock + TTL] # NoLease
    <2>1. [owner |-> b, gen |-> 1, expires |-> clock + TTL] \in Lease
        BY TTLAssumption DEF Lease, IInv, TypeOK
    <2> QED BY <2>1, LeaseIsNotNone
<1>6. Executor' = [Executor EXCEPT ![t] = b]
    BY <1>4 DEF Executor
<1>7. Tenure' = [Tenure EXCEPT ![t] = Tenure[t] + 1]
    <2>1. Tenure[t] = 0
        BY <1>1 DEF Tenure
    <2> DEFINE row == [owner |-> b, gen |-> 1, expires |-> clock + TTL]
    <2>2. /\ lease' = [lease EXCEPT ![t] = row]
          /\ row # NoLease /\ row.gen = 1
        BY <1>4, <1>5
    <2> HIDE DEF row
    <2>3. Tenure' = [Tenure EXCEPT ![t] = row.gen]
        BY <1>4, <2>2, Taken
    <2> QED BY <2>1, <2>2, <2>3
<1> QED
    BY <1>2, <1>3, <1>6, <1>7 DEF Promised!Start, Promised!TakeUp, Phase, Executor, Tenure, Stop

LEMMA MappedClaim ==
    ASSUME IInv, NEW b \in Boot, NEW t \in Turn, CommitClaim(b, t)
    PROVE  Promised!TakeOver(b, t)
<1>1. /\ flight[b][t].row = lease[t] /\ lease[t] \in Lease /\ flight[b][t].until \in Nat
      /\ status[t] = "active"
    BY DEF CommitClaim, ClaimWith, RowUnchanged, IInv, TypeOK, Flight
<1>2. /\ lease' = [lease EXCEPT ![t] = [owner |-> b, gen |-> lease[t].gen + 1,
                                          expires |-> flight[b][t].until]]
      /\ lease \in [Turn -> Lease \cup {NoLease}]
    BY <1>1 DEF CommitClaim, ClaimWith, IInv, TypeOK
<1>3. /\ lease[t] # NoLease
      /\ [owner |-> b, gen |-> lease[t].gen + 1, expires |-> flight[b][t].until] # NoLease
    <2>1. [owner |-> b, gen |-> lease[t].gen + 1, expires |-> flight[b][t].until] \in Lease
        BY <1>1 DEF Lease
    <2> QED BY <1>1, <2>1, LeaseIsNotNone
<1>4. Phase[t] = "running"
    BY <1>1 DEF Phase, PhaseOf, IInv, RowsAgree
<1>5. UNCHANGED <<Phase, Stop, verdict>>
    BY DEF CommitClaim, ClaimWith, Phase, PhaseOf, Stop
<1>6. Executor' = [Executor EXCEPT ![t] = b]
    BY <1>2, Taken DEF Executor
<1>7. Tenure' = [Tenure EXCEPT ![t] = Tenure[t] + 1]
    BY <1>2, <1>3, Taken DEF Tenure
<1> QED
    BY <1>4, <1>5, <1>6, <1>7
       DEF Promised!TakeOver, Promised!TakeUp, Phase, Executor, Tenure, Stop

LEMMA MappedRenewal ==
    ASSUME IInv, NEW b \in Boot, NEW t \in Turn, CommitRenewal(b, t)
    PROVE  UNCHANGED Promised!promise
<1>1. lease[t] \in Lease /\ flight[b][t].until \in Nat
    BY DEF CommitRenewal, RowUnchanged, IInv, TypeOK, Flight
<1>2. /\ lease'[t] = [lease[t] EXCEPT !.expires = flight[b][t].until]
      /\ \A s \in Turn : s # t => lease'[s] = lease[s]
    BY DEF CommitRenewal, IInv, TypeOK
<1>3. /\ [lease[t] EXCEPT !.expires = flight[b][t].until] \in Lease
      /\ [lease[t] EXCEPT !.expires = flight[b][t].until].gen = lease[t].gen
      /\ [lease[t] EXCEPT !.expires = flight[b][t].until].owner = lease[t].owner
    BY <1>1 DEF Lease
<1>4. UNCHANGED <<Executor, Tenure>>
    BY <1>1, <1>2, <1>3, LeaseIsNotNone DEF Executor, Tenure
<1>5. UNCHANGED <<Phase, Stop, verdict>>
    BY DEF CommitRenewal, Phase, PhaseOf, Stop
<1> QED BY <1>4, <1>5 DEF Promised!promise, Phase, Executor, Tenure, Stop

LEMMA MappedTerminal ==
    ASSUME IInv, NEW b \in Boot, NEW t \in Turn, NEW v \in Verdict, Terminal(b, t, v)
    PROVE  Promised!End(t, v)
<1>1. status[t] = "active" /\ intent[t] = "admitted"
    BY DEF Terminal, IInv, RowsAgree
<1>2. Phase[t] = "running" /\ Phase' = [Phase EXCEPT ![t] = "over"]
    BY <1>1 DEF Phase, PhaseOf, Terminal, IInv, TypeOK
<1>3. Stop[t] <=> v = "interrupted"
    BY <1>1 DEF Stop, Terminal, InputsSettled, IInv, InterruptHonoured
<1>4. Stop' = Stop
    BY <1>3 DEF Stop, Terminal, IInv, TypeOK
<1>5. lease' = [lease EXCEPT ![t] = NoLease] /\ lease \in [Turn -> Lease \cup {NoLease}]
    BY DEF Terminal, IInv, TypeOK
<1>6. Executor' = [Executor EXCEPT ![t] = "none"]
    BY <1>5 DEF Executor, NoLease
<1>7. Tenure' = [Tenure EXCEPT ![t] = 0]
    BY <1>5 DEF Tenure
<1>8. verdict' = [verdict EXCEPT ![t] = v]
    BY DEF Terminal
<1> QED
    BY <1>2, <1>3, <1>4, <1>6, <1>7, <1>8 DEF Promised!End, Phase, Executor, Tenure, Stop

LEMMA MappedStep == IInv /\ [Next]_vars => [Promised!Next]_(Promised!promise)
<1> SUFFICES ASSUME IInv, [Next]_vars PROVE Promised!Next \/ UNCHANGED Promised!promise
    OBVIOUS
<1>1. ASSUME NEW b \in Boot, NEW t \in Turn, Submit(b, t)
      PROVE  Promised!Next
    <2>1. CASE LeaseFree(t)
        BY <1>1, <2>1, MappedAdmit DEF Submit, Promised!Next
    <2>2. CASE ~LeaseFree(t)
        <3>1. Phase[t] = "new" /\ Phase' = [Phase EXCEPT ![t] = "waiting"]
            <4>1. intent[t] = "absent" /\ intent' = [intent EXCEPT ![t] = "queued"] /\ status' = status
                BY <1>1, <2>2 DEF Submit
            <4> QED BY <4>1 DEF Phase, PhaseOf, IInv, TypeOK
        <3>2. UNCHANGED <<Executor, Tenure, Stop, verdict>>
            BY <1>1, <2>2 DEF Submit, Executor, Tenure, Stop
        <3>3. Promised!Queue(t)
            BY <3>1, <3>2 DEF Promised!Queue, Phase, Executor, Tenure, Stop
        <3> QED BY <3>3 DEF Promised!Next
    <2> QED BY <2>1, <2>2
<1>2. ASSUME NEW b \in Boot, NEW t \in Turn, SubmitIdle(b, t) \/ AdmitNext(b, t)
      PROVE  Promised!Next
    BY <1>2, MappedAdmit DEF SubmitIdle, AdmitNext, LeaseFree, Promised!Next
<1>3. ASSUME NEW t \in Turn, CancelQueued(t) PROVE Promised!Next
    <2>1. Phase[t] = "waiting" /\ Phase' = [Phase EXCEPT ![t] = "withdrawn"]
        BY <1>3 DEF CancelQueued, Phase, PhaseOf, IInv, TypeOK
    <2>2. UNCHANGED <<Executor, Tenure, Stop, verdict>>
        BY <1>3 DEF CancelQueued, Executor, Tenure, Stop
    <2>3. Promised!Withdraw(t)
        BY <2>1, <2>2 DEF Promised!Withdraw, Phase, Executor, Tenure, Stop
    <2> QED BY <2>3 DEF Promised!Next
<1>4. ASSUME NEW t \in Turn, RequestInterrupt(t) PROVE Promised!Next
    <2>1. Phase[t] = "running" /\ UNCHANGED Phase
        BY <1>4 DEF RequestInterrupt, Phase, PhaseOf, IInv, RowsAgree
    <2>2. Stop' = [Stop EXCEPT ![t] = TRUE]
        BY <1>4 DEF RequestInterrupt, Stop, IInv, TypeOK
    <2>3. UNCHANGED <<Executor, Tenure, verdict>>
        BY <1>4 DEF RequestInterrupt, Executor, Tenure
    <2>4. Promised!AskToStop(t)
        BY <2>1, <2>2, <2>3 DEF Promised!AskToStop, Phase, Executor, Tenure, Stop
    <2> QED BY <2>4 DEF Promised!Next
<1>5. ASSUME NEW b \in Boot, NEW t \in Turn, CommitRenewal(b, t)
      PROVE  UNCHANGED Promised!promise
    BY <1>5, MappedRenewal
<1>6. ASSUME NEW b \in Boot, NEW t \in Turn, CommitClaim(b, t) PROVE Promised!Next
    BY <1>6, MappedClaim DEF Promised!Next
<1>7. ASSUME NEW b \in Boot, NEW t \in Turn, NEW v \in Verdict, Terminal(b, t, v)
      PROVE  Promised!Next
    BY <1>7, MappedTerminal DEF Promised!Next, Verdict
<1>8. ASSUME NEW b \in Boot, NEW t \in Turn, NEW i \in Turn, HandoffComplete(b, t, i)
      PROVE  Promised!Next
    BY <1>7, <1>8 DEF HandoffComplete, Verdict
<1>9. ASSUME NEW t \in Turn, SetHold(t) \/ FinishWork(t) \/ Deliver(t)
      PROVE  UNCHANGED Promised!promise
    BY <1>9, Invisible DEF SetHold, FinishWork, Deliver
<1>10. ASSUME NEW b \in Boot, NEW t \in Turn,
              \/ CaptureFence(b, t) \/ DropFence(b, t) \/ ReadForRenewal(b, t)
              \/ ReadForClaim(b, t) \/ LoseRace(b, t) \/ StartWork(b, t) \/ Absorb(b, t)
       PROVE  UNCHANGED Promised!promise
    BY <1>10, Invisible DEF CaptureFence, DropFence, ReadForRenewal, ReadForClaim, Read,
                            LoseRace, StartWork, Absorb, rows
<1>11. Tick \/ (\E b \in Boot : HostExit(b)) \/ UNCHANGED vars => UNCHANGED Promised!promise
    BY Invisible DEF Tick, HostExit, vars, rows
<1> QED
    BY <1>1, <1>2, <1>3, <1>4, <1>5, <1>6, <1>7, <1>8, <1>9, <1>10, <1>11 DEF Next

\* Whatever hosts do, crash or race for, the conversation sees only what
\* ConversationTurns allows.
THEOREM Refinement == Spec => KeepsPromise
<1>1. Init => Promised!Init
    BY MappedInit
<1>2. IInv /\ [Next]_vars => [Promised!Next]_(Promised!promise)
    BY MappedStep
<1> QED BY <1>1, <1>2, Invariance, PTL DEF Spec, KeepsPromise, Promised!Spec
============================================================================

------------------------- MODULE EffectControlProofs -------------------------
(* What EffectControl promises for any number of hosts and of calls.  That a   *)
(* call goes out once rests on who may hold it: the drive that claimed the     *)
(* intent, and no other, stands behind the claim (Stands), so that a second    *)
(* drive, a scan or a later host finds an intent that is not pending.  That    *)
(* the reports are true rests on what that drive holds (Holds), and on the     *)
(* rows of a call, which one transaction leaves together (Rows).               *)
EXTENDS EffectControl, TLAPS

\* Where the drive that claimed an effect stands with it
Working == {"execute", "call", "calling", "observed", "reconcile"}

\* Where a drive may stand with a call
Stands(h, c, where) ==
    /\ where \in Working => claimant[c] = h
    /\ where \in {"execute", "call"} => invoked[c] = 0
    /\ where = "calling" => world[c] # "untouched"
    /\ where \in Working \cup {"claim"} => c \in Effects
    /\ where \in {"run", "settle"} => c \notin Effects

\* No drive has claimed the intent
Unclaimed(c) == intent[c] \in {"none", "pending", "cancelled"}

\* A claim is made once, by the drive that goes out
Claims ==
    \A c \in Call :
        /\ claimant[c] = 0 <=> Unclaimed(c)
        /\ claimant[c] = 0 => invoked[c] = 0
        /\ invoked[c] <= 1
        /\ invoked[c] = 0 => world[c] = "untouched"
        /\ \A h \in Host :
            /\ Stands(h, c, pc[h][c])
            /\ c \in suspects[h] \cup condemned[h] => claimant[c] # 0

\* The rows of one call
Rows ==
    \A c \in Call :
        /\ operation[c] = "none" => intent[c] = "none"
        /\ intent[c] = "pending" <=> operation[c] = "pending"
        /\ intent[c] = "dispatched" => operation[c] = "executing"
        /\ operation[c] = "executing" => intent[c] \in {"dispatched", "receipt_written"}
        /\ intent[c] = "cancelled" => operation[c] = "cancelled"
        /\ intent[c] = "receipt_written" <=> receipt[c] # "none"
        /\ receipt[c] # "none" /\ Settled(c) => operation[c] = receipt[c]
        /\ c \in Effects /\ Settled(c) /\ operation[c] # receipt[c] =>
               operation[c] = "cancelled" /\ claimant[c] = 0
        /\ outcome[c] # "none" => Settled(c) /\ outcome[c] = operation[c]

\* A status that may be told of an effect
Tells(status, c) ==
    /\ status = "succeeded" => world[c] = "succeeded"
    /\ status = "failed" => world[c] # "succeeded"
    /\ status = "cancelled" => invoked[c] = 0

\* What a drive may hold of a call
Holds(h, c) ==
    /\ pc[h][c] = "observed" => seen[h][c] # "none" /\ Tells(Recordable(h, c), c)
    /\ pc[h][c] = "reconcile" => receipt[c] # "none"
    /\ pc[h][c] \in {"execute", "call", "calling", "observed"} =>
           receipt[c] \in {"none", "outcome_unknown"}

\* What is reported of an effect is true of what the service did
Reports == \A c \in Call : Tells(receipt[c], c) /\ \A h \in Host : Holds(h, c)

\* The inductive invariant
IInv == TypeOK /\ Claims /\ Rows /\ Reports

\* A step of one drive with one call leaves every other place alone.
LEMMA GotoMoves ==
    ASSUME TypeOK, NEW h \in Host, NEW c \in Call, NEW where \in Place, Goto(h, c, where)
    PROVE  /\ pc' \in [Host -> [Call -> Place]]
           /\ \A g \in Host, d \in Call :
                  pc'[g][d] = IF g = h /\ d = c THEN where ELSE pc[g][d]
BY DEF TypeOK, Goto

LEMMA SeeKeeps ==
    ASSUME TypeOK, NEW h \in Host, NEW c \in Call, NEW status \in Status, See(h, c, status)
    PROVE  /\ seen' \in [Host -> [Call -> Status]]
           /\ \A g \in Host, d \in Call :
                  seen'[g][d] = IF g = h /\ d = c THEN status ELSE seen[g][d]
BY DEF TypeOK, See

LEMMA ForgetClears ==
    ASSUME TypeOK, NEW h \in Host, Forget(h)
    PROVE  /\ abort' \in [Host -> {"no", "cancel", "handoff"}]
           /\ pc' \in [Host -> [Call -> Place]]
           /\ seen' \in [Host -> [Call -> Status]]
           /\ \A g \in Host, d \in Call :
                  /\ pc'[g][d] = IF g = h THEN "none" ELSE pc[g][d]
                  /\ seen'[g][d] = IF g = h THEN "none" ELSE seen[g][d]
BY DEF TypeOK, Forget, Nowhere, Place, Status

\* The types of the rows
RowsType ==
    /\ intent \in [Call -> {"none", "pending", "dispatched", "receipt_written", "cancelled"}]
    /\ operation \in [Call -> Status \cup {"pending", "executing"}]
    /\ receipt \in [Call -> Status] /\ outcome \in [Call -> Status]
    /\ claimant \in [Call -> Host \cup {0}]

\* The steps in which a drive moves a call on
OneDispatch(h, c) ==
    \/ Begin(h, c) \/ Run(h, c) \/ Settle(h, c) \/ Claim(h, c) \/ Execute(h, c)
    \/ CallOut(h, c) \/ Observe(h, c) \/ Record(h, c) \/ Reconcile(h, c)

\* Every step of a dispatch moves its own place.
LEMMA DispatchMoves ==
    ASSUME TypeOK, NEW h \in Host, NEW c \in Call, OneDispatch(h, c)
    PROVE  pc' \in [Host -> [Call -> Place]]
<1>1. \E w \in Place : Goto(h, c, w)
  BY DEF OneDispatch, Begin, Run, Settle, Claim, Execute, CallOut, Observe, Record, Reconcile, Place
<1> QED
  BY <1>1, GotoMoves

\* What a drive observes is a status; the result of a call that is out is known
\* to the service.
LEMMA DispatchSees ==
    ASSUME TypeOK, Claims, NEW h \in Host, NEW c \in Call, OneDispatch(h, c)
    PROVE  seen' \in [Host -> [Call -> Status]]
<1>1. CASE UNCHANGED seen
  BY <1>1 DEF TypeOK
<1>2. CASE \E s \in Status : See(h, c, s)
  BY <1>2, SeeKeeps
<1>3. CASE Observe(h, c)
  <2>1. Answer(c) \in Status
    BY <1>3, SMT DEF Observe, Answer, At, Status, Final, TypeOK, Claims, Stands
  <2> QED
    BY <1>3, <2>1, SeeKeeps DEF Observe, Status, Final
<1> QED
  BY <1>1, <1>2, <1>3 DEF OneDispatch, Begin, Run, Settle, Claim, Execute, CallOut, Record, Reconcile, Status, Final

\* The reason for an abort stays a reason.
LEMMA DispatchAborts ==
    ASSUME TypeOK, NEW h \in Host, NEW c \in Call, OneDispatch(h, c)
    PROVE  abort' \in [Host -> {"no", "cancel", "handoff"}]
<1>1. CASE UNCHANGED abort
  BY <1>1 DEF TypeOK
<1>2. CASE Refused(h)
  BY <1>2 DEF Refused, TypeOK
<1> QED
  BY <1>1, <1>2 DEF OneDispatch, Begin, Run, Settle, Claim, Execute, CallOut, Observe, Record, Reconcile

\* A receipt keeps the rows typed.
LEMMA WriteReceiptType ==
    ASSUME TypeOK, NEW c \in Call, NEW status \in Status, WriteReceipt(c, status)
    PROVE  RowsType'
<1>1. intent' \in [Call -> {"none", "pending", "dispatched", "receipt_written", "cancelled"}]
  BY DEF WriteReceipt, TypeOK
<1>2. receipt' \in [Call -> Status]
  BY SMTT(30) DEF WriteReceipt, TypeOK
<1> QED
  BY <1>1, <1>2 DEF WriteReceipt, RowsType, TypeOK

\* What is seen of a call, and what can be recorded of it, is a status.
LEMMA RecordableType ==
    ASSUME TypeOK, NEW h \in Host, NEW c \in Call
    PROVE  seen[h][c] \in Status /\ "failed" \in Status /\ Recordable(h, c) \in Status
<1>1. seen \in [Host -> [Call -> Status]]
  BY DEF TypeOK
<1>2. seen[h][c] \in Status /\ "failed" \in Status
  BY <1>1 DEF Status, Final
<1> QED
  BY <1>2 DEF Recordable

\* Every transaction keeps the rows typed.
LEMMA RowsTypeStep == IInv /\ [Next]_vars => RowsType'
<1> SUFFICES ASSUME IInv, [Next]_vars PROVE RowsType'
  OBVIOUS
<1> USE DEF IInv
<1>0. ASSUME UNCHANGED rows PROVE RowsType'
  BY <1>0 DEF rows, RowsType, TypeOK
<1>1. ASSUME NEW h \in Host, NEW c \in Call, Begin(h, c) PROVE RowsType'
  <2>1. CASE operation' = [operation EXCEPT ![c] = IF @ = "none" THEN "cancelled" ELSE @]
             /\ UNCHANGED <<intent, receipt, outcome, claimant>>
    BY <2>1, SMT DEF RowsType, TypeOK, Status, Final
  <2>2. CASE Prepare(c) /\ UNCHANGED <<receipt, outcome, claimant>>
    <3>1. intent' \in [Call -> {"none", "pending", "dispatched", "receipt_written", "cancelled"}]
      BY <2>2, SMT DEF Prepare, TypeOK
    <3>2. operation' \in [Call -> Status \cup {"pending", "executing"}]
      BY <2>2, SMT DEF Prepare, TypeOK
    <3> QED
      BY <2>2, <3>1, <3>2 DEF RowsType, TypeOK
  <2> QED
    BY <1>0, <1>1, <2>1, <2>2 DEF Begin, Refused
<1>2. ASSUME NEW h \in Host, NEW c \in Call, Settle(h, c) PROVE RowsType'
  <2>1. ASSUME NEW s \in {seen[h][c], "failed"},
               operation' = [operation EXCEPT ![c] = IF @ = "none" THEN s ELSE @],
               UNCHANGED <<intent, receipt, outcome, claimant>>
        PROVE  RowsType'
    <3>1. s \in Status
      BY RecordableType
    <3> QED
      BY <2>1, <3>1, SMT DEF RowsType, TypeOK
  <2> QED
    BY <1>0, <1>2, <2>1 DEF Settle, Refused
<1>3. ASSUME NEW h \in Host, NEW c \in Call, Claim(h, c) PROVE RowsType'
  <2>1. CASE CancelIntent(c) /\ UNCHANGED <<receipt, outcome, claimant>>
    BY <2>1, SMT DEF CancelIntent, RowsType, TypeOK, Status, Final
  <2>2. CASE /\ intent' = [intent EXCEPT ![c] = "dispatched"]
             /\ operation' = [operation EXCEPT ![c] = "executing"]
             /\ claimant' = [claimant EXCEPT ![c] = h]
             /\ UNCHANGED <<receipt, outcome>>
    BY <2>2, SMT DEF RowsType, TypeOK
  <2> QED
    BY <1>0, <1>3, <2>1, <2>2 DEF Claim, Refused
<1>4. ASSUME NEW h \in Host, NEW c \in Call, Record(h, c) PROVE RowsType'
  BY <1>4, RecordableType, WriteReceiptType DEF Record
<1>5. ASSUME NEW c \in Call, Complete(c) PROVE RowsType'
  BY <1>5, SMT DEF Complete, RowsType, TypeOK, Status
<1>6. ASSUME NEW h \in Host, NEW c \in Call, CloseCall(h, c) PROVE RowsType'
  <2>1. CASE CancelIntent(c) /\ UNCHANGED <<receipt, outcome, claimant>>
    BY <2>1, SMT DEF CancelIntent, RowsType, TypeOK, Status, Final
  <2>2. CASE operation' = [operation EXCEPT ![c] = "cancelled"]
             /\ UNCHANGED <<intent, receipt, outcome, claimant>>
    BY <2>2, SMT DEF RowsType, TypeOK, Status, Final
  <2> QED
    BY <1>0, <1>6, <2>1, <2>2 DEF CloseCall, rows
<1>7. ASSUME NEW h \in Host, NEW c \in Call, ScanRecord(h, c) PROVE RowsType'
  BY <1>7, WriteReceiptType DEF ScanRecord, Status, Final
<1>8. ASSUME NEW c \in Call, Finalize(c) PROVE RowsType'
  BY <1>8, SMT DEF Finalize, Settled, RowsType, TypeOK, Status
<1> QED
  BY <1>0, <1>1, <1>2, <1>3, <1>4, <1>5, <1>6, <1>7, <1>8
     DEF Next, vars, rows, Dispatch, Scan, Run, Execute, CallOut, Reconcile, Refused, Observe, Open, ScanRead,
         Converge, Start, Crash, TakeOver, Proceed, Handoff, Leave, CancelActive, Lapse, Interrupt

\* Every step keeps the type invariant.
LEMMA TypeOKStep == IInv /\ [Next]_vars => TypeOK'
<1> SUFFICES ASSUME IInv, [Next]_vars PROVE TypeOK'
  OBVIOUS
<1> USE DEF IInv
<1>r. RowsType'
  BY RowsTypeStep
<1>1. ASSUME NEW h \in Host, NEW c \in Call, OneDispatch(h, c) PROVE TypeOK'
  <2>1. UNCHANGED Elsewhere
    BY <1>1 DEF OneDispatch, Begin, Run, Settle, Claim, Execute, CallOut, Observe, Record, Reconcile
  <2>2. CASE UNCHANGED worldVars
    BY <1>1, <1>r, <2>1, <2>2, DispatchMoves, DispatchSees, DispatchAborts
       DEF RowsType, TypeOK, Elsewhere, turnVars, scanVars, worldVars
  <2>3. CASE /\ invoked[c] = 0 /\ invoked' = [invoked EXCEPT ![c] = @ + 1]
             /\ \E w \in {"succeeded", "failed", "unstorable"} : world' = [world EXCEPT ![c] = w]
    <3>1. invoked' \in [Call -> 0..2]
      BY <2>3, SMT DEF TypeOK
    <3>2. world' \in [Call -> {"untouched", "succeeded", "failed", "unstorable"}]
      BY <2>3, SMT DEF TypeOK
    <3> QED
      BY <1>1, <1>r, <2>1, <3>1, <3>2, DispatchMoves, DispatchSees, DispatchAborts
         DEF RowsType, TypeOK, Elsewhere, turnVars, scanVars
  <2>4. CASE CallOut(h, c)
    <3>1. invoked[c] = 0
      BY <2>4 DEF CallOut, At, Claims, Stands
    <3> QED
      BY <2>2, <2>3, <2>4, <3>1 DEF CallOut
  <2> QED
    BY <1>1, <2>2, <2>4 DEF OneDispatch, Begin, Run, Settle, Claim, Execute, Observe, Record, Reconcile
<1>2. ASSUME NEW h \in Host, NEW c \in Call, CloseCall(h, c) PROVE TypeOK'
  <2>1. CASE UNCHANGED <<drive, abort, pc, seen>>
    BY <1>2, <1>r, <2>1 DEF CloseCall, RowsType, TypeOK, turnVars, scanVars, worldVars
  <2>2. CASE drive' = [drive EXCEPT ![h] = "thrown"] /\ Forget(h)
    <3>1. drive' \in [Host -> {"none", "on", "left", "thrown"}]
      BY <2>2 DEF TypeOK
    <3> QED
      BY <1>2, <1>r, <2>2, <3>1, ForgetClears DEF CloseCall, RowsType, TypeOK, turnVars, scanVars, worldVars
  <2> QED
    BY <1>2, <2>1, <2>2 DEF CloseCall
<1>3. ASSUME NEW c \in Call, Converge(c) \/ Finalize(c) PROVE TypeOK'
  BY <1>3, <1>r DEF Converge, Finalize, RowsType, TypeOK, turnVars, scanVars, hostVars, worldVars
<1>4. ASSUME NEW h \in Host, NEW c \in Call, ScanRead(h, c) \/ ScanRecord(h, c) PROVE TypeOK'
  <2>1. suspects' \in [Host -> SUBSET Call]
    <3>1. CASE suspects' = [suspects EXCEPT ![h] = @ \ {c}]
      BY <3>1 DEF TypeOK
    <3> QED
      BY <1>4, <3>1 DEF ScanRead, ScanRecord, TypeOK
  <2>2. condemned' \in [Host -> SUBSET Call]
    <3>1. condemned \in [Host -> SUBSET Call]
      BY DEF TypeOK
    <3>2. PICK left \in SUBSET Call : condemned' = [condemned EXCEPT ![h] = left]
      BY <1>4, <3>1 DEF ScanRead, ScanRecord
    <3> QED
      BY <3>1, <3>2
  <2> QED
    BY <1>4, <1>r, <2>1, <2>2 DEF ScanRead, ScanRecord, RowsType, TypeOK, turnVars, worldVars
<1>5. ASSUME NEW h \in Host, Open(h) \/ Start(h) PROVE TypeOK'
  <2>1. host' \in [Host -> {"off", "scanning", "up", "dead"}]
    BY <1>5 DEF Open, Start, TypeOK
  <2>2. suspects' \in [Host -> SUBSET Call]
    <3>1. CASE suspects' = [suspects EXCEPT ![h] = {d \in Call : intent[d] = "dispatched"}]
      BY <3>1 DEF TypeOK
    <3> QED
      BY <1>5, <3>1 DEF Open, Start, TypeOK, scanVars
  <2> QED
    BY <1>5, <1>r, <2>1, <2>2 DEF Open, Start, RowsType, TypeOK, turnVars, scanVars, worldVars
<1>6. ASSUME NEW h \in Host, Crash(h) PROVE TypeOK'
  <2>1. /\ host' \in [Host -> {"off", "scanning", "up", "dead"}]
        /\ drive' \in [Host -> {"none", "on", "left", "thrown"}]
    BY <1>6 DEF Crash, TypeOK
  <2>2. /\ suspects' \in [Host -> SUBSET Call]
        /\ condemned' \in [Host -> SUBSET Call]
    BY <1>6, SMT DEF Crash, TypeOK
  <2> QED
    BY <1>6, <1>r, <2>1, <2>2, ForgetClears DEF Crash, RowsType, TypeOK, turnVars, worldVars
<1>7. ASSUME NEW h \in Host, TakeOver(h) PROVE TypeOK'
  <2>1. drive' \in [Host -> {"none", "on", "left", "thrown"}]
    BY <1>7 DEF TakeOver, TypeOK
  <2>2. pc' \in [Host -> [Call -> Place]]
    BY <1>7 DEF TakeOver, TypeOK, Place
  <2> QED
    BY <1>7, <1>r, <2>1, <2>2 DEF TakeOver, RowsType, TypeOK, scanVars, worldVars
<1>8. ASSUME NEW h \in Host, Leave(h) PROVE TypeOK'
  <2>1. drive' \in [Host -> {"none", "on", "left", "thrown"}]
    BY <1>8 DEF Leave, TypeOK
  <2> QED
    BY <1>8, <1>r, <2>1, ForgetClears DEF Leave, RowsType, TypeOK, turnVars, scanVars, worldVars
<1>9. ASSUME NEW h \in Host, Handoff(h) \/ CancelActive(h) PROVE TypeOK'
  <2>1. abort' \in [Host -> {"no", "cancel", "handoff"}]
    <3>1. CASE Handoff(h)
      BY <3>1 DEF Handoff, TypeOK
    <3>2. CASE CancelActive(h)
      BY <3>2 DEF CancelActive, TypeOK
    <3> QED
      BY <1>9, <3>1, <3>2
  <2> QED
    BY <1>9, <1>r, <2>1 DEF Handoff, CancelActive, RowsType, TypeOK, turnVars, scanVars, worldVars
<1>10. ASSUME (\E h \in Host : Proceed(h)) \/ Lapse \/ Interrupt PROVE TypeOK'
  <2>1. /\ turn' \in {"active", "over"} /\ stop' \in BOOLEAN
        /\ owner' \in Host /\ lapsed' \in BOOLEAN
    BY <1>10 DEF Proceed, Lapse, Interrupt, TypeOK
  <2> QED
    BY <1>10, <1>r, <2>1 DEF Proceed, Lapse, Interrupt, RowsType, TypeOK, scanVars, hostVars, worldVars
<1>11. CASE UNCHANGED vars
  BY <1>11 DEF vars, rows, turnVars, scanVars, hostVars, worldVars, TypeOK
<1> QED
  BY <1>1, <1>2, <1>3, <1>4, <1>5, <1>6, <1>7, <1>8, <1>9, <1>10, <1>11 DEF Next, Dispatch, OneDispatch, Scan

\* A drive that moves to a place where it may stand leaves the claims alone.
LEMMA ClaimsMove ==
    ASSUME TypeOK, Claims, NEW h \in Host, NEW c \in Call, NEW w \in Place, Goto(h, c, w),
           Stands(h, c, w), \A d \in Call : Unclaimed(d)' <=> Unclaimed(d),
           UNCHANGED <<claimant, suspects, condemned, world, invoked>>
    PROVE  Claims'
<1>1. \A g \in Host, d \in Call : Stands(g, d, pc[g][d])'
  <2> SUFFICES ASSUME NEW g \in Host, NEW d \in Call PROVE Stands(g, d, pc[g][d])'
    OBVIOUS
  <2>1. CASE g = h /\ d = c
    BY <2>1, GotoMoves DEF Stands
  <2>2. CASE ~(g = h /\ d = c)
    <3>1. pc'[g][d] = pc[g][d]
      BY <2>2, GotoMoves
    <3>2. Stands(g, d, pc[g][d])
      BY DEF Claims
    <3> QED
      BY <3>1, <3>2 DEF Stands
  <2> QED
    BY <2>1, <2>2
<1> QED
  BY <1>1 DEF Claims

\* Every step keeps the claims.
LEMMA ClaimsStep == IInv /\ [Next]_vars => Claims'
<1> SUFFICES ASSUME IInv, [Next]_vars PROVE Claims'
  OBVIOUS
<1> USE DEF IInv
<1>0. 0 \notin Host
  BY EffectAssumption DEF Host
<1>1. ASSUME NEW h \in Host, NEW c \in Call, Begin(h, c) PROVE Claims'
  <2>1. UNCHANGED <<claimant, suspects, condemned, world, invoked>>
    BY <1>1 DEF Begin, Refused, rows, Elsewhere, scanVars, worldVars
  <2>2. \A d \in Call : Unclaimed(d)' <=> Unclaimed(d)
    BY <1>1, SMT DEF Begin, Prepare, Refused, rows, Rows, TypeOK, Unclaimed
  <2>3. PICK w \in {"back", "claim", "run"} : Goto(h, c, w) /\ Stands(h, c, w)
    BY <1>1 DEF Begin, Stands, Working
  <2> QED
    BY <2>1, <2>2, <2>3, ClaimsMove DEF Place
<1>2. ASSUME NEW h \in Host, NEW c \in Call,
             Run(h, c) \/ Settle(h, c) \/ Execute(h, c) \/ Observe(h, c) \/ Record(h, c) \/ Reconcile(h, c)
      PROVE  Claims'
  <2>1. UNCHANGED <<claimant, suspects, condemned, world, invoked>>
    BY <1>2 DEF Run, Settle, Execute, Observe, Record, Reconcile, WriteReceipt, Complete,
                Refused, rows, Elsewhere, scanVars, worldVars
  <2>2. \A d \in Call : Unclaimed(d)' <=> Unclaimed(d)
    <3>1. CASE UNCHANGED intent
      BY <3>1 DEF Unclaimed
    <3>2. CASE Record(h, c) /\ intent' = [intent EXCEPT ![c] = "receipt_written"]
      <4>1. ~Unclaimed(c)
        BY <3>2, <1>0 DEF Record, At, Claims, Stands, Working
      <4> QED
        BY <3>2, <4>1 DEF Unclaimed, TypeOK
    <3> QED
      BY <1>2, <3>1, <3>2 DEF Run, Settle, Execute, Observe, Record, Reconcile, WriteReceipt, Complete, Refused, rows
  <2>3. PICK w \in {"settle", "back", "call", "observed", "reconcile"} : Goto(h, c, w) /\ Stands(h, c, w)
    BY <1>2 DEF Run, Settle, Execute, Observe, Record, Reconcile, At, Claims, Stands, Working
  <2> QED
    BY <2>1, <2>2, <2>3, ClaimsMove DEF Place
<1>3. ASSUME NEW h \in Host, NEW c \in Call, Claim(h, c) PROVE Claims'
  <2>1. CASE /\ Goto(h, c, "back")
             /\ UNCHANGED rows \/ (Claimable(c) /\ CancelIntent(c) /\ UNCHANGED claimant)
    <3>1. UNCHANGED <<claimant, suspects, condemned, world, invoked>>
      BY <1>3, <2>1 DEF Claim, rows, Elsewhere, scanVars, worldVars
    <3>2. \A d \in Call : Unclaimed(d)' <=> Unclaimed(d)
      BY <2>1, SMT DEF CancelIntent, Claimable, rows, TypeOK, Unclaimed
    <3> QED
      BY <2>1, <3>1, <3>2, ClaimsMove DEF Place, Stands, Working
  <2>2. CASE /\ Claimable(c)
             /\ intent' = [intent EXCEPT ![c] = "dispatched"]
             /\ claimant' = [claimant EXCEPT ![c] = h]
             /\ Goto(h, c, "execute")
    <3>1. UNCHANGED <<suspects, condemned, world, invoked>>
      BY <1>3 DEF Claim, Elsewhere, scanVars, worldVars
    <3>2. claimant[c] = 0 /\ invoked[c] = 0 /\ c \in Effects
      BY <1>3, <2>2 DEF Claim, At, Claimable, Claims, Stands, Unclaimed, Working
    <3>3. /\ \A d \in Call : /\ claimant'[d] = IF d = c THEN h ELSE claimant[d]
                             /\ intent'[d] = IF d = c THEN "dispatched" ELSE intent[d]
      BY <2>2 DEF TypeOK
    <3>4. \A g \in Host, d \in Call : Stands(g, d, pc[g][d])'
      <4> SUFFICES ASSUME NEW g \in Host, NEW d \in Call PROVE Stands(g, d, pc[g][d])'
        OBVIOUS
      <4>1. CASE g = h /\ d = c
        BY <2>2, <3>1, <3>2, <3>3, <4>1, GotoMoves DEF Stands, Working, Place
      <4>2. CASE ~(g = h /\ d = c)
        BY <2>2, <3>1, <3>2, <3>3, <4>2, <1>0, GotoMoves DEF Stands, Claims, Place
      <4> QED
        BY <4>1, <4>2
    <3> QED
      BY <3>1, <3>2, <3>3, <3>4, <1>0 DEF Claims, Unclaimed
  <2> QED
    BY <1>3, <2>1, <2>2 DEF Claim, Refused
<1>4. ASSUME NEW h \in Host, NEW c \in Call, CallOut(h, c) PROVE Claims'
  <2>1. UNCHANGED <<intent, claimant, suspects, condemned>>
    BY <1>4 DEF CallOut, rows, Elsewhere, scanVars
  <2>2. invoked[c] = 0 /\ claimant[c] = h /\ c \in Effects
    BY <1>4 DEF CallOut, At, Claims, Stands, Working
  <2>3. CASE Goto(h, c, "observed") /\ UNCHANGED worldVars
    BY <2>1, <2>2, <2>3, ClaimsMove DEF worldVars, Place, Stands, Working, Unclaimed
  <2>4. CASE /\ Goto(h, c, "calling") /\ invoked' = [invoked EXCEPT ![c] = @ + 1]
             /\ \E w \in {"succeeded", "failed", "unstorable"} : world' = [world EXCEPT ![c] = w]
    <3>1. \A d \in Call : invoked'[d] = IF d = c THEN 1 ELSE invoked[d]
      BY <2>2, <2>4, SMT DEF TypeOK
    <3>2. /\ world'[c] # "untouched"
          /\ \A d \in Call : d # c => world'[d] = world[d]
      BY <2>4 DEF TypeOK
    <3>3. \A g \in Host, d \in Call : Stands(g, d, pc[g][d])'
      <4> SUFFICES ASSUME NEW g \in Host, NEW d \in Call PROVE Stands(g, d, pc[g][d])'
        OBVIOUS
      <4>1. CASE g = h /\ d = c
        BY <2>1, <2>2, <2>4, <3>2, <4>1, GotoMoves DEF Stands, Working, Place
      <4>2. CASE ~(g = h /\ d = c)
        <5>1. pc'[g][d] = pc[g][d] /\ Stands(g, d, pc[g][d])
          BY <2>4, <4>2, GotoMoves DEF Claims, Place
        <5>2. d = c => pc[g][d] \notin Working
          BY <2>2, <4>2, <5>1 DEF Stands
        <5> QED
          BY <2>1, <3>1, <3>2, <5>1, <5>2, SMT DEF Stands, Working
      <4> QED
        BY <4>1, <4>2
    <3> QED
      BY <1>0, <2>1, <2>2, <3>1, <3>2, <3>3, SMT DEF Claims, Unclaimed
  <2> QED
    BY <1>4, <2>3, <2>4 DEF CallOut
<1>5. ASSUME NEW h \in Host, NEW c \in Call, CloseCall(h, c) PROVE Claims'
  <2>1. UNCHANGED <<claimant, suspects, condemned, world, invoked>>
    BY <1>5 DEF CloseCall, scanVars, worldVars
  <2>2. \A d \in Call : Unclaimed(d)' <=> Unclaimed(d)
    <3>1. CASE UNCHANGED intent
      BY <3>1 DEF Unclaimed
    <3>2. CASE Claimable(c) /\ CancelIntent(c)
      BY <3>2 DEF Claimable, CancelIntent, TypeOK, Unclaimed
    <3> QED
      BY <1>5, <3>1, <3>2 DEF CloseCall
  <2>3. \A g \in Host, d \in Call : pc'[g][d] \in {"none", pc[g][d]}
    BY <1>5, ForgetClears DEF CloseCall
  <2>4. \A g \in Host, d \in Call : Stands(g, d, pc[g][d])'
    BY <2>1, <2>3 DEF Claims, Stands, Working
  <2> QED
    BY <2>1, <2>2, <2>4 DEF Claims
<1>6. ASSUME NEW c \in Call, Converge(c) \/ Finalize(c) PROVE Claims'
  BY <1>6 DEF Converge, Finalize, Complete, hostVars, scanVars, worldVars, Claims, Stands, Unclaimed
<1>7. ASSUME NEW h \in Host, NEW c \in Call, ScanRead(h, c) PROVE Claims'
  <2>1. \A g \in Host : (suspects[g] \cup condemned[g])' \subseteq suspects[g] \cup condemned[g]
    BY <1>7, SMT DEF ScanRead, TypeOK
  <2> QED
    BY <1>7, <2>1 DEF ScanRead, rows, worldVars, Claims, Stands, Unclaimed
<1>8. ASSUME NEW h \in Host, NEW c \in Call, ScanRecord(h, c) PROVE Claims'
  <2>1. \A g \in Host : (suspects[g] \cup condemned[g])' \subseteq suspects[g] \cup condemned[g]
    BY <1>8, SMT DEF ScanRecord, TypeOK
  <2>2. \A d \in Call : Unclaimed(d)' <=> Unclaimed(d)
    <3>1. ~Unclaimed(c)
      BY <1>8 DEF ScanRecord, Claims
    <3> QED
      BY <1>8, <3>1 DEF ScanRecord, WriteReceipt, TypeOK, Unclaimed
  <2> QED
    BY <1>8, <2>1, <2>2 DEF ScanRecord, WriteReceipt, worldVars, Claims, Stands
<1>9. ASSUME NEW h \in Host, Start(h) PROVE Claims'
  <2>1. \A g \in Host, d \in Call : d \in suspects'[g] \cup condemned'[g] =>
            \/ d \in suspects[g] \cup condemned[g]
            \/ intent[d] = "dispatched"
    BY <1>9, SMT DEF Start, TypeOK
  <2> QED
    BY <1>9, <2>1 DEF Start, rows, worldVars, Claims, Stands, Unclaimed
<1>10. ASSUME NEW h \in Host, Crash(h) \/ Leave(h) PROVE Claims'
  <2>1. \A g \in Host : (suspects[g] \cup condemned[g])' \subseteq suspects[g] \cup condemned[g]
    BY <1>10, SMT DEF Crash, Leave, scanVars, TypeOK
  <2>2. \A g \in Host, d \in Call : pc'[g][d] \in {"none", pc[g][d]}
    BY <1>10, ForgetClears DEF Crash, Leave
  <2> QED
    BY <1>10, <2>1, <2>2 DEF Crash, Leave, rows, worldVars, Claims, Stands, Unclaimed, Working
<1>11. ASSUME NEW h \in Host, TakeOver(h) PROVE Claims'
  <2>1. \A g \in Host, d \in Call : pc'[g][d] \in {"idle", pc[g][d]}
    BY <1>11 DEF TakeOver, TypeOK
  <2> QED
    BY <1>11, <2>1 DEF TakeOver, rows, scanVars, worldVars, Claims, Stands, Unclaimed, Working
<1>12. ASSUME NEW h \in Host, Open(h) \/ Proceed(h) \/ Handoff(h) \/ CancelActive(h) PROVE Claims'
  BY <1>12 DEF Open, Proceed, Handoff, CancelActive, rows, hostVars, scanVars, worldVars, Claims, Stands, Unclaimed
<1>13. CASE Lapse \/ Interrupt \/ UNCHANGED vars
  BY <1>13 DEF Lapse, Interrupt, vars, rows, hostVars, scanVars, worldVars, Claims, Stands, Unclaimed
<1> QED
  BY <1>1, <1>2, <1>3, <1>4, <1>5, <1>6, <1>7, <1>8, <1>9, <1>10, <1>11, <1>12, <1>13 DEF Next, Dispatch, Scan

\* Every transaction keeps the rows of a call together.
LEMMA RowsStep == IInv /\ [Next]_vars => Rows'
<1> SUFFICES ASSUME IInv, [Next]_vars PROVE Rows'
  OBVIOUS
<1> USE DEF IInv
<1>0. 0 \notin Host
  BY EffectAssumption DEF Host
<1>u. ASSUME UNCHANGED rows PROVE Rows'
  BY <1>u DEF rows, Rows, Settled
<1>1. ASSUME NEW h \in Host, NEW c \in Call, Begin(h, c) PROVE Rows'
  BY <1>1, SMT DEF Begin, At, Refused, rows, Prepare, Fenced, Rows, Settled, Final, Status, TypeOK, Claims, Unclaimed
<1>2. ASSUME NEW h \in Host, NEW c \in Call, Settle(h, c) PROVE Rows'
  <2>1. ASSUME NEW s \in {seen[h][c], "failed"},
               operation' = [operation EXCEPT ![c] = IF @ = "none" THEN s ELSE @],
               UNCHANGED <<intent, receipt, outcome, claimant>>
        PROVE  Rows'
    <3>1. c \notin Effects /\ s \in Status
      BY <1>2, RecordableType DEF Settle, At, Claims, Stands
    <3> QED
      BY <2>1, <3>1, SMT DEF Rows, Settled, Final, Status, TypeOK
  <2> QED
    BY <1>u, <1>2, <2>1 DEF Settle, Refused
<1>3. ASSUME NEW h \in Host, NEW c \in Call, Claim(h, c) PROVE Rows'
  <2>1. CASE Claimable(c) /\ CancelIntent(c) /\ UNCHANGED <<receipt, outcome, claimant>>
    BY <2>1, SMT DEF Claimable, CancelIntent, Rows, Settled, Final, TypeOK, Claims, Unclaimed
  <2>2. CASE /\ Claimable(c)
             /\ intent' = [intent EXCEPT ![c] = "dispatched"]
             /\ operation' = [operation EXCEPT ![c] = "executing"]
             /\ claimant' = [claimant EXCEPT ![c] = h]
             /\ UNCHANGED <<receipt, outcome>>
    BY <1>0, <2>2, SMT DEF Claimable, Rows, Settled, Final, TypeOK
  <2> QED
    BY <1>u, <1>3, <2>1, <2>2 DEF Claim, Refused
<1>4. ASSUME NEW c \in Call, claimant[c] # 0, NEW s \in Status \ {"none"}, WriteReceipt(c, s) PROVE Rows'
  BY <1>4, SMT DEF WriteReceipt, Rows, Settled, Final, Status, TypeOK, Claims, Unclaimed
<1>5. ASSUME NEW h \in Host, NEW c \in Call, Record(h, c) PROVE Rows'
  <2>1. claimant[c] # 0 /\ seen[h][c] # "none"
    BY <1>0, <1>5 DEF Record, At, Claims, Stands, Working, Reports, Holds
  <2>2. Recordable(h, c) \in Status \ {"none"}
    BY <2>1, RecordableType DEF Recordable
  <2> QED
    BY <1>4, <1>5, <2>1, <2>2 DEF Record
<1>6. ASSUME NEW h \in Host, NEW c \in Call, ScanRecord(h, c) PROVE Rows'
  <2>1. claimant[c] # 0
    BY <1>6 DEF ScanRecord, Claims
  <2> QED
    BY <1>4, <1>6, <2>1 DEF ScanRecord, Status, Final
<1>7. ASSUME NEW c \in Call, receipt[c] # "none", Complete(c) PROVE Rows'
  BY <1>7, SMT DEF Complete, Rows, Settled, Final, Status, TypeOK, Claims, Unclaimed
<1>8. ASSUME NEW h \in Host, NEW c \in Call, Reconcile(h, c) PROVE Rows'
  BY <1>u, <1>7, <1>8 DEF Reconcile, At, Refused, Reports, Holds
<1>9. ASSUME NEW h \in Host, NEW c \in Call, CloseCall(h, c) PROVE Rows'
  <2>1. CASE Claimable(c) /\ CancelIntent(c) /\ UNCHANGED <<receipt, outcome, claimant>>
    BY <2>1, SMT DEF Claimable, CancelIntent, Rows, Settled, Final, TypeOK, Claims, Unclaimed
  <2>2. CASE operation[c] = "none" /\ operation' = [operation EXCEPT ![c] = "cancelled"]
             /\ UNCHANGED <<intent, receipt, outcome, claimant>>
    BY <2>2, SMT DEF Rows, Settled, Final, TypeOK, Claims, Unclaimed
  <2> QED
    BY <1>u, <1>9, <2>1, <2>2 DEF CloseCall, rows
<1>10. ASSUME NEW c \in Call, Finalize(c) PROVE Rows'
  BY <1>10, SMT DEF Finalize, First, Rows, Settled, Final, TypeOK
<1> QED
  BY <1>u, <1>1, <1>2, <1>3, <1>5, <1>6, <1>7, <1>8, <1>9, <1>10
     DEF Next, vars, rows, Dispatch, Scan, Run, Execute, CallOut, Observe, Open, ScanRead,
         Converge, Unapplied, Start, Crash, TakeOver, Proceed, Handoff, Leave, CancelActive, Lapse, Interrupt

\* A drive that moves with what it may hold leaves the reports true.
LEMMA ReportsMove ==
    ASSUME TypeOK, Reports, NEW h \in Host, NEW c \in Call, NEW w \in Place, Goto(h, c, w),
           NEW s \in Status, UNCHANGED seen \/ See(h, c, s), Holds(h, c)',
           UNCHANGED <<receipt, world, invoked>>
    PROVE  Reports'
<1>1. \A g \in Host, d \in Call : Holds(g, d)'
  <2> SUFFICES ASSUME NEW g \in Host, NEW d \in Call, ~(g = h /\ d = c) PROVE Holds(g, d)'
    OBVIOUS
  <2>1. pc'[g][d] = pc[g][d] /\ seen'[g][d] = seen[g][d]
    BY GotoMoves, SeeKeeps
  <2>2. Holds(g, d)
    BY DEF Reports
  <2> QED
    BY <2>1, <2>2 DEF Holds, Recordable, Tells
<1> QED
  BY <1>1 DEF Reports, Tells

\* Every step keeps the reports true.
LEMMA ReportsStep == IInv /\ [Next]_vars => Reports'
<1> SUFFICES ASSUME IInv, [Next]_vars PROVE Reports'
  OBVIOUS
<1> USE DEF IInv
<1>0. 0 \notin Host
  BY EffectAssumption DEF Host
<1>u. ASSUME UNCHANGED <<receipt, world, invoked, seen>>,
             \A g \in Host, d \in Call : pc'[g][d] \in {pc[g][d], "idle", "back", "claim", "run"}
      PROVE  Reports'
  BY <1>u DEF Reports, Holds, Recordable, Tells
<1>1. ASSUME NEW h \in Host, NEW c \in Call, Begin(h, c) PROVE Reports'
  <2>1. PICK w \in {"back", "claim", "run"} : Goto(h, c, w)
    BY <1>1 DEF Begin
  <2>2. UNCHANGED <<receipt, world, invoked, seen>>
    BY <1>1 DEF Begin, Refused, rows, worldVars
  <2> QED
    BY <1>u, <2>1, <2>2, GotoMoves DEF Place
<1>2. ASSUME NEW h \in Host, NEW c \in Call, Run(h, c) \/ Settle(h, c) PROVE Reports'
  <2>1. PICK w \in {"settle", "back"} : Goto(h, c, w)
    BY <1>2 DEF Run, Settle
  <2>2. PICK s \in Status : See(h, c, s)
    BY <1>2 DEF Run, Settle, Status, Final
  <2>3. UNCHANGED <<receipt, world, invoked>>
    BY <1>2 DEF Run, Settle, Refused, rows, worldVars
  <2>4. Holds(h, c)'
    BY <2>1, GotoMoves DEF Holds, Place
  <2> QED
    BY <2>1, <2>2, <2>3, <2>4, ReportsMove DEF Place
<1>3. ASSUME NEW h \in Host, NEW c \in Call, Claim(h, c) PROVE Reports'
  <2>1. PICK w \in {"back", "execute"} : Goto(h, c, w) /\ (w = "execute" => Claimable(c))
    BY <1>3 DEF Claim
  <2>2. UNCHANGED <<receipt, world, invoked, seen>>
    BY <1>3 DEF Claim, Refused, rows, worldVars
  <2>3. Claimable(c) => receipt[c] = "none"
    BY DEF Claimable, Rows, TypeOK
  <2>4. Holds(h, c)'
    BY <2>1, <2>2, <2>3, GotoMoves DEF Holds, Place
  <2> QED
    BY <2>1, <2>2, <2>4, ReportsMove DEF Place, Status
<1>4. ASSUME NEW h \in Host, NEW c \in Call, Execute(h, c) PROVE Reports'
  <2>1. PICK w \in {"call", "back"} : Goto(h, c, w) /\ (w = "call" => receipt[c] = "none")
    BY <1>4 DEF Execute
  <2>2. UNCHANGED <<receipt, world, invoked, seen>>
    BY <1>4 DEF Execute, rows, worldVars
  <2>3. Holds(h, c)'
    BY <2>1, <2>2, GotoMoves DEF Holds, Place
  <2> QED
    BY <2>1, <2>2, <2>3, ReportsMove DEF Place, Status
<1>5. ASSUME NEW h \in Host, NEW c \in Call, CallOut(h, c) PROVE Reports'
  <2>1. UNCHANGED receipt /\ invoked[c] = 0 /\ claimant[c] = h /\ receipt[c] \in {"none", "outcome_unknown"}
    BY <1>5 DEF CallOut, At, rows, Claims, Stands, Working, Reports, Holds
  <2>2. CASE /\ See(h, c, IF abort[h] = "no" THEN "failed" ELSE "cancelled")
             /\ Goto(h, c, "observed") /\ UNCHANGED worldVars
    <3>1. PICK s \in {"failed", "cancelled"} : See(h, c, s)
      BY <2>2
    <3>2. world[c] # "succeeded"
      BY <2>1 DEF Claims
    <3>3. Holds(h, c)'
      BY <2>1, <2>2, <3>1, <3>2, GotoMoves, SeeKeeps DEF Holds, Recordable, Tells, Place, Status, Final, worldVars
    <3> QED
      BY <2>1, <2>2, <3>1, <3>3, ReportsMove DEF Place, Status, Final, worldVars
  <2>3. CASE /\ invoked' = [invoked EXCEPT ![c] = @ + 1]
             /\ \E w \in {"succeeded", "failed", "unstorable"} : world' = [world EXCEPT ![c] = w]
             /\ Goto(h, c, "calling") /\ UNCHANGED seen
    <3>1. \A d \in Call : d # c => invoked'[d] = invoked[d] /\ world'[d] = world[d]
      BY <2>3 DEF TypeOK
    <3>2. \A d \in Call : Tells(receipt[d], d)'
      BY <2>1, <3>1 DEF Reports, Tells
    <3>3. ASSUME NEW g \in Host, NEW d \in Call PROVE Holds(g, d)'
      <4>1. CASE d = c /\ g = h
        BY <2>1, <2>3, <4>1, GotoMoves DEF Holds, Place
      <4>2. CASE ~(d = c /\ g = h)
        <5>1. pc'[g][d] = pc[g][d] /\ Holds(g, d)
          BY <2>3, <4>2, GotoMoves DEF Reports, Place
        <5>2. d = c => pc[g][d] \notin Working
          BY <2>1, <4>2 DEF Claims, Stands
        <5> QED
          BY <2>1, <2>3, <3>1, <5>1, <5>2 DEF Holds, Recordable, Tells, Working
      <4> QED
        BY <4>1, <4>2
    <3> QED
      BY <3>2, <3>3 DEF Reports
  <2> QED
    BY <1>5, <2>2, <2>3 DEF CallOut
<1>6. ASSUME NEW h \in Host, NEW c \in Call, Observe(h, c) PROVE Reports'
  <2>1. PICK s \in {Answer(c), "outcome_unknown"} : See(h, c, s)
    BY <1>6 DEF Observe
  <2>2. /\ Goto(h, c, "observed")
        /\ UNCHANGED <<receipt, world, invoked>>
        /\ receipt[c] \in {"none", "outcome_unknown"}
        /\ world[c] \in {"succeeded", "failed", "unstorable"}
    BY <1>6 DEF Observe, At, rows, worldVars, Claims, Stands, Reports, Holds, TypeOK
  <2>3. Holds(h, c)'
    BY <2>1, <2>2, GotoMoves, SeeKeeps DEF Holds, Recordable, Answer, Tells, Place, Status, Final
  <2> QED
    BY <2>1, <2>2, <2>3, ReportsMove DEF Answer, Place, Status, Final
<1>7. ASSUME NEW h \in Host, NEW c \in Call, Record(h, c) PROVE Reports'
  <2>1. /\ Goto(h, c, "reconcile") /\ See(h, c, "none")
        /\ UNCHANGED <<world, invoked>>
        /\ Recordable(h, c) # "none" /\ Tells(Recordable(h, c), c) /\ claimant[c] = h
    BY <1>7 DEF Record, Recordable, At, worldVars, Claims, Stands, Working, Reports, Holds
  <2>2. \A d \in Call : receipt'[d] = IF d = c /\ receipt[c] = "none" THEN Recordable(h, c) ELSE receipt[d]
    BY <1>7 DEF Record, WriteReceipt, TypeOK
  <2>3. ASSUME NEW g \in Host, NEW d \in Call PROVE Holds(g, d)'
    <3>1. CASE d = c /\ g = h
      BY <2>1, <2>2, <3>1, GotoMoves DEF Holds, Place
    <3>2. CASE ~(d = c /\ g = h)
      <4>1. pc'[g][d] = pc[g][d] /\ seen'[g][d] = seen[g][d] /\ Holds(g, d)
        BY <2>1, <3>2, GotoMoves, SeeKeeps DEF Reports, Place, Status
      <4>2. d = c => pc[g][d] \notin Working
        BY <2>1, <3>2 DEF Claims, Stands
      <4> QED
        BY <2>1, <2>2, <4>1, <4>2 DEF Holds, Recordable, Tells, Working
    <3> QED
      BY <3>1, <3>2
  <2> QED
    BY <2>1, <2>2, <2>3 DEF Reports, Tells
<1>8. ASSUME NEW h \in Host, NEW c \in Call, Reconcile(h, c) PROVE Reports'
  <2>1. Goto(h, c, "back") /\ UNCHANGED <<receipt, world, invoked, seen>>
    BY <1>8 DEF Reconcile, Complete, Refused, rows, worldVars
  <2> QED
    BY <1>u, <2>1, GotoMoves DEF Place
<1>9. ASSUME NEW h \in Host, NEW c \in Call, ScanRecord(h, c) PROVE Reports'
  <2>1. UNCHANGED <<pc, seen, world, invoked>>
    BY <1>9 DEF ScanRecord, worldVars
  <2>2. \A d \in Call : receipt'[d] \in {receipt[d], "outcome_unknown"}
    BY <1>9 DEF ScanRecord, WriteReceipt, TypeOK
  <2> QED
    BY <2>1, <2>2 DEF Reports, Holds, Recordable, Tells
<1>10. ASSUME NEW h \in Host, Crash(h) \/ Leave(h) \/ Forget(h), UNCHANGED <<receipt, world, invoked>>
       PROVE  Reports'
  <2>1. Forget(h)
    BY <1>10 DEF Crash, Leave
  <2>2. ASSUME NEW g \in Host, NEW d \in Call PROVE Holds(g, d)'
    <3>1. CASE g = h
      BY <2>1, <3>1, ForgetClears DEF Holds
    <3>2. CASE g # h
      <4>1. pc'[g][d] = pc[g][d] /\ seen'[g][d] = seen[g][d] /\ Holds(g, d)
        BY <2>1, <3>2, ForgetClears DEF Reports
      <4> QED
        BY <1>10, <4>1 DEF Holds, Recordable, Tells
    <3> QED
      BY <3>1, <3>2
  <2> QED
    BY <1>10, <2>2 DEF Reports, Tells
<1>11. ASSUME NEW h \in Host, NEW c \in Call, CloseCall(h, c) PROVE Reports'
  BY <1>u, <1>10, <1>11 DEF CloseCall, worldVars
<1>12. ASSUME NEW h \in Host, TakeOver(h) PROVE Reports'
  <2>1. \A g \in Host, d \in Call : pc'[g][d] \in {pc[g][d], "idle"}
    BY <1>12 DEF TakeOver, TypeOK
  <2> QED
    BY <1>u, <1>12, <2>1 DEF TakeOver, rows, worldVars
<1> QED
  BY <1>u, <1>1, <1>2, <1>3, <1>4, <1>5, <1>6, <1>7, <1>8, <1>9, <1>10, <1>11, <1>12
     DEF Next, vars, rows, hostVars, worldVars, Dispatch, Scan, Open, ScanRead, Converge, Finalize, Complete,
         Start, Crash, Proceed, Handoff, Leave, CancelActive, Lapse, Interrupt

\* The batch as it is written satisfies the invariant.
LEMMA IInvInit == Init => IInv
<1> SUFFICES ASSUME Init PROVE IInv
  OBVIOUS
<1>0. 1 \in Host /\ 0 \notin Host
  BY EffectAssumption DEF Host
<1>1. TypeOK
  <2>1. pc \in [Host -> [Call -> Place]] /\ seen \in [Host -> [Call -> Status]]
    BY DEF Init, Nowhere, Place, Status
  <2>2. host \in [Host -> {"off", "scanning", "up", "dead"}] /\ owner \in Host
    BY <1>0 DEF Init
  <2>3. invoked \in [Call -> 0..2]
    BY SMT DEF Init
  <2>4. /\ suspects \in [Host -> SUBSET Call] /\ condemned \in [Host -> SUBSET Call]
        /\ drive \in [Host -> {"none", "on", "left", "thrown"}]
    BY DEF Init
  <2> QED
    BY <1>0, <2>1, <2>2, <2>3, <2>4 DEF Init, Nowhere, TypeOK, Status
<1>2. Claims
  BY SMT DEF Init, Nowhere, Claims, Stands, Unclaimed, Working
<1>3. Rows
  BY DEF Init, Nowhere, Rows, Settled, Final
<1>4. Reports
  BY DEF Init, Nowhere, Reports, Holds, Tells
<1> QED
  BY <1>1, <1>2, <1>3, <1>4 DEF IInv

\* IInv is inductive, so it holds of every reachable state.
THEOREM Invariance == Spec => []IInv
<1>1. IInv /\ [Next]_vars => IInv'
  BY TypeOKStep, ClaimsStep, RowsStep, ReportsStep DEF IInv
<1> QED
  BY IInvInit, <1>1, PTL DEF Spec

\* Every variable keeps its type.
THEOREM TypeCorrect == Spec => []TypeOK
<1>1. IInv => TypeOK
  BY DEF IInv
<1> QED
  BY Invariance, <1>1, PTL

\* No call goes out twice, whoever crashes, takes over, scans or hands over.
THEOREM GoesOutOnce == Spec => []AtMostOnce
<1>1. IInv => AtMostOnce
  BY DEF IInv, Claims, AtMostOnce
<1> QED
  BY Invariance, <1>1, PTL

\* What the model is told of an effect is true of what the service did.
THEOREM TellsTheTruth == Spec => []OutcomeTrue
<1>1. IInv => OutcomeTrue
  <2> SUFFICES ASSUME IInv, NEW c \in Effects, outcome[c] # "none"
               PROVE  Tells(outcome[c], c)
    BY DEF OutcomeTrue, Tells
  <2>1. c \in Call
    BY EffectAssumption DEF Call
  <2>2. Settled(c) /\ outcome[c] = operation[c]
    BY <2>1 DEF IInv, Rows
  <2>3. CASE operation[c] = receipt[c]
    BY <2>1, <2>2, <2>3 DEF IInv, Reports
  <2>4. CASE operation[c] # receipt[c]
    BY <2>1, <2>2, <2>4 DEF IInv, Rows, Claims, Tells
  <2> QED
    BY <2>3, <2>4
<1> QED
  BY Invariance, <1>1, PTL

\* The Operation, EffectIntent, claim and EffectReceipt of an effect agree after
\* every transaction.
THEOREM RowsStayTogether == Spec => []RowsAgree
<1>1. IInv => RowsAgree
  <2> SUFFICES ASSUME IInv, NEW c \in Effects
               PROVE  /\ (intent[c] = "receipt_written") = (receipt[c] # "none")
                      /\ operation[c] = "executing" =>
                             intent[c] \in {"dispatched", "receipt_written"} /\ claimant[c] # 0
                      /\ intent[c] = "cancelled" => operation[c] = "cancelled" /\ claimant[c] = 0
                      /\ receipt[c] # "none" /\ Settled(c) => operation[c] = receipt[c]
    BY DEF RowsAgree
  <2>1. c \in Call
    BY EffectAssumption DEF Call
  <2> QED
    BY <2>1 DEF IInv, Rows, Claims, Unclaimed
<1> QED
  BY Invariance, <1>1, PTL

\* What SettledOnce asks of one step
Kept == \A c \in Call : /\ receipt[c] # "none" => receipt'[c] = receipt[c]
                        /\ Settled(c) => operation'[c] = operation[c]
                        /\ outcome[c] # "none" => outcome'[c] = outcome[c]

\* No step rewrites a receipt, a settled Operation or a result.
LEMMA KeptStep == IInv /\ [Next]_vars => Kept
<1> SUFFICES ASSUME IInv, [Next]_vars PROVE Kept
  OBVIOUS
<1> USE DEF IInv
<1>u. ASSUME UNCHANGED rows PROVE Kept
  BY <1>u DEF rows, Kept
<1>1. ASSUME NEW c \in Call, NEW s, operation' = [operation EXCEPT ![c] = s], ~Settled(c),
             UNCHANGED <<receipt, outcome>>
      PROVE  Kept
  BY <1>1 DEF Kept, Settled, TypeOK
<1>2. ASSUME NEW h \in Host, NEW c \in Call, Begin(h, c) PROVE Kept
  BY <1>2, SMT DEF Begin, Refused, rows, Prepare, Kept, Settled, Final, TypeOK
<1>3. ASSUME NEW h \in Host, NEW c \in Call, Settle(h, c) PROVE Kept
  BY <1>u, <1>3, SMT DEF Settle, Refused, Kept, Settled, Final, TypeOK
<1>4. ASSUME NEW h \in Host, NEW c \in Call, Claim(h, c) PROVE Kept
  <2>1. Claimable(c) => ~Settled(c)
    BY DEF Claimable, Rows, Settled, Final
  <2> QED
    BY <1>u, <1>1, <1>4, <2>1 DEF Claim, CancelIntent, Refused
<1>5. ASSUME NEW c \in Call, NEW s, WriteReceipt(c, s) PROVE Kept
  BY <1>5 DEF WriteReceipt, Kept, TypeOK
<1>6. ASSUME NEW c \in Call, Complete(c) PROVE Kept
  BY <1>6, SMT DEF Complete, Kept, Settled, TypeOK
<1>7. ASSUME NEW h \in Host, NEW c \in Call, CloseCall(h, c) PROVE Kept
  BY <1>u, <1>1, <1>7 DEF CloseCall, CancelIntent, rows
<1>8. ASSUME NEW c \in Call, Finalize(c) PROVE Kept
  BY <1>8, SMT DEF Finalize, First, Kept, TypeOK
<1> QED
  BY <1>u, <1>2, <1>3, <1>4, <1>5, <1>6, <1>7, <1>8
     DEF Next, vars, rows, Dispatch, Scan, Run, Execute, CallOut, Observe, Record, Reconcile, Refused, Open,
         ScanRead, ScanRecord, Converge, Start, Crash, TakeOver, Proceed, Handoff, Leave, CancelActive,
         Lapse, Interrupt

\* Receipts, settled Operations and results are written once.
THEOREM NothingIsRewritten == Spec => SettledOnce
<1>1. IInv /\ [Next]_vars => [Kept]_vars
  BY KeptStep
<1>2. [Kept]_vars => [\A c \in Call : /\ receipt[c] # "none" => receipt'[c] = receipt[c]
                                      /\ Settled(c) => operation'[c] = operation[c]
                                      /\ outcome[c] # "none" => outcome'[c] = outcome[c]]_vars
  BY DEF Kept
<1> QED
  BY Invariance, <1>1, <1>2, PTL DEF Spec, SettledOnce
=============================================================================

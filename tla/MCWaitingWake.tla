---------------------------- MODULE MCWaitingWake ----------------------------
(* Two Turns of one runner, with the bounds of the behaviours TLC explores.     *)
EXTENDS WaitingWake, TLC

CONSTANTS t1, t2

\* Two Turns of which one changes, with a poll that fails; one Turn whose polls
\* and slots fail; one Turn whose resumes are lost; two Turns and a slot that throws
MCBounds ==
    {[turns |-> {t1, t2}, facts |-> (t1 :> 1 @@ t2 :> 0), version |-> 1,
      polls |-> 1, slots |-> 0, lostResume |-> FALSE],
     [turns |-> {t1}, facts |-> (t1 :> 1 @@ t2 :> 0), version |-> 1,
      polls |-> 1, slots |-> 1, lostResume |-> FALSE],
     [turns |-> {t1}, facts |-> (t1 :> 2 @@ t2 :> 0), version |-> 2,
      polls |-> 0, slots |-> 0, lostResume |-> TRUE],
     [turns |-> {t1, t2}, facts |-> (t1 :> 1 @@ t2 :> 0), version |-> 1,
      polls |-> 0, slots |-> 1, lostResume |-> FALSE]}
=============================================================================

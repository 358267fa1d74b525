----------------------------- MODULE ModelAnswer -----------------------------
(* What a model request promises to the Turn that made it: it asks a provider  *)
(* at most MaxRetries + 1 times, one attempt after the other, and is settled    *)
(* once, by the answer of the attempt it was at, by a failure or by a          *)
(* cancellation.                                                               *)
EXTENDS Naturals

CONSTANT MaxRetries                 \* of the frozen retry policy

VARIABLES tries,                    \* attempts made so far
          outcome,                  \* how the request was settled, "none" while open
          speaker                   \* the attempt whose answer it holds, 0 without one
answerVars == <<tries, outcome, speaker>>

Outcome == {"none", "completed", "failed", "cancelled"}

AnswerInit == tries = 1 /\ outcome = "none" /\ speaker = 0

TryAgain ==
    /\ outcome = "none"
    /\ tries <= MaxRetries
    /\ tries' = tries + 1
    /\ UNCHANGED <<outcome, speaker>>

Answered ==
    /\ outcome = "none"
    /\ outcome' = "completed"
    /\ speaker' = tries
    /\ UNCHANGED tries

GivenUp ==
    /\ outcome = "none"
    /\ outcome' \in {"failed", "cancelled"}
    /\ UNCHANGED <<tries, speaker>>

AnswerNext == TryAgain \/ Answered \/ GivenUp
AnswerSpec == AnswerInit /\ [][AnswerNext]_answerVars
=============================================================================

------------------------- MODULE ConversationTurns -------------------------
(***************************************************************************)
(* What the conversation runtime promises of its Turns, whatever hosts,    *)
(* leases, clocks and receipts are behind it: a conversation runs one Turn *)
(* at a time, each Turn runs at most once and under one executor at a      *)
(* time, and a Turn that was asked to stop ends as interrupted.            *)
(***************************************************************************)
EXTENDS Naturals

CONSTANTS Boot, Turn, ConvOf, Nobody

VARIABLES
    phase,      \* "new", "waiting", "running", "over" or "withdrawn"
    executor,   \* the boot that may act for a running Turn, or Nobody
    tenure,     \* how often executing it was taken up
    stop,       \* somebody asked the Turn to stop
    outcome     \* how it ended

promise == <<phase, executor, tenure, stop, outcome>>

Init ==
    /\ phase = [t \in Turn |-> "new"]
    /\ executor = [t \in Turn |-> Nobody]
    /\ tenure = [t \in Turn |-> 0]
    /\ stop = [t \in Turn |-> FALSE]
    /\ outcome = [t \in Turn |-> "none"]

Idle(t) == \A s \in Turn : ConvOf[s] = ConvOf[t] => phase[s] # "running"

TakeUp(b, t) ==
    /\ executor' = [executor EXCEPT ![t] = b]
    /\ tenure' = [tenure EXCEPT ![t] = tenure[t] + 1]

Queue(t) ==
    /\ phase[t] = "new"
    /\ phase' = [phase EXCEPT ![t] = "waiting"]
    /\ UNCHANGED <<executor, tenure, stop, outcome>>

Withdraw(t) ==
    /\ phase[t] = "waiting"
    /\ phase' = [phase EXCEPT ![t] = "withdrawn"]
    /\ UNCHANGED <<executor, tenure, stop, outcome>>

Start(b, t) ==
    /\ phase[t] \in {"new", "waiting"} /\ Idle(t)
    /\ phase' = [phase EXCEPT ![t] = "running"]
    /\ TakeUp(b, t)
    /\ UNCHANGED <<stop, outcome>>

TakeOver(b, t) ==
    /\ phase[t] = "running"
    /\ TakeUp(b, t)
    /\ UNCHANGED <<phase, stop, outcome>>

AskToStop(t) ==
    /\ phase[t] = "running"
    /\ stop' = [stop EXCEPT ![t] = TRUE]
    /\ UNCHANGED <<phase, executor, tenure, outcome>>

End(t, v) ==
    /\ phase[t] = "running"
    /\ stop[t] <=> v = "interrupted"
    /\ phase' = [phase EXCEPT ![t] = "over"]
    /\ executor' = [executor EXCEPT ![t] = Nobody]
    /\ tenure' = [tenure EXCEPT ![t] = 0]
    /\ outcome' = [outcome EXCEPT ![t] = v]
    /\ UNCHANGED stop

Next ==
    \E t \in Turn :
       \/ Queue(t) \/ Withdraw(t) \/ AskToStop(t)
       \/ \E b \in Boot : Start(b, t) \/ TakeOver(b, t)
       \/ \E v \in {"completed", "failed", "interrupted"} : End(t, v)

Spec == Init /\ [][Next]_promise
============================================================================

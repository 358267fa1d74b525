------------------------ MODULE RuntimeDeliveryProofs ------------------------
(* What RuntimeDelivery promises for any number of hosts, Turns and results,    *)
(* errors, time-outs and exits.  A delivery moves in a few ways only, whoever   *)
(* moves it (Move), and a Turn or its fence never moves past a result it was    *)
(* given; the rest is what the scans may still believe of the rows they read.   *)
EXTENDS RuntimeDelivery, TLAPS

-----------------------------------------------------------------------------
(* The invariant *)

TurnState == {"absent", "queued", "active", "completed", "stopped", "failed"}
Over      == {"completed", "stopped", "failed"}
SomeState == {"pending", "consumed", "failed"}
RowOf     == [state: {"none", "pending", "claimed", "done", "dead"},
              fails: 0 .. MaxFailures, expired: BOOLEAN]

\* The scan of a host, with what each of its stages carries
Plain    == [at: {"read", "act", "done", "retry"}, box: Box, item: Item, valid: BOOLEAN]
Deciding == [at: {"create", "retarget", "act"}, box: Box, item: Item, valid: BOOLEAN,
             evidence: TurnState \X BOOLEAN, delivery: Delivery \cup {NoDelivery}, to: Delivery]
Waking   == [at: {"wake", "done"}, box: {"dispatch"}, item: Item, valid: BOOLEAN, saw: SomeState]
Calling  == [at: {"call"}, box: {"wake"}, item: Item, valid: BOOLEAN,
             action: {"notify", "resume", "continue"}]
ScanOf   == {Idle} \cup Plain \cup Deciding \cup Waking \cup Calling

Typed == /\ TypeOK /\ scan \in [Host -> ScanOf]
         /\ \A h \in Host : offer[h] # NoOffer => offer[h].turn \in Turn

Ran(t)    == turn[t] \notin {"absent", "queued"}
Exists(d) == delivery[d].state # "none"

\* Only an active Turn is executed, and only such a Turn gets a fence
TurnsRun ==
    /\ \A t \in Turn : exec[t] # "none" => turn[t] = "active"
    /\ \A t \in fence : Ran(t)

\* An input belongs to a consumed delivery; a delivery that is still pending has a
\* target only if it was routed to its own source
Filed ==
    \A d \in Item :
       /\ link[d] # "none" => delivery[d].state = "consumed" /\ delivery[d].target \in Turn
       /\ delivery[d].phase = "current_turn" => delivery[d].target = Source[d]
       /\ delivery[d].target # NoTurn =>
             delivery[d].phase = "current_turn" \/ delivery[d].state = "consumed"
       /\ delivery[d].phase = "notify_only" => delivery[d].target = NoTurn
       /\ row["wake"][d] # NoRow => Exists(d)

\* The host whose claim on the row still counts
Holds(h, b, d) == scan[h] # Idle /\ scan[h].box = b /\ scan[h].item = d /\ scan[h].valid

Claimed ==
    /\ \A h \in Host, b \in Box, d \in Item : Holds(h, b, d) => row[b][d].state = "claimed"
    /\ \A g, h \in Host, b \in Box, d \in Item : Holds(g, b, d) /\ Holds(h, b, d) => g = h

FailuresLeft ==
    \A b \in Box, d \in Item : row[b][d].state # "dead" => row[b][d].fails < MaxFailures

\* The decision a scan carries is the one for the evidence it carries
PhaseOn(d, e) ==
    CASE e[1] = "active" -> IF e[2] THEN "next_turn" ELSE "current_turn"
      [] e[1] = "completed" -> "next_turn"
      [] e[1] = "stopped" /\ d \in Answer -> "next_turn"
      [] OTHER -> "notify_only"

RouteOn(d, e) == [phase |-> PhaseOn(d, e), state |-> "pending",
                  target |-> IF PhaseOn(d, e) = "current_turn" THEN Source[d] ELSE NoTurn]

Looks ==
    \A h \in Host : scan[h] # Idle =>
       /\ scan[h].box = "dispatch" => Ran(Source[scan[h].item])
       /\ scan[h].box = "wake" \/ At(h, "wake") => Exists(scan[h].item)
       /\ At(h, "create") \/ At(h, "retarget") =>
             scan[h].to = RouteOn(scan[h].item, scan[h].evidence)
       /\ At(h, "act") \/ At(h, "call") => scan[h].box = "wake"
       /\ At(h, "create") => scan[h].delivery = NoDelivery /\ scan[h].box = "dispatch"
       /\ At(h, "retarget") => scan[h].delivery.state = "pending" /\ scan[h].box = "wake"

\* Routes only move on: from the current Turn to the next one to a notification
Ranked ==
    \A d \in Item :
       /\ d \in inbox \/ row["dispatch"][d] # NoRow \/ Exists(d) => Ran(Source[d])
       /\ delivery[d].phase = "next_turn" => PhaseFor(d) # "current_turn"
       /\ delivery[d].phase = "notify_only" => PhaseFor(d) = "notify_only"

IInv == /\ Typed /\ TurnsRun /\ Filed /\ Claimed /\ FailuresLeft /\ Looks /\ Ranked
        /\ FinalIsFinal /\ NothingUnread /\ NoDeadWait

-----------------------------------------------------------------------------
(* Routes *)

\* A new route is a function of the evidence
LEMMA Routes ==
    ASSUME Typed, NEW d \in Item
    PROVE  /\ Routed(d) \in Delivery /\ Routed(d).state = "pending"
           /\ Routed(d).phase = PhaseFor(d)
           /\ Routed(d).target = IF PhaseFor(d) = "current_turn" THEN Source[d] ELSE NoTurn
           /\ Routed(d) = RouteOn(d, Evidence(d))
           /\ Evidence(d) \in TurnState \X BOOLEAN
<1>1. /\ turn[Source[d]] \in TurnState /\ Source[d] \in Turn
      /\ Evidence(d)[1] = turn[Source[d]] /\ Evidence(d)[2] = (Source[d] \in fence)
  BY ItemAssumption DEF Typed, TypeOK, TurnState, Evidence
<1>2. PhaseFor(d) = PhaseOn(d, Evidence(d)) /\ PhaseFor(d) \in Phase
  BY <1>1 DEF PhaseFor, PhaseOn, Phase
<1>3. Routed(d) = RouteOn(d, Evidence(d))
  BY <1>2 DEF Routed, RouteOn
<1>4. Routed(d) \in Delivery
  BY <1>1, <1>2 DEF Routed, Delivery
<1>5. Evidence(d) \in TurnState \X BOOLEAN
  <2>1. (Source[d] \in fence) \in BOOLEAN
    OBVIOUS
  <2> QED  BY <1>1, <2>1, Zenon DEF Evidence
<1> QED  BY <1>3, <1>4, <1>5 DEF Routed

\* A route that is written under unchanged evidence is the route of now
LEMMA RouteHolds ==
    ASSUME IInv, NEW h \in Host, At(h, "create") \/ At(h, "retarget"), NEW d, d = scan[h].item,
           Unchanged(h, d)
    PROVE  /\ d \in Item /\ scan[h].to = Routed(d)
           /\ delivery[d].state = "none" \/ delivery[d].state = "pending"
           /\ delivery[d].state = "none" => Ran(Source[d])
           /\ scan[h].box = "wake" => delivery[d].state = "pending"
<1>1. scan[h] # Idle /\ scan[h].item \in Item
  BY DEF IInv, Typed, TypeOK, At, Idle
<1>2. scan[h].to = RouteOn(d, scan[h].evidence) /\ scan[h].evidence = Evidence(d)
  BY <1>1 DEF IInv, Looks, Unchanged
<1>3. scan[h].to = Routed(d)
  BY <1>1, <1>2, Routes DEF IInv
<1> QED  BY <1>1, <1>3 DEF IInv, Looks, Unchanged, At, NoDelivery

-----------------------------------------------------------------------------
(* The scan of a host *)

LEMMA ScanFields ==
    ASSUME NEW r \in ScanOf, r # Idle
    PROVE  /\ r.box \in Box /\ r.item \in Item /\ r.valid \in BOOLEAN
           /\ r.at \in {"read", "create", "wake", "retarget", "act", "call", "done", "retry"}
           /\ r.at = "wake" => r.box = "dispatch" /\ r.saw \in SomeState
           /\ r.at = "call" => r.box = "wake" /\ r.action \in {"notify", "resume", "continue"}
           /\ r.at \in {"create", "retarget"} =>
                 /\ r.evidence \in TurnState \X BOOLEAN /\ r.to \in Delivery
                 /\ r.delivery \in Delivery \cup {NoDelivery}
BY DEF ScanOf, Plain, Deciding, Waking, Calling, Box

\* The next stage, where the scan carries what it had
LEMMA NextStage ==
    ASSUME NEW r \in ScanOf, NEW stage,
           \/ r.at \in {"read", "retarget"} /\ stage = "act"
           \/ r.at = "wake" /\ stage = "done"
    PROVE  LET q == [r EXCEPT !.at = stage] IN
           /\ q \in ScanOf /\ q # Idle /\ r # Idle /\ q.at = stage
           /\ q.box = r.box /\ q.item = r.item /\ q.valid = r.valid
<1> DEFINE q == [r EXCEPT !.at = stage]
<1>0. r # Idle
  BY DEF Idle
<1>1. CASE r \in Plain
  BY <1>1 DEF Plain, ScanOf, Idle
<1>2. CASE r \in Deciding
  BY <1>2 DEF Deciding, ScanOf, Idle
<1>3. CASE r \in Waking
  BY <1>3 DEF Waking, ScanOf, Idle
<1>4. CASE r \in Calling
  BY <1>4 DEF Calling
<1> QED  BY <1>0, <1>1, <1>2, <1>3, <1>4 DEF ScanOf

\* A lost claim changes nothing of what the scan believes
LEMMA LosesClaim ==
    ASSUME NEW r \in ScanOf, r # Idle
    PROVE  LET q == [r EXCEPT !.valid = FALSE] IN
           /\ q \in ScanOf /\ q # Idle /\ q.valid = FALSE
           /\ q.at = r.at /\ q.box = r.box /\ q.item = r.item
           /\ r.at \in {"create", "retarget"} =>
                 q.to = r.to /\ q.evidence = r.evidence /\ q.delivery = r.delivery
           /\ r.at = "call" => q.action = r.action
           /\ r.at = "wake" => q.saw = r.saw
<1>1. CASE r \in Plain
  BY <1>1 DEF Plain, ScanOf, Idle
<1>2. CASE r \in Deciding
  BY <1>2 DEF Deciding, ScanOf, Idle
<1>3. CASE r \in Waking
  BY <1>3 DEF Waking, ScanOf, Idle
<1>4. CASE r \in Calling
  BY <1>4 DEF Calling, ScanOf, Idle
<1> QED  BY <1>1, <1>2, <1>3, <1>4 DEF ScanOf

-----------------------------------------------------------------------------
(* What may happen to a delivery and its input *)

Same(d)  == delivery'[d].phase = delivery[d].phase /\ delivery'[d].target = delivery[d].target

Kept(d)  == delivery'[d] = delivery[d] /\ link'[d] = link[d]

RoutedTo(d) ==
    /\ \/ delivery[d].state = "none" /\ Ran(Source[d])
       \/ delivery[d].state = "pending"
    /\ delivery'[d] = Routed(d) /\ link'[d] = link[d] /\ UNCHANGED <<turn, fence>>

Injected(d) ==
    /\ delivery[d].state = "pending" /\ delivery[d].phase = "current_turn" /\ Open(Source[d])
    /\ delivery'[d].state = "consumed" /\ Same(d) /\ link'[d] = "pending"
    /\ UNCHANGED <<turn, fence>>

Joined(d) ==
    /\ d \in Waiting /\ delivery'[d].target \in Queued
    /\ delivery'[d].state = "consumed" /\ delivery'[d].phase = "next_turn"
    /\ turn'[delivery'[d].target] = "active" /\ link'[d] = "pending" /\ fence' = fence

Shown(d) ==
    /\ delivery[d].state = "pending" /\ delivery[d].phase = "notify_only"
    /\ delivery'[d].state = "consumed" /\ Same(d) /\ link'[d] = link[d]

GivenUp(d) ==
    /\ delivery[d].state = "pending" /\ delivery'[d].state = "failed" /\ Same(d)
    /\ link'[d] = link[d] /\ UNCHANGED <<turn, fence>>

Absorbed(d) ==
    /\ link[d] = "pending" /\ link'[d] = "handled" /\ delivery'[d] = delivery[d]
    /\ UNCHANGED <<turn, fence>>

Move(d) ==
    \/ Kept(d) \/ RoutedTo(d) \/ Injected(d) \/ Joined(d)
    \/ Shown(d) \/ GivenUp(d) \/ Absorbed(d)

\* A Turn ends with nothing left to handle; its fence closes with nothing left to come
TurnMove(t) ==
    \/ turn'[t] = turn[t]
    \/ turn[t] = "absent" /\ turn'[t] = "queued"
    \/ turn[t] = "queued" /\ turn'[t] = "active"
    \/ turn[t] = "active" /\ turn'[t] \in Over /\ Inputs(t) = {} /\ UNCHANGED <<delivery, link>>

FenceMove ==
    \/ fence' = fence
    \/ \E t \in Turn : /\ fence' = fence \cup {t} /\ turn[t] = "active" /\ NothingPending(t)
                       /\ UNCHANGED <<turn, delivery, link>>

\* What an outbox row may become
RowMove(b, d) ==
    /\ row'[b][d] # NoRow =>
          row[b][d] # NoRow \/ (IF b = "wake" THEN Exists(d) ELSE Ran(Source[d]))
    /\ row'[b][d].state # "dead" => row'[b][d].fails < MaxFailures
    /\ b = "wake" /\ row'[b][d].state = "dead" =>
          row[b][d].state = "dead" \/ (delivery'[d].state # "pending" /\ Exists(d))

\* failClaim and deadLetterClaim: the row of a valid claim is freed or dead, and a dead
\* wake takes its delivery with it
LEMMA Failing ==
    ASSUME Typed, Claimed, FailuresLeft, NEW h \in Host, scan[h] # Idle, FailClaim(h)
    PROVE  /\ scan' = [scan EXCEPT ![h] = Idle]
           /\ row' \in [Box -> [Item -> RowOf]]
           /\ delivery' \in [Item -> Delivery \cup {NoDelivery}]
           /\ \A d \in Item : \/ delivery'[d] = delivery[d]
                              \/ /\ delivery[d].state = "pending" /\ delivery'[d].state = "failed"
                                 /\ Same(d)
           /\ \A b \in Box, d \in Item :
                 \/ row'[b][d] = row[b][d]
                 \/ /\ Holds(h, b, d) /\ row'[b][d].state \in {"pending", "dead"}
                    /\ row'[b][d].state # "dead" => row'[b][d].fails < MaxFailures
                    /\ b = "wake" /\ row'[b][d].state = "dead" => delivery'[d].state # "pending"
<1> DEFINE b0 == scan[h].box
           d0 == scan[h].item
           n  == row[b0][d0].fails + 1
<1>0. /\ row \in [Box -> [Item -> RowOf]] /\ delivery \in [Item -> Delivery \cup {NoDelivery}]
      /\ scan[h] \in ScanOf /\ MaxFailures \in Nat \ {0}
  BY ItemAssumption DEF Typed, TypeOK, RowOf
<1>1. b0 \in Box /\ d0 \in Item /\ scan[h].valid \in BOOLEAN
  BY <1>0, ScanFields
<1>2. scan' = [scan EXCEPT ![h] = Idle]
  BY DEF FailClaim
<1>3. CASE ~scan[h].valid
  BY <1>0, <1>2, <1>3 DEF FailClaim
<1>4. CASE scan[h].valid
  <2>1. Holds(h, b0, d0) /\ row[b0][d0].state = "claimed"
    BY <1>1, <1>4 DEF Holds, Claimed
  <2>2. row[b0][d0].fails < MaxFailures /\ row[b0][d0].fails \in 0 .. MaxFailures
    BY <1>0, <1>1, <2>1 DEF FailuresLeft, RowOf
  <2>3. n \in 0 .. MaxFailures /\ (~Exhausted(n) => n < MaxFailures)
    <3>1. \A f \in 0 .. MaxFailures : f < MaxFailures =>
             f + 1 \in 0 .. MaxFailures /\ (f + 1 # MaxFailures => f + 1 < MaxFailures)
      BY <1>0
    <3> QED  BY <2>2, <3>1 DEF Exhausted
  <2> DEFINE new == [state |-> IF Exhausted(n) THEN "dead" ELSE "pending",
                     fails |-> n, expired |-> FALSE]
  <2>4. row' = [row EXCEPT ![b0][d0] = new]
    BY <1>4 DEF FailClaim
  <2>5. new \in RowOf /\ new.state \in {"pending", "dead"}
        /\ (new.state # "dead" => new.fails < MaxFailures)
        /\ (new.state = "dead" <=> Exhausted(n))
    BY <2>3 DEF RowOf
  <2>6. CASE b0 = "wake" /\ Exhausted(n)
    <3>1. delivery' = [delivery EXCEPT ![d0].state = IF @ = "pending" THEN "failed" ELSE @]
      BY <1>4, <2>6 DEF FailClaim, DeadLetter
    <3>2. delivery[d0] \in Delivery \cup {NoDelivery}
      BY <1>0, <1>1
    <3>3. /\ delivery'[d0] \in Delivery \cup {NoDelivery} /\ delivery'[d0].state # "pending"
          /\ \/ delivery'[d0] = delivery[d0]
             \/ delivery[d0].state = "pending" /\ delivery'[d0].state = "failed" /\ Same(d0)
      <4>1. CASE delivery[d0] \in Delivery
        BY <1>0, <1>1, <3>1, <4>1 DEF Delivery, Same
      <4>2. CASE delivery[d0] = NoDelivery
        BY <1>0, <1>1, <3>1, <4>2 DEF NoDelivery
      <4> QED  BY <3>2, <4>1, <4>2
    <3>4. \A d \in Item \ {d0} : delivery'[d] = delivery[d]
      BY <1>0, <3>1
    <3>5. delivery' \in [Item -> Delivery \cup {NoDelivery}]
      BY <1>0, <1>1, <3>1, <3>3
    <3> QED  BY <1>0, <1>1, <1>2, <2>1, <2>4, <2>5, <3>3, <3>4, <3>5
  <2>7. CASE ~(b0 = "wake" /\ Exhausted(n))
    <3>1. delivery' = delivery
      BY <1>4, <2>7 DEF FailClaim
    <3> QED  BY <1>0, <1>1, <1>2, <2>1, <2>4, <2>5, <2>7, <3>1
  <2> QED  BY <2>6, <2>7
<1> QED  BY <1>1, <1>3, <1>4

-----------------------------------------------------------------------------
(* The types *)

TypedLife  == /\ turn \in [Turn -> TurnState] /\ fence \subseteq Turn /\ stopping \subseteq Turn
              /\ exec \in [Turn -> {"none", "round", "final", "settling", "crossed", "again",
                                    "gone", "fenced", "failing"}]
              /\ seen \subseteq Item
TypedRows  == /\ inbox \subseteq Item /\ superseded \subseteq Answer
              /\ delivery \in [Item -> Delivery \cup {NoDelivery}]
              /\ link \in [Item -> {"none", "pending", "handled"}]
              /\ row \in [Box -> [Item -> RowOf]]
TypedHosts == /\ scan \in [Host -> ScanOf]
              /\ late \in [Host -> SUBSET (Item \X {"notify", "resume", "continue"})]
              /\ offer \in [Host -> [turn: Turn \cup {NoTurn}, items: SUBSET Item]]
              /\ \A h \in Host : offer[h] # NoOffer => offer[h].turn \in Turn
              /\ spent \in [throws: Nat, exits: Nat]

LEMMA TypedParts == Typed <=> TypedLife /\ TypedRows /\ TypedHosts
<1>1. Typed => TypedLife /\ TypedRows /\ TypedHosts
  BY DEF Typed, TypeOK, TypedLife, TypedRows, TypedHosts, TurnState, RowOf
<1>2. TypedHosts => \A h \in Host :
          \/ scan[h] = Idle
          \/ /\ scan[h].at \in {"read", "create", "wake", "retarget", "act", "call", "done", "retry"}
             /\ scan[h].box \in Box /\ scan[h].item \in Item /\ scan[h].valid \in BOOLEAN
  BY ScanFields DEF TypedHosts
<1>3. TypedLife /\ TypedRows /\ TypedHosts => Typed
  BY <1>2 DEF Typed, TypeOK, TypedLife, TypedRows, TypedHosts, TurnState, RowOf
<1> QED  BY <1>1, <1>3

LEMMA TypedLater == Typed' <=> TypedLife' /\ TypedRows' /\ TypedHosts'
BY TypedParts, PTL

\* The rows an outbox is written
LEMMA RowsWritten ==
    /\ 0 \in 0 .. MaxFailures /\ 0 < MaxFailures
    /\ NoRow \in RowOf /\ Ready \in RowOf /\ [Ready EXCEPT !.state = "dead"] \in RowOf
    /\ \A r \in RowOf :
          /\ [r EXCEPT !.expired = TRUE] \in RowOf
          /\ \A s \in {"pending", "done", "dead"} : [r EXCEPT !.state = s] \in RowOf
          /\ \A s \in {"pending", "claimed"} : [r EXCEPT !.state = s, !.expired = FALSE] \in RowOf
<1>1. 0 \in 0 .. MaxFailures /\ 0 < MaxFailures
  BY ItemAssumption
<1>2. NoRow \in RowOf
  BY <1>1 DEF NoRow, RowOf
<1>3. Ready \in RowOf
  BY <1>1 DEF Ready, NoRow, RowOf
<1>4. [Ready EXCEPT !.state = "dead"] \in RowOf
  BY <1>3 DEF RowOf
<1>5. ASSUME NEW r \in RowOf
      PROVE  [r EXCEPT !.expired = TRUE] \in RowOf
  BY <1>5 DEF RowOf
<1>6. ASSUME NEW r \in RowOf, NEW s \in {"pending", "claimed", "done", "dead"}
      PROVE  /\ [r EXCEPT !.state = s] \in RowOf
             /\ [r EXCEPT !.state = s, !.expired = FALSE] \in RowOf
  BY <1>6 DEF RowOf
<1> QED  BY <1>1, <1>2, <1>3, <1>4, <1>5, <1>6

LEMMA TypedByTurns ==
    ASSUME Typed, NEW t \in Turn,
           \/ Interrupt(t) \/ Submit(t) \/ Round(t) \/ Settle(t) \/ EstablishFence(t)
           \/ Break(t) \/ LoseCrossing(t) \/ Ends(t)
    PROVE  Typed'
<1>0. TypedLife /\ TypedRows /\ TypedHosts
  BY TypedParts
<1>1. UNCHANGED <<rows, scan, late, offer, spent>>
  BY DEF Interrupt, Submit, Round, Settle, EstablishFence, Break, LoseCrossing,
         Ends, Complete, HandOff, Stop, Fail, EndAs, rows
<1>2. TypedRows' /\ TypedHosts'
  BY <1>0, <1>1 DEF TypedRows, TypedHosts, rows
<1>3. TypedLife'
  <2>1. CASE Interrupt(t)
    BY <1>0, <2>1 DEF Interrupt, TypedLife
  <2>2. CASE Submit(t)
    BY <1>0, <2>2 DEF Submit, TypedLife, TurnState
  <2>3. CASE Round(t)
    BY <1>0, <2>3 DEF Round, TypedLife
  <2>4. CASE Settle(t)
    BY <1>0, <2>4 DEF Settle, TypedLife
  <2>5. CASE EstablishFence(t)
    BY <1>0, <2>5 DEF EstablishFence, TypedLife
  <2>6. CASE Break(t)
    BY <1>0, <2>6 DEF Break, TypedLife
  <2>7. CASE LoseCrossing(t)
    BY <1>0, <2>7 DEF LoseCrossing, TypedLife
  <2>8. CASE Ends(t)
    BY <1>0, <2>8 DEF Ends, Complete, HandOff, Stop, Fail, EndAs, TypedLife, TurnState
  <2> QED  BY <2>1, <2>2, <2>3, <2>4, <2>5, <2>6, <2>7, <2>8
<1> QED  BY <1>2, <1>3, TypedLater

\* What an injection writes
LEMMA Injecting ==
    ASSUME Typed, Filed, NEW d \in Item, delivery[d].state = "pending",
           delivery[d].phase = "current_turn", InjectOrRetarget(d)
    PROVE  /\ delivery' \in [Item -> Delivery \cup {NoDelivery}]
           /\ link' \in [Item -> {"none", "pending", "handled"}]
           /\ \A e \in Item \ {d} : Kept(e)
           /\ \/ /\ Open(Source[d]) /\ delivery'[d].state = "consumed" /\ Same(d)
                 /\ link'[d] = "pending"
              \/ delivery'[d] = Routed(d) /\ link'[d] = link[d]
<1>0. /\ delivery \in [Item -> Delivery \cup {NoDelivery}]
      /\ link \in [Item -> {"none", "pending", "handled"}]
      /\ delivery[d].target = Source[d] /\ Source[d] \in Turn
  BY ItemAssumption DEF Typed, TypeOK, Filed
<1>1. delivery[d] \in Delivery
  BY <1>0 DEF NoDelivery
<1>2. CASE Open(Source[d])
  <2>1. /\ delivery' = [delivery EXCEPT ![d].state = "consumed", ![d].target = Source[d]]
        /\ link' = [link EXCEPT ![d] = "pending"]
    BY <1>0, <1>2 DEF InjectOrRetarget, Inject
  <2>2. delivery'[d] \in Delivery /\ delivery'[d].state = "consumed" /\ Same(d)
    BY <1>0, <1>1, <2>1 DEF Delivery, Same
  <2>3. \A e \in Item \ {d} : Kept(e)
    BY <1>0, <2>1 DEF Kept
  <2>4. delivery' \in [Item -> Delivery \cup {NoDelivery}]
    BY <1>0, <2>1, <2>2
  <2> QED  BY <1>0, <1>2, <2>1, <2>2, <2>3, <2>4
<1>3. CASE ~Open(Source[d])
  <2>1. delivery' = [delivery EXCEPT ![d] = Routed(d)] /\ link' = link
    BY <1>0, <1>3 DEF InjectOrRetarget
  <2>2. Routed(d) \in Delivery
    BY Routes
  <2> QED  BY <1>0, <2>1, <2>2 DEF Kept
<1> QED  BY <1>2, <1>3

LEMMA TypedByRows ==
    ASSUME IInv, NEW d \in Item,
           \/ Arise(d) \/ RouteAnswer(d) \/ Supersede(d) \/ Advance(d) \/ Handle(d)
           \/ EnsureWake(d) \/ (\E b \in Box : Expire(b, d))
    PROVE  Typed'
<1>0. TypedLife /\ TypedRows /\ TypedHosts /\ Typed
  BY TypedParts DEF IInv
<1>1. UNCHANGED <<turn, fence, stopping, seen, scan, late, offer, spent>>
  BY DEF Arise, RouteAnswer, Supersede, Advance, Handle, EnsureWake, Expire, life
<1>2. TypedHosts'
  BY <1>0, <1>1 DEF TypedHosts
<1>3. TypedLife'
  <2>1. exec' = exec \/ Handle(d)
    BY DEF Arise, RouteAnswer, Supersede, Advance, Handle, EnsureWake, Expire, life
  <2>2. CASE exec' = exec
    BY <1>0, <1>1, <2>2 DEF TypedLife
  <2>3. CASE Handle(d)
    BY <1>0, <1>1, <2>3 DEF TypedLife, Handle, AskAgain
  <2> QED  BY <2>1, <2>2, <2>3
<1>4. Ready \in RowOf
  BY RowsWritten
<1>5. TypedRows'
  <2>1. CASE Arise(d)
    BY <1>0, <1>4, <2>1 DEF Arise, TypedRows, Box
  <2>2. CASE RouteAnswer(d)
    BY <1>0, <2>2, Routes DEF RouteAnswer, TypedRows
  <2>3. CASE Supersede(d)
    BY <1>0, <2>3 DEF Supersede, TypedRows
  <2>4. CASE Advance(d)
    <3>1. /\ delivery' \in [Item -> Delivery \cup {NoDelivery}]
          /\ link' \in [Item -> {"none", "pending", "handled"}]
      BY <1>0, <2>4, Injecting DEF Advance, IInv
    <3> QED  BY <1>0, <2>4, <3>1 DEF Advance, TypedRows
  <2>5. CASE Handle(d)
    BY <1>0, <2>5 DEF Handle, TypedRows
  <2>6. CASE EnsureWake(d)
    BY <1>0, <1>4, <2>6 DEF EnsureWake, TypedRows, Box
  <2>7. ASSUME NEW b \in Box, Expire(b, d)
        PROVE  TypedRows'
    <3>1. [row[b][d] EXCEPT !.expired = TRUE] \in RowOf
      BY <1>0, RowsWritten DEF TypedRows
    <3>2. row' = [row EXCEPT ![b][d] = [row[b][d] EXCEPT !.expired = TRUE]]
      BY <1>0, <2>7 DEF Expire, TypedRows
    <3> QED  BY <1>0, <2>7, <3>1, <3>2 DEF Expire, TypedRows
  <2> QED  BY <2>1, <2>2, <2>3, <2>4, <2>5, <2>6, <2>7
<1> QED  BY <1>2, <1>3, <1>5, TypedLater

\* What a scan takes with it from a read
LEMMA SeenTyped ==
    ASSUME Typed, NEW h \in Host, scan[h] # Idle, NEW d, d = scan[h].item,
           NEW stage \in {"create", "retarget"}
    PROVE  LET q == Seen(h, stage, d) IN
           /\ d \in Item /\ q \in ScanOf /\ q # Idle /\ q.at = stage
           /\ q.box = scan[h].box /\ q.item = d /\ q.valid = scan[h].valid
           /\ q.to = RouteOn(d, q.evidence) /\ q.delivery = delivery[d]
<1>1. scan[h] \in ScanOf /\ delivery \in [Item -> Delivery \cup {NoDelivery}]
  BY DEF Typed, TypeOK
<1>2. d \in Item /\ scan[h].box \in Box /\ scan[h].valid \in BOOLEAN
  BY <1>1, ScanFields
<1>3. /\ Evidence(d) \in TurnState \X BOOLEAN /\ Routed(d) \in Delivery
      /\ Routed(d) = RouteOn(d, Evidence(d))
  BY <1>2, Routes
<1>4. Seen(h, stage, d) \in Deciding
  BY <1>1, <1>2, <1>3 DEF Seen, Deciding
<1> QED  BY <1>2, <1>3, <1>4 DEF Seen, ScanOf, Idle

LEMMA ToWakeTyped ==
    ASSUME Typed, NEW h \in Host, scan[h] # Idle, NEW state \in SomeState
    PROVE  LET q == ToWake(h, state) IN
           /\ q \in ScanOf /\ q # Idle /\ q.at = "wake" /\ q.box = "dispatch"
           /\ q.item = scan[h].item /\ q.valid = scan[h].valid
<1>1. scan[h].item \in Item /\ scan[h].valid \in BOOLEAN
  BY ScanFields DEF Typed
<1>2. ToWake(h, state) \in Waking
  BY <1>1 DEF ToWake, Waking
<1> QED  BY <1>2 DEF ToWake, ScanOf, Idle

\* A delivery that exists has a state
LEMMA States ==
    ASSUME Typed, NEW d \in Item
    PROVE  /\ delivery[d] \in Delivery \cup {NoDelivery}
           /\ Exists(d) <=> delivery[d] # NoDelivery
           /\ Exists(d) => /\ delivery[d] \in Delivery /\ delivery[d].state \in SomeState
                           /\ delivery[d].phase \in Phase
BY DEF Typed, TypeOK, Exists, Delivery, NoDelivery, SomeState

\* A scan has claimed, failed to claim, or worked on its row
LEMMA TypedByClaim ==
    ASSUME IInv, NEW h \in Host, NEW b \in Box, NEW d \in Item, Claim(h, b, d) \/ Reclaim(h, b, d)
    PROVE  Typed'
<1>0. TypedLife /\ TypedRows /\ TypedHosts /\ row[b][d] \in RowOf
  BY TypedParts DEF IInv, TypedRows
<1>1. TypedLife'
  BY <1>0 DEF Claim, Reclaim, life, TypedLife
<1>2. CASE Claim(h, b, d)
  <2>1. row' = [row EXCEPT ![b][d] = [row[b][d] EXCEPT !.state = "claimed", !.expired = FALSE]]
    BY <1>0, <1>2 DEF Claim, TypedRows
  <2>2. [row[b][d] EXCEPT !.state = "claimed", !.expired = FALSE] \in RowOf
    BY <1>0, RowsWritten
  <2>3. TypedRows'
    <3>1. row' \in [Box -> [Item -> RowOf]]
      BY <1>0, <2>1, <2>2 DEF TypedRows
    <3>2. UNCHANGED <<inbox, superseded, delivery, link>>
      BY <1>2 DEF Claim
    <3> QED  BY <1>0, <3>1, <3>2 DEF TypedRows
  <2>4. [at |-> "read", box |-> b, item |-> d, valid |-> TRUE] \in ScanOf
    BY DEF ScanOf, Plain
  <2>5. TypedHosts'
    BY <1>0, <1>2, <2>4 DEF Claim, TypedHosts
  <2> QED  BY <1>1, <2>3, <2>5, TypedLater
<1>3. CASE Reclaim(h, b, d)
  <2>1. row' = [row EXCEPT ![b][d] = [row[b][d] EXCEPT !.state = "pending", !.expired = FALSE]]
    BY <1>0, <1>3 DEF Reclaim, TypedRows
  <2>2. [row[b][d] EXCEPT !.state = "pending", !.expired = FALSE] \in RowOf
    BY <1>0, RowsWritten
  <2>3. TypedRows'
    <3>1. row' \in [Box -> [Item -> RowOf]]
      BY <1>0, <2>1, <2>2 DEF TypedRows
    <3>2. UNCHANGED <<inbox, superseded, delivery, link>>
      BY <1>3 DEF Reclaim
    <3> QED  BY <1>0, <3>1, <3>2 DEF TypedRows
  <2>4. ASSUME NEW g \in Host
        PROVE  Fenced(g, b, d) \in ScanOf
    BY <1>0, LosesClaim DEF Fenced, TypedHosts
  <2>5. TypedHosts'
    BY <1>0, <1>3, <2>4 DEF Reclaim, TypedHosts
  <2> QED  BY <1>1, <2>3, <2>5, TypedLater
<1> QED  BY <1>2, <1>3

LEMMA Works ==
    ASSUME Typed, NEW h \in Host, scan[h].at # "idle"
    PROVE  /\ scan[h] # Idle /\ scan[h] \in ScanOf
           /\ scan[h].box \in Box /\ scan[h].item \in Item /\ scan[h].valid \in BOOLEAN
<1>1. scan[h] # Idle /\ scan[h] \in ScanOf
  BY DEF Typed, Idle
<1> QED  BY <1>1, ScanFields

\* One host's scan goes on, and one row and one delivery may change
LEMMA TypedRowsStep ==
    ASSUME Typed, UNCHANGED <<superseded, link>>, inbox' \subseteq Item,
           delivery' \in [Item -> Delivery \cup {NoDelivery}], row' \in [Box -> [Item -> RowOf]]
    PROVE  TypedRows'
BY TypedParts DEF TypedRows

LEMMA ScanUpdate ==
    ASSUME Typed, NEW h \in Host, NEW q \in ScanOf, scan' = [scan EXCEPT ![h] = q]
    PROVE  /\ scan' \in [Host -> ScanOf] /\ scan'[h] = q
           /\ \A g \in Host \ {h} : scan'[g] = scan[g]
BY DEF Typed

\* What the wake handler leaves behind
LEMMA Handling ==
    ASSUME Typed, NEW d \in Item, NEW action, Effect(d, action)
    PROVE  /\ delivery' \in [Item -> Delivery \cup {NoDelivery}] /\ turn' \in [Turn -> TurnState]
           /\ \A e \in Item \ {d} : delivery'[e] = delivery[e]
           /\ \A t \in Turn \ {Continuation[d]} : turn'[t] = turn[t]
           /\ \/ turn'[Continuation[d]] = turn[Continuation[d]]
              \/ /\ turn[Continuation[d]] = "absent" /\ turn'[Continuation[d]] = "queued"
                 /\ action = "continue"
           /\ action = "continue" => turn'[Continuation[d]] # "absent"
           /\ \/ delivery'[d] = delivery[d]
              \/ /\ delivery[d].state = "pending" /\ delivery[d].phase = "notify_only"
                 /\ delivery'[d].state = "consumed" /\ Same(d)
           /\ action = "notify" /\ delivery[d].phase = "notify_only" => delivery'[d].state # "pending"
<1>0. /\ turn \in [Turn -> TurnState] /\ delivery \in [Item -> Delivery \cup {NoDelivery}]
      /\ Continuation[d] \in Turn
  BY ItemAssumption, TypedParts DEF TypedLife, TypedRows
<1>1. /\ turn' \in [Turn -> TurnState]
      /\ \A t \in Turn \ {Continuation[d]} : turn'[t] = turn[t]
      /\ \/ turn'[Continuation[d]] = turn[Continuation[d]]
         \/ /\ turn[Continuation[d]] = "absent" /\ turn'[Continuation[d]] = "queued"
            /\ action = "continue"
      /\ action = "continue" => turn'[Continuation[d]] # "absent"
  BY <1>0 DEF Effect, TurnState
<1>2. CASE action = "notify" /\ delivery[d].phase = "notify_only" /\ delivery[d].state = "pending"
  <2>1. delivery[d] \in Delivery
    BY <1>0, <1>2 DEF NoDelivery
  <2>2. delivery' = [delivery EXCEPT ![d] = [delivery[d] EXCEPT !.state = "consumed"]]
    BY <1>0, <1>2 DEF Effect
  <2>3. /\ [delivery[d] EXCEPT !.state = "consumed"] \in Delivery
        /\ delivery'[d].state = "consumed" /\ Same(d)
    BY <1>0, <2>1, <2>2 DEF Delivery, Same
  <2> QED  BY <1>0, <1>1, <1>2, <2>2, <2>3
<1>3. CASE ~(action = "notify" /\ delivery[d].phase = "notify_only" /\ delivery[d].state = "pending")
  <2>1. delivery' = delivery
    BY <1>3 DEF Effect
  <2> QED  BY <1>0, <1>1, <1>3, <2>1
<1> QED  BY <1>2, <1>3

LEMMA TypedByScan ==
    ASSUME IInv, NEW h \in Host, ScanStep(h) \/ TimeOut(h) \/ Throw(h)
    PROVE  Typed'
<1>0. Typed /\ TypedLife /\ TypedRows /\ TypedHosts /\ Claimed /\ FailuresLeft
  BY TypedParts DEF IInv
<1>1. ASSUME scan[h] # Idle, FailClaim(h)
      PROVE  /\ scan' \in [Host -> ScanOf] /\ row' \in [Box -> [Item -> RowOf]]
             /\ delivery' \in [Item -> Delivery \cup {NoDelivery}]
  <2>1. scan' = [scan EXCEPT ![h] = Idle] /\ Idle \in ScanOf
    BY <1>0, <1>1, Failing DEF ScanOf
  <2> QED  BY <1>0, <1>1, <2>1, Failing DEF Typed
<1>2. ASSUME scan' \in [Host -> ScanOf], row' \in [Box -> [Item -> RowOf]],
             delivery' \in [Item -> Delivery \cup {NoDelivery}], inbox' \subseteq Item,
             UNCHANGED <<life, superseded, link, late, offer, spent>>
      PROVE  Typed'
  BY <1>0, <1>2, TypedLater, TypedRowsStep DEF TypedLife, TypedHosts, life
<1>3. /\ row \in [Box -> [Item -> RowOf]] /\ delivery \in [Item -> Delivery \cup {NoDelivery}]
      /\ inbox \subseteq Item /\ scan \in [Host -> ScanOf]
  BY <1>0 DEF TypedRows, TypedHosts
<1>4. CASE ReadDispatch(h)
  <2> DEFINE d == scan[h].item
  <2>1. scan[h] # Idle /\ d \in Item
    BY <1>0, <1>4, Works DEF ReadDispatch, At
  <2>2. Seen(h, "create", d) \in ScanOf
    BY <1>0, <2>1, SeenTyped
  <2>3. delivery[d] # NoDelivery => ToWake(h, delivery[d].state) \in ScanOf
    BY <1>0, <2>1, ToWakeTyped, States
  <2>4. scan' \in [Host -> ScanOf]
    BY <1>3, <1>4, <2>2, <2>3 DEF ReadDispatch
  <2> QED  BY <1>2, <1>3, <1>4, <2>1, <2>4 DEF ReadDispatch
<1>5. CASE Create(h)
  <2> DEFINE d == scan[h].item
  <2>1. scan[h] # Idle /\ d \in Item
    BY <1>0, <1>5, Works DEF Create, At
  <2>2. delivery[d] # NoDelivery => ToWake(h, delivery[d].state) \in ScanOf
    BY <1>0, <2>1, ToWakeTyped, States
  <2>3. ToWake(h, "pending") \in ScanOf
    BY <1>0, <2>1, ToWakeTyped DEF SomeState
  <2>4. Unchanged(h, d) => scan[h].to \in Delivery
    BY <1>0, <1>3, <1>5, <2>1, ScanFields DEF Create, At
  <2>5. /\ scan' \in [Host -> ScanOf] /\ row' \in [Box -> [Item -> RowOf]]
        /\ delivery' \in [Item -> Delivery \cup {NoDelivery}]
    BY <1>1, <1>3, <1>5, <2>1, <2>2, <2>3, <2>4 DEF Create
  <2> QED  BY <1>2, <1>3, <1>5, <2>5 DEF Create
<1>6. CASE WakeFor(h)
  <2> DEFINE d == scan[h].item
  <2>1. scan[h] # Idle /\ scan[h] \in ScanOf /\ d \in Item
    BY <1>0, <1>6, Works DEF WakeFor, At
  <2>2. Go(h, "done") => scan' \in [Host -> ScanOf]
    <3>1. [scan[h] EXCEPT !.at = "done"] \in ScanOf
      BY <1>6, <2>1, NextStage DEF WakeFor, At
    <3>2. Go(h, "done") => scan' = [scan EXCEPT ![h] = [scan[h] EXCEPT !.at = "done"]]
      BY <1>3 DEF Go
    <3> QED  BY <1>3, <3>1, <3>2
  <2>3. Ready \in RowOf /\ [Ready EXCEPT !.state = "dead"] \in RowOf
    BY RowsWritten
  <2>4. /\ scan' \in [Host -> ScanOf] /\ row' \in [Box -> [Item -> RowOf]]
        /\ delivery' \in [Item -> Delivery \cup {NoDelivery}]
    BY <1>1, <1>3, <1>6, <2>1, <2>2, <2>3 DEF WakeFor
  <2> QED  BY <1>2, <1>3, <1>6, <2>4 DEF WakeFor
<1>7. ASSUME scan[h].at \in {"read", "act"}, Bury(h)
      PROVE  scan' \in [Host -> ScanOf] /\ row' \in [Box -> [Item -> RowOf]]
  <2> DEFINE d == scan[h].item
  <2>1. d \in Item /\ row["wake"][d] \in RowOf /\ "wake" \in Box
    BY <1>0, <1>3, <1>7, Works DEF Box
  <2>2. [row["wake"][d] EXCEPT !.state = "dead"] \in RowOf
    BY <2>1, RowsWritten
  <2>3. row' = row \/ row' = [row EXCEPT !["wake"][d] = [row["wake"][d] EXCEPT !.state = "dead"]]
    BY <1>3, <1>7, <2>1 DEF Bury
  <2>4. Idle \in ScanOf
    BY DEF ScanOf
  <2> QED  BY <1>3, <1>7, <2>1, <2>2, <2>3, <2>4 DEF Bury
<1>8. CASE ReadWake(h)
  <2> DEFINE d == scan[h].item
  <2>1. scan[h] # Idle /\ scan[h] \in ScanOf /\ d \in Item
    BY <1>0, <1>8, Works DEF ReadWake, At
  <2>2. [scan[h] EXCEPT !.at = "act"] \in ScanOf
    BY <1>8, <2>1, NextStage DEF ReadWake, At
  <2>3. Go(h, "act") => scan' = [scan EXCEPT ![h] = [scan[h] EXCEPT !.at = "act"]]
    BY <1>3 DEF Go
  <2>4. Seen(h, "retarget", d) \in ScanOf
    BY <1>0, <2>1, SeenTyped
  <2>5. scan' \in [Host -> ScanOf] /\ row' \in [Box -> [Item -> RowOf]]
    BY <1>3, <1>7, <1>8, <2>2, <2>3, <2>4 DEF ReadWake, At
  <2> QED  BY <1>2, <1>3, <1>8, <2>5 DEF ReadWake
<1>9. CASE Retarget(h)
  <2> DEFINE d == scan[h].item
  <2>1. scan[h] # Idle /\ scan[h] \in ScanOf /\ d \in Item
    BY <1>0, <1>9, Works DEF Retarget, At
  <2>2. [scan[h] EXCEPT !.at = "act"] \in ScanOf
    BY <1>9, <2>1, NextStage DEF Retarget, At
  <2>3. Go(h, "act") => scan' = [scan EXCEPT ![h] = [scan[h] EXCEPT !.at = "act"]]
    BY <1>3 DEF Go
  <2>4. scan[h].to \in Delivery
    BY <1>9, <2>1, ScanFields DEF Retarget, At
  <2>5. /\ scan' \in [Host -> ScanOf] /\ row' \in [Box -> [Item -> RowOf]]
        /\ delivery' \in [Item -> Delivery \cup {NoDelivery}]
    BY <1>1, <1>3, <1>9, <2>1, <2>2, <2>3, <2>4 DEF Retarget
  <2> QED  BY <1>2, <1>3, <1>9, <2>5 DEF Retarget
<1>10. CASE Act(h)
  <2> DEFINE d == scan[h].item
             q == [at |-> "call", box |-> "wake", item |-> d, valid |-> scan[h].valid,
                   action |-> ActionFor(d)]
  <2>1. d \in Item /\ scan[h].valid \in BOOLEAN
    BY <1>0, <1>10, Works DEF Act, At
  <2>2. ActionFor(d) \in {"notify", "resume", "continue"}
    BY DEF ActionFor
  <2>3. q \in Calling
    BY <2>1, <2>2 DEF Calling
  <2>4. q \in ScanOf
    BY <2>3 DEF ScanOf
  <2>5. Bury(h) \/ (scan' = [scan EXCEPT ![h] = q] /\ row' = row)
    BY <1>3, <1>10 DEF Act
  <2>6. scan' \in [Host -> ScanOf] /\ row' \in [Box -> [Item -> RowOf]]
    BY <1>3, <1>7, <1>10, <2>4, <2>5 DEF Act, At
  <2> QED  BY <1>2, <1>3, <1>10, <2>6 DEF Act
<1>11. CASE Finish(h)
  <2> DEFINE d == scan[h].item
             b == scan[h].box
  <2>1. d \in Item /\ b \in Box /\ row[b][d] \in RowOf
    BY <1>0, <1>3, <1>11, Works DEF Finish
  <2>2. \A x \in {"pending", "done"} : [row[b][d] EXCEPT !.state = x] \in RowOf
    BY <2>1, RowsWritten
  <2>3. row' = row \/ \E x \in {"pending", "done"} :
                         row' = [row EXCEPT ![b][d] = [row[b][d] EXCEPT !.state = x]]
    BY <1>3, <1>11, <2>1 DEF Finish
  <2>4. Idle \in ScanOf
    BY DEF ScanOf
  <2>5. scan' \in [Host -> ScanOf] /\ row' \in [Box -> [Item -> RowOf]]
    BY <1>3, <1>11, <2>1, <2>2, <2>3, <2>4 DEF Finish
  <2> QED  BY <1>2, <1>3, <1>11, <2>5 DEF Finish
<1>12. CASE Call(h)
  <2> DEFINE d == scan[h].item
             q == [at |-> IF Acknowledges(d, scan[h].action) THEN "done" ELSE "retry",
                   box |-> "wake", item |-> d, valid |-> scan[h].valid]
  <2>1. scan[h] \in ScanOf /\ scan[h] # Idle /\ d \in Item /\ scan[h].valid \in BOOLEAN
    BY <1>0, <1>12, Works DEF Call, At
  <2>2. q \in Plain
    BY <2>1 DEF Plain, Box
  <2>3. q \in ScanOf /\ scan' = [scan EXCEPT ![h] = q]
    BY <1>3, <1>12, <2>2 DEF Call, ScanOf
  <2>4. TypedHosts'
    BY <1>0, <1>3, <1>12, <2>3 DEF Call, TypedHosts
  <2>5. /\ delivery' \in [Item -> Delivery \cup {NoDelivery}] /\ turn' \in [Turn -> TurnState]
    BY <1>0, <1>12, <2>1, Handling DEF Call
  <2>6. TypedRows' /\ TypedLife'
    BY <1>0, <1>12, <2>5 DEF Call, TypedRows, TypedLife
  <2> QED  BY <2>4, <2>6, TypedLater
<1>13. CASE TimeOut(h)
  <2>1. scan[h] # Idle /\ scan[h] \in ScanOf /\ scan[h].item \in Item
        /\ scan[h].action \in {"notify", "resume", "continue"}
    BY <1>0, <1>13, Works, ScanFields DEF TimeOut, At
  <2>2. /\ scan' \in [Host -> ScanOf] /\ row' \in [Box -> [Item -> RowOf]]
        /\ delivery' \in [Item -> Delivery \cup {NoDelivery}]
    BY <1>1, <1>13, <2>1 DEF TimeOut
  <2>3. TypedHosts'
    <3>1. late' \in [Host -> SUBSET (Item \X {"notify", "resume", "continue"})]
      BY <1>0, <1>13, <2>1 DEF TimeOut, TypedHosts
    <3>2. spent' \in [throws: Nat, exits: Nat]
      BY <1>0, <1>13 DEF TimeOut, TypedHosts
    <3> QED  BY <1>0, <1>13, <2>2, <3>1, <3>2 DEF TimeOut, TypedHosts
  <2> QED  BY <1>0, <1>3, <1>13, <2>2, <2>3, TypedLater, TypedRowsStep DEF TimeOut, TypedLife, life
<1>14. CASE Throw(h)
  <2>1. /\ scan' \in [Host -> ScanOf] /\ row' \in [Box -> [Item -> RowOf]]
        /\ delivery' \in [Item -> Delivery \cup {NoDelivery}]
    BY <1>1, <1>14 DEF Throw
  <2>2. TypedHosts'
    <3>1. spent' \in [throws: Nat, exits: Nat]
      BY <1>0, <1>14 DEF Throw, TypedHosts
    <3> QED  BY <1>0, <1>14, <2>1, <3>1 DEF Throw, TypedHosts
  <2> QED  BY <1>0, <1>3, <1>14, <2>1, <2>2, TypedLater, TypedRowsStep DEF Throw, TypedLife, life
<1> QED  BY <1>4, <1>5, <1>6, <1>8, <1>9, <1>10, <1>11, <1>12, <1>13, <1>14 DEF ScanStep

LEMMA TypedByHost ==
    ASSUME IInv, NEW h \in Host, Offer(h) \/ Admit(h) \/ LateEffect(h) \/ Exit(h)
    PROVE  Typed'
<1>0. Typed /\ TypedLife /\ TypedRows /\ TypedHosts
  BY TypedParts DEF IInv
<1>1. CASE Offer(h)
  <2>1. TypedHosts'
    BY <1>0, <1>1 DEF Offer, TypedHosts, Queued, Waiting
  <2> QED  BY <1>0, <1>1, <2>1, TypedLater DEF Offer, TypedLife, TypedRows, life, rows
<1>2. CASE Admit(h)
  <2>1. TypedHosts'
    BY <1>0, <1>2 DEF Admit, TypedHosts, NoOffer
  <2>2. CASE UNCHANGED <<turn, exec, delivery, link>>
    BY <1>0, <1>2, <2>1, <2>2, TypedLater DEF Admit, TypedLife, TypedRows
  <2>3. CASE ~UNCHANGED <<turn, exec, delivery, link>>
    <3> DEFINE o == offer[h]
    <3>1. /\ OfferHolds(o) /\ turn' = [turn EXCEPT ![o.turn] = "active"]
          /\ exec' = [exec EXCEPT ![o.turn] = "round"]
          /\ delivery' = [d \in Item |-> IF d \in o.items
                  THEN [delivery[d] EXCEPT !.state = "consumed", !.target = o.turn]
                  ELSE delivery[d]]
          /\ link' = [d \in Item |-> IF d \in o.items THEN "pending" ELSE link[d]]
      BY <1>2, <2>3 DEF Admit
    <3>2. o.turn \in Turn
      BY <1>0, <1>2 DEF Admit, TypedHosts
    <3>3. TypedLife'
      BY <1>0, <1>2, <3>1, <3>2 DEF Admit, TypedLife, TurnState
    <3>4. ASSUME NEW d \in o.items
          PROVE  d \in Item /\ [delivery[d] EXCEPT !.state = "consumed", !.target = o.turn] \in Delivery
      BY <1>0, <3>1, <3>2, <3>4, States DEF OfferHolds, Waiting, Exists, Delivery
    <3>5. TypedRows'
      BY <1>0, <1>2, <3>1, <3>4 DEF Admit, TypedRows
    <3> QED  BY <2>1, <3>3, <3>5, TypedLater
  <2> QED  BY <2>2, <2>3
<1>3. CASE LateEffect(h)
  <2> PICK x \in late[h] : Effect(x[1], x[2]) /\ late' = [late EXCEPT ![h] = @ \ {x}]
    BY <1>3 DEF LateEffect
  <2>1. x[1] \in Item
    BY <1>0 DEF TypedHosts
  <2>2. TypedHosts'
    BY <1>0, <1>3 DEF LateEffect, TypedHosts
  <2>3. delivery' \in [Item -> Delivery \cup {NoDelivery}] /\ turn' \in [Turn -> TurnState]
    BY <1>0, <2>1, Handling
  <2> QED  BY <1>0, <1>3, <2>2, <2>3, TypedLater DEF LateEffect, TypedLife, TypedRows
<1>4. CASE Exit(h)
  <2>1. exec' \in [Turn -> {"none", "round", "final", "settling", "crossed", "again",
                            "gone", "fenced", "failing"}]
    BY <1>0, <1>4 DEF Exit, TypedLife, ResumeFrom
  <2>2. Idle \in ScanOf /\ NoOffer \in [turn: Turn \cup {NoTurn}, items: SUBSET Item]
    BY DEF ScanOf, NoOffer
  <2>3. spent' \in [throws: Nat, exits: Nat]
    BY <1>0, <1>4 DEF Exit, TypedHosts
  <2>4. TypedHosts'
    BY <1>0, <1>4, <2>2, <2>3 DEF Exit, TypedHosts
  <2> QED  BY <1>0, <1>4, <2>1, <2>4, TypedLater DEF Exit, TypedLife, TypedRows, rows
<1> QED  BY <1>1, <1>2, <1>3, <1>4

LEMMA TypedStep == IInv /\ [Next]_vars => Typed'
<1>1. IInv /\ UNCHANGED vars => Typed'
  BY TypedParts, TypedLater DEF IInv, vars, life, rows, TypedLife, TypedRows, TypedHosts
<1>2. IInv /\ Next => Typed'
  BY TypedByTurns, TypedByRows, TypedByClaim, TypedByScan, TypedByHost DEF Next, IInv
<1> QED  BY <1>1, <1>2

-----------------------------------------------------------------------------
(* What one step may do to the rows *)

Arrivals == \A d \in Item : d \in inbox' => d \in inbox \/ Ran(Source[d])

RowMoves == \A b \in Box, d \in Item : RowMove(b, d)

Steps == /\ \A d \in Item : Move(d)
         /\ \A t \in Turn : TurnMove(t)
         /\ FenceMove /\ Arrivals /\ RowMoves

LEMMA SameRow ==
    ASSUME IInv, NEW b \in Box, NEW d \in Item, row'[b][d] = row[b][d]
    PROVE  RowMove(b, d)
BY DEF IInv, FailuresLeft, RowMove

LEMMA NewRow ==
    ASSUME NEW b \in Box, NEW d \in Item, row'[b][d] = Ready,
           IF b = "wake" THEN Exists(d) ELSE Ran(Source[d])
    PROVE  RowMove(b, d)
<1>1. Ready.state = "pending" /\ Ready.fails = 0 /\ 0 < MaxFailures
  BY RowsWritten DEF Ready, NoRow
<1> QED  BY <1>1 DEF RowMove

LEMMA MovesByTurns ==
    ASSUME IInv, NEW t \in Turn,
           \/ Interrupt(t) \/ Submit(t) \/ Round(t) \/ Settle(t) \/ EstablishFence(t)
           \/ Break(t) \/ LoseCrossing(t) \/ Ends(t)
    PROVE  Steps
<1>1. UNCHANGED rows
  BY DEF Interrupt, Submit, Round, Settle, EstablishFence, Break, LoseCrossing,
         Ends, Complete, HandOff, Stop, Fail, EndAs
<1>2. RowMoves /\ Arrivals /\ \A d \in Item : Move(d)
  BY <1>1, SameRow DEF RowMoves, Arrivals, Move, Kept, rows
<1>3. turn \in [Turn -> TurnState]
  BY TypedParts DEF IInv, TypedLife
<1>4. \A s \in Turn : TurnMove(s)
  <2>1. CASE Submit(t)
    BY <1>3, <2>1 DEF Submit, TurnMove
  <2>2. CASE Ends(t)
    BY <1>1, <1>3, <2>2
       DEF Ends, Complete, HandOff, Stop, Fail, EndAs, InputsSettled, TurnMove, Over, rows
  <2>3. CASE UNCHANGED turn
    BY <2>3 DEF TurnMove
  <2> QED  BY <2>1, <2>2, <2>3
           DEF Interrupt, Round, Settle, EstablishFence, Break, LoseCrossing
<1>5. FenceMove
  <2>1. CASE EstablishFence(t)
    <3>1. turn[t] = "active"
      BY <2>1 DEF EstablishFence, IInv, TurnsRun
    <3>2. fence' = fence \/ (fence' = fence \cup {t} /\ NothingPending(t))
      BY <2>1 DEF EstablishFence
    <3> QED  BY <1>1, <2>1, <3>1, <3>2 DEF EstablishFence, FenceMove, rows
  <2>2. CASE UNCHANGED fence
    BY <2>2 DEF FenceMove
  <2> QED  BY <2>1, <2>2 DEF Interrupt, Submit, Round, Settle, Break, LoseCrossing,
                             Ends, Complete, HandOff, Stop, Fail, EndAs
<1> QED  BY <1>2, <1>4, <1>5 DEF Steps

LEMMA MovesByRows ==
    ASSUME IInv, NEW d \in Item,
           \/ Arise(d) \/ RouteAnswer(d) \/ Supersede(d) \/ Advance(d) \/ Handle(d)
           \/ EnsureWake(d) \/ (\E b \in Box : Expire(b, d))
    PROVE  Steps
<1>0. TypedRows /\ Typed
  BY TypedParts DEF IInv
<1>1. UNCHANGED <<turn, fence>>
  BY DEF Arise, RouteAnswer, Supersede, Advance, Handle, EnsureWake, Expire, life
<1>2. FenceMove /\ \A t \in Turn : TurnMove(t)
  BY <1>1 DEF FenceMove, TurnMove
<1>3. Arrivals
  BY DEF Arise, RouteAnswer, Supersede, Advance, Handle, EnsureWake, Expire, Arrivals, Ran
<1>4. \A e \in Item : Move(e)
  <2>1. CASE RouteAnswer(d)
    <3>1. RoutedTo(d)
      BY <1>0, <1>1, <2>1 DEF RouteAnswer, RoutedTo, IInv, Ranked, NoDelivery, TypedRows
    <3>2. \A e \in Item \ {d} : Kept(e)
      BY <1>0, <2>1 DEF RouteAnswer, Kept, TypedRows
    <3> QED  BY <3>1, <3>2 DEF Move
  <2>2. CASE Advance(d)
    <3>1. /\ \A e \in Item \ {d} : Kept(e)
          /\ \/ /\ Open(Source[d]) /\ delivery'[d].state = "consumed" /\ Same(d)
                /\ link'[d] = "pending"
             \/ delivery'[d] = Routed(d) /\ link'[d] = link[d]
      BY <1>0, <2>2, Injecting DEF Advance, IInv
    <3>2. Injected(d) \/ RoutedTo(d)
      BY <1>1, <2>2, <3>1 DEF Advance, Injected, RoutedTo
    <3> QED  BY <3>1, <3>2 DEF Move
  <2>3. CASE Handle(d)
    <3>1. Absorbed(d) /\ \A e \in Item \ {d} : Kept(e)
      BY <1>0, <1>1, <2>3 DEF Handle, Absorbed, Kept, TypedRows
    <3> QED  BY <3>1 DEF Move
  <2>4. CASE UNCHANGED <<delivery, link>>
    BY <2>4 DEF Move, Kept
  <2> QED  BY <2>1, <2>2, <2>3, <2>4 DEF Arise, Supersede, EnsureWake, Expire
<1>5. RowMoves
  <2>1. CASE Arise(d) \/ EnsureWake(d)
    <3>1. CASE Arise(d)
      <4>1. Ran(Source[d]) /\ (row' = row \/ row' = [row EXCEPT !["dispatch"][d] = Ready])
        BY <3>1 DEF Arise, Ran
      <4>2. CASE row' = [row EXCEPT !["dispatch"][d] = Ready]
        <5>1. /\ row'["dispatch"][d] = Ready
              /\ \A c \in Box, e \in Item : <<c, e>> # <<"dispatch", d>> => row'[c][e] = row[c][e]
          BY <1>0, <4>2 DEF TypedRows, Box
        <5>2. RowMove("dispatch", d)
          BY <4>1, <5>1, NewRow DEF Box
        <5> QED  BY <5>1, <5>2, SameRow DEF RowMoves
      <4> QED  BY <4>1, <4>2, SameRow DEF RowMoves
    <3>2. CASE EnsureWake(d)
      <4>1. Exists(d)
        BY <3>2 DEF EnsureWake, NeedsWake, Exists, IInv, Filed
      <4>2. /\ row'["wake"][d] = Ready
            /\ \A c \in Box, e \in Item : <<c, e>> # <<"wake", d>> => row'[c][e] = row[c][e]
        BY <1>0, <3>2 DEF EnsureWake, TypedRows, Box
      <4>3. RowMove("wake", d)
        BY <4>1, <4>2, NewRow DEF Box
      <4> QED  BY <4>2, <4>3, SameRow DEF RowMoves
    <3> QED  BY <2>1, <3>1, <3>2
  <2>2. ASSUME NEW b \in Box, Expire(b, d)
        PROVE  RowMoves
    <3>0. row[b][d] \in RowOf
      BY <1>0 DEF TypedRows
    <3>1. row' = [row EXCEPT ![b][d] = [row[b][d] EXCEPT !.expired = TRUE]]
      BY <1>0, <2>2 DEF Expire, TypedRows
    <3>2. row'[b][d].state = row[b][d].state /\ row'[b][d].fails = row[b][d].fails
      BY <1>0, <3>0, <3>1 DEF TypedRows, RowOf
    <3>3. RowMove(b, d)
      BY <2>2, <3>2 DEF Expire, RowMove, NoRow, IInv, FailuresLeft
    <3>4. \A c \in Box, e \in Item : <<c, e>> # <<b, d>> => row'[c][e] = row[c][e]
      BY <1>0, <3>1 DEF TypedRows
    <3> QED  BY <3>3, <3>4, SameRow DEF RowMoves
  <2>3. CASE UNCHANGED row
    BY <2>3, SameRow DEF RowMoves
  <2> QED  BY <2>1, <2>2, <2>3 DEF RouteAnswer, Supersede, Advance, Handle
<1> QED  BY <1>2, <1>3, <1>4, <1>5 DEF Steps

LEMMA MovesByClaim ==
    ASSUME IInv, NEW h \in Host, NEW b \in Box, NEW d \in Item, Claim(h, b, d) \/ Reclaim(h, b, d)
    PROVE  Steps
<1>0. TypedRows /\ row[b][d] \in RowOf
  BY TypedParts DEF IInv, TypedRows
<1>1. UNCHANGED <<turn, fence, inbox, delivery, link>>
  BY DEF Claim, Reclaim, life
<1>2. FenceMove /\ Arrivals /\ (\A t \in Turn : TurnMove(t)) /\ \A e \in Item : Move(e)
  BY <1>1 DEF FenceMove, TurnMove, Arrivals, Move, Kept
<1>3. RowMoves
  <2>1. PICK s \in {"pending", "claimed"} :
           row' = [row EXCEPT ![b][d] = [row[b][d] EXCEPT !.state = s, !.expired = FALSE]]
    BY ZenonT(60), <1>0 DEF Claim, Reclaim, TypedRows
  <2>2. row'[b][d].state = s /\ row'[b][d].fails = row[b][d].fails
    BY <1>0, <2>1 DEF TypedRows, RowOf
  <2>3. row[b][d] # NoRow /\ row[b][d].fails < MaxFailures
    BY DEF Claim, Reclaim, NoRow, IInv, FailuresLeft
  <2>4. RowMove(b, d)
    BY <2>2, <2>3 DEF RowMove
  <2>5. \A c \in Box, e \in Item : <<c, e>> # <<b, d>> => row'[c][e] = row[c][e]
    BY <1>0, <2>1 DEF TypedRows
  <2> QED  BY <2>4, <2>5, SameRow DEF RowMoves
<1> QED  BY <1>2, <1>3 DEF Steps

\* An error or a lost race in a scan
LEMMA MovesByFailing ==
    ASSUME IInv, NEW h \in Host, scan[h] # Idle, FailClaim(h), UNCHANGED <<turn, fence, inbox, link>>
    PROVE  Steps
<1>0. Typed /\ Claimed /\ FailuresLeft /\ TypedRows
  BY TypedParts DEF IInv
<1>1. FenceMove /\ Arrivals /\ \A t \in Turn : TurnMove(t)
  BY DEF FenceMove, TurnMove, Arrivals
<1>2. ASSUME NEW d \in Item
      PROVE  Move(d)
  BY <1>0, Failing DEF Move, Kept, GivenUp
<1>3. ASSUME NEW b \in Box, NEW d \in Item
      PROVE  RowMove(b, d)
  <2>1. CASE row'[b][d] = row[b][d]
    BY <2>1, SameRow
  <2>2. CASE row'[b][d] # row[b][d]
    <3>1. /\ Holds(h, b, d)
          /\ row'[b][d].state # "dead" => row'[b][d].fails < MaxFailures
          /\ b = "wake" /\ row'[b][d].state = "dead" => delivery'[d].state # "pending"
      BY <1>0, <2>2, Failing
    <3>2. row[b][d] # NoRow
      BY <3>1 DEF IInv, Claimed, NoRow
    <3>3. b = "wake" => Exists(d)
      BY <3>2 DEF IInv, Filed
    <3> QED  BY <3>1, <3>2, <3>3 DEF RowMove
  <2> QED  BY <2>1, <2>2
<1> QED  BY <1>1, <1>2, <1>3 DEF Steps, RowMoves

\* The row a scan finishes with
LEMMA MovesByRow ==
    ASSUME IInv, NEW b \in Box, NEW d \in Item, NEW new, row' = [row EXCEPT ![b][d] = new],
           UNCHANGED <<turn, fence, delivery, link>>, Arrivals, RowMove(b, d)
    PROVE  Steps
<1>0. TypedRows
  BY TypedParts DEF IInv
<1>1. FenceMove /\ (\A t \in Turn : TurnMove(t)) /\ \A e \in Item : Move(e)
  BY DEF FenceMove, TurnMove, Move, Kept
<1>2. \A c \in Box, e \in Item : <<c, e>> # <<b, d>> => row'[c][e] = row[c][e]
  BY <1>0 DEF TypedRows
<1> QED  BY <1>1, <1>2, SameRow DEF Steps, RowMoves

LEMMA MovesByBury ==
    ASSUME IInv, NEW h \in Host, scan[h].at \in {"read", "act"}, Bury(h),
           delivery[scan[h].item].state = "failed",
           scan[h].box = "wake", UNCHANGED <<turn, fence, inbox, delivery, link>>
    PROVE  Steps
<1> DEFINE d == scan[h].item
<1>0. TypedRows /\ d \in Item /\ scan[h] # Idle /\ "wake" \in Box
  BY TypedParts, Works DEF IInv, Box
<1>1. CASE scan[h].valid
  <2>1. row' = [row EXCEPT !["wake"][d] = [row["wake"][d] EXCEPT !.state = "dead"]]
    BY <1>0, <1>1 DEF Bury, TypedRows
  <2>2. row'["wake"][d].state = "dead"
    BY <1>0, <2>1 DEF TypedRows, RowOf
  <2>3. Exists(d) /\ row["wake"][d] # NoRow
    BY <1>0, <1>1 DEF Exists, IInv, Claimed, Holds, NoRow
  <2>4. RowMove("wake", d)
    BY <2>2, <2>3 DEF RowMove
  <2> QED  BY <1>0, <2>1, <2>4, MovesByRow DEF Arrivals
<1>2. CASE ~scan[h].valid
  <2>1. row' = row
    BY <1>2 DEF Bury
  <2> QED  BY <2>1, SameRow DEF Steps, FenceMove, TurnMove, Move, Kept, Arrivals, RowMoves
<1> QED  BY <1>1, <1>2

LEMMA StillMoves ==
    ASSUME IInv, UNCHANGED <<turn, fence, delivery, link, row>>, Arrivals
    PROVE  Steps
BY SameRow DEF Steps, FenceMove, TurnMove, Move, Kept, RowMoves

\* A route that is written
LEMMA MovesByRoute ==
    ASSUME IInv, NEW h \in Host, At(h, "create") \/ At(h, "retarget"), NEW d, d = scan[h].item,
           Unchanged(h, d), delivery' = [delivery EXCEPT ![d] = scan[h].to],
           UNCHANGED <<turn, fence, inbox, link, row>>
    PROVE  Steps
<1>0. delivery \in [Item -> Delivery \cup {NoDelivery}]
  BY TypedParts DEF IInv, TypedRows
<1>1. RoutedTo(d) /\ d \in Item
  BY <1>0, RouteHolds DEF RoutedTo
<1>2. \A e \in Item \ {d} : Kept(e)
  BY <1>0 DEF Kept
<1> QED  BY <1>1, <1>2, SameRow DEF Steps, FenceMove, TurnMove, Move, RowMoves, Arrivals

LEMMA MovesByScan ==
    ASSUME IInv, NEW h \in Host, ScanStep(h) \/ TimeOut(h) \/ Throw(h)
    PROVE  Steps
<1> DEFINE d == scan[h].item
<1>0. Typed /\ TypedRows
  BY TypedParts DEF IInv
<1>1. CASE ReadDispatch(h)
  <2>1. scan[h] # Idle /\ scan[h].box = "dispatch"
    BY <1>0, <1>1, Works DEF ReadDispatch, At
  <2>2. inbox' = inbox \cup {d} /\ Ran(Source[d])
    BY <1>1, <2>1 DEF ReadDispatch, IInv, Looks
  <2> QED  BY <1>1, <2>2, StillMoves DEF ReadDispatch, life, Arrivals
<1>2. CASE Create(h)
  <2>1. scan[h] # Idle /\ UNCHANGED <<turn, fence, inbox, link>>
    BY <1>0, <1>2, Works DEF Create, At, life
  <2>2. \/ UNCHANGED <<row, delivery>>
        \/ FailClaim(h)
        \/ Unchanged(h, d) /\ delivery' = [delivery EXCEPT ![d] = scan[h].to] /\ UNCHANGED row
    BY <1>2 DEF Create
  <2> QED  BY <1>2, <2>1, <2>2, StillMoves, MovesByFailing, MovesByRoute DEF Create, Arrivals
<1>3. CASE WakeFor(h)
  <2>1. scan[h] # Idle /\ d \in Item /\ UNCHANGED <<turn, fence, inbox, link>>
    BY <1>0, <1>3, Works DEF WakeFor, At, life
  <2>2. Exists(d)
    BY <1>3, <2>1 DEF WakeFor, IInv, Looks
  <2>3. CASE UNCHANGED <<row, delivery>>
    BY <2>1, <2>3, StillMoves DEF Arrivals
  <2>4. CASE FailClaim(h)
    BY <2>1, <2>4, MovesByFailing
  <2>5. CASE /\ delivery[d].state = scan[h].saw /\ UNCHANGED delivery
             /\ row' = [row EXCEPT !["wake"][d] =
                  IF scan[h].saw = "failed" THEN [Ready EXCEPT !.state = "dead"] ELSE Ready]
    <3> DEFINE new == IF scan[h].saw = "failed" THEN [Ready EXCEPT !.state = "dead"] ELSE Ready
    <3>1. row'["wake"][d] = new /\ "wake" \in Box
      BY <1>0, <2>1, <2>5 DEF TypedRows, Box
    <3>2. RowMove("wake", d)
      <4>1. CASE scan[h].saw = "failed"
        <5>1. new.state = "dead" /\ new.fails < MaxFailures
          BY <4>1, RowsWritten DEF Ready, NoRow
        <5> QED  BY <2>2, <2>5, <3>1, <4>1, <5>1 DEF RowMove
      <4>2. CASE scan[h].saw # "failed"
        BY <2>1, <2>2, <3>1, <4>2, NewRow
      <4> QED  BY <4>1, <4>2
    <3> QED  BY <2>1, <2>5, <3>1, <3>2, MovesByRow DEF Arrivals
  <2> QED  BY <1>3, <2>3, <2>4, <2>5 DEF WakeFor
<1>4. CASE ReadWake(h)
  <2>1. UNCHANGED <<turn, fence, inbox, delivery, link>>
    BY <1>4 DEF ReadWake, life
  <2>2. row' = row \/ (Bury(h) /\ delivery[d].state = "failed")
    BY <1>4 DEF ReadWake
  <2> QED  BY <1>4, <2>1, <2>2, StillMoves, MovesByBury DEF ReadWake, At, Arrivals
<1>5. CASE Retarget(h)
  <2>1. scan[h] # Idle /\ UNCHANGED <<turn, fence, inbox, link>>
    BY <1>0, <1>5, Works DEF Retarget, At, life
  <2>2. \/ FailClaim(h)
        \/ Unchanged(h, d) /\ delivery' = [delivery EXCEPT ![d] = scan[h].to] /\ UNCHANGED row
    BY <1>5 DEF Retarget
  <2> QED  BY <1>5, <2>1, <2>2, MovesByFailing, MovesByRoute DEF Retarget
<1>6. CASE Act(h)
  <2>1. UNCHANGED <<turn, fence, inbox, delivery, link>> /\ scan[h].at = "act"
    BY <1>6 DEF Act, At, life
  <2>2. row' = row \/ (Bury(h) /\ delivery[d].state = "failed")
    BY <1>6 DEF Act
  <2>3. scan[h].box = "wake"
    BY <1>0, <2>1, Works DEF IInv, Looks, At
  <2> QED  BY <2>1, <2>2, <2>3, StillMoves, MovesByBury DEF Arrivals
<1>7. CASE Call(h)
  <2>1. /\ d \in Item /\ Effect(d, scan[h].action) /\ UNCHANGED <<fence, inbox, link, row>>
    BY <1>0, <1>7, Works DEF Call, At
  <2>2. \A e \in Item : Move(e)
    BY <1>0, <2>1, Handling DEF Move, Kept, Shown
  <2>3. \A t \in Turn : TurnMove(t)
    BY <1>0, <2>1, Handling DEF TurnMove
  <2> QED  BY <2>1, <2>2, <2>3, SameRow DEF Steps, FenceMove, Arrivals, RowMoves
<1>8. CASE Finish(h)
  <2> DEFINE b == scan[h].box
             s == IF At(h, "done") THEN "done" ELSE "pending"
  <2>1. scan[h] # Idle /\ d \in Item /\ b \in Box /\ UNCHANGED <<turn, fence, inbox, delivery, link>>
    BY <1>0, <1>8, Works DEF Finish, life
  <2>2. CASE row' = row
    BY <2>1, <2>2, StillMoves DEF Arrivals
  <2>3. CASE scan[h].valid /\ row' # row
    <3>1. row' = [row EXCEPT ![b][d] = [row[b][d] EXCEPT !.state = s]]
      BY <1>0, <1>8, <2>1, <2>3 DEF Finish, TypedRows
    <3>2. row'[b][d].state = s /\ row'[b][d].fails = row[b][d].fails
      BY <1>0, <2>1, <3>1 DEF TypedRows, RowOf
    <3>3. row[b][d].state = "claimed"
      BY <2>1, <2>3 DEF IInv, Claimed, Holds
    <3>4. RowMove(b, d)
      BY <2>1, <3>2, <3>3 DEF RowMove, NoRow, IInv, FailuresLeft
    <3> QED  BY <2>1, <3>1, <3>4, MovesByRow DEF Arrivals
  <2> QED  BY <1>8, <2>2, <2>3 DEF Finish
<1>9. CASE TimeOut(h) \/ Throw(h)
  <2>1. scan[h] # Idle /\ FailClaim(h) /\ UNCHANGED <<turn, fence, inbox, link>>
    BY <1>0, <1>9, Works DEF TimeOut, Throw, At, life
  <2> QED  BY <2>1, MovesByFailing
<1> QED  BY <1>1, <1>2, <1>3, <1>4, <1>5, <1>6, <1>7, <1>8, <1>9 DEF ScanStep

LEMMA MovesByHost ==
    ASSUME IInv, NEW h \in Host, Offer(h) \/ Admit(h) \/ LateEffect(h) \/ Exit(h)
    PROVE  Steps
<1>0. Typed /\ TypedRows /\ TypedLife /\ TypedHosts
  BY TypedParts DEF IInv
<1>1. CASE Offer(h) \/ Exit(h)
  BY <1>1, StillMoves DEF Offer, Exit, life, rows, Arrivals
<1>2. CASE Admit(h)
  <2> DEFINE o == offer[h]
  <2>1. UNCHANGED <<fence, inbox, row>>
    BY <1>2 DEF Admit
  <2>2. CASE UNCHANGED <<turn, delivery, link>>
    BY <2>1, <2>2, StillMoves DEF Arrivals
  <2>3. CASE ~UNCHANGED <<turn, delivery, link>>
    <3>1. /\ OfferHolds(o) /\ turn' = [turn EXCEPT ![o.turn] = "active"]
          /\ delivery' = [d \in Item |-> IF d \in o.items
                  THEN [delivery[d] EXCEPT !.state = "consumed", !.target = o.turn]
                  ELSE delivery[d]]
          /\ link' = [d \in Item |-> IF d \in o.items THEN "pending" ELSE link[d]]
          /\ o.turn \in Turn
      BY <1>0, <1>2, <2>3 DEF Admit, TypedHosts
    <3>2. ASSUME NEW d \in Item
          PROVE  Move(d)
      <4>1. CASE d \in o.items
        <5>1. d \in Waiting /\ delivery[d] \in Delivery /\ o.turn \in Queued
          BY <1>0, <3>1, <4>1, States DEF OfferHolds, Waiting, Exists, Queued
        <5>2. /\ delivery'[d].phase = "next_turn" /\ delivery'[d].target = o.turn
              /\ delivery'[d].state = "consumed"
          BY <3>1, <4>1, <5>1 DEF Waiting, Delivery
        <5>3. turn'[o.turn] = "active"
          BY <1>0, <3>1 DEF TypedLife
        <5> QED  BY <2>1, <3>1, <4>1, <5>1, <5>2, <5>3 DEF Move, Joined
      <4>2. CASE d \notin o.items
        BY <3>1, <4>2 DEF Move, Kept
      <4> QED  BY <4>1, <4>2
    <3>3. \A t \in Turn : TurnMove(t)
      BY <1>0, <3>1 DEF TurnMove, OfferHolds, TypedLife
    <3> QED  BY <2>1, <3>2, <3>3, SameRow DEF Steps, FenceMove, Arrivals, RowMoves
  <2> QED  BY <2>2, <2>3
<1>3. CASE LateEffect(h)
  <2> PICK x \in late[h] : Effect(x[1], x[2])
    BY <1>3 DEF LateEffect
  <2>1. x[1] \in Item /\ UNCHANGED <<fence, inbox, link, row>>
    BY <1>0, <1>3 DEF LateEffect, TypedHosts
  <2>2. \A e \in Item : Move(e)
    BY <1>0, <2>1, Handling DEF Move, Kept, Shown
  <2>3. \A t \in Turn : TurnMove(t)
    BY <1>0, <2>1, Handling DEF TurnMove
  <2> QED  BY <2>1, <2>2, <2>3, SameRow DEF Steps, FenceMove, Arrivals, RowMoves
<1> QED  BY <1>1, <1>2, <1>3

LEMMA StepMoves == IInv /\ [Next]_vars => Steps
<1>1. IInv /\ UNCHANGED vars => Steps
  BY StillMoves DEF vars, life, rows, Arrivals
<1>2. IInv /\ Next => Steps
  BY MovesByTurns, MovesByRows, MovesByClaim, MovesByScan, MovesByHost DEF Next
<1> QED  BY <1>1, <1>2

-----------------------------------------------------------------------------
(* What every step keeps *)

LEMMA Stable ==
    ASSUME IInv, Steps, Typed'
    PROVE  /\ \A t \in Turn : Ran(t) => Ran(t)'
           /\ \A d \in Item : Exists(d) => Exists(d)'
           /\ \A t \in fence : t \in fence'
<1>1. ASSUME NEW t \in Turn, Ran(t)
      PROVE  Ran(t)'
  BY <1>1 DEF Steps, TurnMove, Ran, Over
<1>2. ASSUME NEW d \in Item, Exists(d)
      PROVE  Exists(d)'
  <2>1. Routed(d).state = "pending"
    BY Routes DEF IInv
  <2> QED  BY <1>2, <2>1 DEF Steps, Move, Kept, RoutedTo, Injected, Joined, Shown, GivenUp,
                             Absorbed, Exists
<1>3. fence \subseteq fence'
  BY DEF Steps, FenceMove
<1> QED  BY <1>1, <1>2, <1>3

LEMMA FiledStep ==
    ASSUME IInv, Steps, Typed'
    PROVE  Filed' /\ FailuresLeft' /\ NoDeadWait'
<1>0. Typed
  BY DEF IInv
<1>1. ASSUME NEW d \in Item
      PROVE  /\ link'[d] # "none" => delivery'[d].state = "consumed" /\ delivery'[d].target \in Turn
             /\ delivery'[d].phase = "current_turn" => delivery'[d].target = Source[d]
             /\ delivery'[d].target # NoTurn =>
                   delivery'[d].phase = "current_turn" \/ delivery'[d].state = "consumed"
             /\ delivery'[d].phase = "notify_only" => delivery'[d].target = NoTurn
  <2>0. /\ link[d] # "none" => delivery[d].state = "consumed" /\ delivery[d].target \in Turn
        /\ delivery[d].phase = "current_turn" => delivery[d].target = Source[d]
        /\ delivery[d].target # NoTurn =>
              delivery[d].phase = "current_turn" \/ delivery[d].state = "consumed"
        /\ delivery[d].phase = "notify_only" => delivery[d].target = NoTurn
    BY DEF IInv, Filed
  <2>1. CASE Kept(d) \/ Absorbed(d)
    BY <2>0, <2>1 DEF Kept, Absorbed
  <2>2. CASE RoutedTo(d)
    <3>1. link[d] = "none"
      BY <1>0, <2>0, <2>2, States DEF RoutedTo
    <3> QED  BY <1>0, <2>2, <3>1, Routes DEF RoutedTo
  <2>3. CASE Injected(d)
    BY <2>0, <2>3, ItemAssumption DEF Injected, Same
  <2>4. CASE Joined(d)
    BY <2>0, <2>4 DEF Joined, Queued
  <2>5. CASE Shown(d)
    BY <2>0, <2>5 DEF Shown, Same
  <2>6. CASE GivenUp(d)
    BY <2>0, <2>6 DEF GivenUp, Same
  <2> QED  BY <2>1, <2>2, <2>3, <2>4, <2>5, <2>6 DEF Steps, Move
<1>2. ASSUME NEW d \in Item, row'["wake"][d] # NoRow
      PROVE  Exists(d)'
  <2>1. RowMove("wake", d)
    BY DEF Steps, RowMoves, Box
  <2>2. Exists(d)
    BY <1>2, <2>1 DEF RowMove, IInv, Filed
  <2> QED  BY <2>2, Stable
<1>3. FailuresLeft'
  BY DEF Steps, RowMoves, RowMove, FailuresLeft
<1>4. ASSUME NEW d \in Item, row'["wake"][d].state = "dead"
      PROVE  delivery'[d].state # "pending"
  <2>1. RowMove("wake", d)
    BY DEF Steps, RowMoves, Box
  <2>2. CASE row["wake"][d].state = "dead"
    <3>1. delivery[d].state # "pending" /\ delivery[d].state # "none"
      BY <2>2 DEF IInv, NoDeadWait, Filed, Exists, NoRow
    <3> QED  BY <3>1 DEF Steps, Move, Kept, RoutedTo, Injected, Joined, Shown, GivenUp,
                         Absorbed, Waiting
  <2> QED  BY <1>4, <2>1, <2>2 DEF RowMove
<1> QED  BY <1>1, <1>2, <1>3, <1>4 DEF Filed, NoDeadWait

\* Which Turn an input may be given to, and which not
LEMMA UnreadStep ==
    ASSUME IInv, Steps, Typed'
    PROVE  NothingUnread' /\ FinalIsFinal'
<1>0. Typed /\ turn \in [Turn -> TurnState] /\ fence \subseteq Turn
  BY TypedParts DEF IInv, TypedLife
<1>1. ASSUME NEW d \in Item, link'[d] = "pending"
      PROVE  turn'[delivery'[d].target] = "active" /\ delivery'[d].target \notin fence'
  <2>0. ASSUME link[d] = "pending"
        PROVE  /\ delivery[d].target \in Turn /\ d \in Inputs(delivery[d].target)
               /\ delivery[d].state = "consumed"
               /\ turn[delivery[d].target] = "active" /\ delivery[d].target \notin fence
    <3>1. delivery[d].target \in Turn /\ delivery[d].state = "consumed"
      BY <2>0 DEF IInv, Filed
    <3>2. d \in Inputs(delivery[d].target)
      BY <2>0 DEF Inputs
    <3>3. turn[delivery[d].target] = "active"
      BY <2>0 DEF IInv, NothingUnread
    <3>4. delivery[d].target \notin fence
      BY <3>2 DEF IInv, FinalIsFinal
    <3> QED  BY <3>1, <3>2, <3>3, <3>4
  <2>1. CASE Kept(d)
    <3> DEFINE t == delivery[d].target
    <3>1. link[d] = "pending" /\ delivery'[d] = delivery[d]
      BY <1>1, <2>1 DEF Kept
    <3>2. t \in Turn /\ Inputs(t) # {} /\ turn[t] = "active" /\ t \notin fence
      BY <2>0, <3>1
    <3>3. TurnMove(t)
      BY <3>2 DEF Steps
    <3>4. turn'[t] = "active"
      BY <3>2, <3>3 DEF TurnMove
    <3>5. t \notin fence'
      BY <3>2 DEF Steps, FenceMove, NothingPending
    <3> QED  BY <3>1, <3>4, <3>5
  <2>2. CASE Injected(d)
    <3>1. delivery'[d].target = Source[d]
      BY <2>2 DEF Injected, Same, IInv, Filed
    <3> QED  BY <2>2, <3>1 DEF Injected, Open
  <2>3. CASE Joined(d)
    <3>1. delivery'[d].target \notin fence
      BY <2>3 DEF Joined, Queued, IInv, TurnsRun, Ran
    <3> QED  BY <2>3, <3>1 DEF Joined
  <2>4. CASE RoutedTo(d) \/ Shown(d) \/ GivenUp(d)
    <3>1. delivery[d].state # "consumed" /\ link[d] = "pending"
      BY <1>0, <1>1, <2>4, States DEF RoutedTo, Shown, GivenUp
    <3> QED  BY <2>0, <3>1
  <2>5. ~Absorbed(d)
    BY <1>1 DEF Absorbed
  <2> QED  BY <2>1, <2>2, <2>3, <2>4, <2>5 DEF Steps, Move
<1>2. ASSUME NEW d \in Item, delivery'[d].state = "pending"
      PROVE  delivery'[d].target \notin fence'
  <2>1. CASE RoutedTo(d)
    <3>1. fence' = fence /\ delivery'[d].target \in {NoTurn, Source[d]}
          /\ (delivery'[d].target = Source[d] => PhaseFor(d) = "current_turn" \/ Source[d] = NoTurn)
      BY <1>0, <2>1, Routes DEF RoutedTo
    <3>2. PhaseFor(d) = "current_turn" => Source[d] \notin fence
      BY DEF PhaseFor
    <3> QED  BY <1>0, <3>1, <3>2, ItemAssumption
  <2>2. CASE Kept(d) \/ Absorbed(d)
    <3>1. delivery'[d] = delivery[d] /\ delivery[d].state = "pending"
      BY <1>2, <2>2 DEF Kept, Absorbed
    <3>2. d \in Due(delivery[d].target)
      BY <3>1 DEF Due
    <3>3. delivery[d].target \notin fence
      BY <3>2 DEF IInv, FinalIsFinal
    <3> QED  BY <3>1, <3>2, <3>3 DEF Steps, FenceMove, NothingPending
  <2> QED  BY <1>2, <2>1, <2>2 DEF Steps, Move, Injected, Joined, Shown, GivenUp
<1> QED  BY <1>1, <1>2 DEF NothingUnread, FinalIsFinal, Inputs, Due

\* What PhaseFor answers only moves on
LEMMA RankStep ==
    ASSUME IInv, Steps, Typed'
    PROVE  Ranked'
<1>0. Typed
  BY DEF IInv
<1>1. ASSUME NEW d \in Item, d \in inbox' \/ row'["dispatch"][d] # NoRow \/ Exists(d)'
      PROVE  Ran(Source[d])'
  <2>1. Source[d] \in Turn /\ RowMove("dispatch", d) /\ Move(d)
    BY ItemAssumption DEF Steps, RowMoves, Box
  <2>2. CASE d \in inbox'
    BY <2>1, <2>2, Stable DEF Steps, Arrivals, IInv, Ranked
  <2>3. CASE row'["dispatch"][d] # NoRow
    BY <2>1, <2>3, Stable DEF RowMove, IInv, Ranked
  <2>4. CASE Exists(d)'
    <3>1. Exists(d) \/ Ran(Source[d])
      BY <2>1, <2>4 DEF Move, Kept, RoutedTo, Injected, Joined, Shown, GivenUp, Absorbed,
                        Waiting, Exists
    <3> QED  BY <2>1, <3>1, Stable DEF IInv, Ranked
  <2> QED  BY <1>1, <2>2, <2>3, <2>4
<1>2. ASSUME NEW d \in Item, Ran(Source[d])
      PROVE  /\ PhaseFor(d) # "current_turn" => PhaseFor(d)' # "current_turn"
             /\ PhaseFor(d) = "notify_only" => PhaseFor(d)' = "notify_only"
  <2> DEFINE t == Source[d]
  <2>1. /\ t \in Turn /\ TurnMove(t)
        /\ t \in fence => t \in fence'
    BY ItemAssumption, Stable DEF Steps
  <2>2. turn[t] = "active" \/ turn'[t] = turn[t]
    BY <1>2, <2>1 DEF TurnMove, Ran
  <2>3. turn'[t] \in Over \cup {"active"} /\ turn[t] \in Over \cup {"active"}
    <3>1. turn[t] \in TurnState
      BY <1>0, <2>1, TypedParts DEF TypedLife
    <3> QED  BY <1>2, <2>1, <3>1 DEF TurnMove, Ran, Over, TurnState
  <2> QED  BY <2>1, <2>2, <2>3 DEF PhaseFor, Over
<1>3. ASSUME NEW d \in Item
      PROVE  /\ delivery'[d].phase = "next_turn" => PhaseFor(d)' # "current_turn"
             /\ delivery'[d].phase = "notify_only" => PhaseFor(d)' = "notify_only"
  <2>1. /\ delivery[d].phase = "next_turn" => PhaseFor(d) # "current_turn"
        /\ delivery[d].phase = "notify_only" => PhaseFor(d) = "notify_only"
        /\ Exists(d) => Ran(Source[d])
    BY DEF IInv, Ranked
  <2>2. delivery[d].phase \in {"next_turn", "notify_only"} => Exists(d)
    BY <1>0, States DEF NoDelivery
  <2>3. CASE delivery'[d].phase = delivery[d].phase
    BY <1>2, <2>1, <2>2, <2>3
  <2>4. CASE RoutedTo(d)
    <3>1. PhaseFor(d)' = PhaseFor(d) /\ delivery'[d].phase = PhaseFor(d)
      BY <1>0, <2>4, Routes DEF RoutedTo, PhaseFor
    <3> QED  BY <3>1
  <2> QED  BY <2>3, <2>4 DEF Steps, Move, Kept, Injected, Joined, Shown, GivenUp, Absorbed,
                             Same, Waiting
<1> QED  BY <1>1, <1>3 DEF Ranked

LEMMA TurnsStep ==
    ASSUME IInv, [Next]_vars, Steps, Typed'
    PROVE  TurnsRun'
<1>0. /\ turn \in [Turn -> TurnState] /\ fence \subseteq Turn
      /\ exec \in [Turn -> {"none", "round", "final", "settling", "crossed", "again",
                            "gone", "fenced", "failing"}]
      /\ \A t \in Turn : exec[t] # "none" => turn[t] = "active"
      /\ \A t \in fence : Ran(t)
  BY TypedParts DEF IInv, TypedLife, TurnsRun
<1>1. \A t \in fence' : Ran(t)'
  <2>1. \A t \in fence : Ran(t)'
    BY <1>0, Stable
  <2>2. CASE fence' = fence
    BY <2>1, <2>2
  <2>3. ASSUME NEW t \in Turn, fence' = fence \cup {t}, turn[t] = "active"
        PROVE  \A u \in fence' : Ran(u)'
    BY <2>1, <2>3, Stable DEF Ran
  <2> QED  BY <2>2, <2>3 DEF Steps, FenceMove
<1>2. \A t \in Turn : exec'[t] # "none" => turn'[t] = "active"
  <2>1. ASSUME NEW t \in Turn, Round(t) \/ Settle(t) \/ EstablishFence(t) \/ Break(t) \/ LoseCrossing(t)
        PROVE  \A u \in Turn : exec'[u] # "none" => turn'[u] = "active"
    <3>1. turn' = turn /\ exec[t] # "none" /\ \A u \in Turn \ {t} : exec'[u] = exec[u]
      BY <1>0, <2>1 DEF Round, Settle, EstablishFence, Break, LoseCrossing
    <3> QED  BY <1>0, <3>1
  <2>2. ASSUME NEW t \in Turn, Ends(t)
        PROVE  \A u \in Turn : exec'[u] # "none" => turn'[u] = "active"
    <3>1. exec' = [exec EXCEPT ![t] = "none"] /\ \A u \in Turn \ {t} : turn'[u] = turn[u]
      BY <1>0, <2>2 DEF Ends, Complete, HandOff, Stop, Fail, EndAs
    <3> QED  BY <1>0, <3>1
  <2>3. ASSUME NEW d \in Item, Handle(d)
        PROVE  \A u \in Turn : exec'[u] # "none" => turn'[u] = "active"
    BY <1>0, <2>3 DEF Handle, AskAgain
  <2>4. ASSUME NEW h \in Host, Admit(h)
        PROVE  \A u \in Turn : exec'[u] # "none" => turn'[u] = "active"
    <3>1. \/ UNCHANGED <<turn, exec>>
          \/ /\ turn' = [turn EXCEPT ![offer[h].turn] = "active"]
             /\ exec' = [exec EXCEPT ![offer[h].turn] = "round"]
      BY <2>4 DEF Admit
    <3> QED  BY <1>0, <3>1
  <2>5. ASSUME NEW h \in Host, Exit(h)
        PROVE  \A u \in Turn : exec'[u] # "none" => turn'[u] = "active"
    BY <1>0, <2>5 DEF Exit, ResumeFrom
  <2>6. ASSUME exec' = exec, \A u \in Turn : turn[u] = "active" => turn'[u] = "active"
        PROVE  \A u \in Turn : exec'[u] # "none" => turn'[u] = "active"
    BY <1>0, <2>6
  <2>7. ASSUME NEW h \in Host, Call(h) \/ LateEffect(h)
        PROVE  \A u \in Turn : exec'[u] # "none" => turn'[u] = "active"
    <3>1. PICK d \in Item : \E action : Effect(d, action)
      BY <2>7, Works, TypedParts DEF Call, LateEffect, At, IInv, TypedHosts
    <3>2. \A u \in Turn : turn'[u] = turn[u] \/ turn[u] = "absent"
      BY <3>1, Handling DEF IInv
    <3> QED  BY <2>6, <2>7, <3>2 DEF Call, LateEffect
  <2>8. ASSUME NEW t \in Turn, Submit(t)
        PROVE  \A u \in Turn : exec'[u] # "none" => turn'[u] = "active"
    BY <1>0, <2>6, <2>8 DEF Submit
  <2>9. ASSUME UNCHANGED <<turn, exec>>
        PROVE  \A u \in Turn : exec'[u] # "none" => turn'[u] = "active"
    BY <2>6, <2>9
  <2>10. ASSUME NEW h \in Host,
                \/ Offer(h) \/ ReadDispatch(h) \/ Create(h) \/ WakeFor(h) \/ ReadWake(h)
                \/ Retarget(h) \/ Act(h) \/ Finish(h) \/ TimeOut(h) \/ Throw(h)
                \/ \E b \in Box, d \in Item : Claim(h, b, d) \/ Reclaim(h, b, d)
         PROVE  UNCHANGED <<turn, exec>>
    BY <2>10 DEF Offer, ReadDispatch, Create, WakeFor, ReadWake, Retarget, Act, Finish, TimeOut,
                 Throw, Claim, Reclaim, life
  <2>11. ASSUME NEW d \in Item,
                \/ Arise(d) \/ RouteAnswer(d) \/ Supersede(d) \/ Advance(d) \/ EnsureWake(d)
                \/ \E b \in Box : Expire(b, d)
         PROVE  UNCHANGED <<turn, exec>>
    BY <2>11 DEF Arise, RouteAnswer, Supersede, Advance, EnsureWake, Expire, life
  <2>12. ASSUME NEW t \in Turn, Interrupt(t)
         PROVE  UNCHANGED <<turn, exec>>
    BY <2>12 DEF Interrupt
  <2>13. CASE UNCHANGED vars
    BY <2>9, <2>13 DEF vars, life
  <2>14. CASE Next
    BY <2>1, <2>2, <2>3, <2>4, <2>5, <2>7, <2>8, <2>9, <2>10, <2>11, <2>12, <2>14 DEF Next, ScanStep
  <2> QED  BY <2>13, <2>14
<1> QED  BY <1>1, <1>2 DEF TurnsRun

-----------------------------------------------------------------------------
(* Claims and what scans believe *)

\* One host's scan goes on with its row, or leaves it
LEMMA OwnRow ==
    ASSUME Claimed, NEW h \in Host,
           \A g \in Host \ {h} : scan'[g] = scan[g],
           \/ scan'[h] = Idle \/ scan'[h] = scan[h]
           \/ /\ scan[h] # Idle /\ scan'[h].box = scan[h].box
              /\ scan'[h].item = scan[h].item /\ scan'[h].valid = scan[h].valid,
           \A b \in Box, d \in Item :
              \/ row'[b][d].state = row[b][d].state \/ row[b][d] = NoRow
              \/ Holds(h, b, d) /\ scan'[h] = Idle
    PROVE  Claimed'
<1>1. ASSUME NEW g \in Host, NEW b \in Box, NEW d \in Item, Holds(g, b, d)'
      PROVE  Holds(g, b, d)
  BY <1>1 DEF Holds
<1>2. ASSUME NEW g \in Host, NEW b \in Box, NEW d \in Item, Holds(g, b, d)'
      PROVE  row'[b][d].state = "claimed"
  <2>1. Holds(g, b, d) /\ row[b][d].state = "claimed" /\ row[b][d] # NoRow
    BY <1>1, <1>2 DEF Claimed, NoRow
  <2>2. CASE Holds(h, b, d) /\ scan'[h] = Idle
    BY <1>2, <2>1, <2>2 DEF Claimed, Holds
  <2> QED  BY <2>1, <2>2
<1> QED  BY <1>1, <1>2 DEF Claimed

\* A row is created, or nothing about claims changes
LEMMA OtherRow ==
    ASSUME Claimed, scan' = scan,
           \A b \in Box, d \in Item : row'[b][d].state = row[b][d].state \/ row[b][d] = NoRow
    PROVE  Claimed'
<1>1. ASSUME NEW b \in Box, NEW d \in Item, row[b][d].state = "claimed"
      PROVE  row'[b][d].state = "claimed"
  BY <1>1 DEF NoRow
<1> QED  BY <1>1 DEF Claimed, Holds

LEMMA ClaimsByScan ==
    ASSUME IInv, NEW h \in Host, ScanStep(h) \/ TimeOut(h) \/ Throw(h)
    PROVE  Claimed'
<1> DEFINE d == scan[h].item
<1>0. Typed /\ Claimed /\ FailuresLeft /\ TypedRows /\ scan \in [Host -> ScanOf]
  BY TypedParts DEF IInv, TypedHosts
<1>1. ASSUME scan[h] # Idle, FailClaim(h)
      PROVE  Claimed'
  <2>1. scan'[h] = Idle /\ \A g \in Host \ {h} : scan'[g] = scan[g]
    BY <1>0, <1>1, Failing
  <2>2. \A b \in Box, e \in Item : row'[b][e] = row[b][e] \/ Holds(h, b, e)
    BY <1>0, <1>1, Failing
  <2> QED  BY <1>0, <2>1, <2>2, OwnRow
<1>2. ASSUME scan[h] # Idle, NEW q, scan' = [scan EXCEPT ![h] = q], q.item = d,
             q.box = scan[h].box, q.valid = scan[h].valid, row' = row
      PROVE  Claimed'
  BY <1>0, <1>2, OwnRow
<1>3. ASSUME scan' = [scan EXCEPT ![h] = Idle], NEW b \in Box, NEW new, scan[h] # Idle,
             scan[h].box = b,
             row' = IF scan[h].valid THEN [row EXCEPT ![b][d] = new] ELSE row
      PROVE  Claimed'
  <2>1. scan'[h] = Idle /\ \A g \in Host \ {h} : scan'[g] = scan[g]
    BY <1>0, <1>3
  <2>2. \A c \in Box, e \in Item : row'[c][e] = row[c][e] \/ Holds(h, c, e)
    BY <1>0, <1>3 DEF TypedRows, Holds
  <2> QED  BY <1>0, <2>1, <2>2, OwnRow
<1>4. ASSUME scan[h].box = "wake", scan[h] # Idle, Bury(h)
      PROVE  Claimed'
  <2>1. PICK new : row' = IF scan[h].valid THEN [row EXCEPT !["wake"][d] = new] ELSE row
    <3>1. row' = IF scan[h].valid THEN [row EXCEPT !["wake"][d] = [@ EXCEPT !.state = "dead"]] ELSE row
      BY <1>4 DEF Bury
    <3> QED  BY <3>1
  <2> QED  BY <1>3, <1>4, <2>1 DEF Bury, Box
<1>5. CASE ReadDispatch(h)
  <2>1. scan[h] # Idle /\ scan[h].box = "dispatch"
    BY <1>0, <1>5, Works DEF ReadDispatch, At
  <2>2. \/ scan' = [scan EXCEPT ![h] = Seen(h, "create", d)]
        \/ delivery[d] # NoDelivery /\ scan' = [scan EXCEPT ![h] = ToWake(h, delivery[d].state)]
    BY <1>5 DEF ReadDispatch
  <2>3. row' = row
    BY <1>5 DEF ReadDispatch
  <2> QED  BY <1>2, <2>1, <2>2, <2>3 DEF Seen, ToWake
<1>6. CASE Create(h)
  <2>1. scan[h] # Idle /\ scan[h].box = "dispatch"
    BY <1>0, <1>6, Works DEF Create, At, IInv, Looks
  <2>2. \/ FailClaim(h)
        \/ row' = row /\ \E state \in {delivery[d].state, "pending"} :
                            scan' = [scan EXCEPT ![h] = ToWake(h, state)]
    BY <1>6 DEF Create
  <2> QED  BY <1>1, <1>2, <2>1, <2>2 DEF ToWake
<1>7. CASE WakeFor(h)
  <2>1. scan[h] # Idle /\ scan[h] \in ScanOf
    BY <1>0, <1>7, Works DEF WakeFor, At
  <2> DEFINE q == [scan[h] EXCEPT !.at = "done"]
  <2>2. q.item = d /\ q.box = scan[h].box /\ q.valid = scan[h].valid
    BY <1>7, <2>1, NextStage DEF WakeFor, At
  <2>3. Go(h, "done") => scan' = [scan EXCEPT ![h] = q]
    BY <1>0 DEF Go
  <2>4. CASE row["wake"][d] = NoRow /\ delivery[d].state = scan[h].saw
    <3>1. Go(h, "done") /\ \E new : row' = [row EXCEPT !["wake"][d] = new]
      BY <1>7, <2>4 DEF WakeFor
    <3>2. \A b \in Box, e \in Item : row'[b][e] = row[b][e] \/ row[b][e] = NoRow
      BY <1>0, <2>4, <3>1 DEF TypedRows
    <3>3. scan'[h] = q /\ \A g \in Host \ {h} : scan'[g] = scan[g]
      BY <1>0, <2>3, <3>1
    <3> QED  BY ZenonT(60), <1>0, <2>1, <2>2, <3>2, <3>3, OwnRow
  <2>5. CASE FailClaim(h)
    BY <1>1, <2>1, <2>5
  <2>6. CASE Go(h, "done") /\ row' = row
    BY <1>2, <2>1, <2>2, <2>3, <2>6
  <2> QED  BY <1>7, <2>4, <2>5, <2>6 DEF WakeFor
<1>8. CASE ReadWake(h)
  <2>1. scan[h] # Idle /\ scan[h] \in ScanOf /\ scan[h].box = "wake"
    BY <1>0, <1>8, Works DEF ReadWake, At
  <2> DEFINE q == [scan[h] EXCEPT !.at = "act"]
  <2>2. q.item = d /\ q.box = scan[h].box /\ q.valid = scan[h].valid
    BY <1>8, <2>1, NextStage DEF ReadWake, At
  <2>3. Go(h, "act") => scan' = [scan EXCEPT ![h] = q]
    BY <1>0 DEF Go
  <2>4. CASE Bury(h)
    BY <1>4, <2>1, <2>4
  <2>5. CASE Go(h, "act") /\ row' = row
    BY <1>2, <2>1, <2>2, <2>3, <2>5
  <2>6. CASE scan' = [scan EXCEPT ![h] = Seen(h, "retarget", d)] /\ row' = row
    BY <1>2, <2>1, <2>6 DEF Seen
  <2> QED  BY <1>8, <2>4, <2>5, <2>6 DEF ReadWake
<1>9. CASE Retarget(h)
  <2>1. scan[h] # Idle /\ scan[h] \in ScanOf
    BY <1>0, <1>9, Works DEF Retarget, At
  <2> DEFINE q == [scan[h] EXCEPT !.at = "act"]
  <2>2. q.item = d /\ q.box = scan[h].box /\ q.valid = scan[h].valid
    BY <1>9, <2>1, NextStage DEF Retarget, At
  <2>3. Go(h, "act") => scan' = [scan EXCEPT ![h] = q]
    BY <1>0 DEF Go
  <2>4. FailClaim(h) \/ (Go(h, "act") /\ row' = row)
    BY <1>9 DEF Retarget
  <2> QED  BY <1>1, <1>2, <2>1, <2>2, <2>3, <2>4
<1>10. CASE Act(h)
  <2>1. scan[h] # Idle /\ scan[h].box = "wake"
    BY <1>0, <1>10, Works DEF Act, At, IInv, Looks
  <2>2. CASE Bury(h)
    BY <1>4, <2>1, <2>2
  <2>3. CASE ~Bury(h)
    <3>1. /\ row' = row
          /\ scan' = [scan EXCEPT ![h] = [at |-> "call", box |-> "wake", item |-> d,
                                          valid |-> scan[h].valid, action |-> ActionFor(d)]]
      BY <1>0, <1>10, <2>3 DEF Act
    <3> QED  BY <1>2, <2>1, <3>1
  <2> QED  BY <2>2, <2>3
<1>11. CASE Call(h)
  <2>1. scan[h] # Idle /\ scan[h].box = "wake"
    BY <1>0, <1>11, Works DEF Call, At, IInv, Looks
  <2>2. /\ row' = row
        /\ scan' = [scan EXCEPT ![h] =
                      [at |-> IF Acknowledges(d, scan[h].action) THEN "done" ELSE "retry",
                       box |-> "wake", item |-> d, valid |-> scan[h].valid]]
    BY <1>0, <1>11 DEF Call
  <2> QED  BY <1>2, <2>1, <2>2
<1>12. CASE Finish(h)
  <2>1. scan[h] # Idle /\ scan[h].box \in Box
    BY <1>0, <1>12, Works DEF Finish
  <2>2. PICK new : row' = IF scan[h].valid THEN [row EXCEPT ![scan[h].box][d] = new] ELSE row
    <3>1. row' = IF scan[h].valid
                 THEN [row EXCEPT ![scan[h].box][d] =
                         [@ EXCEPT !.state = IF At(h, "done") THEN "done" ELSE "pending"]]
                 ELSE row
      BY <1>12 DEF Finish
    <3> QED  BY <3>1
  <2> QED  BY <1>3, <1>12, <2>1, <2>2 DEF Finish
<1>13. CASE TimeOut(h) \/ Throw(h)
  <2>1. scan[h] # Idle /\ FailClaim(h)
    BY <1>0, <1>13, Works DEF TimeOut, Throw, At
  <2> QED  BY <1>1, <2>1
<1> QED  BY <1>5, <1>6, <1>7, <1>8, <1>9, <1>10, <1>11, <1>12, <1>13 DEF ScanStep

LEMMA ClaimsByClaim ==
    ASSUME IInv, NEW h \in Host, NEW b \in Box, NEW d \in Item, Claim(h, b, d) \/ Reclaim(h, b, d)
    PROVE  Claimed'
<1>0. Typed /\ Claimed /\ TypedRows /\ scan \in [Host -> ScanOf] /\ row[b][d] \in RowOf
  BY TypedParts DEF IInv, TypedHosts, TypedRows
<1>1. CASE Claim(h, b, d)
  <2>1. \A g \in Host : ~Holds(g, b, d)
    BY <1>0, <1>1 DEF Claim, Claimed
  <2>2. /\ scan[h] = Idle /\ scan'[h].box = b /\ scan'[h].item = d
        /\ \A g \in Host \ {h} : scan'[g] = scan[g]
    BY <1>0, <1>1 DEF Claim
  <2>3. /\ row'[b][d].state = "claimed"
        /\ \A c \in Box, e \in Item : <<c, e>> # <<b, d>> => row'[c][e] = row[c][e]
    <3>1. row' = [row EXCEPT ![b][d] = [row[b][d] EXCEPT !.state = "claimed", !.expired = FALSE]]
      BY <1>0, <1>1 DEF Claim, TypedRows
    <3> QED  BY <1>0, <3>1 DEF TypedRows, RowOf
  <2>4. \A g \in Host, c \in Box, e \in Item :
           Holds(g, c, e)' => Holds(g, c, e) \/ (g = h /\ c = b /\ e = d)
    BY <2>2 DEF Holds
  <2> QED  BY <1>0, <2>1, <2>2, <2>3, <2>4 DEF Claimed, Holds
<1>2. CASE Reclaim(h, b, d)
  <2>1. ASSUME NEW g \in Host, NEW c \in Box, NEW e \in Item, Holds(g, c, e)'
        PROVE  Holds(g, c, e) /\ <<c, e>> # <<b, d>>
    <3>1. scan'[g] = Fenced(g, b, d) /\ scan[g] \in ScanOf
      BY <1>0, <1>2 DEF Reclaim
    <3> QED  BY <2>1, <3>1, LosesClaim DEF Holds, Fenced
  <2>2. \A c \in Box, e \in Item : <<c, e>> # <<b, d>> => row'[c][e] = row[c][e]
    <3>1. row' = [row EXCEPT ![b][d] = [row[b][d] EXCEPT !.state = "pending", !.expired = FALSE]]
      BY <1>0, <1>2 DEF Reclaim, TypedRows
    <3> QED  BY <1>0, <3>1 DEF TypedRows
  <2> QED  BY <1>0, <2>1, <2>2 DEF Claimed
<1> QED  BY <1>1, <1>2

LEMMA ClaimsStep == IInv /\ [Next]_vars => Claimed'
<1> SUFFICES ASSUME IInv, [Next]_vars  PROVE Claimed'
  OBVIOUS
<1>0. Claimed /\ TypedRows /\ scan \in [Host -> ScanOf]
  BY TypedParts DEF IInv, TypedHosts
<1>1. ASSUME UNCHANGED <<row, scan>>
      PROVE  Claimed'
  BY <1>0, <1>1, OtherRow
<1>2. ASSUME NEW t \in Turn,
             \/ Interrupt(t) \/ Submit(t) \/ Round(t) \/ Settle(t) \/ EstablishFence(t)
             \/ Break(t) \/ LoseCrossing(t) \/ Ends(t)
      PROVE  UNCHANGED <<row, scan>>
  BY <1>2 DEF Interrupt, Submit, Round, Settle, EstablishFence, Break, LoseCrossing,
              Ends, Complete, HandOff, Stop, Fail, EndAs, rows
<1>3. ASSUME NEW d \in Item, RouteAnswer(d) \/ Supersede(d) \/ Advance(d) \/ Handle(d)
      PROVE  UNCHANGED <<row, scan>>
  BY <1>3 DEF RouteAnswer, Supersede, Advance, Handle
<1>4. ASSUME NEW h \in Host, Offer(h) \/ Admit(h) \/ LateEffect(h)
      PROVE  UNCHANGED <<row, scan>>
  BY <1>4 DEF Offer, Admit, LateEffect, rows
<1>5. ASSUME NEW d \in Item, Arise(d) \/ EnsureWake(d) \/ \E b \in Box : Expire(b, d)
      PROVE  Claimed'
  <2>1. scan' = scan
    BY <1>5 DEF Arise, EnsureWake, Expire
  <2>2. \A b \in Box, e \in Item : row'[b][e].state = row[b][e].state \/ row[b][e] = NoRow
    <3>1. CASE Arise(d) \/ EnsureWake(d)
      BY <1>0, <3>1 DEF Arise, EnsureWake, TypedRows
    <3>2. ASSUME NEW b \in Box, Expire(b, d)
          PROVE  \A c \in Box, e \in Item : row'[c][e].state = row[c][e].state
      <4>1. row' = [row EXCEPT ![b][d] = [row[b][d] EXCEPT !.expired = TRUE]]
        BY <1>0, <3>2 DEF Expire, TypedRows
      <4> QED  BY <1>0, <4>1 DEF TypedRows, RowOf
    <3> QED  BY <1>5, <3>1, <3>2
  <2> QED  BY <1>0, <2>1, <2>2, OtherRow
<1>6. ASSUME NEW h \in Host, Exit(h)
      PROVE  Claimed'
  <2>1. scan'[h] = Idle /\ (\A g \in Host \ {h} : scan'[g] = scan[g]) /\ row' = row
    BY <1>0, <1>6 DEF Exit, rows
  <2> QED  BY <1>0, <2>1, OwnRow
<1>7. CASE UNCHANGED vars
  BY <1>1, <1>7 DEF vars, rows
<1>8. CASE Next
  BY <1>1, <1>2, <1>3, <1>4, <1>5, <1>6, <1>8, ClaimsByScan, ClaimsByClaim DEF Next
<1> QED  BY <1>7, <1>8

\* What a scan believes stays true while it does not move
Look(h) ==
    /\ scan[h].box = "dispatch" => Ran(Source[scan[h].item])
    /\ scan[h].box = "wake" \/ At(h, "wake") => Exists(scan[h].item)
    /\ At(h, "create") \/ At(h, "retarget") =>
          scan[h].to = RouteOn(scan[h].item, scan[h].evidence)
    /\ At(h, "act") \/ At(h, "call") => scan[h].box = "wake"
    /\ At(h, "create") => scan[h].delivery = NoDelivery /\ scan[h].box = "dispatch"
    /\ At(h, "retarget") => scan[h].delivery.state = "pending" /\ scan[h].box = "wake"

LEMMA LookKept ==
    ASSUME IInv, Steps, Typed', NEW h \in Host, scan[h] # Idle,
           \/ scan'[h] = scan[h]
           \/ scan'[h] = [scan[h] EXCEPT !.valid = FALSE]
    PROVE  Look(h)'
<1>0. Look(h) /\ scan[h] \in ScanOf
  BY DEF IInv, Looks, Look, Typed
<1>1. scan[h].item \in Item /\ Source[scan[h].item] \in Turn
  BY <1>0, ScanFields, ItemAssumption
<1>2. /\ Ran(Source[scan[h].item]) => turn'[Source[scan[h].item]] \notin {"absent", "queued"}
      /\ Exists(scan[h].item) => delivery'[scan[h].item].state # "none"
  BY <1>1, Stable DEF Ran, Exists
<1>3. /\ scan'[h].at = scan[h].at /\ scan'[h].box = scan[h].box /\ scan'[h].item = scan[h].item
      /\ scan[h].at \in {"create", "retarget"} =>
            /\ scan'[h].to = scan[h].to /\ scan'[h].evidence = scan[h].evidence
            /\ scan'[h].delivery = scan[h].delivery
  BY <1>0, LosesClaim
<1> QED  BY <1>0, <1>2, <1>3 DEF Look, At, Ran, Exists

LEMMA LooksByScan ==
    ASSUME IInv, Steps, Typed', NEW h \in Host, ScanStep(h) \/ TimeOut(h) \/ Throw(h)
    PROVE  Looks'
<1> DEFINE d == scan[h].item
<1>0. Typed /\ Claimed /\ FailuresLeft /\ TypedRows /\ scan \in [Host -> ScanOf]
  BY TypedParts DEF IInv, TypedHosts
<1>1. ASSUME NEW q, scan' = [scan EXCEPT ![h] = q], q = Idle \/ Look(h)'
      PROVE  Looks'
  <2>1. ASSUME NEW g \in Host, scan'[g] # Idle
        PROVE  Look(g)'
    <3>1. CASE g = h
      BY <1>0, <1>1, <2>1, <3>1
    <3>2. CASE g # h
      <4>1. scan'[g] = scan[g] /\ scan[g] # Idle
        BY <1>0, <1>1, <2>1, <3>2
      <4> QED  BY <4>1, LookKept
    <3> QED  BY <3>1, <3>2
  <2> QED  BY <2>1 DEF Looks, Look
<1>2. ASSUME scan[h] # Idle, FailClaim(h)
      PROVE  Looks'
  BY <1>0, <1>1, <1>2, Failing
<1>3. ASSUME scan[h] # Idle
      PROVE  /\ d \in Item /\ Source[d] \in Turn /\ scan[h] \in ScanOf /\ Look(h)
             /\ Ran(Source[d]) => turn'[Source[d]] \notin {"absent", "queued"}
             /\ Exists(d) => delivery'[d].state # "none"
  <2>1. d \in Item /\ Source[d] \in Turn /\ scan[h] \in ScanOf /\ Look(h)
    BY <1>0, <1>3, ScanFields, ItemAssumption DEF IInv, Looks, Look
  <2> QED  BY <2>1, Stable DEF Ran, Exists
<1>4. ASSUME scan[h] # Idle, NEW stage \in {"create", "retarget"},
             scan' = [scan EXCEPT ![h] = Seen(h, stage, d)],
             stage = "create" => delivery[d] = NoDelivery /\ scan[h].box = "dispatch",
             stage = "retarget" => delivery[d].state = "pending" /\ scan[h].box = "wake"
      PROVE  Looks'
  <2> DEFINE q == Seen(h, stage, d)
  <2>1. /\ scan'[h] = q /\ q.at = stage /\ q.box = scan[h].box /\ q.item = d
        /\ q.to = RouteOn(d, q.evidence) /\ q.delivery = delivery[d]
    BY <1>0, <1>3, <1>4, SeenTyped
  <2>2. Look(h)'
    BY <1>3, <1>4, <2>1 DEF Look, At, Ran, Exists
  <2> QED  BY <1>1, <1>4, <2>2
<1>5. ASSUME scan[h] # Idle, NEW state, scan' = [scan EXCEPT ![h] = ToWake(h, state)],
             scan[h].box = "dispatch", delivery'[d].state # "none"
      PROVE  Looks'
  <2>1. /\ scan'[h].at = "wake" /\ scan'[h].box = "dispatch" /\ scan'[h].item = d
    BY <1>0, <1>5 DEF ToWake
  <2>2. Look(h)'
    BY <1>3, <1>5, <2>1 DEF Look, At, Ran, Exists
  <2> QED  BY <1>1, <1>5, <2>2
<1>6. ASSUME NEW stage \in {"act", "done"}, Go(h, stage),
             \/ scan[h].at \in {"read", "retarget"} /\ stage = "act" /\ scan[h].box = "wake"
             \/ scan[h].at = "wake" /\ stage = "done"
      PROVE  Looks'
  <2> DEFINE q == [scan[h] EXCEPT !.at = stage]
  <2>1. scan[h] \in ScanOf /\ scan' = [scan EXCEPT ![h] = q]
    BY <1>0, <1>6 DEF Go
  <2>2. scan[h] # Idle /\ q.at = stage /\ q.box = scan[h].box /\ q.item = scan[h].item
    BY <1>6, <2>1, NextStage
  <2>3. scan'[h] = q
    BY <1>0, <2>1
  <2>4. Look(h)'
    BY <1>3, <1>6, <2>2, <2>3 DEF Look, At, Ran, Exists
  <2> QED  BY <1>1, <2>1, <2>4
<1>7. CASE ReadDispatch(h)
  <2>1. scan[h] # Idle /\ scan[h].box = "dispatch"
    BY <1>0, <1>7, Works DEF ReadDispatch, At
  <2>2. \/ delivery[d] = NoDelivery /\ scan' = [scan EXCEPT ![h] = Seen(h, "create", d)]
        \/ delivery[d] # NoDelivery /\ scan' = [scan EXCEPT ![h] = ToWake(h, delivery[d].state)]
    BY <1>7 DEF ReadDispatch
  <2>3. delivery[d] # NoDelivery => delivery'[d].state # "none"
    BY <1>0, <1>3, <2>1, States
  <2> QED  BY <1>4, <1>5, <2>1, <2>2, <2>3
<1>8. CASE Create(h)
  <2>1. scan[h] # Idle /\ scan[h].box = "dispatch"
    BY <1>0, <1>8, Works DEF Create, At, IInv, Looks
  <2>2. CASE FailClaim(h)
    BY <1>2, <2>1, <2>2
  <2>3. CASE delivery[d] # NoDelivery
    <3>1. delivery'[d].state # "none" /\ scan' = [scan EXCEPT ![h] = ToWake(h, delivery[d].state)]
      BY <1>0, <1>3, <1>8, <2>1, <2>3, States DEF Create
    <3> QED  BY <1>5, <2>1, <3>1
  <2>4. CASE delivery[d] = NoDelivery /\ Unchanged(h, d)
    <3>1. /\ delivery' = [delivery EXCEPT ![d] = scan[h].to]
          /\ scan' = [scan EXCEPT ![h] = ToWake(h, "pending")]
      BY <1>8, <2>4 DEF Create
    <3>2. scan[h].to = Routed(d) /\ Routed(d).state = "pending"
      BY <1>0, <1>3, <1>8, <2>1, <2>4, RouteHolds, Routes DEF Create
    <3>3. delivery'[d].state # "none"
      BY <1>0, <1>3, <2>1, <3>1, <3>2 DEF TypedRows
    <3> QED  BY <1>5, <2>1, <3>1, <3>3
  <2> QED  BY <1>8, <2>2, <2>3, <2>4 DEF Create
<1>9. CASE WakeFor(h)
  <2>1. scan[h] # Idle /\ scan[h].at = "wake"
    BY <1>0, <1>9, Works DEF WakeFor, At
  <2>2. FailClaim(h) \/ Go(h, "done")
    BY <1>9 DEF WakeFor
  <2> QED  BY <1>2, <1>6, <2>1, <2>2
<1>10. ASSUME Bury(h)
       PROVE  Looks'
  BY <1>1, <1>10 DEF Bury
<1>11. CASE ReadWake(h)
  <2>1. scan[h] # Idle /\ scan[h].at = "read" /\ scan[h].box = "wake"
    BY <1>0, <1>11, Works DEF ReadWake, At
  <2>2. \/ Bury(h) \/ Go(h, "act")
        \/ delivery[d].state = "pending" /\ scan' = [scan EXCEPT ![h] = Seen(h, "retarget", d)]
    BY <1>11 DEF ReadWake
  <2> QED  BY <1>4, <1>6, <1>10, <2>1, <2>2
<1>12. CASE Retarget(h)
  <2>1. scan[h] # Idle /\ scan[h].at = "retarget" /\ scan[h].box = "wake"
    BY <1>0, <1>12, Works DEF Retarget, At, IInv, Looks
  <2>2. FailClaim(h) \/ Go(h, "act")
    BY <1>12 DEF Retarget
  <2> QED  BY <1>2, <1>6, <2>1, <2>2
<1>13. CASE Act(h)
  <2>1. scan[h] # Idle /\ scan[h].box = "wake"
    BY <1>0, <1>13, Works DEF Act, At, IInv, Looks
  <2>2. CASE Bury(h)
    BY <1>10, <2>2
  <2>3. CASE ~Bury(h)
    <3> DEFINE q == [at |-> "call", box |-> "wake", item |-> d,
                     valid |-> scan[h].valid, action |-> ActionFor(d)]
    <3>1. scan' = [scan EXCEPT ![h] = q] /\ scan'[h] = q
      BY <1>0, <1>13, <2>3 DEF Act
    <3>2. Exists(d)
      BY <1>3, <2>1 DEF Look
    <3>3. Look(h)'
      BY <1>3, <2>1, <3>1, <3>2 DEF Look, At, Ran, Exists
    <3> QED  BY <1>1, <3>1, <3>3
  <2> QED  BY <2>2, <2>3
<1>14. CASE Call(h)
  <2>1. scan[h] # Idle /\ scan[h].box = "wake"
    BY <1>0, <1>14, Works DEF Call, At, IInv, Looks
  <2> DEFINE q == [at |-> IF Acknowledges(d, scan[h].action) THEN "done" ELSE "retry",
                   box |-> "wake", item |-> d, valid |-> scan[h].valid]
  <2>2. scan' = [scan EXCEPT ![h] = q] /\ scan'[h] = q
    BY <1>0, <1>14 DEF Call
  <2>3. Exists(d)
    BY <1>3, <2>1 DEF Look
  <2>4. Look(h)'
    BY <1>3, <2>1, <2>2, <2>3 DEF Look, At, Ran, Exists
  <2> QED  BY <1>1, <2>2, <2>4
<1>15. CASE Finish(h)
  BY <1>1, <1>15 DEF Finish
<1>16. CASE TimeOut(h) \/ Throw(h)
  <2>1. scan[h] # Idle /\ FailClaim(h)
    BY <1>0, <1>16, Works DEF TimeOut, Throw, At
  <2> QED  BY <1>2, <2>1
<1> QED  BY <1>7, <1>8, <1>9, <1>11, <1>12, <1>13, <1>14, <1>15, <1>16 DEF ScanStep

LEMMA LooksStep ==
    ASSUME IInv, [Next]_vars, Steps, Typed'
    PROVE  Looks'
<1>0. Typed /\ TypedRows /\ scan \in [Host -> ScanOf]
  BY TypedParts DEF IInv, TypedHosts
<1>1. ASSUME \A g \in Host : \/ scan'[g] = Idle \/ scan'[g] = scan[g]
                             \/ scan'[g] = [scan[g] EXCEPT !.valid = FALSE] /\ scan[g] # Idle
      PROVE  Looks'
  BY <1>1, LookKept DEF Looks, Look
<1>2. ASSUME NEW t \in Turn,
             \/ Interrupt(t) \/ Submit(t) \/ Round(t) \/ Settle(t) \/ EstablishFence(t)
             \/ Break(t) \/ LoseCrossing(t) \/ Ends(t)
      PROVE  scan' = scan
  BY <1>2 DEF Interrupt, Submit, Round, Settle, EstablishFence, Break, LoseCrossing,
              Ends, Complete, HandOff, Stop, Fail, EndAs
<1>3. ASSUME NEW d \in Item,
             \/ Arise(d) \/ RouteAnswer(d) \/ Supersede(d) \/ Advance(d) \/ Handle(d)
             \/ EnsureWake(d) \/ \E b \in Box : Expire(b, d)
      PROVE  scan' = scan
  BY <1>3 DEF Arise, RouteAnswer, Supersede, Advance, Handle, EnsureWake, Expire
<1>4. ASSUME NEW h \in Host, Offer(h) \/ Admit(h) \/ LateEffect(h)
      PROVE  scan' = scan
  BY <1>4 DEF Offer, Admit, LateEffect
<1>5. ASSUME NEW h \in Host, Exit(h)
      PROVE  Looks'
  BY <1>0, <1>1, <1>5 DEF Exit
<1>6. ASSUME NEW h \in Host, NEW b \in Box, NEW d \in Item, Claim(h, b, d)
      PROVE  Looks'
  <2> DEFINE q == [at |-> "read", box |-> b, item |-> d, valid |-> TRUE]
  <2>1. scan' = [scan EXCEPT ![h] = q] /\ scan'[h] = q /\ row[b][d] # NoRow
    BY <1>0, <1>6 DEF Claim, NoRow
  <2>2. /\ b = "dispatch" => Ran(Source[d])
        /\ b = "wake" => Exists(d)
    BY <2>1 DEF IInv, Ranked, Filed
  <2>3. /\ b = "dispatch" => turn'[Source[d]] \notin {"absent", "queued"}
        /\ b = "wake" => delivery'[d].state # "none"
    BY <2>2, Stable, ItemAssumption DEF Ran, Exists
  <2>4. Look(h)'
    BY <2>1, <2>3 DEF Look, At, Ran, Exists
  <2>5. ASSUME NEW g \in Host, scan'[g] # Idle
        PROVE  Look(g)'
    <3>1. CASE g = h
      BY <2>4, <3>1
    <3>2. CASE g # h
      <4>1. scan'[g] = scan[g] /\ scan[g] # Idle
        BY <1>0, <2>1, <2>5, <3>2
      <4> QED  BY <4>1, LookKept
    <3> QED  BY <3>1, <3>2
  <2> QED  BY <2>5 DEF Looks, Look
<1>7. ASSUME NEW h \in Host, NEW b \in Box, NEW d \in Item, Reclaim(h, b, d)
      PROVE  Looks'
  BY <1>0, <1>1, <1>7 DEF Reclaim, Fenced
<1>8. CASE scan' = scan
  BY <1>1, <1>8
<1>9. CASE Next
  BY <1>2, <1>3, <1>4, <1>5, <1>6, <1>7, <1>8, <1>9, LooksByScan DEF Next
<1> QED  BY <1>8, <1>9 DEF vars

-----------------------------------------------------------------------------
(* The invariant, and what follows from it *)

LEMMA InitInvariant == Init => IInv
<1> SUFFICES ASSUME Init  PROVE IInv
  OBVIOUS
<1>1. Typed
  <2>1. TypedLife
    BY ItemAssumption DEF Init, TypedLife, TurnState
  <2>2. TypedRows
    BY RowsWritten DEF Init, TypedRows, Box
  <2>3. TypedHosts
    BY DEF Init, TypedHosts, ScanOf, NoOffer
  <2> QED  BY <2>1, <2>2, <2>3, TypedParts
<1>2. TurnsRun
  BY DEF Init, TurnsRun
<1>3. Filed /\ Ranked /\ NothingUnread /\ FinalIsFinal /\ NoDeadWait
  BY DEF Init, Filed, Ranked, NothingUnread, FinalIsFinal, NoDeadWait, NoDelivery, NoRow, Box, Exists
<1>4. Claimed /\ FailuresLeft /\ Looks
  BY RowsWritten DEF Init, Claimed, FailuresLeft, Looks, Holds, NoRow, Idle, At
<1> QED  BY <1>1, <1>2, <1>3, <1>4 DEF IInv

LEMMA StepInvariant == IInv /\ [Next]_vars => IInv'
<1> SUFFICES ASSUME IInv, [Next]_vars  PROVE IInv'
  OBVIOUS
<1>1. Typed' /\ Steps /\ Claimed'
  BY TypedStep, StepMoves, ClaimsStep
<1>2. TurnsRun' /\ Looks'
  BY <1>1, TurnsStep, LooksStep
<1>3. Filed' /\ FailuresLeft' /\ NoDeadWait' /\ NothingUnread' /\ FinalIsFinal' /\ Ranked'
  BY <1>1, FiledStep, UnreadStep, RankStep
<1> QED  BY <1>1, <1>2, <1>3 DEF IInv

\* The inductive invariant of results on their way to a Turn, for any number of hosts,
\* Turns and results and for any errors, time-outs and exits.
THEOREM Invariance == Spec => []IInv
BY InitInvariant, StepInvariant, PTL DEF Spec

\* deadLetterClaim settles the delivery in the transaction that gives up its wake, and
\* dispatchWake buries the wake of a failed delivery only: no delivery is left waiting.
THEOREM NobodyWaitsForTheDead == Spec => []NoDeadWait
<1>1. IInv => NoDeadWait
  BY DEF IInv
<1> QED  BY <1>1, Invariance, PTL

\* establishFinalOutputFence, createAutomatic, reconcilePendingDelivery and injectionSteps
\* assert the same facts: whoever routes a result, and however long ago he decided, it
\* never enters a Turn whose answer is final.
THEOREM FinalAnswersStand == Spec => []FinalIsFinal
<1>1. IInv => FinalIsFinal
  BY DEF IInv
<1> QED  BY <1>1, Invariance, PTL

\* recordTerminal and injectionSteps exclude each other: an input that was injected and
\* not yet handled always belongs to a Turn that is still running.
THEOREM NoInputIsStranded == Spec => []InputsSound
<1>1. IInv => InputsSound
  BY DEF IInv, InputsSound, Typed
<1> QED  BY <1>1, Invariance, PTL

\* A delivery is consumed or given up once, by whichever of injection, admission,
\* notification and dead letter comes first; the others find it settled.
THEOREM DeliveriesSettleOnce == Spec => SettledOnce
<1>1. IInv /\ [Next]_vars => [\A d \in Item : Settled(d) => delivery'[d] = delivery[d]]_vars
  <2> SUFFICES ASSUME IInv, [Next]_vars, NEW d \in Item, Settled(d)
               PROVE  delivery'[d] = delivery[d]
    OBVIOUS
  <2>1. Move(d)
    BY StepMoves DEF Steps
  <2> QED  BY <2>1 DEF Settled, Move, Kept, RoutedTo, Injected, Joined, Shown, GivenUp, Absorbed,
                       Waiting
<1> QED  BY <1>1, Invariance, PTL DEF Spec, SettledOnce

-----------------------------------------------------------------------------
(* A final answer was given with everything the Turn has absorbed *)

AllSeen(t) == \A d \in Item : link[d] = "handled" /\ delivery[d].target = t => d \in seen

\* Between the request that read the context and the fence, what is absorbed sends
\* the loop back to the model, or the Turn is stopping and gets no fence
AnswersRead ==
    spent.exits = 0 =>
       /\ FinalReadsAll
       /\ \A t \in Turn :
             exec[t] = "settling" \/ (exec[t] = "final" /\ t \notin stopping) => AllSeen(t)

\* Exits are counted, and a context only grows
LEMMA SpentStep ==
    ASSUME IInv, [Next]_vars
    PROVE  \/ spent'.exits = spent.exits
           \/ spent'.exits = spent.exits + 1 /\ \E h \in Host : Exit(h)
<1>0. spent \in [throws: Nat, exits: Nat]
  BY TypedParts DEF IInv, TypedHosts
<1>1. ASSUME NEW h \in Host, Exit(h) \/ TimeOut(h) \/ Throw(h)
      PROVE  \/ spent'.exits = spent.exits
             \/ spent'.exits = spent.exits + 1 /\ \E g \in Host : Exit(g)
  BY <1>0, <1>1 DEF Exit, TimeOut, Throw
<1>2. ASSUME NEW h \in Host,
             \/ Offer(h) \/ Admit(h) \/ ScanStep(h) \/ LateEffect(h)
             \/ \E b \in Box, d \in Item : Claim(h, b, d) \/ Reclaim(h, b, d)
      PROVE  spent' = spent
  BY <1>2 DEF Offer, Admit, ScanStep, ReadDispatch, Create, WakeFor, ReadWake, Retarget, Act, Call,
              Finish, LateEffect, Claim, Reclaim
<1>3. ASSUME NEW d \in Item,
             \/ Arise(d) \/ RouteAnswer(d) \/ Supersede(d) \/ Advance(d) \/ Handle(d)
             \/ EnsureWake(d) \/ \E b \in Box : Expire(b, d)
      PROVE  spent' = spent
  BY <1>3 DEF Arise, RouteAnswer, Supersede, Advance, Handle, EnsureWake, Expire
<1>4. ASSUME NEW t \in Turn,
             \/ Interrupt(t) \/ Submit(t) \/ Round(t) \/ Settle(t) \/ EstablishFence(t)
             \/ Break(t) \/ LoseCrossing(t) \/ Ends(t)
      PROVE  spent' = spent
  BY <1>4 DEF Interrupt, Submit, Round, Settle, EstablishFence, Break, LoseCrossing,
              Ends, Complete, HandOff, Stop, Fail, EndAs
<1>5. CASE spent' = spent
  BY <1>5
<1>6. CASE Next
  BY <1>1, <1>2, <1>3, <1>4, <1>5, <1>6 DEF Next
<1> QED  BY <1>5, <1>6 DEF vars

LEMMA SeenStep ==
    ASSUME [Next]_vars
    PROVE  seen \subseteq seen'
<1>1. ASSUME NEW h \in Host,
             \/ Offer(h) \/ Admit(h) \/ ScanStep(h) \/ TimeOut(h) \/ LateEffect(h) \/ Throw(h) \/ Exit(h)
             \/ \E b \in Box, d \in Item : Claim(h, b, d) \/ Reclaim(h, b, d)
      PROVE  seen' = seen
  BY <1>1 DEF Offer, Admit, ScanStep, ReadDispatch, Create, WakeFor, ReadWake, Retarget, Act, Call,
              Finish, TimeOut, LateEffect, Throw, Exit, Claim, Reclaim, life
<1>2. ASSUME NEW d \in Item,
             \/ Arise(d) \/ RouteAnswer(d) \/ Supersede(d) \/ Advance(d) \/ Handle(d)
             \/ EnsureWake(d) \/ \E b \in Box : Expire(b, d)
      PROVE  seen' = seen
  BY <1>2 DEF Arise, RouteAnswer, Supersede, Advance, Handle, EnsureWake, Expire, life
<1>3. ASSUME NEW t \in Turn,
             \/ Interrupt(t) \/ Submit(t) \/ Round(t) \/ Settle(t) \/ EstablishFence(t)
             \/ Break(t) \/ LoseCrossing(t) \/ Ends(t)
      PROVE  seen \subseteq seen'
  BY <1>3 DEF Interrupt, Submit, Round, Settle, EstablishFence, Break, LoseCrossing,
              Ends, Complete, HandOff, Stop, Fail, EndAs
<1>4. CASE Next
  BY <1>1, <1>2, <1>3, <1>4 DEF Next
<1> QED  BY <1>4 DEF vars, life

LEMMA ReadStep == IInv /\ AnswersRead /\ [Next]_vars => AnswersRead'
<1> SUFFICES ASSUME IInv, AnswersRead, [Next]_vars, spent'.exits = 0
             PROVE  /\ FinalReadsAll'
                    /\ \A t \in Turn : \/ exec'[t] = "settling"
                                       \/ exec'[t] = "final" /\ t \notin stopping'
                                       => AllSeen(t)'
  BY DEF AnswersRead
<1> DEFINE Safe(t)  == exec[t] = "settling" \/ (exec[t] = "final" /\ t \notin stopping)
           Safe2(t) == exec'[t] = "settling" \/ (exec'[t] = "final" /\ t \notin stopping')
           Good == FinalReadsAll' /\ \A t \in Turn : Safe2(t) => AllSeen(t)'
<1>0. Typed /\ TypedLife /\ TypedRows /\ TypedHosts /\ Steps /\ Typed'
  BY TypedParts, TypedStep, StepMoves DEF IInv
<1>1. /\ spent.exits = 0 /\ \A h \in Host : ~Exit(h)
      /\ seen \subseteq seen'
  <2>1. /\ spent \in [throws: Nat, exits: Nat]
        /\ \/ spent'.exits = spent.exits
           \/ spent'.exits = spent.exits + 1 /\ \E h \in Host : Exit(h)
    BY <1>0, SpentStep DEF TypedHosts
  <2>2. ASSUME NEW h \in Host, Exit(h)
        PROVE  spent'.exits = spent.exits + 1
    BY <1>0, <2>2 DEF Exit, TypedHosts
  <2>3. seen \subseteq seen'
    BY SeenStep
  <2> QED  BY <2>1, <2>2, <2>3
<1>2. /\ \A d \in Item : link[d] = "handled" /\ delivery[d].target \in fence => d \in seen
      /\ \A t \in Turn : Safe(t) => AllSeen(t)
  BY <1>1 DEF AnswersRead, FinalReadsAll
\* What was handled keeps its place
<1>3. ASSUME NEW d \in Item, link[d] = "handled"
      PROVE  link'[d] = "handled" /\ delivery'[d] = delivery[d]
  <2>1. delivery[d].state = "consumed" /\ Move(d)
    BY <1>0, <1>3 DEF IInv, Filed, Steps
  <2> QED  BY <1>3, <2>1 DEF Move, Kept, RoutedTo, Injected, Joined, Shown, GivenUp, Absorbed, Waiting
<1>4. ASSUME NEW d \in Item, link'[d] = "handled", link[d] # "handled"
      PROVE  Absorbed(d)
  BY <1>0, <1>4 DEF Steps, Move, Kept, RoutedTo, Injected, Joined, Shown, GivenUp
<1>5. ASSUME \A d \in Item : link'[d] = "handled" => link[d] = "handled", fence' = fence,
             \A t \in Turn : Safe2(t) => Safe(t)
      PROVE  Good
  <2>1. \A d \in Item : link'[d] = "handled" => link[d] = "handled" /\ delivery'[d] = delivery[d]
    BY <1>3, <1>5
  <2> QED  BY <1>1, <1>2, <1>5, <2>1 DEF FinalReadsAll, AllSeen
<1>6. ASSUME link' = link, fence' = fence, \A t \in Turn : Safe2(t) => Safe(t)
      PROVE  Good
  BY <1>5, <1>6
<1>7. ASSUME NEW t \in Turn, Round(t)
      PROVE  Good
  <2>1. /\ UNCHANGED <<link, delivery, fence, stopping>>
        /\ \A d \in Item : link[d] = "handled" /\ delivery[d].target = t => d \in seen'
        /\ \A u \in Turn \ {t} : exec'[u] = exec[u]
    BY <1>0, <1>7 DEF Round, rows, TypedLife
  <2> QED  BY <1>1, <1>2, <2>1 DEF FinalReadsAll, AllSeen
<1>8. ASSUME NEW t \in Turn, EstablishFence(t)
      PROVE  Good
  <2>1. /\ UNCHANGED <<link, delivery, stopping, seen>> /\ exec[t] = "settling"
        /\ fence' \subseteq fence \cup {t} /\ exec'[t] \in {"fenced", "crossed"}
        /\ \A u \in Turn \ {t} : exec'[u] = exec[u]
    BY <1>0, <1>8 DEF EstablishFence, rows, TypedLife
  <2>2. \A u \in Turn : Safe2(u) => Safe(u)
    BY <2>1
  <2>3. AllSeen(t)
    BY <1>2, <2>1
  <2> QED  BY <1>2, <2>1, <2>2, <2>3 DEF FinalReadsAll, AllSeen
<1>9. ASSUME NEW d \in Item, Handle(d)
      PROVE  Good
  <2> DEFINE t == delivery[d].target
  <2>1. /\ link[d] = "pending" /\ Absorbing(t) /\ link' = [link EXCEPT ![d] = "handled"]
        /\ exec' = [exec EXCEPT ![t] = AskAgain(exec[t])]
        /\ UNCHANGED <<fence, stopping, delivery, seen>> /\ t \in Turn
    BY <1>0, <1>9 DEF Handle, IInv, Filed, TypedLife
  <2>2. t \notin fence
    BY <2>1 DEF IInv, FinalIsFinal, Inputs
  <2>3. \A e \in Item \ {d} : link'[e] = link[e]
    BY <1>0, <2>1 DEF TypedRows
  <2>4. ~Safe2(t)
    BY <1>0, <2>1 DEF Absorbing, AskAgain, TypedLife
  <2>5. \A u \in Turn \ {t} : exec'[u] = exec[u]
    BY <1>0, <2>1 DEF TypedLife
  <2> QED  BY <1>2, <2>1, <2>2, <2>3, <2>4, <2>5 DEF FinalReadsAll, AllSeen
<1>10. ASSUME NEW t \in Turn, Settle(t) \/ Break(t) \/ LoseCrossing(t)
       PROVE  Good
  <2>1. UNCHANGED <<link, fence, stopping>> /\ \A u \in Turn : Safe2(u) => Safe(u)
    BY <1>0, <1>10 DEF Settle, Break, LoseCrossing, rows, TypedLife
  <2> QED  BY <1>6, <2>1
<1>11. ASSUME NEW t \in Turn, Ends(t)
       PROVE  Good
  <2>1. /\ UNCHANGED <<link, fence>> /\ stopping' = stopping \ {t}
        /\ exec' = [exec EXCEPT ![t] = "none"]
    BY <1>11 DEF Ends, Complete, HandOff, Stop, Fail, EndAs, rows
  <2>2. \A u \in Turn : Safe2(u) => Safe(u)
    BY <1>0, <2>1 DEF TypedLife
  <2> QED  BY <1>6, <2>1, <2>2
<1>12. ASSUME NEW t \in Turn, Interrupt(t)
       PROVE  Good
  BY <1>6, <1>12 DEF Interrupt, rows
<1>13. ASSUME NEW h \in Host, Admit(h)
       PROVE  Good
  <2>1. /\ UNCHANGED <<fence, stopping>>
        /\ \/ exec' = exec
           \/ exec' = [exec EXCEPT ![offer[h].turn] = "round"]
    BY <1>13 DEF Admit
  <2>2. \A u \in Turn : Safe2(u) => Safe(u)
    BY <1>0, <2>1 DEF TypedLife
  <2>3. \A d \in Item : link'[d] = "handled" => link[d] = "handled"
    BY <1>0, <1>13 DEF Admit, TypedRows
  <2> QED  BY <1>5, <2>1, <2>2, <2>3
<1>14. ASSUME NEW d \in Item, Advance(d)
       PROVE  Good
  <2>1. \A e \in Item : link'[e] = "handled" => link[e] = "handled"
    BY <1>0, <1>14 DEF Advance, InjectOrRetarget, Inject, TypedRows
  <2> QED  BY <1>5, <1>14, <2>1 DEF Advance, life
<1>15. ASSUME UNCHANGED <<fence, stopping, exec, link>>
       PROVE  Good
  BY <1>6, <1>15
<1>16. ASSUME NEW h \in Host,
              \/ Offer(h) \/ ScanStep(h) \/ TimeOut(h) \/ LateEffect(h) \/ Throw(h)
              \/ \E b \in Box, d \in Item : Claim(h, b, d) \/ Reclaim(h, b, d)
       PROVE  UNCHANGED <<fence, stopping, exec, link>>
  BY <1>16 DEF Offer, ScanStep, ReadDispatch, Create, WakeFor, ReadWake, Retarget, Act, Call, Finish,
               TimeOut, LateEffect, Throw, Claim, Reclaim, life, rows
<1>17. ASSUME NEW d \in Item,
              \/ Arise(d) \/ RouteAnswer(d) \/ Supersede(d) \/ EnsureWake(d)
              \/ \E b \in Box : Expire(b, d)
       PROVE  UNCHANGED <<fence, stopping, exec, link>>
  BY <1>17 DEF Arise, RouteAnswer, Supersede, EnsureWake, Expire, life
<1>18. ASSUME NEW t \in Turn, Submit(t)
       PROVE  UNCHANGED <<fence, stopping, exec, link>>
  BY <1>18 DEF Submit, rows
<1>19. CASE UNCHANGED vars
  BY <1>15, <1>19 DEF vars, life, rows
<1>20. CASE Next
  BY <1>1, <1>7, <1>8, <1>9, <1>10, <1>11, <1>12, <1>13, <1>14, <1>15, <1>16, <1>17, <1>18, <1>20
     DEF Next
<1> QED  BY <1>19, <1>20

\* establishFinalOutputFence and the Agent loop: a final answer was asked for with every
\* result its Turn has absorbed, for any number of results and hosts, as long as no host
\* exits.  (An exit between absorbing and asking again breaks it: run delivery_replay.)
THEOREM AnswersReadAll == Spec => [](spent.exits = 0 => FinalReadsAll)
<1>1. Init => AnswersRead
  BY DEF Init, AnswersRead, FinalReadsAll, AllSeen
<1>2. AnswersRead => (spent.exits = 0 => FinalReadsAll)
  BY DEF AnswersRead
<1> QED  BY <1>1, <1>2, ReadStep, Invariance, PTL DEF Spec

-----------------------------------------------------------------------------
(* What carries on a result whose wake was acknowledged *)

\* A continuation is queued for a delivery that has left the current Turn, and the
\* admission that starts it takes the delivery along
Behind(d) == delivery[d].phase \in {"next_turn", "notify_only"}

Continues(h, d) ==
    \/ At(h, "call") /\ scan[h].item = d /\ scan[h].action = "continue"
    \/ <<d, "continue">> \in late[h]

Continued ==
    \A d \in Item :
       /\ turn[Continuation[d]] # "absent" => Behind(d)
       /\ Ran(Continuation[d]) => d \notin Waiting
       /\ \A h \in Host :
             /\ Continues(h, d) => Behind(d)
             /\ offer[h].turn = Continuation[d] /\ d \in Waiting => d \in offer[h].items

Offered == \A h \in Host : offer[h].turn # NoTurn => turn[offer[h].turn] # "absent"

\* Who writes a delivery to the next Turn again
LEMMA NextRoute ==
    ASSUME IInv, [Next]_vars, NEW d \in Item, delivery[d].phase = "next_turn"
    PROVE  \/ /\ delivery'[d].phase = "next_turn"
              /\ delivery'[d] = delivery[d] \/ delivery'[d].state \in {"consumed", "failed"}
           \/ \E h \in Host : Retarget(h) /\ scan[h].item = d
<1> DEFINE Good == \/ /\ delivery'[d].phase = "next_turn"
                      /\ delivery'[d] = delivery[d] \/ delivery'[d].state \in {"consumed", "failed"}
                   \/ \E h \in Host : Retarget(h) /\ scan[h].item = d
<1>0. Typed /\ TypedRows /\ TypedHosts /\ Claimed /\ FailuresLeft /\ Filed
  BY TypedParts DEF IInv
<1>1. CASE delivery'[d] = delivery[d]
  BY <1>1
<1>2. ASSUME NEW h \in Host, scan[h] # Idle, FailClaim(h)
      PROVE  Good
  BY <1>0, <1>2, Failing DEF Same
<1>3. ASSUME NEW e \in Item, NEW action, Effect(e, action)
      PROVE  delivery'[d] = delivery[d]
  BY <1>0, <1>3, Handling
<1>4. ASSUME NEW e \in Item,
             \/ Arise(e) \/ RouteAnswer(e) \/ Supersede(e) \/ Advance(e) \/ Handle(e)
             \/ EnsureWake(e) \/ \E b \in Box : Expire(b, e)
      PROVE  delivery'[d] = delivery[d]
  <2>1. CASE RouteAnswer(e)
    BY <1>0, <2>1 DEF RouteAnswer, NoDelivery, TypedRows
  <2>2. CASE Advance(e)
    BY <1>0, <2>2, Injecting DEF Advance, Kept
  <2> QED  BY <1>4, <2>1, <2>2 DEF Arise, Supersede, Handle, EnsureWake, Expire
<1>5. ASSUME NEW t \in Turn,
             \/ Interrupt(t) \/ Submit(t) \/ Round(t) \/ Settle(t) \/ EstablishFence(t)
             \/ Break(t) \/ LoseCrossing(t) \/ Ends(t)
      PROVE  delivery' = delivery
  BY <1>5 DEF Interrupt, Submit, Round, Settle, EstablishFence, Break, LoseCrossing,
              Ends, Complete, HandOff, Stop, Fail, EndAs, rows
<1>6. ASSUME NEW h \in Host,
             \/ Offer(h) \/ Exit(h) \/ ReadDispatch(h) \/ ReadWake(h) \/ Act(h) \/ Finish(h)
             \/ \E b \in Box, e \in Item : Claim(h, b, e) \/ Reclaim(h, b, e)
      PROVE  delivery' = delivery
  BY <1>6 DEF Offer, Exit, ReadDispatch, ReadWake, Act, Finish, Claim, Reclaim, rows
<1>7. ASSUME NEW h \in Host, TimeOut(h) \/ Throw(h) \/ WakeFor(h)
      PROVE  Good
  <2>1. scan[h] # Idle /\ (FailClaim(h) \/ delivery' = delivery)
    BY <1>0, <1>7, Works DEF TimeOut, Throw, WakeFor, At
  <2> QED  BY <1>1, <1>2, <2>1
<1>8. ASSUME NEW h \in Host, Create(h)
      PROVE  Good
  <2>1. scan[h] # Idle /\ scan[h].item \in Item
    BY <1>0, <1>8, Works DEF Create, At
  <2>2. \/ FailClaim(h) \/ delivery' = delivery
        \/ /\ delivery[scan[h].item] = NoDelivery
           /\ delivery' = [delivery EXCEPT ![scan[h].item] = scan[h].to]
    BY <1>8 DEF Create
  <2>3. delivery[d] # NoDelivery
    BY DEF NoDelivery
  <2> QED  BY <1>0, <1>1, <1>2, <2>1, <2>2, <2>3 DEF TypedRows
<1>9. ASSUME NEW h \in Host, Retarget(h)
      PROVE  Good
  <2>1. scan[h] # Idle /\ scan[h].item \in Item
    BY <1>0, <1>9, Works DEF Retarget, At
  <2>2. FailClaim(h) \/ delivery' = [delivery EXCEPT ![scan[h].item] = scan[h].to]
    BY <1>9 DEF Retarget
  <2> QED  BY <1>0, <1>1, <1>2, <1>9, <2>1, <2>2 DEF TypedRows
<1>10. ASSUME NEW h \in Host, Call(h) \/ LateEffect(h)
       PROVE  delivery'[d] = delivery[d]
  <2>1. CASE Call(h)
    <3>1. scan[h].item \in Item
      BY <1>0, <2>1, Works DEF Call, At
    <3> QED  BY <1>3, <2>1, <3>1 DEF Call
  <2>2. CASE LateEffect(h)
    <3>1. PICK x \in late[h] : Effect(x[1], x[2])
      BY <2>2 DEF LateEffect
    <3>2. x[1] \in Item
      BY <1>0 DEF TypedHosts
    <3> QED  BY <1>3, <3>1, <3>2
  <2> QED  BY <1>10, <2>1, <2>2
<1>11. ASSUME NEW h \in Host, Admit(h)
       PROVE  Good
  <2>1. \/ delivery' = delivery
        \/ delivery'[d] = delivery[d]
        \/ delivery'[d] = [delivery[d] EXCEPT !.state = "consumed", !.target = offer[h].turn]
    BY <1>11 DEF Admit
  <2>2. delivery[d] \in Delivery
    BY <1>0 DEF TypedRows, NoDelivery
  <2> QED  BY <1>1, <2>1, <2>2 DEF Delivery
<1>12. CASE UNCHANGED vars
  BY <1>1, <1>12 DEF vars, rows
<1>13. CASE Next
  BY <1>1, <1>4, <1>5, <1>6, <1>7, <1>8, <1>9, <1>10, <1>11, <1>13 DEF Next, ScanStep
<1> QED  BY <1>12, <1>13

\* Who queues a continuation
LEMMA WhoQueues ==
    ASSUME IInv, [Next]_vars, NEW d \in Item, turn[Continuation[d]] = "absent",
           turn'[Continuation[d]] # "absent"
    PROVE  \E h \in Host : Continues(h, d)
<1> DEFINE t0 == Continuation[d]
<1>0. Typed /\ TypedLife /\ TypedHosts /\ t0 \in Turn
  BY TypedParts, ItemAssumption DEF IInv
<1>1. ASSUME NEW e \in Item, NEW action, Effect(e, action)
      PROVE  e = d /\ action = "continue"
  <2>1. Continuation[e] = t0 /\ action = "continue"
    BY <1>0, <1>1 DEF Effect, TypedLife
  <2> QED  BY <2>1, ItemAssumption
<1>2. ASSUME NEW h \in Host, Call(h)
      PROVE  Continues(h, d)
  <2>1. scan[h].item \in Item
    BY <1>0, <1>2, Works DEF Call, At
  <2> QED  BY <1>1, <1>2, <2>1 DEF Call, Continues
<1>3. ASSUME NEW h \in Host, LateEffect(h)
      PROVE  Continues(h, d)
  <2>1. PICK x \in late[h] : Effect(x[1], x[2])
    BY <1>3 DEF LateEffect
  <2>2. x[1] \in Item /\ x = <<x[1], x[2]>>
    BY <1>0 DEF TypedHosts
  <2> QED  BY <1>1, <2>1, <2>2 DEF Continues
<1>4. ASSUME NEW t \in Turn,
             \/ Interrupt(t) \/ Submit(t) \/ Round(t) \/ Settle(t) \/ EstablishFence(t)
             \/ Break(t) \/ LoseCrossing(t) \/ Ends(t)
      PROVE  FALSE
  <2>1. turn' # turn
    BY <1>0
  <2>2. CASE Submit(t)
    BY <1>0, <2>2 DEF Submit, TypedLife
  <2>3. CASE Ends(t)
    BY <1>0, <2>3 DEF Ends, Complete, HandOff, Stop, Fail, EndAs, TypedLife
  <2> QED  BY <1>4, <2>1, <2>2, <2>3 DEF Interrupt, Round, Settle, EstablishFence, Break, LoseCrossing
<1>5. ASSUME NEW h \in Host, Admit(h)
      PROVE  FALSE
  BY <1>0, <1>5 DEF Admit, OfferHolds, TypedLife, TypedHosts
<1>6. ASSUME NEW h \in Host,
             \/ Offer(h) \/ ReadDispatch(h) \/ Create(h) \/ WakeFor(h) \/ ReadWake(h) \/ Retarget(h)
             \/ Act(h) \/ Finish(h) \/ TimeOut(h) \/ Throw(h) \/ Exit(h)
             \/ \E b \in Box, e \in Item : Claim(h, b, e) \/ Reclaim(h, b, e)
      PROVE  turn' = turn
  BY <1>6 DEF Offer, ReadDispatch, Create, WakeFor, ReadWake, Retarget, Act, Finish, TimeOut,
              Throw, Exit, Claim, Reclaim, life
<1>7. ASSUME NEW e \in Item,
             \/ Arise(e) \/ RouteAnswer(e) \/ Supersede(e) \/ Advance(e) \/ Handle(e)
             \/ EnsureWake(e) \/ \E b \in Box : Expire(b, e)
      PROVE  turn' = turn
  BY <1>7 DEF Arise, RouteAnswer, Supersede, Advance, Handle, EnsureWake, Expire, life
<1>8. turn' # turn
  BY <1>0
<1> QED  BY <1>2, <1>3, <1>4, <1>5, <1>6, <1>7, <1>8 DEF Next, ScanStep, vars, life

\* An admission a host has prepared is new, old, or gone
LEMMA Offers ==
    ASSUME IInv, [Next]_vars, NEW h \in Host
    PROVE  \/ offer'[h] = offer[h] \/ offer'[h] = NoOffer
           \/ \E t \in Queued : offer'[h] = [turn |-> t, items |-> Waiting] /\ UNCHANGED <<turn, delivery>>
<1>0. TypedHosts
  BY TypedParts DEF IInv
<1>1. ASSUME NEW g \in Host, Offer(g) \/ Admit(g) \/ Exit(g)
      PROVE  \/ offer'[h] = offer[h] \/ offer'[h] = NoOffer
             \/ \E t \in Queued : /\ offer'[h] = [turn |-> t, items |-> Waiting]
                                  /\ UNCHANGED <<turn, delivery>>
  BY <1>0, <1>1 DEF Offer, Admit, Exit, TypedHosts, life, rows
<1>2. ASSUME NEW g \in Host,
             \/ ScanStep(g) \/ TimeOut(g) \/ LateEffect(g) \/ Throw(g)
             \/ \E b \in Box, e \in Item : Claim(g, b, e) \/ Reclaim(g, b, e)
      PROVE  offer' = offer
  BY <1>2 DEF ScanStep, ReadDispatch, Create, WakeFor, ReadWake, Retarget, Act, Call, Finish,
              TimeOut, LateEffect, Throw, Claim, Reclaim
<1>3. ASSUME NEW e \in Item,
             \/ Arise(e) \/ RouteAnswer(e) \/ Supersede(e) \/ Advance(e) \/ Handle(e)
             \/ EnsureWake(e) \/ \E b \in Box : Expire(b, e)
      PROVE  offer' = offer
  BY <1>3 DEF Arise, RouteAnswer, Supersede, Advance, Handle, EnsureWake, Expire
<1>4. ASSUME NEW t \in Turn,
             \/ Interrupt(t) \/ Submit(t) \/ Round(t) \/ Settle(t) \/ EstablishFence(t)
             \/ Break(t) \/ LoseCrossing(t) \/ Ends(t)
      PROVE  offer' = offer
  BY <1>4 DEF Interrupt, Submit, Round, Settle, EstablishFence, Break, LoseCrossing,
              Ends, Complete, HandOff, Stop, Fail, EndAs
<1> QED  BY <1>1, <1>2, <1>3, <1>4 DEF Next, vars

\* Who starts a queued Turn
LEMMA StartsBy ==
    ASSUME IInv, [Next]_vars, NEW t \in Turn, turn[t] = "queued", turn'[t] # "queued"
    PROVE  \E h \in Host : /\ Admit(h) /\ offer[h].turn = t /\ OfferHolds(offer[h])
                           /\ turn' # turn
<1>0. Typed /\ TypedLife /\ TypedHosts
  BY TypedParts DEF IInv
<1>1. ASSUME NEW e \in Item, NEW action, Effect(e, action)
      PROVE  turn'[t] = turn[t]
  BY <1>0, <1>1, ItemAssumption DEF Effect, TypedLife
<1>2. ASSUME NEW h \in Host, Call(h) \/ LateEffect(h)
      PROVE  turn'[t] = turn[t]
  <2>1. CASE Call(h)
    <3>1. scan[h].item \in Item
      BY <1>0, <2>1, Works DEF Call, At
    <3> QED  BY <1>1, <2>1, <3>1 DEF Call
  <2>2. CASE LateEffect(h)
    <3>1. PICK x \in late[h] : Effect(x[1], x[2])
      BY <2>2 DEF LateEffect
    <3>2. x[1] \in Item
      BY <1>0 DEF TypedHosts
    <3> QED  BY <1>1, <3>1, <3>2
  <2> QED  BY <1>2, <2>1, <2>2
<1>3. ASSUME NEW s \in Turn,
             \/ Interrupt(s) \/ Submit(s) \/ Round(s) \/ Settle(s) \/ EstablishFence(s)
             \/ Break(s) \/ LoseCrossing(s) \/ Ends(s)
      PROVE  turn'[t] = turn[t]
  <2>1. CASE Submit(s)
    BY <1>0, <2>1 DEF Submit, TypedLife
  <2>2. CASE Ends(s)
    BY <1>0, <2>2 DEF Ends, Complete, HandOff, Stop, Fail, EndAs, TypedLife
  <2> QED  BY <1>3, <2>1, <2>2 DEF Interrupt, Round, Settle, EstablishFence, Break, LoseCrossing
<1>4. ASSUME NEW h \in Host, Admit(h)
      PROVE  offer[h].turn = t /\ OfferHolds(offer[h]) /\ turn' # turn
  BY <1>0, <1>4 DEF Admit, OfferHolds, TypedLife, TypedHosts
<1>5. ASSUME NEW h \in Host,
             \/ Offer(h) \/ ReadDispatch(h) \/ Create(h) \/ WakeFor(h) \/ ReadWake(h) \/ Retarget(h)
             \/ Act(h) \/ Finish(h) \/ TimeOut(h) \/ Throw(h) \/ Exit(h)
             \/ \E b \in Box, e \in Item : Claim(h, b, e) \/ Reclaim(h, b, e)
      PROVE  turn' = turn
  BY <1>5 DEF Offer, ReadDispatch, Create, WakeFor, ReadWake, Retarget, Act, Finish, TimeOut,
              Throw, Exit, Claim, Reclaim, life
<1>6. ASSUME NEW e \in Item,
             \/ Arise(e) \/ RouteAnswer(e) \/ Supersede(e) \/ Advance(e) \/ Handle(e)
             \/ EnsureWake(e) \/ \E b \in Box : Expire(b, e)
      PROVE  turn' = turn
  BY <1>6 DEF Arise, RouteAnswer, Supersede, Advance, Handle, EnsureWake, Expire, life
<1> QED  BY <1>2, <1>3, <1>4, <1>5, <1>6 DEF Next, ScanStep, vars, life

\* How a scan comes to call the wake handler, and to have its acknowledgement
LEMMA ScanMoves ==
    ASSUME IInv, [Next]_vars, NEW h \in Host
    PROVE  /\ scan'[h].at = "call" =>
                \/ /\ At(h, "call") /\ scan'[h].item = scan[h].item
                   /\ scan'[h].action = scan[h].action
                \/ /\ At(h, "act") /\ scan'[h].item = scan[h].item /\ delivery' = delivery
                   /\ scan'[h].action = ActionFor(scan[h].item)
           /\ scan'[h].at = "done" /\ scan'[h].box = "wake" =>
                \/ At(h, "done") /\ scan[h].box = "wake" /\ scan'[h].item = scan[h].item
                \/ /\ Call(h) /\ scan'[h].item = scan[h].item
                   /\ Acknowledges(scan[h].item, scan[h].action)
<1> DEFINE Good ==
             /\ scan'[h].at = "call" =>
                \/ /\ At(h, "call") /\ scan'[h].item = scan[h].item
                   /\ scan'[h].action = scan[h].action
                \/ /\ At(h, "act") /\ scan'[h].item = scan[h].item /\ delivery' = delivery
                   /\ scan'[h].action = ActionFor(scan[h].item)
             /\ scan'[h].at = "done" /\ scan'[h].box = "wake" =>
                \/ At(h, "done") /\ scan[h].box = "wake" /\ scan'[h].item = scan[h].item
                \/ /\ Call(h) /\ scan'[h].item = scan[h].item
                   /\ Acknowledges(scan[h].item, scan[h].action)
<1>0. Typed /\ TypedHosts /\ Claimed /\ FailuresLeft /\ scan \in [Host -> ScanOf] /\ Idle.at = "idle"
  BY TypedParts DEF IInv, TypedHosts, Idle
<1>1. CASE scan'[h] = scan[h]
  BY <1>1 DEF At
<1>2. CASE scan'[h] = Idle
  BY <1>0, <1>2
<1>3. ASSUME NEW g \in Host, NEW q, scan' = [scan EXCEPT ![g] = q],
             q = Idle \/ q.at \notin {"call", "done"} \/ (q.box = "dispatch" /\ q.at # "call")
      PROVE  Good
  BY <1>0, <1>1, <1>3
<1>4. ASSUME NEW g \in Host, scan' = [scan EXCEPT ![g] = Idle]
      PROVE  Good
  <2>1. scan'[h] = scan[h] \/ scan'[h] = Idle
    BY <1>0, <1>4
  <2> QED  BY <1>1, <1>2, <2>1
<1>5. ASSUME NEW g \in Host, scan[g] # Idle, FailClaim(g)
      PROVE  Good
  BY <1>0, <1>4, <1>5, Failing
<1>6. ASSUME NEW g \in Host, scan[g].at \in {"read", "retarget"}, Go(g, "act")
      PROVE  Good
  <2>1. scan[g] \in ScanOf /\ scan' = [scan EXCEPT ![g] = [scan[g] EXCEPT !.at = "act"]]
    BY <1>0, <1>6 DEF Go
  <2>2. [scan[g] EXCEPT !.at = "act"].at = "act"
    BY <1>6, <2>1, NextStage
  <2> QED  BY <1>3, <2>1, <2>2
<1>7. ASSUME NEW g \in Host, ReadDispatch(g) \/ Create(g)
      PROVE  Good
  <2> DEFINE d == scan[g].item
  <2>1. scan[g] # Idle
    BY <1>0, <1>7, Works DEF ReadDispatch, Create, At
  <2>2. \/ FailClaim(g)
        \/ \E q \in {Seen(g, "create", d), ToWake(g, delivery[d].state), ToWake(g, "pending")} :
              scan' = [scan EXCEPT ![g] = q]
    BY <1>7 DEF ReadDispatch, Create
  <2>3. /\ Seen(g, "create", d).at = "create"
        /\ \A s : ToWake(g, s).at = "wake"
    BY DEF Seen, ToWake
  <2> QED  BY <1>3, <1>5, <2>1, <2>2, <2>3
<1>8. ASSUME NEW g \in Host, WakeFor(g)
      PROVE  Good
  <2>1. scan[g] # Idle /\ scan[g] \in ScanOf /\ scan[g].at = "wake"
    BY <1>0, <1>8, Works DEF WakeFor, At
  <2>2. FailClaim(g) \/ scan' = [scan EXCEPT ![g] = [scan[g] EXCEPT !.at = "done"]]
    BY <1>0, <1>8 DEF WakeFor, Go
  <2>3. [scan[g] EXCEPT !.at = "done"].at = "done" /\ [scan[g] EXCEPT !.at = "done"].box = "dispatch"
    BY <2>1, NextStage, ScanFields
  <2> QED  BY <1>3, <1>5, <2>1, <2>2, <2>3
<1>9. ASSUME NEW g \in Host, ReadWake(g) \/ Retarget(g)
      PROVE  Good
  <2>1. scan[g] # Idle /\ scan[g].at \in {"read", "retarget"}
    BY <1>0, <1>9, Works DEF ReadWake, Retarget, At
  <2>2. \/ FailClaim(g) \/ Go(g, "act")
        \/ scan' = [scan EXCEPT ![g] = Idle]
        \/ scan' = [scan EXCEPT ![g] = Seen(g, "retarget", scan[g].item)]
    BY <1>9 DEF ReadWake, Retarget, Bury
  <2> DEFINE q == Seen(g, "retarget", scan[g].item)
  <2>3. q.at \notin {"call", "done"}
    BY DEF Seen
  <2>4. scan' = [scan EXCEPT ![g] = q] => Good
    <3> HIDE DEF q
    <3> QED  BY <1>3, <2>3
  <2> QED  BY <1>5, <1>6, <1>4, <2>1, <2>2, <2>4
<1>10. ASSUME NEW g \in Host, Act(g)
      PROVE  Good
  <2>1. CASE scan' = [scan EXCEPT ![g] = Idle]
    BY <1>4, <2>1
  <2>2. CASE scan' # [scan EXCEPT ![g] = Idle]
    <3>1. scan' = [scan EXCEPT ![g] = [at |-> "call", box |-> "wake", item |-> scan[g].item,
                      valid |-> scan[g].valid, action |-> ActionFor(scan[g].item)]]
      BY <1>0, <1>10, <2>2 DEF Act, Bury
    <3> QED  BY <1>0, <1>1, <1>10, <3>1 DEF Act
  <2> QED  BY <2>1, <2>2
<1>11. ASSUME NEW g \in Host, Call(g)
       PROVE  Good
  <2>1. scan' = [scan EXCEPT ![g] =
                    [at |-> IF Acknowledges(scan[g].item, scan[g].action) THEN "done" ELSE "retry",
                     box |-> "wake", item |-> scan[g].item, valid |-> scan[g].valid]]
    BY <1>0, <1>11 DEF Call
  <2> QED  BY <1>0, <1>1, <1>11, <2>1
<1>12. ASSUME NEW g \in Host, Finish(g) \/ Exit(g)
       PROVE  Good
  BY <1>12, <1>4 DEF Finish, Exit
<1>13. ASSUME NEW g \in Host, TimeOut(g) \/ Throw(g)
       PROVE  Good
  <2>1. scan[g] # Idle /\ FailClaim(g)
    BY <1>0, <1>13, Works DEF TimeOut, Throw, At
  <2> QED  BY <1>5, <2>1
<1>14. ASSUME NEW g \in Host, NEW b \in Box, NEW e \in Item, Claim(g, b, e)
       PROVE  Good
  <2> DEFINE q == [at |-> "read", box |-> b, item |-> e, valid |-> TRUE]
  <2>1. scan' = [scan EXCEPT ![g] = q] /\ q.at \notin {"call", "done"}
    BY <1>14 DEF Claim
  <2> HIDE DEF q
  <2> QED  BY <1>3, <2>1
<1>15. ASSUME NEW g \in Host, NEW b \in Box, NEW e \in Item, Reclaim(g, b, e)
       PROVE  Good
  <2>1. scan'[h] = Fenced(h, b, e)
    BY <1>15 DEF Reclaim
  <2>2. CASE scan'[h] # scan[h]
    <3>1. scan[h] # Idle /\ scan'[h] = [scan[h] EXCEPT !.valid = FALSE] /\ scan[h] \in ScanOf
      BY <1>0, <2>1, <2>2 DEF Fenced
    <3>2. /\ scan'[h].at = scan[h].at /\ scan'[h].box = scan[h].box /\ scan'[h].item = scan[h].item
          /\ scan[h].at = "call" => scan'[h].action = scan[h].action
      BY <3>1, LosesClaim
    <3> QED  BY <3>2 DEF At
  <2> QED  BY <1>1, <2>2
<1>16. ASSUME NEW g \in Host, Offer(g) \/ Admit(g) \/ LateEffect(g)
       PROVE  scan' = scan
  BY <1>16 DEF Offer, Admit, LateEffect
<1>17. ASSUME NEW e \in Item,
             \/ Arise(e) \/ RouteAnswer(e) \/ Supersede(e) \/ Advance(e) \/ Handle(e)
             \/ EnsureWake(e) \/ \E b \in Box : Expire(b, e)
       PROVE  scan' = scan
  BY <1>17 DEF Arise, RouteAnswer, Supersede, Advance, Handle, EnsureWake, Expire
<1>18. ASSUME NEW t \in Turn,
             \/ Interrupt(t) \/ Submit(t) \/ Round(t) \/ Settle(t) \/ EstablishFence(t)
             \/ Break(t) \/ LoseCrossing(t) \/ Ends(t)
       PROVE  scan' = scan
  BY <1>18 DEF Interrupt, Submit, Round, Settle, EstablishFence, Break, LoseCrossing,
               Ends, Complete, HandOff, Stop, Fail, EndAs
<1>19. CASE scan' = scan
  BY <1>1, <1>19
<1>20. CASE Next
  BY <1>7, <1>8, <1>9, <1>10, <1>11, <1>12, <1>13, <1>14, <1>15, <1>16, <1>17, <1>18, <1>19, <1>20
     DEF Next, ScanStep
<1> QED  BY <1>19, <1>20 DEF vars

\* A handler that outlives its time-out was called by the scan that timed out
LEMMA Lates ==
    ASSUME IInv, [Next]_vars, NEW h \in Host, NEW x \in late'[h], x \notin late[h]
    PROVE  At(h, "call") /\ x = <<scan[h].item, scan[h].action>>
<1>0. TypedHosts
  BY TypedParts DEF IInv
<1>1. ASSUME NEW g \in Host, TimeOut(g) \/ LateEffect(g) \/ Exit(g)
      PROVE  At(h, "call") /\ x = <<scan[h].item, scan[h].action>>
  BY <1>0, <1>1 DEF TimeOut, LateEffect, Exit, TypedHosts
<1>2. ASSUME NEW g \in Host,
             \/ Offer(g) \/ Admit(g) \/ ScanStep(g) \/ Throw(g)
             \/ \E b \in Box, e \in Item : Claim(g, b, e) \/ Reclaim(g, b, e)
      PROVE  late' = late
  BY <1>2 DEF Offer, Admit, ScanStep, ReadDispatch, Create, WakeFor, ReadWake, Retarget, Act, Call,
              Finish, Throw, Claim, Reclaim
<1>3. ASSUME NEW e \in Item,
             \/ Arise(e) \/ RouteAnswer(e) \/ Supersede(e) \/ Advance(e) \/ Handle(e)
             \/ EnsureWake(e) \/ \E b \in Box : Expire(b, e)
      PROVE  late' = late
  BY <1>3 DEF Arise, RouteAnswer, Supersede, Advance, Handle, EnsureWake, Expire
<1>4. ASSUME NEW t \in Turn,
             \/ Interrupt(t) \/ Submit(t) \/ Round(t) \/ Settle(t) \/ EstablishFence(t)
             \/ Break(t) \/ LoseCrossing(t) \/ Ends(t)
      PROVE  late' = late
  BY <1>4 DEF Interrupt, Submit, Round, Settle, EstablishFence, Break, LoseCrossing,
              Ends, Complete, HandOff, Stop, Fail, EndAs
<1> QED  BY <1>1, <1>2, <1>3, <1>4 DEF Next, vars

\* A delivery that has left the current Turn does not come back to it
LEMMA BehindStays ==
    ASSUME IInv, [Next]_vars, NEW d \in Item, Behind(d)
    PROVE  /\ Behind(d)'
           /\ delivery[d].phase = "notify_only" => delivery'[d].phase = "notify_only"
           /\ d \notin Waiting => ~(/\ delivery'[d].state = "pending" /\ delivery'[d].target = NoTurn
                                    /\ delivery'[d].phase = "next_turn")
<1>0. Typed /\ Move(d) /\ (Exists(d) => delivery[d] \in Delivery)
  BY StepMoves, States DEF IInv, Steps
<1>1. CASE RoutedTo(d)
  <2>1. delivery[d].state = "pending"
    BY <1>0, <1>1 DEF RoutedTo, Behind, Typed, TypeOK, Delivery, NoDelivery
  <2>2. /\ delivery'[d].phase = PhaseFor(d) /\ PhaseFor(d) \in Phase
        /\ delivery[d].phase = "notify_only" => PhaseFor(d) = "notify_only"
        /\ PhaseFor(d) # "current_turn"
    <3>1. delivery'[d].phase = PhaseFor(d)
      BY <1>0, <1>1, Routes DEF RoutedTo
    <3>2. PhaseFor(d) \in Phase
      BY DEF PhaseFor, Phase
    <3>3. PhaseFor(d) # "current_turn" /\ (delivery[d].phase = "notify_only" => PhaseFor(d) = "notify_only")
      BY DEF IInv, Ranked, Behind
    <3> QED  BY <3>1, <3>2, <3>3
  <2>3. d \notin Waiting => delivery[d].phase = "notify_only"
    BY <2>1 DEF Waiting, IInv, Filed, Behind
  <2> QED  BY <2>2, <2>3 DEF Behind, Phase
<1>2. CASE ~RoutedTo(d)
  BY <1>0, <1>2 DEF Move, Kept, Injected, Joined, Shown, GivenUp, Absorbed, Same, Behind, Waiting
<1> QED  BY <1>1, <1>2

LEMMA ContinuedStep == IInv /\ Continued /\ Offered /\ [Next]_vars => Continued' /\ Offered'
<1> SUFFICES ASSUME IInv, Continued, Offered, [Next]_vars  PROVE Continued' /\ Offered'
  OBVIOUS
<1>0. Typed /\ TypedLife /\ TypedHosts /\ Steps /\ Typed' /\ TypedLife' /\ TypedHosts'
  BY TypedParts, TypedLater, TypedStep, StepMoves DEF IInv
<1> DEFINE Waits(d) == /\ delivery'[d].state = "pending" /\ delivery'[d].target = NoTurn
                       /\ delivery'[d].phase = "next_turn"
<1>1. \A t \in Turn : turn[t] # "absent" => turn'[t] # "absent"
  BY <1>0 DEF Steps, TurnMove, Over
<1>2. Offered'
  <2> SUFFICES ASSUME NEW h \in Host, offer'[h].turn # NoTurn
               PROVE  turn'[offer'[h].turn] # "absent"
    BY DEF Offered
  <2>1. offer'[h] # NoOffer /\ offer'[h].turn \in Turn
    BY <1>0 DEF TypedHosts, NoOffer
  <2>2. CASE offer'[h] = offer[h]
    BY <1>1, <2>1, <2>2 DEF Offered
  <2>3. CASE offer'[h] # offer[h]
    <3>1. PICK t \in Queued : /\ offer'[h] = [turn |-> t, items |-> Waiting]
                              /\ UNCHANGED <<turn, delivery>>
      BY <2>1, <2>3, Offers
    <3> QED  BY <3>1 DEF Queued
  <2> QED  BY <2>2, <2>3
<1>3. ASSUME NEW d \in Item
      PROVE  turn'[Continuation[d]] # "absent" => Behind(d)'
  <2>1. turn[Continuation[d]] # "absent" \/ (\E h \in Host : Continues(h, d))
        \/ turn'[Continuation[d]] = "absent"
    BY WhoQueues
  <2>2. turn'[Continuation[d]] # "absent" => Behind(d)
    BY <2>1 DEF Continued
  <2> QED  BY <2>2, BehindStays
<1>4. ASSUME NEW d \in Item, NEW h \in Host, Continues(h, d)'
      PROVE  Behind(d)'
  <2>1. Continues(h, d) \/ Behind(d)
    <3>1. CASE scan'[h].at = "call" /\ scan'[h].item = d /\ scan'[h].action = "continue"
      <4>1. CASE At(h, "act") /\ scan'[h].item = scan[h].item /\ scan'[h].action = ActionFor(scan[h].item)
        BY <3>1, <4>1 DEF ActionFor, Behind
      <4>2. CASE ~(At(h, "act") /\ scan'[h].item = scan[h].item /\ scan'[h].action = ActionFor(scan[h].item))
        BY <3>1, <4>2, ScanMoves DEF Continues
      <4> QED  BY <4>1, <4>2
    <3>2. CASE <<d, "continue">> \in late'[h]
      BY <3>2, Lates DEF Continues
    <3> QED  BY <1>4, <3>1, <3>2 DEF Continues, At
  <2> QED  BY <2>1, BehindStays DEF Continued
\* An admission that starts the continuation takes the delivery along
<1>5. ASSUME NEW d \in Item, turn'[Continuation[d]] \notin {"absent", "queued"}
      PROVE  ~Waits(d)
  <2>0. Continuation[d] \in Turn
    BY ItemAssumption
  <2>1. turn[Continuation[d]] # "absent"
    BY <1>0, <1>5, <2>0 DEF Steps, TurnMove
  <2>2. Behind(d)
    BY <2>1 DEF Continued
  <2>3. CASE d \notin Waiting
    BY <2>2, <2>3, BehindStays
  <2>4. CASE d \in Waiting
    <3>1. turn[Continuation[d]] = "queued"
      BY <2>0, <2>1, <2>4 DEF Continued, Ran
    <3>2. PICK h \in Host : Admit(h) /\ offer[h].turn = Continuation[d] /\ OfferHolds(offer[h])
                            /\ turn' # turn
      BY <1>5, <2>0, <3>1, StartsBy
    <3>3. d \in offer[h].items
      BY <2>4, <3>2 DEF Continued
    <3>4. delivery'[d] = [delivery[d] EXCEPT !.state = "consumed", !.target = offer[h].turn]
      BY <3>2, <3>3 DEF Admit
    <3>5. delivery[d] \in Delivery
      BY <1>0, <2>4, States DEF Waiting, Exists
    <3> QED  BY <3>4, <3>5 DEF Delivery
  <2> QED  BY <2>3, <2>4
<1>6. ASSUME NEW d \in Item, NEW h \in Host, offer'[h].turn = Continuation[d], Waits(d)
      PROVE  d \in offer'[h].items
  <2>0. Continuation[d] \in Turn /\ Continuation[d] # NoTurn
    BY ItemAssumption
  <2>1. CASE offer'[h] = offer[h]
    <3>1. turn[Continuation[d]] # "absent"
      BY <1>6, <2>0, <2>1 DEF Offered
    <3>2. d \in Waiting
      BY <1>6, <3>1, BehindStays DEF Continued
    <3> QED  BY <1>6, <2>1, <3>2 DEF Continued
  <2>2. CASE offer'[h] # offer[h]
    <3>0. offer'[h] # NoOffer
      BY <1>6, <2>0 DEF NoOffer
    <3>1. offer'[h].items = Waiting /\ delivery' = delivery
      <4>1. PICK t \in Queued : /\ offer'[h] = [turn |-> t, items |-> Waiting]
                                /\ UNCHANGED <<turn, delivery>>
        BY <2>2, <3>0, Offers
      <4> QED  BY <4>1
    <3> QED  BY <1>6, <3>1 DEF Waiting
  <2> QED  BY <2>1, <2>2
<1>7. Continued'
  BY <1>3, <1>4, <1>5, <1>6 DEF Continued, Waiting, Ran
<1> QED  BY <1>2, <1>7

\* No claim is taken from a host that still works on its row
Owned == \A h \in Host : scan[h] # Idle => scan[h].valid

Carried(d) == Settled(d) \/ (d \in Waiting /\ turn[Continuation[d]] = "queued")

\* What an acknowledgement rests on
Acks ==
    /\ \A d \in Item : row["wake"][d].state = "done" => Carried(d)
    /\ \A h \in Host :
          /\ At(h, "done") /\ scan[h].box = "wake" => Carried(scan[h].item)
          /\ At(h, "call") /\ scan[h].action = "notify" =>
                delivery[scan[h].item].phase = "notify_only"
          /\ At(h, "call") /\ scan[h].action = "continue" =>
                delivery[scan[h].item].phase = "next_turn"

\* A wake is done when the scan that has its acknowledgement finishes
LEMMA DoneByFinish ==
    ASSUME IInv, [Next]_vars, NEW d \in Item, row'["wake"][d].state = "done",
           row["wake"][d].state # "done"
    PROVE  \E h \in Host : Finish(h) /\ At(h, "done") /\ scan[h].box = "wake" /\ scan[h].item = d
<1> DEFINE Good == \E h \in Host : /\ Finish(h) /\ At(h, "done")
                                   /\ scan[h].box = "wake" /\ scan[h].item = d
<1>0. Typed /\ TypedRows /\ Claimed /\ FailuresLeft /\ "wake" \in Box
  BY TypedParts DEF IInv, Box
<1>1. row'["wake"][d] # row["wake"][d]
  OBVIOUS
<1>2. ASSUME NEW h \in Host, scan[h] # Idle, FailClaim(h)
      PROVE  FALSE
  BY <1>0, <1>1, <1>2, Failing
<1>3. ASSUME NEW b \in Box, NEW e \in Item, NEW new, row' = [row EXCEPT ![b][e] = new],
             new.state # "done"
      PROVE  FALSE
  BY <1>0, <1>1, <1>3 DEF TypedRows
<1>4. ASSUME NEW h \in Host, NEW b \in Box, NEW e \in Item, Claim(h, b, e) \/ Reclaim(h, b, e)
      PROVE  FALSE
  <2>1. row[b][e] \in RowOf
    BY <1>0 DEF TypedRows
  <2>2. \E s \in {"pending", "claimed"} :
           row' = [row EXCEPT ![b][e] = [row[b][e] EXCEPT !.state = s, !.expired = FALSE]]
    BY ZenonT(60), <1>0, <1>4 DEF Claim, Reclaim, TypedRows
  <2>3. \A s : [row[b][e] EXCEPT !.state = s, !.expired = FALSE].state = s
    BY <2>1 DEF RowOf
  <2> QED  BY <1>3, <2>2, <2>3
<1>5. ASSUME NEW b \in Box, NEW e \in Item, Expire(b, e)
      PROVE  FALSE
  <2>1. row[b][e] \in RowOf /\ row[b][e].state = "claimed"
    BY <1>0, <1>5 DEF TypedRows, Expire
  <2>2. row' = [row EXCEPT ![b][e] = [row[b][e] EXCEPT !.expired = TRUE]]
    BY <1>0, <1>5 DEF Expire, TypedRows
  <2>3. [row[b][e] EXCEPT !.expired = TRUE].state = "claimed"
    BY <2>1 DEF RowOf
  <2> QED  BY <1>3, <2>2, <2>3
<1>6. Ready.state = "pending" /\ [Ready EXCEPT !.state = "dead"].state = "dead"
  BY DEF Ready, NoRow
<1>7. ASSUME NEW e \in Item, Arise(e) \/ EnsureWake(e)
      PROVE  FALSE
  BY <1>1, <1>3, <1>6, <1>7 DEF Arise, EnsureWake, Box
<1>8. ASSUME NEW h \in Host, WakeFor(h)
      PROVE  FALSE
  <2>1. scan[h] # Idle /\ scan[h].item \in Item
    BY <1>0, <1>8, Works DEF WakeFor, At
  <2>2. \/ FailClaim(h) \/ row' = row
        \/ \E new \in {Ready, [Ready EXCEPT !.state = "dead"]} :
              row' = [row EXCEPT !["wake"][scan[h].item] = new]
    BY <1>8 DEF WakeFor
  <2> QED  BY <1>0, <1>1, <1>2, <1>3, <1>6, <2>1, <2>2
<1>9. ASSUME NEW h \in Host, TimeOut(h) \/ Throw(h) \/ Create(h) \/ Retarget(h)
      PROVE  FALSE
  <2>1. scan[h] # Idle /\ (FailClaim(h) \/ row' = row)
    BY <1>0, <1>9, Works DEF TimeOut, Throw, Create, Retarget, At
  <2> QED  BY <1>1, <1>2, <2>1
<1>10. ASSUME NEW h \in Host, ReadWake(h) \/ Act(h)
       PROVE  FALSE
  <2>1. scan[h].item \in Item
    BY <1>0, <1>10, Works DEF ReadWake, Act, At
  <2>2. row["wake"][scan[h].item] \in RowOf
    BY <1>0, <2>1 DEF TypedRows
  <2>3. \/ row' = row
        \/ row' = [row EXCEPT !["wake"][scan[h].item] =
                                  [row["wake"][scan[h].item] EXCEPT !.state = "dead"]]
    BY <1>0, <1>10, <2>1 DEF ReadWake, Act, Bury, TypedRows
  <2>4. [row["wake"][scan[h].item] EXCEPT !.state = "dead"].state = "dead"
    BY <2>2 DEF RowOf
  <2> QED  BY <1>0, <1>1, <1>3, <2>1, <2>3, <2>4
<1>11. ASSUME NEW h \in Host, Finish(h)
       PROVE  Good
  <2> DEFINE b == scan[h].box
             e == scan[h].item
             s == IF At(h, "done") THEN "done" ELSE "pending"
  <2>1. b \in Box /\ e \in Item /\ row[b][e] \in RowOf
    BY <1>0, <1>11, Works DEF Finish, TypedRows
  <2>2. row' = [row EXCEPT ![b][e] = [row[b][e] EXCEPT !.state = s]]
    BY <1>0, <1>1, <1>11, <2>1 DEF Finish, TypedRows
  <2>3. [row[b][e] EXCEPT !.state = s].state = s
    BY <2>1 DEF RowOf
  <2>4. s = "done"
    BY <1>3, <2>1, <2>2, <2>3
  <2>5. b = "wake" /\ e = d
    BY <1>0, <1>1, <2>1, <2>2 DEF TypedRows
  <2> QED  BY <1>11, <2>4, <2>5
<1>12. ASSUME NEW h \in Host,
              Offer(h) \/ Admit(h) \/ ReadDispatch(h) \/ Call(h) \/ LateEffect(h) \/ Exit(h)
       PROVE  FALSE
  BY <1>1, <1>12 DEF Offer, Admit, ReadDispatch, Call, LateEffect, Exit, rows
<1>13. ASSUME NEW e \in Item, RouteAnswer(e) \/ Supersede(e) \/ Advance(e) \/ Handle(e)
       PROVE  FALSE
  BY <1>1, <1>13 DEF RouteAnswer, Supersede, Advance, Handle
<1>14. ASSUME NEW t \in Turn,
             \/ Interrupt(t) \/ Submit(t) \/ Round(t) \/ Settle(t) \/ EstablishFence(t)
             \/ Break(t) \/ LoseCrossing(t) \/ Ends(t)
       PROVE  FALSE
  BY <1>1, <1>14 DEF Interrupt, Submit, Round, Settle, EstablishFence, Break, LoseCrossing,
              Ends, Complete, HandOff, Stop, Fail, EndAs, rows
<1> QED  BY <1>1, <1>4, <1>5, <1>7, <1>8, <1>9, <1>10, <1>11, <1>12, <1>13, <1>14
         DEF Next, ScanStep, vars, rows

\* While claims are not taken over, only the holder of a wake routes its delivery again
LEMMA OneRouter ==
    ASSUME IInv, Owned, NEW d \in Item, NEW h \in Host, Retarget(h), scan[h].item = d
    PROVE  /\ row["wake"][d].state = "claimed"
           /\ \A g \in Host : scan[g].at # "idle" /\ scan[g].box = "wake" /\ scan[g].item = d => g = h
<1>1. scan[h] # Idle /\ Typed
  BY Works DEF Retarget, At, IInv
<1>2. Holds(h, "wake", d)
  BY <1>1 DEF Holds, Owned, IInv, Looks, Retarget
<1>3. ASSUME NEW g \in Host, scan[g].at # "idle", scan[g].box = "wake", scan[g].item = d
      PROVE  Holds(g, "wake", d)
  BY <1>3 DEF Holds, Owned, Idle
<1> QED  BY <1>2, <1>3 DEF IInv, Claimed, Box

\* What is carried on stays so
LEMMA CarriedStays ==
    ASSUME IInv, Continued, Offered, [Next]_vars, NEW d \in Item, Carried(d),
           ~\E h \in Host : Retarget(h) /\ scan[h].item = d
    PROVE  Carried(d)'
<1>0. Typed /\ Steps /\ Continued' /\ Continuation[d] \in Turn
  BY StepMoves, ContinuedStep, ItemAssumption DEF IInv
<1>1. CASE Settled(d)
  BY <1>0, <1>1 DEF Steps, Settled, Carried, Move, Kept, RoutedTo, Injected, Joined, Shown, GivenUp,
                    Absorbed, Waiting
<1>2. CASE d \in Waiting /\ turn[Continuation[d]] = "queued"
  <2>1. delivery'[d] = delivery[d] \/ delivery'[d].state \in {"consumed", "failed"}
    BY <1>2, NextRoute DEF Waiting
  <2>2. CASE delivery'[d].state \in {"consumed", "failed"}
    BY <2>2 DEF Carried, Settled
  <2>3. CASE delivery'[d] = delivery[d]
    <3>1. d \in Waiting'
      BY <1>2, <2>3 DEF Waiting
    <3>2. turn'[Continuation[d]] \in {"absent", "queued"}
      BY <1>0, <3>1 DEF Continued, Ran
    <3>3. turn'[Continuation[d]] = "queued"
      BY <1>0, <1>2, <3>2 DEF Steps, TurnMove
    <3> QED  BY <3>1, <3>3 DEF Carried
  <2> QED  BY <2>1, <2>2, <2>3
<1> QED  BY <1>1, <1>2 DEF Carried

LEMMA AcksStep ==
    IInv /\ Continued /\ Offered /\ Owned /\ Acks /\ [Next]_vars => Acks'
<1> SUFFICES ASSUME IInv, Continued, Offered, Owned, Acks, [Next]_vars  PROVE Acks'
  OBVIOUS
<1>0. Typed /\ TypedRows /\ Steps /\ Continued' /\ Typed' /\ TypedLife'
  BY TypedParts, TypedLater, TypedStep, StepMoves, ContinuedStep DEF IInv
<1>1. ASSUME NEW d \in Item, row'["wake"][d].state = "done"
      PROVE  Carried(d)'
  <2>1. CASE row["wake"][d].state = "done"
    <3>1. ~\E h \in Host : Retarget(h) /\ scan[h].item = d
      BY <2>1, OneRouter
    <3> QED  BY <2>1, <3>1, CarriedStays DEF Acks
  <2>2. CASE row["wake"][d].state # "done"
    <3>1. PICK h \in Host : Finish(h) /\ At(h, "done") /\ scan[h].box = "wake" /\ scan[h].item = d
      BY <1>1, <2>2, DoneByFinish
    <3>2. Carried(d) /\ UNCHANGED <<delivery, turn>>
      BY <3>1 DEF Acks, Finish, life
    <3> QED  BY <3>2 DEF Carried, Settled, Waiting
  <2> QED  BY <2>1, <2>2
<1>2. ASSUME NEW h \in Host, Call(h), NEW d, d = scan[h].item,
             Acknowledges(d, scan[h].action)
      PROVE  Carried(d)'
  <2>1. /\ d \in Item /\ scan[h] \in ScanOf /\ scan[h] # Idle /\ scan[h].box = "wake"
        /\ scan[h].action \in {"notify", "resume", "continue"} /\ Exists(d)
        /\ Continuation[d] \in Turn /\ UNCHANGED link
    BY <1>0, <1>2, Works, ScanFields, ItemAssumption DEF Call, At, IInv, Looks
  <2>2. Effect(d, scan[h].action) /\ At(h, "call")
    BY <1>2 DEF Call
  <2>3. /\ scan[h].action = "continue" => turn'[Continuation[d]] # "absent"
        /\ \/ delivery'[d] = delivery[d]
           \/ delivery[d].phase = "notify_only" /\ delivery'[d].state = "consumed"
        /\ scan[h].action = "notify" /\ delivery[d].phase = "notify_only" =>
              delivery'[d].state # "pending"
    BY <1>0, <2>1, <2>2, Handling
  <2>4. Exists(d)' /\ delivery'[d].state \in SomeState
    <3>1. Exists(d)'
      BY <1>0, <2>1, Stable
    <3>2. delivery'[d] \in Delivery \cup {NoDelivery}
      BY <1>0, <2>1, TypedLater DEF TypedRows
    <3> QED  BY <3>1, <3>2 DEF Exists, Delivery, NoDelivery, SomeState
  <2>5. CASE scan[h].action = "resume"
    <3>1. \/ delivery[d].state = "consumed" /\ delivery[d].phase # "notify_only"
          \/ delivery'[d].state = "consumed"
      BY <1>2, <2>1, <2>3, <2>5 DEF Acknowledges, IInv, Filed
    <3> QED  BY <2>3, <3>1 DEF Carried, Settled
  <2>6. CASE scan[h].action = "notify"
    <3>1. delivery[d].phase = "notify_only"
      BY <1>2, <2>2, <2>6 DEF Acks
    <3>2. delivery'[d].state # "pending"
      BY <2>3, <2>6, <3>1
    <3> QED  BY <2>4, <3>2 DEF Carried, Settled, SomeState
  <2>7. CASE scan[h].action = "continue"
    <3>1. delivery[d].phase = "next_turn"
      BY <1>2, <2>2, <2>7 DEF Acks
    <3>2. delivery'[d] = delivery[d] /\ delivery[d].state \in SomeState
      BY <2>3, <2>4, <3>1
    <3>3. CASE delivery[d].state # "pending"
      BY <3>2, <3>3 DEF Carried, Settled, SomeState
    <3>4. CASE delivery[d].state = "pending"
      <4>1. d \in Waiting
        BY <2>1, <3>1, <3>4 DEF Waiting, IInv, Filed
      <4>2. d \in Waiting'
        BY <3>2, <4>1 DEF Waiting
      <4>3. turn'[Continuation[d]] \in {"absent", "queued"}
        BY <1>0, <2>1, <4>2 DEF Continued, Ran
      <4> QED  BY <2>3, <2>7, <4>2, <4>3 DEF Carried
    <3> QED  BY <3>3, <3>4
  <2> QED  BY <2>1, <2>5, <2>6, <2>7
<1>3. ASSUME NEW h \in Host, scan'[h].at = "done", scan'[h].box = "wake", NEW d, d = scan'[h].item
      PROVE  Carried(d)'
  <2>1. CASE At(h, "done") /\ scan[h].box = "wake" /\ scan[h].item = d
    <3>1. d \in Item /\ scan[h].at = "done"
      BY <1>0, <2>1, Works DEF At
    <3>2. Carried(d)
      BY <2>1 DEF Acks
    <3>3. ASSUME NEW g \in Host, Retarget(g), scan[g].item = d
          PROVE  FALSE
      BY <2>1, <3>1, <3>3, OneRouter DEF Retarget, At
    <3> QED  BY <3>1, <3>2, <3>3, CarriedStays
  <2>2. CASE ~(At(h, "done") /\ scan[h].box = "wake" /\ scan[h].item = d)
    <3>1. Call(h) /\ d = scan[h].item /\ Acknowledges(d, scan[h].action)
      BY <1>3, <2>2, ScanMoves
    <3> QED  BY <1>2, <3>1
  <2> QED  BY <2>1, <2>2
<1>4. ASSUME NEW h \in Host, scan'[h].at = "call", NEW d, d = scan'[h].item
      PROVE  /\ scan'[h].action = "notify" => delivery'[d].phase = "notify_only"
             /\ scan'[h].action = "continue" => delivery'[d].phase = "next_turn"
  <2>1. CASE At(h, "act") /\ d = scan[h].item /\ delivery' = delivery
             /\ scan'[h].action = ActionFor(d)
    BY <2>1 DEF ActionFor
  <2>2. CASE ~(At(h, "act") /\ d = scan[h].item /\ delivery' = delivery
               /\ scan'[h].action = ActionFor(d))
    <3>1. At(h, "call") /\ d = scan[h].item /\ scan'[h].action = scan[h].action
      BY <1>4, <2>2, ScanMoves
    <3>2. d \in Item /\ scan[h].at = "call" /\ scan[h].box = "wake"
      BY <1>0, <3>1, Works DEF At, IInv, Looks
    <3>3. CASE scan[h].action = "notify"
      BY <3>1, <3>2, <3>3, BehindStays DEF Acks, Behind
    <3>4. CASE scan[h].action = "continue"
      <4>1. ASSUME NEW g \in Host, Retarget(g), scan[g].item = d
            PROVE  FALSE
        BY <3>1, <3>2, <4>1, OneRouter DEF Retarget, At
      <4> QED  BY <3>1, <3>2, <3>4, <4>1, NextRoute DEF Acks
    <3> QED  BY <3>1, <3>3, <3>4
  <2> QED  BY <2>1, <2>2
<1>5. \A h \in Host :
         /\ At(h, "done")' /\ scan'[h].box = "wake" => Carried(scan[h].item)'
         /\ At(h, "call")' /\ scan'[h].action = "notify" =>
               delivery'[scan'[h].item].phase = "notify_only"
         /\ At(h, "call")' /\ scan'[h].action = "continue" =>
               delivery'[scan'[h].item].phase = "next_turn"
  BY <1>3, <1>4 DEF At, Carried, Settled, Waiting
<1> QED  BY <1>1, <1>5 DEF Acks

\* dispatchWake: a wake that was acknowledged leaves something that carries the result on,
\* for any number of hosts, results, errors, time-outs and exits, as long as no claim is
\* taken from a host that still works under it.
THEOREM AcksKept == Spec /\ []Owned => []AckKept
<1>1. Init => Continued /\ Offered /\ Acks
  BY ItemAssumption DEF Init, Continued, Offered, Acks, Continues, NoDelivery, NoOffer, NoRow, Idle,
                        At, Waiting, Ran, Box
<1>2. Acks => AckKept
  BY DEF Acks, AckKept, Carried, Settled, Waiting
<1> QED  BY <1>1, <1>2, ContinuedStep, AcksStep, Invariance, PTL DEF Spec

LEMMA OwnedAlone ==
    ASSUME \A g, h \in Host : g = h
    PROVE  IInv /\ Owned /\ [Next]_vars => Owned'
<1> SUFFICES ASSUME IInv, Owned, [Next]_vars  PROVE Owned'
  OBVIOUS
<1>0. Typed /\ Claimed /\ FailuresLeft /\ scan \in [Host -> ScanOf]
  BY TypedParts DEF IInv, TypedHosts
<1>1. ASSUME NEW h \in Host, NEW q, scan' = [scan EXCEPT ![h] = q],
             q = Idle \/ q.valid \/ (scan[h] # Idle /\ q.valid = scan[h].valid)
      PROVE  Owned'
  BY <1>0, <1>1 DEF Owned
<1>2. ASSUME NEW h \in Host, scan' = [scan EXCEPT ![h] = Idle]
      PROVE  Owned'
  BY <1>0, <1>2 DEF Owned
<1>3. ASSUME NEW h \in Host, scan[h] # Idle, FailClaim(h)
      PROVE  Owned'
  BY <1>0, <1>2, <1>3, Failing
<1>4. ASSUME NEW h \in Host, NEW stage, Go(h, stage),
             \/ scan[h].at \in {"read", "retarget"} /\ stage = "act"
             \/ scan[h].at = "wake" /\ stage = "done"
      PROVE  Owned'
  <2>1. scan[h] \in ScanOf /\ scan' = [scan EXCEPT ![h] = [scan[h] EXCEPT !.at = stage]]
    BY <1>0, <1>4 DEF Go
  <2>2. scan[h] # Idle /\ [scan[h] EXCEPT !.at = stage].valid = scan[h].valid
    BY <1>4, <2>1, NextStage
  <2> QED  BY <1>1, <2>1, <2>2
<1>5. ASSUME NEW h \in Host, ReadDispatch(h) \/ Create(h)
      PROVE  Owned'
  <2> DEFINE d == scan[h].item
  <2>1. scan[h] # Idle
    BY <1>0, <1>5, Works DEF ReadDispatch, Create, At
  <2>2. \/ FailClaim(h)
        \/ \E q \in {Seen(h, "create", d), ToWake(h, delivery[d].state), ToWake(h, "pending")} :
              scan' = [scan EXCEPT ![h] = q]
    BY <1>5 DEF ReadDispatch, Create
  <2>3. /\ Seen(h, "create", d).valid = scan[h].valid
        /\ \A s : ToWake(h, s).valid = scan[h].valid
    BY DEF Seen, ToWake
  <2> QED  BY <1>1, <1>3, <2>1, <2>2, <2>3
<1>6. ASSUME NEW h \in Host, WakeFor(h)
      PROVE  Owned'
  <2>1. scan[h] # Idle /\ scan[h].at = "wake" /\ (FailClaim(h) \/ Go(h, "done"))
    BY <1>0, <1>6, Works DEF WakeFor, At
  <2> QED  BY <1>3, <1>4, <2>1
<1>7. ASSUME NEW h \in Host, ReadWake(h) \/ Retarget(h)
      PROVE  Owned'
  <2> DEFINE q == Seen(h, "retarget", scan[h].item)
  <2>1. scan[h] # Idle /\ scan[h].at \in {"read", "retarget"}
    BY <1>0, <1>7, Works DEF ReadWake, Retarget, At
  <2>2. \/ FailClaim(h) \/ Go(h, "act")
        \/ scan' = [scan EXCEPT ![h] = Idle]
        \/ scan' = [scan EXCEPT ![h] = q]
    BY <1>7 DEF ReadWake, Retarget, Bury
  <2>3. q.valid = scan[h].valid
    BY DEF Seen
  <2> HIDE DEF q
  <2> QED  BY <1>1, <1>2, <1>3, <1>4, <2>1, <2>2, <2>3
<1>8. ASSUME NEW h \in Host, Act(h) \/ Call(h)
      PROVE  Owned'
  <2>1. scan[h] # Idle
    BY <1>0, <1>8, Works DEF Act, Call, At
  <2>2. \/ scan' = [scan EXCEPT ![h] = Idle]
        \/ \E q : scan' = [scan EXCEPT ![h] = q] /\ q.valid = scan[h].valid
    <3>1. CASE Act(h)
      <4> DEFINE q == [at |-> "call", box |-> "wake", item |-> scan[h].item,
                       valid |-> scan[h].valid, action |-> ActionFor(scan[h].item)]
      <4>1. scan' = [scan EXCEPT ![h] = Idle] \/ scan' = [scan EXCEPT ![h] = q]
        BY <1>0, <3>1 DEF Act, Bury
      <4>2. q.valid = scan[h].valid
        OBVIOUS
      <4> HIDE DEF q
      <4> QED  BY <4>1, <4>2
    <3>2. CASE Call(h)
      <4> DEFINE q == [at |-> IF Acknowledges(scan[h].item, scan[h].action) THEN "done" ELSE "retry",
                       box |-> "wake", item |-> scan[h].item, valid |-> scan[h].valid]
      <4>1. scan' = [scan EXCEPT ![h] = q] /\ q.valid = scan[h].valid
        BY <1>0, <3>2 DEF Call
      <4> HIDE DEF q
      <4> QED  BY <4>1
    <3> QED  BY <1>8, <3>1, <3>2
  <2> QED  BY <1>1, <1>2, <2>1, <2>2
<1>9. ASSUME NEW h \in Host, Finish(h) \/ Exit(h)
      PROVE  Owned'
  BY <1>2, <1>9 DEF Finish, Exit
<1>10. ASSUME NEW h \in Host, TimeOut(h) \/ Throw(h)
       PROVE  Owned'
  <2>1. scan[h] # Idle /\ FailClaim(h)
    BY <1>0, <1>10, Works DEF TimeOut, Throw, At
  <2> QED  BY <1>3, <2>1
<1>11. ASSUME NEW h \in Host, NEW b \in Box, NEW d \in Item, Claim(h, b, d)
       PROVE  Owned'
  <2>1. \E q : q.valid /\ scan' = [scan EXCEPT ![h] = q]
    <3> DEFINE q == [at |-> "read", box |-> b, item |-> d, valid |-> TRUE]
    <3>1. q.valid /\ scan' = [scan EXCEPT ![h] = q]
      BY <1>11 DEF Claim
    <3> HIDE DEF q
    <3> QED  BY <3>1
  <2> QED  BY <1>0, <2>1 DEF Owned
<1>12. ASSUME NEW h \in Host, NEW b \in Box, NEW d \in Item, Reclaim(h, b, d)
       PROVE  Owned'
  BY <1>12 DEF Reclaim, Fenced, Owned
<1>13. ASSUME NEW h \in Host, Offer(h) \/ Admit(h) \/ LateEffect(h)
       PROVE  scan' = scan
  BY <1>13 DEF Offer, Admit, LateEffect
<1>14. ASSUME NEW d \in Item,
             \/ Arise(d) \/ RouteAnswer(d) \/ Supersede(d) \/ Advance(d) \/ Handle(d)
             \/ EnsureWake(d) \/ \E b \in Box : Expire(b, d)
       PROVE  scan' = scan
  BY <1>14 DEF Arise, RouteAnswer, Supersede, Advance, Handle, EnsureWake, Expire
<1>15. ASSUME NEW t \in Turn,
             \/ Interrupt(t) \/ Submit(t) \/ Round(t) \/ Settle(t) \/ EstablishFence(t)
             \/ Break(t) \/ LoseCrossing(t) \/ Ends(t)
       PROVE  scan' = scan
  BY <1>15 DEF Interrupt, Submit, Round, Settle, EstablishFence, Break, LoseCrossing,
               Ends, Complete, HandOff, Stop, Fail, EndAs
<1>16. CASE scan' = scan
  BY <1>16 DEF Owned
<1>17. CASE Next
  BY <1>5, <1>6, <1>7, <1>8, <1>9, <1>10, <1>11, <1>12, <1>13, <1>14, <1>15, <1>16, <1>17
     DEF Next, ScanStep
<1> QED  BY <1>16, <1>17 DEF vars

\* The same for a single host, with no condition on its claims: it looks for expired ones
\* between two rows only (the loop of the outboxes), so it takes none from itself.
THEOREM AcksKeptAlone == ASSUME \A g, h \in Host : g = h
                         PROVE  Spec => []AckKept
<1>1. Init => Owned
  BY DEF Init, Owned
<1> QED  BY <1>1, OwnedAlone, AcksKept, Invariance, PTL DEF Spec
=============================================================================

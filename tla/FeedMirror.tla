----------------------------- MODULE FeedMirror ------------------------------
(* What the client feed promises to a page that shows a conversation: of the    *)
(* commits of this host, and of those of other hosts, it shows all up to some   *)
(* point, and that point only moves forward, unless the page is loaded afresh.  *)
EXTENDS Naturals

CONSTANT Client

VARIABLES db,        \* how many commits were made here and by other hosts
          shown      \* which of them each page shows
mirrorVars == <<db, shown>>

Nothing == [local |-> {}, foreign |-> 0]

MirrorInit == db = [local |-> 0, foreign |-> 0] /\ shown = [c \in Client |-> Nothing]

Grow ==
    /\ \E source \in {"local", "foreign"} : db' = [db EXCEPT ![source] = @ + 1]
    /\ UNCHANGED shown

Show(c) ==
    /\ \E n \in 0..db.local, f \in shown[c].foreign..db.foreign :
           /\ shown[c].local \subseteq 1..n
           /\ shown' = [shown EXCEPT ![c] = [local |-> 1..n, foreign |-> f]]
    /\ UNCHANGED db

Load(c) == shown' = [shown EXCEPT ![c] = Nothing] /\ UNCHANGED db

MirrorNext == Grow \/ \E c \in Client : Show(c) \/ Load(c)
MirrorSpec == MirrorInit /\ [][MirrorNext]_mirrorVars
=============================================================================

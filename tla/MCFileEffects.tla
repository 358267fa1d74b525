---------------------------- MODULE MCFileEffects ----------------------------
(* A file that is replaced and a directory that is deleted, with the bounds of  *)
(* the behaviours TLC explores.                                                 *)
EXTENDS FileEffects

\* A window that edits and stops; a change set and a host that starts later; two
\* windows that approve one file; two hosts, one file and a Turn that is stopped
MCBounds ==
    {[hosts |-> 1, up |-> 1, members |-> 2, edits |-> 1, stops |-> TRUE, again |-> TRUE],
     [hosts |-> 2, up |-> 1, members |-> 2, edits |-> 0, stops |-> FALSE, again |-> FALSE],
     [hosts |-> 2, up |-> 2, members |-> 1, edits |-> 0, stops |-> FALSE, again |-> TRUE],
     [hosts |-> 2, up |-> 2, members |-> 1, edits |-> 0, stops |-> TRUE, again |-> FALSE]}
=============================================================================

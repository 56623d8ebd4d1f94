-------------------------- MODULE ConnectionPromise --------------------------
(***************************************************************************)
(* What src/glom/libglom/connectionpool.h promises to the callers of       *)
(* get_and_connect(), without reference counts, caches or signals: the     *)
(* connection is open as long as anybody uses it, and is closed some time  *)
(* after the last user has finished.                                       *)
(***************************************************************************)
CONSTANT Users

VARIABLES
    using,  \* the callers that were given the connection and have not finished
    open    \* whether the connection is open

vars == <<using, open>>

Init == using = {} /\ open = FALSE

Use(u) ==
    /\ using' = using \union {u}
    /\ open' = TRUE

\* The last user's finishing may close the connection at once.
Finish(u) ==
    /\ u \in using
    /\ using' = using \ {u}
    /\ \/ open' = open
       \/ using' = {} /\ open' = FALSE

\* Somebody connects and finishes at once: the connection is kept for a while.
Prefetch ==
    /\ open' = TRUE
    /\ UNCHANGED using

CloseIdle ==
    /\ open /\ using = {}
    /\ open' = FALSE
    /\ UNCHANGED using

\* The process ends, and with it every user.
Restart ==
    /\ using' = {}
    /\ open' = FALSE

Next ==
    \/ \E u \in Users : Use(u) \/ Finish(u)
    \/ Prefetch
    \/ CloseIdle
    \/ Restart

Spec == Init /\ [][Next]_vars /\ WF_vars(CloseIdle)

=============================================================================

--------------------------- MODULE AecpRefinement ---------------------------
(***************************************************************************)
(* The AECP controller, with its sequence ids, timers and vector of        *)
(* entries in flight, implements CommandLifecycle.                         *)
(***************************************************************************)
EXTENDS AecpController

\* The life of command c as the application and the network see it: the
\* transmissions of its frame and the reports of its end, in order.
LifeOf(c) ==
  [id    |-> hist[c].notification_id,
   sends |-> hist[c].sends,
   told  |-> [k \in DOMAIN hist[c].outcome |-> hist[c].outcome[k].end]]

Lives == [c \in DOMAIN hist |-> LifeOf(c)]

Lifecycle == INSTANCE CommandLifecycle
               WITH AppIds <- NotifyIds, NoId <- Null, life <- Lives

\* Every step of the controller is a step of the life of one command or
\* invisible: whatever arrives, no command is resent after its end, reported
\* twice, given up early, or reported to the application when it is the
\* library's own.
ImplementsLifecycle == Lifecycle!LifeSpec
=============================================================================

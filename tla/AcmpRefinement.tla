--------------------------- MODULE AcmpRefinement ---------------------------
(***************************************************************************)
(* The ACMP controller, with a timeout for every kind of command and       *)
(* multicast responses, implements CommandLifecycle.  All its commands are *)
(* the application's; an id is a sequence of one, none the empty one.      *)
(***************************************************************************)
EXTENDS AcmpController

\* Giving up is told as RESPONSE_RECEIVED too, with UINT_MAX for a status.
Told(end) == IF end = "timeout" THEN "COMMAND_TIMEOUT" ELSE end

\* The life of command c as the application and the network see it.
LifeOf(c) ==
  [id    |-> <<hist[c].notification_id>>,
   sends |-> hist[c].sends,
   told  |-> [k \in DOMAIN hist[c].outcome |-> Told(hist[c].outcome[k].end)]]

Lives == [c \in DOMAIN hist |-> LifeOf(c)]

Lifecycle == INSTANCE CommandLifecycle
               WITH AppIds <- {<<id>> : id \in NotifyIds}, NoId <- <<>>,
                    life <- Lives

\* Every step of the controller is a step of the life of one command or
\* invisible: though commands time out out of order and tick() erases from the
\* vector it walks, none is resent after its end, told twice, or given up
\* before it was sent twice.
ImplementsLifecycle == Lifecycle!LifeSpec
=============================================================================

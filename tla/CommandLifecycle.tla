-------------------------- MODULE CommandLifecycle --------------------------
(***************************************************************************)
(* What the controller promises about one command, whatever sequence ids,  *)
(* timers and the network do: it is sent, sent once more if no response    *)
(* came, and then exactly one thing is told about it.  The application is  *)
(* told RESPONSE_RECEIVED of its own commands only; a response to a        *)
(* command of the library is logged.  COMMAND_TIMEOUT is told of both.     *)
(***************************************************************************)
EXTENDS Integers, Sequences

CONSTANTS
  AppIds,  \* ids of the commands of the application
  NoId     \* the id of every command of the library

VARIABLE life  \* the commands in the order they are issued

Pending(c) == c \in DOMAIN life /\ life[c].told = <<>>

\* A command is sent for the first time.
Issue(id) == life' = Append(life, [id |-> id, sends |-> 1, told |-> <<>>])

\* A command without a response is sent once more.
SendAgain(c) ==
  /\ Pending(c)
  /\ life[c].sends = 1
  /\ life' = [life EXCEPT ![c].sends = 2]

Tell(c, what) ==
  /\ Pending(c)
  /\ life' = [life EXCEPT ![c].told = <<what>>]

Respond(c) ==
  Tell(c, IF life[c].id = NoId THEN "logged" ELSE "RESPONSE_RECEIVED")

\* Only a command that was sent twice is given up.
GiveUp(c) ==
  /\ life[c].sends = 2
  /\ Tell(c, "COMMAND_TIMEOUT")

LifeInit == life = <<>>

LifeNext ==
  \/ \E id \in AppIds \cup {NoId} : Issue(id)
  \/ \E c \in DOMAIN life : SendAgain(c) \/ Respond(c) \/ GiveUp(c)

LifeSpec == LifeInit /\ [][LifeNext]_life
=============================================================================

----------------------------- MODULE MCCommands -----------------------------
(* Instances of CommandTree and CommandLine for TLC, side by side: the tree *)
(* hands its lines to the handlers and sees nothing of what they do, so a   *)
(* behaviour exercises one of the two: part is the one chosen at the start. *)
(* In a third part an end station is enumerated again under the lines that  *)
(* are the longest or use descriptors after their wait.                     *)
(*                                                                          *)
(* The tree is typed every path of its, and some that leave it, followed by *)
(* too few, enough, too many and unsuitable words.                          *)
EXTENDS MCCommandLine, CommandTree

MCInts      == {"0", "7"}
MCEntityIds == {"0x1"}

Paths == ListedCommands
           \cup {<<"log">>, <<"view", "media">>, <<"get", "tx">>, <<"nonsense">>}

Words == {<<>>, <<"7">>, <<"text">>, <<"0x1", "7">>, <<"text", "", "7">>,
          <<"text", "text", "0">>, <<"text", "7", "text", "text">>,
          <<"0", "7", "0x1", "7", "text", "text">>, <<"0x1", "7", "7", "text", "7">>}

MCTreeLines == {path \o words : path \in Paths, words \in Words}

\* The lines under which an end station is enumerated again.
RenewedLines ==
  {line \in Lines :
     line.handler \in {"view_all", "view_details", "show_connections", "reboot",
                      "get_tx_state", "get_clock_source", "firmware_upgrade"}}

VARIABLE part

sumVars == <<part, treeVars, lineVars>>

\* Where the handlers are exercised the values of all arguments are put aside.
SumInit ==
  /\ LineInit
  /\ \/ part = "tree" /\ TreeInit
     \/ part \in {"handlers", "renewed"} /\ values = <<>> /\ last = NothingTyped
        /\ lines_typed = 0 /\ done = FALSE

\* A step of the handlers leaves the tree alone.
InHandlers(action) == part # "tree" /\ action /\ UNCHANGED <<part, treeVars>>

SumNext ==
  \/ part = "tree" /\ TreeNext /\ UNCHANGED <<part, lineVars>>
  \/ \E line \in Lines :
       InHandlers(Handle(line) /\ (part = "renewed" => typed = 0 /\ line \in RenewedLines))
  \/ InHandlers(Wake)
  \/ InHandlers(Report)
  \/ InHandlers(UsesDeleted)
  \/ InHandlers(WalkStation)
  \/ InHandlers(WalkKind)
  \/ InHandlers(WalkDetails)
  \/ InHandlers(CollectInputs)
  \/ InHandlers(CollectOutputs)
  \/ InHandlers(Collected)
  \/ InHandlers(Upgrade)
  \/ \E yes \in BOOLEAN : InHandlers(Answer(yes))
  \/ InHandlers(PollNext /\ (reenumerations' = reenumerations \/ part = "renewed"))

SumSpec == SumInit /\ [][SumNext]_sumVars
=============================================================================

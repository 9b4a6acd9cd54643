--------------------------- MODULE MCDescriptors ---------------------------
(* Instances of DescriptorCommands for TLC.                                 *)
EXTENDS DescriptorCommands

FormatCalls == {"STREAM_OUTPUT"} \X {"SET_STREAM_FORMAT", "GET_STREAM_FORMAT"}

\* What happens to different fields has nothing in common: the two calls are about
\* one field, and so is the change made by others or the repeated read.  The first
\* call may be sent twice, and one such event or a re-enumeration goes with the
\* calls: with two calls it is the one or the other, with one call both.
Field(c) == <<c.kind, FieldOf(c.call)>>
Events == changes + reads + reenumerated
Bounded ==
  /\ Events <= 1
  /\ Events = 0 \/ Len(cmds) <= 1 \/ \A n \in DOMAIN cmds : ~cmds[n].resent
  /\ \A n \in DOMAIN cmds :
       /\ cmds[n].resent => n = 1
       /\ Field(cmds[n]) = Field(cmds[1])
       /\ \A f \in Fields : had[f] # {1} => f = Field(cmds[n])
       /\ \A k \in Kinds : reads > 0 /\ generation[k] > 0 => k = cmds[n].kind
=============================================================================

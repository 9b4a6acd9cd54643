-------------------------- MODULE MCDiscoveryAcmp --------------------------
(* Instances of Discovery and AcmpRefinement for TLC, side by side.  The    *)
(* two have no state and no event in common but the timer tick, whose calls *)
(* of one and of the other do not meet, so a behaviour exercises one of     *)
(* them: part is the one chosen at the start.                               *)
EXTENDS Discovery, AcmpRefinement

\* CONNECT_RX waits longer for its response than GET_RX_STATE.
Kinds == {"CONNECT_RX", "GET_RX_STATE"}
KindTimeout == [t \in Kinds |-> IF t = "CONNECT_RX" THEN 2 ELSE 0]

VARIABLE part

sumVars == <<part, discVars, acmpVars>>

\* A step of one part leaves the other alone.
InDisc(action) == part = "discovery" /\ action /\ UNCHANGED <<part, acmpVars>>
InAcmp(action) == part = "acmp" /\ action /\ UNCHANGED <<part, discVars>>

SumInit == part \in {"discovery", "acmp"} /\ DiscInit /\ Init

SumNext ==
  \/ InDisc(DiscNext)
  \/ InAcmp(Next)

\* The fairness of each.
SumSpec ==
  /\ SumInit /\ [][SumNext]_sumVars
  /\ WF_sumVars(InDisc(DiscTick)) /\ WF_sumVars(InDisc(DiscElapse))
  /\ WF_sumVars(InAcmp(TickBegin)) /\ WF_sumVars(InAcmp(TickStep))
  /\ WF_sumVars(InAcmp(TickEnd)) /\ WF_sumVars(InAcmp(Elapse))
=============================================================================

---------------------------- MODULE MCEndStation ----------------------------
(* Instances of EndStation for TLC: small entities.                        *)
EXTENDS EndStation

R(t, b, n) == [type |-> t, base |-> b, count |-> n]

Small == {<<"ENTITY", 0>>, <<"CONFIGURATION", 0>>, <<"AUDIO_UNIT", 0>>,
          <<"VIDEO_UNIT", 0>>, <<"CONTROL", 0>>, <<"CONTROL", 1>>,
          <<"STREAM_PORT_INPUT", 0>>, <<"STREAM_PORT_INPUT", 1>>,
          <<"AUDIO_CLUSTER", 0>>, <<"AUDIO_CLUSTER", 1>>}

\* An audio unit with two stream ports of one cluster each.
TwoPorts ==
  [d \in {x \in Small : x[1] \notin {"CONTROL", "VIDEO_UNIT"}} |->
     CASE d = <<"ENTITY", 0>> -> <<R("CONFIGURATION", 0, 1)>>
       [] d = <<"CONFIGURATION", 0>> -> <<R("AUDIO_UNIT", 0, 1)>>
       [] d = <<"AUDIO_UNIT", 0>> -> <<R("STREAM_PORT_INPUT", 0, 2)>>
       [] d = <<"STREAM_PORT_INPUT", 0>> -> <<R("AUDIO_CLUSTER", 0, 1)>>
       [] d = <<"STREAM_PORT_INPUT", 1>> -> <<R("AUDIO_CLUSTER", 1, 1)>>
       [] OTHER -> <<>>]

\* An audio unit with two controls, and a video unit, which the library does not
\* store: no two members of a type that is looked up by position.
OneUnit ==
  [d \in {x \in Small : x[1] \notin {"STREAM_PORT_INPUT", "AUDIO_CLUSTER"}} |->
     CASE d = <<"ENTITY", 0>> -> <<R("CONFIGURATION", 0, 1)>>
       [] d = <<"CONFIGURATION", 0>> -> <<R("AUDIO_UNIT", 0, 1), R("VIDEO_UNIT", 0, 1)>>
       [] d = <<"AUDIO_UNIT", 0>> -> <<R("CONTROL", 0, 2)>>
       [] OTHER -> <<>>]

OneUnitDesc  == DOMAIN OneUnit
TwoPortsDesc == DOMAIN TwoPorts
=============================================================================

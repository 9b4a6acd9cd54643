------------------------------ MODULE Discovery ------------------------------
(***************************************************************************)
(* Discovery of end stations: the ADP discovery state machine              *)
(* (adp_discovery_state_machine.cpp) and the ADP branch of                 *)
(* controller_imp::rx_packet_event and time_tick_event.                    *)
(*                                                                         *)
(* Two tables describe the same entities: entities_vec, from which an      *)
(* entity is erased when it falls silent, and the end stations, which are  *)
(* kept for ever and marked connected or disconnected.  The application    *)
(* is told by END_STATION_CONNECTED and END_STATION_DISCONNECTED.  All of  *)
(* it runs in the poll thread.                                             *)
(*                                                                         *)
(* Only advertisements that reach the tables are modelled: those with      *)
(* entity id 0 and those of entities that ask to be ignored or are not     *)
(* ready change nothing.  The message type is not looked at: a departing   *)
(* or discover message with an entity id counts as an advertisement.       *)
(*                                                                         *)
(* posted, heard and enumerated are history: the last notification about   *)
(* each entity, how long ago it was heard and the valid time it asked for   *)
(* then, and the advertisement its enumeration was started for.             *)
(***************************************************************************)
EXTENDS Integers, Sequences, SequencesExt

CONSTANTS
  Entities,        \* entity ids
  ValidTimes,      \* values of valid_time
  Models,          \* entity model ids
  MaxIndex,        \* bound on available_index
  MaxAdpdus        \* bound on the advertisements received

ASSUME DiscoveryAssumption ==
  /\ ValidTimes \subseteq Nat
  /\ Models # {}
  /\ MaxIndex \in Nat
  /\ MaxAdpdus \in Nat

VARIABLES
  first_tick,
  entities_vec,    \* adp_discovery_state_machine::entities_vec
  status,          \* end_station_connection_status; "absent" if there is none
  adp,             \* the advertisement an end station keeps
  posted,
  heard,
  enumerated,
  adpdus           \* advertisements received so far

discVars == <<first_tick, entities_vec, status, adp, posted, heard,
              enumerated, adpdus>>

\* An end station is kept under what it advertised: its model, and an index
\* that grows until the entity restarts.
Adp == [available_index : 0 .. MaxIndex, model : Models]
NoAdp == [available_index |-> 0, model |-> CHOOSE m \in Models : TRUE]

\* An entity times out after twice its valid time.
Timeout(valid_time) == valid_time * 2

Entry == [entity_id : Entities, timeout : {2 * v : v \in ValidTimes},
          elapsed : Nat]
-----------------------------------------------------------------------------
(***************************************************************************)
(* adp_discovery_state_machine                                             *)
(***************************************************************************)
HaveEntity(e) == \E i \in DOMAIN entities_vec : entities_vec[i].entity_id = e
IndexOf(e) == CHOOSE i \in DOMAIN entities_vec :
                /\ entities_vec[i].entity_id = e
                /\ \A k \in 1 .. i - 1 : entities_vec[k].entity_id # e

NewEntry(e, valid_time) ==
  [entity_id |-> e, timeout |-> Timeout(valid_time), elapsed |-> 0]

update_entity_timeout_last(i, e, valid_time) ==                  \* mutant
  entities_vec' = [entities_vec EXCEPT ![Len(entities_vec)].elapsed = 0]
update_entity_timeout(i, e, valid_time) ==
  entities_vec' = [entities_vec EXCEPT ![i] = NewEntry(e, valid_time)]

state_avail_always(e, valid_time) ==                             \* mutant
  /\ entities_vec' = Append(entities_vec, NewEntry(e, valid_time))
  /\ posted' = [posted EXCEPT ![e] = "END_STATION_CONNECTED"]
state_avail(e, valid_time) ==
  IF HaveEntity(e)
  THEN /\ update_entity_timeout(IndexOf(e), e, valid_time)
       /\ UNCHANGED posted
  ELSE /\ entities_vec' = Append(entities_vec, NewEntry(e, valid_time))
       /\ posted' = [posted EXCEPT ![e] = "END_STATION_CONNECTED"]

TimedOut(i) == entities_vec[i].elapsed > entities_vec[i].timeout

\* The first entry that timed out; mutant: the loop starts at the second.
FirstTimedOut_from1(i) ==
  /\ i \in DOMAIN entities_vec \ {1}
  /\ TimedOut(i)
  /\ \A k \in 2 .. i - 1 : ~TimedOut(k)
FirstTimedOut(i) ==
  /\ i \in DOMAIN entities_vec
  /\ TimedOut(i)
  /\ \A k \in 1 .. i - 1 : ~TimedOut(k)
-----------------------------------------------------------------------------
(***************************************************************************)
(* controller_imp                                                          *)
(***************************************************************************)
\* Mutant: the entity model is not compared.
Reenumerates_index(e, a) == a.available_index < adp[e].available_index

\* The entity restarted or became another one: end_station_reenumerate.
Reenumerates(e, a) ==
  \/ a.available_index < adp[e].available_index
  \/ a.model # adp[e].model

\* The end of the ADP branch of rx_packet_event, whatever came before it: the
\* end station is connected and keeps advertisement a, its timer is started.
Connect(e, a, valid_time) ==
  /\ adpdus < MaxAdpdus
  /\ adpdus' = adpdus + 1
  /\ status' = [status EXCEPT ![e] = "C"]
  /\ adp' = [adp EXCEPT ![e] = a]
  /\ state_avail(e, valid_time)
  /\ heard' = [heard EXCEPT ![e] = [valid_time |-> valid_time, ago |-> 0]]
  /\ UNCHANGED first_tick

\* The first advertisement of an entity: a new end station, which reads the
\* descriptors.
RcvdNew(e, a, valid_time) ==
  /\ status[e] = "absent"
  /\ Connect(e, a, valid_time)
  /\ enumerated' = [enumerated EXCEPT ![e] = a]

RcvdRestarted(e, a, valid_time) ==
  /\ status[e] # "absent"
  /\ Reenumerates(e, a)
  /\ Connect(e, a, valid_time)
  /\ enumerated' = [enumerated EXCEPT ![e] = a]

RcvdAgain(e, a, valid_time) ==
  /\ status[e] # "absent"
  /\ ~Reenumerates(e, a)
  /\ Connect(e, a, valid_time)
  /\ UNCHANGED enumerated

\* time_tick_event: at most one entity times out per tick.
DiscTick ==
  /\ first_tick' = FALSE
  /\ \/ \E i \in DOMAIN entities_vec :
          LET e == entities_vec[i].entity_id
          IN  /\ FirstTimedOut(i)
              /\ entities_vec' = RemoveAt(entities_vec, i)
              /\ posted' = [posted EXCEPT ![e] = "END_STATION_DISCONNECTED"]
              /\ status' = IF status[e] = "absent" THEN status
                           ELSE [status EXCEPT ![e] = "D"]
     \/ /\ \A i \in DOMAIN entities_vec : ~FirstTimedOut(i)
        /\ UNCHANGED <<entities_vec, posted, status>>
  /\ UNCHANGED <<adp, heard, enumerated, adpdus>>

\* One unit of time; timers are saturated one unit past their timeout.
DiscLater(r) == [r EXCEPT !.elapsed = IF @ > r.timeout THEN @ ELSE @ + 1]

DiscElapse ==
  /\ \E i \in DOMAIN entities_vec : ~TimedOut(i)
  /\ entities_vec' = [i \in DOMAIN entities_vec |-> DiscLater(entities_vec[i])]
  /\ heard' = [e \in Entities |->
       [heard[e] EXCEPT !.ago = IF @ > 2 * heard[e].valid_time
                                THEN @ ELSE @ + 1]]
  /\ UNCHANGED <<first_tick, status, adp, posted, enumerated, adpdus>>
-----------------------------------------------------------------------------
DiscInit ==
  /\ first_tick = TRUE
  /\ entities_vec = <<>>
  /\ status = [e \in Entities |-> "absent"]
  /\ adp = [e \in Entities |-> NoAdp]
  /\ posted = [e \in Entities |-> "none"]
  /\ heard = [e \in Entities |-> [valid_time |-> 0, ago |-> 1]]
  /\ enumerated = [e \in Entities |-> NoAdp]
  /\ adpdus = 0

DiscNext ==
  \/ \E e \in Entities, a \in Adp, v \in ValidTimes :
       \/ RcvdNew(e, a, v)
       \/ RcvdRestarted(e, a, v)
       \/ RcvdAgain(e, a, v)
  \/ DiscTick
  \/ DiscElapse

DiscSpec == DiscInit /\ [][DiscNext]_discVars

\* The timerfd keeps ticking and time passes; nothing is assumed of the
\* entities.
DiscFairSpec == DiscSpec /\ WF_discVars(DiscTick) /\ WF_discVars(DiscElapse)
-----------------------------------------------------------------------------
DiscTypeOK ==
  /\ first_tick \in BOOLEAN
  /\ entities_vec \in Seq(Entry)
  /\ status \in [Entities -> {"absent", "C", "D"}]
  /\ adp \in [Entities -> Adp]
  /\ posted \in [Entities -> {"none", "END_STATION_CONNECTED",
                              "END_STATION_DISCONNECTED"}]
  /\ heard \in [Entities -> [valid_time : ValidTimes \cup {0}, ago : Nat]]
  /\ enumerated \in [Entities -> Adp]
  /\ adpdus \in 0 .. MaxAdpdus

\* The two tables and the application agree: an entity has a timer, and one
\* only, exactly while its end station is connected, and the last the
\* application was told of it is that it is connected.
TablesAgree ==
  /\ DiscTypeOK
  /\ \A e \in Entities :
       /\ HaveEntity(e) <=> status[e] = "C"
       /\ status[e] = "C" <=> posted[e] = "END_STATION_CONNECTED"
  /\ \A i, k \in DOMAIN entities_vec :
       entities_vec[i].entity_id = entities_vec[k].entity_id => i = k

\* An entity is disconnected only if it was silent for longer than twice the
\* valid time of its last advertisement, whatever the others do
\* (update_entity_timeout, have_entity).
NoEarlyDisconnect ==
  [][\A e \in Entities :
       status[e] = "C" /\ status'[e] # "C" =>
         heard[e].ago > 2 * heard[e].valid_time]_discVars

\* The enumeration follows the advertisements: the descriptors read are those
\* of the model the entity advertised last, and of no later start of it.
EnumerationFollows ==
  \A e \in Entities :
    status[e] # "absent" =>
      /\ enumerated[e].model = adp[e].model
      /\ enumerated[e].available_index <= adp[e].available_index

\* Entities that fall silent are all disconnected in the end, though a tick
\* disconnects no more than one.
SilentAreDisconnected == <>[](\A e \in Entities : status[e] # "C")
=============================================================================

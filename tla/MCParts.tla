------------------------------- MODULE MCParts -------------------------------
(***************************************************************************)
(* Four parts of the program that have nothing to do with each other, on   *)
(* small instances: the rooms, the opening hours, the sets of numbers and  *)
(* the slots with their texts and snoopers.  A behaviour is one of the     *)
(* part, while the others stay as they begin.                              *)
(***************************************************************************)
EXTENDS MCRooms, Hours, IntSet, Slots

VARIABLE part

\* One of the beginnings, for the parts that have several.
StillRooms == place = [c \in {Player, Mobile} |-> Out]
StillHours == file = << >> /\ clock = 0

PartsInit ==
  /\ Init /\ InitHours /\ InitIntset /\ InitSlots
  /\ part \in {"rooms", "hours", "sets", "slots"}
  /\ part # "rooms" => StillRooms
  /\ part # "hours" => StillHours

PartsNext ==
  /\ \/ part = "rooms" /\ Next /\ UNCHANGED <<hoursVars, setVars, slotVars>>
     \/ part = "hours" /\ HoursNext /\ UNCHANGED <<vars, setVars, slotVars>>
     \/ part = "sets" /\ SetNext /\ UNCHANGED <<vars, hoursVars, slotVars>>
     \/ part = "slots" /\ SlotsNext /\ UNCHANGED <<vars, hoursVars, setVars>>
  /\ UNCHANGED part

PartsSpec == PartsInit /\ [][PartsNext]_<<vars, hoursVars, setVars, slotVars, part>>
=============================================================================

---------------------------- MODULE MCMediaJobs ----------------------------
(* A portrait that two blocks show, adapted to a mood that changes at the   *)
(* first of three blocks, and a map that is drawn on the spot.              *)
EXTENDS MediaJobs

CONSTANTS gate, hall, tower, calm, grim, smiling, frowning, map, portrait, plan

StoryExits == [b \in {gate, hall, tower} |->
    CASE b = gate -> <<hall>> [] b = hall -> <<gate, tower>> [] b = tower -> <<hall>>]
StoryMedia == [b \in {gate, hall, tower} |->
    CASE b = gate -> <<>> [] b = hall -> <<1>> [] b = tower -> <<2, 3>>]
StoryAdapted == [s \in 1..3 |-> [m \in {calm, grim} |->
    IF s = 2 THEN map ELSE IF m = calm THEN smiling ELSE frowning]]
StoryEffect == [b \in {gate, hall, tower} |-> IF b = gate THEN grim ELSE calm]
Labels == [s \in {smiling, frowning, map} |-> IF s = map THEN plan ELSE portrait]
=============================================================================

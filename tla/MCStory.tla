-------------------------------- MODULE MCStory --------------------------------
(***************************************************************************)
(* A small story for the runs of the ledger: a container, a call, a prereq *)
(* and a postreq redirect, an edge whose destination is left open.         *)
(***************************************************************************)
EXTENDS StoryGraph, TLC

CONSTANTS hub, scene, room, well, e_scene, e_call, e_auto, e_deep, e_open

\* hub --e_scene--> scene (a container entered at room);
\* room --e_auto--> hub on its own once it is journaled, if hub is available;
\* hub --e_call--> well, a call that returns to hub's POSTREQS;
\* well --e_deep--> scene before anything of it is shown: a prereq redirect;
\* hub --e_open--> a destination that is left to provisioning.
MCNodes == {hub, scene, room, well}
MCEdges == {e_scene, e_call, e_auto, e_deep, e_open}
Edge(pred, trigger, entry, ret) ==
    [pred |-> pred, trigger |-> trigger, entry |-> entry, ret |-> ret]
MCEdgeAt ==
    e_scene :> Edge(hub, UNSET, VALIDATE, UNSET) @@
    e_call  :> Edge(hub, UNSET, VALIDATE, POSTREQS) @@
    e_auto  :> Edge(room, POSTREQS, VALIDATE, UNSET) @@
    e_deep  :> Edge(well, PREREQS, VALIDATE, UPDATE) @@
    e_open  :> Edge(hub, UNSET, PLANNING, UNSET)
MCAuthored ==
    e_scene :> scene @@ e_call :> well @@ e_auto :> hub @@ e_deep :> scene
      @@ e_open :> NoNode
NothingFound == [e \in MCEdges |-> NoNode]
\* No action is built anew, one at the hub and one at the room, or two at once.
OneEach == [n \in MCNodes |-> IF n \in {hub, room} THEN 1 ELSE 0]
TwoAtRoom == [n \in MCNodes |-> IF n = room THEN 2 ELSE 0]
NoneBuilt == [n \in MCNodes |-> 0]
WellFound == [NothingFound EXCEPT ![e_open] = well]
MCEntries == scene :> {room} @@ hub :> {} @@ room :> {} @@ well :> {}
=============================================================================

------------------------------ MODULE MapStore ------------------------------
(***************************************************************************)
(* What the service that updates the map promises                          *)
(* (RetroNaviMapDownloadService.java): one update at a time; while the new  *)
(* map is fetched the installed maps stay as they are; only when all of it  *)
(* has arrived are they removed, one by one, and what is then installed is  *)
(* what arrived.  An update may be given up, also when maps are removed     *)
(* already (the process is killed, or the file cannot be renamed), but it   *)
(* ends.                                                                   *)
(***************************************************************************)
CONSTANTS
  Names,      \* the names of map files
  MapFile,    \* the name the service installs a map under
  NoFile,     \* no such file
  Kept,       \* contents of the files that were there before
  Downloads   \* contents that can arrive

VARIABLES
  phase,      \* idle, fetching, replacing
  arrived,    \* what is to be installed
  maps        \* the content of each map file

vars == <<phase, arrived, maps>>

Init ==
  /\ phase = "idle"
  /\ arrived = NoFile
  /\ maps \in [Names -> Kept \cup {NoFile}]

Begin ==
  /\ phase = "idle" /\ phase' = "fetching"
  /\ UNCHANGED <<arrived, maps>>

GiveUp ==
  /\ phase = "fetching" /\ phase' = "idle"
  /\ UNCHANGED <<arrived, maps>>

Arrive ==
  /\ phase = "fetching" /\ phase' = "replacing"
  /\ arrived' \in Downloads
  /\ UNCHANGED maps

Remove(f) ==
  /\ phase = "replacing"
  /\ maps' = [maps EXCEPT ![f] = NoFile]
  /\ UNCHANGED <<phase, arrived>>

Install ==
  /\ phase = "replacing" /\ phase' = "idle"
  /\ maps' = [maps EXCEPT ![MapFile] = arrived]
  /\ arrived' = NoFile

Lose ==
  /\ phase = "replacing" /\ phase' = "idle"
  /\ arrived' = NoFile
  /\ UNCHANGED maps

Finish == GiveUp \/ Arrive \/ Install \/ Lose

Next == Begin \/ Finish \/ \E f \in Names : Remove(f)

Spec == Init /\ [][Next]_vars

FairSpec == Spec /\ WF_vars(Finish)
=============================================================================

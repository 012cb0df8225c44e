----------------------------- MODULE MapDownload ----------------------------
(***************************************************************************)
(* The service that downloads a map in the background                      *)
(* (RetroNaviMapDownloadService.java), the dialog that starts and cancels   *)
(* it (RetroNaviMapUpdater.java), and the files on the card.  The service   *)
(* is an IntentService: one thread, one request after the other.  The       *)
(* dialog and the broadcasts run on the main thread, and the process may    *)
(* be killed at any time.                                                  *)
(***************************************************************************)
EXTENDS Naturals

CONSTANTS
  Names,      \* the files navitmap_*.bin
  MapFile,    \* navitmap_001.bin
  NoFile,     \* no such file
  Old,        \* the content of the files that were there before
  Size,       \* the number of chunks of the map on the server
  MaxQueue    \* bound of the model: requests that wait

ASSUME MapDownloadAssumption ==
  /\ MapFile \in Names
  /\ Size \in Nat
  /\ MaxQueue \in Nat
  /\ NoFile \notin Nat
  /\ Old \notin Nat
  /\ Old # NoFile

VARIABLES
  dialog,          \* the dialog that is shown: none, confirm, progress
  queue,           \* the number of intents that wait for the service
  pc,              \* where onHandleIntent is
  running,         \* RetroNaviMapDownloadService.running
  cancelRequested, \* RetroNaviMapDownloadService.cancelRequested
  registered,      \* the receiver of the broadcast to cancel is registered
  notification,    \* what the notification bar shows
  announced,       \* the server told the length
  doomed,          \* the rest of oldMaps
  temp,            \* navitmap_download.tmp: the number of chunks in it
  maps,            \* the map files
  catalogue,       \* maps_cat.txt
  happened         \* history: accidents that properties make exceptions for

service == <<pc, running, announced, doomed>>
flags == <<cancelRequested, registered>>
files == <<temp, maps, catalogue>>
vars == <<dialog, queue, service, flags, notification, files, happened>>

Installed == {f \in Names : maps[f] # NoFile}

Init ==
  /\ dialog = "none" /\ queue = 0 /\ pc = "idle"
  /\ running = FALSE /\ cancelRequested = FALSE /\ registered = FALSE
  /\ notification = "none" /\ announced = FALSE /\ doomed = {}
  /\ temp = NoFile /\ maps \in [Names -> {Old, NoFile}] /\ catalogue = "old"
  /\ happened = {}

-----------------------------------------------------------------------------
(* The user.  The dialog asks running when it opens, and not again.         *)
StartUpdate ==
  /\ dialog = "none"
  /\ dialog' = IF running THEN "progress" ELSE "confirm"
  /\ UNCHANGED <<queue, service, flags, notification, files, happened>>

Confirm ==
  /\ dialog = "confirm" /\ dialog' = "none"
  /\ queue < MaxQueue
  /\ queue' = queue + 1
  /\ UNCHANGED <<service, flags, notification, files, happened>>

Dismiss ==
  /\ dialog # "none" /\ dialog' = "none"
  /\ UNCHANGED <<queue, service, flags, notification, files, happened>>

RequestCancel ==
  /\ dialog = "progress" /\ dialog' = "none"
  /\ cancelRequested' = TRUE
  /\ UNCHANGED <<queue, service, registered, notification, files, happened>>

(* The button of the notification, which all of its forms have.             *)
CancelBroadcast ==
  /\ registered /\ notification # "none"
  /\ cancelRequested' = TRUE
  /\ UNCHANGED <<dialog, queue, service, registered, notification, files, happened>>

-----------------------------------------------------------------------------
(* The service's thread.                                                    *)
NotifyError ==
  /\ notification' = "error"
  /\ running' = FALSE

Cleanup ==
  /\ notification' = "none"
  /\ temp' = NoFile
  /\ running' = FALSE

(* Mutant: the service handles the null of a restart like a request.        *)
BeginWithoutIntent ==
  /\ pc = "idle" /\ pc' = "begun"
  /\ queue' = queue - 1
  /\ running' = TRUE
  /\ UNCHANGED <<dialog, flags, notification, announced, doomed, files, happened>>

Begin ==
  /\ pc = "idle" /\ pc' = "begun"
  /\ queue > 0 /\ queue' = queue - 1
  /\ running' = TRUE
  /\ UNCHANGED <<dialog, flags, notification, announced, doomed, files, happened>>

(* A cancel that came before this is forgotten.                             *)
Prepare ==
  /\ pc = "begun" /\ pc' = "connect"
  /\ cancelRequested' = FALSE
  /\ registered' = TRUE
  /\ notification' = "ongoing"
  /\ UNCHANGED <<dialog, queue, running, announced, doomed, files, happened>>

Connect ==
  /\ pc = "connect"
  /\ IF cancelRequested
       THEN Cleanup /\ pc' = "finally"
       ELSE UNCHANGED <<notification, temp, running>> /\ pc' = "response"
  /\ UNCHANGED <<dialog, queue, flags, announced, doomed, maps, catalogue, happened>>

(* The answer, or that of the server it redirects to.                       *)
Response ==
  /\ pc = "response"
  /\ \/ pc' = "open" /\ UNCHANGED <<notification, running>>
     \/ pc' = "finally" /\ NotifyError
  /\ UNCHANGED <<dialog, queue, flags, announced, doomed, files, happened>>

(* Mutant: the old maps make room for the new one before it is there.       *)
OpenInEmptyFolder ==
  /\ pc = "open" /\ pc' = "read"
  /\ announced' \in BOOLEAN
  /\ temp' = 0
  /\ maps' = [f \in Names |-> NoFile]
  /\ UNCHANGED <<dialog, queue, running, flags, notification, doomed, catalogue, happened>>

(* The temporary file is truncated.  Not every server tells a length.       *)
Open ==
  /\ pc = "open" /\ pc' = "read"
  /\ announced' \in BOOLEAN
  /\ temp' = 0
  /\ UNCHANGED <<dialog, queue, running, flags, notification, doomed, maps, catalogue, happened>>

(* Mutant: a cancelled download keeps its notification.                     *)
ReadChunkQuietly ==
  /\ pc = "read" /\ temp < Size
  /\ IF cancelRequested
       THEN temp' = NoFile /\ running' = FALSE /\ pc' = "finally"
       ELSE temp' = temp + 1 /\ UNCHANGED <<running, pc>>
  /\ UNCHANGED <<dialog, queue, flags, announced, notification, doomed, maps, catalogue, happened>>

ReadChunk ==
  /\ pc = "read" /\ temp < Size
  /\ IF cancelRequested
       THEN Cleanup /\ pc' = "finally"
       ELSE temp' = temp + 1 /\ UNCHANGED <<notification, running, pc>>
  /\ UNCHANGED <<dialog, queue, flags, announced, doomed, maps, catalogue, happened>>

(* Mutant: a connection that breaks looks like the end of the file.         *)
EndOfAnyInput ==
  /\ pc = "read" /\ pc' = "close"
  /\ UNCHANGED <<dialog, queue, running, announced, doomed, flags, notification, files, happened>>

(* The stream ends.  It throws if it ends before the length it announced.   *)
EndOfInput ==
  /\ pc = "read" /\ pc' = "close"
  /\ temp = Size \/ ~announced
  /\ happened' = IF temp = Size THEN happened ELSE happened \cup {"cut"}
  /\ UNCHANGED <<dialog, queue, running, announced, doomed, flags, notification, files>>

(* The file is closed and the folder is listed, which may give nothing.     *)
Close ==
  /\ pc = "close" /\ pc' = "replace"
  /\ doomed' \in {Installed, {}}
  /\ UNCHANGED <<dialog, queue, running, announced, flags, notification, files, happened>>

(* An old map is deleted, if it can be.                                     *)
RemoveOld(f) ==
  /\ pc = "replace" /\ f \in doomed
  /\ doomed' = doomed \ {f}
  /\ maps' \in {maps, [maps EXCEPT ![f] = NoFile]}
  /\ UNCHANGED <<dialog, queue, pc, running, announced, flags, notification, temp, catalogue, happened>>

(* Mutant: nobody looks whether the file could be renamed.                  *)
RenameUnchecked ==
  /\ pc = "replace" /\ doomed = {}
  /\ \/ /\ maps' = [maps EXCEPT ![MapFile] = temp]
        /\ temp' = NoFile
     \/ UNCHANGED <<maps, temp>>
  /\ pc' = "catalogue"
  /\ UNCHANGED <<dialog, queue, running, announced, doomed, flags, notification, catalogue, happened>>

Rename ==
  /\ pc = "replace" /\ doomed = {}
  /\ \/ /\ maps' = [maps EXCEPT ![MapFile] = temp]
        /\ temp' = NoFile
        /\ pc' = "catalogue"
        /\ UNCHANGED <<notification, running>>
     \/ NotifyError /\ pc' = "finally" /\ UNCHANGED <<maps, temp>>
  /\ UNCHANGED <<dialog, queue, announced, doomed, flags, catalogue, happened>>

(* Failures to write the catalogue are logged.                              *)
WriteCatalogue ==
  /\ pc = "catalogue" /\ pc' = "done"
  /\ catalogue' \in {catalogue, "empty", "new"}
  /\ UNCHANGED <<dialog, queue, running, announced, doomed, flags, notification, temp, maps, happened>>

Done ==
  /\ pc = "done" /\ pc' = "finally"
  /\ notification' = "done"
  /\ UNCHANGED <<dialog, queue, running, announced, doomed, flags, files, happened>>

(* Mutant: an exception ends the loop, and what there is gets installed.    *)
ExceptionSwallowed ==
  /\ pc \in {"connect", "response", "open", "read", "close"}
  /\ pc' = "close"
  /\ UNCHANGED <<dialog, queue, running, announced, doomed, flags, notification, files, happened>>

(* Connecting, reading and writing may fail wherever the service is.        *)
Exception ==
  /\ pc \in {"connect", "response", "open", "read", "close"}
  /\ pc' = "failed"
  /\ UNCHANGED <<dialog, queue, running, announced, doomed, flags, notification, files, happened>>

(* A failure is only told when nobody asked to cancel.                      *)
Failed ==
  /\ pc = "failed" /\ pc' = "finally"
  /\ IF cancelRequested
       THEN happened' = happened \cup {"silent"} /\ UNCHANGED <<notification, running>>
       ELSE NotifyError /\ UNCHANGED happened
  /\ UNCHANGED <<dialog, queue, announced, doomed, flags, files>>

Finally ==
  /\ pc = "finally" /\ pc' = "idle"
  /\ registered' = FALSE
  /\ running' = FALSE
  /\ UNCHANGED <<dialog, queue, announced, doomed, cancelRequested, notification, files, happened>>

-----------------------------------------------------------------------------
(* The process is killed and started again: files and the notification bar  *)
(* stay, requests are not delivered again.                                  *)
Kill ==
  /\ pc' = "idle" /\ dialog' = "none" /\ queue' = 0 /\ doomed' = {}
  /\ running' = FALSE /\ cancelRequested' = FALSE /\ registered' = FALSE
  /\ happened' = happened \cup {"kill"}
  /\ UNCHANGED <<announced, notification, files>>

User == StartUpdate \/ Confirm \/ Dismiss \/ RequestCancel \/ CancelBroadcast

Service ==
  \/ Begin \/ Prepare \/ Connect \/ Response \/ Open
  \/ ReadChunk \/ EndOfInput \/ Close
  \/ \E f \in Names : RemoveOld(f)
  \/ Rename \/ WriteCatalogue \/ Done
  \/ Exception \/ Failed \/ Finally

Next == User \/ Service \/ Kill

Spec == Init /\ [][Next]_vars

(* The service's thread runs; each of its network operations ends, if not   *)
(* otherwise then by its timeout.                                           *)
FairSpec == Spec /\ WF_vars(Service)

-----------------------------------------------------------------------------
Stages == {"idle", "begun", "connect", "response", "open", "read", "close",
           "replace", "catalogue", "done", "failed", "finally"}

(* Every variable has its type.                                             *)
TypeOK ==
  /\ dialog \in {"none", "confirm", "progress"}
  /\ queue \in 0..MaxQueue
  /\ pc \in Stages
  /\ running \in BOOLEAN /\ cancelRequested \in BOOLEAN /\ registered \in BOOLEAN
  /\ notification \in {"none", "ongoing", "error", "done"}
  /\ announced \in BOOLEAN
  /\ doomed \subseteq Names
  /\ temp \in {NoFile} \cup (0..Size)
  /\ maps \in [Names -> {NoFile, Old} \cup (0..Size)]
  /\ catalogue \in {"old", "empty", "new"}
  /\ happened \subseteq {"cut", "silent", "kill"}

(* "Map downloaded" stays in the bar until the next download begins: as     *)
(* long as it is there, so is the downloaded map, whatever was cancelled,   *)
(* requested again or killed since.                                         *)
DoneMeansInstalled ==
  notification = "done" => maps[MapFile] \in Nat

(* A map that was downloaded is whole, unless a server that told no length  *)
(* broke the connection: no half of a map is installed, though files of     *)
(* broken, cancelled and killed downloads are left on the card.             *)
InstalledWhole ==
  "cut" \in happened \/ \A f \in Names : maps[f] \in {NoFile, Old, Size}

(* Between two downloads the bar does not show one that is under way, but   *)
(* for the two ways the code leaves it there: the process was killed, or    *)
(* the download failed after somebody had asked to cancel it.               *)
NoStaleProgress ==
  pc = "idle" /\ notification = "ongoing" => happened \cap {"kill", "silent"} # {}

(* Old maps are deleted only while the complete new one is on the card.     *)
OldMapsOutliveDownload ==
  [][\A f \in Names :
       maps[f] # NoFile /\ maps'[f] = NoFile =>
         temp \in Nat /\ temp' = temp /\ (temp = Size \/ "cut" \in happened)]_vars

(* The service does what MapStore promises.                                 *)
Phase ==
  IF pc \in {"begun", "connect", "response", "open", "read", "close"} THEN "fetching"
  ELSE IF pc = "replace" THEN "replacing" ELSE "idle"

Store == INSTANCE MapStore WITH
  phase <- Phase,
  arrived <- IF pc = "replace" THEN temp ELSE NoFile,
  Kept <- {Old},
  Downloads <- 0..Size

(* Whatever is cancelled, fails or is killed, the installed maps are only   *)
(* touched once a download has arrived, what is installed is what arrived,  *)
(* and every update ends.                                                   *)
StorePromise == Store!FairSpec
=============================================================================

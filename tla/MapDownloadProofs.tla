-------------------------- MODULE MapDownloadProofs -------------------------
(***************************************************************************)
(* Theorems about MapDownload, for any set of map files, any size of the    *)
(* map on the server and any number of requests that wait: type             *)
(* correctness, the safety properties, and that the service implements the  *)
(* safety part of MapStore.                                                *)
(***************************************************************************)
EXTENDS MapDownload, TLAPS

(* While it is read, and until it is renamed, the download is on the card;  *)
(* once the input has ended it is whole, unless the input was cut.          *)
OnCard ==
  /\ pc \in {"read", "close", "replace"} => temp \in 0..Size
  /\ pc \in {"close", "replace"} => temp = Size \/ "cut" \in happened

(* The map is there from the renaming on; it can only be deleted after the  *)
(* next download has changed the notification.                              *)
DoneInv ==
  /\ pc \in {"catalogue", "done"} => maps[MapFile] \in Nat
  /\ notification = "done" => pc \in {"idle", "begun", "finally"}
  /\ DoneMeansInstalled

(* The ways that lead out of a download change the notification, but two.   *)
ProgressInv ==
  notification = "ongoing" /\ pc \in {"idle", "begun", "finally"} =>
    happened \cap {"kill", "silent"} # {}

IInv == TypeOK /\ OnCard /\ DoneInv /\ ProgressInv /\ InstalledWhole

-----------------------------------------------------------------------------
(* The number of requests that wait is bounded. *)
LEMMA QueueStep ==
  ASSUME queue \in 0..MaxQueue, [Next]_vars
  PROVE  queue' \in 0..MaxQueue
<1>1. CASE Confirm
  BY <1>1, MapDownloadAssumption DEF Confirm
<1>2. CASE Begin
  BY <1>2, MapDownloadAssumption DEF Begin
<1>3. CASE Kill
  BY <1>3, MapDownloadAssumption DEF Kill
<1>4. CASE UNCHANGED queue
  BY <1>4
<1> QED
  BY <1>1, <1>2, <1>3, <1>4
     DEF Next, User, Service, vars, files, StartUpdate, Dismiss, RequestCancel,
         CancelBroadcast, Prepare, Connect, Response, Open, ReadChunk, EndOfInput,
         Close, RemoveOld, Rename, WriteCatalogue, Done, Exception, Failed, Finally

(* A download in progress has a number of chunks, and a chunk makes it one *)
(* longer.                                                                 *)
LEMMA ChunkFits ==
  ASSUME temp \in 0..Size, temp < Size
  PROVE  temp + 1 \in 0..Size
BY MapDownloadAssumption

LEMMA InitIInv == Init => IInv
<1> SUFFICES ASSUME Init
             PROVE  IInv
  OBVIOUS
<1>1. queue \in 0..MaxQueue
  BY MapDownloadAssumption DEF Init
<1>2. maps \in [Names -> {NoFile, Old} \cup (0..Size)]
  BY DEF Init
<1> QED
  BY <1>1, <1>2 DEF Init, IInv, TypeOK, OnCard, DoneInv, ProgressInv, DoneMeansInstalled,
       InstalledWhole, Stages

(* The other variables keep their types. *)
LEMMA TypeStep ==
  ASSUME TypeOK, OnCard, [Next]_vars
  PROVE  TypeOK'
<1> USE DEF TypeOK, Stages, flags, files, service
<1>1. queue' \in 0..MaxQueue
  BY QueueStep
<1>2. CASE User
  <2>1. CASE StartUpdate
    BY <1>1, <2>1 DEF StartUpdate
  <2>2. CASE Confirm
    BY <1>1, <2>2 DEF Confirm
  <2>3. CASE Dismiss
    BY <1>1, <2>3 DEF Dismiss
  <2>4. CASE RequestCancel
    BY <1>1, <2>4 DEF RequestCancel
  <2>5. CASE CancelBroadcast
    BY <1>1, <2>5 DEF CancelBroadcast
  <2> QED
    BY <1>2, <2>1, <2>2, <2>3, <2>4, <2>5 DEF User
<1>3. CASE Begin
  BY <1>1, <1>3 DEF Begin
<1>4. CASE Prepare
  BY <1>1, <1>4 DEF Prepare
<1>5. CASE Connect
  BY <1>1, <1>5 DEF Connect, Cleanup
<1>6. CASE Response
  BY <1>1, <1>6 DEF Response, NotifyError
<1>7. CASE Open
  BY <1>1, <1>7, MapDownloadAssumption DEF Open
<1>8. CASE EndOfInput
  BY <1>1, <1>8 DEF EndOfInput
<1>9. CASE Close
  BY <1>1, <1>9 DEF Close, Installed
<1>10. CASE Rename
  BY <1>1, <1>10 DEF Rename, NotifyError, OnCard
<1>11. CASE WriteCatalogue
  BY <1>1, <1>11 DEF WriteCatalogue
<1>12. CASE Done
  BY <1>1, <1>12 DEF Done
<1>13. CASE Exception
  BY <1>1, <1>13 DEF Exception
<1>14. CASE Failed
  BY <1>1, <1>14 DEF Failed, NotifyError
<1>15. CASE Finally
  BY <1>1, <1>15 DEF Finally
<1>16. CASE Kill
  BY <1>1, <1>16 DEF Kill
<1>17. CASE ReadChunk
  <2>1. temp' \in {NoFile} \cup (0..Size)
    BY <1>17, ChunkFits DEF ReadChunk, Cleanup, OnCard
  <2> QED
    BY <1>1, <1>17, <2>1 DEF ReadChunk, Cleanup
<1>18. ASSUME NEW f \in Names, RemoveOld(f)
      PROVE  TypeOK'
  BY <1>1, <1>18 DEF RemoveOld
<1>19. CASE UNCHANGED vars
  BY <1>19 DEF vars
<1> QED
  BY <1>2, <1>3, <1>4, <1>5, <1>6, <1>7, <1>8, <1>9, <1>10, <1>11, <1>12, <1>13, <1>14, <1>15, <1>16, <1>17, <1>18, <1>19 DEF Next, Service
-----------------------------------------------------------------------------
(* The download stays on the card, and is whole once its input has ended.   *)
LEMMA OnCardStep ==
  ASSUME TypeOK, TypeOK', OnCard, [Next]_vars
  PROVE  OnCard'
<1> USE DEF TypeOK, OnCard, flags, files, service
<1>1. CASE User
  BY <1>1 DEF User, StartUpdate, Confirm, Dismiss, RequestCancel, CancelBroadcast
<1>2. CASE Begin
  BY <1>2 DEF Begin
<1>3. CASE Prepare
  BY <1>3 DEF Prepare
<1>4. CASE Connect
  BY <1>4 DEF Connect, Cleanup
<1>5. CASE Response
  BY <1>5 DEF Response, NotifyError
<1>6. CASE Open
  BY <1>6, MapDownloadAssumption DEF Open
<1>7. CASE ReadChunk
  <2>1. CASE cancelRequested
    BY <1>7, <2>1 DEF ReadChunk, Cleanup
  <2>2. CASE ~cancelRequested
    <3>1. temp \in 0..Size /\ temp < Size /\ temp' = temp + 1 /\ pc' = "read"
      BY <1>7, <2>2 DEF ReadChunk
    <3> QED
      BY <3>1, ChunkFits
  <2> QED
    BY <2>1, <2>2
<1>8. CASE EndOfInput
  <2>1. temp' = temp /\ temp \in 0..Size
    BY <1>8 DEF EndOfInput
  <2>2. temp = Size \/ "cut" \in happened'
    BY <1>8 DEF EndOfInput
  <2> QED
    BY <2>1, <2>2
<1>9. CASE Close
  BY <1>9 DEF Close, Installed
<1>10. ASSUME NEW f \in Names, RemoveOld(f)
      PROVE  OnCard'
  BY <1>10 DEF RemoveOld
<1>11. CASE Rename
  BY <1>11 DEF Rename, NotifyError
<1>12. CASE WriteCatalogue
  BY <1>12 DEF WriteCatalogue
<1>13. CASE Done
  BY <1>13 DEF Done
<1>14. CASE Exception
  BY <1>14 DEF Exception
<1>15. CASE Failed
  BY <1>15 DEF Failed, NotifyError
<1>16. CASE Finally
  BY <1>16 DEF Finally
<1>17. CASE Kill
  BY <1>17 DEF Kill
<1>18. CASE UNCHANGED vars
  BY <1>18 DEF vars
<1> QED
  BY <1>1, <1>2, <1>3, <1>4, <1>5, <1>6, <1>7, <1>8, <1>9, <1>10, <1>11, <1>12, <1>13, <1>14, <1>15, <1>16, <1>17, <1>18 DEF Next, Service

(* The map is there while the bar says that it was downloaded.              *)
LEMMA DoneStep ==
  ASSUME TypeOK, OnCard, DoneInv, [Next]_vars
  PROVE  DoneInv'
<1> USE DEF TypeOK, OnCard, DoneInv, DoneMeansInstalled, flags, files, service
<1>1. CASE User
  BY <1>1 DEF User, StartUpdate, Confirm, Dismiss, RequestCancel, CancelBroadcast
<1>2. CASE Begin
  BY <1>2 DEF Begin
<1>3. CASE Prepare
  BY <1>3 DEF Prepare
<1>4. CASE Connect
  BY <1>4 DEF Connect, Cleanup
<1>5. CASE Response
  BY <1>5 DEF Response, NotifyError
<1>6. CASE Open
  BY <1>6 DEF Open
<1>7. CASE ReadChunk
  BY <1>7 DEF ReadChunk, Cleanup
<1>8. CASE EndOfInput
  BY <1>8 DEF EndOfInput
<1>9. CASE Close
  BY <1>9 DEF Close, Installed
<1>10. ASSUME NEW f \in Names, RemoveOld(f)
      PROVE  DoneInv'
  BY <1>10 DEF RemoveOld
<1>11. CASE Rename
  <2>1. temp \in Nat
    BY <1>11, MapDownloadAssumption DEF Rename
  <2>2. CASE maps' = [maps EXCEPT ![MapFile] = temp] /\ pc' = "catalogue" /\ notification' = notification
    BY <1>11, <2>1, <2>2, MapDownloadAssumption DEF Rename
  <2>3. CASE NotifyError /\ pc' = "finally" /\ UNCHANGED <<maps, temp>>
    BY <2>3 DEF NotifyError
  <2> QED
    BY <1>11, <2>2, <2>3 DEF Rename
<1>12. CASE WriteCatalogue
  BY <1>12 DEF WriteCatalogue
<1>13. CASE Done
  BY <1>13 DEF Done
<1>14. CASE Exception
  BY <1>14 DEF Exception
<1>15. CASE Failed
  BY <1>15 DEF Failed, NotifyError
<1>16. CASE Finally
  BY <1>16 DEF Finally
<1>17. CASE Kill
  BY <1>17 DEF Kill
<1>18. CASE UNCHANGED vars
  BY <1>18 DEF vars
<1> QED
  BY <1>1, <1>2, <1>3, <1>4, <1>5, <1>6, <1>7, <1>8, <1>9, <1>10, <1>11, <1>12, <1>13, <1>14, <1>15, <1>16, <1>17, <1>18 DEF Next, Service

(* A download that ends changes the notification.                           *)
LEMMA ProgressStep ==
  ASSUME TypeOK, ProgressInv, [Next]_vars
  PROVE  ProgressInv'
<1> USE DEF TypeOK, ProgressInv, flags, files, service
<1>1. CASE User
  BY <1>1 DEF User, StartUpdate, Confirm, Dismiss, RequestCancel, CancelBroadcast
<1>2. CASE Begin
  BY <1>2 DEF Begin
<1>3. CASE Prepare
  BY <1>3 DEF Prepare
<1>4. CASE Connect
  BY <1>4 DEF Connect, Cleanup
<1>5. CASE Response
  BY <1>5 DEF Response, NotifyError
<1>6. CASE Open
  BY <1>6 DEF Open
<1>7. CASE ReadChunk
  BY <1>7 DEF ReadChunk, Cleanup
<1>8. CASE EndOfInput
  BY <1>8 DEF EndOfInput
<1>9. CASE Close
  BY <1>9 DEF Close, Installed
<1>10. ASSUME NEW f \in Names, RemoveOld(f)
      PROVE  ProgressInv'
  BY <1>10 DEF RemoveOld
<1>11. CASE Rename
  BY <1>11 DEF Rename, NotifyError
<1>12. CASE WriteCatalogue
  BY <1>12 DEF WriteCatalogue
<1>13. CASE Done
  BY <1>13 DEF Done
<1>14. CASE Exception
  BY <1>14 DEF Exception
<1>15. CASE Failed
  BY <1>15 DEF Failed, NotifyError
<1>16. CASE Finally
  BY <1>16 DEF Finally
<1>17. CASE Kill
  BY <1>17 DEF Kill
<1>18. CASE UNCHANGED vars
  BY <1>18 DEF vars
<1> QED
  BY <1>1, <1>2, <1>3, <1>4, <1>5, <1>6, <1>7, <1>8, <1>9, <1>10, <1>11, <1>12, <1>13, <1>14, <1>15, <1>16, <1>17, <1>18 DEF Next, Service

(* Only a whole map is renamed to be installed.                             *)
LEMMA WholeStep ==
  ASSUME TypeOK, OnCard, InstalledWhole, [Next]_vars
  PROVE  InstalledWhole'
<1> USE DEF TypeOK, OnCard, InstalledWhole, flags, files, service
<1>1. CASE User
  BY <1>1 DEF User, StartUpdate, Confirm, Dismiss, RequestCancel, CancelBroadcast
<1>2. CASE Begin
  BY <1>2 DEF Begin
<1>3. CASE Prepare
  BY <1>3 DEF Prepare
<1>4. CASE Connect
  BY <1>4 DEF Connect, Cleanup
<1>5. CASE Response
  BY <1>5 DEF Response, NotifyError
<1>6. CASE Open
  BY <1>6 DEF Open
<1>7. CASE ReadChunk
  BY <1>7 DEF ReadChunk, Cleanup
<1>8. CASE EndOfInput
  BY <1>8 DEF EndOfInput
<1>9. CASE Close
  BY <1>9 DEF Close, Installed
<1>10. ASSUME NEW f \in Names, RemoveOld(f)
      PROVE  InstalledWhole'
  BY <1>10 DEF RemoveOld
<1>11. CASE Rename
  BY <1>11 DEF Rename, NotifyError
<1>12. CASE WriteCatalogue
  BY <1>12 DEF WriteCatalogue
<1>13. CASE Done
  BY <1>13 DEF Done
<1>14. CASE Exception
  BY <1>14 DEF Exception
<1>15. CASE Failed
  BY <1>15 DEF Failed, NotifyError
<1>16. CASE Finally
  BY <1>16 DEF Finally
<1>17. CASE Kill
  BY <1>17 DEF Kill
<1>18. CASE UNCHANGED vars
  BY <1>18 DEF vars
<1> QED
  BY <1>1, <1>2, <1>3, <1>4, <1>5, <1>6, <1>7, <1>8, <1>9, <1>10, <1>11, <1>12, <1>13, <1>14, <1>15, <1>16, <1>17, <1>18 DEF Next, Service

LEMMA Invariance == Spec => []IInv
<1>1. IInv /\ [Next]_vars => IInv'
  BY TypeStep, OnCardStep, DoneStep, ProgressStep, WholeStep DEF IInv
<1> QED
  BY InitIInv, <1>1, PTL DEF Spec

-----------------------------------------------------------------------------
(* Every variable keeps its type.                                           *)
THEOREM TypeCorrect == Spec => []TypeOK
BY Invariance, PTL DEF IInv

(* While the bar says that the map was downloaded, it is installed.         *)
THEOREM DoneAlwaysInstalled == Spec => []DoneMeansInstalled
BY Invariance, PTL DEF IInv, DoneInv

(* What is installed is whole, if no server that told no length broke the   *)
(* connection.                                                              *)
THEOREM InstalledAlwaysWhole == Spec => []InstalledWhole
BY Invariance, PTL DEF IInv

(* No download is shown to be under way that has ended, but for a kill and  *)
(* for a failure after a cancel.                                            *)
THEOREM ProgressNeverStale == Spec => []NoStaleProgress
<1>1. IInv => NoStaleProgress
  BY DEF IInv, ProgressInv, NoStaleProgress
<1> QED
  BY Invariance, <1>1, PTL

-----------------------------------------------------------------------------
(* An action property: what removes a map is the replacement by a whole     *)
(* download, which stays on the card.                                       *)
LEMMA OutliveStep ==
  ASSUME TypeOK, OnCard, [Next]_vars,
         NEW f \in Names, maps[f] # NoFile, maps'[f] = NoFile
  PROVE  temp \in Nat /\ temp' = temp /\ (temp = Size \/ "cut" \in happened)
<1>1. CASE \E g \in Names : RemoveOld(g)
  BY <1>1, MapDownloadAssumption DEF RemoveOld, OnCard
<1>2. CASE Rename
  <2>1. temp \in 0..Size /\ temp # NoFile
    BY <1>2, MapDownloadAssumption DEF Rename, OnCard
  <2>2. maps' = [maps EXCEPT ![MapFile] = temp] \/ maps' = maps
    BY <1>2 DEF Rename
  <2> QED
    BY <2>1, <2>2 DEF TypeOK
<1>3. CASE UNCHANGED maps
  BY <1>3
<1> QED
  BY <1>1, <1>2, <1>3
     DEF Next, User, Service, vars, files, StartUpdate, Confirm, Dismiss, RequestCancel, CancelBroadcast,
         Begin, Prepare, Connect, Response, Open, ReadChunk, EndOfInput, Close,
         WriteCatalogue, Done, Exception, Failed, Finally, Kill

(* Old maps are deleted only while the complete new one is on the card.     *)
THEOREM OldMapsAlwaysOutlive == Spec => OldMapsOutliveDownload
<1>1. IInv /\ [Next]_vars =>
        [\A f \in Names :
           maps[f] # NoFile /\ maps'[f] = NoFile =>
             temp \in Nat /\ temp' = temp /\ (temp = Size \/ "cut" \in happened)]_vars
  BY OutliveStep DEF IInv
<1> QED
  BY Invariance, <1>1, PTL DEF Spec, OldMapsOutliveDownload

-----------------------------------------------------------------------------
(* Each step of the service is a step of MapStore, or none.                 *)
LEMMA StoreStep ==
  ASSUME TypeOK, OnCard, [Next]_vars
  PROVE  [Store!Next]_(Store!vars)
<1> USE DEF Store!vars, Store!Next, Store!Finish, Phase, flags, files, service
<1>1. CASE User
  BY <1>1 DEF User, StartUpdate, Confirm, Dismiss, RequestCancel, CancelBroadcast
<1>2. CASE Begin
  BY <1>2 DEF Begin, Store!Begin
<1>3. CASE Prepare
  BY <1>3 DEF Prepare
<1>4. CASE Connect
  BY <1>4 DEF Connect, Cleanup, Store!GiveUp
<1>5. CASE Response
  BY <1>5 DEF Response, NotifyError, Store!GiveUp
<1>6. CASE Open
  BY <1>6 DEF Open
<1>7. CASE ReadChunk
  BY <1>7 DEF ReadChunk, Cleanup, Store!GiveUp
<1>8. CASE EndOfInput
  BY <1>8 DEF EndOfInput
<1>9. CASE Close
  BY <1>9 DEF Close, OnCard, Store!Arrive
<1>10. ASSUME NEW f \in Names, RemoveOld(f)
      PROVE  [Store!Next]_(Store!vars)
  BY <1>10 DEF RemoveOld, Store!Remove
<1>11. CASE Rename
  BY <1>11 DEF Rename, NotifyError, Store!Install, Store!Lose
<1>12. CASE WriteCatalogue
  BY <1>12 DEF WriteCatalogue
<1>13. CASE Done
  BY <1>13 DEF Done
<1>14. CASE Exception
  BY <1>14 DEF Exception, Store!GiveUp
<1>15. CASE Failed
  BY <1>15 DEF Failed, NotifyError
<1>16. CASE Finally
  BY <1>16 DEF Finally
<1>17. CASE Kill
  BY <1>17 DEF Kill, TypeOK, Stages, Store!GiveUp, Store!Lose
<1>18. CASE UNCHANGED vars
  BY <1>18 DEF vars
<1> QED
  BY <1>1, <1>2, <1>3, <1>4, <1>5, <1>6, <1>7, <1>8, <1>9, <1>10, <1>11, <1>12, <1>13, <1>14, <1>15, <1>16, <1>17, <1>18 DEF Next, Service

(* The service implements the safety part of MapStore, whatever fails, is   *)
(* cancelled or is killed; that every update ends is left to the runs.      *)
THEOREM ServiceImplementsStore == Spec => Store!Spec
<1>1. Init => Store!Init
  BY DEF Init, Store!Init, Phase
<1>2. IInv /\ [Next]_vars => [Store!Next]_(Store!vars)
  BY StoreStep DEF IInv
<1> QED
  BY Invariance, <1>1, <1>2, PTL DEF Spec, Store!Spec
=============================================================================

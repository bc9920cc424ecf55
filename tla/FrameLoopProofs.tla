-------------------------- MODULE FrameLoopProofs --------------------------
(***************************************************************************)
(* What FrameLoop guarantees for every set of sources and frames, every    *)
(* menuconfig choice and every number of changes and faults.               *)
(***************************************************************************)
EXTENDS FrameLoop, TLAPS

(***************************************************************************)
(* The inductive invariant: how far the round has come determines what the *)
(* partition, the panel controllers and the panel hold.                    *)
(***************************************************************************)
Fresh(f) == f \in offered /\ f \in Frame \ Misfit

ServerListsContent == pick # NoSrc => frame[pick] # NoFrame

ManifestTracksSource ==
  manifest # NoId => frame[manifest[1]] \in offered \cup {NoFrame}

RoundHasManifest ==
  pc \in {"compare", "erase", "download", "load", "record", "save"}
    => manifest # NoId

StorageReady ==
  pc \in {"load", "record", "save"} => Fresh(flash) /\ whole

CanvasReady ==
  pc \in {"refreshing", "poweroff"} =>
    \/ canvas = Demo /\ ~shownAny
    \/ Fresh(flash) /\ whole /\ canvas = flash /\ manifest # NoId

PanelFollows ==
  /\ pc = "refreshing" => screen = Flux
  /\ pc = "poweroff" => screen = canvas
  /\ pc \in {"record", "save"} => screen = flash
  /\ pc = "save" => ramId = manifest

DemoOnlyUnshown ==
  /\ pc = "demo" => ~shownAny
  /\ ~shownAny => nvsId = NoId

IInv ==
  /\ TypeOK
  /\ ServerListsContent
  /\ ManifestTracksSource
  /\ RoundHasManifest
  /\ StorageReady
  /\ CanvasReady
  /\ PanelFollows
  /\ DemoOnlyUnshown
  /\ OnlyIntactFrames

-----------------------------------------------------------------------------
(***************************************************************************)
(* A device out of the box satisfies the invariant.                        *)
(***************************************************************************)
LEMMA InitIInv == Init => IInv
  <1> SUFFICES ASSUME Init PROVE IInv
    OBVIOUS
  <1> USE ConstantsAssumption DEF Init
  <1>1. TypeOK
    <2>1. /\ frame \in [Src -> Frame \cup {NoFrame}] /\ pick \in Src \cup {NoSrc}
          /\ build \in Builds
      OBVIOUS
    <2>2. screen \in Panel /\ canvas \in Panel
      BY DEF Panel
    <2>3. pc \in Steps
      BY DEF Steps
    <2>4. changes \in 0 .. MaxChanges /\ faults \in 0 .. MaxFaults
      OBVIOUS
    <2>5. QED
      BY <2>1, <2>2, <2>3, <2>4 DEF TypeOK
  <1>2. ServerListsContent
    BY DEF ServerListsContent
  <1>3. OnlyIntactFrames
    BY DEF OnlyIntactFrames
  <1>4. /\ ManifestTracksSource /\ RoundHasManifest /\ StorageReady
        /\ CanvasReady /\ PanelFollows /\ DemoOnlyUnshown
    BY DEF ManifestTracksSource, RoundHasManifest, StorageReady, CanvasReady,
           PanelFollows, DemoOnlyUnshown
  <1>5. QED
    BY <1>1, <1>2, <1>3, <1>4 DEF IInv

(***************************************************************************)
(* What the assumptions say of the sets the types are built from.          *)
(***************************************************************************)
LEMMA SetFacts ==
  /\ MaxChanges \in Nat /\ MaxFaults \in Nat
  /\ Frame \subseteq Panel /\ {Blank, Demo, Torn, Flux} \subseteq Panel
  /\ Gen \subseteq Src
  /\ \A s \in Src, f \in Frame : <<s, f>> \in Id
  /\ \A id \in Id : id[1] \in Src
  BY ConstantsAssumption DEF Src, Id, Panel

(***************************************************************************)
(* Types are preserved by every action.                                    *)
(***************************************************************************)
LEMMA NextTypeOK ==
  TypeOK /\ ServerListsContent /\ RoundHasManifest /\ StorageReady /\ [Next]_vars
    => TypeOK'
  <1> SUFFICES ASSUME TypeOK, ServerListsContent, RoundHasManifest, StorageReady,
                      [Next]_vars
               PROVE  TypeOK'
    OBVIOUS
  <1> USE SetFacts DEF TypeOK, Steps, At, Goto, server, stored, memory, device
  <1>1. ASSUME NEW s \in Src, NEW f \in Frame, Render(s, f) PROVE TypeOK'
    BY <1>1 DEF Render, Change, Listed
  <1>2. ASSUME NEW s \in Src, Pick(s) PROVE TypeOK'
    BY <1>2 DEF Pick, Change
  <1>3. ASSUME NEW s \in Src, Withdraw(s) PROVE TypeOK'
    BY <1>3 DEF Withdraw, Change
  <1>4. ASSUME Join PROVE TypeOK'
    BY <1>4 DEF Join
  <1>5. ASSUME JoinTimeout PROVE TypeOK'
    BY <1>5 DEF JoinTimeout, Fault
  <1>6. ASSUME LoadDemo PROVE TypeOK'
    BY <1>6 DEF LoadDemo
  <1>7. ASSUME Report PROVE TypeOK'
    BY <1>7 DEF Report
  <1>8. ASSUME ReportRestarts PROVE TypeOK'
    BY <1>8 DEF ReportRestarts, Fault, Boot
  <1>9. ASSUME ListContent PROVE TypeOK'
    BY <1>9 DEF ListContent, ServerListsContent
  <1>10. ASSUME Compare PROVE TypeOK'
    BY <1>10 DEF Compare
  <1>11. ASSUME Erase PROVE TypeOK'
    BY <1>11 DEF Erase
  <1>12. ASSUME Download PROVE TypeOK'
    BY <1>12 DEF Download, HeaderFits, RoundHasManifest
  <1>13. ASSUME DownloadFails PROVE TypeOK'
    <2>1. manifest[1] \in Src
      BY <1>13 DEF DownloadFails, RoundHasManifest
    <2>2. flash' \in Frame \cup {NoFrame}
      BY <1>13, <2>1 DEF DownloadFails
    <2>3. faults' \in 0 .. MaxFaults
      BY <1>13 DEF DownloadFails, Fault
    <2>4. QED
      BY <1>13, <2>2, <2>3 DEF DownloadFails
  <1>14. ASSUME Load PROVE TypeOK'
    BY <1>14 DEF Load, StorageReady, Fresh
  <1>15. ASSUME Refreshed PROVE TypeOK'
    BY <1>15 DEF Refreshed
  <1>16. ASSUME RefreshTimeout PROVE TypeOK'
    BY <1>16 DEF RefreshTimeout, Fault
  <1>17. ASSUME PoweredOff PROVE TypeOK'
    BY <1>17 DEF PoweredOff
  <1>18. ASSUME Record PROVE TypeOK'
    BY <1>18 DEF Record, RoundHasManifest
  <1>19. ASSUME Save PROVE TypeOK'
    BY <1>19 DEF Save
  <1>20. ASSUME SaveFails PROVE TypeOK'
    BY <1>20 DEF SaveFails, Fault
  <1>21. ASSUME StepFails PROVE TypeOK'
    BY <1>21 DEF StepFails, Fault
  <1>22. ASSUME PowerLoss PROVE TypeOK'
    BY <1>22 DEF PowerLoss, Fault, Boot
  <1>23. ASSUME NEW b \in BOOLEAN, Wake(b) PROVE TypeOK'
    BY <1>23 DEF Wake, Boot
  <1>24. CASE UNCHANGED vars
    BY <1>24 DEF vars
  <1>25. QED
    BY <1>1, <1>2, <1>3, <1>4, <1>5, <1>6, <1>7, <1>8, <1>9, <1>10, <1>11,
       <1>12, <1>13, <1>14, <1>15, <1>16, <1>17, <1>18, <1>19, <1>20, <1>21,
       <1>22, <1>23, <1>24
    DEF Next, ServerStep, Progress, Failure, TimerWake, ButtonWake

(***************************************************************************)
(* The values that stand for "none" and for special panel contents are     *)
(* none of the others.                                                     *)
(***************************************************************************)
LEMMA Distinct ==
  /\ NoId \notin Id /\ NoFrame \notin Frame /\ NoSrc \notin Src
  /\ \A s \in Src, f \in Frame : <<s, f>> # NoId
  /\ {Blank, Demo, Torn, Flux} \cap Frame = {}
  /\ Blank # Demo /\ Blank # Torn /\ Blank # Flux
  /\ Demo # Torn /\ Demo # Flux /\ Torn # Flux
  /\ Misfit \subseteq Frame
  BY ConstantsAssumption DEF Id

(***************************************************************************)
(* Every step keeps the invariant.  An action that moves the task on       *)
(* establishes what its next place needs; a failure leads to a place that  *)
(* needs nothing; a change on the server only adds to offered.             *)
(***************************************************************************)
LEMMA NextIInv == IInv /\ [Next]_vars => IInv'
  <1> SUFFICES ASSUME IInv, [Next]_vars PROVE IInv'
    OBVIOUS
  <1>0. TypeOK /\ TypeOK'
    BY NextTypeOK DEF IInv
  <1> DEFINE Rest == /\ ServerListsContent /\ ManifestTracksSource
                     /\ RoundHasManifest /\ StorageReady /\ CanvasReady
                     /\ PanelFollows /\ DemoOnlyUnshown /\ OnlyIntactFrames
  <1> SUFFICES Rest'
    BY <1>0 DEF IInv
  <1>a. Rest
    BY DEF IInv
  <1> USE SetFacts, Distinct, <1>0, <1>a
          DEF At, Goto, server, stored, memory, device,
              Fresh, ServerListsContent, ManifestTracksSource, RoundHasManifest, StorageReady,
              CanvasReady, PanelFollows, DemoOnlyUnshown, OnlyIntactFrames
  <1>1. ASSUME NEW s \in Src, NEW f \in Frame, Render(s, f) PROVE Rest'
    BY <1>1 DEF TypeOK, Render, Change, Listed
  <1>2. ASSUME NEW s \in Src, Pick(s) PROVE Rest'
    BY <1>2 DEF TypeOK, Pick, Change
  <1>3. ASSUME NEW s \in Src, Withdraw(s) PROVE Rest'
    BY <1>3 DEF TypeOK, Withdraw, Change
  <1>4. ASSUME Join PROVE Rest'
    BY <1>4 DEF TypeOK, Join
  <1>5. ASSUME JoinTimeout PROVE Rest'
    BY <1>5 DEF TypeOK, JoinTimeout, Fault
  <1>6. ASSUME LoadDemo PROVE Rest'
    BY <1>6 DEF TypeOK, LoadDemo
  <1>7. ASSUME Report PROVE Rest'
    BY <1>7 DEF TypeOK, Report
  <1>8. ASSUME ReportRestarts PROVE Rest'
    BY <1>8 DEF TypeOK, ReportRestarts, Fault, Boot
  <1>9. ASSUME ListContent PROVE Rest'
    BY <1>9 DEF TypeOK, ListContent
  <1>10. ASSUME Compare PROVE Rest'
    BY <1>10 DEF TypeOK, Compare, Unchanged
  <1>11. ASSUME Erase PROVE Rest'
    BY <1>11 DEF TypeOK, Erase
  <1>12. ASSUME Download PROVE Rest'
    BY <1>12 DEF TypeOK, Download, HeaderFits
  <1>13. ASSUME DownloadFails PROVE Rest'
    BY <1>13 DEF TypeOK, DownloadFails, Fault, HeaderFits
  <1>14. ASSUME Load PROVE Rest'
    BY <1>14 DEF TypeOK, Load
  <1>15. ASSUME Refreshed PROVE Rest'
    BY <1>15 DEF TypeOK, Refreshed
  <1>16. ASSUME RefreshTimeout PROVE Rest'
    BY <1>16 DEF TypeOK, RefreshTimeout, Fault
  <1>17. ASSUME PoweredOff PROVE Rest'
    BY <1>17 DEF TypeOK, PoweredOff
  <1>18. ASSUME Record PROVE Rest'
    BY <1>18 DEF TypeOK, Record
  <1>19. ASSUME Save PROVE Rest'
    BY <1>19 DEF TypeOK, Save
  <1>20. ASSUME SaveFails PROVE Rest'
    BY <1>20 DEF TypeOK, SaveFails, Fault
  <1>21. ASSUME StepFails PROVE Rest'
    BY <1>21 DEF TypeOK, StepFails, Fault
  <1>22. ASSUME PowerLoss PROVE Rest'
    BY <1>22 DEF TypeOK, PowerLoss, Fault, Boot
  <1>23. ASSUME NEW b \in BOOLEAN, Wake(b) PROVE Rest'
    BY <1>23 DEF TypeOK, Wake, Boot
  <1>24. CASE UNCHANGED vars
    BY <1>24 DEF vars
  <1>25. QED
    BY <1>1, <1>2, <1>3, <1>4, <1>5, <1>6, <1>7, <1>8, <1>9, <1>10, <1>11,
       <1>12, <1>13, <1>14, <1>15, <1>16, <1>17, <1>18, <1>19, <1>20, <1>21,
       <1>22, <1>23, <1>24
    DEF Next, ServerStep, Progress, Failure, TimerWake, ButtonWake

(***************************************************************************)
(* Hence it holds in every state of every behaviour.                       *)
(***************************************************************************)
LEMMA Safety == Spec => []IInv
  <1>1. Init => IInv
    BY InitIInv
  <1>2. IInv /\ [Next]_vars => IInv'
    BY NextIInv
  <1>3. QED
    BY <1>1, <1>2, PTL DEF Spec

-----------------------------------------------------------------------------
(* Every variable keeps its type for any number of sources, changes and    *)
(* faults; in particular every id in RAM or NVS is a source's.             *)
THEOREM TypeCorrect == Spec => []TypeOK
  BY Safety, PTL DEF IInv

(* content_download_image keeps torn and foreign frames off the panel,     *)
(* however requests, flash, panel and power fail.                          *)
THEOREM IntactFrames == Spec => []OnlyIntactFrames
  BY Safety, PTL DEF IInv

(* The id goes into NVS only with its frame whole in flash and on the      *)
(* panel.                                                                  *)
THEOREM RecordsFollowRefreshes == Spec => RecordAfterRefresh
  <1>1. IInv /\ [Next]_vars =>
          [nvsId' # nvsId => /\ screen \in offered
                             /\ screen = flash /\ whole
                             /\ nvsId' = manifest]_vars
    <2> SUFFICES ASSUME IInv, Next, nvsId' # nvsId
                 PROVE  /\ screen \in offered
                        /\ screen = flash /\ whole
                        /\ nvsId' = manifest
      BY DEF vars
    <2>1. Save
      BY DEF Next, ServerStep, Progress, Failure, Render, Pick, Withdraw, Join,
             JoinTimeout, LoadDemo, Report, ReportRestarts, ListContent,
             Compare, Erase, Download, DownloadFails, Load, Refreshed,
             RefreshTimeout, PoweredOff, Record, SaveFails, StepFails,
             PowerLoss, TimerWake, ButtonWake, Wake, stored, device
    <2>2. QED
      BY <2>1 DEF Save, At, IInv, StorageReady, PanelFollows, Fresh
  <1>2. QED
    BY <1>1, Safety, PTL DEF Spec, RecordAfterRefresh

-----------------------------------------------------------------------------
(***************************************************************************)
(* Every step of the device and the server is a step of FrameView or       *)
(* leaves its variables alone.                                             *)
(***************************************************************************)
LEMMA StepImplementsView == IInv /\ [Next]_vars => [View!Next]_(View!viewVars)
  <1> SUFFICES ASSUME IInv, Next PROVE [View!Next]_(View!viewVars)
    BY DEF vars, View!viewVars
  <1>0. /\ TypeOK /\ ServerListsContent /\ StorageReady /\ CanvasReady
        /\ PanelFollows /\ DemoOnlyUnshown
    BY DEF IInv
  <1> USE Distinct DEF View!viewVars, View!Next, At, server, stored, memory
  <1>1. ASSUME NEW s \in Src, NEW f \in Frame, Render(s, f)
        PROVE  [View!Next]_(View!viewVars)
    <2>1. CASE Listed(s)
      BY <1>1, <2>1 DEF Render, device, View!Offer
    <2>2. CASE ~Listed(s)
      BY <1>1, <2>2 DEF Render, device
    <2>3. QED
      BY <2>1, <2>2
  <1>2. ASSUME ListContent PROVE [View!Next]_(View!viewVars)
    <2>1. CASE pick = NoSrc
      BY <1>2, <2>1 DEF ListContent
    <2>2. CASE pick # NoSrc
      <3>1. frame[pick] \in Frame
        BY <1>0, <2>2 DEF TypeOK, ServerListsContent
      <3>2. View!BeginUpdate(frame[pick])
        BY <1>2, <2>2 DEF ListContent, View!BeginUpdate
      <3>3. QED
        BY <3>1, <3>2
    <2>3. QED
      BY <2>1, <2>2
  <1>3. ASSUME LoadDemo \/ Load PROVE [View!Next]_(View!viewVars)
    BY <1>3 DEF LoadDemo, Load, View!StartRefresh
  <1>4. ASSUME Refreshed \/ RefreshTimeout PROVE [View!Next]_(View!viewVars)
    <2>1. screen = Flux /\ nvsId' = nvsId /\ offered' = offered
      BY <1>0, <1>4 DEF Refreshed, RefreshTimeout, PanelFollows
    <2>2. CASE screen' = Flux
      BY <2>1, <2>2
    <2>3. CASE screen' = canvas /\ canvas = Demo /\ ~shownAny
      BY <1>0, <2>1, <2>3 DEF DemoOnlyUnshown, View!ShowDemo
    <2>4. CASE screen' = canvas /\ Fresh(canvas)
      BY <2>1, <2>4 DEF Fresh, View!ShowPicture
    <2>5. QED
      BY <1>0, <1>4, <2>2, <2>3, <2>4 DEF Refreshed, RefreshTimeout, CanvasReady
  <1>5. ASSUME Save PROVE [View!Next]_(View!viewVars)
    <2>1. screen \in offered \cap (Frame \ Misfit) /\ ramId # NoId
      BY <1>0, <1>5 DEF Save, StorageReady, PanelFollows, Fresh, IInv,
         RoundHasManifest
    <2>2. View!Settle
      BY <1>5, <2>1 DEF Save, View!Settle
    <2>3. QED
      BY <2>2
  <1>6. ASSUME \/ \E s \in Src : Pick(s) \/ Withdraw(s)
               \/ Join \/ JoinTimeout \/ Report \/ ReportRestarts \/ Compare
               \/ Erase \/ Download \/ DownloadFails \/ PoweredOff \/ Record
               \/ SaveFails \/ StepFails \/ PowerLoss \/ TimerWake \/ ButtonWake
        PROVE  UNCHANGED View!viewVars
    BY <1>6 DEF Pick, Withdraw, Join, JoinTimeout, Report, ReportRestarts, Compare,
       Erase, Download, DownloadFails, PoweredOff, Record, SaveFails, StepFails,
       PowerLoss, TimerWake, ButtonWake, Wake, device
  <1>7. QED
    BY <1>1, <1>2, <1>3, <1>4, <1>5, <1>6, SetFacts
    DEF Next, ServerStep, Progress, Failure

(* What the person in front of the frame sees is what FrameView allows:    *)
(* intact pictures on offer, and the test pattern only before the first    *)
(* recorded one.                                                           *)
THEOREM RefinesView == Spec => ImplementsView
  <1>1. Init => View!Init
    BY DEF Init, View!Init
  <1>2. IInv /\ [Next]_vars => [View!Next]_(View!viewVars)
    BY StepImplementsView
  <1>3. QED
    BY <1>1, <1>2, Safety, PTL DEF Spec, ImplementsView, View!Spec
=============================================================================

----------------------------- MODULE FrameLoop -----------------------------
(***************************************************************************)
(* The device's display task (firmware/main/display.c) polling the content *)
(* server.  A round joins the WiFi, reports, asks /api/images/content for  *)
(* the id of the current content, compares it with the id it recorded last *)
(* and, when they differ or the round is forced, erases the storage        *)
(* partition, downloads /api/images/{id}/raw into it, refreshes the panel  *)
(* and records the id in RAM and in NVS.                                   *)
(*                                                                         *)
(* The id of a generated source is the fingerprint of the frame it had     *)
(* when the list was built; /raw always answers with the frame the source  *)
(* has now (docs/adr/0002).  The two requests of a round can therefore see *)
(* different frames.                                                       *)
(***************************************************************************)
EXTENDS Naturals

CONSTANTS
  Gen,         \* sources whose content changes under a fixed address
  Lib,         \* library pictures: the id is a key and its frame is fixed
  Frame,       \* rendered FPS6 frames
  Misfit,      \* frames whose header is not the panel's magic and size
  NoFrame, NoSrc, NoId,
  Blank, Demo, Torn, Flux,   \* panel contents that are no frame
  Builds,      \* menuconfig choices: [sleeps, button : BOOLEAN]
  MaxChanges,  \* bound: changes of the server's content
  MaxFaults    \* bound: failed requests, flash or panel errors, power losses

Src == Gen \cup Lib
Id == Src \X Frame
Panel == Frame \cup {Blank, Demo, Torn, Flux}

ASSUME ConstantsAssumption ==
  /\ Gen \cap Lib = {}
  /\ Misfit \subseteq Frame
  /\ NoFrame \notin Frame
  /\ NoSrc \notin Src
  /\ NoId \notin Id
  /\ {Blank, Demo, Torn, Flux} \cap Frame = {}
  /\ Blank # Demo /\ Blank # Torn /\ Blank # Flux
  /\ Demo # Torn /\ Demo # Flux /\ Torn # Flux
  /\ Builds \subseteq [sleeps : BOOLEAN, button : BOOLEAN]
  /\ MaxChanges \in Nat
  /\ MaxFaults \in Nat

VARIABLES
  (* the server *)
  frame,      \* frame[s]: the frame source s would answer with now
  pick,       \* the source /api/images/content lists now
  (* the device: what survives a restart *)
  build,      \* this firmware's menuconfig choices
  nvsId,      \* "last_id" in NVS
  flash,      \* the frame whose bytes are in the storage partition ...
  whole,      \* ... and whether all of them are
  screen,     \* what the panel shows
  (* the device: what a restart loses *)
  pc,         \* where the display task is
  force,      \* this round refreshes even unchanged content
  ramId,      \* s_last_id
  shownAny,   \* s_shown_any
  manifest,   \* the id of this round's content list
  canvas,     \* what the panel controllers were loaded with
  (* bounds and history *)
  changes, faults,
  offered     \* frames the listed source had since the list was fetched

server == <<frame, pick>>
stored == <<build, nvsId, flash, whole>>
memory == <<force, ramId, shownAny, manifest>>
vars == <<frame, pick, build, nvsId, flash, whole, screen, pc, force, ramId,
          shownAny, manifest, canvas, changes, faults, offered>>

Steps == {"join", "report", "list", "compare", "erase", "download", "load",
          "refreshing", "poweroff", "record", "save", "demo", "rest"}

TypeOK ==
  /\ frame \in [Src -> Frame \cup {NoFrame}]
  /\ pick \in Src \cup {NoSrc}
  /\ build \in Builds
  /\ nvsId \in Id \cup {NoId}
  /\ flash \in Frame \cup {NoFrame}
  /\ whole \in BOOLEAN
  /\ screen \in Panel
  /\ pc \in Steps
  /\ force \in BOOLEAN
  /\ ramId \in Id \cup {NoId}
  /\ shownAny \in BOOLEAN
  /\ manifest \in Id \cup {NoId}
  /\ canvas \in Panel
  /\ changes \in 0 .. MaxChanges
  /\ faults \in 0 .. MaxFaults
  /\ offered \subseteq Frame

(***************************************************************************)
(* A device out of the box, powered on for the first time; the server may  *)
(* already have content.                                                   *)
(***************************************************************************)
Init ==
  /\ frame \in [Src -> Frame \cup {NoFrame}]
  /\ \A s \in Lib : frame[s] # NoFrame
  /\ pick \in {s \in Src : frame[s] # NoFrame} \cup {NoSrc}
  /\ build \in Builds
  /\ nvsId = NoId
  /\ flash = NoFrame
  /\ whole = FALSE
  /\ screen = Blank
  /\ pc = "join"
  /\ force = TRUE
  /\ ramId = NoId
  /\ shownAny = FALSE
  /\ manifest = NoId
  /\ canvas = Blank
  /\ changes = 0
  /\ faults = 0
  /\ offered = {}

-----------------------------------------------------------------------------
(* The server.  What decides which source is listed is not this module's   *)
(* subject: any change of it is allowed.                                   *)

device == <<stored, screen, pc, memory, canvas>>

Change == changes < MaxChanges /\ changes' = changes + 1

Listed(s) == manifest # NoId /\ manifest[1] = s

(* A source renders a new frame: a new upload, a new day, a new card.      *)
Render(s, f) ==
  /\ Change
  /\ s \in Gen
  /\ frame[s] # f
  /\ frame' = [frame EXCEPT ![s] = f]
  /\ offered' = IF Listed(s) THEN offered \cup {f} ELSE offered
  /\ UNCHANGED <<pick, device, faults>>

(* Another source is listed: a slot begins, a picture is pushed or pinned. *)
Pick(s) ==
  /\ Change
  /\ pick # s
  /\ frame[s] # NoFrame
  /\ pick' = s
  /\ UNCHANGED <<frame, offered, device, faults>>

(* A source has no content any more: display cleared, picture deleted.     *)
Withdraw(s) ==
  /\ Change
  /\ frame[s] # NoFrame
  /\ frame' = [frame EXCEPT ![s] = NoFrame]
  /\ pick' \in IF pick = s
               THEN {t \in Src : frame'[t] # NoFrame} \cup {NoSrc}
               ELSE {pick}
  /\ UNCHANGED <<offered, device, faults>>

ServerStep ==
  \/ \E s \in Gen, f \in Frame : Render(s, f)
  \/ \E s \in Src : Pick(s) \/ Withdraw(s)

-----------------------------------------------------------------------------
(* The display task.                                                       *)

Fault == faults < MaxFaults /\ faults' = faults + 1
At(p) == pc = p
Goto(p) == pc' = p

(* What display_task loads when app_main starts it again.                  *)
Boot(forced) ==
  /\ Goto("join")
  /\ force' = forced
  /\ ramId' = nvsId
  /\ shownAny' = (nvsId # NoId)
  /\ manifest' = NoId

(* wifi_app_wait_connected succeeds. *)
Join ==
  /\ At("join")
  /\ Goto("report")
  /\ UNCHANGED <<server, stored, screen, memory, canvas, changes, faults, offered>>

(* Variant: the test pattern whenever the network is away.                 *)
JoinTimeoutAlwaysDemo ==
  /\ At("join")
  /\ Fault
  /\ Goto("demo")
  /\ UNCHANGED <<server, stored, screen, memory, canvas, changes, offered>>

(* It times out: the round ends, with a test pattern if nothing was shown. *)
JoinTimeout ==
  /\ At("join")
  /\ Fault
  /\ Goto(IF shownAny THEN "rest" ELSE "demo")
  /\ UNCHANGED <<server, stored, screen, memory, canvas, changes, offered>>

(* show_frame_stream(build_pattern_row). *)
LoadDemo ==
  /\ At("demo")
  /\ Goto("refreshing")
  /\ canvas' = Demo
  /\ screen' = Flux
  /\ UNCHANGED <<server, stored, memory, changes, faults, offered>>

(* Neither the heartbeat nor the OTA check stops the round when it fails.  *)
Report ==
  /\ At("report")
  /\ Goto("list")
  /\ UNCHANGED <<server, stored, screen, memory, canvas, changes, faults, offered>>

(* A pushed WiFi configuration or a new firmware restarts the device.      *)
ReportRestarts ==
  /\ At("report")
  /\ Fault
  /\ Boot(TRUE)
  /\ UNCHANGED <<server, stored, screen, canvas, changes, offered>>

ListContent ==
  /\ At("list")
  /\ IF pick = NoSrc
     THEN Goto("rest") /\ UNCHANGED <<manifest, offered>>
     ELSE /\ Goto("compare")
          /\ manifest' = <<pick, frame[pick]>>
          /\ offered' = {frame[pick]}
  /\ UNCHANGED <<server, stored, screen, force, ramId, shownAny, canvas,
                 changes, faults>>

(* Variant: only the id's source prefix is compared.                       *)
UnchangedSource ==
  ~force /\ manifest # NoId /\ ramId # NoId /\ manifest[1] = ramId[1]

Unchanged == ~force /\ manifest = ramId

Compare ==
  /\ At("compare")
  /\ Goto(IF Unchanged THEN "rest" ELSE "erase")
  /\ UNCHANGED <<server, stored, screen, memory, canvas, changes, faults, offered>>

Erase ==
  /\ At("erase")
  /\ Goto("download")
  /\ flash' = NoFrame
  /\ whole' = FALSE
  /\ UNCHANGED <<server, build, nvsId, screen, memory, canvas, changes, faults,
                 offered>>

(* content_download_image: the header is checked before a byte is written; *)
(* a 404 body fails that check.                                            *)
HeaderFits(f) == f # NoFrame /\ f \notin Misfit

Download ==
  /\ At("download")
  /\ LET f == frame[manifest[1]] IN
       IF HeaderFits(f)
       THEN /\ Goto("load")
            /\ flash' = f
            /\ whole' = TRUE
       ELSE Goto("rest") /\ UNCHANGED <<flash, whole>>
  /\ UNCHANGED <<server, build, nvsId, screen, memory, canvas, changes, faults,
                 offered>>

(* Variant: the number of bytes written is not checked.                    *)
DownloadFailsUnchecked ==
  /\ At("download")
  /\ Fault
  /\ HeaderFits(frame[manifest[1]])
  /\ flash' = frame[manifest[1]]
  /\ whole' = FALSE
  /\ Goto("load")
  /\ UNCHANGED <<server, build, nvsId, screen, memory, canvas, changes, offered>>

(* The transfer stops short, or flash refuses a block.                     *)
DownloadFails ==
  /\ At("download")
  /\ Fault
  /\ HeaderFits(frame[manifest[1]])
  /\ flash' = frame[manifest[1]]
  /\ whole' = FALSE
  /\ Goto("rest")
  /\ UNCHANGED <<server, build, nvsId, screen, memory, canvas, changes, offered>>

(* render_fps6_partition: every row of both halves, then the refresh.      *)
Load ==
  /\ At("load")
  /\ Goto("refreshing")
  /\ canvas' = IF whole THEN flash ELSE Torn
  /\ screen' = Flux
  /\ UNCHANGED <<server, stored, memory, changes, faults, offered>>

Refreshed ==
  /\ At("refreshing")
  /\ Goto("poweroff")
  /\ screen' = canvas
  /\ UNCHANGED <<server, stored, memory, canvas, changes, faults, offered>>

(* Variant: the result of gdeb0709e01_end is ignored.                      *)
RefreshTimeoutIgnored ==
  /\ At("refreshing")
  /\ Fault
  /\ Goto("poweroff")
  /\ screen' \in {Flux, canvas}
  /\ UNCHANGED <<server, stored, memory, canvas, changes, offered>>

(* BUSY never rises in time: the panel may or may not have finished.       *)
RefreshTimeout ==
  /\ At("refreshing")
  /\ Fault
  /\ Goto("rest")
  /\ screen' \in {Flux, canvas}
  /\ UNCHANGED <<server, stored, memory, canvas, changes, offered>>

PoweredOff ==
  /\ At("poweroff")
  /\ IF canvas = Demo
     THEN Goto("rest") /\ shownAny' = TRUE
     ELSE Goto("record") /\ UNCHANGED shownAny
  /\ UNCHANGED <<server, stored, screen, force, ramId, manifest, canvas,
                 changes, faults, offered>>

Record ==
  /\ At("record")
  /\ Goto("save")
  /\ ramId' = manifest
  /\ UNCHANGED <<server, stored, screen, force, shownAny, manifest, canvas,
                 changes, faults, offered>>

Save ==
  /\ At("save")
  /\ Goto("rest")
  /\ nvsId' = ramId
  /\ shownAny' = TRUE
  /\ UNCHANGED <<server, build, flash, whole, screen, force, ramId, manifest,
                 canvas, changes, faults, offered>>

(* nvs_save_last_id ignores its errors.                                    *)
SaveFails ==
  /\ At("save")
  /\ Fault
  /\ Goto("rest")
  /\ shownAny' = TRUE
  /\ UNCHANGED <<server, stored, screen, force, ramId, manifest, canvas,
                 changes, offered>>

(* A request, an erase, a row or a power-off command returns an error.     *)
StepFails ==
  /\ pc \in {"list", "erase", "download", "load", "demo", "poweroff"}
  /\ Fault
  /\ Goto("rest")
  /\ whole' = (whole /\ pc \notin {"erase", "download"})
  /\ UNCHANGED <<server, build, nvsId, flash, screen, memory, canvas, changes,
                 offered>>

(* The round is over.  A sleeping build wakes up through app_main.         *)
Wake(forced) ==
  /\ At("rest")
  /\ IF build.sleeps
     THEN Boot(forced)
     ELSE /\ Goto("join")
          /\ force' = forced
          /\ UNCHANGED <<ramId, shownAny, manifest>>
  /\ UNCHANGED <<server, stored, screen, canvas, changes, faults, offered>>

TimerWake == Wake(FALSE)
ButtonWake == build.button /\ Wake(TRUE)

(* Power loss or a panic, at any point; the device starts again at once.   *)
PowerLoss ==
  /\ Fault
  /\ Boot(TRUE)
  /\ whole' = (whole /\ pc \notin {"erase", "download"})
  /\ UNCHANGED <<server, build, nvsId, flash, screen, canvas, changes, offered>>

Progress ==
  \/ Join \/ LoadDemo \/ Report \/ ListContent \/ Compare \/ Erase \/ Download \/ Load
  \/ Refreshed \/ PoweredOff \/ Record \/ Save \/ TimerWake

Failure ==
  \/ JoinTimeout \/ ReportRestarts \/ DownloadFails \/ RefreshTimeout
  \/ SaveFails \/ StepFails \/ PowerLoss

Next == ServerStep \/ Progress \/ ButtonWake \/ Failure

Spec == Init /\ [][Next]_vars

(* The task runs on, and an RTC timer ends every sleep.                    *)
FairSpec == Spec /\ WF_vars(Progress)

-----------------------------------------------------------------------------
(* Properties.                                                             *)

(* The panel never shows rows of a download that stopped short, nor a      *)
(* frame made for another panel: content_download_image rejects both       *)
(* before render_fps6_partition is reached, in every order of failures.    *)
OnlyIntactFrames == screen # Torn /\ screen \notin Misfit

(* An id is recorded only while the panel shows a frame its source had     *)
(* since this round's list was fetched: no power loss, failed refresh or   *)
(* change of content on the server gets an id into NVS early.              *)
RecordAfterRefresh ==
  [][nvsId' # nvsId =>
       /\ screen \in offered
       /\ screen = flash /\ whole
       /\ nvsId' = manifest]_vars

(* What FrameView promises to the person looking at the frame.             *)
View == INSTANCE FrameView
          WITH Picture <- Frame, Good <- Frame \ Misfit,
               settled <- (nvsId # NoId)

ImplementsView == View!Spec

Current == IF pick = NoSrc THEN NoId ELSE <<pick, frame[pick]>>

(* Content that stays listed, and whose id the resting device holds        *)
(* neither in RAM nor in NVS, reaches the panel, whatever fails on the way *)
(* there.                                                                  *)
NewContentIsShown ==
  \A id \in Gen \X (Frame \ Misfit) :
    (At("rest") /\ id \notin {ramId, nvsId} /\ Current = id)
      ~> (screen = id[2] \/ Current # id)
=============================================================================

----------------------------- MODULE FrameView -----------------------------
(***************************************************************************)
(* What a photo frame promises to the person looking at it: the panel only *)
(* ever changes from one intact picture to another, and a picture it shows *)
(* is one the server was offering while the frame was updating.  Frames,   *)
(* requests, flash and restarts do not appear here; FrameLoop implements   *)
(* this specification.                                                     *)
(***************************************************************************)
CONSTANTS
  Picture, \* what the server may offer
  Good,    \* what the panel can show
  Blank,   \* what a new panel shows
  Demo,    \* the built-in test pattern for a device that has no content yet
  Flux     \* a panel whose refresh is running or was cut short

VARIABLES
  screen,   \* what the panel shows
  offered,  \* pictures offered by the server since the current update began
  settled   \* TRUE once the device has a lasting record of a shown picture

viewVars == <<screen, offered, settled>>

Init ==
  /\ screen = Blank
  /\ offered = {}
  /\ settled = FALSE

(* An update begins with what the server offers at that moment ...         *)
BeginUpdate(f) ==
  /\ offered' = {f}
  /\ UNCHANGED <<screen, settled>>

(* ... and the server may replace its picture while the update runs.       *)
Offer(f) ==
  /\ offered' = offered \cup {f}
  /\ UNCHANGED <<screen, settled>>

(* A refresh passes through a state in which the panel shows no picture.   *)
StartRefresh ==
  /\ screen' = Flux
  /\ UNCHANGED <<offered, settled>>

ShowPicture ==
  /\ screen = Flux
  /\ screen' \in offered \cap Good
  /\ UNCHANGED <<offered, settled>>

(* The test pattern is only for a device that never recorded a picture.    *)
ShowDemo ==
  /\ screen = Flux
  /\ ~settled
  /\ screen' = Demo
  /\ UNCHANGED <<offered, settled>>

(* Only a picture on the panel can be recorded, and a record lasts.        *)
Settle ==
  /\ screen \in offered \cap Good
  /\ settled' = TRUE
  /\ UNCHANGED <<screen, offered>>

Next ==
  \/ \E f \in Picture : BeginUpdate(f) \/ Offer(f)
  \/ StartRefresh
  \/ ShowPicture
  \/ ShowDemo
  \/ Settle

Spec == Init /\ [][Next]_viewVars
=============================================================================

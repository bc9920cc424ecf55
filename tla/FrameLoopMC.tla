---------------------------- MODULE FrameLoopMC ----------------------------
(* Small instances of FrameLoop for TLC.                                   *)
EXTENDS FrameLoop

AllBuilds == [sleeps : BOOLEAN, button : BOOLEAN]
=============================================================================

-------------------------- MODULE WifiProvisionMC --------------------------
(* Small instances of WifiProvision for TLC.                               *)
EXTENDS WifiProvision

(* Asleep between rounds or not, built with a network's credentials or     *)
(* with none.                                                              *)
AllBuilds == [sleeps : BOOLEAN, menu : {CHOOSE c \in Net : TRUE, NoConfig}]
=============================================================================

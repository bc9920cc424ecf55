---------------------------- MODULE FirmwareView ----------------------------
(* What firmware updates promise to the owner of a frame: it runs the image *)
(* that proved itself last, or gives a single trial to the image that was   *)
(* the published one when it asked.  Partitions, transfers, hashes and the  *)
(* boot loader's marks do not appear here; Ota implements this              *)
(* specification.                                                           *)
CONSTANTS Images,       \* what may be published
          Starts,       \* those that come up
          Nothing

VARIABLES announced,    \* the image published last
          wanted,       \* the image published when the device asked last
          confirmed,    \* the image that proved itself last
          trial, tried, \* the image on trial, and whether it had its start
          running       \* the image that runs, Nothing without power

firmwareVars == <<announced, wanted, confirmed, trial, tried, running>>

Init == /\ announced = Nothing /\ wanted = Nothing
        /\ confirmed \in Starts
        /\ trial = Nothing /\ tried = FALSE
        /\ running = Nothing

Publish(i) == /\ announced' = i
              /\ UNCHANGED <<wanted, confirmed, trial, tried, running>>

(* Only a confirmed image asks for another one.                             *)
Settled == trial = Nothing /\ running = confirmed

Ask == /\ Settled
       /\ wanted' = announced
       /\ UNCHANGED <<announced, confirmed, trial, tried, running>>

Install == /\ Settled /\ wanted # Nothing
           /\ trial' = wanted /\ tried' = FALSE
           /\ running' = Nothing
           /\ UNCHANGED <<announced, wanted, confirmed>>

(* With power again: the image on trial, if it has not had its start ...    *)
StartTrial == /\ running = Nothing
              /\ trial # Nothing /\ ~tried
              /\ running' = trial /\ tried' = TRUE
              /\ UNCHANGED <<announced, wanted, confirmed, trial>>

(* ... and otherwise the confirmed one, which ends the trial.               *)
StartConfirmed == /\ running = Nothing
                  /\ trial = Nothing \/ tried
                  /\ running' = confirmed
                  /\ trial' = Nothing /\ tried' = FALSE
                  /\ UNCHANGED <<announced, wanted, confirmed>>

Confirm == /\ tried /\ running = trial /\ trial \in Starts
           /\ confirmed' = trial
           /\ trial' = Nothing /\ tried' = FALSE
           /\ UNCHANGED <<announced, wanted, running>>

Stop == /\ running # Nothing
        /\ running' = Nothing
        /\ UNCHANGED <<announced, wanted, confirmed, trial, tried>>

Next == \/ \E i \in Images : Publish(i)
        \/ Ask \/ Install \/ StartTrial \/ StartConfirmed \/ Confirm \/ Stop

Spec == Init /\ [][Next]_firmwareVars

(* Whatever is published and whenever the power goes: there is an image     *)
(* that comes up.                                                           *)
ComesUp == confirmed \in Starts
=============================================================================

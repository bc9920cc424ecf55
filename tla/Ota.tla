-------------------------------- MODULE Ota --------------------------------
(* Firmware updates: the table and the files of routers/ota.py, and the     *)
(* device, which asks once per round (ota_client_maybe_update), writes the  *)
(* partition it does not run from, compares the hash and restarts.  The     *)
(* boot loader tries a new image once; an image that does not come as far   *)
(* as ota_client_init is left for the one before.                           *)
EXTENDS Naturals

CONSTANTS Images,       \* firmware images
          Labels,       \* version strings
          Built,        \* Built[i]: the version compiled into image i
          Starts,       \* images that come as far as ota_client_init
          Torn,         \* a partition or a transfer that is no image
          MaxUploads,
          MaxFaults     \* power losses, failed transfers, server crashes

Parts == {0, 1}
Other(n) == 1 - n
Nothing == "nothing"

ASSUME OtaAssumption == /\ Built \in [Images -> Labels]
                        /\ Starts \subseteq Images
                        /\ Torn \notin Images
                        /\ Nothing \notin Labels \cup Images
                        /\ MaxUploads \in Nat /\ MaxFaults \in Nat

VARIABLES file,     \* the file of each label
          row,      \* the row of each label: the image its hash was made of
          latest,   \* the label uploaded last
          part,     \* the two partitions
          boot,     \* the partition to boot
          mark,     \* its state in otadata
          run,      \* the partition that runs
          stage,       \* the device
          want,     \* the hash of the manifest
          source,   \* the label whose file is being sent
          got,      \* what has arrived
          uploads, faults

server == <<file, row, latest, uploads>>
device == <<part, boot, mark, run, stage, want, source, got>>
otaVars == <<file, row, latest, part, boot, mark, run, stage, want, source, got, uploads, faults>>

OtaInit == /\ file = [l \in Labels |-> Nothing] /\ row = file /\ latest = Nothing
           /\ \E i \in Starts : part = [n \in Parts |-> IF n = 0 THEN i ELSE Torn]
           /\ boot = 0 /\ mark = "valid" /\ run = 0 /\ stage = "off"
           /\ want = Nothing /\ source = Nothing /\ got = Nothing
           /\ uploads = 0 /\ faults = 0

Fault == faults < MaxFaults /\ faults' = faults + 1

-----------------------------------------------------------------------------
(* POST /ota/upload: the file of the label, then its row.  A label uploaded *)
(* again overwrites both.  A file that is being sent changes under way.     *)

SendingAnother(l) == IF stage = "download" /\ source = l THEN Torn ELSE got

Upload(l, i) ==
    /\ uploads < MaxUploads /\ uploads' = uploads + 1
    /\ file' = [file EXCEPT ![l] = i]
    /\ row' = [row EXCEPT ![l] = i]
    /\ latest' = l
    /\ got' = SendingAnother(l)
    /\ UNCHANGED <<part, boot, mark, run, stage, want, source, faults>>

\* The process ends between the two.
UploadCut(l, i) ==
    /\ uploads < MaxUploads /\ uploads' = uploads + 1
    /\ Fault
    /\ file' = [file EXCEPT ![l] = i]
    /\ got' = SendingAnother(l)
    /\ UNCHANGED <<row, latest, part, boot, mark, run, stage, want, source>>

-----------------------------------------------------------------------------
(* The device.                                                              *)

\* The boot loader: a new image is on trial, a trial that was not confirmed is
\* over.
BootUp ==
    /\ stage = "off"
    /\ IF mark = "trial"
       THEN boot' = Other(boot) /\ mark' = "valid"
       ELSE boot' = boot /\ mark' = IF mark = "new" THEN "trial" ELSE mark
    /\ run' = boot'
    /\ stage' = "start"
    /\ UNCHANGED <<server, part, want, source, got, faults>>

\* ota_client_init, the first call of app_main.
Confirm ==
    /\ stage = "start" /\ part[run] \in Starts
    /\ mark' = "valid"
    /\ stage' = "check"
    /\ UNCHANGED <<server, part, boot, run, want, source, got, faults>>

CrashAtStart ==
    /\ stage = "start" /\ part[run] \notin Starts
    /\ stage' = "off"
    /\ UNCHANGED <<server, part, boot, mark, run, want, source, got, faults>>

\* Variant: a version that is in the table is up to date.
OfferedUnknown == latest # Nothing /\ row[Built[part[run]]] = Nothing

\* The manifest, and the comparison both sides make.
Offered == latest # Nothing /\ latest # Built[part[run]]

Check ==
    /\ stage = "check"
    /\ IF Offered THEN stage' = "begin" /\ want' = row[latest]
                  ELSE stage' = "wait" /\ want' = want
    /\ UNCHANGED <<server, part, boot, mark, run, source, got, faults>>

\* esp_ota_begin, and the request: the file of whatever label is the latest now.
Begin ==
    /\ stage = "begin"
    /\ part' = [part EXCEPT ![Other(run)] = Torn]
    /\ source' = latest /\ got' = file[latest]
    /\ stage' = "download"
    /\ UNCHANGED <<server, boot, mark, run, want, faults>>

\* Variant: the hash is not compared.
ArrivesUnchecked ==
    /\ stage = "download"
    /\ part' = [part EXCEPT ![Other(run)] = got]
    /\ stage' = "switch"
    /\ UNCHANGED <<server, boot, mark, run, want, source, got, faults>>

\* The transfer is over: the hash decides, and esp_ota_end.
Arrives ==
    /\ stage = "download"
    /\ IF got = want THEN part' = [part EXCEPT ![Other(run)] = got] /\ stage' = "switch"
                     ELSE part' = part /\ stage' = "wait"
    /\ UNCHANGED <<server, boot, mark, run, want, source, got, faults>>

\* The request for the manifest or the image fails, or setting the partition does.
StepFails ==
    /\ stage \in {"check", "begin", "download", "switch"}
    /\ Fault
    /\ stage' = "wait"
    /\ UNCHANGED <<server, part, boot, mark, run, want, source, got>>

Switch ==
    /\ stage = "switch"
    /\ boot' = Other(run) /\ mark' = "new"
    /\ stage' = "off"
    /\ UNCHANGED <<server, part, run, want, source, got, faults>>

\* The round is over: deep sleep, or the next one.
NextRound ==
    /\ stage = "wait"
    /\ stage' \in {"off", "check"}
    /\ UNCHANGED <<server, part, boot, mark, run, want, source, got, faults>>

PowerCut ==
    /\ stage # "off"
    /\ Fault
    /\ stage' = "off"
    /\ UNCHANGED <<server, part, boot, mark, run, want, source, got>>

Step == BootUp \/ Confirm \/ CrashAtStart \/ Check \/ Begin \/ Arrives \/ Switch \/ NextRound

OtaNext == \/ \E l \in Labels, i \in Images : Upload(l, i) \/ UploadCut(l, i)
           \/ Step \/ StepFails \/ PowerCut

OtaSpec == OtaInit /\ [][OtaNext]_otaVars /\ WF_otaVars(Step)

-----------------------------------------------------------------------------
(* Type invariant.                                                          *)
OtaTypeOK == /\ file \in [Labels -> Images \cup {Nothing}]
             /\ row \in [Labels -> Images \cup {Nothing}]
             /\ latest \in Labels \cup {Nothing}
             /\ latest # Nothing => row[latest] \in Images /\ file[latest] \in Images
             /\ part \in [Parts -> Images \cup {Torn}]
             /\ boot \in Parts /\ run \in Parts
             /\ mark \in {"valid", "new", "trial"}
             /\ stage \in {"off", "start", "check", "begin", "download", "switch", "wait"}
             /\ want \in Images \cup {Nothing}
             /\ source \in Labels \cup {Nothing}
             /\ got \in Images \cup {Nothing, Torn}
             /\ uploads \in 0..MaxUploads /\ faults \in 0..MaxFaults

(* At every moment, also in the middle of an update, after a publication    *)
(* that changed under the transfer, and for an image that dies at its       *)
(* start: the power may go, and the device still comes up with a whole      *)
(* image, at once or after one failed trial.                                *)
AlwaysBoots ==
    IF mark = "valid" THEN part[boot] \in Starts
    ELSE part[boot] \in Images /\ part[Other(boot)] \in Starts

(* What FirmwareView promises to the owner: the one partition holds the     *)
(* image confirmed last, whatever is written to the other; the boot loader  *)
(* tries only the image whose hash the manifest gave, whole, and once       *)
(* (ota_client.c, routers/ota.py).                                          *)
View == INSTANCE FirmwareView
          WITH announced <- IF latest = Nothing THEN Nothing ELSE row[latest],
               wanted    <- want,
               confirmed <- IF mark = "valid" THEN part[boot] ELSE part[Other(boot)],
               trial     <- IF mark = "valid" THEN Nothing ELSE part[boot],
               tried     <- (mark = "trial"),
               running   <- IF stage = "off" THEN Nothing ELSE part[run]

ImplementsFirmware == View!Spec

(* A firmware that is published under the version compiled into it, starts, *)
(* and stays the latest one, is running in the end, however transfers,      *)
(* power and earlier publications failed before.                            *)
Current(l) == /\ latest = l
              /\ row[l] \in Starts /\ file[l] = row[l] /\ Built[row[l]] = l
UpdateArrives ==
    \A l \in Labels : <>[]Current(l) => <>[](Built[part[run]] = l)
=============================================================================

--------------------------- MODULE WifiProvision ---------------------------
(***************************************************************************)
(* How a device gets its WiFi credentials.                                 *)
(*                                                                         *)
(* Push: the console stores a configuration with wifi_pending = 1          *)
(* (services/app/routers/devices.py), the next heartbeat reply carries it, *)
(* the device writes it to NVS, sets applied_ack, restarts, and its next   *)
(* heartbeat clears wifi_pending (firmware/main/device_client.c).          *)
(*                                                                         *)
(* Provisioning: a device without credentials listens for a SmartConfig    *)
(* broadcast and, after SMARTCONFIG_TIMEOUT_S, opens its own access point  *)
(* with a form (firmware/main/wifi_config.c).  The display task runs next  *)
(* to it and puts the chip into deep sleep when its round is over.         *)
(*                                                                         *)
(* Name and password are two NVS entries written one after the other, so   *)
(* stored credentials are a pair: the name of one configuration and the    *)
(* password of one.  Different configurations have different passwords.    *)
(***************************************************************************)
EXTENDS Naturals, Sequences, SequencesExt

CONSTANTS
  Config,    \* configurations the owner may enter
  TooLong,   \* those wifi_app_save_credentials rejects
  Net,       \* those that lead to a network with the server in it
  NoConfig,  \* no entry; "your_ssid" in menuconfig
  Builds,    \* menuconfig: does it sleep, and the built-in credentials
  MaxOwner,  \* bound: configurations the owner enters
  MaxFaults, \* bound: lost messages, NVS errors, power losses
  MaxWire    \* bound: heartbeats the server has not handled yet

ASSUME ConstantsAssumption ==
  /\ TooLong \subseteq Config
  /\ Net \subseteq Config \ TooLong
  /\ NoConfig \notin Config
  /\ Builds \subseteq [sleeps : BOOLEAN, menu : (Config \ TooLong) \cup {NoConfig}]
  /\ MaxOwner \in Nat /\ MaxFaults \in Nat /\ MaxWire \in Nat

VARIABLES
  (* the device's row in the devices table *)
  known, pending, want,
  (* the air *)
  wire,     \* heartbeats on their way, oldest first: their wifi_config_applied
  onAir,    \* configurations esptouch is broadcasting
  (* NVS *)
  ssid, pass, ack,
  (* the device's RAM *)
  build,    \* the choices this firmware was built with
  mode,     \* what app_main started: station, listen(ing), portal, or deaf
  round,    \* where the display task's round is
  first,    \* no round has ended since app_main
  joined,   \* the credentials the station was started with
  task,     \* the heartbeat, or the handler that is saving credentials
  asked,    \* applied_ack when the heartbeat's body was built
  target,   \* the configuration received
  (* bounds and history *)
  owner, faults,
  restarts  \* restarts after a pushed configuration was saved

row == <<known, pending, want>>
nvs == <<ssid, pass, ack>>
ram == <<mode, round, first, joined, task, asked, target>>
bounds == <<owner, faults, restarts>>
vars == <<known, pending, want, wire, onAir, ssid, pass, ack, build, mode,
          round, first, joined, task, asked, target, owner, faults, restarts>>
display == <<mode, round, first, joined>>

Maybe == Config \cup {NoConfig}

TypeOK ==
  /\ known \in BOOLEAN /\ pending \in BOOLEAN /\ want \in Maybe
  /\ wire \in BoundedSeq(BOOLEAN, MaxWire)
  /\ onAir \subseteq Config
  /\ {ssid, pass} \subseteq Maybe \ TooLong /\ ack \in BOOLEAN
  /\ build \in Builds
  /\ mode \in {"station", "listen", "portal", "deaf"}
  /\ round \in {"start", "reported", "over"} /\ first \in BOOLEAN
  /\ joined \in Maybe \X Maybe
  /\ task \in {"idle", "sent", "reply", "pushPass", "pushMark", "scPass",
               "formPass", "restart"}
  /\ asked \in BOOLEAN
  /\ target \in Maybe
  /\ owner \in 0 .. MaxOwner /\ faults \in 0 .. MaxFaults
  /\ restarts \in Nat

(* load_credentials: an NVS name hides menuconfig.                         *)
Load(name, password) ==
  IF name = NoConfig THEN <<build.menu, build.menu>> ELSE <<name, password>>

OnNet(creds) == creds[1] = creds[2] /\ creds[1] \in Net

Init ==
  /\ known = FALSE /\ pending = FALSE /\ want = NoConfig
  /\ wire = <<>> /\ onAir = {}
  /\ ssid = NoConfig /\ pass = NoConfig /\ ack = FALSE
  /\ build \in Builds
  /\ mode = (IF build.menu = NoConfig THEN "listen" ELSE "station")
  /\ joined = Load(NoConfig, NoConfig)
  /\ round = "start" /\ first = TRUE
  /\ task = "idle" /\ asked = FALSE /\ target = NoConfig
  /\ owner = 0 /\ faults = 0 /\ restarts = 0

-----------------------------------------------------------------------------
(* The owner at the console or at the access point's form.                 *)

Enter == owner < MaxOwner /\ owner' = owner + 1

(* PUT /api/devices/{id}/wifi-config *)
SetWifiConfig(c) ==
  /\ Enter
  /\ known
  /\ want' = c /\ pending' = TRUE
  /\ UNCHANGED <<known, wire, onAir, nvs, build, ram, faults, restarts>>

(* POST /api/devices/register, from the console or a script *)
Register ==
  /\ ~known
  /\ known' = TRUE
  /\ UNCHANGED <<pending, want, wire, onAir, nvs, build, ram, bounds>>

(* POST /api/devices/smartconfig: a background task broadcasts for 30 s.   *)
StartBroadcast(c) ==
  /\ Enter
  /\ onAir' = onAir \cup {c}
  /\ UNCHANGED <<row, wire, nvs, build, ram, faults, restarts>>

EndBroadcast(c) ==
  /\ c \in onAir
  /\ onAir' = onAir \ {c}
  /\ UNCHANGED <<row, wire, nvs, build, ram, bounds>>

-----------------------------------------------------------------------------
(* The device.                                                             *)

Fault == faults < MaxFaults /\ faults' = faults + 1

(* app_main: what wifi_app_start finds in NVS decides.                     *)
Boot ==
  /\ joined' = Load(ssid', pass')
  /\ mode' = IF joined'[1] = NoConfig THEN "listen" ELSE "station"
  /\ round' = "start" /\ first' = TRUE
  /\ task' = "idle" /\ asked' = FALSE /\ target' = NoConfig

(* The round begins with a heartbeat, if the station is connected.         *)
Send ==
  /\ round = "start" /\ mode = "station" /\ OnNet(joined)
  /\ Len(wire) < MaxWire
  /\ round' = "reported"
  /\ task' = "sent" /\ asked' = ack
  /\ wire' = Append(wire, ack)
  /\ UNCHANGED <<row, onAir, nvs, build, mode, first, joined, target, bounds>>

(* Only the newest heartbeat can still have the device waiting for it.     *)
Answer(i, config) ==
  IF task = "sent" /\ i = Len(wire)
  THEN task' = "reply" /\ target' = config
  ELSE UNCHANGED <<task, target>>

(* Variant: a configuration that was sent counts as delivered.             *)
HeartbeatForgets(i) ==
  /\ wire' = RemoveAt(wire, i)
  /\ known' = TRUE
  /\ pending' = FALSE
  /\ Answer(i, IF pending /\ ~wire[i] THEN want ELSE NoConfig)
  /\ UNCHANGED <<want, onAir, nvs, build, display, asked, bounds>>

(* Variant: the row is read for the reply before the confirmation clears it. *)
HeartbeatReadsFirst(i) ==
  /\ wire' = RemoveAt(wire, i)
  /\ known' = TRUE
  /\ pending' = (pending /\ ~wire[i])
  /\ Answer(i, IF pending THEN want ELSE NoConfig)
  /\ UNCHANGED <<want, onAir, nvs, build, display, asked, bounds>>

(* POST /api/devices/{id}/heartbeat; a slow event loop may take it late.   *)
Heartbeat(i) ==
  /\ wire' = RemoveAt(wire, i)
  /\ known' = TRUE
  /\ pending' = (pending /\ ~wire[i])
  /\ Answer(i, IF pending' THEN want ELSE NoConfig)
  /\ UNCHANGED <<want, onAir, nvs, build, display, asked, bounds>>

(* The request or its reply is lost, or takes longer than 15 s.            *)
SendFails ==
  /\ task \in {"sent", "reply"}
  /\ Fault
  /\ task' = "idle" /\ target' = NoConfig
  /\ \/ wire' = wire
     \/ task = "sent" /\ wire' = Front(wire)
  /\ UNCHANGED <<row, onAir, nvs, build, display, asked, owner, restarts>>

(* No configuration in the reply: the server knows, applied_ack is done.   *)
ReplyWithout ==
  /\ task = "reply" /\ target = NoConfig
  /\ ack' = (ack /\ ~asked)
  /\ task' = "idle"
  /\ UNCHANGED <<row, wire, onAir, ssid, pass, build, display, asked,
                 target, bounds>>

(* nvs_set_flag fails, and nobody looks at its result.                     *)
AckStays ==
  /\ task = "reply" /\ target = NoConfig /\ asked
  /\ Fault
  /\ task' = "idle"
  /\ UNCHANGED <<row, wire, onAir, nvs, build, display, asked, target,
                 owner, restarts>>

ReplyRejected ==
  /\ task = "reply" /\ target \in TooLong
  /\ task' = "idle" /\ target' = NoConfig
  /\ UNCHANGED <<row, wire, onAir, nvs, build, display, asked, bounds>>

(* wifi_app_save_credentials writes the name ...                           *)
WriteSsid(c, next) ==
  /\ c \in Config \ TooLong
  /\ ssid' = c /\ target' = c /\ task' = next
  /\ UNCHANGED <<row, wire, pass, build, display, asked>>

(* Variant: applied_ack is set before the credentials are written.         *)
ReplyWithMarksFirst ==
  /\ task = "reply"
  /\ WriteSsid(target, "pushPass")
  /\ ack' = TRUE
  /\ UNCHANGED <<onAir, bounds>>

ReplyWith ==
  /\ task = "reply"
  /\ WriteSsid(target, "pushPass")
  /\ UNCHANGED <<onAir, ack, bounds>>

(* ... and then the password.                                              *)
WritePass ==
  /\ task \in {"pushPass", "scPass", "formPass"}
  /\ pass' = target
  /\ task' = CASE task = "pushPass" -> "pushMark"
               [] task = "scPass" /\ mode # "listen" -> "idle"
               [] OTHER -> "restart"
  /\ UNCHANGED <<row, wire, onAir, ssid, ack, build, display, asked, target,
                 bounds>>

(* NVS refuses the password, or the commit after it.                       *)
WriteFails ==
  /\ task \in {"pushPass", "scPass", "formPass"}
  /\ Fault
  /\ pass' \in {pass, target}
  /\ task' = "idle" /\ target' = NoConfig
  /\ UNCHANGED <<row, wire, onAir, ssid, ack, build, display, asked, owner,
                 restarts>>

(* The flag, then esp_restart; a flag NVS refuses goes unnoticed.          *)
MarkApplied ==
  /\ task = "pushMark"
  /\ restarts' = restarts + 1
  /\ UNCHANGED <<row, wire, onAir, ssid, pass, build, owner>>
  /\ \/ ack' = TRUE /\ UNCHANGED faults
     \/ Fault /\ UNCHANGED ack
  /\ Boot

Restart ==
  /\ task = "restart"
  /\ UNCHANGED <<row, wire, onAir, nvs, build, bounds>>
  /\ Boot

(* SC_EVENT_GOT_SSID_PSWD *)
HearBroadcast(c) ==
  /\ mode = "listen" /\ task = "idle"
  /\ c \in onAir
  /\ WriteSsid(c, "scPass")
  /\ UNCHANGED <<onAir, ack, bounds>>

(* Variant: nothing follows when nobody broadcasts.                        *)
ListenTimeoutGivesUp ==
  /\ mode = "listen" /\ task \in {"idle", "scPass"}
  /\ mode' = "station"
  /\ UNCHANGED faults
  /\ UNCHANGED <<row, wire, onAir, nvs, build, round, first, joined, task, asked,
                 target, owner, restarts>>

(* SMARTCONFIG_TIMEOUT_S after app_main the access point opens, or at once *)
(* when SmartConfig does not start.  A round without a network takes less  *)
(* than that, unless the panel keeps it busy up to its own timeouts.       *)
ListenTimeout ==
  /\ mode = "listen" /\ task \in {"idle", "scPass"}
  /\ IF first THEN Fault ELSE UNCHANGED faults
  /\ mode' = "portal"
  /\ UNCHANGED <<row, wire, onAir, nvs, build, round, first, joined, task, asked,
                 target, owner, restarts>>

(* The task, its handler or the access point cannot be set up: the task    *)
(* ends, nobody asks why, and nothing listens until the next app_main.     *)
ListenDies ==
  /\ mode = "listen" /\ task \in {"idle", "scPass"}
  /\ Fault
  /\ mode' = "deaf"
  /\ UNCHANGED <<row, wire, onAir, nvs, build, round, first, joined, task, asked,
                 target, owner, restarts>>

(* POST /api/config on the device.  config_handler uses the strings of the *)
(* request after cJSON_Delete has freed them: what is saved may be what    *)
(* was entered or whatever the heap holds there by then.                   *)
SubmitForm(c, held) ==
  /\ mode = "portal" /\ task = "idle"
  /\ Enter
  /\ held \in {c} \cup (Config \ Net)
  /\ WriteSsid(held, "formPass")
  /\ UNCHANGED <<onAir, ack, faults, restarts>>

(* The display task's round ends.  In station mode the heartbeat is part   *)
(* of it; an online round without one failed to connect in 15 s.           *)
RoundEnds ==
  /\ round # "over"
  /\ mode = "station" => task = "idle"
  /\ IF round = "start" /\ mode = "station" /\ OnNet(joined)
     THEN Fault
     ELSE UNCHANGED faults
  /\ round' = "over" /\ first' = FALSE
  /\ UNCHANGED <<row, wire, onAir, nvs, build, mode, joined, task, asked, target,
                 owner, restarts>>

(* A sleeping build sleeps and starts again from app_main, wherever the    *)
(* provisioning tasks are.                                                 *)
SleepAndWake ==
  /\ build.sleeps /\ round = "over"
  /\ UNCHANGED <<row, wire, onAir, nvs, build, bounds>>
  /\ Boot

(* Any other build begins its next round.                                  *)
PollAgain ==
  /\ ~build.sleeps /\ round = "over"
  /\ round' = "start"
  /\ UNCHANGED <<row, wire, onAir, nvs, build, mode, first, joined, task, asked,
                 target, bounds>>

PowerLoss ==
  /\ Fault
  /\ UNCHANGED <<row, wire, onAir, nvs, build, owner, restarts>>
  /\ Boot

-----------------------------------------------------------------------------
Owner ==
  \/ \E c \in Config : SetWifiConfig(c) \/ StartBroadcast(c) \/ EndBroadcast(c)
  \/ \E c \in Config, held \in Config : SubmitForm(c, held)
  \/ Register

Exchange ==
  Send \/ \E i \in DOMAIN wire : Heartbeat(i)

Save ==
  \/ ReplyWithout \/ ReplyRejected \/ ReplyWith \/ WritePass \/ MarkApplied
  \/ Restart

Rounds == RoundEnds \/ SleepAndWake \/ PollAgain

Failure == SendFails \/ AckStays \/ WriteFails \/ ListenDies \/ PowerLoss

Next ==
  \/ Owner \/ Exchange \/ Save \/ ListenTimeout \/ Rounds \/ Failure
  \/ \E c \in Config : HearBroadcast(c)

Spec == Init /\ [][Next]_vars

(* Tasks run, the event loop gets to every request, timers expire.  Nobody *)
(* owes the device a broadcast or a form.                                  *)
FairSpec ==
  /\ Spec
  /\ WF_vars(Send) /\ WF_vars(\E i \in DOMAIN wire : Heartbeat(i))
  /\ WF_vars(Save) /\ WF_vars(ListenTimeout) /\ WF_vars(Rounds)

-----------------------------------------------------------------------------
(* Properties.                                                             *)

Whole == ssid = pass
Stored(c) == ssid = c /\ pass = c

(* applied_ack in NVS means complete credentials in NVS: no power loss,    *)
(* NVS error or deep sleep leaves the device confirming half of a          *)
(* configuration (device_client.c:177-179 saves first and marks then).     *)
AckIsTruthful == ack => Whole /\ ssid # NoConfig

(* A pushed configuration restarts the device once: whatever is lost or    *)
(* late, another restart takes another configuration or another failure.   *)
RestartsBounded == restarts <= owner + faults

(* A configuration pushed while no confirmation of an earlier one is on    *)
(* its way reaches the NVS of a device that is online, unless its saving   *)
(* was cut off between the two entries, by a power loss or an NVS error,   *)
(* and half of it is what stays there.                                     *)
Quiet == ~ack /\ task = "idle" /\ \A i \in DOMAIN wire : ~wire[i]

PushArrives ==
  \A c \in Config \ TooLong :
    (/\ pending /\ want = c /\ Quiet
     /\ mode = "station" /\ OnNet(joined) /\ joined = Load(ssid, pass))
      ~> (Stored(c) \/ want # c \/ (~Whole /\ task = "idle"))

(* wifi_config.c:7 for a build that stays awake: a device nobody           *)
(* broadcasts to ends up with its access point open, unless the task that  *)
(* opens it failed.                                                        *)
PortalOpensAwake ==
  (mode = "listen" /\ ~build.sleeps) ~> (mode \in {"portal", "deaf"} \/ ssid # NoConfig)
=============================================================================

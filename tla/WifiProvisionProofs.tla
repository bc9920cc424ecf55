------------------------ MODULE WifiProvisionProofs --------------------------
(* What a push promises, for any configurations, builds, queue lengths and  *)
(* numbers of failures: a confirmation is never premature, and the restarts *)
(* are bounded by what the owner did and what failed.                       *)
EXTENDS WifiProvision, SequenceTheorems, TLAPS

-----------------------------------------------------------------------------
(* The requests on the wire.                                                *)

LEMMA Bounded ==
    ASSUME NEW S, NEW n \in Nat, NEW s
    PROVE  s \in BoundedSeq(S, n) <=> s \in Seq(S) /\ Len(s) <= n
<1>1. ASSUME s \in BoundedSeq(S, n) PROVE s \in Seq(S) /\ Len(s) <= n
    BY <1>1 DEF BoundedSeq, SeqOf
<1>2. ASSUME s \in Seq(S), Len(s) <= n PROVE s \in BoundedSeq(S, n)
    <2>1. s \in [1..Len(s) -> S] /\ Len(s) \in 0..n
        BY <1>2, LenProperties
    <2> QED BY <2>1 DEF BoundedSeq, SeqOf
<1> QED BY <1>1, <1>2

(* Taking one out leaves the newest one in its place, if it was another.    *)
LEMMA Removed ==
    ASSUME NEW S, NEW s \in Seq(S), NEW i \in 1..Len(s)
    PROVE  /\ RemoveAt(s, i) \in Seq(S)
           /\ Len(RemoveAt(s, i)) = Len(s) - 1
           /\ i # Len(s) => /\ Len(s) > 1
                            /\ RemoveAt(s, i)[Len(s) - 1] = s[Len(s)]
<1> DEFINE a == SubSeq(s, 1, i - 1)
           b == SubSeq(s, i + 1, Len(s))
<1>1. Len(s) \in Nat /\ i \in Nat /\ 1 <= i /\ i <= Len(s)
    BY LenProperties
<1>2. /\ a \in Seq(S) /\ Len(a) = i - 1
    <2>1. CASE i = 1
        BY <2>1, SubSeqEmpty, <1>1
    <2>2. CASE i > 1
        BY <2>2, <1>1, SubSeqProperties
    <2> QED BY <1>1, <2>1, <2>2
<1>3. b \in Seq(S) /\ Len(b) = Len(s) - i
    <2>1. CASE i = Len(s)
        BY <2>1, SubSeqEmpty, <1>1
    <2>2. CASE i < Len(s)
        BY <2>2, <1>1, SubSeqProperties
    <2> QED BY <1>1, <2>1, <2>2
<1>4. i < Len(s) => b[Len(s) - i] = s[Len(s)]
    BY <1>1, SubSeqProperties
<1>5. /\ a \o b \in Seq(S) /\ Len(a \o b) = Len(a) + Len(b)
      /\ \A k \in 1..Len(a) + Len(b) :
            (a \o b)[k] = IF k <= Len(a) THEN a[k] ELSE b[k - Len(a)]
    BY <1>2, <1>3, ConcatProperties
<1>6. RemoveAt(s, i) = a \o b
    BY DEF RemoveAt
<1> HIDE DEF a, b
<1>7. Len(a \o b) = Len(s) - 1
    BY <1>1, <1>2, <1>3, <1>5
<1>8. ASSUME i # Len(s) PROVE Len(s) > 1 /\ (a \o b)[Len(s) - 1] = s[Len(s)]
    <2>1. /\ Len(s) > 1 /\ Len(s) - 1 \in 1..Len(a) + Len(b)
          /\ ~(Len(s) - 1 <= Len(a)) /\ Len(s) - 1 - Len(a) = Len(s) - i
        BY <1>1, <1>2, <1>3, <1>8
    <2>2. (a \o b)[Len(s) - 1] = b[Len(s) - 1 - Len(a)]
        BY <1>5, <2>1
    <2> QED BY <1>1, <1>4, <1>8, <2>1, <2>2
<1> QED BY <1>5, <1>6, <1>7, <1>8

-----------------------------------------------------------------------------
(* The invariant.                                                           *)

Types ==
  /\ known \in BOOLEAN /\ pending \in BOOLEAN /\ want \in Maybe
  /\ wire \in Seq(BOOLEAN) /\ Len(wire) <= MaxWire
  /\ onAir \subseteq Config
  /\ {ssid, pass} \subseteq Maybe \ TooLong /\ ack \in BOOLEAN
  /\ build \in Builds
  /\ mode \in {"station", "listen", "portal", "deaf"}
  /\ round \in {"start", "reported", "over"} /\ first \in BOOLEAN
  /\ joined \in Maybe \X Maybe
  /\ task \in {"idle", "sent", "reply", "pushPass", "pushMark", "scPass",
               "formPass", "restart"}
  /\ asked \in BOOLEAN
  /\ target \in Maybe

(* Only a station talks to the server, and what the newest request says,    *)
(* or the one a reply answers, is what NVS says.                            *)
Talking ==
  /\ task \in {"sent", "reply", "pushPass", "pushMark"} => mode = "station"
  /\ task = "sent" => asked = ack /\ wire # <<>> /\ wire[Len(wire)] = ack
  /\ task = "reply" => asked = ack /\ (target # NoConfig => ~ack)

(* While credentials are being written nothing is marked as applied.        *)
Writing ==
  /\ task \in {"pushPass", "scPass", "formPass"} =>
       ~ack /\ ssid = target /\ target \in Config \ TooLong
  /\ task = "pushMark" => ~ack /\ Stored(target) /\ target \in Config \ TooLong

Marked == AckIsTruthful /\ (mode # "station" => ~ack)

IInv == Types /\ Talking /\ Writing /\ Marked

LEMMA InitIInv == Init => IInv
<1> SUFFICES ASSUME Init PROVE IInv
    OBVIOUS
<1>1. wire \in Seq(BOOLEAN) /\ Len(wire) <= MaxWire
    BY ConstantsAssumption DEF Init
<1>2. build.menu \in Maybe /\ joined \in Maybe \X Maybe
    BY ConstantsAssumption DEF Init, Load, Maybe
<1>3. Types
    BY <1>1, <1>2, ConstantsAssumption DEF Init, Types, Maybe
<1> QED BY <1>3 DEF Init, IInv, Talking, Writing, Marked, AckIsTruthful, Whole

(* Restarting keeps the invariant: a mark in NVS means a name in NVS, and   *)
(* a name makes a station.                                                  *)
LEMMA BootIInv ==
  ASSUME IInv, Boot, UNCHANGED <<row, wire, onAir, ssid, pass, build>>,
         ack' \in BOOLEAN, ack' => Whole /\ ssid # NoConfig
  PROVE  IInv'
<1>1. build.menu \in Maybe
    BY ConstantsAssumption DEF IInv, Types, Maybe
<1>2. joined' \in Maybe \X Maybe /\ (ssid # NoConfig => joined'[1] = ssid)
    BY <1>1 DEF IInv, Types, Boot, Load
<1>3. Types'
    BY <1>2 DEF IInv, Types, Boot, row, Maybe
<1>4. Talking' /\ Writing'
    BY DEF Boot, Talking, Writing
<1>5. Marked'
    BY <1>2 DEF Boot, Marked, AckIsTruthful, Whole
<1> QED BY <1>3, <1>4, <1>5 DEF IInv

LEMMA SendIInv == ASSUME IInv, Send PROVE IInv'
<1>1. wire' \in Seq(BOOLEAN) /\ Len(wire') = Len(wire) + 1 /\ wire'[Len(wire')] = ack
    BY AppendProperties DEF IInv, Types, Send
<1>2. Len(wire') <= MaxWire /\ wire' # <<>>
    BY <1>1, ConstantsAssumption, LenProperties DEF IInv, Types, Send
<1>3. Types'
    BY <1>1, <1>2 DEF IInv, Types, Send, row, nvs
<1> QED BY <1>1, <1>2, <1>3
        DEF IInv, Send, Talking, Writing, Marked, AckIsTruthful, Whole, Stored, nvs

LEMMA HeartbeatIInv ==
  ASSUME IInv, NEW i \in DOMAIN wire, Heartbeat(i)
  PROVE  IInv'
<1>1. i \in 1..Len(wire) /\ wire \in Seq(BOOLEAN) /\ Len(wire) \in Nat /\ Len(wire) <= MaxWire
    BY LenProperties DEF IInv, Types
<1>2. /\ wire' \in Seq(BOOLEAN) /\ Len(wire') = Len(wire) - 1
      /\ i # Len(wire) => Len(wire) > 1 /\ wire'[Len(wire) - 1] = wire[Len(wire)]
    BY <1>1, Removed DEF Heartbeat
<1>3. Len(wire') <= MaxWire
    BY <1>1, <1>2, ConstantsAssumption
<1>4. i # Len(wire) => wire' # <<>> /\ wire'[Len(wire')] = wire[Len(wire)]
    <2> SUFFICES ASSUME i # Len(wire) PROVE wire' # <<>> /\ wire'[Len(wire')] = wire[Len(wire)]
        OBVIOUS
    <2>1. Len(wire') > 0
        BY <1>1, <1>2
    <2> QED BY <1>2, <2>1
<1>5. wire[i] \in BOOLEAN
    BY <1>1, ElementOfSeq
<1>6. Types'
    BY <1>2, <1>3, <1>5 DEF IInv, Types, Heartbeat, Answer, nvs, display, Maybe
<1>7. CASE task = "sent" /\ i = Len(wire)
    <2>1. wire[i] = ack /\ asked = ack /\ task' = "reply"
        BY <1>7 DEF IInv, Talking, Heartbeat, Answer
    <2>2. target' # NoConfig => ~ack
        BY <1>7, <2>1 DEF Heartbeat, Answer
    <2> QED BY <1>6, <1>7, <2>1, <2>2
            DEF IInv, Heartbeat, Talking, Writing, Marked, AckIsTruthful, Whole, nvs, display
<1>8. CASE ~(task = "sent" /\ i = Len(wire))
    <2>1. UNCHANGED <<task, target, asked, ack, ssid, pass, mode>>
        BY <1>8 DEF Heartbeat, Answer, nvs, display
    <2>2. task = "sent" => wire' # <<>> /\ wire'[Len(wire')] = ack
        BY <1>4, <1>8 DEF IInv, Talking
    <2> QED BY <1>6, <2>1, <2>2
            DEF IInv, Talking, Writing, Marked, AckIsTruthful, Whole, Stored
<1> QED BY <1>7, <1>8

LEMMA SendFailsIInv == ASSUME IInv, SendFails PROVE IInv'
<1>1. wire' \in Seq(BOOLEAN) /\ Len(wire') <= MaxWire
    <2>1. CASE wire' = wire
        BY <2>1 DEF IInv, Types
    <2>2. CASE task = "sent" /\ wire' = Front(wire)
        <3>1. wire \in Seq(BOOLEAN) /\ Len(wire) \in Nat /\ Len(wire) > 0 /\ Len(wire) <= MaxWire
            BY <2>2, LenProperties, EmptySeq DEF IInv, Types, Talking
        <3>2. wire' = SubSeq(wire, 1, Len(wire) - 1)
            BY <2>2 DEF Front
        <3>3. CASE Len(wire) = 1
            BY <3>1, <3>2, <3>3, SubSeqEmpty, ConstantsAssumption
        <3>4. CASE Len(wire) > 1
            BY <3>1, <3>2, <3>4, SubSeqProperties, ConstantsAssumption
        <3>5. \A n \in Nat : n > 0 => n = 1 \/ n > 1
            OBVIOUS
        <3>6. Len(wire) = 1 \/ Len(wire) > 1
            BY <3>1, <3>5, Zenon
        <3> QED BY <3>3, <3>4, <3>6
    <2>3. wire' = wire \/ (task = "sent" /\ wire' = Front(wire))
        BY Zenon DEF SendFails
    <2> QED BY <2>1, <2>2, <2>3
<1>2. Types'
    BY <1>1 DEF IInv, Types, SendFails, row, nvs, display, Maybe
<1> QED BY <1>2
        DEF IInv, SendFails, Talking, Writing, Marked, AckIsTruthful, Whole, nvs, display

(* Every other step of the saving handlers: what is not cited is unchanged. *)
LEMMA SaveIInv ==
  ASSUME IInv, Save \/ AckStays \/ WriteFails
  PROVE  IInv'
<1>1. CASE ReplyWithout \/ AckStays
    <2>1. /\ task' = "idle" /\ target' = target
          /\ UNCHANGED <<row, wire, onAir, ssid, pass, build, display, asked>>
        BY <1>1 DEF ReplyWithout, AckStays, nvs
    <2>2. ack' \in BOOLEAN
        BY <1>1 DEF ReplyWithout, AckStays, nvs, IInv, Types
    <2>3. ack' => ack
        BY <1>1, Zenon DEF ReplyWithout, AckStays, nvs
    <2>4. Types'
        BY <2>1, <2>2 DEF IInv, Types, row, display
    <2>5. Talking' /\ Writing'
        BY <2>1 DEF Talking, Writing
    <2>6. Marked'
        BY <2>1, <2>3, Zenon DEF IInv, Marked, AckIsTruthful, Whole, display
    <2> QED BY <2>4, <2>5, <2>6 DEF IInv
<1>2. CASE ReplyRejected
    <2>1. /\ task' = "idle" /\ target' = NoConfig
          /\ UNCHANGED <<row, wire, onAir, nvs, build, display, asked>>
        BY <1>2 DEF ReplyRejected
    <2> QED BY <2>1 DEF IInv, Types, Talking, Writing, Marked, AckIsTruthful, Whole, Maybe,
                        row, nvs, display
<1>3. CASE ReplyWith
    <2>1. target \in Config \ TooLong /\ target # NoConfig /\ task = "reply"
        BY <1>3, ConstantsAssumption DEF ReplyWith, WriteSsid
    <2>2. ~ack /\ mode = "station"
        BY <2>1 DEF IInv, Talking
    <2> QED BY <1>3, <2>1, <2>2
            DEF IInv, Types, Talking, Writing, Marked, AckIsTruthful, Whole, Maybe,
                ReplyWith, WriteSsid, row, display
<1>4. CASE WritePass
    <2>1. ~ack /\ ssid = target /\ target \in Config \ TooLong
        BY <1>4 DEF IInv, Writing, WritePass
    <2>2. /\ pass' = target /\ task' \in {"pushMark", "idle", "restart"}
          /\ (task' = "pushMark" => task = "pushPass")
          /\ UNCHANGED <<row, wire, onAir, ssid, ack, build, display, asked, target>>
        BY <1>4 DEF WritePass
    <2> QED BY <2>1, <2>2
            DEF IInv, Types, Talking, Writing, Marked, AckIsTruthful, Whole, Stored, Maybe,
                row, display
<1>5. CASE WriteFails
    <2>1. ~ack /\ target \in Config \ TooLong
        BY <1>5 DEF IInv, Writing, WriteFails
    <2> QED BY <1>5, <2>1
            DEF IInv, Types, Talking, Writing, Marked, AckIsTruthful, Whole, Maybe,
                WriteFails, row, display
<1>6. CASE MarkApplied
    <2>1. ~ack /\ Stored(target) /\ target # NoConfig
        BY <1>6, ConstantsAssumption DEF IInv, Writing, MarkApplied
    <2>2. ack' \in BOOLEAN /\ (ack' => Whole /\ ssid # NoConfig)
        BY <1>6, <2>1 DEF MarkApplied, Whole, Stored, IInv, Types
    <2> QED BY <1>6, <2>2, BootIInv DEF MarkApplied
<1>7. CASE Restart
    <2>1. ack' \in BOOLEAN /\ (ack' => Whole /\ ssid # NoConfig)
        BY <1>7 DEF Restart, nvs, IInv, Types, Marked, AckIsTruthful
    <2> QED BY <1>7, <2>1, BootIInv DEF Restart, nvs
<1> QED BY <1>1, <1>2, <1>3, <1>4, <1>5, <1>6, <1>7 DEF Save

LEMMA NextIInv == IInv /\ [Next]_vars => IInv'
<1> SUFFICES ASSUME IInv, [Next]_vars PROVE IInv'
    OBVIOUS
<1>1. CASE Owner
    <2>1. ASSUME NEW c \in Config, SetWifiConfig(c) \/ StartBroadcast(c) \/ EndBroadcast(c)
          PROVE  IInv'
        <3>1. /\ pending' \in BOOLEAN /\ want' \in Maybe /\ known' \in BOOLEAN
              /\ onAir' \subseteq Config
              /\ UNCHANGED <<wire, nvs, build, ram>>
            BY <2>1 DEF SetWifiConfig, StartBroadcast, EndBroadcast, row, IInv, Types, Maybe
        <3> QED BY <3>1 DEF IInv, Types, Talking, Writing, Marked, AckIsTruthful, Whole,
                            Stored, nvs, ram
    <2>2. ASSUME NEW c \in Config, NEW held \in Config, SubmitForm(c, held)
          PROVE  IInv'
        BY <2>2 DEF IInv, Types, Talking, Writing, Marked, AckIsTruthful, Whole, Maybe,
                    SubmitForm, WriteSsid, row, display
    <2>3. CASE Register
        BY <2>3 DEF IInv, Types, Talking, Writing, Marked, AckIsTruthful, Whole, Stored,
                    Register, nvs, ram
    <2> QED BY <1>1, <2>1, <2>2, <2>3 DEF Owner
<1>2. CASE Exchange
    BY <1>2, SendIInv, HeartbeatIInv DEF Exchange
<1>3. CASE Save
    BY <1>3, SaveIInv
<1>4. CASE ListenTimeout \/ ListenDies
    BY <1>4 DEF IInv, Types, Talking, Writing, Marked, AckIsTruthful, Whole, Stored,
                ListenTimeout, ListenDies, row, nvs
<1>5. CASE Rounds
    <2>1. CASE RoundEnds
        BY <2>1 DEF IInv, Types, Talking, Writing, Marked, AckIsTruthful, Whole, Stored,
                    RoundEnds, row, nvs
    <2>2. CASE SleepAndWake
        <3>1. ack' \in BOOLEAN /\ (ack' => Whole /\ ssid # NoConfig)
            BY <2>2 DEF SleepAndWake, nvs, IInv, Types, Marked, AckIsTruthful
        <3> QED BY <2>2, <3>1, BootIInv DEF SleepAndWake, nvs
    <2>3. CASE PollAgain
        BY <2>3 DEF IInv, Types, Talking, Writing, Marked, AckIsTruthful, Whole, Stored,
                    PollAgain, row, nvs
    <2> QED BY <1>5, <2>1, <2>2, <2>3 DEF Rounds
<1>6. CASE Failure
    <2>1. CASE PowerLoss
        <3>1. ack' \in BOOLEAN /\ (ack' => Whole /\ ssid # NoConfig)
            BY <2>1 DEF PowerLoss, nvs, IInv, Types, Marked, AckIsTruthful
        <3> QED BY <2>1, <3>1, BootIInv DEF PowerLoss, nvs
    <2> QED BY <1>4, <1>6, <2>1, SendFailsIInv, SaveIInv DEF Failure
<1>7. ASSUME NEW c \in Config, HearBroadcast(c) PROVE IInv'
    BY <1>7 DEF IInv, Types, Talking, Writing, Marked, AckIsTruthful, Whole, Maybe,
                HearBroadcast, WriteSsid, row, display
<1>8. CASE UNCHANGED vars
    BY <1>8 DEF IInv, Types, Talking, Writing, Marked, AckIsTruthful, Whole, Stored, vars
<1> QED BY <1>1, <1>2, <1>3, <1>4, <1>5, <1>6, <1>7, <1>8 DEF Next

-----------------------------------------------------------------------------
(* The restarts.  One is still due while a configuration the owner pushed  *)
(* may be delivered or is being written, and it is paid for in advance.    *)

Numbers == owner \in 0..MaxOwner /\ faults \in 0..MaxFaults /\ restarts \in Nat

Due ==
  \/ pending /\ (~ack \/ task = "reply")
  \/ task = "reply" /\ target # NoConfig
  \/ task \in {"pushPass", "pushMark"}

Paid == restarts <= owner + faults /\ (Due => restarts < owner + faults)

LEMMA InitPaid == Init => Numbers /\ Paid
BY ConstantsAssumption DEF Init, Numbers, Paid, Due

LEMMA MoreFaults ==
  ASSUME Numbers, UNCHANGED <<owner, restarts>>, faults' \in Nat, faults <= faults'
  PROVE  /\ restarts <= owner + faults => restarts' <= owner' + faults'
         /\ restarts < owner + faults => restarts' < owner' + faults'
<1>1. owner \in Nat /\ faults \in Nat /\ restarts \in Nat
    BY ConstantsAssumption DEF Numbers
<1>2. \A o, f, g, r \in Nat : /\ r <= o + f /\ f <= g => r <= o + g
                              /\ r < o + f /\ f <= g => r < o + g
    OBVIOUS
<1> QED BY <1>1, <1>2

LEMMA OneMoreFault ==
  ASSUME Numbers, UNCHANGED <<owner, restarts>>, faults' = faults + 1
  PROVE  restarts <= owner + faults => restarts' < owner' + faults'
BY DEF Numbers

(* What neither restarts nor makes a restart due leaves it paid.           *)
LEMMA KeepsPaid ==
  ASSUME Numbers, Paid, UNCHANGED <<owner, restarts>>,
         UNCHANGED faults \/ Fault, Due' => Due \/ Fault
  PROVE  Numbers' /\ Paid'
<1>1. CASE Fault
    <2>1. faults' = faults + 1 /\ faults' \in 0..MaxFaults /\ faults' \in Nat
        BY <1>1, ConstantsAssumption DEF Fault, Numbers
    <2>2. faults <= faults'
        BY <2>1 DEF Numbers
    <2>3. Numbers'
        BY <2>1 DEF Numbers
    <2>4. restarts' <= owner' + faults' /\ restarts' < owner' + faults'
        BY <2>1, <2>2, MoreFaults, OneMoreFault, Zenon DEF Paid
    <2> QED BY <2>3, <2>4, Zenon DEF Paid
<1>2. CASE UNCHANGED faults /\ ~Fault
    BY <1>2, Zenon DEF Numbers, Paid
<1> QED BY <1>1, <1>2

LEMMA NextPaid ==
  ASSUME IInv, Numbers, Paid, [Next]_vars
  PROVE  Numbers' /\ Paid'
<1>1. CASE Owner
    <2>1. ASSUME Enter, UNCHANGED <<faults, restarts>>
          PROVE  Numbers' /\ Paid'
        <3>1. owner' \in 0..MaxOwner /\ owner' = owner + 1
            BY <2>1, ConstantsAssumption DEF Enter, Numbers
        <3>2. restarts' < owner' + faults'
            BY <2>1, <3>1 DEF Numbers, Paid
        <3> QED BY <2>1, <3>1, <3>2 DEF Numbers, Paid
    <2>2. ASSUME NEW c \in Config, SetWifiConfig(c) \/ StartBroadcast(c)
          PROVE  Numbers' /\ Paid'
        BY <2>1, <2>2 DEF SetWifiConfig, StartBroadcast
    <2>3. ASSUME NEW c \in Config, EndBroadcast(c)
          PROVE  Numbers' /\ Paid'
        BY <2>3, KeepsPaid DEF EndBroadcast, row, nvs, ram, bounds, Due
    <2>4. ASSUME NEW c \in Config, NEW held \in Config, SubmitForm(c, held)
          PROVE  Numbers' /\ Paid'
        BY <2>1, <2>4 DEF SubmitForm
    <2>5. CASE Register
        BY <2>5, KeepsPaid DEF Register, nvs, ram, bounds, Due
    <2> QED BY <1>1, <2>2, <2>3, <2>4, <2>5 DEF Owner
<1>2. CASE Send
    <2>1. Due' => Due
        BY <1>2 DEF Send, row, nvs, Due
    <2> QED BY <1>2, <2>1, KeepsPaid DEF Send, bounds
<1>3. ASSUME NEW i \in DOMAIN wire, Heartbeat(i)
      PROVE  Numbers' /\ Paid'
    <2>1. pending' => pending
        BY <1>3, Zenon DEF Heartbeat
    <2>2. ack' = ack
        BY <1>3 DEF Heartbeat, nvs
    <2>3. CASE task = "sent" /\ i = Len(wire)
        <3>1. wire[i] = ack /\ task' = "reply"
            BY <1>3, <2>3 DEF Heartbeat, Answer, IInv, Talking
        <3>2. pending' => pending /\ ~ack
            BY <1>3, <3>1, Zenon DEF Heartbeat
        <3>3. target' # NoConfig => pending'
            BY <1>3, <2>3 DEF Heartbeat, Answer
        <3>4. Due' => Due
            BY <3>1, <3>2, <3>3 DEF Due
        <3> QED BY <1>3, <3>4, KeepsPaid DEF Heartbeat, bounds
    <2>4. CASE ~(task = "sent" /\ i = Len(wire))
        <3>1. UNCHANGED <<task, target>>
            BY <1>3, <2>4 DEF Heartbeat, Answer
        <3>2. Due' => Due
            BY <2>1, <2>2, <3>1 DEF Due
        <3> QED BY <1>3, <3>2, KeepsPaid DEF Heartbeat, bounds
    <2> QED BY <2>3, <2>4
<1>4. CASE ReplyWithout
    <2>1. pending' = pending /\ task = "reply" /\ task' = "idle"
        BY <1>4 DEF ReplyWithout, row
    <2>2. Due' => Due
        BY <2>1 DEF Due
    <2> QED BY <1>4, <2>2, KeepsPaid DEF ReplyWithout, bounds
<1>5. CASE ReplyRejected
    <2>1. Due' => Due
        BY <1>5 DEF ReplyRejected, row, nvs, Due
    <2> QED BY <1>5, <2>1, KeepsPaid DEF ReplyRejected, bounds
<1>6. CASE ReplyWith
    <2>1. Due
        BY <1>6, ConstantsAssumption DEF ReplyWith, WriteSsid, Due
    <2> QED BY <1>6, <2>1, KeepsPaid DEF ReplyWith, bounds
<1>7. CASE WritePass
    <2>1. Due' => Due
        BY <1>7 DEF WritePass, row, Due
    <2> QED BY <1>7, <2>1, KeepsPaid DEF WritePass, bounds
<1>8. CASE MarkApplied
    <2>1. restarts < owner + faults /\ restarts' = restarts + 1 /\ owner' = owner
        BY <1>8 DEF MarkApplied, Paid, Due
    <2>2. CASE ack' = TRUE /\ UNCHANGED faults
        <3>1. ~Due'
            BY <1>8, <2>2 DEF MarkApplied, Boot, Due
        <3> QED BY <2>1, <2>2, <3>1 DEF Numbers, Paid
    <2>3. CASE Fault
        <3>1. faults' \in 0..MaxFaults /\ faults' = faults + 1
            BY <2>3, ConstantsAssumption DEF Fault, Numbers
        <3> QED BY <2>1, <3>1 DEF Numbers, Paid
    <2> QED BY <1>8, <2>2, <2>3 DEF MarkApplied
<1>9. CASE Restart \/ SleepAndWake
    <2>1. /\ Boot /\ UNCHANGED <<pending, ack, owner, faults, restarts>>
        BY <1>9 DEF Restart, SleepAndWake, row, nvs, bounds
    <2>2. Due' => Due
        BY <2>1 DEF Boot, Due
    <2> QED BY <2>1, <2>2, KeepsPaid
<1>10. CASE Failure
    <2>1. Fault
        BY <1>10, Zenon DEF Failure, SendFails, AckStays, WriteFails, ListenDies, PowerLoss
    <2>2. UNCHANGED <<owner, restarts>>
        BY <1>10 DEF Failure, SendFails, AckStays, WriteFails, ListenDies, PowerLoss
    <2> QED BY <2>1, <2>2, KeepsPaid, Zenon
<1>11. CASE ListenTimeout \/ RoundEnds
    <2>1. /\ UNCHANGED <<owner, restarts, pending, ack, task, target>>
          /\ UNCHANGED faults \/ Fault
        BY <1>11 DEF ListenTimeout, RoundEnds, row, nvs
    <2>2. Due' => Due
        BY <2>1 DEF Due
    <2> QED BY <2>1, <2>2, KeepsPaid
<1>12. CASE PollAgain
    BY <1>12, KeepsPaid DEF PollAgain, row, nvs, bounds, Due
<1>13. ASSUME NEW c \in Config, HearBroadcast(c)
       PROVE  Numbers' /\ Paid'
    <2>1. Due' => Due
        BY <1>13 DEF HearBroadcast, WriteSsid, row, Due
    <2> QED BY <1>13, <2>1, KeepsPaid DEF HearBroadcast, bounds
<1>14. CASE UNCHANGED vars
    BY <1>14, KeepsPaid DEF vars, Due
<1> QED BY <1>1, <1>2, <1>3, <1>4, <1>5, <1>6, <1>7, <1>8, <1>9, <1>10, <1>11, <1>12,
           <1>13, <1>14 DEF Next, Exchange, Save, Rounds

-----------------------------------------------------------------------------
(* The theorems.                                                            *)

LEMMA Inductive == Spec => [](IInv /\ Numbers /\ Paid)
<1>1. IInv /\ Numbers /\ Paid /\ [Next]_vars => (IInv /\ Numbers /\ Paid)'
    BY NextIInv, NextPaid
<1> QED BY InitIInv, InitPaid, <1>1, PTL DEF Spec

(* Whatever the owner, the air, the server and the power do, the row, the  *)
(* wire, NVS and the device's tasks keep their types, and no more requests *)
(* are waiting than the server accepts.                                    *)
THEOREM TypeCorrect == Spec => []TypeOK
<1>1. IInv /\ Numbers => TypeOK
    BY Bounded, ConstantsAssumption DEF IInv, Types, Numbers, TypeOK
<1> QED BY Inductive, <1>1, PTL

(* applied_ack in NVS always means complete credentials in NVS             *)
(* (device_client.c:177-179).                                              *)
THEOREM AckMeansApplied == Spec => []AckIsTruthful
<1>1. IInv => AckIsTruthful
    BY DEF IInv, Marked
<1> QED BY Inductive, <1>1, PTL

(* Every restart for a pushed configuration is paid for by a configuration *)
(* the owner entered or by a failure: no configuration, and no confirmation *)
(* that is lost or late, restarts the device for ever.                     *)
THEOREM RestartsArePaid == Spec => []RestartsBounded
<1>1. Paid => RestartsBounded
    BY DEF Paid, RestartsBounded
<1> QED BY Inductive, <1>1, PTL
=============================================================================

--------------------------- MODULE SettingsProofs ----------------------------
(* What the configuration file keeps, for any folders, places, workers and  *)
(* numbers of changes and crashes.                                          *)
EXTENDS Settings, TLAPS

-----------------------------------------------------------------------------
(* Types.                                                                   *)

Bindings == Folders \cup {None}
LoopPatches == {Binding(f) : f \in Bindings} \cup {Pick(f) : f \in Bindings}
AllPatches == Patches \cup LoopPatches

Clearing == [pc |-> "clear"]
Clearing2 == [pc |-> "originals"]
Follow == [pc : {"segments", "answer"}, old : Folders, new : Bindings]
ThreadNexts == {Idle, Clearing}
LoopNexts == {Idle} \cup Follow
Nexts == ThreadNexts \cup LoopNexts

Checks == [pc : {"check"}, patch : Patches]
Loads == [pc : {"load"}, patch : AllPatches, next : Nexts]
Helds == [pc : {"held", "open"}, patch : AllPatches, data : Confs, stale : SUBSET Keys,
          over : BOOLEAN, next : Nexts]
Picks == [pc : {"pick"}, old : Folders, new : Bindings]
Fetches == [pc : {"fetch"}, loc : Locs]
Draws == [pc : {"original", "frame"}, loc : Locs, place : Places]

ThreadSaves == {s \in Loads \cup Helds : s.patch \in Patches /\ s.next \in ThreadNexts}
LoopSaves == {s \in Loads \cup Helds : s.patch \in LoopPatches /\ s.next \in LoopNexts}

ThreadStates == {Idle, Clearing, Clearing2} \cup Checks \cup ThreadSaves
LoopStates == {Idle} \cup Picks \cup Follow \cup Fetches \cup Draws \cup LoopSaves
StatesOf(p) == IF p = Loop THEN LoopStates ELSE ThreadStates

Running == proc \in [Procs -> LoopStates \cup ThreadStates] /\ \A p \in Procs : proc[p] \in StatesOf(p)

Frames == [Locs -> [place : Places \cup {NoPlace}, fresh : BOOLEAN]]
Origs == [Locs -> Places \cup {NoPlace}]
Files == /\ conf \in Confs /\ meant \in Confs /\ lost \subseteq Keys
         /\ frame \in Frames /\ orig \in Origs
Numbers == changes \in 0..MaxChanges /\ crashes \in 0..MaxCrashes

(* A key and its value is of the keys a configuration has.                  *)
LEMMA PatchKinds ==
  ASSUME NEW patch \in AllPatches
  PROVE  \/ patch.key = "binding" /\ patch.value \in Bindings
         \/ patch.key = "pick" /\ patch.value \in Bindings
         \/ patch.key = "place" /\ patch.value \in Places
BY DEF AllPatches, Patches, LoopPatches, Binding, Pick, Place, Bindings

LEMMA Patched ==
  ASSUME NEW c \in Confs, NEW patch \in AllPatches
  PROVE  /\ With(c, patch) \in Confs /\ patch.key \in Keys
         /\ With(c, patch)[patch.key] = patch.value
         /\ \A k \in Keys \ {patch.key} : With(c, patch)[k] = c[k]
<1>1. CASE patch.key = "binding" /\ patch.value \in Bindings
    <2>1. With(c, patch) = [c EXCEPT !.binding = patch.value]
        BY <1>1 DEF With
    <2> QED BY <1>1, <2>1 DEF Confs, Bindings, Keys
<1>2. CASE patch.key = "pick" /\ patch.value \in Bindings
    <2>1. With(c, patch) = [c EXCEPT !.pick = patch.value]
        BY <1>2 DEF With
    <2> QED BY <1>2, <2>1 DEF Confs, Bindings, Keys
<1>3. CASE patch.key = "place" /\ patch.value \in Places
    <2>1. With(c, patch) = [c EXCEPT !.place = patch.value]
        BY <1>3 DEF With
    <2> QED BY <1>3, <2>1 DEF Confs, Bindings, Keys
<1> QED BY <1>1, <1>2, <1>3, PatchKinds

-----------------------------------------------------------------------------
(* The invariant.                                                           *)

Saves == {"load", "held", "open"}

(* What a save at s that has read the file will write, m being meant and lo *)
(* lost: its own key, and under the others what was meant.                  *)
Carries(s, m, lo) ==
  s.pc \in {"held", "open"} =>
    /\ s.data[s.patch.key] = s.patch.value
    /\ \A k \in Keys \ (lo \cup s.stale \cup {s.patch.key}) : s.data[k] = m[k]
    /\ s.pc = "held" => ~s.over

Kept == /\ Emptied => conf = Empty
        /\ ~Emptied => \A k \in Keys \ lost : conf[k] = meant[k]
        /\ \A p \in Procs : Carries(proc[p], meant, lost)

(* Of the loop at l: the pick, or the segments, are still to be rewritten   *)
(* (Early), or being saved, and f is the old name.                          *)
PickDue(l, f) == \/ l.pc = "pick" /\ f = l.old
                 \/ l.pc \in Saves /\ l.next.pc = "segments" /\ f = l.next.old
Early(l, f) == PickDue(l, f) \/ (l.pc = "segments" /\ f = l.old)
Due(l, f) == Early(l, f) \/ (l.pc \in Saves /\ l.next.pc = "answer" /\ f = l.next.old)

(* With the names g gone, the loop never writes one,                        *)
LoopSound(l, g) ==
  /\ l.pc \in {"pick", "segments"} => l.new \notin g
  /\ l.pc \in Saves => /\ l.patch.value \notin g
                       /\ l.next.pc = "segments" => l.next.new \notin g /\ l.patch.key = "pick"
                       /\ l.next.pc = "answer" => l.patch.key = "binding"

(* a thread at s only one whose segments are still to be rewritten, and     *)
ThreadSound(s, l, g) ==
  s.pc \in Saves /\ s.patch.key = "binding" /\ s.patch.value \in g => Early(l, s.patch.value)

(* what is meant names only one that is still to be rewritten.              *)
MeantSound(m, lo, l, g) ==
  /\ m.pick \in g => "pick" \in lo \/ PickDue(l, m.pick)
  /\ m.binding \in g => "binding" \in lo \/ Due(l, m.binding)

Folder == /\ folders \subseteq Folders /\ rows \subseteq Folders /\ gone \subseteq Folders
          /\ gone \cap (folders \cup rows) = {}
Names == /\ LoopSound(proc[Loop], gone)
         /\ \A t \in Threads : ThreadSound(proc[t], proc[Loop], gone)
         /\ MeantSound(meant, lost, proc[Loop], gone)

IInv == Running /\ Files /\ Numbers /\ Kept /\ Folder /\ Names

LEMMA InitIInv == Init => IInv
<1> SUFFICES ASSUME Init PROVE IInv
    OBVIOUS
<1>1. Numbers
    BY SettingsAssumption DEF Init, Numbers
<1>2. conf \in Confs
    <2>1. folders \subseteq Folders /\ rows \subseteq Folders
        BY DEF Init
    <2> QED BY <2>1, SettingsAssumption DEF Init, Confs
<1>3. Files
    BY <1>2 DEF Init, Files, NoFrame, Frames, Origs
<1>4. Running
    BY DEF Init, Running, LoopStates, ThreadStates, StatesOf
<1>5. Loop \in Procs /\ \A p \in Procs : proc[p] = Idle
    BY DEF Init, Procs
<1>6. Kept
    BY <1>5 DEF Init, Kept, Emptied, Carries, Idle
<1>7. Folder
    BY DEF Init, Folder
<1>8. Names
    BY <1>5 DEF Init, Names, LoopSound, ThreadSound, MeantSound, Idle, Saves, Procs
<1> QED BY <1>1, <1>3, <1>4, <1>6, <1>7, <1>8 DEF IInv

-----------------------------------------------------------------------------
(* Which states there are.                                                  *)

LEMMA Members == Loop \in Procs /\ (\A t \in Threads : t \in Procs /\ t # Loop)
                 /\ \A p \in Procs : p = Loop \/ p \in Threads
BY SettingsAssumption DEF Procs

LEMMA SaveTypes ==
  ASSUME IInv, NEW p \in Procs, proc[p].pc \in Saves
  PROVE  /\ proc[p].patch \in AllPatches /\ proc[p].next \in Nexts
         /\ p = Loop => proc[p] \in LoopSaves
         /\ p # Loop => proc[p] \in ThreadSaves
         /\ proc[p].pc = "load" => proc[p] \in Loads
         /\ proc[p].pc \in {"held", "open"} => proc[p] \in Helds
<1>1. p = Loop => proc[p] \in LoopSaves
    BY DEF IInv, Running, StatesOf, LoopStates, Idle, Picks, Follow, Fetches, Draws, Saves
<1>2. p # Loop => proc[p] \in ThreadSaves
    BY DEF IInv, Running, StatesOf, ThreadStates, Idle, Clearing, Clearing2, Checks, Saves
<1>3. proc[p] \in Loads \cup Helds
    BY <1>1, <1>2 DEF LoopSaves, ThreadSaves
<1> QED BY <1>1, <1>2, <1>3 DEF Loads, Helds, Saves

LEMMA LoopAt ==
  ASSUME IInv
  PROVE  /\ proc[Loop].pc = "pick" => proc[Loop] \in Picks
         /\ proc[Loop].pc \in {"segments", "answer"} => proc[Loop] \in Follow
         /\ proc[Loop].pc = "fetch" => proc[Loop] \in Fetches
         /\ proc[Loop].pc \in {"original", "frame"} => proc[Loop] \in Draws
<1>1. proc[Loop] \in LoopStates
    BY Members DEF IInv, Running, StatesOf
<1>2. \A s \in LoopSaves : s.pc \in Saves
    BY DEF LoopSaves, Loads, Helds, Saves
<1> QED BY <1>1, <1>2 DEF LoopStates, Idle, Picks, Follow, Fetches, Draws, Saves

-----------------------------------------------------------------------------
(* One goes on, and does not write the file.                                *)

LEMMA GoesOn ==
  ASSUME IInv, NEW p \in Procs, NEW s, s \in StatesOf(p), Goes(p, s),
         proc[p].pc \notin {"held", "open"}, s.pc \notin {"held", "open"},
         UNCHANGED <<conf, meant, lost>>, frame' \in Frames, orig' \in Origs,
         NoChange \/ Change,
         Folder',
         p = Loop => /\ LoopSound(s, gone')
                     /\ \A t \in Threads : ThreadSound(proc[t], s, gone')
                     /\ MeantSound(meant, lost, s, gone'),
         p # Loop => gone' = gone /\ ThreadSound(s, proc[Loop], gone)
  PROVE  IInv'
<1>1. proc'[p] = s /\ \A q \in Procs \ {p} : proc'[q] = proc[q]
    BY DEF IInv, Running, Goes
<1>2. Running'
    <2>1. s \in LoopStates \cup ThreadStates
        BY DEF StatesOf
    <2>2. proc' \in [Procs -> LoopStates \cup ThreadStates]
        BY <2>1 DEF IInv, Running, Goes
    <2>3. \A q \in Procs : proc'[q] \in StatesOf(q)
        BY <1>1 DEF IInv, Running
    <2> QED BY <2>2, <2>3 DEF Running
<1>3. Files'
    BY DEF IInv, Files
<1>4. Numbers'
    BY SettingsAssumption DEF NoChange, Change, IInv, Numbers
<1>5. Emptied' <=> Emptied
    BY <1>1 DEF Emptied
<1>6. \A q \in Procs : Carries(proc'[q], meant, lost)
    BY <1>1 DEF IInv, Kept, Carries
<1>7. Kept'
    BY <1>5, <1>6 DEF IInv, Kept
<1>8. Names'
    <2>1. CASE p = Loop
        BY <1>1, <2>1, Members DEF Names
    <2>2. CASE p # Loop
        <3>1. proc'[Loop] = proc[Loop]
            BY <1>1, <2>2, Members
        <3>2. \A t \in Threads : ThreadSound(proc'[t], proc[Loop], gone)
            BY <1>1, <2>2, Members DEF IInv, Names
        <3> QED BY <2>2, <3>1, <3>2 DEF IInv, Names
    <2> QED BY <2>1, <2>2
<1> QED BY <1>2, <1>3, <1>4, <1>7, <1>8 DEF IInv

-----------------------------------------------------------------------------
(* A save.                                                                  *)

(* The same save at another step is followed by the same.                   *)
LEMMA SameSave ==
  ASSUME NEW s, NEW r, s.pc \in Saves, r.pc \in Saves, r.patch = s.patch, r.next = s.next,
         NEW g
  PROVE  /\ LoopSound(s, g) => LoopSound(r, g)
         /\ \A t : ThreadSound(t, s, g) => ThreadSound(t, r, g)
         /\ \A l : ThreadSound(s, l, g) => ThreadSound(r, l, g)
         /\ \A m, lo : MeantSound(m, lo, s, g) => MeantSound(m, lo, r, g)
<1>1. \A f : /\ PickDue(s, f) <=> PickDue(r, f)
             /\ Early(s, f) <=> Early(r, f)
             /\ Due(s, f) <=> Due(r, f)
    BY DEF PickDue, Early, Due, Saves
<1> QED BY <1>1 DEF LoopSound, ThreadSound, MeantSound, Saves

LEMMA SaveGoesOn ==
  ASSUME IInv, NEW p \in Procs, NEW s \in Helds, Goes(p, s),
         proc[p].pc \in Saves, s.patch = proc[p].patch, s.next = proc[p].next,
         UNCHANGED <<meant, lost, folders, rows, gone>>
  PROVE  Running' /\ Names'
<1>1. proc'[p] = s /\ \A q \in Procs \ {p} : proc'[q] = proc[q]
    BY DEF IInv, Running, Goes
<1>2. s.pc \in Saves
    BY DEF Helds, Saves
<1>3. s \in StatesOf(p)
    BY SaveTypes DEF StatesOf, LoopSaves, ThreadSaves, LoopStates, ThreadStates
<1>4. Running'
    <2>1. s \in LoopStates \cup ThreadStates
        BY <1>3 DEF StatesOf
    <2>2. proc' \in [Procs -> LoopStates \cup ThreadStates]
        BY <2>1 DEF IInv, Running, Goes
    <2>3. \A q \in Procs : proc'[q] \in StatesOf(q)
        BY <1>1, <1>3 DEF IInv, Running
    <2> QED BY <2>2, <2>3 DEF Running
<1>5. CASE p = Loop
    <2>1. proc'[Loop] = s /\ \A t \in Threads : proc'[t] = proc[t]
        BY <1>1, <1>5, Members
    <2>2. /\ LoopSound(s, gone) /\ MeantSound(meant, lost, s, gone)
          /\ \A t \in Threads : ThreadSound(proc[t], s, gone)
        BY <1>2, <1>5, SameSave DEF IInv, Names
    <2> QED BY <1>4, <2>1, <2>2 DEF Names
<1>6. CASE p # Loop
    <2>1. proc'[Loop] = proc[Loop]
        BY <1>1, <1>6, Members
    <2>2. ThreadSound(s, proc[Loop], gone)
        BY <1>2, <1>6, SameSave, Members DEF IInv, Names
    <2>3. \A t \in Threads : ThreadSound(proc'[t], proc[Loop], gone)
        BY <1>1, <2>2, Members DEF IInv, Names
    <2> QED BY <1>4, <2>1, <2>3 DEF IInv, Names
<1> QED BY <1>5, <1>6

LEMMA LoadStep == ASSUME IInv, NEW p \in Procs, Load(p) PROVE IInv'
<1> DEFINE st == IF Emptied THEN Keys ELSE {}
           s == [pc |-> "held", patch |-> proc[p].patch, data |-> Held(p), stale |-> st,
                 over |-> FALSE, next |-> proc[p].next]
<1>1. /\ proc[p].pc = "load" /\ Goes(p, s)
      /\ UNCHANGED <<changes, crashes, files, names, cache>>
    BY DEF Load, NoChange
<1>2. proc[p].patch \in AllPatches /\ proc[p].next \in Nexts
    BY <1>1, SaveTypes DEF Saves
<1>3. conf \in Confs
    BY DEF IInv, Files
<1>4. s \in Helds
    BY <1>2, <1>3, Patched DEF Helds, Held
<1>5. s.pc = "held" /\ s.patch = proc[p].patch /\ s.next = proc[p].next /\ ~s.over
      /\ s.data = With(conf, s.patch) /\ s.stale = st
    BY DEF Held
<1> HIDE DEF s
<1>6. Running' /\ Names'
    BY <1>1, <1>4, <1>5, SaveGoesOn DEF Saves, files, names
<1>7. proc'[p] = s /\ \A q \in Procs \ {p} : proc'[q] = proc[q]
    BY <1>1 DEF IInv, Running, Goes
<1>8. Emptied' <=> Emptied
    BY <1>1, <1>5, <1>7 DEF Emptied
<1>9. Carries(s, meant, lost)
    <2>1. s.data[s.patch.key] = s.patch.value
        BY <1>2, <1>3, <1>5, Patched
    <2>2. ASSUME NEW k \in Keys \ (lost \cup s.stale \cup {s.patch.key})
          PROVE  s.data[k] = meant[k]
        <3>1. ~Emptied
            BY <1>5, <2>2
        <3>2. conf[k] = meant[k]
            BY <2>2, <3>1 DEF IInv, Kept
        <3>3. With(conf, s.patch)[k] = conf[k]
            BY <1>2, <1>3, <1>5, <2>2, Patched
        <3> QED BY <1>5, <3>2, <3>3
    <2> QED BY <1>5, <2>1, <2>2 DEF Carries
<1>10. Kept'
    <2>1. \A q \in Procs : Carries(proc'[q], meant, lost)
        BY <1>7, <1>9 DEF IInv, Kept
    <2> QED BY <1>1, <1>8, <2>1 DEF IInv, Kept, files
<1> QED BY <1>1, <1>6, <1>10
        DEF IInv, Files, Numbers, Folder, files, names, cache

LEMMA OpenStep == ASSUME IInv, NEW p \in Procs, Open(p) PROVE IInv'
<1> DEFINE s == [proc[p] EXCEPT !.pc = "open"]
<1>1. /\ proc[p].pc = "held" /\ Goes(p, s) /\ conf' = Empty
      /\ UNCHANGED <<changes, crashes, names, cache, meant, lost>>
    BY DEF Open, NoChange
<1>2. proc[p] \in Helds
    BY <1>1, SaveTypes DEF Saves
<1>3. /\ s \in Helds /\ s.pc = "open" /\ s.patch = proc[p].patch /\ s.next = proc[p].next
      /\ s.data = proc[p].data /\ s.stale = proc[p].stale /\ s.over = proc[p].over
    BY <1>2 DEF Helds
<1> HIDE DEF s
<1>4. Running' /\ Names'
    BY <1>1, <1>3, SaveGoesOn DEF Saves, names
<1>5. proc'[p] = s /\ \A q \in Procs \ {p} : proc'[q] = proc[q]
    BY <1>1 DEF IInv, Running, Goes
<1>6. Carries(proc[p], meant, lost)
    BY DEF IInv, Kept
<1>7. ~s.over
    BY <1>1, <1>3, <1>6 DEF Carries
<1>8. Emptied'
    BY <1>3, <1>5, <1>7 DEF Emptied
<1>9. Carries(s, meant, lost)
    BY <1>1, <1>3, <1>6 DEF Carries
<1>10. \A q \in Procs : Carries(proc'[q], meant, lost)
    BY <1>5, <1>9 DEF IInv, Kept
<1>11. Kept'
    BY <1>1, <1>8, <1>10 DEF Kept
<1>12. Empty \in Confs
    BY SettingsAssumption DEF Empty, Confs
<1> QED BY <1>1, <1>4, <1>11, <1>12 DEF IInv, Files, Numbers, Folder, names, cache

(* What a save that was overtaken remembers.                                *)
LEMMA OvertakenState ==
  ASSUME IInv, NEW q \in Procs, NEW key \in Keys
  PROVE  LET s == proc[q]
             r == Overtaken(s, key)
         IN /\ r \in StatesOf(q) /\ r.pc = s.pc
            /\ r.pc = "open" => r.over
            /\ s.pc \in Saves => r.patch = s.patch /\ r.next = s.next
            /\ s.pc \notin {"held", "open"} => r = s
            /\ s.pc \in {"held", "open"} => r.data = s.data /\ r.stale = s.stale \cup {key}
            /\ s.pc = "held" => r.over = s.over
<1> DEFINE s == proc[q]
           r == Overtaken(s, key)
<1>0. s \in StatesOf(q)
    BY DEF IInv, Running
<1>1. CASE s.pc \notin {"held", "open"}
    <2>1. r = s
        BY <1>1 DEF Overtaken
    <2> QED BY <1>0, <1>1, <2>1 DEF Saves
<1>2. CASE s.pc = "held"
    <2>1. s \in Helds
        BY <1>2, SaveTypes DEF Saves
    <2>2. r = [s EXCEPT !.stale = s.stale \cup {key}]
        BY <1>2 DEF Overtaken
    <2>3. /\ r \in Helds /\ r.pc = "held" /\ r.patch = s.patch /\ r.next = s.next
          /\ r.data = s.data /\ r.stale = s.stale \cup {key} /\ r.over = s.over
        <3> HIDE DEF s, r
        <3> QED BY <1>2, <2>1, <2>2 DEF Helds
    <2>4. r \in StatesOf(q)
        <3>1. q = Loop => s \in LoopSaves
            BY <1>2, SaveTypes DEF Saves
        <3>2. q # Loop => s \in ThreadSaves
            BY <1>2, SaveTypes DEF Saves
        <3> HIDE DEF s, r
        <3> QED BY <2>3, <3>1, <3>2 DEF StatesOf, LoopSaves, ThreadSaves, LoopStates, ThreadStates
    <2> QED BY <1>2, <2>3, <2>4 DEF Saves
<1>3. CASE s.pc = "open"
    <2>1. s \in Helds
        BY <1>3, SaveTypes DEF Saves
    <2>2. r = [s EXCEPT !.stale = s.stale \cup {key}, !.over = TRUE]
        BY <1>3 DEF Overtaken
    <2>3. /\ r \in Helds /\ r.pc = "open" /\ r.patch = s.patch /\ r.next = s.next
          /\ r.data = s.data /\ r.stale = s.stale \cup {key} /\ r.over
        <3> HIDE DEF s, r
        <3> QED BY <1>3, <2>1, <2>2 DEF Helds
    <2>4. r \in StatesOf(q)
        <3>1. q = Loop => s \in LoopSaves
            BY <1>3, SaveTypes DEF Saves
        <3>2. q # Loop => s \in ThreadSaves
            BY <1>3, SaveTypes DEF Saves
        <3> HIDE DEF s, r
        <3> QED BY <2>3, <3>1, <3>2 DEF StatesOf, LoopSaves, ThreadSaves, LoopStates, ThreadStates
    <2> QED BY <1>3, <2>3, <2>4 DEF Saves
<1> QED BY <1>1, <1>2, <1>3

(* The written key is well, those it overtook are lost, the others of the   *)
(* other saves are overtaken by it.                                         *)
LEMMA WriteStep == ASSUME IInv, NEW p \in Procs, Write(p) PROVE IInv'
<1> DEFINE s == proc[p]
           key == s.patch.key
           n == s.next
<1>1. s.pc = "open" /\ UNCHANGED <<changes, crashes, names, cache>>
    BY DEF Write, NoChange
<1>2. /\ s \in Helds /\ s.patch \in AllPatches /\ s.data \in Confs /\ s.stale \subseteq Keys
      /\ n \in Nexts
    BY <1>1, SaveTypes DEF Saves, Helds
<1>3. /\ meant' = With(meant, s.patch)
      /\ proc' = [q \in Procs |-> IF q = p THEN n ELSE Overtaken(proc[q], key)]
      /\ \/ conf' = s.data /\ lost' = (lost \cup s.stale) \ {key}
         \/ conf' = Empty /\ lost' = Keys
    BY DEF Write
<1>4. meant \in Confs /\ lost \subseteq Keys
    BY DEF IInv, Files
<1>5. /\ meant' \in Confs /\ key \in Keys /\ meant'[key] = s.patch.value
      /\ \A k \in Keys \ {key} : meant'[k] = meant[k]
    BY <1>2, <1>3, <1>4, Patched
<1>6. proc'[p] = n /\ \A q \in Procs \ {p} : proc'[q] = Overtaken(proc[q], key)
    BY <1>3
<1>7. n \in StatesOf(p) /\ n.pc \in {"idle", "clear", "segments", "answer"}
    <2>1. p = Loop => n \in LoopNexts
        BY <1>1, SaveTypes DEF Saves, LoopSaves
    <2>2. p # Loop => n \in ThreadNexts
        BY <1>1, SaveTypes DEF Saves, ThreadSaves
    <2> HIDE DEF n
    <2> QED BY <2>1, <2>2 DEF StatesOf, LoopNexts, ThreadNexts, LoopStates, ThreadStates, Idle,
                              Clearing, Follow
<1>8. Files'
    BY <1>1, <1>2, <1>3, <1>4, <1>5, SettingsAssumption DEF IInv, Files, Empty, Confs, cache
<1>9. Folder' /\ Numbers'
    BY <1>1 DEF IInv, Folder, Numbers, names
<1>10. Running'
    <2>1. \A q \in Procs : proc'[q] \in StatesOf(q)
        BY <1>5, <1>6, <1>7, OvertakenState
    <2>2. proc' \in [Procs -> LoopStates \cup ThreadStates]
        BY <1>3, <2>1 DEF StatesOf
    <2> QED BY <2>1, <2>2 DEF Running
<1>11. ~Emptied'
    <2>1. \A q \in Procs \ {p} : proc'[q].pc = "open" => proc'[q].over
        BY <1>5, <1>6, OvertakenState
    <2> QED BY <1>6, <1>7, <2>1 DEF Emptied
<1>12. lost \ {key} \subseteq lost'
    BY <1>3, <1>4
<1>13. \A k \in Keys \ lost' : conf'[k] = meant'[k]
    <2>1. Carries(s, meant, lost)
        BY DEF IInv, Kept
    <2>2. CASE conf' = s.data /\ lost' = (lost \cup s.stale) \ {key}
        <3> HIDE DEF s
        <3> QED BY <1>1, <1>5, <2>1, <2>2 DEF Carries
    <2>3. CASE lost' = Keys
        BY <2>3
    <2> QED BY <1>3, <2>2, <2>3
<1>14. ASSUME NEW q \in Procs PROVE Carries(proc'[q], meant', lost')
    <2>1. CASE q = p
        BY <1>6, <1>7, <2>1 DEF Carries
    <2>2. CASE q # p
        <3> DEFINE o == proc[q]
                   r == Overtaken(o, key)
        <3>1. /\ r.pc = o.pc /\ (o.pc \in Saves => r.patch = o.patch)
              /\ o.pc \in {"held", "open"} => r.data = o.data /\ r.stale = o.stale \cup {key}
              /\ o.pc = "held" => r.over = o.over
            BY <1>5, OvertakenState
        <3>2. Carries(o, meant, lost) /\ proc'[q] = r
            BY <1>6, <2>2 DEF IInv, Kept
        <3> HIDE DEF o, r
        <3>3. ASSUME o.pc \in {"held", "open"}
              PROVE  /\ r.data[r.patch.key] = r.patch.value
                     /\ \A k \in Keys \ (lost' \cup r.stale \cup {r.patch.key}) :
                          r.data[k] = meant'[k]
            BY <1>5, <1>12, <3>1, <3>2, <3>3 DEF Carries, Saves
        <3> QED BY <3>1, <3>2, <3>3 DEF Carries
    <2> QED BY <2>1, <2>2
<1>15. Kept'
    BY <1>11, <1>13, <1>14 DEF Kept
<1>16. gone' = gone
    BY <1>1 DEF names
<1>17. \A k \in Keys \ {key} : k \in lost => k \in lost'
    BY <1>12
<1>18. Names'
    <2>1. CASE p = Loop
        <3>1. LoopSound(s, gone) /\ MeantSound(meant, lost, s, gone)
            BY <2>1 DEF IInv, Names
        <3>2. s.patch \in LoopPatches /\ n \in LoopNexts
            BY <1>1, <2>1, SaveTypes DEF Saves, LoopSaves
        <3>3. s.pc \in Saves /\ s.patch.value \notin gone /\ s.patch.key \in {"pick", "binding"}
            BY <1>1, <3>1, <3>2 DEF LoopSound, Saves, LoopPatches, Binding, Pick
        <3>4. n \in Follow \/ n = Idle
            BY <3>2 DEF LoopNexts
        <3>5. LoopSound(n, gone)
            BY <1>7, <3>1, <3>3, <3>4 DEF LoopSound, Saves, Idle
        <3>6. \A f : Early(s, f) <=> Early(n, f)
            BY <1>1, <1>7, <3>3, <3>4 DEF Early, PickDue, Saves
        <3>7. \A t \in Threads : ThreadSound(proc'[t], n, gone)
            <4> SUFFICES ASSUME NEW t \in Threads PROVE ThreadSound(proc'[t], n, gone)
                OBVIOUS
            <4>1. /\ proc'[t].pc = proc[t].pc
                  /\ proc[t].pc \in Saves => proc'[t].patch = proc[t].patch
                BY <1>5, <1>6, <2>1, Members, OvertakenState
            <4>2. ThreadSound(proc[t], s, gone)
                BY <2>1 DEF IInv, Names
            <4> QED BY <3>6, <4>1, <4>2 DEF ThreadSound
        <3>8. MeantSound(meant', lost', n, gone)
            <4>1. CASE key = "pick"
                <5>1. meant'.pick \notin gone /\ meant'.binding = meant.binding
                    BY <1>5, <3>3, <4>1 DEF Keys
                <5>2. \A f : Due(s, f) => Due(n, f)
                    <6>1. n.pc # "answer"
                        BY <3>1, <3>3, <4>1 DEF LoopSound
                    <6> QED BY <3>3, <3>6, <6>1 DEF Due
                <5>3. "binding" \in lost => "binding" \in lost'
                    BY <1>17, <4>1 DEF Keys
                <5> QED BY <3>1, <5>1, <5>2, <5>3 DEF MeantSound
            <4>2. CASE key = "binding"
                <5>1. meant'.binding \notin gone /\ meant'.pick = meant.pick
                    BY <1>5, <3>3, <4>2 DEF Keys
                <5>2. \A f : ~PickDue(s, f)
                    <6>1. n.pc # "segments"
                        BY <3>1, <3>3, <4>2 DEF LoopSound
                    <6> QED BY <1>1, <6>1 DEF PickDue
                <5>3. "pick" \in lost => "pick" \in lost'
                    BY <1>17, <4>2 DEF Keys
                <5> QED BY <3>1, <5>1, <5>2, <5>3 DEF MeantSound
            <4> QED BY <3>3, <4>1, <4>2
        <3>9. proc'[Loop] = n
            BY <1>6, <2>1
        <3> HIDE DEF n
        <3> QED BY <1>16, <3>5, <3>7, <3>8, <3>9 DEF Names
    <2>2. CASE p # Loop
        <3> DEFINE l == proc[Loop]
                   r == Overtaken(l, key)
        <3>1. proc'[Loop] = r /\ r.pc = l.pc
              /\ (l.pc \in Saves => r.patch = l.patch /\ r.next = l.next)
              /\ (l.pc \notin Saves => r = l)
            BY <1>5, <1>6, <2>2, Members, OvertakenState DEF Saves
        <3>2. /\ LoopSound(l, gone) /\ MeantSound(meant, lost, l, gone)
              /\ \A t \in Threads : ThreadSound(proc[t], l, gone)
            BY DEF IInv, Names
        <3>3. s.patch \in Patches
            BY <1>1, <2>2, SaveTypes DEF Saves, ThreadSaves
        <3>4. ThreadSound(s, l, gone)
            BY <2>2, <3>2, Members
        <3> HIDE DEF l, r
        <3>5. /\ \A f : (Early(l, f) <=> Early(r, f)) /\ (Due(l, f) <=> Due(r, f))
                        /\ (PickDue(l, f) <=> PickDue(r, f))
              /\ LoopSound(r, gone)
            <4>1. CASE l.pc \in Saves
                BY <3>1, <3>2, <4>1 DEF Early, Due, PickDue, LoopSound, Saves
            <4>2. CASE l.pc \notin Saves
                BY <3>1, <3>2, <4>2
            <4> QED BY <4>1, <4>2
        <3>6. \A t \in Threads : ThreadSound(proc'[t], r, gone)
            <4> SUFFICES ASSUME NEW t \in Threads PROVE ThreadSound(proc'[t], r, gone)
                OBVIOUS
            <4>1. CASE t = p
                BY <1>6, <1>7, <4>1 DEF ThreadSound, Saves
            <4>2. CASE t # p
                <5>1. /\ proc'[t].pc = proc[t].pc
                      /\ proc[t].pc \in Saves => proc'[t].patch = proc[t].patch
                    BY <1>5, <1>6, <4>2, Members, OvertakenState
                <5>2. ThreadSound(proc[t], l, gone)
                    BY <3>2
                <5> QED BY <3>5, <5>1, <5>2 DEF ThreadSound
            <4> QED BY <4>1, <4>2
        <3>7. key \in {"binding", "place"}
            BY <3>3 DEF Patches, Binding, Place
        <3>8. meant'.pick = meant.pick /\ ("pick" \in lost => "pick" \in lost')
            BY <1>5, <1>17, <3>7 DEF Keys
        <3>9. meant'.binding \in gone => "binding" \in lost' \/ Due(r, meant'.binding)
            <4>1. CASE key = "binding"
                <5>1. meant'.binding = s.patch.value
                    BY <1>5, <4>1
                <5>2. meant'.binding \in gone => Early(l, meant'.binding)
                    BY <1>1, <3>4, <4>1, <5>1 DEF ThreadSound, Saves
                <5> QED BY <3>5, <5>2 DEF Due
            <4>2. CASE key = "place"
                <5>1. meant'.binding = meant.binding /\ ("binding" \in lost => "binding" \in lost')
                    BY <1>5, <1>17, <4>2 DEF Keys
                <5> QED BY <3>2, <3>5, <5>1 DEF MeantSound
            <4> QED BY <3>7, <4>1, <4>2
        <3>10. MeantSound(meant', lost', r, gone)
            BY <3>2, <3>5, <3>8, <3>9 DEF MeantSound
        <3> QED BY <1>16, <3>1, <3>5, <3>6, <3>10 DEF Names
    <2> QED BY <2>1, <2>2
<1> QED BY <1>8, <1>9, <1>10, <1>15, <1>18 DEF IInv

LEMMA SaveStep == ASSUME IInv, NEW p \in Procs, Save(p) PROVE IInv'
BY LoadStep, OpenStep, WriteStep DEF Save

-----------------------------------------------------------------------------
(* Every other step.                                                        *)

(* A state that follows no folder and saves nothing is sound beside         *)
(* another such.                                                            *)
LEMMA Calm ==
  ASSUME NEW s, NEW r, s.pc \notin Saves \cup {"pick", "segments"},
         r.pc \notin Saves \cup {"pick", "segments"}, NEW g
  PROVE  /\ LoopSound(r, g)
         /\ \A t : ThreadSound(t, s, g) => ThreadSound(t, r, g)
         /\ \A l : ThreadSound(r, l, g)
         /\ \A m, lo : MeantSound(m, lo, s, g) => MeantSound(m, lo, r, g)
<1>1. \A f : ~PickDue(s, f) /\ ~Early(s, f) /\ ~Due(s, f)
    BY DEF PickDue, Early, Due
<1> QED BY <1>1 DEF LoopSound, ThreadSound, MeantSound

LEMMA ThreadStep == ASSUME IInv, NEW t \in Threads, Thread(t) PROVE IInv'
<1>0. /\ t \in Procs /\ t # Loop /\ proc[t] \in ThreadStates /\ StatesOf(t) = ThreadStates
      /\ frame \in Frames /\ orig \in Origs /\ Folder
    BY Members DEF IInv, Running, StatesOf, Files
<1>1. ASSUME NEW s \in ThreadStates, Goes(t, s), proc[t].pc \notin {"held", "open"},
             s.pc \notin {"held", "open"}, UNCHANGED <<files, names>>, NoChange,
             frame' \in Frames, orig' \in Origs, ThreadSound(s, proc[Loop], gone)
      PROVE  IInv'
    <2>1. Folder'
        BY <1>0, <1>1 DEF Folder, names
    <2>2. UNCHANGED <<conf, meant, lost, gone>>
        BY <1>1 DEF files, names
    <2> QED BY <1>0, <1>1, <2>1, <2>2, GoesOn
<1>2. CASE Check(t)
    <2> DEFINE patch == proc[t].patch
               s == Saving(patch, AfterSaving(patch))
    <2>1. proc[t].pc = "check" /\ UNCHANGED <<files, names, cache>> /\ NoChange
        BY <1>2 DEF Check
    <2>2. proc[t] \in Checks
        BY <1>0, <2>1 DEF ThreadStates, Idle, Clearing, Clearing2, ThreadSaves, Loads, Helds
    <2>3. patch \in Patches /\ patch \in AllPatches
        BY <2>2 DEF Checks, AllPatches
    <2>4. frame' \in Frames /\ orig' \in Origs
        BY <1>0, <2>1 DEF cache
    <2>5. CASE patch.key = "binding" /\ patch.value \notin folders \cup rows \cup {None}
        <3>1. Goes(t, Idle)
            BY <1>2, <2>5 DEF Check
        <3>2. Idle \in ThreadStates /\ Idle.pc = "idle"
            BY DEF ThreadStates, Idle
        <3>3. ThreadSound(Idle, proc[Loop], gone)
            BY <3>2 DEF ThreadSound, Saves
        <3> QED BY <1>1, <2>1, <2>4, <3>1, <3>2, <3>3
    <2>6. CASE ~(patch.key = "binding" /\ patch.value \notin folders \cup rows \cup {None})
        <3>1. Goes(t, s)
            BY <1>2, <2>6 DEF Check
        <3>2. AfterSaving(patch) \in ThreadNexts
            BY DEF AfterSaving, ThreadNexts, Clearing
        <3>3. s \in ThreadSaves /\ s.pc = "load" /\ s.patch = patch
            BY <2>3, <3>2 DEF Saving, ThreadSaves, Loads, Nexts
        <3>4. s \in ThreadStates
            BY <3>3 DEF ThreadStates
        <3>5. patch.key = "binding" => patch.value \notin gone
            BY <1>0, <2>6, SettingsAssumption DEF Folder
        <3> HIDE DEF s
        <3>6. ThreadSound(s, proc[Loop], gone)
            BY <3>3, <3>5 DEF ThreadSound
        <3> QED BY <1>1, <2>1, <2>4, <3>1, <3>3, <3>4, <3>6
    <2> QED BY <2>5, <2>6
<1>3. CASE ClearFrames(t)
    <2>1. /\ Goes(t, Clearing2) /\ proc[t].pc = "clear" /\ NoChange
          /\ UNCHANGED <<files, names, orig>> /\ frame' = [l \in Locs |-> NoFrame]
        BY <1>3 DEF ClearFrames, Clearing2
    <2>2. Clearing2 \in ThreadStates /\ Clearing2.pc = "originals"
        BY DEF ThreadStates, Clearing2
    <2>3. frame' \in Frames
        BY <2>1 DEF Frames, NoFrame
    <2>4. ThreadSound(Clearing2, proc[Loop], gone)
        BY <2>2 DEF ThreadSound, Saves
    <2> QED BY <1>0, <1>1, <2>1, <2>2, <2>3, <2>4
<1>4. CASE ClearOriginals(t)
    <2>1. /\ Goes(t, Idle) /\ proc[t].pc = "originals" /\ NoChange
          /\ UNCHANGED <<files, names, frame>> /\ orig' = [l \in Locs |-> NoPlace]
        BY <1>4 DEF ClearOriginals
    <2>2. Idle \in ThreadStates /\ Idle.pc = "idle"
        BY DEF ThreadStates, Idle
    <2>3. orig' \in Origs
        BY <2>1 DEF Origs
    <2>4. ThreadSound(Idle, proc[Loop], gone)
        BY <2>2 DEF ThreadSound, Saves
    <2> QED BY <1>0, <1>1, <2>1, <2>2, <2>3, <2>4
<1>5. CASE Save(t)
    BY <1>0, <1>5, SaveStep
<1> QED BY <1>2, <1>3, <1>4, <1>5 DEF Thread

(* The two rewritings after a folder was renamed or removed.  Unless they   *)
(* are blind the file says what is meant, and no thread is about to bind a  *)
(* segment to the old name.                                                 *)
LEMMA NotBlind ==
  ASSUME IInv, NEW old, ~Blind(old), proc[Loop].pc \notin {"held", "open"}
  PROVE  ~Emptied /\ \A k \in Keys \ lost : conf[k] = meant[k]
<1>1. \A p \in Procs : proc[p].pc # "open"
    BY Members DEF Blind
<1> QED BY <1>1 DEF Emptied, IInv, Kept

LEMMA RewriteStep == ASSUME IInv, RewritePick \/ Rebind PROVE IInv'
<1> DEFINE l == proc[Loop]
<1>1. /\ l.pc \in {"pick", "segments"} /\ l.pc \notin {"held", "open"}
      /\ Rewritten(l.old)
    BY DEF RewritePick, Rebind
<1>2. l \in Picks \cup Follow
    BY <1>1, LoopAt
<1>3. l.old \in Folders /\ l.new \in Bindings
    BY <1>2 DEF Picks, Follow
<1>4. /\ LoopSound(l, gone) /\ MeantSound(meant, lost, l, gone) /\ Folder
      /\ \A t \in Threads : ThreadSound(proc[t], l, gone)
    BY DEF IInv, Names
<1>5. /\ UNCHANGED <<conf, meant, lost, folders, rows, frame, orig>> /\ NoChange
      /\ gone' \subseteq gone /\ (l.old \in gone' => ~Blind(l.old))
    BY <1>1 DEF Rewritten, files, cache
<1>6. Folder' /\ frame' \in Frames /\ orig' \in Origs /\ l.new \notin gone'
    BY <1>1, <1>4, <1>5 DEF Folder, LoopSound, IInv, Files
<1>7. ASSUME NEW s \in LoopStates, Goes(Loop, s), s.pc \notin {"held", "open"},
             LoopSound(s, gone'), \A t \in Threads : ThreadSound(proc[t], s, gone'),
             MeantSound(meant, lost, s, gone')
      PROVE  IInv'
    <2>1. Loop \in Procs /\ s \in StatesOf(Loop)
        BY <1>7, Members DEF StatesOf
    <2> QED BY <1>1, <1>5, <1>6, <1>7, <2>1, GoesOn
<1>8. "pick" \in Keys /\ "binding" \in Keys
    BY DEF Keys
<1>9. CASE RewritePick
    <2> DEFINE g == [l EXCEPT !.pc = "segments"]
               s == Saving(Pick(l.new), g)
    <2>1. l \in Picks /\ l.pc = "pick"
        BY <1>9, LoopAt DEF RewritePick
    <2>2. g \in Follow /\ g.pc = "segments" /\ g.old = l.old /\ g.new = l.new
        BY <2>1 DEF Picks, Follow
    <2>3. Goes(Loop, IF conf.pick = l.old THEN s ELSE g)
        BY <1>9 DEF RewritePick
    <2>4. Pick(l.new) \in LoopPatches /\ Pick(l.new).key = "pick" /\ Pick(l.new).value = l.new
        BY <1>3 DEF LoopPatches, Pick
    <2> HIDE DEF g
    <2>5. s \in LoopSaves /\ s.pc = "load" /\ s.patch = Pick(l.new) /\ s.next = g
        BY <2>2, <2>4 DEF Saving, LoopSaves, Loads, LoopNexts, Nexts, AllPatches
    <2> HIDE DEF s
    <2>6. s \in LoopStates /\ g \in LoopStates
        BY <2>2, <2>5 DEF LoopStates
    <2>7. /\ \A f : PickDue(l, f) => f = l.old
          /\ \A f : Early(l, f) => f = l.old
          /\ \A f : Due(l, f) => f = l.old
        BY <2>1 DEF PickDue, Early, Due, Saves
    <2> HIDE DEF l
    <2>8. CASE conf.pick = l.old
        <3>1. PickDue(s, l.old) /\ Early(s, l.old) /\ Due(s, l.old)
            BY <2>2, <2>5 DEF PickDue, Early, Due, Saves
        <3>2. LoopSound(s, gone')
            BY <1>6, <2>2, <2>4, <2>5 DEF LoopSound, Saves
        <3>3. \A t \in Threads : ThreadSound(proc[t], s, gone')
            BY <1>4, <1>5, <2>7, <3>1 DEF ThreadSound
        <3>4. MeantSound(meant, lost, s, gone')
            BY <1>4, <1>5, <2>7, <3>1 DEF MeantSound
        <3> QED BY <1>7, <2>3, <2>5, <2>6, <2>8, <3>2, <3>3, <3>4
    <2>9. CASE conf.pick # l.old
        <3>1. Early(g, l.old) /\ Due(g, l.old)
            BY <2>2 DEF PickDue, Early, Due, Saves
        <3>2. LoopSound(g, gone')
            BY <1>6, <2>2 DEF LoopSound, Saves
        <3>3. \A t \in Threads : ThreadSound(proc[t], g, gone')
            BY <1>4, <1>5, <2>7, <3>1 DEF ThreadSound
        <3>4. meant.pick \in gone' => "pick" \in lost
            <4> SUFFICES ASSUME meant.pick \in gone', "pick" \notin lost PROVE FALSE
                OBVIOUS
            <4>1. meant.pick = l.old
                BY <1>4, <1>5, <2>7 DEF MeantSound
            <4>2. conf.pick = meant.pick
                BY <1>1, <1>5, <1>8, <4>1, NotBlind DEF l
            <4> QED BY <2>9, <4>1, <4>2
        <3>5. MeantSound(meant, lost, g, gone')
            BY <1>4, <1>5, <2>7, <3>1, <3>4 DEF MeantSound
        <3> QED BY <1>7, <2>2, <2>3, <2>6, <2>9, <3>2, <3>3, <3>5
    <2> QED BY <2>8, <2>9
<1>10. CASE Rebind
    <2> DEFINE g == [l EXCEPT !.pc = "answer"]
               s == Saving(Binding(l.new), g)
    <2>1. l \in Follow /\ l.pc = "segments"
        BY <1>10, LoopAt DEF Rebind
    <2>2. g \in Follow /\ g.pc = "answer" /\ g.old = l.old /\ g.new = l.new
        BY <2>1 DEF Follow
    <2>3. Goes(Loop, IF conf.binding = l.old THEN s ELSE g)
        BY <1>10 DEF Rebind
    <2>4. /\ Binding(l.new) \in LoopPatches
          /\ Binding(l.new).key = "binding" /\ Binding(l.new).value = l.new
        BY <1>3 DEF LoopPatches, Binding
    <2> HIDE DEF g
    <2>5. s \in LoopSaves /\ s.pc = "load" /\ s.patch = Binding(l.new) /\ s.next = g
        BY <2>2, <2>4 DEF Saving, LoopSaves, Loads, LoopNexts, Nexts, AllPatches
    <2> HIDE DEF s
    <2>6. s \in LoopStates /\ g \in LoopStates
        BY <2>2, <2>5 DEF LoopStates
    <2>7. /\ \A f : ~PickDue(l, f)
          /\ \A f : Early(l, f) => f = l.old
          /\ \A f : Due(l, f) => f = l.old
        BY <2>1 DEF PickDue, Early, Due, Saves
    <2>8. \A t \in Threads : ~(/\ proc[t].pc \in Saves /\ proc[t].patch.key = "binding"
                               /\ proc[t].patch.value \in gone')
        <3> SUFFICES ASSUME NEW t \in Threads, proc[t].pc \in Saves,
                            proc[t].patch.key = "binding", proc[t].patch.value \in gone'
                     PROVE  FALSE
            OBVIOUS
        <3>1. proc[t].patch.value = l.old
            BY <1>4, <1>5, <2>7 DEF ThreadSound
        <3>2. proc[t].patch \in Patches
            BY Members, SaveTypes DEF ThreadSaves
        <3>3. proc[t].patch = Binding(l.old)
            BY <3>1, <3>2 DEF Patches, Binding, Place
        <3> QED BY <1>5, <3>1, <3>3 DEF Blind, Saves
    <2>9. \A r : \A t \in Threads : ThreadSound(proc[t], r, gone')
        BY <2>8 DEF ThreadSound
    <2> HIDE DEF l
    <2>10. meant.pick \in gone' => "pick" \in lost
        BY <1>4, <1>5, <2>7 DEF MeantSound
    <2>11. CASE conf.binding = l.old
        <3>1. Due(s, l.old)
            BY <2>2, <2>5 DEF PickDue, Early, Due, Saves
        <3>2. LoopSound(s, gone')
            BY <1>6, <2>2, <2>4, <2>5 DEF LoopSound, Saves
        <3>3. MeantSound(meant, lost, s, gone')
            BY <1>4, <1>5, <2>7, <2>10, <3>1 DEF MeantSound
        <3> QED BY <1>7, <2>3, <2>5, <2>6, <2>9, <2>11, <3>2, <3>3
    <2>12. CASE conf.binding # l.old
        <3>1. LoopSound(g, gone')
            BY <1>6, <2>2 DEF LoopSound, Saves
        <3>2. meant.binding \in gone' => "binding" \in lost
            <4> SUFFICES ASSUME meant.binding \in gone', "binding" \notin lost PROVE FALSE
                OBVIOUS
            <4>1. meant.binding = l.old
                BY <1>4, <1>5, <2>7 DEF MeantSound
            <4>2. conf.binding = meant.binding
                BY <1>1, <1>5, <1>8, <4>1, NotBlind DEF l
            <4> QED BY <2>12, <4>1, <4>2
        <3>3. MeantSound(meant, lost, g, gone')
            BY <2>10, <3>2 DEF MeantSound
        <3> QED BY <1>7, <2>2, <2>3, <2>6, <2>9, <2>12, <3>1, <3>3
    <2> QED BY <2>11, <2>12
<1> QED BY <1>9, <1>10

(* The answer, and the weather card.                                        *)
LEMMA CardStep ==
  ASSUME IInv, Answer \/ Render \/ Fetch \/ WriteOriginal \/ WriteFrame
  PROVE  IInv'
<1> DEFINE l == proc[Loop]
<1>0. Idle \in LoopStates /\ Idle.pc = "idle" /\ Loop \in Procs /\ StatesOf(Loop) = LoopStates
    BY Members DEF LoopStates, Idle, StatesOf
<1>1. conf.place \in Places /\ conf.place.loc \in Locs
    BY DEF IInv, Files, Confs, Locs
<1>2. frame \in Frames /\ orig \in Origs /\ Folder
    BY DEF IInv, Files
<1>3. UNCHANGED <<files, names>> /\ NoChange
    BY DEF Answer, Render, Fetch, WriteOriginal, WriteFrame
<1>4. ASSUME NEW s \in LoopStates, Goes(Loop, s), frame' \in Frames, orig' \in Origs,
             l.pc \in {"idle", "answer", "fetch", "original", "frame"},
             s.pc \in {"idle", "fetch", "original", "frame"}
      PROVE  IInv'
    <2>1. UNCHANGED <<conf, meant, lost, gone, folders, rows>>
        BY <1>3 DEF files, names
    <2>2. Folder'
        BY <1>2, <2>1 DEF Folder
    <2>3. /\ LoopSound(s, gone) /\ MeantSound(meant, lost, s, gone)
          /\ \A t \in Threads : ThreadSound(proc[t], s, gone)
        <3>1. /\ MeantSound(meant, lost, l, gone)
              /\ \A t \in Threads : ThreadSound(proc[t], l, gone)
            BY DEF IInv, Names
        <3>2. l.pc \notin Saves \cup {"pick", "segments"} /\ s.pc \notin Saves \cup {"pick", "segments"}
            BY <1>4 DEF Saves
        <3> HIDE DEF l
        <3> QED BY <3>1, <3>2, Calm
    <2>4. l.pc \notin {"held", "open"} /\ s.pc \notin {"held", "open"}
        BY <1>4
    <2> QED BY <1>0, <1>3, <1>4, <2>1, <2>2, <2>3, <2>4, GoesOn
<1>5. CASE Answer
    <2>1. Goes(Loop, Idle) /\ l.pc = "answer" /\ UNCHANGED <<frame, orig>>
        BY <1>5 DEF Answer, cache
    <2> QED BY <1>0, <1>2, <1>4, <2>1
<1>6. CASE Render
    <2> DEFINE s == [pc |-> "fetch", loc |-> conf.place.loc]
    <2>1. s \in LoopStates /\ s.pc = "fetch"
        BY <1>1 DEF LoopStates, Fetches
    <2>2. Goes(Loop, s) /\ l = Idle /\ UNCHANGED <<frame, orig>>
        BY <1>6 DEF Render, cache
    <2> HIDE DEF s
    <2> QED BY <1>0, <1>2, <1>4, <2>1, <2>2
<1>7. CASE Fetch
    <2> DEFINE s == [pc |-> "original", loc |-> l.loc, place |-> conf.place]
    <2>1. l \in Fetches /\ l.pc = "fetch"
        BY <1>7, LoopAt DEF Fetch
    <2>2. s \in LoopStates /\ s.pc = "original"
        BY <1>1, <2>1 DEF LoopStates, Fetches, Draws
    <2>3. (Goes(Loop, s) \/ Goes(Loop, Idle)) /\ UNCHANGED <<frame, orig>>
        BY <1>7 DEF Fetch, cache
    <2> HIDE DEF s
    <2> QED BY <1>0, <1>2, <1>4, <2>1, <2>2, <2>3
<1>8. CASE WriteOriginal
    <2> DEFINE s == [l EXCEPT !.pc = "frame"]
    <2>1. l \in Draws /\ l.pc = "original"
        BY <1>8, LoopAt DEF WriteOriginal
    <2>2. s \in LoopStates /\ s.pc = "frame" /\ l.place \in Places
        BY <2>1 DEF LoopStates, Draws
    <2>3. Goes(Loop, s) /\ UNCHANGED frame /\ orig' = [orig EXCEPT ![l.loc] = l.place]
        BY <1>8 DEF WriteOriginal
    <2> HIDE DEF s
    <2>4. orig' \in Origs
        BY <1>2, <2>2, <2>3 DEF Origs
    <2> QED BY <1>2, <1>4, <2>1, <2>2, <2>3, <2>4
<1>9. CASE WriteFrame
    <2>1. l \in Draws /\ l.pc = "frame" /\ l.place \in Places
        BY <1>9, LoopAt DEF WriteFrame, Draws
    <2>2. /\ Goes(Loop, Idle) /\ UNCHANGED orig
          /\ frame' = [frame EXCEPT ![l.loc] = [place |-> l.place, fresh |-> TRUE]]
        BY <1>9 DEF WriteFrame
    <2>3. frame' \in Frames
        BY <1>2, <2>1, <2>2 DEF Frames
    <2> QED BY <1>0, <1>2, <1>4, <2>1, <2>2, <2>3
<1> QED BY <1>5, <1>6, <1>7, <1>8, <1>9

(* What the owner asks for.                                                 *)
LEMMA RequestStep ==
  ASSUME IInv,
         \/ \E t \in Threads, patch \in Patches : SaveSettings(t, patch)
         \/ \E f \in Bindings : Select(f)
  PROVE  IInv'
<1>1. frame \in Frames /\ orig \in Origs /\ Folder
    BY DEF IInv, Files
<1>2. ASSUME NEW t \in Threads, NEW patch \in Patches, SaveSettings(t, patch) PROVE IInv'
    <2> DEFINE s == [pc |-> "check", patch |-> patch]
    <2>1. s \in ThreadStates /\ s.pc = "check"
        BY DEF ThreadStates, Checks
    <2>2. /\ Goes(t, s) /\ proc[t] = Idle /\ Change /\ UNCHANGED <<files, names, cache>>
          /\ t \in Procs /\ t # Loop
        BY <1>2, Members DEF SaveSettings
    <2> HIDE DEF s
    <2>3. s \in StatesOf(t) /\ Idle.pc = "idle"
        BY <2>1, <2>2 DEF StatesOf, Idle
    <2>4. ThreadSound(s, proc[Loop], gone)
        BY <2>1 DEF ThreadSound, Saves
    <2>5. UNCHANGED <<conf, meant, lost, gone, folders, rows, frame, orig>>
        BY <2>2 DEF files, names, cache
    <2>6. Folder' /\ frame' \in Frames /\ orig' \in Origs
        BY <1>1, <2>5 DEF Folder
    <2> QED BY <2>1, <2>2, <2>3, <2>4, <2>5, <2>6, GoesOn
<1>3. ASSUME NEW f \in Bindings, Select(f) PROVE IInv'
    <2> DEFINE s == Saving(Pick(f), Idle)
    <2>1. Pick(f) \in LoopPatches /\ Pick(f).key = "pick" /\ Pick(f).value = f
        BY DEF LoopPatches, Pick
    <2>2. s \in LoopSaves /\ s.pc = "load" /\ s.patch = Pick(f) /\ s.next = Idle
        BY <2>1 DEF Saving, LoopSaves, Loads, LoopNexts, Nexts, AllPatches
    <2>3. /\ Goes(Loop, s) /\ proc[Loop] = Idle /\ Change /\ UNCHANGED <<files, names, cache>>
          /\ f \in folders \cup {None}
        BY <1>3 DEF Select
    <2> HIDE DEF s
    <2>4. s \in StatesOf(Loop) /\ Loop \in Procs /\ Idle.pc = "idle"
        BY <2>2, Members DEF StatesOf, LoopStates, Idle
    <2>5. UNCHANGED <<conf, meant, lost, gone, folders, rows, frame, orig>>
        BY <2>3 DEF files, names, cache
    <2>6. Folder' /\ frame' \in Frames /\ orig' \in Origs
        BY <1>1, <2>5 DEF Folder
    <2>7. f \notin gone
        BY <1>1, <2>3, SettingsAssumption DEF Folder
    <2>8. LoopSound(s, gone)
        BY <2>1, <2>2, <2>4, <2>7 DEF LoopSound
    <2>9. \A g : ~PickDue(Idle, g) /\ ~Early(Idle, g) /\ ~Due(Idle, g)
        BY <2>4 DEF PickDue, Early, Due, Saves
    <2>10. /\ \A t \in Threads : ThreadSound(proc[t], s, gone)
           /\ MeantSound(meant, lost, s, gone)
        BY <2>3, <2>9 DEF IInv, Names, ThreadSound, MeantSound
    <2> QED BY <2>2, <2>3, <2>4, <2>5, <2>6, <2>8, <2>10, GoesOn
<1> QED BY <1>2, <1>3

(* A folder is renamed or removed: the loop is about to follow its name.    *)
LEMMA FolderStep ==
  ASSUME IInv,
         \/ \E f \in Folders : DeleteFolder(f)
         \/ \E f, g \in Folders : RenameFolder(f, g)
  PROVE  IInv'
<1>1. frame \in Frames /\ orig \in Origs /\ Folder
    BY DEF IInv, Files
<1>2. ASSUME NEW old \in Folders, NEW new \in Bindings,
             proc[Loop] = Idle, Change, folders' \subseteq Folders, rows' \subseteq Folders,
             new \in folders' \cup {None}, Unknown(gone \cup {old}),
             Goes(Loop, [pc |-> "pick", old |-> old, new |-> new]),
             UNCHANGED <<files, cache>>
      PROVE  IInv'
    <2> DEFINE s == [pc |-> "pick", old |-> old, new |-> new]
    <2>1. s \in LoopStates /\ s.pc = "pick" /\ s.old = old /\ s.new = new
        BY DEF LoopStates, Picks
    <2>2. Goes(Loop, s) /\ Loop \in Procs /\ Idle.pc = "idle"
        BY <1>2, Members DEF Idle
    <2> HIDE DEF s
    <2>3. gone' = (gone \cup {old}) \ (folders' \cup rows')
        BY <1>2 DEF Unknown
    <2>4. Folder'
        BY <1>1, <1>2, <2>3 DEF Folder
    <2>5. new \notin gone'
        BY <1>1, <1>2, <2>3, SettingsAssumption DEF Folder
    <2>6. UNCHANGED <<conf, meant, lost, frame, orig>>
        BY <1>2 DEF files, cache
    <2>7. \A g : ~PickDue(Idle, g) /\ ~Early(Idle, g) /\ ~Due(Idle, g)
        BY <2>2 DEF PickDue, Early, Due, Saves
    <2>8. PickDue(s, old) /\ Early(s, old) /\ Due(s, old)
        BY <2>1 DEF PickDue, Early, Due
    <2>9. LoopSound(s, gone')
        BY <2>1, <2>5 DEF LoopSound, Saves
    <2>10. /\ MeantSound(meant, lost, Idle, gone)
           /\ \A t \in Threads : ThreadSound(proc[t], Idle, gone)
        BY <1>2 DEF IInv, Names
    <2>11. \A t \in Threads : ThreadSound(proc[t], s, gone')
        BY <2>3, <2>7, <2>8, <2>10 DEF ThreadSound
    <2>12. MeantSound(meant, lost, s, gone')
        BY <2>3, <2>7, <2>8, <2>10 DEF MeantSound
    <2>13. s \in StatesOf(Loop)
        BY <2>1 DEF StatesOf
    <2> QED BY <1>1, <1>2, <2>1, <2>2, <2>4, <2>6, <2>9, <2>11, <2>12, <2>13, GoesOn
<1>3. ASSUME NEW f \in Folders, DeleteFolder(f) PROVE IInv'
    <2>1. folders' = folders \ {f} /\ rows' = rows \ {f}
        BY <1>3 DEF DeleteFolder
    <2> QED BY <1>1, <1>2, <1>3, <2>1 DEF DeleteFolder, Bindings, Folder
<1>4. ASSUME NEW f \in Folders, NEW g \in Folders, RenameFolder(f, g) PROVE IInv'
    <2>1. /\ folders' = (folders \ {f}) \cup {g}
          /\ rows' \subseteq rows \cup {g}
        BY <1>4 DEF RenameFolder, Renamed
    <2> QED BY <1>1, <1>2, <1>4, <2>1 DEF RenameFolder, Bindings, Folder
<1> QED BY <1>3, <1>4

(* What leaves every process where it is, or ends them all.                 *)
LEMMA FewerGone ==
  ASSUME NEW g, NEW h \in SUBSET g
  PROVE  /\ \A l : LoopSound(l, g) => LoopSound(l, h)
         /\ \A s, l : ThreadSound(s, l, g) => ThreadSound(s, l, h)
         /\ \A m, lo, l : MeantSound(m, lo, l, g) => MeantSound(m, lo, l, h)
BY DEF LoopSound, ThreadSound, MeantSound

LEMMA ElsewhereStep ==
  ASSUME IInv,
         \/ \E f \in Folders : CreateFolder(f)
         \/ \E f, g \in Folders : RenameClashes(f, g)
         \/ Mirrored \/ Analysed
  PROVE  IInv'
<1>1. folders \subseteq Folders /\ rows \subseteq Folders /\ gone \subseteq Folders
    BY DEF IInv, Folder
<1>2. Change /\ UNCHANGED <<files, cache, proc>> /\ Unknown(gone)
    BY DEF CreateFolder, RenameClashes, Mirrored, Analysed
<1>3. folders' \subseteq Folders /\ rows' \subseteq Folders
    BY <1>1 DEF CreateFolder, RenameClashes, Renamed, Mirrored, Analysed
<1>4. gone' = gone \ (folders' \cup rows')
    BY <1>2 DEF Unknown
<1>5. Folder'
    BY <1>1, <1>3, <1>4 DEF Folder
<1>6. gone' \in SUBSET gone /\ UNCHANGED <<proc, conf, meant, lost, frame, orig>>
    BY <1>2, <1>4 DEF files, cache
<1>7. Names'
    <2>1. LoopSound(proc[Loop], gone') /\ MeantSound(meant, lost, proc[Loop], gone')
        BY <1>6, FewerGone DEF IInv, Names
    <2>2. \A t \in Threads : ThreadSound(proc[t], proc[Loop], gone')
        BY <1>6, FewerGone DEF IInv, Names
    <2> QED BY <1>6, <2>1, <2>2 DEF Names
<1>8. Numbers'
    BY <1>2, SettingsAssumption DEF Change, IInv, Numbers
<1> QED BY <1>5, <1>6, <1>7, <1>8 DEF IInv, Running, Files, Kept, Emptied

LEMMA CrashStep == ASSUME IInv, Crash PROVE IInv'
<1>1. /\ proc' = [p \in Procs |-> Idle] /\ UNCHANGED <<conf, meant, folders, rows, cache, changes>>
      /\ lost' = (IF Emptied THEN Keys ELSE lost) /\ gone' = gone \ Following
    BY DEF Crash
<1>2. \A p \in Procs : proc'[p] = Idle /\ Idle.pc = "idle"
    BY <1>1 DEF Idle
<1>3. Running'
    BY <1>1, <1>2 DEF Running, LoopStates, ThreadStates, StatesOf
<1>4. Files' /\ lost \subseteq lost'
    BY <1>1 DEF IInv, Files, cache
<1>5. Numbers'
    BY <1>1, SettingsAssumption DEF Crash, IInv, Numbers
<1>6. Kept'
    <2>1. ~Emptied'
        BY <1>2 DEF Emptied
    <2>2. \A k \in Keys \ lost' : conf'[k] = meant'[k]
        BY <1>1 DEF IInv, Kept
    <2>3. \A p \in Procs : Carries(proc'[p], meant', lost')
        BY <1>2 DEF Carries
    <2> QED BY <2>1, <2>2, <2>3 DEF Kept
<1>7. Folder'
    BY <1>1 DEF IInv, Folder
<1>8. \A f : Due(proc[Loop], f) => f \in Following
    <2> SUFFICES ASSUME NEW f, Due(proc[Loop], f) PROVE f \in Following
        OBVIOUS
    <2>1. CASE proc[Loop].pc \in {"pick", "segments"}
        BY <2>1 DEF Due, Early, PickDue, Saves, Following
    <2>2. CASE proc[Loop].pc \in Saves
        <3>1. proc[Loop].next # Idle
            BY <2>2 DEF Due, Early, PickDue, Saves, Idle
        <3> QED BY <2>2, <3>1 DEF Due, Early, PickDue, Saves, Following
    <2> QED BY <2>1, <2>2 DEF Due, Early, PickDue
<1>9. Names'
    <2>1. MeantSound(meant, lost, proc[Loop], gone)
        BY DEF IInv, Names
    <2>2. \A f : PickDue(proc[Loop], f) => f \in Following
        BY <1>8 DEF Due, Early
    <2>3. MeantSound(meant, lost', Idle, gone')
        BY <1>1, <1>4, <1>8, <2>1, <2>2 DEF MeantSound
    <2>4. /\ LoopSound(Idle, gone')
          /\ \A t \in Threads : ThreadSound(Idle, Idle, gone')
        BY <1>2, Members DEF LoopSound, ThreadSound, Saves
    <2> QED BY <1>1, <1>2, <2>3, <2>4, Members DEF Names
<1> QED BY <1>3, <1>4, <1>5, <1>6, <1>7, <1>9 DEF IInv

LEMMA HourStep == ASSUME IInv, Hour \/ UNCHANGED vars PROVE IInv'
<1>1. UNCHANGED <<conf, meant, lost, folders, rows, gone, orig, proc, changes, crashes>>
    BY DEF Hour, NoChange, vars, files, names, cache
<1>2. frame' \in Frames
    BY DEF Hour, vars, cache, Frames, IInv, Files
<1> QED BY <1>1, <1>2 DEF IInv, Running, Files, Numbers, Kept, Emptied, Folder, Names

LEMMA NextIInv == IInv /\ [Next]_vars => IInv'
<1>1. Owner /\ IInv => IInv'
    BY RequestStep, FolderStep, ElsewhereStep DEF Owner, Bindings
<1>2. Handler /\ IInv => IInv'
    BY RewriteStep, CardStep, SaveStep, Members DEF Handler
<1> QED BY <1>1, <1>2, ElsewhereStep, ThreadStep, CrashStep, HourStep DEF Next

-----------------------------------------------------------------------------
(* The theorems.                                                            *)

LEMMA Inductive == Spec => []IInv
BY InitIInv, NextIInv, PTL DEF Spec

(* The file, the folders, the weather cache and the bounds keep their types *)
(* in every reachable state.                                                *)
THEOREM TypeCorrect == Spec => []TypeOK
<1>1. IInv => TypeOK
    BY DEF IInv, Running, Files, Folder, Numbers, TypeOK, Frames, Origs
<1> QED BY Inductive, <1>1, PTL

(* However many saves overlap, in the pool and with the handlers, one loses *)
(* only the keys that others wrote between its reading and its writing      *)
(* (runtime_config.save).                                                   *)
THEOREM SettingsKept == Spec => []NothingLost
<1>1. IInv => NothingLost
    BY DEF IInv, Kept, NothingLost
<1> QED BY Inductive, <1>1, PTL

(* No segment is bound to, and no picture picked from, a folder that the    *)
(* owner was told is renamed or removed (routers/analysis.py and            *)
(* settings.py), but for an overtaken key and a blind rewriting.            *)
THEOREM NamesFollowFolders == Spec => []NamesFollow
<1>1. ASSUME IInv PROVE NamesFollow
    <2>1. /\ \A f : Due(proc[Loop], f) => f \in Following
          /\ \A f : PickDue(proc[Loop], f) => f \in Following
        <3>1. \A f : PickDue(proc[Loop], f) => Due(proc[Loop], f)
            BY DEF Due, Early
        <3>2. ASSUME NEW f, Due(proc[Loop], f), proc[Loop].pc \in {"pick", "segments"}
              PROVE  f \in Following
            BY <3>2 DEF Due, Early, PickDue, Saves, Following
        <3>3. ASSUME NEW f, Due(proc[Loop], f), proc[Loop].pc \in Saves
              PROVE  f \in Following
            <4>1. proc[Loop].next # Idle
                BY <3>3 DEF Due, Early, PickDue, Saves, Idle
            <4> QED BY <3>3, <4>1 DEF Due, Early, PickDue, Saves, Following
        <3>4. \A f : Due(proc[Loop], f) => proc[Loop].pc \in Saves \cup {"pick", "segments"}
            BY DEF Due, Early, PickDue
        <3> QED BY <3>1, <3>2, <3>3, <3>4
    <2>2. CASE Emptied
        BY <1>1, <2>2, SettingsAssumption DEF NamesFollow, IInv, Kept, Folder, Empty
    <2>3. CASE ~Emptied
        BY <1>1, <2>1, <2>3 DEF NamesFollow, IInv, Kept, Names, MeantSound, Keys
    <2> QED BY <2>2, <2>3
<1> QED BY Inductive, <1>1, PTL
=============================================================================

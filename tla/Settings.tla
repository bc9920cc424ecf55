----------------------------- MODULE Settings ------------------------------
(* The configuration file, runtime_config.json, and those that write it:    *)
(* the handlers of the event loop, one after the other, and the threads of  *)
(* the pool that save_settings runs in.  Each reads the file, changes what  *)
(* it holds and writes the whole of it back, first emptying it, without a   *)
(* lock.  With it what depends on it: the photo folders a segment is bound  *)
(* to or today's picture was picked from, and the weather card, whose cache *)
(* is named by the location only while the card also shows the place's      *)
(* name.                                                                    *)
EXTENDS Naturals, FiniteSets

CONSTANTS Folders,      \* names a photo folder can have
          Places,       \* records of a location and a name
          Default,      \* the place without configuration
          Threads,      \* workers of the pool
          MaxChanges,   \* operations of the owner
          MaxCrashes

None == "none"
Loop == "loop"

ASSUME SettingsAssumption == /\ None \notin Folders /\ Default \in Places
                             /\ \A p \in Places : DOMAIN p = {"loc", "name"}
                             /\ Loop \notin Threads
                             /\ MaxChanges \in Nat /\ MaxCrashes \in Nat

VARIABLES
    conf,       \* the file
    folders,    \* the folders there are
    rows,       \* the folders photo_scores has rows of
    frame,      \* the weather frame of each location: its place, whether it is fresh
    orig,       \* the place of the original picture beside it
    proc,       \* the threads of save_settings and the event loop
    meant,      \* history: what was written last under each key
    lost,       \* history: the keys a save overtook, see Write
    gone,       \* history: the names the owner took away, see Unknown
    changes, crashes

files == <<conf, meant, lost>>
names == <<folders, rows, gone>>
cache == <<frame, orig>>
vars == <<files, names, cache, proc, changes, crashes>>

Procs == Threads \cup {Loop}
Locs == {p.loc : p \in Places}
NoPlace == [loc |-> None, name |-> None]
NoFrame == [place |-> NoPlace, fresh |-> FALSE]

\* What load returns of a file that is missing, empty or garbled.
Empty == [binding |-> None, pick |-> None, place |-> Default]
Keys == {"binding", "pick", "place"}

\* One key and its value.
Binding(f) == [key |-> "binding", value |-> f]
Pick(f) == [key |-> "pick", value |-> f]
Place(p) == [key |-> "place", value |-> p]
With(c, patch) == [c EXCEPT ![patch.key] = patch.value]

Idle == [pc |-> "idle"]
Saving(patch, next) == [pc |-> "load", patch |-> patch, next |-> next]

\* A configuration that names what there is.
Init == /\ folders \in SUBSET Folders /\ rows \in SUBSET Folders /\ gone = {}
        /\ conf \in [binding : folders \cup rows \cup {None}, pick : folders \cup {None},
                     place : {Default}]
        /\ meant = conf /\ lost = {}
        /\ frame = [l \in Locs |-> NoFrame] /\ orig = [l \in Locs |-> NoPlace]
        /\ proc = [p \in Procs |-> Idle]
        /\ changes = 0 /\ crashes = 0

Change == changes < MaxChanges /\ changes' = changes + 1 /\ UNCHANGED crashes
NoChange == UNCHANGED <<changes, crashes>>

\* p goes on as `s'.
Goes(p, s) == proc' = [proc EXCEPT ![p] = s]

-----------------------------------------------------------------------------
(* runtime_config.save, in any of them.                                     *)

\* Somebody emptied the file and nobody has written it since.
Emptied == \E p \in Procs : proc[p].pc = "open" /\ ~proc[p].over

\* Variant: save does not read what is there.
HeldAlone(p) == With(Empty, proc[p].patch)

Held(p) == With(conf, proc[p].patch)

\* `stale': the keys whose last value is not the one that was read.
Load(p) ==
    /\ proc[p].pc = "load"
    /\ Goes(p, [pc |-> "held", patch |-> proc[p].patch, data |-> Held(p),
                stale |-> IF Emptied THEN Keys ELSE {}, over |-> FALSE,
                next |-> proc[p].next])
    /\ NoChange /\ UNCHANGED <<files, names, cache>>

\* write_text opens the file, which empties it,
Open(p) ==
    /\ proc[p].pc = "held"
    /\ conf' = Empty
    /\ Goes(p, [proc[p] EXCEPT !.pc = "open"])
    /\ NoChange /\ UNCHANGED <<names, cache, meant, lost>>

\* What p's writing is for another save: the key changed since it was read, and
\* the file is no longer empty if it was opened.
Overtaken(s, key) ==
    CASE s.pc = "held" -> [s EXCEPT !.stale = @ \cup {key}]
      [] s.pc = "open" -> [s EXCEPT !.stale = @ \cup {key}, !.over = TRUE]
      [] OTHER         -> s

\* and writes: over what another one wrote in between, whose end may remain.  What
\* was written under other keys since p read them is lost.
Write(p) ==
    /\ proc[p].pc = "open"
    /\ LET s == proc[p]
       IN /\ \/ conf' = s.data /\ lost' = (lost \cup s.stale) \ {s.patch.key}
             \/ s.over /\ conf' = Empty /\ lost' = Keys
          /\ meant' = With(meant, s.patch)
          /\ proc' = [q \in Procs |-> IF q = p THEN s.next ELSE Overtaken(proc[q], s.patch.key)]
    /\ NoChange /\ UNCHANGED <<names, cache>>

Save(p) == Load(p) \/ Open(p) \/ Write(p)

-----------------------------------------------------------------------------
(* PUT /settings.                                                           *)

AfterSaving(patch) == IF patch.key = "place" THEN [pc |-> "clear"] ELSE Idle

SaveSettings(t, patch) ==
    /\ proc[t] = Idle /\ Change
    /\ Goes(t, [pc |-> "check", patch |-> patch])
    /\ UNCHANGED <<files, names, cache>>

\* _validate_slot_categories: a folder, or a category that only rows name.
Check(t) ==
    /\ proc[t].pc = "check"
    /\ LET patch == proc[t].patch
       IN Goes(t, IF patch.key = "binding" /\ patch.value \notin folders \cup rows \cup {None}
                  THEN Idle ELSE Saving(patch, AfterSaving(patch)))
    /\ NoChange /\ UNCHANGED <<files, names, cache>>

\* _clear_weather_cache: the frames, then the originals.
ClearFrames(t) ==
    /\ proc[t].pc = "clear"
    /\ frame' = [l \in Locs |-> NoFrame]
    /\ Goes(t, [pc |-> "originals"])
    /\ NoChange /\ UNCHANGED <<files, names, orig>>

ClearOriginals(t) ==
    /\ proc[t].pc = "originals"
    /\ orig' = [l \in Locs |-> NoPlace]
    /\ Goes(t, Idle)
    /\ NoChange /\ UNCHANGED <<files, names, frame>>

Thread(t) == Check(t) \/ ClearFrames(t) \/ ClearOriginals(t) \/ Save(t)

-----------------------------------------------------------------------------
(* The folders; `gone' are the names that the owner renamed or deleted and  *)
(* that are not known again.                                                *)

Unknown(fs) == gone' = fs \ (folders' \cup rows')

\* POST and DELETE /daily/select; a picture in a folder.
Select(f) ==
    /\ proc[Loop] = Idle /\ Change
    /\ f \in folders \cup {None}
    /\ Goes(Loop, Saving(Pick(f), Idle))
    /\ UNCHANGED <<files, names, cache>>

CreateFolder(f) ==
    /\ proc[Loop] = Idle /\ Change
    /\ f \notin folders
    /\ folders' = folders \cup {f} /\ UNCHANGED rows /\ Unknown(gone)
    /\ UNCHANGED <<files, cache, proc>>

Renamed(fs, old, new) == IF old \in fs THEN (fs \ {old}) \cup {new} ELSE fs

\* The folder is renamed or removed, its rows are too, and the configuration
\* follows.
RenameFolder(old, new) ==
    /\ proc[Loop] = Idle /\ Change
    /\ old \in folders /\ new \notin folders
    /\ folders' = Renamed(folders, old, new) /\ rows' = Renamed(rows, old, new)
    /\ Unknown(gone \cup {old})
    /\ Goes(Loop, [pc |-> "pick", old |-> old, new |-> new])
    /\ UNCHANGED <<files, cache>>

\* db.rename_category: a row has the new path already.  The folder is renamed, the
\* request ends with the error, and the configuration is not rewritten.
RenameClashes(old, new) ==
    /\ proc[Loop] = Idle /\ Change
    /\ old \in folders /\ new \notin folders
    /\ old \in rows /\ new \in rows
    /\ folders' = Renamed(folders, old, new) /\ rows' \in {rows, rows \ {old}}
    /\ Unknown(gone)
    /\ UNCHANGED <<files, cache, proc>>

DeleteFolder(old) ==
    /\ proc[Loop] = Idle /\ Change
    /\ old \in folders
    /\ folders' = folders \ {old} /\ rows' = rows \ {old}
    /\ Unknown(gone \cup {old})
    /\ Goes(Loop, [pc |-> "pick", old |-> old, new |-> None])
    /\ UNCHANGED <<files, cache>>

\* What the configuration says of a folder cannot be seen: the file is emptied, or
\* a save that passed its check will bind a segment to the folder.
Blind(old) == \E t \in Threads :
                \/ proc[t].pc = "open"
                \/ proc[t].pc \in {"load", "held"} /\ proc[t].patch = Binding(old)

\* A rewriting that could not see it does not count.
Rewritten(old) == /\ gone' = IF Blind(old) THEN gone \ {old} ELSE gone
                  /\ NoChange /\ UNCHANGED <<files, folders, rows, cache>>

\* _rewrite_manual_pick.
RewritePick ==
    /\ proc[Loop].pc = "pick"
    /\ LET l == proc[Loop]
           segments == [l EXCEPT !.pc = "segments"]
       IN /\ Goes(Loop, IF conf.pick = l.old THEN Saving(Pick(l.new), segments) ELSE segments)
          /\ Rewritten(l.old)

\* Variant: only a renaming is followed.
RebindRenamed ==
    /\ proc[Loop].pc = "segments"
    /\ LET l == proc[Loop]
           answer == [l EXCEPT !.pc = "answer"]
       IN /\ Goes(Loop, IF conf.binding = l.old /\ l.new # None
                        THEN Saving(Binding(l.new), answer) ELSE answer)
          /\ Rewritten(l.old)

\* _rebind_slot_categories.
Rebind ==
    /\ proc[Loop].pc = "segments"
    /\ LET l == proc[Loop]
           answer == [l EXCEPT !.pc = "answer"]
       IN /\ Goes(Loop, IF conf.binding = l.old THEN Saving(Binding(l.new), answer) ELSE answer)
          /\ Rewritten(l.old)

Answer ==
    /\ proc[Loop].pc = "answer"
    /\ Goes(Loop, Idle)
    /\ NoChange /\ UNCHANGED <<files, names, cache>>

\* The folder whose request is under way.
Following ==
    LET l == proc[Loop]
    IN CASE l.pc \in {"pick", "segments", "answer"} -> {l.old}
         [] l.pc \in {"load", "held", "open"} /\ l.next # Idle -> {l.next.old}
         [] OTHER -> {}

\* Elsewhere: folders come and go with the mirror of the NAS, rows with analyses,
\* also one that read its photo before, and with the pruning of rows whose folder
\* is gone.
Mirrored ==
    /\ Change
    /\ \E f \in Folders : folders' \in {folders \cup {f}, folders \ {f}}
    /\ folders' # folders /\ UNCHANGED rows
    /\ Unknown(gone)
    /\ UNCHANGED <<files, cache, proc>>

Analysed ==
    /\ Change
    /\ \E f \in Folders : \/ rows' = rows \cup {f}
                          \/ f \notin folders /\ rows' = rows \ {f}
    /\ rows' # rows /\ UNCHANGED folders
    /\ Unknown(gone)
    /\ UNCHANGED <<files, cache, proc>>

-----------------------------------------------------------------------------
(* The weather card.                                                        *)

\* Variant: a cached frame of any age.
HitOld(l) == frame[l].place # NoPlace

Hit(l) == frame[l].fresh

\* render_weather_card: the name of the cache files,
Render ==
    /\ proc[Loop] = Idle
    /\ ~Hit(conf.place.loc)
    /\ Goes(Loop, [pc |-> "fetch", loc |-> conf.place.loc])
    /\ NoChange /\ UNCHANGED <<files, names, cache>>

\* the weather of the place configured now, unless the request fails,
Fetch ==
    /\ proc[Loop].pc = "fetch"
    /\ \/ Goes(Loop, [pc |-> "original", loc |-> proc[Loop].loc, place |-> conf.place])
       \/ Goes(Loop, Idle)
    /\ NoChange /\ UNCHANGED <<files, names, cache>>

\* the picture, and the frame.
WriteOriginal ==
    /\ proc[Loop].pc = "original"
    /\ orig' = [orig EXCEPT ![proc[Loop].loc] = proc[Loop].place]
    /\ Goes(Loop, [proc[Loop] EXCEPT !.pc = "frame"])
    /\ NoChange /\ UNCHANGED <<files, names, frame>>

WriteFrame ==
    /\ proc[Loop].pc = "frame"
    /\ frame' = [frame EXCEPT ![proc[Loop].loc] = [place |-> proc[Loop].place, fresh |-> TRUE]]
    /\ Goes(Loop, Idle)
    /\ NoChange /\ UNCHANGED <<files, names, orig>>

Handler == \/ RewritePick \/ Rebind \/ Answer \/ Save(Loop)
           \/ Render \/ Fetch \/ WriteOriginal \/ WriteFrame

-----------------------------------------------------------------------------
\* An hour: every frame there is has to be drawn again.
Hour ==
    /\ frame' = [l \in Locs |-> [frame[l] EXCEPT !.fresh = FALSE]]
    /\ NoChange /\ UNCHANGED <<files, names, orig, proc>>

\* The process ends.  An emptied file stays empty; a request is not answered.
Crash ==
    /\ crashes < MaxCrashes /\ crashes' = crashes + 1
    /\ proc' = [p \in Procs |-> Idle]
    /\ lost' = IF Emptied THEN Keys ELSE lost
    /\ gone' = gone \ Following
    /\ UNCHANGED <<conf, meant, folders, rows, cache, changes>>

Patches == {Binding(f) : f \in Folders \cup {None}} \cup {Place(p) : p \in Places}

Owner == \/ \E t \in Threads, patch \in Patches : SaveSettings(t, patch)
         \/ \E f \in Folders \cup {None} : Select(f)
         \/ \E f \in Folders : CreateFolder(f) \/ DeleteFolder(f)
         \/ \E f, g \in Folders : RenameFolder(f, g) \/ RenameClashes(f, g)

Next == \/ Owner \/ Mirrored \/ Analysed
        \/ (\E t \in Threads : Thread(t)) \/ Handler \/ Hour \/ Crash

Fairness == /\ \A t \in Threads : WF_vars(Thread(t))
            /\ WF_vars(Handler) /\ WF_vars(Hour)

Spec == Init /\ [][Next]_vars /\ Fairness

-----------------------------------------------------------------------------
(* Type invariant.                                                          *)
Confs == [binding : Folders \cup {None}, pick : Folders \cup {None}, place : Places]
TypeOK == /\ conf \in Confs /\ meant \in Confs /\ lost \subseteq Keys
          /\ folders \subseteq Folders /\ rows \subseteq Folders /\ gone \subseteq Folders
          /\ frame \in [Locs -> [place : Places \cup {NoPlace}, fresh : BOOLEAN]]
          /\ orig \in [Locs -> Places \cup {NoPlace}]
          /\ DOMAIN proc = Procs
          /\ changes \in 0..MaxChanges /\ crashes \in 0..MaxCrashes

(* A save loses no setting but those that others wrote between its reading  *)
(* and its writing: whatever saves overlap, in the pool and with handlers,  *)
(* a key that nobody overtook has the value that was written last, and one  *)
(* that was is well again with its next save.  Everything goes only when    *)
(* the process ends with the file emptied, when a save read it emptied, or  *)
(* when two were writing at once.                                           *)
NothingLost == ~Emptied => \A k \in Keys \ lost : conf[k] = meant[k]

(* Once the owner was told that a folder was renamed or deleted, no segment *)
(* is bound to the old name and today's picture is not picked from it, as   *)
(* long as no new folder or row bears it, through whatever saves, renamings *)
(* and crashes follow.  The exceptions are a save of the pool that was in   *)
(* the way when the configuration was rewritten (it had passed its check    *)
(* with the old name, or had the file emptied), and a key overtaken as      *)
(* above.                                                                   *)
NamesFollow == /\ conf.binding \in gone \ Following => "binding" \in lost
               /\ conf.pick \in gone \ Following => "pick" \in lost

(* As soon as a new place is saved, the weather card in the cache is of     *)
(* that place, and so is its preview, although the name of the cache file   *)
(* says the location only.                                                  *)
Shown == Hit(conf.place.loc) => /\ frame[conf.place.loc].place = conf.place
                                /\ orig[conf.place.loc] = conf.place

(* Whatever ran side by side, whenever the process ended: in the end the    *)
(* card is of the configured place, within an hour of the last change.      *)
PlaceTakesEffect == <>[](proc[Loop] = Idle => Shown)
=============================================================================

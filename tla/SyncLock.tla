------------------------------ MODULE SyncLock ------------------------------
(* Who may synchronise: the lock directory of sync_nas.sh, the status file  *)
(* it writes and routers/sync.py, which starts the script.  A launch is one *)
(* run of the script, from the button of the console or from the schedule;  *)
(* its name stands for its process id, which no other program takes over.   *)
EXTENDS Naturals, FiniteSets

CONSTANTS Launches,     \* runs of the script
          MaxKills      \* how many may be killed

NoLock == "free"
NoPid == "nopid"        \* the directory without the file pid

ASSUME SyncLockAssumption == /\ MaxKills \in Nat
                             /\ NoLock \notin Launches /\ NoPid \notin Launches

VARIABLES stage,    \* where each launch is
          lock,     \* the lock directory: NoLock, or the name in its file pid
          seen,     \* what a launch has read of the lock it is going to remove
          status,   \* sync_status.json
          old,      \* it has not been written for 120 s
          raced,    \* a launch has removed another lock than the one it had looked at
          killed,   \* launches that were killed
          orphans   \* killed launches whose rsync goes on

lockVars == <<stage, lock, seen, status, old, raced, killed, orphans>>

Alive(p) == stage[p] \notin {"new", "gone"}
Holding == {p \in Launches : stage[p] \in {"running", "pulling", "finishing"}}

LockInit == /\ stage = [p \in Launches |-> "new"]
            /\ lock = NoLock
            /\ seen = [p \in Launches |-> NoPid]
            /\ status = "idle" /\ old = FALSE
            /\ raced = FALSE /\ killed = {} /\ orphans = {}

At(p, here, next) == stage[p] = here /\ stage' = [stage EXCEPT ![p] = next]

-----------------------------------------------------------------------------
(* POST /sync/start refuses while the status says running and was written   *)
(* less than 120 s ago; the schedule and a shell ask nobody.                *)
Button(p) == /\ ~(status = "running" /\ ~old)
             /\ At(p, "new", "mkdir")
             /\ UNCHANGED <<lock, seen, status, old, raced, killed, orphans>>

Schedule(p) == /\ At(p, "new", "mkdir")
               /\ UNCHANGED <<lock, seen, status, old, raced, killed, orphans>>

\* POST /sync/reset removes the status file.
Reset == /\ status # "idle"
         /\ status' = "idle" /\ old' = FALSE
         /\ UNCHANGED <<stage, lock, seen, raced, killed, orphans>>

\* A running synchronisation is silent: listing, relocating, or dead.
Silence == /\ status = "running" /\ ~old
           /\ old' = TRUE
           /\ UNCHANGED <<stage, lock, seen, status, raced, killed, orphans>>

-----------------------------------------------------------------------------
(* acquire_lock                                                             *)

Mkdir(p) == /\ IF lock = NoLock THEN At(p, "mkdir", "pid") /\ lock' = NoPid
               ELSE At(p, "mkdir", "read") /\ lock' = lock
            /\ UNCHANGED <<seen, status, old, raced, killed, orphans>>

\* Without the directory the file cannot be written: set -e ends the script.
WritePid(p) == /\ IF lock = NoLock THEN At(p, "pid", "gone") /\ lock' = lock
                  ELSE At(p, "pid", "running") /\ lock' = p
               /\ UNCHANGED <<seen, status, old, raced, killed, orphans>>

\* Variant: a lock that exists is respected, whoever made it.
ReadPidOnly(p) == /\ At(p, "read", "gone")
                  /\ UNCHANGED <<lock, seen, status, old, raced, killed, orphans>>

\* Variant: without kill -0.
ReadPidTrusting(p) == /\ At(p, "read", "remove")
                      /\ seen' = [seen EXCEPT ![p] = IF lock = NoLock THEN NoPid ELSE lock]
                      /\ UNCHANGED <<lock, status, old, raced, killed, orphans>>

\* The process in the file pid lives: exit 75.  Otherwise, and also when there
\* is no file (yet, or no longer), the lock counts as left behind.
ReadPid(p) == /\ IF lock \in Launches /\ Alive(lock)
                 THEN At(p, "read", "gone") /\ seen' = seen
                 ELSE /\ At(p, "read", "remove")
                      /\ seen' = [seen EXCEPT ![p] = IF lock = NoLock THEN NoPid ELSE lock]
              /\ UNCHANGED <<lock, status, old, raced, killed, orphans>>

\* rm -rf, of whatever is there by now.
Remove(p) == /\ At(p, "remove", "remake")
             /\ lock' = NoLock
             /\ raced' = \/ raced
                         \/ lock \notin {NoLock, seen[p]}
                         \/ lock = NoPid /\ \E q \in Launches : stage[q] = "pid"
             /\ UNCHANGED <<seen, status, old, killed, orphans>>

\* The second mkdir is not in a condition: set -e ends the script.
Remake(p) == /\ IF lock = NoLock THEN At(p, "remake", "pid") /\ lock' = NoPid
                ELSE At(p, "remake", "gone") /\ lock' = lock
             /\ UNCHANGED <<seen, status, old, raced, killed, orphans>>

-----------------------------------------------------------------------------
(* The synchronisation.  Its status is merged into the file and replaced at *)
(* once; done is written before the relocation and the analysis.            *)

Report(p) == /\ stage[p] \in {"running", "pulling"}
             /\ status' = "running" /\ old' = FALSE
             /\ UNCHANGED <<stage, lock, seen, raced, killed, orphans>>

\* The list and the moves are done: rsync starts, in the background.
Pull(p) == /\ At(p, "running", "pulling")
           /\ UNCHANGED <<lock, seen, status, old, raced, killed, orphans>>

Ends(p) == /\ At(p, "pulling", "finishing")
           /\ status' \in {"done", "error"} /\ old' = FALSE
           /\ UNCHANGED <<lock, seen, raced, killed, orphans>>

\* The trap of EXIT removes the lock directory: at the end, or when a command
\* before rsync fails (set -e).
Exit(p) == /\ At(p, "running", "gone") \/ At(p, "finishing", "gone")
           /\ lock' = NoLock
           /\ UNCHANGED <<seen, status, old, raced, killed, orphans>>

\* Killed, or the machine goes down; a signal that can be handled still runs the
\* trap.  The rsync of a script that is killed alone outlives it.
Kill(p) == /\ Cardinality(killed) < MaxKills /\ killed' = killed \cup {p}
           /\ Alive(p)
           /\ stage' = [stage EXCEPT ![p] = "gone"]
           /\ lock' \in IF p \in Holding THEN {lock, NoLock} ELSE {lock}
           /\ orphans' \in IF stage[p] = "pulling" THEN {orphans, orphans \cup {p}} ELSE {orphans}
           /\ UNCHANGED <<seen, status, old, raced>>

OrphanEnds(p) == /\ p \in orphans
                 /\ orphans' = orphans \ {p}
                 /\ UNCHANGED <<stage, lock, seen, status, old, raced, killed>>

Step(p) == \/ Mkdir(p) \/ WritePid(p) \/ ReadPid(p) \/ Remove(p) \/ Remake(p)
           \/ Pull(p) \/ Ends(p) \/ Exit(p)

LockNext == \/ \E p \in Launches : \/ Button(p) \/ Schedule(p) \/ Step(p) \/ Report(p)
                                   \/ Kill(p) \/ OrphanEnds(p)
            \/ Reset \/ Silence

LockSpec == LockInit /\ [][LockNext]_lockVars /\ \A p \in Launches : WF_lockVars(Step(p))

-----------------------------------------------------------------------------
(* Type invariant.                                                          *)
LockTypeOK == /\ stage \in [Launches -> {"new", "mkdir", "pid", "read", "remove", "remake",
                                      "running", "pulling", "finishing", "gone"}]
              /\ lock \in Launches \cup {NoLock, NoPid}
              /\ seen \in [Launches -> Launches \cup {NoPid}]
              /\ status \in {"idle", "running", "done", "error"}
              /\ old \in BOOLEAN /\ raced \in BOOLEAN
              /\ killed \subseteq Launches /\ Cardinality(killed) <= MaxKills
              /\ orphans \subseteq Launches

(* Two synchronise at once only after one of two races: a lock was removed  *)
(* whose maker was about to write its pid, or another lock than the one     *)
(* that was looked at.  Without a race a lock left behind by a kill is      *)
(* taken over by one launch only, and no exit frees another's lock.  The    *)
(* lock does not cover an rsync that outlives its script: kill -0 asks for  *)
(* the script, so that such a pair of synchronisations is excepted.         *)
ExclusiveButForRaces ==
    raced \/ \A p, q \in Holding \cup orphans : p = q \/ {p, q} \cap orphans # {}

(* Whatever was killed at whatever point before: a launch that finds no     *)
(* other one alive comes to synchronise, unless it is killed or another one *)
(* starts.                                                                  *)
Alone(p) == \A q \in Launches \ {p} : ~Alive(q)
LonelyStartRuns ==
    \A p \in Launches :
        (stage[p] = "mkdir" /\ Alone(p)) ~> (stage[p] = "running" \/ ~Alone(p) \/ p \in killed)
=============================================================================

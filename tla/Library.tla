------------------------------ MODULE Library ------------------------------
(* The photo library: the folders on the NAS, their mirror on the server,   *)
(* the table photo_scores, and what changes them: uploads with their two    *)
(* background tasks, a synchronisation (sync_nas.sh), the folder requests   *)
(* of the console, and the owner, who reorganises the NAS from elsewhere.   *)
(*                                                                          *)
(* A photo is its content; size and modification time stand for it, as they *)
(* do for rsync.  A path is a folder and a name, Root being the library     *)
(* itself, whose photos are 未分类.  A row of photo_scores keeps what the    *)
(* model needs of it: category, content hash, and whether the scores are    *)
(* ones worth keeping (seen by a model, shown before) or a first guess.     *)
(* Its key is a path in one of three forms: as the service writes it        *)
(* (relative to services/), absolute, or, written by a synchronisation,     *)
(* relative to the repository, where nobody finds the file.                 *)
EXTENDS Naturals, FiniteSets

CONSTANTS Folders,      \* first-level folders that exist or may be created
          Root,         \* the library itself
          Names,        \* file names
          Photos,       \* contents
          AbsLib,       \* whether PHOTO_LIB_DIR is an absolute path
          MaxOwner,     \* acts of the owner on the NAS and of the console
          MaxUploads,   \* uploads
          MaxFaults     \* failures of the network and of processes

ASSUME LibraryAssumption == /\ Root \notin Folders
                            /\ "none" \notin Folders \cup {Root} \cup Photos
                            /\ MaxOwner \in Nat /\ MaxUploads \in Nat
                            /\ MaxFaults \in Nat
                            /\ AbsLib \in BOOLEAN

None == "none"          \* no file
NoRow == [cat |-> None, hash |-> None, kept |-> FALSE]
Places == Folders \cup {Root}
Paths == Places \X Names
Forms == {"service", "absolute", "stray"}
Own == IF AbsLib THEN "absolute" ELSE "service"
Keys == Forms \X Paths
Rows == [cat : Places, hash : Photos \cup {None}, kept : BOOLEAN]

VARIABLES nas,      \* photo at each path of the NAS
          local,    \* photo at each path of the mirror
          ndirs,    \* folders on the NAS
          dirs,     \* folders in the mirror
          trash,    \* photos in .sync_trash, by path
          rec,      \* photo_scores
          tasks,    \* background tasks of uploads: analyses and pushes
          pc,       \* where the running synchronisation is
          listed,   \* its list of the photos on the NAS
          late,     \* photos uploaded since it started
          calm,     \* nothing else changed files or rows since it started
          worth,    \* photos, by file name, whose scores were worth keeping when it started
          plain,    \* its rows could follow their files, and no names clashed
          owner, uploads, faults

files == <<nas, local, ndirs, dirs, trash>>
sync == <<pc, listed, late, calm, worth, plain>>
vars == <<nas, local, ndirs, dirs, trash, rec, tasks, pc, listed, late, calm,
          worth, plain, owner, uploads, faults>>

Steps == {"idle", "pre", "rsync", "post", "analyse", "new", "done"}

Has(f, c) == \E p \in DOMAIN f : f[p] = c
In(f, d) == {p \in DOMAIN f : p[1] = d /\ f[p] # None}
RowsOf(d) == {k \in Keys : rec[k] # NoRow /\ rec[k].cat = d}
Row(p, c, kept) == [cat |-> p[1], hash |-> c, kept |-> kept]

\* The file a key names is there, in a mirror f.
Exists(k, f) == k[1] # "stray" /\ f[k[2]] # None

\* Two photos at once under one content: copies in two folders.
Copies(f) == \E p, q \in Paths : p # q /\ f[p] # None /\ f[p] = f[q]

\* The photo a row is about; a row not analysed yet has no hash.
About(k) == IF rec[k].hash = None THEN local[k[2]] ELSE rec[k].hash

\* Names do not clash: no photo is in the mirror twice, no row has another
\* photo's file under its path, and the rows of one photo, if it has several,
\* name one path and agree.
Unclashed ==
    /\ ~Copies(local)
    /\ \A k \in Keys : rec[k] # NoRow => local[k[2]] \in {None, About(k)}
    /\ \A k, l \in Keys :
          rec[k] # NoRow /\ rec[l] # NoRow /\ k # l /\ About(k) = About(l) /\ About(k) # None
             => /\ k[2] = l[2] /\ rec[k].hash = rec[l].hash /\ rec[k].kept = rec[l].kept
                /\ "stray" \notin {k[1], l[1]}

\* The scores of a photo under a file name, a pair w, are in some row.
KeptFor(w) == \E k \in Keys : /\ k[2][2] = w[1] /\ rec[k] # NoRow
                              /\ rec[k].hash = w[2] /\ rec[k].kept

\* What a step of somebody else means for a synchronisation under way.
Disturb == calm' = FALSE /\ UNCHANGED <<pc, listed, late, worth, plain>>

Init == /\ nas \in [Paths -> Photos \cup {None}]
        /\ ~Copies(nas)
        /\ local = nas
        /\ ndirs = {d \in Folders : In(nas, d) # {}}
        /\ dirs = ndirs
        /\ trash = [p \in Paths |-> None]
        /\ \E form \in {Own, "absolute"} :
              rec = [k \in Keys |-> IF nas[k[2]] = None \/ k[1] # form THEN NoRow
                                    ELSE Row(k[2], nas[k[2]], TRUE)]
        /\ tasks = {}
        /\ pc = "idle" /\ listed = trash /\ late = {} /\ calm = FALSE /\ worth = {} /\ plain = TRUE
        /\ owner = 0 /\ uploads = 0 /\ faults = 0

-----------------------------------------------------------------------------
(* The owner at the NAS: a photo is moved, copied or deleted, by any program. *)

OwnerDeletes(p) ==
    /\ nas' = [nas EXCEPT ![p] = None]
    /\ UNCHANGED ndirs

OwnerMoves(p, q, keep) ==
    /\ p # q /\ nas[q] = None
    /\ nas' = [nas EXCEPT ![q] = nas[p], ![p] = IF keep THEN nas[p] ELSE None]
    /\ ndirs' = ndirs \cup ({q[1]} \ {Root})

Owner ==
    /\ owner < MaxOwner
    /\ owner' = owner + 1
    /\ \E p \in Paths : /\ nas[p] # None
                        /\ \/ OwnerDeletes(p)
                           \/ \E q \in Paths, keep \in BOOLEAN : OwnerMoves(p, q, keep)
    /\ Disturb
    /\ UNCHANGED <<local, dirs, trash, rec, tasks, uploads, faults>>

-----------------------------------------------------------------------------
(* Uploads and their background tasks.                                      *)

\* POST /upload: a new file in the mirror, its time of change is now.  A file
\* that exists is skipped.
Upload(p, c) ==
    /\ uploads < MaxUploads
    /\ uploads' = uploads + 1
    /\ local[p] = None
    /\ ~Has(nas, c) /\ ~Has(local, c) /\ ~Has(trash, c)
    /\ local' = [local EXCEPT ![p] = c]
    /\ dirs' = dirs \cup ({p[1]} \ {Root})
    /\ tasks' = tasks \cup {<<"analyse", p>>, <<"push", p[1]>>}
    /\ late' = IF pc = "idle" THEN late ELSE late \cup {c}
    /\ calm' = FALSE
    /\ UNCHANGED <<nas, ndirs, trash, rec, pc, listed, worth, plain, owner, faults>>

\* category.migrate_or_record, under the key k: a row of the same content whose
\* file is gone moves here, one whose file is still there lends its scores, and
\* without one a new row starts.  Which row is found first is left open.
Recorded(k) ==
    LET c == local[k[2]]
        Hits == {l \in Keys : rec[l] # NoRow /\ rec[l].hash = c}
    IN  IF Hits = {} THEN {[rec EXCEPT ![k] = Row(k[2], c, FALSE)]}
        ELSE {[rec EXCEPT ![l] = IF l # k /\ ~Exists(l, local) THEN NoRow ELSE @,
                          ![k] = Row(k[2], c, rec[l].kept)] : l \in Hits}

Analyse(p) ==
    /\ <<"analyse", p>> \in tasks
    /\ tasks' = tasks \ {<<"analyse", p>>}
    /\ IF local[p] = None THEN rec' = rec ELSE rec' \in Recorded(<<Own, p>>)
    /\ Disturb
    /\ UNCHANGED <<files, owner, uploads, faults>>

\* push_frame_dir: rsync of the whole folder to the NAS, of the root without
\* its folders.  A folder that is gone by then is not pushed.
Push(d) ==
    /\ <<"push", d>> \in tasks
    /\ tasks' = tasks \ {<<"push", d>>}
    /\ IF d = Root \/ d \in dirs
       THEN /\ nas' = [p \in Paths |-> IF p \in In(local, d) THEN local[p] ELSE nas[p]]
            /\ ndirs' = ndirs \cup ({d} \ {Root})
       ELSE UNCHANGED <<nas, ndirs>>
    /\ Disturb
    /\ UNCHANGED <<local, dirs, trash, rec, owner, uploads, faults>>

\* The NAS is not configured, not reachable, or the server ends: the task is
\* gone; the next upload to the folder pushes what is there.
PushFails ==
    /\ faults < MaxFaults
    /\ faults' = faults + 1
    /\ \E d \in Places : <<"push", d>> \in tasks /\ tasks' = tasks \ {<<"push", d>>}
    /\ UNCHANGED <<files, rec, sync, owner, uploads>>

-----------------------------------------------------------------------------
(* Folder requests of the console: NAS first, then the mirror, then the rows. *)

CreateFolder(d) ==
    /\ d \notin dirs /\ d \notin ndirs
    /\ ndirs' = ndirs \cup {d} /\ dirs' = dirs \cup {d}
    /\ UNCHANGED <<nas, local, trash, rec>>

\* A folder of a store f becomes another one.
Renamed(f, a, b) ==
    [p \in Paths |-> CASE p[1] = b -> f[<<a, p[2]>>] [] p[1] = a -> None [] OTHER -> f[p]]

\* db.rename_category: rows of the category are deleted and inserted one by one
\* under their new path; one that meets a row already there raises, and what was
\* done so far is committed by the next request.
Target(k, a, b) == IF k[2][1] = a THEN <<k[1], <<b, k[2][2]>>>> ELSE k

RowsMoved(a, b, done, lost) ==
    [l \in Keys |->
        IF \E k \in done : Target(k, a, b) = l
        THEN [rec[CHOOSE k \in done : Target(k, a, b) = l] EXCEPT !.cat = b]
        ELSE IF l \in done \cup lost THEN NoRow ELSE rec[l]]

RowsRenamed(a, b) ==
    LET Clash == {k \in RowsOf(a) : Target(k, a, b) # k /\ rec[Target(k, a, b)] # NoRow}
    IN  \/ Clash = {} /\ rec' = RowsMoved(a, b, RowsOf(a), {})
        \/ \E done \in SUBSET (RowsOf(a) \ Clash), k \in Clash :
             rec' = RowsMoved(a, b, done, {k})

RenameFolder(a, b) ==
    /\ a # b /\ a \in dirs /\ b \notin dirs
    /\ a \in ndirs /\ b \notin ndirs
    /\ nas' = Renamed(nas, a, b) /\ ndirs' = (ndirs \ {a}) \cup {b}
    /\ local' = Renamed(local, a, b) /\ dirs' = (dirs \ {a}) \cup {b}
    /\ RowsRenamed(a, b)
    /\ UNCHANGED trash

\* The process ends after the NAS has renamed the folder.
RenameCut(a, b) ==
    /\ faults < MaxFaults
    /\ a # b /\ a \in dirs /\ b \notin dirs
    /\ a \in ndirs /\ b \notin ndirs
    /\ nas' = Renamed(nas, a, b) /\ ndirs' = (ndirs \ {a}) \cup {b}
    /\ UNCHANGED <<local, dirs, trash, rec>>

DeleteFolder(d) ==
    /\ d \in dirs /\ In(local, d) = {}
    /\ d \in ndirs /\ In(nas, d) = {}
    /\ dirs' = dirs \ {d} /\ ndirs' = ndirs \ {d}
    /\ rec' = [k \in Keys |-> IF k \in RowsOf(d) THEN NoRow ELSE rec[k]]
    /\ UNCHANGED <<nas, local, trash>>

Console ==
    /\ owner < MaxOwner
    /\ owner' = owner + 1
    /\ \/ faults' = faults /\ \E d \in Folders : CreateFolder(d) \/ DeleteFolder(d)
       \/ faults' = faults /\ \E a, b \in Folders : RenameFolder(a, b)
       \/ faults' = faults + 1 /\ \E a, b \in Folders : RenameCut(a, b)
    /\ Disturb
    /\ UNCHANGED <<tasks, uploads>>

-----------------------------------------------------------------------------
(* sync_nas.sh                                                              *)

\* The list of the photos on the NAS comes over ssh; a connection that breaks
\* leaves what had come.  An empty list skips both relocations.
SyncStarts ==
    /\ pc = "idle"
    /\ listed' \in [Paths -> Photos \cup {None}]
    /\ \A p \in Paths : listed'[p] \in {nas[p], None}
    /\ faults' = IF listed' = nas THEN faults ELSE faults + 1
    /\ faults' <= MaxFaults
    /\ pc' = IF \E p \in Paths : listed'[p] # None THEN "pre" ELSE "rsync"
    /\ late' = {}
    /\ calm' = (listed' = nas)
    /\ worth' = {w \in Names \X Photos : KeptFor(w)}
    /\ UNCHANGED <<files, rec, tasks, plain, owner, uploads>>

\* Pairings of some of A with some of B that agree, each used once, as many as
\* possible.
Pairings(A, B, Agree(_, _)) ==
    LET All == {m \in A \X B : Agree(m[1], m[2])}
        Proper(M) == \A m, n \in M : m # n => m[1] # n[1] /\ m[2] # n[2]
    IN  {M \in SUBSET All : /\ Proper(M)
                            /\ \A m \in All \ M : ~Proper(M \cup {m})}

NonEmpty(dset, f) == {d \in dset : In(f, d) # {}}

\* relocate_pre: photos that are listed elsewhere are moved there, unless
\* another file is in the place (it may have left it just before).
Stray == {p \in Paths : local[p] # None /\ local[p] # listed[p]}
Wanted == {p \in Paths : listed[p] # None /\ local[p] # listed[p]}
ListedAt(p, q) == p[2] = q[2] /\ local[p] = listed[q]

Free(M) == {m \in M : local[m[2]] = None}
Freed(M) == {m \in M : \E n \in Free(M) : m[2] = n[1]}
Relocated(Moves) ==
    [p \in Paths |-> IF \E m \in Moves : m[2] = p THEN listed[p]
                     ELSE IF \E m \in Moves : m[1] = p THEN None
                     ELSE local[p]]

RelocatePre ==
    /\ pc = "pre"
    /\ \E M \in Pairings(Stray, Wanted, ListedAt) :
         \E X \in SUBSET Freed(M) : local' = Relocated(Free(M) \cup X)
    /\ dirs' = NonEmpty(Folders, local')
    /\ pc' = "rsync"
    /\ UNCHANGED <<nas, ndirs, trash, rec, tasks, listed, late, calm, worth, plain,
                   owner, uploads, faults>>

\* It may fail after some moves; the script goes on to rsync all the same.
RelocatePreFails ==
    /\ pc = "pre" /\ faults < MaxFaults
    /\ faults' = faults + 1
    /\ \E M \in Pairings(Stray, Wanted, ListedAt) :
         \E X \in SUBSET Free(M), Y \in SUBSET Freed(M) :
            /\ \A m \in Y : \E n \in X : m[2] = n[1]
            /\ local' = Relocated(X \cup Y)
    /\ dirs' = dirs \cup NonEmpty(Folders, local')
    /\ pc' = "rsync"
    /\ UNCHANGED <<nas, ndirs, trash, rec, tasks, listed, late, calm, worth, plain,
                   owner, uploads>>

\* Variant: rsync --ignore-existing, which leaves files that differ.
RsyncAddsOnly ==
    /\ pc = "rsync"
    /\ local' = [p \in Paths |-> IF local[p] = None THEN nas[p] ELSE local[p]]
    /\ dirs' = dirs \cup ndirs
    /\ pc' = IF \E p \in Paths : listed[p] # None THEN "post" ELSE "analyse"
    /\ UNCHANGED <<nas, ndirs, trash, rec, tasks, listed, late, calm, worth, plain,
                   owner, uploads, faults>>

\* rsync without --delete: every photo of the NAS, and its folders.
Rsync ==
    /\ pc = "rsync"
    /\ local' = [p \in Paths |-> IF nas[p] # None THEN nas[p] ELSE local[p]]
    /\ dirs' = dirs \cup ndirs
    /\ pc' = IF \E p \in Paths : listed[p] # None THEN "post" ELSE "analyse"
    /\ UNCHANGED <<nas, ndirs, trash, rec, tasks, listed, late, calm, worth, plain,
                   owner, uploads, faults>>

\* It breaks off after some of them; nothing more is done.
RsyncFails ==
    /\ pc = "rsync" /\ faults < MaxFaults
    /\ faults' = faults + 1
    /\ \E come \in SUBSET {p \in Paths : nas[p] # None} :
         local' = [p \in Paths |-> IF p \in come THEN nas[p] ELSE local[p]]
    /\ dirs' = dirs \cup ndirs
    /\ pc' = "idle"
    /\ UNCHANGED <<nas, ndirs, trash, rec, tasks, listed, late, calm, worth, plain,
                   owner, uploads>>

\* Variant: without the time of the start.
OrphansOfAnyAge ==
    {p \in Paths : /\ local[p] # None
                   /\ listed[p] = None
                   /\ ~\E q \in Paths : q[2] = p[2] /\ listed[q] = local[p]}

\* Files of the mirror that the NAS does not have: not listed under their path,
\* nor under another path by name and size, and older than the start.
Orphans ==
    {p \in Paths : /\ local[p] # None
                   /\ listed[p] = None
                   /\ ~\E q \in Paths : q[2] = p[2] /\ listed[q] = local[p]
                   /\ local[p] \notin late}

\* Variant: rows whose file is gone are deleted.
RowsDropped ==
    rec' = [k \in Keys |-> IF local'[k[2]] = None THEN NoRow ELSE rec[k]]

\* The rows whose file is not found, and where the file of one may be now.
Dead == {k \in Keys : rec[k] # NoRow /\ ~Exists(k, local')}
Kept == {p \in Paths : local'[p] # None}
FoundAt(k, p) == k[2][2] = p[2] /\ rec[k].hash = local'[p]

\* The key such a row gets: an absolute one becomes the path under the root as
\* the script named it, str(hit); another one is relative to its parent.
NewKey(m) == <<IF m[1][1] # "absolute" THEN "service" ELSE IF AbsLib THEN "absolute" ELSE "stray",
               m[2]>>

Followed(M) ==
    [k \in Keys |-> IF \E m \in M : NewKey(m) = k
                    THEN rec[(CHOOSE m \in M : NewKey(m) = k)[1]]
                    ELSE IF k \in Dead THEN NoRow ELSE rec[k]]

\* Such a row follows its photo by its hash or is deleted, all in one
\* transaction.  A row that would get the key of another row breaks the
\* primary key, unless that row got a new key before: nothing is changed.
RowsFollow ==
    \E M \in Pairings(Dead, Kept, FoundAt) :
       LET Taken == {NewKey(m) : m \in M} \cap {k \in Keys : rec[k] # NoRow}
       IN  \/ Taken # {} /\ rec' = rec
           \/ Taken \subseteq {m[1] : m \in M} /\ rec' = Followed(M)

RelocatePost ==
    /\ pc = "post"
    /\ local' = [p \in Paths |-> IF p \in Orphans THEN None ELSE local[p]]
    /\ trash' = [p \in Paths |-> IF p \in Orphans THEN local[p] ELSE trash[p]]
    /\ dirs' = NonEmpty(Folders, local')
    /\ RowsFollow
    /\ plain' = Unclashed
    /\ pc' = "analyse"
    /\ UNCHANGED <<nas, ndirs, tasks, listed, late, calm, worth, owner, uploads, faults>>

\* It fails, with some of the orphans in the trash and no row changed: the
\* script warns and goes on to the analysis.
RelocatePostFails ==
    /\ pc = "post" /\ faults < MaxFaults
    /\ faults' = faults + 1
    /\ \E X \in SUBSET Orphans :
         /\ local' = [p \in Paths |-> IF p \in X THEN None ELSE local[p]]
         /\ trash' = [p \in Paths |-> IF p \in X THEN local[p] ELSE trash[p]]
         /\ dirs' \in IF X = Orphans THEN {dirs, NonEmpty(Folders, local')} ELSE {dirs}
    /\ plain' = FALSE
    /\ pc' = "analyse"
    /\ UNCHANGED <<nas, ndirs, rec, tasks, listed, late, calm, worth, owner, uploads>>

\* analyze_photos.py, which is given an absolute path and looks for rows under
\* absolute paths only: their category is made that of the path, and a photo
\* without such a row gets one that waits for its analysis, whatever other row
\* it has.  NAS_AUTO_ANALYZE may switch it off.
RefreshCategories ==
    /\ pc = "analyse"
    /\ \E on \in BOOLEAN :
         /\ rec' = [k \in Keys |->
                      IF on /\ k[1] = "absolute" /\ local[k[2]] # None
                      THEN [IF rec[k] = NoRow THEN Row(k[2], None, FALSE) ELSE rec[k]
                              EXCEPT !.cat = k[2][1]]
                      ELSE rec[k]]
         /\ pc' = IF on THEN "new" ELSE "done"
    /\ UNCHANGED <<files, tasks, listed, late, calm, worth, plain, owner, uploads, faults>>

Analysed(p) == rec[<<"absolute", p>>].hash # None
Pending == {p \in Paths : local[p] # None /\ ~Analysed(p)}

AnalyseNew ==
    /\ pc = "new"
    /\ IF Pending = {} THEN pc' = "done" /\ rec' = rec
       ELSE pc' = pc /\ \E p \in Pending : rec' \in Recorded(<<"absolute", p>>)
    /\ UNCHANGED <<files, tasks, listed, late, calm, worth, plain, owner, uploads, faults>>

\* It fails at some photos, or ends early.
AnalyseFails ==
    /\ pc = "new" /\ Pending # {} /\ faults < MaxFaults
    /\ faults' = faults + 1
    /\ pc' = "done"
    /\ UNCHANGED <<files, rec, tasks, listed, late, calm, worth, plain, owner, uploads>>

SyncEnds ==
    /\ pc = "done"
    /\ pc' = "idle"
    /\ UNCHANGED <<files, rec, tasks, listed, late, calm, worth, plain, owner, uploads, faults>>

Next == \/ Owner \/ Console
        \/ \E p \in Paths, c \in Photos : Upload(p, c)
        \/ \E p \in Paths : Analyse(p)
        \/ \E d \in Places : Push(d)
        \/ PushFails
        \/ SyncStarts \/ RelocatePre \/ RelocatePreFails \/ Rsync \/ RsyncFails
        \/ RelocatePost \/ RelocatePostFails
        \/ RefreshCategories \/ AnalyseNew \/ AnalyseFails \/ SyncEnds

Spec == Init /\ [][Next]_vars

-----------------------------------------------------------------------------
(* Type invariant.                                                          *)
TypeOK == /\ nas \in [Paths -> Photos \cup {None}]
          /\ local \in [Paths -> Photos \cup {None}]
          /\ trash \in [Paths -> Photos \cup {None}]
          /\ listed \in [Paths -> Photos \cup {None}]
          /\ ndirs \subseteq Folders /\ dirs \subseteq Folders
          /\ \A d \in Folders : /\ In(nas, d) # {} => d \in ndirs
                                /\ In(local, d) # {} => d \in dirs
          /\ rec \in [Keys -> Rows \cup {NoRow}]
          /\ tasks \subseteq ({"analyse"} \X Paths) \cup ({"push"} \X Places)
          /\ pc \in Steps
          /\ late \subseteq Photos
          /\ calm \in BOOLEAN /\ plain \in BOOLEAN
          /\ worth \subseteq Names \X Photos
          /\ owner \in 0..MaxOwner /\ uploads \in 0..MaxUploads /\ faults \in 0..MaxFaults

(* A synchronisation at its end that had the whole list, not an empty one,  *)
(* and met no other change.                                                 *)
Undisturbed == pc = "done" /\ calm /\ \E p \in Paths : listed[p] # None

(* After an undisturbed synchronisation the mirror holds every photo of the *)
(* NAS under its path, whatever the owner had moved, copied or deleted      *)
(* before: neither relocation moves a photo away from where it belongs.     *)
Mirrored == Undisturbed => \A p \in Paths : nas[p] # None => local[p] = nas[p]

(* Photos uploaded while a synchronisation runs are not in its list; they   *)
(* leave the mirror only when rsync puts the NAS's photo into their place.  *)
LateStay ==
    \A p \in Paths : pc # "idle" /\ local[p] \in late /\ ~Has(local', local[p])
                      => Has(nas, local[p]) \/ (local'[p] = nas[p] /\ nas[p] # None)

(* No step of the server takes away a photo that was uploaded during a      *)
(* synchronisation, except as LateStay says.                                *)
LateUploadStays == [][LateStay]_vars

(* After an undisturbed synchronisation whose rows could follow their files *)
(* every row names a place with a photo; a photo that had scores worth      *)
(* keeping and is still on the NAS keeps them through any move; and once    *)
(* every photo has been analysed the service finds the file of every row.   *)
(* Until then a row that followed its photo from an absolute path may have  *)
(* one that the service does not find: it keeps the scores for the analysis *)
(* to take.  Rows are followed by file name and content: under another name *)
(* a photo is analysed anew.                                                *)
ScoresFollow ==
    Undisturbed /\ plain =>
        /\ \A k \in Keys : rec[k] # NoRow => local[k[2]] # None
        /\ \A w \in worth : (\E q \in Paths : q[2] = w[1] /\ nas[q] = w[2]) => KeptFor(w)
        /\ Pending = {} => \A k \in Keys : rec[k] # NoRow => Exists(k, local)
=============================================================================

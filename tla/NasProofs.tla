----------------------------- MODULE NasProofs ------------------------------
(* The synchronisation with the NAS: what it keeps, for any folders, names  *)
(* and photos, and who may run it, for any number of launches and kills.    *)
EXTENDS Library, SyncLock, FiniteSetTheorems, TLAPS

-----------------------------------------------------------------------------
(* The invariant.                                                           *)

Files == [Paths -> Photos \cup {None}]
Stores ==
  /\ nas \in Files /\ local \in Files /\ trash \in Files /\ listed \in Files
  /\ ndirs \subseteq Folders /\ dirs \subseteq Folders
  /\ late \subseteq Photos
  /\ pc \in Steps

(* A folder with a photo in it is a folder there is.                        *)
Known(f, ds) == \A p \in Paths : p[1] \in Folders /\ f[p] # None => p[1] \in ds
Foldered == Known(nas, ndirs) /\ Known(local, dirs)

(* A list nothing has changed since is the NAS, and once rsync has run the  *)
(* mirror has all of it.                                                    *)
Complete ==
  calm => /\ pc # "idle" => listed = nas
          /\ pc \in {"post", "analyse", "new", "done"} =>
               \A p \in Paths : nas[p] # None => local[p] = nas[p]

Recs == rec \in [Keys -> Rows \cup {NoRow}]
Flags == calm \in BOOLEAN /\ plain \in BOOLEAN /\ worth \subseteq Names \X Photos
Tasks == tasks \subseteq ({"analyse"} \X Paths) \cup ({"push"} \X Places)
Numbers == owner \in 0..MaxOwner /\ uploads \in 0..MaxUploads /\ faults \in 0..MaxFaults

IInv == Stores /\ Foldered /\ Complete /\ Recs /\ Flags /\ Tasks /\ Numbers

LEMMA Halves == \A p \in Paths : /\ p = <<p[1], p[2]>> /\ p[1] \in Folders \cup {Root} /\ p[2] \in Names
BY DEF Paths, Places

LEMMA KeyHalves == \A k \in Keys : k = <<k[1], k[2]>> /\ k[1] \in Forms /\ k[2] \in Paths
BY DEF Keys

LEMMA PathKeys == \A form \in Forms, p \in Paths : <<form, p>> \in Keys /\ <<form, p>>[2] = p
BY DEF Keys

LEMMA OwnForm == Own \in Forms /\ "absolute" \in Forms
BY DEF Own, Forms

(* Whatever is moved, its photo is where the list has it.                   *)
LEMMA PreKeeps ==
  ASSUME IInv, RelocatePre \/ RelocatePreFails, NEW p \in Paths, local[p] # None
  PROVE  Has(local', local[p])
<1>0. PICK M \in Pairings(Stray, Wanted, ListedAt) :
        \E F \in SUBSET Free(M), X \in SUBSET Freed(M) :
           (\A m \in X : \E n \in F : m[2] = n[1]) /\ local' = Relocated(F \cup X)
    <2>1. CASE RelocatePre
        <3>1. PICK M \in Pairings(Stray, Wanted, ListedAt) :
                \E X \in SUBSET Freed(M) : local' = Relocated(Free(M) \cup X)
            BY <2>1 DEF RelocatePre
        <3>2. \A X \in SUBSET Freed(M) : \A m \in X : \E n \in Free(M) : m[2] = n[1]
            BY DEF Freed
        <3> QED BY <3>1, <3>2
    <2>2. CASE RelocatePreFails
        BY <2>2 DEF RelocatePreFails
    <2> QED BY <2>1, <2>2
<1>1. PICK F \in SUBSET Free(M), X \in SUBSET Freed(M) :
           (\A m \in X : \E n \in F : m[2] = n[1]) /\ local' = Relocated(F \cup X)
    BY <1>0
<1>2. /\ M \subseteq Paths \X Paths
      /\ \A m \in M : local[m[1]] = listed[m[2]] /\ listed[m[2]] # None
    BY DEF Pairings, Stray, Wanted, ListedAt
<1> DEFINE Moves == F \cup X
<1>3. Moves \subseteq M
    BY DEF Free, Freed
<1>4. local' = [q \in Paths |-> IF \E m \in Moves : m[2] = q THEN listed[q]
                               ELSE IF \E m \in Moves : m[1] = q THEN None
                               ELSE local[q]]
    BY <1>1 DEF Relocated
<1> HIDE DEF Moves
<1>5. ASSUME NEW m \in Moves, m[1] = p PROVE Has(local', local[p])
    <2>1. m[2] \in Paths /\ local'[m[2]] = local[p]
        BY <1>2, <1>3, <1>4, <1>5
    <2> QED BY <1>4, <2>1 DEF Has
<1>6. ASSUME NEW m \in Moves, m[2] = p PROVE \E n \in Moves : n[1] = p
    <2>1. m \in X
        BY <1>6 DEF Moves, Free
    <2> QED BY <1>1, <1>6, <2>1 DEF Moves
<1>7. CASE ~\E m \in Moves : m[1] = p \/ m[2] = p
    BY <1>4, <1>7 DEF Has
<1> QED BY <1>5, <1>6, <1>7

LEMMA InitIInv == Init => IInv
<1> SUFFICES ASSUME Init PROVE IInv
    OBVIOUS
<1>1. Stores
    BY DEF Init, Stores, Files, In, Steps
<1>2. Foldered
    BY DEF Init, Foldered, Known, In
<1>3. Complete
    BY DEF Init, Complete
<1>4. Recs
    <2>1. PICK form \in {Own, "absolute"} :
             rec = [k \in Keys |-> IF nas[k[2]] = None \/ k[1] # form THEN NoRow
                                   ELSE Row(k[2], nas[k[2]], TRUE)]
        BY DEF Init
    <2>2. \A p \in Paths : nas[p] # None => Row(p, nas[p], TRUE) \in Rows
        BY Halves DEF Init, Rows, Row, Places
    <2> QED BY <2>1, <2>2, KeyHalves DEF Recs
<1>5. Flags /\ Tasks
    BY DEF Init, Flags, Tasks
<1>6. Numbers
    BY LibraryAssumption DEF Init, Numbers
<1> QED BY <1>1, <1>2, <1>3, <1>4, <1>5, <1>6 DEF IInv

-----------------------------------------------------------------------------
(* Rows.                                                                    *)

LEMMA RowParts ==
  ASSUME NEW H, NEW B, NEW r \in [cat : Places, hash : H, kept : B], NEW b \in Places
  PROVE  /\ r.kept \in B
         /\ [r EXCEPT !.cat = b] \in [cat : Places, hash : H, kept : B]
OBVIOUS

LEMMA Moved ==
  ASSUME NEW b \in Places, NEW row \in Rows
  PROVE  [row EXCEPT !.cat = b] \in Rows
BY RowParts, Zenon DEF Rows

LEMMA RecordedTyped ==
  ASSUME IInv, NEW k \in Keys, local[k[2]] # None, NEW r \in Recorded(k)
  PROVE  r \in [Keys -> Rows \cup {NoRow}]
<1>1. /\ k[2] \in Paths /\ local[k[2]] \in Photos /\ k[2][1] \in Places
      /\ rec \in [Keys -> Rows \cup {NoRow}]
    BY Halves, KeyHalves DEF IInv, Stores, Files, Recs, Places
<1>2. \A b \in BOOLEAN : Row(k[2], local[k[2]], b) \in Rows
    BY <1>1 DEF Row, Rows
<1>3. \A l \in Keys : rec[l] # NoRow => rec[l].kept \in BOOLEAN
    <2>1. ASSUME NEW l \in Keys, rec[l] # NoRow PROVE rec[l].kept \in BOOLEAN
        <3>1. rec[l] \in [cat : Places, hash : Photos \cup {None}, kept : BOOLEAN]
            BY <1>1, <2>1 DEF Rows
        <3> QED BY <3>1, <1>1, RowParts, Zenon
    <2> QED BY <2>1
<1>4. CASE r = [rec EXCEPT ![k] = Row(k[2], local[k[2]], FALSE)]
    BY <1>1, <1>2, <1>4
<1>5. ASSUME NEW l \in Keys, rec[l] # NoRow,
             r = [rec EXCEPT ![l] = IF l # k /\ ~Exists(l, local) THEN NoRow ELSE @,
                             ![k] = Row(k[2], local[k[2]], rec[l].kept)]
      PROVE  r \in [Keys -> Rows \cup {NoRow}]
    <2>1. Row(k[2], local[k[2]], rec[l].kept) \in Rows
        BY <1>2, <1>3, <1>5
    <2>2. (IF l # k /\ ~Exists(l, local) THEN NoRow ELSE rec[l]) \in Rows \cup {NoRow}
        BY <1>1
    <2> QED BY <1>1, <1>5, <2>1, <2>2
<1> QED BY <1>4, <1>5 DEF Recorded

LEMMA RenamedTyped ==
  ASSUME IInv, NEW a \in Folders, NEW b \in Folders, RowsRenamed(a, b)
  PROVE  Recs'
<1>1. PICK done \in SUBSET RowsOf(a) : \E lost : rec' = RowsMoved(a, b, done, lost)
    BY DEF RowsRenamed
<1>2. \A k \in done : k \in Keys /\ rec[k] \in Rows
    BY DEF RowsOf, IInv, Recs
<1>3. \A row \in Rows : [row EXCEPT !.cat = b] \in Rows
    <2>1. b \in Places
        BY DEF Places
    <2> QED BY <2>1, Moved
<1>4. \A l \in Keys : (\E k \in done : Target(k, a, b) = l) =>
         [rec[CHOOSE k \in done : Target(k, a, b) = l] EXCEPT !.cat = b] \in Rows
    BY <1>2, <1>3
<1>5. \A l \in Keys : rec[l] \in Rows \cup {NoRow}
    BY DEF IInv, Recs
<1> QED BY <1>1, <1>4, <1>5 DEF RowsMoved, Recs

LEMMA FollowTyped ==
  ASSUME IInv, RowsFollow
  PROVE  Recs'
<1>0. PICK M \in Pairings(Dead, Kept, FoundAt) : rec' = rec \/ rec' = Followed(M)
    BY DEF RowsFollow
<1>1. \A m \in M : m[1] \in Keys
    BY DEF Pairings, Dead
<1>2. \A k \in Keys : (\E m \in M : NewKey(m) = k) => (CHOOSE m \in M : NewKey(m) = k)[1] \in Keys
    BY <1>1
<1>3. \A k \in Keys : rec[k] \in Rows \cup {NoRow}
    BY DEF IInv, Recs
<1>4. CASE rec' = rec
    BY <1>4 DEF IInv, Recs
<1>5. CASE rec' = Followed(M)
    BY <1>2, <1>3, <1>5 DEF Recs, Followed
<1> QED BY <1>0, <1>4, <1>5

-----------------------------------------------------------------------------
(* Folders.                                                                 *)

LEMMA RenamedStore ==
  ASSUME NEW f \in Files, NEW ds, Known(f, ds), NEW a \in Folders, NEW b \in Folders, a # b
  PROVE  /\ Renamed(f, a, b) \in Files
         /\ Known(Renamed(f, a, b), (ds \ {a}) \cup {b})
<1>1. \A p \in Paths : <<a, p[2]>> \in Paths
    BY Halves DEF Paths, Places
<1>2. Renamed(f, a, b) = [p \in Paths |-> CASE p[1] = b -> f[<<a, p[2]>>]
                                          [] p[1] = a -> None [] OTHER -> f[p]]
    BY DEF Renamed
<1>3. \A p \in Paths : Renamed(f, a, b)[p] = IF p[1] = b THEN f[<<a, p[2]>>]
                                              ELSE IF p[1] = a THEN None ELSE f[p]
    BY <1>2
<1>4. Renamed(f, a, b) \in Files
    BY <1>1, <1>2 DEF Files
<1>5. Known(Renamed(f, a, b), (ds \ {a}) \cup {b})
    BY <1>3 DEF Known
<1> QED BY <1>4, <1>5

LEMMA OverlayKnown ==
  ASSUME NEW f, NEW g, NEW h, NEW ds, NEW es, Known(f, ds), Known(g, es),
         \A p \in Paths : h[p] \in {f[p], g[p], None}
  PROVE  Known(h, ds \cup es)
BY DEF Known

LEMMA NonEmptyKnown == \A f \in Files : Known(f, NonEmpty(Folders, f))
BY DEF Known, NonEmpty, In, Files

LEMMA PostKeeps ==
  ASSUME IInv, RelocatePost \/ RelocatePostFails, NEW p \in Paths
  PROVE  local'[p] = local[p] \/ (local'[p] = None /\ listed[p] = None /\ local[p] \notin late)
BY DEF RelocatePost, RelocatePostFails, Orphans

-----------------------------------------------------------------------------
(* No step leaves the invariant.                                            *)

LEMMA OwnerIInv == IInv /\ Owner => IInv'
<1> SUFFICES ASSUME IInv, Owner PROVE IInv'
    OBVIOUS
<1>0. PICK p \in Paths : /\ nas[p] # None
                         /\ \/ OwnerDeletes(p)
                            \/ \E q \in Paths, keep \in BOOLEAN : OwnerMoves(p, q, keep)
    BY DEF Owner
<1>1. Stores' /\ Known(nas, ndirs)'
    <2>1. CASE OwnerDeletes(p)
        BY <2>1 DEF IInv, Stores, Foldered, Files, Known, Owner, OwnerDeletes, files, Disturb
    <2>2. ASSUME NEW q \in Paths, NEW keep \in BOOLEAN, OwnerMoves(p, q, keep)
          PROVE  Stores' /\ Known(nas, ndirs)'
        <3>1. /\ nas' \in Files
              /\ \A r \in Paths \ {q} : nas'[r] \in {nas[r], None}
            BY <2>2 DEF IInv, Stores, Files, OwnerMoves
        <3>2. ndirs' = ndirs \cup ({q[1]} \ {Root}) /\ ndirs' \subseteq Folders
            BY <2>2, Halves DEF IInv, Stores, OwnerMoves
        <3>3. Known(nas, ndirs)'
            BY <3>1, <3>2, LibraryAssumption DEF IInv, Foldered, Known
        <3> QED BY <3>1, <3>2, <3>3 DEF IInv, Stores, Owner, Disturb
    <2> QED BY <1>0, <2>1, <2>2
<1>2. Known(local, dirs)' /\ Complete' /\ Recs' /\ Tasks'
    BY DEF IInv, Foldered, Known, Complete, Recs, Tasks, Owner, Disturb
<1>3. Flags'
    BY Zenon DEF IInv, Flags, Owner, Disturb
<1>4. Numbers'
    BY LibraryAssumption DEF IInv, Numbers, Owner
<1> QED BY <1>1, <1>2, <1>3, <1>4 DEF IInv, Foldered

LEMMA UploadIInv ==
  ASSUME IInv, NEW p \in Paths, NEW c \in Photos, Upload(p, c)
  PROVE  IInv'
<1>1. Stores'
    BY Halves DEF IInv, Stores, Files, Upload
<1>2. Foldered'
    BY Halves, LibraryAssumption DEF IInv, Stores, Files, Foldered, Known, Upload
<1>3. Complete' /\ Recs'
    BY DEF IInv, Complete, Recs, Upload
<1>4. Tasks'
    <2>1. p[1] \in Places
        BY Halves DEF Places
    <2> QED BY <2>1 DEF IInv, Tasks, Upload
<1>5. Flags'
    BY Zenon DEF IInv, Flags, Upload
<1>6. Numbers'
    BY LibraryAssumption DEF IInv, Numbers, Upload
<1> QED BY <1>1, <1>2, <1>3, <1>4, <1>5, <1>6 DEF IInv

LEMMA AnalyseIInv ==
  ASSUME IInv, NEW p \in Paths, Analyse(p)
  PROVE  IInv'
<1>1. Recs'
    <2>1. CASE local[p] = None
        BY <2>1 DEF IInv, Recs, Analyse
    <2>2. CASE local[p] # None
        <3>1. <<Own, p>> \in Keys /\ <<Own, p>>[2] = p
            BY PathKeys, OwnForm
        <3>2. rec' \in Recorded(<<Own, p>>)
            BY <2>2 DEF Analyse
        <3> QED BY <2>2, <3>1, <3>2, RecordedTyped DEF Recs
    <2> QED BY <2>1, <2>2
<1>2. Stores' /\ Foldered' /\ Complete' /\ Tasks'
    BY DEF IInv, Stores, Foldered, Known, Complete, Tasks, Analyse, files, Disturb
<1>3. Flags'
    BY Zenon DEF IInv, Flags, Analyse, Disturb
<1>4. Numbers'
    BY DEF IInv, Numbers, Analyse
<1> QED BY <1>1, <1>2, <1>3, <1>4 DEF IInv

LEMMA PushIInv ==
  ASSUME IInv, NEW d \in Places, Push(d)
  PROVE  IInv'
<1>1. nas' \in Files /\ ndirs' \subseteq Folders
    BY DEF IInv, Stores, Files, Push, In, Places
<1>2. Known(nas, ndirs)'
    BY LibraryAssumption DEF IInv, Foldered, Known, Push, In, Places
<1>3. Stores' /\ Known(local, dirs)' /\ Complete' /\ Tasks' /\ Recs'
    BY <1>1 DEF IInv, Stores, Foldered, Known, Complete, Tasks, Recs, Push, Disturb
<1>4. Flags'
    BY Zenon DEF IInv, Flags, Push, Disturb
<1>5. Numbers'
    BY DEF IInv, Numbers, Push
<1> QED BY <1>2, <1>3, <1>4, <1>5 DEF IInv, Foldered

LEMMA PushFailsIInv == IInv /\ PushFails => IInv'
<1> SUFFICES ASSUME IInv, PushFails PROVE IInv'
    OBVIOUS
<1>1. Stores' /\ Foldered' /\ Complete' /\ Tasks' /\ Recs'
    BY DEF IInv, Stores, Foldered, Known, Complete, Tasks, Recs, PushFails, files, sync
<1>2. Flags'
    BY Zenon DEF IInv, Flags, PushFails, sync
<1>3. Numbers'
    BY LibraryAssumption DEF IInv, Numbers, PushFails
<1> QED BY <1>1, <1>2, <1>3 DEF IInv

LEMMA ConsoleIInv == IInv /\ Console => IInv'
<1> SUFFICES ASSUME IInv, Console PROVE IInv'
    OBVIOUS
<1>0. PICK a \in Folders, b \in Folders :
        \/ faults' = faults /\ (CreateFolder(a) \/ DeleteFolder(a) \/ RenameFolder(a, b))
        \/ faults' = faults + 1 /\ RenameCut(a, b)
    BY DEF Console
<1>1. Stores' /\ Foldered' /\ Recs'
    <2>1. CASE CreateFolder(a)
        BY <2>1 DEF IInv, Stores, Foldered, Known, Recs, Console, Disturb, CreateFolder
    <2>2. CASE DeleteFolder(a)
        <3>1. Recs'
            BY <2>2 DEF IInv, Recs, DeleteFolder
        <3>2. Stores'
            BY <2>2 DEF IInv, Stores, Console, Disturb, DeleteFolder
        <3>3. Foldered'
            BY <2>2 DEF IInv, Foldered, Known, In, Stores, Files, DeleteFolder
        <3> QED BY <3>1, <3>2, <3>3
    <2>3. CASE RenameFolder(a, b)
        <3>1. Recs'
            BY <2>3, RenamedTyped DEF RenameFolder
        <3>2. a # b /\ nas \in Files /\ local \in Files /\ Known(nas, ndirs) /\ Known(local, dirs)
            BY <2>3 DEF RenameFolder, IInv, Stores, Foldered
        <3>3. /\ nas' = Renamed(nas, a, b) /\ ndirs' = (ndirs \ {a}) \cup {b}
              /\ local' = Renamed(local, a, b) /\ dirs' = (dirs \ {a}) \cup {b}
              /\ trash' = trash
            BY <2>3 DEF RenameFolder
        <3>4. nas' \in Files /\ Known(nas', ndirs') /\ local' \in Files /\ Known(local', dirs')
            BY <3>2, <3>3, RenamedStore
        <3> QED BY <3>1, <3>3, <3>4 DEF IInv, Stores, Foldered, Known, Console, Disturb
    <2>4. CASE RenameCut(a, b)
        <3>2. a # b /\ nas \in Files /\ Known(nas, ndirs)
            BY <2>4 DEF RenameCut, IInv, Stores, Foldered
        <3>3. /\ nas' = Renamed(nas, a, b) /\ ndirs' = (ndirs \ {a}) \cup {b}
              /\ local' = local /\ dirs' = dirs /\ trash' = trash /\ rec' = rec
            BY <2>4 DEF RenameCut
        <3>4. nas' \in Files /\ Known(nas', ndirs')
            BY <3>2, <3>3, RenamedStore
        <3> QED BY <3>3, <3>4 DEF IInv, Stores, Foldered, Known, Recs, Console, Disturb
    <2> QED BY <1>0, <2>1, <2>2, <2>3, <2>4
<1>2. Complete' /\ Tasks'
    BY DEF IInv, Complete, Tasks, Console, Disturb
<1>3. Flags'
    BY Zenon DEF IInv, Flags, Console, Disturb
<1>4. Numbers'
    BY <1>0, LibraryAssumption DEF IInv, Numbers, Console, RenameCut
<1> QED BY <1>1, <1>2, <1>3, <1>4 DEF IInv

LEMMA SyncStartsIInv == IInv /\ SyncStarts => IInv'
<1> SUFFICES ASSUME IInv, SyncStarts PROVE IInv'
    OBVIOUS
<1>1. Stores' /\ Foldered' /\ Recs' /\ Tasks'
    BY DEF IInv, Stores, Files, Steps, Foldered, Known, Recs, Tasks, SyncStarts, files
<1>2. pc' \in {"pre", "rsync"} /\ (calm' => listed' = nas /\ nas' = nas)
    BY DEF SyncStarts, files
<1>3. Complete'
    BY <1>2 DEF Complete
<1>4. calm' \in BOOLEAN /\ plain' \in BOOLEAN
    BY Zenon DEF SyncStarts, IInv, Flags
<1>5. worth' \subseteq Names \X Photos
    BY DEF SyncStarts
<1>6. owner' \in 0..MaxOwner /\ uploads' \in 0..MaxUploads
    BY DEF IInv, Numbers, SyncStarts
<1>7. faults' \in 0..MaxFaults
    <2>1. faults' \in {faults, faults + 1} /\ faults' <= MaxFaults
        BY DEF SyncStarts
    <2> QED BY <2>1, LibraryAssumption DEF IInv, Numbers
<1> QED BY <1>1, <1>3, <1>4, <1>5, <1>6, <1>7 DEF IInv, Flags, Numbers

LEMMA RelocatePreIInv == IInv /\ (RelocatePre \/ RelocatePreFails) => IInv'
<1> SUFFICES ASSUME IInv, RelocatePre \/ RelocatePreFails PROVE IInv'
    OBVIOUS
<1>1. local' \in Files
    <2>1. PICK Moves : local' = Relocated(Moves)
        BY DEF RelocatePre, RelocatePreFails
    <2> QED BY <2>1 DEF Relocated, IInv, Stores, Files
<1>2. Known(local', dirs') /\ dirs' \subseteq Folders
    <2>1. Known(local', NonEmpty(Folders, local')) /\ NonEmpty(Folders, local') \subseteq Folders
        BY <1>1, NonEmptyKnown DEF NonEmpty
    <2>2. dirs' \in {NonEmpty(Folders, local'), dirs \cup NonEmpty(Folders, local')}
        BY DEF RelocatePre, RelocatePreFails
    <2> QED BY <2>1, <2>2 DEF Known, IInv, Stores
<1>3. Stores' /\ Foldered' /\ Recs' /\ Tasks'
    BY <1>1, <1>2 DEF IInv, Stores, Steps, Foldered, Known, Recs, Tasks, RelocatePre, RelocatePreFails
<1>4. Complete'
    BY DEF IInv, Complete, RelocatePre, RelocatePreFails
<1>5. Flags'
    BY Zenon DEF IInv, Flags, RelocatePre, RelocatePreFails
<1>6. Numbers'
    BY LibraryAssumption DEF IInv, Numbers, RelocatePre, RelocatePreFails
<1> QED BY <1>3, <1>4, <1>5, <1>6 DEF IInv

LEMMA RsyncIInv == IInv /\ (Rsync \/ RsyncFails) => IInv'
<1> SUFFICES ASSUME IInv, Rsync \/ RsyncFails PROVE IInv'
    OBVIOUS
<1>1. local' \in Files /\ \A p \in Paths : local'[p] \in {nas[p], local[p], None}
    BY DEF IInv, Stores, Files, Rsync, RsyncFails
<1>2. dirs' = ndirs \cup dirs
    BY DEF Rsync, RsyncFails
<1>3. Known(local', dirs')
    BY <1>1, <1>2, OverlayKnown DEF IInv, Foldered
<1>4. Stores' /\ Foldered' /\ Recs' /\ Tasks'
    BY <1>1, <1>2, <1>3 DEF IInv, Stores, Steps, Foldered, Known, Recs, Tasks, Rsync, RsyncFails
<1>5. Complete'
    BY DEF IInv, Stores, Files, Complete, Rsync, RsyncFails
<1>6. Flags'
    BY Zenon DEF IInv, Flags, Rsync, RsyncFails
<1>7. Numbers'
    BY LibraryAssumption DEF IInv, Numbers, Rsync, RsyncFails
<1> QED BY <1>4, <1>5, <1>6, <1>7 DEF IInv

LEMMA RelocatePostIInv == IInv /\ (RelocatePost \/ RelocatePostFails) => IInv'
<1> SUFFICES ASSUME IInv, RelocatePost \/ RelocatePostFails PROVE IInv'
    OBVIOUS
<1>1. local' \in Files /\ trash' \in Files
    BY DEF IInv, Stores, Files, RelocatePost, RelocatePostFails
<1>2. Known(local', dirs') /\ dirs' \subseteq Folders
    <2>1. dirs' \in {dirs, NonEmpty(Folders, local')}
        BY DEF RelocatePost, RelocatePostFails
    <2>2. CASE dirs' = NonEmpty(Folders, local')
        BY <1>1, <2>2, NonEmptyKnown DEF NonEmpty
    <2>3. CASE dirs' = dirs
        <3>1. \A p \in Paths : local'[p] \in {local[p], None}
            BY PostKeeps
        <3> QED BY <2>3, <3>1 DEF IInv, Stores, Foldered, Known
    <2> QED BY <2>1, <2>2, <2>3
<1>3. Recs'
    BY FollowTyped DEF RelocatePost, RelocatePostFails, IInv, Recs
<1>4. Stores' /\ Foldered' /\ Tasks'
    BY <1>1, <1>2 DEF IInv, Stores, Steps, Foldered, Known, Tasks, RelocatePost, RelocatePostFails
<1>5. Complete'
    <2>1. \A p \in Paths : local'[p] = local[p] \/ listed[p] = None
        BY PostKeeps
    <2>2. pc = "post" /\ nas' = nas /\ listed' = listed /\ calm' = calm
        BY DEF RelocatePost, RelocatePostFails
    <2> QED BY <2>1, <2>2 DEF IInv, Complete
<1>6. calm' \in BOOLEAN /\ worth' \subseteq Names \X Photos
    BY DEF IInv, Flags, RelocatePost, RelocatePostFails
<1>7. plain' \in BOOLEAN
    BY Zenon DEF RelocatePost, RelocatePostFails, Unclashed
<1>8. Numbers'
    BY LibraryAssumption DEF IInv, Numbers, RelocatePost, RelocatePostFails
<1> QED BY <1>3, <1>4, <1>5, <1>6, <1>7, <1>8 DEF IInv, Flags

(* What the analysis does to the rows it finds.                             *)
LEMMA Refreshed ==
  ASSUME IInv, RefreshCategories, NEW k \in Keys
  PROVE  /\ rec'[k] \in Rows \cup {NoRow}
         /\ rec[k] # NoRow => /\ rec'[k] # NoRow /\ rec'[k].hash = rec[k].hash
                              /\ rec'[k].kept = rec[k].kept
         /\ rec[k] = NoRow /\ rec'[k] # NoRow => /\ k[1] = "absolute" /\ local[k[2]] # None
                                                 /\ rec'[k].hash = None
<1>1. PICK on \in BOOLEAN :
        rec' = [l \in Keys |->
                  IF on /\ l[1] = "absolute" /\ local[l[2]] # None
                  THEN [IF rec[l] = NoRow THEN Row(l[2], None, FALSE) ELSE rec[l]
                          EXCEPT !.cat = l[2][1]]
                  ELSE rec[l]]
    BY DEF RefreshCategories
<1>2. k[2][1] \in Places /\ k[2][1] # None /\ rec[k] \in Rows \cup {NoRow}
    BY Halves, KeyHalves, LibraryAssumption DEF Places, None, IInv, Recs
<1>3. CASE ~(on /\ k[1] = "absolute" /\ local[k[2]] # None)
    BY <1>1, <1>2, <1>3
<1>4. CASE on /\ k[1] = "absolute" /\ local[k[2]] # None
    <2> DEFINE row == IF rec[k] = NoRow THEN Row(k[2], None, FALSE) ELSE rec[k]
    <2>1. row \in Rows
        BY <1>2 DEF Row, Rows
    <2>2. rec'[k] = [row EXCEPT !.cat = k[2][1]]
        BY <1>1, <1>4
    <2>3. rec'[k] \in Rows
        BY <1>2, <2>1, <2>2, Moved
    <2>4. rec'[k].cat = k[2][1] /\ rec'[k].hash = row.hash /\ rec'[k].kept = row.kept
        BY <2>1, <2>2 DEF Rows
    <2>5. rec'[k] # NoRow
        BY <1>2, <2>4 DEF NoRow
    <2>6. rec[k] = NoRow => row.hash = None
        BY DEF Row
    <2> HIDE DEF row
    <2>7. rec[k] # NoRow => row = rec[k]
        BY DEF row
    <2> QED BY <1>4, <2>3, <2>4, <2>5, <2>6, <2>7
<1> QED BY <1>3, <1>4

LEMMA AnalyseNewIInv == IInv /\ (RefreshCategories \/ AnalyseNew \/ AnalyseFails \/ SyncEnds) => IInv'
<1> SUFFICES ASSUME IInv, RefreshCategories \/ AnalyseNew \/ AnalyseFails \/ SyncEnds PROVE IInv'
    OBVIOUS
<1>1. Recs'
    <2>1. CASE RefreshCategories
        <3>1. \A k \in Keys : rec'[k] \in Rows \cup {NoRow}
            BY <2>1, Refreshed
        <3>2. \E on \in BOOLEAN :
                rec' = [l \in Keys |->
                  IF on /\ l[1] = "absolute" /\ local[l[2]] # None
                  THEN [IF rec[l] = NoRow THEN Row(l[2], None, FALSE) ELSE rec[l]
                          EXCEPT !.cat = l[2][1]]
                  ELSE rec[l]]
            BY <2>1 DEF RefreshCategories
        <3> QED BY <3>1, <3>2 DEF Recs
    <2>2. ASSUME NEW p \in Pending, rec' \in Recorded(<<"absolute", p>>) PROVE Recs'
        <3>1. <<"absolute", p>> \in Keys /\ <<"absolute", p>>[2] = p /\ local[p] # None
            BY PathKeys, OwnForm DEF Pending
        <3> QED BY <2>2, <3>1, RecordedTyped DEF Recs
    <2>3. CASE rec' = rec
        BY <2>3 DEF IInv, Recs
    <2> QED BY <2>1, <2>2, <2>3 DEF AnalyseNew, AnalyseFails, SyncEnds
<1>2. /\ pc \in {"analyse", "new", "done"} /\ pc' \in {"new", "done", "idle"}
      /\ UNCHANGED <<files, tasks, listed, late, calm, worth, plain, owner, uploads>>
    BY DEF RefreshCategories, AnalyseNew, AnalyseFails, SyncEnds
<1>3. Stores' /\ Foldered' /\ Tasks'
    BY <1>2 DEF IInv, Stores, Steps, Foldered, Known, Tasks, files
<1>4. Complete'
    BY <1>2 DEF IInv, Complete, files
<1>5. Flags'
    BY <1>2, Zenon DEF IInv, Flags
<1>6. Numbers'
    <2>1. owner' = owner /\ uploads' = uploads
        BY <1>2
    <2>2. faults' = faults \/ (faults' = faults + 1 /\ faults < MaxFaults)
        BY DEF RefreshCategories, AnalyseNew, AnalyseFails, SyncEnds
    <2> QED BY <2>1, <2>2, LibraryAssumption DEF IInv, Numbers
<1> QED BY <1>1, <1>3, <1>4, <1>5, <1>6 DEF IInv

LEMMA NextIInv == IInv /\ [Next]_vars => IInv'
<1> SUFFICES ASSUME IInv, [Next]_vars PROVE IInv'
    OBVIOUS
<1>1. CASE UNCHANGED vars
    <2>1. Stores' /\ Foldered' /\ Complete' /\ Recs' /\ Tasks'
        BY <1>1 DEF IInv, Stores, Foldered, Known, Complete, Recs, Tasks, vars
    <2>2. Flags'
        BY <1>1, Zenon DEF IInv, Flags, vars
    <2>3. Numbers'
        BY <1>1 DEF IInv, Numbers, vars
    <2> QED BY <2>1, <2>2, <2>3 DEF IInv
<1> QED BY <1>1, OwnerIInv, ConsoleIInv, UploadIInv, AnalyseIInv, PushIInv, PushFailsIInv,
           SyncStartsIInv, RelocatePreIInv, RsyncIInv, RelocatePostIInv, AnalyseNewIInv DEF Next

-----------------------------------------------------------------------------
(* Stores, rows, tasks and counters keep their types, and no photo is in a  *)
(* folder that does not exist.                                              *)
THEOREM TypeCorrect == Spec => []TypeOK
<1>1. IInv => TypeOK
    <2> SUFFICES ASSUME IInv PROVE TypeOK
        OBVIOUS
    <2>1. /\ Stores /\ Recs /\ Tasks /\ Numbers
          /\ \A d \in Folders : /\ In(nas, d) # {} => d \in ndirs
                                /\ In(local, d) # {} => d \in dirs
        BY DEF IInv, Stores, Files, Foldered, Known, In
    <2>2. Flags
        BY DEF IInv
    <2>3. calm \in BOOLEAN /\ plain \in BOOLEAN /\ worth \subseteq Names \X Photos
        BY <2>2, Zenon DEF Flags
    <2> QED BY <2>1, <2>3, Zenon DEF TypeOK, Stores, Files, Recs, Tasks, Numbers
<1> QED BY <1>1, InitIInv, NextIInv, PTL DEF Spec

-----------------------------------------------------------------------------
(* The mirror after a synchronisation nobody disturbed is the NAS.          *)
THEOREM MirrorIsComplete == Spec => []Mirrored
<1>1. IInv => Mirrored
    BY DEF IInv, Complete, Mirrored, Undisturbed
<1> QED BY <1>1, InitIInv, NextIInv, PTL DEF Spec

-----------------------------------------------------------------------------
(* Scores.  Until its rows follow their files, a synchronisation nobody     *)
(* disturbs has all the scores it started with.  From then on every row     *)
(* names a place with a photo, the photos still on the NAS have their       *)
(* scores, and a row the service does not resolve is the only one of its    *)
(* photo: the analysis finds it by its hash and takes it over.              *)

Stays(w) == \E q \in Paths : q[2] = w[1] /\ nas[q] = w[2]
RowsHaveFiles == \A k \in Keys : rec[k] # NoRow => local[k[2]] # None
ScoresStay == \A w \in worth : Stays(w) => KeptFor(w)
HashesTrue == \A k \in Keys : rec[k] # NoRow => rec[k].hash \in {None, local[k[2]]}
StrayAlone == \A k, l \in Keys : rec[k] # NoRow /\ rec[l] # NoRow /\ k # l /\ k[1] = "stray"
                                    => rec[k].hash # rec[l].hash /\ rec[k].hash # None
StrayHashed == \A k \in Keys : rec[k] # NoRow /\ k[1] = "stray" => rec[k].hash # None

Settled == ~Copies(local) /\ RowsHaveFiles /\ ScoresStay /\ HashesTrue /\ StrayAlone /\ StrayHashed

Before == calm /\ pc \in {"pre", "rsync", "post"} => \A w \in worth : KeptFor(w)
After == /\ calm /\ plain /\ pc \in {"analyse", "new", "done"}
         /\ \E p \in Paths : listed[p] # None
         => Settled

RowIInv == IInv /\ Before /\ After

LEMMA KeptAlong ==
  ASSUME NEW w, KeptFor(w),
         \A k \in Keys : rec[k] # NoRow /\ rec[k].hash = w[2] =>
            \E l \in Keys : /\ l[2] = k[2] /\ rec'[l] # NoRow
                            /\ rec'[l].hash = rec[k].hash /\ rec'[l].kept = rec[k].kept
  PROVE  KeptFor(w)'
BY Zenon DEF KeptFor

(* What any two members of a pairing have to do with each other, and that   *)
(* no pair that agrees could be added.                                      *)
Matching(M, A, B) ==
  /\ \A m \in M : m[1] \in A /\ m[2] \in B /\ FoundAt(m[1], m[2])
  /\ \A m, n \in M : m[1] = n[1] \/ m[2] = n[2] => m = n
  /\ \A a \in A, b \in B : FoundAt(a, b) => \E m \in M : m[1] = a \/ m[2] = b

LEMMA PairingsMatch ==
  ASSUME NEW A, NEW B, NEW M \in Pairings(A, B, FoundAt)
  PROVE  Matching(M, A, B)
<1> DEFINE All == {m \in A \X B : FoundAt(m[1], m[2])}
           Proper(N) == \A m, n \in N : m # n => m[1] # n[1] /\ m[2] # n[2]
<1>1. M \in SUBSET All /\ Proper(M) /\ \A m \in All \ M : ~Proper(M \cup {m})
    BY DEF Pairings
<1>2. \A m \in M : m[1] \in A /\ m[2] \in B /\ FoundAt(m[1], m[2])
    BY <1>1
<1>3. \A m, n \in M : m[1] = n[1] \/ m[2] = n[2] => m = n
    BY <1>1
<1>4. ASSUME NEW a \in A, NEW b \in B, FoundAt(a, b)
      PROVE  \E m \in M : m[1] = a \/ m[2] = b
    <2>1. <<a, b>> \in All
        BY <1>4
    <2>2. CASE <<a, b>> \in M
        BY <2>2
    <2>3. CASE <<a, b>> \notin M
        <3>1. ~Proper(M \cup {<<a, b>>})
            BY <1>1, <2>1, <2>3
        <3>2. PICK m \in M \cup {<<a, b>>}, n \in M \cup {<<a, b>>} :
                     m # n /\ (m[1] = n[1] \/ m[2] = n[2])
            BY <3>1
        <3> QED BY <1>1, <3>2
    <2> QED BY <2>2, <2>3
<1> QED BY <1>2, <1>3, <1>4 DEF Matching

LEMMA PostFollows ==
  ASSUME IInv, RelocatePost, calm, Unclashed, \A w \in worth : KeptFor(w)
  PROVE  Settled'
<1>0. PICK M \in Pairings(Dead, Kept, FoundAt) :
        LET Taken == {NewKey(m) : m \in M} \cap {k \in Keys : rec[k] # NoRow}
        IN  \/ Taken # {} /\ rec' = rec
            \/ Taken \subseteq {m[1] : m \in M} /\ rec' = Followed(M)
    BY DEF RelocatePost, RowsFollow
<1>1. /\ \A m \in M : m[1] \in Dead /\ m[2] \in Kept /\ FoundAt(m[1], m[2])
      /\ \A m, n \in M : m[1] = n[1] \/ m[2] = n[2] => m = n
      /\ \A a \in Dead, b \in Kept : FoundAt(a, b) => \E m \in M : m[1] = a \/ m[2] = b
    <2>1. M \in Pairings(Dead, Kept, FoundAt)
        BY <1>0
    <2>2. Matching(M, Dead, Kept)
        BY <2>1, PairingsMatch, Zenon
    <2> QED BY <2>2 DEF Matching
<1>2. \A m \in M : /\ m[1] \in Keys /\ rec[m[1]] # NoRow /\ ~Exists(m[1], local')
                   /\ m[2] \in Paths /\ local'[m[2]] # None
                   /\ m[1][2][2] = m[2][2] /\ rec[m[1]].hash = local'[m[2]]
    BY <1>1 DEF Dead, Kept, FoundAt
<1>3. \A p \in Paths : local'[p] \in {local[p], None} /\ (listed[p] # None => local'[p] = local[p])
    BY DEF RelocatePost, Orphans
<1>4. \A k \in Keys : rec[k] # NoRow => local[k[2]] \in {None, About(k)}
    BY DEF Unclashed
<1>5. \A k, l \in Keys :
          rec[k] # NoRow /\ rec[l] # NoRow /\ k # l /\ About(k) = About(l) /\ About(k) # None
             => /\ k[2] = l[2] /\ rec[k].hash = rec[l].hash /\ rec[k].kept = rec[l].kept
                /\ k[1] # "stray" /\ l[1] # "stray"
    BY DEF Unclashed
<1>6. \A m \in M : About(m[1]) = local'[m[2]] /\ About(m[1]) = local[m[2]] /\ About(m[1]) # None
    BY <1>2, <1>3 DEF About
<1>7. \A m \in M : NewKey(m) \in Keys /\ NewKey(m)[2] = m[2] /\ (NewKey(m)[1] = "stray" => m[1][1] = "absolute")
    <2>1. \A m \in M : m[2] \in Paths
        BY <1>2
    <2> QED BY <2>1 DEF NewKey, Keys, Forms
<1>8. \A m \in M : rec[NewKey(m)] = NoRow
    <2> SUFFICES ASSUME NEW m \in M, rec[NewKey(m)] # NoRow PROVE FALSE
        OBVIOUS
    <2> DEFINE l == NewKey(m)
    <2>1. l \in Keys /\ l[2] = m[2] /\ rec[l] # NoRow /\ m[1] \in Keys /\ rec[m[1]] # NoRow
        BY <1>2, <1>7
    <2>2. About(l) = About(m[1]) /\ About(l) # None
        BY <1>4, <1>6, <2>1
    <2>3. l # m[1]
        <3> SUFFICES ASSUME l = m[1] PROVE FALSE
            OBVIOUS
        <3>1. m[1][2] = m[2] /\ local'[m[1][2]] # None
            BY <1>2, <2>1
        <3>2. m[1][1] = "stray"
            BY <1>2, <3>1 DEF Exists
        <3>3. NewKey(m)[1] # "stray"
            BY <1>7, <3>2
        <3> QED BY <3>2, <3>3
    <2> HIDE DEF l
    <2>4. m[1][2] = l[2] /\ m[1][1] # "stray"
        BY <1>5, <2>1, <2>2, <2>3
    <2> QED BY <1>2, <2>1, <2>4 DEF Exists
<1>9. rec' = Followed(M)
    BY <1>0, <1>8
<1>10. \A k \in Keys : rec'[k] = IF \E m \in M : NewKey(m) = k
                                 THEN rec[(CHOOSE m \in M : NewKey(m) = k)[1]]
                                 ELSE IF k \in Dead THEN NoRow ELSE rec[k]
    BY <1>9 DEF Followed
<1>11. \A m \in M : rec'[NewKey(m)] = rec[m[1]]
    <2> SUFFICES ASSUME NEW m \in M PROVE rec'[NewKey(m)] = rec[m[1]]
        OBVIOUS
    <2>1. \A n \in M : NewKey(n) = NewKey(m) => n = m
        BY <1>1, <1>7
    <2>2. (CHOOSE n \in M : NewKey(n) = NewKey(m)) = m
        BY <2>1
    <2> QED BY <1>7, <1>10, <2>2
<1>12. ASSUME NEW k \in Keys, rec'[k] # NoRow
       PROVE  \/ \E m \in M : k = NewKey(m) /\ rec'[k] = rec[m[1]]
              \/ Exists(k, local') /\ rec[k] # NoRow /\ rec'[k] = rec[k]
    <2>1. CASE \E m \in M : NewKey(m) = k
        BY <1>11, <2>1
    <2>2. CASE ~\E m \in M : NewKey(m) = k
        BY <1>10, <1>12, <2>2 DEF Dead
    <2> QED BY <2>1, <2>2
<1>13. ASSUME NEW k \in Keys, Exists(k, local'), rec[k] # NoRow
       PROVE  local'[k[2]] = local[k[2]] /\ local'[k[2]] # None /\ About(k) = local[k[2]]
    BY <1>3, <1>4, <1>13, KeyHalves DEF Exists
<1>14. (~Copies(local))'
    <2>1. ~Copies(local)
        BY DEF Unclashed
    <2> QED BY <1>3, <2>1 DEF Copies
<1>15. RowsHaveFiles'
    BY <1>2, <1>7, <1>12, <1>13 DEF RowsHaveFiles
<1>16. HashesTrue'
    <2> SUFFICES ASSUME NEW k \in Keys, rec'[k] # NoRow PROVE rec'[k].hash \in {None, local'[k[2]]}
        BY DEF HashesTrue
    <2>1. CASE \E m \in M : k = NewKey(m) /\ rec'[k] = rec[m[1]]
        BY <1>2, <1>7, <2>1
    <2>2. CASE Exists(k, local') /\ rec[k] # NoRow /\ rec'[k] = rec[k]
        BY <1>13, <2>2 DEF About
    <2> QED BY <1>12, <2>1, <2>2
<1>17. StrayHashed' /\ StrayAlone'
    <2>0. ASSUME NEW k \in Keys, rec'[k] # NoRow, k[1] = "stray"
          PROVE  \E m \in M : /\ k = NewKey(m) /\ rec'[k] = rec[m[1]] /\ m[1][1] = "absolute"
                              /\ rec'[k].hash = local'[m[2]] /\ rec'[k].hash # None
        BY <1>2, <1>7, <1>12, <2>0 DEF Exists
    <2>1. ASSUME NEW k \in Keys, NEW l \in Keys, rec'[k] # NoRow, rec'[l] # NoRow, k # l, k[1] = "stray",
                 rec'[k].hash = rec'[l].hash
          PROVE  FALSE
        <3>1. PICK m \in M : /\ k = NewKey(m) /\ rec'[k] = rec[m[1]] /\ m[1][1] = "absolute"
                             /\ rec'[k].hash = local'[m[2]] /\ rec'[k].hash # None
            BY <2>0, <2>1
        <3>2. CASE \E n \in M : l = NewKey(n) /\ rec'[l] = rec[n[1]]
            <4>1. PICK n \in M : l = NewKey(n) /\ rec'[l] = rec[n[1]]
                BY <3>2
            <4>2. local'[n[2]] = local'[m[2]] /\ local'[m[2]] # None /\ n[2] \in Paths /\ m[2] \in Paths
                BY <1>2, <2>1, <3>1, <4>1
            <4>3. n[2] = m[2]
                BY <1>14, <4>2 DEF Copies
            <4>4. n = m
                BY <1>1, <4>3
            <4> QED BY <2>1, <3>1, <4>1, <4>4
        <3>3. CASE Exists(l, local') /\ rec[l] # NoRow /\ rec'[l] = rec[l]
            <4>1. rec[l].hash = rec[m[1]].hash /\ rec[l].hash # None
                BY <2>1, <3>1, <3>3
            <4>2. About(l) = About(m[1]) /\ About(l) # None
                BY <4>1 DEF About
            <4>3. l # m[1]
                BY <1>2, <3>3
            <4>4. l[2] = m[1][2]
                BY <1>2, <1>5, <3>3, <4>2, <4>3
            <4> QED BY <1>2, <3>1, <3>3, <4>4 DEF Exists
        <3> QED BY <1>12, <2>1, <3>2, <3>3
    <2> QED BY <2>0, <2>1 DEF StrayHashed, StrayAlone
<1>18. ScoresStay'
    <2> SUFFICES ASSUME NEW w \in worth, NEW q \in Paths, q[2] = w[1], nas[q] = w[2]
                 PROVE  KeptFor(w)'
        BY DEF ScoresStay, Stays, RelocatePost
    <2>1. PICK k \in Keys : k[2][2] = w[1] /\ rec[k] # NoRow /\ rec[k].hash = w[2] /\ rec[k].kept
        BY DEF KeptFor
    <2>2. CASE k \notin Dead
        <3>1. rec'[k] = rec[k]
            BY <1>8, <1>10, <2>1, <2>2
        <3> QED BY <2>1, <3>1, Zenon DEF KeptFor
    <2>3. CASE k \in Dead
        <3>1. nas[q] # None
            BY LibraryAssumption DEF IInv, Flags, None
        <3>2. listed[q] = nas[q] /\ local[q] = nas[q]
            BY <3>1 DEF IInv, Complete, RelocatePost
        <3>3. q \in Kept /\ FoundAt(k, q)
            BY <1>3, <2>1, <3>1, <3>2 DEF Kept, FoundAt
        <3>4. PICK m \in M : m[1] = k \/ m[2] = q
            BY <1>1, <2>3, <3>3
        <3>5. m[2][2] = w[1] /\ rec[m[1]].hash = w[2] /\ rec[m[1]].kept
            <4>1. CASE m[1] = k
                BY <1>2, <2>1, <4>1
            <4>2. CASE m[2] = q /\ m[1] # k
                <5>1. rec[m[1]].hash = rec[k].hash /\ rec[k].hash # None
                    BY <1>2, <3>3, <4>2, <2>1, <3>1 DEF FoundAt
                <5>2. About(m[1]) = About(k) /\ About(k) # None
                    BY <5>1 DEF About
                <5> QED BY <1>2, <1>5, <2>1, <4>2, <5>1, <5>2
            <4> QED BY <3>4, <4>1, <4>2
        <3>6. NewKey(m) \in Keys /\ NewKey(m)[2] = m[2] /\ rec'[NewKey(m)] = rec[m[1]] /\ rec[m[1]] # NoRow
            BY <1>2, <1>7, <1>11
        <3> QED BY <3>5, <3>6, Zenon DEF KeptFor
    <2> QED BY <2>2, <2>3
<1> QED BY <1>14, <1>15, <1>16, <1>17, <1>18 DEF Settled

LEMMA AnalysisKeeps ==
  ASSUME IInv, Settled, RefreshCategories \/ AnalyseNew
  PROVE  Settled'
<1>0. nas' = nas /\ local' = local /\ worth' = worth
    BY DEF RefreshCategories, AnalyseNew, files
<1>1. CASE RefreshCategories
    <2>1. \A k \in Keys : /\ rec[k] # NoRow => /\ rec'[k] # NoRow /\ rec'[k].hash = rec[k].hash
                                               /\ rec'[k].kept = rec[k].kept
                          /\ rec[k] = NoRow /\ rec'[k] # NoRow =>
                               k[1] = "absolute" /\ local[k[2]] # None /\ rec'[k].hash = None
        BY <1>1, Refreshed
    <2>2. \A w \in worth : KeptFor(w) => KeptFor(w)'
        BY <2>1, KeptAlong, Zenon
    <2>3. ScoresStay'
        BY <1>0, <2>2, Zenon DEF Settled, ScoresStay, Stays
    <2>4. RowsHaveFiles' /\ HashesTrue' /\ StrayHashed' /\ (~Copies(local))'
        BY <1>0, <2>1 DEF Settled, RowsHaveFiles, HashesTrue, StrayHashed, Copies
    <2>5. StrayAlone'
        <3> SUFFICES ASSUME NEW k \in Keys, NEW l \in Keys, rec'[k] # NoRow, rec'[l] # NoRow,
                            k # l, k[1] = "stray"
                     PROVE  rec'[k].hash # rec'[l].hash /\ rec'[k].hash # None
            BY DEF StrayAlone
        <3>1. rec[k] # NoRow /\ rec[k].hash # None /\ rec'[k].hash = rec[k].hash
            BY <2>1 DEF Settled, StrayHashed
        <3>2. CASE rec[l] = NoRow
            BY <2>1, <3>1, <3>2
        <3>3. CASE rec[l] # NoRow
            BY <2>1, <3>1, <3>3 DEF Settled, StrayAlone
        <3> QED BY <3>2, <3>3
    <2> QED BY <2>3, <2>4, <2>5 DEF Settled
<1>2. CASE AnalyseNew /\ rec' = rec
    BY <1>0, <1>2 DEF Settled, RowsHaveFiles, HashesTrue, StrayAlone, StrayHashed, ScoresStay, Stays,
                      KeptFor, Copies
<1>3. ASSUME NEW p \in Pending, rec' \in Recorded(<<"absolute", p>>) PROVE Settled'
    <2> DEFINE k == <<"absolute", p>>
    <2>1. k \in Keys /\ k[2] = p /\ k[1] = "absolute" /\ p \in Paths /\ local[p] # None
          /\ (rec[k] # NoRow => rec[k].hash = None)
        BY PathKeys, OwnForm DEF Pending, Analysed
    <2> HIDE DEF k
    <2>2. \A l \in Keys : rec[l] # NoRow /\ rec[l].hash = local[p] => l[2] = p
        <3> SUFFICES ASSUME NEW l \in Keys, rec[l] # NoRow, rec[l].hash = local[p] PROVE l[2] = p
            OBVIOUS
        <3>1. local[l[2]] = local[p] /\ l[2] \in Paths
            BY <2>1, KeyHalves DEF Settled, HashesTrue
        <3> QED BY <2>1, <3>1 DEF Settled, Copies
    <2> DEFINE Hit(h) == /\ rec[h] # NoRow /\ rec[h].hash = local[p]
                         /\ rec' = [rec EXCEPT ![h] = IF h # k /\ ~Exists(h, local) THEN NoRow ELSE @,
                                               ![k] = Row(p, local[p], rec[h].kept)]
    <2>3. \/ /\ \A l \in Keys : ~(rec[l] # NoRow /\ rec[l].hash = local[p])
             /\ rec' = [rec EXCEPT ![k] = Row(p, local[p], FALSE)]
          \/ \E h \in Keys : Hit(h)
        <3>1. rec' \in Recorded(k)
            BY <1>3 DEF k
        <3> QED BY <2>1, <3>1 DEF Recorded
    <2>4. \A b : /\ Row(p, local[p], b) # NoRow /\ Row(p, local[p], b).hash = local[p]
                 /\ Row(p, local[p], b).kept = b
        <3>1. ASSUME NEW b PROVE /\ Row(p, local[p], b).hash = local[p]
                                 /\ Row(p, local[p], b).kept = b /\ NoRow.hash = None
            BY DEF Row, NoRow
        <3> QED BY <2>1, <3>1
    <2>5. /\ rec'[k] # NoRow /\ rec'[k].hash = local[p]
          /\ \A l \in Keys \ {k} :
                \/ rec'[l] = rec[l]
                \/ /\ rec[l] # NoRow /\ rec[l].hash = local[p] /\ rec'[l] = NoRow
                   /\ rec[l].kept = rec'[k].kept /\ l[2] = p
        <3>0. rec \in [Keys -> Rows \cup {NoRow}]
            BY DEF IInv, Recs
        <3>1. CASE rec' = [rec EXCEPT ![k] = Row(p, local[p], FALSE)]
            BY <2>1, <2>4, <3>0, <3>1
        <3>2. ASSUME NEW h \in Keys, Hit(h)
              PROVE  /\ rec'[k] = Row(p, local[p], rec[h].kept)
                     /\ h # k /\ rec[h] # NoRow /\ rec[h].hash = local[p] /\ h[2] = p
                     /\ rec'[h] \in {NoRow, rec[h]}
                     /\ \A l \in Keys \ {k, h} : rec'[l] = rec[l]
            BY <2>1, <2>2, <3>0, <3>2
        <3>3. CASE \E h \in Keys : Hit(h)
            <4> HIDE DEF Hit
            <4> QED BY <2>4, <3>2, <3>3
        <3> QED BY <2>3, <3>1, <3>3
    <2>6. ASSUME NEW l \in Keys \ {k}, l[1] = "stray", rec'[l] # NoRow
          PROVE  rec[l] = rec'[l] /\ rec[l].hash # local[p]
        <3>1. rec[l] = rec'[l]
            BY <2>5, <2>6
        <3>2. SUFFICES ASSUME rec[l].hash = local[p] PROVE FALSE
            BY <3>1
        <3>3. PICK h \in Keys : Hit(h)
            BY <2>3, <2>6, <3>1, <3>2
        <3>4. h = l
            BY <2>6, <3>1, <3>2, <3>3 DEF Settled, StrayAlone
        <3>5. rec'[l] = NoRow
            BY <2>6, <3>3, <3>4 DEF IInv, Recs, Exists
        <3> QED BY <2>6, <3>5
    <2> HIDE DEF Hit
    <2>7. RowsHaveFiles' /\ HashesTrue' /\ StrayHashed' /\ (~Copies(local))'
        BY <1>0, <2>1, <2>5 DEF Settled, RowsHaveFiles, HashesTrue, StrayHashed, Copies
    <2>8. StrayAlone'
        <3> SUFFICES ASSUME NEW g \in Keys, NEW l \in Keys, rec'[g] # NoRow, rec'[l] # NoRow,
                            g # l, g[1] = "stray"
                     PROVE  rec'[g].hash # rec'[l].hash /\ rec'[g].hash # None
            BY DEF StrayAlone
        <3>1. g # k /\ rec[g] = rec'[g] /\ rec[g].hash # local[p]
            BY <2>1, <2>6
        <3>2. CASE l = k
            BY <2>5, <3>1, <3>2 DEF Settled, StrayHashed
        <3>3. CASE l # k
            <4>1. rec'[l] = rec[l]
                BY <2>5, <3>3
            <4> QED BY <3>1, <4>1 DEF Settled, StrayAlone
        <3> QED BY <3>2, <3>3
    <2>9. ScoresStay'
        <3>1. ASSUME NEW w \in worth, KeptFor(w) PROVE KeptFor(w)'
            <4>1. w[2] # None
                BY LibraryAssumption DEF IInv, Flags, None
            <4>2. ASSUME NEW l \in Keys, rec[l] # NoRow, rec[l].hash = w[2]
                  PROVE  \E g \in Keys : /\ g[2] = l[2] /\ rec'[g] # NoRow
                                         /\ rec'[g].hash = rec[l].hash /\ rec'[g].kept = rec[l].kept
                <5>1. l # k
                    BY <2>1, <4>1, <4>2
                <5>2. CASE rec'[l] = rec[l]
                    BY <4>2, <5>2
                <5>3. CASE rec'[l] # rec[l]
                    BY <2>1, <2>5, <5>1, <5>3
                <5> QED BY <5>2, <5>3
            <4> QED BY <3>1, <4>2, KeptAlong, Zenon
        <3> QED BY <1>0, <3>1, Zenon DEF Settled, ScoresStay, Stays
    <2> QED BY <2>7, <2>8, <2>9 DEF Settled
<1> QED BY <1>1, <1>2, <1>3 DEF AnalyseNew

LEMMA NextRowIInv == RowIInv /\ [Next]_vars => RowIInv'
<1> SUFFICES ASSUME RowIInv, [Next]_vars PROVE Before' /\ After'
    BY NextIInv DEF RowIInv
<1>1. CASE calm' = FALSE
    BY <1>1 DEF Before, After
<1>2. CASE UNCHANGED <<files, rec, sync>>
    BY <1>2 DEF RowIInv, Before, After, Settled, RowsHaveFiles, HashesTrue, StrayAlone, StrayHashed,
               Copies, ScoresStay, Stays, KeptFor, files, sync
<1>3. CASE SyncStarts
    <2>1. pc' \in {"pre", "rsync"} /\ rec' = rec /\ worth' = {w \in Names \X Photos : KeptFor(w)}
        BY <1>3 DEF SyncStarts
    <2>2. \A w \in worth' : KeptFor(w)'
        BY <2>1 DEF KeptFor
    <2> QED BY <2>1, <2>2 DEF Before, After
<1>4. CASE RelocatePre \/ RelocatePreFails \/ Rsync \/ RsyncFails
    <2>1. /\ rec' = rec /\ worth' = worth /\ calm' = calm /\ listed' = listed
          /\ pc \in {"pre", "rsync"} /\ pc' \in {"rsync", "post", "analyse", "idle"}
          /\ pc' = "analyse" => ~\E p \in Paths : listed[p] # None
        BY <1>4 DEF RelocatePre, RelocatePreFails, Rsync, RsyncFails
    <2>2. \A w : KeptFor(w)' <=> KeptFor(w)
        BY <2>1 DEF KeptFor
    <2>3. Before'
        BY <2>1, <2>2 DEF RowIInv, Before
    <2>4. After'
        BY <2>1 DEF After
    <2> QED BY <2>3, <2>4
<1>5. CASE RelocatePost
    <2>1. pc = "post" /\ pc' = "analyse" /\ calm' = calm /\ plain' = Unclashed
        BY <1>5 DEF RelocatePost
    <2>2. CASE calm /\ plain'
        <3>1. Settled'
            BY <1>5, <2>1, <2>2, PostFollows DEF RowIInv, Before
        <3> QED BY <2>1, <3>1 DEF Before, After
    <2>3. CASE ~(calm /\ plain')
        BY <2>1, <2>3 DEF Before, After
    <2> QED BY <2>2, <2>3
<1>6. CASE RefreshCategories \/ AnalyseNew
    <2>1. /\ pc \in {"analyse", "new"} /\ pc' \in {"new", "done"}
          /\ calm' = calm /\ plain' = plain /\ listed' = listed
        BY <1>6 DEF RefreshCategories, AnalyseNew
    <2>2. CASE calm /\ plain /\ \E p \in Paths : listed[p] # None
        <3>1. Settled'
            BY <1>6, <2>1, <2>2, AnalysisKeeps DEF RowIInv, After
        <3> QED BY <2>1, <3>1 DEF Before, After
    <2>3. CASE ~(calm /\ plain /\ \E p \in Paths : listed[p] # None)
        BY <2>1, <2>3 DEF Before, After
    <2> QED BY <2>2, <2>3
<1>7. CASE SyncEnds \/ RelocatePostFails
    <2>1. (pc' = "idle" \/ (pc' = "analyse" /\ plain' = FALSE))
        BY <1>7 DEF SyncEnds, RelocatePostFails
    <2> QED BY <2>1 DEF Before, After
<1>8. CASE AnalyseFails
    <2>1. /\ pc = "new" /\ pc' = "done" /\ UNCHANGED <<files, rec, calm, plain, listed, worth>>
        BY <1>8 DEF AnalyseFails
    <2> QED BY <2>1 DEF RowIInv, Before, After, Settled, RowsHaveFiles, HashesTrue, StrayAlone,
                        StrayHashed, Copies, ScoresStay, Stays, KeptFor, files
<1>9. CASE Next
    <2>1. Owner \/ Console \/ (\E p \in Paths, c \in Photos : Upload(p, c))
          \/ (\E p \in Paths : Analyse(p)) \/ (\E d \in Places : Push(d)) => calm' = FALSE
        BY DEF Owner, Console, Upload, Analyse, Push, Disturb
    <2>2. PushFails => UNCHANGED <<files, rec, sync>>
        BY DEF PushFails
    <2> QED BY <1>1, <1>2, <1>3, <1>4, <1>5, <1>6, <1>7, <1>8, <1>9, <2>1, <2>2 DEF Next
<1>10. CASE UNCHANGED vars
    BY <1>2, <1>10 DEF vars, files, sync
<1> QED BY <1>9, <1>10

(* Scores follow their photos through a synchronisation nobody disturbed,   *)
(* under whatever form of path, and an analysis of every photo leaves no    *)
(* row that the service does not find.                                      *)
THEOREM ScoresAreKept == Spec => []ScoresFollow
<1>1. Init => RowIInv
    <2>1. Init => Before /\ After
        BY DEF Init, Before, After
    <2> QED BY <2>1, InitIInv DEF RowIInv
<1>2. RowIInv => ScoresFollow
    <2> SUFFICES ASSUME RowIInv, Undisturbed, plain
                 PROVE  /\ RowsHaveFiles /\ ScoresStay
                        /\ Pending = {} => \A k \in Keys : rec[k] # NoRow => Exists(k, local)
        BY DEF ScoresFollow, RowsHaveFiles, ScoresStay, Stays
    <2>1. Settled
        BY DEF RowIInv, After, Undisturbed
    <2>2. ASSUME Pending = {}, NEW k \in Keys, rec[k] # NoRow PROVE Exists(k, local)
        <3>1. local[k[2]] # None /\ k[2] \in Paths
            BY <2>1, <2>2, KeyHalves DEF Settled, RowsHaveFiles
        <3>2. SUFFICES ASSUME k[1] = "stray" PROVE FALSE
            BY <3>1 DEF Exists
        <3> DEFINE l == <<"absolute", k[2]>>
        <3>3. l \in Keys /\ l[2] = k[2] /\ l # k
            BY <3>1, <3>2, PathKeys, OwnForm
        <3>4. rec[l].hash # None
            BY <2>2, <3>1 DEF Pending, Analysed
        <3>5. rec[l] # NoRow
            BY <3>4 DEF NoRow
        <3> HIDE DEF l
        <3> QED BY <2>1, <2>2, <3>2, <3>3, <3>4, <3>5
               DEF Settled, HashesTrue, StrayAlone, StrayHashed
    <2> QED BY <2>1, <2>2 DEF Settled
<1> QED BY <1>1, <1>2, NextRowIInv, PTL DEF Spec

-----------------------------------------------------------------------------
(* A photo uploaded during a synchronisation.                               *)
LEMMA LateStep == IInv /\ [Next]_vars => LateStay \/ UNCHANGED vars
<1> SUFFICES ASSUME IInv, Next, NEW p \in Paths,
                    pc # "idle", local[p] \in late, ~Has(local', local[p])
             PROVE  Has(nas, local[p]) \/ (local'[p] = nas[p] /\ nas[p] # None)
    BY Zenon DEF LateStay
<1>1. local[p] # None /\ local[p] \in Photos /\ local \in Files
    BY LibraryAssumption DEF IInv, Stores, None
<1>2. local' # local
    BY <1>1 DEF Has, Files
<1>3. CASE Console
    <2>1. PICK a \in Folders, b \in Folders : RenameFolder(a, b)
        BY <1>2, <1>3 DEF Console, CreateFolder, DeleteFolder, RenameCut
    <2>2. p[1] # b /\ a # b
        BY <2>1, <1>1 DEF RenameFolder, IInv, Foldered, Known
    <2>3. local' = [q \in Paths |-> CASE q[1] = b -> local[<<a, q[2]>>]
                                     [] q[1] = a -> None [] OTHER -> local[q]]
        BY <2>1 DEF RenameFolder, Renamed
    <2>4. \A q \in Paths : local'[q] = IF q[1] = b THEN local[<<a, q[2]>>]
                                        ELSE IF q[1] = a THEN None ELSE local[q]
        BY <2>2, <2>3
    <2>5. CASE p[1] = a
        <3>1. <<b, p[2]>> \in Paths /\ <<a, p[2]>> = p
            BY <2>5, Halves DEF Paths, Places
        <3>2. local'[<<b, p[2]>>] = local[p]
            BY <2>4, <3>1
        <3>3. <<b, p[2]>> \in DOMAIN local'
            BY <2>3, <3>1
        <3> QED BY <3>2, <3>3 DEF Has
    <2>6. CASE p[1] # a
        BY <2>2, <2>3, <2>4, <2>6 DEF Has
    <2> QED BY <2>5, <2>6
<1>4. ASSUME NEW q \in Paths, NEW c \in Photos, Upload(q, c) PROVE FALSE
    BY <1>1, <1>4 DEF Upload, Has, Files
<1>5. CASE RelocatePre \/ RelocatePreFails
    BY <1>1, <1>5, PreKeeps
<1>6. CASE Rsync \/ RsyncFails
    <2>1. local'[p] \in {local[p], nas[p]} /\ p \in DOMAIN local' /\ (local'[p] = local[p] \/ nas[p] # None)
        BY <1>6 DEF Rsync, RsyncFails
    <2> QED BY <2>1 DEF Has
<1>7. CASE RelocatePost \/ RelocatePostFails
    <2>1. local'[p] = local[p] /\ p \in DOMAIN local'
        BY <1>7, PostKeeps DEF RelocatePost, RelocatePostFails
    <2> QED BY <2>1 DEF Has
<1>8. Console \/ (\E q \in Paths, c \in Photos : Upload(q, c)) \/ RelocatePre
      \/ RelocatePreFails \/ (Rsync \/ RsyncFails) \/ RelocatePost \/ RelocatePostFails
    BY <1>2 DEF Next, Owner, Analyse, Push, PushFails, SyncStarts, RefreshCategories,
               AnalyseNew, AnalyseFails, SyncEnds, files
<1> QED BY <1>3, <1>4, <1>5, <1>6, <1>7, <1>8

(* A photo uploaded during a synchronisation is lost to none of its steps.  *)
THEOREM LateIsKept == Spec => LateUploadStays
<1>1. IInv /\ [Next]_vars => [LateStay]_vars
    BY LateStep
<1> QED BY <1>1, InitIInv, NextIInv, PTL DEF Spec, LateUploadStays

-----------------------------------------------------------------------------
(* The lock of sync_nas.sh: two launches synchronise at once only after one *)
(* of the two races.                                                        *)

Stages == {"new", "mkdir", "pid", "read", "remove", "remake", "running", "pulling", "finishing",
           "gone"}
Synchronising == {"running", "pulling", "finishing"}

\* A lock with a pid is of a launch that has begun; what a launch saw before
\* removing a lock is free to go, for its maker has ended.
Begun == /\ lock \in Launches => stage[lock] # "new"
         /\ \A p \in Launches : stage[p] = "remove" /\ seen[p] \in Launches => stage[seen[p]] = "gone"

\* Without a race, whoever holds the lock is named in it, and only one launch
\* stands between mkdir and its pid.
Named == ~raced => /\ \A p \in Holding : lock = p
                   /\ \A p \in Launches : stage[p] = "pid" => lock = NoPid
                   /\ \A p, q \in Launches : stage[p] = "pid" /\ stage[q] = "pid" => p = q

LockTypes == /\ stage \in [Launches -> Stages]
             /\ lock \in Launches \cup {NoLock, NoPid}
             /\ seen \in [Launches -> Launches \cup {NoPid}]
             /\ raced \in BOOLEAN
             /\ orphans \subseteq Launches

LockIInv == LockTypes /\ Begun /\ Named

LEMMA LockInitIInv == LockInit => LockIInv
BY SyncLockAssumption DEF LockInit, LockIInv, LockTypes, Stages, Synchronising, Begun, Named, Holding, NoLock, NoPid

LEMMA LockNames == NoLock \notin Launches /\ NoPid \notin Launches /\ NoLock # NoPid
BY SyncLockAssumption DEF NoLock, NoPid

(* One launch moves, neither to hold the lock nor to its pid, and leaves    *)
(* the lock alone.                                                          *)
LEMMA Bystander ==
    ASSUME LockIInv, NEW p \in Launches, NEW next \in Stages \ {"new", "pid", "remove"},
           stage' = [stage EXCEPT ![p] = next],
           next \in Synchronising => stage[p] \in Synchronising,
           stage[p] # "gone",
           orphans' \subseteq Launches,
           UNCHANGED <<lock, seen, raced>>
    PROVE  LockIInv'
BY LockNames DEF LockIInv, LockTypes, Stages, Synchronising, Begun, Named, Holding

LEMMA LockNextIInv == LockIInv /\ [LockNext]_lockVars => LockIInv'
<1> SUFFICES ASSUME LockIInv, [LockNext]_lockVars PROVE LockIInv'
    OBVIOUS
<1> USE LockNames
<1>1. ASSUME NEW p \in Launches, Button(p) \/ Schedule(p) PROVE LockIInv'
    BY <1>1 DEF Button, Schedule, At, LockIInv, LockTypes, Stages, Synchronising, Begun, Named, Holding
<1>2. ASSUME NEW p \in Launches, Mkdir(p) PROVE LockIInv'
    BY <1>2 DEF Mkdir, At, LockIInv, LockTypes, Stages, Synchronising, Begun, Named, Holding
<1>3. ASSUME NEW p \in Launches, WritePid(p) PROVE LockIInv'
    BY <1>3 DEF WritePid, At, LockIInv, LockTypes, Stages, Synchronising, Begun, Named, Holding
<1>4. ASSUME NEW p \in Launches, ReadPid(p) PROVE LockIInv'
    BY <1>4 DEF ReadPid, At, Alive, LockIInv, LockTypes, Stages, Synchronising, Begun, Named, Holding
<1>5. ASSUME NEW p \in Launches, Remove(p) PROVE LockIInv'
    BY <1>5 DEF Remove, At, LockIInv, LockTypes, Stages, Synchronising, Begun, Named, Holding
<1>6. ASSUME NEW p \in Launches, Remake(p) PROVE LockIInv'
    BY <1>6 DEF Remake, At, LockIInv, LockTypes, Stages, Synchronising, Begun, Named, Holding
<1>7. ASSUME NEW p \in Launches, Report(p) PROVE LockIInv'
    BY <1>7 DEF Report, LockIInv, LockTypes, Begun, Named, Holding
<1>8. ASSUME NEW p \in Launches, Ends(p) PROVE LockIInv'
    BY <1>8, Bystander DEF Ends, At, Stages, Synchronising, LockIInv, LockTypes
<1>9. ASSUME NEW p \in Launches, Exit(p) PROVE LockIInv'
    BY <1>9 DEF Exit, At, LockIInv, LockTypes, Stages, Synchronising, Begun, Named, Holding
<1>10. ASSUME NEW p \in Launches, Kill(p) PROVE LockIInv'
    <2>1. CASE lock' = lock
        BY <1>10, <2>1, Bystander DEF Kill, Alive, Stages, Synchronising, LockIInv, LockTypes
    <2>2. CASE lock' = NoLock /\ p \in Holding
        BY <1>10, <2>2 DEF Kill, LockIInv, LockTypes, Stages, Begun, Named, Holding
    <2> QED BY <1>10, <2>1, <2>2 DEF Kill
<1>12. ASSUME NEW p \in Launches, Pull(p) PROVE LockIInv'
    BY <1>12, Bystander DEF Pull, At, Stages, Synchronising, LockIInv, LockTypes
<1>13. ASSUME NEW p \in Launches, OrphanEnds(p) PROVE LockIInv'
    BY <1>13 DEF OrphanEnds, LockIInv, LockTypes, Begun, Named, Holding
<1>11. CASE Reset \/ Silence \/ UNCHANGED lockVars
    BY <1>11 DEF Reset, Silence, lockVars, LockIInv, LockTypes, Begun, Named, Holding
<1> QED BY <1>1, <1>2, <1>3, <1>4, <1>5, <1>6, <1>7, <1>8, <1>9, <1>10, <1>11, <1>12, <1>13 DEF LockNext, Step

-----------------------------------------------------------------------------
LEMMA LockSafety == LockSpec => []LockIInv
BY LockInitIInv, LockNextIInv, PTL DEF LockSpec

(* Every variable keeps its type, and no more launches are killed than      *)
(* MaxKills.                                                                *)
THEOREM LockTypeCorrect == LockSpec => []LockTypeOK
<1> DEFINE Rest == /\ status \in {"idle", "running", "done", "error"}
                   /\ old \in BOOLEAN
                   /\ killed \subseteq Launches
                   /\ IsFiniteSet(killed) /\ Cardinality(killed) <= MaxKills
<1>1. LockInit => Rest
    <2> SUFFICES ASSUME LockInit PROVE Rest
        OBVIOUS
    <2>1. IsFiniteSet({}) /\ Cardinality({}) = 0
        BY FS_EmptySet
    <2>2. killed \subseteq Launches /\ IsFiniteSet(killed) /\ Cardinality(killed) <= MaxKills
        BY <2>1, SyncLockAssumption DEF LockInit
    <2>3. status \in {"idle", "running", "done", "error"} /\ old \in BOOLEAN
        BY DEF LockInit
    <2> QED BY <2>2, <2>3
<1>2. LockIInv /\ Rest /\ [LockNext]_lockVars => Rest'
    <2> SUFFICES ASSUME LockIInv, Rest, [LockNext]_lockVars PROVE Rest'
        OBVIOUS
    <2>1. ASSUME NEW p \in Launches, Kill(p) PROVE Rest'
        <3>1. /\ IsFiniteSet(killed')
              /\ Cardinality(killed') = Cardinality(killed) \/ Cardinality(killed') = Cardinality(killed) + 1
            BY <2>1, FS_AddElement DEF Kill
        <3>2. Cardinality(killed) \in Nat
            BY FS_CardinalityType
        <3>3. Cardinality(killed') <= MaxKills
            BY <2>1, <3>1, <3>2, SyncLockAssumption DEF Kill
        <3> QED BY <2>1, <3>1, <3>3 DEF Kill
    <2>2. ASSUME NEW p \in Launches,
                 Button(p) \/ Schedule(p) \/ Step(p) \/ Report(p) \/ OrphanEnds(p)
          PROVE  Rest'
        <3>1. UNCHANGED killed
            BY <2>2 DEF Button, Schedule, Step, Mkdir, WritePid, ReadPid, Remove, Remake, Pull,
                        Ends, Exit, Report, OrphanEnds
        <3>2. status' \in {"idle", "running", "done", "error"} /\ old' \in BOOLEAN
            BY <2>2 DEF Button, Schedule, Step, Mkdir, WritePid, ReadPid, Remove, Remake, Pull,
                        Ends, Exit, Report, OrphanEnds
        <3> QED BY <3>1, <3>2
    <2>3. CASE Reset \/ Silence \/ UNCHANGED lockVars
        <3>1. UNCHANGED killed
            BY <2>3 DEF Reset, Silence, lockVars
        <3>2. status' \in {"idle", "running", "done", "error"} /\ old' \in BOOLEAN
            BY <2>3 DEF Reset, Silence, lockVars
        <3> QED BY <3>1, <3>2
    <2> QED BY <2>1, <2>2, <2>3 DEF LockNext
<1>3. LockIInv /\ Rest => LockTypeOK
    BY DEF LockIInv, LockTypes, Stages, LockTypeOK
<1> HIDE DEF Rest
<1> QED BY LockSafety, <1>1, <1>2, <1>3, PTL DEF LockSpec

(* However many launches start, however many are killed and whatever they   *)
(* leave behind: two synchronise at once only after a race of acquire_lock, *)
(* unless one of them is the rsync of a killed launch.                      *)
THEOREM OneAtATime == LockSpec => []ExclusiveButForRaces
<1>1. LockIInv => ExclusiveButForRaces
    BY DEF LockIInv, Named, ExclusiveButForRaces
<1> QED BY LockSafety, <1>1, PTL
=============================================================================

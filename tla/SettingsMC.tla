---------------------------- MODULE SettingsMC -----------------------------
(* Two workers, two names for folders, three places, two at one location.   *)
EXTENDS Settings

CONSTANTS f1, f2, t1, t2

MCThreads == {t1, t2}
MCFolders == {f1, f2}
Home == [loc |-> "l1", name |-> "home"]
Hill == [loc |-> "l1", name |-> "hill"]
Coast == [loc |-> "l2", name |-> "coast"]
MCPlaces == {Home, Hill, Coast}

\* To begin with one of the two folders is there, with rows, and today's picture
\* is in it.
MCInit == Init /\ folders = {f1} /\ f1 \in rows /\ conf.pick = f1
MCSpec == MCInit /\ [][Next]_vars /\ Fairness
=============================================================================

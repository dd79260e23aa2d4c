----------------------------- MODULE PodProofs -----------------------------
(* Proofs about sync and the agent pod it prepares, for any skills,         *)
(* catalogs, selections, crashes and replaced pods.                         *)
EXTENDS AgentPod, SessionsProofs

USE SyncAssumption

Building == {"copy", "copied", "clear", "aside", "place", "sweep"}
Built == {"seen", "version", "report", "synced"}

(* The directories that have what they should.                              *)
Done(name) == \/ syncing \in Built
              \/ syncing \in Building /\ name = "catalog" /\ at = "catalog-enabled"

DirsInv == /\ \A name \in Names : Done(name) => dirs[name].final = Contents(name)
           /\ syncing \in {"clear", "aside", "place"} => dirs[at].new = Contents(at)
           /\ syncing = "sweep" => dirs[at].final = Contents(at)
           /\ syncing = "select" => at = "catalog"

ChosenInv == syncing \in Building \cup Built => wanted \in {None, stored}

(* Where a directory may be away from its place: until sync has looked at   *)
(* it, and between the two renames.                                         *)
Away(name) == \/ syncing = "recover" /\ (name # "catalog" \/ at # "catalog-enabled")
              \/ syncing = "place" /\ name = at

RecoverInv == \A name \in placed : /\ Away(name) => \/ Whole(dirs[name].final)
                                                    \/ /\ dirs[name].final = None
                                                       /\ Whole(dirs[name].old)
                                   /\ ~Away(name) => Whole(dirs[name].final)

NewsInv == /\ known \subseteq seen
           /\ version # None => Optional(version) \subseteq seen
           /\ syncing = "version" => Optional(image) \subseteq seen
           /\ syncing \in {"select", "seen"} \cup Building => first = (version = None)
           /\ NoFalseNews

SyncInv == SyncTypeOK /\ DirsInv /\ ChosenInv /\ RecoverInv /\ NewsInv

Selected == [disabled : SUBSET Skills, enabled : SUBSET Skills]

LEMMA CatalogSkills ==
    ASSUME NEW v \in Catalogs
    PROVE  v # None /\ v.required \subseteq Skills /\ Optional(v) \subseteq Skills
  BY DEF Optional

LEMMA ContentsWhole ==
    ASSUME SyncTypeOK, NEW name \in Names
    PROVE  /\ Contents(name) \in [from : Catalogs, skills : SUBSET Skills]
           /\ Contents(name) \in Trees /\ Whole(Contents(name))
<1>1. image \in Catalogs /\ stored \in Selected
  BY DEF SyncTypeOK, Selected
<1>2. /\ image.required \subseteq Skills /\ Optional(image) \subseteq Skills
      /\ image.on \subseteq Skills /\ image.off \subseteq Skills
  BY <1>1, CatalogSkills DEF Optional
<1>3. Enabled(image, stored) \subseteq Skills
  BY <1>2 DEF Enabled
<1>4. Contents(name) \in [from : Catalogs, skills : SUBSET Skills]
  BY <1>1, <1>2, <1>3 DEF Contents
<1> QED
  BY <1>4 DEF Trees, Whole

LEMMA SyncStarts == SyncInit => SyncInv
<1> SUFFICES ASSUME SyncInit PROVE SyncInv
  OBVIOUS
<1> USE DEF SyncInit
<1>1. SyncTypeOK
  <2>1. Nothing \in [final : Trees, new : Trees, old : Trees]
    BY DEF Nothing, Trees
  <2>2. dirs \in [Names -> [final : Trees, new : Trees, old : Trees]]
    BY <2>1
  <2>3. syncs \in 0..MaxSyncs
    OBVIOUS
  <2> QED
    BY <2>2, <2>3 DEF SyncTypeOK, SyncSteps, Names
<1>2. DirsInv /\ ChosenInv /\ RecoverInv
  BY DEF DirsInv, ChosenInv, RecoverInv, Done, Building, Built
<1>3. NewsInv
  BY DEF NewsInv, NoFalseNews, Building
<1> QED
  BY <1>1, <1>2, <1>3 DEF SyncInv

(* A run of sync begins, in a new pod or after a crash.                     *)
LEMMA BeginsKept ==
    ASSUME SyncInv, SyncBegins, image' \in Catalogs, wanted' \in Selections \cup {None}
    PROVE  SyncInv'
<1> USE DEF SyncBegins
<1>1. SyncTypeOK'
  <2>1. known' \subseteq Skills
    BY CatalogSkills DEF SyncInv, SyncTypeOK
  <2>2. syncs' \in 0..MaxSyncs
    BY DEF SyncInv, SyncTypeOK
  <2> QED
    BY <2>1, <2>2 DEF SyncInv, SyncTypeOK, SyncSteps, Names
<1>2. DirsInv' /\ ChosenInv'
  BY DEF DirsInv, ChosenInv, Done, Building, Built
<1>3. RecoverInv'
  BY DEF SyncInv, RecoverInv, Away
<1>4. NewsInv'
  BY DEF SyncInv, NewsInv, NoFalseNews, Building
<1> QED
  BY <1>1, <1>2, <1>3, <1>4 DEF SyncInv

LEMMA RecoverKept == ASSUME SyncInv, Recover PROVE SyncInv'
<1>1. /\ syncing = "recover" /\ UNCHANGED <<envVars, known, syncs, stored, seen, version, news, placed>>
      /\ dirs' = [dirs EXCEPT ![at] = Recovered(dirs[at])]
      /\ first' = (version = None)
      /\ \/ at = "catalog" /\ at' = "catalog-enabled" /\ syncing' = "recover"
         \/ at # "catalog" /\ at' = "catalog" /\ syncing' = "select"
  BY DEF Recover, EachDir, Step, Becomes, FirstStart
<1>2. at \in Names /\ dirs \in [Names -> [final : Trees, new : Trees, old : Trees]]
  BY DEF SyncInv, SyncTypeOK
<1>3. Recovered(dirs[at]) \in [final : Trees, new : Trees, old : Trees]
  BY <1>2 DEF Recovered, Trees
<1>4. SyncTypeOK'
  BY <1>1, <1>2, <1>3 DEF SyncInv, SyncTypeOK, SyncSteps, Names, envVars
<1>5. DirsInv' /\ ChosenInv'
  BY <1>1 DEF DirsInv, ChosenInv, Done, Building, Built
<1>6. RecoverInv'
  <2> SUFFICES ASSUME NEW name \in placed
               PROVE  /\ ~Away(name)' => Whole(dirs'[name].final)
                      /\ Whole(dirs'[name].final) \/ (dirs'[name].final = None /\ Whole(dirs'[name].old))
    BY <1>1 DEF RecoverInv
  <2>0. name \in Names
    BY DEF SyncInv, SyncTypeOK
  <2>1. CASE name = at
    <3>1. dirs'[name] = Recovered(dirs[name])
      BY <1>1, <1>2, <2>1
    <3>2. Whole(dirs[name].final) \/ (dirs[name].final = None /\ Whole(dirs[name].old))
      BY DEF SyncInv, RecoverInv
    <3>3. Whole(dirs'[name].final)
      BY <1>2, <2>0, <3>1, <3>2 DEF Recovered, Whole
    <3> QED
      BY <3>3
  <2>2. CASE name # at
    <3>1. dirs'[name] = dirs[name]
      BY <1>1, <1>2, <2>0, <2>2
    <3> QED
      BY <1>1, <1>2, <2>0, <2>2, <3>1 DEF SyncInv, RecoverInv, Away, Names
  <2> QED
    BY <2>1, <2>2
<1>7. NewsInv'
  BY <1>1 DEF SyncInv, NewsInv, NoFalseNews, envVars, Building
<1> QED
  BY <1>4, <1>5, <1>6, <1>7 DEF SyncInv

LEMMA SelectKept == ASSUME SyncInv, Select PROVE SyncInv'
<1>1. /\ syncing = "select" /\ syncing' = "copy" /\ stored' = Chosen
      /\ UNCHANGED <<envVars, known, syncs, at, dirs, seen, version, first, news, placed>>
  BY DEF Select, Step
<1>2. SyncTypeOK'
  BY <1>1 DEF SyncInv, SyncTypeOK, SyncSteps, Chosen, envVars
<1>3. DirsInv' /\ ChosenInv'
  BY <1>1 DEF SyncInv, DirsInv, ChosenInv, Done, Building, Built, Chosen, envVars
<1>4. RecoverInv'
  BY <1>1 DEF SyncInv, RecoverInv, Away
<1>5. NewsInv'
  BY <1>1 DEF SyncInv, NewsInv, NoFalseNews, envVars, Building
<1> QED
  BY <1>2, <1>3, <1>4, <1>5 DEF SyncInv

(* The steps of copying a directory into place leave the rest as it was:    *)
(* what is left is what becomes of that directory.                          *)
LEMMA BuildKept ==
    ASSUME SyncInv, syncing \in Building, syncing' \in Building \cup {"seen"},
           NEW tree \in [final : Trees, new : Trees, old : Trees], Becomes(tree),
           UNCHANGED <<envVars, known, syncs, first>>, at' \in Names,
           placed' \in {placed, placed \cup {at}}
    PROVE  SyncTypeOK' /\ ChosenInv' /\ NewsInv'
<1>1. /\ dirs' = [dirs EXCEPT ![at] = tree]
      /\ UNCHANGED <<stored, seen, version, news>>
  BY DEF Becomes
<1>2. SyncTypeOK'
  BY <1>1 DEF SyncInv, SyncTypeOK, SyncSteps, envVars, Building
<1>3. ChosenInv'
  BY <1>1 DEF SyncInv, ChosenInv, envVars, Building
<1>4. NewsInv'
  BY <1>1 DEF SyncInv, NewsInv, NoFalseNews, envVars, Building
<1> QED
  BY <1>2, <1>3, <1>4

LEMMA BuildSteps ==
    ASSUME SyncInv, Copying \/ Copied \/ Clear \/ SetAside \/ Place \/ Sweep
    PROVE  SyncInv'
<1>1. at \in Names /\ dirs[at] \in [final : Trees, new : Trees, old : Trees]
  BY DEF SyncInv, SyncTypeOK
<1>2. /\ Contents(at) \in Trees /\ Whole(Contents(at))
      /\ None \in Trees /\ Partial \in Trees /\ ~Whole(None) /\ ~Whole(Partial)
  BY <1>1, ContentsWhole DEF SyncInv, Trees, Whole
<1>3. PICK tree \in [final : Trees, new : Trees, old : Trees] :
        /\ Becomes(tree)
        /\ UNCHANGED <<envVars, known, syncs, first>>
        /\ \/ /\ syncing = "copy" /\ syncing' = "copied" /\ UNCHANGED <<at, placed>>
              /\ tree.final = dirs[at].final
           \/ /\ syncing = "copied" /\ syncing' = "clear" /\ UNCHANGED <<at, placed>>
              /\ tree.final = dirs[at].final /\ tree.new = Contents(at)
           \/ /\ syncing = "clear" /\ syncing' \in {"clear", "aside"} /\ UNCHANGED <<at, placed>>
              /\ tree.final = dirs[at].final /\ tree.new = dirs[at].new
           \/ /\ syncing = "aside" /\ syncing' = "place" /\ UNCHANGED <<at, placed>>
              /\ tree.new = dirs[at].new
              /\ tree.final = None
              /\ dirs[at].final # None => tree.old = dirs[at].final
           \/ /\ syncing = "place" /\ syncing' = "sweep" /\ at' = at
              /\ placed' = placed \cup {at}
              /\ tree.final = dirs[at].new
           \/ /\ syncing = "sweep" /\ placed' = placed
              /\ tree.final = dirs[at].final
              /\ \/ syncing' = "sweep" /\ at' = at
                 \/ syncing' = "copy" /\ at = "catalog" /\ at' = "catalog-enabled"
                 \/ syncing' = "seen" /\ at = "catalog-enabled" /\ at' = "catalog"
  <2>1. CASE Copying
    <3> DEFINE tree == [dirs[at] EXCEPT !.new = Partial]
    <3>1. tree \in [final : Trees, new : Trees, old : Trees] /\ tree.final = dirs[at].final
      BY <1>1, <1>2
    <3> HIDE DEF tree
    <3> QED
      BY <2>1, <3>1 DEF Copying, Step, tree
  <2>2. CASE Copied
    <3> DEFINE tree == [dirs[at] EXCEPT !.new = Contents(at)]
    <3>1. /\ tree \in [final : Trees, new : Trees, old : Trees]
          /\ tree.final = dirs[at].final /\ tree.new = Contents(at)
      BY <1>1, <1>2
    <3>2. Becomes(tree)
      BY <2>2 DEF Copied
    <3> HIDE DEF tree
    <3> QED
      BY <2>2, <3>1, <3>2 DEF Copied, Step
  <2>3. CASE Clear
    <3> DEFINE tree == [dirs[at] EXCEPT !.old = Removed(@)]
    <3>1. /\ tree \in [final : Trees, new : Trees, old : Trees]
          /\ tree.final = dirs[at].final /\ tree.new = dirs[at].new
      BY <1>1, <1>2 DEF Removed
    <3>2. Becomes(tree)
      BY <2>3 DEF Clear
    <3> HIDE DEF tree
    <3> QED
      BY <2>3, <3>1, <3>2 DEF Clear, Step
  <2>4. CASE SetAside
    <3> DEFINE tree == IF dirs[at].final = None THEN dirs[at]
                       ELSE [dirs[at] EXCEPT !.old = dirs[at].final, !.final = None]
    <3>1. /\ tree \in [final : Trees, new : Trees, old : Trees]
          /\ tree.new = dirs[at].new /\ tree.final = None
          /\ dirs[at].final # None => tree.old = dirs[at].final
      BY <1>1, <1>2
    <3>2. Becomes(tree)
      BY <2>4 DEF SetAside
    <3> HIDE DEF tree
    <3> QED
      BY <2>4, <3>1, <3>2 DEF SetAside, Step
  <2>5. CASE Place
    <3> DEFINE tree == [dirs[at] EXCEPT !.final = dirs[at].new, !.new = None]
    <3>1. tree \in [final : Trees, new : Trees, old : Trees] /\ tree.final = dirs[at].new
      BY <1>1, <1>2
    <3>2. Becomes(tree)
      BY <2>5 DEF Place
    <3> HIDE DEF tree
    <3> QED
      BY <2>5, <3>1, <3>2 DEF Place, Step
  <2>6. CASE Sweep
    <3> DEFINE tree == [dirs[at] EXCEPT !.old = Removed(@)]
    <3>1. tree \in [final : Trees, new : Trees, old : Trees] /\ tree.final = dirs[at].final
      BY <1>1, <1>2 DEF Removed
    <3>2. Becomes(tree)
      BY <2>6 DEF Sweep
    <3> HIDE DEF tree
    <3> QED
      BY <1>1, <2>6, <3>1, <3>2 DEF Sweep, EachDir, Step, Names
  <2> QED
    BY <2>1, <2>2, <2>3, <2>4, <2>5, <2>6
<1>4. SyncTypeOK' /\ ChosenInv' /\ NewsInv'
  <2>1. syncing \in Building /\ syncing' \in Building \cup {"seen"} /\ at' \in Names
    BY <1>1, <1>3 DEF Building, Names
  <2> QED
    BY <1>3, <2>1, BuildKept
<1>5. /\ dirs'[at] = tree /\ \A name \in Names : name # at => dirs'[name] = dirs[name]
      /\ \A name \in Names : Contents(name)' = Contents(name)
  BY <1>1, <1>3 DEF Becomes, Contents, envVars, SyncInv, SyncTypeOK, Names
<1>6. DirsInv'
  BY <1>1, <1>2, <1>3, <1>5 DEF SyncInv, DirsInv, Done, Building, Built, Names
<1>7. RecoverInv'
  <2> SUFFICES ASSUME NEW name \in placed'
               PROVE  /\ Away(name)' => \/ Whole(dirs'[name].final)
                                        \/ /\ dirs'[name].final = None
                                           /\ Whole(dirs'[name].old)
                      /\ ~Away(name)' => Whole(dirs'[name].final)
    BY DEF RecoverInv
  <2>1. name \in Names /\ (name \in placed \/ (name = at /\ syncing = "place"))
    BY <1>1, <1>3 DEF SyncInv, SyncTypeOK
  <2>2. CASE name # at
    BY <1>1, <1>3, <1>5, <2>1, <2>2 DEF SyncInv, RecoverInv, Away, Names
  <2>3. CASE name = at
    BY <1>1, <1>2, <1>3, <1>5, <2>1, <2>3 DEF SyncInv, RecoverInv, DirsInv, Away, Names
  <2> QED
    BY <2>2, <2>3
<1> QED
  BY <1>4, <1>6, <1>7 DEF SyncInv

(* The three writes after the directories.                                  *)
LEMMA TailKept == ASSUME SyncInv, Seen \/ Version \/ Report PROVE SyncInv'
<1>1. /\ UNCHANGED <<envVars, known, syncs, at, dirs, stored, first, placed>>
      /\ syncing \in {"seen", "version", "report"} /\ syncing' \in {"version", "report", "synced"}
      /\ \/ /\ syncing = "seen" /\ syncing' = "version" /\ UNCHANGED version
            /\ seen' = seen \cup Optional(image)
            /\ news' = IF first THEN {} ELSE Optional(image) \ seen
         \/ /\ syncing = "version" /\ syncing' = "report" /\ version' = image
            /\ UNCHANGED <<seen, news>>
         \/ syncing = "report" /\ syncing' = "synced" /\ UNCHANGED <<seen, news, version>>
  BY DEF Seen, Version, Report, Step, News
<1>2. image \in Catalogs /\ Optional(image) \subseteq Skills /\ image # None
  BY CatalogSkills DEF SyncInv, SyncTypeOK
<1>3. SyncTypeOK'
  BY <1>1, <1>2 DEF SyncInv, SyncTypeOK, SyncSteps, envVars
<1>4. DirsInv'
  BY <1>1 DEF SyncInv, DirsInv, Done, Building, Built, Contents, envVars
<1>5. ChosenInv' /\ RecoverInv'
  BY <1>1 DEF SyncInv, ChosenInv, RecoverInv, Away, Building, Built, envVars
<1>6. NewsInv'
  BY <1>1, <1>2 DEF SyncInv, NewsInv, NoFalseNews, Building, envVars
<1> QED
  BY <1>3, <1>4, <1>5, <1>6 DEF SyncInv

LEMMA SyncStep == SyncInv /\ [SyncStart \/ SyncCrash \/ SyncNext]_syncVars => SyncInv'
<1> SUFFICES ASSUME SyncInv, [SyncStart \/ SyncCrash \/ SyncNext]_syncVars PROVE SyncInv'
  OBVIOUS
<1>1. CASE SyncStart
  BY <1>1, BeginsKept DEF SyncStart
<1>2. CASE SyncCrash
  BY <1>2, BeginsKept DEF SyncCrash, SyncInv, SyncTypeOK, envVars
<1>3. CASE SyncNext
  BY <1>3, RecoverKept, SelectKept, TailKept, BuildSteps DEF SyncNext
<1>4. CASE UNCHANGED syncVars
  <2>1. SyncTypeOK' /\ ChosenInv' /\ NewsInv'
    BY <1>4 DEF SyncInv, SyncTypeOK, ChosenInv, NewsInv, NoFalseNews, syncVars, envVars
  <2>2. DirsInv' /\ RecoverInv'
    BY <1>4 DEF SyncInv, DirsInv, RecoverInv, Done, Away, Contents, syncVars, envVars
  <2> QED
    BY <2>1, <2>2 DEF SyncInv
<1> QED
  BY <1>1, <1>2, <1>3, <1>4

LEMMA SyncImplies == SyncInv => SyncTypeOK /\ AlwaysRecoverable /\ NoFalseNews
<1> SUFFICES ASSUME SyncInv PROVE AlwaysRecoverable /\ SyncTypeOK /\ NoFalseNews
  OBVIOUS
<1>1. AlwaysRecoverable
  BY DEF SyncInv, RecoverInv, AlwaysRecoverable
<1> QED
  BY <1>1 DEF SyncInv, NewsInv

(* Whenever sync stops, what was in place can be had back, ...              *)
THEOREM SyncRecovers == SyncSpec => []AlwaysRecoverable
  BY SyncStarts, SyncStep, SyncImplies, PTL DEF SyncSpec

(* ... and no skill is called new twice, nor any in a profile's first start,*)
(* whatever pods, crashes, catalogs and selections.                         *)
THEOREM NewsIsNew == SyncSpec => []NoFalseNews
  BY SyncStarts, SyncStep, SyncImplies, PTL DEF SyncSpec

(* A directory that was never in place is not set aside either.             *)
UnplacedEmpty == \A name \in Names \ placed : dirs[name].final = None /\ dirs[name].old = None

(* What a step does to a directory.                                         *)
Kept(name) == /\ InPlace(name)' = InPlace(name)
              /\ name \notin placed' => dirs'[name].final = None /\ dirs'[name].old = None
Swapped(name) == name \in placed' /\ InPlace(name)' = Contents(name)

LEMMA SyncSwaps ==
    ASSUME SyncInv, UnplacedEmpty, [SyncStart \/ SyncCrash \/ SyncNext]_syncVars,
           NEW name \in Names
    PROVE  Kept(name) \/ Swapped(name)
<1>1. at \in Names /\ dirs \in [Names -> [final : Trees, new : Trees, old : Trees]]
  BY DEF SyncInv, SyncTypeOK
<1>2. name \notin placed => dirs[name].final = None /\ dirs[name].old = None
  BY DEF UnplacedEmpty
<1>3. ASSUME dirs'[name] = dirs[name], placed \subseteq placed' PROVE Kept(name)
  BY <1>2, <1>3 DEF Kept, InPlace
<1>4. ASSUME dirs' = dirs \/ (name # at /\ \E tree : Becomes(tree)), placed \subseteq placed'
      PROVE  Kept(name)
  <2>1. dirs'[name] = dirs[name]
    BY <1>1, <1>4 DEF Becomes
  <2> QED
    BY <1>3, <1>4, <2>1
<1>5. CASE SyncStart \/ SyncCrash \/ Select \/ Seen \/ Version \/ Report \/ UNCHANGED syncVars
  BY <1>4, <1>5 DEF SyncStart, SyncCrash, SyncBegins, Select, Seen, Version, Report, syncVars
<1>6. CASE Recover
  <2>1. placed' = placed /\ dirs' = [dirs EXCEPT ![at] = Recovered(dirs[at])]
    BY <1>6 DEF Recover, Becomes
  <2>2. CASE name = at
    BY <1>1, <1>2, <2>1, <2>2 DEF Recovered, Kept, InPlace
  <2> QED
    BY <1>1, <1>4, <1>6, <2>1, <2>2 DEF Recover
<1>7. ASSUME name = at, Copying \/ Copied
      PROVE  Kept(name)
  <2>1. placed' = placed /\ dirs'[name].final = dirs[name].final /\ dirs'[name].old = dirs[name].old
    BY <1>1, <1>7 DEF Copying, Copied, Becomes
  <2> QED
    BY <1>2, <2>1 DEF Kept, InPlace
<1>8. ASSUME name = at, Clear \/ Sweep
      PROVE  Kept(name)
  <2>1. /\ placed' = placed /\ dirs'[name].final = dirs[name].final
        /\ dirs'[name].old = Removed(dirs[name].old)
    BY <1>1, <1>8 DEF Clear, Sweep, Becomes
  <2>2. syncing \in {"clear", "sweep"}
    BY <1>8 DEF Clear, Sweep, EachDir, Step
  <2>3. name \in placed => dirs[name].final # None
    BY <2>2 DEF SyncInv, RecoverInv, Away, Whole
  <2> QED
    BY <1>2, <2>1, <2>3 DEF Kept, InPlace, Removed
<1>9. ASSUME name = at, SetAside
      PROVE  Kept(name)
  <2>1. placed' = placed
    BY <1>9 DEF SetAside
  <2>2. CASE dirs[name].final = None
    <3>1. dirs'[name] = dirs[name]
      BY <1>1, <1>9, <2>2 DEF SetAside, Becomes
    <3> QED
      BY <1>3, <2>1, <3>1
  <2>3. CASE dirs[name].final # None
    <3>1. dirs'[name].final = None /\ dirs'[name].old = dirs[name].final
      BY <1>1, <1>9, <2>3 DEF SetAside, Becomes
    <3> QED
      BY <1>2, <2>1, <2>3, <3>1 DEF Kept, InPlace
  <2> QED
    BY <2>2, <2>3
<1>10. ASSUME name = at, Place
       PROVE  Swapped(name)
  <2>1. /\ name \in placed' /\ dirs'[name].final = dirs[name].new
        /\ syncing = "place"
    BY <1>1, <1>10 DEF Place, Becomes, Step
  <2>2. dirs[name].new = Contents(name) /\ Contents(name) # None
    BY <1>10, <2>1, ContentsWhole DEF SyncInv, DirsInv, Whole
  <2> QED
    BY <2>1, <2>2 DEF Swapped, InPlace
<1>11. ASSUME name # at, Copying \/ Copied \/ Clear \/ SetAside \/ Place \/ Sweep
       PROVE  Kept(name)
  <2>1. /\ placed \subseteq placed'
        /\ \E tree : Becomes(tree)
    BY <1>11 DEF Copying, Copied, Clear, SetAside, Place, Sweep
  <2> QED
    BY <1>4, <1>11, <2>1
<1> QED
  BY <1>5, <1>6, <1>7, <1>8, <1>9, <1>10, <1>11 DEF SyncNext

(* A directory is replaced, and never goes back, whatever crashes.          *)
THEOREM SwapsWhole == SyncSpec => OldOrNew
<1>1. SyncInit => UnplacedEmpty
  BY DEF SyncInit, UnplacedEmpty, Nothing
<1>2. SyncInv /\ UnplacedEmpty /\ [SyncStart \/ SyncCrash \/ SyncNext]_syncVars => UnplacedEmpty'
  BY SyncSwaps DEF UnplacedEmpty, Kept, Swapped
<1>3. SyncInv /\ UnplacedEmpty /\ [SyncStart \/ SyncCrash \/ SyncNext]_syncVars
      => [\A name \in Names : \/ InPlace(name)' = InPlace(name)
                            \/ InPlace(name)' = Contents(name)]_syncVars
  BY SyncSwaps DEF Kept, Swapped
<1> QED
  BY SyncStarts, SyncStep, <1>1, <1>2, <1>3, PTL DEF SyncSpec, OldOrNew
----------------------------------------------------------------------------
(* The pod around it.                                                       *)

(* The adapter runs only in a pod whose sync is over.                       *)
UpWhenSynced == up # "down" => syncing = "synced"

LEMMA PodSteps == [PodNext]_podVars => [SyncStart \/ SyncCrash \/ SyncNext]_syncVars
  BY DEF PodNext, CreatePod, Initialize, Serve, podVars

(* A pod does with the profile only what sync does, ...                     *)
LEMMA PodUsesSync == PodSpec => SyncSpec
<1>1. PodInit => SyncInit
  BY DEF PodInit
<1> QED
  BY <1>1, PodSteps, PTL DEF PodSpec, SyncSpec

LEMMA ServeSteps == [PodNext]_podVars => [SessionsStep]_sessionsVars
  BY DEF PodNext, CreatePod, Initialize, Serve, SessionsStep, podVars

(* ... and with messages only what the backend does.                        *)
LEMMA PodRunsSessions == PodSpec => SessionsSpec
<1>1. PodInit => SessionsInit
  BY DEF PodInit
<1> QED
  BY <1>1, ServeSteps, PTL DEF PodSpec, SessionsSpec, SessionsStep

(* So every state of a pod has its types, ...                               *)
THEOREM PodTyped == PodSpec => []PodTypeOK
<1>1. SyncSpec => []SyncTypeOK
  BY SyncStarts, SyncStep, SyncImplies, PTL DEF SyncSpec
<1>2. SyncTypeOK /\ SessionsTypeOK => PodTypeOK
  BY DEF PodTypeOK
<1> QED
  BY <1>1, <1>2, PodUsesSync, PodRunsSessions, SessionsTyped, PTL

(* ... and what a chat and its clients are promised holds across all pods,  *)
(* whatever is replaced while one syncs or serves.                          *)
THEOREM PodKeepsPromises ==
    PodSpec => WholeAnswer /\ [](OneSessionPerChat /\ OnlyLeaversStopped)
<1>1. SessionsSpec => WholeAnswer /\ [](OneSessionPerChat /\ OnlyLeaversStopped)
  BY AnswersWhole, OneSession, LeaversStopped, PTL
<1> QED
  BY <1>1, PodRunsSessions

LEMMA UpStart == PodInit => UpWhenSynced
  BY DEF PodInit, SessionsInit, UpWhenSynced

LEMMA UpStep == SyncTypeOK /\ UpWhenSynced /\ [PodNext]_podVars => UpWhenSynced'
<1> SUFFICES ASSUME UpWhenSynced, [PodNext]_podVars PROVE UpWhenSynced'
  OBVIOUS
<1>1. CASE CreatePod
  <2>1. CASE syncing = "off"
    BY <1>1, <2>1 DEF CreatePod, UpWhenSynced, sessionsVars, podStateVars
  <2>2. CASE syncing # "off"
    <3>1. up' = "down"
      BY <1>1, <2>2 DEF CreatePod, Replaced, Exits
    <3> QED
      BY <3>1 DEF UpWhenSynced
  <2> QED
    BY <2>1, <2>2
<1>2. CASE Initialize
  <2>1. syncing # "synced"
    BY <1>2 DEF Initialize, SyncCrash, SyncNext, Recover, Select, Seen, Version, Report, Copying,
                Copied, Clear, SetAside, Place, Sweep, EachDir, Step
  <2> QED
    BY <1>2, <2>1 DEF Initialize, UpWhenSynced, sessionsVars, podStateVars
<1>3. CASE Serve
  BY <1>3 DEF Serve, Initialized, UpWhenSynced, syncVars
<1>4. CASE UNCHANGED podVars
  BY <1>4 DEF podVars, syncVars, sessionsVars, podStateVars, UpWhenSynced
<1> QED
  BY <1>1, <1>2, <1>3, <1>4 DEF PodNext

LEMMA ServesWhenUp == SyncInv /\ UpWhenSynced => ServesSelection
<1> SUFFICES ASSUME SyncInv, up # "down", syncing = "synced" PROVE ServesSelection
  BY DEF UpWhenSynced, ServesSelection
<1>1. \A name \in Names : dirs[name].final = Contents(name)
  BY DEF SyncInv, DirsInv, Done, Built
<1>2. wanted \in {None, stored}
  BY DEF SyncInv, ChosenInv, Built
<1>3. dirs["catalog-enabled"].final.skills = Enabled(image, stored)
  BY <1>1 DEF Names, Contents
<1> QED
  BY <1>1, <1>2, <1>3 DEF ServesSelection, Names

(* An agent that answers has the catalog of its image and the skills of the *)
(* selection in force, whatever crashed before it.                          *)
THEOREM PodServesSelection == PodSpec => []ServesSelection
<1>1. PodInit => SyncInv
  BY SyncStarts DEF PodInit
<1>2. SyncInv /\ [PodNext]_podVars => SyncInv'
  BY PodSteps, SyncStep
<1>3. SyncInv => SyncTypeOK
  BY DEF SyncInv
<1> QED
  BY <1>1, <1>2, <1>3, UpStart, UpStep, ServesWhenUp, PTL DEF PodSpec
=============================================================================

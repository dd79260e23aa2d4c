---------------------------- MODULE ProfileSync ----------------------------
(* agent_sync.py sync(), the init container of an agent pod: it brings the  *)
(* profile volume in line with the catalog in its image and the selection   *)
(* the broker passed, and reports what the agent got.  The profile outlives *)
(* the pod; a crash may fall between any two of its file operations, after  *)
(* which the kubelet runs sync again from the start.                        *)
EXTENDS Naturals

CONSTANTS Skills,    (* names of skills                                     *)
          Catalogs,  (* catalogs an image may carry: for each, the required *)
                     (* skills, those on by default, and those off          *)
          Selections,(* what AGENT_SELECTION may say                        *)
          MaxSyncs,  (* bound: runs of sync, cut short ones included        *)
          None, Partial  (* no directory; one being copied or removed       *)

ASSUME SyncAssumption == /\ Catalogs \subseteq [required : SUBSET Skills, on : SUBSET Skills,
                                                off : SUBSET Skills]
                         /\ Selections \subseteq [disabled : SUBSET Skills,
                                                  enabled : SUBSET Skills]
                         /\ MaxSyncs \in Nat
                         /\ None \notin Catalogs \cup Selections
                         /\ Partial # None
                         /\ {None, Partial} \cap [from : Catalogs, skills : SUBSET Skills] = {}

VARIABLES image,    (* the catalog in the image of the pod                  *)
          wanted,   (* AGENT_SELECTION, or None                             *)
          dirs,     (* the two directories of the profile, each with its    *)
                    (* .new and .old                                        *)
          stored,   (* catalog-selection.yaml                               *)
          seen,     (* .catalog-seen                                        *)
          version,  (* .catalog-version, or None                            *)
          syncing,  (* where sync is                                        *)
          at,       (* the directory it is at                               *)
          first,    (* first_start                                          *)
          news,     (* what the report calls new                            *)
          known,    (* history: optional skills of the catalogs whose sync  *)
                    (* wrote .catalog-version in an earlier run             *)
          placed,   (* history: the directories that have been in place     *)
          syncs

envVars == <<image, wanted>>
syncVars == <<envVars, dirs, stored, seen, version, syncing, at, first, news, known,
              placed, syncs>>

Names == {"catalog", "catalog-enabled"}

Optional(v) == v.on \cup v.off

(* enabled_skills.                                                          *)
Enabled(v, s) == v.required \cup (v.on \ s.disabled) \cup (v.off \cap s.enabled)

(* What sync puts in a directory: skills of the image's catalog.            *)
Contents(name) == [from |-> image,
                   skills |-> IF name = "catalog" THEN image.required \cup Optional(image)
                              ELSE Enabled(image, stored)]

SyncSteps == {"off", "recover", "select", "copy", "copied", "clear", "aside", "place",
              "sweep", "seen", "version", "report", "synced"}

Trees == [from : Catalogs, skills : SUBSET Skills] \cup {None, Partial}

SyncTypeOK == /\ image \in Catalogs
              /\ wanted \in Selections \cup {None}
              /\ dirs \in [Names -> [final : Trees, new : Trees, old : Trees]]
              /\ stored \in [disabled : SUBSET Skills, enabled : SUBSET Skills]
              /\ seen \in SUBSET Skills
              /\ version \in Catalogs \cup {None}
              /\ syncing \in SyncSteps /\ at \in Names
              /\ first \in BOOLEAN
              /\ news \in SUBSET Optional(image) /\ known \in SUBSET Skills
              /\ placed \in SUBSET Names
              /\ syncs \in 0..MaxSyncs

Nothing == [final |-> None, new |-> None, old |-> None]

SyncInit == /\ image \in Catalogs
            /\ wanted = None
            /\ dirs = [name \in Names |-> Nothing]
            /\ stored = [disabled |-> {}, enabled |-> {}]
            /\ seen = {} /\ version = None
            /\ syncing = "off" /\ at = "catalog"
            /\ first = FALSE
            /\ news = {} /\ known = {} /\ placed = {}
            /\ syncs = 0
----------------------------------------------------------------------------
SyncBegins == /\ syncs < MaxSyncs
              /\ syncs' = syncs + 1
              /\ syncing' = "recover" /\ at' = "catalog"
              /\ news' = {}
              /\ known' = IF version = None THEN known ELSE known \cup Optional(version)
              /\ UNCHANGED <<dirs, stored, seen, version, first, placed>>

(* A pod starts: sync runs with what the broker passed and the image has.   *)
SyncStart == /\ SyncBegins
             /\ image' \in Catalogs
             /\ wanted' \in Selections \cup {None}

(* It crashes, and is run again in the same pod.                            *)
SyncCrash == /\ syncing \notin {"off", "synced"}
             /\ SyncBegins
             /\ UNCHANGED envVars

(* Sync goes from one step to the next, at a directory.                     *)
Step(from, to) == syncing = from /\ syncing' = to /\ UNCHANGED <<envVars, known, syncs>>
EachDir(from, again, to) == IF at = "catalog"
                            THEN Step(from, again) /\ at' = "catalog-enabled"
                            ELSE Step(from, to) /\ at' = "catalog"
Becomes(tree) == /\ dirs' = [dirs EXCEPT ![at] = tree]
                 /\ UNCHANGED <<stored, seen, version, news>>

(* A directory a crash left without its final place gets the old one back.  *)
(* Mutant: whenever there is an old one.                                    *)
Bug_Recovered(t) == IF t.old # None THEN [t EXCEPT !.final = t.old, !.old = None] ELSE t
Recovered(t) == IF t.final = None /\ t.old # None
                THEN [t EXCEPT !.final = t.old, !.old = None] ELSE t

(* Mutant: a profile without a catalog is a new one.                        *)
Bug_FirstStart == dirs["catalog"].final = None
FirstStart == version = None

Recover == /\ EachDir("recover", "recover", "select")
           /\ Becomes(Recovered(dirs[at]))
           /\ first' = FirstStart
           /\ UNCHANGED placed

(* The selection passed, if any, is stored; what is stored counts.          *)
Chosen == IF wanted = None THEN stored ELSE wanted

Select == /\ Step("select", "copy")
          /\ stored' = Chosen
          /\ UNCHANGED <<at, dirs, seen, version, first, news, placed>>

(* A copy, then swap_dir, one file operation at a time; a removal takes     *)
(* several.                                                                 *)
Copying == /\ Step("copy", "copied")
           /\ Becomes([dirs[at] EXCEPT !.new = Partial])
           /\ UNCHANGED <<at, first, placed>>

Copied == /\ Step("copied", "clear")
          /\ Becomes([dirs[at] EXCEPT !.new = Contents(at)])
          /\ UNCHANGED <<at, first, placed>>

Removed(tree) == IF tree \in {None, Partial} THEN None ELSE Partial

Clear == /\ Step("clear", IF Removed(dirs[at].old) = None THEN "aside" ELSE "clear")
         /\ Becomes([dirs[at] EXCEPT !.old = Removed(@)])
         /\ UNCHANGED <<at, first, placed>>

SetAside == /\ Step("aside", "place")
            /\ Becomes(IF dirs[at].final = None THEN dirs[at]
                       ELSE [dirs[at] EXCEPT !.old = dirs[at].final, !.final = None])
            /\ UNCHANGED <<at, first, placed>>

Place == /\ Step("place", "sweep")
         /\ Becomes([dirs[at] EXCEPT !.final = dirs[at].new, !.new = None])
         /\ placed' = placed \cup {at}
         /\ UNCHANGED <<at, first>>

Sweep == /\ IF Removed(dirs[at].old) = None THEN EachDir("sweep", "copy", "seen")
            ELSE Step("sweep", "sweep") /\ UNCHANGED at
         /\ Becomes([dirs[at] EXCEPT !.old = Removed(@)])
         /\ UNCHANGED <<first, placed>>

(* The skills of this catalog that no earlier start has seen are news.      *)
(* Mutant: those seen that it does not have.                                *)
Bug_News == IF first THEN {} ELSE seen \ Optional(image)
News == IF first THEN {} ELSE Optional(image) \ seen

Seen == /\ Step("seen", "version")
        /\ news' = News
        /\ seen' = seen \cup Optional(image)
        /\ UNCHANGED <<at, dirs, stored, version, first, placed>>

Version == /\ Step("version", "report")
           /\ version' = image
           /\ UNCHANGED <<at, dirs, stored, seen, first, news, placed>>

Report == /\ Step("report", "synced")
          /\ UNCHANGED <<at, dirs, stored, seen, version, first, news, placed>>

SyncNext == \/ Recover \/ Select \/ Seen \/ Version \/ Report
            \/ Copying \/ Copied \/ Clear \/ SetAside \/ Place \/ Sweep

SyncSpec == SyncInit /\ [][SyncStart \/ SyncCrash \/ SyncNext]_syncVars
----------------------------------------------------------------------------
Whole(tree) == tree \notin {None, Partial}

(* What a directory has in its place or, while it is away, set aside.       *)
InPlace(name) == IF dirs[name].final # None THEN dirs[name].final ELSE dirs[name].old

(* swap_dir: "a crash leaves either old or new in place".  What a start     *)
(* finds of a directory, after crashes of any number of syncs, changes only *)
(* to what its catalog and selection ask for, and never back: so it is      *)
(* never lost, nor anything that is half copied or half removed.            *)
OldOrNew == [][\A name \in Names : \/ InPlace(name)' = InPlace(name)
                                  \/ InPlace(name)' = Contents(name)]_syncVars

(* What that gives of a state: whenever sync stops, a directory that was    *)
(* ever in place is whole where the agent looks for it, or whole where the  *)
(* next start recovers it from.                                             *)
AlwaysRecoverable == \A name \in placed :
                        \/ Whole(dirs[name].final)
                        \/ dirs[name].final = None /\ Whole(dirs[name].old)

(* A skill is called new once: never in a profile's first start, crashed    *)
(* and repeated or not, and never if an earlier start that finished knew    *)
(* it.                                                                      *)
NoFalseNews == /\ known = {} /\ version = None => news = {}
               /\ news \cap known = {}
=============================================================================

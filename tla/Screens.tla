------------------------------ MODULE Screens ------------------------------
(* The web console's screens that show what the server has for a filter:    *)
(*   sessions   main.jsx App, the user's own sessions, by page              *)
(*   users      AdminApp.jsx Users, by search, period and page              *)
(*   audit      AdminApp.jsx Audit, by filter, older events appended        *)
(*   overview   Overview.jsx, by period                                     *)
(*   inventory  Inference.jsx, Nodes.jsx and Routes.jsx, loaded once        *)
(*   user       UserDetail.jsx, by period, model, source and agent, with    *)
(*              the lists of sessions and of requests under the summary     *)
(* An effect loads when the filter changes; a load is answered at any time, *)
(* and none is ever cancelled.  Filters are numbered as they are chosen.    *)
EXTENDS Naturals

CONSTANTS MaxFetches,  (* bound: loads of one screen, and of each list in it *)
          Pages        (* pages of a user's sessions there are              *)

ASSUME ScreensAssumption == MaxFetches \in Nat \ {0} /\ Pages \in Nat \ {0}

VARIABLES screen,   (* the one that is shown, or "none"                     *)
          filter,   (* what is chosen                                       *)
          fetches,  (* loads on their way                                   *)
          sent,     (* loads sent                                           *)
          rowsOf,   (* the filters what is shown is of; {} before any       *)
          failed,   (* an error is shown                                    *)
          busy      (* setLoading, setSessionsLoading                       *)

(* The lists under a user's summary.                                        *)
VARIABLES sessions, (* the filter and the page its rows are of, {} for none *)
          requests, (* the filters its rows are of                          *)
          page,     (* of the sessions                                      *)
          listLoads,(* loads of either on their way                         *)
          listSent

listsVars == <<sessions, requests, page, listLoads, listSent>>
screenVars == <<screen, filter, fetches, sent, rowsOf, failed, busy, listsVars>>

AllScreens == {"sessions", "users", "audit", "overview", "inventory", "user"}
Filters == 1..MaxFetches
Fetches == [nr : Filters, of : Filters, older : BOOLEAN]
ListLoads == [nr : 1..MaxFetches + 2, list : {"sessions", "requests"}, of : Filters,
              page : 1..Pages, older : BOOLEAN]

ScreensTypeOK == /\ screen \in AllScreens \cup {"none"}
                 /\ filter \in 0..MaxFetches /\ sent \in 0..MaxFetches
                 /\ fetches \subseteq Fetches
                 /\ rowsOf \subseteq Filters
                 /\ failed \in BOOLEAN /\ busy \in BOOLEAN
                 /\ sessions \subseteq Filters \X (1..Pages)
                 /\ requests \subseteq Filters
                 /\ page \in 1..Pages
                 /\ listLoads \subseteq ListLoads /\ listSent \in 0..MaxFetches + 2
                 /\ listLoads # {} => screen = "user" /\ rowsOf # {}

ScreensInit == /\ screen = "none" /\ filter = 0 /\ fetches = {} /\ sent = 0 /\ rowsOf = {}
               /\ failed = FALSE /\ busy = FALSE
               /\ sessions = {} /\ requests = {} /\ page = 1 /\ listLoads = {} /\ listSent = 0

NoLists == /\ sessions' = {} /\ requests' = {} /\ page' = 1
           /\ listLoads' = {} /\ listSent' = 0
----------------------------------------------------------------------------
Fetch(what, older) == /\ sent < MaxFetches
                      /\ sent' = sent + 1
                      /\ fetches' = fetches \cup {[nr |-> sent', of |-> what, older |-> older]}
                      /\ failed' = FALSE
                      /\ UNCHANGED screen

(* The screen is mounted: its first effects.                                *)
Mount(s) == /\ screen = "none"
            /\ screen' = s
            /\ filter' = 1 /\ sent' = 1
            /\ fetches' = {[nr |-> 1, of |-> 1, older |-> FALSE]}
            /\ busy' = (s \in {"sessions", "users", "audit"})
            /\ UNCHANGED <<rowsOf, failed, listsVars>>

(* Another page is opened in its place.                                     *)
Unmount == /\ screen' = "none"
           /\ filter' = 0 /\ fetches' = {} /\ sent' = 0 /\ rowsOf' = {}
           /\ failed' = FALSE /\ busy' = FALSE
           /\ NoLists

(* What the user can do: the pager is disabled while a page loads, a user's *)
(* filters are shown with the summary, an inventory has none.               *)
(* Mutant: the pager is always enabled.                                     *)
Bug_MayChoose == /\ screen # "inventory"
                 /\ screen \in {"sessions", "user"} => rowsOf # {}
                 /\ screen = "user" => ~failed
MayChoose == /\ screen # "inventory"
             /\ screen \in {"sessions", "user"} => rowsOf # {}
             /\ screen = "sessions" => ~busy
             /\ screen = "user" => ~failed

(* Mutant: a user's summary stays while the next is loaded.                 *)
Bug_Kept == IF screen = "overview" THEN {} ELSE rowsOf
Kept == IF screen \in {"overview", "user"} THEN {} ELSE rowsOf

(* Mutant: the list is not marked as loading again.                         *)
Bug_Busy == busy
Busy == screen \in {"sessions", "users", "audit"}

(* A filter is chosen or a page turned: the screen's effect.                *)
Choose == /\ screen # "none" /\ MayChoose
          /\ filter' = filter + 1
          /\ Fetch(filter', FALSE)
          /\ rowsOf' = Kept
          /\ busy' = Busy
          /\ NoLists

(* The audit's "Load older events", with the filters that are chosen.       *)
LoadOlder == /\ screen = "audit" /\ ~busy /\ rowsOf # {}
             /\ Fetch(filter, TRUE)
             /\ busy' = TRUE
             /\ UNCHANGED <<filter, rowsOf, listsVars>>

Rows(f) == IF f.older THEN rowsOf \cup {f.of} ELSE {f.of}

(* The lists are mounted with the summary and load their first pages.       *)
MountLists == /\ listSent' = 2
              /\ listLoads' = {[nr |-> 1, list |-> "sessions", of |-> filter, page |-> 1,
                                older |-> FALSE],
                               [nr |-> 2, list |-> "requests", of |-> filter, page |-> 1,
                                older |-> FALSE]}
              /\ UNCHANGED <<sessions, requests, page>>

Settled(f) == /\ fetches' = fetches \ {f}
              /\ busy' = FALSE
              /\ UNCHANGED <<screen, filter, sent>>

Arrives(f) == /\ Settled(f)
              /\ rowsOf' = Rows(f)
              /\ UNCHANGED failed
              /\ IF screen = "user" THEN MountLists ELSE UNCHANGED listsVars

(* The user's own list of sessions shows no error, and keeps its rows.      *)
Fails(f) == /\ Settled(f)
            /\ failed' = TRUE
            /\ UNCHANGED <<rowsOf, listsVars>>
----------------------------------------------------------------------------
(* The lists under a user's summary.                                        *)

ListLoad(list, p, older) ==
    /\ screen = "user" /\ rowsOf # {}
    /\ listSent < MaxFetches + 2
    /\ listSent' = listSent + 1
    /\ listLoads' = listLoads \cup {[nr |-> listSent', list |-> list, of |-> filter, page |-> p,
                                     older |-> older]}
    /\ UNCHANGED <<screen, filter, fetches, sent, rowsOf, failed, busy, sessions, requests>>

(* Its pager is not disabled once it has had any data.                      *)
TurnPage == /\ sessions # {}
            /\ page' \in {page - 1, page + 1} \cap 1..Pages
            /\ ListLoad("sessions", page', FALSE)

OlderRequests == /\ requests # {}
                 /\ ListLoad("requests", 1, TRUE)
                 /\ UNCHANGED page

(* A failed load shows as no rows, or as no older ones.                     *)
ListArrives(l) == /\ l \in listLoads
                  /\ listLoads' = listLoads \ {l}
                  /\ IF l.list = "sessions"
                     THEN sessions' = {<<l.of, l.page>>} /\ UNCHANGED requests
                     ELSE /\ requests' = IF l.older THEN requests \cup {l.of} ELSE {l.of}
                          /\ UNCHANGED sessions
                  /\ UNCHANGED <<screen, filter, fetches, sent, rowsOf, failed, busy, page,
                                 listSent>>

ScreenNext == \/ Choose \/ LoadOlder \/ TurnPage \/ OlderRequests
              \/ \E f \in fetches : Arrives(f) \/ Fails(f)
              \/ \E l \in listLoads : ListArrives(l)
----------------------------------------------------------------------------
(* "The window is fixed when a filter changes, so the summary, sessions and *)
(* requests all describe the same period" (UserDetail.jsx): all that a      *)
(* user's screen shows is of the filter its selects show.                   *)
SamePeriod == screen = "user" => /\ rowsOf \cup requests \subseteq {filter}
                                 /\ \A s \in sessions : s[1] = filter

(* The rows under a page number of the user's own sessions are that page's: *)
(* the pager lets no load overtake another.                                 *)
RowsOfPage ==
    screen = "sessions" /\ ~busy /\ ~failed => fetches = {} /\ rowsOf = {filter}

(* Users and Audit show a list only when one has arrived, with whatever     *)
(* loads overlapped: neither marked as loading nor as failed, there is one  *)
(* to show, and Users reads no list that is not there.                      *)
ListsHaveArrived ==
    screen \in {"users", "audit"} /\ ~busy /\ ~failed => rowsOf # {}
=============================================================================

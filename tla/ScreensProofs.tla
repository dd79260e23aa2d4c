--------------------------- MODULE ScreensProofs ---------------------------
(* Proofs about the screens of the web console, for any number of loads and *)
(* pages.                                                                   *)
EXTENDS WebProofs, FiniteSetTheorems

USE ScreensAssumption

(* "Older" loads are the audit's; a window that shows no screen loads none. *)
Fetching == /\ \A f \in fetches : f.older => screen = "audit"
            /\ screen = "none" => fetches = {} /\ rowsOf = {}

(* The screens that wait for one load at a time.                            *)
OneLoad == screen \in {"sessions", "user"} =>
               /\ \A f, g \in fetches : f = g
               /\ \A f \in fetches : f.of = filter
               /\ screen = "sessions" /\ ~busy => fetches = {}
               /\ screen = "user" /\ rowsOf # {} => fetches = {}

UserRows == screen = "user" => rowsOf \subseteq {filter}

ListRows == /\ screen # "user" => sessions = {} /\ requests = {} /\ listLoads = {}
            /\ \A l \in listLoads : l.of = filter
            /\ requests \subseteq {filter}
            /\ \A s \in sessions : s[1] = filter

ScreensInv == Fetching /\ OneLoad /\ UserRows /\ ListRows /\ RowsOfPage /\ ListsHaveArrived

ScreenStep == \/ Unmount
              \/ \E s \in AllScreens : Mount(s)
              \/ ScreenNext
              \/ UNCHANGED screenVars

LEMMA ScreenSteps == [WebNext]_webVars => ScreenStep
<1>1. ASSUME NEW p, Follows(p) PROVE ScreenStep
  BY <1>1 DEF Follows, ScreenStep
<1>2. ASSUME \/ SessionAnswers \/ UNCHANGED webVars
             \/ DashboardNext /\ UNCHANGED <<screenVars, path, capabilities>>
      PROVE  UNCHANGED screenVars
  BY <1>2 DEF SessionAnswers, webVars
<1>3. ASSUME Renders PROVE ScreenStep
  BY <1>3 DEF Renders, Shows, ScreenStep, AdminScreens, AllScreens
<1> QED
  BY <1>1, <1>2, <1>3 DEF WebNext, ScreenStep

LEMMA ScreensStart == WebInit => ScreensInv
  BY DEF WebInit, ScreensInit, ScreensInv, Fetching, OneLoad, UserRows, ListRows, RowsOfPage,
         ListsHaveArrived

LEMMA MountKept ==
    ASSUME ScreensInv, NEW s \in AllScreens, Mount(s) PROVE ScreensInv'
<1> DEFINE f1 == [nr |-> 1, of |-> 1, older |-> FALSE]
<1>1. /\ screen = "none" /\ screen' = s /\ s # "none"
      /\ filter' = 1 /\ fetches' = {f1}
      /\ busy' = (s \in {"sessions", "users", "audit"})
      /\ UNCHANGED <<rowsOf, failed, listsVars>>
  BY DEF Mount, AllScreens
<1>2. f1.of = 1 /\ f1.older = FALSE
  OBVIOUS
<1> HIDE DEF f1
<1>3. rowsOf = {} /\ sessions = {} /\ requests = {} /\ listLoads = {}
  BY <1>1 DEF ScreensInv, Fetching, ListRows
<1> QED
  BY <1>1, <1>2, <1>3
     DEF ScreensInv, Fetching, OneLoad, UserRows, ListRows, RowsOfPage, ListsHaveArrived, listsVars

LEMMA UnmountKept == ASSUME Unmount PROVE ScreensInv'
  BY DEF Unmount, NoLists, ScreensInv, Fetching, OneLoad, UserRows, ListRows, RowsOfPage,
         ListsHaveArrived

LEMMA ChooseKept == ASSUME ScreensInv, Choose PROVE ScreensInv'
<1> DEFINE new == [nr |-> sent', of |-> filter', older |-> FALSE]
<1>1. /\ screen # "none" /\ UNCHANGED screen /\ MayChoose
      /\ filter' = filter + 1 /\ Fetch(filter', FALSE)
      /\ fetches' = fetches \cup {new} /\ new.of = filter' /\ new.older = FALSE
      /\ rowsOf' = Kept /\ busy' = Busy /\ failed' = FALSE /\ NoLists
  BY DEF Choose, Fetch
<1> HIDE DEF new
<1>2. Fetching'
  BY <1>1 DEF ScreensInv, Fetching
<1>3. OneLoad'
  BY <1>1 DEF ScreensInv, OneLoad, MayChoose, Kept, Busy
<1>4. UserRows' /\ ListRows'
  BY <1>1 DEF UserRows, ListRows, Kept, NoLists
<1>5. RowsOfPage' /\ ListsHaveArrived'
  BY <1>1 DEF RowsOfPage, ListsHaveArrived, Busy
<1> QED
  BY <1>2, <1>3, <1>4, <1>5 DEF ScreensInv

LEMMA OlderKept == ASSUME ScreensInv, LoadOlder PROVE ScreensInv'
<1>1. /\ screen = "audit" /\ UNCHANGED screen /\ rowsOf # {} /\ busy'
      /\ UNCHANGED <<filter, rowsOf, listsVars>>
  BY DEF LoadOlder, Fetch
<1> QED
  BY <1>1
     DEF ScreensInv, Fetching, OneLoad, UserRows, ListRows, RowsOfPage, ListsHaveArrived, listsVars

LEMMA ArrivesKept == ASSUME ScreensInv, NEW f \in fetches, Arrives(f) PROVE ScreensInv'
<1>1. /\ fetches' = fetches \ {f} /\ busy' = FALSE /\ UNCHANGED <<screen, filter, failed>>
      /\ rowsOf' = Rows(f)
      /\ IF screen = "user" THEN MountLists ELSE UNCHANGED listsVars
  BY DEF Arrives, Settled
<1>2. Fetching'
  BY <1>1 DEF ScreensInv, Fetching
<1>3. screen \in {"sessions", "user"} => f.of = filter /\ ~f.older /\ fetches' = {}
  BY <1>1 DEF ScreensInv, OneLoad, Fetching
<1>4. OneLoad' /\ UserRows' /\ RowsOfPage'
  BY <1>1, <1>3 DEF OneLoad, UserRows, RowsOfPage, Rows
<1>5. ListsHaveArrived'
  BY <1>1 DEF ListsHaveArrived, Rows
<1>6. ListRows'
  BY <1>1 DEF ScreensInv, ListRows, MountLists, listsVars
<1> QED
  BY <1>2, <1>4, <1>5, <1>6 DEF ScreensInv

LEMMA FailsKept == ASSUME ScreensInv, NEW f \in fetches, Fails(f) PROVE ScreensInv'
<1>1. /\ fetches' = fetches \ {f} /\ busy' = FALSE /\ failed' = TRUE
      /\ UNCHANGED <<screen, filter, rowsOf, listsVars>>
  BY DEF Fails, Settled
<1>2. Fetching'
  BY <1>1 DEF ScreensInv, Fetching
<1>3. OneLoad'
  BY <1>1 DEF ScreensInv, OneLoad
<1>4. UserRows' /\ ListRows' /\ RowsOfPage' /\ ListsHaveArrived'
  BY <1>1 DEF ScreensInv, UserRows, ListRows, RowsOfPage, ListsHaveArrived, listsVars
<1> QED
  BY <1>2, <1>3, <1>4 DEF ScreensInv

(* The lists under a summary load and arrive without the rest.              *)
LEMMA ListsKept ==
    ASSUME ScreensInv, TurnPage \/ OlderRequests \/ (\E l \in listLoads : ListArrives(l))
    PROVE  ScreensInv'
<1>1. /\ UNCHANGED <<screen, filter, fetches, sent, rowsOf, failed, busy>>
      /\ ListRows'
  <2>1. ASSUME NEW list_, NEW p, NEW older, ListLoad(list_, p, older)
        PROVE  /\ UNCHANGED <<screen, filter, fetches, sent, rowsOf, failed, busy>>
               /\ ListRows'
    <3> DEFINE new == [nr |-> listSent', list |-> list_, of |-> filter, page |-> p,
                       older |-> older]
    <3>1. /\ screen = "user" /\ listLoads' = listLoads \cup {new} /\ new.of = filter
          /\ UNCHANGED <<screen, filter, fetches, sent, rowsOf, failed, busy, sessions,
                         requests>>
      BY <2>1 DEF ListLoad
    <3> HIDE DEF new
    <3> QED
      BY <3>1 DEF ScreensInv, ListRows
  <2>2. ASSUME NEW l \in listLoads, ListArrives(l)
        PROVE  /\ UNCHANGED <<screen, filter, fetches, sent, rowsOf, failed, busy>>
               /\ ListRows'
    BY <2>2 DEF ListArrives, ScreensInv, ListRows
  <2> QED
    BY <2>1, <2>2 DEF TurnPage, OlderRequests
<1>2. Fetching'
  BY <1>1 DEF ScreensInv, Fetching
<1>3. OneLoad' /\ UserRows' /\ RowsOfPage' /\ ListsHaveArrived'
  BY <1>1 DEF ScreensInv, OneLoad, UserRows, RowsOfPage, ListsHaveArrived
<1> QED
  BY <1>1, <1>2, <1>3 DEF ScreensInv

LEMMA ScreensStep == ScreensInv /\ [WebNext]_webVars => ScreensInv'
<1> SUFFICES ASSUME ScreensInv, ScreenStep PROVE ScreensInv'
  BY ScreenSteps
<1>1. ASSUME UNCHANGED screenVars PROVE ScreensInv'
  <2>1. Fetching'
    BY <1>1 DEF screenVars, ScreensInv, Fetching
  <2>2. OneLoad' /\ UserRows' /\ ListRows' /\ RowsOfPage' /\ ListsHaveArrived'
    BY <1>1 DEF screenVars, listsVars, ScreensInv, OneLoad, UserRows, ListRows, RowsOfPage,
                ListsHaveArrived
  <2> QED
    BY <2>1, <2>2 DEF ScreensInv
<1> QED
  BY <1>1, MountKept, UnmountKept, ChooseKept, OlderKept, ArrivesKept, FailsKept, ListsKept
     DEF ScreenStep, ScreenNext

LEMMA ScreensHold == WebSpec => []ScreensInv
  BY ScreensStart, ScreensStep, PTL DEF WebSpec

(* Whatever is chosen, loaded and answered in whatever order: what a user's *)
(* screen shows is of one period, ...                                       *)
THEOREM OnePeriod == WebSpec => []SamePeriod
<1>1. ScreensInv => SamePeriod
  BY DEF ScreensInv, UserRows, ListRows, SamePeriod
<1> QED
  BY <1>1, ScreensHold, PTL

(* ... the rows of the user's own sessions are of the page its pager says,  *)
THEOREM PagerTells == WebSpec => []RowsOfPage
<1>1. ScreensInv => RowsOfPage
  BY DEF ScreensInv
<1> QED
  BY <1>1, ScreensHold, PTL

(* ... the users' and the audit's list is there before it is shown.         *)
THEOREM ListsAreThere == WebSpec => []ListsHaveArrived
<1>1. ScreensInv => ListsHaveArrived
  BY DEF ScreensInv
<1> QED
  BY <1>1, ScreensHold, PTL

----------------------------------------------------------------------------
(* The types of the window.  Filters are at most as many as loads; a user's *)
(* lists are loaded for a filter that was chosen.                           *)
ScreenTypes == /\ screen \in AllScreens \cup {"none"}
               /\ filter \in 0..sent /\ sent \in 0..MaxFetches
               /\ screen # "none" => filter # 0
               /\ fetches \subseteq Fetches
               /\ rowsOf \subseteq Filters

Flags == failed \in BOOLEAN /\ busy \in BOOLEAN

ListTypes == /\ sessions \subseteq Filters \X (1..Pages)
             /\ requests \subseteq Filters
             /\ page \in 1..Pages
             /\ listLoads \subseteq ListLoads /\ listSent \in 0..MaxFetches + 2
             /\ listLoads # {} => screen = "user" /\ rowsOf # {}

LEMMA TypesStart == WebInit => ScreenTypes /\ ListTypes /\ Flags
<1>1. 1 \in 1..Pages /\ 0 \in 0..MaxFetches /\ 0 \in 0..MaxFetches + 2
  OBVIOUS
<1>2. WebInit => ListTypes
  BY <1>1 DEF WebInit, ScreensInit, ListTypes
<1>3. WebInit => ScreenTypes
  BY <1>1 DEF WebInit, ScreensInit, ScreenTypes
<1>4. WebInit => Flags
  BY DEF WebInit, ScreensInit, Flags
<1> QED
  BY <1>2, <1>3, <1>4

LEMMA FlagsStep == Flags /\ ScreenStep => Flags'
<1> SUFFICES ASSUME Flags, ScreenStep PROVE Flags'
  OBVIOUS
<1>1. ASSUME Unmount PROVE Flags'
  BY <1>1 DEF Unmount, Flags
<1>2. ASSUME NEW s \in AllScreens, Mount(s) PROVE Flags'
  BY <1>2 DEF Mount, Flags
<1>3. ASSUME Choose \/ LoadOlder PROVE Flags'
  <2>1. failed' = FALSE
    BY <1>3 DEF Choose, LoadOlder, Fetch
  <2>2. Choose => busy' \in BOOLEAN
    BY DEF Choose, Busy
  <2>3. LoadOlder => busy' \in BOOLEAN
    BY DEF LoadOlder
  <2> QED
    BY <1>3, <2>1, <2>2, <2>3 DEF Flags
<1>4. ASSUME NEW f \in fetches, Arrives(f) \/ Fails(f) PROVE Flags'
  BY <1>4 DEF Arrives, Fails, Settled, Flags
<1>5. ASSUME \/ TurnPage \/ OlderRequests \/ (\E l \in listLoads : ListArrives(l))
             \/ UNCHANGED screenVars
      PROVE  Flags'
  BY <1>5 DEF TurnPage, OlderRequests, ListLoad, ListArrives, screenVars, Flags
<1> QED
  BY <1>1, <1>2, <1>3, <1>4, <1>5 DEF ScreenStep, ScreenNext

LEMMA FetchTypes ==
    ASSUME ScreenTypes, screen # "none", NEW what \in {filter, filter + 1}, filter' = what,
           NEW older \in BOOLEAN, Fetch(what, older), rowsOf' \in {rowsOf, {}}
    PROVE  ScreenTypes'
<1> DEFINE new == [nr |-> sent', of |-> what, older |-> older]
<1>1. sent' = sent + 1 /\ sent' \in 1..MaxFetches /\ what \in 1..sent'
  BY DEF Fetch, ScreenTypes
<1>2. new \in Fetches
  BY <1>1 DEF Fetches, Filters, ScreenTypes
<1>3. fetches' = fetches \cup {new} /\ UNCHANGED screen
  BY DEF Fetch
<1> HIDE DEF new
<1> QED
  BY <1>1, <1>2, <1>3 DEF ScreenTypes

LEMMA ScreenTypesStep == ScreenTypes /\ ScreenStep => ScreenTypes'
<1> SUFFICES ASSUME ScreenTypes, ScreenStep PROVE ScreenTypes'
  OBVIOUS
<1>1. ASSUME Unmount PROVE ScreenTypes'
  BY <1>1 DEF Unmount, ScreenTypes
<1>2. ASSUME NEW s \in AllScreens, Mount(s) PROVE ScreenTypes'
  BY <1>2 DEF Mount, ScreenTypes, Fetches, Filters
<1>3. ASSUME Choose PROVE ScreenTypes'
  <2>1. /\ screen # "none" /\ filter' = filter + 1 /\ Fetch(filter + 1, FALSE)
        /\ rowsOf' \in {rowsOf, {}}
    BY <1>3 DEF Choose, Kept
  <2> QED
    BY <2>1, FetchTypes
<1>4. ASSUME LoadOlder PROVE ScreenTypes'
  <2>1. screen # "none" /\ filter' = filter /\ Fetch(filter, TRUE) /\ rowsOf' = rowsOf
    BY <1>4 DEF LoadOlder
  <2> QED
    BY <2>1, FetchTypes
<1>5. ASSUME NEW f \in fetches, Arrives(f) \/ Fails(f) PROVE ScreenTypes'
  <2>1. f.of \in Filters /\ rowsOf' \subseteq rowsOf \cup {f.of} /\ fetches' \subseteq fetches
    BY <1>5 DEF Arrives, Fails, Settled, Rows, ScreenTypes, Fetches
  <2>2. UNCHANGED <<screen, filter, sent>>
    BY <1>5 DEF Arrives, Fails, Settled
  <2> QED
    BY <2>1, <2>2 DEF ScreenTypes
<1>6. ASSUME \/ TurnPage \/ OlderRequests \/ (\E l \in listLoads : ListArrives(l))
             \/ UNCHANGED screenVars
      PROVE  ScreenTypes'
  <2>1. UNCHANGED <<screen, filter, fetches, sent, rowsOf>>
    BY <1>6 DEF TurnPage, OlderRequests, ListLoad, ListArrives, screenVars
  <2> QED
    BY <2>1 DEF ScreenTypes
<1> QED
  BY <1>1, <1>2, <1>3, <1>4, <1>5, <1>6 DEF ScreenStep, ScreenNext

LEMMA ListLoadTypes ==
    ASSUME ScreenTypes, ListTypes, NEW list_ \in {"sessions", "requests"}, NEW p \in 1..Pages,
           NEW older \in BOOLEAN, ListLoad(list_, p, older), page' \in 1..Pages
    PROVE  ListTypes'
<1> DEFINE new == [nr |-> listSent', list |-> list_, of |-> filter, page |-> p, older |-> older]
<1>1. screen = "user" /\ filter \in Filters /\ listSent' \in 1..MaxFetches + 2
  BY DEF ListLoad, ScreenTypes, ListTypes, Filters
<1>2. new \in ListLoads
  BY <1>1 DEF ListLoads
<1>3. /\ listLoads' = listLoads \cup {new} /\ rowsOf # {}
      /\ UNCHANGED <<screen, rowsOf, sessions, requests>>
  BY DEF ListLoad
<1> HIDE DEF new
<1> QED
  BY <1>1, <1>2, <1>3 DEF ListTypes

LEMMA ListTypesStep == ScreensInv /\ ScreenTypes /\ ListTypes /\ ScreenStep => ListTypes'
<1> SUFFICES ASSUME ScreensInv, ScreenTypes, ListTypes, ScreenStep PROVE ListTypes'
  OBVIOUS
<1>0. 1 \in 1..Pages /\ 0 \in 0..MaxFetches + 2
  OBVIOUS
<1>1. ASSUME Unmount \/ Choose PROVE ListTypes'
  <2>1. NoLists
    BY <1>1 DEF Unmount, Choose
  <2> QED
    BY <1>0, <2>1 DEF NoLists, ListTypes
<1>2. ASSUME NEW s \in AllScreens, Mount(s) PROVE ListTypes'
  <2>1. listLoads = {}
    BY <1>2 DEF Mount, ScreensInv, ListRows
  <2> QED
    BY <1>2, <2>1 DEF Mount, ListTypes, listsVars
<1>3. ASSUME LoadOlder PROVE ListTypes'
  BY <1>3 DEF LoadOlder, Fetch, ListTypes, listsVars
<1>4. ASSUME NEW f \in fetches, Arrives(f), screen = "user" PROVE ListTypes'
  <2>1. MountLists /\ rowsOf' # {} /\ screen' = "user"
    BY <1>4 DEF Arrives, Settled, Rows
  <2>2. filter \in Filters /\ MaxFetches \in Nat
    BY <1>4 DEF ScreenTypes, Filters
  <2>3. listLoads' \subseteq ListLoads /\ listSent' \in 0..MaxFetches + 2
    BY <2>1, <2>2 DEF MountLists, ListLoads
  <2> QED
    BY <2>1, <2>3 DEF MountLists, ListTypes
<1>5. ASSUME NEW f \in fetches, (Arrives(f) /\ screen # "user") \/ Fails(f) PROVE ListTypes'
  <2>1. UNCHANGED <<screen, listsVars>> /\ (rowsOf # {} => rowsOf' # {})
    BY <1>5 DEF Arrives, Fails, Settled, Rows
  <2> QED
    BY <2>1 DEF ListTypes, listsVars
<1>6. ASSUME TurnPage PROVE ListTypes'
  <2>1. page' \in 1..Pages /\ ListLoad("sessions", page', FALSE)
    BY <1>6 DEF TurnPage
  <2> QED
    BY <2>1, ListLoadTypes
<1>7. ASSUME OlderRequests PROVE ListTypes'
  <2>1. page' = page /\ ListLoad("requests", 1, TRUE)
    BY <1>7 DEF OlderRequests
  <2>2. page \in 1..Pages
    BY DEF ListTypes
  <2> QED
    BY <1>0, <2>1, <2>2, ListLoadTypes
<1>8. ASSUME NEW l \in listLoads, ListArrives(l) PROVE ListTypes'
  <2>1. l.of \in Filters /\ l.page \in 1..Pages
    BY DEF ListTypes, ListLoads
  <2>2. sessions' \subseteq Filters \X (1..Pages) /\ requests' \subseteq Filters
    BY <1>8, <2>1 DEF ListArrives, ListTypes
  <2> QED
    BY <1>8, <2>2 DEF ListArrives, ListTypes
<1>9. ASSUME UNCHANGED screenVars PROVE ListTypes'
  BY <1>9 DEF screenVars, listsVars, ListTypes
<1> QED
  BY <1>1, <1>2, <1>3, <1>4, <1>5, <1>6, <1>7, <1>8, <1>9 DEF ScreenStep, ScreenNext
----------------------------------------------------------------------------
(* The types of the user's own page.  It loads the list when it is opened,  *)
(* for a click on Refresh, and when what a click asked for is answered: the *)
(* loads are no more than the clicks and the first.                         *)
PageTypes == /\ clicks \in 0..MaxClicks
             /\ list \in Lists
             /\ calls \subseteq Calls
             /\ \A c \in calls : c.nr \in 1..clicks
             /\ ~shown => loads = {} /\ calls = {} /\ clicks = 0 /\ newest = 0

PageFlags == shown \in BOOLEAN /\ loading \in BOOLEAN /\ creating \in BOOLEAN /\ issuing \in BOOLEAN

LoadsClicked == /\ IsFiniteSet(calls)
                /\ newest + Cardinality(calls) <= clicks + 1
                /\ \A l \in loads : l.nr \in 1..newest

PageInv == PageTypes /\ LoadsClicked

LEMMA PageStart == WebInit => PageInv /\ PageFlags
<1> SUFFICES ASSUME WebInit PROVE PageInv /\ PageFlags
  OBVIOUS
<1>1. /\ shown = FALSE /\ clicks = 0 /\ list = NoTokens /\ loads = {} /\ newest = 0
      /\ calls = {}
  BY DEF WebInit, DashboardInit
<1>2. PageFlags
  BY DEF WebInit, DashboardInit, PageFlags
<1>3. MaxClicks \in Nat /\ NoTokens \in Lists
  BY DashboardAssumption DEF NoTokens, Lists, Statuses
<1> QED
  BY <1>1, <1>2, <1>3, FS_EmptySet DEF PageInv, PageTypes, LoadsClicked

(* The numbers.                                                             *)
LEMMA Numbers ==
    ASSUME LoadsNumbered, PageInv
    PROVE  /\ newest \in Nat /\ MaxClicks \in Nat /\ clicks \in 0..MaxClicks
           /\ IsFiniteSet(calls) /\ Cardinality(calls) \in Nat
           /\ newest + Cardinality(calls) <= clicks + 1
  BY FS_CardinalityType, DashboardAssumption DEF PageInv, PageTypes, LoadsClicked, LoadsNumbered

(* A load is sent for a click or an answer.                                 *)
LEMMA SendsTypes ==
    ASSUME LoadsNumbered, PageInv, NEW what \in LoadKinds, Sends(what), shown',
           clicks' \in clicks..MaxClicks, calls' \subseteq calls, IsFiniteSet(calls'),
           newest + 1 + Cardinality(calls') <= clicks' + 1
    PROVE  PageInv'
<1>1. PICK new \in LoadRecords : new.nr = newest' /\ loads' = loads \cup {new}
  BY SendsOne
<1>2. newest' = newest + 1 /\ list' = list
  BY SendsOne
<1>3. \A l \in loads' : l.nr \in 1..newest'
  BY <1>1, <1>2, Numbers DEF PageInv, LoadsClicked
<1>4. clicks' \in 0..MaxClicks /\ \A c \in calls' : c.nr \in 1..clicks'
  BY Numbers DEF PageInv, PageTypes
<1> QED
  BY <1>2, <1>3, <1>4 DEF PageInv, PageTypes, LoadsClicked

(* A click that asks for something.                                         *)
LEMMA AsksTypes ==
    ASSUME LoadsNumbered, PageInv, NEW x \in All, NEW what \in {"make", "revoke"}, Asks(x, what)
    PROVE  PageInv'
<1> DEFINE c == [nr |-> clicks', of |-> x, what |-> what]
<1>1. /\ shown /\ shown' = shown /\ clicks < MaxClicks /\ clicks' = clicks + 1
      /\ calls' = calls \cup {c} /\ UNCHANGED <<list, loads, newest>>
  BY DEF Asks, Clicks, listVars
<1>2. clicks' \in 1..MaxClicks /\ c \in Calls /\ c.nr = clicks'
  BY <1>1, Numbers DEF Calls
<1> HIDE DEF c
<1>3. c \notin calls
  BY <1>1, <1>2, Numbers DEF PageInv, PageTypes
<1>4. IsFiniteSet(calls') /\ Cardinality(calls') = Cardinality(calls) + 1
  BY <1>1, <1>3, Numbers, FS_AddElement
<1>5. \A d \in calls' : d.nr \in 1..clicks'
  BY <1>1, <1>2, Numbers DEF PageInv, PageTypes
<1>6. newest' + Cardinality(calls') <= clicks' + 1
  BY <1>1, <1>4, Numbers
<1> QED
  BY <1>1, <1>2, <1>4, <1>5, <1>6 DEF PageInv, PageTypes, LoadsClicked

(* A call that is over.                                                     *)
LEMMA CallOver ==
    ASSUME LoadsNumbered, PageInv, NEW c \in calls, calls' = calls \ {c}
    PROVE  /\ IsFiniteSet(calls') /\ Cardinality(calls') = Cardinality(calls) - 1
           /\ shown
  BY FS_RemoveElement, Numbers DEF PageInv, PageTypes

LEMMA AnswersTypes ==
    ASSUME LoadsNumbered, PageInv, NEW c \in calls, NEW what, Answers(c, what),
           NEW for \in LoadKinds, Sends(for)
    PROVE  PageInv'
<1>1. calls' = calls \ {c} /\ UNCHANGED <<shown, clicks>>
  BY DEF Answers
<1>2. clicks' \in clicks..MaxClicks /\ newest + 1 + Cardinality(calls') <= clicks' + 1
  BY <1>1, CallOver, Numbers
<1> QED
  BY <1>1, <1>2, CallOver, SendsTypes

(* A step that asks and sends nothing.                                      *)
LEMMA QuietTypes ==
    ASSUME LoadsNumbered, PageInv, UNCHANGED <<shown, clicks, newest>>, list' \in Lists,
           calls' \subseteq calls, IsFiniteSet(calls'), Cardinality(calls') <= Cardinality(calls),
           \A l \in loads' : \E m \in loads : l.nr = m.nr
    PROVE  PageInv'
<1>1. Cardinality(calls') \in Nat
  BY FS_CardinalityType
<1>2. newest' + Cardinality(calls') <= clicks' + 1
  BY <1>1, Numbers
<1>3. ~shown => loads' = {} /\ calls' = {}
  BY DEF PageInv, PageTypes
<1> QED
  BY <1>2, <1>3 DEF PageInv, PageTypes, LoadsClicked

LEMMA NoAnswerTypes ==
    ASSUME LoadsNumbered, PageInv, NEW c \in calls, NoAnswer(c) PROVE PageInv'
<1>1. calls' = calls \ {c} /\ UNCHANGED <<shown, clicks, list, loads, newest>>
  BY DEF NoAnswer, listVars
<1>2. Cardinality(calls') <= Cardinality(calls) /\ list \in Lists
  BY <1>1, CallOver, Numbers DEF PageInv, PageTypes
<1> QED
  BY <1>1, <1>2, CallOver, QuietTypes

LEMMA LoadTypes ==
    ASSUME TokensInv, LoadsNumbered, PageInv, NEW l \in loads, Read(l) \/ Loaded(l) \/ NotLoaded(l)
    PROVE  PageInv'
<1>1. list \in Lists /\ l.list \in Lists
  BY DEF PageInv, PageTypes, LoadsNumbered, LoadRecords
<1>2. UNCHANGED <<shown, clicks, newest, calls>> /\ list' \in {list, l.list}
  BY DEF Read, Loaded, NotLoaded, Settles, askVars
<1>3. ASSUME Read(l) PROVE \A m \in loads' : \E n \in loads : m.nr = n.nr
  BY <1>3, ReadsOne
<1>4. ASSUME Loaded(l) \/ NotLoaded(l) PROVE loads' \subseteq loads
  BY <1>4 DEF Loaded, NotLoaded, Settles
<1>5. \A m \in loads' : \E n \in loads : m.nr = n.nr
  BY <1>3, <1>4
<1> QED
  BY <1>1, <1>2, <1>5, Numbers, QuietTypes

LEMMA PageStep == TokensInv /\ LoadsNumbered /\ PageInv /\ [WebNext]_webVars => PageInv'
<1> SUFFICES ASSUME TokensInv, LoadsNumbered, PageInv, PageMove PROVE PageInv'
  BY PageMoves
<1>1. ASSUME NEW l \in loads, Read(l) \/ Loaded(l) \/ NotLoaded(l) PROVE PageInv'
  BY <1>1, LoadTypes
<1>2. ASSUME Refresh PROVE PageInv'
  <2>1. /\ Sends("page") /\ shown' /\ clicks < MaxClicks /\ clicks' = clicks + 1 /\ calls' = calls
    BY <1>2 DEF Refresh, Clicks, askVars
  <2>2. clicks' \in clicks..MaxClicks /\ newest + 1 + Cardinality(calls') <= clicks' + 1
    BY <2>1, Numbers
  <2> QED
    BY <2>1, <2>2, Numbers, SendsTypes DEF LoadKinds
<1>3. ASSUME Opens PROVE PageInv'
  <2>1. Sends("page") /\ shown' /\ clicks' = clicks /\ calls' = calls /\ newest = 0 /\ calls = {}
    BY <1>3 DEF Opens, askVars, PageInv, PageTypes
  <2>2. clicks' \in clicks..MaxClicks /\ newest + 1 + Cardinality(calls') <= clicks' + 1
    BY <2>1, Numbers, FS_EmptySet
  <2> QED
    BY <2>1, <2>2, Numbers, SendsTypes DEF LoadKinds
<1>4. ASSUME NEW x \in All, Create(x) \/ Issue(x) \/ Revoke(x) PROVE PageInv'
  <2>1. \/ \E what \in {"make", "revoke"} : Asks(x, what)
        \/ \E c \in calls, what \in {"make", "revoke"}, for \in LoadKinds : Answers(c, what) /\ Sends(for)
    BY <1>4 DEF Create, Issue, Revoke, LoadKinds
  <2> QED
    BY <2>1, AsksTypes, AnswersTypes
<1>5. ASSUME NEW c \in calls, NoAnswer(c) PROVE PageInv'
  BY <1>5, NoAnswerTypes
<1>6. ASSUME Closes PROVE PageInv'
  <2>1. /\ shown' = FALSE /\ clicks' = 0 /\ list' = NoTokens /\ loads' = {} /\ newest' = 0
        /\ calls' = {} /\ NoTokens \in Lists
    BY <1>6 DEF Closes, NoTokens, Lists, Statuses
  <2> QED
    BY <2>1, Numbers, FS_EmptySet DEF PageInv, PageTypes, LoadsClicked
<1>7. ASSUME UNCHANGED pageVars PROVE PageInv'
  BY <1>7 DEF pageVars, listVars, askVars, PageInv, PageTypes, LoadsClicked
<1> QED
  BY <1>1, <1>2, <1>3, <1>4, <1>5, <1>6, <1>7 DEF PageMove, All

LEMMA PageFlagsStep == PageFlags /\ [WebNext]_webVars => PageFlags'
<1> SUFFICES ASSUME PageFlags, PageMove PROVE PageFlags'
  BY PageMoves
<1>1. ASSUME NEW x, Create(x) \/ Issue(x) \/ Revoke(x) PROVE PageFlags'
  BY <1>1 DEF Create, Issue, Revoke, Asks, Answers, Clicks, Sends, listVars, PageFlags
<1>2. ASSUME NEW c, NoAnswer(c) PROVE PageFlags'
  BY <1>2 DEF NoAnswer, listVars, PageFlags
<1>3. ASSUME NEW l \in loads, Read(l) \/ Loaded(l) \/ NotLoaded(l) PROVE PageFlags'
  BY <1>3 DEF Read, Loaded, NotLoaded, Settles, Enables, askVars, PageFlags
<1>4. ASSUME Refresh \/ Opens PROVE PageFlags'
  BY <1>4 DEF Refresh, Opens, Clicks, Sends, askVars, PageFlags
<1>5. ASSUME Closes \/ UNCHANGED pageVars PROVE PageFlags'
  BY <1>5 DEF Closes, pageVars, listVars, askVars, PageFlags
<1> QED
  BY <1>1, <1>2, <1>3, <1>4, <1>5 DEF PageMove
----------------------------------------------------------------------------
(* Which page the window is on.  An admin screen is shown only to who may   *)
(* see it.                                                                  *)
WindowInv == /\ path \in {"/"} \cup AdminScreens
             /\ capabilities \in {"unknown", "user", "admin"}
             /\ shown \/ screen = "sessions" => path = "/"
             /\ screen \in AdminScreens => path = screen /\ capabilities = "admin"

LEMMA WindowStep == WindowInv /\ [WebNext]_webVars => WindowInv'
<1> SUFFICES ASSUME WindowInv, [WebNext]_webVars PROVE WindowInv'
  OBVIOUS
<1> USE DEF WindowInv, AdminScreens, AllScreens
<1>1. ASSUME NEW p \in {"/"} \cup AdminScreens, Follows(p) PROVE WindowInv'
  BY <1>1 DEF Follows, Closes, Unmount
<1>2. ASSUME SessionAnswers PROVE WindowInv'
  BY <1>2 DEF SessionAnswers, dashboardVars, pageVars, screenVars
<1>3. ASSUME Renders PROVE WindowInv'
  BY <1>3 DEF Renders, Shows, Mount, Opens, dashboardVars, pageVars, screenVars
<1>4. ASSUME DashboardNext, UNCHANGED <<screenVars, path, capabilities>> PROVE WindowInv'
  <2>1. UNCHANGED shown
    BY <1>4 DEF DashboardNext, Read, Loaded, NotLoaded, Settles, Refresh, Service, pageVars, Create, Issue,
                Revoke, NoAnswer, Asks, Answers, Clicks
  <2> QED
    BY <1>4, <2>1 DEF screenVars
<1>5. ASSUME ScreenNext, UNCHANGED <<dashboardVars, path, capabilities>> PROVE WindowInv'
  <2>1. UNCHANGED screen
    BY <1>5 DEF ScreenNext, Choose, LoadOlder, Fetch, TurnPage, OlderRequests, ListLoad, ListArrives,
                Arrives, Fails, Settled
  <2> QED
    BY <1>5, <2>1 DEF dashboardVars, pageVars
<1>6. ASSUME UNCHANGED webVars PROVE WindowInv'
  BY <1>6 DEF webVars, dashboardVars, pageVars, screenVars
<1> QED
  BY <1>1, <1>2, <1>3, <1>4, <1>5, <1>6 DEF WebNext

(* Every state of the window has its types, whatever is clicked, loaded and *)
(* left, and an admin screen is shown only on its path and to an admin.     *)
THEOREM WebTyped == WebSpec => []WebTypeOK
<1> DEFINE I == /\ TokensInv /\ LoadsNumbered /\ PageInv /\ PageFlags
                /\ ScreensInv /\ ScreenTypes /\ ListTypes /\ Flags /\ WindowInv
<1>1. WebInit => I
  <2>1. WebInit => TokensInv
    BY TokensInit DEF WebInit, DashboardInit
  <2>2. WebInit => WindowInv
    BY DEF WebInit, DashboardInit, ScreensInit, WindowInv, AdminScreens, AllScreens
  <2> QED
    BY <2>1, <2>2, NumberedStart, PageStart, ScreensStart, TypesStart
<1>2. I /\ [WebNext]_webVars => I'
  BY WindowSteps, TokensStep, NumberedStep, PageStep, PageFlagsStep, ScreensStep, ScreenSteps,
     ScreenTypesStep, ListTypesStep, FlagsStep, WindowStep
<1>3. I => WebTypeOK
  <2> SUFFICES ASSUME I PROVE WebTypeOK
    OBVIOUS
  <2>1. ServiceTypeOK
    BY DEF TokensInv
  <2>2. newest \in 0..clicks + 1 /\ clicks \in 0..MaxClicks
    BY Numbers
  <2>3. loads \in SUBSET Loads
    BY <2>2, Numbers DEF PageInv, LoadsClicked, LoadsNumbered, LoadRecords, LoadKinds, Loads
  <2>4. DashboardTypeOK
    BY <2>2, <2>3 DEF PageInv, PageTypes, PageFlags, DashboardTypeOK
  <2>5. filter \in 0..MaxFetches
    BY DEF ScreenTypes
  <2>6. ScreensTypeOK
    BY <2>5 DEF ScreenTypes, ListTypes, Flags, ScreensTypeOK
  <2> QED
    BY <2>1, <2>4, <2>6 DEF WebTypeOK, WindowInv
<1> QED
  BY <1>1, <1>2, <1>3, PTL DEF WebSpec
=============================================================================

----------------------------- MODULE Dashboard -----------------------------
(* The web console's own page (main.jsx App): the list of the user's tokens *)
(* with what creates, revokes and issues them.  (Its list of sessions, which*)
(* shares nothing with these, is one of Screens.)                           *)
(* The page is one event loop; each fetch is answered later, in any order,  *)
(* and a click is possible whenever the page shows an enabled button.       *)
(* Other tabs of the user, and requests of pages that were closed, go on.   *)
EXTENDS TokenService, Naturals

CONSTANT MaxClicks  (* bound: clicks in one visit of the page               *)

ASSUME DashboardAssumption == MaxClicks \in Nat

VARIABLES shown,    (* the window shows this page                           *)
          clicks,   (* how often the user has clicked                       *)
          list,     (* tokens: the status each is shown with                *)
          loads,    (* loads of the list on their way                       *)
          newest,   (* the number of the last one sent                      *)
          loading, creating, issuing,
          calls     (* what this page has asked of tokens and awaits        *)

listVars == <<list, loads, newest, loading>>
askVars == <<creating, issuing, calls>>
pageVars == <<shown, clicks, listVars, askVars>>
dashboardVars == <<serviceVars, pageVars>>

Lists == [All -> Statuses]
NoTokens == [x \in All |-> "none"]

(* A load: its number, what awaits its end, and what the server has read.   *)
Loads == [nr : 1..MaxClicks + 1, for : {"page", "create", "issue"}, read : BOOLEAN,
          list : Lists]

(* A call: the click it is of; the same token may be asked for twice.       *)
Calls == [nr : 1..MaxClicks, of : All, what : {"make", "revoke"}]

DashboardTypeOK == /\ shown \in BOOLEAN /\ clicks \in 0..MaxClicks
                   /\ list \in Lists
                   /\ loads \in SUBSET Loads
                   /\ newest \in 0..clicks + 1
                   /\ loading \in BOOLEAN /\ creating \in BOOLEAN /\ issuing \in BOOLEAN
                   /\ calls \in SUBSET Calls

DashboardInit == /\ ServiceInit
                 /\ shown = FALSE /\ clicks = 0
                 /\ list = NoTokens /\ loads = {} /\ newest = 0 /\ loading = FALSE
                 /\ creating = FALSE /\ issuing = FALSE /\ calls = {}

(* Another page is opened in its place: everything in this one is gone.     *)
Closes == /\ shown' = FALSE /\ clicks' = 0
          /\ list' = NoTokens /\ loads' = {} /\ newest' = 0 /\ loading' = FALSE
          /\ creating' = FALSE /\ issuing' = FALSE /\ calls' = {}
          /\ UNCHANGED serviceVars
----------------------------------------------------------------------------
Clicks == shown /\ clicks < MaxClicks /\ clicks' = clicks + 1 /\ UNCHANGED shown

(* load(), and what awaits it.                                              *)
Sends(what) == /\ newest' = newest + 1
               /\ loads' = loads \cup {[nr |-> newest', for |-> what, read |-> FALSE,
                                        list |-> NoTokens]}
               /\ loading' = TRUE
               /\ UNCHANGED list

(* The page is opened: the effects of App.                                  *)
Opens == /\ ~shown /\ shown' = TRUE
         /\ Sends("page")
         /\ UNCHANGED <<serviceVars, clicks, askVars>>

(* listTokens.                                                              *)
Read(l) == /\ ~l.read
           /\ loads' = (loads \ {l}) \cup {[l EXCEPT !.read = TRUE, !.list = rows]}
           /\ UNCHANGED <<serviceVars, shown, clicks, list, newest, loading, askVars>>

(* Mutant: a failed load does not enable the buttons again.                 *)
Bug_Enables(l, ok) == /\ creating' = (creating /\ (~ok \/ l.for # "create"))
                      /\ issuing' = (issuing /\ (~ok \/ l.for # "issue"))
Enables(l, ok) == /\ creating' = (creating /\ l.for # "create")
                  /\ issuing' = (issuing /\ l.for # "issue")

Settles(l, ok) == /\ loads' = loads \ {l}
                  /\ loading' = FALSE
                  /\ Enables(l, ok)
                  /\ UNCHANGED <<serviceVars, shown, clicks, newest, calls>>

Loaded(l) == l.read /\ list' = l.list /\ Settles(l, TRUE)
NotLoaded(l) == UNCHANGED list /\ Settles(l, FALSE)

Refresh == /\ ~loading
           /\ Clicks /\ Sends("page")
           /\ UNCHANGED <<serviceVars, askVars>>
----------------------------------------------------------------------------
(* create(), revoke() and AgentKeyPanel's issue(): a click asks, and the    *)
(* server's answer has the list loaded again.                               *)

Asks(x, what) == /\ Clicks
                 /\ calls' = calls \cup {[nr |-> clicks', of |-> x, what |-> what]}
                 /\ UNCHANGED <<serviceVars, listVars>>

Answers(c, what) == /\ c.what = what
                    /\ calls' = calls \ {c}
                    /\ UNCHANGED <<serviceVars, shown, clicks, creating, issuing>>

NotAsked(x) == \A c \in calls : c.of # x

Create(t) == \/ /\ ~creating /\ rows[t] = "none" /\ NotAsked(t) /\ Asks(t, "make")
                /\ creating' = TRUE /\ UNCHANGED issuing
             \/ /\ t \in answered /\ Sends("create")
                /\ \E c \in calls : c.of = t /\ Answers(c, "make")

Issue(k) == \/ /\ ~issuing /\ issue[k] = "idle" /\ NotAsked(k) /\ Asks(k, "make")
               /\ issuing' = TRUE /\ UNCHANGED creating
            \/ /\ k \in answered /\ Sends("issue")
               /\ \E c \in calls : c.of = k /\ Answers(c, "make")

(* The table, with a button for each live token, is there when the list is  *)
(* not loading.  Nothing disables that button.                              *)
Revoke(x) == \/ /\ ~loading /\ list[x] = "live" /\ Asks(x, "revoke")
                /\ UNCHANGED <<creating, issuing>>
             \/ /\ rows[x] = "revoked" /\ Sends("page")
                /\ \E c \in calls : c.of = x /\ Answers(c, "revoke")

(* An answer with an error, or none: what was asked may be done all the     *)
(* same.                                                                    *)
NoAnswer(c) == /\ calls' = calls \ {c}
               /\ creating' = (creating /\ (c.of \notin Tokens \/ c.what # "make"))
               /\ issuing' = (issuing /\ (c.of \notin Keys \/ c.what # "make"))
               /\ UNCHANGED <<serviceVars, shown, clicks, listVars>>

(* The handlers and the broker go on, whoever asked.                        *)
Service == ServiceNext /\ UNCHANGED pageVars

DashboardNext == \/ \E l \in loads : Read(l) \/ Loaded(l) \/ NotLoaded(l)
                 \/ Refresh \/ Service
                 \/ \E t \in Tokens : Create(t)
                 \/ \E k \in Keys : Issue(k)
                 \/ \E x \in All : Revoke(x)
                 \/ \E c \in calls : NoAnswer(c)
----------------------------------------------------------------------------
(* What the button of create() or issue() waits for: the call of the click, *)
(* then the load that its answer has sent.                                  *)
Making(who) == {c \in calls : c.of \in who /\ c.what = "make"}
Awaited(for) == {l \in loads : l.for = for}
Disabled(button, who, for) == /\ button <=> Making(who) # {} \/ Awaited(for) # {}
                              /\ Making(who) = {} \/ Awaited(for) = {}
                              /\ \A c, d \in Making(who) : c = d
                              /\ \A l, m \in Awaited(for) : l = m

(* A button is disabled exactly while what it was clicked for is under way, *)
(* and that is one thing: with whatever calls and loads fail, overlap or    *)
(* are overtaken, none is asked for twice and no button stays disabled.  So *)
(* with the list: it is not shown as loading when none is on its way.       *)
OneAtATime == /\ Disabled(creating, Tokens, "create")
              /\ Disabled(issuing, Keys, "issue")
              /\ loading => loads # {}
=============================================================================

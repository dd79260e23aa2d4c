----------------------------- MODULE WebConsole ----------------------------
(* The user's window on the web console (main.jsx Root, AdminApp.jsx): the  *)
(* page its path names, once what it may show is known, over the service's  *)
(* tokens.  A link is a full load: it leaves nothing of the page before.    *)
EXTENDS Dashboard, Screens

VARIABLES path,         (* "/" or the admin screen the path names           *)
          capabilities  (* "unknown" until /api/session answers             *)

webVars == <<dashboardVars, screenVars, path, capabilities>>

AdminScreens == AllScreens \ {"sessions"}

WebTypeOK == /\ ServiceTypeOK /\ DashboardTypeOK /\ ScreensTypeOK
             /\ path \in {"/"} \cup AdminScreens
             /\ capabilities \in {"unknown", "user", "admin"}
             /\ shown \/ screen = "sessions" => path = "/"
             /\ screen \in AdminScreens => path = screen /\ capabilities = "admin"

WebInit == /\ DashboardInit /\ ScreensInit
           /\ path \in {"/"} \cup AdminScreens /\ capabilities = "unknown"

Follows(p) == /\ Closes /\ Unmount
              /\ path' = p /\ capabilities' = "unknown"

(* A failed /api/session is no capabilities; on "/" they only show a tab.   *)
SessionAnswers == /\ path # "/" /\ capabilities = "unknown"
                  /\ capabilities' \in {"user", "admin"}
                  /\ UNCHANGED <<dashboardVars, screenVars, path>>

(* Mutant: the admin console is shown whatever the capabilities.            *)
Bug_Shows(p) == p \in AdminScreens /\ Mount(p) /\ UNCHANGED dashboardVars
Shows(p) == p \in AdminScreens /\ capabilities = "admin" /\ Mount(p) /\ UNCHANGED dashboardVars

(* The tokens and the sessions of the user's own page share nothing: a visit*)
(* is followed in one of them.                                              *)
Renders == /\ \/ Shows(path)
              \/ path = "/" /\ screen = "none" /\ Opens /\ UNCHANGED screenVars
              \/ path = "/" /\ ~shown /\ Mount("sessions") /\ UNCHANGED dashboardVars
           /\ UNCHANGED <<path, capabilities>>

WebNext == \/ \E p \in {"/"} \cup AdminScreens : Follows(p)
           \/ SessionAnswers \/ Renders
           \/ DashboardNext /\ UNCHANGED <<screenVars, path, capabilities>>
           \/ ScreenNext /\ UNCHANGED <<dashboardVars, path, capabilities>>

WebSpec == WebInit /\ [][WebNext]_webVars
=============================================================================

----------------------------- MODULE MCConsole -----------------------------
(***************************************************************************)
(* The admin console: its pages side by side, one of which is open.  The   *)
(* pages share no state but the token, which AdminSession is about, so a   *)
(* behaviour stays with the page it opens first.                           *)
(***************************************************************************)
EXTENDS AdminSession, GeneralSettings, SettingWidgets, FilterEditor, DnsRecords, DnsLists,
        UserAdmin, LiveViews, TLC

CONSTANTS l1, p1,  \* the default log location and password
          d1, d2,  \* records, filter rows and block lists that are there at first
          g        \* the user of a new installation

OneOld == <<d1>>
TwoOld == <<d1, d2>>

VARIABLE page   \* the route that is open, "none" at first

ConsoleInit ==
  /\ page = "none"
  /\ SessionInit /\ GeneralInit /\ WidgetInit /\ FilterInit
  /\ RecordInit /\ ListInit /\ UserInit /\ ViewInit

Opens(p) == page \in {"none", p} /\ page' = p

ConsoleNext ==
  \/ /\ Opens("session") /\ SessionNext
     /\ UNCHANGED <<generalVars, widgetVars, filterVars, recordVars, listVars, userVars, viewVars>>
  \/ /\ Opens("general") /\ GeneralNext
     /\ UNCHANGED <<sessionVars, widgetVars, filterVars, recordVars, listVars, userVars, viewVars>>
  \/ /\ Opens("widget") /\ WidgetNext
     /\ UNCHANGED <<sessionVars, generalVars, filterVars, recordVars, listVars, userVars, viewVars>>
  \/ /\ Opens("filter") /\ FilterNext
     /\ UNCHANGED <<sessionVars, generalVars, widgetVars, recordVars, listVars, userVars, viewVars>>
  \/ /\ Opens("records") /\ RecordNext
     /\ UNCHANGED <<sessionVars, generalVars, widgetVars, filterVars, listVars, userVars, viewVars>>
  \/ /\ Opens("lists") /\ ListNext
     /\ UNCHANGED <<sessionVars, generalVars, widgetVars, filterVars, recordVars, userVars, viewVars>>
  \/ /\ Opens("users") /\ UserNext
     /\ UNCHANGED <<sessionVars, generalVars, widgetVars, filterVars, recordVars, listVars, viewVars>>
  \/ /\ Opens("views") /\ ViewNext
     /\ UNCHANGED <<sessionVars, generalVars, widgetVars, filterVars, recordVars, listVars, userVars>>

ConsoleSpec ==
  ConsoleInit /\ [][ConsoleNext]_<<page, sessionVars, generalVars, widgetVars, filterVars,
                                   recordVars, listVars, userVars, viewVars>>

\* Every page's state keeps its shape.
ConsoleTypeOK ==
  /\ page \in {"none", "session", "general", "widget", "filter", "records", "lists", "users", "views"}
  /\ page = "session" => SessionTypeOK
  /\ page = "general" => GeneralTypeOK
  /\ page = "widget" => WidgetTypeOK
  /\ page = "filter" => FilterTypeOK
  /\ page = "records" => RecordTypeOK
  /\ page = "lists" => ListTypeOK
  /\ page = "users" => UserTypeOK
  /\ page = "views" => ViewTypeOK

Symmetry == Permutations(Slots)
=============================================================================

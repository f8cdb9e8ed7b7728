----------------------------- MODULE UserAdmin -----------------------------
(***************************************************************************)
(* The proxy's users: the page that edits them (users.svelte,              *)
(* usermodal.svelte), the API (handler_users.go, webserver.go) and the     *)
(* copies the process keeps.  The web server works on the settings store   *)
(* it was started with, the runtime's own at first; each of its changes is *)
(* followed by Runtime.Init, which opens a new store on the same file for  *)
(* the runtime and fills AuthUsers from it; and a background task writes   *)
(* AuthUsers, with the bytes each user has consumed, back through the      *)
(* runtime's store.  Both stores write the whole file, truncating it first.*)
(***************************************************************************)
EXTENDS Naturals, Console

CONSTANTS Names,    \* user names
          Guest,    \* the user of a new installation
          Surfers,  \* users whose requests go through the proxy
          MaxUsed   \* bound: consumption is counted only below it

ASSUME UserAssumption == Guest \in Names /\ Surfers \subseteq Names /\ MaxUsed \in Nat

VARIABLES
  webStore,   \* authusers in the web server's store
  runStore,   \* authusers in R.GSSettings
  same,       \* are the two one store, as they are until Runtime.Init runs again?
  file,       \* authusers on disk
  AuthUsers,  \* the list the proxy checks
  saver,      \* GSUserDataSaver: the list it is about to write, or Null
  users,      \* the page's list, who has access; Null while loading
  dialog,     \* "closed", "new", or the name of the user being edited
  unet,       \* the page's requests and the handlers that serve them
  overlap     \* history: "page": the user did not wait for an answer, or it was lost;
              \* "server": a handler, the saver or a crash met another at work

userVars == <<webStore, runStore, same, file, AuthUsers, saver, users, dialog, unet, overlap>>

Accounts == UNION {[N -> [allow : BOOLEAN, used : 0..MaxUsed]] : N \in SUBSET Names}
NoAccounts == [n \in {} |-> [allow |-> FALSE, used |-> 0]]
Defaults == [n \in {Guest} |-> [allow |-> TRUE, used |-> 0]]
UPhases == {"idle", "get", "got", "sent", "read", "reset", "opened", "swapped", "done"}
Kinds == {"get", "create", "update", "switch", "delete", "setting"}
NoURequest == [phase |-> "idle", kind |-> "get", name |-> Guest, allow |-> FALSE,
               list |-> NoAccounts, ok |-> FALSE]

UserTypeOK ==
  /\ {webStore, runStore, file, AuthUsers} \subseteq Accounts
  /\ same \in BOOLEAN
  /\ saver \in Accounts \cup {Null}
  /\ users \in {Null} \cup UNION {[N -> BOOLEAN] : N \in SUBSET Names}
  /\ dialog \in {"closed", "new"} \cup Names
  /\ unet \in [Slots -> [phase : UPhases, kind : Kinds, name : Names, allow : BOOLEAN,
                         list : Accounts, ok : BOOLEAN]]
  /\ overlap \subseteq {"page", "server"}

\* loadUsers: the request.
LoadUsers == [NoURequest EXCEPT !.phase = "get"]

UserInit ==
  /\ webStore = Defaults /\ runStore = Defaults /\ file = Defaults /\ AuthUsers = Defaults
  /\ same = TRUE
  /\ saver = Null /\ users = Null /\ dialog = "closed"
  /\ unet = [s \in Slots |-> NoURequest]
  /\ overlap = {}

\* Who is a user and who has access: what the administrator sets.
Grants(a) == [n \in DOMAIN a |-> a[n].allow]
UQuiet == \A s \in Slots : unet[s] = NoURequest
AtWork(S) == saver # Null \/ \E s \in S : unet[s].phase \in {"read", "reset", "opened", "swapped"}
Writing(S) == saver # Null \/ \E s \in S : unet[s].phase \in {"read", "opened"}
MayAdmin == overlap = {} \/ Beyond = "yes"
Meets(S) == IF AtWork(S) THEN {"server"} ELSE {}

-----------------------------------------------------------------------------
(* The page.  The table is there once users are loaded, and out of reach   *)
(* behind an open dialog.                                                  *)

\* onMount; a page that did not load is opened again.
OpenUsers(s) ==
  /\ MayAdmin /\ users = Null /\ UQuiet
  /\ unet' = [unet EXCEPT ![s] = LoadUsers]
  /\ UNCHANGED <<webStore, runStore, same, file, AuthUsers, saver, users, dialog, overlap>>

\* addUser, editUser.
OpenDialog(d) ==
  /\ MayAdmin /\ users # Null /\ dialog = "closed"
  /\ dialog' = d
  /\ UNCHANGED <<webStore, runStore, same, file, AuthUsers, saver, users, unet, overlap>>

CloseDialog ==
  /\ dialog # "closed"
  /\ dialog' = "closed"
  /\ UNCHANGED <<webStore, runStore, same, file, AuthUsers, saver, users, unet, overlap>>

\* createUser, updateUser, deleteUser, setSetting of the API client.
Request(kind, n, allow, s) ==
  /\ unet[s] = NoURequest
  /\ unet' = [unet EXCEPT ![s] = [phase |-> "sent", kind |-> kind, name |-> n, allow |-> allow,
                                  list |-> NoAccounts, ok |-> TRUE]]
  /\ overlap' = overlap \cup (IF UQuiet THEN {} ELSE {"page"})
  /\ UNCHANGED <<webStore, runStore, same, file, AuthUsers, saver, users, dialog>>

\* The dialog's handleCreateUser.
SubmitUser(n, allow, s) ==
  /\ dialog # "closed"
  /\ IF dialog = "new" THEN Request("create", n, allow, s)
     ELSE n = dialog /\ Request("update", n, allow, s)

\* The buttons of a row: Disable or Enable Internet Access, and Delete.
PressRow(n, s) ==
  /\ MayAdmin /\ users # Null /\ dialog = "closed"
  /\ \/ Request("switch", n, ~users[n], s)
     \/ Request("delete", n, FALSE, s)

\* EnableUsers, or any other setting of the console.
ChangeSetting(s) == MayAdmin /\ Request("setting", Guest, FALSE, s)

\* Mutation: the table is not loaded again after a switch.
AnsweredQuietly(s) ==
  /\ unet[s].phase = "done"
  /\ IF unet[s].kind \in {"setting", "switch"} \/ ~unet[s].ok
     THEN unet' = [unet EXCEPT ![s] = NoURequest] /\ UNCHANGED <<users, dialog>>
     ELSE /\ unet' = [unet EXCEPT ![s] = LoadUsers]
          /\ users' = Null
          /\ dialog' = IF unet[s].kind \in {"create", "update"} THEN "closed" ELSE dialog
  /\ UNCHANGED <<webStore, runStore, same, file, AuthUsers, saver, overlap>>

\* The answer: an error is shown in the dialog, anything else loads the table again.
Answered(s) ==
  /\ unet[s].phase = "done"
  /\ IF unet[s].kind = "setting" \/ ~unet[s].ok
     THEN unet' = [unet EXCEPT ![s] = NoURequest] /\ UNCHANGED <<users, dialog>>
     ELSE /\ unet' = [unet EXCEPT ![s] = LoadUsers]
          /\ users' = Null
          /\ dialog' = IF unet[s].kind \in {"create", "update"} THEN "closed" ELSE dialog
  /\ UNCHANGED <<webStore, runStore, same, file, AuthUsers, saver, overlap>>

UsersLoaded(s) ==
  /\ unet[s].phase = "got"
  /\ users' = Grants(unet[s].list)
  /\ unet' = [unet EXCEPT ![s] = NoURequest]
  /\ UNCHANGED <<webStore, runStore, same, file, AuthUsers, saver, dialog, overlap>>

\* A request or its answer is lost.  A lost load leaves the page loading for good.
UsersFail(s) ==
  /\ unet[s].phase \in {"get", "got", "sent", "done"}
  /\ unet' = [unet EXCEPT ![s] = NoURequest]
  /\ overlap' = overlap \cup {"page"}
  /\ UNCHANGED <<webStore, runStore, same, file, AuthUsers, saver, users, dialog>>

-----------------------------------------------------------------------------
(* The API.                                                                *)

\* GSApiUsersGET.
GetUsers(s) ==
  /\ unet[s].phase = "get"
  /\ unet' = [unet EXCEPT ![s].phase = "got", ![s].list = webStore]
  /\ UNCHANGED <<webStore, runStore, same, file, AuthUsers, saver, users, dialog, overlap>>

\* What GSApiUserCreate, GSApiUserPUT and GSApiUserDELETE make of the list.
Change(q, a) ==
  CASE q.kind = "create" -> [n \in DOMAIN a \cup {q.name} |->
                               IF n = q.name THEN [allow |-> q.allow, used |-> 0] ELSE a[n]]
    [] q.kind = "delete" -> [n \in DOMAIN a \ {q.name} |-> a[n]]
    [] OTHER             -> [n \in DOMAIN a |->
                               IF n = q.name THEN [a[n] EXCEPT !.allow = q.allow] ELSE a[n]]

\* What is left to do once the list is stored does not depend on the input.
Handled(q) == [q EXCEPT !.name = Guest, !.allow = FALSE, !.list = NoAccounts]

ReadUsers(s) ==
  LET q == unet[s] IN
  /\ q.phase = "sent" /\ ~(q.kind = "create" /\ q.name \in DOMAIN webStore)
  /\ unet' = [unet EXCEPT ![s].phase = "read",
                ![s].list = IF q.kind = "setting" THEN q.list ELSE Change(q, webStore)]
  /\ overlap' = overlap \cup Meets(Slots \ {s})
  /\ UNCHANGED <<webStore, runStore, same, file, AuthUsers, saver, users, dialog>>

\* The name exists, or ValidateUserInputJsonSingle finds name or password too short:
\* nothing is stored, the runtime is reloaded all the same.
RefuseUser(s) ==
  /\ unet[s].phase = "sent" /\ unet[s].kind \in {"create", "update"}
  /\ unet' = [unet EXCEPT ![s] = [Handled(@) EXCEPT !.phase = "reset", !.ok = FALSE]]
  /\ AuthUsers' = NoAccounts
  /\ overlap' = overlap \cup Meets(Slots \ {s})
  /\ UNCHANGED <<webStore, runStore, same, file, saver, users, dialog>>

\* Mutation: a deletion does not reload the runtime.
StoreUsersDeleted(s) ==
  /\ unet[s].phase = "read"
  /\ webStore' = IF unet[s].kind = "setting" THEN webStore ELSE unet[s].list
  /\ runStore' = (IF same THEN webStore' ELSE runStore)
  /\ file' = webStore'
  /\ IF unet[s].kind = "delete"
     THEN unet' = [unet EXCEPT ![s].phase = "done"] /\ UNCHANGED AuthUsers
     ELSE unet' = [unet EXCEPT ![s] = [Handled(@) EXCEPT !.phase = "reset"]] /\ AuthUsers' = NoAccounts
  /\ UNCHANGED <<same, saver, users, dialog, overlap>>

\* MapStore.Update, then Runtime.Init up to its new, empty AuthUsers.
StoreUsers(s) ==
  /\ unet[s].phase = "read"
  /\ webStore' = IF unet[s].kind = "setting" THEN webStore ELSE unet[s].list
  /\ runStore' = (IF same THEN webStore' ELSE runStore)
  /\ file' = webStore'
  /\ unet' = [unet EXCEPT ![s] = [Handled(@) EXCEPT !.phase = "reset"]] /\ AuthUsers' = NoAccounts
  /\ UNCHANGED <<same, saver, users, dialog, overlap>>

\* NewMapStore, which finds an empty file, and so the defaults, while another writes it.
OpenStore(s) ==
  /\ unet[s].phase = "reset"
  /\ \E found \in {file} \cup (IF Writing(Slots \ {s}) THEN {Defaults} ELSE {}) :
       unet' = [unet EXCEPT ![s].phase = "opened", ![s].list = found]
  /\ UNCHANGED <<webStore, runStore, same, file, AuthUsers, saver, users, dialog, overlap>>

\* The runtime's new store, written back with the version.
SwapStore(s) ==
  /\ unet[s].phase = "opened"
  /\ runStore' = unet[s].list /\ same' = FALSE /\ file' = unet[s].list
  /\ unet' = [unet EXCEPT ![s].phase = "swapped", ![s].list = NoAccounts]
  /\ UNCHANGED <<webStore, AuthUsers, saver, users, dialog, overlap>>

\* Mutation: the list comes from the web server's store.
FillAuthUsersWeb(s) ==
  /\ unet[s].phase = "swapped"
  /\ AuthUsers' = webStore
  /\ unet' = [unet EXCEPT ![s].phase = "done"]
  /\ UNCHANGED <<webStore, runStore, same, file, saver, users, dialog, overlap>>

\* GSRuntime.LoadUsers, the end of Init; the answer leaves when the handler returns.
FillAuthUsers(s) ==
  /\ unet[s].phase = "swapped"
  /\ AuthUsers' = runStore
  /\ unet' = [unet EXCEPT ![s].phase = "done"]
  /\ UNCHANGED <<webStore, runStore, same, file, saver, users, dialog, overlap>>

-----------------------------------------------------------------------------
(* The proxy.                                                              *)

\* UpdateUserData.
Consume(n) ==
  /\ n \in DOMAIN AuthUsers /\ AuthUsers[n].used < MaxUsed
  /\ AuthUsers' = [AuthUsers EXCEPT ![n].used = @ + 1]
  /\ UNCHANGED <<webStore, runStore, same, file, saver, users, dialog, unet, overlap>>

\* GSUserDataSaver.
SaverReads ==
  /\ saver = Null
  /\ saver' = AuthUsers
  /\ overlap' = overlap \cup Meets(Slots)
  /\ UNCHANGED <<webStore, runStore, same, file, AuthUsers, users, dialog, unet>>

SaverWrites ==
  /\ saver # Null
  /\ runStore' = saver /\ file' = saver
  /\ webStore' = (IF same THEN saver ELSE webStore)
  /\ saver' = Null
  /\ UNCHANGED <<same, AuthUsers, users, dialog, unet, overlap>>

\* The process dies and starts again from the file, which a write under way may have
\* left empty; the page's requests fail.
CrashRestart ==
  /\ \E found \in {file} \cup (IF Writing(Slots) THEN {Defaults} ELSE {}) :
       file' = found /\ webStore' = found /\ runStore' = found /\ AuthUsers' = found
  /\ same' = TRUE
  /\ saver' = Null
  /\ unet' = [s \in Slots |-> NoURequest]
  /\ overlap' = overlap \cup (IF UQuiet THEN {} ELSE {"page"}) \cup Meets(Slots)
  /\ UNCHANGED <<users, dialog>>

UserNext ==
  /\ "server" \notin overlap \/ Beyond = "yes"
  /\ \/ \E s \in Slots :
          \/ \E n \in Names, allow \in BOOLEAN : SubmitUser(n, allow, s)
          \/ users # Null /\ \E n \in DOMAIN users : PressRow(n, s)
          \/ OpenUsers(s) \/ ChangeSetting(s) \/ Answered(s) \/ UsersLoaded(s) \/ UsersFail(s)
          \/ GetUsers(s) \/ ReadUsers(s) \/ RefuseUser(s) \/ StoreUsers(s)
          \/ OpenStore(s) \/ SwapStore(s) \/ FillAuthUsers(s)
     \/ OpenDialog("new") \/ CloseDialog
     \/ users # Null /\ \E n \in DOMAIN users : OpenDialog(n)
     \/ \E n \in Surfers : Consume(n)
     \/ SaverReads \/ SaverWrites \/ CrashRestart

UserSpec == UserInit /\ [][UserNext]_userVars

-----------------------------------------------------------------------------
(* Properties.                                                             *)

\* The page shows who has access: with nothing out, its table is the web server's list,
\* across restarts too, unless the user did not wait, an answer was lost, or handlers,
\* saver or a crash overlapped (a restart may then begin from a torn file).
UsersShown ==
  overlap = {} /\ UQuiet /\ users # Null => users = Grants(webStore)

\* The three copies and the file agree on who has access whenever nobody is changing
\* them: a disabled user is refused by the proxy and stays disabled after a restart,
\* unless handlers, saver or crash overlapped.
CopiesAgree ==
  "server" \notin overlap /\ ~AtWork(Slots) =>
    \A a \in {AuthUsers, runStore, file} : Grants(a) = Grants(webStore)

\* What the saver has written is taken back by nobody, across restarts, but the web
\* server, whose store has had no new counts since Runtime.Init first ran again;
\* unless handlers, saver or crash overlapped.
ConsumptionSaved ==
  [][\/ "server" \in overlap'
     \/ \E s \in Slots : StoreUsers(s)
     \/ \A n \in DOMAIN file \cap DOMAIN file' : file'[n].used >= file[n].used]_userVars
=============================================================================

--------------------------- MODULE GeneralSettings ---------------------------
(***************************************************************************)
(* The setting general_settings: one JSON object with the log location and *)
(* the administrator's name and password.  Two inputs of the console edit  *)
(* it, each through a copy of the whole object it loaded earlier           *)
(* (connectedGeneralSettingInputs.svelte): the log location on the         *)
(* settings page, saved when the field loses focus, and the password in    *)
(* the header's dialog, saved by its Proceed button.  The third input, the *)
(* user name, is disabled.  The server (handler_settings.go) never sends   *)
(* the password and keeps the old one when it receives a blank one.        *)
(***************************************************************************)
EXTENDS Console

CONSTANTS Logs, Passwords,  \* what is typed into the two fields
          DefaultLog, DefaultPassword, Admin,  \* of a new installation
          Blank             \* the empty string

ASSUME GeneralAssumption ==
  /\ DefaultLog \in Logs /\ DefaultPassword \in Passwords
  /\ Blank \notin Logs \cup Passwords \cup {Admin}

Blobs == [log : Logs \cup {Blank}, user : {Admin, Blank}, pass : Passwords \cup {Blank}]
BlankBlob == [log |-> Blank, user |-> Blank, pass |-> Blank]

VARIABLES
  general,    \* the stored setting
  copy,       \* each input's data: null until loaded
  form,       \* internalFormValue of the password input
  modalOpen,
  gnet,       \* requests in flight
  entered,    \* history: what the user last submitted
  clash       \* history: "none", or "some" save overlapped, failed or started from a copy
              \* that was out of date, or "blank": Proceed without a typed password

generalVars == <<general, copy, form, modalOpen, gnet, entered, clash>>

Editors == {"log", "pass"}
GPhases == {"idle", "get", "got", "post", "read", "saved"}
GRequests == [phase : GPhases, ed : Editors \cup {"gone"}, blob : Blobs \cup {Null}]
NoGRequest == [phase |-> "idle", ed |-> "gone", blob |-> Null]

GeneralTypeOK ==
  /\ general \in Blobs
  /\ copy \in [Editors -> Blobs \cup {Null}] /\ form \in Blobs \cup {Null}
  /\ modalOpen \in BOOLEAN
  /\ gnet \in [Slots -> GRequests]
  /\ entered \in Blobs
  /\ clash \in {"none", "some", "blank"}

GeneralInit ==
  /\ general = [log |-> DefaultLog, user |-> Admin, pass |-> DefaultPassword]
  /\ copy = [e \in Editors |-> Null] /\ form = Null
  /\ modalOpen = FALSE
  /\ gnet = [s \in Slots |-> NoGRequest]
  /\ entered = general
  /\ clash = "none"

Saving(s) == gnet[s].phase \in {"post", "read"}

Clashed == IF clash = "none" THEN "some" ELSE clash

-----------------------------------------------------------------------------
(* The inputs.                                                             *)

\* onMount of a new input: loadAPIData.  Answers to the previous one go nowhere.
Mount(e, s) ==
  /\ gnet[s] = NoGRequest
  /\ gnet' = [[t \in Slots |-> IF gnet[t].ed # e THEN gnet[t]
                                ELSE IF Saving(t) THEN [gnet[t] EXCEPT !.ed = "gone"]
                                ELSE NoGRequest]
                EXCEPT ![s] = [phase |-> "get", ed |-> e, blob |-> Null]]
  /\ copy' = [copy EXCEPT ![e] = Null]
  /\ form' = IF e = "pass" THEN Null ELSE form
  /\ UNCHANGED <<general, modalOpen, entered, clash>>

\* updateNetwork(b): setSetting with the whole object.
Send(e, b, s) ==
  /\ gnet[s] = NoGRequest
  /\ clash # "blank" \/ Beyond = "yes"
  /\ gnet' = [gnet EXCEPT ![s] = [phase |-> "post", ed |-> e, blob |-> b]]
  /\ clash' = IF b = BlankBlob THEN "blank"
              ELSE IF (\E t \in Slots : Saving(t)) \/ b.user # Admin \/ b.log # entered'.log
              THEN Clashed ELSE clash

\* Mutation: the other fields are not sent along.
EditLogAlone(l, s) ==
  /\ copy["log"] # Null /\ l # copy["log"].log
  /\ entered' = [entered EXCEPT !.log = l]
  /\ Send("log", [BlankBlob EXCEPT !.log = l], s)
  /\ UNCHANGED <<general, copy, form, modalOpen>>

\* updateField of the log location.
EditLog(l, s) ==
  /\ copy["log"] # Null /\ l # copy["log"].log
  /\ entered' = [entered EXCEPT !.log = l]
  /\ Send("log", [copy["log"] EXCEPT !.log = l], s)
  /\ UNCHANGED <<general, copy, form, modalOpen>>

OpenModal ==
  /\ ~modalOpen
  /\ modalOpen' = TRUE
  /\ UNCHANGED <<general, copy, form, gnet, entered, clash>>

\* updateField of the password: remembered until Proceed.
TypePassword(p) ==
  /\ modalOpen /\ copy["pass"] # Null /\ p # copy["pass"].pass
  /\ form' = [copy["pass"] EXCEPT !.pass = p]
  /\ UNCHANGED <<general, copy, modalOpen, gnet, entered, clash>>

\* updateDataOnBackend: what was typed last, or JSON "null", an object with no field.
Proceed(s) ==
  LET b == IF form = Null THEN BlankBlob ELSE form
  IN  /\ modalOpen
      /\ modalOpen' = FALSE
      /\ entered' = IF form = Null THEN entered ELSE [entered EXCEPT !.pass = form.pass]
      /\ Send("pass", b, s)
      /\ UNCHANGED <<general, copy, form>>

\* The answer to getSetting.
Loaded(s) ==
  /\ gnet[s].phase = "got"
  /\ copy' = [copy EXCEPT ![gnet[s].ed] = gnet[s].blob]
  /\ gnet' = [gnet EXCEPT ![s] = NoGRequest]
  /\ UNCHANGED <<general, form, modalOpen, entered, clash>>

\* The answer to setSetting: "Setting updated", and the copy is loaded again.
Saved(s) ==
  /\ gnet[s].phase = "saved"
  /\ gnet' = [gnet EXCEPT ![s] = IF gnet[s].ed = "gone" THEN NoGRequest
                                 ELSE [phase |-> "get", ed |-> gnet[s].ed, blob |-> Null]]
  /\ UNCHANGED <<general, copy, form, modalOpen, entered, clash>>

\* A request or its answer is lost.
GeneralFails(s) ==
  /\ gnet[s].phase # "idle"
  /\ gnet' = [gnet EXCEPT ![s] = NoGRequest]
  /\ clash' = IF Saving(s) THEN Clashed ELSE clash
  /\ UNCHANGED <<general, copy, form, modalOpen, entered>>

-----------------------------------------------------------------------------
(* The server.                                                             *)

\* Mutation: the password is sent along.
GetGeneralOpenly(s) ==
  /\ gnet[s].phase = "get"
  /\ gnet' = [gnet EXCEPT ![s].phase = "got", ![s].blob = general]
  /\ UNCHANGED <<general, copy, form, modalOpen, entered, clash>>

\* GSApiSettingsGET.
GetGeneral(s) ==
  /\ gnet[s].phase = "get"
  /\ gnet' = [gnet EXCEPT ![s].phase = "got", ![s].blob = [general EXCEPT !.pass = Blank]]
  /\ UNCHANGED <<general, copy, form, modalOpen, entered, clash>>

\* Mutation: stored as it is.
PostGeneralVerbatim(s) ==
  /\ gnet[s].phase = "post"
  /\ general' = gnet[s].blob /\ gnet' = [gnet EXCEPT ![s].phase = "saved"]
  /\ UNCHANGED <<copy, form, modalOpen, entered, clash>>

\* GSApiSettingsPOST: stored at once, or after reading the present password.
PostGeneral(s) ==
  /\ gnet[s].phase = "post"
  /\ IF gnet[s].blob.pass # Blank
     THEN general' = gnet[s].blob /\ gnet' = [gnet EXCEPT ![s].phase = "saved"]
     ELSE /\ gnet' = [gnet EXCEPT ![s].phase = "read", ![s].blob.pass = general.pass]
          /\ UNCHANGED general
  /\ UNCHANGED <<copy, form, modalOpen, entered, clash>>

StoreGeneral(s) ==
  /\ gnet[s].phase = "read"
  /\ general' = gnet[s].blob
  /\ gnet' = [gnet EXCEPT ![s].phase = "saved"]
  /\ UNCHANGED <<copy, form, modalOpen, entered, clash>>

\* The console in another browser saves another log location.
OtherEdit(l) ==
  /\ clash = "none" \/ Beyond = "yes"
  /\ general' = [general EXCEPT !.log = l]
  /\ clash' = Clashed
  /\ UNCHANGED <<copy, form, modalOpen, gnet, entered>>

GeneralNext ==
  \/ \E s \in Slots :
       \/ \E e \in Editors : Mount(e, s)
       \/ \E l \in Logs : EditLog(l, s)
       \/ Proceed(s) \/ Loaded(s) \/ Saved(s) \/ GeneralFails(s)
       \/ GetGeneral(s) \/ PostGeneral(s) \/ StoreGeneral(s)
  \/ OpenModal
  \/ \E p \in Passwords : TypePassword(p)
  \/ \E l \in Logs : OtherEdit(l)

GeneralSpec == GeneralInit /\ [][GeneralNext]_generalVars

-----------------------------------------------------------------------------
(* Properties.                                                             *)

\* However saves overlap, there is always a password to log in with.
PasswordNeverBlank == general.pass # Blank

\* The administrator's name, which no input can edit, survives every save but one:
\* Proceed without a typed password.
UserNameKept == general.user = Admin \/ clash = "blank"

\* A save is not undone by the other input: once nothing is being saved, the setting
\* is what the user entered, unless saves overlapped, failed, or started from a copy
\* that was out of date.
EditsKept == clash = "none" /\ (\A s \in Slots : ~Saving(s)) => general = entered
=============================================================================

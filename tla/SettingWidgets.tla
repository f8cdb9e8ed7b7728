--------------------------- MODULE SettingWidgets ---------------------------
(***************************************************************************)
(* The inputs of the console that edit one setting each: a switch          *)
(* (toggle.svelte), a text field and a pair of radio buttons               *)
(* (connectedSettingInput.svelte) and a certificate box                    *)
(* (connectedCertificateBasic.svelte).  A behaviour is about one of them.  *)
(* "true" and "false" also stand for any two texts.                        *)
(***************************************************************************)
EXTENDS Console

CONSTANT Widgets   \* which of the four kinds

ASSUME WidgetAssumption ==
  Widgets \subseteq {"toggle", "text", "radio", "certificate"} /\ Null \notin {"true", "false"}

VARIABLES
  widget,   \* the kind, "none" before it is mounted
  setting,  \* the stored value
  value,    \* the component's copy: settingValue, data
  display,  \* what the input displays
  wnet,     \* requests in flight
  flawed    \* history: a request was lost, the user did not wait, or another
            \* browser changed the setting

widgetVars == <<widget, setting, value, display, wnet, flawed>>

Values == {"true", "false"}
Negation(v) == IF v = "true" THEN "false" ELSE "true"
WRequests == [phase : {"idle", "get", "got", "post", "saved"}, val : Values \cup {Null}]
NoWRequest == [phase |-> "idle", val |-> Null]
Get == [phase |-> "get", val |-> Null]

WidgetTypeOK ==
  /\ widget \in Widgets \cup {"none"}
  /\ setting \in Values
  /\ value \in Values \cup {Null} /\ display \in Values \cup {Null}
  /\ wnet \in [Slots -> WRequests]
  /\ flawed \in BOOLEAN

WidgetInit ==
  /\ widget = "none" /\ setting = "true"
  /\ value = Null /\ display = Null
  /\ wnet = [s \in Slots |-> NoWRequest]
  /\ flawed = FALSE

\* onMount of an input whose setting is v.  The switch loads twice: here and in its
\* reactive statement.
MountWidget(w, v, s, t) ==
  /\ widget = "none" /\ (w = "toggle" <=> s # t)
  /\ widget' = w /\ setting' = v
  /\ wnet' = [wnet EXCEPT ![s] = Get, ![t] = Get]
  /\ UNCHANGED <<value, display, flawed>>

WidgetQuiet == \A s \in Slots : wnet[s] = NoWRequest

Post(v, s) ==
  /\ wnet[s] = NoWRequest
  /\ wnet' = [wnet EXCEPT ![s] = [phase |-> "post", val |-> v]]
  /\ flawed' = (flawed \/ ~WidgetQuiet)

-----------------------------------------------------------------------------
\* Mutation: sends the copy as it is.
ClickCopy(s) ==
  /\ widget = "toggle" /\ value # Null
  /\ display' = Negation(display)
  /\ Post(value, s)
  /\ UNCHANGED <<widget, setting, value>>

\* toggleSettingStatus: the switch flips, the negation of the copy is sent.
Click(s) ==
  /\ widget = "toggle" /\ value # Null
  /\ display' = Negation(display)
  /\ Post(Negation(value), s)
  /\ UNCHANGED <<widget, setting, value>>

\* updateField: a text equal to the copy is not sent.
LeaveText(v, s) ==
  /\ widget = "text" /\ value # Null
  /\ display' = v
  /\ IF v = value THEN UNCHANGED <<wnet, flawed>> ELSE Post(v, s)
  /\ UNCHANGED <<widget, setting, value>>

\* updateFieldRadio: the copy is bound to the selection.
Select(v, s) ==
  /\ widget = "radio" /\ value # Null /\ v # display
  /\ value' = v /\ display' = v
  /\ Post(v, s)
  /\ UNCHANGED <<widget, setting>>

\* onBlur of the certificate box.
LeaveCertificate(v, s) ==
  /\ widget = "certificate"
  /\ display' = v
  /\ Post(v, s)
  /\ UNCHANGED <<widget, setting, value>>

\* The answer to a load.  Svelte touches the input only if the copy has changed.
WidgetLoaded(s) ==
  /\ wnet[s].phase = "got"
  /\ value' = wnet[s].val
  /\ display' = IF wnet[s].val # value THEN wnet[s].val ELSE display
  /\ wnet' = [wnet EXCEPT ![s] = NoWRequest]
  /\ UNCHANGED <<widget, setting, flawed>>

\* The answer to a save; the switch and the certificate box load again.
WidgetSaved(s) ==
  /\ wnet[s].phase = "saved"
  /\ wnet' = [wnet EXCEPT ![s] = IF widget \in {"toggle", "certificate"} THEN Get ELSE NoWRequest]
  /\ UNCHANGED <<widget, setting, value, display, flawed>>

WidgetFails(s) ==
  /\ wnet[s] # NoWRequest
  /\ wnet' = [wnet EXCEPT ![s] = NoWRequest]
  /\ flawed' = TRUE
  /\ UNCHANGED <<widget, setting, value, display>>

\* GSApiSettingsGET.
GetSetting(s) ==
  /\ wnet[s].phase = "get"
  /\ wnet' = [wnet EXCEPT ![s] = [phase |-> "got", val |-> setting]]
  /\ UNCHANGED <<widget, setting, value, display, flawed>>

\* GSApiSettingsPOST stores the keys it lists; capem and keypem are not among them.
SettingsPost(s) ==
  /\ wnet[s].phase = "post"
  /\ setting' = IF widget = "certificate" THEN setting ELSE wnet[s].val
  /\ wnet' = [wnet EXCEPT ![s].phase = "saved"]
  /\ UNCHANGED <<widget, value, display, flawed>>

\* The console in another browser.
OtherSetting ==
  /\ setting' = Negation(setting)
  /\ flawed' = TRUE
  /\ UNCHANGED <<widget, value, display, wnet>>

WidgetNext ==
  \/ \E s \in Slots :
       \/ Click(s)
       \/ \E v \in Values : LeaveText(v, s) \/ Select(v, s) \/ LeaveCertificate(v, s)
       \/ WidgetLoaded(s) \/ WidgetSaved(s) \/ WidgetFails(s)
       \/ GetSetting(s) \/ SettingsPost(s)
  \/ widget # "none" /\ OtherSetting
  \/ \E w \in Widgets, v \in Values, s, t \in Slots : MountWidget(w, v, s, t)

WidgetSpec == WidgetInit /\ [][WidgetNext]_widgetVars

-----------------------------------------------------------------------------
(* Properties.                                                             *)

\* When every answer is in, an input displays the stored value: the switch's copy,
\* its display and the store have moved together.  Two inputs are exempt as the code
\* is: a text typed back to the value the page was loaded with, which is not sent, and
\* the certificate box.
WidgetHonest ==
  WidgetQuiet /\ ~flawed /\ display # Null
    => \/ display = setting
       \/ widget = "text" /\ display = value
       \/ widget = "certificate"
=============================================================================

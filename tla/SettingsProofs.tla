--------------------------- MODULE SettingsProofs ---------------------------
(***************************************************************************)
(* Proofs about the settings pages, for any number of requests in flight,  *)
(* any texts and any administrator: the object that two inputs share       *)
(* (GeneralSettings) and the inputs of one setting each (SettingWidgets).  *)
(***************************************************************************)
EXTENDS GeneralSettings, SettingWidgets, TLAPS

-----------------------------------------------------------------------------
(* The shared object.  What the three properties say of the stored object  *)
(* is only inductive together with what they say of its copies: in the     *)
(* inputs, in the password form and in the requests under way.             *)


\* The shapes, as far as the proofs need them.
Shape ==
  /\ general \in Blobs /\ entered \in Blobs
  /\ copy \in [Editors -> Blobs \cup {Null}] /\ form \in Blobs \cup {Null}
  /\ gnet \in [Slots -> GRequests]
  /\ clash \in {"none", "some", "blank"}
  /\ \A s \in Slots : gnet[s].phase \in {"got", "post", "read"} => gnet[s].blob \in Blobs

\* Passwords: only a typed one is stored; no answer and no copy shows it.
PassKept ==
  /\ general.pass # Blank
  /\ \A s \in Slots : /\ gnet[s].phase = "read" => gnet[s].blob.pass # Blank
                      /\ gnet[s].phase = "got" => gnet[s].blob.pass = Blank
  /\ \A e \in Editors : copy[e] # Null => copy[e].pass = Blank
  /\ form # Null => form.pass # Blank

\* The name: every copy of the object has it.
NameKept ==
  clash # "blank" =>
    /\ general.user = Admin
    /\ \A s \in Slots : gnet[s].phase \in {"got", "post", "read"} => gnet[s].blob.user = Admin
    /\ \A e \in Editors : copy[e] # Null => copy[e].user = Admin
    /\ form # Null => form.user = Admin

\* What the one save under way will leave is what was entered.
WillBeEntered(s) ==
  /\ gnet[s].blob.log = entered.log /\ gnet[s].blob.user = entered.user
  /\ \/ gnet[s].blob.pass = entered.pass
     \/ gnet[s].phase = "post" /\ gnet[s].blob.pass = Blank /\ general.pass = entered.pass

SavesApart ==
  clash = "none" =>
    /\ entered.user = Admin /\ entered.pass # Blank
    /\ (\A s \in Slots : ~Saving(s)) => general = entered
    /\ \A s \in Slots : Saving(s) =>
         /\ WillBeEntered(s)
         /\ \A t \in Slots : Saving(t) => t = s

GInv == Shape /\ PassKept /\ NameKept /\ SavesApart

\* A step that starts no save, stores nothing and changes no history, and whose
\* requests are the old ones or no saves.
Quiet ==
  /\ UNCHANGED <<general, entered, clash>>
  /\ \A s \in Slots : /\ Saving(s)' => Saving(s) /\ gnet'[s].blob = gnet[s].blob
                                       /\ gnet'[s].phase = gnet[s].phase
                      /\ Saving(s) => Saving(s)'

\* A quiet step leaves the saves as far apart as they were.
LEMMA QuietSavesApart == ASSUME Shape, SavesApart, Quiet PROVE SavesApart'
BY DEF Quiet, SavesApart, Shape, WillBeEntered, Saving

\* A new installation satisfies the invariant.
LEMMA GInitially == ASSUME GeneralInit PROVE GInv
BY GeneralAssumption
   DEF GeneralInit, GInv, Shape, PassKept, NameKept, SavesApart, Blobs, Editors, GRequests,
       GPhases, NoGRequest, Saving, WillBeEntered

\* Opening an input.
LEMMA GMount == ASSUME GInv, NEW e \in Editors, NEW s \in Slots, Mount(e, s) PROVE GInv'
<1> USE DEF GInv, Mount, Editors, NoGRequest
<1>1. Shape' BY DEF Shape, GRequests, GPhases, Blobs, Saving
<1>2. PassKept' BY DEF PassKept, Shape, Saving, GRequests
<1>3. NameKept' BY DEF NameKept, Shape, Saving, GRequests
<1>4. Quiet BY DEF Quiet, Shape, Saving, GRequests
<1> QED BY <1>1, <1>2, <1>3, <1>4, QuietSavesApart

\* Both inputs save through Send: a save that starts while clash stays "none" is alone
\* and has the name and the log location as entered.
LEMMA GSend ==
  ASSUME Shape, Shape', SavesApart, UNCHANGED general,
         NEW e \in Editors, NEW b \in Blobs, NEW s \in Slots, Send(e, b, s),
         entered' \in Blobs, entered'.user = entered.user,
         b.pass = entered'.pass \/ (b.pass = Blank /\ entered'.pass = entered.pass),
         clash = "none" => entered'.pass # Blank
  PROVE  SavesApart'
<1> SUFFICES ASSUME clash' = "none" PROVE SavesApart'
  BY DEF SavesApart
<1>1. /\ clash = "none" /\ b.user = Admin /\ b.log = entered'.log
      /\ \A t \in Slots : ~Saving(t)
  BY DEF Send, Clashed, Shape
<1>2. general = entered BY <1>1 DEF SavesApart
<1>3. gnet' = [gnet EXCEPT ![s] = [phase |-> "post", ed |-> e, blob |-> b]] BY DEF Send
<1>4. \A t \in Slots : Saving(t)' => t = s BY <1>1, <1>3 DEF Saving, Shape
<1>5. Saving(s)' /\ WillBeEntered(s)' BY <1>1, <1>2, <1>3 DEF Saving, WillBeEntered, Shape, SavesApart
<1>6. entered'.user = Admin /\ entered'.pass # Blank BY <1>1 DEF SavesApart
<1> QED BY <1>4, <1>5, <1>6 DEF SavesApart

\* The log location.
LEMMA GEditLog == ASSUME GInv, NEW l \in Logs, NEW s \in Slots, EditLog(l, s) PROVE GInv'
<1> USE DEF GInv
<1> DEFINE b == [copy["log"] EXCEPT !.log = l]
<1>1. /\ b \in Blobs /\ b.pass = Blank /\ b.log = l /\ b.user = copy["log"].user
      /\ entered' \in Blobs /\ entered'.user = entered.user /\ entered'.pass = entered.pass
  BY DEF EditLog, Shape, PassKept, Blobs, Editors
<1>2. /\ Send("log", b, s) /\ "log" \in Editors
      /\ UNCHANGED <<general, copy, form, modalOpen>>
  BY DEF EditLog, Editors
<1> HIDE DEF b
<1>3. Shape' BY <1>1, <1>2 DEF Shape, Send, GRequests, GPhases, Clashed
<1>4. PassKept' BY <1>1, <1>2 DEF PassKept, Send, Shape
<1>5. NameKept'
  <2> SUFFICES ASSUME clash' # "blank" PROVE NameKept' BY DEF NameKept
  <2>1. clash # "blank" BY <1>2 DEF Send, Clashed
  <2>2. b.user = Admin BY <1>1, <2>1 DEF NameKept, EditLog, Editors
  <2> QED BY <1>1, <1>2, <2>1, <2>2 DEF NameKept, Send, Shape
<1>6. SavesApart' BY <1>1, <1>2, <1>3, GSend DEF SavesApart
<1> QED BY <1>3, <1>4, <1>5, <1>6

\* Proceed: the typed password, or an object with no field.
LEMMA GProceed == ASSUME GInv, NEW s \in Slots, Proceed(s) PROVE GInv'
<1> USE DEF GInv
<1> DEFINE b == IF form = Null THEN BlankBlob ELSE form
<1>1. b \in Blobs BY DEF Shape, BlankBlob, Blobs
<1>2. /\ Send("pass", b, s) /\ "pass" \in Editors /\ UNCHANGED <<general, copy, form>>
      /\ entered' = IF form = Null THEN entered ELSE [entered EXCEPT !.pass = form.pass]
  BY DEF Proceed, Editors
<1>3. entered' \in Blobs /\ entered'.user = entered.user BY <1>2 DEF Shape, Blobs
<1>4. Shape' BY <1>1, <1>2, <1>3 DEF Shape, Send, GRequests, GPhases, Clashed
<1>5. PassKept' BY <1>1, <1>2 DEF PassKept, Send, Shape
<1>6. CASE form = Null
  <2>1. b = BlankBlob /\ entered' = entered BY <1>6, <1>2
  <2> HIDE DEF b
  <2>2. b.pass = Blank BY <2>1 DEF BlankBlob
  <2>3. clash' = "blank" BY <1>2, <2>1 DEF Send
  <2> QED BY <1>4, <1>5, <2>3 DEF NameKept, SavesApart
<1>7. CASE form # Null
  <2>1. b = form /\ form \in Blobs BY <1>7 DEF Shape
  <2>2. entered'.pass = b.pass /\ b.pass # Blank BY <1>2, <1>7, <2>1 DEF PassKept, Shape, Blobs
  <2>3. NameKept'
    <3> SUFFICES ASSUME clash' # "blank" PROVE NameKept' BY DEF NameKept
    <3>1. clash # "blank" BY <1>2 DEF Send, Clashed
    <3>2. b.user = Admin BY <1>7, <2>1, <3>1 DEF NameKept
    <3> HIDE DEF b
    <3> QED BY <1>2, <3>1, <3>2 DEF NameKept, Send, Shape
  <2> HIDE DEF b
  <2>4. SavesApart' BY <1>1, <1>2, <1>3, <1>4, <2>2, GSend
  <2> QED BY <1>4, <1>5, <2>3, <2>4
<1> QED BY <1>6, <1>7

\* The password dialog, short of Proceed.
LEMMA GDialog == ASSUME GInv, OpenModal \/ \E p \in Passwords : TypePassword(p) PROVE GInv'
<1> USE DEF GInv
<1>1. CASE OpenModal
  BY <1>1 DEF OpenModal, Shape, PassKept, NameKept, SavesApart, Saving, WillBeEntered
<1>2. ASSUME NEW p \in Passwords, TypePassword(p) PROVE GInv'
  <2>1. /\ form' = [copy["pass"] EXCEPT !.pass = p] /\ copy["pass"] \in Blobs
        /\ UNCHANGED <<general, copy, gnet, entered, clash>> /\ copy["pass"] # Null
    BY <1>2 DEF TypePassword, Shape, Editors
  <2>2. form' \in Blobs /\ form'.pass = p /\ form'.user = copy["pass"].user /\ p # Blank
    BY <2>1, GeneralAssumption DEF Blobs
  <2>3. Shape' BY <2>1, <2>2 DEF Shape
  <2>4. PassKept' BY <2>1, <2>2 DEF PassKept
  <2>5. NameKept' BY <2>1, <2>2 DEF NameKept, Editors
  <2>6. Quiet BY <2>1 DEF Quiet, Saving
  <2> QED BY <2>3, <2>4, <2>5, <2>6, QuietSavesApart
<1> QED BY <1>1, <1>2

\* Answers that are no saves, or that have been stored.
LEMMA GAnswer ==
  ASSUME GInv, NEW s \in Slots, Loaded(s) \/ Saved(s) \/ GetGeneral(s) PROVE GInv'
<1> USE DEF GInv, NoGRequest
<1>1. CASE Loaded(s)
  <2>1. Shape' BY <1>1 DEF Loaded, Shape, GRequests, GPhases
  <2>2. PassKept' BY <1>1 DEF Loaded, PassKept, Shape
  <2>3. NameKept' BY <1>1 DEF Loaded, NameKept, Shape
  <2>4. Quiet BY <1>1 DEF Loaded, Quiet, Shape, Saving
  <2> QED BY <2>1, <2>2, <2>3, <2>4, QuietSavesApart
<1>2. CASE Saved(s)
  <2>1. Shape' BY <1>2 DEF Saved, Shape, GRequests, GPhases
  <2>2. PassKept' BY <1>2 DEF Saved, PassKept, Shape
  <2>3. NameKept' BY <1>2 DEF Saved, NameKept, Shape
  <2>4. Quiet BY <1>2 DEF Saved, Quiet, Shape, Saving
  <2> QED BY <2>1, <2>2, <2>3, <2>4, QuietSavesApart
<1>3. CASE GetGeneral(s)
  <2> DEFINE b == [general EXCEPT !.pass = Blank]
  <2>1. b \in Blobs /\ b.pass = Blank /\ b.user = general.user BY DEF Shape, Blobs
  <2>2. /\ gnet' = [gnet EXCEPT ![s].phase = "got", ![s].blob = b] /\ gnet[s].phase = "get"
        /\ UNCHANGED <<general, copy, form, entered, clash>>
    BY <1>3 DEF GetGeneral
  <2> HIDE DEF b
  <2>3. Shape' BY <2>1, <2>2 DEF Shape, GRequests, GPhases
  <2>4. PassKept' BY <2>1, <2>2 DEF PassKept, Shape, GRequests
  <2>5. NameKept' BY <2>1, <2>2 DEF NameKept, Shape, GRequests
  <2>6. Quiet BY <2>2 DEF Quiet, Shape, Saving, GRequests
  <2> QED BY <2>3, <2>4, <2>5, <2>6, QuietSavesApart
<1> QED BY <1>1, <1>2, <1>3

\* A lost request, and the console in another browser, are recorded.
LEMMA GMishap ==
  ASSUME GInv, (\E s \in Slots : GeneralFails(s)) \/ (\E l \in Logs : OtherEdit(l)) PROVE GInv'
<1> USE DEF GInv, NoGRequest
<1>1. ASSUME NEW s \in Slots, GeneralFails(s) PROVE GInv'
  <2>1. Shape' BY <1>1 DEF GeneralFails, Shape, GRequests, GPhases, Clashed
  <2>2. PassKept' BY <1>1 DEF GeneralFails, PassKept, Shape
  <2>3. NameKept' BY <1>1 DEF GeneralFails, NameKept, Shape, Clashed
  <2>4. CASE Saving(s)
    <3>1. clash' # "none" BY <1>1, <2>4 DEF GeneralFails, Clashed
    <3> QED BY <2>1, <2>2, <2>3, <3>1 DEF SavesApart
  <2>5. CASE ~Saving(s)
    <3>1. Quiet BY <1>1, <2>5 DEF GeneralFails, Quiet, Shape, Saving
    <3> QED BY <2>1, <2>2, <2>3, <3>1, QuietSavesApart
  <2> QED BY <2>4, <2>5
<1>2. ASSUME NEW l \in Logs, OtherEdit(l) PROVE GInv'
  <2>1. /\ general' \in Blobs /\ general'.pass = general.pass /\ general'.user = general.user
        /\ clash' \in {"some", "blank"} /\ (clash' = "blank" <=> clash = "blank")
        /\ UNCHANGED <<copy, form, gnet, entered>>
    BY <1>2 DEF OtherEdit, Shape, Blobs, Clashed
  <2> QED BY <2>1 DEF Shape, PassKept, NameKept, SavesApart
<1> QED BY <1>1, <1>2

\* A request whose password was filled in is a request.
LEMMA GReadPassword ==
  ASSUME NEW r \in GRequests, NEW c \in Blobs
  PROVE  [r EXCEPT !.phase = "read", !.blob = c] \in GRequests
<1> DEFINE q == [r EXCEPT !.phase = "read"]
<1>1. q \in GRequests BY DEF GRequests, GPhases
<1>2. [q EXCEPT !.blob = c] \in GRequests
  <2> HIDE DEF q
  <2> QED BY <1>1 DEF GRequests
<1> QED BY <1>2

\* GSApiSettingsPOST, in its two steps.
LEMMA GPost == ASSUME GInv, NEW s \in Slots, PostGeneral(s) \/ StoreGeneral(s) PROVE GInv'
<1> USE DEF GInv
<1> DEFINE b == gnet[s].blob
<1>0. b \in Blobs BY DEF PostGeneral, StoreGeneral, Shape
<1>1. CASE /\ general' = b /\ b.pass # Blank /\ Saving(s)
           /\ gnet' = [gnet EXCEPT ![s].phase = "saved"]
           /\ UNCHANGED <<copy, form, entered, clash>>
  <2>1. Shape' BY <1>0, <1>1 DEF Shape, GRequests, GPhases
  <2>2. PassKept' BY <1>1 DEF PassKept, Shape, GRequests
  <2>3. NameKept' BY <1>1 DEF NameKept, Shape, GRequests, Saving
  <2>4. SavesApart'
    <3> SUFFICES ASSUME clash = "none" PROVE SavesApart' BY <1>1 DEF SavesApart
    <3>1. WillBeEntered(s) /\ \A t \in Slots : Saving(t) => t = s BY <1>1 DEF SavesApart
    <3>2. \A t \in Slots : ~Saving(t)' BY <1>1, <3>1 DEF Saving, Shape, GRequests
    <3>3. b = entered BY <1>0, <1>1, <3>1 DEF WillBeEntered, Blobs, Shape
    <3> QED BY <1>1, <3>2, <3>3 DEF SavesApart
  <2> QED BY <2>1, <2>2, <2>3, <2>4
<1>2. CASE /\ UNCHANGED <<general, copy, form, entered, clash>>
           /\ gnet[s].phase = "post" /\ b.pass = Blank
           /\ gnet' = [gnet EXCEPT ![s].phase = "read", ![s].blob.pass = general.pass]
  <2> DEFINE d == [b EXCEPT !.pass = general.pass]
  <2>1. d \in Blobs /\ d.pass = general.pass /\ d.log = b.log /\ d.user = b.user
    BY <1>0 DEF Blobs, Shape
  <2>2. gnet' = [gnet EXCEPT ![s] = [gnet[s] EXCEPT !.phase = "read", !.blob = d]]
    BY <1>2 DEF Shape, GRequests
  <2>3. /\ gnet'[s].phase = "read" /\ gnet'[s].blob = d /\ gnet'[s].ed = gnet[s].ed
        /\ \A t \in Slots : t # s => gnet'[t] = gnet[t]
    BY <2>2 DEF Shape, GRequests
  <2> HIDE DEF d
  <2>4. Shape'
    <3>0. gnet[s] \in GRequests BY DEF Shape
    <3>1. [gnet[s] EXCEPT !.phase = "read", !.blob = d] \in GRequests
      BY <2>1, <3>0, GReadPassword
    <3>2. gnet' \in [Slots -> GRequests] BY <2>2, <3>1 DEF Shape
    <3> QED BY <1>2, <2>1, <2>3, <3>2 DEF Shape
  <2>5. PassKept' BY <1>2, <2>1, <2>3 DEF PassKept
  <2>6. NameKept' BY <1>2, <2>1, <2>3 DEF NameKept
  <2>7. SavesApart'
    <3> SUFFICES ASSUME clash = "none" PROVE SavesApart' BY <1>2 DEF SavesApart
    <3>1. WillBeEntered(s) /\ \A t \in Slots : Saving(t) => t = s
      BY <1>2 DEF SavesApart, Saving
    <3>2. \A t \in Slots : Saving(t)' => t = s BY <2>3, <3>1 DEF Saving
    <3>3. WillBeEntered(s)'
      BY <1>2, <2>1, <2>3, <3>1 DEF WillBeEntered, SavesApart
    <3>4. Saving(s)' BY <2>3 DEF Saving
    <3>5. /\ entered'.user = Admin /\ entered'.pass # Blank /\ clash' = "none"
      BY <1>2 DEF SavesApart
    <3> QED BY <3>2, <3>3, <3>4, <3>5 DEF SavesApart
  <2> QED BY <2>4, <2>5, <2>6, <2>7
<1>3. CASE PostGeneral(s) BY <1>1, <1>2, <1>3 DEF PostGeneral, Saving
<1>4. CASE StoreGeneral(s) BY <1>1, <1>4 DEF StoreGeneral, Saving, PassKept
<1> QED BY <1>3, <1>4

\* Every step keeps the invariant.
LEMMA GStep == ASSUME GInv, [GeneralNext]_generalVars PROVE GInv'
<1>1. CASE UNCHANGED generalVars
  BY <1>1 DEF generalVars, GInv, Shape, PassKept, NameKept, SavesApart, Saving, WillBeEntered
<1>2. CASE GeneralNext
  BY <1>2, GMount, GEditLog, GProceed, GDialog, GAnswer, GMishap, GPost DEF GeneralNext
<1> QED BY <1>1, <1>2

LEMMA GInvariant == GeneralSpec => []GInv
BY GInitially, GStep, PTL DEF GeneralSpec

\* GSApiSettingsPOST never stores a blank password, however many saves of however
\* many inputs overlap between its read of the old one and its store.
THEOREM PasswordStays == GeneralSpec => []PasswordNeverBlank
<1>1. GInv => PasswordNeverBlank BY DEF GInv, PassKept, PasswordNeverBlank
<1> QED BY <1>1, GInvariant, PTL

\* Only Proceed without a typed password can change the administrator's name.
THEOREM NameStays == GeneralSpec => []UserNameKept
<1>1. GInv => UserNameKept BY DEF GInv, NameKept, UserNameKept
<1> QED BY <1>1, GInvariant, PTL

\* One save at a time, from copies that are up to date: the setting is what the user
\* entered in both inputs.
THEOREM EditsStay == GeneralSpec => []EditsKept
<1>1. GInv => EditsKept BY DEF GInv, SavesApart, EditsKept
<1> QED BY <1>1, GInvariant, PTL

-----------------------------------------------------------------------------
(* An input of one setting.                                                *)

WOut(s) == wnet[s].phase \in {"post", "saved"}
WIn(s) == wnet[s].phase \in {"get", "got"}

\* What holds however the user and the network behave.
WShape ==
  /\ WidgetTypeOK
  /\ widget = "none" => WidgetQuiet /\ value = Null /\ display = Null
  /\ \A s \in Slots : wnet[s].phase \in {"got", "post"} => wnet[s].val \in Values

\* While the user waits for every answer a save is alone, and a load brings the setting.
WApart ==
  ~flawed => /\ \A s, t \in Slots : WOut(s) /\ wnet[t] # NoWRequest => s = t
             /\ \A s \in Slots : wnet[s].phase = "got" => wnet[s].val = setting

\* The display, the copy and the store, but for the certificate box: a save sends what is
\* displayed, and without one the display is the setting or the text that was not sent;
\* text and radio buttons load once.
WMoves ==
  ~flawed /\ widget # "certificate" =>
    /\ value = Null <=> display = Null
    /\ \A s \in Slots : WOut(s) => value # Null
    /\ \A s \in Slots : wnet[s].phase = "post" =>
         wnet[s].val = display \/ (widget = "text" /\ display = value)
    /\ widget \in {"text", "radio"} =>
         \A s \in Slots : WIn(s) => value = Null /\ \A t \in Slots : WIn(t) => t = s
    /\ (\A s \in Slots : wnet[s].phase # "post") /\ display # Null =>
         display = setting \/ (widget = "text" /\ display = value)
    /\ widget = "toggle" /\ WidgetQuiet => value = display

WInv == WShape /\ WApart /\ WMoves

LEMMA WConstants ==
  /\ NoWRequest \in WRequests /\ NoWRequest.phase = "idle"
  /\ Get \in WRequests /\ Get.phase = "get"
  /\ Null \notin Values
  /\ \A v \in Values : Negation(v) \in Values
BY WidgetAssumption DEF NoWRequest, Get, WRequests, Values, Negation

\* A step that changes one request.
LEMMA WOneSlot ==
  ASSUME WShape, NEW s \in Slots, NEW r \in WRequests, wnet' = [wnet EXCEPT ![s] = r]
  PROVE  /\ wnet' \in [Slots -> WRequests] /\ wnet'[s] = r /\ wnet[s] \in WRequests
         /\ \A t \in Slots \ {s} : wnet'[t] = wnet[t]
BY DEF WShape, WidgetTypeOK

LEMMA WInitially == ASSUME WidgetInit PROVE WInv
<1>1. wnet \in [Slots -> WRequests] /\ \A s \in Slots : wnet[s] = NoWRequest
  BY WConstants DEF WidgetInit
<1>2. WShape BY <1>1, WConstants DEF WidgetInit, WShape, WidgetTypeOK, WidgetQuiet, Values
<1>3. WApart BY <1>1, WConstants DEF WApart, WOut
<1>4. WMoves BY <1>1, WConstants DEF WidgetInit, WMoves, WOut, WIn
<1> QED BY <1>2, <1>3, <1>4 DEF WInv

\* onMount.
LEMMA WMount ==
  ASSUME WInv, NEW w \in Widgets, NEW v \in Values, NEW s \in Slots, NEW t \in Slots,
         MountWidget(w, v, s, t)
  PROVE  WInv'
<1> USE DEF WInv
<1>1. /\ widget = "none" /\ (w = "toggle" <=> s # t) /\ widget' = w /\ setting' = v
      /\ wnet' = [wnet EXCEPT ![s] = Get, ![t] = Get] /\ UNCHANGED <<value, display, flawed>>
      /\ WidgetQuiet /\ value = Null /\ display = Null /\ w # "none"
  BY WidgetAssumption DEF MountWidget, WShape
<1>2. /\ wnet' \in [Slots -> WRequests] /\ wnet'[s] = Get /\ wnet'[t] = Get
      /\ \A u \in Slots \ {s, t} : wnet'[u] = NoWRequest
  BY <1>1, WConstants DEF WShape, WidgetTypeOK, WidgetQuiet
<1>3. \A u \in Slots : ~WOut(u)' /\ wnet'[u].phase \notin {"got", "post"}
  BY <1>2, WConstants DEF WOut
<1>4. ~WidgetQuiet' BY <1>2, WConstants DEF WidgetQuiet
<1>5. WShape' BY <1>1, <1>2, <1>3 DEF WShape, WidgetTypeOK
<1>6. WApart' BY <1>3 DEF WApart
<1>7. w \in {"text", "radio"} => \A u, x \in Slots : WIn(u)' /\ WIn(x)' => u = x
  BY <1>1, <1>2, WConstants DEF WIn
<1>8. WMoves' BY <1>1, <1>3, <1>4, <1>7 DEF WMoves
<1> QED BY <1>5, <1>6, <1>8

\* A save of v starts: of what is displayed then, except by the certificate box.
LEMMA WPost ==
  ASSUME WInv, NEW v \in Values, NEW s \in Slots, Post(v, s), UNCHANGED <<widget, setting>>,
         display' \in Values, value' \in Values \cup {Null}, widget # "none",
         widget # "certificate" => value' # Null,
         ~flawed /\ WidgetQuiet /\ widget # "certificate" => v = display'
  PROVE  WInv'
<1> USE DEF WInv
<1> DEFINE r == [phase |-> "post", val |-> v]
<1>1. r \in WRequests /\ r.phase = "post" /\ r.val = v BY DEF WRequests
<1>2. wnet' = [wnet EXCEPT ![s] = r] /\ flawed' = (flawed \/ ~WidgetQuiet) BY DEF Post
<1> HIDE DEF r
<1>3. /\ wnet' \in [Slots -> WRequests] /\ wnet'[s] = r
      /\ \A t \in Slots \ {s} : wnet'[t] = wnet[t]
  BY <1>1, <1>2, WOneSlot
<1>4. flawed' \in BOOLEAN BY <1>2 DEF WShape, WidgetTypeOK
<1>5. WShape' BY <1>1, <1>3, <1>4 DEF WShape, WidgetTypeOK
<1>6. ASSUME ~flawed'
      PROVE  /\ ~flawed /\ WidgetQuiet
             /\ \A t \in Slots \ {s} : wnet'[t] = NoWRequest
  BY <1>2, <1>3, <1>6 DEF WidgetQuiet
<1>7. WApart' BY <1>1, <1>3, <1>6, WConstants DEF WApart, WOut
<1>8. WMoves'
  <2> SUFFICES ASSUME ~flawed', widget # "certificate" PROVE WMoves' BY DEF WMoves
  <2>1. \A t \in Slots : wnet'[t].phase = "post" => wnet'[t].val = display'
    BY <1>1, <1>3, <1>6, WConstants
  <2>2. \A t \in Slots : ~WIn(t)' BY <1>1, <1>3, <1>6, WConstants DEF WIn
  <2>3. ~WidgetQuiet' BY <1>1, <1>3, WConstants DEF WidgetQuiet
  <2>4. value' # Null /\ display' # Null BY WConstants
  <2> QED BY <1>1, <1>3, <2>1, <2>2, <2>3, <2>4 DEF WMoves
<1> QED BY <1>5, <1>7, <1>8

\* What the user does.
LEMMA WUser ==
  ASSUME WInv, NEW s \in Slots,
         \/ Click(s)
         \/ \E v \in Values : LeaveText(v, s) \/ Select(v, s) \/ LeaveCertificate(v, s)
  PROVE  WInv'
<1>0. value \in Values \cup {Null} /\ display \in Values \cup {Null}
  BY DEF WInv, WShape, WidgetTypeOK
<1>1. CASE Click(s)
  <2>1. /\ widget = "toggle" /\ value \in Values /\ display' = Negation(display)
        /\ Post(Negation(value), s) /\ UNCHANGED <<widget, setting, value>>
    BY <1>0, <1>1 DEF Click
  <2>2. Negation(value) \in Values /\ display' \in Values BY <2>1, WConstants DEF Negation, Values
  <2>3. ~flawed /\ WidgetQuiet => Negation(value) = display' BY <2>1 DEF WInv, WMoves
  <2> QED BY <2>1, <2>2, <2>3, WConstants, WPost
<1>2. ASSUME NEW v \in Values, LeaveText(v, s) PROVE WInv'
  <2>1. widget = "text" /\ value # Null /\ display' = v /\ UNCHANGED <<widget, setting, value>>
    BY <1>2 DEF LeaveText
  <2>2. CASE v = value
    <3>1. UNCHANGED <<wnet, flawed>> BY <1>2, <2>2 DEF LeaveText
    <3>2. WShape' BY <2>1, <3>1 DEF WInv, WShape, WidgetTypeOK, WidgetQuiet
    <3>3. WApart' BY <2>1, <3>1 DEF WInv, WApart, WOut
    <3>4. WMoves' BY <2>1, <2>2, <3>1, WConstants DEF WInv, WMoves, WOut, WIn, WidgetQuiet
    <3> QED BY <3>2, <3>3, <3>4 DEF WInv
  <2>3. CASE v # value
    <3>1. Post(v, s) BY <1>2, <2>3 DEF LeaveText
    <3> QED BY <1>0, <2>1, <3>1, WPost
  <2> QED BY <2>2, <2>3
<1>3. ASSUME NEW v \in Values, Select(v, s) PROVE WInv'
  BY <1>3, WConstants, WPost DEF Select
<1>4. ASSUME NEW v \in Values, LeaveCertificate(v, s) PROVE WInv'
  BY <1>0, <1>4, WPost DEF LeaveCertificate
<1> QED BY <1>1, <1>2, <1>3, <1>4

\* The answer to a load.
LEMMA WLoad == ASSUME WInv, NEW s \in Slots, WidgetLoaded(s) PROVE WInv'
<1> USE DEF WInv
<1>1. /\ wnet[s].phase = "got" /\ wnet[s].val \in Values /\ value' = wnet[s].val
      /\ display' = IF wnet[s].val # value THEN wnet[s].val ELSE display
      /\ wnet' = [wnet EXCEPT ![s] = NoWRequest] /\ UNCHANGED <<widget, setting, flawed>>
  BY DEF WidgetLoaded, WShape
<1>2. /\ wnet' \in [Slots -> WRequests] /\ wnet'[s] = NoWRequest
      /\ \A t \in Slots \ {s} : wnet'[t] = wnet[t]
  BY <1>1, WConstants, WOneSlot
<1>3. widget # "none" BY <1>1, WConstants DEF WShape, WidgetQuiet
<1>4. WShape' BY <1>1, <1>2, <1>3, WConstants DEF WShape, WidgetTypeOK
<1>5. WApart' BY <1>1, <1>2, WConstants DEF WApart, WOut
<1>6. WMoves'
  <2> SUFFICES ASSUME ~flawed, widget # "certificate" PROVE WMoves' BY <1>1 DEF WMoves
  <2>1. wnet[s].val = setting /\ \A t \in Slots : ~WOut(t) /\ ~WOut(t)'
    BY <1>1, <1>2, WConstants DEF WApart, WOut
  <2>2. \A t \in Slots : wnet[t].phase # "post" /\ wnet'[t].phase # "post" BY <2>1 DEF WOut
  <2>3. value' = setting /\ value' # Null /\ display' # Null
    BY <1>1, <2>1, WConstants DEF WMoves
  <2>4. display' = setting \/ (widget = "text" /\ display' = value')
    BY <1>1, <2>1, <2>2, <2>3 DEF WMoves
  <2>5. widget \in {"text", "radio"} => \A t \in Slots : ~WIn(t)'
    BY <1>1, <1>2, WConstants DEF WMoves, WIn
  <2> QED BY <1>1, <2>1, <2>2, <2>3, <2>4, <2>5 DEF WMoves
<1> QED BY <1>4, <1>5, <1>6

\* The answer to a save.
LEMMA WSaved == ASSUME WInv, NEW s \in Slots, WidgetSaved(s) PROVE WInv'
<1> USE DEF WInv
<1> DEFINE r == IF widget \in {"toggle", "certificate"} THEN Get ELSE NoWRequest
<1>1. /\ wnet[s].phase = "saved" /\ wnet' = [wnet EXCEPT ![s] = r]
      /\ UNCHANGED <<widget, setting, value, display, flawed>>
  BY DEF WidgetSaved
<1>2. /\ r \in WRequests /\ r.phase \in {"get", "idle"}
      /\ (widget = "toggle" => r = Get) /\ (widget \in {"text", "radio"} => r = NoWRequest)
  BY WConstants
<1> HIDE DEF r
<1>3. /\ wnet' \in [Slots -> WRequests] /\ wnet'[s] = r
      /\ \A t \in Slots \ {s} : wnet'[t] = wnet[t]
  BY <1>1, <1>2, WOneSlot
<1>4. widget # "none" BY <1>1, WConstants DEF WShape, WidgetQuiet
<1>5. WShape' BY <1>1, <1>2, <1>3, <1>4 DEF WShape, WidgetTypeOK
<1>6. ASSUME ~flawed PROVE \A t \in Slots \ {s} : wnet'[t] = NoWRequest /\ wnet[t] = NoWRequest
  BY <1>1, <1>3, <1>6 DEF WApart, WOut
<1>7. WApart' BY <1>1, <1>2, <1>3, <1>6, WConstants DEF WApart, WOut
<1>8. WMoves'
  <2> SUFFICES ASSUME ~flawed, widget # "certificate" PROVE WMoves' BY <1>1 DEF WMoves
  <2>1. \A t \in Slots : wnet[t].phase # "post" /\ wnet'[t].phase # "post" /\ ~WOut(t)'
    BY <1>1, <1>2, <1>3, <1>6, WConstants DEF WOut
  <2>2. widget \in {"text", "radio"} => \A t \in Slots : ~WIn(t)'
    BY <1>2, <1>3, <1>6, WConstants DEF WIn
  <2>3. widget = "toggle" => ~WidgetQuiet' BY <1>2, <1>3, WConstants DEF WidgetQuiet
  <2> QED BY <1>1, <2>1, <2>2, <2>3 DEF WMoves
<1> QED BY <1>5, <1>7, <1>8

\* A lost request, and the console in another browser, are recorded.
LEMMA WMishap ==
  ASSUME WInv, (\E s \in Slots : WidgetFails(s)) \/ (widget # "none" /\ OtherSetting) PROVE WInv'
<1> USE DEF WInv
<1>1. ASSUME NEW s \in Slots, WidgetFails(s) PROVE WInv'
  <2>1. /\ wnet[s] # NoWRequest /\ wnet' = [wnet EXCEPT ![s] = NoWRequest] /\ flawed' = TRUE
        /\ UNCHANGED <<widget, setting, value, display>>
    BY <1>1 DEF WidgetFails
  <2>2. /\ wnet' \in [Slots -> WRequests] /\ wnet'[s] = NoWRequest
        /\ \A t \in Slots \ {s} : wnet'[t] = wnet[t]
    BY <2>1, WConstants, WOneSlot
  <2>3. widget # "none" BY <2>1 DEF WShape, WidgetQuiet
  <2>4. WShape' BY <2>1, <2>2, <2>3, WConstants DEF WShape, WidgetTypeOK
  <2> QED BY <2>1, <2>4 DEF WApart, WMoves
<1>2. CASE widget # "none" /\ OtherSetting
  <2>1. /\ setting' = Negation(setting) /\ flawed' = TRUE /\ widget # "none"
        /\ UNCHANGED <<widget, value, display, wnet>>
    BY <1>2 DEF OtherSetting
  <2>2. WShape' BY <2>1, WConstants DEF WShape, WidgetTypeOK
  <2> QED BY <2>1, <2>2 DEF WApart, WMoves
<1> QED BY <1>1, <1>2

\* GSApiSettingsGET and GSApiSettingsPOST.
LEMMA WServer == ASSUME WInv, NEW s \in Slots, GetSetting(s) \/ SettingsPost(s) PROVE WInv'
<1> USE DEF WInv
<1>0. /\ wnet[s] \in WRequests /\ setting \in Values /\ wnet[s].phase \in {"get", "post"}
      /\ UNCHANGED <<widget, value, display, flawed>>
  BY DEF GetSetting, SettingsPost, WShape, WidgetTypeOK
<1>1. widget # "none" BY <1>0, WConstants DEF WShape, WidgetQuiet
<1>2. CASE GetSetting(s)
  <2> DEFINE r == [phase |-> "got", val |-> setting]
  <2>1. /\ r \in WRequests /\ r.phase = "got" /\ r.val = setting /\ wnet[s].phase = "get"
        /\ wnet' = [wnet EXCEPT ![s] = r] /\ UNCHANGED setting
    BY <1>0, <1>2 DEF GetSetting, WRequests
  <2> HIDE DEF r
  <2>2. /\ wnet' \in [Slots -> WRequests] /\ wnet'[s] = r
        /\ \A t \in Slots \ {s} : wnet'[t] = wnet[t]
    BY <2>1, WOneSlot
  <2>3. /\ \A t \in Slots : WOut(t)' <=> WOut(t)
        /\ \A t \in Slots : WIn(t)' <=> WIn(t)
        /\ \A t \in Slots : wnet'[t].phase = "post" <=> wnet[t].phase = "post"
        /\ \A t \in Slots : wnet'[t].phase = "post" => wnet'[t] = wnet[t]
        /\ wnet[s] # NoWRequest /\ wnet'[s] # NoWRequest
    BY <2>1, <2>2, WConstants DEF WOut, WIn
  <2>4. WShape' BY <1>0, <1>1, <2>1, <2>2 DEF WShape, WidgetTypeOK
  <2>5. WApart' BY <1>0, <2>1, <2>2, <2>3 DEF WApart
  <2>6. ~WidgetQuiet' BY <2>3 DEF WidgetQuiet
  <2>7. WMoves' BY <1>0, <2>1, <2>3, <2>6 DEF WMoves
  <2> QED BY <2>4, <2>5, <2>7
<1>3. CASE SettingsPost(s)
  <2> DEFINE r == [wnet[s] EXCEPT !.phase = "saved"]
  <2>1. /\ r \in WRequests /\ r.phase = "saved" /\ wnet[s].phase = "post" /\ wnet[s].val \in Values
        /\ setting' = IF widget = "certificate" THEN setting ELSE wnet[s].val
    BY <1>0, <1>3 DEF SettingsPost, WRequests, WShape
  <2>2. wnet' = [wnet EXCEPT ![s] = r] BY <1>3 DEF SettingsPost, WShape, WidgetTypeOK
  <2> HIDE DEF r
  <2>3. /\ wnet' \in [Slots -> WRequests] /\ wnet'[s] = r
        /\ \A t \in Slots \ {s} : wnet'[t] = wnet[t]
    BY <2>1, <2>2, WOneSlot
  <2>4. WShape' BY <1>0, <1>1, <2>1, <2>3 DEF WShape, WidgetTypeOK
  <2>5. ASSUME ~flawed PROVE \A t \in Slots \ {s} : wnet'[t] = NoWRequest /\ wnet[t] = NoWRequest
    BY <2>1, <2>3, <2>5 DEF WApart, WOut
  <2>6. WApart' BY <1>0, <2>1, <2>3, <2>5, WConstants DEF WApart, WOut
  <2>7. WMoves'
    <3> SUFFICES ASSUME ~flawed, widget # "certificate" PROVE WMoves' BY <1>0 DEF WMoves
    <3>1. \A t \in Slots : wnet'[t].phase # "post" /\ ~WIn(t)'
      BY <2>1, <2>3, <2>5, WConstants DEF WIn
    <3>2. /\ value # Null /\ display # Null /\ setting' = wnet[s].val
          /\ (wnet[s].val = display \/ (widget = "text" /\ display = value))
      BY <2>1 DEF WMoves, WOut
    <3>3. ~WidgetQuiet' BY <2>1, <2>3, WConstants DEF WidgetQuiet
    <3> QED BY <1>0, <3>1, <3>2, <3>3 DEF WMoves
  <2> QED BY <2>4, <2>6, <2>7
<1> QED BY <1>2, <1>3

LEMMA WStep == ASSUME WInv, [WidgetNext]_widgetVars PROVE WInv'
<1>1. CASE UNCHANGED widgetVars
  BY <1>1 DEF widgetVars, WInv, WShape, WApart, WMoves, WidgetTypeOK, WidgetQuiet, WOut, WIn
<1>2. CASE WidgetNext
  BY <1>2, WUser, WLoad, WSaved, WMishap, WServer, WMount DEF WidgetNext
<1> QED BY <1>1, <1>2

LEMMA WInvariant == WidgetSpec => []WInv
BY WInitially, WStep, PTL DEF WidgetSpec

\* The switch flips before its save is answered, the text field sends nothing that equals
\* its copy, and the radio buttons never load again: with every answer in, each displays
\* the stored value, but for the two exemptions of the code.
THEOREM WidgetsHonest == WidgetSpec => []WidgetHonest
<1>1. WInv => WidgetHonest
  <2> SUFFICES ASSUME WInv, WidgetQuiet, ~flawed, display # Null, widget # "certificate"
               PROVE  display = setting \/ (widget = "text" /\ display = value)
    BY DEF WidgetHonest
  <2>1. \A s \in Slots : wnet[s].phase # "post" BY WConstants DEF WidgetQuiet
  <2> QED BY <2>1 DEF WInv, WMoves
<1> QED BY <1>1, WInvariant, PTL
=============================================================================

------------------------------ MODULE DnsLists ------------------------------
(***************************************************************************)
(* The block lists on the DNS page (dnslists.svelte): one setting, an      *)
(* array of URLs, loaded once and saved whole after every change.  A row   *)
(* is named by its own text.  The dialog of Insert and the row being       *)
(* edited share the variable editingItemValue; the empty string is Null.   *)
(***************************************************************************)
EXTENDS Naturals, Sequences, Console

CONSTANTS OldLists,  \* lists stored at first, a sequence
          NewList,   \* what the user types
          MaxLists   \* bound: Insert saves only below it

VARIABLES
  blocklists,        \* the setting dns_custom_entries
  listed,            \* data
  ready,             \* is data not null?
  editingList,       \* editingRowId, Null for none
  editingItemValue,
  listForm,          \* showForm
  lnet,              \* requests in flight
  late               \* history: a save was lost or overlapped another

listVars == <<blocklists, listed, ready, editingList, editingItemValue, listForm, lnet, late>>

OldUrls == {OldLists[i] : i \in 1..Len(OldLists)}

ASSUME ListAssumption == OldLists \in Seq(OldUrls) /\ MaxLists \in Nat

Urls == OldUrls \cup {NewList, Null}
NoLRequest == [phase |-> "idle", urls |-> <<>>, add |-> FALSE]

ListTypeOK ==
  /\ blocklists \in Seq(Urls) /\ listed \in Seq(Urls)
  /\ ready \in BOOLEAN /\ listForm \in BOOLEAN
  /\ editingList \in Urls /\ editingItemValue \in Urls
  /\ lnet \in [Slots -> [phase : {"idle", "get", "got", "post", "saved"}, urls : Seq(Urls),
                         add : BOOLEAN]]
  /\ late \in BOOLEAN

ListInit ==
  /\ blocklists = OldLists /\ listed = <<>> /\ ready = FALSE
  /\ editingList = Null /\ editingItemValue = Null /\ listForm = FALSE
  /\ lnet = [s \in Slots |-> NoLRequest]
  /\ late = FALSE

LQuiet == \A s \in Slots : lnet[s] = NoLRequest
MayChange == ready /\ (~late \/ Beyond = "yes")

-----------------------------------------------------------------------------
\* saveAPIData; add: addSaveRow waits for it.
SaveLists(d, add, s) ==
  /\ lnet[s] = NoLRequest
  /\ lnet' = [lnet EXCEPT ![s] = [phase |-> "post", urls |-> d, add |-> add]]
  /\ late' = (late \/ ~LQuiet)

\* editRow on a row that is not being edited.
EditList(i) ==
  /\ MayChange /\ ~listForm /\ (editingList = Null \/ listed[i] # editingList)
  /\ editingList' = listed[i] /\ editingItemValue' = listed[i]
  /\ UNCHANGED <<blocklists, listed, ready, listForm, lnet, late>>

\* The row being edited has an input in its cell.
RowInput == editingList # Null /\ \E i \in 1..Len(listed) : listed[i] = editingList

\* The dialog's input and the row's set the same variable.
TypeList ==
  /\ listForm \/ RowInput
  /\ editingItemValue' = NewList
  /\ UNCHANGED <<blocklists, listed, ready, editingList, listForm, lnet, late>>

\* editRow on the row being edited; a row with the empty text cannot be.
SaveList(i, s) ==
  /\ MayChange /\ ~listForm /\ listed[i] = editingList /\ editingList # Null
  /\ listed' = [j \in 1..Len(listed) |-> IF listed[j] = editingList THEN editingItemValue ELSE listed[j]]
  /\ SaveLists(listed', FALSE, s)
  /\ editingList' = Null /\ editingItemValue' = Null
  /\ UNCHANGED <<blocklists, ready, listForm>>

\* Mutation: the table is not saved.
RemoveListShown(i, s) ==
  /\ MayChange /\ ~listForm
  /\ listed' = Kept(listed, {j \in 1..Len(listed) : listed[j] # listed[i]})
  /\ lnet[s] = NoLRequest
  /\ UNCHANGED <<blocklists, ready, editingList, editingItemValue, listForm, lnet, late>>

\* removeRow: every row with that text.
RemoveList(i, s) ==
  /\ MayChange /\ ~listForm
  /\ listed' = Kept(listed, {j \in 1..Len(listed) : listed[j] # listed[i]})
  /\ SaveLists(listed', FALSE, s)
  /\ UNCHANGED <<blocklists, ready, editingList, editingItemValue, listForm>>

-----------------------------------------------------------------------------
(* The dialog of Insert.                                                   *)

\* addRow: editingItemValue is left as it is.
OpenListForm ==
  /\ MayChange /\ ~listForm
  /\ listForm' = TRUE
  /\ UNCHANGED <<blocklists, listed, ready, editingList, editingItemValue, lnet, late>>

CloseListForm ==
  /\ listForm
  /\ listForm' = FALSE /\ editingItemValue' = Null
  /\ UNCHANGED <<blocklists, listed, ready, editingList, lnet, late>>

\* addSaveRow up to its await.
AddList(s) ==
  /\ listForm /\ editingItemValue # Null /\ Len(listed) < MaxLists
  /\ listed' = Append(listed, editingItemValue)
  /\ SaveLists(listed', TRUE, s)
  /\ UNCHANGED <<blocklists, ready, editingList, editingItemValue, listForm>>

\* The answer to a save: reported; addSaveRow goes on, whatever is being edited by now.
ListsSaved(s) ==
  /\ lnet[s].phase = "saved"
  /\ lnet' = [lnet EXCEPT ![s] = NoLRequest]
  /\ IF lnet[s].add
     THEN editingItemValue' = Null /\ listForm' = FALSE
     ELSE UNCHANGED <<editingItemValue, listForm>>
  /\ UNCHANGED <<blocklists, listed, ready, editingList, late>>

\* A lost save is reported and the rows stay as they are; a lost load is forgotten.
ListsFail(s) ==
  /\ lnet[s].phase # "idle"
  /\ lnet' = [lnet EXCEPT ![s] = NoLRequest]
  /\ IF lnet[s].add THEN editingItemValue' = Null /\ listForm' = FALSE
     ELSE UNCHANGED <<editingItemValue, listForm>>
  /\ late' = TRUE
  /\ UNCHANGED <<blocklists, listed, ready, editingList>>

\* onMount; a page that did not load is opened again.
OpenLists(s) ==
  /\ ~ready /\ LQuiet
  /\ lnet' = [lnet EXCEPT ![s].phase = "get"]
  /\ UNCHANGED <<blocklists, listed, ready, editingList, editingItemValue, listForm, late>>

\* Its answer.
ListsLoaded(s) ==
  /\ lnet[s].phase = "got"
  /\ listed' = lnet[s].urls /\ ready' = TRUE
  /\ lnet' = [lnet EXCEPT ![s] = NoLRequest]
  /\ UNCHANGED <<blocklists, editingList, editingItemValue, listForm, late>>

-----------------------------------------------------------------------------
\* GSApiSettingsGET, GSApiSettingsPOST.
GetLists(s) ==
  /\ lnet[s].phase = "get"
  /\ lnet' = [lnet EXCEPT ![s].phase = "got", ![s].urls = blocklists]
  /\ UNCHANGED <<blocklists, listed, ready, editingList, editingItemValue, listForm, late>>

PostLists(s) ==
  /\ lnet[s].phase = "post"
  /\ blocklists' = lnet[s].urls
  /\ lnet' = [lnet EXCEPT ![s].phase = "saved", ![s].urls = <<>>]
  /\ UNCHANGED <<listed, ready, editingList, editingItemValue, listForm, late>>

ListNext ==
  \/ \E s \in Slots :
       \/ OpenLists(s) \/ AddList(s) \/ ListsSaved(s) \/ ListsFail(s) \/ ListsLoaded(s) \/ GetLists(s) \/ PostLists(s)
       \/ \E i \in 1..Len(listed) : SaveList(i, s) \/ RemoveList(i, s)
  \/ \E i \in 1..Len(listed) : EditList(i)
  \/ TypeList \/ OpenListForm \/ CloseListForm

ListSpec == ListInit /\ [][ListNext]_listVars

-----------------------------------------------------------------------------
(* Properties.                                                             *)

\* The page never loads again, so its rows must stay the stored lists by themselves:
\* they are when no request is out, unless a save was lost or overlapped another.
ListsShown == ready /\ LQuiet /\ ~late => listed = blocklists
=============================================================================

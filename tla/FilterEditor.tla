---------------------------- MODULE FilterEditor ----------------------------
(***************************************************************************)
(* The editor of a filter's rows (filtereditor.svelte; content and score   *)
(* of a row are one item here).  Rows carry an id by which they are edited *)
(* and removed; a save posts all rows (handler_filters.go).  The server's  *)
(* reply has a key "response" where the editor reads "Response", so the    *)
(* success branch, which would load the list again, is never taken.        *)
(***************************************************************************)
EXTENDS Naturals, Sequences, Console

CONSTANTS OldItems,  \* rows the list has at first, a sequence
          NewItem,   \* what Insert puts in
          Edited,    \* what the user types
          MaxRows    \* bound: Insert is used only below it

VARIABLES
  list,          \* the filter's stored entries
  data,          \* the editor's rows
  loaded,        \* "closed", "loading" once opened, "yes" once filled
  editingRowId,  \* 0 for null
  fnet,          \* requests in flight
  touched,       \* history: old items of the rows the user edited or removed
  awry           \* history: what the user did that the editor is not made for

filterVars == <<list, data, loaded, editingRowId, fnet, touched, awry>>

Olds == {OldItems[i] : i \in 1..Len(OldItems)}

ASSUME FilterAssumption == OldItems \in Seq(Olds) /\ MaxRows \in Nat

Items == Olds \cup {NewItem, Edited}
Lists == Seq(Items)
NoFRequest == [phase |-> "idle", rows |-> <<>>]
Awry == {"early", "race", "twin"}

FilterTypeOK ==
  /\ list \in Lists
  /\ data \in Seq([id : Nat, item : Items])
  /\ loaded \in {"closed", "loading", "yes"}
  /\ editingRowId \in Nat
  /\ fnet \in [Slots -> [phase : {"idle", "get", "got", "post"}, rows : Lists]]
  /\ touched \subseteq Olds
  /\ awry \subseteq Awry

FilterInit ==
  /\ list = OldItems
  /\ data = <<>> /\ loaded = "closed" /\ editingRowId = 0
  /\ fnet = [s \in Slots |-> NoFRequest]
  /\ touched = {} /\ awry = {}

Payload(d) == [i \in 1..Len(d) |-> d[i].item]
MayAct == awry \subseteq {"twin"} \/ Beyond = "yes"
Posting == \E s \in Slots : fnet[s].phase = "post"

-----------------------------------------------------------------------------
\* Mutation: the row being edited is left out of the payload.
SaveDataUnedited(d, more, s) ==
  /\ fnet[s] = NoFRequest
  /\ fnet' = [fnet EXCEPT ![s] =
       [phase |-> "post", rows |-> Payload(Kept(d, {j \in 1..Len(d) : d[j].id # editingRowId}))]]
  /\ awry' = awry \cup more \cup (IF loaded = "yes" THEN {} ELSE {"early"})
                            \cup (IF Posting THEN {"race"} ELSE {})

\* saveData.
SaveData(d, more, s) ==
  /\ fnet[s] = NoFRequest
  /\ fnet' = [fnet EXCEPT ![s] = [phase |-> "post", rows |-> Payload(d)]]
  /\ awry' = awry \cup more \cup (IF loaded = "yes" THEN {} ELSE {"early"})
                            \cup (IF Posting THEN {"race"} ELSE {})

\* editRow: a second press on the same row's button saves.
EditRow(id, d, more, s) ==
  IF editingRowId = id
  THEN editingRowId' = 0 /\ SaveData(d, more, s)
  ELSE editingRowId' = id /\ awry' = awry \cup more /\ UNCHANGED fnet

PressEdit(i, s) ==
  /\ EditRow(data[i].id, data, {}, s)
  /\ UNCHANGED <<list, data, loaded, touched>>

\* handleContentChange, handleScoreChange: every row with that id.
ContentChange(id) ==
  data' = [j \in 1..Len(data) |->
             IF data[j].id = id THEN [data[j] EXCEPT !.item = Edited] ELSE data[j]]

\* The row being edited has inputs in its cells.
TypeItem(i) ==
  /\ data[i].id = editingRowId
  /\ ContentChange(data[i].id)
  /\ touched' = touched \cup ({data[i].item} \cap Olds)
  /\ UNCHANGED <<list, loaded, editingRowId, fnet, awry>>

\* Mutation: counts rows as the table does, newest first.
RemoveRowByPlace(i, s) ==
  LET d == Kept(data, {j \in 1..Len(data) : data[j].id # data[Len(data) + 1 - i].id})
  IN  /\ data' = d
      /\ touched' = touched \cup ({data[i].item} \cap Olds)
      /\ SaveData(d, {}, s)
      /\ UNCHANGED <<list, loaded, editingRowId>>

\* removeRow: every row with that id.
RemoveRow(i, s) ==
  LET d == Kept(data, {j \in 1..Len(data) : data[j].id # data[i].id})
  IN  /\ data' = d
      /\ touched' = touched \cup ({data[i].item} \cap Olds)
      /\ SaveData(d, {}, s)
      /\ UNCHANGED <<list, loaded, editingRowId>>

\* addRow: the new id may be in use, and may be the one being edited.
AddRow(s) ==
  LET id == Len(data) + 1
      d  == Append(data, [id |-> id, item |-> NewItem])
  IN  /\ loaded # "closed" /\ Len(data) < MaxRows
      /\ data' = d
      /\ EditRow(id, d, IF \E i \in 1..Len(data) : data[i].id = id THEN {"twin"} ELSE {}, s)
      /\ UNCHANGED <<list, loaded, touched>>

\* The answer to loadAPIdata.
FilterLoaded(s) ==
  /\ fnet[s].phase = "got"
  /\ data' = [i \in 1..Len(fnet[s].rows) |-> [id |-> i, item |-> fnet[s].rows[i]]]
  /\ loaded' = "yes"
  /\ awry' = awry \cup (IF editingRowId = 0 THEN {} ELSE {"early"})
  /\ fnet' = [fnet EXCEPT ![s] = NoFRequest]
  /\ UNCHANGED <<list, editingRowId, touched>>

\* The page is opened, or left and opened again: loadAPIdata.
OpenEditor(s) ==
  /\ fnet[s].phase \in {"idle", "get", "got"}
  /\ data' = <<>> /\ loaded' = "loading" /\ editingRowId' = 0
  /\ fnet' = [t \in Slots |-> IF t = s THEN [phase |-> "get", rows |-> <<>>]
                              ELSE IF fnet[t].phase = "post" THEN fnet[t] ELSE NoFRequest]
  /\ awry' = awry \cup (IF Posting THEN {"race"} ELSE {})
  /\ UNCHANGED <<list, touched>>

FilterFails(s) ==
  /\ fnet[s].phase # "idle"
  /\ fnet' = [fnet EXCEPT ![s] = NoFRequest]
  /\ awry' = awry \cup (IF fnet[s].phase = "post" THEN {"race"} ELSE {})
  /\ UNCHANGED <<list, data, loaded, editingRowId, touched>>

-----------------------------------------------------------------------------
\* GetSingleFilter.
GetFilter(s) ==
  /\ fnet[s].phase = "get"
  /\ fnet' = [fnet EXCEPT ![s] = [phase |-> "got", rows |-> list]]
  /\ UNCHANGED <<list, data, loaded, editingRowId, touched, awry>>

\* PostSingleFilter, the file it writes and the reload that reads it back; the
\* editor ignores the reply.
PostFilter(s) ==
  /\ fnet[s].phase = "post"
  /\ list' = fnet[s].rows
  /\ fnet' = [fnet EXCEPT ![s] = NoFRequest]
  /\ UNCHANGED <<data, loaded, editingRowId, touched, awry>>

FilterNext ==
  \/ \E s \in Slots :
       \/ MayAct /\ \E i \in 1..Len(data) : PressEdit(i, s) \/ RemoveRow(i, s)
       \/ MayAct /\ (AddRow(s) \/ OpenEditor(s))
       \/ FilterLoaded(s) \/ FilterFails(s)
       \/ GetFilter(s) \/ PostFilter(s)
  \/ MayAct /\ \E i \in 1..Len(data) : TypeItem(i)

FilterSpec == FilterInit /\ [][FilterNext]_filterVars

-----------------------------------------------------------------------------
(* Properties.                                                             *)

\* The editor never loads what it saved, so its rows must be the list by themselves:
\* with no row open for editing and no save under way, the stored list is what is
\* shown, unless saves overlapped or failed or the user acted before the first load.
SavedIsShown ==
  loaded = "yes" /\ editingRowId = 0 /\ ~Posting /\ awry \subseteq {"twin"} => list = Payload(data)

\* A row nobody edited or removed stays in the list, whatever is done to the others,
\* unless the user did not wait or Insert reused a row's id after a removal.
OthersKept ==
  awry = {} => \A i \in 1..Len(OldItems) :
                 OldItems[i] \in touched \/ \E j \in 1..Len(list) : list[j] = OldItems[i]
=============================================================================

----------------------------- MODULE DnsRecords -----------------------------
(***************************************************************************)
(* The table of custom A records on the DNS page (dnsArecords.svelte) and  *)
(* the API behind it (handler_dns.go).  A record is a domain with an       *)
(* address, "old" or typed by the user, "new".  Insert and Edit share one  *)
(* form; every save posts the whole table, which is then loaded again.     *)
(***************************************************************************)
EXTENDS Naturals, Sequences, Console

CONSTANTS OldDomains,  \* domains recorded at first, a sequence
          Domains,     \* domains the user types
          MaxRecords   \* bound: Insert saves only below it

VARIABLES
  records,     \* the setting DNS_custom_entries
  mounted,     \* is the page open?
  drows,       \* the component's data
  editing,     \* editingRowId, 0 for null
  text,        \* domainText and ipText
  showForm,
  dnet,        \* requests in flight
  dlate,       \* a save the page has given up and the server has not, or Null (a bound)
  dmishap      \* history: a load was lost, the user did not wait for an answer, or a save
               \* was given up and stored when nothing was going to load it

recordVars == <<records, mounted, drows, editing, text, showForm, dnet, dlate, dmishap>>

Old == {OldDomains[i] : i \in 1..Len(OldDomains)}

ASSUME RecordAssumption == OldDomains \in Seq(Old) /\ MaxRecords \in Nat

Recs == [dom : Old \cup Domains, addr : {"old", "new"}]
DPhases == {"idle", "get", "got", "post", "saved", "refused"}
NoDRequest == [phase |-> "idle", rows |-> <<>>]
DLoad == [phase |-> "get", rows |-> <<>>]

RecordTypeOK ==
  /\ records \in Seq(Recs) /\ mounted \in BOOLEAN
  /\ drows \in Seq([id : Nat, rec : Recs])
  /\ editing \in Nat
  /\ text \in Recs \cup {Null}
  /\ showForm \in BOOLEAN
  /\ dnet \in [Slots -> [phase : DPhases, rows : Seq(Recs)]]
  /\ dlate \in Seq(Recs) \cup {Null}
  /\ dmishap \in BOOLEAN

RecordInit ==
  /\ records = [i \in 1..Len(OldDomains) |-> [dom |-> OldDomains[i], addr |-> "old"]]
  /\ mounted = FALSE /\ drows = <<>> /\ editing = 0 /\ text = Null /\ showForm = FALSE
  /\ dnet = [s \in Slots |-> NoDRequest]
  /\ dlate = Null /\ dmishap = FALSE

Unique(r) == \A i, j \in 1..Len(r) : i # j => r[i].dom # r[j].dom
Table(d) == [i \in 1..Len(d) |-> d[i].rec]
DQuiet == \A s \in Slots : dnet[s] = NoDRequest
MayEdit == mounted /\ (~dmishap \/ Beyond = "yes")

-----------------------------------------------------------------------------
(* The form.                                                               *)

\* onMount.
MountRecords(s) ==
  /\ ~mounted /\ mounted' = TRUE
  /\ dnet' = [dnet EXCEPT ![s] = DLoad]
  /\ UNCHANGED <<records, drows, editing, text, showForm, dlate, dmishap>>

\* After an Edit that was closed unsaved, editingRowId still names its row.
PressInsert ==
  /\ MayEdit /\ ~showForm
  /\ showForm' = TRUE
  /\ UNCHANGED <<records, mounted, drows, editing, text, dnet, dlate, dmishap>>

EditRecord(r) == editing' = r.id /\ text' = r.rec /\ showForm' = TRUE

\* The button of the row being edited is disabled.
PressEditRecord(i) ==
  /\ MayEdit /\ ~showForm /\ drows[i].id # editing
  /\ EditRecord(drows[i])
  /\ UNCHANGED <<records, mounted, drows, dnet, dlate, dmishap>>

TypeRecord(d) ==
  /\ showForm
  /\ text' = [dom |-> d, addr |-> "new"]
  /\ UNCHANGED <<records, mounted, drows, editing, showForm, dnet, dlate, dmishap>>

\* on:close leaves editingRowId as it is.
CloseForm ==
  /\ showForm
  /\ showForm' = FALSE /\ text' = Null
  /\ UNCHANGED <<records, mounted, drows, editing, dnet, dlate, dmishap>>

-----------------------------------------------------------------------------
(* Saving and loading.                                                     *)

\* saveAPIData.
SaveRecords(d, s) ==
  /\ dnet[s] = NoDRequest
  /\ dnet' = [dnet EXCEPT ![s] = [phase |-> "post", rows |-> Table(d)]]
  /\ dmishap' = (dmishap \/ ~DQuiet)

\* addSaveRow: the row at the place editingRowId names (beyond the table it throws),
\* or a new one.
SubmitRecord(s) ==
  /\ showForm /\ text # Null
  /\ IF editing # 0
     THEN /\ editing <= Len(drows)
          /\ drows' = [drows EXCEPT ![editing].rec = text]
          /\ editing' = 0
          /\ SaveRecords(drows', s)
     ELSE /\ Len(drows) < MaxRecords
          /\ drows' = Append(drows, [id |-> Len(drows) + 1, rec |-> text])
          /\ SaveRecords(drows', s)
          /\ UNCHANGED editing
  /\ UNCHANGED <<records, mounted, text, showForm, dlate>>

\* deleteRow.
DeleteRecord(i, s) ==
  /\ MayEdit /\ ~showForm
  /\ drows' = Kept(drows, {j \in 1..Len(drows) : drows[j].id # drows[i].id})
  /\ SaveRecords(drows', s)
  /\ UNCHANGED <<records, mounted, editing, text, showForm, dlate>>

\* Mutation: a refused save is only reported.
RecordsSavedOnce(s) ==
  /\ dnet[s].phase \in {"saved", "refused"}
  /\ IF dnet[s].phase = "saved"
     THEN drows' = <<>> /\ text' = Null /\ showForm' = FALSE /\ dnet' = [dnet EXCEPT ![s] = DLoad]
     ELSE dnet' = [dnet EXCEPT ![s] = NoDRequest] /\ UNCHANGED <<drows, text, showForm>>
  /\ UNCHANGED <<records, mounted, editing, dlate, dmishap>>

\* The answer to a save, or the error that stands for it: loadAPIData empties the
\* table first; success also closes the form.
RecordsSaved(s) ==
  /\ dnet[s].phase \in {"saved", "refused"}
  /\ drows' = <<>>
  /\ dnet' = [dnet EXCEPT ![s] = DLoad]
  /\ IF dnet[s].phase = "saved" THEN text' = Null /\ showForm' = FALSE
     ELSE UNCHANGED <<text, showForm>>
  /\ UNCHANGED <<records, mounted, editing, dlate, dmishap>>

\* The save is lost, or its answer, or the server has yet to take it up (one that it
\* will refuse is as good as lost).
SaveFails(s) ==
  /\ dnet[s].phase \in {"post", "saved", "refused"}
  /\ drows' = <<>>
  /\ dnet' = [dnet EXCEPT ![s] = DLoad]
  /\ \/ UNCHANGED dlate
     \/ /\ dnet[s].phase = "post" /\ Unique(dnet[s].rows)
        /\ dlate = Null /\ dlate' = dnet[s].rows
  /\ UNCHANGED <<records, mounted, editing, text, showForm, dmishap>>

RecordsLoaded(s) ==
  /\ dnet[s].phase = "got"
  /\ drows' = [i \in 1..Len(dnet[s].rows) |-> [id |-> i, rec |-> dnet[s].rows[i]]]
  /\ dnet' = [dnet EXCEPT ![s] = NoDRequest]
  /\ UNCHANGED <<records, mounted, editing, text, showForm, dlate, dmishap>>

\* The table stays empty.
LoadFails(s) ==
  /\ dnet[s].phase \in {"get", "got"}
  /\ dnet' = [dnet EXCEPT ![s] = NoDRequest]
  /\ dmishap' = TRUE
  /\ UNCHANGED <<records, mounted, drows, editing, text, showForm, dlate>>

-----------------------------------------------------------------------------
(* The server.                                                             *)

\* GSApiDNSEntriesCustom.
GetRecords(s) ==
  /\ dnet[s].phase = "get"
  /\ dnet' = [dnet EXCEPT ![s] = [phase |-> "got", rows |-> records]]
  /\ UNCHANGED <<records, mounted, drows, editing, text, showForm, dlate, dmishap>>

\* GSApiDNSSaveEntriesCustom.
PostRecords(s) ==
  /\ dnet[s].phase = "post"
  /\ IF Unique(dnet[s].rows)
     THEN records' = dnet[s].rows /\ dnet' = [dnet EXCEPT ![s].phase = "saved"]
     ELSE dnet' = [dnet EXCEPT ![s].phase = "refused"] /\ UNCHANGED records
  /\ UNCHANGED <<mounted, drows, editing, text, showForm, dlate, dmishap>>

\* The same for a save that was given up: nobody hears the answer.  A load that is yet
\* to be served, or that a save under way will lead to, shows what it stored.
PostLate ==
  /\ dlate # Null
  /\ dlate' = Null /\ records' = dlate
  /\ dmishap' = (dmishap \/ \A s \in Slots : dnet[s].phase \in {"idle", "got"})
  /\ UNCHANGED <<mounted, drows, editing, text, showForm, dnet>>

RecordNext ==
  \/ \E s \in Slots :
       \/ MountRecords(s) \/ SubmitRecord(s) \/ RecordsSaved(s) \/ SaveFails(s) \/ RecordsLoaded(s) \/ LoadFails(s)
       \/ GetRecords(s) \/ PostRecords(s)
       \/ \E i \in 1..Len(drows) : DeleteRecord(i, s)
  \/ \E i \in 1..Len(drows) : PressEditRecord(i)
  \/ \E d \in Domains : TypeRecord(d)
  \/ PressInsert \/ CloseForm \/ PostLate

RecordSpec == RecordInit /\ [][RecordNext]_recordVars

-----------------------------------------------------------------------------
(* Properties.                                                             *)

\* When every answer is in, saves that failed or were refused included, the table is
\* the stored one, unless a load was lost (the table then stays empty), the user saved
\* while an answer was out, or a save that the page had given up was stored after all
\* and after its load.
TableIsStored == mounted /\ DQuiet /\ ~dmishap => Table(drows) = records
=============================================================================

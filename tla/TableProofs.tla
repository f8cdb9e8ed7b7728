---------------------------- MODULE TableProofs ----------------------------
(***************************************************************************)
(* Proofs about the tables of the console, for any number of rows, users   *)
(* and requests in flight.                                                 *)
(***************************************************************************)
EXTENDS FilterEditor, DnsRecords, DnsLists, UserAdmin, FiniteSetTheorems, TLAPS

-----------------------------------------------------------------------------
(* Array.prototype.filter.                                                 *)

\* The places that are kept are numbered from 1 without a gap.
LEMMA Ranks ==
  ASSUME NEW n \in Nat, NEW K \in SUBSET (1..n)
  PROVE  LET rank(i) == Cardinality({j \in K : j <= i}) IN
         /\ Cardinality(K) \in Nat
         /\ \A i \in K : rank(i) \in 1..Cardinality(K)
         /\ \A i, j \in K : rank(i) = rank(j) => i = j
         /\ \A k \in 1..Cardinality(K) : \E i \in K : rank(i) = k
<1> DEFINE U(i) == {j \in K : j <= i}
           rank(i) == Cardinality(U(i))
           m == Cardinality(K)
<1>1. IsFiniteSet(K)
  <2>1. IsFiniteSet(1..n) BY FS_Interval
  <2> QED BY <2>1, FS_Subset
<1>2. m \in Nat BY <1>1, FS_CardinalityType
<1>3. ASSUME NEW i \in K PROVE IsFiniteSet(U(i)) /\ rank(i) \in 1..m /\ i \in U(i) /\ i \in Nat
  <2>1. U(i) \in SUBSET K /\ i \in U(i) /\ i \in Nat OBVIOUS
  <2> HIDE DEF U
  <2>2. IsFiniteSet(U(i)) /\ rank(i) <= m BY <1>1, <2>1, FS_Subset
  <2>3. rank(i) \in Nat BY <2>2, FS_CardinalityType
  <2>4. rank(i) # 0 BY <2>1, <2>2, FS_EmptySet
  <2> QED BY <1>2, <2>1, <2>2, <2>3, <2>4
<1>4. ASSUME NEW i \in K, NEW j \in K, i < j PROVE rank(i) # rank(j)
  <2>1. U(i) \in SUBSET U(j) /\ U(i) # U(j)
    <3>1. i \in Nat /\ j \in Nat OBVIOUS
    <3>2. j \in U(j) /\ j \notin U(i) BY <1>4, <3>1
    <3>3. \A x \in K : x \in Nat OBVIOUS
    <3>4. \A x \in K : x <= i => x <= j BY <1>4, <3>1, <3>3
    <3>5. U(i) \in SUBSET U(j) BY <3>4
    <3> HIDE DEF U
    <3> QED BY <3>2, <3>5
  <2> HIDE DEF U
  <2> QED BY <1>3, <2>1, FS_Subset
<1>5. \A i, j \in K : rank(i) = rank(j) => i = j
  <2> HIDE DEF rank
  <2> QED BY <1>4
<1> DEFINE f == [i \in K |-> rank(i)]
<1>6. f \in Injection(K, 1..m)
  <2> HIDE DEF rank, m
  <2> QED BY <1>3, <1>5 DEF Injection, IsInjective
<1>7. IsFiniteSet(1..m) /\ Cardinality(1..m) = m
  <2> HIDE DEF m
  <2> QED BY <1>2, FS_Interval
<1>8. f \in Surjection(K, 1..m)
  <2> HIDE DEF f
  <2> QED BY <1>6, <1>7, FS_Injection
<1>9. \A k \in 1..m : \E i \in K : rank(i) = k
  <2> HIDE DEF rank, m
  <2> QED BY <1>8 DEF Surjection
<1> QED BY <1>2, <1>3, <1>5, <1>9

\* Filtering keeps the entries at the places given, and no others.
LEMMA KeptEntries ==
  ASSUME NEW S, NEW d \in Seq(S), NEW K \in SUBSET (1..Len(d))
  PROVE  /\ Kept(d, K) \in Seq(S)
         /\ \A i \in K : \E k \in 1..Len(Kept(d, K)) : Kept(d, K)[k] = d[i]
         /\ \A k \in 1..Len(Kept(d, K)) : \E i \in K : Kept(d, K)[k] = d[i]
         /\ \A k, l \in 1..Len(Kept(d, K)) :
              k # l => \E i, j \in K : i # j /\ Kept(d, K)[k] = d[i] /\ Kept(d, K)[l] = d[j]
<1> DEFINE rank(i) == Cardinality({j \in K : j <= i})
           m == Cardinality(K)
           at(k) == CHOOSE i \in K : rank(i) = k
           e == [k \in 1..m |-> d[at(k)]]
<1>1. /\ m \in Nat /\ \A i \in K : rank(i) \in 1..m
      /\ \A i, j \in K : rank(i) = rank(j) => i = j
      /\ \A k \in 1..m : \E i \in K : rank(i) = k
  <2>1. Len(d) \in Nat OBVIOUS
  <2> QED BY <2>1, Ranks
<1>2. Kept(d, K) = e BY DEF Kept
<1> HIDE DEF rank, m
<1>3. \A k \in 1..m : at(k) \in K /\ rank(at(k)) = k BY <1>1
<1> HIDE DEF at
<1>4. \A k \in 1..m : d[at(k)] \in S
  <2>1. \A i \in K : i \in 1..Len(d) /\ d[i] \in S OBVIOUS
  <2> QED BY <1>3, <2>1
<1>5. e \in Seq(S) /\ Len(e) = m BY <1>1, <1>4
<1>6. \A k \in 1..m : e[k] = d[at(k)] OBVIOUS
<1> HIDE DEF e
<1>7. ASSUME NEW i \in K PROVE \E k \in 1..m : e[k] = d[i]
  <2>1. rank(i) \in 1..m /\ at(rank(i)) = i BY <1>1, <1>3
  <2> QED BY <1>6, <2>1
<1>8. \A k, l \in 1..m : k # l => \E i, j \in K : i # j /\ e[k] = d[i] /\ e[l] = d[j]
  <2>1. \A k, l \in 1..m : k # l => at(k) # at(l) BY <1>3
  <2> QED BY <1>3, <1>6, <2>1
<1>9. \A k \in 1..m : \E i \in K : e[k] = d[i] BY <1>3, <1>6
<1> QED BY <1>2, <1>5, <1>7, <1>8, <1>9

-----------------------------------------------------------------------------
(* Users: types.                                                           *)

URequests == [phase : UPhases, kind : Kinds, name : Names, allow : BOOLEAN,
              list : Accounts, ok : BOOLEAN]
UserData == [allow : BOOLEAN, used : 0..MaxUsed]

\* What it is to be a list of accounts.
LEMMA AccountsMembers ==
  /\ \A a \in Accounts : DOMAIN a \subseteq Names /\ a \in [DOMAIN a -> UserData]
  /\ \A N \in SUBSET Names : \A a \in [N -> UserData] : a \in Accounts
BY DEF Accounts, UserData

LEMMA UConstants ==
  /\ NoAccounts \in Accounts /\ DOMAIN NoAccounts = {}
  /\ Defaults \in Accounts
  /\ NoURequest \in URequests /\ NoURequest.phase = "idle"
<1>1. 0 \in 0..MaxUsed BY UserAssumption
<1>2. NoAccounts \in [{} -> UserData] /\ DOMAIN NoAccounts = {} BY DEF NoAccounts
<1>3. Defaults \in [{Guest} -> UserData] BY <1>1 DEF Defaults, UserData
<1>4. NoAccounts \in Accounts /\ Defaults \in Accounts
  BY <1>2, <1>3, AccountsMembers, UserAssumption
<1>5. NoURequest \in URequests /\ NoURequest.phase = "idle"
  <2> HIDE DEF NoAccounts
  <2> QED BY <1>4, UserAssumption DEF NoURequest, URequests, UPhases, Kinds
<1> QED BY <1>2, <1>4, <1>5

\* The parts of a request that a handler sets.
LEMMA WithPhase ==
  ASSUME NEW q \in URequests, NEW p \in UPhases
  PROVE  LET r == [q EXCEPT !.phase = p] IN
         /\ r \in URequests /\ r.phase = p /\ r.kind = q.kind /\ r.ok = q.ok /\ r.list = q.list
BY DEF URequests

LEMMA WithList ==
  ASSUME NEW q \in URequests, NEW a \in Accounts
  PROVE  LET r == [q EXCEPT !.list = a] IN
         /\ r \in URequests /\ r.phase = q.phase /\ r.kind = q.kind /\ r.ok = q.ok /\ r.list = a
BY DEF URequests

LEMMA WithOk ==
  ASSUME NEW q \in URequests, NEW b \in BOOLEAN
  PROVE  LET r == [q EXCEPT !.ok = b] IN
         /\ r \in URequests /\ r.phase = q.phase /\ r.kind = q.kind /\ r.ok = b /\ r.list = q.list
BY DEF URequests

LEMMA HandledRequest ==
  ASSUME NEW q \in URequests
  PROVE  /\ Handled(q) \in URequests /\ Handled(q).phase = q.phase
         /\ Handled(q).kind = q.kind /\ Handled(q).ok = q.ok
<1> DEFINE q1 == [q EXCEPT !.name = Guest]
           q2 == [q1 EXCEPT !.allow = FALSE]
<1>1. q1 \in URequests /\ q1.phase = q.phase /\ q1.kind = q.kind /\ q1.ok = q.ok
  BY UserAssumption DEF URequests
<1>2. q2 \in URequests /\ q2.phase = q1.phase /\ q2.kind = q1.kind /\ q2.ok = q1.ok
  <2> HIDE DEF q1
  <2> QED BY <1>1 DEF URequests
<1>3. Handled(q) = [q2 EXCEPT !.list = NoAccounts] BY DEF Handled
<1> HIDE DEF q2
<1>4. [q2 EXCEPT !.list = NoAccounts] \in URequests BY <1>2, WithList, UConstants
<1> QED BY <1>1, <1>2, <1>3, WithList, UConstants

\* GSApiUserCreate, GSApiUserPUT and GSApiUserDELETE make a list of accounts.
LEMMA ChangeType ==
  ASSUME NEW q \in URequests, NEW a \in Accounts PROVE Change(q, a) \in Accounts
<1>1. q.name \in Names /\ q.allow \in BOOLEAN BY DEF URequests
<1>2. DOMAIN a \subseteq Names /\ a \in [DOMAIN a -> UserData] BY AccountsMembers
<1>3. \A n \in DOMAIN a : [a[n] EXCEPT !.allow = q.allow] \in UserData BY <1>1, <1>2 DEF UserData
<1>4. [allow |-> q.allow, used |-> 0] \in UserData BY <1>1, UserAssumption DEF UserData
<1>5. CASE q.kind = "create"
  <2>1. Change(q, a) \in [DOMAIN a \cup {q.name} -> UserData] BY <1>2, <1>4, <1>5 DEF Change
  <2> QED BY <1>1, <1>2, <2>1, AccountsMembers
<1>6. CASE q.kind = "delete"
  <2>1. Change(q, a) \in [DOMAIN a \ {q.name} -> UserData] BY <1>2, <1>6 DEF Change
  <2> QED BY <1>2, <2>1, AccountsMembers
<1>7. CASE q.kind \notin {"create", "delete"}
  <2>1. Change(q, a) \in [DOMAIN a -> UserData] BY <1>2, <1>3, <1>7 DEF Change
  <2> QED BY <1>2, <2>1, AccountsMembers
<1> QED BY <1>5, <1>6, <1>7
-----------------------------------------------------------------------------
(* Users: the invariant.                                                   *)

UBusy(s) == unet[s].phase \in {"read", "reset", "opened", "swapped"}
Calm == "server" \notin overlap

\* A handler keeps ok until it refuses.
OkUntilRefused == \A s \in Slots : unet[s].phase \in {"sent", "read"} => unet[s].ok

\* Handlers, the saver and crashes did not meet: one at most is at work.
UAlone ==
  Calm => /\ \A s, t \in Slots : UBusy(s) /\ UBusy(t) => s = t
          /\ saver # Null => \A s \in Slots : ~UBusy(s)

\* Which copies agree while Runtime.Init goes from one to the next.
UCopies ==
  Calm => /\ Grants(file) = Grants(webStore)
          /\ (\A s \in Slots : unet[s].phase \notin {"reset", "opened"})
                => Grants(runStore) = Grants(webStore)
          /\ (\A s \in Slots : unet[s].phase \notin {"reset", "opened", "swapped"})
                => Grants(AuthUsers) = Grants(webStore)
          /\ saver # Null => Grants(saver) = Grants(webStore)
          /\ \A s \in Slots : /\ unet[s].phase = "opened" => unet[s].list = file
                              /\ unet[s].phase = "swapped" => runStore = file

Below(a, b) == \A n \in DOMAIN a \cap DOMAIN b : b[n].used >= a[n].used

\* The counts run ahead of the saver's list, which runs ahead of the file.
UCounts ==
  Calm => /\ Below(file, AuthUsers)
          /\ saver # Null => Below(file, saver) /\ Below(saver, AuthUsers)

\* While the user waits for every answer there is one request, and the table is the web
\* server's list or about to be loaded again.
UPage ==
  overlap = {} =>
    /\ \A s, t \in Slots : unet[s] # NoURequest /\ unet[t] # NoURequest => s = t
    /\ \A s \in Slots : unet[s].phase = "got" => Grants(unet[s].list) = Grants(webStore)
    /\ \/ users = Null \/ users = Grants(webStore)
       \/ \E s \in Slots : /\ unet[s].phase \in {"reset", "opened", "swapped", "done"}
                           /\ unet[s].ok /\ unet[s].kind # "setting"

UInv == UserTypeOK /\ OkUntilRefused /\ UAlone /\ UCopies /\ UCounts /\ UPage
\* A step that changes one request.
SlotStep(s, r) ==
  /\ r \in URequests /\ unet[s] \in URequests /\ unet' \in [Slots -> URequests]
  /\ unet'[s] = r /\ \A t \in Slots \ {s} : unet'[t] = unet[t]

LEMMA OneSlot ==
  ASSUME UserTypeOK, NEW s \in Slots, NEW r \in URequests, unet' = [unet EXCEPT ![s] = r]
  PROVE  SlotStep(s, r)
<1>1. unet \in [Slots -> URequests] BY DEF UserTypeOK, URequests
<1> QED BY <1>1 DEF SlotStep

\* A handler goes on to the next phase, with a list.
GoesOn(q, p, a) == [[q EXCEPT !.phase = p] EXCEPT !.list = a]

LEMMA NextPhase ==
  ASSUME NEW q \in URequests, NEW p \in UPhases, NEW a \in Accounts
  PROVE  LET r == GoesOn(q, p, a) IN
         r \in URequests /\ r.phase = p /\ r.list = a /\ r.kind = q.kind /\ r.ok = q.ok
<1> DEFINE q1 == [q EXCEPT !.phase = p]
<1>1. q1 \in URequests /\ q1.phase = p /\ q1.kind = q.kind /\ q1.ok = q.ok BY WithPhase
<1>2. GoesOn(q, p, a) = [q1 EXCEPT !.list = a] BY DEF GoesOn
<1> HIDE DEF q1
<1> QED BY <1>1, <1>2, WithList

\* Steps that leave the copies and the handlers at work alone.
LEMMA Untouched ==
  ASSUME UAlone, UCopies, UCounts, overlap \subseteq overlap',
         UNCHANGED <<webStore, runStore, file, AuthUsers, saver>>,
         \A t \in Slots : UBusy(t) \/ UBusy(t)' => unet'[t] = unet[t]
  PROVE  UAlone' /\ UCopies' /\ UCounts'
<1>0. Calm' => Calm BY DEF Calm
<1>1. UAlone' BY <1>0 DEF UAlone, UBusy
<1>2. UCopies'
  <2>1. \A t \in Slots : \A P \in SUBSET {"reset", "opened", "swapped"} :
          unet'[t].phase \in P <=> unet[t].phase \in P
    BY DEF UBusy
  <2>2. \A t \in Slots : /\ unet'[t].phase \notin {"reset", "opened"}
                            <=> unet[t].phase \notin {"reset", "opened"}
                         /\ unet'[t].phase \notin {"reset", "opened", "swapped"}
                              <=> unet[t].phase \notin {"reset", "opened", "swapped"}
    BY <2>1
  <2>3. \A t \in Slots : unet'[t].phase \in {"opened", "swapped"} => unet'[t] = unet[t]
    BY DEF UBusy
  <2> QED BY <1>0, <2>2, <2>3 DEF UCopies, Grants
<1>3. UCounts' BY <1>0 DEF UCounts, Below
<1> QED BY <1>1, <1>2, <1>3

LEMMA UInitially == ASSUME UserInit PROVE UInv
<1>1. UserTypeOK
  <2>1. {webStore, runStore, file, AuthUsers} \subseteq Accounts BY UConstants DEF UserInit
  <2>2. unet \in [Slots -> URequests] BY UConstants DEF UserInit
  <2>3. /\ saver = Null /\ users = Null /\ overlap = {} /\ dialog \in {"closed", "new"} \cup Names
        /\ same \in BOOLEAN
    BY DEF UserInit
  <2> QED BY <2>1, <2>2, <2>3 DEF UserTypeOK, URequests
<1>2. \A s \in Slots : unet[s].phase = "idle" BY UConstants DEF UserInit
<1>3. OkUntilRefused /\ UAlone BY <1>2 DEF UserInit, OkUntilRefused, UAlone, UBusy
<1>4. UCopies BY <1>2 DEF UserInit, UCopies
<1>5. UCounts
  <2>1. Below(Defaults, Defaults) BY DEF Below, Defaults
  <2> QED BY <2>1 DEF UserInit, UCounts
<1>6. UPage BY <1>2 DEF UserInit, UPage
<1> QED BY <1>1, <1>3, <1>4, <1>5, <1>6 DEF UInv

\* The page asks for something: a request where there was none.
LEMMA UAsks ==
  ASSUME UInv, NEW s \in Slots,
         \/ OpenUsers(s) \/ ChangeSetting(s)
         \/ \E n \in Names, allow \in BOOLEAN : SubmitUser(n, allow, s)
         \/ users # Null /\ \E n \in DOMAIN users : PressRow(n, s)
  PROVE  UInv'
<1> USE DEF UInv
<1>1. CASE OpenUsers(s)
  <2> DEFINE r == LoadUsers
  <2>1. r \in URequests /\ r.phase = "get" BY UConstants DEF LoadUsers, URequests, UPhases
  <2>2. SlotStep(s, r)
    <3> HIDE DEF r
    <3>1. unet' = [unet EXCEPT ![s] = r] BY <1>1 DEF OpenUsers, r
    <3> QED BY <2>1, <3>1, OneSlot
  <2> HIDE DEF r
  <2>3. /\ UNCHANGED <<webStore, runStore, same, file, AuthUsers, saver, users, dialog, overlap>>
        /\ users = Null /\ UQuiet
    BY <1>1 DEF OpenUsers
  <2>4. unet[s].phase = "idle" BY <2>3, UConstants DEF UQuiet
  <2>5. UserTypeOK' BY <2>2, <2>3 DEF UserTypeOK, SlotStep, URequests
  <2>6. OkUntilRefused' BY <2>1, <2>2 DEF SlotStep, OkUntilRefused
  <2>7. UAlone' /\ UCopies' /\ UCounts'
    BY <2>1, <2>2, <2>3, <2>4, Untouched DEF SlotStep, UBusy
  <2>8. UPage' BY <2>1, <2>2, <2>3, UConstants DEF SlotStep, UPage, UQuiet
  <2> QED BY <2>5, <2>6, <2>7, <2>8
<1>2. ASSUME NEW kind \in Kinds, NEW n \in Names, NEW allow \in BOOLEAN, Request(kind, n, allow, s)
      PROVE  UInv'
  <2> DEFINE r == [phase |-> "sent", kind |-> kind, name |-> n, allow |-> allow,
                   list |-> NoAccounts, ok |-> TRUE]
  <2>1. r \in URequests /\ r.phase = "sent" /\ r.ok BY UConstants DEF URequests, UPhases
  <2>2. SlotStep(s, r)
    <3>1. unet' = [unet EXCEPT ![s] = r] BY <1>2 DEF Request
    <3> QED BY <2>1, <3>1, OneSlot
  <2> HIDE DEF r
  <2>3. /\ UNCHANGED <<webStore, runStore, same, file, AuthUsers, saver, users, dialog>>
        /\ overlap' = overlap \cup (IF UQuiet THEN {} ELSE {"page"}) /\ unet[s] = NoURequest
    BY <1>2 DEF Request
  <2>4. unet[s].phase = "idle" BY <2>3, UConstants
  <2>5. UserTypeOK' BY <2>2, <2>3 DEF UserTypeOK, SlotStep, URequests
  <2>6. OkUntilRefused' BY <2>1, <2>2 DEF SlotStep, OkUntilRefused
  <2>7. UAlone' /\ UCopies' /\ UCounts'
    BY <2>1, <2>2, <2>3, <2>4, Untouched DEF SlotStep, UBusy
  <2>8. UPage'
    <3> SUFFICES ASSUME overlap' = {} PROVE UPage' BY DEF UPage
    <3>1. overlap = {} /\ UQuiet BY <2>3
    <3>2. \A t \in Slots : unet[t].phase = "idle" BY <3>1, UConstants DEF UQuiet
    <3>3. users = Null \/ users = Grants(webStore) BY <3>1, <3>2 DEF UPage
    <3>4. \A t \in Slots \ {s} : unet'[t] = NoURequest BY <2>2, <3>1 DEF SlotStep, UQuiet
    <3>5. \A t \in Slots : unet'[t].phase # "got" BY <2>1, <2>2, <3>2 DEF SlotStep
    <3> QED BY <2>3, <3>3, <3>4, <3>5 DEF UPage, Grants
  <2> QED BY <2>5, <2>6, <2>7, <2>8
<1>3. CASE ChangeSetting(s)
  BY <1>2, <1>3, UserAssumption DEF ChangeSetting, Kinds
<1>4. ASSUME NEW n \in Names, NEW allow \in BOOLEAN, SubmitUser(n, allow, s) PROVE UInv'
  BY <1>2, <1>4 DEF SubmitUser, Kinds
<1>5. ASSUME users # Null, NEW n \in DOMAIN users, PressRow(n, s) PROVE UInv'
  <2>1. PICK N \in SUBSET Names : users \in [N -> BOOLEAN] BY <1>5 DEF UserTypeOK
  <2>2. n \in Names BY <1>5, <2>1
  <2>3. (~users[n]) \in BOOLEAN OBVIOUS
  <2> QED BY <1>2, <1>5, <2>2, <2>3 DEF PressRow, Kinds
<1> QED BY <1>1, <1>3, <1>4, <1>5

\* Who has access is a function of names.
LEMMA GrantsType ==
  ASSUME NEW a \in Accounts PROVE Grants(a) \in UNION {[N -> BOOLEAN] : N \in SUBSET Names}
<1>1. DOMAIN a \in SUBSET Names /\ a \in [DOMAIN a -> UserData] BY AccountsMembers
<1>2. Grants(a) \in [DOMAIN a -> BOOLEAN] BY <1>1 DEF Grants, UserData
<1> QED BY <1>1, <1>2

\* GSApiUsersGET.
LEMMA UGets == ASSUME UInv, NEW s \in Slots, GetUsers(s) PROVE UInv'
<1> USE DEF UInv
<1>0. webStore \in Accounts /\ "got" \in UPhases /\ unet[s] \in URequests
  BY DEF UserTypeOK, UPhases, URequests
<1>1. /\ unet' = [unet EXCEPT ![s].phase = "got", ![s].list = webStore] /\ unet[s].phase = "get"
      /\ UNCHANGED <<webStore, runStore, same, file, AuthUsers, saver, users, dialog, overlap>>
  BY DEF GetUsers
<1> DEFINE r == GoesOn(unet[s], "got", webStore)
<1>2. /\ SlotStep(s, r) /\ r.phase = "got" /\ r.list = webStore
      /\ r.kind = unet[s].kind /\ r.ok = unet[s].ok
  <2>1. unet' = [unet EXCEPT ![s] = r] BY <1>1 DEF UserTypeOK, GoesOn
  <2>2. /\ r \in URequests /\ r.phase = "got" /\ r.list = webStore
        /\ r.kind = unet[s].kind /\ r.ok = unet[s].ok
    BY <1>0, NextPhase
  <2> HIDE DEF r
  <2> QED BY <2>1, <2>2, OneSlot
<1> HIDE DEF r
<1>3. UserTypeOK' BY <1>1, <1>2 DEF UserTypeOK, SlotStep, URequests
<1>4. OkUntilRefused' BY <1>2 DEF SlotStep, OkUntilRefused
<1>5. UAlone' /\ UCopies' /\ UCounts' BY <1>1, <1>2, Untouched DEF SlotStep, UBusy
<1>6. UPage'
  <2>1. unet[s] # NoURequest BY <1>1, UConstants
  <2>2. overlap = {} => \A t \in Slots \ {s} : unet'[t] = NoURequest
    BY <1>2, <2>1 DEF SlotStep, UPage
  <2>3. overlap = {} => \A t \in Slots : unet[t].phase \notin {"reset", "opened", "swapped", "done"}
    BY <1>1, <2>1, UConstants DEF UPage
  <2> QED BY <1>1, <1>2, <2>2, <2>3, UConstants DEF SlotStep, UPage, Grants
<1> QED BY <1>3, <1>4, <1>5, <1>6

\* A request ends: the table is loaded, an answer is shown, or it was lost.
LEMMA UEnds ==
  ASSUME UInv, NEW s \in Slots, Answered(s) \/ UsersLoaded(s) \/ UsersFail(s) PROVE UInv'
<1> USE DEF UInv
<1>1. /\ unet[s].phase \in {"get", "got", "sent", "done"} /\ overlap \subseteq overlap'
      /\ UNCHANGED <<webStore, runStore, same, file, AuthUsers, saver>>
      /\ overlap' \subseteq overlap \cup {"page"} /\ unet[s] \in URequests
  BY DEF Answered, UsersLoaded, UsersFail, UserTypeOK, URequests
<1>2. unet[s] # NoURequest BY <1>1, UConstants
<1>3. ASSUME overlap = {} PROVE \A t \in Slots \ {s} : unet[t] = NoURequest
  BY <1>2, <1>3 DEF UPage
<1>4. ASSUME NEW r \in {NoURequest, LoadUsers}, unet' = [unet EXCEPT ![s] = r]
      PROVE  /\ SlotStep(s, r) /\ r.phase \in {"idle", "get"}
             /\ OkUntilRefused' /\ UAlone' /\ UCopies' /\ UCounts'
  <2>1. r \in URequests /\ r.phase \in {"idle", "get"}
    BY <1>4, UConstants DEF LoadUsers, URequests, UPhases
  <2>2. SlotStep(s, r) BY <1>4, <2>1, OneSlot
  <2>3. OkUntilRefused' BY <2>1, <2>2 DEF SlotStep, OkUntilRefused
  <2>4. UAlone' /\ UCopies' /\ UCounts' BY <1>1, <2>1, <2>2, Untouched DEF SlotStep, UBusy
  <2> QED BY <2>1, <2>2, <2>3, <2>4
<1>5. CASE /\ unet' = [unet EXCEPT ![s] = NoURequest]
           /\ \/ UsersFail(s)
              \/ UNCHANGED <<users, dialog, overlap>> /\ (unet[s].kind = "setting" \/ ~unet[s].ok)
  <2>1. /\ SlotStep(s, NoURequest) /\ OkUntilRefused' /\ UAlone' /\ UCopies' /\ UCounts'
        /\ UNCHANGED <<users, dialog>>
    BY <1>4, <1>5 DEF UsersFail
  <2>2. UserTypeOK' BY <1>1, <2>1 DEF UserTypeOK, SlotStep, URequests
  <2>3. UPage'
    <3> SUFFICES ASSUME overlap' = {} PROVE UPage' BY DEF UPage
    <3>1. overlap = {} /\ (unet[s].kind = "setting" \/ ~unet[s].ok) BY <1>5 DEF UsersFail
    <3>2. users = Null \/ users = Grants(webStore) BY <1>3, <3>1, UConstants DEF UPage
    <3>3. \A t \in Slots : unet'[t] = NoURequest BY <1>3, <2>1, <3>1 DEF SlotStep
    <3> QED BY <1>1, <2>1, <3>2, <3>3, UConstants DEF UPage, Grants
  <2> QED BY <2>1, <2>2, <2>3
<1>6. CASE /\ unet' = [unet EXCEPT ![s] = LoadUsers] /\ users' = Null
           /\ dialog' \in {dialog, "closed"} /\ UNCHANGED overlap
  <2>1. SlotStep(s, LoadUsers) /\ LoadUsers.phase = "get" /\ OkUntilRefused' /\ UAlone' /\ UCopies' /\ UCounts'
    BY <1>4, <1>6, UConstants DEF LoadUsers, URequests
  <2>2. UserTypeOK' BY <1>1, <1>6, <2>1 DEF UserTypeOK, SlotStep, URequests
  <2>3. UPage' BY <1>3, <1>6, <2>1, UConstants DEF UPage, SlotStep
  <2> QED BY <2>1, <2>2, <2>3
<1>7. CASE UsersLoaded(s)
  <2>0. /\ unet' = [unet EXCEPT ![s] = NoURequest] /\ users' = Grants(unet[s].list)
        /\ unet[s].phase = "got" /\ UNCHANGED <<dialog, overlap>>
    BY <1>7 DEF UsersLoaded
  <2>1. SlotStep(s, NoURequest) /\ OkUntilRefused' /\ UAlone' /\ UCopies' /\ UCounts'
    BY <1>4, <2>0
  <2>2. UserTypeOK'
    <3>1. Grants(unet[s].list) \in UNION {[N -> BOOLEAN] : N \in SUBSET Names}
      BY <1>1, GrantsType DEF URequests
    <3> QED BY <1>1, <2>0, <2>1, <3>1 DEF UserTypeOK, SlotStep, URequests
  <2>3. UPage'
    <3> SUFFICES ASSUME overlap = {} PROVE UPage' BY <2>0 DEF UPage
    <3>1. users' = Grants(webStore) BY <2>0 DEF UPage
    <3>2. \A t \in Slots : unet'[t] = NoURequest BY <1>3, <2>1 DEF SlotStep
    <3> QED BY <1>1, <3>1, <3>2, UConstants DEF UPage, Grants
  <2> QED BY <2>1, <2>2, <2>3
<1>8. CASE Answered(s) BY <1>5, <1>6, <1>8 DEF Answered
<1>9. CASE UsersFail(s) BY <1>5, <1>9 DEF UsersFail
<1> QED BY <1>7, <1>8, <1>9

\* The dialog changes nothing else.
LEMMA UDialog ==
  ASSUME UInv, \/ OpenDialog("new") \/ CloseDialog
               \/ users # Null /\ \E n \in DOMAIN users : OpenDialog(n)
  PROVE  UInv'
<1> USE DEF UInv
<1>1. /\ UNCHANGED <<webStore, runStore, same, file, AuthUsers, saver, users, unet, overlap>>
      /\ dialog' \in {"new", "closed"} \cup Names
  <2>1. ASSUME users # Null, NEW n \in DOMAIN users, OpenDialog(n) PROVE n \in Names
    <3>1. PICK N \in SUBSET Names : users \in [N -> BOOLEAN] BY <2>1 DEF UserTypeOK
    <3> QED BY <2>1, <3>1
  <2> QED BY <2>1 DEF OpenDialog, CloseDialog
<1> QED BY <1>1 DEF UserTypeOK, OkUntilRefused, UAlone, UCopies, UCounts, UPage, UBusy, Calm, Grants,
                    Below
\* A handler that starts work while nobody else is at it is recorded as calm.
LEMMA UMeets ==
  ASSUME UserTypeOK, NEW s \in Slots, overlap' = overlap \cup Meets(Slots \ {s})
  PROVE  /\ overlap \subseteq overlap' /\ overlap' \subseteq {"page", "server"}
         /\ Calm' => Calm /\ saver = Null /\ \A t \in Slots \ {s} : ~UBusy(t)
BY DEF Meets, AtWork, Calm, UBusy, UserTypeOK

\* While the user waits, a request that is out is alone.
LEMMA OnlyRequest ==
  ASSUME UPage, overlap = {}, NEW s \in Slots, unet[s].phase # "idle"
  PROVE  \A t \in Slots \ {s} : unet[t] = NoURequest /\ unet[t].phase = "idle"
BY UConstants DEF UPage

\* A handler takes the list and changes its copy.
LEMMA UReads == ASSUME UInv, NEW s \in Slots, ReadUsers(s) PROVE UInv'
<1> USE DEF UInv
<1> DEFINE q == unet[s]
           a == IF q.kind = "setting" THEN q.list ELSE Change(q, webStore)
           r == GoesOn(q, "read", a)
<1>1. /\ unet' = [unet EXCEPT ![s].phase = "read", ![s].list = a]
      /\ q.phase = "sent" /\ overlap' = overlap \cup Meets(Slots \ {s})
      /\ UNCHANGED <<webStore, runStore, same, file, AuthUsers, saver, users, dialog>>
  BY DEF ReadUsers
<1>2. q \in URequests /\ webStore \in Accounts /\ "read" \in UPhases
  BY DEF UserTypeOK, UPhases, URequests
<1>3. a \in Accounts BY <1>2, ChangeType DEF URequests
<1>4. SlotStep(s, r) /\ r.phase = "read" /\ r.kind = q.kind /\ r.ok = q.ok
  <2> HIDE DEF a
  <2>1. unet' = [unet EXCEPT ![s] = r] BY <1>1 DEF UserTypeOK, GoesOn
  <2>2. r \in URequests /\ r.phase = "read" /\ r.kind = q.kind /\ r.ok = q.ok
    BY <1>2, <1>3, NextPhase
  <2> HIDE DEF r, q
  <2> QED BY <2>1, <2>2, OneSlot
<1> HIDE DEF r, a
<1>5. /\ overlap \subseteq overlap' /\ overlap' \subseteq {"page", "server"}
      /\ Calm' => Calm /\ saver = Null /\ \A t \in Slots \ {s} : ~UBusy(t)
  BY <1>1, UMeets
<1>6. UserTypeOK' BY <1>1, <1>4, <1>5 DEF UserTypeOK, SlotStep, URequests
<1>7. OkUntilRefused' BY <1>1, <1>4 DEF SlotStep, OkUntilRefused
<1>8. UAlone' BY <1>1, <1>4, <1>5 DEF SlotStep, UAlone, UBusy
<1>9. UCopies' BY <1>1, <1>4, <1>5 DEF SlotStep, UCopies, Grants
<1>10. UCounts' BY <1>1, <1>5 DEF UCounts, Below
<1>11. UPage'
  <2> SUFFICES ASSUME overlap' = {} PROVE UPage' BY DEF UPage
  <2>1. overlap = {} /\ \A t \in Slots \ {s} : unet[t] = NoURequest /\ unet[t].phase = "idle"
    BY <1>1, <1>5, OnlyRequest
  <2>2. users = Null \/ users = Grants(webStore) BY <1>1, <2>1 DEF UPage
  <2> QED BY <1>1, <1>4, <2>1, <2>2 DEF SlotStep, UPage, Grants
<1> QED BY <1>6, <1>7, <1>8, <1>9, <1>10, <1>11

\* A refused request stores nothing and goes on to Runtime.Init.
LEMMA URefuses == ASSUME UInv, NEW s \in Slots, RefuseUser(s) PROVE UInv'
<1> USE DEF UInv
<1> DEFINE h == Handled(unet[s])
           h1 == [h EXCEPT !.phase = "reset"]
           r == [h1 EXCEPT !.ok = FALSE]
<1>1. /\ unet' = [unet EXCEPT ![s] = r]
      /\ unet[s].phase = "sent" /\ overlap' = overlap \cup Meets(Slots \ {s})
      /\ AuthUsers' = NoAccounts
      /\ UNCHANGED <<webStore, runStore, same, file, saver, users, dialog>>
  <2> HIDE DEF h
  <2> QED BY DEF RefuseUser, h
<1>2. SlotStep(s, r) /\ r.phase = "reset" /\ ~r.ok
  <2>1. unet[s] \in URequests /\ "reset" \in UPhases BY DEF UserTypeOK, UPhases, URequests
  <2>2. h \in URequests BY <2>1, HandledRequest
  <2> HIDE DEF h
  <2>3. h1 \in URequests /\ h1.phase = "reset" BY <2>1, <2>2, WithPhase
  <2> HIDE DEF h1
  <2>4. r \in URequests /\ r.phase = "reset" /\ r.ok = FALSE BY <2>3, WithOk
  <2> HIDE DEF r
  <2> QED BY <1>1, <2>4, OneSlot
<1> HIDE DEF r
<1>3. /\ overlap \subseteq overlap' /\ overlap' \subseteq {"page", "server"}
      /\ Calm' => Calm /\ saver = Null /\ \A t \in Slots \ {s} : ~UBusy(t)
  BY <1>1, UMeets
<1>4. UserTypeOK'
  <2>1. unet' \in [Slots -> URequests] /\ AuthUsers' \in Accounts BY <1>1, <1>2, UConstants DEF SlotStep
  <2> QED BY <1>1, <1>3, <2>1 DEF UserTypeOK, URequests
<1>5. OkUntilRefused' BY <1>2 DEF SlotStep, OkUntilRefused
<1>6. UAlone' BY <1>1, <1>2, <1>3 DEF SlotStep, UAlone, UBusy
<1>7. UCopies' BY <1>1, <1>2, <1>3 DEF SlotStep, UCopies, UBusy, Grants
<1>8. UCounts' BY <1>1, <1>3, UConstants DEF UCounts, Below
<1>9. UPage'
  <2> SUFFICES ASSUME overlap' = {} PROVE UPage' BY DEF UPage
  <2>1. overlap = {} /\ \A t \in Slots \ {s} : unet[t] = NoURequest /\ unet[t].phase = "idle"
    BY <1>1, <1>3, OnlyRequest
  <2>2. users = Null \/ users = Grants(webStore) BY <1>1, <2>1 DEF UPage
  <2> QED BY <1>1, <1>2, <2>1, <2>2 DEF SlotStep, UPage, Grants
<1> QED BY <1>4, <1>5, <1>6, <1>7, <1>8, <1>9

\* The web server's store and the file change together.
LEMMA UStores == ASSUME UInv, NEW s \in Slots, StoreUsers(s) PROVE UInv'
<1> USE DEF UInv
<1> DEFINE h == Handled(unet[s])
           r == [h EXCEPT !.phase = "reset"]
<1>1. /\ unet' = [unet EXCEPT ![s] = r]
      /\ unet[s].phase = "read" /\ AuthUsers' = NoAccounts /\ file' = webStore'
      /\ webStore' = IF unet[s].kind = "setting" THEN webStore ELSE unet[s].list
      /\ runStore' = (IF same THEN webStore' ELSE runStore)
      /\ UNCHANGED <<same, saver, users, dialog, overlap>>
  <2> HIDE DEF h
  <2> QED BY DEF StoreUsers, h
<1>2. unet[s] \in URequests /\ "reset" \in UPhases BY DEF UserTypeOK, UPhases, URequests
<1>3. SlotStep(s, r) /\ r.phase = "reset" /\ r.kind = unet[s].kind /\ r.ok = unet[s].ok
  <2>2. h \in URequests /\ h.kind = unet[s].kind /\ h.ok = unet[s].ok BY <1>2, HandledRequest
  <2> HIDE DEF h
  <2>3. r \in URequests /\ r.phase = "reset" /\ r.kind = h.kind /\ r.ok = h.ok
    BY <1>2, <2>2, WithPhase
  <2> HIDE DEF r
  <2> QED BY <1>1, <2>2, <2>3, OneSlot
<1> HIDE DEF r
<1>4. webStore' \in Accounts BY <1>1, <1>2 DEF UserTypeOK, URequests
<1>5. UBusy(s) BY <1>1 DEF UBusy
<1>6. Calm => saver = Null /\ \A t \in Slots \ {s} : ~UBusy(t) BY <1>5 DEF UAlone
<1>7. UserTypeOK' BY <1>1, <1>3, <1>4, UConstants DEF UserTypeOK, SlotStep, URequests
<1>8. OkUntilRefused' BY <1>3 DEF SlotStep, OkUntilRefused
<1>9. UAlone' BY <1>1, <1>3, <1>6 DEF SlotStep, UAlone, UBusy, Calm
<1>10. UCopies' BY <1>1, <1>3, <1>6 DEF SlotStep, UCopies, UBusy, Grants, Calm
<1>11. UCounts' BY <1>1, <1>6, UConstants DEF UCounts, Below, Calm
<1>12. UPage'
  <2> SUFFICES ASSUME overlap = {} PROVE UPage' BY <1>1 DEF UPage
  <2>1. \A t \in Slots \ {s} : unet[t] = NoURequest /\ unet[t].phase = "idle"
    BY <1>1, OnlyRequest
  <2>2. users = Null \/ users = Grants(webStore) BY <1>1, <2>1 DEF UPage
  <2>3. unet[s].ok BY <1>1 DEF OkUntilRefused
  <2>4. \A t \in Slots : unet'[t].phase # "got" BY <1>3, <2>1 DEF SlotStep
  <2>5. users' = Null \/ users' = Grants(webStore)' \/ (unet'[s].ok /\ unet'[s].kind # "setting")
    BY <1>1, <1>3, <2>2, <2>3 DEF SlotStep, Grants
  <2>6. \A t, u \in Slots : unet'[t] # NoURequest /\ unet'[u] # NoURequest => t = u
    BY <1>3, <2>1 DEF SlotStep
  <2> QED BY <1>3, <2>4, <2>5, <2>6 DEF SlotStep, UPage
<1> QED BY <1>7, <1>8, <1>9, <1>10, <1>11, <1>12

\* Runtime.Init: a new store on the file, ...
LEMMA UOpens == ASSUME UInv, NEW s \in Slots, OpenStore(s) PROVE UInv'
<1> USE DEF UInv
<1>0. PICK found \in {file} \cup (IF Writing(Slots \ {s}) THEN {Defaults} ELSE {}) :
        unet' = [unet EXCEPT ![s].phase = "opened", ![s].list = found]
  BY DEF OpenStore
<1> DEFINE r == GoesOn(unet[s], "opened", found)
<1>1. /\ unet[s].phase = "reset"
      /\ UNCHANGED <<webStore, runStore, same, file, AuthUsers, saver, users, dialog, overlap>>
  BY DEF OpenStore
<1>2. unet[s] \in URequests /\ found \in Accounts /\ "opened" \in UPhases
  BY UConstants DEF UserTypeOK, UPhases, URequests
<1>3. /\ SlotStep(s, r) /\ r.phase = "opened" /\ r.list = found
      /\ r.kind = unet[s].kind /\ r.ok = unet[s].ok
  <2>1. unet' = [unet EXCEPT ![s] = r] BY <1>0 DEF UserTypeOK, GoesOn
  <2>2. /\ r \in URequests /\ r.phase = "opened" /\ r.list = found
        /\ r.kind = unet[s].kind /\ r.ok = unet[s].ok
    BY <1>2, NextPhase
  <2> HIDE DEF r
  <2> QED BY <2>1, <2>2, OneSlot
<1> HIDE DEF r
<1>4. UBusy(s) BY <1>1 DEF UBusy
<1>5. Calm => saver = Null /\ \A t \in Slots \ {s} : ~UBusy(t) BY <1>4 DEF UAlone
<1>6. Calm => found = file BY <1>5 DEF Writing, UBusy
<1>7. UserTypeOK' BY <1>1, <1>3 DEF UserTypeOK, SlotStep, URequests
<1>8. OkUntilRefused' BY <1>3 DEF SlotStep, OkUntilRefused
<1>9. UAlone' BY <1>1, <1>3, <1>5 DEF SlotStep, UAlone, UBusy, Calm
<1>10. UCopies' BY <1>1, <1>3, <1>5, <1>6 DEF SlotStep, UCopies, UBusy, Grants, Calm
<1>11. UCounts' BY <1>1 DEF UCounts, Below, Calm
<1>12. UPage' BY <1>1, <1>3, OnlyRequest DEF SlotStep, UPage, Grants
<1> QED BY <1>7, <1>8, <1>9, <1>10, <1>11, <1>12

\* ... the runtime's from then on, and written back, ...
LEMMA USwaps == ASSUME UInv, NEW s \in Slots, SwapStore(s) PROVE UInv'
<1> USE DEF UInv
<1> DEFINE r == GoesOn(unet[s], "swapped", NoAccounts)
<1>1. /\ unet' = [unet EXCEPT ![s].phase = "swapped", ![s].list = NoAccounts]
      /\ unet[s].phase = "opened" /\ runStore' = unet[s].list /\ file' = unet[s].list
      /\ same' = FALSE /\ UNCHANGED <<webStore, AuthUsers, saver, users, dialog, overlap>>
  BY DEF SwapStore
<1>2. unet[s] \in URequests /\ unet[s].list \in Accounts /\ "swapped" \in UPhases
  BY DEF UserTypeOK, UPhases, URequests
<1>3. /\ SlotStep(s, r) /\ r.phase = "swapped" /\ r.kind = unet[s].kind /\ r.ok = unet[s].ok
  <2>1. unet' = [unet EXCEPT ![s] = r] BY <1>1 DEF UserTypeOK, GoesOn
  <2>2. /\ r \in URequests /\ r.phase = "swapped" /\ r.kind = unet[s].kind /\ r.ok = unet[s].ok
    BY <1>2, UConstants, NextPhase
  <2> HIDE DEF r
  <2> QED BY <2>1, <2>2, OneSlot
<1> HIDE DEF r
<1>4. UBusy(s) BY <1>1 DEF UBusy
<1>5. Calm => saver = Null /\ \A t \in Slots \ {s} : ~UBusy(t) BY <1>4 DEF UAlone
<1>6. Calm => file' = file BY <1>1 DEF UCopies
<1>7. UserTypeOK'
  <2>1. unet' \in [Slots -> URequests] BY <1>3 DEF SlotStep
  <2> QED BY <1>1, <1>2, <2>1 DEF UserTypeOK, URequests
<1>8. OkUntilRefused' BY <1>3 DEF SlotStep, OkUntilRefused
<1>9. UAlone' BY <1>1, <1>3, <1>5 DEF SlotStep, UAlone, UBusy, Calm
<1>10. UCopies' BY <1>1, <1>3, <1>5, <1>6 DEF SlotStep, UCopies, UBusy, Grants, Calm
<1>11. UCounts' BY <1>1, <1>5, <1>6 DEF UCounts, Below, Calm
<1>12. UPage' BY <1>1, <1>3, OnlyRequest DEF SlotStep, UPage, Grants
<1> QED BY <1>7, <1>8, <1>9, <1>10, <1>11, <1>12

\* ... and the list the proxy checks.
LEMMA UFills == ASSUME UInv, NEW s \in Slots, FillAuthUsers(s) PROVE UInv'
<1> USE DEF UInv
<1> DEFINE r == [unet[s] EXCEPT !.phase = "done"]
<1>1. /\ unet' = [unet EXCEPT ![s].phase = "done"]
      /\ unet[s].phase = "swapped" /\ AuthUsers' = runStore
      /\ UNCHANGED <<webStore, runStore, same, file, saver, users, dialog, overlap>>
  BY DEF FillAuthUsers
<1>2. unet[s] \in URequests /\ "done" \in UPhases BY DEF UserTypeOK, UPhases, URequests
<1>3. /\ SlotStep(s, r) /\ r.phase = "done" /\ r.kind = unet[s].kind /\ r.ok = unet[s].ok
  <2>1. unet' = [unet EXCEPT ![s] = r] BY <1>1 DEF UserTypeOK
  <2>2. r \in URequests /\ r.phase = "done" /\ r.kind = unet[s].kind /\ r.ok = unet[s].ok
    BY <1>2, WithPhase
  <2> HIDE DEF r
  <2> QED BY <2>1, <2>2, OneSlot
<1> HIDE DEF r
<1>4. UBusy(s) BY <1>1 DEF UBusy
<1>5. Calm => saver = Null /\ \A t \in Slots \ {s} : ~UBusy(t) BY <1>4 DEF UAlone
<1>6. Calm => AuthUsers' = file BY <1>1 DEF UCopies
<1>7. UserTypeOK'
  <2>1. unet' \in [Slots -> URequests] BY <1>3 DEF SlotStep
  <2> QED BY <1>1, <2>1 DEF UserTypeOK, URequests
<1>8. OkUntilRefused' BY <1>3 DEF SlotStep, OkUntilRefused
<1>9. UAlone' BY <1>1, <1>3, <1>5 DEF SlotStep, UAlone, UBusy, Calm
<1>10. UCopies' BY <1>1, <1>3, <1>5, <1>6 DEF SlotStep, UCopies, UBusy, Grants, Calm
<1>11. UCounts'
  <2>1. \A n \in DOMAIN file : file[n].used \in Nat
    <3>1. file \in Accounts BY DEF UserTypeOK
    <3> QED BY <3>1, AccountsMembers, UserAssumption DEF UserData
  <2> QED BY <1>1, <1>5, <1>6, <2>1 DEF UCounts, Below, Calm
<1>12. UPage' BY <1>1, <1>3, OnlyRequest DEF SlotStep, UPage, Grants
<1> QED BY <1>7, <1>8, <1>9, <1>10, <1>11, <1>12

\* The counts are numbers.
LEMMA UsedNat == ASSUME NEW a \in Accounts, NEW n \in DOMAIN a PROVE a[n].used \in Nat
BY AccountsMembers, UserAssumption DEF UserData

\* UpdateUserData changes one count, and nobody's access.
LEMMA UConsumes == ASSUME UInv, NEW n \in Surfers, Consume(n) PROVE UInv'
<1> USE DEF UInv
<1>1. /\ n \in DOMAIN AuthUsers /\ AuthUsers[n].used < MaxUsed
      /\ AuthUsers' = [AuthUsers EXCEPT ![n].used = @ + 1]
      /\ UNCHANGED <<webStore, runStore, same, file, saver, users, dialog, unet, overlap>>
  BY DEF Consume
<1>2. AuthUsers \in Accounts /\ AuthUsers \in [DOMAIN AuthUsers -> UserData] /\ DOMAIN AuthUsers \subseteq Names
  BY AccountsMembers DEF UserTypeOK
<1>3. AuthUsers[n] \in UserData /\ AuthUsers[n].used \in 0..MaxUsed /\ AuthUsers[n].allow \in BOOLEAN
  BY <1>1, <1>2 DEF UserData
<1> DEFINE d == [AuthUsers[n] EXCEPT !.used = AuthUsers[n].used + 1]
<1>4. d \in UserData /\ d.allow = AuthUsers[n].allow /\ d.used = AuthUsers[n].used + 1
  BY <1>1, <1>3, UserAssumption DEF UserData
<1>5. AuthUsers' = [AuthUsers EXCEPT ![n] = d] BY <1>1
<1> HIDE DEF d
<1>6. AuthUsers' \in [DOMAIN AuthUsers -> UserData] BY <1>2, <1>4, <1>5
<1>7. AuthUsers' \in Accounts /\ DOMAIN AuthUsers' = DOMAIN AuthUsers
  BY <1>2, <1>6, AccountsMembers
<1>8. Grants(AuthUsers)' = Grants(AuthUsers)
  <2>1. \A m \in DOMAIN AuthUsers : AuthUsers'[m].allow = AuthUsers[m].allow BY <1>2, <1>4, <1>5
  <2> QED BY <1>7, <2>1 DEF Grants
<1>9. \A m \in DOMAIN AuthUsers : /\ AuthUsers'[m].used >= AuthUsers[m].used
                                  /\ AuthUsers'[m].used \in Nat /\ AuthUsers[m].used \in Nat
  <2>1. \A m \in DOMAIN AuthUsers : AuthUsers'[m].used \in Nat /\ AuthUsers[m].used \in Nat
    BY <1>2, <1>7, UsedNat
  <2> QED BY <1>1, <1>2, <1>4, <1>5, <2>1
<1>10. UserTypeOK' BY <1>1, <1>7 DEF UserTypeOK
<1>11. OkUntilRefused' /\ UAlone' BY <1>1 DEF OkUntilRefused, UAlone, UBusy, Calm
<1>12. UCopies' BY <1>1, <1>8 DEF UCopies, Calm, Grants
<1>13. UCounts'
  <2>1. ASSUME NEW a \in Accounts, Below(a, AuthUsers)
        PROVE  \A m \in DOMAIN a \cap DOMAIN AuthUsers' : AuthUsers'[m].used >= a[m].used
    BY <1>7, <1>9, <2>1, UsedNat DEF Below
  <2>2. file \in Accounts /\ (saver # Null => saver \in Accounts) BY DEF UserTypeOK
  <2> QED BY <1>1, <2>1, <2>2 DEF UCounts, Below, Calm
<1>14. UPage' BY <1>1 DEF UPage, Grants
<1> QED BY <1>10, <1>11, <1>12, <1>13, <1>14

\* GSUserDataSaver.
LEMMA USaver == ASSUME UInv, SaverReads \/ SaverWrites PROVE UInv'
<1> USE DEF UInv
<1>1. CASE SaverReads
  <2>1. /\ saver = Null /\ saver' = AuthUsers /\ overlap' = overlap \cup Meets(Slots)
        /\ UNCHANGED <<webStore, runStore, same, file, AuthUsers, users, dialog, unet>>
    BY <1>1 DEF SaverReads
  <2>2. Calm' => Calm /\ \A t \in Slots : ~UBusy(t) BY <2>1 DEF Meets, AtWork, Calm, UBusy
  <2>3. UserTypeOK' BY <2>1 DEF UserTypeOK, Meets
  <2>4. OkUntilRefused' /\ UAlone' BY <2>1, <2>2 DEF OkUntilRefused, UAlone, UBusy
  <2>5. UCopies' BY <2>1, <2>2 DEF UCopies, UBusy, Grants
  <2>6. UCounts'
    <3>1. Below(AuthUsers, AuthUsers)
      <4>1. AuthUsers \in Accounts BY DEF UserTypeOK
      <4> QED BY <4>1, UsedNat DEF Below
    <3> QED BY <2>1, <2>2, <3>1 DEF UCounts, Below
  <2>7. UPage' BY <2>1 DEF UPage, Grants
  <2> QED BY <2>3, <2>4, <2>5, <2>6, <2>7
<1>2. CASE SaverWrites
  <2>1. /\ saver # Null /\ runStore' = saver /\ file' = saver /\ saver' = Null
        /\ webStore' = (IF same THEN saver ELSE webStore)
        /\ UNCHANGED <<same, AuthUsers, users, dialog, unet, overlap>>
    BY <1>2 DEF SaverWrites
  <2>2. Calm => \A t \in Slots : ~UBusy(t) BY <2>1 DEF UAlone
  <2>3. UserTypeOK' BY <2>1 DEF UserTypeOK
  <2>4. OkUntilRefused' /\ UAlone' BY <2>1 DEF OkUntilRefused, UAlone, UBusy, Calm
  <2>5. Calm => Grants(webStore') = Grants(webStore) /\ Grants(saver) = Grants(webStore)
    BY <2>1 DEF UCopies
  <2>6. UCopies'
    <3>1. Grants(webStore)' = Grants(webStore') /\ Grants(runStore)' = Grants(saver)
          /\ Grants(file)' = Grants(saver) /\ Grants(AuthUsers)' = Grants(AuthUsers)
      BY <2>1 DEF Grants
    <3>2. Calm => Grants(AuthUsers) = Grants(webStore) BY <2>2 DEF UCopies, UBusy
    <3> QED BY <2>1, <2>2, <2>5, <3>1, <3>2 DEF UCopies, UBusy, Calm
  <2>7. UCounts' BY <2>1 DEF UCounts, Below, Calm
  <2>8. UPage'
    <3>1. overlap = {} => Grants(webStore)' = Grants(webStore) BY <2>5 DEF Calm, Grants
    <3>2. \A s \in Slots : Grants(unet[s].list)' = Grants(unet[s].list) BY <2>1 DEF Grants
    <3> QED BY <2>1, <3>1, <3>2 DEF UPage
  <2> QED BY <2>3, <2>4, <2>6, <2>7, <2>8
<1> QED BY <1>1, <1>2

\* A crash that meets nobody at work finds the file complete.
LEMMA UCrash == ASSUME UInv, CrashRestart PROVE UInv' /\ (Calm' => file' = file)
<1> USE DEF UInv
<1>1. PICK found \in {file} \cup (IF Writing(Slots) THEN {Defaults} ELSE {}) :
        file' = found /\ webStore' = found /\ runStore' = found /\ AuthUsers' = found
  BY DEF CrashRestart
<1>2. /\ saver' = Null /\ unet' = [s \in Slots |-> NoURequest] /\ same' = TRUE
      /\ overlap' = overlap \cup (IF UQuiet THEN {} ELSE {"page"}) \cup Meets(Slots)
      /\ UNCHANGED <<users, dialog>>
  BY DEF CrashRestart
<1>3. Calm' => Calm /\ ~AtWork(Slots) BY <1>2 DEF Meets, Calm
<1>4. Calm' => found = file BY <1>3 DEF AtWork, Writing
<1>5. found \in Accounts BY UConstants DEF UserTypeOK
<1>6. \A s \in Slots : unet'[s] = NoURequest /\ unet'[s].phase = "idle" BY <1>2, UConstants
<1>7. UserTypeOK'
  <2>1. unet' \in [Slots -> URequests] BY <1>2, UConstants
  <2>2. overlap' \subseteq {"page", "server"} BY <1>2 DEF Meets, UserTypeOK
  <2> QED BY <1>1, <1>2, <1>5, <2>1, <2>2 DEF UserTypeOK, URequests
<1>8. OkUntilRefused' /\ UAlone' BY <1>6 DEF OkUntilRefused, UAlone, UBusy
<1>9. UCopies' BY <1>1, <1>2, <1>6 DEF UCopies
<1>10. UCounts'
  <2>1. Below(found, found) BY <1>5, UsedNat DEF Below
  <2> QED BY <1>1, <1>2, <2>1 DEF UCounts
<1>11. UPage'
  <2> SUFFICES ASSUME overlap' = {} PROVE UPage' BY DEF UPage
  <2>1. overlap = {} /\ UQuiet /\ Calm' /\ Calm BY <1>2 DEF Calm
  <2>2. Grants(found) = Grants(webStore) BY <1>4, <2>1 DEF UCopies
  <2>3. users = Null \/ users = Grants(webStore) BY <2>1, UConstants DEF UPage, UQuiet
  <2> QED BY <1>1, <1>2, <1>6, <2>2, <2>3 DEF UPage
<1> QED BY <1>1, <1>4, <1>7, <1>8, <1>9, <1>10, <1>11

LEMMA UStep == ASSUME UInv, [UserNext]_userVars PROVE UInv'
<1>1. CASE UNCHANGED userVars
  BY <1>1 DEF userVars, UInv, UserTypeOK, OkUntilRefused, UAlone, UCopies, UCounts, UPage, UBusy,
              Calm, Grants, Below
<1>2. CASE UserNext
  <2>1. ASSUME NEW s \in Slots,
               \/ OpenUsers(s) \/ ChangeSetting(s)
               \/ \E n \in Names, allow \in BOOLEAN : SubmitUser(n, allow, s)
               \/ users # Null /\ \E n \in DOMAIN users : PressRow(n, s)
        PROVE  UInv'
    BY <2>1, UAsks
  <2> QED BY <1>2, <2>1, UGets, UEnds, UDialog, UReads, URefuses, UStores, UOpens, USwaps, UFills,
             UConsumes, USaver, UCrash DEF UserNext
<1> QED BY <1>1, <1>2

LEMMA UInvariant == UserSpec => []UInv
BY UInitially, UStep, PTL DEF UserSpec

\* While the user waits for every answer and none is lost, the table the page shows is
\* the web server's list whenever nothing is out, for any number of users, restarts
\* included.
THEOREM UsersPageTrue == UserSpec => []UsersShown
<1>1. UInv => UsersShown BY UConstants DEF UInv, UPage, UsersShown, UQuiet
<1> QED BY <1>1, UInvariant, PTL

\* Unless handlers, the saver or a crash met at work, Runtime.Init leaves the proxy's
\* list, the runtime's store and the file with the web server's grants.
THEOREM CopiesFollow == UserSpec => []CopiesAgree
<1>1. UInv => CopiesAgree BY DEF UInv, UCopies, CopiesAgree, Calm, AtWork
<1> QED BY <1>1, UInvariant, PTL

\* What GSUserDataSaver has written to the file is lost to no step but a store of the
\* web server's, unless they met at work.
THEOREM CountsSaved == UserSpec => ConsumptionSaved
<1> DEFINE E == \/ "server" \in overlap'
                \/ \E s \in Slots : StoreUsers(s)
                \/ \A n \in DOMAIN file \cap DOMAIN file' : file'[n].used >= file[n].used
<1>1. ASSUME UInv, [UserNext]_userVars PROVE [E]_userVars
  <2> SUFFICES ASSUME UserNext, "server" \notin overlap', ~ \E s \in Slots : StoreUsers(s)
               PROVE  \A n \in DOMAIN file \cap DOMAIN file' : file'[n].used >= file[n].used
    BY <1>1
  <2> USE <1>1 DEF UInv
  <2>0. file \in Accounts BY DEF UserTypeOK
  <2>1. CASE file' = file BY <2>0, <2>1, UsedNat
  <2>2. CASE \E s \in Slots : SwapStore(s)
    <3>1. file' = file BY <2>2 DEF SwapStore, UCopies, Calm
    <3> QED BY <2>1, <3>1
  <2>3. CASE SaverWrites
    <3>1. file' = saver /\ saver # Null /\ Calm BY <2>3 DEF SaverWrites, Calm
    <3> QED BY <3>1 DEF UCounts, Below
  <2>4. CASE CrashRestart
    <3>1. file' = file BY <2>4, UCrash DEF Calm
    <3> QED BY <2>1, <3>1
  <2>5. CASE \E s \in Slots : \/ \E n \in Names, allow \in BOOLEAN : SubmitUser(n, allow, s)
                              \/ users # Null /\ \E n \in DOMAIN users : PressRow(n, s)
                              \/ ChangeSetting(s)
    BY <2>1, <2>5 DEF SubmitUser, PressRow, ChangeSetting, Request
  <2>6. CASE \E s \in Slots : \/ OpenUsers(s) \/ Answered(s) \/ UsersLoaded(s) \/ UsersFail(s)
                              \/ GetUsers(s) \/ ReadUsers(s) \/ RefuseUser(s) \/ OpenStore(s)
                              \/ FillAuthUsers(s)
    BY <2>1, <2>6 DEF OpenUsers, Answered, UsersLoaded, UsersFail, GetUsers, ReadUsers, RefuseUser,
                      OpenStore, FillAuthUsers
  <2>7. CASE \/ OpenDialog("new") \/ CloseDialog \/ SaverReads
             \/ users # Null /\ \E n \in DOMAIN users : OpenDialog(n)
             \/ \E n \in Surfers : Consume(n)
    BY <2>1, <2>7 DEF OpenDialog, CloseDialog, SaverReads, Consume
  <2> QED BY <2>2, <2>3, <2>4, <2>5, <2>6, <2>7 DEF UserNext
<1> QED BY <1>1, UInvariant, PTL DEF UserSpec, ConsumptionSaved
-----------------------------------------------------------------------------
(* Block lists.                                                            *)

LPhases == {"idle", "get", "got", "post", "saved"}
LRequests == [phase : LPhases, urls : Seq(Urls), add : BOOLEAN]

\* Saves that neither failed nor overlapped: one request at a time, which brings the
\* stored lists or carries the rows.
LSaves ==
  ~late =>
    /\ \A s, t \in Slots : lnet[s] # NoLRequest /\ lnet[t] # NoLRequest => s = t
    /\ \A s \in Slots : /\ lnet[s].phase = "got" => lnet[s].urls = blocklists
                        /\ lnet[s].phase = "post" => lnet[s].urls = listed
    /\ ready /\ (\A s \in Slots : lnet[s].phase # "post") => listed = blocklists

LInv == ListTypeOK /\ LSaves

LEMMA LConstants == NoLRequest \in LRequests /\ NoLRequest.phase = "idle" /\ <<>> \in Seq(Urls)
BY DEF NoLRequest, LRequests, LPhases

\* A request goes on to its next phase, with a list.
LGoesOn(q, p, u) == [[q EXCEPT !.phase = p] EXCEPT !.urls = u]

LEMMA LNextPhase ==
  ASSUME NEW q \in LRequests, NEW p \in LPhases, NEW u \in Seq(Urls)
  PROVE  LET r == LGoesOn(q, p, u) IN r \in LRequests /\ r.phase = p /\ r.urls = u
<1> DEFINE q1 == [q EXCEPT !.phase = p]
<1>1. q1 \in LRequests /\ q1.phase = p BY DEF LRequests, LPhases
<1>2. LGoesOn(q, p, u) = [q1 EXCEPT !.urls = u] BY DEF LGoesOn
<1> HIDE DEF q1
<1> QED BY <1>1, <1>2 DEF LRequests, LPhases

\* What a step that changes one request has to show.
LEMMA LOneSlot ==
  ASSUME ListTypeOK, NEW s \in Slots, NEW r \in LRequests, lnet' = [lnet EXCEPT ![s] = r]
  PROVE  /\ lnet' \in [Slots -> LRequests] /\ lnet'[s] = r /\ lnet[s] \in LRequests
         /\ \A t \in Slots \ {s} : lnet'[t] = lnet[t]
BY DEF ListTypeOK, LRequests, LPhases

LEMMA LInitially == ASSUME ListInit PROVE LInv
<1>1. OldLists \in Seq(Urls)
  <2>1. OldUrls \subseteq Urls BY DEF Urls
  <2> QED BY <2>1, ListAssumption
<1>2. lnet \in [Slots -> LRequests] /\ \A s \in Slots : lnet[s] = NoLRequest
  BY LConstants DEF ListInit
<1>3. ListTypeOK
  <2>1. Null \in Urls BY DEF Urls
  <2> QED BY <1>1, <1>2, <2>1, LConstants DEF ListInit, ListTypeOK, LRequests, LPhases
<1>4. LSaves BY <1>2, LConstants DEF ListInit, LSaves
<1> QED BY <1>3, <1>4 DEF LInv

\* A save carries the rows as they are now.
LEMMA LSave ==
  ASSUME LInv, NEW s \in Slots, NEW add \in BOOLEAN, listed' \in Seq(Urls),
         SaveLists(listed', add, s), UNCHANGED <<blocklists, ready>>
  PROVE  LSaves' /\ lnet' \in [Slots -> LRequests] /\ late' \in BOOLEAN
<1> DEFINE r == [phase |-> "post", urls |-> listed', add |-> add]
<1>1. r \in LRequests /\ r.phase = "post" /\ r.urls = listed' BY DEF LRequests, LPhases
<1>2. lnet' = [lnet EXCEPT ![s] = r] /\ late' = (late \/ ~LQuiet) BY DEF SaveLists
<1> HIDE DEF r
<1>3. /\ lnet' \in [Slots -> LRequests] /\ lnet'[s] = r
      /\ \A t \in Slots \ {s} : lnet'[t] = lnet[t]
  BY <1>1, <1>2, LOneSlot DEF LInv
<1>4. late' \in BOOLEAN BY <1>2 DEF LInv, ListTypeOK
<1>5. ASSUME ~late' PROVE \A t \in Slots \ {s} : lnet'[t] = NoLRequest
  BY <1>2, <1>3, <1>5 DEF LQuiet
<1>6. LSaves' BY <1>1, <1>3, <1>5, LConstants DEF LSaves
<1> QED BY <1>3, <1>4, <1>6

\* The rows and the dialog.
LEMMA LEdits ==
  ASSUME LInv,
         \/ \E s \in Slots : AddList(s) \/ \E i \in 1..Len(listed) : SaveList(i, s) \/ RemoveList(i, s)
         \/ \E i \in 1..Len(listed) : EditList(i)
         \/ TypeList \/ OpenListForm \/ CloseListForm
  PROVE  LInv'
<1> USE DEF LInv
<1>0. /\ listed \in Seq(Urls) /\ editingItemValue \in Urls /\ Null \in Urls /\ NewList \in Urls
      /\ \A i \in 1..Len(listed) : listed[i] \in Urls
  BY DEF ListTypeOK, Urls
<1>1. ASSUME NEW s \in Slots, AddList(s) PROVE LInv'
  <2>1. listed' \in Seq(Urls) BY <1>0, <1>1 DEF AddList
  <2>2. LSaves' /\ lnet' \in [Slots -> LRequests] /\ late' \in BOOLEAN
    BY <1>1, <2>1, LSave DEF AddList
  <2> QED BY <1>1, <2>1, <2>2 DEF AddList, ListTypeOK, LRequests, LPhases
<1>2. ASSUME NEW s \in Slots, NEW i \in 1..Len(listed), SaveList(i, s) PROVE LInv'
  <2>1. listed' \in Seq(Urls)
    <3> DEFINE e == [j \in 1..Len(listed) |-> IF listed[j] = editingList THEN editingItemValue ELSE listed[j]]
    <3>1. e \in [1..Len(listed) -> Urls] BY <1>0
    <3>2. Len(listed) \in Nat BY <1>0
    <3>3. e \in Seq(Urls) BY <3>1, <3>2
    <3> QED BY <1>2, <3>3 DEF SaveList
  <2>2. LSaves' /\ lnet' \in [Slots -> LRequests] /\ late' \in BOOLEAN
    BY <1>2, <2>1, LSave DEF SaveList
  <2> QED BY <1>0, <1>2, <2>1, <2>2 DEF SaveList, ListTypeOK, LRequests, LPhases
<1>3. ASSUME NEW s \in Slots, NEW i \in 1..Len(listed), RemoveList(i, s) PROVE LInv'
  <2>1. listed' \in Seq(Urls)
    <3> DEFINE K == {j \in 1..Len(listed) : listed[j] # listed[i]}
    <3>1. K \in SUBSET (1..Len(listed)) OBVIOUS
    <3>2. listed' = Kept(listed, K) BY <1>3 DEF RemoveList
    <3> HIDE DEF K
    <3> QED BY <1>0, <3>1, <3>2, KeptEntries
  <2>2. LSaves' /\ lnet' \in [Slots -> LRequests] /\ late' \in BOOLEAN
    BY <1>3, <2>1, LSave DEF RemoveList
  <2> QED BY <1>3, <2>1, <2>2 DEF RemoveList, ListTypeOK, LRequests, LPhases
<1>4. ASSUME NEW i \in 1..Len(listed), EditList(i) PROVE LInv'
  BY <1>0, <1>4 DEF EditList, ListTypeOK, LSaves
<1>5. CASE TypeList BY <1>0, <1>5 DEF TypeList, ListTypeOK, LSaves
<1>6. CASE OpenListForm BY <1>0, <1>6 DEF OpenListForm, ListTypeOK, LSaves
<1>7. CASE CloseListForm BY <1>0, <1>7 DEF CloseListForm, ListTypeOK, LSaves
<1> QED BY <1>1, <1>2, <1>3, <1>4, <1>5, <1>6, <1>7

\* Requests come and go.
LEMMA LAnswers ==
  ASSUME LInv, NEW s \in Slots,
         \/ OpenLists(s) \/ ListsSaved(s) \/ ListsFail(s) \/ ListsLoaded(s)
         \/ GetLists(s) \/ PostLists(s)
  PROVE  LInv'
<1> USE DEF LInv
<1>0. /\ lnet[s] \in LRequests /\ blocklists \in Seq(Urls) /\ lnet[s].urls \in Seq(Urls)
      /\ Null \in Urls
  BY DEF ListTypeOK, LRequests, LPhases, Urls
<1>1. ASSUME ~late, lnet[s].phase # "idle" PROVE \A t \in Slots \ {s} : lnet[t] = NoLRequest
  BY <1>1, LConstants DEF LSaves
<1>2. CASE OpenLists(s)
  <2> DEFINE r == [lnet[s] EXCEPT !.phase = "get"]
  <2>1. r \in LRequests /\ r.phase = "get" BY <1>0 DEF LRequests, LPhases
  <2>2. lnet' = [lnet EXCEPT ![s] = r] BY <1>2 DEF OpenLists, ListTypeOK
  <2> HIDE DEF r
  <2>3. /\ lnet' \in [Slots -> LRequests] /\ lnet'[s] = r /\ \A t \in Slots \ {s} : lnet'[t] = lnet[t]
    BY <2>1, <2>2, LOneSlot
  <2>4. ListTypeOK' BY <1>2, <2>3 DEF OpenLists, ListTypeOK, LRequests, LPhases
  <2>5. LSaves' BY <1>2, <2>1, <2>3, LConstants DEF OpenLists, LQuiet, LSaves
  <2> QED BY <2>4, <2>5
<1>3. CASE ListsSaved(s) \/ ListsFail(s) \/ ListsLoaded(s)
  <2>1. lnet' = [lnet EXCEPT ![s] = NoLRequest] BY <1>3 DEF ListsSaved, ListsFail, ListsLoaded
  <2>2. /\ lnet' \in [Slots -> LRequests] /\ lnet'[s] = NoLRequest
        /\ \A t \in Slots \ {s} : lnet'[t] = lnet[t]
    BY <2>1, LConstants, LOneSlot
  <2>3. CASE ListsSaved(s)
    <3>1. ListTypeOK' BY <1>0, <2>2, <2>3 DEF ListsSaved, ListTypeOK, LRequests, LPhases
    <3>2. LSaves' BY <1>1, <2>2, <2>3, LConstants DEF ListsSaved, LSaves
    <3> QED BY <3>1, <3>2
  <2>4. CASE ListsFail(s)
    <3>1. ListTypeOK' BY <1>0, <2>2, <2>4 DEF ListsFail, ListTypeOK, LRequests, LPhases
    <3>2. LSaves' BY <2>4 DEF ListsFail, LSaves
    <3> QED BY <3>1, <3>2
  <2>5. CASE ListsLoaded(s)
    <3>1. ListTypeOK' BY <1>0, <2>2, <2>5 DEF ListsLoaded, ListTypeOK, LRequests, LPhases
    <3>2. LSaves' BY <1>1, <2>2, <2>5, LConstants DEF ListsLoaded, LSaves
    <3> QED BY <3>1, <3>2
  <2> QED BY <1>3, <2>3, <2>4, <2>5
<1>4. CASE GetLists(s)
  <2> DEFINE r == LGoesOn(lnet[s], "got", blocklists)
  <2>0. "got" \in LPhases BY DEF LPhases
  <2>1. r \in LRequests /\ r.phase = "got" /\ r.urls = blocklists BY <1>0, <2>0, LNextPhase
  <2>2. lnet' = [lnet EXCEPT ![s] = r] BY <1>4 DEF GetLists, ListTypeOK, LGoesOn
  <2> HIDE DEF r
  <2>3. /\ lnet' \in [Slots -> LRequests] /\ lnet'[s] = r /\ \A t \in Slots \ {s} : lnet'[t] = lnet[t]
    BY <2>1, <2>2, LOneSlot
  <2>4. ListTypeOK' BY <1>4, <2>3 DEF GetLists, ListTypeOK, LRequests, LPhases
  <2>5. LSaves' BY <1>1, <1>4, <2>1, <2>3, LConstants DEF GetLists, LSaves
  <2> QED BY <2>4, <2>5
<1>5. CASE PostLists(s)
  <2> DEFINE none == <<>>
             r == LGoesOn(lnet[s], "saved", none)
  <2>0. "saved" \in LPhases /\ none \in Seq(Urls) BY LConstants DEF LPhases
  <2>1. r \in LRequests /\ r.phase = "saved"
    <3> HIDE DEF none
    <3> QED BY <1>0, <2>0, LNextPhase
  <2>2. lnet' = [lnet EXCEPT ![s] = r] BY <1>5 DEF PostLists, ListTypeOK, LGoesOn
  <2> HIDE DEF r
  <2>3. /\ lnet' \in [Slots -> LRequests] /\ lnet'[s] = r /\ \A t \in Slots \ {s} : lnet'[t] = lnet[t]
    BY <2>1, <2>2, LOneSlot
  <2>4. ListTypeOK' BY <1>0, <1>5, <2>3 DEF PostLists, ListTypeOK, LRequests, LPhases
  <2>5. LSaves' BY <1>1, <1>5, <2>1, <2>3, LConstants DEF PostLists, LSaves
  <2> QED BY <2>4, <2>5
<1> QED BY <1>2, <1>3, <1>4, <1>5

LEMMA LStep == ASSUME LInv, [ListNext]_listVars PROVE LInv'
<1>1. CASE UNCHANGED listVars BY <1>1 DEF listVars, LInv, ListTypeOK, LSaves
<1>2. CASE ListNext BY <1>2, LEdits, LAnswers DEF ListNext
<1> QED BY <1>1, <1>2

LEMMA LInvariant == ListSpec => []LInv
BY LInitially, LStep, PTL DEF ListSpec

\* The page loads its rows once; every change since is saved whole, so that between
\* saves the rows are the stored block lists, for any number of them.
THEOREM ListsStayShown == ListSpec => []ListsShown
<1>1. LInv => ListsShown BY LConstants DEF LInv, LSaves, ListsShown, LQuiet
<1> QED BY <1>1, LInvariant, PTL

-----------------------------------------------------------------------------
(* Custom A records.                                                       *)

DRequests == [phase : DPhases, rows : Seq(Recs)]
DRow == [id : Nat, rec : Recs]

\* Until the page is open there is nothing to save or to answer.
DFresh == ~mounted => DQuiet /\ ~showForm

\* While the user waits for every answer there is one request; between requests the
\* table is the stored one.
DSaves ==
  ~dmishap =>
    /\ \A s, t \in Slots : dnet[s] # NoDRequest /\ dnet[t] # NoDRequest => s = t
    /\ \A s \in Slots : dnet[s].phase = "got" => dnet[s].rows = records
    /\ mounted /\ DQuiet => Table(drows) = records

DInv == RecordTypeOK /\ DFresh /\ DSaves

LEMMA DConstants ==
  /\ NoDRequest \in DRequests /\ NoDRequest.phase = "idle" /\ DLoad \in DRequests /\ DLoad.phase = "get"
  /\ <<>> \in Seq(Recs) /\ <<>> \in Seq(DRow) /\ Len(<<>>) = 0
BY DEF NoDRequest, DLoad, DRequests, DPhases

\* The table that is posted has the records of the rows.
LEMMA TableOf ==
  ASSUME NEW d \in Seq(DRow)
  PROVE  /\ Table(d) \in Seq(Recs) /\ Len(Table(d)) = Len(d)
         /\ \A i \in 1..Len(d) : Table(d)[i] = d[i].rec
<1>0. Len(d) \in Nat /\ \A i \in 1..Len(d) : d[i] \in DRow OBVIOUS
<1>1. Len(d) \in Nat /\ \A i \in 1..Len(d) : d[i].rec \in Recs BY <1>0 DEF DRow
<1>2. Table(d) \in [1..Len(d) -> Recs] BY <1>1 DEF Table
<1> QED BY <1>1, <1>2 DEF Table

LEMMA DOneSlot ==
  ASSUME RecordTypeOK, NEW s \in Slots, NEW r \in DRequests, dnet' = [dnet EXCEPT ![s] = r]
  PROVE  /\ dnet' \in [Slots -> DRequests] /\ dnet'[s] = r
         /\ \A t \in Slots \ {s} : dnet'[t] = dnet[t]
BY DEF RecordTypeOK, DRequests

LEMMA DInitially == ASSUME RecordInit PROVE DInv
<1>1. /\ Len(OldDomains) \in Nat /\ \A i \in 1..Len(OldDomains) : OldDomains[i] \in Old
  BY RecordAssumption DEF Old
<1>2. /\ records \in Seq(Recs) /\ Len(records) = Len(OldDomains)
      /\ \A i \in 1..Len(OldDomains) : records[i] = [dom |-> OldDomains[i], addr |-> "old"]
  <2>1. \A i \in 1..Len(OldDomains) : [dom |-> OldDomains[i], addr |-> "old"] \in Recs
    BY <1>1 DEF Recs
  <2> QED BY <1>1, <2>1 DEF RecordInit
<1>3. dnet \in [Slots -> DRequests] /\ \A s \in Slots : dnet[s] = NoDRequest
  BY DConstants DEF RecordInit
<1>4. drows \in Seq(DRow) BY DConstants DEF RecordInit
<1>5. RecordTypeOK BY <1>2, <1>3, <1>4 DEF RecordInit, RecordTypeOK, DRequests, DRow
<1>6. DFresh BY <1>3 DEF RecordInit, DFresh, DQuiet
<1>7. DSaves BY <1>3, DConstants DEF RecordInit, DSaves
<1> QED BY <1>5, <1>6, <1>7 DEF DInv

\* A save.
LEMMA DSave ==
  ASSUME DInv, NEW s \in Slots, mounted, drows' \in Seq(DRow), SaveRecords(drows', s),
         UNCHANGED <<records, mounted>>
  PROVE  DSaves' /\ DFresh' /\ dnet' \in [Slots -> DRequests] /\ dmishap' \in BOOLEAN
<1> DEFINE r == [phase |-> "post", rows |-> Table(drows')]
<1>1. r \in DRequests /\ r.phase = "post" /\ r.rows = Table(drows') BY TableOf DEF DRequests, DPhases
<1>2. dnet' = [dnet EXCEPT ![s] = r] /\ dmishap' = (dmishap \/ ~DQuiet)
  BY DEF SaveRecords
<1> HIDE DEF r
<1>3. /\ dnet' \in [Slots -> DRequests] /\ dnet'[s] = r
      /\ \A t \in Slots \ {s} : dnet'[t] = dnet[t]
  BY <1>1, <1>2, DOneSlot DEF DInv
<1>4. ASSUME ~dmishap' PROVE \A t \in Slots \ {s} : dnet'[t] = NoDRequest
  BY <1>2, <1>3, <1>4 DEF DQuiet
<1>5. ~DQuiet' BY <1>1, <1>3, DConstants DEF DQuiet
<1>6. DSaves' BY <1>1, <1>3, <1>4, <1>5, DConstants DEF DSaves
<1>7. DFresh' BY DEF DFresh
<1> QED BY <1>2, <1>3, <1>6, <1>7 DEF DInv, RecordTypeOK

\* The form.
LEMMA DForm ==
  ASSUME DInv,
         \/ \E i \in 1..Len(drows) : PressEditRecord(i)
         \/ \E d \in Domains : TypeRecord(d)
         \/ PressInsert \/ CloseForm
  PROVE  DInv'
<1> USE DEF DInv
<1>1. /\ UNCHANGED <<records, mounted, drows, dnet, dlate, dmishap>>
      /\ showForm' \in BOOLEAN /\ (showForm' => mounted)
  BY DEF PressEditRecord, EditRecord, TypeRecord, PressInsert, CloseForm, MayEdit, RecordTypeOK, DFresh
<1>2. editing' \in Nat /\ text' \in Recs \cup {Null}
  <2>1. ASSUME NEW i \in 1..Len(drows), PressEditRecord(i) PROVE editing' \in Nat /\ text' \in Recs
    <3>1. drows \in Seq(DRow) BY DEF RecordTypeOK, DRow
    <3>2. drows[i] \in DRow BY <3>1
    <3> QED BY <2>1, <3>2 DEF PressEditRecord, EditRecord, DRow
  <2>2. ASSUME NEW d \in Domains, TypeRecord(d) PROVE editing' \in Nat /\ text' \in Recs
    BY <2>2 DEF TypeRecord, Recs, RecordTypeOK
  <2>3. CASE PressInsert \/ CloseForm BY <2>3 DEF PressInsert, CloseForm, RecordTypeOK
  <2> QED BY <2>1, <2>2, <2>3
<1>3. RecordTypeOK' BY <1>1, <1>2 DEF RecordTypeOK
<1>4. DFresh' BY <1>1 DEF DFresh, DQuiet
<1>5. DSaves' BY <1>1 DEF DSaves, DQuiet, Table
<1> QED BY <1>3, <1>4, <1>5

\* addSaveRow.
LEMMA DSubmit == ASSUME DInv, NEW s \in Slots, SubmitRecord(s) PROVE DInv'
<1> USE DEF DInv
<1>0. /\ mounted /\ text \in Recs /\ drows \in Seq(DRow) /\ editing \in Nat /\ Len(drows) \in Nat
      /\ UNCHANGED <<records, mounted, text, showForm, dlate>> /\ SaveRecords(drows', s)
  BY DEF SubmitRecord, DFresh, RecordTypeOK, DRow
<1>1. drows' \in Seq(DRow) /\ editing' \in Nat
  <2>1. CASE editing # 0
    <3> DEFINE r == [drows[editing] EXCEPT !.rec = text]
    <3>1. /\ editing \in 1..Len(drows) /\ drows' = [drows EXCEPT ![editing].rec = text]
          /\ editing' = 0
      BY <1>0, <2>1 DEF SubmitRecord
    <3>2. drows[editing] \in DRow BY <1>0, <3>1
    <3>3. r \in DRow /\ drows' = [drows EXCEPT ![editing] = r] BY <1>0, <3>1, <3>2 DEF DRow
    <3> HIDE DEF r
    <3> QED BY <1>0, <3>1, <3>3
  <2>2. CASE editing = 0
    <3> DEFINE r == [id |-> Len(drows) + 1, rec |-> text]
    <3>1. drows' = Append(drows, r) /\ UNCHANGED editing BY <2>2 DEF SubmitRecord
    <3>2. r \in DRow BY <1>0 DEF DRow
    <3> HIDE DEF r
    <3> QED BY <1>0, <3>1, <3>2
  <2> QED BY <2>1, <2>2
<1>2. DSaves' /\ DFresh' /\ dnet' \in [Slots -> DRequests] /\ dmishap' \in BOOLEAN
  BY <1>0, <1>1, DSave
<1> QED BY <1>0, <1>1, <1>2 DEF RecordTypeOK, DRequests, DRow

\* deleteRow.
LEMMA DDelete ==
  ASSUME DInv, NEW s \in Slots, NEW i \in 1..Len(drows), DeleteRecord(i, s) PROVE DInv'
<1> USE DEF DInv
<1> DEFINE K == {j \in 1..Len(drows) : drows[j].id # drows[i].id}
<1>0. /\ mounted /\ drows \in Seq(DRow) /\ Len(drows) \in Nat /\ K \in SUBSET (1..Len(drows))
      /\ UNCHANGED <<records, mounted, editing, text, showForm, dlate>> /\ SaveRecords(drows', s)
      /\ drows' = Kept(drows, K)
  BY DEF DeleteRecord, MayEdit, RecordTypeOK, DRow
<1>1. drows' \in Seq(DRow)
  <2> HIDE DEF K
  <2> QED BY <1>0, KeptEntries
<1>2. DSaves' /\ DFresh' /\ dnet' \in [Slots -> DRequests] /\ dmishap' \in BOOLEAN
  BY <1>0, <1>1, DSave
<1> QED BY <1>0, <1>1, <1>2 DEF RecordTypeOK, DRequests, DRow

\* A load starts: at first, or after a save.
LEMMA DLoads ==
  ASSUME DInv, NEW s \in Slots, MountRecords(s) \/ RecordsSaved(s) \/ SaveFails(s) PROVE DInv'
<1> USE DEF DInv
<1>1. /\ dnet' = [dnet EXCEPT ![s] = DLoad] /\ mounted' \in BOOLEAN /\ (mounted => mounted')
      /\ UNCHANGED <<records, editing, dmishap>> /\ drows' \in {drows, <<>>}
      /\ text' \in {text, Null} /\ showForm' \in {showForm, FALSE}
      /\ (mounted' \/ UNCHANGED mounted)
  BY DEF MountRecords, RecordsSaved, SaveFails, RecordTypeOK
<1>a. dlate' \in Seq(Recs) \cup {Null}
  <2>1. dnet[s].rows \in Seq(Recs) BY DEF RecordTypeOK
  <2> QED BY <2>1 DEF MountRecords, RecordsSaved, SaveFails, RecordTypeOK
<1>2. /\ dnet' \in [Slots -> DRequests] /\ dnet'[s] = DLoad
      /\ \A t \in Slots \ {s} : dnet'[t] = dnet[t]
  BY <1>1, DConstants, DOneSlot
<1>3. mounted' /\ (~dmishap => \A t \in Slots \ {s} : dnet[t] = NoDRequest)
  <2>1. CASE MountRecords(s) BY <2>1 DEF MountRecords, DFresh, DQuiet
  <2>2. CASE RecordsSaved(s) \/ SaveFails(s)
    <3>1. dnet[s].phase # "idle" BY <2>2 DEF RecordsSaved, SaveFails
    <3>2. mounted BY <3>1, DConstants DEF DFresh, DQuiet
    <3> QED BY <1>1, <3>1, <3>2, DConstants DEF DSaves
  <2> QED BY <2>1, <2>2
<1>4. drows' \in Seq(DRow) BY <1>1, DConstants DEF RecordTypeOK, DRow
<1>5. RecordTypeOK' BY <1>1, <1>a, <1>2, <1>4 DEF RecordTypeOK, DRequests, DRow
<1>6. DFresh' BY <1>3 DEF DFresh
<1>7. ~DQuiet' BY <1>2, DConstants DEF DQuiet
<1>8. DSaves' BY <1>1, <1>2, <1>3, <1>7, DConstants DEF DSaves
<1> QED BY <1>5, <1>6, <1>8

\* A load ends.
LEMMA DEnds == ASSUME DInv, NEW s \in Slots, RecordsLoaded(s) \/ LoadFails(s) PROVE DInv'
<1> USE DEF DInv
<1>1. /\ dnet' = [dnet EXCEPT ![s] = NoDRequest] /\ dnet[s].phase # "idle"
      /\ UNCHANGED <<records, mounted, editing, text, showForm, dlate>>
  BY DEF RecordsLoaded, LoadFails
<1>2. /\ dnet' \in [Slots -> DRequests] /\ dnet'[s] = NoDRequest /\ dnet[s] \in DRequests
      /\ \A t \in Slots \ {s} : dnet'[t] = dnet[t]
  BY <1>1, DConstants, DOneSlot DEF RecordTypeOK, DRequests
<1>3. mounted BY <1>1, DConstants DEF DFresh, DQuiet
<1>4. CASE RecordsLoaded(s)
  <2> DEFINE q == dnet[s].rows
             d == [i \in 1..Len(q) |-> [id |-> i, rec |-> q[i]]]
  <2>1. /\ q \in Seq(Recs) /\ Len(q) \in Nat /\ drows' = d /\ dnet[s].phase = "got"
        /\ UNCHANGED dmishap
    BY <1>2, <1>4 DEF RecordsLoaded, DRequests
  <2> HIDE DEF q
  <2>2. \A i \in 1..Len(q) : [id |-> i, rec |-> q[i]] \in DRow BY <2>1 DEF DRow
  <2>3. d \in Seq(DRow) /\ Len(d) = Len(q) BY <2>1, <2>2
  <2>4. \A i \in 1..Len(q) : d[i].id = i /\ d[i].rec = q[i] OBVIOUS
  <2> HIDE DEF d
  <2>5. Table(d) = q BY <2>1, <2>3, <2>4, TableOf
  <2>6. RecordTypeOK' BY <1>1, <1>2, <2>1, <2>3 DEF RecordTypeOK, DRequests, DRow
  <2>7. DFresh' BY <1>1, <1>3 DEF DFresh
  <2>8. DSaves'
    <3>1. ~dmishap => \A t \in Slots \ {s} : dnet[t] = NoDRequest
      BY <1>1, DConstants DEF DSaves
    <3>2. ~dmishap => q = records BY <2>1 DEF DSaves, q
    <3> QED BY <1>1, <1>2, <2>1, <2>3, <2>4, <2>5, <3>1, <3>2, DConstants DEF DSaves
  <2> QED BY <2>6, <2>7, <2>8
<1>5. CASE LoadFails(s)
  <2>1. dmishap' = TRUE /\ UNCHANGED drows BY <1>5 DEF LoadFails
  <2>2. RecordTypeOK' BY <1>1, <1>2, <2>1 DEF RecordTypeOK, DRequests
  <2> QED BY <1>1, <1>3, <2>1, <2>2 DEF DFresh, DSaves
<1> QED BY <1>4, <1>5

\* The server.
LEMMA DServer == ASSUME DInv, NEW s \in Slots, GetRecords(s) \/ PostRecords(s) PROVE DInv'
<1> USE DEF DInv
<1>0. /\ dnet[s] \in DRequests /\ records \in Seq(Recs) /\ dnet[s].phase # "idle"
      /\ UNCHANGED <<mounted, drows, editing, text, showForm, dlate, dmishap>>
  BY DEF GetRecords, PostRecords, RecordTypeOK, DRequests
<1>1. mounted BY <1>0, DConstants DEF DFresh, DQuiet
<1>2. ~dmishap => \A t \in Slots \ {s} : dnet[t] = NoDRequest
  BY <1>0, DConstants DEF DSaves
<1>3. CASE GetRecords(s)
  <2> DEFINE r == [phase |-> "got", rows |-> records]
  <2>1. /\ r \in DRequests /\ r.phase = "got" /\ r.rows = records
        /\ dnet' = [dnet EXCEPT ![s] = r] /\ UNCHANGED records
    BY <1>0, <1>3 DEF GetRecords, DRequests, DPhases
  <2> HIDE DEF r
  <2>2. /\ dnet' \in [Slots -> DRequests] /\ dnet'[s] = r
        /\ \A t \in Slots \ {s} : dnet'[t] = dnet[t]
    BY <2>1, DOneSlot
  <2>3. ~DQuiet' BY <2>1, <2>2, DConstants DEF DQuiet
  <2>4. RecordTypeOK' BY <1>0, <2>1, <2>2 DEF RecordTypeOK, DRequests
  <2>5. DSaves' BY <1>0, <1>2, <2>1, <2>2, <2>3, DConstants DEF DSaves
  <2> QED BY <1>0, <1>1, <2>4, <2>5 DEF DFresh
<1>4. ASSUME NEW p \in {"saved", "refused"}, dnet' = [dnet EXCEPT ![s].phase = p],
             dnet[s].phase = "post", records' \in {records, dnet[s].rows}
      PROVE  DInv'
  <2> DEFINE r == [dnet[s] EXCEPT !.phase = p]
  <2>1. r \in DRequests /\ r.phase = p /\ dnet[s].rows \in Seq(Recs) BY <1>0, <1>4 DEF DRequests, DPhases
  <2>2. dnet' = [dnet EXCEPT ![s] = r] BY <1>4 DEF RecordTypeOK
  <2> HIDE DEF r
  <2>3. /\ dnet' \in [Slots -> DRequests] /\ dnet'[s] = r
        /\ \A t \in Slots \ {s} : dnet'[t] = dnet[t]
    BY <2>1, <2>2, DOneSlot
  <2>4. ~DQuiet' BY <1>4, <2>1, <2>3, DConstants DEF DQuiet
  <2>5. RecordTypeOK' BY <1>0, <1>4, <2>1, <2>3 DEF RecordTypeOK, DRequests
  <2>6. DSaves' BY <1>0, <1>2, <1>4, <2>1, <2>3, <2>4, DConstants DEF DSaves
  <2> QED BY <1>0, <1>1, <2>5, <2>6 DEF DFresh
<1>5. CASE PostRecords(s) BY <1>4, <1>5 DEF PostRecords
<1> QED BY <1>3, <1>5

\* A save that was given up is stored.
LEMMA DLate == ASSUME DInv, PostLate PROVE DInv'
<1> USE DEF DInv
<1>1. /\ records' \in Seq(Recs) /\ dlate' = Null
      /\ dmishap' = (dmishap \/ \A s \in Slots : dnet[s].phase \in {"idle", "got"})
      /\ UNCHANGED <<mounted, drows, editing, text, showForm, dnet>>
  BY DEF PostLate, RecordTypeOK
<1>2. RecordTypeOK' BY <1>1 DEF RecordTypeOK
<1>3. DFresh' BY <1>1 DEF DFresh, DQuiet
<1>4. DSaves'
  <2> SUFFICES ASSUME ~dmishap' PROVE DSaves' BY DEF DSaves
  <2>1. PICK s \in Slots : dnet[s].phase \notin {"idle", "got"} BY <1>1
  <2>2. ~dmishap /\ dnet[s] # NoDRequest BY <1>1, <2>1, DConstants
  <2>3. \A t \in Slots \ {s} : dnet[t] = NoDRequest BY <2>2 DEF DSaves
  <2> QED BY <1>1, <2>1, <2>2, <2>3, DConstants DEF DSaves, DQuiet
<1> QED BY <1>2, <1>3, <1>4

LEMMA DStep == ASSUME DInv, [RecordNext]_recordVars PROVE DInv'
<1>1. CASE UNCHANGED recordVars
  BY <1>1 DEF recordVars, DInv, RecordTypeOK, DFresh, DSaves, DQuiet, Table
<1>2. CASE RecordNext
  BY <1>2, DForm, DSubmit, DDelete, DLoads, DEnds, DServer, DLate DEF RecordNext
<1> QED BY <1>1, <1>2

LEMMA DInvariant == RecordSpec => []DInv
BY DInitially, DStep, PTL DEF RecordSpec

\* Failed and refused saves end in a load as well: while the user waits for every
\* answer, no load is lost and no save comes after its load, the table is the stored one
\* between requests, for any number of records.
THEOREM RecordsTableTrue == RecordSpec => []TableIsStored
<1>1. DInv => TableIsStored BY DEF DInv, DSaves, TableIsStored
<1> QED BY <1>1, DInvariant, PTL

-----------------------------------------------------------------------------
(* The filter editor.                                                      *)

Has(r, x) == \E j \in 1..Len(r) : r[j] = x

FRequests == [phase : {"idle", "get", "got", "post"}, rows : Lists]
FRow == [id : Nat, item : Items]

\* One load at a time, of a page that is loading; ids are not 0, which stands for null.
FLoads ==
  /\ \A s, t \in Slots : fnet[s].phase \in {"get", "got"} /\ fnet[t].phase \in {"get", "got"} => s = t
  /\ \A s \in Slots : fnet[s].phase \in {"get", "got"} => loaded = "loading"
  /\ \A i \in 1..Len(data) : data[i].id # 0

\* Saves that did not overlap: the rows are the list, or on their way to it, but for the
\* row being edited.
FSaves ==
  awry \subseteq {"twin"} =>
    /\ \A s, t \in Slots : fnet[s].phase = "post" /\ fnet[t].phase = "post" => s = t
    /\ loaded # "yes" => ~Posting
    /\ \A s \in Slots : fnet[s].phase = "got" => fnet[s].rows = list
    /\ loaded = "yes" /\ editingRowId = 0 =>
         /\ \A s \in Slots : fnet[s].phase = "post" => fnet[s].rows = Payload(data)
         /\ ~Posting => list = Payload(data)

\* Without a reused id every untouched row is in the editor, in the saves and in the list.
FKept ==
  awry = {} =>
    /\ \A i, j \in 1..Len(data) : data[i].id = data[j].id => i = j
    /\ \A x \in Olds \ touched :
         /\ Has(list, x)
         /\ \A s \in Slots : fnet[s].phase = "post" => Has(fnet[s].rows, x)
         /\ loaded = "yes" => Has(Payload(data), x)

FInv == FilterTypeOK /\ FLoads /\ FSaves /\ FKept
LEMMA FConstants ==
  /\ NoFRequest \in FRequests /\ NoFRequest.phase = "idle"
  /\ <<>> \in Lists /\ <<>> \in Seq(FRow) /\ Len(<<>>) = 0
BY DEF NoFRequest, FRequests, Lists

\* What is posted has the items of the rows.
LEMMA PayloadOf ==
  ASSUME NEW d \in Seq(FRow)
  PROVE  /\ Payload(d) \in Lists /\ Len(Payload(d)) = Len(d)
         /\ \A i \in 1..Len(d) : Payload(d)[i] = d[i].item
<1>0. Len(d) \in Nat /\ \A i \in 1..Len(d) : d[i] \in FRow OBVIOUS
<1>1. Len(d) \in Nat /\ \A i \in 1..Len(d) : d[i].item \in Items BY <1>0 DEF FRow
<1>2. Payload(d) \in [1..Len(d) -> Items] BY <1>1 DEF Payload
<1> QED BY <1>1, <1>2 DEF Payload, Lists

LEMMA FOneSlot ==
  ASSUME FilterTypeOK, NEW s \in Slots, NEW r \in FRequests, fnet' = [fnet EXCEPT ![s] = r]
  PROVE  /\ fnet' \in [Slots -> FRequests] /\ fnet'[s] = r
         /\ \A t \in Slots \ {s} : fnet'[t] = fnet[t]
BY DEF FilterTypeOK, FRequests

LEMMA FInitially == ASSUME FilterInit PROVE FInv
<1>1. /\ Len(OldItems) \in Nat /\ OldItems \in Lists
      /\ \A x \in Olds : Has(OldItems, x)
  BY FilterAssumption DEF Olds, Has, Lists, Items
<1>2. fnet \in [Slots -> FRequests] /\ \A s \in Slots : fnet[s] = NoFRequest
  BY FConstants DEF FilterInit
<1>3. data \in Seq(FRow) /\ Len(data) = 0 BY FConstants DEF FilterInit
<1>4. FilterTypeOK BY <1>1, <1>2, <1>3 DEF FilterInit, FilterTypeOK, FRequests, FRow
<1>5. FLoads BY <1>2, <1>3, FConstants DEF FLoads
<1>6. FSaves BY <1>2, FConstants DEF FilterInit, FSaves, Posting
<1>7. FKept BY <1>1, <1>2, <1>3, FConstants DEF FilterInit, FKept
<1> QED BY <1>4, <1>5, <1>6, <1>7 DEF FInv

\* A save of rows that have every item nobody touched.
LEMMA FSave ==
  ASSUME FInv, NEW s \in Slots, NEW more \in SUBSET {"twin"}, SaveData(data', more, s),
         data' \in Seq(FRow), \A i \in 1..Len(data') : data'[i].id # 0,
         UNCHANGED <<list, loaded>>, touched \subseteq touched', touched' \subseteq Olds,
         editingRowId' \in Nat,
         awry = {} /\ more = {} =>
           /\ \A i, j \in 1..Len(data') : data'[i].id = data'[j].id => i = j
           /\ loaded = "yes" => \A x \in Olds \ touched' : Has(Payload(data'), x)
  PROVE  FInv'
<1> USE DEF FInv
<1> DEFINE r == [phase |-> "post", rows |-> Payload(data')]
<1>1. r \in FRequests /\ r.phase = "post" /\ r.rows = Payload(data') BY PayloadOf DEF FRequests
<1>2. /\ fnet[s] = NoFRequest /\ fnet' = [fnet EXCEPT ![s] = r]
      /\ awry' = awry \cup more \cup (IF loaded = "yes" THEN {} ELSE {"early"})
                                \cup (IF Posting THEN {"race"} ELSE {})
  BY DEF SaveData
<1> HIDE DEF r
<1>3. /\ fnet' \in [Slots -> FRequests] /\ fnet'[s] = r
      /\ \A t \in Slots \ {s} : fnet'[t] = fnet[t]
  BY <1>1, <1>2, FOneSlot
<1>4. awry' \subseteq Awry BY <1>2 DEF Awry, FilterTypeOK
<1>5. FilterTypeOK' BY <1>3, <1>4 DEF FilterTypeOK, FRequests, FRow
<1>6. FLoads' BY <1>1, <1>3 DEF FLoads
<1>7. ASSUME awry' \subseteq {"twin"}
      PROVE  awry \subseteq {"twin"} /\ loaded = "yes" /\ ~Posting
  BY <1>2, <1>7
<1>8. FSaves'
  <2> SUFFICES ASSUME awry' \subseteq {"twin"} PROVE FSaves' BY DEF FSaves
  <2>1. Posting' BY <1>1, <1>3 DEF Posting
  <2>2. \A t \in Slots : fnet'[t].phase = "post" => t = s BY <1>3, <1>7 DEF Posting
  <2>3. \A t \in Slots : fnet'[t].phase = "got" => fnet'[t].rows = list'
    BY <1>1, <1>3, <1>7 DEF FSaves
  <2> QED BY <1>1, <1>3, <1>7, <2>1, <2>2, <2>3 DEF FSaves
<1>9. FKept'
  <2> SUFFICES ASSUME awry' = {} PROVE FKept' BY DEF FKept
  <2>1. awry = {} /\ more = {} /\ loaded = "yes" /\ ~Posting BY <1>2, <1>7
  <2>2. \A t \in Slots : fnet'[t].phase = "post" => t = s BY <1>3, <2>1 DEF Posting
  <2> QED BY <1>1, <1>3, <2>1, <2>2 DEF FKept, Has
<1> QED BY <1>5, <1>6, <1>8, <1>9

\* A change of the rows that is not saved yet, with a row open for editing.
LEMMA FEdit ==
  ASSUME FInv, NEW more \in SUBSET {"twin"}, awry' = awry \cup more,
         data' \in Seq(FRow), \A i \in 1..Len(data') : data'[i].id # 0,
         UNCHANGED <<list, loaded, fnet>>, touched \subseteq touched', touched' \subseteq Olds,
         editingRowId' \in Nat \ {0},
         awry = {} /\ more = {} =>
           /\ \A i, j \in 1..Len(data') : data'[i].id = data'[j].id => i = j
           /\ loaded = "yes" => \A x \in Olds \ touched' : Has(Payload(data'), x)
  PROVE  FInv'
<1> USE DEF FInv
<1>1. awry' \subseteq Awry BY DEF Awry, FilterTypeOK
<1>2. FilterTypeOK' BY <1>1 DEF FilterTypeOK, FRow
<1>3. FLoads' BY DEF FLoads
<1>4. FSaves' BY DEF FSaves, Posting
<1>5. FKept' BY DEF FKept, Has
<1> QED BY <1>2, <1>3, <1>4, <1>5

\* The rows before a change.
LEMMA FRows ==
  ASSUME FInv
  PROVE  /\ data \in Seq(FRow) /\ Len(data) \in Nat
         /\ \A i \in 1..Len(data) : data[i] \in FRow /\ data[i].id \in Nat \ {0}
         /\ touched \subseteq Olds /\ editingRowId \in Nat /\ {} \in SUBSET {"twin"}
         /\ awry = {} =>
              /\ \A i, j \in 1..Len(data) : data[i].id = data[j].id => i = j
              /\ loaded = "yes" =>
                   \A x \in Olds \ touched : \E j \in 1..Len(data) : data[j].item = x
<1>1. data \in Seq(FRow) /\ touched \subseteq Olds /\ editingRowId \in Nat
  BY DEF FInv, FilterTypeOK, FRow
<1>2. Len(data) \in Nat /\ \A i \in 1..Len(data) : data[i] \in FRow BY <1>1
<1>3. \A i \in 1..Len(data) : data[i].id \in Nat \ {0} BY <1>2 DEF FInv, FLoads, FRow
<1> QED BY <1>1, <1>2, <1>3, PayloadOf DEF FInv, FKept, Has

\* editRow.
LEMMA FPress ==
  ASSUME FInv, NEW s \in Slots, NEW i \in 1..Len(data), PressEdit(i, s) PROVE FInv'
<1>1. data' = data /\ UNCHANGED <<list, loaded, touched>> BY DEF PressEdit
<1>2. awry = {} /\ loaded = "yes" => \A x \in Olds \ touched' : Has(Payload(data'), x)
  BY <1>1 DEF FInv, FKept
<1>3. CASE editingRowId = data[i].id
  <2>1. SaveData(data', {}, s) /\ editingRowId' = 0 BY <1>1, <1>3 DEF PressEdit, EditRow
  <2> QED BY <1>1, <1>2, <2>1, FRows, FSave
<1>4. CASE editingRowId # data[i].id
  <2>1. editingRowId' = data[i].id /\ awry' = awry \cup {} /\ UNCHANGED fnet
    BY <1>4 DEF PressEdit, EditRow
  <2> QED BY <1>1, <1>2, <2>1, FRows, FEdit
<1> QED BY <1>3, <1>4

\* handleContentChange.
LEMMA FType == ASSUME FInv, NEW i \in 1..Len(data), TypeItem(i) PROVE FInv'
<1> DEFINE Row(j) == IF data[j].id = data[i].id THEN [data[j] EXCEPT !.item = Edited] ELSE data[j]
           d == [j \in 1..Len(data) |-> Row(j)]
<1>1. /\ data' = d /\ touched' = touched \cup ({data[i].item} \cap Olds)
      /\ editingRowId' = data[i].id /\ awry' = awry \cup {}
      /\ UNCHANGED <<list, loaded, fnet>>
  BY DEF TypeItem, ContentChange
<1>2. \A j \in 1..Len(data) : Row(j) \in FRow /\ Row(j).id = data[j].id
  BY FRows DEF FRow, Items
<1>3. \A j \in 1..Len(data) : data[j].id # data[i].id => Row(j) = data[j] OBVIOUS
<1> HIDE DEF Row
<1>4. d \in Seq(FRow) /\ Len(d) = Len(data) /\ \A j \in 1..Len(data) : d[j] = Row(j) BY <1>2, FRows
<1> HIDE DEF d
<1>5. ASSUME awry = {}, loaded = "yes", NEW x \in Olds \ touched' PROVE Has(Payload(d), x)
  <2>1. PICK j \in 1..Len(data) : data[j].item = x BY <1>1, <1>5, FRows
  <2>2. j # i BY <1>1, <1>5, <2>1
  <2>3. data[j].id # data[i].id BY <1>5, <2>2, FRows
  <2> QED BY <1>3, <1>4, <2>1, <2>3, PayloadOf DEF Has
<1>6. \A j \in 1..Len(d) : d[j].id # 0 BY <1>2, <1>4, FRows
<1>7. awry = {} => \A j, k \in 1..Len(d) : d[j].id = d[k].id => j = k BY <1>2, <1>4, FRows
<1> QED BY <1>1, <1>4, <1>5, <1>6, <1>7, FRows, FEdit

\* removeRow.
LEMMA FRemove ==
  ASSUME FInv, NEW s \in Slots, NEW i \in 1..Len(data), RemoveRow(i, s) PROVE FInv'
<1> DEFINE K == {j \in 1..Len(data) : data[j].id # data[i].id}
           d == Kept(data, K)
<1>1. /\ data' = d /\ touched' = touched \cup ({data[i].item} \cap Olds)
      /\ SaveData(d, {}, s) /\ UNCHANGED <<list, loaded, editingRowId>>
  BY DEF RemoveRow
<1>2. K \in SUBSET (1..Len(data)) /\ \A j \in 1..Len(data) : data[j].id # data[i].id => j \in K
  OBVIOUS
<1> HIDE DEF K
<1>3. /\ d \in Seq(FRow)
      /\ \A j \in K : \E k \in 1..Len(d) : d[k] = data[j]
      /\ \A k \in 1..Len(d) : \E j \in K : d[k] = data[j]
      /\ \A k, l \in 1..Len(d) :
           k # l => \E a, b \in K : a # b /\ d[k] = data[a] /\ d[l] = data[b]
  <2>1. data \in Seq(FRow) BY FRows
  <2> QED BY <1>2, <2>1, KeptEntries
<1> HIDE DEF d
<1>4. \A k \in 1..Len(d) : d[k].id # 0
  <2> SUFFICES ASSUME NEW k \in 1..Len(d) PROVE d[k].id # 0 OBVIOUS
  <2>1. PICK j \in K : d[k] = data[j] BY <1>3
  <2> QED BY <1>2, <2>1, FRows
<1>5. ASSUME awry = {}, NEW k \in 1..Len(d), NEW l \in 1..Len(d), d[k].id = d[l].id PROVE k = l
  <2> SUFFICES ASSUME k # l PROVE FALSE OBVIOUS
  <2>1. PICK a \in K, b \in K : a # b /\ d[k] = data[a] /\ d[l] = data[b] BY <1>3
  <2> QED BY <1>2, <1>5, <2>1, FRows
<1>6. ASSUME awry = {}, loaded = "yes", NEW x \in Olds \ touched' PROVE Has(Payload(d), x)
  <2>1. PICK j \in 1..Len(data) : data[j].item = x BY <1>1, <1>6, FRows
  <2>2. j # i BY <1>1, <1>6, <2>1
  <2>3. j \in K BY <1>2, <1>6, <2>2, FRows
  <2>4. PICK k \in 1..Len(d) : d[k] = data[j] BY <1>3, <2>3
  <2> QED BY <1>3, <2>1, <2>4, PayloadOf DEF Has
<1> QED BY <1>1, <1>3, <1>4, <1>5, <1>6, FRows, FSave

\* addRow.
LEMMA FAdd == ASSUME FInv, NEW s \in Slots, AddRow(s) PROVE FInv'
<1> DEFINE id == Len(data) + 1
           r == [id |-> id, item |-> NewItem]
           d == Append(data, r)
           more == IF \E i \in 1..Len(data) : data[i].id = id THEN {"twin"} ELSE {}
<1>1. data' = d /\ EditRow(id, d, more, s) /\ UNCHANGED <<list, loaded, touched>> BY DEF AddRow
<1>2. r \in FRow /\ r.id = id /\ id \in Nat \ {0} BY FRows DEF FRow, Items
<1>3. more \in SUBSET {"twin"} /\ (more = {} => \A i \in 1..Len(data) : data[i].id # id) OBVIOUS
<1> HIDE DEF r, more
<1>4. /\ d \in Seq(FRow) /\ Len(d) = id /\ d[id] = r
      /\ \A i \in 1..Len(data) : i \in 1..Len(d) /\ d[i] = data[i]
      /\ \A i \in 1..Len(d) : i # id => i \in 1..Len(data)
  BY <1>2, FRows
<1> HIDE DEF d
<1>5. \A i \in 1..Len(d) : d[i].id # 0 BY <1>2, <1>4, FRows
<1>6. awry = {} /\ more = {} => \A i, j \in 1..Len(d) : d[i].id = d[j].id => i = j
  BY <1>2, <1>3, <1>4, FRows
<1>7. ASSUME awry = {}, loaded = "yes", NEW x \in Olds \ touched' PROVE Has(Payload(d), x)
  <2>1. PICK j \in 1..Len(data) : data[j].item = x BY <1>1, <1>7, FRows
  <2> QED BY <1>4, <2>1, PayloadOf DEF Has
<1>8. CASE editingRowId = id
  <2>1. SaveData(d, more, s) /\ editingRowId' = 0 BY <1>1, <1>8 DEF EditRow
  <2> QED BY <1>1, <1>3, <1>4, <1>5, <1>6, <1>7, <2>1, FRows, FSave
<1>9. CASE editingRowId # id
  <2>1. editingRowId' = id /\ awry' = awry \cup more /\ UNCHANGED fnet BY <1>1, <1>9 DEF EditRow
  <2> HIDE DEF id
  <2> QED BY <1>1, <1>2, <1>3, <1>4, <1>5, <1>6, <1>7, <2>1, FRows, FEdit
<1> QED BY <1>8, <1>9

\* loadAPIdata and its answer.
LEMMA FLoad == ASSUME FInv, NEW s \in Slots, FilterLoaded(s) PROVE FInv'
<1> USE DEF FInv
<1> DEFINE q == fnet[s].rows
           d == [i \in 1..Len(q) |-> [id |-> i, item |-> q[i]]]
<1>0. fnet[s] \in FRequests BY DEF FilterTypeOK, FRequests
<1>1. /\ fnet[s].phase = "got" /\ q \in Seq(Items) /\ Len(q) \in Nat /\ data' = d /\ loaded' = "yes"
      /\ awry' = awry \cup (IF editingRowId = 0 THEN {} ELSE {"early"})
      /\ fnet' = [fnet EXCEPT ![s] = NoFRequest] /\ UNCHANGED <<list, editingRowId, touched>>
  BY <1>0 DEF FilterLoaded, FRequests, Lists
<1> HIDE DEF q
<1>2. \A i \in 1..Len(q) : [id |-> i, item |-> q[i]] \in FRow BY <1>1 DEF FRow
<1>3. d \in Seq(FRow) /\ Len(d) = Len(q) BY <1>1, <1>2
<1>4. \A i \in 1..Len(q) : d[i].id = i /\ d[i].item = q[i] OBVIOUS
<1> HIDE DEF d
<1>5. Payload(d) = q BY <1>1, <1>3, <1>4, PayloadOf DEF Lists
<1>6. /\ fnet' \in [Slots -> FRequests] /\ fnet'[s] = NoFRequest
      /\ \A t \in Slots \ {s} : fnet'[t] = fnet[t]
  BY <1>1, FConstants, FOneSlot
<1>7. loaded = "loading" /\ \A t \in Slots : fnet'[t].phase \notin {"get", "got"}
  BY <1>1, <1>6, FConstants DEF FLoads
<1>8. awry \subseteq awry' /\ awry' \subseteq Awry BY <1>1 DEF FilterTypeOK, Awry
<1>9. FilterTypeOK' BY <1>1, <1>3, <1>6, <1>8 DEF FilterTypeOK, FRequests, FRow
<1>10. FLoads' BY <1>1, <1>3, <1>4, <1>7 DEF FLoads
<1>11. ASSUME awry \subseteq {"twin"}
       PROVE  q = list /\ \A t \in Slots : fnet'[t].phase # "post"
  BY <1>1, <1>6, <1>7, <1>11, FConstants DEF FSaves, Posting, q
<1>12. FSaves' BY <1>1, <1>5, <1>7, <1>8, <1>11 DEF FSaves, Posting
<1>13. FKept'
  <2> SUFFICES ASSUME awry' = {} PROVE FKept' BY DEF FKept
  <2>1. awry = {} /\ awry \subseteq {"twin"} BY <1>8
  <2> QED BY <1>1, <1>3, <1>4, <1>5, <1>11, <2>1 DEF FKept, Has
<1> QED BY <1>9, <1>10, <1>12, <1>13

LEMMA FOpen == ASSUME FInv, NEW s \in Slots, OpenEditor(s) PROVE FInv'
<1> USE DEF FInv
<1> DEFINE r == [phase |-> "get", rows |-> <<>>]
<1>1. r \in FRequests /\ r.phase = "get" BY FConstants DEF FRequests
<1>2. /\ fnet' = [t \in Slots |-> IF t = s THEN r
                                  ELSE IF fnet[t].phase = "post" THEN fnet[t] ELSE NoFRequest]
      /\ data' = <<>> /\ loaded' = "loading" /\ editingRowId' = 0 /\ UNCHANGED <<list, touched>>
      /\ awry' = awry \cup (IF Posting THEN {"race"} ELSE {})
  BY DEF OpenEditor
<1> HIDE DEF r
<1>3. /\ fnet' \in [Slots -> FRequests] /\ fnet'[s] = r
      /\ \A t \in Slots \ {s} : fnet'[t] \in {fnet[t], NoFRequest}
      /\ \A t \in Slots \ {s} : fnet'[t].phase \notin {"get", "got"}
  BY <1>1, <1>2, FConstants DEF FilterTypeOK, FRequests
<1>4. awry \subseteq awry' /\ awry' \subseteq Awry BY <1>2 DEF FilterTypeOK, Awry
<1>5. data' \in Seq(FRow) /\ Len(data') = 0 BY <1>2, FConstants
<1>6. FilterTypeOK' BY <1>2, <1>3, <1>4, <1>5 DEF FilterTypeOK, FRequests, FRow
<1>7. FLoads' BY <1>2, <1>3, <1>5 DEF FLoads
<1>8. ASSUME awry' \subseteq {"twin"} PROVE \A t \in Slots : fnet'[t].phase # "post"
  <2>1. ~Posting BY <1>2, <1>8
  <2> QED BY <1>1, <1>3, <2>1, FConstants DEF Posting
<1>9. FSaves' BY <1>1, <1>2, <1>3, <1>8 DEF FSaves, Posting
<1>10. FKept'
  <2> SUFFICES ASSUME awry' = {} PROVE FKept' BY DEF FKept
  <2>1. awry = {} /\ \A t \in Slots : fnet'[t].phase # "post" BY <1>4, <1>8
  <2> QED BY <1>2, <1>5, <2>1 DEF FKept, Has
<1> QED BY <1>6, <1>7, <1>9, <1>10

\* A lost answer, and the server.
LEMMA FAnswers ==
  ASSUME FInv, NEW s \in Slots, FilterFails(s) \/ GetFilter(s) \/ PostFilter(s) PROVE FInv'
<1> USE DEF FInv
<1>0. /\ fnet[s] \in FRequests /\ list \in Lists /\ fnet[s].phase # "idle"
      /\ UNCHANGED <<data, loaded, editingRowId, touched>>
  BY DEF FilterFails, GetFilter, PostFilter, FilterTypeOK, FRequests
<1>1. CASE FilterFails(s)
  <2>1. /\ fnet' = [fnet EXCEPT ![s] = NoFRequest] /\ UNCHANGED list
        /\ awry' = awry \cup (IF fnet[s].phase = "post" THEN {"race"} ELSE {})
    BY <1>1 DEF FilterFails
  <2>2. /\ fnet' \in [Slots -> FRequests] /\ fnet'[s] = NoFRequest
        /\ \A t \in Slots \ {s} : fnet'[t] = fnet[t]
    BY <2>1, FConstants, FOneSlot
  <2>3. awry \subseteq awry' /\ awry' \subseteq Awry BY <2>1 DEF FilterTypeOK, Awry
  <2>4. FilterTypeOK' BY <1>0, <2>1, <2>2, <2>3 DEF FilterTypeOK, FRequests
  <2>5. FLoads' BY <1>0, <2>2, FConstants DEF FLoads
  <2>6. ASSUME awry' \subseteq {"twin"} PROVE fnet[s].phase # "post" BY <2>1, <2>6
  <2>7. ASSUME awry' \subseteq {"twin"} PROVE Posting' <=> Posting
    BY <2>2, <2>6, <2>7, FConstants DEF Posting
  <2>8. FSaves' BY <1>0, <2>1, <2>2, <2>3, <2>7, FConstants DEF FSaves, Payload
  <2>9. FKept' BY <1>0, <2>1, <2>2, <2>3, FConstants DEF FKept, Has, Payload
  <2> QED BY <2>4, <2>5, <2>8, <2>9
<1>2. CASE GetFilter(s)
  <2> DEFINE r == [phase |-> "got", rows |-> list]
  <2>1. /\ r \in FRequests /\ r.phase = "got" /\ r.rows = list /\ fnet[s].phase = "get"
        /\ fnet' = [fnet EXCEPT ![s] = r] /\ UNCHANGED <<list, awry>>
    BY <1>0, <1>2 DEF GetFilter, FRequests
  <2> HIDE DEF r
  <2>2. /\ fnet' \in [Slots -> FRequests] /\ fnet'[s] = r
        /\ \A t \in Slots \ {s} : fnet'[t] = fnet[t]
    BY <2>1, FOneSlot
  <2>3. FilterTypeOK' BY <1>0, <2>1, <2>2 DEF FilterTypeOK, FRequests
  <2>4. FLoads' BY <1>0, <2>1, <2>2 DEF FLoads
  <2>5. Posting' <=> Posting BY <2>1, <2>2 DEF Posting
  <2>6. FSaves' BY <1>0, <2>1, <2>2, <2>5 DEF FSaves, Payload
  <2>7. FKept'
    <3>1. \A t \in Slots : fnet'[t].phase = "post" => fnet'[t] = fnet[t] BY <2>1, <2>2
    <3>2. Payload(data)' = Payload(data) BY <1>0 DEF Payload
    <3> QED BY <1>0, <2>1, <3>1, <3>2 DEF FKept, Has
  <2> QED BY <2>3, <2>4, <2>6, <2>7
<1>3. CASE PostFilter(s)
  <2>1. /\ fnet[s].phase = "post" /\ fnet[s].rows \in Lists /\ list' = fnet[s].rows
        /\ fnet' = [fnet EXCEPT ![s] = NoFRequest] /\ UNCHANGED awry
    BY <1>0, <1>3 DEF PostFilter, FRequests
  <2>2. /\ fnet' \in [Slots -> FRequests] /\ fnet'[s] = NoFRequest
        /\ \A t \in Slots \ {s} : fnet'[t] = fnet[t]
    BY <2>1, FConstants, FOneSlot
  <2>3. FilterTypeOK' BY <1>0, <2>1, <2>2 DEF FilterTypeOK, FRequests
  <2>4. FLoads' BY <1>0, <2>2, FConstants DEF FLoads
  <2>5. Posting BY <2>1 DEF Posting
  <2>6. ASSUME awry \subseteq {"twin"}
        PROVE  loaded = "yes" /\ \A t \in Slots : fnet'[t].phase \notin {"post", "got"}
    BY <2>1, <2>2, <2>5, <2>6, FConstants DEF FSaves, FLoads
  <2>7. FSaves' BY <1>0, <2>1, <2>6 DEF FSaves, Posting, Payload
  <2>8. FKept'
    <3> SUFFICES ASSUME awry = {} PROVE FKept' BY <2>1 DEF FKept
    <3>1. \A x \in Olds \ touched : Has(list', x) BY <2>1 DEF FKept
    <3>2. \A t \in Slots : fnet'[t].phase # "post" BY <2>6
    <3>3. Payload(data)' = Payload(data) BY <1>0 DEF Payload
    <3> QED BY <1>0, <2>1, <3>1, <3>2, <3>3 DEF FKept, Has
  <2> QED BY <2>3, <2>4, <2>7, <2>8
<1> QED BY <1>1, <1>2, <1>3

LEMMA FStep == ASSUME FInv, [FilterNext]_filterVars PROVE FInv'
<1>1. CASE UNCHANGED filterVars
  <2>1. UNCHANGED <<list, data, loaded, editingRowId, fnet, touched, awry>> BY <1>1 DEF filterVars
  <2>2. FilterTypeOK' BY <2>1 DEF FInv, FilterTypeOK
  <2>3. FLoads' BY <2>1 DEF FInv, FLoads
  <2>4. FSaves' BY <2>1 DEF FInv, FSaves, Posting, Payload
  <2>5. FKept' BY <2>1 DEF FInv, FKept, Payload, Has
  <2> QED BY <2>2, <2>3, <2>4, <2>5 DEF FInv
<1>2. CASE FilterNext
  BY <1>2, FPress, FRemove, FAdd, FOpen, FLoad, FAnswers, FType DEF FilterNext
<1> QED BY <1>1, <1>2

LEMMA FInvariant == FilterSpec => []FInv
BY FInitially, FStep, PTL DEF FilterSpec

\* saveData posts what the editor shows and never reads it back: the stored list is what
\* is shown all the same, for any number of rows.
THEOREM SavesShown == FilterSpec => []SavedIsShown
<1>1. FInv => SavedIsShown BY DEF FInv, FSaves, SavedIsShown
<1> QED BY <1>1, FInvariant, PTL

\* removeRow and handleContentChange go by ids: while no id is in use twice they take no
\* row but their own.
THEOREM RowsStay == FilterSpec => []OthersKept
<1>1. FInv => OthersKept BY DEF FInv, FKept, Has, OthersKept, Olds
<1> QED BY <1>1, FInvariant, PTL
=============================================================================

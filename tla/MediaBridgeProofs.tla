-------------------------- MODULE MediaBridgeProofs --------------------------
(***************************************************************************)
(* Proofs about MediaBridge, for any finite set of calls, any number of    *)
(* retries and any faults.  Two separate invariants: the count of calls in *)
(* inject.js and the path of the signals; the shapes of the whole follow   *)
(* from them.  Then the same about CameraFeed, for any viewers and sockets.*)
(***************************************************************************)
EXTENDS MediaBridge, CameraFeed, FiniteSetTheorems, TLAPS

-----------------------------------------------------------------------------
(* inject.js: vInflight counts the calls that wait, so that poll() cannot  *)
(* report "off" while one does.                                            *)

Waiting == {c \in Calls : call[c] # "idle"}

CInv ==
  /\ call \in [Calls -> {"idle", "asking", "pausing"}]
  /\ vInflight = Cardinality(Waiting)
  /\ AttemptSignalled

\* A call in flight keeps the count above zero.
LEMMA CountPositive ==
  ASSUME Waiting # {} PROVE Cardinality(Waiting) \in Nat \ {0}
<1>1. IsFiniteSet(Waiting) BY ConstAssumption, FS_Subset DEF Waiting
<1> QED BY <1>1, FS_CardinalityType, FS_EmptySet

\* A step that polls leaves "on" as the last signal if a call then waits.
LEMMA CPoll ==
  ASSUME Poll, vInflight' = Cardinality(Waiting)' PROVE AttemptSignalled'
<1> SUFFICES ASSUME NEW c \in Calls, call'[c] \in {"asking", "pausing"} PROVE lastV' = "on"
  BY DEF AttemptSignalled
<1>1. Waiting' # {} BY DEF Waiting
<1>2. Cardinality(Waiting)' \in Nat \ {0}
  <2>1. IsFiniteSet(Waiting') BY ConstAssumption, FS_Subset DEF Waiting
  <2> QED BY <1>1, <2>1, FS_CardinalityType, FS_EmptySet
<1>3. vInflight' > 0 BY <1>2
<1> QED BY <1>3 DEF Poll, CamWanted

\* A call begins.
LEMMA CAsk == ASSUME CInv, NEW c \in Calls, Ask(c) PROVE CInv'
<1>1. Waiting' = Waiting \cup {c} /\ c \notin Waiting BY DEF CInv, Ask, Waiting
<1>2. IsFiniteSet(Waiting) BY ConstAssumption, FS_Subset DEF Waiting
<1>3. Cardinality(Waiting') = Cardinality(Waiting) + 1 BY <1>1, <1>2, FS_AddElement
<1>4. vInflight' = Cardinality(Waiting') BY <1>3 DEF CInv, Ask
<1>5. AttemptSignalled' BY <1>4, CPoll DEF Ask
<1> QED BY <1>4, <1>5 DEF CInv, Ask

\* A call ends.
LEMMA CEnd == ASSUME CInv, NEW c \in Calls, Granted(c) \/ Rejected(c) PROVE CInv'
<1>1. Waiting' = Waiting \ {c} /\ c \in Waiting BY DEF CInv, Granted, Rejected, Waiting
<1>2. IsFiniteSet(Waiting) BY ConstAssumption, FS_Subset DEF Waiting
<1>3. Cardinality(Waiting') = Cardinality(Waiting) - 1 BY <1>1, <1>2, FS_RemoveElement
<1>4. Cardinality(Waiting) \in Nat \ {0} BY <1>1, CountPositive
<1>5. vInflight' = Cardinality(Waiting') BY <1>3, <1>4 DEF CInv, Granted, Rejected, Settle
<1>6. AttemptSignalled' BY <1>5, CPoll DEF Granted, Rejected
<1> QED BY <1>5, <1>6 DEF CInv, Granted, Rejected

\* A call waits on.
LEMMA CRetry == ASSUME CInv, NEW c \in Calls, NotReady(c) \/ Retry(c) PROVE CInv'
<1>1. Waiting' = Waiting BY DEF CInv, NotReady, Retry, Waiting
<1>2. vInflight' = Cardinality(Waiting') BY <1>1 DEF CInv, NotReady, Retry
<1>3. AttemptSignalled' BY DEF CInv, AttemptSignalled, NotReady, Retry, pollVars
<1> QED BY <1>2, <1>3 DEF CInv, NotReady, Retry

\* Another page: nothing waits.
LEMMA CNavigate == ASSUME CInv, Navigate PROVE CInv'
<1>1. Waiting' = {} BY DEF Navigate, Waiting
<1>2. vInflight' = Cardinality(Waiting') BY <1>1, FS_EmptySet DEF Navigate
<1> QED BY <1>2 DEF CInv, Navigate, AttemptSignalled

\* Steps that poll without touching the calls.
LEMMA CTimer == ASSUME CInv, Tick \/ SpeechStart \/ SpeechOff PROVE CInv'
<1>1. UNCHANGED <<call, vInflight>> /\ Poll BY DEF Tick, SpeechStart, SpeechOff, callVars
<1>2. Waiting' = Waiting BY <1>1 DEF Waiting
<1>3. vInflight' = Cardinality(Waiting') BY <1>1, <1>2 DEF CInv
<1> QED BY <1>1, <1>3, CPoll DEF CInv

\* Steps that touch neither the calls nor the last signal.
LEMMA COther == ASSUME CInv, UNCHANGED <<call, vInflight, lastV>> PROVE CInv'
<1>1. Waiting' = Waiting BY DEF Waiting
<1> QED BY <1>1 DEF CInv, AttemptSignalled

LEMMA CStep == ASSUME CInv, [Next]_vars PROVE CInv'
<1>1. CASE UNCHANGED vars BY <1>1, COther DEF vars, callVars, pollVars
<1>2. ASSUME NEW c \in Calls, PageStep(c) PROVE CInv'
  BY <1>2, CAsk, CEnd, CRetry, COther DEF PageStep, Touch, pollVars
<1>3. CASE Tick \/ SpeechStep
  BY <1>3, CTimer, COther DEF SpeechStep, AudioTrack, SpeechEvent, MicOff, callVars, pollVars
<1>4. CASE ContentStep
  BY <1>4, CNavigate, COther
     DEF ContentStep, Forward, Connect, Opened, PubBreaks, PubClosed, callVars, pollVars
<1>5. CASE RelayStep
  BY <1>5, COther DEF RelayStep, Receive, ReceiveLate, OtherPage, callVars, pollVars
<1> QED BY <1>1, <1>2, <1>3, <1>4, <1>5 DEF Next

LEMMA CInitially == ASSUME Init PROVE CInv
<1>1. Waiting = {} BY DEF Init, Waiting
<1> QED BY <1>1, FS_EmptySet DEF Init, CInv, AttemptSignalled

\* The in-flight latch: a page that waits for a camera has signalled "on", however
\* many of its calls overlap, are retried or end, and whenever poll() runs.
THEOREM WaitingIsSignalled == Spec => []AttemptSignalled
<1>1. CInv => AttemptSignalled BY DEF CInv
<1> QED BY <1>1, CInitially, CStep, PTL DEF Spec

(* The path: queue and wire are used in turn, so the last signal of the    *)
(* path is that of its last part that is not empty.                        *)

Last(s, else) == IF s = <<>> THEN else ELSE s[Len(s)]
Latest == Last(posted, Last(queue, Last(wire, heard)))

PShape ==
  /\ posted \in Seq(Signals) /\ queue \in Seq(Signals)
  /\ wire \in Seq(Signals) /\ old \in Seq(Signals)
  /\ lastV \in {"null", "on", "off"}
  /\ ws \in {"none", "connecting", "open", "broken"}

\* Only an open socket has signals under way; only one that is not open queues them.
PathInTurn ==
  /\ ws # "open" => wire = <<>>
  /\ ws \in {"open", "broken"} => queue = <<>>

PInv == PShape /\ PathInTurn /\ (~lost /\ lastV # "null" => Latest = lastV)

LEMMA EmptyIsLengthZero == \A s \in Seq(Signals) : s = <<>> <=> Len(s) = 0
OBVIOUS

LEMMA LastAppend ==
  ASSUME NEW s \in Seq(Signals), NEW x \in Signals, NEW e
  PROVE  Last(Append(s, x), e) = x /\ Append(s, x) \in Seq(Signals)
<1>1. /\ Append(s, x) \in Seq(Signals) /\ Len(Append(s, x)) = Len(s) + 1
      /\ Append(s, x)[Len(s) + 1] = x
  OBVIOUS
<1>2. Append(s, x) # <<>> BY <1>1
<1> QED BY <1>1, <1>2 DEF Last

\* Taking the first signal and handing it on changes the last one of neither.
LEMMA LastTail ==
  ASSUME NEW s \in Seq(Signals), s # <<>>, NEW e
  PROVE  Last(Tail(s), Head(s)) = Last(s, e) /\ Tail(s) \in Seq(Signals) /\ Head(s) \in Signals
<1>1. /\ Tail(s) \in Seq(Signals) /\ Len(Tail(s)) = Len(s) - 1 /\ Len(s) \in Nat /\ Len(s) # 0
      /\ \A i \in 1..Len(Tail(s)) : Tail(s)[i] = s[i + 1]
      /\ Head(s) = s[1] /\ Head(s) \in Signals
  OBVIOUS
<1>2. CASE Tail(s) = <<>>
  <2>1. Len(Tail(s)) = 0 BY <1>1, <1>2, EmptyIsLengthZero
  <2>2. Len(s) = 1 BY <1>1, <2>1
  <2> QED BY <1>1, <1>2, <2>2 DEF Last
<1>3. CASE Tail(s) # <<>>
  <2>1. Len(Tail(s)) # 0 BY <1>1, <1>3
  <2>2. Tail(s)[Len(Tail(s))] = s[Len(s)] BY <1>1, <2>1
  <2> QED BY <1>1, <1>3, <2>2 DEF Last
<1> QED BY <1>2, <1>3

\* The last signal of the whole path, as News has it, is Latest.
LEMMA LastConcat ==
  ASSUME NEW s \in Seq(Signals), NEW t \in Seq(Signals), NEW e
  PROVE  Last(s \o t, e) = Last(t, Last(s, e)) /\ s \o t \in Seq(Signals)
<1>1. /\ s \o t \in Seq(Signals) /\ Len(s \o t) = Len(s) + Len(t)
      /\ Len(s) \in Nat /\ Len(t) \in Nat
      /\ \A i \in 1..(Len(s) + Len(t)) :
           (s \o t)[i] = IF i <= Len(s) THEN s[i] ELSE t[i - Len(s)]
  OBVIOUS
<1>2. /\ s = <<>> <=> Len(s) = 0
      /\ t = <<>> <=> Len(t) = 0
      /\ s \o t = <<>> <=> Len(s \o t) = 0
  BY <1>1, EmptyIsLengthZero
<1>3. CASE Len(t) = 0
  <2>1. s \o t = s BY <1>2, <1>3
  <2> QED BY <1>1, <1>2, <1>3, <2>1 DEF Last
<1>4. CASE Len(t) # 0
  <2>1. (s \o t)[Len(s) + Len(t)] = t[Len(t)] BY <1>1, <1>4
  <2>2. s \o t # <<>> /\ t # <<>> BY <1>1, <1>2, <1>4
  <2> QED BY <1>1, <2>1, <2>2 DEF Last
<1> QED BY <1>3, <1>4

LEMMA PathIsConcat ==
  ASSUME PShape PROVE Path \in Seq(Signals) /\ Last(Path, heard) = Latest
<1> DEFINE a == wire \o queue
           b == a \o posted
<1>1. a \in Seq(Signals) /\ Last(a, heard) = Last(queue, Last(wire, heard))
  BY LastConcat DEF PShape
<1> HIDE DEF a
<1>2. b \in Seq(Signals) /\ Last(b, heard) = Last(posted, Last(a, heard))
  BY <1>1, LastConcat DEF PShape
<1>3. Path = b BY DEF Path, a
<1> QED BY <1>1, <1>2, <1>3 DEF Latest

LEMMA NewsIsLatest == ASSUME PShape PROVE News = Latest
BY PathIsConcat DEF News, Last

\* With a signal on the path it does not matter what the relay has heard.
LEMMA PathDecides ==
  ASSUME PShape, Path # <<>>, UNCHANGED <<wire, queue, posted>> PROVE Latest' = Latest
<1>1. wire # <<>> \/ queue # <<>> \/ posted # <<>>
  <2>1. SUFFICES ASSUME wire = <<>>, queue = <<>>, posted = <<>> PROVE FALSE OBVIOUS
  <2>2. Len(wire \o queue \o posted) = 0 BY <2>1
  <2>3. Path = <<>> BY <2>2, PathIsConcat, EmptyIsLengthZero DEF Path
  <2> QED BY <2>3
<1> QED BY <1>1 DEF Latest, Last

\* A step that polls: a new signal is posted, or the last one still is the page's state.
LEMMA PPoll ==
  ASSUME PInv, Poll, UNCHANGED <<linkVars, heard>> PROVE PInv'
<1>1. UNCHANGED <<ws, queue, wire, old, heard>> BY DEF linkVars
<1>2. CASE lastV' # lastV
  <2>1. posted' = Append(posted, lastV') /\ lastV' \in Signals BY <1>2 DEF Poll, Signals
  <2>2. PShape' BY <1>1, <2>1, LastAppend DEF PInv, PShape, Signals
  <2>3. Latest' = lastV' BY <2>1, LastAppend DEF Latest, PInv, PShape
  <2> QED BY <1>1, <2>2, <2>3 DEF PInv, PathInTurn
<1>3. CASE lastV' = lastV
  <2>1. posted' = posted /\ (lost' <=> lost) BY <1>3 DEF Poll
  <2> QED BY <1>1, <1>3, <2>1 DEF PInv, PShape, PathInTurn, Latest, Last
<1> QED BY <1>2, <1>3

LEMMA PForward == ASSUME PInv, Forward PROVE PInv'
<1> DEFINE x == Head(posted)
<1>1. /\ posted \in Seq(Signals) /\ posted # <<>> /\ posted' = Tail(posted)
      /\ UNCHANGED <<ws, old, heard, lastV>>
  BY DEF Forward, PInv, PShape, pollVars
<1>2. /\ posted' \in Seq(Signals) /\ x \in Signals
      /\ \A e : Last(posted', x) = Last(posted, e)
  BY <1>1, LastTail
<1>3. CASE ws \in {"none", "connecting"}
  <2>1. queue' = Append(queue, x) /\ wire' = wire /\ (lost' <=> lost) BY <1>3 DEF Forward
  <2>2. \A e : Last(queue', e) = x BY <1>2, <2>1, LastAppend DEF PInv, PShape
  <2>3. queue' \in Seq(Signals) BY <1>2, <2>1 DEF PInv, PShape
  <2>4. Latest' = Latest BY <1>2, <2>2 DEF Latest
  <2> QED BY <1>1, <1>2, <1>3, <2>1, <2>3, <2>4 DEF PInv, PShape, PathInTurn
<1>4. CASE ws = "open"
  <2>1. wire' = Append(wire, x) /\ queue' = queue /\ queue = <<>> /\ (lost' <=> lost)
    BY <1>4 DEF Forward, PInv, PathInTurn
  <2>2. \A e : Last(wire', e) = x BY <1>2, <2>1, LastAppend DEF PInv, PShape
  <2>3. wire' \in Seq(Signals) BY <1>2, <2>1 DEF PInv, PShape
  <2>4. Latest' = Latest
    <3>1. \A e : Last(queue', e) = e BY <2>1 DEF Last
    <3> QED BY <1>2, <2>2, <3>1 DEF Latest
  <2> QED BY <1>1, <1>2, <1>4, <2>1, <2>3, <2>4 DEF PInv, PShape, PathInTurn
<1>5. CASE ws = "broken"
  <2>1. UNCHANGED <<queue, wire>> BY <1>5 DEF Forward
  <2>2. CASE Tail(posted) = <<>>
    <3>1. lost' BY <1>5, <2>2 DEF Forward
    <3> QED BY <1>1, <1>2, <2>1, <3>1 DEF PInv, PShape, PathInTurn
  <2>3. CASE Tail(posted) # <<>>
    <3>1. lost' <=> lost BY <1>5, <2>3 DEF Forward
    <3>2. \A d, e : Last(posted', d) = Last(posted', e) BY <1>1, <2>3 DEF Last
    <3>3. Latest' = Latest BY <1>2, <3>2 DEF Latest
    <3> QED BY <1>1, <1>2, <2>1, <3>1, <3>3 DEF PInv, PShape, PathInTurn
  <2> QED BY <2>2, <2>3
<1> QED BY <1>3, <1>4, <1>5 DEF PInv, PShape

\* content.js flushes its queue when the socket opens; a broken socket loses signals.
LEMMA PSocket ==
  ASSUME PInv, Connect \/ Opened \/ PubBreaks \/ PubClosed PROVE PInv'
<1>0. UNCHANGED <<posted, heard, lastV>>
  BY DEF Connect, Opened, PubBreaks, PubClosed, pollVars
<1>1. CASE Connect \/ PubClosed
  <2>1. UNCHANGED <<queue, wire, old, lost>> BY <1>1 DEF Connect, PubClosed
  <2>2. Latest' = Latest BY <1>0, <2>1 DEF Latest, Last
  <2>3. ws # "open" /\ ws' \in {"none", "connecting"} BY <1>1 DEF Connect, PubClosed
  <2> QED BY <1>0, <2>1, <2>2, <2>3 DEF PInv, PShape, PathInTurn
<1>2. CASE Opened
  <2>1. /\ wire = <<>> /\ wire' = queue /\ queue' = <<>> /\ ws' = "open"
        /\ lost' = lost /\ old' = old
    BY <1>2 DEF Opened, PInv, PathInTurn
  <2>2. /\ \A e : Last(queue', e) = e
        /\ \A e : Last(wire, e) = e
        /\ \A e : Last(wire', e) = Last(queue, e)
    BY <2>1 DEF Last
  <2>3. Latest' = Latest BY <1>0, <2>2 DEF Latest
  <2>4. queue' \in Seq(Signals) BY <2>1
  <2> QED BY <1>0, <2>1, <2>3, <2>4 DEF PInv, PShape, PathInTurn
<1>3. CASE PubBreaks
  <2>1. /\ wire' = <<>> /\ ws' = "broken" /\ queue' = queue /\ queue = <<>>
        /\ old' = old \o wire /\ lost' = (lost \/ (wire # <<>> /\ posted = <<>>))
    BY <1>3 DEF PubBreaks, PInv, PathInTurn
  <2>2. ~lost' => ~lost /\ (wire' = wire \/ posted # <<>>) BY <2>1
  <2>3. ~lost' => Latest' = Latest BY <1>0, <2>1, <2>2 DEF Latest, Last
  <2>4. wire' \in Seq(Signals) /\ old' \in Seq(Signals) BY <2>1 DEF PInv, PShape
  <2> QED BY <1>0, <2>1, <2>2, <2>3, <2>4 DEF PInv, PShape, PathInTurn
<1> QED BY <1>1, <1>2, <1>3

\* A new page has signalled nothing yet.
LEMMA PNavigate == ASSUME PInv, Navigate PROVE PInv'
<1>1. /\ posted' = <<>> /\ queue' = <<>> /\ wire' = <<>> /\ old' = old \o wire
      /\ lastV' = "null" /\ ws' = "connecting"
  BY DEF Navigate
<1>2. /\ posted' \in Seq(Signals) /\ queue' \in Seq(Signals) /\ wire' \in Seq(Signals)
      /\ old' \in Seq(Signals)
  BY <1>1 DEF PInv, PShape
<1> QED BY <1>1, <1>2 DEF PInv, PShape, PathInTurn

\* The relay hears the next signal of the page, or one that does not belong there.
LEMMA PRelay == ASSUME PInv, RelayStep PROVE PInv'
<1>0. UNCHANGED <<posted, ws, queue, lastV>>
  BY DEF RelayStep, Receive, ReceiveLate, OtherPage, pollVars, linkVars
<1>1. CASE Receive
  <2>1. /\ wire \in Seq(Signals) /\ wire # <<>> /\ wire' = Tail(wire) /\ heard' = Head(wire)
        /\ UNCHANGED <<old, lost>> /\ ws = "open"
    BY <1>1 DEF Receive, PInv, PShape, PathInTurn
  <2>2. wire' \in Seq(Signals) /\ Last(wire', heard') = Last(wire, heard) BY <2>1, LastTail
  <2>3. Latest' = Latest BY <1>0, <2>2 DEF Latest
  <2> QED BY <1>0, <2>1, <2>2, <2>3 DEF PInv, PShape, PathInTurn
<1>2. CASE ReceiveLate \/ OtherPage
  <2>1. /\ UNCHANGED wire
        /\ UNCHANGED <<heard, lost>> \/ lost' = (lost \/ Path = <<>>)
    BY <1>2 DEF ReceiveLate, OtherPage, linkVars
  <2>2. old' \in Seq(Signals)
    BY <1>2, LastTail DEF ReceiveLate, OtherPage, linkVars, PInv, PShape
  <2>3. ~lost' => ~lost /\ Latest' = Latest
    <3>1. CASE UNCHANGED <<heard, lost>> BY <1>0, <2>1, <3>1 DEF Latest
    <3>2. CASE lost' = (lost \/ Path = <<>>) BY <1>0, <2>1, <3>2, PathDecides DEF PInv
    <3> QED BY <2>1, <3>1, <3>2
  <2> QED BY <1>0, <2>1, <2>2, <2>3 DEF PInv, PShape, PathInTurn
<1> QED BY <1>1, <1>2 DEF RelayStep

LEMMA PStep == ASSUME PInv, [Next]_vars PROVE PInv'
<1>0. ASSUME UNCHANGED <<posted, linkVars, heard, lastV, lost>> PROVE PInv'
  BY <1>0 DEF linkVars, PInv, PShape, PathInTurn, Latest, Last
<1>1. CASE UNCHANGED vars BY <1>0, <1>1 DEF vars, pollVars
<1>2. ASSUME NEW c \in Calls, PageStep(c) PROVE PInv'
  BY <1>0, <1>2, PPoll
     DEF PageStep, Ask, Granted, NotReady, Retry, Rejected, Touch, pollVars
<1>3. CASE Tick \/ SpeechStep
  BY <1>0, <1>3, PPoll
     DEF Tick, SpeechStep, AudioTrack, SpeechStart, SpeechEvent, SpeechOff, MicOff, pollVars
<1>4. CASE ContentStep BY <1>4, PForward, PSocket, PNavigate DEF ContentStep
<1>5. CASE RelayStep BY <1>5, PRelay
<1> QED BY <1>1, <1>2, <1>3, <1>4, <1>5 DEF Next

LEMMA PInitially == ASSUME Init PROVE PInv
<1>1. <<>> \in Seq(Signals) OBVIOUS
<1> QED BY <1>1 DEF Init, PInv, PShape, PathInTurn

\* content.js's queue, its reconnects and page loads keep a page's signals in order:
\* unless the latest one was lost or overtaken, the last one on its way to the relay,
\* or received there, is the page's present state.
THEOREM LastSignalIsState == Spec => []SignalsInOrder
<1>1. PInv => SignalsInOrder BY NewsIsLatest DEF PInv, SignalsInOrder
<1> QED BY <1>1, PInitially, PStep, PTL DEF Spec

-----------------------------------------------------------------------------
(* The shapes that the invariants above leave out.                         *)

\* A call that pauses has a retry left, which Retry takes.
RetriesLeft ==
  /\ left \in [Calls -> 0..MaxRetries] /\ vtrack \in [Calls -> Tracks]
  /\ \A c \in Calls : call[c] = "pausing" => left[c] > 0

Flags ==
  /\ uses \in Uses /\ audible \in BOOLEAN /\ listening \in BOOLEAN /\ srActive \in BOOLEAN
  /\ srOffTimer \in {"none", "armed"} /\ micOffTimer \in {"none", "armed"}
  /\ lastA \in {"null", "on", "off"} /\ heard \in {"null", "on", "off"}
  /\ lost \in BOOLEAN

LEMMA TRetries == ASSUME CInv, RetriesLeft, [Next]_vars PROVE RetriesLeft'
<1> USE ConstAssumption DEF RetriesLeft
<1>0. ASSUME UNCHANGED callVars PROVE RetriesLeft' BY <1>0 DEF callVars
<1>1. ASSUME NEW c \in Calls, PageStep(c) PROVE RetriesLeft'
  <2>0. call \in [Calls -> {"idle", "asking", "pausing"}] BY DEF CInv
  <2>1. CASE Ask(c) BY <2>0, <2>1 DEF Ask
  <2>2. CASE Granted(c) \/ Rejected(c) BY <2>0, <2>2 DEF Granted, Rejected, Tracks
  <2>3. CASE NotReady(c) BY <2>0, <2>3 DEF NotReady
  <2>4. CASE Retry(c)
    <3>1. /\ call' = [call EXCEPT ![c] = "asking"] /\ left' = [left EXCEPT ![c] = left[c] - 1]
          /\ left[c] > 0 /\ UNCHANGED vtrack
      BY <2>4 DEF Retry
    <3>2. left[c] - 1 \in 0..MaxRetries BY <3>1
    <3> QED BY <2>0, <3>1, <3>2
  <2>5. CASE Touch(c) BY <2>5 DEF Touch
  <2> QED BY <1>1, <2>1, <2>2, <2>3, <2>4, <2>5 DEF PageStep
<1>2. CASE Navigate BY <1>2 DEF Navigate, Tracks
<1>3. CASE Tick \/ SpeechStep \/ RelayStep
  BY <1>0, <1>3
     DEF Tick, SpeechStep, AudioTrack, SpeechStart, SpeechEvent, SpeechOff, MicOff, RelayStep,
         Receive, ReceiveLate, OtherPage
<1>4. CASE ContentStep
  BY <1>0, <1>2, <1>4 DEF ContentStep, Forward, Connect, Opened, PubBreaks, PubClosed
<1>5. CASE UNCHANGED vars BY <1>0, <1>5 DEF vars
<1> QED BY <1>1, <1>3, <1>4, <1>5 DEF Next

LEMMA TFlags == ASSUME PInv, Flags, [Next]_vars PROVE Flags'
<1> USE DEF Flags
<1>0. ASSUME UNCHANGED <<speechVars, micOffTimer, lastA, heard>>, lost' \in BOOLEAN
      PROVE  Flags'
  BY <1>0 DEF speechVars
<1>1. ASSUME Poll, UNCHANGED heard,
             uses' \in Uses, audible' \in BOOLEAN, listening' \in BOOLEAN, srActive' \in BOOLEAN,
             srOffTimer' \in {"none", "armed"}
      PROVE  Flags'
  BY <1>1 DEF Poll
<1>2. ASSUME NEW c \in Calls, PageStep(c) PROVE Flags'
  <2>1. CASE Ask(c) \/ Granted(c) \/ Rejected(c) BY <1>1, <2>1 DEF Ask, Granted, Rejected, speechVars
  <2>2. CASE NotReady(c) \/ Retry(c) \/ Touch(c)
    BY <1>0, <2>2 DEF NotReady, Retry, Touch, pollVars
  <2> QED BY <1>2, <2>1, <2>2 DEF PageStep
<1>3. CASE Tick BY <1>1, <1>3 DEF Tick, speechVars
<1>4. CASE SpeechStart \/ SpeechOff BY <1>1, <1>4 DEF SpeechStart, SpeechOff
<1>5. CASE AudioTrack \/ SpeechEvent \/ MicOff
  <2>1. UNCHANGED <<heard, lost, uses, srActive>>
    BY <1>5 DEF AudioTrack, SpeechEvent, MicOff, speechVars
  <2>2. audible' \in BOOLEAN /\ listening' \in BOOLEAN
    BY <1>5 DEF AudioTrack, SpeechEvent, MicOff, speechVars
  <2>3. /\ srOffTimer' \in {"none", "armed"} /\ micOffTimer' \in {"none", "armed"}
        /\ lastA' \in {"null", "on", "off"}
    BY <1>5 DEF AudioTrack, SpeechEvent, MicOff, speechVars, pollVars
  <2> QED BY <2>1, <2>2, <2>3
<1>6. CASE Forward \/ Connect \/ Opened \/ PubBreaks \/ PubClosed
  BY <1>0, <1>6 DEF Forward, Connect, Opened, PubBreaks, PubClosed, pollVars
<1>7. CASE Navigate BY <1>7 DEF Navigate
<1>8. CASE RelayStep
  <2>1. heard' \in {"null", "on", "off"}
    BY <1>8, LastTail DEF RelayStep, Receive, ReceiveLate, OtherPage, PInv, PShape, Signals
  <2>2. lost' \in BOOLEAN /\ UNCHANGED <<speechVars, micOffTimer, lastA>>
    BY <1>8 DEF RelayStep, Receive, ReceiveLate, OtherPage, pollVars
  <2> QED BY <2>1, <2>2 DEF speechVars
<1>11. CASE UNCHANGED vars BY <1>0, <1>11 DEF vars, pollVars
<1> QED BY <1>2, <1>3, <1>4, <1>5, <1>6, <1>7, <1>8, <1>11 DEF Next, SpeechStep, ContentStep

\* inject.js never retries more than its count allows, vInflight never falls below
\* zero, and every part of the path keeps its shape.
THEOREM Shapes == Spec => []TypeOK
<1>1. Init => RetriesLeft /\ Flags
  <2> SUFFICES ASSUME Init PROVE RetriesLeft /\ Flags OBVIOUS
  <2>1. RetriesLeft BY ConstAssumption DEF Init, RetriesLeft, Tracks
  <2>2. Flags BY DEF Init, Flags
  <2> QED BY <2>1, <2>2
<1>2. CInv => vInflight \in Nat
  <2>1. IsFiniteSet(Waiting) BY ConstAssumption, FS_Subset DEF Waiting
  <2> QED BY <2>1, FS_CardinalityType DEF CInv
<1>3. CInv /\ PInv /\ RetriesLeft /\ Flags => TypeOK
  BY <1>2 DEF CInv, PInv, PShape, RetriesLeft, Flags, TypeOK
<1> QED BY <1>1, <1>3, CInitially, CStep, PInitially, PStep, TRetries, TFlags, PTL DEF Spec
-----------------------------------------------------------------------------
(* The feed.  A page's socket is one of its own whose handler has not      *)
(* seen it go; a stray ffmpeg is there only until start_feeder kills it.   *)

OwnSocket ==
  /\ \A v \in Viewers : conn[v] # NoSock => sock[conn[v]] \in {"opening", "open"}
  /\ \A u, v \in Viewers : u # v /\ conn[u] # NoSock => conn[u] # conn[v]

Strays ==
  /\ strays \in {0, 1}
  /\ strays = 1 => start = "kill" /\ ~Running
  /\ start = "popen" => ~Running

Handlers == {s \in Socks : sock[s] \in {"open", "gone"}}

FInv == FeedTypeOK /\ OwnSocket /\ Strays /\ live = Cardinality(Handlers)

\* Opening a socket: a free one, which is nobody's.
LEMMA FDial ==
  ASSUME FInv, NEW v \in Viewers, Dial(v), cam' \in [Viewers -> {"off", "asking", "on"}],
         UNCHANGED <<live, silent, black, writeVars, feederVars>>
  PROVE  FInv'
<1>1. PICK s \in Socks : /\ sock[s] = "none"
                         /\ conn' = [conn EXCEPT ![v] = s]
                         /\ sock' = [sock EXCEPT ![s] = "opening"]
  BY DEF Dial
<1>2. FeedTypeOK' BY <1>1 DEF FInv, FeedTypeOK, writeVars, feederVars
<1>3. OwnSocket'
  <2>1. \A u \in Viewers : conn[u] # s BY <1>1, FeedAssumption DEF FInv, OwnSocket
  <2> QED BY <1>1, <2>1, FeedAssumption DEF FInv, FeedTypeOK, OwnSocket
<1>4. Handlers' = Handlers BY <1>1 DEF Handlers, FInv, FeedTypeOK
<1> QED BY <1>2, <1>3, <1>4 DEF FInv, Strays, Running, feederVars

\* Losing it: a handler that runs goes on running.
LEMMA FDrop == ASSUME FInv, NEW v \in Viewers, Drop(v) PROVE FInv'
<1>1. /\ conn' = [conn EXCEPT ![v] = NoSock]
      /\ sock' = [s \in Socks |->
                    IF s # conn[v] THEN sock[s] ELSE IF sock[s] = "open" THEN "gone" ELSE "none"]
      /\ UNCHANGED <<live, silent, black, writeVars, feederVars>>
      /\ cam' \in [Viewers -> {"off", "asking", "on"}]
  BY DEF Drop, FInv, FeedTypeOK
<1>2. FeedTypeOK' BY <1>1 DEF FInv, FeedTypeOK, writeVars, feederVars
<1>3. OwnSocket' BY <1>1 DEF FInv, FeedTypeOK, OwnSocket
<1>4. Handlers' = Handlers
  <2>1. \A s \in Socks : s = conn[v] => sock[s] \in {"opening", "open"}
    BY FeedAssumption DEF FInv, OwnSocket
  <2> QED BY <1>1, <2>1 DEF Handlers
<1> QED BY <1>1, <1>2, <1>3, <1>4 DEF FInv, Strays, Running, feederVars

\* A handler begins.
LEMMA FAccepted == ASSUME FInv, NEW s \in Socks, Accepted(s) PROVE FInv'
<1>1. /\ sock[s] = "opening" /\ sock' = [sock EXCEPT ![s] = "open"] /\ live' = live + 1
      /\ UNCHANGED <<cam, conn, silent, black, writeVars, feederVars>>
  BY DEF Accepted
<1>2. Handlers' = Handlers \cup {s} /\ s \notin Handlers BY <1>1 DEF Handlers, FInv, FeedTypeOK
<1>3. IsFiniteSet(Handlers) BY FeedAssumption, FS_Subset DEF Handlers
<1>4. live' = Cardinality(Handlers') BY <1>1, <1>2, <1>3, FS_AddElement DEF FInv
<1>5. FeedTypeOK' BY <1>1 DEF FInv, FeedTypeOK, writeVars, feederVars
<1>6. OwnSocket' BY <1>1 DEF FInv, FeedTypeOK, OwnSocket
<1> QED BY <1>1, <1>4, <1>5, <1>6 DEF FInv, Strays, Running, feederVars

\* A handler ends.
LEMMA FHandlerEnds == ASSUME FInv, NEW s \in Socks, HandlerEnds(s) PROVE FInv'
<1>1. /\ sock[s] = "gone" /\ sock' = [sock EXCEPT ![s] = "none"]
      /\ live' = IF live > 0 THEN live - 1 ELSE 0
      /\ UNCHANGED <<cam, conn, silent, black, writeVars, feederVars>>
  BY DEF HandlerEnds
<1>2. Handlers' = Handlers \ {s} /\ s \in Handlers BY <1>1 DEF Handlers, FInv, FeedTypeOK
<1>3. IsFiniteSet(Handlers) BY FeedAssumption, FS_Subset DEF Handlers
<1>4. Cardinality(Handlers') = Cardinality(Handlers) - 1 BY <1>2, <1>3, FS_RemoveElement
<1>5. Cardinality(Handlers) \in Nat \ {0} BY <1>2, <1>3, FS_CardinalityType, FS_EmptySet
<1>6. live' = Cardinality(Handlers') BY <1>1, <1>4, <1>5 DEF FInv
<1>7. FeedTypeOK'
  <2>1. live' \in Nat BY <1>4, <1>5, <1>6
  <2> QED BY <1>1, <2>1 DEF FInv, FeedTypeOK, writeVars, feederVars
<1>8. OwnSocket' BY <1>1 DEF FInv, FeedTypeOK, OwnSocket
<1> QED BY <1>1, <1>6, <1>7, <1>8 DEF FInv, Strays, Running, feederVars

\* Steps that leave the sockets alone.
LEMMA FKeeps ==
  ASSUME FInv, FeedTypeOK', Strays', UNCHANGED <<conn, sock, live>> PROVE FInv'
<1>1. Handlers' = Handlers BY DEF Handlers
<1> QED BY <1>1 DEF FInv, OwnSocket

\* The writers.
LEMMA FWrites ==
  ASSUME FInv, NEW w \in Writers, Capture(w) \/ TakeLock(w) \/ Written(w) \/ WriteFails(w)
  PROVE  FInv'
<1>1. /\ UNCHANGED <<clientVars, silent, black, feeder, strays, start>>
      /\ broken' \in BOOLEAN
      /\ job' \in [Writers -> {"none", "queued", "current", "former"}]
      /\ wlock' \in Writers \cup {NoSock}
  BY DEF Capture, TakeLock, Written, WriteFails, Return, feederVars, FInv, FeedTypeOK
<1>2. FeedTypeOK' BY <1>1 DEF FInv, FeedTypeOK, clientVars
<1>3. Strays' BY <1>1 DEF FInv, Strays, Running
<1> QED BY <1>1, <1>2, <1>3, FKeeps DEF clientVars

\* start_feeder: it kills before it starts.
LEMMA FFeeder ==
  ASSUME FInv, Watchdog \/ Kill \/ Popen \/ PopenFails \/ FeederFails \/ FeederEnds PROVE FInv'
<1>1. UNCHANGED <<clientVars, silent, black, wlock>>
  BY DEF Watchdog, Kill, Popen, PopenFails, FeederFails, FeederEnds, writeVars
<1>2. job' \in [Writers -> {"none", "queued", "current", "former"}]
  <2>1. CASE Popen BY <2>1 DEF Popen, FInv, FeedTypeOK
  <2>2. CASE ~Popen
    BY <2>2 DEF Watchdog, Kill, PopenFails, FeederFails, FeederEnds, writeVars, FInv, FeedTypeOK
  <2> QED BY <2>1, <2>2
<1>3. /\ feeder' \in {"none", "runs", "hung", "ending", "dead"}
      /\ start' \in {"no", "kill", "popen"}
      /\ broken' \in BOOLEAN
  BY DEF Watchdog, Kill, Popen, PopenFails, FeederFails, FeederEnds, FInv, FeedTypeOK
<1>4. Strays'
  <2> USE DEF FInv, Strays, Running
  <2>1. CASE Watchdog BY <2>1 DEF Watchdog, LoopFree
  <2>2. CASE Kill BY <2>2 DEF Kill
  <2>3. CASE Popen BY <2>3 DEF Popen
  <2>4. CASE PopenFails BY <2>4 DEF PopenFails
  <2>5. CASE FeederFails BY <2>5 DEF FeederFails
  <2>6. CASE FeederEnds BY <2>6 DEF FeederEnds
  <2> QED BY <2>1, <2>2, <2>3, <2>4, <2>5, <2>6
<1>5. FeedTypeOK'
  <2>1. strays' \in Nat BY <1>4 DEF Strays
  <2> QED BY <1>1, <1>2, <1>3, <2>1 DEF FInv, FeedTypeOK, clientVars
<1> QED BY <1>1, <1>4, <1>5, FKeeps DEF clientVars

\* The relay comes up again: nothing of its own is left but its ffmpeg.
LEMMA FRestart == ASSUME FInv, RelayRestarts PROVE FInv'
<1>1. /\ conn' = [v \in Viewers |-> NoSock] /\ sock' = [s \in Socks |-> "none"]
      /\ live' = 0 /\ silent' = TRUE /\ black' \in BOOLEAN
      /\ job' = [w \in Writers |-> "none"] /\ wlock' = NoSock
      /\ strays' = IF Running THEN strays + 1 ELSE strays
      /\ feeder' = "none" /\ broken' = FALSE /\ start' = "kill" /\ UNCHANGED cam
  BY DEF RelayRestarts, Encoded
<1>2. Strays' BY <1>1 DEF FInv, Strays, Running
<1>3. FeedTypeOK'
  <2>1. strays' \in Nat BY <1>2 DEF Strays
  <2>2. silent' \in BOOLEAN /\ broken' \in BOOLEAN BY <1>1
  <2> QED BY <1>1, <2>1, <2>2 DEF FInv, FeedTypeOK
<1>4. OwnSocket' BY <1>1 DEF OwnSocket
<1>5. Handlers' = {} BY <1>1 DEF Handlers
<1> QED BY <1>1, <1>2, <1>3, <1>4, <1>5, FS_EmptySet DEF FInv

LEMMA FStep == ASSUME FInv, [FeedNext]_feedVars PROVE FInv'
<1>1. ASSUME NEW v \in Viewers, Gesture(v) \/ Answer(v) \/ Redial(v) \/ Drop(v) PROVE FInv'
  <2>0. ASSUME cam' \in [Viewers -> {"off", "asking", "on"}],
               UNCHANGED <<conn, sock, live, silent, black, writeVars, feederVars>>
        PROVE  FInv'
    <3>1. FeedTypeOK' BY <2>0 DEF FInv, FeedTypeOK, writeVars, feederVars
    <3>2. Strays' BY <2>0 DEF FInv, Strays, Running, feederVars
    <3> QED BY <2>0, <3>1, <3>2, FKeeps
  <2>1. CASE Gesture(v) BY <2>0, <2>1 DEF Gesture, FInv, FeedTypeOK
  <2>2. CASE Answer(v) BY <2>0, <2>2, FDial DEF Answer, FInv, FeedTypeOK
  <2>3. CASE Redial(v) BY <2>3, FDial DEF Redial, FInv, FeedTypeOK
  <2>4. CASE Drop(v) BY <2>4, FDrop
  <2> QED BY <1>1, <2>1, <2>2, <2>3, <2>4
<1>2. ASSUME NEW s \in Socks, Accepted(s) \/ HandlerEnds(s) PROVE FInv'
  BY <1>2, FAccepted, FHandlerEnds
<1>3. CASE Silence \/ IdleTick \/ \E s \in Socks : Frame(s)
  <2>1. /\ UNCHANGED <<clientVars, black, wlock, feederVars>>
        /\ silent' \in BOOLEAN
        /\ job' \in [Writers -> {"none", "queued", "current", "former"}]
    BY <1>3 DEF Silence, IdleTick, Frame, writeVars, FInv, FeedTypeOK
  <2>2. FeedTypeOK' BY <2>1 DEF FInv, FeedTypeOK, clientVars, feederVars
  <2>3. Strays' BY <2>1 DEF FInv, Strays, Running, feederVars
  <2> QED BY <2>1, <2>2, <2>3, FKeeps DEF clientVars
<1>4. CASE UNCHANGED feedVars
  <2>1. FeedTypeOK' BY <1>4 DEF FInv, FeedTypeOK, feedVars, clientVars, writeVars, feederVars
  <2>2. Strays' BY <1>4 DEF FInv, Strays, Running, feedVars, feederVars
  <2> QED BY <1>4, <2>1, <2>2, FKeeps DEF feedVars, clientVars
<1> QED BY <1>1, <1>2, <1>3, <1>4, FWrites, FFeeder, FRestart DEF FeedNext

LEMMA FInitially == ASSUME FeedInit PROVE FInv
<1>1. FeedTypeOK
  <2>1. /\ cam \in [Viewers -> {"off", "asking", "on"}] /\ conn \in [Viewers -> Socks \cup {NoSock}]
        /\ sock \in [Socks -> {"none", "opening", "open", "gone"}]
        /\ job \in [Writers -> {"none", "queued", "current", "former"}]
    BY DEF FeedInit
  <2>2. silent \in BOOLEAN /\ black \in BOOLEAN /\ broken \in BOOLEAN
    BY DEF FeedInit, Encoded
  <2>3. /\ live \in Nat /\ strays \in Nat /\ wlock \in Writers \cup {NoSock}
        /\ feeder \in {"none", "runs", "hung", "ending", "dead"} /\ start \in {"no", "kill", "popen"}
    BY DEF FeedInit
  <2> QED BY <2>1, <2>2, <2>3 DEF FeedTypeOK
<1>2. OwnSocket BY DEF FeedInit, OwnSocket
<1>3. Strays BY DEF FeedInit, Strays, Running
<1>4. Handlers = {} BY DEF FeedInit, Handlers
<1> QED BY <1>1, <1>2, <1>3, <1>4, FS_EmptySet DEF FeedInit, FInv

\* For any number of viewers and sockets: _LIVE is the number of handlers that run,
\* whichever sockets overlap, break off unnoticed or end, and through restarts.
THEOREM HandlersCounted == FeedSpec => []LiveCounted
<1>1. FInv => LiveCounted BY DEF FInv, LiveCounted, Handlers
<1> QED BY <1>1, FInitially, FStep, PTL DEF FeedSpec

\* However ffmpeg fails, writes are late and the relay crashes: one ffmpeg at most writes
\* to the device that was not told to end.
THEOREM ProducerIsAlone == FeedSpec => []OneProducer
<1>1. FInv => OneProducer BY DEF FInv, Strays, OneProducer
<1> QED BY <1>1, FInitially, FStep, PTL DEF FeedSpec

\* The state of viewers, relay and ffmpeg has its type.
THEOREM FeedTypes == FeedSpec => []FeedTypeOK
<1>1. FInv => FeedTypeOK BY DEF FInv
<1> QED BY <1>1, FInitially, FStep, PTL DEF FeedSpec
=============================================================================

---------------------------- MODULE MediaBridge ----------------------------
(***************************************************************************)
(* How an isolated page reports its use of the camera.  inject.js hooks    *)
(* getUserMedia and the Web Speech API in the page and posts on/off        *)
(* signals; content.js sends them over a WebSocket to the relay's control  *)
(* channel (camrelay.py).                                                  *)
(*                                                                         *)
(* The relay would broadcast them to the viewers that subscribe, and none  *)
(* does: the proxy sets window.__rbi_cam, which controlConnect() of        *)
(* inject-head.html waits for, to "" (proxy.go:584).  What is modelled     *)
(* ends with what control_handler receives; the camera that really runs is *)
(* in CameraFeed.  Microphone signals take the same path and are modelled  *)
(* up to emit (lastA).                                                     *)
(***************************************************************************)
EXTENDS Naturals, Sequences, FiniteSets

CONSTANTS Calls,       \* getUserMedia calls a page makes
          Uses,        \* what sites use: sets of "cam", "mic"
          MaxRetries,  \* attempt's count of retries (9 in the code)
          MaxPath,     \* bound: the user acts only while fewer signals are under way
          Faults       \* which of FaultKinds may happen

FaultKinds == {"pub", "other", "navigate"}

ASSUME ConstAssumption == MaxRetries \in Nat /\ Faults \subseteq FaultKinds /\ IsFiniteSet(Calls)

VARIABLES
  \* inject.js
  call,       \* phase of a call: "idle", "asking" or "pausing"
  left,       \* retries a call has left
  vtrack,     \* the video track of a call's stream: "none", "live" or "muted"
  vInflight,  \* count of video calls attempting or retrying
  audible,    \* is an audio track live and enabled?
  uses,       \* what the site uses: camera, microphone or both
  listening,  \* is a speech recognition running?
  srActive, srOffTimer, micOffTimer,
  lastV, lastA,
  \* content.js
  posted,     \* window messages not yet handled
  ws,         \* its WebSocket: "none", "connecting", "open", or "broken" and not noticed
  queue,
  \* the relay
  wire,       \* signals under way on the open connection
  old,        \* signals of connections that are gone: late or lost
  heard,      \* the last signal control_handler received
  lost        \* history: the page's latest signal was lost or overtaken

callVars == <<call, left, vtrack>>
speechVars == <<uses, audible, listening, srActive, srOffTimer>>
pollVars == <<lastV, lastA, micOffTimer>>
linkVars == <<ws, queue, wire, old>>
vars == <<callVars, vInflight, speechVars, pollVars, posted, linkVars, heard, lost>>

Tracks == {"none", "live", "muted"}
Signals == {"on", "off"}

TypeOK ==
  /\ call \in [Calls -> {"idle", "asking", "pausing"}]
  /\ left \in [Calls -> 0..MaxRetries]
  /\ vtrack \in [Calls -> Tracks]
  /\ vInflight \in Nat
  /\ uses \in Uses /\ audible \in BOOLEAN /\ listening \in BOOLEAN /\ srActive \in BOOLEAN
  /\ srOffTimer \in {"none", "armed"} /\ micOffTimer \in {"none", "armed"}
  /\ lastV \in {"null", "on", "off"} /\ lastA \in {"null", "on", "off"}
  /\ posted \in Seq(Signals) /\ queue \in Seq(Signals)
  /\ wire \in Seq(Signals) /\ old \in Seq(Signals)
  /\ ws \in {"none", "connecting", "open", "broken"}
  /\ heard \in {"null", "on", "off"}
  /\ lost \in BOOLEAN

Init ==
  /\ call = [c \in Calls |-> "idle"] /\ left = [c \in Calls |-> 0]
  /\ vtrack = [c \in Calls |-> "none"]
  /\ vInflight = 0
  /\ uses \in Uses /\ audible = FALSE
  /\ listening = FALSE /\ srActive = FALSE /\ srOffTimer = "none" /\ micOffTimer = "none"
  /\ lastV = "null" /\ lastA = "null"
  /\ posted = <<>> /\ queue = <<>> /\ wire = <<>> /\ old = <<>>
  /\ ws = "connecting" /\ heard = "null" /\ lost = FALSE

-----------------------------------------------------------------------------
(* inject.js.  Poll is the end of every action that calls poll(): it reads *)
(* the state that action leaves.                                           *)

\* Mutation: without the in-flight latch.
CamWantedByTracks == \E c \in Calls : vtrack[c] = "live"

\* A video request in flight, or an enabled live track.
CamWanted == vInflight > 0 \/ \E c \in Calls : vtrack[c] = "live"

MicWanted == srActive \/ audible

\* poll(): camera changes are posted at once, the microphone goes off later.
Poll ==
  LET v == IF CamWanted' THEN "on" ELSE "off"
  IN  /\ lastV' = v
      /\ posted' = IF v # lastV THEN Append(posted, v) ELSE posted
      /\ lost' = (lost /\ v = lastV)
      /\ IF MicWanted'
         THEN lastA' = "on" /\ micOffTimer' = "none"
         ELSE /\ micOffTimer' = IF lastA = "on" THEN "armed" ELSE micOffTimer
              /\ UNCHANGED lastA

MayAct == Len(posted \o queue \o wire \o old) < MaxPath

\* setInterval(poll, 250).
Tick ==
  /\ UNCHANGED <<callVars, vInflight, speechVars, linkVars, heard>>
  /\ Poll

\* The page calls getUserMedia with video: "on" is signalled on the attempt.
Ask(c) ==
  /\ "cam" \in uses
  /\ call[c] = "idle" /\ vtrack[c] = "none" /\ MayAct
  /\ call' = [call EXCEPT ![c] = "asking"]
  /\ left' = [left EXCEPT ![c] = MaxRetries]
  /\ vInflight' = vInflight + 1
  /\ UNCHANGED <<vtrack, speechVars, linkVars, heard>>
  /\ Poll

\* settle().
Settle == vInflight' = IF vInflight > 0 THEN vInflight - 1 ELSE 0

\* orig(c) resolves; its audio track, if any, is AudioTrack's business.
Granted(c) ==
  /\ call[c] = "asking"
  /\ call' = [call EXCEPT ![c] = "idle"] /\ left' = [left EXCEPT ![c] = 0]
  /\ vtrack' = [vtrack EXCEPT ![c] = "live"]
  /\ Settle
  /\ UNCHANGED <<speechVars, linkVars, heard>>
  /\ Poll

\* Mutation: retries without end.
NotReadyEver(c) ==
  /\ call[c] = "asking"
  /\ call' = [call EXCEPT ![c] = "pausing"]
  /\ UNCHANGED <<left, vtrack, vInflight, speechVars, pollVars, posted, linkVars,
                 heard, lost>>

\* orig(c) rejects because the loopback camera is not ready: retried after 700 ms.
NotReady(c) ==
  /\ call[c] = "asking" /\ left[c] > 0
  /\ call' = [call EXCEPT ![c] = "pausing"]
  /\ UNCHANGED <<left, vtrack, vInflight, speechVars, pollVars, posted, linkVars,
                 heard, lost>>

Retry(c) ==
  /\ call[c] = "pausing"
  /\ call' = [call EXCEPT ![c] = "asking"]
  /\ left' = [left EXCEPT ![c] = left[c] - 1]
  /\ UNCHANGED <<vtrack, vInflight, speechVars, pollVars, posted, linkVars,
                 heard, lost>>

\* orig(c) rejects for another reason, or the retries are used up.
Rejected(c) ==
  /\ call[c] = "asking"
  /\ call' = [call EXCEPT ![c] = "idle"] /\ left' = [left EXCEPT ![c] = 0]
  /\ Settle
  /\ UNCHANGED <<vtrack, speechVars, linkVars, heard>>
  /\ Poll

\* The page mutes, unmutes or stops a video track: seen by the next poll only,
\* which forgets a stopped one.
Touch(c) ==
  /\ vtrack[c] \in {"live", "muted"} /\ MayAct
  /\ \E t \in Tracks : vtrack' = [vtrack EXCEPT ![c] = t]
  /\ UNCHANGED <<call, left, vInflight, speechVars, pollVars, posted, linkVars,
                 heard, lost>>

\* The same for the audio tracks of all streams together, and for new ones.
AudioTrack ==
  /\ "mic" \in uses
  /\ audible' = ~audible
  /\ UNCHANGED <<callVars, vInflight, uses, listening, srActive, srOffTimer, pollVars,
                 posted, linkVars, heard, lost>>

\* SpeechRecognition.start().
SpeechStart ==
  /\ "mic" \in uses /\ ~listening
  /\ listening' = TRUE /\ srActive' = TRUE /\ srOffTimer' = "none"
  /\ UNCHANGED <<callVars, vInflight, uses, audible, linkVars, heard>>
  /\ Poll

\* "audioend" while still recognising, or "end" / "error": the timer starts again.
SpeechEvent ==
  /\ listening
  /\ listening' \in BOOLEAN
  /\ srOffTimer' = "armed"
  /\ UNCHANGED <<callVars, vInflight, uses, audible, srActive, pollVars, posted, linkVars, heard, lost>>

\* 4 s later.
SpeechOff ==
  /\ srOffTimer = "armed"
  /\ srOffTimer' = "none" /\ srActive' = FALSE
  /\ UNCHANGED <<uses, audible, listening, callVars, vInflight, linkVars, heard>>
  /\ Poll

\* 30 s after the last use of the microphone.
MicOff ==
  /\ micOffTimer = "armed"
  /\ micOffTimer' = "none" /\ lastA' = "off"
  /\ UNCHANGED <<callVars, vInflight, speechVars, lastV, posted, linkVars, heard, lost>>

-----------------------------------------------------------------------------
(* content.js.                                                             *)

\* The listener: sent if the socket is open, or thought to be, else queued.
Forward ==
  /\ posted # <<>>
  /\ posted' = Tail(posted)
  /\ queue' = IF ws \in {"none", "connecting"} THEN Append(queue, Head(posted)) ELSE queue
  /\ wire' = IF ws = "open" THEN Append(wire, Head(posted)) ELSE wire
  /\ lost' = (lost \/ (ws = "broken" /\ Tail(posted) = <<>>))
  /\ UNCHANGED <<callVars, vInflight, speechVars, pollVars, ws, old, heard>>

\* connect(), at once and 2 s after each close; the attempt may fail.
Connect ==
  /\ \/ ws = "none" /\ ws' = "connecting"
     \/ ws = "connecting" /\ "pub" \in Faults /\ ws' = "none"
  /\ UNCHANGED <<callVars, vInflight, speechVars, pollVars, posted, queue, wire, old, heard, lost>>

\* Mutation: the queue is flushed one message late.
OpenedHoldingBack ==
  /\ ws = "connecting"
  /\ ws' = "open"
  /\ wire' = IF queue = <<>> THEN <<>> ELSE Tail(queue)
  /\ queue' = IF queue = <<>> THEN <<>> ELSE <<Head(queue)>>
  /\ UNCHANGED <<callVars, vInflight, speechVars, pollVars, posted, old, heard, lost>>

\* onopen sends what was queued before anything new.
Opened ==
  /\ ws = "connecting"
  /\ ws' = "open"
  /\ wire' = queue /\ queue' = <<>>
  /\ UNCHANGED <<callVars, vInflight, speechVars, pollVars, posted, old, heard, lost>>

\* The connection breaks with signals under way; sends are lost until onclose.
PubBreaks ==
  /\ "pub" \in Faults /\ ws = "open"
  /\ ws' = "broken" /\ wire' = <<>> /\ old' = old \o wire
  /\ lost' = (lost \/ (wire # <<>> /\ posted = <<>>))
  /\ UNCHANGED <<callVars, vInflight, speechVars, pollVars, posted, queue, heard>>

PubClosed ==
  /\ ws = "broken"
  /\ ws' = "none"
  /\ UNCHANGED <<callVars, vInflight, speechVars, pollVars, posted, queue, wire, old, heard, lost>>

\* Another page loads in the tab: both scripts start afresh on a connection of their
\* own.  What was not sent is gone, what was sent may arrive after the new page's.
Navigate ==
  /\ "navigate" \in Faults /\ MayAct
  /\ call' = [c \in Calls |-> "idle"] /\ left' = [c \in Calls |-> 0]
  /\ vtrack' = [c \in Calls |-> "none"]
  /\ vInflight' = 0 /\ uses' \in Uses /\ audible' = FALSE
  /\ listening' = FALSE /\ srActive' = FALSE /\ srOffTimer' = "none" /\ micOffTimer' = "none"
  /\ lastV' = "null" /\ lastA' = "null"
  /\ posted' = <<>> /\ queue' = <<>> /\ wire' = <<>> /\ ws' = "connecting"
  /\ old' = old \o wire /\ lost' = FALSE
  /\ UNCHANGED heard

-----------------------------------------------------------------------------
(* control_handler.  SUBS is empty, so that receiving a signal is all it   *)
(* does.                                                                   *)

Path == wire \o queue \o posted

Receive ==
  /\ wire # <<>>
  /\ wire' = Tail(wire) /\ heard' = Head(wire)
  /\ UNCHANGED <<callVars, vInflight, speechVars, pollVars, posted, ws, queue, old, lost>>

\* A signal of a connection that is gone, at last or never.
ReceiveLate ==
  /\ old # <<>>
  /\ old' = Tail(old)
  /\ \/ heard' = Head(old) /\ lost' = (lost \/ Path = <<>>)
     \/ UNCHANGED <<heard, lost>>
  /\ UNCHANGED <<callVars, vInflight, speechVars, pollVars, posted, ws, queue, wire>>

\* The relay is shared: a page of another session reports its camera.
OtherPage ==
  /\ "other" \in Faults
  /\ heard' \in Signals
  /\ lost' = (lost \/ Path = <<>>)
  /\ UNCHANGED <<callVars, vInflight, speechVars, pollVars, posted, linkVars>>

-----------------------------------------------------------------------------
PageStep(c) == Ask(c) \/ Granted(c) \/ NotReady(c) \/ Retry(c) \/ Rejected(c) \/ Touch(c)
SpeechStep == AudioTrack \/ SpeechStart \/ SpeechEvent \/ SpeechOff \/ MicOff
ContentStep == Forward \/ Connect \/ Opened \/ PubBreaks \/ PubClosed \/ Navigate
RelayStep == Receive \/ ReceiveLate \/ OtherPage

Next ==
  \/ \E c \in Calls : PageStep(c)
  \/ Tick \/ SpeechStep \/ ContentStep \/ RelayStep

Spec == Init /\ [][Next]_vars

-----------------------------------------------------------------------------
(* Properties.                                                             *)

\* While a page waits for a camera, retries included, the last signal it posted is
\* "on": no overlapping call that ends, and no poll() in between, reports the camera
\* as unused under it.
AttemptSignalled == (\E c \in Calls : call[c] \in {"asking", "pausing"}) => lastV = "on"

\* The signal the relay will have heard last, if nothing more is posted.
News == IF Path = <<>> THEN heard ELSE Path[Len(Path)]

\* Through the queue, reconnects and page loads a page's signals stay in order: the
\* relay ends up with the page's present state, unless the latest signal itself was
\* lost with its connection, or one of an older page or another session came after it.
\* Earlier losses do no harm, and the next signal makes up for the latest.
SignalsInOrder == ~lost /\ lastV # "null" => News = lastV
=============================================================================

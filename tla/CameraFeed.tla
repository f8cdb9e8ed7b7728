----------------------------- MODULE CameraFeed -----------------------------
(***************************************************************************)
(* The camera of a call site's viewer, and how its frames reach the        *)
(* loopback device the isolated browsers read.                             *)
(*                                                                         *)
(* The viewer's page (rbiWarmCameraMSTP, proxy.go) opens the user's camera *)
(* at the first gesture, keeps it until the page goes, and sends frames    *)
(* over a WebSocket that it opens again after each close.  The relay       *)
(* (camrelay.py) writes them to the stdin of one ffmpeg, and black frames  *)
(* when there are none; a watchdog starts ffmpeg again.                    *)
(*                                                                         *)
(* The relay's coroutines run on one event loop, which start_feeder        *)
(* blocks; write_frame runs in the executor's threads.                     *)
(***************************************************************************)
EXTENDS Naturals, FiniteSets

CONSTANTS Viewers,    \* pages with a camera
          Socks,      \* camera sockets at a time, a bound
          Idle,       \* idle_black_writer, as the writer of a frame
          NoSock,     \* no socket, no writer
          FeedFaults  \* which of FeedFaultKinds may happen

FeedFaultKinds == {"refuse", "net", "ffmpeg", "hang", "popen", "black", "restart"}

ASSUME FeedAssumption ==
  /\ IsFiniteSet(Socks)
  /\ Idle \notin Socks /\ NoSock \notin Socks \cup {Idle}
  /\ FeedFaults \subseteq FeedFaultKinds

Writers == Socks \cup {Idle}

VARIABLES
  cam,     \* a page's camera: "off", "asking" (started) or "on" (stream)
  conn,    \* a page's ws
  sock,    \* ws_handler of a socket: "none", "opening", "open", or "gone" and not noticed
  live,    \* _LIVE["n"]
  silent,  \* no frame for more than 5 s (_LASTLIVE)
  black,   \* is there a BLACK_JPEG?
  job,     \* write_frame of a writer: "none", "queued", or with the ffmpeg it read from
           \* _FEED["proc"], which is the "current" or a "former" one
  wlock,   \* who holds _WLOCK
  feeder,  \* the ffmpeg of _FEED["proc"]: "none", "runs", "hung", "ending" or "dead"
  strays,  \* other ffmpegs that write to the device and were not signalled
  broken,  \* _FEED["broken"]
  start    \* start_feeder: "no", or about to "kill" or to "popen"

clientVars == <<cam, conn, sock, live>>
writeVars == <<job, wlock>>
feederVars == <<feeder, strays, broken, start>>
feedVars == <<clientVars, silent, black, writeVars, feederVars>>

FeedTypeOK ==
  /\ cam \in [Viewers -> {"off", "asking", "on"}]
  /\ conn \in [Viewers -> Socks \cup {NoSock}]
  /\ sock \in [Socks -> {"none", "opening", "open", "gone"}]
  /\ live \in Nat
  /\ silent \in BOOLEAN /\ black \in BOOLEAN
  /\ job \in [Writers -> {"none", "queued", "current", "former"}]
  /\ wlock \in Writers \cup {NoSock}
  /\ feeder \in {"none", "runs", "hung", "ending", "dead"}
  /\ strays \in Nat
  /\ broken \in BOOLEAN
  /\ start \in {"no", "kill", "popen"}

Running == feeder \in {"runs", "hung"}

\* _on_startup encodes the black frame, which may fail, and calls start_feeder.
Encoded == IF "black" \in FeedFaults THEN BOOLEAN ELSE {TRUE}

FeedInit ==
  /\ cam = [v \in Viewers |-> "off"]
  /\ conn = [v \in Viewers |-> NoSock]
  /\ sock = [s \in Socks |-> "none"]
  /\ live = 0 /\ silent = TRUE /\ black \in Encoded
  /\ job = [w \in Writers |-> "none"] /\ wlock = NoSock
  /\ feeder = "none" /\ strays = 0 /\ broken = FALSE /\ start = "kill"

-----------------------------------------------------------------------------
(* The viewer's page.                                                      *)

\* go(): `started' lets one getUserMedia through.
Gesture(v) ==
  /\ cam[v] = "off"
  /\ cam' = [cam EXCEPT ![v] = "asking"]
  /\ UNCHANGED <<conn, sock, live, silent, black, writeVars, feederVars>>

\* connect().
Dial(v) ==
  \E s \in Socks :
    /\ sock[s] = "none"
    /\ conn' = [conn EXCEPT ![v] = s]
    /\ sock' = [sock EXCEPT ![s] = "opening"]

\* The user's browser hands out the camera, or refuses it and a later gesture asks again.
Answer(v) ==
  /\ cam[v] = "asking"
  /\ \/ cam' = [cam EXCEPT ![v] = "on"] /\ Dial(v)
     \/ /\ "refuse" \in FeedFaults
        /\ cam' = [cam EXCEPT ![v] = "off"]
        /\ UNCHANGED <<conn, sock>>
  /\ UNCHANGED <<live, silent, black, writeVars, feederVars>>

\* 1.5 s after a close.
Redial(v) ==
  /\ cam[v] = "on" /\ conn[v] = NoSock
  /\ Dial(v)
  /\ UNCHANGED <<cam, live, silent, black, writeVars, feederVars>>

\* The connection is lost, or the page goes and its camera with it; nothing else stops
\* the camera.  The relay has not noticed.
Drop(v) ==
  /\ \/ "net" \in FeedFaults /\ conn[v] # NoSock /\ UNCHANGED cam
     \/ cam[v] = "on" /\ cam' = [cam EXCEPT ![v] = "off"]
  /\ conn' = [conn EXCEPT ![v] = NoSock]
  /\ sock' = [s \in Socks |->
                IF s # conn[v] THEN sock[s] ELSE IF sock[s] = "open" THEN "gone" ELSE "none"]
  /\ UNCHANGED <<live, silent, black, writeVars, feederVars>>

-----------------------------------------------------------------------------
(* The relay's coroutines.                                                 *)

LoopFree == start = "no"

\* ws_handler, up to its first message.
Accepted(s) ==
  /\ LoopFree /\ sock[s] = "opening"
  /\ sock' = [sock EXCEPT ![s] = "open"]
  /\ live' = live + 1
  /\ UNCHANGED <<cam, conn, silent, black, writeVars, feederVars>>

\* A frame: write_frame goes to the executor and the handler waits for it.
Frame(s) ==
  /\ LoopFree /\ sock[s] = "open" /\ job[s] = "none"
  /\ silent' = FALSE
  /\ job' = [job EXCEPT ![s] = "queued"]
  /\ UNCHANGED <<clientVars, black, wlock, feederVars>>

\* Mutation: a flag instead of a count.
HandlerEndsFlag(s) ==
  /\ LoopFree /\ sock[s] = "gone" /\ job[s] = "none"
  /\ sock' = [sock EXCEPT ![s] = "none"]
  /\ live' = 0
  /\ UNCHANGED <<cam, conn, silent, black, writeVars, feederVars>>

\* The handler notices that its peer is gone, and its finally runs.
HandlerEnds(s) ==
  /\ LoopFree /\ sock[s] = "gone" /\ job[s] = "none"
  /\ sock' = [sock EXCEPT ![s] = "none"]
  /\ live' = IF live > 0 THEN live - 1 ELSE 0
  /\ UNCHANGED <<cam, conn, silent, black, writeVars, feederVars>>

\* Five seconds without a frame: a frozen tab, a hung camera, a peer that is gone.
Silence ==
  /\ ~silent
  /\ silent' = TRUE
  /\ UNCHANGED <<clientVars, black, writeVars, feederVars>>

\* feed_alive(): poll() is None and no write has failed.
FeedAlive == feeder \in {"runs", "hung", "ending"} /\ ~broken

\* Mutation: a connected viewer is taken to send frames.
IdleTickTrusting ==
  /\ LoopFree /\ job[Idle] = "none"
  /\ live = 0
  /\ FeedAlive /\ black
  /\ job' = [job EXCEPT ![Idle] = "queued"]
  /\ UNCHANGED <<clientVars, silent, black, wlock, feederVars>>

\* idle_black_writer, every 100 ms.
IdleTick ==
  /\ LoopFree /\ job[Idle] = "none"
  /\ live = 0 \/ silent
  /\ FeedAlive /\ black
  /\ job' = [job EXCEPT ![Idle] = "queued"]
  /\ UNCHANGED <<clientVars, silent, black, wlock, feederVars>>

\* feeder_watchdog, every 3 s.
Watchdog ==
  /\ LoopFree /\ ~FeedAlive
  /\ start' = "kill"
  /\ UNCHANGED <<clientVars, silent, black, writeVars, feeder, strays, broken>>

-----------------------------------------------------------------------------
(* start_feeder.                                                           *)

\* Mutation: no strays are killed.
KillNothing ==
  /\ start = "kill"
  /\ start' = "popen"
  /\ UNCHANGED <<clientVars, silent, black, writeVars, feeder, strays, broken>>

\* pkill signals every ffmpeg that writes to the device.  That it is there and works is
\* assumed: its failure is ignored.
Kill ==
  /\ start = "kill"
  /\ feeder' = IF Running THEN "ending" ELSE feeder
  /\ strays' = 0
  /\ start' = "popen"
  /\ UNCHANGED <<clientVars, silent, black, writeVars, broken>>

\* Popen; the writers that have read _FEED["proc"] keep the former one.
Popen ==
  /\ start = "popen"
  /\ feeder' = "runs" /\ broken' = FALSE
  /\ strays' = IF Running THEN strays + 1 ELSE strays
  /\ job' = [w \in Writers |-> IF job[w] = "current" THEN "former" ELSE job[w]]
  /\ start' = "no"
  /\ UNCHANGED <<clientVars, silent, black, wlock>>

\* Popen raises: the watchdog tries again in 3 s (at startup the relay ends, which is
\* RelayRestarts).
PopenFails ==
  /\ "popen" \in FeedFaults /\ start = "popen" /\ feeder # "none"
  /\ start' = "no"
  /\ UNCHANGED <<clientVars, silent, black, writeVars, feeder, strays, broken>>

-----------------------------------------------------------------------------
(* write_frame, in a thread of the executor.                               *)

\* It reads _FEED["proc"] before it has the lock.
Capture(w) ==
  /\ job[w] = "queued"
  /\ job' = [job EXCEPT ![w] = "current"]
  /\ UNCHANGED <<clientVars, silent, black, wlock, feederVars>>

TakeLock(w) ==
  /\ job[w] \in {"current", "former"} /\ wlock = NoSock
  /\ wlock' = w
  /\ UNCHANGED <<clientVars, silent, black, job, feederVars>>

Return(w) ==
  /\ job' = [job EXCEPT ![w] = "none"]
  /\ wlock' = NoSock

\* ffmpeg, or a former one that is about to end, takes the frame.
Written(w) ==
  /\ wlock = w
  /\ job[w] = "current" => feeder \in {"runs", "ending"}
  /\ Return(w)
  /\ UNCHANGED <<clientVars, silent, black, feederVars>>

\* The pipe is broken: whichever ffmpeg it belonged to, the present one is marked.
WriteFails(w) ==
  /\ wlock = w
  /\ job[w] = "current" => feeder = "dead"
  /\ broken' = TRUE
  /\ Return(w)
  /\ UNCHANGED <<clientVars, silent, black, feeder, strays, start>>

-----------------------------------------------------------------------------
(* ffmpeg and the relay as processes.                                      *)

\* ffmpeg dies, stops reading its stdin, or goes on reading it.
FeederFails ==
  /\ \/ "ffmpeg" \in FeedFaults /\ Running /\ feeder' = "dead"
     \/ "hang" \in FeedFaults /\ feeder = "runs" /\ feeder' = "hung"
     \/ feeder = "hung" /\ feeder' = "runs"
  /\ UNCHANGED <<clientVars, silent, black, writeVars, strays, broken, start>>

\* A signalled ffmpeg exits; one whose relay is gone reads the end of its stdin.
FeederEnds ==
  /\ \/ feeder = "ending" /\ feeder' = "dead" /\ UNCHANGED strays
     \/ strays > 0 /\ strays' = strays - 1 /\ UNCHANGED feeder
  /\ UNCHANGED <<clientVars, silent, black, writeVars, broken, start>>

\* The relay crashes and systemd starts it again; its ffmpeg may survive it.
RelayRestarts ==
  /\ "restart" \in FeedFaults
  /\ conn' = [v \in Viewers |-> NoSock]
  /\ sock' = [s \in Socks |-> "none"]
  /\ live' = 0 /\ silent' = TRUE /\ black' \in Encoded
  /\ job' = [w \in Writers |-> "none"] /\ wlock' = NoSock
  /\ strays' = IF Running THEN strays + 1 ELSE strays
  /\ feeder' = "none" /\ broken' = FALSE /\ start' = "kill"
  /\ UNCHANGED cam

FeedNext ==
  \/ \E v \in Viewers : Gesture(v) \/ Answer(v) \/ Redial(v) \/ Drop(v)
  \/ \E s \in Socks : Accepted(s) \/ Frame(s) \/ HandlerEnds(s)
  \/ \E w \in Writers : Capture(w) \/ TakeLock(w) \/ Written(w) \/ WriteFails(w)
  \/ Silence \/ IdleTick \/ Watchdog \/ Kill \/ Popen \/ PopenFails
  \/ FeederFails \/ FeederEnds \/ RelayRestarts

FeedSpec == FeedInit /\ [][FeedNext]_feedVars

\* Timers, coroutines and threads run, and signalled ffmpegs exit.  No viewer is
\* assumed to send, to close or to be noticed when it is gone.
FeedFairness ==
  /\ WF_feedVars(Silence) /\ WF_feedVars(IdleTick) /\ WF_feedVars(Watchdog)
  /\ WF_feedVars(Kill) /\ WF_feedVars(Popen \/ PopenFails) /\ WF_feedVars(FeederEnds)
  /\ \A w \in Writers :
       /\ WF_feedVars(Capture(w)) /\ WF_feedVars(TakeLock(w))
       /\ WF_feedVars(Written(w) \/ WriteFails(w))

-----------------------------------------------------------------------------
(* Properties.                                                             *)

\* _LIVE counts the handlers that run: while sockets of one viewer overlap, the finally
\* of the old one does not declare the feed of the new one idle, and no handler that has
\* ended keeps it from being declared idle.
LiveCounted == live = Cardinality({s \in Socks : sock[s] \in {"open", "gone"}})

\* At most one ffmpeg writes to the device without having been told to end, although a
\* late write to a former ffmpeg makes the watchdog replace a healthy one and a relay
\* that crashed leaves its own behind.
OneProducer == strays + (IF Running THEN 1 ELSE 0) <= 1

\* A failure, or a restart that comes in the middle of a write.
Trouble ==
  \/ FeederFails \/ PopenFails \/ RelayRestarts
  \/ Popen /\ \E w \in Writers : job[w] = "current"

\* The device never starves: frames are written again and again, black ones if need be
\* also while a viewer is connected and silent, unless failures never end, ffmpeg stays
\* alive without reading its stdin (nothing notices that), or there is no black frame.
\* Restarts, 3 s apart, must not meet a write of a few milliseconds for ever.
NeverStarves ==
  \/ []<><<\E w \in Writers : Written(w)>>_feedVars
  \/ []<><<Trouble>>_feedVars
  \/ <>[](feeder = "hung")
  \/ <>[]~black
=============================================================================

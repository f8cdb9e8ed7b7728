------------------------------ MODULE MCCamera ------------------------------
(***************************************************************************)
(* The two halves of the camera side by side: the signals of the isolated  *)
(* page and the feed of the device.  No viewer subscribes to the signals,  *)
(* so that the halves share no state and a behaviour stays with one.  The  *)
(* fairness is the feed's: it says nothing of the signals.                 *)
(***************************************************************************)
EXTENDS MediaBridge, CameraFeed

VARIABLE half

CameraInit == half \in {"signals", "feed"} /\ Init /\ FeedInit

CameraNext ==
  \/ half = "signals" /\ Next /\ UNCHANGED <<half, feedVars>>
  \/ half = "feed" /\ FeedNext /\ UNCHANGED <<half, vars>>

CameraSpec == CameraInit /\ [][CameraNext]_<<half, vars, feedVars>> /\ FeedFairness

\* The state of either half keeps its shape: in particular no call retries more often
\* than its count says and no count falls below zero.
CameraTypeOK == TypeOK /\ FeedTypeOK
=============================================================================

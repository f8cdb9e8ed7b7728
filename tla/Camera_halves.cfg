SPECIFICATION CameraSpec
CONSTANTS
  Calls = {c1, c2}
  Uses = {{"cam"}, {"mic"}}
  MaxRetries = 1
  MaxPath = 3
  Faults = {"pub", "other", "navigate"}
  Viewers = {v1, v2}
  Socks = {s1, s2}
  Idle = idle
  NoSock = NoSock
  FeedFaults = {"refuse", "net", "ffmpeg", "hang", "popen", "black", "restart"}
INVARIANTS CameraTypeOK AttemptSignalled SignalsInOrder LiveCounted OneProducer
PROPERTIES NeverStarves

# A TLA+ model of the TLS-terminating isolation gateway

The gateway is an HTTP proxy (`Gatesentry/`, Go) that filters traffic, opens TLS
connections of selected ("isolated") hosts, and serves those hosts out of throwaway
browser containers: the client sees pixels, the page runs in the container.  An admin
console (`Gatesentry/ui`, Svelte) edits its settings through an HTTP API, and an
extension in the isolated browser (`Gatesentry/rbi/rbi-chrome/ext`) signals that a page uses
the camera, while a relay (`Gatesentry/rbi/camrelay.py`) feeds the user's own camera to it.  This directory models the parts in which goroutines, Docker,
timers, sockets, requests in flight and users meet, checks them with TLC on small
instances and proves the main safety properties with TLAPS for all instances.

## Inventory

| Part | State | Operations | Meets | Hard because | Correct when |
|---|---|---|---|---|---|
| RBI session manager, `gatesentryproxy/rbi_session.go`, `websocket.go` | session map by host, launch locks, viewer counts, grace timers, containers | launch or reuse, attach, detach, grace callback, teardown, collect | request pipeline (calls), Docker (CLI), OS (ports) | request goroutines, timer callbacks, teardown goroutines and collector interleave; docker calls fail half way | a session about to be removed is not handed out; one container per host; nobody's open tab is reaped; nothing is left running |
| Session Manager, `gatesentryproxy/controller/session.go` | session registry, reference-counted egress allowlist | Launch, Teardown, Touch, Shutdown, collect | Docker, egress listener (`IsEgressAllowed`) | four callers tear the same session down | a host is reachable exactly while a session for it is open; a failed launch leaves nothing |
| Request pipeline, `gatesentryproxy/proxy.go`, `auth.go`, `contentscanner.go`, `mymain.go` handlers | one request; accounts and settings | the stages of `ServeHTTP` | all filters, session manager, bump | 500 lines of early returns; settings change between stages | one answer; what a filter refused is not served; isolated hosts are served by their container |
| TLS interception, `gatesentryproxy/ssl.go`, `certificatecache.go`, `certificates.go`, `clienthello/` | certificate cache, tunnels | bump, mint, cache, tunnel | pipeline (CONNECT), sites | racing connections share the cache; two goroutines per tunnel; every failure falls back | a certificate is for its client's name and its site proved it; tunnels end |
| Page extension, `rbi/rbi-chrome/ext/inject.js`, `content.js`, up to the control channel of `rbi/camrelay.py` | in-flight count, last signals, timers, queue, socket | getUserMedia with retries, poll, speech hooks, queue and reconnect | isolated page, relay | calls overlap, sockets break unnoticed, pages replace each other | a waiting page has signalled; signals reach the relay in order |
| Camera feed, `rbiWarmCameraMSTP` (`proxy.go:879`) and `rbi/camrelay.py` | viewers' cameras and sockets, live count, one ffmpeg, its writers and their lock | open the camera at the first gesture, send frames, redial, black frames, watchdog, restart | user's browser, ffmpeg, loopback device | sockets overlap, threads write to an ffmpeg that is being replaced, either process dies | handlers are counted; one ffmpeg produces; the device never starves |
| Console session, `ui/src/lib/api.ts`, `store/apistore.ts`, `App.svelte`, `login.svelte`; `webserver.go` | stored token, logged-in flag, route | login, logout, verify, any call's 401 | every page, other tabs | answers arrive out of order and are about an older token | a session is backed by a token and ends for a reason |
| Console settings, `connectedGeneralSettingInputs.svelte`, `toggle.svelte`, `connectedSettingInput.svelte`, `connectedCertificateBasic.svelte`; `handler_settings.go` | copies of a setting, what the inputs display | load, edit, save | API | two inputs save one object from older copies; inputs flip before the answer | nothing the user did not edit changes; what is displayed is stored |
| Console filters, `filtereditor.svelte`; `handler_filters.go` | rows with ids | load, insert, edit, remove, save | API | rows are never loaded again; ids are reused | the stored list is the one shown; untouched rows stay |
| Console DNS, `dnsArecords.svelte`, `dnslists.svelte`; `handler_dns.go` | rows, a shared form, an edited row | the same | API | form and row share variables; saves are refused or lost | the same |
| Console users, `users.svelte`, `usermodal.svelte`; `handler_users.go`, `application/users.go`, `runtime.go`, `storage/storage.go` | the page's table, two stores over one file, `AuthUsers` | create, update, switch, delete, reload, consume, save | API, pipeline | every copy holds the whole list and writes it back; the file is truncated first | all copies agree on who has access; saved consumption stays |
| Console logs and statistics, `logs.svelte`, `stats.svelte` | search, timer, chart | open, search, poll, leave | API | answers for an older text, or for a page that was left | the rows answer the box; one chart |
| The other settings, `application/storage` | encrypted key-value files | Get, Update, Persist | web API, pipeline | `Update`'s error path keeps its lock | no deadlock |
| DNS, `application/dns/` | server on/off, domain maps | start, stop, refresh, answer | settings, scheduler | refresh and queries without a common lock | a blocked domain stays blocked during a refresh; stop then start works |
| Filters, `application/filters/` | rule lists | word score, URL, MIME, hours | pipeline | boundaries, windows past midnight | agree with their definition |
| Entrypoint, `rbi/rbi-chrome/entrypoint.sh` | firewall, policy | boot steps | Docker | any step may fail | no browser without its lockdown |
| Qt prototype, `tlsproxyQT/` | connection state, certificate cache | CONNECT, bump, pump | sites | event order | no byte lost, both sockets closed |
| Logger, heartbeat, updater, scripts; rules page, notifications, menus and texts of the console | none that matters here | | | | |

## Modules

| Module | Models | Runs |
|---|---|---|
| `RbiSession` (`MCRbiSession`, `RbiSessionProofs`) | session manager | `RbiSession_*` |
| `EgressPolicy` | abstract: what the egress listener may rely on | as a property of `Controller_faulty` |
| `Controller` (`MCController`, `ControllerProofs`) | session Manager; implements `EgressPolicy` | `Controller_*` |
| `ProxyRequest` (`ProxyRequestProofs`) | one request through `ServeHTTP` | `ProxyRequest_*` |
| `SslBump` (`MCSslBump`, `SslBumpProofs`) | `SSLBump`, `ConnectDirect`, certificate cache | `SslBump_*` |
| `MediaBridge` (`MediaBridgeProofs`) | page extension, up to what the relay receives | `Camera_halves` |
| `CameraFeed` (`MediaBridgeProofs`) | viewers' cameras, the relay's sockets, ffmpeg, writers and watchdog | `Camera_halves` |
| `MCCamera` | both: a behaviour is one of the two, which share no state | `Camera_halves` |
| `Console` | what the console's pages share: requests in flight, their bound, the array filter (`Kept`) | |
| `AdminSession` (`ConsoleProofs`) | being logged in | `Console_pages` |
| `GeneralSettings` (`SettingsProofs`) | the shared `general_settings` object | `Console_pages` |
| `SettingWidgets` (`SettingsProofs`) | inputs of one setting each | `Console_pages` |
| `FilterEditor`, `DnsRecords`, `DnsLists` (`TableProofs`) | the three table editors | `Console_pages` |
| `UserAdmin` (`TableProofs`) | users page, its handlers, stores, saver, crash | `Console_pages` |
| `LiveViews` (`ConsoleProofs`) | log viewer and statistics | `Console_pages` |
| `MCConsole` (`ConsoleProofs`) | the console: one page opened, all pages side by side | `Console_pages` |

They meet at narrow interfaces.  `ProxyRequest!Route` ends in a bump, whose
continuation is `SslBump!Connect`; a bumped connection serves requests that enter
`ProxyRequest` again with `who` set from the CONNECT.  `ProxyRequest!Forward` is the
caller whose goroutine `RbiSession!Arrive` follows.  `ProxyRequest!SetUsers` and
`SetAccount` are what `UserAdmin` does to the proxy.  The pages of the console share
nothing but the token, so `MCConsole` lets a behaviour stay with the page it opens.

### RbiSession

A session is named by its sequence number.  Each critical section of `rbiMu` and each
docker call of `rbiLaunchSession` is an action, because other goroutines run between
them: `TakeLaunchLock`, `Reuse` or `NextSeq`, `AllocPort`, `DockerRun`, `Ready` or
`NotReady`/`Undo`, `Register`.  A Go timer has three moments: armed, fired (its
callback waits for `rbiMu`) and run; `Stop` only affects the first, so a callback
stopped too late is counted in `late` and still runs.  The lookup of
`rbiViewerAttach` and `rbiViewerDetach` by port picks any session with that port
(`OnPort`), as Go's map order does.  `docker inspect` is read inside the critical
section and may be wrong (`MayLookDown`, fault `inspect`); `docker rm` may fail
(`rm`); `docker run` may be cut off after the container started (`run`); the proxy
may crash (`restart`).  `rbiTuneContainer` is part of `Register`, which follows it and need
not happen, as its `docker exec` has no timeout.  Left out: docker's arguments, codecs.

### Controller

Every critical section of `m.mu` is an action.  Teardown is two steps, the registry
and `docker rm`, executed for a failed launch (`Undo`, `UndoRm`) and by three workers
with lists: the collector, Shutdown and the clients.  `allowed[h] = 0` stands for a
missing key.  The refinement of `EgressPolicy` maps `open` to the registry,
`permitted` to the hosts with a positive count, and `spent` to the sessions whose
Launch has come to `register`.

### ProxyRequest

`stage` is the place in `ServeHTTP`, `out` what was written to the client so far,
`contacted` who was given the request, or was asked by the proxy itself for the title and
icon of an isolated page (`"preview"`, `proxy.go:389` and `408`).  A filter's answer is a free choice made when
it is asked; accounts and the user switch may change between any two stages.
Responses are of three kinds and, relative to `MaxContentScanSize`, three sizes.

### SslBump

A certificate is named by the server name and the address it was copied from.  The
upstream handshake verifies it (`Trusted`), so the validations that follow in the code
cannot disagree and are not modelled.  A tunnel's copier may block in `Write` (`stuck`) while
the peer does not read.  A cache entry is absent, within its TTL, or
expired; entries expire one by one.  An unreadable `config.json` ends the process,
and with it all connections and the cache.

### MediaBridge

`call` and `vInflight` are inject.js's attempts: `Ask` signals before the camera is
there, `NotReady` and `Retry` are the 700 ms loop, `Granted` and `Rejected` settle.
Every action that calls `poll()` ends in `Poll`.  A signal goes through
`posted` (window messages), `queue` (content.js, socket not open) and `wire` (to the
relay), where `Receive` makes it `heard`.  A socket is broken for a while before anybody
notices, and what was sent on a connection that is gone (`old`) is lost or comes late,
after signals of the next page too.  `lost` remembers that this happened to the latest
signal.  The relay is shared with other pages (`OtherPage`).  Timers are armed or not;
their lengths are left out.

The model ends at the relay.  In the viewer, `controlConnect` and `camStart` of
`inject-head.html` return at once (lines 133 and 111): the proxy sets `window.__rbi_cam` to
`""` (`proxy.go:584`), so nobody subscribes to these signals.

### CameraFeed

The camera that does run is the one of `rbiWarmCameraMSTP` (`proxy.go:879`): `Gesture` asks
for it, `Answer` is the user's, and nothing stops it while the page lives; `Dial`, `Redial`
and `Drop` are its socket.  In the relay, `Accepted`, `Frame` and `HandlerEnds` are
`ws_handler`, `IdleTick` the writer of black frames, `Watchdog`, `Kill` and `Popen` the
replacement of ffmpeg.  The coroutines share one event loop, which `start_feeder` blocks
(`LoopFree`).  `write_frame` runs in threads: it reads `_FEED["proc"]` (`Capture`), waits for
`_WLOCK` (`TakeLock`), and writes; by then the process may be a former one.  `pkill` is
taken to reach every ffmpeg on the device.  Frames have no contents.

### The console's pages

A page's `...net` maps a few slots to its requests: each is sent, served by the handler
in one or more steps, and answered, or lost at any of these moments.  A handler is one
action where its reads and its write cannot be separated by anything the property sees,
and several where they can: `GeneralSettings!PostGeneral` and `StoreGeneral` (the old
password is read, then the object stored); `UserAdmin!ReadUsers`, `StoreUsers`,
`OpenStore`, `SwapStore`, `FillAuthUsers` (the handler, `MapStore.Update`, and
`Runtime.Init` in the order of its assignments).  `UserAdmin!CrashRestart` finds the
file, or an empty one if a write was under way, which reads as the default users.

Where the code breaks a property after a certain history, a history variable says so
and the property is stated for the others (see below).  `Beyond = "no"` stops the user
there, since nothing more is claimed; `"yes"` explores on.

Texts and items are two or three values.  A filter's content and score are one item; a
DNS record is a domain with an address that is the old or a new one; a setting is one
of two values.  Notifications, sorting and searching of tables are left out.

- `AdminSession`: `jwt` is the token's number, 0 for none; `React` is what every store
  update sets off (route, verification, the home page's call).  A request without a
  token makes `authenticationMiddleware` panic, so it fails instead of being refused.
- `GeneralSettings`: `copy` is each input's object, `form` what was typed into the
  password dialog.  The server never sends the password and keeps it for a blank one.
- `SettingWidgets`: `value` is the component's copy, `display` what the input shows;
  Svelte updates the input only when the copy changes.
- `FilterEditor`: rows are found by id, and `addRow` takes the number of rows plus one.
  The reply to a save has a key "response" where the editor reads "Response", so it
  never loads again.
- `DnsRecords`, `DnsLists`: one form for Insert and Edit (`editing`), or one text for
  the dialog and the edited row (`editingItemValue`); the asynchronous rest of a save
  is an action of its own.
- `LiveViews`: requests of a page that was left still return (`of = "other"`, or
  `"early"` if the statistics had no chart yet).

## Runs

Bounds are the smallest at which the interleavings in question happen: two requests
race for a host, a second host shares nothing but `rbiMu` (and, with recycled ports,
a port), two launches per behaviour let a session be replaced, one late callback is
enough to kill.  Deadlock checking is off where a system may come to rest: all tabs
closed with the launch bound reached, the handler returned, all connections closed.
Symmetry is used for safety properties only.

`RbiSession_live` has one host; with two (`Hosts = {h1, h2}`, `Ports = {p1, p2}`,
`PortReuse = FALSE`, `MaxLate = 0`) it passes as well and takes four minutes.
`Camera_halves`: two calls (`Calls`) make the in-flight count matter, one retry
(`MaxRetries`, 9 in the code) lets a call pause and end; the page acts only while fewer
than `MaxPath` = 3 signals are under way, which fills every pair of places.  Two viewers and
two sockets (`Viewers`, `Socks`) let a socket overlap its successor or another viewer's.
`Console_pages`: two requests in flight (`Slots`) race, three for the session
(`Channels`: a verification, a call and a login), two tokens (`MaxTokens`) let one
replace another; two rows to start with and room for a third (`MaxRows`, `MaxLists`), of A records one and
room for another (`MaxRecords`); two user names, of whom the first surfs (`Surfers`) and consumes once
(`MaxUsed`).  A page may come to rest when its bound is reached, so deadlock is not
checked there.

| Run | Shows |
|---|---|
| `RbiSession_faulty` | with every fault and recycled ports: `DoomedNeverServed`, `ArmedMeansEmpty` |
| `RbiSession_reliable` | docker tells the truth, ports are fresh: `NoOrphan`, `OneContainerPerHost`, `WatchedNeverReaped` |
| `RbiSession_live` | fair, docker calls without a timeout may hang: `LaunchReturns`, `NothingLingers` |
| `RbiSession_late` | refutes `StoppedTimerNeverKills` |
| `Controller_faulty` | with faults and Shutdown: `AllowlistExact`, `RemovedOnce`, refinement of `EgressPolicy` |
| `Controller_reliable` | fair, docker fails cleanly: `NoHalfUpSession`, `IdleReaped` |
| `ProxyRequest_filters` | no media scanner, copies succeed: `OneResponse`, `RefusedNotServed`, `FlaggedTextWithheld` |
| `ProxyRequest_faulty` | everything on: `IsolatedOnlyContainer` |
| `SslBump_cache` | all faults, peers that do not read, fair: `VouchedFor`, `TunnelEnds` |
| `SslBump_direct` | refutes `IsolatedNeverDirect` without any fault |
| `Camera_halves`, extension | all faults: `AttemptSignalled`, `SignalsInOrder` |
| `Camera_halves`, feed | all faults, fair: `LiveCounted`, `OneProducer`, `NeverStarves` |
| `Console_pages`, session | `SessionBacked`, `EndsForAReason` |
| `Console_pages`, settings | `PasswordNeverBlank`, `UserNameKept`, `EditsKept`; `WidgetHonest` |
| `Console_pages`, filters | `SavedIsShown`, `OthersKept` |
| `Console_pages`, DNS | `TableIsStored`; `ListsShown` |
| `Console_pages`, users | `UsersShown`, `CopiesAgree`, `ConsumptionSaved`, across crashes |
| `Console_pages`, logs and statistics | `RowsOfSearch`, `OneChart` |

### What the passing runs exclude, and why

Each constant of a passing run that is not at its most general value marks a way the
code really breaks the property.  Changing that one value makes TLC show it.

- `RbiSession_reliable`, `Faults = {"rm"}` or `{"run"}`: `NoOrphan` fails, the map
  entry goes before `docker rm` and its failure is only logged.
- `RbiSession_reliable`, `Faults = {"inspect"}`: `OneContainerPerHost` fails, any
  docker error counts as "not running" and the entry is overwritten.
- `RbiSession_reliable`, `PortReuse = TRUE`: `WatchedNeverReaped` fails, viewers are
  matched by port number.
- `RbiSession_live` with two hosts and `PortReuse = TRUE`: `NothingLingers` fails, a detach
  that finds the other host's session by its port leaves the own one with a viewer counted,
  and neither timer nor collector takes it.
- `RbiSession_live`, `DockerHangs`: `docker inspect` (`rbi_session.go:497`, under `rbiMu`) and
  the `docker exec` of `rbiTuneContainer` (`625`-`639`, under the host's lock) have no
  timeout.  `LaunchReturns` excepts those that never return; that a hung inspect also stops
  viewers and teardowns is not modelled.
- `Controller_reliable`, `MayStop = TRUE`: `IdleReaped` fails, a Launch may register
  after Shutdown took its list and the collector returned.
- `ProxyRequest_filters`, `Faults = {"copy"}`: `OneResponse` fails, an error page
  follows a stream that broke off.
- `ProxyRequest_filters`, `Sizes = {"equal"}`: `FlaggedTextWithheld` fails, a body of
  exactly `MaxContentScanSize` bytes is taken for a larger one.
- `ProxyRequest_filters`, `AiFilter = TRUE`: `RefusedNotServed` fails, `ScanMedia`
  (`contentscanner.go:66`) answers a refused image with the replacement and leaves
  `httpResponseSent` false, so the original follows.

- `SslBump_cache`, `<>[](stuck # {})`: neither copier has a write deadline (`ssl.go:267`,
  `311`), so a peer that keeps its end open and never reads holds the tunnel.

The histories that the console's properties except are of the same kind; dropping one
exception makes TLC show the case.

- `AdminSession`, `crossed`: `verifyToken` marks the console logged in whichever token
  is stored by then, none included, and a late 401 about an older token ends the new
  session (`api.ts:29`, `192`); another tab changes the token unnoticed.  Also,
  the redirect to the login page runs on store updates only (`App.svelte:66`): Back brings a
  user who has logged out to a console page (`Browse`), so no property ties the page to
  the session.
- `GeneralSettings`, `clash`: a save sends every field from the copy loaded at mount, so
  it undoes what was saved since.  `"blank"`: Proceed with nothing typed sends the JSON
  `null`; the dialog says "Leave blank to keep the current password"
  (`headerrightnav.svelte:65`), and the password is kept, but the administrator's name
  and the log location are stored empty.
- `SettingWidgets`: a text typed back to the loaded value is not sent although another
  was saved in between; the certificate box reports "Certificate data saved", but
  `GSApiSettingsPOST` ignores `capem` and `keypem`.  `flawed`: a lost answer leaves the
  switch flipped.
- `FilterEditor`, `awry`: a save before the first load replaces the list; after a
  removal Insert reuses an id, and edits and removals hit both rows (`"twin"`).
- `DnsRecords`, `dmishap`: a load empties the table first, so an Insert while it is out, or
  after it was lost, posts the new row alone and every other record is gone
  (`dnsArecords.svelte:32`, `111`); a save that the page gave up may be stored after its reload
  (`dlate`).  Also, a closed Edit leaves `editingRowId` set, and the next Insert overwrites
  that row (`148`).  The table then shows what is stored, so `TableIsStored` holds; that
  records survive is not claimed.
- `DnsLists`, `late`: of two overlapping saves the one served last stays, and a lost
  one is only reported.  Also, closing the dialog while a row is edited empties the
  row's text, and saving the row then stores an empty list name; no property claims the
  contrary.
- `UserAdmin`, `overlap`: two handlers, a handler and the saver, or a reload and a
  write under way lose changes; a crash in a write leaves a torn file, which is taken for a new
  installation's.  Once
  `Runtime.Init` has run again, the web server's store is another object than the proxy's
  (`same`), keeps the consumption of that time and writes it back with every change (excepted in `ConsumptionSaved`).  A lost load leaves the page
  loading for good.
- `LiveViews`, `hasty`: statistics left before their first answer throw in `onDestroy`
  and later draw a chart nobody destroys; an answer to an older search stays until the
  next poll.
- `MediaBridge`, `lost`: a signal sent into a broken socket is not repeated, and one of an
  older page or of another session may come after the latest.
- `CameraFeed`: an ffmpeg that lives without reading its stdin is noticed by nobody; it
  blocks the writer that holds `_WLOCK`, and with it all others.

Also met while modelling: `gcLoop` (`controller/session.go:277`) tears down the sessions
it found idle without looking again, so one touched in between is lost, which
`session_logic_test.go:59` rules out; `TimeAccessHandler` (`mymain.go:278-286`) drops the time
filter's answer, so `TimeAccess` in `ProxyRequest` never refuses; and
`sendBlockMessageBytes` (`proxy.go:694`) takes every URL with ":443" in it for a
CONNECT.  `camrelay.py:14-16` says that ffmpeg is never killed while live; a late write failure
on the previous one marks the new one broken (`137`-`146`), and the watchdog kills it.
`content.js:1-4` and `inject-head.html:104-108` say that the camera is on only while used; the
warm camera of `proxy.go:879` stays on, as `RBI-CAMERA-MIC-REPORT.md:19` says.  The bridge
page's `start()` (`camrelay.py:88`) can be entered twice and loses the first stream.

### Fairness

`RbiSession`: `sync.Mutex` hands a lock to a starving waiter, hence strong fairness of
`TakeLaunchLock`; `docker run`, `docker rm` and the readiness poll have timeouts, timers,
goroutines and the ticker are scheduled by the Go runtime: weak fairness; a viewer
whose container is gone loses its socket.  A launch's `docker inspect` and `docker exec`
have no timeout and are not assumed to return (`Untimed`); the collector's inspect is.
Clients are not assumed to come, leave or close.  `Controller`: the same without locks;
Touch, Shutdown and clients need not happen.  `SslBump`: reads of closed sockets return and
goroutines run; peers need not close, write or read, upstream handshakes need not end.
`CameraFeed`: the relay's coroutines and threads run and a signalled ffmpeg ends; viewers
need not send, close or come.  The other half of `Camera_halves` and the console's run
assume no fairness: their properties are safety.

## Proofs

All theorems hold for any constants that satisfy the named assumption of their module;
where one needs more, it says so.  Each is proved from an inductive invariant that
holds initially, is kept by every action, and implies the property.

- `RbiSessionProofs`: `TypeCorrect`, `DoomedSessions` and `ArmedSessions` under every
  fault.  `DoomedNeverServed` is inductive only with the facts that session numbers in
  use have been handed out (`Numbered`), that a session is filed under its own host, and
  that a session under construction is known to its request only
  (`PrivateUntilRegistered`).  `NoOrphans` and `SingleContainer` assume `Faults = {}`.
  Their invariant adds that a launching request holds its host's lock, that no container
  exists before its `docker run`, and that a host's entry is only replaced once its
  container is down.  `TabsKept` (`WatchedNeverReaped`) assumes `Faults = {}` and
  `~PortReuse`, as its run does.  An open tab is protected by its
  session's viewer count and by nothing else, so the proof is that the count is right:
  `viewers[s]` is the number of attached tabs of every session in the map (`Counted`).
  That needs ports that differ (`PortsApart`), because tabs are matched by port, and that
  nobody is counted on a session under construction (`UnseenUntilRegistered`), which
  enters the map with the count 0.
- `ControllerProofs`: `ManagerTypes`, `ExactCounts` (cardinalities change by one with
  the registry), `OneRemover`, `FailClosed` (assumes `Faults = {}`) and
  `ImplementsPolicy`, the refinement `Spec => PolicySpec` of `EgressPolicy`, from
  `ExactCounts`: a positive count is a non-empty set of sessions.
- `ProxyRequestProofs`: `RequestTypes` and `PlainRequestsIsolated` for all constants;
  `AnsweredOnce` and `FiltersObeyed` if `~AiFilter` and no copy breaks off, from the
  invariant that nothing is written and nothing refused before the handler is done.
  `FlaggedWithheld` assumes only that no body has exactly the size of the scan limit
  (`"equal" \notin Sizes`); the AI filter and copies that break off, which its run
  leaves out, are covered.  Its invariant says that there is no response before the
  origin was asked and that a page with blocked words never comes to be written.
- `SslBumpProofs`: `BumpTypes`, and `CertificatesVouchedFor` from the invariant that
  the cache holds verified pairs only and that a connection about to mint verified its
  own.
- `MediaBridgeProofs`: `WaitingIsSignalled`, from `vInflight` being the cardinality of
  the set of waiting calls; `LastSignalIsState`, from the fact that of queue and wire only
  the one the socket's state allows is used, so that the last signal of the whole path is
  that of its last non-empty part.  `Shapes` (`TypeOK`) rests on both: `vInflight` is
  decremented without a test, and stays a natural number because it is a cardinality.
  `HandlersCounted`, `ProducerIsAlone` and `FeedTypes` for the feed: a viewer's socket is its
  own, the live count is the cardinality of the set of running handlers, and a stray
  ffmpeg is there only until the next start has killed it (`Strays`).
- `SettingsProofs`: `PasswordStays`, `NameStays`, `EditsStay`.  Every copy of the
  object (inputs, form, requests in each phase) is described: none has a password but
  one that was typed or read from the store, and while saves do not clash the fields an
  input does not edit are the stored ones.  `WidgetsHonest`: a save is alone and sends
  what is displayed (`WApart`, `WMoves`), so that once it is served the display is the
  stored value; text and radio buttons load once, since a second answer would not reach
  an input whose copy does not change.
- `TableProofs`: the table editors and the users page.
  - `SavesShown`, `RowsStay` (filters): the editor posts all its rows and never reads
    them back, so the invariant follows each row through the editor, the save under way
    and the stored list (`FSaves`, `FKept`), with ids in use once and one load at a time
    (`FLoads`).
  - `RecordsTableTrue` (A records): while the user waits for every answer there is one
    request, a load brings what is stored, and the table between requests is the stored
    one (`DSaves`).
  - `ListsStayShown` (block lists): of one request at a time, an answer brings the
    stored lists and a save carries the rows (`LSaves`).
  - `UsersPageTrue`, `CopiesFollow`, `CountsSaved` (users): unless handlers, the saver
    and crashes met (`overlap`), one of them at most is at work (`UAlone`), and for each
    place in `Runtime.Init` the invariant says which of the file, the two stores and
    `AuthUsers` agree already (`UCopies`).  Counts run ahead of the saver's list, which
    runs ahead of the file (`UCounts`), across crashes too.
  - `Ranks` and `KeptEntries` are the facts about arrays: `Kept(d, K)`, JavaScript's
    `filter`, has exactly the entries of `d` at the places in `K`, in their order.  It is
    defined by counting places because a recursive definition (`SelectSeq`) cannot be
    reasoned about without induction over data.
- `ConsoleProofs`: `LoggedInHasToken`, `SessionsEndForAReason`, from
  the invariant that an answer is true of the token its request carried and that tokens
  in use have been issued.  `RowsAnswerSearch`, `ChartsBounded`, from the facts that an
  answer that still goes to a page is the open page's, and carries the text in the box
  until that changes under it.  The composed console lets one page step
  at a time and leaves the others' variables alone, so that `ConsoleTypes` and
  `ConsoleCorrect` carry every page's theorem over to
  `ConsoleSpec`, the specification that `Console_pages` checks.

Type correctness is proved for every component, and every safety property of a passing run
is stated by a theorem.

Checked by TLC only: the liveness properties `LaunchReturns`, `NothingLingers`,
`IdleReaped`, `TunnelEnds` and `NeverStarves`, because fairness and enabledness are out
of the prover's reach; and the properties that `RbiSession_late` and `SslBump_direct`
refute.  The pages' theorems say nothing beyond the histories that the properties except
(`crossed`, `clash`, `overlap` and so on): there the code breaks them.

## Not modelled

- DNS server, scheduler and list refresh (`application/dns/`): the maps are replaced
  without the lock that guards their readers (`filter/domains.go:16`), and
  `StopDNSServer` forgets its server (`server/server.go:91`).
- Content filters and the client hello parser: their answers are free choices of
  `ProxyRequest` and `SslBump`.
- The relay's bridge page and its broadcast to subscribers, of whom there are none; the
  viewer's microphone, clipboard and title scripts.
- The container's entrypoint and the Qt prototype.
- `MapStore.Update`'s error path, which keeps its lock (`storage.go:108`): it needs a
  store whose contents are not JSON, which nothing writes.
- A body whose reading fails is served as complete (`proxy.go:604`): `ProxyRequest` has
  no partial bodies below the scan limit.
- The console's rules page, a prototype whose save only logs ("Replace with actual save
  logic", `rulelist.svelte`), its notifications, menus and static pages.
- Logger, heartbeat, updater, service wrapper and scripts: remote calls and one-shot
  steps without state of their own.

## Plan

1. The settings store as an abstract register, and `UserAdmin`'s two stores shown to
   implement it unless `overlap`.
2. An abstract viewer, for whom a host has a container or none, implemented by
   `RbiSession` under the assumptions of `TabsKept`.
3. DNS refresh against queries; the entrypoint's boot sequence.
4. Filters as functions with their reference definitions; the client hello parser over
   bounded lengths; the Qt connection state machine.

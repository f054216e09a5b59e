# SPTime in TLA+

Specifications, model checks and proofs of SPTime, the time server in `src/` (a Go
back end with NTP, NTS and PTP services disciplined by a GPSDO, a web API and a
React front end). Each module is translated from the source; `PROJECT.json`
maps every definition to the lines it models and lists the runs, the hazards
and the theorems.

Check a module with `tlc -config X.cfg M`, its proofs with `tlapm M.tla`.

## 1. The system

One process (`cmd/server/main.go`) builds the components below, starts each in
its goroutines, and on a signal or a service's error cancels their context and
stops them in reverse order. Components call each other directly; what they
share is behind mutexes, each component its own. There is no transaction across
components: whoever reads two of them reads two moments.

| Component | State | Operations | Talks to |
|---|---|---|---|
| clock manager `internal/clock` | synchronisation state, references, window of offset samples, filtered offset, holdover start | `SetPrimaryReference`, `AddSecondaryReference`, `tick` once a second, getters | asks references for lock, priority, offset; read by NTP (leap indicator), PTP, web API |
| NTP peer `internal/ntp/peer.go` | reachability register, clock filter, stratum, counters, socket | `Run`, `burst`, `poll`, `Stop`; is a time reference | upstream server over UDP; `UpdateFromPeers` of the server after each good poll |
| NTP server `internal/ntp/server.go` | stratum, root delay, peers, socket | `serve`, `handleRequest`, `UpdateFromPeers`, `Stop` | clients over UDP; peers' statuses; clock state |
| log buffer `internal/logging` | ring of the last 1000 entries | hook `Fire`, `Add`, `GetRecent` | every component logs; web API reads |
| web API `internal/webapi` | configuration in memory and on disk, status clients, log streams | REST handlers, two WebSocket endpoints, broadcast loop, `Stop` | everything, read-only; `internal/config`, `internal/auth` |
| configuration `internal/config` | the configuration and its mutex | `Load`, `Validate`, `Reload`, `ToYAML` | file, environment |
| GPSDO `internal/gpsdo` | lock, fix mode, offset, connection | NMEA and PPS readers; gpsd client with reconnection; simulator | receiver or gpsd; is the primary time reference |
| NTS `internal/nts` | sessions, cookie key | key exchange, cookies, clean-up | TLS clients |
| PTP `internal/ptp` | port state, one sequence number, counters | Announce and Sync loops, delay responders | multicast network |
| metrics, auth | gauges; user table | setters; token checks | called by all; web API |
| front end `src/frontend` | store of the last status, WebSocket with reconnection | pages | web API |

### What is hard about it

* References change while the clock manager reads them: a tick makes up to three
  calls per secondary reference and one for the offset, each under the
  reference's own lock.
* The synchronisation state, the holdover timer and the sample window are
  changed in different functions; they agree only by the order of the calls.
* UDP: answers are lost, late, duplicated, reordered; polls time out after 2 s
  and the socket keeps what comes later.
* `serve` reads all packets into one buffer which the handlers parse while the
  next packet is read into it.
* `UpdateFromPeers` is called by every peer's goroutine and reads every other
  peer while they poll.
* Rings and registers of fixed size (8 samples, 8 bits, 1000 entries) behave
  differently only after they are full.
* Configuration is edited in memory, then saved, by concurrent requests; a
  failed or interrupted save is possible at every step. The list of peers is a
  slice that handlers grow, write and shorten without a mutex.
* Shutdown closes sockets under the goroutines that use them.

What makes each component correct:

* clock manager: the state it claims is justified by what it measured and when;
  its readers see only the transitions of the contract (`ClockContract`); good
  references lead to LOCKED, no references to FAULT.
* NTP peer: the register and the filter are the record of the last polls; a
  sample's error is bounded; polling stops after cancellation.
* NTP server: replies belong to their requests; stratum and root delay follow
  the best reachable peer; every request is accounted for; no lock is kept.
* log buffer and streams: the latest entries in order, and they keep coming.
* configuration: what is on disk is always a whole configuration, in range, and
  holds what a client was told is saved.
* status hub: the map is not changed while it is gone through; clients that are
  gone are forgotten; shutdown ends.
* GPSDO: locked implies a fix reported over the connection there is; pulses are
  measured against the right second.
* NTS: the metrics add up, whatever fails; sessions are forgotten in time.
* PTP: a slave ends up right within the delays, though Sync, Follow_Up and
  Announce share numbers and travel apart.

## 2. Modules

| Module | Role |
|---|---|
| `ClockContract` | abstract: the states a reader of the clock sees and the source it follows |
| `ClockManager` | `manager.go`; instantiates the contract (`Contract!Spec`) |
| `MCClockManager` | instances for TLC |
| `ClockManagerProofs` | theorems about `ClockManager` |
| `NTPPeer`, `MCNTPPeer` | `peer.go` and the network it polls |
| `NTPPeerProofs` | theorems about `NTPPeer` |
| `NTPServer`, `MCNTPServer` | `server.go` with its peers |
| `NTPServerProofs` | theorems about `NTPServer` |
| `RecentLog` | abstract: the latest entries |
| `LogBuffer` | the ring of `logging.go` |
| `LogStream`, `MCLogStream` | the ring composed with the log streams of the web API |
| `LogBufferProofs` | theorems about `LogBuffer`, and that it implements `RecentLog` |
| `ConfigFields` | `config.go`: fields, defaults, expansion, validation, and what the handlers check |
| `ConfigStore`, `MCConfigStore` | the configuration in memory and on disk under concurrent requests and crashes |
| `PeerList` | the list of peers in memory, word by word, under the handlers that change it |
| `MCWebLists` | instances of `LogStream` and `PeerList`, the two lists that the web API shares |
| `ConfigStoreProofs` | theorems about `ConfigStore` and `PeerList` |
| `GPSDONetwork` | the gpsd client of `network.go` |
| `GPSDOSerial` | the NMEA and PPS receiver of `serialpps.go` |
| `Receiver`, `MCReceiver` | the two and the simulator behind `gpsdo.New`, with main's cancellation and `Stop` |
| `ReceiverProofs` | theorems about the receivers |
| `StatusHub`, `MCStatusHub` | status clients, broadcast, and main's shutdown |
| `StatusHubProofs` | theorems about `StatusHub` |
| `NTSSessions` | the key exchange of `nts/server.go` |
| `PTPGrandmaster` | `grandmaster.go` with a slave and the network |
| `OptionalServices`, `MCOptionalServices` | the two with main's cancellation and `Stop` |
| `OptionalServicesProofs` | theorems about the two services |

Operators named after a mistake (`SamplesKept`, `UnwrappedSlot`, `StaleBuffer`
and so on) stand directly before the definition they mutate. No specification
uses them: substituted for that definition, each makes TLC find the property it
is listed with violated, which shows that the property depends on the code.

### ClockManager

The variables are the fields of `Manager` and the locals of `selectBestReference`;
`pc` says where `tick` is. Each call to a reference is a step: `BeginTick`
(`primaryRef.IsLocked`), then for each secondary `AskLock` (`IsLocked`), `Compare`
(`Priority`) and `Record` (the second `Priority`), and `Discipline` (`GetOffset`
and everything the tick does with it: `handleReferenceLost/Found`, `updateClock`,
`medianOffset`, `updateState`). `RefChanges` may come between any two of them; the
two configuration calls only between ticks, since they take the mutex. A bound
that is not in the code: `AddSecondaryReference` is called once for each
reference. A reference that is locked has an offset; one that lost its lock may
report its last one (an NTP peer) or an error (a GPSDO). `holdover` counts the age
of `holdoverStart`. Drift, standard deviation and `lastSync` are only reported and
left out. The bubble sort is modelled by what it yields, the sample of a rank
(`RankedAt`).

History variables: `sinceFault` (readings since the last recovery from FAULT)
and `undisturbed` (no reference changed since this tick began).

### NTPPeer

One peer, its socket and the network. `unanswered` are requests whose answers
may still arrive (a lost packet is one that never does), `queue` what the socket
holds. An answer remembers the request it belongs to, which the code does not
look at: `ReadAnswer` takes the head of the queue. `t1` is `txTime`. Times are
ticks of the true time, the peer's clock is off by `Theta`. The five ways to
fail are `WriteFails`, the three disjuncts of `ReadFails`, and an unusable
answer in `ReadAnswer` (stratum 0 or above 15; a truncated packet does the same).
Time does not pass a read deadline while a read is pending. A peer whose dial
fails never polls: it begins stopped (`Init`).

### NTPServer

`status[p]` is what `GetStatus` of peer p returns; `PollSucceeds` and
`BecomesUnreachable` are the visible effects of the polls `NTPPeer` models in
detail. The scan of `UpdateFromPeers` takes one step per peer while `writer`
holds `s.mu`. A packet in the buffer is its mode byte and, for the transmit
timestamp, the set of packets its bytes come from: a packet below 48 bytes
overwrites the first bytes and perhaps a part of the timestamp. A handler parses
in two steps (`ParseMode`, `ParseOrigin`) while packets keep coming; the eight
bytes of the timestamp are aligned and loaded at once. `Packets` says which
packets come, so that a run can have client requests only. Start, Stop and the two
setters nothing calls (`SetStratum`, `SetRefID`) are left out.

### LogBuffer and LogStream

`LogBuffer` is the ring alone, so that it can be proved about; entries are
numbered as they are logged. `LogStream` adds the WebSocket handlers, each with
its own ticker and `lastSent`; `Tick` is one firing with news, a firing without
news changes nothing.

### ConfigFields, ConfigStore and PeerList

`ConfigFields` is pure: the fields that have a rule or a default, what each
section handler writes, in its order, and refuses, and what `Load` makes of a
file. A value is told apart as far as these rules go.

In `ConfigStore` every client has a request, whose handler is at `pc[c]`. A
handler writes one field per step (`WriteField`), without a mutex; a refused
value ends the request and leaves what was written (`RefuseField`). A request on
the list of peers fails before its first store (`PeersFail`) or makes one or more
(`StorePeers`), each a write of the one field `ntp.upstream_peers`, of which
`ConfigStore` keeps the number of its last write. What the list comes to is the
matter of `PeerList`.

`saveConfig` is a chain of steps under `Server.mu`
(`Lock` to `Rename`), any of which may fail (`SaveFails`). A write during
`ToYAML` may be in the data or not (`Wrote`). `Reload` reads in one step and
assigns in another. `Crash` may come anywhere; `PowerLoss` also brings back any
file replaced since the last one, because the directory is not synced, and tears
a file whose data was not.

`PeerList` has the slice itself: `list` is its three words (which of `arrays`,
length, capacity). The handlers have no mutex, so a request loads the words one
by one (`Load`), works on the copy (`AppendInPlace`, `AppendGrown`, `Update`,
`Shift`), and stores what changed, words and element, in any order (`StoreWord`,
`StorePeer`). Two additions at once may lose one of them, and words of two slices
may come together. A slice that leads behind its array shows `Unknown` there, and
a peer stored there is lost; that such an access may also hit other memory or end
the process is not modelled. An element is loaded and stored as a whole, and a
deletion moves its elements in one step. `Reload` comes with an array of its own.
Saving is left out, which is `ConfigStore`'s. History: `inOrder` says that no two
requests have met at the list since it was loaded, `promised` what it should be.

History of `ConfigStore`: `ver` and `written` number the writes of each field,
`mine` and `acked` those of a request and those confirmed, `undone` those that a
reload or a power loss threw away, `apart` the fields in which memory and file may
differ: a request wrote them and then was refused or could not save, or a reload
crossed a save of them (`Crossed`). A save that catches up takes a field out of
`apart`.

### GPSDONetwork, GPSDOSerial and Receiver

`GPSDONetwork` has the loop of `Start` as a program counter from dial to loss;
gpsd may send, hang up or stay silent. What `LockIsOfThisConnection` looks at is
the last message with a time, as the code does: a lock outlives messages without
one, and silence. `conn` is `n.conn`, `dialled` the local connection: `Stop`, or
a failed write, makes them differ. A TPV message is its fix and whether it has a
time.

`GPSDOSerial` has the four sentences that change state, and the pulse: `edge` is
the modification time of the device file, `StatPPS` looks at it, `CheckPPS` at
the clock. `Theta` is where in a second of the system clock the pulse comes, the
figure `ppsOffset` should be. The reader's delay is bounded by `PollDelay`.

`Receiver` makes one of the three and runs it. Its goroutines may go on after
cancellation for longer than the code's, which only adds behaviours.

### StatusHub

A handler's steps are those around `clientsMu`; the write lock is never kept
across a step, the read lock is held from `BeginRound` to `EndRound` (`lock`).
`Write` blocks while the client is `stuck`. `Start` and `Stop` of the web API
and the select of `main.go` are there because Stop needs the same lock. The Stop
calls of the other services, which come after it, do not block and are left out.
A client that reconnects is another connection.

### NTSSessions, PTPGrandmaster and OptionalServices

`NTSSessions` has the places where an exchange may fail, the map of sessions and
the metrics. What a handler answers depends on the AEAD records as in the code
(`AnswerTo`). Keys and cookies are left out: nothing decrypts a cookie. `Start`
opens the listener and then sets `running`, and Stop may come in between, which
leaves the flag set. History: `madeAt`, when the session of an exchange was made.

`PTPGrandmaster` has the two loops over one counter modulo `Modulus`, the two
steps of a Sync and its Follow_Up, and the answer to a Delay_Req; the slave and
the network are external. The domain of a Delay_Req is not looked at: the one
slave is in the grandmaster's. An interval is 2^log seconds in a signed number of
limited width (`Wrapped`, `MaxDuration`), so that a large logarithm gives the
least interval. Here, too, `Start` may set the state after Stop. Messages are
lost, or arrive in any order within `MaxDelay`; the grandmaster takes at most
`MaxLag` for a Sync. The slave forgets a Sync or a Follow_Up after the time it may
be waiting for the other one, as the standard's slaves do; a number must not come
round within that time.

`OptionalServices` enables one of the two: they share nothing.

## 3. Runs

| Run | Instance | Shows |
|---|---|---|
| `clock_safety` | 2 references, window 4, offsets -5, 0, 3 around thresholds 2 and 4, priorities 1 and 10, symmetric references; 2.1 million states | `HoldoverConsistent`, `TrustedOffsetBounded`, `FreshLock`, `OffsetIsMedian`, `SelectsPreferred` |
| `clock_liveness` | the same with offsets -5, 0, one priority, no symmetry | `ImplementsContract`, `StaysLocked`, `LossEndsInFault` |
| `ntp_peer` | burst of 2 and one more poll, filter and register of 2, one duplicate, 4 ticks; 505 thousand states | `ReachIsHistory`, `RingHoldsLatest`, `PollsAccounted`, `ErrorWithinLag`, `LagNeedsFailure`, `StopsAfterCancel` |
| `ntp_late_answer` | the same without duplicates | violates `HalfDelayBound` (below) |
| `ntp_server` | 2 peers, strata 1 and 2, 2 delays, 2 packets of any mode, whole or short; 580 thousand states | `OriginNotOlder`, `RequestsAccounted`, `FollowsBestPeer`, `StratumIsEarned`, `UpdateCompletes` |
| `ntp_shared_buffer` | the same with one delay, and whole client requests only | violates `OriginEchoed` |
| `web_lists` | ring of 3, 7 entries, 2 streams that look at 2; or 3 requests, each an addition, an update of the second peer, a deletion of the first or the second, or a reload, with files of 2 peers and of none, symmetric requests; 2.8 million states | `RecentIsLatest`, `ImplementsRecentLog`, `PeersInOrder` |
| `log_stream_stall` | 4 entries, one stream | violates `StreamKeepsUp` |
| `config_store` | 2 clients, 2 requests out of 8, 1 crash or power loss; 42 thousand states | `FileWhole`, `AckedIsSaved`, `QuietAgrees`, `SavedInRange`, `RequestsEnd` |
| `receivers` | 2 connections, 2 messages on their way, 3 satellites for a table of 2, 2 seconds and a half of 6 units; 279 thousand states | `LockIsOfThisConnection`, `PulseMeasured`, `LossIsNoticed` |
| `status_hub` | 2 clients, 1 other service; 19 thousand states | `MapIsStable`, `GoneAreForgotten`, `ShutdownEnds` |
| `optional_services` | 2 exchanges over 8 units with a sweep every 2; PTP numbers modulo 4, delays and lag of 1, logarithms -1, 1 and 3 of the Sync interval, the last beyond its range; 4 million states | `ExchangesAccounted`, `SessionsExpire`, `OffsetWithinDelay` |

The runs `ntp_peer`, `ntp_server`, `receivers` and `optional_services` check the
type invariant of their module as well; those of `ClockManager`, `StatusHub`,
`ConfigStore` and `PeerList` are only proved. `web_lists` moves one of its two
lists in each behaviour, since they have nothing in common.

`QuietAgrees` says that memory and file agree once all requests are over, but
for `apart`: nothing else sets them apart. `SavedInRange` supposes that the first
file is in range in all sections, those that are not enabled included
(`InRangeThroughout`). `Load` does not look at the others, so that enabling one
makes a file of values that were out of range all along.

Why the bounds are enough to see the interesting cases. The window of four lets
half a window (2) and a full one differ, the offsets include one below the lock
threshold, one between it and the fault threshold and one beyond it with the other
sign, so that medians fall in every range and even windows average two of them.
Two references give every switch, loss and return; the holdover runs past its
timeout. In `ntp_peer` the three polls overrun the register and the filter of two,
and the second may get the first one's answer. In `ntp_server` the second packet
overwrites the buffer under the first one's handler, and either peer may change
during the other's scan. The log wraps twice.

In `config_store` two requests are enough for every race between two handlers.
They are not enough to see that a reload which crosses a save keeps memory and
file apart for good, which takes more requests: the proof of `QuietAgrees` found
that, and `apart` with it. The eight requests are one of each kind, those of the
sections with two that are refused after a write and two that are valid one by one
only. In `web_lists` three requests are what it takes for a deletion to leave room
in an array, an addition to use it and another to outgrow it, one after another or
in a race, and a reload to make good what a race has done. In `receivers` the
second connection follows the loss of the first, the table of satellites
overflows, and every phase of the pulse reader against the second occurs; the
offset wraps from above half a second to below. In `status_hub` one client may be
stuck while the other leaves. In `optional_services` sessions outlive two sweeps,
and more than `Modulus` numbers are used within 8 units.

The clock and the server runs check deadlock too: both always have a step. The
others may stop, since a run of bounded polls or entries ends.

### Fairness

* `ClockManager`: weak fairness of `Tick` (the ticker fires every second and a
  tick does not block) and of `Elapse` (time passes). Nothing is assumed of the
  references; `StaysLocked` and `LossEndsInFault` state what they assume of them.
* `NTPPeer`: time passes; a pending read returns by its deadline; strong
  fairness of `Return`, since Go's `select` chooses at random among ready cases
  and so does not take the ticker for ever once the context is cancelled.
* `NTPServer`: the goroutine in `UpdateFromPeers` runs on, and the RWMutex does
  not starve a waiting writer (strong fairness of `BeginUpdate`). Handlers and
  clients owe nothing.
* `LogStream`: each stream's ticker fires.
* `ConfigStore`: a handler runs on, and `Server.mu` starves no waiter (strong
  fairness of `Lock`; Go's mutexes hand over to one that has waited a
  millisecond).
* `Receiver`: the client's loop goes on. gpsd owes nothing.
* `StatusHub`: goroutines run on and the RWMutex starves nobody. Clients owe
  nothing: the properties say under which assumption on them they hold
  (`NobodyStaysStuck`), since the broadcast has no deadline.

### Findings

1. `poll` does not match answers with requests (`peer.go:161`): after one poll
   that timed out, its late answer is taken for the next one's, and the measured
   offset is wrong by more than half of the measured delay. What does hold is
   `ErrorWithinLag`, and `LagNeedsFailure`: only after a failed poll or a
   duplicated packet.
2. All handlers share `serve`'s buffer (`server.go:191`): when a second client
   request is read before the handler of the first has parsed the buffer, the
   reply to the first carries the transmit timestamp of the second. What does hold
   is `OriginNotOlder`: never that of an earlier packet.
3. A log stream sends when the number of recent entries changes
   (`webapi/server.go:1042`): from the fiftieth entry on it sends nothing.

What else was met on the way. Each is behaviour the models have, or leave out
where noted, and no property contradicts; no document promises otherwise.

* Configuration. A reload that has read the file before another request's save
  takes that acknowledged change out of memory again, and the next save out of the
  file. A refused request keeps the fields it wrote first, and a later save writes
  them. NTS, PTP or a receiver can be enabled without the fields they need: the
  file is saved and then does not load (`Valid` is checked at load only). Requests
  on the list of peers that meet may hit the wrong peer, lose an added one, bring
  a deleted one back, leave a slice whose words do not belong together, or panic.
  `AckedIsSaved` does not see this: it counts writes of a field, and whatever
  comes after is a later one. What does hold is `PeersInOrder`: requests that do
  not meet lose nothing. The directory is not synced, so a power loss may undo a
  save. A value of zero is replaced by the default at the next load. `${VAR}` is
  written out by the first save. `expandEnvBraces` never ends when a variable's
  value refers to itself (not modelled).
* Receivers. A TPV message without a time leaves the lock as it is; a silent gpsd
  is never timed out; a line above 4096 bytes drops the connection; `Stop` during
  a dial leaves the new connection open. The serial receiver counts a pulse at its
  first look, reports an offset of 0 before the first pulse, measures at the time
  of the look rather than of the pulse, never forgets a satellite, and every GSV
  sentence clears the marks of GSA.
* Status hub. One stuck client blocks broadcast, registration, removal and `Stop`
  for as long as it is stuck, whatever Stop's timeout of five seconds. A client
  that registers after Stop's loop stays open until the process exits. A signal or
  an error before `Start` has run ends in a nil dereference (`"panicked"`). The
  status of the process is 0 after a service's error. In the front end,
  `disconnect()` closes the socket, whose `onclose` reconnects.
* NTS. With two AEAD records, the supported one first, the answer names the other.
  An error counts as a success. A session stays when its cookies or its answer
  fail, and `LastUsed` is never refreshed. `DecryptCookie`, which nothing calls,
  cuts 32 characters of an identifier that has 64.
* PTP. A negative logarithm of an interval, and one so large that the shifted
  duration overflows, gives the least interval, whatever it is (`Interval`), while
  messages advertise the configured one. Announce always claims the configured
  class and GPS, in holdover too (left out).
* `main.go` never calls `AddSecondaryReference`, although it promises to "fall
  back to NTP only" (`main.go:63`): without a GPSDO the clock stays INIT.
  `SetClockState` compares the states "INIT", ... with lower-case labels
  (`metrics.go:372`), so that the state gauge is never 1.

## 4. Proofs

Every safety invariant of the passing runs is a theorem, and so is the safety
half of both refinements. They hold for arbitrary constants under the named
assumptions of the modules, which are of four kinds:

* Types: offsets and priorities are integers, a ring has a place, requests are
  ones that decode, a power of two is a positive integer.
* What the code checks or fixes itself: ordered thresholds, a window of at least
  two (`ClockManager`), a first file that loads (`FirstFileAssumption`), strata
  from 1 to 15, since `poll` rejects others (`StrataAssumption` of `NTPServer`).
* Timing that the constants of the code give with room to spare. The pulse
  reader looks ten times a second, so two looks fit in one second
  (`LookAssumption`). 65536 message numbers, taken at most sixteen times a second
  by two loops, outlast whatever is still under way (`NumbersAssumption`: 68
  minutes of it).
* `PowerAssumption` of `NTPPeer`: 2^(j+k) = 2^j * 2^k up to the width of the
  register. This is arithmetic, but of a variable exponent, which the provers do
  not know; TLC evaluates it.

### ClockManager

`TypeCorrect` (`Spec => []TypeOK`) needs that the sliding window never outgrows
its size (`WindowProperties`) and that medians are integers (`MediansType`).

The four invariants about the discipline are proved together, as the inductive
`DisciplineInv`. `FreshLock` alone is not inductive: the lock decision counts
the samples in the window, not the readings since the last fault, so
`SamplesCounted` (both are the same number) is added; no sample survives a
recovery, and none is lost but by the slide of a full window.
`TrustedOffsetBounded` needs that a tick that loses the reference leaves the
offset alone; `HoldoverConsistent` is inductive as it stands. Only `Discipline`
and `Elapse` touch these variables: `TickPreservesDiscipline` has one step per
invariant.

`SelectionIsPreferred` is the proof of the loop of `selectBestReference` for
any number of secondaries. Its invariant `ScanSoFar` says what `best` is at
every point of the loop body: the preferred one of the candidates seen so far
(`BestOfSeen`), or, between the two calls of `Priority`, one that beats them all
(`CurrentBeatsSeen`). It has one lemma per step of the loop.

`RefinesContract` is the safety half of `ImplementsContract`: every step of the
manager is a step of the contract or a stutter.

### LogBuffer

`RecentIsAlwaysLatest` proves the ring for every size: the slot j places behind
the head holds the j-th latest entry (`RingInv`), with the remainder of the code
eliminated first (`Wrap`, `BehindIsRemainder`). `RefinesRecentLog` proves
`ImplementsRecentLog`: by `RingContents` what `RecentEntries` returns is the
sequence of the last numbers, and such a sequence, with the next number added, is
what one step of `RecentLog` makes of it (`OneMore`).

### NTPPeer

Most theorems about a peer rest on two invariants. `Causal` (in `LoopInv`)
says that whatever is under way was sent no later than the request now waited
for, and that an answer's times are in order; `StepLoop` proves it, with
`QueueKept` for all actions that read or drop answers and `ArriveLoop` for the
one that adds them. `FilterTypeOK` types the filter. On these,
`ErrorIsWithinLag` is arithmetic on one answer (`SampleError`), given that Go's
halving loses at most one unit (`HalveProperties`); `PollsAreAccounted` goes
action by action; and `RingAlwaysHoldsLatest` is proved as for the log, on
`RingInv` with the remainder eliminated. `Theta` is any integer: the bound does
not depend on how wrong the peer's clock is.

`LagAlwaysNeedsFailure` adds the invariant `Punctual`: while nothing failed and
nothing was duplicated, at most one request is without its answer, and it is the
one waited for. The property alone does not say what is in the socket or on its
way. With `ErrorWithinLag` this gives `SoundUntilFailure`: until a poll fails or
a packet is duplicated, every sample is right within half its delay. That is the
property which `ntp_late_answer` shows to fail after a timeout.
`ReachIsAlwaysHistory` reads the register as the sum of the powers of the polls
that succeeded; one shift drops the oldest and doubles the others.
`PeerTypeCorrect` puts the types of all parts together (`RestTypeOK`).

### NTPServer

The peers' half and the handlers' half share only the stratum and the root
delay, and each has its invariant. `UpstreamInv` has four parts besides the
properties: the types; `Locking` (a goroutine that scans is the one that holds
the lock, and whoever wants it has just been answered, so that some peer is
reachable); `Reported` (the best stratum so far is one that a peer has reported);
and `ScanSoFar` (in a scan that no change has disturbed, `best` is the best of
the peers before the cursor, the first of equals). `FollowsBestPeer` is
`ScanSoFar` at the end of the scan.

`ServiceInv` makes `OriginNotOlder` inductive: each handler has a packet of its
own, and what is in the shared buffer is no older than any packet whose handler
has still to read it. `RequestsAccounted` needs the same, because the handlers at
work are counted as a set.

### ConfigStore and PeerList

`FileIsWhole` is the proof that no crash tears the file, for any number of
clients and requests. Its invariant (`FileInv`) says that whoever is about to
rename has a synced temporary file, and that the file and all older ones a power
loss may bring back were synced: the property alone does not know where the next
file comes from.

`AcknowledgedIsSaved` has four layers. `ControlInv` says who is where:
at most one handler saves, and one that works has a request.
`Snapshots` says that a handler past `ToYAML` has serialised a configuration.
`NumberInv` orders the writes: no number in memory, file, data or history is
above the number of writes so far. `SavedInv` is the property carried through
the save: what a request wrote, or a later write of the field, is in memory; past
`ToYAML` also in its data; before its answer also in the file, and in the data of
whoever saves next; or it is in `undone`. Each is preserved given the ones
before it.

`QuietStoreAgrees` says of each field that it is in `apart`, or that some request
has written it and its save will take what memory has (`Pending`), or that memory
and file, and whatever is being saved, have the same (`Same`). The first version
of the property knew only of failed requests. TLC found it true for two of them,
and the proof did not go through for a reload that reads the file before another
request's save and assigns after it. With more requests that is a counterexample;
the history variable says so now.

`SavedStaysInRange` goes by what a handler refuses: `AcceptedInRange` shows for
every field of every section that what is written is in range in any state of
the others, and `SoundLoaded` that loading keeps it so. `SoundInv` says this of
memory, the file, all older ones and all data under way.

`PeersStayInOrder` is about every request that runs without meeting another.
`OrderInv` says, while none have met: at most one request is at the list
(`Alone`); the words it has loaded, or those it has stored, are the list's
(`Agree`); and before its element is stored the slice is within its array and
shows what is promised but for that element (`Waits`), afterwards all of it
(`Shows`). The property itself only speaks of moments when nobody is at the list.
A race is not excluded: it ends `inOrder`, and only a reload that meets nobody
begins anew.

`ListTypeCorrect` is what is left in a race: arrays are added and written into but
never dropped or resized (`TypeMoves`, `TypeAdds`, `PeerWrites`), so that the word
for the array always names one, in whatever order words are loaded and stored.
The length and the capacity promise nothing then.

### Receivers

`LockIsAlwaysOfThisConnection` needs to know where the client is when it is
locked (`LockInv`): while it makes a connection it is not, and the only loop left
with a lock is that of a cancelled reader, which makes no connection any more.

`PulseIsMeasured` rests on `PulseInv`. `LooksInTime` bounds when the next look
ends: a pulse that was not counted yet is counted within two looks, and within
one if the modification time was read before it. `PulseOnSecond` says that the
latest pulse is less than a second old and lies on the receiver's second. With
two looks in a second, none is missed and none counted twice (`CountedOnce`), and
what is measured is late by at most two looks (`MeasuredLate`), in whichever
second that falls. The remainder is eliminated first, as for the rings.

`ReceiverTypeCorrect` shows that the table of satellites has one entry for each
and never outgrows its bound (`SatelliteAdded`).

### StatusHub

`MapStaysStable` rests on the type invariant of the hub, proved with it
(`HubTypeCorrect`): the read lock is held exactly during a round, and every
action that changes the map needs it free.

### OptionalServices

`ExchangesAreAccounted` and `SessionsAlwaysExpire` rest on `NTSInv`. The requests
are the exchanges that have begun, and the successes, failures and exchanges in
progress; the gauge is the size of the map. `StoredInv` adds that a session in
the map is as old as its exchange, so that a sweep takes only those that have
outlived their time: any other exchange that was answered without an error has its
session still. The age of a session is bounded by `MaxAge` and the time since
the last sweep, or a whole interval when one is due: the property alone is not
preserved by time, since it does not know when the next sweep comes.

`OffsetStaysWithinDelay` has to show that no number is taken for another Sync's,
although Announce uses numbers from the same counter, messages overtake each
other, and the counter wraps. `PTPInv` has these parts: what is sent about a Sync
is in time (`InTime`); a number that is still alive somewhere names one Sync
(`NumberOfOne`), because the numbers taken since, counted around the wrap
(`Distance`), are no more than the timers fired since (`TakenSince`), and that is
less than `Modulus`; the same of the slave's own requests (`RequestOfOne`); and
hence both ways measure between nothing and `MaxLag + MaxDelay` (`WaysInRange`).
The bound on the offset is then arithmetic.

### Model-checked only

The liveness properties (`StaysLocked`, `LossEndsInFault`, `StopsAfterCancel`,
`UpdateCompletes`, `RequestsEnd`, `LossIsNoticed`, `GoneAreForgotten`,
`ShutdownEnds`) and the liveness half of `ImplementsContract`: fairness and
ENABLED are beyond the prover. The three violations are TLC's too: each is one
behaviour.

## 5. What is left

* `Receiver` as the reference of `ClockManager`, in place of the references that
  change at will.
* An abstract store (the latest acknowledged value of each field) and an abstract
  hub, and that `ConfigStore` and `StatusHub` implement them.
* Two hazards have no property. When a tick changes from HOLDOVER to SYNCING, or
  changes references, the window keeps the samples of before
  (`clock/manager.go:379`): the model has it, and `FreshLock` counts readings of
  any reference on purpose. `expandEnvBraces` (`config.go:403`) may run for ever
  on a value that refers to itself; the text of values is not modelled.

### Not modelled

* `internal/auth`: stateless token checks by library calls.
* `internal/metrics`: figures no program logic reads; the counters that matter
  are modelled where they are incremented.
* The front end: pages, and a WebSocket that reconnects, in a single thread.
* The read-only handlers of the web API, `handleRestartService`, which only
  answers, and the drift, jitter, position and satellite figures that are only
  reported.
* TLS, AEAD, cookies, packet and message layouts, YAML and NMEA syntax: what
  they do to the state is modelled, not how they are written.
* The text of environment variables, and with it `expandEnvBraces` running for
  ever.
* Deployment files.

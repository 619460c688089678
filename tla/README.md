# Verification of the Busware EUL gateway firmware

This directory holds TLA+ models of the firmware in `src/main` (an ESP32 gateway between an
EnOcean radio module, the TCM515, and TCP, USB and HTTP clients) and of the part of its web
portal (`src/web`) that keeps state. TLC checks the models on small instances. TLAPS proves, for
every size, the core of the TCP server and its rate limiter, the commands to the TCM515, the ESP3
parser and the streams it reads, the telegram ring and the text logs with the page that polls them,
the configuration in NVS, the WiFi station with its fall-back, the uploads of documents and
firmware, and saving in the portal page: every invariant that a run checks, and the action
properties.

## The system

All tasks run on one core under FreeRTOS. The higher number wins: UART reader 12, client RX and
TX tasks 10, accept task 9, USB reader 9, httpd 5, the rest 3-4. A task that waits for a mutex, a
queue or a socket lets others run, so every access to shared state is an interleaving point
except in the UART reader, which nothing that shares its state can interrupt.

| Component (source) | State it keeps | Operations | Talks to |
|---|---|---|---|
| TCP server (`tcp_server.c`) | `s_clients[]`: flags, socket, stream buffer per slot; `s_slots_mtx` | accept, spawn, undo, handshake, recv, send, close, broadcast | UART (frames in), UART reader (broadcast out), console and event log |
| rate limiter (`tcp_server.c:62-131`) | `s_rl[]`: window, count, block per address | blocked?, fail, success | accept task, RX tasks |
| TCM515 UART (`enocean_uart.c`) | `s_cmd_mutex`, `s_tx_mutex`, `s_resp_sem`, `s_await_resp` | write frame, command and response, observe | TCM515, clients, portal |
| ESP3 parser (`esp3_parser.c`) | parser state per stream | feed | every byte stream |
| USB bridge (`usb_cdc_gateway.c`) | a flag and a parser | feed, broadcast | UART |
| telegram ring (`telemetry.c`) | ring, head, next number | put, streamed dump | UART reader, senders, `GET /api/telegrams` |
| console, event log (`console_log.c`, `event_log.c`) | rings of numbered lines | add, dump into a buffer | everything, `GET /api/console`, `/api/events` |
| device store (`device_store.c`) | two files on SPIFFS | open, commit, abort, clear, boot sweep | `/api/eo` |
| firmware updates (`http_portal.c:985-1058`) | two partitions, the one to boot | begin, write, verify, choose, restart | boot loader, `/api/ota` |
| configuration (`config_store.c`) | keys in NVS | load with repair, save by group, reset | boot, portal |
| WiFi and modes (`wifi_sta.c`, `mode_mgr.c`) | event bits, back-off, failure count | connect, reconnect, fall back, start services | driver, all services |
| HTTP portal (`http_portal.c`) | none of its own | one handler at a time in the httpd task | all of the above |
| portal page (`main.ts`, `eo/`) | cursors, the device document, a save timer | poll, edit, save, leave | HTTP portal |

What is hard here: tasks that share a slot almost without locks (slot life cycle); answers that
do not name their question (commands); bytes that are lost or added in the middle of a frame
(parser); a dump that lets writers in between its reads (telegram ring); polls that overlap and
get lost (cursors); power failures between two file operations (device store), two keys (NVS) or
two partitions (update); events, a timer and the main task that run the station together (WiFi);
requests that overtake one another and a page that goes away (saving). What makes each part
correct is listed per run below, and `hazards` in `PROJECT.json` names every hazard with its line
and the properties that watch it.

## Modules and their correspondence to the code

`TcpServer` - one action per access of a task to a shared field. `rx_pc`, `tx_pc`, `acc_pc` and
`uart_pc` are the places in `client_rx_task`, `client_tx_task`, `accept_task` with `spawn_client`,
and `tcp_server_broadcast`; `in_use ... tx_running`, `sock` and `tx` are the fields of
`client_slot_t`; `fds` is lwIP's view of a descriptor, which `shutdown` and `close` change; `mtx`
is held over several steps by the accept task and the broadcaster, while the short sections
(`close_slot`) are one step that needs it free. Payload is counted, not told apart.

`SlotPool` - the abstract promise of a slot: free, opening, pending, serving, closing. `TcpServer`
implements it (`PoolSpec`); the refinement mapping `SlotState` reads the state of a slot off
`in_use`, `active`, `authed` and the RX task.

`RateLimit` - the table `s_rl` with `rl_find_or_alloc`, the check in `accept_task` and the records
the RX tasks make at any later time. Each function runs under `s_rl_mtx` and is one step. There
may be more addresses than entries; `OldestEntry` is the entry that is then given up.

`UartCommand` - `enocean_uart_write_frame` by client tasks, `enocean_uart_command` by the portal's
base-ID handlers, `observer_on_frame`, and the TCM515 as an external that handles frames in order,
may not answer and takes any time. A client writes any frame, one that changes the base ID too, as
the gateway looks at no frame it passes on; `held` is what IDs the module has had since the
request. `/api/send` runs in the task of the portal's commands, but is one client more in the model,
which allows more interleavings than the code has.

`Esp3Parser` - the four states of `esp3_parser_feed` (sync, header, header CRC, data and data CRC)
over any bytes; the CRC is a parameter. `Esp3Stream` puts a sender in front of it that sends whole
frames, of which bytes are lost or between which bytes are added, and that may be replaced by
another client (`esp3_parser_init` when a slot is used again). It implements `Esp3Parser` under
any bytes. `MC_Esp3Stream` has the CRC of the code, bit by bit.

`Telemetry` - `ring_put`, `telemetry_dump_json_stream` slot by slot, `h_telegrams`, and
`pollTelegrams` with several polls under way.

`PolledLog` - `console_log.c` and `event_log.c`: the byte arithmetic of the two dump functions
(`Comma`, `Copied`, `ConsoleLine`, `EventLine`) and the pages that poll them.

`DeviceStore` - `devstore_init`, `h_eo_post`, `devstore_commit`, `devstore_abort`, `h_eo_clear`,
one step per file operation, power failures in between. A call may fail wherever it stands; whether
the temporary file could be deleted, nobody asks (`UnlinkTmp`, with the history `stuck`). `Document`
is the abstract store it implements (`KeepsPromise`): replaced as a whole or not at all.

`Ota` - `h_ota` piece by piece with the two partitions, the partition chosen to boot, the restart
500 ms later, and the boot loader (external), which takes the other image if the chosen one is no
image. To choose the image and to answer is one step: nothing else runs in the httpd task in
between, and after a power failure there no answer is owed. `Uploads` composes it with
`DeviceStore`: both are served by the one httpd task, and the restart an update asked for meets
whatever document upload is under way.

`ConfigStore` - NVS as the values that a power failure leaves for certain (`flash`) and the writes
that are readable but not committed (`pend`). `Loaded` and `LoadGroups` are `config_load` with its
repairs, the `Save...` groups are the functions `config_save_*`; `Config`, `Regen`, `Factory`,
`Browse` and `Reboot` are the handlers, each executed call by call through `Write`, `Commit`,
`CallFails` and `Answer`. A start (`mode_mgr_start`) is `StartErases`, where `nvs_flash_init` finds
no free pages or those of a newer version and NVS is erased, in whole or in part if that fails too;
`StartAborts`, where it fails, once or for good, and the start ends in a restart; `BootBlind`, where NVS
opens but cannot be read; else `Boot`. `defect` says which of these NVS is in for; while it cannot
be read, no request gets past `require_auth`. A network is one value that stands for its name and
its password alike, so that a mixed pair shows; a group of settings is one value; the several loads
of one request are one.

`WifiBoot` - `on_event` (in two steps where it handles a lost connection, since the main task can
run in between), the back-off timer, `wifi_sta_wait_connected`, `run_normal` with its fall-back and
`wifi_sta_stop`, one step per call that changes something. The timer may be missing for a whole
run, as nobody looks at whether it could be created (`timed` says that it was). The driver, the
router and the event loop are external: an attempt ends in an event, events are delivered in order.

`PortalStore` - `DocumentStore` (`schedule`, `flush`, `clear`, `flushBeacon`) and the parts of
`EoApp` and the tools view that call it; requests travel in `net` and are served in any order.

`Safety` in each module bundles its types with the named facts beside it (in `TcpServer` that is
the inductive invariant `IInv`); the facts are stated one by one, each with its reason. In
`RateLimit` and `Telemetry` it is called `LimiterSafety` and `RingSafety`, and the specification
`LimiterSpec` and `RingSpec`: their proofs stand beside those of another module.

Operators whose comment starts with "Fault" are deliberate slips of the definition that follows
them. They are not part of any specification; replacing the definition by its fault makes the
property named in `PROJECT.json` (`mutants`) fail, which shows that the property looks at it.

`MC_*` modules and `.cfg` files are the instances for TLC, `*_proofs` modules hold the theorems.

## Runs

| Run | Question | Bounds |
|---|---|---|
| `tcp_slots` | Can any interleaving of the tasks use a freed slot, leak or close a socket twice, let an unauthenticated client in or out, or queue half a chunk? Do the slots refine `SlotPool`? Is `IInv` an invariant? | 2 slots, 3 descriptors (one more than slots, so that connections are refused), a buffer of 2 bytes and chunks of 2: after a partial take a chunk does not fit |
| `tcp_live` | Does a disconnecting client always give its slot back, does the accept loop return to `accept`, and the UART reader from a broadcast? | 1 slot, 2 descriptors |
| `rate_limit` | How many failures of one address go by in a window, and what alone ends a block? | 3 addresses, 2 entries (so that blocked ones are given up), 2 handshakes, 3 failures, window of 2 ticks, 6 ticks: three windows |
| `uart_command` | Whose answer does a command get, is a stated base ID true, can the inner mutex ever be contended, does every call return? | 2 clients that write any frame, 3 frames, 2 IDs |
| `frames` | Is every intact frame delivered that begins while the parser looks for one, and nothing that is not a whole frame? Does the buffer suffice, and is a slot's next client free of the last one's bytes? | buffer of 9 bytes, bodies of up to 2 bytes, each a sync byte or another, every split into data and optional data; the real CRC; 3 lost or added bytes, 1 reconnection |
| `telemetry` | What does an answer hold after puts in mid-dump, and when can the cursor pass a telegram? | ring of 3, 5 telegrams (it wraps and is overrun), 2 overlapping polls, 1 reboot |
| `text_logs` | Can a cursor pass a line, a response be out of order or outgrow its buffer, a long line block the log? | ring of 3, 5 lines of 1 or 12 bytes in 44: one long line fits, a second is cut; both logs; 2 overlapping polls, 1 reboot or page load |
| `uploads` | Half documents, temporary files left although they could be deleted, the refinement of `Document`; does the gateway always have an image to boot, does a confirmed update run, and does a silent client keep the httpd task? | 2 documents and 2 images of 2 pieces, 2 timeouts in a row end an upload, 2 power failures besides the restarts that are asked for |
| `store_atomic` | The claim that a document is replaced atomically, which the code does not keep: see `findings` in `PROJECT.json` | 3 documents of 2 pieces, 2 power failures, no updates |
| `config` | Does what the owner was told survive failing calls, power failures and later requests? Is a pair ever mixed, or the station started with half of one? Does the server ask for the stored token, and does every start end, whatever state NVS is in that can be opened? | 2 networks, 2 values per setting, 1 group before and 1 after the password, 2 secrets, 3 requests, 1 failing call, 1 power failure |
| `wifi_boot` | Is an attempt always pending, is the fall-back justified, is every retry delayed, does the gateway end on the network or in provisioning? | 2 failures of the password fall back, delays of 1, 2 and 3, 2 spurious failures, 1 outage, 1 restart, every kind of stored credentials, with and without a timer |
| `page` | Are edits saved, in order, and never those of a page that failed to load? | 4 versions: one stored, one under way, one as follow-up, one under the timer |

Deadlock is checked wherever the program cannot stop. `rate_limit` and `page` stop at the bounds of
their clock and their versions, `uploads`, `config` and `wifi_boot` when a gateway has nothing to
do and the bounds on failures and requests are used up; these switch it off. The bounds are named
in the modules: `MaxFrames`, `MaxSeq`, `MaxReboots`, `MaxResets`, `MaxCrashes`, `MaxEdits`,
`MaxTime`, `MaxNoise`, `MaxOutages`, `MaxRequests`, `MaxFails` (in `ConfigStore`), `MaxDisturbed`,
`MaxConnects`. Where the section on proofs speaks of a theorem, the property holds without them.

Conditions that the true statements need, and that the code's comments do not mention:

* `QuietReplyIsTrue`: the stated ID is one the module has had since the request, or since it stored
  the one sent. It need not be the one it has now: a frame of a client can change it between the
  write and a read-back that fails (`http_portal.c:677-695`), and later anyway.
* `QuietAnswerIsOwn`, `QuietReplyIsTrue`: no other frame or response was under way when the
  command was armed. Without it, a response still in flight when `s_await_resp` is set is taken for
  the command's answer (`enocean_uart.c:45`), although the comment at 182-186 promises otherwise.
* `QuietNothingLost`: at most one telegram comes during a dump. Two can leave a gap below the last
  entry, which becomes the cursor, although the comment `telemetry.c:245-247` says nothing is lost.
  A page that outlives a reboot keeps a cursor above the new numbers (`stale`); the same holds for
  the two text logs.
* `ResponseSound`: the text of the last console line of a full response is shortened
  (`console_log.c:157`), although the comment at 130-133 promises to leave the line to the next
  poll.
* `GuessesBounded`: the window is tumbling (`tcp_server.c:110`), not sliding as the comment says, so
  the bound is 2 * MaxFails - 2 plus the handshakes in progress, for as long as the address keeps
  its entry. `BlockKept`: a block ends early, against the 60 s of the repository's `README.md:211`,
  when more than `RL_SLOTS` addresses come at a time: the entry of the oldest window is evicted,
  blocked or not (`tcp_server.c:87`). The property says that nothing less ends it.
* `NoTempLeft` (in `Safety` of `DeviceStore`): the temporary file could be deleted. A failed
  `unlink` goes unnoticed (`device_store.c:53, 95, 105, 114, 120`) and leaves it until the next
  upload or start.
* `KeepsPromise`: the document may be lost by a failure between `unlink` and `rename`.
* `UploadsEnd`: the client says nothing. One that trickles resets the counter with every byte
  (`http_portal.c:947`) and keeps the httpd task.
* `InStepDelivered`: the frame begins while the parser looks for one. A header with a wrong CRC is
  dropped with all its bytes (`esp3_parser.c:82`), and with a sync byte among them the frame that
  began there.
* `QuietPairs`: the last save of the pair was not itself cut short; else the new name may stay with
  the old password (`config_store.c:187`), although `config_store.h:66-68` says never half.
* `KeptPromises`: counts what the saving calls accepted; that a portal password could not be saved
  is not reported (`http_portal.c:384`). And it ends with an erasure at a start, when NVS has no
  free pages or a newer version (`mode_mgr.c:322-325`): that takes everything, promised or not.
* `QuietTokenAgrees`: NVS has not failed in this run. A regeneration that fails between write and
  commit leaves a new token readable while the server asks for the old one.
* `StartsThrough`: `nvs_flash_init` does not fail for good. If it does, also after the erasure,
  every start aborts (`mode_mgr.c:323`, `326`). A start that ends need not serve: while NVS cannot
  be read the portal answers 500 to every request (`http_portal.c:104-113`), and the console and
  the SoftAP are what is left; each load makes fresh ones (`config_store.c:160-164`), and the
  beacon on the console can print secrets older than the stored ones (`mode_mgr.c:153`). A driver
  that refuses to start the SoftAP is outside the model: `wifi_ap_start` then aborts, although
  `mode_mgr.c:155` looks at its result.
* `RetryPaced`: the timer could be created. Otherwise (`wifi_sta.c:159` does not look) every retry
  of that run comes straight from the event, without a delay (`wifi_sta.c:53`).
* `FallbackJustified`: counts failures of the password as the code does, in total since the last
  connection, not in a row as the comment `wifi_sta.c:26` says (line 113).
* `AttemptPending`, `Reachable`: the driver answers every attempt; the result of
  `esp_wifi_connect` is not looked at (`wifi_sta.c:45`).
* `NothingForgotten`, `NoRollback`, `EditsSaved`: the page stays in front, no request fails, nobody
  clears the store, no request of an earlier page is still under way, and no second page is open
  (two pages overwrite one another's documents; the model has one). A page left during an upload
  loses the change that waited for it (`model.ts:363`; the comment at 354-358 differs).

## Fairness

Safety runs use `Spec` (`LimiterSpec`, `RingSpec`), without fairness. The liveness properties
assume, each for a reason in the code:

* FreeRTOS runs every ready task (weak fairness of the steps of a task that has begun something);
* `recv` and `send` return when their socket has been shut down; on an open socket nothing is
  assumed of the peer; the handshake ends by its receive timeout (a peer that sends a byte within
  every timeout is outside this assumption);
* a task that waits for `s_slots_mtx` without a limit gets it although others take it in between
  (strong fairness): waiters are queued by priority and the holders do not block in their sections;
* in `UartCommand` every wait has a limit, so its own step is enough (weak fairness);
* in `Uploads` the httpd task runs and its `recv` returns after `recv_wait_timeout`; that a client
  sends anything is not assumed;
* in `ConfigStore` the task that has begun a start or a request goes on, and failures and power
  failures are bounded; that `nvs_flash_init` comes to succeed is not assumed (`defect = "init"`);
* in `WifiBoot` the event loop, the timer task and the main task run, the driver ends every attempt
  with an event, the address comes, and a router that is gone is noticed; `Reachable` holds only for
  behaviours in which the router stays in the end;
* in `PortalStore` timers fire, a request is served or fails, its answer is handled.

Nothing is assumed of clients, users, new telegrams, reboots or page loads.

## Proofs

Every theorem holds for all values of its module's constants that satisfy the named `ASSUME`s; the
bounds of the models are among the constants, so no proof depends on them. Each proof finds an
inductive invariant, shows with one step per action that it is kept, and derives the rest. TLC has
checked the properties it implies, and the invariants in the smaller models.

`TcpServer_proofs` (any number of slots, descriptors, chunk and buffer sizes, with and without
authentication):

* `Invariant`: `Spec => []IInv`. The safety properties are not inductive: that the RX task may free
  a slot depends on `tx_running` being set before the TX task exists, on the mutex being held while
  the accept task undoes a failed start, and on a closing RX task having cleared `active`. `IInv`
  adds these links: `ControlInv` (mutex and program counters, `spawn_client`'s progress), `SlotInv`
  (what a slot owns, by the state of its tasks), `FdInv` (one owner per open descriptor), `AuthInv`
  (the handshake gate at every place of the loop), `UartInv` (what the broadcaster tested stays true
  until it writes). Each part has a lemma with one step per action.
* `TypeCorrect`, `ChunkFitsCorrect`, `NoUseAfterFreeCorrect`, `SocketsOwnedOnceCorrect`,
  `OnlyAuthenticatedCorrect`: consequences of `IInv`.
* `ImplementsPool`: `Spec => PoolSpec`. `OneMoves` says that a step which changes the abstract state
  of one slot moves that slot; `PoolStep` finds for each action the move it makes or shows that it
  stutters.

`TcpServer_proofs`, second part, the rate limiter (any numbers of entries, addresses, handshakes
and ticks, also fewer entries than addresses): `TableInv` (theorem `TableInvariant`) says that no
address has two entries. `IndexFound` says what `rl_find_or_alloc` returns: the entry of the
address if it has one, and that of another address only if every entry is in use and none has an
older window. `BlocksAreKept` follows, as each step but the eviction leaves a block or ends it with
a success. For `GuessesAreBounded`, `BoundInv` says what an entry accounts for (`Accounted`): the
failures since its own window began are in its count, and of those before it fewer than the limit
are recent enough to matter; an address whose count has reached the limit is blocked until its last
failure is a whole window old. An eviction takes the account with the entry.

`UartCommand_proofs` (any number of clients, frames and IDs): a captured response is the command's
own since on a quiet line exactly one trace of it exists - the frame on its way to the module, its
response on the way back, or the captured copy. `QuietInv` says where; `MutexInv` who holds the two
mutexes by the places of the tasks, so that nobody else puts a frame on the line meanwhile;
`RespInv` ties semaphore, flag and captured response; `JobInv` the ID the portal would state to
what the module has had (`held`), whatever frames of clients it handles in between. Theorems
`CommandInvariant`, `CommandSafe`, `AnswerIsOwn`, `ReplyIsTrue`.

`Esp3Stream_proofs` (any buffer size, any CRC, any bytes, any set of well-formed frames):
`ParserInv` relates the state of the parser to the bytes it holds (`Position`) and to the checks
already passed (`Checked`), from which `ParserInBounds` and `ParserWholeFrames` follow. In step with
its sender, the parser holds the part of the frame that was sent (`Prefix`), hence `StreamDelivers`;
and all bytes it holds are of one client (`OwnBytes`), part of `StreamSafe`.
`StreamImplementsParser` shows that a stream is a behaviour of the parser.

`Portal_proofs`, second part, `Telemetry` (any ring size, any numbers of polls, telegrams and
reboots): a dump reads every place of the ring once, starting at the head it took (`ReadPlaces`).
What it has emitted is at no place still to be read, so that nothing is emitted twice though
telegrams overtake the reader (`Emitted`, with `Distinct`: no number is in the ring twice); what it
found at a place already read, of what was in the ring at its start, it has emitted (`Collected`).
With at most one telegram during the dump the answer then has all that the ring holds between the
poll's argument and the answer's last entry (`AnswerComplete`), since that one telegram is either
the last entry or beyond it; and `PageCovered` carries this through polls that overlap, get lost
and overtake one another: of the telegrams up to any number that is or may become the cursor, the
page has, or gets with that answer, all that are still in the ring. Theorems `RingInvariant`,
`RingIsSound`, `DumpsAreComplete` (without the limit of one telegram), `CursorPassesNothing`.

`PolledLog_proofs` (any ring size, lengths of lines, size of a response, numbers of polls, lines and
reboots): the ring holds the last numbers in order (`InOrder`), so that a response that has gone
through `i` places begins with the oldest line that is new to the page and goes on without a gap,
and a line that had to be shortened leaves no room for another (`Sound`; one step of the loop is
`VisitedSound`, the loop is a recursive function to which a least counterexample is applied). The
first line always fits a response that has the room the code gives it (`RoomAssumption`), hence
`CursorGoesOn`. `Coverage` is the counterpart of `PageCovered`; here a dump is one step, since the
code holds the mutex over it. Theorems `LogInvariant`, `ResponsesAreSound`, `NoLineIsSkipped`,
`CursorGoesOn`.

`ConfigStore_proofs` (any networks, values, settings before and after the password, secrets,
requests, failing calls and power failures): a promise is kept because of what is still on its way,
so that the flash alone is not inductive. `KeptInv` says that the pending writes and the writes of
all groups to come agree with what the owner was told (`Safe`); `DueInv` that a value the request
will promise is there, or written and about to be committed (`Written`), or still to be written
(`Coming`), unless the group that writes it has failed, in which case the answer does not promise
it; `PairInv` follows the three writes of a network through the pending list, so that a mixed pair
needs a save that was cut short; `TokenInv` ties the server's copy to what can be read of NVS. A
start that aborts changes nothing of these, and one that erases ends the promises and, in part or
in whole, takes values without mixing any.
Theorems `ConfigInvariant`, `WholePairs`, `PromisesAreKept`, `TokensAgree`.

`WifiBoot_proofs` (any limits, delays, numbers of outages and restarts, runs with and without a
timer): that an attempt is pending depends on what an event still in the queue will do and on
whether its handler has been cut in two (`LinkInv`: at most one of driver, queue, handler and timer
has something to do next); the fall-back on what the counters and bits say of the past (`PastInv`)
and on what the main task has arranged by each of its places (`MainInv`). `RetryIsPaced` is for the
runs with a timer. Theorems `StationInvariant`, `StationSafe`, `AttemptAlwaysPending`,
`FallbackIsJustified`, `RetryIsPaced`.

`Uploads_proofs` (any documents, images, pieces and power failures): `StoreInv` says what each
place of a request has secured - whoever is about to unlink holds a whole temporary file of the
version asked for, and a temporary file outside a request is one that `stuck` knows of - and
`UpdateInv` that what was confirmed lies in the chosen partition. Theorems `UploadsInvariant`,
`UploadsSafe`, `GatewayBoots`, `ConfirmedImageRuns`, and the refinement `StoreImplementsDocument`,
in which only `PostRename` and a power failure just before it use the exception that `Document`
makes.

`Portal_proofs`, first part, `PortalStore` (any number of edits): without trouble at most one
request is on its way, it belongs to the upload the page waits for, and its version lies between
the stored and the shown one (`Order`); a page that could not load has neither timer nor upload
(`Scene`), so that no blind edit gets on its way (`Unblind`). Theorems `StoreInvariant`,
`BlindEditsStay`, `NothingIsForgotten`, `NeverRollsBack`.

Only model-checked: all liveness (`PoolLive`, `NeverHeldUp`, `CallsReturn`, `UploadsEnd`,
`EditsSaved`, `StartsThrough`, `Reachable`), since the prover does not handle fairness and
`ENABLED`; and what the real CRC computes. The refutation of `ReplacesAtomically` is a run as well.

## Not modelled

* Formats (JSON, logs, HTML), the set-up of drivers, counters and statistics.
* SoftAP and captive DNS: start-up calls of the driver and a stateless responder.
* mDNS, SNTP, the datagrams of the net tick and the beacon on the console: they change no state of
  the system.
* Basic authentication, the check of `Origin`, the WiFi scan and answers that only read: no state.
* `security.c`: random numbers and a comparison whose point is its timing.
* The clock of the handshake dialogue: the code limits single reads, not the whole dialogue, and
  the models let it end by assumption.
* The other direction of the USB bridge: it drops what a full driver buffer does not take.
* The views of the portal, decoding of telegrams, PCT14 import, HA export and the merging of
  documents in `model.ts`: pure functions over large formats.
* Catalogues and `portal_html.h` (generated data), build scripts and test tools.

What could come next: an abstract specification for the promises of `ConfigStore`, and the merging
of documents as operators checked against a reference definition.

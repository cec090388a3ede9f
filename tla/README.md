# McLighting: a model of the firmware

McLightingIDF drives a strip of WS2812 LEDs from an ESP8266. The chip joins a
Wi-Fi network, or becomes an access point with a captive DNS; it serves a web
page, takes commands over HTTP, keeps its settings in flash and updates its own
firmware over the same web server. This directory models the parts of it in
which tasks, messages, timers and losses of power meet, and the libraries that do
most of its computing (the effects of WS2812FX, cJSON), checks them with TLC and
proves what matters most with TLAPS. Paths below are relative to `src/`.

## The system and its parts

Five tasks share the chip. FreeRTOS schedules the ready one of the highest
priority; tasks of one priority take turns.

| task | priority | code | state it owns |
|---|---|---|---|
| system event task (SDK) | above the others | `event_handler` in `wifi_manager.c` | none; sets bits of the event group, sends messages |
| timer daemon (SDK) | SDK | two callbacks in `wifi_manager.c` | the two timers, its queue of commands |
| Wi-Fi manager | 5 | `user_components/wifi_manager` | `retries`, `wifi_config`, the driver's mode |
| web server | 5 | `user_components/esp_http_server`, `http_app` | sessions, handlers, and through its handlers settings, shell, upload |
| DNS server | 4 | `user_components/dns_server` | one UDP socket |
| LED animation | 5 | `main/led_animator.cpp`, `WS2812FX-idf` | the effect, the pixels |

(The timer daemon and the event task belong to the SDK but run code of the
firmware, and are therefore modelled as senders.)

**Wi-Fi manager** (`user_components/wifi_manager/wifi_manager.c`).
*State*: a queue of three messages, the event group (CONNECTED, AP_STARTED, the
three REQUEST bits, SCAN), the count of retries, the address string that the web
server compares the Host header with, two one-shot timers.
*Operations*: one handler per message (load settings, connect, disconnected, got
an address, start and stop the access point, start and stop the servers, scan,
disconnect), `event_handler`, two timer callbacks, `wifi_manager_send_message`.
*Hard*: four tasks send to a queue of three with `portMAX_DELAY`, the only
consumer among them; handlers decide by bits they read before the event task
changed them; timer commands may be dropped and take effect later; an error of
the driver aborts the chip. *Correct if* the manager never waits for itself or
aborts, the device always gets back to its network or becomes an access point
after a bounded number of retries, and address, bits and servers agree with the
driver once everything has been handled.

**Settings** (`user_components/settings`). *State*: one structure in RAM, one NVS
key per field, a version. *Operations*: boot (`settings_init`), set a field, save
(key by key, then one commit). *Hard*: no transaction; power may go between any
two writes; writes are refused, the commit's result is ignored. *Correct if* a
stored version vouches for the rest and no interrupted save costs a setting.

**Web server** (`user_components/esp_http_server/src`). *State*: a table of
sessions with a counter each for the purge, what has been read of the next
request, three sockets, the state of its task. *Operations*: start, stop, one
pass of the loop (`select`, one control message, every readable session, one
accept), register and find handlers, parse, receive, send. *Interacts* with other
tasks by datagrams to its control socket, with clients by sockets. *Hard*:
sessions are deleted from the table that is being iterated over; a close carries
a pointer to a slot; the control socket drops; clients send what they like and
leave when they like. *Correct if* no slot or socket leaks, every readable
session is processed once per pass, the purge closes the session it chose, and
`httpd_stop` returns.

**Requests** (`httpd_parse.c`, `httpd_txrx.c`, inside the server's task). *State*:
a scratch buffer of 769 bytes, `parser_data_t` with its status, pause and
`pre_parsed`, the state of the vendored `http_parser`, and per session a buffer of
128 pending bytes. *Operations*: receive a block, parse it, six callbacks, push
back, receive a body, purge. *Hard*: TCP cuts requests anywhere; the parser is
paused in the middle of a block, what it has not taken is received a second time
and partly skipped; one buffer holds bytes of a body and of the next request.
*Correct if* neither the cuts nor the request before decide what a handler sees,
or whether a request is refused.

**Web application** (`http_app`): starts and stops the server for the Wi-Fi
manager, registers three handlers; GET renders pages and runs shell commands,
POST uploads a firmware, DELETE is refused.

**Firmware update** (`user_components/ota_http_updater`, POST handler): pieces
go to the partition that does not run; the end validates it and switches the
boot partition. *Correct if* the next boot always finds a whole image, a failed
upload changes nothing, and every upload ends, for the server has one task only.

**Shell** (`user_components/shell`): splits a command and calls `set`, `save`,
`reset`, `setmode`, `setcolor`, `setspeed`, `setbrghtns` in the web server's task.
**JSON maker**: prints settings and state with cJSON into one buffer, under a mutex.
**DNS server**: answers every query with one address; the manager starts and
stops it.

**LED animator** (`main/led_animator.cpp`, `WS2812FX-idf/FX_fcn.cpp`). *State*:
`animMode` (mode, colour, speed, brightness), the segment of the `WS2812FX` object
with the same once more, its runtime, the pixels. *Operations*: `led_animator_init`,
the task (start once, then `service` every 10 ms: run the effect, set the time of
the next frame, show), four orders. *Hard*: the orders run in the web server's
task, which has the priority of the animation's, on the same object and without
a lock; they may come before the strip exists. *Correct if* nothing shows a strip
that is not there, an effect starts from its own state, and the last orders are
what the LEDs show in the end.

**Effects** (`WS2812FX-idf/FX.cpp`). *State*: per segment `step`, `call`, `aux0`,
`aux1` and bytes of data, which mean something else for every effect. *Operations*:
a hundred effects, `setMode`, `allocateData`. *Hard*: no effect checks an
index; lengths, speeds and old counters combine; data may be refused. *Correct if*
all indices, divisors and delays are in range on strips of any length and at any
time, memory is counted right, calls return, and what an effect waits for happens.

**cJSON** (`user_components/cJSON`). *State*: items on the heap, linked both ways,
whose first leads to the last. *Operations*: create, add, insert, detach, replace,
duplicate, delete, sort; print, parse, minify; pointers, patches, merge patches.
*Hard*: any allocation may fail halfway; sizes of buffers are estimated apart
from what is printed; names compare with and without case. *Correct if* the linked
lists are lists, nothing is lost or freed twice, text is parsed to what was
printed, and patches lead where they should.

**LED drivers**, **lib8tion, colorutils, Unity**, **web pages and tools** are left
aside.

```
 driver --events--> event task --+
 retry / shutdown timers --------+--> queue (3) --> Wi-Fi manager --+--> driver, timers
 manager itself -----------------+                                  +--> http_app_start/stop --> web server
                                                                    +--> DNS server                 |
 clients --sockets--> web server --> shell --> settings --> NVS                                     |
                          |            +-----> animator <--animation task--> effects, pixels
                          +--> JSON maker --> cJSON                              <--control socket--+
                          +--> updater --> flash partitions
```

`PROJECT.json` lists every component with what is left out of it, and every
hazard at the line where it bites.

## The modules

| module | what it is |
|---|---|
| `WifiManager` | the manager's task, event task, timer daemon, the driver as environment |
| `Connectivity` | abstract: what the manager promises about reaching the device |
| `WifiManagerProps` | its properties, the inductive invariants, the mapping to `Connectivity` |
| `WifiManagerProofs` | theorems about both |
| `Settings`, `SettingsProofs` | settings in RAM and flash, with theorems |
| `HttpServer`, `HttpServerProofs` | the server's task, sessions, control socket, `http_app_start/stop`, clients, with theorems |
| `HttpText` | the bytes of the requests of one connection |
| `Framing` | abstract: what handlers may rely on about requests and bodies |
| `HttpRequest`, `HttpRequestProofs` | parser callbacks, scratch and pending buffers, bodies, purge; the mapping to `Framing`; theorems |
| `FirmwareUpdate` | abstract: what an update promises about what boots next |
| `OtaUpload`, `OtaUploadProofs` | the upload handler, updater and flash; the mapping to `FirmwareUpdate`; theorems |
| `Animator`, `AnimatorProofs` | the animation's task against the orders of the web server's, with theorems |
| `EffectFrame` | what one frame of an effect can do |
| `EffectsClassic`, `EffectsFastLed`, `EffectsParticles` | the effects |
| `Geometry` | from pixels of a segment to LEDs |
| `Strip`, `StripProofs` | the segment, its effect, orders and memory; theorems about it and `Geometry` |
| `JsonLists` | abstract: what the list functions of cJSON promise |
| `JsonItems`, `JsonItemsProofs` | items, their links and the calls about one list, with theorems |
| `JsonHeap` | a program that uses them, the calls about trees; the mapping to `JsonLists` |
| `JsonValues`, `JsonText`, `JsonPatch` | documents; printing, parsing, minifying; cJSON_Utils |
| `MCWifiManager`, `MCSettings`, `MCHttpServer`, `MCHttpRequest`, `MCStrip`, `MCJson` | instances for TLC (`Animator` and `OtaUpload` need none) |

Names are the source's where TLA+ allows. Beside some definitions stands a
*fault*: the same operator as a plausible bug would have it (`PrecedingItself`
beside `Preceding`). No action uses a fault; substituting one for the definition
it stands beside shows that a property notices.

### WifiManager

A handler of the manager is two steps, `Receive` (xQueueReceive and everything up
to the snapshot `uxBits = xEventGroupGetBits(...)`) and the action named after
its message: between the two the event task may change the bits. A handler whose
last act is to send to the manager's own queue goes on in `mgrPc = "send"`; that
send is `ManagerSend`, enabled only while there is room, as with `portMAX_DELAY`.
`EventHandler`/`EventSend` are the event task, `RetryExpires`, `ShutdownExpires`,
`TimerCommand`, `TimerSend` the timer daemon: a timer that expires only queues
its message, and commands to timers wait for the daemon and are dropped when its
queue is full, as `xTimerStart(..., 0)` does. `ESP_ERROR_CHECK` on a refused call
is `mgrPc = "aborted"`, and `Reboot` starts over. The driver is external:
`Associated`, `FailedOrLost`, `AddressChanged`, `ScanDone`, stations that join,
get an address and leave. `failures` is history.

`Connectivity` says with two variables what all this is for: after a start the
device tries its network or becomes an access point; it tries again after a
failure or a loss, at most `MaxRetry` times in a row; then it becomes an access
point and stays one until it restarts. `Phase` reads its state off the driver
alone, so that the refinement relates what the *driver was ordered to do* to the
promise, not the manager's own bookkeeping.

### Settings

`SettingsInit` is a boot, `Update` the command `set`, `Save` the command `save`,
`WriteField` one step of `settings_write_nvs` (compare, then write; the write may
be refused and ends the save), `EndSave` the commit, whose failure is ignored.
`store` is what `nvs_get` finds, `durable` the set of contents a boot might find
if the power went now: NVS (external) writes in order, so `durable` is every
content of the store since the last commit. `Restart` picks one.

### HttpServer

The body of `httpd_server` is `Select`, `ProcessCtrl`, a `Session` per session,
`Purge` (the rest of a body, inside `httpd_req_delete`), `Accept`; `Exit` is the
end of `httpd_thread`. Clients and the tasks of the application run in between.
A request is what the server does about it: `"request"`, `"two"` in one segment
(so that a part is pushed back as pending), `"upload"` (a body its handler does
not read). `lru` holds the ranks of the counters, which is all `LruSlot` looks
at. `for` in a close message, `done` and `served` are history.

### HttpRequest

Bytes are positions of what the client sends, and of a byte only the part of the
request it belongs to is kept. `ReadBlock` is `read_block` with the start of
`parse_block` (room, pending data first and alone, skipping after a pause). Then
`http_parser_execute` runs, callback by callback: it is external, `Rules` is all
of its grammar that matters, `RunEnd` says that it hands over a token whole or up
to the end of the block, and that it takes the colon behind a field before it
returns from a pause. `CbUrl`, `CbHeaderField`, `CbHeaderValue`,
`CbHeadersComplete` (with `cb_no_body`, which follows at once when there is no
body) and `CbOnBody` are the callbacks with their pauses and push backs; a
callback that fails, a byte the grammar does not accept or a full buffer is
`Refuse`. `recv` returns any number of the bytes that are left, or fails
(`Disconnect`). The handler reads as much as it likes, then `Purge` reads the
rest. A `verdict` of `"line"` stands for a version or a URL that `verify_url`
refuses, `"headers"` for an upgrade. `parsed`, `refused`, `served`, `told` and
`chunk` are history.

`Framing` says what this is for: requests come to handlers in their order, each
with its own URI and headers, and what is read is the body of that request from
its first byte to its last before the next one is looked at. `told` relates the
buffers to the text: `Strings` searches headers the way
`httpd_req_get_hdr_value_str` does, as many strings as have been counted.

### OtaUpload

`Receive` is one round of the handler's loop: a piece that is written, fails, or
is too short for a header; a timeout or an error, which the `size_t` turns into a
huge length; a closed connection. `Stop` is `ota_http_updater_stop` and the
answer, `Restart` and `PowerLoss` the two ways out of a running firmware.
`FirmwareUpdate` sees only which partition runs, which boots next and which are
whole: a partition that neither runs nor boots may be rewritten, a whole one
selected, the device may boot; between the selection and the boot nothing is
written. A piece is a `Rewrite` or nothing, `Stop` a `Select` or nothing.

### Animator

`task.at` is where `led_anim_task` is, `web.at` where the task of the web server is
in an order; each action is what happens up to the next place where the other
task may have changed something the code goes on to use. So an argument is read
from `animMode` (`ReadArgument`) and written later (`WriteArgument`), `setMode` is
a reset (`ResetMode`) and a change of mode (`WriteSegment`), `service` takes the
effect from the table (`Service`), runs it (`RunEffect`), sets `next_time`
(`SetNextTime`) and shows one LED at a time (`ShowLed`); `setBrightness` shows from
the other task (`WebShowLed`). `due` and `rested` are times in ticks of 10 ms,
`owner` and `found` tell whose state an effect finds. The effect itself is one
step: a reset in the middle of it has the same outcome for `owner` as one before.
`raced` and `crossed` are history; they mark the two cases in which the promises
are known not to hold (below), so that `EffectsFindTheirOwn` covers the resets between
frames and not one between two steps of an effect, and `BothTheSame` and
`LastOrdersShown` the runs in which no order meets the start.

### EffectFrame, the effects, Strip

An effect is an operator from the runtime it finds and its surroundings (length,
speed, intensity, memory that is left) to the set of frames it may make. A frame
says what becomes of the runtime, how many bytes of data were touched, which
indices were used and with which bound, what was divided by, and the delay. Random
numbers and the clock become choices; where a number selects a pixel, both ends and
the middle stand for all. Colours are left out. `Strip` is `service`, `setMode` and
`setSpeed` over frames: any order between any two frames, data refused whenever
memory may be short (`WithData`). The firmware sets neither intensity nor palette,
so that both are constants. What an effect computes from the clock may be anything from
one frame to the next, since frames come late and `setSpeed` changes the factor: the
head of the police dots may be found on any pixel, whatever it left in `aux0`.

The slots of a frame are of three kinds: the index of a table or of an effect's own
data with its length; the index of a pixel with `SEGLEN`, which says that the effect has
kept to its segment; and, for pixels that an effect paints beyond the segment too (the
rest of a falling drop, the place from which the trail of the police dots comes back),
the index with 65536: it must not run over, and `setPixelColor` drops what is not on the
segment, for every index that 16 bits can hold (`SetPixelColorInBounds`). A call of the
police dots that never returns has no frame; `CallsReturn`, a part of `EffectsInBounds`,
says that there is none, but for the two cases told under *Effects* below.

`Geometry` is `setPixelColor` (within an effect, and from outside, where it tests
nothing), `getPixelColor`, `setRange` and `setSegment` with the 16-bit arithmetic of the
source.

### JsonItems, JsonHeap, JsonText, JsonPatch

`JsonItems` has the items, a record each, and what the functions of `cJSON.c` that
work on one list do with `next`, `prev` and `child`: append, insert, detach, replace,
go to an index, the loops that link a list of new items, and the keys and texts that
an item owns. Each is an operator from the memory it finds to the memory it leaves.
`Sound(m, l, u)` says what such a memory stands for: `l` maps each item to the sequence
of its children, the links are those of `l` both ways and from each first item to its
last (but for the containers in `u`), no item is in two lists or twice in one, and
every text that is allocated belongs to one item. `JsonHeap` has what walks trees
(`Delete`, `Duplicate`, `SortList`) and the program.

In `JsonHeap` a program calls the functions of cJSON in any order on items that it
may use by the rules of `cJSON.h` (`MayChange`, `MayAppend`, `MayFree`); every
call gets a number of allocations that succeed before one fails (`Granted`). A
call is a step: the library has no state of its own. `JsonLists` says the same
with sequences instead of links; `ImplementsLists` maps each item to the sequence
of its children. `JsonText` and `JsonPatch` are functions from texts and documents
to texts and documents, with the buffers and their sizes; they are compared with
what should hold of them over the sets of documents in `MCJson`. A text is a
sequence of bytes, because escapes, offsets and sizes are what the properties
are about.

## What the runs check

Passing runs. State counts are distinct states.

| run | bounds | checks |
|---|---|---|
| `wifi` | queue 3, timer queue 3, retries 3, 2 addresses, 1 station, 3 pending events, no orders of other tasks, `FairSpec` | `OneThingInProgress`, `ManagerNeverSelfBlocks`, `NeverAborts`, `NotStranded`, `AddressFollowsLease`, `ServersFollowMode`, `Reachable`, `ImplementsConnectivity` |
| `wifi_orders` | queue 2, timer queue 2, no retries, one address, no stations, one pending event, any orders of another task | `BitsFollowDriver`, `AddressForetold` |
| `settings` | password in the defaults; commands that set a name and an empty password; older firmware or erased flash; any garbage | `VersionMeansTexts`, `LoadedSurvive` |
| `http_safety` | 2 slots, 3 clients, mailbox 1, pipelined requests and bodies, work from other tasks | `SlotsMatchSockets`, `OncePerPass`, `PurgeOrder` |
| `http_liveness` | 2 slots, 3 clients, mailbox 2, short requests, no work of other tasks, `FairSpec` | `CloseHitsTarget`, `ShutdownNotLost`, `StopEnds`, `PurgeMakesRoom`, `RequestsRead` |
| `http_request` | blocks of 4 bytes, scratch 10, URIs to 9, purges by 2; 40 pairs of requests | `TypeOK`, `ParserInStep`, `RefusedWithReason`, `ImplementsFraming` |
| `ota` | 4 pieces, `FairSpec` | `AlwaysBootable`, `ImplementsUpdate`, `UploadEnds` |
| `animator` | 2 LEDs, modes 0, 1 and one past the end of a table of 3, 2 values, 3 orders, delays to 40 ms, fair tasks | `ShownStripExists`, `EffectsFindTheirOwn`, `BothTheSame`, `LastOrdersShown` |
| `effects` | strips of 1, 2, 3, 4, 5, 9, 24, 42 LEDs, speeds 0, 60, 128, 255, every mode; segments within strips of up to 5 | `EffectsInBounds`, `UsedIsData`, `SparksDie`, `SegmentsCovered` |
| `json` | memory for an array, an object and 2 strings, or for 2 arrays and 3 strings; 2 names that differ by case, any allocation fails; some hundred documents to print and to patch, `INT_MAX` 99, nesting 3 | `HeapSound`, `CallsInPlace`, `ImplementsLists`, `TextFaithful`, `DocumentsPatch` |

The type invariants of `WifiManager`, `Settings`, `OtaUpload` and `HttpServer` are proved for
every value of their constants and are not checked again by these runs.

**Why these bounds suffice.** *Wi-Fi*: queue length 3 and 3 retries are the values
of the firmware (`xQueueCreate(3, ...)`, `CONFIG_WIFI_MANAGER_MAX_RETRY_START_AP`);
the theorems below hold for every value. Two addresses tell a renewed lease from
the old one. `MaxEvents` is the only cut: the driver posts nothing while that
many events wait; three is enough for a lease, a changed lease and the loss to
wait together. `failures` stops at `MaxRetry + 2`, one more than the refinement
lets it reach. `wifi_orders` is small because orders arrive without end and
every interleaving counts: queues of two still fill up, block senders and drop
timer commands. *Settings*: two values besides "" and the old version tell a
saved from a default setting; one text that may be emptied and one that may not.
*Web server*: with two slots there is a session before and one behind a deleted
one, a third client waits while the table is full, and a purge, a departure and
an arrival can all hit the slot a message points to. The real mailbox holds six
datagrams; one (where datagrams are dropped) and two (where a purge and a stop
fit, and nothing else is ever sent) are the two cases. *Requests*: as in the
firmware the scratch buffer holds a URI of maximal length and one byte, and is
not a multiple of a block, so that the last read before it is full is a short
one. A block of four ends inside every token; the requests include the longest
first line and the longest headers that fit, with and without a body, and ones
that are a byte too long; bodies need more than one purge. The first request of a
connection is one that is answered, the second anything. *Upload*: four pieces
give a first, middle and last one; the theorems hold for any number.
*Animator*: with two LEDs an order can come between the first and the last of a
frame; a mode past the end of the table is clamped; three orders are one that is
carried out, one that meets it and one after both; delays to 40 ms are longer and
shorter than the 22 ms that decide whether a brightness is shown at once. *Effects*:
1 to 5 are the lengths at which halves, thirds and tenths become zero; 9, 24 and 42
are past the sizes the effects compare lengths with (eyes, sparks, dots); the
speeds include both ends. *JSON*: an array, an object and two
strings give mixed lists of up to three; two arrays and three strings a copy of a
whole array, or references between them. `INT_MAX` and
the nesting limit are small so that values on both sides occur.

**Deadlock** is checked except in `wifi_orders`, where an application that fills
the queue with orders can leave the manager blocked in its own send (the reason
why `ManagerNeverSelfBlocks` is stated for a firmware without such orders, which
this one is), in the runs of `MCHttpRequest`, whose connections end, in `json`,
whose program may run out of items it may use, and in
`http_safety` and `http_stop`, where the endless loop of
`httpd_req_delete` on a closed connection is a state without a step; the first
of the findings about the server is about that.

**Fairness.** `WifiManager`: each task takes a step when it can (they block only
on queues, the processor is shared by priority and no task of the firmware
computes for ever), a running timer expires, the driver ends every attempt to
connect; nothing makes a station join, an order arrive or a connection break.
`HttpServer`: the server's task runs when it is ready, and its `recv` returns by
`recv_wait_timeout`; `httpd_stop` polls. Clients owe nothing. `OtaUpload`: the
handler runs, with the same timeout. `Animator`: both tasks have priority 5 and wait
only for ticks, so that each gets its turns, and time passes; nobody has to give
orders. All of it is weak fairness of whole tasks.

### Disagreements the runs show

Each is a run whose one property says what a text of the repository says, and
which TLC finds violated.

* `settings_empty_password`, `SavedSurvive`: with an empty default password,
  which Kconfig suggests, the key is never stored; every later boot takes the
  store for incomplete and writes defaults over what the user saved
  (`settings.c:328`, `732`).
* `http_stop`, `StopEnds`: a client that leaves in the middle of a body that its
  handler does not read keeps `httpd_req_delete` reading 0 bytes for ever; so
  does `httpd_stop` and the Wi-Fi manager, which waits for it
  (`httpd_parse.c:712`). Without such bodies the property holds (`http_liveness`).

### Met while modelling, without a run of their own

*Wi-Fi*: when one of two stations leaves the access point, web server and DNS stop
for the other one too (`wifi_manager.c:285`; the run has one station, with which
`ServersFollowMode` holds). The SCAN bit is set before a scan and reset by nothing
but a disconnection (`wifi_manager.c:154`, against the comment at 790), and an order
to disconnect that comes when the station is down is taken for the cause of its next
loss (1077); no task of this firmware gives such orders.

*Settings*: `nvs_write_u32_with_check` compares with an uninitialised number when
the key is missing (`settings.c:345`; every value it may hold is in the model, and the
properties hold nevertheless).

*Web server*: a session that has served nothing has the counter 0 and goes first when
room is made, and so does the one that served the very first request
(`httpd_sess.c:204`; `PurgeOrder` allows both, and only orders the sessions that
have served something); `CloseHitsTarget` is stated for the firmware's own use and
would not hold if another task triggered closes, since the message points to a slot
(`httpd_sess.c:392`); what is pushed back of a pipelined request waits for the next
activity (`httpd_main.c:174`); when its task cannot be created `httpd_start` leaves
three sockets open (`httpd_main.c:398`).

*Requests*: a request without headers, which the code admits with a branch of its
own (`httpd_parse.c:294`), pushes back its own URI when it ends (`httpd_parse.c:434`),
and that is parsed as a second request (the requests of the run have headers); a URI
of `CONFIG_HTTPD_MAX_URI_LEN` bytes (768) is never accepted, for the scratch buffer,
as long as that, has to hold the method and the version too (`esp_httpd_priv.h:39`;
`Supported` says what is accepted); a chunked body has length 0 and its chunks are
parsed as the next request (`httpd_parse.c:354`).

*Upload*: the handler ignores the result of `ota_http_updater_stop` and announces a
success that did not happen (`http_app.c:323`); a failed upload keeps 8 KB
(`http_app.c:302`).

*Animation*: an order that meets the start may be undone by half
(`led_animator.cpp:113` reads `animMode` before it, and writes the segment after it:
`raced`); when the mode changes under an effect, that effect writes its state after
the reset, the next one finds it, and data that the reset frees may still be in use
(`crossed`, `FX.h:327`); `getmode` reports a mode that `setMode` has clamped
(`FX_fcn.cpp:291`); the power limiter ends in `hal_setBrightness`, which does nothing
(`led_animator.cpp:146`); `getPixelColor` returns red shifted by 24 bits where colours
have it at 16 (`FX_fcn.cpp:453`, against the comment at 615); `millis()` wraps after 49
days, and frames with it (`FX_fcn.cpp:80`, as the comment at 70 says); `applied` in
`setColor` is never set (362).

*Effects*: the loop `for (uint8_t i = 0; i <= gap; i++)` of the police dots never ends if
the 8-bit distance the head has come is 255 (`FX.cpp:1267`). That may happen when a frame
comes late or the speed changes, in two cases: on a strip of 256 LEDs or more, where the
head may be 255 pixels from where it was; and on a shorter one when the head was moved up
beyond the end of the strip and is then found behind that place, so that the distance
wraps. Without the premise `rt.aux0 < length` of `CallsReturn` TLC finds `EffectsInBounds`
violated on 4 LEDs in three frames. Nothing in the repository says otherwise, so that it
is a case the property names and not a finding. `mode_drip` paints up to four pixels
above a drop that falls and the police dots count backwards from beyond the end: these
pixels are dropped (`FX.cpp:3107`, 1268). `mode_oscillate` moves left
of 0 in 16 bits without a sign (`FX.cpp:1584`); `mode_running_random` and `mode_rain` keep one counter in the place of another
(1024, 1157); `mode_dancing_shadows` decides whether to initialise before it has its
data (3615); `load_gradient_palette` may take an index past what it was asked for
(745); `color_from_palette` divides by the length less one, which only a palette
would reach (`FX_fcn.cpp:860`). But for the first, none leaves its data, its tables or
its integers as this firmware uses them.

*cJSON*: after `cJSONUtils_SortObject` the first item's `prev` may not be the last
(`cJSON_Utils.c:592`): what is then added is lost, and the call returns true (`unlinked`;
the program of `JsonHeap` appends nothing to a sorted object).
`cJSON_AddItemReferenceToObject` leaks the reference when there is no memory for
the name (`cJSON.c:2079`, `Mislay`). `replace_item_in_object` leaves an item without
a name when that fails, and renames even when there is nothing to replace (2361).
`cJSON_Minify` takes the quote behind an escaped backslash for an escaped one (2828).
An invalid digit in `\u` reads as NUL (618). `decode_pointer_inplace` drops characters
behind an escape (`cJSON_Utils.c:359`), `detach_path` does not heed whether case
counts (393), `compare_strings` takes a missing name for the larger on either side
(83), and `generate_merge_patch` sorts by one order and compares by another (1423;
`MergesReproduce` is stated for names in lower case where that matters).

*JSON maker*: `json_maker_init` that runs out of memory leaves NULL in its trees, and a
failed `cJSON_PrintPreallocated` is sent nevertheless.

## What is proved

All theorems are about the specifications without fairness, for every value of
the constants that the named assumptions allow, and have no unproved leaf.

* `WifiManagerProofs!TypeCorrect`: types, the capacities of the queues, and the
  range of the count of retries, for any orders of applications.
* `OneThing`, `NeverSelfBlocks`, `NoAbort`, `Reached` (from `UserOrders = {}`,
  which is the firmware as it stands: nothing in it calls
  `wifi_manager_send_message`). None of these invariants is inductive: that the
  queue has room when the manager sends, or that the retry timer does not run
  when the access point owns the radio, depends on where every message is. The
  inductive one is `OneThingInProgress`: in station mode *exactly one thing is in
  progress* — loading, an ordered connection, an attempt, an established link
  with at most leases to note, a loss on its way through events, event task,
  queue and manager, a pending retry, or the order to become an access point —
  and all else is empty; in access-point mode only news of stations travels.
  Each action moves from one such phase to the next, one lemma per phase and
  action; the phases also tie `retries` to the history of failures. TLC checks
  it as an invariant of `wifi`, so that it was known to hold before it
  was proved.
* `BitsAgree`, `AddressTold`, `AddressAgrees` (for any orders of applications) and
  `ServersAgree` (`UserOrders = {}`, at most one client of the access point; with two it
  is false, see above). What holds once everything is handled is the end of a
  stronger statement about every moment: the *last* news on its way, looking from the
  driver's newest event back through the event task and the queue to the manager's
  own note, tells the present state of the driver (`BitsForetold`, `AddressForetold`,
  `ServersForetold`). `BitsAgree` is about the bits of the event group, not about the copy
  `uxBits` that a handler decides by; what an old copy may spoil is `OneThing`. A lemma each says what appending, taking and moving a message does to
  the last news of a queue; then every action either carries news one place on or is
  the driver appending the newest. `AddressForetold` is also checked in `wifi_orders`.
* `Refinement`: every step of the manager is a step of `Connectivity` or a
  stutter. It uses the phases: what a step of the driver means for the promise
  follows from the count of retries that the phase determines. The fairness part
  of `ImplementsConnectivity` is left to TLC.
* `SettingsProofs!TypeCorrect`, `VersionLast`, `NothingLost`. `VersionLast` holds
  because the version is the last key written: its strengthening says, for a save
  in progress, that every content of `durable` that already has the version has
  all texts, and that the texts before `at` are stored. `NothingLost` strengthens
  with "every durable content is whole, and each field is among the accepted
  values" once a boot has loaded everything.
* `OtaUploadProofs!TypeCorrect`, `NeverBroken`. The two halves of `AlwaysBootable`
  are inductive only together: the boot partition stays whole because,
  while an upload writes, it is the running one, and `Target` never is.
  `UpdateRefined`: every step of an upload is a step of `FirmwareUpdate` or a stutter, by
  the same invariant: a piece can only make `Target` whole or not, and the end selects
  what is whole.
* `AnimatorProofs!ShowsWhatExists`: behind it is that a frame is due (`due = 0`) until
  the strip is set up; a reset only makes one due, and only a frame moves it away.
  `EffectsOwn`: unless the mode was changed under an effect, the runtime is fresh or
  belongs to the effect of the segment, and is fresh between the reset and the change.
  `NothingHalfDone`: whenever the animation runs and no order is being carried out,
  `animMode` and the `WS2812FX` object agree, unless an order met the start. Its
  invariant, `SameInv`, says which fields have been carried over at each place of the
  start, that an argument that has been read is still the one of `animMode`, and which
  field the order in progress is about to write.
  For any modes, strips and numbers of orders.
* `StripProofs!SetPixelColorInBounds`, `GetPixelColorInBounds`, `SetSegmentInBounds`,
  `PixelsCoverSegment`, `SegmentsAreCovered`: whatever grouping, spacing, mirror and direction,
  only LEDs that exist are written, read or turned off, on strips of up to 32767 LEDs, and
  painting every pixel of a segment paints LEDs of that segment only (and those that are
  skipped), and without spacing all of them. `SetPixelColorInBounds` is about every pixel an
  effect may ask for, also beyond its segment, and `SetSegmentInBounds` about strips that are
  reversed or skip a LED too, where what is turned off is not tested. The lemmas are about the 16-bit arithmetic (a subtraction that wraps
  never comes back into the segment) and about the division of a segment into groups
  (every LED within a group has a pixel of its own, from either end).
* `StripProofs!StripInvariant`, `EffectsStayInBounds`, `BytesInUseAreData`, `SparksBurnOut`:
  every effect, for any allowance of memory, any results of allocations, any clock and random
  numbers, and any changes of mode and speed between frames. That a frame is in bounds
  is not inductive, since it depends on what the frame before left; the invariant is
  `StripKept`, which says for the effect that runs how far its counters go
  (`CountersKept`: the wipe within its turn, the head of a comet on the strip, the
  oscillators, the drops and their speeds, the star and spark counts within the bytes
  that were allocated) together with `UsedIsData`. Each effect has a lemma: if its
  counters are kept and the surroundings are a strip, every frame is good and keeps them.
  Assumed: `StripAssumption` (speeds and orders are bytes; at most 32767 LEDs, because `REV`
  is computed in an `int16_t`) and intensity 0, which nothing in the firmware changes.
  `CallsReturn`, which is part of it, is stated with its two exceptions (*Effects* above):
  within them it is false.
* `HttpServerProofs!NoLeak`, `PassesAreComplete`, `PurgeInOrder`, `PurgeHits`,
  `ShutdownArrives`, `TypeCorrect`, for any numbers of slots, clients and messages.
  One inductive invariant (`Inv`) has them all; `PurgeHits` and `ShutdownArrives`
  are for `~Works`, an application that queues nothing (with one that does both are
  false), and the second for a control socket with room for two. No part is
  inductive alone: a slot matches a socket because
  the connections of the backlog wait, each once (`Backlog`); the loop is right
  because it always stands at a slot `p` up to which every readable session is done
  and behind which none is (`At(p)`), also after `httpd_sess_delete` has taken a
  session away, for `Preceding` is then `p` or the slot before it; the order of the
  purge is that the counters increase along `served` (`Ranked`), which re-ranking
  keeps by counting subsets; the messages are known exactly when nobody else sends
  any (`Mail`). That a set of slots has a first and a last is proved
  from the well-foundedness of inclusion among finite sets, since induction on
  numbers takes an operator.

* `HttpRequestProofs!ParserInvariant`, `TypesHold`, `ParserStaysInStep`,
  `RefusalsHaveReasons`, `RequestsAreFramed`, for any streams, cuts, blocks, scratch and
  purge buffers (`SizesAssumption`: a block fits the scratch buffer). None of the checked
  invariants is inductive: that the next byte is the right one depends on where the
  block came from. `ParserInv` says that, while a request is parsed, the scratch buffer
  and then the pending data are one piece of the text (`Window`), which begins with
  the request up to the first header and with the headers from there on, and in which
  only ends of line before the last string are overwritten (`Erased`); and that the
  noted position, the count of headers and the URI are what the state of `http_parser`
  requires (`Stage`). While a handler runs, what is received and not yet taken lies as
  far before the end of its request as `remaining_len` says. Each callback and each way
  of reading has a lemma. `RequestsAreFramed` is the refinement of `Framing`, steps and
  all: what a handler is told is found by counting the strings in the buffer
  (`StringsAre`), and what is read of a body ends where the request does (`BodyEnd`).
  The text is built by `FlattenSeq`, whose recursion is reasoned about through the ends
  of its parts (`EndsAt`, `Flattened`); the inductions this takes go through the least
  element of a finite set, for the reason given above.
  Assumed: `HeadersSent`, every request has a header, as HTTP/1.1 requires. Without one
  `last` stays at the URI, the headers are taken to end there, and what is pushed back
  begins with the URI again, so that the next request is not in step. `AllFilled`, for
  `RefusalsHaveReasons` only: no name and no value is empty, because `Rules` leaves out
  what `http_parser` does with empty ones. TLC checked `ParserInv` on the streams
  of `MCHttpRequest` before it was proved; all of these satisfy both assumptions.

* `JsonItemsProofs!AddAppends`, `InsertInserts`, `DetachRemoves`, `PutReplaces`, `IndexIsPlace`,
  `LinkAppends`, `EndLinksLast`, `EmptyHasEnd`, `NewIsLoose`, `TextBelongs`, `KeyBelongs`,
  `AddKeepsMembers`, `RenamedOwnsName`: each call about one list takes a sound memory to
  a sound memory, in which the list of that container is what `Append`, `InsertAt`,
  `RemoveAt` or `ReplaceAt` makes of it and all other lists are as before; texts and
  names stay counted, also when memory for a name runs out. They hold for any
  number of items and lists of any length. `Sound` is the conjunct of `HeapSound`
  that TLC checks on small heaps; the sequences are those of `CallsInPlace`. Behind each is one lemma,
  `Relinked`: if the memory afterwards has the items of one list linked as a new
  sequence says, the items that left it linked to nothing, and everything else as
  before, it is sound for the new lists. The hypotheses are what `cJSON.h` asks of a
  caller: the item is in no list (`Loose`), the container is not a reference, and
  what is appended to has the way to its end.

Only model-checked: what is liveness (`Reachable`, `StopEnds`, `PurgeMakesRoom`,
`RequestsRead`, `UploadEnds`, `LastOrdersShown`), which the prover's temporal backend
cannot reach, since it knows nothing of `ENABLED`; and cJSON as a whole:
deleting, copying and sorting, printing, parsing and patching are recursive definitions
over trees, about which nothing can be proved here. So `HeapSound`, `CallsInPlace` and
`ImplementsLists` stay invariants of a run, and `JsonItemsProofs` proves for heaps of
every size what they say of the calls about one list.

## What is not modelled

`wifi_manager_destroy`, `wifi_manager_send_message_to_front` and the callbacks of
`wifi_manager_set_callback` have no caller. Failures of `malloc`, of reads of NVS
at boot and of `httpd_start` are hazards without a property. Of requests, chunked
bodies, headers with empty values (both of which depend on the inside of the
vendored `http_parser`) and error handlers, which the firmware does not register,
are left out; responses, query strings, pages, colours
and the timing of the pins are data or wording. The lock of `nvs_sync.c` and the
mutex of the JSON maker are taken by one task alone after the boot.
`httpd_uri_match_wildcard` meets three wildcards only, and handlers are never
unregistered; that a handler may be called before its registration is finished
(`http_app.c:746`) is a hazard without a property. The socket of the DNS server, which
its stop closes through a global that the task may not have set (`dns_server.c:69`),
is not modelled. Of the effects the colours are left out (colorutils, lib8tion,
palettes), and effects that differ by colour only are one operator; segments other
than the first, transitions and options are never used. Of cJSON: raw items (which
`compare_json` and `create_patches` do not know either), numbers that are not
integers, `cJSON_CreateStringReference`, `cJSON_SetValuestring`, the hooks, the refusal to
add an item to itself, and what `apply_patch` reports of patches that are no patches. The
access point's shutdown is always delayed: the alternative for a delay of 0 is settled when
the firmware is built. Unity, pages and build tools are third-party or assets.

## Where this can go on

Everything planned is modelled and checked. What would come next:

1. `JsonHeap`'s `Delete`, `Duplicate` and `SortList` as steps of a machine with an
   explicit stack, so that their invariants could be proved as those of the calls in
   `JsonItems` are.
2. The manager composed with the server's stop. Little would come of it now: the
   manager is blocked in `httpd_stop` between two steps of `WifiManager`, where the
   model lets the event task and the timers do anything already; no code of the
   server's task sends to the manager; and that the stop may not return is the
   finding of `http_stop`.

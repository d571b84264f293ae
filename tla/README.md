# A TLA+ model of the SPL winding monitor

The repository monitors a winding line. A backend process holds one TCP
connection to the mill's level-2 computer (L2), receives production data and
judgement changes from it, sends it alive telegrams and winding statuses, puts
the images of a winding on an FTP server, and shows everything to browsers over
REST and a WebSocket. Two simulators stand in for either end of the connection.

All of it is asyncio: one thread, many tasks, and a task gives way only at an
`await`. What is hard to test is therefore what happens *between* two awaits of
one task: another task cancels it, the connection it was about to write to is
replaced, the set it iterates over changes. The models make every await a place
where a task is parked, and every step what a task does from one to the next.

## 1. The parts of the system

| Part | Source | State it keeps | Operations | Talks to |
|---|---|---|---|---|
| SPL TCP client, connection | `backend/tcp_client.py` 33-238, 336-433, 723-755 | `_running`, `reader`/`writer`, `alive_paused`, `_last_alive_rx`, three tasks | start, stop, connect loop, receive loop and dispatch, alive sender, watchdog, disconnect | L2 by TCP; data store; browsers by broadcasts |
| SPL TCP client, winding sends | `backend/tcp_client.py` 435-534, 664-721 | `_auto_winding_task`, `auto_winding_layers` | `send_winding_status`, image generation, start and stop of the auto task | REST handlers, receive loop, executor thread, data store |
| SPL TCP client, renaming | `backend/tcp_client.py` 221-334 | the image directory | a 1010 renames files by prefix | L2, file system |
| SPL TCP client, FTP | `backend/tcp_client.py` 536-649 | one FTP connection per upload | upload, verify, retry, reconnect | executor thread, FTP server |
| Data store | `backend/data_store.py` | last telegrams, coils, status, counters, logs | update and query | everything in the backend |
| Broadcasts | `backend/ws_manager.py` | the set of WebSockets | connect, disconnect, broadcast | browsers |
| REST and WebSocket | `backend/api_routes.py`, `backend/main.py` | none | one handler per operator command, snapshot for a new browser | client, data store, broadcasts |
| Telegrams | `backend/protocol.py` | none | build, parse, check of fixed-length records | all ends of a TCP connection |
| L2 simulator | `l2_simulator/server.py`, `cli.py` | `writer`, `connected`, `_alive_task` shared by all handlers | accept, receive, alive sender, menu sends | SPL client |
| SPL simulator | `spl_simulator/*.py` | `connected`, `writer`, two tasks, one winding engine | menu, receive loop, alive loop, engine | the earlier L2 server |
| Earlier L2 server | `backend/tcp_server.py` | like the L2 simulator, with a watchdog and the status on show | accept, receive, alive sender, watchdog, send, stop | the SPL simulator; nothing in the repository starts it |
| Front end | `frontend/index.html` | what the page shows: settings, material, winding grid, up to 500 telegrams | one handler per event, requests and their answers | WebSocket, REST |
| Earlier test client | `legacy/LLM_lv2_test.py` | a PyQt6 window | manual telegrams | L2 |

How they interact: `main.py` starts the client in the web server's event loop.
The connect loop opens the connection, starts an alive sender and a watchdog
for it, and then *is* the receive loop until the connection ends; each telegram
is logged, broadcast and handed to its handler, which writes the data store,
broadcasts again, and for a 1002 may start the auto-winding task, for a 1010
renames files. Operators' REST calls run beside all this in tasks of their own
and write to the same connection, the same data store and the same set of
browsers.

What makes each part correct:

* **Connection** - the status shown agrees with the connection held; however
  often it reconnects there is one sender and one watchdog, of the current
  connection; silence is reported; lost connections are replaced; stop() stops
  everything.
* **Winding sends** - one automatic send at a time; what is recorded for a coil
  never goes back to a telegram that was over; no leftovers; the lamp ends on
  what is true.
* **Images** - a judgement that was applied stays applied.
* **Broadcasts** - a browser that stays gets every event, in order; browsers
  that come and go disturb nobody else.
* **L2 simulator** - a client whose telegrams are received also gets alives.
* **Telegrams** - three descriptions of each layout (build, parse, check) agree;
  what is written to the stream is read once, whole and in order, however it is
  cut.
* **Earlier line** - whatever connections and broadcasts do, there is one
  receiver, one sender and one watchdog; a connection that lasts comes alive, a
  material is answered.
* **Dashboard** - a page that has handled all it was sent shows the store, except
  what a disturbed broadcast left out or brought late, until the next event.

PROJECT.json lists the hazards line by line, with the properties that cover them.

## 2. The modules

| Module | What it is |
|---|---|
| `ConnectionStatus` | abstract: the four statuses of `ConnectionState` and the silence clock that justifies an alarm |
| `SPLClient` | the client's tasks, detailed; implements `ConnectionStatus` |
| `MCSPLClient` | the symmetry of connections for the safety run |
| `SPLClientProofs` | the theorems about `SPLClient` |
| `Winding` | winding sends, manual and automatic, and what they leave behind |
| `ImageFiles` | the image directory under uploads and 1010 renamings |
| `ImageFilesProofs` | the theorems about `ImageFiles` |
| `L2Simulator` | the server end and its overlapping handlers |
| `Broadcast` | the set of browsers, broadcasts that iterate over it while it changes, the endpoint and its snapshot |
| `MCBroadcast` | the symmetry of WebSockets for the safety run |
| `FtpUpload` | the executor's thread that uploads the images of one send |
| `Telegrams` | `protocol.py`: build, parse and the padding check of the six record types, on strings |
| `TelegramChannel` | abstract: whole telegrams, in order, until something foreign or a loss |
| `Framing` | the receive loop that cuts a stream of characters into telegrams; implements `TelegramChannel` |
| `MCFraming` | messages and foreign records for the run |
| `Connections` | TCP as asyncio shows it to two programs: queues, closing, cut links (external) |
| `SPLSimulator` | the client of `spl_simulator` |
| `L2TCPServer` | the server of `backend/tcp_server.py` |
| `EarlierLine` | both on one line; the server implements `ConnectionStatus` |
| `Dashboard` | the data store, the REST handlers, the snapshot, and what a page makes of it |
| `WindingProofs`, `FtpUploadProofs`, `LineProofs`, `EarlierLineProofs`, `BroadcastProofs`, `DashboardProofs` | the theorems about these modules |

### Conventions

* A task has a program counter that names the await it is parked at. `off` is a
  task that ended or does not exist.
* `task.cancel()` sets the program counter to `cancelled` (in `Winding`, adds
  the task to `cancelled`); the *next* step of that task is the CancelledError,
  with exactly the handlers the code has at that await. This is what asyncio
  does: cancelling a parked task takes effect when the task next runs, and a
  task that is cancelled does not do any of its own code in between, except
  what its `except` and `finally` say.
* Every awaited broadcast is a place to park, also when there are no browsers
  (where the code would not give way at all): the model has the real
  interleavings and some more.
* A broadcast iterates over a set that connecting and disconnecting browsers
  change, so it may raise `RuntimeError: Set changed size during iteration`
  (`ws_manager.py` 31). Who catches it differs from place to place, and the
  models follow each place. `UIChurn` in `SPLClient` says whether browsers come
  and go at all.
* Operators named after a code operation with a suffix, under a comment that
  begins with "Fault:", are plausible bugs of that operation. They are not part
  of any specification; each shows that some property would notice it.

### SPLClient

`loop` is the task `_connect_loop`, which calls `_connect`, `_receive_loop` and
the handlers: its values are their awaits. `alive[c]` and `watchdog[c]` are the
two tasks made for connection `c`; `alive_task` and `watchdog_task` are the
references the client keeps. `established` is the network's side: what neither
end has closed. `silence` is the time since `_last_alive_rx`, in units of the
watchdog's 10 s and capped one above the limit, where more makes no difference.

Abstracted as data: the alive counters, timestamps, logs and telegram contents.
A 1099 with a malformed count is left out, and what is still buffered when a
connection is lost counts as received before the loss. `_receive_task` of the
source is never assigned; `_auto_winding_task` is `Winding`'s, except that its
cancellation by stop() is not modelled.

### Winding

A send `s` stands for one call of `send_winding_status`; `pc[s]` is its await,
`autos` the sends made by an auto task, `wire` the sends whose telegram was
written, `coil[b]` the send whose layers the data store shows. The connection
may come and go at any time. The client either has FTP or not, for good
(`ftp_enabled`, line 49; by default it has none): without it a send ends after
its status broadcast (`SentWithoutImages`, the branch not taken at line 462).
`images[s]` follows the temporary directory of the source: made, then kept in
the image directory, wholly or in part, for a move that fails is only logged
(lines 525-530), or left there.

Nothing is assumed of the order in which parked senders wake. Two that are under
way together record in any order: one may be parked in the drain of a transport
that is gone, or in a log broadcast that a browser's coming and going disturbed,
and even on one transport asyncio does not say who is woken first. So a coil may
end on the older of two overlapping telegrams. What is promised is what is left:
`earlier[s]`, a history variable, is the sends that had recorded, or given up,
when `s` was written, and the coil never goes from `s` back to one of these
(`CoilNeverGoesBack`).

### ImageFiles

A name is a prefix, a status and an extension. Handling a 1010 has no await, so
its fields are worked through (`todo`) while nothing else moves. Directory order
is any order. Renaming onto an existing name replaces the file on POSIX and
fails on Windows, and a file in use fails: both are possible.
`judged` is a history variable: the last judgement of each image and whether it
was answered as applied.

### L2Simulator

Handlers of several connections share `writer`, `connected` and `_alive_task`.
Clients are the environment; one may connect while the handler of an earlier
connection has not ended (a half-open connection, or a second client). Then the
older handler's `finally` clears what is the newer connection's by now, and
nothing is promised to that client. `alone` is a history variable: the client
that came when no other was handled, for as long as none comes. The promises
are about that client, and about what clients before it have left behind.

### Broadcast

The events are the successive values of one field of the data store; broadcast
`e` is made by whichever task sets value `e`, in the step that sets it. The set
is modelled as CPython has it, a table iterated by position, because the
iterator only compares sizes: a set that lost one browser and gained another
goes on being iterated, and the addition may have rebuilt the table
(`Placements`). `senders[w]` is the line of senders parked in `send_text` of
browser `w`, first in, first out; the endpoint's snapshot stands in it as 0.
Joining, taking the snapshot and starting to send it are one step because the
source has no await between them. `disturbed` is a history variable. A task
that is cancelled while it broadcasts leaves its loop. Failed sends are those
to a WebSocket that is no longer open, and even these need not fail.

### FtpUpload

`pc` is the FTP call the thread is in. A call ends well, badly, or badly after
the server did what it was asked; the server may take a file away between any
two calls, and either knows SIZE or does not. The code after a failed attempt
(`tcp_client.py` 598-615) has no counterpart in the model because it cannot run:
line 597 raises a TypeError itself (see below). To `Winding` all this is one
step, `Uploaded` or `UploadRaises`; to `ImageFiles` an upload that raised is one
whose files never move.

### Telegrams and Framing

`Telegrams` is the one module that works on characters, because its properties
are about them: offsets, padding and truncation. `Layout1001` to `Layout1199`
give the fields in the order `build()` writes them; `Parse...` and `Valid...`
use the offsets of `parse()` and `validate_padding()`, which the source states
apart. A message is a record of the attributes of its dataclass. `IntOf` takes
digits only: blanks and signs, which Python's `int()` takes too, are not written
by `build()` in these fields.

`Framing` is the receive loop, the same in `tcp_client.py`, `tcp_server.py` and
both simulators. `stream` is what was written and not consumed, `arrived` how
much of it is in the reader's buffer. `readexactly(n)` waits until n characters
are there and leaves the buffer alone before. A record of another system may be
in the stream. What it says is skipped four characters at a time; it is
`Harmless` if it is a whole number of words none of which reads as a type code.
The refinement mapping hides the stream: `delivered` is what the handlers make
of the telegrams read, `pending` what the telegrams written and not read are to
say (`Meant`), computed from the message and the rules for its fields and not by
`parse()`. `consumed` and `told` are history variables: how many characters the
receiver has read, and what the telegrams written are to say. An element of
`sent` notes where its characters begin and which telegram it is.

### SPLSimulator, L2TCPServer, EarlierLine

The server of `tcp_server.py` is not started by anything; the SPL simulator is
the client it was written for, so the two are modelled together. `Connections`
is TCP between them. A cut link loses what is under way, and each end notices by
itself, or not at all. In these two modules only the awaits at which something
can intervene that matters are steps; a task that is cancelled has nothing left
to do, so `cancel()` ends it at once. The operator at the menu is slower than
any task: what `disconnect()` awaits is over before the next choice. Menu 5 and
6 end the simulator's program, because they use names it no longer has.

`known` is the connection whose sender and watchdog the server keeps a
reference to, `tasks` are those not cancelled. `owed` is a history variable: the
last material sent, until its winding is stored. `OneOwner` says that no two
connections are mixed up; as long as it holds the server is shown to implement
`ConnectionStatus`, the same abstract machine as the client that replaced it.

Two simplifications of the server are outside what its properties say. A
telegram is read, logged and dispatched in one step, though the packet_log
broadcast (`tcp_server.py` 166) is an await between reading and effect: a
handler parked there while a new client is accepted can still set ALIVE_OK for a
connection that is not its own. That needs two handlers at once, which
`OneOwner` excludes. And accepting a client closes the older one (line 78) and
drops what it had sent, where in the program what is already in the old
`StreamReader` is still dispatched.

### Dashboard

The store has the fields of `DataStore` that a page shows and that something
decides by: three settings and the connection state, the current material, the
coils with their layers, the packet log with its cap. A coil's layers are
represented by the number of the change that set them. A broadcast is taken by
the contract that `Broadcast` checks. Undisturbed, it reaches every browser, in
the order of the broadcasts. A disturbed one (a browser joined or left, or its
task was cancelled) reaches any of them in its turn, and may reach any page late
(`ArrivesLate`): after newer events, after a snapshot that has it already, or
again. `late` is what the disturbed ones said. `astray` is a history variable:
for each page the parts of its screen whose latest event it missed, or of which
it got one late since. An event says all there is to say of its part, so the
next complete broadcast of that part puts it right, as does a snapshot; only a
log needs the snapshot (`Mended`). A page has one request under way at a time;
other operators are `HandlesAnother`. `overruled` is a history variable: the
settings a page shows because of an answer of its own, which no event confirmed
since. The environment may end the backend (`Crash`), which loses its store
while the page lives on.

## 3. What is checked

| Run | Module | Bounds | States | Result |
|---|---|---|---|---|
| `client_safety` | MCSPLClient | 3 connections, limit 2, browsers come and go | 103 624 | `TypeOK`, `StatusMatchesWriter`, `TasksServeTheWriter`, `QuietAfterStop`, `StatusSpec` hold |
| `client_liveness` | SPLClient | 2 connections, limit 2, browsers stay | 14 216 | `ConnectionIsServed`, `OneConnection`, `Reconnects`, `SilenceIsReported`, `HeartbeatGoesOn` hold |
| `client_churn` | SPLClient | 2 connections, browsers come and go | - | `Reconnects` violated |
| `winding` | Winding | 2 sends, 1 bundle, with FTP and without | 499 776 | `TypeOK`, `OneAutoSend`, `SuccessIsComplete`, `IdleIsShown`, `CoilNeverGoesBack`, `SendsEnd`, `MaterialIsAnswered` hold |
| `images` | ImageFiles | 2 sends, 2 batches, 3 statuses, telegrams of up to 2 names | 2 158 467 | `TypeOK`, `JudgementHolds` hold |
| `l2_simulator` | L2Simulator | 3 connections that may overlap | 4 164 | `TypeOK`, `OneSender`, `ClientIsServed`, `HeartbeatGoesOn` hold |
| `broadcast` | MCBroadcast | 3 browsers, 2 changes | 829 787 | `SetIsServed`, `BehindOnlyIfDisturbed`, `InOrder` hold |
| `ftp_upload` | FtpUpload | 3 files | 1 102 | `TypeOK`, `OkWasReceived`, `ReportIsComplete` hold |
| `ftp_retry` | FtpUpload | 2 files | - | `FailureIsRetried` violated |
| `framing` | MCFraming | 8 messages, 3 foreign records, 2 on one connection, in pieces of 9 or 600 characters | 80 826 | `BuiltReadsBack`, `DeliversInOrder`, `EveryTelegramArrives` hold |
| `line` | EarlierLine | 2 connections, 1 material, 1 telegram under way each way, limit 0 | 110 670 | `TypeOK`, `OneOfEach`, `StatusSpec`, `ConnectionComesAlive`, `MaterialComesBack` hold |
| `dashboard` | Dashboard | 1 page, 2 bundles, caps 2/1/2, 3 changes, 1 outage, 2 disturbances | 4 135 234 | `TypeOK`, `ScreenShowsStore`, `LogsAreTheNewest` hold |

Why the bounds are enough. Connections matter to the client as *the current
one*, *the one before, whose tasks are still ending* and *a third, which shows
that the second's tasks are gone by then*; names are reused without end, so the
number of reconnections is not bounded. The limit 2 leaves room for silence
below, at and above it. Two sends meet in every way two can: manual and manual,
manual and automatic, an automatic one replaced or stopped; a third adds a
second bystander. One bundle is the hard case (sends for different bundles
share no record). Two batches and two names
per telegram let a telegram name the same image twice and two images at once;
two sends may be of one batch. Three browsers are needed for one to take the
place of another beside a third that is being told; two changes for an older
event to follow a newer one. Three files have one before and one after the file
that fails. `Framing` has eight messages, at least one of each type, with values
that fit, overflow, fall short or are empty, and three foreign records: harmless,
with a type code at a word, and not a whole number of words. One connection
after another begins with nothing, so two elements in a stream show what one
does to the next. In `EarlierLine` two connections are an old and a new one, and
names are reused; a queue of one telegram is enough for a second to wait. On the
`Dashboard` three telegrams go past each of the three caps (`StoreCap` 2,
`SnapLimit` 1, `ScreenCap` 2). A disturbance is a disturbed broadcast or an
event that comes late: with two, one broadcast is missed and comes late, after a
complete one or a snapshot. Pages do not
affect one another but through the store, and other operators are there without
one: one page is enough. Of the three settings two are changed by requests:
`paused`, which a page does not follow on failure, and `work`, made from what
the page shows.

Fairness and why the code justifies it. Every task step is weakly fair: the
event loop runs what is ready, timers expire, sockets report their end, `drain`
comes back or raises, and the FTP calls have a 15 s timeout. Nothing is assumed
of the operator, the browsers, the arrival of telegrams or connection losses.
Two assumptions are strong. L2 accepts a connection if it is attempted again and
again; without it no client could promise to reconnect. And in `EarlierLine` the
engine and the alive loop write if they can again and again: in the programs a
write never waits, in the model it does while the other end's queue is at
`MaxQueue`.

Deadlock is checked unless what is modelled comes to an end: the simulator and
the earlier server after stop(), an upload with its thread, and an instance of
`Broadcast` with its WebSockets.

### Where the code and its documents disagree

1. **A lost connection is not always replaced** (`client_churn`). PRD 3.3
   promises reconnection after a loss. If a browser joins or leaves while
   CONNECTED or DISCONNECTED is being broadcast, the broadcast's RuntimeError
   goes through `_connect` and `_connect_loop`, neither of which catches it. The
   connect task is dead, and only a restart of the backend brings it back.
2. **No upload is ever retried** (`ftp_retry`). The README promises three
   attempts with reconnection. Line 597, `except (ftplib.all_errors, OSError)`,
   has a tuple inside a tuple, which Python 3 refuses with a TypeError at the
   moment an exception is to be matched. The first STOR or SIZE that fails, or a
   file the server consumed before it was verified, ends the thread: no result
   for any file, the temporary directory left behind, and an error for whoever
   asked for the send, although L2 has the 1101. (Checked on Python 3.11.)

Seen on the way, in models whose properties say what holds all the same:

* An automatic send is cancelled wherever it is parked, also after its 1101 was
  written; L2 has the winding then and its images are never made.
  `SuccessIsComplete` says this can only happen to a send that is not reported
  as a success.
* A browser that joins or leaves in the middle of a broadcast makes its loop
  raise, and the browsers after it are not told. `BehindOnlyIfDisturbed` says
  that there is no other way, apart from a cancelled task, to be left behind. It
  needs its second half, too: a browser that took another's place can be sent an
  event older than its snapshot.
* If the FTP server refuses to enter and to make the directory, the session stays
  where the login put it, and the files are reported as uploaded.
* Silence never leads to a reconnection. PRD 3.3 (`doc/PRD_LV2_SYSTEM.md:235`)
  says three missing alives are a lost connection and lead to a new attempt; the
  watchdog sets ALIVE_TIMEOUT and does nothing else. `SilenceIsReported` is what
  the code does.
* A 1010 that arrives while its images are being uploaded finds none of them and
  is answered not_found; they come into the directory under their old status.
  `JudgementHolds` is about judgements answered as applied.
* A client that connects to the L2 simulator, or to the earlier server, before
  the handler of the earlier connection has ended has its writer and its status
  cleared by that handler's `finally`: it is received from, gets no more alives,
  and the earlier server shows DISCONNECTED. `ClientIsServed` is about clients
  that came alone, `StatusSpec` of `EarlierLine` about steps with one owner.
* If the broadcast of CONNECTED raises in the earlier server, the handler ends
  before its `finally` exists: CONNECTED stays on show for a connection nobody
  reads.
* The SPL simulator reconnects with the alive loop of the earlier connection
  still asleep: two loops send on the new one. Two 1002 that come before the
  engine's task has run are answered once, for the second.
* A foreign record that is not `Harmless` puts the stream out of step: telegrams
  are swallowed or invented until a reconnection.
* A layer count below 0 or above 99 is cut to two characters on its way to L2,
  and recorded as it is for the coil. The layer count that an operator sets is
  not used by the automatic send, which says 25.
* A page follows the answer to its own request, for two of the three settings
  also if the request failed, and an answer that comes after the event of a later
  change overrules it. The page then contradicts the store until the next event
  about that setting or a reconnection. `ScreenShowsStore` says that, apart from
  disturbed broadcasts, this is the only way.
* A browser that joins or leaves during a broadcast can leave a page with an older
  setting than the store's until the next event about it, or with a telegram
  missing, twice or out of order until it reconnects; nothing is raised if one
  browser replaces another. `ScreenShowsStore` and `LogsAreTheNewest` except what
  a disturbed broadcast did, part by part.
* Two sends of one bundle that are under way together may be recorded in another
  order than L2 received them, so the coil can show the older one.
* `setLine` sends the work codes of both lines, one of them as the page shows it,
  so two operators can undo each other's change.
* After a reconnection a page keeps the material and the layers it has if the
  snapshot has none; the grid of a snapshot is of the coil created last, that of
  an event of the coil sent last.

## 4. What is proved

All theorems hold for every value of the constants that meets the named
assumptions (`NoConn` is no connection, the limit is a natural number, ...).

* `SPLClientProofs.TypeCorrect` - `TypeOK` is an invariant. It is inductive as
  it stands; `CancelLemma` types the cancellation operator.
* `StatusCorrect`, `TasksCorrect`, `StopCorrect` - the three safety invariants of
  the client. None is inductive alone. `StatusMatchesWriter` needs to know that
  the connect loop opens a connection only without a writer; that cancelled
  tasks are the right ones needs `alive_task` to be the only live sender, which
  needs the writer not to change in between; that nothing is made after stop()
  needs a pending cancellation of the loop to mean stop() has run. `IInv`
  conjoins the three with `LoopInv`, which says what the loop's position implies
  about the writer. `InitIInv` and `NextIInv` prove it inductive, one step per
  action; `DisconnectLemma` covers the three actions that run `_on_disconnected`.
* `ImplementsStatus` - `Spec => StatusSpec`: the client refines
  `ConnectionStatus` under the identity mapping, step by step on top of `IInv`.
* `ServiceCorrect`, `ConnectionUnique` - with browsers that stay (`~UIChurn`), an
  announced connection is served, and it is the only one. `ServedInv` strengthens
  them by what the loop's position says about the tasks.
* `ImageFilesProofs.TypeCorrect`, `JudgementsLast` - the renaming keeps every
  judgement it reported, for any number of sends, layers and names. The
  inductive invariant adds where images come from (`Provenance`: an image in the
  directory is of an upload that is over) and that one sent once has one name
  (`OneName`); without the first an upload could bring in a stale status, without
  the second a renaming could leave a second file behind.
* `WindingProofs` - `TypeCorrect`, `AutoSendUnique`, `SuccessCorrect`,
  `LampCorrect` and `CoilCorrect`, for any number of sends and bundles, with FTP
  and without. What a send has done follows from where it is (`Progress`:
  written, reported; `Images`: what it left behind). `EarlierIsOver`: no send in
  some `earlier[s]` is on the way to its record any more. `CoilIsKept` draws the
  conclusion for the coil of a send that has recorded; the lamp is what the last
  auto task made it (`LampOfTask`).
* `FtpUploadProofs` - `TypeCorrect`, `OkCorrect`, `ReportCorrect`, for any number
  of files. `OkSoFar` says that the results so far are the files before the
  current one, all ok; `ThreadInv` what the position in the session implies;
  `ServerInv` that on a server that knows SIZE only a file that is not there is
  looked for in the listing, which is why a listed file is never a partial one.
* `LineProofs` - of the L2 simulator `TypeCorrect`, `SenderUnique` and
  `ServiceCorrect`, for any number of connections. `AloneInv`: while the client
  in `alone` is handled no other handler is there to clear the shared state.
* `LineProofs.StreamImplementsChannel` - `StreamSpec => DeliversInOrder`: the
  receive loop of `Framing` implements `TelegramChannel`, for any telegrams and
  foreign records, any number of them on a connection, pieces of any size and any
  number of connections. To the provers a string is an atom, so the theorem
  states what it takes from the character layer (`CharacterLayer`): strings are
  sequences of characters (the empty string is the empty sequence), a type code
  has four, what is sent has a code of the table, and what `build()` makes is
  understood by `parse()` as it is meant. The last is a claim about
  `protocol.py`; the `framing` run checks it for messages of every type. The
  invariant, `StreamInv`, lays the entries of `sent` one after the other
  (`Positions`), finds in the stream what is left of them (`Contents`), and says
  where the receiver stands as long as it is in step (`Reading`): at the beginning
  of an entry, behind the code of a telegram, or a whole number of words into a
  harmless record, with all the telegrams before it delivered. From there a code
  read is the telegram's own, its rest is the rest of the same telegram
  (`PrefixLemma`, `WholeLemma`), and no word of a harmless record is taken for
  a code (`ReadCodeLemma`); any other record breaks the channel the moment its
  first word is read.
* `EarlierLineProofs` - `TypeCorrect`, `OneCorrect` and `ImplementsStatus`, for
  any connections, materials, limits and queue lengths. `NetInv` types the queues,
  `SimInv` ties the receive loop to `connected`, `SrvInv` the tasks to the
  reference the server keeps. The refinement is step by step, for the steps that
  begin and end with one owner.
* `BroadcastProofs` - `TypeCorrect`, `SetCorrect`, `DisturbanceCorrect` and
  `OrderCorrect`, for any number of browsers, places in the table and changes,
  and wherever the table puts a browser that joins. `SetInv` is the set: each
  browser once, every open one, and whom a broadcast is about to discard is not
  open. The other half is about the broadcasts under way that nothing has
  disturbed. They iterate over one table, and each is parked in the line of the
  browser at its position (`Parked`). In a line a task stands once (`Once`) and
  undisturbed ones stand in their order (`Ordered`); between the lines no later
  one is at a higher position than an earlier one (`OrderInv`). So none
  overtakes: to do so it would have to pass the other in a line. `ViewInv` draws
  the conclusion: as long as the latest change is not disturbed, every open
  browser has it, will be told by a broadcast that has the browser's place ahead
  of it, or was told last by a disturbed one. A step of a broadcast takes it out
  of its line, and what holds then is `InHand`, the invariant without that
  broadcast's own place; `LoopStep`, `EndsStep`, `RaisesStep` and `SendsStep`
  put it back, and every action that runs the loop uses them. `OrderCorrect`
  adds `GapInv`: a browser that an undisturbed broadcast has ahead of it had the
  change before, or will be told it first, by a broadcast that also has it
  ahead. A browser is then sent each change after the one before it, without a
  gap. The condition names three broadcasts, and all three matter: without the
  one on the change before, TLC finds a browser that a disturbed broadcast has
  yet to reach when the next one does.
* `DashboardProofs` - `TypeCorrect`, `ScreenCorrect` and `LogsCorrect`, for any
  number of pages, bundles and changes, any caps above 0 with the page's not
  below the snapshot's, and any number of disturbed broadcasts and late events.
  A page is in step with a part (`InStep`) while that is not `astray`. Each part of a screen is followed through the queue of
  its page: of the messages about it that are still to be handled the last one
  carries what the store has now (`LastIn`), and if there is none the page shows
  it (`SettingFollowed`, `MaterialFollowed`, `GridFollowed`). The log needs
  more, for a page puts telegrams on top of what it has: those in a queue have
  consecutive numbers (`Consecutive`), the first of them continues what the page
  shows (`Continues`), and a snapshot, whose log is the newest without a gap
  (`SnapshotContiguous`), comes before all else (`SnapshotFirst`). `Move` sums up
  the actions by what they do to the store, the queues and the screens (`Sent` a
  broadcast, `Strayed` an event that comes late); each part has one lemma over it (`SettingKept`, `MaterialKept`, `GridKept`,
  `LogKept`).

The invariants of `BroadcastProofs` and of the stream were checked with TLC on the
instances of their runs before they were proved.

Only model-checked, and why:

* everything temporal under fairness (reconnection, silence, heartbeats, the end
  of sends, the arrival of telegrams): this prover does not treat liveness;
* `BuiltReadsBack` of `Framing`: it is about what is in the strings, which the
  provers take for atoms, about numbers written as digits (`ToString`), of which
  they know nothing, and about fields joined by recursion, which needs induction
  over data;
* the two properties that are violated, which are about what the documents say.

One thing the proofs do not connect: `Dashboard` takes a broadcast by its
contract, and that `Broadcast` keeps the contract is `InOrder` with
`BehindOnlyIfDisturbed`, each proved, but not a refinement between the two
modules. `TypeOK` of `Broadcast` is proved only.

## 5. What is not modelled, and what comes next

Not modelled: the earlier PyQt client, a manual tool that the SPL simulator
replaces; the rendering of the front end, its charts and the fields it only
copies; the command line and the web server; the data store's queries with their
filters. The alive counters and times are data that nothing decides by. Left out
of `Winding` are the cancellation of the auto task by the client's stop(), with
which the program ends, and the layer configuration, which selects what is sent.

The order of work, most important first:

1. done - `ConnectionStatus`, `SPLClient` and its proofs: the connection is what
   everything else rests on.
2. done - `Winding`, `ImageFiles`, `L2Simulator` with their proofs.
3. done - `Broadcast`, `FtpUpload`, the latter with its proofs.
4. done - `Telegrams`, `Framing` and the proof of the channel it implements.
5. done - `SPLSimulator` and `L2TCPServer` on one line, with their proofs.
6. done - `Dashboard`.
7. done - the proofs of `Broadcast` and of `Dashboard`.
8. next - `SPLClient` composed with `L2Simulator` over `Connections`, to show
   when the pair heals after a half-open connection and when it does not.

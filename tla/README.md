# EpicAI: specification and verification

EpicAI simulates an OpenAI-compatible endpoint. A client's chat or responses
request becomes a *session*: a stream that echoes the client's text for ever,
until the client leaves, an administrator ends it, a fault is injected or a
limit is reached. Administrators watch live sessions, pause them, take them
over and type into them, and inject faults; they also keep the keys, models,
files and settings that requests depend on. Coding agents use it too: every
answer to them is a round of tool calls that makes them ask again. This
directory models the parts of `src/backend` where that goes on concurrently,
model-checks them on small instances with TLC and proves theorems about all of
them with TLAPS.

All source paths below are relative to `src/backend/internal` unless they start
with `src/`. `任务书.txt` is the task book in `src/`.

## 1. Inventory

| Component | State it keeps | Operations | Hard behaviour | What makes it correct |
|---|---|---|---|---|
| Admission (`sessions/session.go` Manager, `api/runner.go` admit, `api/chat.go`, `api/responses.go`) | `live`, `perIP`, `perKey` under one mutex | Admit, Register, Unregister; the overload queue that polls Admit for 60 s | count and registration are two critical sections, the settings are read outside the lock, clients leave in between | counters equal the slots held; limits hold; queued requests are answered |
| Session (`sessions/session.go` Session) | state, mode, reason, pending fault, pause flag, `cmdCh`, `manualCh`, `done` | direct changes, Send, SendManual, InjectFault, Close, Persist | each setter locks on its own; Send drops the oldest; Close races setters; snapshots are stored later | no accepted message is lost; the stored row tells how the session ended |
| Runner (`api/runner.go`) | place in the loop, units emitted | echo loop, pace, manual phase, commands, limits, keep-alive | five selects with different branches; waits in the limiter | terminates; ends the stream once; agrees with the displayed state |
| Stream writer (`engine/stream/stream.go`) | `closed`, the connection | emit, Finish, Done, Error, Fail, Disconnect, comments | closed check outside the mutex; several goroutines end the stream | one ending, nothing after it |
| Rate limiter (`ratelimit/ratelimit.go`) | a bucket per session, the global bucket, paused flags | Wait, take, configure, SetPaused, Attach | a failed take changes the bucket; reconfiguration; check-then-take | never more than burst + rate * time; a pause holds; nobody starves |
| Admin API (`api/admin/sessions.go`) | - | session control, delete, list | concurrent admins; acts on the session and through `cmdCh` | as for the session |
| Store (`storage/sqlite/sqlite.go`) | rows | CRUD | updates of deleted rows, stale snapshots | row final when the session is over |
| Runtime settings (`config/config.go`) | one struct under a lock | Runtime, Update | copies outlive updates | - |
| Event bus (`events/bus.go`), admin WebSocket (`api/admin/ws.go`) | subscribers with 512-slot channels, recent ring, throttle map | Subscribe, Publish, Unsubscribe | drops to slow subscribers, throttles chunk events; the feed's snapshot against sessions that come and go | the page shows what is open; order per publisher; no send on a closed channel; the engine never waits |
| Audit log (`audit/audit.go`) | a batch under a lock | Log, Flush, Close | four kinds of flushers; closed before the server stops | every entry stored once |
| API keys (`auth/auth.go`, `api/admin/keys.go`) | key cache, rows | Check, Invalidate, CRUD | the cache is never invalidated; an edit writes a whole row back | a disabled key is refused; edits are kept |
| Models (`api/admin/models.go`, `api/models.go`) | rows | create, patch, clone, delete, resolve | read, patch a copy, write it back under the copy's id | deleted models stay deleted |
| Assets and files (`assets/`, `api/files.go`, `api/assets.go`) | files on disk, rows, a byte total | upload, download, preview, delete | disk and row are separate steps, each may fail | no row without content, no partial download |
| Admin login and settings (`auth/auth.go`, `api/admin/admin.go`) | tokens, the password in memory and in a row | Login, Logout, SetPassword, Update | two copies of the password | a restart keeps the password |
| Process (`cmd/epicai/main.go`) | - | start, SIGTERM, crash | handlers go on while it shuts down | only a stop leaves work unfinished |
| Agent echo (`api/runner.go`, `engine/echo/echo.go`, `tokenizer/`) | `agentCycleClock` | rounds of tool calls, subagents' requests | subagents ask the same model; a text quoted by hand; a clock without lock | subagents do not nest and finish; rounds fit and are spaced |
| Fault rules, canonical request, adapters | none | pure functions | boundaries, event order | - |
| Health, benchmark, logging, web console | little or none | reads, output | - | - |

How they interact: an HTTP handler admits the request, creates the session
(`Manager.Create` attaches a bucket and stores the row) and runs the runner in
its own goroutine. The runner calls the limiter before each unit and the writer
for each frame. Admin handlers run in other goroutines: they set fields of the
session directly *and* queue a command in `cmdCh`, which the runner takes in
its selects and applies again. Manual text travels through `manualCh`. Faults
injected with a delay come from a goroutine of their own. Keep-alive comments
come from another one. Everything publishes to the bus; nothing waits for it.

`PROJECT.json` lists every component with its status, and under `hazards` the
places where this can go wrong.

## 2. Modules

| Module | Contents |
|---|---|
| `SlotPool` | abstract promise of admission: a set of slot holders, one atomic acquire or release at a time |
| `Admission` | Manager and the handlers' admit / register / unregister protocol; implements `SlotPool` |
| `AdmissionProofs` | TLAPS theorems about `Admission` |
| `MCAdmission` | instances for TLC |
| `SessionOps` | operations of a session and of the writer, as programs: sequences of atomic steps |
| `StreamRunner` | one session: runner, administrators, injectors, keep-alive, client, writer, stored row |
| `RunnerPrograms` | lemmas about programs: their steps, their order, what is left of them |
| `RunnerProofs` | TLAPS theorems about `StreamRunner` |
| `RateLimiter` | buckets and `SessionBucket.Wait` |
| `RateLimiterProofs` | TLAPS theorems about `RateLimiter` |
| `MCRateLimiter` | instances for TLC |
| `EventFeed` | the bus, sessions and administrators' handlers that publish, WebSocket feeds |
| `FeedProofs` | TLAPS theorems about `EventFeed` |
| `KeyCache`, `ModelTable`, `AssetStore`, `AuditLog` | state and handler steps of one part of the server each, with its properties |
| `Server` | composes those four: programs of handlers, settings, admin accounts, session rows, and the life of the process |
| `ServerProofs` | TLAPS theorems about `Server` and about `AuditLog` on its own |
| `MCServer` | instances for TLC |
| `EchoText` | operators on texts: tokens, blocks, the tool call's JSON, the subagent's payload |
| `AgentLoop` | conversations and subagents that use an agent model, and the shared clock |
| `TextProofs` | lemmas about texts of any length, by induction |
| `AgentProofs` | TLAPS theorems about `AgentLoop` |
| `MCAgentLoop` | instances for TLC |

### Admission

`pc[r]` is where request `r`'s handler goroutine is; `snap[r]` is the copy of
the settings made by the current `Admit` call before it takes the lock, so
`Reconfigure` can come between. `Admit` is the critical section that tests and
counts; `Register` is `Manager.Create`'s last call; `Unregister` is the
deferred one. `ImmediateError` is the path on which `chat.go:113` calls
`Unregister("")`. Authentication, decoding and the model lookup happen before
`Arrive` and change nothing here. An empty address or key is never limited.

`Pool == INSTANCE SlotPool WITH holders <- Counted` maps a state to the set of
requests that have been admitted and not unregistered.

### StreamRunner

The runner's position `pc` names the select or blocking call it is in:

| `pc` | code (`api/runner.go`) |
|---|---|
| `top` | non-blocking poll of commands at the head of the loop, 871 |
| `look`, `paused` | the state test and the select of a paused session, 890-905 |
| `wait`, `write` | `Bucket().Wait` and `emit`, 911-922 |
| `account` | max_tokens, scheduled fault, event limit, 932-984; of these the maximum echo has only the first, 810-819 |
| `pace_capped`, `pace_spin`, `pace_tick` | the three ways to wait for the next unit, 988-1041 |
| `check`, `manual_check`, `manual`, `manual_only` | the state test after a command, `runManualPhase`, `runManualOnly` |
| `piece`, `piece_wait`, `piece_write` | `deliverManual`, one `EmitText` per piece |
| `hang` | the wait for the client of `hang_forever`, 409-413 |
| `cycle`, `call`, `part` | an agent cycle: the gap to the last one, the tool calls, the text in parts (through `wait` and `write`), 567-663; a subagent's tool call, 705-722 |
| `exit`, `deferred`, `stopped` | the deferred function of `Run` |

`ses.behavior` is what `Run` dispatches on. `Start` is the straight-line part a
behaviour begins with (for a static response, a dropped connection and the report
of a subagent that is all there is); `FirstPlace` is where it goes on. `agent`,
`subagent_report` and `subagent_shell` are what a model with `EnableAgent` does
for a request with tools, told apart by the request's text. The finite echo has
no caller (`runEcho` is only called with `finite` false) and is left out.

Everything that is a sequence of separate critical sections is a program of
`SessionOps`: `Pause` is two lock acquisitions (bucket, then state), `Close` is
six steps, `Finish` of the writer is two frames and the closed flag. Every
actor executes one step at a time; actors interleave. A frame step carries how
many of the following steps of the same function are left out when it fails.
`closeOnce.Do` makes a second caller wait for the first.

Choices that stand for something outside: Go's `select` takes any ready branch;
a write to a client that has gone may succeed or fail; the limiter's wait ends
at any time unless the session is paused (its arithmetic is in `RateLimiter`);
settings read over time (`OnMaxEvents`, `EventLimits`, `EchoRateCaps`) may
differ at each read, as administrators may have stored others.

`ses.api` is the API that the client streams through: the writer of the Responses
API has an empty done frame and no tool calls, and `Emit` leaves both out there
(`HasNo`), so a normal end is `final` and `done` for a chat and `final` alone
otherwise. `ses.textless` is a request without text (images only): an infinite
echo then has nothing to write, skips the bucket and the connection and goes
on to `account` (`SkipEmptyUnit`, `api/runner.go:910`). `MAX` and agent echoes repeat
"hello" instead.

`wire` is what the client received, abstracted to the endings in order, frames
after an ending, and the manual pieces. `row` is the database row.

### RateLimiter

Time is a number of ticks; a bucket records the ticks since its last refill.
`take` is `Available` / `Enough` / `Taken`. `Wait` is `CheckPaused`, then
`TakeSession`, then `TakeGlobal`, with a timer after each failed take, rounded up
to the tick after which it has fired. `credit` and `late` are monitors that the
actions never read: an ideal bucket with the largest rate and burst of all
configurations, from which every limited take also draws, and the number of
units granted since a pause.

### EventFeed

`at[p]` is what a goroutine does next. A session's own goroutine registers, runs
(chunks, changes of state) and then closes and unregisters, or the other way
round. An administrator's handler takes a request, `close` (a deletion), `set` (pause,
resume, take over, return, finish, inject) or `tell` (a change without a new state),
looks up one session or all of the table (`LookUp`) and does it to each of them in
turn, whatever has become of them meanwhile. `Register` and `Close` are in steps: the
table before the publication; closeOnce, the state, then the publication.
`once[s]` is closeOnce, so a second closer waits for the first. `SetState` does not
ask whether the session is closed and takes it out of `ended` again. The history
`crossed` notes the sessions closed before their creation was published, and those
whose state was set after the closing had begun. `pub[p]` is where a
goroutine is inside `Publish`: `throttle` (the first lock), `send` (before the
read lock), `fan` with the subscribers still to be served. The read lock is
held while any publisher is in `fan` (`Unlocked`). `feed[f]` is where a
`handleWS` is: `off`, `joined` (subscribed, table not read), `snapshot` (some
sessions' states still to be read), `loop`, `leaving`, `closed`. `known[f]` is
what the page believes to be open after all that was written to it. `PingPanics`
is the ping goroutine in the middle of another write (`api/admin/ws.go:53`):
gorilla panics when it notices and nobody recovers, which ends the process.

### Server

`prog[a]` is the rest of the goroutine `a`'s program: a sequence of steps, each
one critical section, one statement or one file operation. Two of the actors
are not handlers: `loop` is the flush loop of the audit log, `main` the main
goroutine. `AdminPrograms` and `ClientPrograms` name what can be asked;
`AdminAsks` and `ClientAsks` are `guard` and the API's routes. A step that
answers with an error drops the rest (`Refuse`). The four smaller modules hold
the effect of each step, `Server` its place in a program:

| Module | Code | Steps |
|---|---|---|
| `KeyCache` | `auth.go` `Check`, `api/admin/keys.go` | `Lookup`, `Query`, `Fill`; `ListKeys`, `UpdateKey`, `DeleteKey` |
| `ModelTable` | `api/admin/models.go`, `resolveModel`, `seedDefaults` | `GetModel`, `CreateModel`, `CloneModel`, `UpdateModel`, `DeleteModel`, `Resolve`, `SeedModels` |
| `AssetStore` | `assets.Put`, `api/files.go`, `api/assets.go` | `Create`, `WriteAll` or `WriteTooLarge`, `CreateRow`; `Find`, `Open`, `Preview`; `Remove`, `DeleteRow` |
| `AuditLog` | `audit.go` | `Log`, `TakeBatch`, `AppendAudit`; `Forget` at the end of a process |

`phase` follows `main`: `up`; `closing` after SIGTERM while the log is flushed;
`shutdown` while `srv.Shutdown` waits for handlers, at most 10 seconds; `down`.
`Exit` may come while handlers still run (the 10 seconds are over), `Crash` any
time. Both lose what is in memory and keep rows and files. `Start` reads the
saved password, seeds the default model and takes the default settings.

### AgentLoop

An agent is a path: a conversation `<<c>>` or the subagent started for call `i`
of another agent. Its `phase` is `asks` (the request is with the server),
`waits` (for the cycle clock), `acts` (running the calls of the answer) or
`done`. `AnswerAtOnce` is `handleChatNonStream`; `LoadClock` and `Round` are
`runAgentEcho` before and after its wait; `ShellEcho` and `Report` are
`runSubagentEcho` without and with a tool result in the request. The client's
actions are external: it runs the calls of an answer in any order, starts a
subagent with the prompt it decodes from a spawning call, and asks again when
all calls have returned. `EchoText` holds what happens to the text: `Count` is
`tokenizer.Count` over classes of characters, `Prompt` and `Decode` the way of a
block through hand-made JSON, `ExtractEchoPayload` the way back.

## 3. Runs

| Run | Spec | Instance | What it shows |
|---|---|---|---|
| `Admission` | `FairSpec` | 3 requests, 2 sharing an address and 2 a key whose record allows 1; three settings with all overload kinds and different global limits; 2 queue polls | `CountersExact`, `IPLimit`, `KeyLimitHolds`, `ImplementsPool`, `QueueResolves`, `GoneFinishes` |
| `AdmissionBalance` | `Spec` | limit 1 per address | **violated** `CountersBalanced` |
| `RunnerEndings` | `Spec` | 1 administrator, 2 requests, 1 delayed fault; all behaviours but `manual_only`, both APIs: 4 fault modes at once or after 2 units, finish, drop, delete, take-over, messages of 2 pieces, max_tokens of 3 units, event limit 0 or 2 with each action, client leaving; channels of 1 | `OneEnding`, `RowTellsHow`, `PiecesInOrder` |
| `RunnerManual` | `Spec` | 2 administrators, 3 requests of take-over, return, message, finish and interval 0; an echo and a `manual_only` model, keep-alive; channels of 2 | `ManualExact`, `EndingIsLast`, `PhaseAgrees` |
| `RunnerLive` | `FairSpec` | 1 administrator, 2 requests including pause, finish and delete; infinite echo, hang and agent, with text and without, with an echo interval that a request may set to 0 | `GoneStops`, `EndCommandEnds`, `DeleteStops` |
| `RateBurst` | `Spec` | 2 sessions, units of 1 or 2 tokens, 2 session and 3 global configurations, 1 change | `BurstBound`, `PauseHolds` |
| `RateStarved` | `FairSpec` | 2 peers, units as large as the burst | **violated** `Served` |
| `Feed` | `FairSpec` | 1 session that publishes 2 messages of its life, 1 administrator whose last request is taken within 2 messages, 1 feed, channels of 2 | `FeedKnowsOpen`, `FeedForgetsEnded`, `InOrder`, `NoSendOnClosed`, `NeverBlocksEngine` |
| `Server` | `Spec` | 2 administrators, 1 client, 3 requests (2 in the area of models), 1 stop, batches of 2, 2 entries, 2 files, 2 models, 2 passwords | `AuditOnce`, `EditsKept`, `AcceptedOfThisLife`, `DeletedStays`, `RowsWhole`, `DownloadWhole`, `PasswordKept`, `OnlyStopsOrphan` |
| `ServerKeyFresh` | `Spec` | the area of keys | **violated** `KeyFresh` |
| `Agents` | `FairSpec` | 42 setups of texts, tools, budgets, conversations and rounds | `NeverNest`, `EchoedBack`, `BlocksWithin`, `RoundsSpaced`, `SubagentsFinish` |
| `AgentsBudget` | `Spec` | texts of one token, 1 or 2 subagents, budgets of 30 and 60 | **violated** `CycleFits` |

Each module's `TypeOK` is checked along, except `AgentLoop`'s, which has none.
The violated runs are listed as findings, each with the line it contradicts.
`RateStarved` is a lasso under a fair specification. `AgentsBudget` divides max_tokens
among the text and the calls (`api/runner.go:510`) and fills the shares with the block:
the comment above (497 to 501) promises that the whole cycle fits, arguments included,
but the prompt's words and the JSON around the block are counted by nobody.
`CycleFits` asks it only where the round with the user's text once would fit.
`BlocksWithin`, which holds, is what the division does achieve: the copies of the
block, by themselves, are within max_tokens.

What some properties mean:

- `RowTellsHow`: once the runner has stopped and the row exists, the row has an end time,
  the state of an end, and a reason that is true of `wire`: a normal reason goes with
  the whole normal end of the session's API (`NormalEnd`), a fault or a limit with
  another end, the client's leaving with a client that left.
- `PhaseAgrees` speaks of the echo loop, agent cycles included, and of its manual
  phase. A `manual_only` model waits for messages whatever the state says:
  `runManualOnly` (`api/runner.go:448`) goes on waiting after a return has set ECHOING,
  so those sessions are not part of it.
- `FeedKnowsOpen` speaks of the sessions of the table whose `Close` nobody has begun,
  `FeedForgetsEnded` of those that somebody has closed, be it their goroutine or an
  administrator.

**Bounds.** `Requests`, `MaxPolls` of admission: one request beside each that it can
exclude, by address or by key; polling twice distinguishes the first poll from
later ones. `Calls` and `Parts`: one tool call and one part of the text each, so a
cycle has every kind of step; more repeat them. `TokenBudgets`: in `RunnerEndings` 3
units, so that the fault and the event limit at 2 come first or the budget does; no
max_tokens (0) in the other two runs of the runner. `MaxRequests`: two concurrent
requests give every pair of interleaved handlers, three are needed for a take-over,
a return and a text.
`CmdCap`, `ManualCap` stand for the 64 of the code: capacity 1 makes "full" and
the drop-oldest path of `Send` happen with two requests. `Injectors` bounds the
delayed-fault goroutines alive at once. `UnitCap`: unit counts above every
threshold are not told apart. `LateCap`: two late frames are as bad as three.
`Apis` and `Textless`: both values where the properties tell them apart (`RunnerEndings`
and `RunnerLive`). `AgeCap`: when a bucket's capacity is at most 2, two ticks fill it at any
positive rate, so older buckets do not differ. `Reconfigurations` bounds changes
of the limiter. `Feed`: a channel of 2 is full after two messages and
receives a third, a fourth after the feed has read; one feed suffices as feeds do
not touch each other except through the read lock, which publishers also hold
for one. `MaxNews` bounds the chunks and changes of the session's goroutine, its
creation counted, `MaxRequests` the messages after which a handler takes no more
requests: it can delete a session that it then sets, and the other way round.
The run has 352,356 states. `Server`: `Areas` makes a behaviour's requests concern one of keys,
models, files or the account, as parts of different areas share only the audit
log and the phases, and both are in every area; three requests are two
administrators and a client, or one who comes back; two entries fill a batch.
`SYMMETRY` permutes administrators and files (no liveness is checked there).
`Agents`: a block of 6 tokens is repeated or cut by budgets of 5 and 7, where the shares
are smaller than the words of a call; `AgentsBudget` has budgets that leave room for them. An
interval of 2 within 5 ticks gives rounds that wait and rounds that need not;
`MaxDepth` 3 lets a subagent start another one, were it to. `MCAgentLoop` pairs
every text with one round, and one text with every client and several rounds.
CHECK_DEADLOCK is FALSE for the runner, the feed, the server and the agents,
which come to an end within their bounds; the other modules are checked for
deadlock.

**Fairness.** Weak fairness of handlers and of the runner: goroutines are
scheduled. Strong fairness for `SeeClientGone` and `SeeDone`: these are
branches of selects that the loop comes back to again and again, and `select`
chooses among ready branches at random. Strong fairness for `WriteEchoFails`:
writes to a closed connection fail in the end. `Unregister` in `Admission` is
fair only once the client has gone, since sessions are endless by design.
`Tick` is fair in the limiter, and nothing is assumed about which session's timer
fires first. In `EventFeed` publishers are scheduled (weak fairness), and one that
waits for the bus's write lock gets it in the end (strong fairness of
`Throttle`: Go's `RWMutex` stops new readers once a writer waits); feeds get none, that is
the point of `NeverBlocksEngine`. In `AgentLoop` only subagents' requests and the
client's work on them are fair, nothing about conversations or time.

**What the properties leave out, and what was met.** The following are behaviours
of the code that the models show, or that were met while writing them, and that
a passing property therefore exempts:

- The global limit is exceeded by requests between `Admit` and `Register`
  (`sessions/session.go:180`), although `src/任务书.txt:2329` bounds the active ones.
- `EndCommandEnds` and `DeleteStops` exempt a paused session: the bucket wait
  (`ratelimit/ratelimit.go:150`) listens to the client only, so a fault injected
  into a paused session waits too, against `sessions/session.go:641`. `DeleteStops`
  exempts a session without echo interval, whose loop (`api/runner.go:986`) never
  looks at `done`. Both exempt `hang_forever`, which waits for its client by design.
  With more commands than `cmdCh` holds, `Send` drops the oldest, which may be
  the finish; `RunnerLive` keeps within the capacity.
- `GoneStops` exempts an infinite echo of a request without text and without interval.
  Such a unit is neither waited for nor written (`api/runner.go:910`), and the select
  behind it (1007 to 1019) has no branch for the client: without another limit the
  loop spins after its client has left until a command ends it.
- A change of state after `Close` (`sessions/session.go:469`) leaves a row whose state is
  not an end: `RowTellsHow` asks for one only where the session itself has one.
  It also exempts rows that were deleted, which later updates do not match.
- A page may show a closed session for ever (`crossed`): one that an administrator deletes
  between the table and the publication of `Register` (`sessions/session.go:210` to 213),
  as its closing is published before its creation, and one whose state is set after
  its closing was published, as a snapshot (`api/admin/ws.go:83`) takes it for open.
- The ping of a feed may end the process (`PingPanics`).
- `EditsKept` exempts an edit that was made on a copy already changed by another
  (`api/admin/keys.go:79` to 126): it undoes the other's.
- Changing a model's id makes `UpdateModel` write the row of the new id, or fail
  when there is none: a model is never renamed, although `src/任务书.txt:114` asks
  for it.
- `AuditOnce` counts entries lost with a process: those logged after
  `auditLog.Close()` (`main.go:97`) are, in an orderly shutdown too.
- `PasswordKept` exempts overlapping changes and a database error: the handler
  ignores it (`api/admin/admin.go:182`).
- Runtime settings are not stored: after a restart the key mode is the default.
- `NeverNest` and `SubagentsFinish` are about clients that stream.
  `handleChatNonStream` (`api/chat.go:177`) never asks `IsSubagentEchoRequest`, so
  subagents of a client that does not stream start subagents without end, which the
  comment at `api/runner.go:480` says is prevented.
- `EchoedBack` exempts texts with a backslash or a tab: `BuildAgentEchoCall` does not
  escape them (`engine/echo/echo.go:162`), and the arguments are malformed JSON or
  say something else.
- The writer of the Responses API has no tool calls: `EmitToolCall` drops them there
  (`engine/stream/stream.go:168`), so agents need the chat API.

## 4. Proofs

`tlapm` on the six `*Proofs.tla` modules of components and on the two modules of
lemmas, `RunnerPrograms.tla` and `TextProofs.tla`, checks everything.

`AdmissionProofs` - for any sets of requests, addresses, keys and settings that
satisfy the module's assumptions and `IsFiniteSet` of what is counted (proved, as
the invariant includes it: each step adds at most one request):

- `TypeCorrect`, `CountersCorrect`, `IPLimitCorrect`, `KeyLimitCorrect`,
  `AdmissionImplementsPool`.
- The inductive invariant is `SlotInv`: types, the table contains exactly the
  serving requests, the counted set is finite, counters exact, and the bounds
  stated over *counted* requests instead of registered ones. The limits alone
  are not inductive: `live` grows in `Register`, long after the test in `Admit`,
  and only the reservation in the counters explains why it may.
- `CountedStep` says what any step does to the counted set: nothing, one
  request more with its limits tested, or one less. Every other proof uses it.

`RateLimiterProofs`:

- `BurstBounded`: if every configuration with a positive rate has a positive
  capacity (`NoneOff`; burst "Off" is capacity 0, for which `take` caps nothing),
  `BurstBound` holds for any rates, sizes and reconfigurations. The invariant
  `Ahead` says the ideal bucket holds at least the *potential* of the real one:
  what it would hold if its elapsed ticks were credited at the largest rate. That
  is what survives a reconfiguration, because ticks are credited late, at
  whatever rate is then configured.
- `PauseCorrect`: `PauseHolds`, with the invariant that a unit granted after a
  pause belongs to a `Wait` that had passed its check.
- `TypeCorrect`: `TypeOK` of the limiter, from lemmas on the types of `Available`
  and `Taken`.

`FeedProofs` - for any sessions, handlers, feeds and capacity:

- `TypeCorrect` and `NeverSendsOnClosed`. The invariant of the second says that a
  publisher in `fan` has only subscribers left to serve, and that a closed feed is
  no subscriber: `Subscribe` and `Unsubscribe` cannot come while somebody is in `fan`.
- `DeliversInOrder`: messages in a channel and what was seen carry numbers at most
  the number their publisher has reached, and strictly less for a message that the
  publisher has still to put into this channel. Without that the order inside the
  channel is not inductive.
- `KnowsOpen` and `ForgetsEnded`: `FeedKnowsOpen` and `FeedForgetsEnded`. The
  invariant `Reported` says for every session and feed where the news is: that
  everybody acts on his own part (`Placed`), that closeOnce and the place of whoever
  closes agree, and that a session has been announced when it is closed unless
  it is `crossed` (`Closes`), that a feed is subscribed from its first step
  (`Attended`), that creations come from the session itself, closings after its `Close`
  has begun, and none of its creations behind a closing in a channel (`OwnNews`),
  that an open session which is not shown has yet to be read or its creation is ahead
  (`Shown`), and that a closed one which is shown, or whose creation is on its way, has
  its closing ahead (`Unshown`). The two properties speak of feeds in their loop only,
  and are not inductive without the steps before.

`RunnerProofs` - for any administrators, injectors, behaviours, limits, intervals,
capacities and number of requests. Nearly everything an actor does here is data (the
rest of a program), so `RunnerPrograms` first describes programs as sequences:
which steps occur in them, in which order, what they may still write, what they
leave the loop to see, and that taking steps off, or leaving out those behind a
failed frame, keeps the form.

- `ShapeKept`: `Shape`, the form of every actor's program at every place of the
  runner, and of the closing that a deferred function or a handler is in. It is
  the ground of the others, as `Handled` is for the server.
- `EndingsKnown` and `NothingAfterEnding`: `OneEnding` and `EndingIsLast`, from
  `StreamTold`: the word that the rest of the runner's program writes, one of
  twelve, agrees with what has been written. Nobody else writes frames, comments
  apart, which is part of `Shape`.
- `RowTrue`: `RowTellsHow` of both APIs, from `RowsEnded` (an ended session stays ended, and what is
  about to be stored is the row of one) and `ReasonsTrue` (a reason in the session,
  in a snapshot or still in the program goes with what has been written and what the
  runner has yet to write).
- `PiecesOrdered` and `ManualWhole`: `PiecesInOrder` and `ManualExact`, from `Manual`:
  the numbers written, the one in hand and those queued ascend (`ManualOrder`), and
  without pieces and with the client there they are consecutive (`ManualCount`).
- `TypeCorrect`: `TypeOK` with the capacities of the queues and the bounds of the counters,
  from `Bounds`. Its hypothesis `Capped` says that token budgets and event limits do not
  exceed some number, as machine words do not: the count of units stops at the largest
  threshold it is compared with, and without a largest one it has no bound.
- `PhasesAgree`: `PhaseAgrees`, from `Calm` and `Informed`. `Calm` says that every change
  of the state in a program has a command, a spawn or the end of the session behind it
  in the same program, and that the runner's own changes leave the loop or agree with
  where it is; `Informed` that a loop which disagrees with the state has a command in
  its queue, such a program, or a closed session (`Coming`). A command that gives way
  in a full queue breaks nothing, as what fills the queue makes the loop look as well.
  It covers agent cycles and leaves `manual_only` sessions out, as the property does.
  Its hypothesis `NoPause` is what `RunnerManual` has too: with a pause the property
  is false (section 5).

`ServerProofs` - for any administrators, clients, sessions, models, files and passwords, under
`ServerAssumption`, of which the proofs use that the four areas are all there are, that
the flush loop and main are no handlers, and that the parts have the same users; the
types also need that there is a limit for keys and a text for models
(`KeyAssumption`, `ModelAssumption`):

- `EntriesOnce`: `AuditOnce` of the specification `AuditSpec` that `AuditLog` has on
  its own. `Accounted` says that the entries logged are divided among the batch,
  each flusher's hands, the table, and those refused or gone: no two have one in
  common and none has one twice. The number of places of an entry is one only as a
  consequence; as it stands it says nothing of two flushers.
- `ServerAudits`: `Spec => AuditSpec`. Each step of a handler, the loop, main or a
  stop is a step of the log or leaves it alone. So the log's theorem holds in the
  server (`ServerAuditsOnce`), without an invariant of the server.
- `Handled` is the invariant under the rest: what a handler still has to do is a
  program (`Shaped`): a sequence of known steps in which `write` comes only after
  `create`, `create_row` only after `write`, and `end` right after `begin`.
  `HandledStep` shows that requests, steps that put work in front of the rest (the
  query of a cache miss, the flush of a full batch), refusals and stops all keep it.
  The program counter of this model is data, so without `Handled` nothing is known
  of a handler between two of its steps.
- `DeletionsLast`: `DeletedStays`, with the domain of the table. A late
  `UpdateModel` is harmless because the statement matches no row.
- `SessionsAttended`: `OnlyStopsOrphan`, from `Attended`: the handler of a running
  row has `end` next. It needs that a program never stops at `begin`.
- `ListedFilesWhole`: `RowsWhole`, from `FilesKept`: between `create` and
  `create_row` a handler has a file of its own, without a row, so no other handler
  finds it; at `create_row` the content is whole or the deletion asked for.
- `DownloadsComplete`: `DownloadWhole`. A file is partial only on the way to its row,
  in the hands of one handler, and what others find is found by its row.
- `AcceptedRows` and `EditsLast`: `AcceptedOfThisLife` and `EditsKept`, from `KeysKept`: the
  cache and every copy a check or an edit holds is a row the key had in this life
  of the process; unless `stale`, the row is what the edits in their order make it;
  a deleted key stays deleted, as the late statement matches no row.
- `PasswordStored`: `PasswordKept`, from `AccountKept`: without overlapping changes at
  most one handler is between the two copies of the password, and the steps in
  its program that are left make them equal.
- `TypeCorrect`: `TypeOK`. What a late statement writes is a row because its handler
  has read one before (`ModelsTyped`, `KeysKept`), and because steps in programs carry
  the arguments that belong to them (`Steps`); tokens are administrators' as no program
  of a client begins with a login; a stop is within its bound as an exit comes after
  the guard of `Close`.

`AgentProofs` - for any conversations, depth of subagents, texts, tools that are
declared (at least one), interval and limits; not only the texts of the runs:

- `RoundsKeepApart`: `RoundsSpaced`, from `Spaced`: an agent that waits for the clock
  wakes an interval after the last round of its conversation, which holds
  because the clock never falls behind the latest round begun.
- `SubagentsNeverNest`: `NeverNest`, from `AllTame`: a subagent is asked with a prompt
  that `IsSubagentEchoRequest` recognises and is made to call a tool that spawns
  nothing. It rests on lemmas that a block's prompt, written as JSON and decoded,
  still has the words, whatever the text (`PromptIsAsk`), and that `PickShellTool`
  never picks a spawner (`ShellStartsNone`).
- `EchoesReturn`: `EchoedBack`, from `AllFaithful`: what a subagent is asked, or has
  said, is what the round of its conversation said. It rests on `RoundTrip` of
  `TextProofs`: for every text without backslash or tab, extracting the payload
  of the decoded prompt gives the text, new lines apart.
- `RoundsFit`: `BlocksWithin`, from `MainsAbout`: a round whose calls are run said the block
  made of the user's text, or nothing. That the blocks fit is arithmetic over lemmas of
  `TextProofs`: a text after another has at most the tokens of both (cutting in between
  can only split words that were one), so a text repeated has at most its tokens times
  the repetitions, of which the share of a block allows so many. That the calls
  around the blocks fit as well is not true, which `AgentsBudget` shows.

`TextProofs` proves by induction, which the provers cannot do on their own and whose
library theorems take an operator as parameter. Here the property goes in as a
*set*: `Least` (a set of numbers that is not empty has a least member) follows
from the library's theorem on well-founded relations, `Numbers` and `Texts` from
`Least`. With them come the lemmas on `FlattenSeq` and `CountTo`, whose recursive
functions must first be shown to exist, on the tokens of a text after another, on
`Without`, `Clean` and the escapes (`Tidy`: every backslash stands alone before a
character it may precede).

Every invariant that a passing run checks is a theorem, for every value of the constants
that the assumptions allow; three have a hypothesis more: `NoneOff`, `Capped`, `NoPause`.
Only model-checked: all liveness
(`QueueResolves`, `GoneFinishes`, `GoneStops`, `EndCommandEnds`, `DeleteStops`,
`NeverBlocksEngine`, `SubagentsFinish`), since TLAPS has no ENABLED and no fairness
reasoning here, and the four properties that runs show violated.

## 5. Not modelled

Wording, JSON framing, statistics and logs. The remaining non-streaming
answers, each one response; bulk control and listing. The fault rules are a pure
choice, of which `StreamRunner` takes every outcome; the adapters translate one
frame at a time. The benchmark sums a counter. Of the modelled parts: a key's
name, models and use count; the expiry of an admin token after 12 hours and the extra
token that `handlePassword` gets by logging in; `Store.total`, which no limit
reads (`MaxAssetsSize` is never enforced); the table of assets; the arguments of a
subagent's shell call; an agent client without tools, which gets a plain echo.

Burst "Off" and the under-estimated wait of a failed take
(`ratelimit/ratelimit.go:406`, `415`): the first is the assumption `NoneOff`, the
second is the mechanism behind `RateStarved`. The select of a paused session
(`api/runner.go:892`) handles a take-over without entering the manual phase, so a
session that its event limit paused echoes one more unit under the state MANUAL:
`RunnerManual`, which shows `PhaseAgrees`, has no pause, and neither does its theorem.

## 6. Plan

1. Done: `Admission`, `SlotPool`, `SessionOps`, `StreamRunner`, `RateLimiter`,
   `EventFeed`, `Server` and its parts, `AgentLoop`; proofs of every safety property of
   each.
2. An abstract client stream (content, then one ending) that `StreamRunner`
   implements.
3. Pure operators: the fault rules, the echo unit splitter, the sequence numbers
   of the Responses adapter, checked against reference definitions.

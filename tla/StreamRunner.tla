---------------------------- MODULE StreamRunner ----------------------------
(***************************************************************************)
(* One streaming session: the runner goroutine (streamRunner.Run with its  *)
(* behaviours), the administrators' control requests, the goroutines that  *)
(* InjectFault starts, the keep-alive goroutine and the client, all        *)
(* sharing the session object, its two channels and the stream writer.     *)
(*                                                                         *)
(* Actors run programs of SessionOps, one step at a time.  The runner is   *)
(* also somewhere in its loop (pc): it moves on when its program is empty. *)
(* Rate limiting is a delay of any length here; what it does to the        *)
(* schedule is in RateLimiter.                                             *)
(***************************************************************************)
EXTENDS SessionOps, Integers, FiniteSets

CONSTANTS
  Admins,       \* concurrent admin connections
  Injectors,    \* bound: InjectFault goroutines alive at once
  Requests,     \* control requests administrators may make, by name
  MaxRequests,  \* bound: control requests in a behaviour
  CmdCap,       \* capacity of cmdCh, 64 in the code
  ManualCap,    \* capacity of manualCh, 64 in the code
  FaultModes,   \* stream error modes an administrator may inject
  Behaviors,    \* behaviours of the models clients ask for; the last three are
                \* what requests with tools get from a model with EnableAgent
  Calls,        \* tool calls of an agent cycle, SubagentCount
  Parts,        \* parts of 80 runes that an agent cycle's text is emitted in
  Interval,     \* the model's echo interval: 0 or 1 (any positive one)
  EchoRateCaps, \* whether RuntimeSettings.MaxEchoRate > 0, as stored over time
  KeepAlives,   \* bound: whether the 15 s keep-alive timer ever fires
  Pieces,       \* EmitText calls per manual message; 1 = single-shot delivery
  AfterChunks,  \* echo units before a scheduled fault fires
  TokenBudgets, \* echo units that use up max_tokens, 0 = the client set none
  Apis,         \* the APIs clients stream through, "chat" or "responses"
  Textless,     \* whether a request may have no text to echo (images only)
  EventLimits,  \* MaxEventsPerSession as stored over time, 0 = no limit
  OnMaxEvents   \* the ResourceActions stored over time

RequestNames ==
  {"pause", "resume", "takeover", "return", "manual", "finish", "drop",
   "fast", "slow", "delete_all", "delete", "inject", "schedule"}

ASSUME RunnerAssumption ==
  /\ Requests \subseteq RequestNames
  /\ CmdCap \in Nat \ {0} /\ ManualCap \in Nat \ {0} /\ Pieces \in Nat \ {0}
  /\ MaxRequests \in Nat /\ Interval \in {0, 1}
  /\ AfterChunks \in Nat \ {0} /\ TokenBudgets \subseteq Nat /\ EventLimits \subseteq Nat
  /\ Behaviors \subseteq {"infinite_echo", "infinite_echo_max", "manual_only",
        "static_response", "hang_forever", "connection_drop",
        "agent", "subagent_report", "subagent_shell"}
  /\ Calls \in Nat \ {0} /\ Parts \in Nat
  /\ OnMaxEvents \subseteq {"disconnect", "error", "pause"}
  /\ Apis \subseteq {"chat", "responses"} /\ Textless \subseteq BOOLEAN
  /\ OnMaxEvents # {} /\ EchoRateCaps \subseteq BOOLEAN /\ EchoRateCaps # {}
  /\ FaultModes \subseteq {"close", "http_error", "malformed", "sse_error"}
  /\ "runner" \notin Admins \union Injectors /\ Admins \intersect Injectors = {}

VARIABLES
  ses,       \* the session object: fields under its lock, bucket, closeOnce
  cmdCh,     \* queued control commands
  manualCh,  \* queued manual messages, by number
  pc,        \* where the runner's loop is
  prog,      \* what each actor still has to do
  snap,      \* the snapshot an actor has taken and not yet stored
  text,      \* the manual message being delivered and its next piece
  units,     \* echo units emitted, up to the largest threshold
  shut,      \* Writer.closed
  keepalive, \* the keep-alive goroutine is past Writer.emit's closed check
  wire,      \* what the client received
  row,       \* the session's row in the database
  live,      \* the session is in Manager.live
  gone,      \* the client closed its connection
  used,      \* control requests made
  accepted   \* history: how many manual messages manualCh took, numbered from 1

sessionVars == <<ses, cmdCh, manualCh>>
streamVars == <<shut, wire>>
tableVars == <<row, live>>
vars == <<ses, cmdCh, manualCh, pc, prog, snap, text, units, shut,
          keepalive, wire, row, live, gone, used, accepted>>

Actors == Admins \union Injectors \union {"runner"}
Ended == {"ENDED", "CLIENT_DISCONNECTED"}

\* Unit counts above every threshold are not told apart.
UnitCap == LET T == {AfterChunks} \union TokenBudgets \union EventLimits \union
                        (IF ses.behavior = "agent" THEN {Calls + Parts} ELSE {})
           IN CHOOSE n \in T : \A m \in T : m <= n

NoText == [number |-> 0, piece |-> 0]
\* The session's model was created with behaviour manual_only.
ManualOnly == ses.behavior = "manual_only"
\* Its echo units are the user's text and nothing else, and there is none.
EmptyUnits == ses.behavior = "infinite_echo" /\ ses.textless

RowOf(s) == [state |-> s.state, reason |-> s.reason, ended |-> s.ended]
Deleted == [state |-> "DELETED", reason |-> "", ended |-> FALSE]

-----------------------------------------------------------------------------
\* What Run does first for each behaviour, and where it is then.
StartEcho == <<Set([mode |-> "ECHO"]), Set([state |-> "ECHOING"])>>

Start(behavior) ==
  CASE behavior = "manual_only" ->
         <<Set([state |-> "MANUAL"]), Set([mode |-> "MANUAL"])>>
    [] behavior = "static_response" ->
         <<Frame("echo", 0)>> \o FinishStream \o Close("ENDED", "static_response")
    [] behavior = "hang_forever" -> <<Set([state |-> "ECHOING"])>>
    [] behavior = "connection_drop" ->
         <<Set([state |-> "ECHOING"])>> \o Disconnect
           \o Close("ENDED", "connection_drop_behavior")
    [] behavior = "subagent_report" ->
         StartEcho \o StartEcho \o <<Frame("echo", 0)>> \o FinishStream
           \o Close("ENDED", "subagent_echo_complete")
    [] behavior = "subagent_shell" -> StartEcho \o StartEcho
    [] OTHER -> StartEcho

FirstPlace(behavior) ==
  CASE behavior = "manual_only" -> "manual_only"
    [] behavior = "hang_forever" -> "hang"
    [] behavior = "subagent_shell" -> "call"
    [] behavior \in {"static_response", "connection_drop", "subagent_report"} -> "exit"
    [] OTHER -> "top"

\* Create has stored the row and registered the session; Run starts.  Whether
\* the request has a text makes a difference to an infinite echo only.
Init ==
  /\ \E behavior \in Behaviors, budget \in TokenBudgets, api \in Apis,
        textless \in Textless :
       /\ textless => behavior = "infinite_echo"
       /\ ses = [state |-> "CONNECTED", mode |-> "ECHO", reason |-> "", ended |-> FALSE,
                 once |-> "new", done |-> FALSE, paused |-> FALSE, fault |-> "none",
                 interval |-> Interval, behavior |-> behavior, budget |-> budget,
                 api |-> api, textless |-> textless]
  /\ cmdCh = <<>> /\ manualCh = <<>>
  /\ pc = FirstPlace(ses.behavior)
  /\ prog = [a \in Actors |-> IF a = "runner" THEN Start(ses.behavior) ELSE <<>>]
  /\ snap = [a \in Actors |-> RowOf(ses)]
  /\ text = NoText /\ units = 0
  /\ shut = FALSE /\ keepalive = FALSE
  /\ wire = [end |-> <<>>, late |-> <<>>, texts |-> <<>>]
  /\ row = RowOf(ses) /\ live = TRUE
  /\ gone = FALSE /\ used = 0 /\ accepted = 0

-----------------------------------------------------------------------------
(***************************************************************************)
(* The steps of a program.                                                 *)
(***************************************************************************)
\* Assign the given fields, all under one lock.
With(s, fields) ==
  [f \in DOMAIN s |-> IF f \in DOMAIN fields THEN fields[f] ELSE s[f]]

Next1(a) == Head(prog[a])
Ready(a, name) == prog[a] # <<>> /\ Next1(a).op = name

\* Leave out the n steps that follow the current one.
Advance(a, n) == prog' = [prog EXCEPT ![a] = SubSeq(@, n + 2, Len(@))]

Assign(a) ==
  /\ Ready(a, "set")
  /\ ses' = With(ses, Next1(a).fields)
  /\ Advance(a, 0)
  /\ UNCHANGED <<cmdCh, manualCh, pc, snap, text, units, streamVars,
                 keepalive, tableVars, gone, used, accepted>>

CloseOnce(a) ==
  /\ Ready(a, "close")
  /\ \/ /\ ses.once = "new"
        /\ ses' = [With(ses, Next1(a).fields) EXCEPT !.once = "running"]
        /\ Advance(a, 0)
     \/ /\ ses.once = "over"
        /\ Advance(a, 5)
        /\ UNCHANGED ses
  /\ UNCHANGED <<cmdCh, manualCh, pc, snap, text, units, streamVars,
                 keepalive, tableVars, gone, used, accepted>>

Snapshot(a) ==
  /\ Ready(a, "snapshot")
  /\ snap' = [snap EXCEPT ![a] = RowOf(ses)]
  /\ Advance(a, 0)
  /\ UNCHANGED <<sessionVars, pc, text, units, streamVars, keepalive, tableVars,
                 gone, used, accepted>>

\* UPDATE ... WHERE session_id: nothing happens once the row is deleted.
Store(a) ==
  /\ Ready(a, "store")
  /\ row' = IF row = Deleted THEN row ELSE snap[a]
  /\ Advance(a, 0)
  /\ UNCHANGED <<sessionVars, pc, snap, text, units, streamVars, keepalive, live,
                 gone, used, accepted>>

DeleteRow(a) ==
  /\ Ready(a, "delete_row")
  /\ row' = Deleted
  /\ Advance(a, 0)
  /\ UNCHANGED <<sessionVars, pc, snap, text, units, streamVars, keepalive, live,
                 gone, used, accepted>>

\* Mutant of SendCommand: a queued command gives way though there is room.
SendLatestOnly(a) ==
  /\ Ready(a, "send")
  /\ cmdCh' = <<Next1(a).cmd>>
  /\ Advance(a, 0)
  /\ UNCHANGED <<ses, manualCh, pc, snap, text, units, streamVars,
                 keepalive, tableVars, gone, used, accepted>>

\* Send: with room and the session closed, select may take either branch.
SendCommand(a) ==
  /\ Ready(a, "send")
  /\ \/ /\ Len(cmdCh) < CmdCap
        /\ cmdCh' = Append(cmdCh, Next1(a).cmd)
        /\ Advance(a, 0)
     \/ /\ ses.done
        /\ Advance(a, 0)
        /\ UNCHANGED cmdCh
     \/ /\ Len(cmdCh) = CmdCap /\ ~ses.done
        /\ prog' = [prog EXCEPT ![a] = <<Act("drop_oldest"),
                      [op |-> "resend", cmd |-> Next1(a).cmd]>> \o Tail(@)]
        /\ UNCHANGED cmdCh
  /\ UNCHANGED <<ses, manualCh, pc, snap, text, units, streamVars,
                 keepalive, tableVars, gone, used, accepted>>

DropOldest(a) ==
  /\ Ready(a, "drop_oldest")
  /\ cmdCh' = IF cmdCh = <<>> THEN <<>> ELSE Tail(cmdCh)
  /\ Advance(a, 0)
  /\ UNCHANGED <<ses, manualCh, pc, snap, text, units, streamVars,
                 keepalive, tableVars, gone, used, accepted>>

\* The second try gives up when another sender filled the channel again.
Resend(a) ==
  /\ Ready(a, "resend")
  /\ cmdCh' = IF Len(cmdCh) < CmdCap THEN Append(cmdCh, Next1(a).cmd) ELSE cmdCh
  /\ Advance(a, 0)
  /\ UNCHANGED <<ses, manualCh, pc, snap, text, units, streamVars,
                 keepalive, tableVars, gone, used, accepted>>

\* Mutants of SendManual: no bound; the oldest message gives way, as in Send.
SendManualUnbounded(a) ==
  /\ Ready(a, "manual")
  /\ manualCh' = Append(manualCh, accepted + 1)
  /\ accepted' = accepted + 1
  /\ Advance(a, 0)
  /\ UNCHANGED <<ses, cmdCh, pc, snap, text, units, streamVars,
                 keepalive, tableVars, gone, used>>

SendManualDropping(a) ==
  /\ Ready(a, "manual")
  /\ manualCh' = Append(IF Len(manualCh) < ManualCap THEN manualCh ELSE Tail(manualCh),
                        accepted + 1)
  /\ accepted' = accepted + 1
  /\ Advance(a, 0)
  /\ UNCHANGED <<ses, cmdCh, pc, snap, text, units, streamVars,
                 keepalive, tableVars, gone, used>>

\* SendManual: blocks the admin's handler while the channel is full.
SendManual(a) ==
  /\ Ready(a, "manual")
  /\ \/ /\ Len(manualCh) < ManualCap
        /\ manualCh' = Append(manualCh, accepted + 1)
        /\ accepted' = accepted + 1
     \/ ses.done /\ UNCHANGED <<manualCh, accepted>>
  /\ Advance(a, 0)
  /\ UNCHANGED <<ses, cmdCh, pc, snap, text, units, streamVars,
                 keepalive, tableVars, gone, used>>

Spawn(a) ==
  /\ Ready(a, "spawn")
  /\ \E i \in Injectors :
       /\ prog[i] = <<>>
       /\ prog' = [prog EXCEPT ![a] = Tail(@),
                     ![i] = <<Act("delay"), Send([type |-> "inject", how |-> Next1(a).how])>>]
  /\ UNCHANGED <<sessionVars, pc, snap, text, units, streamVars, keepalive,
                 tableVars, gone, used, accepted>>

\* The fault's delay passes, or the session closes first.
Delay(a) ==
  /\ Ready(a, "delay")
  /\ \/ Advance(a, 0)
     \/ ses.done /\ Advance(a, 1)
  /\ UNCHANGED <<sessionVars, pc, snap, text, units, streamVars, keepalive,
                 tableVars, gone, used, accepted>>

(***************************************************************************)
(* The stream writer.  "Late" frames are content after an ending, and      *)
(* comments after the writer was closed; two are as many as are told apart.*)
(***************************************************************************)
LateCap == 2

Written(w, kind) ==
  IF kind \in {"final", "done", "error", "malformed"}
  THEN [w EXCEPT !.end = Append(@, kind)]
  ELSE IF w.end = <<>> \/ (kind = "comment" /\ ~shut) \/ Len(w.late) = LateCap THEN w
  ELSE [w EXCEPT !.late = Append(@, kind)]

\* Mutant of Emit: the writer takes every session for a chat completion.
EmitDoneAlways(a) ==
  /\ Ready(a, "frame")
  /\ \/ ~shut /\ wire' = Written(wire, Next1(a).kind) /\ Advance(a, 0) /\ UNCHANGED shut
     \/ shut /\ Advance(a, Next1(a).skip) /\ UNCHANGED <<wire, shut>>
     \/ ~shut /\ gone /\ shut' = TRUE /\ Advance(a, Next1(a).skip) /\ UNCHANGED wire
  /\ UNCHANGED <<sessionVars, pc, snap, text, units, keepalive, tableVars, gone,
                 used, accepted>>

\* The Responses API sets an empty done frame and no writer of tool calls.
HasNo(kind) == ses.api = "responses" /\ kind \in {"done", "tool"}

\* emit: refused once closed; a write to a client that has gone may still
\* reach a socket buffer, or fail and close the writer.
Emit(a) ==
  /\ Ready(a, "frame")
  /\ \/ HasNo(Next1(a).kind) /\ Advance(a, 0) /\ UNCHANGED <<wire, shut>>
     \/ /\ ~HasNo(Next1(a).kind)
        /\ \/ ~shut /\ wire' = Written(wire, Next1(a).kind) /\ Advance(a, 0) /\ UNCHANGED shut
           \/ shut /\ Advance(a, Next1(a).skip) /\ UNCHANGED <<wire, shut>>
           \/ ~shut /\ gone /\ shut' = TRUE /\ Advance(a, Next1(a).skip) /\ UNCHANGED wire
  /\ UNCHANGED <<sessionVars, pc, snap, text, units, keepalive, tableVars, gone,
                 used, accepted>>

ShutWriter(a) ==
  /\ Ready(a, "shut")
  /\ shut' = TRUE
  /\ Advance(a, 0)
  /\ UNCHANGED <<sessionVars, pc, snap, text, units, wire, keepalive, tableVars,
                 gone, used, accepted>>

\* Disconnect hijacks and closes the socket.
CutSocket(a) ==
  /\ Ready(a, "cut")
  /\ wire' = [wire EXCEPT !.end = Append(@, "cut")]
  /\ Advance(a, 0)
  /\ UNCHANGED <<sessionVars, pc, snap, text, units, shut, keepalive, tableVars,
                 gone, used, accepted>>

Step(a) ==
  \/ Assign(a) \/ CloseOnce(a) \/ Snapshot(a) \/ Store(a) \/ DeleteRow(a)
  \/ SendCommand(a) \/ DropOldest(a) \/ Resend(a) \/ SendManual(a)
  \/ Spawn(a) \/ Delay(a) \/ Emit(a) \/ ShutWriter(a) \/ CutSocket(a)

-----------------------------------------------------------------------------
(***************************************************************************)
(* Administrators, the client and the keep-alive goroutine.                *)
(***************************************************************************)

\* A request reaches its handler, which looks the session up first.
Ask(a, name) ==
  /\ prog[a] = <<>> /\ used < MaxRequests
  /\ live \/ (name = "delete" /\ row # Deleted)
  /\ used' = used + 1
  /\ prog' = [prog EXCEPT ![a] =
       IF live THEN ControlRequest(name) ELSE <<Act("delete_row")>>]
  /\ UNCHANGED <<sessionVars, pc, snap, text, units, streamVars, keepalive,
                 tableVars, gone, accepted>>

\* The inject request, at once or after a number of echo units.
AskInject(a, how) ==
  /\ prog[a] = <<>> /\ used < MaxRequests /\ live
  /\ used' = used + 1
  /\ \/ /\ "inject" \in Requests
        /\ prog' = [prog EXCEPT ![a] = InjectFault(how)]
     \/ /\ "schedule" \in Requests
        /\ prog' = [prog EXCEPT ![a] = SetPendingFault(how)]
  /\ UNCHANGED <<sessionVars, pc, snap, text, units, streamVars, keepalive,
                 tableVars, gone, accepted>>

Leave ==
  /\ ~gone /\ pc # "stopped"
  /\ gone' = TRUE
  /\ UNCHANGED <<sessionVars, pc, prog, snap, text, units, streamVars, keepalive,
                 tableVars, used, accepted>>

\* Mutant of KeepAlive: no closed check.
KeepAliveUnchecked ==
  /\ KeepAlives /\ pc # "stopped"
  /\ wire' = Written(wire, "comment")
  /\ UNCHANGED <<sessionVars, pc, prog, snap, text, units, shut, keepalive, tableVars,
                 gone, used, accepted>>

\* WriteComment: the closed check is made before the writer's mutex is taken.
KeepAlive ==
  /\ \/ KeepAlives /\ ~keepalive /\ ~shut /\ ~ses.done /\ pc # "stopped" /\ keepalive' = TRUE /\ UNCHANGED streamVars
     \/ /\ keepalive /\ keepalive' = FALSE
        /\ \/ /\ pc # "stopped" /\ ~\E k \in DOMAIN wire.end : wire.end[k] = "cut"
              /\ wire' = Written(wire, "comment") /\ UNCHANGED shut
           \/ gone /\ shut' = TRUE /\ UNCHANGED wire
           \/ /\ pc = "stopped" \/ \E k \in DOMAIN wire.end : wire.end[k] = "cut"
              /\ UNCHANGED streamVars
  /\ UNCHANGED <<sessionVars, pc, prog, snap, text, units, tableVars, gone, used,
                 accepted>>

-----------------------------------------------------------------------------
(***************************************************************************)
(* The runner's loop.                                                      *)
(***************************************************************************)
At(place) == pc = place /\ prog["runner"] = <<>>

Goto(place) == pc' = place /\ UNCHANGED prog

\* Perform some steps, then go on at the given place.
Run(steps, place) == pc' = place /\ prog' = [prog EXCEPT !["runner"] = steps]

Quit(reason) == Run(Close("CLIENT_DISCONNECTED", reason), "exit")

\* Mutant of AfterCommand: the state is not looked at after a busy-loop pass.
AfterCommandUnchecked ==
  [top |-> "check", paused |-> "top", pace_capped |-> "check",
   pace_spin |-> "top", pace_tick |-> "check", manual |-> "manual_check",
   manual_only |-> "manual_only"]

\* Where a select that received a command goes once it is handled.
AfterCommand ==
  [top |-> "check", paused |-> "top", pace_capped |-> "check",
   pace_spin |-> "check", pace_tick |-> "check", manual |-> "manual_check",
   manual_only |-> "manual_only"]

TakeCommand ==
  /\ \E place \in DOMAIN AfterCommand :
       /\ At(place) /\ cmdCh # <<>>
       /\ Run(HandleCommand(Head(cmdCh)),
              IF Terminal(Head(cmdCh)) THEN "exit" ELSE AfterCommand[place])
  /\ cmdCh' = Tail(cmdCh)
  /\ UNCHANGED <<ses, manualCh, snap, text, units, streamVars, keepalive,
                 tableVars, gone, used, accepted>>

\* The branches that only read the session and go somewhere else.
Move ==
  /\ \/ At("top") /\ cmdCh = <<>> /\ Goto("look")
     \/ At("look") /\ ses.state = "PAUSED" /\ Goto("paused")
     \/ /\ At("look") /\ ses.state # "PAUSED" /\ ~EmptyUnits
        /\ Goto(IF ses.behavior = "agent" THEN "cycle" ELSE "wait")
     \/ At("check") /\ Goto(IF ses.state = "MANUAL" THEN "manual" ELSE "top")
     \/ At("manual_check") /\ Goto(IF ses.state = "MANUAL" THEN "manual" ELSE "top")
     \/ At("paused") /\ Goto("top")
     \/ At("pace_capped") /\ Goto("top")
     \/ At("pace_tick") /\ Goto("top")
     \/ At("pace_spin") /\ cmdCh = <<>> /\ Goto("top")
  /\ UNCHANGED <<sessionVars, snap, text, units, streamVars, keepalive, tableVars,
                 gone, used, accepted>>

\* Mutant of BucketWait: the wait does not listen to the client.
BucketWaitDeaf ==
  /\ At("wait") /\ ~ses.paused /\ Goto("write")
  /\ UNCHANGED <<sessionVars, snap, text, units, streamVars, keepalive, tableVars,
                 gone, used, accepted>>

\* SessionBucket.Wait in front of an echo unit: a paused bucket waits for the
\* client or for Resume, and for nothing else.
BucketWait ==
  /\ \/ At("wait") /\ ~ses.paused /\ Goto("write")
     \/ At("wait") /\ gone /\ Quit("client_disconnected")
  /\ UNCHANGED <<sessionVars, snap, text, units, streamVars, keepalive, tableVars,
                 gone, used, accepted>>

\* An empty unit is counted, without a wait and without a write.
SkipEmptyUnit ==
  /\ At("look") /\ ses.state # "PAUSED" /\ EmptyUnits
  /\ units' = IF units < UnitCap THEN units + 1 ELSE units
  /\ Goto("account")
  /\ UNCHANGED <<sessionVars, snap, text, streamVars, keepalive, tableVars, gone, used,
                 accepted>>

WriteEcho ==
  /\ At("write") /\ ~shut
  /\ wire' = Written(wire, "echo")
  /\ units' = IF units < UnitCap THEN units + 1 ELSE units
  /\ Goto(IF ses.behavior = "agent" THEN "part" ELSE "account")
  /\ UNCHANGED <<sessionVars, snap, text, shut, keepalive, tableVars, gone, used,
                 accepted>>

WriteEchoFails ==
  /\ At("write") /\ (shut \/ gone)
  /\ shut' = TRUE
  /\ Quit("client_disconnected")
  /\ UNCHANGED <<sessionVars, snap, text, units, wire, keepalive, tableVars, gone,
                 used, accepted>>

\* After a unit: max_tokens, a scheduled fault and the event limit, in order.
\* The maximum echo has no more than the first of these.
Tokens == Len(wire.texts) + IF EmptyUnits THEN 0 ELSE units
TokensUsed == ses.budget > 0 /\ Tokens >= ses.budget
Maximum == ses.behavior = "infinite_echo_max"
FaultDue == ~Maximum /\ ses.fault \in FaultModes /\ units >= AfterChunks
EventsUsed(limit) == ~Maximum /\ limit > 0 /\ units >= limit

Account ==
  /\ At("account")
  /\ \/ /\ TokensUsed
        /\ Run(FinishStream \o Close("ENDED", "max_tokens_reached"), "exit")
     \/ /\ ~TokensUsed /\ FaultDue
        /\ Run(Fail(ses.fault) \o Close("ENDED", "fault_injected"), "exit")
     \/ /\ ~TokensUsed /\ ~FaultDue /\ \E limit \in EventLimits : EventsUsed(limit)
        /\ \/ /\ "disconnect" \in OnMaxEvents
              /\ Run(Disconnect \o Close("ENDED", "resource_limit_exceeded"), "exit")
           \/ /\ "error" \in OnMaxEvents
              /\ Run(Fail("sse_error") \o Close("ENDED", "resource_limit_exceeded"), "exit")
           \/ "pause" \in OnMaxEvents /\ Run(<<Set([state |-> "PAUSED"])>>, "top")
     \/ /\ ~TokensUsed /\ ~FaultDue /\ \E limit \in EventLimits : ~EventsUsed(limit)
        /\ \/ ses.interval > 0 /\ Goto("pace_tick")
           \/ ses.interval = 0 /\ Maximum /\ Goto("top")
           \/ ses.interval = 0 /\ ~Maximum /\ TRUE \in EchoRateCaps /\ Goto("pace_capped")
           \/ ses.interval = 0 /\ ~Maximum /\ FALSE \in EchoRateCaps /\ Goto("pace_spin")
  /\ UNCHANGED <<sessionVars, snap, text, units, streamVars, keepalive, tableVars,
                 gone, used, accepted>>

(***************************************************************************)
(* An agent cycle: the gap to the cycle before, the tool calls, the text   *)
(* in parts.  A subagent's first request gets one tool call.  How long the *)
(* gap is, the clock shared by the sessions of a model says; here it is of *)
(* any length, none included, when the model has an interval.              *)
(***************************************************************************)
AgentGap ==
  /\ At("cycle")
  /\ \/ Goto("call")
     \/ Interval > 0 /\ gone /\ Quit("client_disconnected")
     \/ Interval > 0 /\ ses.done /\ Goto("exit")
  /\ UNCHANGED <<sessionVars, snap, text, units, streamVars, keepalive, tableVars,
                 gone, used, accepted>>

ToolCalls == IF ses.behavior = "subagent_shell" THEN 1 ELSE Calls

\* EmitToolCall: a wait or a write that fails is ignored.
EmitToolCall ==
  /\ At("call") /\ units < ToolCalls
  /\ units' = units + 1
  /\ \/ ~ses.paused /\ Run(<<Frame("tool", 0)>>, "call")
     \/ gone /\ Goto("call")
  /\ UNCHANGED <<sessionVars, snap, text, streamVars, keepalive, tableVars, gone,
                 used, accepted>>

AgentPart ==
  /\ \/ At("call") /\ units = ToolCalls /\ ses.behavior = "agent" /\ Goto("part")
     \/ /\ At("call") /\ units = ToolCalls /\ ses.behavior = "subagent_shell"
        /\ Run(FinishStream \o Close("ENDED", "subagent_shell_emitted"), "exit")
     \/ /\ At("part") /\ units < ToolCalls + Parts
        /\ \/ gone /\ Quit("client_disconnected")
           \/ ses.done /\ Goto("exit")
           \/ ~gone /\ ~ses.done /\ Goto("wait")
     \/ /\ At("part") /\ units = ToolCalls + Parts
        /\ Run(FinishStream \o Close("ENDED", "agent_cycle_complete"), "exit")
  /\ UNCHANGED <<sessionVars, snap, text, units, streamVars, keepalive, tableVars,
                 gone, used, accepted>>

\* The ctx.Done() and Done() branches of the selects that have them.
SeeClientGone ==
  /\ \E place \in {"paused", "pace_capped", "pace_tick", "manual", "manual_only", "hang"} :
       At(place)
  /\ gone /\ Quit("client_disconnected")
  /\ UNCHANGED <<sessionVars, snap, text, units, streamVars, keepalive, tableVars,
                 gone, used, accepted>>

\* Mutant of SeeDone: the manual phase does not listen to Done().
SeeDoneUnlessManual ==
  /\ \E place \in {"paused", "pace_tick", "manual_only"} : At(place)
  /\ ses.done /\ Goto("exit")
  /\ UNCHANGED <<sessionVars, snap, text, units, streamVars, keepalive, tableVars,
                 gone, used, accepted>>

SeeDone ==
  /\ \E place \in {"paused", "pace_tick", "manual", "manual_only"} : At(place)
  /\ ses.done /\ Goto("exit")
  /\ UNCHANGED <<sessionVars, snap, text, units, streamVars, keepalive, tableVars,
                 gone, used, accepted>>

\* deliverManual: the message leaves the queue, then its pieces are emitted.
TakeText ==
  /\ At("manual") \/ At("manual_only")
  /\ manualCh # <<>>
  /\ manualCh' = Tail(manualCh)
  /\ text' = [number |-> Head(manualCh), piece |-> 1]
  /\ Goto("piece")
  /\ UNCHANGED <<ses, cmdCh, snap, units, streamVars, keepalive, tableVars, gone,
                 used, accepted>>

\* The closing comment, then back to the phase the message was taken in.
Delivered ==
  /\ text' = NoText
  /\ Run(<<Frame("comment", 0)>>, IF ManualOnly THEN "manual_only" ELSE "manual")

\* Simulated typing stops once the session is no longer under manual control.
NextPiece ==
  /\ At("piece")
  /\ IF Pieces > 1 /\ ses.state # "MANUAL"
     THEN Delivered ELSE Goto("piece_wait") /\ UNCHANGED text
  /\ UNCHANGED <<sessionVars, snap, units, streamVars, keepalive, tableVars, gone,
                 used, accepted>>

\* Mutant of PieceDone: the same piece again.
PieceAgain ==
  IF text.piece < Pieces THEN Goto("piece") /\ UNCHANGED text ELSE Delivered

PieceDone ==
  IF text.piece < Pieces
  THEN text' = [text EXCEPT !.piece = @ + 1] /\ Goto("piece") ELSE Delivered

\* EmitText: wait for the bucket, then write; both failures are ignored.
PieceWait ==
  /\ At("piece_wait")
  /\ \/ ~ses.paused /\ Goto("piece_write") /\ UNCHANGED text
     \/ gone /\ PieceDone
  /\ UNCHANGED <<sessionVars, snap, units, streamVars, keepalive, tableVars, gone,
                 used, accepted>>

WritePiece ==
  /\ At("piece_write")
  /\ \/ /\ ~shut
        /\ wire' = [Written(wire, "text") EXCEPT !.texts = Append(@, text)]
        /\ UNCHANGED shut
     \/ (shut \/ gone) /\ shut' = TRUE /\ UNCHANGED wire
  /\ PieceDone
  /\ UNCHANGED <<sessionVars, snap, units, keepalive, tableVars, gone, used, accepted>>

\* Run's deferred function.
Unregister ==
  /\ At("exit")
  /\ live' = FALSE
  /\ Goto("deferred")
  /\ UNCHANGED <<sessionVars, snap, text, units, streamVars, keepalive, row, gone,
                 used, accepted>>

CloseAndPersist ==
  /\ At("deferred")
  /\ Run((IF ses.state \in Ended THEN <<>> ELSE Close("ENDED", ses.reason)) \o Persist,
         "stopped")
  /\ UNCHANGED <<sessionVars, snap, text, units, streamVars, keepalive, tableVars,
                 gone, used, accepted>>

Loop ==
  \/ TakeCommand \/ Move \/ SkipEmptyUnit \/ BucketWait \/ WriteEcho \/ WriteEchoFails \/ Account
  \/ AgentGap \/ EmitToolCall \/ AgentPart
  \/ SeeClientGone \/ SeeDone \/ TakeText \/ NextPiece \/ PieceWait \/ WritePiece
  \/ Unregister \/ CloseAndPersist

Next ==
  \/ \E a \in Actors : Step(a)
  \/ \E a \in Admins : \/ \E name \in Requests \ {"inject", "schedule"} : Ask(a, name)
                       \/ \E how \in FaultModes : AskInject(a, how)
  \/ Leave
  \/ KeepAlive
  \/ Loop

Spec == Init /\ [][Next]_vars

\* Goroutines run; select picks among ready branches at random, so a branch
\* that is ready again and again is taken; writes to a closed connection end
\* by failing.
Fairness ==
  /\ \A a \in Actors : WF_vars(Step(a))
  /\ WF_vars(Loop)
  /\ SF_vars(SeeClientGone) /\ SF_vars(SeeDone) /\ SF_vars(WriteEchoFails)

FairSpec == Spec /\ Fairness

-----------------------------------------------------------------------------
Stopped == pc = "stopped" /\ prog["runner"] = <<>>

Places == DOMAIN AfterCommand \union
  {"look", "cycle", "call", "part", "hang", "check", "manual_check", "wait", "write", "account", "piece",
   "piece_wait", "piece_write", "exit", "deferred", "stopped"}

States == {"CONNECTED", "ECHOING", "PAUSED", "MANUAL", "ERROR_PENDING", "ENDING"}
            \union Ended

TypeOK ==
  /\ ses.state \in States /\ ses.mode \in {"ECHO", "MANUAL"}
  /\ ses.once \in {"new", "running", "over"} /\ ses.interval \in {0, 1}
  /\ ses.fault \in FaultModes \union {"none", "now"}
  /\ ses.behavior \in Behaviors /\ ses.budget \in TokenBudgets
  /\ ses.api \in Apis /\ ses.textless \in Textless
  /\ {ses.ended, ses.done, ses.paused, shut, keepalive, live, gone} \subseteq BOOLEAN
  /\ Len(cmdCh) <= CmdCap /\ Len(manualCh) <= ManualCap
  /\ pc \in Places /\ units \in 0..UnitCap /\ used \in 0..MaxRequests
  /\ text.piece \in 0..Pieces /\ text.number \in 0..accepted

(***************************************************************************)
(* Whatever administrators do at the same time, the stream has at most one *)
(* ending and it is one of the endings the protocol knows: [DONE] follows  *)
(* only a final chunk or an in-band error, a dropped connection never      *)
(* sends [DONE].  Several goroutines can try to end the session.           *)
(***************************************************************************)
OneEnding ==
  wire.end \in {<<>>, <<"final">>, <<"final", "done">>, <<"error">>, <<"error", "done">>,
                <<"cut">>, <<"malformed">>, <<"malformed", "cut">>}

(***************************************************************************)
(* No content follows the ending of the stream, and once the writer is     *)
(* closed at most one keep-alive comment, from the goroutine that had      *)
(* passed the closed check, which is not under the writer's mutex.         *)
(***************************************************************************)
EndingIsLast == wire.late \in {<<>>, <<"comment">>}

(***************************************************************************)
(* Manual messages reach the client in the order manualCh took them, each  *)
(* once, none lost while the client is connected (T054): what was written, *)
(* the message in hand and the queue always make up what was accepted.     *)
(***************************************************************************)
InHand == IF text = NoText THEN <<>> ELSE <<text.number>>

ManualExact ==
  (Pieces = 1 /\ ~gone) =>
     [i \in 1..Len(wire.texts) |-> wire.texts[i].number] \o InHand \o manualCh
       = [i \in 1..accepted |-> i]

(***************************************************************************)
(* With simulated typing, or with the client gone, messages may be cut     *)
(* short, but pieces are never out of order or repeated.                   *)
(***************************************************************************)
PiecesInOrder ==
  \A i, j \in 1..Len(wire.texts) : i < j =>
     \/ wire.texts[i].number < wire.texts[j].number
     \/ /\ wire.texts[i].number = wire.texts[j].number
        /\ wire.texts[i].piece < wire.texts[j].piece

(***************************************************************************)
(* When the runner has stopped and the row still exists, the row has an    *)
(* end time, whoever closed the session and whichever snapshot was stored  *)
(* last; its state is an end too, unless a handler's setter, which asks    *)
(* nobody whether the session is closed, changed the session after that;   *)
(* and its reason is true to what the client saw: a normal end came with   *)
(* all the frames its API ends with, a fault or a limit with an end that   *)
(* is not the normal one.                                                  *)
(***************************************************************************)
NormalEnd == IF ses.api = "chat" THEN <<"final", "done">> ELSE <<"final">>

RowTellsHow ==
  (Stopped /\ row # Deleted) =>
    /\ row.ended
    /\ row.state \in Ended \/ ses.state \notin Ended
    /\ row.reason = "client_disconnected" => gone
    /\ row.reason = "connection_drop_behavior" => wire.end = <<"cut">>
    /\ row.reason \in {"finish_normally", "max_tokens_reached", "static_response",
                        "agent_cycle_complete", "subagent_echo_complete",
                        "subagent_shell_emitted"} /\ ~gone
         => wire.end = NormalEnd
    /\ row.reason \in {"fault_injected", "resource_limit_exceeded"} /\ ~gone
         => wire.end \notin {<<>>, <<"final">>, <<"final", "done">>}

(***************************************************************************)
(* Once no request, command or step is pending, the phase the runner is in *)
(* and the state administrators see agree: in the echo loop the state is   *)
(* not MANUAL, in its manual phase it is.  State and command travel        *)
(* separately, the state at once and the command through the queue, so     *)
(* concurrent take-overs and returns could leave them apart for good.  Not *)
(* of a manual_only session, which waits for manual input in every state,  *)
(* ECHOING after a return, and only where nobody pauses: a take-over of a  *)
(* paused session goes on echoing.                                         *)
(***************************************************************************)
Quiet == cmdCh = <<>> /\ ~ses.done /\ \A a \in Actors : prog[a] = <<>>

EchoPhase == pc \in {"top", "look", "cycle", "call", "part", "wait", "write", "account",
                     "pace_spin", "pace_capped", "pace_tick"}
ManualPhase == pc \in {"manual", "piece", "piece_wait", "piece_write"}

PhaseAgrees ==
  (Quiet /\ ~ManualOnly) => /\ EchoPhase => ses.state # "MANUAL"
                            /\ ManualPhase => ses.state = "MANUAL"

(***************************************************************************)
(* A session whose client has gone stops: the runner leaves every wait,    *)
(* paused or manual or in the middle of a message, unregisters the session *)
(* and persists it.  Exempt is a loop of empty units without an interval:  *)
(* it neither waits nor writes, so with no other limit it never looks at   *)
(* the connection and spins until an administrator ends the session.       *)
(***************************************************************************)
GoneStops == gone ~> ((Stopped /\ ~live) \/ (EmptyUnits /\ ses.interval = 0))

(***************************************************************************)
(* An administrator's finish, drop or inject ends the session, from        *)
(* whichever select takes it, unless the session is paused or hangs by its *)
(* model's behaviour, which takes no commands.  (With more requests than   *)
(* cmdCh holds it may be dropped from the full channel.)                   *)
(***************************************************************************)
Ending == \E i \in 1..Len(cmdCh) : Terminal(cmdCh[i])

EndCommandEnds == Ending ~> (Stopped \/ ses.paused \/ ses.behavior = "hang_forever")

(***************************************************************************)
(* Deleting a session (Close from an admin handler) stops its stream: the  *)
(* selects of a stream that has an echo interval, or is under manual       *)
(* control, all listen to Done.  Exempt are the zero-interval loop, the    *)
(* bucket wait of a paused session and a model that hangs.                 *)
(***************************************************************************)
DeleteStops ==
  ses.done ~> (Stopped \/ ses.paused \/ ses.interval = 0 \/ ses.behavior = "hang_forever")

=============================================================================

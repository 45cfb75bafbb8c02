----------------------------- MODULE SessionOps -----------------------------
(***************************************************************************)
(* The operations of sessions.Session as programs: sequences of steps that *)
(* a goroutine performs one at a time.  A step is one critical section of  *)
(* the session lock, one channel operation, one database statement or one  *)
(* frame written; everything between two of them can interleave.           *)
(*                                                                         *)
(* A "set" step assigns the given fields under the lock.  The other steps  *)
(* are named by "op" and performed by the actions of StreamRunner.         *)
(***************************************************************************)
EXTENDS Naturals, Sequences

Set(fields) == [op |-> "set", fields |-> fields]
Act(name) == [op |-> name]

\* A control command put on cmdCh after the session was changed directly.
Send(cmd) == [op |-> "send", cmd |-> cmd]
Command(type) == [type |-> type]

\* Frames and the end of the stream (stream.Writer).  When writing the frame
\* fails, "skip" steps of the same function are left out.  A "done" frame stands
\* for the test of doneFrame as well: Emit writes it if the API has one.
Frame(kind, skip) == [op |-> "frame", kind |-> kind, skip |-> skip]
Shut == Act("shut")
Cut == Act("cut")

-----------------------------------------------------------------------------
(***************************************************************************)
(* The direct changes an administrator's handler makes; the runner makes   *)
(* them a second time when it takes the queued command.                    *)
(***************************************************************************)
Pause == <<Set([paused |-> TRUE]), Set([state |-> "PAUSED"])>>
Resume == <<Set([paused |-> FALSE]), Set([state |-> "ECHOING"])>>
TakeOver == <<Set([mode |-> "MANUAL"]), Set([state |-> "MANUAL"])>>
ReturnToEcho == <<Set([mode |-> "ECHO"]), Set([state |-> "ECHOING"])>>
SetInterval(ms) == <<Set([interval |-> ms])>>

Finish == <<Set([state |-> "ENDING", reason |-> "stop"]), Send(Command("finish"))>>

\* The state changes at once, the command follows from a goroutine after the
\* delay the fault asks for.
InjectFault(how) ==
  <<Set([fault |-> "now", state |-> "ERROR_PENDING"]), [op |-> "spawn", how |-> how]>>

SetPendingFault(how) == <<Set([fault |-> how])>>

\* closeOnce.Do: the first caller performs these steps, a caller that comes
\* while they run waits for them, a later one skips them.
Close(state, reason) ==
  << [op |-> "close", fields |-> [state |-> state, reason |-> reason, ended |-> TRUE]],
     Set([done |-> TRUE]), Act("snapshot"), Act("store"),
     Set([paused |-> FALSE]), Set([once |-> "over"]) >>

\* snapshot under the lock, UpdateSession afterwards.
Persist == <<Act("snapshot"), Act("store")>>

-----------------------------------------------------------------------------
(***************************************************************************)
(* stream.Writer's endings.                                                *)
(***************************************************************************)
FinishStream == <<Frame("final", 2), Frame("done", 0), Shut>>

Disconnect == <<Shut, Set([reason |-> "drop_connection"]), Cut>>

Fail(how) ==
  CASE how = "close" -> Disconnect
    [] how = "http_error" -> <<Frame("error", 0), Frame("done", 0), Shut>>
    [] how = "malformed" -> <<Frame("malformed", 0)>> \o Disconnect
    [] how = "sse_error" -> <<Frame("error", 0), Shut>>

-----------------------------------------------------------------------------
(***************************************************************************)
(* handleCommand: what the runner does with a queued command.              *)
(***************************************************************************)
\* Mutant of Terminal: the loop goes on after an injected fault.
TerminalNotInject(cmd) == cmd.type \in {"finish", "drop"}

Terminal(cmd) == cmd.type \in {"finish", "drop", "inject"}

HandleCommand(cmd) ==
  CASE cmd.type = "pause" -> Pause
    [] cmd.type = "resume" -> Resume
    [] cmd.type = "takeover" -> TakeOver
    [] cmd.type = "return" -> ReturnToEcho
    [] cmd.type = "interval" -> SetInterval(cmd.ms)
    [] cmd.type = "finish" -> FinishStream \o Close("ENDED", "finish_normally")
    [] cmd.type = "drop" -> Disconnect \o Close("ENDED", "drop_connection")
    [] cmd.type = "inject" -> Fail(cmd.how) \o Close("ENDED", "fault_injected")

(***************************************************************************)
(* sessionControl and the DELETE handlers: what each request performs.     *)
(***************************************************************************)
ControlRequest(name) ==
  CASE name = "pause" -> Append(Pause, Send(Command("pause")))
    [] name = "resume" -> Append(Resume, Send(Command("resume")))
    [] name = "takeover" -> Append(TakeOver, Send(Command("takeover")))
    [] name = "return" -> Append(ReturnToEcho, Send(Command("return")))
    [] name = "manual" -> <<Act("manual")>>
    [] name = "finish" -> Finish
    [] name = "drop" -> <<Send(Command("drop"))>>
    [] name = "fast" -> Append(SetInterval(0), Send([type |-> "interval", ms |-> 0]))
    [] name = "slow" -> Append(SetInterval(1), Send([type |-> "interval", ms |-> 1]))
    [] name = "delete_all" -> Close("ENDED", "admin_delete")
    [] name = "delete" -> Append(Close("ENDED", "admin_delete"), Act("delete_row"))

=============================================================================

----------------------------- MODULE RunnerProofs -----------------------------
(***************************************************************************)
(* What holds of a streaming session for any number of administrators,     *)
(* goroutines and requests, any behaviour, interval, limit and capacity.   *)
(*                                                                         *)
(* Inductive is, first, which programs each goroutine and the table can be *)
(* at and what is left of them to write (Shape); on top of it, how what    *)
(* the client was told goes with where the runner is (StreamTold), that    *)
(* sessions and rows which have ended stay so (RowsEnded, StatesTell),     *)
(* that the reason a row gives is what happened (ReasonsTrue), where each  *)
(* piece of manual text is (Manual), how far channels and counters go      *)
(* (Bounds), and that each change of the state has something behind it     *)
(* that makes the loop look again (Calm, Informed).                        *)
(***************************************************************************)
EXTENDS RunnerPrograms, WellFoundedInduction

-----------------------------------------------------------------------------
(***************************************************************************)
(* Which action changes what.                                              *)
(***************************************************************************)
\* The fields of the session object, the commands, the rows and snapshots.
LEMMA SessionChanges ==
  ASSUME [Next]_vars
  PROVE  /\ ses' = ses \/ \E a \in Actors : Assign(a) \/ CloseOnce(a)
         /\ cmdCh' = cmdCh \/ TakeCommand
              \/ \E a \in Actors : SendCommand(a) \/ DropOldest(a) \/ Resend(a)
         /\ snap' = snap \/ \E a \in Actors : Snapshot(a)
         /\ row' = row \/ \E a \in Actors : Store(a) \/ DeleteRow(a)
  <1> USE DEF sessionVars, streamVars, tableVars
  <1>1. CASE \E a \in Actors : Step(a)
    <2>1. PICK a \in Actors : Step(a)
      BY <1>1
    <2>2. CASE Assign(a) \/ CloseOnce(a) \/ Snapshot(a) \/ Store(a) \/ DeleteRow(a)
      BY <2>2 DEF Assign, CloseOnce, Snapshot, Store, DeleteRow
    <2>3. CASE SendCommand(a) \/ DropOldest(a) \/ Resend(a) \/ SendManual(a)
      BY <2>3 DEF SendCommand, DropOldest, Resend, SendManual
    <2>4. CASE Spawn(a) \/ Delay(a) \/ Emit(a) \/ ShutWriter(a) \/ CutSocket(a)
      BY <2>4 DEF Spawn, Delay, Emit, ShutWriter, CutSocket
    <2> QED BY <2>1, <2>2, <2>3, <2>4 DEF Step
  <1>2. CASE \E a \in Admins : \/ \E name \in Requests \ {"inject", "schedule"} : Ask(a, name)
                               \/ \E how \in FaultModes : AskInject(a, how)
    BY <1>2 DEF Ask, AskInject
  <1>3. CASE Leave \/ KeepAlive
    BY <1>3 DEF Leave, KeepAlive
  <1>4. CASE TakeCommand \/ Move \/ SkipEmptyUnit \/ BucketWait \/ WriteEcho \/ WriteEchoFails \/ Account
    BY <1>4 DEF TakeCommand, Move, SkipEmptyUnit, BucketWait, WriteEcho, WriteEchoFails, Account
  <1>5. CASE AgentGap \/ EmitToolCall \/ AgentPart \/ SeeClientGone \/ SeeDone \/ TakeText
    BY <1>5 DEF AgentGap, EmitToolCall, AgentPart, SeeClientGone, SeeDone, TakeText
  <1>6. CASE NextPiece \/ PieceWait \/ WritePiece \/ Unregister \/ CloseAndPersist
    BY <1>6 DEF NextPiece, PieceWait, WritePiece, Unregister, CloseAndPersist
  <1>7. CASE UNCHANGED vars
    BY <1>7 DEF vars
  <1> QED BY <1>1, <1>2, <1>3, <1>4, <1>5, <1>6, <1>7 DEF Next, Loop

\* What the client receives and the messages it is sent.
LEMMA StreamChanges ==
  ASSUME [Next]_vars
  PROVE  /\ wire' = wire \/ KeepAlive \/ WriteEcho \/ WritePiece
              \/ \E a \in Actors : Emit(a) \/ CutSocket(a)
         /\ shut' = shut \/ KeepAlive \/ WriteEchoFails \/ WritePiece
              \/ \E a \in Actors : Emit(a) \/ ShutWriter(a)
         /\ keepalive' = keepalive \/ KeepAlive
         /\ gone' = gone \/ Leave
         /\ manualCh' = manualCh \/ TakeText \/ \E a \in Actors : SendManual(a)
         /\ accepted' = accepted \/ \E a \in Actors : SendManual(a)
         /\ text' = text \/ TakeText \/ NextPiece \/ PieceWait \/ WritePiece
  <1> USE DEF sessionVars, streamVars, tableVars
  <1>1. CASE \E a \in Actors : Step(a)
    <2>1. PICK a \in Actors : Step(a)
      BY <1>1
    <2>2. CASE Assign(a) \/ CloseOnce(a) \/ Snapshot(a) \/ Store(a) \/ DeleteRow(a)
      BY <2>2 DEF Assign, CloseOnce, Snapshot, Store, DeleteRow
    <2>3. CASE SendCommand(a) \/ DropOldest(a) \/ Resend(a) \/ SendManual(a)
      BY <2>3 DEF SendCommand, DropOldest, Resend, SendManual
    <2>4. CASE Spawn(a) \/ Delay(a) \/ Emit(a) \/ ShutWriter(a) \/ CutSocket(a)
      BY <2>4 DEF Spawn, Delay, Emit, ShutWriter, CutSocket
    <2> QED BY <2>1, <2>2, <2>3, <2>4 DEF Step
  <1>2. CASE \E a \in Admins : \/ \E name \in Requests \ {"inject", "schedule"} : Ask(a, name)
                               \/ \E how \in FaultModes : AskInject(a, how)
    BY <1>2 DEF Ask, AskInject
  <1>3. CASE Leave \/ KeepAlive
    BY <1>3 DEF Leave, KeepAlive
  <1>4. CASE TakeCommand \/ Move \/ SkipEmptyUnit \/ BucketWait \/ WriteEcho \/ WriteEchoFails \/ Account
    BY <1>4 DEF TakeCommand, Move, SkipEmptyUnit, BucketWait, WriteEcho, WriteEchoFails, Account
  <1>5. CASE AgentGap \/ EmitToolCall \/ AgentPart \/ SeeClientGone \/ SeeDone \/ TakeText
    BY <1>5 DEF AgentGap, EmitToolCall, AgentPart, SeeClientGone, SeeDone, TakeText
  <1>6. CASE NextPiece \/ PieceWait \/ WritePiece \/ Unregister \/ CloseAndPersist
    BY <1>6 DEF NextPiece, PieceWait, WritePiece, Unregister, CloseAndPersist
  <1>7. CASE UNCHANGED vars
    BY <1>7 DEF vars
  <1> QED BY <1>1, <1>2, <1>3, <1>4, <1>5, <1>6, <1>7 DEF Next, Loop

-----------------------------------------------------------------------------
(***************************************************************************)
(* The form of the programs, of the session and of its rows.               *)
(***************************************************************************)
SessionFields ==
  [state : States, mode : Modes, reason : Reasons, ended : BOOLEAN,
   once : {"new", "running", "over"}, done : BOOLEAN, paused : BOOLEAN,
   fault : FaultModes \union {"none", "now"}, interval : {0, 1},
   behavior : Behaviors, budget : TokenBudgets, api : Apis, textless : Textless]

Rows == [state : States \union {"DELETED"}, reason : Reasons, ended : BOOLEAN]

\* Nobody but the runner writes, or closes for a reason of its own.
Handler(p) == Silent(p) /\ ReasonsIn(p, {"admin_delete"})

Programs ==
  /\ prog = [a \in Actors |-> prog[a]]
  /\ \A a \in Actors : Good(prog[a]) /\ (a # "runner" => Handler(prog[a]))
  /\ cmdCh \in Seq(Commands)

Session ==
  /\ ses \in SessionFields /\ row \in Rows
  /\ snap \in [Actors -> Rows] /\ \A a \in Actors : snap[a] # Deleted

Shape == Programs /\ Session

\* An actor begins another program, or goes on in its own.
LEMMA ProgramSet ==
  ASSUME Programs, NEW a \in Actors, NEW q, Good(q), a # "runner" => Handler(q),
         prog' = [prog EXCEPT ![a] = q], cmdCh' \in Seq(Commands)
  PROVE  Programs'
  <1>1. prog' = [b \in Actors |-> prog'[b]]
    BY DEF Programs
  <1>2. ASSUME NEW b \in Actors PROVE Good(prog'[b]) /\ (b # "runner" => Handler(prog'[b]))
    BY DEF Programs
  <1> QED BY <1>1, <1>2 DEF Programs, Handler, ReasonsIn, Silent, Good

\* The step is made, and the n that follow are left out.
LEMMA Advanced ==
  ASSUME Programs, NEW a \in Actors, NEW n \in Nat, Advance(a, n)
  PROVE  /\ Dropped(prog[a], prog'[a], n + 1)
         /\ \A b \in Actors \ {a} : prog'[b] = prog[b]
         /\ Good(prog'[a]) /\ (a # "runner" => Handler(prog'[a]))
         /\ cmdCh' \in Seq(Commands) => Programs'
  <1> DEFINE q == SubSeq(prog[a], n + 2, Len(prog[a]))
  <1>1. prog' = [prog EXCEPT ![a] = q]
    BY DEF Advance
  <1>2. prog'[a] = q /\ \A b \in Actors \ {a} : prog'[b] = prog[b]
    BY <1>1 DEF Programs
  <1>3. Dropped(prog[a], q, n + 1)
    <2>1. (n + 1) + 1 = n + 2 /\ n + 1 \in Nat
      OBVIOUS
    <2> QED BY <2>1, SubSeqDropped DEF Programs, Good
  <1> HIDE DEF q
  <1>4. Good(q) /\ (a # "runner" => Handler(q))
    <2>1. Good(q) /\ \A R : ReasonsIn(prog[a], R) => ReasonsIn(q, R)
      BY <1>3, DroppedGood DEF Programs
    <2>2. ASSUME Silent(prog[a]) PROVE Silent(q)
      BY <1>3, <2>2, QuietOn, QuietWrites
    <2> QED BY <2>1, <2>2 DEF Programs, Handler
  <1> QED BY <1>1, <1>2, <1>3, <1>4, ProgramSet

\* The step an actor is at.
LEMMA AtStep ==
  ASSUME Programs, NEW a \in Actors, NEW name, Ready(a, name)
  PROVE  /\ prog[a] # <<>> /\ Len(prog[a]) >= 1 /\ Next1(a) = prog[a][1]
         /\ prog[a][1].op = name /\ Fine(prog[a][1])
  BY DEF Ready, Next1, Programs, Good

\* The runner begins another program.
LEMMA RunPrograms ==
  ASSUME Programs, NEW steps, NEW place, Run(steps, place), Good(steps),
         cmdCh' \in Seq(Commands)
  PROVE  Programs' /\ prog'["runner"] = steps /\ pc' = place
  <1>1. "runner" \in Actors
    BY DEF Actors
  <1>2. prog' = [prog EXCEPT !["runner"] = steps] /\ pc' = place
    BY DEF Run
  <1> QED BY <1>1, <1>2, ProgramSet DEF Programs

\* The form of the programs at the start.
LEMMA InitPrograms == Init => Programs
  <1> SUFFICES ASSUME Init PROVE Programs
    OBVIOUS
  <1>1. ses.behavior \in Behaviors
    <2>1. PICK b \in Behaviors, n \in TokenBudgets, api \in Apis, t \in Textless :
            ses = [state |-> "CONNECTED", mode |-> "ECHO", reason |-> "", ended |-> FALSE,
                   once |-> "new", done |-> FALSE, paused |-> FALSE, fault |-> "none",
                   interval |-> Interval, behavior |-> b, budget |-> n,
                   api |-> api, textless |-> t]
      BY DEF Init
    <2>2. ses.behavior = b
      BY <2>1
    <2> QED BY <2>2
  <1>2. Good(Start(ses.behavior))
    <2>1. CASE ses.behavior \notin Closers
      BY <1>1, <2>1, StartPrograms DEF Program, Fresh
    <2>2. CASE ses.behavior \in Closers
      BY <1>1, <2>2, StartPrograms DEF Program, Fresh, Closers
    <2> QED BY <2>1, <2>2
  <1>3. Good(<<>>) /\ Handler(<<>>)
    <2>1. Len(<<>>) = 0 /\ ~\E i \in 1..0 : TRUE
      OBVIOUS
    <2>2. Good(<<>>)
      BY <2>1, Tuples DEF Good, Linked
    <2> QED BY <2>1, <2>2 DEF Handler, Silent, ReasonsIn
  <1>4. prog = [a \in Actors |-> IF a = "runner" THEN Start(ses.behavior) ELSE <<>>]
    BY DEF Init
  <1>5. cmdCh \in Seq(Commands)
    <2>1. cmdCh = <<>>
      BY DEF Init
    <2> QED BY <2>1, EmptySeq
  <1> QED BY <1>2, <1>3, <1>4, <1>5 DEF Programs

\* Every step of a program leaves the others as they are, and what is left of
\* its own in form.
LEMMA StepPrograms ==
  ASSUME Programs, NEW a \in Actors, Step(a)
  PROVE  Programs'
  <1> USE DEF sessionVars
  <1>1. CASE Assign(a) \/ Snapshot(a) \/ Store(a) \/ DeleteRow(a)
    BY <1>1, Advanced DEF Assign, Snapshot, Store, DeleteRow, Programs
  <1>2. CASE CloseOnce(a)
    BY <1>2, Advanced DEF CloseOnce, Programs
  <1>3. CASE SendCommand(a)
    <2>1. /\ prog[a] # <<>> /\ Len(prog[a]) >= 1 /\ Next1(a) = prog[a][1]
          /\ prog[a][1].op = "send" /\ Fine(prog[a][1])
      BY <1>3, AtStep DEF SendCommand
    <2>2. Next1(a).cmd \in Commands
      BY <2>1 DEF Fine
    <2>3. CASE Advance(a, 0)
      <3>1. cmdCh' = cmdCh \/ cmdCh' = Append(cmdCh, Next1(a).cmd)
        BY <1>3 DEF SendCommand
      <3>2. cmdCh' \in Seq(Commands)
        BY <2>2, <3>1, AppendProperties DEF Programs
      <3> QED BY <2>3, <3>2, Advanced
    <2>4. CASE prog' = [prog EXCEPT ![a] = <<Act("drop_oldest"),
                         [op |-> "resend", cmd |-> Next1(a).cmd]>> \o Tail(@)] /\ UNCHANGED cmdCh
      <3> DEFINE x == Act("drop_oldest")
                 y == [op |-> "resend", cmd |-> Next1(a).cmd]
                 q == Tail(prog[a])
      <3>1. Mute(x) /\ Mute(y)
        <4>1. Mute(x)
          BY MuteActs
        <4>2. Mute(y)
          BY <2>2 DEF Mute, Simple, Fine, AfterClose, Writing
        <4> QED BY <4>1, <4>2
      <3> HIDE DEF x, y
      <3>2. \A R : Program(<<x, y>>, <<>>, R)
        BY <3>1, MuteTwo
      <3>3. Dropped(prog[a], q, 1)
        BY <2>1, TailDropped DEF Programs, Good
      <3>4. Good(q) /\ \A R : ReasonsIn(prog[a], R) => ReasonsIn(q, R)
        BY <3>3, DroppedGood DEF Programs
      <3>5. q # <<>> => q[1].op # "store"
        <4>1. ASSUME q # <<>> PROVE 2 \in 1..Len(prog[a]) /\ q[1] = prog[a][2]
          BY <3>3, <4>1 DEF Dropped
        <4> QED BY <2>1, <4>1 DEF Programs, Good, Linked
      <3> HIDE DEF q
      <3>6. Good(<<x, y>> \o q)
        BY <3>2, <3>4, <3>5, JoinedFresh DEF Program, Fresh
      <3>7. ASSUME a # "runner" PROVE Handler(<<x, y>> \o q)
        <4>1. Silent(q) /\ ReasonsIn(q, {"admin_delete"})
          <5>1. Writes(prog[a], <<>>)
            BY <3>7, QuietWrites DEF Programs, Handler
          <5> QED BY <3>3, <3>4, <3>7, <5>1, QuietOn, QuietWrites DEF Programs, Handler
        <4>2. ReasonsIn(<<x, y>> \o q, {"admin_delete"})
          BY <3>2, <3>4, <3>5, <4>1, JoinedFresh DEF Program, Fresh
        <4>3. Writes(<<x, y>> \o q, <<>>)
          BY <3>2, <3>4, <4>1, WritesJoined, WordTypes DEF Program, Fresh, Good, Words
        <4> QED BY <4>2, <4>3, QuietWrites DEF Handler
      <3>8. prog' = [prog EXCEPT ![a] = <<x, y>> \o q]
        BY <2>4 DEF x, y, q
      <3>9. cmdCh' \in Seq(Commands)
        BY <2>4 DEF Programs
      <3> QED BY <3>6, <3>7, <3>8, <3>9, ProgramSet
    <2> QED BY <1>3, <2>3, <2>4 DEF SendCommand
  <1>4. CASE DropOldest(a)
    <2>1. cmdCh' \in Seq(Commands)
      BY <1>4 DEF DropOldest, Programs
    <2> QED BY <1>4, <2>1, Advanced DEF DropOldest
  <1>5. CASE Resend(a)
    <2>1. Next1(a).cmd \in Commands
      BY <1>5, AtStep DEF Resend, Fine
    <2>2. cmdCh' \in Seq(Commands)
      BY <1>5, <2>1 DEF Resend, Programs
    <2> QED BY <1>5, <2>2, Advanced DEF Resend
  <1>6. CASE SendManual(a) \/ Delay(a)
    BY <1>6, Advanced DEF SendManual, Delay, Programs
  <1>7. CASE Spawn(a)
    <2>1. /\ prog[a] # <<>> /\ Next1(a) = prog[a][1] /\ prog[a][1].op = "spawn"
          /\ Fine(prog[a][1])
      BY <1>7, AtStep DEF Spawn
    <2> DEFINE q == Tail(prog[a])
               r == <<Act("delay"), Send([type |-> "inject", how |-> Next1(a).how])>>
    <2>2. PICK i \in Injectors :
            prog[i] = <<>> /\ prog' = [prog EXCEPT ![a] = q, ![i] = r]
      BY <1>7 DEF Spawn
    <2>3. Program(r, <<>>, {"admin_delete"})
      BY <2>1, InjectorProgram DEF Fine
    <2>4. Dropped(prog[a], q, 1)
      BY <2>1, TailDropped DEF Programs, Good
    <2>5. Good(q) /\ \A R : ReasonsIn(prog[a], R) => ReasonsIn(q, R)
      BY <2>4, DroppedGood DEF Programs
    <2>6. ASSUME Silent(prog[a]) PROVE Silent(q)
      BY <2>4, <2>6, QuietOn, QuietWrites
    <2> HIDE DEF q, r
    <2>7. i \in Actors /\ i # a /\ i # "runner"
      BY <2>1, <2>2, RunnerAssumption DEF Actors
    <2>8. prog' = [b \in Actors |-> prog'[b]]
      BY <2>2 DEF Programs
    <2>9. prog'[a] = q /\ prog'[i] = r /\ \A b \in Actors \ {a, i} : prog'[b] = prog[b]
      BY <2>2, <2>7 DEF Programs
    <2>10. Good(r) /\ Handler(r)
      BY <2>3, QuietWrites DEF Program, Fresh, Handler
    <2>11. ASSUME NEW b \in Actors PROVE Good(prog'[b]) /\ (b # "runner" => Handler(prog'[b]))
      <3>1. CASE b = a
        BY <2>5, <2>6, <2>9, <3>1 DEF Programs, Handler
      <3>2. CASE b = i
        BY <2>9, <2>10, <3>2
      <3>3. CASE b \notin {a, i}
        BY <2>9, <3>3 DEF Programs
      <3> QED BY <3>1, <3>2, <3>3
    <2>12. cmdCh' \in Seq(Commands)
      BY <1>7 DEF Spawn, Programs
    <2> QED BY <2>8, <2>11, <2>12 DEF Programs, Good, Handler, Silent, ReasonsIn
  <1>8. CASE Emit(a)
    <2>1. Next1(a).skip \in {0, 2}
      BY <1>8, AtStep DEF Emit, Fine
    <2> QED BY <1>8, <2>1, Advanced DEF Emit, Programs
  <1>9. CASE ShutWriter(a) \/ CutSocket(a)
    BY <1>9, Advanced DEF ShutWriter, CutSocket, Programs
  <1> QED BY <1>1, <1>2, <1>3, <1>4, <1>5, <1>6, <1>7, <1>8, <1>9 DEF Step

-----------------------------------------------------------------------------
(***************************************************************************)
(* What the runner begins, by the place it goes on at.  A program that     *)
(* ends the stream leads to the exit, and its reason goes with its word.   *)
(***************************************************************************)
Final == {"exit", "deferred", "stopped"}

BeginsWith(p, w, place) ==
  \/ place \notin Final /\ w \in {<<>>, Content} /\ Program(p, w, {})
  \/ place = "exit" /\ w = Finishing /\ \E r \in FinishReasons : Program(p, w, {r})
  \/ place = "exit" /\ w \in FaultWords /\ \E r \in FaultReasons : Program(p, w, {r})
  \/ place = "exit" /\ w = Cutting /\ Program(p, w, {"drop_connection"})
  \/ /\ place = "exit" /\ w = <<>> /\ (gone \/ shut)
     /\ Program(p, w, {"client_disconnected"})

Begins(p, place) == \E w : BeginsWith(p, w, place)

\* In its loop the runner stays where it is, begins one of these programs, or
\* leaves for the exit because the session is closed already.
LoopStep ==
  /\ prog["runner"] = <<>> /\ pc \notin Final
  /\ \/ UNCHANGED prog /\ pc' \notin Final \ {"exit"}
     \/ \E p : Run(p, pc') /\ Begins(p, pc')

\* The client is seen to have gone.
LEMMA QuitBegins ==
  ASSUME Quit("client_disconnected"), gone \/ shut
  PROVE  \E p : Run(p, pc') /\ Begins(p, pc')
  <1> DEFINE p == Close("CLIENT_DISCONNECTED", "client_disconnected")
  <1>1. Program(p, <<>>, {"client_disconnected"})
    BY ClosingPrograms
  <1>2. Run(p, "exit") /\ pc' = "exit"
    BY DEF Quit, Run
  <1> HIDE DEF p
  <1> QED BY <1>1, <1>2 DEF Begins, BeginsWith

\* The stream is finished for a reason of its own.
LEMMA FinishBegins ==
  ASSUME NEW r \in FinishReasons, Run(FinishStream \o Close("ENDED", r), "exit")
  PROVE  \E p : Run(p, pc') /\ Begins(p, pc')
  <1> DEFINE p == FinishStream \o Close("ENDED", r)
  <1>1. Program(p, Finishing, {r})
    BY ClosingPrograms
  <1>2. Run(p, "exit") /\ pc' = "exit"
    BY DEF Run
  <1> HIDE DEF p
  <1> QED BY <1>1, <1>2 DEF Begins, BeginsWith

\* A fault, or the limit of events, ends the stream.
LEMMA FailBegins ==
  ASSUME NEW how \in {"close", "http_error", "malformed", "sse_error"},
         NEW r \in FaultReasons, Run(Fail(how) \o Close("ENDED", r), "exit")
  PROVE  \E p : Run(p, pc') /\ Begins(p, pc')
  <1> DEFINE p == Fail(how) \o Close("ENDED", r)
  <1>1. \E w \in FaultWords : Program(p, w, {r})
    BY ClosingPrograms
  <1>2. Run(p, "exit") /\ pc' = "exit"
    BY DEF Run
  <1> HIDE DEF p
  <1> QED BY <1>1, <1>2 DEF Begins, BeginsWith

\* A frame of content, or a few fields, and the loop goes on.
LEMMA SmallBegins ==
  ASSUME NEW place, place \notin Final, NEW p, Run(p, place),
         \/ p = <<Set([state |-> "PAUSED"])>>
         \/ \E kind \in {"tool", "comment"} : p = <<Frame(kind, 0)>>
  PROVE  \E q : Run(q, pc') /\ Begins(q, pc')
  <1>1. pc' = place
    BY DEF Run
  <1>2. CASE p = <<Set([state |-> "PAUSED"])>>
    <2>1. Mute(Set([state |-> "PAUSED"]))
      BY MuteSets DEF States, Ended
    <2>2. Program(p, <<>>, {})
      BY <1>2, <2>1, MuteOne
    <2> QED BY <1>1, <2>2 DEF Begins, BeginsWith
  <1>3. CASE \E kind \in {"tool", "comment"} : p = <<Frame(kind, 0)>>
    <2>1. Program(p, Content, {})
      BY <1>3, EndingPrograms
    <2> QED BY <1>1, <2>1 DEF Begins, BeginsWith
  <1> QED BY <1>2, <1>3

\* Every step of the loop, but the last two.
LEMMA LoopBegins ==
  ASSUME Programs, Loop
  PROVE  LoopStep \/ Unregister \/ CloseAndPersist
  <1>1. CASE TakeCommand
    <2>1. PICK place \in DOMAIN AfterCommand :
            /\ At(place) /\ cmdCh # <<>>
            /\ Run(HandleCommand(Head(cmdCh)),
                   IF Terminal(Head(cmdCh)) THEN "exit" ELSE AfterCommand[place])
      BY <1>1 DEF TakeCommand
    <2>2. place \notin Final /\ AfterCommand[place] \notin Final
      BY <2>1 DEF AfterCommand, Final
    <2> DEFINE cmd == Head(cmdCh)
               p == HandleCommand(cmd)
    <2>3. cmd \in Commands
      BY <2>1, HeadTailProperties DEF Programs
    <2>4. Run(p, pc') /\ pc' = IF Terminal(cmd) THEN "exit" ELSE AfterCommand[place]
      BY <2>1 DEF Run
    <2>5. /\ ~Terminal(cmd) => Program(p, <<>>, {})
          /\ Terminal(cmd) =>
               \/ Program(p, Finishing, {"finish_normally"})
               \/ Program(p, Cutting, {"drop_connection"})
               \/ \E w \in FaultWords : Program(p, w, {"fault_injected"})
      BY <2>3, CommandPrograms
    <2> HIDE DEF p, cmd
    <2>6. "finish_normally" \in FinishReasons /\ "fault_injected" \in FaultReasons
      BY DEF FinishReasons, FaultReasons
    <2>7. Begins(p, pc')
      BY <2>2, <2>4, <2>5, <2>6 DEF Begins, BeginsWith
    <2> QED BY <2>1, <2>2, <2>4, <2>7 DEF LoopStep, At
  <1>2. CASE Move \/ SkipEmptyUnit
    BY <1>2 DEF Move, SkipEmptyUnit, LoopStep, At, Goto, Final
  <1>3. CASE BucketWait
    BY <1>3, QuitBegins DEF BucketWait, LoopStep, At, Goto, Final
  <1>4. CASE WriteEcho
    BY <1>4 DEF WriteEcho, LoopStep, At, Goto, Final
  <1>5. CASE WriteEchoFails
    BY <1>5, QuitBegins DEF WriteEchoFails, LoopStep, At, Goto, Final
  <1>6. CASE Account
    <2>1. At("account") /\ prog["runner"] = <<>> /\ pc \notin Final
      BY <1>6 DEF Account, At, Final
    <2>2. CASE Run(FinishStream \o Close("ENDED", "max_tokens_reached"), "exit")
      BY <2>1, <2>2, FinishBegins DEF LoopStep, FinishReasons
    <2>3. CASE FaultDue /\ Run(Fail(ses.fault) \o Close("ENDED", "fault_injected"), "exit")
      BY <2>1, <2>3, FailBegins, RunnerAssumption DEF LoopStep, FaultReasons, FaultDue
    <2>4. CASE Run(Disconnect \o Close("ENDED", "resource_limit_exceeded"), "exit")
      <3>1. Disconnect = Fail("close")
        BY DEF Fail
      <3> QED BY <2>1, <2>4, <3>1, FailBegins DEF LoopStep, FaultReasons
    <2>5. CASE Run(Fail("sse_error") \o Close("ENDED", "resource_limit_exceeded"), "exit")
      BY <2>1, <2>5, FailBegins DEF LoopStep, FaultReasons
    <2>6. CASE Run(<<Set([state |-> "PAUSED"])>>, "top")
      BY <2>1, <2>6, SmallBegins DEF LoopStep, Final
    <2>7. CASE Goto("pace_tick") \/ Goto("top") \/ Goto("pace_capped") \/ Goto("pace_spin")
      BY <2>1, <2>7 DEF LoopStep, Goto, Final
    <2> QED BY <1>6, <2>2, <2>3, <2>4, <2>5, <2>6, <2>7 DEF Account
  <1>7. CASE AgentGap
    BY <1>7, QuitBegins DEF AgentGap, LoopStep, At, Goto, Final
  <1>8. CASE EmitToolCall
    <2>1. At("call") /\ "call" \notin Final
      BY <1>8 DEF EmitToolCall, Final
    <2>2. CASE Run(<<Frame("tool", 0)>>, "call")
      BY <2>1, <2>2, SmallBegins DEF LoopStep, At
    <2>3. CASE Goto("call")
      BY <2>1, <2>3 DEF LoopStep, At, Goto
    <2> QED BY <1>8, <2>2, <2>3 DEF EmitToolCall
  <1>9. CASE AgentPart
    <2>1. prog["runner"] = <<>> /\ pc \notin Final
      BY <1>9 DEF AgentPart, At, Final
    <2>2. CASE Goto("part") \/ Goto("exit") \/ Goto("wait")
      BY <2>1, <2>2 DEF LoopStep, Goto, Final
    <2>3. CASE gone /\ Quit("client_disconnected")
      BY <2>1, <2>3, QuitBegins DEF LoopStep
    <2>4. CASE Run(FinishStream \o Close("ENDED", "subagent_shell_emitted"), "exit")
      BY <2>1, <2>4, FinishBegins DEF LoopStep, FinishReasons
    <2>5. CASE Run(FinishStream \o Close("ENDED", "agent_cycle_complete"), "exit")
      BY <2>1, <2>5, FinishBegins DEF LoopStep, FinishReasons
    <2> QED BY <1>9, <2>2, <2>3, <2>4, <2>5 DEF AgentPart
  <1>10. CASE SeeClientGone
    BY <1>10, QuitBegins DEF SeeClientGone, LoopStep, At, Final
  <1>11. CASE SeeDone \/ TakeText
    BY <1>11 DEF SeeDone, TakeText, LoopStep, At, Goto, Final
  <1>12. ASSUME At("piece") \/ At("piece_wait") \/ At("piece_write"), Delivered PROVE LoopStep
    <2>1. prog["runner"] = <<>> /\ pc \notin Final
      BY <1>12 DEF At, Final
    <2>2. \E place : place \notin Final /\ Run(<<Frame("comment", 0)>>, place)
      BY <1>12 DEF Delivered, Final
    <2> QED BY <2>1, <2>2, SmallBegins DEF LoopStep
  <1>13. ASSUME At("piece") \/ At("piece_wait") \/ At("piece_write"), PieceDone PROVE LoopStep
    <2>1. CASE Goto("piece")
      BY <1>13, <2>1 DEF LoopStep, At, Goto, Final
    <2> QED BY <1>12, <1>13, <2>1 DEF PieceDone
  <1>14. CASE NextPiece
    BY <1>12, <1>14 DEF NextPiece, LoopStep, At, Goto, Final
  <1>15. CASE PieceWait
    BY <1>13, <1>15 DEF PieceWait, LoopStep, At, Goto, Final
  <1>16. CASE WritePiece
    BY <1>13, <1>16 DEF WritePiece
  <1> QED BY <1>1, <1>2, <1>3, <1>4, <1>5, <1>6, <1>7, <1>8, <1>9, <1>10, <1>11, <1>14,
             <1>15, <1>16 DEF Loop

-----------------------------------------------------------------------------
(***************************************************************************)
(* The fields of the session, the snapshots and the row.                   *)
(***************************************************************************)
\* A "set" step never ends the session.
LEMMA Assigned ==
  ASSUME NEW s \in SessionFields, NEW f, Fits(f)
  PROVE  /\ With(s, f) \in SessionFields /\ With(s, f).ended = s.ended
         /\ With(s, f).state = s.state \/ With(s, f).state \notin Ended
         /\ With(s, f).reason = s.reason \/ With(s, f).reason \in {"stop", "drop_connection"}
         /\ With(s, f).once = IF "once" \in DOMAIN f THEN "over" ELSE s.once
  <1> DEFINE t == With(s, f)
  <1>1. /\ t = [g \in {"state", "mode", "reason", "ended", "once", "done", "paused",
                       "fault", "interval", "behavior", "budget", "api", "textless"} |-> t[g]]
        /\ t.state = IF "state" \in DOMAIN f THEN f.state ELSE s.state
        /\ t.mode = IF "mode" \in DOMAIN f THEN f.mode ELSE s.mode
        /\ t.reason = IF "reason" \in DOMAIN f THEN f.reason ELSE s.reason
        /\ t.ended = IF "ended" \in DOMAIN f THEN f.ended ELSE s.ended
        /\ t.once = IF "once" \in DOMAIN f THEN f.once ELSE s.once
        /\ t.done = IF "done" \in DOMAIN f THEN f.done ELSE s.done
        /\ t.paused = IF "paused" \in DOMAIN f THEN f.paused ELSE s.paused
        /\ t.fault = IF "fault" \in DOMAIN f THEN f.fault ELSE s.fault
        /\ t.interval = IF "interval" \in DOMAIN f THEN f.interval ELSE s.interval
        /\ t.behavior = IF "behavior" \in DOMAIN f THEN f.behavior ELSE s.behavior
        /\ t.budget = IF "budget" \in DOMAIN f THEN f.budget ELSE s.budget
        /\ t.api = IF "api" \in DOMAIN f THEN f.api ELSE s.api
        /\ t.textless = IF "textless" \in DOMAIN f THEN f.textless ELSE s.textless
    BY DEF With, SessionFields
  <1> HIDE DEF t
  <1>2. /\ "ended" \notin DOMAIN f /\ "behavior" \notin DOMAIN f /\ "budget" \notin DOMAIN f
        /\ "api" \notin DOMAIN f /\ "textless" \notin DOMAIN f
    BY DEF Fits
  <1>3. {"stop", "drop_connection"} \subseteq Reasons
    BY DEF Reasons
  <1>4. t.state \in States /\ t.mode \in Modes /\ t.reason \in Reasons /\ t.ended \in BOOLEAN
    BY <1>1, <1>2, <1>3 DEF Fits, SessionFields
  <1>5. t.once \in {"new", "running", "over"} /\ t.done \in BOOLEAN /\ t.paused \in BOOLEAN
    BY <1>1 DEF Fits, SessionFields
  <1>6. /\ t.fault \in FaultModes \union {"none", "now"} /\ t.interval \in {0, 1}
        /\ t.behavior \in Behaviors /\ t.budget \in TokenBudgets
        /\ t.api \in Apis /\ t.textless \in Textless
    BY <1>1, <1>2 DEF Fits, SessionFields
  <1>7. t \in SessionFields
    BY <1>1, <1>4, <1>5, <1>6 DEF SessionFields
  <1>8. /\ t.ended = s.ended /\ (t.state = s.state \/ t.state \notin Ended)
        /\ t.reason = s.reason \/ t.reason \in {"stop", "drop_connection"}
        /\ t.once = IF "once" \in DOMAIN f THEN "over" ELSE s.once
    BY <1>1, <1>2 DEF Fits
  <1> QED BY <1>7, <1>8 DEF t

\* The first close does.
LEMMA Closed ==
  ASSUME NEW s \in SessionFields, NEW f \in [state : Ended, reason : Reasons, ended : {TRUE}]
  PROVE  LET t == [With(s, f) EXCEPT !.once = "running"] IN
           /\ t \in SessionFields /\ t.ended /\ t.state \in Ended /\ t.reason = f.reason
           /\ t.once = "running"
  <1> DEFINE u == With(s, f)
             t == [u EXCEPT !.once = "running"]
  <1>1. /\ u = [g \in {"state", "mode", "reason", "ended", "once", "done", "paused",
                       "fault", "interval", "behavior", "budget", "api", "textless"} |-> u[g]]
        /\ u.state = f.state /\ u.reason = f.reason /\ u.ended = f.ended
        /\ u.mode = s.mode /\ u.done = s.done /\ u.paused = s.paused /\ u.fault = s.fault
        /\ u.interval = s.interval /\ u.behavior = s.behavior /\ u.budget = s.budget
        /\ u.api = s.api /\ u.textless = s.textless
    BY DEF With, SessionFields
  <1> HIDE DEF u
  <1>2. /\ t.state = f.state /\ t.reason = f.reason /\ t.ended = f.ended /\ t.once = "running"
        /\ t \in SessionFields
    BY <1>1 DEF SessionFields, Ended, States
  <1> QED BY <1>2 DEF u

\* What a step does to the session.
LEMMA SessionSteps ==
  ASSUME Shape, [Next]_vars
  PROVE  \/ ses' = ses
         \/ \E a \in Actors : \E f :
              /\ Assign(a) /\ prog[a] # <<>> /\ prog[a][1].op = "set"
              /\ f = prog[a][1].fields /\ Fits(f) /\ ses' = With(ses, f)
         \/ \E a \in Actors : \E f \in [state : Ended, reason : Reasons, ended : {TRUE}] :
              /\ CloseOnce(a) /\ prog[a] # <<>> /\ prog[a][1].op = "close"
              /\ f = prog[a][1].fields /\ ses.once = "new"
              /\ ses' = [With(ses, f) EXCEPT !.once = "running"]
  <1>1. CASE \E a \in Actors : Assign(a)
    <2>1. PICK a \in Actors : Assign(a)
      BY <1>1
    <2>2. Ready(a, "set") /\ ses' = With(ses, Next1(a).fields)
      BY <2>1 DEF Assign
    <2>3. /\ prog[a] # <<>> /\ prog[a][1].op = "set" /\ Next1(a) = prog[a][1]
          /\ Fits(prog[a][1].fields)
      BY <2>2, AtStep DEF Shape, Fine
    <2> QED BY <2>1, <2>2, <2>3
  <1>2. CASE \E a \in Actors : CloseOnce(a)
    <2>1. PICK a \in Actors : CloseOnce(a)
      BY <1>2
    <2>2. /\ Ready(a, "close")
          /\ \/ ses.once = "new" /\ ses' = [With(ses, Next1(a).fields) EXCEPT !.once = "running"]
             \/ ses' = ses
      BY <2>1 DEF CloseOnce
    <2>3. /\ prog[a] # <<>> /\ prog[a][1].op = "close" /\ Next1(a) = prog[a][1]
          /\ prog[a][1].fields \in [state : Ended, reason : Reasons, ended : {TRUE}]
      BY <2>2, AtStep DEF Shape, Fine
    <2> QED BY <2>1, <2>2, <2>3
  <1> QED BY <1>1, <1>2, SessionChanges

\* What API the client streams through does not change.
LEMMA ApiStays ==
  ASSUME Shape, [Next]_vars
  PROVE  ses.api \in {"chat", "responses"} /\ ses'.api = ses.api
  <1>1. ses \in SessionFields /\ ses.api \in {"chat", "responses"}
    BY RunnerAssumption DEF Shape, Session, SessionFields
  <1>2. ASSUME NEW f, "api" \notin DOMAIN f
        PROVE  With(ses, f).api = ses.api /\ [With(ses, f) EXCEPT !.once = "running"].api = ses.api
    BY <1>1, <1>2 DEF With, SessionFields
  <1>3. ASSUME NEW f, Fits(f) PROVE With(ses, f).api = ses.api
    BY <1>2, <1>3 DEF Fits
  <1>4. ASSUME NEW f \in [state : Ended, reason : Reasons, ended : {TRUE}]
        PROVE  [With(ses, f) EXCEPT !.once = "running"].api = ses.api
    <2>1. "api" \notin DOMAIN f
      OBVIOUS
    <2> QED BY <1>2, <2>1
  <1> QED BY <1>1, <1>3, <1>4, SessionSteps

\* The session, the snapshots and the row keep their form.
LEMMA SessionKept ==
  ASSUME Shape, [Next]_vars
  PROVE  Session'
  <1>1. ses' \in SessionFields
    <2>1. ses \in SessionFields
      BY DEF Shape, Session
    <2>2. ASSUME NEW f, Fits(f) PROVE With(ses, f) \in SessionFields
      BY <2>1, <2>2, Assigned
    <2>3. ASSUME NEW f \in [state : Ended, reason : Reasons, ended : {TRUE}]
          PROVE  [With(ses, f) EXCEPT !.once = "running"] \in SessionFields
      BY <2>1, Closed
    <2> QED BY <2>1, <2>2, <2>3, SessionSteps
  <1>2. RowOf(ses) \in Rows /\ RowOf(ses) # Deleted /\ Deleted \in Rows
    BY DEF Shape, Session, SessionFields, Rows, RowOf, Deleted, States, Ended, Reasons
  <1>3. (snap \in [Actors -> Rows] /\ \A a \in Actors : snap[a] # Deleted)'
    <2>1. CASE snap' = snap
      BY <2>1 DEF Shape, Session
    <2>2. CASE \E a \in Actors : snap' = [snap EXCEPT ![a] = RowOf(ses)]
      BY <1>2, <2>2 DEF Shape, Session
    <2> QED BY <2>1, <2>2, SessionChanges DEF Snapshot
  <1>4. row' \in Rows
    BY <1>2, SessionChanges DEF Store, DeleteRow, Shape, Session
  <1> QED BY <1>1, <1>3, <1>4 DEF Session

\* A request's handler begins anew.
LEMMA AskPrograms ==
  ASSUME Programs, NEW a \in Admins,
         \/ \E name \in Requests \ {"inject", "schedule"} : Ask(a, name)
         \/ \E how \in FaultModes : AskInject(a, how)
  PROVE  /\ a \in Actors /\ a # "runner" /\ prog[a] = <<>>
         /\ \E p : Program(p, <<>>, {"admin_delete"}) /\ prog' = [prog EXCEPT ![a] = p]
         /\ Programs'
  <1>1. a \in Actors /\ a # "runner" /\ prog[a] = <<>>
    BY RunnerAssumption DEF Actors, Ask, AskInject
  <1>2. \E p : Program(p, <<>>, {"admin_delete"}) /\ prog' = [prog EXCEPT ![a] = p]
    <2>1. CASE \E name \in Requests \ {"inject", "schedule"} : Ask(a, name)
      <3>1. PICK name \in Requests \ {"inject", "schedule"} : Ask(a, name)
        BY <2>1
      <3>2. \/ prog' = [prog EXCEPT ![a] = ControlRequest(name)]
            \/ prog' = [prog EXCEPT ![a] = <<Act("delete_row")>>]
        BY <3>1 DEF Ask
      <3>3. /\ Program(ControlRequest(name), <<>>, {"admin_delete"})
            /\ Program(<<Act("delete_row")>>, <<>>, {"admin_delete"})
        BY RequestPrograms
      <3> QED BY <3>2, <3>3
    <2>2. CASE \E how \in FaultModes : AskInject(a, how)
      <3>1. PICK how \in FaultModes : AskInject(a, how)
        BY <2>2
      <3>2. \/ prog' = [prog EXCEPT ![a] = InjectFault(how)]
            \/ prog' = [prog EXCEPT ![a] = SetPendingFault(how)]
        BY <3>1 DEF AskInject
      <3>3. /\ Program(InjectFault(how), <<>>, {"admin_delete"})
            /\ Program(SetPendingFault(how), <<>>, {"admin_delete"})
        BY RequestPrograms
      <3> QED BY <3>2, <3>3
    <2> QED BY <2>1, <2>2
  <1>3. cmdCh' \in Seq(Commands)
    BY DEF Ask, AskInject, sessionVars, Programs
  <1>4. Programs'
    <2>1. PICK p : Program(p, <<>>, {"admin_delete"}) /\ prog' = [prog EXCEPT ![a] = p]
      BY <1>2
    <2>2. Good(p) /\ Handler(p)
      BY <2>1, QuietWrites DEF Program, Fresh, Handler
    <2> QED BY <1>1, <1>3, <2>1, <2>2, ProgramSet
  <1> QED BY <1>1, <1>2, <1>4

\* The runner's last program.
LEMMA LastBegins ==
  ASSUME Shape, CloseAndPersist
  PROVE  \E p : /\ Run(p, "stopped") /\ Fresh(p) /\ Good(p) /\ Silent(p) /\ p # <<>>
                /\ p[Len(p)].op = "store"
                /\ \/ ses.state \in Ended /\ p = Persist
                   \/ CloseFirst(p) /\ ReasonsIn(p, {ses.reason})
  <1>1. CASE ses.state \in Ended
    <2>1. Run(<<>> \o Persist, "stopped")
      BY <1>1 DEF CloseAndPersist
    <2>2. Run(Persist, "stopped")
      BY <2>1, LastPrograms
    <2> QED BY <1>1, <2>2, LastPrograms DEF Fresh
  <1>2. CASE ses.state \notin Ended
    <2> DEFINE p == Close("ENDED", ses.reason) \o Persist
    <2>1. Run(p, "stopped") /\ ses.reason \in Reasons
      BY <1>2 DEF CloseAndPersist, Shape, Session, SessionFields
    <2>2. Program(p, <<>>, {ses.reason}) /\ p # <<>> /\ p[Len(p)].op = "store"
      BY <2>1, LastPrograms
    <2> HIDE DEF p
    <2> QED BY <2>1, <2>2, QuietWrites DEF Program, Fresh
  <1> QED BY <1>1, <1>2

\* Every step keeps the form of the programs.
LEMMA ProgramsKept ==
  ASSUME Shape, [Next]_vars
  PROVE  Programs'
  <1> USE DEF sessionVars
  <1>0. Programs
    BY DEF Shape
  <1>1. CASE \E a \in Actors : Step(a)
    BY <1>0, <1>1, StepPrograms
  <1>2. CASE \E a \in Admins : \/ \E name \in Requests \ {"inject", "schedule"} : Ask(a, name)
                               \/ \E how \in FaultModes : AskInject(a, how)
    BY <1>0, <1>2, AskPrograms
  <1>3. CASE Leave \/ KeepAlive \/ Unregister \/ UNCHANGED vars
    BY <1>0, <1>3 DEF Leave, KeepAlive, Unregister, Goto, vars, Programs
  <1>4. CASE Loop /\ LoopStep
    <2>1. cmdCh' \in Seq(Commands)
      <3>1. cmdCh' = cmdCh \/ (cmdCh # <<>> /\ cmdCh' = Tail(cmdCh))
        <4>1. CASE TakeCommand
          BY <4>1 DEF TakeCommand
        <4>2. CASE Move \/ SkipEmptyUnit \/ BucketWait \/ WriteEcho \/ WriteEchoFails \/ Account
          BY <4>2 DEF Move, SkipEmptyUnit, BucketWait, WriteEcho, WriteEchoFails, Account
        <4>3. CASE AgentGap \/ EmitToolCall \/ AgentPart \/ SeeClientGone \/ SeeDone \/ TakeText
          BY <4>3 DEF AgentGap, EmitToolCall, AgentPart, SeeClientGone, SeeDone, TakeText
        <4>4. CASE NextPiece \/ PieceWait \/ WritePiece \/ Unregister \/ CloseAndPersist
          BY <4>4 DEF NextPiece, PieceWait, WritePiece, Unregister, CloseAndPersist
        <4> QED BY <1>4, <4>1, <4>2, <4>3, <4>4 DEF Loop
      <3> QED BY <1>0, <3>1, HeadTailProperties DEF Programs
    <2>2. CASE UNCHANGED prog
      BY <1>0, <2>1, <2>2 DEF Programs
    <2>3. CASE \E p : Run(p, pc') /\ Begins(p, pc')
      <3>1. PICK p : Run(p, pc') /\ Begins(p, pc')
        BY <2>3
      <3>2. Good(p)
        BY <3>1 DEF Begins, BeginsWith, Program, Fresh
      <3> QED BY <1>0, <2>1, <3>1, <3>2, RunPrograms
    <2> QED BY <1>4, <2>2, <2>3 DEF LoopStep
  <1>5. CASE CloseAndPersist
    <2>1. PICK p : Run(p, "stopped") /\ Good(p)
      BY <1>5, LastBegins
    <2>2. cmdCh' \in Seq(Commands)
      BY <1>0, <1>5 DEF CloseAndPersist, Programs
    <2> QED BY <1>0, <2>1, <2>2, RunPrograms
  <1> QED BY <1>0, <1>1, <1>2, <1>3, <1>4, <1>5, LoopBegins DEF Next

(***************************************************************************)
(* Every program, command, snapshot and row is one of those the code       *)
(* knows: whoever interrupts whom, what is left of a handler's work still  *)
(* has the order its operation gave it.                                    *)
(***************************************************************************)
THEOREM ShapeKept == Spec => []Shape
<1>1. Init => Shape
  <2> SUFFICES ASSUME Init PROVE Session
    BY InitPrograms DEF Shape
  <2>1. ses \in SessionFields
    <3>1. PICK b \in Behaviors, n \in TokenBudgets, api \in Apis, t \in Textless :
            ses = [state |-> "CONNECTED", mode |-> "ECHO", reason |-> "", ended |-> FALSE,
                   once |-> "new", done |-> FALSE, paused |-> FALSE, fault |-> "none",
                   interval |-> Interval, behavior |-> b, budget |-> n,
                   api |-> api, textless |-> t]
      BY DEF Init
    <3> QED BY <3>1, RunnerAssumption DEF SessionFields, States, Modes, Reasons
  <2>2. RowOf(ses) \in Rows /\ RowOf(ses) # Deleted
    BY <2>1 DEF SessionFields, Rows, RowOf, Deleted, States, Ended, Reasons
  <2>3. snap = [a \in Actors |-> RowOf(ses)] /\ row = RowOf(ses)
    BY DEF Init
  <2> QED BY <2>1, <2>2, <2>3 DEF Session
<1>2. Shape /\ [Next]_vars => Shape'
  BY ProgramsKept, SessionKept DEF Shape
<1> QED BY <1>1, <1>2, PTL DEF Spec

-----------------------------------------------------------------------------
(***************************************************************************)
(* What is still to be written agrees with what has been written.  The     *)
(* word w is what the rest of the runner's program writes.                 *)
(***************************************************************************)
Finals == {<<>>, <<"final">>, <<"final", "done">>}
Errors == {<<"error">>, <<"error", "done">>}
Cuts == {<<"cut">>, <<"malformed", "cut">>}
Endings == Finals \union Errors \union Cuts \union {<<"malformed">>}

Agrees(w, end) ==
  /\ w \in {Content, Answering, Finishing, ErrorDone, ErrorShut, Garbling} => end = <<>>
  /\ w = DoneShut => end \in {<<"final">>, <<"error">>} \/ (end = <<>> /\ shut)
  /\ w = OnlyShut => end \in Finals \union Errors
  /\ w = Cutting => end \in {<<>>, <<"malformed">>}
  /\ w \in {SetCut, OnlyCut} => end \in {<<>>, <<"malformed">>} /\ shut
  /\ w = <<>> => end \in Endings

\* Before the runner heads for the exit nothing has ended the stream, and its
\* last program writes nothing.
PlaceFits(w, end) ==
  /\ pc \notin Final => end = <<>> /\ w \in {<<>>, Content} /\ (shut => gone)
  /\ pc \in {"deferred", "stopped"} => w = <<>>

Told(w) ==
  /\ w \in Words /\ Writes(prog["runner"], w)
  /\ Agrees(w, wire.end) /\ PlaceFits(w, wire.end)

\* One comment at most is late, from a keep-alive that was under way.
OneLate == wire.late = <<>> \/ (wire.late = <<"comment">> /\ shut /\ ~keepalive)

StreamForm ==
  /\ wire = [end |-> wire.end, late |-> wire.late, texts |-> wire.texts]
  /\ {shut, keepalive, gone} \subseteq BOOLEAN /\ OneLate

StreamTold == StreamForm /\ \E w \in Words : Told(w)
\* No step but a frame of content, the endings and a cut socket changes the
\* ending, and nothing but a late comment is added after it.
LEMMA WrittenIs ==
  ASSUME StreamForm, NEW kind
  PROVE  LET v == Written(wire, kind) IN
         /\ v = [end |-> v.end, late |-> v.late, texts |-> wire.texts]
         /\ kind \in {"final", "done", "error", "malformed"} =>
              v.end = Append(wire.end, kind) /\ v.late = wire.late
         /\ kind \notin {"final", "done", "error", "malformed"} =>
              /\ v.end = wire.end
              /\ v.late = wire.late \/ (v.late = Append(wire.late, kind) /\ wire.end # <<>>
                                        /\ (kind = "comment" => shut))
  BY DEF Written, StreamForm

\* What is appended to an ending.
LEMMA Appended ==
  ASSUME NEW x, NEW y
  PROVE  Append(<<>>, x) = <<x>> /\ Append(<<x>>, y) = <<x, y>>
  <1> DEFINE S == {x, y}
  <1>1. <<>> \in Seq(S) /\ <<x>> \in Seq(S) /\ <<x, y>> \in Seq(S) /\ x \in S /\ y \in S
    OBVIOUS
  <1>2. /\ Len(<<>>) = 0 /\ Len(<<x>>) = 1 /\ Len(<<x, y>>) = 2
        /\ <<x>>[1] = x /\ <<x, y>>[1] = x /\ <<x, y>>[2] = y
    OBVIOUS
  <1> HIDE DEF S
  <1>3. Append(<<>>, x) = <<x>>
    <2>1. /\ Append(<<>>, x) \in Seq(S) /\ Len(Append(<<>>, x)) = 1
          /\ Append(<<>>, x)[1] = x
      BY <1>1, <1>2, AppendProperties
    <2>2. \A i \in 1..Len(Append(<<>>, x)) : Append(<<>>, x)[i] = <<x>>[i]
      BY <1>2, <2>1
    <2> QED BY <1>1, <1>2, <2>1, <2>2, SeqEqual
  <1>4. Append(<<x>>, y) = <<x, y>>
    <2>1. /\ Append(<<x>>, y) \in Seq(S) /\ Len(Append(<<x>>, y)) = 2
          /\ Append(<<x>>, y)[1] = x /\ Append(<<x>>, y)[2] = y
      BY <1>1, <1>2, AppendProperties
    <2>2. \A i \in 1..2 : i = 1 \/ i = 2
      OBVIOUS
    <2>3. \A i \in 1..Len(Append(<<x>>, y)) : Append(<<x>>, y)[i] = <<x, y>>[i]
      BY <1>2, <2>1, <2>2
    <2> QED BY <1>1, <1>2, <2>1, <2>3, SeqEqual
  <1> QED BY <1>3, <1>4

\* How long the words are, and that they differ.
LEMMA Distinct ==
  /\ \A w \in Words : w # <<>> => Len(w) >= 1
  /\ Len(Content) = 1 /\ Len(Answering) = 4 /\ Len(Finishing) = 3 /\ Len(DoneShut) = 2
  /\ Len(OnlyShut) = 1 /\ Len(ErrorDone) = 3 /\ Len(ErrorShut) = 2 /\ Len(Garbling) = 4
  /\ Len(Cutting) = 3 /\ Len(SetCut) = 2 /\ Len(OnlyCut) = 1
  BY DEF Words, Content, Answering, Finishing, DoneShut, OnlyShut, ErrorDone, ErrorShut,
         Garbling, Cutting, SetCut, OnlyCut

\* Each by its length and its first mark.
LEMMA WordsDiffer ==
  /\ <<>> \notin {Content, Answering, Finishing, DoneShut, OnlyShut, ErrorDone, ErrorShut,
                  Garbling, Cutting, SetCut, OnlyCut}
  /\ Content \notin {OnlyShut, OnlyCut} /\ OnlyShut # OnlyCut
  /\ {Content, OnlyShut, OnlyCut} \intersect
       {DoneShut, ErrorShut, SetCut, Finishing, ErrorDone, Cutting, Answering, Garbling} = {}
  /\ DoneShut \notin {ErrorShut, SetCut} /\ ErrorShut # SetCut
  /\ {DoneShut, ErrorShut, SetCut} \intersect
       {Finishing, ErrorDone, Cutting, Answering, Garbling} = {}
  /\ Finishing \notin {ErrorDone, Cutting} /\ ErrorDone # Cutting
  /\ {Finishing, ErrorDone, Cutting} \intersect {Answering, Garbling} = {}
  /\ Answering # Garbling
  <1>1. Len(<<>>) = 0
    OBVIOUS
  <1> QED BY <1>1, Distinct, WordHeads

\* The endings differ.
LEMMA EndingsDiffer ==
  /\ <<>> # <<"final">> /\ <<>> # <<"error">> /\ <<>> # <<"cut">> /\ <<>> # <<"malformed">>
  /\ <<>> # <<"final", "done">> /\ <<>> # <<"error", "done">> /\ <<>> # <<"malformed", "cut">>
  /\ <<"final">> # <<"error">> /\ <<"final">> # <<"final", "done">>
  /\ <<"final", "done">> # <<"error", "done">> /\ <<"final", "done">> # <<"malformed", "cut">>
  /\ <<"final", "done">> # <<"error">> /\ <<"final", "done">> # <<"cut">>
  /\ <<"final", "done">> # <<"malformed">> /\ <<"final">> # <<"error", "done">>
  /\ <<"final">> # <<"cut">> /\ <<"final">> # <<"malformed", "cut">>
  OBVIOUS

\* A program of no step writes no word.
LEMMA EmptyWord == ASSUME NEW w \in Words, Writes(<<>>, w) PROVE w = <<>>
  <1>1. PICK k \in 1..(Len(<<>>) + 1) : WritesFrom(<<>>, k, w)
    BY DEF Writes
  <1>2. Len(<<>>) = 0 /\ k + Len(w) <= Len(<<>>) + 1 /\ k >= 1
    BY <1>1 DEF WritesFrom
  <1> QED BY <1>2, Distinct

-----------------------------------------------------------------------------
(***************************************************************************)
(* What a step leaves of a program.                                        *)
(***************************************************************************)
\* The first steps are left out: nothing but the current one, unless the
\* current one is a close or the last one left out is no snapshot.
LeavesOut(p, q) ==
  \E m \in 1..Len(p) :
    /\ Dropped(p, q, m)
    /\ m = 1 \/ p[m].op \in {"set", "send", "shut"}
    /\ p[1].op = "close" \/ \A j \in 2..m : p[j].op # "close"

\* cmdCh was full: make room and try again, before the rest.
Prepends(p, q) ==
  /\ p[1].op = "send"
  /\ \E x, y : Mute(x) /\ Mute(y) /\ q = <<x, y>> \o Tail(p)

\* Advance(a, n) leaves out these steps.
LEMMA AdvanceLeaves ==
  ASSUME Programs, NEW a \in Actors, NEW n \in Nat, Advance(a, n), prog[a] # <<>>,
         n + 1 <= Len(prog[a]),
         n = 0 \/ prog[a][n + 1].op \in {"set", "send", "shut"},
         prog[a][1].op = "close" \/ \A j \in 2..(n + 1) : prog[a][j].op # "close"
  PROVE  /\ LeavesOut(prog[a], prog'[a])
         /\ \A b \in Actors \ {a} : prog'[b] = prog[b]
  <1>1. Dropped(prog[a], prog'[a], n + 1) /\ \A b \in Actors \ {a} : prog'[b] = prog[b]
    BY Advanced
  <1>2. n + 1 \in 1..Len(prog[a]) /\ (n = 0 => n + 1 = 1)
    OBVIOUS
  <1> QED BY <1>1, <1>2 DEF LeavesOut

\* In particular one.
LEMMA AdvanceOne ==
  ASSUME Programs, NEW a \in Actors, Advance(a, 0), prog[a] # <<>>
  PROVE  /\ LeavesOut(prog[a], prog'[a])
         /\ \A b \in Actors \ {a} : prog'[b] = prog[b]
  <1>1. Len(prog[a]) >= 1
    BY DEF Programs, Good
  <1>2. PICK n \in Nat : n = 0
    OBVIOUS
  <1>3. \A j \in 2..(n + 1) : prog[a][j].op # "close"
    BY <1>2
  <1> QED BY <1>1, <1>2, <1>3, AdvanceLeaves

\* Only the runner writes.
LEMMA OnlyRunnerWrites ==
  ASSUME Programs, NEW a \in Actors, prog[a] # <<>>, prog[a][1].op \in Writing
  PROVE  a = "runner"
  <1>1. 1 \in 1..Len(prog[a])
    BY DEF Programs, Good
  <1> QED BY <1>1 DEF Programs, Handler, Silent

\* The word of the runner's program says what its first step is.
LEMMA WordFirst ==
  ASSUME NEW p, Good(p), p # <<>>, NEW w \in Words, Writes(p, w)
  PROVE  /\ p[1].op = "frame" => w # <<>> /\ Marked(p[1], w[1])
         /\ p[1].op \in {"shut", "cut"} => w # <<>> /\ w[1] = p[1].op
         /\ p[1].op \notin {"frame", "shut", "cut", "set"} => w = <<>>
  <1>1. Dropped(p, Tail(p), 1)
    BY TailDropped DEF Good
  <1>2. w \in Seq(Marks)
    BY WordTypes
  <1>3. \/ p[1].op = "set"
        \/ w # <<>> /\ Marked(p[1], w[1])
        \/ w = <<>> /\ p[1].op \notin Writing
    BY <1>1, <1>2, WritesOn
  <1> QED BY <1>3 DEF Marked, Writing

\* What a step of a program does to the programs.
LEMMA StepLeaves ==
  ASSUME Programs, NEW w \in Words, Writes(prog["runner"], w), NEW a \in Actors, Step(a)
  PROVE  /\ prog[a] # <<>>
         /\ LeavesOut(prog[a], prog'[a]) \/ Prepends(prog[a], prog'[a])
         /\ \A b \in Actors \ {a} :
              \/ prog'[b] = prog[b]
              \/ b # "runner" /\ Program(prog'[b], <<>>, {"admin_delete"})
  <1>1. CASE Assign(a) \/ Snapshot(a) \/ Store(a) \/ DeleteRow(a)
    <2>1. prog[a] # <<>> /\ Advance(a, 0)
      BY <1>1 DEF Assign, Snapshot, Store, DeleteRow, Ready
    <2> QED BY <2>1, AdvanceOne
  <1>2. CASE DropOldest(a) \/ Resend(a) \/ SendManual(a) \/ ShutWriter(a) \/ CutSocket(a)
    <2>1. prog[a] # <<>> /\ Advance(a, 0)
      BY <1>2 DEF DropOldest, Resend, SendManual, ShutWriter, CutSocket, Ready
    <2> QED BY <2>1, AdvanceOne
  <1>3. CASE CloseOnce(a)
    <2>1. prog[a] # <<>> /\ prog[a][1].op = "close"
      BY <1>3, AtStep DEF CloseOnce
    <2>2. CASE Advance(a, 0)
      BY <2>1, <2>2, AdvanceOne
    <2>3. CASE Advance(a, 5)
      <3>1. 1 \in 1..Len(prog[a]) /\ 1 + 5 <= Len(prog[a]) /\ prog[a][1 + 5].op = "set"
        BY <2>1 DEF Programs, Good, Linked
      <3>2. PICK n \in Nat : n = 5
        OBVIOUS
      <3>3. n + 1 <= Len(prog[a]) /\ prog[a][n + 1].op = "set" /\ Advance(a, n)
        BY <2>3, <3>1, <3>2
      <3> QED BY <2>1, <3>3, AdvanceLeaves
    <2> QED BY <1>3, <2>2, <2>3 DEF CloseOnce
  <1>4. CASE SendCommand(a)
    <2>1. prog[a] # <<>> /\ prog[a][1].op = "send" /\ Next1(a) = prog[a][1] /\ Fine(prog[a][1])
      BY <1>4, AtStep DEF SendCommand
    <2>2. CASE Advance(a, 0)
      BY <2>1, <2>2, AdvanceOne
    <2>3. CASE prog' = [prog EXCEPT ![a] = <<Act("drop_oldest"),
                         [op |-> "resend", cmd |-> Next1(a).cmd]>> \o Tail(@)]
      <3> DEFINE x == Act("drop_oldest")
                 y == [op |-> "resend", cmd |-> Next1(a).cmd]
      <3>1. Mute(x)
        BY MuteActs
      <3>2. Next1(a).cmd \in Commands
        BY <2>1 DEF Fine
      <3>3. Mute(y)
        BY <3>2 DEF Mute, Simple, Fine, AfterClose, Writing
      <3>4. prog' = [prog EXCEPT ![a] = <<x, y>> \o Tail(@)]
        BY <2>3
      <3> HIDE DEF x, y
      <3>5. prog'[a] = <<x, y>> \o Tail(prog[a]) /\ \A b \in Actors \ {a} : prog'[b] = prog[b]
        BY <3>4 DEF Programs
      <3> QED BY <2>1, <3>1, <3>3, <3>5 DEF Prepends
    <2> QED BY <1>4, <2>2, <2>3 DEF SendCommand
  <1>5. CASE Spawn(a)
    <2>1. /\ prog[a] # <<>> /\ Next1(a) = prog[a][1] /\ prog[a][1].op = "spawn"
          /\ Fine(prog[a][1]) /\ Len(prog[a]) >= 1
      BY <1>5, AtStep DEF Spawn
    <2> DEFINE q == Tail(prog[a])
               r == <<Act("delay"), Send([type |-> "inject", how |-> Next1(a).how])>>
    <2>2. PICK i \in Injectors :
            prog[i] = <<>> /\ prog' = [prog EXCEPT ![a] = q, ![i] = r]
      BY <1>5 DEF Spawn
    <2>3. Program(r, <<>>, {"admin_delete"})
      BY <2>1, InjectorProgram DEF Fine
    <2>4. Dropped(prog[a], q, 1)
      BY <2>1, TailDropped DEF Programs, Good
    <2> HIDE DEF q, r
    <2>5. i \in Actors /\ i # a /\ i # "runner"
      BY <2>1, <2>2, RunnerAssumption DEF Actors
    <2>6. prog'[a] = q /\ prog'[i] = r /\ \A b \in Actors \ {a, i} : prog'[b] = prog[b]
      BY <2>2, <2>5 DEF Programs
    <2>7. LeavesOut(prog[a], q)
      <3>1. 1 \in 1..Len(prog[a]) /\ \A j \in 2..1 : prog[a][j].op # "close"
        BY <2>1
      <3> QED BY <2>4, <3>1 DEF LeavesOut
    <2> QED BY <2>1, <2>3, <2>5, <2>6, <2>7
  <1>6. CASE Delay(a)
    <2>1. prog[a] # <<>> /\ prog[a][1].op = "delay"
      BY <1>6, AtStep DEF Delay
    <2>2. CASE Advance(a, 0)
      BY <2>1, <2>2, AdvanceOne
    <2>3. CASE Advance(a, 1)
      <3>1. 1 \in 1..Len(prog[a]) /\ 1 + 1 <= Len(prog[a]) /\ prog[a][1 + 1].op = "send"
        BY <2>1 DEF Programs, Good, Linked
      <3>2. PICK n \in Nat : n = 1
        OBVIOUS
      <3>3. n + 1 <= Len(prog[a]) /\ prog[a][n + 1].op = "send" /\ Advance(a, n)
        BY <2>3, <3>1, <3>2
      <3>4. \A j \in 2..(n + 1) : prog[a][j].op # "close"
        BY <3>1, <3>2
      <3> QED BY <2>1, <3>3, <3>4, AdvanceLeaves
    <2> QED BY <1>6, <2>2, <2>3 DEF Delay
  <1>7. CASE Emit(a)
    <2>1. /\ prog[a] # <<>> /\ prog[a][1].op = "frame" /\ Next1(a) = prog[a][1]
          /\ Fine(prog[a][1]) /\ Good(prog[a])
      BY <1>7, AtStep DEF Emit, Programs
    <2>2. CASE Advance(a, 0)
      BY <2>1, <2>2, AdvanceOne
    <2>3. CASE ~Advance(a, 0)
      <3>1. Advance(a, Next1(a).skip) /\ Next1(a).skip # 0
        BY <1>7, <2>3 DEF Emit
      <3>2. Next1(a).skip = 2 /\ prog[a][1].kind = "final"
        BY <2>1, <3>1 DEF Fine
      <3>3. a = "runner"
        BY <2>1, OnlyRunnerWrites DEF Writing
      <3>4. w = Finishing
        <4>1. w # <<>> /\ Marked(prog[a][1], w[1])
          BY <2>1, <3>3, WordFirst
        <4>2. w[1] = "final"
          BY <2>1, <3>2, <4>1 DEF Marked
        <4> QED BY <4>1, <4>2, WordHeads DEF Words
      <3>5. PICK n \in Nat : n = 2
        OBVIOUS
      <3>6. Advance(a, n) /\ n + 1 = 3
        BY <3>1, <3>2, <3>5
      <3>7. Dropped(prog[a], prog'[a], 3)
        BY <3>6, Advanced
      <3>8. Len(prog[a]) >= 3 /\ prog[a][2].op = "frame" /\ prog[a][3].op = "shut"
        BY <2>1, <3>3, <3>4, <3>7, FinishingLeftOut
      <3>9. n + 1 <= Len(prog[a]) /\ prog[a][n + 1].op = "shut"
        BY <3>6, <3>8
      <3>10. \A j \in 2..(n + 1) : prog[a][j].op # "close"
        <4>1. \A j \in 2..(n + 1) : j = 2 \/ j = 3
          BY <3>6
        <4> QED BY <3>8, <4>1
      <3> QED BY <2>1, <3>6, <3>9, <3>10, AdvanceLeaves
    <2> QED BY <2>2, <2>3
  <1> QED BY <1>1, <1>2, <1>3, <1>4, <1>5, <1>6, <1>7 DEF Step

\* Only a snapshot changes a snapshot, and no step of a program moves the loop.
LEMMA StepKeeps ==
  ASSUME NEW a \in Actors, Step(a)
  PROVE  /\ snap' = snap \/ Snapshot(a)
         /\ pc' = pc /\ gone' = gone /\ keepalive' = keepalive
  <1>1. CASE Assign(a) \/ CloseOnce(a) \/ Snapshot(a) \/ Store(a) \/ DeleteRow(a)
    BY <1>1 DEF Assign, CloseOnce, Snapshot, Store, DeleteRow
  <1>2. CASE SendCommand(a) \/ DropOldest(a) \/ Resend(a) \/ SendManual(a)
    BY <1>2 DEF SendCommand, DropOldest, Resend, SendManual
  <1>3. CASE Spawn(a) \/ Delay(a) \/ Emit(a) \/ ShutWriter(a) \/ CutSocket(a)
    BY <1>3 DEF Spawn, Delay, Emit, ShutWriter, CutSocket
  <1> QED BY <1>1, <1>2, <1>3 DEF Step

-----------------------------------------------------------------------------
(***************************************************************************)
(* What a step writes, told from the word.                                 *)
(***************************************************************************)
\* The frame is written, or refused because the writer is closed or the
\* client has gone.
Wrote(kind) == ~shut /\ wire'.end = Append(wire.end, kind) /\ shut' = shut
Refused == wire'.end = wire.end /\ shut' = TRUE /\ (shut \/ gone)
Unwritten == wire'.end = wire.end /\ shut' = shut

\* The done frame is written if the API has one.
DoneWritten == IF ses.api = "responses" THEN Unwritten ELSE Wrote("done")

Onward(w, v) ==
  \/ v = w /\ Unwritten
  \/ w \in {Content, Answering} /\ v = Tail(w) /\ (Unwritten \/ Refused)
  \/ w = Finishing /\ v = DoneShut /\ Wrote("final")
  \/ w = Finishing /\ v = <<>> /\ Refused
  \/ w \in {ErrorDone, ErrorShut} /\ v = Tail(w) /\ (Wrote("error") \/ Refused)
  \/ w = DoneShut /\ v = OnlyShut /\ (DoneWritten \/ Refused)
  \/ w = Garbling /\ v = Cutting /\ (Wrote("malformed") \/ Refused)
  \/ w = OnlyShut /\ v = <<>> /\ wire'.end = wire.end /\ shut' = TRUE
  \/ w = Cutting /\ v = SetCut /\ wire'.end = wire.end /\ shut' = TRUE
  \/ w = SetCut /\ v = OnlyCut /\ Unwritten
  \/ w = OnlyCut /\ v = <<>> /\ wire'.end = Append(wire.end, "cut") /\ shut' = shut

\* The tail of a word is a word.
LEMMA WordTail == ASSUME NEW w \in Words, w # <<>> PROVE Tail(w) \in Words
  BY WordTails DEF Words

\* A frame the runner emits.
LEMMA EmitOnward ==
  ASSUME Programs, StreamForm, NEW w \in Words, Writes(prog["runner"], w), Emit("runner")
  PROVE  \E v \in Words : Writes(prog'["runner"], v) /\ Onward(w, v)
  <1>1. "runner" \in Actors
    BY DEF Actors
  <1> DEFINE p == prog["runner"]
             q == prog'["runner"]
             kind == p[1].kind
  <1>2. p # <<>> /\ p[1].op = "frame" /\ Next1("runner") = p[1] /\ Fine(p[1]) /\ Good(p)
    BY <1>1, AtStep DEF Emit, Programs
  <1>3. w # <<>> /\ Marked(p[1], w[1]) /\ w \in Seq(Marks)
    BY <1>2, WordFirst, WordTypes
  <1>4. /\ kind = w[1] \/ (w[1] = "content" /\ kind \notin {"final", "done", "error", "malformed"})
        /\ w[1] \in {"content", "final", "done", "error", "malformed"}
    BY <1>2, <1>3 DEF Marked
  <1>5. p[1].skip = IF kind = "final" THEN 2 ELSE 0
    BY <1>2 DEF Fine
  <1>6. \/ HasNo(kind) /\ Advance("runner", 0) /\ Unwritten
        \/ /\ ~HasNo(kind) /\ Advance("runner", 0) /\ ~shut
           /\ wire' = Written(wire, kind) /\ shut' = shut
        \/ Advance("runner", p[1].skip) /\ Refused
    BY <1>2 DEF Emit, Refused, Unwritten
  <1>7. \/ w[1] = "content" /\ Advance("runner", 0) /\ (Unwritten \/ Refused)
        \/ w[1] = "done" /\ Advance("runner", 0) /\ DoneWritten
        \/ w[1] \notin {"content", "done"} /\ Advance("runner", 0) /\ Wrote(w[1])
        \/ w[1] \notin {"content", "final"} /\ Advance("runner", 0) /\ Refused
        \/ w[1] = "final" /\ Advance("runner", 2) /\ Refused
    <2>0. CASE HasNo(kind) /\ Advance("runner", 0) /\ Unwritten
      <3>1. ses.api = "responses" /\ kind \in {"done", "tool"}
        BY <2>0 DEF HasNo
      <3>2. w[1] = "content" \/ w[1] = "done"
        BY <1>4, <3>1
      <3> QED BY <2>0, <3>1, <3>2 DEF DoneWritten
    <2>1. CASE /\ ~HasNo(kind) /\ Advance("runner", 0) /\ ~shut
               /\ wire' = Written(wire, kind) /\ shut' = shut
      <3>1. w[1] = "content" => Unwritten
        BY <1>4, <2>1, WrittenIs DEF Unwritten
      <3>2. w[1] # "content" => kind = w[1] /\ Wrote(w[1])
        BY <1>4, <2>1, WrittenIs DEF Wrote
      <3>3. w[1] = "done" => ses.api # "responses"
        BY <2>1, <3>2 DEF HasNo
      <3> QED BY <2>1, <3>1, <3>2, <3>3 DEF DoneWritten
    <2>2. CASE Advance("runner", p[1].skip) /\ Refused
      BY <1>4, <1>5, <2>2
    <2> QED BY <1>6, <2>0, <2>1, <2>2
  <1>8. ASSUME Advance("runner", 0) PROVE Writes(q, Tail(w))
    <2>1. PICK n \in Nat : n = 0
      OBVIOUS
    <2>2. Dropped(p, q, n + 1)
      BY <1>1, <1>8, <2>1, Advanced
    <2>3. Dropped(p, q, 1)
      BY <2>1, <2>2
    <2> QED BY <1>2, <1>3, <2>3, WritesOn
  <1>9. ASSUME Advance("runner", 2), w = Finishing PROVE Writes(q, <<>>)
    <2>1. PICK n \in Nat : n = 2
      OBVIOUS
    <2>2. Dropped(p, q, n + 1)
      BY <1>1, <1>9, <2>1, Advanced
    <2>3. Dropped(p, q, 3)
      BY <2>1, <2>2
    <2> QED BY <1>2, <1>9, <2>3, FinishingLeftOut
  <1> HIDE DEF p, q, kind
  <1>10. /\ w[1] = "content" => w \in {Content, Answering}
         /\ w[1] = "final" => w = Finishing
         /\ w[1] = "done" => w = DoneShut
         /\ w[1] = "error" => w \in {ErrorDone, ErrorShut}
         /\ w[1] = "malformed" => w = Garbling
    BY <1>3, WordHeads DEF Words
  <1>11. Tail(w) \in Words /\ <<>> \in Words
    BY <1>3, WordTail DEF Words
  <1>12. \/ Advance("runner", 0) /\ Onward(w, Tail(w))
         \/ w = Finishing /\ Advance("runner", 2) /\ Onward(w, <<>>)
    BY <1>4, <1>7, <1>10, WordTails DEF Onward
  <1> QED BY <1>8, <1>9, <1>11, <1>12 DEF q

\* Any step of the runner's program.
LEMMA RunnerOnward ==
  ASSUME Programs, StreamForm, NEW w \in Words, Writes(prog["runner"], w), Step("runner")
  PROVE  \E v \in Words : Writes(prog'["runner"], v) /\ Onward(w, v)
  <1>1. "runner" \in Actors
    BY DEF Actors
  <1> DEFINE p == prog["runner"]
             q == prog'["runner"]
  <1>2. /\ p # <<>> /\ Good(p) /\ w \in Seq(Marks) /\ <<>> \in Words
        /\ LeavesOut(p, q) \/ Prepends(p, q)
    BY <1>1, StepLeaves, WordTypes DEF Programs, Words
  <1>3. CASE Emit("runner")
    BY <1>3, EmitOnward
  <1>4. ASSUME Advance("runner", 0) PROVE Dropped(p, q, 1)
    <2>1. PICK n \in Nat : n = 0
      OBVIOUS
    <2>2. Dropped(p, q, n + 1)
      BY <1>1, <1>4, <2>1, Advanced
    <2> QED BY <2>1, <2>2
  <1>5. CASE ShutWriter("runner") \/ CutSocket("runner")
    <2>1. /\ p[1].op \in {"shut", "cut"} /\ Advance("runner", 0)
          /\ p[1].op = "shut" => wire' = wire /\ shut' = TRUE
          /\ p[1].op = "cut" => wire' = [wire EXCEPT !.end = Append(@, "cut")] /\ shut' = shut
      BY <1>1, <1>5, AtStep DEF ShutWriter, CutSocket
    <2>2. w # <<>> /\ w[1] = p[1].op
      BY <1>2, <2>1, WordFirst
    <2>3. Writes(q, Tail(w))
      BY <1>2, <1>4, <2>1, <2>2, WritesOn
    <2>4. p[1].op = "cut" => wire'.end = Append(wire.end, "cut")
      BY <2>1 DEF StreamForm
    <2> HIDE DEF p, q
    <2>5. w \in {OnlyShut, Cutting} \/ w = OnlyCut
      BY <2>1, <2>2, WordHeads DEF Words
    <2>6. Onward(w, Tail(w))
      BY <2>1, <2>2, <2>4, <2>5, WordTails, WordHeads DEF Onward
    <2> QED BY <2>2, <2>3, <2>6, WordTail DEF q
  <1>6. CASE Assign("runner")
    <2>1. p[1].op = "set" /\ Advance("runner", 0) /\ Unwritten
      BY <1>1, <1>6, AtStep DEF Assign, streamVars, Unwritten
    <2>2. \/ Writes(q, w)
          \/ w # <<>> /\ w[1] = "set" /\ Writes(q, Tail(w))
          \/ w = <<>> /\ Writes(q, <<>>)
      BY <1>2, <1>4, <2>1, WritesOn DEF Marked
    <2>3. w # <<>> /\ w[1] = "set" => w = SetCut
      BY WordHeads DEF Words
    <2> HIDE DEF p, q
    <2>4. CASE w # <<>> /\ w[1] = "set" /\ Writes(q, Tail(w))
      BY <2>1, <2>3, <2>4, WordTails, WordTail DEF Onward, q
    <2> QED BY <2>1, <2>2, <2>4 DEF Onward, q
  <1>7. CASE p[1].op \notin {"frame", "shut", "cut", "set"} /\ UNCHANGED <<wire, shut>>
    <2>1. w = <<>>
      BY <1>2, <1>7, WordFirst
    <2>2. Onward(w, <<>>)
      BY <1>7, <2>1 DEF Onward, Unwritten
    <2>3. CASE LeavesOut(p, q)
      <3>1. PICK m \in 1..Len(p) : Dropped(p, q, m)
        BY <2>3 DEF LeavesOut
      <3>2. m \in Nat /\ Writes(p, <<>>)
        BY <2>1
      <3> QED BY <1>2, <2>2, <3>1, <3>2, QuietOn
    <2>4. CASE Prepends(p, q)
      <3>1. PICK x, y : Mute(x) /\ Mute(y) /\ q = <<x, y>> \o Tail(p)
        BY <2>4 DEF Prepends
      <3>2. Dropped(p, Tail(p), 1)
        BY <1>2, TailDropped DEF Good
      <3>3. Prog(Tail(p)) /\ Silent(Tail(p))
        BY <2>1, <3>2, QuietOn, QuietWrites DEF Dropped
      <3>4. Program(<<x, y>>, <<>>, {})
        BY <3>1, MuteTwo
      <3>5. Prog(<<x, y>>) /\ Writes(<<x, y>>, <<>>) /\ <<>> \in Seq(Marks)
        BY <3>4, WordTypes DEF Program, Fresh, Good, Words
      <3>6. Writes(<<x, y>> \o Tail(p), <<>>)
        BY <3>3, <3>5, WritesJoined
      <3> QED BY <1>2, <2>2, <3>1, <3>6
    <2> QED BY <1>2, <2>3, <2>4
  <1>8. CASE CloseOnce("runner") \/ Snapshot("runner") \/ Store("runner") \/ DeleteRow("runner")
    BY <1>1, <1>7, <1>8, AtStep DEF CloseOnce, Snapshot, Store, DeleteRow, streamVars
  <1>9. CASE SendCommand("runner") \/ DropOldest("runner") \/ Resend("runner") \/ SendManual("runner")
    BY <1>1, <1>7, <1>9, AtStep DEF SendCommand, DropOldest, Resend, SendManual, streamVars
  <1>10. CASE Spawn("runner") \/ Delay("runner")
    BY <1>1, <1>7, <1>10, AtStep DEF Spawn, Delay, streamVars
  <1> QED BY <1>3, <1>5, <1>6, <1>8, <1>9, <1>10 DEF Step

\* The others write nothing.
LEMMA OthersQuiet ==
  ASSUME Programs, NEW w \in Words, Writes(prog["runner"], w),
         NEW a \in Actors, a # "runner", Step(a)
  PROVE  wire' = wire /\ shut' = shut /\ prog'["runner"] = prog["runner"]
  <1>1. wire' = wire /\ shut' = shut
    <2>1. ~Emit(a) /\ ~ShutWriter(a) /\ ~CutSocket(a)
      BY AtStep, OnlyRunnerWrites DEF Emit, ShutWriter, CutSocket, Writing
    <2>2. CASE Assign(a) \/ CloseOnce(a) \/ Snapshot(a) \/ Store(a) \/ DeleteRow(a)
      BY <2>2 DEF Assign, CloseOnce, Snapshot, Store, DeleteRow, streamVars
    <2>3. CASE SendCommand(a) \/ DropOldest(a) \/ Resend(a) \/ SendManual(a)
      BY <2>3 DEF SendCommand, DropOldest, Resend, SendManual, streamVars
    <2>4. CASE Spawn(a) \/ Delay(a)
      BY <2>4 DEF Spawn, Delay, streamVars
    <2> QED BY <2>1, <2>2, <2>3, <2>4 DEF Step
  <1>2. prog'["runner"] = prog["runner"]
    BY StepLeaves DEF Actors
  <1> QED BY <1>1, <1>2

-----------------------------------------------------------------------------
(***************************************************************************)
(* The stream has one ending, and nothing comes after it.                  *)
(***************************************************************************)
\* What each word agrees with.
LEMMA AgreesIs ==
  ASSUME NEW end
  PROVE  /\ Agrees(<<>>, end) <=> end \in Endings
         /\ \A w \in {Content, Answering, Finishing, ErrorDone, ErrorShut, Garbling} :
              Agrees(w, end) <=> end = <<>>
         /\ Agrees(DoneShut, end) <=>
              end \in {<<"final">>, <<"error">>} \/ (end = <<>> /\ shut)
         /\ Agrees(OnlyShut, end) <=> end \in Finals \union Errors
         /\ Agrees(Cutting, end) <=> end \in {<<>>, <<"malformed">>}
         /\ \A w \in {SetCut, OnlyCut} :
              Agrees(w, end) <=> end \in {<<>>, <<"malformed">>} /\ shut
  <1>1. /\ Agrees(<<>>, end) <=> end \in Endings
        /\ Agrees(DoneShut, end) <=>
             end \in {<<"final">>, <<"error">>} \/ (end = <<>> /\ shut)
    BY WordsDiffer DEF Agrees
  <1>2. /\ Agrees(OnlyShut, end) <=> end \in Finals \union Errors
        /\ Agrees(Cutting, end) <=> end \in {<<>>, <<"malformed">>}
    BY WordsDiffer DEF Agrees
  <1>3. \A w \in {SetCut, OnlyCut} : Agrees(w, end) <=> end \in {<<>>, <<"malformed">>} /\ shut
    BY WordsDiffer DEF Agrees
  <1>4. \A w \in {Content, Answering, Finishing, ErrorDone, ErrorShut, Garbling} :
          Agrees(w, end) <=> end = <<>>
    BY WordsDiffer DEF Agrees
  <1> QED BY <1>1, <1>2, <1>3, <1>4

\* Those that agree with the stream before it has ended or been cut.
LEMMA SomeEndings ==
  /\ <<>> \in Endings /\ Finals \union Errors \subseteq Endings
  /\ <<>> \in Finals /\ <<"final">> \in Finals /\ <<"final", "done">> \in Finals
  /\ <<"error">> \in Errors /\ <<"error", "done">> \in Errors
  /\ <<"cut">> \in Endings /\ <<"malformed", "cut">> \in Endings
  BY DEF Endings, Finals, Errors, Cuts

\* What is left to be written goes on agreeing with what has been written.
LEMMA AgreesOn ==
  ASSUME NEW w \in Words, NEW v \in Words, Agrees(w, wire.end), Onward(w, v),
         shut \in BOOLEAN
  PROVE  Agrees(v, wire.end)'
  <1> USE DEF Unwritten, Refused, Wrote
  <1>1. CASE v = w /\ Unwritten
    BY <1>1 DEF Agrees
  <1>2. CASE w \in {Content, Answering} /\ v = Tail(w) /\ (Unwritten \/ Refused)
    <2>1. wire.end = <<>> /\ wire'.end = <<>> /\ v \in {<<>>, Finishing}
      BY <1>2, WordTails, AgreesIs
    <2> QED BY <2>1, WordsDiffer, SomeEndings DEF Agrees
  <1>3. CASE w = Finishing /\ v = DoneShut /\ Wrote("final")
    <2>1. wire'.end = <<"final">>
      BY <1>3, Appended, AgreesIs
    <2> QED BY <1>3, <2>1, WordsDiffer DEF Agrees
  <1>4. CASE w = Finishing /\ v = <<>> /\ Refused
    <2>1. wire'.end = <<>>
      BY <1>4, AgreesIs
    <2> QED BY <1>4, <2>1, WordsDiffer, SomeEndings DEF Agrees
  <1>5. CASE w \in {ErrorDone, ErrorShut} /\ v = Tail(w) /\ (Wrote("error") \/ Refused)
    <2>1. wire.end = <<>> /\ v \in {DoneShut, OnlyShut}
      BY <1>5, WordTails, AgreesIs
    <2>2. wire'.end = <<"error">> \/ (wire'.end = <<>> /\ shut' = TRUE)
      BY <1>5, <2>1, Appended
    <2> QED BY <2>1, <2>2, WordsDiffer, SomeEndings DEF Agrees
  <1>6. CASE w = DoneShut /\ v = OnlyShut /\ (DoneWritten \/ Refused)
    <2>0. wire'.end = wire.end \/ (wire'.end = Append(wire.end, "done") /\ ~shut)
      <3>1. CASE DoneWritten
        BY <3>1 DEF DoneWritten
      <3>2. CASE Refused
        BY <3>2
      <3> QED BY <1>6, <3>1, <3>2
    <2>1. wire.end \in {<<"final">>, <<"error">>} \/ (wire.end = <<>> /\ shut)
      BY <1>6, AgreesIs
    <2>2. wire'.end \in Finals \union Errors
      BY <2>0, <2>1, Appended, SomeEndings
    <2> QED BY <1>6, <2>2, WordsDiffer DEF Agrees
  <1>7. CASE w = Garbling /\ v = Cutting /\ (Wrote("malformed") \/ Refused)
    <2>1. wire'.end \in {<<>>, <<"malformed">>}
      BY <1>7, Appended, AgreesIs
    <2> QED BY <1>7, <2>1, WordsDiffer DEF Agrees
  <1>8. CASE w = OnlyShut /\ v = <<>> /\ wire'.end = wire.end
    <2>1. wire'.end \in Endings
      BY <1>8, AgreesIs, SomeEndings
    <2> QED BY <1>8, <2>1, WordsDiffer DEF Agrees
  <1>9. CASE w = Cutting /\ v = SetCut /\ wire'.end = wire.end /\ shut' = TRUE
    <2>1. wire'.end \in {<<>>, <<"malformed">>}
      BY <1>9, AgreesIs
    <2> QED BY <1>9, <2>1, WordsDiffer DEF Agrees
  <1>10. CASE w = SetCut /\ v = OnlyCut /\ Unwritten
    <2>1. wire'.end \in {<<>>, <<"malformed">>} /\ shut'
      BY <1>10, AgreesIs
    <2> QED BY <1>10, <2>1, WordsDiffer DEF Agrees
  <1>11. CASE w = OnlyCut /\ v = <<>> /\ wire'.end = Append(wire.end, "cut")
    <2>1. wire'.end \in Endings
      BY <1>11, Appended, AgreesIs, SomeEndings
    <2> QED BY <1>11, <2>1, WordsDiffer DEF Agrees
  <1> QED BY <1>1, <1>2, <1>3, <1>4, <1>5, <1>6, <1>7, <1>8, <1>9, <1>10, <1>11 DEF Onward

\* A loop that has not ended writes content only, with nothing before it.
LEMMA LoopWrites ==
  ASSUME StreamForm, NEW w, Told(w), Loop
  PROVE  /\ wire'.end = wire.end /\ wire'.late = wire.late /\ keepalive' = keepalive
         /\ wire' = [end |-> wire'.end, late |-> wire'.late, texts |-> wire'.texts]
         /\ shut' = shut \/ (shut' = TRUE /\ pc \notin Final /\ gone)
         /\ gone' = gone
  <1> USE DEF streamVars
  <1>1. CASE WriteEcho
    <2>1. pc \notin Final /\ wire.end = <<>> /\ wire' = Written(wire, "echo")
      BY <1>1 DEF WriteEcho, At, Final, Told, PlaceFits
    <2> QED BY <1>1, <2>1, WrittenIs DEF WriteEcho
  <1>2. CASE WriteEchoFails
    <2>1. pc \notin Final /\ gone
      BY <1>2 DEF WriteEchoFails, At, Final, Told, PlaceFits
    <2> QED BY <1>2, <2>1 DEF WriteEchoFails, StreamForm
  <1>3. CASE WritePiece
    <2>1. pc \notin Final /\ wire.end = <<>> /\ (shut => gone)
      BY <1>3 DEF WritePiece, At, Final, Told, PlaceFits
    <2>2. CASE wire' = [Written(wire, "text") EXCEPT !.texts = Append(@, text)] /\ UNCHANGED shut
      <3>1. PICK v : /\ v = Written(wire, "text") /\ v.end = wire.end
                     /\ v = [end |-> v.end, late |-> v.late, texts |-> wire.texts]
                     /\ v.late = wire.late
        BY <2>1, WrittenIs
      <3>2. keepalive' = keepalive /\ gone' = gone BY <1>3 DEF WritePiece
      <3>3. shut' = shut BY <2>2
      <3>4. wire' = [v EXCEPT !.texts = Append(v.texts, text)] BY ONLY <2>2, <3>1
      <3>5. wire' = [end |-> wire.end, late |-> wire.late, texts |-> Append(v.texts, text)]
        BY ONLY <3>1, <3>4
      <3> QED BY <3>2, <3>3, <3>5
    <2>3. CASE (shut \/ gone) /\ shut' = TRUE /\ UNCHANGED wire
      BY <1>3, <2>1, <2>3 DEF WritePiece, StreamForm
    <2> QED BY <1>3, <2>2, <2>3 DEF WritePiece
  <1>4. CASE TakeCommand \/ Move \/ SkipEmptyUnit \/ BucketWait \/ Account
    BY <1>4 DEF TakeCommand, Move, SkipEmptyUnit, BucketWait, Account, StreamForm
  <1>5. CASE AgentGap \/ EmitToolCall \/ AgentPart \/ SeeClientGone \/ SeeDone \/ TakeText
    BY <1>5 DEF AgentGap, EmitToolCall, AgentPart, SeeClientGone, SeeDone, TakeText, StreamForm
  <1>6. CASE NextPiece \/ PieceWait \/ Unregister \/ CloseAndPersist
    BY <1>6 DEF NextPiece, PieceWait, Unregister, CloseAndPersist, StreamForm
  <1> QED BY <1>1, <1>2, <1>3, <1>4, <1>5, <1>6 DEF Loop

\* One comment at most is late.
LEMMA FormKept ==
  ASSUME Programs, StreamForm, NEW w \in Words, Told(w), [Next]_vars
  PROVE  StreamForm'
  <1>1. CASE \E a \in Actors : Step(a)
    <2>1. PICK a \in Actors : Step(a)
      BY <1>1
    <2>2. gone' = gone /\ keepalive' = keepalive
      BY <2>1, StepKeeps
    <2>3. CASE Emit(a)
      <3>1. prog[a] # <<>> /\ prog[a][1].op = "frame" /\ Next1(a) = prog[a][1] /\ Fine(prog[a][1])
        BY <2>3, AtStep DEF Emit
      <3>2. a = "runner" /\ Good(prog["runner"])
        BY <3>1, OnlyRunnerWrites DEF Writing, Programs, Actors
      <3>3. w # <<>> /\ Marked(prog[a][1], w[1])
        BY <3>1, <3>2, WordFirst DEF Told
      <3> DEFINE kind == prog[a][1].kind
      <3>4. /\ kind \in {"echo", "tool", "comment"} => wire.end = <<>>
            /\ kind \in {"echo", "tool", "comment", "final", "done", "error", "malformed"}
        <4>1. kind \in {"echo", "tool", "comment"} => w[1] = "content"
          BY <3>1, <3>3 DEF Marked
        <4>2. w[1] = "content" => w \in {Content, Answering}
          BY <3>3, WordHeads DEF Words
        <4> QED BY <3>1, <4>1, <4>2 DEF Told, Agrees, Fine
      <3>5. \/ wire' = Written(wire, kind) /\ shut' = shut
            \/ wire' = wire /\ shut' = shut
            \/ wire' = wire /\ shut' = TRUE
        BY <2>3, <3>1 DEF Emit
      <3> HIDE DEF kind
      <3> QED BY <2>2, <3>4, <3>5, WrittenIs DEF StreamForm, OneLate
    <2>4. CASE ShutWriter(a) \/ CutSocket(a)
      BY <2>2, <2>4 DEF ShutWriter, CutSocket, StreamForm, OneLate
    <2>5. CASE ~Emit(a) /\ ~ShutWriter(a) /\ ~CutSocket(a)
      <3>1. wire' = wire /\ shut' = shut
        <4>1. CASE Assign(a) \/ CloseOnce(a) \/ Snapshot(a) \/ Store(a) \/ DeleteRow(a)
          BY <4>1 DEF Assign, CloseOnce, Snapshot, Store, DeleteRow, streamVars
        <4>2. CASE SendCommand(a) \/ DropOldest(a) \/ Resend(a) \/ SendManual(a)
          BY <4>2 DEF SendCommand, DropOldest, Resend, SendManual, streamVars
        <4>3. CASE Spawn(a) \/ Delay(a)
          BY <4>3 DEF Spawn, Delay, streamVars
        <4> QED BY <2>1, <2>5, <4>1, <4>2, <4>3 DEF Step
      <3> QED BY <2>2, <3>1 DEF StreamForm, OneLate
    <2> QED BY <2>3, <2>4, <2>5
  <1>2. CASE \E a \in Admins : \/ \E name \in Requests \ {"inject", "schedule"} : Ask(a, name)
                               \/ \E how \in FaultModes : AskInject(a, how)
    BY <1>2 DEF Ask, AskInject, streamVars, StreamForm, OneLate
  <1>3. CASE Leave
    BY <1>3 DEF Leave, streamVars, StreamForm, OneLate
  <1>4. CASE KeepAlive
    <2>1. /\ gone' = gone /\ keepalive' \in BOOLEAN
          /\ \/ ~shut /\ wire' = wire /\ shut' = shut /\ keepalive' = TRUE
             \/ keepalive /\ ~keepalive' /\ wire' = Written(wire, "comment") /\ shut' = shut
             \/ keepalive /\ ~keepalive' /\ wire' = wire /\ (shut' = shut \/ shut' = TRUE)
      BY <1>4 DEF KeepAlive, streamVars
    <2>2. CASE keepalive /\ ~keepalive' /\ wire' = Written(wire, "comment") /\ shut' = shut
      <3>1. wire.late = <<>>
        BY <2>2 DEF StreamForm, OneLate
      <3>2. Append(<<>>, "comment") = <<"comment">>
        BY Appended
      <3>3. /\ wire' = [end |-> wire'.end, late |-> wire'.late, texts |-> wire'.texts]
            /\ wire'.late = <<>> \/ (wire'.late = <<"comment">> /\ shut)
        <4> DEFINE u == Written(wire, "comment")
        <4>1. /\ u = [end |-> u.end, late |-> u.late, texts |-> wire.texts]
              /\ u.late = wire.late \/ (u.late = Append(wire.late, "comment") /\ shut)
          BY WrittenIs
        <4>2. wire' = u
          BY <2>2
        <4> HIDE DEF u
        <4> QED BY <3>1, <3>2, <4>1, <4>2
      <3> QED BY <2>1, <2>2, <3>3 DEF StreamForm, OneLate
    <2>3. CASE ~(keepalive /\ ~keepalive' /\ wire' = Written(wire, "comment") /\ shut' = shut)
      BY <2>1, <2>3 DEF StreamForm, OneLate
    <2> QED BY <2>2, <2>3
  <1>5. CASE Loop
    BY <1>5, LoopWrites DEF StreamForm, OneLate
  <1>6. CASE UNCHANGED vars
    BY <1>6 DEF vars, StreamForm, OneLate
  <1> QED BY <1>1, <1>2, <1>3, <1>4, <1>5, <1>6 DEF Next

\* How a step passes from what is to be written to what is to be written next.
Passes(w, v) ==
  \/ /\ prog'["runner"] = prog["runner"] /\ v = w
     /\ wire'.end = wire.end /\ (shut' = shut \/ (shut' = TRUE /\ gone))
     /\ pc' = pc \/ (prog["runner"] = <<>> /\ pc \notin Final) \/ (pc = "exit" /\ pc' = "deferred")
  \/ Step("runner") /\ pc' = pc /\ Onward(w, v)
  \/ CloseAndPersist /\ w = <<>> /\ v = <<>> /\ wire'.end = wire.end /\ shut' = shut
  \/ /\ w = <<>> /\ pc \notin Final /\ wire.end = <<>>
     /\ wire'.end = <<>> /\ (shut' = shut \/ (shut' = TRUE /\ gone))
     /\ \E p : Run(p, pc') /\ BeginsWith(p, v, pc')

\* The words of the programs the runner begins.
LEMMA BeginsWord ==
  ASSUME NEW p, NEW w, NEW place, BeginsWith(p, w, place)
  PROVE  /\ w \in Words /\ Good(p) /\ Writes(p, w) /\ CloseFirst(p) /\ Fresh(p)
         /\ \A e : e = <<>> => Agrees(w, e)
         /\ place \notin Final \/ place = "exit"
         /\ place \notin Final => w \in {<<>>, Content}
  <1>1. Good(p) /\ Writes(p, w) /\ CloseFirst(p) /\ Fresh(p)
    BY DEF BeginsWith, Program, Fresh
  <1>2. w \in {<<>>, Content, Finishing, Cutting} \union FaultWords
    BY DEF BeginsWith
  <1>3. w \in Words /\ \A e : e = <<>> => Agrees(w, e)
    BY <1>2, AgreesIs, SomeEndings DEF Words, FaultWords
  <1> QED BY <1>1, <1>3 DEF BeginsWith, Final

\* Told goes on when nothing is written and the runner's program stays.
LEMMA ToldStays ==
  ASSUME NEW w \in Words, Told(w), prog'["runner"] = prog["runner"], wire'.end = wire.end,
         shut \in BOOLEAN, shut' = shut \/ (shut' = TRUE /\ gone), gone => gone',
         pc' = pc \/ (prog["runner"] = <<>> /\ pc \notin Final /\ pc' \notin {"deferred", "stopped"})
           \/ (prog["runner"] = <<>> /\ pc = "exit" /\ pc' = "deferred")
  PROVE  Told(w)'
  <1>1. Agrees(w, wire.end)'
    BY AgreesIs, AgreesOn DEF Agrees, Told
  <1>2. prog["runner"] = <<>> => w = <<>>
    BY EmptyWord DEF Told
  <1>3. PlaceFits(w, wire.end)'
    BY <1>2 DEF Told, PlaceFits, Final
  <1> QED BY <1>1, <1>3 DEF Told

\* What is to be written after any step agrees with what has been written.
LEMMA ToldOn ==
  ASSUME Shape, StreamForm, NEW w \in Words, Told(w), [Next]_vars
  PROVE  \E v \in Words : Told(v)' /\ Passes(w, v)
  <1>0. Programs /\ Writes(prog["runner"], w) /\ shut \in BOOLEAN
    BY DEF Shape, Told, StreamForm
  <1>1. CASE \E a \in Actors : Step(a)
    <2>1. PICK a \in Actors : Step(a)
      BY <1>1
    <2>2. pc' = pc /\ gone' = gone
      BY <2>1, StepKeeps
    <2>3. CASE a # "runner"
      <3>1. wire' = wire /\ shut' = shut /\ prog'["runner"] = prog["runner"]
        BY <1>0, <2>1, <2>3, OthersQuiet
      <3> QED BY <1>0, <2>2, <3>1, ToldStays DEF Passes
    <2>4. CASE a = "runner"
      <3>1. PICK v \in Words : Writes(prog'["runner"], v) /\ Onward(w, v)
        BY <1>0, <2>1, <2>4, RunnerOnward
      <3>2. Agrees(v, wire.end)'
        BY <1>0, <3>1, AgreesOn DEF Told
      <3>3. PlaceFits(v, wire.end)'
        <4>1. ASSUME pc \notin Final
              PROVE  wire'.end = <<>> /\ v \in {<<>>, Content} /\ (shut' => gone)
          <5>1. wire.end = <<>> /\ w \in {<<>>, Content} /\ (shut => gone)
            BY <4>1 DEF Told, PlaceFits
          <5>2. w = <<>> => v = w /\ Unwritten
            BY <3>1, WordsDiffer DEF Onward
          <5>3. w = Content => (v = w /\ Unwritten) \/ (v = <<>> /\ (Unwritten \/ Refused))
            BY <3>1, WordsDiffer, WordTails DEF Onward
          <5> QED BY <5>1, <5>2, <5>3 DEF Unwritten, Refused
        <4>2. ASSUME pc \in {"deferred", "stopped"} PROVE v = <<>>
          <5>1. w = <<>>
            BY <4>2 DEF Told, PlaceFits
          <5> QED BY <3>1, <5>1, WordsDiffer DEF Onward
        <4> QED BY <2>2, <4>1, <4>2 DEF PlaceFits, Final
      <3>4. Told(v)'
        BY <3>1, <3>2, <3>3 DEF Told
      <3>5. Passes(w, v)
        BY <2>1, <2>2, <2>4, <3>1 DEF Passes
      <3> QED BY <3>4, <3>5
    <2> QED BY <2>3, <2>4
  <1>2. CASE \E a \in Admins : \/ \E name \in Requests \ {"inject", "schedule"} : Ask(a, name)
                               \/ \E how \in FaultModes : AskInject(a, how)
    <2>1. prog'["runner"] = prog["runner"]
      <3>1. PICK a \in Admins : \/ \E name \in Requests \ {"inject", "schedule"} : Ask(a, name)
                                \/ \E how \in FaultModes : AskInject(a, how)
        BY <1>2
      <3>2. a # "runner" /\ \E p : prog' = [prog EXCEPT ![a] = p]
        BY <1>0, <3>1, AskPrograms
      <3> QED BY <1>0, <3>2 DEF Programs, Actors
    <2>2. pc' = pc /\ wire' = wire /\ shut' = shut /\ gone' = gone
      BY <1>2 DEF Ask, AskInject, streamVars
    <2> QED BY <1>0, <2>1, <2>2, ToldStays DEF Passes
  <1>3. CASE Leave \/ KeepAlive
    <2>1. /\ pc' = pc /\ prog' = prog /\ (gone => gone') /\ wire'.end = wire.end
          /\ shut' = shut \/ (shut' = TRUE /\ gone)
      BY <1>3, WrittenIs DEF Leave, KeepAlive, streamVars, StreamForm
    <2> QED BY <1>0, <2>1, ToldStays DEF Passes
  <1>4. CASE Loop /\ LoopStep
    <2>1. /\ wire'.end = wire.end /\ (shut' = shut \/ (shut' = TRUE /\ gone)) /\ gone' = gone
      BY <1>4, LoopWrites
    <2>2. prog["runner"] = <<>> /\ pc \notin Final /\ w = <<>>
      BY <1>0, <1>4, EmptyWord DEF LoopStep
    <2>3. wire.end = <<>> /\ (shut => gone)
      BY <2>2 DEF Told, PlaceFits
    <2>4. CASE UNCHANGED prog /\ pc' \notin Final \ {"exit"}
      <3>1. pc' \notin {"deferred", "stopped"}
        BY <2>4 DEF Final
      <3>2. Told(w)'
        BY <1>0, <2>1, <2>2, <2>4, <3>1, ToldStays
      <3> QED BY <2>1, <2>2, <2>4, <3>2 DEF Passes
    <2>5. CASE \E p : Run(p, pc') /\ Begins(p, pc')
      <3>1. PICK p, v : Run(p, pc') /\ BeginsWith(p, v, pc')
        BY <2>5 DEF Begins
      <3>2. /\ v \in Words /\ Writes(p, v) /\ (\A e : e = <<>> => Agrees(v, e))
            /\ pc' \notin Final \/ pc' = "exit"
            /\ pc' \notin Final => v \in {<<>>, Content}
        BY <3>1, BeginsWord
      <3>3. prog'["runner"] = p
        BY <1>0, <3>1 DEF Run, Programs, Actors
      <3>4. Agrees(v, wire.end)'
        <4>1. v # DoneShut /\ v \notin {SetCut, OnlyCut}
          BY <3>1, WordsDiffer DEF BeginsWith, FaultWords
        <4> QED BY <2>1, <2>3, <3>2, <4>1 DEF Agrees
      <3>5. Told(v)'
        BY <2>1, <2>3, <3>2, <3>3, <3>4 DEF Told, PlaceFits, Final
      <3> QED BY <2>1, <2>2, <2>3, <3>1, <3>2, <3>5 DEF Passes
    <2> QED BY <1>4, <2>4, <2>5 DEF LoopStep
  <1>5. CASE Unregister
    <2>1. /\ pc = "exit" /\ prog["runner"] = <<>> /\ pc' = "deferred" /\ prog' = prog
          /\ wire' = wire /\ shut' = shut /\ gone' = gone
      BY <1>5 DEF Unregister, At, Goto, streamVars
    <2> QED BY <1>0, <2>1, ToldStays DEF Passes
  <1>6. CASE CloseAndPersist
    <2>1. /\ pc = "deferred" /\ wire' = wire /\ shut' = shut /\ gone' = gone
      BY <1>6 DEF CloseAndPersist, At, streamVars
    <2>2. w = <<>> /\ wire.end \in Endings
      BY <2>1, AgreesIs DEF Told, PlaceFits
    <2>3. PICK p : Run(p, "stopped") /\ Silent(p)
      BY <1>6, LastBegins
    <2>4. prog'["runner"] = p /\ pc' = "stopped"
      BY <1>0, <2>3 DEF Run, Programs, Actors
    <2>5. Told(<<>>)'
      <3>1. Writes(p, <<>>)
        BY <2>3, QuietWrites
      <3>2. Agrees(<<>>, wire.end)'
        BY <2>1, <2>2, WordsDiffer DEF Agrees
      <3> QED BY <2>4, <3>1, <3>2 DEF Told, PlaceFits, Final, Words
    <2> QED BY <1>6, <2>1, <2>2, <2>5 DEF Passes
  <1>7. CASE UNCHANGED vars
    BY <1>0, <1>7, ToldStays DEF Passes, vars
  <1> QED BY <1>0, <1>1, <1>2, <1>3, <1>4, <1>5, <1>6, <1>7, LoopBegins DEF Next

\* At the start nothing has been written.
LEMMA ToldFirst == Init => StreamTold
  <1> SUFFICES ASSUME Init PROVE StreamTold
    OBVIOUS
  <1>1. /\ wire = [end |-> <<>>, late |-> <<>>, texts |-> <<>>]
        /\ shut = FALSE /\ keepalive = FALSE /\ gone = FALSE /\ pc = FirstPlace(ses.behavior)
        /\ prog = [a \in Actors |-> IF a = "runner" THEN Start(ses.behavior) ELSE <<>>]
    BY DEF Init
  <1>2. ses.behavior \in Behaviors
    <2>1. PICK b \in Behaviors, n \in TokenBudgets, api \in Apis, t \in Textless :
            ses = [state |-> "CONNECTED", mode |-> "ECHO", reason |-> "", ended |-> FALSE,
                   once |-> "new", done |-> FALSE, paused |-> FALSE, fault |-> "none",
                   interval |-> Interval, behavior |-> b, budget |-> n,
                   api |-> api, textless |-> t]
      BY DEF Init
    <2>2. ses.behavior = b
      BY <2>1
    <2> QED BY <2>2
  <1>3. StreamForm
    BY <1>1 DEF StreamForm, OneLate
  <1>4. prog["runner"] = Start(ses.behavior) /\ wire.end = <<>>
    BY <1>1 DEF Actors
  <1>5. \A w \in {<<>>, Content, Answering, Cutting} : Agrees(w, wire.end)
    BY <1>4, AgreesIs, SomeEndings
  <1>6. CASE ses.behavior \notin Closers
    <2>1. Writes(Start(ses.behavior), <<>>)
      BY <1>2, <1>6, StartPrograms DEF Program
    <2>2. pc \notin Final
      BY <1>1, <1>2, <1>6, RunnerAssumption DEF FirstPlace, Closers, Final
    <2>3. Told(<<>>)
      BY <1>1, <1>4, <1>5, <2>1, <2>2 DEF Told, PlaceFits, Words, Final
    <2> QED BY <1>3, <2>3 DEF StreamTold, Words
  <1>7. CASE ses.behavior \in Closers
    <2>1. \E w \in {Answering, Cutting} : Writes(Start(ses.behavior), w)
      BY <1>2, <1>7, StartPrograms DEF Program, Closers
    <2>2. pc = "exit"
      BY <1>1, <1>7 DEF FirstPlace, Closers
    <2>3. \E w \in {Answering, Cutting} : Told(w)
      BY <1>1, <1>4, <1>5, <2>1, <2>2 DEF Told, PlaceFits, Words, Final
    <2> QED BY <1>3, <2>3 DEF StreamTold, Words
  <1> QED BY <1>6, <1>7

\* And so it goes on.
LEMMA ToldKept == Shape /\ StreamTold /\ [Next]_vars => StreamTold'
  <1> SUFFICES ASSUME Shape, StreamTold, [Next]_vars PROVE StreamTold'
    OBVIOUS
  <1>1. PICK w \in Words : Told(w)
    BY DEF StreamTold
  <1>2. StreamForm'
    BY <1>1, FormKept DEF Shape, StreamTold
  <1>3. \E v \in Words : Told(v)'
    BY <1>1, ToldOn DEF StreamTold
  <1> QED BY <1>2, <1>3 DEF StreamTold, Words, Told

(***************************************************************************)
(* The stream has at most one ending, one that the protocol knows, however *)
(* administrators, faults, limits and the client try to end it at once.    *)
(***************************************************************************)
THEOREM EndingsKnown == Spec => []OneEnding
<1>1. StreamTold => OneEnding
  <2> SUFFICES ASSUME NEW w \in Words, Told(w) PROVE OneEnding
    BY DEF StreamTold
  <2>1. wire.end \in Endings
    <3>1. wire.end \in Finals \union Errors \union {<<>>, <<"malformed">>} \union Endings
      BY AgreesIs, SomeEndings DEF Told, Words
    <3> QED BY <3>1 DEF Endings, Finals
  <2> QED BY <2>1 DEF OneEnding, Endings, Finals, Errors, Cuts
<1> QED BY <1>1, ShapeKept, ToldFirst, ToldKept, PTL DEF Spec

(***************************************************************************)
(* No content follows the ending, and one keep-alive comment at most       *)
(* follows the closing of the writer.                                      *)
(***************************************************************************)
THEOREM NothingAfterEnding == Spec => []EndingIsLast
<1>1. StreamTold => EndingIsLast
  BY DEF StreamTold, StreamForm, OneLate, EndingIsLast
<1> QED BY <1>1, ShapeKept, ToldFirst, ToldKept, PTL DEF Spec

-----------------------------------------------------------------------------
(***************************************************************************)
(* Who stores the row stores an ended session.  LastStore says that the    *)
(* runner is yet to store it.                                              *)
(***************************************************************************)
LastStore ==
  LET p == prog["runner"] IN p # <<>> /\ p[Len(p)].op = "store"

RowsEnded ==
  /\ ses.state \in Ended \/ ses.once # "new" => ses.ended
  /\ ~ses.ended => \A a \in Actors : CloseFirst(prog[a])
  /\ \A a \in Actors : prog[a] # <<>> /\ prog[a][1].op = "store" => snap[a].ended
  /\ pc = "stopped" => row = Deleted \/ row.ended \/ LastStore

\* Before a close, what is left of a program still has the close to come.
LEMMA LeftCloseFirst ==
  ASSUME NEW p, NEW q, NEW m \in Nat, Dropped(p, q, m), CloseFirst(p),
         \A j \in 1..m : p[j].op # "close"
  PROVE  CloseFirst(q)
  <1> SUFFICES ASSUME NEW i \in 1..Len(q), AfterClose(q[i])
               PROVE  \E j \in 1..(i - 1) : q[j].op = "close"
    BY DEF CloseFirst
  <1>1. i + m \in 1..Len(p) /\ q[i] = p[i + m] /\ Len(q) = Len(p) - m
    BY DEF Dropped
  <1>2. PICK j \in 1..(i + m - 1) : p[j].op = "close"
    BY <1>1 DEF CloseFirst
  <1>3. j - m \in 1..(i - 1) /\ j - m \in 1..Len(q) /\ (j - m) + m = j
    BY <1>1, <1>2
  <1>4. q[j - m] = p[(j - m) + m]
    BY <1>3 DEF Dropped
  <1> QED BY <1>2, <1>3, <1>4

\* The rest after a command that found the channel full.
LEMMA PrependsForm ==
  ASSUME NEW p, NEW q, Good(p), p # <<>>, Prepends(p, q)
  PROVE  /\ CloseFirst(p) => CloseFirst(q)
         /\ \A R : ReasonsIn(p, R) => ReasonsIn(q, R)
         /\ q # <<>> /\ q[1].op # "store"
         /\ p[Len(p)].op = "store" => q[Len(q)].op = "store"
  <1>1. PICK x, y : Mute(x) /\ Mute(y) /\ q = <<x, y>> \o Tail(p)
    BY DEF Prepends
  <1> DEFINE t == <<x, y>>
             u == Tail(p)
  <1>2. Dropped(p, u, 1) /\ Len(p) \in Nat /\ Len(p) >= 1 /\ p[1].op = "send"
    BY TailDropped DEF Good, Prepends
  <1>3. \A R : Program(t, <<>>, R)
    BY <1>1, MuteTwo
  <1>4. Len(t) = 2 /\ t[1] = x
    OBVIOUS
  <1> HIDE DEF t, u
  <1>5. Good(u) /\ \A R : ReasonsIn(p, R) => ReasonsIn(u, R)
    BY <1>2, DroppedGood
  <1>6. Fresh(u)
    <2>1. ASSUME u # <<>>, u[1].op = "store" PROVE FALSE
      <3>1. 2 \in 1..Len(p) /\ u[1] = p[2] /\ 2 - 1 = 1
        BY <1>2, <2>1 DEF Dropped
      <3>2. p[1].op = "snapshot"
        BY <2>1, <3>1 DEF Good, Linked
      <3> QED BY <1>2, <3>2
    <2> QED BY <1>5, <2>1 DEF Fresh
  <1>7. Fresh(t) /\ CloseFirst(t) /\ \A R : ReasonsIn(t, R)
    BY <1>3 DEF Program
  <1>8. q = t \o u
    BY <1>1 DEF t, u
  <1>9. ASSUME CloseFirst(p) PROVE CloseFirst(q)
    <2>1. \A j \in 1..1 : p[j].op # "close"
      BY <1>2
    <2>2. CloseFirst(u)
      BY <1>2, <1>9, <2>1, LeftCloseFirst
    <2> QED BY <1>6, <1>7, <1>8, <2>2, JoinedFresh
  <1>10. ASSUME NEW R, ReasonsIn(p, R) PROVE ReasonsIn(q, R)
    BY <1>5, <1>6, <1>7, <1>8, <1>10, JoinedFresh
  <1>11. /\ Len(q) = Len(t) + Len(u) /\ q[1] = x
         /\ \A i \in 1..Len(u) : q[Len(t) + i] = u[i]
    <2>1. Prog(t) /\ Prog(u) /\ 1 \in 1..Len(t)
      BY <1>4, <1>6, <1>7 DEF Fresh, Good
    <2>2. /\ Len(t \o u) = Len(t) + Len(u) /\ (\A i \in 1..Len(t) : (t \o u)[i] = t[i])
          /\ \A i \in 1..Len(u) : (t \o u)[Len(t) + i] = u[i]
      BY <2>1, Joined
    <2> QED BY <1>4, <1>8, <2>1, <2>2
  <1>12. q # <<>> /\ q[1].op # "store"
    BY <1>1, <1>4, <1>11 DEF Mute, Simple
  <1>13. ASSUME p[Len(p)].op = "store" PROVE q[Len(q)].op = "store"
    <2>1. Len(p) # 1
      BY <1>2, <1>13
    <2>2. Len(u) = Len(p) - 1 /\ Len(u) \in 1..Len(u) /\ u[Len(u)] = p[Len(u) + 1]
      BY <1>2, <2>1 DEF Dropped
    <2>3. u[Len(u)] = p[Len(p)]
      BY <1>2, <2>2
    <2> QED BY <1>11, <1>13, <2>2, <2>3
  <1> QED BY <1>9, <1>10, <1>12, <1>13

\* What is left of a program closes for no other reason.
LEMMA StepReasons ==
  ASSUME Programs, NEW w \in Words, Writes(prog["runner"], w), NEW a \in Actors, Step(a),
         NEW R, ReasonsIn(prog[a], R)
  PROVE  ReasonsIn(prog'[a], R)
  <1>1. prog[a] # <<>> /\ (LeavesOut(prog[a], prog'[a]) \/ Prepends(prog[a], prog'[a]))
    BY StepLeaves
  <1>2. Good(prog[a])
    BY DEF Programs
  <1>3. CASE LeavesOut(prog[a], prog'[a])
    <2>1. PICK m \in 1..Len(prog[a]) : Dropped(prog[a], prog'[a], m)
      BY <1>3 DEF LeavesOut
    <2>2. m \in Nat
      OBVIOUS
    <2> QED BY <1>2, <2>1, <2>2, DroppedGood
  <1> QED BY <1>1, <1>2, <1>3, PrependsForm

\* Which step an actor performs, its program says.
LEMMA StepIs ==
  ASSUME Programs, NEW a \in Actors, Step(a)
  PROVE  /\ prog[a][1].op = "close" => CloseOnce(a)
         /\ prog[a][1].op = "snapshot" => Snapshot(a)
         /\ prog[a][1].op = "store" => Store(a)
  <1>1. ASSUME NEW name, Ready(a, name) PROVE prog[a][1].op = name
    BY <1>1, AtStep
  <1>2. CASE Assign(a) \/ DeleteRow(a) \/ SendCommand(a) \/ DropOldest(a) \/ Resend(a)
    BY <1>1, <1>2 DEF Assign, DeleteRow, SendCommand, DropOldest, Resend
  <1>3. CASE SendManual(a) \/ Spawn(a) \/ Delay(a) \/ Emit(a) \/ ShutWriter(a) \/ CutSocket(a)
    BY <1>1, <1>3 DEF SendManual, Spawn, Delay, Emit, ShutWriter, CutSocket
  <1>4. CASE CloseOnce(a)
    <2>1. prog[a][1].op = "close"
      BY <1>1, <1>4 DEF CloseOnce
    <2> QED BY <1>4, <2>1
  <1>5. CASE Snapshot(a)
    <2>1. prog[a][1].op = "snapshot"
      BY <1>1, <1>5 DEF Snapshot
    <2> QED BY <1>5, <2>1
  <1>6. CASE Store(a)
    <2>1. prog[a][1].op = "store"
      BY <1>1, <1>6 DEF Store
    <2> QED BY <1>6, <2>1
  <1> QED BY <1>2, <1>3, <1>4, <1>5, <1>6 DEF Step

\* Once ended the session stays ended, and has a state and a close to show.
LEMMA EndedKept ==
  ASSUME Shape, RowsEnded, [Next]_vars
  PROVE  /\ ses.ended => ses'.ended
         /\ ses'.state \in Ended \/ ses'.once # "new" => ses'.ended
  <1>0. ses \in SessionFields
    BY DEF Shape, Session
  <1>1. ASSUME NEW a \in Actors, NEW f, Assign(a), prog[a] # <<>>, prog[a][1].op = "set",
               f = prog[a][1].fields, Fits(f), ses' = With(ses, f)
        PROVE  /\ ses.ended => ses'.ended
               /\ ses'.state \in Ended \/ ses'.once # "new" => ses'.ended
    <2>1. /\ ses'.ended = ses.ended /\ (ses'.state = ses.state \/ ses'.state \notin Ended)
          /\ ses'.once = IF "once" \in DOMAIN f THEN "over" ELSE ses.once
      BY <1>0, <1>1, Assigned
    <2>2. ASSUME "once" \in DOMAIN f PROVE ses.ended
      <3>1. 1 \in 1..Len(prog[a]) /\ AfterClose(prog[a][1])
        BY <1>1, <2>2 DEF AfterClose, Shape, Programs, Good
      <3>2. ~CloseFirst(prog[a])
        BY <3>1 DEF CloseFirst
      <3> QED BY <3>2 DEF RowsEnded
    <2> QED BY <2>1, <2>2 DEF RowsEnded
  <1>2. ASSUME NEW f \in [state : Ended, reason : Reasons, ended : {TRUE}],
               ses' = [With(ses, f) EXCEPT !.once = "running"]
        PROVE  ses'.ended
    BY <1>0, <1>2, Closed
  <1>3. CASE ses' = ses
    BY <1>3 DEF RowsEnded
  <1> QED BY <1>1, <1>2, <1>3, SessionSteps

\* A close ends the session, whoever was first.
LEMMA CloseEnds ==
  ASSUME Shape, RowsEnded, [Next]_vars, NEW a \in Actors, CloseOnce(a)
  PROVE  ses'.ended
  <1>1. CASE ses.once # "new"
    BY <1>1, EndedKept DEF RowsEnded
  <1>2. CASE ses.once = "new"
    <2>1. /\ ses' = [With(ses, Next1(a).fields) EXCEPT !.once = "running"]
          /\ Ready(a, "close")
      BY <1>2 DEF CloseOnce
    <2>2. Next1(a).fields \in [state : Ended, reason : Reasons, ended : {TRUE}]
      BY <2>1, AtStep DEF Shape, Fine
    <2> QED BY <2>1, <2>2, Closed DEF Shape, Session
  <1> QED BY <1>1, <1>2

\* Nobody stores the row of a session that has not ended.
LEMMA StoreEnded ==
  ASSUME Shape, RowsEnded, NEW a \in Actors, Store(a)
  PROVE  row' = Deleted \/ row'.ended
  <1>1. prog[a] # <<>> /\ prog[a][1].op = "store"
    BY AtStep DEF Store, Shape
  <1>2. row' = IF row = Deleted THEN row ELSE snap[a]
    BY DEF Store
  <1> QED BY <1>1, <1>2 DEF RowsEnded

\* A row that has ended stays so.
LEMMA RowStays ==
  ASSUME Shape, RowsEnded, [Next]_vars, row = Deleted \/ row.ended
  PROVE  row' = Deleted \/ row'.ended
  BY SessionChanges, StoreEnded DEF DeleteRow

\* A step of a program keeps all of it.
LEMMA RowsEndedStep ==
  ASSUME Shape, RowsEnded, NEW w \in Words, Writes(prog["runner"], w),
         NEW a \in Actors, Step(a)
  PROVE  RowsEnded'
  <1>0. [Next]_vars /\ Programs /\ Good(prog[a]) /\ prog = [b \in Actors |-> prog[b]]
    BY DEF Next, Shape, Programs
  <1>1. /\ prog[a] # <<>>
        /\ LeavesOut(prog[a], prog'[a]) \/ Prepends(prog[a], prog'[a])
        /\ \A b \in Actors \ {a} :
             \/ prog'[b] = prog[b]
             \/ b # "runner" /\ Program(prog'[b], <<>>, {"admin_delete"})
    BY <1>0, StepLeaves
  <1>2. Len(prog[a]) >= 1 /\ 1 \in 1..Len(prog[a])
    BY <1>0, <1>1 DEF Good
  <1>3. ASSUME ~ses'.ended, NEW b \in Actors PROVE CloseFirst(prog'[b])
    <2>1. ~ses.ended /\ CloseFirst(prog[a]) /\ CloseFirst(prog[b])
      BY <1>0, <1>3, EndedKept DEF RowsEnded
    <2>2. prog[a][1].op # "close"
      BY <1>0, <1>3, StepIs, CloseEnds
    <2>3. CASE b = a /\ LeavesOut(prog[a], prog'[a])
      <3>1. PICK m \in 1..Len(prog[a]) :
              /\ Dropped(prog[a], prog'[a], m)
              /\ prog[a][1].op = "close" \/ \A j \in 2..m : prog[a][j].op # "close"
        BY <2>3 DEF LeavesOut
      <3>2. m \in Nat /\ \A j \in 1..m : j = 1 \/ j \in 2..m
        OBVIOUS
      <3>3. \A j \in 1..m : prog[a][j].op # "close"
        BY <2>2, <3>1, <3>2
      <3> QED BY <2>1, <2>3, <3>1, <3>2, <3>3, LeftCloseFirst
    <2>4. CASE b = a /\ Prepends(prog[a], prog'[a])
      BY <1>0, <1>1, <2>1, <2>4, PrependsForm
    <2>5. CASE b # a
      BY <1>1, <2>1, <2>5 DEF Program
    <2> QED BY <1>1, <2>3, <2>4, <2>5
  <1>4. ASSUME NEW b \in Actors, prog'[b] # <<>>, prog'[b][1].op = "store"
        PROVE  snap'[b].ended
    <2>1. CASE b # a
      <3>1. prog'[b] = prog[b]
        BY <1>1, <1>4, <2>1 DEF Program, Fresh
      <3>2. snap'[b] = snap[b]
        <4>1. CASE snap' = snap
          BY <4>1
        <4>2. CASE Snapshot(a)
          BY <2>1, <4>2 DEF Snapshot, Shape, Session
        <4> QED BY <4>1, <4>2, StepKeeps
      <3> QED BY <1>4, <3>1, <3>2 DEF RowsEnded
    <2>2. CASE b = a /\ LeavesOut(prog[a], prog'[a])
      <3>1. PICK m \in 1..Len(prog[a]) :
              /\ Dropped(prog[a], prog'[a], m)
              /\ m = 1 \/ prog[a][m].op \in {"set", "send", "shut"}
        BY <2>2 DEF LeavesOut
      <3>2. 1 \in 1..Len(prog'[a])
        BY <1>4, <2>2, <3>1 DEF Dropped, Prog
      <3>3. /\ prog'[a][1] = prog[a][1 + m] /\ 1 + m \in 1..Len(prog[a])
            /\ (1 + m) - 1 = m /\ 1 + m > 1
        BY <3>1, <3>2 DEF Dropped
      <3>4. prog[a][m].op = "snapshot"
        BY <1>0, <1>4, <2>2, <3>3 DEF Good, Linked
      <3>5. prog[a][1].op = "snapshot"
        BY <3>1, <3>4
      <3>6. snap' = [snap EXCEPT ![a] = RowOf(ses)]
        BY <1>0, <3>5, StepIs DEF Snapshot
      <3>7. ses.ended
        <4>1. AfterClose(prog[a][1])
          BY <3>5 DEF AfterClose
        <4>2. ~CloseFirst(prog[a])
          BY <1>2, <4>1 DEF CloseFirst
        <4> QED BY <4>2 DEF RowsEnded
      <3> QED BY <2>2, <3>6, <3>7 DEF RowOf, Shape, Session
    <2>3. CASE b = a /\ Prepends(prog[a], prog'[a])
      BY <1>0, <1>1, <1>4, <2>3, PrependsForm
    <2> QED BY <1>1, <2>1, <2>2, <2>3
  <1>5. ASSUME pc' = "stopped" PROVE row' = Deleted \/ row'.ended \/ LastStore'
    <2>1. pc = "stopped"
      BY <1>5, StepKeeps
    <2>2. CASE row = Deleted \/ row.ended
      BY <1>0, <2>2, RowStays
    <2>3. CASE LastStore /\ a # "runner"
      BY <1>1, <2>3 DEF LastStore, Actors
    <2>4. CASE LastStore /\ a = "runner" /\ LeavesOut(prog[a], prog'[a])
      <3>1. PICK m \in 1..Len(prog[a]) :
              /\ Dropped(prog[a], prog'[a], m)
              /\ m = 1 \/ prog[a][m].op \in {"set", "send", "shut"}
        BY <2>4 DEF LeavesOut
      <3>2. prog[a][Len(prog[a])].op = "store"
        BY <2>4 DEF LastStore
      <3>3. CASE m = Len(prog[a])
        <4>1. Store(a)
          BY <1>0, <3>1, <3>2, <3>3, StepIs
        <4> QED BY <4>1, StoreEnded
      <3>4. CASE m < Len(prog[a])
        <4>1. /\ Len(prog'[a]) = Len(prog[a]) - m /\ Len(prog'[a]) \in 1..Len(prog'[a])
              /\ Len(prog'[a]) + m = Len(prog[a])
          BY <1>2, <3>1, <3>4 DEF Dropped
        <4>2. prog'[a][Len(prog'[a])] = prog[a][Len(prog'[a]) + m]
          BY <3>1, <4>1 DEF Dropped
        <4>3. prog'[a][Len(prog'[a])].op = "store" /\ prog'[a] # <<>>
          BY <3>2, <4>1, <4>2
        <4> QED BY <2>4, <4>3 DEF LastStore
      <3> QED BY <3>1, <3>3, <3>4
    <2>5. CASE LastStore /\ a = "runner" /\ Prepends(prog[a], prog'[a])
      BY <1>0, <1>1, <2>5, PrependsForm DEF LastStore
    <2> QED BY <1>1, <2>1, <2>2, <2>3, <2>4, <2>5 DEF RowsEnded
  <1>6. ses'.state \in Ended \/ ses'.once # "new" => ses'.ended
    BY <1>0, EndedKept
  <1> QED BY <1>3, <1>4, <1>5, <1>6 DEF RowsEnded

\* Steps that change neither the session, the row nor the snapshots, and
\* replace programs by new ones at most.
LEMMA RowsEndedRest ==
  ASSUME RowsEnded, ses' = ses, snap' = snap, row' = row,
         \A b \in Actors : prog'[b] = prog[b] \/ (Fresh(prog'[b]) /\ CloseFirst(prog'[b]))
                             \/ (Fresh(prog'[b]) /\ ses.ended),
         pc' = "stopped" => LastStore' \/ (pc = "stopped" /\ prog'["runner"] = prog["runner"])
  PROVE  RowsEnded'
  <1>1. ~ses'.ended => \A b \in Actors : CloseFirst(prog'[b])
    BY DEF RowsEnded
  <1>2. ASSUME NEW b \in Actors, prog'[b] # <<>>, prog'[b][1].op = "store"
        PROVE  snap'[b].ended
    BY <1>2 DEF RowsEnded, Fresh
  <1>3. pc' = "stopped" => row' = Deleted \/ row'.ended \/ LastStore'
    BY DEF RowsEnded, LastStore
  <1>4. ses'.state \in Ended \/ ses'.once # "new" => ses'.ended
    BY DEF RowsEnded
  <1> QED BY <1>1, <1>2, <1>3, <1>4 DEF RowsEnded

\* Every step keeps it.
LEMMA RowsEndedKept == Shape /\ StreamTold /\ RowsEnded /\ [Next]_vars => RowsEnded'
  <1> SUFFICES ASSUME Shape, StreamTold, RowsEnded, [Next]_vars PROVE RowsEnded'
    OBVIOUS
  <1> USE DEF sessionVars, tableVars
  <1>0. PICK w \in Words : Told(w)
    BY DEF StreamTold
  <1>1. CASE \E a \in Actors : Step(a)
    BY <1>0, <1>1, RowsEndedStep DEF Told
  <1>2. CASE \E a \in Admins : \/ \E name \in Requests \ {"inject", "schedule"} : Ask(a, name)
                               \/ \E how \in FaultModes : AskInject(a, how)
    <2>1. PICK a \in Admins : \/ \E name \in Requests \ {"inject", "schedule"} : Ask(a, name)
                              \/ \E how \in FaultModes : AskInject(a, how)
      BY <1>2
    <2>2. /\ a \in Actors /\ a # "runner"
          /\ \E p : Program(p, <<>>, {"admin_delete"}) /\ prog' = [prog EXCEPT ![a] = p]
      BY <2>1, AskPrograms DEF Shape
    <2>3. ses' = ses /\ snap' = snap /\ row' = row /\ pc' = pc
      BY <2>1 DEF Ask, AskInject
    <2>4. \A b \in Actors : prog'[b] = prog[b] \/ (Fresh(prog'[b]) /\ CloseFirst(prog'[b]))
      BY <2>2 DEF Program, Shape, Programs
    <2>5. prog'["runner"] = prog["runner"]
      BY <2>2 DEF Shape, Programs, Actors
    <2> QED BY <2>3, <2>4, <2>5, RowsEndedRest
  <1>3. CASE Leave \/ KeepAlive \/ UNCHANGED vars
    BY <1>3, RowsEndedRest DEF Leave, KeepAlive, vars
  <1>4. CASE Unregister
    BY <1>4, RowsEndedRest DEF Unregister, Goto
  <1>5. CASE Loop
    <2>1. ses' = ses /\ snap' = snap /\ row' = row
      <3>1. CASE TakeCommand \/ Move \/ SkipEmptyUnit \/ BucketWait \/ WriteEcho \/ WriteEchoFails \/ Account
        BY <3>1 DEF TakeCommand, Move, SkipEmptyUnit, BucketWait, WriteEcho, WriteEchoFails, Account
      <3>2. CASE AgentGap \/ EmitToolCall \/ AgentPart \/ SeeClientGone \/ SeeDone \/ TakeText
        BY <3>2 DEF AgentGap, EmitToolCall, AgentPart, SeeClientGone, SeeDone, TakeText
      <3>3. CASE NextPiece \/ PieceWait \/ WritePiece \/ Unregister \/ CloseAndPersist
        BY <3>3 DEF NextPiece, PieceWait, WritePiece, Unregister, CloseAndPersist
      <3> QED BY <1>5, <3>1, <3>2, <3>3 DEF Loop
    <2>2. CASE LoopStep /\ UNCHANGED prog /\ pc' \notin Final \ {"exit"}
      <3>1. pc' # "stopped" /\ \A b \in Actors : prog'[b] = prog[b]
        BY <2>2 DEF Final
      <3> QED BY <2>1, <3>1, RowsEndedRest
    <2>3. CASE LoopStep /\ \E p : Run(p, pc') /\ Begins(p, pc')
      <3>1. PICK p, v : Run(p, pc') /\ BeginsWith(p, v, pc')
        BY <2>3 DEF Begins
      <3>2. Fresh(p) /\ CloseFirst(p) /\ pc' # "stopped"
        BY <3>1, BeginsWord DEF Final
      <3>3. \A b \in Actors : prog'[b] = prog[b] \/ prog'[b] = p
        BY <3>1 DEF Run, Shape, Programs
      <3> QED BY <2>1, <3>2, <3>3, RowsEndedRest
    <2>4. CASE CloseAndPersist
      <3>1. PICK p : /\ Run(p, "stopped") /\ Good(p) /\ p # <<>> /\ p[Len(p)].op = "store"
                     /\ Fresh(p) /\ (ses.state \in Ended \/ CloseFirst(p))
        BY <2>4, LastBegins
      <3>2. \A b \in Actors : prog'[b] = prog[b] \/ prog'[b] = p
        BY <3>1 DEF Run, Shape, Programs
      <3>3. LastStore'
        BY <3>1 DEF LastStore, Run, Shape, Programs, Actors
      <3>4. ses.state \in Ended => ses.ended
        BY DEF RowsEnded
      <3> QED BY <2>1, <3>1, <3>2, <3>3, <3>4, RowsEndedRest
    <2> QED BY <1>4, <1>5, <2>2, <2>3, <2>4, LoopBegins DEF LoopStep, Shape
  <1> QED BY <1>1, <1>2, <1>3, <1>5 DEF Next

\* At the start no session has ended, and no program stores a row.
LEMMA RowsEndedFirst == Init => RowsEnded
  <1> SUFFICES ASSUME Init PROVE RowsEnded
    OBVIOUS
  <1>1. PICK b \in Behaviors, n \in TokenBudgets, api \in Apis, t \in Textless :
          ses = [state |-> "CONNECTED", mode |-> "ECHO", reason |-> "", ended |-> FALSE,
                 once |-> "new", done |-> FALSE, paused |-> FALSE, fault |-> "none",
                 interval |-> Interval, behavior |-> b, budget |-> n,
                 api |-> api, textless |-> t]
    BY DEF Init
  <1>2. ses.behavior = b /\ ses.state \notin Ended /\ ses.once = "new"
    BY <1>1 DEF Ended
  <1>3. Fresh(Start(b)) /\ CloseFirst(Start(b))
    BY StartPrograms DEF Program, Closers
  <1>4. Fresh(<<>>) /\ CloseFirst(<<>>)
    <2>1. Len(<<>>) = 0 /\ ~\E i \in 1..0 : TRUE
      OBVIOUS
    <2> QED BY <2>1, Tuples DEF Fresh, Good, Linked, CloseFirst
  <1>5. \A a \in Actors : Fresh(prog[a]) /\ CloseFirst(prog[a])
    BY <1>2, <1>3, <1>4 DEF Init
  <1>6. pc # "stopped"
    BY <1>2, RunnerAssumption DEF Init, FirstPlace
  <1> QED BY <1>2, <1>5, <1>6 DEF RowsEnded, Fresh

-----------------------------------------------------------------------------
(***************************************************************************)
(* What was snapshotted or stored with an end time was so after the first  *)
(* close, which nothing but a handler's setter follows: its state is an    *)
(* end too, or a setter has changed the state since.                       *)
(***************************************************************************)
EndTold(r) == r.ended => ses.once # "new" /\ (r.state \in Ended \/ ses.state \notin Ended)

StatesTell == EndTold(ses) /\ EndTold(row) /\ \A a \in Actors : EndTold(snap[a])

\* Every step keeps it.
LEMMA StatesTellKept == Shape /\ StatesTell /\ [Next]_vars => StatesTell'
  <1> SUFFICES ASSUME Shape, StatesTell, [Next]_vars PROVE StatesTell'
    OBVIOUS
  <1>1. ses \in SessionFields
    BY DEF Shape, Session
  <1>2. /\ ses.once # "new" => ses'.once # "new" /\ (ses'.state = ses.state \/ ses'.state \notin Ended)
        /\ ses'.ended => ses'.once # "new"
    <2>1. ASSUME NEW f, Fits(f), ses' = With(ses, f)
          PROVE  /\ ses.once # "new" => ses'.once # "new" /\ (ses'.state = ses.state \/ ses'.state \notin Ended)
                 /\ ses'.ended => ses'.once # "new"
      <3>1. /\ ses'.ended = ses.ended /\ (ses'.state = ses.state \/ ses'.state \notin Ended)
            /\ ses'.once = IF "once" \in DOMAIN f THEN "over" ELSE ses.once
        BY <1>1, <2>1, Assigned
      <3> QED BY <3>1 DEF StatesTell, EndTold
    <2>2. ASSUME NEW f \in [state : Ended, reason : Reasons, ended : {TRUE}], ses.once = "new",
                 ses' = [With(ses, f) EXCEPT !.once = "running"]
          PROVE  ses'.once # "new"
      BY <1>1, <2>2, Closed
    <2>3. CASE ses' = ses
      BY <2>3 DEF StatesTell, EndTold
    <2> QED BY <2>1, <2>2, <2>3, SessionSteps
  <1>3. ASSUME NEW r, EndTold(r), r.ended
        PROVE  ses'.once # "new" /\ (r.state \in Ended \/ ses'.state \notin Ended)
    BY <1>2, <1>3 DEF EndTold
  <1>4. EndTold(Deleted) /\ EndTold(RowOf(ses))
    BY DEF EndTold, Deleted, RowOf, StatesTell
  <1>5. row' \in {row, Deleted} \/ \E a \in Actors : row' = snap[a]
    BY SessionChanges DEF Store, DeleteRow
  <1>6. \A a \in Actors : snap'[a] = snap[a] \/ snap'[a] = RowOf(ses)
    BY SessionChanges DEF Snapshot, Shape, Session
  <1>7. EndTold(row)'
    BY <1>3, <1>4, <1>5 DEF EndTold, StatesTell
  <1>8. \A a \in Actors : EndTold(snap[a])'
    BY <1>3, <1>4, <1>6 DEF EndTold, StatesTell
  <1>9. EndTold(ses)'
    BY <1>2 DEF EndTold
  <1> QED BY <1>7, <1>8, <1>9 DEF StatesTell

\* At the start nothing has ended.
LEMMA StatesTellFirst == Init => StatesTell
  <1> SUFFICES ASSUME Init PROVE StatesTell
    OBVIOUS
  <1>1. ~ses.ended
    <2>1. PICK b \in Behaviors, n \in TokenBudgets, api \in Apis, t \in Textless :
            ses = [state |-> "CONNECTED", mode |-> "ECHO", reason |-> "", ended |-> FALSE,
                   once |-> "new", done |-> FALSE, paused |-> FALSE, fault |-> "none",
                   interval |-> Interval, behavior |-> b, budget |-> n,
                   api |-> api, textless |-> t]
      BY DEF Init
    <2> QED BY <2>1
  <1>2. row = RowOf(ses) /\ snap = [a \in Actors |-> RowOf(ses)]
    BY DEF Init
  <1> QED BY <1>1, <1>2 DEF StatesTell, EndTold, RowOf

-----------------------------------------------------------------------------
(***************************************************************************)
(* The reason is true to what the client saw.  A reason that tells how the *)
(* stream ends is only given by a program that begins at the exit, after   *)
(* what it writes; until then what is left to be written, the word w,      *)
(* makes up with what has been written the ending that the reason tells.   *)
(***************************************************************************)
KeepsCut(w) ==
  \/ w \in {Cutting, SetCut, OnlyCut} /\ wire.end = <<>>
  \/ w = <<>> /\ wire.end = <<"cut">>

KeepsFinish(w) ==
  \/ w \in {Answering, Finishing} /\ ~shut
  \/ w = DoneShut /\ wire.end = <<"final">> /\ ~shut
  \/ w \in {OnlyShut, <<>>} /\ wire.end = NormalEnd

KeepsFault(w) ==
  \/ w \in {ErrorDone, ErrorShut} /\ ~shut
  \/ w = DoneShut /\ wire.end = <<"error">> /\ ~shut
  \/ w = OnlyShut /\ wire.end \in Errors
  \/ w \in {Garbling, Cutting, SetCut, OnlyCut}
  \/ w = <<>> /\ wire.end \notin Finals

Keeps(r, w) ==
  /\ r = "client_disconnected" => gone
  /\ r = "connection_drop_behavior" => KeepsCut(w)
  /\ r \in FinishReasons /\ ~gone => KeepsFinish(w)
  /\ r \in FaultReasons /\ ~gone => KeepsFault(w)

Sound(r, w) == r \in Telling => pc \in Final /\ Keeps(r, w)

\* A reason once given is the last thing its program did before it persists.
Recorded(r, w) == Sound(r, w) /\ (r \in Telling => w = <<>>)

SoundReasons(w) == {r \in Reasons : Sound(r, w)}

Truthful(w) ==
  /\ Told(w) /\ ReasonsIn(prog["runner"], SoundReasons(w))
  /\ Recorded(ses.reason, w) /\ Recorded(row.reason, w)
  /\ \A a \in Actors : Recorded(snap[a].reason, w)

ReasonsTrue == StreamForm /\ \E w \in Words : Truthful(w)

\* Which reasons tell nothing.
LEMMA TellNothing == {"", "stop", "drop_connection", "admin_delete"} \intersect Telling = {}
  BY DEF Telling, FinishReasons, FaultReasons

\* A drop goes on being one.
LEMMA CutOn ==
  ASSUME NEW w \in Words, NEW v \in Words, Onward(w, v), KeepsCut(w)
  PROVE  KeepsCut(v)'
  <1>1. CASE w = Cutting /\ wire.end = <<>>
    <2>1. wire'.end = <<>> /\ v \in {Cutting, SetCut}
      BY <1>1, WordsDiffer DEF Onward, Unwritten
    <2> QED BY <2>1 DEF KeepsCut
  <1>2. CASE w = SetCut /\ wire.end = <<>>
    <2>1. wire'.end = <<>> /\ v \in {SetCut, OnlyCut}
      BY <1>2, WordsDiffer DEF Onward, Unwritten
    <2> QED BY <2>1 DEF KeepsCut
  <1>3. CASE w = OnlyCut /\ wire.end = <<>>
    <2>1. \/ v = OnlyCut /\ wire'.end = wire.end
          \/ v = <<>> /\ wire'.end = Append(wire.end, "cut")
      BY <1>3, WordsDiffer DEF Onward, Unwritten
    <2>2. Append(<<>>, "cut") = <<"cut">>
      BY Appended
    <2> QED BY <1>3, <2>1, <2>2 DEF KeepsCut
  <1>4. CASE w = <<>> /\ wire.end = <<"cut">>
    <2>1. v = <<>> /\ wire'.end = wire.end
      BY <1>4, WordsDiffer DEF Onward, Unwritten
    <2> QED BY <1>4, <2>1 DEF KeepsCut
  <1> QED BY <1>1, <1>2, <1>3, <1>4 DEF KeepsCut

\* A finish too, while the client is there.
LEMMA FinishOn ==
  ASSUME NEW w \in Words, NEW v \in Words, Agrees(w, wire.end), Onward(w, v), ~gone,
         KeepsFinish(w), ses.api \in {"chat", "responses"}, ses'.api = ses.api
  PROVE  KeepsFinish(v)'
  <1>1. CASE w = Answering /\ ~shut
    <2>1. v \in {Answering, Finishing} /\ shut' = shut
      BY <1>1, WordsDiffer, WordTails DEF Onward, Unwritten, Refused
    <2> QED BY <1>1, <2>1 DEF KeepsFinish
  <1>2. CASE w = Finishing /\ ~shut
    <2>1. wire.end = <<>>
      BY <1>2, AgreesIs
    <2>2. \/ v = Finishing /\ shut' = shut
          \/ v = DoneShut /\ shut' = shut /\ wire'.end = Append(wire.end, "final")
      BY <1>2, WordsDiffer DEF Onward, Unwritten, Refused, Wrote
    <2>3. Append(<<>>, "final") = <<"final">>
      BY Appended
    <2> QED BY <1>2, <2>1, <2>2, <2>3 DEF KeepsFinish
  <1>3. CASE w = DoneShut /\ wire.end = <<"final">> /\ ~shut
    <2>1. \/ v = DoneShut /\ shut' = shut /\ wire'.end = wire.end
          \/ v = OnlyShut /\ DoneWritten
      BY <1>3, WordsDiffer DEF Onward, Unwritten, Refused
    <2>2. Append(<<"final">>, "done") = <<"final", "done">>
      BY Appended
    <2>3. DoneWritten => wire'.end = NormalEnd'
      BY <1>3, <2>2 DEF DoneWritten, Unwritten, Wrote, NormalEnd
    <2> QED BY <1>3, <2>1, <2>3 DEF KeepsFinish
  <1>4. CASE w \in {OnlyShut, <<>>} /\ wire.end = NormalEnd
    <2>1. v \in {OnlyShut, <<>>} /\ wire'.end = wire.end
      BY <1>4, WordsDiffer DEF Onward, Unwritten
    <2>2. NormalEnd' = NormalEnd
      BY DEF NormalEnd
    <2> QED BY <1>4, <2>1, <2>2 DEF KeepsFinish
  <1> QED BY <1>1, <1>2, <1>3, <1>4 DEF KeepsFinish

\* And a fault.
LEMMA FaultOn ==
  ASSUME NEW w \in Words, NEW v \in Words, Agrees(w, wire.end), Onward(w, v), ~gone,
         KeepsFault(w)
  PROVE  KeepsFault(v)'
  <1>0. /\ Append(<<>>, "error") = <<"error">> /\ Append(<<"error">>, "done") = <<"error", "done">>
        /\ Append(<<>>, "cut") = <<"cut">> /\ Append(<<"malformed">>, "cut") = <<"malformed", "cut">>
    BY Appended
  <1>1. CASE w = ErrorDone /\ ~shut
    <2>1. wire.end = <<>>
      BY <1>1, AgreesIs
    <2>2. \/ v = ErrorDone /\ shut' = shut
          \/ v = DoneShut /\ shut' = shut /\ wire'.end = Append(wire.end, "error")
      BY <1>1, WordsDiffer, WordTails DEF Onward, Unwritten, Refused, Wrote
    <2> QED BY <1>0, <1>1, <2>1, <2>2 DEF KeepsFault
  <1>2. CASE w = ErrorShut /\ ~shut
    <2>1. wire.end = <<>>
      BY <1>2, AgreesIs
    <2>2. \/ v = ErrorShut /\ shut' = shut
          \/ v = OnlyShut /\ wire'.end = Append(wire.end, "error")
      BY <1>2, WordsDiffer, WordTails DEF Onward, Unwritten, Refused, Wrote
    <2> QED BY <1>0, <1>2, <2>1, <2>2 DEF KeepsFault, Errors
  <1>3. CASE w = DoneShut /\ wire.end = <<"error">> /\ ~shut
    <2>1. \/ v = DoneShut /\ shut' = shut /\ wire'.end = wire.end
          \/ v = OnlyShut /\ (wire'.end = wire.end \/ wire'.end = Append(wire.end, "done"))
      BY <1>3, WordsDiffer DEF Onward, Unwritten, Refused, Wrote, DoneWritten
    <2> QED BY <1>0, <1>3, <2>1 DEF KeepsFault, Errors
  <1>4. CASE w = OnlyShut /\ wire.end \in Errors
    <2>1. v \in {OnlyShut, <<>>} /\ wire'.end = wire.end
      BY <1>4, WordsDiffer DEF Onward, Unwritten
    <2>2. wire.end \notin Finals
      BY <1>4, EndingsDiffer DEF Errors, Finals
    <2> QED BY <1>4, <2>1, <2>2 DEF KeepsFault
  <1>5. CASE w \in {Garbling, Cutting, SetCut}
    <2>1. v \in {Garbling, Cutting, SetCut, OnlyCut}
      BY <1>5, WordsDiffer DEF Onward
    <2> QED BY <2>1 DEF KeepsFault
  <1>6. CASE w = OnlyCut
    <2>1. wire.end \in {<<>>, <<"malformed">>}
      BY <1>6, AgreesIs
    <2>2. v = OnlyCut \/ (v = <<>> /\ wire'.end = Append(wire.end, "cut"))
      BY <1>6, WordsDiffer DEF Onward
    <2> QED BY <1>0, <2>1, <2>2, EndingsDiffer DEF KeepsFault, Finals
  <1>7. CASE w = <<>> /\ wire.end \notin Finals
    <2>1. v = <<>> /\ wire'.end = wire.end
      BY <1>7, WordsDiffer DEF Onward, Unwritten
    <2> QED BY <1>7, <2>1 DEF KeepsFault
  <1> QED BY <1>1, <1>2, <1>3, <1>4, <1>5, <1>6, <1>7 DEF KeepsFault

\* A reason that is sound stays sound, and one that is recorded recorded.
LEMMA SoundOn ==
  ASSUME NEW w \in Words, NEW v \in Words, Told(w), Passes(w, v), gone => gone', NEW r,
         ses.api \in {"chat", "responses"}, ses'.api = ses.api
  PROVE  /\ Sound(r, w) => Sound(r, v)'
         /\ Recorded(r, w) => Recorded(r, v)'
  <1>1. CASE r \notin Telling
    BY <1>1 DEF Sound, Recorded
  <1>2. ASSUME r \in Telling, Sound(r, w)
        PROVE  Sound(r, v)' /\ (w = <<>> => v = <<>>)
    <2>1. pc \in Final /\ Keeps(r, w)
      BY <1>2 DEF Sound
    <2>2. pc' \in Final
      BY <2>1 DEF Passes, Final, CloseAndPersist, Run
    <2>3. CASE /\ v = w /\ wire'.end = wire.end /\ (shut' = shut \/ (shut' = TRUE /\ gone))
      <3>1. Keeps(r, v)'
        BY <2>1, <2>3 DEF Keeps, KeepsCut, KeepsFinish, KeepsFault, NormalEnd
      <3> QED BY <2>2, <2>3, <3>1 DEF Sound
    <2>4. CASE Onward(w, v)
      <3>1. w = <<>> => v = <<>>
        BY <2>4, WordsDiffer DEF Onward
      <3>2. Agrees(w, wire.end)
        BY DEF Told
      <3>3. r = "connection_drop_behavior" => KeepsCut(v)'
        BY <2>1, <2>4, CutOn DEF Keeps
      <3>4. r \in FinishReasons /\ ~gone' => KeepsFinish(v)'
        BY <2>1, <2>4, <3>2, FinishOn DEF Keeps
      <3>5. r \in FaultReasons /\ ~gone' => KeepsFault(v)'
        BY <2>1, <2>4, <3>2, FaultOn DEF Keeps
      <3>6. Keeps(r, v)'
        BY <2>1, <3>3, <3>4, <3>5 DEF Keeps
      <3> QED BY <2>2, <3>1, <3>6 DEF Sound
    <2> QED BY <2>1, <2>3, <2>4 DEF Passes
  <1> QED BY <1>1, <1>2 DEF Sound, Recorded

\* The reasons of a program that begins are true to what it is to write.
LEMMA BeginsSound ==
  ASSUME NEW p, NEW v, NEW w, Told(w), pc \notin Final,
         wire'.end = <<>>, shut' = shut \/ (shut' = TRUE /\ gone), gone => gone',
         shut \in BOOLEAN, Begins(p, pc'), BeginsWith(p, v, pc')
  PROVE  ReasonsIn(p, SoundReasons(v)')
  <1>1. ~gone' => ~shut'
    BY DEF Told, PlaceFits
  <1>2. \A R : Program(p, v, R) => ReasonsIn(p, R)
    BY DEF Program
  <1>3. ASSUME NEW r, r \in Reasons, pc' = "exit", Keeps(r, v)'
        PROVE  {r} \subseteq SoundReasons(v)'
    BY <1>3 DEF SoundReasons, Sound, Final
  <1>4. ASSUME NEW R, Program(p, v, R), R \subseteq SoundReasons(v)'
        PROVE  ReasonsIn(p, SoundReasons(v)')
    BY <1>2, <1>4 DEF ReasonsIn
  <1>5. CASE Program(p, v, {})
    BY <1>4, <1>5
  <1>6. ASSUME NEW r \in FinishReasons, pc' = "exit", v = Finishing, Program(p, v, {r})
        PROVE  ReasonsIn(p, SoundReasons(v)')
    <2>1. Keeps(r, v)'
      BY <1>1, <1>6 DEF Keeps, KeepsFinish, FinishReasons, FaultReasons
    <2> QED BY <1>3, <1>4, <1>6, <2>1 DEF Reasons, Telling
  <1>7. ASSUME NEW r \in FaultReasons, pc' = "exit", v \in FaultWords, Program(p, v, {r})
        PROVE  ReasonsIn(p, SoundReasons(v)')
    <2>1. Keeps(r, v)'
      BY <1>1, <1>7 DEF Keeps, KeepsFault, FinishReasons, FaultReasons, FaultWords
    <2> QED BY <1>3, <1>4, <1>7, <2>1 DEF Reasons, Telling
  <1>8. CASE pc' = "exit" /\ Program(p, v, {"drop_connection"})
    <2>1. Keeps("drop_connection", v)'
      BY DEF Keeps, FinishReasons, FaultReasons
    <2> QED BY <1>3, <1>4, <1>8, <2>1 DEF Reasons
  <1>9. CASE pc' = "exit" /\ (gone \/ shut) /\ Program(p, v, {"client_disconnected"})
    <2>1. gone'
      BY <1>9 DEF Told, PlaceFits
    <2>2. Keeps("client_disconnected", v)'
      BY <2>1 DEF Keeps, FinishReasons, FaultReasons
    <2> QED BY <1>3, <1>4, <1>9, <2>2 DEF Reasons, Telling
  <1> QED BY <1>5, <1>6, <1>7, <1>8, <1>9 DEF BeginsWith

\* What the runner's program may still close for stays true.
LEMMA ReasonsOn ==
  ASSUME Shape, StreamForm, NEW w \in Words, NEW v \in Words, Truthful(w), [Next]_vars,
         Passes(w, v), gone => gone'
  PROVE  ReasonsIn(prog'["runner"], SoundReasons(v)')
  <1>0. Told(w) /\ ReasonsIn(prog["runner"], SoundReasons(w)) /\ Programs /\ "runner" \in Actors
    BY DEF Truthful, Shape, Actors
  <1>9. ses.api \in {"chat", "responses"} /\ ses'.api = ses.api
    BY ApiStays
  <1>1. SoundReasons(w) \subseteq SoundReasons(v)'
    BY <1>0, <1>9, SoundOn DEF SoundReasons
  <1>2. ReasonsIn(prog["runner"], SoundReasons(v)')
    BY <1>0, <1>1 DEF ReasonsIn
  <1>3. CASE prog'["runner"] = prog["runner"]
    BY <1>2, <1>3
  <1>4. CASE Step("runner")
    BY <1>0, <1>2, <1>4, StepReasons DEF Told
  <1>5. CASE CloseAndPersist
    <2>1. PICK p : /\ Run(p, "stopped") /\ (p = Persist \/ ReasonsIn(p, {ses.reason}))
      BY <1>5, LastBegins
    <2>2. ses.reason \in SoundReasons(v)'
      <3>1. ses.reason \in Reasons
        BY DEF Shape, Session, SessionFields
      <3>2. Sound(ses.reason, v)'
        <4>1. PICK r : r = ses.reason
          OBVIOUS
        <4>2. Sound(r, v)'
          BY <1>0, <1>9, <4>1, SoundOn DEF Truthful, Recorded
        <4>3. ses' = ses
          BY <1>5 DEF CloseAndPersist, sessionVars
        <4> QED BY <4>1, <4>2, <4>3
      <3>3. ses' = ses
        BY <1>5 DEF CloseAndPersist, sessionVars
      <3> QED BY <3>1, <3>2, <3>3 DEF SoundReasons
    <2>3. ReasonsIn(p, SoundReasons(v)')
      BY <2>1, <2>2, LastPrograms DEF ReasonsIn
    <2> QED BY <1>0, <2>1, <2>3 DEF Run, Programs
  <1>6. CASE /\ pc \notin Final /\ wire'.end = <<>> /\ (shut' = shut \/ (shut' = TRUE /\ gone))
             /\ \E p : Run(p, pc') /\ BeginsWith(p, v, pc')
    <2>1. PICK p : Run(p, pc') /\ BeginsWith(p, v, pc')
      BY <1>6
    <2>2. Begins(p, pc') /\ shut \in BOOLEAN
      BY <2>1 DEF Begins, StreamForm
    <2>3. ReasonsIn(p, SoundReasons(v)')
      BY <1>0, <1>6, <2>1, <2>2, BeginsSound
    <2> QED BY <1>0, <2>1, <2>3 DEF Run, Programs
  <1> QED BY <1>3, <1>4, <1>5, <1>6 DEF Passes

\* What the session, its snapshots and its row say stays true.
LEMMA RecordsOn ==
  ASSUME Shape, NEW w \in Words, NEW v \in Words, Truthful(w), [Next]_vars,
         Passes(w, v), gone => gone'
  PROVE  /\ Recorded(ses.reason, v)' /\ Recorded(row.reason, v)'
         /\ \A a \in Actors : Recorded(snap[a].reason, v)'
  <1> DEFINE H == {r \in Reasons : Recorded(r, v)}'
  <1>0. Told(w) /\ ReasonsIn(prog["runner"], SoundReasons(w)) /\ Programs /\ ses \in SessionFields
    BY DEF Truthful, Shape, Session
  <1>1. \A r \in Reasons : Recorded(r, w) => r \in H
    BY <1>0, ApiStays, SoundOn
  <1>2. ses.reason \in H /\ row.reason \in H /\ \A a \in Actors : snap[a].reason \in H
    <2>1. /\ ses.reason \in Reasons /\ row.reason \in Reasons
          /\ \A a \in Actors : snap[a].reason \in Reasons
      BY DEF Shape, Session, SessionFields, Rows
    <2> HIDE DEF H
    <2> QED BY <1>1, <2>1 DEF Truthful
  <1>3. {"", "stop", "drop_connection", "admin_delete"} \subseteq H
    BY TellNothing DEF Recorded, Sound, Reasons
  <1>4. ses'.reason \in H
    <2>1. ASSUME NEW f, Fits(f), ses' = With(ses, f) PROVE ses'.reason \in H
      <3>1. ses'.reason = ses.reason \/ ses'.reason \in {"stop", "drop_connection"}
        BY <1>0, <2>1, Assigned
      <3> HIDE DEF H
      <3> QED BY <1>2, <1>3, <3>1
    <2>2. ASSUME NEW a \in Actors, NEW f \in [state : Ended, reason : Reasons, ended : {TRUE}],
                 prog[a] # <<>>, prog[a][1].op = "close", f = prog[a][1].fields,
                 ses' = [With(ses, f) EXCEPT !.once = "running"]
          PROVE  ses'.reason \in H
      <3>1. ses'.reason = f.reason
        BY <1>0, <2>2, Closed
      <3>2. Good(prog[a]) /\ 1 \in 1..Len(prog[a])
        BY <1>0, <2>2 DEF Programs, Good
      <3>3. CASE a # "runner"
        <4>1. f.reason = "admin_delete"
          BY <1>0, <2>2, <3>2, <3>3 DEF Programs, Handler, ReasonsIn
        <4> HIDE DEF H
        <4> QED BY <1>3, <3>1, <4>1
      <3>4. CASE a = "runner"
        <4>1. Sound(f.reason, w)
          BY <1>0, <2>2, <3>2, <3>4 DEF ReasonsIn, SoundReasons
        <4>2. w = <<>>
          BY <1>0, <2>2, <3>2, <3>4, WordFirst DEF Told
        <4>3. Recorded(f.reason, w) /\ f.reason \in Reasons
          BY <4>1, <4>2 DEF Recorded
        <4> HIDE DEF H
        <4> QED BY <1>1, <3>1, <4>3
      <3> QED BY <3>3, <3>4
    <2>3. CASE ses' = ses
      <3> HIDE DEF H
      <3> QED BY <1>2, <2>3
    <2> HIDE DEF H
    <2> QED BY <2>1, <2>2, <2>3, SessionSteps
  <1>5. row'.reason \in H
    <2>1. row' = row \/ row' = Deleted \/ \E a \in Actors : row' = snap[a]
      BY SessionChanges DEF Store, DeleteRow
    <2>2. Deleted.reason = ""
      BY DEF Deleted
    <2> HIDE DEF H
    <2> QED BY <1>2, <1>3, <2>1, <2>2
  <1>6. ASSUME NEW a \in Actors PROVE snap'[a].reason \in H
    <2>1. snap'[a] = snap[a] \/ snap'[a] = RowOf(ses)
      BY SessionChanges DEF Snapshot, Shape, Session
    <2>2. RowOf(ses).reason = ses.reason
      BY DEF RowOf
    <2> HIDE DEF H
    <2> QED BY <1>2, <2>1, <2>2
  <1> QED BY <1>4, <1>5, <1>6

\* Every step keeps it.
LEMMA ReasonsTrueKept == Shape /\ ReasonsTrue /\ [Next]_vars => ReasonsTrue'
  <1> SUFFICES ASSUME Shape, ReasonsTrue, [Next]_vars PROVE ReasonsTrue'
    OBVIOUS
  <1>1. PICK w \in Words : Truthful(w)
    BY DEF ReasonsTrue
  <1>2. Told(w) /\ StreamForm
    BY <1>1 DEF Truthful, ReasonsTrue
  <1>3. PICK v \in Words : Told(v)' /\ Passes(w, v)
    BY <1>2, ToldOn
  <1>4. gone => gone'
    <2>1. gone' = gone \/ Leave
      BY StreamChanges
    <2> QED BY <2>1 DEF Leave
  <1>5. StreamForm'
    BY <1>2, FormKept DEF Shape
  <1>6. ReasonsIn(prog'["runner"], SoundReasons(v)')
    BY <1>1, <1>2, <1>3, <1>4, ReasonsOn
  <1>7. /\ Recorded(ses.reason, v)' /\ Recorded(row.reason, v)'
        /\ \A a \in Actors : Recorded(snap[a].reason, v)'
    BY <1>1, <1>3, <1>4, RecordsOn
  <1>8. Truthful(v)'
    BY <1>3, <1>6, <1>7 DEF Truthful
  <1> QED BY <1>5, <1>8 DEF ReasonsTrue, Words

\* At the start no reason is given.
LEMMA ReasonsTrueFirst == Init => ReasonsTrue
  <1> SUFFICES ASSUME Init PROVE ReasonsTrue
    OBVIOUS
  <1>1. /\ wire.end = <<>> /\ shut = FALSE /\ pc = FirstPlace(ses.behavior)
        /\ prog["runner"] = Start(ses.behavior)
        /\ row = RowOf(ses) /\ snap = [a \in Actors |-> RowOf(ses)]
    BY DEF Init, Actors
  <1>2. ses.behavior \in Behaviors /\ ses.reason = ""
    <2>1. PICK b \in Behaviors, n \in TokenBudgets, api \in Apis, t \in Textless :
            ses = [state |-> "CONNECTED", mode |-> "ECHO", reason |-> "", ended |-> FALSE,
                   once |-> "new", done |-> FALSE, paused |-> FALSE, fault |-> "none",
                   interval |-> Interval, behavior |-> b, budget |-> n,
                   api |-> api, textless |-> t]
      BY DEF Init
    <2>2. ses.behavior = b /\ ses.reason = ""
      BY <2>1
    <2> QED BY <2>2
  <1>3. ASSUME NEW w PROVE /\ Recorded(ses.reason, w) /\ Recorded(row.reason, w)
                           /\ \A a \in Actors : Recorded(snap[a].reason, w)
    <2>1. row.reason = "" /\ \A a \in Actors : snap[a].reason = ""
      BY <1>1, <1>2 DEF RowOf
    <2> QED BY <1>2, <2>1, TellNothing DEF Recorded, Sound
  <1>4. StreamForm
    BY ToldFirst DEF StreamTold
  <1>5. \A w \in {<<>>, Answering, Cutting} : w \in Words /\ Agrees(w, wire.end)
    BY <1>1, AgreesIs, SomeEndings DEF Words
  <1>6. ASSUME NEW w \in {<<>>, Answering, Cutting}, NEW R, Program(prog["runner"], w, R),
               R \subseteq SoundReasons(w), PlaceFits(w, wire.end)
        PROVE  ReasonsTrue
    <2>1. Writes(prog["runner"], w) /\ ReasonsIn(prog["runner"], SoundReasons(w))
      BY <1>6 DEF Program, ReasonsIn
    <2>2. Truthful(w)
      BY <1>3, <1>5, <1>6, <2>1 DEF Truthful, Told
    <2> QED BY <1>4, <1>5, <2>2 DEF ReasonsTrue
  <1>7. CASE ses.behavior \notin Closers
    <2>1. pc \notin Final
      BY <1>1, <1>2, <1>7, RunnerAssumption DEF FirstPlace, Closers, Final
    <2>2. PlaceFits(<<>>, wire.end)
      BY <1>1, <2>1 DEF PlaceFits, Final
    <2>3. Program(prog["runner"], <<>>, {}) /\ {} \subseteq SoundReasons(<<>>)
      BY <1>1, <1>2, <1>7, StartPrograms
    <2> QED BY <1>6, <2>2, <2>3
  <1>8. CASE ses.behavior \in Closers
    <2>1. pc = "exit"
      BY <1>1, <1>8 DEF FirstPlace, Closers
    <2>2. \A w : PlaceFits(w, wire.end)
      BY <1>1, <2>1 DEF PlaceFits, Final
    <2>3. \A r \in {"static_response", "subagent_echo_complete"} : r \in SoundReasons(Answering)
      BY <1>1, <2>1 DEF SoundReasons, Sound, Keeps, KeepsFinish, Final, Reasons, Telling,
                        FinishReasons, FaultReasons
    <2>4. "connection_drop_behavior" \in SoundReasons(Cutting)
      BY <1>1, <2>1 DEF SoundReasons, Sound, Keeps, KeepsCut, Final, Reasons, Telling,
                        FinishReasons, FaultReasons
    <2>5. CASE ses.behavior \in {"static_response", "subagent_report"}
      <3>1. \E r \in {"static_response", "subagent_echo_complete"} :
              Program(prog["runner"], Answering, {r})
        BY <1>1, <1>2, <2>5, StartPrograms
      <3>2. PICK r \in {"static_response", "subagent_echo_complete"} :
              Program(prog["runner"], Answering, {r})
        BY <3>1
      <3>3. {r} \subseteq SoundReasons(Answering)
        BY <2>3
      <3> QED BY <1>6, <2>2, <3>2, <3>3
    <2>6. CASE ses.behavior = "connection_drop"
      <3>1. Program(prog["runner"], Cutting, {"connection_drop_behavior"})
        BY <1>1, <1>2, <2>6, StartPrograms
      <3>2. {"connection_drop_behavior"} \subseteq SoundReasons(Cutting)
        BY <2>4
      <3> QED BY <1>6, <2>2, <3>1, <3>2
    <2> QED BY <1>8, <2>5, <2>6 DEF Closers
  <1> QED BY <1>7, <1>8

(***************************************************************************)
(* When the runner has stopped and the row still exists, the row has an    *)
(* end time, whoever closed the session and whichever snapshot was stored  *)
(* last; its state is an end unless a setter changed the session after its *)
(* end; and its reason is true to what the client saw, through either API. *)
(***************************************************************************)
THEOREM RowTrue == Spec => []RowTellsHow
<1>1. RowsEnded /\ ReasonsTrue /\ StatesTell /\ Shape => RowTellsHow
  <2> SUFFICES ASSUME RowsEnded, ReasonsTrue, StatesTell, Shape, Stopped, row # Deleted
               PROVE  RowTellsHow
    BY DEF RowTellsHow
  <2>1. pc = "stopped" /\ prog["runner"] = <<>>
    BY DEF Stopped
  <2>2. row.ended
    BY <2>1 DEF RowsEnded, LastStore
  <2>3. PICK w \in Words : Truthful(w)
    BY DEF ReasonsTrue
  <2>4. w = <<>>
    BY <2>1, <2>3, EmptyWord DEF Truthful, Told
  <2>5. row.reason \in Telling => Keeps(row.reason, <<>>)
    BY <2>3, <2>4 DEF Truthful, Recorded, Sound
  <2>6. ASSUME row.reason = "client_disconnected" PROVE gone
    BY <2>5, <2>6 DEF Telling, Keeps
  <2>7. ASSUME row.reason = "connection_drop_behavior" PROVE wire.end = <<"cut">>
    BY <2>5, <2>7, WordsDiffer DEF Telling, Keeps, KeepsCut
  <2>8. ASSUME row.reason \in FinishReasons, ~gone PROVE wire.end = NormalEnd
    BY <2>5, <2>8, WordsDiffer DEF Telling, Keeps, KeepsFinish
  <2>9. ASSUME row.reason \in FaultReasons, ~gone
        PROVE  wire.end \notin {<<>>, <<"final">>, <<"final", "done">>}
    BY <2>5, <2>9, WordsDiffer DEF Telling, Keeps, KeepsFault, Finals
  <2>10. row.state \in Ended \/ ses.state \notin Ended
    BY <2>2 DEF StatesTell, EndTold
  <2> QED BY <2>2, <2>6, <2>7, <2>8, <2>9, <2>10 DEF RowTellsHow, FinishReasons, FaultReasons
<1>2. RowsEnded /\ StreamTold /\ Shape /\ [Next]_vars => RowsEnded'
  BY RowsEndedKept
<1> QED BY <1>1, <1>2, ShapeKept, ToldFirst, ToldKept, RowsEndedFirst, ReasonsTrueFirst,
           ReasonsTrueKept, StatesTellFirst, StatesTellKept, PTL DEF Spec

-----------------------------------------------------------------------------
(***************************************************************************)
(* Manual messages: the queue, the message in hand and what was written.   *)
(***************************************************************************)
Delivering == {"piece", "piece_wait", "piece_write"}

Texts == [number : Nat \ {0}, piece : 1..Pieces]

ManualForm ==
  /\ accepted \in Nat /\ manualCh \in Seq(Nat \ {0}) /\ wire.texts \in Seq(Texts)
  /\ \/ text \in Texts /\ pc \in Delivering
     \/ text = NoText /\ pc \notin Delivering

Before(s, t) == s.number < t.number \/ (s.number = t.number /\ s.piece < t.piece)

\* What is queued has been numbered later than what is in hand or written.
ManualOrder ==
  /\ \A i, j \in 1..Len(wire.texts) : i < j => Before(wire.texts[i], wire.texts[j])
  /\ text # NoText => \A i \in 1..Len(wire.texts) : Before(wire.texts[i], text)
  /\ \A j \in 1..Len(manualCh) :
       /\ manualCh[j] <= accepted /\ text.number < manualCh[j]
       /\ \A i \in 1..Len(wire.texts) : wire.texts[i].number < manualCh[j]
       /\ \A k \in 1..Len(manualCh) : j < k => manualCh[j] < manualCh[k]
  /\ text.number <= accepted
  /\ \A i \in 1..Len(wire.texts) : wire.texts[i].number <= accepted

\* With a single piece and the client there, the numbers are consecutive.
Held == IF text = NoText THEN 0 ELSE 1

ManualCount ==
  Pieces = 1 /\ ~gone =>
    /\ \A i \in 1..Len(wire.texts) : wire.texts[i].number = i
    /\ text # NoText => text.number = Len(wire.texts) + 1
    /\ \A j \in 1..Len(manualCh) : manualCh[j] = Len(wire.texts) + Held + j
    /\ Len(wire.texts) + Held + Len(manualCh) = accepted

Manual == ManualForm /\ ManualOrder /\ ManualCount

\* What a step does to them.
Untouched ==
  /\ text' = text /\ manualCh' = manualCh /\ accepted' = accepted
  /\ wire'.texts = wire.texts /\ (pc' \in Delivering <=> pc \in Delivering)

Queued ==
  /\ manualCh' = Append(manualCh, accepted + 1) /\ accepted' = accepted + 1
  /\ text' = text /\ wire'.texts = wire.texts /\ pc' = pc

Taken ==
  /\ pc \notin Delivering /\ pc' \in Delivering
  /\ manualCh # <<>> /\ manualCh' = Tail(manualCh)
  /\ text' = [number |-> Head(manualCh), piece |-> 1]
  /\ accepted' = accepted /\ wire'.texts = wire.texts

Typed ==
  /\ pc \in Delivering /\ manualCh' = manualCh /\ accepted' = accepted
  /\ \/ wire'.texts = Append(wire.texts, text)
     \/ wire'.texts = wire.texts /\ (gone \/ Pieces > 1)
  /\ \/ text.piece < Pieces /\ text' = [text EXCEPT !.piece = @ + 1] /\ pc' \in Delivering
     \/ text' = NoText /\ pc' \notin Delivering

\* Only a piece of a manual message adds to the texts.
LEMMA WrittenTexts ==
  ASSUME StreamForm, NEW kind
  PROVE  LET v == Written(wire, kind) IN
           v = [end |-> v.end, late |-> v.late, texts |-> wire.texts] /\ v.texts = wire.texts
  <1> DEFINE v == Written(wire, kind)
  <1>1. v = [end |-> v.end, late |-> v.late, texts |-> wire.texts]
    BY WrittenIs
  <1> HIDE DEF v
  <1>2. v.texts = wire.texts
    BY <1>1
  <1> QED BY <1>1, <1>2 DEF v

\* One of these four.
LEMMA TextSteps ==
  ASSUME StreamForm, NEW w, Told(w), [Next]_vars
  PROVE  Untouched \/ Queued \/ Taken \/ Typed
  <1>2. CASE \E a \in Actors : Step(a)
    <2>1. PICK a \in Actors : Step(a)
      BY <1>2
    <2>2. pc' = pc
      BY <2>1, StepKeeps
    <2>3. text' = text /\ wire'.texts = wire.texts
      <3>1. CASE Assign(a) \/ CloseOnce(a) \/ Snapshot(a) \/ Store(a) \/ DeleteRow(a)
        BY <3>1 DEF Assign, CloseOnce, Snapshot, Store, DeleteRow, streamVars
      <3>2. CASE SendCommand(a) \/ DropOldest(a) \/ Resend(a) \/ SendManual(a)
        BY <3>2 DEF SendCommand, DropOldest, Resend, SendManual, streamVars
      <3>3. CASE Spawn(a) \/ Delay(a) \/ ShutWriter(a)
        BY <3>3 DEF Spawn, Delay, ShutWriter, streamVars
      <3>4. CASE Emit(a)
        <4>1. text' = text /\ (wire' = wire \/ \E kind : wire' = Written(wire, kind))
          BY <3>4 DEF Emit
        <4> QED BY <4>1, WrittenTexts
      <3>5. CASE CutSocket(a)
        BY <3>5 DEF CutSocket, StreamForm
      <3> QED BY <2>1, <3>1, <3>2, <3>3, <3>4, <3>5 DEF Step
    <2>4. (manualCh' = manualCh /\ accepted' = accepted) \/ SendManual(a)
      <3>1. CASE Assign(a) \/ CloseOnce(a) \/ Snapshot(a) \/ Store(a) \/ DeleteRow(a)
        BY <3>1 DEF Assign, CloseOnce, Snapshot, Store, DeleteRow, sessionVars
      <3>2. CASE SendCommand(a) \/ DropOldest(a) \/ Resend(a)
        BY <3>2 DEF SendCommand, DropOldest, Resend
      <3>3. CASE Spawn(a) \/ Delay(a) \/ Emit(a) \/ ShutWriter(a) \/ CutSocket(a)
        BY <3>3 DEF Spawn, Delay, Emit, ShutWriter, CutSocket, sessionVars
      <3> QED BY <2>1, <3>1, <3>2, <3>3 DEF Step
    <2>5. CASE SendManual(a)
      BY <2>2, <2>3, <2>5 DEF SendManual, Untouched, Queued
    <2> QED BY <2>2, <2>3, <2>4, <2>5 DEF Untouched
  <1>3. CASE \E a \in Admins : \/ \E name \in Requests \ {"inject", "schedule"} : Ask(a, name)
                               \/ \E how \in FaultModes : AskInject(a, how)
    BY <1>3 DEF Ask, AskInject, Untouched, sessionVars, streamVars
  <1>4. CASE Leave
    BY <1>4 DEF Leave, Untouched, sessionVars, streamVars
  <1>5. CASE KeepAlive
    <2>1. /\ text' = text /\ manualCh' = manualCh /\ accepted' = accepted /\ pc' = pc
          /\ wire' = wire \/ wire' = Written(wire, "comment")
      BY <1>5 DEF KeepAlive, sessionVars, streamVars
    <2> QED BY <2>1, WrittenTexts DEF Untouched
  <1>6. CASE TakeText
    BY <1>6 DEF TakeText, Taken, At, Goto, Delivering, streamVars
  <1>7. CASE NextPiece
    BY <1>7 DEF NextPiece, Delivered, Typed, Untouched, At, Goto, Run, Delivering, ManualOnly,
                sessionVars, streamVars
  <1>8. CASE PieceWait
    BY <1>8 DEF PieceWait, PieceDone, Delivered, Typed, Untouched, At, Goto, Run, Delivering,
                ManualOnly, sessionVars, streamVars
  <1>9. CASE WritePiece
    <2>1. pc = "piece_write" /\ (shut => gone)
      BY <1>9 DEF WritePiece, At, Told, PlaceFits, Final
    <2>2. wire'.texts = Append(wire.texts, text) \/ (wire'.texts = wire.texts /\ gone)
      <3>1. CASE wire' = [Written(wire, "text") EXCEPT !.texts = Append(@, text)]
        <4> DEFINE v == Written(wire, "text")
        <4>1. /\ v = [end |-> v.end, late |-> v.late, texts |-> wire.texts]
              /\ wire' = [v EXCEPT !.texts = Append(@, text)]
          BY <3>1, WrittenTexts
        <4> HIDE DEF v
        <4> QED BY <4>1
      <3>2. CASE (shut \/ gone) /\ UNCHANGED wire
        BY <2>1, <3>2
      <3> QED BY <1>9, <3>1, <3>2 DEF WritePiece
    <2>3. manualCh' = manualCh /\ accepted' = accepted /\ PieceDone
      BY <1>9 DEF WritePiece, sessionVars
    <2> QED BY <2>1, <2>2, <2>3 DEF Typed, PieceDone, Delivered, Goto, Run, Delivering, ManualOnly
  <1>10. CASE TakeCommand
    <2>1. PICK place \in DOMAIN AfterCommand :
            /\ At(place)
            /\ Run(HandleCommand(Head(cmdCh)),
                   IF Terminal(Head(cmdCh)) THEN "exit" ELSE AfterCommand[place])
      BY <1>10 DEF TakeCommand
    <2>2. pc \notin Delivering /\ pc' \notin Delivering
      BY <2>1 DEF AfterCommand, At, Run, Delivering
    <2> QED BY <1>10, <2>2 DEF TakeCommand, Untouched, streamVars
  <1>11. CASE Move \/ SkipEmptyUnit \/ BucketWait \/ AgentGap \/ SeeClientGone \/ SeeDone
    BY <1>11 DEF Move, SkipEmptyUnit, BucketWait, AgentGap, SeeClientGone, SeeDone, Untouched, At, Goto, Quit,
                 Run, Delivering, sessionVars, streamVars
  <1>12. CASE WriteEcho \/ WriteEchoFails
    BY <1>12, WrittenTexts DEF WriteEcho, WriteEchoFails, Untouched, At, Goto, Quit, Run,
                             Delivering, sessionVars
  <1>13. CASE Account
    BY <1>13 DEF Account, Untouched, At, Goto, Run, Delivering, sessionVars, streamVars
  <1>14. CASE EmitToolCall \/ AgentPart
    BY <1>14 DEF EmitToolCall, AgentPart, Untouched, At, Goto, Quit, Run, Delivering,
                 sessionVars, streamVars
  <1>15. CASE Unregister \/ CloseAndPersist
    BY <1>15 DEF Unregister, CloseAndPersist, Untouched, At, Goto, Run, Delivering,
                 sessionVars, streamVars
  <1>16. CASE UNCHANGED vars
    BY <1>16 DEF vars, Untouched
  <1> QED BY <1>2, <1>3, <1>4, <1>5, <1>6, <1>7, <1>8, <1>9, <1>10, <1>11, <1>12, <1>13, <1>14,
             <1>15, <1>16 DEF Next, Loop

\* The queue, the message in hand and the texts keep their form.
LEMMA ManualFormKept ==
  ASSUME ManualForm, Untouched \/ Queued \/ Taken \/ Typed
  PROVE  ManualForm'
  <1>0. /\ accepted \in Nat /\ manualCh \in Seq(Nat \ {0}) /\ wire.texts \in Seq(Texts)
        /\ Pieces \in Nat \ {0}
    BY RunnerAssumption DEF ManualForm
  <1>1. CASE Untouched
    BY <1>1 DEF Untouched, ManualForm
  <1>2. CASE Queued
    <2>1. accepted' \in Nat /\ manualCh' \in Seq(Nat \ {0})
      BY <1>0, <1>2, AppendProperties DEF Queued
    <2> QED BY <1>2, <2>1 DEF Queued, ManualForm
  <1>3. CASE Taken
    <2>1. manualCh' \in Seq(Nat \ {0}) /\ Head(manualCh) \in Nat \ {0}
      BY <1>0, <1>3, HeadTailProperties DEF Taken
    <2>2. text' \in Texts
      BY <1>0, <1>3, <2>1 DEF Taken, Texts
    <2> QED BY <1>0, <1>3, <2>1, <2>2 DEF Taken, ManualForm
  <1>4. CASE Typed
    <2>1. text \in Texts
      BY <1>4 DEF Typed, ManualForm
    <2>2. wire'.texts \in Seq(Texts)
      <3>1. Append(wire.texts, text) \in Seq(Texts)
        BY <1>0, <2>1, AppendProperties
      <3> QED BY <1>0, <1>4, <3>1 DEF Typed
    <2>3. \/ text' \in Texts /\ pc' \in Delivering
          \/ text' = NoText /\ pc' \notin Delivering
      BY <1>0, <1>4, <2>1 DEF Typed, Texts
    <2> QED BY <1>0, <1>4, <2>2, <2>3 DEF Typed, ManualForm
  <1> QED BY <1>1, <1>2, <1>3, <1>4

\* No message is in hand, or one with a number.
LEMMA InHandIs ==
  ASSUME ManualForm
  PROVE  /\ text \in [number : Nat, piece : Nat]
         /\ text \in Texts => text # NoText /\ text.number >= 1
         /\ NoText.number = 0 /\ text # NoText => text \in Texts
  <1>1. Pieces \in Nat \ {0}
    BY RunnerAssumption
  <1> QED BY <1>1 DEF ManualForm, Texts, NoText

\* Numbers of the queue before and after one is taken.
LEMMA QueueTail ==
  ASSUME manualCh \in Seq(Nat \ {0}), manualCh # <<>>
  PROVE  /\ Len(manualCh) \in Nat \ {0} /\ 1 \in 1..Len(manualCh)
         /\ Head(manualCh) = manualCh[1] /\ Len(Tail(manualCh)) = Len(manualCh) - 1
         /\ \A j \in 1..Len(Tail(manualCh)) :
              j + 1 \in 1..Len(manualCh) /\ Tail(manualCh)[j] = manualCh[j + 1]
  <1>1. Len(manualCh) \in Nat \ {0}
    BY LenProperties, EmptySeq
  <1> QED BY <1>1, HeadTailProperties

\* Pieces stay in order.
LEMMA ManualOrderKept ==
  ASSUME ManualForm, ManualOrder, Untouched \/ Queued \/ Taken \/ Typed
  PROVE  ManualOrder'
  <1> DEFINE n == Len(wire.texts)
             q == manualCh
  <1>0. /\ accepted \in Nat /\ q \in Seq(Nat \ {0}) /\ wire.texts \in Seq(Texts)
        /\ n \in Nat /\ Len(q) \in Nat /\ text \in [number : Nat, piece : Nat]
        /\ \A i \in 1..n : wire.texts[i] \in Texts
        /\ \A j \in 1..Len(q) : q[j] \in Nat
    BY InHandIs, LenProperties DEF ManualForm
  <1>1. CASE Untouched
    BY <1>1 DEF Untouched, ManualOrder, Before
  <1>2. CASE Queued
    <2>1. /\ Len(q') = Len(q) + 1 /\ q'[Len(q) + 1] = accepted + 1
          /\ \A j \in 1..Len(q) : q'[j] = q[j]
      BY <1>0, <1>2, AppendProperties DEF Queued
    <2>2. \A j \in 1..Len(q') : j \in 1..Len(q) \/ j = Len(q) + 1
      BY <1>0, <2>1
    <2>3. /\ wire'.texts = wire.texts /\ text' = text /\ accepted' = accepted + 1
      BY <1>2 DEF Queued
    <2>4. \A i \in 1..n : wire.texts[i].number \in Nat
      BY <1>0 DEF Texts
    <2>5. ASSUME NEW j \in 1..Len(q')
          PROVE  /\ q'[j] <= accepted' /\ text'.number < q'[j]
                 /\ \A i \in 1..n : wire.texts[i].number < q'[j]
                 /\ \A k \in 1..Len(q') : j < k => q'[j] < q'[k]
      <3>1. CASE j \in 1..Len(q)
        <4>1. q'[j] = q[j] /\ q[j] <= accepted /\ text.number < q[j]
          BY <2>1, <3>1 DEF ManualOrder
        <4>2. \A k \in 1..Len(q) : j < k => q'[j] < q'[k]
          BY <2>1, <3>1 DEF ManualOrder
        <4>3. \A i \in 1..n : wire.texts[i].number < q'[j]
          BY <3>1, <4>1 DEF ManualOrder
        <4>4. \A k \in 1..Len(q') : j < k => q'[j] < q'[k]
          BY <1>0, <2>1, <2>2, <3>1, <4>1, <4>2
        <4> QED BY <1>0, <2>3, <3>1, <4>1, <4>3, <4>4
      <3>2. CASE j = Len(q) + 1
        <4>1. q'[j] = accepted + 1 /\ \A k \in 1..Len(q') : ~(j < k)
          BY <1>0, <2>1, <3>2
        <4>2. text.number <= accepted /\ \A i \in 1..n : wire.texts[i].number <= accepted
          BY DEF ManualOrder
        <4>3. text'.number < accepted + 1 /\ \A i \in 1..n : wire.texts[i].number < accepted + 1
          <5>1. text'.number \in Nat
            BY <1>0, <2>3
          <5> QED BY <1>0, <2>3, <2>4, <4>2, <5>1
        <4> QED BY <1>0, <2>3, <4>1, <4>3
      <3> QED BY <2>2, <3>1, <3>2
    <2>6. /\ text'.number <= accepted' /\ \A i \in 1..n : wire.texts[i].number <= accepted'
      BY <1>0, <2>3, <2>4 DEF ManualOrder
    <2> HIDE DEF n, q
    <2>7. /\ \A i, j \in 1..n : i < j => Before(wire.texts[i], wire.texts[j])
          /\ text # NoText => \A i \in 1..n : Before(wire.texts[i], text)
      BY DEF ManualOrder, n
    <2> QED BY <2>3, <2>5, <2>6, <2>7 DEF ManualOrder, Before, n, q
  <1>3. CASE Taken
    <2>1. /\ 1 \in 1..Len(q) /\ text'.number = q[1] /\ Len(q') = Len(q) - 1
          /\ \A j \in 1..Len(q') : j + 1 \in 1..Len(q) /\ q'[j] = q[j + 1]
          /\ wire'.texts = wire.texts /\ accepted' = accepted
      BY <1>0, <1>3, QueueTail DEF Taken
    <2>2. \A i \in 1..n : Before(wire.texts[i], text')
      BY <2>1 DEF ManualOrder, Before
    <2>3. ASSUME NEW j \in 1..Len(q')
          PROVE  /\ q'[j] <= accepted /\ text'.number < q'[j]
                 /\ \A i \in 1..n : wire.texts[i].number < q'[j]
                 /\ \A k \in 1..Len(q') : j < k => q'[j] < q'[k]
      <3>1. j + 1 \in 1..Len(q) /\ q'[j] = q[j + 1] /\ 1 < j + 1
        BY <2>1
      <3>2. ASSUME NEW k \in 1..Len(q'), j < k PROVE q'[j] < q'[k]
        <4>1. k + 1 \in 1..Len(q) /\ q'[k] = q[k + 1] /\ j + 1 < k + 1
          BY <2>1, <3>2
        <4> QED BY <3>1, <4>1 DEF ManualOrder
      <3> QED BY <2>1, <3>1, <3>2 DEF ManualOrder
    <2>4. text'.number <= accepted
      BY <2>1 DEF ManualOrder
    <2> HIDE DEF n, q
    <2>5. /\ \A i, j \in 1..n : i < j => Before(wire.texts[i], wire.texts[j])
          /\ \A i \in 1..n : wire.texts[i].number <= accepted
      BY DEF ManualOrder, n
    <2> QED BY <2>1, <2>2, <2>3, <2>4, <2>5 DEF ManualOrder, Before, n, q
  <1>4. CASE Typed
    <2>1. /\ text \in Texts /\ text # NoText /\ q' = q /\ accepted' = accepted
      BY <1>4, InHandIs DEF Typed, ManualForm
    <2>2. text' \in [number : Nat, piece : Nat] /\ text'.number <= text.number
      BY <1>0, <1>4, <2>1 DEF Typed, Texts, NoText
    <2>3. text' # NoText => Before(text, text') /\ text'.number = text.number
      BY <1>4, <2>1 DEF Typed, Texts, Before
    <2>4. /\ wire'.texts = wire.texts
          \/ /\ Len(wire'.texts) = n + 1 /\ wire'.texts[n + 1] = text
             /\ \A i \in 1..n : wire'.texts[i] = wire.texts[i]
      BY <1>0, <1>4, <2>1, AppendProperties DEF Typed
    <2> DEFINE m == Len(wire'.texts)
               ts == wire'.texts
    <2>5. \A i \in 1..m : (i \in 1..n /\ ts[i] = wire.texts[i]) \/ (i = n + 1 /\ ts[i] = text)
      BY <1>0, <2>4
    <2>6. \A i, j \in 1..m : i < j => Before(ts[i], ts[j])
      <3> SUFFICES ASSUME NEW i \in 1..m, NEW j \in 1..m, i < j PROVE Before(ts[i], ts[j])
        OBVIOUS
      <3>1. i \in 1..n /\ ts[i] = wire.texts[i]
        <4>1. m <= n + 1 /\ m \in Nat
          BY <1>0, <2>4
        <4> QED BY <1>0, <2>5, <4>1
      <3> QED BY <2>1, <2>5, <3>1 DEF ManualOrder
    <2>7. \A i \in 1..m : ts[i].number <= accepted /\ ts[i].number <= text.number
      <3>1. ASSUME NEW i \in 1..n PROVE wire.texts[i].number <= text.number
        <4>1. wire.texts[i].number \in Nat /\ text.number \in Nat
          BY <1>0, <2>1 DEF Texts
        <4>2. Before(wire.texts[i], text)
          BY <2>1 DEF ManualOrder
        <4> QED BY <4>1, <4>2 DEF Before
      <3>2. text.number <= accepted /\ \A i \in 1..n : wire.texts[i].number <= accepted
        BY DEF ManualOrder
      <3>3. text.number \in Nat
        BY <2>1 DEF Texts
      <3> HIDE DEF n, m, ts
      <3> QED BY <2>5, <3>1, <3>2, <3>3
    <2>8. text' # NoText => \A i \in 1..m : Before(ts[i], text')
      <3> SUFFICES ASSUME text' # NoText, NEW i \in 1..m PROVE Before(ts[i], text')
        OBVIOUS
      <3>1. CASE i \in 1..n /\ ts[i] = wire.texts[i]
        <4>1. Before(wire.texts[i], text) /\ wire.texts[i] \in Texts
          BY <1>0, <2>1, <3>1 DEF ManualOrder
        <4> QED BY <1>0, <2>1, <2>2, <2>3, <3>1, <4>1 DEF Before, Texts
      <3>2. CASE ts[i] = text
        BY <2>3, <3>2
      <3> QED BY <2>5, <3>1, <3>2
    <2>9. ASSUME NEW j \in 1..Len(q)
          PROVE  /\ q[j] <= accepted /\ text'.number < q[j]
                 /\ \A i \in 1..m : ts[i].number < q[j]
                 /\ \A k \in 1..Len(q) : j < k => q[j] < q[k]
      <3>1. q[j] <= accepted /\ text.number < q[j] /\ \A k \in 1..Len(q) : j < k => q[j] < q[k]
        BY DEF ManualOrder
      <3>2. \A i \in 1..m : ts[i].number \in Nat
        BY <1>0, <2>1, <2>5 DEF Texts
      <3>3. q[j] \in Nat /\ text.number \in Nat /\ text'.number \in Nat
        BY <1>0, <2>2
      <3>4. text'.number <= text.number /\ \A i \in 1..m : ts[i].number <= text.number
        BY <2>2, <2>7
      <3> HIDE DEF n, m, ts, q
      <3> QED BY <3>1, <3>2, <3>3, <3>4
    <2>10. text'.number <= accepted
      BY <1>0, <2>2 DEF ManualOrder
    <2> HIDE DEF n, q, m, ts
    <2> QED BY <2>1, <2>6, <2>7, <2>8, <2>9, <2>10 DEF ManualOrder, Before, m, ts, q
  <1> QED BY <1>1, <1>2, <1>3, <1>4

\* With one piece and the client there, none is left out.
LEMMA ManualCountKept ==
  ASSUME ManualForm, ManualCount, Untouched \/ Queued \/ Taken \/ Typed, gone => gone'
  PROVE  ManualCount'
  <1> DEFINE n == Len(wire.texts)
             q == manualCh
  <1> SUFFICES ASSUME Pieces = 1, ~gone'
               PROVE  /\ \A i \in 1..n' : wire'.texts[i].number = i
                      /\ text' # NoText => text'.number = n' + 1
                      /\ \A j \in 1..Len(q') : q'[j] = n' + Held' + j
                      /\ n' + Held' + Len(q') = accepted'
    BY DEF ManualCount
  <1>0. /\ accepted \in Nat /\ q \in Seq(Nat \ {0}) /\ wire.texts \in Seq(Texts)
        /\ n \in Nat /\ Len(q) \in Nat /\ text \in [number : Nat, piece : Nat]
        /\ Held \in Nat
    BY InHandIs, LenProperties DEF ManualForm, Held
  <1>1. /\ \A i \in 1..n : wire.texts[i].number = i
        /\ text # NoText => text.number = n + 1
        /\ \A j \in 1..Len(q) : q[j] = n + Held + j
        /\ n + Held + Len(q) = accepted
    BY DEF ManualCount
  <1>2. CASE Untouched
    BY <1>1, <1>2 DEF Untouched, Held
  <1>3. CASE Queued
    <2>1. /\ Len(q') = Len(q) + 1 /\ q'[Len(q) + 1] = accepted + 1
          /\ \A j \in 1..Len(q) : q'[j] = q[j]
      BY <1>0, <1>3, AppendProperties DEF Queued
    <2>2. n' = n /\ Held' = Held /\ wire'.texts = wire.texts /\ text' = text
          /\ accepted' = accepted + 1
      BY <1>3 DEF Queued, Held
    <2> DEFINE h == Held
               l == Len(q)
    <2>5. n \in Nat /\ h \in Nat /\ l \in Nat /\ n + h + l = accepted
      BY <1>0, <1>1
    <2>6. accepted + 1 = n + h + (l + 1)
      <3> HIDE DEF n, h, l
      <3> QED BY <2>5
    <2>3. ASSUME NEW j \in 1..Len(q') PROVE q'[j] = n + Held + j
      <3>1. j \in 1..Len(q) \/ j = Len(q) + 1
        BY <1>0, <2>1
      <3>2. CASE j \in 1..Len(q)
        BY <1>1, <2>1, <3>2
      <3>3. CASE j = Len(q) + 1
        <4>1. q'[j] = accepted + 1
          BY <2>1, <3>3
        <4>2. accepted + 1 = n + Held + (Len(q) + 1)
          BY <2>6
        <4> QED BY <3>3, <4>1, <4>2
      <3> QED BY <3>1, <3>2, <3>3
    <2>4. n + Held + Len(q') = accepted + 1
      BY <2>6, <2>1
    <2> QED BY <1>1, <2>2, <2>3, <2>4
  <1>4. CASE Taken
    <2>1. /\ 1 \in 1..Len(q) /\ text'.number = q[1] /\ Len(q') = Len(q) - 1
          /\ \A j \in 1..Len(q') : j + 1 \in 1..Len(q) /\ q'[j] = q[j + 1]
          /\ wire'.texts = wire.texts /\ accepted' = accepted
      BY <1>0, <1>4, QueueTail DEF Taken
    <2>2. Held = 0
      BY <1>4, InHandIs DEF Taken, ManualForm, Held
    <2>3. Held' = 1
      <3>1. q[1] \in Nat \ {0}
        BY <1>0, <2>1
      <3> QED BY <2>1, <3>1 DEF Held, NoText
    <2>4. q[1] = n + 1 /\ n + 1 + Len(q') = accepted
      <3>1. q[1] = n + Held + 1 /\ n + Held + Len(q) = accepted
        BY <1>1, <2>1
      <3>2. q[1] = n + 0 + 1 /\ n + 0 + Len(q) = accepted
        BY <2>2, <3>1
      <3>3. n \in Nat /\ Len(q) \in Nat /\ Len(q') = Len(q) - 1
        BY <1>0, <2>1
      <3> HIDE DEF n, q
      <3> QED BY <3>2, <3>3
    <2>5. ASSUME NEW j \in 1..Len(q') PROVE q'[j] = n + 1 + j
      <3>1. q'[j] = q[j + 1] /\ j + 1 \in 1..Len(q)
        BY <2>1
      <3>2. q[j + 1] = n + Held + (j + 1)
        BY <1>1, <3>1
      <3>3. q'[j] = n + 0 + (j + 1) /\ n \in Nat
        BY <1>0, <2>2, <3>1, <3>2
      <3> HIDE DEF n, q
      <3> QED BY <3>3
    <2> QED BY <1>1, <2>1, <2>3, <2>4, <2>5
  <1>5. CASE Typed
    <2>1. text \in Texts /\ text # NoText /\ q' = q /\ accepted' = accepted /\ Held = 1
      BY <1>5, InHandIs DEF Typed, ManualForm, Held
    <2>2. text' = NoText /\ Held' = 0
      BY <1>5, <2>1 DEF Typed, Texts, Held
    <2>3. wire'.texts = Append(wire.texts, text)
      BY <1>5 DEF Typed
    <2>4. /\ n' = n + 1 /\ wire'.texts[n + 1] = text
          /\ \A i \in 1..n : wire'.texts[i] = wire.texts[i]
      BY <1>0, <2>1, <2>3, AppendProperties
    <2>5. \A i \in 1..n' : wire'.texts[i].number = i
      <3>1. \A i \in 1..n' : i \in 1..n \/ i = n + 1
        BY <1>0, <2>4
      <3> QED BY <1>0, <1>1, <2>1, <2>4, <3>1
    <2>6. n' + Held' + Len(q') = accepted'
      BY <1>0, <1>1, <2>1, <2>2, <2>4
    <2>7. ASSUME NEW j \in 1..Len(q') PROVE q'[j] = n' + Held' + j
      <3>1. q'[j] = n + 1 + j
        BY <1>1, <2>1
      <3> QED BY <1>0, <2>2, <2>4, <3>1
    <2> QED BY <2>2, <2>5, <2>6, <2>7
  <1> QED BY <1>2, <1>3, <1>4, <1>5

\* At the start no message has been accepted.
LEMMA ManualFirst == Init => Manual
  <1> SUFFICES ASSUME Init PROVE Manual
    OBVIOUS
  <1>1. /\ manualCh = <<>> /\ text = NoText /\ accepted = 0 /\ wire.texts = <<>>
        /\ pc = FirstPlace(ses.behavior)
    BY DEF Init
  <1>2. pc \notin Delivering
    BY <1>1 DEF FirstPlace, Delivering
  <1>3. /\ <<>> \in Seq(Texts) /\ <<>> \in Seq(Nat \ {0}) /\ Len(<<>>) = 0 /\ NoText.number = 0
        /\ ~\E i \in 1..0 : TRUE
    BY EmptySeq DEF NoText
  <1>4. ManualForm
    BY <1>1, <1>2, <1>3 DEF ManualForm
  <1>5. ManualOrder /\ ManualCount
    BY <1>1, <1>3 DEF ManualOrder, ManualCount, Held
  <1> QED BY <1>4, <1>5 DEF Manual

\* Every step keeps it.
LEMMA ManualKept == Shape /\ StreamTold /\ Manual /\ [Next]_vars => Manual'
  <1> SUFFICES ASSUME Shape, StreamTold, Manual, [Next]_vars PROVE Manual'
    OBVIOUS
  <1>1. PICK w \in Words : Told(w)
    BY DEF StreamTold
  <1>2. Untouched \/ Queued \/ Taken \/ Typed
    BY <1>1, TextSteps DEF StreamTold
  <1>3. gone => gone'
    <2>1. gone' = gone \/ Leave
      BY StreamChanges
    <2> QED BY <2>1 DEF Leave
  <1> QED BY <1>2, <1>3, ManualFormKept, ManualOrderKept, ManualCountKept DEF Manual

(***************************************************************************)
(* Pieces of manual messages are never out of order or repeated, however   *)
(* many administrators send them and take the session over.                *)
(***************************************************************************)
THEOREM PiecesOrdered == Spec => []PiecesInOrder
<1>1. Manual => PiecesInOrder
  BY DEF Manual, ManualOrder, Before, PiecesInOrder
<1> QED BY <1>1, ShapeKept, ToldFirst, ToldKept, ManualFirst, ManualKept, PTL DEF Spec

(***************************************************************************)
(* Delivered at once, and while the client is connected, what was written, *)
(* the message in hand and the queue are the accepted messages in order,   *)
(* each once.                                                              *)
(***************************************************************************)
THEOREM ManualWhole == Spec => []ManualExact
<1>1. Manual => ManualExact
  <2> SUFFICES ASSUME Manual, Pieces = 1, ~gone
               PROVE  [i \in 1..Len(wire.texts) |-> wire.texts[i].number] \o InHand \o manualCh
                        = [i \in 1..accepted |-> i]
    BY DEF ManualExact
  <2> DEFINE n == Len(wire.texts)
             a == [i \in 1..n |-> wire.texts[i].number]
             all == [i \in 1..accepted |-> i]
  <2>1. /\ accepted \in Nat /\ n \in Nat /\ manualCh \in Seq(Nat) /\ Len(manualCh) \in Nat
        /\ text \in [number : Nat, piece : Nat]
    <3>1. Nat \ {0} \subseteq Nat
      OBVIOUS
    <3> QED BY <3>1, InHandIs, LenProperties, SeqMonotonic DEF Manual, ManualForm
  <2>2. /\ \A i \in 1..n : wire.texts[i].number = i
        /\ text # NoText => text.number = n + 1
        /\ \A j \in 1..Len(manualCh) : manualCh[j] = n + Held + j
        /\ n + Held + Len(manualCh) = accepted
    BY DEF Manual, ManualCount
  <2>3. a \in Seq(Nat) /\ Len(a) = n /\ \A i \in 1..n : a[i] = i
    <3>1. a \in [1..n -> Nat]
      BY <2>1, <2>2
    <3>2. a \in Seq(Nat)
      BY <2>1, <3>1, SeqDef
    <3> QED BY <2>1, <2>2, <3>1, <3>2, LenProperties
  <2>4. all \in Seq(Nat) /\ Len(all) = accepted /\ \A i \in 1..accepted : all[i] = i
    <3>1. all \in [1..accepted -> Nat]
      BY <2>1
    <3>2. all \in Seq(Nat)
      BY <2>1, <3>1, SeqDef
    <3> QED BY <2>1, <3>1, <3>2, LenProperties
  <2>5. /\ InHand \in Seq(Nat) /\ Len(InHand) = Held /\ Held \in Nat
        /\ \A i \in 1..Len(InHand) : InHand[i] = n + i
    <3>1. CASE text = NoText
      <4>1. InHand = <<>> /\ Held = 0 /\ ~\E i \in 1..0 : TRUE
        BY <3>1 DEF InHand, Held
      <4> QED BY <4>1, EmptySeq
    <3>2. CASE text # NoText
      <4>1. InHand = <<text.number>> /\ Held = 1 /\ text.number = n + 1 /\ text.number \in Nat
        BY <2>1, <2>2, <3>2 DEF InHand, Held
      <4>2. \A i \in 1..1 : i = 1
        OBVIOUS
      <4> QED BY <4>1, <4>2
    <3> QED BY <3>1, <3>2
  <2> HIDE DEF a, all, n
  <2>6. /\ a \o InHand \in Seq(Nat) /\ Len(a \o InHand) = n + Held
        /\ \A i \in 1..(n + Held) : (a \o InHand)[i] = i
    <3>1. /\ a \o InHand \in Seq(Nat) /\ Len(a \o InHand) = n + Held
          /\ \A i \in 1..(n + Held) : (a \o InHand)[i] = IF i <= n THEN a[i] ELSE InHand[i - n]
      BY <2>3, <2>5, ConcatProperties
    <3>2. ASSUME NEW i \in 1..(n + Held), ~(i <= n)
          PROVE  InHand[i - n] = i
      <4>1. i - n \in 1..Held /\ n + (i - n) = i
        BY <2>1, <2>5, <3>2
      <4> QED BY <2>5, <4>1
    <3>3. ASSUME NEW i \in 1..(n + Held), i <= n PROVE a[i] = i
      BY <2>1, <2>3, <3>3
    <3> QED BY <3>1, <3>2, <3>3
  <2>7. /\ (a \o InHand) \o manualCh \in Seq(Nat) /\ Len((a \o InHand) \o manualCh) = accepted
        /\ \A i \in 1..accepted : ((a \o InHand) \o manualCh)[i] = i
    <3> DEFINE b == a \o InHand
               l == n + Held
    <3>1. /\ b \o manualCh \in Seq(Nat) /\ Len(b \o manualCh) = l + Len(manualCh)
          /\ \A i \in 1..(l + Len(manualCh)) :
               (b \o manualCh)[i] = IF i <= l THEN b[i] ELSE manualCh[i - l]
      BY <2>1, <2>6, ConcatProperties
    <3>2. l \in Nat /\ l + Len(manualCh) = accepted /\ \A i \in 1..l : b[i] = i
      BY <2>1, <2>2, <2>5, <2>6
    <3>3. \A j \in 1..Len(manualCh) : manualCh[j] = l + j
      BY <2>2
    <3> HIDE DEF b, l
    <3>4. ASSUME NEW i \in 1..accepted, ~(i <= l) PROVE manualCh[i - l] = i
      <4>1. i - l \in 1..Len(manualCh) /\ l + (i - l) = i
        BY <2>1, <3>2, <3>4
      <4> QED BY <3>3, <4>1
    <3>5. ASSUME NEW i \in 1..accepted PROVE (b \o manualCh)[i] = i
      <4>1. i \in 1..(l + Len(manualCh))
        BY <3>2
      <4>2. (b \o manualCh)[i] = IF i <= l THEN b[i] ELSE manualCh[i - l]
        BY <3>1, <4>1
      <4>3. CASE i <= l
        <5>1. i \in 1..l
          BY <2>1, <3>2, <4>3
        <5> QED BY <3>2, <4>2, <4>3, <5>1
      <4>4. CASE ~(i <= l)
        BY <3>4, <4>2, <4>4
      <4> QED BY <4>3, <4>4
    <3> QED BY <3>1, <3>2, <3>5 DEF b
  <2>8. (a \o InHand) \o manualCh = all
    <3> DEFINE c == (a \o InHand) \o manualCh
    <3>0. c \in Seq(Nat) /\ Len(c) = accepted /\ \A i \in 1..accepted : c[i] = i
      BY <2>7
    <3> HIDE DEF c
    <3>1. c \in Seq(Nat) /\ Len(c) = Len(all) /\ \A i \in 1..Len(c) : c[i] = all[i]
      BY <2>4, <3>0
    <3>2. c = all
      BY <2>4, <3>1, SeqEqual
    <3> QED BY <3>2 DEF c
  <2> QED BY <2>8 DEF a, all, n
<1> QED BY <1>1, ShapeKept, ToldFirst, ToldKept, ManualFirst, ManualKept, PTL DEF Spec

-----------------------------------------------------------------------------
(***************************************************************************)
(* The bounds of the channels and counters.                                *)
(***************************************************************************)
\* Budgets and limits are numbers of one machine word.
Capped == \E cap \in Nat : \A n \in TokenBudgets \union EventLimits : n <= cap

\* The order of numbers, as a relation.
LessPairs == {p \in Nat \X Nat : p[1] < p[2]}

\* The thresholds a session's units are compared with, and the largest.
Thresholds ==
  {AfterChunks} \union TokenBudgets \union EventLimits
    \union (IF ses.behavior = "agent" THEN {Calls + Parts} ELSE {})

\* There is a largest one, which is what UnitCap chooses.
LEMMA LargestUnits ==
  ASSUME Capped
  PROVE  /\ UnitCap \in Nat /\ UnitCap >= 1
         /\ ses.behavior = "agent" => UnitCap >= Calls + Parts
  <1>1. /\ AfterChunks \in Nat \ {0} /\ TokenBudgets \subseteq Nat /\ EventLimits \subseteq Nat
        /\ Calls \in Nat /\ Parts \in Nat
    BY RunnerAssumption
  <1>2. PICK cap \in Nat : \A n \in TokenBudgets \union EventLimits : n <= cap
    BY DEF Capped
  <1> DEFINE top == cap + AfterChunks + Calls + Parts
             Above == {k \in Nat : \E n \in Thresholds : k = top - n}
  <1>3. Thresholds \subseteq Nat /\ AfterChunks \in Thresholds
    BY <1>1 DEF Thresholds
  <1>4. top \in Nat /\ \A n \in Thresholds : n <= top
    <2>1. ASSUME NEW n \in Thresholds
          PROVE  n \in TokenBudgets \union EventLimits \/ n = AfterChunks \/ n = Calls + Parts
      BY DEF Thresholds
    <2>2. ASSUME NEW n \in Thresholds PROVE n <= cap \/ n = AfterChunks \/ n = Calls + Parts
      BY <1>2, <2>1
    <2>3. ASSUME NEW n \in Thresholds PROVE n <= top
      <3>1. n \in Nat
        BY <1>3
      <3> QED BY <1>1, <2>2, <3>1
    <2> QED BY <1>1, <2>3
  <1> HIDE DEF top
  <1>5. top - AfterChunks \in Above
    BY <1>1, <1>3, <1>4
  <1>6. IsWellFoundedOn(LessPairs, Nat)
    BY NatLessThanWellFounded DEF OpToRel, LessPairs
  <1>7. Above \subseteq Nat
    OBVIOUS
  <1>8. PICK k \in Above : \A l \in Above : ~(<<l, k>> \in LessPairs)
    BY <1>5, <1>6, <1>7, WFMin
  <1>9. PICK n \in Thresholds : k = top - n
    BY <1>8
  <1>10. ASSUME NEW m \in Thresholds PROVE m <= n
    <2>1. m \in Nat /\ n \in Nat /\ m <= top /\ k \in Nat
      BY <1>3, <1>4, <1>7, <1>8
    <2>2. top - m \in Above /\ top - m \in Nat
      BY <1>4, <2>1
    <2>3. ~(<<top - m, k>> \in LessPairs)
      BY <1>8, <2>2
    <2>4. ~(top - m < k)
      BY <2>1, <2>2, <2>3 DEF LessPairs
    <2> QED BY <1>4, <1>9, <2>1, <2>4
  <1>11. UnitCap \in Thresholds /\ \A m \in Thresholds : m <= UnitCap
    <2>1. \E x \in Thresholds : \A m \in Thresholds : m <= x
      BY <1>10
    <2>2. UnitCap = CHOOSE x \in Thresholds : \A m \in Thresholds : m <= x
      BY DEF UnitCap, Thresholds
    <2> QED BY <2>1, <2>2
  <1>12. ses.behavior = "agent" => Calls + Parts \in Thresholds
    BY DEF Thresholds
  <1> QED BY <1>1, <1>3, <1>11, <1>12

\* Only an agent is in a cycle, only agents and subagents make calls.
Cycle ==
  /\ pc \in {"cycle", "part"} => ses.behavior = "agent"
  /\ pc = "call" => ses.behavior \in {"agent", "subagent_shell"}

Bounds ==
  /\ pc \in Places /\ Cycle /\ live \in BOOLEAN
  /\ units \in 0..UnitCap /\ used \in 0..MaxRequests
  /\ Len(cmdCh) <= CmdCap /\ Len(manualCh) <= ManualCap

\* The behavior is that of the model, for good.
LEMMA BehaviorStays ==
  ASSUME Shape, [Next]_vars
  PROVE  ses'.behavior = ses.behavior
  <1>1. ses \in SessionFields
    BY DEF Shape, Session
  <1>2. ASSUME NEW f, "behavior" \notin DOMAIN f PROVE With(ses, f).behavior = ses.behavior
    BY <1>1, <1>2 DEF With, SessionFields
  <1>3. ASSUME NEW f, Fits(f) PROVE With(ses, f).behavior = ses.behavior
    BY <1>2, <1>3 DEF Fits
  <1>4. ASSUME NEW f \in [state : Ended, reason : Reasons, ended : {TRUE}]
        PROVE  [With(ses, f) EXCEPT !.once = "running"].behavior = ses.behavior
    BY <1>2 DEF With
  <1> QED BY <1>3, <1>4, SessionSteps

\* What no step of the loop does stays; the loop leaves the requests alone.
LEMMA BoundsChange ==
  ASSUME [Next]_vars
  PROVE  /\ (pc' = pc /\ units' = units /\ live' = live) \/ Loop
         /\ used' = used \/ (used < MaxRequests /\ used' = used + 1)
  <1> USE DEF sessionVars, streamVars, tableVars
  <1>1. CASE \E a \in Actors : Step(a)
    <2>1. PICK a \in Actors : Step(a)
      BY <1>1
    <2>2. CASE Assign(a) \/ CloseOnce(a) \/ Snapshot(a) \/ Store(a) \/ DeleteRow(a)
      BY <2>2 DEF Assign, CloseOnce, Snapshot, Store, DeleteRow
    <2>3. CASE SendCommand(a) \/ DropOldest(a) \/ Resend(a) \/ SendManual(a)
      BY <2>3 DEF SendCommand, DropOldest, Resend, SendManual
    <2>4. CASE Spawn(a) \/ Delay(a) \/ Emit(a) \/ ShutWriter(a) \/ CutSocket(a)
      BY <2>4 DEF Spawn, Delay, Emit, ShutWriter, CutSocket
    <2> QED BY <2>1, <2>2, <2>3, <2>4 DEF Step
  <1>2. CASE \E a \in Admins : \/ \E name \in Requests \ {"inject", "schedule"} : Ask(a, name)
                               \/ \E how \in FaultModes : AskInject(a, how)
    BY <1>2 DEF Ask, AskInject
  <1>3. CASE Leave \/ KeepAlive
    BY <1>3 DEF Leave, KeepAlive
  <1>4. CASE TakeCommand \/ Move \/ SkipEmptyUnit \/ BucketWait \/ WriteEcho \/ WriteEchoFails \/ Account
    BY <1>4 DEF TakeCommand, Move, SkipEmptyUnit, BucketWait, WriteEcho, WriteEchoFails, Account, Loop
  <1>5. CASE AgentGap \/ EmitToolCall \/ AgentPart \/ SeeClientGone \/ SeeDone \/ TakeText
    BY <1>5 DEF AgentGap, EmitToolCall, AgentPart, SeeClientGone, SeeDone, TakeText, Loop
  <1>6. CASE NextPiece \/ PieceWait \/ WritePiece \/ Unregister \/ CloseAndPersist
    BY <1>6 DEF NextPiece, PieceWait, WritePiece, Unregister, CloseAndPersist, Loop
  <1>7. CASE UNCHANGED vars
    BY <1>7 DEF vars
  <1> QED BY <1>1, <1>2, <1>3, <1>4, <1>5, <1>6, <1>7 DEF Next, Loop

\* The places of the loop.
PlacesIs ==
  {"top", "paused", "pace_capped", "pace_spin", "pace_tick", "manual", "manual_only",
   "look", "cycle", "call", "part", "hang", "check", "manual_check", "wait", "write", "account",
   "piece", "piece_wait", "piece_write", "exit", "deferred", "stopped"}

\* Those are all.
LEMMA PlacesAre == Places = PlacesIs
  <1>1. DOMAIN AfterCommand = {"top", "paused", "pace_capped", "pace_spin", "pace_tick", "manual",
                               "manual_only"}
    BY DEF AfterCommand
  <1> QED BY <1>1 DEF Places, PlacesIs

\* The loop goes from place to place, and into the cycle of an agent only
\* when the session is an agent's.
LEMMA PlacesKept ==
  ASSUME pc \in Places, Cycle, live \in BOOLEAN, ses'.behavior = ses.behavior, Loop
  PROVE  pc' \in Places /\ Cycle' /\ live' \in BOOLEAN
  <1> USE PlacesAre DEF PlacesIs, Cycle, tableVars
  <1>1. CASE TakeCommand
    <2>1. PICK place \in DOMAIN AfterCommand :
            pc' = IF Terminal(Head(cmdCh)) THEN "exit" ELSE AfterCommand[place]
      BY <1>1 DEF TakeCommand, Run
    <2>2. pc' \in {"exit", "check", "top", "manual_check", "manual_only"}
      BY <2>1 DEF AfterCommand
    <2> QED BY <1>1, <2>2 DEF TakeCommand
  <1>2. CASE Move \/ SkipEmptyUnit \/ BucketWait \/ AgentGap
    BY <1>2 DEF Move, SkipEmptyUnit, BucketWait, AgentGap, At, Goto, Quit, Run
  <1>3. CASE WriteEcho \/ WriteEchoFails
    BY <1>3 DEF WriteEcho, WriteEchoFails, At, Goto, Quit, Run
  <1>4. CASE Account
    BY <1>4 DEF Account, Goto, Run
  <1>5. CASE EmitToolCall \/ AgentPart
    BY <1>5 DEF EmitToolCall, AgentPart, At, Goto, Quit, Run
  <1>6. CASE SeeClientGone \/ SeeDone
    BY <1>6 DEF SeeClientGone, SeeDone, Goto, Quit, Run
  <1>7. CASE TakeText \/ NextPiece \/ PieceWait \/ WritePiece
    BY <1>7 DEF TakeText, NextPiece, PieceWait, WritePiece, PieceDone, Delivered, Goto, Run
  <1>8. CASE Unregister \/ CloseAndPersist
    BY <1>8 DEF Unregister, CloseAndPersist, Goto, Run
  <1> QED BY <1>1, <1>2, <1>3, <1>4, <1>5, <1>6, <1>7, <1>8 DEF Loop

\* Units are counted up to the largest threshold, calls up to their number.
LEMMA UnitsKept ==
  ASSUME Capped, Cycle, units \in 0..UnitCap, Loop
  PROVE  units' \in 0..UnitCap
  <1>1. UnitCap \in Nat /\ UnitCap >= 1 /\ (ses.behavior = "agent" => UnitCap >= Calls + Parts)
    BY LargestUnits
  <1> HIDE DEF UnitCap
  <1>2. CASE SkipEmptyUnit \/ WriteEcho
    BY <1>1, <1>2 DEF SkipEmptyUnit, WriteEcho
  <1>3. CASE EmitToolCall
    <2>1. units < ToolCalls /\ units' = units + 1 /\ ses.behavior \in {"agent", "subagent_shell"}
      BY <1>3 DEF EmitToolCall, At, Cycle
    <2>2. ToolCalls <= UnitCap /\ ToolCalls \in Nat
      BY <1>1, <2>1, RunnerAssumption DEF ToolCalls
    <2> QED BY <1>1, <2>1, <2>2
  <1>4. CASE TakeCommand \/ Move \/ BucketWait \/ WriteEchoFails \/ Account
    BY <1>4 DEF TakeCommand, Move, BucketWait, WriteEchoFails, Account
  <1>5. CASE AgentGap \/ AgentPart \/ SeeClientGone \/ SeeDone \/ TakeText
    BY <1>5 DEF AgentGap, AgentPart, SeeClientGone, SeeDone, TakeText
  <1>6. CASE NextPiece \/ PieceWait \/ WritePiece \/ Unregister \/ CloseAndPersist
    BY <1>6 DEF NextPiece, PieceWait, WritePiece, Unregister, CloseAndPersist
  <1> QED BY <1>2, <1>3, <1>4, <1>5, <1>6 DEF Loop

\* Nobody puts anything on a full channel.
LEMMA ChannelsKept ==
  ASSUME cmdCh \in Seq(Commands), manualCh \in Seq(Nat \ {0}), Len(cmdCh) <= CmdCap,
         Len(manualCh) <= ManualCap, [Next]_vars
  PROVE  Len(cmdCh') <= CmdCap /\ Len(manualCh') <= ManualCap
  <1>0. CmdCap \in Nat /\ ManualCap \in Nat
    BY RunnerAssumption
  <1>1. ASSUME NEW S, NEW q \in Seq(S), NEW x
        PROVE  /\ Len(Append(q, x)) = Len(q) + 1
               /\ q # <<>> => Len(Tail(q)) = Len(q) - 1
               /\ Len(q) \in Nat
    <2>1. q \in Seq(S \union {x}) /\ x \in S \union {x}
      OBVIOUS
    <2> QED BY <2>1, AppendProperties, HeadTailProperties
  <1>2. \/ cmdCh' = cmdCh
        \/ cmdCh # <<>> /\ cmdCh' = Tail(cmdCh)
        \/ Len(cmdCh) < CmdCap /\ \E x : cmdCh' = Append(cmdCh, x)
    <2>1. CASE TakeCommand
      BY <2>1 DEF TakeCommand
    <2>2. ASSUME NEW a \in Actors, SendCommand(a) \/ DropOldest(a) \/ Resend(a)
          PROVE  \/ cmdCh' = cmdCh
                 \/ cmdCh # <<>> /\ cmdCh' = Tail(cmdCh)
                 \/ Len(cmdCh) < CmdCap /\ \E x : cmdCh' = Append(cmdCh, x)
      BY <2>2 DEF SendCommand, DropOldest, Resend
    <2> QED BY <2>1, <2>2, SessionChanges
  <1>3. \/ manualCh' = manualCh
        \/ manualCh # <<>> /\ manualCh' = Tail(manualCh)
        \/ Len(manualCh) < ManualCap /\ \E x : manualCh' = Append(manualCh, x)
    <2>1. CASE TakeText
      BY <2>1 DEF TakeText
    <2>2. ASSUME NEW a \in Actors, SendManual(a)
          PROVE  \/ manualCh' = manualCh
                 \/ Len(manualCh) < ManualCap /\ \E x : manualCh' = Append(manualCh, x)
      BY <2>2 DEF SendManual
    <2> QED BY <2>1, <2>2, StreamChanges
  <1>4. Len(cmdCh') <= CmdCap
    BY <1>0, <1>1, <1>2
  <1>5. Len(manualCh') <= ManualCap
    BY <1>0, <1>1, <1>3
  <1> QED BY <1>4, <1>5

\* Every step keeps the bounds.
LEMMA BoundsKept ==
  Capped /\ Shape /\ Manual /\ Bounds /\ [Next]_vars => Bounds'
  <1> SUFFICES ASSUME Capped, Shape, Manual, Bounds, [Next]_vars PROVE Bounds'
    OBVIOUS
  <1>1. ses'.behavior = ses.behavior
    BY BehaviorStays
  <1>2. UnitCap' = UnitCap
    BY <1>1 DEF UnitCap
  <1>3. cmdCh \in Seq(Commands) /\ manualCh \in Seq(Nat \ {0})
    BY DEF Shape, Programs, Manual, ManualForm
  <1>4. (Len(cmdCh) <= CmdCap /\ Len(manualCh) <= ManualCap)'
    BY <1>3, ChannelsKept DEF Bounds
  <1>5. (pc \in Places)' /\ Cycle' /\ (live \in BOOLEAN)'
    <2>1. CASE Loop
      BY <1>1, <2>1, PlacesKept, PlacesAre DEF Bounds
    <2>2. CASE pc' = pc /\ live' = live
      BY <1>1, <2>2, PlacesAre DEF Bounds, Cycle
    <2> QED BY <2>1, <2>2, BoundsChange
  <1>6. (units \in 0..UnitCap)'
    <2>1. CASE Loop
      BY <1>2, <2>1, UnitsKept DEF Bounds
    <2>2. CASE units' = units
      BY <1>2, <2>2 DEF Bounds
    <2> QED BY <2>1, <2>2, BoundsChange
  <1>7. (used \in 0..MaxRequests)'
    BY BoundsChange, RunnerAssumption DEF Bounds
  <1> QED BY <1>4, <1>5, <1>6, <1>7 DEF Bounds

\* They hold at the start.
LEMMA BoundsFirst == Capped /\ Init => Bounds
  <1> SUFFICES ASSUME Capped, Init PROVE Bounds
    OBVIOUS
  <1>1. pc \in Places /\ Cycle
    BY PlacesAre DEF PlacesIs, Init, FirstPlace, Cycle
  <1>2. units \in 0..UnitCap
    <2>1. units = 0 /\ UnitCap \in Nat
      BY LargestUnits DEF Init
    <2> QED BY <2>1
  <1>3. /\ Len(cmdCh) <= CmdCap /\ Len(manualCh) <= ManualCap /\ live \in BOOLEAN
        /\ used \in 0..MaxRequests
    <2>1. /\ cmdCh = <<>> /\ manualCh = <<>> /\ live = TRUE /\ used = 0
      BY DEF Init
    <2>2. Len(<<>>) = 0 /\ CmdCap \in Nat /\ ManualCap \in Nat /\ MaxRequests \in Nat
      BY RunnerAssumption
    <2> QED BY <2>1, <2>2
  <1> QED BY <1>1, <1>2, <1>3 DEF Bounds

(***************************************************************************)
(* Whatever is asked for at the same time, the session's fields, the       *)
(* channels with their capacities, the runner's place and the counters     *)
(* stay what they are: Send and SendManual never exceed a channel.         *)
(***************************************************************************)
THEOREM TypeCorrect == Capped => (Spec => []TypeOK)
  <1> SUFFICES ASSUME Capped PROVE Spec => []TypeOK
    OBVIOUS
  <1>1. Shape /\ StreamTold /\ Manual /\ Bounds => TypeOK
    <2> SUFFICES ASSUME Shape, StreamTold, Manual, Bounds PROVE TypeOK
      OBVIOUS
    <2>1. ses \in SessionFields
      BY DEF Shape, Session
    <2>2. text.piece \in 0..Pieces /\ text.number \in 0..accepted
      BY RunnerAssumption DEF Manual, ManualForm, ManualOrder, Texts, NoText
    <2> QED BY <2>1, <2>2 DEF SessionFields, Modes, StreamTold, StreamForm, Bounds, TypeOK
  <1>2. Init => Bounds
    BY BoundsFirst
  <1>3. Shape /\ Manual /\ Bounds /\ [Next]_vars => Bounds'
    BY BoundsKept
  <1> QED BY <1>1, <1>2, <1>3, ShapeKept, ToldFirst, ToldKept, ManualFirst, ManualKept,
             PTL DEF Spec

-----------------------------------------------------------------------------
(***************************************************************************)
(* The loop and the state.  The runner's place follows the state that      *)
(* administrators set, but not at once: in between, the agreement is due to*)
(* a command on its way or to a program that has yet to send it.           *)
(***************************************************************************)
\* No administrator pauses the session, and neither does its limit of events.
NoPause == "pause" \notin Requests \union OnMaxEvents

\* Where the runner is while it echoes.
EchoPlaces ==
  {"top", "look", "cycle", "call", "part", "wait", "write", "account", "pace_capped",
   "pace_spin", "pace_tick"}

\* A message may be delivered within the echo loop's manual phase, or in a
\* session that is only manual, whose loop never echoes.
ManualPlaces == {"manual"} \union (IF ManualOnly THEN {} ELSE Delivering)

\* Something is on its way that will make the loop look at the session again.
Coming ==
  \/ ses.done \/ cmdCh # <<>>
  \/ \E a \in Actors \ {"runner"} : BringsFrom(prog[a], 0)

\* Of a program that the loop is still to go on after.
Steady(p) ==
  \A i \in 1..Len(p) :
    /\ p[i].op # "close"
    /\ p[i].op = "set" /\ "state" \in DOMAIN p[i].fields =>
         p[i].fields.state = "ECHOING" /\ pc \in EchoPlaces

\* Nobody pauses, and every change an administrator still has to make has
\* behind it what brings it to the loop; the runner's own leave the loop alone.
Calm ==
  /\ \A a \in Actors : Meekly(prog[a]) /\ (a # "runner" => Followed(prog[a]))
  /\ \A i \in 1..Len(cmdCh) : cmdCh[i].type # "pause"
  /\ ses.state # "PAUSED" /\ pc # "paused" /\ (pc = "manual_only" => ManualOnly)
  /\ Bland(prog["runner"])
  /\ pc \in EchoPlaces \union ManualPlaces => Steady(prog["runner"])

\* If the runner's place and the state disagree, the loop will look again.
Informed ==
  /\ pc \in EchoPlaces /\ ses.state = "MANUAL" => Coming
  /\ pc \in ManualPlaces /\ ses.state # "MANUAL" => Coming

\* The step that an actor makes is the one that its program has next.
LEMMA StepOps ==
  ASSUME Programs, NEW a \in Actors, Step(a)
  PROVE  /\ prog[a] # <<>> /\ 1 \in 1..Len(prog[a]) /\ Len(prog[a]) >= 1
         /\ Next1(a) = prog[a][1] /\ Fine(prog[a][1])
         /\ prog[a][1].op = "set" <=> Assign(a)
         /\ prog[a][1].op = "close" <=> CloseOnce(a)
         /\ prog[a][1].op = "send" <=> SendCommand(a)
         /\ prog[a][1].op = "drop_oldest" <=> DropOldest(a)
         /\ prog[a][1].op = "resend" <=> Resend(a)
         /\ prog[a][1].op = "spawn" <=> Spawn(a)
         /\ prog[a][1].op = "delay" <=> Delay(a)
         /\ prog[a][1].op = "frame" <=> Emit(a)
         /\ prog[a][1].op \notin {"set", "close", "send", "drop_oldest", "resend", "spawn",
                                  "delay", "frame"} => Advance(a, 0)
  <1>1. /\ prog[a] # <<>> /\ Good(prog[a])
    BY DEF Step, Assign, CloseOnce, Snapshot, Store, DeleteRow, SendCommand, DropOldest, Resend,
           SendManual, Spawn, Delay, Emit, ShutWriter, CutSocket, Ready, Programs
  <1>2. 1 \in 1..Len(prog[a]) /\ Len(prog[a]) >= 1 /\ Next1(a) = prog[a][1]
    BY <1>1 DEF Good, Prog, Next1
  <1>3. Fine(prog[a][1])
    BY <1>1, <1>2 DEF Good
  <1>4. \A name : Ready(a, name) => prog[a][1].op = name
    BY <1>2 DEF Ready
  <1>5. /\ Assign(a) => prog[a][1].op = "set"
        /\ CloseOnce(a) => prog[a][1].op = "close"
        /\ SendCommand(a) => prog[a][1].op = "send"
        /\ DropOldest(a) => prog[a][1].op = "drop_oldest"
    BY <1>4 DEF Assign, CloseOnce, SendCommand, DropOldest
  <1>6. /\ Resend(a) => prog[a][1].op = "resend"
        /\ Spawn(a) => prog[a][1].op = "spawn"
        /\ Delay(a) => prog[a][1].op = "delay"
        /\ Emit(a) => prog[a][1].op = "frame"
    BY <1>4 DEF Resend, Spawn, Delay, Emit
  <1>7. /\ Snapshot(a) => prog[a][1].op = "snapshot" /\ Advance(a, 0)
        /\ Store(a) => prog[a][1].op = "store" /\ Advance(a, 0)
        /\ DeleteRow(a) => prog[a][1].op = "delete_row" /\ Advance(a, 0)
    BY <1>4 DEF Snapshot, Store, DeleteRow
  <1>8. /\ SendManual(a) => prog[a][1].op = "manual" /\ Advance(a, 0)
        /\ ShutWriter(a) => prog[a][1].op = "shut" /\ Advance(a, 0)
        /\ CutSocket(a) => prog[a][1].op = "cut" /\ Advance(a, 0)
    BY <1>4 DEF SendManual, ShutWriter, CutSocket
  <1>9. \/ Assign(a) \/ CloseOnce(a) \/ SendCommand(a) \/ DropOldest(a) \/ Resend(a)
        \/ Spawn(a) \/ Delay(a) \/ Emit(a)
        \/ Snapshot(a) \/ Store(a) \/ DeleteRow(a) \/ SendManual(a) \/ ShutWriter(a) \/ CutSocket(a)
    BY DEF Step
  <1>10. \/ prog[a][1].op = "set" /\ Assign(a)
         \/ prog[a][1].op = "close" /\ CloseOnce(a)
         \/ prog[a][1].op = "send" /\ SendCommand(a)
         \/ prog[a][1].op = "drop_oldest" /\ DropOldest(a)
         \/ prog[a][1].op = "resend" /\ Resend(a)
         \/ prog[a][1].op = "spawn" /\ Spawn(a)
         \/ prog[a][1].op = "delay" /\ Delay(a)
         \/ prog[a][1].op = "frame" /\ Emit(a)
         \/ /\ prog[a][1].op \in {"snapshot", "store", "delete_row", "manual", "shut", "cut"}
            /\ Advance(a, 0)
    BY ONLY <1>5, <1>6, <1>7, <1>8, <1>9
  <1> DEFINE op == prog[a][1].op
  <1>11. /\ op = "set" <=> Assign(a)
         /\ op = "close" <=> CloseOnce(a)
         /\ op = "send" <=> SendCommand(a)
         /\ op = "drop_oldest" <=> DropOldest(a)
    BY ONLY <1>5, <1>10
  <1>12. /\ op = "resend" <=> Resend(a)
         /\ op = "spawn" <=> Spawn(a)
         /\ op = "delay" <=> Delay(a)
         /\ op = "frame" <=> Emit(a)
         /\ op \notin {"set", "close", "send", "drop_oldest", "resend", "spawn", "delay", "frame"}
              => Advance(a, 0)
    BY ONLY <1>6, <1>10
  <1> QED BY <1>1, <1>2, <1>3, <1>11, <1>12

\* What a step leaves of the programs.
LEMMA StepParts ==
  ASSUME Programs, NEW a \in Actors, Step(a)
  PROVE  \/ /\ \E m \in Nat \ {0} :
                 /\ Dropped(prog[a], prog'[a], m)
                 /\ \/ m = 1 \/ ses.done \/ prog[a][1].op = "frame"
                    \/ prog[a][1].op = "close" /\ ses' = ses
            /\ \A b \in Actors \ {a} : prog'[b] = prog[b]
         \/ /\ prog[a][1].op = "send"
            /\ prog'[a] = <<Act("drop_oldest"), [op |-> "resend", cmd |-> prog[a][1].cmd]>>
                            \o Tail(prog[a])
            /\ \A b \in Actors \ {a} : prog'[b] = prog[b]
         \/ /\ prog[a][1].op = "spawn" /\ Dropped(prog[a], prog'[a], 1)
            /\ \E i \in Injectors :
                 /\ i # a /\ i # "runner" /\ i \in Actors /\ prog[i] = <<>>
                 /\ prog'[i] = <<Act("delay"), Send([type |-> "inject", how |-> prog[a][1].how])>>
                 /\ \A b \in Actors \ {a, i} : prog'[b] = prog[b]
  <1>1. /\ prog[a] # <<>> /\ Next1(a) = prog[a][1] /\ Fine(prog[a][1])
    BY StepOps
  <1>2. ASSUME NEW n \in Nat, Advance(a, n)
        PROVE  /\ Dropped(prog[a], prog'[a], n + 1) /\ n + 1 \in Nat \ {0}
               /\ \A b \in Actors \ {a} : prog'[b] = prog[b]
    BY <1>2, Advanced
  <1>3. ASSUME Advance(a, 0)
        PROVE  /\ \E m \in Nat \ {0} : Dropped(prog[a], prog'[a], m) /\ m = 1
               /\ \A b \in Actors \ {a} : prog'[b] = prog[b]
    <2>1. PICK n \in Nat : n = 0
      OBVIOUS
    <2>2. Advance(a, n)
      BY <1>3, <2>1
    <2> QED BY <1>2, <2>1, <2>2
  <1>4. CASE prog[a][1].op \notin {"close", "send", "spawn", "delay", "frame"}
    <2>1. Advance(a, 0)
      BY <1>4, StepOps DEF Assign, DropOldest, Resend
    <2> QED BY <1>3, <2>1
  <1>5. CASE prog[a][1].op = "close"
    <2>1. Advance(a, 0) \/ (Advance(a, 5) /\ ses' = ses)
      BY <1>5, StepOps DEF CloseOnce
    <2>2. PICK n \in Nat : n = 5
      OBVIOUS
    <2> QED BY <1>2, <1>3, <1>5, <2>1, <2>2
  <1>6. CASE prog[a][1].op = "delay"
    <2>1. Advance(a, 0) \/ (Advance(a, 1) /\ ses.done)
      BY <1>6, StepOps DEF Delay
    <2>2. PICK n \in Nat : n = 1
      OBVIOUS
    <2> QED BY <1>2, <1>3, <1>6, <2>1, <2>2
  <1>7. CASE prog[a][1].op = "frame"
    <2>1. Advance(a, 0) \/ Advance(a, prog[a][1].skip)
      BY <1>1, <1>7, StepOps DEF Emit
    <2>2. prog[a][1].skip \in Nat
      BY <1>1, <1>7 DEF Fine
    <2> QED BY <1>2, <1>3, <1>7, <2>1, <2>2
  <1>8. CASE prog[a][1].op = "send"
    <2>1. \/ Advance(a, 0)
          \/ prog' = [prog EXCEPT ![a] = <<Act("drop_oldest"),
                        [op |-> "resend", cmd |-> prog[a][1].cmd]>> \o Tail(@)]
      BY <1>1, <1>8, StepOps DEF SendCommand
    <2> DEFINE x == <<Act("drop_oldest"), [op |-> "resend", cmd |-> prog[a][1].cmd]>>
    <2>2. ASSUME prog' = [prog EXCEPT ![a] = x \o Tail(@)]
          PROVE  prog'[a] = x \o Tail(prog[a]) /\ \A b \in Actors \ {a} : prog'[b] = prog[b]
      <3> HIDE DEF x
      <3> QED BY <2>2 DEF Programs
    <2> QED BY <1>3, <1>8, <2>1, <2>2
  <1>9. CASE prog[a][1].op = "spawn"
    <2> DEFINE q == Tail(prog[a])
               r == <<Act("delay"), Send([type |-> "inject", how |-> prog[a][1].how])>>
    <2>1. PICK i \in Injectors : prog[i] = <<>> /\ prog' = [prog EXCEPT ![a] = q, ![i] = r]
      BY <1>1, <1>9, StepOps DEF Spawn
    <2>2. Dropped(prog[a], q, 1)
      BY <1>1, TailDropped DEF Programs, Good
    <2>3. i \in Actors /\ i # a /\ i # "runner"
      BY <1>1, <2>1, RunnerAssumption DEF Actors
    <2> HIDE DEF q, r
    <2>4. prog'[a] = q /\ prog'[i] = r /\ \A b \in Actors \ {a, i} : prog'[b] = prog[b]
      BY <2>1, <2>3 DEF Programs
    <2>5. /\ i # a /\ i # "runner" /\ i \in Actors /\ prog[i] = <<>> /\ prog'[i] = r
          /\ \A b \in Actors \ {a, i} : prog'[b] = prog[b]
      BY <2>1, <2>3, <2>4
    <2>6. Dropped(prog[a], prog'[a], 1)
      BY <2>2, <2>4
    <2> QED BY <1>9, <2>5, <2>6 DEF r
  <1> QED BY <1>4, <1>5, <1>6, <1>7, <1>8, <1>9

\* Of a program's step, what changes the session and the commands.
LEMMA StepChanges ==
  ASSUME NEW a \in Actors, Step(a)
  PROVE  /\ ses' = ses \/ Assign(a) \/ CloseOnce(a)
         /\ cmdCh' = cmdCh \/ SendCommand(a) \/ DropOldest(a) \/ Resend(a)
         /\ pc' = pc
  <1> USE DEF sessionVars
  <1>1. CASE Assign(a) \/ CloseOnce(a) \/ Snapshot(a) \/ Store(a) \/ DeleteRow(a)
    BY <1>1 DEF Assign, CloseOnce, Snapshot, Store, DeleteRow
  <1>2. CASE SendCommand(a) \/ DropOldest(a) \/ Resend(a) \/ SendManual(a)
    BY <1>2 DEF SendCommand, DropOldest, Resend, SendManual
  <1>3. CASE Spawn(a) \/ Delay(a) \/ Emit(a) \/ ShutWriter(a) \/ CutSocket(a)
    BY <1>3 DEF Spawn, Delay, Emit, ShutWriter, CutSocket
  <1> QED BY <1>1, <1>2, <1>3 DEF Step

\* Closed stays closed, and nothing pauses the session.
LEMMA SessionCalm ==
  ASSUME Shape, Calm, [Next]_vars
  PROVE  (ses.done => ses'.done) /\ ses'.state # "PAUSED"
  <1>1. ses \in SessionFields /\ ses.state # "PAUSED"
    BY DEF Shape, Session, Calm
  <1>2. ASSUME NEW a \in Actors, prog[a] # <<>>, prog[a][1].op = "set",
               ses' = With(ses, prog[a][1].fields)
        PROVE  (ses.done => ses'.done) /\ ses'.state # "PAUSED"
    <2> DEFINE f == prog[a][1].fields
    <2>1. 1 \in 1..Len(prog[a])
      BY <1>2 DEF Shape, Programs, Good
    <2>2. /\ "state" \in DOMAIN f => f.state # "PAUSED"
          /\ "done" \in DOMAIN f => f.done = TRUE
      BY <1>2, <2>1 DEF Calm, Meekly, Meek
    <2> HIDE DEF f
    <2>3. /\ ses'.state = IF "state" \in DOMAIN f THEN f.state ELSE ses.state
          /\ ses'.done = IF "done" \in DOMAIN f THEN f.done ELSE ses.done
      BY <1>1, <1>2 DEF With, SessionFields, f
    <2> QED BY <1>1, <2>2, <2>3
  <1>3. ASSUME NEW f \in [state : Ended, reason : Reasons, ended : {TRUE}],
               ses' = [With(ses, f) EXCEPT !.once = "running"]
        PROVE  (ses.done => ses'.done) /\ ses'.state # "PAUSED"
    <2>1. With(ses, f).done = ses.done
      BY <1>1 DEF With, SessionFields
    <2>2. ses'.state \in Ended
      BY <1>1, <1>3, Closed
    <2>3. ses'.done = With(ses, f).done
      BY <1>1, <1>3 DEF With, SessionFields
    <2> QED BY <2>1, <2>2, <2>3 DEF Ended
  <1> QED BY <1>1, <1>2, <1>3, SessionSteps

\* What is left of the programs is of the same kind.
LEMMA ProgramsCalm ==
  ASSUME NoPause, Programs, Calm, NEW a \in Actors, Step(a)
  PROVE  /\ \A b \in Actors : Meekly(prog'[b]) /\ (b # "runner" => Followed(prog'[b]))
         /\ Bland(prog'["runner"])
         /\ Steady(prog["runner"]) => Steady(prog'["runner"])
  <1> DEFINE p == prog[a]
             q == prog'[a]
  <1>1. /\ p # <<>> /\ 1 \in 1..Len(p) /\ Fine(p[1]) /\ Good(p) /\ Prog(p)
        /\ Meekly(p) /\ (a # "runner" => Followed(p))
    BY StepOps DEF Programs, Good, Calm
  <1>2. a = "runner" => Bland(p) /\ Own(p[1])
    BY <1>1 DEF Calm, Bland
  <1>3. \A b \in Actors : Meekly(prog[b]) /\ (b # "runner" => Followed(prog[b]))
    BY DEF Calm
  <1>4. Bland(prog["runner"]) /\ "runner" \in Actors
    BY DEF Calm, Actors
  <1>5. ASSUME NEW m \in Nat, Dropped(p, q, m)
        PROVE  /\ Meekly(q) /\ (a # "runner" => Followed(q))
               /\ Bland(p) => Bland(q)
               /\ Steady(p) => Steady(q)
    <2>1. Meekly(q) /\ (a # "runner" => Followed(q))
      BY <1>1, <1>5, DroppedBrings
    <2>2. Prog(q) /\ \A i \in 1..Len(q) : i + m \in 1..Len(p) /\ q[i] = p[i + m]
      BY <1>1, <1>5 DEF Dropped
    <2>3. ASSUME Bland(p) PROVE Bland(q)
      BY <2>2, <2>3 DEF Bland
    <2>4. ASSUME Steady(p) PROVE Steady(q)
      BY <2>2, <2>4 DEF Steady
    <2> QED BY <2>1, <2>3, <2>4
  <1>6. CASE /\ \E m \in Nat \ {0} : Dropped(p, q, m)
             /\ \A b \in Actors \ {a} : prog'[b] = prog[b]
    BY <1>2, <1>3, <1>4, <1>5, <1>6
  <1>7. CASE /\ p[1].op = "send"
             /\ q = <<Act("drop_oldest"), [op |-> "resend", cmd |-> p[1].cmd]>> \o Tail(p)
             /\ \A b \in Actors \ {a} : prog'[b] = prog[b]
    <2>1. a # "runner"
      BY <1>2, <1>7 DEF Own
    <2>2. Prog(Tail(p)) /\ Meekly(Tail(p)) /\ Followed(Tail(p))
      <3>1. Dropped(p, Tail(p), 1)
        BY <1>1, TailDropped
      <3> QED BY <1>1, <2>1, <3>1, DroppedBrings DEF Dropped
    <2> DEFINE x == Act("drop_oldest")
               y == [op |-> "resend", cmd |-> p[1].cmd]
    <2>3. Meek(p[1])
      BY <1>1 DEF Meekly
    <2>4. Meek(x) /\ x.op # "close"
      BY DEF Meek, Act
    <2>5. Meek(y) /\ y.op # "close" /\ Brings(y) /\ ~Owing(y)
      BY <1>7, <2>3 DEF Meek, Brings, Owing
    <2> HIDE DEF x, y
    <2>6. Followed(<<x, y>>) /\ Meekly(<<x, y>>) /\ Prog(<<x, y>>)
      BY <2>4, <2>5, FewBring, Tuples
    <2>7. Followed(<<x, y>> \o Tail(p)) /\ Meekly(<<x, y>> \o Tail(p))
      BY <2>2, <2>6, JoinedBrings
    <2>8. Followed(q) /\ Meekly(q)
      BY <1>7, <2>7 DEF x, y
    <2> HIDE DEF p, q
    <2>9. prog'["runner"] = prog["runner"]
      BY <1>4, <1>7, <2>1
    <2> QED BY <1>3, <1>4, <1>7, <2>1, <2>8, <2>9 DEF q
  <1>8. CASE /\ p[1].op = "spawn" /\ Dropped(p, q, 1)
             /\ \E i \in Injectors :
                  /\ i # a /\ i # "runner" /\ i \in Actors /\ prog[i] = <<>>
                  /\ prog'[i] = <<Act("delay"), Send([type |-> "inject", how |-> p[1].how])>>
                  /\ \A b \in Actors \ {a, i} : prog'[b] = prog[b]
    <2>1. a # "runner"
      BY <1>2, <1>8 DEF Own
    <2>2. PICK i \in Injectors :
            /\ i # a /\ i # "runner" /\ i \in Actors
            /\ prog'[i] = <<Act("delay"), Send([type |-> "inject", how |-> p[1].how])>>
            /\ \A b \in Actors \ {a, i} : prog'[b] = prog[b]
      BY <1>8
    <2>3. p[1].how \in FaultModes
      BY <1>1, <1>8 DEF Fine
    <2>4. Followed(prog'[i]) /\ Meekly(prog'[i])
      BY <2>2, <2>3, RequestsFollowed DEF NoPause
    <2>5. Followed(q) /\ Meekly(q)
      BY <1>5, <1>8, <2>1
    <2>6. prog'["runner"] = prog["runner"]
      BY <1>4, <2>1, <2>2
    <2> HIDE DEF p, q
    <2>7. ASSUME NEW b \in Actors PROVE Meekly(prog'[b]) /\ (b # "runner" => Followed(prog'[b]))
      BY <1>3, <2>2, <2>4, <2>5 DEF q
    <2> QED BY <1>4, <2>6, <2>7
  <1> HIDE DEF p, q
  <1>9. \/ /\ \E m \in Nat \ {0} : Dropped(p, q, m)
           /\ \A b \in Actors \ {a} : prog'[b] = prog[b]
        \/ /\ p[1].op = "send"
           /\ q = <<Act("drop_oldest"), [op |-> "resend", cmd |-> p[1].cmd]>> \o Tail(p)
           /\ \A b \in Actors \ {a} : prog'[b] = prog[b]
        \/ /\ p[1].op = "spawn" /\ Dropped(p, q, 1)
           /\ \E i \in Injectors :
                /\ i # a /\ i # "runner" /\ i \in Actors /\ prog[i] = <<>>
                /\ prog'[i] = <<Act("delay"), Send([type |-> "inject", how |-> p[1].how])>>
                /\ \A b \in Actors \ {a, i} : prog'[b] = prog[b]
    BY StepParts DEF p, q
  <1> QED BY <1>6, <1>7, <1>8, <1>9

\* A step that owes the loop something leaves somebody who brings it.
LEMMA OwedComes ==
  ASSUME Programs, Calm, NEW a \in Actors, a # "runner", Step(a), Owing(prog[a][1]),
         prog[a][1].op = "close" => ses' # ses
  PROVE  BringsFrom(prog'[a], 0)
  <1>1. /\ prog[a] # <<>> /\ 1 \in 1..Len(prog[a]) /\ Prog(prog[a]) /\ Followed(prog[a])
    BY StepOps DEF Programs, Good, Calm
  <1>2. BringsFrom(prog[a], 1)
    BY <1>1 DEF Followed
  <1>3. Dropped(prog[a], prog'[a], 1)
    <2>1. Advance(a, 0)
      BY StepOps DEF Owing, Assign, DropOldest, CloseOnce
    <2>2. PICK n \in Nat : n = 0
      OBVIOUS
    <2>3. Advance(a, n) /\ n + 1 = 1
      BY <2>1, <2>2
    <2> QED BY <2>3, Advanced
  <1>4. PICK i \in Nat : i = 0
    OBVIOUS
  <1>5. BringsFrom(prog[a], 1 + i)
    BY <1>2, <1>4
  <1> QED BY <1>1, <1>3, <1>4, <1>5, DroppedBrings

\* What is on its way stays so, or has come.
LEMMA ComingStays ==
  ASSUME NoPause, Shape, Calm, NEW a \in Actors, Step(a), Coming
  PROVE  Coming'
  <1>0. Programs /\ [Next]_vars
    BY DEF Shape, Next
  <1>1. /\ prog[a] # <<>> /\ 1 \in 1..Len(prog[a]) /\ Prog(prog[a]) /\ Meek(prog[a][1])
        /\ Next1(a) = prog[a][1] /\ Fine(prog[a][1])
        /\ a = "runner" => Own(prog[a][1])
    BY <1>0, StepOps DEF Programs, Good, Calm, Meekly, Bland
  <1>2. CASE ses.done
    BY <1>0, <1>2, SessionCalm DEF Coming
  <1>3. cmdCh \in Seq(Commands)
    BY <1>0 DEF Programs
  <1>4. CASE cmdCh # <<>>
    <2>1. CASE cmdCh' = cmdCh
      BY <1>4, <2>1 DEF Coming
    <2>2. CASE SendCommand(a)
      BY <1>3, <1>4, <2>2 DEF SendCommand, Coming
    <2>3. CASE Resend(a)
      BY <1>3, <1>4, <2>3 DEF Resend, Coming
    <2>4. CASE DropOldest(a)
      <3>1. prog[a][1].op = "drop_oldest" /\ a # "runner"
        BY <1>0, <1>1, <2>4, StepOps DEF Own
      <3>2. BringsFrom(prog'[a], 0)
        BY <1>0, <3>1, OwedComes DEF Owing
      <3> QED BY <3>1, <3>2 DEF Coming
    <2> QED BY <2>1, <2>2, <2>3, <2>4, StepChanges
  <1>5. ASSUME NEW b \in Actors \ {"runner"}, BringsFrom(prog[b], 0), ~ses.done
        PROVE  Coming'
    <2>1. Prog(prog[b]) /\ prog[b] # <<>>
      BY <1>0, <1>5, NextBrings DEF Programs, Good
    <2>2. CASE prog'[b] = prog[b]
      BY <1>5, <2>2 DEF Coming
    <2>3. CASE b # a
      <3>1. prog'[b] = prog[b]
        BY <1>0, <2>1, <2>3, StepParts
      <3> QED BY <2>2, <3>1
    <2>4. CASE b = a /\ ~Brings(prog[a][1])
      <3>1. prog[a][1].op # "close" /\ BringsFrom(prog[a], 1)
        BY <1>1, <1>5, <2>4, NextBrings
      <3>2. prog[a][1].op # "frame"
        BY <1>0, <1>1, <1>5, <2>4, OnlyRunnerWrites DEF Writing
      <3>3. Dropped(prog[a], prog'[a], 1)
        BY <1>0, <1>5, <2>4, <3>1, <3>2, StepParts DEF Brings
      <3>4. PICK i \in Nat : i = 0
        OBVIOUS
      <3>5. BringsFrom(prog[a], 1 + i)
        BY <3>1, <3>4
      <3>6. BringsFrom(prog'[a], 0)
        BY <1>1, <3>3, <3>4, <3>5, DroppedBrings
      <3> QED BY <1>5, <2>4, <3>6 DEF Coming
    <2>5. CASE b = a /\ prog[a][1].op = "send"
      <3>1. SendCommand(a)
        BY <1>0, <2>5, StepOps
      <3>2. CASE cmdCh' = Append(cmdCh, Next1(a).cmd)
        BY <1>3, <3>2 DEF Coming
      <3>3. CASE prog' = [prog EXCEPT ![a] = <<Act("drop_oldest"),
                           [op |-> "resend", cmd |-> Next1(a).cmd]>> \o Tail(@)]
        <4> DEFINE x == Act("drop_oldest")
                   y == [op |-> "resend", cmd |-> Next1(a).cmd]
        <4>1. x.op # "close" /\ Brings(y)
          BY DEF Act, Brings
        <4>2. prog' = [prog EXCEPT ![a] = <<x, y>> \o Tail(@)]
          BY <3>3
        <4> HIDE DEF x, y
        <4>3. prog'[a] = <<x, y>> \o Tail(prog[a])
          BY <1>0, <4>2 DEF Programs
        <4>4. Prog(<<x, y>>) /\ Prog(Tail(prog[a]))
          BY <1>1, Tuples, TailDropped DEF Dropped
        <4>5. BringsFrom(<<x, y>>, 0)
          <5>1. 2 \in (0 + 1)..Len(<<x, y>>) /\ <<x, y>>[2] = y /\ <<x, y>>[1] = x
            OBVIOUS
          <5>2. \A k \in (0 + 1)..(2 - 1) : k = 1
            OBVIOUS
          <5> QED BY <4>1, <5>1, <5>2 DEF BringsFrom
        <4>6. BringsFrom(prog'[a], 0)
          BY <4>3, <4>4, <4>5, JoinedBrings
        <4> QED BY <1>5, <2>5, <4>6 DEF Coming
      <3> QED BY <1>5, <3>1, <3>2, <3>3 DEF SendCommand
    <2>6. CASE b = a /\ prog[a][1].op = "resend"
      <3>1. cmdCh' = IF Len(cmdCh) < CmdCap THEN Append(cmdCh, Next1(a).cmd) ELSE cmdCh
        BY <1>0, <2>6, StepOps DEF Resend
      <3>2. cmdCh' # <<>>
        BY <1>3, <3>1, RunnerAssumption
      <3> QED BY <3>2 DEF Coming
    <2>7. CASE b = a /\ prog[a][1].op = "spawn"
      <3>1. PICK i \in Injectors :
              /\ i # "runner" /\ i \in Actors
              /\ prog'[i] = <<Act("delay"), Send([type |-> "inject", how |-> prog[a][1].how])>>
        <4>1. Spawn(a)
          BY <1>0, <2>7, StepOps
        <4>2. PICK i \in Injectors :
                prog[i] = <<>> /\ prog' = [prog EXCEPT ![a] = Tail(@),
                  ![i] = <<Act("delay"), Send([type |-> "inject", how |-> Next1(a).how])>>]
          BY <4>1 DEF Spawn
        <4>3. i \in Actors /\ i # "runner"
          BY RunnerAssumption DEF Actors
        <4> QED BY <1>0, <1>1, <4>2, <4>3 DEF Programs
      <3>2. prog[a][1].how \in FaultModes
        BY <1>1, <2>7 DEF Fine
      <3>3. BringsFrom(prog'[i], 0)
        BY <3>1, <3>2, RequestsFollowed DEF NoPause
      <3> QED BY <3>1, <3>3 DEF Coming
    <2>8. CASE b = a /\ prog[a][1].op = "set" /\ "done" \in DOMAIN prog[a][1].fields
      <3>1. ses' = With(ses, prog[a][1].fields)
        BY <1>0, <1>1, <2>8, StepOps DEF Assign
      <3>2. prog[a][1].fields.done = TRUE
        BY <1>1, <2>8 DEF Meek
      <3>3. ses'.done
        BY <2>8, <3>1, <3>2 DEF Shape, Session, SessionFields, With
      <3> QED BY <3>3 DEF Coming
    <2> QED BY <2>3, <2>4, <2>5, <2>6, <2>7, <2>8 DEF Brings
  <1> QED BY <1>2, <1>4, <1>5 DEF Coming

\* Where it is in one of its two loops.
LoopPlaces == EchoPlaces \union {"manual"} \union Delivering

\* A program that the runner begins there.
BeginsAt(p, place) ==
  Bland(p) /\ (place \in LoopPlaces => \A i \in 1..Len(p) : p[i].op = "frame")

\* What the loop begins sends nothing, and neither closes the session nor
\* changes its state unless it is left for the exit or looks at it next.
LEMMA LoopBland ==
  ASSUME NoPause, Shape, Calm, Loop
  PROVE  prog["runner"] = <<>> /\ (UNCHANGED prog \/ \E p : Run(p, pc') /\ BeginsAt(p, pc'))
  <1>1. ASSUME NEW p, Bland(p), Run(p, "exit") PROVE \E q : Run(q, pc') /\ BeginsAt(q, pc')
    <2>1. pc' = "exit" /\ "exit" \notin LoopPlaces
      BY <1>1 DEF Run, LoopPlaces, EchoPlaces, Delivering
    <2> QED BY <1>1, <2>1 DEF BeginsAt
  <1>2. ASSUME NEW kind, NEW place, Run(<<Frame(kind, 0)>>, place)
        PROVE  \E q : Run(q, pc') /\ BeginsAt(q, pc')
    <2> DEFINE p == <<Frame(kind, 0)>>
    <2>1. pc' = place /\ Run(p, place)
      BY <1>2 DEF Run
    <2>2. Bland(p) /\ \A i \in 1..Len(p) : p[i].op = "frame"
      <3>1. Frame(kind, 0).op = "frame" /\ \A i \in 1..Len(p) : p[i] = Frame(kind, 0)
        BY DEF Frame
      <3> QED BY <3>1, BlandPrograms
    <2> HIDE DEF p
    <2> QED BY <2>1, <2>2 DEF BeginsAt
  <1>3. ASSUME NEW state, NEW reason, NEW p, Bland(p), Run(p \o Close(state, reason), "exit")
        PROVE  \E q : Run(q, pc') /\ BeginsAt(q, pc')
    <2>1. Bland(p \o Close(state, reason))
      BY <1>3, BlandPrograms, BlandJoined
    <2> QED BY <1>1, <1>3, <2>1
  <1>4. ASSUME Quit("client_disconnected") PROVE \E q : Run(q, pc') /\ BeginsAt(q, pc')
    <2>1. Bland(Close("CLIENT_DISCONNECTED", "client_disconnected"))
      BY BlandPrograms
    <2> QED BY <1>1, <1>4, <2>1 DEF Quit
  <1>5. CASE TakeCommand
    <2>1. PICK place \in DOMAIN AfterCommand :
            /\ At(place) /\ cmdCh # <<>>
            /\ Run(HandleCommand(Head(cmdCh)),
                   IF Terminal(Head(cmdCh)) THEN "exit" ELSE AfterCommand[place])
      BY <1>5 DEF TakeCommand
    <2> DEFINE cmd == Head(cmdCh)
               p == HandleCommand(cmd)
    <2>2. cmd \in Commands /\ cmd.type # "pause"
      BY <2>1, HeadTailProperties DEF Shape, Programs, Calm
    <2>3. Bland(p)
      BY <2>2, BlandCommands
    <2>4. Run(p, pc') /\ pc' = IF Terminal(cmd) THEN "exit" ELSE AfterCommand[place]
      BY <2>1 DEF Run
    <2> HIDE DEF p, cmd
    <2>5. AfterCommand[place] \notin LoopPlaces /\ "exit" \notin LoopPlaces
      <3>1. pc # "paused"
        BY DEF Calm
      <3> QED BY <2>1, <3>1 DEF AfterCommand, LoopPlaces, EchoPlaces, Delivering, At
    <2> QED BY <2>1, <2>3, <2>4, <2>5 DEF BeginsAt, At
  <1>6. CASE Move \/ SkipEmptyUnit \/ WriteEcho \/ SeeDone \/ TakeText \/ Unregister
    BY <1>6 DEF Move, SkipEmptyUnit, WriteEcho, SeeDone, TakeText, Unregister, At, Goto
  <1>7. CASE BucketWait \/ WriteEchoFails \/ AgentGap \/ SeeClientGone
    BY <1>4, <1>7 DEF BucketWait, WriteEchoFails, AgentGap, SeeClientGone, At, Goto
  <1>8. CASE Account
    <2>1. prog["runner"] = <<>>
      BY <1>8 DEF Account, At
    <2>2. CASE Run(FinishStream \o Close("ENDED", "max_tokens_reached"), "exit")
      BY <1>3, <2>1, <2>2, BlandPrograms
    <2>3. CASE FaultDue /\ Run(Fail(ses.fault) \o Close("ENDED", "fault_injected"), "exit")
      <3>1. Bland(Fail(ses.fault))
        BY <2>3, BlandPrograms, RunnerAssumption DEF FaultDue
      <3> QED BY <1>3, <2>1, <2>3, <3>1
    <2>4. CASE Run(Disconnect \o Close("ENDED", "resource_limit_exceeded"), "exit")
      BY <1>3, <2>1, <2>4, BlandPrograms
    <2>5. CASE Run(Fail("sse_error") \o Close("ENDED", "resource_limit_exceeded"), "exit")
      BY <1>3, <2>1, <2>5, BlandPrograms
    <2>6. CASE Goto("pace_tick") \/ Goto("top") \/ Goto("pace_capped") \/ Goto("pace_spin")
      BY <2>1, <2>6 DEF Goto
    <2> QED BY <1>8, <2>2, <2>3, <2>4, <2>5, <2>6 DEF Account, NoPause
  <1>9. CASE EmitToolCall
    BY <1>2, <1>9 DEF EmitToolCall, At, Goto
  <1>10. CASE AgentPart
    <2>1. prog["runner"] = <<>>
      BY <1>10 DEF AgentPart, At
    <2>2. CASE \E r : Run(FinishStream \o Close("ENDED", r), "exit")
      BY <1>3, <2>1, <2>2, BlandPrograms
    <2>3. CASE Goto("part") \/ Goto("exit") \/ Goto("wait") \/ Quit("client_disconnected")
      BY <1>4, <2>1, <2>3 DEF Goto
    <2> QED BY <1>10, <2>2, <2>3 DEF AgentPart
  <1>11. ASSUME Delivered PROVE \E q : Run(q, pc') /\ BeginsAt(q, pc')
    BY <1>2, <1>11 DEF Delivered
  <1>12. CASE NextPiece \/ PieceWait \/ WritePiece
    BY <1>11, <1>12 DEF NextPiece, PieceWait, WritePiece, PieceDone, At, Goto
  <1>13. CASE CloseAndPersist
    <2>1. prog["runner"] = <<>> /\ pc' = "stopped"
      BY <1>13 DEF CloseAndPersist, At, Run
    <2>2. Bland(<<>> \o Persist) /\ Bland(Close("ENDED", ses.reason) \o Persist)
      BY BlandPrograms, BlandJoined
    <2>3. \E p : Bland(p) /\ Run(p, "stopped")
      BY <1>13, <2>2 DEF CloseAndPersist
    <2>4. "stopped" \notin LoopPlaces
      BY DEF LoopPlaces, EchoPlaces, Delivering
    <2> QED BY <2>1, <2>3, <2>4 DEF BeginsAt
  <1> QED BY <1>5, <1>6, <1>7, <1>8, <1>9, <1>10, <1>12, <1>13 DEF Loop

\* The loop enters a phase when it has looked at the state, from a message
\* it goes back to the phase it was in, and it leaves for a look with every
\* command.
LEMMA LoopTurns ==
  ASSUME NoPause, Shape, Calm, Loop
  PROVE  /\ ses' = ses
         /\ cmdCh' = cmdCh \/ (cmdCh # <<>> /\ cmdCh' = Tail(cmdCh) /\ pc' \notin LoopPlaces)
         /\ pc' \in EchoPlaces => pc \in EchoPlaces \/ ses.state # "MANUAL"
         /\ pc' \in ManualPlaces => pc \in ManualPlaces \/ ses.state = "MANUAL"
         /\ pc' # "paused"
         /\ pc' = "manual_only" => ManualOnly
  <1> USE DEF sessionVars
  <1> DEFINE Turned ==
         /\ pc' \in EchoPlaces => pc \in EchoPlaces \/ ses.state # "MANUAL"
         /\ pc' \in ManualPlaces => pc \in ManualPlaces \/ ses.state = "MANUAL"
         /\ pc' # "paused"
         /\ pc' = "manual_only" => ManualOnly
  <1>1. pc # "paused" /\ ses.state # "PAUSED" /\ (pc = "manual_only" => ManualOnly)
    BY DEF Calm
  <1>2. \A p : p \in ManualPlaces <=> p = "manual" \/ (p \in Delivering /\ ~ManualOnly)
    BY DEF ManualPlaces, Delivering
  <1>3. ASSUME pc' \in {"exit", "deferred", "stopped", "check", "manual_check", "hang"} PROVE Turned
    BY <1>2, <1>3 DEF EchoPlaces, Delivering
  <1>4. ASSUME pc \in EchoPlaces, pc' \in EchoPlaces PROVE Turned
    BY <1>2, <1>4 DEF EchoPlaces, Delivering
  <1>5. ASSUME Quit("client_disconnected") PROVE pc' = "exit"
    BY <1>5 DEF Quit, Run
  <1>6. CASE TakeCommand
    <2>1. PICK place \in DOMAIN AfterCommand :
            /\ At(place) /\ cmdCh # <<>>
            /\ Run(HandleCommand(Head(cmdCh)),
                   IF Terminal(Head(cmdCh)) THEN "exit" ELSE AfterCommand[place])
      BY <1>6 DEF TakeCommand
    <2>2. /\ pc' \in {"exit", "check", "manual_check", "manual_only"}
          /\ pc' = "manual_only" => pc = "manual_only"
      BY <1>1, <2>1 DEF AfterCommand, At, Run
    <2>3. pc' \notin LoopPlaces
      BY <2>2 DEF LoopPlaces, EchoPlaces, Delivering
    <2>4. Turned
      BY <1>1, <1>2, <2>2 DEF EchoPlaces, Delivering
    <2> QED BY <1>6, <2>1, <2>3, <2>4 DEF TakeCommand
  <1>7. CASE Move
    <2>1. CASE pc \in {"check", "manual_check"}
      <3>1. pc' = IF ses.state = "MANUAL" THEN "manual" ELSE "top"
        BY <1>7, <2>1 DEF Move, At, Goto
      <3>2. Turned
        BY <1>2, <3>1 DEF EchoPlaces, Delivering
      <3> QED BY <1>7, <3>2 DEF Move
    <2>2. CASE pc \notin {"check", "manual_check"}
      <3>1. pc \in EchoPlaces /\ pc' \in EchoPlaces
        BY <1>1, <1>7, <2>2 DEF Move, At, Goto, EchoPlaces
      <3> QED BY <1>4, <1>7, <3>1 DEF Move
    <2> QED BY <2>1, <2>2
  <1>8. CASE SkipEmptyUnit \/ BucketWait \/ WriteEcho \/ WriteEchoFails
    <2>1. (pc \in EchoPlaces /\ pc' \in EchoPlaces) \/ pc' = "exit"
      BY <1>5, <1>8 DEF SkipEmptyUnit, BucketWait, WriteEcho, WriteEchoFails, At, Goto, EchoPlaces
    <2>2. ses' = ses /\ cmdCh' = cmdCh
      BY <1>8 DEF SkipEmptyUnit, BucketWait, WriteEcho, WriteEchoFails
    <2> QED BY <1>3, <1>4, <2>1, <2>2
  <1>9. CASE Account
    <2>1. pc = "account" /\ pc' \in {"exit", "top", "pace_tick", "pace_capped", "pace_spin"}
      BY <1>9 DEF Account, At, Run, Goto
    <2>2. (pc \in EchoPlaces /\ pc' \in EchoPlaces) \/ pc' = "exit"
      BY <2>1 DEF EchoPlaces
    <2>3. ses' = ses /\ cmdCh' = cmdCh
      BY <1>9 DEF Account
    <2> QED BY <1>3, <1>4, <2>2, <2>3
  <1>10. CASE AgentGap \/ EmitToolCall \/ AgentPart
    <2>1. pc \in {"cycle", "call", "part"} /\ pc' \in {"exit", "call", "part", "wait"}
      BY <1>5, <1>10 DEF AgentGap, EmitToolCall, AgentPart, At, Run, Goto
    <2>2. (pc \in EchoPlaces /\ pc' \in EchoPlaces) \/ pc' = "exit"
      BY <2>1 DEF EchoPlaces
    <2>3. ses' = ses /\ cmdCh' = cmdCh
      BY <1>10 DEF AgentGap, EmitToolCall, AgentPart
    <2> QED BY <1>3, <1>4, <2>2, <2>3
  <1>11. CASE SeeClientGone \/ SeeDone \/ Unregister \/ CloseAndPersist
    <2>1. pc' \in {"exit", "deferred", "stopped"}
      BY <1>5, <1>11 DEF SeeClientGone, SeeDone, Unregister, CloseAndPersist, Run, Goto
    <2>2. ses' = ses /\ cmdCh' = cmdCh
      BY <1>11 DEF SeeClientGone, SeeDone, Unregister, CloseAndPersist
    <2> QED BY <1>3, <2>1, <2>2
  <1>12. CASE TakeText \/ NextPiece \/ PieceWait \/ WritePiece
    <2>1. \/ pc \in {"manual", "manual_only"} /\ pc' = "piece"
          \/ /\ pc \in Delivering
             /\ pc' \in Delivering \union {IF ManualOnly THEN "manual_only" ELSE "manual"}
      <3>1. ASSUME Delivered PROVE pc' = IF ManualOnly THEN "manual_only" ELSE "manual"
        BY <3>1 DEF Delivered, Run
      <3>2. ASSUME PieceDone PROVE pc' = "piece" \/ Delivered
        BY <3>2 DEF PieceDone, Goto
      <3>3. CASE TakeText
        BY <3>3 DEF TakeText, At, Goto
      <3>4. CASE NextPiece
        BY <3>1, <3>4 DEF NextPiece, At, Goto, Delivering
      <3>5. CASE PieceWait
        BY <3>1, <3>2, <3>5 DEF PieceWait, At, Goto, Delivering
      <3>6. CASE WritePiece
        BY <3>1, <3>2, <3>6 DEF WritePiece, At, Delivering
      <3> QED BY <1>12, <3>3, <3>4, <3>5, <3>6
    <2>2. ses' = ses /\ cmdCh' = cmdCh
      BY <1>12 DEF TakeText, NextPiece, PieceWait, WritePiece
    <2>3. pc' # "paused" /\ pc' \notin EchoPlaces /\ (pc' = "manual_only" => ManualOnly)
      BY <2>1 DEF EchoPlaces, Delivering
    <2>4. pc' \in ManualPlaces => pc \in ManualPlaces
      BY <1>1, <1>2, <2>1 DEF Delivering
    <2> QED BY <2>2, <2>3, <2>4
  <1> HIDE DEF Turned
  <1> QED BY <1>6, <1>7, <1>8, <1>9, <1>10, <1>11, <1>12 DEF Loop

\* What steps outside of programs and the loop do.
LEMMA AsksCalm ==
  ASSUME NoPause, Programs, Calm, NEW a \in Admins,
         \/ \E name \in Requests \ {"inject", "schedule"} : Ask(a, name)
         \/ \E how \in FaultModes : AskInject(a, how)
  PROVE  /\ a \in Actors /\ a # "runner" /\ prog[a] = <<>>
         /\ Followed(prog'[a]) /\ Meekly(prog'[a])
         /\ \A b \in Actors \ {a} : prog'[b] = prog[b]
         /\ UNCHANGED <<ses, cmdCh, pc>>
  <1>1. a \in Actors /\ a # "runner" /\ prog[a] = <<>>
    BY AskPrograms
  <1>2. \E p : Followed(p) /\ Meekly(p) /\ prog' = [prog EXCEPT ![a] = p]
    <2>1. CASE \E name \in Requests \ {"inject", "schedule"} : Ask(a, name)
      <3>1. PICK name \in Requests \ {"inject", "schedule"} : Ask(a, name)
        BY <2>1
      <3>2. \/ prog' = [prog EXCEPT ![a] = ControlRequest(name)]
            \/ prog' = [prog EXCEPT ![a] = <<Act("delete_row")>>]
        BY <3>1 DEF Ask
      <3> QED BY <3>2, RequestsFollowed DEF NoPause
    <2>2. CASE \E how \in FaultModes : AskInject(a, how)
      <3>1. PICK how \in FaultModes : AskInject(a, how)
        BY <2>2
      <3>2. \/ prog' = [prog EXCEPT ![a] = InjectFault(how)]
            \/ prog' = [prog EXCEPT ![a] = SetPendingFault(how)]
        BY <3>1 DEF AskInject
      <3> QED BY <3>2, RequestsFollowed DEF NoPause
    <2> QED BY <2>1, <2>2
  <1>3. UNCHANGED <<ses, cmdCh, pc>>
    BY DEF Ask, AskInject, sessionVars
  <1> QED BY <1>1, <1>2, <1>3 DEF Programs

\* No command that pauses is queued.
LEMMA CommandsCalm ==
  ASSUME Shape, Calm, [Next]_vars
  PROVE  \A i \in 1..Len(cmdCh') : cmdCh'[i].type # "pause"
  <1>1. Programs /\ cmdCh \in Seq(Commands)
    BY DEF Shape, Programs
  <1>2. \A i \in 1..Len(cmdCh) : cmdCh[i].type # "pause"
    BY DEF Calm
  <1>3. ASSUME cmdCh # <<>> PROVE \A i \in 1..Len(Tail(cmdCh)) : Tail(cmdCh)[i].type # "pause"
    BY <1>1, <1>2, <1>3
  <1>4. ASSUME NEW cmd \in Commands, cmd.type # "pause"
        PROVE  \A i \in 1..Len(Append(cmdCh, cmd)) : Append(cmdCh, cmd)[i].type # "pause"
    BY <1>1, <1>2, <1>4
  <1>5. ASSUME NEW a \in Actors, SendCommand(a) \/ Resend(a)
        PROVE  \/ cmdCh' = cmdCh
               \/ Next1(a).cmd \in Commands /\ Next1(a).cmd.type # "pause"
                    /\ cmdCh' = Append(cmdCh, Next1(a).cmd)
    <2>1. Ready(a, "send") \/ Ready(a, "resend")
      BY <1>5 DEF SendCommand, Resend
    <2>2. /\ Next1(a) = prog[a][1] /\ prog[a][1].op \in {"send", "resend"}
          /\ Fine(prog[a][1]) /\ 1 \in 1..Len(prog[a])
      BY <1>1, <2>1, AtStep DEF Programs, Good
    <2>3. Next1(a).cmd \in Commands /\ Next1(a).cmd.type # "pause"
      BY <2>2 DEF Fine, Calm, Meekly, Meek
    <2> QED BY <1>5, <2>3 DEF SendCommand, Resend
  <1> QED BY <1>2, <1>3, <1>4, <1>5, SessionChanges DEF TakeCommand, DropOldest

\* Every step keeps the programs calm.
LEMMA CalmKept ==
  ASSUME NoPause, Shape, Calm, [Next]_vars
  PROVE  Calm'
  <1>0. Programs /\ "runner" \in Actors
    BY DEF Shape, Actors
  <1>1. ses'.state # "PAUSED" /\ \A i \in 1..Len(cmdCh') : cmdCh'[i].type # "pause"
    BY SessionCalm, CommandsCalm
  <1>2. (ManualOnly' <=> ManualOnly) /\ ManualPlaces' = ManualPlaces
    BY BehaviorStays DEF ManualOnly, ManualPlaces
  <1> DEFINE Kept ==
         /\ \A a \in Actors : Meekly(prog'[a]) /\ (a # "runner" => Followed(prog'[a]))
         /\ Bland(prog'["runner"])
             Going ==
         /\ pc' # "paused" /\ (pc' = "manual_only" => ManualOnly)
         /\ pc' \in EchoPlaces \union ManualPlaces => Steady(prog["runner"])'
  <1>3. ASSUME pc' = pc, UNCHANGED prog \/ prog'["runner"] = prog["runner"] PROVE Going
    BY <1>3 DEF Calm, Steady
  <1>4. CASE \E a \in Actors : Step(a)
    <2>1. PICK a \in Actors : Step(a)
      BY <1>4
    <2>2. /\ Kept
          /\ Steady(prog["runner"]) => Steady(prog'["runner"])
      BY <1>0, <2>1, ProgramsCalm
    <2>3. pc' = pc
      BY <2>1, StepChanges
    <2>4. Going
      BY <2>2, <2>3 DEF Calm, Steady
    <2> QED BY <1>1, <1>2, <2>2, <2>4 DEF Calm
  <1>5. CASE \E a \in Admins : \/ \E name \in Requests \ {"inject", "schedule"} : Ask(a, name)
                               \/ \E how \in FaultModes : AskInject(a, how)
    <2>1. PICK a \in Admins : \/ \E name \in Requests \ {"inject", "schedule"} : Ask(a, name)
                              \/ \E how \in FaultModes : AskInject(a, how)
      BY <1>5
    <2>2. /\ a \in Actors /\ a # "runner" /\ Followed(prog'[a]) /\ Meekly(prog'[a])
          /\ \A b \in Actors \ {a} : prog'[b] = prog[b]
          /\ UNCHANGED <<ses, cmdCh, pc>>
      BY <1>0, <2>1, AsksCalm
    <2>3. prog'["runner"] = prog["runner"] /\ pc' = pc
      BY <1>0, <2>2
    <2>4. Kept
      BY <2>2, <2>3 DEF Calm
    <2> QED BY <1>1, <1>2, <1>3, <2>3, <2>4 DEF Calm
  <1>6. CASE Leave \/ KeepAlive \/ UNCHANGED vars
    <2>1. UNCHANGED <<prog, pc>>
      BY <1>6 DEF Leave, KeepAlive, vars
    <2>2. Kept
      BY <2>1 DEF Calm
    <2> QED BY <1>1, <1>2, <1>3, <2>1, <2>2 DEF Calm
  <1>7. CASE Loop
    <2>1. /\ prog["runner"] = <<>>
          /\ UNCHANGED prog \/ \E p : Run(p, pc') /\ BeginsAt(p, pc')
      BY <1>7, LoopBland
    <2>2. /\ pc' # "paused" /\ (pc' = "manual_only" => ManualOnly)
      BY <1>7, LoopTurns
    <2>3. EchoPlaces \union ManualPlaces \subseteq LoopPlaces
      BY DEF LoopPlaces, ManualPlaces
    <2>4. CASE UNCHANGED prog
      <3>1. Kept
        BY <2>4 DEF Calm
      <3>2. \A i \in 1..Len(prog'["runner"]) : FALSE
        BY <2>1, <2>4
      <3>3. Going
        BY <2>2, <3>2 DEF Steady
      <3> QED BY <1>1, <1>2, <3>1, <3>3 DEF Calm
    <2>5. CASE \E p : Run(p, pc') /\ BeginsAt(p, pc')
      <3>1. PICK p : Run(p, pc') /\ BeginsAt(p, pc')
        BY <2>5
      <3>2. prog'["runner"] = p /\ \A b \in Actors \ {"runner"} : prog'[b] = prog[b]
        BY <1>0, <3>1 DEF Run, Programs
      <3>3. Bland(p) /\ Meekly(p)
        BY <3>1 DEF BeginsAt, Bland, Meekly
      <3>4. Kept
        BY <3>2, <3>3 DEF Calm
      <3>5. ASSUME pc' \in EchoPlaces \union ManualPlaces PROVE Steady(prog["runner"])'
        BY <2>3, <3>1, <3>2, <3>5 DEF BeginsAt, Steady
      <3> QED BY <1>1, <1>2, <2>2, <3>4, <3>5 DEF Calm
    <2> QED BY <2>1, <2>4, <2>5
  <1> QED BY <1>4, <1>5, <1>6, <1>7 DEF Next

\* Whatever changes the state behind the back of the loop has something
\* coming for it.
LEMMA InformedKept ==
  ASSUME NoPause, Shape, Calm, Informed, [Next]_vars
  PROVE  Informed'
  <1>0. Programs /\ "runner" \in Actors
    BY DEF Shape, Actors
  <1>1. ManualPlaces' = ManualPlaces
    BY BehaviorStays DEF ManualOnly, ManualPlaces
  <1>2. ASSUME ses' = ses, cmdCh' = cmdCh, pc' = pc, Coming => Coming' PROVE Informed'
    BY <1>1, <1>2 DEF Informed
  <1>3. CASE \E a \in Actors : Step(a)
    <2>1. PICK a \in Actors : Step(a)
      BY <1>3
    <2>2. pc' = pc /\ (Coming => Coming')
      BY <2>1, ComingStays, StepChanges
    <2>3. CASE ses'.state = ses.state
      BY <1>1, <2>2, <2>3 DEF Informed
    <2>4. ASSUME ses'.state # ses.state
          PROVE  /\ prog[a] # <<>> /\ 1 \in 1..Len(prog[a])
                 /\ \/ prog[a][1].op = "close" /\ ses' # ses
                    \/ /\ prog[a][1].op = "set" /\ "state" \in DOMAIN prog[a][1].fields
                       /\ ses'.state = prog[a][1].fields.state
      <3>1. /\ prog[a] # <<>> /\ 1 \in 1..Len(prog[a]) /\ Next1(a) = prog[a][1]
            /\ prog[a][1].op = "set" <=> Assign(a)
            /\ prog[a][1].op = "close" <=> CloseOnce(a)
        BY <1>0, <2>1, StepOps
      <3>2. Assign(a) \/ CloseOnce(a)
        BY <2>1, <2>4, StepChanges
      <3>3. ASSUME Assign(a)
            PROVE  /\ "state" \in DOMAIN prog[a][1].fields
                   /\ ses'.state = prog[a][1].fields.state
        <4> DEFINE f == prog[a][1].fields
        <4>1. ses' = With(ses, f)
          BY <3>1, <3>3 DEF Assign
        <4> HIDE DEF f
        <4>2. ses'.state = IF "state" \in DOMAIN f THEN f.state ELSE ses.state
          BY <4>1 DEF With, Shape, Session, SessionFields
        <4> QED BY <2>4, <4>2 DEF f
      <3> QED BY <2>4, <3>1, <3>2, <3>3
    <2>5. CASE ses'.state # ses.state /\ a # "runner"
      <3>1. Owing(prog[a][1])
        BY <2>4, <2>5 DEF Owing
      <3>2. BringsFrom(prog'[a], 0)
        BY <1>0, <2>1, <2>4, <2>5, <3>1, OwedComes
      <3>3. Coming'
        BY <2>5, <3>2 DEF Coming
      <3> QED BY <3>3 DEF Informed
    <2>6. CASE ses'.state # ses.state /\ a = "runner" /\ pc \in EchoPlaces \union ManualPlaces
      <3>1. Steady(prog["runner"])
        BY <2>6 DEF Calm
      <3>2. ses'.state = "ECHOING" /\ pc \in EchoPlaces
        BY <2>4, <2>6, <3>1 DEF Steady
      <3>3. pc \notin ManualPlaces
        BY <3>2 DEF EchoPlaces, ManualPlaces, Delivering
      <3> QED BY <1>1, <2>2, <3>2, <3>3 DEF Informed
    <2>7. CASE pc \notin EchoPlaces \union ManualPlaces
      BY <1>1, <2>2, <2>7 DEF Informed
    <2> QED BY <2>3, <2>5, <2>6, <2>7
  <1>4. CASE \E a \in Admins : \/ \E name \in Requests \ {"inject", "schedule"} : Ask(a, name)
                               \/ \E how \in FaultModes : AskInject(a, how)
    <2>1. PICK a \in Admins : \/ \E name \in Requests \ {"inject", "schedule"} : Ask(a, name)
                              \/ \E how \in FaultModes : AskInject(a, how)
      BY <1>4
    <2>2. /\ prog[a] = <<>> /\ \A b \in Actors \ {a} : prog'[b] = prog[b]
          /\ UNCHANGED <<ses, cmdCh, pc>>
      BY <1>0, <2>1, AsksCalm
    <2>3. \A b \in Actors : BringsFrom(prog[b], 0) => b # a
      <3>1. \A b \in Actors : BringsFrom(prog[b], 0) => prog[b] # <<>>
        BY <1>0, NextBrings DEF Programs, Good
      <3> QED BY <2>2, <3>1
    <2>4. Coming => Coming'
      BY <2>2, <2>3 DEF Coming
    <2> QED BY <1>2, <2>2, <2>4
  <1>5. CASE Leave \/ KeepAlive \/ UNCHANGED vars
    <2>1. UNCHANGED <<ses, cmdCh, pc, prog>>
      BY <1>5 DEF Leave, KeepAlive, vars, sessionVars
    <2> QED BY <1>2, <2>1 DEF Coming
  <1>6. CASE Loop
    <2>1. /\ ses' = ses
          /\ cmdCh' = cmdCh \/ (cmdCh # <<>> /\ cmdCh' = Tail(cmdCh) /\ pc' \notin LoopPlaces)
          /\ pc' \in EchoPlaces => pc \in EchoPlaces \/ ses.state # "MANUAL"
          /\ pc' \in ManualPlaces => pc \in ManualPlaces \/ ses.state = "MANUAL"
      BY <1>6, LoopTurns
    <2>2. EchoPlaces \union ManualPlaces \subseteq LoopPlaces
      BY DEF LoopPlaces, ManualPlaces
    <2>3. \A b \in Actors \ {"runner"} : prog'[b] = prog[b]
      <3>1. UNCHANGED prog \/ \E p : Run(p, pc')
        BY <1>6, LoopBland
      <3> QED BY <1>0, <3>1 DEF Run, Programs
    <2>4. CASE cmdCh' = cmdCh
      <3>1. Coming => Coming'
        BY <2>1, <2>3, <2>4 DEF Coming
      <3> QED BY <1>1, <2>1, <3>1 DEF Informed
    <2>5. CASE pc' \notin LoopPlaces
      BY <1>1, <2>2, <2>5 DEF Informed
    <2> QED BY <2>1, <2>4, <2>5
  <1> QED BY <1>3, <1>4, <1>5, <1>6 DEF Next

\* It is so at the start.
LEMMA CalmFirst == Init => Calm /\ Informed
  <1> SUFFICES ASSUME Init PROVE Calm /\ Informed
    OBVIOUS
  <1>1. ses.behavior \in Behaviors /\ ses.state = "CONNECTED"
    <2>1. PICK b \in Behaviors, n \in TokenBudgets, api \in Apis, t \in Textless :
            ses = [state |-> "CONNECTED", mode |-> "ECHO", reason |-> "", ended |-> FALSE,
                   once |-> "new", done |-> FALSE, paused |-> FALSE, fault |-> "none",
                   interval |-> Interval, behavior |-> b, budget |-> n,
                   api |-> api, textless |-> t]
      BY DEF Init
    <2>2. ses.behavior = b /\ ses.state = "CONNECTED"
      BY <2>1
    <2> QED BY <2>2
  <1>2. /\ prog = [a \in Actors |-> IF a = "runner" THEN Start(ses.behavior) ELSE <<>>]
        /\ pc = FirstPlace(ses.behavior) /\ cmdCh = <<>>
    BY DEF Init
  <1>3. prog["runner"] = Start(ses.behavior) /\ \A a \in Actors \ {"runner"} : prog[a] = <<>>
    BY <1>2 DEF Actors
  <1>4. Bland(prog["runner"]) /\ Meekly(prog["runner"])
    BY <1>1, <1>3, BlandCommands DEF Bland, Meekly
  <1>5. Followed(<<>>) /\ Meekly(<<>>)
    <2>1. \A i \in 1..Len(<<>>) : FALSE
      OBVIOUS
    <2> QED BY <2>1 DEF Followed, Meekly
  <1>6. \A a \in Actors : Meekly(prog[a]) /\ (a # "runner" => Followed(prog[a]))
    BY <1>3, <1>4, <1>5
  <1>7. /\ pc \in {"manual_only", "hang", "call", "exit", "top"}
        /\ pc = "manual_only" => ManualOnly
        /\ pc \in {"call", "top"} =>
             ses.behavior \in {"infinite_echo", "infinite_echo_max", "agent", "subagent_shell"}
    BY <1>1, <1>2, RunnerAssumption DEF FirstPlace, ManualOnly
  <1>8. pc \notin ManualPlaces /\ pc # "paused"
    BY <1>7 DEF ManualPlaces, Delivering
  <1>9. \A i \in 1..Len(cmdCh) : cmdCh[i].type # "pause"
    BY <1>2
  <1>10. ASSUME pc \in EchoPlaces PROVE Steady(prog["runner"])
    <2>1. /\ pc \in {"call", "top"}
          /\ ses.behavior \in {"infinite_echo", "infinite_echo_max", "agent", "subagent_shell"}
      BY <1>7, <1>10 DEF EchoPlaces
    <2>2. Prog(StartEcho) /\ Len(StartEcho) = 2
            /\ StartEcho[1] = Set([mode |-> "ECHO"]) /\ StartEcho[2] = Set([state |-> "ECHOING"])
      BY Tuples DEF StartEcho
    <2> DEFINE Early(s) == /\ s.op # "close"
                           /\ s.op = "set" /\ "state" \in DOMAIN s.fields =>
                                s.fields.state = "ECHOING"
    <2>3. Early(Set([mode |-> "ECHO"])) /\ Early(Set([state |-> "ECHOING"]))
      BY DEF Set
    <2> HIDE DEF Early
    <2>4. \A i \in 1..Len(StartEcho) : Early(StartEcho[i])
      <3>1. \A i \in 1..2 : i = 1 \/ i = 2
        OBVIOUS
      <3> QED BY <2>2, <2>3, <3>1
    <2>5. CASE ses.behavior # "subagent_shell"
      <3>1. prog["runner"] = StartEcho
        BY <1>3, <2>1, <2>5 DEF Start
      <3> QED BY <1>10, <2>4, <3>1 DEF Steady, Early
    <2>6. CASE ses.behavior = "subagent_shell"
      <3>1. prog["runner"] = StartEcho \o StartEcho
        BY <1>3, <2>6 DEF Start
      <3> DEFINE r == StartEcho \o StartEcho
      <3>2. /\ Len(r) = Len(StartEcho) + Len(StartEcho)
            /\ \A i \in 1..Len(StartEcho) : r[i] = StartEcho[i]
            /\ \A i \in 1..Len(StartEcho) : r[Len(StartEcho) + i] = StartEcho[i]
        <4>1. Prog(StartEcho)
          BY <2>2
        <4>2. PICK s : s = StartEcho
          OBVIOUS
        <4>3. Prog(s)
          BY ONLY <4>1, <4>2
        <4>4. /\ Len(s \o s) = Len(s) + Len(s)
              /\ \A i \in 1..Len(s) : (s \o s)[i] = s[i]
              /\ \A i \in 1..Len(s) : (s \o s)[Len(s) + i] = s[i]
          BY ONLY <4>3, Joined
        <4> QED BY ONLY <4>2, <4>4
      <3> HIDE DEF r
      <3>3. \A i \in 1..Len(r) : Early(r[i])
        BY <2>4, <3>2, JoinedIndex
      <3> QED BY <1>10, <3>1, <3>3 DEF Steady, Early, r
    <2> QED BY <2>5, <2>6
  <1>11. Calm
    BY <1>1, <1>4, <1>6, <1>7, <1>8, <1>9, <1>10 DEF Calm
  <1> QED BY <1>1, <1>8, <1>11 DEF Informed

(***************************************************************************)
(* Take-overs, returns and every other request but a pause leave the loop  *)
(* and the state that administrators see in agreement, at each place of    *)
(* the echo loop, of an agent's cycle and of the manual phase, however the *)
(* changes and commands interleave, and even when commands give way in a   *)
(* full channel: each change has a command, or the end of the session,     *)
(* behind it that makes the loop look again.  A manual_only session, whose *)
(* loop does not look at the state, is left out as in PhaseAgrees.         *)
(***************************************************************************)
THEOREM PhasesAgree == NoPause => (Spec => []PhaseAgrees)
  <1> SUFFICES ASSUME NoPause PROVE Spec => []PhaseAgrees
    OBVIOUS
  <1>1. Init => Calm /\ Informed
    BY CalmFirst
  <1>2. Shape /\ Calm /\ Informed /\ [Next]_vars => (Calm /\ Informed)'
    BY CalmKept, InformedKept
  <1>3. Shape /\ Informed => PhaseAgrees
    <2> SUFFICES ASSUME Shape, Informed, Quiet, ~ManualOnly
                 PROVE  /\ EchoPhase => ses.state # "MANUAL"
                        /\ ManualPhase => ses.state = "MANUAL"
      BY DEF PhaseAgrees
    <2>1. \A a \in Actors : ~BringsFrom(prog[a], 0)
      BY NextBrings DEF Quiet, Shape, Programs, Good
    <2>2. ~Coming
      BY <2>1 DEF Coming, Quiet
    <2>3. EchoPhase => pc \in EchoPlaces
      BY DEF EchoPhase, EchoPlaces
    <2>4. ManualPhase => pc \in ManualPlaces
      BY DEF ManualPhase, ManualPlaces, Delivering
    <2> QED BY <2>2, <2>3, <2>4 DEF Informed
  <1> QED BY <1>1, <1>2, <1>3, ShapeKept, PTL DEF Spec

=============================================================================

------------------------------ MODULE AgentProofs ------------------------------
(***************************************************************************)
(* What holds of agents for any number of conversations and subagents, any *)
(* user's text, tools, interval and limits.                                *)
(*                                                                         *)
(* Four invariants are inductive on top of the types (Typed): what a wait  *)
(* for the clock and the rounds begun have to do with each other (Spaced), *)
(* that subagents are asked to echo and call no tool that starts agents    *)
(* (AllTame), what a subagent's words have to do with the call it runs for *)
(* (AllFaithful), and what a conversation's calls are about (MainsAbout).  *)
(***************************************************************************)
EXTENDS TextProofs

-----------------------------------------------------------------------------
(***************************************************************************)
(* Types.                                                                  *)
(***************************************************************************)
\* What an agent is.
Phases == {"off", "asks", "waits", "acts", "done"}

AgentRecord ==
  [phase : Phases, text : Seq(Characters), told : BOOLEAN, open : SUBSET Nat, tool : ToolNames,
   wake : Nat, said : Seq(Characters), json : Seq(Characters)]

Typed ==
  /\ setup \in Setups
  /\ agent \in [Agents -> AgentRecord]
  /\ clock \in Nat /\ now \in Nat \ {0} /\ rounds \in Nat
  /\ starts \in [Convs -> Seq(Nat)]

\* Paths are sequences, and a path of one call is a conversation.
LEMMA Paths ==
  ASSUME NEW a \in Agents
  PROVE  /\ Len(a) \in Nat \ {0} /\ a[1] \in Convs
         /\ IsMain(a) <=> a = <<a[1]>>
         /\ \A i : Append(a, i) # <<a[1]>> /\ Len(Append(a, i)) = Len(a) + 1
         /\ <<a[1]>> \in Agents
  <1> DEFINE X == 1..Max({s.subs : s \in Setups})
  <1>0. MaxDepth \in Nat \ {0}
    BY AgentAssumption
  <1>1. CASE a \in Mains
    <2>1. PICK c \in Convs : a = <<c>>
      BY <1>1 DEF Mains
    <2>2. Len(a) = 1 /\ a[1] = c
      BY <2>1
    <2>3. \A i : Len(Append(a, i)) = 2
      <3>1. a \in Seq({c})
        BY <2>1
      <3> QED BY <2>2, <3>1
    <2>4. Len(<<c>>) = 1
      OBVIOUS
    <2>5. <<c>> \in Agents
      BY DEF Agents, Mains
    <2> QED BY <2>1, <2>2, <2>3, <2>4, <2>5 DEF IsMain
  <1>2. CASE a \notin Mains
    <2>1. PICK c \in Convs, path \in Below : a = <<c>> \o path
      BY <1>2 DEF Agents
    <2>2. PICK d \in 1..(MaxDepth - 1) : path \in [1..d -> X]
      BY <2>1 DEF Below
    <2>3. d \in Nat \ {0}
      BY <1>0
    <2> DEFINE Y == X \union Convs
    <2> HIDE DEF X
    <2>4. path \in [1..d -> Y]
      BY <2>2
    <2>5. c \in Y
      OBVIOUS
    <2> HIDE DEF Y
    <2>6. path \in Seq(Y) /\ Len(path) = d
      BY <2>3, <2>4
    <2>7. <<c>> \in Seq(Y) /\ Len(<<c>>) = 1 /\ <<c>>[1] = c
      BY <2>5
    <2>8. a \in Seq(Y) /\ Len(a) = 1 + d /\ a[1] = c
      <3>1. 1 \in 1..(Len(<<c>>) + Len(path))
        BY <2>3, <2>6, <2>7
      <3> QED BY <2>1, <2>6, <2>7, <3>1, ConcatProperties
    <2>9. \A i : Len(Append(a, i)) = Len(a) + 1
      BY <2>8
    <2>10. <<c>> \in Agents
      BY DEF Agents, Mains
    <2>11. \A i : Len(<<i>>) = 1
      OBVIOUS
    <2> QED BY <2>3, <2>8, <2>9, <2>10, <2>11 DEF IsMain
  <1> QED BY <1>1, <1>2

\* Two conversations are two agents, and a subagent is not one.
LEMMA Conversations ==
  ASSUME NEW c \in Convs
  PROVE  <<c>> \in Agents /\ IsMain(<<c>>) /\ <<c>>[1] = c /\ Len(<<c>>) = 1
  BY DEF Agents, Mains, IsMain

\* Everything has its type at first.
LEMMA TypedInit == ASSUME Init PROVE Typed
  <1>1. NoAgent \in AgentRecord
    <2>1. <<>> \in Seq(Characters)
      BY EmptySeq
    <2>2. "" \in ToolNames
      BY DEF ToolNames
    <2> QED BY <2>1, <2>2 DEF NoAgent, AgentRecord, Phases
  <1>2. <<>> \in Seq(Nat)
    BY EmptySeq
  <1> QED BY <1>1, <1>2 DEF Init, Typed

\* The setup is one that is tried.
LEMMA SetupType ==
  ASSUME setup \in Setups
  PROVE  /\ setup.subs \in Nat \ {0} /\ setup.convs \in Nat \ {0} /\ setup.rounds \in Nat \ {0}
         /\ setup.maxTokens \in Nat /\ setup.streaming \in BOOLEAN /\ setup.max \in BOOLEAN
         /\ setup.text \in Seq(Characters)
         /\ \A a : ToolsOf(a) \in Seq(STRING) \ {<<>>}
         /\ Calls \subseteq Nat
  BY AgentAssumption DEF ToolsOf, Calls

\* The text of a round is a text.
LEMMA BlockType ==
  ASSUME setup \in Setups, NEW S \in SUBSET Characters, "a" \in S, NEW text \in Seq(S)
  PROVE  Block(text) \in Seq(S)
  <1>1. BlockTokens(Chunk, setup.maxTokens, setup.subs, setup.streaming) \in Nat
    BY SetupType, BlockTokensType, AgentAssumption
  <1> QED BY <1>1, BlockBuilt DEF Block

\* An answer has the type of one.
LEMMA AnsweredTyped ==
  ASSUME Typed, NEW a \in Agents, NEW calls \in SUBSET Nat, NEW tool \in ToolNames,
         NEW said \in Seq(Characters), NEW json \in Seq(Characters),
         Answered(a, calls, tool, said, json)
  PROVE  agent' \in [Agents -> AgentRecord]
  <1>1. agent \in [Agents -> AgentRecord] /\ agent[a] \in AgentRecord
    BY DEF Typed
  <1> DEFINE r == [agent[a] EXCEPT !.phase = "acts", !.open = calls, !.tool = tool,
                                   !.said = said, !.json = json]
  <1>2. agent' = [agent EXCEPT ![a] = r]
    BY <1>1 DEF Answered
  <1>3. r \in AgentRecord
    BY <1>1 DEF AgentRecord, Phases
  <1> HIDE DEF r
  <1> QED BY <1>1, <1>2, <1>3

\* And so has that of a round.
LEMMA RoundTyped ==
  ASSUME Typed, NEW a \in Agents, AnsweredRound(a)
  PROVE  agent' \in [Agents -> AgentRecord]
  <1> DEFINE block == Block(agent[a].text)
  <1>1. agent[a].text \in Seq(Characters)
    BY DEF Typed, AgentRecord
  <1>2. block \in Seq(Characters)
    <2>1. "a" \in Characters
      BY DEF Characters
    <2> QED BY <1>1, <2>1, BlockType DEF Typed
  <1>3. Prompt(block) \in Seq(Characters)
    BY <1>2, TextTypes
  <1>4. CallTool(ToolsOf(a)) \in ToolNames /\ Calls \in SUBSET Nat
    BY SetupType, CallToolType DEF Typed
  <1>5. Answered(a, Calls, CallTool(ToolsOf(a)), block, Prompt(block))
    BY DEF AnsweredRound
  <1> HIDE DEF block
  <1> QED BY <1>2, <1>3, <1>4, <1>5, AnsweredTyped

\* Every step of the server keeps the types.
LEMMA ServeTyped ==
  ASSUME Typed, NEW a \in Agents, Serve(a)
  PROVE  Typed'
  <1>1. CASE AnswerAtOnce(a)
    BY <1>1, RoundTyped DEF AnswerAtOnce, Typed
  <1>2. CASE LoadClock(a)
    <2>1. (IF clock = 0 THEN now ELSE clock + Interval) \in Nat
      BY AgentAssumption DEF Typed
    <2> DEFINE wake == IF clock = 0 THEN now ELSE clock + Interval
               r == [agent[a] EXCEPT !.phase = "waits", !.wake = wake]
    <2>2. agent \in [Agents -> AgentRecord] /\ agent[a] \in AgentRecord
      BY DEF Typed
    <2>3. agent' = [agent EXCEPT ![a] = r]
      BY <1>2, <2>2 DEF LoadClock
    <2> HIDE DEF wake
    <2>4. r \in AgentRecord
      BY <2>1, <2>2 DEF AgentRecord, Phases, wake
    <2> HIDE DEF r
    <2>5. agent' \in [Agents -> AgentRecord]
      BY <2>2, <2>3, <2>4
    <2> QED BY <1>2, <2>5 DEF LoadClock, Typed
  <1>3. CASE Round(a)
    <2>1. agent' \in [Agents -> AgentRecord]
      BY <1>3, RoundTyped DEF Round
    <2>2. starts' \in [Convs -> Seq(Nat)]
      <3>1. a[1] \in Convs /\ now \in Nat
        BY Paths DEF Typed
      <3>2. Append(starts[a[1]], now) \in Seq(Nat)
        BY <3>1, AppendProperties DEF Typed
      <3> QED BY <1>3, <3>1, <3>2 DEF Round, Began, Typed
    <2> QED BY <1>3, <2>1, <2>2 DEF Round, Typed
  <1>4. CASE ShellEcho(a)
    <2>1. PickShellTool(ToolsOf(a)) \in ToolNames
      BY SetupType, ShellStartsNone DEF Typed
    <2>2. <<>> \in Seq(Characters) /\ {1} \in SUBSET Nat
      BY EmptySeq
    <2>3. agent' \in [Agents -> AgentRecord]
      BY <1>4, <2>1, <2>2, AnsweredTyped DEF ShellEcho
    <2> QED BY <1>4, <2>3 DEF ShellEcho, Typed
  <1>5. CASE Report(a)
    <2> DEFINE said == IF AllBlank(ExtractEchoPayload(agent[a].text)) THEN agent[a].text
                       ELSE ExtractEchoPayload(agent[a].text)
    <2>1. said \in Seq(Characters)
      BY TextTypes DEF Typed, AgentRecord
    <2>2. agent' = [agent EXCEPT ![a].phase = "done", ![a].said = said]
      BY <1>5 DEF Report
    <2> HIDE DEF said
    <2> DEFINE r == [agent[a] EXCEPT !.phase = "done", !.said = said]
    <2>3. agent \in [Agents -> AgentRecord] /\ agent[a] \in AgentRecord
      BY DEF Typed
    <2>4. agent' = [agent EXCEPT ![a] = r]
      BY <2>2, <2>3
    <2>5. r \in AgentRecord
      BY <2>1, <2>3 DEF AgentRecord, Phases
    <2> HIDE DEF r
    <2>6. agent' \in [Agents -> AgentRecord]
      BY <2>3, <2>4, <2>5
    <2> QED BY <1>5, <2>6 DEF Report, Typed
  <1> QED BY <1>1, <1>2, <1>3, <1>4, <1>5 DEF Serve

\* And so does every step of a client.
LEMMA WorkTyped ==
  ASSUME Typed, NEW a \in Agents, Work(a)
  PROVE  Typed'
  <1>1. CASE AskAgain(a)
    <2> DEFINE r == [agent[a] EXCEPT !.phase = "asks", !.told = TRUE]
    <2>1. agent \in [Agents -> AgentRecord] /\ agent[a] \in AgentRecord
      BY DEF Typed
    <2>2. agent' = [agent EXCEPT ![a] = r]
      BY <1>1, <2>1 DEF AskAgain
    <2>3. r \in AgentRecord
      BY <2>1 DEF AgentRecord, Phases
    <2> HIDE DEF r
    <2>4. agent' \in [Agents -> AgentRecord]
      BY <2>1, <2>2, <2>3
    <2>5. rounds' \in Nat
      BY <1>1 DEF AskAgain, Typed
    <2> QED BY <1>1, <2>4, <2>5 DEF AskAgain, Typed
  <1>2. ASSUME NEW i \in Calls, RunTool(a, i) PROVE Typed'
    BY <1>2 DEF RunTool, Returned, Typed, AgentRecord
  <1>3. ASSUME NEW i \in Calls, Spawn(a, i) PROVE Typed'
    <2> DEFINE text == Decode(agent[a].json).text
    <2>1. text \in Seq(Characters)
      BY TextTypes DEF Typed, AgentRecord
    <2> HIDE DEF text
    <2>2. Started(text) \in AgentRecord
      BY <2>1, EmptySeq DEF Started, NoAgent, AgentRecord, Phases, ToolNames
    <2>3. agent' = [agent EXCEPT ![Append(a, i)] = Started(text)]
      BY <1>3 DEF Spawn, text
    <2> HIDE DEF text
    <2> QED BY <1>3, <2>2, <2>3 DEF Spawn, Typed
  <1>4. ASSUME NEW i \in Calls, SubReturns(a, i) PROVE Typed'
    <2>1. NoAgent \in AgentRecord
      BY EmptySeq DEF NoAgent, AgentRecord, Phases, ToolNames
    <2>2. Returned(a, i) \in [Agents -> AgentRecord]
      BY DEF Returned, Typed, AgentRecord
    <2>3. agent' = [Returned(a, i) EXCEPT ![Append(a, i)] = NoAgent]
      BY <1>4 DEF SubReturns
    <2> QED BY <1>4, <2>1, <2>2, <2>3 DEF SubReturns, Typed
  <1> QED BY <1>1, <1>2, <1>3, <1>4 DEF Work

\* Every step keeps the types.
LEMMA TypedStep == ASSUME Typed, [Next]_vars PROVE Typed'
  <1>1. ASSUME NEW c \in Convs, Begin(c) PROVE Typed'
    <2>1. Started(setup.text) \in AgentRecord
      BY EmptySeq, SetupType DEF Started, NoAgent, AgentRecord, Phases, ToolNames, Typed
    <2>2. agent' = [agent EXCEPT ![<<c>>] = Started(setup.text)]
      BY <1>1 DEF Begin
    <2>3. agent' \in [Agents -> AgentRecord]
      BY <2>1, <2>2 DEF Typed
    <2> QED BY <1>1, <2>3 DEF Begin, Typed
  <1>2. CASE Tick
    BY <1>2 DEF Tick, Typed
  <1>3. CASE UNCHANGED vars
    BY <1>3 DEF vars, Typed
  <1> QED BY <1>1, <1>2, <1>3, ServeTyped, WorkTyped DEF Next

-----------------------------------------------------------------------------
(***************************************************************************)
(* Rounds and the clock.                                                   *)
(***************************************************************************)
\* Every round a conversation has begun is no later than the clock, and its
\* wait for the next ends no sooner than the interval after.
Spaced ==
  /\ clock <= now
  /\ \A c \in Convs : \A k \in 1..Len(starts[c]) :
       /\ starts[c][k] \in 1..clock
       /\ agent[<<c>>].phase = "waits" => agent[<<c>>].wake >= starts[c][k] + Interval
  /\ RoundsSpaced

\* Who waits has been waiting, for the same time.
WaitsOn ==
  \A a \in Agents :
    agent'[a].phase = "waits" => agent[a].phase = "waits" /\ agent'[a].wake = agent[a].wake

\* A step that begins no wait and no round keeps the rounds apart.
LEMMA QuietSpaced ==
  ASSUME Typed, Spaced, WaitsOn, UNCHANGED <<clock, starts>>, now' >= now, now' \in Nat
  PROVE  Spaced'
  <1>1. clock' <= now'
    BY DEF Spaced, Typed
  <1>2. ASSUME NEW c \in Convs, NEW k \in 1..Len(starts'[c])
        PROVE  /\ starts'[c][k] \in 1..clock'
               /\ agent'[<<c>>].phase = "waits" => agent'[<<c>>].wake >= starts'[c][k] + Interval
    BY <1>2, Conversations DEF Spaced, WaitsOn
  <1>3. RoundsSpaced'
    BY DEF Spaced, RoundsSpaced
  <1> QED BY <1>1, <1>2, <1>3 DEF Spaced

\* Only LoadClock begins a wait.
LEMMA ClientWaits ==
  ASSUME Typed, \/ \E c \in Convs : Begin(c)
                \/ \E a \in Agents : Work(a)
  PROVE  WaitsOn /\ UNCHANGED <<setup, clock, starts, now>>
  <1>0. agent \in [Agents -> AgentRecord]
    BY DEF Typed
  <1>1. ASSUME NEW c \in Convs, Begin(c) PROVE WaitsOn /\ UNCHANGED <<setup, clock, starts, now>>
    BY <1>0, <1>1 DEF Begin, Started, WaitsOn
  <1>2. ASSUME NEW a \in Agents, AskAgain(a)
        PROVE  WaitsOn /\ UNCHANGED <<setup, clock, starts, now>>
    BY <1>0, <1>2 DEF AskAgain, WaitsOn, AgentRecord
  <1>3. ASSUME NEW a \in Agents, NEW i \in Calls, RunTool(a, i)
        PROVE  WaitsOn /\ UNCHANGED <<setup, clock, starts, now>>
    BY <1>0, <1>3 DEF RunTool, Returned, WaitsOn, AgentRecord
  <1>4. ASSUME NEW a \in Agents, NEW i \in Calls, Spawn(a, i)
        PROVE  WaitsOn /\ UNCHANGED <<setup, clock, starts, now>>
    BY <1>0, <1>4 DEF Spawn, Started, WaitsOn
  <1>5. ASSUME NEW a \in Agents, NEW i \in Calls, SubReturns(a, i)
        PROVE  WaitsOn /\ UNCHANGED <<setup, clock, starts, now>>
    BY <1>0, <1>5 DEF SubReturns, Returned, NoAgent, WaitsOn, AgentRecord
  <1> QED BY <1>1, <1>2, <1>3, <1>4, <1>5 DEF Work

\* An answer is no wait.
LEMMA AnswersWait ==
  ASSUME Typed, NEW a \in Agents,
         \E calls, tool, said, json : Answered(a, calls, tool, said, json)
  PROVE  WaitsOn /\ agent'[a].phase # "waits"
  <1>0. agent \in [Agents -> AgentRecord] /\ agent[a] \in AgentRecord
    BY DEF Typed
  <1>1. PICK calls, tool, said, json : Answered(a, calls, tool, said, json)
    OBVIOUS
  <1>2. \A b \in Agents : b # a => agent'[b] = agent[b]
    BY <1>0, <1>1 DEF Answered
  <1>3. agent'[a].phase = "acts"
    BY <1>0, <1>1 DEF Answered, AgentRecord
  <1> QED BY <1>2, <1>3 DEF WaitsOn

\* A wait that begins is as long as the clock says, which was set by the last
\* round of all.
LEMMA LoadSpaced ==
  ASSUME Typed, Spaced, NEW a \in Agents, LoadClock(a)
  PROVE  Spaced'
  <1> DEFINE wake == IF clock = 0 THEN now ELSE clock + Interval
  <1>0. agent \in [Agents -> AgentRecord] /\ agent[a] \in AgentRecord
    BY DEF Typed
  <1>1. agent' = [agent EXCEPT ![a] = [agent[a] EXCEPT !.phase = "waits", !.wake = wake]]
    BY <1>0 DEF LoadClock
  <1>2. agent'[a].wake = wake /\ \A b \in Agents : b # a => agent'[b] = agent[b]
    BY <1>0, <1>1 DEF AgentRecord
  <1>3. UNCHANGED <<clock, now, starts>>
    BY DEF LoadClock
  <1>4. clock' <= now' /\ RoundsSpaced'
    BY <1>3 DEF Spaced, RoundsSpaced
  <1>5. ASSUME NEW c \in Convs, NEW k \in 1..Len(starts'[c])
        PROVE  /\ starts'[c][k] \in 1..clock'
               /\ agent'[<<c>>].phase = "waits" => agent'[<<c>>].wake >= starts'[c][k] + Interval
    <2>1. starts[c][k] \in 1..clock /\ <<c>> \in Agents
      BY <1>3, <1>5, Conversations DEF Spaced
    <2>2. CASE a = <<c>>
      <3>1. wake >= starts[c][k] + Interval
        BY <2>1, AgentAssumption DEF Typed
      <3> HIDE DEF wake
      <3> QED BY <1>2, <1>3, <2>1, <2>2, <3>1
    <2>3. CASE a # <<c>>
      BY <1>2, <1>3, <1>5, <2>1, <2>3 DEF Spaced
    <2> QED BY <2>2, <2>3
  <1> QED BY <1>4, <1>5 DEF Spaced

\* A round begins when its wait is over.
LEMMA RoundKeepsSpaced ==
  ASSUME Typed, Spaced, NEW a \in Agents, Round(a)
  PROVE  Spaced'
  <1>1. WaitsOn /\ agent'[a].phase # "waits"
    BY AnswersWait DEF Round, AnsweredRound
  <1>2. /\ agent[a].phase = "waits" /\ now >= agent[a].wake /\ clock' = now /\ now' = now
        /\ Began(a)
    BY DEF Round
  <1>3. now \in Nat \ {0} /\ clock \in Nat /\ clock <= now /\ Interval \in Nat
    BY AgentAssumption DEF Typed, Spaced
  <1>4. ASSUME NEW c \in Convs, ~(IsMain(a) /\ c = a[1])
        PROVE  starts'[c] = starts[c]
    BY <1>2, <1>4 DEF Began, Typed
  <1>5. CASE IsMain(a)
    <2> DEFINE d == a[1]
               n == Len(starts[d])
    <2>1. d \in Convs /\ a = <<d>> /\ starts[d] \in Seq(Nat) /\ n \in Nat
      BY <1>5, Paths, LenProperties DEF Typed
    <2>2. starts'[d] = Append(starts[d], now)
      BY <1>2, <1>5, <2>1 DEF Began, Typed
    <2> HIDE DEF d, n
    <2>3. /\ Len(starts'[d]) = n + 1 /\ starts'[d][n + 1] = now
          /\ \A k \in 1..n : starts'[d][k] = starts[d][k]
      BY <1>3, <2>1, <2>2, AppendProperties DEF n
    <2>4. \A k \in 1..n : starts[d][k] \in 1..clock /\ agent[a].wake >= starts[d][k] + Interval
      BY <1>2, <2>1 DEF Spaced, n
    <2>5. agent[a].wake \in Nat
      BY DEF Typed, AgentRecord
    <2>6. \A k \in 1..n : now >= starts[d][k] + Interval
      BY <1>2, <1>3, <2>4, <2>5
    <2>7. \A k \in 1..(n + 1) : starts'[d][k] \in 1..clock'
      BY <1>2, <1>3, <2>1, <2>3, <2>4
    <2>8. ASSUME NEW k \in 2..(n + 1) PROVE starts'[d][k] >= starts'[d][k - 1] + Interval
      <3>1. CASE k = n + 1
        <4>1. k - 1 \in 1..n /\ k - 1 = n
          BY <2>1, <3>1
        <4> QED BY <2>3, <2>6, <3>1, <4>1
      <3>2. CASE k # n + 1
        <4>1. k \in 2..n /\ k \in 1..n /\ k - 1 \in 1..n
          BY <2>1, <3>2
        <4>2. starts[d][k] >= starts[d][k - 1] + Interval
          BY <2>1, <4>1 DEF Spaced, RoundsSpaced, n
        <4> QED BY <2>3, <4>1, <4>2
      <3> QED BY <3>1, <3>2
    <2>9. ASSUME NEW c \in Convs, NEW k \in 1..Len(starts'[c])
          PROVE  /\ starts'[c][k] \in 1..clock'
                 /\ agent'[<<c>>].phase = "waits" => agent'[<<c>>].wake >= starts'[c][k] + Interval
      <3>1. CASE c = d
        BY <1>1, <2>1, <2>3, <2>7, <2>9, <3>1
      <3>2. CASE c # d
        <4>1. starts'[c] = starts[c] /\ <<c>> \in Agents
          BY <1>4, <3>2, Conversations DEF d
        <4>2. /\ starts[c][k] \in 1..clock
              /\ agent[<<c>>].phase = "waits" => agent[<<c>>].wake >= starts[c][k] + Interval
          BY <2>9, <4>1 DEF Spaced
        <4> QED BY <1>1, <1>2, <1>3, <4>1, <4>2 DEF WaitsOn
      <3> QED BY <3>1, <3>2
    <2>10. ASSUME NEW c \in Convs, NEW k \in 2..Len(starts'[c])
           PROVE  starts'[c][k] >= starts'[c][k - 1] + Interval
      <3>1. CASE c = d
        BY <2>3, <2>8, <2>10, <3>1
      <3>2. CASE c # d
        BY <1>4, <2>10, <3>2 DEF d, Spaced, RoundsSpaced
      <3> QED BY <3>1, <3>2
    <2> QED BY <1>2, <1>3, <2>9, <2>10 DEF Spaced, RoundsSpaced
  <1>6. CASE ~IsMain(a)
    <2>1. starts' = starts
      BY <1>2, <1>6 DEF Began
    <2>2. ASSUME NEW c \in Convs, NEW k \in 1..Len(starts'[c])
          PROVE  /\ starts'[c][k] \in 1..clock'
                 /\ agent'[<<c>>].phase = "waits" => agent'[<<c>>].wake >= starts'[c][k] + Interval
      <3>1. <<c>> \in Agents
        BY Conversations
      <3>2. /\ starts[c][k] \in 1..clock
            /\ agent[<<c>>].phase = "waits" => agent[<<c>>].wake >= starts[c][k] + Interval
        BY <2>1, <2>2 DEF Spaced
      <3> QED BY <1>1, <1>2, <1>3, <2>1, <3>1, <3>2 DEF WaitsOn
    <2>3. RoundsSpaced'
      BY <2>1 DEF Spaced, RoundsSpaced
    <2> QED BY <1>2, <1>3, <2>2, <2>3 DEF Spaced
  <1> QED BY <1>5, <1>6

\* Every step keeps the rounds apart.
LEMMA SpacedStep == ASSUME Typed, Spaced, [Next]_vars PROVE Spaced'
  <1>0. now \in Nat
    BY DEF Typed
  <1>1. CASE (\E c \in Convs : Begin(c)) \/ \E a \in Agents : Work(a)
    BY <1>0, <1>1, ClientWaits, QuietSpaced
  <1>2. ASSUME NEW a \in Agents, Serve(a) PROVE Spaced'
    <2>1. CASE AnswerAtOnce(a) \/ ShellEcho(a)
      <3>1. WaitsOn
        BY <2>1, AnswersWait DEF AnswerAtOnce, AnsweredRound, ShellEcho
      <3> QED BY <1>0, <2>1, <3>1, QuietSpaced DEF AnswerAtOnce, ShellEcho
    <2>2. CASE Report(a)
      <3>1. PICK said : agent' = [agent EXCEPT ![a].phase = "done", ![a].said = said]
        BY <2>2 DEF Report
      <3>2. WaitsOn
        BY <3>1 DEF Typed, AgentRecord, WaitsOn
      <3> QED BY <1>0, <2>2, <3>2, QuietSpaced DEF Report
    <2> QED BY <1>2, <2>1, <2>2, LoadSpaced, RoundKeepsSpaced DEF Serve
  <1>3. CASE Tick
    <2>1. WaitsOn /\ now' >= now /\ now' \in Nat /\ UNCHANGED <<clock, starts>>
      BY <1>0, <1>3 DEF Tick, WaitsOn
    <2> QED BY <2>1, QuietSpaced
  <1>4. CASE UNCHANGED vars
    BY <1>0, <1>4, QuietSpaced DEF vars, WaitsOn
  <1> QED BY <1>1, <1>2, <1>3, <1>4 DEF Next

(***************************************************************************)
(* The rounds of a conversation begin at least the interval apart, for any *)
(* number of conversations that share the clock and any interval: what a   *)
(* conversation waits for is the last round of all, which is no earlier    *)
(* than its own (runAgentEcho, agentCycleClock).                           *)
(***************************************************************************)
THEOREM RoundsKeepApart == Spec => []RoundsSpaced
  <1>1. Init => Typed /\ Spaced
    <2>1. Init => Spaced
      BY DEF Init, Spaced, RoundsSpaced
    <2> QED BY <2>1, TypedInit
  <1>2. Typed /\ Spaced /\ [Next]_vars => Typed' /\ Spaced'
    BY TypedStep, SpacedStep
  <1>3. Spaced => RoundsSpaced
    BY DEF Spaced
  <1> QED BY <1>1, <1>2, <1>3, PTL DEF Spec

-----------------------------------------------------------------------------
(***************************************************************************)
(* Subagents.                                                              *)
(***************************************************************************)
\* What an agent may be about, when clients stream: a conversation that calls a
\* tool which starts agents gives it a prompt to echo, a subagent is asked to
\* echo, waits for no clock and calls no such tool, and there are no others.
Tame(a, r) ==
  /\ IsMain(a) /\ r.phase = "acts" /\ SpawnsAgent(r.tool) =>
       IsSubagentEchoRequest(Decode(r.json).text)
  /\ Len(a) = 2 =>
       /\ r.phase # "off" => IsSubagentEchoRequest(r.text)
       /\ r.phase # "waits"
       /\ r.phase = "acts" => ~SpawnsAgent(r.tool)
  /\ Len(a) > 2 => r.phase = "off"

AllTame == setup.streaming => \A a \in Agents : Tame(a, agent[a])

\* It is enough to look at the agents that a step changes.
LEMMA OneTame ==
  ASSUME AllTame, UNCHANGED setup, NEW b,
         \A a \in Agents : a # b => agent'[a] = agent[a],
         setup.streaming /\ b \in Agents => Tame(b, agent'[b])
  PROVE  AllTame'
  BY DEF AllTame

\* Who is at no tool and does not wait is tame if its text is.
LEMMA IdleTame ==
  ASSUME NEW a, NEW r, r.phase \in {"off", "asks", "done"},
         Len(a) = 2 /\ r.phase # "off" => IsSubagentEchoRequest(r.text),
         Len(a) > 2 => r.phase = "off"
  PROVE  Tame(a, r)
  BY DEF Tame

\* The server's steps keep the agents tame.
LEMMA ServeTame ==
  ASSUME Typed, AllTame, NEW a \in Agents, Serve(a)
  PROVE  AllTame'
  <1>0. /\ agent \in [Agents -> AgentRecord] /\ agent[a] \in AgentRecord
        /\ agent[a].text \in Seq(Characters) /\ Len(a) \in Nat \ {0}
    BY Paths DEF Typed, AgentRecord
  <1>1. UNCHANGED setup
    BY DEF Serve, AnswerAtOnce, LoadClock, Round, ShellEcho, Report
  <1>2. CASE AnswerAtOnce(a)
    BY <1>1, <1>2 DEF AnswerAtOnce, AllTame
  <1>3. CASE LoadClock(a)
    <2>1. PICK wake : agent' = [agent EXCEPT ![a].phase = "waits", ![a].wake = wake]
      BY <1>3 DEF LoadClock
    <2>2. \A b \in Agents : b # a => agent'[b] = agent[b]
      BY <1>0, <2>1
    <2>3. agent'[a].phase = "waits"
      BY <1>0, <2>1 DEF AgentRecord
    <2>4. setup.streaming => Tame(a, agent'[a])
      <3>1. agent[a].phase = "asks" /\ ~IsSubagentEchoRequest(agent[a].text)
        BY <1>3 DEF LoadClock, Asks
      <3> QED BY <1>0, <2>3, <3>1 DEF AllTame, Tame
    <2> QED BY <1>1, <2>2, <2>4, OneTame
  <1>4. CASE Round(a)
    <2> DEFINE block == Block(agent[a].text)
    <2>1. Answered(a, Calls, CallTool(ToolsOf(a)), block, Prompt(block))
      BY <1>4 DEF Round, AnsweredRound
    <2>2. block \in Seq(Characters)
      <3>1. "a" \in Characters
        BY DEF Characters
      <3> QED BY <1>0, <3>1, BlockType DEF Typed
    <2> HIDE DEF block
    <2>3. \A b \in Agents : b # a => agent'[b] = agent[b]
      BY <1>0, <2>1 DEF Answered
    <2>4. agent'[a].phase = "acts" /\ agent'[a].json = Prompt(block)
      BY <1>0, <2>1 DEF Answered, AgentRecord
    <2>5. setup.streaming => Tame(a, agent'[a])
      <3>1. agent[a].phase = "waits"
        BY <1>4 DEF Round
      <3>2. IsSubagentEchoRequest(Decode(agent'[a].json).text)
        BY <2>2, <2>4, PromptIsAsk
      <3> QED BY <1>0, <2>4, <3>1, <3>2 DEF AllTame, Tame
    <2> QED BY <1>1, <2>3, <2>5, OneTame
  <1>5. CASE ShellEcho(a)
    <2> DEFINE tool == PickShellTool(ToolsOf(a))
    <2>1. Answered(a, {1}, tool, <<>>, <<>>)
      BY <1>5 DEF ShellEcho
    <2>2. ~SpawnsAgent(tool)
      BY SetupType, ShellStartsNone DEF Typed
    <2> HIDE DEF tool
    <2>3. \A b \in Agents : b # a => agent'[b] = agent[b]
      BY <1>0, <2>1 DEF Answered
    <2>4. agent'[a].phase = "acts" /\ agent'[a].tool = tool /\ agent'[a].text = agent[a].text
      BY <1>0, <2>1 DEF Answered, AgentRecord
    <2>5. setup.streaming => Tame(a, agent'[a])
      <3>1. agent[a].phase = "asks" /\ IsSubagentEchoRequest(agent[a].text)
        BY <1>5 DEF ShellEcho, Asks
      <3> QED BY <1>0, <2>2, <2>4, <3>1 DEF AllTame, Tame
    <2> QED BY <1>1, <2>3, <2>5, OneTame
  <1>6. CASE Report(a)
    <2>1. PICK said : agent' = [agent EXCEPT ![a].phase = "done", ![a].said = said]
      BY <1>6 DEF Report
    <2>2. \A b \in Agents : b # a => agent'[b] = agent[b]
      BY <1>0, <2>1
    <2>3. agent'[a].phase = "done" /\ agent'[a].text = agent[a].text
      BY <1>0, <2>1 DEF AgentRecord
    <2>4. setup.streaming => Tame(a, agent'[a])
      <3>1. agent[a].phase = "asks" /\ IsSubagentEchoRequest(agent[a].text)
        BY <1>6 DEF Report, Asks
      <3>2. setup.streaming => ~(Len(a) > 2)
        BY <3>1 DEF AllTame, Tame
      <3> QED BY <2>3, <3>1, <3>2, IdleTame
    <2> QED BY <1>1, <2>2, <2>4, OneTame
  <1> QED BY <1>2, <1>3, <1>4, <1>5, <1>6 DEF Serve

\* And so do the client's.
LEMMA WorkTame ==
  ASSUME Typed, AllTame, NEW a \in Agents, Work(a)
  PROVE  AllTame'
  <1>0. /\ agent \in [Agents -> AgentRecord] /\ agent[a] \in AgentRecord
        /\ Len(a) \in Nat \ {0}
    BY Paths DEF Typed
  <1>1. UNCHANGED setup
    BY DEF Work, AskAgain, RunTool, Spawn, SubReturns
  <1>2. CASE AskAgain(a)
    <2>1. \A b \in Agents : b # a => agent'[b] = agent[b]
      BY <1>0, <1>2 DEF AskAgain
    <2>2. agent'[a].phase = "asks" /\ agent'[a].text = agent[a].text /\ agent[a].phase = "acts"
      BY <1>0, <1>2 DEF AskAgain, AgentRecord
    <2>3. setup.streaming => Tame(a, agent'[a])
      <3>1. setup.streaming => Tame(a, agent[a])
        BY DEF AllTame
      <3> QED BY <2>2, <3>1, IdleTame DEF Tame
    <2> QED BY <1>1, <2>1, <2>3, OneTame
  <1>3. ASSUME NEW i \in Calls, RunTool(a, i) PROVE AllTame'
    <2>1. \A b \in Agents : b # a => agent'[b] = agent[b]
      BY <1>0, <1>3 DEF RunTool, Returned
    <2>2. /\ agent'[a].phase = agent[a].phase /\ agent'[a].text = agent[a].text
          /\ agent'[a].tool = agent[a].tool /\ agent'[a].json = agent[a].json
      BY <1>0, <1>3 DEF RunTool, Returned, AgentRecord
    <2>3. setup.streaming => Tame(a, agent'[a])
      BY <2>2 DEF AllTame, Tame
    <2> QED BY <1>1, <2>1, <2>3, OneTame
  <1>4. ASSUME NEW i \in Calls, Spawn(a, i) PROVE AllTame'
    <2> DEFINE sub == Append(a, i)
               text == Decode(agent[a].json).text
    <2>1. \A b \in Agents : b # sub => agent'[b] = agent[b]
      BY <1>0, <1>4 DEF Spawn
    <2>2. sub \in Agents => agent'[sub] = Started(text)
      BY <1>0, <1>4 DEF Spawn
    <2>3. agent[a].phase = "acts" /\ SpawnsAgent(agent[a].tool)
      BY <1>4 DEF Spawn, Acts
    <2> HIDE DEF sub, text
    <2>4. setup.streaming /\ sub \in Agents => Tame(sub, agent'[sub])
      <3> SUFFICES ASSUME setup.streaming, sub \in Agents PROVE Tame(sub, agent'[sub])
        OBVIOUS
      <3>1. Tame(a, agent[a])
        BY DEF AllTame
      <3>2. Len(a) = 1
        <4> DEFINE n == Len(a)
        <4>1. n # 2
          BY <2>3, <3>1 DEF Tame
        <4>2. ~(n > 2)
          BY <2>3, <3>1 DEF Tame
        <4>3. n \in Nat \ {0}
          BY <1>0
        <4> HIDE DEF n
        <4>4. n = 1
          BY <4>1, <4>2, <4>3
        <4> QED BY <4>4 DEF n
      <3>3. IsSubagentEchoRequest(text)
        BY <2>3, <3>1, <3>2 DEF Tame, IsMain, text
      <3>4. a = <<a[1]>>
        BY <3>2, Paths DEF IsMain
      <3>5. Len(sub) = 2
        <4>1. PICK c : a = <<c>>
          BY <3>4
        <4>2. a \in Seq({c})
          BY <4>1
        <4>3. Len(Append(a, i)) = Len(a) + 1
          BY <4>2, AppendProperties
        <4> QED BY <3>2, <4>3 DEF sub
      <3>6. agent'[sub].phase = "asks" /\ agent'[sub].text = text
        BY <2>2 DEF Started, NoAgent
      <3>7. ~(Len(sub) > 2)
        BY <3>5
      <3> QED BY <3>3, <3>6, <3>7, IdleTame
    <2> QED BY <1>1, <2>1, <2>4, OneTame
  <1>5. ASSUME NEW i \in Calls, SubReturns(a, i) PROVE AllTame'
    <2> DEFINE sub == Append(a, i)
    <2>1. sub \in Agents /\ agent' = [Returned(a, i) EXCEPT ![sub] = NoAgent]
      BY <1>5 DEF SubReturns
    <2> HIDE DEF sub
    <2>2. agent'[sub].phase = "off"
      BY <1>0, <2>1 DEF Returned, NoAgent
    <2>3. \A b \in Agents : b # sub /\ b # a => agent'[b] = agent[b]
      BY <1>0, <2>1 DEF Returned
    <2>4. a # sub => /\ agent'[a].phase = agent[a].phase /\ agent'[a].text = agent[a].text
                     /\ agent'[a].tool = agent[a].tool /\ agent'[a].json = agent[a].json
      BY <1>0, <2>1 DEF Returned, AgentRecord
    <2>5. ASSUME setup.streaming, NEW b \in Agents PROVE Tame(b, agent'[b])
      <3>1. CASE b = sub
        BY <2>2, <3>1, IdleTame
      <3>2. CASE b # sub /\ b # a
        BY <2>3, <2>5, <3>2 DEF AllTame
      <3>3. CASE b # sub /\ b = a
        BY <2>4, <2>5, <3>3 DEF AllTame, Tame
      <3> QED BY <3>1, <3>2, <3>3
    <2> QED BY <1>1, <2>5 DEF AllTame
  <1> QED BY <1>2, <1>3, <1>4, <1>5 DEF Work

\* Every step keeps the agents tame.
LEMMA TameStep == ASSUME Typed, AllTame, [Next]_vars PROVE AllTame'
  <1>1. ASSUME NEW c \in Convs, Begin(c) PROVE AllTame'
    <2>1. /\ \A b \in Agents : b # <<c>> => agent'[b] = agent[b]
          /\ agent'[<<c>>].phase = "asks" /\ UNCHANGED setup
      BY <1>1, Conversations DEF Begin, Started, NoAgent, Typed
    <2>2. Len(<<c>>) # 2 /\ ~(Len(<<c>>) > 2)
      OBVIOUS
    <2>3. Tame(<<c>>, agent'[<<c>>])
      <3> DEFINE b == <<c>>
                 r == agent'[b]
      <3>1. r.phase = "asks" /\ Len(b) # 2 /\ ~(Len(b) > 2)
        BY <2>1, <2>2
      <3> HIDE DEF b, r
      <3>2. Tame(b, r)
        BY <3>1, IdleTame
      <3> QED BY <3>2 DEF b, r
    <2> QED BY <2>1, <2>3, OneTame
  <1>2. CASE Tick
    BY <1>2 DEF Tick, AllTame
  <1>3. CASE UNCHANGED vars
    BY <1>3 DEF vars, AllTame
  <1> QED BY <1>1, <1>2, <1>3, ServeTame, WorkTame DEF Next

(***************************************************************************)
(* Subagents of clients that stream start no subagents, whatever the       *)
(* user's text, the tools they declare and the depth they could reach: the *)
(* prompt that a subagent is started with stays recognisable through the   *)
(* JSON string that carries it, and the tool it is answered with is none   *)
(* that starts agents (runSubagentEcho, IsSubagentEchoRequest,             *)
(* PickShellTool).                                                         *)
(***************************************************************************)
THEOREM SubagentsNeverNest == Spec => []NeverNest
  <1>1. Init => Typed /\ AllTame
    <2>1. ASSUME Init PROVE AllTame
      <3>1. \A a \in Agents : Tame(a, agent[a])
        <4>1. \A a \in Agents : agent[a].phase = "off"
          BY <2>1 DEF Init, NoAgent
        <4> QED BY <4>1, IdleTame
      <3> QED BY <3>1 DEF AllTame
    <2> QED BY <2>1, TypedInit
  <1>2. Typed /\ AllTame /\ [Next]_vars => Typed' /\ AllTame'
    BY TypedStep, TameStep
  <1>3. AllTame => NeverNest
    BY DEF AllTame, Tame, NeverNest
  <1> QED BY <1>1, <1>2, <1>3, PTL DEF Spec

-----------------------------------------------------------------------------
\* What an agent of a client that streams is about, if the user's text has
\* nothing that would need an escape: a conversation is about that text and
\* gives it to its subagents, a subagent runs for a call of its conversation
\* that is still open, and is about the prompt of that call.
ParentOf(a) == <<a[1]>>

Faithful(a, r, p) ==
  /\ IsMain(a) =>
       /\ r.phase # "off" => r.text = setup.text
       /\ r.phase = "waits" => ~IsSubagentEchoRequest(r.text)
       /\ r.phase = "acts" /\ SpawnsAgent(r.tool) =>
            r.said \in Seq(Plain) /\ r.json = Prompt(r.said)
  /\ Len(a) = 2 /\ r.phase # "off" =>
       /\ p.phase = "acts" /\ a[2] \in p.open /\ SpawnsAgent(p.tool)
       /\ Decode(p.json).ok /\ r.text = Decode(p.json).text
       /\ r.phase = "done" => r.said = Reported(r.text)

AllFaithful ==
  /\ setup.streaming /\ EscapedWell(setup.text) =>
       \A a \in Agents : Faithful(a, agent[a], agent[ParentOf(a)])
  /\ ~setup.streaming => \A a \in Agents : agent[a].phase # "done"

\* A subagent's path is its conversation's and a number.
LEMMA SubPaths ==
  ASSUME NEW a \in Agents, Len(a) = 2
  PROVE  ParentOf(a) \in Agents /\ IsMain(ParentOf(a)) /\ a = Append(ParentOf(a), a[2])
         /\ ParentOf(a) # a
  <1> DEFINE X == 1..Max({s.subs : s \in Setups})
  <1>0. MaxDepth \in Nat \ {0}
    BY AgentAssumption
  <1>1. a \notin Mains
    BY DEF Mains
  <1>2. PICK c \in Convs, path \in Below : a = <<c>> \o path
    BY <1>1 DEF Agents
  <1>3. PICK d \in 1..(MaxDepth - 1) : path \in [1..d -> X]
    BY <1>2 DEF Below
  <1>4. d \in Nat \ {0}
    BY <1>0
  <1> DEFINE Y == X \union Convs
  <1> HIDE DEF X
  <1>5. path \in [1..d -> Y] /\ c \in Y
    BY <1>3
  <1> HIDE DEF Y
  <1>6. path \in Seq(Y) /\ Len(path) = d
    BY <1>4, <1>5
  <1>7. <<c>> \in Seq(Y) /\ Len(<<c>>) = 1 /\ <<c>>[1] = c
    BY <1>5
  <1>8. /\ a \in Seq(Y) /\ Len(a) = 1 + d
        /\ \A i \in 1..(1 + d) : a[i] = IF i <= 1 THEN c ELSE path[i - 1]
    <2>1. /\ a \in Seq(Y) /\ Len(a) = Len(<<c>>) + Len(path)
          /\ \A i \in 1..(Len(<<c>>) + Len(path)) :
               a[i] = IF i <= Len(<<c>>) THEN <<c>>[i] ELSE path[i - Len(<<c>>)]
      BY <1>2, <1>6, <1>7, ConcatProperties
    <2>2. \A i \in 1..(1 + d) : i <= 1 => i = 1
      OBVIOUS
    <2> QED BY <1>6, <1>7, <2>1, <2>2
  <1>9. d = 1
    <2>1. Len(a) = 1 + d
      BY <1>8
    <2> QED BY <1>4, <2>1
  <1>10. a[1] = c /\ a[2] = path[1]
    BY <1>8, <1>9
  <1>11. path = <<path[1]>>
    <2>1. path \in [1..1 -> Y]
      BY <1>5, <1>9
    <2> QED BY <2>1
  <1>12. a = Append(<<c>>, a[2])
    <2>1. a = <<c>> \o <<a[2]>>
      BY <1>2, <1>10, <1>11
    <2>2. a[2] \in Y
      BY <1>5, <1>9, <1>10
    <2> QED BY <1>7, <2>1, <2>2, AppendIsConcat
  <1>13. ParentOf(a) = <<c>> /\ Len(<<c>>) = 1
    BY <1>10 DEF ParentOf
  <1> QED BY <1>12, <1>13, Conversations

\* A conversation's path, with a number, is that of its subagent.
LEMMA MainSubs ==
  ASSUME NEW a \in Agents, IsMain(a), NEW i
  PROVE  /\ ParentOf(Append(a, i)) = a /\ Append(a, i)[2] = i /\ Len(Append(a, i)) = 2
         /\ ParentOf(a) = a
  <1>1. PICK c : a = <<c>>
    BY Paths
  <1>2. a \in Seq({c, i}) /\ Len(a) = 1 /\ a[1] = c
    BY <1>1
  <1> DEFINE s == Append(a, i)
  <1>3. s \in Seq({c, i}) /\ Len(s) = 2 /\ s[1] = c /\ s[2] = i
    <2> DEFINE S == {c, i}
    <2>0. a \in Seq(S) /\ i \in S
      BY <1>2
    <2> HIDE DEF S
    <2>1. /\ s \in Seq(S) /\ Len(s) = Len(a) + 1 /\ s[Len(a) + 1] = i
          /\ \A k \in 1..Len(a) : s[k] = a[k]
      BY ONLY <2>0, AppendProperties DEF s
    <2> USE DEF S
    <2> HIDE DEF s
    <2> QED BY <1>2, <2>1
  <1> HIDE DEF s
  <1> QED BY <1>1, <1>2, <1>3 DEF ParentOf, s

\* The calls that subagents run for stay as they are.
KeepsCalls(b) ==
  \A a \in Agents :
    Len(a) = 2 /\ ParentOf(a) = b /\ agent[a].phase # "off" =>
      /\ agent'[b].phase = "acts" /\ a[2] \in agent'[b].open
      /\ agent'[b].tool = agent[b].tool /\ agent'[b].json = agent[b].json

\* It is enough to look at the agent that a step changes, and at its calls.
LEMMA OneFaithful ==
  ASSUME AllFaithful, UNCHANGED setup, setup.streaming, EscapedWell(setup.text), NEW b,
         \A a \in Agents : a # b => agent'[a] = agent[a],
         b \in Agents => Faithful(b, agent[b], agent[ParentOf(b)])', KeepsCalls(b)
  PROVE  AllFaithful'
  <1>1. ASSUME NEW a \in Agents PROVE Faithful(a, agent[a], agent[ParentOf(a)])'
    <2>1. Faithful(a, agent[a], agent[ParentOf(a)])
      BY DEF AllFaithful
    <2>2. CASE a = b
      BY <1>1, <2>2
    <2>3. CASE a # b
      <3>1. agent'[a] = agent[a]
        BY <1>1, <2>3
      <3>2. CASE Len(a) = 2 /\ agent[a].phase # "off" /\ ParentOf(a) = b
        <4>1. /\ agent'[b].phase = "acts" /\ a[2] \in agent'[b].open
              /\ agent'[b].tool = agent[b].tool /\ agent'[b].json = agent[b].json
          BY <1>1, <3>2 DEF KeepsCalls
        <4> QED BY <2>1, <3>1, <3>2, <4>1 DEF Faithful
      <3>3. CASE Len(a) = 2 /\ agent[a].phase # "off" /\ ParentOf(a) # b
        <4>1. agent'[ParentOf(a)] = agent[ParentOf(a)]
          BY <3>3, SubPaths
        <4> QED BY <2>1, <3>1, <4>1 DEF Faithful
      <3>4. CASE ~(Len(a) = 2 /\ agent[a].phase # "off")
        BY <2>1, <3>1, <3>4 DEF Faithful
      <3> QED BY <3>2, <3>3, <3>4
    <2> QED BY <2>2, <2>3
  <1> QED BY <1>1 DEF AllFaithful

\* Subagents run only while their conversation acts.
LEMMA NoCalls ==
  ASSUME AllFaithful, setup.streaming, EscapedWell(setup.text), NEW b,
         agent[b].phase # "acts" \/ agent[b].open = {}
  PROVE  KeepsCalls(b)
  BY DEF AllFaithful, Faithful, KeepsCalls

\* The server's steps keep the agents faithful.
LEMMA ServeFaithful ==
  ASSUME Typed, AllTame, AllFaithful, NEW a \in Agents, Serve(a),
         setup.streaming, EscapedWell(setup.text)
  PROVE  AllFaithful'
  <1>0. /\ agent \in [Agents -> AgentRecord] /\ agent[a] \in AgentRecord
        /\ agent[a].text \in Seq(Characters)
    BY DEF Typed, AgentRecord
  <1>1. UNCHANGED setup
    BY DEF Serve, AnswerAtOnce, LoadClock, Round, ShellEcho, Report
  <1>2. Faithful(a, agent[a], agent[ParentOf(a)]) /\ Tame(a, agent[a])
    BY DEF AllFaithful, AllTame
  <1>3. ASSUME NEW r, agent'[a] = r, \A b \in Agents : b # a => agent'[b] = agent[b],
               agent[a].phase # "acts", agent[a].phase # "off", r.text = agent[a].text,
               r.phase = "done" => r.said = Reported(r.text),
               r.phase = "waits" => ~IsSubagentEchoRequest(r.text),
               r.phase = "acts" /\ SpawnsAgent(r.tool) /\ IsMain(a) =>
                 r.said \in Seq(Plain) /\ r.json = Prompt(r.said)
        PROVE  AllFaithful'
    <2>1. KeepsCalls(a)
      BY <1>3, NoCalls
    <2>2. Faithful(a, agent[a], agent[ParentOf(a)])'
      <3>1. CASE IsMain(a)
        <4>1. Len(a) # 2
          BY <3>1 DEF IsMain
        <4>2. agent[a].text = setup.text
          BY <1>2, <1>3, <3>1 DEF Faithful
        <4> QED BY <1>1, <1>3, <3>1, <4>1, <4>2 DEF Faithful
      <3>2. CASE Len(a) = 2
        <4>1. ~IsMain(a)
          BY <3>2 DEF IsMain
        <4>2. agent'[ParentOf(a)] = agent[ParentOf(a)]
          BY <1>3, <3>2, SubPaths
        <4>3. LET p == agent[ParentOf(a)]
              IN /\ p.phase = "acts" /\ a[2] \in p.open /\ SpawnsAgent(p.tool)
                 /\ Decode(p.json).ok /\ agent[a].text = Decode(p.json).text
          BY <1>2, <1>3, <3>2 DEF Faithful
        <4> QED BY <1>3, <4>1, <4>2, <4>3 DEF Faithful
      <3>3. CASE ~IsMain(a) /\ Len(a) # 2
        BY <3>3 DEF Faithful
      <3> QED BY <3>1, <3>2, <3>3
    <2> QED BY <1>1, <1>3, <2>1, <2>2, OneFaithful
  <1>4. CASE AnswerAtOnce(a)
    BY <1>4 DEF AnswerAtOnce
  <1>5. CASE LoadClock(a)
    <2>1. PICK wake : agent' = [agent EXCEPT ![a].phase = "waits", ![a].wake = wake]
      BY <1>5 DEF LoadClock
    <2>2. \A b \in Agents : b # a => agent'[b] = agent[b]
      BY <1>0, <2>1
    <2>3. agent'[a].phase = "waits" /\ agent'[a].text = agent[a].text
      BY <1>0, <2>1 DEF AgentRecord
    <2>4. agent[a].phase = "asks" /\ ~IsSubagentEchoRequest(agent[a].text)
      BY <1>5 DEF LoadClock, Asks
    <2> QED BY <1>3, <2>2, <2>3, <2>4
  <1>6. CASE Round(a)
    <2> DEFINE block == Block(agent[a].text)
    <2>1. Answered(a, Calls, CallTool(ToolsOf(a)), block, Prompt(block))
      BY <1>6 DEF Round, AnsweredRound
    <2>2. agent[a].phase = "waits"
      BY <1>6 DEF Round
    <2>3. IsMain(a) => block \in Seq(Plain)
      <3> SUFFICES ASSUME IsMain(a) PROVE block \in Seq(Plain)
        OBVIOUS
      <3> DEFINE text == agent[a].text
      <3>1. text = setup.text /\ ~IsSubagentEchoRequest(text)
        BY <1>2, <2>2 DEF Faithful
      <3>2. \A i \in 1..Len(text) : text[i] \in Characters /\ text[i] # "ask"
        BY <1>0, <3>1, ElementOfSeq DEF IsSubagentEchoRequest, Contains
      <3>3. /\ DOMAIN text = 1..Len(text) /\ Len(text) \in Nat
            /\ text = [i \in 1..Len(text) |-> text[i]]
        BY <1>0, LenProperties
      <3>4. \A i \in 1..Len(text) : text[i] # "back" /\ text[i] # "tab"
        BY <3>1, <3>3 DEF EscapedWell
      <3>5. \A i \in 1..Len(text) : text[i] \in Plain
        BY <3>2, <3>4 DEF Plain
      <3>6. text \in Seq(Plain)
        <4> HIDE DEF text
        <4> QED BY <3>3, <3>5
      <3>7. "a" \in Plain /\ Plain \in SUBSET Characters
        BY DEF Plain, Characters
      <3> QED BY <3>6, <3>7, BlockType DEF Typed
    <2> HIDE DEF block
    <2>4. \A b \in Agents : b # a => agent'[b] = agent[b]
      BY <1>0, <2>1 DEF Answered
    <2>5. /\ agent'[a].phase = "acts" /\ agent'[a].json = Prompt(block)
          /\ agent'[a].said = block /\ agent'[a].text = agent[a].text
      BY <1>0, <2>1 DEF Answered, AgentRecord
    <2> QED BY <1>3, <2>2, <2>3, <2>4, <2>5
  <1>7. CASE ShellEcho(a)
    <2> DEFINE tool == PickShellTool(ToolsOf(a))
    <2>1. Answered(a, {1}, tool, <<>>, <<>>)
      BY <1>7 DEF ShellEcho
    <2>2. ~SpawnsAgent(tool)
      BY SetupType, ShellStartsNone DEF Typed
    <2> HIDE DEF tool
    <2>3. \A b \in Agents : b # a => agent'[b] = agent[b]
      BY <1>0, <2>1 DEF Answered
    <2>4. agent'[a].phase = "acts" /\ agent'[a].tool = tool /\ agent'[a].text = agent[a].text
      BY <1>0, <2>1 DEF Answered, AgentRecord
    <2>5. agent[a].phase = "asks"
      BY <1>7 DEF ShellEcho, Asks
    <2> QED BY <1>3, <2>2, <2>3, <2>4, <2>5
  <1>8. CASE Report(a)
    <2> DEFINE said == Reported(agent[a].text)
    <2>1. agent' = [agent EXCEPT ![a].phase = "done", ![a].said = said]
      BY <1>8 DEF Report, Reported
    <2> HIDE DEF said
    <2>2. \A b \in Agents : b # a => agent'[b] = agent[b]
      BY <1>0, <2>1
    <2>3. /\ agent'[a].phase = "done" /\ agent'[a].said = said /\ agent'[a].text = agent[a].text
      BY <1>0, <2>1 DEF AgentRecord
    <2>4. agent[a].phase = "asks"
      BY <1>8 DEF Report, Asks
    <2> QED BY <1>3, <2>2, <2>3, <2>4 DEF said
  <1> QED BY <1>4, <1>5, <1>6, <1>7, <1>8 DEF Serve

\* And so do the client's.
LEMMA WorkFaithful ==
  ASSUME Typed, AllTame, AllFaithful, NEW a \in Agents, Work(a),
         setup.streaming, EscapedWell(setup.text)
  PROVE  AllFaithful'
  <1>0. agent \in [Agents -> AgentRecord] /\ agent[a] \in AgentRecord
    BY DEF Typed
  <1>1. UNCHANGED setup
    BY DEF Work, AskAgain, RunTool, Spawn, SubReturns
  <1>2. Faithful(a, agent[a], agent[ParentOf(a)]) /\ Tame(a, agent[a])
    BY DEF AllFaithful, AllTame
  <1>3. ASSUME agent[a].phase = "acts", SpawnsAgent(agent[a].tool) PROVE IsMain(a)
    <2> DEFINE n == Len(a)
    <2>1. n # 2 /\ ~(n > 2)
      BY <1>2, <1>3 DEF Tame
    <2>2. n \in Nat \ {0}
      BY Paths
    <2> HIDE DEF n
    <2>3. n = 1
      BY <2>1, <2>2
    <2> QED BY <2>3 DEF IsMain, n
  <1>4. CASE AskAgain(a)
    <2>1. \A b \in Agents : b # a => agent'[b] = agent[b]
      BY <1>0, <1>4 DEF AskAgain
    <2>2. agent'[a].phase = "asks" /\ agent'[a].text = agent[a].text
      BY <1>0, <1>4 DEF AskAgain, AgentRecord
    <2>3. agent[a].phase = "acts" /\ agent[a].open = {}
      BY <1>4 DEF AskAgain
    <2>4. KeepsCalls(a)
      BY <2>3, NoCalls
    <2>5. Faithful(a, agent[a], agent[ParentOf(a)])'
      <3>1. CASE Len(a) = 2
        <4>1. agent'[ParentOf(a)] = agent[ParentOf(a)] /\ ~IsMain(a)
          BY <2>1, <3>1, SubPaths DEF IsMain
        <4> QED BY <1>2, <2>2, <2>3, <4>1 DEF Faithful
      <3>2. CASE Len(a) # 2
        BY <1>1, <1>2, <2>2, <2>3, <3>2 DEF Faithful
      <3> QED BY <3>1, <3>2
    <2> QED BY <1>1, <2>1, <2>4, <2>5, OneFaithful
  <1>5. ASSUME NEW i \in Calls, RunTool(a, i) PROVE AllFaithful'
    <2>1. \A b \in Agents : b # a => agent'[b] = agent[b]
      BY <1>0, <1>5 DEF RunTool, Returned
    <2>2. /\ agent'[a].phase = agent[a].phase /\ agent'[a].text = agent[a].text
          /\ agent'[a].tool = agent[a].tool /\ agent'[a].json = agent[a].json
          /\ agent'[a].said = agent[a].said /\ agent'[a].open = agent[a].open \ {i}
      BY <1>0, <1>5 DEF RunTool, Returned, AgentRecord
    <2>3. ~SpawnsAgent(agent[a].tool) \/ ~Decode(agent[a].json).ok
      BY <1>5 DEF RunTool
    <2>4. KeepsCalls(a)
      BY <2>3 DEF AllFaithful, Faithful, KeepsCalls
    <2>5. Faithful(a, agent[a], agent[ParentOf(a)])'
      <3>1. CASE Len(a) = 2
        <4>1. agent'[ParentOf(a)] = agent[ParentOf(a)] /\ ~IsMain(a)
          BY <2>1, <3>1, SubPaths DEF IsMain
        <4> QED BY <1>2, <2>2, <4>1 DEF Faithful
      <3>2. CASE Len(a) # 2
        BY <1>1, <1>2, <2>2, <3>2 DEF Faithful
      <3> QED BY <3>1, <3>2
    <2> QED BY <1>1, <2>1, <2>4, <2>5, OneFaithful
  <1>6. ASSUME NEW i \in Calls, Spawn(a, i) PROVE AllFaithful'
    <2> DEFINE sub == Append(a, i)
               text == Decode(agent[a].json).text
    <2>1. /\ agent[a].phase = "acts" /\ i \in agent[a].open /\ SpawnsAgent(agent[a].tool)
          /\ Decode(agent[a].json).ok
      BY <1>6 DEF Spawn, Acts
    <2>2. IsMain(a) /\ ParentOf(sub) = a /\ sub[2] = i /\ Len(sub) = 2 /\ ParentOf(a) = a
      BY <1>3, <2>1, MainSubs
    <2>3. agent' = [agent EXCEPT ![sub] = Started(text)]
      BY <1>6 DEF Spawn
    <2> HIDE DEF sub, text
    <2>4. Len(a) = 1 /\ sub # a
      BY <2>2 DEF IsMain
    <2>5. \A b \in Agents : b # sub => agent'[b] = agent[b]
      BY <1>0, <2>3
    <2>6. ~IsMain(sub)
      BY <2>2 DEF IsMain
    <2>7. KeepsCalls(sub)
      <3>1. ASSUME NEW b \in Agents, Len(b) = 2, ParentOf(b) = sub PROVE FALSE
        <4>1. IsMain(ParentOf(b))
          BY <3>1, SubPaths
        <4> QED BY <2>6, <3>1, <4>1
      <3> QED BY <3>1 DEF KeepsCalls
    <2>8. sub \in Agents => Faithful(sub, agent[sub], agent[ParentOf(sub)])'
      <3> SUFFICES ASSUME sub \in Agents PROVE Faithful(sub, agent[sub], agent[ParentOf(sub)])'
        OBVIOUS
      <3>1. agent'[sub].phase = "asks" /\ agent'[sub].text = text
        BY <1>0, <2>3 DEF Started, NoAgent
      <3>2. agent'[a] = agent[a]
        BY <2>4, <2>5
      <3> QED BY <2>1, <2>2, <2>6, <3>1, <3>2 DEF Faithful, text
    <2> QED BY <1>1, <2>5, <2>7, <2>8, OneFaithful
  <1>7. ASSUME NEW i \in Calls, SubReturns(a, i) PROVE AllFaithful'
    <2> DEFINE sub == Append(a, i)
    <2>1. /\ sub \in Agents /\ agent[sub].phase = "done" /\ agent[a].phase = "acts"
          /\ i \in agent[a].open /\ agent' = [Returned(a, i) EXCEPT ![sub] = NoAgent]
      BY <1>7 DEF SubReturns, Acts
    <2>2. Len(sub) = Len(a) + 1 /\ Len(a) \in Nat \ {0}
      BY Paths
    <2>3. IsMain(a)
      <3>1. ~(Len(sub) > 2)
        BY <2>1 DEF AllTame, Tame
      <3> HIDE DEF sub
      <3> DEFINE n == Len(a)
                 m == Len(sub)
      <3>2. m = n + 1 /\ n \in Nat \ {0} /\ ~(m > 2)
        BY <2>2, <3>1
      <3> HIDE DEF n, m
      <3>3. n = 1
        BY <3>2
      <3> QED BY <3>3 DEF IsMain, n
    <2>4. ParentOf(sub) = a /\ sub[2] = i /\ Len(sub) = 2 /\ ParentOf(a) = a
      BY <2>3, MainSubs
    <2> HIDE DEF sub
    <2>5. Len(a) = 1 /\ sub # a
      BY <2>3, <2>4 DEF IsMain
    <2>6. \A b \in Agents : b # sub /\ b # a => agent'[b] = agent[b]
      BY <1>0, <2>1 DEF Returned
    <2>7. agent'[sub].phase = "off"
      BY <1>0, <2>1 DEF Returned, NoAgent
    <2>8. /\ agent'[a].phase = agent[a].phase /\ agent'[a].text = agent[a].text
          /\ agent'[a].tool = agent[a].tool /\ agent'[a].json = agent[a].json
          /\ agent'[a].said = agent[a].said /\ agent'[a].open = agent[a].open \ {i}
      BY <1>0, <2>1, <2>5 DEF Returned, AgentRecord
    <2>9. ASSUME NEW b \in Agents PROVE Faithful(b, agent[b], agent[ParentOf(b)])'
      <3>0. Faithful(b, agent[b], agent[ParentOf(b)])
        BY DEF AllFaithful
      <3>1. CASE b = sub
        <4>1. ~IsMain(sub)
          BY <2>4 DEF IsMain
        <4> QED BY <2>7, <3>1, <4>1 DEF Faithful
      <3>2. CASE b = a
        BY <1>1, <2>5, <2>8, <3>0, <3>2 DEF Faithful
      <3>3. CASE b # sub /\ b # a /\ Len(b) = 2
        <4>1. agent'[b] = agent[b] /\ ~IsMain(b)
          BY <2>6, <2>9, <3>3 DEF IsMain
        <4>2. IsMain(ParentOf(b)) /\ b = Append(ParentOf(b), b[2]) /\ ParentOf(b) \in Agents
          BY <3>3, SubPaths
        <4>3. CASE ParentOf(b) = a
          <5>1. b[2] # i
            BY <3>3, <4>2, <4>3 DEF sub
          <5> QED BY <2>8, <3>0, <4>1, <4>3, <5>1 DEF Faithful
        <4>4. CASE ParentOf(b) # a
          <5>1. ParentOf(b) # sub
            <6>1. Len(ParentOf(b)) = 1 /\ Len(sub) = 2
              BY <2>4, <4>2 DEF IsMain
            <6> QED BY <6>1
          <5>2. agent'[ParentOf(b)] = agent[ParentOf(b)]
            BY <2>6, <4>2, <4>4, <5>1
          <5> QED BY <3>0, <4>1, <5>2 DEF Faithful
        <4> QED BY <4>3, <4>4
      <3>4. CASE b # sub /\ b # a /\ Len(b) # 2
        <4>1. agent'[b] = agent[b]
          BY <2>6, <2>9, <3>4
        <4> QED BY <1>1, <3>0, <3>4, <4>1 DEF Faithful
      <3> QED BY <3>1, <3>2, <3>3, <3>4
    <2> QED BY <1>1, <2>9 DEF AllFaithful
  <1> QED BY <1>4, <1>5, <1>6, <1>7 DEF Work

\* Who does not stream is never done.
LEMMA NeverDone ==
  ASSUME Typed, AllFaithful, ~setup.streaming, [Next]_vars
  PROVE  \A a \in Agents : agent'[a].phase # "done"
  <1>0. agent \in [Agents -> AgentRecord] /\ \A a \in Agents : agent[a] \in AgentRecord
    BY DEF Typed
  <1>1. \A a \in Agents : agent[a].phase # "done"
    BY DEF AllFaithful
  <1>2. ASSUME NEW c \in Convs, Begin(c), NEW b \in Agents PROVE agent'[b].phase # "done"
    BY <1>0, <1>1, <1>2 DEF Begin, Started, NoAgent
  <1>3. ASSUME NEW a \in Agents, Serve(a), NEW b \in Agents PROVE agent'[b].phase # "done"
    <2>1. CASE AnswerAtOnce(a)
      <3>1. PICK calls, tool, said, json : Answered(a, calls, tool, said, json)
        BY <2>1 DEF AnswerAtOnce, AnsweredRound
      <3> QED BY <1>0, <1>1, <1>3, <3>1 DEF Answered, AgentRecord
    <2>2. CASE Round(a)
      <3>1. PICK calls, tool, said, json : Answered(a, calls, tool, said, json)
        BY <2>2 DEF Round, AnsweredRound
      <3> QED BY <1>0, <1>1, <1>3, <3>1 DEF Answered, AgentRecord
    <2>3. ~LoadClock(a) /\ ~ShellEcho(a) /\ ~Report(a)
      BY DEF LoadClock, ShellEcho, Report
    <2> QED BY <1>3, <2>1, <2>2, <2>3 DEF Serve
  <1>4. ASSUME NEW a \in Agents, Work(a), NEW b \in Agents PROVE agent'[b].phase # "done"
    <2>1. CASE AskAgain(a)
      BY <1>0, <1>1, <1>4, <2>1 DEF AskAgain, AgentRecord
    <2>2. ASSUME NEW i \in Calls, RunTool(a, i) PROVE agent'[b].phase # "done"
      BY <1>0, <1>1, <1>4, <2>2 DEF RunTool, Returned, AgentRecord
    <2>3. ASSUME NEW i \in Calls, Spawn(a, i) PROVE agent'[b].phase # "done"
      BY <1>0, <1>1, <1>4, <2>3 DEF Spawn, Started, NoAgent
    <2>4. ASSUME NEW i \in Calls, SubReturns(a, i) PROVE agent'[b].phase # "done"
      BY <1>0, <1>1, <1>4, <2>4 DEF SubReturns, Returned, NoAgent, AgentRecord
    <2> QED BY <1>4, <2>1, <2>2, <2>3, <2>4 DEF Work
  <1>5. CASE Tick \/ UNCHANGED vars
    BY <1>1, <1>5 DEF Tick, vars
  <1> QED BY <1>2, <1>3, <1>4, <1>5 DEF Next

\* Every step keeps the agents faithful.
LEMMA FaithfulStep == ASSUME Typed, AllTame, AllFaithful, [Next]_vars PROVE AllFaithful'
  <1>1. UNCHANGED setup
    BY DEF Next, Begin, Serve, AnswerAtOnce, LoadClock, Round, ShellEcho, Report, Work, AskAgain,
           RunTool, Spawn, SubReturns, Tick, vars
  <1>2. CASE ~setup.streaming
    BY <1>1, <1>2, NeverDone DEF AllFaithful
  <1>3. CASE setup.streaming /\ ~EscapedWell(setup.text)
    BY <1>1, <1>3 DEF AllFaithful
  <1>4. CASE setup.streaming /\ EscapedWell(setup.text)
    <2>1. ASSUME NEW c \in Convs, Begin(c) PROVE AllFaithful'
      <3> DEFINE b == <<c>>
      <3>1. b \in Agents /\ IsMain(b) /\ Len(b) # 2
        BY Conversations
      <3>2. /\ agent[b].phase = "off" /\ agent' = [agent EXCEPT ![b] = Started(setup.text)]
        BY <2>1 DEF Begin
      <3> HIDE DEF b
      <3>3. \A a \in Agents : a # b => agent'[a] = agent[a]
        BY <3>2 DEF Typed
      <3>4. agent'[b].phase = "asks" /\ agent'[b].text = setup.text
        BY <3>1, <3>2 DEF Typed, Started, NoAgent
      <3>5. Faithful(b, agent[b], agent[ParentOf(b)])'
        BY <1>1, <3>1, <3>4 DEF Faithful
      <3>6. KeepsCalls(b)
        BY <1>4, <3>2, NoCalls
      <3> QED BY <1>1, <1>4, <3>3, <3>5, <3>6, OneFaithful
    <2>2. CASE Tick \/ UNCHANGED vars
      BY <1>1, <2>2 DEF Tick, vars, AllFaithful, Faithful
    <2> QED BY <1>4, <2>1, <2>2, ServeFaithful, WorkFaithful DEF Next
  <1> QED BY <1>2, <1>3, <1>4

(***************************************************************************)
(* What a subagent reports is the text of its round, new lines apart, for  *)
(* every text without backslashes and control characters, of any length,   *)
(* repeated into a block or not: escaping in the call, reading it as JSON, *)
(* finding the payload and taking out what is left of the escapes cancel   *)
(* (BuildAgentEchoCall, ExtractEchoPayload, runSubagentEcho).              *)
(***************************************************************************)
THEOREM EchoesReturn == Spec => []EchoedBack
  <1>1. Init => Typed /\ AllTame /\ AllFaithful
    <2>1. ASSUME Init PROVE AllTame /\ AllFaithful
      <3>1. \A a \in Agents : agent[a].phase = "off"
        BY <2>1 DEF Init, NoAgent
      <3>2. \A a \in Agents : Tame(a, agent[a])
        BY <3>1, IdleTame
      <3>3. \A a \in Agents : Faithful(a, agent[a], agent[ParentOf(a)])
        BY <3>1 DEF Faithful
      <3> QED BY <3>1, <3>2, <3>3 DEF AllTame, AllFaithful
    <2> QED BY <2>1, TypedInit
  <1>2. Typed /\ AllTame /\ AllFaithful /\ [Next]_vars => Typed' /\ AllTame' /\ AllFaithful'
    BY TypedStep, TameStep, FaithfulStep
  <1>3. AllFaithful => EchoedBack
    <2> SUFFICES ASSUME AllFaithful, NEW a \in Agents, Len(a) = 2, agent[a].phase = "done",
                        EscapedWell(setup.text)
                 PROVE  LET round == agent[<<a[1]>>].said
                        IN agent[a].said = IF AllBlank(round) THEN Hello ELSE Flat(round)
      BY DEF EchoedBack
    <2> DEFINE p == ParentOf(a)
    <2>1. setup.streaming
      BY DEF AllFaithful
    <2>2. /\ agent[p].phase = "acts" /\ SpawnsAgent(agent[p].tool)
          /\ agent[a].said = Reported(Decode(agent[p].json).text)
      BY <2>1 DEF AllFaithful, Faithful
    <2>3. p \in Agents /\ IsMain(p)
      BY SubPaths
    <2> HIDE DEF p
    <2>4. agent[p].said \in Seq(Plain) /\ agent[p].json = Prompt(agent[p].said)
      BY <2>1, <2>2, <2>3 DEF AllFaithful, Faithful
    <2>5. agent[a].said = IF AllBlank(agent[p].said) THEN Hello ELSE Flat(agent[p].said)
      BY <2>2, <2>4, RoundTrip
    <2> QED BY <2>5 DEF p, ParentOf
  <1> QED BY <1>1, <1>2, <1>3, PTL DEF Spec

-----------------------------------------------------------------------------
\* What a conversation is about: the user's text and, as long as its calls are
\* run, the block made of it, or nothing after a shell's call.
About(r) ==
  /\ r.phase # "off" => r.text = setup.text
  /\ r.phase = "acts" => r.said \in {<<>>, Block(setup.text)}

MainsAbout == \A c \in Convs : About(agent[<<c>>])

\* It is enough to look at the one that a step changes.
LEMMA OneAbout ==
  ASSUME MainsAbout, UNCHANGED setup, NEW b, \A a \in Agents : a # b => agent'[a] = agent[a],
         b \in Agents /\ IsMain(b) => About(agent[b])'
  PROVE  MainsAbout'
  <1> SUFFICES ASSUME NEW c \in Convs PROVE About(agent[<<c>>])'
    BY DEF MainsAbout
  <1>1. <<c>> \in Agents /\ IsMain(<<c>>) /\ About(agent[<<c>>])
    BY Conversations DEF MainsAbout
  <1>2. CASE <<c>> = b
    BY <1>1, <1>2 DEF About
  <1>3. CASE <<c>> # b
    <2>1. agent'[<<c>>] = agent[<<c>>]
      BY <1>1, <1>3
    <2>2. Block(setup.text)' = Block(setup.text)
      BY DEF Block
    <2> QED BY <1>1, <2>1, <2>2 DEF About
  <1> QED BY <1>2, <1>3

\* Every step keeps it.
LEMMA AboutStep == ASSUME Typed, MainsAbout, [Next]_vars PROVE MainsAbout'
  <1>0. agent \in [Agents -> AgentRecord] /\ \A a \in Agents : agent[a] \in AgentRecord
    BY DEF Typed
  <1>1. UNCHANGED setup
    BY DEF Next, Begin, Serve, AnswerAtOnce, LoadClock, Round, ShellEcho, Report, Work, AskAgain,
           RunTool, Spawn, SubReturns, Tick, vars
  <1>2. ASSUME NEW a \in Agents, IsMain(a) PROVE About(agent[a])
    BY <1>2, Paths DEF MainsAbout
  <1>3. ASSUME NEW c \in Convs, Begin(c) PROVE MainsAbout'
    <2> DEFINE b == <<c>>
    <2>1. b \in Agents
      BY Conversations
    <2>2. agent' = [agent EXCEPT ![b] = Started(setup.text)]
      BY <1>3 DEF Begin
    <2> HIDE DEF b
    <2>3. \A a \in Agents : a # b => agent'[a] = agent[a]
      BY <1>0, <2>2
    <2>4. agent'[b].phase = "asks" /\ agent'[b].text = setup.text
      BY <1>0, <2>1, <2>2 DEF Started, NoAgent
    <2>5. About(agent[b])'
      BY <1>1, <2>4 DEF About
    <2> QED BY <1>1, <2>3, <2>5, OneAbout
  <1>4. ASSUME NEW a \in Agents, NEW r, agent'[a] = r, \A b \in Agents : b # a => agent'[b] = agent[b],
               agent[a].phase # "off", r.text = agent[a].text,
               r.phase = "acts" => \/ r.said \in {<<>>, Block(agent[a].text)}
                                   \/ agent[a].phase = "acts" /\ r.said = agent[a].said
        PROVE  MainsAbout'
    <2>1. IsMain(a) => About(agent[a])'
      <3> SUFFICES ASSUME IsMain(a) PROVE About(agent[a])'
        OBVIOUS
      <3>1. agent[a].text = setup.text /\ About(agent[a])
        BY <1>2, <1>4 DEF About
      <3>2. r.phase = "acts" => r.said \in {<<>>, Block(setup.text)}
        BY <1>4, <3>1 DEF About
      <3>3. Block(setup.text)' = Block(setup.text)
        BY <1>1 DEF Block
      <3> QED BY <1>1, <1>4, <3>1, <3>2, <3>3 DEF About
    <2> QED BY <1>1, <1>4, <2>1, OneAbout
  <1>5. ASSUME NEW a \in Agents, Serve(a) PROVE MainsAbout'
    <2>1. ASSUME NEW calls, NEW tool, NEW said, NEW json, Answered(a, calls, tool, said, json),
                 said \in {<<>>, Block(agent[a].text)}, agent[a].phase # "off"
          PROVE  MainsAbout'
      <3>1. \A b \in Agents : b # a => agent'[b] = agent[b]
        BY <1>0, <2>1 DEF Answered
      <3>2. agent'[a].text = agent[a].text /\ agent'[a].said = said
        BY <1>0, <2>1 DEF Answered, AgentRecord
      <3> QED BY <1>4, <2>1, <3>1, <3>2
    <2>2. CASE AnswerAtOnce(a) \/ Round(a)
      <3>1. agent[a].phase # "off" /\ AnsweredRound(a)
        BY <2>2 DEF AnswerAtOnce, Round, Asks
      <3>2. Answered(a, Calls, CallTool(ToolsOf(a)), Block(agent[a].text), Prompt(Block(agent[a].text)))
        BY <3>1 DEF AnsweredRound
      <3> QED BY <2>1, <3>1, <3>2
    <2>3. CASE LoadClock(a)
      <3>1. PICK wake : agent' = [agent EXCEPT ![a].phase = "waits", ![a].wake = wake]
        BY <2>3 DEF LoadClock
      <3>2. \A b \in Agents : b # a => agent'[b] = agent[b]
        BY <1>0, <3>1
      <3>3. agent'[a].phase = "waits" /\ agent'[a].text = agent[a].text
        BY <1>0, <3>1 DEF AgentRecord
      <3>4. agent[a].phase # "off"
        BY <2>3 DEF LoadClock, Asks
      <3> QED BY <1>4, <3>2, <3>3, <3>4
    <2>4. CASE ShellEcho(a)
      <3>1. agent[a].phase # "off" /\ Answered(a, {1}, PickShellTool(ToolsOf(a)), <<>>, <<>>)
        BY <2>4 DEF ShellEcho, Asks
      <3> QED BY <2>1, <3>1
    <2>5. CASE Report(a)
      <3>1. PICK said : agent' = [agent EXCEPT ![a].phase = "done", ![a].said = said]
        BY <2>5 DEF Report
      <3>2. \A b \in Agents : b # a => agent'[b] = agent[b]
        BY <1>0, <3>1
      <3>3. agent'[a].phase = "done" /\ agent'[a].text = agent[a].text
        BY <1>0, <3>1 DEF AgentRecord
      <3>4. agent[a].phase # "off"
        BY <2>5 DEF Report, Asks
      <3> QED BY <1>4, <3>2, <3>3, <3>4
    <2> QED BY <1>5, <2>2, <2>3, <2>4, <2>5 DEF Serve
  <1>6. ASSUME NEW a \in Agents, Work(a) PROVE MainsAbout'
    <2>1. CASE AskAgain(a)
      <3>1. \A b \in Agents : b # a => agent'[b] = agent[b]
        BY <1>0, <2>1 DEF AskAgain
      <3>2. agent'[a].phase = "asks" /\ agent'[a].text = agent[a].text
        BY <1>0, <2>1 DEF AskAgain, AgentRecord
      <3>3. agent[a].phase # "off"
        BY <2>1 DEF AskAgain
      <3> QED BY <1>4, <3>1, <3>2, <3>3
    <2>2. ASSUME NEW i \in Calls, RunTool(a, i) PROVE MainsAbout'
      <3>1. \A b \in Agents : b # a => agent'[b] = agent[b]
        BY <1>0, <2>2 DEF RunTool, Returned
      <3>2. agent'[a].said = agent[a].said /\ agent'[a].text = agent[a].text
        BY <1>0, <2>2 DEF RunTool, Returned, AgentRecord
      <3>3. agent[a].phase = "acts"
        BY <2>2 DEF RunTool, Acts
      <3> QED BY <1>4, <3>1, <3>2, <3>3
    <2>3. ASSUME NEW i \in Calls, Spawn(a, i) PROVE MainsAbout'
      <3> DEFINE sub == Append(a, i)
      <3>1. PICK r : agent' = [agent EXCEPT ![sub] = r]
        BY <2>3 DEF Spawn
      <3>2. ~IsMain(sub)
        <4> DEFINE n == Len(a)
        <4>1. Len(sub) = n + 1 /\ n \in Nat \ {0}
          BY Paths
        <4> HIDE DEF sub, n
        <4> QED BY <4>1 DEF IsMain
      <3> HIDE DEF sub
      <3>3. \A b \in Agents : b # sub => agent'[b] = agent[b]
        BY <1>0, <3>1
      <3> QED BY <1>1, <3>2, <3>3, OneAbout
    <2>4. ASSUME NEW i \in Calls, SubReturns(a, i) PROVE MainsAbout'
      <3> DEFINE sub == Append(a, i)
                 mid == Returned(a, i)
      <3>1. agent' = [mid EXCEPT ![sub] = NoAgent] /\ agent[a].phase = "acts"
        BY <2>4 DEF SubReturns, Acts
      <3>2. ~IsMain(sub)
        <4> DEFINE n == Len(a)
        <4>1. Len(sub) = n + 1 /\ n \in Nat \ {0}
          BY Paths
        <4> HIDE DEF sub, n
        <4> QED BY <4>1 DEF IsMain
      <3>3. /\ mid \in [Agents -> AgentRecord] /\ \A b \in Agents : b # a => mid[b] = agent[b]
            /\ mid[a].phase = agent[a].phase /\ mid[a].text = agent[a].text
            /\ mid[a].said = agent[a].said
        BY <1>0 DEF Returned, AgentRecord
      <3> HIDE DEF sub, mid
      <3>4. ASSUME NEW b \in Agents, IsMain(b) PROVE About(agent[b])'
        <4>1. agent'[b] = mid[b]
          BY <3>1, <3>2, <3>3, <3>4
        <4>2. /\ agent'[b].phase = agent[b].phase /\ agent'[b].text = agent[b].text
              /\ agent'[b].said = agent[b].said
          BY <3>3, <4>1
        <4>3. About(agent[b])
          BY <1>2, <3>4
        <4>4. Block(setup.text)' = Block(setup.text)
          BY <1>1 DEF Block
        <4> QED BY <1>1, <4>2, <4>3, <4>4 DEF About
      <3> QED BY <3>4, Conversations DEF MainsAbout
    <2> QED BY <1>6, <2>1, <2>2, <2>3, <2>4 DEF Work
  <1>7. CASE Tick \/ UNCHANGED vars
    BY <1>1, <1>7 DEF Tick, vars, MainsAbout, About, Block
  <1> QED BY <1>3, <1>5, <1>6, <1>7 DEF Next

(***************************************************************************)
(* The blocks of a round, without the words and the JSON that calls put    *)
(* around theirs, have no more than max_tokens tokens, for texts of any    *)
(* length and any limit that has room for the text itself as often: a text *)
(* repeated has at most as many tokens as its repetitions on their own,    *)
(* since countString joins runs at the seams (BuildInfiniteMaxText, the    *)
(* budget in runAgentEcho and handleChatNonStream).                        *)
(***************************************************************************)
THEOREM RoundsFit == Spec => []BlocksWithin
  <1>1. Init => Typed /\ MainsAbout
    <2> SUFFICES ASSUME Init PROVE MainsAbout
      BY TypedInit
    <2>1. \A a \in Agents : agent[a].phase = "off"
      BY DEF Init, NoAgent
    <2> QED BY <2>1, Conversations DEF MainsAbout, About
  <1>2. Typed /\ MainsAbout /\ [Next]_vars => Typed' /\ MainsAbout'
    BY TypedStep, AboutStep
  <1>3. Typed /\ MainsAbout => BlocksWithin
    <2> SUFFICES ASSUME Typed, MainsAbout, NEW c \in Convs,
                        agent[<<c>>].phase = "acts", agent[<<c>>].said # <<>>, setup.max,
                        setup.maxTokens >= (1 + setup.subs) * Count(Unit(setup.text))
                 PROVE  (1 + setup.subs) * Count(agent[<<c>>].said) <= setup.maxTokens
      BY DEF BlocksWithin
    <2>1. agent[<<c>>].said = Block(setup.text)
      BY DEF MainsAbout, About
    <2>2. Block(setup.text) =
            BuildInfiniteMaxText(setup.text,
              BlockTokens(Chunk, setup.maxTokens, setup.subs, setup.streaming))
      BY DEF Block
    <2>3. /\ setup.text \in Seq(Characters) /\ setup.maxTokens \in Nat
          /\ setup.subs \in Nat \ {0} /\ Chunk \in Nat \ {0}
      BY SetupType, AgentAssumption DEF Typed
    <2>4. (1 + setup.subs) * Count(Block(setup.text)) <= setup.maxTokens
      BY <2>2, <2>3, BlocksFit
    <2> QED BY <2>1, <2>4
  <1> QED BY <1>1, <1>2, <1>3, PTL DEF Spec

=============================================================================

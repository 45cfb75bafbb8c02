------------------------------- MODULE AgentLoop -------------------------------
(***************************************************************************)
(* Agents that work with EpicAI as their model, when the model has         *)
(* EnableAgent: conversations in which every answer is a round of tool     *)
(* calls, the subagents those calls start, which ask the same model, and   *)
(* the clock that spaces the rounds of all conversations with one text.    *)
(*                                                                         *)
(* One answer of the server is a step here, two when it waits for the      *)
(* clock: how it is streamed is in StreamRunner.  The client is the kind   *)
(* of agent the code names (opencode, codex): it runs the calls of an      *)
(* answer at the same time and asks again when all have returned.          *)
(***************************************************************************)
EXTENDS EchoText

CONSTANTS
  Setups,    \* what is tried: the user's text, the tools that agents and their
             \* subagents declare, whether they stream, the model's behaviour and
             \* SubagentCount, max_tokens (0 for none), and as bounds how many
             \* conversations there are and how many rounds they have together
  Chunk,     \* MaxTokenChunk
  Interval,  \* the echo interval in ticks, not 0
  MaxTime,   \* bound: ticks of the clock
  MaxDepth   \* bound: how deep subagents are followed, a conversation being 1

ASSUME AgentAssumption ==
  /\ \A s \in Setups :
       /\ {s.subs, s.convs, s.rounds} \subseteq Nat \ {0} /\ s.maxTokens \in Nat
       /\ {s.streaming, s.max} \subseteq BOOLEAN
       /\ s.text \in Seq(Characters)
       /\ {s.tools.main, s.tools.sub} \subseteq Seq(STRING) \ {<<>>}
  /\ {Chunk, Interval} \subseteq Nat \ {0} /\ MaxTime \in Nat /\ MaxDepth \in Nat \ {0}

VARIABLES
  setup,  \* the model, the user's text and how the client asks
  agent,  \* the agents: conversations and subagents, by path
  clock,  \* agentCycleClock for the model and the text, 0 if there is no entry
  now,    \* the time
  starts, \* history: when a conversation's rounds began
  rounds  \* rounds begun

vars == <<setup, agent, clock, now, starts, rounds>>

Convs == 1..Max({s.convs : s \in Setups})
Calls == 1..setup.subs
\* A subagent's path is its parent's and the number of the call.
Mains == {<<c>> : c \in Convs}
Subs == {<<c, i>> : c \in Convs, i \in 1..Max({s.subs : s \in Setups})}
Below == UNION {[1..d -> 1..Max({s.subs : s \in Setups})] : d \in 1..(MaxDepth - 1)}
Agents == Mains \union UNION {{<<c>> \o path : path \in Below} : c \in Convs}
IsMain(a) == Len(a) = 1

NoAgent ==
  [phase |-> "off", text |-> <<>>, told |-> FALSE, open |-> {}, tool |-> "", wake |-> 0,
   said |-> <<>>, json |-> <<>>]

Init ==
  /\ setup \in Setups
  /\ agent = [a \in Agents |-> NoAgent]
  /\ clock = 0 /\ now = 1 /\ starts = [c \in Convs |-> <<>>] /\ rounds = 0

-----------------------------------------------------------------------------
(***************************************************************************)
(* The server.                                                             *)
(***************************************************************************)
Asks(a) == agent[a].phase = "asks"
ToolsOf(a) == IF IsMain(a) THEN setup.tools.main ELSE setup.tools.sub

\* The text of a round, which its calls carry too.
Block(text) ==
  IF setup.max
  THEN BuildInfiniteMaxText(text, BlockTokens(Chunk, setup.maxTokens, setup.subs, setup.streaming))
  ELSE text

\* The answer: what is said, and calls of a tool with these arguments.
Answered(a, calls, tool, said, json) ==
  agent' = [agent EXCEPT ![a].phase = "acts", ![a].open = calls, ![a].tool = tool,
                         ![a].said = said, ![a].json = json]

\* A round says the block and calls the tool with it once for each subagent.
AnsweredRound(a) ==
  \E block \in {Block(agent[a].text)} :
    Answered(a, Calls, CallTool(ToolsOf(a)), block, Prompt(block))

\* handleChatNonStream answers every request like a user's, and at once.
AnswerAtOnce(a) ==
  /\ Asks(a) /\ ~setup.streaming
  /\ AnsweredRound(a)
  /\ UNCHANGED <<setup, clock, now, starts, rounds>>

\* runAgentEcho: how long to wait, by the clock as it is now.
LoadClock(a) ==
  /\ Asks(a) /\ setup.streaming /\ ~IsSubagentEchoRequest(agent[a].text)
  /\ agent' = [agent EXCEPT ![a].phase = "waits",
                            ![a].wake = IF clock = 0 THEN now ELSE clock + Interval]
  /\ UNCHANGED <<setup, clock, now, starts, rounds>>

Began(a) == starts' = IF IsMain(a) THEN [starts EXCEPT ![a[1]] = Append(@, now)] ELSE starts

\* Mutant of Round: an entry of the clock is not replaced.
RoundKeepingClock(a) ==
  /\ agent[a].phase = "waits" /\ now >= agent[a].wake
  /\ clock' = IF clock = 0 THEN now ELSE clock
  /\ AnsweredRound(a)
  /\ Began(a)
  /\ UNCHANGED <<setup, now, rounds>>

\* The wait is over: the clock is set and the round is emitted.
Round(a) ==
  /\ agent[a].phase = "waits" /\ now >= agent[a].wake
  /\ clock' = now
  /\ AnsweredRound(a)
  /\ Began(a)
  /\ UNCHANGED <<setup, now, rounds>>

\* Mutant of ShellEcho: whether a tool has answered is not looked at.
ShellEchoAlways(a) ==
  /\ Asks(a) /\ setup.streaming /\ IsSubagentEchoRequest(agent[a].text)
  /\ Answered(a, {1}, PickShellTool(ToolsOf(a)), <<>>, <<>>)
  /\ UNCHANGED <<setup, clock, now, starts, rounds>>

\* runSubagentEcho: one call of a shell (what it is told to echo, nothing here
\* depends on), and when it has returned the payload.
ShellEcho(a) ==
  /\ Asks(a) /\ setup.streaming /\ IsSubagentEchoRequest(agent[a].text) /\ ~agent[a].told
  /\ Answered(a, {1}, PickShellTool(ToolsOf(a)), <<>>, <<>>)
  /\ UNCHANGED <<setup, clock, now, starts, rounds>>

Report(a) ==
  /\ Asks(a) /\ setup.streaming /\ IsSubagentEchoRequest(agent[a].text) /\ agent[a].told
  /\ \E payload \in {ExtractEchoPayload(agent[a].text)} :
       agent' = [agent EXCEPT ![a].phase = "done",
                              ![a].said = IF AllBlank(payload) THEN agent[a].text ELSE payload]
  /\ UNCHANGED <<setup, clock, now, starts, rounds>>

Tick ==
  /\ now < MaxTime /\ now' = now + 1
  /\ UNCHANGED <<setup, agent, clock, starts, rounds>>

-----------------------------------------------------------------------------
(***************************************************************************)
(* The client.                                                             *)
(***************************************************************************)
Started(text) == [NoAgent EXCEPT !.phase = "asks", !.text = text]

Begin(c) ==
  /\ agent[<<c>>].phase = "off" /\ c <= setup.convs /\ rounds < setup.rounds
  /\ agent' = [agent EXCEPT ![<<c>>] = Started(setup.text)]
  /\ rounds' = rounds + 1
  /\ UNCHANGED <<setup, clock, now, starts>>

Acts(a, i) == agent[a].phase = "acts" /\ i \in agent[a].open
Returned(a, i) == [agent EXCEPT ![a].open = @ \ {i}]

\* Any other tool, or arguments that cannot be read, returns something.
RunTool(a, i) ==
  /\ Acts(a, i)
  /\ ~SpawnsAgent(agent[a].tool) \/ ~Decode(agent[a].json).ok
  /\ agent' = Returned(a, i)
  /\ UNCHANGED <<setup, clock, now, starts, rounds>>

Spawn(a, i) ==
  LET sub == Append(a, i)
      prompt == Decode(agent[a].json) IN
  /\ Acts(a, i) /\ SpawnsAgent(agent[a].tool) /\ prompt.ok
  /\ Len(sub) <= MaxDepth /\ agent[sub].phase = "off"
  /\ agent' = [agent EXCEPT ![sub] = Started(prompt.text)]
  /\ UNCHANGED <<setup, clock, now, starts, rounds>>

\* The subagent's last words are the result of the call.
SubReturns(a, i) ==
  LET sub == Append(a, i) IN
  /\ Acts(a, i) /\ sub \in Agents /\ agent[sub].phase = "done"
  /\ agent' = [Returned(a, i) EXCEPT ![sub] = NoAgent]
  /\ UNCHANGED <<setup, clock, now, starts, rounds>>

\* All results are in the conversation, the user's text is its last still.
AskAgain(a) ==
  /\ agent[a].phase = "acts" /\ agent[a].open = {}
  /\ IF IsMain(a) THEN rounds < setup.rounds /\ rounds' = rounds + 1 ELSE UNCHANGED rounds
  /\ agent' = [agent EXCEPT ![a].phase = "asks", ![a].told = TRUE]
  /\ UNCHANGED <<setup, clock, now, starts>>

-----------------------------------------------------------------------------
Serve(a) == AnswerAtOnce(a) \/ LoadClock(a) \/ Round(a) \/ ShellEcho(a) \/ Report(a)

Work(a) ==
  AskAgain(a) \/ \E i \in Calls : RunTool(a, i) \/ Spawn(a, i) \/ SubReturns(a, i)

Next ==
  \/ \E c \in Convs : Begin(c)
  \/ \E a \in Agents : Serve(a) \/ Work(a)
  \/ Tick

Spec == Init /\ [][Next]_vars

\* A subagent's requests are answered, and its client runs its tools and asks
\* again.  Nothing is assumed of the conversations, nor of time.
Fairness ==
  \A a \in Subs :
    /\ WF_vars(ShellEcho(a) \/ Report(a))
    /\ WF_vars(AskAgain(a) \/ \E i \in Calls : RunTool(a, i))

FairSpec == Spec /\ Fairness

-----------------------------------------------------------------------------
(***************************************************************************)
(* Subagents start no subagents of their own, whatever tools they have, or *)
(* each would start more, without end.  That is so for clients that        *)
(* stream: the answer of handleChatNonStream does start them.              *)
(***************************************************************************)
NeverNest ==
  \A a \in Agents : setup.streaming /\ Len(a) > 2 => agent[a].phase = "off"

(***************************************************************************)
(* A subagent is done after one call of a shell, whatever the tools it     *)
(* declares, so that the round of its conversation comes to an end.        *)
(***************************************************************************)
SubagentsFinish ==
  \A a \in Subs : setup.streaming /\ Asks(a) ~> agent[a].phase \in {"done", "off"}

(***************************************************************************)
(* What a subagent reports is the text of the round, new lines apart,      *)
(* after it went through a JSON string, a prompt and a payload.  Exempt    *)
(* are texts with a backslash or a control character: the call does not    *)
(* escape them, and is malformed or says something else.                   *)
(***************************************************************************)
EscapedWell(text) == \A i \in DOMAIN text : text[i] \notin {"back", "tab"}
Flat(text) == [i \in DOMAIN text |-> IF text[i] = "nl" THEN " " ELSE text[i]]

EchoedBack ==
  \A a \in Agents :
    (Len(a) = 2 /\ agent[a].phase = "done" /\ EscapedWell(setup.text)) =>
      LET round == agent[<<a[1]>>].said
      IN agent[a].said = IF AllBlank(round) THEN Hello ELSE Flat(round)

(***************************************************************************)
(* The blocks of a round, one in the text and one in each call, have       *)
(* together no more tokens than max_tokens, if the user's text itself can  *)
(* be said so often: repeating it never takes more than the share that     *)
(* max_tokens is divided into.  What else is in a call is not counted, see *)
(* CycleFits.                                                              *)
(***************************************************************************)
BlocksWithin ==
  \A c \in Convs :
    LET round == agent[<<c>>].said
    IN (/\ agent[<<c>>].phase = "acts" /\ round # <<>>
        /\ setup.max /\ setup.maxTokens >= (1 + setup.subs) * Count(Unit(setup.text)))
         => (1 + setup.subs) * Count(round) <= setup.maxTokens

(***************************************************************************)
(* "Cap the per-block tokens so the WHOLE cycle stays within the client's  *)
(* max_tokens" (runner.go:499): a round that streams, its text and every   *)
(* call's arguments, stays within max_tokens, if a round with the user's   *)
(* text once would.  Of the arguments the prompt is counted: the rest of   *)
(* the JSON makes them only longer.                                        *)
(***************************************************************************)
Size(said, json) == Count(said) + setup.subs * Count(json)

CycleFits ==
  \A c \in Convs :
    LET round == agent[<<c>>]
        once == Unit(setup.text)
    IN (/\ round.phase = "acts" /\ round.said # <<>>
        /\ setup.streaming /\ setup.max /\ setup.maxTokens >= Size(once, Prompt(once)))
         => Size(round.said, round.json) <= setup.maxTokens

(***************************************************************************)
(* The rounds of a conversation that streams begin at least the interval   *)
(* apart, however fast the client is, and whatever other conversations do  *)
(* with the clock that they share: it is read, waited for and set without  *)
(* a lock.                                                                 *)
(***************************************************************************)
RoundsSpaced ==
  \A c \in Convs : \A k \in 2..Len(starts[c]) : starts[c][k] >= starts[c][k - 1] + Interval

=============================================================================

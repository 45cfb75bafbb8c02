------------------------------- MODULE EchoText -------------------------------
(***************************************************************************)
(* What the agent echo makes of a text: its size in tokens                 *)
(* (tokenizer.Count), the block it is repeated into, the tool call that    *)
(* carries it as JSON, and the payload a subagent finds in its prompt.     *)
(*                                                                         *)
(* A text is a sequence of characters, one for each class that any of this *)
(* tells apart: "a" a letter, "1" a digit, " " a blank, "tab", "nl" a new  *)
(* line, "quote", "back" a backslash, "cjk"; and "ask", which stands for   *)
(* the words "Please execute shell command: echo " as a whole.             *)
(***************************************************************************)
EXTENDS Naturals, Sequences, SequencesExt, FiniteSetsExt

Characters == {"a", "1", " ", "tab", "nl", "quote", "back", "cjk", "ask"}
Blanks == {" ", "tab", "nl"}
Hello == <<"a", "a", "a", "a", "a">>

-----------------------------------------------------------------------------
(***************************************************************************)
(* tokenizer.countString.                                                  *)
(***************************************************************************)
\* Characters that are counted in runs, and how many of a run make a token;
\* a blank and a tab are in one run.
RunOf(c) == IF c = "tab" THEN " " ELSE c
PerToken(c) == CASE RunOf(c) \in {"a", " "} -> 4 [] c = "1" -> 3 [] OTHER -> 1

\* How many characters of the same run come before the i-th.
PlaceInRun(s, i) == Cardinality({j \in 1..(i - 1) : \A k \in j..i : RunOf(s[k]) = RunOf(s[i])})

\* A token starts at every PerToken-th character of a run; "ask" is 15 tokens.
Weight(s, i) ==
  IF s[i] = "ask" THEN 15 ELSE IF PlaceInRun(s, i) % PerToken(s[i]) = 0 THEN 1 ELSE 0

CountTo(s) ==
  LET count[n \in 0..Len(s)] == IF n = 0 THEN 0 ELSE count[n - 1] + Weight(s, n) IN count
Count(s) == CountTo(s)[Len(s)]

-----------------------------------------------------------------------------
\* What is repeated.
Unit(s) == IF s = <<>> THEN Hello ELSE s

\* BuildInfiniteMaxText, short of its cap of 500000 repetitions.
BuildInfiniteMaxText(s, maxTokens) ==
  LET repeats == Max({1, maxTokens \div Count(Unit(s))})
  IN FlattenSeq([i \in 1..repeats |-> Unit(s)])

\* The tokens of a block so that the text and a call for each subagent fit
\* into max_tokens; 0 is no limit.  Without streaming a limit too small to be
\* divided is none.
BudgetAlone(chunk, maxTokens, subs, streaming) ==
  IF maxTokens = 0 THEN chunk ELSE Min({chunk, Max({1, maxTokens \div subs})})

BlockTokens(chunk, maxTokens, subs, streaming) ==
  LET share == maxTokens \div (1 + subs)
  IN IF maxTokens = 0 \/ (share = 0 /\ ~streaming) THEN chunk
     ELSE Min({chunk, Max({1, share})})

-----------------------------------------------------------------------------
(***************************************************************************)
(* BuildAgentEchoCall.                                                     *)
(***************************************************************************)
Spawners == <<"collaboration__spawn_agent", "spawn_agent", "task", "subagent">>
Shells == <<"exec_command", "powershell", "bash", "execute_command", "terminal">>

\* The first of the names that is in the set.
FirstOf(names, set) == names[Min({i \in DOMAIN names : names[i] \in set})]

\* By preference, or else the first tool that the client declares.
CallTool(tools) ==
  LET names == Spawners \o Shells
  IN IF Range(names) \intersect Range(tools) = {} THEN Head(tools)
     ELSE FirstOf(names, Range(tools))

SpawnsAgent(tool) == tool \in Range(Spawners)

AllBlank(s) == \A i \in DOMAIN s : s[i] \in Blanks

\* Only quotes are escaped, new lines become blanks.
Clean(s) ==
  FlattenSeq([i \in DOMAIN s |-> CASE s[i] = "quote" -> <<"back", "quote">>
                                   [] s[i] = "nl" -> <<" ">>
                                   [] OTHER -> <<s[i]>>])

\* The string with the prompt in the arguments, as JSON.
Prompt(s) ==
  <<"ask", "back", "quote">> \o Clean(IF AllBlank(s) THEN Hello ELSE s) \o <<"back", "quote">>

Without(s, places) == FlattenSeq([i \in DOMAIN s |-> IF i \in places THEN <<>> ELSE <<s[i]>>])

\* What the client reads from a JSON string: a quote that is not escaped, a
\* control character or an escape that does not exist makes it malformed.
Decode(json) ==
  LET escapes == {i \in DOMAIN json : json[i] = "back" /\ PlaceInRun(json, i) % 2 = 0}
      Readable(i) == IF i - 1 \in escapes THEN json[i] \in {"quote", "back"}
                     ELSE json[i] \notin {"quote", "tab", "nl"}
  IN [text |-> Without(json, escapes),
      ok |-> Len(json) \notin escapes /\ \A i \in DOMAIN json : Readable(i)]

-----------------------------------------------------------------------------
(***************************************************************************)
(* The subagent's side: IsSubagentEchoRequest, ExtractEchoPayload,         *)
(* PickShellTool.                                                          *)
(***************************************************************************)
\* Mutant of IsSubagentEchoRequest: nothing is recognised.
NeverSubagent(s) == FALSE

IsSubagentEchoRequest(s) == Contains(s, "ask")

\* Mutant of ClosingQuote: the first quote ends the payload.
FirstQuote(quotes) == Min(quotes)

ClosingQuote(quotes) == Max(quotes)

\* Backslashes in front of quotes are taken out.
Unescaped(s) == Without(s, {i \in DOMAIN s : s[i] = "back" /\ i < Len(s) /\ s[i + 1] = "quote"})

\* What follows the words and their opening quote, up to the last quote.
ExtractEchoPayload(s) ==
  LET opening == {i \in DOMAIN s : s[i] = "ask" /\ i < Len(s) /\ s[i + 1] = "quote"}
      from == Min(opening) + 2
      quotes == {i \in from..Len(s) : s[i] = "quote"}
  IN IF opening = {} THEN s
     ELSE Unescaped(SubSeq(s, from, IF quotes = {} THEN Len(s) ELSE ClosingQuote(quotes) - 1))

ShellsOfSubagent ==
  <<"exec_command", "bash", "powershell", "execute_command", "terminal", "shell", "run_command">>
NoShells == Range(Spawners) \union {"collaboration__followup_task"}

\* By preference, or else any tool that starts no agent.
PickShellTool(tools) ==
  LET others == Range(tools) \ NoShells
  IN IF Range(ShellsOfSubagent) \intersect Range(tools) # {}
     THEN FirstOf(ShellsOfSubagent, Range(tools))
     ELSE IF others # {} THEN FirstOf(tools, others) ELSE "bash"

=============================================================================

----------------------------- MODULE MCAgentLoop ------------------------------
(***************************************************************************)
(* Instances of AgentLoop for TLC.                                         *)
(***************************************************************************)
EXTENDS AgentLoop

\* Nothing, quotes, blanks, characters that JSON escapes, and runs.
ShortTexts ==
  {<<>>, <<"nl">>, <<"a", "quote">>, <<"quote", "nl", "quote">>, <<"back", "quote">>, <<"tab", "1">>,
   <<"1", "1", "cjk">>, <<"a", "a", "a", "a", "a", " ">>}

\* A coding agent with tasks and a shell, one whose subagents could start
\* agents and nothing else, and one without subagents.
Tasks == [main |-> <<"read", "bash", "task">>, sub |-> <<"task", "read", "bash">>]
Clients ==
  {Tasks,
   [main |-> <<"spawn_agent">>, sub |-> <<"spawn_agent", "collaboration__followup_task">>],
   [main |-> <<"read">>, sub |-> <<"read">>]}

\* Every text in one round, and one text with every kind of client and rounds
\* of one conversation or of two.
ManyTexts ==
  [text : ShortTexts, tools : {Tasks}, streaming : {TRUE}, subs : {1}, convs : {1}, rounds : {1},
   max : {FALSE}, maxTokens : {0}]
  \union
  [text : ShortTexts, tools : {Tasks}, streaming : {TRUE}, subs : {1}, convs : {1}, rounds : {1},
   max : {TRUE}, maxTokens : {0, 5, 7}]
Streaming ==
  [text : {<<"a">>}, tools : Clients, streaming : {TRUE}, max : {FALSE}, subs : {2},
   maxTokens : {0}, convs : {1}, rounds : {2}]
  \union
  [text : {<<"a">>}, tools : {Tasks}, streaming : {TRUE}, max : {TRUE}, subs : {1},
   maxTokens : {5}, convs : {2}, rounds : {3}]
AtOnce ==
  [text : {<<"a">>}, tools : Clients, streaming : {FALSE}, max : BOOLEAN, subs : {1},
   maxTokens : {5}, convs : {1}, rounds : {2}]

\* Budgets that leave room for the words of a call.
Budgets ==
  [text : {<<"a">>, <<"cjk">>}, tools : {Tasks}, streaming : {TRUE}, max : {TRUE}, subs : {1, 2},
   maxTokens : {30, 60}, convs : {1}, rounds : {1}]

MCSetups == ManyTexts \union Streaming \union AtOnce

=============================================================================

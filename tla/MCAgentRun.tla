----------------------------- MODULE MCAgentRun -----------------------------
(* Instances of AgentRun for TLC. *)
EXTENDS AgentRun

CONSTANTS ollama, deepseek, openai, search, searchAgain, reviews, shell

AllProviders == {ollama, deepseek, openai}
TwoFallbacks == <<ollama, deepseek, openai, ollama>>
PaidPlan == {ollama, deepseek}
SearchCalls == {search}
SearchTwice == {search, searchAgain}
ReviewCalls == {reviews}
ShellCalls == {shell}
NoCalls == {}
=============================================================================

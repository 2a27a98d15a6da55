-------------------------- MODULE MCProviderCache --------------------------
(* ProviderCache for two models of one worker, whose configurations share a *)
(* secret and an account or not.                                            *)
EXTENDS ProviderCache, TLC

CONSTANTS w1, m1, m2, s1, p1, p2, a1, a2, r1, r2, x1

\* LangChain, with the address allowed, not allowed or unset, and Bedrock.
TheConfigs ==
    {[provider |-> "openai", upstream |-> "gpt", address |-> a1, account |-> "", secret |-> s1],
     [provider |-> "openai", upstream |-> "gpt", address |-> a2, account |-> "", secret |-> None],
     [provider |-> "openai", upstream |-> "gpt", address |-> None, account |-> "", secret |-> s1],
     [provider |-> "bedrock", upstream |-> "nova", address |-> a1, account |-> "A", secret |-> s1]}

\* Models, parameters and requests differ in name only.
Alike == Permutations(Models) \cup Permutations(Params) \cup Permutations(ClientRequests)
=============================================================================

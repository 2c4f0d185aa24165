----------------------------- MODULE MCProviders -----------------------------
(***************************************************************************)
(* What the server makes of the outside world: GitHub's webhooks, the      *)
(* calls to GitHub's API, one call to a model, and the settings that say   *)
(* which model.  A behaviour is one of the four; the others stay as one of *)
(* their initial states has them.                                          *)
(***************************************************************************)
EXTENDS GitHub, GitHubApi, StructuredOutput, LlmSettings

ReposUnderTest == <<1, 2, 3>>

NoWebhooks == /\ \A d \in Deliveries : sent[d] = Nil
              /\ \A n \in Numbers : kindOf[n] = "issue"
              /\ \A o \in Objects : times[o] = Nil
NoApiCalls == /\ now = 0
              /\ \A c \in Calls : calls[c] = Idle
              /\ \A p \in Pulls : pulls[p].body = << >>
NoModelCall == call = NoCall
NoSettings == page = [a \in ADMINS |-> NoPage]

ProvidersInit == HookInit /\ ApiInit /\ CallInit /\ ConfigInit

ProvidersNext ==
    \/ NoApiCalls /\ NoModelCall /\ NoSettings /\ HookNext
       /\ UNCHANGED <<apiVars, callVars, configVars>>
    \/ NoWebhooks /\ NoModelCall /\ NoSettings /\ ApiNext
       /\ UNCHANGED <<hookVars, callVars, configVars>>
    \/ NoWebhooks /\ NoApiCalls /\ NoSettings /\ CallNext
       /\ UNCHANGED <<hookVars, apiVars, configVars>>
    \/ NoWebhooks /\ NoApiCalls /\ NoModelCall /\ ConfigNext
       /\ UNCHANGED <<hookVars, apiVars, callVars>>

ProvidersSpec == ProvidersInit /\ [][ProvidersNext]_<<hookVars, apiVars, callVars, configVars>>
=============================================================================

----------------------------- MODULE LlmSettings -----------------------------
(***************************************************************************)
(* A team's LLM provider: the llm_config row behind                        *)
(* /v1/teams/:teamId/llm (http/routes/llm-config.ts), the settings pages   *)
(* two admins have open on it (pages/settings-llm-page.tsx), and the       *)
(* resolver that turns the row into the client of a compile job            *)
(* (llm/resolve-team-llm.ts).                                              *)
(*                                                                         *)
(* A key is a pair of the provider it was issued by and the admin who      *)
(* pasted it; a model is named by the provider that lists it.  Every       *)
(* request of a page and every statement of a handler is one step.         *)
(***************************************************************************)
EXTENDS Integers

CONSTANTS ADMINS,        \* settings pages, one per admin
          None,          \* no key, no model, no row
          MaxClicks      \* what the admins do in all

ASSUME MaxClicksAssumption == MaxClicks \in Nat

VARIABLES row,           \* the llm_config row, or None
          page,          \* page[a]: what the settings page shows
          save,          \* save[a]: the page's PUT
          test,          \* test[a]: the page's connection test
          budget         \* clicks that are left

configVars == <<row, page, save, test, budget>>

PROVIDERS_STORED == {"anthropic", "openai", "custom"}

\* The sentinel of a save that leaves the stored key alone, and the absent
\* key of the onboarding wizard's save.
KEPT == {"__STORED__", "omitted"}

Key(provider, a) == <<provider, a>>
KeysIssued == PROVIDERS_STORED \X ADMINS
HomeOf(key) == key[1]

NoRequest == [at |-> "idle", provider |-> "openai", model |-> None,
              key |-> None]

NoPage == [at |-> "loading", config |-> None, provider |-> "openai",
           model |-> None, typed |-> None, models |-> None, asked |-> None]

\* The llm_config row; "tested" is the result of the last connection test.
Results == [ok : BOOLEAN, provider : PROVIDERS_STORED,
            key : KeysIssued \union {"__STORED__", None}]
Rows == [provider : PROVIDERS_STORED, model : PROVIDERS_STORED \union {None},
         key : KeysIssued \union {None}, embeddingAvailable : BOOLEAN,
         tested : Results \union {None}]

ASSUME NoneAssumption == None \notin Rows /\ None \notin KeysIssued

ConfigInit ==
  /\ row = None
  /\ page = [a \in ADMINS |-> NoPage]
  /\ save = [a \in ADMINS |-> NoRequest]
  /\ test = [a \in ADMINS |-> NoRequest]
  /\ budget = MaxClicks

---------------------------------------------------------------------------
(* The row, as the API and the worker read it.                             *)

StoredKey == IF row = None THEN None ELSE row.key
HasKey(config) == config # None /\ config.key # None

\* The model picker and the provider cards follow the configuration just read.
Shown(p, config) ==
  [p EXCEPT !.config = config,
            !.model = IF config = None THEN None ELSE config.model]

EMBEDDING_PROVIDERS == PROVIDERS_STORED \ {"anthropic"}

\* The client a compile job gets: the team's own provider when its key can be
\* used, otherwise the one of the environment.  A custom endpoint's base URL
\* is not stored, so a team's custom provider is never used.
Resolve(config) ==
  IF HasKey(config) /\ config.provider # "custom"
    THEN [provider |-> config.provider, key |-> config.key,
          model |-> config.model]
    ELSE [provider |-> "environment", key |-> None, model |-> None]

---------------------------------------------------------------------------
(* The settings page.                                                      *)

Ready(a) == page[a].at = "ready"

Spend == budget > 0 /\ budget' = budget - 1

\* The page has read the configuration.
Load(a) ==
  /\ page[a].at = "loading"
  /\ page' = [page EXCEPT ![a] =
                [Shown(@, row) EXCEPT
                   !.at = "ready",
                   !.provider = IF row = None THEN page[a].provider
                                              ELSE row.provider]]
  /\ UNCHANGED <<row, save, test, budget>>

\* Picking a provider forgets the models, and the chosen one unless the
\* provider is the one configured.  The typed key stays in its field.
SelectProvider(a, p) ==
  /\ Ready(a) /\ p # page[a].provider
  /\ Spend
  /\ page' = [page EXCEPT ![a] =
                [@ EXCEPT !.provider = p, !.models = None,
                          !.model = IF /\ page[a].config # None
                                       /\ p = page[a].config.provider
                                      THEN page[a].config.model ELSE None]]
  /\ UNCHANGED <<row, save, test>>

\* The admin pastes a key of the selected provider.
TypeKey(a) ==
  /\ Ready(a)
  /\ Spend
  /\ page' = [page EXCEPT ![a].typed = Key(page[a].provider, a)]
  /\ UNCHANGED <<row, save, test>>

\* The admin picks a model from the list.
PickModel(a) ==
  /\ Ready(a) /\ page[a].models # None
  /\ Spend
  /\ page' = [page EXCEPT ![a].model = page[a].models]
  /\ UNCHANGED <<row, save, test>>

\* What a page sends as the key: the one typed, or the stored one.
KeyToSend(a) ==
  IF page[a].typed # None THEN page[a].typed
  ELSE IF HasKey(page[a].config) THEN "__STORED__" ELSE None

\* The list of models is asked for, with the key that is at hand.
LoadModels(a) ==
  /\ Ready(a) /\ page[a].asked = None /\ KeyToSend(a) # None
  /\ Spend
  /\ page' = [page EXCEPT ![a].asked = page[a].provider]
  /\ UNCHANGED <<row, save, test>>

\* The answer sets the list, whatever provider is selected by now.
ModelsArrive(a, listed) ==
  /\ page[a].asked # None
  /\ page' = [page EXCEPT ![a] =
                [@ EXCEPT !.asked = None,
                          !.models = IF listed THEN page[a].asked ELSE None]]
  /\ UNCHANGED <<row, save, test, budget>>

---------------------------------------------------------------------------
(* Saving: PUT /v1/teams/:teamId/llm, then the page reads it back.         *)

\* Any other save that was acknowledged is no longer the last word.
Sent(a, request) ==
  [b \in ADMINS |->
     IF b = a THEN request
     ELSE IF save[b].at = "acknowledged" THEN NoRequest ELSE save[b]]

CanSave(a) == Ready(a) /\ save[a].at \in {"idle", "acknowledged"}

Save(a) ==
  /\ CanSave(a) /\ KeyToSend(a) # None
  /\ Spend
  /\ save' = Sent(a, [at |-> "sent", provider |-> page[a].provider,
                      model |-> page[a].model, key |-> KeyToSend(a)])
  /\ UNCHANGED <<row, page, test>>

\* The onboarding wizard records a provider and no key.
SaveLlmProvider(a, p) ==
  /\ CanSave(a)
  /\ Spend
  /\ save' = Sent(a, [at |-> "sent", provider |-> p, model |-> None,
                      key |-> "omitted"])
  /\ UNCHANGED <<row, page, test>>

\* The handler reads the key to keep; there must be one for the sentinel.
KeepKey(a) ==
  /\ save[a].at = "sent" /\ save[a].key \in KEPT
  /\ save' = [save EXCEPT ![a] =
                IF save[a].key = "__STORED__" /\ StoredKey = None
                  THEN NoRequest
                  ELSE [@ EXCEPT !.at = "kept", !.key = StoredKey]]
  /\ UNCHANGED <<row, page, test, budget>>

\* The save of a, and every save of another page not answered yet, which is
\* thereby no longer the last word.
Overtaking(a) ==
  [b \in ADMINS |->
     IF b = a THEN [save[a] EXCEPT !.at = IF @ = "sent" THEN "written"
                                                        ELSE "rewritten"]
     ELSE IF save[b].at = "written" THEN [save[b] EXCEPT !.at = "rewritten"]
     ELSE save[b]]

\* The handler inserts or replaces the row; the last test's result stays.
\* Mutant: the update of an existing row forgets the key.
UpsertConfig_KeepsOldKey(a) ==
  /\ \/ save[a].at = "kept"
     \/ save[a].at = "sent" /\ save[a].key \notin KEPT
  /\ row' = [provider |-> save[a].provider, model |-> save[a].model,
             key |-> IF row = None THEN save[a].key ELSE row.key,
             embeddingAvailable |-> save[a].provider \in EMBEDDING_PROVIDERS,
             tested |-> IF row = None THEN None ELSE row.tested]
  /\ save' = Overtaking(a)
  /\ UNCHANGED <<page, test, budget>>

UpsertConfig(a) ==
  /\ \/ save[a].at = "kept"
     \/ save[a].at = "sent" /\ save[a].key \notin KEPT
  /\ row' = [provider |-> save[a].provider, model |-> save[a].model,
             key |-> save[a].key,
             embeddingAvailable |-> save[a].provider \in EMBEDDING_PROVIDERS,
             tested |-> IF row = None THEN None ELSE row.tested]
  /\ save' = Overtaking(a)
  /\ UNCHANGED <<page, test, budget>>

\* Nobody else's save is on its way.
Alone(a) == \A b \in ADMINS \ {a} : save[b].at \in {"idle", "acknowledged"}

\* The page clears the key field and shows what it reads back.  A save with a
\* key of its own counts as acknowledged unless another one is under way.
SaveAnswered(a) ==
  /\ save[a].at \in {"written", "rewritten"}
  /\ page' = [page EXCEPT ![a] = [Shown(@, row) EXCEPT !.typed = None]]
  /\ save' = [save EXCEPT ![a] =
                IF @.at = "written" /\ Alone(a)
                  THEN [@ EXCEPT !.at = "acknowledged"] ELSE NoRequest]
  /\ UNCHANGED <<row, test, budget>>

---------------------------------------------------------------------------
(* The connection test: POST .../llm/test, then the page reads it back.    *)

TestConnection(a, useStored) ==
  /\ Ready(a) /\ test[a].at = "idle"
  /\ IF useStored THEN HasKey(page[a].config) ELSE page[a].typed # None
  /\ Spend
  /\ test' = [test EXCEPT ![a] =
                [at |-> "sent", provider |-> page[a].provider, model |-> None,
                 key |-> IF useStored THEN "__STORED__" ELSE page[a].typed]]
  /\ UNCHANGED <<row, page, save>>

\* The handler looks up the stored key; if there is none it goes on with the
\* sentinel, which no provider accepts.
TestKey(a) ==
  /\ test[a].at = "sent"
  /\ test' = [test EXCEPT ![a] =
                [@ EXCEPT !.at = "calling",
                          !.key = IF test[a].key = "__STORED__" /\ StoredKey # None
                                    THEN StoredKey ELSE test[a].key]]
  /\ UNCHANGED <<row, page, save, budget>>

\* The provider has answered; the result is written to whatever the row is by
\* now, and the page reads it back.
TestDone(a) ==
  /\ test[a].at = "calling"
  /\ LET ok == test[a].key # "__STORED__" /\ HomeOf(test[a].key) = test[a].provider
         result == [ok |-> ok, provider |-> test[a].provider, key |-> test[a].key]
     IN  row' = IF row = None THEN None ELSE [row EXCEPT !.tested = result]
  /\ test' = [test EXCEPT ![a] = NoRequest]
  /\ page' = [page EXCEPT ![a].config = row']
  /\ UNCHANGED <<save, budget>>

ConfigNext ==
  \E a \in ADMINS :
    \/ Load(a) \/ TypeKey(a) \/ PickModel(a) \/ LoadModels(a)
    \/ Save(a) \/ KeepKey(a) \/ UpsertConfig(a) \/ SaveAnswered(a)
    \/ TestKey(a) \/ TestDone(a)
    \/ \E p \in PROVIDERS_STORED : SelectProvider(a, p) \/ SaveLlmProvider(a, p)
    \/ \E listed \in BOOLEAN : ModelsArrive(a, listed) \/ TestConnection(a, listed)

ConfigSpec == ConfigInit /\ [][ConfigNext]_configVars

---------------------------------------------------------------------------
(* Properties.                                                             *)

\* Once a page has been told that its key is stored, the next compile job uses
\* that provider and that key, until somebody saves again
\* (settings-llm-page.tsx:408, "Replacing the key takes effect on the next
\* compile job"), if no other save was under way at the time.  A custom
\* provider is the exception, it is never resolved.
AcknowledgedKeyIsUsed ==
  \A a \in ADMINS :
    save[a].at = "acknowledged" /\ save[a].provider # "custom" =>
      /\ Resolve(row).provider = save[a].provider
      /\ Resolve(row).key = save[a].key

\* The stored model is one the stored provider lists, since models are
\* provider-specific (settings-llm-page.tsx:289).  A list that arrives after
\* another provider was selected offers the models of the first one.
ModelIsOfProvider ==
  row # None /\ row.model # None => row.model = row.provider
=============================================================================

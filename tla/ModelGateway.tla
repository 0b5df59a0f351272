---------------------------- MODULE ModelGateway ----------------------------
(* The model gateway: provider profiles, whose secrets live in the Vault    *)
(* and whose metadata live in one file, the configuration the turns read,   *)
(* turns with their retries and token refreshes, and OAuth connections.     *)
(* Everything that changes the profiles holds configuration_lock, so there  *)
(* is one commit at a time; its steps interleave with turns, OAuth flows,   *)
(* the Vault being locked and unlocked, failed saves and a crash.           *)
EXTENDS Naturals, FiniteSets

CONSTANTS ProfileIds, CredentialIds, Turns, OauthFlows,
          MaxTries,     \* MODEL_TRANSIENT_RETRY_ATTEMPTS
          MaxSecrets    \* bound on keys entered and tokens issued

VARIABLES
  modelDisk,     \* the document: [legacy, active, prof]
  modelMemory,   \* ModelProfileRepository.state: {} or {collection}
  modelVault,    \* secrets by credential id, 0 for none, and whether it is open
  modelConfig,   \* ModelGateway.config
  modelCommit,   \* what holds configuration_lock
  modelTurn, oauthFlow,
  oauthInflight, \* ModelGateway.oauth_inflight: {} or {flow}
  issued,        \* secrets so far: 1..issued
  expired,       \* access tokens past their time
  superseded,    \* tokens whose successor has been saved
  unlockDone     \* vault_unlock has answered Ok, and no lock since

modelVars == <<modelDisk, modelMemory, modelVault, modelConfig, modelCommit, modelTurn, oauthFlow,
               oauthInflight, issued, expired, superseded, unlockDone>>

ModelKinds == {"local", "managed", "chatgpt", "key"}
Local == [kind |-> "local", secret |-> 0]
NoCommit == [pc |-> "free", coll |-> {}, fresh |-> {}, drop |-> {}, config |-> {}, by |-> {}]
(* The secret goes with the request; a later try resolves it again.         *)
Sending(turn, kind) == [turn EXCEPT !.pc = "send", !.config = [kind |-> kind, secret |-> 0]]

NoTurn == [pc |-> "idle", config |-> Local, tries |-> 0]
Profile(config) == [kind |-> config.kind, cred |-> {}, plain |-> config.secret]
EmptyCollection == [legacy |-> FALSE, active |-> {}, prof |-> <<>>]

(* A document of an older release holds one configuration with its secret;  *)
(* a local one becomes an empty collection.                                 *)
LegacyConfigs == {[kind |-> "managed", secret |-> 0], [kind |-> "key", secret |-> 1],
                  [kind |-> "chatgpt", secret |-> 1]}
LegacyDocument(p, config) == [legacy |-> TRUE, active |-> {p}, prof |-> [q \in {p} |-> Profile(config)]]
LegacyDocuments ==
  {[EmptyCollection EXCEPT !.legacy = TRUE]} \cup
  {LegacyDocument(p, config) : p \in ProfileIds, config \in LegacyConfigs}

ModelGatewayInit ==
  /\ modelDisk \in LegacyDocuments \cup {EmptyCollection}
  /\ modelMemory = {}
  /\ modelVault = [secret |-> [c \in CredentialIds |-> 0], open |-> FALSE]
  /\ modelConfig = Local
  /\ modelCommit = NoCommit
  /\ modelTurn = [t \in Turns |-> NoTurn]
  /\ oauthFlow = [f \in OauthFlows |-> [pc |-> "idle", config |-> Local]]
  /\ oauthInflight = {}
  /\ issued = 1 /\ expired = {} /\ superseded = {}
  /\ unlockDone = FALSE

-----------------------------------------------------------------------------
(* What a profile stands for, and the configuration in use.                 *)
Collection == CHOOSE c \in modelMemory : TRUE
Readable(profile) == profile.cred # {} => modelVault.open
Hydrated(profile) ==
  [kind |-> profile.kind,
   secret |-> IF profile.cred = {} THEN profile.plain
              ELSE modelVault.secret[CHOOSE c \in profile.cred : TRUE]]

ActiveOf(coll) == {coll.prof[p] : p \in coll.active}
CanLoad(coll) == \A profile \in ActiveOf(coll) : Readable(profile)
load_or_default(coll) == IF coll.active = {} THEN Local
                         ELSE Hydrated(CHOOSE profile \in ActiveOf(coll) : TRUE)

(* A locked Vault leaves the metadata: the kind without its secret.         *)
active_metadata(coll) == IF coll.active = {} THEN Local
                         ELSE LET profile == CHOOSE x \in ActiveOf(coll) : TRUE
                              IN  [kind |-> profile.kind, secret |-> profile.plain]
LoadConfig(coll) == IF CanLoad(coll) THEN load_or_default(coll) ELSE active_metadata(coll)

(* api_key_configured of status_from_config.                                *)
Configured(config) == config.kind \in {"local", "managed"} \/ config.secret # 0

(* No secret goes with the local model or the managed one.                  *)
apply_provider_defaults(config) ==
  IF config.kind \in {"local", "managed"} THEN [config EXCEPT !.secret = 0] ELSE config

(* A new key replaces what was there; without one the previous secret stays *)
(* only where kind and address do.                                          *)
configured_model(kind, key, sameUrl, previous) ==
  [kind |-> kind,
   secret |-> IF key # 0 THEN key
              ELSE IF kind = previous.kind /\ sameUrl THEN previous.secret ELSE 0]

-----------------------------------------------------------------------------
(* ModelProfileRepository.commit, after its caller has built coll: a fresh  *)
(* credential for every secret, the save, then the old credentials.         *)
References(coll) == UNION {coll.prof[p].cred : p \in DOMAIN coll.prof}
InUse == UNION {References(m) : m \in modelMemory}

BeginCommit(coll, config, by) ==
  modelCommit' = [NoCommit EXCEPT !.pc = "store", !.coll = {coll}, !.config = config, !.by = by]

ReusedId(p) ==
  LET old == {c \in InUse :
                \E m \in modelMemory : p \in DOMAIN m.prof /\ c \in m.prof[p].cred}
  IN  IF old # {} THEN old ELSE {c \in CredentialIds : modelVault.secret[c] = 0}

(* "Fresh IDs preserve the old credentials if the atomic metadata save fails."  *)
FreshId(p) == {c \in CredentialIds : modelVault.secret[c] = 0}

PlainOf(coll) == {p \in DOMAIN coll.prof : coll.prof[p].plain # 0}

StoreSecret ==
  /\ modelCommit.pc = "store"
  /\ \E coll \in modelCommit.coll : \E p \in PlainOf(coll) :
       \/ /\ modelVault.open
          /\ \E c \in FreshId(p) :
               /\ modelVault' = [modelVault EXCEPT !.secret[c] = coll.prof[p].plain]
               /\ modelCommit' = [modelCommit EXCEPT
                    !.coll = {[coll EXCEPT !.prof[p].cred = {c}, !.prof[p].plain = 0]},
                    !.fresh = @ \cup {c}]
       \/ (* locked, or the Vault's own save failed *)
          /\ modelCommit' = [modelCommit EXCEPT !.pc = "undo", !.drop = modelCommit.fresh]
          /\ UNCHANGED modelVault
  /\ UNCHANGED <<modelDisk, modelMemory, modelConfig, modelTurn, oauthFlow, oauthInflight, issued, expired,
                 superseded, unlockDone>>

(* A saved collection is in memory at once, and the tokens it replaces are  *)
(* spent for good.                                                          *)
SaveDocument ==
  /\ modelCommit.pc = "store"
  /\ \E coll \in modelCommit.coll :
       /\ PlainOf(coll) = {}
       /\ \/ /\ modelDisk' = [coll EXCEPT !.legacy = FALSE]
             /\ modelMemory' = {modelDisk'}
             /\ modelCommit' = [modelCommit EXCEPT !.pc = "forget",
                  !.drop = InUse \ References(coll)]
             /\ superseded' = superseded \cup
                  {modelTurn[t].config.secret : t \in Turns \cap modelCommit.by}
          \/ /\ modelCommit' = [modelCommit EXCEPT !.pc = "undo", !.drop = modelCommit.fresh]
             /\ UNCHANGED <<modelDisk, modelMemory, superseded>>
  /\ UNCHANGED <<modelVault, modelConfig, modelTurn, oauthFlow, oauthInflight, issued, expired, unlockDone>>

(* A credential that cannot be forgotten stays behind; the error is ignored. *)
ForgetCredential ==
  /\ modelCommit.pc \in {"forget", "undo"}
  /\ \E c \in modelCommit.drop :
       /\ modelVault' = IF modelVault.open THEN [modelVault EXCEPT !.secret[c] = 0] ELSE modelVault
       /\ modelCommit' = [modelCommit EXCEPT !.drop = @ \ {c}]
  /\ UNCHANGED <<modelDisk, modelMemory, modelConfig, modelTurn, oauthFlow, oauthInflight, issued, expired,
                 superseded, unlockDone>>

EndFlows(flows) ==
  /\ oauthFlow' = [f \in OauthFlows |-> IF f \in flows THEN [pc |-> "idle", config |-> Local] ELSE oauthFlow[f]]
  /\ oauthInflight' = IF flows = {} THEN oauthInflight ELSE {}

(* The caller's end: the configuration it returned or a reload, and the     *)
(* answer to the turn or the flow that asked.  A failed start ends the      *)
(* program: nothing is in memory.                                           *)
FinishCommit ==
  /\ modelCommit.pc \in {"forget", "undo"} /\ modelCommit.drop = {}
  /\ modelCommit' = NoCommit
  /\ LET ok == modelCommit.pc = "forget"
     IN  /\ modelConfig' = IF ~ok THEN modelConfig
                           ELSE IF modelCommit.config = {} THEN LoadConfig(Collection)
                           ELSE CHOOSE c \in modelCommit.config : TRUE
         /\ modelTurn' = [t \in Turns |->
              IF t \notin modelCommit.by THEN modelTurn[t]
              ELSE IF ok THEN Sending(modelTurn[t], "chatgpt") ELSE NoTurn]
  /\ EndFlows(modelCommit.by \cap OauthFlows)
  /\ UNCHANGED <<modelDisk, modelMemory, modelVault, issued, expired, superseded, unlockDone>>

-----------------------------------------------------------------------------
(* The program starts: the Vault may open by itself, an old document is     *)
(* migrated if its secret can be stored, and the configuration is loaded.   *)
migrate_legacy(open) == modelDisk.legacy /\ (PlainOf(modelDisk) # {} => open)

StartGateway ==
  /\ modelMemory = {} /\ modelCommit.pc = "free"
  /\ \E open \in BOOLEAN :
       /\ modelVault' = [modelVault EXCEPT !.open = open]
       /\ IF migrate_legacy(open)
          THEN BeginCommit(modelDisk, {}, {}) /\ UNCHANGED <<modelMemory, modelConfig>>
          ELSE /\ modelMemory' = {modelDisk}
               /\ modelConfig' = IF \A profile \in ActiveOf(modelDisk) : profile.cred # {} => open
                                 THEN load_or_default(modelDisk) ELSE active_metadata(modelDisk)
               /\ UNCHANGED modelCommit
  /\ UNCHANGED <<modelDisk, modelTurn, oauthFlow, oauthInflight, issued, expired, superseded, unlockDone>>

CrashGateway ==
  /\ modelMemory # {} \/ modelCommit.pc # "free"
  /\ modelMemory' = {} /\ modelCommit' = NoCommit /\ modelConfig' = Local
  /\ modelTurn' = [t \in Turns |-> NoTurn]
  /\ oauthFlow' = [f \in OauthFlows |-> [pc |-> "idle", config |-> Local]] /\ oauthInflight' = {}
  /\ modelVault' = [modelVault EXCEPT !.open = FALSE] /\ unlockDone' = FALSE
  /\ UNCHANGED <<modelDisk, issued, expired, superseded>>

GatewayRuns == modelMemory # {} /\ modelCommit.pc = "free"

(* vault_unlock, vault_initialize: the migration asks whether a collection  *)
(* is in memory, and since the start one always is.                         *)
vault_unlock ==
  /\ GatewayRuns /\ ~modelVault.open
  /\ modelVault' = [modelVault EXCEPT !.open = TRUE]
  /\ modelConfig' = load_or_default(Collection)
  /\ unlockDone' = TRUE
  /\ UNCHANGED <<modelDisk, modelMemory, modelCommit, modelTurn, oauthFlow, oauthInflight, issued, expired, superseded>>

vault_lock ==
  /\ modelVault.open
  /\ modelVault' = [modelVault EXCEPT !.open = FALSE] /\ unlockDone' = FALSE
  /\ UNCHANGED <<modelDisk, modelMemory, modelConfig, modelCommit, modelTurn, oauthFlow, oauthInflight, issued,
                 expired, superseded>>

-----------------------------------------------------------------------------
(* Requests of the user.                                                    *)
PutProfile(coll, p, config, activate) ==
  [coll EXCEPT !.prof = [q \in DOMAIN @ \cup {p} |-> IF q = p THEN Profile(config) ELSE @[q]],
               !.active = IF activate \/ @ = {} THEN {p} ELSE @]

(* save_atomic: a local configuration switches every profile off; another   *)
(* replaces the active profile of its kind or adds one.                     *)
SaveTargets(config) ==
  LET same == {p \in Collection.active : Collection.prof[p].kind = config.kind}
  IN  IF same # {} THEN same ELSE ProfileIds \ DOMAIN Collection.prof
save_atomic(config, then, by) ==
  IF config.kind = "local" THEN BeginCommit([Collection EXCEPT !.active = {}], then, by)
  ELSE \E p \in SaveTargets(config) : BeginCommit(PutProfile(Collection, p, config, TRUE), then, by)

KeysEntered == {0} \cup (IF issued < MaxSecrets THEN {issued + 1} ELSE {})
Entered(key) == issued' = IF key = 0 THEN issued ELSE key

(* The managed model needs an organization; the fields of the others are    *)
(* checked one by one.                                                      *)
validate_config(kinds, organization) == {kind \in kinds : kind = "managed" => organization}

configure ==
  /\ CanLoad(Collection)
  /\ \E organization, sameUrl \in BOOLEAN : \E kind \in validate_config(ModelKinds, organization), key \in KeysEntered :
       /\ save_atomic(configured_model(kind, key, sameUrl, load_or_default(Collection)), {}, {})
       /\ Entered(key)
  /\ UNCHANGED oauthInflight

save_profile ==
  /\ \E organization, sameUrl \in BOOLEAN, p \in ProfileIds, key \in KeysEntered :
     \E kind \in validate_config(ModelKinds \ {"local"}, organization) :
       LET known == p \in DOMAIN Collection.prof
           config == configured_model(kind, key, sameUrl, IF known THEN Hydrated(Collection.prof[p]) ELSE Local)
       IN  /\ known => Readable(Collection.prof[p])
           /\ Configured(config)
           /\ BeginCommit(PutProfile(Collection, p, config, FALSE), {}, {})
           /\ Entered(key)
  /\ UNCHANGED oauthInflight

activate_profile ==
  /\ \E p \in DOMAIN Collection.prof :
       /\ Readable(Collection.prof[p]) /\ Configured(Hydrated(Collection.prof[p]))
       /\ BeginCommit([Collection EXCEPT !.active = {p}], {Hydrated(Collection.prof[p])}, {})
  /\ UNCHANGED <<issued, oauthInflight>>

(* The active profile cannot be removed, nor one whose secret is locked in. *)
remove_profile ==
  /\ \E p \in DOMAIN Collection.prof \ Collection.active :
       /\ Readable(Collection.prof[p])
       /\ BeginCommit([Collection EXCEPT !.prof = [q \in DOMAIN @ \ {p} |-> @[q]]], {modelConfig}, {})
  /\ UNCHANGED <<issued, oauthInflight>>

(* A ChatGPT connection is no key: clearing the key keeps it.               *)
clear_api_key ==
  /\ CanLoad(Collection)
  /\ LET config == load_or_default(Collection)
     IN  save_atomic(IF config.kind = "chatgpt" THEN config ELSE [config EXCEPT !.secret = 0], {}, {})
  /\ UNCHANGED <<issued, oauthInflight>>

disconnect ==
  /\ save_atomic(apply_provider_defaults(Local), {}, {})
  /\ oauthInflight' = {}
  /\ UNCHANGED issued

ModelSettings ==
  /\ GatewayRuns
  /\ configure \/ save_profile \/ activate_profile \/ remove_profile \/ clear_api_key \/ disconnect
  /\ UNCHANGED <<modelDisk, modelMemory, modelVault, modelConfig, modelTurn, oauthFlow, expired, superseded, unlockDone>>

(* status reloads the configuration: a Vault opened since shows.            *)
current_status ==
  /\ GatewayRuns /\ modelConfig' = LoadConfig(Collection)
  /\ UNCHANGED <<modelDisk, modelMemory, modelVault, modelCommit, modelTurn, oauthFlow, oauthInflight, issued,
                 expired, superseded, unlockDone>>

-----------------------------------------------------------------------------
(* Turns.  Each try of a command-proposal turn reads the configuration      *)
(* again; decide and test make one try; a managed turn keeps the            *)
(* configuration it began with.                                             *)
SetTurn(t, next) == modelTurn' = [modelTurn EXCEPT ![t] = next]

is_transient_model_error(error) ==
  error \in {"unavailable", "rate", "json", "empty", "response", "provider_response"}

(* with_transient_model_retries: try again, or hand the error to the caller. *)
Retried(turn, error) ==
  IF is_transient_model_error(error) /\ turn.tries + 1 < MaxTries
  THEN IF turn.config.kind = "managed" THEN [turn EXCEPT !.tries = @ + 1]
       ELSE [NoTurn EXCEPT !.pc = "try", !.tries = turn.tries + 1]
  ELSE NoTurn

begin_turn(t) ==
  /\ modelMemory # {} /\ modelTurn[t] = NoTurn
  /\ \E tries \in {0, MaxTries - 1} :
       SetTurn(t, IF modelConfig.kind = "managed" THEN Sending([NoTurn EXCEPT !.tries = tries], "managed")
               ELSE [NoTurn EXCEPT !.pc = "try", !.tries = tries])
  /\ UNCHANGED <<modelCommit, issued>>

(* resolve_bearer_token: a ChatGPT token past its time is refreshed first.  *)
complete_json_turn(t) ==
  /\ modelTurn[t].pc = "try"
  /\ LET config == modelConfig
     IN  SetTurn(t, IF config.kind \in {"local", "managed"} \/ config.secret = 0 THEN NoTurn
                 ELSE IF config.kind = "chatgpt" /\ config.secret \in expired
                 THEN [modelTurn[t] EXCEPT !.pc = "refresh", !.config = config]
                 ELSE Sending(modelTurn[t], config.kind))
  /\ UNCHANGED <<modelCommit, issued>>

(* Another turn may have refreshed meanwhile, or the user switched.         *)
StillActive(t) == load_or_default(Collection).secret = modelTurn[t].config.secret

resolve_chatgpt_access_token(t) ==
  /\ GatewayRuns /\ modelTurn[t].pc = "refresh"
  /\ IF ~CanLoad(Collection) THEN SetTurn(t, NoTurn) /\ UNCHANGED modelCommit
     ELSE IF ~StillActive(t) THEN SetTurn(t, Retried(modelTurn[t], "unavailable")) /\ UNCHANGED modelCommit
     ELSE /\ modelCommit' = [NoCommit EXCEPT !.pc = "ask", !.by = {t}, !.config = {load_or_default(Collection)}]
          /\ UNCHANGED modelTurn
  /\ UNCHANGED issued

(* The provider's answer, under the lock: a new token, which may be lost on *)
(* the way, a refusal, or nothing.                                          *)
refresh_chatgpt_token(t) ==
  /\ modelCommit.pc = "ask" /\ t \in modelCommit.by
  /\ \/ /\ issued < MaxSecrets /\ issued' = issued + 1
        /\ LET updated == [(CHOOSE c \in modelCommit.config : TRUE) EXCEPT !.secret = issued + 1]
           IN  save_atomic(updated, {updated}, {t})
        /\ UNCHANGED modelTurn
     \/ /\ \E error \in {"unavailable", "response", "auth"} : SetTurn(t, Retried(modelTurn[t], error))
        /\ modelCommit' = NoCommit
        /\ UNCHANGED issued

(* What each reader of a response makes of it.                              *)
ResponseError(response) ==
  CASE response \in {"401", "403"} -> "auth" [] response = "429" -> "rate"
    [] response = "text" -> "none" [] response = "no_answer" -> "unavailable"
    [] response \in {"too_large", "not_json", "no_text"} -> "response"
    [] OTHER -> "unavailable"
parse_chat_completion_response(response) == ResponseError(response)
parse_anthropic_messages(response) == ResponseError(response)

(* A stream is an answer only with its completed event.                     *)
parse_chatgpt_responses(response) ==
  CASE response \in {"404", "unknown_model"} -> "invalid" [] response = "quota" -> "rate"
    [] response = "token_expired" -> "auth" [] response = "incomplete" -> "response"
    [] OTHER -> ResponseError(response)

managed_agent_error(code) ==
  CASE code = "forbidden" -> "auth" [] code = "credit" -> "credit" [] code = "timeout" -> "timeout"
    [] code = "invalid_request" -> "invalid" [] code \in {"rate", "json", "empty", "response"} -> code
    [] code \in {"decision", "command", "usage"} -> code [] OTHER -> "unavailable"
parse_managed_agent_response(response) ==
  CASE response = "402" -> "credit" [] response \in {"timeout", "json", "decision"} -> managed_agent_error(response)
    [] OTHER -> ResponseError(response)

Responses == {"401", "429", "402", "404", "too_large", "text", "json"}

send_turn(t) ==
  /\ modelTurn[t].pc = "send"
  /\ \E response \in Responses, anthropic \in BOOLEAN :
       LET error == CASE modelTurn[t].config.kind = "managed" -> parse_managed_agent_response(response)
                      [] modelTurn[t].config.kind = "chatgpt" -> parse_chatgpt_responses(response)
                      [] anthropic -> parse_anthropic_messages(response)
                      [] OTHER -> parse_chat_completion_response(response)
       IN  SetTurn(t, Retried(modelTurn[t], error))
  /\ UNCHANGED <<modelCommit, issued>>

TurnStep ==
  /\ \E t \in Turns : begin_turn(t) \/ complete_json_turn(t) \/ resolve_chatgpt_access_token(t)
                        \/ refresh_chatgpt_token(t) \/ send_turn(t)
  /\ UNCHANGED <<modelDisk, modelMemory, modelVault, modelConfig, oauthFlow, oauthInflight, expired, superseded,
                 unlockDone>>

(* external: the provider's clock runs out on the token in use.             *)
TokenExpires ==
  /\ \E s \in {modelConfig.secret} \ expired :
       modelConfig.kind = "chatgpt" /\ s # 0 /\ expired' = expired \cup {s}
  /\ UNCHANGED <<modelDisk, modelMemory, modelVault, modelConfig, modelCommit, modelTurn, oauthFlow, oauthInflight,
                 issued, superseded, unlockDone>>

-----------------------------------------------------------------------------
(* OAuth.  A new flow takes the slot of the one before it.  The flag that   *)
(* cancels is read only before a connection is accepted, so a cancelled     *)
(* flow may still get its code and go on.                                   *)
start_oauth(f) ==
  /\ modelMemory # {} /\ oauthFlow[f].pc = "idle"
  /\ oauthFlow' = [oauthFlow EXCEPT ![f].pc = "browser"]
  /\ oauthInflight' = {f}
  /\ UNCHANGED <<modelCommit, issued>>

cancel_oauth ==
  /\ oauthInflight # {} /\ oauthInflight' = {}
  /\ UNCHANGED <<modelCommit, oauthFlow, issued>>

(* A connection with the wrong state or no code is answered and waited past. *)
await_authorization_code(f) ==
  /\ oauthFlow[f].pc = "browser"
  /\ \/ oauthFlow' = [oauthFlow EXCEPT ![f].pc = "exchange"] /\ UNCHANGED oauthInflight
     \/ EndFlows({f})      \* cancelled, timed out, or refused in the browser
  /\ UNCHANGED <<modelCommit, issued>>

exchange_code(f) ==
  /\ oauthFlow[f].pc = "exchange"
  /\ \/ /\ issued < MaxSecrets /\ issued' = issued + 1
        /\ \E kind \in {"chatgpt", "key"} :
             oauthFlow' = [oauthFlow EXCEPT ![f] =
               [pc |-> "persist", config |-> apply_provider_defaults([kind |-> kind, secret |-> issued + 1])]]
        /\ UNCHANGED oauthInflight
     \/ EndFlows({f}) /\ UNCHANGED issued
  /\ UNCHANGED modelCommit

persist_tokens(f) ==
  /\ GatewayRuns /\ oauthFlow[f].pc = "persist"
  /\ \E p \in ProfileIds \ DOMAIN Collection.prof :
       BeginCommit(PutProfile(Collection, p, oauthFlow[f].config, FALSE), {}, {f})
  /\ oauthFlow' = [oauthFlow EXCEPT ![f].pc = "saving"]
  /\ UNCHANGED <<oauthInflight, issued>>

OauthStep ==
  /\ cancel_oauth \/ \E f \in OauthFlows : start_oauth(f) \/ await_authorization_code(f)
                                             \/ exchange_code(f) \/ persist_tokens(f)
  /\ UNCHANGED <<modelDisk, modelMemory, modelVault, modelConfig, modelTurn, expired, superseded, unlockDone>>

CommitNext == StoreSecret \/ SaveDocument \/ ForgetCredential \/ FinishCommit
ProfilesNext == StartGateway \/ CrashGateway \/ vault_unlock \/ vault_lock \/ CommitNext \/ ModelSettings
                  \/ current_status \/ OauthStep
TurnsNext == StartGateway \/ vault_unlock \/ CommitNext \/ ModelSettings \/ TurnStep \/ TokenExpires
ModelGatewayNext == ProfilesNext \/ TurnsNext
ModelGatewaySpec == ModelGatewayInit /\ [][ModelGatewayNext]_modelVars

-----------------------------------------------------------------------------
(* Every credential a saved or loaded profile names is in the Vault, so a   *)
(* profile listed as configured can be used: through failed saves, a Vault  *)
(* locked in the middle of a commit, and a crash between its steps.         *)
CredentialsResolve ==
  \A coll \in {modelDisk} \cup modelMemory : \A c \in References(coll) : modelVault.secret[c] # 0

(* No refresh is asked for with a token whose successor has been saved: two *)
(* turns that find the same token expired refresh it once.                  *)
RefreshesOnce ==
  modelCommit.pc = "ask" =>
    \A t \in modelCommit.by : modelTurn[t].config.secret \notin superseded

(* "legacy model credential migration is waiting for Vault unlock": once an *)
(* unlock has answered, the old document is gone.                           *)
UnlockMigrates == unlockDone => ~modelDisk.legacy
=============================================================================

----------------------------- MODULE JumpServer -----------------------------
(* One JumpServer flow: the REST calls that log in, list accounts and ask   *)
(* for one-time connection tokens, and the SSH logins at KoKo that spend    *)
(* them.  The server's side (who is permitted, where KoKo listens and with  *)
(* which key, which tokens are spent) moves between any two calls.          *)
EXTENDS Naturals, Sequences, SequencesExt, FiniteSets

CONSTANTS
  JmsAccounts,    \* the asset's accounts: [alias, name, username]
  JmsHosts,       \* hosts KoKo may listen on
  ApiHost,     \* the host of the API URL
  ProfilePort, \* the profile's SSH port
  SshPorts,    \* ports the server may advertise
  HostKeys,
  Connects,    \* connect calls that may overlap
  MaxTokens,   \* bound on the tokens the server issues
  MaxMoves     \* bound on the changes the server's side makes

ASSUME JmsAssumption == MaxTokens \in Nat

VARIABLES
  jms,         \* the server
  jmsAuth,     \* JumpServerAuthState of the flow
  jmsFlow,     \* what the flow remembers: accounts listed, choice, gateway
  jmsAttempt,     \* host-key checks waiting to be used: gateway and key
  koko,        \* the connect calls
  offered      \* how often each token was offered to a gateway

jmsVars == <<jms, jmsAuth, jmsFlow, jmsAttempt, koko, offered>>

(* A web port is never KoKo's.                                              *)
normalize_koko_ssh_port(port) == IF port \in {0, 80, 443} THEN 2222 ELSE port

(* Host and port of an SSH login.                                           *)
Gateway == [host : JmsHosts, port : {normalize_koko_ssh_port(port) : port \in SshPorts \union {ProfilePort}}]

(* Behind a loopback API the advertised host is replaced, its port kept.    *)
coerce_gateway_to_api_loopback(gateway) ==
  [host |-> IF jms.loopback THEN ApiHost ELSE gateway.host,
   port |-> normalize_koko_ssh_port(gateway.port)]

ApiGateway == [host |-> ApiHost, port |-> normalize_koko_ssh_port(ProfilePort)]

(* What the flow's account may be called, in the order it is tried.         *)
WithName(names, name) == IF Contains(names, name) THEN names ELSE Append(names, name)

connection_account_candidates(account) ==
  WithName(WithName(<<account.alias>>, account.name), account.username)

ConnectMethods == <<"ssh_guide", "ssh_client">>

IdleConnect == [pc |-> "idle", for |-> {}, account |-> 1, method |-> 1, key |-> "none",
                token |-> 0, gateway |-> ApiGateway, session |-> {}]

JumpServerInit ==
  /\ jms \in [keys : [Gateway -> HostKeys], permitted : {JmsAccounts}, smart : {{}},
              loopback : BOOLEAN, live : {TRUE}, issued : {<<>>}, spent : {{}}, moves : {0}]
  /\ jmsAuth = "none"
  /\ jmsFlow = [listed |-> {}, account |-> {}, gateway |-> {}]
  /\ jmsAttempt = {}
  /\ koko = [c \in Connects |-> IdleConnect]
  /\ offered = [t \in 1..MaxTokens |-> 0]

-----------------------------------------------------------------------------
(* The server's side.                                                       *)

Moves(next) == /\ jms.moves < MaxMoves
               /\ jms' = [next EXCEPT !.moves = jms.moves + 1]
               /\ UNCHANGED <<jmsAuth, jmsFlow, jmsAttempt, koko, offered>>

server_permits == \E accounts \in SUBSET JmsAccounts : Moves([jms EXCEPT !.permitted = accounts])

server_advertises ==
  \E gateway \in [host : JmsHosts, port : SshPorts] : Moves([jms EXCEPT !.smart = {gateway}])

server_changes_key ==
  \E gateway \in Gateway, key \in HostKeys : Moves([jms EXCEPT !.keys[gateway] = key])

server_ends_login == Moves([jms EXCEPT !.live = FALSE])

-----------------------------------------------------------------------------
(* Logging in.  A password may lead to a one-time code; an access key is    *)
(* tried on three paths, and the first answer that decides ends the search. *)

Authenticated == jmsAuth \in {"password", "access_key"}

LogIn(stage) == /\ jmsAuth' = stage
                /\ jms' = [jms EXCEPT !.live = TRUE]
                /\ UNCHANGED <<jmsFlow, jmsAttempt, koko, offered>>

start_password_auth == /\ jmsAuth = "none"
                       /\ \E outcome \in {"password", "pending_mfa"} : LogIn(outcome)

complete_otp_login == jmsAuth = "pending_mfa" /\ LogIn("password")

get_current_user(answers) ==
  LET decides == {i \in 1..3 : answers[i] \notin {"unauthorized", "not_found", "empty"}} IN
  decides # {} /\ answers[CHOOSE i \in decides : \A j \in decides : i <= j] = "user"

start_access_key_auth ==
  /\ jmsAuth = "none"
  /\ \E answers \in [1..3 -> {"user", "unauthorized", "not_found", "empty", "error"}] :
       get_current_user(answers)
  /\ LogIn("access_key")

-----------------------------------------------------------------------------
(* Choosing.  list_accounts falls back to the asset's detail when the list  *)
(* is refused or empty: both show what is permitted now.                    *)

list_accounts_from_asset_detail == jms.permitted

jms_list_accounts ==
  /\ Authenticated /\ jms.live
  /\ jmsFlow' = [jmsFlow EXCEPT !.listed = list_accounts_from_asset_detail]
  /\ UNCHANGED <<jms, jmsAuth, jmsAttempt, koko, offered>>

choose_account ==
  /\ \E account \in jmsFlow.listed : jmsFlow' = [jmsFlow EXCEPT !.account = {account}]
  /\ UNCHANGED <<jms, jmsAuth, jmsAttempt, koko, offered>>

(* Where KoKo is: what the server advertises, else the API's own host.      *)
resolve_koko_ssh_endpoint(gateway) ==
  IF jms.smart = {} THEN gateway = ApiGateway
  ELSE \/ \E smart \in jms.smart : gateway = coerce_gateway_to_api_loopback(smart)
       \/ gateway = ApiGateway          \* the endpoint answers with an error

(* The flow remembers the gateway, and the user is asked about the key      *)
(* found there.                                                             *)
resolve_gateway_endpoint(gateway) == jmsFlow' = [jmsFlow EXCEPT !.gateway = {gateway}]
prepare_host(gateway) == jmsAttempt' = jmsAttempt \union {[gateway |-> gateway, key |-> jms.keys[gateway]]}

resolve_ssh_gateway ==
  /\ Authenticated /\ jms.live /\ jmsFlow.account # {}
  /\ \E gateway \in Gateway :
       /\ resolve_koko_ssh_endpoint(gateway)
       /\ resolve_gateway_endpoint(gateway) /\ prepare_host(gateway)
  /\ UNCHANGED <<jms, jmsAuth, koko, offered>>

-----------------------------------------------------------------------------
(* Connecting: the check is used up, a token is asked for under each name   *)
(* and method, KoKo is looked up again, and the token is spent there.       *)

AtPc(c, pc) == koko[c].pc = pc
Proceed(c, next) == koko' = [koko EXCEPT ![c] = next]
GiveUp(c) == Proceed(c, [koko[c] EXCEPT !.pc = "idle"])

JmsUnlock(c) ==
  /\ AtPc(c, "idle") /\ koko[c].session = {} /\ Authenticated
  /\ \E check \in jmsAttempt :
       /\ {check.gateway} = jmsFlow.gateway
       /\ jmsAttempt' = jmsAttempt \ {check}
       /\ Proceed(c, [IdleConnect EXCEPT !.pc = "connect", !.key = check.key])
  /\ UNCHANGED <<jms, jmsAuth, jmsFlow, offered>>

(* The flow's choice is read once, when the provider is called.             *)
connect_flow(c) ==
  /\ AtPc(c, "connect")
  /\ Proceed(c, [koko[c] EXCEPT !.pc = "token", !.for = jmsFlow.account])
  /\ UNCHANGED <<jms, jmsAuth, jmsFlow, jmsAttempt, offered>>

RequestAccountNow(c) == jmsFlow.account

RequestAccount(c) == koko[c].for

Candidates(c) ==
  connection_account_candidates(CHOOSE account \in RequestAccount(c) : TRUE)

(* The next method, the next name, or the end of the search.                *)
NextTry(c) ==
  CASE koko[c].method < Len(ConnectMethods) -> [koko[c] EXCEPT !.method = @ + 1]
    [] koko[c].method = Len(ConnectMethods) /\ koko[c].account < Len(Candidates(c)) ->
         [koko[c] EXCEPT !.account = @ + 1, !.method = 1]
    [] OTHER -> [koko[c] EXCEPT !.pc = "idle"]

create_connection_token_with_method(c) ==
  /\ AtPc(c, "token") /\ jms.live /\ Len(jms.issued) < MaxTokens
  /\ \E account \in jms.permitted :
       /\ account.alias = Candidates(c)[koko[c].account]
       /\ jms' = [jms EXCEPT !.issued = Append(@, account)]
  /\ Proceed(c, [koko[c] EXCEPT !.pc = "endpoint", !.token = Len(jms.issued) + 1])
  /\ UNCHANGED <<jmsAuth, jmsFlow, jmsAttempt, offered>>

(* Refused, or no answer: the search goes on.  A login that has ended ends  *)
(* it.                                                                      *)
connection_token_refused(c) ==
  /\ AtPc(c, "token")
  /\ IF jms.live THEN Proceed(c, NextTry(c)) ELSE GiveUp(c)
  /\ UNCHANGED <<jms, jmsAuth, jmsFlow, jmsAttempt, offered>>

(* The endpoint handed out with the token, else the one advertised.         *)
fetch_token_client_endpoint(c) ==
  /\ AtPc(c, "endpoint")
  /\ IF jms.live
     THEN \E gateway \in Gateway :
            /\ \/ resolve_koko_ssh_endpoint(gateway)
               \/ \E named \in [host : JmsHosts, port : SshPorts] :
                    gateway = coerce_gateway_to_api_loopback(named)
            /\ Proceed(c, [koko[c] EXCEPT !.pc = "token_ssh", !.gateway = gateway])
     ELSE GiveUp(c)
  /\ UNCHANGED <<jms, jmsAuth, jmsFlow, jmsAttempt, offered>>

(* How often an SSH login of a kind offers its secret when it is refused:   *)
(* a password login tries keyboard-interactive as well.                     *)
Offers(password_only) == IF password_only THEN 1 ELSE 2

JmsToken(c) ==
  /\ AtPc(c, "token_ssh")
  /\ LET token == koko[c].token  offers == Offers(TRUE) IN
     \/ /\ jms.keys[koko[c].gateway] = koko[c].key /\ token \notin jms.spent
        /\ offered' = [offered EXCEPT ![token] = @ + 1]
        /\ jms' = [jms EXCEPT !.spent = @ \union {token}]
        /\ Proceed(c, [koko[c] EXCEPT !.pc = "idle", !.session = {jms.issued[token]}])
     \/ /\ IF jms.keys[koko[c].gateway] = koko[c].key
           THEN /\ offered' = [offered EXCEPT ![token] = @ + offers]
                /\ jms' = [jms EXCEPT !.spent = @ \union {token}]
           ELSE UNCHANGED <<offered, jms>>
        /\ Proceed(c, [koko[c] EXCEPT !.pc = IF jmsAuth = "password" THEN "direct" ELSE "idle"])
  /\ UNCHANGED <<jmsAuth, jmsFlow, jmsAttempt>>

(* A password login goes on as user@account@asset with its own password.    *)
JmsPassword(c) ==
  /\ AtPc(c, "direct")
  /\ \/ /\ jms.keys[koko[c].gateway] = koko[c].key
        /\ \E account \in jms.permitted :
             /\ account.alias = Candidates(c)[1]
             /\ Proceed(c, [koko[c] EXCEPT !.pc = "idle", !.session = {account}])
     \/ GiveUp(c)
  /\ UNCHANGED <<jms, jmsAuth, jmsFlow, jmsAttempt, offered>>

JumpServerNext ==
  \/ server_permits \/ server_advertises \/ server_changes_key \/ server_ends_login
  \/ start_password_auth \/ complete_otp_login \/ start_access_key_auth
  \/ jms_list_accounts \/ choose_account \/ resolve_ssh_gateway
  \/ \E c \in Connects :
       \/ JmsUnlock(c) \/ connect_flow(c) \/ create_connection_token_with_method(c)
       \/ connection_token_refused(c) \/ fetch_token_client_endpoint(c)
       \/ JmsToken(c) \/ JmsPassword(c)

JumpServerSpec == JumpServerInit /\ [][JumpServerNext]_jmsVars

-----------------------------------------------------------------------------
(* Names that tell the accounts apart, which JumpServer does not demand.    *)
NamesAreUnique ==
  \A x, y \in JmsAccounts : {x.alias, x.name, x.username} \cap {y.alias, y.name, y.username} # {} => x = y

(* A one-time token is offered to a gateway once, whatever fails, and a     *)
(* session is on the account that was chosen when the connection was asked  *)
(* for, although the choice, the permissions and the gateway may all change *)
(* while create_connection_token_for_accounts works through the names.      *)
TokensAreOneTime ==
  /\ \A t \in DOMAIN offered : offered[t] <= 1
  /\ NamesAreUnique => \A c \in Connects : koko[c].session \subseteq koko[c].for
=============================================================================

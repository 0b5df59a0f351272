------------------------------- MODULE Bastion -------------------------------
(***************************************************************************)
(* Connecting through a bastion: the flows of connection/flow, the          *)
(* JumpServer, Teleport and Boundary providers, the helper processes two of *)
(* them need, and the sessions of connection/session_bridge.  The map of    *)
(* flows is locked only between two calls of the provider, so several       *)
(* requests for one flow overlap; a request that finds its flow gone when   *)
(* the provider answers drops what it got.  Lock sections of one request    *)
(* that follow each other with no call between them are one step.           *)
(***************************************************************************)
EXTENDS Naturals, Sequences, FiniteSets

CONSTANTS
  Flows,            \* identities of flows, each used once
  Calls,            \* requests that may be in progress
  Conns,            \* connections, each used once; a session has its connection's name
  Providers,        \* the providers profiles use
  Assets,
  AccountsOf,       \* the accounts of each asset
  PreferredAsset,   \* the asset the profile names, or NoAsset
  PreferredAccount, \* the account the profile names, or NoAccount
  KeepsPassword,    \* whether JumpServer was entered with a password
  MAX_FLOWS         \* flows that are kept

NoAsset == "no-asset"

NoAccount == "no-account"

NoConn == "no-conn"

Accounts == UNION {AccountsOf[a] : a \in Assets}

ASSUME BastionAssumption ==
  /\ Providers \subseteq {"jumpserver", "teleport", "boundary"}
  /\ PreferredAsset \in Assets \cup {NoAsset}
  /\ PreferredAccount \in Accounts \cup {NoAccount}
  /\ KeepsPassword \in BOOLEAN /\ MAX_FLOWS \in Nat \ {0}
  /\ NoConn \notin Conns

VARIABLES
  flow,    \* the flows: Unused, Gone, or a record
  order,   \* the flows that are kept, oldest first
  call,    \* what each request is doing
  helper,  \* the helper process of each connection
  sess     \* the sessions of the bridge

vars == <<flow, order, call, helper, sess>>

Unused == [state |-> "Unused"]

Gone == [state |-> "Gone"]

Idle == [pc |-> "idle"]

UiStates == {"AwaitingUser", "AwaitingExternalAuth", "Authenticated", "DiscoveringAssets",
             "SelectingAsset", "DiscoveringAccounts", "SelectingAccount", "Connecting", "Connected"}

NewFlow(p) ==
  [provider |-> p, state |-> "Authenticating", granted |-> FALSE, cache |-> {}, asset |-> NoAsset,
   account |-> NoAccount, conn |-> NoConn]

NoSession == [listed |-> FALSE, reader |-> "off", sftp |-> FALSE, holder |-> "free",
              ending |-> "no", disconnects |-> 0]

Init ==
  /\ flow = [f \in Flows |-> Unused] /\ order = <<>>
  /\ call = [c \in Calls |-> Idle]
  /\ helper = [k \in Conns |-> "none"]
  /\ sess = [k \in Conns |-> NoSession]

get(f) == flow[f].state \in UiStates

Done(c) == call' = [call EXCEPT ![c] = Idle]

Goes(c, step) == call' = [call EXCEPT ![c] = step]

Becomes(f, r) == flow' = [flow EXCEPT ![f] = r]

Without(s, f) == SelectSeq(s, LAMBDA g : g # f)

(* The helper of a connection that is dropped: nothing kills it.  A stdio   *)
(* proxy ends by itself because its input closes with the stream.           *)
Dropped(h, k) ==
  IF k # NoConn /\ h[k] = "stdio" THEN [h EXCEPT ![k] = "ended"] ELSE h

-----------------------------------------------------------------------------
(* Authentication.                                                          *)

(* What start_auth and continue_auth of a provider may answer.              *)
jumpserver_start_auth == {"challenge", "granted"}

teleport_start_auth == {"external", "granted"}

boundary_start_auth == {"granted"}

start_auth(p) ==
  CASE p = "jumpserver" -> jumpserver_start_auth
    [] p = "teleport" -> teleport_start_auth
    [] p = "boundary" -> boundary_start_auth

(* The one-time code is right, or the challenge stays.                      *)
jumpserver_continue_auth == {"granted", "error"}

(* tsh is asked for its status until the login in the browser is there.     *)
teleport_continue_auth == {"granted", "error"}

boundary_continue_auth == {"error"}

continue_auth_step(p) ==
  CASE p = "jumpserver" -> jumpserver_continue_auth
    [] p = "teleport" -> teleport_continue_auth
    [] p = "boundary" -> boundary_continue_auth

flow_from_auth_step(r, step) ==
  [r EXCEPT !.granted = step = "granted",
            !.state = CASE step = "challenge" -> "AwaitingUser"
                        [] step = "external" -> "AwaitingExternalAuth"
                        [] step = "granted" -> "Authenticated"]

(* Expired flows are gone already; the oldest makes room for the new one.   *)
insert_flow(f, r) ==
  LET full == Len(order) >= MAX_FLOWS
  IN /\ flow' = [g \in Flows |-> IF g = f THEN r
                                 ELSE IF full /\ g = Head(order) THEN Gone ELSE flow[g]]
     /\ order' = Append(IF full THEN Tail(order) ELSE order, f)
     /\ helper' = IF full THEN Dropped(helper, flow[Head(order)].conn) ELSE helper

bastion_start(c, f, p, step) ==
  /\ call[c] = Idle /\ flow[f] = Unused
  /\ step \in start_auth(p)
  /\ insert_flow(f, flow_from_auth_step(NewFlow(p), step))
  /\ Goes(c, [pc |-> "advance", flow |-> f])
  /\ UNCHANGED sess

(* The provider is asked with the session the flow has now.                 *)
continue_auth(c, f) ==
  /\ call[c] = Idle
  /\ get(f) /\ flow[f].state \in {"AwaitingUser", "AwaitingExternalAuth"}
  /\ Goes(c, [pc |-> "auth", flow |-> f])
  /\ UNCHANGED <<flow, order, helper, sess>>

AuthAnswered(c, step) ==
  /\ call[c].pc = "auth"
  /\ LET f == call[c].flow
     IN IF get(f)
        THEN /\ step \in continue_auth_step(flow[f].provider)
             /\ IF step = "error" THEN Done(c) /\ UNCHANGED flow
                ELSE /\ Becomes(f, flow_from_auth_step(flow[f], step))
                     /\ Goes(c, [pc |-> "advance", flow |-> f])
        ELSE step = "error" /\ Done(c) /\ UNCHANGED flow
  /\ UNCHANGED <<order, helper, sess>>

-----------------------------------------------------------------------------
(* Assets and accounts.                                                     *)

require_auth_session(f) ==
  get(f) /\ flow[f].state \notin {"AwaitingUser", "AwaitingExternalAuth"}

(* The asset is noted and, when the profile names an account, the provider  *)
(* is asked for the accounts of it.                                         *)
Chosen(c, f, r, a) ==
  IF PreferredAccount # NoAccount
  THEN /\ Becomes(f, [r EXCEPT !.asset = a, !.state = "DiscoveringAccounts"])
       /\ Goes(c, [pc |-> "accounts", flow |-> f, asset |-> a, want |-> PreferredAccount, picker |-> TRUE])
  ELSE /\ Becomes(f, [r EXCEPT !.asset = a, !.state = "SelectingAccount"])
       /\ Done(c)

BeginSelect(c, f, a) ==
  IF a \in flow[f].cache THEN Chosen(c, f, flow[f], a)
  ELSE IF require_auth_session(f)
  THEN Goes(c, [pc |-> "assets", flow |-> f, want |-> a]) /\ UNCHANGED flow
  ELSE Done(c) /\ UNCHANGED flow

advance_after_authenticated(c) ==
  /\ call[c].pc = "advance"
  /\ LET f == call[c].flow
     IN IF get(f) /\ flow[f].state = "Authenticated"
        THEN IF PreferredAsset # NoAsset THEN BeginSelect(c, f, PreferredAsset)
             ELSE Becomes(f, [flow[f] EXCEPT !.state = "SelectingAsset"]) /\ Done(c)
        ELSE Done(c) /\ UNCHANGED flow
  /\ UNCHANGED <<order, helper, sess>>

list_assets(c, f) ==
  /\ call[c] = Idle /\ require_auth_session(f)
  /\ Becomes(f, [flow[f] EXCEPT !.state = "DiscoveringAssets"])
  /\ Goes(c, [pc |-> "assets", flow |-> f, want |-> NoAsset])
  /\ UNCHANGED <<order, helper, sess>>

select_asset(c, f, a) ==
  /\ call[c] = Idle /\ get(f)
  /\ BeginSelect(c, f, a)
  /\ UNCHANGED <<order, helper, sess>>

(* The provider lists a page of the assets, or fails.  A listing moves the  *)
(* flow back to the choice of an asset wherever it has got to meanwhile.    *)
AssetsListed(c, page, ok) ==
  /\ call[c].pc = "assets"
  /\ LET f == call[c].flow
         want == call[c].want
         r == [flow[f] EXCEPT !.cache = @ \cup page]
     IN IF ~ok \/ ~get(f) THEN page = {} /\ Done(c) /\ UNCHANGED flow
        ELSE IF want = NoAsset
        THEN Becomes(f, [r EXCEPT !.state = "SelectingAsset"]) /\ Done(c)
        ELSE IF want \in page \/ r.provider = "boundary"
        THEN Chosen(c, f, [r EXCEPT !.cache = @ \cup {want}], want)
        ELSE Becomes(f, r) /\ Done(c)
  /\ UNCHANGED <<order, helper, sess>>

(* list_accounts and select_account; want is NoAccount for the former.      *)
select_account(c, f, want) ==
  /\ call[c] = Idle /\ get(f) /\ flow[f].asset # NoAsset
  /\ Goes(c, [pc |-> "accounts", flow |-> f, asset |-> flow[f].asset, want |-> want, picker |-> FALSE])
  /\ UNCHANGED <<flow, order, helper, sess>>

(* The accounts JumpServer knows; the other two take any name.              *)
list_accounts(p, a) == IF p = "jumpserver" THEN AccountsOf[a] ELSE Accounts

(* The account is looked up among those of the asset that was asked about.  *)
AccountsListed(c, ok) ==
  /\ call[c].pc = "accounts"
  /\ LET f == call[c].flow
         found == /\ call[c].want # NoAccount
                  /\ call[c].want \in list_accounts(flow[f].provider, call[c].asset)
     IN Becomes(f, IF ~get(f) \/ (~ok /\ ~call[c].picker) THEN flow[f]
                   ELSE IF ok /\ found
                   THEN [flow[f] EXCEPT !.account = call[c].want, !.state = "Connecting"]
                   ELSE [flow[f] EXCEPT !.state = "SelectingAccount"])
  /\ Done(c)
  /\ UNCHANGED <<order, helper, sess>>

-----------------------------------------------------------------------------
(* Connecting.                                                              *)

Connecting == {"connect", "koko", "direct", "listener", "tcp", "credential", "ssh", "store", "open"}

(* The flow, request or session that still holds a connection.              *)
HoldersOf(k) ==
  {f \in Flows : get(f) /\ flow[f].conn = k} \cup
  {c \in Calls : call[c].pc \in Connecting /\ call[c].conn = k} \cup
  (IF sess[k].listed \/ sess[k].ending \in {"stream", "user"} THEN {"session"} ELSE {})

Fresh(k) == helper[k] = "none" /\ HoldersOf(k) = {} /\ sess[k] = NoSession

(* The state is set before what is missing is noticed.                      *)
connect(c, f, k) ==
  /\ Becomes(f, [flow[f] EXCEPT !.state = "Connecting"])
  /\ IF flow[f].asset # NoAsset /\ flow[f].account # NoAccount
     THEN Goes(c, [pc |-> "connect", flow |-> f, conn |-> k, provider |-> flow[f].provider])
     ELSE Done(c)

(* The request that connects, takes the connection out of the flow and      *)
(* opens the session; the gateway's key has been verified.                  *)
bastion_connect_flow(c, f, k) ==
  /\ call[c] = Idle /\ get(f) /\ Fresh(k)
  /\ connect(c, f, k)
  /\ UNCHANGED <<order, helper, sess>>

(* A step of the provider that goes on or ends the request.                 *)
Proceeds(c, ok, pc) == IF ok THEN Goes(c, [call[c] EXCEPT !.pc = pc]) ELSE Done(c)

(* JumpServer makes a token for the asset and one of the account's names    *)
(* and finds the gateway the token is for.                                  *)
create_connection_token(c, ok) ==
  /\ call[c].pc = "connect" /\ call[c].provider = "jumpserver"
  /\ Proceeds(c, ok, "koko")
  /\ UNCHANGED <<flow, order, helper, sess>>

connect_with_token(c, ok) ==
  /\ call[c].pc = "koko"
  /\ Proceeds(c, ok \/ KeepsPassword, IF ok THEN "store" ELSE "direct")
  /\ UNCHANGED <<flow, order, helper, sess>>

connect_with_password(c, ok) ==
  /\ call[c].pc = "direct"
  /\ Proceeds(c, ok, "store")
  /\ UNCHANGED <<flow, order, helper, sess>>

(* A helper is started with pipes for the streams its caller asked for.     *)
Spawned(k, kind) == [helper EXCEPT ![k] = kind]

(* Its process group is told to end, then killed.                           *)
Killed(k) == [helper EXCEPT ![k] = "ended"]

(* Teleport: prepare_connection wants a login that is still valid and a     *)
(* user the node allows, then the proxy's input and output are the stream.  *)
spawn_stdio_proxy(c, ok) ==
  /\ call[c].pc = "connect" /\ call[c].provider = "teleport"
  /\ Proceeds(c, ok, "ssh")
  /\ helper' = IF ok THEN Spawned(call[c].conn, "stdio") ELSE helper
  /\ UNCHANGED <<flow, order, sess>>

(* Boundary: the proxy is told to listen on a port that was free just now.  *)
spawn_local_proxy(c, ok) ==
  /\ call[c].pc = "connect" /\ call[c].provider = "boundary"
  /\ Proceeds(c, ok, "listener")
  /\ helper' = IF ok THEN Spawned(call[c].conn, "proxy") ELSE helper
  /\ UNCHANGED <<flow, order, sess>>

(* A local proxy that does not listen in time is killed.                    *)
wait_for_listener(c, ready) ==
  /\ call[c].pc = "listener"
  /\ Proceeds(c, ready, "tcp")
  /\ helper' = IF ready THEN helper ELSE Killed(call[c].conn)
  /\ UNCHANGED <<flow, order, sess>>

(* The proxy is dialled; then a password, the user's or one the proxy       *)
(* printed, is needed.                                                      *)
open_with_manager(c, ok) ==
  /\ call[c].pc = "tcp"
  /\ Proceeds(c, ok, "credential")
  /\ helper' = IF ok THEN helper ELSE Dropped(helper, call[c].conn)
  /\ UNCHANGED <<flow, order, sess>>

boundary_credential(c, ok) ==
  /\ call[c].pc = "credential"
  /\ Proceeds(c, ok, "ssh")
  /\ helper' = IF ok THEN helper ELSE Dropped(helper, call[c].conn)
  /\ UNCHANGED <<flow, order, sess>>

(* The SSH handshake, authentication and the shell.                         *)
open_prepared_ssh_session(c, ok) ==
  /\ call[c].pc = "ssh"
  /\ Proceeds(c, ok, "store")
  /\ helper' = IF ok THEN helper ELSE Dropped(helper, call[c].conn)
  /\ UNCHANGED <<flow, order, sess>>

StoreConnection(c) ==
  /\ call[c].pc = "store"
  /\ LET f == call[c].flow
         k == call[c].conn
     IN IF get(f)
        THEN /\ Becomes(f, [flow[f] EXCEPT !.conn = k, !.state = "Connected"])
             /\ helper' = Dropped(helper, flow[f].conn)
             /\ Goes(c, [pc |-> "take", flow |-> f])
        ELSE Done(c) /\ helper' = Dropped(helper, k) /\ UNCHANGED flow
  /\ UNCHANGED <<order, sess>>

(* The connection is taken out and its flow is forgotten.                   *)
TakeOut(f) == Becomes(f, Gone) /\ order' = Without(order, f)

take_connection(c) ==
  /\ call[c].pc = "take"
  /\ LET f == call[c].flow
     IN IF get(f) /\ flow[f].state = "Connected"
        THEN TakeOut(f) /\ Goes(c, [pc |-> "open", conn |-> flow[f].conn])
        ELSE Done(c) /\ UNCHANGED <<flow, order>>
  /\ UNCHANGED <<helper, sess>>

(* cancel, and a flow that has outlived FLOW_LIFETIME.                      *)
cancel(f) ==
  /\ get(f)
  /\ TakeOut(f)
  /\ helper' = Dropped(helper, flow[f].conn)
  /\ UNCHANGED <<call, sess>>

-----------------------------------------------------------------------------
(* Sessions of the bridge.                                                  *)

SpawnReader(c) ==
  /\ call[c].pc = "open" /\ sess[call[c].conn].reader = "off"
  /\ sess' = [sess EXCEPT ![call[c].conn].reader = "on"]
  /\ UNCHANGED <<flow, order, call, helper>>

InsertSession(c) ==
  /\ call[c].pc = "open" /\ sess[call[c].conn].reader # "off"
  /\ sess' = [sess EXCEPT ![call[c].conn].listed = TRUE]
  /\ Done(c)
  /\ UNCHANGED <<flow, order, helper>>

StreamEnd(k) ==
  IF sess[k].listed
  THEN [sess[k] EXCEPT !.reader = "ended", !.listed = FALSE, !.ending = "stream"]
  ELSE [sess[k] EXCEPT !.reader = "ended"]

stream_bastion_output(k) ==
  /\ sess[k].reader = "on"
  /\ sess' = [sess EXCEPT ![k] = StreamEnd(k)]
  /\ UNCHANGED <<flow, order, call, helper>>

disconnect(k) ==
  /\ sess[k].listed
  /\ sess' = [sess EXCEPT ![k].listed = FALSE, ![k].ending = "user"]
  /\ UNCHANGED <<flow, order, call, helper>>

(* Whoever removed the session closes SFTP under its lock, sends            *)
(* Disconnected and drops the connection.                                   *)
FinishEnd(k) ==
  /\ sess[k].ending \in {"stream", "user"} /\ sess[k].holder = "free"
  /\ sess' = [sess EXCEPT ![k].ending = "done", ![k].sftp = FALSE, ![k].disconnects = @ + 1]
  /\ helper' = Dropped(helper, k)
  /\ UNCHANGED <<flow, order, call>>

sftp_open(c, k) ==
  /\ call[c] = Idle /\ sess[k].listed
  /\ Goes(c, [pc |-> "sftp", sess |-> k])
  /\ UNCHANGED <<flow, order, helper, sess>>

(* Mutant: the session is not looked up again once the lock is held.        *)
OpenAnyway(k) == TRUE

StillListed(k) == sess[k].listed

SftpLocked(c) ==
  /\ call[c].pc = "sftp"
  /\ LET k == call[c].sess
     IN /\ sess[k].holder = "free"
        /\ IF ~sess[k].sftp /\ StillListed(k)
           THEN /\ sess' = [sess EXCEPT ![k].holder = "held"]
                /\ Goes(c, [pc |-> "sftpOpening", sess |-> k])
           ELSE Done(c) /\ UNCHANGED sess
  /\ UNCHANGED <<flow, order, helper>>

SftpOpened(c, ok) ==
  /\ call[c].pc = "sftpOpening"
  /\ sess' = [sess EXCEPT ![call[c].sess].holder = "free", ![call[c].sess].sftp = ok]
  /\ Done(c)
  /\ UNCHANGED <<flow, order, helper>>

-----------------------------------------------------------------------------
Next ==
  \/ \E c \in Calls, f \in Flows :
       \/ \E p \in Providers : \E step \in {"challenge", "external", "granted"} : bastion_start(c, f, p, step)
       \/ continue_auth(c, f) \/ list_assets(c, f)
       \/ \E a \in Assets : select_asset(c, f, a)
       \/ \E want \in Accounts \cup {NoAccount} : select_account(c, f, want)
       \/ \E k \in Conns : bastion_connect_flow(c, f, k)
  \/ \E c \in Calls :
       \/ \E step \in {"granted", "error"} : AuthAnswered(c, step)
       \/ advance_after_authenticated(c)
       \/ \E page \in SUBSET Assets, ok \in BOOLEAN : AssetsListed(c, page, ok)
       \/ \E ok \in BOOLEAN :
            \/ AccountsListed(c, ok) \/ SftpOpened(c, ok)
            \/ create_connection_token(c, ok) \/ connect_with_token(c, ok)
            \/ connect_with_password(c, ok)
            \/ spawn_stdio_proxy(c, ok) \/ spawn_local_proxy(c, ok) \/ wait_for_listener(c, ok)
            \/ open_with_manager(c, ok) \/ boundary_credential(c, ok)
            \/ open_prepared_ssh_session(c, ok)
       \/ StoreConnection(c) \/ take_connection(c) \/ SpawnReader(c) \/ InsertSession(c)
       \/ SftpLocked(c)
       \/ \E k \in Conns : sftp_open(c, k)
  \/ \E f \in Flows : cancel(f)
  \/ \E k \in Conns : stream_bastion_output(k) \/ disconnect(k) \/ FinishEnd(k)

Spec == Init /\ [][Next]_vars

-----------------------------------------------------------------------------
TypeOK ==
  /\ \A f \in Flows : flow[f].state \in UiStates \cup {"Unused", "Gone"}
  /\ \A i \in DOMAIN order : get(order[i])
  /\ helper \in [Conns -> {"none", "stdio", "proxy", "ended"}]

(* A session ends once and whole, whether the user or the remote end was    *)
(* first: one Disconnected event, and no SFTP channel outlives the session, *)
(* although it may be opening while the session is removed (disconnect,     *)
(* stream_bastion_output and sftp_open).                                    *)
EndsOnce ==
  \A k \in Conns : /\ sess[k].disconnects <= 1
                   /\ sess[k].ending = "done" => ~sess[k].sftp

(* "Resources that must be released when the SSH session ends": the helper  *)
(* process of a session that has ended is no longer running.                *)
HelperReleased ==
  \A k \in Conns : sess[k].ending = "done" => helper[k] \notin {"stdio", "proxy"}
=============================================================================

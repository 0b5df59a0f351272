----------------------------- MODULE SshSessions -----------------------------
(***************************************************************************)
(* Direct and jump-host SSH sessions: the host verification attempts and    *)
(* known hosts of known_hosts/service, the jump preparations of ssh/jump,   *)
(* the requests of commands/ssh and commands/connection, and the sessions   *)
(* of ssh/session_manager.  A request reads the profile, consumes what the  *)
(* user approved, connects and only then remembers the secret; profiles,    *)
(* known hosts, the vault and the host's own key may change in between.     *)
(***************************************************************************)
EXTENDS Naturals, FiniteSets, Sequences

CONSTANTS
  Profiles,    \* server profiles
  JumpOf,      \* the profile each one goes through, or Direct
  Hosts,       \* endpoints a profile may name
  InitialHost, \* the host each profile starts with
  InitialKey,  \* the key each host starts with
  Keys,        \* host keys
  Secrets,     \* passwords the user may type; RightSecret opens every host
  RightSecret,
  Attempts,    \* identities of verification attempts, each used once
  Preparations, \* identities of jump preparations, each used once
  Requests,    \* requests in progress
  Sessions,    \* identities of sessions, each used once
  MaxChanges   \* bound on edits of profiles and on changes of a host's key

Direct == "direct"

NoKey == "no-key"

NoSecret == "no-secret"

ASSUME SshAssumption ==
  /\ NoKey \notin Keys /\ InitialKey \in [Hosts -> Keys]
  /\ InitialHost \in [Profiles -> Hosts]
  /\ JumpOf \in [Profiles -> Profiles \cup {Direct}] /\ Direct \notin Profiles
  /\ NoSecret \notin Secrets /\ "stored" \notin Secrets

VARIABLES
  hostOf,    \* the host of each profile
  hostKey,   \* the key each host presents now
  known,     \* the remembered key of each scope and host
  attempt,   \* verification attempts
  prep,      \* jump preparations
  req,       \* what each request is doing
  session,   \* terminal sessions
  vault,     \* whether the vault is unlocked
  stored,    \* the secret the vault has for each profile
  approved,  \* history: what the user has agreed to, as <<scope, host, key>>
  changes    \* edits and key changes so far

sshVars == <<hostOf, hostKey, known, attempt, prep, req, session, vault, stored, approved, changes>>

FreshSession == [state |-> "fresh"]

EndedSession == [state |-> "gone"]

Ready == [pc |-> "ready"]

(* direct, or the jump profile with its endpoint.                           *)
DirectScope == <<Direct, Direct>>

jump_route_scope(p) == IF JumpOf[p] = Direct THEN DirectScope ELSE <<JumpOf[p], hostOf[JumpOf[p]]>>

Scopes == {DirectScope} \cup (({JumpOf[p] : p \in Profiles} \ {Direct}) \X Hosts)

SshInit ==
  /\ hostOf = InitialHost /\ hostKey = InitialKey
  /\ known = [x \in Scopes \X Hosts |-> NoKey]
  /\ attempt = [a \in Attempts |-> FreshSession] /\ prep = [j \in Preparations |-> FreshSession]
  /\ req = [r \in Requests |-> Ready] /\ session = [s \in Sessions |-> FreshSession]
  /\ vault = TRUE /\ stored = [p \in Profiles |-> NoSecret]
  /\ approved = {} /\ changes = 0

hostVars == <<hostOf, hostKey, changes>>

vaultVars == <<vault, stored>>

-----------------------------------------------------------------------------
(* Host verification.                                                       *)

(* An attempt is made for what the host presents; a known host with another *)
(* key is refused.                                                          *)
prepare_scoped(a, scope, h, key) ==
  /\ attempt[a] = FreshSession
  /\ known[<<scope, h>>] \in {NoKey, key}
  /\ attempt' = [attempt EXCEPT ![a] =
       [state |-> "pending", scope |-> scope, host |-> h, key |-> key,
        approved |-> known[<<scope, h>>] = key]]

(* A connection of its own reads the key the host presents, directly or     *)
(* through the jump host's connection, and is closed again.                 *)
scan_host_key(h) == hostKey[h]

scan_host_key_via(h) == hostKey[h]

(* The user asks to connect to a profile that is reached directly.          *)
known_host_prepare(a, p) ==
  /\ JumpOf[p] = Direct
  /\ prepare_scoped(a, DirectScope, hostOf[p], scan_host_key(hostOf[p]))
  /\ UNCHANGED <<hostVars, vaultVars, known, prep, req, session, approved>>

(* The user trusts what is shown, for this attempt or for good.  The key is *)
(* remembered over whatever is known by now.                                *)
trust(a, remember) ==
  /\ attempt[a].state = "pending"
  /\ LET x == <<attempt[a].scope, attempt[a].host>>
     IN /\ known' = IF remember THEN [known EXCEPT ![x] = attempt[a].key] ELSE known
        /\ approved' = approved \cup {<<x[1], x[2], attempt[a].key>>}
  /\ attempt' = [attempt EXCEPT ![a].approved = TRUE]
  /\ UNCHANGED <<hostVars, vaultVars, prep, req, session>>

(* Cancelled, or older than ATTEMPT_LIFETIME.                               *)
cancel_attempt(a) ==
  /\ attempt[a].state = "pending"
  /\ attempt' = [attempt EXCEPT ![a] = EndedSession]
  /\ UNCHANGED <<hostVars, vaultVars, known, prep, req, session, approved>>

remove_scoped(x) ==
  /\ known[x] # NoKey
  /\ known' = [known EXCEPT ![x] = NoKey]
  /\ UNCHANGED <<hostVars, vaultVars, attempt, prep, req, session, approved>>

(* Mutant: the approval is not asked for.                                   *)
ConsumeUnapproved(a, scope, h) ==
  attempt[a].state = "pending" /\ attempt[a].scope = scope /\ attempt[a].host = h

(* The attempt is used up whether or not it fits.                           *)
consume_scoped(a, scope, h) ==
  /\ attempt[a].state = "pending" /\ attempt[a].approved
  /\ attempt[a].scope = scope /\ attempt[a].host = h

-----------------------------------------------------------------------------
(* Requests: connect, test and the preparation of a jump.                   *)

(* A jump's preparation fits as long as both profiles are as they were.     *)
consume_preparation(j, p) ==
  /\ prep[j].state = "pending"
  /\ prep[j].target = <<p, hostOf[p]>> /\ prep[j].jump = <<JumpOf[p], hostOf[JumpOf[p]]>>

(* kind is "session", "test" or "jump"; for "jump" p is the jump profile    *)
(* and dest the target.  input is what the user gave: a secret, with        *)
(* remember or not, or "stored".                                            *)
Input == [secret : Secrets, remember : BOOLEAN] \cup {[secret |-> "stored", remember |-> FALSE]}

open_profile_session(r, kind, p, dest, a, j, input) ==
  /\ req[r] = Ready
  /\ kind = "jump" => JumpOf[dest] = p
  /\ kind # "jump" => dest = p
  /\ LET start == [pc |-> "prepare", kind |-> kind, profile |-> p, dest |-> dest, attempt |-> a,
                   input |-> input, route |-> IF kind = "jump" THEN DirectScope ELSE jump_route_scope(p)]
     IN IF kind # "jump" /\ JumpOf[p] # Direct
        THEN /\ prep[j].state = "pending"
             /\ prep' = [prep EXCEPT ![j] = EndedSession]
             /\ req' = [req EXCEPT ![r] = IF consume_preparation(j, p) THEN start ELSE Ready]
        ELSE /\ req' = [req EXCEPT ![r] = start]
             /\ UNCHANGED prep
  /\ UNCHANGED <<hostVars, vaultVars, known, attempt, session, approved>>

(* What is sent as the password: a stored one needs the unlocked vault, and *)
(* so does one that is to be remembered.                                    *)
resolve_for_profile(p, input) ==
  CASE input.secret = "stored" -> IF vault THEN stored[p] ELSE NoSecret
    [] input.secret # "stored" /\ input.remember -> IF vault THEN input.secret ELSE NoSecret
    [] OTHER -> input.secret

(* The profile is read again: its host now is the one the attempt must fit. *)
prepare_connection_scoped(r) ==
  /\ req[r].pc = "prepare" /\ attempt[req[r].attempt].state = "pending"
  /\ LET q == req[r]
         a == q.attempt
         secret == resolve_for_profile(q.profile, q.input)
         fits == consume_scoped(a, q.route, hostOf[q.profile])
     IN /\ attempt' = [attempt EXCEPT ![a] = EndedSession]
        /\ req' = [req EXCEPT ![r] =
             IF fits /\ secret # NoSecret
             THEN [pc |-> "connect", kind |-> q.kind, profile |-> q.profile, dest |-> q.dest,
                   scope |-> q.route, host |-> hostOf[q.profile], key |-> attempt[a].key,
                   secret |-> secret, remember |-> q.input.remember]
             ELSE Ready]
  /\ UNCHANGED <<hostVars, vaultVars, known, prep, session, approved>>

(* The host presents its key, which must be the approved one, before the    *)
(* secret is sent.                                                          *)
verify_exact_fingerprint(q) == hostKey[q.host] = q.key

(* The password is sent as such and, refused, as every interactive answer.  *)
authenticate_password_or_keyboard(secret) == secret = RightSecret

authenticate_with_config(q) == verify_exact_fingerprint(q) /\ authenticate_password_or_keyboard(q.secret)

(* The same through the jump's connection, for the target's own key.        *)
authenticate_via(q) == verify_exact_fingerprint(q) /\ authenticate_password_or_keyboard(q.secret)

authenticate(q) == IF q.scope = DirectScope THEN authenticate_with_config(q) ELSE authenticate_via(q)

remember_after_success(q) == q.remember /\ vault /\ authenticate(q)

(* What every request does once the host has answered.                      *)
Answered(q) ==
  /\ stored' = IF remember_after_success(q) THEN [stored EXCEPT ![q.profile] = q.secret] ELSE stored
  /\ UNCHANGED <<hostVars, vault, known, attempt, prep, approved>>

OpenedSession(q) == [state |-> "open", profile |-> q.profile, shell |-> TRUE, seen |-> <<q.scope, q.host, q.key>>]

(* A session is listed before its reader is started.                        *)
ssh_connect(r, s) ==
  /\ req[r].pc = "connect" /\ req[r].kind = "session" /\ req[r].scope = DirectScope
  /\ session[s] = FreshSession
  /\ Answered(req[r])
  /\ session' = IF authenticate(req[r]) THEN [session EXCEPT ![s] = OpenedSession(req[r])] ELSE session
  /\ req' = [req EXCEPT ![r] = Ready]

(* The session owns the connection to the jump host.                        *)
connect_via(r, s) ==
  /\ req[r].pc = "connect" /\ req[r].kind = "session" /\ req[r].scope # DirectScope
  /\ session[s] = FreshSession
  /\ Answered(req[r])
  /\ session' = IF authenticate(req[r]) THEN [session EXCEPT ![s] = OpenedSession(req[r])] ELSE session
  /\ req' = [req EXCEPT ![r] = Ready]

ssh_test(r) ==
  /\ req[r].pc = "connect" /\ req[r].kind = "test"
  /\ Answered(req[r])
  /\ req' = [req EXCEPT ![r] = Ready]
  /\ UNCHANGED session

JumpConnected(r) ==
  /\ req[r].pc = "connect" /\ req[r].kind = "jump"
  /\ Answered(req[r])
  /\ req' = [req EXCEPT ![r] = IF authenticate(req[r])
                              THEN [pc |-> "scan", profile |-> req[r].profile, dest |-> req[r].dest,
                                    host |-> req[r].host]
                              ELSE Ready]
  /\ UNCHANGED session

(* Through the jump, the target's key is read, an attempt is made for it    *)
(* and the connection is kept for the request that will use it.             *)
ssh_jump_prepare(r, a, j) ==
  /\ req[r].pc = "scan" /\ prep[j] = FreshSession
  /\ LET q == req[r]
         h == hostOf[q.dest]
         scope == <<q.profile, q.host>>
     IN \/ /\ prepare_scoped(a, scope, h, scan_host_key_via(h))
           /\ prep' = [prep EXCEPT ![j] = [state |-> "pending", target |-> <<q.dest, h>>, jump |-> scope]]
        \/ /\ known[<<scope, h>>] \notin {NoKey, scan_host_key_via(h)}
           /\ UNCHANGED <<attempt, prep>>
  /\ req' = [req EXCEPT ![r] = Ready]
  /\ UNCHANGED <<hostVars, vaultVars, known, session, approved>>

(* Cancelled, expired, or the oldest of MAX_PENDING_PREPARATIONS.           *)
ssh_jump_cancel(j) ==
  /\ prep[j].state = "pending"
  /\ prep' = [prep EXCEPT ![j] = EndedSession]
  /\ UNCHANGED <<hostVars, vaultVars, known, attempt, req, session, approved>>

-----------------------------------------------------------------------------
(* Sessions.                                                                *)

(* The reader's end: the session goes with its transport, and stays for     *)
(* SFTP and tunnels when only the shell is closed.                          *)
stream_output(s, transport) ==
  /\ session[s].state = "open" /\ session[s].shell
  /\ session' = [session EXCEPT ![s] = IF transport THEN EndedSession
                                       ELSE [session[s] EXCEPT !.shell = FALSE]]
  /\ UNCHANGED <<hostVars, vaultVars, known, attempt, prep, req, approved>>

(* The user closes it, or disconnect_all does.                              *)
ssh_disconnect(s) ==
  /\ session[s].state = "open"
  /\ session' = [session EXCEPT ![s] = EndedSession]
  /\ UNCHANGED <<hostVars, vaultVars, known, attempt, prep, req, approved>>

-----------------------------------------------------------------------------
(* What changes under a request.                                            *)

update_profile(p, h) ==
  /\ changes < MaxChanges /\ hostOf[p] # h
  /\ hostOf' = [hostOf EXCEPT ![p] = h] /\ changes' = changes + 1
  /\ UNCHANGED <<hostKey, vaultVars, known, attempt, prep, req, session, approved>>

HostKeyChanges(h, k) ==
  /\ changes < MaxChanges /\ hostKey[h] # k
  /\ hostKey' = [hostKey EXCEPT ![h] = k] /\ changes' = changes + 1
  /\ UNCHANGED <<hostOf, vaultVars, known, attempt, prep, req, session, approved>>

lock_or_unlock ==
  /\ vault' = ~vault
  /\ UNCHANGED <<hostVars, stored, known, attempt, prep, req, session, approved>>

forget(p) ==
  /\ vault /\ stored[p] # NoSecret
  /\ stored' = [stored EXCEPT ![p] = NoSecret]
  /\ UNCHANGED <<hostVars, vault, known, attempt, prep, req, session, approved>>

(* An import: the profile gets the host that came with it, and the vault    *)
(* the secret, which no login has tried.  When the vault is locked between  *)
(* the two, only the host changes.                                          *)
apply_parsed_profiles(p, h, secret) ==
  /\ vault /\ changes < MaxChanges
  /\ hostOf' = [hostOf EXCEPT ![p] = h] /\ changes' = changes + 1
  /\ stored' = [stored EXCEPT ![p] = secret]
  /\ UNCHANGED <<hostKey, vault, known, attempt, prep, req, session, approved>>

SshNext ==
  \/ \E a \in Attempts :
       \/ \E p \in Profiles : known_host_prepare(a, p)
       \/ \E remember \in BOOLEAN : trust(a, remember)
       \/ cancel_attempt(a)
       \/ \E r \in Requests, j \in Preparations :
            \/ \E kind \in {"session", "test", "jump"}, p, dest \in Profiles, input \in Input :
                 open_profile_session(r, kind, p, dest, a, j, input)
            \/ ssh_jump_prepare(r, a, j)
  \/ \E x \in Scopes \X Hosts : remove_scoped(x)
  \/ \E r \in Requests :
       \/ prepare_connection_scoped(r) \/ ssh_test(r) \/ JumpConnected(r)
       \/ \E s \in Sessions : ssh_connect(r, s) \/ connect_via(r, s)
  \/ \E j \in Preparations : ssh_jump_cancel(j)
  \/ \E s \in Sessions : ssh_disconnect(s) \/ \E transport \in BOOLEAN : stream_output(s, transport)
  \/ \E p \in Profiles :
       \/ forget(p)
       \/ \E h \in Hosts : update_profile(p, h) \/ \E secret \in Secrets : apply_parsed_profiles(p, h, secret)
  \/ \E h \in Hosts, k \in Keys : HostKeyChanges(h, k)
  \/ lock_or_unlock

SshSpec == SshInit /\ [][SshNext]_sshVars

-----------------------------------------------------------------------------
(* A session talks to a host whose key the user has agreed to, for that     *)
(* host and that route, however the profile, the known hosts and the host   *)
(* changed while the request was on its way (consume_scoped,                *)
(* verify_exact_fingerprint).                                               *)
SessionIsVerified == \A s \in Sessions : session[s].state = "open" => session[s].seen \in approved
=============================================================================

-------------------------- MODULE SshSessionProofs --------------------------
(***************************************************************************)
(* What the modules of sessions guarantee for any profiles, hosts, flows,   *)
(* requests and connections.                                                *)
(*   SshSessions  a session talks only to a key the user agreed to          *)
(*   Bastion      a session ends once, and its SFTP channel with it         *)
(*   SftpSessions a command gets all its output, and no drop is lost        *)
(***************************************************************************)
EXTENDS SshSessions, Bastion, SftpSessions, SequenceTheorems, TLAPS

-----------------------------------------------------------------------------
(* Types.                                                                   *)

PendingAttempts == [state : {"pending"}, scope : Scopes, host : Hosts, key : Keys, approved : BOOLEAN]

AttemptStates == {FreshSession, EndedSession} \cup PendingAttempts

RequestKinds == {"session", "test", "jump"}

Preparing == [pc : {"prepare"}, kind : RequestKinds, profile : Profiles, dest : Profiles,
              attempt : Attempts, input : Input, route : Scopes]

ConnectingRequests == [pc : {"connect"}, kind : RequestKinds, profile : Profiles, dest : Profiles,
               scope : Scopes, host : Hosts, key : Keys, secret : Secrets, remember : BOOLEAN]

Scanning == [pc : {"scan"}, profile : Profiles, dest : Profiles, host : Hosts]

RequestStates == {Ready} \cup Preparing \cup ConnectingRequests \cup Scanning

OpenSessions == [state : {"open"}, profile : Profiles, shell : BOOLEAN, seen : Scopes \X Hosts \X Keys]

SessionStates == {FreshSession, EndedSession} \cup OpenSessions

HostTypes == hostOf \in [Profiles -> Hosts] /\ hostKey \in [Hosts -> Keys]

KnownTypes == known \in [Scopes \X Hosts -> Keys \cup {NoKey}]

AttemptTypes == attempt \in [Attempts -> AttemptStates]

RequestTypes == req \in [Requests -> RequestStates]

SessionTypes == session \in [Sessions -> SessionStates]

VaultTypes == stored \in [Profiles -> Secrets \cup {NoSecret}]

-----------------------------------------------------------------------------
(* The inductive invariant.                                                 *)

(* The jump of a request for a jump is the target's.                        *)
JumpFits ==
  \A r \in Requests :
    \/ req[r].pc \in {"prepare", "connect"} /\ req[r].kind = "jump"
    \/ req[r].pc = "scan"
    => JumpOf[req[r].dest] = req[r].profile

(* What is remembered was agreed to, an approved attempt too, and so was    *)
(* the key a request is going to insist on.                                 *)
KnownAgreed == \A s \in Scopes, h \in Hosts : known[<<s, h>>] # NoKey => <<s, h, known[<<s, h>>]>> \in approved

AttemptAgreed ==
  \A a \in Attempts : attempt[a].state = "pending" /\ attempt[a].approved =>
    <<attempt[a].scope, attempt[a].host, attempt[a].key>> \in approved

RequestAgreed ==
  \A r \in Requests : req[r].pc = "connect" => <<req[r].scope, req[r].host, req[r].key>> \in approved

SshInv ==
  /\ HostTypes /\ KnownTypes /\ AttemptTypes /\ RequestTypes /\ SessionTypes /\ VaultTypes
  /\ JumpFits /\ KnownAgreed /\ AttemptAgreed /\ RequestAgreed
  /\ SessionIsVerified

(* The state of an attempt, a request or a session tells its fields.        *)
LEMMA AttemptFields ==
  ASSUME AttemptTypes, NEW a \in Attempts, attempt[a].state = "pending"
  PROVE  attempt[a] \in PendingAttempts
BY DEF AttemptTypes, AttemptStates, FreshSession, EndedSession

LEMMA RequestFields ==
  ASSUME RequestTypes, NEW r \in Requests
  PROVE  /\ req[r].pc = "prepare" => req[r] \in Preparing
         /\ req[r].pc = "connect" => req[r] \in ConnectingRequests
         /\ req[r].pc = "scan" => req[r] \in Scanning
<1>1. req[r] \in RequestStates  BY DEF RequestTypes
<1>2. CASE req[r] = Ready  BY <1>2 DEF Ready
<1>3. CASE req[r] \in Preparing  BY <1>3 DEF Preparing
<1>4. CASE req[r] \in ConnectingRequests  BY <1>4 DEF ConnectingRequests
<1>5. CASE req[r] \in Scanning  BY <1>5 DEF Scanning
<1>6. QED  BY <1>1, <1>2, <1>3, <1>4, <1>5 DEF RequestStates

LEMMA SessionFields ==
  ASSUME SessionTypes, NEW s \in Sessions, session[s].state = "open"
  PROVE  session[s] \in OpenSessions
BY DEF SessionTypes, SessionStates, FreshSession, EndedSession

(* The route of a profile and that of a jump are scopes.                    *)
LEMMA RouteScope ==
  ASSUME HostTypes, NEW p \in Profiles
  PROVE  DirectScope \in Scopes /\ jump_route_scope(p) \in Scopes
BY SshAssumption DEF HostTypes, jump_route_scope, Scopes

LEMMA JumpScope ==
  ASSUME NEW p \in Profiles, NEW d \in Profiles, NEW h \in Hosts, JumpOf[d] = p
  PROVE  <<p, h>> \in Scopes
BY SshAssumption DEF Scopes

-----------------------------------------------------------------------------
(* One attempt is made, for what a host presents.                           *)
LEMMA AttemptMade ==
  ASSUME SshInv, NEW a \in Attempts, NEW s \in Scopes, NEW h \in Hosts, NEW k \in Keys,
         prepare_scoped(a, s, h, k), approved' = approved
  PROVE  AttemptTypes' /\ AttemptAgreed'
<1> DEFINE n == [state |-> "pending", scope |-> s, host |-> h, key |-> k,
                 approved |-> known[<<s, h>>] = k]
<1>1. attempt' = [attempt EXCEPT ![a] = n]  BY DEF prepare_scoped
<1>2. n \in PendingAttempts  BY DEF PendingAttempts
<1>3. AttemptTypes'  BY <1>1, <1>2 DEF SshInv, AttemptTypes, AttemptStates
<1>4. n.approved => <<s, h, k>> \in approved
  <2>1. k # NoKey  BY SshAssumption
  <2>2. QED  BY <2>1 DEF SshInv, KnownAgreed
<1>5. \A b \in Attempts : attempt'[b] = IF b = a THEN n ELSE attempt[b]
  BY <1>1 DEF SshInv, AttemptTypes
<1>6. /\ n.scope = s /\ n.host = h /\ n.key = k  OBVIOUS
<1> HIDE DEF n
<1>7. AttemptAgreed'  BY <1>4, <1>5, <1>6 DEF SshInv, AttemptAgreed
<1>8. QED  BY <1>3, <1>7

(* Steps that leave parts of the state alone keep what is said of them.     *)
LEMMA KeptKnown ==
  ASSUME SshInv, known' = known, approved \subseteq approved'
  PROVE  KnownTypes' /\ KnownAgreed'
BY DEF SshInv, KnownTypes, KnownAgreed

LEMMA KeptAttempts ==
  ASSUME SshInv, attempt' = attempt, approved \subseteq approved'
  PROVE  AttemptTypes' /\ AttemptAgreed'
BY DEF SshInv, AttemptTypes, AttemptAgreed

LEMMA KeptRequests ==
  ASSUME SshInv, req' = req, approved \subseteq approved'
  PROVE  RequestTypes' /\ RequestAgreed' /\ JumpFits'
BY DEF SshInv, RequestTypes, RequestAgreed, JumpFits

LEMMA KeptSessions ==
  ASSUME SshInv, session' = session, approved \subseteq approved'
  PROVE  SessionTypes' /\ SessionIsVerified'
BY DEF SshInv, SessionTypes, SessionIsVerified

LEMMA KeptHosts ==
  ASSUME SshInv, UNCHANGED hostVars PROVE HostTypes'
BY DEF SshInv, HostTypes, hostVars

LEMMA KeptVault ==
  ASSUME SshInv, UNCHANGED vaultVars PROVE VaultTypes'
BY DEF SshInv, VaultTypes, vaultVars
-----------------------------------------------------------------------------
(* One request goes on.                                                     *)
LEMMA RequestMoved ==
  ASSUME SshInv, NEW r \in Requests, NEW q \in RequestStates, req' = [req EXCEPT ![r] = q],
         approved' = approved,
         q.pc = "connect" => <<q.scope, q.host, q.key>> \in approved,
         \/ q.pc \in {"prepare", "connect"} /\ q.kind = "jump"
         \/ q.pc = "scan"
         => JumpOf[q.dest] = q.profile
  PROVE  RequestTypes' /\ RequestAgreed' /\ JumpFits'
<1>1. RequestTypes'  BY DEF SshInv, RequestTypes
<1>2. \A x \in Requests : req'[x] = IF x = r THEN q ELSE req[x]  BY DEF SshInv, RequestTypes
<1>3. RequestAgreed'  BY <1>2 DEF SshInv, RequestAgreed
<1>4. JumpFits'  BY <1>2 DEF SshInv, JumpFits
<1>5. QED  BY <1>1, <1>3, <1>4

LEMMA RequestReady ==
  ASSUME SshInv, NEW r \in Requests, req' = [req EXCEPT ![r] = Ready], approved' = approved
  PROVE  RequestTypes' /\ RequestAgreed' /\ JumpFits'
<1>1. Ready \in RequestStates /\ Ready.pc = "ready"  BY DEF RequestStates, Ready
<1> QED  BY <1>1, RequestMoved

-----------------------------------------------------------------------------
(* Attempts.                                                                *)
LEMMA AttemptSteps ==
  ASSUME SshInv, NEW a \in Attempts,
         \/ \E p \in Profiles : known_host_prepare(a, p)
         \/ \E remember \in BOOLEAN : trust(a, remember)
         \/ cancel_attempt(a)
  PROVE  SshInv'
<1>1. ASSUME NEW p \in Profiles, known_host_prepare(a, p) PROVE SshInv'
  <2>1. hostOf[p] \in Hosts /\ scan_host_key(hostOf[p]) \in Keys /\ DirectScope \in Scopes
    BY RouteScope DEF SshInv, HostTypes, scan_host_key
  <2>2. /\ prepare_scoped(a, DirectScope, hostOf[p], scan_host_key(hostOf[p]))
        /\ UNCHANGED <<hostVars, vaultVars, known, prep, req, session, approved>>
    BY <1>1 DEF known_host_prepare
  <2>3. AttemptTypes' /\ AttemptAgreed'  BY <2>1, <2>2, AttemptMade
  <2>4. QED  BY <2>2, <2>3, KeptKnown, KeptRequests, KeptSessions, KeptHosts, KeptVault DEF SshInv
<1>2. ASSUME NEW remember \in BOOLEAN, trust(a, remember) PROVE SshInv'
  <2> DEFINE x == <<attempt[a].scope, attempt[a].host>>
             t == <<attempt[a].scope, attempt[a].host, attempt[a].key>>
             n == [attempt[a] EXCEPT !.approved = TRUE]
  <2>1. attempt[a] \in PendingAttempts  BY <1>2, AttemptFields DEF trust, SshInv
  <2>2. /\ known' = IF remember THEN [known EXCEPT ![x] = attempt[a].key] ELSE known
        /\ approved' = approved \cup {t} /\ attempt' = [attempt EXCEPT ![a].approved = TRUE]
        /\ UNCHANGED <<hostVars, vaultVars, prep, req, session>>
    BY <1>2 DEF trust
  <2>3. attempt' = [attempt EXCEPT ![a] = n]  BY <2>2 DEF SshInv, AttemptTypes
  <2>4. /\ n \in PendingAttempts /\ n.scope = attempt[a].scope /\ n.host = attempt[a].host
        /\ n.key = attempt[a].key
    BY <2>1 DEF PendingAttempts
  <2> HIDE DEF n
  <2>5. AttemptTypes'  BY <2>3, <2>4 DEF SshInv, AttemptTypes, AttemptStates
  <2>6. AttemptAgreed'
    <3>1. \A b \in Attempts : attempt'[b] = IF b = a THEN n ELSE attempt[b]
      BY <2>3 DEF SshInv, AttemptTypes
    <3>2. QED  BY <2>2, <2>4, <3>1 DEF SshInv, AttemptAgreed
  <2>7. /\ x \in Scopes \X Hosts /\ attempt[a].key \in Keys
    BY <2>1 DEF PendingAttempts
  <2>8. KnownTypes'  BY <2>2, <2>7 DEF SshInv, KnownTypes
  <2>9. KnownAgreed'
    <3>1. \A s \in Scopes, h \in Hosts :
            known'[<<s, h>>] = IF remember /\ <<s, h>> = x THEN attempt[a].key ELSE known[<<s, h>>]
      BY <2>2, <2>7 DEF SshInv, KnownTypes
    <3>2. QED  BY <2>2, <3>1 DEF SshInv, KnownAgreed
  <2>10. QED  BY <2>2, <2>5, <2>6, <2>8, <2>9, KeptRequests, KeptSessions, KeptHosts, KeptVault DEF SshInv
<1>3. ASSUME cancel_attempt(a) PROVE SshInv'
  <2>1. /\ attempt' = [attempt EXCEPT ![a] = EndedSession]
        /\ UNCHANGED <<hostVars, vaultVars, known, prep, req, session, approved>>
    BY <1>3 DEF cancel_attempt
  <2>2. AttemptTypes'  BY <2>1 DEF SshInv, AttemptTypes, AttemptStates
  <2>3. AttemptAgreed'  BY <2>1 DEF SshInv, AttemptTypes, AttemptAgreed, EndedSession
  <2>4. QED  BY <2>1, <2>2, <2>3, KeptKnown, KeptRequests, KeptSessions, KeptHosts, KeptVault DEF SshInv
<1>4. QED  BY <1>1, <1>2, <1>3

-----------------------------------------------------------------------------
(* Requests.                                                                *)
LEMMA Opening ==
  ASSUME SshInv, NEW r \in Requests, NEW kind \in RequestKinds, NEW p \in Profiles,
         NEW dest \in Profiles, NEW a \in Attempts, NEW j, NEW input \in Input,
         open_profile_session(r, kind, p, dest, a, j, input)
  PROVE  SshInv'
<1> DEFINE q == [pc |-> "prepare", kind |-> kind, profile |-> p, dest |-> dest, attempt |-> a,
                 input |-> input, route |-> IF kind = "jump" THEN DirectScope ELSE jump_route_scope(p)]
<1>1. q \in Preparing  BY RouteScope DEF Preparing, SshInv
<1>2. q.pc = "prepare" /\ (q.kind = "jump" => JumpOf[q.dest] = q.profile)
  BY DEF open_profile_session
<1>3. /\ req' = [req EXCEPT ![r] = q] \/ req' = [req EXCEPT ![r] = Ready]
      /\ UNCHANGED <<hostVars, vaultVars, known, attempt, session, approved>>
  BY DEF open_profile_session
<1> HIDE DEF q
<1>4. RequestTypes' /\ RequestAgreed' /\ JumpFits'
  <2>1. q \in RequestStates  BY <1>1 DEF RequestStates
  <2>2. QED  BY <1>2, <1>3, <2>1, RequestMoved, RequestReady
<1>5. QED  BY <1>3, <1>4, KeptKnown, KeptAttempts, KeptSessions, KeptHosts, KeptVault DEF SshInv

(* What is sent is a secret.                                                *)
LEMMA Resolved ==
  ASSUME VaultTypes, NEW p \in Profiles, NEW input \in Input,
         resolve_for_profile(p, input) # NoSecret
  PROVE  resolve_for_profile(p, input) \in Secrets
<1>1. stored[p] \in Secrets \cup {NoSecret}  BY DEF VaultTypes
<1>2. input.secret \in Secrets \cup {"stored"}  BY DEF Input
<1>3. CASE input.secret = "stored"  BY <1>1, <1>3 DEF resolve_for_profile
<1>4. CASE input.secret # "stored" /\ input.remember  BY <1>2, <1>4 DEF resolve_for_profile
<1>5. CASE input.secret # "stored" /\ ~input.remember  BY <1>2, <1>5 DEF resolve_for_profile
<1>6. QED  BY <1>3, <1>4, <1>5

LEMMA Prepared ==
  ASSUME SshInv, NEW r \in Requests, prepare_connection_scoped(r)
  PROVE  SshInv'
<1> DEFINE a == req[r].attempt
           secret == resolve_for_profile(req[r].profile, req[r].input)
           fits == consume_scoped(a, req[r].route, hostOf[req[r].profile])
           q == [pc |-> "connect", kind |-> req[r].kind, profile |-> req[r].profile, dest |-> req[r].dest,
                 scope |-> req[r].route, host |-> hostOf[req[r].profile], key |-> attempt[a].key,
                 secret |-> secret, remember |-> req[r].input.remember]
<1>1. /\ req[r].pc = "prepare" /\ attempt[a].state = "pending"
      /\ attempt' = [attempt EXCEPT ![a] = EndedSession]
      /\ req' = [req EXCEPT ![r] = IF fits /\ secret # NoSecret THEN q ELSE Ready]
      /\ UNCHANGED <<hostVars, vaultVars, known, prep, session, approved>>
  BY DEF prepare_connection_scoped
<1>2. req[r] \in Preparing  BY <1>1, RequestFields DEF SshInv
<1>3. a \in Attempts /\ req[r].profile \in Profiles /\ req[r].input \in Input  BY <1>2 DEF Preparing
<1>4. attempt[a] \in PendingAttempts  BY <1>1, <1>3, AttemptFields DEF SshInv
<1>5. AttemptTypes'  BY <1>1 DEF SshInv, AttemptTypes, AttemptStates
<1>6. AttemptAgreed'  BY <1>1 DEF SshInv, AttemptTypes, AttemptAgreed, EndedSession
<1>7. RequestTypes' /\ RequestAgreed' /\ JumpFits'
  <2>1. CASE fits /\ secret # NoSecret
    <3>1. secret \in Secrets  BY <1>3, <2>1, Resolved DEF SshInv
    <3>2. req[r].input.remember \in BOOLEAN
      <4>1. \A i \in [secret : Secrets, remember : BOOLEAN] : i.remember \in BOOLEAN  OBVIOUS
      <4>2. [secret |-> "stored", remember |-> FALSE].remember \in BOOLEAN  OBVIOUS
      <4>3. QED  BY <1>3, <4>1, <4>2 DEF Input
    <3>3. hostOf[req[r].profile] \in Hosts  BY <1>3 DEF SshInv, HostTypes
    <3>4. q \in ConnectingRequests
      <4> HIDE DEF secret, a
      <4>1. attempt[a].key \in Keys  BY <1>4 DEF PendingAttempts
      <4>2. QED  BY <1>2, <3>1, <3>2, <3>3, <4>1 DEF ConnectingRequests, Preparing
    <3>5. <<attempt[a].scope, attempt[a].host, attempt[a].key>> \in approved
      BY <1>1, <1>3, <2>1 DEF SshInv, AttemptAgreed, consume_scoped
    <3>6. attempt[a].scope = req[r].route /\ attempt[a].host = hostOf[req[r].profile]
      BY <2>1 DEF consume_scoped
    <3>7. /\ q.scope = req[r].route /\ q.host = hostOf[req[r].profile] /\ q.key = attempt[a].key
          /\ q.pc = "connect" /\ q.kind = req[r].kind /\ q.dest = req[r].dest
          /\ q.profile = req[r].profile
      OBVIOUS
    <3>8. req' = [req EXCEPT ![r] = q]  BY <1>1, <2>1
    <3> HIDE DEF q, a
    <3>9. <<q.scope, q.host, q.key>> \in approved  BY <3>5, <3>6, <3>7
    <3>10. q.kind = "jump" => JumpOf[q.dest] = q.profile  BY <1>1, <3>7 DEF SshInv, JumpFits
    <3>11. q \in RequestStates  BY <3>4 DEF RequestStates
    <3>12. QED  BY <1>1, <3>7, <3>8, <3>9, <3>10, <3>11, RequestMoved
  <2>2. CASE ~(fits /\ secret # NoSecret)
    <3>1. req' = [req EXCEPT ![r] = Ready]  BY <1>1, <2>2
    <3>2. QED  BY <1>1, <3>1, RequestReady
  <2>3. QED  BY <2>1, <2>2
<1>8. QED  BY <1>1, <1>5, <1>6, <1>7, KeptKnown, KeptSessions, KeptHosts, KeptVault DEF SshInv
(* The host has answered: a secret may be remembered.                       *)
LEMMA AnswerKept ==
  ASSUME SshInv, NEW r \in Requests, req[r].pc = "connect", Answered(req[r])
  PROVE  /\ HostTypes' /\ KnownTypes' /\ KnownAgreed' /\ AttemptTypes' /\ AttemptAgreed'
         /\ VaultTypes' /\ approved' = approved
<1> DEFINE p == req[r].profile
           x == req[r].secret
<1>1. req[r] \in ConnectingRequests  BY RequestFields DEF SshInv
<1>2. p \in Profiles /\ x \in Secrets  BY <1>1 DEF ConnectingRequests
<1>3. /\ stored' = IF remember_after_success(req[r]) THEN [stored EXCEPT ![p] = x] ELSE stored
      /\ UNCHANGED <<hostVars, vault, known, attempt, prep, approved>>
  BY DEF Answered
<1> HIDE DEF p, x
<1>5. VaultTypes'  BY <1>2, <1>3 DEF SshInv, VaultTypes
<1>6. QED  BY <1>3, <1>5, KeptHosts, KeptKnown, KeptAttempts

LEMMA Connected ==
  ASSUME SshInv, NEW r \in Requests, NEW s \in Sessions, ssh_connect(r, s) \/ connect_via(r, s)
  PROVE  SshInv'
<1> DEFINE n == OpenedSession(req[r])
<1>1. /\ req[r].pc = "connect" /\ Answered(req[r]) /\ req' = [req EXCEPT ![r] = Ready]
      /\ session' = IF authenticate(req[r]) THEN [session EXCEPT ![s] = n] ELSE session
  BY DEF ssh_connect, connect_via
<1>2. req[r] \in ConnectingRequests  BY <1>1, RequestFields DEF SshInv
<1>3. n \in OpenSessions  BY <1>2 DEF OpenSessions, OpenedSession, ConnectingRequests
<1>4. n.seen \in approved  BY <1>1 DEF SshInv, RequestAgreed, OpenedSession
<1>5. approved' = approved  BY <1>1, AnswerKept
<1> HIDE DEF n
<1>6. SessionTypes'  BY <1>1, <1>3 DEF SshInv, SessionTypes, SessionStates
<1>7. SessionIsVerified'
  <2>1. \A y \in Sessions : session'[y] = session[y] \/ session'[y] = n
    BY <1>1 DEF SshInv, SessionTypes
  <2>2. QED  BY <1>4, <1>5, <2>1 DEF SshInv, SessionIsVerified
<1>8. RequestTypes' /\ RequestAgreed' /\ JumpFits'  BY <1>1, <1>5, RequestReady
<1>9. QED  BY <1>1, <1>6, <1>7, <1>8, AnswerKept DEF SshInv

LEMMA Tested ==
  ASSUME SshInv, NEW r \in Requests, ssh_test(r) \/ JumpConnected(r)
  PROVE  SshInv'
<1> DEFINE q == [pc |-> "scan", profile |-> req[r].profile, dest |-> req[r].dest, host |-> req[r].host]
<1>1. /\ req[r].pc = "connect" /\ Answered(req[r]) /\ session' = session
      /\ \/ req' = [req EXCEPT ![r] = Ready]
         \/ req[r].kind = "jump" /\ req' = [req EXCEPT ![r] = q]
  BY DEF ssh_test, JumpConnected
<1>2. req[r] \in ConnectingRequests  BY <1>1, RequestFields DEF SshInv
<1>3. q \in Scanning /\ q.pc = "scan" /\ q.dest = req[r].dest /\ q.profile = req[r].profile
  BY <1>2 DEF Scanning, ConnectingRequests
<1>4. req[r].kind = "jump" => JumpOf[q.dest] = q.profile  BY <1>1 DEF SshInv, JumpFits
<1>5. approved' = approved  BY <1>1, AnswerKept
<1> HIDE DEF q
<1>6. q \in RequestStates  BY <1>3 DEF RequestStates
<1>7. RequestTypes' /\ RequestAgreed' /\ JumpFits'
  BY <1>1, <1>3, <1>4, <1>5, <1>6, RequestReady, RequestMoved
<1>8. QED  BY <1>1, <1>5, <1>7, AnswerKept, KeptSessions DEF SshInv

LEMMA JumpPrepared ==
  ASSUME SshInv, NEW r \in Requests, NEW a \in Attempts, NEW j, ssh_jump_prepare(r, a, j)
  PROVE  SshInv'
<1> DEFINE h == hostOf[req[r].dest]
           s == <<req[r].profile, req[r].host>>
<1>1. /\ req[r].pc = "scan" /\ req' = [req EXCEPT ![r] = Ready]
      /\ UNCHANGED <<hostVars, vaultVars, known, session, approved>>
      /\ prepare_scoped(a, s, h, scan_host_key_via(h)) \/ attempt' = attempt
  BY DEF ssh_jump_prepare
<1>2. req[r] \in Scanning  BY <1>1, RequestFields DEF SshInv
<1>3. h \in Hosts /\ scan_host_key_via(h) \in Keys
  BY <1>2 DEF SshInv, HostTypes, Scanning, scan_host_key_via
<1>4. s \in Scopes  BY <1>1, <1>2, JumpScope DEF SshInv, JumpFits, Scanning
<1>5. AttemptTypes' /\ AttemptAgreed'  BY <1>1, <1>3, <1>4, AttemptMade, KeptAttempts
<1>6. RequestTypes' /\ RequestAgreed' /\ JumpFits'  BY <1>1, RequestReady
<1>7. QED  BY <1>1, <1>5, <1>6, KeptKnown, KeptSessions, KeptHosts, KeptVault DEF SshInv

-----------------------------------------------------------------------------
(* Sessions that end, and what changes under a request.                     *)
LEMMA SessionSteps ==
  ASSUME SshInv, NEW s \in Sessions,
         ssh_disconnect(s) \/ \E transport \in BOOLEAN : stream_output(s, transport)
  PROVE  SshInv'
<1> DEFINE n == [session[s] EXCEPT !.shell = FALSE]
<1>1. /\ session[s].state = "open"
      /\ \/ session' = [session EXCEPT ![s] = EndedSession]
         \/ session' = [session EXCEPT ![s] = n]
      /\ UNCHANGED <<hostVars, vaultVars, known, attempt, prep, req, approved>>
  BY DEF ssh_disconnect, stream_output
<1>2. session[s] \in OpenSessions  BY <1>1, SessionFields DEF SshInv
<1>3. n \in OpenSessions /\ n.seen = session[s].seen  BY <1>2 DEF OpenSessions
<1> HIDE DEF n
<1>4. SessionTypes'  BY <1>1, <1>3 DEF SshInv, SessionTypes, SessionStates
<1>5. SessionIsVerified'
  <2>1. \A y \in Sessions : \/ session'[y] = session[y] \/ session'[y] = EndedSession
                            \/ y = s /\ session'[y] = n
    BY <1>1 DEF SshInv, SessionTypes
  <2>2. QED  BY <1>1, <1>3, <2>1 DEF SshInv, SessionIsVerified, EndedSession
<1>6. QED  BY <1>1, <1>4, <1>5, KeptKnown, KeptAttempts, KeptRequests, KeptHosts, KeptVault DEF SshInv

LEMMA OtherSteps ==
  ASSUME SshInv,
         \/ \E x \in Scopes \X Hosts : remove_scoped(x)
         \/ \E j \in Preparations : ssh_jump_cancel(j)
         \/ \E p \in Profiles :
              \/ forget(p)
              \/ \E h \in Hosts : update_profile(p, h) \/ \E x \in Secrets : apply_parsed_profiles(p, h, x)
         \/ \E h \in Hosts, k \in Keys : HostKeyChanges(h, k)
         \/ lock_or_unlock
  PROVE  SshInv'
<1>1. ASSUME NEW x \in Scopes \X Hosts, remove_scoped(x) PROVE SshInv'
  <2>1. /\ known' = [known EXCEPT ![x] = NoKey]
        /\ UNCHANGED <<hostVars, vaultVars, attempt, prep, req, session, approved>>
    BY <1>1 DEF remove_scoped
  <2>2. KnownTypes' /\ KnownAgreed'  BY <2>1 DEF SshInv, KnownTypes, KnownAgreed
  <2>3. QED  BY <2>1, <2>2, KeptAttempts, KeptRequests, KeptSessions, KeptHosts, KeptVault DEF SshInv
<1>2. ASSUME NEW j \in Preparations, ssh_jump_cancel(j) PROVE SshInv'
  BY <1>2, KeptKnown, KeptAttempts, KeptRequests, KeptSessions, KeptHosts, KeptVault
     DEF ssh_jump_cancel, SshInv
<1>3. ASSUME NEW p \in Profiles, forget(p) PROVE SshInv'
  <2>1. /\ stored' = [stored EXCEPT ![p] = NoSecret]
        /\ UNCHANGED <<hostVars, known, attempt, prep, req, session, approved>>
    BY <1>3 DEF forget
  <2>2. VaultTypes'  BY <2>1 DEF SshInv, VaultTypes
  <2>3. QED  BY <2>1, <2>2, KeptKnown, KeptAttempts, KeptRequests, KeptSessions, KeptHosts DEF SshInv
<1>4. ASSUME NEW p \in Profiles, NEW h \in Hosts, update_profile(p, h) PROVE SshInv'
  <2>1. /\ hostOf' = [hostOf EXCEPT ![p] = h]
        /\ UNCHANGED <<hostKey, vaultVars, known, attempt, prep, req, session, approved>>
    BY <1>4 DEF update_profile
  <2>2. HostTypes'  BY <2>1 DEF SshInv, HostTypes
  <2>3. QED  BY <2>1, <2>2, KeptKnown, KeptAttempts, KeptRequests, KeptSessions, KeptVault DEF SshInv
<1>5. ASSUME NEW h \in Hosts, NEW k \in Keys, HostKeyChanges(h, k) PROVE SshInv'
  <2>1. /\ hostKey' = [hostKey EXCEPT ![h] = k]
        /\ UNCHANGED <<hostOf, vaultVars, known, attempt, prep, req, session, approved>>
    BY <1>5 DEF HostKeyChanges
  <2>2. HostTypes'  BY <2>1 DEF SshInv, HostTypes
  <2>3. QED  BY <2>1, <2>2, KeptKnown, KeptAttempts, KeptRequests, KeptSessions, KeptVault DEF SshInv
<1>6. ASSUME lock_or_unlock PROVE SshInv'
  <2>1. UNCHANGED <<hostVars, stored, known, attempt, prep, req, session, approved>>
    BY <1>6 DEF lock_or_unlock
  <2>2. VaultTypes'  BY <2>1 DEF SshInv, VaultTypes
  <2>3. QED  BY <2>1, <2>2, KeptKnown, KeptAttempts, KeptRequests, KeptSessions, KeptHosts DEF SshInv
<1>7. ASSUME NEW p \in Profiles, NEW h \in Hosts, NEW x \in Secrets, apply_parsed_profiles(p, h, x) PROVE SshInv'
  <2>1. /\ hostOf' = [hostOf EXCEPT ![p] = h] /\ stored' = [stored EXCEPT ![p] = x]
        /\ UNCHANGED <<hostKey, known, attempt, prep, req, session, approved>>
    BY <1>7 DEF apply_parsed_profiles
  <2>2. HostTypes' /\ VaultTypes'  BY <2>1 DEF SshInv, HostTypes, VaultTypes
  <2>3. QED  BY <2>1, <2>2, KeptKnown, KeptAttempts, KeptRequests, KeptSessions DEF SshInv
<1>8. QED  BY <1>1, <1>2, <1>3, <1>4, <1>5, <1>6, <1>7

-----------------------------------------------------------------------------
LEMMA SshInitial == ASSUME SshInit PROVE SshInv
<1> USE SshAssumption DEF SshInit, FreshSession, Ready
<1>1. HostTypes /\ KnownTypes /\ VaultTypes  BY DEF HostTypes, KnownTypes, VaultTypes
<1>2. AttemptTypes /\ RequestTypes /\ SessionTypes
  BY DEF AttemptTypes, AttemptStates, RequestTypes, RequestStates, SessionTypes, SessionStates
<1>3. JumpFits /\ KnownAgreed /\ AttemptAgreed /\ RequestAgreed
  BY DEF JumpFits, KnownAgreed, AttemptAgreed, RequestAgreed
<1>4. SessionIsVerified  BY DEF SessionIsVerified
<1>5. QED  BY <1>1, <1>2, <1>3, <1>4 DEF SshInv

(* The inductive invariant: every place that holds a key the user is said   *)
(* to have agreed to, from the known hosts to an open session, is right.    *)
THEOREM SshInductive == SshSpec => []SshInv
<1>1. ASSUME SshInv, SshNext PROVE SshInv'
  <2>1. ASSUME NEW a \in Attempts, NEW r \in Requests, NEW j \in Preparations,
               NEW kind \in {"session", "test", "jump"}, NEW p \in Profiles, NEW dest \in Profiles,
               NEW input \in Input, open_profile_session(r, kind, p, dest, a, j, input)
        PROVE  SshInv'
    BY <1>1, <2>1, Opening DEF RequestKinds
  <2>2. ASSUME NEW a \in Attempts, NEW r \in Requests, NEW j \in Preparations, ssh_jump_prepare(r, a, j)
        PROVE  SshInv'
    BY <1>1, <2>2, JumpPrepared
  <2>3. ASSUME NEW r \in Requests, prepare_connection_scoped(r) \/ ssh_test(r) \/ JumpConnected(r)
        PROVE  SshInv'
    BY <1>1, <2>3, Prepared, Tested
  <2>4. ASSUME NEW r \in Requests, NEW s \in Sessions, ssh_connect(r, s) \/ connect_via(r, s)
        PROVE  SshInv'
    BY <1>1, <2>4, Connected
  <2>5. QED
    BY <1>1, <2>1, <2>2, <2>3, <2>4, AttemptSteps, SessionSteps, OtherSteps DEF SshNext
<1>2. ASSUME SshInv, UNCHANGED sshVars PROVE SshInv'
  <2>1. /\ UNCHANGED <<hostVars, vaultVars, known, attempt, req, session, approved>>
    BY <1>2 DEF sshVars, hostVars, vaultVars
  <2>2. QED
    BY <1>2, <2>1, KeptKnown, KeptAttempts, KeptRequests, KeptSessions, KeptHosts, KeptVault DEF SshInv
<1>3. SshInv /\ [SshNext]_sshVars => SshInv'  BY <1>1, <1>2
<1>4. QED  BY <1>3, SshInitial, PTL DEF SshSpec

(* verify_exact_fingerprint and consume_scoped: a session talks to a host   *)
(* whose key the user agreed to, for that host and that route, however      *)
(* profiles, known hosts and host keys change while requests are under way. *)
THEOREM SessionsVerified == SshSpec => []SessionIsVerified
<1>1. SshInv => SessionIsVerified  BY DEF SshInv
<1>2. QED  BY <1>1, SshInductive, PTL

-----------------------------------------------------------------------------
(* The bridge and the flows before it.                                      *)

FlowFields == {"provider", "state", "granted", "cache", "asset", "account", "conn"}

(* A flow that is kept is a whole record; "Connected" means it has a        *)
(* connection.                                                              *)
FlowShape(r) ==
  /\ DOMAIN r = FlowFields /\ r.conn \in Conns \cup {NoConn}
  /\ r.state = "Connected" => r.conn \in Conns

FlowFits ==
  /\ DOMAIN flow = Flows
  /\ \A f \in Flows : get(f) => FlowShape(flow[f])

(* What a request keeps between its steps.                                  *)
CallShape(r) ==
  /\ r.pc \in {"auth", "advance", "assets", "accounts", "take"} \cup (Connecting \ {"open"}) => r.flow \in Flows
  /\ r.pc \in Connecting => r.conn \in Conns
  /\ r.pc \in Connecting \ {"open"} => DOMAIN r = {"pc", "flow", "conn", "provider"}
  /\ r.pc \in {"sftp", "sftpOpening"} => r.sess \in Conns

CallFits ==
  /\ DOMAIN call = Calls
  /\ \A c \in Calls : CallShape(call[c])

SessFields == {"listed", "reader", "sftp", "holder", "ending", "disconnects"}

(* A session is listed until one ender removes it, and has sent             *)
(* Disconnected when that one is through.                                   *)
SessShape(r) ==
  /\ DOMAIN r = SessFields /\ r.listed \in BOOLEAN /\ r.sftp \in BOOLEAN
  /\ r.ending \in {"no", "stream", "user", "done"}
  /\ r.listed => r.ending = "no"
  /\ r.ending # "done" => r.disconnects = 0
  /\ r.ending = "done" => r.disconnects = 1 /\ ~r.sftp /\ r.holder = "free"

SessFits ==
  /\ DOMAIN sess = Conns
  /\ \A k \in Conns : SessShape(sess[k])

(* Who holds a connection.                                                  *)
FlowHolds(f, k) == get(f) /\ flow[f].conn = k

CallHolds(c, k) == call[c].pc \in Connecting /\ call[c].conn = k

OneFlow == \A k \in Conns, f, g \in Flows : FlowHolds(f, k) /\ FlowHolds(g, k) => f = g

OneCall == \A k \in Conns, c, d \in Calls : CallHolds(c, k) /\ CallHolds(d, k) => c = d

FlowOrCall == \A k \in Conns, f \in Flows, c \in Calls : ~(FlowHolds(f, k) /\ CallHolds(c, k))

(* The session of a connection that a flow or a request holds has not       *)
(* begun.                                                                   *)
NotBegun(k) == ~sess[k].listed /\ sess[k].ending = "no"

FlowFirst == \A k \in Conns, f \in Flows : FlowHolds(f, k) => NotBegun(k)

CallFirst == \A k \in Conns, c \in Calls : CallHolds(c, k) => NotBegun(k)

(* The lock of the SFTP slot is the request's that opens the channel.       *)
OpensChannel(c, k) == call[c].pc = "sftpOpening" /\ call[c].sess = k

OpeningHolds == \A k \in Conns, c \in Calls : OpensChannel(c, k) => sess[k].holder = "held"

OneOpening == \A k \in Conns, c, d \in Calls : OpensChannel(c, k) /\ OpensChannel(d, k) => c = d

Ownership == OneFlow /\ OneCall /\ FlowOrCall /\ FlowFirst /\ CallFirst

Slot == OpeningHolds /\ OneOpening

BastionInv == FlowFits /\ CallFits /\ SessFits /\ Ownership /\ Slot

-----------------------------------------------------------------------------
NoFlowGains ==
  /\ FlowFits'
  /\ \A k \in Conns, f \in Flows : FlowHolds(f, k)' => FlowHolds(f, k)

NoCallGains ==
  /\ CallFits'
  /\ \A k \in Conns, c \in Calls : CallHolds(c, k)' => CallHolds(c, k)
  /\ \A k \in Conns, c \in Calls : OpensChannel(c, k)' => OpensChannel(c, k)

(* A step that gives nobody a connection or a slot, and leaves sessions.    *)
LEMMA NobodyGains ==
  ASSUME BastionInv, UNCHANGED sess, NoFlowGains, NoCallGains
  PROVE  BastionInv'
<1>1. SessFits'  BY DEF BastionInv, SessFits
<1>2. \A k \in Conns : NotBegun(k)' <=> NotBegun(k)  BY DEF NotBegun
<1>3. OneFlow'  BY DEF BastionInv, Ownership, OneFlow, NoFlowGains
<1>4. OneCall'  BY DEF BastionInv, Ownership, OneCall, NoCallGains
<1>5. FlowOrCall'  BY DEF BastionInv, Ownership, FlowOrCall, NoFlowGains, NoCallGains
<1>6. FlowFirst'  BY <1>2 DEF BastionInv, Ownership, FlowFirst, NoFlowGains
<1>7. CallFirst'  BY <1>2 DEF BastionInv, Ownership, CallFirst, NoCallGains
<1>8. Slot'  BY DEF BastionInv, Slot, OpeningHolds, OneOpening, NoCallGains
<1> QED  BY <1>1, <1>3, <1>4, <1>5, <1>6, <1>7, <1>8 DEF BastionInv, Ownership, NoFlowGains, NoCallGains

(* One flow becomes r; what it holds it held before.                        *)
LEMMA FlowEdited ==
  ASSUME FlowFits, NEW f \in Flows, NEW r, Becomes(f, r),
         r.state \in UiStates => FlowShape(r) /\ (r.conn = NoConn \/ FlowHolds(f, r.conn))
  PROVE  NoFlowGains
<1>1. DOMAIN flow' = Flows /\ \A g \in Flows : flow'[g] = IF g = f THEN r ELSE flow[g]
  BY DEF FlowFits, Becomes
<1>2. FlowFits'  BY <1>1 DEF FlowFits, get
<1>3. ASSUME NEW k \in Conns, NEW g \in Flows, FlowHolds(g, k)'  PROVE FlowHolds(g, k)
  <2>1. k # NoConn  BY BastionAssumption
  <2>2. CASE g = f
    <3>1. r.state \in UiStates /\ r.conn = k  BY <1>1, <1>3, <2>2 DEF FlowHolds, get
    <3>2. QED  BY <2>1, <2>2, <3>1
  <2>3. CASE g # f
    <3>1. flow'[g] = flow[g]  BY <1>1, <2>3
    <3>2. QED  BY <1>3, <3>1 DEF FlowHolds, get
  <2>4. QED  BY <2>2, <2>3
<1>4. QED  BY <1>2, <1>3 DEF NoFlowGains

LEMMA FlowsLeft ==
  ASSUME FlowFits, UNCHANGED flow
  PROVE  NoFlowGains
BY DEF NoFlowGains, FlowFits, FlowHolds, get

(* One request becomes r, which holds neither a connection nor a slot.      *)
LEMMA CallMoved ==
  ASSUME CallFits, NEW c \in Calls, NEW r, Goes(c, r), CallShape(r),
         r.pc \notin Connecting \cup {"sftpOpening"}
  PROVE  NoCallGains
<1>1. DOMAIN call' = Calls /\ \A d \in Calls : call'[d] = IF d = c THEN r ELSE call[d]
  BY DEF CallFits, Goes
<1>2. CallFits'  BY <1>1 DEF CallFits
<1>3. ASSUME NEW k \in Conns, NEW d \in Calls  
      PROVE  (CallHolds(d, k)' => CallHolds(d, k)) /\ (OpensChannel(d, k)' => OpensChannel(d, k))
  <2>1. CASE d = c
    <3>1. call'[d] = r  BY <1>1, <2>1
    <3>2. QED  BY <3>1 DEF CallHolds, OpensChannel
  <2>2. CASE d # c
    <3>1. call'[d] = call[d]  BY <1>1, <2>2
    <3>2. QED  BY <3>1 DEF CallHolds, OpensChannel
  <2>3. QED  BY <2>1, <2>2
<1>4. QED  BY <1>2, <1>3 DEF NoCallGains

LEMMA CallEnds ==
  ASSUME CallFits, NEW c \in Calls, Done(c)
  PROVE  NoCallGains
<1>1. Goes(c, Idle)  BY DEF Done, Goes
<1>2. CallShape(Idle) /\ Idle.pc \notin Connecting \cup {"sftpOpening"}  BY DEF Idle, CallShape, Connecting
<1>3. QED  BY <1>1, <1>2, CallMoved

LEMMA CallsLeft ==
  ASSUME CallFits, UNCHANGED call
  PROVE  NoCallGains
BY DEF NoCallGains, CallFits, CallHolds, OpensChannel

-----------------------------------------------------------------------------
(* The steps up to the choice of an account.                                *)

(* A flow in a state of its own that keeps its connection.                  *)
LEMMA FlowEdit ==
  ASSUME FlowFits, NEW f \in Flows, get(f), NEW r, Becomes(f, r),
         DOMAIN r = FlowFields, r.conn = flow[f].conn, r.state = "Connected" => flow[f].state = "Connected"
  PROVE  NoFlowGains
<1>1. FlowShape(flow[f])  BY DEF FlowFits
<1>2. FlowShape(r)  BY <1>1 DEF FlowShape
<1>3. FlowHolds(f, r.conn)  BY DEF FlowHolds
<1>4. QED  BY <1>2, <1>3, FlowEdited

LEMMA Starts ==
  ASSUME BastionInv, NEW c \in Calls, NEW f \in Flows, NEW p \in Providers,
         NEW step \in {"challenge", "external", "granted"}, bastion_start(c, f, p, step)
  PROVE  BastionInv'
<1> DEFINE r == flow_from_auth_step(NewFlow(p), step)
<1>1. DOMAIN r = FlowFields /\ r.conn = NoConn /\ r.state \in UiStates \ {"Connected"}
  BY DEF flow_from_auth_step, NewFlow, FlowFields, UiStates
<1> HIDE DEF r
<1>2. /\ DOMAIN flow' = Flows
      /\ \A g \in Flows : flow'[g] = r \/ flow'[g] = Gone \/ flow'[g] = flow[g]
  BY DEF bastion_start, insert_flow, r
<1>3. FlowFits'
  <2>1. FlowShape(r)  BY <1>1 DEF FlowShape
  <2>2. QED  BY <1>2, <2>1 DEF BastionInv, FlowFits, get, Gone, UiStates
<1>4. ASSUME NEW k \in Conns, NEW g \in Flows, FlowHolds(g, k)'  PROVE FlowHolds(g, k)
  <2>1. flow'[g] # r  BY <1>1, <1>4, BastionAssumption DEF FlowHolds
  <2>2. flow'[g] # Gone  BY <1>4 DEF FlowHolds, get, Gone, UiStates
  <2>3. flow'[g] = flow[g]  BY <1>2, <2>1, <2>2
  <2>4. QED  BY <1>4, <2>3 DEF FlowHolds, get
<1>5. NoFlowGains  BY <1>3, <1>4 DEF NoFlowGains
<1>6. NoCallGains
  <2> DEFINE q == [pc |-> "advance", flow |-> f]
  <2>1. Goes(c, q)  BY DEF bastion_start
  <2>2. CallShape(q) /\ q.pc \notin Connecting \cup {"sftpOpening"}  BY DEF CallShape, Connecting
  <2>3. QED  BY <2>1, <2>2, CallMoved DEF BastionInv
<1>7. UNCHANGED sess  BY DEF bastion_start
<1>8. QED  BY <1>5, <1>6, <1>7, NobodyGains

LEMMA Authenticates ==
  ASSUME BastionInv, NEW c \in Calls
  PROVE  /\ \A f \in Flows : continue_auth(c, f) => BastionInv'
         /\ \A step \in {"granted", "error"} : AuthAnswered(c, step) => BastionInv'
<1>1. ASSUME NEW f \in Flows, continue_auth(c, f)  PROVE BastionInv'
  <2> DEFINE q == [pc |-> "auth", flow |-> f]
  <2>1. Goes(c, q)  BY <1>1 DEF continue_auth
  <2>2. CallShape(q) /\ q.pc \notin Connecting \cup {"sftpOpening"}  BY DEF CallShape, Connecting
  <2>3. NoCallGains  BY <2>1, <2>2, CallMoved DEF BastionInv
  <2>4. NoFlowGains  BY <1>1, FlowsLeft DEF BastionInv, continue_auth
  <2>5. QED  BY <1>1, <2>3, <2>4, NobodyGains DEF continue_auth
<1>2. ASSUME NEW step \in {"granted", "error"}, AuthAnswered(c, step)  PROVE BastionInv'
  <2> DEFINE f == call[c].flow
             r == flow_from_auth_step(flow[f], step)
             q == [pc |-> "advance", flow |-> f]
  <2>1. f \in Flows  BY <1>2 DEF AuthAnswered, BastionInv, CallFits, CallShape
  <2>2. UNCHANGED sess  BY <1>2 DEF AuthAnswered
  <2>3. \/ Done(c) /\ UNCHANGED flow
        \/ get(f) /\ step = "granted" /\ Becomes(f, r) /\ Goes(c, q)
    BY <1>2 DEF AuthAnswered
  <2>4. CASE Done(c) /\ UNCHANGED flow
    BY <2>2, <2>4, CallEnds, FlowsLeft, NobodyGains DEF BastionInv
  <2>5. CASE get(f) /\ step = "granted" /\ Becomes(f, r) /\ Goes(c, q)
    <3>1. DOMAIN flow[f] = FlowFields  BY <2>1, <2>5 DEF BastionInv, FlowFits, FlowShape
    <3>2. DOMAIN r = FlowFields /\ r.conn = flow[f].conn /\ r.state = "Authenticated"
      BY <3>1, <2>5 DEF flow_from_auth_step, FlowFields
    <3>3. CallShape(q) /\ q.pc \notin Connecting \cup {"sftpOpening"}  BY <2>1 DEF CallShape, Connecting
    <3> HIDE DEF f, r, q
    <3>4. NoCallGains  BY <2>5, <3>3, CallMoved DEF BastionInv
    <3>5. NoFlowGains  BY <2>1, <2>5, <3>2, FlowEdit DEF BastionInv
    <3>6. QED  BY <2>2, <3>4, <3>5, NobodyGains
  <2>6. QED  BY <2>3, <2>4, <2>5
<1>3. QED  BY <1>1, <1>2

(* The asset is chosen in a flow that otherwise is the record r.            *)
LEMMA ChosenKeeps ==
  ASSUME BastionInv, NEW c \in Calls, NEW f \in Flows, get(f), NEW r, NEW a,
         DOMAIN r = FlowFields, r.conn = flow[f].conn, Chosen(c, f, r, a)
  PROVE  NoFlowGains /\ NoCallGains
<1> DEFINE r1 == [r EXCEPT !.asset = a, !.state = "DiscoveringAccounts"]
           r2 == [r EXCEPT !.asset = a, !.state = "SelectingAccount"]
           q == [pc |-> "accounts", flow |-> f, asset |-> a, want |-> PreferredAccount, picker |-> TRUE]
<1>1. \/ Becomes(f, r1) /\ Goes(c, q)
      \/ Becomes(f, r2) /\ Done(c)
  BY DEF Chosen
<1>2. /\ DOMAIN r1 = FlowFields /\ r1.conn = flow[f].conn /\ r1.state = "DiscoveringAccounts"
      /\ DOMAIN r2 = FlowFields /\ r2.conn = flow[f].conn /\ r2.state = "SelectingAccount"
  BY DEF FlowFields
<1>3. CallShape(q) /\ q.pc \notin Connecting \cup {"sftpOpening"}  BY DEF CallShape, Connecting
<1> HIDE DEF r1, r2, q
<1>4. CASE Becomes(f, r1) /\ Goes(c, q)
  <2>1. NoFlowGains  BY <1>2, <1>4, FlowEdit DEF BastionInv
  <2>2. NoCallGains  BY <1>3, <1>4, CallMoved DEF BastionInv
  <2>3. QED  BY <2>1, <2>2
<1>5. CASE Becomes(f, r2) /\ Done(c)
  <2>1. NoFlowGains  BY <1>2, <1>5, FlowEdit DEF BastionInv
  <2>2. NoCallGains  BY <1>5, CallEnds DEF BastionInv
  <2>3. QED  BY <2>1, <2>2
<1>6. QED  BY <1>1, <1>4, <1>5

LEMMA SelectKeeps ==
  ASSUME BastionInv, NEW c \in Calls, NEW f \in Flows, get(f), NEW a, BeginSelect(c, f, a)
  PROVE  NoFlowGains /\ NoCallGains
<1> DEFINE q == [pc |-> "assets", flow |-> f, want |-> a]
<1>1. \/ Chosen(c, f, flow[f], a)
      \/ Goes(c, q) /\ UNCHANGED flow
      \/ Done(c) /\ UNCHANGED flow
  BY DEF BeginSelect
<1>2. DOMAIN flow[f] = FlowFields  BY DEF BastionInv, FlowFits, FlowShape
<1>3. CallShape(q) /\ q.pc \notin Connecting \cup {"sftpOpening"}  BY DEF CallShape, Connecting
<1> HIDE DEF q
<1>4. CASE Chosen(c, f, flow[f], a)  BY <1>2, <1>4, ChosenKeeps
<1>5. CASE Goes(c, q) /\ UNCHANGED flow  BY <1>3, <1>5, CallMoved, FlowsLeft DEF BastionInv
<1>6. CASE Done(c) /\ UNCHANGED flow  BY <1>6, CallEnds, FlowsLeft DEF BastionInv
<1>7. QED  BY <1>1, <1>4, <1>5, <1>6

LEMMA Advances ==
  ASSUME BastionInv, NEW c \in Calls
  PROVE  /\ advance_after_authenticated(c) => BastionInv'
         /\ \A f \in Flows, a \in Assets : select_asset(c, f, a) => BastionInv'
<1>1. ASSUME advance_after_authenticated(c)  PROVE BastionInv'
  <2> DEFINE f == call[c].flow
             r == [flow[f] EXCEPT !.state = "SelectingAsset"]
  <2>1. f \in Flows  BY <1>1 DEF advance_after_authenticated, BastionInv, CallFits, CallShape
  <2>2. UNCHANGED sess  BY <1>1 DEF advance_after_authenticated
  <2>3. \/ get(f) /\ BeginSelect(c, f, PreferredAsset)
        \/ get(f) /\ Becomes(f, r) /\ Done(c)
        \/ Done(c) /\ UNCHANGED flow
    BY <1>1 DEF advance_after_authenticated
  <2>4. get(f) => DOMAIN r = FlowFields /\ r.conn = flow[f].conn /\ r.state = "SelectingAsset"
    BY <2>1 DEF BastionInv, FlowFits, FlowShape, FlowFields
  <2> HIDE DEF f, r
  <2>5. CASE get(f) /\ BeginSelect(c, f, PreferredAsset)
    BY <2>1, <2>2, <2>5, SelectKeeps, NobodyGains
  <2>6. CASE get(f) /\ Becomes(f, r) /\ Done(c)
    <3>1. NoFlowGains  BY <2>1, <2>4, <2>6, FlowEdit DEF BastionInv
    <3>2. QED  BY <2>2, <2>6, <3>1, CallEnds, NobodyGains DEF BastionInv
  <2>7. CASE Done(c) /\ UNCHANGED flow
    BY <2>2, <2>7, CallEnds, FlowsLeft, NobodyGains DEF BastionInv
  <2>8. QED  BY <2>3, <2>5, <2>6, <2>7
<1>2. ASSUME NEW f \in Flows, NEW a \in Assets, select_asset(c, f, a)  PROVE BastionInv'
  BY <1>2, SelectKeeps, NobodyGains DEF select_asset
<1>3. QED  BY <1>1, <1>2

LEMMA Lists ==
  ASSUME BastionInv, NEW c \in Calls
  PROVE  /\ \A f \in Flows : list_assets(c, f) => BastionInv'
         /\ \A page \in SUBSET Assets, ok \in BOOLEAN : AssetsListed(c, page, ok) => BastionInv'
<1>1. ASSUME NEW f \in Flows, list_assets(c, f)  PROVE BastionInv'
  <2> DEFINE r == [flow[f] EXCEPT !.state = "DiscoveringAssets"]
             q == [pc |-> "assets", flow |-> f, want |-> NoAsset]
  <2>1. get(f) /\ Becomes(f, r) /\ Goes(c, q) /\ UNCHANGED sess
    BY <1>1 DEF list_assets, require_auth_session
  <2>2. DOMAIN r = FlowFields /\ r.conn = flow[f].conn /\ r.state = "DiscoveringAssets"
    BY <2>1 DEF BastionInv, FlowFits, FlowShape, FlowFields
  <2>3. CallShape(q) /\ q.pc \notin Connecting \cup {"sftpOpening"}  BY DEF CallShape, Connecting
  <2> HIDE DEF r, q
  <2>4. NoFlowGains  BY <2>1, <2>2, FlowEdit DEF BastionInv
  <2>5. NoCallGains  BY <2>1, <2>3, CallMoved DEF BastionInv
  <2>6. QED  BY <2>1, <2>4, <2>5, NobodyGains
<1>2. ASSUME NEW page \in SUBSET Assets, NEW ok \in BOOLEAN, AssetsListed(c, page, ok)  PROVE BastionInv'
  <2> DEFINE f == call[c].flow
             want == call[c].want
             r == [flow[f] EXCEPT !.cache = @ \cup page]
             r1 == [r EXCEPT !.state = "SelectingAsset"]
             r2 == [r EXCEPT !.cache = @ \cup {want}]
  <2>1. f \in Flows  BY <1>2 DEF AssetsListed, BastionInv, CallFits, CallShape
  <2>2. UNCHANGED sess  BY <1>2 DEF AssetsListed
  <2>3. \/ Done(c) /\ UNCHANGED flow
        \/ get(f) /\ Becomes(f, r1) /\ Done(c)
        \/ get(f) /\ Chosen(c, f, r2, want)
        \/ get(f) /\ Becomes(f, r) /\ Done(c)
    BY <1>2 DEF AssetsListed
  <2>4. get(f) => /\ DOMAIN r = FlowFields /\ r.conn = flow[f].conn /\ r.state = flow[f].state
                  /\ DOMAIN r1 = FlowFields /\ r1.conn = flow[f].conn /\ r1.state = "SelectingAsset"
                  /\ DOMAIN r2 = FlowFields /\ r2.conn = flow[f].conn
    BY <2>1 DEF BastionInv, FlowFits, FlowShape, FlowFields
  <2> HIDE DEF f, want, r, r1, r2
  <2>5. CASE Done(c) /\ UNCHANGED flow
    BY <2>2, <2>5, CallEnds, FlowsLeft, NobodyGains DEF BastionInv
  <2>6. CASE get(f) /\ Becomes(f, r1) /\ Done(c)
    <3>1. NoFlowGains  BY <2>1, <2>4, <2>6, FlowEdit DEF BastionInv
    <3>2. QED  BY <2>2, <2>6, <3>1, CallEnds, NobodyGains DEF BastionInv
  <2>7. CASE get(f) /\ Chosen(c, f, r2, want)
    BY <2>1, <2>2, <2>4, <2>7, ChosenKeeps, NobodyGains
  <2>8. CASE get(f) /\ Becomes(f, r) /\ Done(c)
    <3>1. NoFlowGains  BY <2>1, <2>4, <2>8, FlowEdit DEF BastionInv
    <3>2. QED  BY <2>2, <2>8, <3>1, CallEnds, NobodyGains DEF BastionInv
  <2>9. QED  BY <2>3, <2>5, <2>6, <2>7, <2>8
<1>3. QED  BY <1>1, <1>2

LEMMA Accounted ==
  ASSUME BastionInv, NEW c \in Calls
  PROVE  /\ \A f \in Flows, want \in Accounts \cup {NoAccount} : select_account(c, f, want) => BastionInv'
         /\ \A ok \in BOOLEAN : AccountsListed(c, ok) => BastionInv'
<1>1. ASSUME NEW f \in Flows, NEW want, select_account(c, f, want)  PROVE BastionInv'
  <2> DEFINE q == [pc |-> "accounts", flow |-> f, asset |-> flow[f].asset, want |-> want, picker |-> FALSE]
  <2>1. Goes(c, q) /\ UNCHANGED <<flow, sess>>  BY <1>1 DEF select_account
  <2>2. CallShape(q) /\ q.pc \notin Connecting \cup {"sftpOpening"}  BY DEF CallShape, Connecting
  <2> HIDE DEF q
  <2>3. NoCallGains  BY <2>1, <2>2, CallMoved DEF BastionInv
  <2>4. QED  BY <2>1, <2>3, FlowsLeft, NobodyGains DEF BastionInv
<1>2. ASSUME NEW ok \in BOOLEAN, AccountsListed(c, ok)  PROVE BastionInv'
  <2> DEFINE f == call[c].flow
             r1 == [flow[f] EXCEPT !.account = call[c].want, !.state = "Connecting"]
             r2 == [flow[f] EXCEPT !.state = "SelectingAccount"]
  <2>1. f \in Flows  BY <1>2 DEF AccountsListed, BastionInv, CallFits, CallShape
  <2>2. Done(c) /\ UNCHANGED sess  BY <1>2 DEF AccountsListed
  <2>3. Becomes(f, flow[f]) \/ (get(f) /\ Becomes(f, r1)) \/ (get(f) /\ Becomes(f, r2))
    BY <1>2 DEF AccountsListed
  <2>4. get(f) => /\ DOMAIN r1 = FlowFields /\ r1.conn = flow[f].conn /\ r1.state = "Connecting"
                  /\ DOMAIN r2 = FlowFields /\ r2.conn = flow[f].conn /\ r2.state = "SelectingAccount"
    BY <2>1 DEF BastionInv, FlowFits, FlowShape, FlowFields
  <2> HIDE DEF f, r1, r2
  <2>5. NoFlowGains
    <3>1. CASE Becomes(f, flow[f])
      <4>1. flow[f].state \in UiStates => FlowShape(flow[f]) /\ FlowHolds(f, flow[f].conn)
        BY <2>1 DEF BastionInv, FlowFits, FlowHolds, get
      <4>2. QED  BY <2>1, <3>1, <4>1, FlowEdited DEF BastionInv
    <3>2. CASE get(f) /\ Becomes(f, r1)  BY <2>1, <2>4, <3>2, FlowEdit DEF BastionInv
    <3>3. CASE get(f) /\ Becomes(f, r2)  BY <2>1, <2>4, <3>3, FlowEdit DEF BastionInv
    <3>4. QED  BY <2>3, <3>1, <3>2, <3>3
  <2>6. QED  BY <2>2, <2>5, CallEnds, NobodyGains DEF BastionInv
<1>3. QED  BY <1>1, <1>2

LEMMA Cancels ==
  ASSUME BastionInv, NEW f \in Flows, cancel(f)
  PROVE  BastionInv'
<1>1. Becomes(f, Gone) /\ UNCHANGED <<call, sess>>  BY DEF cancel, TakeOut
<1>2. Gone.state \notin UiStates  BY DEF Gone, UiStates
<1>3. NoFlowGains  BY <1>1, <1>2, FlowEdited DEF BastionInv
<1>4. QED  BY <1>1, <1>3, CallsLeft, NobodyGains DEF BastionInv

-----------------------------------------------------------------------------
(* Connecting: the connection goes from its request to the flow and on.     *)

LEMMA Connects ==
  ASSUME BastionInv, NEW c \in Calls, NEW f \in Flows, NEW k \in Conns, bastion_connect_flow(c, f, k)
  PROVE  BastionInv'
<1> DEFINE r == [flow[f] EXCEPT !.state = "Connecting"]
           q == [pc |-> "connect", flow |-> f, conn |-> k, provider |-> flow[f].provider]
<1>1. get(f) /\ Becomes(f, r) /\ UNCHANGED sess /\ Fresh(k) /\ (Goes(c, q) \/ Done(c))
  BY DEF bastion_connect_flow, connect
<1>2. DOMAIN r = FlowFields /\ r.conn = flow[f].conn /\ r.state = "Connecting"
  BY <1>1 DEF BastionInv, FlowFits, FlowShape, FlowFields
<1>3. NoFlowGains
  <2> HIDE DEF r
  <2>1. QED  BY <1>1, <1>2, FlowEdit DEF BastionInv
<1>4. CASE Done(c)  BY <1>1, <1>3, <1>4, CallEnds, NobodyGains DEF BastionInv
<1>5. CASE Goes(c, q)
  <2>1. CallShape(q) /\ q.pc = "connect" /\ q.conn = k /\ q.pc \in Connecting  BY DEF CallShape, Connecting
  <2> HIDE DEF q, r
  <2>2. DOMAIN call' = Calls /\ \A d \in Calls : call'[d] = IF d = c THEN q ELSE call[d]
    BY <1>5 DEF Goes, BastionInv, CallFits
  <2>3. CallFits'  BY <2>1, <2>2 DEF BastionInv, CallFits
  <2>4. \A d \in Calls, j \in Conns : CallHolds(d, j)' => CallHolds(d, j) \/ (d = c /\ j = k)
    BY <2>1, <2>2 DEF CallHolds
  <2>5. \A d \in Calls, j \in Conns : OpensChannel(d, j)' => OpensChannel(d, j)
    BY <2>1, <2>2 DEF OpensChannel
  <2>6. \A g \in Flows : ~FlowHolds(g, k)  BY <1>1 DEF Fresh, HoldersOf, FlowHolds
  <2>7. \A d \in Calls : ~CallHolds(d, k)  BY <1>1 DEF Fresh, HoldersOf, CallHolds
  <2>8. NotBegun(k)  BY <1>1 DEF Fresh, NoSession, NotBegun
  <2>9. \A j \in Conns : NotBegun(j)' <=> NotBegun(j)  BY <1>1 DEF NotBegun
  <2>10. Ownership'
    <3>1. OneFlow'  BY <1>3 DEF NoFlowGains, BastionInv, Ownership, OneFlow
    <3>2. OneCall'  BY <2>4, <2>7 DEF BastionInv, Ownership, OneCall
    <3>3. FlowOrCall'  BY <1>3, <2>4, <2>6 DEF NoFlowGains, BastionInv, Ownership, FlowOrCall
    <3>4. FlowFirst'  BY <1>3, <2>9 DEF NoFlowGains, BastionInv, Ownership, FlowFirst
    <3>5. CallFirst'  BY <2>4, <2>8, <2>9 DEF BastionInv, Ownership, CallFirst
    <3>6. QED  BY <3>1, <3>2, <3>3, <3>4, <3>5 DEF Ownership
  <2>11. Slot'  BY <1>1, <2>5 DEF BastionInv, Slot, OpeningHolds, OneOpening
  <2>12. SessFits'  BY <1>1 DEF BastionInv, SessFits
  <2>13. QED  BY <1>3, <2>3, <2>10, <2>11, <2>12 DEF NoFlowGains, BastionInv
<1>6. QED  BY <1>1, <1>4, <1>5

(* A step of the provider leaves the connection with its request.           *)
LEMMA ProceedsKeeps ==
  ASSUME BastionInv, NEW c \in Calls, call[c].pc \in Connecting \ {"open"}, NEW ok,
         NEW pc \in Connecting \ {"open"}, Proceeds(c, ok, pc), UNCHANGED <<flow, sess>>
  PROVE  BastionInv'
<1> DEFINE q == [call[c] EXCEPT !.pc = pc]
<1>1. Goes(c, q) \/ Done(c)  BY DEF Proceeds
<1>2. NoFlowGains  BY FlowsLeft DEF BastionInv
<1>3. CASE Done(c)  BY <1>2, <1>3, CallEnds, NobodyGains DEF BastionInv
<1>4. CASE Goes(c, q)
  <2>1. CallShape(call[c]) /\ DOMAIN call[c] = {"pc", "flow", "conn", "provider"}
    BY DEF BastionInv, CallFits, CallShape
  <2>2. DOMAIN q = DOMAIN call[c] /\ q.pc = pc /\ q.conn = call[c].conn /\ q.flow = call[c].flow  BY <2>1
  <2> HIDE DEF q
  <2>3. CallShape(q)  BY <2>1, <2>2 DEF CallShape, Connecting
  <2>4. DOMAIN call' = Calls /\ \A d \in Calls : call'[d] = IF d = c THEN q ELSE call[d]
    BY <1>4 DEF Goes, BastionInv, CallFits
  <2>5. CallFits'  BY <2>3, <2>4 DEF BastionInv, CallFits
  <2>6. \A k \in Conns, d \in Calls : CallHolds(d, k)' => CallHolds(d, k)
    BY <2>2, <2>4 DEF CallHolds
  <2>7. \A k \in Conns, d \in Calls : OpensChannel(d, k)' => OpensChannel(d, k)
    BY <2>2, <2>4 DEF OpensChannel, Connecting
  <2>8. NoCallGains  BY <2>5, <2>6, <2>7 DEF NoCallGains
  <2>9. QED  BY <1>2, <2>8, NobodyGains
<1>5. QED  BY <1>1, <1>3, <1>4

LEMMA ProviderSteps ==
  ASSUME BastionInv, NEW c \in Calls, NEW ok \in BOOLEAN,
         \/ create_connection_token(c, ok) \/ connect_with_token(c, ok) \/ connect_with_password(c, ok)
         \/ spawn_stdio_proxy(c, ok) \/ spawn_local_proxy(c, ok) \/ wait_for_listener(c, ok)
         \/ open_with_manager(c, ok) \/ boundary_credential(c, ok) \/ open_prepared_ssh_session(c, ok)
  PROVE  BastionInv'
<1>1. \E good \in BOOLEAN, pc \in Connecting \ {"open"} :
        call[c].pc \in Connecting \ {"open"} /\ Proceeds(c, good, pc) /\ UNCHANGED <<flow, sess>>
  <2>1. CASE create_connection_token(c, ok)  BY <2>1 DEF create_connection_token, Connecting
  <2>2. CASE connect_with_token(c, ok)
    <3>1. /\ call[c].pc = "koko" /\ UNCHANGED <<flow, sess>>
          /\ Proceeds(c, ok \/ KeepsPassword, IF ok THEN "store" ELSE "direct")
      BY <2>2 DEF connect_with_token
    <3>2. (ok \/ KeepsPassword) \in BOOLEAN  OBVIOUS
    <3>3. (IF ok THEN "store" ELSE "direct") \in Connecting \ {"open"}  BY DEF Connecting
    <3>4. QED  BY <3>1, <3>2, <3>3 DEF Connecting
  <2>3. CASE connect_with_password(c, ok)  BY <2>3 DEF connect_with_password, Connecting
  <2>4. CASE spawn_stdio_proxy(c, ok)  BY <2>4 DEF spawn_stdio_proxy, Connecting
  <2>5. CASE spawn_local_proxy(c, ok)  BY <2>5 DEF spawn_local_proxy, Connecting
  <2>6. CASE wait_for_listener(c, ok)  BY <2>6 DEF wait_for_listener, Connecting
  <2>7. CASE open_with_manager(c, ok)  BY <2>7 DEF open_with_manager, Connecting
  <2>8. CASE boundary_credential(c, ok)  BY <2>8 DEF boundary_credential, Connecting
  <2>9. CASE open_prepared_ssh_session(c, ok)  BY <2>9 DEF open_prepared_ssh_session, Connecting
  <2>10. QED  BY <2>1, <2>2, <2>3, <2>4, <2>5, <2>6, <2>7, <2>8, <2>9
<1>2. QED  BY <1>1, ProceedsKeeps

(* The request gives the connection to the flow, or drops it.               *)
LEMMA Stores ==
  ASSUME BastionInv, NEW c \in Calls, StoreConnection(c)
  PROVE  BastionInv'
<1> DEFINE f == call[c].flow
           r == [flow[f] EXCEPT !.conn = call[c].conn, !.state = "Connected"]
           q == [pc |-> "take", flow |-> f]
<1>0. PICK k \in Conns : k = call[c].conn  BY DEF StoreConnection, BastionInv, CallFits, CallShape, Connecting
<1>1. call[c].pc \in Connecting /\ f \in Flows /\ CallHolds(c, k) /\ UNCHANGED sess
  BY <1>0 DEF StoreConnection, BastionInv, CallFits, CallShape, CallHolds, Connecting
<1>2. (get(f) /\ Becomes(f, r) /\ Goes(c, q)) \/ (Done(c) /\ UNCHANGED flow)
  BY DEF StoreConnection
<1>3. CASE Done(c) /\ UNCHANGED flow
  BY <1>1, <1>3, CallEnds, FlowsLeft, NobodyGains DEF BastionInv
<1>4. CASE get(f) /\ Becomes(f, r) /\ Goes(c, q)
  <2>1. DOMAIN r = FlowFields /\ r.conn = k /\ r.state = "Connected"
    BY <1>0, <1>1, <1>4 DEF BastionInv, FlowFits, FlowShape, FlowFields
  <2>2. CallShape(q) /\ q.pc = "take" /\ q.pc \notin Connecting \cup {"sftpOpening"}
    BY <1>1 DEF CallShape, Connecting
  <2> HIDE DEF f, r, q
  <2>3. NoCallGains  BY <1>4, <2>2, CallMoved DEF BastionInv
  <2>4. \A d \in Calls : call'[d] = IF d = c THEN q ELSE call[d]  BY <1>4 DEF Goes, BastionInv, CallFits
  <2>5. DOMAIN flow' = Flows /\ \A g \in Flows : flow'[g] = IF g = f THEN r ELSE flow[g]
    BY <1>4 DEF Becomes, BastionInv, FlowFits
  <2>6. FlowShape(r)  BY <1>1, <2>1 DEF FlowShape
  <2>7. FlowFits'  BY <2>5, <2>6 DEF BastionInv, FlowFits, get
  <2>8. \A g \in Flows, j \in Conns : FlowHolds(g, j)' => IF g = f THEN j = k ELSE FlowHolds(g, j)
    BY <2>1, <2>5 DEF FlowHolds, get
  <2>9. \A d \in Calls : ~CallHolds(d, k)'
    <3>1. ASSUME NEW d \in Calls, CallHolds(d, k)'  PROVE FALSE
      <4>1. CallHolds(d, k)  BY <1>1, <2>3, <3>1 DEF NoCallGains
      <4>2. d = c  BY <1>1, <4>1 DEF BastionInv, Ownership, OneCall
      <4>3. QED  BY <2>2, <2>4, <3>1, <4>2 DEF CallHolds
    <3>2. QED  BY <3>1
  <2>10. \A g \in Flows : ~FlowHolds(g, k)  BY <1>1 DEF BastionInv, Ownership, FlowOrCall
  <2>11. NotBegun(k)  BY <1>1 DEF BastionInv, Ownership, CallFirst
  <2>12. \A j \in Conns : NotBegun(j)' <=> NotBegun(j)  BY <1>1 DEF NotBegun
  <2>13. Ownership'
    <3>1. OneFlow'  BY <2>8, <2>10 DEF BastionInv, Ownership, OneFlow
    <3>2. OneCall'  BY <2>3 DEF NoCallGains, BastionInv, Ownership, OneCall
    <3>3. FlowOrCall'  BY <2>3, <2>8, <2>9 DEF NoCallGains, BastionInv, Ownership, FlowOrCall
    <3>4. FlowFirst'  BY <2>8, <2>11, <2>12 DEF BastionInv, Ownership, FlowFirst
    <3>5. CallFirst'  BY <2>3, <2>12 DEF NoCallGains, BastionInv, Ownership, CallFirst
    <3>6. QED  BY <3>1, <3>2, <3>3, <3>4, <3>5 DEF Ownership
  <2>14. Slot'  BY <1>1, <2>3 DEF NoCallGains, BastionInv, Slot, OpeningHolds, OneOpening
  <2>15. SessFits'  BY <1>1 DEF BastionInv, SessFits
  <2>16. QED  BY <2>3, <2>7, <2>13, <2>14, <2>15 DEF NoCallGains, BastionInv
<1>5. QED  BY <1>2, <1>3, <1>4

(* The connection leaves the flow with the flow.                            *)
LEMMA Takes ==
  ASSUME BastionInv, NEW c \in Calls, take_connection(c)
  PROVE  BastionInv'
<1> DEFINE f == call[c].flow
           q == [pc |-> "open", conn |-> flow[f].conn]
<1>1. f \in Flows /\ call[c].pc = "take" /\ UNCHANGED sess
  BY DEF take_connection, BastionInv, CallFits, CallShape
<1>2. \/ get(f) /\ flow[f].state = "Connected" /\ Becomes(f, Gone) /\ Goes(c, q)
      \/ Done(c) /\ UNCHANGED flow
  BY DEF take_connection, TakeOut
<1>3. CASE Done(c) /\ UNCHANGED flow
  BY <1>1, <1>3, CallEnds, FlowsLeft, NobodyGains DEF BastionInv
<1>4. CASE get(f) /\ flow[f].state = "Connected" /\ Becomes(f, Gone) /\ Goes(c, q)
  <2>0. PICK k \in Conns : k = flow[f].conn  BY <1>1, <1>4 DEF BastionInv, FlowFits, FlowShape
  <2>1. FlowHolds(f, k)  BY <1>4, <2>0 DEF FlowHolds
  <2>2. CallShape(q) /\ q.pc = "open" /\ q.conn = k  BY <2>0 DEF CallShape, Connecting
  <2> HIDE DEF f, q
  <2>3. Gone.state \notin UiStates  BY DEF Gone, UiStates
  <2>4. NoFlowGains  BY <1>1, <1>4, <2>3, FlowEdited DEF BastionInv
  <2>5. \A g \in Flows : flow'[g] = IF g = f THEN Gone ELSE flow[g]
    BY <1>4 DEF Becomes, BastionInv, FlowFits
  <2>6. DOMAIN call' = Calls /\ \A d \in Calls : call'[d] = IF d = c THEN q ELSE call[d]
    BY <1>4 DEF Goes, BastionInv, CallFits
  <2>7. CallFits'  BY <2>2, <2>6 DEF BastionInv, CallFits
  <2>8. \A d \in Calls, j \in Conns : CallHolds(d, j)' => IF d = c THEN j = k ELSE CallHolds(d, j)
    BY <2>2, <2>6 DEF CallHolds
  <2>9. \A d \in Calls, j \in Conns : OpensChannel(d, j)' => OpensChannel(d, j)
    BY <2>2, <2>6 DEF OpensChannel
  <2>10. \A d \in Calls : ~CallHolds(d, k)  BY <1>1, <2>1 DEF BastionInv, Ownership, FlowOrCall
  <2>11. \A g \in Flows : ~FlowHolds(g, k)'
    <3>1. ASSUME NEW g \in Flows, FlowHolds(g, k)'  PROVE FALSE
      <4>1. FlowHolds(g, k)  BY <2>1, <2>4, <3>1 DEF NoFlowGains
      <4>2. g = f  BY <1>1, <2>1, <4>1 DEF BastionInv, Ownership, OneFlow
      <4>3. QED  BY <2>3, <2>5, <3>1, <4>2 DEF FlowHolds, get
    <3>2. QED  BY <3>1
  <2>12. NotBegun(k)  BY <1>1, <2>1 DEF BastionInv, Ownership, FlowFirst
  <2>13. \A j \in Conns : NotBegun(j)' <=> NotBegun(j)  BY <1>1 DEF NotBegun
  <2>14. Ownership'
    <3>1. OneFlow'  BY <2>4 DEF NoFlowGains, BastionInv, Ownership, OneFlow
    <3>2. OneCall'  BY <2>8, <2>10 DEF BastionInv, Ownership, OneCall
    <3>3. FlowOrCall'  BY <2>4, <2>8, <2>11 DEF NoFlowGains, BastionInv, Ownership, FlowOrCall
    <3>4. FlowFirst'  BY <2>4, <2>13 DEF NoFlowGains, BastionInv, Ownership, FlowFirst
    <3>5. CallFirst'  BY <2>8, <2>12, <2>13 DEF BastionInv, Ownership, CallFirst
    <3>6. QED  BY <3>1, <3>2, <3>3, <3>4, <3>5 DEF Ownership
  <2>15. Slot'  BY <1>1, <2>9 DEF BastionInv, Slot, OpeningHolds, OneOpening
  <2>16. SessFits'  BY <1>1 DEF BastionInv, SessFits
  <2>17. QED  BY <2>4, <2>7, <2>14, <2>15, <2>16 DEF NoFlowGains, BastionInv
<1>5. QED  BY <1>2, <1>3, <1>4

-----------------------------------------------------------------------------
(* Sessions of the bridge.                                                  *)

(* One session changes: it begins or ends only when nobody else holds its   *)
(* connection, and its slot passes on only when nobody is opening in it.    *)
LEMMA SessEdited ==
  ASSUME BastionInv, NEW k \in Conns, DOMAIN sess' = Conns, \A j \in Conns \ {k} : sess'[j] = sess[j],
         SessShape(sess'[k]), NoFlowGains, NoCallGains,
         sess'[k].holder = sess[k].holder \/ \A c \in Calls : ~OpensChannel(c, k)',
         \/ NotBegun(k) => NotBegun(k)'
         \/ (\A f \in Flows : ~FlowHolds(f, k)') /\ (\A c \in Calls : ~CallHolds(c, k)')
  PROVE  BastionInv'
<1>1. \A j \in Conns : j # k => sess'[j] = sess[j]  OBVIOUS
<1>2. SessFits'  BY <1>1 DEF BastionInv, SessFits
<1>3. \A j \in Conns \ {k} : NotBegun(j) => NotBegun(j)'  BY <1>1 DEF NotBegun
<1>4. FlowFirst'  BY <1>3 DEF BastionInv, Ownership, FlowFirst, NoFlowGains
<1>5. CallFirst'  BY <1>3 DEF BastionInv, Ownership, CallFirst, NoCallGains
<1>6. OneFlow' /\ OneCall' /\ FlowOrCall'
  BY DEF BastionInv, Ownership, OneFlow, OneCall, FlowOrCall, NoFlowGains, NoCallGains
<1>7. OneOpening'  BY DEF BastionInv, Slot, OneOpening, NoCallGains
<1>8. OpeningHolds'
  <2>1. ASSUME NEW j \in Conns, NEW c \in Calls, OpensChannel(c, j)'  PROVE sess'[j].holder = "held"
    <3>1. sess[j].holder = "held"  BY <2>1 DEF NoCallGains, BastionInv, Slot, OpeningHolds
    <3>2. QED  BY <1>1, <2>1, <3>1
  <2>2. QED  BY <2>1 DEF OpeningHolds
<1>9. QED  BY <1>2, <1>4, <1>5, <1>6, <1>7, <1>8 DEF BastionInv, Ownership, Slot, NoFlowGains, NoCallGains

(* Nobody holds the connection of a session that has begun.                 *)
LEMMA BegunAlone ==
  ASSUME BastionInv, NEW k \in Conns, ~NotBegun(k), NoFlowGains, NoCallGains
  PROVE  (\A f \in Flows : ~FlowHolds(f, k)') /\ (\A c \in Calls : ~CallHolds(c, k)')
BY DEF BastionInv, Ownership, FlowFirst, CallFirst, NoFlowGains, NoCallGains

LEMMA Opens ==
  ASSUME BastionInv, NEW c \in Calls, SpawnReader(c) \/ InsertSession(c)
  PROVE  BastionInv'
<1>0. PICK k \in Conns : k = call[c].conn
  BY DEF SpawnReader, InsertSession, BastionInv, CallFits, CallShape, Connecting
<1>1. call[c].pc = "open" /\ CallHolds(c, k) /\ UNCHANGED flow
  BY <1>0 DEF SpawnReader, InsertSession, CallHolds, Connecting
<1>2. NotBegun(k)  BY <1>1 DEF BastionInv, Ownership, CallFirst
<1>3. SessShape(sess[k]) /\ DOMAIN sess[k] = SessFields /\ DOMAIN sess = Conns
  BY DEF BastionInv, SessFits, SessShape
<1>4. NoFlowGains  BY <1>1, FlowsLeft DEF BastionInv
<1>5. CASE SpawnReader(c)
  <2> DEFINE r == [sess[k] EXCEPT !.reader = "on"]
  <2>1. sess' = [sess EXCEPT ![k] = r] /\ UNCHANGED call  BY <1>0, <1>5 DEF SpawnReader
  <2>2. /\ DOMAIN r = SessFields /\ r.listed = sess[k].listed /\ r.ending = sess[k].ending
        /\ r.sftp = sess[k].sftp /\ r.holder = sess[k].holder /\ r.disconnects = sess[k].disconnects
    BY <1>3 DEF SessFields
  <2> HIDE DEF r
  <2>3. DOMAIN sess' = Conns /\ sess'[k] = r /\ \A j \in Conns \ {k} : sess'[j] = sess[j]
    BY <1>3, <2>1
  <2>4. SessShape(r)  BY <1>3, <2>2 DEF SessShape
  <2>5. NotBegun(k)'  BY <1>2, <2>2, <2>3 DEF NotBegun
  <2>6. NoCallGains  BY <2>1, CallsLeft DEF BastionInv
  <2>7. QED  BY <1>4, <2>2, <2>3, <2>4, <2>5, <2>6, SessEdited
<1>6. CASE InsertSession(c)
  <2> DEFINE r == [sess[k] EXCEPT !.listed = TRUE]
  <2>1. sess' = [sess EXCEPT ![k] = r] /\ Done(c)  BY <1>0, <1>6 DEF InsertSession
  <2>2. /\ DOMAIN r = SessFields /\ r.listed = TRUE /\ r.ending = sess[k].ending
        /\ r.sftp = sess[k].sftp /\ r.holder = sess[k].holder /\ r.disconnects = sess[k].disconnects
    BY <1>3 DEF SessFields
  <2> HIDE DEF r
  <2>3. DOMAIN sess' = Conns /\ sess'[k] = r /\ \A j \in Conns \ {k} : sess'[j] = sess[j]
    BY <1>3, <2>1
  <2>4. SessShape(r)  BY <1>2, <1>3, <2>2 DEF SessShape, NotBegun
  <2>5. NoCallGains  BY <2>1, CallEnds DEF BastionInv
  <2>6. \A f \in Flows : ~FlowHolds(f, k)'  BY <1>1, <1>4 DEF NoFlowGains, BastionInv, Ownership, FlowOrCall
  <2>7. \A d \in Calls : ~CallHolds(d, k)'
    <3>1. call'[c] = Idle  BY <2>1 DEF Done, BastionInv, CallFits
    <3>2. ~CallHolds(c, k)'  BY <3>1 DEF CallHolds, Idle, Connecting
    <3>3. QED  BY <1>1, <2>5, <3>2 DEF NoCallGains, BastionInv, Ownership, OneCall
  <2>8. QED  BY <1>4, <2>2, <2>3, <2>4, <2>5, <2>6, <2>7, SessEdited
<1>7. QED  BY <1>5, <1>6

LEMMA Ends ==
  ASSUME BastionInv, NEW k \in Conns, stream_bastion_output(k) \/ disconnect(k) \/ FinishEnd(k)
  PROVE  BastionInv'
<1>1. UNCHANGED <<flow, call>>  BY DEF stream_bastion_output, disconnect, FinishEnd
<1>2. NoFlowGains /\ NoCallGains  BY <1>1, FlowsLeft, CallsLeft DEF BastionInv
<1>3. SessShape(sess[k]) /\ DOMAIN sess[k] = SessFields /\ DOMAIN sess = Conns
  BY DEF BastionInv, SessFits, SessShape
<1>4. CASE stream_bastion_output(k)
  <2> DEFINE r == StreamEnd(k)
  <2>1. sess' = [sess EXCEPT ![k] = r]  BY <1>4 DEF stream_bastion_output
  <2>2. /\ DOMAIN r = SessFields /\ r.listed = FALSE
        /\ r.ending = IF sess[k].listed THEN "stream" ELSE sess[k].ending
        /\ r.sftp = sess[k].sftp /\ r.holder = sess[k].holder /\ r.disconnects = sess[k].disconnects
    BY <1>3 DEF StreamEnd, SessFields, SessShape
  <2> HIDE DEF r
  <2>3. DOMAIN sess' = Conns /\ sess'[k] = r /\ \A j \in Conns \ {k} : sess'[j] = sess[j]
    BY <1>3, <2>1
  <2>4. SessShape(r)  BY <1>3, <2>2 DEF SessShape
  <2>5. NotBegun(k) => NotBegun(k)'  BY <2>2, <2>3 DEF NotBegun
  <2>6. QED  BY <1>2, <2>2, <2>3, <2>4, <2>5, SessEdited
<1>5. CASE disconnect(k)
  <2>1. sess' = [sess EXCEPT ![k].listed = FALSE, ![k].ending = "user"] /\ sess[k].listed
    BY <1>5 DEF disconnect
  <2>2. DOMAIN sess' = Conns /\ \A j \in Conns \ {k} : sess'[j] = sess[j]
    BY <1>3, <2>1
  <2>3. /\ DOMAIN sess'[k] = SessFields /\ sess'[k].listed = FALSE /\ sess'[k].ending = "user"
        /\ sess'[k].sftp = sess[k].sftp /\ sess'[k].holder = sess[k].holder
        /\ sess'[k].disconnects = sess[k].disconnects
    BY <1>3, <2>1 DEF SessFields
  <2>4. SessShape(sess'[k])  BY <1>3, <2>1, <2>3 DEF SessShape
  <2>5. ~NotBegun(k)  BY <2>1 DEF NotBegun
  <2>6. QED  BY <1>2, <2>2, <2>3, <2>4, <2>5, SessEdited
<1>6. CASE FinishEnd(k)
  <2>1. /\ sess' = [sess EXCEPT ![k].ending = "done", ![k].sftp = FALSE, ![k].disconnects = @ + 1]
        /\ sess[k].ending \in {"stream", "user"} /\ sess[k].holder = "free"
    BY <1>6 DEF FinishEnd
  <2>2. DOMAIN sess' = Conns /\ \A j \in Conns \ {k} : sess'[j] = sess[j]
    BY <1>3, <2>1
  <2>3. /\ DOMAIN sess'[k] = SessFields /\ sess'[k].listed = sess[k].listed /\ sess'[k].ending = "done"
        /\ sess'[k].sftp = FALSE /\ sess'[k].holder = "free"
        /\ sess'[k].disconnects = sess[k].disconnects + 1
    BY <1>3, <2>1 DEF SessFields
  <2>4. SessShape(sess'[k])  BY <1>3, <2>1, <2>3 DEF SessShape
  <2>5. ~NotBegun(k)  BY <2>1 DEF NotBegun
  <2>6. QED  BY <1>2, <2>1, <2>2, <2>3, <2>4, <2>5, SessEdited
<1>7. QED  BY <1>4, <1>5, <1>6

(* The SFTP slot of a session.                                              *)
LEMMA SlotSteps ==
  ASSUME BastionInv, NEW c \in Calls
  PROVE  /\ \A k \in Conns : sftp_open(c, k) => BastionInv'
         /\ SftpLocked(c) => BastionInv'
         /\ \A ok \in BOOLEAN : SftpOpened(c, ok) => BastionInv'
<1>1. ASSUME NEW k \in Conns, sftp_open(c, k)  PROVE BastionInv'
  <2> DEFINE q == [pc |-> "sftp", sess |-> k]
  <2>1. Goes(c, q) /\ UNCHANGED <<flow, sess>>  BY <1>1 DEF sftp_open
  <2>2. CallShape(q) /\ q.pc \notin Connecting \cup {"sftpOpening"}  BY DEF CallShape, Connecting
  <2> HIDE DEF q
  <2>3. NoCallGains  BY <2>1, <2>2, CallMoved DEF BastionInv
  <2>4. QED  BY <2>1, <2>3, FlowsLeft, NobodyGains DEF BastionInv
<1>2. ASSUME SftpLocked(c)  PROVE BastionInv'
  <2>0. PICK k \in Conns : k = call[c].sess  BY <1>2 DEF SftpLocked, BastionInv, CallFits, CallShape
  <2> DEFINE q == [pc |-> "sftpOpening", sess |-> k]
             r == [sess[k] EXCEPT !.holder = "held"]
  <2>1. /\ UNCHANGED flow /\ sess[k].holder = "free"
        /\ \/ Done(c) /\ UNCHANGED sess
           \/ sess[k].listed /\ sess' = [sess EXCEPT ![k] = r] /\ Goes(c, q)
    BY <1>2, <2>0 DEF SftpLocked, StillListed
  <2>2. NoFlowGains  BY <2>1, FlowsLeft DEF BastionInv
  <2>3. CASE Done(c) /\ UNCHANGED sess  BY <2>2, <2>3, CallEnds, NobodyGains DEF BastionInv
  <2>4. CASE sess[k].listed /\ sess' = [sess EXCEPT ![k] = r] /\ Goes(c, q)
    <3>1. SessShape(sess[k]) /\ DOMAIN sess[k] = SessFields /\ DOMAIN sess = Conns
      BY DEF BastionInv, SessFits, SessShape
    <3>2. /\ DOMAIN r = SessFields /\ r.listed = sess[k].listed /\ r.ending = sess[k].ending
          /\ r.sftp = sess[k].sftp /\ r.holder = "held" /\ r.disconnects = sess[k].disconnects
      BY <3>1 DEF SessFields
    <3>3. CallShape(q) /\ q.pc = "sftpOpening" /\ q.pc \notin Connecting /\ q.sess = k
      BY DEF CallShape, Connecting
    <3> HIDE DEF q, r
    <3>4. sess'[k] = r /\ \A j \in Conns : j # k => sess'[j] = sess[j]  BY <2>4, <3>1
    <3>5. SessFits'
      <4>1. SessShape(r)  BY <2>4, <3>1, <3>2 DEF SessShape
      <4>2. DOMAIN sess' = Conns  BY <2>4, <3>1
      <4>3. QED  BY <3>4, <4>1, <4>2 DEF BastionInv, SessFits
    <3>6. DOMAIN call' = Calls /\ \A d \in Calls : call'[d] = IF d = c THEN q ELSE call[d]
      BY <2>4 DEF Goes, BastionInv, CallFits
    <3>7. CallFits'  BY <3>3, <3>6 DEF BastionInv, CallFits
    <3>8. \A d \in Calls, j \in Conns : CallHolds(d, j)' => CallHolds(d, j)
      BY <3>3, <3>6 DEF CallHolds
    <3>9. \A d \in Calls, j \in Conns : OpensChannel(d, j)' => IF d = c THEN j = k ELSE OpensChannel(d, j)
      BY <3>3, <3>6 DEF OpensChannel
    <3>10. \A j \in Conns : NotBegun(j) => NotBegun(j)'  BY <3>2, <3>4 DEF NotBegun
    <3>11. \A d \in Calls : ~OpensChannel(d, k)  BY <2>1 DEF BastionInv, Slot, OpeningHolds
    <3>12. Slot'
      <4>1. OneOpening'  BY <3>9, <3>11 DEF BastionInv, Slot, OneOpening
      <4>2. ASSUME NEW j \in Conns, NEW d \in Calls, OpensChannel(d, j)'  PROVE sess'[j].holder = "held"
        <5>1. CASE j = k  BY <3>2, <3>4, <5>1
        <5>2. CASE j # k
          <6>1. OpensChannel(d, j)  BY <3>9, <4>2, <5>2
          <6>2. QED  BY <3>4, <5>2, <6>1 DEF BastionInv, Slot, OpeningHolds
        <5>3. QED  BY <5>1, <5>2
      <4>3. OpeningHolds'  BY <4>2 DEF OpeningHolds
      <4>4. QED  BY <4>1, <4>3 DEF Slot
    <3>13. Ownership'
      <4>1. OneFlow'  BY <2>2 DEF NoFlowGains, BastionInv, Ownership, OneFlow
      <4>2. OneCall'  BY <3>8 DEF BastionInv, Ownership, OneCall
      <4>3. FlowOrCall'  BY <2>2, <3>8 DEF NoFlowGains, BastionInv, Ownership, FlowOrCall
      <4>4. FlowFirst'  BY <2>2, <3>10 DEF NoFlowGains, BastionInv, Ownership, FlowFirst
      <4>5. CallFirst'  BY <3>8, <3>10 DEF BastionInv, Ownership, CallFirst
      <4>6. QED  BY <4>1, <4>2, <4>3, <4>4, <4>5 DEF Ownership
    <3>14. QED  BY <2>2, <3>5, <3>7, <3>12, <3>13 DEF NoFlowGains, BastionInv
  <2>5. QED  BY <2>1, <2>3, <2>4
<1>3. ASSUME NEW ok \in BOOLEAN, SftpOpened(c, ok)  PROVE BastionInv'
  <2>0. PICK k \in Conns : k = call[c].sess  BY <1>3 DEF SftpOpened, BastionInv, CallFits, CallShape
  <2>1. /\ call[c].pc = "sftpOpening" /\ Done(c) /\ UNCHANGED flow
        /\ sess' = [sess EXCEPT ![k].holder = "free", ![k].sftp = ok]
    BY <1>3, <2>0 DEF SftpOpened
  <2>2. NoFlowGains  BY <2>1, FlowsLeft DEF BastionInv
  <2>3. NoCallGains  BY <2>1, CallEnds DEF BastionInv
  <2>4. SessShape(sess[k]) /\ DOMAIN sess[k] = SessFields /\ DOMAIN sess = Conns
    BY DEF BastionInv, SessFits, SessShape
  <2>5. OpensChannel(c, k) /\ sess[k].holder = "held"
    BY <2>0, <2>1 DEF OpensChannel, BastionInv, Slot, OpeningHolds
  <2>6. DOMAIN sess' = Conns /\ \A j \in Conns \ {k} : sess'[j] = sess[j]  BY <2>1, <2>4
  <2>7. /\ DOMAIN sess'[k] = SessFields /\ sess'[k].listed = sess[k].listed
        /\ sess'[k].ending = sess[k].ending /\ sess'[k].sftp = ok /\ sess'[k].holder = "free"
        /\ sess'[k].disconnects = sess[k].disconnects
    BY <2>1, <2>4 DEF SessFields
  <2>8. SessShape(sess'[k])  BY <2>4, <2>5, <2>7 DEF SessShape
  <2>9. \A d \in Calls : ~OpensChannel(d, k)'
    <3>1. call'[c] = Idle  BY <2>1 DEF Done, BastionInv, CallFits
    <3>2. ~OpensChannel(c, k)'  BY <3>1 DEF OpensChannel, Idle
    <3>3. QED  BY <2>3, <2>5, <3>2 DEF NoCallGains, BastionInv, Slot, OneOpening
  <2>10. NotBegun(k) => NotBegun(k)'  BY <2>7 DEF NotBegun
  <2>11. QED  BY <2>2, <2>3, <2>6, <2>8, <2>9, <2>10, SessEdited
<1>4. QED  BY <1>1, <1>2, <1>3

-----------------------------------------------------------------------------
(* The theorems.                                                            *)

LEMMA BastionInitial == ASSUME Init PROVE BastionInv
<1>1. \A f \in Flows : ~get(f)  BY DEF Init, get, Unused, UiStates
<1>2. \A c \in Calls : call[c].pc = "idle"  BY DEF Init, Idle
<1>3. FlowFits  BY <1>1 DEF Init, FlowFits
<1>4. CallFits  BY <1>2 DEF Init, CallFits, CallShape, Connecting
<1>5. SessFits  BY DEF Init, SessFits, SessShape, NoSession, SessFields
<1>6. Ownership
  BY <1>1, <1>2 DEF Ownership, OneFlow, OneCall, FlowOrCall, FlowFirst, CallFirst, FlowHolds, CallHolds, Connecting
<1>7. Slot  BY <1>2 DEF Slot, OpeningHolds, OneOpening, OpensChannel
<1>8. QED  BY <1>3, <1>4, <1>5, <1>6, <1>7 DEF BastionInv

LEMMA BastionStep == ASSUME BastionInv, [Next]_vars PROVE BastionInv'
<1>1. CASE UNCHANGED vars
  <2>1. UNCHANGED <<flow, call, sess>>  BY <1>1 DEF vars
  <2>2. QED  BY <2>1, FlowsLeft, CallsLeft, NobodyGains DEF BastionInv
<1>2. CASE \E c \in Calls, f \in Flows :
             \/ \E p \in Providers : \E step \in {"challenge", "external", "granted"} : bastion_start(c, f, p, step)
             \/ continue_auth(c, f) \/ list_assets(c, f)
             \/ \E a \in Assets : select_asset(c, f, a)
             \/ \E want \in Accounts \cup {NoAccount} : select_account(c, f, want)
             \/ \E k \in Conns : bastion_connect_flow(c, f, k)
  BY <1>2, Starts, Authenticates, Lists, Advances, Accounted, Connects
<1>3. CASE \E c \in Calls :
             \/ \E step \in {"granted", "error"} : AuthAnswered(c, step)
             \/ advance_after_authenticated(c)
             \/ \E page \in SUBSET Assets, ok \in BOOLEAN : AssetsListed(c, page, ok)
  BY <1>3, Authenticates, Advances, Lists
<1>4. CASE \E c \in Calls, ok \in BOOLEAN :
             \/ AccountsListed(c, ok) \/ SftpOpened(c, ok)
             \/ create_connection_token(c, ok) \/ connect_with_token(c, ok)
             \/ connect_with_password(c, ok)
             \/ spawn_stdio_proxy(c, ok) \/ spawn_local_proxy(c, ok) \/ wait_for_listener(c, ok)
             \/ open_with_manager(c, ok) \/ boundary_credential(c, ok)
             \/ open_prepared_ssh_session(c, ok)
  BY <1>4, Accounted, SlotSteps, ProviderSteps
<1>5. CASE \E c \in Calls :
             \/ StoreConnection(c) \/ take_connection(c) \/ SpawnReader(c) \/ InsertSession(c)
             \/ SftpLocked(c)
             \/ \E k \in Conns : sftp_open(c, k)
  BY <1>5, Stores, Takes, Opens, SlotSteps
<1>6. CASE \E f \in Flows : cancel(f)  BY <1>6, Cancels
<1>7. CASE \E k \in Conns : stream_bastion_output(k) \/ disconnect(k) \/ FinishEnd(k)  BY <1>7, Ends
<1>8. QED  BY <1>1, <1>2, <1>3, <1>4, <1>5, <1>6, <1>7 DEF Next

(* The invariant holds of every behaviour of the flows and the bridge.      *)
THEOREM BastionInductive == Spec => []BastionInv
BY BastionInitial, BastionStep, PTL DEF Spec

(* A session ends once, and its SFTP channel does not outlive it.           *)
THEOREM SessionsEndOnce == Spec => []EndsOnce
<1>1. ASSUME BastionInv  PROVE EndsOnce
  <2>1. ASSUME NEW k \in Conns
        PROVE  sess[k].disconnects <= 1 /\ (sess[k].ending = "done" => ~sess[k].sftp)
    BY <1>1 DEF BastionInv, SessFits, SessShape
  <2>2. QED  BY <2>1 DEF EndsOnce
<1>2. QED  BY <1>1, BastionInductive, PTL

-----------------------------------------------------------------------------
(* No drop is lost.                                                         *)
DropTypes ==
  /\ DOMAIN accept = Accepts
  /\ stager.pc \in {"idle", "between"} /\ DOMAIN stager = {"pc", "drops"}

(* A request that has found nothing and is about to sleep counts as well.   *)
Sleepy == {"empty", "waiting"}

DropNoticed ==
  staged # 0 /\ stager.pc = "idle" /\ (\E c \in Accepts : accept[c] \in Sleepy) =>
    permit \/ \E c \in Accepts : accept[c] = "woken"

DropInv == DropTypes /\ DropNoticed

LEMMA DropStaged ==
  ASSUME DropInv, NEW i \in 1..2, stage_upload_drop(i)
  PROVE  DropInv'
<1>1. CASE i = 1
  <2>1. stager' = [stager EXCEPT !.pc = "between"] /\ UNCHANGED accept
    BY <1>1 DEF stage_upload_drop, StageOrder
  <2>2. stager'.pc = "between" /\ DOMAIN stager' = {"pc", "drops"}
    BY <2>1 DEF DropInv, DropTypes
  <2>3. QED  BY <2>1, <2>2 DEF DropInv, DropTypes, DropNoticed
<1>2. CASE i = 2
  <2>1. /\ stager' = [pc |-> "idle", drops |-> stager.drops + 1]
        /\ \/ \E c \in Accepts : accept[c] = "waiting" /\ accept' = [accept EXCEPT ![c] = "woken"]
           \/ permit' = TRUE /\ UNCHANGED accept
    BY <1>2 DEF stage_upload_drop, StageOrder
  <2>2. DropTypes'  BY <2>1 DEF DropInv, DropTypes
  <2>3. permit' \/ \E c \in Accepts : accept'[c] = "woken"  BY <2>1 DEF DropInv, DropTypes
  <2>4. QED  BY <2>2, <2>3 DEF DropInv, DropNoticed
<1>3. QED  BY <1>1, <1>2

LEMMA DropKept ==
  ASSUME DropInv, NEW c \in Accepts,
         \/ \E r \in BOOLEAN : accept_latest_upload_drop(c, r)
         \/ Await(c) \/ Deadline(c)
         \/ \E w \in {"upload", "download"} : Select(c, w)
  PROVE  DropInv'
<1>1. UNCHANGED stager  BY DEF accept_latest_upload_drop, Await, Deadline, Select
<1>2. \E how : accept' = [accept EXCEPT ![c] = how]
  BY DEF accept_latest_upload_drop, Await, Deadline, Select
<1>3. DropTypes'  BY <1>1, <1>2 DEF DropInv, DropTypes
<1>4. DropNoticed'
  <2>1. ASSUME NEW r \in BOOLEAN, accept_latest_upload_drop(c, r)  PROVE DropNoticed'
    <3>1. staged' = 0  BY <2>1 DEF accept_latest_upload_drop
    <3>2. QED  BY <3>1 DEF DropNoticed
  <2>2. ASSUME Await(c)  PROVE DropNoticed'
    <3>1. /\ accept[c] = "empty" /\ UNCHANGED <<staged, stager>>
          /\ accept' = [accept EXCEPT ![c] = IF permit THEN "woken" ELSE "waiting"]
      BY <2>2 DEF Await
    <3>2. CASE permit
      <4>1. accept'[c] = "woken"  BY <3>1, <3>2 DEF DropInv, DropTypes
      <4>2. QED  BY <4>1 DEF DropNoticed
    <3>3. CASE ~permit
      <4>1. \A d \in Accepts : accept'[d] = IF d = c THEN "waiting" ELSE accept[d]
        BY <3>1, <3>3 DEF DropInv, DropTypes
      <4>2. staged # 0 /\ stager.pc = "idle" => \E d \in Accepts : accept[d] = "woken"
        BY <3>1, <3>3 DEF DropInv, DropNoticed, Sleepy
      <4>3. staged # 0 /\ stager.pc = "idle" => \E d \in Accepts : accept'[d] = "woken"
        BY <3>1, <4>1, <4>2
      <4>4. QED  BY <3>1, <4>3 DEF DropNoticed
    <3>4. QED  BY <3>2, <3>3
  <2>3. ASSUME Deadline(c)  PROVE DropNoticed'
    <3>1. /\ accept[c] = "waiting" /\ UNCHANGED <<staged, permit, stager>>
          /\ accept' = [accept EXCEPT ![c] = "failed"]
      BY <2>3 DEF Deadline
    <3>2. \A d \in Accepts : accept'[d] = IF d = c THEN "failed" ELSE accept[d]
      BY <3>1 DEF DropInv, DropTypes
    <3>3. QED  BY <3>1, <3>2 DEF DropInv, DropNoticed, Sleepy
  <2>4. ASSUME NEW w \in {"upload", "download"}, Select(c, w)  PROVE DropNoticed'
    <3>1. /\ accept[c] = "idle" /\ UNCHANGED <<staged, permit, stager>>
          /\ accept' = [accept EXCEPT ![c] = "done"]
      BY <2>4 DEF Select
    <3>2. \A d \in Accepts : accept'[d] = IF d = c THEN "done" ELSE accept[d]
      BY <3>1 DEF DropInv, DropTypes
    <3>3. QED  BY <3>1, <3>2 DEF DropInv, DropNoticed, Sleepy
  <2>5. QED  BY <2>1, <2>2, <2>3, <2>4
<1>5. QED  BY <1>3, <1>4 DEF DropInv
(* The buffer is the last of the output, as much of it as fits.             *)
BufferIsTail ==
  /\ context.total \in Nat /\ context.bytes \in Seq(Nat)
  /\ Len(context.bytes) = IF context.total > ContextLimit THEN ContextLimit ELSE context.total
  /\ \A i \in 1..Len(context.bytes) : context.bytes[i] = context.total - Len(context.bytes) + i

MarksAreEarlier ==
  /\ DOMAIN typist = Typists
  /\ \A a \in Typists : typist[a].pc = "typed" => typist[a].mark \in 0..context.total

TerminalInv == BufferIsTail /\ MarksAreEarlier

LEMMA TailOf ==
  ASSUME NEW s \in Seq(Nat), NEW n \in Nat, n = Len(s), NEW o \in 0..n
  PROVE  /\ SubSeq(s, o + 1, n) \in Seq(Nat) /\ Len(SubSeq(s, o + 1, n)) = n - o
         /\ \A i \in 1..(n - o) : SubSeq(s, o + 1, n)[i] = s[o + i]
<1>1. \A i \in (o + 1)..n : s[i] \in Nat  BY ElementOfSeq
<1>2. o + 1 \in Int /\ n \in Int  OBVIOUS
<1> DEFINE w == SubSeq(s, o + 1, n)
<1>3. /\ w \in Seq(Nat) /\ Len(w) = (IF o + 1 <= n THEN n - (o + 1) + 1 ELSE 0)
      /\ \A i \in 1 .. n - (o + 1) + 1 : w[i] = s[(o + 1) + i - 1]
  BY <1>1, <1>2, SubSeqProperties
<1> HIDE DEF w
<1>4. Len(w) = n - o  BY <1>3
<1>5. ASSUME NEW i \in 1..(n - o)  PROVE w[i] = s[o + i]
  <2>1. i \in 1 .. n - (o + 1) + 1 /\ (o + 1) + i - 1 = o + i  OBVIOUS
  <2>2. QED  BY <1>3, <2>1
<1>6. QED  BY <1>3, <1>4, <1>5 DEF w

LEMMA AppendKeepsTail ==
  ASSUME BufferIsTail, NEW k \in 1..(ContextLimit + 1), context' = append(k)
  PROVE  BufferIsTail' /\ context'.total = context.total + k
<1> DEFINE t == context.total
           b == context.bytes
           n == Len(b)
           ch == Chunk(k)
           all == b \o ch
<1>1. ContextLimit \in Nat \ {0} /\ k \in Nat /\ k > 0  BY SftpAssumption
<1>2. t \in Nat /\ b \in Seq(Nat) /\ n \in Nat  BY DEF BufferIsTail
<1>3. ch \in Seq(Nat) /\ Len(ch) = k /\ \A i \in 1..k : ch[i] = t + i
  <2>1. \A i \in 1..k : t + i \in Nat  BY <1>1, <1>2
  <2>2. ch \in [1..k -> Nat]  BY <2>1 DEF Chunk
  <2>3. ch \in Seq(Nat) /\ DOMAIN ch = 1..k  BY <1>1, <2>2
  <2>4. QED  BY <1>1, <2>3, LenProperties DEF Chunk
<1>4. /\ n = (IF t > ContextLimit THEN ContextLimit ELSE t)
      /\ \A i \in 1..n : b[i] = t - n + i
  BY DEF BufferIsTail
<1>5. context'.total = t + k  BY DEF append
<1>6. CASE k >= ContextLimit
  <2>1. context'.bytes = SubSeq(ch, k - ContextLimit + 1, k)  BY <1>6 DEF append
  <2> HIDE DEF t, b, n, ch
  <2> DEFINE m == context'.bytes
  <2>2. m \in Seq(Nat) /\ Len(m) = ContextLimit /\ \A i \in 1..ContextLimit : m[i] = ch[k - ContextLimit + i]
    <3> DEFINE o == k - ContextLimit
    <3>1. o \in 0..k /\ k - o = ContextLimit  BY <1>1, <1>6
    <3>2. m = SubSeq(ch, o + 1, k)  BY <2>1
    <3> HIDE DEF o, m
    <3>3. m \in Seq(Nat) /\ Len(m) = k - o /\ \A i \in 1..(k - o) : m[i] = ch[o + i]
      BY <1>1, <1>3, <3>1, <3>2, TailOf
    <3>4. QED  BY <3>1, <3>3 DEF o
  <2>3. ASSUME NEW i \in 1..ContextLimit  PROVE m[i] = t + k - ContextLimit + i
    <3>1. k - ContextLimit + i \in 1..k  BY <1>1, <1>6
    <3>2. m[i] = t + (k - ContextLimit + i)  BY <1>3, <2>2, <3>1
    <3>3. QED  BY <1>1, <1>2, <3>2
  <2>4. Len(m) = IF t + k > ContextLimit THEN ContextLimit ELSE t + k  BY <1>1, <1>2, <1>6, <2>2
  <2>5. \A i \in 1..Len(m) : m[i] = t + k - Len(m) + i  BY <2>2, <2>3
  <2>6. context'.total = t + k /\ t + k \in Nat  BY <1>1, <1>2, <1>5 DEF t
  <2> HIDE DEF m
  <2>7. QED
    <3>1. context'.bytes \in Seq(Nat) /\ context'.total \in Nat  BY <2>2, <2>4, <2>5, <2>6 DEF m
    <3>2. Len(context'.bytes) = IF context'.total > ContextLimit THEN ContextLimit ELSE context'.total
      BY <2>2, <2>4, <2>5, <2>6 DEF m
    <3> DEFINE u == context'.total
    <3>3. u = t + k  BY <2>2, <2>4, <2>5, <2>6
    <3> HIDE DEF u, m
    <3>4. \A i \in 1..Len(m) : m[i] = u - Len(m) + i  BY <1>1, <1>2, <2>2, <2>4, <2>5, <2>6, <3>3
    <3>5. u = context.total + k  BY <3>3 DEF t
    <3>6. QED  BY <3>1, <3>2, <3>4, <3>5 DEF BufferIsTail, m, u
<1>7. CASE k < ContextLimit
  <2> DEFINE over == IF Len(all) > ContextLimit THEN Len(all) - ContextLimit ELSE 0
             m == context'.bytes
  <2>0. ~(k >= ContextLimit)  BY <1>1, <1>7
  <2>1. m = SubSeq(all, over + 1, Len(all))  BY <2>0 DEF append
  <2>2. all \in Seq(Nat) /\ Len(all) = n + k /\ \A i \in 1..(n + k) : all[i] = IF i <= n THEN b[i] ELSE ch[i - n]
    <3> HIDE DEF b, ch
    <3>1. QED  BY <1>1, <1>2, <1>3
  <2> HIDE DEF t, b, n, ch, all, m
  <2>3. \A i \in 1..(n + k) : all[i] = t - n + i
    <3>1. ASSUME NEW i \in 1..(n + k)  PROVE all[i] = t - n + i
      <4>1. CASE i <= n  BY <1>1, <1>2, <1>4, <2>2, <4>1
      <4>2. CASE i > n
        <5>1. i - n \in 1..k /\ all[i] = ch[i - n]  BY <1>1, <1>2, <2>2, <4>2
        <5>2. QED  BY <1>1, <1>2, <1>3, <5>1
      <4>3. QED  BY <1>1, <1>2, <4>1, <4>2
    <3>2. QED  BY <3>1
  <2>4. over \in Nat /\ over <= n + k /\ over = IF n + k > ContextLimit THEN n + k - ContextLimit ELSE 0
    BY <1>1, <1>2, <2>2
  <2> HIDE DEF over
  <2>5. m \in Seq(Nat) /\ Len(m) = n + k - over /\ \A i \in 1..(n + k - over) : m[i] = all[over + i]
    <3> DEFINE h == n + k
    <3>1. h \in Nat /\ h = Len(all) /\ over \in 0..h /\ all \in Seq(Nat)  BY <1>1, <1>2, <2>2, <2>4
    <3>2. m = SubSeq(all, over + 1, h)  BY <2>1, <3>1
    <3> HIDE DEF h
    <3>3. m \in Seq(Nat) /\ Len(m) = h - over /\ \A i \in 1..(h - over) : m[i] = all[over + i]
      BY <3>1, <3>2, TailOf
    <3>4. QED  BY <1>1, <1>2, <2>4, <3>3 DEF h
  <2>6. \A i \in 1..(n + k - over) : m[i] = t + k - (n + k - over) + i
    <3>1. ASSUME NEW i \in 1..(n + k - over)  PROVE m[i] = t + k - (n + k - over) + i
      <4>1. over + i \in 1..(n + k)  BY <1>1, <1>2, <2>4
      <4>2. all[over + i] = t - n + (over + i)  BY <2>3, <4>1
      <4>3. QED  BY <1>1, <1>2, <2>4, <2>5, <4>2
    <3>2. QED  BY <3>1
  <2>7. n + k - over = IF t + k > ContextLimit THEN ContextLimit ELSE t + k
    BY <1>1, <1>2, <1>4, <1>7, <2>4
  <2>8. m \in Seq(Nat) /\ Len(m) = (IF t + k > ContextLimit THEN ContextLimit ELSE t + k)
        /\ \A i \in 1..Len(m) : m[i] = t + k - Len(m) + i
    BY <2>5, <2>6, <2>7
  <2>9. context'.total = t + k /\ t + k \in Nat  BY <1>1, <1>2, <1>5 DEF t
  <2>10. QED
    <3>1. context'.bytes \in Seq(Nat) /\ context'.total \in Nat  BY <2>8, <2>9 DEF m
    <3>2. Len(context'.bytes) = IF context'.total > ContextLimit THEN ContextLimit ELSE context'.total
      BY <2>8, <2>9 DEF m
    <3> DEFINE u == context'.total
    <3>3. u = t + k  BY <2>8, <2>9
    <3> HIDE DEF u, m
    <3>4. \A i \in 1..Len(m) : m[i] = u - Len(m) + i  BY <1>1, <1>2, <2>8, <2>9, <3>3
    <3>5. u = context.total + k  BY <3>3 DEF t
    <3>6. QED  BY <3>1, <3>2, <3>4, <3>5 DEF BufferIsTail, m, u
<1>8. QED  BY <1>1, <1>5, <1>6, <1>7

(* What follows a mark in such a buffer.                                    *)
LEMMA TailSince ==
  ASSUME TerminalInv
  PROVE  OutputSinceMark
<1>1. ASSUME NEW a \in Typists, typist[a].pc = "typed",
             NEW mark \in 0..context.total, mark = typist[a].mark
      PROVE  LET since == context.total - mark
                 kept == IF since > ContextLimit THEN ContextLimit ELSE since
             IN text_since(mark) = [i \in 1..kept |-> context.total - kept + i]
  <2> DEFINE t == context.total
             b == context.bytes
             n == Len(b)
             start == t - n
             offset == IF mark > start THEN mark - start ELSE 0
             kept == IF t - mark > ContextLimit THEN ContextLimit ELSE t - mark
  <2>1. ContextLimit \in Nat \ {0} /\ t \in Nat /\ b \in Seq(Nat) /\ n \in Nat /\ mark \in 0..t
    BY SftpAssumption DEF TerminalInv, BufferIsTail
  <2>2. /\ n = (IF t > ContextLimit THEN ContextLimit ELSE t)
        /\ \A i \in 1..n : b[i] = t - n + i
    BY DEF TerminalInv, BufferIsTail
  <2>3. text_since(mark) = SubSeq(b, offset + 1, n)  BY DEF text_since
  <2>n. n = Len(b)  OBVIOUS
  <2> HIDE DEF t, b, n
  <2>4. offset \in Nat /\ offset <= n /\ n - offset = kept /\ kept \in Nat  BY <2>1, <2>2
  <2> HIDE DEF offset, kept
  <2> DEFINE w == SubSeq(b, offset + 1, n)
  <2>5. w \in Seq(Nat) /\ Len(w) = kept /\ \A i \in 1..kept : w[i] = b[offset + i]
    BY <2>n, <2>1, <2>4, TailOf
  <2> HIDE DEF w
  <2>6. \A i \in 1..kept : w[i] = t - kept + i
    <3>1. ASSUME NEW i \in 1..kept  PROVE w[i] = t - kept + i
      <4>1. offset + i \in 1..n  BY <2>1, <2>4
      <4>2. b[offset + i] = t - n + (offset + i)  BY <2>2, <4>1
      <4>3. QED  BY <2>1, <2>4, <2>5, <4>2
    <3>2. QED  BY <3>1
  <2>7. w = [i \in 1..kept |-> t - kept + i]  BY <2>4, <2>5, <2>6
  <2>8. QED  BY <2>3, <2>7 DEF w, t, kept
<1>2. QED  BY <1>1 DEF TerminalInv, MarksAreEarlier, OutputSinceMark

LEMMA TerminalSteps ==
  ASSUME TerminalInv, TerminalNext
  PROVE  TerminalInv'
<1>1. ASSUME NEW k \in 1..(ContextLimit + 1), Output(k)  PROVE TerminalInv'
  <2>1. context' = append(k) /\ UNCHANGED typist  BY <1>1 DEF Output
  <2>2. BufferIsTail' /\ context'.total = context.total + k  BY <2>1, AppendKeepsTail DEF TerminalInv
  <2>3. context.total \in Nat /\ k \in Nat  BY SftpAssumption DEF TerminalInv, BufferIsTail
  <2>4. 0..context.total \subseteq 0..context'.total  BY <2>2, <2>3
  <2>5. MarksAreEarlier'  BY <2>1, <2>4 DEF TerminalInv, MarksAreEarlier
  <2>6. QED  BY <2>2, <2>5 DEF TerminalInv
<1>2. ASSUME NEW a \in Typists, execute_terminal_command(a)  PROVE TerminalInv'
  <2>1. /\ UNCHANGED context
        /\ typist' = [typist EXCEPT ![a] = [pc |-> "typed", mark |-> context.total, got |-> <<>>]]
    BY <1>2 DEF execute_terminal_command
  <2>2. QED  BY <2>1 DEF TerminalInv, MarksAreEarlier, BufferIsTail
<1>3. ASSUME NEW a \in Typists, CommandReturns(a)  PROVE TerminalInv'
  <2> DEFINE got == text_since(typist[a].mark)
  <2>1. UNCHANGED context /\ typist' = [typist EXCEPT ![a].pc = "returned", ![a].got = got]
    BY <1>3 DEF CommandReturns
  <2> HIDE DEF got
  <2>2. DOMAIN typist' = Typists /\ \A d \in Typists \ {a} : typist'[d] = typist[d]
    BY <2>1 DEF TerminalInv, MarksAreEarlier
  <2>3. typist[a].pc = "typed" /\ (typist'[a].pc = "typed" => typist'[a].mark = typist[a].mark)
    BY <1>3, <2>1 DEF CommandReturns, TerminalInv, MarksAreEarlier
  <2>4. QED  BY <2>1, <2>2, <2>3 DEF TerminalInv, MarksAreEarlier, BufferIsTail
<1>4. QED  BY <1>1, <1>2, <1>3 DEF TerminalNext

(* Any step of SftpSpec.                                                    *)
LEMMA SftpStep ==
  ASSUME DropInv, TerminalInv,
         [\/ SftpNext /\ UNCHANGED <<terminalVars, grantVars>>
          \/ TerminalNext /\ UNCHANGED <<sftpVars, grantVars>>
          \/ GrantsNext /\ UNCHANGED <<sftpVars, terminalVars>>]_<<sftpVars, terminalVars, grantVars>>
  PROVE  DropInv' /\ TerminalInv'
<1>1. UNCHANGED grantVars => DropInv'
  BY DEF grantVars, DropInv, DropTypes, DropNoticed
<1>2. UNCHANGED terminalVars => TerminalInv'
  BY DEF terminalVars, TerminalInv, BufferIsTail, MarksAreEarlier
<1>3. GrantsNext => DropInv'
  <2>1. ASSUME NEW g \in grants, NEW w, NEW f, NEW q, StartTransfer(g, w, f, q)  PROVE DropInv'
    BY <2>1 DEF StartTransfer, DropInv, DropTypes, DropNoticed
  <2>2. QED  BY <2>1, DropStaged, DropKept DEF GrantsNext
<1>4. QED  BY <1>1, <1>2, <1>3, TerminalSteps

LEMMA SftpInitial == ASSUME TerminalInit, GrantsInit PROVE DropInv /\ TerminalInv
<1>1. DropInv  BY DEF GrantsInit, DropInv, DropTypes, DropNoticed
<1>2. TerminalInv
  <2>1. context.bytes \in Seq(Nat) /\ Len(context.bytes) = 0 /\ context.total = 0
    BY DEF TerminalInit
  <2>2. BufferIsTail  BY <2>1, SftpAssumption DEF BufferIsTail
  <2>3. MarksAreEarlier  BY DEF TerminalInit, MarksAreEarlier, Quiet
  <2>4. QED  BY <2>2, <2>3 DEF TerminalInv
<1>3. QED  BY <1>1, <1>2

THEOREM SftpInductive == SftpSpec => [](DropInv /\ TerminalInv)
<1>1. SftpSpec => (DropInv /\ TerminalInv)  BY SftpInitial DEF SftpSpec
<1>2. QED  BY <1>1, SftpInitial, SftpStep, PTL DEF SftpSpec

THEOREM CommandOutputIsWhole == SftpSpec => []OutputSinceMark
BY SftpInductive, TailSince, PTL

THEOREM DropsAreNoticed == SftpSpec => []NoLostDrop
<1>1. DropInv => NoLostDrop  BY DEF DropInv, DropNoticed, Sleepy, NoLostDrop
<1>2. QED  BY <1>1, SftpInductive, PTL
=============================================================================

------------------------------ MODULE Teleport ------------------------------
(* One Teleport flow.  tsh keeps the login under its own directory: a       *)
(* console that this program opens, or any other, logs in and out there,    *)
(* and certificates expire.  The flow keeps a copy of what `tsh status`     *)
(* said when it was authenticated and asks again when it connects.          *)
EXTENDS Naturals, FiniteSets

CONSTANTS
  TshUsers, OsLogins,
  HintLogins,  \* logins an asset's own metadata may name
  MaxPolls,    \* polls before wait_for_valid_status gives up
  MaxLogins    \* bound on logins at the consoles

VARIABLES
  tsh,         \* what tsh has on disk
  telFlow,     \* the flow's AuthSession and choice
  polls,       \* polls made by the waiting continue_auth, none waiting: 0
  telConnect,  \* the connect call: its step, and the prepared connection
  reports      \* logins tsh ever reported to this flow

teleportVars == <<tsh, telFlow, polls, telConnect, reports>>

NoUser == "none"

TeleportInit ==
  /\ tsh = [user |-> NoUser, valid |-> FALSE, logins |-> {}, consoles |-> 0, made |-> 0]
  /\ telFlow = [stage |-> "none", user |-> NoUser, logins |-> {}, listed |-> {}, account |-> {}]
  /\ polls = 0
  /\ telConnect = [pc |-> "idle", status |-> {}, prepared |-> {}]
  /\ reports = {}

-----------------------------------------------------------------------------
(* tsh, used from consoles.                                                 *)

tsh_login ==
  /\ tsh.made < MaxLogins
  /\ \E user \in TshUsers, logins \in SUBSET OsLogins :
       tsh' = [tsh EXCEPT !.user = user, !.valid = TRUE, !.logins = logins, !.made = @ + 1,
                          !.consoles = IF @ > 0 THEN @ - 1 ELSE 0]
  /\ UNCHANGED <<telFlow, polls, telConnect, reports>>

tsh_logout == /\ tsh.user # NoUser
              /\ tsh' = [tsh EXCEPT !.user = NoUser, !.valid = FALSE, !.logins = {}]
              /\ UNCHANGED <<telFlow, polls, telConnect, reports>>

certificate_expires == /\ tsh.valid
                       /\ tsh' = [tsh EXCEPT !.valid = FALSE]
                       /\ UNCHANGED <<telFlow, polls, telConnect, reports>>

-----------------------------------------------------------------------------
(* What `tsh status` says: logged in if it names anything, and for how long.*)
is_valid == tsh.user # NoUser /\ tsh.valid

status == [user |-> tsh.user, logins |-> tsh.logins]

spawn_interactive_login == tsh' = [tsh EXCEPT !.consoles = @ + 1]

authenticated_session ==
  /\ telFlow' = [telFlow EXCEPT !.stage = "authenticated", !.user = status.user,
                                !.logins = status.logins]
  /\ reports' = reports \union status.logins

tsh_start_auth ==
  /\ telFlow.stage = "none"
  /\ IF is_valid
     THEN authenticated_session /\ UNCHANGED tsh
     ELSE /\ telFlow' = [telFlow EXCEPT !.stage = "pending"]
          /\ spawn_interactive_login
          /\ UNCHANGED reports
  /\ UNCHANGED <<polls, telConnect>>

(* The user asks for the console again.                                     *)
spawn_external_login ==
  /\ telFlow.stage = "pending" /\ tsh.consoles < MaxLogins
  /\ spawn_interactive_login
  /\ UNCHANGED <<telFlow, polls, telConnect, reports>>

tsh_continue_auth == /\ telFlow.stage = "pending" /\ polls = 0
                 /\ polls' = 1
                 /\ UNCHANGED <<tsh, telFlow, telConnect, reports>>

WaitWithoutDeadline == polls

NextPoll == IF polls = MaxPolls THEN 0 ELSE polls + 1

(* One poll: authenticated, out of time, or asleep until the next.          *)
wait_for_valid_status ==
  /\ polls > 0
  /\ IF is_valid THEN authenticated_session /\ polls' = 0
     ELSE /\ polls' = NextPoll
          /\ UNCHANGED <<telFlow, reports>>
  /\ UNCHANGED <<tsh, telConnect>>

-----------------------------------------------------------------------------
(* Accounts are the logins of the copy, else those tsh reports now (valid   *)
(* or not), else the one the asset's metadata names.                        *)

ListedLogins ==
  IF telFlow.logins # {} THEN {telFlow.logins}
  ELSE IF status.logins # {} THEN {status.logins}
  ELSE {{}} \union {{hint} : hint \in HintLogins}

list_os_logins ==
  /\ telFlow.stage = "authenticated"
  /\ \E logins \in ListedLogins : telFlow' = [telFlow EXCEPT !.listed = logins]
  /\ reports' = IF telFlow.logins = {} THEN reports \union status.logins ELSE reports
  /\ UNCHANGED <<tsh, polls, telConnect>>

select_os_login ==
  /\ \E login \in telFlow.listed : telFlow' = [telFlow EXCEPT !.account = {login}]
  /\ UNCHANGED <<tsh, polls, telConnect, reports>>

(* A login neither the copy nor tsh knows of is refused, unless the copy    *)
(* has none.                                                                *)
LoginAllowed(login) ==
  \/ telFlow.logins = {}
  \/ login \in telFlow.logins
  \/ login \in status.logins

prepare_status ==
  /\ telConnect.pc = "idle" /\ telFlow.stage = "authenticated"
  /\ is_valid
  /\ \E login \in telFlow.account :
       /\ LoginAllowed(login)
       /\ telConnect' = [telConnect EXCEPT !.pc = "identity", !.status = {login}]
  /\ reports' = reports \union status.logins
  /\ UNCHANGED <<tsh, telFlow, polls>>

(* The key and the certificate are whatever tsh has by then.                *)
resolve_identity_files ==
  /\ telConnect.pc = "identity"
  /\ telConnect' =
       IF tsh.user = NoUser THEN [telConnect EXCEPT !.pc = "idle"]
       ELSE [telConnect EXCEPT !.pc = "idle",
               !.prepared = {[login |-> login, certificate |-> tsh.user] : login \in telConnect.status}]
  /\ UNCHANGED <<tsh, telFlow, polls, reports>>

TeleportNext ==
  \/ tsh_login \/ tsh_logout \/ certificate_expires
  \/ tsh_start_auth \/ spawn_external_login \/ tsh_continue_auth \/ wait_for_valid_status
  \/ list_os_logins \/ select_os_login \/ prepare_status \/ resolve_identity_files

(* The runtime resumes a sleeping task.                                     *)
TeleportFairness == WF_teleportVars(wait_for_valid_status)

TeleportSpec == TeleportInit /\ [][TeleportNext]_teleportVars /\ TeleportFairness

-----------------------------------------------------------------------------
(* A flow that waits for the user's console gets an answer: a login made at *)
(* any time, withdrawn or expired again before it is seen, or never made,   *)
(* does not keep continue_auth waiting.                                     *)
LoginWaitEnds == [](polls > 0 => <>(polls = 0))
=============================================================================

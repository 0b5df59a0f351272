------------------------------ MODULE CloudKeys ------------------------------
(***************************************************************************)
(* The keys of cloud sync (cloud/service, cloud/platform) for one           *)
(* organization.  A device's key material is a data key and an envelope:    *)
(* that key wrapped by a recovery passphrase.  It is cached in memory and,  *)
(* where the platform allows, kept in the platform's key store; requests    *)
(* interleave at every await.  Ciphers are modelled by what opens them.     *)
(***************************************************************************)
EXTENDS Naturals, FiniteSets

CONSTANTS
  Holders,     \* devices
  Requests,    \* requests in progress on a device
  DataKeys,    \* data keys, each drawn once
  Passphrases

NoMaterial == [data |-> "none", pass |-> "none"]

VARIABLES
  active,   \* the cached material of each device and whether it is persisted
  store,    \* the material in each device's key store
  request,  \* what each request is doing
  drawn,    \* data keys drawn so far
  payload   \* the cloud's payload: the key of its text, and its envelope

keyVars == <<active, store, request, drawn, payload>>

Idle == [pc |-> "idle"]

Absent == [material |-> NoMaterial, persisted |-> FALSE]

KeysInit ==
  /\ active = [d \in Holders |-> Absent]
  /\ store = [d \in Holders |-> NoMaterial]
  /\ request = [r \in Holders \X Requests |-> Idle]
  /\ drawn = {}
  /\ payload = [text |-> "none", envelope |-> NoMaterial]

Goto(r, next) == request' = [request EXCEPT ![r] = next]

Continue(r, m, persisted) ==
  Goto(r, [request[r] EXCEPT !.pc = request[r].kind, !.material = m, !.persisted = persisted])

(* An export, a preview, a rotation: each begins by loading the key.  A     *)
(* preview and a rotation carry the payload they were given.                *)
begin(d, q, kind, pass) ==
  /\ request[<<d, q>>] = Idle
  /\ kind # "export" => payload.text # "none"
  /\ Goto(<<d, q>>, [pc |-> "load", kind |-> kind, pass |-> pass, payload |-> payload,
                     material |-> NoMaterial, persisted |-> FALSE])
  /\ UNCHANGED <<active, store, drawn, payload>>

(* The cache answers, or the key store is asked.                            *)
load_key_material(r) ==
  /\ request[r].pc = "load"
  /\ LET a == active[r[1]]
     IN IF a.material # NoMaterial THEN Continue(r, a.material, a.persisted)
        ELSE Goto(r, [request[r] EXCEPT !.pc = "stored"])
  /\ UNCHANGED <<active, store, drawn, payload>>

(* The store may be unavailable; what it has is cached in a later step.     *)
StoreAnswers(r) ==
  /\ request[r].pc = "stored"
  /\ \/ Continue(r, NoMaterial, FALSE)
     \/ /\ store[r[1]] = NoMaterial /\ Continue(r, NoMaterial, TRUE)
     \/ /\ store[r[1]] # NoMaterial
        /\ Goto(r, [request[r] EXCEPT !.pc = "cache", !.material = store[r[1]]])
  /\ UNCHANGED <<active, store, drawn, payload>>

CacheStored(r) ==
  /\ request[r].pc = "cache"
  /\ active' = [active EXCEPT ![r[1]] = [material |-> request[r].material, persisted |-> TRUE]]
  /\ Continue(r, request[r].material, TRUE)
  /\ UNCHANGED <<store, drawn, payload>>

(* The new material is stored, or stays in memory when that fails, and is   *)
(* cached in a later step.                                                  *)
remember_key_material(r) ==
  /\ request[r].pc = "remember"
  /\ \/ /\ store' = [store EXCEPT ![r[1]] = request[r].material]
        /\ Goto(r, [request[r] EXCEPT !.pc = "activate", !.persisted = TRUE])
     \/ /\ UNCHANGED store
        /\ IF request[r].kind = "rotate" /\ request[r].persisted
             THEN Goto(r, Idle)
             ELSE Goto(r, [request[r] EXCEPT !.pc = "activate", !.persisted = FALSE])
  /\ UNCHANGED <<active, drawn, payload>>

Activate(r) ==
  /\ request[r].pc = "activate"
  /\ active' = [active EXCEPT ![r[1]] = [material |-> request[r].material, persisted |-> request[r].persisted]]
  /\ Goto(r, [request[r] EXCEPT !.pc = "answer"])
  /\ UNCHANGED <<store, drawn, payload>>

(* Without a key, a passphrase makes one.                                   *)
export_key(r) ==
  /\ request[r].pc = "export"
  /\ IF request[r].material # NoMaterial
       THEN Goto(r, [request[r] EXCEPT !.pc = "answer"]) /\ UNCHANGED drawn
       ELSE \E k \in DataKeys \ drawn :
              /\ drawn' = drawn \cup {k}
              /\ Goto(r, [request[r] EXCEPT !.pc = "remember", !.material = [data |-> k, pass |-> request[r].pass]])
  /\ UNCHANGED <<active, store, payload>>

(* The payload's text opens with the data key it was encrypted with, and    *)
(* its envelope with the passphrase that wrapped the key: authenticated     *)
(* encryption refuses every other.                                          *)
decrypt_snapshot_with_key(sent, key) == sent.text = key

unwrap_key_material(sent, pass) == sent.envelope.pass = pass

(* The local key opens the payload, or the passphrase opens its envelope    *)
(* and the device takes that key over.                                      *)
open_preview(r) ==
  /\ request[r].pc = "preview"
  /\ LET sent == request[r].payload
     IN Goto(r, IF /\ ~decrypt_snapshot_with_key(sent, request[r].material.data)
                   /\ unwrap_key_material(sent, request[r].pass)
                   /\ decrypt_snapshot_with_key(sent, sent.envelope.data)
                THEN [request[r] EXCEPT !.pc = "remember", !.material = sent.envelope]
                ELSE Idle)
  /\ UNCHANGED <<active, store, drawn, payload>>

(* Mutant: the payload is not opened with the local key first.              *)
RotateUnopened(r) ==
  /\ request[r].pc = "rotate"
  /\ Goto(r, IF request[r].material = NoMaterial THEN Idle
             ELSE [request[r] EXCEPT !.pc = "remember",
                                     !.material = [data |-> request[r].material.data, pass |-> request[r].pass]])
  /\ UNCHANGED <<active, store, drawn, payload>>

(* The same data key is wrapped by the new passphrase.                      *)
rotate_recovery_passphrase(r) ==
  /\ request[r].pc = "rotate"
  /\ Goto(r, IF \/ request[r].material = NoMaterial
                \/ ~decrypt_snapshot_with_key(request[r].payload, request[r].material.data)
             THEN Idle
             ELSE [request[r] EXCEPT !.pc = "remember",
                                     !.material = [data |-> request[r].material.data, pass |-> request[r].pass]])
  /\ UNCHANGED <<active, store, drawn, payload>>

(* The answer of an export or of a rotation is what the cloud gets; a       *)
(* rotation keeps the text it was given.                                    *)
Answer(r) ==
  /\ request[r].pc = "answer"
  /\ payload' = CASE request[r].kind = "export"  -> [text |-> request[r].material.data, envelope |-> request[r].material]
                  [] request[r].kind = "rotate"  -> [text |-> request[r].payload.text, envelope |-> request[r].material]
                  [] request[r].kind = "preview" -> payload
  /\ Goto(r, Idle)
  /\ UNCHANGED <<active, store, drawn>>

(* The stored key is deleted first; the cached one in a later step.         *)
forget_key(d, q) ==
  /\ request[<<d, q>>] = Idle
  /\ store' = [store EXCEPT ![d] = NoMaterial]
  /\ Goto(<<d, q>>, [pc |-> "forget"])
  /\ UNCHANGED <<active, drawn, payload>>

Forgotten(r) ==
  /\ request[r].pc = "forget"
  /\ active' = [active EXCEPT ![r[1]] = Absent]
  /\ Goto(r, Idle)
  /\ UNCHANGED <<store, drawn, payload>>

(* The device restarts: only the key store stays.                           *)
restart_keys(d) ==
  /\ active' = [active EXCEPT ![d] = Absent]
  /\ request' = [r \in DOMAIN request |-> IF r[1] = d THEN Idle ELSE request[r]]
  /\ UNCHANGED <<store, drawn, payload>>

KeysNext ==
  \/ \E d \in Holders, q \in Requests, kind \in {"export", "preview", "rotate"}, pass \in Passphrases :
       begin(d, q, kind, pass)
  \/ \E d \in Holders, q \in Requests : forget_key(d, q)
  \/ \E d \in Holders : restart_keys(d)
  \/ \E r \in DOMAIN request :
       \/ load_key_material(r) \/ StoreAnswers(r) \/ CacheStored(r)
       \/ remember_key_material(r) \/ Activate(r) \/ Answer(r) \/ Forgotten(r)
       \/ export_key(r) \/ open_preview(r) \/ rotate_recovery_passphrase(r)

KeysSpec == KeysInit /\ [][KeysNext]_keyVars

-----------------------------------------------------------------------------

(* What the cloud has can be opened with a recovery passphrase: its         *)
(* envelope wraps the key its text was encrypted with, even when devices    *)
(* made keys of their own and rotations, exports, a forgotten key and       *)
(* restarts interleave.                                                     *)
PayloadIsRecoverable == payload.envelope.data = payload.text
==============================================================================

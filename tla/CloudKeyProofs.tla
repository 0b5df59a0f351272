--------------------------- MODULE CloudKeyProofs ---------------------------
(***************************************************************************)
(* What the cloud client guarantees, for any devices and requests: the      *)
(* payload in the cloud can always be opened with the passphrase of its     *)
(* envelope (CloudKeys), the groups of profiles resolve through every       *)
(* import and merge (CloudSync), and what is granted was decided            *)
(* (CloudPolicy).                                                           *)
(***************************************************************************)
EXTENDS CloudSync, CloudKeys, CloudPolicy, TLAPS

-----------------------------------------------------------------------------
(* Types.                                                                   *)

KeyNames == DataKeys \cup {"none"}

Materials == [data : KeyNames, pass : Passphrases \cup {"none"}]

Payloads == [text : KeyNames, envelope : Materials]

RequestKinds == {"export", "preview", "rotate"}

Stages == RequestKinds \cup {"load", "stored", "cache", "remember", "activate", "answer"}

Working == [pc : Stages, kind : RequestKinds, pass : Passphrases, payload : Payloads,
            material : Materials, persisted : BOOLEAN]

RequestStates == {Idle, [pc |-> "forget"]} \cup Working

HolderIds == Holders \X Requests

(* Caches, key stores, requests and the payload hold what they should.      *)
KeyTypes ==
  /\ active \in [Holders -> [material : Materials, persisted : BOOLEAN]]
  /\ store \in [Holders -> Materials]
  /\ request \in [HolderIds -> RequestStates]
  /\ payload \in Payloads

-----------------------------------------------------------------------------
(* The inductive invariant.                                                 *)

(* A request works on what it was made for.                                 *)
Purposeful(q) == q.pc \in RequestKinds => q.kind = q.pc

(* The key a rotation wraps again is the one that opened the payload it was *)
(* given, which is the text it will send.                                   *)
Faithful(q) ==
  q.pc \in {"remember", "activate", "answer"} /\ q.kind = "rotate" => q.material.data = q.payload.text

KeysInv ==
  /\ KeyTypes /\ PayloadIsRecoverable
  /\ \A r \in HolderIds : Purposeful(request[r]) /\ Faithful(request[r])

LEMMA WorkingFields ==
  ASSUME KeyTypes, NEW r \in HolderIds, request[r].pc \in Stages
  PROVE  request[r] \in Working
BY DEF KeyTypes, RequestStates, Idle, Stages, RequestKinds

LEMMA HolderOf == ASSUME NEW r \in HolderIds PROVE r[1] \in Holders
BY DEF HolderIds

(* A working request with another stage, key or place of the key.           *)
Moved(q, pc, m, b) == [q EXCEPT !.pc = pc, !.material = m, !.persisted = b]

LEMMA MovedFields ==
  ASSUME NEW q \in Working, NEW pc \in Stages, NEW m \in Materials, NEW b \in BOOLEAN
  PROVE  /\ Moved(q, pc, m, b) \in Working
         /\ Moved(q, pc, m, b).pc = pc /\ Moved(q, pc, m, b).material = m
         /\ Moved(q, pc, m, b).kind = q.kind /\ Moved(q, pc, m, b).payload = q.payload
BY DEF Moved, Working

(* One request goes on.                                                     *)
LEMMA OneRequest ==
  ASSUME KeysInv, NEW r \in HolderIds, NEW q \in RequestStates, request' = [request EXCEPT ![r] = q],
         Purposeful(q), Faithful(q)
  PROVE  /\ (request \in [HolderIds -> RequestStates])'
         /\ (\A x \in HolderIds : Purposeful(request[x]) /\ Faithful(request[x]))'
<1>1. (request \in [HolderIds -> RequestStates])'  BY DEF KeysInv, KeyTypes
<1>2. \A x \in HolderIds : request'[x] = IF x = r THEN q ELSE request[x]  BY DEF KeysInv, KeyTypes
<1>3. QED  BY <1>1, <1>2 DEF KeysInv, Purposeful, Faithful

LEMMA IdleRequest ==
  ASSUME KeysInv, NEW r \in HolderIds, NEW q \in {Idle, [pc |-> "forget"]}, request' = [request EXCEPT ![r] = q]
  PROVE  /\ (request \in [HolderIds -> RequestStates])'
         /\ (\A x \in HolderIds : Purposeful(request[x]) /\ Faithful(request[x]))'
<1>1. Purposeful(q) /\ Faithful(q)  BY DEF Purposeful, Faithful, Idle, RequestKinds
<1>2. QED  BY <1>1, OneRequest DEF RequestStates

(* A working request goes on to stage pc with key m.                        *)
LEMMA MovedRequest ==
  ASSUME KeysInv, NEW r \in HolderIds, request[r].pc \in Stages,
         NEW pc \in Stages, NEW m \in Materials, NEW b \in BOOLEAN,
         request' = [request EXCEPT ![r] = Moved(request[r], pc, m, b)],
         pc \in RequestKinds => request[r].kind = pc,
         pc \in {"remember", "activate", "answer"} /\ request[r].kind = "rotate" =>
           m.data = request[r].payload.text
  PROVE  /\ (request \in [HolderIds -> RequestStates])'
         /\ (\A x \in HolderIds : Purposeful(request[x]) /\ Faithful(request[x]))'
<1> DEFINE q == Moved(request[r], pc, m, b)
<1>1. request[r] \in Working  BY WorkingFields DEF KeysInv
<1>2. /\ q \in Working /\ q.pc = pc /\ q.material = m
      /\ q.kind = request[r].kind /\ q.payload = request[r].payload
  BY <1>1, MovedFields
<1> HIDE DEF q
<1>3. Purposeful(q) /\ Faithful(q)  BY <1>2 DEF Purposeful, Faithful
<1>4. q \in RequestStates  BY <1>2 DEF RequestStates
<1>5. request' = [request EXCEPT ![r] = q]  BY DEF q
<1>6. QED  BY <1>3, <1>4, <1>5, OneRequest
(* What a step leaves out it keeps.                                         *)
LEMMA MovedForms ==
  ASSUME NEW q \in Working, NEW pc, NEW m
  PROVE  /\ [q EXCEPT !.pc = pc] = Moved(q, pc, q.material, q.persisted)
         /\ [q EXCEPT !.pc = pc, !.material = m] = Moved(q, pc, m, q.persisted)
BY DEF Working, Moved

LEMMA WorkingParts ==
  ASSUME NEW q \in Working
  PROVE  /\ q.kind \in RequestKinds /\ q.pass \in Passphrases /\ q.payload \in Payloads
         /\ q.material \in Materials /\ q.persisted \in BOOLEAN
         /\ q.payload.envelope \in Materials /\ q.payload.text \in KeyNames
         /\ q.material.data \in KeyNames
         /\ RequestKinds \subseteq Stages
BY DEF Working, Payloads, Materials, Stages

LEMMA NoMaterialType == NoMaterial \in Materials
BY DEF NoMaterial, Materials, KeyNames

-----------------------------------------------------------------------------
(* The steps.                                                               *)

RequestKept == /\ (request \in [HolderIds -> RequestStates])'
               /\ (\A x \in HolderIds : Purposeful(request[x]) /\ Faithful(request[x]))'

(* A request that ends or goes on while everything else stays.              *)
LEMMA OnlyRequest ==
  ASSUME KeysInv, RequestKept, UNCHANGED <<active, store, payload>>
  PROVE  KeysInv'
BY DEF KeysInv, KeyTypes, PayloadIsRecoverable, RequestKept

LEMMA BeginKept ==
  ASSUME KeysInv, NEW d \in Holders, NEW q \in Requests, NEW kind \in RequestKinds,
         NEW pass \in Passphrases, begin(d, q, kind, pass)
  PROVE  KeysInv'
<1> DEFINE n == [pc |-> "load", kind |-> kind, pass |-> pass, payload |-> payload,
                 material |-> NoMaterial, persisted |-> FALSE]
<1>1. n \in Working  BY NoMaterialType DEF Working, Stages, KeysInv, KeyTypes
<1>2. Purposeful(n) /\ Faithful(n)  BY DEF Purposeful, Faithful, RequestKinds
<1>3. request' = [request EXCEPT ![<<d, q>>] = n] /\ UNCHANGED <<active, store, payload>>
  BY DEF begin, Goto
<1> HIDE DEF n
<1>4. n \in RequestStates /\ <<d, q>> \in HolderIds  BY <1>1 DEF RequestStates, HolderIds
<1>5. RequestKept  BY <1>2, <1>3, <1>4, OneRequest DEF RequestKept
<1>6. QED  BY <1>3, <1>5, OnlyRequest

LEMMA LoadKept ==
  ASSUME KeysInv, NEW r \in HolderIds, load_key_material(r) \/ StoreAnswers(r) \/ CacheStored(r)
  PROVE  KeysInv'
<1> DEFINE q == request[r]
<1>0. q.pc \in {"load", "stored", "cache"}  BY DEF load_key_material, StoreAnswers, CacheStored
<1>1. q \in Working /\ q.pc \in Stages  BY <1>0, WorkingFields DEF KeysInv, Stages
<1>2. r[1] \in Holders  BY HolderOf
<1>3. active[r[1]].material \in Materials /\ active[r[1]].persisted \in BOOLEAN /\ store[r[1]] \in Materials
  BY <1>2 DEF KeysInv, KeyTypes
<1>4. ASSUME NEW m \in Materials, NEW b \in BOOLEAN, Continue(r, m, b)
      PROVE  RequestKept
  <2>1. request' = [request EXCEPT ![r] = Moved(q, q.kind, m, b)]  BY <1>4 DEF Continue, Goto, Moved
  <2>2. q.kind \in RequestKinds /\ q.kind \in Stages  BY <1>1, WorkingParts
  <2> HIDE DEF q
  <2>3. QED  BY <1>1, <2>1, <2>2, MovedRequest DEF RequestKept, RequestKinds, q
<1>5. CASE load_key_material(r)
  <2>1. \/ Continue(r, active[r[1]].material, active[r[1]].persisted)
        \/ Goto(r, [q EXCEPT !.pc = "stored"])
    BY <1>5 DEF load_key_material
  <2>2. CASE Goto(r, [q EXCEPT !.pc = "stored"])
    <3>1. request' = [request EXCEPT ![r] = Moved(q, "stored", q.material, q.persisted)]
      BY <1>1, <2>2, MovedForms DEF Goto
    <3>2. "stored" \in Stages  BY DEF Stages
    <3>3. RequestKept
      BY <1>1, <3>1, <3>2, WorkingParts, MovedRequest DEF RequestKept, RequestKinds
    <3>4. QED  BY <1>5, <3>3, OnlyRequest DEF load_key_material
  <2>3. CASE Continue(r, active[r[1]].material, active[r[1]].persisted)
    BY <1>3, <1>4, <1>5, <2>3, OnlyRequest DEF load_key_material
  <2>4. QED  BY <2>1, <2>2, <2>3
<1>6. CASE StoreAnswers(r)
  <2>1. \/ Continue(r, NoMaterial, FALSE) \/ Continue(r, NoMaterial, TRUE)
        \/ Goto(r, [q EXCEPT !.pc = "cache", !.material = store[r[1]]])
    BY <1>6 DEF StoreAnswers
  <2>2. CASE Goto(r, [q EXCEPT !.pc = "cache", !.material = store[r[1]]])
    <3>1. request' = [request EXCEPT ![r] = Moved(q, "cache", store[r[1]], q.persisted)]
      BY <1>1, <2>2, MovedForms DEF Goto
    <3>2. "cache" \in Stages  BY DEF Stages
    <3>3. RequestKept
      BY <1>1, <1>3, <3>1, <3>2, WorkingParts, MovedRequest DEF RequestKept, RequestKinds
    <3>4. QED  BY <1>6, <3>3, OnlyRequest DEF StoreAnswers
  <2>3. CASE Continue(r, NoMaterial, FALSE) \/ Continue(r, NoMaterial, TRUE)
    BY <1>4, <1>6, <2>3, NoMaterialType, OnlyRequest DEF StoreAnswers
  <2>4. QED  BY <2>1, <2>2, <2>3
<1>7. CASE CacheStored(r)
  <2>1. q.material \in Materials  BY <1>1, WorkingParts
  <2>2. RequestKept  BY <1>4, <1>7, <2>1 DEF CacheStored
  <2>3. (active \in [Holders -> [material : Materials, persisted : BOOLEAN]])'
    BY <1>7, <2>1 DEF CacheStored, KeysInv, KeyTypes
  <2>4. QED  BY <1>7, <2>2, <2>3 DEF CacheStored, KeysInv, KeyTypes, PayloadIsRecoverable, RequestKept
<1>8. QED  BY <1>5, <1>6, <1>7
(* Storing and caching a new key changes neither the key nor its purpose.   *)
LEMMA RememberKept ==
  ASSUME KeysInv, NEW r \in HolderIds, remember_key_material(r) \/ Activate(r)
  PROVE  KeysInv'
<1> DEFINE q == request[r]
<1>0. q.pc \in {"remember", "activate"}  BY DEF remember_key_material, Activate
<1>1. q \in Working /\ q.pc \in Stages  BY <1>0, WorkingFields DEF KeysInv, Stages
<1>2. q.kind = "rotate" => q.material.data = q.payload.text  BY <1>0 DEF KeysInv, Faithful
<1>3. r[1] \in Holders  BY HolderOf
<1>4. q.material \in Materials /\ q.persisted \in BOOLEAN  BY <1>1, WorkingParts
<1>5. "activate" \in Stages /\ "answer" \in Stages  BY DEF Stages
<1>6. ASSUME NEW pc \in {"activate", "answer"}, NEW b \in BOOLEAN,
             request' = [request EXCEPT ![r] = Moved(q, pc, q.material, b)]
      PROVE  RequestKept
  BY <1>1, <1>2, <1>4, <1>5, <1>6, MovedRequest DEF RequestKept, RequestKinds
<1>7. CASE remember_key_material(r)
  <2>1. (store \in [Holders -> Materials])' /\ UNCHANGED <<active, payload>>
    BY <1>4, <1>7 DEF remember_key_material, KeysInv, KeyTypes
  <2>2. \/ request' = [request EXCEPT ![r] = Idle]
        \/ \E b \in BOOLEAN : request' = [request EXCEPT ![r] = [q EXCEPT !.pc = "activate", !.persisted = b]]
    BY <1>7 DEF remember_key_material, Goto
  <2>3. CASE request' = [request EXCEPT ![r] = Idle]
    <3>1. RequestKept  BY <2>3, IdleRequest DEF RequestKept
    <3>2. QED  BY <2>1, <3>1 DEF KeysInv, KeyTypes, PayloadIsRecoverable, RequestKept
  <2>4. ASSUME NEW b \in BOOLEAN,
               request' = [request EXCEPT ![r] = [q EXCEPT !.pc = "activate", !.persisted = b]]
        PROVE  KeysInv'
    <3>0. [q EXCEPT !.pc = "activate", !.persisted = b] = Moved(q, "activate", q.material, b)
      BY <1>1 DEF Working, Moved
    <3>1. request' = [request EXCEPT ![r] = Moved(q, "activate", q.material, b)]
      BY <2>4, <3>0
    <3>2. RequestKept  BY <1>6, <3>1
    <3>3. QED  BY <2>1, <3>2 DEF KeysInv, KeyTypes, PayloadIsRecoverable, RequestKept
  <2>5. QED  BY <2>2, <2>3, <2>4
<1>8. CASE Activate(r)
  <2>1. request' = [request EXCEPT ![r] = Moved(q, "answer", q.material, q.persisted)]
    BY <1>1, <1>8, MovedForms DEF Activate, Goto
  <2>2. RequestKept  BY <1>4, <1>6, <2>1
  <2>3. (active \in [Holders -> [material : Materials, persisted : BOOLEAN]])'
    BY <1>4, <1>8 DEF Activate, KeysInv, KeyTypes
  <2>4. QED  BY <1>8, <2>2, <2>3 DEF Activate, KeysInv, KeyTypes, PayloadIsRecoverable, RequestKept
<1>9. QED  BY <1>7, <1>8

(* An export may draw a new key, a preview takes over the key of the        *)
(* envelope, and a rotation keeps the key that opened the payload.          *)
LEMMA WorkKept ==
  ASSUME KeysInv, NEW r \in HolderIds, export_key(r) \/ open_preview(r) \/ rotate_recovery_passphrase(r)
  PROVE  KeysInv'
<1> DEFINE q == request[r]
<1>0. q.pc \in RequestKinds  BY DEF export_key, open_preview, rotate_recovery_passphrase, RequestKinds
<1>1. q.pc \in Stages  BY <1>0 DEF Stages
<1>2. q \in Working  BY <1>1, WorkingFields DEF KeysInv
<1>3. q.kind = q.pc  BY <1>0 DEF KeysInv, Purposeful
<1>4. "answer" \in Stages /\ "remember" \in Stages  BY DEF Stages
<1>5. UNCHANGED <<active, store, payload>>  BY DEF export_key, open_preview, rotate_recovery_passphrase
<1>6. ASSUME NEW pc \in {"answer", "remember"}, NEW m \in Materials,
             request' = [request EXCEPT ![r] = Moved(q, pc, m, q.persisted)],
             q.pc = "rotate" => m.data = q.payload.text
      PROVE  KeysInv'
  <2>1. RequestKept
    BY <1>1, <1>2, <1>3, <1>4, <1>6, WorkingParts, MovedRequest DEF RequestKept, RequestKinds
  <2>2. QED  BY <1>5, <2>1, OnlyRequest
<1>7. ASSUME request' = [request EXCEPT ![r] = Idle] PROVE KeysInv'
  <2>1. RequestKept  BY <1>7, IdleRequest DEF RequestKept
  <2>2. QED  BY <1>5, <2>1, OnlyRequest
<1>8. ASSUME NEW m, NEW pc
      PROVE  /\ [q EXCEPT !.pc = pc] = Moved(q, pc, q.material, q.persisted)
             /\ [q EXCEPT !.pc = pc, !.material = m] = Moved(q, pc, m, q.persisted)
  BY <1>2, MovedForms
<1>9. CASE export_key(r)
  <2>1. CASE q.material # NoMaterial
    <3>1. request' = [request EXCEPT ![r] = Moved(q, "answer", q.material, q.persisted)]
      BY <1>8, <1>9, <2>1 DEF export_key, Goto
    <3>2. q.pc # "rotate" /\ q.material \in Materials  BY <1>2, <1>9, WorkingParts DEF export_key
    <3>3. QED  BY <1>6, <3>1, <3>2
  <2>2. CASE q.material = NoMaterial
    <3>1. PICK k \in DataKeys :
            request' = [request EXCEPT ![r] = [q EXCEPT !.pc = "remember", !.material = [data |-> k, pass |-> q.pass]]]
      BY <1>9, <2>2 DEF export_key, Goto
    <3>2. [data |-> k, pass |-> q.pass] \in Materials
      BY <1>2, WorkingParts DEF Materials, KeyNames
    <3>3. q.pc # "rotate"  BY <1>9 DEF export_key
    <3>4. request' = [request EXCEPT ![r] = Moved(q, "remember", [data |-> k, pass |-> q.pass], q.persisted)]
      BY <1>8, <3>1
    <3>5. QED  BY <1>6, <3>2, <3>3, <3>4
  <2>3. QED  BY <2>1, <2>2
<1>10. CASE open_preview(r)
  <2>1. \/ request' = [request EXCEPT ![r] = Idle]
        \/ request' = [request EXCEPT ![r] = [q EXCEPT !.pc = "remember", !.material = q.payload.envelope]]
    BY <1>10 DEF open_preview, Goto
  <2>2. q.pc # "rotate" /\ q.payload.envelope \in Materials
    BY <1>2, <1>10, WorkingParts DEF open_preview
  <2>3. \/ request' = [request EXCEPT ![r] = Idle]
        \/ request' = [request EXCEPT ![r] = Moved(q, "remember", q.payload.envelope, q.persisted)]
    BY <1>8, <2>1
  <2>4. QED  BY <1>6, <1>7, <2>2, <2>3
<1>11. CASE rotate_recovery_passphrase(r)
  <2> DEFINE m == [data |-> q.material.data, pass |-> q.pass]
  <2>1. \/ request' = [request EXCEPT ![r] = Idle]
        \/ /\ request' = [request EXCEPT ![r] = [q EXCEPT !.pc = "remember", !.material = m]]
           /\ q.payload.text = q.material.data
    BY <1>11 DEF rotate_recovery_passphrase, Goto, decrypt_snapshot_with_key
  <2>2. m \in Materials /\ m.data = q.material.data
    BY <1>2, WorkingParts DEF Materials
  <2> HIDE DEF m
  <2>3. \/ request' = [request EXCEPT ![r] = Idle]
        \/ request' = [request EXCEPT ![r] = Moved(q, "remember", m, q.persisted)]
           /\ q.payload.text = q.material.data
    BY <1>8, <2>1
  <2>4. QED  BY <1>6, <1>7, <2>2, <2>3
<1>12. QED  BY <1>9, <1>10, <1>11

LEMMA AnswerKept == ASSUME KeysInv, NEW r \in HolderIds, Answer(r) PROVE KeysInv'
<1> DEFINE q == request[r]
<1>1. q.pc = "answer" /\ request' = [request EXCEPT ![r] = Idle] /\ UNCHANGED <<active, store>>
  BY DEF Answer, Goto
<1>2. q \in Working  BY <1>1, WorkingFields DEF KeysInv, Stages
<1>3. RequestKept  BY <1>1, IdleRequest DEF RequestKept
<1>4. payload' \in Payloads /\ payload'.envelope.data = payload'.text
  <2>1. q.kind = "rotate" => q.material.data = q.payload.text  BY <1>1 DEF KeysInv, Faithful
  <2>2. CASE q.kind = "export"
    <3>1. payload' = [text |-> q.material.data, envelope |-> q.material]  BY <2>2 DEF Answer
    <3>2. QED  BY <1>2, <3>1, WorkingParts DEF Payloads
  <2>3. CASE q.kind = "rotate"
    <3>1. payload' = [text |-> q.payload.text, envelope |-> q.material]  BY <2>3 DEF Answer
    <3>2. QED  BY <1>2, <2>1, <2>3, <3>1, WorkingParts DEF Payloads
  <2>4. CASE q.kind = "preview"
    <3>1. payload' = payload  BY <2>4 DEF Answer
    <3>2. QED  BY <3>1 DEF KeysInv, KeyTypes, PayloadIsRecoverable
  <2>5. QED  BY <1>2, <2>2, <2>3, <2>4, WorkingParts DEF RequestKinds
<1>5. QED  BY <1>1, <1>3, <1>4 DEF KeysInv, KeyTypes, PayloadIsRecoverable, RequestKept

LEMMA ForgetKept ==
  ASSUME KeysInv,
         \/ \E d \in Holders, q \in Requests : forget_key(d, q)
         \/ \E r \in HolderIds : Forgotten(r)
         \/ \E d \in Holders : restart_keys(d)
  PROVE  KeysInv'
<1>0. Absent \in [material : Materials, persisted : BOOLEAN]  BY NoMaterialType DEF Absent
<1>1. ASSUME NEW d \in Holders, NEW q \in Requests, forget_key(d, q) PROVE KeysInv'
  <2>1. <<d, q>> \in HolderIds  BY DEF HolderIds
  <2>2. RequestKept  BY <1>1, <2>1, IdleRequest DEF RequestKept, forget_key, Goto
  <2>3. (store \in [Holders -> Materials])'  BY <1>1, NoMaterialType DEF forget_key, KeysInv, KeyTypes
  <2>4. QED  BY <1>1, <2>2, <2>3 DEF forget_key, KeysInv, KeyTypes, PayloadIsRecoverable, RequestKept
<1>2. ASSUME NEW r \in HolderIds, Forgotten(r) PROVE KeysInv'
  <2>1. RequestKept  BY <1>2, IdleRequest DEF RequestKept, Forgotten, Goto
  <2>2. (active \in [Holders -> [material : Materials, persisted : BOOLEAN]])'
    BY <1>0, <1>2 DEF Forgotten, KeysInv, KeyTypes
  <2>3. QED  BY <1>2, <2>1, <2>2 DEF Forgotten, KeysInv, KeyTypes, PayloadIsRecoverable, RequestKept
<1>3. ASSUME NEW d \in Holders, restart_keys(d) PROVE KeysInv'
  <2>1. request' = [r \in HolderIds |-> IF r[1] = d THEN Idle ELSE request[r]]
    BY <1>3 DEF restart_keys, KeysInv, KeyTypes
  <2>2. \A x \in HolderIds : request'[x] = Idle \/ request'[x] = request[x]  BY <2>1
  <2>3. (request \in [HolderIds -> RequestStates])'  BY <2>1 DEF KeysInv, KeyTypes, RequestStates
  <2>4. (\A x \in HolderIds : Purposeful(request[x]) /\ Faithful(request[x]))'
    BY <2>2 DEF KeysInv, Purposeful, Faithful, Idle, RequestKinds
  <2>5. (active \in [Holders -> [material : Materials, persisted : BOOLEAN]])'
    BY <1>0, <1>3 DEF restart_keys, KeysInv, KeyTypes
  <2>6. QED  BY <1>3, <2>3, <2>4, <2>5 DEF restart_keys, KeysInv, KeyTypes, PayloadIsRecoverable
<1>4. QED  BY <1>1, <1>2, <1>3

LEMMA KeysInitial == ASSUME KeysInit PROVE KeysInv
<1> USE DEF KeysInit
<1>1. KeyTypes
  BY NoMaterialType DEF KeyTypes, Absent, HolderIds, RequestStates, Payloads, KeyNames
<1>2. PayloadIsRecoverable  BY DEF PayloadIsRecoverable, NoMaterial
<1>3. \A r \in HolderIds : Purposeful(request[r]) /\ Faithful(request[r])
  BY DEF Purposeful, Faithful, Idle, RequestKinds, HolderIds
<1>4. QED  BY <1>1, <1>2, <1>3 DEF KeysInv

-----------------------------------------------------------------------------
(* The inductive invariant: types, requests that do what they were made     *)
(* for, and rotations that wrap the key of the text they send.              *)
THEOREM KeysInductive == KeysSpec => []KeysInv
<1>1. ASSUME KeysInv, KeysNext PROVE KeysInv'
  <2>0. DOMAIN request = HolderIds  BY <1>1 DEF KeysInv, KeyTypes
  <2>1. ASSUME NEW d \in Holders, NEW q \in Requests, NEW kind \in {"export", "preview", "rotate"},
               NEW pass \in Passphrases, begin(d, q, kind, pass)
        PROVE  KeysInv'
    BY <1>1, <2>1, BeginKept DEF RequestKinds
  <2>2. ASSUME NEW r \in HolderIds,
               \/ load_key_material(r) \/ StoreAnswers(r) \/ CacheStored(r)
               \/ remember_key_material(r) \/ Activate(r) \/ Answer(r) \/ Forgotten(r)
               \/ export_key(r) \/ open_preview(r) \/ rotate_recovery_passphrase(r)
        PROVE  KeysInv'
    BY <1>1, <2>2, LoadKept, RememberKept, WorkKept, AnswerKept, ForgetKept
  <2>3. QED  BY <1>1, <2>0, <2>1, <2>2, ForgetKept DEF KeysNext
<1>2. ASSUME KeysInv, UNCHANGED keyVars PROVE KeysInv'
  BY <1>2 DEF keyVars, KeysInv, KeyTypes, PayloadIsRecoverable, Purposeful, Faithful
<1>3. KeysInv /\ [KeysNext]_keyVars => KeysInv'  BY <1>1, <1>2
<1>4. QED  BY <1>3, KeysInitial, PTL DEF KeysSpec

(* What the cloud has can be opened with a recovery passphrase: its         *)
(* envelope wraps the key its text was encrypted with, for any number of    *)
(* devices whose exports, previews, rotations and restarts interleave.      *)
THEOREM AlwaysRecoverable == KeysSpec => []PayloadIsRecoverable
<1>1. KeysInv => PayloadIsRecoverable  BY DEF KeysInv
<1>2. QED  BY <1>1, KeysInductive, PTL

-----------------------------------------------------------------------------
(* Cloud sync: the groups of profiles.                                      *)

Grouped(c) == \A p \in DOMAIN c \cap Servers : "group" \in DOMAIN c[p]

InGroups(c, g) == g \in (DOMAIN c \cap Groups) \cup {NoGroup}

Resolves(c) == \A p \in DOMAIN c \cap Servers : InGroups(c, c[p].group)

(* Every record of a profile has a group, also in what the cloud has and in *)
(* the previews; it is one of the device unless an apply was cut short.     *)
SyncInv ==
  /\ DOMAIN cat = Devices /\ DOMAIN pending = Devices
  /\ \A d \in Devices : Grouped(cat[d]) /\ (d \notin torn => Resolves(cat[d]))
  /\ Grouped(cloud.objects)
  /\ \A d \in Devices : \A i \in DOMAIN pending[d] : Grouped(pending[d][i].objects)

(* A catalog that may stand where this one did.                             *)
Replaces(new, c) == Grouped(new) /\ (Resolves(c) => Resolves(new))

LEMMA WithReplaces ==
  ASSUME NEW c, Grouped(c), NEW x, NEW r,
         x \in Servers => "group" \in DOMAIN r /\ (Resolves(c) => InGroups(c, r.group))
  PROVE  Replaces(With(c, x, r), c)
BY CatalogAssumption DEF With, Replaces, Grouped, Resolves, InGroups

(* Records that are dated anew.                                             *)
LEMMA DatedReplaces ==
  ASSUME NEW c, Grouped(c), NEW S, NEW t
  PROVE  Replaces([x \in DOMAIN c |-> IF x \in S THEN [c[x] EXCEPT !.at = t] ELSE c[x]], c)
<1>1. PICK new : new = [x \in DOMAIN c |-> IF x \in S THEN [c[x] EXCEPT !.at = t] ELSE c[x]]  OBVIOUS
<1>2. DOMAIN new = DOMAIN c  BY <1>1
<1>3. ASSUME NEW p \in DOMAIN c \cap Servers  PROVE "group" \in DOMAIN new[p] /\ new[p].group = c[p].group
  BY <1>1, <1>3 DEF Grouped
<1>4. Replaces(new, c)  BY <1>2, <1>3 DEF Replaces, Grouped, Resolves, InGroups
<1>5. QED  BY <1>1, <1>4

LEMMA PartReplaces ==
  ASSUME NEW c, Grouped(c), NEW S, Groups \subseteq S
  PROVE  Replaces(Part(c, S), c)
BY DEF Part, Replaces, Grouped, Resolves, InGroups

LEMMA GroupEditReplaces ==
  ASSUME SyncInv, NEW d \in Devices, GroupEdit(d)
  PROVE  \E new : cat' = [cat EXCEPT ![d] = new] /\ Replaces(new, cat[d])
<1>1. Grouped(cat[d])  BY DEF SyncInv
<1>2. ASSUME NEW g \in Groups, NEW h \in Hosts, create_group(d, g, h) \/ update_group(d, g, h)
      PROVE  \E new : cat' = [cat EXCEPT ![d] = new] /\ Replaces(new, cat[d])
  <2>1. PICK r : r = [at |-> now, host |-> h]  OBVIOUS
  <2>2. cat' = [cat EXCEPT ![d] = With(cat[d], g, r)]  BY <1>2, <2>1 DEF create_group, update_group, Put
  <2>3. g \notin Servers  BY <1>2, CatalogAssumption
  <2>4. QED  BY <1>1, <2>2, <2>3, WithReplaces
<1>3. ASSUME NEW g \in Groups, delete_group(d, g)
      PROVE  \E new : cat' = [cat EXCEPT ![d] = new] /\ Replaces(new, cat[d])
  <2>1. PICK c : c = cat[d]  OBVIOUS
  <2>2. PICK new : new = [x \in DOMAIN c \ {g} |-> IF x \in Servers /\ c[x].group = g
                           THEN [c[x] EXCEPT !.group = NoGroup, !.at = now] ELSE c[x]]
    OBVIOUS
  <2>3. cat' = [cat EXCEPT ![d] = new]  BY <1>3, <2>1, <2>2 DEF delete_group
  <2>4. ASSUME NEW p \in DOMAIN new \cap Servers
        PROVE  "group" \in DOMAIN new[p] /\ (Resolves(c) => InGroups(new, new[p].group))
    <3>1. p \in DOMAIN c \cap Servers /\ "group" \in DOMAIN c[p]  BY <1>1, <2>1, <2>2, <2>4 DEF Grouped
    <3>2. CASE c[p].group = g
      <4>1. new[p] = [c[p] EXCEPT !.group = NoGroup, !.at = now]  BY <2>2, <2>4, <3>2
      <4>2. "group" \in DOMAIN new[p] /\ new[p].group = NoGroup  BY <3>1, <4>1
      <4>3. QED  BY <4>2 DEF InGroups
    <3>3. CASE c[p].group # g
      <4>1. new[p] = c[p] /\ DOMAIN new = DOMAIN c \ {g}  BY <2>2, <2>4, <3>3
      <4>2. QED  BY <3>1, <3>3, <4>1 DEF Resolves, InGroups
    <3>4. QED  BY <3>2, <3>3
  <2>5. QED  BY <2>1, <2>3, <2>4 DEF Replaces, Grouped, Resolves
<1>4. CASE reorder_groups(d)
  <2>1. cat' = [cat EXCEPT ![d] = [x \in DOMAIN cat[d] |-> IF x \in Groups THEN [cat[d][x] EXCEPT !.at = now] ELSE cat[d][x]]]
    BY <1>4 DEF reorder_groups
  <2>2. QED  BY <1>1, <2>1, DatedReplaces
<1>5. QED  BY <1>2, <1>3, <1>4 DEF GroupEdit

LEMMA ProfileEditReplaces ==
  ASSUME SyncInv, NEW d \in Devices, ProfileEdit(d)
  PROVE  \E new : cat' = [cat EXCEPT ![d] = new] /\ Replaces(new, cat[d])
<1>1. Grouped(cat[d])  BY DEF SyncInv
<1>2. ASSUME NEW p \in Servers, NEW h \in Hosts, NEW g \in Groups \cup {NoGroup}, NEW r \in Servers \cup {DirectRoute},
             create_profile(d, p, h, g, r) \/ update_profile(d, p, h, g, r)
      PROVE  \E new : cat' = [cat EXCEPT ![d] = new] /\ Replaces(new, cat[d])
  <2>1. PICK s : s = [at |-> now, host |-> h, group |-> g, route |-> r]  OBVIOUS
  <2>2. cat' = [cat EXCEPT ![d] = With(cat[d], p, s)] /\ validate_group(d, g)
    BY <1>2, <2>1 DEF create_profile, update_profile, Put
  <2>3. "group" \in DOMAIN s /\ s.group = g /\ InGroups(cat[d], g)
    BY <1>2, <2>1, <2>2 DEF validate_group, InGroups, Has
  <2>4. QED  BY <1>1, <2>2, <2>3, WithReplaces
<1>3. ASSUME NEW p \in Servers, delete_profile(d, p)
      PROVE  \E new : cat' = [cat EXCEPT ![d] = new] /\ Replaces(new, cat[d])
  <2>1. cat' = [cat EXCEPT ![d] = Part(cat[d], Ids \ {p})]  BY <1>3 DEF delete_profile
  <2>2. Groups \subseteq Ids \ {p}  BY CatalogAssumption DEF Ids
  <2>3. QED  BY <1>1, <2>1, <2>2, PartReplaces
<1>4. ASSUME NEW p \in Servers, mark_connected(d, p)
      PROVE  \E new : cat' = [cat EXCEPT ![d] = new] /\ Replaces(new, cat[d])
  <2>1. PICK s : s = [cat[d][p] EXCEPT !.at = now]  OBVIOUS
  <2>2. cat' = [cat EXCEPT ![d] = With(cat[d], p, s)] /\ p \in DOMAIN cat[d] \cap Servers
    BY <1>4, <2>1 DEF mark_connected, Put, Has
  <2>3. "group" \in DOMAIN cat[d][p]  BY <1>1, <2>2 DEF Grouped
  <2>4. "group" \in DOMAIN s /\ s.group = cat[d][p].group  BY <2>1, <2>3
  <2>5. Resolves(cat[d]) => InGroups(cat[d], s.group)  BY <2>2, <2>4 DEF Resolves
  <2>6. QED  BY <1>1, <2>2, <2>4, <2>5, WithReplaces
<1>5. ASSUME NEW g \in Groups \cup {NoGroup}, reorder_profiles(d, g)
      PROVE  \E new : cat' = [cat EXCEPT ![d] = new] /\ Replaces(new, cat[d])
  <2>1. PICK S : S = {p \in DOMAIN cat[d] \cap Servers : cat[d][p].group = g}  OBVIOUS
  <2>2. cat' = [cat EXCEPT ![d] = [x \in DOMAIN cat[d] |-> IF x \in S THEN [cat[d][x] EXCEPT !.at = now] ELSE cat[d][x]]]
    BY <1>5, <2>1 DEF reorder_profiles
  <2>3. QED  BY <1>1, <2>2, DatedReplaces
<1>6. QED  BY <1>2, <1>3, <1>4, <1>5 DEF ProfileEdit

(* A server of an import gets a group that is here.                         *)
LEMMA ImportedReplaces ==
  ASSUME NEW c, Grouped(c), NEW p, NEW h, NEW g, InGroups(c, g)
  PROVE  Replaces(Imported(c, p, h, g), c) /\ InGroups(Imported(c, p, h, g), g)
<1>1. PICK r : r = [at |-> now, host |-> h, group |-> g,
                    route |-> IF p \in DOMAIN c THEN c[p].route ELSE DirectRoute]
  OBVIOUS
<1>2. Imported(c, p, h, g) = With(c, p, r) /\ "group" \in DOMAIN r /\ r.group = g  BY <1>1 DEF Imported
<1>3. Replaces(With(c, p, r), c)  BY <1>2, WithReplaces
<1>4. DOMAIN c \subseteq DOMAIN With(c, p, r)  BY DEF With
<1>5. QED  BY <1>2, <1>3, <1>4 DEF InGroups

LEMMA WiredReplaces ==
  ASSUME NEW c, Grouped(c), NEW p, NEW j
  PROVE  Replaces(Wired(c, p, j), c)
<1>1. PICK r : r = [[c[p] EXCEPT !.route = j] EXCEPT !.at = now]  OBVIOUS
<1>2. PICK new : new = [c EXCEPT ![p].route = j, ![p].at = now]  OBVIOUS
<1>3. DOMAIN new = DOMAIN c /\ (\A x \in DOMAIN c : x # p => new[x] = c[x]) /\ (p \in DOMAIN c => new[p] = r)
  BY <1>1, <1>2
<1>4. ASSUME NEW x \in DOMAIN c \cap Servers  PROVE "group" \in DOMAIN new[x] /\ new[x].group = c[x].group
  <2>1. "group" \in DOMAIN c[x]  BY <1>4 DEF Grouped
  <2>2. CASE x = p  BY <1>1, <1>3, <1>4, <2>1, <2>2
  <2>3. CASE x # p  BY <1>3, <1>4, <2>1, <2>3
  <2>4. QED  BY <2>2, <2>3
<1>5. Replaces(new, c)  BY <1>3, <1>4 DEF Replaces, Grouped, Resolves, InGroups
<1>6. Replaces(c, c)  BY DEF Replaces
<1>7. QED  BY <1>2, <1>5, <1>6 DEF Wired

LEMMA ImportReplaces ==
  ASSUME SyncInv, NEW d \in Devices, Import(d)
  PROVE  \E new : cat' = [cat EXCEPT ![d] = new] /\ Replaces(new, cat[d])
<1>1. PICK p \in Servers, j \in Servers, h \in Hosts, k \in Hosts, g \in Groups \cup {NoGroup} :
        upsert_import_batch(d, p, h, j, k, g)
  BY DEF Import
<1>2. PICK c, one, two, new : /\ c = cat[d] /\ one = Imported(c, p, h, g)
                              /\ two = Imported(one, j, k, g) /\ new = Wired(two, p, j)
  OBVIOUS
<1>3. cat' = [cat EXCEPT ![d] = new] /\ InGroups(c, g)
  BY <1>1, <1>2 DEF upsert_import_batch, validate_group, InGroups, Has
<1>4. Grouped(c)  BY <1>2 DEF SyncInv
<1>5. Replaces(one, c) /\ InGroups(one, g)  BY <1>2, <1>3, <1>4, ImportedReplaces
<1>6. Replaces(two, one)  BY <1>2, <1>5, ImportedReplaces DEF Replaces
<1>7. Replaces(new, two)  BY <1>2, <1>6, WiredReplaces DEF Replaces
<1>8. QED  BY <1>2, <1>3, <1>5, <1>6, <1>7 DEF Replaces

LEMMA AppEditReplaces ==
  ASSUME SyncInv, NEW d \in Devices, AppEdit(d)
  PROVE  \E new : cat' = [cat EXCEPT ![d] = new] /\ Replaces(new, cat[d])
<1>1. Grouped(cat[d])  BY DEF SyncInv
<1>2. ASSUME NEW a \in Apps, NEW p \in Servers, NEW h \in Hosts, app_save(d, a, p, h)
      PROVE  \E new : cat' = [cat EXCEPT ![d] = new] /\ Replaces(new, cat[d])
  <2>1. cat' = [cat EXCEPT ![d] = With(cat[d], a, [at |-> Seconds(now), host |-> h, profile |-> p])]
    BY <1>2 DEF app_save, Put
  <2>2. a \notin Servers  BY <1>2, CatalogAssumption
  <2>3. QED  BY <1>1, <2>1, <2>2, WithReplaces
<1>3. ASSUME NEW a \in Apps, app_delete(d, a)
      PROVE  \E new : cat' = [cat EXCEPT ![d] = new] /\ Replaces(new, cat[d])
  <2>1. PICK new : new = Part(cat[d], Ids \ {a})  OBVIOUS
  <2>2. cat' = [cat EXCEPT ![d] = new]  BY <1>3, <2>1 DEF app_delete
  <2>3. QED  BY <1>1, <2>1, <2>2, PartReplaces, CatalogAssumption DEF Ids
<1>4. QED  BY <1>2, <1>3 DEF AppEdit

-----------------------------------------------------------------------------
(* A merge.                                                                 *)

LEMMA MergedGroups ==
  ASSUME NEW s, NEW c, NEW tombs, NEW over
  PROVE  LET groups == merge_groups(s, c, tombs, over)
         IN DOMAIN groups \subseteq Groups /\ DOMAIN c \cap Groups \subseteq DOMAIN groups
<1>1. PICK taken : taken = {g \in DOMAIN s.objects \cap Groups : Takes(g, s, c, tombs, over)}  OBVIOUS
<1>2. merge_groups(s, c, tombs, over) = Over(Part(s.objects, taken), Part(c, Groups))
  BY <1>1 DEF merge_groups
<1>3. DOMAIN Part(s.objects, taken) \subseteq Groups  BY <1>1 DEF Part
<1>4. QED  BY <1>2, <1>3 DEF Over, Part

LEMMA MergedProfiles ==
  ASSUME NEW s, Grouped(s.objects), NEW c, Grouped(c), NEW tombs, NEW groups, NEW over,
         DOMAIN groups \subseteq Groups, DOMAIN c \cap Groups \subseteq DOMAIN groups
  PROVE  LET profiles == merge_profiles(s, c, tombs, groups, over)
         IN /\ DOMAIN profiles \subseteq Servers
            /\ \A p \in DOMAIN profiles : "group" \in DOMAIN profiles[p]
            /\ Resolves(c) => \A p \in DOMAIN profiles : InGroups(groups, profiles[p].group)
<1>1. PICK taken : taken = {p \in DOMAIN s.objects \cap Servers : Takes(p, s, c, tombs, over)}  OBVIOUS
<1>2. PICK f : f = [p \in taken |-> IF s.objects[p].group \in DOMAIN groups THEN s.objects[p]
                                    ELSE [s.objects[p] EXCEPT !.group = NoGroup]]
  OBVIOUS
<1>3. PICK profiles : profiles = merge_profiles(s, c, tombs, groups, over)  OBVIOUS
<1>4. profiles = Over(f, Part(c, Servers))  BY <1>1, <1>2, <1>3 DEF merge_profiles
<1>5. /\ DOMAIN profiles = taken \cup (DOMAIN c \cap Servers)
      /\ \A p \in DOMAIN profiles : profiles[p] = IF p \in taken THEN f[p] ELSE c[p]
  <2>1. DOMAIN f = taken  BY <1>2
  <2>2. QED  BY <1>4, <2>1 DEF Over, Part
<1>6. ASSUME NEW p \in taken  PROVE "group" \in DOMAIN f[p] /\ InGroups(groups, f[p].group)
  <2>1. "group" \in DOMAIN s.objects[p]  BY <1>1, <1>6 DEF Grouped
  <2>2. CASE s.objects[p].group \in DOMAIN groups
    <3>1. f[p] = s.objects[p]  BY <1>2, <1>6, <2>2
    <3>2. QED  BY <2>1, <2>2, <3>1 DEF InGroups
  <2>3. CASE s.objects[p].group \notin DOMAIN groups
    <3>1. f[p] = [s.objects[p] EXCEPT !.group = NoGroup]  BY <1>2, <1>6, <2>3
    <3>2. "group" \in DOMAIN f[p] /\ f[p].group = NoGroup  BY <2>1, <3>1
    <3>3. QED  BY <3>2 DEF InGroups
  <2>4. QED  BY <2>2, <2>3
<1>7. ASSUME NEW p \in DOMAIN profiles
      PROVE  p \in Servers /\ "group" \in DOMAIN profiles[p]
             /\ (Resolves(c) => InGroups(groups, profiles[p].group))
  <2>1. CASE p \in taken  BY <1>1, <1>5, <1>6, <1>7, <2>1
  <2>2. CASE p \notin taken
    <3>1. p \in DOMAIN c \cap Servers /\ profiles[p] = c[p]  BY <1>5, <1>7, <2>2
    <3>2. QED  BY <3>1 DEF Grouped, Resolves, InGroups
  <2>3. QED  BY <2>1, <2>2
<1>8. QED  BY <1>3, <1>7

LEMMA MergedApps ==
  ASSUME NEW s, NEW c, NEW tombs, NEW profiles, NEW over
  PROVE  DOMAIN merge_deployment_apps(s, c, tombs, profiles, over) \subseteq Apps
<1>1. PICK kept : kept = {a \in DOMAIN c \cap Apps : c[a].profile \in DOMAIN profiles}  OBVIOUS
<1>2. PICK taken : taken = {a \in DOMAIN s.objects \cap Apps :
        s.objects[a].profile \in DOMAIN profiles /\ Takes(a, s, Part(c, kept), tombs, over)}
  OBVIOUS
<1>3. merge_deployment_apps(s, c, tombs, profiles, over) = Over(Part(s.objects, taken), Part(c, kept))
  BY <1>1, <1>2 DEF merge_deployment_apps
<1>4. taken \subseteq Apps /\ kept \subseteq Apps  BY <1>1, <1>2
<1>5. QED  BY <1>3, <1>4 DEF Over, Part

(* The profiles of a group that goes move out of it.                        *)
LEMMA GroupTombstones ==
  ASSUME NEW s, NEW groups, DOMAIN groups \subseteq Groups, NEW profiles, NEW over, NEW t,
         \A p \in DOMAIN profiles : "group" \in DOMAIN profiles[p],
         t = apply_group_tombstones(s, groups, profiles, over)
  PROVE  /\ DOMAIN t.profiles = DOMAIN profiles /\ DOMAIN t.groups \subseteq Groups
         /\ \A p \in DOMAIN profiles :
              /\ "group" \in DOMAIN t.profiles[p]
              /\ InGroups(groups, profiles[p].group) => InGroups(t.groups, t.profiles[p].group)
<1>1. PICK dead : dead = Deleted(Groups, s, groups, over)  OBVIOUS
<1>2. PICK left, moved : /\ left = Part(groups, Ids \ dead)
                         /\ moved = [p \in DOMAIN profiles |->
                              IF profiles[p].group \in dead
                              THEN [profiles[p] EXCEPT !.at = s.tombstones[profiles[p].group], !.group = NoGroup]
                              ELSE profiles[p]]
  OBVIOUS
<1>4. t.groups = left /\ t.profiles = moved  BY <1>1, <1>2 DEF apply_group_tombstones
<1>5. DOMAIN left = DOMAIN groups \ dead  BY <1>2 DEF Ids, Part
<1>6. ASSUME NEW p \in DOMAIN profiles
      PROVE  "group" \in DOMAIN moved[p] /\ (InGroups(groups, profiles[p].group) => InGroups(left, moved[p].group))
  <2>1. CASE profiles[p].group \in dead
    <3>1. moved[p] = [profiles[p] EXCEPT !.at = s.tombstones[profiles[p].group], !.group = NoGroup]
      BY <1>2, <1>6, <2>1
    <3>2. "group" \in DOMAIN moved[p] /\ moved[p].group = NoGroup  BY <1>6, <3>1
    <3>3. QED  BY <3>2 DEF InGroups
  <2>2. CASE profiles[p].group \notin dead
    <3>1. moved[p] = profiles[p]  BY <1>2, <1>6, <2>2
    <3>2. QED  BY <1>5, <1>6, <2>2, <3>1 DEF InGroups
  <2>3. QED  BY <2>1, <2>2
<1>7. DOMAIN moved = DOMAIN profiles  BY <1>2
<1>8. QED  BY <1>4, <1>5, <1>6, <1>7

LEMMA MergeReplaces ==
  ASSUME NEW s, Grouped(s.objects), NEW c, Grouped(c), NEW st, NEW over
  PROVE  Replaces(Merge(s, c, st, over).objects, c)
<1>1. PICK groups, profiles, apps :
        /\ groups = merge_groups(s, c, st.tombstones, over)
        /\ profiles = merge_profiles(s, c, st.tombstones, groups, over)
        /\ apps = merge_deployment_apps(s, c, st.tombstones, profiles, over)
  OBVIOUS
<1>2. PICK apps1, second : /\ apps1 = apply_deployment_app_tombstones(s, apps, over)
                           /\ second = apply_profile_tombstones(s, profiles, apps1, over)
  OBVIOUS
<1>3. PICK left, third : /\ left = second.profiles
                         /\ third = apply_group_tombstones(s, groups, left, over)
  OBVIOUS
<1>4. PICK objects : objects = Merge(s, c, st, over).objects  OBVIOUS
<1>5. PICK rest : rest = Part(apps1, Ids \ second.orphans)  OBVIOUS
<1>6. objects = Over(third.groups, Over(third.profiles, rest))
  BY <1>1, <1>2, <1>3, <1>4, <1>5 DEF Merge
<1>7. DOMAIN groups \subseteq Groups /\ DOMAIN c \cap Groups \subseteq DOMAIN groups  BY <1>1, MergedGroups
<1>8. /\ DOMAIN profiles \subseteq Servers
      /\ \A p \in DOMAIN profiles : "group" \in DOMAIN profiles[p]
      /\ Resolves(c) => \A p \in DOMAIN profiles : InGroups(groups, profiles[p].group)
  BY <1>1, <1>7, MergedProfiles
<1>9. DOMAIN rest \subseteq Apps
  <2>1. DOMAIN apps \subseteq Apps  BY <1>1, MergedApps
  <2>2. DOMAIN apps1 \subseteq Apps  BY <1>2, <2>1 DEF apply_deployment_app_tombstones, Part
  <2>3. QED  BY <1>5, <2>2 DEF Part
<1>10. DOMAIN left \subseteq DOMAIN profiles /\ \A p \in DOMAIN left : left[p] = profiles[p]
  <2>1. PICK dead : dead = Deleted(Servers, s, profiles, over)  OBVIOUS
  <2>2. left = Part(profiles, Ids \ dead)  BY <1>2, <1>3, <2>1 DEF apply_profile_tombstones
  <2>3. QED  BY <2>2 DEF Part
<1>11. /\ DOMAIN third.profiles = DOMAIN left /\ DOMAIN third.groups \subseteq Groups
       /\ \A p \in DOMAIN left :
            /\ "group" \in DOMAIN third.profiles[p]
            /\ InGroups(groups, left[p].group) => InGroups(third.groups, third.profiles[p].group)
  <2>1. \A p \in DOMAIN left : "group" \in DOMAIN left[p]  BY <1>8, <1>10
  <2>2. QED  BY ZenonT(40), <1>3, <1>7, <2>1, GroupTombstones
<1>12. ASSUME NEW p \in DOMAIN objects \cap Servers
       PROVE  p \in DOMAIN left /\ objects[p] = third.profiles[p]
  <2>1. p \notin DOMAIN third.groups /\ p \notin DOMAIN rest  BY <1>9, <1>11, <1>12, CatalogAssumption
  <2>2. PICK both : both = Over(third.profiles, rest)  OBVIOUS
  <2>3. p \in DOMAIN both /\ objects[p] = both[p]  BY <1>6, <1>12, <2>1, <2>2 DEF Over
  <2>4. p \in DOMAIN third.profiles /\ both[p] = third.profiles[p]  BY <2>1, <2>2, <2>3 DEF Over
  <2>5. QED  BY <1>11, <2>3, <2>4
<1>13. DOMAIN third.groups \subseteq DOMAIN objects  BY <1>6 DEF Over
<1>14. ASSUME Resolves(c), NEW p \in DOMAIN objects \cap Servers  PROVE InGroups(objects, objects[p].group)
  <2>1. p \in DOMAIN left /\ objects[p] = third.profiles[p]  BY <1>12, <1>14
  <2>2. InGroups(groups, left[p].group)  BY <1>8, <1>10, <1>14, <2>1
  <2>3. InGroups(third.groups, objects[p].group)  BY <1>11, <2>1, <2>2
  <2>4. QED  BY <1>13, <2>3 DEF InGroups
<1>15. QED  BY <1>4, <1>11, <1>12, <1>14 DEF Replaces, Grouped, Resolves

-----------------------------------------------------------------------------
LEMMA ReplacedKeeps ==
  ASSUME SyncInv, NEW d \in Devices, NEW new, cat' = [cat EXCEPT ![d] = new], Replaces(new, cat[d]),
         torn' = torn, cloud' = cloud,
         DOMAIN pending' = Devices, \A e \in Devices : \A i \in DOMAIN pending'[e] : Grouped(pending'[e][i].objects)
  PROVE  SyncInv'
<1>1. /\ DOMAIN cat' = Devices /\ cat'[d] = new
      /\ \A e \in Devices : e # d => cat'[e] = cat[e]
  BY DEF SyncInv
<1>2. ASSUME NEW e \in Devices  PROVE Grouped(cat'[e]) /\ (e \notin torn => Resolves(cat'[e]))
  <2>1. CASE e = d  BY <1>1, <2>1 DEF SyncInv, Replaces
  <2>2. CASE e # d  BY <1>1, <1>2, <2>2 DEF SyncInv
  <2>3. QED  BY <2>1, <2>2
<1>3. QED  BY <1>1, <1>2 DEF SyncInv, Grouped, Resolves, InGroups

LEMMA ForgetKeeps ==
  ASSUME SyncInv, NEW d \in Devices, NEW i, pending' = Forget(pending, d, i)
  PROVE  DOMAIN pending' = Devices /\ \A e \in Devices : \A j \in DOMAIN pending'[e] : Grouped(pending'[e][j].objects)
<1>1. PICK f : f = Part(pending[d], DOMAIN pending[d] \ {i})  OBVIOUS
<1>2. pending' = [pending EXCEPT ![d] = f]  BY <1>1 DEF Forget
<1>3. \A j \in DOMAIN f : j \in DOMAIN pending[d] /\ f[j] = pending[d][j]  BY <1>1 DEF Part
<1>4. QED  BY <1>2, <1>3 DEF SyncInv

LEMMA EditKeeps == ASSUME SyncInv, NEW d \in Devices, Edit(d) PROVE SyncInv'
<1>1. PICK new : cat' = [cat EXCEPT ![d] = new] /\ Replaces(new, cat[d])
  BY GroupEditReplaces, ProfileEditReplaces, ImportReplaces, AppEditReplaces DEF Edit
<1>2. torn' = torn /\ cloud' = cloud /\ pending' = pending  BY DEF Edit
<1>3. QED  BY <1>1, <1>2, ReplacedKeeps DEF SyncInv

LEMMA ApplyKeeps ==
  ASSUME SyncInv, NEW d \in Devices, NEW i, NEW decisions, apply(d, i, decisions)
  PROVE  SyncInv'
<1>1. PICK new : new = Merge(pending[d][i], cat[d], sync[d], Override(decisions)).objects  OBVIOUS
<1>2. /\ cat' = [cat EXCEPT ![d] = new] /\ i \in DOMAIN pending[d]
      /\ pending' = Forget(pending, d, i) /\ torn' = torn /\ cloud' = cloud
  BY <1>1 DEF apply, Decided
<1>3. Replaces(new, cat[d])  BY <1>1, <1>2, MergeReplaces DEF SyncInv
<1>4. QED  BY <1>2, <1>3, ForgetKeeps, ReplacedKeeps

(* A torn apply leaves records of both catalogs.                            *)
LEMMA TornKeeps ==
  ASSUME SyncInv, NEW d \in Devices, NEW i, NEW decisions, NEW saved \in 1..3, apply_torn(d, i, decisions, saved)
  PROVE  SyncInv'
<1>1. PICK c, m, S : /\ c = cat[d] /\ m = Merge(pending[d][i], c, sync[d], Override(decisions)).objects
                     /\ S = (CASE saved = 1 -> Groups [] saved = 2 -> Groups \cup Servers [] saved = 3 -> Ids)
  OBVIOUS
<1>2. PICK new : new = Over(Part(m, S), Part(c, Ids \ S))  OBVIOUS
<1>3. /\ cat' = [cat EXCEPT ![d] = new] /\ i \in DOMAIN pending[d]
      /\ torn' = torn \cup {d} /\ cloud' = cloud /\ pending' = pending
  BY <1>1, <1>2 DEF apply_torn, Decided
<1>4. Grouped(m) /\ Grouped(c)  BY <1>1, <1>3, MergeReplaces DEF SyncInv, Replaces
<1>5. Grouped(new)
  <2>1. ASSUME NEW p \in DOMAIN new \cap Servers  PROVE "group" \in DOMAIN new[p]
    <3>1. CASE p \in DOMAIN Part(m, S)
      <4>1. p \in DOMAIN m \cap Servers /\ new[p] = m[p]  BY <1>2, <2>1, <3>1 DEF Over, Part
      <4>2. QED  BY <1>4, <4>1 DEF Grouped
    <3>2. CASE p \notin DOMAIN Part(m, S)
      <4>1. p \in DOMAIN c \cap Servers /\ new[p] = c[p]  BY <1>2, <2>1, <3>2 DEF Over, Part
      <4>2. QED  BY <1>4, <4>1 DEF Grouped
    <3>3. QED  BY <3>1, <3>2
  <2>2. QED  BY <2>1 DEF Grouped
<1>6. /\ DOMAIN cat' = Devices /\ cat'[d] = new
      /\ \A e \in Devices : e # d => cat'[e] = cat[e]
  BY <1>3 DEF SyncInv
<1>7. ASSUME NEW e \in Devices  PROVE Grouped(cat'[e]) /\ (e \notin torn' => Resolves(cat'[e]))
  <2>1. CASE e = d  BY <1>3, <1>5, <1>6, <2>1
  <2>2. CASE e # d  BY <1>3, <1>6, <1>7, <2>2 DEF SyncInv
  <2>3. QED  BY <2>1, <2>2
<1>8. QED  BY <1>3, <1>6, <1>7 DEF SyncInv, Grouped, Resolves, InGroups

LEMMA PreviewKeeps ==
  ASSUME SyncInv, NEW d \in Devices, NEW i, preview(d, i)
  PROVE  SyncInv'
<1>1. PICK f : f = With(pending[d], i, cloud)  OBVIOUS
<1>2. pending' = [pending EXCEPT ![d] = f] /\ cat' = cat /\ torn' = torn /\ cloud' = cloud
  BY <1>1 DEF preview
<1>3. \A j \in DOMAIN f : f[j] = cloud \/ (j \in DOMAIN pending[d] /\ f[j] = pending[d][j])  BY <1>1 DEF With
<1>4. QED  BY <1>2, <1>3 DEF SyncInv, Grouped, Resolves, InGroups

LEMMA SyncStep ==
  ASSUME SyncInv, [SyncNext]_syncVars
  PROVE  SyncInv'
<1>1. ASSUME NEW d \in Devices, export(d)  PROVE SyncInv'
  <2>1. cat' = cat /\ torn' = torn /\ pending' = pending /\ cloud'.objects = cat[d]  BY <1>1 DEF export
  <2>2. QED  BY <2>1 DEF SyncInv, Grouped, Resolves, InGroups
<1>2. ASSUME NEW d \in Devices, restart(d) \/ \E i \in Imports : discard(d, i)  PROVE SyncInv'
  <2>1. cat' = cat /\ torn' = torn /\ cloud' = cloud  BY <1>2 DEF restart, discard
  <2>2. DOMAIN pending' = Devices /\ \A e \in Devices : \A i \in DOMAIN pending'[e] : Grouped(pending'[e][i].objects)
    <3>1. CASE restart(d)
      <4>1. pending' = [pending EXCEPT ![d] = <<>>] /\ DOMAIN <<>> = {}  BY <3>1 DEF restart
      <4>2. QED  BY <4>1 DEF SyncInv
    <3>2. CASE \E i \in Imports : discard(d, i)  BY <3>2, ForgetKeeps DEF discard
    <3>3. QED  BY <1>2, <3>1, <3>2
  <2>3. QED  BY <2>1, <2>2 DEF SyncInv, Grouped, Resolves, InGroups
<1>3. CASE UNCHANGED syncVars  BY <1>3 DEF syncVars, SyncInv, Grouped, Resolves, InGroups
<1>4. QED  BY <1>1, <1>2, <1>3, EditKeeps, PreviewKeeps, ApplyKeeps, TornKeeps DEF SyncNext

LEMMA SyncStarts ==
  ASSUME SyncInit
  PROVE  SyncInv
<1>1. PICK start \in Starts : cat = [d \in Devices |-> start]  BY DEF SyncInit, CatalogInit
<1>2. PICK e \in Devices : cloud = [objects |-> cat[e], tombstones |-> <<>>]  BY DEF SyncInit
<1>3. Grouped(start) /\ Resolves(start)  BY CatalogAssumption DEF Grouped, Resolves, InGroups
<1>4. cloud.objects = start  BY <1>1, <1>2
<1>5. pending = [d \in Devices |-> <<>>] /\ DOMAIN <<>> = {}  BY DEF SyncInit
<1>6. QED  BY <1>1, <1>3, <1>4, <1>5 DEF SyncInv

(* A profile's group is in the catalog of its device, for any devices,      *)
(* catalogs, edits, imports and decisions, whatever the cloud has, unless   *)
(* an apply was cut short on the device (apply of cloud/service.rs).        *)
THEOREM GroupsAlwaysResolve == SyncSpec => []GroupsResolve
<1>1. SyncInv => GroupsResolve  BY DEF SyncInv, GroupsResolve, Resolves, InGroups
<1>2. QED  BY <1>1, SyncStarts, SyncStep, PTL DEF SyncSpec

-----------------------------------------------------------------------------
(* Cloud policy: decisions.                                                 *)

(* While the user has the device bound, memory and file agree with the user *)
(* on the organization.  The file keeps an organization only with profiles, *)
(* so the device must have some.                                            *)
BoundAsTold ==
  bound # NoOrg /\ ~emptied =>
    /\ managing = bound /\ assigned # {}
    /\ disk.managing = bound /\ disk.assigned # {}

PolicyInv ==
  /\ DOMAIN call = Calls /\ \A c \in Calls : "pc" \in DOMAIN call[c]
  /\ emptied \in BOOLEAN
  /\ BoundAsTold

(* What a step grants was decided.                                          *)
DecidedNow ==
  \A c \in Calls :
    call'[c].pc = "granted" /\ call[c].pc # "granted" /\ bound # NoOrg /\ ~emptied =>
      \E d \in cache' : /\ d.org = call'[c].org /\ d.profile = call'[c].profile
                        /\ d.allowed /\ call'[c].since < d.issued + Lifetime

LEMMA PersistedFits ==
  ASSUME NEW profiles, NEW org, NEW decisions, profiles # {}
  PROVE  /\ persisted_state(profiles, org, decisions).managing = org
         /\ persisted_state(profiles, org, decisions).assigned = profiles
BY DEF persisted_state

(* Calls that are as they were grant nothing.                               *)
LEMMA NoCallMoves == ASSUME call' = call PROVE DecidedNow
BY DEF DecidedNow

LEMMA BindingKeeps ==
  ASSUME PolicyInv,
         \/ \E o \in Orgs, profiles \in SUBSET Managed : bind(o, profiles)
         \/ \E o \in Orgs : unbind(o)
         \/ \E profiles \in SUBSET Managed : reconcile_profiles(profiles)
  PROVE  PolicyInv' /\ DecidedNow
<1>1. ASSUME NEW o \in Orgs, NEW profiles \in SUBSET Managed, bind(o, profiles)
      PROVE  PolicyInv' /\ DecidedNow
  <2>1. call' = call /\ profiles # {} /\ assigned' = profiles /\ managing' = o /\ bound' = o /\ emptied' = FALSE
        /\ disk' = persisted_state(profiles, o, {})
    BY <1>1 DEF bind, Save
  <2>2. BoundAsTold'  BY <2>1, PersistedFits DEF BoundAsTold
  <2>3. QED  BY <2>1, <2>2, NoCallMoves DEF PolicyInv
<1>2. ASSUME NEW o \in Orgs, unbind(o)  PROVE  PolicyInv' /\ DecidedNow
  <2>1. call' = call /\ emptied' = emptied /\ bound' = IF bound = o THEN NoOrg ELSE bound  BY <1>2 DEF unbind
  <2>2. ASSUME bound' # NoOrg, ~emptied'
        PROVE  managing' = managing /\ assigned' = assigned /\ bound' = bound
               /\ assigned # {} /\ managing = bound /\ disk' = persisted_state(assigned, managing, cache')
    <3>1. bound # o /\ bound' = bound  BY <2>1, <2>2
    <3>2. managing = bound /\ assigned # {}  BY <2>1, <2>2, <3>1 DEF PolicyInv, BoundAsTold
    <3>3. QED  BY <1>2, <3>1, <3>2 DEF unbind, Save
  <2>3. BoundAsTold'  BY <2>2, PersistedFits DEF BoundAsTold
  <2>4. QED  BY <2>1, <2>3, NoCallMoves DEF PolicyInv
<1>3. ASSUME NEW profiles \in SUBSET Managed, reconcile_profiles(profiles)
      PROVE  PolicyInv' /\ DecidedNow
  <2>1. /\ call' = call /\ bound' = bound /\ managing' = managing /\ assigned' = profiles
        /\ emptied' = (emptied \/ profiles = {}) /\ disk' = persisted_state(profiles, managing, cache')
    BY <1>3 DEF reconcile_profiles, Save
  <2>2. BoundAsTold'
    <3>1. SUFFICES ASSUME bound' # NoOrg, ~emptied'
                   PROVE  managing' = bound' /\ assigned' # {} /\ disk'.managing = bound' /\ disk'.assigned # {}
      BY DEF BoundAsTold
    <3>2. profiles # {} /\ ~emptied /\ bound # NoOrg  BY <2>1, <3>1
    <3>3. managing = bound  BY <3>2 DEF PolicyInv, BoundAsTold
    <3>4. QED  BY <2>1, <3>2, <3>3, PersistedFits
  <2>3. emptied' \in BOOLEAN  BY <2>1
  <2>4. QED  BY <2>1, <2>2, <2>3, NoCallMoves DEF PolicyInv
<1>4. QED  BY <1>1, <1>2, <1>3

(* A call that is neither granted nor decided here.                         *)
LEMMA CallKeeps ==
  ASSUME PolicyInv, NEW c \in Calls, NEW next, "pc" \in DOMAIN next, next.pc # "granted",
         call' = [call EXCEPT ![c] = next],
         UNCHANGED <<assigned, managing, disk, bound, emptied>>
  PROVE  PolicyInv' /\ DecidedNow
<1>1. /\ DOMAIN call' = Calls /\ call'[c] = next
      /\ \A x \in Calls : x # c => call'[x] = call[x]
  BY DEF PolicyInv
<1>2. \A x \in Calls : "pc" \in DOMAIN call'[x]  BY <1>1 DEF PolicyInv
<1>3. DecidedNow  BY <1>1 DEF DecidedNow
<1>4. QED  BY <1>1, <1>2, <1>3 DEF PolicyInv, BoundAsTold

LEMMA AuthorizeKeeps ==
  ASSUME PolicyInv, NEW c \in Calls, NEW p \in Managed, authorize(c, p)
  PROVE  PolicyInv' /\ DecidedNow
<1>1. PICK next : next = IF managing = NoOrg THEN [pc |-> "granted", org |-> bound, profile |-> p, since |-> time]
                         ELSE [pc |-> IF signedIn THEN "asked" ELSE "offline", org |-> managing, profile |-> p,
                               since |-> time]
  OBVIOUS
<1>2. call' = [call EXCEPT ![c] = next] /\ UNCHANGED <<assigned, managing, disk, bound, emptied>>
  BY <1>1 DEF authorize
<1>3. "pc" \in DOMAIN next  BY <1>1
<1>4. CASE managing = NoOrg
  <2>1. bound = NoOrg \/ emptied  BY <1>4 DEF PolicyInv, BoundAsTold
  <2>2. /\ DOMAIN call' = Calls /\ call'[c] = next
        /\ \A x \in Calls : x # c => call'[x] = call[x]
    BY <1>2 DEF PolicyInv
  <2>3. \A x \in Calls : "pc" \in DOMAIN call'[x]  BY <1>3, <2>2 DEF PolicyInv
  <2>4. DecidedNow  BY <2>1, <2>2 DEF DecidedNow
  <2>5. QED  BY <1>2, <2>2, <2>3, <2>4 DEF PolicyInv, BoundAsTold
<1>5. CASE managing # NoOrg
  <2>1. next.pc # "granted"  BY <1>1, <1>5
  <2>2. QED  BY <1>2, <1>3, <2>1, CallKeeps
<1>6. QED  BY <1>4, <1>5

(* A call that ends with a decision of the cache.                           *)
LEMMA ResultKeeps ==
  ASSUME PolicyInv, NEW c \in Calls, NEW allowed, call' = [call EXCEPT ![c] = Result(c, allowed)],
         bound' = bound, emptied' = emptied, BoundAsTold',
         allowed => \E d \in cache' : verify_decision(d, call[c].org, call[c].profile, call[c].since) /\ d.allowed
  PROVE  PolicyInv' /\ DecidedNow
<1>1. PICK next : next = Result(c, allowed)  OBVIOUS
<1>2. /\ next.pc = (IF allowed THEN "granted" ELSE "refused") /\ "pc" \in DOMAIN next
      /\ next.org = call[c].org /\ next.profile = call[c].profile /\ next.since = call[c].since
  BY <1>1 DEF Result
<1>3. /\ DOMAIN call' = Calls /\ call'[c] = next
      /\ \A x \in Calls : x # c => call'[x] = call[x]
  BY <1>1 DEF PolicyInv
<1>4. \A x \in Calls : "pc" \in DOMAIN call'[x]  BY <1>2, <1>3 DEF PolicyInv
<1>5. DecidedNow
  <2>1. CASE ~allowed  BY <1>2, <1>3, <2>1 DEF DecidedNow
  <2>2. CASE allowed
    <3>1. PICK d \in cache' : verify_decision(d, call[c].org, call[c].profile, call[c].since) /\ d.allowed  BY <2>2
    <3>2. d.org = call'[c].org /\ d.profile = call'[c].profile /\ call'[c].since < d.issued + Lifetime
      BY <1>2, <1>3, <3>1 DEF verify_decision
    <3>3. QED  BY <1>3, <3>1, <3>2 DEF DecidedNow
  <2>3. QED  BY <2>1, <2>2
<1>6. QED  BY <1>3, <1>4, <1>5 DEF PolicyInv

LEMMA CachedKeeps ==
  ASSUME PolicyInv, NEW c \in Calls, cached_result(c)
  PROVE  PolicyInv' /\ DecidedNow
<1>1. PICK allowed \in BOOLEAN :
        allowed <=> \E d \in cache : verify_decision(d, call[c].org, call[c].profile, call[c].since) /\ d.allowed
  OBVIOUS
<1>2. call' = [call EXCEPT ![c] = Result(c, allowed)]  BY <1>1 DEF cached_result, PolicyInv
<1>3. UNCHANGED <<assigned, managing, cache, disk, bound, emptied>>  BY DEF cached_result
<1>4. BoundAsTold'  BY <1>3 DEF PolicyInv, BoundAsTold
<1>5. QED  BY <1>1, <1>2, <1>3, <1>4, ResultKeeps

LEMMA AnswerKeeps ==
  ASSUME PolicyInv, NEW c \in Calls, persist_cached_decision(c)
  PROVE  PolicyInv' /\ DecidedNow
<1>1. PICK d : d = call[c].decision  OBVIOUS
<1>2. bound' = bound /\ emptied' = emptied  BY DEF persist_cached_decision
<1>3. CASE verify_decision(d, call[c].org, call[c].profile, call[c].since)
  <2>1. /\ Save(assigned, managing, {e \in cache : e.org # d.org \/ e.profile # d.profile} \cup {d})
        /\ call' = [call EXCEPT ![c] = Result(c, d.allowed)]
    BY <1>1, <1>3 DEF persist_cached_decision
  <2>2. /\ assigned' = assigned /\ managing' = managing /\ d \in cache'
        /\ disk' = persisted_state(assigned, managing, cache')
    BY <2>1 DEF Save
  <2>3. BoundAsTold'  BY <1>2, <2>2, PersistedFits DEF PolicyInv, BoundAsTold
  <2>4. PICK allowed : allowed = d.allowed  OBVIOUS
  <2>5. allowed => \E e \in cache' : verify_decision(e, call[c].org, call[c].profile, call[c].since) /\ e.allowed
    BY <1>3, <2>2, <2>4
  <2>6. call' = [call EXCEPT ![c] = Result(c, allowed)]  BY <2>1, <2>4
  <2>7. QED  BY <1>2, <2>3, <2>5, <2>6, ResultKeeps
<1>4. CASE ~verify_decision(d, call[c].org, call[c].profile, call[c].since)
  <2>1. PICK next : next = [call[c] EXCEPT !.pc = "offline"]  OBVIOUS
  <2>2. call' = [call EXCEPT ![c] = next] /\ UNCHANGED <<assigned, managing, disk, bound, emptied>>
    BY <1>1, <1>2, <1>4, <2>1 DEF persist_cached_decision
  <2>3. "pc" \in DOMAIN next /\ next.pc = "offline"  BY <2>1 DEF PolicyInv
  <2>4. QED  BY <2>2, <2>3, CallKeeps
<1>5. QED  BY <1>3, <1>4

LEMMA AskingKeeps ==
  ASSUME PolicyInv, NEW c \in Calls, authorize_online(c) \/ NoAnswer(c) \/ Done(c)
  PROVE  PolicyInv' /\ DecidedNow
<1>1. UNCHANGED <<assigned, managing, disk, bound, emptied>>  BY DEF authorize_online, NoAnswer, Done
<1>2. CASE authorize_online(c)
  <2>1. PICK next : next = [pc |-> "answered", org |-> call[c].org, profile |-> call[c].profile, since |-> call[c].since,
          decision |-> [org |-> call[c].org, profile |-> call[c].profile,
                        allowed |-> rule[call[c].org][call[c].profile], issued |-> time]]
    OBVIOUS
  <2>2. call' = [call EXCEPT ![c] = next]  BY <1>2, <2>1 DEF authorize_online
  <2>3. "pc" \in DOMAIN next /\ next.pc = "answered"  BY <2>1
  <2>4. QED  BY <1>1, <2>2, <2>3, CallKeeps
<1>3. CASE NoAnswer(c)
  <2>1. PICK next : next = [call[c] EXCEPT !.pc = "offline"]  OBVIOUS
  <2>2. call' = [call EXCEPT ![c] = next]  BY <1>3, <2>1 DEF NoAnswer
  <2>3. "pc" \in DOMAIN next /\ next.pc = "offline"  BY <2>1 DEF PolicyInv
  <2>4. QED  BY <1>1, <2>2, <2>3, CallKeeps
<1>4. CASE Done(c)
  <2>1. "pc" \in DOMAIN Quiet /\ Quiet.pc = "quiet" /\ call' = [call EXCEPT ![c] = Quiet]
    BY <1>4 DEF Done, Quiet
  <2>2. QED  BY <1>1, <2>1, CallKeeps
<1>5. QED  BY <1>2, <1>3, <1>4

(* A restart finds what the file has.                                       *)
LEMMA LoadKeeps ==
  ASSUME PolicyInv, load
  PROVE  PolicyInv' /\ DecidedNow
<1>1. /\ assigned' = disk.assigned /\ managing' = disk.managing /\ call' = [c \in Calls |-> Quiet]
      /\ disk' = disk /\ bound' = bound /\ emptied' = emptied
  BY DEF load
<1>2. "pc" \in DOMAIN Quiet /\ Quiet.pc = "quiet"  BY DEF Quiet
<1>3. BoundAsTold'  BY <1>1 DEF PolicyInv, BoundAsTold
<1>4. DecidedNow  BY <1>1, <1>2 DEF DecidedNow
<1>5. QED  BY <1>1, <1>2, <1>3, <1>4 DEF PolicyInv

LEMMA PolicyStep ==
  ASSUME PolicyInv, [PolicyNext]_policyVars
  PROVE  PolicyInv' /\ DecidedNow
<1>1. CASE refresh \/ lock \/ Pass \/ UNCHANGED policyVars
      \/ \E o \in Orgs, p \in Managed : RuleChanges(o, p)
  <2>1. UNCHANGED <<assigned, managing, disk, call, bound, emptied>>
    BY <1>1 DEF refresh, lock, Pass, RuleChanges, policyVars
  <2>2. QED  BY <2>1, NoCallMoves DEF PolicyInv, BoundAsTold
<1>2. QED
  BY <1>1, BindingKeeps, LoadKeeps, AuthorizeKeeps, AskingKeeps, AnswerKeeps, CachedKeeps DEF PolicyNext

LEMMA PolicyStart == PolicyInit => PolicyInv
<1>1. SUFFICES ASSUME PolicyInit PROVE PolicyInv  OBVIOUS
<1>2. "pc" \in DOMAIN Quiet  BY DEF Quiet
<1>3. call = [c \in Calls |-> Quiet] /\ bound = NoOrg /\ emptied = FALSE  BY <1>1 DEF PolicyInit
<1>4. QED  BY <1>2, <1>3 DEF PolicyInv, BoundAsTold

(* While the user has the device bound to an organization, an action is     *)
(* granted only on a decision of it, about this profile, that allows it and *)
(* had not expired when the action was asked for: for any organizations,    *)
(* profiles, calls, times and durations of requests (authorize of           *)
(* cloud/policy.rs).                                                        *)
THEOREM GrantsWereDecided == PolicySpec => GrantsAreDecided
<1>1. PolicyInv /\ [PolicyNext]_policyVars => PolicyInv' /\ DecidedNow  BY PolicyStep
<1>2. QED  BY <1>1, PolicyStart, PTL DEF PolicySpec, GrantsAreDecided, DecidedNow
=============================================================================
